# TLA+ models of the Codex app-server driver

The driver (`cmd/driver`) claims work items from an invocation service, runs each as one turn of a
Codex app server, keeps the item's lease alive meanwhile and settles it. This directory holds TLA+
models of its core, the TLC configurations that check them, and TLAPS proofs of their safety for
every value of the constants.

## Inventory

| Part | State it keeps | Operations | What is hard |
|---|---|---|---|
| transmit loop, `internal/transmit` | `status.Counts`, per step a `leaseRenewal`, the channels `started` and `result` | `Run`, `Step`, `transmitClaim`, `runTurn`, `startTurn`, `waitForStart`, `renewUntilDone`, `Extend`, `ack`, `nack`, `interruptActiveTurn` | two goroutines share counts and renewal; three selects; cancellation at any point; an extension that fails while the turn completes |
| invocation client, `internal/invoke` | none | `Metadata`, `Claim`, `Extend`, `Ack`, `Nack` | a request may take effect although its caller saw an error, or after the caller is gone; no timeouts; expiries cut to seconds |
| app server client, `internal/control` | an id counter; per connection a socket and a reader | `StartThread`, `RunTurn`, `InterruptTurn`, `Ready`, `open`, frames | answers interleaved with notifications; the connection is closed from a second goroutine; only the dial follows the context |
| daemon start, `control/daemon.go` | none | `EnsureDaemon`, `ReadDaemonVersion` | an external command |
| install, `internal/install` | `install.json`, `protocol/`, `runner/` under the home | `Apply`, `Upgrade`, `Remove`, `Load` | three files written one after the other, each truncated first; crashes and overlapping commands |
| driver commands, `cmd/driver` | none | `install`, `upgrade`, `remove`, `run`, `status`, `doctor` | which records a command accepts |
| compatibility, `internal/compatibility` | none | `Verify`, `CheckApp`, `CheckMetadata`, `CheckRecordVersion` | ranges, lists and versions that must agree |
| configuration, `internal/config` | none | `Read`, `Validate`, `ExtractPromptText`, `ControlSocketPath` | a pointer into a document; containment of a path |
| readiness gate, `internal/status/daemon.go` | a temporary root, a daemon process | `CheckDaemon` | process identity, stop and cleanup when any of them fails |
| counts and rendering, `internal/status` | `Counts` | `Render` | which counters are true when |

How they interact. `driver run` loads the record that `driver install` wrote, checks its version,
makes sure the daemon runs, and enters `Run` with a context that SIGINT cancels. `Step` calls the
invocation service over HTTP. For a claimed item it starts a thread, then spawns `startTurn`, which
calls `RunTurn`; from within that call the client calls back `OnStarted`, which extends the lease
for the first time and closes `started`. The main goroutine waits for `started`, `result` or the
context (`waitForStart`), then renews on every tick until one of `result`, a failed renewal or the
context ends the wait (`renewUntilDone`). The turn is settled with `ack` or `nack`, and any error
of those, of the claim or of an extension ends `Run`.

What makes each part correct:

- transmit: what the service is told of a lease is what happened to its turn; one lease and one
  HTTP call at a time; a lease that could not be extended is left to expire and its turn is
  interrupted; renewals grow; counters are true; a cancelled driver stops unless the app server
  leaves it without an answer.
- install: what is run was verified; a record of another driver version is not rewritten; a
  command that reports success has done all it stands for; one configuration does not silently
  replace another.
- leases on the clock: a renewal is in time although fractions of seconds are cut off, and a dead
  driver's lease does not outlive it by too much.
- control client: an answer is only taken for the request it answers; `RunTurn` returns how its turn
  ended and no other; a cancelled turn returns; no socket stays open.
- readiness gate: only the process that was started is ever killed; the root is removed only once
  the daemon is gone and none can come up any more; a daemon that is left running is reported; a
  success stands for a thread that was started and a daemon that was stopped.
- compatibility and configuration: pointers, frames, paths and digests mean what they say, and a
  diagnosis names something that is wrong.

## Modules

| Module | What it is |
|---|---|
| `Transmit` | the transmit loop, both goroutines, the HTTP calls and the two services as their clients use them; properties; inductive invariant `IInv` |
| `MCTransmit` | constants for TLC: a clock of two ticks a second |
| `Durations` | the clock, `time.Duration` with its width, and times as they are sent; shared by `Transmit` and `LeaseTiming` |
| `TransmitProofs` | `IInv` of `Transmit` is invariant, and the safety that follows from it |
| `TransmitRefinement` | `Transmit` implements `LeaseProtocol` and uses `TurnCall`, step by step |
| `TransmitAccounts` | the counters and the expiries of `Transmit` |
| `LeaseProtocol` | abstract: what the two services may rely on when they deal with a driver; `Transmit` implements it |
| `TurnCall` | abstract: one call of `RunTurn` as its caller and the app server see it; `AppConnection` implements it, `Transmit` uses it |
| `AppConnection`, `MCAppConnection` | the app server client message by message; properties; two calls for TLC |
| `AppConnectionProofs` | proofs about `AppConnection`, its refinement of `TurnCall` among them |
| `LeaseTiming`, `MCLeaseTiming` | one lease in time; properties; leases and durations for TLC |
| `LeaseTimingProofs` | proofs about `LeaseTiming` |
| `PromptPointer`, `Frames`, `ControlPath`, `SchemaDigest`, `Compatibility` | pure algorithms, each with the definition it is checked against |
| `Algorithms` | what these are given, as assumptions on constants, and one property of each |
| `MCAlgorithms` | bounded inputs for TLC |
| `AlgorithmProofs` | the properties of `Algorithms` for every input |
| `Install` | the commands on a driver home; properties; `IInv` |
| `MCInstall` | constants for TLC: configurations and records |
| `InstallProofs` | proofs about `Install`, of overlapping commands and of one at a time |
| `DaemonReadiness` | `CheckDaemon` against a machine whose daemon and process numbers come and go; properties; `IInv` |
| `MCDaemonReadiness` | constants for TLC: the processes that may take the number over |
| `DaemonReadinessProofs` | proofs about `DaemonReadiness` |

Operators introduced by a comment `Seeded fault` are variants of the operator that follows. No
behaviour of a specification uses them; they are there to show that a property notices the fault.

### Transmit

A step is numbered by `counts.ClaimAttempts`. A lease id is generated for each attempt, so the
number also stands for the lease, its work item and its turn. `pc` is the place of the main
goroutine:

| `pc` | code |
|---|---|
| `loop` | the head of `Run` |
| `verify` | `checkCompatibility` |
| `claim` | waiting for `/claim` |
| `idle` | `wait` after an empty claim |
| `thread` | `StartThread` |
| `waitStart` | `waitForStart` |
| `renew`, `extend` | the select of `renewUntilDone`, and the `Extend` of a tick |
| `interruptUnrenewed`, `interruptCancelled` | `interruptActiveTurn` after a failed renewal, after the context |
| `settle` | waiting for `/ack` or `/nack` |
| `stopped`, `failed`, `unrenewed`, `killed` | `Run` has returned nil, an error, `errExtensionFailed`; the process is gone |

`tpc[s]` is the place of the goroutine of step `s`: `open`, `write` and `decode` in `RunTurn`,
`extend`, `interrupt` in `OnStarted`, `returning` between `close(started)` and the send on
`result`, `completion` in `waitForCompletion`, `returned` after the send. `Counts.ThreadID`,
`ActiveLeaseID`, `WorkItemID` and `LastErrorCode` are only reported and are left out.

An HTTP call is a request that the service may apply (`Serve`, `ServeClaim`), whose answer the
caller may take, or which the caller gives up at any time (`Abandon`): if it was not applied by
then it stays in `stray`, from where it may still be applied later or never. So an error covers a
request that was refused, lost, applied without an answer, or applied after the error. A request
under a cancelled context fails before it is sent, as net/http does it. `ExpireLease` lets any
lease run out at any time; extends, acks and nacks of it then fail. The clock itself is not
modelled: a tick may come at any time. `NextExpiresAt` adds `LeaseDuration`, which wraps as
`time.Duration` does (`Durations`): `config.Validate` does not bound `lease_seconds`. Of a lease that
overflows (`~Fits`), renewals may ask for any expiry, before the epoch too (`Times`); `RenewalsGrow`
is about leases that fit, everything else about all.

The app server may start a turn it was asked for, end a running one in any of three ways, and
stops a turn it is asked to interrupt, or does not hear of it. `TurnError` stands for every way
in which `RunTurn` fails outside `OnStarted`. The child context of `runTurn` is cancelled only
where the step ends, so it needs no variable of its own.

### LeaseProtocol and TurnCall

`LeaseProtocol` knows a lease, a turn and whether the driver works, could not extend a lease, or has
ended. `Protocol` in `Transmit` substitutes its own `lease` and `turn`, and `DriverState` for the
driver; `KeepsProtocol` says that every behaviour is one of the protocol: no grant while another lease
is unsettled, no turn without a lease, no settlement that contradicts the turn, none at all after a
failed extension.

`TurnCall` is the seam between `Transmit` and `AppConnection`. `AppConnection` refines it for each call
(`KeepsTurnCall`: phase and result are read off the program counter and the reply, the turn is the app
server's). `Transmit` models the same call with fewer steps, and `UsesTurnCall` says that it assumes no
more than the contract grants. So the outcomes that `Transmit` gives to a turn goroutine are those that
the messages of a connection can produce.

### AppConnection

Each call of a method opens a connection, so a connection stands for its call and, for `RunTurn`, for its
turn. `at` is the place in the method: `dial`, `upgrading`, `notUpgraded`, `initializing`, `notInitialized`
in `open`; `opened` where `open` has returned; `asking` before the request; `calling` in `decodeResponse` or
`decodeStartedTurn`; `callback` in `OnStarted`; `completion` in `waitForCompletion`; `returning` from a
`return` on, while what was deferred runs. Nothing closes a socket by returning: `open` does on its two
error paths (`UpgradeFailed`, `InitializeFailed`), `Ready` by itself (`Readied`), and the others by what
they have deferred (`Opened`, `defers`, `RunDeferred`, the last one first). For `RunTurn` that is the end of
the goroutine that watches the context (`watched`) and then the `Close`; the goroutine may have closed
first. A `Write` succeeds unless the client has closed the socket; a read takes the next message, fails on
one that is no text or not of the expected shape (`odd`), or on a broken connection with nothing left to
read (`Broken`). `CloseWithContext` is the second goroutine, from the moment `open` has returned until it is
stopped. The app server answers the requests of a connection in their order, may refuse any, sends
notifications, completions of other clients' turns and odd frames whenever it likes, ends turns by itself or
when interrupted, hangs up, or says nothing any more. A request written before a close may still be read
after it.

Assumed: its answer to `initialize` is the first thing it says on a connection (`Greeted`); without this
`notifyReady` takes whatever comes first for the answer, since ids are never compared. Numbers of
requests are therefore left out: a request is its method.

### LeaseTiming

Time passes in ticks of half a second in the runs, of any fraction in the proofs. A call of the
invocation service takes at most `MaxCall`, `StartThread` and the start of the turn together at most
`MaxStart`; the code bounds neither, so `InTime` is an assumption, and says which durations are short
enough: the first extension before the claim's expiry, the first tick's before that of the first
extension, which has lost the fraction of its second. The claim is taken to carry its expiry. `Half` is
the range of `time.Duration` (`Durations`); a lease whose seconds do not fit wraps, and `LeaseKept` and
`LeadBounded` are about leases that fit. The service may forget what was sent when the step is
over, or apply it while the lease is still held.

### Pure algorithms

`Algorithms` brings the five together: a state is one input (`input`), and its assumptions are all that the
properties ask of it. Payloads are JSON values with keys of bytes (`PayloadsAssumption`); an opcode has four
bits and a length is one of an `int` (`FramesAssumption`); paths are sequences of segments
(`PathsAssumption`); directories hold finitely many files, with no NUL in their paths or contents and
distinct keys in the objects (`DirectoriesAssumption`); situations of the compatibility checks are `Shaped`
(`SituationsAssumption`).

- `PromptPointer`: `ExtractPromptText`. The reference goes the other way: every value of a payload, with
  `~` and `/` in its keys escaped, is found at its pointer. Strings are sequences of bytes; of the spaces
  that `strings.TrimSpace` removes, those beyond ASCII are left out.
- `Frames`: `appendLength`, `writeText`, `readFrame`. Two frames after one another are read as they were
  written. Payloads and masks are blocks of a length; the masking is not modelled.
- `ControlPath`: `pathInside` and the gate's `inside` over `filepath.Clean` and `filepath.Rel`. The
  reference counts, for each name on a path, whether a later `..` takes it back. Paths are absolute, as
  `requireAbsolutePath` demands; symbolic links are not modelled.
- `SchemaDigest`: what `schemaDigest` feeds to SHA-256, which is taken to tell any two inputs apart. A
  `.json` file is an object and whatever follows it, which `Decode` leaves unread; any other file is hashed
  as it is. The reference says which files say the same (`SaysSame`). Keys and values are single characters,
  and a file that is not JSON has no NUL: with one it could be taken for two files. A `.json` file that does
  not decode is the drift of `Compatibility` (`wellFormed`).
- `Compatibility`: `Verify` with all its checks in their order, and what `doctor` and `run` ask before and
  around it, `EnsureDaemon` and `ReadDaemonVersion` included. The reference lists everything that is wrong,
  each for itself; the code given must be in the list. Requirements are validated first (`Validate`), as
  `Verify` and the decoding of the embedded manifest do it; the parts that have one valid value only are a
  Boolean (`fixed`), and numbers of versions fit an int. `MCAlgorithms` also gives it manifests with one
  part changed. Three things the reference makes visible: a missing route is always `metadata_malformed`,
  because the routes must be exactly the published ones before `route_missing` is asked for; and a control
  socket that does not answer, or a home that does not own it, is `metadata_malformed` too, the default of
  `Code`. Last, a record that is not current is wrong for `run`, and `doctor` overlooks it as long as it
  can read it (`Overlooked`). `DiagnosisTrue` says so, and that `run` comes as far as a claim where nothing
  at all is wrong; that `doctor` foretells this (`DoctorForetellsRun`) is violated, finding 4.

### Install

Every command is a process that may overlap others, fail at any system call and be killed between
any two. `disk` holds the three owned paths. `os.WriteFile` is two actions: `Open` truncates,
`Write` fills. A file that `Remove` unlinks meanwhile takes the writer's content with it (`linked`).
Two writers of one file leave the later one's content: the decoder reads one value and ignores what
a longer predecessor left behind it. A read of the record is one action; a read torn by a concurrent
truncation is the torn file. Lost disk caches (power failure) are not modelled. `VerifiedBefore` are
the configurations that a current record held before any command of the model began.

### DaemonReadiness

`pc` is the place of `CheckDaemon` and, from `stop` on, of `cleanupDaemon`: `session`, `root`, `dirs` and
`seed` are the checks of `newSession`, its `MkdirTemp`, `createDirs` and `seedManagedPath`; `start`,
`discover` and `version` are in `startDaemon` and `checkDaemonVersion`; `thread` is `startDaemonThread`;
`stop`, `socket`, `pid` are the steps of `cleanupDaemon`; `command`, `executable`, `home` the three reads of
`processEvidence`, each a system call of its own; `kill` and `after` the signal and the second look;
`remove` the deferred `removeAll`. `known` are the fields of the session that `readDaemonResponse` or
`discoverPidFile` has filled. A command under a cancelled context fails, so the context needs no variable.

`holder` is who has the daemon's process number: nobody yet, the daemon, nobody any more, or one of
`Others` to which the kernel gave the number next. The machine moves on between any two steps of the
gate: the daemon comes up late, even after the start command was given up (`Boot`), makes and removes
its files (`Files`), ends (`Exit`), and its number is taken over (`Takeover`). `steady` is a history
variable: the number has not changed hands since the gate began to read of its process.

Assumed of the external daemon: the number in a response or the pid file is its own, it does not
restart itself, and its environment is the one it was started with.

## Runs

| Run | Bounds | Distinct states | What it shows |
|---|---|---|---|
| `transmit` | 2 steps, ticks until 3 extensions are counted, claims expiring at the zero time or half a second past one | 408 768 | the eleven safety and action properties of `Transmit`; that it implements `LeaseProtocol` and uses `TurnCall` |
| `transmit_live` | 2 steps, 2 extensions | 229 483 | `CancelStops`, `TurnResolved` |
| `transmit_interrupt` | 1 step | until the violation | finding 1 |
| `install` | 3 overlapping commands, 6 initial records | 253 958 up to symmetry | `RunsVerified`, `ForeignKept` under concurrency |
| `install_serial` | 4 commands one after the other | 932 663 up to symmetry | `NoOverwrite`, `TornKept`, `SuccessMeansDone` |
| `install_repeat` | 3 commands, one after the other, on an empty home | until the violation | finding 2 |
| `readiness` | the daemon and three other processes | 23 232 | `RootOutlivesDaemon`, `LeftRunningReported`, `SuccessMeansDone`, `OnlyOwnedKilled` |
| `readiness_kill` | as above | until the violation | finding 3 |
| `app_connection` | `RunTurn` with `InterruptTurn`, `StartThread` with `Ready`; 1 unasked message | 229 225 | that it implements `TurnCall`; `AnswersMatch`, `InterruptReached`, `SocketsClosed`, `CancelledTurnReturns`, `CompletionHeard` |
| `lease_timing` | leases of 2 and 3 seconds, and three that overflow 32 ticks; calls of half a second; 16 ticks | 19 289 | `LeaseKept`, `LeadBounded` |
| `algorithms` | one state is one input, see `MCAlgorithms` | 34 263 | `PointersReach`, `FramesAligned`, `PathsContained`, `DigestTells`, `DiagnosisTrue` |
| `algorithms_update` | as above | until the violation | finding 4 |

Why the bounds are enough. Two steps are what the properties about earlier steps need: whatever a first step
leaves behind (a goroutine, a request, a turn id in the counts, a count) is there for the second to meet.
Three counted extensions are the first one of `OnStarted`, a tick that builds on its expiry, and a tick that
builds on a tick's; further ones repeat the third. A granted expiry of one and a half seconds makes the cut
to whole seconds visible at every renewal. Three commands at a time cover a writer and a remover around a
reader; four in a row cover an interrupted command, the repair attempt, the removal and a new install. The
gate runs once and is not bounded; the three other processes are the ways in which one can look like the
daemon: not at all, the same binary with another home, the session's home with another binary. Two
connections are enough because a call only ever meets others through the turn they are about: the one that
runs it and one that interrupts it; a single unasked message is one between any two that the call waits for,
of any kind, and completions of the turn add to it. Sixteen ticks hold four renewals of the shortest lease.
Payloads of two levels and keys of two characters contain every way in which an escape can meet a separator
or another escape, and an array of twelve has indices of one digit and of two; lengths lie on both sides of
each boundary of a frame's header, up to 2^31 - 1, the largest number of TLC; four segments suffice to leave
a directory of two and come back; two files are needed for a collision, of either kind; three versions with
a gap give every order of a published one. The proofs lift all of these bounds for the properties they
cover.

Deadlock is checked in every run but `lease_timing`, where time ends at its bound. The transmit loop stops
only in an exit of `Run` (`Terminated`), the commands when all have ended (`AllEnded`), the gate when it has
returned and the calls of `AppConnection` when all have (`Terminated`).

### Fairness

`DriverSpec` assumes that the goroutines of the driver are scheduled, and not that what they wait for comes.
An HTTP call, or the verification before a claim, ends for certain only under a cancelled context
(`AwaitsService`). So does `RunTurn`, once its handshake is done, since `closeWithContext` closes the
connection. `StartThread`, `InterruptTurn` and the handshake of `RunTurn` read without a deadline and
nothing closes their connection, so they are never forced to end; `AwaitsApp` are the places where the main
goroutine waits for one. `CancelStops` then says what the code can promise: after SIGINT the driver ends,
unless it stays at `AwaitsApp` for ever. Without that exception it is violated, by a `StartThread` that is
not answered; so only an app server that falls silent on one of these two calls can keep a cancelled driver.
`TurnResolved` is about the two goroutines and not about the peers: it holds if the service and the app
server answer and turns that were asked for start and end (`PeersAnswer`). Weak fairness is enough: none of
these steps is disabled again by another actor before it is taken, except by the step itself having another
way out.

`ClientFairness` of `AppConnection` assumes that the goroutines of a call are scheduled when they have
something to do, and that `OnStarted` returns. It assumes nothing of the app server: `CancelledTurnReturns`
holds when it falls silent, because `closeWithContext` ends the read. Before `open` has returned, and in
the methods other than `RunTurn`, nothing reacts to the context and nothing is claimed.

## Findings

1. `transmit_interrupt`: a context that is cancelled before `renewUntilDone` is entered can end the
   driver without an interrupt of the turn that is already running. `waitForStart` may take
   `ctx.Done()` although `started` is closed, or while `OnStarted` is still extending the lease.
   `TestStepInterruptsActiveTurnWhenContextCancels` expects the interrupt.
2. `install_repeat`: an install that fails or is killed after the record was written is reported as
   successful when it is repeated, although the protocol and runner files are missing. `upgrade`
   repairs such a home (`SuccessMeansDone`).
3. `readiness_kill`: a gate that has killed its daemon may still report `process_still_alive` and
   keep the root. SIGKILL is asynchronous, and `cleanupProcess` looks at `/proc` once, right after
   it. `TestRunKillsOwnedLiveProcessBeforeRemovingTempRoot` expects the removal.
4. `algorithms_update`: `doctor` accepts every record it can read, `run` only those of the current version.
   With a record of version 1 or 2, as an update leaves it behind, `doctor` prints `compatible` and `run`
   ends with `install_record_upgrade_required`. `docs/update.md` has `doctor` follow an update, with no
   `upgrade` in between, and the README says that it reruns the compatibility checks.

A property that fails only outside what the repository promises is not listed: with two installs at
the same time one configuration can replace the other, since `Apply` looks for the record and writes
it in separate steps. `NoOverwrite` is therefore checked for one command at a time.

## Proofs

`TransmitProofs` proves, for every number of steps and extensions, clock resolution, lease length and
granted expiry (`BoundsAssumption`, `ClockAssumption`, `RangeAssumption`), leases that overflow included,
that `IInv` is invariant, and from it `TypeOK`, `SettlementsMatchTurn`, `UnrenewedNeverSettled`,
`UnrenewedInterrupted`, `OneLeaseAtATime`, `OneCallAtATime`, `NoLeakedTurn`, `OrphansNacked` and the action
property `InterruptsOwnTurn`. None of these is inductive by itself. `IInv` adds:

- `StepsInv`: steps to come are untouched, steps gone by are over and settled, or were empty;
- `TurnInv`: the turn goroutine, its channels and the app server's turn agree;
- `MainInv`: the place of the main goroutine tells how far the turn of its step has come;
- `CallInv`: a call belongs to the goroutine that waits for it and to the current step;
- `StrayInv`: a request is given up only by a step that ends the driver;
- `SettleInv`: every settlement, sent, under way or recorded, is justified (`Justified`): the turn
  goroutine is over, did not end for its lease, and the turn ended as the settlement says.

The step lemmas have one named step per action. The heart of the argument is `CurrentTurn`: a turn
goroutine that is not over is that of the current step, and neither its lease is settled nor has the
main goroutine gone on. `TurnReturnedPreserves` shows that each outcome justifies the settlement
that `transmitClaim` maps it to.

`TransmitRefinement` proves that the loop implements `LeaseProtocol` (`ProtocolIsKept`) and that each of its
turns moves as `TurnCall` allows (`CallsAreUsed`): the initial states are initial states there, and each
action is one of the abstract actions or none. `IInv` says what the driver did with an answer, not what the
service has done; what is missing is `GrantInv`:

- `TurnUnderLease`: a turn goroutine works under a lease that was granted, and is past its request only if
  the app server has the turn;
- `Granted`: a claim that was answered was granted;
- `ClaimGivenUp`: a claim that was given up is the last thing the driver did, and a late grant of it finds
  an untouched step, which is how the protocol lets it happen.

`TransmitAccounts` proves `CountsTruthful` and `RenewalsGrow`. `CountsInv` sets the counters against the
settlements the service has recorded: while `Run` goes on they differ by the one answer that is on its way
(`Unheard`), and the steps taken are those counted as empty, acked or nacked and the one in hand; afterwards
the counters may only be behind. `ExpiryInv` bounds the service's expiry of the lease in hand by the one the
driver has, or is about to hear of, until an extension of it has failed: then it may or may not have been
applied, and the driver does not extend again. Rounding is in `WholeSecondsBelow` and `NextIsLater`: a
renewal adds a second or more, and less than one is cut off. This is where the lease must fit: the product
may wrap, and `RenewalsAlwaysGrow` says nothing of leases for which it does.

`AppConnectionProofs` proves, for any number of calls of any methods, `TypeOK`, `AnswersMatch`,
`InterruptReached`, `SocketsClosed`, and that `RunTurn` implements `TurnCall` (`KeepsTurnCall`). The client
compares no ids, so everything rests on what is on the wire in which order. Its `IInv` says for each call:

- `ClosingInv`: no socket before the dial, no result before the return, and who owes the close at each
  place: as long as nothing is deferred, `open` and `Ready` themselves; then the deferred functions, of which
  the `Close` is the last, and the goroutine that watches is stopped before it. So nothing is open or watched
  where a method is done, however it got there;
- `SentInv`: what the app server has yet to read is what the call wrote last, its request behind the
  handshake;
- `InboxInv`: what the call has yet to read fits it (`Fits`, `Expected`): answers are to its own request, a
  turn is reported as it is, an interrupt is confirmed only of a turn that has ended; the answers of the
  handshake come before anything else;
- `HeardInv`, `TargetInv`, `TurnInv`, `TookInv`: what the call has heard of its turn, and of the turn it
  interrupts, is so, and what it took for an answer was one to its request.

A message stays true while it waits because the app server forgets no turn and changes none that has ended
(`TurnsStay`); a step of one call leaves the others alone (`OthersStay`). Each of TLC's bounds is lifted:
the number of calls, and that of unasked messages.

`InstallProofs` proves `TypeOK`, `RunsVerified` and `ForeignKept` for any number of overlapping commands,
configurations and initial records. Its invariant says that whoever writes has verified its configuration,
and that nobody who writes the record has seen a foreign one; `RecordSteps` lists what a step can do to the
record. Under the assumption `Serial`, that a command begins only when all others rest, which is how
`install_serial` runs it, it also proves `NoOverwrite`, `TornKept` and `SuccessMeansDone`. `SerialInv` adds
that at most one command is under way (`OthersRest`), that the record still is what it found, and that the
paths behind it are complete, or gone for `remove`.

`DaemonReadinessProofs` proves `TypeOK`, `RootOutlivesDaemon`, `LeftRunningReported`,
`SuccessMeansDone` and `OnlyOwnedKilled` for every set of processes and every look of them, if only
the daemon has the session's environment (`ProcessAssumption`). `IInv` adds:

- `LaunchInv`: only the start command brings a daemon up, and a number is known only of one that came
  up, so that a number that leads nowhere means that the daemon is gone for good;
- `RootInv`: the root stays until the removal, which is reached only without a daemon;
- `ProgressInv`: without an error, all that comes before the present place was done;
- `EvidenceInv`: while the number keeps its holder, what was read is about the holder.

`LeaseTimingProofs` proves `LeaseKept` and `LeadBounded` for every lease, resolution and duration that
`DurationsAssumption` allows, and for as long as the turn runs; and that the interval of the ticker is
positive even when the product overflows (`IntervalIsPositive`). `IInv` says of each place how late it
can be there and which expiry has been asked for (`AtClaim` to `AtOver`). Between two ticks both are
measured from the tick that is due: there is always a call's time and a second left, and the expiry never
passes `Horizon` of the last tick, which each renewal moves by a whole lease and each interval by twice
half of one. Everything nonlinear is in the lemma `LeaseDurations`.

`AlgorithmProofs` proves all five properties of `Algorithms` for every input of the kind its assumptions
name: `PointersReach`, `FramesAligned`, `PathsContained`, `DigestTells` and `DiagnosisTrue`. Their
definitions recurse over data, so it starts with the induction they need. `Induction` states it for a set
of numbers, which the well-foundedness of the naturals gives, and `SeqInduction` for a set of sequences;
`Folding` and `FoldsOn` give each fold and recursive function its laws, a step at a time. Then:

- pointers: `DecodesEscaped` undoes the escapes of a name, `PointerSplit` finds the names between the
  separators, `NumeralValue` reads an index back. `PointersFind` puts them together for any depth; the run
  checks two levels;
- frames: the length is read back from each of the three forms of the header (`FrameBack`), for all
  lengths of a 64-bit `int`, so the next frame begins where it was written (`AlwaysAligned`);
- paths: the result of `Clean` is the names that no later `..` takes back, and `Rel` begins with `..`
  exactly when the root is not a prefix of it (`ContainedWherever`);
- digests: files can be listed by their paths and members by their keys (`PathsOrdered`, `OrderExists`).
  Every part that is fed ends at a NUL and contains none, so the last one and what precedes it can be told
  from the stream (`LastTold`), and by induction all files can (`FedTells`). Each part of a file tells what
  it says (`ContentTells`). So directories of one digest say the same (`DigestsTell`);
- diagnoses: a list of checks is known by its first failure (`FirstFails`). That the number of routes stands
  for their completeness is a matter of cardinality (`RoutesAreAll`); that no required route can be missing
  then, of `Validate` (`VerifyNames`). `DoctorNames` does the same for the home, and where nothing is wrong
  `run` claims (`SoundRuns`).

With this every invariant and every action property that a passing run checks is proved, and both
refinements. Only model-checked are:

- liveness, which is beyond the prover: `CancelStops`, `TurnResolved`, `CancelledTurnReturns`,
  `CompletionHeard`;
- the four violations, which are counterexamples.

## Left open and not modelled

Left open is the meeting of the two refinements of `TurnCall` in one theorem. `Transmit` is proved to expect
no more of a turn than `TurnCall` grants, and `AppConnection` to grant it; that a driver whose `RunTurn` is
that of `AppConnection` keeps the properties of `Transmit` is an argument about the two, not a theorem.

Five hazards have no property. A lease that overflows 64 bits is modelled, and its renewals may ask for
earlier expiries; nothing says what they should do. Nothing renews a lease before the first extension, so
that it comes in time is an assumption on the services (`InTime`). The process number of the first daemon
response is kept: a daemon that restarts itself is assumed away. Compatibility is verified before a claim
and may change before it is used. `Run` claims again right after a `nack`, with no pause: how often is a
matter of rates, which the models do not count.

Not modelled: status rendering and exit codes (output only), the decoding of the embedded manifest,
the checks of single configuration fields, base URLs and HTTP
headers, the accept key and the masks of the websocket, the environment of commands, `RequireSchemas`
(called by tests only), tests, scripts and documents.
