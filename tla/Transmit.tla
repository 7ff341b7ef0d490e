------------------------------ MODULE Transmit ------------------------------
(***************************************************************************)
(* The transmit loop of the driver (internal/transmit): Run repeats Step,  *)
(* which claims one leased work item from the invocation service, runs it  *)
(* as one turn of the app server, keeps the lease alive meanwhile and      *)
(* settles it with an ack or a nack.                                       *)
(*                                                                         *)
(* Two goroutines take part in a step: the main one (Run, Step, runTurn)   *)
(* and the one startTurn is spawned in, which talks to the app server and  *)
(* sends the first lease extension from its OnStarted callback.  They meet *)
(* on two channels, started (closed once) and result (buffer of one), and  *)
(* share the Counts record and the lease renewal.                          *)
(*                                                                         *)
(* Steps are numbered by counts.claimAttempts.  A step uses a lease id of  *)
(* its own, so a step number also stands for its lease, its work item and  *)
(* the turn the app server runs for it.                                    *)
(***************************************************************************)
EXTENDS Durations, FiniteSets

CONSTANTS
    MaxSteps,       \* bound: Step is called at most so often
    MaxExtensions,  \* bound: no tick extends once so many extensions are counted
    LeaseSeconds,   \* Config.LeaseSeconds
    ClaimExpiries,  \* expires_at of a granted claim, in ticks; 0 is the zero time
    Now             \* what Runner.now answers, in ticks

ASSUME BoundsAssumption ==
    /\ MaxSteps \in Nat
    /\ MaxExtensions \in Nat

ASSUME ClockAssumption ==
    /\ LeaseSeconds \in Nat \ {0}    \* config.Validate requires > 0
    /\ ClaimExpiries \subseteq Nat
    /\ Now \in Nat \ {0}

Steps == 1..MaxSteps

\* Who waits for an HTTP call: the main goroutine, or the turn goroutine of a step.
Main == 0
Callers == {Main} \cup Steps

NackCodes == {"invalid_payload", "app_unreachable", "app_error", "turn_failed"}
Settlements == {"ack"} \cup NackCodes
Operations == {"claim", "extend"} \cup Settlements

\* Expiries: a renewal of a lease that overflows may ask for any.
Times == IF Fits(LeaseSeconds) THEN Nat ELSE Int

\* next is the requested expiry of an extend and the granted expiry of a claim.
Calls == [op : Operations, step : Steps, next : Times, st : {"sent", "ok", "empty"}]
NoCall == [op |-> "none", step |-> 0, next |-> 0, st |-> "none"]

TurnStatuses == {"completed", "failed", "interrupted"}
Results == TurnStatuses \cup {"appError", "extensionFailed"}
Exits == {"stopped", "failed", "unrenewed", "killed"}

VARIABLES
    ctxDone,      \* the context of runCommand is cancelled (SIGINT)
    pc,           \* where the main goroutine is
    counts,       \* the status.Counts fields that steer or report the loop
    expiresAt,    \* leaseRenewal.expiresAt of each step
    tpc,          \* where the turn goroutine of each step is
    started,      \* the started channel of the step is closed
    result,       \* what the result channel of the step received
    call,         \* the HTTP call each goroutine waits for
    stray,        \* calls given up by the driver and still under way
    lease,        \* the invocation service's record of each lease
    leaseExpiry,  \* and the expiry it keeps for it
    turn,         \* the app server's record of the turn of each step
    interrupts    \* turns InterruptTurn was called for

mainVars == <<pc, counts>>
turnVars == <<tpc, started, result>>
httpVars == <<call, stray>>
serviceVars == <<lease, leaseExpiry>>
appVars == <<turn, interrupts>>
vars == <<ctxDone, mainVars, turnVars, expiresAt, httpVars, serviceVars, appVars>>

Init ==
    /\ ctxDone = FALSE
    /\ pc = "loop"
    /\ counts = [claimAttempts |-> 0, emptyClaims |-> 0, acks |-> 0, nacks |-> 0,
                 extensions |-> 0, turn |-> 0]
    /\ expiresAt = [s \in Steps |-> 0]
    /\ tpc = [s \in Steps |-> "none"]
    /\ started = [s \in Steps |-> FALSE]
    /\ result = [s \in Steps |-> "none"]
    /\ call = [c \in Callers |-> NoCall]
    /\ stray = {}
    /\ lease = [s \in Steps |-> "none"]
    /\ leaseExpiry = [s \in Steps |-> 0]
    /\ turn = [s \in Steps |-> "none"]
    /\ interrupts = {}

step == counts.claimAttempts

\* Every goroutine of the driver ends with the process.
Alive == pc \notin Exits

-----------------------------------------------------------------------------
(* HTTP calls: Client.post and what net/http does with the context.        *)

Request(op, s, next) == [op |-> op, step |-> s, next |-> next, st |-> "sent"]

\* The caller stops waiting for its call, which may yet reach the service.
Abandon(c) ==
    /\ call' = [call EXCEPT ![c] = NoCall]
    /\ stray' = IF call[c].st = "sent" THEN stray \cup {call[c]} ELSE stray

\* ack and nack: with a done context the request fails before it is sent, Step
\* returns the error and so does Run.
Settle(op) ==
    IF ctxDone
    THEN pc' = "failed" /\ UNCHANGED call
    ELSE pc' = "settle" /\ call' = [call EXCEPT ![Main] = Request(op, step, 0)]

-----------------------------------------------------------------------------
(* The main goroutine: Run, Step and transmitClaim.                        *)

Loop ==
    /\ pc = "loop"
    /\ \/ ctxDone /\ pc' = "stopped"
       \/ ~ctxDone /\ step < MaxSteps /\ pc' = "verify"
    /\ UNCHANGED <<ctxDone, counts, turnVars, expiresAt, httpVars, serviceVars, appVars>>

VerifyFailed ==
    /\ pc = "verify"
    /\ pc' = "failed"
    /\ UNCHANGED <<ctxDone, counts, turnVars, expiresAt, httpVars, serviceVars, appVars>>

\* The attempt is counted before the request is made.
Claim ==
    /\ pc = "verify"
    /\ counts' = [counts EXCEPT !.claimAttempts = @ + 1]
    /\ IF ctxDone
       THEN pc' = "failed" /\ UNCHANGED call
       ELSE /\ pc' = "claim"
            /\ call' = [call EXCEPT ![Main] = Request("claim", step + 1, 0)]
    /\ UNCHANGED <<ctxDone, turnVars, expiresAt, stray, serviceVars, appVars>>

\* Seeded fault: an empty claim is not counted.
ClaimedNothingUncounted ==
    /\ pc = "claim"
    /\ call[Main].st = "empty"
    /\ call' = [call EXCEPT ![Main] = NoCall]
    /\ pc' = "idle"
    /\ UNCHANGED <<ctxDone, counts, turnVars, expiresAt, stray, serviceVars, appVars>>

ClaimedNothing ==
    /\ pc = "claim"
    /\ call[Main].st = "empty"
    /\ call' = [call EXCEPT ![Main] = NoCall]
    /\ counts' = [counts EXCEPT !.emptyClaims = @ + 1]
    /\ pc' = "idle"
    /\ UNCHANGED <<ctxDone, turnVars, expiresAt, stray, serviceVars, appVars>>

Idle ==
    /\ pc = "idle"
    /\ pc' = "loop"
    /\ UNCHANGED <<ctxDone, counts, turnVars, expiresAt, httpVars, serviceVars, appVars>>

\* A claim whose payload holds a prompt goes on to StartThread, which dials only
\* under a live context; without the prompt, or the dial, the claim is nacked.
Claimed ==
    /\ pc = "claim"
    /\ call[Main].st = "ok"
    /\ expiresAt' = [expiresAt EXCEPT ![step] = call[Main].next]
    /\ IF ctxDone
       THEN pc' = "failed" /\ call' = [call EXCEPT ![Main] = NoCall]
       ELSE \/ /\ pc' = "thread"
               /\ call' = [call EXCEPT ![Main] = NoCall]
            \/ /\ pc' = "settle"
               /\ call' = [call EXCEPT ![Main] = Request("invalid_payload", step, 0)]
    /\ UNCHANGED <<ctxDone, counts, turnVars, stray, serviceVars, appVars>>

ThreadFailed ==
    /\ pc = "thread"
    /\ Settle("app_unreachable")
    /\ UNCHANGED <<ctxDone, counts, turnVars, expiresAt, stray, serviceVars, appVars>>

\* Seeded fault: the zero time is taken for an expiry.
ThreadStartedWithoutNow ==
    /\ pc = "thread"
    /\ tpc' = [tpc EXCEPT ![step] = "open"]
    /\ pc' = "waitStart"
    /\ UNCHANGED <<ctxDone, counts, started, result, expiresAt, httpVars, serviceVars, appVars>>

\* runTurn: a zero expiry is replaced by the present time, and startTurn is spawned.
ThreadStarted ==
    /\ pc = "thread"
    /\ expiresAt' = [expiresAt EXCEPT ![step] = IF @ = 0 THEN Now ELSE @]
    /\ tpc' = [tpc EXCEPT ![step] = "open"]
    /\ pc' = "waitStart"
    /\ UNCHANGED <<ctxDone, counts, started, result, httpVars, serviceVars, appVars>>

\* Seeded fault: the status of the turn is not looked at.
TurnReturnedUnread(r) ==
    CASE r = "extensionFailed" -> pc' = "unrenewed" /\ UNCHANGED call
      [] r = "appError"        -> Settle("app_error")
      [] OTHER                 -> Settle("ack")

\* Seeded fault: a failed extension is nacked like any other error.
TurnReturnedNacksAll(r) ==
    CASE r \in {"extensionFailed", "appError"} -> Settle("app_error")
      [] r = "completed"                       -> Settle("ack")
      [] OTHER                                 -> Settle("turn_failed")

\* Seeded fault: a broken connection is reported as a turn that failed.
TurnReturnedAsFailed(r) ==
    CASE r = "extensionFailed" -> pc' = "unrenewed" /\ UNCHANGED call
      [] r = "completed"       -> Settle("ack")
      [] OTHER                 -> Settle("turn_failed")

\* What transmitClaim makes of the outcome of runTurn.
TurnReturned(r) ==
    CASE r = "extensionFailed" -> pc' = "unrenewed" /\ UNCHANGED call
      [] r = "appError"        -> Settle("app_error")
      [] r = "completed"       -> Settle("ack")
      [] OTHER                 -> Settle("turn_failed")

\* Seeded fault: only the started channel is waited for.
WaitForStartOnly ==
    /\ pc = "waitStart"
    /\ started[step]
    /\ pc' = "renew"
    /\ UNCHANGED <<ctxDone, counts, turnVars, expiresAt, httpVars, serviceVars, appVars>>

\* waitForStart: whichever of the three channels is ready, in no order.  Its error
\* for a done context is nacked as app_error, a nack that Settle cannot send.
WaitForStart ==
    /\ pc = "waitStart"
    /\ \/ /\ result[step] # "none"
          /\ TurnReturned(result[step])
       \/ /\ started[step]
          /\ pc' = "renew"
          /\ UNCHANGED call
       \/ /\ ctxDone
          /\ TurnReturned("appError")
    /\ UNCHANGED <<ctxDone, counts, turnVars, expiresAt, stray, serviceVars, appVars>>

\* The next expiry leaseRenewal.Extend asks for: no later one if the lease overflows.
NextExpiresAt(s) == expiresAt[s] + LeaseDuration(LeaseSeconds)

RenewResult ==
    /\ pc = "renew"
    /\ result[step] # "none"
    /\ TurnReturned(result[step])
    /\ UNCHANGED <<ctxDone, counts, turnVars, expiresAt, stray, serviceVars, appVars>>

\* The ticker fires: Extend, which fails at once under a done context.
RenewTick ==
    /\ pc = "renew"
    /\ counts.extensions < MaxExtensions
    /\ IF ctxDone
       THEN pc' = "interruptUnrenewed" /\ UNCHANGED call
       ELSE /\ pc' = "extend"
            /\ call' = [call EXCEPT ![Main] = Request("extend", step, NextExpiresAt(step))]
    /\ UNCHANGED <<ctxDone, counts, turnVars, expiresAt, stray, serviceVars, appVars>>

RenewCancelled ==
    /\ pc = "renew"
    /\ ctxDone
    /\ pc' = "interruptCancelled"
    /\ UNCHANGED <<ctxDone, counts, turnVars, expiresAt, httpVars, serviceVars, appVars>>

\* Seeded fault: the renewal keeps its old expiry.
RenewedInPlace ==
    /\ pc = "extend"
    /\ call[Main].st = "ok"
    /\ counts' = [counts EXCEPT !.extensions = @ + 1]
    /\ call' = [call EXCEPT ![Main] = NoCall]
    /\ pc' = "renew"
    /\ UNCHANGED <<ctxDone, turnVars, expiresAt, stray, serviceVars, appVars>>

\* A tick's Extend succeeded: only now does the renewal move on.
Renewed ==
    /\ pc = "extend"
    /\ call[Main].st = "ok"
    /\ expiresAt' = [expiresAt EXCEPT ![step] = call[Main].next]
    /\ counts' = [counts EXCEPT !.extensions = @ + 1]
    /\ call' = [call EXCEPT ![Main] = NoCall]
    /\ pc' = "renew"
    /\ UNCHANGED <<ctxDone, turnVars, stray, serviceVars, appVars>>

RenewFailed ==
    /\ pc = "extend"
    /\ Abandon(Main)
    /\ pc' = "interruptUnrenewed"
    /\ UNCHANGED <<ctxDone, counts, turnVars, expiresAt, serviceVars, appVars>>

\* interruptActiveTurn: InterruptTurn for the turn in Counts, if there is one.  The
\* app server stops a running turn, or never hears of the request.
InterruptActiveTurn ==
    IF counts.turn = 0
    THEN UNCHANGED appVars
    ELSE /\ interrupts' = interrupts \cup {counts.turn}
         /\ \/ UNCHANGED turn
            \/ /\ turn[counts.turn] = "running"
               /\ turn' = [turn EXCEPT ![counts.turn] = "interrupted"]

\* Seeded fault: Run goes on with the next claim after a failed renewal.
GiveUpAndClaim ==
    /\ \/ pc = "interruptUnrenewed" /\ pc' = "loop"
       \/ pc = "interruptCancelled" /\ pc' = "failed"
    /\ InterruptActiveTurn
    /\ UNCHANGED <<ctxDone, counts, turnVars, expiresAt, httpVars, serviceVars>>

\* The two ways renewUntilDone gives up: Run returns errExtensionFailed, or the
\* context's error, which is nacked under the done context and so not sent.
GiveUp ==
    /\ \/ pc = "interruptUnrenewed" /\ pc' = "unrenewed"
       \/ pc = "interruptCancelled" /\ pc' = "failed"
    /\ InterruptActiveTurn
    /\ UNCHANGED <<ctxDone, counts, turnVars, expiresAt, httpVars, serviceVars>>

Settled ==
    /\ pc = "settle"
    /\ call[Main].st = "ok"
    /\ counts' = IF call[Main].op = "ack" THEN [counts EXCEPT !.acks = @ + 1]
                                          ELSE [counts EXCEPT !.nacks = @ + 1]
    /\ call' = [call EXCEPT ![Main] = NoCall]
    /\ pc' = "loop"
    /\ UNCHANGED <<ctxDone, turnVars, expiresAt, stray, serviceVars, appVars>>

\* Seeded fault: Run goes on after an error.
CallFailedIgnored ==
    /\ pc \in {"claim", "settle"}
    /\ Abandon(Main)
    /\ pc' = "loop"
    /\ UNCHANGED <<ctxDone, counts, turnVars, expiresAt, serviceVars, appVars>>

\* A claim, ack or nack fails: refused, cut off, cancelled, or answered by
\* something claimFromResponse rejects.  The error ends Run.
CallFailed ==
    /\ pc \in {"claim", "settle"}
    /\ Abandon(Main)
    /\ pc' = "failed"
    /\ UNCHANGED <<ctxDone, counts, turnVars, expiresAt, serviceVars, appVars>>

MainStep ==
    \/ Loop \/ VerifyFailed \/ Claim \/ ClaimedNothing \/ Idle \/ Claimed
    \/ ThreadFailed \/ ThreadStarted \/ WaitForStart
    \/ RenewResult \/ RenewTick \/ RenewCancelled \/ Renewed \/ RenewFailed
    \/ GiveUp \/ Settled \/ CallFailed

-----------------------------------------------------------------------------
(* The turn goroutine: startTurn, UnixClient.RunTurn and its OnStarted.    *)

\* The connection is dialled only under a live context.
TurnOpened(s) ==
    /\ Alive
    /\ tpc[s] = "open"
    /\ ~ctxDone
    /\ tpc' = [tpc EXCEPT ![s] = "write"]
    /\ UNCHANGED <<ctxDone, mainVars, started, result, expiresAt, httpVars, serviceVars, appVars>>

\* turn/start is written; the context is not looked at, only the connection is
\* closed some time after a cancellation (closeWithContext).
TurnRequested(s) ==
    /\ Alive
    /\ tpc[s] = "write"
    /\ tpc' = [tpc EXCEPT ![s] = "decode"]
    /\ turn' = [turn EXCEPT ![s] = "requested"]
    /\ UNCHANGED <<ctxDone, mainVars, started, result, expiresAt, httpVars, serviceVars, interrupts>>

\* Seeded fault: started is closed before the first extension is requested.
TurnStartedTooEarly(s) ==
    /\ Alive
    /\ tpc[s] = "decode"
    /\ turn[s] \in TurnStatuses \cup {"running"}
    /\ counts' = [counts EXCEPT !.turn = s]
    /\ started' = [started EXCEPT ![s] = TRUE]
    /\ IF ctxDone
       THEN tpc' = [tpc EXCEPT ![s] = "interrupt"] /\ UNCHANGED call
       ELSE /\ tpc' = [tpc EXCEPT ![s] = "extend"]
            /\ call' = [call EXCEPT ![s] = Request("extend", s, NextExpiresAt(s))]
    /\ UNCHANGED <<ctxDone, pc, result, expiresAt, stray, serviceVars, appVars>>

\* Seeded fault: the turn is recorded only if Counts holds none yet.
TurnStartedKeepsFirst(s) ==
    /\ Alive
    /\ tpc[s] = "decode"
    /\ turn[s] \in TurnStatuses \cup {"running"}
    /\ counts' = [counts EXCEPT !.turn = IF @ = 0 THEN s ELSE @]
    /\ IF ctxDone
       THEN tpc' = [tpc EXCEPT ![s] = "interrupt"] /\ UNCHANGED call
       ELSE /\ tpc' = [tpc EXCEPT ![s] = "extend"]
            /\ call' = [call EXCEPT ![s] = Request("extend", s, NextExpiresAt(s))]
    /\ UNCHANGED <<ctxDone, pc, started, result, expiresAt, stray, serviceVars, appVars>>

\* OnStarted begins: the turn is recorded and the first extension is requested.
TurnStarted(s) ==
    /\ Alive
    /\ tpc[s] = "decode"
    /\ turn[s] \in TurnStatuses \cup {"running"}
    /\ counts' = [counts EXCEPT !.turn = s]
    /\ IF ctxDone
       THEN tpc' = [tpc EXCEPT ![s] = "interrupt"] /\ UNCHANGED call
       ELSE /\ tpc' = [tpc EXCEPT ![s] = "extend"]
            /\ call' = [call EXCEPT ![s] = Request("extend", s, NextExpiresAt(s))]
    /\ UNCHANGED <<ctxDone, pc, started, result, expiresAt, stray, serviceVars, appVars>>

\* OnStarted ends well: started is closed and RunTurn waits for the completion.
FirstExtended(s) ==
    /\ Alive
    /\ tpc[s] = "extend"
    /\ call[s].st = "ok"
    /\ expiresAt' = [expiresAt EXCEPT ![s] = call[s].next]
    /\ counts' = [counts EXCEPT !.extensions = @ + 1]
    /\ call' = [call EXCEPT ![s] = NoCall]
    /\ started' = [started EXCEPT ![s] = TRUE]
    /\ tpc' = [tpc EXCEPT ![s] = "completion"]
    /\ UNCHANGED <<ctxDone, pc, result, stray, serviceVars, appVars>>

\* Seeded fault: the turn is not interrupted when its first extension fails.
FirstExtendFailedQuietly(s) ==
    /\ Alive
    /\ tpc[s] = "extend"
    /\ Abandon(s)
    /\ started' = [started EXCEPT ![s] = TRUE]
    /\ tpc' = [tpc EXCEPT ![s] = "returning"]
    /\ UNCHANGED <<ctxDone, mainVars, result, expiresAt, serviceVars, appVars>>

FirstExtendFailed(s) ==
    /\ Alive
    /\ tpc[s] = "extend"
    /\ Abandon(s)
    /\ tpc' = [tpc EXCEPT ![s] = "interrupt"]
    /\ UNCHANGED <<ctxDone, mainVars, started, result, expiresAt, serviceVars, appVars>>

\* OnStarted ends badly: the turn is interrupted, then started is closed, and only
\* later does the error reach the result channel.
InterruptedUnrenewed(s) ==
    /\ Alive
    /\ tpc[s] = "interrupt"
    /\ InterruptActiveTurn
    /\ started' = [started EXCEPT ![s] = TRUE]
    /\ tpc' = [tpc EXCEPT ![s] = "returning"]
    /\ UNCHANGED <<ctxDone, mainVars, result, expiresAt, httpVars, serviceVars>>

ReturnUnrenewed(s) ==
    /\ Alive
    /\ tpc[s] = "returning"
    /\ result' = [result EXCEPT ![s] = "extensionFailed"]
    /\ tpc' = [tpc EXCEPT ![s] = "returned"]
    /\ UNCHANGED <<ctxDone, mainVars, started, expiresAt, httpVars, serviceVars, appVars>>

\* The app server reported the end of the turn, in its answer to turn/start or later.
TurnDone(s) ==
    /\ Alive
    /\ tpc[s] = "completion"
    /\ turn[s] \in TurnStatuses
    /\ result' = [result EXCEPT ![s] = turn[s]]
    /\ tpc' = [tpc EXCEPT ![s] = "returned"]
    /\ UNCHANGED <<ctxDone, mainVars, started, expiresAt, httpVars, serviceVars, appVars>>

\* Seeded fault: an error is not sent on the result channel.
TurnErrorDropped(s) ==
    /\ Alive
    /\ tpc[s] \in {"open", "write", "decode", "completion"}
    /\ tpc' = [tpc EXCEPT ![s] = "returned"]
    /\ UNCHANGED <<ctxDone, mainVars, started, result, expiresAt, httpVars, serviceVars, appVars>>

\* RunTurn fails: no dial, a broken or closed connection, an error answer, or a
\* frame or message it does not expect.  The app server learns nothing of it.
TurnError(s) ==
    /\ Alive
    /\ tpc[s] \in {"open", "write", "decode", "completion"}
    /\ result' = [result EXCEPT ![s] = "appError"]
    /\ tpc' = [tpc EXCEPT ![s] = "returned"]
    /\ UNCHANGED <<ctxDone, mainVars, started, expiresAt, httpVars, serviceVars, appVars>>

\* What the goroutine does of itself, or once its request is answered; TurnError is
\* forced only by a done context, which fails the dial and closes the connection.
TurnStep(s) ==
    \/ TurnOpened(s) \/ TurnRequested(s) \/ TurnStarted(s)
    \/ FirstExtended(s) \/ FirstExtendFailed(s)
    \/ InterruptedUnrenewed(s) \/ ReturnUnrenewed(s) \/ TurnDone(s)

TurnGoroutine == \E s \in Steps : TurnStep(s) \/ TurnError(s)

-----------------------------------------------------------------------------
(* The invocation service and the app server, as their clients use them.   *)

\* The answer to a claim: the queue is empty, or a lease is granted.
ServeClaim ==
    /\ call[Main].op = "claim"
    /\ call[Main].st = "sent"
    /\ \/ /\ call' = [call EXCEPT ![Main] = [@ EXCEPT !.st = "empty"]]
          /\ UNCHANGED serviceVars
       \/ \E e \in ClaimExpiries :
            /\ lease' = [lease EXCEPT ![step] = "held"]
            /\ leaseExpiry' = [leaseExpiry EXCEPT ![step] = e]
            /\ call' = [call EXCEPT ![Main] = [@ EXCEPT !.st = "ok", !.next = e]]
    /\ UNCHANGED <<ctxDone, mainVars, turnVars, expiresAt, stray, appVars>>

\* The effect of an extend, ack or nack on the lease it names.
Apply(r) ==
    /\ lease[r.step] = "held"
    /\ \/ /\ r.op = "extend"
          /\ leaseExpiry' = [leaseExpiry EXCEPT ![r.step] = WholeSeconds(r.next)]
          /\ UNCHANGED lease
       \/ /\ r.op \in Settlements
          /\ lease' = [lease EXCEPT ![r.step] = r.op]
          /\ UNCHANGED leaseExpiry

Serve(c) ==
    /\ call[c].st = "sent"
    /\ Apply(call[c])
    /\ call' = [call EXCEPT ![c] = [@ EXCEPT !.st = "ok"]]
    /\ UNCHANGED <<ctxDone, mainVars, turnVars, expiresAt, stray, appVars>>

\* A call whose caller is gone arrives late; a claim still grants its lease.
ServeStray ==
    \E r \in stray :
        /\ stray' = stray \ {r}
        /\ \/ Apply(r)
           \/ /\ r.op = "claim"
              /\ \E e \in ClaimExpiries :
                    /\ lease' = [lease EXCEPT ![r.step] = "held"]
                    /\ leaseExpiry' = [leaseExpiry EXCEPT ![r.step] = e]
        /\ UNCHANGED <<ctxDone, mainVars, turnVars, expiresAt, call, appVars>>

ExpireLease ==
    \E s \in Steps :
        /\ lease[s] = "held"
        /\ lease' = [lease EXCEPT ![s] = "expired"]
        /\ UNCHANGED <<ctxDone, mainVars, turnVars, expiresAt, httpVars, leaseExpiry, appVars>>

AppStartsTurn(s) ==
    /\ turn[s] = "requested"
    /\ turn' = [turn EXCEPT ![s] = "running"]
    /\ UNCHANGED <<ctxDone, mainVars, turnVars, expiresAt, httpVars, serviceVars, interrupts>>

AppEndsTurn(s) ==
    /\ turn[s] = "running"
    /\ \E status \in TurnStatuses : turn' = [turn EXCEPT ![s] = status]
    /\ UNCHANGED <<ctxDone, mainVars, turnVars, expiresAt, httpVars, serviceVars, interrupts>>

\* SIGINT cancels the context; SIGKILL, or a crash, ends the process where it is.
Cancel ==
    /\ Alive
    /\ ~ctxDone
    /\ ctxDone' = TRUE
    /\ UNCHANGED <<mainVars, turnVars, expiresAt, httpVars, serviceVars, appVars>>

Kill ==
    /\ Alive
    /\ pc' = "killed"
    /\ UNCHANGED <<ctxDone, counts, turnVars, expiresAt, httpVars, serviceVars, appVars>>

Terminated == ~Alive /\ UNCHANGED vars

Environment ==
    \/ ServeClaim \/ ServeStray \/ ExpireLease \/ Cancel \/ Kill
    \/ \E c \in Callers : Serve(c)
    \/ \E s \in Steps : AppStartsTurn(s) \/ AppEndsTurn(s)

Next == MainStep \/ TurnGoroutine \/ Environment \/ Terminated

Spec == Init /\ [][Next]_vars

-----------------------------------------------------------------------------
(* Fairness.  The goroutines are scheduled, but a wait need not end.  An HTTP  *)
(* call, or the codex command of a verification, waits for ever unless the     *)
(* context is done.  StartThread, InterruptTurn and the handshake of RunTurn   *)
(* read without a deadline, and a done context does not close their            *)
(* connection; it closes that of RunTurn once turn/start can be written.       *)

\* The main goroutine reads what the app server may never write.
AwaitsApp ==
    \/ pc = "thread"
    \/ pc \in {"interruptUnrenewed", "interruptCancelled"} /\ counts.turn # 0

\* A goroutine waits for what a done context ends.
AwaitsService(c) == call[c].st = "sent" \/ (c = Main /\ pc = "verify")

DriverFairness ==
    /\ WF_vars(~AwaitsApp /\ (AwaitsService(Main) => ctxDone) /\ MainStep)
    /\ \A s \in Steps :
          /\ WF_vars(/\ tpc[s] \notin {"open", "write", "interrupt"}
                     /\ AwaitsService(s) => ctxDone
                     /\ TurnStep(s))
          /\ WF_vars(ctxDone /\ tpc[s] # "open" /\ TurnError(s))

\* The service and the app server answer; the turns asked for are started and end.
PeersAnswer ==
    /\ WF_vars(MainStep)
    /\ \A s \in Steps :
          WF_vars(TurnStep(s)) /\ WF_vars(AppStartsTurn(s)) /\ WF_vars(AppEndsTurn(s))

DriverSpec == Spec /\ DriverFairness

-----------------------------------------------------------------------------
(* Properties.                                                             *)

MainPoints == Exits \cup
    {"loop", "verify", "claim", "idle", "thread", "waitStart", "renew", "extend",
     "interruptUnrenewed", "interruptCancelled", "settle"}

TurnPoints ==
    {"none", "open", "write", "decode", "extend", "interrupt", "returning",
     "completion", "returned"}

CountsType ==
    [claimAttempts : 0..MaxSteps, emptyClaims : Nat, acks : Nat, nacks : Nat,
     extensions : Nat, turn : 0..MaxSteps]

\* Every variable keeps its type, and a turn never runs on a lease whose expiry is
\* the zero time: leaseRenewal replaced it before the turn was spawned, and unless the
\* lease overflows no renewal takes it back.
TypeOK ==
    /\ ctxDone \in BOOLEAN
    /\ pc \in MainPoints
    /\ counts \in CountsType
    /\ expiresAt \in [Steps -> Times]
    /\ tpc \in [Steps -> TurnPoints]
    /\ started \in [Steps -> BOOLEAN]
    /\ result \in [Steps -> Results \cup {"none"}]
    /\ call \in [Callers -> Calls \cup {NoCall}]
    /\ stray \subseteq Calls
    /\ lease \in [Steps -> {"none", "held", "expired"} \cup Settlements]
    /\ leaseExpiry \in [Steps -> Times]
    /\ turn \in [Steps -> {"none", "requested", "running"} \cup TurnStatuses]
    /\ interrupts \subseteq Steps
    /\ Fits(LeaseSeconds) => \A s \in Steps : tpc[s] # "none" => expiresAt[s] > 0

\* The extension of the step's lease failed, in its turn goroutine or at a tick.
Unrenewed(s) ==
    \/ tpc[s] \in {"interrupt", "returning"}
    \/ result[s] = "extensionFailed"
    \/ s = step /\ pc \in {"interruptUnrenewed", "unrenewed"}

\* The requests about a lease that are still on their way.
Pending == stray \cup {call[c] : c \in Callers}

\* What the service is told of a lease is what happened to its turn: an ack means
\* that the turn completed, turn_failed that it ended otherwise, and the two early
\* codes that it was never asked for (transmitClaim).
SettlementsMatchTurn ==
    \A s \in Steps :
        /\ lease[s] = "ack" => turn[s] = "completed"
        /\ lease[s] = "turn_failed" => turn[s] \in {"failed", "interrupted"}
        /\ lease[s] \in {"invalid_payload", "app_unreachable"} => turn[s] = "none"

\* A lease that could not be extended is the service's to take back: it is neither
\* acked nor nacked, whatever becomes of its turn, and no other claim follows
\* (errExtensionFailed through startTurn, renewUntilDone, transmitClaim and Run).
UnrenewedNeverSettled ==
    \A s \in Steps : Unrenewed(s) =>
        /\ s = step
        /\ lease[s] \notin Settlements
        /\ \A r \in Pending : r.step = s => r.op \notin Settlements

\* When Run ends because a lease could not be extended, the turn that ran under it
\* was interrupted first, by whichever goroutine met the failure.
UnrenewedInterrupted == pc = "unrenewed" => step \in interrupts

\* The driver holds one lease at a time: before it claims again, the lease of every
\* earlier step was settled at the service, or there was none (Run returns on error).
OneLeaseAtATime ==
    \A s \in Steps : s < step => lease[s] \in {"none"} \cup Settlements

\* No two goroutines are in an HTTP call at once: a tick's extension never races the
\* first one, and neither races the ack or nack (started orders them).
OneCallAtATime ==
    \A c, d \in Callers : call[c] # NoCall /\ call[d] # NoCall => c = d

\* No turn goroutine outlives its step into the next one, where it would share
\* Counts and the connection's turn with a second one.
NoLeakedTurn ==
    \A s \in Steps : s < step => tpc[s] \in {"none", "returned"}

\* A turn that is left running while the driver goes on was nacked as app_error: its
\* connection broke, and in no other way does a turn outlive its step.
OrphansNacked ==
    \A s \in Steps :
        s < step /\ turn[s] \in {"requested", "running"} => lease[s] = "app_error"

AckedLeases == {s \in Steps : lease[s] = "ack"}
NackedLeases == {s \in Steps : lease[s] \in NackCodes}

\* Counts tells the truth: acks and nacks are those the service recorded, but for one
\* whose answer is not heard (yet), and between steps every attempt is accounted for.
CountsTruthful ==
    /\ counts.acks + counts.nacks <= Cardinality(AckedLeases \cup NackedLeases)
    /\ pc \notin Exits \cup {"settle"} =>
          /\ counts.acks = Cardinality(AckedLeases)
          /\ counts.nacks = Cardinality(NackedLeases)
    /\ pc \in {"loop", "verify", "idle"} =>
          step = counts.emptyClaims + counts.acks + counts.nacks

\* Every extension asks for a later expiry than the service holds, even after the
\* fraction of a second is cut off, unless one has failed and the step is given up, or
\* the lease overflows a time.Duration (leaseRenewal.Extend, leaseDuration).
RenewalsGrow ==
    [][Fits(LeaseSeconds) => \A c \in Callers :
          LET r == call'[c] IN
          r # call[c] /\ r.op = "extend" /\ r.st = "sent" =>
             Unrenewed(r.step) \/ WholeSeconds(r.next) > leaseExpiry[r.step]]_vars

\* Counts.TurnID is shared and survives a step, yet an interrupt only ever goes to
\* the turn of the current step, and never once its lease is settled.
InterruptsOwnTurn ==
    [][\A t \in interrupts' \ interrupts : t = step /\ lease[t] \notin Settlements]_vars

\* After SIGINT the driver ends, whatever becomes of the turn, its connection and the
\* calls of the service, unless the app server leaves a StartThread or an InterruptTurn
\* without an answer: only these can keep a cancelled Run for ever.
CancelStops == <>[]AwaitsApp \/ (ctxDone ~> ~Alive)

\* If the service and the app server answer, every turn that is spawned leads back to
\* the loop or to the end of Run: the goroutines never wait for each other for ever.
TurnResolved == PeersAnswer => (pc = "waitStart" ~> (pc = "loop" \/ ~Alive))

\* The driver as LeaseProtocol sees it.
DriverState ==
    IF \E s \in Steps : Unrenewed(s) THEN "unrenewed"
    ELSE IF Alive THEN "working" ELSE "ended"

Protocol == INSTANCE LeaseProtocol WITH driver <- DriverState

\* The loop keeps the protocol: a lease at a time, a turn under a lease, a settlement
\* that is true, none for a lease that could not be extended.
KeepsProtocol == Protocol!Spec

\* The call of RunTurn of a step, as TurnCall sees it.
TurnPhase(s) ==
    CASE tpc[s] \in {"none", "open", "write"}           -> "begun"
      [] tpc[s] = "decode"                              -> "asked"
      [] tpc[s] \in {"extend", "interrupt", "returning"} -> "started"
      [] tpc[s] = "completion"                          -> "waiting"
      [] tpc[s] = "returned"                            -> "over"

TurnResult(s) == IF result[s] \in {"appError", "extensionFailed"} THEN "error" ELSE result[s]

TurnContract(s) ==
    INSTANCE TurnCall WITH phase <- TurnPhase(s), turn <- turn[s], result <- TurnResult(s)

\* What the loop expects of RunTurn, callback and interruption included, is no more
\* than the call promises (startTurn, UnixClient.RunTurn).
UsesTurnCall ==
    /\ \A s \in Steps : TurnContract(s)!Init
    /\ [][\A s \in Steps : [TurnContract(s)!Next]_(TurnContract(s)!vars)]_vars

\* A cancelled driver interrupts the turn it started before it leaves it
\* (wait_test.go, TestStepInterruptsActiveTurnWhenContextCancels).
CancelInterruptsTurn ==
    \A s \in Steps :
        (s = step /\ pc = "failed" /\ ctxDone /\ started[s] /\ result[s] = "none"
            /\ turn[s] = "running") => s \in interrupts

-----------------------------------------------------------------------------
(* The inductive invariant behind the safety properties.                   *)

\* Points of the main goroutine between two steps, and those at which a step may
\* still send its settlement.
BetweenSteps == {"loop", "verify", "idle"}
InStep ==
    {"claim", "thread", "waitStart", "renew", "extend",
     "interruptUnrenewed", "interruptCancelled", "unrenewed"}
AfterStart == {"renew", "extend", "interruptUnrenewed", "interruptCancelled"}

Untouched(s) ==
    tpc[s] = "none" /\ result[s] = "none" /\ ~started[s] /\ turn[s] = "none"

\* The turn goroutine of s was never spawned or returned, and not for its lease.
Over(s) == tpc[s] \in {"none", "returned"} /\ result[s] # "extensionFailed"

\* What makes a settlement of s right, now and for ever.
Justified(op, s) ==
    /\ Over(s)
    /\ op = "ack" => turn[s] = "completed"
    /\ op = "turn_failed" => turn[s] \in {"failed", "interrupted"}
    /\ op \in {"invalid_payload", "app_unreachable"} => Untouched(s)

\* Steps to come are untouched; steps gone by are over, settled, or were empty.
StepsInv ==
    /\ pc \in InStep \cup {"settle", "idle"} => step \in Steps
    /\ pc = "verify" => step < MaxSteps
    /\ \A s \in Steps : s > step => Untouched(s) /\ lease[s] = "none"
    /\ \A s \in Steps : s < step \/ (s = step /\ pc \in BetweenSteps) =>
          /\ Over(s)
          /\ lease[s] \in {"none"} \cup Settlements
          /\ lease[s] = "none" => turn[s] = "none"

\* The turn goroutine, its two channels and the turn agree.
TurnInv ==
    \A s \in Steps :
        /\ result[s] # "none" <=> tpc[s] = "returned"
        /\ result[s] \in TurnStatuses => turn[s] = result[s]
        /\ tpc[s] \in {"none", "open", "write"} => turn[s] = "none"
        /\ tpc[s] \in {"none", "open", "write", "decode", "extend", "interrupt"} => ~started[s]
        /\ tpc[s] \in {"returning", "completion"} => started[s]
        /\ tpc[s] \in {"extend", "interrupt", "returning", "completion"} => counts.turn = s
        /\ started[s] /\ s = step => counts.turn = s
        /\ tpc[s] = "returning" \/ result[s] = "extensionFailed" => s \in interrupts

\* Where the main goroutine is tells how far the turn of its step has come.
MainInv ==
    \A s \in Steps : s = step =>
        /\ pc \in {"claim", "thread"} => Untouched(s)
        /\ pc = "waitStart" => tpc[s] # "none"
        /\ pc \in AfterStart => started[s]
        /\ pc = "settle" => Over(s)
        /\ pc = "unrenewed" => s \in interrupts

\* A call belongs to the current step and to the goroutine that waits for it.
CallInv ==
    /\ \A s \in Steps : call[s] # NoCall =>
          tpc[s] = "extend" /\ call[s].op = "extend" /\ call[s].step = s
    /\ call[Main] # NoCall => call[Main].step = step /\ pc \in {"claim", "extend", "settle", "killed"}
    /\ pc = "claim" => call[Main].op = "claim"
    /\ pc = "extend" => call[Main].op = "extend"
    /\ pc = "settle" => call[Main].op \in Settlements
    /\ Fits(LeaseSeconds) =>
          \A c \in Callers : call[c].op = "extend" => call[c].next > 0
    /\ call[Main].op \in {"claim"} \cup Settlements => stray = {}
    /\ \A s \in Steps : s = step =>
          /\ call[Main].op = "extend" => started[s]
          /\ call[Main].op = "claim" => Untouched(s)
          /\ call[Main].op = "claim" /\ call[Main].st # "ok" => lease[s] = "none"
          /\ call[Main].op \in Settlements /\ call[Main].st = "ok" => lease[s] = call[Main].op

\* A request that was given up marks the end of its step, and of the driver.
StrayInv ==
    /\ \A r \in stray : r.step = step
    /\ stray # {} /\ Alive => \E s \in Steps : Unrenewed(s)

\* Every settlement, on its way or recorded, is justified; there is none before the
\* step sends it.
SettleInv ==
    /\ \A s \in Steps : lease[s] \in Settlements => Justified(lease[s], s)
    /\ \A s \in Steps : s = step =>
          /\ call[Main].op \in Settlements => Justified(call[Main].op, s)
          /\ \A r \in stray : r.op \in Settlements => Justified(r.op, s)
          /\ pc \in InStep =>
                /\ lease[s] \notin Settlements
                /\ call[Main].op \notin Settlements
                /\ \A r \in stray : r.op \notin Settlements

\* The inductive invariant: all of the above at once.
IInv ==
    /\ TypeOK
    /\ StepsInv
    /\ TurnInv
    /\ MainInv
    /\ CallInv
    /\ StrayInv
    /\ SettleInv
=============================================================================
