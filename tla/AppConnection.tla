--------------------------- MODULE AppConnection ---------------------------
(***************************************************************************)
(* The app server client (internal/control): StartThread, RunTurn,         *)
(* InterruptTurn and Ready.  Each opens a connection of its own over the   *)
(* control socket: an HTTP upgrade, initialize, initialized, and one       *)
(* request.  Answers are not told from one another by their ids; what is   *)
(* read next is taken for the answer, except where notifications are       *)
(* skipped.                                                                *)
(*                                                                         *)
(* A method runs in one goroutine.  For RunTurn a second one closes the    *)
(* connection once the context is done.  The socket is closed by open when *)
(* it fails, by Ready, and else by what the method has deferred.  The app  *)
(* server reads the requests of a connection in their order, and may send  *)
(* notifications, break the connection or fall silent whenever it likes.   *)
(*                                                                         *)
(* A connection stands for the call that opened it, and for the turn it    *)
(* asked for; an id is the request it was given to.                        *)
(***************************************************************************)
EXTENDS Naturals, Sequences

CONSTANTS
    Connections,  \* one for each call of a method
    Methods,      \* which methods are called together: functions from Connections
    MaxNotes      \* bound: unasked messages of the app server

ASSUME NotesAssumption == MaxNotes \in Nat
Operations == {"StartThread", "RunTurn", "InterruptTurn", "Ready"}

ASSUME ConnectionsAssumption ==
    /\ Connections \cap {"other", "none"} = {}
    /\ Methods \subseteq [Connections -> Operations]

\* What runs when a method returns that open has given a connection: its Close, and for
\* RunTurn, before that, the end of the goroutine that watches the context.
Deferred ==
    [StartThread |-> <<"close">>, RunTurn |-> <<"stop", "close">>,
     InterruptTurn |-> <<"close">>, Ready |-> <<>>]

\* The request of each method; Ready is content with an answer to initialize.
Request ==
    [StartThread |-> "thread/start", RunTurn |-> "turn/start",
     InterruptTurn |-> "turn/interrupt", Ready |-> "initialize"]
Requests == {"upgrade", "initialize", "initialized", "thread/start", "turn/start", "turn/interrupt"}

Ended == {"completed", "failed", "interrupted"}

\* The turns of these calls; "other" is one of another client.
Turns == Connections \cup {"other", "none"}

\* re: the request of an answer or error; turn, status: the turn object it carries, if
\* any.  Odd: a frame that is no text message, or no JSON of the expected shape.
Messages ==
    [kind : {"answer", "error", "completed", "note", "odd"},
     re : Requests \cup {"none"}, turn : Turns, status : Ended \cup {"inProgress", "none"}]

Answer(req, t, status) == [kind |-> "answer", re |-> req, turn |-> t, status |-> status]
ErrorTo(req) == [kind |-> "error", re |-> req, turn |-> "none", status |-> "none"]
Completed(t, status) == [kind |-> "completed", re |-> "none", turn |-> t, status |-> status]
Unasked(kind) == [kind |-> kind, re |-> "none", turn |-> "none", status |-> "none"]

\* Notifications, a completion that names no turn or one of another client, a frame that
\* is no text.
Unrequested == {Unasked("note"), Unasked("completed"), Completed("other", "completed"), Unasked("odd")}

VARIABLES
    op,         \* the method of each call
    at,         \* where it is
    cancelled,  \* calls whose context is done
    target,     \* the turn an InterruptTurn is about
    socket,     \* the socket: "none", "open", "closed" by the client, "gone"
    defers,     \* what the method has deferred, in the order it will run
    watched,    \* connections that a goroutine of closeWithContext waits to close
    sent,       \* requests on their way to the app server
    inbox,      \* messages on their way to the client
    took,       \* the requests of the answers it took for initialize and its own
    heard,      \* the Turn of the answer to turn/start
    reply,      \* what the method returned
    turn,       \* the app server's record of the turn of each call
    notes       \* how many unasked messages it has sent

clientVars == <<op, at, target, took, heard, reply>>
serverVars == <<turn, notes>>
wireVars == <<socket, sent, inbox>>
closeVars == <<defers, watched>>
vars == <<clientVars, cancelled, serverVars, wireVars, closeVars>>

Init ==
    /\ op \in Methods
    /\ at = [c \in Connections |-> "dial"]
    /\ cancelled = {}
    /\ target = [c \in Connections |-> "none"]
    /\ socket = [c \in Connections |-> "none"]
    /\ defers = [c \in Connections |-> <<>>]
    /\ watched = {}
    /\ sent = [c \in Connections |-> <<>>]
    /\ inbox = [c \in Connections |-> <<>>]
    /\ took = [c \in Connections |-> [init |-> "none", own |-> "none"]]
    /\ heard = [c \in Connections |-> [turn |-> "none", status |-> "none"]]
    /\ reply = [c \in Connections |-> "none"]
    /\ turn = [c \in Connections |-> "none"]
    /\ notes = 0

-----------------------------------------------------------------------------
(* The client.                                                             *)

\* A write succeeds unless the client itself has closed the socket.
Write(c, req) ==
    /\ socket[c] # "closed"
    /\ sent' = [sent EXCEPT ![c] = Append(@, req)]

\* A method returns; what it has deferred is still to run.
Return(c, r) ==
    /\ at' = [at EXCEPT ![c] = "returning"]
    /\ reply' = [reply EXCEPT ![c] = r]

Go(c, point) == at' = [at EXCEPT ![c] = point] /\ UNCHANGED reply

\* Connection.Close, of a socket that may be closed already.
Close(c) == socket' = [socket EXCEPT ![c] = "closed"]

\* The caller has its result, and nobody reads on.
Done(c) ==
    /\ at' = [at EXCEPT ![c] = "done"]
    /\ inbox' = [inbox EXCEPT ![c] = <<>>]

Read(c) == inbox[c] # <<>> /\ Head(inbox[c]).kind # "odd"
Message(c) == Head(inbox[c])
Consume(c) == inbox' = [inbox EXCEPT ![c] = Tail(@)]

\* The driver interrupts a turn that a callback has heard of.
Targets(c) ==
    IF op[c] = "InterruptTurn" THEN {heard[d].turn : d \in Connections} \ {"none"} ELSE {"none"}

\* open: dialling and the upgrade request both need a live context.
Dial(c) ==
    /\ at[c] = "dial"
    /\ c \notin cancelled
    /\ \E t \in Targets(c) : target' = [target EXCEPT ![c] = t]
    /\ socket' = [socket EXCEPT ![c] = "open"]
    /\ sent' = [sent EXCEPT ![c] = <<"upgrade">>]
    /\ at' = [at EXCEPT ![c] = "upgrading"]
    /\ UNCHANGED <<op, cancelled, took, heard, reply, inbox, serverVars, closeVars>>

DialFails(c) ==
    /\ at[c] = "dial"
    /\ Done(c)
    /\ reply' = [reply EXCEPT ![c] = "error"]
    /\ UNCHANGED <<op, target, cancelled, took, heard, sent, socket, serverVars, closeVars>>

Upgraded(c) ==
    /\ at[c] = "upgrading"
    /\ Read(c) /\ Consume(c)
    /\ \/ /\ Message(c).kind = "error"
          /\ Go(c, "notUpgraded")
          /\ UNCHANGED sent
       \/ /\ Message(c).kind # "error"
          /\ Write(c, "initialize")
          /\ Go(c, "initializing")
    /\ UNCHANGED <<op, target, cancelled, took, heard, socket, serverVars, closeVars>>

\* Seeded fault: an interrupt is sent without reading the answer to initialize.
InitializedHastily(c) ==
    /\ at[c] = "initializing"
    /\ op[c] # "InterruptTurn" => Read(c)
    /\ IF op[c] # "InterruptTurn" /\ Message(c).kind = "error"
       THEN Go(c, "notInitialized") /\ Consume(c) /\ UNCHANGED <<took, sent>>
       ELSE /\ IF op[c] = "InterruptTurn"
               THEN UNCHANGED <<took, inbox>>
               ELSE Consume(c) /\ took' = [took EXCEPT ![c].init = Message(c).re]
            /\ Write(c, "initialized")
            /\ Go(c, "opened")
    /\ UNCHANGED <<op, target, cancelled, heard, socket, serverVars, closeVars>>

\* notifyReady: the next message is the answer, unless it carries an error.
Initialized(c) ==
    /\ at[c] = "initializing"
    /\ Read(c) /\ Consume(c)
    /\ \/ /\ Message(c).kind = "error"
          /\ Go(c, "notInitialized")
          /\ UNCHANGED <<took, sent>>
       \/ /\ Message(c).kind # "error"
          /\ took' = [took EXCEPT ![c].init = Message(c).re]
          /\ Write(c, "initialized")
          /\ Go(c, "opened")
    /\ UNCHANGED <<op, target, cancelled, heard, socket, serverVars, closeVars>>

\* open itself closes the socket before it returns an error, of the upgrade and of
\* initialize; the method returns the error and has deferred nothing yet.
UpgradeFailed(c) ==
    /\ at[c] = "notUpgraded"
    /\ Close(c) /\ Done(c)
    /\ reply' = [reply EXCEPT ![c] = "error"]
    /\ UNCHANGED <<op, target, cancelled, took, heard, sent, serverVars, closeVars>>

\* Seeded fault: initialize's error path forgets the socket.
InitializeFailedLeaking(c) ==
    /\ at[c] = "notInitialized"
    /\ Done(c)
    /\ reply' = [reply EXCEPT ![c] = "error"]
    /\ UNCHANGED <<op, target, cancelled, took, heard, sent, socket, serverVars, closeVars>>

InitializeFailed(c) ==
    /\ at[c] = "notInitialized"
    /\ Close(c) /\ Done(c)
    /\ reply' = [reply EXCEPT ![c] = "error"]
    /\ UNCHANGED <<op, target, cancelled, took, heard, sent, serverVars, closeVars>>

\* Ready closes the connection itself.
Readied(c) ==
    /\ at[c] = "opened"
    /\ op[c] = "Ready"
    /\ Close(c) /\ Done(c)
    /\ reply' = [reply EXCEPT ![c] = "ok"]
    /\ UNCHANGED <<op, target, cancelled, took, heard, sent, serverVars, closeVars>>

\* The other methods defer the Close; RunTurn has the context watched as well.
Opened(c) ==
    /\ at[c] = "opened"
    /\ op[c] # "Ready"
    /\ defers' = [defers EXCEPT ![c] = Deferred[op[c]]]
    /\ watched' = IF op[c] = "RunTurn" THEN watched \cup {c} ELSE watched
    /\ Go(c, "asking")
    /\ UNCHANGED <<op, target, cancelled, took, heard, wireVars, serverVars>>

Call(c) ==
    /\ at[c] = "asking"
    /\ Write(c, Request[op[c]])
    /\ Go(c, "calling")
    /\ turn' = IF op[c] = "RunTurn" THEN [turn EXCEPT ![c] = "requested"] ELSE turn
    /\ UNCHANGED <<op, target, cancelled, took, heard, socket, inbox, notes, closeVars>>

\* decodeResponse: notifications are skipped.
SkipNote(c) ==
    /\ at[c] = "calling"
    /\ op[c] \in {"StartThread", "InterruptTurn"}
    /\ Read(c) /\ Message(c).kind \in {"completed", "note"}
    /\ Consume(c)
    /\ UNCHANGED <<clientVars, cancelled, serverVars, socket, sent, closeVars>>

\* Seeded fault: notifications are not skipped.
AnsweredByAny(c) ==
    /\ at[c] = "calling"
    /\ op[c] \in {"StartThread", "InterruptTurn"}
    /\ Read(c) /\ Consume(c)
    /\ Return(c, IF Message(c).kind = "error" THEN "error" ELSE "ok")
    /\ UNCHANGED <<op, target, cancelled, took, heard, socket, sent, serverVars, closeVars>>

Answered(c) ==
    /\ at[c] = "calling"
    /\ op[c] \in {"StartThread", "InterruptTurn"}
    /\ Read(c) /\ Message(c).kind \in {"answer", "error"}
    /\ Consume(c)
    /\ IF Message(c).kind = "error" \/ (op[c] = "StartThread" /\ Message(c).turn = "none")
       THEN Return(c, "error") /\ UNCHANGED took
       ELSE Return(c, "ok") /\ took' = [took EXCEPT ![c].own = Message(c).re]
    /\ UNCHANGED <<op, target, cancelled, heard, socket, sent, serverVars, closeVars>>

\* decodeStartedTurn: whatever comes next is taken for the answer; without the turn's id,
\* as in every notification, the call fails.  Then OnStarted is called.
TurnAnswered(c) ==
    /\ at[c] = "calling"
    /\ op[c] = "RunTurn"
    /\ Read(c) /\ Consume(c)
    /\ IF Message(c).kind # "answer" \/ Message(c).turn = "none"
       THEN Return(c, "error") /\ UNCHANGED <<took, heard>>
       ELSE /\ took' = [took EXCEPT ![c].own = Message(c).re]
            /\ heard' = [heard EXCEPT ![c] = [turn |-> Message(c).turn, status |-> Message(c).status]]
            /\ Go(c, "callback")
    /\ UNCHANGED <<op, target, cancelled, socket, sent, serverVars, closeVars>>

\* Seeded fault: what arrived during OnStarted is lost.
CalledBackDeaf(c) ==
    /\ at[c] = "callback"
    /\ \/ heard[c].status \in Ended /\ Return(c, heard[c].status) /\ UNCHANGED inbox
       \/ /\ heard[c].status \notin Ended
          /\ Go(c, "completion")
          /\ inbox' = [inbox EXCEPT ![c] = <<>>]
    /\ UNCHANGED <<op, target, cancelled, took, heard, socket, sent, serverVars, closeVars>>

\* OnStarted returns; a turn that had already ended is not waited for.
CalledBack(c) ==
    /\ at[c] = "callback"
    /\ \/ Return(c, "error")
       \/ heard[c].status \in Ended /\ Return(c, heard[c].status)
       \/ heard[c].status \notin Ended /\ Go(c, "completion")
    /\ UNCHANGED <<op, target, cancelled, took, heard, wireVars, serverVars, closeVars>>

\* Seeded faults: any completion ends the wait; the turn is returned as it was started.
TurnCompletedByAny(c) ==
    /\ at[c] = "completion"
    /\ Read(c) /\ Consume(c)
    /\ Message(c).kind = "completed"
    /\ Return(c, IF Message(c).turn = "none" THEN "error" ELSE Message(c).status)
    /\ UNCHANGED <<op, target, cancelled, took, heard, socket, sent, serverVars, closeVars>>

TurnCompletedAsStarted(c) ==
    /\ at[c] = "completion"
    /\ Read(c) /\ Consume(c)
    /\ Message(c).kind = "completed" /\ Message(c).turn = heard[c].turn
    /\ Return(c, heard[c].status)
    /\ UNCHANGED <<op, target, cancelled, took, heard, socket, sent, serverVars, closeVars>>

\* waitForCompletion: every message but the completion of this turn is skipped, except
\* a completion that names none.
TurnCompleted(c) ==
    /\ at[c] = "completion"
    /\ Read(c) /\ Consume(c)
    /\ \/ /\ Message(c).kind = "completed"
          /\ Message(c).turn = "none"
          /\ Return(c, "error")
       \/ /\ Message(c).kind = "completed"
          /\ Message(c).turn = heard[c].turn
          /\ Return(c, Message(c).status)
       \/ /\ Message(c).kind = "completed" => Message(c).turn \notin {"none", heard[c].turn}
          /\ UNCHANGED <<at, reply>>
    /\ UNCHANGED <<op, target, cancelled, took, heard, socket, sent, serverVars, closeVars>>

\* A read or write fails.  What the reader has buffered of a closed connection may still
\* be read; what the app server sent before it hung up is read first.
Broken(c) ==
    /\ \/ at[c] \in {"asking", "calling", "completion"} /\ socket[c] = "closed"
       \/ at[c] = "asking" /\ socket[c] = "gone"
       \/ /\ at[c] \in {"upgrading", "initializing", "calling", "completion"}
          /\ \/ socket[c] = "gone" /\ inbox[c] = <<>>
             \/ inbox[c] # <<>> /\ Message(c).kind = "odd"
    /\ CASE at[c] = "upgrading"    -> Go(c, "notUpgraded")
         [] at[c] = "initializing" -> Go(c, "notInitialized")
         [] OTHER                  -> Return(c, "error")
    /\ UNCHANGED <<op, target, cancelled, took, heard, wireVars, serverVars, closeVars>>

\* What was deferred runs when the method returns, the last one first.
RunDeferred(c) ==
    /\ at[c] = "returning"
    /\ defers[c] # <<>>
    /\ \/ Head(defers[c]) = "stop" /\ watched' = watched \ {c} /\ UNCHANGED socket
       \/ Head(defers[c]) = "close" /\ Close(c) /\ UNCHANGED watched
    /\ defers' = [defers EXCEPT ![c] = Tail(@)]
    /\ UNCHANGED <<clientVars, cancelled, serverVars, sent, inbox>>

Returned(c) ==
    /\ at[c] = "returning"
    /\ defers[c] = <<>>
    /\ Done(c)
    /\ UNCHANGED <<op, target, cancelled, took, heard, reply, socket, sent, serverVars, closeVars>>

\* Seeded fault: the guard is removed once the turn has started.
CloseWithContextEarly(c) ==
    /\ c \in watched \cap cancelled
    /\ at[c] \in {"asking", "calling"}
    /\ Close(c)
    /\ watched' = watched \ {c}
    /\ UNCHANGED <<clientVars, cancelled, serverVars, sent, inbox, defers>>

\* closeWithContext, until it is stopped; its goroutine ends with either.
CloseWithContext(c) ==
    /\ c \in watched \cap cancelled
    /\ Close(c)
    /\ watched' = watched \ {c}
    /\ UNCHANGED <<clientVars, cancelled, serverVars, sent, inbox, defers>>

\* The context of another method matters to its dial only, which may fail anyway.
Cancel(c) ==
    /\ op[c] = "RunTurn"
    /\ c \notin cancelled
    /\ at[c] # "done"
    /\ cancelled' = cancelled \cup {c}
    /\ UNCHANGED <<clientVars, serverVars, wireVars, closeVars>>

\* What a call does of itself, or once it has something to read.
ClientStep(c) ==
    \/ Dial(c) \/ Upgraded(c) \/ UpgradeFailed(c) \/ Initialized(c) \/ InitializeFailed(c)
    \/ Readied(c) \/ Opened(c) \/ Call(c)
    \/ SkipNote(c) \/ Answered(c) \/ TurnAnswered(c) \/ CalledBack(c) \/ TurnCompleted(c)
    \/ Broken(c) \/ RunDeferred(c) \/ Returned(c)

-----------------------------------------------------------------------------
(* The app server, as the client meets it.                                 *)

\* Only what is sent into an open socket arrives.
Deliver(messages) ==
    inbox' = [c \in Connections |->
                 IF socket[c] = "open" THEN inbox[c] \o messages[c] ELSE inbox[c]]

Only(c, message) == [d \in Connections |-> IF d = c THEN <<message>> ELSE <<>>]

\* Its answer to initialize is the first it says on a connection.
Greeted(c) ==
    \/ at[c] \notin {"dial", "upgrading", "notUpgraded", "initializing", "notInitialized"}
    \/ \E i \in DOMAIN inbox[c] : inbox[c][i].re = "initialize"

\* A turn ends: its connection is told, and any other that listens may be.
EndTurn(t, status, also, answers) ==
    /\ turn' = [turn EXCEPT ![t] = status]
    /\ Deliver([c \in Connections |->
                  (IF c = t \/ (c \in also /\ Greeted(c)) THEN <<Completed(t, status)>> ELSE <<>>)
                      \o answers[c]])

\* The next request of a connection is answered, or refused.  What the client wrote
\* before it closed the socket may still be read.
Serve(c) ==
    /\ socket[c] \in {"open", "closed"}
    /\ sent[c] # <<>>
    /\ sent' = [sent EXCEPT ![c] = Tail(@)]
    /\ LET req == Head(sent[c])
           t == target[c]
       IN \/ /\ req = "initialized"
             /\ UNCHANGED <<inbox, turn>>
          \/ /\ req # "initialized"
             /\ Deliver(Only(c, ErrorTo(req)))
             /\ UNCHANGED turn
          \/ /\ req \in {"upgrade", "initialize"}
             /\ Deliver(Only(c, Answer(req, "none", "none")))
             /\ UNCHANGED turn
          \/ /\ req = "thread/start"
             /\ \E id \in {c, "none"} : Deliver(Only(c, Answer(req, id, "none")))
             /\ UNCHANGED turn
          \/ /\ req = "turn/start"
             /\ \/ /\ turn' = [turn EXCEPT ![c] = "running"]
                   /\ \E id \in {c, "none"} : Deliver(Only(c, Answer(req, id, "inProgress")))
                \/ \E status \in Ended :
                      /\ turn' = [turn EXCEPT ![c] = status]
                      /\ Deliver(Only(c, Answer(req, c, status)))
          \/ /\ req = "turn/interrupt"
             /\ IF turn[t] = "running"
                THEN EndTurn(t, "interrupted", {}, Only(c, Answer(req, "none", "none")))
                ELSE Deliver(Only(c, Answer(req, "none", "none"))) /\ UNCHANGED turn
    /\ UNCHANGED <<clientVars, cancelled, socket, notes, closeVars>>

\* A turn ends by itself, or by another client's doing.
TurnEnds(t) ==
    /\ turn[t] = "running"
    /\ \E status \in Ended, also \in SUBSET (Connections \ {t}) :
          EndTurn(t, status, also, [c \in Connections |-> <<>>])
    /\ UNCHANGED <<clientVars, cancelled, socket, sent, notes, closeVars>>

Note(c) ==
    /\ notes < MaxNotes
    /\ socket[c] = "open"
    /\ Greeted(c)
    /\ \E m \in Unrequested : Deliver(Only(c, m))
    /\ notes' = notes + 1
    /\ UNCHANGED <<clientVars, cancelled, turn, socket, sent, closeVars>>

HangUp(c) ==
    /\ socket[c] = "open"
    /\ socket' = [socket EXCEPT ![c] = "gone"]
    /\ UNCHANGED <<clientVars, cancelled, serverVars, sent, inbox, closeVars>>

Server(c) == Serve(c) \/ TurnEnds(c) \/ Note(c) \/ HangUp(c)

Terminated == (\A c \in Connections : at[c] = "done") /\ UNCHANGED vars

Next ==
    \/ \E c \in Connections :
          ClientStep(c) \/ DialFails(c) \/ CloseWithContext(c) \/ Cancel(c) \/ Server(c)
    \/ Terminated

Spec == Init /\ [][Next]_vars

\* The goroutines of the client are scheduled.
ClientFairness ==
    \A c \in Connections : WF_vars(ClientStep(c)) /\ WF_vars(CloseWithContext(c))

FairSpec == Spec /\ ClientFairness

-----------------------------------------------------------------------------
(* Properties.                                                             *)

Points ==
    {"dial", "upgrading", "notUpgraded", "initializing", "notInitialized", "opened", "asking",
     "calling", "callback", "completion", "returning", "done"}

TypeOK ==
    /\ op \in [Connections -> Operations]
    /\ at \in [Connections -> Points]
    /\ cancelled \subseteq Connections
    /\ target \in [Connections -> Turns]
    /\ socket \in [Connections -> {"none", "open", "closed", "gone"}]
    /\ defers \in [Connections -> Seq({"stop", "close"})]
    /\ watched \subseteq Connections
    /\ sent \in [Connections -> Seq(Requests)]
    /\ inbox \in [Connections -> Seq(Messages)]
    /\ took \in [Connections -> [init : Requests \cup {"none"}, own : Requests \cup {"none"}]]
    /\ heard \in [Connections -> [turn : Turns, status : Ended \cup {"inProgress", "none"}]]
    /\ reply \in [Connections -> {"none", "ok", "error"} \cup Ended]
    /\ turn \in [Connections -> {"none", "requested", "running"} \cup Ended]
    /\ notes \in 0..MaxNotes

\* Although ids are not compared, no call takes an answer that was meant for another
\* request (notifyReady, decodeResponse, decodeStartedTurn).
AnswersMatch ==
    \A c \in Connections :
        /\ took[c].init \in {"none", "initialize"}
        /\ took[c].own \in {"none", Request[op[c]]}

\* An InterruptTurn that reports success has reached the app server: the turn it names
\* does not run any more.
InterruptReached ==
    \A c \in Connections :
        op[c] = "InterruptTurn" /\ reply[c] = "ok" => turn[target[c]] \in Ended

\* Once a method has returned its socket is closed and no goroutine watches it, however
\* far the method had come and whoever closed first: open on its two error paths, Ready,
\* the deferred functions, or the cancelled context (open, Ready, closeWithContext).
SocketsClosed ==
    \A c \in Connections :
        at[c] = "done" => socket[c] \in {"none", "closed"} /\ c \notin watched

\* A call as TurnCall sees it; one of another method never begins.
Phase(c) ==
    CASE op[c] # "RunTurn"               -> "begun"
      [] at[c] = "calling"               -> "asked"
      [] at[c] = "callback"              -> "started"
      [] at[c] = "completion"            -> "waiting"
      [] at[c] \in {"returning", "done"} -> "over"
      [] OTHER                           -> "begun"

Result(c) == IF op[c] = "RunTurn" THEN reply[c] ELSE "none"

Contract(c) ==
    INSTANCE TurnCall WITH phase <- Phase(c), turn <- turn[c], result <- Result(c)

\* RunTurn asks once, calls back only for a turn the app server has, and returns how
\* that turn ended and no other, whatever else arrives on the connection.
KeepsTurnCall ==
    /\ \A c \in Connections : Contract(c)!Init
    /\ [][\A c \in Connections : [Contract(c)!Next]_(Contract(c)!vars)]_vars

\* Once the context of a RunTurn is done it returns, even if the app server says
\* nothing any more (closeWithContext).
CancelledTurnReturns ==
    \A c \in Connections :
        op[c] = "RunTurn" /\ c \in cancelled /\ at[c] \in {"opened", "asking", "calling", "completion"}
            ~> at[c] = "done"

\* A turn that ended while OnStarted was still running is not waited for in vain: its
\* completion is still there to be read (waitForCompletion).
CompletionHeard ==
    \A c \in Connections :
        at[c] = "completion" /\ turn[c] \in Ended ~> at[c] = "done"
=============================================================================
