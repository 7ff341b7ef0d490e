------------------------ MODULE AppConnectionProofs ------------------------
(***************************************************************************)
(* What internal/control promises of a call, for any number of calls of    *)
(* any of its methods and any number of unasked messages.                  *)
(*                                                                         *)
(* The client compares no ids: that it still takes each answer for what it *)
(* is rests on the order in which things are written and read.  The        *)
(* invariant says that order: what the app server has yet to read          *)
(* (SentInv), what the call has yet to read (InboxInv), and what a message *)
(* may say while it waits there (Fits), which stays true because the app   *)
(* server forgets no turn and changes none that has ended (TurnsStay).     *)
(* That every way out of a method closes its socket rests on who owes the  *)
(* close at each point of the call (ClosingInv).                           *)
(***************************************************************************)
EXTENDS AppConnection, SequenceTheorems, TLAPS

-----------------------------------------------------------------------------
(* Sequences of messages and of requests.                                  *)

\* The sequences of at most two requests that wait to be read.
LEMMA ShortSequences ==
  ASSUME NEW a, NEW b
  PROVE  /\ <<a>> # <<>> /\ Head(<<a>>) = a /\ Tail(<<a>>) = <<>>
         /\ <<a, b>> # <<>> /\ Head(<<a, b>>) = a /\ Tail(<<a, b>>) = <<b>>
         /\ Append(<<>>, a) = <<a>> /\ Append(<<a>>, b) = <<a, b>>
<1> DEFINE S == {a, b}
<1>1. <<a>> \in Seq(S) /\ <<b>> \in Seq(S) /\ <<a, b>> \in Seq(S) /\ <<>> \in Seq(S) OBVIOUS
<1>2. Len(<<a>>) = 1 /\ Len(<<b>>) = 1 /\ Len(<<a, b>>) = 2 /\ Len(<<>>) = 0 OBVIOUS
<1>3. <<a>>[1] = a /\ <<b>>[1] = b /\ <<a, b>>[1] = a /\ <<a, b>>[2] = b OBVIOUS
<1>a. a \in S /\ b \in S OBVIOUS
<1> HIDE DEF S
<1>4. <<a>> # <<>> /\ <<a, b>> # <<>> BY <1>2
<1>5. Head(<<a>>) = a /\ Head(<<a, b>>) = a BY <1>1, <1>3, <1>4
<1>6. Tail(<<a>>) = <<>>
  <2>1. Tail(<<a>>) \in Seq(S) /\ Len(Tail(<<a>>)) = 0
    BY <1>1, <1>2, <1>4, HeadTailProperties
  <2> QED BY <2>1, EmptySeq
<1>7. Tail(<<a, b>>) = <<b>>
  <2>1. /\ Tail(<<a, b>>) \in Seq(S) /\ Len(Tail(<<a, b>>)) = 1
        /\ \A i \in 1 .. Len(Tail(<<a, b>>)) : Tail(<<a, b>>)[i] = <<a, b>>[i + 1]
    BY <1>1, <1>2, <1>4, HeadTailProperties
  <2>2. Tail(<<a, b>>)[1] = b BY <1>3, <2>1
  <2>3. \A i \in 1 .. 1 : i = 1 OBVIOUS
  <2> QED BY <1>1, <1>2, <1>3, <2>1, <2>2, <2>3, SeqEqual
<1>8. Append(<<>>, a) = <<a>>
  <2>1. /\ Append(<<>>, a) \in Seq(S) /\ Len(Append(<<>>, a)) = 1 /\ Append(<<>>, a)[1] = a
    BY <1>a, <1>1, <1>2, AppendProperties
  <2>2. \A i \in 1 .. 1 : i = 1 OBVIOUS
  <2> QED BY <1>1, <1>2, <1>3, <2>1, <2>2, SeqEqual
<1>9. Append(<<a>>, b) = <<a, b>>
  <2>1. /\ Append(<<a>>, b) \in Seq(S) /\ Len(Append(<<a>>, b)) = 2
        /\ Append(<<a>>, b)[1] = a /\ Append(<<a>>, b)[2] = b
    BY <1>a, <1>1, <1>2, <1>3, AppendProperties
  <2>2. \A i \in 1 .. 2 : i = 1 \/ i = 2 OBVIOUS
  <2> QED BY <1>1, <1>2, <1>3, <2>1, <2>2, SeqEqual
<1> QED BY <1>4, <1>5, <1>6, <1>7, <1>8, <1>9

\* What is added behind a message does not change what is read next.
LEMMA ConcatHeadTail ==
  ASSUME NEW S, NEW s \in Seq(S), s # <<>>, NEW t \in Seq(S)
  PROVE  /\ s \o t # <<>>
         /\ Head(s \o t) = Head(s)
         /\ Tail(s \o t) = Tail(s) \o t
<1>1. s \o t \in Seq(S) /\ Len(s) \in Nat /\ Len(s) > 0 /\ Len(t) \in Nat
  BY ConcatProperties, EmptySeq, LenProperties
<1>2. s \o t # <<>> BY ConcatEqualIffEmpty
<1>3. Len(s \o t) = Len(s) + Len(t) BY ConcatProperties
<1>4. (s \o t)[1] = s[1] BY <1>1, ConcatProperties
<1>5. Head(s \o t) = Head(s) BY <1>4
<1>6. /\ Tail(s) \in Seq(S) /\ Len(Tail(s)) = Len(s) - 1
      /\ \A i \in 1 .. Len(Tail(s)) : Tail(s)[i] = s[i + 1]
  BY HeadTailProperties
<1>7. /\ Tail(s \o t) \in Seq(S) /\ Len(Tail(s \o t)) = Len(s) + Len(t) - 1
      /\ \A i \in 1 .. Len(Tail(s \o t)) : Tail(s \o t)[i] = (s \o t)[i + 1]
  BY <1>1, <1>2, <1>3, HeadTailProperties
<1>8. /\ Tail(s) \o t \in Seq(S) /\ Len(Tail(s) \o t) = Len(s) - 1 + Len(t)
      /\ \A i \in 1 .. Len(s) - 1 + Len(t) :
            (Tail(s) \o t)[i] = IF i <= Len(s) - 1 THEN Tail(s)[i] ELSE t[i - (Len(s) - 1)]
  BY <1>6, ConcatProperties
<1>9. ASSUME NEW i \in 1 .. Len(s) + Len(t) - 1
      PROVE  Tail(s \o t)[i] = (Tail(s) \o t)[i]
  <2>1. Tail(s \o t)[i] = (s \o t)[i + 1] BY <1>7, <1>9
  <2>2. i + 1 \in 1 .. Len(s) + Len(t) BY <1>1, <1>9
  <2>3. (s \o t)[i + 1] = IF i + 1 <= Len(s) THEN s[i + 1] ELSE t[i + 1 - Len(s)]
    BY <2>2, ConcatProperties
  <2>4. CASE i + 1 <= Len(s)
    <3>1. i \in 1 .. Len(Tail(s)) BY <1>1, <1>6, <1>9, <2>4
    <3> QED BY <1>1, <1>6, <1>8, <1>9, <2>1, <2>3, <2>4, <3>1
  <2>5. CASE ~(i + 1 <= Len(s))
    <3>1. i + 1 - Len(s) = i - (Len(s) - 1) BY <1>1, <1>9
    <3>2. i \in 1 .. Len(s) - 1 + Len(t) /\ ~(i <= Len(s) - 1) BY <1>1, <1>9, <2>5
    <3> QED BY <1>8, <2>1, <2>3, <2>5, <3>1, <3>2
  <2> QED BY <2>4, <2>5
<1>10. Tail(s \o t) = Tail(s) \o t
  <2>1. Len(Tail(s \o t)) = Len(Tail(s) \o t) BY <1>1, <1>7, <1>8
  <2> QED BY <1>7, <1>8, <1>9, <2>1, SeqEqual
<1> QED BY <1>2, <1>5, <1>10

\* A message alone, as a sequence.
LEMMA One ==
  ASSUME NEW S, NEW m \in S
  PROVE  <<m>> \in Seq(S)
OBVIOUS

-----------------------------------------------------------------------------
(* The inductive invariant.                                                *)

\* The request a call is made for, and the turns the app server has a record of.
Own(c) == Request[op[c]]
Recorded == {"running"} \cup Ended

\* What a message may say to a call that reads on: answers are to its own request, a
\* turn is reported as it is, and an interrupt is confirmed once the turn has ended.
Fits(c, m) ==
    /\ IF m.kind \in {"answer", "error"} THEN m.re = Own(c) ELSE m.re = "none"
    /\ m.kind = "answer" /\ op[c] = "RunTurn" =>
          /\ m.turn \in {"none", c}
          /\ turn[c] \in Recorded
          /\ m.status \in Ended => m.status = turn[c]
    /\ m.kind = "answer" /\ op[c] = "InterruptTurn" =>
          target[c] \in Connections /\ turn[target[c]] \in Ended
    /\ m.kind = "completed" /\ m.turn \in Connections =>
          m.status \in Ended /\ m.status = turn[m.turn]

Expected(c) == {m \in Messages : Fits(c, m)}

\* Where a call is: before anything is deferred, with its Close deferred, reading what
\* the app server says of its own, having asked, and where nothing more is read.
Early == {"dial", "upgrading", "notUpgraded", "initializing", "notInitialized", "opened"}
Asked == {"calling", "callback", "completion"}
Held == {"asking"} \cup Asked
Listening == {"opened"} \cup Held
Deaf == {"notUpgraded", "notInitialized", "returning"}

\* Who closes the socket: open and Ready themselves as long as nothing is deferred, from
\* then on what is deferred; a watcher is stopped before that, and the last Close is made.
ClosingInv(c) ==
    /\ at[c] = "dial" => socket[c] = "none"
    /\ at[c] \in Early \cup {"done"} => defers[c] = <<>>
    /\ at[c] \in Held => op[c] # "Ready" /\ defers[c] = Deferred[op[c]]
    /\ at[c] = "returning" =>
          /\ defers[c] \in {<<"stop", "close">>, <<"close">>, <<>>}
          /\ defers[c] = <<>> => socket[c] = "closed"
    /\ c \in watched => defers[c] = <<"stop", "close">>
    /\ at[c] = "done" => socket[c] \in {"none", "closed"}
    /\ at[c] \notin {"returning", "done"} => reply[c] = "none"

\* What the app server has yet to read is what the call wrote last, and its own request
\* is behind the handshake; while that is there the turn waits for it.
SentInv(c) ==
    /\ at[c] = "dial" => sent[c] = <<>>
    /\ at[c] \in {"upgrading", "notUpgraded"} => sent[c] \in {<<>>, <<"upgrade">>}
    /\ at[c] \in {"initializing", "notInitialized"} => sent[c] \in {<<>>, <<"initialize">>}
    /\ at[c] \in {"opened", "asking"} => sent[c] \in {<<>>, <<"initialized">>}
    /\ at[c] \in Asked \cup {"returning"} =>
          sent[c] \in {<<>>, <<"initialized">>, <<"initialized", Own(c)>>, <<Own(c)>>}
    /\ at[c] = "done" =>
          sent[c] \in {<<>>, <<"upgrade">>, <<"initialize">>, <<"initialized">>,
                       <<"initialized", Own(c)>>, <<Own(c)>>}
    /\ op[c] = "RunTurn" /\ sent[c] \in {<<"initialized", Own(c)>>, <<Own(c)>>} =>
          turn[c] = "requested"
    /\ op[c] = "InterruptTurn" /\ sent[c] # <<>> => target[c] # "none"

\* What the call has yet to read: each answer of the handshake comes before anything
\* else, and before the next request is written.
InboxInv(c) ==
    /\ at[c] \in {"dial", "done"} => inbox[c] = <<>>
    /\ at[c] = "upgrading" =>
          \/ inbox[c] = <<>>
          \/ sent[c] = <<>> /\ \E m \in Messages : m.re = "upgrade" /\ inbox[c] = <<m>>
    /\ at[c] = "initializing" =>
          \/ inbox[c] = <<>>
          \/ /\ sent[c] = <<>> /\ inbox[c] # <<>>
             /\ Message(c).re = "initialize"
             /\ Tail(inbox[c]) \in Seq(Expected(c))
    /\ at[c] \in Listening => inbox[c] \in Seq(Expected(c))

\* OnStarted hears of the turn of its own call, and of its end only if it has ended.
HeardInv(c) ==
    /\ heard[c].turn \in {"none", c}
    /\ heard[c].turn = c =>
          /\ op[c] = "RunTurn" /\ turn[c] \in Recorded
          /\ heard[c].status \in Ended => heard[c].status = turn[c]
    /\ at[c] \in {"callback", "completion"} => heard[c].turn = c

\* An interrupt is sent for a turn the app server has.
TargetInv(c) ==
    /\ target[c] # "none" => target[c] \in Connections /\ turn[target[c]] \in Recorded
    /\ op[c] = "InterruptTurn" /\ at[c] \notin {"dial", "done"} => target[c] # "none"
    /\ op[c] = "InterruptTurn" /\ reply[c] = "ok" =>
          target[c] # "none" /\ turn[target[c]] \in Ended

\* Only a RunTurn asks for a turn, once it has been opened.
TurnInv(c) ==
    turn[c] # "none" =>
        op[c] = "RunTurn" /\ at[c] \in Asked \cup {"returning", "done"}

\* The answers that were taken are those that were asked for.
TookInv(c) ==
    /\ took[c].init \in {"none", "initialize"}
    /\ took[c].own \in {"none", Own(c)}

CallInv(c) ==
    /\ ClosingInv(c)
    /\ SentInv(c)
    /\ InboxInv(c)
    /\ HeardInv(c)
    /\ TargetInv(c)
    /\ TurnInv(c)
    /\ TookInv(c)

IInv == TypeOK /\ \A c \in Connections : CallInv(c)

-----------------------------------------------------------------------------
(* Types.                                                                  *)

\* The messages of the app server are of their type.
LEMMA MessagesTyped ==
  /\ \A req \in Requests, t \in Turns, status \in Ended \cup {"inProgress", "none"} :
        Answer(req, t, status) \in Messages
  /\ \A req \in Requests : ErrorTo(req) \in Messages
  /\ \A t \in Turns, status \in Ended : Completed(t, status) \in Messages
  /\ Unrequested \subseteq Messages
BY DEF Answer, ErrorTo, Completed, Unasked, Unrequested, Messages, Turns, Ended, Requests

\* A call that returns, or is done, keeps the types.
LEMMA ReturnTyped ==
  ASSUME TypeOK, NEW c \in Connections, NEW r \in {"ok", "error"} \cup Ended
  PROVE  /\ Return(c, r) => /\ at' \in [Connections -> Points]
                            /\ reply' \in [Connections -> {"none", "ok", "error"} \cup Ended]
         /\ Done(c) => /\ at' \in [Connections -> Points]
                       /\ inbox' \in [Connections -> Seq(Messages)]
         /\ [reply EXCEPT ![c] = r] \in [Connections -> {"none", "ok", "error"} \cup Ended]
         /\ Close(c) => socket' \in [Connections -> {"none", "open", "closed", "gone"}]
<1>1. /\ at \in [Connections -> Points] /\ inbox \in [Connections -> Seq(Messages)]
      /\ reply \in [Connections -> {"none", "ok", "error"} \cup Ended]
      /\ socket \in [Connections -> {"none", "open", "closed", "gone"}]
  BY DEF TypeOK
<1>2. /\ [at EXCEPT ![c] = "returning"] \in [Connections -> Points]
      /\ [at EXCEPT ![c] = "done"] \in [Connections -> Points]
  BY <1>1 DEF Points
<1>3. [reply EXCEPT ![c] = r] \in [Connections -> {"none", "ok", "error"} \cup Ended]
  BY <1>1
<1>4. [inbox EXCEPT ![c] = <<>>] \in [Connections -> Seq(Messages)] BY <1>1, EmptySeq
<1>5. [socket EXCEPT ![c] = "closed"] \in [Connections -> {"none", "open", "closed", "gone"}]
  BY <1>1
<1> QED BY <1>2, <1>3, <1>4, <1>5 DEF Return, Done, Close

\* What is deferred keeps its type, and so does what is left of it.
LEMMA DefersTyped ==
  ASSUME TypeOK, NEW c \in Connections
  PROVE  /\ \A o \in Operations : Deferred[o] \in Seq({"stop", "close"})
         /\ defers[c] # <<>> => Tail(defers[c]) \in Seq({"stop", "close"})
<1>1. /\ <<>> \in Seq({"stop", "close"}) /\ <<"close">> \in Seq({"stop", "close"})
      /\ <<"stop", "close">> \in Seq({"stop", "close"})
  OBVIOUS
<1>2. defers[c] \in Seq({"stop", "close"}) BY DEF TypeOK
<1>3. defers[c] # <<>> => Tail(defers[c]) \in Seq({"stop", "close"})
  BY <1>2, HeadTailProperties
<1> QED BY <1>1, <1>3 DEF Operations, Deferred

\* A message that is read is one of Messages, and so are those behind it.
LEMMA ReadTyped ==
  ASSUME TypeOK, NEW c \in Connections, inbox[c] # <<>>
  PROVE  /\ Message(c) \in Messages
         /\ Tail(inbox[c]) \in Seq(Messages)
BY HeadTailProperties DEF TypeOK, Message

\* A request that is written or read leaves a sequence of requests.
LEMMA SentTyped ==
  ASSUME TypeOK, NEW c \in Connections
  PROVE  /\ \A req \in Requests : Append(sent[c], req) \in Seq(Requests)
         /\ sent[c] # <<>> => Head(sent[c]) \in Requests /\ Tail(sent[c]) \in Seq(Requests)
<1>1. sent[c] \in Seq(Requests) BY DEF TypeOK
<1> QED BY <1>1, AppendProperties, HeadTailProperties

\* What is delivered keeps the types.
LEMMA DeliverTyped ==
  ASSUME TypeOK, NEW messages, \A c \in Connections : messages[c] \in Seq(Messages),
         Deliver(messages)
  PROVE  inbox' \in [Connections -> Seq(Messages)]
<1>1. ASSUME NEW c \in Connections
      PROVE  (IF socket[c] = "open" THEN inbox[c] \o messages[c] ELSE inbox[c]) \in Seq(Messages)
  <2>1. inbox[c] \in Seq(Messages) /\ messages[c] \in Seq(Messages) BY <1>1 DEF TypeOK
  <2> QED BY <2>1, ConcatProperties
<1> QED BY <1>1 DEF Deliver

\* One message to one connection.
LEMMA OnlyTyped ==
  ASSUME NEW S, NEW c, NEW m \in S, NEW d \in Connections
  PROVE  Only(c, m)[d] \in Seq(S)
BY One, EmptySeq DEF Only

\* The end of a turn keeps the types.
LEMMA EndTurnTyped ==
  ASSUME TypeOK, NEW t \in Turns, NEW status \in Ended, NEW also, NEW answers,
         \A c \in Connections : answers[c] \in Seq(Messages),
         EndTurn(t, status, also, answers)
  PROVE  /\ turn' \in [Connections -> {"none", "requested", "running"} \cup Ended]
         /\ inbox' \in [Connections -> Seq(Messages)]
<1>1. Completed(t, status) \in Messages BY MessagesTyped
<1>2. ASSUME NEW c \in Connections
      PROVE  (IF c = t \/ (c \in also /\ Greeted(c)) THEN <<Completed(t,
          status)>> ELSE <<>>)
                \o answers[c] \in Seq(Messages)
  <2>1. /\ <<Completed(t, status)>> \in Seq(Messages) /\ <<>> \in Seq(Messages)
        /\ answers[c] \in Seq(Messages)
    BY <1>1, One, EmptySeq
  <2> QED BY <2>1, ConcatProperties
<1>3. turn' \in [Connections -> {"none", "requested", "running"} \cup Ended]
  BY DEF EndTurn, TypeOK
<1> QED BY <1>2, <1>3, DeliverTyped DEF EndTurn

\* What is noted of an answer keeps the types.
LEMMA NotedTyped ==
  ASSUME TypeOK, NEW c \in Connections, NEW m \in Messages
  PROVE  /\ [took EXCEPT ![c].init = m.re] \in
              [Connections -> [init : Requests \cup {"none"}, own : Requests \cup {"none"}]]
         /\ [took EXCEPT ![c].own = m.re] \in
              [Connections -> [init : Requests \cup {"none"}, own : Requests \cup {"none"}]]
         /\ [heard EXCEPT ![c] = [turn |-> m.turn, status |-> m.status]] \in
              [Connections -> [turn : Turns, status : Ended \cup {"inProgress", "none"}]]
<1>1. /\ m.re \in Requests \cup {"none"} /\ m.turn \in Turns
      /\ m.status \in Ended \cup {"inProgress", "none"}
  BY DEF Messages
<1>2. took[c] \in [init : Requests \cup {"none"}, own : Requests \cup {"none"}]
  BY DEF TypeOK
<1>3. /\ [took[c] EXCEPT !.init = m.re] \in
            [init : Requests \cup {"none"}, own : Requests \cup {"none"}]
      /\ [took[c] EXCEPT !.own = m.re] \in
            [init : Requests \cup {"none"}, own : Requests \cup {"none"}]
  BY <1>1, <1>2
<1> QED BY <1>1, <1>3 DEF TypeOK

\* Every step of the client and of the app server keeps the types.
LEMMA TypePreserved ==
  ASSUME IInv, [Next]_vars
  PROVE  TypeOK'
<1> USE DEF vars, clientVars, serverVars, wireVars, closeVars
<1>a. /\ op \in [Connections -> Operations] /\ at \in [Connections -> Points]
      /\ cancelled \subseteq Connections /\ target \in [Connections -> Turns]
      /\ socket \in [Connections -> {"none", "open", "closed", "gone"}]
      /\ defers \in [Connections -> Seq({"stop", "close"})] /\ watched \subseteq Connections
      /\ sent \in [Connections -> Seq(Requests)] /\ inbox \in [Connections -> Seq(Messages)]
      /\ took \in [Connections -> [init : Requests \cup {"none"},
          own : Requests \cup {"none"}]]
      /\ heard \in [Connections -> [turn : Turns, status : Ended \cup {"inProgress",
          "none"}]]
      /\ reply \in [Connections -> {"none", "ok", "error"} \cup Ended]
      /\ turn \in [Connections -> {"none", "requested", "running"} \cup Ended]
      /\ notes \in 0..MaxNotes
  BY DEF IInv, TypeOK
<1>t. TypeOK BY DEF IInv
<1>b. /\ \A m \in Messages : m.re \in Requests \cup {"none"} /\ m.turn \in Turns
                             /\ m.status \in Ended \cup {"inProgress", "none"}
      /\ \A o \in Operations : Request[o] \in Requests
      /\ "upgrade" \in Requests /\ "initialize" \in Requests /\ "initialized" \in Requests
      /\ <<"upgrade">> \in Seq(Requests)
  BY DEF Messages, Operations, Request, Requests
<1>c. \A c \in Connections, req \in Requests : Append(sent[c], req) \in Seq(Requests)
  BY <1>t, SentTyped
<1>d. \A c \in Connections :
         inbox[c] # <<>> => Message(c) \in Messages /\ Tail(inbox[c]) \in Seq(Messages)
  BY <1>t, ReadTyped
<1> HIDE DEF Requests
<1>1. ASSUME NEW c \in Connections, Dial(c) PROVE TypeOK'
  <2>1. Targets(c) \subseteq Turns BY <1>a DEF Targets, Turns
  <2> QED BY <1>1, <1>a, <1>b, <2>1 DEF Dial, TypeOK, Points
<1>2. ASSUME NEW c \in Connections,
             \/ DialFails(c) \/ UpgradeFailed(c) \/ InitializeFailed(c) \/ Readied(c)
             \/ Broken(c) \/ Returned(c)
      PROVE  TypeOK'
  <2>1. CASE DialFails(c) BY <2>1, <1>a, <1>t, ReturnTyped DEF DialFails, TypeOK
  <2>2. CASE UpgradeFailed(c) \/ InitializeFailed(c)
    BY <2>2, <1>a, <1>t, ReturnTyped DEF UpgradeFailed, InitializeFailed, TypeOK
  <2>3. CASE Readied(c) BY <2>3, <1>a, <1>t, ReturnTyped DEF Readied, TypeOK
  <2>4. CASE Returned(c) BY <2>4, <1>a, <1>t, ReturnTyped DEF Returned, TypeOK
  <2>5. CASE Broken(c) BY <2>5, <1>a, <1>t, ReturnTyped DEF Broken, Go, TypeOK, Points
  <2> QED BY <1>2, <2>1, <2>2, <2>3, <2>4, <2>5
<1>3. ASSUME NEW c \in Connections, Upgraded(c) PROVE TypeOK'
  <2>1. inbox' \in [Connections -> Seq(Messages)]
    BY <1>3, <1>a, <1>d DEF Upgraded, Read, Consume
  <2>2. sent' \in [Connections -> Seq(Requests)]
    <3>1. Append(sent[c], "initialize") \in Seq(Requests) BY <1>b, <1>c
    <3>2. sent' = sent \/ sent' = [sent EXCEPT ![c] = Append(sent[c], "initialize")]
      BY <1>3 DEF Upgraded, Write
    <3> QED BY <1>a, <3>1, <3>2
  <2>3. at' \in [Connections -> Points] /\ UNCHANGED reply BY <1>3, <1>a DEF Upgraded, Go, Points
  <2> QED BY <1>3, <1>a, <2>1, <2>2, <2>3 DEF Upgraded, TypeOK
<1>4. ASSUME NEW c \in Connections, Initialized(c) PROVE TypeOK'
  <2>1. took' \in [Connections -> [init : Requests \cup {"none"}, own : Requests \cup {"none"}]]
    <3>1. Message(c) \in Messages BY <1>4, <1>d DEF Initialized, Read
    <3>2. [took EXCEPT ![c].init = Message(c).re] \in
            [Connections -> [init : Requests \cup {"none"}, own : Requests \cup {"none"}]]
      BY <1>t, <3>1, NotedTyped
    <3>3. UNCHANGED took \/ took' = [took EXCEPT ![c].init = Message(c).re]
      BY <1>4 DEF Initialized
    <3> QED BY <1>a, <3>2, <3>3
  <2>2. inbox' \in [Connections -> Seq(Messages)]
    BY <1>4, <1>a, <1>d DEF Initialized, Read, Consume
  <2>3. sent' \in [Connections -> Seq(Requests)]
    <3>1. Append(sent[c], "initialized") \in Seq(Requests) BY <1>b, <1>c
    <3>2. sent' = sent \/ sent' = [sent EXCEPT ![c] = Append(sent[c], "initialized")]
      BY <1>4 DEF Initialized, Write
    <3> QED BY <1>a, <3>1, <3>2
  <2>4. at' \in [Connections -> Points] /\ UNCHANGED reply
    BY <1>4, <1>a DEF Initialized, Go, Points
  <2> QED BY <1>4, <1>a, <2>1, <2>2, <2>3, <2>4 DEF Initialized, TypeOK
<1>5. ASSUME NEW c \in Connections, Call(c) PROVE TypeOK'
  BY <1>5, <1>a, <1>b, <1>c DEF Call, Write, Go, TypeOK, Points
<1>6. ASSUME NEW c \in Connections, SkipNote(c) PROVE TypeOK'
  BY <1>6, <1>a, <1>d DEF SkipNote, Read, Consume, TypeOK
<1>7. ASSUME NEW c \in Connections, Answered(c) PROVE TypeOK'
  <2>1. UNCHANGED took \/ took' = [took EXCEPT ![c].own = Message(c).re]
    BY <1>7 DEF Answered
  <2>2. took' \in [Connections -> [init : Requests \cup {"none"},
      own : Requests \cup {"none"}]]
    <3>1. Message(c) \in Messages BY <1>7, <1>d DEF Answered, Read
    <3>2. [took EXCEPT ![c].own = Message(c).re] \in
            [Connections -> [init : Requests \cup {"none"}, own : Requests \cup {"none"}]]
      BY <1>7, <1>t, <3>1, NotedTyped
    <3> QED BY <1>a, <2>1, <3>2
  <2>3. \E r \in {"ok", "error"} : Return(c, r) BY <1>7 DEF Answered
  <2>4. /\ at' \in [Connections -> Points]
        /\ reply' \in [Connections -> {"none", "ok", "error"} \cup Ended]
    BY <1>t, <2>3, ReturnTyped
  <2> QED BY <1>7, <1>a, <1>d, <2>2, <2>4 DEF Answered, Read, Consume, TypeOK
<1>8. ASSUME NEW c \in Connections, TurnAnswered(c) PROVE TypeOK'
  <2>1. Message(c) \in Messages /\ inbox' \in [Connections -> Seq(Messages)]
    BY <1>8, <1>a, <1>d DEF TurnAnswered, Read, Consume
  <2>2. CASE Return(c, "error") /\ UNCHANGED <<took, heard>>
    BY <1>8, <1>a, <2>1, <2>2, <1>t, ReturnTyped DEF TurnAnswered, TypeOK
  <2>3. CASE /\ took' = [took EXCEPT ![c].own = Message(c).re]
             /\ heard' = [heard EXCEPT ![c] = [turn |-> Message(c).turn,
                 status |-> Message(c).status]]
             /\ Go(c, "callback")
    BY <1>8, <1>a, <1>t, <2>1, <2>3, NotedTyped DEF TurnAnswered, Go, TypeOK, Points
  <2> QED BY <1>8, <2>2, <2>3 DEF TurnAnswered
<1>9. ASSUME NEW c \in Connections, CalledBack(c) PROVE TypeOK'
  <2>1. CASE \E r \in {"error"} \cup Ended : Return(c, r)
    BY <1>9, <1>a, <2>1, <1>t, ReturnTyped DEF CalledBack, TypeOK
  <2>2. CASE Go(c, "completion")
    BY <1>9, <1>a, <2>2 DEF CalledBack, Go, TypeOK, Points
  <2> QED BY <1>9, <2>1, <2>2 DEF CalledBack
<1>10. ASSUME NEW c \in Connections, TurnCompleted(c) PROVE TypeOK'
  <2>1. UNCHANGED <<op, target, cancelled, took, heard, socket, sent, turn, notes, closeVars>>
    BY <1>10 DEF TurnCompleted
  <2>2. inbox' \in [Connections -> Seq(Messages)]
    BY <1>10, <1>a, <1>d DEF TurnCompleted, Read, Consume
  <2>3. CASE \E r \in {"error"} \cup Ended : Return(c, r)
    BY <1>a, <1>t, <2>1, <2>2, <2>3, ReturnTyped DEF TypeOK
  <2>4. CASE UNCHANGED <<at, reply>> BY <1>a, <2>1, <2>2, <2>4 DEF TypeOK
  <2>5. ASSUME Message(c).kind = "completed", Message(c).turn = heard[c].turn
        PROVE  Message(c).status \in Ended
    <3>1. CallInv(c) /\ at[c] = "completion" /\ inbox[c] # <<>>
      BY <1>10 DEF IInv, TurnCompleted, Read
    <3>2. Message(c) \in Expected(c)
      BY <3>1, HeadTailProperties DEF CallInv, InboxInv, Message, Listening, Held, Asked
    <3>3. Message(c).turn = c BY <3>1, <2>5 DEF CallInv, HeardInv
    <3> QED BY <2>5, <3>2, <3>3 DEF Expected, Fits
  <2> QED BY <1>10, <2>3, <2>4, <2>5 DEF TurnCompleted
<1>16. ASSUME NEW c \in Connections, Opened(c) PROVE TypeOK'
  <2>1. Deferred[op[c]] \in Seq({"stop", "close"}) BY <1>a, <1>t, DefersTyped
  <2> QED BY <1>16, <1>a, <2>1 DEF Opened, Go, TypeOK, Points
<1>17. ASSUME NEW c \in Connections, RunDeferred(c) PROVE TypeOK'
  <2>1. Tail(defers[c]) \in Seq({"stop", "close"}) BY <1>17, <1>t, DefersTyped DEF RunDeferred
  <2> QED BY <1>17, <1>a, <2>1 DEF RunDeferred, Close, TypeOK
<1>11. ASSUME NEW c \in Connections, CloseWithContext(c) \/ Cancel(c) \/ HangUp(c)
    PROVE TypeOK'
  BY <1>11, <1>a DEF CloseWithContext, Close, Cancel, HangUp, TypeOK
<1>12. ASSUME NEW c \in Connections, Note(c) PROVE TypeOK'
  <2>1. PICK m \in Unrequested : Deliver(Only(c, m)) BY <1>12 DEF Note
  <2>2. \A d \in Connections : Only(c, m)[d] \in Seq(Messages)
    BY MessagesTyped, OnlyTyped
  <2>3. inbox' \in [Connections -> Seq(Messages)] BY <1>t, <2>1, <2>2, DeliverTyped
  <2> QED BY <1>12, <1>a, <2>3, NotesAssumption DEF Note, TypeOK
<1>13. ASSUME NEW c \in Connections, TurnEnds(c) PROVE TypeOK'
  <2>1. PICK status \in Ended, also \in SUBSET (Connections \ {c}) :
           EndTurn(c, status, also, [d \in Connections |-> <<>>])
    BY <1>13 DEF TurnEnds
  <2>2. \A d \in Connections : [e \in Connections |-> <<>>][d] \in Seq(Messages) BY EmptySeq
  <2>3. c \in Turns BY DEF Turns
  <2> QED BY <1>13, <1>a, <2>1, <2>2, <2>3, <1>t, EndTurnTyped DEF TurnEnds, TypeOK
<1>14. ASSUME NEW c \in Connections, Serve(c) PROVE TypeOK'
  <2> DEFINE req == Head(sent[c])
             t == target[c]
  <2>1. /\ req \in Requests /\ sent' = [sent EXCEPT ![c] = Tail(sent[c])]
        /\ Tail(sent[c]) \in Seq(Requests) /\ t \in Turns /\ c \in Turns /\ "none" \in Turns
        /\ UNCHANGED <<op, at, target, took, heard, reply, cancelled, socket, notes, closeVars>>
    BY <1>14, <1>a, <1>t, SentTyped DEF Serve, Turns
  <2> HIDE DEF req, t
  <2>2. ASSUME NEW m \in Messages, Deliver(Only(c, m))
        PROVE  inbox' \in [Connections -> Seq(Messages)]
    <3>1. \A d \in Connections : Only(c, m)[d] \in Seq(Messages) BY OnlyTyped
    <3> QED BY <1>t, <2>2, <3>1, DeliverTyped
  <2>3. ASSUME turn' \in [Connections -> {"none", "requested", "running"} \cup Ended],
               inbox' \in [Connections -> Seq(Messages)]
        PROVE  TypeOK'
    BY <1>a, <2>1, <2>3 DEF TypeOK
  <2>4. CASE inbox' = inbox /\ turn' = turn BY <1>a, <2>3, <2>4
  <2>5. CASE \E m \in Messages : Deliver(Only(c, m)) /\ UNCHANGED turn
    BY <1>a, <2>2, <2>3, <2>5
  <2>6. ASSUME NEW m \in Messages, NEW status \in {"running"} \cup Ended,
               Deliver(Only(c, m)), turn' = [turn EXCEPT ![c] = status]
        PROVE  TypeOK'
    BY <1>a, <2>2, <2>3, <2>6
  <2>7. ASSUME NEW m \in Messages, EndTurn(t, "interrupted", {}, Only(c, m))
        PROVE  TypeOK'
    <3>1. \A d \in Connections : Only(c, m)[d] \in Seq(Messages) BY OnlyTyped
    <3>2. "interrupted" \in Ended BY DEF Ended
    <3> QED BY <1>t, <2>1, <2>3, <2>7, <3>1, <3>2, EndTurnTyped
  <2>8. /\ ErrorTo(req) \in Messages /\ Answer(req, "none", "none") \in Messages
        /\ \A id \in {c, "none"} : /\ Answer(req, id, "none") \in Messages
                                  /\ Answer(req, id, "inProgress") \in Messages
        /\ \A status \in Ended : Answer(req, c, status) \in Messages
    BY <2>1, MessagesTyped
  <2>9. \/ UNCHANGED <<inbox, turn>>
        \/ \E m \in Messages : Deliver(Only(c, m)) /\ UNCHANGED turn
        \/ \E m \in Messages, status \in {"running"} \cup Ended :
              Deliver(Only(c, m)) /\ turn' = [turn EXCEPT ![c] = status]
        \/ \E m \in Messages : EndTurn(t, "interrupted", {}, Only(c, m))
    BY <1>14, <2>8 DEF Serve, req, t
  <2> QED BY <2>4, <2>5, <2>6, <2>7, <2>9
<1>15. CASE UNCHANGED vars BY <1>15, <1>a DEF TypeOK
<1> QED
  BY <1>1, <1>2, <1>3, <1>4, <1>5, <1>6, <1>7, <1>8, <1>9, <1>10, <1>11, <1>12, <1>13,
     <1>14, <1>15, <1>16, <1>17
  DEF Next, ClientStep, Server, Terminated

-----------------------------------------------------------------------------
(* What a step leaves as it is.                                            *)

\* The app server forgets no turn, and changes none that has ended.
TurnsStay ==
    \A t \in Connections :
        /\ turn[t] \in Recorded => turn'[t] \in Recorded
        /\ turn[t] \in Ended => turn'[t] = turn[t]

\* What a message says stays true.
LEMMA ExpectedStays ==
  ASSUME TurnsStay, NEW c \in Connections, op'[c] = op[c], target'[c] = target[c]
  PROVE  Expected(c) \subseteq Expected(c)'
<1>1. ASSUME NEW m \in Messages, Fits(c, m)
      PROVE  Fits(c, m)'
  <2>1. Own(c)' = Own(c) BY DEF Own
  <2> QED BY <1>1, <2>1 DEF Fits, TurnsStay
<1> QED BY <1>1 DEF Expected

\* So does what a call has yet to read, if it is left alone.
LEMMA InboxStays ==
  ASSUME IInv, TurnsStay, NEW c \in Connections,
         UNCHANGED <<op[c], at[c], target[c], sent[c], inbox[c]>>
  PROVE  InboxInv(c)'
<1>1. InboxInv(c) BY DEF IInv, CallInv
<1>2. Expected(c) \subseteq Expected(c)' BY ExpectedStays
<1>3. \A s : s \in Seq(Expected(c)) => s \in Seq(Expected(c)') BY <1>2, SeqMonotonic
<1>4. inbox'[c] = inbox[c] /\ Message(c)' = Message(c) BY DEF Message
<1> HIDE DEF Expected
<1> QED BY <1>1, <1>3, <1>4 DEF InboxInv

\* A step of one call leaves the others as they are.
LEMMA OthersStay ==
  ASSUME IInv, TurnsStay, NEW c \in Connections,
         UNCHANGED <<op[c], at[c], target[c], took[c], heard[c], reply[c], socket[c],
                     defers[c], sent[c], inbox[c], turn[c]>>,
         c \in watched' => c \in watched
  PROVE  CallInv(c)'
<1>1. CallInv(c) BY DEF IInv
<1>2. InboxInv(c)' BY InboxStays
<1>3. Own(c)' = Own(c) BY DEF Own
<1>4. ClosingInv(c)' /\ SentInv(c)' /\ TookInv(c)' /\ TurnInv(c)'
  BY <1>1, <1>3 DEF CallInv, ClosingInv, SentInv, TookInv, TurnInv
<1>5. HeardInv(c)' BY <1>1 DEF CallInv, HeardInv
<1>6. TargetInv(c)' BY <1>1 DEF CallInv, TargetInv, TurnsStay, Recorded
<1> QED BY <1>2, <1>4, <1>5, <1>6 DEF CallInv

\* A step of the app server leaves the calls as they are.
LEMMA ServerKeeps ==
  ASSUME IInv, TurnsStay, UNCHANGED clientVars, NEW c \in Connections,
         ClosingInv(c)', SentInv(c)', InboxInv(c)', TurnInv(c)'
  PROVE  CallInv(c)'
<1>1. CallInv(c) BY DEF IInv
<1>2. /\ op'[c] = op[c] /\ at'[c] = at[c] /\ target'[c] = target[c] /\ took'[c] = took[c]
      /\ heard'[c] = heard[c] /\ reply'[c] = reply[c]
  BY DEF clientVars
<1>3. TookInv(c)' BY <1>1, <1>2 DEF CallInv, TookInv, Own
<1>4. HeardInv(c)'
  <2>1. HeardInv(c) BY <1>1 DEF CallInv
  <2> QED BY <1>2, <2>1 DEF HeardInv, TurnsStay
<1>5. TargetInv(c)'
  <2>1. TargetInv(c) BY <1>1 DEF CallInv
  <2> QED BY <1>2, <2>1 DEF TargetInv, TurnsStay
<1> QED BY <1>3, <1>4, <1>5 DEF CallInv

\* Greetings come first: before its answer to initialize nothing else is read.
LEMMA GreetedFirst ==
  ASSUME IInv, NEW c \in Connections, Greeted(c), socket[c] = "open"
  PROVE  \/ at[c] \in Listening \cup Deaf
         \/ at[c] = "initializing" /\ inbox[c] # <<>>
<1>1. TypeOK /\ ClosingInv(c) /\ InboxInv(c) BY DEF IInv, CallInv
<1>2. at[c] # "dial" /\ at[c] # "done" BY <1>1 DEF ClosingInv
<1>3. ASSUME NEW i \in DOMAIN inbox[c], inbox[c][i].re = "initialize",
    inbox[c] = <<>> PROVE FALSE
  <2>1. DOMAIN <<>> = {} OBVIOUS
  <2> QED BY <1>3, <2>1
<1>4. ASSUME NEW i \in DOMAIN inbox[c], inbox[c][i].re = "initialize",
    at[c] = "upgrading" PROVE FALSE
  <2>1. PICK m \in Messages : m.re = "upgrade" /\ inbox[c] = <<m>>
    BY <1>1, <1>3, <1>4 DEF InboxInv
  <2>2. DOMAIN <<m>> = {1} /\ <<m>>[1] = m OBVIOUS
  <2> QED BY <1>4, <2>1, <2>2
<1> QED BY <1>1, <1>2, <1>3, <1>4 DEF Greeted, TypeOK, Points, Listening, Held, Asked, Deaf

\* What arrives is added behind what is there.
LEMMA Delivered ==
  ASSUME IInv, TurnsStay, UNCHANGED clientVars, NEW messages, Deliver(messages),
         NEW c \in Connections, messages[c] \in Seq(Expected(c)'),
         sent[c] = <<>> => sent'[c] = <<>>,
         socket[c] = "open" /\ messages[c] # <<>> =>
            \/ at[c] \in Listening \cup Deaf
            \/ at[c] = "initializing" /\ inbox[c] # <<>>
  PROVE  InboxInv(c)'
<1>1. TypeOK /\ InboxInv(c) /\ inbox[c] \in Seq(Messages) BY DEF IInv, CallInv, TypeOK
<1>2. /\ op'[c] = op[c] /\ at'[c] = at[c] /\ target'[c] = target[c]
  BY DEF clientVars
<1>3. Expected(c) \subseteq Expected(c)' BY <1>2, ExpectedStays
<1>4. \A s : s \in Seq(Expected(c)) => s \in Seq(Expected(c)') BY <1>3, SeqMonotonic
<1>5. inbox'[c] = IF socket[c] = "open" THEN inbox[c] \o messages[c] ELSE inbox[c]
  BY DEF Deliver
<1> HIDE DEF Expected
<1>6. CASE socket[c] # "open" \/ messages[c] = <<>>
  <2>1. inbox'[c] = inbox[c] BY <1>1, <1>5, <1>6, ConcatEmptySeq
  <2>2. Message(c)' = Message(c) BY <2>1 DEF Message
  <2> QED BY <1>1, <1>2, <1>4, <2>1, <2>2 DEF InboxInv
<1>7. CASE socket[c] = "open" /\ messages[c] # <<>> /\ at[c] \in Listening
  <2>1. inbox[c] \in Seq(Expected(c)') BY <1>1, <1>4, <1>7 DEF InboxInv
  <2>2. inbox'[c] \in Seq(Expected(c)') BY <1>5, <1>7, <2>1, ConcatProperties
  <2> QED BY <1>2, <1>7, <2>2 DEF InboxInv, Listening, Held, Asked
<1>8. CASE socket[c] = "open" /\ messages[c] # <<>> /\ at[c] = "initializing" /\ inbox[c] # <<>>
  <2>1. /\ sent[c] = <<>> /\ Message(c).re = "initialize"
        /\ Tail(inbox[c]) \in Seq(Expected(c)')
    BY <1>1, <1>4, <1>8 DEF InboxInv
  <2>2. messages[c] \in Seq(Messages)
    <3>1. Expected(c)' \subseteq Messages BY DEF Expected
    <3> QED BY <3>1, SeqMonotonic
  <2>3. /\ inbox'[c] # <<>> /\ Head(inbox'[c]) = Head(inbox[c])
        /\ Tail(inbox'[c]) = Tail(inbox[c]) \o messages[c]
    <3>1. inbox'[c] = inbox[c] \o messages[c] BY <1>5, <1>8
    <3>2. inbox[c] # <<>> BY <1>8
    <3>3. LET i == inbox[c] \o messages[c]
          IN  i # <<>> /\ Head(i) = Head(inbox[c]) /\ Tail(i) = Tail(inbox[c]) \o messages[c]
      BY <1>1, <2>2, <3>2, ConcatHeadTail
    <3> QED BY <3>1, <3>3
  <2>4. Tail(inbox'[c]) \in Seq(Expected(c)') BY <2>1, <2>3, ConcatProperties
  <2>5. Message(c)' = Message(c) BY <2>3 DEF Message
  <2> QED BY <1>2, <1>8, <2>1, <2>3, <2>4, <2>5 DEF InboxInv
<1>9. CASE at[c] \in Deaf
  BY <1>2, <1>9 DEF InboxInv, Deaf, Listening, Held, Asked
<1> QED BY <1>6, <1>7, <1>8, <1>9

-----------------------------------------------------------------------------
(* The steps of the app server.                                            *)

\* Each method's own request is its own, and no part of the handshake but for Ready.
LEMMA OwnRequest ==
  ASSUME TypeOK, NEW c \in Connections
  PROVE  /\ Own(c) \in {"thread/start", "turn/start", "turn/interrupt", "initialize"}
         /\ Own(c) = "turn/start" <=> op[c] = "RunTurn"
         /\ Own(c) = "turn/interrupt" <=> op[c] = "InterruptTurn"
BY DEF TypeOK, Operations, Own, Request

\* The request the app server reads next, and what that leaves.
LEMMA ServeReads ==
  ASSUME IInv, NEW c \in Connections, sent[c] # <<>>, sent' = [sent EXCEPT ![c] = Tail(@)]
  PROVE  /\ at[c] # "dial"
         /\ at[c] = "upgrading" => Head(sent[c]) = "upgrade" /\ sent'[c] = <<>> /\ inbox[c] = <<>>
         /\ at[c] = "initializing" =>
               Head(sent[c]) = "initialize" /\ sent'[c] = <<>> /\ inbox[c] = <<>>
         /\ at[c] \in {"opened", "asking"} => Head(sent[c]) = "initialized" /\ sent'[c] = <<>>
         /\ at[c] \in Asked => Head(sent[c]) \in {"initialized", Own(c)}
         /\ sent'[c] = <<>> \/ (sent'[c] = <<Own(c)>> /\ Head(sent[c]) = "initialized"
                                  /\ at[c] \in Asked \cup {"returning", "done"}
                                  /\ sent[c] = <<"initialized", Own(c)>>)
         /\ Head(sent[c]) = "turn/start" =>
               op[c] = "RunTurn" /\ turn[c] = "requested"
                 /\ at[c] \in Asked \cup {"returning", "done"}
         /\ Head(sent[c]) = "turn/interrupt" =>
               /\ op[c] = "InterruptTurn" /\ target[c] \in Connections /\ target[c] # c
               /\ turn[target[c]] \in Recorded
               /\ at[c] \in Asked \cup {"returning", "done"}
<1>1. TypeOK /\ SentInv(c) /\ InboxInv(c) /\ TargetInv(c) BY DEF IInv, CallInv
<1>2. /\ Own(c) \in {"thread/start", "turn/start", "turn/interrupt", "initialize"}
      /\ Own(c) = "turn/start" <=> op[c] = "RunTurn"
      /\ Own(c) = "turn/interrupt" <=> op[c] = "InterruptTurn"
  BY <1>1, OwnRequest
<1>3. sent'[c] = Tail(sent[c]) /\ at[c] \in Points BY <1>1 DEF TypeOK
<1>4. at[c] # "dial" BY <1>1 DEF SentInv
<1>5. at[c] \in {"upgrading", "notUpgraded"} => Head(sent[c]) = "upgrade" /\ sent'[c] = <<>>
  <2> SUFFICES ASSUME at[c] \in {"upgrading", "notUpgraded"}
               PROVE  Head(sent[c]) = "upgrade" /\ sent'[c] = <<>>
    OBVIOUS
  <2>1. sent[c] = <<"upgrade">> BY <1>1 DEF SentInv
  <2> QED BY <1>3, <2>1, ShortSequences
<1>6. at[c] \in {"initializing", "notInitialized"} =>
         Head(sent[c]) = "initialize" /\ sent'[c] = <<>>
  <2> SUFFICES ASSUME at[c] \in {"initializing", "notInitialized"}
               PROVE  Head(sent[c]) = "initialize" /\ sent'[c] = <<>>
    OBVIOUS
  <2>1. sent[c] = <<"initialize">> BY <1>1 DEF SentInv
  <2> QED BY <1>3, <2>1, ShortSequences
<1>i. at[c] \in {"upgrading", "initializing"} => inbox[c] = <<>> BY <1>1 DEF InboxInv
<1>7. at[c] \in {"opened", "asking"} => Head(sent[c]) = "initialized" /\ sent'[c] = <<>>
  <2> SUFFICES ASSUME at[c] \in {"opened", "asking"}
      PROVE Head(sent[c]) = "initialized" /\ sent'[c] = <<>>
    OBVIOUS
  <2>1. sent[c] = <<"initialized">> BY <1>1 DEF SentInv
  <2> QED BY <1>3, <2>1, ShortSequences
<1>8. at[c] \in Asked \cup {"returning", "done"} =>
         \/ /\ sent[c] = <<"initialized", Own(c)>> /\ sent'[c] = <<Own(c)>>
            /\ Head(sent[c]) = "initialized"
         \/ /\ sent[c] = <<Own(c)>> /\ sent'[c] = <<>> /\ Head(sent[c]) = Own(c)
         \/ /\ sent'[c] = <<>> /\ Head(sent[c]) = "initialized"
         \/ /\ sent'[c] = <<>> /\ at[c] = "done" /\ Head(sent[c]) \in {"upgrade",
             "initialize"}
  <2>1. CASE sent[c] = <<"initialized", Own(c)>> BY <1>3, <2>1, ShortSequences
  <2>2. CASE sent[c] = <<Own(c)>> BY <1>3, <2>2, ShortSequences
  <2>3. CASE sent[c] = <<"initialized">> BY <1>3, <2>3, ShortSequences
  <2>4. CASE sent[c] \in {<<"upgrade">>, <<"initialize">>} /\ at[c] = "done"
    BY <1>3, <2>4, ShortSequences
  <2> QED BY <1>1, <2>1, <2>2, <2>3, <2>4 DEF SentInv
<1>9. \/ at[c] \in {"upgrading", "notUpgraded", "initializing", "notInitialized"}
      \/ at[c] \in {"opened", "asking"}
      \/ at[c] \in Asked \cup {"returning", "done"}
  BY <1>3, <1>4 DEF Points, Asked
<1>10. Head(sent[c]) = "turn/start" =>
         op[c] = "RunTurn" /\ turn[c] = "requested"
           /\ at[c] \in Asked \cup {"returning", "done"}
  BY <1>1, <1>2, <1>5, <1>6, <1>7, <1>8, <1>9 DEF SentInv
<1>11. Head(sent[c]) = "turn/interrupt" =>
         /\ op[c] = "InterruptTurn" /\ target[c] \in Connections /\ target[c] # c
         /\ turn[target[c]] \in Recorded
         /\ at[c] \in Asked \cup {"returning", "done"}
  <2> SUFFICES ASSUME Head(sent[c]) = "turn/interrupt"
               PROVE  /\ op[c] = "InterruptTurn" /\ target[c] \in Connections /\ target[c] # c
                      /\ turn[target[c]] \in Recorded
                      /\ at[c] \in Asked \cup {"returning", "done"}
    OBVIOUS
  <2>1. op[c] = "InterruptTurn" /\ at[c] \in Asked \cup {"returning", "done"}
    BY <1>2, <1>5, <1>6, <1>7, <1>8, <1>9
  <2>2. target[c] # "none" BY <1>1, <2>1 DEF SentInv
  <2>3. target[c] \in Connections /\ turn[target[c]] \in Recorded
    BY <1>1, <2>2 DEF TargetInv
  <2>4. op[target[c]] = "RunTurn"
    <3>1. turn[target[c]] # "none" BY <2>3 DEF Recorded, Ended
    <3> QED BY <2>3, <3>1 DEF IInv, CallInv, TurnInv
  <2> QED BY <2>1, <2>3, <2>4
<1>12. at[c] \in Asked => Head(sent[c]) \in {"initialized", Own(c)}
  <2>1. "done" \notin Asked BY DEF Asked
  <2> QED BY <1>8, <2>1
<1>13. sent'[c] = <<>> \/ (sent'[c] = <<Own(c)>> /\ Head(sent[c]) = "initialized"
                              /\ at[c] \in Asked \cup {"returning", "done"}
                              /\ sent[c] = <<"initialized", Own(c)>>)
  BY <1>5, <1>6, <1>7, <1>8, <1>9
<1> QED BY <1>4, <1>5, <1>6, <1>i, <1>7, <1>10, <1>11, <1>12, <1>13

\* A turn that ends is told of on its own connection and on those that listen.
LEMMA EndTurnKeeps ==
  ASSUME IInv, NEW t \in Connections, turn[t] = "running", NEW status \in Ended,
         NEW also, NEW answers, EndTurn(t, status, also, answers), UNCHANGED clientVars,
         NEW c \in Connections, answers[c] \in Seq(Expected(c)'),
         sent[c] = <<>> => sent'[c] = <<>>,
         socket[c] = "open" /\ answers[c] # <<>> => at[c] \in Listening \cup Deaf
  PROVE  /\ TurnsStay
         /\ InboxInv(c)'
         /\ TurnInv(c)'
         /\ turn'[c] = turn[c] \/ turn[c] = "running"
<1>1. TypeOK /\ turn \in [Connections -> {"none", "requested", "running"} \cup Ended]
  BY DEF IInv, TypeOK
<1>2. turn' = [turn EXCEPT ![t] = status] BY DEF EndTurn
<1>3. TurnsStay BY <1>1, <1>2 DEF TurnsStay, Recorded, Ended
<1>4. turn'[c] = turn[c] \/ turn[c] = "running" BY <1>1, <1>2
<1>5. TurnInv(c)'
  <2>1. TurnInv(c) BY DEF IInv, CallInv
  <2> QED BY <1>4, <2>1 DEF TurnInv, clientVars
<1>6. Completed(t, status) \in Expected(c)'
  <2>1. Completed(t, status) \in Messages BY MessagesTyped DEF Turns
  <2>2. turn'[t] = status BY <1>1, <1>2
  <2>3. Fits(c, Completed(t, status))' BY <2>2 DEF Fits, Completed
  <2> QED BY <2>1, <2>3 DEF Expected
<1> DEFINE told == IF c = t \/ (c \in also /\ Greeted(c)) THEN <<Completed(t,
    status)>> ELSE <<>>
           messages == [d \in Connections |->
              (IF d = t \/ (d \in also /\ Greeted(d)) THEN <<Completed(t,
                  status)>> ELSE <<>>)
                  \o answers[d]]
<1>7. told \in Seq(Expected(c)') BY <1>6, One, EmptySeq
<1>8. Deliver(messages) BY DEF EndTurn
<1>9. messages[c] = told \o answers[c] OBVIOUS
<1>10. messages[c] \in Seq(Expected(c)') BY <1>7, <1>9, ConcatProperties
<1>11. told # <<>> /\ socket[c] = "open" =>
          \/ at[c] \in Listening \cup Deaf
          \/ at[c] = "initializing" /\ inbox[c] # <<>>
  <2>1. CASE c = t
    <3>1. at[c] \in Asked \cup {"returning", "done"} BY <2>1 DEF IInv, CallInv, TurnInv
    <3>2. socket[c] = "open" => at[c] # "done" BY DEF IInv, CallInv, ClosingInv
    <3> QED BY <3>1, <3>2 DEF Listening, Held, Deaf
  <2>2. CASE Greeted(c) BY <2>2, GreetedFirst
  <2> QED BY <2>1, <2>2
<1>12. messages[c] # <<>> => told # <<>> \/ answers[c] # <<>>
  BY <1>9, <1>7, ConcatEmptySeq
<1> HIDE DEF told, messages
<1>13. InboxInv(c)' BY <1>3, <1>8, <1>10, <1>11, <1>12, Delivered
<1> QED BY <1>3, <1>4, <1>5, <1>13

\* The steps the app server takes of itself.
LEMMA ServerActs ==
  ASSUME IInv, NEW s \in Connections, TurnEnds(s) \/ Note(s) \/ HangUp(s),
         NEW c \in Connections
  PROVE  CallInv(c)'
<1> USE DEF serverVars, wireVars, closeVars
<1>a. CallInv(c) /\ TypeOK BY DEF IInv
<1>b. ASSUME sent' = sent, UNCHANGED clientVars, turn'[c] = turn[c] \/ turn[c] = "running"
      PROVE  SentInv(c)'
  BY <1>a, <1>b DEF clientVars, CallInv, SentInv, Own
<1>1. CASE TurnEnds(s)
  <2>1. PICK status \in Ended, also \in SUBSET (Connections \ {s}) :
           EndTurn(s, status, also, [d \in Connections |-> <<>>])
    BY <1>1 DEF TurnEnds
  <2>2. UNCHANGED <<clientVars, socket, sent, closeVars>> /\ turn[s] = "running" BY <1>1 DEF TurnEnds
  <2>3. [d \in Connections |-> <<>>][c] = <<>> /\ <<>> \in Seq(Expected(c)') BY EmptySeq
  <2>4. /\ TurnsStay /\ InboxInv(c)' /\ TurnInv(c)'
        /\ turn'[c] = turn[c] \/ turn[c] = "running"
    BY <2>1, <2>2, <2>3, EndTurnKeeps
  <2>5. SentInv(c)' BY <1>b, <2>2, <2>4
  <2>6. ClosingInv(c)' BY <1>a, <2>2 DEF CallInv, ClosingInv, clientVars
  <2> QED BY <2>2, <2>4, <2>5, <2>6, ServerKeeps
<1>2. CASE Note(s)
  <2>1. PICK m \in Unrequested : Deliver(Only(s, m)) BY <1>2 DEF Note
  <2>2. UNCHANGED <<clientVars, socket, sent, turn, closeVars>> /\ Greeted(s) BY <1>2 DEF Note
  <2>3. TurnsStay BY <2>2 DEF TurnsStay
  <2>4. m \in Expected(c)'
    <3>1. m \in Messages BY MessagesTyped
    <3>2. Fits(c, m)'
      BY ConnectionsAssumption DEF Fits, Unrequested, Unasked, Completed
    <3> QED BY <3>1, <3>2 DEF Expected
  <2>5. Only(s, m)[c] \in Seq(Expected(c)') BY <2>4, OnlyTyped
  <2>6. c # s => Only(s, m)[c] = <<>> BY DEF Only
  <2>7. InboxInv(c)' BY <2>1, <2>2, <2>3, <2>5, <2>6, Delivered, GreetedFirst
  <2>8. SentInv(c)' BY <1>b, <2>2
  <2>9. ClosingInv(c)' /\ TurnInv(c)'
    BY <1>a, <2>2 DEF CallInv, ClosingInv, TurnInv, clientVars
  <2> QED BY <2>2, <2>3, <2>7, <2>8, <2>9, ServerKeeps
<1>3. CASE HangUp(s)
  <2>1. UNCHANGED <<clientVars, sent, inbox, turn>> BY <1>3 DEF HangUp
  <2>2. TurnsStay BY <2>1 DEF TurnsStay
  <2>3. InboxInv(c)' BY <2>1, <2>2, InboxStays DEF clientVars
  <2>4. SentInv(c)' BY <1>b, <2>1
  <2>5. TurnInv(c)' BY <1>a, <2>1 DEF CallInv, TurnInv, clientVars
  <2>6. ClosingInv(c)'
    <3>1. ClosingInv(c) BY <1>a DEF CallInv
    <3> QED BY <1>3, <1>a, <3>1 DEF HangUp, TypeOK, ClosingInv, clientVars
  <2> QED BY <2>1, <2>2, <2>3, <2>4, <2>5, <2>6, ServerKeeps
<1> QED BY <1>1, <1>2, <1>3

\* An answer or an error that is delivered is what the connection reads next, or is
\* behind what it reads while it waits for its own.
LEMMA AnswerDelivered ==
  ASSUME IInv, TurnsStay, UNCHANGED clientVars, NEW c \in Connections,
         sent[c] # <<>>, sent' = [sent EXCEPT ![c] = Tail(@)],
             Head(sent[c]) # "initialized",
         NEW m \in Messages, m.re = Head(sent[c]), Deliver(Only(c, m)),
         m.re = Own(c) => Fits(c, m)', NEW d \in Connections
  PROVE  InboxInv(d)'
<1>1. TypeOK /\ InboxInv(c) /\ ClosingInv(c) BY DEF IInv, CallInv
<1>2. CASE d # c
  <2>1. Only(c, m)[d] = <<>> /\ <<>> \in Seq(Expected(d)') BY <1>2, EmptySeq DEF Only
  <2>2. sent'[d] = sent[d] BY <1>1, <1>2 DEF TypeOK
  <2> QED BY <2>1, <2>2, Delivered
<1>3. CASE d = c /\ socket[c] # "open"
  <2>1. inbox'[c] = inbox[c] BY <1>3 DEF Deliver
  <2>2. UNCHANGED <<op[c], at[c], target[c]>> BY DEF clientVars
  <2>3. at[c] \in {"upgrading", "initializing"} => inbox[c] = <<>> BY ServeReads
  <2>4. CASE at[c] \in {"upgrading", "initializing"}
    BY <1>3, <2>1, <2>2, <2>3, <2>4 DEF InboxInv, Listening, Held, Asked
  <2>5. CASE at[c] \notin {"upgrading", "initializing"}
    <3>1. Expected(c) \subseteq Expected(c)' BY <2>2, ExpectedStays
    <3>2. \A s : s \in Seq(Expected(c)) => s \in Seq(Expected(c)') BY <3>1, SeqMonotonic
    <3> HIDE DEF Expected
    <3> QED BY <1>1, <1>3, <2>1, <2>2, <2>5, <3>2 DEF InboxInv
  <2> QED BY <2>4, <2>5
<1>4. CASE d = c /\ socket[c] = "open" /\ at[c] \in {"upgrading", "initializing"}
  <2>1. /\ inbox[c] = <<>> /\ sent'[c] = <<>> /\ at'[c] = at[c]
        /\ Head(sent[c]) = IF at[c] = "upgrading" THEN "upgrade" ELSE "initialize"
    BY <1>4, ServeReads DEF clientVars
  <2>2. inbox'[c] = <<>> \o <<m>> BY <1>4, <2>1 DEF Deliver, Only
  <2>3. inbox'[c] = <<m>>
    <3>1. <<m>> \in Seq(Messages) BY One
    <3> QED BY <2>2, <3>1, ConcatEmptySeq
  <2>4. <<m>> # <<>> /\ Head(<<m>>) = m /\ Tail(<<m>>) = <<>> BY ShortSequences
  <2>5. Message(c)' = m BY <2>3, <2>4 DEF Message
  <2>6. Tail(inbox'[c]) \in Seq(Expected(c)') BY <2>3, <2>4, EmptySeq
  <2> QED BY <1>4, <2>1, <2>3, <2>4, <2>5, <2>6 DEF InboxInv, Listening, Held, Asked
<1>5. CASE d = c /\ socket[c] = "open" /\ at[c] \in Deaf
  <2>1. at'[c] = at[c] BY DEF clientVars
  <2> QED BY <1>5, <2>1 DEF InboxInv, Deaf, Listening, Held, Asked
<1>6. CASE d = c /\ socket[c] = "open" /\ at[c] \notin {"upgrading", "initializing"} \cup Deaf
  <2>1. at[c] # "dial" /\ at[c] # "done" BY <1>1, <1>6, ServeReads DEF ClosingInv
  <2>2. at[c] # "opened" /\ at[c] # "asking" BY ServeReads
  <2>3. at[c] \in Asked BY <1>1, <1>6, <2>1, <2>2 DEF TypeOK, Points, Deaf, Asked
  <2>4. m.re = Own(c) BY <2>3, ServeReads
  <2>5. m \in Expected(c)' BY <2>4 DEF Expected
  <2>6. Only(c, m)[c] \in Seq(Expected(c)') BY <2>5, OnlyTyped
  <2>7. at[c] \in Listening BY <2>3 DEF Listening, Held
  <2> QED BY <1>6, <2>6, <2>7, Delivered
<1> QED BY <1>2, <1>3, <1>4, <1>5, <1>6

\* The app server answers or refuses the next request of a connection.
LEMMA ServeKeeps ==
  ASSUME IInv, NEW s \in Connections, Serve(s), NEW c \in Connections
  PROVE  CallInv(c)'
<1> USE DEF serverVars, wireVars, closeVars
<1>a. CallInv(c) /\ TypeOK BY DEF IInv
<1>b. /\ UNCHANGED <<clientVars, socket, closeVars>> /\ sent[s] # <<>>
      /\ sent' = [sent EXCEPT ![s] = Tail(@)]
      /\ turn \in [Connections -> {"none", "requested", "running"} \cup Ended]
  BY <1>a DEF Serve, TypeOK
<1>r. PICK req \in Requests : req = Head(sent[s]) BY <1>a, <1>b, SentTyped
<1>c. /\ req = "turn/start" =>
            op[s] = "RunTurn" /\ turn[s] = "requested"
              /\ at[s] \in Asked \cup {"returning", "done"}
      /\ req = "turn/interrupt" =>
            /\ op[s] = "InterruptTurn" /\ target[s] \in Connections /\ target[s] # s
            /\ turn[target[s]] \in Recorded
            /\ at[s] \in Asked \cup {"returning", "done"}
  BY <1>b, <1>r, ServeReads
<1>d. ClosingInv(c)' BY <1>a, <1>b DEF CallInv, ClosingInv, clientVars
<1>e. ASSUME \/ turn' = turn
             \/ turn' = [turn EXCEPT ![s] = turn'[s]] /\ req # "initialized"
             \/ turn'[c] = turn[c] \/ turn[c] = "running"
      PROVE  SentInv(c)'
  <2>1. CASE c # s
    <3>1. sent'[c] = sent[c] BY <1>a, <1>b, <2>1 DEF TypeOK
    <3>2. turn'[c] = turn[c] \/ turn[c] = "running" BY <1>b, <1>e, <2>1
    <3> QED BY <1>a, <1>b, <3>1, <3>2 DEF CallInv, SentInv, clientVars, Own
  <2>2. CASE c = s
    <3>a. at'[s] = at[s] /\ op'[s] = op[s] /\ target'[s] = target[s] /\ Own(s)' = Own(s)
      BY <1>b DEF clientVars, Own
    <3>b. SentInv(s) /\ at[s] # "dial" BY <1>a, <1>b, <2>2, ServeReads DEF CallInv
    <3>1. CASE sent'[s] = <<>>
      <4>1. <<>> \notin {<<"initialized", Own(s)>>, <<Own(s)>>} BY ShortSequences
      <4> QED BY <2>2, <3>1, <3>a, <3>b, <4>1 DEF SentInv
    <3>2. CASE /\ sent'[s] = <<Own(s)>> /\ req = "initialized"
               /\ at[s] \in Asked \cup {"returning", "done"}
               /\ sent[s] = <<"initialized", Own(s)>>
      <4>1. op[s] = "RunTurn" => turn[s] = "requested" BY <3>2, <3>b DEF SentInv
      <4>2. op[s] = "RunTurn" => turn'[s] = "requested" BY <1>e, <2>2, <3>2, <4>1
      <4>3. op[s] = "InterruptTurn" => target[s] # "none" BY <1>b, <3>b DEF SentInv
      <4> QED BY <2>2, <3>2, <3>a, <3>b, <4>2, <4>3 DEF SentInv
    <3> QED BY <1>b, <1>r, <2>2, <3>1, <3>2, ServeReads
  <2> QED BY <2>1, <2>2
<1>f. \A d \in Connections : sent[d] = <<>> => sent'[d] = <<>>
  BY <1>a, <1>b DEF TypeOK
<1>g. turn'[c] = turn[c] => TurnInv(c)'
  BY <1>a, <1>b DEF CallInv, TurnInv, clientVars
<1>h. /\ op[s] = "RunTurn" <=> Own(s) = "turn/start"
      /\ op[s] = "InterruptTurn" <=> Own(s) = "turn/interrupt"
      /\ Own(s)' = Own(s)
  BY <1>a, <1>b, OwnRequest DEF clientVars, Own
<1>s. \/ req = "initialized" /\ UNCHANGED <<inbox, turn>>
      \/ req # "initialized" /\ Deliver(Only(s, ErrorTo(req))) /\ UNCHANGED turn
      \/ \E id \in {s, "none"} :
            /\ req \in {"upgrade", "initialize", "thread/start"}
            /\ Deliver(Only(s, Answer(req, id, "none"))) /\ UNCHANGED turn
      \/ \E id \in {s, "none"}, status \in Ended \cup {"inProgress"} :
            /\ req = "turn/start" /\ Deliver(Only(s, Answer(req, id, status)))
            /\ turn' = [turn EXCEPT ![s] = IF status = "inProgress" THEN "running" ELSE status]
      \/ /\ req = "turn/interrupt" /\ turn[target[s]] = "running"
         /\ EndTurn(target[s], "interrupted", {}, Only(s, Answer(req, "none", "none")))
      \/ /\ req = "turn/interrupt" /\ turn[target[s]] # "running"
         /\ Deliver(Only(s, Answer(req, "none", "none"))) /\ UNCHANGED turn
  <2>1. "inProgress" \notin Ended BY DEF Ended
  <2> HIDE DEF Ended
  <2> QED BY <1>r, <2>1 DEF Serve
<1>1. CASE req = "initialized" /\ UNCHANGED <<inbox, turn>>
  <2>1. TurnsStay BY <1>1 DEF TurnsStay
  <2>2. InboxInv(c)'
    <3>1. CASE c # s
      <4>1. sent'[c] = sent[c] BY <1>a, <1>b, <3>1 DEF TypeOK
      <4> QED BY <1>1, <1>b, <2>1, <4>1, InboxStays DEF clientVars
    <3>2. CASE c = s
      <4>1. at[s] \notin {"upgrading", "initializing"} BY <1>1, <1>b, <1>r, ServeReads
      <4>2. UNCHANGED <<op[s], at[s], target[s]>> BY <1>b DEF clientVars
      <4>3. Expected(s) \subseteq Expected(s)' BY <2>1, <4>2, ExpectedStays
      <4>4. \A i : i \in Seq(Expected(s)) => i \in Seq(Expected(s)') BY <4>3, SeqMonotonic
      <4> HIDE DEF Expected
      <4> QED BY <1>1, <1>a, <3>2, <4>1, <4>2, <4>4 DEF CallInv, InboxInv
    <3> QED BY <3>1, <3>2
  <2> QED BY <1>1, <1>b, <1>d, <1>e, <1>g, <2>1, <2>2, ServerKeeps
<1>2. ASSUME NEW m \in Messages, m.re = req, req # "initialized", Deliver(Only(s, m)),
             m.re = Own(s) => Fits(s, m)',
             \/ turn' = turn
             \/ req = "turn/start" /\ turn' = [turn EXCEPT ![s] = turn'[s]] /\ turn'[s] \in Recorded
      PROVE  CallInv(c)'
  <2>1. TurnsStay
    <3>1. CASE turn' = turn BY <3>1 DEF TurnsStay
    <3>2. CASE req = "turn/start" /\ turn' = [turn EXCEPT ![s] = turn'[s]]
      <4>1. turn[s] \notin Recorded BY <1>c, <3>2 DEF Recorded, Ended
      <4>2. \A t \in Connections : t # s => turn'[t] = turn[t] BY <1>b, <3>2
      <4> QED BY <4>1, <4>2 DEF TurnsStay, Recorded
    <3> QED BY <1>2, <3>1, <3>2
  <2>2. InboxInv(c)'
    <3>1. Head(sent[s]) = m.re /\ Head(sent[s]) # "initialized" BY <1>2, <1>r
    <3> QED BY <1>2, <1>b, <2>1, <3>1, AnswerDelivered
  <2>3. SentInv(c)' BY <1>2, <1>e
  <2>4. TurnInv(c)'
    <3>1. CASE turn'[c] = turn[c] BY <1>g, <3>1
    <3>2. CASE turn'[c] # turn[c]
      <4>1. c = s /\ req = "turn/start" BY <1>2, <1>b, <3>2
      <4> QED BY <1>b, <1>c, <4>1 DEF TurnInv, clientVars
    <3> QED BY <3>1, <3>2
  <2> QED BY <1>b, <1>d, <2>1, <2>2, <2>3, <2>4, ServerKeeps
<1>3. CASE /\ req = "turn/interrupt" /\ turn[target[s]] = "running"
           /\ EndTurn(target[s], "interrupted", {}, Only(s, Answer(req, "none", "none")))
  <2> DEFINE m == Answer(req, "none", "none")
  <2>1. m \in Expected(s)'
    <3>1. m \in Messages BY <1>3, MessagesTyped DEF Requests, Turns, Ended
    <3>2. turn'[target[s]] = "interrupted" BY <1>3, <1>b, <1>c DEF EndTurn
    <3>3. target'[s] = target[s] /\ op'[s] = op[s] BY <1>b DEF clientVars
    <3>4. Fits(s, m)' BY <1>3, <1>c, <1>h, <3>2, <3>3 DEF Fits, Answer, Ended
    <3> QED BY <3>1, <3>4 DEF Expected
  <2>2. Only(s, m)[c] \in Seq(Expected(c)') BY <2>1, OnlyTyped, EmptySeq DEF Only
  <2>3. socket[c] = "open" /\ Only(s, m)[c] # <<>> =>
           at[c] \in Listening \cup Deaf
    <3>1. Only(s, m)[c] # <<>> => c = s BY DEF Only
    <3>2. socket[c] = "open" => at[c] # "done" BY <1>a DEF CallInv, ClosingInv
    <3> QED BY <1>3, <1>c, <3>1, <3>2 DEF Listening, Held, Deaf
  <2>4. /\ TurnsStay /\ InboxInv(c)' /\ TurnInv(c)'
        /\ turn'[c] = turn[c] \/ turn[c] = "running"
    <3>1. target[s] \in Connections /\ "interrupted" \in Ended BY <1>3, <1>c DEF Ended
    <3> HIDE DEF m
    <3>2. EndTurn(target[s], "interrupted", {}, Only(s, m)) BY <1>3 DEF m
    <3> QED BY <1>3, <1>b, <1>f, <2>2, <2>3, <3>1, <3>2, EndTurnKeeps
  <2> QED BY <1>b, <1>d, <1>e, <2>4, ServerKeeps
<1>4. CASE req # "initialized" /\ Deliver(Only(s, ErrorTo(req))) /\ UNCHANGED turn
  <2>1. ErrorTo(req) \in Messages BY <1>r, MessagesTyped
  <2>2. (ErrorTo(req).re = Own(s) => Fits(s, ErrorTo(req))') /\ ErrorTo(req).re = req
    BY <1>h DEF Fits, ErrorTo
  <2> QED BY <1>2, <1>4, <2>1, <2>2
<1>5. ASSUME NEW id \in {s, "none"}, req \in {"upgrade", "initialize", "thread/start"},
             Deliver(Only(s, Answer(req, id, "none"))), UNCHANGED turn
      PROVE  CallInv(c)'
  <2> DEFINE m == Answer(req, id, "none")
  <2>1. m \in Messages BY <1>5, <1>r, MessagesTyped DEF Turns
  <2>2. (m.re = Own(s) => Fits(s, m)') /\ m.re = req
    <3>1. op'[s] = op[s] BY <1>b DEF clientVars
    <3> QED BY <1>5, <1>h, <3>1 DEF Fits, Answer
  <2> HIDE DEF m
  <2>3. Deliver(Only(s, m)) BY <1>5 DEF m
  <2> QED BY <1>2, <1>5, <2>1, <2>2, <2>3
<1>6. ASSUME NEW id \in {s, "none"}, NEW status \in Ended \cup {"inProgress"},
    req = "turn/start",
             Deliver(Only(s, Answer(req, id, status))),
             turn' = [turn EXCEPT ![s] = IF status = "inProgress" THEN "running" ELSE status]
      PROVE  CallInv(c)'
  <2> DEFINE m == Answer(req, id, status)
  <2>1. m \in Messages BY <1>6, <1>r, MessagesTyped DEF Turns
  <2>2. turn'[s] = IF status = "inProgress" THEN "running" ELSE status BY <1>6, <1>b
  <2>3. turn'[s] \in Recorded BY <2>2 DEF Recorded
  <2>4. (m.re = Own(s) => Fits(s, m)') /\ m.re = req
    <3>1. op'[s] = op[s] BY <1>b DEF clientVars
    <3>2. "inProgress" \notin Ended BY DEF Ended
    <3> QED BY <1>6, <1>c, <1>h, <2>2, <2>3, <3>1, <3>2 DEF Fits, Answer
  <2> HIDE DEF m
  <2>5. Deliver(Only(s, m)) BY <1>6 DEF m
  <2>6. turn' = [turn EXCEPT ![s] = turn'[s]] BY <1>6, <2>2
  <2> QED BY <1>2, <1>6, <2>1, <2>3, <2>4, <2>5, <2>6
<1>7. CASE req = "turn/interrupt" /\ turn[target[s]] # "running"
           /\ Deliver(Only(s, Answer(req, "none", "none"))) /\ UNCHANGED turn
  <2> DEFINE m == Answer(req, "none", "none")
  <2>1. m \in Messages BY <1>r, MessagesTyped DEF Turns
  <2>2. (m.re = Own(s) => Fits(s, m)') /\ m.re = req
    <3>1. target'[s] = target[s] /\ op'[s] = op[s] BY <1>b DEF clientVars
    <3>2. turn'[target[s]] \in Ended BY <1>7, <1>c DEF Recorded
    <3> QED BY <1>7, <1>c, <1>h, <3>1, <3>2 DEF Fits, Answer
  <2> HIDE DEF m
  <2>3. Deliver(Only(s, m)) BY <1>7 DEF m
  <2> QED BY <1>2, <1>7, <2>1, <2>2, <2>3
<1> QED
  BY <1>1, <1>3, <1>4, <1>5, <1>6, <1>7, <1>s

-----------------------------------------------------------------------------
(* The steps of the client.                                                *)

\* A method returns: what it has deferred is there to be run.
LEMMA ReturnKeeps ==
  ASSUME IInv, NEW c \in Connections, NEW r, Return(c, r), at[c] \in Held,
         UNCHANGED <<op, target, heard, sent, turn, socket, closeVars>>,
         TookInv(c)',
         \A d \in Connections : d # c => took'[d] = took[d] /\ inbox'[d] = inbox[d],
         op[c] = "InterruptTurn" /\ r = "ok" =>
            target[c] # "none" /\ turn[target[c]] \in Ended,
         NEW d \in Connections
  PROVE  CallInv(d)'
<1>1. CallInv(c) /\ TypeOK BY DEF IInv
<1>2. TurnsStay BY DEF TurnsStay
<1>3. /\ at'[c] = "returning" /\ reply'[c] = r
      /\ d # c => at'[d] = at[d] /\ reply'[d] = reply[d]
  BY <1>1 DEF Return, TypeOK
<1>4. CASE d # c BY <1>2, <1>3, <1>4, OthersStay DEF closeVars
<1>5. CASE d = c
  <2>1. Own(c)' = Own(c) BY <1>1 DEF Own
  <2>2. ClosingInv(c)'
    <3>1. defers[c] \in {<<"close">>, <<"stop", "close">>}
      BY <1>1 DEF CallInv, ClosingInv, TypeOK, Operations, Deferred
    <3>2. defers[c] # <<>> BY <3>1, ShortSequences
    <3> QED BY <1>1, <1>3, <3>1, <3>2
      DEF CallInv, ClosingInv, closeVars, Early, Held, Asked
  <2>3. SentInv(c)'
    <3>1. SentInv(c) BY <1>1 DEF CallInv
    <3> QED BY <1>3, <2>1, <3>1 DEF SentInv, Held, Asked
  <2>4. InboxInv(c)' BY <1>3 DEF InboxInv, Listening, Held, Asked
  <2>5. HeardInv(c)' BY <1>1, <1>3 DEF CallInv, HeardInv
  <2>6. TargetInv(c)' BY <1>1, <1>3 DEF CallInv, TargetInv, Held, Asked
  <2>7. TurnInv(c)' BY <1>1, <1>3 DEF CallInv, TurnInv
  <2> QED BY <1>5, <2>2, <2>3, <2>4, <2>5, <2>6, <2>7 DEF CallInv
<1> QED BY <1>4, <1>5

\* A call is done when nothing is deferred any more and its socket is closed, or was never
\* opened.
LEMMA DoneKeeps ==
  ASSUME IInv, NEW c \in Connections, Done(c),
         UNCHANGED <<op, target, took, heard, sent, turn, closeVars>>,
         defers[c] = <<>>, socket'[c] \in {"none", "closed"},
         \A d \in Connections : d # c => socket'[d] = socket[d] /\ reply'[d] = reply[d],
         op[c] = "InterruptTurn" /\ reply'[c] = "ok" =>
            target[c] # "none" /\ turn[target[c]] \in Ended,
         NEW d \in Connections
  PROVE  CallInv(d)'
<1>1. CallInv(c) /\ TypeOK BY DEF IInv
<1>2. TurnsStay BY DEF TurnsStay
<1>3. /\ at'[c] = "done" /\ inbox'[c] = <<>>
      /\ d # c => at'[d] = at[d] /\ inbox'[d] = inbox[d]
  BY <1>1 DEF Done, TypeOK
<1>4. CASE d # c BY <1>2, <1>3, <1>4, OthersStay DEF closeVars
<1>5. CASE d = c
  <2>1. Own(c)' = Own(c) /\ at[c] \in Points BY <1>1 DEF Own, TypeOK
  <2>2. ClosingInv(c)' BY <1>1, <1>3 DEF CallInv, ClosingInv, closeVars, Early, Held, Asked
  <2>3. SentInv(c)'
    <3>1. SentInv(c) BY <1>1 DEF CallInv
    <3> QED BY <1>3, <2>1, <3>1 DEF SentInv, Points, Asked
  <2>4. InboxInv(c)' BY <1>3 DEF InboxInv, Listening, Held, Asked
  <2>5. HeardInv(c)' BY <1>1, <1>3 DEF CallInv, HeardInv
  <2>6. TargetInv(c)' BY <1>1, <1>3 DEF CallInv, TargetInv
  <2>7. TurnInv(c)' BY <1>1, <1>3 DEF CallInv, TurnInv
  <2>8. TookInv(c)' BY <1>1, <2>1 DEF CallInv, TookInv
  <2> QED BY <1>5, <2>2, <2>3, <2>4, <2>5, <2>6, <2>7, <2>8 DEF CallInv
<1> QED BY <1>4, <1>5

\* What is read while a call waits for its answer, or for the end of its turn, fits.
LEMMA ReadFits ==
  ASSUME IInv, NEW c \in Connections, inbox[c] # <<>>,
         at[c] \in Listening
  PROVE  Message(c) \in Messages /\ Fits(c,
      Message(c)) /\ Tail(inbox[c]) \in Seq(Expected(c))
<1>1. inbox[c] \in Seq(Expected(c)) BY DEF IInv, CallInv, InboxInv
<1> HIDE DEF Expected
<1>2. Head(inbox[c]) \in Expected(c) /\ Tail(inbox[c]) \in Seq(Expected(c))
  BY <1>1, HeadTailProperties
<1> QED BY <1>2 DEF Message, Expected

\* The steps after which a call is done: those of a method that has deferred nothing, and
\* the last one of every other.
LEMMA EndsKeep ==
  ASSUME IInv, NEW c \in Connections,
         DialFails(c) \/ UpgradeFailed(c) \/ InitializeFailed(c) \/ Readied(c) \/ Returned(c),
         NEW d \in Connections
  PROVE  CallInv(d)'
<1> USE DEF serverVars
<1>1. CallInv(c) /\ TypeOK BY DEF IInv
<1>2. CASE DialFails(c)
  <2>1. defers[c] = <<>> /\ socket'[c] = "none" /\ reply'[c] = "error"
    BY <1>1, <1>2 DEF DialFails, CallInv, ClosingInv, Early, TypeOK
  <2>2. \A e \in Connections : e # c => socket'[e] = socket[e] /\ reply'[e] = reply[e]
    BY <1>1, <1>2 DEF DialFails, TypeOK
  <2> QED BY <1>2, <2>1, <2>2, DoneKeeps DEF DialFails
<1>3. CASE UpgradeFailed(c) \/ InitializeFailed(c)
  <2>1. defers[c] = <<>> /\ socket'[c] = "closed" /\ reply'[c] = "error"
    BY <1>1, <1>3 DEF UpgradeFailed, InitializeFailed, Close, CallInv, ClosingInv, Early, TypeOK
  <2>2. \A e \in Connections : e # c => socket'[e] = socket[e] /\ reply'[e] = reply[e]
    BY <1>1, <1>3 DEF UpgradeFailed, InitializeFailed, Close, TypeOK
  <2> QED BY <1>3, <2>1, <2>2, DoneKeeps DEF UpgradeFailed, InitializeFailed
<1>4. CASE Readied(c)
  <2>1. defers[c] = <<>> /\ socket'[c] = "closed" /\ op[c] = "Ready"
    BY <1>1, <1>4 DEF Readied, Close, CallInv, ClosingInv, Early, TypeOK
  <2>2. \A e \in Connections : e # c => socket'[e] = socket[e] /\ reply'[e] = reply[e]
    BY <1>1, <1>4 DEF Readied, Close, TypeOK
  <2> QED BY <1>4, <2>1, <2>2, DoneKeeps DEF Readied
<1>5. CASE Returned(c)
  <2>1. defers[c] = <<>> /\ socket'[c] = "closed"
    BY <1>1, <1>5 DEF Returned, CallInv, ClosingInv
  <2>2. op[c] = "InterruptTurn" /\ reply'[c] = "ok" =>
           target[c] # "none" /\ turn[target[c]] \in Ended
    BY <1>1, <1>5 DEF Returned, CallInv, TargetInv
  <2> QED BY <1>5, <2>1, <2>2, DoneKeeps DEF Returned
<1> QED BY <1>2, <1>3, <1>4, <1>5

\* What is deferred runs: the watcher is stopped, and then the socket is closed.
LEMMA DeferredKeeps ==
  ASSUME IInv, NEW c \in Connections, RunDeferred(c), NEW d \in Connections
  PROVE  CallInv(d)'
<1> USE DEF serverVars, clientVars
<1>1. CallInv(c) /\ TypeOK BY DEF IInv
<1>2. TurnsStay BY DEF TurnsStay, RunDeferred
<1>3. CASE d # c BY <1>1, <1>2, <1>3, OthersStay DEF RunDeferred, Close, TypeOK
<1>4. CASE d = c
  <2>1. /\ at[c] = "returning" /\ defers[c] \in {<<"stop", "close">>, <<"close">>}
        /\ defers'[c] = Tail(defers[c])
        /\ UNCHANGED <<op, at, target, took, heard, reply, sent, inbox, turn>>
    BY <1>1 DEF RunDeferred, CallInv, ClosingInv, TypeOK
  <2>2. /\ Head(<<"stop", "close">>) = "stop" /\ Tail(<<"stop", "close">>) = <<"close">>
        /\ Head(<<"close">>) = "close" /\ Tail(<<"close">>) = <<>> /\ <<"close">> # <<>>
    BY ShortSequences
  <2>3. ClosingInv(c)'
    <3>1. CASE defers[c] = <<"stop", "close">>
      <4>1. defers'[c] = <<"close">> /\ c \notin watched' /\ socket' = socket
        BY <2>1, <2>2, <3>1 DEF RunDeferred
      <4> QED BY <1>1, <2>1, <2>2, <4>1 DEF CallInv, ClosingInv, Early, Held, Asked
    <3>2. CASE defers[c] = <<"close">>
      <4>1. defers'[c] = <<>> /\ socket'[c] = "closed" /\ watched' = watched
        BY <1>1, <2>1, <2>2, <3>2 DEF RunDeferred, Close, TypeOK
      <4>2. c \notin watched BY <1>1, <2>2, <3>2 DEF CallInv, ClosingInv
      <4> QED BY <1>1, <2>1, <4>1, <4>2 DEF CallInv, ClosingInv, Early, Held, Asked
    <3> QED BY <2>1, <3>1, <3>2
  <2>4. Own(c)' = Own(c) BY <2>1 DEF Own
  <2>5. SentInv(c)' /\ TurnInv(c)' /\ TookInv(c)'
    BY <1>1, <2>1, <2>4 DEF CallInv, SentInv, TurnInv, TookInv
  <2>6. InboxInv(c)' BY <2>1 DEF InboxInv, Listening, Held, Asked
  <2>7. HeardInv(c)' /\ TargetInv(c)' BY <1>1, <2>1 DEF CallInv, HeardInv, TargetInv
  <2> QED BY <1>4, <2>3, <2>5, <2>6, <2>7 DEF CallInv
<1> QED BY <1>3, <1>4

\* The answer of a StartThread or an InterruptTurn.
LEMMA AnsweredKeeps ==
  ASSUME IInv, NEW c \in Connections, Answered(c), NEW d \in Connections
  PROVE  CallInv(d)'
<1> USE DEF serverVars
<1>1. CallInv(c) /\ TypeOK BY DEF IInv
<1>2. /\ UNCHANGED <<op, target, heard, sent, turn, socket, closeVars>> /\ inbox[c] # <<>>
      /\ at[c] = "calling" /\ at[c] \in Held /\ at[c] \in Listening
      /\ \A e \in Connections : e # c => inbox'[e] = inbox[e]
  BY <1>1 DEF Answered, Read, Consume, TypeOK, Held, Asked, Listening
<1>3. CASE UNCHANGED took /\ Return(c, "error")
  <2>1. TookInv(c)' BY <1>1, <1>2, <1>3 DEF CallInv, TookInv, Own
  <2> QED BY <1>2, <1>3, <2>1, ReturnKeeps
<1>4. CASE /\ Return(c, "ok") /\ Message(c).kind # "error"
           /\ took' = [took EXCEPT ![c].own = Message(c).re]
  <2>1. Message(c).kind = "answer" BY <1>4 DEF Answered
  <2>2. Message(c) \in Messages /\ Fits(c, Message(c)) BY <1>2, ReadFits
  <2>3. Message(c).re = Own(c) BY <2>1, <2>2 DEF Fits
  <2>4. /\ took'[c].own = Message(c).re /\ took'[c].init = took[c].init
        /\ \A e \in Connections : e # c => took'[e] = took[e]
    <3>1. took[c] \in [init : Requests \cup {"none"}, own : Requests \cup {"none"}]
      BY <1>1 DEF TypeOK
    <3>2. took'[c] = [took[c] EXCEPT !.own = Message(c).re] BY <1>1, <1>4 DEF TypeOK
    <3>3. \A e \in Connections : e # c => took'[e] = took[e] BY <1>1, <1>4 DEF TypeOK
    <3> QED BY <3>1, <3>2, <3>3
  <2>5. TookInv(c)' BY <1>1, <1>2, <2>3, <2>4 DEF CallInv, TookInv, Own
  <2>6. op[c] = "InterruptTurn" => target[c] # "none" /\ turn[target[c]] \in Ended
    BY <2>1, <2>2, ConnectionsAssumption DEF Fits
  <2> QED BY <1>2, <1>4, <2>4, <2>5, <2>6, ReturnKeeps
<1> QED BY <1>3, <1>4 DEF Answered

\* Dialling, and what a call does until its own request is written.
LEMMA DialKeeps ==
  ASSUME IInv, NEW c \in Connections, Dial(c), NEW d \in Connections
  PROVE  CallInv(d)'
<1> USE DEF serverVars
<1>1. CallInv(c) /\ TypeOK BY DEF IInv
<1>2. TurnsStay BY DEF Dial, TurnsStay
<1>3. CASE d # c BY <1>1, <1>2, <1>3, OthersStay DEF Dial, TypeOK, closeVars
<1>4. CASE d = c
  <2>1. PICK t \in Targets(c) : target' = [target EXCEPT ![c] = t] BY DEF Dial
  <2>2. /\ at[c] = "dial" /\ at'[c] = "upgrading" /\ sent'[c] = <<"upgrade">> /\ target'[c] = t
        /\ UNCHANGED <<op, took, heard, reply, inbox, turn, closeVars>>
    BY <1>1, <2>1 DEF Dial, TypeOK
  <2>3. /\ op[c] = "InterruptTurn" => t \in Connections /\ turn[t] \in Recorded
        /\ op[c] # "InterruptTurn" => t = "none"
    <3>1. CASE op[c] = "InterruptTurn"
      <4>1. PICK e \in Connections : t = heard[e].turn /\ t # "none" BY <3>1 DEF Targets
      <4>2. HeardInv(e) BY <4>1 DEF IInv, CallInv
      <4> QED BY <3>1, <4>1, <4>2 DEF HeardInv
    <3>2. CASE op[c] # "InterruptTurn" BY <3>2 DEF Targets
    <3> QED BY <3>1, <3>2
  <2>4. reply[c] = "none" /\ inbox[c] = <<>> /\ turn[c] = "none"
    BY <1>1, <2>2 DEF CallInv, ClosingInv, InboxInv, TurnInv, Asked
  <2>5. ClosingInv(c)' BY <1>1, <2>2 DEF CallInv, ClosingInv, closeVars, Early, Held, Asked
  <2>6. <<"upgrade">> \notin {<<>>, <<"initialized", Own(c)>>, <<Own(c)>>}
    <3>1. Own(c) # "upgrade" BY <1>1, OwnRequest
    <3>2. Head(<<"upgrade">>) = "upgrade" /\ <<"upgrade">> # <<>> BY ShortSequences
    <3>3. Head(<<"initialized", Own(c)>>) = "initialized" /\ Head(<<Own(c)>>) = Own(c)
      BY ShortSequences
    <3> QED BY <3>1, <3>2, <3>3
  <2>7. Own(c)' = Own(c) BY <2>2 DEF Own
  <2>8. SentInv(c)' BY <2>2, <2>3, <2>6, <2>7, ConnectionsAssumption DEF SentInv, Asked
  <2>9. InboxInv(c)' BY <2>2, <2>4 DEF InboxInv, Listening, Held, Asked
  <2>10. HeardInv(c)' BY <1>1, <2>2 DEF CallInv, HeardInv
  <2>11. TargetInv(c)' BY <2>2, <2>3, <2>4, ConnectionsAssumption DEF TargetInv
  <2>12. TurnInv(c)' /\ TookInv(c)' BY <1>1, <2>2, <2>4, <2>7 DEF CallInv, TurnInv, TookInv
  <2> QED BY <1>4, <2>5, <2>8, <2>9, <2>10, <2>11, <2>12 DEF CallInv
<1> QED BY <1>3, <1>4

\* A step along which only the place, the requests and the messages of a call change, and
\* nothing is deferred or returned.
LEMMA MovesKeep ==
  ASSUME IInv, NEW c \in Connections, NEW p \in Points \ {"dial", "returning", "done"},
         at' = [at EXCEPT ![c] = p], at[c] \notin {"dial", "returning", "done"},
         at[c] \in Early <=> p \in Early,
         UNCHANGED <<op, target, reply, socket, closeVars>>,
         \A d \in Connections : d # c => /\ took'[d] = took[d] /\ heard'[d] = heard[d]
                                         /\ sent'[d] = sent[d] /\ inbox'[d] = inbox[d]
                                         /\ turn'[d] = turn[d],
         turn'[c] = turn[c] \/ turn[c] = "none",
         SentInv(c)', InboxInv(c)', HeardInv(c)', TurnInv(c)', TookInv(c)',
         NEW d \in Connections
  PROVE  CallInv(d)'
<1>1. CallInv(c) /\ TypeOK BY DEF IInv
<1>2. TurnsStay BY DEF TurnsStay, Recorded, Ended
<1>3. CASE d # c
  <2>1. at'[d] = at[d] BY <1>1, <1>3 DEF TypeOK
  <2> QED BY <1>2, <1>3, <2>1, OthersStay DEF closeVars
<1>4. CASE d = c
  <2>1. at'[c] = p /\ at[c] \in Points BY <1>1 DEF TypeOK
  <2>2. (p \in Early \/ p \in Held) /\ (at[c] \in Early \/ at[c] \in Held)
    BY <2>1 DEF Points, Early, Held, Asked
  <2>3. ClosingInv(c)'
    <3>1. ClosingInv(c) BY <1>1 DEF CallInv
    <3>2. CASE p \in Early /\ at[c] \in Early
      BY <2>1, <3>1, <3>2 DEF ClosingInv, closeVars, Early, Held, Asked
    <3>3. CASE p \in Held /\ at[c] \in Held
      BY <2>1, <3>1, <3>3 DEF ClosingInv, closeVars, Early, Held, Asked
    <3> QED BY <2>2, <3>2, <3>3 DEF Early, Held, Asked
  <2>4. TargetInv(c)' BY <1>1, <1>2, <2>1 DEF CallInv, TargetInv, TurnsStay
  <2> QED BY <1>4, <2>3, <2>4 DEF CallInv
<1> QED BY <1>3, <1>4

\* The answer to the upgrade.
LEMMA UpgradedKeeps ==
  ASSUME IInv, NEW c \in Connections, Upgraded(c), NEW d \in Connections
  PROVE  CallInv(d)'
<1> USE DEF serverVars
<1>1. CallInv(c) /\ TypeOK BY DEF IInv
<1>2. /\ UNCHANGED <<op, target, took, heard, turn, socket, closeVars>>
      /\ at[c] = "upgrading" /\ inbox[c] # <<>> /\ Consume(c)
  BY DEF Upgraded, Read
<1>e. "upgrading" \in Early /\ "notUpgraded" \in Early /\ "initializing" \in Early BY DEF Early
<1>3. CASE Go(c, "notUpgraded") /\ UNCHANGED sent
  <2>1. at' = [at EXCEPT ![c] = "notUpgraded"] /\ UNCHANGED reply BY <1>3 DEF Go
  <2>2. at'[c] = "notUpgraded" /\ Own(c)' = Own(c) BY <1>1, <1>2, <2>1 DEF TypeOK, Own
  <2>3. SentInv(c)' BY <1>1, <1>2, <1>3, <2>2 DEF CallInv, SentInv, Asked
  <2>4. InboxInv(c)' BY <2>2 DEF InboxInv, Listening, Held, Asked
  <2>5. HeardInv(c)' /\ TookInv(c)' BY <1>1, <1>2, <2>2 DEF CallInv, HeardInv, TookInv
  <2>6. TurnInv(c)' BY <1>1, <1>2 DEF CallInv, TurnInv, Asked
  <2>7. \A e \in Connections : e # c => inbox'[e] = inbox[e] BY <1>1, <1>2 DEF Consume, TypeOK
  <2>8. "notUpgraded" \in Points \ {"dial", "returning", "done"} BY DEF Points
  <2> QED BY <1>2, <1>3, <1>e, <2>1, <2>3, <2>4, <2>5, <2>6, <2>7, <2>8, MovesKeep
<1>4. CASE Write(c, "initialize") /\ Go(c, "initializing")
  <2>1. PICK m \in Messages : inbox[c] = <<m>> BY <1>1, <1>2 DEF CallInv, InboxInv
  <2>2. sent[c] = <<>> BY <1>1, <1>2 DEF CallInv, InboxInv
  <2>3. inbox'[c] = Tail(inbox[c]) /\ sent'[c] = Append(sent[c], "initialize")
    BY <1>1, <1>2, <1>4 DEF Consume, Write, TypeOK
  <2>4. inbox'[c] = <<>> /\ sent'[c] = <<"initialize">>
    BY <2>1, <2>2, <2>3, ShortSequences
  <2>5. at'[c] = "initializing" BY <1>1, <1>4 DEF Go, TypeOK
  <2>6. turn[c] = "none" BY <1>1, <1>2 DEF CallInv, TurnInv, Asked
  <2>7. Own(c)' = Own(c) BY <1>2 DEF Own
  <2>8. SentInv(c)'
    <3>1. op[c] \in {"RunTurn"} => <<"initialize">> \notin {<<"initialized", Own(c)>>,
        <<Own(c)>>}
      <4>1. op[c] = "RunTurn" => Own(c) = "turn/start" BY <1>1, OwnRequest
      <4>2. /\ Head(<<"initialize">>) = "initialize" /\ Head(<<Own(c)>>) = Own(c)
            /\ Head(<<"initialized", Own(c)>>) = "initialized"
        BY ShortSequences
      <4> QED BY <4>1, <4>2
    <3>2. op[c] = "InterruptTurn" => target[c] # "none" BY <1>1, <1>2 DEF CallInv, TargetInv
    <3> QED BY <1>2, <2>4, <2>5, <2>7, <3>1, <3>2 DEF SentInv, Asked
  <2>9. InboxInv(c)' BY <2>4, <2>5 DEF InboxInv, Listening, Held, Asked
  <2>10. HeardInv(c)' BY <1>1, <1>2, <2>5 DEF CallInv, HeardInv
  <2>11. TurnInv(c)' /\ TookInv(c)' BY <1>1, <1>2, <2>6, <2>7 DEF CallInv, TurnInv, TookInv
  <2>12. \A e \in Connections : e # c => inbox'[e] = inbox[e] /\ sent'[e] = sent[e]
    BY <1>1, <1>2, <1>4 DEF Consume, Write, TypeOK
  <2>13. "initializing" \in Points \ {"dial", "returning", "done"} BY DEF Points
  <2>14. at' = [at EXCEPT ![c] = "initializing"] /\ UNCHANGED reply BY <1>4 DEF Go
  <2> QED BY <1>2, <1>e, <2>8, <2>9, <2>10, <2>11, <2>12, <2>13, <2>14, MovesKeep
<1> QED BY <1>3, <1>4 DEF Upgraded

\* The answer to initialize.
LEMMA InitializedKeeps ==
  ASSUME IInv, NEW c \in Connections, Initialized(c), NEW d \in Connections
  PROVE  CallInv(d)'
<1> USE DEF serverVars
<1>1. CallInv(c) /\ TypeOK BY DEF IInv
<1>2. /\ UNCHANGED <<op, target, heard, turn, socket, closeVars>>
      /\ at[c] = "initializing" /\ inbox[c] # <<>> /\ Consume(c)
  BY DEF Initialized, Read
<1>e. "initializing" \in Early /\ "notInitialized" \in Early /\ "opened" \in Early BY DEF Early
<1>3. CASE Go(c, "notInitialized") /\ UNCHANGED <<took, sent>>
  <2>1. at' = [at EXCEPT ![c] = "notInitialized"] /\ UNCHANGED reply BY <1>3 DEF Go
  <2>2. at'[c] = "notInitialized" /\ Own(c)' = Own(c) BY <1>1, <1>2, <2>1 DEF TypeOK, Own
  <2>3. SentInv(c)' BY <1>1, <1>2, <1>3, <2>2 DEF CallInv, SentInv, Asked
  <2>4. InboxInv(c)' BY <2>2 DEF InboxInv, Listening, Held, Asked
  <2>5. HeardInv(c)' /\ TookInv(c)' BY <1>1, <1>2, <1>3, <2>2 DEF CallInv, HeardInv, TookInv
  <2>6. TurnInv(c)' BY <1>1, <1>2 DEF CallInv, TurnInv, Asked
  <2>7. \A e \in Connections : e # c => inbox'[e] = inbox[e] BY <1>1, <1>2 DEF Consume, TypeOK
  <2>8. "notInitialized" \in Points \ {"dial", "returning", "done"} BY DEF Points
  <2> QED BY <1>2, <1>3, <1>e, <2>1, <2>3, <2>4, <2>5, <2>6, <2>7, <2>8, MovesKeep
<1>4. CASE /\ Write(c, "initialized") /\ Go(c, "opened")
           /\ took' = [took EXCEPT ![c].init = Message(c).re]
  <2>1. /\ sent[c] = <<>> /\ Message(c).re = "initialize"
        /\ Tail(inbox[c]) \in Seq(Expected(c))
    BY <1>1, <1>2 DEF CallInv, InboxInv
  <2>2. /\ inbox'[c] = Tail(inbox[c]) /\ sent'[c] = Append(sent[c], "initialized")
        /\ at'[c] = "opened"
    BY <1>1, <1>2, <1>4 DEF Consume, Write, Go, TypeOK
  <2>3. sent'[c] = <<"initialized">> BY <2>1, <2>2, ShortSequences
  <2>4. took'[c].init = "initialize" /\ took'[c].own = took[c].own
    <3>1. took[c] \in [init : Requests \cup {"none"}, own : Requests \cup {"none"}]
      BY <1>1 DEF TypeOK
    <3>2. took'[c] = [took[c] EXCEPT !.init = "initialize"] BY <1>1, <1>4, <2>1 DEF TypeOK
    <3> QED BY <3>1, <3>2
  <2>5. turn[c] = "none" BY <1>1, <1>2 DEF CallInv, TurnInv, Asked
  <2>6. Own(c)' = Own(c) BY <1>2 DEF Own
  <2>7. SentInv(c)'
    <3>1. op[c] = "RunTurn" => <<"initialized">> \notin {<<"initialized", Own(c)>>,
        <<Own(c)>>}
      <4>1. op[c] = "RunTurn" => Own(c) = "turn/start" BY <1>1, OwnRequest
      <4>2. /\ Head(<<"initialized">>) = "initialized" /\ Head(<<Own(c)>>) = Own(c)
            /\ Tail(<<"initialized">>) = <<>>
            /\ Tail(<<"initialized", Own(c)>>) = <<Own(c)>> /\ <<Own(c)>> # <<>>
        BY ShortSequences
      <4> QED BY <4>1, <4>2
    <3>2. op[c] = "InterruptTurn" => target[c] # "none" BY <1>1, <1>2 DEF CallInv, TargetInv
    <3> QED BY <1>2, <2>2, <2>3, <2>6, <3>1, <3>2 DEF SentInv, Asked
  <2>8. InboxInv(c)'
    <3>1. Expected(c)' = Expected(c)
      BY <1>2, <2>6 DEF Expected, Fits
    <3> HIDE DEF Expected
    <3> QED BY <2>1, <2>2, <3>1 DEF InboxInv, Listening
  <2>9. HeardInv(c)' BY <1>1, <1>2, <2>2 DEF CallInv, HeardInv
  <2>10. TurnInv(c)' /\ TookInv(c)'
    BY <1>1, <1>2, <2>4, <2>5, <2>6 DEF CallInv, TurnInv, TookInv
  <2>11. \A e \in Connections : e # c =>
            inbox'[e] = inbox[e] /\ sent'[e] = sent[e] /\ took'[e] = took[e]
    BY <1>1, <1>2, <1>4 DEF Consume, Write, TypeOK
  <2>12. "opened" \in Points \ {"dial", "returning", "done"} BY DEF Points
  <2>13. at' = [at EXCEPT ![c] = "opened"] /\ UNCHANGED reply BY <1>4 DEF Go
  <2> QED BY <1>2, <1>e, <2>7, <2>8, <2>9, <2>10, <2>11, <2>12, <2>13, MovesKeep
<1> QED BY <1>3, <1>4 DEF Initialized

\* The Close is deferred, and the context of a RunTurn watched.
LEMMA OpenedKeeps ==
  ASSUME IInv, NEW c \in Connections, Opened(c), NEW d \in Connections
  PROVE  CallInv(d)'
<1> USE DEF serverVars, wireVars
<1>1. CallInv(c) /\ TypeOK BY DEF IInv
<1>2. TurnsStay BY DEF TurnsStay, Opened
<1>3. CASE d # c BY <1>1, <1>2, <1>3, OthersStay DEF Opened, Go, TypeOK
<1>4. CASE d = c
  <2>1. /\ at[c] = "opened" /\ at'[c] = "asking" /\ op[c] # "Ready"
        /\ defers'[c] = Deferred[op[c]] /\ defers[c] = <<>>
        /\ c \in watched' => c \in watched \/ op[c] = "RunTurn"
        /\ UNCHANGED <<op, target, took, heard, reply, socket, sent, inbox, turn>>
    BY <1>1 DEF Opened, Go, TypeOK, CallInv, ClosingInv, Early
  <2>2. c \notin watched
    <3>1. <<"stop", "close">> # <<>> BY ShortSequences
    <3> QED BY <1>1, <2>1, <3>1 DEF CallInv, ClosingInv
  <2>3. ClosingInv(c)'
    <3>1. Deferred["RunTurn"] = <<"stop", "close">> BY DEF Deferred
    <3> QED BY <1>1, <2>1, <2>2, <3>1 DEF CallInv, ClosingInv, Early, Held, Asked
  <2>4. Own(c)' = Own(c) BY <2>1 DEF Own
  <2>5. SentInv(c)' BY <1>1, <2>1, <2>4 DEF CallInv, SentInv, Asked
  <2>6. InboxInv(c)'
    <3>1. Expected(c)' = Expected(c) BY <2>1, <2>4 DEF Expected, Fits
    <3> HIDE DEF Expected
    <3>2. inbox[c] \in Seq(Expected(c)) BY <1>1, <2>1 DEF CallInv, InboxInv, Listening
    <3> QED BY <2>1, <3>1, <3>2 DEF InboxInv, Listening, Held, Asked
  <2>7. HeardInv(c)' /\ TookInv(c)' BY <1>1, <2>1, <2>4 DEF CallInv, HeardInv, TookInv
  <2>8. TurnInv(c)' BY <1>1, <2>1 DEF CallInv, TurnInv, Asked
  <2>9. TargetInv(c)' BY <1>1, <2>1 DEF CallInv, TargetInv
  <2> QED BY <1>4, <2>3, <2>5, <2>6, <2>7, <2>8, <2>9 DEF CallInv
<1> QED BY <1>3, <1>4

\* A call writes its own request.
LEMMA CallKeeps ==
  ASSUME IInv, NEW c \in Connections, Call(c), NEW d \in Connections
  PROVE  CallInv(d)'
<1>1. CallInv(c) /\ TypeOK BY DEF IInv
<1>2. /\ UNCHANGED <<op, target, took, heard, reply, socket, inbox, closeVars>>
      /\ sent' = [sent EXCEPT ![c] = Append(@, Own(c))]
      /\ at' = [at EXCEPT ![c] = "calling"] /\ at[c] = "asking"
  BY DEF Call, Write, Go, Own
<1>3. /\ turn[c] = "none"
      /\ turn'[c] = IF op[c] = "RunTurn" THEN "requested" ELSE "none"
      /\ \A e \in Connections : e # c => turn'[e] = turn[e]
  <2>1. turn[c] = "none" BY <1>1, <1>2 DEF CallInv, TurnInv, Asked
  <2> QED BY <1>1, <2>1 DEF Call, TypeOK
<1>4. TurnsStay BY <1>3 DEF TurnsStay, Recorded, Ended
<1>5. at'[c] = "calling" /\ Own(c)' = Own(c) BY <1>1, <1>2 DEF TypeOK, Own
<1>6. sent'[c] \in {<<Own(c)>>, <<"initialized", Own(c)>>}
  <2>1. sent[c] \in {<<>>, <<"initialized">>} BY <1>1, <1>2 DEF CallInv, SentInv
  <2>2. sent'[c] = Append(sent[c], Own(c)) BY <1>1, <1>2 DEF TypeOK
  <2> QED BY <2>1, <2>2, ShortSequences
<1>7. SentInv(c)'
  <2>1. op[c] = "InterruptTurn" => target[c] # "none" BY <1>1, <1>2 DEF CallInv, TargetInv
  <2> QED BY <1>2, <1>3, <1>5, <1>6, <2>1 DEF SentInv, Asked
<1>8. InboxInv(c)'
  <2>1. Expected(c) \subseteq Expected(c)' BY <1>2, <1>4, ExpectedStays
  <2>2. inbox[c] \in Seq(Expected(c)) BY <1>1, <1>2 DEF CallInv, InboxInv, Listening, Held
  <2> HIDE DEF Expected
  <2>3. inbox'[c] \in Seq(Expected(c)') BY <1>2, <2>1, <2>2, SeqMonotonic
  <2> QED BY <1>5, <2>3 DEF InboxInv, Listening, Held, Asked
<1>9. HeardInv(c)' BY <1>1, <1>2, <1>3, <1>5 DEF CallInv, HeardInv, Recorded, Ended
<1>10. TurnInv(c)' /\ TookInv(c)' BY <1>1, <1>2, <1>3, <1>5 DEF CallInv, TurnInv, TookInv, Asked
<1>11. \A e \in Connections : e # c => sent'[e] = sent[e] BY <1>1, <1>2 DEF TypeOK
<1>12. "calling" \in Points \ {"dial", "returning", "done"} BY DEF Points
<1>13. "calling" \notin Early /\ "asking" \notin Early BY DEF Early
<1> QED BY <1>2, <1>3, <1>7, <1>8, <1>9, <1>10, <1>11, <1>12, <1>13, MovesKeep

\* Messages that are skipped, the callback, and the wait for the end of the turn.
LEMMA WaitKeeps ==
  ASSUME IInv, NEW c \in Connections,
         SkipNote(c) \/ TurnAnswered(c) \/ CalledBack(c) \/ TurnCompleted(c),
         NEW d \in Connections
  PROVE  CallInv(d)'
<1> USE DEF serverVars, wireVars
<1>1. CallInv(c) /\ TypeOK BY DEF IInv
<1>2. /\ UNCHANGED <<op, target, sent, turn, socket, closeVars>>
      /\ at[c] \in Asked /\ at[c] \in Held /\ at[c] \in Listening
      /\ \A e \in Connections : e # c => inbox'[e] = inbox[e]
  BY <1>1 DEF SkipNote, TurnAnswered, CalledBack, TurnCompleted, clientVars, Consume, TypeOK,
     Listening, Held, Asked
<1>3. ASSUME NEW r \in {"error"} \cup Ended, Return(c, r), UNCHANGED <<took, heard>>
      PROVE  CallInv(d)'
  <2>1. TookInv(c)' BY <1>1, <1>2, <1>3 DEF CallInv, TookInv, Own
  <2>2. r # "ok" BY DEF Ended
  <2> QED BY <1>2, <1>3, <2>1, <2>2, ReturnKeeps
<1>4. ASSUME NEW p \in Asked, at' = [at EXCEPT ![c] = p], UNCHANGED reply,
             \A e \in Connections : e # c => /\ took'[e] = took[e] /\ heard'[e] = heard[e]
                                             /\ inbox'[e] = inbox[e],
             inbox'[c] \in Seq(Expected(c)), HeardInv(c)', TookInv(c)'
      PROVE  CallInv(d)'
  <2>1. at'[c] = p /\ Own(c)' = Own(c) BY <1>1, <1>2, <1>4 DEF TypeOK, Own
  <2>2. SentInv(c)'
    <3>1. SentInv(c) BY <1>1 DEF CallInv
    <3> QED BY <1>2, <2>1, <3>1 DEF SentInv, Asked
  <2>3. InboxInv(c)'
    <3>1. Expected(c)' = Expected(c) BY <1>2, <2>1 DEF Expected, Fits
    <3> HIDE DEF Expected
    <3> QED BY <1>4, <2>1, <3>1 DEF InboxInv, Listening, Held, Asked
  <2>4. TurnInv(c)' BY <1>1, <1>2, <2>1 DEF CallInv, TurnInv
  <2>5. p \in Points \ {"dial", "returning", "done"} /\ p \notin Early /\ at[c] \notin Early
        /\ at[c] \notin {"dial", "returning", "done"}
    BY <1>2 DEF Points, Early, Asked
  <2> QED BY <1>2, <1>4, <2>2, <2>3, <2>4, <2>5, MovesKeep
<1>5. ASSUME Consume(c), inbox[c] # <<>>
      PROVE  /\ inbox'[c] \in Seq(Expected(c))
             /\ \A e \in Connections : e # c => inbox'[e] = inbox[e]
             /\ Message(c) \in Messages /\ Fits(c, Message(c))
  <2>1. /\ Message(c) \in Messages /\ Fits(c, Message(c))
        /\ Tail(inbox[c]) \in Seq(Expected(c))
    BY <1>2, <1>5, ReadFits
  <2> HIDE DEF Expected
  <2> QED BY <1>1, <1>5, <2>1 DEF Consume, TypeOK
<1>6. UNCHANGED <<at, took, heard>> /\ at' = [at EXCEPT ![c] = at[c]] =>
         /\ HeardInv(c)' /\ TookInv(c)'
  BY <1>1, <1>2 DEF CallInv, HeardInv, TookInv, Own
<1>7. at' = at => at' = [at EXCEPT ![c] = at[c]] BY <1>1 DEF TypeOK
<1>8. CASE SkipNote(c)
  <2>1. Consume(c) /\ inbox[c] # <<>> /\ UNCHANGED <<at, took, heard, reply>>
    BY <1>8 DEF SkipNote, Read, clientVars
  <2> HIDE DEF Expected
  <2> QED BY <1>2, <1>4, <1>5, <1>6, <1>7, <2>1
<1>9. CASE TurnAnswered(c)
  <2>1. CASE Return(c, "error") /\ UNCHANGED <<took, heard>> BY <1>3, <2>1
  <2>2. CASE /\ Consume(c)
             /\ took' = [took EXCEPT ![c].own = Message(c).re]
             /\ heard' = [heard EXCEPT ![c] =
                            [turn |-> Message(c).turn, status |-> Message(c).status]]
             /\ Go(c, "callback")
             /\ Message(c).kind = "answer" /\ Message(c).turn # "none"
    <3>1. /\ inbox[c] # <<>> /\ op[c] = "RunTurn" /\ "callback" \in Asked
          /\ at' = [at EXCEPT ![c] = "callback"] /\ UNCHANGED reply
      BY <1>9, <2>2 DEF TurnAnswered, Read, Go, Asked
    <3>2. /\ inbox'[c] \in Seq(Expected(c))
          /\ \A e \in Connections : e # c => inbox'[e] = inbox[e]
          /\ Fits(c, Message(c))
      BY <1>5, <2>2, <3>1
    <3>3. /\ Message(c).turn = c /\ Message(c).re = Own(c) /\ turn[c] \in Recorded
          /\ Message(c).status \in Ended => Message(c).status = turn[c]
      BY <2>2, <3>1, <3>2 DEF Fits
    <3>4. heard'[c] = [turn |-> c, status |-> Message(c).status]
      BY <1>1, <2>2, <3>3 DEF TypeOK
    <3>5. HeardInv(c)'
      <4>1. heard'[c].turn = c /\ heard'[c].status = Message(c).status BY <3>4
      <4> QED BY <1>2, <3>1, <3>3, <4>1 DEF HeardInv
    <3>6. took'[c].own = Own(c) /\ took'[c].init = took[c].init
      <4>1. took[c] \in [init : Requests \cup {"none"}, own : Requests \cup {"none"}]
        BY <1>1 DEF TypeOK
      <4>2. took'[c] = [took[c] EXCEPT !.own = Own(c)] BY <1>1, <2>2, <3>3 DEF TypeOK
      <4> QED BY <4>1, <4>2
    <3>7. TookInv(c)' BY <1>1, <1>2, <3>6 DEF CallInv, TookInv, Own
    <3>8. \A e \in Connections : e # c => took'[e] = took[e] /\ heard'[e] = heard[e]
      BY <1>1, <2>2 DEF TypeOK
    <3> HIDE DEF Expected
    <3> QED BY <1>4, <3>1, <3>2, <3>5, <3>7, <3>8
  <2> QED BY <1>9, <2>1, <2>2 DEF TurnAnswered
<1>10. CASE CalledBack(c)
  <2>1. UNCHANGED <<took, heard>> /\ at[c] = "callback" BY <1>10 DEF CalledBack
  <2>2. CASE Return(c, "error") BY <1>3, <2>1, <2>2
  <2>3. CASE heard[c].status \in Ended /\ Return(c, heard[c].status) BY <1>3, <2>1, <2>3
  <2>4. CASE Go(c, "completion")
    <3>1. inbox[c] \in Seq(Expected(c)) /\ inbox' = inbox
      BY <1>1, <1>2, <1>10 DEF CallInv, InboxInv, CalledBack
    <3>2. at' = [at EXCEPT ![c] = "completion"] /\ UNCHANGED reply /\ "completion" \in Asked
      BY <2>4 DEF Go, Asked
    <3>3. HeardInv(c)' /\ TookInv(c)'
      BY <1>1, <1>2, <2>1, <3>2 DEF CallInv, HeardInv, TookInv, Own
    <3> HIDE DEF Expected
    <3> QED BY <1>4, <2>1, <3>1, <3>2, <3>3
  <2> QED BY <1>10, <2>2, <2>3, <2>4 DEF CalledBack
<1>11. CASE TurnCompleted(c)
  <2>1. UNCHANGED <<took, heard>> /\ at[c] = "completion" /\ inbox[c] # <<>> /\ Consume(c)
    BY <1>11 DEF TurnCompleted, Read
  <2>2. CASE Return(c, "error") BY <1>3, <2>1, <2>2
  <2>3. CASE /\ Message(c).kind = "completed" /\ Message(c).turn = heard[c].turn
             /\ Return(c, Message(c).status)
    <3>1. Fits(c, Message(c)) BY <1>2, <2>1, ReadFits
    <3>2. heard[c].turn \in Connections BY <1>1, <2>1 DEF CallInv, HeardInv
    <3>3. Message(c).status \in Ended BY <2>3, <3>1, <3>2 DEF Fits
    <3> QED BY <1>3, <2>1, <2>3, <3>3
  <2>4. CASE UNCHANGED <<at, reply>>
    <3> HIDE DEF Expected
    <3> QED BY <1>2, <1>4, <1>5, <1>6, <1>7, <2>1, <2>4
  <2> QED BY <1>11, <2>2, <2>3, <2>4 DEF TurnCompleted
<1> QED BY <1>8, <1>9, <1>10, <1>11

\* A read or a write fails.
LEMMA BrokenKeeps ==
  ASSUME IInv, NEW c \in Connections, Broken(c), NEW d \in Connections
  PROVE  CallInv(d)'
<1> USE DEF serverVars, wireVars
<1>1. CallInv(c) /\ TypeOK BY DEF IInv
<1>2. UNCHANGED <<op, target, took, heard, sent, inbox, socket, turn, closeVars>> BY DEF Broken
<1>3. CASE at[c] \in Held
  <2>1. Return(c, "error") BY <1>3 DEF Broken, Held, Asked
  <2>2. TookInv(c)' BY <1>1, <1>2 DEF CallInv, TookInv, Own
  <2> QED BY <1>2, <1>3, <2>1, <2>2, ReturnKeeps
<1>4. CASE at[c] \notin Held
  <2>1. PICK p \in {"notUpgraded", "notInitialized"} :
           /\ at' = [at EXCEPT ![c] = p] /\ UNCHANGED reply
           /\ at[c] = IF p = "notUpgraded" THEN "upgrading" ELSE "initializing"
    BY <1>4 DEF Broken, Go, Held, Asked
  <2>2. at'[c] = p /\ Own(c)' = Own(c) BY <1>1, <1>2, <2>1 DEF TypeOK, Own
  <2>3. SentInv(c)' BY <1>1, <1>2, <2>1, <2>2 DEF CallInv, SentInv, Asked
  <2>4. InboxInv(c)' BY <2>2 DEF InboxInv, Listening, Held, Asked
  <2>5. HeardInv(c)' /\ TookInv(c)' BY <1>1, <1>2, <2>2 DEF CallInv, HeardInv, TookInv
  <2>6. TurnInv(c)' BY <1>1, <1>2, <2>1 DEF CallInv, TurnInv, Asked
  <2>7. /\ p \in Points \ {"dial", "returning", "done"} /\ p \in Early /\ at[c] \in Early
        /\ at[c] \notin {"dial", "returning", "done"}
    BY <2>1 DEF Points, Early
  <2> QED BY <1>2, <2>1, <2>3, <2>4, <2>5, <2>6, <2>7, MovesKeep
<1> QED BY <1>3, <1>4

\* A context that is done, and the socket that is closed for it.
LEMMA CancelKeeps ==
  ASSUME IInv, NEW c \in Connections, CloseWithContext(c) \/ Cancel(c),
         NEW d \in Connections
  PROVE  CallInv(d)'
<1> USE DEF serverVars, clientVars, wireVars, closeVars
<1>1. CallInv(d) /\ TypeOK BY DEF IInv
<1>2. /\ UNCHANGED <<op, at, target, took, heard, reply, sent, inbox, turn, defers>>
      /\ watched' \subseteq watched
  BY DEF CloseWithContext, Cancel
<1>3. TurnsStay BY <1>2 DEF TurnsStay
<1>4. CASE socket'[d] = socket[d] BY <1>2, <1>3, <1>4, OthersStay
<1>5. CASE d = c /\ CloseWithContext(c)
  <2>1. InboxInv(c)' BY <1>2, <1>3, InboxStays
  <2>2. ClosingInv(c)'
    <3>1. /\ defers[c] = <<"stop", "close">> /\ socket'[c] = "closed" /\ c \notin watched'
      BY <1>1, <1>5 DEF CloseWithContext, Close, TypeOK, CallInv, ClosingInv
    <3>2. at[c] # "dial"
      <4>1. <<"stop", "close">> # <<>> BY ShortSequences
      <4> QED BY <1>1, <1>5, <3>1, <4>1 DEF CallInv, ClosingInv, Early
    <3> QED BY <1>1, <1>2, <1>5, <3>1, <3>2 DEF CallInv, ClosingInv
  <2>3. SentInv(c)' /\ TurnInv(c)'
    BY <1>1, <1>2, <1>5 DEF CallInv, SentInv, TurnInv, Own
  <2> QED BY <1>2, <1>3, <1>5, <2>1, <2>2, <2>3, ServerKeeps
<1> QED BY <1>1, <1>4, <1>5 DEF CloseWithContext, Close, Cancel, TypeOK

-----------------------------------------------------------------------------
(* The theorems.                                                           *)

\* Nothing has been opened, asked or heard at the start.
LEMMA InitIInv == Init => IInv
<1> SUFFICES ASSUME Init PROVE IInv OBVIOUS
<1>1. TypeOK
  <2>1. <<>> \in Seq(Requests) /\ <<>> \in Seq(Messages) /\ <<>> \in Seq({"stop", "close"})
    BY EmptySeq
  <2>2. op \in [Connections -> Operations] BY ConnectionsAssumption DEF Init
  <2>3. notes \in 0 .. MaxNotes BY NotesAssumption DEF Init
  <2> QED BY <2>1, <2>2, <2>3 DEF Init, TypeOK, Points, Turns
<1>2. ASSUME NEW c \in Connections PROVE CallInv(c)
  <2>1. /\ at[c] = "dial" /\ socket[c] = "none" /\ reply[c] = "none" /\ sent[c] = <<>>
        /\ defers[c] = <<>> /\ watched = {} /\ inbox[c] = <<>> /\ target[c] = "none" /\ turn[c] = "none"
        /\ took[c].init = "none" /\ took[c].own = "none" /\ heard[c].turn = "none"
    BY DEF Init
  <2>2. <<>> \notin {<<"initialized", Own(c)>>, <<Own(c)>>} BY ShortSequences
  <2>3. ClosingInv(c) /\ InboxInv(c) /\ TargetInv(c) /\ TurnInv(c) /\ TookInv(c)
    BY <2>1 DEF ClosingInv, InboxInv, TargetInv, TurnInv, TookInv, Listening, Held, Asked
  <2>4. SentInv(c) BY <2>1, <2>2 DEF SentInv, Asked
  <2>5. HeardInv(c) BY <2>1, ConnectionsAssumption DEF HeardInv
  <2> QED BY <2>3, <2>4, <2>5 DEF CallInv
<1> QED BY <1>1, <1>2 DEF IInv

\* Every step of a call and of the app server keeps the invariant, for the call that takes it
\* and for the others.
LEMMA StepIInv == IInv /\ [Next]_vars => IInv'
<1> SUFFICES ASSUME IInv, [Next]_vars PROVE IInv' OBVIOUS
<1>1. TypeOK' BY TypePreserved
<1>2. ASSUME NEW d \in Connections PROVE CallInv(d)'
  <2>1. CASE UNCHANGED vars
    <3>1. TurnsStay BY <2>1 DEF vars, serverVars, TurnsStay
    <3> QED BY <2>1, <3>1, OthersStay DEF vars, clientVars, serverVars, wireVars, closeVars
  <2>2. ASSUME NEW c \in Connections, ClientStep(c) \/ DialFails(c) PROVE CallInv(d)'
    BY <2>2, DialKeeps, UpgradedKeeps, InitializedKeeps, OpenedKeeps, CallKeeps, WaitKeeps,
       AnsweredKeeps, BrokenKeeps, DeferredKeeps, EndsKeep
    DEF ClientStep
  <2>3. ASSUME NEW c \in Connections, CloseWithContext(c) \/ Cancel(c) \/ Server(c)
        PROVE  CallInv(d)'
    BY <2>3, CancelKeeps, ServeKeeps, ServerActs DEF Server
  <2> QED BY <2>1, <2>2, <2>3 DEF Next, Terminated
<1> QED BY <1>1, <1>2 DEF IInv

\* The conversation of every call with the app server, however many calls there are and
\* whatever they are: what is on the wire is what the call asked for and what it waits for.
THEOREM CallsInvariant == Spec => []IInv
BY InitIInv, StepIInv, PTL DEF Spec

\* Type correctness of the calls and of their connections (internal/control).
THEOREM ConnectionTypes == Spec => []TypeOK
<1>1. IInv => TypeOK BY DEF IInv
<1> QED BY <1>1, CallsInvariant, PTL

\* AnswersMatch: although no id is compared, notifyReady, decodeResponse and
\* decodeStartedTurn take no answer for one to another request.
THEOREM AnswersAreOwn == Spec => []AnswersMatch
<1>1. IInv => AnswersMatch BY DEF IInv, CallInv, TookInv, Own, AnswersMatch
<1> QED BY <1>1, CallsInvariant, PTL

\* InterruptReached: an InterruptTurn that reports success names a turn that has ended, the
\* end of which the app server recorded before it answered.
THEOREM InterruptsArrive == Spec => []InterruptReached
<1>1. IInv => InterruptReached BY DEF IInv, CallInv, TargetInv, InterruptReached
<1> QED BY <1>1, CallsInvariant, PTL

\* SocketsClosed: on every way out of every method the socket is closed and its watcher gone.
\* Nothing closes it where a method returns: the proof is that at each point just one of
\* open, Ready and the deferred functions owes the close (ClosingInv), and that no call is
\* done before it is paid.
THEOREM NoSocketLeaks == Spec => []SocketsClosed
<1>1. ASSUME IInv, NEW c \in Connections, at[c] = "done"
      PROVE  socket[c] \in {"none", "closed"} /\ c \notin watched
  <2>1. socket[c] \in {"none", "closed"} /\ defers[c] = <<>> BY <1>1 DEF IInv, CallInv, ClosingInv
  <2>2. <<"stop", "close">> # <<>> BY ShortSequences
  <2> QED BY <1>1, <2>1, <2>2 DEF IInv, CallInv, ClosingInv
<1>2. IInv => SocketsClosed BY <1>1 DEF SocketsClosed
<1> QED BY <1>2, CallsInvariant, PTL

\* The app server changes a turn only as TurnCall allows.
LEMMA ServerProgress ==
  ASSUME IInv, NEW s \in Connections, Server(s), NEW c \in Connections
  PROVE  \/ turn'[c] = turn[c]
         \/ turn[c] = "requested" /\ turn'[c] \in {"running"} \cup Ended
         \/ turn[c] = "running" /\ turn'[c] \in Ended
<1>1. turn \in [Connections -> {"none", "requested", "running"} \cup Ended]
  BY DEF IInv, TypeOK
<1>2. CASE TurnEnds(s) BY <1>1, <1>2 DEF TurnEnds, EndTurn
<1>3. CASE Note(s) \/ HangUp(s) BY <1>3 DEF Note, HangUp, serverVars
<1>4. CASE Serve(s)
  <2>1. sent[s] # <<>> /\ sent' = [sent EXCEPT ![s] = Tail(@)] BY <1>4 DEF Serve
  <2>2. Head(sent[s]) = "turn/start" => turn[s] = "requested" BY <2>1, ServeReads
  <2>3. Head(sent[s]) = "turn/interrupt" => target[s] \in Connections BY <2>1, ServeReads
  <2>4. "interrupted" \in Ended BY DEF Ended
  <2> QED BY <1>1, <1>4, <2>2, <2>3, <2>4 DEF Serve, EndTurn
<1> QED BY <1>2, <1>3, <1>4 DEF Server

\* Every step of the model is, for each call, one of TurnCall's or none.
LEMMA CallMoves ==
  ASSUME IInv, [Next]_vars, NEW c \in Connections
  PROVE  [Contract(c)!Next]_(Contract(c)!vars)
<1> USE DEF serverVars, clientVars, wireVars
<1>1. CallInv(c) /\ TypeOK /\ TypeOK' BY TypePreserved DEF IInv
<1>2. /\ at \in [Connections -> Points]
      /\ reply \in [Connections -> {"none", "ok", "error"} \cup Ended]
      /\ turn \in [Connections -> {"none", "requested", "running"} \cup Ended]
  BY <1>1 DEF TypeOK
<1>3. op' = op
  BY DEF vars, Next, ClientStep, Dial, DialFails, Upgraded, UpgradeFailed, Initialized,
         InitializeFailed, Readied, Opened, Call, SkipNote, Answered, TurnAnswered, CalledBack,
         TurnCompleted, Broken, RunDeferred, Returned, CloseWithContext, Cancel, Server, Serve,
         TurnEnds, Note, HangUp, Terminated
<1>4. at'[c] = at[c] => Phase(c)' = Phase(c) BY <1>3 DEF Phase
<1>5. reply'[c] = reply[c] => Result(c)' = Result(c) BY <1>3 DEF Result
<1>6. ASSUME UNCHANGED <<at[c], reply[c], turn[c]>>
      PROVE  [Contract(c)!Next]_(Contract(c)!vars)
  BY <1>4, <1>5, <1>6 DEF Contract!vars
<1>7. ASSUME op[c] # "RunTurn", turn'[c] = turn[c]
      PROVE  [Contract(c)!Next]_(Contract(c)!vars)
  BY <1>3, <1>7 DEF Contract!vars, Phase, Result
<1>8. ASSUME NEW s \in Connections, Server(s)
      PROVE  [Contract(c)!Next]_(Contract(c)!vars)
  <2>1. UNCHANGED <<at, reply>>
    BY <1>8 DEF Server, Serve, TurnEnds, Note, HangUp
  <2>2. CASE turn'[c] = turn[c] BY <1>6, <2>1, <2>2
  <2>3. CASE turn'[c] # turn[c]
    <3>1. Contract(c)!Progress
      BY <1>4, <1>5, <1>8, <2>1, <2>3, ServerProgress DEF Contract!Progress,
          Contract!Ended, Ended
    <3> QED BY <3>1 DEF Contract!Next
  <2> QED BY <2>2, <2>3
<1>9. ASSUME NEW d \in Connections, ClientStep(d) \/ DialFails(d), d # c
      PROVE  [Contract(c)!Next]_(Contract(c)!vars)
  <2>1. UNCHANGED <<at[c], reply[c], turn[c]>>
    BY <1>2, <1>9
    DEF ClientStep, Dial, DialFails, Upgraded, UpgradeFailed, Initialized, InitializeFailed,
        Readied, Opened, Call, SkipNote, Answered, TurnAnswered, CalledBack, TurnCompleted,
        Broken, RunDeferred, Returned, Return, Go, Done
  <2> QED BY <1>6, <2>1
<1>10. ASSUME NEW d \in Connections, CloseWithContext(d) \/ Cancel(d)
       PROVE  [Contract(c)!Next]_(Contract(c)!vars)
  BY <1>6, <1>10 DEF CloseWithContext, Cancel
<1>11. ASSUME op[c] = "RunTurn", at[c] \notin {"returning", "done"},
              at'[c] \in {"returning", "done"}, reply'[c] = "error", UNCHANGED turn
       PROVE  [Contract(c)!Next]_(Contract(c)!vars)
  <2>1. Contract(c)!Fail BY <1>3, <1>11 DEF Contract!Fail, Phase, Result
  <2> QED BY <2>1 DEF Contract!Next
<1>12. ASSUME op[c] = "RunTurn", NEW r, Return(c, r), UNCHANGED turn,
              at[c] \in {"callback", "completion"}, turn[c] \in Ended, r = turn[c]
       PROVE  [Contract(c)!Next]_(Contract(c)!vars)
  <2>1. at'[c] = "returning" /\ reply'[c] = r BY <1>2, <1>12 DEF Return
  <2>2. Contract(c)!Return
    BY <1>3, <1>12, <2>1 DEF Contract!Return, Contract!Ended, Ended, Phase, Result
  <2> QED BY <2>2 DEF Contract!Next
<1>13. ASSUME op[c] = "RunTurn", UNCHANGED <<reply, turn>>,
              at[c] \in Early \cup {"asking"}, at'[c] \in Early \cup {"asking"}
       PROVE  [Contract(c)!Next]_(Contract(c)!vars)
  BY <1>3, <1>5, <1>13 DEF Contract!vars, Phase, Early
<1>f. ASSUME op[c] = "RunTurn", Return(c, "error"), UNCHANGED turn, at[c] \in Held
      PROVE  [Contract(c)!Next]_(Contract(c)!vars)
  <2>1. at'[c] = "returning" /\ reply'[c] = "error" BY <1>2, <1>f DEF Return
  <2> QED BY <1>11, <1>f, <2>1 DEF Held, Asked
<1>14. ASSUME op[c] = "RunTurn",
              \/ Dial(c) \/ Upgraded(c) \/ Initialized(c) \/ Opened(c)
              \/ Broken(c) /\ at[c] \notin Held
       PROVE  [Contract(c)!Next]_(Contract(c)!vars)
  <2>1. UNCHANGED <<reply, turn>> /\ at[c] \in Early
    BY <1>14 DEF Dial, Upgraded, Initialized, Opened, Broken, Go, Early, Held, Asked
  <2>2. at'[c] \in Early \cup {"asking"}
    BY <1>2, <1>14 DEF Dial, Upgraded, Initialized, Opened, Broken, Go, Early, Held, Asked
  <2> QED BY <1>13, <1>14, <2>1, <2>2
<1>g. ASSUME op[c] = "RunTurn",
             \/ DialFails(c) \/ UpgradeFailed(c) \/ InitializeFailed(c)
             \/ Broken(c) /\ at[c] \in Held
      PROVE  [Contract(c)!Next]_(Contract(c)!vars)
  <2>1. CASE DialFails(c) \/ UpgradeFailed(c) \/ InitializeFailed(c)
    <3>1. /\ at[c] \notin {"returning", "done"} /\ at'[c] = "done" /\ reply'[c] = "error"
          /\ UNCHANGED turn
      BY <1>2, <2>1 DEF DialFails, UpgradeFailed, InitializeFailed, Done
    <3> QED BY <1>11, <1>g, <3>1
  <2>2. CASE Broken(c) /\ at[c] \in Held
    <3>1. Return(c, "error") /\ UNCHANGED turn BY <2>2 DEF Broken, Held, Asked
    <3> QED BY <1>f, <1>g, <2>2, <3>1
  <2> QED BY <1>g, <2>1, <2>2
<1>h. ASSUME op[c] = "RunTurn", RunDeferred(c) \/ Returned(c)
      PROVE  [Contract(c)!Next]_(Contract(c)!vars)
  <2>1. /\ UNCHANGED <<reply, turn>> /\ at[c] = "returning"
        /\ at'[c] \in {"returning", "done"}
    BY <1>2, <1>h DEF RunDeferred, Returned, Done
  <2>2. Phase(c)' = Phase(c) BY <1>3, <2>1 DEF Phase
  <2> QED BY <1>5, <2>1, <2>2 DEF Contract!vars
<1>15. CASE op[c] = "RunTurn" /\ Call(c)
  <2>1. turn[c] = "none" BY <1>1, <1>15 DEF CallInv, TurnInv, Call, Asked
  <2>2. at[c] = "asking" /\ at'[c] = "calling" /\ reply' = reply /\ turn'[c] = "requested"
    BY <1>2, <1>15 DEF Call, Go
  <2>3. Contract(c)!Ask
    BY <1>3, <1>5, <1>15, <2>1, <2>2 DEF Contract!Ask, Phase
  <2> QED BY <2>3 DEF Contract!Next
<1>16. CASE op[c] = "RunTurn" /\ TurnAnswered(c)
  <2>1. CASE Return(c, "error")
    BY <1>f, <1>16, <2>1 DEF TurnAnswered, Held, Asked
  <2>2. CASE Message(c).kind = "answer" /\ Message(c).turn # "none"
    <3>1. at[c] = "calling" /\ at'[c] = "callback" /\ UNCHANGED <<reply,
        turn>> /\ inbox[c] # <<>>
      BY <1>2, <1>16, <2>2 DEF TurnAnswered, Read, Go
    <3>a. at[c] \in Listening BY <3>1 DEF Listening, Held, Asked
    <3>2. turn[c] \in Recorded BY <1>16, <2>2, <3>1, <3>a, ReadFits DEF Fits
    <3>3. Contract(c)!Hear
      BY <1>3, <1>5, <1>16, <3>1, <3>2 DEF Contract!Hear, Contract!Ended, Ended, Recorded,
          Phase
    <3> QED BY <3>3 DEF Contract!Next
  <2> QED BY <1>16, <2>1, <2>2 DEF TurnAnswered
<1>17. CASE op[c] = "RunTurn" /\ CalledBack(c)
  <2>1. at[c] = "callback" /\ UNCHANGED turn BY <1>17 DEF CalledBack
  <2>2. CASE Return(c, "error") BY <1>f, <1>17, <2>1, <2>2 DEF Held, Asked
  <2>3. CASE heard[c].status \in Ended /\ Return(c, heard[c].status)
    <3>1. heard[c].status = turn[c] BY <1>1, <2>1, <2>3 DEF CallInv, HeardInv
    <3> QED BY <1>12, <1>17, <2>1, <2>3, <3>1
  <2>4. CASE Go(c, "completion")
    <3>1. at'[c] = "completion" /\ UNCHANGED reply BY <1>2, <2>4 DEF Go
    <3>2. Contract(c)!Proceed
      BY <1>3, <1>5, <1>17, <2>1, <3>1 DEF Contract!Proceed, Phase
    <3> QED BY <3>2 DEF Contract!Next
  <2> QED BY <1>17, <2>2, <2>3, <2>4 DEF CalledBack
<1>18. CASE op[c] = "RunTurn" /\ TurnCompleted(c)
  <2>1. at[c] = "completion" /\ UNCHANGED turn /\ inbox[c] # <<>>
    BY <1>18 DEF TurnCompleted, Read
  <2>2. CASE Return(c, "error") BY <1>f, <1>18, <2>1, <2>2 DEF Held, Asked
  <2>3. CASE /\ Message(c).kind = "completed" /\ Message(c).turn = heard[c].turn
             /\ Return(c, Message(c).status)
    <3>1. Fits(c, Message(c)) BY <2>1, ReadFits DEF Listening, Held, Asked
    <3>2. heard[c].turn = c BY <1>1, <2>1 DEF CallInv, HeardInv
    <3>3. Message(c).status \in Ended /\ Message(c).status = turn[c]
      BY <2>3, <3>1, <3>2 DEF Fits
    <3> QED BY <1>12, <1>18, <2>1, <2>3, <3>3
  <2>4. CASE UNCHANGED <<at, reply>> BY <1>6, <2>1, <2>4
  <2> QED BY <1>18, <2>2, <2>3, <2>4 DEF TurnCompleted
<1>19. ASSUME op[c] = "RunTurn", Readied(c) \/ SkipNote(c) \/ Answered(c) PROVE FALSE
  BY <1>19 DEF Readied, SkipNote, Answered
<1>20. ASSUME op[c] # "RunTurn", ClientStep(c) \/ DialFails(c)
       PROVE  [Contract(c)!Next]_(Contract(c)!vars)
  <2>1. turn'[c] = turn[c]
    BY <1>20
    DEF ClientStep, Dial, DialFails, Upgraded, UpgradeFailed, Initialized, InitializeFailed,
        Readied, Opened, Call, SkipNote, Answered, TurnAnswered, CalledBack, TurnCompleted,
        Broken, RunDeferred, Returned
  <2> QED BY <1>7, <1>20, <2>1
<1>21. ASSUME ClientStep(c) \/ DialFails(c)
       PROVE  [Contract(c)!Next]_(Contract(c)!vars)
  BY <1>14, <1>g, <1>h, <1>15, <1>16, <1>17, <1>18, <1>19, <1>20, <1>21 DEF ClientStep
<1>22. UNCHANGED vars => [Contract(c)!Next]_(Contract(c)!vars)
  BY <1>6 DEF vars
<1> QED BY <1>8, <1>9, <1>10, <1>21, <1>22 DEF Next, Terminated

\* KeepsTurnCall: RunTurn, read message by message among notifications, refusals, hang-ups and
\* a context that is done, implements TurnCall, the abstract call the transmit loop uses.
THEOREM CallsKeepContract == Spec => KeepsTurnCall
<1> DEFINE Begun == \A c \in Connections : Contract(c)!Init
           Moves == \A c \in Connections : [Contract(c)!Next]_(Contract(c)!vars)
<1>1. Init => Begun
  <2> SUFFICES ASSUME Init, NEW c \in Connections PROVE Contract(c)!Init OBVIOUS
  <2>1. at[c] = "dial" /\ reply[c] = "none" /\ turn[c] = "none" BY DEF Init
  <2> QED BY <2>1 DEF Contract!Init, Phase, Result
<1>2. IInv /\ [Next]_vars => [Moves]_vars BY CallMoves
<1> HIDE DEF Begun, Moves
<1>3. Spec => Begun /\ [][Moves]_vars BY <1>1, <1>2, CallsInvariant, PTL DEF Spec
<1> QED BY <1>3 DEF Begun, Moves, KeepsTurnCall
=============================================================================
