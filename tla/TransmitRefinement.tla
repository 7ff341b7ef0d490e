------------------------- MODULE TransmitRefinement -------------------------
(***************************************************************************)
(* The transmit loop implements its two abstract specifications, for every *)
(* value of the constants: LeaseProtocol, what the invocation service and  *)
(* the app server may rely on, and TurnCall, what the loop relies on of    *)
(* UnixClient.RunTurn.                                                     *)
(*                                                                         *)
(* GrantInv says of leases what IInv leaves open (which of them have been  *)
(* granted).  Under both, each step of the loop maps to a step of the      *)
(* abstract specification or changes nothing it sees.                      *)
(***************************************************************************)
EXTENDS TransmitProofs

\* A turn goroutine only ever runs under a lease that was granted, and once it has asked
\* for a turn the app server has a record of it.
TurnUnderLease ==
    \A s \in Steps :
        /\ tpc[s] # "none" => lease[s] # "none"
        /\ tpc[s] \notin {"none", "open", "write", "returned"} => turn[s] # "none"
        /\ started[s] => turn[s] # "none"

\* transmitClaim goes on to StartThread only with a claim the service granted.
Granted ==
    \A s \in Steps : s = step =>
        /\ pc = "thread" => lease[s] # "none"
        /\ call[Main].op = "claim" /\ call[Main].st = "ok" => lease[s] # "none"

\* A claim that was given up is the end of Run: it is alone under way, and the step it
\* would open stays untouched, so that a late grant is of no consequence.
ClaimGivenUp ==
    \A r \in stray : r.op = "claim" =>
        /\ stray = {r}
        /\ pc \in {"failed", "killed"}
        /\ \A s \in Steps : s = step => lease[s] = "none" /\ Untouched(s)

\* What the refinement needs beside IInv; inductive relative to it.
GrantInv == TurnUnderLease /\ Granted /\ ClaimGivenUp

\* A lease once granted and a turn once asked for are never forgotten.
LEMMA LeaseStays ==
  ASSUME IInv, Next, NEW s \in Steps
  PROVE  /\ lease[s] # "none" => lease'[s] # "none"
         /\ turn[s] # "none" => turn'[s] # "none"
<1> USE DEF appVars, serviceVars
<1>a. /\ lease \in [Steps -> {"none", "held", "expired"} \cup Settlements]
      /\ turn \in [Steps -> {"none", "requested", "running"} \cup TurnStatuses]
      /\ "none" \notin Settlements /\ "none" \notin TurnStatuses
  BY Words DEF IInv, TypeOK, TurnStatuses
<1>1. lease[s] # "none" => lease'[s] # "none"
  <2>1. ASSUME NEW r, Apply(r) PROVE lease[s] # "none" => lease'[s] # "none"
    BY <2>1, <1>a DEF Apply
  <2>2. CASE ServeClaim BY <2>2, <1>a DEF ServeClaim
  <2>3. CASE ServeStray BY <2>1, <2>3, <1>a DEF ServeStray
  <2>4. CASE \E c \in Callers : Serve(c) BY <2>1, <2>4 DEF Serve
  <2>5. CASE ExpireLease BY <2>5, <1>a DEF ExpireLease
  <2>6. CASE UNCHANGED lease BY <2>6
  <2> QED
    BY <2>2, <2>3, <2>4, <2>5, <2>6
    DEF Next, MainStep, TurnGoroutine, TurnStep, Environment, Terminated, vars, Loop,
        VerifyFailed, Claim, ClaimedNothing, Idle, Claimed, ThreadFailed, ThreadStarted,
        WaitForStart, RenewResult, RenewTick, RenewCancelled, Renewed, RenewFailed,
        GiveUp, Settled, CallFailed, TurnOpened, TurnRequested, TurnStarted,
        FirstExtended, FirstExtendFailed, InterruptedUnrenewed, ReturnUnrenewed, TurnDone,
        TurnError, Cancel, Kill, AppStartsTurn, AppEndsTurn
<1>2. turn[s] # "none" => turn'[s] # "none"
  <2>1. CASE GiveUp \/ \E t \in Steps : InterruptedUnrenewed(t)
    BY <2>1, <1>a DEF GiveUp, InterruptedUnrenewed, InterruptActiveTurn
  <2>2. CASE \E t \in Steps : TurnRequested(t) \/ AppStartsTurn(t) \/ AppEndsTurn(t)
    BY <2>2, <1>a DEF TurnRequested, AppStartsTurn, AppEndsTurn
  <2>3. CASE UNCHANGED turn BY <2>3
  <2> QED
    BY <2>1, <2>2, <2>3
    DEF Next, MainStep, TurnGoroutine, TurnStep, Environment, Terminated, vars, Loop,
        VerifyFailed, Claim, ClaimedNothing, Idle, Claimed, ThreadFailed, ThreadStarted,
        WaitForStart, RenewResult, RenewTick, RenewCancelled, Renewed, RenewFailed,
        Settled, CallFailed, TurnOpened, TurnStarted, FirstExtended, FirstExtendFailed,
        ReturnUnrenewed, TurnDone, TurnError, ServeClaim, ServeStray, ExpireLease, Cancel,
        Kill, Serve
<1> QED BY <1>1, <1>2

\* Whatever leaves the turn goroutines alone keeps their leases.
LEMMA TurnUnderLeaseKept ==
  ASSUME IInv, TurnUnderLease, Next, UNCHANGED <<tpc, started>>
  PROVE  TurnUnderLease'
BY LeaseStays DEF TurnUnderLease

\* A turn goroutine is spawned under a granted lease, and asks before it hears.
LEMMA TurnUnderLeasePreserved ==
  ASSUME IInv, TurnUnderLease, Granted, Next
  PROVE  TurnUnderLease'
<1> USE DEF mainVars, turnVars, httpVars, serviceVars, appVars
<1>a. /\ tpc \in [Steps -> TurnPoints] /\ started \in [Steps -> BOOLEAN]
      /\ turn \in [Steps -> {"none", "requested", "running"} \cup TurnStatuses]
  BY DEF IInv, TypeOK
<1>b. \A s \in Steps : /\ lease[s] # "none" => lease'[s] # "none"
                       /\ turn[s] # "none" => turn'[s] # "none"
  BY LeaseStays
<1>1. CASE ThreadStarted
  <2>1. step \in Steps BY <1>1 DEF ThreadStarted, IInv, StepsInv, InStep
  <2>2. lease[step] # "none" BY <1>1, <2>1 DEF ThreadStarted, Granted
  <2> HIDE DEF step
  <2> QED BY <1>1, <1>a, <1>b, <2>1, <2>2 DEF ThreadStarted, TurnUnderLease
<1>2. ASSUME NEW t \in Steps, TurnStep(t) \/ TurnError(t) PROVE TurnUnderLease'
  <2>1. tpc[t] # "none"
    BY <1>2 DEF TurnStep, TurnOpened, TurnRequested, TurnStarted, FirstExtended,
        FirstExtendFailed, InterruptedUnrenewed, ReturnUnrenewed, TurnDone, TurnError
  <2>2. \A s \in Steps : s # t => tpc'[s] = tpc[s] /\ started'[s] = started[s]
    BY <1>2, <1>a
    DEF TurnStep, TurnOpened, TurnRequested, TurnStarted, FirstExtended,
        FirstExtendFailed, InterruptedUnrenewed, ReturnUnrenewed, TurnDone, TurnError
  <2>3. \/ tpc'[t] \in {"write", "returned"} /\ started'[t] = started[t]
        \/ turn'[t] # "none"
    <3>1. CASE TurnRequested(t)
      BY <3>1, <1>a DEF TurnRequested
    <3>2. CASE TurnStarted(t) BY <3>2, <1>a DEF TurnStarted, TurnStatuses
    <3>3. CASE FirstExtended(t) \/ FirstExtendFailed(t) \/ InterruptedUnrenewed(t)
      BY <3>3, <1>b DEF FirstExtended, FirstExtendFailed, InterruptedUnrenewed,
          TurnUnderLease
    <3>4. CASE TurnOpened(t) \/ ReturnUnrenewed(t) \/ TurnDone(t) \/ TurnError(t)
      BY <3>4, <1>a DEF TurnOpened, ReturnUnrenewed, TurnDone, TurnError
    <3> QED BY <1>2, <3>1, <3>2, <3>3, <3>4 DEF TurnStep
  <2> QED BY <1>b, <2>1, <2>2, <2>3 DEF TurnUnderLease
<1>3. CASE ~ThreadStarted /\ \A t \in Steps : ~TurnStep(t) /\ ~TurnError(t)
  <2>1. UNCHANGED <<tpc, started>>
    BY <1>3
    DEF Next, MainStep, TurnGoroutine, Environment, Terminated, vars, Loop, VerifyFailed,
        Claim, ClaimedNothing, Idle, Claimed, ThreadFailed, WaitForStart, RenewResult,
        RenewTick, RenewCancelled, Renewed, RenewFailed, GiveUp, Settled, CallFailed,
        ServeClaim, ServeStray, ExpireLease, Cancel, Kill, Serve, AppStartsTurn,
        AppEndsTurn
  <2> QED BY <2>1, TurnUnderLeaseKept
<1> QED BY <1>1, <1>2, <1>3

\* Granted is only about the claim and the step: whoever leaves them alone keeps it.
LEMMA GrantedKept ==
  ASSUME IInv, Granted, Next, step' = step, pc' = "thread" => pc = "thread",
         \/ call'[Main] = call[Main]
         \/ call'[Main].op # "claim" \/ call'[Main].st # "ok"
  PROVE  Granted'
<1> HIDE DEF step
<1> QED BY LeaseStays DEF Granted

\* The claim is answered with a lease before the step goes on.
LEMMA GrantedPreserved ==
  ASSUME IInv, Granted, Next
  PROVE  Granted'
<1> USE DEF vars, mainVars, turnVars, httpVars, serviceVars, appVars, step
<1>a. TypeOK /\ CallInv /\ "claim" \notin Settlements BY Words DEF IInv
<1>b. /\ counts \in CountsType /\ Main \in Callers /\ Main \notin Steps /\ Steps \subseteq Callers
      /\ call \in [Callers -> Calls \cup {NoCall}]
  BY <1>a, StepTyped DEF TypeOK
<1>c. ASSUME NEW op \in Settlements, Settle(op)
      PROVE  /\ call'[Main] = call[Main] \/ call'[Main].op # "claim"
             /\ pc' # "thread"
  BY <1>c, <1>a, <1>b DEF Settle, Request
<1>d. ASSUME NEW r, TurnReturned(r)
      PROVE  /\ call'[Main] = call[Main] \/ call'[Main].op # "claim"
             /\ pc' # "thread"
  BY <1>d, <1>c DEF TurnReturned, Settlements, NackCodes
<1>e. ASSUME call' = [call EXCEPT ![Main] = NoCall] PROVE call'[Main].op # "claim"
  BY <1>e, <1>b DEF NoCall
<1> USE GrantedKept
<1>1. CASE Loop BY <1>1, <1>b DEF Loop
<1>2. CASE VerifyFailed BY <1>2, <1>b DEF VerifyFailed
<1>3. CASE Claim
  <2>1. call'[Main] = call[Main] \/ call'[Main].st = "sent" BY <1>3, <1>b DEF Claim, Request
  <2>2. call[Main] = NoCall BY <1>3, <1>a DEF Claim, CallInv
  <2> QED BY <1>3, <2>1, <2>2 DEF Claim, Granted, NoCall
<1>4. CASE ClaimedNothing
  <2>1. call'[Main].op # "claim" BY <1>4, <1>e DEF ClaimedNothing
  <2> QED BY <1>4, <1>b, <2>1 DEF ClaimedNothing, CountsType
<1>5. CASE Idle BY <1>5, <1>b DEF Idle
<1>6. CASE Claimed
  <2>1. \A s \in Steps : s = step => lease'[s] # "none"
    BY <1>6, <1>a DEF Claimed, CallInv, Granted
  <2> QED BY <1>6, <2>1 DEF Claimed, Granted
<1>7. CASE ThreadFailed BY <1>7, <1>b, <1>c DEF ThreadFailed, Settlements, NackCodes
<1>8. CASE ThreadStarted BY <1>8, <1>b DEF ThreadStarted
<1>9. CASE WaitForStart BY <1>9, <1>b, <1>d DEF WaitForStart
<1>10. CASE RenewResult BY <1>10, <1>b, <1>d DEF RenewResult
<1>11. CASE RenewTick
  <2>1. call'[Main] = call[Main] \/ call'[Main].op # "claim"
    BY <1>11, <1>b DEF RenewTick, Request
  <2> QED BY <1>11, <2>1 DEF RenewTick
<1>12. CASE RenewCancelled BY <1>12, <1>b DEF RenewCancelled
<1>13. CASE Renewed
  <2>1. call'[Main].op # "claim" BY <1>13, <1>e DEF Renewed
  <2> QED BY <1>13, <1>b, <2>1 DEF Renewed, CountsType
<1>14. CASE RenewFailed
  <2>1. call'[Main].op # "claim" BY <1>14, <1>e DEF RenewFailed, Abandon
  <2> QED BY <1>14, <1>b, <2>1 DEF RenewFailed
<1>15. CASE GiveUp BY <1>15, <1>b DEF GiveUp, InterruptActiveTurn
<1>16. CASE Settled
  <2>1. call'[Main].op # "claim" BY <1>16, <1>e DEF Settled
  <2> QED BY <1>16, <1>b, <2>1 DEF Settled, CountsType
<1>17. CASE CallFailed
  <2>1. call'[Main].op # "claim" BY <1>17, <1>e DEF CallFailed, Abandon
  <2> QED BY <1>17, <1>b, <2>1 DEF CallFailed
<1>18. ASSUME NEW t \in Steps, TurnOpened(t) PROVE Granted'
  BY <1>18, <1>b DEF TurnOpened
<1>19. ASSUME NEW t \in Steps, TurnRequested(t) PROVE Granted'
  BY <1>19, <1>b DEF TurnRequested
<1>20. ASSUME NEW t \in Steps, TurnStarted(t) PROVE Granted'
  BY <1>20, <1>b DEF TurnStarted
<1>21. ASSUME NEW t \in Steps, FirstExtended(t) PROVE Granted'
  BY <1>21, <1>b DEF FirstExtended
<1>22. ASSUME NEW t \in Steps, FirstExtendFailed(t) PROVE Granted'
  BY <1>22, <1>b DEF FirstExtendFailed, Abandon
<1>23. ASSUME NEW t \in Steps, InterruptedUnrenewed(t) PROVE Granted'
  BY <1>23, <1>b DEF InterruptedUnrenewed, InterruptActiveTurn
<1>24. ASSUME NEW t \in Steps, ReturnUnrenewed(t) PROVE Granted'
  BY <1>24, <1>b DEF ReturnUnrenewed
<1>25. ASSUME NEW t \in Steps, TurnDone(t) PROVE Granted'
  BY <1>25, <1>b DEF TurnDone
<1>26. ASSUME NEW t \in Steps, TurnError(t) PROVE Granted'
  BY <1>26, <1>b DEF TurnError
<1>27. CASE ServeClaim
  <2>1. CASE call'[Main].st # "ok" BY <1>27, <2>1 DEF ServeClaim, Granted
  <2>2. CASE call'[Main].st = "ok"
    <3>1. call[Main].op # "none" /\ call[Main] \in Calls
      BY <1>27, <1>a, <1>b, CallTyped DEF ServeClaim
    <3>2. PICK e \in ClaimExpiries : lease' = [lease EXCEPT ![step] = "held"]
      BY <1>27, <1>b, <2>2, <3>1 DEF ServeClaim, Calls
    <3>3. \A s \in Steps : s = step => lease'[s] # "none" BY <3>2, <1>a DEF TypeOK
    <3> QED BY <1>27, <3>3 DEF ServeClaim, Granted
  <2> QED BY <2>1, <2>2
<1>28. CASE ServeStray BY <1>28, <1>b DEF ServeStray
<1>29. CASE ExpireLease BY <1>29, <1>b DEF ExpireLease
<1>30. CASE Cancel BY <1>30, <1>b DEF Cancel
<1>31. CASE Kill BY <1>31, <1>b DEF Kill
<1>32. ASSUME NEW c \in Callers, Serve(c) PROVE Granted'
  <2>1. call'[Main] = call[Main] \/ call'[Main].op # "claim"
    BY <1>32, <1>a, <1>b DEF Serve, Apply
  <2> QED BY <1>32, <2>1 DEF Serve
<1>33. ASSUME NEW t \in Steps, AppStartsTurn(t) PROVE Granted'
  BY <1>33, <1>b DEF AppStartsTurn
<1>34. ASSUME NEW t \in Steps, AppEndsTurn(t) PROVE Granted'
  BY <1>34, <1>b DEF AppEndsTurn
<1>35. CASE Terminated BY <1>35, <1>b DEF Terminated
<1> QED
  BY <1>1, <1>2, <1>3, <1>4, <1>5, <1>6, <1>7, <1>8, <1>9, <1>10, <1>11, <1>12, <1>13,
    <1>14, <1>15, <1>16, <1>17, <1>18, <1>19, <1>20, <1>21, <1>22, <1>23, <1>24, <1>25,
    <1>26, <1>27, <1>28, <1>29, <1>30, <1>31, <1>32, <1>33, <1>34, <1>35
  DEF Next, MainStep, TurnGoroutine, TurnStep, Environment

\* Nothing but its late answer happens to a claim the driver has given up.
LEMMA ClaimGivenUpPreserved ==
  ASSUME IInv, ClaimGivenUp, Next
  PROVE  ClaimGivenUp'
<1> SUFFICES ASSUME NEW r \in stray', r.op = "claim"
             PROVE  /\ stray' = {r}
                    /\ pc' \in {"failed", "killed"}
                    /\ \A s \in Steps : s = step' => lease'[s] = "none" /\ Untouched(s)'
  BY DEF ClaimGivenUp
<1> USE DEF vars, mainVars, turnVars, httpVars, serviceVars, appVars
<1>a. TypeOK /\ CallInv /\ MainInv /\ StepsInv BY DEF IInv
<1>1. CASE r \in stray
  <2>1. /\ stray = {r} /\ pc \in {"failed", "killed"} /\ ~Alive
        /\ \A s \in Steps : s = step => lease[s] = "none" /\ Untouched(s)
    BY <1>1 DEF ClaimGivenUp, Alive, Exits
  <2>2. \A c \in Callers : call[c].st # "sent"
    <3>1. ASSUME NEW c \in Callers, call[c] # NoCall PROVE FALSE
      <4>1. CASE c = Main
        <5>1. /\ step \in Steps
              /\ call[Main].op \in Operations /\ call[Main].op \notin {"claim"} \cup Settlements
          BY <3>1, <4>1, <1>a, <2>1, MainCallIsCurrent DEF CallInv, Calls
        <5> QED BY <5>1, <1>a, <2>1 DEF Operations, CallInv, Untouched
      <4>2. CASE c \in Steps BY <3>1, <4>2, <2>1, TurnCallIsCurrent DEF Untouched
      <4> QED BY <4>1, <4>2 DEF Callers, Main
    <3> QED BY <3>1 DEF NoCall
  <2>3. ~MainStep /\ ~TurnGoroutine /\ ~ServeClaim /\ ~Cancel /\ ~Kill
        /\ \A c \in Callers : ~Serve(c)
    BY <2>1, <2>2, StepTyped, <1>a
    DEF MainStep, TurnGoroutine, TurnStep, ServeClaim, Cancel, Kill, Serve, Loop,
        VerifyFailed, Claim, ClaimedNothing, Idle, Claimed, ThreadFailed, ThreadStarted,
        WaitForStart, RenewResult, RenewTick, RenewCancelled, Renewed, RenewFailed,
        GiveUp, Settled, CallFailed, TurnOpened, TurnRequested, TurnStarted,
        FirstExtended, FirstExtendFailed, InterruptedUnrenewed, ReturnUnrenewed, TurnDone,
        TurnError
  <2>4. ~ServeStray BY <2>1 DEF ServeStray
  <2>5. UNCHANGED <<pc, counts, stray, turnVars>>
        /\ \A s \in Steps : s = step => lease'[s] = lease[s] /\ turn'[s] = turn[s]
    BY <2>1, <2>3, <2>4, <1>a
    DEF Next, Environment, ExpireLease, AppStartsTurn, AppEndsTurn, Terminated, Untouched,
        TypeOK
  <2> QED BY <2>1, <2>5 DEF Untouched, step
<1>2. CASE r \notin stray
  <2>1. PICK c \in Callers : Abandon(c) /\ r = call[c] /\ call[c].st = "sent"
                             /\ (CallFailed \/ RenewFailed \/ \E t \in Steps : c = t)
    <3>1. RenewFailed \/ CallFailed \/ \E t \in Steps : FirstExtendFailed(t)
      BY <1>2
      DEF Next, MainStep, TurnGoroutine, TurnStep, Environment, Terminated, Loop,
          VerifyFailed, Claim, ClaimedNothing, Idle, Claimed, ThreadFailed, ThreadStarted,
          WaitForStart, RenewResult, RenewTick, RenewCancelled, Renewed, GiveUp, Settled,
          TurnOpened, TurnRequested, TurnStarted, FirstExtended, InterruptedUnrenewed,
          ReturnUnrenewed, TurnDone, TurnError, ServeClaim, ServeStray, ExpireLease,
          Cancel, Kill, Serve, AppStartsTurn, AppEndsTurn
    <3> QED BY <3>1, <1>2, <1>a, StepTyped DEF RenewFailed, CallFailed, FirstExtendFailed,
        Abandon
  <2>2. c = Main BY <2>1, <1>a, Words DEF CallInv, Callers, Main, NoCall
  <2>3. CallFailed /\ pc = "claim"
    BY <2>1, <2>2, <1>a, StepTyped, Words DEF CallInv, CallFailed, RenewFailed
  <2>4. stray = {} /\ \A s \in Steps : s = step => lease[s] = "none" /\ Untouched(s)
    BY <2>1, <2>2, <1>a DEF CallInv
  <2> QED BY <2>1, <2>2, <2>3, <2>4 DEF CallFailed, Abandon, Untouched, step
<1> QED BY <1>1, <1>2

\* Nothing is granted or asked for at the start.
LEMMA InitGrantInv == Init => GrantInv
<1> SUFFICES ASSUME Init PROVE GrantInv OBVIOUS
<1>1. TurnUnderLease BY DEF Init, TurnUnderLease
<1>2. call[Main].op = "none" BY DEF Init, Callers, NoCall
<1>3. Granted BY <1>2 DEF Init, Granted
<1>4. ClaimGivenUp BY DEF Init, ClaimGivenUp
<1> QED BY <1>1, <1>3, <1>4 DEF GrantInv

\* Every step keeps the leases, given IInv.
LEMMA StepGrantInv == IInv /\ GrantInv /\ [Next]_vars => GrantInv'
<1>1. ASSUME IInv, GrantInv, UNCHANGED vars PROVE GrantInv'
  BY <1>1 DEF vars, mainVars, turnVars, httpVars, serviceVars, appVars, GrantInv,
      TurnUnderLease, Granted, ClaimGivenUp, Untouched, step
<1>2. ASSUME IInv, GrantInv, Next PROVE GrantInv'
  BY <1>2, TurnUnderLeasePreserved, GrantedPreserved, ClaimGivenUpPreserved DEF GrantInv
<1> QED BY <1>1, <1>2

\* No turn is spawned, and none asked for, without a lease; a claim given up is the last.
THEOREM Grants == Spec => []GrantInv
BY InitGrantInv, StepGrantInv, Invariance, PTL DEF Spec

\* The failure of an extension is not forgotten while the driver runs.
LEMMA UnrenewedKept ==
  ASSUME IInv, Next, NEW s \in Steps, Unrenewed(s), Alive'
  PROVE  Unrenewed(s)'
<1> USE DEF vars, mainVars, turnVars, httpVars, serviceVars, appVars, Unrenewed, step,
    Alive, Exits
<1>a. /\ result \in [Steps -> Results \cup {"none"}] /\ tpc \in [Steps -> TurnPoints]
      /\ counts \in CountsType /\ TurnInv /\ MainInv
  BY DEF IInv, TypeOK
<1>1. CASE ThreadStarted
  <2>1. s # step BY <1>1, <1>a DEF ThreadStarted, MainInv, Untouched
  <2> QED BY <1>1, <1>a, <2>1 DEF ThreadStarted
<1>2. CASE \/ Loop \/ VerifyFailed \/ Claim \/ ClaimedNothing \/ Idle \/ Claimed
           \/ ThreadFailed \/ WaitForStart \/ RenewResult \/ RenewTick \/ RenewCancelled
           \/ Renewed \/ RenewFailed \/ GiveUp \/ Settled \/ CallFailed
  BY <1>2, <1>a
  DEF Loop, VerifyFailed, Claim, ClaimedNothing, Idle, Claimed, ThreadFailed,
      WaitForStart, RenewResult, RenewTick, RenewCancelled, Renewed, RenewFailed, GiveUp,
      Settled, CallFailed, InterruptActiveTurn
<1>3. ASSUME NEW t \in Steps, TurnStep(t) \/ TurnError(t) PROVE Unrenewed(s)'
  <2>1. step' = step /\ pc' = pc
    BY <1>3, <1>a
    DEF TurnStep, TurnOpened, TurnRequested, TurnStarted, FirstExtended,
        FirstExtendFailed, InterruptedUnrenewed, ReturnUnrenewed, TurnDone, TurnError,
        CountsType
  <2>2. CASE t # s
    BY <1>3, <1>a, <2>1, <2>2
    DEF TurnStep, TurnOpened, TurnRequested, TurnStarted, FirstExtended,
        FirstExtendFailed, InterruptedUnrenewed, ReturnUnrenewed, TurnDone, TurnError
  <2>3. CASE t = s
    BY <1>3, <1>a, <2>1, <2>3
    DEF TurnStep, TurnOpened, TurnRequested, TurnStarted, FirstExtended,
        FirstExtendFailed, InterruptedUnrenewed, ReturnUnrenewed, TurnDone, TurnError,
        TurnInv
  <2> QED BY <2>2, <2>3
<1>4. CASE Environment
  BY <1>4
  DEF Environment, ServeClaim, ServeStray, ExpireLease, Cancel, Kill, Serve,
      AppStartsTurn, AppEndsTurn
<1> QED BY <1>1, <1>2, <1>3, <1>4 DEF Next, MainStep, TurnGoroutine, Terminated

\* Only a tick, or the turn goroutine of the step itself, meets a failed extension.
LEMMA ExtensionFails ==
  ASSUME IInv, Next, NEW s \in Steps, ~Unrenewed(s), Unrenewed(s)'
  PROVE  RenewTick \/ RenewFailed \/ TurnStarted(s) \/ FirstExtendFailed(s)
<1> SUFFICES ASSUME ~RenewTick, ~RenewFailed, ~TurnStarted(s), ~FirstExtendFailed(s)
             PROVE  FALSE
  OBVIOUS
<1> USE DEF vars, mainVars, turnVars, httpVars, serviceVars, appVars, Unrenewed, step
<1>a. /\ result \in [Steps -> Results \cup {"none"}] /\ tpc \in [Steps -> TurnPoints]
      /\ counts \in CountsType /\ TurnInv /\ MainInv
  BY DEF IInv, TypeOK
<1>1. ASSUME NEW r, TurnReturned(r)
      PROVE  /\ pc' # "interruptUnrenewed"
             /\ pc' = "unrenewed" => r = "extensionFailed"
  BY <1>1 DEF TurnReturned, Settle
<1>2. CASE \/ Loop \/ VerifyFailed \/ Claim \/ ClaimedNothing \/ Idle \/ Claimed
           \/ ThreadFailed \/ ThreadStarted \/ RenewCancelled \/ Renewed \/ Settled
           \/ CallFailed
  BY <1>2, <1>a
  DEF Loop, VerifyFailed, Claim, ClaimedNothing, Idle, Claimed, ThreadFailed,
      ThreadStarted, Settle, RenewCancelled, Renewed, Settled, CallFailed, TurnPoints,
      CountsType
<1>3. CASE WaitForStart \/ RenewResult BY <1>1, <1>3 DEF WaitForStart, RenewResult
<1>4. CASE GiveUp BY <1>4, <1>a DEF GiveUp, InterruptActiveTurn
<1>5. ASSUME NEW t \in Steps, TurnStep(t) \/ TurnError(t) PROVE FALSE
  <2>1. step' = step /\ pc' = pc
    BY <1>5, <1>a
    DEF TurnStep, TurnOpened, TurnRequested, TurnStarted, FirstExtended,
        FirstExtendFailed, InterruptedUnrenewed, ReturnUnrenewed, TurnDone, TurnError,
        CountsType
  <2>2. CASE t # s
    BY <1>5, <1>a, <2>1, <2>2
    DEF TurnStep, TurnOpened, TurnRequested, TurnStarted, FirstExtended,
        FirstExtendFailed, InterruptedUnrenewed, ReturnUnrenewed, TurnDone, TurnError
  <2>3. CASE t = s
    BY <1>5, <1>a, <2>1, <2>3
    DEF TurnStep, TurnOpened, TurnRequested, FirstExtended, InterruptedUnrenewed,
        ReturnUnrenewed, TurnDone, TurnError, TurnStatuses
  <2> QED BY <2>2, <2>3
<1>6. CASE Environment
  BY <1>6
  DEF Environment, ServeClaim, ServeStray, ExpireLease, Cancel, Kill, Serve,
      AppStartsTurn, AppEndsTurn
<1> QED BY <1>2, <1>3, <1>4, <1>5, <1>6 DEF Next, MainStep, TurnGoroutine, Terminated

\* An extension fails while its lease is unsettled and the turn was asked for.
LEMMA UnrenewedMade ==
  ASSUME IInv, GrantInv, Next, NEW s \in Steps, ~Unrenewed(s), Unrenewed(s)'
  PROVE  /\ Alive
         /\ lease[s] \in {"held", "expired"} /\ turn[s] # "none"
         /\ UNCHANGED <<lease, turn>>
<1> USE DEF vars, mainVars, turnVars, httpVars, serviceVars, appVars, Alive, Exits
<1>a. TypeOK /\ SettleInv /\ TurnUnderLease BY DEF IInv, GrantInv
<1>b. /\ result \in [Steps -> Results \cup {"none"}] /\ tpc \in [Steps -> TurnPoints]
      /\ lease \in [Steps -> {"none", "held", "expired"} \cup Settlements]
  BY <1>a DEF TypeOK
<1>1. RenewTick \/ RenewFailed \/ TurnStarted(s) \/ FirstExtendFailed(s)
  BY ExtensionFails
<1>2. CASE RenewTick \/ RenewFailed
  <2>1. s = step /\ pc \in {"renew", "extend"}
    BY <1>2 DEF RenewTick, RenewFailed, Unrenewed, step
  <2>2. started[s] /\ lease[s] \notin Settlements
    BY <2>1 DEF IInv, MainInv, SettleInv, AfterStart, InStep
  <2> QED BY <1>2, <1>a, <1>b, <2>1, <2>2 DEF RenewTick, RenewFailed, TurnUnderLease,
      IInv, TurnInv
<1>3. CASE TurnStarted(s) \/ FirstExtendFailed(s)
  <2>1. ~Over(s) BY <1>3 DEF Over, TurnStarted, FirstExtendFailed
  <2> QED BY <1>3, <1>a, <1>b, <2>1, CurrentTurn DEF TurnUnderLease, TurnStarted,
      FirstExtendFailed
<1> QED BY <1>1, <1>2, <1>3

\* Once the process is gone no goroutine of it moves.
LEMMA StaysEnded ==
  ASSUME Next, ~Alive
  PROVE  ~Alive'
BY DEF Next, MainStep, TurnGoroutine, TurnStep, Environment, Terminated, vars, mainVars,
       Alive, Exits, Loop, VerifyFailed, Claim, ClaimedNothing, Idle, Claimed,
       ThreadFailed, ThreadStarted, WaitForStart, RenewResult, RenewTick, RenewCancelled,
       Renewed, RenewFailed, CallFailed, GiveUp, Settled, TurnOpened, TurnRequested,
       TurnStarted, FirstExtended, FirstExtendFailed, InterruptedUnrenewed,
       ReturnUnrenewed, TurnDone, TurnError, ServeClaim, ServeStray, ExpireLease, Cancel,
       Kill, Serve, AppStartsTurn, AppEndsTurn

\* What the protocol sees of the driver, and which part of the loop's state it is.
LEMMA DriverStates ==
  /\ DriverState \in {"working", "unrenewed", "ended"}
  /\ DriverState = "unrenewed" <=> \E s \in Steps : Unrenewed(s)
  /\ DriverState = "working" <=> Alive /\ \A s \in Steps : ~Unrenewed(s)
BY DEF DriverState

\* The same of the state after a step.
LEMMA DriverStatesNext ==
  /\ DriverState' \in {"working", "unrenewed", "ended"}
  /\ DriverState' = "unrenewed" <=> \E s \in Steps : Unrenewed(s)'
  /\ DriverState' = "working" <=> Alive' /\ \A s \in Steps : ~Unrenewed(s)'
BY DEF DriverState

\* The driver is seen through four variables only.
LEMMA DriverSame ==
  ASSUME UNCHANGED <<pc, counts, tpc, result>>
  PROVE  DriverState' = DriverState
BY DEF DriverState, Unrenewed, Alive, step

\* A step that leaves leases and turns alone is a failed extension (Unrenew), the end of
\* the driver (End), or nothing the protocol sees.
LEMMA DriverMoves ==
  ASSUME IInv, GrantInv, Next, UNCHANGED <<lease, turn>>
  PROVE  [Protocol!Next]_(Protocol!vars)
<1> USE DriverStates, DriverStatesNext
<1>1. ASSUME NEW s \in Steps, Unrenewed(s)
      PROVE  [Protocol!Next]_(Protocol!vars)
  <2>1. CASE Alive'
    <3>1. DriverState' = DriverState BY <1>1, <2>1, UnrenewedKept
    <3> QED BY <3>1 DEF Protocol!vars
  <2>2. CASE ~Alive'
    <3>1. DriverState' = DriverState \/ DriverState' = "ended" BY <1>1, <2>2
    <3> QED BY <1>1, <3>1 DEF Protocol!vars, Protocol!Next, Protocol!End
  <2> QED BY <2>1, <2>2
<1>2. ASSUME NEW s \in Steps, Unrenewed(s)', \A t \in Steps : ~Unrenewed(t)
      PROVE  [Protocol!Next]_(Protocol!vars)
  <2>1. Alive /\ lease[s] \in {"held", "expired"} /\ turn[s] # "none" BY <1>2, UnrenewedMade
  <2>2. DriverState = "working" /\ DriverState' = "unrenewed" BY <1>2, <2>1
  <2> QED BY <2>1, <2>2 DEF Protocol!Next, Protocol!Unrenew, Protocol!Steps, Steps
<1>3. CASE \A s \in Steps : ~Unrenewed(s) /\ ~Unrenewed(s)'
  <2>1. DriverState' = DriverState \/ (DriverState = "working" /\ DriverState' = "ended")
    BY <1>3, StaysEnded
  <2> QED BY <2>1 DEF Protocol!vars, Protocol!Next, Protocol!End
<1> QED BY <1>1, <1>2, <1>3

\* Writing turn/start asks for the turn of the lease in hand.
LEMMA TurnAsked ==
  ASSUME IInv, GrantInv, Next, NEW t \in Steps, TurnRequested(t)
  PROVE  Protocol!AskTurn(t)
<1>a. TypeOK /\ TurnInv /\ StepsInv /\ MainInv BY DEF IInv
<1>1. ~Over(t) BY DEF TurnRequested, Over
<1>2. t = step /\ lease[t] \notin Settlements BY <1>1, CurrentTurn
<1>3. lease[t] \in {"held", "expired"}
  BY <1>a, <1>2 DEF GrantInv, TurnUnderLease, TurnRequested, TypeOK
<1>4. \A s \in Steps : s > t => lease[s] = "none" BY <1>a, <1>2 DEF StepsInv
<1>5. ASSUME NEW s \in Steps, Unrenewed(s) PROVE FALSE
  <2>1. Over(s) => s = step BY <1>5 DEF Unrenewed, Over
  <2>2. s = t BY <1>2, <2>1, CurrentTurn
  <2>3. ~started[t] /\ result[t] = "none" /\ turn[t] = "none"
    BY <1>a DEF TurnInv, TurnRequested
  <2> QED BY <1>5, <1>a, <1>2, <2>2, <2>3 DEF Unrenewed, TurnRequested, MainInv,
      AfterStart, Alive, Exits
<1>6. DriverState = "working" BY <1>5, DriverStates DEF TurnRequested
<1>7. DriverState' = "working"
  <2>1. \A s \in Steps : ~Unrenewed(s)'
    BY <1>5, <1>a DEF Unrenewed, TurnRequested, mainVars, step, TypeOK
  <2> QED BY <2>1, DriverStatesNext DEF TurnRequested, Alive, mainVars
<1>8. turn[t] = "none" BY <1>a DEF TurnInv, TurnRequested
<1> QED BY <1>3, <1>4, <1>6, <1>7, <1>8 DEF Protocol!AskTurn, TurnRequested, serviceVars,
    Protocol!Steps, Steps

\* A granted claim is the protocol's Grant, even when it was given up.
LEMMA Granting ==
  ASSUME IInv, NEW s \in Steps, s = step, Untouched(s), lease[s] = "none",
         pc \notin {"interruptUnrenewed", "unrenewed"},
         lease' = [lease EXCEPT ![s] = "held"], UNCHANGED <<mainVars, turnVars, turn>>
  PROVE  Protocol!Grant(s)
<1>a. StepsInv BY DEF IInv
<1>1. ASSUME NEW t \in Steps, Unrenewed(t) PROVE FALSE
  <2>1. Over(t) => t = s BY <1>1 DEF Unrenewed, Over
  <2>2. t = s BY <2>1, CurrentTurn
  <2> QED BY <1>1, <2>2 DEF Unrenewed, Untouched
<1>2. DriverState # "unrenewed" BY <1>1, DriverStates
<1>3. DriverState' = DriverState BY DriverSame DEF mainVars, turnVars
<1>4. /\ \A t \in Steps : t < s => lease[t] \in {"none"} \cup Settlements
      /\ \A t \in Steps : t > s => lease[t] = "none"
  BY <1>a DEF StepsInv
<1> QED BY <1>2, <1>3, <1>4 DEF Protocol!Grant, Protocol!Steps, Steps, Untouched,
    Protocol!Settlements, Protocol!NackCodes, Settlements, NackCodes

\* A justified settlement that arrives is the protocol's Settle.
LEMMA Settling ==
  ASSUME IInv, NEW s \in Steps, s = step, NEW op \in Settlements, Justified(op, s),
         pc \notin {"interruptUnrenewed", "unrenewed"}, lease[s] = "held",
         lease' = [lease EXCEPT ![s] = op], UNCHANGED <<mainVars, turnVars, turn>>
  PROVE  Protocol!Settle(s)
<1>1. ASSUME NEW t \in Steps, Unrenewed(t) PROVE FALSE
  <2>1. Over(t) => t = s BY <1>1 DEF Unrenewed, Over
  <2>2. t = s BY <2>1, CurrentTurn
  <2> QED BY <1>1, <2>2 DEF Unrenewed, Justified, Over
<1>2. DriverState # "unrenewed" BY <1>1, DriverStates
<1>3. DriverState' = DriverState BY DriverSame DEF mainVars, turnVars
<1>4. Protocol!Truthful(op, s) BY DEF Protocol!Truthful, Justified, Untouched
<1> QED BY <1>2, <1>3, <1>4 DEF Protocol!Settle, Protocol!Settlements, Protocol!NackCodes,
    Settlements, NackCodes

\* A request that reaches the service settles the lease of the step, or is no news.
LEMMA Applying ==
  ASSUME IInv, GrantInv, Next, NEW r, Apply(r), r.step = step, step \in Steps,
         r.op \in Settlements => Justified(r.op, step)
                                 /\ pc \notin {"interruptUnrenewed", "unrenewed"},
         UNCHANGED <<mainVars, turnVars, turn>>
  PROVE  [Protocol!Next]_(Protocol!vars)
<1>1. CASE r.op \in Settlements
  <2> DEFINE op == r.op
  <2>1. lease[step] = "held" /\ lease' = [lease EXCEPT ![step] = op]
    BY <1>1, Words DEF Apply
  <2>2. Protocol!Settle(step) BY <1>1, <2>1, Settling
  <2> QED BY <2>2 DEF Protocol!Next, Protocol!Steps, Steps
<1>2. CASE r.op \notin Settlements
  <2>1. lease' = lease BY <1>2 DEF Apply
  <2> QED BY <2>1, DriverMoves
<1> QED BY <1>1, <1>2

\* interruptActiveTurn ends a turn of an unsettled lease, along with the driver or not.
LEMMA InterruptMoves ==
  ASSUME IInv, GrantInv, Next, InterruptActiveTurn, counts.turn # 0 => counts.turn = step,
         step \in Steps, lease[step] \in {"held", "expired"}, UNCHANGED lease,
         DriverState' = DriverState \/ (DriverState = "working" /\ DriverState' = "ended")
  PROVE  [Protocol!Next]_(Protocol!vars)
<1>1. CASE turn' = turn BY <1>1, DriverMoves
<1>2. CASE turn' # turn
  <2>1. /\ turn[step] = "running" /\ turn' = [turn EXCEPT ![step] = "interrupted"]
    BY <1>2 DEF InterruptActiveTurn, appVars
  <2>2. CASE DriverState' = DriverState
    <3>1. Protocol!EndTurn(step) BY <2>1, <2>2 DEF Protocol!EndTurn, Protocol!TurnStatuses
    <3> QED BY <3>1 DEF Protocol!Next, Protocol!Steps, Steps
  <2>3. CASE DriverState = "working" /\ DriverState' = "ended"
    <3>1. Protocol!End BY <2>1, <2>3 DEF Protocol!End, Protocol!Steps, Steps
    <3> QED BY <3>1 DEF Protocol!Next
  <2> QED BY <2>2, <2>3
<1> QED BY <1>1, <1>2

\* Every step of the loop, the service and the app server is a step of the protocol, or
\* one it does not see.
LEMMA ProtocolStep ==
  ASSUME IInv, GrantInv, Next
  PROVE  [Protocol!Next]_(Protocol!vars)
<1>a. TypeOK /\ StepsInv /\ TurnInv /\ MainInv /\ CallInv /\ StrayInv /\ SettleInv
  BY DEF IInv
<1>b. Protocol!Steps = Steps BY DEF Protocol!Steps, Steps
<1>1. ASSUME NEW t \in Steps, TurnRequested(t) PROVE [Protocol!Next]_(Protocol!vars)
  <2>1. Protocol!AskTurn(t) BY <1>1, TurnAsked
  <2> QED BY <2>1, <1>b DEF Protocol!Next
<1>2. ASSUME NEW t \in Steps, InterruptedUnrenewed(t) PROVE [Protocol!Next]_(Protocol!vars)
  <2>1. ~Over(t) BY <1>2 DEF Over, InterruptedUnrenewed
  <2>2. t = step /\ lease[t] \notin Settlements /\ counts.turn = t
    BY <1>2, <1>a, <2>1, CurrentTurn DEF TurnInv, InterruptedUnrenewed
  <2>3. lease[t] \in {"held", "expired"}
    BY <1>2, <1>a, <2>2 DEF GrantInv, TurnUnderLease, InterruptedUnrenewed, TypeOK
  <2>4. Unrenewed(t) /\ Alive' BY <1>2 DEF Unrenewed, InterruptedUnrenewed, Alive, mainVars
  <2>5. DriverState' = DriverState BY <2>4, UnrenewedKept, DriverStates, DriverStatesNext
  <2> QED BY <1>2, <2>2, <2>3, <2>5, InterruptMoves DEF InterruptedUnrenewed, serviceVars
<1>3. CASE GiveUp
  <2>1. step \in Steps /\ started[step] /\ counts.turn = step /\ lease[step] \notin Settlements
    BY <1>3, <1>a DEF GiveUp, StepsInv, MainInv, TurnInv, SettleInv, InStep, AfterStart
  <2>2. lease[step] \in {"held", "expired"}
    BY <1>3, <1>a, <2>1 DEF GrantInv, TurnUnderLease, TypeOK, TurnInv
  <2>3. DriverState' = DriverState \/ (DriverState = "working" /\ DriverState' = "ended")
    <3>1. \A s \in Steps : Unrenewed(s)' <=> Unrenewed(s)
      BY <1>3 DEF GiveUp, Unrenewed, turnVars, step
    <3> QED BY <1>3, <3>1, DriverStates, DriverStatesNext DEF Alive, Exits, GiveUp
  <2> QED BY <1>3, <2>1, <2>2, <2>3, InterruptMoves DEF GiveUp, serviceVars
<1>4. CASE ServeClaim
  <2>1. step \in Steps /\ call[Main] # NoCall /\ pc \in {"claim", "extend", "settle",
      "killed"}
    BY <1>4, <1>a, MainCallIsCurrent, Words DEF ServeClaim, CallInv
  <2>2. Untouched(step) /\ lease[step] = "none" BY <1>4, <1>a, <2>1 DEF ServeClaim, CallInv
  <2>3. CASE lease' = [lease EXCEPT ![step] = "held"]
    <3>1. pc \notin {"interruptUnrenewed", "unrenewed"} BY <2>1
    <3>2. Protocol!Grant(step)
      BY <1>4, <2>1, <2>2, <2>3, <3>1, Granting DEF ServeClaim, appVars
    <3> QED BY <3>2, <1>b, <2>1 DEF Protocol!Next
  <2>4. CASE UNCHANGED <<lease, turn>> BY <2>4, DriverMoves
  <2> QED BY <1>4, <2>3, <2>4 DEF ServeClaim, serviceVars, appVars
<1>5. CASE ServeStray
  <2>1. PICK r \in stray :
          \/ Apply(r)
          \/ r.op = "claim" /\ lease' = [lease EXCEPT ![r.step] = "held"]
    BY <1>5 DEF ServeStray
  <2>2. r.step = step /\ step \in Steps
    BY <1>a DEF StrayInv, TypeOK, Calls
  <2>3. UNCHANGED <<mainVars, turnVars, turn>> BY <1>5 DEF ServeStray, appVars
  <2>4. CASE Apply(r)
    <3>1. r.op \in Settlements => Justified(r.op, step) /\ pc \notin InStep
      BY <1>a, <2>2 DEF SettleInv
    <3> QED BY <2>2, <2>3, <2>4, <3>1, Applying DEF InStep
  <2>5. CASE r.op = "claim" /\ lease' = [lease EXCEPT ![step] = "held"]
    <3>1. pc \in {"failed", "killed"} /\ lease[step] = "none" /\ Untouched(step)
      BY <2>2, <2>5 DEF GrantInv, ClaimGivenUp
    <3>2. pc \notin {"interruptUnrenewed", "unrenewed"} BY <3>1
    <3>3. Protocol!Grant(step) BY <2>2, <2>3, <2>5, <3>1, <3>2, Granting
    <3> QED BY <3>3, <1>b, <2>2 DEF Protocol!Next
  <2> QED BY <2>1, <2>2, <2>4, <2>5
<1>6. ASSUME NEW c \in Callers, Serve(c) PROVE [Protocol!Next]_(Protocol!vars)
  <2>1. call[c] # NoCall /\ Apply(call[c]) BY <1>6, Words DEF Serve
  <2>2. UNCHANGED <<mainVars, turnVars, turn>> BY <1>6 DEF Serve, appVars
  <2>3. CASE c = Main
    <3>1. call[Main].step = step /\ step \in Steps BY <2>1, <2>3, MainCallIsCurrent
    <3>2. call[Main].op \in Settlements => Justified(call[Main].op,
        step) /\ pc \notin InStep
      BY <1>a, <3>1 DEF SettleInv
    <3> QED BY <2>1, <2>2, <2>3, <3>1, <3>2, Applying DEF InStep
  <2>4. CASE c \in Steps
    <3>1. c = step /\ call[c].step = c /\ call[c].op \notin Settlements
      BY <2>1, <2>4, TurnCallIsCurrent, Words
    <3> QED BY <2>1, <2>2, <2>4, <3>1, Applying
  <2> QED BY <2>3, <2>4 DEF Callers, Main
<1>7. CASE ExpireLease
  <2>1. PICK s \in Steps : lease[s] = "held" /\ lease' = [lease EXCEPT ![s] = "expired"]
    BY <1>7 DEF ExpireLease
  <2>2. DriverState' = DriverState BY <1>7, DriverSame DEF ExpireLease, mainVars, turnVars
  <2>3. Protocol!Expire(s) BY <1>7, <2>1, <2>2 DEF Protocol!Expire, ExpireLease, appVars
  <2> QED BY <2>3, <1>b DEF Protocol!Next
<1>8. ASSUME NEW t \in Steps, AppStartsTurn(t) PROVE [Protocol!Next]_(Protocol!vars)
  <2>1. DriverState' = DriverState BY <1>8, DriverSame DEF AppStartsTurn, mainVars, turnVars
  <2>2. Protocol!RunTurn(t) BY <1>8, <2>1 DEF Protocol!RunTurn, AppStartsTurn, serviceVars
  <2> QED BY <2>2, <1>b DEF Protocol!Next
<1>9. ASSUME NEW t \in Steps, AppEndsTurn(t) PROVE [Protocol!Next]_(Protocol!vars)
  <2>1. DriverState' = DriverState BY <1>9, DriverSame DEF AppEndsTurn, mainVars, turnVars
  <2>2. Protocol!EndTurn(t)
    BY <1>9, <2>1 DEF Protocol!EndTurn, AppEndsTurn, serviceVars, Protocol!TurnStatuses,
        TurnStatuses
  <2> QED BY <2>2, <1>b DEF Protocol!Next
<1>10. CASE UNCHANGED <<lease, turn>> BY <1>10, DriverMoves
<1> QED
  BY <1>1, <1>2, <1>3, <1>4, <1>5, <1>6, <1>7, <1>8, <1>9, <1>10
  DEF Next, MainStep, TurnGoroutine, TurnStep, Environment, Terminated, vars, serviceVars,
      appVars, Loop, VerifyFailed, Claim, ClaimedNothing, Idle, Claimed, ThreadFailed,
      ThreadStarted, WaitForStart, RenewResult, RenewTick, RenewCancelled, Renewed,
      RenewFailed, CallFailed, Settled, TurnOpened, TurnStarted, FirstExtended,
      FirstExtendFailed, ReturnUnrenewed, TurnDone, TurnError, Cancel, Kill

\* The transmit loop implements LeaseProtocol: what the invocation service and the app
\* server may rely on holds for every number of steps, whatever fails or is cut off.
THEOREM ProtocolIsKept == Spec => KeepsProtocol
<1>1. Init => Protocol!Init
  <2> SUFFICES ASSUME Init PROVE Protocol!Init OBVIOUS
  <2>1. \A s \in Steps : s # step
    BY BoundsAssumption DEF Init, Steps, step
  <2>2. \A s \in Steps : ~Unrenewed(s)
    BY <2>1 DEF Init, Unrenewed
  <2>3. DriverState = "working" BY <2>2, DriverStates DEF Init, Alive, Exits
  <2> QED BY <2>3 DEF Init, Protocol!Init, Protocol!Steps, Steps
<1>2. IInv /\ GrantInv /\ [Next]_vars => [Protocol!Next]_(Protocol!vars)
  <2>1. ASSUME UNCHANGED vars PROVE UNCHANGED Protocol!vars
    BY <2>1, DriverSame DEF vars, mainVars, turnVars, serviceVars, appVars, Protocol!vars
  <2> QED BY <2>1, ProtocolStep
<1> QED BY <1>1, <1>2, Invariance, Grants, PTL DEF Spec, KeepsProtocol, Protocol!Spec

\* TurnPhase tells the points of the turn goroutine apart.
LEMMA Phases ==
  ASSUME TypeOK, NEW s \in Steps
  PROVE  /\ TurnPhase(s) = "begun" <=> tpc[s] \in {"none", "open", "write"}
         /\ TurnPhase(s) = "asked" <=> tpc[s] = "decode"
         /\ TurnPhase(s) = "started" <=> tpc[s] \in {"extend", "interrupt", "returning"}
         /\ TurnPhase(s) = "waiting" <=> tpc[s] = "completion"
         /\ TurnPhase(s) = "over" <=> tpc[s] = "returned"
<1>1. tpc[s] \in TurnPoints BY DEF TypeOK
<1> QED BY <1>1 DEF TurnPhase, TurnPoints

\* Every step is a step of the call contract of every step's turn, or leaves it alone.
LEMMA CallMoves ==
  ASSUME IInv, Next, TypeOK', NEW s \in Steps
  PROVE  [TurnContract(s)!Next]_(TurnContract(s)!vars)
<1>a. TypeOK /\ TurnInv BY DEF IInv
<1>b. /\ TurnPhase(s)' = "begun" <=> tpc'[s] \in {"none", "open", "write"}
      /\ TurnPhase(s)' = "asked" <=> tpc'[s] = "decode"
      /\ TurnPhase(s)' = "started" <=> tpc'[s] \in {"extend", "interrupt", "returning"}
      /\ TurnPhase(s)' = "waiting" <=> tpc'[s] = "completion"
      /\ TurnPhase(s)' = "over" <=> tpc'[s] = "returned"
  <2>1. tpc'[s] \in TurnPoints BY DEF TypeOK
  <2> QED BY <2>1 DEF TurnPhase, TurnPoints
<1>c. tpc'[s] = tpc[s] => TurnPhase(s)' = TurnPhase(s) BY DEF TurnPhase
<1>d. result'[s] = result[s] => TurnResult(s)' = TurnResult(s) BY DEF TurnResult
<1>e. /\ tpc \in [Steps -> TurnPoints] /\ result \in [Steps -> Results \cup {"none"}]
      /\ turn \in [Steps -> {"none", "requested", "running"} \cup TurnStatuses]
  BY <1>a DEF TypeOK
<1>f. /\ TurnPhase(s) = "begun" <=> tpc[s] \in {"none", "open", "write"}
      /\ TurnPhase(s) = "asked" <=> tpc[s] = "decode"
      /\ TurnPhase(s) = "started" <=> tpc[s] \in {"extend", "interrupt", "returning"}
      /\ TurnPhase(s) = "waiting" <=> tpc[s] = "completion"
      /\ TurnPhase(s) = "over" <=> tpc[s] = "returned"
  BY <1>a, Phases
<1> USE DEF turnVars, appVars, mainVars, httpVars, serviceVars
<1>1. CASE TurnRequested(s)
  <2>1. TurnContract(s)!Ask
    BY <1>1, <1>a, <1>b, <1>d, <1>e, <1>f DEF TurnRequested, TurnContract!Ask, TurnInv
  <2> QED BY <2>1 DEF TurnContract!Next
<1>2. CASE TurnStarted(s)
  <2>1. TurnContract(s)!Hear
    BY <1>2, <1>b, <1>d, <1>e, <1>f DEF TurnStarted, TurnContract!Hear,
        TurnContract!Ended, TurnStatuses
  <2> QED BY <2>1 DEF TurnContract!Next
<1>3. CASE FirstExtended(s)
  <2>1. TurnContract(s)!Proceed
    BY <1>3, <1>b, <1>d, <1>e, <1>f DEF FirstExtended, TurnContract!Proceed
  <2> QED BY <2>1 DEF TurnContract!Next
<1>4. CASE TurnDone(s)
  <2>1. TurnResult(s)' = turn[s] BY <1>4, <1>e DEF TurnDone, TurnResult, TurnStatuses
  <2>2. TurnContract(s)!Return
    BY <1>4, <1>b, <1>e, <1>f, <2>1 DEF TurnDone, TurnContract!Return, TurnContract!Ended,
        TurnStatuses
  <2> QED BY <2>2 DEF TurnContract!Next
<1>5. CASE ReturnUnrenewed(s) \/ TurnError(s)
  <2>1. TurnResult(s)' = "error" BY <1>5, <1>e DEF ReturnUnrenewed, TurnError, TurnResult
  <2>2. TurnContract(s)!Fail
    BY <1>5, <1>b, <1>e, <1>f, <2>1 DEF ReturnUnrenewed, TurnError, TurnContract!Fail
  <2> QED BY <2>2 DEF TurnContract!Next
<1>6. CASE TurnOpened(s) \/ FirstExtendFailed(s)
  <2>1. TurnPhase(s)' = TurnPhase(s)
    BY <1>6, <1>e DEF TurnOpened, FirstExtendFailed, TurnPhase
  <2> QED BY <1>6, <1>d, <2>1 DEF TurnOpened, FirstExtendFailed, TurnContract!vars
<1>7. ASSUME InterruptActiveTurn, TurnPhase(s)' = TurnPhase(s), result'[s] = result[s]
      PROVE  [TurnContract(s)!Next]_(TurnContract(s)!vars)
  <2>1. CASE turn'[s] = turn[s] BY <1>7, <1>d, <2>1 DEF TurnContract!vars
  <2>2. CASE turn'[s] # turn[s]
    <3>1. turn[s] = "running" /\ turn'[s] = "interrupted"
      BY <1>7, <1>e, <2>2 DEF InterruptActiveTurn
    <3>2. TurnContract(s)!Progress
      BY <1>7, <1>d, <3>1 DEF TurnContract!Progress, TurnContract!Ended
    <3> QED BY <3>2 DEF TurnContract!Next
  <2> QED BY <2>1, <2>2
<1>8. CASE InterruptedUnrenewed(s)
  <2>1. TurnPhase(s)' = TurnPhase(s)
    BY <1>8, <1>e DEF InterruptedUnrenewed, TurnPhase
  <2> QED BY <1>7, <1>8, <2>1 DEF InterruptedUnrenewed
<1>9. ASSUME NEW t \in Steps, InterruptedUnrenewed(t), t # s
      PROVE  [TurnContract(s)!Next]_(TurnContract(s)!vars)
  <2>1. tpc'[s] = tpc[s] /\ result'[s] = result[s] BY <1>9, <1>e DEF InterruptedUnrenewed
  <2> QED BY <1>7, <1>9, <1>c, <2>1 DEF InterruptedUnrenewed
<1>10. CASE GiveUp BY <1>7, <1>10, <1>c DEF GiveUp
<1>11. CASE AppStartsTurn(s) \/ AppEndsTurn(s)
  <2>1. TurnContract(s)!Progress
    BY <1>11, <1>c, <1>d, <1>e
    DEF AppStartsTurn, AppEndsTurn, TurnContract!Progress, TurnContract!Ended, TurnStatuses
  <2> QED BY <2>1 DEF TurnContract!Next
<1>12. CASE ThreadStarted
  <2>1. TurnPhase(s)' = TurnPhase(s)
    <3>1. s = step => tpc[s] = "none"
      BY <1>12 DEF ThreadStarted, IInv, MainInv, Untouched
    <3>2. s # step => tpc'[s] = tpc[s] BY <1>12, <1>e DEF ThreadStarted
    <3>3. s = step => tpc'[s] = "open" BY <1>12, <1>e DEF ThreadStarted
    <3> QED BY <3>1, <3>2, <3>3, <1>c DEF TurnPhase
  <2> QED BY <1>12, <1>d, <2>1 DEF ThreadStarted, TurnContract!vars
<1>13. ASSUME UNCHANGED <<tpc[s], result[s], turn[s]>>
       PROVE  [TurnContract(s)!Next]_(TurnContract(s)!vars)
  BY <1>13, <1>c, <1>d DEF TurnContract!vars
<1>14. ASSUME NEW t \in Steps, TurnStep(t) \/ TurnError(t), t # s, ~InterruptedUnrenewed(t)
       PROVE  [TurnContract(s)!Next]_(TurnContract(s)!vars)
  <2>1. UNCHANGED <<tpc[s], result[s], turn[s]>>
    BY <1>14, <1>e
    DEF TurnStep, TurnError, TurnOpened, TurnRequested, TurnStarted, FirstExtended,
        FirstExtendFailed, ReturnUnrenewed, TurnDone
  <2> QED BY <2>1, <1>13
<1>15. ASSUME NEW t \in Steps, AppStartsTurn(t) \/ AppEndsTurn(t), t # s
       PROVE  [TurnContract(s)!Next]_(TurnContract(s)!vars)
  <2>1. UNCHANGED <<tpc[s], result[s], turn[s]>>
    BY <1>15, <1>e DEF AppStartsTurn, AppEndsTurn
  <2> QED BY <2>1, <1>13
<1>16. CASE \/ MainStep /\ ~GiveUp /\ ~ThreadStarted
            \/ ServeClaim \/ ServeStray \/ ExpireLease \/ Cancel \/ Kill
            \/ \E c \in Callers : Serve(c)
            \/ Terminated
  <2>1. UNCHANGED <<tpc, result, turn>>
    BY <1>16
    DEF MainStep, Terminated, vars, Loop, VerifyFailed, Claim, ClaimedNothing, Idle,
        Claimed, ThreadFailed, WaitForStart, RenewResult, RenewTick, RenewCancelled,
        Renewed, RenewFailed, CallFailed, Settled, ServeClaim, ServeStray, ExpireLease,
        Cancel, Kill, Serve
  <2> QED BY <2>1, <1>13
<1>17. ASSUME TurnStep(s) \/ TurnError(s)
       PROVE  [TurnContract(s)!Next]_(TurnContract(s)!vars)
  BY <1>17, <1>1, <1>2, <1>3, <1>4, <1>5, <1>6, <1>8 DEF TurnStep
<1>18. ASSUME NEW t \in Steps, TurnStep(t) \/ TurnError(t)
       PROVE  [TurnContract(s)!Next]_(TurnContract(s)!vars)
  BY <1>18, <1>9, <1>14, <1>17
<1>19. ASSUME NEW t \in Steps, AppStartsTurn(t) \/ AppEndsTurn(t)
       PROVE  [TurnContract(s)!Next]_(TurnContract(s)!vars)
  BY <1>19, <1>11, <1>15
<1> QED
  BY <1>10, <1>12, <1>16, <1>18, <1>19 DEF Next, TurnGoroutine, Environment

\* What the loop expects of UnixClient.RunTurn is no more than TurnCall promises.
THEOREM CallsAreUsed == Spec => UsesTurnCall
<1> DEFINE Begun == \A s \in Steps : TurnContract(s)!Init
           Moves == \A s \in Steps : [TurnContract(s)!Next]_(TurnContract(s)!vars)
<1>1. Init => Begun
  <2> SUFFICES ASSUME Init, NEW s \in Steps PROVE TurnContract(s)!Init OBVIOUS
  <2>1. tpc[s] = "none" /\ result[s] = "none" /\ turn[s] = "none" BY DEF Init
  <2> QED BY <2>1 DEF TurnContract!Init, TurnPhase, TurnResult
<1>2. IInv /\ [Next]_vars => [Moves]_vars
  BY CallMoves, TypeOKPreserved
<1> HIDE DEF Begun, Moves
<1>3. Spec => Begun /\ [][Moves]_vars BY <1>1, <1>2, Invariance, PTL DEF Spec
<1> QED BY <1>3 DEF Begun, Moves, UsesTurnCall
=============================================================================
