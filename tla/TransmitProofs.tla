--------------------------- MODULE TransmitProofs ---------------------------
(***************************************************************************)
(* The safety of the transmit loop for every number of steps, extensions,  *)
(* clock resolution, lease length and granted expiry.                      *)
(*                                                                         *)
(* IInv is inductive: Init establishes it (InitIInv) and each of its parts *)
(* is kept by every step that starts in IInv (the ...Preserved lemmas, one *)
(* named step per action).  The safety properties follow from it.          *)
(***************************************************************************)
EXTENDS Transmit, TLAPS

-----------------------------------------------------------------------------
(* The types of what is sent, that every step keeps them, and what IInv    *)
(* says at the moments the proofs come back to.                            *)

\* Whatever the product of the lease wraps to, it is an integer; it is the lease, of a
\* second or more, when it fits.
LEMMA LeaseDurationTyped ==
  /\ LeaseDuration(LeaseSeconds) \in Int
  /\ Fits(LeaseSeconds) => LeaseDuration(LeaseSeconds) >= Second
<1>1. 2 * Half \in Nat \ {0} BY RangeAssumption
<1>2. LeaseSeconds * Second \in Nat /\ LeaseSeconds * Second >= Second
  BY ClockAssumption, RangeAssumption
<1>3. (LeaseSeconds * Second) % (2 * Half) \in Nat BY <1>1, <1>2
<1>4. LeaseDuration(LeaseSeconds) \in Int
  BY <1>1, <1>3, RangeAssumption DEF LeaseDuration, Wrapped
<1>5. Fits(LeaseSeconds) => LeaseDuration(LeaseSeconds) >= Second BY <1>2 DEF Fits
<1> QED BY <1>4, <1>5

\* Expiries are integers, and naturals if the lease fits a time.Duration.
LEMMA TimesTyped ==
  /\ Nat \subseteq Times
  /\ \A t \in Times : t \in Int /\ (Fits(LeaseSeconds) => t \in Nat)
BY DEF Times

\* A request is a call that was sent, for the step and the operation it is made with.
LEMMA RequestTyped ==
  ASSUME NEW op \in Operations, NEW s \in Steps, NEW next \in Times
  PROVE  /\ Request(op, s, next) \in Calls
         /\ Request(op, s, next) # NoCall
         /\ Request(op, s, next).op = op
         /\ Request(op, s, next).step = s
         /\ Request(op, s, next).next = next
         /\ Request(op, s, next).st = "sent"
BY DEF Request, Calls, NoCall, Operations, Settlements, NackCodes

\* The expiry leaseRenewal.Extend asks for is never the zero time, if the lease fits.
LEMMA NextExpiresAtTyped ==
  ASSUME TypeOK, NEW s \in Steps
  PROVE  NextExpiresAt(s) \in Times /\ (Fits(LeaseSeconds) => NextExpiresAt(s) > 0)
<1>1. expiresAt[s] \in Times BY DEF TypeOK
<1>2. CASE Fits(LeaseSeconds)
  <2>1. expiresAt[s] \in Nat BY <1>1, <1>2, TimesTyped
  <2>2. LeaseDuration(LeaseSeconds) \in Int /\ LeaseDuration(LeaseSeconds) > 0
    BY <1>2, LeaseDurationTyped, RangeAssumption
  <2>3. NextExpiresAt(s) \in Nat /\ NextExpiresAt(s) > 0 BY <2>1, <2>2 DEF NextExpiresAt
  <2> QED BY <2>3, TimesTyped
<1>3. CASE ~Fits(LeaseSeconds)
  <2>1. expiresAt[s] \in Int BY <1>1, TimesTyped
  <2>2. NextExpiresAt(s) \in Int BY <2>1, LeaseDurationTyped DEF NextExpiresAt
  <2> QED BY <1>3, <2>2 DEF Times
<1> QED BY <1>2, <1>3

\* Cutting off the fraction of a second (time.RFC3339) leaves a time.
LEMMA WholeSecondsTyped ==
  ASSUME NEW t \in Times
  PROVE  WholeSeconds(t) \in Times
<1>1. t \in Int /\ t % Second \in 0..(Second - 1) /\ t % Second \in Int
  BY TimesTyped, RangeAssumption
<1>2. WholeSeconds(t) \in Int BY <1>1 DEF WholeSeconds
<1>3. CASE t \in Nat
  <2>1. t % Second <= t BY <1>3, RangeAssumption
  <2> QED BY <1>1, <1>2, <2>1, TimesTyped DEF WholeSeconds
<1>4. CASE t \notin Nat BY <1>2, <1>4 DEF Times
<1> QED BY <1>3, <1>4

\* A caller that waits for an operation waits for one of Calls.
LEMMA CallTyped ==
  ASSUME TypeOK, NEW c \in Callers, call[c].op # "none"
  PROVE  call[c] \in Calls
BY DEF TypeOK, NoCall

\* Giving up a call keeps the types of the calls and of what is under way.
LEMMA AbandonTyped ==
  ASSUME TypeOK, NEW c \in Callers, Abandon(c)
  PROVE  /\ call' \in [Callers -> Calls \cup {NoCall}]
         /\ stray' \subseteq Calls
<1>1. call[c] \in Calls \cup {NoCall} BY DEF TypeOK
<1>2. call[c].st = "sent" => call[c] \in Calls BY <1>1 DEF NoCall
<1> QED BY <1>2 DEF TypeOK, Abandon

\* Sending an ack or a nack (Runner.ack, Runner.nack) keeps the types.
LEMMA SettleTyped ==
  ASSUME TypeOK, step \in Steps, NEW op \in Settlements, Settle(op)
  PROVE  /\ call' \in [Callers -> Calls \cup {NoCall}]
         /\ pc' \in MainPoints
<1>1. Request(op, step, 0) \in Calls BY RequestTyped, TimesTyped DEF Operations
<1> QED BY <1>1 DEF TypeOK, Settle, MainPoints, Exits

\* interruptActiveTurn keeps the types of the app server's state.
LEMMA InterruptTyped ==
  ASSUME TypeOK, InterruptActiveTurn
  PROVE  /\ turn' \in [Steps -> {"none", "requested", "running"} \cup TurnStatuses]
         /\ interrupts' \subseteq Steps
<1>1. counts.turn # 0 => counts.turn \in Steps BY BoundsAssumption DEF TypeOK, CountsType,
    Steps
<1> QED BY <1>1 DEF TypeOK, InterruptActiveTurn, TurnStatuses, appVars

\* Every step keeps the types; the call and its expiry are where the rest of the
\* invariant is needed (a claim is counted only while steps remain, extends ask for > 0).
LEMMA TypeOKPreserved ==
  ASSUME IInv, Next
  PROVE  TypeOK'
<1> USE DEF TypeOK
<1>a. TypeOK /\ StepsInv /\ CallInv /\ MainInv BY DEF IInv
<1>b. /\ Main \in Callers /\ Steps \subseteq Callers
      /\ \A s \in Steps : s \in 1..MaxSteps /\ s \in Nat
      /\ step \in 0..MaxSteps
  BY <1>a, BoundsAssumption DEF Main, Callers, Steps, CountsType, step
<1>c. pc \in InStep \cup {"settle", "idle"} => step \in Steps BY <1>a DEF StepsInv
<1>1. CASE Loop BY <1>1, <1>a DEF Loop, MainPoints, Exits, turnVars, httpVars, serviceVars,
    appVars
<1>2. CASE VerifyFailed
  BY <1>2, <1>a DEF VerifyFailed, MainPoints, Exits, turnVars, httpVars, serviceVars,
      appVars
<1>3. CASE Claim
  <2>1. step < MaxSteps /\ step + 1 \in Steps
    BY <1>3, <1>a, <1>b, BoundsAssumption DEF Claim, StepsInv, Steps
  <2>2. Request("claim", step + 1, 0) \in Calls
    BY <2>1, RequestTyped, TimesTyped DEF Operations
  <2>3. counts.claimAttempts + 1 \in 0..MaxSteps
    BY <1>a, <2>1, BoundsAssumption DEF Steps, step
  <2>4. counts' \in CountsType BY <1>3, <1>a, <2>3 DEF Claim, CountsType
  <2> QED BY <1>3, <1>a, <2>2, <2>4 DEF Claim, MainPoints, Exits, turnVars, serviceVars,
      appVars
<1>4. CASE ClaimedNothing
  <2>1. counts' \in CountsType BY <1>4, <1>a DEF ClaimedNothing, CountsType
  <2> QED BY <1>4, <1>a, <2>1 DEF ClaimedNothing, MainPoints, Exits, turnVars, serviceVars,
      appVars
<1>5. CASE Idle BY <1>5, <1>a DEF Idle, MainPoints, Exits, turnVars, httpVars, serviceVars,
    appVars
<1>6. CASE Claimed
  <2>1. step \in Steps /\ tpc[step] = "none"
    BY <1>6, <1>a, <1>c DEF Claimed, InStep, MainInv, Untouched
  <2>2. call[Main] \in Calls BY <1>6, <1>a, <1>b DEF Claimed, NoCall
  <2>3. call[Main].next \in Times BY <2>2 DEF Calls
  <2>4. Request("invalid_payload", step, 0) \in Calls
    BY <2>1, RequestTyped, TimesTyped DEF Operations, Settlements, NackCodes
  <2>5. call' \in [Callers -> Calls \cup {NoCall}] BY <1>6, <1>a, <2>4 DEF Claimed
  <2>6. expiresAt' \in [Steps -> Times] BY <1>6, <1>a, <2>3 DEF Claimed
  <2>7. Fits(LeaseSeconds) => \A s \in Steps : tpc'[s] # "none" => expiresAt'[s] > 0
    BY <1>6, <1>a, <2>1 DEF Claimed, turnVars
  <2> QED BY <1>6, <1>a, <2>5, <2>6, <2>7 DEF Claimed, MainPoints, Exits, turnVars,
      serviceVars, appVars
<1>7. CASE ThreadFailed
  <2>1. step \in Steps BY <1>7, <1>c DEF ThreadFailed, InStep
  <2>2. call' \in [Callers -> Calls \cup {NoCall}] /\ pc' \in MainPoints
    BY <1>7, <1>a, <2>1, SettleTyped DEF ThreadFailed, Settlements, NackCodes
  <2> QED BY <1>7, <1>a, <2>2 DEF ThreadFailed, turnVars, serviceVars, appVars
<1>8. CASE ThreadStarted
  <2>1. expiresAt' \in [Steps -> Times]
    BY <1>8, <1>a, ClockAssumption, TimesTyped DEF ThreadStarted
  <2>2. tpc' \in [Steps -> TurnPoints] BY <1>8, <1>a DEF ThreadStarted, TurnPoints
  <2>3. Fits(LeaseSeconds) => \A s \in Steps : tpc'[s] # "none" => expiresAt'[s] > 0
    BY <1>8, <1>a, ClockAssumption, TimesTyped DEF ThreadStarted
  <2> QED BY <1>8, <1>a, <2>1, <2>2, <2>3 DEF ThreadStarted, MainPoints, Exits, httpVars,
      serviceVars, appVars
<1>9. ASSUME step \in Steps, NEW r \in Results, TurnReturned(r)
      PROVE  call' \in [Callers -> Calls \cup {NoCall}] /\ pc' \in MainPoints
  BY <1>9, <1>a, SettleTyped DEF TurnReturned, Settlements, NackCodes, MainPoints, Exits
<1>10. CASE WaitForStart
  <2>1. step \in Steps BY <1>10, <1>c DEF WaitForStart, InStep
  <2>2. call' \in [Callers -> Calls \cup {NoCall}] /\ pc' \in MainPoints
    BY <1>9, <1>10, <1>a, <2>1 DEF WaitForStart, Results, MainPoints
  <2> QED BY <1>10, <1>a, <2>2 DEF WaitForStart, turnVars, serviceVars, appVars
<1>11. CASE RenewResult
  <2>1. step \in Steps BY <1>11, <1>c DEF RenewResult, InStep
  <2>2. call' \in [Callers -> Calls \cup {NoCall}] /\ pc' \in MainPoints
    BY <1>9, <1>11, <1>a, <2>1 DEF RenewResult
  <2> QED BY <1>11, <1>a, <2>2 DEF RenewResult, turnVars, serviceVars, appVars
<1>12. CASE RenewTick
  <2>1. step \in Steps BY <1>12, <1>c DEF RenewTick, InStep
  <2>2. Request("extend", step, NextExpiresAt(step)) \in Calls
    BY <2>1, <1>a, NextExpiresAtTyped, RequestTyped DEF Operations
  <2> QED BY <1>12, <1>a, <2>2 DEF RenewTick, MainPoints, Exits, turnVars, serviceVars,
      appVars
<1>13. CASE RenewCancelled
  BY <1>13, <1>a DEF RenewCancelled, MainPoints, Exits, turnVars, httpVars, serviceVars,
      appVars
<1>14. CASE Renewed
  <2>1. call[Main].op = "extend" /\ (Fits(LeaseSeconds) => call[Main].next > 0)
    BY <1>14, <1>a, <1>b DEF Renewed, CallInv
  <2>2. call[Main].next \in Times BY <2>1, <1>a, <1>b, CallTyped DEF Calls
  <2>3. counts' \in CountsType BY <1>14, <1>a DEF Renewed, CountsType
  <2>4. /\ expiresAt' \in [Steps -> Times]
        /\ Fits(LeaseSeconds) => \A s \in Steps : tpc'[s] # "none" => expiresAt'[s] > 0
    BY <1>14, <1>a, <2>1, <2>2 DEF Renewed, turnVars
  <2> QED BY <1>14, <1>a, <2>3, <2>4 DEF Renewed, MainPoints, Exits, turnVars, serviceVars,
      appVars
<1>15. CASE RenewFailed
  BY <1>15, <1>a, <1>b, AbandonTyped DEF RenewFailed, MainPoints, Exits, turnVars,
      serviceVars, appVars
<1>16. CASE GiveUp
  BY <1>16, <1>a, InterruptTyped DEF GiveUp, MainPoints, Exits, turnVars, httpVars,
      serviceVars
<1>17. CASE Settled
  <2>1. counts' \in CountsType BY <1>17, <1>a DEF Settled, CountsType
  <2> QED BY <1>17, <1>a, <2>1 DEF Settled, MainPoints, Exits, turnVars, serviceVars,
      appVars
<1>18. CASE CallFailed
  BY <1>18, <1>a, <1>b, AbandonTyped DEF CallFailed, MainPoints, Exits, turnVars,
      serviceVars, appVars
<1>19. ASSUME NEW t \in Steps, TurnOpened(t) PROVE TypeOK'
  <2>1. tpc' \in [Steps -> TurnPoints] BY <1>19, <1>a DEF TurnOpened, TurnPoints
  <2> QED BY <1>19, <1>a, <2>1 DEF TurnOpened, mainVars, httpVars, serviceVars, appVars
<1>20. ASSUME NEW t \in Steps, TurnRequested(t) PROVE TypeOK'
  <2>1. tpc' \in [Steps -> TurnPoints] BY <1>20, <1>a DEF TurnRequested, TurnPoints
  <2> QED BY <1>20, <1>a, <2>1 DEF TurnRequested, mainVars, httpVars, serviceVars
<1>21. ASSUME NEW t \in Steps, TurnStarted(t) PROVE TypeOK'
  <2>1. tpc' \in [Steps -> TurnPoints] BY <1>21, <1>a DEF TurnStarted, TurnPoints
  <2>2. counts' \in CountsType BY <1>21, <1>a, <1>b DEF TurnStarted, CountsType, Steps
  <2>3. Request("extend", t, NextExpiresAt(t)) \in Calls
    BY <1>a, NextExpiresAtTyped, RequestTyped DEF Operations
  <2>4. call' \in [Callers -> Calls \cup {NoCall}] BY <1>21, <1>a, <2>3 DEF TurnStarted
  <2>5. Fits(LeaseSeconds) => \A s \in Steps : tpc'[s] # "none" => expiresAt'[s] > 0
    BY <1>21, <1>a DEF TurnStarted
  <2> QED BY <1>21, <1>a, <2>1, <2>2, <2>4, <2>5 DEF TurnStarted, serviceVars, appVars
<1>22. ASSUME NEW t \in Steps, FirstExtended(t) PROVE TypeOK'
  <2>1. call[t] # NoCall BY <1>22 DEF FirstExtended, NoCall
  <2>2. /\ call[t].op = "extend" /\ call[t] \in Calls
        /\ Fits(LeaseSeconds) => call[t].next > 0
    BY <2>1, <1>a, <1>b DEF CallInv
  <2>3. call[t].next \in Times BY <2>2 DEF Calls
  <2>4. counts' \in CountsType BY <1>22, <1>a DEF FirstExtended, CountsType
  <2>5. /\ expiresAt' \in [Steps -> Times]
        /\ Fits(LeaseSeconds) => \A s \in Steps : tpc'[s] # "none" => expiresAt'[s] > 0
    BY <1>22, <1>a, <2>2, <2>3 DEF FirstExtended
  <2>6. tpc' \in [Steps -> TurnPoints] BY <1>22, <1>a DEF FirstExtended, TurnPoints
  <2> QED BY <1>22, <1>a, <2>4, <2>5, <2>6 DEF FirstExtended, serviceVars, appVars
<1>23. ASSUME NEW t \in Steps, FirstExtendFailed(t) PROVE TypeOK'
  <2>1. tpc' \in [Steps -> TurnPoints] BY <1>23, <1>a DEF FirstExtendFailed, TurnPoints
  <2> QED BY <1>23, <1>a, <1>b, <2>1, AbandonTyped DEF FirstExtendFailed, mainVars,
      serviceVars, appVars
<1>24. ASSUME NEW t \in Steps, InterruptedUnrenewed(t) PROVE TypeOK'
  <2>1. tpc' \in [Steps -> TurnPoints] BY <1>24, <1>a DEF InterruptedUnrenewed, TurnPoints
  <2> QED BY <1>24, <1>a, <2>1, InterruptTyped DEF InterruptedUnrenewed, mainVars,
      httpVars, serviceVars
<1>25. ASSUME NEW t \in Steps, ReturnUnrenewed(t) PROVE TypeOK'
  <2>1. tpc' \in [Steps -> TurnPoints] /\ result' \in [Steps -> Results \cup {"none"}]
    BY <1>25, <1>a DEF ReturnUnrenewed, TurnPoints, Results
  <2> QED BY <1>25, <1>a, <2>1 DEF ReturnUnrenewed, mainVars, httpVars, serviceVars, appVars
<1>26. ASSUME NEW t \in Steps, TurnDone(t) PROVE TypeOK'
  <2>1. tpc' \in [Steps -> TurnPoints] /\ result' \in [Steps -> Results \cup {"none"}]
    BY <1>26, <1>a DEF TurnDone, TurnPoints, Results
  <2> QED BY <1>26, <1>a, <2>1 DEF TurnDone, mainVars, httpVars, serviceVars, appVars
<1>27. ASSUME NEW t \in Steps, TurnError(t) PROVE TypeOK'
  <2>1. tpc' \in [Steps -> TurnPoints] /\ result' \in [Steps -> Results \cup {"none"}]
    BY <1>27, <1>a DEF TurnError, TurnPoints, Results
  <2> QED BY <1>27, <1>a, <2>1 DEF TurnError, mainVars, httpVars, serviceVars, appVars
<1>28. CASE ServeClaim
  <2>0. /\ call[Main].st = "sent"
        /\ \/ call' = [call EXCEPT ![Main] = [@ EXCEPT !.st = "empty"]]
           \/ \E e \in ClaimExpiries :
                call' = [call EXCEPT ![Main] = [@ EXCEPT !.st = "ok", !.next = e]]
    BY <1>28, Zenon DEF ServeClaim
  <2>1. call[Main] \in Calls
    <3>1. call[Main] \in Calls \cup {NoCall} BY <1>a, <1>b
    <3>2. call[Main].st = "sent" BY <2>0
    <3> QED BY <3>1, <3>2 DEF NoCall
  <2>2. [call[Main] EXCEPT !.st = "empty"] \in Calls BY <2>1 DEF Calls
  <2>3. \A e \in ClaimExpiries :
           e \in Times /\ [call[Main] EXCEPT !.st = "ok", !.next = e] \in Calls
    BY <2>1, ClockAssumption, TimesTyped DEF Calls
  <2>4. call' \in [Callers -> Calls \cup {NoCall}]
    <3>1. PICK x \in Calls : call' = [call EXCEPT ![Main] = x] BY <2>0, <2>2, <2>3
    <3>2. call \in [Callers -> Calls \cup {NoCall}] BY <1>a
    <3> QED BY <3>1, <3>2
  <2>5. lease' \in [Steps -> {"none", "held", "expired"} \cup Settlements]
        /\ leaseExpiry' \in [Steps -> Times]
    BY <1>28, <1>a, <2>3 DEF ServeClaim, serviceVars
  <2> QED BY <1>28, <1>a, <2>4, <2>5 DEF ServeClaim, mainVars, turnVars, appVars
<1>29. ASSUME NEW r \in Calls, Apply(r)
       PROVE  /\ lease' \in [Steps -> {"none", "held", "expired"} \cup Settlements]
              /\ leaseExpiry' \in [Steps -> Times]
  <2>1. WholeSeconds(r.next) \in Times BY WholeSecondsTyped DEF Calls
  <2> QED BY <1>29, <1>a, <2>1 DEF Apply
<1>30. ASSUME NEW c \in Callers, Serve(c) PROVE TypeOK'
  <2>1. call[c] \in Calls BY <1>30, <1>a DEF Serve, NoCall
  <2>2. [call[c] EXCEPT !.st = "ok"] \in Calls BY <2>1 DEF Calls
  <2>3. call' \in [Callers -> Calls \cup {NoCall}] BY <1>30, <1>a, <2>2 DEF Serve
  <2> QED BY <1>29, <1>30, <1>a, <2>1, <2>3 DEF Serve, mainVars, turnVars, appVars
<1>31. CASE ServeStray
  <2>1. PICK r \in stray :
          /\ stray' = stray \ {r}
          /\ \/ Apply(r)
             \/ \E e \in ClaimExpiries :
                   /\ lease' = [lease EXCEPT ![r.step] = "held"]
                   /\ leaseExpiry' = [leaseExpiry EXCEPT ![r.step] = e]
          /\ UNCHANGED <<ctxDone, mainVars, turnVars, expiresAt, call, appVars>>
    BY <1>31 DEF ServeStray
  <2>2. r \in Calls BY <1>a
  <2>3. lease' \in [Steps -> {"none", "held", "expired"} \cup Settlements]
        /\ leaseExpiry' \in [Steps -> Times]
    BY <1>29, <1>a, <2>1, <2>2, ClockAssumption, TimesTyped
  <2> QED BY <1>a, <2>1, <2>3 DEF mainVars, turnVars, appVars
<1>32. CASE ExpireLease
  BY <1>32, <1>a DEF ExpireLease, mainVars, turnVars, httpVars, appVars
<1>33. CASE Cancel BY <1>33, <1>a DEF Cancel, mainVars, turnVars, httpVars, serviceVars,
    appVars
<1>34. CASE Kill
  BY <1>34, <1>a DEF Kill, MainPoints, Exits, turnVars, httpVars, serviceVars, appVars
<1>35. ASSUME NEW t \in Steps, AppStartsTurn(t) PROVE TypeOK'
  BY <1>35, <1>a DEF AppStartsTurn, mainVars, turnVars, httpVars, serviceVars
<1>36. ASSUME NEW t \in Steps, AppEndsTurn(t) PROVE TypeOK'
  BY <1>36, <1>a DEF AppEndsTurn, mainVars, turnVars, httpVars, serviceVars
<1>37. CASE Terminated
  BY <1>37, <1>a DEF Terminated, vars, mainVars, turnVars, httpVars, serviceVars, appVars
<1> QED
  BY <1>1, <1>2, <1>3, <1>4, <1>5, <1>6, <1>7, <1>8, <1>10, <1>11, <1>12, <1>13, <1>14,
     <1>15, <1>16, <1>17, <1>18, <1>19, <1>20, <1>21, <1>22, <1>23, <1>24, <1>25, <1>26,
     <1>27, <1>28, <1>30, <1>31, <1>32, <1>33, <1>34, <1>35, <1>36, <1>37
  DEF Next, MainStep, TurnGoroutine, TurnStep, Environment

\* A turn goroutine that is spawned and not over, or ended for its lease, is that of
\* the current step, and its lease was not settled.
LEMMA CurrentTurn ==
  ASSUME IInv, NEW t \in Steps, ~Over(t)
  PROVE  /\ t = step
         /\ pc \notin {"loop", "verify", "idle", "claim", "thread", "settle"}
         /\ lease[t] \notin Settlements
<1>1. t = step
  BY DEF IInv, TypeOK, CountsType, StepsInv, Steps, Over, Untouched, step
<1>2. pc \notin {"loop", "verify", "idle", "claim", "thread", "settle"}
  BY <1>1 DEF IInv, StepsInv, MainInv, Over, Untouched, BetweenSteps
<1>3. lease[t] \notin Settlements BY DEF IInv, SettleInv, Justified
<1> QED BY <1>1, <1>2, <1>3

\* Nothing is under way without its caller at these points of Step.
LEMMA NothingStray ==
  ASSUME IInv, pc \in {"loop", "verify", "idle", "claim", "thread", "settle"}
  PROVE  stray = {}
<1>1. Alive BY DEF Alive, Exits
<1>2. \A s \in Steps : ~Unrenewed(s) BY CurrentTurn DEF Unrenewed, Over
<1> QED BY <1>1, <1>2 DEF IInv, StrayInv

\* Steps, the step count and the callers, as numbers.
LEMMA StepTyped ==
  ASSUME TypeOK
  PROVE  /\ step \in Nat /\ step <= MaxSteps
         /\ \A s \in Steps : s \in Nat /\ s > 0 /\ s <= MaxSteps
         /\ Main \in Callers /\ Main \notin Steps /\ Steps \subseteq Callers
BY BoundsAssumption DEF TypeOK, CountsType, Steps, step, Main, Callers

\* The names of operations, lease states and settlements are apart.
LEMMA Words ==
  /\ "ack" \in Settlements /\ NackCodes \subseteq Settlements /\ Settlements \subseteq Operations
  /\ {"claim", "extend"} \subseteq Operations
  /\ \A w \in {"none", "held", "expired", "claim", "extend"} : w \notin Settlements
  /\ NoCall.op = "none" /\ NoCall.st = "none"
BY DEF Settlements, NackCodes, Operations, NoCall

\* A request of the main goroutine changes its own call only.
LEMMA MainSends ==
  ASSUME TypeOK, NEW op \in Operations, NEW s \in Steps, NEW next \in Times,
         call' = [call EXCEPT ![Main] = Request(op, s, next)]
  PROVE  /\ call'[Main] # NoCall
         /\ call'[Main].op = op /\ call'[Main].step = s
         /\ call'[Main].next = next /\ call'[Main].st = "sent"
         /\ \A c \in Steps : call'[c] = call[c]
<1>1. call \in [Callers -> Calls \cup {NoCall}] BY DEF TypeOK
<1>2. call'[Main] = Request(op, s, next) BY <1>1, StepTyped
<1>3. \A c \in Steps : call'[c] = call[c] BY <1>1, StepTyped
<1> QED BY <1>2, <1>3, RequestTyped

\* So does dropping its call.
LEMMA MainForgets ==
  ASSUME TypeOK, call' = [call EXCEPT ![Main] = NoCall]
  PROVE  /\ call'[Main] = NoCall
         /\ \A c \in Steps : call'[c] = call[c]
BY StepTyped DEF TypeOK

\* A call is one of Calls with a known operation, or NoCall.
LEMMA CallerTyped ==
  ASSUME TypeOK, NEW c \in Callers
  PROVE  /\ call[c] # NoCall => call[c] \in Calls /\ call[c].step \in Steps
                                /\ call[c].op \in Operations /\ call[c].op # "none"
                                /\ call[c].st \in {"sent", "ok", "empty"}
         /\ call[c] = NoCall => call[c].op = "none" /\ call[c].st = "none"
<1>1. call[c] \in Calls \cup {NoCall} BY DEF TypeOK
<1>2. "none" \notin Operations BY DEF Operations, Settlements, NackCodes
<1> QED BY <1>1, <1>2 DEF Calls, NoCall

\* The main goroutine's call is about the current step, and it is within that step.
LEMMA MainCallIsCurrent ==
  ASSUME IInv, call[Main] # NoCall
  PROVE  /\ call[Main] \in Calls
         /\ step \in Steps /\ call[Main].step = step
         /\ pc \notin BetweenSteps
<1>1. TypeOK /\ CallInv BY DEF IInv
<1> QED BY <1>1, StepTyped, CallerTyped DEF CallInv, BetweenSteps

\* A turn goroutine in a call is that of the current step, and alone in its call.
LEMMA TurnCallIsCurrent ==
  ASSUME IInv, NEW t \in Steps, call[t] # NoCall
  PROVE  /\ t = step /\ call[t].op = "extend" /\ call[t].step = t
         /\ tpc[t] = "extend" /\ ~Over(t) /\ ~started[t]
         /\ call[Main] = NoCall
<1>1. TypeOK /\ CallInv /\ TurnInv /\ SettleInv BY DEF IInv
<1>2. tpc[t] = "extend" /\ call[t].op = "extend" /\ call[t].step = t BY <1>1 DEF CallInv
<1>3. ~Over(t) /\ ~started[t] BY <1>1, <1>2 DEF TurnInv, Over
<1>4. t = step BY <1>3, CurrentTurn
<1>5. call[Main].op \notin Settlements BY <1>1, <1>3, <1>4 DEF SettleInv, Justified
<1>6. call[Main].op \notin {"claim", "extend"}
  BY <1>1, <1>2, <1>3, <1>4 DEF CallInv, Untouched
<1>7. call[Main] = NoCall
  BY <1>1, <1>5, <1>6, StepTyped, CallerTyped DEF Operations
<1> QED BY <1>2, <1>3, <1>4, <1>7

\* Serving a request touches the lease of the current step only.
LEMMA OnlyCurrentServed ==
  ASSUME IInv, ServeClaim \/ ServeStray \/ (\E c \in Callers : Serve(c))
  PROVE  /\ pc \notin BetweenSteps
         /\ \A s \in Steps : s # step => lease'[s] = lease[s]
<1>a. TypeOK /\ CallInv /\ StrayInv BY DEF IInv
<1>1. CASE ServeClaim
  <2>1. call[Main] # NoCall BY <1>1, Words DEF ServeClaim
  <2> QED BY <1>1, <1>a, <2>1, MainCallIsCurrent DEF ServeClaim, serviceVars, TypeOK
<1>2. CASE ServeStray
  <2>1. pc \notin BetweenSteps BY <1>2, NothingStray DEF ServeStray, BetweenSteps
  <2>2. \A s \in Steps : s # step => lease'[s] = lease[s]
    BY <1>2, <1>a DEF ServeStray, Apply, StrayInv, TypeOK
  <2> QED BY <2>1, <2>2
<1>3. ASSUME NEW c \in Callers, Serve(c)
      PROVE  /\ pc \notin BetweenSteps
             /\ \A s \in Steps : s # step => lease'[s] = lease[s]
  <2>1. call[c] # NoCall /\ Apply(call[c]) BY <1>3, Words DEF Serve
  <2>2. c = Main \/ c \in Steps BY DEF Callers, Main
  <2>3. CASE c = Main BY <1>a, <2>1, <2>3, MainCallIsCurrent DEF Apply, TypeOK
  <2>4. CASE c \in Steps
    BY <1>a, <2>1, <2>4, TurnCallIsCurrent, CurrentTurn, Words DEF Apply, TypeOK,
        BetweenSteps
  <2> QED BY <2>2, <2>3, <2>4
<1> QED BY <1>1, <1>2, <1>3

\* Claim opens the next step, with no call and nothing under way.
LEMMA ClaimsNext ==
  ASSUME IInv, Claim
  PROVE  /\ step' = step + 1 /\ step' \in Steps
         /\ \A s \in Steps : /\ s < step' <=> s < step \/ s = step
                             /\ s > step' => s > step
                             /\ s = step' => s > step
         /\ stray = {} /\ call[Main] = NoCall
<1>a. TypeOK /\ StepsInv /\ CallInv BY DEF IInv
<1>1. step \in Nat /\ step < MaxSteps
  BY <1>a, StepTyped DEF Claim, StepsInv
<1>2. step' = step + 1 BY <1>a DEF Claim, step, TypeOK, CountsType
<1>3. step + 1 \in Steps BY <1>1, BoundsAssumption DEF Steps
<1>4. \A s \in Steps : s \in Nat BY <1>a, StepTyped
<1>5. stray = {} BY NothingStray DEF Claim
<1>6. call[Main] = NoCall BY <1>a DEF Claim, CallInv
<1> HIDE DEF step
<1> QED BY <1>1, <1>2, <1>3, <1>4, <1>5, <1>6

\* Nothing is under way when the main goroutine settles a turn that is over.
LEMMA NothingStrayOnceOver ==
  ASSUME IInv, pc \in {"claim", "thread", "waitStart", "renew"}, Over(step)
  PROVE  stray = {}
<1>1. Alive BY DEF Alive, Exits
<1>2. \A s \in Steps : ~Unrenewed(s) BY CurrentTurn DEF Unrenewed, Over
<1> QED BY <1>1, <1>2 DEF IInv, StrayInv

\* The main goroutine leaves the step without a request of its own.
LEMMA NotSettled ==
  ASSUME IInv, pc \in {"thread", "waitStart", "renew"}, pc' \in {"failed", "unrenewed"},
         UNCHANGED <<call, stray, counts, turnVars, serviceVars, turn>>
  PROVE  CallInv' /\ SettleInv'
<1>a. TypeOK /\ CallInv /\ SettleInv BY DEF IInv
<1>1. call[Main] = NoCall /\ call[Main].op = "none" BY <1>a, Words DEF CallInv
<1>2. step' = step BY DEF step
<1>3. /\ \A s \in Steps : Over(s)' = Over(s) /\ Untouched(s)' = Untouched(s)
      /\ \A s \in Steps, op \in Settlements : Justified(op, s)' = Justified(op, s)
  BY DEF turnVars, Over, Untouched, Justified
<1>4. CallInv' BY <1>a, <1>1, <1>2, <1>3, Words DEF CallInv, turnVars, serviceVars
<1>5. SettleInv'
  BY <1>a, <1>1, <1>2, <1>3, Words DEF SettleInv, serviceVars, InStep
<1> QED BY <1>4, <1>5

\* The main goroutine sends the settlement its step has earned.
LEMMA SettlementSent ==
  ASSUME IInv, NEW op \in Settlements, step \in Steps, Justified(op, step),
         pc \in {"claim", "thread", "waitStart", "renew"}, pc' = "settle",
         call' = [call EXCEPT ![Main] = Request(op, step, 0)],
         UNCHANGED <<stray, counts, turnVars, serviceVars, turn>>
  PROVE  CallInv' /\ SettleInv'
<1>a. TypeOK /\ CallInv /\ SettleInv BY DEF IInv
<1>1. /\ call'[Main] # NoCall /\ call'[Main].op = op /\ call'[Main].step = step
      /\ call'[Main].st = "sent" /\ \A c \in Steps : call'[c] = call[c]
  BY <1>a, Words, MainSends, TimesTyped
<1>2. step' = step BY DEF step
<1>3. /\ \A s \in Steps : Over(s)' = Over(s) /\ Untouched(s)' = Untouched(s)
      /\ \A s \in Steps, w \in Settlements : Justified(w, s)' = Justified(w, s)
  BY DEF turnVars, Over, Untouched, Justified
<1>4. stray = {} BY NothingStrayOnceOver DEF Justified
<1>5. op \notin {"claim", "extend"} BY Words
<1>6. \A c \in Callers : c = Main \/ c \in Steps BY DEF Callers, Main
<1>7. CallInv' BY <1>a, <1>1, <1>2, <1>3, <1>4, <1>5, <1>6 DEF CallInv, turnVars,
    serviceVars
<1>8. SettleInv'
  BY <1>a, <1>1, <1>2, <1>3, <1>4 DEF SettleInv, serviceVars, InStep
<1> QED BY <1>7, <1>8

\* Settle (Runner.ack, Runner.nack) keeps the two invariants about requests, provided
\* the settlement is justified whenever it is really sent.
LEMMA SettlePreserves ==
  ASSUME IInv, NEW op \in Settlements, Settle(op), step \in Steps,
         ctxDone \/ Justified(op, step), pc \in {"thread", "waitStart", "renew"},
         UNCHANGED <<stray, counts, turnVars, serviceVars, turn>>
  PROVE  CallInv' /\ SettleInv'
<1>1. CASE ctxDone BY <1>1, NotSettled DEF Settle
<1>2. CASE ~ctxDone BY <1>2, SettlementSent DEF Settle
<1> QED BY <1>1, <1>2

\* So does what transmitClaim makes of the outcome of the turn: each outcome justifies
\* the settlement it is mapped to.
LEMMA TurnReturnedPreserves ==
  ASSUME IInv, NEW r, TurnReturned(r), pc \in {"waitStart", "renew"},
         \/ r = result[step] /\ r # "none"
         \/ ctxDone /\ r = "appError",
         UNCHANGED <<stray, counts, turnVars, serviceVars, turn>>
  PROVE  CallInv' /\ SettleInv'
<1>a. TypeOK /\ TurnInv /\ step \in Steps BY DEF IInv, StepsInv, InStep
<1>1. r \in Results /\ (r \in TurnStatuses => turn[step] = r)
  BY <1>a DEF TypeOK, TurnInv, Results, TurnStatuses
<1>2. r = result[step] /\ r # "extensionFailed" => Over(step) BY <1>a DEF TurnInv, Over
<1>3. CASE r = "extensionFailed"
  BY <1>3, NotSettled DEF TurnReturned
<1>4. CASE r = "appError"
  <2>1. Settle("app_error") BY <1>4 DEF TurnReturned
  <2>2. ctxDone \/ Justified("app_error", step) BY <1>2, <1>4 DEF Justified
  <2> QED BY <2>1, <2>2, <1>a, SettlePreserves DEF Settlements, NackCodes
<1>5. CASE r = "completed"
  <2>1. Settle("ack") BY <1>5 DEF TurnReturned
  <2>2. Justified("ack", step) BY <1>1, <1>2, <1>5 DEF Justified, TurnStatuses
  <2> QED BY <2>1, <2>2, <1>a, SettlePreserves DEF Settlements, NackCodes
<1>6. CASE r \in {"failed", "interrupted"}
  <2>1. Settle("turn_failed") BY <1>6 DEF TurnReturned
  <2>2. Justified("turn_failed", step) BY <1>1, <1>2, <1>6 DEF Justified, TurnStatuses
  <2> QED BY <2>1, <2>2, <1>a, SettlePreserves DEF Settlements, NackCodes
<1> QED BY <1>1, <1>3, <1>4, <1>5, <1>6 DEF Results, TurnStatuses

\* Under a live context Claim sends the claim of the step it opens.
LEMMA ClaimCall ==
  ASSUME IInv, Claim, ~ctxDone
  PROVE  /\ call'[Main] # NoCall /\ call'[Main].op = "claim" /\ call'[Main].step = step'
         /\ \A c \in Steps : call'[c] = call[c]
         /\ pc' = "claim"
<1>1. step' = step + 1 /\ step + 1 \in Steps BY ClaimsNext
<1>2. call' = [call EXCEPT ![Main] = Request("claim", step + 1,
    0)] /\ pc' = "claim" BY DEF Claim
<1>3. TypeOK BY DEF IInv
<1> HIDE DEF step
<1> QED BY <1>1, <1>2, <1>3, MainSends, TimesTyped, Words

\* Under a live context a tick sends an extend of the current lease.
LEMMA TickCall ==
  ASSUME IInv, RenewTick, ~ctxDone
  PROVE  /\ call'[Main] # NoCall /\ call'[Main].op = "extend" /\ call'[Main].step = step
         /\ Fits(LeaseSeconds) => call'[Main].next > 0
         /\ \A c \in Steps : call'[c] = call[c]
         /\ pc' = "extend"
<1>1. TypeOK /\ step \in Steps BY DEF IInv, StepsInv, RenewTick, InStep
<1>2. /\ call' = [call EXCEPT ![Main] = Request("extend", step, NextExpiresAt(step))]
      /\ pc' = "extend"
  BY DEF RenewTick
<1> DEFINE next == NextExpiresAt(step)
<1>3. next \in Times /\ (Fits(LeaseSeconds) => next > 0) BY <1>1, NextExpiresAtTyped
<1>4. "extend" \in Operations BY Words
<1>5. call' = [call EXCEPT ![Main] = Request("extend", step, next)] BY <1>2
<1> HIDE DEF step, next
<1>6. /\ call'[Main] # NoCall /\ call'[Main].op = "extend" /\ call'[Main].step = step
      /\ call'[Main].next = next /\ \A c \in Steps : call'[c] = call[c]
  BY <1>1, <1>3, <1>4, <1>5, MainSends
<1> QED BY <1>2, <1>3, <1>6

\* What a step must leave alone for the settlements to stay justified.
LEMMA SettleKept ==
  ASSUME IInv, step' = step,
         \A s \in Steps, op \in Settlements : Justified(op, s) => Justified(op, s)',
         \A s \in Steps : lease'[s] \in Settlements =>
            \/ lease'[s] = lease[s]
            \/ s = step /\ Justified(lease'[s], s),
         call'[Main].op \in Settlements => call'[Main].op = call[Main].op,
         \A r \in stray' : r.op \in Settlements => r \in stray \/ r.op = call[Main].op,
         pc' \in InStep => pc \in InStep /\ \A s \in Steps : s = step => lease'[s] \notin Settlements
  PROVE  SettleInv'
<1>a. SettleInv BY DEF IInv
<1> HIDE DEF step, InStep, Justified
<1>1. \A s \in Steps, op \in Settlements : lease'[s] = op => Justified(op, s)'
  BY <1>a DEF SettleInv
<1>2. \A s \in Steps : s = step =>
         /\ \A op \in Settlements : call'[Main].op = op => Justified(op, s)'
         /\ \A r \in stray', op \in Settlements : r.op = op => Justified(op, s)'
  BY <1>a DEF SettleInv
<1>3. \A s \in Steps : s = step => (pc' \in InStep =>
         /\ lease'[s] \notin Settlements
         /\ call'[Main].op \notin Settlements
         /\ \A r \in stray' : r.op \notin Settlements)
  BY <1>a DEF SettleInv
<1>4. \A s \in Steps : lease'[s] \in Settlements => Justified(lease[s],
    s)' BY <1>1 DEF Justified
<1>5. \A s \in Steps : s = step' => (call'[Main].op \in Settlements => Justified(call[Main].op, s)')
  BY <1>2 DEF Justified
<1>6. \A s \in Steps : s = step' => \A r \in stray' : (r.op \in Settlements => Justified(r.op, s)')
  BY <1>2 DEF Justified
<1> QED BY <1>3, <1>4, <1>5, <1>6 DEF SettleInv, InStep

-----------------------------------------------------------------------------
(* Every part of IInv is kept.                                             *)

\* Steps to come stay untouched and steps gone by stay over: only Claim moves the step
\* count, and it does so when the step before it is over and settled.
LEMMA StepsInvPreserved ==
  ASSUME IInv, Next, TypeOK'
  PROVE  StepsInv'
<1> USE DEF StepsInv, InStep, BetweenSteps, Untouched, Over, step, vars, mainVars,
    turnVars, httpVars, serviceVars, appVars, TypeOK, CountsType
<1>a. TypeOK /\ StepsInv /\ TurnInv /\ MainInv /\ CallInv /\ StrayInv /\ SettleInv BY DEF IInv
<1>1. CASE Loop BY <1>1, <1>a DEF Loop
<1>2. CASE VerifyFailed BY <1>2, <1>a DEF VerifyFailed
<1>3. CASE Claim
  <2>1. /\ step' \in Steps
        /\ \A s \in Steps : /\ s < step' <=> s < step \/ s = step
                            /\ s > step' => s > step
                            /\ s = step' => s > step
    BY <1>3, ClaimsNext
  <2>2. counts'.turn = counts.turn BY <1>3, <1>a DEF Claim
  <2>3. \A s \in Steps : s = step' => Untouched(s) BY <1>a, <2>1 DEF StepsInv
  <2> HIDE DEF step
  <2> QED BY <1>3, <1>a, <2>1 DEF Claim
<1>4. CASE ClaimedNothing
  <2>1. step \in Steps /\ Untouched(step) /\ lease[step] = "none"
    BY <1>4, <1>a, Words DEF ClaimedNothing, CallInv
  <2> QED BY <1>4, <1>a, <2>1 DEF ClaimedNothing
<1>5. CASE Idle BY <1>5, <1>a DEF Idle
<1>6. CASE Claimed BY <1>6, <1>a DEF Claimed
<1>7. CASE ThreadFailed BY <1>7, <1>a DEF ThreadFailed, Settle
<1>8. CASE ThreadStarted BY <1>8, <1>a DEF ThreadStarted
<1>9. CASE WaitForStart BY <1>9, <1>a DEF WaitForStart, Settle, TurnReturned
<1>10. CASE RenewResult BY <1>10, <1>a DEF RenewResult, Settle, TurnReturned
<1>11. CASE RenewTick BY <1>11, <1>a DEF RenewTick
<1>12. CASE RenewCancelled BY <1>12, <1>a DEF RenewCancelled
<1>13. CASE Renewed BY <1>13, <1>a DEF Renewed
<1>14. CASE RenewFailed BY <1>14, <1>a DEF RenewFailed, Abandon
<1>15. CASE GiveUp BY <1>15, <1>a DEF GiveUp, InterruptActiveTurn
<1>16. CASE Settled
  <2>1. step \in Steps /\ Over(step) /\ lease[step] \in Settlements
    BY <1>16, <1>a DEF Settled, CallInv, MainInv
  <2> QED BY <1>16, <1>a, <2>1, Words DEF Settled
<1>17. CASE CallFailed BY <1>17, <1>a DEF CallFailed, Abandon
<1>18. ASSUME NEW t \in Steps, TurnOpened(t) PROVE StepsInv'
  BY <1>18, <1>a, CurrentTurn DEF TurnOpened
<1>19. ASSUME NEW t \in Steps, TurnRequested(t) PROVE StepsInv'
  BY <1>19, <1>a, CurrentTurn DEF TurnRequested
<1>20. ASSUME NEW t \in Steps, TurnStarted(t) PROVE StepsInv'
  BY <1>20, <1>a, CurrentTurn DEF TurnStarted
<1>21. ASSUME NEW t \in Steps, FirstExtended(t) PROVE StepsInv'
  BY <1>21, <1>a, CurrentTurn DEF FirstExtended
<1>22. ASSUME NEW t \in Steps, FirstExtendFailed(t) PROVE StepsInv'
  BY <1>22, <1>a, CurrentTurn DEF FirstExtendFailed, Abandon
<1>23. ASSUME NEW t \in Steps, InterruptedUnrenewed(t) PROVE StepsInv'
  BY <1>23, <1>a, CurrentTurn DEF InterruptedUnrenewed, InterruptActiveTurn
<1>24. ASSUME NEW t \in Steps, ReturnUnrenewed(t) PROVE StepsInv'
  BY <1>24, <1>a, CurrentTurn DEF ReturnUnrenewed
<1>25. ASSUME NEW t \in Steps, TurnDone(t) PROVE StepsInv'
  BY <1>25, <1>a, CurrentTurn DEF TurnDone
<1>26. ASSUME NEW t \in Steps, TurnError(t) PROVE StepsInv'
  BY <1>26, <1>a, CurrentTurn DEF TurnError
<1>27. CASE ServeClaim
  <2>1. /\ pc \notin BetweenSteps
        /\ \A s \in Steps : s # step => lease'[s] = lease[s]
    BY <1>27, OnlyCurrentServed
  <2>2. UNCHANGED <<pc, counts, turnVars, turn>> BY <1>27 DEF ServeClaim
  <2>3. \A s \in Steps : (s > step => s # step) /\ (s < step => s # step) BY StepTyped, <1>a
  <2> HIDE DEF BetweenSteps, step
  <2>4. step' = step BY <2>2 DEF step
  <2> QED BY <1>a, <2>1, <2>2, <2>3, <2>4
<1>28. CASE ServeStray
  <2>1. /\ pc \notin BetweenSteps
        /\ \A s \in Steps : s # step => lease'[s] = lease[s]
    BY <1>28, OnlyCurrentServed
  <2>2. UNCHANGED <<pc, counts, turnVars, turn>> BY <1>28 DEF ServeStray
  <2>3. \A s \in Steps : (s > step => s # step) /\ (s < step => s # step) BY StepTyped, <1>a
  <2> HIDE DEF BetweenSteps, step
  <2>4. step' = step BY <2>2 DEF step
  <2> QED BY <1>a, <2>1, <2>2, <2>3, <2>4
<1>29. CASE ExpireLease
  <2>1. \A s \in Steps : lease[s] # "held" => lease'[s] = lease[s]
    BY <1>29, <1>a DEF ExpireLease
  <2> QED BY <1>29, <1>a, <2>1, Words DEF ExpireLease
<1>30. CASE Cancel BY <1>30, <1>a DEF Cancel
<1>31. CASE Kill BY <1>31, <1>a DEF Kill
<1>32. ASSUME NEW c \in Callers, Serve(c) PROVE StepsInv'
  <2>1. /\ pc \notin BetweenSteps
        /\ \A s \in Steps : s # step => lease'[s] = lease[s]
    BY <1>32, OnlyCurrentServed
  <2>2. UNCHANGED <<pc, counts, turnVars, turn>> BY <1>32 DEF Serve
  <2>3. \A s \in Steps : (s > step => s # step) /\ (s < step => s # step) BY StepTyped, <1>a
  <2> HIDE DEF BetweenSteps, step
  <2>4. step' = step BY <2>2 DEF step
  <2> QED BY <1>a, <2>1, <2>2, <2>3, <2>4
<1>33. ASSUME NEW t \in Steps, AppStartsTurn(t) PROVE StepsInv'
  BY <1>33, <1>a DEF AppStartsTurn
<1>34. ASSUME NEW t \in Steps, AppEndsTurn(t) PROVE StepsInv'
  BY <1>34, <1>a DEF AppEndsTurn
<1>35. CASE Terminated BY <1>35, <1>a DEF Terminated
<1> QED BY <1>1, <1>2, <1>3, <1>4, <1>5, <1>6, <1>7, <1>8, <1>9, <1>10, <1>11, <1>12,
    <1>13, <1>14, <1>15, <1>16, <1>17, <1>18, <1>19, <1>20, <1>21, <1>22, <1>23, <1>24,
        <1>25, <1>26, <1>27, <1>28, <1>29, <1>30, <1>31, <1>32, <1>33, <1>34,
            <1>35 DEF Next, MainStep, TurnGoroutine, TurnStep, Environment

\* The turn goroutine, its channels and the app server's turn keep agreeing.
LEMMA TurnInvPreserved ==
  ASSUME IInv, Next, TypeOK'
  PROVE  TurnInv'
<1> USE DEF TurnInv, TurnStatuses, Results, TurnPoints, Untouched, Over, step, Alive,
    Exits, vars, mainVars, turnVars, httpVars, serviceVars, appVars, TypeOK, CountsType,
        Steps, Main, Callers
<1>a. TypeOK /\ StepsInv /\ TurnInv /\ MainInv BY DEF IInv
<1>1. CASE Loop BY <1>1, <1>a DEF Loop
<1>2. CASE VerifyFailed BY <1>2, <1>a DEF VerifyFailed
<1>3. CASE Claim
  <2>1. /\ step' \in Steps
        /\ \A s \in Steps : /\ s < step' <=> s < step \/ s = step
                            /\ s > step' => s > step
                            /\ s = step' => s > step
    BY <1>3, ClaimsNext
  <2>2. counts'.turn = counts.turn BY <1>3, <1>a DEF Claim
  <2>3. \A s \in Steps : s = step' => Untouched(s) BY <1>a, <2>1 DEF StepsInv
  <2> HIDE DEF step
  <2> QED BY <1>3, <1>a, <2>1, <2>2, <2>3 DEF Claim
<1>4. CASE ClaimedNothing BY <1>4, <1>a DEF ClaimedNothing
<1>5. CASE Idle BY <1>5, <1>a DEF Idle
<1>6. CASE Claimed BY <1>6, <1>a DEF Claimed
<1>7. CASE ThreadFailed BY <1>7, <1>a DEF ThreadFailed, Settle
<1>8. CASE ThreadStarted
  <2>1. step \in Steps /\ Untouched(step)
    BY <1>8, <1>a DEF ThreadStarted, MainInv, StepsInv, InStep
  <2>2. tpc' = [tpc EXCEPT ![step] = "open"] BY <1>8 DEF ThreadStarted
  <2>3. UNCHANGED <<counts, started, result, turn, interrupts>> BY <1>8 DEF ThreadStarted
  <2> QED BY <1>a, <2>1, <2>2, <2>3
<1>9. CASE WaitForStart BY <1>9, <1>a DEF WaitForStart, Settle, TurnReturned
<1>10. CASE RenewResult BY <1>10, <1>a DEF RenewResult, Settle, TurnReturned
<1>11. CASE RenewTick BY <1>11, <1>a DEF RenewTick
<1>12. CASE RenewCancelled BY <1>12, <1>a DEF RenewCancelled
<1>13. CASE Renewed BY <1>13, <1>a DEF Renewed
<1>14. CASE RenewFailed BY <1>14, <1>a DEF RenewFailed, Abandon
<1>15. CASE GiveUp BY <1>15, <1>a DEF GiveUp, InterruptActiveTurn
<1>16. CASE Settled BY <1>16, <1>a DEF Settled
<1>17. CASE CallFailed BY <1>17, <1>a DEF CallFailed, Abandon
<1>18. ASSUME NEW t \in Steps, TurnOpened(t) PROVE TurnInv'
  BY <1>18, <1>a, CurrentTurn DEF TurnOpened
<1>19. ASSUME NEW t \in Steps, TurnRequested(t) PROVE TurnInv'
  BY <1>19, <1>a, CurrentTurn DEF TurnRequested
<1>20. ASSUME NEW t \in Steps, TurnStarted(t) PROVE TurnInv'
  <2>1. /\ tpc[t] = "decode"
        /\ tpc' = [tpc EXCEPT ![t] = "interrupt"] \/ tpc' = [tpc EXCEPT ![t] = "extend"]
        /\ UNCHANGED <<pc, started, result, turn, interrupts, stray>>
    BY <1>20 DEF TurnStarted
  <2>2. counts'.turn = t /\ step' = step BY <1>20, <1>a DEF TurnStarted
  <2>3. t = step BY <2>1, CurrentTurn
  <2>4. \A s \in Steps : s # t => tpc'[s] = tpc[s] BY <1>a, <2>1
  <2>5. tpc'[t] \in {"interrupt", "extend"} BY <1>a, <2>1
  <2> HIDE DEF step
  <2>6. turn[t] # "none" BY <1>20 DEF TurnStarted
  <2>7. \A s \in Steps : s # t => s # step' BY <2>2, <2>3
  <2>8. ~started[t] /\ result[t] = "none" BY <1>a, <2>1
  <2>9. \A s \in Steps : s # t =>
          tpc[s] \notin {"extend", "interrupt", "returning", "completion"}
    BY <2>3, CurrentTurn DEF Over
  <2> QED BY <1>a, <2>1, <2>2, <2>4, <2>5, <2>6, <2>7, <2>8, <2>9
<1>21. ASSUME NEW t \in Steps, FirstExtended(t) PROVE TurnInv'
  <2>1. counts'.turn = counts.turn /\ UNCHANGED <<result, turn, interrupts>>
    BY <1>21, <1>a DEF FirstExtended
  <2>2. started' = [started EXCEPT ![t] = TRUE] /\ tpc' = [tpc EXCEPT ![t] = "completion"]
    BY <1>21 DEF FirstExtended
  <2>3. tpc[t] = "extend" BY <1>21 DEF FirstExtended
  <2>4. step' = step BY <1>21, <1>a DEF FirstExtended
  <2> HIDE DEF step
  <2> QED BY <1>a, <2>1, <2>2, <2>3, <2>4
<1>22. ASSUME NEW t \in Steps, FirstExtendFailed(t) PROVE TurnInv'
  BY <1>22, <1>a, CurrentTurn DEF FirstExtendFailed, Abandon
<1>23. ASSUME NEW t \in Steps, InterruptedUnrenewed(t) PROVE TurnInv'
  BY <1>23, <1>a, CurrentTurn DEF InterruptedUnrenewed, InterruptActiveTurn
<1>24. ASSUME NEW t \in Steps, ReturnUnrenewed(t) PROVE TurnInv'
  BY <1>24, <1>a, CurrentTurn DEF ReturnUnrenewed
<1>25. ASSUME NEW t \in Steps, TurnDone(t) PROVE TurnInv'
  BY <1>25, <1>a, CurrentTurn DEF TurnDone
<1>26. ASSUME NEW t \in Steps, TurnError(t) PROVE TurnInv'
  BY <1>26, <1>a, CurrentTurn DEF TurnError
<1>27. CASE ServeClaim BY <1>27, <1>a DEF ServeClaim
<1>28. CASE ServeStray BY <1>28, <1>a DEF ServeStray, Apply
<1>29. CASE ExpireLease BY <1>29, <1>a DEF ExpireLease
<1>30. CASE Cancel BY <1>30, <1>a DEF Cancel
<1>31. CASE Kill BY <1>31, <1>a DEF Kill
<1>32. ASSUME NEW c \in Callers, Serve(c) PROVE TurnInv'
  BY <1>32, <1>a DEF Serve, Apply
<1>33. ASSUME NEW t \in Steps, AppStartsTurn(t) PROVE TurnInv'
  BY <1>33, <1>a DEF AppStartsTurn
<1>34. ASSUME NEW t \in Steps, AppEndsTurn(t) PROVE TurnInv'
  BY <1>34, <1>a DEF AppEndsTurn
<1>35. CASE Terminated BY <1>35, <1>a DEF Terminated
<1> QED BY <1>1, <1>2, <1>3, <1>4, <1>5, <1>6, <1>7, <1>8, <1>9, <1>10, <1>11, <1>12,
    <1>13, <1>14, <1>15, <1>16, <1>17, <1>18, <1>19, <1>20, <1>21, <1>22, <1>23, <1>24,
        <1>25, <1>26, <1>27, <1>28, <1>29, <1>30, <1>31, <1>32, <1>33, <1>34,
            <1>35 DEF Next, MainStep, TurnGoroutine, TurnStep, Environment

\* Where the main goroutine is keeps telling how far its turn has come.
LEMMA MainInvPreserved ==
  ASSUME IInv, Next, TypeOK'
  PROVE  MainInv'
<1> USE DEF MainInv, TurnInv, TurnStatuses, Results, InStep, AfterStart, BetweenSteps,
    Untouched, Over, step, Alive, Exits, vars, mainVars, turnVars, httpVars, serviceVars,
        appVars, TypeOK, CountsType, Steps, Main, Callers
<1>a. TypeOK /\ StepsInv /\ TurnInv /\ MainInv BY DEF IInv
<1>1. CASE Loop BY <1>1, <1>a DEF Loop
<1>2. CASE VerifyFailed BY <1>2, <1>a DEF VerifyFailed
<1>3. CASE Claim
  <2>1. /\ step' \in Steps
        /\ \A s \in Steps : /\ s < step' <=> s < step \/ s = step
                            /\ s > step' => s > step
                            /\ s = step' => s > step
    BY <1>3, ClaimsNext
  <2>2. counts'.turn = counts.turn BY <1>3, <1>a DEF Claim
  <2>3. \A s \in Steps : s = step' => Untouched(s) BY <1>a, <2>1 DEF StepsInv
  <2> HIDE DEF step
  <2> QED BY <1>3, <1>a, <2>1, <2>3 DEF Claim
<1>4. CASE ClaimedNothing BY <1>4, <1>a DEF ClaimedNothing
<1>5. CASE Idle BY <1>5, <1>a DEF Idle
<1>6. CASE Claimed BY <1>6, <1>a DEF Claimed
<1>7. CASE ThreadFailed BY <1>7, <1>a DEF ThreadFailed, Settle
<1>8. CASE ThreadStarted BY <1>8, <1>a DEF ThreadStarted
<1>9. CASE WaitForStart BY <1>9, <1>a DEF WaitForStart, Settle, TurnReturned
<1>10. CASE RenewResult BY <1>10, <1>a DEF RenewResult, Settle, TurnReturned
<1>11. CASE RenewTick BY <1>11, <1>a DEF RenewTick
<1>12. CASE RenewCancelled BY <1>12, <1>a DEF RenewCancelled
<1>13. CASE Renewed BY <1>13, <1>a DEF Renewed
<1>14. CASE RenewFailed BY <1>14, <1>a DEF RenewFailed, Abandon
<1>15. CASE GiveUp BY <1>15, <1>a DEF GiveUp, InterruptActiveTurn
<1>16. CASE Settled BY <1>16, <1>a DEF Settled
<1>17. CASE CallFailed BY <1>17, <1>a DEF CallFailed, Abandon
<1>18. ASSUME NEW t \in Steps, TurnOpened(t) PROVE MainInv'
  BY <1>18, <1>a, CurrentTurn DEF TurnOpened
<1>19. ASSUME NEW t \in Steps, TurnRequested(t) PROVE MainInv'
  BY <1>19, <1>a, CurrentTurn DEF TurnRequested
<1>20. ASSUME NEW t \in Steps, TurnStarted(t) PROVE MainInv'
  <2>1. /\ tpc[t] = "decode"
        /\ tpc' = [tpc EXCEPT ![t] = "interrupt"] \/ tpc' = [tpc EXCEPT ![t] = "extend"]
        /\ UNCHANGED <<pc, started, result, turn, interrupts, stray>>
    BY <1>20 DEF TurnStarted
  <2>2. counts'.turn = t /\ step' = step BY <1>20, <1>a DEF TurnStarted
  <2>3. t = step BY <2>1, CurrentTurn
  <2>4. \A s \in Steps : s # t => tpc'[s] = tpc[s] BY <1>a, <2>1
  <2>5. tpc'[t] \in {"interrupt", "extend"} BY <1>a, <2>1
  <2> HIDE DEF step
  <2> QED BY <1>a, <2>1, <2>2, <2>3, <2>4, <2>5
<1>21. ASSUME NEW t \in Steps, FirstExtended(t) PROVE MainInv'
  <2>1. /\ tpc[t] = "extend"
        /\ tpc' = [tpc EXCEPT ![t] = "completion"] /\ started' = [started EXCEPT ![t] = TRUE]
        /\ UNCHANGED <<pc, result, turn, interrupts, stray>>
    BY <1>21 DEF FirstExtended
  <2>2. counts'.turn = counts.turn /\ step' = step BY <1>21, <1>a DEF FirstExtended
  <2>3. t = step BY <2>1, CurrentTurn
  <2>4. \A s \in Steps : s # t => tpc'[s] = tpc[s] /\ started'[s] = started[s]
    BY <1>a, <2>1
  <2>5. tpc'[t] = "completion" /\ started'[t] BY <1>a, <2>1
  <2> HIDE DEF step
  <2> QED BY <1>a, <2>1, <2>2, <2>3, <2>4, <2>5, CurrentTurn
<1>22. ASSUME NEW t \in Steps, FirstExtendFailed(t) PROVE MainInv'
  BY <1>22, <1>a, CurrentTurn DEF FirstExtendFailed, Abandon
<1>23. ASSUME NEW t \in Steps, InterruptedUnrenewed(t) PROVE MainInv'
  BY <1>23, <1>a, CurrentTurn DEF InterruptedUnrenewed, InterruptActiveTurn
<1>24. ASSUME NEW t \in Steps, ReturnUnrenewed(t) PROVE MainInv'
  BY <1>24, <1>a, CurrentTurn DEF ReturnUnrenewed
<1>25. ASSUME NEW t \in Steps, TurnDone(t) PROVE MainInv'
  BY <1>25, <1>a, CurrentTurn DEF TurnDone
<1>26. ASSUME NEW t \in Steps, TurnError(t) PROVE MainInv'
  BY <1>26, <1>a, CurrentTurn DEF TurnError
<1>27. CASE ServeClaim BY <1>27, <1>a DEF ServeClaim
<1>28. CASE ServeStray BY <1>28, <1>a DEF ServeStray, Apply
<1>29. CASE ExpireLease BY <1>29, <1>a DEF ExpireLease
<1>30. CASE Cancel BY <1>30, <1>a DEF Cancel
<1>31. CASE Kill BY <1>31, <1>a DEF Kill
<1>32. ASSUME NEW c \in Callers, Serve(c) PROVE MainInv'
  BY <1>32, <1>a DEF Serve, Apply
<1>33. ASSUME NEW t \in Steps, AppStartsTurn(t) PROVE MainInv'
  BY <1>33, <1>a DEF AppStartsTurn
<1>34. ASSUME NEW t \in Steps, AppEndsTurn(t) PROVE MainInv'
  BY <1>34, <1>a DEF AppEndsTurn
<1>35. CASE Terminated BY <1>35, <1>a DEF Terminated
<1> QED BY <1>1, <1>2, <1>3, <1>4, <1>5, <1>6, <1>7, <1>8, <1>9, <1>10, <1>11, <1>12,
    <1>13, <1>14, <1>15, <1>16, <1>17, <1>18, <1>19, <1>20, <1>21, <1>22, <1>23, <1>24,
        <1>25, <1>26, <1>27, <1>28, <1>29, <1>30, <1>31, <1>32, <1>33, <1>34,
            <1>35 DEF Next, MainStep, TurnGoroutine, TurnStep, Environment

\* Every call stays with the goroutine and the step it was made for.
LEMMA CallInvPreserved ==
  ASSUME IInv, Next, TypeOK'
  PROVE  CallInv'
<1> USE DEF CallInv, Untouched, step, vars, mainVars, turnVars, httpVars, serviceVars,
    appVars, TypeOK, CountsType
<1>a. TypeOK /\ StepsInv /\ TurnInv /\ MainInv /\ CallInv BY DEF IInv
<1>b. \A c \in Callers : c = Main \/ c \in Steps BY DEF Callers, Main
<1>1. CASE Loop BY <1>1, <1>a DEF Loop
<1>2. CASE VerifyFailed BY <1>2, <1>a DEF VerifyFailed
<1>3. CASE Claim
  <2>1. /\ step' = step + 1 /\ step' \in Steps /\ stray = {} /\ call[Main] = NoCall
        /\ \A s \in Steps : s = step' => s > step
    BY <1>3, ClaimsNext
  <2>2. \A s \in Steps : s = step' => Untouched(s) /\ lease[s] = "none" BY <1>a,
      <2>1 DEF StepsInv
  <2>3. UNCHANGED <<stray, turnVars, lease, turn>> BY <1>3 DEF Claim
  <2>4. CASE ctxDone
    <3>1. call' = call /\ pc' = "failed" BY <1>3, <2>4 DEF Claim
    <3> HIDE DEF step
    <3> QED BY <1>a, <2>1, <2>2, <2>3, <3>1, Words
  <2>5. CASE ~ctxDone
    <3>1. /\ call'[Main] # NoCall /\ call'[Main].op = "claim" /\ call'[Main].step = step'
          /\ \A c \in Steps : call'[c] = call[c]
          /\ pc' = "claim"
      BY <1>3, <2>5, ClaimCall
    <3>2. \A s \in Steps : call'[s] # NoCall =>
             tpc'[s] = "extend" /\ call'[s].op = "extend" /\ call'[s].step = s
      BY <1>a, <2>3, <3>1
    <3>3. Fits(LeaseSeconds) => \A d \in Callers : call'[d].op = "extend" => call'[d].next > 0
      BY <1>a, <1>b, <3>1, StepTyped
    <3>4. \A s \in Steps : s = step' => Untouched(s)' /\ lease'[s] = "none"
      BY <2>2, <2>3
    <3> HIDE DEF step, Untouched
    <3> QED BY <2>1, <2>3, <3>1, <3>2, <3>3, <3>4, Words
  <2> QED BY <2>4, <2>5
<1>4. CASE ClaimedNothing
  <2>1. call'[Main] = NoCall /\ \A c \in Steps : call'[c] = call[c]
    BY <1>4, <1>a, MainForgets DEF ClaimedNothing
  <2>2. UNCHANGED <<stray, turnVars, serviceVars, turn>> /\ step' = step BY <1>4,
      <1>a DEF ClaimedNothing
  <2>3. pc = "claim" /\ pc' = "idle" BY <1>4 DEF ClaimedNothing
  <2> HIDE DEF step
  <2> QED BY <1>4, <1>a, <1>b, <2>1, <2>2, <2>3, Words
<1>5. CASE Idle BY <1>5, <1>a DEF Idle
<1>6. CASE Claimed
  <2>1. /\ step \in Steps /\ Untouched(step) /\ call[Main].op = "claim"
        /\ UNCHANGED <<stray, counts, turnVars, serviceVars, turn>>
    BY <1>6, <1>a, MainCallIsCurrent, Words DEF Claimed, CallInv
  <2>2. CASE /\ call' = [call EXCEPT ![Main] = Request("invalid_payload", step, 0)]
             /\ pc' = "settle"
    <3>1. Justified("invalid_payload", step) BY <2>1 DEF Justified, Over, Untouched
    <3>2. "invalid_payload" \in Settlements BY DEF Settlements, NackCodes
    <3> QED BY <1>6, <2>1, <2>2, <3>1, <3>2, SettlementSent DEF Claimed
  <2>3. CASE call' = [call EXCEPT ![Main] = NoCall] /\ pc' \in {"failed", "thread"}
    <3>1. call'[Main] = NoCall /\ \A c \in Steps : call'[c] = call[c]
      BY <1>a, <2>3, MainForgets
    <3>2. step' = step BY <2>1 DEF step
    <3> HIDE DEF step
    <3> QED BY <1>6, <1>a, <1>b, <2>1, <2>3, <3>1, <3>2, Words DEF Claimed
  <2> QED BY <1>6, <2>2, <2>3 DEF Claimed
<1>7. CASE ThreadFailed
  <2>1. step \in Steps /\ Untouched(step)
    BY <1>7, <1>a DEF ThreadFailed, StepsInv, MainInv, InStep
  <2>2. Justified("app_unreachable", step) BY <2>1 DEF Justified, Over, Untouched
  <2>3. "app_unreachable" \in Settlements BY DEF Settlements, NackCodes
  <2> QED BY <1>7, <2>1, <2>2, <2>3, SettlePreserves DEF ThreadFailed
<1>8. CASE ThreadStarted
  <2>1. call[Main] = NoCall BY <1>8, <1>a DEF ThreadStarted
  <2>2. tpc[step] = "none" /\ step \in Steps
    BY <1>8, <1>a DEF ThreadStarted, StepsInv, MainInv, InStep, Untouched
  <2>3. tpc' = [tpc EXCEPT ![step] = "open"] /\ pc' = "waitStart" BY <1>8 DEF ThreadStarted
  <2>4. UNCHANGED <<call, stray, counts>> /\ step' = step BY <1>8 DEF ThreadStarted
  <2> HIDE DEF step
  <2> QED BY <1>a, <2>1, <2>2, <2>3, <2>4, Words
<1>9. CASE WaitForStart
  <2>1. UNCHANGED <<stray, counts, turnVars, serviceVars, turn>> BY <1>9 DEF WaitForStart
  <2>2. CASE pc' = "renew" /\ UNCHANGED call
    <3>1. step' = step BY <2>1 DEF step
    <3> HIDE DEF step
    <3> QED BY <1>9, <1>a, <2>1, <2>2, <3>1, Words DEF WaitForStart
  <2> QED BY <1>9, <2>1, <2>2, TurnReturnedPreserves DEF WaitForStart
<1>10. CASE RenewResult
  <2>1. UNCHANGED <<stray, counts, turnVars, serviceVars, turn>> BY <1>10 DEF RenewResult
  <2> QED BY <1>10, <2>1, TurnReturnedPreserves DEF RenewResult
<1>11. CASE RenewTick
  <2>1. /\ step \in Steps /\ started[step] /\ call[Main] = NoCall
        /\ UNCHANGED <<stray, counts, turnVars, serviceVars, turn>>
    BY <1>11, <1>a DEF RenewTick, StepsInv, MainInv, InStep, AfterStart, CallInv
  <2>2. step' = step BY <2>1 DEF step
  <2>3. CASE ctxDone
    <3>1. call' = call /\ pc' = "interruptUnrenewed" BY <1>11, <2>3 DEF RenewTick
    <3> HIDE DEF step
    <3> QED BY <1>11, <1>a, <2>1, <2>2, <3>1, Words DEF RenewTick
  <2>4. CASE ~ctxDone
    <3>1. /\ call'[Main] # NoCall /\ call'[Main].op = "extend" /\ call'[Main].step = step
          /\ Fits(LeaseSeconds) => call'[Main].next > 0
          /\ \A c \in Steps : call'[c] = call[c]
          /\ pc' = "extend"
      BY <1>11, <2>4, TickCall
    <3> HIDE DEF step
    <3> QED BY <1>11, <1>a, <1>b, <2>1, <2>2, <3>1, Words DEF RenewTick
  <2> QED BY <2>3, <2>4
<1>12. CASE RenewCancelled BY <1>12, <1>a DEF RenewCancelled
<1>13. CASE Renewed
  <2>1. call'[Main] = NoCall /\ \A c \in Steps : call'[c] = call[c]
    BY <1>13, <1>a, MainForgets DEF Renewed
  <2>2. UNCHANGED <<stray, turnVars, serviceVars, turn>> /\ step' = step BY <1>13,
      <1>a DEF Renewed
  <2>3. pc = "extend" /\ pc' = "renew" BY <1>13 DEF Renewed
  <2> HIDE DEF step
  <2> QED BY <1>13, <1>a, <1>b, <2>1, <2>2, <2>3, Words
<1>14. CASE RenewFailed
  <2>1. call'[Main] = NoCall /\ \A c \in Steps : call'[c] = call[c]
    BY <1>14, <1>a, MainForgets DEF RenewFailed, Abandon
  <2>2. UNCHANGED <<turnVars, serviceVars, turn>> /\ step' = step BY <1>14,
      <1>a DEF RenewFailed
  <2>3. pc = "extend" /\ pc' = "interruptUnrenewed" BY <1>14 DEF RenewFailed
  <2> HIDE DEF step
  <2> QED BY <1>14, <1>a, <1>b, <2>1, <2>2, <2>3, Words
<1>15. CASE GiveUp BY <1>15, <1>a DEF GiveUp, InterruptActiveTurn
<1>16. CASE Settled
  <2>1. call'[Main] = NoCall /\ \A c \in Steps : call'[c] = call[c]
    BY <1>16, <1>a, MainForgets DEF Settled
  <2>2. UNCHANGED <<stray, turnVars, serviceVars, turn>> /\ step' = step BY <1>16,
      <1>a DEF Settled
  <2>3. pc = "settle" /\ pc' = "loop" BY <1>16 DEF Settled
  <2> HIDE DEF step
  <2> QED BY <1>16, <1>a, <1>b, <2>1, <2>2, <2>3, Words
<1>17. CASE CallFailed
  <2>1. call'[Main] = NoCall /\ \A c \in Steps : call'[c] = call[c]
    BY <1>17, <1>a, MainForgets DEF CallFailed, Abandon
  <2>2. UNCHANGED <<turnVars, serviceVars, turn>> /\ step' = step BY <1>17,
      <1>a DEF CallFailed
  <2>3. pc' = "failed" BY <1>17 DEF CallFailed
  <2> HIDE DEF step
  <2> QED BY <1>17, <1>a, <1>b, <2>1, <2>2, <2>3, Words
<1>18. ASSUME NEW t \in Steps, TurnOpened(t) PROVE CallInv'
  BY <1>18, <1>a, CurrentTurn DEF TurnOpened
<1>19. ASSUME NEW t \in Steps, TurnRequested(t) PROVE CallInv'
  BY <1>19, <1>a, CurrentTurn DEF TurnRequested
<1>20. ASSUME NEW t \in Steps, TurnStarted(t) PROVE CallInv'
  <2>1. t = step /\ tpc[t] = "decode" BY <1>20, CurrentTurn DEF TurnStarted, Over
  <2>2. /\ UNCHANGED <<pc, started, result, stray, serviceVars, turn>>
        /\ step' = step /\ counts'.turn = t
    BY <1>20, <1>a DEF TurnStarted
  <2>3. \A s \in Steps : s # t => tpc'[s] = tpc[s] BY <1>20, <1>a DEF TurnStarted
  <2>4. CASE ctxDone
    <3>1. call' = call /\ tpc'[t] = "interrupt" BY <1>20, <1>a, <2>4 DEF TurnStarted
    <3> HIDE DEF step
    <3> QED BY <1>a, <2>1, <2>2, <2>3, <3>1, Words
  <2>5. CASE ~ctxDone
    <3>1. /\ call' = [call EXCEPT ![t] = Request("extend", t, NextExpiresAt(t))]
          /\ tpc'[t] = "extend"
      BY <1>20, <1>a, <2>5 DEF TurnStarted
    <3>2. /\ Request("extend", t, NextExpiresAt(t)).op = "extend"
          /\ Request("extend", t, NextExpiresAt(t)).step = t
          /\ Fits(LeaseSeconds) => Request("extend", t, NextExpiresAt(t)).next > 0
      BY <1>a, NextExpiresAtTyped, RequestTyped, Words
    <3>3. /\ call'[Main] = call[Main]
          /\ \A c \in Steps : c # t => call'[c] = call[c]
          /\ call'[t].op = "extend" /\ call'[t].step = t
          /\ Fits(LeaseSeconds) => call'[t].next > 0
      BY <1>a, <3>1, <3>2, StepTyped
    <3> HIDE DEF step
    <3> QED BY <1>a, <1>b, <2>1, <2>2, <2>3, <3>1, <3>3, Words
  <2> QED BY <2>4, <2>5
<1>21. ASSUME NEW t \in Steps, FirstExtended(t) PROVE CallInv'
  <2>1. t = step /\ tpc[t] = "extend" /\ call[Main] = NoCall
    BY <1>21, Words, TurnCallIsCurrent DEF FirstExtended
  <2>2. UNCHANGED <<pc, result, stray, serviceVars, turn>> /\ step' = step
    BY <1>21, <1>a DEF FirstExtended
  <2>3. \A s \in Steps : s # t => tpc'[s] = tpc[s] /\ started'[s] = started[s]
    BY <1>21, <1>a DEF FirstExtended
  <2>4. /\ call'[Main] = NoCall /\ call'[t] = NoCall
        /\ \A c \in Steps : c # t => call'[c] = call[c]
    BY <1>21, <1>a, <2>1, StepTyped DEF FirstExtended
  <2> HIDE DEF step
  <2> QED BY <1>a, <1>b, <2>1, <2>2, <2>3, <2>4, Words
<1>22. ASSUME NEW t \in Steps, FirstExtendFailed(t) PROVE CallInv'
  <2>1. t = step /\ tpc[t] = "extend" /\ (call[t] # NoCall => call[Main] = NoCall)
    BY <1>22, CurrentTurn, TurnCallIsCurrent DEF FirstExtendFailed, Over
  <2>2. UNCHANGED <<pc, started, result, serviceVars, turn>> /\ step' = step
    BY <1>22, <1>a DEF FirstExtendFailed
  <2>3. \A s \in Steps : s # t => tpc'[s] = tpc[s]
    BY <1>22, <1>a DEF FirstExtendFailed
  <2>4. /\ call'[Main] = call[Main] /\ call'[t] = NoCall
        /\ \A c \in Steps : c # t => call'[c] = call[c]
        /\ call[t] = NoCall => stray' = stray
    BY <1>22, <1>a, StepTyped, Words DEF FirstExtendFailed, Abandon
  <2> HIDE DEF step
  <2> QED BY <1>a, <1>b, <2>1, <2>2, <2>3, <2>4, Words
<1>23. ASSUME NEW t \in Steps, InterruptedUnrenewed(t) PROVE CallInv'
  BY <1>23, <1>a, CurrentTurn DEF InterruptedUnrenewed, InterruptActiveTurn
<1>24. ASSUME NEW t \in Steps, ReturnUnrenewed(t) PROVE CallInv'
  BY <1>24, <1>a, CurrentTurn DEF ReturnUnrenewed
<1>25. ASSUME NEW t \in Steps, TurnDone(t) PROVE CallInv'
  BY <1>25, <1>a, CurrentTurn DEF TurnDone
<1>26. ASSUME NEW t \in Steps, TurnError(t) PROVE CallInv'
  BY <1>26, <1>a, CurrentTurn DEF TurnError
<1>27. CASE ServeClaim
  <2>1. /\ call[Main] # NoCall /\ call[Main].op = "claim" /\ call[Main].st = "sent"
    BY <1>27, Words DEF ServeClaim
  <2>2. call[Main] \in Calls /\ step \in Steps BY <2>1, MainCallIsCurrent
  <2> DEFINE Answered == /\ call'[Main].op = "claim" /\ call'[Main].step = call[Main].step
                         /\ call'[Main].st # "ok" => lease' = lease
                         /\ \A c \in Steps : call'[c] = call[c]
  <2>3. Answered
    <3>1. CASE /\ call' = [call EXCEPT ![Main] = [@ EXCEPT !.st = "empty"]]
               /\ UNCHANGED serviceVars
      BY <1>a, <2>1, <2>2, <3>1, StepTyped DEF Calls, serviceVars
    <3>2. ASSUME NEW e, call' = [call EXCEPT ![Main] = [@ EXCEPT !.st = "ok", !.next = e]]
          PROVE  Answered
      BY <1>a, <2>1, <2>2, <3>2, StepTyped DEF Calls
    <3> QED BY <1>27, <3>1, <3>2 DEF ServeClaim
  <2>4. UNCHANGED <<pc, counts, turnVars, stray,
      turn>> /\ step' = step BY <1>27 DEF ServeClaim
  <2> HIDE DEF step
  <2> QED BY <1>a, <1>b, <2>1, <2>2, <2>3, <2>4, Words
<1>28. CASE ServeStray BY <1>28, <1>a DEF ServeStray, Apply
<1>29. CASE ExpireLease
  <2>1. \A s \in Steps : lease[s] \in Settlements \cup {"none"} => lease'[s] = lease[s]
    BY <1>29, <1>a, Words DEF ExpireLease
  <2>2. UNCHANGED <<pc, counts, turnVars, call, stray, turn>> /\ step' = step
    BY <1>29 DEF ExpireLease
  <2> HIDE DEF step
  <2> QED BY <1>a, <2>1, <2>2
<1>30. CASE Cancel BY <1>30, <1>a DEF Cancel
<1>31. CASE Kill BY <1>31, <1>a DEF Kill
<1>32. ASSUME NEW c \in Callers, Serve(c) PROVE CallInv'
  <2>1. call[c] # NoCall /\ call[c] \in Calls /\ Apply(call[c]) /\ call[c].st = "sent"
    BY <1>32, <1>a, Words, CallerTyped DEF Serve
  <2>2. /\ call'[c].op = call[c].op /\ call'[c].step = call[c].step
        /\ call'[c].next = call[c].next /\ call'[c] # NoCall
        /\ \A d \in Callers : d # c => call'[d] = call[d]
    BY <1>32, <1>a, <2>1 DEF Serve, Calls, NoCall
  <2>3. UNCHANGED <<pc, counts, turnVars, stray, turn>> /\ step' = step BY <1>32 DEF Serve
  <2>4. CASE c = Main
    <3>1. step \in Steps /\ call[Main].step = step BY <2>1, <2>4, MainCallIsCurrent
    <3>2. \A d \in Steps : call'[d] = call[d] BY <2>2, <2>4, StepTyped, <1>a
    <3>3. call[Main].op \in Settlements => lease'[step] = call[Main].op
      BY <1>a, <2>1, <2>4, <3>1, Words DEF Apply
    <3>4. call[Main].op # "claim" BY <2>1, <2>4, Words DEF Apply
    <3> HIDE DEF step
    <3> QED BY <1>a, <1>b, <2>1, <2>2, <2>3, <2>4, <3>1, <3>2, <3>3, <3>4, Words
  <2>5. CASE c # Main
    <3>1. c \in Steps BY <1>b, <2>5
    <3>2. call[Main] = NoCall /\ call'[Main] = NoCall
      BY <1>a, <2>1, <2>2, <2>5, <3>1, TurnCallIsCurrent, StepTyped
    <3> HIDE DEF step
    <3>3. call[c].op = "extend" /\ call[c].step = c /\ tpc[c] = "extend" BY <2>1, <3>1,
        TurnCallIsCurrent
    <3>4. \A s \in Steps : call'[s] # NoCall =>
             tpc'[s] = "extend" /\ call'[s].op = "extend" /\ call'[s].step = s
      BY <1>a, <2>2, <2>3, <3>1, <3>3, StepTyped
    <3>5. Fits(LeaseSeconds) => \A d \in Callers : call'[d].op = "extend" => call'[d].next > 0
      BY <1>a, <2>2
    <3> HIDE DEF step, Untouched
    <3> QED BY <1>a, <2>3, <3>2, <3>4, <3>5, Words
  <2> QED BY <2>4, <2>5
<1>33. ASSUME NEW t \in Steps, AppStartsTurn(t) PROVE CallInv'
  BY <1>33, <1>a DEF AppStartsTurn
<1>34. ASSUME NEW t \in Steps, AppEndsTurn(t) PROVE CallInv'
  BY <1>34, <1>a DEF AppEndsTurn
<1>35. CASE Terminated BY <1>35, <1>a DEF Terminated
<1> QED BY <1>1, <1>2, <1>3, <1>4, <1>5, <1>6, <1>7, <1>8, <1>9, <1>10, <1>11, <1>12,
    <1>13, <1>14, <1>15, <1>16, <1>17, <1>18, <1>19, <1>20, <1>21, <1>22, <1>23, <1>24,
        <1>25, <1>26, <1>27, <1>28, <1>29, <1>30, <1>31, <1>32, <1>33, <1>34,
            <1>35 DEF Next, MainStep, TurnGoroutine, TurnStep, Environment

\* A request is left under way only by a step that ends the driver.
LEMMA StrayInvPreserved ==
  ASSUME IInv, Next, TypeOK'
  PROVE  StrayInv'
<1> USE DEF StrayInv, Unrenewed, NoCall, Untouched, Over, step, Alive, Exits, vars,
    mainVars, turnVars, httpVars, serviceVars, appVars, TypeOK, CountsType, Steps, Main,
        Callers
<1>a. TypeOK /\ StepsInv /\ TurnInv /\ MainInv /\ CallInv /\ StrayInv BY DEF IInv
<1>1. CASE Loop BY <1>1, <1>a DEF Loop
<1>2. CASE VerifyFailed BY <1>2, <1>a DEF VerifyFailed
<1>3. CASE Claim
  <2>1. stray = {} BY <1>3, NothingStray DEF Claim
  <2> QED BY <1>3, <2>1 DEF Claim
<1>4. CASE ClaimedNothing BY <1>4, <1>a DEF ClaimedNothing
<1>5. CASE Idle BY <1>5, <1>a DEF Idle
<1>6. CASE Claimed BY <1>6, <1>a DEF Claimed
<1>7. CASE ThreadFailed BY <1>7, <1>a DEF ThreadFailed, Settle
<1>8. CASE ThreadStarted
  <2>1. stray = {} BY <1>8, NothingStray DEF ThreadStarted
  <2> QED BY <1>8, <2>1 DEF ThreadStarted
<1>9. CASE WaitForStart BY <1>9, <1>a DEF WaitForStart, Settle, TurnReturned
<1>10. CASE RenewResult BY <1>10, <1>a DEF RenewResult, Settle, TurnReturned
<1>11. CASE RenewTick BY <1>11, <1>a DEF RenewTick
<1>12. CASE RenewCancelled BY <1>12, <1>a DEF RenewCancelled
<1>13. CASE Renewed BY <1>13, <1>a DEF Renewed
<1>14. CASE RenewFailed
  <2>1. step \in Steps /\ call[Main].step = step
    BY <1>14, <1>a, Words, MainCallIsCurrent DEF RenewFailed, CallInv
  <2>2. \A r \in stray' : r \in stray \/ r = call[Main] BY <1>14 DEF RenewFailed, Abandon
  <2>3. pc' = "interruptUnrenewed" /\ UNCHANGED <<counts,
      turnVars>> BY <1>14 DEF RenewFailed
  <2> QED BY <1>a, <2>1, <2>2, <2>3
<1>15. CASE GiveUp BY <1>15, <1>a DEF GiveUp, InterruptActiveTurn
<1>16. CASE Settled BY <1>16, <1>a DEF Settled
<1>17. CASE CallFailed
  <2>1. call[Main].step = step
    BY <1>17, <1>a, Words, MainCallIsCurrent DEF CallFailed, CallInv
  <2>2. \A r \in stray' : r \in stray \/ r = call[Main] BY <1>17 DEF CallFailed, Abandon
  <2>3. pc' = "failed" /\ UNCHANGED <<counts, turnVars>> BY <1>17 DEF CallFailed
  <2> QED BY <1>a, <2>1, <2>2, <2>3
<1>18. ASSUME NEW t \in Steps, TurnOpened(t) PROVE StrayInv'
  BY <1>18, <1>a, CurrentTurn DEF TurnOpened
<1>19. ASSUME NEW t \in Steps, TurnRequested(t) PROVE StrayInv'
  BY <1>19, <1>a, CurrentTurn DEF TurnRequested
<1>20. ASSUME NEW t \in Steps, TurnStarted(t) PROVE StrayInv'
  <2>1. /\ tpc[t] = "decode"
        /\ tpc' = [tpc EXCEPT ![t] = "interrupt"] \/ tpc' = [tpc EXCEPT ![t] = "extend"]
        /\ UNCHANGED <<pc, started, result, turn, interrupts, stray>>
    BY <1>20 DEF TurnStarted
  <2>2. counts'.turn = t /\ step' = step BY <1>20, <1>a DEF TurnStarted
  <2>3. t = step BY <2>1, CurrentTurn
  <2>4. \A s \in Steps : s # t => tpc'[s] = tpc[s] BY <1>a, <2>1
  <2>5. tpc'[t] \in {"interrupt", "extend"} BY <1>a, <2>1
  <2> HIDE DEF step
  <2> QED BY <1>a, <2>1, <2>2, <2>3, <2>4, <2>5
<1>21. ASSUME NEW t \in Steps, FirstExtended(t) PROVE StrayInv'
  <2>1. /\ tpc[t] = "extend"
        /\ tpc' = [tpc EXCEPT ![t] = "completion"] /\ started' = [started EXCEPT ![t] = TRUE]
        /\ UNCHANGED <<pc, result, turn, interrupts, stray>>
    BY <1>21 DEF FirstExtended
  <2>2. counts'.turn = counts.turn /\ step' = step BY <1>21, <1>a DEF FirstExtended
  <2>3. t = step BY <2>1, CurrentTurn
  <2>4. \A s \in Steps : s # t => tpc'[s] = tpc[s] /\ started'[s] = started[s]
    BY <1>a, <2>1
  <2>5. tpc'[t] = "completion" /\ started'[t] BY <1>a, <2>1
  <2> HIDE DEF step
  <2> QED BY <1>a, <2>1, <2>2, <2>3, <2>4, <2>5, CurrentTurn
<1>22. ASSUME NEW t \in Steps, FirstExtendFailed(t) PROVE StrayInv'
  <2>1. t = step BY <1>22, CurrentTurn DEF FirstExtendFailed
  <2>2. call[t].st = "sent" => call[t].step = t BY TurnCallIsCurrent, Words
  <2>3. \A r \in stray' : r \in stray \/ (r = call[t] /\ call[t].st = "sent")
    BY <1>22 DEF FirstExtendFailed, Abandon
  <2>4. tpc'[t] = "interrupt" /\ UNCHANGED counts BY <1>22, <1>a DEF FirstExtendFailed
  <2> QED BY <1>a, <2>1, <2>2, <2>3, <2>4
<1>23. ASSUME NEW t \in Steps, InterruptedUnrenewed(t) PROVE StrayInv'
  BY <1>23, <1>a, CurrentTurn DEF InterruptedUnrenewed, InterruptActiveTurn
<1>24. ASSUME NEW t \in Steps, ReturnUnrenewed(t) PROVE StrayInv'
  BY <1>24, <1>a, CurrentTurn DEF ReturnUnrenewed
<1>25. ASSUME NEW t \in Steps, TurnDone(t) PROVE StrayInv'
  <2>1. tpc[t] \notin {"interrupt", "returning",
      "returned"} /\ result[t] # "extensionFailed"
    BY <1>25, <1>a DEF TurnDone, TurnInv
  <2>2. UNCHANGED <<pc, counts, stray>>
        /\ \A s \in Steps : s # t => tpc'[s] = tpc[s] /\ result'[s] = result[s]
    BY <1>25, <1>a DEF TurnDone
  <2>3. \A s \in Steps : Unrenewed(s) => Unrenewed(s)' BY <2>1, <2>2
  <2> QED BY <1>a, <2>2, <2>3
<1>26. ASSUME NEW t \in Steps, TurnError(t) PROVE StrayInv'
  <2>1. tpc[t] \notin {"interrupt", "returning",
      "returned"} /\ result[t] # "extensionFailed"
    BY <1>26, <1>a DEF TurnError, TurnInv
  <2>2. UNCHANGED <<pc, counts, stray>>
        /\ \A s \in Steps : s # t => tpc'[s] = tpc[s] /\ result'[s] = result[s]
    BY <1>26, <1>a DEF TurnError
  <2>3. \A s \in Steps : Unrenewed(s) => Unrenewed(s)' BY <2>1, <2>2
  <2> QED BY <1>a, <2>2, <2>3
<1>27. CASE ServeClaim BY <1>27, <1>a DEF ServeClaim
<1>28. CASE ServeStray BY <1>28, <1>a DEF ServeStray, Apply
<1>29. CASE ExpireLease BY <1>29, <1>a DEF ExpireLease
<1>30. CASE Cancel BY <1>30, <1>a DEF Cancel
<1>31. CASE Kill BY <1>31, <1>a DEF Kill
<1>32. ASSUME NEW c \in Callers, Serve(c) PROVE StrayInv'
  BY <1>32, <1>a DEF Serve, Apply
<1>33. ASSUME NEW t \in Steps, AppStartsTurn(t) PROVE StrayInv'
  BY <1>33, <1>a DEF AppStartsTurn
<1>34. ASSUME NEW t \in Steps, AppEndsTurn(t) PROVE StrayInv'
  BY <1>34, <1>a DEF AppEndsTurn
<1>35. CASE Terminated BY <1>35, <1>a DEF Terminated
<1> QED BY <1>1, <1>2, <1>3, <1>4, <1>5, <1>6, <1>7, <1>8, <1>9, <1>10, <1>11, <1>12,
    <1>13, <1>14, <1>15, <1>16, <1>17, <1>18, <1>19, <1>20, <1>21, <1>22, <1>23, <1>24,
        <1>25, <1>26, <1>27, <1>28, <1>29, <1>30, <1>31, <1>32, <1>33, <1>34,
            <1>35 DEF Next, MainStep, TurnGoroutine, TurnStep, Environment

\* Every settlement, sent, under way or recorded, stays justified.
LEMMA SettleInvPreserved ==
  ASSUME IInv, Next, TypeOK'
  PROVE  SettleInv'
<1> USE DEF SettleInv, Justified, InStep, Untouched, Over, step, vars, mainVars, turnVars,
    httpVars, serviceVars, appVars, TypeOK, CountsType
<1>a. TypeOK /\ StepsInv /\ TurnInv /\ MainInv /\ CallInv /\ StrayInv /\ SettleInv BY DEF IInv
<1>b. \A c \in Callers : c = Main \/ c \in Steps BY DEF Callers, Main
<1>1. CASE Loop BY <1>1, <1>a DEF Loop
<1>2. CASE VerifyFailed BY <1>2, <1>a DEF VerifyFailed
<1>3. CASE Claim
  <2>1. /\ step' \in Steps /\ stray = {} /\ call[Main] = NoCall
        /\ \A s \in Steps : s = step' => s > step
    BY <1>3, ClaimsNext
  <2>2. UNCHANGED <<stray, turnVars, lease, turn>> BY <1>3 DEF Claim
  <2>3. \A s \in Steps : s = step' => lease'[s] = "none" BY <1>a, <2>1, <2>2 DEF StepsInv
  <2>4. call'[Main].op \notin Settlements
    BY <1>3, <1>a, <2>1, ClaimCall, Words DEF Claim
  <2>5. \A s \in Steps : lease'[s] \in Settlements => Justified(lease[s], s)'
    BY <1>a, <2>2
  <2> HIDE DEF step, Justified
  <2>6. stray' = {} BY <2>1, <2>2
  <2> QED BY <2>1, <2>3, <2>4, <2>5, <2>6, Words
<1>4. CASE ClaimedNothing
  <2>1. UNCHANGED <<turnVars, serviceVars, turn>> /\ step' = step BY <1>4,
      <1>a DEF ClaimedNothing
  <2>2. call'[Main].op \in Settlements => call'[Main].op = call[Main].op
    BY <1>4, <1>a, MainForgets, Words DEF ClaimedNothing
  <2>3. \A r \in stray' : r \in stray \/ r = call[Main] BY <1>4 DEF ClaimedNothing
  <2>4. pc' = "idle" BY <1>4, <1>a DEF ClaimedNothing
  <2>5. pc \in InStep => \A s \in Steps : s = step => lease[s] \notin Settlements BY <1>a
  <2> HIDE DEF step
  <2> QED BY <2>1, <2>2, <2>3, <2>4, <2>5, SettleKept
<1>5. CASE Idle BY <1>5, <1>a DEF Idle
<1>6. CASE Claimed
  <2>1. /\ step \in Steps /\ Untouched(step) /\ call[Main].op = "claim"
        /\ UNCHANGED <<stray, counts, turnVars, serviceVars, turn>>
    BY <1>6, <1>a, MainCallIsCurrent, Words DEF Claimed, CallInv
  <2>2. CASE /\ call' = [call EXCEPT ![Main] = Request("invalid_payload", step, 0)]
             /\ pc' = "settle"
    <3>1. Justified("invalid_payload", step) BY <2>1 DEF Justified, Over, Untouched
    <3>2. "invalid_payload" \in Settlements BY DEF Settlements, NackCodes
    <3> QED BY <1>6, <2>1, <2>2, <3>1, <3>2, SettlementSent DEF Claimed
  <2>3. CASE call' = [call EXCEPT ![Main] = NoCall] /\ pc' \in {"failed", "thread"}
    <3>1. call'[Main] = NoCall /\ \A c \in Steps : call'[c] = call[c]
      BY <1>a, <2>3, MainForgets
    <3>2. step' = step BY <2>1 DEF step
    <3>3. pc = "claim" BY <1>6 DEF Claimed
    <3>4. lease[step] \notin Settlements BY <1>a, <2>1, <3>3
    <3> HIDE DEF step
    <3> QED BY <2>1, <2>3, <3>1, <3>2, <3>3, <3>4, SettleKept, Words
  <2> QED BY <1>6, <2>2, <2>3 DEF Claimed
<1>7. CASE ThreadFailed
  <2>1. step \in Steps /\ Untouched(step)
    BY <1>7, <1>a DEF ThreadFailed, StepsInv, MainInv, InStep
  <2>2. Justified("app_unreachable", step) BY <2>1 DEF Justified, Over, Untouched
  <2>3. "app_unreachable" \in Settlements BY DEF Settlements, NackCodes
  <2> QED BY <1>7, <2>1, <2>2, <2>3, SettlePreserves DEF ThreadFailed
<1>8. CASE ThreadStarted BY <1>8, <1>a DEF ThreadStarted
<1>9. CASE WaitForStart
  <2>1. UNCHANGED <<stray, counts, turnVars, serviceVars, turn>> BY <1>9 DEF WaitForStart
  <2>2. CASE pc' = "renew" /\ UNCHANGED call
    <3>1. step' = step BY <2>1 DEF step
    <3> HIDE DEF step
    <3>2. pc = "waitStart" BY <1>9 DEF WaitForStart
    <3>3. \A s \in Steps : s = step => lease[s] \notin Settlements BY <1>a, <3>2
    <3> QED BY <2>1, <2>2, <3>1, <3>2, <3>3, SettleKept
  <2> QED BY <1>9, <2>1, <2>2, TurnReturnedPreserves DEF WaitForStart
<1>10. CASE RenewResult
  <2>1. UNCHANGED <<stray, counts, turnVars, serviceVars, turn>> BY <1>10 DEF RenewResult
  <2> QED BY <1>10, <2>1, TurnReturnedPreserves DEF RenewResult
<1>11. CASE RenewTick
  <2>1. UNCHANGED <<stray, turnVars, serviceVars, turn>> /\ step' = step /\ pc = "renew"
    BY <1>11, <1>a DEF RenewTick
  <2>2. call'[Main].op \in Settlements => call'[Main].op = call[Main].op
    BY <1>11, TickCall, Words DEF RenewTick
  <2>3. pc' \in {"interruptUnrenewed", "extend"} BY <1>11 DEF RenewTick
  <2>4. \A s \in Steps : s = step => lease[s] \notin Settlements BY <1>a, <2>1
  <2> HIDE DEF step
  <2> QED BY <2>1, <2>2, <2>3, <2>4, SettleKept
<1>12. CASE RenewCancelled BY <1>12, <1>a DEF RenewCancelled
<1>13. CASE Renewed
  <2>1. UNCHANGED <<turnVars, serviceVars, turn>> /\ step' = step BY <1>13, <1>a DEF Renewed
  <2>2. call'[Main].op \in Settlements => call'[Main].op = call[Main].op
    BY <1>13, <1>a, MainForgets, Words DEF Renewed
  <2>3. \A r \in stray' : r \in stray \/ r = call[Main] BY <1>13 DEF Renewed
  <2>4. pc = "extend" /\ pc' = "renew" BY <1>13, <1>a DEF Renewed
  <2>5. pc \in InStep => \A s \in Steps : s = step => lease[s] \notin Settlements BY <1>a
  <2> HIDE DEF step
  <2> QED BY <2>1, <2>2, <2>3, <2>4, <2>5, SettleKept
<1>14. CASE RenewFailed
  <2>1. UNCHANGED <<turnVars, serviceVars, turn>> /\ step' = step BY <1>14,
      <1>a DEF RenewFailed
  <2>2. call'[Main].op \in Settlements => call'[Main].op = call[Main].op
    BY <1>14, <1>a, MainForgets, Words DEF RenewFailed, Abandon
  <2>3. \A r \in stray' : r \in stray \/ r = call[Main] BY <1>14 DEF RenewFailed, Abandon
  <2>4. pc = "extend" /\ pc' = "interruptUnrenewed" BY <1>14, <1>a DEF RenewFailed
  <2>5. pc \in InStep => \A s \in Steps : s = step => lease[s] \notin Settlements BY <1>a
  <2> HIDE DEF step
  <2> QED BY <2>1, <2>2, <2>3, <2>4, <2>5, SettleKept
<1>15. CASE GiveUp BY <1>15, <1>a DEF GiveUp, InterruptActiveTurn
<1>16. CASE Settled
  <2>1. UNCHANGED <<turnVars, serviceVars, turn>> /\ step' = step BY <1>16, <1>a DEF Settled
  <2>2. call'[Main].op \in Settlements => call'[Main].op = call[Main].op
    BY <1>16, <1>a, MainForgets, Words DEF Settled
  <2>3. \A r \in stray' : r \in stray \/ r = call[Main] BY <1>16 DEF Settled
  <2>4. pc' = "loop" BY <1>16, <1>a DEF Settled
  <2>5. pc \in InStep => \A s \in Steps : s = step => lease[s] \notin Settlements BY <1>a
  <2> HIDE DEF step
  <2> QED BY <2>1, <2>2, <2>3, <2>4, <2>5, SettleKept
<1>17. CASE CallFailed
  <2>1. UNCHANGED <<turnVars, serviceVars, turn>> /\ step' = step BY <1>17,
      <1>a DEF CallFailed
  <2>2. call'[Main].op \in Settlements => call'[Main].op = call[Main].op
    BY <1>17, <1>a, MainForgets, Words DEF CallFailed, Abandon
  <2>3. \A r \in stray' : r \in stray \/ r = call[Main] BY <1>17 DEF CallFailed, Abandon
  <2>4. pc' = "failed" BY <1>17, <1>a DEF CallFailed
  <2>5. pc \in InStep => \A s \in Steps : s = step => lease[s] \notin Settlements BY <1>a
  <2> HIDE DEF step
  <2> QED BY <2>1, <2>2, <2>3, <2>4, <2>5, SettleKept
<1>18. ASSUME NEW t \in Steps, TurnOpened(t) PROVE SettleInv'
  BY <1>18, <1>a, CurrentTurn DEF TurnOpened
<1>19. ASSUME NEW t \in Steps, TurnRequested(t) PROVE SettleInv'
  BY <1>19, <1>a, CurrentTurn DEF TurnRequested
<1>20. ASSUME NEW t \in Steps, TurnStarted(t) PROVE SettleInv'
  <2>1. t = step /\ ~Over(t) BY <1>20, CurrentTurn DEF TurnStarted
  <2>2. UNCHANGED <<pc, result, serviceVars, turn>> /\ step' = step BY <1>20,
      <1>a DEF TurnStarted
  <2>3. \A s \in Steps : s # t => tpc'[s] = tpc[s] /\ started'[s] = started[s]
    BY <1>20, <1>a DEF TurnStarted
  <2>4. call'[Main] = call[Main] BY <1>20, <1>a, StepTyped DEF TurnStarted
  <2>5. \A r \in stray' : r \in stray \/ r.op = "extend"
    BY <1>20, TurnCallIsCurrent, Words DEF TurnStarted
  <2>6. \A s \in Steps, op \in Settlements : Justified(op, s) => Justified(op, s)'
    BY <2>1, <2>2, <2>3
  <2>7. pc \in InStep => \A s \in Steps : s = step => lease[s] \notin Settlements BY <1>a
  <2> HIDE DEF step
  <2> QED BY <2>2, <2>4, <2>5, <2>6, <2>7, SettleKept, Words
<1>21. ASSUME NEW t \in Steps, FirstExtended(t) PROVE SettleInv'
  <2>1. t = step /\ ~Over(t) BY <1>21, CurrentTurn DEF FirstExtended
  <2>2. UNCHANGED <<pc, result, serviceVars, turn>> /\ step' = step BY <1>21,
      <1>a DEF FirstExtended
  <2>3. \A s \in Steps : s # t => tpc'[s] = tpc[s] /\ started'[s] = started[s]
    BY <1>21, <1>a DEF FirstExtended
  <2>4. call'[Main] = call[Main] BY <1>21, <1>a, StepTyped DEF FirstExtended
  <2>5. \A r \in stray' : r \in stray \/ r.op = "extend"
    BY <1>21, TurnCallIsCurrent, Words DEF FirstExtended
  <2>6. \A s \in Steps, op \in Settlements : Justified(op, s) => Justified(op, s)'
    BY <2>1, <2>2, <2>3
  <2>7. pc \in InStep => \A s \in Steps : s = step => lease[s] \notin Settlements BY <1>a
  <2> HIDE DEF step
  <2> QED BY <2>2, <2>4, <2>5, <2>6, <2>7, SettleKept, Words
<1>22. ASSUME NEW t \in Steps, FirstExtendFailed(t) PROVE SettleInv'
  <2>1. t = step /\ ~Over(t) BY <1>22, CurrentTurn DEF FirstExtendFailed
  <2>2. UNCHANGED <<pc, result, serviceVars, turn>> /\ step' = step BY <1>22,
      <1>a DEF FirstExtendFailed
  <2>3. \A s \in Steps : s # t => tpc'[s] = tpc[s] /\ started'[s] = started[s]
    BY <1>22, <1>a DEF FirstExtendFailed
  <2>4. call'[Main] = call[Main] BY <1>22, <1>a, StepTyped DEF FirstExtendFailed, Abandon
  <2>5. \A r \in stray' : r \in stray \/ r.op = "extend"
    BY <1>22, TurnCallIsCurrent, Words DEF FirstExtendFailed, Abandon
  <2>6. \A s \in Steps, op \in Settlements : Justified(op, s) => Justified(op, s)'
    BY <2>1, <2>2, <2>3
  <2>7. pc \in InStep => \A s \in Steps : s = step => lease[s] \notin Settlements BY <1>a
  <2> HIDE DEF step
  <2> QED BY <2>2, <2>4, <2>5, <2>6, <2>7, SettleKept, Words
<1>23. ASSUME NEW t \in Steps, InterruptedUnrenewed(t) PROVE SettleInv'
  BY <1>23, <1>a, CurrentTurn DEF InterruptedUnrenewed, InterruptActiveTurn
<1>24. ASSUME NEW t \in Steps, ReturnUnrenewed(t) PROVE SettleInv'
  BY <1>24, <1>a, CurrentTurn DEF ReturnUnrenewed
<1>25. ASSUME NEW t \in Steps, TurnDone(t) PROVE SettleInv'
  BY <1>25, <1>a, CurrentTurn DEF TurnDone
<1>26. ASSUME NEW t \in Steps, TurnError(t) PROVE SettleInv'
  BY <1>26, <1>a, CurrentTurn DEF TurnError
<1>27. CASE ServeClaim
  <2>1. call[Main].op = "claim" /\ call[Main] \in Calls
    BY <1>27, <1>a, Words, StepTyped, CallerTyped DEF ServeClaim
  <2>2. call'[Main].op = "claim"
    <3>1. CASE call' = [call EXCEPT ![Main] = [@ EXCEPT !.st = "empty"]]
      BY <1>a, <2>1, <3>1, StepTyped DEF Calls
    <3>2. ASSUME NEW e, call' = [call EXCEPT ![Main] = [@ EXCEPT !.st = "ok", !.next = e]]
          PROVE  call'[Main].op = "claim"
      BY <1>a, <2>1, <3>2, StepTyped DEF Calls
    <3> QED BY <1>27, <3>1, <3>2 DEF ServeClaim
  <2>3. UNCHANGED <<pc, stray, turnVars, turn>> /\ step' = step BY <1>27 DEF ServeClaim
  <2>4. \A s \in Steps : lease'[s] \in Settlements => lease'[s] = lease[s]
    <3>1. lease' = lease \/ lease' = [lease EXCEPT ![step] = "held"]
      BY <1>27 DEF ServeClaim
    <3> QED BY <1>a, <3>1, Words
  <2>5. pc \in InStep => \A s \in Steps : s = step => lease'[s] \notin Settlements
    BY <1>a, <2>4
  <2> HIDE DEF step
  <2> QED BY <2>1, <2>2, <2>3, <2>4, <2>5, SettleKept, Words
<1>28. CASE ServeStray
  <2>1. PICK r \in stray :
          /\ stray' = stray \ {r}
          /\ \/ Apply(r)
             \/ /\ r.op = "claim"
                /\ \E e \in ClaimExpiries :
                     /\ lease' = [lease EXCEPT ![r.step] = "held"]
                     /\ leaseExpiry' = [leaseExpiry EXCEPT ![r.step] = e]
    BY <1>28 DEF ServeStray
  <2>2. r.step = step /\ step \in Steps BY <1>a DEF StrayInv, Calls
  <2>3. UNCHANGED <<pc, call, turnVars, turn>> /\ step' = step BY <1>28 DEF ServeStray
  <2>4. \A s \in Steps : lease'[s] \in Settlements =>
           lease'[s] = lease[s] \/ (s = step /\ lease'[s] = r.op)
    BY <1>a, <2>1, <2>2, Words DEF Apply
  <2>5. r.op \in Settlements => Justified(r.op, step) BY <1>a, <2>2
  <2>6. pc \in InStep => r.op \notin Settlements /\ lease[step] \notin Settlements
    BY <1>a, <2>2
  <2> HIDE DEF step, Justified, InStep
  <2>7. \A s \in Steps, op \in Settlements : Justified(op, s) => Justified(op, s)'
    BY <2>3 DEF Justified
  <2> QED BY <2>1, <2>2, <2>3, <2>4, <2>5, <2>6, <2>7, SettleKept
<1>29. CASE ExpireLease
  <2>1. UNCHANGED <<pc, call, stray, turnVars,
      turn>> /\ step' = step BY <1>29 DEF ExpireLease
  <2>2. \A s \in Steps : lease'[s] \in Settlements => lease'[s] = lease[s]
    BY <1>29, <1>a, Words DEF ExpireLease
  <2>3. pc \in InStep => \A s \in Steps : s = step => lease'[s] \notin Settlements
    BY <1>a, <2>2
  <2> HIDE DEF step
  <2> QED BY <2>1, <2>2, <2>3, SettleKept
<1>30. CASE Cancel BY <1>30, <1>a DEF Cancel
<1>31. CASE Kill BY <1>31, <1>a DEF Kill
<1>32. ASSUME NEW c \in Callers, Serve(c) PROVE SettleInv'
  <2>1. /\ call[c] # NoCall /\ call[c] \in Calls /\ Apply(call[c])
        /\ call[c].step = step /\ step \in Steps
    BY <1>32, <1>a, <1>b, Words, CallerTyped, MainCallIsCurrent, TurnCallIsCurrent DEF Serve
  <2>2. UNCHANGED <<pc, stray, turnVars, turn>> /\ step' = step BY <1>32 DEF Serve
  <2>3. call'[Main].op = call[Main].op
    BY <1>32, <1>a, <2>1, StepTyped DEF Serve, Calls
  <2>4. call[c].op \in Settlements => c = Main BY <1>b, <2>1, TurnCallIsCurrent, Words
  <2>5. \A s \in Steps : lease'[s] \in Settlements =>
           lease'[s] = lease[s] \/ (s = step /\ lease'[s] = call[c].op)
    BY <1>a, <2>1 DEF Apply
  <2>6. call[c].op \in Settlements => Justified(call[c].op, step) BY <1>a, <2>1, <2>4
  <2>7. pc \in InStep => call[c].op \notin Settlements /\ lease[step] \notin Settlements
    BY <1>a, <2>1, <2>4
  <2> HIDE DEF step, Justified, InStep
  <2>8. \A s \in Steps, op \in Settlements : Justified(op, s) => Justified(op, s)'
    BY <2>2 DEF Justified
  <2> QED BY <2>1, <2>2, <2>3, <2>5, <2>6, <2>7, <2>8, SettleKept
<1>33. ASSUME NEW t \in Steps, AppStartsTurn(t) PROVE SettleInv'
  BY <1>33, <1>a DEF AppStartsTurn
<1>34. ASSUME NEW t \in Steps, AppEndsTurn(t) PROVE SettleInv'
  BY <1>34, <1>a DEF AppEndsTurn
<1>35. CASE Terminated BY <1>35, <1>a DEF Terminated
<1> QED BY <1>1, <1>2, <1>3, <1>4, <1>5, <1>6, <1>7, <1>8, <1>9, <1>10, <1>11, <1>12,
    <1>13, <1>14, <1>15, <1>16, <1>17, <1>18, <1>19, <1>20, <1>21, <1>22, <1>23, <1>24,
        <1>25, <1>26, <1>27, <1>28, <1>29, <1>30, <1>31, <1>32, <1>33, <1>34,
            <1>35 DEF Next, MainStep, TurnGoroutine, TurnStep, Environment

\* The driver starts in the invariant: nothing was claimed, sent or settled yet.
LEMMA InitIInv == Init => IInv
<1> SUFFICES ASSUME Init PROVE IInv OBVIOUS
<1> USE DEF Init
<1>1. TypeOK
  <2>1. counts \in CountsType BY BoundsAssumption DEF CountsType
  <2>2. call \in [Callers -> Calls \cup {NoCall}] OBVIOUS
  <2> QED BY <2>1, <2>2, TimesTyped DEF TypeOK, MainPoints, TurnPoints
<1>2. step = 0 /\ \A s \in Steps : s \in Nat /\ s > 0 BY BoundsAssumption DEF step, Steps
<1>3. StepsInv
  <2> HIDE DEF step
  <2>1. \A s \in Steps : ~(s < step) /\ s # step BY <1>2
  <2> QED BY <2>1 DEF StepsInv, Untouched, InStep
<1>4. TurnInv BY DEF TurnInv, TurnStatuses
<1>5. MainInv BY DEF MainInv, AfterStart
<1>6. \A c \in Callers : call[c] = NoCall /\ call[c].op = "none" BY DEF NoCall
<1>7. CallInv BY <1>2, <1>6, Words DEF CallInv, Callers, Main
<1>8. StrayInv BY DEF StrayInv
<1>9. SettleInv BY <1>2, Words DEF SettleInv
<1> QED BY <1>1, <1>3, <1>4, <1>5, <1>7, <1>8, <1>9 DEF IInv

\* Every step of the driver, the service or the app server keeps the invariant.
LEMMA StepIInv == IInv /\ [Next]_vars => IInv'
<1>1. ASSUME IInv, Next PROVE IInv'
  <2>1. TypeOK' BY <1>1, TypeOKPreserved
  <2>2. StepsInv' /\ TurnInv' /\ MainInv'
    BY <1>1, <2>1, StepsInvPreserved, TurnInvPreserved, MainInvPreserved
  <2>3. CallInv' /\ StrayInv' /\ SettleInv'
    BY <1>1, <2>1, CallInvPreserved, StrayInvPreserved, SettleInvPreserved
  <2> QED BY <2>1, <2>2, <2>3 DEF IInv
<1>2. ASSUME IInv, UNCHANGED vars PROVE IInv'
  BY <1>2
  DEF vars, mainVars, turnVars, httpVars, serviceVars, appVars, IInv, TypeOK, StepsInv,
      TurnInv, MainInv, CallInv, StrayInv, SettleInv, Untouched, Over, Justified, Unrenewed,
      Alive, step
<1> QED BY <1>1, <1>2

\* IInv holds in every state the transmit loop reaches.
THEOREM Invariance == Spec => []IInv
BY InitIInv, StepIInv, PTL DEF Spec

\* Every variable keeps its type, and no turn is spawned on a lease whose expiry is the
\* zero time (leaseRenewal.now stands in for it).
THEOREM TypeCorrect == Spec => []TypeOK
<1>1. IInv => TypeOK BY DEF IInv
<1> QED BY <1>1, Invariance, PTL

\* An ack is only recorded for a turn that completed, turn_failed only for one that
\* ended otherwise, and the two early codes only where no turn was asked for.
THEOREM SettlementsAreTrue == Spec => []SettlementsMatchTurn
<1>1. IInv => SettlementsMatchTurn
  BY DEF IInv, SettleInv, Justified, SettlementsMatchTurn, Untouched, Settlements, NackCodes
<1> QED BY <1>1, Invariance, PTL

\* A lease that could not be extended is never settled, not even by a request that is
\* still under way, and no later claim is made.
THEOREM UnrenewedIsLeft == Spec => []UnrenewedNeverSettled
<1>1. ASSUME IInv, NEW s \in Steps, Unrenewed(s)
      PROVE  /\ s = step
             /\ lease[s] \notin Settlements
             /\ \A r \in Pending : r.step = s => r.op \notin Settlements
  <2>1. TypeOK /\ CallInv /\ SettleInv BY <1>1 DEF IInv
  <2>2. CASE ~Over(s)
    <3>1. s = step /\ lease[s] \notin Settlements BY <1>1, <2>2, CurrentTurn
    <3>2. call[Main].op \notin Settlements /\ \A r \in stray : r.op \notin Settlements
      BY <2>1, <2>2, <3>1 DEF SettleInv, Justified
    <3>3. \A t \in Steps : call[t].op \notin Settlements
      BY <2>1, Words DEF CallInv
    <3> QED BY <3>1, <3>2, <3>3 DEF Pending, Callers, Main
  <2>3. CASE Over(s)
    <3>1. s = step /\ pc \in {"interruptUnrenewed", "unrenewed"}
      BY <1>1, <2>3 DEF Unrenewed, Over
    <3>2. /\ lease[s] \notin Settlements
          /\ call[Main].op \notin Settlements /\ \A r \in stray : r.op \notin Settlements
      BY <2>1, <3>1 DEF SettleInv, InStep
    <3>3. \A t \in Steps : call[t].op \notin Settlements
      BY <2>1, Words DEF CallInv
    <3> QED BY <3>1, <3>2, <3>3 DEF Pending, Callers, Main
  <2> QED BY <2>2, <2>3
<1>2. IInv => UnrenewedNeverSettled BY <1>1 DEF UnrenewedNeverSettled
<1> QED BY <1>2, Invariance, PTL

\* When Run ends because of a lease it could not extend, the turn was interrupted.
THEOREM UnrenewedIsInterrupted == Spec => []UnrenewedInterrupted
<1>1. IInv => UnrenewedInterrupted
  BY DEF IInv, StepsInv, MainInv, InStep, UnrenewedInterrupted
<1> QED BY <1>1, Invariance, PTL

\* Before the driver claims again, the lease it held was settled at the service.
THEOREM LeasesOneAtATime == Spec => []OneLeaseAtATime
<1>1. IInv => OneLeaseAtATime BY DEF IInv, StepsInv, OneLeaseAtATime
<1> QED BY <1>1, Invariance, PTL

\* The main and the turn goroutine are never in an HTTP call at the same time.
THEOREM CallsOneAtATime == Spec => []OneCallAtATime
<1>1. ASSUME IInv, NEW c \in Callers, NEW d \in Callers, call[c] # NoCall, call[d] # NoCall
      PROVE  c = d
  <2>1. \A e \in Callers : e = Main \/ e \in Steps BY DEF Callers, Main
  <2> HIDE DEF step
  <2> QED BY <1>1, <2>1, TurnCallIsCurrent
<1>2. IInv => OneCallAtATime BY <1>1 DEF OneCallAtATime
<1> QED BY <1>2, Invariance, PTL

\* No turn goroutine is left behind when the next step begins.
THEOREM TurnsDoNotLeak == Spec => []NoLeakedTurn
<1>1. IInv => NoLeakedTurn BY DEF IInv, StepsInv, Over, NoLeakedTurn
<1> QED BY <1>1, Invariance, PTL

\* A turn left running by a step the driver has finished was nacked as app_error.
THEOREM OrphansAreNacked == Spec => []OrphansNacked
<1>1. IInv => OrphansNacked
  BY DEF IInv, StepsInv, SettleInv, Justified, Untouched, OrphansNacked, Settlements, NackCodes
<1> QED BY <1>1, Invariance, PTL

\* An interrupt only ever goes to the turn of the current step, before its settlement.
THEOREM InterruptsAreOwn == Spec => InterruptsOwnTurn
<1> DEFINE Own == \A t \in interrupts' \ interrupts : t = step /\ lease[t] \notin Settlements
<1>1. ASSUME IInv, GiveUp PROVE Own
  <2>1. step \in Steps /\ started[step]
    BY <1>1 DEF IInv, StepsInv, MainInv, InStep, AfterStart, GiveUp
  <2>2. counts.turn = step BY <1>1, <2>1 DEF IInv, TurnInv
  <2>3. lease[step] \notin Settlements
    BY <1>1, <2>1 DEF IInv, SettleInv, InStep, GiveUp
  <2> QED BY <1>1, <2>2, <2>3 DEF GiveUp, InterruptActiveTurn, appVars
<1>2. ASSUME IInv, NEW t \in Steps, InterruptedUnrenewed(t) PROVE Own
  <2>1. t = step /\ lease[t] \notin Settlements
    BY <1>2, CurrentTurn DEF InterruptedUnrenewed, Over
  <2>2. counts.turn = t BY <1>2 DEF IInv, TurnInv, InterruptedUnrenewed
  <2> QED BY <1>2, <2>1, <2>2 DEF InterruptedUnrenewed, InterruptActiveTurn, appVars
<1>3. ASSUME Next, ~GiveUp, \A t \in Steps : ~InterruptedUnrenewed(t)
      PROVE  interrupts' = interrupts
  BY <1>3
  DEF Next, MainStep, TurnGoroutine, TurnStep, Environment, Terminated, vars, appVars,
      Loop, VerifyFailed, Claim, ClaimedNothing, Idle, Claimed, ThreadFailed, ThreadStarted,
      WaitForStart, RenewResult, RenewTick, RenewCancelled, Renewed, RenewFailed, Settled,
      CallFailed, TurnOpened, TurnRequested, TurnStarted, FirstExtended, FirstExtendFailed,
      ReturnUnrenewed, TurnDone, TurnError, ServeClaim, ServeStray, ExpireLease, Cancel, Kill,
      Serve, AppStartsTurn, AppEndsTurn
<1>4. IInv /\ [Next]_vars => [Own]_vars
  BY <1>1, <1>2, <1>3
<1> HIDE DEF Own
<1>5. Spec => [][Own]_vars BY <1>4, Invariance, PTL DEF Spec
<1> QED BY <1>5 DEF Own, InterruptsOwnTurn
=============================================================================
