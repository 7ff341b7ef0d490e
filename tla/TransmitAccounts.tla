-------------------------- MODULE TransmitAccounts --------------------------
(***************************************************************************)
(* What the driver knows of the invocation service's records, for every    *)
(* value of the constants: how many leases were acked and nacked (the      *)
(* fields of status.Counts), and how late the lease in hand expires        *)
(* (leaseRenewal.expiresAt).                                               *)
(*                                                                         *)
(* Both are behind the service by the one answer that is on its way, which *)
(* is what the two invariants say precisely; with the answer lost they are *)
(* behind for ever, and the driver claims nothing more.                    *)
(***************************************************************************)
EXTENDS TransmitRefinement, FiniteSetTheorems

\* One settlement is recorded at the service while its answer is still on its way.
Unheard(ops) ==
    IF pc = "settle" /\ call[Main].st = "ok" /\ call[Main].op \in ops THEN 1 ELSE 0

\* One attempt is being worked on.
Open == IF pc \in BetweenSteps THEN 0 ELSE 1

\* Counts never runs ahead of the service, and while Run goes on it is behind by the
\* answer it waits for only; every attempt is accounted for.
CountsInv ==
    /\ counts.acks <= Cardinality(AckedLeases)
    /\ counts.nacks <= Cardinality(NackedLeases)
    /\ Alive =>
          /\ Cardinality(AckedLeases) = counts.acks + Unheard({"ack"})
          /\ Cardinality(NackedLeases) = counts.nacks + Unheard(NackCodes)
          /\ step = counts.emptyClaims + counts.acks + counts.nacks + Open

\* The leases that were acked, and those that were nacked, are finite and apart.
LEMMA LeasesFinite ==
  /\ IsFiniteSet(AckedLeases) /\ Cardinality(AckedLeases) \in Nat
  /\ IsFiniteSet(NackedLeases) /\ Cardinality(NackedLeases) \in Nat
  /\ Cardinality(AckedLeases \cup NackedLeases) = Cardinality(AckedLeases) + Cardinality(NackedLeases)
<1>1. IsFiniteSet(Steps) BY BoundsAssumption, FS_Interval DEF Steps
<1>2. AckedLeases \in SUBSET Steps /\ NackedLeases \in SUBSET Steps
  BY DEF AckedLeases, NackedLeases
<1>3. IsFiniteSet(AckedLeases) /\ IsFiniteSet(NackedLeases) BY <1>1, <1>2, FS_Subset
<1>4. Cardinality(AckedLeases) \in Nat /\ Cardinality(NackedLeases) \in Nat
  BY <1>3, FS_CardinalityType
<1>5. AckedLeases \cap NackedLeases = {} BY DEF AckedLeases, NackedLeases, NackCodes
<1>6. Cardinality(AckedLeases \cap NackedLeases) = 0 BY <1>5, FS_EmptySet
<1>7. Cardinality(AckedLeases \cup NackedLeases)
        = Cardinality(AckedLeases) + Cardinality(NackedLeases) - Cardinality(AckedLeases \cap NackedLeases)
  BY <1>3, FS_Union
<1> QED BY <1>3, <1>4, <1>6, <1>7

\* A lease that is settled adds one to the acks or to the nacks of the service.
LEMMA SettlementCounted ==
  ASSUME TypeOK, NEW s \in Steps, lease[s] = "held", NEW op \in Settlements,
         lease' = [lease EXCEPT ![s] = op]
  PROVE  /\ Cardinality(AckedLeases') = Cardinality(AckedLeases) + (IF op \in {"ack"} THEN 1 ELSE 0)
         /\ Cardinality(NackedLeases') = Cardinality(NackedLeases) + (IF op \in NackCodes THEN 1 ELSE 0)
<1>a. lease \in [Steps -> {"none", "held", "expired"} \cup Settlements] BY DEF TypeOK
<1>b. s \notin AckedLeases /\ s \notin NackedLeases
  BY DEF AckedLeases, NackedLeases, NackCodes
<1>1. CASE op = "ack"
  <2>1. AckedLeases' = AckedLeases \cup {s} BY <1>1, <1>a DEF AckedLeases
  <2>2. NackedLeases' = NackedLeases BY <1>1, <1>a, <1>b DEF NackedLeases, NackCodes
  <2>3. Cardinality(AckedLeases \cup {s}) = Cardinality(AckedLeases) + 1
    BY <1>b, LeasesFinite, FS_AddElement
  <2> QED BY <1>1, <2>1, <2>2, <2>3, LeasesFinite DEF NackCodes
<1>2. CASE op \in NackCodes
  <2>1. NackedLeases' = NackedLeases \cup {s} BY <1>2, <1>a DEF NackedLeases
  <2>2. AckedLeases' = AckedLeases BY <1>2, <1>a, <1>b DEF AckedLeases, NackCodes
  <2>3. Cardinality(NackedLeases \cup {s}) = Cardinality(NackedLeases) + 1
    BY <1>b, LeasesFinite, FS_AddElement
  <2> QED BY <1>2, <2>1, <2>2, <2>3, LeasesFinite DEF NackCodes
<1> QED BY <1>1, <1>2 DEF Settlements

\* Whatever leaves the settlements and the four counts alone keeps the accounts.
LEMMA CountsKept ==
  ASSUME CountsInv, UNCHANGED <<AckedLeases, NackedLeases>>, step' = step,
         counts'.acks = counts.acks, counts'.nacks = counts.nacks,
         counts'.emptyClaims = counts.emptyClaims,
         Alive' => /\ Alive /\ (pc' \in BetweenSteps <=> pc \in BetweenSteps)
                   /\ \A ops \in {{"ack"}, NackCodes} : Unheard(ops)' = Unheard(ops)
  PROVE  CountsInv'
<1> HIDE DEF step, BetweenSteps, Alive
<1>1. Alive' => Open' = Open BY DEF Open, BetweenSteps
<1>2. Alive' => /\ Unheard({"ack"})' = Unheard({"ack"})
                /\ Unheard(NackCodes)' = Unheard(NackCodes)
  BY DEF NackCodes
<1> QED BY <1>1, <1>2 DEF CountsInv

\* A settlement that arrives is counted by the service; while the driver lives it is the
\* one its main goroutine waits for.
LEMMA SettlementArrives ==
  ASSUME IInv, CountsInv, NEW s \in Steps, lease[s] = "held", NEW op \in Settlements,
         lease' = [lease EXCEPT ![s] = op], UNCHANGED mainVars,
         Alive => /\ pc = "settle" /\ call[Main].st = "sent" /\ call[Main].op = op
                  /\ call'[Main].st = "ok" /\ call'[Main].op = op
  PROVE  CountsInv'
<1>1. TypeOK /\ counts \in CountsType BY DEF IInv, TypeOK
<1>2. /\ Cardinality(AckedLeases)' = Cardinality(AckedLeases) + (IF op \in {"ack"} THEN 1 ELSE 0)
      /\ Cardinality(NackedLeases)' = Cardinality(NackedLeases) + (IF op \in NackCodes THEN 1 ELSE 0)
  BY <1>1, SettlementCounted
<1>3. UNCHANGED <<counts, pc, step, Alive, Open>>
  BY DEF mainVars, step, Alive, Open, Exits, BetweenSteps
<1>4. Alive => \A ops \in {{"ack"},
    NackCodes} : Unheard(ops) = 0 /\ Unheard(ops)' = IF op \in ops THEN 1 ELSE 0
  BY <1>3 DEF Unheard
<1>5. Alive => /\ Unheard({"ack"}) = 0 /\ Unheard({"ack"})' = IF op \in {"ack"} THEN 1 ELSE 0
               /\ Unheard(NackCodes) = 0 /\ Unheard(NackCodes)' = IF op \in NackCodes THEN 1 ELSE 0
  BY <1>4 DEF NackCodes
<1>6. counts.acks \in Nat /\ counts.nacks \in Nat BY <1>1 DEF CountsType
<1> HIDE DEF step, Alive, Open, Unheard, AckedLeases, NackedLeases, NackCodes
<1> DEFINE a == IF op \in {"ack"} THEN 1 ELSE 0
           n == IF op \in NackCodes THEN 1 ELSE 0
<1>7. a \in {0, 1} /\ n \in {0, 1} OBVIOUS
<1>8. /\ Cardinality(AckedLeases)' = Cardinality(AckedLeases) + a
      /\ Cardinality(NackedLeases)' = Cardinality(NackedLeases) + n
      /\ Alive => /\ Unheard({"ack"}) = 0 /\ Unheard({"ack"})' = a
                  /\ Unheard(NackCodes) = 0 /\ Unheard(NackCodes)' = n
  BY <1>2, <1>5
<1> HIDE DEF a, n
<1> QED BY <1>3, <1>6, <1>7, <1>8, LeasesFinite DEF CountsInv

\* The accounts through a request that reaches the service.
LEMMA CountsServed ==
  ASSUME IInv, CountsInv, NEW r, Apply(r), r.step \in Steps, UNCHANGED mainVars,
         \A ops \in {{"ack"},
             NackCodes} : r.op \notin Settlements => Unheard(ops)' = Unheard(ops),
         Alive /\ r.op \in Settlements =>
            /\ pc = "settle" /\ call[Main].st = "sent" /\ call[Main].op = r.op
            /\ call'[Main].st = "ok" /\ call'[Main].op = r.op
  PROVE  CountsInv'
<1>1. CASE r.op \in Settlements
  <2>1. lease[r.step] = "held" /\ lease' = [lease EXCEPT ![r.step] = r.op]
    BY <1>1, Words DEF Apply
  <2> QED BY <1>1, <2>1, SettlementArrives
<1>2. CASE r.op \notin Settlements
  <2>1. UNCHANGED <<AckedLeases, NackedLeases>> BY <1>2 DEF Apply, AckedLeases, NackedLeases
  <2>2. UNCHANGED <<step, counts, pc>> /\ Alive' = Alive BY DEF mainVars, step, Alive
  <2> QED BY <1>2, <2>1, <2>2, CountsKept
<1> QED BY <1>1, <1>2

\* Every step keeps the accounts: what a settlement adds at the service is added to Counts
\* once its answer is heard.
LEMMA CountsPreserved ==
  ASSUME IInv, GrantInv, CountsInv, Next
  PROVE  CountsInv'
<1> USE DEF vars, mainVars, turnVars, httpVars, serviceVars, appVars
<1>a. TypeOK /\ CallInv /\ SettleInv /\ StrayInv /\ MainInv BY DEF IInv
<1>b. /\ counts \in CountsType /\ Main \in Callers /\ Main \notin Steps /\ Steps \subseteq Callers
      /\ call \in [Callers -> Calls \cup {NoCall}] /\ NoCall.st = "none"
      /\ lease \in [Steps -> {"none", "held", "expired"} \cup Settlements]
  BY <1>a, StepTyped, Words DEF TypeOK
<1>c. lease' = lease => UNCHANGED <<AckedLeases, NackedLeases>>
  BY DEF AckedLeases, NackedLeases
<1>d. ASSUME NEW op, Settle(op), pc \in {"thread", "waitStart", "renew"},
             UNCHANGED <<counts, lease>>
      PROVE  CountsInv'
  <2>1. Alive' => pc' = "settle" /\ call'[Main].st = "sent"
    BY <1>d, <1>b DEF Settle, Alive, Exits, Request
  <2>2. Alive /\ pc \notin BetweenSteps /\ (Alive' => pc' \notin BetweenSteps)
    BY <1>d, <2>1 DEF Alive, Exits, BetweenSteps
  <2>3. Alive' => \A ops \in {{"ack"}, NackCodes} : Unheard(ops)' = Unheard(ops)
    BY <1>d, <2>1 DEF Unheard
  <2> QED BY <1>c, <1>d, <2>2, <2>3, CountsKept DEF step
<1>e. ASSUME NEW r, TurnReturned(r), pc \in {"waitStart", "renew"}, UNCHANGED <<counts,
    lease>>
      PROVE  CountsInv'
  <2>1. CASE r = "extensionFailed"
    BY <1>c, <1>e, <2>1, CountsKept DEF TurnReturned, Alive, Exits, step
  <2> QED BY <1>d, <1>e, <2>1 DEF TurnReturned
<1>1. CASE Claim
  <2>1. /\ counts'.acks = counts.acks /\ counts'.nacks = counts.nacks
        /\ counts'.emptyClaims = counts.emptyClaims /\ step' = step + 1
    BY <1>1, <1>b DEF Claim, CountsType, step
  <2>2. UNCHANGED <<AckedLeases, NackedLeases>> BY <1>1, <1>c DEF Claim
  <2>3. Alive /\ Open = 0 /\ Open' = 1
    BY <1>1 DEF Claim, Alive, Exits, Open, BetweenSteps
  <2>4. \A ops : Unheard(ops) = 0 /\ Unheard(ops)' = 0
    BY <1>1 DEF Claim, Unheard
  <2>5. step \in Nat /\ counts.acks \in Nat /\ counts.nacks \in Nat /\ counts.emptyClaims \in Nat
    BY <1>a, <1>b, StepTyped DEF CountsType
  <2>6. Unheard({"ack"}) = 0 /\ Unheard({"ack"})' = 0 /\ Unheard(NackCodes) = 0 /\ Unheard(NackCodes)' = 0
    BY <2>4 DEF NackCodes
  <2> HIDE DEF step, Alive, Open, Unheard, AckedLeases, NackedLeases, NackCodes
  <2> QED BY <2>1, <2>2, <2>3, <2>5, <2>6, LeasesFinite DEF CountsInv
<1>2. CASE ClaimedNothing
  <2>1. /\ counts'.acks = counts.acks /\ counts'.nacks = counts.nacks
        /\ counts'.emptyClaims = counts.emptyClaims + 1 /\ step' = step
    BY <1>2, <1>b DEF ClaimedNothing, CountsType, step
  <2>2. UNCHANGED <<AckedLeases, NackedLeases>> BY <1>2, <1>c DEF ClaimedNothing
  <2>3. Alive /\ Open = 1 /\ Open' = 0
    BY <1>2 DEF ClaimedNothing, Alive, Exits, Open, BetweenSteps
  <2>4. Unheard({"ack"}) = 0 /\ Unheard({"ack"})' = 0 /\ Unheard(NackCodes) = 0 /\ Unheard(NackCodes)' = 0
    BY <1>2 DEF ClaimedNothing, Unheard
  <2>5. step \in Nat /\ counts.acks \in Nat /\ counts.nacks \in Nat /\ counts.emptyClaims \in Nat
    BY <1>a, <1>b, StepTyped DEF CountsType
  <2> HIDE DEF step, Alive, Open, Unheard, AckedLeases, NackedLeases, NackCodes
  <2> QED BY <2>1, <2>2, <2>3, <2>4, <2>5, LeasesFinite DEF CountsInv
<1>3. CASE Settled
  <2>1. call[Main].op \in Settlements BY <1>3, <1>a DEF Settled, CallInv
  <2>2. /\ counts'.acks = counts.acks + Unheard({"ack"})
        /\ counts'.nacks = counts.nacks + Unheard(NackCodes)
        /\ counts'.emptyClaims = counts.emptyClaims /\ step' = step
        /\ Unheard({"ack"}) + Unheard(NackCodes) = 1
        /\ Unheard({"ack"}) \in {0, 1} /\ Unheard(NackCodes) \in {0, 1}
    BY <1>3, <1>b, <2>1 DEF Settled, CountsType, step, Unheard, Settlements, NackCodes
  <2>3. UNCHANGED <<AckedLeases, NackedLeases>> BY <1>3, <1>c DEF Settled
  <2>4. Alive /\ Alive' /\ Open = 1 /\ Open' = 0
    BY <1>3 DEF Settled, Alive, Exits, Open, BetweenSteps
  <2>5. Unheard({"ack"})' = 0 /\ Unheard(NackCodes)' = 0
    BY <1>3 DEF Settled, Unheard
  <2>6. step \in Nat /\ counts.acks \in Nat /\ counts.nacks \in Nat /\ counts.emptyClaims \in Nat
    BY <1>a, <1>b, StepTyped DEF CountsType
  <2> HIDE DEF step, Alive, Open, Unheard, AckedLeases, NackedLeases, NackCodes
  <2> QED BY <2>2, <2>3, <2>4, <2>5, <2>6, LeasesFinite DEF CountsInv
<1>4. CASE WaitForStart
  <2>1. CASE pc' = "renew" /\ UNCHANGED call
    BY <1>4, <1>c, <2>1, CountsKept
    DEF WaitForStart, step, Alive, Exits, Unheard, BetweenSteps
  <2> QED BY <1>4, <1>e, <2>1 DEF WaitForStart
<1>5. CASE RenewResult BY <1>5, <1>e DEF RenewResult
<1>6. CASE ThreadFailed BY <1>6, <1>d DEF ThreadFailed
<1>7. CASE Claimed
  <2>1. Alive' => \A ops \in {{"ack"}, NackCodes} : Unheard(ops)' = Unheard(ops)
    BY <1>7, <1>b DEF Claimed, Unheard, Request
  <2>2. Alive /\ pc \notin BetweenSteps /\ pc' \notin BetweenSteps
    BY <1>7 DEF Claimed, Alive, Exits, BetweenSteps
  <2> QED BY <1>7, <1>c, <2>1, <2>2, CountsKept DEF Claimed, step
<1>8. CASE \/ Loop \/ VerifyFailed \/ Idle \/ ThreadStarted \/ RenewTick \/ RenewCancelled
           \/ RenewFailed \/ GiveUp \/ CallFailed \/ Kill
  <2>1. UNCHANGED <<counts, lease>> /\ Alive
        /\ (Alive' => pc \notin {"settle"} /\ pc' \notin {"settle"}
                      /\ (pc' \in BetweenSteps <=> pc \in BetweenSteps))
    BY <1>8
    DEF Loop, VerifyFailed, Idle, ThreadStarted, RenewTick, RenewCancelled, RenewFailed,
        GiveUp, CallFailed, Kill, Alive, Exits, BetweenSteps
  <2>2. Alive' => \A ops \in {{"ack"}, NackCodes} : Unheard(ops)' = Unheard(ops)
    BY <2>1 DEF Unheard
  <2> QED BY <1>c, <2>1, <2>2, CountsKept DEF step
<1>9. CASE Renewed
  <2>1. /\ counts'.acks = counts.acks /\ counts'.nacks = counts.nacks
        /\ counts'.emptyClaims = counts.emptyClaims /\ step' = step
    BY <1>9, <1>b DEF Renewed, CountsType, step
  <2>2. lease' = lease /\ Alive /\ pc = "extend" /\ pc' = "renew"
    BY <1>9 DEF Renewed, Alive, Exits
  <2> QED BY <1>c, <2>1, <2>2, CountsKept DEF Unheard, BetweenSteps
<1>10. ASSUME NEW t \in Steps, TurnStep(t) \/ TurnError(t) PROVE CountsInv'
  <2>1. /\ counts'.acks = counts.acks /\ counts'.nacks = counts.nacks
        /\ counts'.emptyClaims = counts.emptyClaims /\ step' = step
        /\ Alive /\ pc' = pc /\ lease' = lease /\ call'[Main] = call[Main]
    BY <1>10, <1>b
    DEF TurnStep, TurnOpened, TurnRequested, TurnStarted, FirstExtended,
        FirstExtendFailed, InterruptedUnrenewed, ReturnUnrenewed, TurnDone, TurnError,
        CountsType, step, Abandon
  <2> QED BY <1>c, <2>1, CountsKept DEF Unheard
<1>11. CASE ServeClaim
  <2>1. UNCHANGED <<AckedLeases, NackedLeases>>
    <3>1. step \in Steps /\ call[Main].op = "claim" /\ call[Main].st # "ok"
      BY <1>11, Words, MainCallIsCurrent DEF ServeClaim
    <3>2. lease[step] = "none" BY <1>a, <3>1 DEF CallInv
    <3> QED BY <1>11, <1>b, <1>c, <3>1, <3>2, Words
      DEF ServeClaim, AckedLeases, NackedLeases, NackCodes
  <2>2. UNCHANGED <<counts, pc>> /\ call'[Main].op = "claim" /\ call[Main].op = "claim"
    <3>1. call[Main] \in Calls BY <1>11, <1>a, <1>b, CallTyped DEF ServeClaim
    <3>2. ASSUME NEW e
          PROVE  /\ [call[Main] EXCEPT !.st = "empty"].op = call[Main].op
                 /\ [call[Main] EXCEPT !.st = "ok", !.next = e].op = call[Main].op
      BY <3>1 DEF Calls
    <3>3. CASE call' = [call EXCEPT ![Main] = [call[Main] EXCEPT !.st = "empty"]]
      BY <1>b, <1>11, <3>2, <3>3 DEF ServeClaim
    <3>4. ASSUME NEW e,
                 call' = [call EXCEPT ![Main] = [call[Main] EXCEPT !.st = "ok", !.next = e]]
          PROVE  call'[Main].op = "claim"
      BY <1>b, <1>11, <3>2, <3>4 DEF ServeClaim
    <3> QED BY <1>11, <3>3, <3>4 DEF ServeClaim
  <2>3. \A ops \in {{"ack"}, NackCodes} : Unheard(ops)' = Unheard(ops)
    BY <2>2 DEF Unheard, NackCodes
  <2> QED BY <2>1, <2>2, <2>3, CountsKept DEF step, Alive
<1>12. CASE ServeStray
  <2>1. PICK r \in stray :
          \/ Apply(r)
          \/ r.op = "claim" /\ lease' = [lease EXCEPT ![r.step] = "held"]
    BY <1>12 DEF ServeStray
  <2>2. UNCHANGED <<pc, counts, call>> /\ \A ops : Unheard(ops)' = Unheard(ops)
    BY <1>12 DEF ServeStray, Unheard
  <2>3. CASE Apply(r)
    <3>1. r.step = step /\ step \in Steps BY <1>a DEF StrayInv, TypeOK, Calls
    <3>2. r.op \in Settlements => pc \notin InStep BY <1>a, <3>1 DEF SettleInv
    <3>3. pc \notin BetweenSteps \cup {"settle"} BY NothingStray DEF BetweenSteps
    <3>4. r.op \in Settlements => ~Alive
      BY <1>a, <3>2, <3>3 DEF TypeOK, MainPoints, Alive, InStep, BetweenSteps
    <3> QED BY <2>2, <2>3, <3>1, <3>4, CountsServed
  <2>4. CASE r.op = "claim" /\ lease' = [lease EXCEPT ![r.step] = "held"]
    <3>1. \A s \in Steps : s = r.step => lease[s] \notin Settlements
      BY <1>a, <2>4, Words DEF StrayInv, GrantInv, ClaimGivenUp
    <3>2. UNCHANGED <<AckedLeases, NackedLeases>>
      BY <1>b, <2>4, <3>1 DEF AckedLeases, NackedLeases, Settlements, NackCodes
    <3> QED BY <2>2, <3>2, CountsKept DEF step, Alive
  <2> QED BY <2>1, <2>3, <2>4
<1>13. ASSUME NEW c \in Callers, Serve(c) PROVE CountsInv'
  <2>1. call[c] # NoCall /\ Apply(call[c]) /\ call[c].step \in Steps
    BY <1>13, <1>a, Words, CallerTyped DEF Serve
  <2>2. UNCHANGED <<pc, counts>> BY <1>13 DEF Serve
  <2>3. CASE c = Main
    <3>1. step \in Steps BY <2>1, <2>3, MainCallIsCurrent
    <3>2. /\ call'[Main].op = call[Main].op /\ call'[Main].st = "ok" /\ call[Main].st = "sent"
      BY <1>13, <1>b, <2>3 DEF Serve
    <3>3. call[Main].op \in Settlements /\ Alive => pc = "settle"
      BY <1>a, <2>1, <2>3, <3>1 DEF CallInv, SettleInv, InStep, Alive, Exits
    <3>4. \A ops \in {{"ack"},
        NackCodes} : call[Main].op \notin Settlements => Unheard(ops)' = Unheard(ops)
      BY <2>2, <3>2 DEF Unheard, Settlements
    <3> QED BY <2>1, <2>2, <2>3, <3>2, <3>3, <3>4, CountsServed
  <2>4. CASE c \in Steps
    <3>1. call[c].op \notin Settlements BY <2>1, <2>4, TurnCallIsCurrent, Words
    <3>2. call'[Main] = call[Main] BY <1>13, <1>b, <2>4 DEF Serve
    <3> QED BY <2>1, <2>2, <3>1, <3>2, CountsServed DEF Unheard
  <2> QED BY <2>3, <2>4 DEF Callers, Main
<1>14. CASE ExpireLease
  <2>1. UNCHANGED <<AckedLeases, NackedLeases>>
    BY <1>14, <1>b DEF ExpireLease, AckedLeases, NackedLeases, Settlements, NackCodes
  <2> QED BY <1>14, <2>1, CountsKept DEF ExpireLease, step, Alive, Unheard
<1>15. CASE Cancel \/ Terminated \/ \E t \in Steps : AppStartsTurn(t) \/ AppEndsTurn(t)
  <2>1. UNCHANGED <<counts, pc, call, lease>>
    BY <1>15 DEF Cancel, Terminated, AppStartsTurn, AppEndsTurn
  <2> QED BY <1>c, <2>1, CountsKept DEF step, Alive, Unheard
<1> QED
  BY <1>1, <1>2, <1>3, <1>4, <1>5, <1>6, <1>7, <1>8, <1>9, <1>10, <1>11, <1>12, <1>13,
     <1>14, <1>15
  DEF Next, MainStep, TurnGoroutine, Environment

\* Nothing is counted and nothing settled at the start.
LEMMA InitCountsInv == Init => CountsInv
<1> SUFFICES ASSUME Init PROVE CountsInv OBVIOUS
<1>1. AckedLeases = {} /\ NackedLeases = {}
  BY DEF Init, AckedLeases, NackedLeases, NackCodes
<1>2. Cardinality(AckedLeases) = 0 /\ Cardinality(NackedLeases) = 0
  BY <1>1, FS_EmptySet
<1>3. Unheard({"ack"}) = 0 /\ Unheard(NackCodes) = 0 /\ Open = 0
  BY DEF Init, Unheard, Open, BetweenSteps
<1> QED BY <1>2, <1>3 DEF Init, CountsInv, step

\* Counts keeps its account of the service, whatever is refused, cut off or given up.
THEOREM Accounts == Spec => []CountsInv
<1>1. ASSUME IInv, GrantInv, CountsInv, UNCHANGED vars PROVE CountsInv'
  <2>1. UNCHANGED <<pc, counts, call, lease>>
    BY <1>1 DEF vars, mainVars, httpVars, serviceVars
  <2>2. UNCHANGED <<AckedLeases, NackedLeases>> BY <2>1 DEF AckedLeases, NackedLeases
  <2> QED BY <1>1, <2>1, <2>2, CountsKept DEF step, Alive, Unheard
<1>2. IInv /\ GrantInv /\ CountsInv /\ [Next]_vars => CountsInv'
  BY <1>1, CountsPreserved
<1> QED BY <1>2, InitCountsInv, Invariance, Grants, PTL DEF Spec

\* The counts the driver reports (status.Counts) are those the service recorded, but for
\* one settlement whose answer is not heard (yet).
THEOREM CountsAreTruthful == Spec => []CountsTruthful
<1>1. ASSUME IInv, CountsInv PROVE CountsTruthful
  <2>1. counts.acks \in Nat /\ counts.nacks \in Nat /\ counts.emptyClaims \in Nat
    BY <1>1 DEF IInv, TypeOK, CountsType
  <2>2. counts.acks + counts.nacks <= Cardinality(AckedLeases \cup NackedLeases)
    BY <1>1, <2>1, LeasesFinite DEF CountsInv
  <2>3. pc \notin Exits \cup {"settle"} =>
           Alive /\ Unheard({"ack"}) = 0 /\ Unheard(NackCodes) = 0
    BY DEF Alive, Unheard
  <2>4. pc \notin Exits \cup {"settle"} =>
           counts.acks = Cardinality(AckedLeases) /\ counts.nacks = Cardinality(NackedLeases)
    BY <1>1, <2>1, <2>3, LeasesFinite DEF CountsInv
  <2>5. pc \in {"loop", "verify", "idle"} =>
           step = counts.emptyClaims + counts.acks + counts.nacks
    BY <1>1, <2>1 DEF CountsInv, Alive, Exits, Open, BetweenSteps
  <2> QED BY <2>2, <2>4, <2>5 DEF CountsTruthful
<1> QED BY <1>1, Accounts, Invariance, PTL

\* An extension of s was granted and the answer is on its way to the driver.
HeardOf(s) ==
    \E c \in Callers : call[c].op = "extend" /\ call[c].st = "ok" /\ call[c].step = s

\* The service holds no later expiry for s than the driver has, or is about to have.
ExpiryKnown(s) ==
    /\ call[Main].op = "claim" /\ call[Main].st = "ok" => leaseExpiry[s] <= call[Main].next
    /\ \A c \in Callers :
          call[c].op = "extend" /\ call[c].st = "ok" => leaseExpiry[s] <= call[c].next
    /\ (pc = "thread" \/ tpc[s] # "none") /\ ~HeardOf(s) => leaseExpiry[s] <= expiresAt[s]

\* So it is of the lease in hand until an extension of it has failed, which may or may
\* not have reached the service.
ExpiryInv ==
    \A s \in Steps : s = step /\ Alive /\ ~Unrenewed(s) => ExpiryKnown(s)

\* Cutting off the fraction moves a time by less than a second, and not forward.
LEMMA WholeSecondsBelow ==
  ASSUME NEW t \in Int
  PROVE  /\ WholeSeconds(t) \in Int
         /\ WholeSeconds(t) <= t /\ WholeSeconds(t) > t - Second
<1>1. t % Second \in 0..(Second - 1) BY RangeAssumption
<1> QED BY <1>1, RangeAssumption DEF WholeSeconds

\* The expiry asked for is later than that of the renewal, by a second or more, if the
\* lease fits a time.Duration.
LEMMA NextIsLater ==
  ASSUME TypeOK, Fits(LeaseSeconds), NEW s \in Steps, NEW e \in Times, e <= expiresAt[s]
  PROVE  WholeSeconds(NextExpiresAt(s)) > e
<1>1. expiresAt[s] \in Int /\ e \in Int BY TimesTyped DEF TypeOK
<1>2. LeaseDuration(LeaseSeconds) \in Int /\ LeaseDuration(LeaseSeconds) >= Second
  BY LeaseDurationTyped
<1> DEFINE n == NextExpiresAt(s)
<1>3. n \in Int /\ n >= expiresAt[s] + Second
  BY <1>1, <1>2, RangeAssumption DEF NextExpiresAt
<1> HIDE DEF n
<1>4. WholeSeconds(n) \in Int /\ WholeSeconds(n) > n - Second BY <1>3, WholeSecondsBelow
<1>5. WholeSeconds(n) > e BY <1>1, <1>3, <1>4, RangeAssumption
<1> QED BY <1>5 DEF n

\* Once nothing has failed nothing is under way but what a goroutine waits for.
LEMMA NothingStrayUnfailed ==
  ASSUME IInv, Alive, NEW s \in Steps, s = step, ~Unrenewed(s)
  PROVE  stray = {}
<1>1. \A t \in Steps : Unrenewed(t) => t = step
  BY CurrentTurn DEF Unrenewed, Over
<1> QED BY <1>1 DEF IInv, StrayInv

\* Whatever sends or forgets a call but hears of none, and moves no expiry.
LEMMA ExpiryKept ==
  ASSUME NEW s \in Steps, ExpiryKnown(s),
         leaseExpiry'[s] = leaseExpiry[s], expiresAt'[s] = expiresAt[s],
         pc' = "thread" \/ tpc'[s] # "none" => pc = "thread" \/ tpc[s] # "none",
         \A c \in Callers :
            \/ call'[c] = call[c]
            \/ /\ call'[c].st # "ok" \/ call'[c].op \notin {"claim", "extend"}
               /\ ~(call[c].op = "extend" /\ call[c].st = "ok"),
         Main \in Callers
  PROVE  ExpiryKnown(s)'
<1>1. HeardOf(s) => HeardOf(s)' BY DEF HeardOf
<1>2. (pc' = "thread" \/ tpc'[s] # "none") /\ ~HeardOf(s)'
         => leaseExpiry'[s] <= expiresAt'[s]
  BY <1>1 DEF ExpiryKnown
<1>3. call'[Main].op = "claim" /\ call'[Main].st = "ok" => leaseExpiry'[s] <= call'[Main].next
  BY DEF ExpiryKnown
<1>4. ASSUME NEW c \in Callers, call'[c].op = "extend", call'[c].st = "ok"
      PROVE  leaseExpiry'[s] <= call'[c].next
  BY <1>4 DEF ExpiryKnown
<1> QED BY <1>2, <1>3, <1>4 DEF ExpiryKnown

\* An extension that is heard of becomes the expiry of the renewal.
LEMMA ExpiryHeard ==
  ASSUME IInv, NEW s \in Steps, s = step, ExpiryKnown(s), NEW c \in Callers,
         call[c].op = "extend", call[c].st = "ok",
         expiresAt' = [expiresAt EXCEPT ![s] = call[c].next],
         call' = [call EXCEPT ![c] = NoCall], UNCHANGED leaseExpiry
  PROVE  ExpiryKnown(s)'
<1>1. TypeOK BY DEF IInv
<1>2. \A d \in Callers : d # c => call[d] = NoCall
  <2>1. call[c] # NoCall BY Words
  <2>2. \A d \in Callers : d = Main \/ d \in Steps BY DEF Callers, Main
  <2> HIDE DEF step
  <2> QED BY <2>1, <2>2, TurnCallIsCurrent
<1>3. \A d \in Callers : call'[d] = NoCall BY <1>1, <1>2 DEF TypeOK
<1>4. expiresAt'[s] = call[c].next BY <1>1 DEF TypeOK
<1>5. leaseExpiry'[s] <= expiresAt'[s] BY <1>4 DEF ExpiryKnown
<1> QED BY <1>3, <1>5, Words, StepTyped, <1>1 DEF ExpiryKnown

\* Every step keeps what the driver knows of the expiry of the lease in hand.
LEMMA ExpiryPreserved ==
  ASSUME IInv, ExpiryInv, Next
  PROVE  ExpiryInv'
<1> SUFFICES ASSUME NEW s \in Steps, s = step', Alive', ~Unrenewed(s)'
             PROVE  ExpiryKnown(s)'
  BY DEF ExpiryInv
<1> USE DEF vars, mainVars, turnVars, httpVars, serviceVars, appVars
<1>a. TypeOK /\ CallInv /\ StepsInv /\ MainInv BY DEF IInv
<1>b. /\ counts \in CountsType /\ Main \in Callers /\ Main \notin Steps /\ Steps \subseteq Callers
      /\ call \in [Callers -> Calls \cup {NoCall}] /\ NoCall.st = "none" /\ NoCall.op = "none"
      /\ expiresAt \in [Steps -> Int] /\ leaseExpiry \in [Steps -> Int]
      /\ tpc \in [Steps -> TurnPoints]
      /\ \A c \in Callers : c = Main \/ c \in Steps
  BY <1>a, StepTyped, Words, TimesTyped DEF TypeOK, Callers, Main
<1>c. Alive BY StaysEnded
<1>d. ~Claim => step' = step
  BY <1>b
  DEF Next, MainStep, TurnGoroutine, TurnStep, Environment, Terminated, Loop,
      VerifyFailed, ClaimedNothing, Idle, Claimed, ThreadFailed, ThreadStarted,
      WaitForStart, RenewResult, RenewTick, RenewCancelled, Renewed, RenewFailed, GiveUp,
      Settled, CallFailed, TurnOpened, TurnRequested, TurnStarted, FirstExtended,
      FirstExtendFailed, InterruptedUnrenewed, ReturnUnrenewed, TurnDone, TurnError,
      ServeClaim, ServeStray, ExpireLease, Cancel, Kill, Serve, AppStartsTurn,
      AppEndsTurn, CountsType, step
<1>e. ~Claim => s = step /\ ~Unrenewed(s) /\ ExpiryKnown(s) /\ stray = {}
  <2> SUFFICES ASSUME ~Claim PROVE s = step /\ ~Unrenewed(s) /\ ExpiryKnown(s) /\ stray = {}
    OBVIOUS
  <2>1. s = step BY <1>d
  <2>2. ~Unrenewed(s) BY UnrenewedKept
  <2>3. ExpiryKnown(s) BY <1>c, <2>1, <2>2 DEF ExpiryInv
  <2> QED BY <1>c, <2>1, <2>2, <2>3, NothingStrayUnfailed
<1>f. pc \in {"verify", "thread", "waitStart", "renew"} => call[Main] = NoCall
  BY <1>a DEF CallInv
<1>g. pc \in {"verify", "claim", "thread", "settle"} => \A c \in Steps : call[c] = NoCall
  BY TurnCallIsCurrent, CurrentTurn
<1>h. ASSUME NEW c \in Callers, call[c] # NoCall
      PROVE  \A d \in Callers : d # c => call[d] = NoCall
  <2> HIDE DEF step
  <2> QED BY <1>h, <1>b, TurnCallIsCurrent
<1>i. ASSUME NEW op \in Settlements, Settle(op), pc \in {"thread", "waitStart", "renew"}
      PROVE  /\ pc' = "settle" /\ call'[Main].op = op
             /\ \A c \in Steps : call'[c] = call[c]
  BY <1>i, <1>b DEF Settle, Request, Alive, Exits
<1>j. ASSUME NEW r, TurnReturned(r), pc \in {"waitStart", "renew"}
      PROVE  /\ pc' = "settle" /\ call'[Main].op \in Settlements
             /\ \A c \in Steps : call'[c] = call[c]
  <2>1. r # "extensionFailed" BY <1>j DEF TurnReturned, Alive, Exits
  <2>2. \E op \in Settlements : Settle(op)
    BY <1>j, <2>1 DEF TurnReturned, Settlements, NackCodes
  <2> QED BY <1>j, <1>i, <2>2
<1>1. CASE Claim
  <2>1. pc = "verify" /\ pc' = "claim" /\ s > step
    BY <1>1, ClaimsNext DEF Claim, Alive, Exits
  <2>2. tpc'[s] = "none" BY <1>1, <1>a, <2>1 DEF Claim, StepsInv, Untouched
  <2>3. call'[Main].st = "sent" /\ \A c \in Steps : call'[c] = NoCall
    BY <1>1, <1>b, <1>g, <2>1 DEF Claim, Request
  <2> QED BY <1>b, <2>1, <2>2, <2>3 DEF ExpiryKnown
<1>2. CASE Claimed
  <2>1. pc = "claim" /\ call[Main].op = "claim" /\ call[Main].st = "ok"
    BY <1>2, <1>a DEF Claimed, CallInv
  <2>2. leaseExpiry[s] <= call[Main].next
    BY <1>2, <1>e, <2>1 DEF Claimed, Claim, ExpiryKnown
  <2>3. call'[Main].op \in {"none",
      "invalid_payload"} /\ \A c \in Steps : call'[c].op = "none"
    BY <1>2, <1>b, <1>g, <2>1 DEF Claimed, Request
  <2>4. expiresAt'[s] = call[Main].next /\ leaseExpiry'[s] = leaseExpiry[s]
    BY <1>2, <1>b, <1>e, <2>1 DEF Claimed, Claim
  <2> QED BY <1>b, <2>2, <2>3, <2>4 DEF ExpiryKnown
<1>3. CASE ThreadStarted
  <2>1. \A c \in Callers : call[c] = NoCall BY <1>3, <1>b, <1>f, <1>g DEF ThreadStarted
  <2>2. s = step /\ leaseExpiry[s] <= expiresAt[s]
    BY <1>3, <1>b, <1>e, <2>1 DEF ThreadStarted, Claim, ExpiryKnown, HeardOf
  <2>3. leaseExpiry'[s] <= expiresAt'[s]
    BY <1>3, <1>b, <2>2, ClockAssumption DEF ThreadStarted
  <2> QED BY <1>3, <1>b, <2>1, <2>3 DEF ThreadStarted, ExpiryKnown
<1>4. CASE Renewed
  <2>1. call[Main].op = "extend" /\ call[Main].st = "ok" BY <1>4, <1>a DEF Renewed, CallInv
  <2> QED BY <1>4, <1>b, <1>e, <2>1, ExpiryHeard DEF Renewed, Claim
<1>5. ASSUME NEW t \in Steps, FirstExtended(t) PROVE ExpiryKnown(s)'
  <2>1. t = step /\ call[t].op = "extend" /\ call[t].st = "ok"
    BY <1>5, <1>b, TurnCallIsCurrent DEF FirstExtended
  <2>2. s = step /\ ExpiryKnown(s)
    BY <1>5, <1>e, <1>b, <2>1, TurnCallIsCurrent DEF Claim, FirstExtended, CallInv
  <2> QED BY <1>5, <1>b, <2>1, <2>2, ExpiryHeard DEF FirstExtended
<1>6. CASE RenewFailed \/ \E t \in Steps : FirstExtendFailed(t)
  <2>1. CASE RenewFailed
    <3>1. s = step /\ step' = step /\ pc' = "interruptUnrenewed"
      BY <1>e, <1>d, <2>1 DEF RenewFailed, Claim
    <3> QED BY <3>1 DEF Unrenewed
  <2>2. ASSUME NEW t \in Steps, FirstExtendFailed(t) PROVE FALSE
    <3>1. t = step BY <2>2, CurrentTurn DEF FirstExtendFailed, Over
    <3>2. step' = step /\ tpc'[t] = "interrupt" BY <2>2, <1>b DEF FirstExtendFailed, step
    <3>3. tpc'[s] = "interrupt" BY <3>1, <3>2
    <3> QED BY <3>3 DEF Unrenewed
  <2> QED BY <1>6, <2>1, <2>2
<1>7. CASE ServeClaim
  <2>1. call[Main].op = "claim" /\ call[Main] # NoCall /\ call[Main] \in Calls
    BY <1>7, <1>a, <1>b, CallTyped DEF ServeClaim
  <2>2. pc = "claim" BY <1>a, <1>c, <2>1, Words DEF CallInv, Alive, Exits
  <2>3. s = step /\ ExpiryKnown(s) /\ pc' = pc BY <1>7, <1>e, <2>2 DEF ServeClaim, Claim
  <2>4. tpc'[s] = "none" /\ \A c \in Steps : call'[c] = NoCall
    BY <1>7, <1>a, <1>b, <1>g, <2>1, <2>2, <2>3 DEF ServeClaim, MainInv, Untouched
  <2>5. ASSUME NEW e
        PROVE  /\ [call[Main] EXCEPT !.st = "empty"].op = "claim"
               /\ [call[Main] EXCEPT !.st = "empty"].st = "empty"
               /\ [call[Main] EXCEPT !.st = "ok", !.next = e].op = "claim"
               /\ [call[Main] EXCEPT !.st = "ok", !.next = e].next = e
    BY <2>1 DEF Calls
  <2>6. CASE call' = [call EXCEPT ![Main] = [call[Main] EXCEPT !.st = "empty"]]
    <3>1. call'[Main].op = "claim" /\ call'[Main].st = "empty" BY <1>b, <2>5, <2>6
    <3> QED BY <1>b, <2>2, <2>3, <2>4, <3>1 DEF ExpiryKnown
  <2>7. ASSUME NEW e \in ClaimExpiries,
               leaseExpiry' = [leaseExpiry EXCEPT ![step] = e],
               call' = [call EXCEPT ![Main] = [call[Main] EXCEPT !.st = "ok", !.next = e]]
        PROVE  ExpiryKnown(s)'
    <3>1. call'[Main].op = "claim" /\ call'[Main].next = e BY <1>b, <2>5, <2>7
    <3>2. leaseExpiry'[s] = e /\ e \in Nat BY <1>b, <2>3, <2>7, ClockAssumption
    <3> QED BY <1>b, <2>2, <2>3, <2>4, <3>1, <3>2 DEF ExpiryKnown
  <2> QED BY <1>7, <2>6, <2>7 DEF ServeClaim
<1>8. ASSUME NEW c \in Callers, Serve(c) PROVE ExpiryKnown(s)'
  <2>1. /\ call[c] # NoCall /\ call[c] \in Calls /\ Apply(call[c])
        /\ call' = [call EXCEPT ![c] = [call[c] EXCEPT !.st = "ok"]]
        /\ UNCHANGED <<pc, counts, tpc, expiresAt>> /\ call[c].st = "sent"
    BY <1>8, <1>b, CallerTyped, <1>a DEF Serve
  <2>2. s = step /\ ExpiryKnown(s) BY <1>c, <1>e, <2>1 DEF Claim
  <2>3. \A d \in Callers : d # c => call'[d] = NoCall BY <1>b, <1>h, <2>1
  <2>4. /\ call'[c].op = call[c].op /\ call'[c].st = "ok"
        /\ call'[c].next = call[c].next /\ call'[c].step = call[c].step
    <3>1. LET r == [call[c] EXCEPT !.st = "ok"]
          IN  r.op = call[c].op /\ r.st = "ok" /\ r.next = call[c].next /\ r.step = call[c].step
      BY <2>1 DEF Calls
    <3> QED BY <1>b, <2>1, <3>1
  <2>5. call[c].step = s /\ call[c].next \in Int
    BY <1>b, <2>1, <2>2, MainCallIsCurrent, TurnCallIsCurrent, TimesTyped DEF Calls
  <2>6. CASE call[c].op = "extend"
    <3>1. leaseExpiry'[s] = WholeSeconds(call[c].next)
      BY <1>b, <2>1, <2>5, <2>6, Words DEF Apply
    <3>2. leaseExpiry'[s] <= call'[c].next BY <2>4, <2>5, <3>1, WholeSecondsBelow
    <3>3. HeardOf(s)' BY <2>4, <2>5, <2>6 DEF HeardOf
    <3> QED BY <1>b, <2>3, <2>4, <2>6, <3>2, <3>3 DEF ExpiryKnown
  <2>7. CASE call[c].op \in Settlements
    <3>1. UNCHANGED leaseExpiry BY <2>1, <2>7, Words DEF Apply
    <3>2. \A d \in Callers : call'[d] = call[d] \/ d = c BY <1>b, <2>1
    <3> QED BY <1>b, <2>1, <2>2, <2>4, <2>7, <3>1, <3>2, ExpiryKept, Words
  <2> QED BY <2>1, <2>6, <2>7 DEF Apply
<1>9. CASE ServeStray BY <1>9, <1>c, <1>e DEF ServeStray, Claim
<1>10. CASE ThreadFailed
  <2>1. pc = "thread" /\ s = step /\ ExpiryKnown(s) BY <1>10, <1>e DEF ThreadFailed, Claim
  <2>2. call'[Main].op = "app_unreachable" /\ \A c \in Steps : call'[c] = call[c]
    BY <1>10, <1>i, <2>1 DEF ThreadFailed, Settlements, NackCodes
  <2> QED BY <1>10, <1>b, <1>f, <2>1, <2>2, ExpiryKept DEF ThreadFailed
<1>11. CASE WaitForStart
  <2>1. pc = "waitStart" /\ s = step /\ ExpiryKnown(s)
    BY <1>11, <1>e DEF WaitForStart, Claim
  <2>2. \/ UNCHANGED call /\ pc' = "renew"
        \/ /\ call'[Main].op \in Settlements /\ \A c \in Steps : call'[c] = call[c]
           /\ pc' = "settle"
    BY <1>11, <1>j DEF WaitForStart
  <2> QED BY <1>11, <1>b, <1>f, <2>1, <2>2, ExpiryKept, Words DEF WaitForStart
<1>12. CASE RenewResult
  <2>1. pc = "renew" /\ s = step /\ ExpiryKnown(s) BY <1>12, <1>e DEF RenewResult, Claim
  <2>2. /\ call'[Main].op \in Settlements /\ \A c \in Steps : call'[c] = call[c]
        /\ pc' = "settle"
    BY <1>12, <1>j DEF RenewResult
  <2> QED BY <1>12, <1>b, <1>f, <2>1, <2>2, ExpiryKept, Words DEF RenewResult
<1>13. CASE RenewTick
  <2>1. pc = "renew" /\ s = step /\ ExpiryKnown(s) BY <1>13, <1>e DEF RenewTick, Claim
  <2>2. \/ UNCHANGED call
        \/ call'[Main].st = "sent" /\ \A c \in Steps : call'[c] = call[c]
    BY <1>13, <1>b DEF RenewTick, Request
  <2> QED BY <1>13, <1>b, <1>f, <2>1, <2>2, ExpiryKept DEF RenewTick
<1>14. ASSUME NEW t \in Steps, TurnStarted(t) PROVE ExpiryKnown(s)'
  <2>1. call[t] = NoCall BY <1>14, <1>a DEF TurnStarted, CallInv
  <2>2. s = step /\ ExpiryKnown(s)
    <3>1. ~Over(t) BY <1>14 DEF TurnStarted, Over
    <3> QED BY <1>14, <1>e, <3>1, CurrentTurn DEF TurnStarted, Claim
  <2>3. \/ UNCHANGED call
        \/ call'[t].st = "sent" /\ \A c \in Callers : c # t => call'[c] = call[c]
    BY <1>14, <1>b DEF TurnStarted, Request
  <2>4. tpc'[s] # "none" => tpc[s] # "none" BY <1>14, <1>b DEF TurnStarted
  <2> QED BY <1>14, <1>b, <2>1, <2>2, <2>3, <2>4, ExpiryKept DEF TurnStarted
<1>15. CASE ClaimedNothing \/ Settled
  <2>1. pc \in {"claim", "settle"} /\ s = step /\ ExpiryKnown(s)
    BY <1>15, <1>e DEF ClaimedNothing, Settled, Claim
  <2>2. ~(call[Main].op = "extend" /\ call[Main].st = "ok")
    BY <1>15, <1>a, Words DEF ClaimedNothing, Settled, CallInv
  <2>3. call'[Main] = NoCall /\ \A c \in Steps : call'[c] = call[c]
    BY <1>15, <1>b DEF ClaimedNothing, Settled
  <2> QED BY <1>15, <1>b, <2>1, <2>2, <2>3, ExpiryKept DEF ClaimedNothing, Settled
<1>16. CASE VerifyFailed \/ CallFailed \/ Kill
  BY <1>16 DEF VerifyFailed, CallFailed, Kill, Alive, Exits
<1>17. ASSUME NEW t \in Steps,
              \/ TurnOpened(t) \/ TurnRequested(t) \/ InterruptedUnrenewed(t)
              \/ ReturnUnrenewed(t) \/ TurnDone(t) \/ TurnError(t)
       PROVE  ExpiryKnown(s)'
  <2>1. UNCHANGED <<pc, counts, call, leaseExpiry, expiresAt>>
    BY <1>17 DEF TurnOpened, TurnRequested, InterruptedUnrenewed, ReturnUnrenewed,
        TurnDone, TurnError
  <2>2. tpc'[s] # "none" => tpc[s] # "none"
    BY <1>17, <1>b DEF TurnOpened, TurnRequested, InterruptedUnrenewed, ReturnUnrenewed,
        TurnDone, TurnError
  <2>3. ExpiryKnown(s) BY <1>17, <1>e, <2>1, <1>c DEF Claim, Alive
  <2> QED BY <1>b, <2>1, <2>2, <2>3, ExpiryKept
<1>18. CASE \/ Loop \/ Idle \/ RenewCancelled \/ GiveUp \/ ExpireLease \/ Cancel \/ Terminated
            \/ \E t \in Steps : AppStartsTurn(t) \/ AppEndsTurn(t)
  <2>1. UNCHANGED <<counts, call, leaseExpiry, expiresAt,
      tpc>> /\ (pc' = "thread" => pc = "thread")
    BY <1>18 DEF Loop, Idle, RenewCancelled, GiveUp, ExpireLease, Cancel, Terminated,
        AppStartsTurn, AppEndsTurn
  <2>2. ~Claim BY <2>1, <1>b DEF Claim, CountsType
  <2> QED BY <1>b, <1>e, <2>1, <2>2, ExpiryKept
<1> QED
  BY <1>1, <1>2, <1>3, <1>4, <1>5, <1>6, <1>7, <1>8, <1>9, <1>10, <1>11, <1>12, <1>13,
     <1>14, <1>15, <1>16, <1>17, <1>18
  DEF Next, MainStep, TurnGoroutine, TurnStep, Environment

\* There is no lease in hand at the start.
LEMMA InitExpiryInv == Init => ExpiryInv
<1> SUFFICES ASSUME Init PROVE ExpiryInv OBVIOUS
<1>1. \A s \in Steps : s # step BY DEF Init, step, Steps
<1> QED BY <1>1 DEF ExpiryInv

\* The expiry the service keeps for the lease in hand is known to the driver.
THEOREM ExpiriesAreKnown == Spec => []ExpiryInv
<1>1. ASSUME ExpiryInv, UNCHANGED vars PROVE ExpiryInv'
  BY <1>1
  DEF ExpiryInv, ExpiryKnown, HeardOf, Unrenewed, Alive, step, vars, mainVars, turnVars,
      httpVars, serviceVars
<1>2. IInv /\ ExpiryInv /\ [Next]_vars => ExpiryInv'
  BY <1>1, ExpiryPreserved
<1> QED BY <1>2, InitExpiryInv, Invariance, PTL DEF Spec

\* A request for an extension comes from a tick or from OnStarted, and while none has
\* failed it asks for a later expiry than the service keeps, whatever that cuts off,
\* for every lease_seconds whose product fits a time.Duration.
THEOREM RenewalsAlwaysGrow == Spec => RenewalsGrow
<1> DEFINE Grow ==
      Fits(LeaseSeconds) => \A c \in Callers :
         LET r == call'[c] IN
         r # call[c] /\ r.op = "extend" /\ r.st = "sent" =>
            Unrenewed(r.step) \/ WholeSeconds(r.next) > leaseExpiry[r.step]
<1>1. ASSUME IInv, ExpiryInv, RenewTick PROVE Grow
  <2>1. TypeOK /\ step \in Steps /\ call[Main] = NoCall /\ Alive /\ tpc[step] # "none"
    BY <1>1 DEF IInv, StepsInv, CallInv, MainInv, TurnInv, InStep, AfterStart, RenewTick,
        Alive, Exits
  <2>2. \A c \in Callers : call[c].op # "extend" \/ call[c].st # "ok"
    <3>1. \A c \in Steps : call[c] = NoCall
      BY <1>1, <2>1, TurnCallIsCurrent DEF RenewTick, IInv, MainInv, AfterStart
    <3> QED BY <2>1, <3>1, Words DEF Callers, Main
  <2>3. Unrenewed(step) \/ leaseExpiry[step] <= expiresAt[step]
    BY <1>1, <2>1, <2>2 DEF ExpiryInv, ExpiryKnown, HeardOf
  <2>4. leaseExpiry[step] \in Times BY <2>1 DEF TypeOK
  <2>5. Fits(LeaseSeconds) =>
           Unrenewed(step) \/ WholeSeconds(NextExpiresAt(step)) > leaseExpiry[step]
    BY <2>1, <2>3, <2>4, NextIsLater
  <2>6. CASE ctxDone BY <1>1, <2>6 DEF RenewTick
  <2>7. CASE ~ctxDone
    <3>1. NextExpiresAt(step) \in Times /\ "extend" \in Operations
      BY <2>1, NextExpiresAtTyped DEF Operations
    <3>2. /\ call'[Main].step = step /\ call'[Main].next = NextExpiresAt(step)
          /\ \A c \in Steps : call'[c] = call[c]
      BY <1>1, <2>1, <2>7, <3>1, MainSends DEF RenewTick
    <3> HIDE DEF step
    <3> QED BY <2>5, <3>2 DEF Callers, Main
  <2> QED BY <2>6, <2>7
<1>2. ASSUME IInv, ExpiryInv, NEW t \in Steps, TurnStarted(t) PROVE Grow
  <2>1. TypeOK /\ t = step /\ Alive /\ tpc[t] = "decode" /\ ~started[t]
    BY <1>2, CurrentTurn DEF IInv, TurnInv, TurnStarted, Over
  <2>2. \A c \in Callers : call[c].op # "extend" \/ call[c].st # "ok"
    <3>1. \A c \in Steps : call[c] = NoCall
      BY <1>2, <2>1, TurnCallIsCurrent
    <3>2. call[Main].op # "extend" BY <1>2, <2>1 DEF IInv, CallInv
    <3> QED BY <3>1, <3>2, Words DEF Callers, Main
  <2>3. Unrenewed(t) \/ leaseExpiry[t] <= expiresAt[t]
    BY <1>2, <2>1, <2>2 DEF ExpiryInv, ExpiryKnown, HeardOf
  <2>4. leaseExpiry[t] \in Times BY <2>1 DEF TypeOK
  <2>5. Fits(LeaseSeconds) => Unrenewed(t) \/ WholeSeconds(NextExpiresAt(t)) > leaseExpiry[t]
    BY <2>1, <2>3, <2>4, NextIsLater
  <2>6. CASE ctxDone BY <1>2, <2>6 DEF TurnStarted
  <2>7. CASE ~ctxDone
    <3>1. NextExpiresAt(t) \in Times /\ "extend" \in Operations
      BY <2>1, NextExpiresAtTyped DEF Operations
    <3>2. /\ call'[t] = Request("extend", t, NextExpiresAt(t))
          /\ \A c \in Callers : c # t => call'[c] = call[c]
      BY <1>2, <2>1, <2>7, StepTyped DEF TurnStarted, TypeOK
    <3>3. call'[t].step = t /\ call'[t].next = NextExpiresAt(t)
      BY <3>1, <3>2, RequestTyped
    <3> QED BY <2>5, <3>2, <3>3
  <2> QED BY <2>6, <2>7
<1>3. ASSUME IInv, Next, ~RenewTick, \A t \in Steps : ~TurnStarted(t),
             NEW c \in Callers, call'[c] # call[c]
      PROVE  ~(call'[c].op = "extend" /\ call'[c].st = "sent")
  <2>a. /\ call \in [Callers -> Calls \cup {NoCall}] /\ Main \in Callers /\ Steps \subseteq Callers
        /\ NoCall.op = "none" /\ "extend" \notin Settlements /\ TypeOK
    BY <1>3, StepTyped, Words DEF IInv, TypeOK
  <2>1. ASSUME NEW op \in Settlements, Settle(op)
        PROVE  ~(call'[c].op = "extend" /\ call'[c].st = "sent")
    BY <1>3, <2>1, <2>a DEF Settle, Request
  <2>2. ASSUME NEW r, TurnReturned(r)
        PROVE  ~(call'[c].op = "extend" /\ call'[c].st = "sent")
    BY <1>3, <2>1, <2>2 DEF TurnReturned, Settlements, NackCodes
  <2>3. CASE \/ Loop \/ VerifyFailed \/ Claim \/ ClaimedNothing \/ Idle \/ Claimed \/ ThreadStarted
             \/ RenewCancelled \/ Renewed \/ RenewFailed \/ GiveUp \/ Settled \/ CallFailed
    BY <1>3, <2>a, <2>3
    DEF Loop, VerifyFailed, Claim, ClaimedNothing, Idle, Claimed, ThreadStarted,
        RenewCancelled, Renewed, RenewFailed, GiveUp, Settled, CallFailed, Abandon,
        Request, httpVars
  <2>4. CASE ThreadFailed \/ WaitForStart \/ RenewResult
    BY <1>3, <2>1, <2>2, <2>4
    DEF ThreadFailed, WaitForStart, RenewResult, Settlements, NackCodes
  <2>5. ASSUME NEW t \in Steps, TurnStep(t) \/ TurnError(t)
        PROVE  ~(call'[c].op = "extend" /\ call'[c].st = "sent")
    BY <1>3, <2>a, <2>5
    DEF TurnStep, TurnOpened, TurnRequested, FirstExtended, FirstExtendFailed,
        InterruptedUnrenewed, ReturnUnrenewed, TurnDone, TurnError, Abandon, httpVars
  <2>6. CASE ServeClaim
    <3>1. call[Main] \in Calls BY <2>6, <2>a, CallTyped DEF ServeClaim
    <3>2. \A e : /\ [call[Main] EXCEPT !.st = "empty"].st = "empty"
                 /\ [call[Main] EXCEPT !.st = "ok", !.next = e].st = "ok"
      BY <3>1 DEF Calls
    <3>3. CASE call' = [call EXCEPT ![Main] = [call[Main] EXCEPT !.st = "empty"]]
      BY <1>3, <2>a, <3>2, <3>3
    <3>4. ASSUME NEW e,
                 call' = [call EXCEPT ![Main] = [call[Main] EXCEPT !.st = "ok", !.next = e]]
          PROVE  ~(call'[c].op = "extend" /\ call'[c].st = "sent")
      BY <1>3, <2>a, <3>2, <3>4
    <3> QED BY <2>6, <3>3, <3>4 DEF ServeClaim
  <2>7. ASSUME NEW d \in Callers, Serve(d)
        PROVE  ~(call'[c].op = "extend" /\ call'[c].st = "sent")
    <3>1. call[d] # NoCall BY <2>7, Words DEF Serve
    <3>2. [call[d] EXCEPT !.st = "ok"].st = "ok" BY <2>a, <3>1 DEF Calls
    <3> QED BY <1>3, <2>a, <2>7, <3>2 DEF Serve
  <2>8. CASE \/ ServeStray \/ ExpireLease \/ Cancel \/ Kill \/ Terminated
             \/ \E t \in Steps : AppStartsTurn(t) \/ AppEndsTurn(t)
    BY <1>3, <2>8
    DEF ServeStray, ExpireLease, Cancel, Kill, Terminated, AppStartsTurn, AppEndsTurn,
        vars, httpVars
  <2> QED
    BY <1>3, <2>3, <2>4, <2>5, <2>6, <2>7, <2>8
    DEF Next, MainStep, TurnGoroutine, TurnStep, Environment
<1>4. IInv /\ ExpiryInv /\ [Next]_vars => [Grow]_vars BY <1>1, <1>2, <1>3
<1> HIDE DEF Grow
<1>6. Spec => [][Grow]_vars BY <1>4, Invariance, ExpiriesAreKnown, PTL DEF Spec
<1> QED BY <1>6 DEF Grow, RenewalsGrow
=============================================================================
