---------------------------- MODULE OutboxProofs ----------------------------
(***************************************************************************)
(* The outbox processes every event in one commit, tells nobody twice of   *)
(* one transfer and bounds the attempts, for any number of workers, events *)
(* and faults.                                                             *)
(***************************************************************************)
EXTENDS OutboxProperties, FiniteSetTheorems, TLAPS

\* The plan names parties of the event.
LEMMA PlanNamesParties == ASSUME NEW e \in Events PROVE Plan(e) \subseteq Parties
BY DEF Plan, Parties

\* The workers that owe an event an attempt are finitely many.
LEMMA ChargeableFinite ==
  ASSUME NEW e \in Events
  PROVE  /\ IsFiniteSet(Chargeable(e)) /\ Cardinality(Chargeable(e)) \in Nat
         /\ Cardinality(Chargeable(e)) <= Cardinality(Workers)
         /\ Cardinality(Workers) \in Nat
<1>1. Chargeable(e) \in SUBSET Workers
  BY DEF Chargeable
<1>2. IsFiniteSet(Chargeable(e)) /\ Cardinality(Chargeable(e)) <= Cardinality(Workers)
  BY <1>1, WorkersAssumption, FS_Subset
<1> QED BY <1>2, WorkersAssumption, FS_CardinalityType

\* Whoever stops owing an attempt, or has it charged, keeps the bound.
LEMMA OwedKept ==
  ASSUME IInv, attempts' = attempts, \A e \in Events : Chargeable(e)' \subseteq Chargeable(e)
  PROVE  AttemptsOwed'
<1> SUFFICES ASSUME NEW e \in Events
             PROVE  attempts[e] + Cardinality(Chargeable(e)') < MaxAttempts + Cardinality(Workers)
  BY DEF AttemptsOwed
<1>1. IsFiniteSet(Chargeable(e)) /\ Cardinality(Chargeable(e)) \in Nat /\ Cardinality(Workers) \in Nat
  BY ChargeableFinite
<1>2. IsFiniteSet(Chargeable(e)') /\ Cardinality(Chargeable(e)') <= Cardinality(Chargeable(e))
  BY <1>1, FS_Subset
<1>3. Cardinality(Chargeable(e)') \in Nat
  BY <1>2, FS_CardinalityType
<1>4. attempts[e] \in Nat /\ attempts[e] + Cardinality(Chargeable(e)) < MaxAttempts + Cardinality(Workers)
  BY DEF IInv, TypeOK, AttemptsOwed
<1> QED BY <1>1, <1>2, <1>3, <1>4, OutboxBounds
-------------------------------------------------------------------------------
\* The environment: a batch of events is committed, or a backoff elapses.
LEMMA EnvironmentKeeps ==
  ASSUME IInv, (\E b \in Batches : Emit(b)) \/ (\E e \in Events : BackoffElapses(e)) \/ UNCHANGED vars
  PROVE  IInv'
<1> USE DEF IInv
<1>0. /\ emitted \subseteq emitted' /\ emitted' \subseteq Events /\ backingOff' \subseteq emitted'
      /\ UNCHANGED <<attempts, processed, erroneous, notified, explained, pc, inFlight, drained,
                     stopped, lockedBy, faults, deliveries>>
  BY BatchesAssumption DEF Emit, BackoffElapses, vars, rows, TypeOK
<1>1. TypeOK'
  BY <1>0 DEF TypeOK, LocksTypeOK
<1>2. LockedWhileDispatching'
  BY <1>0 DEF LockedWhileDispatching, Holds
<1>3. Occupied' /\ ProcessedOnce' /\ ToldByPlan'
  BY <1>0 DEF Occupied, ProcessedOnce, ToldByPlan
<1>4. AttemptsOwed'
  BY <1>0, OwedKept DEF Chargeable
<1> QED BY <1>1, <1>2, <1>3, <1>4

\* The poll loop: a worker between events waits, drains, ends or restarts, or is
\* told to stop whatever it does.
LEMMA PollKeeps ==
  ASSUME IInv, NEW w \in Workers, NEW l \in Labels, pc' = [pc EXCEPT ![w] = l],
         l = pc[w] \/ {l, pc[w]} \subseteq {"waiting", "claim", "down"},
         drained' \in [Workers -> 0..BatchSize], stopped' \subseteq Workers, faults' \in 0..Faults,
         UNCHANGED <<rows, inFlight, lockedBy, deliveries>>
  PROVE  IInv'
<1> USE DEF IInv
<1>0. /\ UNCHANGED <<emitted, attempts, processed, erroneous, backingOff, notified, explained,
                     inFlight, lockedBy, deliveries>>
      /\ \A v \in Workers : \A m \in {"dispatch", "charge", "explain"} : pc'[v] = m <=> pc[v] = m
  BY DEF rows, TypeOK
<1>1. TypeOK'
  BY <1>0 DEF TypeOK, LocksTypeOK
<1>2. LockedWhileDispatching'
  BY <1>0 DEF LockedWhileDispatching, Holds
<1>3. Occupied' /\ ProcessedOnce' /\ ToldByPlan'
  BY <1>0 DEF Occupied, ProcessedOnce, ToldByPlan
<1>4. AttemptsOwed'
  BY <1>0, OwedKept DEF Chargeable
<1> QED BY <1>1, <1>2, <1>3, <1>4

\* A claim: the row was free, the event unprocessed and its attempts not spent.
LEMMA ClaimKeeps == ASSUME IInv, NEW w \in Workers, Claim(w) PROVE IInv'
<1> USE DEF IInv
<1>1. PICK e \in Events : Claimable(w, e) /\ Take(w, e) /\ inFlight' = [inFlight EXCEPT ![w] = e]
  BY DEF Claim
<1>0. /\ UNCHANGED <<emitted, attempts, processed, erroneous, backingOff, notified, explained,
                     stopped, faults, deliveries>>
      /\ pc[w] = "claim" /\ pc' = [pc EXCEPT ![w] = "dispatch"] /\ e # Nobody /\ e \in emitted
      /\ e \notin processed /\ lockedBy[e] \in {w, Nobody} /\ lockedBy' = [lockedBy EXCEPT ![e] = w]
  BY <1>1, WorkersAssumption DEF Claim, rows, Step, Claimable, Blocked, Take, Acquire
<1>2. TypeOK'
  <2>1. drained' \in [Workers -> 0..BatchSize]
    BY OutboxBounds DEF Claim, BatchLeft, TypeOK
  <2>2. inFlight' \in [Workers -> emitted \cup {Nobody}] /\ pc' \in [Workers -> Labels] /\ LocksTypeOK'
    BY <1>0, <1>1 DEF TypeOK, Labels, LocksTypeOK
  <2> QED BY <1>0, <2>1, <2>2 DEF TypeOK
<1>3. LockedWhileDispatching'
  <2>1. \A v \in Workers \ {w} : lockedBy[e] # v
    BY <1>0, WorkersAssumption
  <2>2. \A d \in Events : lockedBy[d] # w
    BY <1>0 DEF LockedWhileDispatching, Holds
  <2> QED BY <1>0, <1>1, <2>1, <2>2 DEF LockedWhileDispatching, Holds, TypeOK, LocksTypeOK
<1>4. Occupied' /\ ProcessedOnce' /\ ToldByPlan'
  BY <1>0, <1>1 DEF Occupied, ProcessedOnce, ToldByPlan, TypeOK
<1>5. AttemptsOwed'
  <2> SUFFICES ASSUME NEW d \in Events
               PROVE  attempts[d] + Cardinality(Chargeable(d)') < MaxAttempts + Cardinality(Workers)
    BY <1>0 DEF AttemptsOwed
  <2>1. CASE d # e
    <3>1. Chargeable(d)' = Chargeable(d)
      BY <1>0, <1>1, <2>1 DEF Chargeable, TypeOK
    <3> QED BY <3>1 DEF AttemptsOwed
  <2>2. CASE d = e
    <3>1. Chargeable(e)' = Chargeable(e) \cup {w} /\ w \notin Chargeable(e)
      BY <1>0, <1>1 DEF Chargeable, TypeOK
    <3>2. Chargeable(e) \in SUBSET (Workers \ {w})
      BY <3>1 DEF Chargeable
    <3>3. IsFiniteSet(Workers \ {w}) /\ Cardinality(Workers \ {w}) = Cardinality(Workers) - 1
      BY WorkersAssumption, FS_RemoveElement
    <3>4. Cardinality(Chargeable(e)) <= Cardinality(Workers \ {w})
      BY <3>2, <3>3, FS_Subset
    <3>5. Cardinality(Chargeable(e)') = Cardinality(Chargeable(e)) + 1
      BY <3>1, ChargeableFinite, FS_AddElement
    <3>6. attempts[e] \in Nat /\ attempts[e] < MaxAttempts
      BY <1>1 DEF Claimable, AttemptsLeft, TypeOK
    <3>7. Cardinality(Chargeable(e)) \in Nat /\ Cardinality(Workers) \in Nat
      BY ChargeableFinite
    <3> QED BY <2>2, <3>3, <3>4, <3>5, <3>6, <3>7, OutboxBounds
  <2> QED BY <2>1, <2>2
<1> QED BY <1>2, <1>3, <1>4, <1>5

\* The commit that processes an event, acknowledged or not.
LEMMA DeliverKeeps ==
  ASSUME IInv, NEW w \in Workers, NEW l \in {"explain", "charge"}, Deliver(w),
         pc' = [pc EXCEPT ![w] = l], faults' \in 0..Faults
  PROVE  IInv'
<1> USE DEF IInv
<1> DEFINE e == inFlight[w]
<1>0. /\ pc[w] = "dispatch" /\ e \in emitted /\ e \in Events /\ e \notin processed
      /\ processed' = processed \cup {e} /\ erroneous' = erroneous \ {e}
      /\ notified' = [notified EXCEPT ![e] = @ \cup Plan(e)]
      /\ deliveries' = [deliveries EXCEPT ![e] = @ + 1]
      /\ lockedBy' = [x \in Events |-> IF lockedBy[x] = w THEN Nobody ELSE lockedBy[x]]
      /\ UNCHANGED <<emitted, attempts, backingOff, explained, inFlight, drained, stopped>>
  BY DEF Deliver, ReleaseAll, Occupied, TypeOK
<1>1. TypeOK'
  <2>1. notified' \in [Events -> SUBSET Parties]
    BY <1>0, PlanNamesParties DEF TypeOK
  <2>2. pc' \in [Workers -> Labels] /\ deliveries' \in [Events -> Nat] /\ LocksTypeOK'
    BY <1>0 DEF TypeOK, Labels, LocksTypeOK
  <2> QED BY <1>0, <2>1, <2>2 DEF TypeOK
<1>2. LockedWhileDispatching'
  BY <1>0, WorkersAssumption DEF LockedWhileDispatching, Holds, TypeOK, LocksTypeOK
<1>3. Occupied'
  <2>1. \A v \in Workers \ {w} : pc[v] = "dispatch" => inFlight[v] # e
    BY <1>0 DEF LockedWhileDispatching, Holds
  <2> QED BY <1>0, <2>1 DEF Occupied, TypeOK
<1>4. ProcessedOnce'
  BY <1>0 DEF ProcessedOnce, TypeOK
<1>5. AttemptsOwed'
  BY <1>0, OwedKept DEF Chargeable, TypeOK
<1>6. ToldByPlan'
  BY <1>0 DEF ToldByPlan, TypeOK, Plan
<1> QED BY <1>1, <1>2, <1>3, <1>4, <1>5, <1>6

\* A worker's transaction is rolled back: it still owes the attempt, or died.
LEMMA RollBackKeeps ==
  ASSUME IInv, NEW w \in Workers, ReleaseAll(w), faults' \in 0..Faults,
         UNCHANGED <<rows, drained, stopped, deliveries>>,
         \/ pc[w] = "dispatch" /\ pc' = [pc EXCEPT ![w] = "charge"] /\ inFlight' = inFlight
         \/ pc' = [pc EXCEPT ![w] = "down"] /\ inFlight' = [inFlight EXCEPT ![w] = Nobody]
  PROVE  IInv'
<1> USE DEF IInv
<1>0. /\ UNCHANGED <<emitted, attempts, processed, erroneous, backingOff, notified, explained,
                     drained, stopped, deliveries>>
      /\ lockedBy' = [x \in Events |-> IF lockedBy[x] = w THEN Nobody ELSE lockedBy[x]]
      /\ \A v \in Workers \ {w} : pc'[v] = pc[v] /\ inFlight'[v] = inFlight[v]
      /\ \/ pc[w] = "dispatch" /\ pc'[w] = "charge" /\ inFlight'[w] = inFlight[w]
         \/ pc'[w] = "down" /\ inFlight'[w] = Nobody
  BY DEF rows, ReleaseAll, TypeOK
<1>1. TypeOK'
  <2>1. pc' \in [Workers -> Labels] /\ inFlight' \in [Workers -> emitted \cup {Nobody}]
    BY DEF TypeOK, Labels
  <2> QED BY <1>0, <2>1 DEF TypeOK, LocksTypeOK
<1>2. LockedWhileDispatching'
  BY <1>0, WorkersAssumption DEF LockedWhileDispatching, Holds, TypeOK, LocksTypeOK
<1>3. Occupied' /\ ProcessedOnce' /\ ToldByPlan'
  BY <1>0 DEF Occupied, ProcessedOnce, ToldByPlan
<1>4. AttemptsOwed'
  BY <1>0, OwedKept, WorkersAssumption DEF Chargeable
<1> QED BY <1>1, <1>2, <1>3, <1>4

\* A worker leaves its event: nothing more is charged, or the explanation is done.
LEMMA LeaveKeeps ==
  ASSUME IInv, NEW w \in Workers, pc[w] \in {"charge", "explain"}, pc' = [pc EXCEPT ![w] = "claim"],
         inFlight' = [inFlight EXCEPT ![w] = Nobody], faults' \in 0..Faults, explained' \subseteq emitted,
         UNCHANGED <<emitted, attempts, processed, erroneous, backingOff, notified, drained, stopped,
                     lockedBy, deliveries>>
  PROVE  IInv'
<1> USE DEF IInv
<1>0. /\ \A v \in Workers \ {w} : pc'[v] = pc[v] /\ inFlight'[v] = inFlight[v]
      /\ pc'[w] = "claim" /\ inFlight'[w] = Nobody
  BY DEF TypeOK
<1>1. TypeOK'
  <2>1. pc' \in [Workers -> Labels] /\ inFlight' \in [Workers -> emitted \cup {Nobody}]
    BY DEF TypeOK, Labels
  <2> QED BY <1>0, <2>1 DEF TypeOK, LocksTypeOK
<1>2. LockedWhileDispatching'
  BY <1>0 DEF LockedWhileDispatching, Holds
<1>3. Occupied' /\ ProcessedOnce' /\ ToldByPlan'
  BY <1>0 DEF Occupied, ProcessedOnce, ToldByPlan
<1>4. AttemptsOwed'
  BY <1>0, OwedKept, WorkersAssumption DEF Chargeable
<1> QED BY <1>1, <1>2, <1>3, <1>4

\* A failed attempt is charged: one attempt more, one worker less that owes one.
LEMMA ChargeKeeps == ASSUME IInv, NEW w \in Workers, Charge(w) PROVE IInv'
<1> USE DEF IInv
<1> DEFINE e == inFlight[w]
<1>0. /\ pc[w] = "charge" /\ e \in Events /\ e \in emitted
      /\ attempts' = [attempts EXCEPT ![e] = @ + 1]
      /\ erroneous' = erroneous \cup {e} /\ backingOff' = backingOff \cup {e}
      /\ \A v \in Workers \ {w} : pc'[v] = pc[v] /\ inFlight'[v] = inFlight[v]
      /\ pc'[w] = "claim" /\ inFlight'[w] = Nobody
      /\ pc' \in [Workers -> Labels] /\ inFlight' \in [Workers -> emitted \cup {Nobody}]
      /\ UNCHANGED <<emitted, processed, notified, explained, drained, stopped, lockedBy, faults,
                     deliveries>>
  BY DEF Charge, CountAttempt, Step, Occupied, TypeOK, Labels
<1>1. TypeOK'
  BY <1>0 DEF TypeOK, LocksTypeOK
<1>2. LockedWhileDispatching'
  BY <1>0 DEF LockedWhileDispatching, Holds
<1>3. Occupied' /\ ProcessedOnce' /\ ToldByPlan'
  BY <1>0 DEF Occupied, ProcessedOnce, ToldByPlan
<1>4. AttemptsOwed'
  <2> SUFFICES ASSUME NEW d \in Events
               PROVE  attempts'[d] + Cardinality(Chargeable(d)') < MaxAttempts + Cardinality(Workers)
    BY DEF AttemptsOwed
  <2>1. CASE d # e
    <3>1. Chargeable(d)' = Chargeable(d)
      BY <1>0, <2>1, WorkersAssumption DEF Chargeable
    <3>2. attempts'[d] = attempts[d]
      BY <1>0, <2>1 DEF TypeOK
    <3> QED BY <3>1, <3>2 DEF AttemptsOwed
  <2>2. CASE d = e
    <3>1. Chargeable(d)' = Chargeable(d) \ {w} /\ w \in Chargeable(d)
      BY <1>0, <2>2, WorkersAssumption DEF Chargeable
    <3>2. Cardinality(Chargeable(d)') = Cardinality(Chargeable(d)) - 1
      BY <3>1, ChargeableFinite, FS_RemoveElement
    <3>3. attempts'[d] = attempts[d] + 1 /\ attempts[d] \in Nat
      BY <1>0, <2>2 DEF TypeOK
    <3>4. /\ Cardinality(Chargeable(d)) \in Nat /\ Cardinality(Workers) \in Nat
          /\ attempts[d] + Cardinality(Chargeable(d)) < MaxAttempts + Cardinality(Workers)
      BY ChargeableFinite DEF AttemptsOwed
    <3> QED BY <3>2, <3>3, <3>4, OutboxBounds
  <2> QED BY <2>1, <2>2
<1> QED BY <1>1, <1>2, <1>3, <1>4
-------------------------------------------------------------------------------
LEMMA InitEstablishes == Init => IInv
<1> SUFFICES ASSUME Init PROVE IInv
  OBVIOUS
<1>1. TypeOK
  BY OutboxBounds DEF Init, TypeOK, Labels, LocksInit, LocksTypeOK
<1>2. LockedWhileDispatching /\ Occupied /\ ProcessedOnce /\ ToldByPlan
  BY WorkersAssumption DEF Init, LockedWhileDispatching, Occupied, ProcessedOnce, ToldByPlan,
     LocksInit, Holds
<1>3. AttemptsOwed
  <2>1. \A e \in Events : Chargeable(e) = {} /\ attempts[e] = 0
    BY DEF Init, Chargeable
  <2>2. Cardinality({}) = 0 /\ Cardinality(Workers) \in Nat
    BY FS_EmptySet, WorkersAssumption, FS_CardinalityType
  <2> QED BY <2>1, <2>2, OutboxBounds DEF AttemptsOwed
<1> QED BY <1>1, <1>2, <1>3 DEF IInv

\* Every step keeps the invariant.
LEMMA StepKeeps == IInv /\ [Next]_vars => IInv'
<1> SUFFICES ASSUME IInv, [Next]_vars PROVE IInv'
  OBVIOUS
<1>0. /\ TypeOK /\ (faults > 0 => faults - 1 \in 0..Faults)
  BY OutboxBounds DEF IInv, TypeOK
<1>1. CASE (\E b \in Batches : Emit(b)) \/ (\E e \in Events : BackoffElapses(e)) \/ UNCHANGED vars
  BY <1>1, EnvironmentKeeps
<1>2. ASSUME NEW w \in Workers, Tick(w) PROVE IInv'
  <2>1. /\ pc[w] = "waiting" /\ pc' = [pc EXCEPT ![w] = "claim"]
        /\ drained' \in [Workers -> 0..BatchSize] /\ stopped' \subseteq Workers /\ faults' \in 0..Faults
        /\ UNCHANGED <<rows, inFlight, lockedBy, deliveries>>
    BY <1>0, <1>2, OutboxBounds DEF Tick, Step, TypeOK
  <2> QED BY <2>1, PollKeeps DEF Labels
<1>3. ASSUME NEW w \in Workers, EndDrain(w) \/ ClaimFails(w) PROVE IInv'
  <2>1. /\ pc[w] = "claim" /\ pc' = [pc EXCEPT ![w] = IF w \in stopped THEN "down" ELSE "waiting"]
        /\ drained' \in [Workers -> 0..BatchSize] /\ stopped' \subseteq Workers /\ faults' \in 0..Faults
        /\ UNCHANGED <<rows, inFlight, lockedBy, deliveries>>
    BY <1>0, <1>3 DEF EndDrain, ClaimFails, Fault, Reschedule, Step, TypeOK
  <2> QED BY <2>1, PollKeeps DEF Labels
<1>4. ASSUME NEW w \in Workers, Shutdown(w) PROVE IInv'
  <2>1. /\ pc' = [pc EXCEPT ![w] = IF pc[w] = "waiting" THEN "down" ELSE pc[w]] /\ pc[w] \in Labels
        /\ drained' \in [Workers -> 0..BatchSize] /\ stopped' \subseteq Workers /\ faults' \in 0..Faults
        /\ UNCHANGED <<rows, inFlight, lockedBy, deliveries>>
    BY <1>0, <1>4 DEF Shutdown, Fault, Step, TypeOK
  <2> QED BY <2>1, PollKeeps, IInv DEF Labels
<1>5. ASSUME NEW w \in Workers, Restart(w) PROVE IInv'
  <2>1. /\ pc[w] = "down" /\ pc' = [pc EXCEPT ![w] = "waiting"]
        /\ drained' \in [Workers -> 0..BatchSize] /\ stopped' \subseteq Workers /\ faults' \in 0..Faults
        /\ UNCHANGED <<rows, inFlight, lockedBy, deliveries>>
    BY <1>0, <1>5 DEF Restart, Step, TypeOK
  <2> QED BY <2>1, PollKeeps DEF Labels
<1>6. ASSUME NEW w \in Workers, Claim(w) PROVE IInv'
  BY <1>6, ClaimKeeps
<1>7. ASSUME NEW w \in Workers, Commit(w) \/ CommitUnacknowledged(w) PROVE IInv'
  <2>1. PICK l \in {"explain", "charge"} : pc' = [pc EXCEPT ![w] = l]
    BY <1>7 DEF Commit, CommitUnacknowledged, Step
  <2>2. Deliver(w) /\ faults' \in 0..Faults
    BY <1>0, <1>7 DEF Commit, CommitUnacknowledged, Fault, TypeOK
  <2> QED BY <2>1, <2>2, DeliverKeeps
<1>8. ASSUME NEW w \in Workers, RollBack(w) \/ Crash(w) PROVE IInv'
  <2>1. /\ ReleaseAll(w) /\ faults' \in 0..Faults /\ UNCHANGED <<rows, drained, stopped, deliveries>>
        /\ \/ pc[w] = "dispatch" /\ pc' = [pc EXCEPT ![w] = "charge"] /\ inFlight' = inFlight
           \/ pc' = [pc EXCEPT ![w] = "down"] /\ inFlight' = [inFlight EXCEPT ![w] = Nobody]
    BY <1>0, <1>8 DEF RollBack, Crash, Fault, Step, TypeOK
  <2> QED BY <2>1, RollBackKeeps
<1>9. ASSUME NEW w \in Workers, Charge(w) PROVE IInv'
  BY <1>9, ChargeKeeps
<1>10. ASSUME NEW w \in Workers, ChargeLost(w) \/ Explain(w) PROVE IInv'
  <2>1. /\ pc[w] \in {"charge", "explain"} /\ pc' = [pc EXCEPT ![w] = "claim"]
        /\ inFlight' = [inFlight EXCEPT ![w] = Nobody] /\ faults' \in 0..Faults
        /\ UNCHANGED <<emitted, attempts, processed, erroneous, backingOff, notified, drained,
                       stopped, lockedBy, deliveries>>
    BY <1>0, <1>10 DEF ChargeLost, Explain, Fault, Step, TypeOK, rows
  <2>2. explained' \subseteq emitted
    BY <1>0, <1>10 DEF ChargeLost, Explain, TypeOK, rows, IInv, Occupied
  <2> QED BY <2>1, <2>2, LeaveKeeps
<1> QED BY <1>1, <1>2, <1>3, <1>4, <1>5, <1>6, <1>7, <1>8, <1>9, <1>10 DEF Next, Work

\* In every reachable state the inductive invariant holds.
THEOREM OutboxInvariance == Spec => []IInv
BY InitEstablishes, StepKeeps, PTL DEF Spec

\* Every variable of the outbox keeps its type: a worker takes no more events in
\* a drain than the batch size, and the rows flagged are rows there are.
THEOREM OutboxTypes == Spec => []TypeOK
<1>1. IInv => TypeOK
  BY DEF IInv
<1> QED BY <1>1, OutboxInvariance, PTL

\* claimNext and markProcessed share a transaction and a row lock: exactly one
\* commit marks an event processed, through crashes, retries and lost answers.
THEOREM EveryEventOnce == Spec => []ProcessedOnce
<1>1. IInv => ProcessedOnce
  BY DEF IInv
<1> QED BY <1>1, OutboxInvariance, PTL

\* The retry gate of claimNext is overrun by at most the other workers.
THEOREM RetriesBounded == Spec => []AttemptsBounded
<1>1. IInv => AttemptsBounded
  <2> SUFFICES ASSUME IInv, NEW e \in Events
               PROVE  attempts[e] < MaxAttempts + Cardinality(Workers)
    BY DEF AttemptsBounded
  <2>1. /\ attempts[e] \in Nat
        /\ attempts[e] + Cardinality(Chargeable(e)) < MaxAttempts + Cardinality(Workers)
    BY DEF IInv, TypeOK, AttemptsOwed
  <2> QED BY <2>1, ChargeableFinite, OutboxBounds
<1> QED BY <1>1, OutboxInvariance, PTL

\* The consumer's plan announces a transfer to each party through one event only.
THEOREM ToldOnce == Spec => []AnnouncedOnce
<1>1. IInv => AnnouncedOnce
  <2> SUFFICES ASSUME IInv, NEW d \in Events, NEW e \in Events, d # e,
                      Payload[d].transfer = Payload[e].transfer, NEW u \in notified[d] \cap notified[e]
               PROVE  FALSE
    BY DEF AnnouncedOnce
  <2>1. u \in Plan(d) /\ u \in Plan(e)
    BY DEF IInv, ToldByPlan
  <2> QED BY <2>1, PayloadAssumption DEF Plan
<1> QED BY <1>1, OutboxInvariance, PTL
-------------------------------------------------------------------------------
(***************************************************************************)
(* Announcements                                                           *)
(***************************************************************************)
\* Steps that are neither the API's nor a delivery leave what is announced alone.
LEMMA OnlyDeliveryAnnounces ==
  ASSUME [Next]_vars
  PROVE  \/ UNCHANGED <<emitted, processed, notified, deliveries>>
         \/ \E b \in Batches : Emit(b)
         \/ \E w \in Workers : Deliver(w)
<1>1. ASSUME NEW e \in Events, BackoffElapses(e)
      PROVE  UNCHANGED <<emitted, processed, notified, deliveries>>
  BY <1>1 DEF BackoffElapses
<1>2. ASSUME NEW w \in Workers,
             \/ Tick(w) \/ Claim(w) \/ EndDrain(w) \/ RollBack(w) \/ Charge(w) \/ Explain(w) \/ Restart(w)
             \/ Shutdown(w) \/ Crash(w) \/ ClaimFails(w) \/ ChargeLost(w)
      PROVE  UNCHANGED <<emitted, processed, notified, deliveries>>
  BY <1>2 DEF Tick, Claim, EndDrain, RollBack, Charge, Explain, Restart, Shutdown, Crash,
     ClaimFails, ChargeLost, rows
<1>3. CASE UNCHANGED vars
  BY <1>3 DEF vars, rows
<1> QED BY <1>1, <1>2, <1>3 DEF Next, Work, Commit, CommitUnacknowledged

\* Nobody has been told of an event that is not processed: notifications and
\* processed_at are one commit.
Untold == \A e \in Events \ processed : notified[e] = {}

LEMMA UntoldKept ==
  ASSUME IInv, Untold, [Next]_vars
  PROVE  Untold'
<1>1. ASSUME NEW w \in Workers, Deliver(w) PROVE Untold'
  <2>1. \A e \in Events \ {inFlight[w]} : notified'[e] = notified[e]
    BY <1>1 DEF Deliver, IInv, TypeOK
  <2> QED BY <1>1, <2>1 DEF Deliver, Untold
<1>2. ASSUME NEW b, Emit(b) PROVE Untold'
  BY <1>2 DEF Emit, Untold
<1>3. CASE UNCHANGED <<emitted, processed, notified, deliveries>>
  BY <1>3 DEF Untold
<1> QED BY <1>1, <1>2, <1>3, OnlyDeliveryAnnounces

\* The commit of a delivery, acknowledged or not, announces one event.
LEMMA DeliverAnnounces ==
  ASSUME IInv, Untold, NEW w \in Workers, Deliver(w)
  PROVE  Promise!Announce(inFlight[w])
<1> DEFINE e == inFlight[w]
<1>1. e \in emitted \ processed /\ e \in Events /\ notified[e] = {}
  BY DEF IInv, TypeOK, Occupied, Deliver, Untold
<1>2. notified' = [notified EXCEPT ![e] = [d \in Events |-> Plan(d)][e]]
  BY <1>1 DEF Deliver
<1> QED BY <1>1, <1>2 DEF Deliver, Promise!Announce

\* However many workers claim, fail, crash and retry, the events are announced as
\* if each were announced in one indivisible step, at most once.
THEOREM AnnouncementsImplemented == Spec => ImplementsAnnouncements
<1>1. Init => Promise!Init /\ Untold
  BY DEF Init, Promise!Init, Untold
<1>2. ASSUME IInv, Untold, [Next]_vars PROVE [Promise!Next]_(Promise!announcementVars)
  <2>1. ASSUME NEW b \in Batches, Emit(b) PROVE Promise!Emit(b)
    BY <2>1 DEF Emit, Promise!Emit
  <2>2. ASSUME NEW w \in Workers, Deliver(w) PROVE \E e \in Events : Promise!Announce(e)
    <3>1. inFlight[w] \in Events
      BY <1>2, <2>2 DEF IInv, TypeOK, Occupied, Deliver
    <3> QED BY <1>2, <2>2, <3>1, DeliverAnnounces
  <2>3. CASE UNCHANGED <<emitted, processed, notified, deliveries>>
    BY <2>3 DEF Promise!announcementVars
  <2> QED BY <1>2, <2>1, <2>2, <2>3, OnlyDeliveryAnnounces DEF Promise!Next
<1> QED
  BY <1>1, <1>2, UntoldKept, OutboxInvariance, PTL DEF Spec, ImplementsAnnouncements, Promise!Spec

\* In Announcements the users of the plan are told of exactly the processed
\* events.
PromiseKept ==
  /\ processed \subseteq Events /\ emitted \subseteq Events
  /\ notified \in [Events -> SUBSET Parties]
  /\ \A e \in Events : notified[e] = IF e \in processed THEN Plan(e) ELSE {}

LEMMA PromiseTellsExactly == Promise!Spec => []PromiseKept
<1>1. Promise!Init => PromiseKept
  BY DEF Promise!Init, PromiseKept
<1>2. ASSUME PromiseKept, [Promise!Next]_(Promise!announcementVars) PROVE PromiseKept'
  <2>1. ASSUME NEW e \in Events, Promise!Announce(e) PROVE PromiseKept'
    <3>1. notified' = [notified EXCEPT ![e] = Plan(e)] /\ Plan(e) \subseteq Parties
      BY <2>1, PlanNamesParties DEF Promise!Announce
    <3>2. notified' \in [Events -> SUBSET Parties]
      BY <1>2, <3>1 DEF PromiseKept
    <3>3. \A d \in Events : notified'[d] = IF d \in processed' THEN Plan(d) ELSE {}
      BY <1>2, <2>1, <3>1 DEF PromiseKept, Promise!Announce
    <3>4. \A d \in Events : Plan(d)' = Plan(d)
      BY DEF Plan
    <3> QED BY <1>2, <2>1, <3>2, <3>3, <3>4 DEF PromiseKept, Promise!Announce, Parties
  <2>2. ASSUME NEW b \in Batches, Promise!Emit(b) PROVE PromiseKept'
    BY <1>2, <2>2, BatchesAssumption DEF PromiseKept, Promise!Emit, Plan, Parties
  <2>3. CASE UNCHANGED Promise!announcementVars
    BY <1>2, <2>3 DEF PromiseKept, Promise!announcementVars, Plan, Parties
  <2> QED BY <1>2, <2>1, <2>2, <2>3 DEF Promise!Next
<1> QED BY <1>1, <1>2, PTL DEF Promise!Spec

\* An explanation is written after its event's commit.
ExplainsProcessed ==
  /\ explained \subseteq processed
  /\ \A w \in Workers : pc[w] = "explain" => inFlight[w] \in processed

LEMMA ExplainsProcessedKept ==
  ASSUME IInv, ExplainsProcessed, [Next]_vars
  PROVE  ExplainsProcessed'
<1> USE DEF IInv, TypeOK, ExplainsProcessed
<1>1. ASSUME UNCHANGED explained, processed \subseteq processed',
             \A w \in Workers : pc'[w] = "explain" => pc[w] = "explain" /\ inFlight'[w] = inFlight[w]
      PROVE  ExplainsProcessed'
  BY <1>1
<1>2. ASSUME NEW w \in Workers, Commit(w) PROVE ExplainsProcessed'
  BY <1>2 DEF Commit, Deliver, Step
<1>3. ASSUME NEW w \in Workers, Explain(w) PROVE ExplainsProcessed'
  BY <1>3 DEF Explain, Step
<1>4. ASSUME NEW w \in Workers, Claim(w) \/ CommitUnacknowledged(w) \/ RollBack(w) PROVE ExplainsProcessed'
  BY <1>1, <1>4 DEF Claim, CommitUnacknowledged, Deliver, RollBack, Step, rows
<1>5. ASSUME NEW w \in Workers, Tick(w) \/ EndDrain(w) \/ ClaimFails(w) \/ Restart(w) \/ Shutdown(w)
      PROVE  ExplainsProcessed'
  BY <1>1, <1>5 DEF Tick, EndDrain, ClaimFails, Restart, Shutdown, Reschedule, Step, rows
<1>6. ASSUME NEW w \in Workers, Charge(w) \/ ChargeLost(w) \/ Crash(w) PROVE ExplainsProcessed'
  BY <1>1, <1>6 DEF Charge, ChargeLost, Crash, Step, rows
<1>7. CASE (\E b \in Batches : Emit(b)) \/ (\E e \in Events : BackoffElapses(e)) \/ UNCHANGED vars
  BY <1>1, <1>7 DEF Emit, BackoffElapses, vars, rows
<1> QED BY <1>2, <1>3, <1>4, <1>5, <1>6, <1>7 DEF Next, Work

\* A notification is there exactly when its event is processed, and an
\* explanation only then, whichever worker crashes wherever: by Announcements,
\* and because tryExplain comes after the commit.
THEOREM ToldExactlyTheProcessed == Spec => []ToldExactly
<1>1. Init => ExplainsProcessed
  BY DEF Init, ExplainsProcessed
<1>2. PromiseKept /\ ExplainsProcessed => ToldExactly
  BY DEF PromiseKept, ExplainsProcessed, ToldExactly
<1> QED
  BY <1>1, <1>2, ExplainsProcessedKept, PromiseTellsExactly, AnnouncementsImplemented,
     OutboxInvariance, PTL DEF Spec, ImplementsAnnouncements
-------------------------------------------------------------------------------
(***************************************************************************)
(* The safety behind EventsSettle and StopsWhenTold                        *)
(***************************************************************************)
\* recordFailure waits only for a worker that is dispatching, which itself waits
\* for nobody: the workers cannot wait for each other in a circle.
THEOREM ChargesWaitForDispatch == Spec => []WaitsOnlyForDispatch
<1>1. IInv => WaitsOnlyForDispatch
  <2> SUFFICES ASSUME IInv, NEW w \in Workers, pc[w] = "charge", Blocked(w, inFlight[w])
               PROVE  lockedBy[inFlight[w]] \in Workers /\ pc[lockedBy[inFlight[w]]] = "dispatch"
    BY DEF WaitsOnlyForDispatch
  <2>1. inFlight[w] \in Events
    BY DEF IInv, TypeOK, Occupied
  <2>2. lockedBy[inFlight[w]] \in Workers
    BY <2>1 DEF IInv, TypeOK, LocksTypeOK, Blocked
  <2> QED BY <2>1, <2>2 DEF IInv, LockedWhileDispatching, Holds
<1> QED BY <1>1, OutboxInvariance, PTL

\* A worker told to stop is not waiting for its timer: it has none.
StoppedHasNoTimer == \A w \in stopped : pc[w] # "waiting"

\* What is left of a worker's drain falls when the worker goes on at a label
\* nearer the end, or has taken one event more.
LEMMA LeftFalls ==
  ASSUME TypeOK, NEW w \in Workers, pc[w] # "waiting", pc'[w] \in Labels \ {"waiting"},
         \/ drained'[w] = drained[w] /\ DrainLeft[pc'[w]] < DrainLeft[pc[w]]
         \/ /\ drained'[w] = drained[w] + 1 /\ drained[w] < BatchSize
            /\ pc[w] = "claim" /\ pc'[w] = "dispatch"
  PROVE  Left(w)' < Left(w) /\ Left(w) \in Nat /\ Left(w)' \in Nat
<1> DEFINE m == DrainLeft[pc[w]]
           n == DrainLeft[pc'[w]]
           a == BatchSize - drained[w]
           b == BatchSize - drained'[w]
<1>1. drained[w] \in 0..BatchSize /\ BatchSize \in Nat /\ pc[w] \in Labels
  BY OutboxBounds DEF TypeOK
<1>2. m \in Nat /\ n \in Nat
  BY <1>1 DEF DrainLeft, Labels
<1>3. a \in Nat /\ ((b = a /\ n < m) \/ (b = a - 1 /\ m = 1 /\ n = 3))
  BY <1>1 DEF DrainLeft
<1>4. Left(w) = a * 3 + m /\ Left(w)' = b * 3 + n
  BY DEF Left, DrainLeft
<1> HIDE DEF a, b, m, n
<1> QED BY <1>2, <1>3, <1>4

\* What a worker is doing and how much it has taken is its own affair.
LEMMA OtherWorkersKept ==
  ASSUME TypeOK, NEW v \in Workers, NEW w \in Workers \ {v},
         \/ Work(v) \/ Shutdown(v) \/ Crash(v) \/ ClaimFails(v) \/ CommitUnacknowledged(v)
         \/ ChargeLost(v)
  PROVE  pc'[w] = pc[w] /\ drained'[w] = drained[w] /\ (w \in stopped' <=> w \in stopped)
<1> USE DEF TypeOK, Step
<1>1. CASE Tick(v) \/ Claim(v) \/ Restart(v) \/ Shutdown(v)
  BY <1>1 DEF Tick, Claim, Restart, Shutdown
<1>2. CASE EndDrain(v) \/ ClaimFails(v) \/ Crash(v) \/ Charge(v) \/ ChargeLost(v) \/ Explain(v)
  BY <1>2 DEF EndDrain, ClaimFails, Reschedule, Crash, Charge, ChargeLost, Explain
<1>3. CASE Commit(v) \/ CommitUnacknowledged(v) \/ RollBack(v)
  BY <1>3 DEF Commit, CommitUnacknowledged, Deliver, RollBack
<1> QED BY <1>1, <1>2, <1>3 DEF Work

\* A worker that has been told to stop and is not down yet comes nearer its end
\* with every step.
LEMMA StoppedStep ==
  ASSUME TypeOK, StoppedHasNoTimer, NEW w \in stopped,
         \/ Work(w) \/ Shutdown(w) \/ Crash(w) \/ ClaimFails(w) \/ CommitUnacknowledged(w)
         \/ ChargeLost(w)
  PROVE  w \in stopped' => pc'[w] # "waiting" /\ Left(w)' < Left(w) /\ Left(w) \in Nat /\ Left(w)' \in Nat
<1> USE DEF TypeOK, Step
<1>0. w \in Workers /\ pc[w] # "waiting" /\ pc[w] \in Labels
  BY DEF StoppedHasNoTimer
<1>1. ASSUME pc'[w] \in Labels \ {"waiting"}, drained'[w] = drained[w],
             DrainLeft[pc'[w]] < DrainLeft[pc[w]]
      PROVE  pc'[w] # "waiting" /\ Left(w)' < Left(w) /\ Left(w) \in Nat /\ Left(w)' \in Nat
  BY <1>0, <1>1, LeftFalls
<1>2. ~Tick(w) /\ ~Shutdown(w)
  BY <1>0 DEF Tick, Shutdown
<1>3. CASE Restart(w)
  BY <1>3 DEF Restart
<1>4. CASE Claim(w)
  <2>1. /\ pc[w] = "claim" /\ pc'[w] = "dispatch"
        /\ drained[w] < BatchSize /\ drained'[w] = drained[w] + 1
    BY <1>0, <1>4 DEF Claim, BatchLeft
  <2> QED BY <1>0, <2>1, LeftFalls DEF Labels
<1>5. CASE EndDrain(w) \/ ClaimFails(w)
  <2>1. pc[w] = "claim" /\ pc'[w] = "down" /\ drained'[w] = drained[w]
    BY <1>0, <1>5 DEF EndDrain, ClaimFails, Reschedule
  <2> QED BY <1>1, <2>1 DEF DrainLeft, Labels
<1>6. CASE Crash(w)
  <2>1. pc[w] # "down" /\ pc'[w] = "down" /\ drained'[w] = drained[w]
    BY <1>0, <1>6 DEF Crash
  <2> QED BY <1>0, <1>1, <2>1 DEF DrainLeft, Labels
<1>7. CASE Commit(w) \/ CommitUnacknowledged(w) \/ RollBack(w)
  <2>1. pc[w] = "dispatch" /\ pc'[w] \in {"explain", "charge"} /\ drained'[w] = drained[w]
    BY <1>0, <1>7 DEF Commit, CommitUnacknowledged, Deliver, RollBack
  <2> QED BY <1>1, <2>1 DEF DrainLeft, Labels
<1>8. CASE Charge(w) \/ ChargeLost(w) \/ Explain(w)
  <2>1. pc[w] \in {"explain", "charge"} /\ pc'[w] = "claim" /\ drained'[w] = drained[w]
    BY <1>0, <1>8 DEF Charge, ChargeLost, Explain
  <2> QED BY <1>1, <2>1 DEF DrainLeft, Labels
<1> QED BY <1>2, <1>3, <1>4, <1>5, <1>6, <1>7, <1>8 DEF Work

\* The environment leaves the workers alone.
LEMMA EnvironmentLeavesWorkers ==
  ASSUME (\E b \in Batches : Emit(b)) \/ (\E e \in Events : BackoffElapses(e)) \/ UNCHANGED vars
  PROVE  UNCHANGED <<pc, drained, stopped>>
BY DEF Emit, BackoffElapses, vars

\* A step starts no timer for a worker that has been told to stop.
LEMMA StoppedHasNoTimerKept ==
  ASSUME TypeOK, StoppedHasNoTimer, [Next]_vars
  PROVE  StoppedHasNoTimer'
<1>1. ASSUME NEW v \in Workers,
             \/ Work(v) \/ Shutdown(v) \/ Crash(v) \/ ClaimFails(v) \/ CommitUnacknowledged(v)
             \/ ChargeLost(v)
      PROVE  StoppedHasNoTimer'
  <2>1. \A w \in stopped' \ {v} : w \in Workers /\ w \in stopped /\ pc'[w] = pc[w]
    <3>1. stopped' \subseteq Workers
      BY <1>1 DEF Work, Tick, Claim, EndDrain, Commit, RollBack, Charge, Explain, Restart, Shutdown,
         Crash, ClaimFails, CommitUnacknowledged, Deliver, ChargeLost, TypeOK
    <3> QED BY <1>1, <3>1, OtherWorkersKept
  <2>2. CASE v \in stopped
    BY <1>1, <2>1, <2>2, StoppedStep DEF StoppedHasNoTimer
  <2>3. CASE v \notin stopped /\ v \in stopped'
    <3>1. Shutdown(v)
      BY <1>1, <2>3 DEF Work, Tick, Claim, EndDrain, Commit, RollBack, Charge, Explain, Restart, Crash,
         ClaimFails, CommitUnacknowledged, Deliver, ChargeLost
    <3>2. pc'[v] # "waiting"
      BY <3>1 DEF Shutdown, Step, TypeOK
    <3> QED BY <2>1, <3>2 DEF StoppedHasNoTimer
  <2> QED BY <2>1, <2>2, <2>3 DEF StoppedHasNoTimer
<1>2. CASE UNCHANGED <<pc, drained, stopped>>
  BY <1>2 DEF StoppedHasNoTimer
<1> QED BY <1>1, <1>2, EnvironmentLeavesWorkers DEF Next

\* A worker that was told to stop sets no timer again, and every step of its own
\* brings its end nearer; nobody else's moves it away.  So its drain ends if its
\* event loop runs, however many events are waiting.
THEOREM StoppedWorkersRunOut == Spec => StoppedRunOut
<1> DEFINE Shrinks(w) ==
      w \in stopped' =>
        /\ pc[w] # "waiting" /\ pc'[w] # "waiting"
        /\ Left(w)' <= Left(w)
        /\ pc'[w] # pc[w] => Left(w)' < Left(w)
<1>1. ASSUME TypeOK, StoppedHasNoTimer, [Next]_vars PROVE \A w \in stopped : Shrinks(w)
  <2> SUFFICES ASSUME NEW w \in stopped PROVE Shrinks(w)
    OBVIOUS
  <2>0. w \in Workers /\ pc[w] # "waiting" /\ pc[w] \in Labels
    BY <1>1 DEF TypeOK, StoppedHasNoTimer
  <2>1. Left(w) \in Nat
    <3>1. BatchSize - drained[w] \in Nat /\ DrainLeft[pc[w]] \in Nat
      BY <1>1, <2>0, OutboxBounds DEF TypeOK, DrainLeft, Labels
    <3> QED BY <3>1 DEF Left
  <2>2. ASSUME pc'[w] = pc[w], drained'[w] = drained[w] PROVE Shrinks(w)
    <3>1. Left(w)' = Left(w)
      BY <2>2 DEF Left, DrainLeft
    <3> QED BY <2>0, <2>1, <2>2, <3>1
  <2>3. ASSUME NEW v \in Workers,
               \/ Work(v) \/ Shutdown(v) \/ Crash(v) \/ ClaimFails(v) \/ CommitUnacknowledged(v)
               \/ ChargeLost(v)
        PROVE  Shrinks(w)
    <3>1. CASE v # w
      BY <1>1, <2>0, <2>2, <2>3, <3>1, OtherWorkersKept
    <3>2. CASE v = w
      <4>1. w \in stopped' =>
              pc'[w] # "waiting" /\ Left(w)' < Left(w) /\ Left(w)' \in Nat
        BY <1>1, <2>3, <3>2, StoppedStep
      <4> QED BY <2>0, <2>1, <4>1
    <3> QED BY <3>1, <3>2
  <2> QED BY <1>1, <2>2, <2>3, EnvironmentLeavesWorkers DEF Next
<1>2. IInv => TypeOK
  BY DEF IInv
<1>3. Init => StoppedHasNoTimer
  BY DEF Init, StoppedHasNoTimer
<1>4. TypeOK /\ StoppedHasNoTimer /\ [Next]_vars => [\A w \in stopped : Shrinks(w)]_vars
  BY <1>1
<1> HIDE DEF Shrinks
<1>5. [][\A w \in stopped : Shrinks(w)]_vars => StoppedRunOut
  BY PTL DEF Shrinks, StoppedRunOut
<1> QED BY <1>2, <1>3, <1>4, <1>5, StoppedHasNoTimerKept, OutboxInvariance, PTL DEF Spec
===============================================================================
