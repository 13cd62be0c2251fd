-------------------------------- MODULE Outbox --------------------------------
(***************************************************************************)
(* The transactional outbox: API transactions commit events, and worker    *)
(* processes claim them with FOR UPDATE SKIP LOCKED, write the             *)
(* notifications and mark the event processed in one transaction, or roll  *)
(* back and charge the failed attempt on a connection of their own         *)
(* (OutboxPoller, OutboxProcessor, OutboxRepository, NotificationConsumer, *)
(* RiskExplanationConsumer).                                               *)
(***************************************************************************)
EXTENDS Naturals, FiniteSets

CONSTANTS
  Workers,      \* worker processes (replicas)
  Events,       \* outbox events, numbered in order of occurred_at
  Payload,      \* each event's type, parties, origin and transfer
  Batches,      \* the sets of events one API transaction commits
  Poison,       \* events whose handler throws every time
  MaxAttempts,  \* MAX_ATTEMPTS
  BatchSize,    \* DEFAULT_BATCH_SIZE
  Faults,       \* bound on crashes, lost statements and transient failures
  Nobody

ASSUME EventsAssumption == Events \subseteq Nat
ASSUME BatchesAssumption == Batches \subseteq SUBSET Events
ASSUME WorkersAssumption == IsFiniteSet(Workers) /\ Nobody \notin Workers \cup Events
\* A transfer commits one transfer.succeeded, one transfer.risk_flagged if its
\* risk is not low, and one money_request.accepted if it settles a request.
ASSUME PayloadAssumption ==
  \A d, e \in Events :
    d # e /\ Payload[d].transfer = Payload[e].transfer =>
      /\ Payload[d].type # Payload[e].type
      /\ Payload[d].fromRequest = Payload[e].fromRequest
      /\ Payload[d].type \in {"transfer.succeeded", "transfer.risk_flagged", "money_request.accepted"}
      /\ Payload[d].type = "money_request.accepted" => Payload[d].fromRequest
ASSUME OutboxBounds == MaxAttempts \in Nat \ {0} /\ BatchSize \in Nat \ {0} /\ Faults \in Nat

VARIABLES
  \* Committed rows
  emitted,     \* rows of outbox_events
  attempts,    \* attempt_count
  processed,   \* events whose processed_at is set
  erroneous,   \* events whose last_error is set
  backingOff,  \* events whose next_attempt_at lies ahead
  notified,    \* users with a notification of each event
  explained,   \* events whose risk assessment has its explanation
  \* Worker processes
  pc,          \* what each worker is doing
  inFlight,    \* the event each worker claimed, or Nobody
  drained,     \* events taken in this drain
  stopped,     \* workers told to shut down
  lockedBy,
  \* Bookkeeping of the model
  faults,      \* faults left
  deliveries   \* history: commits that marked each event processed

INSTANCE RowLocks WITH Calls <- Workers, Rows <- Events

rows == <<emitted, attempts, processed, erroneous, backingOff, notified, explained>>
vars == <<rows, pc, inFlight, drained, stopped, lockedBy, faults, deliveries>>
-------------------------------------------------------------------------------
PlanTwice(e) == {Payload[e].to}   \* not: a request's payment announced twice

\* NotificationConsumer.plan: a payment that settles a request is announced by
\* money_request.accepted only.
Plan(e) ==
  LET p == Payload[e] IN
  CASE p.type = "transfer.succeeded" -> IF p.fromRequest THEN {} ELSE {p.to}
    [] p.type \in {"money_request.created", "money_request.cancelled"} -> {p.from}
    [] p.type \in {"money_request.accepted", "money_request.declined"} -> {p.to}
    [] OTHER -> {}
-------------------------------------------------------------------------------
(***************************************************************************)
(* The API: outbox.insert inside the domain transaction.                   *)
(***************************************************************************)
Emit(b) ==
  /\ b \in Batches /\ b \cap emitted = {}
  /\ emitted' = emitted \cup b
  /\ UNCHANGED <<attempts, processed, erroneous, backingOff, notified, explained, pc, inFlight,
                 drained, stopped, lockedBy, faults, deliveries>>

\* Time passes next_attempt_at.
BackoffElapses(e) ==
  /\ e \in backingOff
  /\ backingOff' = backingOff \ {e}
  /\ UNCHANGED <<emitted, attempts, processed, erroneous, notified, explained, pc, inFlight,
                 drained, stopped, lockedBy, faults, deliveries>>
-------------------------------------------------------------------------------
(***************************************************************************)
(* OutboxPoller                                                            *)
(***************************************************************************)
Step(w, label) == pc' = [pc EXCEPT ![w] = label]

Fault == faults > 0 /\ faults' = faults - 1

\* The timer fires; the re-entrancy guard is pc itself.
Tick(w) ==
  /\ pc[w] = "waiting" /\ w \notin stopped
  /\ Step(w, "claim")
  /\ drained' = [drained EXCEPT ![w] = 0]
  /\ UNCHANGED <<rows, inFlight, stopped, lockedBy, faults, deliveries>>

RescheduleAlways(w) == Step(w, "waiting")   \* not: a timer set after shutdown

\* scheduleNext sets no timer once stopped; with no timer the process ends.
Reschedule(w) == Step(w, IF w \in stopped THEN "down" ELSE "waiting")

\* SIGTERM.  A drain under way runs on; an idle worker loses its timer.
Shutdown(w) ==
  /\ pc[w] # "down" /\ w \notin stopped
  /\ Fault
  /\ stopped' = stopped \cup {w}
  /\ Step(w, IF pc[w] = "waiting" THEN "down" ELSE pc[w])
  /\ UNCHANGED <<rows, inFlight, drained, lockedBy, deliveries>>

\* The process dies, or the framework kills it once the shutdown hooks have
\* run; the database rolls its transaction back.
Crash(w) ==
  /\ pc[w] # "down"
  /\ IF w \in stopped THEN UNCHANGED faults ELSE Fault
  /\ Step(w, "down")
  /\ inFlight' = [inFlight EXCEPT ![w] = Nobody]
  /\ ReleaseAll(w)
  /\ UNCHANGED <<rows, drained, stopped, deliveries>>

\* restart: unless-stopped, or the next deployment.
Restart(w) ==
  /\ pc[w] = "down"
  /\ Step(w, "waiting")
  /\ stopped' = stopped \ {w}
  /\ UNCHANGED <<rows, inFlight, drained, lockedBy, faults, deliveries>>
-------------------------------------------------------------------------------
(***************************************************************************)
(* OutboxProcessor.drain and processNext                                   *)
(***************************************************************************)
OneAttemptMore(e) == attempts[e] <= MaxAttempts     \* not: off by one
OneAttemptLess(e) == attempts[e] + 1 < MaxAttempts  \* not: off by one

AttemptsLeft(e) == attempts[e] < MaxAttempts

Claimable(w, e) ==
  /\ e \in emitted \ (processed \cup backingOff)
  /\ AttemptsLeft(e)
  /\ ~Blocked(w, e)   \* SKIP LOCKED

TakeUnlocked(w, e) == UNCHANGED lockedBy   \* not: a claim without FOR UPDATE

Take(w, e) == Acquire(w, e)

OneIterationMore(w) == drained[w] <= BatchSize   \* not: off by one

BatchLeft(w) == drained[w] < BatchSize

\* claimNext: the oldest event that is due, not exhausted and not locked.
Claim(w) ==
  /\ pc[w] = "claim" /\ BatchLeft(w)
  /\ \E e \in Events :
       /\ Claimable(w, e)
       /\ \A d \in Events : Claimable(w, d) => e <= d
       /\ Take(w, e)
       /\ inFlight' = [inFlight EXCEPT ![w] = e]
  /\ Step(w, "dispatch")
  /\ drained' = [drained EXCEPT ![w] = @ + 1]
  /\ UNCHANGED <<rows, stopped, faults, deliveries>>

\* Nothing to claim, or the batch is done.
EndDrain(w) ==
  /\ pc[w] = "claim"
  /\ ~BatchLeft(w) \/ ~\E e \in Events : Claimable(w, e)
  /\ Reschedule(w)
  /\ UNCHANGED <<rows, inFlight, drained, stopped, lockedBy, faults, deliveries>>

\* The claim query fails: reported as idle.
ClaimFails(w) ==
  /\ pc[w] = "claim" /\ BatchLeft(w)
  /\ Fault
  /\ Reschedule(w)
  /\ UNCHANGED <<rows, inFlight, drained, stopped, lockedBy, deliveries>>

\* NotificationConsumer.handle and markProcessed, in the claiming transaction.
Deliver(w) ==
  LET e == inFlight[w] IN
  /\ pc[w] = "dispatch" /\ e \notin Poison
  /\ notified' = [notified EXCEPT ![e] = @ \cup Plan(e)]
  /\ processed' = processed \cup {e}
  /\ erroneous' = erroneous \ {e}
  /\ deliveries' = [deliveries EXCEPT ![e] = @ + 1]
  /\ ReleaseAll(w)
  /\ UNCHANGED <<emitted, attempts, backingOff, explained, inFlight, drained, stopped>>

Commit(w) ==
  /\ Deliver(w)
  /\ Step(w, "explain")
  /\ UNCHANGED faults

\* The commit's acknowledgement is lost: to the worker the attempt failed.
CommitUnacknowledged(w) ==
  /\ Deliver(w)
  /\ Fault
  /\ Step(w, "charge")

\* The handler throws, or the transaction times out: all it wrote is undone.
RollBack(w) ==
  /\ pc[w] = "dispatch"
  /\ IF inFlight[w] \in Poison THEN UNCHANGED faults ELSE Fault
  /\ ReleaseAll(w)
  /\ Step(w, "charge")
  /\ UNCHANGED <<rows, inFlight, drained, stopped, deliveries>>

CountLost(e) == UNCHANGED attempts   \* not: counted in the transaction that rolled back

CountAttempt(e) == attempts' = [attempts EXCEPT ![e] = @ + 1]

\* recordFailure: an unconditional UPDATE on another connection, which waits if
\* another worker has claimed the event in the meantime.
Charge(w) ==
  LET e == inFlight[w] IN
  /\ pc[w] = "charge"
  /\ ~Blocked(w, e)
  /\ CountAttempt(e)
  /\ erroneous' = erroneous \cup {e}
  /\ backingOff' = backingOff \cup {e}
  /\ inFlight' = [inFlight EXCEPT ![w] = Nobody]
  /\ Step(w, "claim")
  /\ UNCHANGED <<emitted, processed, notified, explained, drained, stopped, lockedBy, faults,
                 deliveries>>

\* The bookkeeping fails and is swallowed.
ChargeLost(w) ==
  /\ pc[w] = "charge"
  /\ Fault
  /\ inFlight' = [inFlight EXCEPT ![w] = Nobody]
  /\ Step(w, "claim")
  /\ UNCHANGED <<rows, drained, stopped, lockedBy, deliveries>>

\* tryExplain, after the commit: best effort, never retried.
Explain(w) ==
  /\ pc[w] = "explain"
  /\ \/ /\ Payload[inFlight[w]].type = "transfer.risk_flagged"
        /\ explained' = explained \cup {inFlight[w]}
     \/ UNCHANGED explained
  /\ inFlight' = [inFlight EXCEPT ![w] = Nobody]
  /\ Step(w, "claim")
  /\ UNCHANGED <<emitted, attempts, processed, erroneous, backingOff, notified, drained, stopped,
                 lockedBy, faults, deliveries>>
-------------------------------------------------------------------------------
Init ==
  /\ emitted = {} /\ processed = {} /\ erroneous = {} /\ backingOff = {} /\ explained = {}
  /\ attempts = [e \in Events |-> 0]
  /\ notified = [e \in Events |-> {}]
  /\ deliveries = [e \in Events |-> 0]
  /\ pc = [w \in Workers |-> "waiting"]
  /\ inFlight = [w \in Workers |-> Nobody]
  /\ drained = [w \in Workers |-> 0]
  /\ stopped = {}
  /\ LocksInit
  /\ faults = Faults

Work(w) ==
  \/ Tick(w) \/ Claim(w) \/ EndDrain(w) \/ Commit(w) \/ RollBack(w) \/ Charge(w)
  \/ Explain(w) \/ Restart(w)

Next ==
  \/ \E b \in Batches : Emit(b)
  \/ \E e \in Events : BackoffElapses(e)
  \/ \E w \in Workers :
       Work(w) \/ Shutdown(w) \/ Crash(w) \/ ClaimFails(w) \/ CommitUnacknowledged(w)
         \/ ChargeLost(w)

Spec == Init /\ [][Next]_vars

\* Each worker's event loop runs, down processes come back, and time passes.
FairSpec ==
  /\ Spec
  /\ \A w \in Workers : WF_vars(Work(w))
  /\ \A e \in Events : WF_vars(BackoffElapses(e))
===============================================================================
