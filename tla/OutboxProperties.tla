--------------------------- MODULE OutboxProperties ---------------------------
(***************************************************************************)
(* What the outbox must guarantee with several workers, handlers that      *)
(* throw, lost acknowledgements, crashes and restarts.                     *)
(***************************************************************************)
EXTENDS Outbox

Labels == {"waiting", "claim", "dispatch", "charge", "explain", "down"}
Parties == UNION {{Payload[e].from, Payload[e].to} : e \in Events}

\* Every variable has its type.
TypeOK ==
  /\ emitted \subseteq Events
  /\ attempts \in [Events -> Nat]
  /\ processed \subseteq emitted
  /\ erroneous \subseteq emitted
  /\ backingOff \subseteq emitted
  /\ notified \in [Events -> SUBSET Parties]
  /\ explained \subseteq emitted
  /\ pc \in [Workers -> Labels]
  /\ inFlight \in [Workers -> emitted \cup {Nobody}]
  /\ drained \in [Workers -> 0..BatchSize]
  /\ stopped \subseteq Workers
  /\ LocksTypeOK
  /\ faults \in 0..Faults
  /\ deliveries \in [Events -> Nat]
-------------------------------------------------------------------------------
\* Exactly one commit marks an event processed, whatever the workers do: the
\* row lock and the processed flag belong to the claiming transaction.
ProcessedOnce == \A e \in Events : deliveries[e] = IF e \in processed THEN 1 ELSE 0

\* Nobody is told twice of the same money, though accepting a request emits two
\* events about one transfer.
AnnouncedOnce ==
  \A d, e \in Events :
    \A u \in notified[d] \cap notified[e] : Payload[d].transfer = Payload[e].transfer => d = e

\* The retry gate holds up to one attempt for every other worker: an attempt
\* that was not charged yet when a worker claimed the event.
AttemptsBounded == \A e \in Events : attempts[e] < MaxAttempts + Cardinality(Workers)

\* Every committed event ends: processed, or out of attempts.
EventsSettle ==
  \A e \in Events : (e \in emitted) ~> (e \in processed \/ attempts[e] >= MaxAttempts)

\* With fewer faults than attempts an event its handler can process is
\* processed, however many poison events are ahead of it.
Delivered == \A e \in Events \ Poison : (e \in emitted) ~> (e \in processed)

\* A worker told to shut down finishes its drain and ends.
StopsWhenTold == \A w \in Workers : (w \in stopped) ~> (pc[w] = "down")
-------------------------------------------------------------------------------
(***************************************************************************)
(* The inductive invariant: a lock is held exactly while its event is      *)
(* being dispatched, and then the event is not processed yet; a worker     *)
(* that took an event owes it at most one attempt; and only those the      *)
(* plan names have been told.                                              *)
(***************************************************************************)
LockedWhileDispatching ==
  \A w \in Workers, e \in Events :
    Holds(w, e) <=> pc[w] = "dispatch" /\ inFlight[w] = e

Occupied ==
  \A w \in Workers :
    /\ pc[w] \in {"dispatch", "charge", "explain"} => inFlight[w] # Nobody
    /\ pc[w] = "dispatch" => inFlight[w] \notin processed

\* Workers whose attempt at an event may still be charged.
Chargeable(e) == {w \in Workers : pc[w] \in {"dispatch", "charge"} /\ inFlight[w] = e}
AttemptsOwed ==
  \A e \in Events :
    attempts[e] + Cardinality(Chargeable(e)) < MaxAttempts + Cardinality(Workers)

ToldByPlan == \A e \in Events : notified[e] \subseteq Plan(e)

IInv == TypeOK /\ LockedWhileDispatching /\ Occupied /\ ProcessedOnce /\ AttemptsOwed /\ ToldByPlan
-------------------------------------------------------------------------------
\* The promise of Announcements, made to whom the consumer's plan names.
Promise == INSTANCE Announcements WITH Audience <- [e \in Events |-> Plan(e)]

\* The workers together keep it: whatever they claim twice, lose or repeat, each
\* event emitted is announced in one commit, and in one only.
ImplementsAnnouncements == Promise!Spec

\* A notification is there exactly when its event is processed, and an
\* explanation only then: the consumers' rows and processed_at are one commit.
ToldExactly ==
  /\ \A e \in Events : notified[e] = IF e \in processed THEN Plan(e) ELSE {}
  /\ explained \subseteq processed

\* The safety behind EventsSettle and StopsWhenTold: whoever waits for a row
\* waits for a worker that waits for nobody, ...
WaitsOnlyForDispatch ==
  \A w \in Workers :
    pc[w] = "charge" /\ Blocked(w, inFlight[w]) =>
      lockedBy[inFlight[w]] \in Workers /\ pc[lockedBy[inFlight[w]]] = "dispatch"

\* ... and every step of a worker that was told to stop brings its end nearer.
DrainLeft == [down |-> 0, claim |-> 1, charge |-> 2, explain |-> 2, dispatch |-> 3]
Left(w) == (BatchSize - drained[w]) * 3 + DrainLeft[pc[w]]
StoppedRunOut ==
  [][\A w \in stopped :
       w \in stopped' =>
         /\ pc[w] # "waiting" /\ pc'[w] # "waiting"
         /\ Left(w)' <= Left(w)
         /\ pc'[w] # pc[w] => Left(w)' < Left(w)]_vars
===============================================================================
