----------------------------- MODULE Announcements -----------------------------
(***************************************************************************)
(* What the outbox promises, with no workers, transactions, retries or     *)
(* crashes: each committed event is announced at most once, in one         *)
(* indivisible step, to the users its consumer's plan names.               *)
(***************************************************************************)
EXTENDS Naturals

CONSTANTS Events, Batches, Audience

VARIABLES
  emitted,    \* events the API has committed
  processed,  \* events that have been announced
  notified,   \* who was told of each event
  deliveries  \* how often each event was announced

announcementVars == <<emitted, processed, notified, deliveries>>

Emit(b) ==
  /\ b \cap emitted = {}
  /\ emitted' = emitted \cup b
  /\ UNCHANGED <<processed, notified, deliveries>>

Announce(e) ==
  /\ e \in emitted \ processed
  /\ processed' = processed \cup {e}
  /\ notified' = [notified EXCEPT ![e] = Audience[e]]
  /\ deliveries' = [deliveries EXCEPT ![e] = @ + 1]
  /\ UNCHANGED emitted

Init ==
  /\ emitted = {} /\ processed = {}
  /\ notified = [e \in Events |-> {}]
  /\ deliveries = [e \in Events |-> 0]

Next == (\E b \in Batches : Emit(b)) \/ (\E e \in Events : Announce(e))

Spec == Init /\ [][Next]_announcementVars
===============================================================================
