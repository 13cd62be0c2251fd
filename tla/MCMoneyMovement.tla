--------------------------- MODULE MCMoneyMovement ---------------------------
(* Small instances of MoneyMovement for TLC. *)
EXTENDS MoneyMovementProperties, FiniteSets, TLC

MCUsers == {1, 2, 3}
MCOpening == <<3, 2, 1>>
MCTerms == [r \in Requests |-> [payer |-> 1, requester |-> 2, amount |-> 2]]

TransferTo(from, key, to, amount) ==
  [route |-> "transfer", actor |-> from, key |-> key, body |-> [to |-> to, amount |-> amount]]
Resolve(route, actor, key) ==
  [route |-> route, actor |-> actor, key |-> key, body |-> [request |-> CHOOSE r \in Requests : TRUE]]

\* The two directions between wallets 1 and 2, a key reused for another body, a
\* second payment by wallet 1.
TransferIntents ==
  {TransferTo(1, "a", 2, 2), TransferTo(1, "a", 2, 1), TransferTo(1, "b", 3, 2),
   TransferTo(2, "c", 1, 2)}

\* Everybody who may resolve the request, a payment from the payer's money and
\* one into it.
RequestIntents ==
  {Resolve("accept", 1, "a"), Resolve("accept", 1, "b"), Resolve("decline", 1, "a"),
   Resolve("cancel", 2, "a"), TransferTo(1, "a", 3, 2), TransferTo(2, "c", 1, 2)}

\* A transfer to oneself, one to a stranger, and two people who are not entitled
\* to the request.
MistakenIntents ==
  {TransferTo(3, "d", 3, 1), TransferTo(3, "d", 9, 1), Resolve("cancel", 1, "a"),
   Resolve("accept", 2, "a")}

MixedIntents == TransferIntents \cup RequestIntents \cup MistakenIntents

\* Wallets in both directions, one key made twice, and the request.
LivenessIntents ==
  {TransferTo(1, "a", 2, 2), TransferTo(2, "c", 1, 2), Resolve("accept", 1, "a")}

\* How far the calls are mixed: three of one family or the other, or two about
\* the request with a mistake among them, an account suspended, or the request
\* expired, meanwhile.
Submitted == {c \in Calls : pc[c] # "idle"}
Asked == {intent[c] : c \in Submitted}
Undisturbed == active = Users /\ expired = {}
Explored ==
  \/ Undisturbed /\ Asked \subseteq TransferIntents
  \/ Undisturbed /\ Asked \subseteq RequestIntents
  \/ /\ Cardinality(Users \ active) + Cardinality(expired) <= 1
     /\ Cardinality(Submitted) <= 2 /\ Asked \subseteq RequestIntents \cup MistakenIntents

\* The steps that could leave those bounds stay within them, and where nothing
\* else is left a behaviour stops.
BoundedSubmit(p) == Submit(p) /\ Explored'
BoundedSuspend(u) == Suspend(u) /\ Explored'
BoundedExpire(r) == Expire(r) /\ Explored'
CallStep(p) == Proceed(p) \/ CommitUnacknowledged(p) \/ WriteConflict(p) \/ Abort(p)
Stopped ==
  /\ ~Undisturbed /\ \A c \in Submitted : pc[c] = "done"
  /\ UNCHANGED vars

MCNext ==
  \/ \E p \in Calls : BoundedSubmit(p) \/ CallStep(p)
  \/ \E u \in Users : BoundedSuspend(u)
  \/ \E r \in Requests : BoundedExpire(r)
  \/ AllDone \/ Stopped
MCSpec == Init /\ [][MCNext]_vars

\* The calls alone, for liveness.
CallsNext == (\E p \in Calls : Submit(p) \/ CallStep(p)) \/ AllDone
CallsSpec == Init /\ [][CallsNext]_vars /\ Fairness

CallSymmetry == Permutations(Calls)
===============================================================================
