------------------------------ MODULE MCSendPage ------------------------------
(* Small instances of SendPage for TLC. *)
EXTENDS SendPageProperties

MCOpening == <<3, 1, 0>>
MCTerms == [r \in Requests |-> [payer |-> 1, requester |-> 3, amount |-> 1]]

\* Somebody pays the sender, and the sender's requests page pays a request.
MCElsewhere ==
  {[route |-> "transfer", actor |-> 2, key |-> 1, body |-> [to |-> 1, amount |-> 1]],
   [route |-> "accept", actor |-> 1, key |-> 1, body |-> [request |-> CHOOSE r \in Requests : TRUE]]}
===============================================================================
