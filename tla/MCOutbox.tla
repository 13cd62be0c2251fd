------------------------------- MODULE MCOutbox -------------------------------
(* Small instances of Outbox for TLC. *)
EXTENDS OutboxProperties, TLC

\* A request is created; accepted by a transfer that is flagged (three events
\* about one transfer); and a flagged event on its own.
Event(type, from, to, fromRequest, transfer) ==
  [type |-> type, from |-> from, to |-> to, fromRequest |-> fromRequest, transfer |-> transfer]
MCPayload ==
  << Event("money_request.created", "payer", "requester", FALSE, "none"),
     Event("transfer.succeeded", "payer", "requester", TRUE, "t1"),
     Event("money_request.accepted", "payer", "requester", TRUE, "t1"),
     Event("transfer.risk_flagged", "payer", "requester", TRUE, "t1") >>
AcceptedBatches == {{1}, {2, 3, 4}}
FlaggedBatches == {{1}, {4}}
===============================================================================
