----------------------------- MODULE MCAssessment -----------------------------
(* A small instance of Assessment for TLC. *)
EXTENDS AssessmentProperties, TLC

MCLength == [daily |-> 1, weekly |-> 2, monthly |-> 4]
MCLimit == [daily |-> 4, weekly |-> 5, monthly |-> 6]

MCSenderSince == -2
MCReceiverSince == -1

CallSymmetry == Permutations(Calls)
===============================================================================
