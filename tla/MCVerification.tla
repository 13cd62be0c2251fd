---------------------------- MODULE MCVerification ----------------------------
(* Small instances of Verification for TLC. *)
EXTENDS VerificationProperties, TLC

CallSymmetry == Permutations(Calls)
===============================================================================
