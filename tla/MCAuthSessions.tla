---------------------------- MODULE MCAuthSessions ----------------------------
(* Small instances of AuthSessions for TLC. *)
EXTENDS AuthSessionsProperties, TLC

CallSymmetry == Permutations(Calls)
===============================================================================
