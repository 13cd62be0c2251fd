------------------------------- MODULE RowLocks -------------------------------
(***************************************************************************)
(* The part of PostgreSQL the money-movement transactions rely on for      *)
(* mutual exclusion: a row is locked by at most one transaction (SELECT    *)
(* ... FOR UPDATE, or the uncommitted INSERT of a unique key), a second    *)
(* transaction waits for it, and COMMIT or ROLLBACK frees every row the    *)
(* transaction holds.  External to the repository; modelled from the SQL   *)
(* the repositories issue.                                                 *)
(***************************************************************************)
CONSTANTS
  Calls,    \* the API calls; each runs at most one transaction at a time
  Rows,     \* the lockable rows
  Nobody    \* the holder of a free row

VARIABLE lockedBy   \* the transaction that holds each row, or Nobody

LocksTypeOK == lockedBy \in [Rows -> Calls \cup {Nobody}]

LocksInit == lockedBy = [x \in Rows |-> Nobody]

Holds(p, x) == lockedBy[x] = p

\* Another transaction holds x, so a statement of p that needs x waits.
Blocked(p, x) == lockedBy[x] \notin {p, Nobody}

Acquire(p, x) ==
  /\ lockedBy[x] \in {p, Nobody}
  /\ lockedBy' = [lockedBy EXCEPT ![x] = p]

\* COMMIT and ROLLBACK alike.
ReleaseAll(p) ==
  lockedBy' = [x \in Rows |-> IF lockedBy[x] = p THEN Nobody ELSE lockedBy[x]]
===============================================================================
