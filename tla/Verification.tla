----------------------------- MODULE Verification -----------------------------
(***************************************************************************)
(* POST /verification/nid: the rate limit in front of it and then          *)
(* VerificationService.submitNid, which reads the user's row, looks for    *)
(* another owner of the NID and, in a transaction of its own, overwrites   *)
(* the row.  Calls of the same user and of different users interleave      *)
(* between any two of these.                                               *)
(***************************************************************************)
EXTENDS RateLimit, FiniteSets

CONSTANTS
  Users, Calls, Nids,
  Genuine,    \* the NIDs simulateNidCheck accepts: a fixed rule of the number
  NoNid       \* nid_hash NULL, and no user of a call

ASSUME NidAssumption ==
  /\ Genuine \subseteq Nids
  /\ NoNid \notin Nids \cup Users
  /\ Identities = Users

VARIABLES
  \* users
  status,     \* verification_status
  nid,        \* nid_hash
  \* Calls
  pc, actor, number,
  answer,
  \* History
  counted     \* calls the counter let through in each user's present window

row == <<status, nid>>
calls == <<pc, actor, number, answer>>
vars == <<hits, expiring, status, nid, pc, actor, number, answer, counted>>
-------------------------------------------------------------------------------
Go(c, label) ==
  /\ pc' = [pc EXCEPT ![c] = label]
  /\ UNCHANGED <<actor, number, answer>>

Reply(c, a) ==
  /\ pc' = [pc EXCEPT ![c] = "done"]
  /\ answer' = [answer EXCEPT ![c] = a]
  /\ UNCHANGED <<actor, number>>

Submit(c, u, n) ==
  /\ pc[c] = "idle"
  /\ pc' = [pc EXCEPT ![c] = "incr"]
  /\ actor' = [actor EXCEPT ![c] = u]
  /\ number' = [number EXCEPT ![c] = n]
  /\ UNCHANGED <<rateVars, row, answer, counted>>

\* The first command, and what the guard does with its count.
Count(c) ==
  LET u == actor[c]
      count == hits[u] + 1
  IN
  /\ pc[c] = "incr"
  /\ Incr(u)
  /\ \/ IsFirst(count) /\ Go(c, "expire") /\ UNCHANGED counted
     \/ ~IsFirst(count) /\ IsOver(count) /\ Reply(c, "limited") /\ UNCHANGED counted
     \/ /\ ~IsFirst(count) /\ ~IsOver(count)
        /\ Go(c, "read")
        /\ counted' = [counted EXCEPT ![u] = @ + 1]
  /\ UNCHANGED row

\* The second command, of the call whose INCR made the key.
Arm(c) ==
  /\ pc[c] = "expire"
  /\ Expire(actor[c])
  /\ Go(c, "read")
  /\ counted' = [counted EXCEPT ![actor[c]] = @ + 1]
  /\ UNCHANGED row

\* Either command fails, or its answer is lost: the guard lets the call through.
RedisFails(c) ==
  /\ pc[c] \in {"incr", "expire"}
  /\ Go(c, "read")
  /\ \/ UNCHANGED rateVars
     \/ pc[c] = "incr" /\ Incr(actor[c])
     \/ pc[c] = "expire" /\ Expire(actor[c])
  /\ UNCHANGED <<row, counted>>

\* The time to live of a counter runs out.
NextWindow(u) ==
  /\ WindowEnds(u)
  /\ counted' = [counted EXCEPT ![u] = 0]
  /\ UNCHANGED <<row, calls>>
-------------------------------------------------------------------------------
Anyone(u) == TRUE   \* not: a verified user may submit again
MaySubmit(u) == status[u] # "VERIFIED"

\* findById and the checks of the status.
ReadStatus(c) ==
  LET u == actor[c] IN
  /\ pc[c] = "read"
  /\ \/ MaySubmit(u) /\ Go(c, "owner")
     \/ ~MaySubmit(u) /\ nid[u] = number[c] /\ Reply(c, "VERIFIED")
     \/ ~MaySubmit(u) /\ nid[u] # number[c] /\ Reply(c, "conflict")
  /\ UNCHANGED <<rateVars, row, counted>>

Owners(n) == {u \in Users : nid[u] = n}

\* findByNidHash
LookForOwner(c) ==
  /\ pc[c] = "owner"
  /\ \/ Owners(number[c]) \subseteq {actor[c]} /\ Go(c, "write")
     \/ ~(Owners(number[c]) \subseteq {actor[c]}) /\ Reply(c, "conflict")
  /\ UNCHANGED <<rateVars, row, counted>>

Outcome(n) == IF n \in Genuine THEN "VERIFIED" ELSE "REJECTED"

NoUnique(u, n) == TRUE   \* not: nid_hash without @unique
UniqueHolds(u, n) == \A v \in Users \ {u} : nid[v] # n

Swapped(n) == [nid |-> Outcome(n), status |-> n]   \* not: the columns mixed up
Data(n) == [nid |-> n, status |-> Outcome(n)]

\* setVerification, which overwrites whatever the row has become.  The answer
\* of a COMMIT that was applied may be an error.
Write(c) ==
  LET u == actor[c]
      n == number[c]
  IN
  /\ pc[c] = "write"
  /\ \/ /\ UniqueHolds(u, n)
        /\ status' = [status EXCEPT ![u] = Data(n).status]
        /\ nid' = [nid EXCEPT ![u] = Data(n).nid]
        /\ Reply(c, Outcome(n)) \/ Reply(c, "error")
     \/ ~UniqueHolds(u, n) /\ Reply(c, "conflict") /\ UNCHANGED row
  /\ UNCHANGED <<rateVars, counted>>

\* A failing statement, or the death of the process: Redis and the row keep
\* what they have.
Fail(c) ==
  /\ pc[c] \in {"incr", "expire", "read", "owner", "write"}
  /\ Reply(c, "error")
  /\ UNCHANGED <<rateVars, row, counted>>
-------------------------------------------------------------------------------
Init ==
  /\ RateInit
  /\ status = [u \in Users |-> "UNVERIFIED"]
  /\ nid = [u \in Users |-> NoNid]
  /\ pc = [c \in Calls |-> "idle"]
  /\ actor = [c \in Calls |-> NoNid]
  /\ number = [c \in Calls |-> NoNid]
  /\ answer = [c \in Calls |-> "none"]
  /\ counted = [u \in Users |-> 0]

Step(c) == Count(c) \/ Arm(c) \/ ReadStatus(c) \/ LookForOwner(c) \/ Write(c)

Next ==
  \/ \E c \in Calls :
       \/ \E u \in Users, n \in Nids : Submit(c, u, n)
       \/ Step(c)
       \/ RedisFails(c)
       \/ Fail(c)
  \/ \E u \in Users : NextWindow(u)

Spec == Init /\ [][Next]_vars
===============================================================================
