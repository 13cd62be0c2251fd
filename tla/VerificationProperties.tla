------------------------- MODULE VerificationProperties -------------------------
(* What NID verification and its rate limit must, and are meant to, guarantee. *)
EXTENDS Verification

TypeOK ==
  /\ hits \in [Users -> Nat] /\ counted \in [Users -> Nat]
  /\ expiring \subseteq {u \in Users : hits[u] > 0}
  /\ status \in [Users -> {"UNVERIFIED", "VERIFIED", "REJECTED"}]
  /\ nid \in [Users -> Nids \cup {NoNid}]
  /\ pc \in [Calls -> {"idle", "incr", "expire", "read", "owner", "write", "done"}]
  /\ answer \in [Calls -> {"none", "limited", "conflict", "error", "VERIFIED", "REJECTED"}]
  /\ actor \in [Calls -> Users \cup {NoNid}] /\ number \in [Calls -> Nids \cup {NoNid}]
  /\ \A c \in Calls : pc[c] = "idle" \/ (actor[c] \in Users /\ number[c] \in Nids)

\* "One NID, one account", though owners are looked for outside the transaction
\* that writes: no two users hold one number.
OneAccountPerNid == \A u, v \in Users : nid[u] = nid[v] /\ nid[u] # NoNid => u = v

\* Of the calls of one window whose Redis commands worked, at most Limit pass,
\* however their two commands interleave.
WindowAdmitsLimit == \A u \in Users : counted[u] <= Limit

\* A verified user none of whose calls has read an earlier status.
Settled(u) ==
  /\ status[u] = "VERIFIED"
  /\ \A c \in Calls : actor[c] = u => pc[c] \notin {"owner", "write"}

\* What the code keeps of "VERIFIED is the only terminal state": once the calls
\* that read an earlier status have ended, nothing changes the user's number or
\* status any more.
SettledIsFinal ==
  [][\A u \in Users : Settled(u) => Settled(u)' /\ nid'[u] = nid[u]]_vars

\* "VERIFIED is the only terminal state."
VerifiedIsFinal ==
  [][\A u \in Users : status[u] = "VERIFIED" => status'[u] = "VERIFIED"]_vars
-------------------------------------------------------------------------------
\* The user has a call between its two Redis commands.
Arming(c, u) == pc[c] = "expire" /\ actor[c] = u

\* Such a call is the only one, its counter cannot end, and its place in the
\* window is reserved: a counter stays ahead of the calls it let through.
CountInv ==
  \A u \in Users :
    /\ counted[u] <= hits[u] /\ counted[u] <= Limit
    /\ \A c \in Calls : Arming(c, u) =>
         /\ counted[u] < hits[u] /\ counted[u] < Limit
         /\ u \notin expiring
         /\ \A d \in Calls : Arming(d, u) => d = c

IInv == TypeOK /\ OneAccountPerNid /\ CountInv
-------------------------------------------------------------------------------
\* What it takes for VERIFIED to be final: that no user submits a number before
\* the submission before it has ended.
InFlight(c) == pc[c] \notin {"idle", "done"}
OneCallPerUser ==
  \A c, d \in Calls : InFlight(c) /\ InFlight(d) /\ actor[c] = actor[d] => c = d

\* Then what a call has read of its user's status is still so.
ReadIsCurrent ==
  \A c \in Calls : pc[c] \in {"owner", "write"} => status[actor[c]] # "VERIFIED"
===============================================================================
