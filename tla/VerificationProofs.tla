-------------------------- MODULE VerificationProofs --------------------------
(***************************************************************************)
(* The inductive invariant of Verification and what follows from it, for   *)
(* any number of users, calls and NIDs.                                    *)
(***************************************************************************)
EXTENDS VerificationProperties, TLAPS

\* Initially nobody has a number and every call is idle.
LEMMA InitInvariant == Init => IInv
  BY NidAssumption, LimitAssumption
  DEF Init, RateInit, IInv, TypeOK, OneAccountPerNid, CountInv, Arming

\* A step that changes one call and no counter or row keeps the invariant if the
\* call does not come between its two Redis commands.
LEMMA QuietKeeps ==
  ASSUME IInv, NEW c \in Calls, NEW label \in {"incr", "read", "owner", "write", "done"},
         pc' = [pc EXCEPT ![c] = label],
         actor' = actor \/ (pc[c] = "idle" /\ \E u \in Users : actor' = [actor EXCEPT ![c] = u]),
         UNCHANGED <<rateVars, counted, nid>>,
         TypeOK'
  PROVE  IInv'
<1>1. ASSUME NEW d \in Calls, NEW u \in Users, Arming(d, u)' PROVE Arming(d, u)
  BY <1>1 DEF Arming, IInv, TypeOK
<1>2. CountInv'
  BY <1>1 DEF CountInv, IInv, rateVars
<1>3. OneAccountPerNid'
  BY DEF OneAccountPerNid, IInv
<1> QED BY <1>2, <1>3 DEF IInv

\* A call is made.
LEMMA SubmitKeeps ==
  ASSUME IInv, NEW c \in Calls, NEW u \in Users, NEW n \in Nids, Submit(c, u, n)
  PROVE  IInv'
<1>1. TypeOK'
  BY DEF IInv, TypeOK, Submit, rateVars, row
<1> QED BY <1>1, QuietKeeps DEF Submit, row

\* INCR: a counter raised past Limit lets nobody through, and the counter that
\* is made here was at work for nobody.
LEMMA CountKeeps == ASSUME IInv, NEW c \in Calls, Count(c) PROVE IInv'
<1> DEFINE u == actor[c]
<1>0. u \in Users /\ pc[c] = "incr" /\ UNCHANGED <<actor, number, row, expiring>>
  BY DEF Count, IInv, TypeOK, Go, Reply, Incr
<1>1. hits' = [hits EXCEPT ![u] = @ + 1] /\ hits[u] \in Nat /\ counted[u] \in Nat
  BY <1>0 DEF Count, Incr, IInv, TypeOK
<1>2. OneAccountPerNid'
  BY <1>0 DEF OneAccountPerNid, IInv, row
<1>3. CASE IsFirst(hits[u] + 1) /\ Go(c, "expire") /\ UNCHANGED counted
  <2>1. TypeOK'
    BY <1>0, <1>1, <1>3 DEF IInv, TypeOK, Go, row
  <2>2. hits[u] = 0 /\ u \notin expiring /\ \A d \in Calls : ~Arming(d, u)
    BY <1>0, <1>1, <1>3 DEF IInv, TypeOK, CountInv, IsFirst
  <2>3. ASSUME NEW v \in Users, v # u, NEW d \in Calls, Arming(d, v)' PROVE Arming(d, v)
    BY <1>0, <1>3, <2>3 DEF Arming, Go, IInv, TypeOK
  <2>4. ASSUME NEW d \in Calls, Arming(d, u)' PROVE d = c
    BY <1>0, <1>3, <2>2, <2>4 DEF Arming, Go, IInv, TypeOK
  <2>5. \A v \in Users \ {u} : hits'[v] = hits[v]
    BY <1>1 DEF IInv, TypeOK
  <2>6. hits'[u] = 1 /\ counted[u] = 0
    BY <1>0, <1>1, <2>2 DEF IInv, TypeOK, CountInv
  <2>7. CountInv'
    BY <1>0, <1>3, <2>2, <2>3, <2>4, <2>5, <2>6, LimitAssumption DEF CountInv, IInv
  <2> QED BY <1>2, <2>1, <2>7 DEF IInv
<1>4. CASE ~IsFirst(hits[u] + 1) /\ ~UNCHANGED pc /\ ~(pc'[c] = "expire")
  <2>1. ASSUME NEW v \in Users, NEW d \in Calls, Arming(d, v)' PROVE Arming(d, v)
    BY <1>0, <1>4, <2>1 DEF Arming, Count, Go, Reply, IInv, TypeOK
  <2>2. \A v \in Users : hits'[v] >= hits[v] /\ hits[v] \in Nat /\ counted[v] \in Nat
    BY <1>0, <1>1 DEF IInv, TypeOK
  <2>3. CASE Reply(c, "limited") /\ UNCHANGED counted
    <3>1. TypeOK'
      BY <1>0, <1>1, <2>3 DEF IInv, TypeOK, Reply, row
    <3>2. CountInv'
      BY <1>0, <1>1, <2>1, <2>2, <2>3, <3>1, LimitAssumption DEF CountInv, IInv, TypeOK
    <3> QED BY <1>2, <3>1, <3>2 DEF IInv
  <2>4. CASE ~IsOver(hits[u] + 1) /\ Go(c, "read") /\ counted' = [counted EXCEPT ![u] = @ + 1]
    <3>1. TypeOK'
      BY <1>0, <1>1, <2>4 DEF IInv, TypeOK, Go, row
    <3>2. hits[u] + 1 <= Limit /\ hits'[u] = hits[u] + 1 /\ counted'[u] = counted[u] + 1
      BY <1>0, <1>1, <2>4, LimitAssumption DEF IsOver, IInv, TypeOK
    <3>3. \A v \in Users \ {u} : hits'[v] = hits[v] /\ counted'[v] = counted[v]
      BY <1>0, <1>1, <2>4 DEF IInv, TypeOK
    <3>4. ASSUME NEW v \in Users
          PROVE  /\ counted'[v] <= hits'[v] /\ counted'[v] <= Limit
                 /\ \A d \in Calls : Arming(d, v)' => counted'[v] < hits'[v] /\ counted'[v] < Limit
      <4>1. CASE v = u
        BY <1>1, <2>1, <3>2, <4>1, LimitAssumption DEF CountInv, IInv
      <4>2. CASE v # u
        BY <2>1, <3>3, <4>2 DEF CountInv, IInv
      <4> QED BY <4>1, <4>2
    <3>5. CountInv'
      BY <1>0, <2>1, <3>4 DEF CountInv, IInv
    <3> QED BY <1>2, <3>1, <3>5 DEF IInv
  <2> QED BY <1>3, <1>4, <2>3, <2>4 DEF Count
<1>5. CASE ~IsFirst(hits[u] + 1)
  BY <1>0, <1>4, <1>5 DEF Count, Go, Reply, IInv, TypeOK
<1> QED BY <1>3, <1>5 DEF Count

\* EXPIRE takes the place the call had reserved.
LEMMA ArmKeeps == ASSUME IInv, NEW c \in Calls, Arm(c) PROVE IInv'
<1> DEFINE u == actor[c]
<1>0. /\ u \in Users /\ Arming(c, u) /\ UNCHANGED <<actor, number, row, hits>>
      /\ expiring' = expiring \cup {u} /\ counted' = [counted EXCEPT ![u] = @ + 1]
      /\ pc' = [pc EXCEPT ![c] = "read"] /\ answer' = answer
  BY DEF Arm, Arming, IInv, TypeOK, Go, Expire
<1>1. TypeOK'
  <2>1. hits[u] > 0
    BY <1>0 DEF IInv, TypeOK, CountInv
  <2>2. expiring' \subseteq {v \in Users : hits'[v] > 0} /\ counted' \in [Users -> Nat]
    BY <1>0, <2>1 DEF IInv, TypeOK
  <2>3. status' = status /\ nid' = nid /\ pc[c] # "idle"
    BY <1>0 DEF row, Arming
  <2> QED BY <1>0, <2>2, <2>3 DEF IInv, TypeOK
<1>2. OneAccountPerNid'
  BY <1>0 DEF OneAccountPerNid, IInv, row
<1>3. ASSUME NEW v \in Users, NEW d \in Calls, Arming(d, v)' PROVE v # u /\ Arming(d, v)
  BY <1>0, <1>3 DEF Arming, IInv, TypeOK, CountInv
<1>4. counted[u] < hits[u] /\ counted[u] < Limit /\ counted'[u] = counted[u] + 1
  BY <1>0 DEF CountInv, IInv, TypeOK
<1>5. \A v \in Users \ {u} : counted'[v] = counted[v]
  BY <1>0 DEF IInv, TypeOK
<1>6. counted[u] \in Nat /\ hits[u] \in Nat /\ Limit \in Nat
  BY <1>0, LimitAssumption DEF IInv, TypeOK
<1>7. \A v \in Users : counted'[v] <= hits'[v] /\ counted'[v] <= Limit
  BY <1>0, <1>4, <1>5, <1>6 DEF CountInv, IInv
<1>8. CountInv'
  BY <1>0, <1>3, <1>5, <1>7 DEF CountInv, IInv
<1> QED BY <1>1, <1>2, <1>8 DEF IInv

\* A failing Redis command, whether or not it was carried out.
LEMMA RedisFailsKeeps == ASSUME IInv, NEW c \in Calls, RedisFails(c) PROVE IInv'
<1> DEFINE u == actor[c]
<1>0. /\ u \in Users /\ UNCHANGED <<actor, number, answer, status, nid, counted>>
      /\ pc' = [pc EXCEPT ![c] = "read"] /\ pc[c] # "idle"
  BY DEF RedisFails, IInv, TypeOK, Go, row
<1>1. OneAccountPerNid'
  BY <1>0 DEF OneAccountPerNid, IInv
<1>2. ASSUME NEW v \in Users, NEW d \in Calls, Arming(d, v)' PROVE d # c /\ Arming(d, v)
  BY <1>0, <1>2 DEF Arming, IInv, TypeOK
<1>3. CASE UNCHANGED rateVars
  <2>1. hits' = hits /\ expiring' = expiring
    BY <1>3 DEF rateVars
  <2>2. TypeOK'
    BY <1>0, <2>1 DEF IInv, TypeOK
  <2> QED BY <1>0, <1>1, <1>2, <2>1, <2>2 DEF IInv, CountInv
<1>4. CASE Incr(u)
  <2>1. TypeOK'
    <3>1. hits' \in [Users -> Nat] /\ expiring' \subseteq {v \in Users : hits'[v] > 0}
      BY <1>0, <1>4 DEF IInv, TypeOK, Incr
    <3> QED BY <1>0, <3>1 DEF IInv, TypeOK
  <2>2. \A v \in Users : hits'[v] >= hits[v] /\ hits[v] \in Nat /\ hits'[v] \in Nat /\ counted[v] \in Nat
    BY <1>0, <1>4 DEF Incr, IInv, TypeOK
  <2>3. CountInv'
    BY <1>0, <1>2, <1>4, <2>2, LimitAssumption DEF IInv, CountInv, Incr
  <2> QED BY <1>1, <2>1, <2>3 DEF IInv
<1>5. CASE pc[c] = "expire" /\ Expire(u)
  <2>1. TypeOK'
    BY <1>0, <1>5 DEF IInv, TypeOK, Expire, CountInv, Arming
  <2>2. ASSUME NEW v \in Users, NEW d \in Calls, Arming(d, v)' PROVE v # u
    BY <1>0, <1>2, <1>5, <2>2 DEF Arming, CountInv, IInv
  <2>3. CountInv'
    BY <1>0, <1>2, <1>5, <2>2 DEF IInv, CountInv, Expire
  <2> QED BY <1>1, <2>1, <2>3 DEF IInv
<1> QED BY <1>3, <1>4, <1>5 DEF RedisFails

\* The unique index keeps a number with one user.
LEMMA WriteKeeps == ASSUME IInv, NEW c \in Calls, Write(c) PROVE IInv'
<1> DEFINE u == actor[c]
           n == number[c]
<1>0. /\ u \in Users /\ n \in Nids /\ UNCHANGED <<rateVars, counted, actor, number>>
      /\ pc' = [pc EXCEPT ![c] = "done"]
  BY DEF Write, IInv, TypeOK, Reply
<1>1. CASE /\ UniqueHolds(u, n) /\ status' = [status EXCEPT ![u] = Outcome(n)]
           /\ nid' = [nid EXCEPT ![u] = n]
  <2>1. TypeOK'
    BY <1>0, <1>1 DEF Write, IInv, TypeOK, Reply, Outcome, rateVars, Data
  <2>2. OneAccountPerNid'
    BY <1>0, <1>1 DEF OneAccountPerNid, UniqueHolds, IInv, TypeOK
  <2>3. ASSUME NEW d \in Calls, NEW v \in Users, Arming(d, v)' PROVE Arming(d, v)
    BY <1>0, <2>3 DEF Arming, IInv, TypeOK
  <2>4. CountInv'
    BY <1>0, <2>3 DEF CountInv, IInv, rateVars
  <2> QED BY <2>1, <2>2, <2>4 DEF IInv
<1>2. CASE Reply(c, "conflict") /\ UNCHANGED row
  <2>1. TypeOK'
    BY <1>0, <1>2 DEF IInv, TypeOK, Reply, rateVars, row
  <2> QED BY <1>0, <1>2, <2>1, QuietKeeps DEF row
<1> QED BY <1>1, <1>2 DEF Write, Data

\* A window can end only when no call is between its two commands.
LEMMA NextWindowKeeps == ASSUME IInv, NEW u \in Users, NextWindow(u) PROVE IInv'
<1>0. /\ u \in expiring /\ UNCHANGED <<row, calls>> /\ hits' = [hits EXCEPT ![u] = 0]
      /\ expiring' = expiring \ {u} /\ counted' = [counted EXCEPT ![u] = 0]
  BY DEF NextWindow, WindowEnds
<1>1. TypeOK'
  BY <1>0 DEF IInv, TypeOK, row, calls
<1>2. OneAccountPerNid'
  BY <1>0 DEF IInv, OneAccountPerNid, row
<1>3. \A c \in Calls, v \in Users : Arming(c, v)' => v # u /\ Arming(c, v)
  BY <1>0 DEF Arming, calls, IInv, CountInv
<1>4. CountInv'
  BY <1>0, <1>3, LimitAssumption DEF IInv, CountInv, TypeOK
<1> QED BY <1>1, <1>2, <1>4 DEF IInv

\* The reads and the failures change nothing but their call.
LEMMA ReadsKeep ==
  ASSUME IInv, NEW c \in Calls, ReadStatus(c) \/ LookForOwner(c) \/ Fail(c)
  PROVE  IInv'
<1>1. TypeOK'
  BY DEF IInv, TypeOK, ReadStatus, LookForOwner, Fail, Go, Reply, rateVars, row
<1>2. PICK label \in {"owner", "write", "done"} : pc' = [pc EXCEPT ![c] = label]
  BY DEF ReadStatus, LookForOwner, Fail, Go, Reply
<1>3. actor' = actor /\ UNCHANGED <<rateVars, counted, nid>>
  BY DEF ReadStatus, LookForOwner, Fail, Go, Reply, row
<1> QED BY <1>1, <1>2, <1>3, QuietKeeps

LEMMA StepKeeps == IInv /\ [Next]_vars => IInv'
<1> SUFFICES ASSUME IInv, [Next]_vars PROVE IInv'
  OBVIOUS
<1>1. CASE UNCHANGED vars
  BY <1>1 DEF vars, IInv, TypeOK, OneAccountPerNid, CountInv, Arming
<1>2. CASE Next
  BY <1>2, SubmitKeeps, CountKeeps, ArmKeeps, RedisFailsKeeps, WriteKeeps, NextWindowKeeps, ReadsKeep
  DEF Next, Step
<1> QED BY <1>1, <1>2

\* The invariant holds in every reachable state.
THEOREM VerificationInvariance == Spec => []IInv
  BY InitInvariant, StepKeeps, PTL DEF Spec

\* The variables of Verification keep their types.
THEOREM VerificationTypes == Spec => []TypeOK
  BY VerificationInvariance, PTL DEF IInv

\* No NID ever belongs to two accounts, however submissions interleave.
THEOREM NidsHaveOneAccount == Spec => []OneAccountPerNid
  BY VerificationInvariance, PTL DEF IInv

\* No window lets more than Limit counted submissions through.
THEOREM LimitHolds == Spec => []WindowAdmitsLimit
<1>1. IInv => WindowAdmitsLimit
  BY DEF IInv, CountInv, WindowAdmitsLimit
<1> QED BY <1>1, VerificationInvariance, PTL

\* A verified user with no call past its read of the status stays that way.
LEMMA SettledStays ==
  ASSUME IInv, [Next]_vars, NEW u \in Users, Settled(u)
  PROVE  Settled(u)' /\ nid'[u] = nid[u]
<1>1. CASE UNCHANGED vars
  BY <1>1 DEF vars, Settled
<1>2. ASSUME NEW c \in Calls, NEW v \in Users, NEW n \in Nids, Submit(c, v, n)
      PROVE  Settled(u)' /\ nid'[u] = nid[u]
  BY <1>2 DEF Submit, row, Settled, IInv, TypeOK
<1>3. ASSUME NEW c \in Calls, Count(c) \/ Arm(c) \/ RedisFails(c) \/ Fail(c)
      PROVE  Settled(u)' /\ nid'[u] = nid[u]
  BY <1>3 DEF Count, Arm, RedisFails, Fail, Go, Reply, row, Settled, IInv, TypeOK
<1>4. ASSUME NEW c \in Calls, ReadStatus(c) \/ LookForOwner(c)
      PROVE  Settled(u)' /\ nid'[u] = nid[u]
  BY <1>4 DEF ReadStatus, LookForOwner, MaySubmit, Go, Reply, row, Settled, IInv, TypeOK
<1>5. ASSUME NEW c \in Calls, Write(c)
      PROVE  Settled(u)' /\ nid'[u] = nid[u]
  <2>1. actor[c] # u
    BY <1>5 DEF Write, Settled
  <2> QED BY <1>5, <2>1 DEF Write, Reply, row, Settled, IInv, TypeOK
<1>6. ASSUME NEW v \in Users, NextWindow(v)
      PROVE  Settled(u)' /\ nid'[u] = nid[u]
  BY <1>6 DEF NextWindow, row, calls, Settled
<1> QED BY <1>1, <1>2, <1>3, <1>4, <1>5, <1>6 DEF Next, Step

\* Verification is final once the calls that read an earlier status have ended.
THEOREM VerificationSettles == Spec => SettledIsFinal
<1>1. IInv /\ [Next]_vars => [\A u \in Users : Settled(u) => Settled(u)' /\ nid'[u] = nid[u]]_vars
  BY SettledStays
<1> QED BY <1>1, VerificationInvariance, PTL DEF Spec, SettledIsFinal
\* A user has one call in flight, so nothing overtakes what it read.
LEMMA ReadStaysCurrent ==
  IInv /\ ReadIsCurrent /\ OneCallPerUser /\ [Next]_vars
    => ReadIsCurrent' /\ \A u \in Users : status[u] = "VERIFIED" => status'[u] = "VERIFIED"
<1> SUFFICES ASSUME IInv, ReadIsCurrent, OneCallPerUser, [Next]_vars
             PROVE  ReadIsCurrent' /\ \A u \in Users : status[u] = "VERIFIED" => status'[u] = "VERIFIED"
  OBVIOUS
<1>1. ASSUME NEW c \in Calls, Write(c)
      PROVE  ReadIsCurrent' /\ \A u \in Users : status[u] = "VERIFIED" => status'[u] = "VERIFIED"
  <2>1. /\ pc[c] = "write" /\ pc'[c] = "done" /\ actor' = actor /\ actor[c] \in Users
        /\ \A d \in Calls \ {c} : pc'[d] = pc[d]
        /\ \A u \in Users \ {actor[c]} : status'[u] = status[u]
    BY <1>1 DEF Write, Reply, row, IInv, TypeOK
  <2>2. status[actor[c]] # "VERIFIED"
    BY <2>1 DEF ReadIsCurrent
  <2>3. \A d \in Calls : pc'[d] \in {"owner", "write"} => pc[d] = pc'[d] /\ actor[d] # actor[c] /\ actor[d] \in Users
    BY <2>1 DEF OneCallPerUser, InFlight, IInv, TypeOK
  <2> QED BY <2>1, <2>2, <2>3 DEF ReadIsCurrent
<1>2. ASSUME NEW c \in Calls, ReadStatus(c) \/ LookForOwner(c)
      PROVE  ReadIsCurrent' /\ status' = status
  BY <1>2 DEF ReadStatus, LookForOwner, MaySubmit, Go, Reply, row, ReadIsCurrent, IInv, TypeOK
<1>3. ASSUME NEW c \in Calls, Count(c) \/ Arm(c) \/ RedisFails(c) \/ Fail(c)
      PROVE  ReadIsCurrent' /\ status' = status
  BY <1>3 DEF Count, Arm, RedisFails, Fail, Go, Reply, row, ReadIsCurrent, IInv, TypeOK
<1>4. ASSUME NEW c \in Calls, NEW v \in Users, NEW n \in Nids, Submit(c, v, n)
      PROVE  ReadIsCurrent' /\ status' = status
  BY <1>4 DEF Submit, row, ReadIsCurrent, IInv, TypeOK
<1>5. ASSUME NEW v \in Users, NextWindow(v)
      PROVE  ReadIsCurrent' /\ status' = status
  BY <1>5 DEF NextWindow, row, calls, ReadIsCurrent
<1>6. CASE UNCHANGED vars
  BY <1>6 DEF vars, ReadIsCurrent
<1> QED BY <1>1, <1>2, <1>3, <1>4, <1>5, <1>6 DEF Next, Step

\* "VERIFIED is the only terminal state" holds of users who wait for a submission
\* to end before they make the next: two of one user's at once are all that breaks
\* it.
THEOREM SequentialUsersStayVerified == Spec /\ []OneCallPerUser => VerifiedIsFinal
<1>1. Init => ReadIsCurrent
  BY DEF Init, ReadIsCurrent
<1>2. IInv /\ ReadIsCurrent /\ OneCallPerUser /\ [Next]_vars
        => [\A u \in Users : status[u] = "VERIFIED" => status'[u] = "VERIFIED"]_vars
  BY ReadStaysCurrent
<1> QED BY <1>1, <1>2, ReadStaysCurrent, VerificationInvariance, PTL DEF Spec, VerifiedIsFinal
===============================================================================
