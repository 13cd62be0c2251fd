--------------------------- MODULE AssessmentProofs ---------------------------
(***************************************************************************)
(* Proof, for any number of transfers, any window and any threshold, that  *)
(* the velocity rule flags every burst.                                    *)
(***************************************************************************)
EXTENDS AssessmentProperties, Sums

\* The velocity rule alone lifts a transfer out of LOW.
LEMMA VelocityFlags ==
  ASSUME NEW sum, NEW read, NEW count, count >= Many
  PROVE  Evaluate(sum, read, count).level # "LOW"
  <1> DEFINE signals == Signals(sum, read, count)
             points(rule) == IF signals[rule] THEN Weight[rule] ELSE 0
             rest == points("share") + points("large") + points("newSender")
                       + points("unverified") + points("newReceiver") + points("round")
  <1>1. points("velocity") = 25
    BY DEF Signals, Weight
  <1>2. /\ points("share") \in Nat /\ points("large") \in Nat /\ points("newSender") \in Nat
        /\ points("unverified") \in Nat /\ points("newReceiver") \in Nat /\ points("round") \in Nat
    BY DEF Weight
  <1>3. Evaluate(sum, read, count).level =
          IF rest + points("velocity") >= 50 THEN "HIGH"
          ELSE IF rest + points("velocity") >= 25 THEN "MEDIUM" ELSE "LOW"
    BY DEF Evaluate
  <1> HIDE DEF points
  <1>4. rest + points("velocity") >= 25
    BY <1>1, <1>2
  <1> HIDE DEF rest
  <1> QED
    BY <1>3, <1>4

\* A step that settles nothing keeps the invariant if it leaves the settled
\* transfers' rows and an assessed transfer's alone.
LEMMA NothingSettled ==
  ASSUME BurstInv, TypeOK', OneAtATime', SettledStays', settled' = settled,
         \A d \in settled : createdAt'[d] = createdAt[d] /\ verdict'[d] = verdict[d],
         \A c \in Calls : pc'[c] = "assessed" =>
           \/ pc[c] = "assessed" /\ createdAt'[c] = createdAt[c] /\ verdict'[c] = verdict[c]
           \/ CountedRight(c)'
  PROVE  BurstInv'
  <1>1. ASSUME NEW c \in Calls PROVE CountedRight(c)'
    <2>1. CASE pc[c] = "assessed" /\ createdAt'[c] = createdAt[c] /\ verdict'[c] = verdict[c]
      <3>1. \A d \in settled \cup {c} : createdAt'[d] = createdAt[d]
        BY <2>1
      <3>2. {d \in settled' \cup {c} : createdAt'[d] >= verdict'[c].at - Recently}
              = {d \in settled \cup {c} : createdAt[d] >= verdict[c].at - Recently}
        BY <2>1, <3>1
      <3> QED
        BY <2>1, <3>2 DEF BurstInv, CountedRight
    <2> QED
      BY <2>1 DEF CountedRight
  <1>2. ASSUME NEW start \in Int, NEW burst \in SUBSET settled PROVE AnyBurst(start, burst)'
    BY DEF BurstInv, AnyBurst
  <1> QED
    BY <1>1, <1>2 DEF BurstInv

LEMMA AssessStep ==
  ASSUME BurstInv, NEW c \in Calls, Assess(c)
  PROVE  BurstInv'
  <1> USE DEF BurstInv
  <1>1. TypeOK' /\ OneAtATime' /\ SettledStays'
    BY DEF Assess, Go, TypeOK, OneAtATime, UnderWay, SettledStays
  <1>2. c \notin settled
    BY DEF Assess, SettledStays
  <1>3. CountedRight(c)'
    <2>1. /\ verdict'[c].at = now /\ verdict'[c].judged = Evaluate(amount[c], seen[c], Recent(c))
          /\ UNCHANGED <<settled, createdAt>>
      BY DEF Assess, TypeOK
    <2>2. Recent(c) >= Many => verdict'[c].judged.level # "LOW"
      BY <2>1, VelocityFlags
    <2>3. {d \in settled' \cup {c} : createdAt'[d] >= verdict'[c].at - Recently}
            = {d \in settled \cup {c} : createdAt[d] >= now - Recently}
      BY <2>1
    <2> QED
      BY <2>2, <2>3 DEF CountedRight, Recent
  <1>4. /\ UNCHANGED <<settled, createdAt>>
        /\ \A d \in Calls \ {c} : UNCHANGED <<pc[d], verdict[d]>>
    BY DEF Assess, Go, TypeOK
  <1> QED
    BY <1>1, <1>2, <1>3, <1>4, NothingSettled DEF TypeOK

\* COMMIT adds a transfer that was assessed with all the settled ones in view.
LEMMA CommitStep ==
  ASSUME BurstInv, NEW c \in Calls, Commit(c)
  PROVE  BurstInv'
  <1> USE DEF BurstInv
  <1>1. /\ settled' = settled \cup {c} /\ pc[c] = "assessed" /\ pc'[c] = "settled"
        /\ UNCHANGED <<createdAt, verdict, now>> /\ holder = c
        /\ \A d \in Calls \ {c} : pc'[d] = pc[d]
    BY DEF Commit, End, Go, TypeOK, OneAtATime, UnderWay
  <1>2. IsFiniteSet(settled')
    BY <1>1, FS_AddElement DEF TypeOK
  <1>3. TypeOK' /\ SettledStays'
    BY <1>1, <1>2 DEF Commit, End, Go, TypeOK, SettledStays
  <1>4. \A d \in Calls : ~UnderWay(d)'
    BY <1>1 DEF OneAtATime, UnderWay
  <1>5. OneAtATime' /\ \A d \in Calls : CountedRight(d)'
    BY <1>4 DEF OneAtATime, CountedRight, UnderWay
  <1>6. ASSUME NEW start \in Int, NEW burst \in SUBSET settled' PROVE AnyBurst(start, burst)'
    <2> SUFFICES ASSUME \A d \in burst : createdAt[d] >= start /\ verdict[d].at - Recently <= start,
                        Cardinality(burst) >= Many
                 PROVE  \E d \in burst : verdict[d].judged.level # "LOW"
      BY <1>1 DEF AnyBurst
    <2>1. CASE c \notin burst
      BY <1>1, <2>1 DEF AnyBurst
    <2>2. CASE c \in burst
      <3> DEFINE counted == {d \in settled \cup {c} : createdAt[d] >= verdict[c].at - Recently}
      <3>1. IsFiniteSet(counted)
        BY <1>1, <1>2, FS_Subset
      <3>2. burst \subseteq counted
        BY <1>1, <2>2, TimeAssumption DEF TypeOK
      <3>3. Cardinality(burst) <= Cardinality(counted)
        BY <3>1, <3>2, FS_Subset
      <3>4. Cardinality(counted) >= Many
        BY <3>1, <3>2, <3>3, FS_CardinalityType, FS_Subset, TimeAssumption
      <3> QED
        BY <1>1, <2>2, <3>4 DEF CountedRight
    <2> QED
      BY <2>1, <2>2
  <1> QED
    BY <1>3, <1>5, <1>6

LEMMA NextBurstInv ==
  ASSUME BurstInv, [Next]_vars
  PROVE  BurstInv'
  <1> USE DEF BurstInv
  <1>1. ASSUME NEW c \in Calls, NEW sum \in Amounts, Lock(c, sum) PROVE BurstInv'
    <2>1. /\ UNCHANGED <<now, settled, createdAt, verdict>> /\ holder' = c
          /\ pc[c] = "idle" /\ pc'[c] = "locked" /\ \A d \in Calls \ {c} : pc'[d] = pc[d]
          /\ \A d \in Calls : ~UnderWay(d)
      BY <1>1, NobodyAssumption DEF Lock, RowFree, Go, TypeOK, OneAtATime
    <2>2. TypeOK' /\ OneAtATime' /\ SettledStays'
      BY <1>1, <2>1 DEF Lock, Go, TypeOK, OneAtATime, UnderWay, SettledStays
    <2> QED
      BY <2>1, <2>2, NothingSettled DEF UnderWay
  <1>2. ASSUME NEW c \in Calls, NEW label \in {"refused", "failed"}, UnderWay(c),
               End(c, label), Undo(c), UNCHANGED <<now, quote>>
        PROVE  BurstInv'
    <2>1. /\ UNCHANGED <<now, settled>> /\ pc'[c] = label
          /\ \A d \in Calls \ {c} : UNCHANGED <<pc[d], createdAt[d], verdict[d]>>
      BY <1>2 DEF End, Undo, Go, TypeOK
    <2>2. c \notin settled /\ \A d \in Calls : ~UnderWay(d)'
      BY <1>2, <2>1 DEF OneAtATime, UnderWay, SettledStays
    <2>3. TypeOK'
      <3>1. createdAt' \in [Calls -> Nat] /\ DOMAIN verdict' = Calls /\ verdict'[c].at \in Nat
        BY <1>2 DEF Undo, Unjudged, TypeOK
      <3> QED
        BY <1>2, <2>1, <3>1 DEF End, Go, TypeOK
    <2>4. OneAtATime' /\ SettledStays'
      BY <2>1, <2>2 DEF OneAtATime, SettledStays, TypeOK
    <2> QED
      BY <2>1, <2>2, <2>3, <2>4, NothingSettled DEF UnderWay, TypeOK
  <1>3. ASSUME NEW c \in Calls, CheckLimits(c) PROVE BurstInv'
    <2>1. CASE Fits(amount[c])
      <3>1. /\ UNCHANGED <<now, rows, holder>> /\ pc[c] = "locked" /\ pc'[c] = "within"
            /\ \A d \in Calls \ {c} : pc'[d] = pc[d]
        BY <1>3, <2>1 DEF CheckLimits, Go, TypeOK
      <3>2. TypeOK' /\ OneAtATime' /\ SettledStays'
        BY <1>3, <2>1, <3>1 DEF CheckLimits, Go, TypeOK, OneAtATime, UnderWay, SettledStays, rows
      <3> QED
        BY <3>1, <3>2, NothingSettled DEF rows
    <2> QED
      BY <1>2, <1>3, <2>1 DEF CheckLimits, UnderWay
  <1>4. ASSUME NEW c \in Calls, Insert(c) PROVE BurstInv'
    <2>1. /\ UNCHANGED <<now, settled, verdict, holder>> /\ pc[c] = "within" /\ pc'[c] = "inserted"
          /\ \A d \in Calls \ {c} : UNCHANGED <<pc[d], createdAt[d]>>
      BY <1>4 DEF Insert, Go, TypeOK
    <2>2. c \notin settled
      BY <2>1 DEF SettledStays
    <2>3. TypeOK' /\ OneAtATime' /\ SettledStays'
      BY <1>4, <2>1 DEF Insert, Go, TypeOK, OneAtATime, UnderWay, SettledStays
    <2> QED
      BY <2>1, <2>2, <2>3, NothingSettled DEF TypeOK
  <1>5. ASSUME NEW c \in Calls, Abort(c) PROVE BurstInv'
    BY <1>2, <1>5 DEF Abort, UnderWay
  <1>6. ASSUME UNCHANGED <<settled, createdAt, verdict, pc, holder>>, now' \in Nat PROVE BurstInv'
    <2>1. TypeOK' /\ OneAtATime' /\ SettledStays'
      BY <1>6 DEF TypeOK, OneAtATime, UnderWay, SettledStays
    <2> QED
      BY <1>6, <2>1, NothingSettled
  <1>7. CASE Report \/ Verify \/ Tick \/ UNCHANGED vars
    BY <1>6, <1>7 DEF Report, Verify, Tick, vars, rows, TypeOK
  <1> QED
    BY <1>1, <1>3, <1>4, <1>5, <1>7, AssessStep, CommitStep DEF Next

LEMMA InitBurstInv == Init => BurstInv
  <1> SUFFICES ASSUME Init PROVE BurstInv
    OBVIOUS
  <1>1. TypeOK /\ OneAtATime /\ SettledStays
    BY FS_EmptySet DEF Init, TypeOK, OneAtATime, UnderWay, SettledStays, Unjudged
  <1>2. ASSUME NEW start \in Int, NEW burst \in SUBSET settled PROVE AnyBurst(start, burst)
    <2>1. burst = {}
      BY DEF Init
    <2>2. Cardinality(burst) = 0
      BY <2>1, FS_EmptySet
    <2> QED
      BY <2>2, TimeAssumption DEF AnyBurst
  <1> QED
    BY <1>1, <1>2 DEF Init, BurstInv, CountedRight

\* Of Many transfers made within the engine's window at least one is flagged,
\* however they race: the velocity query runs under the lock of the sender's
\* wallet, so the last of them to be assessed has all the others in view.
THEOREM BurstsAreFlagged == Spec => []BurstIsFlagged
  <1>2. ASSUME BurstInv PROVE BurstIsFlagged
    <2> SUFFICES ASSUME NEW c \in settled, Cardinality(Burst(c)) >= Many
                 PROVE  \E d \in Burst(c) : verdict[d].judged.level # "LOW"
      BY DEF BurstIsFlagged
    <2> DEFINE start == verdict[c].at - Recently
    <2>1. start \in Int /\ Burst(c) \in SUBSET settled
      BY <1>2, TimeAssumption DEF BurstInv, TypeOK, Burst
    <2>2. \A d \in Burst(c) : createdAt[d] >= start /\ verdict[d].at - Recently <= start
      BY <1>2, TimeAssumption DEF BurstInv, TypeOK, Burst
    <2>3. AnyBurst(start, Burst(c))
      BY <1>2, <2>1 DEF BurstInv
    <2> QED
      BY <2>2, <2>3 DEF AnyBurst
  <1> QED
    BY <1>2, InitBurstInv, NextBurstInv, PTL DEF Spec
-------------------------------------------------------------------------------
(***************************************************************************)
(* The limits and the headroom.                                            *)
(***************************************************************************)
\* The sum of settled transfers is a number, no smaller than that of any part.
LEMMA SettledSums ==
  ASSUME TypeOK, LimitInv, NEW whole \in SUBSET settled, NEW part \in SUBSET whole
  PROVE  /\ Sum(whole) \in Int /\ Sum(part) \in Int
         /\ 0 <= Sum(part) /\ Sum(part) <= Sum(whole)
  <1>1. IsFiniteSet(whole) /\ IsFiniteSet(part) /\ \A c \in whole : amount[c] \in Nat
    BY FS_Subset DEF TypeOK, LimitInv
  <1> QED
    BY <1>1, SumInt, SumOfPart DEF Sum

\* As long as the settled transfers' rows stay as they are, so do their sums.
LEMMA SumStays ==
  ASSUME TypeOK, NEW part \in SUBSET settled, \A d \in settled : amount'[d] = amount[d]
  PROVE  SumFunctionOnSet(amount', part) = Sum(part)
  BY FS_Subset, SumSame DEF TypeOK, Sum

LEMMA HeadroomFits ==
  ASSUME TypeOK, LimitInv
  PROVE  Headroom \in Nat /\ \A period \in Periods : Headroom <= Remaining(period)
  <1> DEFINE room == {Remaining(period) : period \in Periods}
  <1>1. ASSUME NEW period \in Periods PROVE Remaining(period) \in Nat
    <2>1. Used(period) \in Int
      BY SettledSums DEF Used, Since
    <2> QED
      BY <2>1, WindowAssumption DEF Remaining, NotNegative
  <1>2. room \in SUBSET Nat /\ room # {}
    BY <1>1, WindowAssumption
  <1> HIDE DEF room
  <1>3. \E n \in room : \A m \in room : n <= m
    <2> DEFINE less == {pair \in Nat \X Nat : pair[1] < pair[2]}
    <2>1. IsWellFoundedOn(less, Nat)
      BY NatLessThanWellFounded DEF OpToRel
    <2> HIDE DEF less
    <2>2. PICK n \in room : \A m \in room : <<m, n>> \notin less
      BY <1>2, <2>1, WFMin
    <2>3. ASSUME NEW m \in room PROVE n <= m
      <3>1. m \in Nat /\ n \in Nat
        BY <1>2
      <3>2. m < n => <<m, n>> \in less
        BY <3>1 DEF less
      <3> QED
        BY <2>2, <3>1, <3>2
    <2> QED
      BY <2>3
  <1>4. Headroom \in room /\ \A m \in room : Headroom <= m
    BY <1>3 DEF Headroom, Min, room
  <1> QED
    BY <1>2, <1>4 DEF room

\* A step that settles nothing keeps the invariant, if it leaves alone the
\* settled transfers and those that are cleared already.
LEMMA LimitsUndisturbed ==
  ASSUME BurstInv, LimitInv, TypeOK', settled' = settled, amount' \in [Calls -> Nat],
         now <= now', quote' = quote,
         \A d \in settled : createdAt'[d] = createdAt[d] /\ amount'[d] = amount[d],
         \A c \in Calls : UnderWay(c)' => amount'[c] > 0,
         \A c \in Calls : pc'[c] \in {"within", "inserted", "assessed"} =>
           \/ /\ pc[c] \in {"within", "inserted", "assessed"}
              /\ Stamp(c) <= Stamp(c)' /\ Stamp(c)' <= now' /\ amount'[c] = amount[c]
           \/ Cleared(c)'
  PROVE  LimitInv'
  <1>0. TypeOK /\ now \in Nat /\ now' \in Nat
    BY DEF BurstInv, TypeOK
  <1>1. ASSUME NEW s \in Int, NEW t \in Int, s <= t
        PROVE  /\ Sum(Since(s)) \in Int /\ Sum(Since(t)) \in Int
               /\ Sum(Since(t))' \in Int /\ Sum(Since(t))' <= Sum(Since(s))
    <2>1. Since(t) \subseteq Since(s) /\ Since(s) \subseteq settled
      BY <1>0, <1>1 DEF Since, TypeOK
    <2>2. Since(t)' = Since(t)
      BY DEF Since
    <2>3. Sum(Since(t))' = Sum(Since(t))
      BY <1>0, <2>1, <2>2, SumStays DEF Sum
    <2> QED
      BY <1>0, <2>1, <2>3, SettledSums
  <1>2. ASSUME NEW c \in Calls, pc[c] \in {"within", "inserted", "assessed"},
               Stamp(c) <= Stamp(c)', Stamp(c)' <= now', amount'[c] = amount[c]
        PROVE  Cleared(c)'
    <2>1. Cleared(c)
      BY DEF LimitInv
    <2>2. Stamp(c) \in Int /\ Stamp(c)' \in Int
      BY <1>0 DEF Stamp, TypeOK
    <2>3. ASSUME NEW period \in Periods
          PROVE  Sum(Since(Stamp(c) - Length[period]))' + amount'[c] <= Limit[period]
      <3>1. /\ Stamp(c) - Length[period] \in Int /\ Stamp(c)' - Length[period] \in Int
            /\ Stamp(c) - Length[period] <= Stamp(c)' - Length[period]
        BY <1>2, <2>2, WindowAssumption
      <3>2. Sum(Since(Stamp(c) - Length[period]))' <= Sum(Since(Stamp(c) - Length[period]))
        BY <1>1, <3>1
      <3>3. Sum(Since(Stamp(c) - Length[period]))' \in Int /\ Sum(Since(Stamp(c) - Length[period])) \in Int
        BY <1>1, <3>1
      <3> QED
        BY <1>2, <2>1, <3>2, <3>3, WindowAssumption DEF Cleared, LimitInv
    <2>4. \A d \in settled : createdAt'[d] <= Stamp(c)'
      BY <1>0, <1>2, <2>1, <2>2 DEF Cleared, TypeOK
    <2> QED
      BY <1>2, <2>3, <2>4 DEF Cleared
  <1>3. QuoteInv'
    <2>1. ASSUME NEW period \in Periods, quote.of = settled PROVE quote.sum <= Remaining(period)'
      <3>1. now - Length[period] \in Int /\ now' - Length[period] \in Int
            /\ now - Length[period] <= now' - Length[period]
        BY <1>0, WindowAssumption
      <3>2. Used(period)' <= Used(period) /\ Used(period) \in Int /\ Used(period)' \in Int
        BY <1>1, <3>1 DEF Used
      <3>3. quote.sum <= Remaining(period) /\ quote.sum \in Int
        BY <2>1 DEF LimitInv, QuoteInv
      <3> QED
        BY <3>2, <3>3, WindowAssumption DEF Remaining, NotNegative
    <2> QED
      BY <2>1 DEF QuoteInv, LimitInv
  <1>4. RollingLimitsHold'
    <2> SUFFICES ASSUME NEW c \in settled, NEW period \in Periods
                 PROVE  Sum({d \in settled : createdAt[d] \in (createdAt[c] - Length[period])..createdAt[c]})'
                          <= Limit[period]
      BY DEF RollingLimitsHold
    <2> DEFINE window == {d \in settled : createdAt[d] \in (createdAt[c] - Length[period])..createdAt[c]}
    <2>1. window' = window
      OBVIOUS
    <2>2. Sum(window)' = Sum(window)
      BY <1>0, <2>1, SumStays DEF Sum
    <2> QED
      BY <2>2 DEF RollingLimitsHold, LimitInv
  <1>5. ASSUME NEW c \in Calls PROVE Cleared(c)'
    <2>1. CASE pc'[c] \in {"within", "inserted", "assessed"}
      BY <1>2, <2>1
    <2> QED
      BY <2>1 DEF Cleared
  <1>6. \A d \in settled' : createdAt'[d] <= now'
    BY <1>0 DEF LimitInv, TypeOK
  <1>7. quote'.sum \in Int
    BY DEF LimitInv
  <1> QED
    BY <1>3, <1>4, <1>5, <1>6, <1>7 DEF LimitInv

\* The transfer that settles last was cleared with all the settled ones in view,
\* and lies in no window that ends before it.
LEMMA LimitsAtCommit ==
  ASSUME BurstInv, BurstInv', LimitInv, NEW c \in Calls, Commit(c)
  PROVE  LimitInv'
  <1>1. /\ settled' = settled \cup {c} /\ pc[c] = "assessed" /\ pc'[c] = "settled"
        /\ UNCHANGED <<createdAt, amount, now, quote>> /\ c \notin settled
        /\ \A d \in Calls : ~UnderWay(d)'
    BY DEF Commit, End, Go, BurstInv, TypeOK, OneAtATime, UnderWay, SettledStays
  <1>2. TypeOK /\ TypeOK'
    BY DEF BurstInv
  <1>3. /\ createdAt[c] <= now /\ \A d \in settled : createdAt[d] <= createdAt[c]
        /\ \A period \in Periods :
             Sum(Since(createdAt[c] - Length[period])) + amount[c] <= Limit[period]
    BY <1>1 DEF LimitInv, Cleared, Stamp
  <1>4. ASSUME NEW e \in settled', NEW period \in Periods
        PROVE  Sum({d \in settled : createdAt[d] \in (createdAt[e] - Length[period])..createdAt[e]})'
                 <= Limit[period]
    <2> DEFINE window == {d \in settled : createdAt[d] \in (createdAt[e] - Length[period])..createdAt[e]}
    <2>1. window \subseteq settled /\ window' \subseteq window \cup {c}
      BY <1>1
    <2>2. Sum(window)' = SumFunctionOnSet(amount, window')
      BY <1>1 DEF Sum
    <2>3. CASE createdAt[e] = createdAt[c]
      <3> DEFINE before == Since(createdAt[c] - Length[period])
      <3>1. c \in window' /\ window' \ {c} \subseteq before /\ before \subseteq settled
        BY <1>1, <1>2, <2>3, WindowAssumption DEF Since, TypeOK
      <3>2. IsFiniteSet(window') /\ \A d \in window' : amount[d] \in Int
        BY <1>1, <1>2, FS_Subset DEF TypeOK, LimitInv
      <3> HIDE DEF window
      <3>3. SumFunctionOnSet(amount, window') = amount[c] + Sum(window' \ {c})
        BY <3>1, <3>2, SumWithout DEF Sum
      <3>4. /\ Sum(window' \ {c}) <= Sum(before) /\ Sum(before) \in Int
            /\ Sum(window' \ {c}) \in Int
        BY <1>2, <3>1, SettledSums
      <3> QED
        BY <1>3, <2>2, <3>3, <3>4, WindowAssumption DEF LimitInv, window
    <2>4. CASE createdAt[e] # createdAt[c]
      <3>0. e \in settled /\ e \in Calls
        BY <1>1, <1>2, <2>4 DEF TypeOK
      <3>1. e \in settled /\ createdAt[e] < createdAt[c]
        <4>1. createdAt[e] <= createdAt[c]
          BY <1>3, <3>0
        <4>2. createdAt[e] \in Nat /\ createdAt[c] \in Nat
          BY <1>2, <3>0 DEF TypeOK
        <4> QED
          BY <2>4, <3>0, <4>1, <4>2
      <3>2. window' = {d \in settled \cup {c} : createdAt[d] \in (createdAt[e] - Length[period])..createdAt[e]}
        BY <1>1
      <3>3. createdAt[c] \notin (createdAt[e] - Length[period])..createdAt[e]
        BY <1>2, <3>1, WindowAssumption DEF TypeOK
      <3>4. window' = window
        BY <3>2, <3>3
      <3> QED
        BY <2>2, <3>1, <3>4 DEF LimitInv, RollingLimitsHold, Sum
    <2> QED
      BY <2>3, <2>4
  <1>5. QuoteInv'
    BY <1>1 DEF LimitInv, QuoteInv
  <1> QED
    BY <1>1, <1>3, <1>4, <1>5 DEF LimitInv, RollingLimitsHold, Cleared, UnderWay

LEMMA NextLimitInv ==
  ASSUME BurstInv, BurstInv', LimitInv, [Next]_vars
  PROVE  LimitInv'
  <1>0. TypeOK /\ TypeOK' /\ OneAtATime /\ SettledStays
    BY DEF BurstInv
  <1> USE <1>0
  <1>1. ASSUME NEW c \in Calls, NEW sum \in Amounts, Lock(c, sum) PROVE LimitInv'
    <2>1. /\ UNCHANGED <<now, settled, createdAt, quote>>
          /\ pc[c] = "idle" /\ pc'[c] = "locked" /\ \A d \in Calls \ {c} : UNCHANGED <<pc[d], amount[d]>>
          /\ amount' \in [Calls -> Nat] /\ amount'[c] > 0
      BY <1>1, AmountAssumption DEF Lock, Go, TypeOK, LimitInv
    <2> QED
      BY <2>1, LimitsUndisturbed DEF UnderWay, LimitInv, SettledStays, Cleared, Stamp, TypeOK
  <1>2. ASSUME NEW c \in Calls, NEW label \in {"refused", "failed"}, UnderWay(c),
               End(c, label), Undo(c), UNCHANGED <<now, quote>>
        PROVE  LimitInv'
    <2>1. /\ UNCHANGED settled /\ pc'[c] = label /\ amount' \in [Calls -> Nat] /\ c \notin settled
          /\ \A d \in Calls \ {c} : UNCHANGED <<pc[d], createdAt[d], amount[d]>>
      BY <1>2 DEF End, Undo, Go, TypeOK, LimitInv, UnderWay, SettledStays
    <2> QED
      BY <1>2, <2>1, LimitsUndisturbed DEF UnderWay, LimitInv, Cleared, Stamp, TypeOK
  <1>3. ASSUME NEW c \in Calls, CheckLimits(c) PROVE LimitInv'
    <2>1. CASE Fits(amount[c])
      <3>1. /\ UNCHANGED <<now, rows, quote>> /\ pc[c] = "locked" /\ pc'[c] = "within"
            /\ \A d \in Calls \ {c} : pc'[d] = pc[d]
        BY <1>3, <2>1 DEF CheckLimits, Go, TypeOK
      <3>2. Cleared(c)'
        BY <2>1, <3>1 DEF Cleared, Stamp, Fits, Used, Since, Sum, LimitInv, rows, TypeOK
      <3> QED
        BY <3>1, <3>2, LimitsUndisturbed DEF UnderWay, LimitInv, Cleared, Stamp, rows, TypeOK
    <2> QED
      BY <1>2, <1>3, <2>1 DEF CheckLimits, UnderWay
  <1>4. ASSUME NEW c \in Calls, Insert(c) PROVE LimitInv'
    <2>1. /\ UNCHANGED <<now, settled, amount, quote>> /\ pc[c] = "within" /\ pc'[c] = "inserted"
          /\ createdAt'[c] = now /\ \A d \in Calls \ {c} : UNCHANGED <<pc[d], createdAt[d]>>
      BY <1>4 DEF Insert, Go, TypeOK
    <2>2. c \notin settled
      BY <2>1 DEF SettledStays
    <2> QED
      BY <2>1, <2>2, LimitsUndisturbed DEF UnderWay, LimitInv, Cleared, Stamp, TypeOK
  <1>5. ASSUME NEW c \in Calls, Assess(c) PROVE LimitInv'
    <2>1. /\ UNCHANGED <<now, settled, amount, createdAt, quote>> /\ pc[c] = "inserted"
          /\ pc'[c] = "assessed" /\ \A d \in Calls \ {c} : pc'[d] = pc[d]
      BY <1>5 DEF Assess, Go, TypeOK
    <2> QED
      BY <2>1, LimitsUndisturbed DEF UnderWay, LimitInv, Cleared, Stamp, TypeOK
  <1>6. ASSUME NEW c \in Calls, Abort(c) PROVE LimitInv'
    BY <1>2, <1>6 DEF Abort, UnderWay
  <1>7. ASSUME Report PROVE LimitInv'
    <2>1. QuoteInv' /\ quote'.sum \in Int
      BY <1>7, HeadroomFits DEF Report, rows, QuoteInv, Remaining, Used, Since, Sum
    <2> QED
      BY <1>7, <2>1
      DEF Report, rows, LimitInv, UnderWay, Cleared, Stamp, Since, Sum, RollingLimitsHold
  <1>8. ASSUME UNCHANGED <<settled, amount, createdAt, pc, quote>>, now <= now' PROVE LimitInv'
    BY <1>8, LimitsUndisturbed DEF UnderWay, LimitInv, Cleared, Stamp, TypeOK
  <1>9. CASE Verify \/ Tick \/ UNCHANGED vars
    BY <1>8, <1>9 DEF Verify, Tick, vars, rows, TypeOK
  <1> QED
    BY <1>1, <1>3, <1>4, <1>5, <1>6, <1>7, <1>9, LimitsAtCommit DEF Next

LEMMA InitLimitInv == Init => LimitInv
  <1> SUFFICES ASSUME Init PROVE LimitInv
    OBVIOUS
  <1>2. \A period \in Periods : Remaining(period) \in Nat
    <2>1. Sum({}) = 0
      BY SumOfEmpty DEF Sum
    <2> QED
      BY <2>1, WindowAssumption DEF Remaining, NotNegative, Used, Since, Init
  <1> QED
    BY <1>2 DEF Init, LimitInv, UnderWay, Cleared, QuoteInv, RollingLimitsHold

LEMMA LimitInvariance == Spec => [](BurstInv /\ LimitInv)
  BY InitBurstInv, InitLimitInv, NextBurstInv, NextLimitInv, PTL DEF Spec

\* No interval as long as a window holds more than the window's limit: the sums
\* are read under the lock of the sender's wallet, and the clock, which runs on
\* until the row is stamped, only takes transfers out of the windows.
THEOREM RollingLimitsAlwaysHold == Spec => []RollingLimitsHold
  <1>1. LimitInv => RollingLimitsHold
    BY DEF LimitInv
  <1> QED
    BY <1>1, LimitInvariance, PTL

\* GET /wallet promises nothing a transfer made next would be refused for, though
\* it reads without a lock.
THEOREM HeadroomIsAlwaysReal == Spec => HeadroomIsReal
  <1>1. ASSUME BurstInv, LimitInv, [Next]_vars,
               NEW c \in Calls, pc[c] = "locked", pc'[c] = "refused", quote.of = settled
        PROVE  amount[c] > quote.sum
    <2>1. CheckLimits(c) /\ ~Fits(amount[c])
      BY <1>1 DEF Next, vars, rows, Lock, CheckLimits, Insert, Assess, Commit, Abort, End, Go,
                  Report, Verify, Tick, BurstInv, TypeOK
    <2>2. PICK period \in Periods : ~(Used(period) + amount[c] <= Limit[period])
      BY <2>1 DEF Fits
    <2>3. quote.sum <= Remaining(period) /\ quote.sum \in Int
      BY <1>1 DEF LimitInv, QuoteInv
    <2>4. amount[c] \in Nat /\ amount[c] > 0
      BY <1>1 DEF LimitInv, UnderWay
    <2>5. Used(period) \in Int
      BY <1>1, SettledSums DEF Used, Since, BurstInv
    <2> QED
      BY <2>2, <2>3, <2>4, <2>5, WindowAssumption DEF Remaining, NotNegative
  <1>2. (BurstInv /\ LimitInv) /\ [Next]_vars =>
          [\A c \in Calls : pc[c] = "locked" /\ pc'[c] = "refused" /\ quote.of = settled
             => amount[c] > quote.sum]_vars
    BY <1>1
  <1> QED
    BY <1>2, LimitInvariance, PTL DEF Spec, HeadroomIsReal
===============================================================================
