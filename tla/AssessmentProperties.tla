------------------------- MODULE AssessmentProperties -------------------------
(* What the send limits and the risk engine must, and are meant to, guarantee. *)
EXTENDS Assessment

\* "A transfer must fit under all three simultaneously": in no interval as long
\* as a window is more sent than the window's limit, however the windows slide
\* while the transfer is being written.
RollingLimitsHold ==
  \A c \in settled, period \in Periods :
    Sum({d \in settled : createdAt[d] \in (createdAt[c] - Length[period])..createdAt[c]})
      <= Limit[period]

\* The headroom GET /wallet reports is real: as long as nothing else was sent, a
\* transfer within it is not refused for a limit, whenever it is made.
HeadroomIsReal ==
  [][\A c \in Calls :
       pc[c] = "locked" /\ pc'[c] = "refused" /\ quote.of = settled
         => amount[c] > quote.sum]_vars

\* The transfers whose assessment could see c's row, and that were made within
\* the engine's window before c's own assessment.
Burst(c) ==
  {d \in settled : verdict[d].at <= verdict[c].at /\ createdAt[d] >= verdict[c].at - Recently}

\* Nobody slips a burst of transfers past the engine by sending them at once: of
\* Many transfers made within its window, one at least is flagged.
BurstIsFlagged ==
  \A c \in settled :
    Cardinality(Burst(c)) >= Many => \E d \in Burst(c) : verdict[d].judged.level # "LOW"
-------------------------------------------------------------------------------
(***************************************************************************)
(* The inductive invariant behind BurstIsFlagged.                          *)
(***************************************************************************)
Levels == {"LOW", "MEDIUM", "HIGH"}

TypeOK ==
  /\ now \in Nat
  /\ settled \subseteq Calls /\ IsFiniteSet(settled)
  /\ createdAt \in [Calls -> Nat]
  /\ DOMAIN verdict = Calls /\ \A c \in Calls : verdict[c].at \in Nat
  /\ pc \in [Calls -> {"idle", "locked", "within", "inserted", "assessed", "settled",
                        "refused", "failed"}]

\* From the lock of the sender's wallet to the end of the transaction.
UnderWay(c) == pc[c] \in {"locked", "within", "inserted", "assessed"}
OneAtATime == \A c \in Calls : UnderWay(c) => holder = c
SettledStays == \A c \in settled : pc[c] = "settled"

\* What the engine made of a transfer fits the transfers that are settled when
\* it commits: none can settle in between.
CountedRight(c) ==
  pc[c] = "assessed"
  /\ Cardinality({d \in settled \cup {c} : createdAt[d] >= verdict[c].at - Recently}) >= Many
  => verdict[c].judged.level # "LOW"

\* BurstIsFlagged for every set of transfers, and wherever the window starts.
AnyBurst(start, burst) ==
  /\ \A d \in burst : createdAt[d] >= start /\ verdict[d].at - Recently <= start
  /\ Cardinality(burst) >= Many
  => \E d \in burst : verdict[d].judged.level # "LOW"

BurstInv ==
  /\ TypeOK /\ OneAtATime /\ SettledStays
  /\ \A c \in Calls : CountedRight(c)
  /\ \A start \in Int, burst \in SUBSET settled : AnyBurst(start, burst)
-------------------------------------------------------------------------------
(***************************************************************************)
(* The inductive invariant behind the limits and the headroom.             *)
(***************************************************************************)
\* When a transfer that passed the check is, or would be, stamped.
Stamp(c) == IF pc[c] = "within" THEN now ELSE createdAt[c]

\* A transfer that passed the check still fits at its stamp, which is none of
\* the settled ones' earlier.
Cleared(c) ==
  pc[c] \in {"within", "inserted", "assessed"} =>
    /\ Stamp(c) <= now
    /\ \A d \in settled : createdAt[d] <= Stamp(c)
    /\ \A period \in Periods : Sum(Since(Stamp(c) - Length[period])) + amount[c] <= Limit[period]

\* Unless something was settled since, the headroom has only grown.
QuoteInv ==
  /\ quote.of \subseteq settled
  /\ quote.of = settled => \A period \in Periods : quote.sum <= Remaining(period)

LimitInv ==
  /\ amount \in [Calls -> Nat] /\ quote.sum \in Int
  /\ \A c \in Calls : UnderWay(c) => amount[c] > 0
  /\ \A d \in settled : createdAt[d] <= now
  /\ \A c \in Calls : Cleared(c)
  /\ QuoteInv
  /\ RollingLimitsHold
===============================================================================
