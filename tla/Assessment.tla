------------------------------ MODULE Assessment ------------------------------
(***************************************************************************)
(* The two judgements TransferService.settle passes on a transfer while it *)
(* holds the sender's wallet: TransactionLimitService, which may refuse    *)
(* it, and RiskEngineService, which only annotates it; and GET /wallet,    *)
(* which reports the same limits without a lock.  All the transfers are    *)
(* of one sender: no query here looks at another's.                        *)
(*                                                                         *)
(* Time passes between any two statements.  created_at is stamped at the   *)
(* INSERT, and nothing of a transaction is visible before its COMMIT.      *)
(***************************************************************************)
EXTENDS Integers, FiniteSets, FiniteSetsExt

CONSTANTS
  Calls,            \* transfers of the sender, each made at most once
  Amounts,
  Opening,          \* the sender's balance before them
  Length, Limit,    \* of each rolling window
  Large, Step,      \* LARGE_ABSOLUTE_AMOUNT_MINOR, ROUND_AMOUNT_STEP_MINOR
  Day,              \* ONE_DAY_MS
  Recently,         \* HIGH_VELOCITY_WINDOW_MINUTES
  Many,             \* HIGH_VELOCITY_THRESHOLD
  SenderSince, ReceiverSince,   \* when the accounts were created
  Nobody,
  MaxTime           \* a bound of the exploration

Periods == DOMAIN Length

ASSUME WindowAssumption ==
  Limit \in [Periods -> Nat] /\ Length \in [Periods -> Nat] /\ Periods # {}
ASSUME AmountAssumption ==
  Amounts \subseteq Nat \ {0} /\ Opening \in Nat /\ Large \in Nat /\ Step \in Nat \ {0}
ASSUME TimeAssumption ==
  /\ Day \in Nat /\ Recently \in Nat /\ Many \in Nat \ {0} /\ MaxTime \in Nat
  /\ SenderSince \in Int /\ ReceiverSince \in Int
ASSUME NobodyAssumption == Nobody \notin Calls

VARIABLES
  now,
  \* Committed rows
  settled,      \* the SUCCEEDED transfers
  amount,       \* amount_minor of each transfer
  createdAt,
  verdict,      \* risk_assessments: what the engine made of it, and when
  verified,     \* the sender's verification_status is VERIFIED
  \* Calls
  pc,
  holder,       \* the call that holds the sender's wallet row
  seen,         \* what each call read when it locked the row
  \* History
  quote         \* what GET /wallet last reported, and the transfers settled then

rows == <<settled, amount, createdAt, verdict, verified>>
vars == <<now, rows, pc, holder, seen, quote>>
-------------------------------------------------------------------------------
Sum(transfers) == SumFunctionOnSet(amount, transfers)

\* sumSentByWindow
After(since) == {c \in settled : createdAt[c] > since}   \* not: a window open at its start
Since(since) == {c \in settled : createdAt[c] >= since}
Used(period) == Sum(Since(now - Length[period]))

Fits(sum) == \A period \in Periods : Used(period) + sum <= Limit[period]

NotNegative(n) == IF n > 0 THEN n ELSE 0
\* not: the windows' limits mixed up
OfTheMonth(period) == NotNegative(Limit["monthly"] - Used(period))
Remaining(period) == NotNegative(Limit[period] - Used(period))
Headroom == Min({Remaining(period) : period \in Periods})

Weight ==
  [share |-> 25, large |-> 20, newSender |-> 15, unverified |-> 15, newReceiver |-> 10,
   round |-> 10, velocity |-> 25]

\* RULES: which of them fire for a sum, given what the call read and how many
\* transfers the velocity query counted.
Signals(sum, read, count) ==
  [share |-> read.balance > 0 /\ sum * 10 >= read.balance * 7,
   large |-> sum >= Large,
   newSender |-> now - SenderSince < Day,
   unverified |-> ~read.verified,
   newReceiver |-> now - ReceiverSince < Day,
   round |-> sum >= Step /\ sum % Step = 0,
   velocity |-> count >= Many]

Evaluate(sum, read, count) ==
  LET signals == Signals(sum, read, count)
      points(rule) == IF signals[rule] THEN Weight[rule] ELSE 0
      score == points("share") + points("large") + points("newSender") + points("unverified")
                 + points("newReceiver") + points("round") + points("velocity")
  IN [reasons |-> {rule \in DOMAIN signals : signals[rule]},
      level |-> IF score >= 50 THEN "HIGH" ELSE IF score >= 25 THEN "MEDIUM" ELSE "LOW"]
-------------------------------------------------------------------------------
Unread == [balance |-> 0, verified |-> FALSE]
Unjudged == [at |-> 0, judged |-> [reasons |-> {}, level |-> "LOW"]]

Go(c, label) == pc' = [pc EXCEPT ![c] = label]

RowFree == holder = Nobody

\* lockWalletById, and the check of the balance it returns: a sum it does not
\* cover is refused there and then.
Lock(c, sum) ==
  LET balance == Opening - Sum(settled) IN
  /\ pc[c] = "idle" /\ RowFree
  /\ sum <= balance
  /\ amount' = [amount EXCEPT ![c] = sum]
  /\ seen' = [seen EXCEPT ![c] = [balance |-> balance, verified |-> verified]]
  /\ holder' = c
  /\ Go(c, "locked")
  /\ UNCHANGED <<now, settled, createdAt, verdict, verified, quote>>

\* The end of the transaction.
End(c, label) ==
  /\ Go(c, label)
  /\ holder' = Nobody
  /\ seen' = [seen EXCEPT ![c] = Unread]

\* ROLLBACK
Undo(c) ==
  /\ amount' = [amount EXCEPT ![c] = 0]
  /\ createdAt' = [createdAt EXCEPT ![c] = 0]
  /\ verdict' = [verdict EXCEPT ![c] = Unjudged]
  /\ UNCHANGED <<settled, verified>>

\* assertWithinLimits
CheckLimits(c) ==
  /\ pc[c] = "locked"
  /\ \/ Fits(amount[c]) /\ Go(c, "within") /\ UNCHANGED <<rows, holder, seen>>
     \/ ~Fits(amount[c]) /\ End(c, "refused") /\ Undo(c)
  /\ UNCHANGED <<now, quote>>

\* insertPendingTransfer, and with it the ledger, the balances, markSucceeded.
Insert(c) ==
  /\ pc[c] = "within"
  /\ createdAt' = [createdAt EXCEPT ![c] = now]
  /\ Go(c, "inserted")
  /\ UNCHANGED <<now, settled, amount, verdict, verified, holder, seen, quote>>

\* not: the transfers before c
PriorOnly(c) == Cardinality({d \in settled : createdAt[d] >= now - Recently})
\* countRecentTransfersFromSender, in the transaction that has just made c.
Recent(c) == Cardinality({d \in settled \cup {c} : createdAt[d] >= now - Recently})

\* assessRisk.  The audit row and the outbox event of a flagged transfer follow
\* from its level.
Assess(c) ==
  /\ pc[c] = "inserted"
  /\ verdict' = [verdict EXCEPT ![c] =
       [at |-> now, judged |-> Evaluate(amount[c], seen[c], Recent(c))]]
  /\ Go(c, "assessed")
  /\ UNCHANGED <<now, settled, amount, createdAt, verified, holder, seen, quote>>

Commit(c) ==
  /\ pc[c] = "assessed"
  /\ settled' = settled \cup {c}
  /\ End(c, "settled")
  /\ UNCHANGED <<now, amount, createdAt, verdict, verified, quote>>

\* A statement or the COMMIT fails.
Abort(c) ==
  /\ pc[c] \in {"locked", "within", "inserted", "assessed"}
  /\ End(c, "failed")
  /\ Undo(c)
  /\ UNCHANGED <<now, quote>>

\* getUsage, at any moment.
Report ==
  /\ quote' = [sum |-> Headroom, of |-> settled]
  /\ UNCHANGED <<now, rows, pc, holder, seen>>

Verify ==
  /\ ~verified
  /\ verified' = TRUE
  /\ UNCHANGED <<now, settled, amount, createdAt, verdict, pc, holder, seen, quote>>

Tick ==
  /\ now < MaxTime
  /\ now' = now + 1
  /\ UNCHANGED <<rows, pc, holder, seen, quote>>

Init ==
  /\ now = 0
  /\ settled = {} /\ amount = [c \in Calls |-> 0] /\ createdAt = [c \in Calls |-> 0]
  /\ verdict = [c \in Calls |-> Unjudged]
  /\ verified = FALSE
  /\ pc = [c \in Calls |-> "idle"]
  /\ holder = Nobody
  /\ seen = [c \in Calls |-> Unread]
  /\ quote = [sum |-> 0, of |-> {}]

Next ==
  \/ \E c \in Calls :
       \/ \E sum \in Amounts : Lock(c, sum)
       \/ CheckLimits(c)
       \/ Insert(c)
       \/ Assess(c)
       \/ Commit(c)
       \/ Abort(c)
  \/ Report
  \/ Verify
  \/ Tick

Spec == Init /\ [][Next]_vars
===============================================================================
