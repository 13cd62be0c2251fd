----------------------- MODULE MoneyMovementProperties -----------------------
(***************************************************************************)
(* What MoneyMovement must guarantee whatever the interleaving of calls,   *)
(* retries with the same key, rollbacks, lost acknowledgements, suspended  *)
(* accounts and expiring requests.                                         *)
(***************************************************************************)
EXTENDS MoneyMovement, Functions

Codes == {"SUCCEEDED", "ACCEPTED", "DECLINED", "CANCELLED"}
Errors == {"INTERNAL_ERROR", "INVALID_TRANSFER", "USER_NOT_FOUND", "FORBIDDEN",
           "INSUFFICIENT_BALANCE", "TRANSFER_LIMIT_EXCEEDED", "IDEMPOTENCY_KEY_REUSED",
           "MONEY_REQUEST_NOT_FOUND", "REQUEST_ALREADY_RESOLVED"}
Answers == [code : Codes \cup Errors \cup {"NONE"}, by : Calls \cup {Nobody}, balanceAfter : Int]
Bodies == {i.body : i \in Intents}
LedgerEntries == [transfer : Calls, delta : Int, after : Int]

\* Every variable has its type.
TypeOK ==
  /\ balance \in [Users -> Int]
  /\ ledger \in [Users -> Seq(LedgerEntries)]
  /\ committed \subseteq Calls
  /\ sent \in [Users -> Nat]
  /\ requests \in [Requests -> [status : Codes \cup {"PENDING"}, transfer : Calls \cup {Nobody}]]
  /\ records \in [Scopes -> [state : {"ABSENT", "COMPLETED"},
                             body : Bodies \cup {Nobody}, response : Answers]]
  /\ failedAudits \subseteq Calls
  /\ pc \in [Calls -> InTransaction \cup {"idle", "done"}]
  /\ intent \in [Calls -> Intents]
  /\ attempt \in [Calls -> 1..MaxAttempts]
  /\ seenBalance \in [Calls -> [Users -> Int]]
  /\ seenActive \in [Calls -> SUBSET Users]
  /\ answer \in [Calls -> Answers]
  /\ LocksTypeOK
  /\ active \subseteq Users
  /\ expired \subseteq Requests
  /\ known \in [Calls -> [active : SUBSET Users, expired : SUBSET Requests]]
-------------------------------------------------------------------------------
LastAfter(u, n) == IF n = 0 THEN Opening[u] ELSE ledger[u][n].after

\* In every wallet each ledger entry's balance-after is the previous one plus
\* the entry, and the last one is the wallet's balance.  The entry is computed
\* from a read made under the lock while the balance moves by a relative UPDATE
\* later, so they agree only if no other transfer posts in between.
LedgerAgrees ==
  \A u \in Users :
    /\ \A n \in 1..Len(ledger[u]) :
         ledger[u][n].after = LastAfter(u, n - 1) + ledger[u][n].delta
    /\ balance[u] = LastAfter(u, Len(ledger[u]))

Entries(p, u) == {n \in 1..Len(ledger[u]) : ledger[u][n].transfer = p}

\* A committed transfer has one entry in the sender's wallet and one in the
\* receiver's, of opposite amounts, and nothing else is ever posted.
EntriesPaired ==
  \A p \in Calls, u \in Users :
    IF p \in committed /\ u \in {Sender(p), Receiver(p)}
    THEN \E n \in 1..Len(ledger[u]) :
           /\ Entries(p, u) = {n}
           /\ ledger[u][n].delta = IF u = Sender(p) THEN -Amount(p) ELSE Amount(p)
    ELSE Entries(p, u) = {}

\* Double entry: the entries come in pairs, and so the total of all balances is
\* the opening total.
DoubleEntry ==
  EntriesPaired /\ SumFunction(balance) = SumFunction(Opening)

\* When a transaction is about to write, the sender still has the money, so
\* the CHECK (balance_minor >= 0) behind applyBalanceDelta never fires.
CheckConstraintIdle ==
  \A p \in Calls :
    pc[p] = "commit" /\ MovesMoney(p) => balance[Sender(p)] >= Amount(p)

\* No sender ever exceeds the send limit, however many calls check it at once.
SendLimitHolds == \A u \in Users : sent[u] <= SendLimit

\* An idempotency key pays at most once, through any number of calls, retries
\* and lost acknowledgements.
OnePaymentPerKey ==
  \A p, q \in committed : CallScope(p) = CallScope(q) => p = q

\* A call is told of success only with the response stored under its key, for
\* exactly the body it asked for, and that body was carried out by the call the
\* response names: replays repeat the original answer.
SuccessIsTheStoredResult ==
  \A p \in Calls :
    answer[p].code \in Codes =>
      LET by == answer[p].by IN
      /\ records[CallScope(p)].response = answer[p]
      /\ CallScope(by) = CallScope(p) /\ Body(by) = Body(p)
      /\ MovesMoney(by) => by \in committed

Settlements(r) == {p \in committed : Route(p) = "accept" /\ Request(p) = r}

\* A request is ACCEPTED exactly when one transfer settled it, the one it links.
AcceptedMeansPaidOnce ==
  \A r \in Requests :
    Settlements(r) = IF requests[r].status = "ACCEPTED" THEN {requests[r].transfer} ELSE {}

\* A request that left PENDING never changes again: of racing accept, decline
\* and cancel calls exactly one decides.
ResolvedForGood ==
  [][\A r \in Requests : requests[r].status # "PENDING" => requests'[r] = requests[r]]_requests

\* Money never moves for a call made after one of the two accounts was
\* suspended, nor for an accept made after the request expired, however long
\* the call waits for locks and however often it is retried.
NothingForTheSuspended ==
  \A p \in committed :
    /\ {Sender(p), Receiver(p)} \subseteq known[p].active
    /\ Route(p) = "accept" => Request(p) \notin known[p].expired

Locking == {"claim", "lockRecord", "lockRequest", "lockFirst", "lockSecond"}

\* The row the next statement of a call needs.
Wanted(p) ==
  CASE pc[p] = "lockRequest" -> RequestRow(Request(p))
    [] pc[p] = "lockFirst" -> WalletRow(FirstWallet(p))
    [] pc[p] = "lockSecond" -> WalletRow(SecondWallet(p))
    [] OTHER -> KeyRow(CallScope(p))

WaitsFor(p, q) ==
  pc[p] \in Locking /\ q # p /\ lockedBy[Wanted(p)] = q

\* Among any calls, one waits for none of the others: the keys, the request
\* rows and the sorted wallet rows are locked in one global order, so the API
\* never deadlocks with itself.
NoWaitCycle ==
  \A S \in (SUBSET Calls) \ {{}} : \E p \in S : \A q \in S : ~WaitsFor(p, q)

\* The database schedules every transaction and serves row locks in turn; the
\* environment may stop failing calls at any time.
Fairness == \A p \in Calls : WF_vars(Proceed(p))
FairSpec == Spec /\ Fairness

\* Every call that was made is answered.
EveryCallAnswered == \A p \in Calls : (pc[p] # "idle") ~> (pc[p] = "done")
-------------------------------------------------------------------------------
(***************************************************************************)
(* The inductive invariant.  What a transaction has read and checked stays *)
(* true until it commits because it concerns rows the transaction locks,   *)
(* and what is committed was true when it was published.                   *)
(***************************************************************************)
\* Labels with the key claimed, with the request locked, with wallets locked.
KeyHeld == {"lockRequest", "resolveWallets", "lockFirst", "lockSecond", "settle", "commit"}
RequestHeld == KeyHeld \ {"lockRequest"}
PartiesResolved == {"lockFirst", "lockSecond", "settle", "commit"}
FirstHeld == {"lockSecond", "settle", "commit"}
BothHeld == {"settle", "commit"}

HoldsWallet(p, u) ==
  Holds(p, WalletRow(u)) /\ seenBalance[p][u] = balance[u]

IdleHoldsNothing(p) ==
  pc[p] \notin KeyHeld => \A x \in LockableRows : ~Holds(p, x)
KeyClaimed(p) ==
  pc[p] \in KeyHeld => Holds(p, KeyRow(CallScope(p))) /\ records[CallScope(p)].state = "ABSENT"
RequestChecked(p) ==
  pc[p] \in RequestHeld /\ Route(p) # "transfer" =>
    /\ Holds(p, RequestRow(Request(p)))
    /\ Pending(Request(p))
    /\ ActorRole(p) = RequiredRole(p)
RecordFound(p) == pc[p] = "lockRecord" => records[CallScope(p)].state # "ABSENT"
RouteFollowed(p) ==
  /\ pc[p] = "lockRequest" => Route(p) # "transfer"
  /\ pc[p] \in RequestHeld \ {"commit"} => MovesMoney(p)
PartiesChecked(p) ==
  pc[p] \in PartiesResolved /\ MovesMoney(p) => ~ToSelf(p) /\ Receiver(p) \in Users
WalletsRead(p) ==
  MovesMoney(p) =>
    /\ pc[p] \in FirstHeld => HoldsWallet(p, FirstWallet(p))
    /\ pc[p] \in BothHeld => HoldsWallet(p, SecondWallet(p))
PaymentChecked(p) ==
  pc[p] = "commit" /\ MovesMoney(p) => Sufficient(p) /\ WithinLimit(p)

CallInv(p) ==
  /\ IdleHoldsNothing(p) /\ KeyClaimed(p) /\ RecordFound(p) /\ RequestChecked(p)
  /\ RouteFollowed(p) /\ PartiesChecked(p) /\ WalletsRead(p) /\ PaymentChecked(p)

CommittedInv ==
  \A p \in committed :
    pc[p] = "done" /\ MovesMoney(p) /\ records[CallScope(p)].state = "COMPLETED"
UnusedInv == \A s \in Scopes : records[s].state = "ABSENT" => records[s].body = Nobody

IInv ==
  /\ TypeOK
  /\ \A p \in Calls : CallInv(p)
  /\ CommittedInv /\ UnusedInv
  /\ LedgerAgrees /\ SendLimitHolds /\ OnePaymentPerKey /\ AcceptedMeansPaidOnce

\* What a call has read of the accounts and of the request's expiry is no older
\* than the call itself.
Standing(p) ==
  /\ active \subseteq known[p].active /\ known[p].expired \subseteq expired
  /\ seenActive[p] \subseteq known[p].active
  /\ pc[p] = "idle" => seenActive[p] = {}
  /\ pc[p] = "commit" /\ MovesMoney(p) => {Sender(p), Receiver(p)} \subseteq seenActive[p]
  /\ pc[p] \in RequestHeld /\ Route(p) = "accept" => Request(p) \notin known[p].expired
StandingInv == (\A p \in Calls : Standing(p)) /\ NothingForTheSuspended

\* A stored response names the call that carried the key's body out, and a call
\* told of success was told what is stored under its key.
Stored(s) ==
  records[s].state = "COMPLETED" =>
    LET by == records[s].response.by IN
    /\ by \in Calls /\ pc[by] = "done"
    /\ CallScope(by) = s /\ Body(by) = records[s].body
    /\ MovesMoney(by) => by \in committed
Answered(p) ==
  answer[p].code \in Codes =>
    /\ pc[p] = "done"
    /\ records[CallScope(p)].state = "COMPLETED"
    /\ records[CallScope(p)].response = answer[p] /\ records[CallScope(p)].body = Body(p)
StoredInv == (\A s \in Scopes : Stored(s)) /\ (\A p \in Calls : Answered(p))

\* The rows a call may hold at its label.
HoldsAtMost(p) ==
  \A x \in LockableRows :
    Holds(p, x) =>
      \/ x = KeyRow(CallScope(p)) /\ pc[p] \in KeyHeld
      \/ x = RequestRow(Request(p)) /\ Route(p) # "transfer" /\ pc[p] \in RequestHeld
      \/ x = WalletRow(FirstWallet(p)) /\ pc[p] \in FirstHeld
      \/ x = WalletRow(SecondWallet(p)) /\ pc[p] \in BothHeld
OrderInv == \A p \in Calls : HoldsAtMost(p)
-------------------------------------------------------------------------------
\* The whole of it implements the promise of PaymentBook, whose key table is
\* the bodies of the stored records.
Book == INSTANCE PaymentBook WITH
  Unused <- Nobody,
  status <- [r \in Requests |-> requests[r].status],
  used <- [s \in Scopes |-> records[s].body]

ImplementsPaymentBook == Book!Spec
-------------------------------------------------------------------------------
\* transfer.service.ts says of the failure audit that "the one that failed has
\* already rolled back": a call with a TRANSFER_FAILED row moved no money.
FailureAuditMeansRolledBack == failedAudits \cap committed = {}
\* Nothing but an acknowledgement that is lost breaks it.
CommitsAcknowledged == [][\A p \in Calls : ~CommitUnacknowledged(p)]_vars
-------------------------------------------------------------------------------
\* p has carried its intent out: the record of some key names it.
Acted(p) ==
  \E s \in Scopes : records[s].state = "COMPLETED" /\ records[s].response.by = p

\* What a client is told is true.  A call that is not answered yet has done
\* nothing; an error other than INTERNAL_ERROR means that the call did nothing;
\* a success names the one call that did it; and a call with a failure audit has
\* done nothing, or its client was told INTERNAL_ERROR.
AnswersAreTrue ==
  \A p \in Calls :
    /\ p \in committed => Acted(p)
    /\ Acted(p) => answer[p] = Refusal("INTERNAL_ERROR") \/ (answer[p].code \in Codes /\ answer[p].by = p)
    /\ answer[p].code \in Codes => Acted(answer[p].by)
    /\ p \in failedAudits /\ Acted(p) => answer[p] = Refusal("INTERNAL_ERROR")

\* What was committed or told stands: a completed record, a ledger entry, a
\* committed transfer and an answer never change.
HistoryStands ==
  [][/\ \A s \in Scopes : records[s].state = "COMPLETED" => records'[s] = records[s]
     /\ \A u \in Users :
          /\ Len(ledger[u]) <= Len(ledger'[u])
          /\ \A n \in 1..Len(ledger[u]) : ledger'[u][n] = ledger[u][n]
     /\ committed \subseteq committed'
     /\ \A p \in Calls : pc[p] = "done" => pc'[p] = "done" /\ answer'[p] = answer[p]]_vars

\* No balance is ever negative.
NobodyOverdrawn == \A u \in Users : balance[u] >= 0
-------------------------------------------------------------------------------
\* The safety behind EveryCallAnswered.  Of the calls that are not answered one
\* can go on: the row its next statement needs is free, or its own.
Unanswered == {p \in Calls : pc[p] \in InTransaction}
CanGoOn(p) == pc[p] \in Locking => lockedBy[Wanted(p)] \in {p, Nobody}
SomeoneCanGoOn == Unanswered # {} => \E p \in Unanswered : CanGoOn(p)

\* And it does not go on for ever: every statement of a call, carried out or
\* failing, brings its end nearer, and no other call's moves it away.
StatementsLeft ==
  [claim |-> 8, lockRecord |-> 7, lockRequest |-> 6, resolveWallets |-> 5, lockFirst |-> 4,
   lockSecond |-> 3, settle |-> 2, commit |-> 1, done |-> 0]
Left(p) == (MaxAttempts - attempt[p]) * StatementsLeft["claim"] + StatementsLeft[pc[p]]
Statement(p) == Proceed(p) \/ CommitUnacknowledged(p) \/ WriteConflict(p) \/ Abort(p)
CallsRunOut ==
  [][\A p \in Calls :
       /\ Statement(p) => Left(p)' < Left(p)
       /\ pc[p] # "idle" => Left(p)' \in 0..Left(p)]_vars
===============================================================================
