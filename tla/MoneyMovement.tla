---------------------------- MODULE MoneyMovement ----------------------------
(***************************************************************************)
(* The API's money-moving and request-resolving transactions, statement by *)
(* statement where another transaction can notice:                         *)
(*                                                                         *)
(*   POST /transfers                      (TransferService)                *)
(*   POST /money-requests/:id/accept      (MoneyRequestService, which      *)
(*   POST /money-requests/:id/decline      settles through the same        *)
(*   POST /money-requests/:id/cancel       TransferService.settle)         *)
(*                                                                         *)
(* A call runs one READ COMMITTED transaction.  It claims its idempotency  *)
(* key, locks the request row (if any), locks the two wallets in ascending *)
(* id order, re-reads and re-checks under the locks, writes, and commits.  *)
(* What a transaction writes before COMMIT is invisible to the others and  *)
(* every row it updates is locked, so its writes appear in one step,       *)
(* Publish; what it READS is recorded at the step that reads it, because   *)
(* it is used later.                                                       *)
(***************************************************************************)
EXTENDS Integers, Sequences, FiniteSets

CONSTANTS
  Users,        \* users that have a wallet; a wallet's id is its user's
  Calls,        \* API calls, each made at most once; retries are more calls
  Intents,      \* what clients ask for: route, actor, idempotency key, body
  Requests,     \* money requests, PENDING at the start
  Terms,        \* payer, requester and amount of each request
  Opening,      \* each wallet's opening balance
  SendLimit,    \* what one user may send in a window all these calls share
  MaxAttempts,  \* MAX_TRANSFER_ATTEMPTS and MAX_ACCEPT_ATTEMPTS
  Suspendable,  \* users an administrator may suspend meanwhile
  Expirable,    \* requests whose expiresAt may pass meanwhile
  Nobody

Resolutions == {"accept", "decline", "cancel"}

Scope(i) == <<i.actor, i.route, i.key>>
Scopes == {Scope(i) : i \in Intents}

KeyRow(s) == <<"key", s>>
RequestRow(r) == <<"request", r>>
WalletRow(u) == <<"wallet", u>>
LockableRows ==
  {KeyRow(s) : s \in Scopes} \cup {RequestRow(r) : r \in Requests}
    \cup {WalletRow(u) : u \in Users}

ASSUME NobodyAssumption == Nobody \notin Calls
ASSUME CallsAssumption == IsFiniteSet(Calls)
ASSUME UsersAssumption == Users \subseteq Nat /\ IsFiniteSet(Users)
ASSUME IntentsAssumption ==
  /\ Intents # {}
  /\ \A i \in Intents :
    /\ i.actor \in Users
    /\ \/ i.route = "transfer" /\ i.body.to \in Nat /\ i.body.amount \in Nat \ {0}
       \/ i.route \in Resolutions /\ i.body.request \in Requests
ASSUME TermsAssumption ==
  \A r \in Requests :
    /\ Terms[r].payer \in Users
    /\ Terms[r].requester \in Users
    /\ Terms[r].amount \in Nat \ {0}
ASSUME OpeningAssumption == Opening \in [Users -> Nat]
ASSUME BoundsAssumption == SendLimit \in Nat /\ MaxAttempts \in Nat \ {0}
-------------------------------------------------------------------------------
VARIABLES
  \* Committed rows
  balance,       \* wallets.balance_minor
  ledger,        \* ledger_entries of each wallet, oldest first
  committed,     \* calls whose transfer row is committed (its id is the call)
  sent,          \* SUM(amount_minor) of a sender's SUCCEEDED transfers
  requests,      \* money_requests: status and the accepted transfer
  records,       \* idempotency_records by (actor, route, key)
  failedAudits,  \* calls with a TRANSFER_FAILED audit row
  \* Calls
  pc,            \* the next statement of each call
  intent,        \* what each call was asked to do
  attempt,       \* the pass through the retry loop
  seenBalance,   \* balance a transaction read after locking a wallet
  seenActive,    \* owners it read as ACTIVE when it locked their wallets
  answer,        \* what the client was told
  lockedBy,
  \* Environment
  active,        \* users whose account status is ACTIVE
  expired,       \* requests whose expiresAt has passed
  known          \* history: active and expired when the call was submitted

INSTANCE RowLocks WITH Rows <- LockableRows

books == <<balance, ledger, committed, sent, requests, records>>
environment == <<active, expired>>
snapshot == <<seenBalance, seenActive>>
vars == <<books, failedAudits, pc, intent, attempt, snapshot, answer, lockedBy,
          environment, known>>
-------------------------------------------------------------------------------
\* What a call's intent stands for.
Route(p) == intent[p].route
Actor(p) == intent[p].actor
Body(p) == intent[p].body
CallScope(p) == Scope(intent[p])
Request(p) == Body(p).request
MovesMoney(p) == Route(p) \in {"transfer", "accept"}
Sender(p) == IF Route(p) = "transfer" THEN Actor(p) ELSE Terms[Request(p)].payer
Receiver(p) == IF Route(p) = "transfer" THEN Body(p).to ELSE Terms[Request(p)].requester
Amount(p) == IF Route(p) = "transfer" THEN Body(p).amount ELSE Terms[Request(p)].amount

Result(p) ==
  CASE Route(p) = "transfer" -> "SUCCEEDED"
    [] Route(p) = "accept" -> "ACCEPTED"
    [] Route(p) = "decline" -> "DECLINED"
    [] OTHER -> "CANCELLED"

\* An answer and a stored response: the outcome, the call that produced it and
\* the balance it reported (transfers only).
NoAnswer == [code |-> "NONE", by |-> Nobody, balanceAfter |-> 0]
Refusal(code) == [code |-> code, by |-> Nobody, balanceAfter |-> 0]
Receipt(p) ==
  [code |-> Result(p), by |-> p,
   balanceAfter |-> IF Route(p) = "transfer" THEN seenBalance[p][Sender(p)] - Amount(p) ELSE 0]

Absent == [state |-> "ABSENT", body |-> Nobody, response |-> NoAnswer]

NothingSeen == [u \in Users |-> 0]
-------------------------------------------------------------------------------
(***************************************************************************)
(* Locks                                                                   *)
(***************************************************************************)
SenderFirst(p) == Sender(p)   \* not: the same two locks, unsorted

\* [senderProbe.id, receiverProbe.id].sort()
FirstWallet(p) == IF Sender(p) < Receiver(p) THEN Sender(p) ELSE Receiver(p)
SecondWallet(p) == IF FirstWallet(p) = Sender(p) THEN Receiver(p) ELSE Sender(p)

InTransaction == {"claim", "lockRecord", "lockRequest", "resolveWallets", "lockFirst",
                  "lockSecond", "settle", "commit"}
-------------------------------------------------------------------------------
(***************************************************************************)
(* How a transaction ends                                                  *)
(***************************************************************************)
Forget(p) ==
  /\ seenBalance' = [seenBalance EXCEPT ![p] = NothingSeen]
  /\ seenActive' = [seenActive EXCEPT ![p] = {}]

\* createDirectTransfer audits a failure outside the transaction and swallows
\* the failure to do so; the other handlers do not audit failures.
AuditFailure(p) ==
  failedAudits' \in IF Route(p) = "transfer" THEN {failedAudits, failedAudits \cup {p}}
                                             ELSE {failedAudits}

Reply(p, a) ==
  /\ answer' = [answer EXCEPT ![p] = a]
  /\ pc' = [pc EXCEPT ![p] = "done"]

\* The handler throws: the transaction rolls back and the client gets an error.
Refuse(p, code) ==
  /\ Reply(p, Refusal(code))
  /\ AuditFailure(p)
  /\ ReleaseAll(p)
  /\ Forget(p)
  /\ UNCHANGED <<books, intent, attempt, environment, known>>

Advance(p, label) ==
  /\ pc' = [pc EXCEPT ![p] = label]
  /\ UNCHANGED <<books, failedAudits, intent, attempt, answer, environment, known>>

(***************************************************************************)
(* A client calls the API.                                                 *)
(***************************************************************************)
Submit(p) ==
  /\ pc[p] = "idle"
  /\ \E i \in Intents : intent' = [intent EXCEPT ![p] = i]
  /\ attempt' = [attempt EXCEPT ![p] = 1]
  /\ known' = [known EXCEPT ![p] = [active |-> active, expired |-> expired]]
  /\ pc' = [pc EXCEPT ![p] = "claim"]
  /\ UNCHANGED <<books, failedAudits, snapshot, answer, lockedBy, environment>>

(***************************************************************************)
(* IdempotencyService.begin.  INSERT ... ON CONFLICT DO NOTHING waits for  *)
(* an uncommitted insert of the same key and inserts nothing when the row  *)
(* is committed.                                                           *)
(***************************************************************************)
NextAfterClaim(p) == IF Route(p) = "transfer" THEN "resolveWallets" ELSE "lockRequest"

ClaimUnlessRecorded(p) ==   \* not: a claim that looks but does not lock
  /\ pc[p] = "claim"
  /\ Advance(p, IF records[CallScope(p)].state = "ABSENT" THEN NextAfterClaim(p)
                                                         ELSE "lockRecord")
  /\ UNCHANGED <<lockedBy, snapshot>>

TryClaim(p) ==
  /\ pc[p] = "claim"
  /\ \/ /\ records[CallScope(p)].state = "ABSENT"
        /\ Acquire(p, KeyRow(CallScope(p)))
        /\ Advance(p, NextAfterClaim(p))
     \/ /\ records[CallScope(p)].state # "ABSENT"
        /\ Advance(p, "lockRecord")
        /\ UNCHANGED lockedBy
  /\ UNCHANGED snapshot

AnyBody(p) == TRUE   \* not: a stored response whatever the body

SameBody(p) == records[CallScope(p)].body = Body(p)

\* SELECT ... FOR UPDATE on the committed record, then one of three ways on.
LockExisting(p) ==
  /\ pc[p] = "lockRecord"
  /\ ~Blocked(p, KeyRow(CallScope(p)))
  /\ IF ~SameBody(p)
     THEN Refuse(p, "IDEMPOTENCY_KEY_REUSED")
     ELSE IF records[CallScope(p)].state = "COMPLETED"
     THEN /\ Reply(p, records[CallScope(p)].response)
          /\ ReleaseAll(p)
          /\ UNCHANGED <<books, failedAudits, intent, attempt, snapshot, environment, known>>
     ELSE \* reclaim
          /\ Acquire(p, KeyRow(CallScope(p)))
          /\ Advance(p, NextAfterClaim(p))
          /\ UNCHANGED snapshot
-------------------------------------------------------------------------------
(***************************************************************************)
(* MoneyRequestService.runAccept and resolvePending, under the request lock *)
(***************************************************************************)
PayerOnly(p) == "payer"   \* not: the payer's role for every route

RequiredRole(p) == IF Route(p) = "cancel" THEN "requester" ELSE "payer"
ActorRole(p) ==
  CASE Actor(p) = Terms[Request(p)].payer -> "payer"
    [] Actor(p) = Terms[Request(p)].requester -> "requester"
    [] OTHER -> "none"

StillOpen(r) == requests[r].status # "ACCEPTED"   \* not: declined and cancelled forgotten

Pending(r) == requests[r].status = "PENDING"
TooLate(p) == Route(p) = "accept" /\ Request(p) \in expired

ReadRequest(p) == UNCHANGED lockedBy   \* not: a read without FOR UPDATE

HoldRequest(p) == Acquire(p, RequestRow(Request(p)))

LockRequest(p) ==
  /\ pc[p] = "lockRequest"
  /\ ~Blocked(p, RequestRow(Request(p)))
  /\ \/ ActorRole(p) = "none" /\ Refuse(p, "MONEY_REQUEST_NOT_FOUND")
     \/ ActorRole(p) \notin {"none", RequiredRole(p)} /\ Refuse(p, "FORBIDDEN")
     \/ /\ ActorRole(p) = RequiredRole(p)
        /\ ~Pending(Request(p)) \/ TooLate(p)
        /\ Refuse(p, "REQUEST_ALREADY_RESOLVED")
     \/ /\ ActorRole(p) = RequiredRole(p)
        /\ Pending(Request(p)) /\ ~TooLate(p)
        /\ HoldRequest(p)
        /\ Advance(p, IF MovesMoney(p) THEN "resolveWallets" ELSE "commit")
        /\ UNCHANGED snapshot
-------------------------------------------------------------------------------
(***************************************************************************)
(* TransferService.settle                                                  *)
(***************************************************************************)
NeverToSelf(p) == FALSE   \* not: no self-transfer check

ToSelf(p) == Sender(p) = Receiver(p)

ResolveWallets(p) ==
  /\ pc[p] = "resolveWallets"
  /\ \/ ToSelf(p) /\ Refuse(p, "INVALID_TRANSFER")
     \/ ~ToSelf(p) /\ Receiver(p) \notin Users /\ Refuse(p, "USER_NOT_FOUND")
     \/ /\ ~ToSelf(p) /\ Receiver(p) \in Users
        /\ Advance(p, "lockFirst")
        /\ UNCHANGED <<snapshot, lockedBy>>

ReadWallet(p, u) ==   \* not: the read without the lock
  /\ seenBalance' = [seenBalance EXCEPT ![p][u] = balance[u]]
  /\ seenActive' = [seenActive EXCEPT ![p] = @ \cup (active \cap {u})]
  /\ UNCHANGED lockedBy

\* lockWalletById: wait for the lock, then re-read the wallet and its owner.
LockWallet(p, u) ==
  /\ Acquire(p, WalletRow(u))
  /\ seenBalance' = [seenBalance EXCEPT ![p][u] = balance[u]]
  /\ seenActive' = [seenActive EXCEPT ![p] = @ \cup (active \cap {u})]

LockFirst(p) ==
  /\ pc[p] = "lockFirst"
  /\ LockWallet(p, FirstWallet(p))
  /\ Advance(p, "lockSecond")

LockSecond(p) ==
  /\ pc[p] = "lockSecond"
  /\ LockWallet(p, SecondWallet(p))
  /\ Advance(p, "settle")

SenderTrusted(p) == TRUE   \* not: the sender's account taken as active
LimitNotReached(p) == sent[Sender(p)] < SendLimit   \* not: this transfer left out

SenderActive(p) == Sender(p) \in seenActive[p]
ReceiverActive(p) == Receiver(p) \in seenActive[p]
Sufficient(p) == seenBalance[p][Sender(p)] >= Amount(p)
WithinLimit(p) == sent[Sender(p)] + Amount(p) <= SendLimit

\* Every check is made on what was read under the locks; the writes that
\* follow show at Publish.
Settle(p) ==
  /\ pc[p] = "settle"
  /\ \/ ~SenderActive(p) /\ Refuse(p, "FORBIDDEN")
     \/ SenderActive(p) /\ ~ReceiverActive(p) /\ Refuse(p, "USER_NOT_FOUND")
     \/ /\ SenderActive(p) /\ ReceiverActive(p) /\ ~Sufficient(p)
        /\ Refuse(p, "INSUFFICIENT_BALANCE")
     \/ /\ SenderActive(p) /\ ReceiverActive(p) /\ Sufficient(p) /\ ~WithinLimit(p)
        /\ Refuse(p, "TRANSFER_LIMIT_EXCEEDED")
     \/ /\ SenderActive(p) /\ ReceiverActive(p) /\ Sufficient(p) /\ WithinLimit(p)
        /\ Advance(p, "commit")
        /\ UNCHANGED <<snapshot, lockedBy>>
-------------------------------------------------------------------------------
(***************************************************************************)
(* COMMIT                                                                  *)
(***************************************************************************)
\* The ledger pair carries the balance computed from the locked read; the
\* wallets are moved by a relative UPDATE.
Entry(p, u, delta) == [transfer |-> p, delta |-> delta, after |-> seenBalance[p][u] + delta]

Post(p, entries, u, delta) == [entries EXCEPT ![u] = Append(@, Entry(p, u, delta))]

Posted(p) ==
  Post(p, Post(p, ledger, Sender(p), -Amount(p)), Receiver(p), Amount(p))

Moved(p) == [balance EXCEPT ![Sender(p)] = @ - Amount(p), ![Receiver(p)] = @ + Amount(p)]

\* markAccepted links the transfer; markResolved does not touch the link.
Resolved(p) ==
  [requests EXCEPT ![Request(p)] =
     [status |-> Result(p), transfer |-> IF Route(p) = "accept" THEN p ELSE @.transfer]]

\* IdempotencyService.complete on the row that begin inserted.
CompletedRecord(p) == [state |-> "COMPLETED", body |-> Body(p), response |-> Receipt(p)]

Publish(p) ==
  /\ records' = [records EXCEPT ![CallScope(p)] = CompletedRecord(p)]
  /\ IF MovesMoney(p)
     THEN /\ ledger' = Posted(p)
          /\ balance' = Moved(p)
          /\ committed' = committed \cup {p}
          /\ sent' = [sent EXCEPT ![Sender(p)] = @ + Amount(p)]
     ELSE UNCHANGED <<ledger, balance, committed, sent>>
  /\ requests' = IF Route(p) = "transfer" THEN requests ELSE Resolved(p)
  /\ ReleaseAll(p)
  /\ Forget(p)
  /\ UNCHANGED <<intent, attempt, environment, known>>

Commit(p) ==
  /\ pc[p] = "commit"
  /\ Publish(p)
  /\ Reply(p, Receipt(p))
  /\ UNCHANGED failedAudits

\* The database commits but its acknowledgement never reaches the API.
CommitUnacknowledged(p) ==
  /\ pc[p] = "commit"
  /\ Publish(p)
  /\ Reply(p, Refusal("INTERNAL_ERROR"))
  /\ AuditFailure(p)
-------------------------------------------------------------------------------
(***************************************************************************)
(* Failures                                                                *)
(***************************************************************************)
OneRetryMore(p) == MovesMoney(p) /\ attempt[p] <= MaxAttempts   \* not: off by one

MayRetry(p) == MovesMoney(p) /\ attempt[p] < MaxAttempts

\* A deadlock with some other session of the database: retried, unchanged.
WriteConflict(p) ==
  /\ pc[p] \in InTransaction
  /\ MayRetry(p)
  /\ attempt' = [attempt EXCEPT ![p] = @ + 1]
  /\ pc' = [pc EXCEPT ![p] = "claim"]
  /\ ReleaseAll(p)
  /\ Forget(p)
  /\ UNCHANGED <<books, failedAudits, intent, answer, environment, known>>

\* The transaction timeout, a lost connection, the API process dying, or a
\* write conflict that is not retried: rolled back, no answer worth trusting.
Abort(p) ==
  /\ pc[p] \in InTransaction
  /\ Refuse(p, "INTERNAL_ERROR")

Suspend(u) ==
  /\ u \in Suspendable \cap active
  /\ active' = active \ {u}
  /\ UNCHANGED <<books, failedAudits, pc, intent, attempt, snapshot, answer, lockedBy,
                 expired, known>>

Expire(r) ==
  /\ r \in Expirable \ expired
  /\ expired' = expired \cup {r}
  /\ UNCHANGED <<books, failedAudits, pc, intent, attempt, snapshot, answer, lockedBy,
                 active, known>>
-------------------------------------------------------------------------------
Init ==
  /\ balance = Opening
  /\ ledger = [u \in Users |-> <<>>]
  /\ committed = {}
  /\ sent = [u \in Users |-> 0]
  /\ requests = [r \in Requests |-> [status |-> "PENDING", transfer |-> Nobody]]
  /\ records = [s \in Scopes |-> Absent]
  /\ failedAudits = {}
  /\ pc = [p \in Calls |-> "idle"]
  /\ intent = [p \in Calls |-> CHOOSE i \in Intents : TRUE]
  /\ attempt = [p \in Calls |-> 1]
  /\ seenBalance = [p \in Calls |-> NothingSeen]
  /\ seenActive = [p \in Calls |-> {}]
  /\ answer = [p \in Calls |-> NoAnswer]
  /\ LocksInit
  /\ active = Users
  /\ expired = {}
  /\ known = [p \in Calls |-> [active |-> Users, expired |-> {}]]

Proceed(p) ==
  \/ TryClaim(p) \/ LockExisting(p) \/ LockRequest(p) \/ ResolveWallets(p)
  \/ LockFirst(p) \/ LockSecond(p) \/ Settle(p) \/ Commit(p)

\* Every call has been answered.
AllDone == (\A p \in Calls : pc[p] = "done") /\ UNCHANGED vars

Next ==
  \/ \E p \in Calls :
       Submit(p) \/ Proceed(p) \/ CommitUnacknowledged(p) \/ WriteConflict(p) \/ Abort(p)
  \/ \E u \in Users : Suspend(u)
  \/ \E r \in Requests : Expire(r)
  \/ AllDone

Spec == Init /\ [][Next]_vars
===============================================================================
