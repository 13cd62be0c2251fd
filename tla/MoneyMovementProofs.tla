------------------------- MODULE MoneyMovementProofs -------------------------
(***************************************************************************)
(* Proofs, for any number of calls, users, requests and intents, that the  *)
(* invariants of MoneyMovementProperties hold of MoneyMovement!Spec, and   *)
(* that Spec implements PaymentBook.                                       *)
(***************************************************************************)
EXTENDS MoneyMovementProperties, Sums

\* Rows of different kinds, and of different keys, requests or wallets, are
\* different rows, and every row a call can want is lockable.
LEMMA RowsDiffer ==
  /\ \A s \in Scopes : KeyRow(s) \in LockableRows
  /\ \A r \in Requests : RequestRow(r) \in LockableRows
  /\ \A u \in Users : WalletRow(u) \in LockableRows
  /\ \A s, r : KeyRow(s) # RequestRow(r) /\ KeyRow(s) # WalletRow(r) /\ RequestRow(s) # WalletRow(r)
  /\ \A s, t : KeyRow(s) = KeyRow(t) => s = t
  /\ \A s, t : RequestRow(s) = RequestRow(t) => s = t
  /\ \A s, t : WalletRow(s) = WalletRow(t) => s = t
  BY DEF KeyRow, RequestRow, WalletRow, LockableRows

\* The fields of an intent, by route.
LEMMA IntentFields ==
  ASSUME TypeOK, NEW p \in Calls
  PROVE  /\ intent[p] \in Intents
         /\ CallScope(p) \in Scopes
         /\ Actor(p) \in Users
         /\ Body(p) \in Bodies
         /\ Route(p) = "transfer" \/ Route(p) \in Resolutions
         /\ Route(p) # "transfer" => Request(p) \in Requests
         /\ Sender(p) \in Users
         /\ Receiver(p) \in Nat
         /\ Route(p) # "transfer" => Receiver(p) \in Users
         /\ Amount(p) \in Nat \ {0}
  <1>1. intent[p] \in Intents
    BY DEF TypeOK
  <1>2. CallScope(p) \in Scopes /\ Body(p) \in Bodies
    BY <1>1 DEF CallScope, Scopes, Body, Bodies
  <1>3. Actor(p) \in Users /\ (Route(p) = "transfer" \/ Route(p) \in Resolutions)
    BY <1>1, IntentsAssumption DEF Actor, Route
  <1>4. Route(p) # "transfer" => Request(p) \in Requests
    BY <1>1, IntentsAssumption DEF Route, Request, Body
  <1>5. Sender(p) \in Users
    BY <1>3, <1>4, TermsAssumption DEF Sender
  <1>6. Receiver(p) \in Nat /\ (Route(p) # "transfer" => Receiver(p) \in Users)
    BY <1>1, <1>4, IntentsAssumption, TermsAssumption, UsersAssumption
       DEF Receiver, Route, Body, Resolutions
  <1>7. Amount(p) \in Nat \ {0}
    BY <1>1, <1>4, IntentsAssumption, TermsAssumption DEF Amount, Route, Body, Resolutions
  <1> QED
    BY <1>1, <1>2, <1>3, <1>4, <1>5, <1>6, <1>7

\* A call stands for the same thing as long as its intent is the same.
LEMMA IntentKept ==
  ASSUME NEW p \in Calls, intent'[p] = intent[p]
  PROVE  /\ CallScope(p)' = CallScope(p) /\ Body(p)' = Body(p) /\ Route(p)' = Route(p)
         /\ Request(p)' = Request(p) /\ MovesMoney(p)' = MovesMoney(p)
         /\ Sender(p)' = Sender(p) /\ Receiver(p)' = Receiver(p)
         /\ Amount(p)' = Amount(p) /\ Actor(p)' = Actor(p)
         /\ FirstWallet(p)' = FirstWallet(p) /\ SecondWallet(p)' = SecondWallet(p)
         /\ ToSelf(p)' = ToSelf(p) /\ ActorRole(p)' = ActorRole(p)
         /\ RequiredRole(p)' = RequiredRole(p)
  <1>1. /\ CallScope(p)' = CallScope(p) /\ Body(p)' = Body(p) /\ Route(p)' = Route(p)
        /\ Request(p)' = Request(p) /\ MovesMoney(p)' = MovesMoney(p)
        /\ Sender(p)' = Sender(p) /\ Receiver(p)' = Receiver(p)
        /\ Amount(p)' = Amount(p) /\ Actor(p)' = Actor(p)
    BY DEF CallScope, Route, Request, Body, MovesMoney, Sender, Receiver, Amount, Actor
  <1> QED
    BY <1>1 DEF FirstWallet, SecondWallet, ToSelf, ActorRole, RequiredRole

\* The initial state satisfies the invariant.
LEMMA InitIInv == Init => IInv
  <1> SUFFICES ASSUME Init PROVE IInv
    OBVIOUS
  <1> USE DEF Init
  <1>1. TypeOK
    <2>1. (CHOOSE i \in Intents : TRUE) \in Intents
      BY IntentsAssumption
    <2>2. ledger \in [Users -> Seq(LedgerEntries)] /\ balance \in [Users -> Int]
      BY OpeningAssumption
    <2>3. Absent \in [state : {"ABSENT", "COMPLETED"}, body : Bodies \cup {Nobody}, response : Answers]
      BY DEF Absent, Answers, NoAnswer
    <2>4. records \in [Scopes -> [state : {"ABSENT", "COMPLETED"}, body : Bodies \cup {Nobody},
                                  response : Answers]]
      BY <2>3
    <2>5. intent \in [Calls -> Intents] /\ attempt \in [Calls -> 1..MaxAttempts]
      BY <2>1, BoundsAssumption
    <2>6. seenBalance \in [Calls -> [Users -> Int]] /\ answer \in [Calls -> Answers]
      BY DEF NothingSeen, NoAnswer, Answers
    <2> QED
      BY <2>2, <2>4, <2>5, <2>6 DEF TypeOK, LocksInit, LocksTypeOK
  <1>2. ASSUME NEW p \in Calls PROVE CallInv(p)
    BY NobodyAssumption DEF CallInv, IdleHoldsNothing, KeyClaimed, RecordFound, RequestChecked,
       RouteFollowed, PartiesChecked, WalletsRead, PaymentChecked, KeyHeld, RequestHeld,
       PartiesResolved, FirstHeld, BothHeld, LocksInit, Holds
  <1>3. CommittedInv /\ UnusedInv /\ OnePaymentPerKey /\ AcceptedMeansPaidOnce
    BY DEF CommittedInv, UnusedInv, OnePaymentPerKey, AcceptedMeansPaidOnce, Settlements, Absent
  <1>4. LedgerAgrees /\ SendLimitHolds
    BY OpeningAssumption, BoundsAssumption DEF LedgerAgrees, SendLimitHolds, LastAfter
  <1> QED
    BY <1>1, <1>2, <1>3, <1>4 DEF IInv
-------------------------------------------------------------------------------
(***************************************************************************)
(* Three facts every step rests on.                                        *)
(***************************************************************************)
BooksInv ==
  CommittedInv /\ UnusedInv /\ LedgerAgrees /\ SendLimitHolds /\ OnePaymentPerKey
    /\ AcceptedMeansPaidOnce

\* A step that writes no committed row, and leaves finished calls alone, keeps
\* what is said of the committed rows.
LEMMA BooksKept ==
  ASSUME IInv, UNCHANGED books,
         \A q \in committed : pc'[q] = pc[q] /\ intent'[q] = intent[q]
  PROVE  BooksInv'
  <1> USE DEF IInv, books
  <1>1. \A q \in committed :
          /\ CallScope(q)' = CallScope(q)
          /\ MovesMoney(q)' = MovesMoney(q)
          /\ Route(q)' = Route(q) /\ Request(q)' = Request(q)
    BY IntentKept DEF TypeOK
  <1>2. CommittedInv' /\ OnePaymentPerKey'
    BY <1>1 DEF CommittedInv, OnePaymentPerKey
  <1>3. UnusedInv'
    BY DEF UnusedInv
  <1>4. LedgerAgrees' /\ SendLimitHolds'
    BY DEF LedgerAgrees, SendLimitHolds, LastAfter
  <1>5. AcceptedMeansPaidOnce'
    <2>1. ASSUME NEW r \in Requests PROVE Settlements(r)' = Settlements(r)
      BY <1>1 DEF Settlements
    <2> QED
      BY <2>1 DEF AcceptedMeansPaidOnce
  <1> QED
    BY <1>2, <1>3, <1>4, <1>5 DEF BooksInv

\* A step keeps what is said of a call q it is not a step of, if q keeps its
\* locks and the step writes no row that q has locked.
LEMMA OthersKept ==
  ASSUME IInv, NEW q \in Calls,
         UNCHANGED <<intent[q], pc[q], seenBalance[q]>>,
         \A x \in LockableRows : Holds(q, x)' <=> Holds(q, x),
         \A s \in Scopes : Holds(q, KeyRow(s)) => records'[s] = records[s],
         \A s \in Scopes : records[s].state # "ABSENT" => records'[s].state # "ABSENT",
         \A r \in Requests : Holds(q, RequestRow(r)) => requests'[r] = requests[r],
         \A u \in Users : Holds(q, WalletRow(u)) => balance'[u] = balance[u] /\ sent'[u] = sent[u]
  PROVE  CallInv(q)'
  <1> USE DEF IInv
  <1>0. CallInv(q)
    OBVIOUS
  <1>1. intent'[q] = intent[q]
    OBVIOUS
  <1>3. IdleHoldsNothing(q)' /\ RouteFollowed(q)' /\ PartiesChecked(q)'
    BY <1>0, <1>1, IntentKept DEF CallInv, IdleHoldsNothing, RouteFollowed, PartiesChecked
  <1>4. KeyClaimed(q)' /\ RecordFound(q)'
    BY <1>0, <1>1, IntentKept, IntentFields, RowsDiffer DEF CallInv, KeyClaimed, RecordFound
  <1>5. RequestChecked(q)'
    BY <1>0, <1>1, IntentKept, IntentFields, RowsDiffer DEF CallInv, RequestChecked, Pending
  <1>6. pc[q] \in FirstHeld /\ MovesMoney(q) =>
          /\ FirstWallet(q) \in Users /\ SecondWallet(q) \in Users
          /\ Sender(q) \in {FirstWallet(q), SecondWallet(q)}
    BY <1>0, IntentFields
       DEF CallInv, PartiesChecked, FirstHeld, PartiesResolved, FirstWallet, SecondWallet
  <1>7. WalletsRead(q)'
    BY <1>0, <1>1, IntentKept, <1>6, RowsDiffer
       DEF CallInv, WalletsRead, HoldsWallet, FirstHeld, BothHeld
  <1>8. PaymentChecked(q)'
    <2> SUFFICES ASSUME pc[q] = "commit", MovesMoney(q)
                 PROVE  Sufficient(q)' /\ WithinLimit(q)'
      BY <1>1, IntentKept DEF PaymentChecked
    <2>1. Holds(q, WalletRow(Sender(q))) /\ Sender(q) \in Users
      BY <1>0, <1>6, IntentFields DEF CallInv, WalletsRead, HoldsWallet, FirstHeld, BothHeld
    <2> QED
      BY <1>0, <1>1, <2>1, IntentKept DEF CallInv, PaymentChecked, Sufficient, WithinLimit
  <1> QED
    BY <1>3, <1>4, <1>5, <1>7, <1>8 DEF CallInv

\* COMMIT and ROLLBACK free the rows of the call they end, and only those.
LEMMA ReleaseFrees ==
  ASSUME NEW p \in Calls, LocksTypeOK, ReleaseAll(p)
  PROVE  /\ LocksTypeOK'
         /\ \A x \in LockableRows : ~Holds(p, x)'
         /\ \A q \in Calls \ {p}, x \in LockableRows : Holds(q, x)' <=> Holds(q, x)
  BY NobodyAssumption DEF LocksTypeOK, ReleaseAll, Holds

\* Taking a free row leaves the locks of the others as they are.
LEMMA AcquireAdds ==
  ASSUME NEW p \in Calls, NEW x \in LockableRows, LocksTypeOK, Acquire(p, x)
  PROVE  /\ LocksTypeOK'
         /\ Holds(p, x)'
         /\ \A y \in LockableRows : Holds(p, y) => Holds(p, y)'
         /\ \A q \in Calls \ {p}, y \in LockableRows : Holds(q, y)' <=> Holds(q, y)
  BY NobodyAssumption DEF LocksTypeOK, Acquire, Holds
-------------------------------------------------------------------------------
(***************************************************************************)
(* Steps that end a transaction without writing.                           *)
(***************************************************************************)
\* A call that holds nothing and is at a label before its first lock, or done.
LEMMA LocklessCall ==
  ASSUME NEW p \in Calls,
         pc'[p] \in {"idle", "claim", "done"},
         \A x \in LockableRows : ~Holds(p, x)'
  PROVE  CallInv(p)'
  BY DEF CallInv, IdleHoldsNothing, KeyClaimed, RecordFound, RequestChecked, RouteFollowed,
         PartiesChecked, WalletsRead, PaymentChecked, KeyHeld, RequestHeld, PartiesResolved,
         FirstHeld, BothHeld

LEMMA ForgetType ==
  ASSUME TypeOK, NEW p \in Calls, Forget(p)
  PROVE  /\ seenBalance' \in [Calls -> [Users -> Int]]
         /\ seenActive' \in [Calls -> SUBSET Users]
         /\ \A q \in Calls \ {p} : seenBalance'[q] = seenBalance[q]
  <1>1. NothingSeen \in [Users -> Int]
    BY DEF NothingSeen
  <1> QED
    BY <1>1 DEF TypeOK, Forget

\* A step of p that writes no committed row keeps the invariant if it keeps
\* what is said of p and leaves the other calls and their locks alone.
LEMMA StepWithoutWrites ==
  ASSUME IInv, NEW p \in Calls, TypeOK', pc[p] # "done",
         \A q \in Calls \ {p} : UNCHANGED <<pc[q], intent[q], seenBalance[q]>>,
         \A q \in Calls \ {p}, x \in LockableRows : Holds(q, x)' <=> Holds(q, x),
         UNCHANGED books,
         CallInv(p)'
  PROVE  IInv'
  <1>1. \A q \in committed : q # p /\ q \in Calls
    BY DEF IInv, CommittedInv, TypeOK
  <1>2. BooksInv'
    BY <1>1, BooksKept
  <1>3. ASSUME NEW q \in Calls \ {p} PROVE CallInv(q)'
    BY OthersKept DEF books
  <1> QED
    BY <1>2, <1>3 DEF IInv, BooksInv

\* So does a step that ends p's transaction without having written.
LEMMA EndWithoutWrites ==
  ASSUME IInv, NEW p \in Calls, TypeOK',
         pc[p] # "done", pc'[p] \in {"claim", "done"},
         \A q \in Calls \ {p} : pc'[q] = pc[q] /\ seenBalance'[q] = seenBalance[q],
         ReleaseAll(p),
         UNCHANGED <<books, intent>>
  PROVE  IInv'
  <1>1. \A x \in LockableRows : ~Holds(p, x)'
    BY ReleaseFrees DEF IInv, TypeOK
  <1>2. \A q \in Calls \ {p}, x \in LockableRows : Holds(q, x)' <=> Holds(q, x)
    BY ReleaseFrees DEF IInv, TypeOK
  <1>3. CallInv(p)'
    BY <1>1, LocklessCall
  <1> QED
    BY <1>2, <1>3, StepWithoutWrites

LEMMA RefuseStep ==
  ASSUME IInv, NEW p \in Calls, pc[p] \in InTransaction, NEW code \in Errors, Refuse(p, code)
  PROVE  IInv'
  <1> USE DEF IInv
  <1>1. TypeOK'
    <2>1. Refusal(code) \in Answers
      BY DEF Refusal, Answers
    <2>2. answer' \in [Calls -> Answers] /\ pc' \in [Calls -> InTransaction \cup {"idle", "done"}]
      BY <2>1 DEF TypeOK, Refuse, Reply
    <2>3. failedAudits' \subseteq Calls
      BY DEF TypeOK, Refuse, AuditFailure
    <2>4. LocksTypeOK'
      BY ReleaseFrees DEF TypeOK, Refuse
    <2>5. /\ seenBalance' \in [Calls -> [Users -> Int]]
          /\ seenActive' \in [Calls -> SUBSET Users]
      BY ForgetType DEF Refuse
    <2> QED
      BY <2>2, <2>3, <2>4, <2>5 DEF TypeOK, Refuse, books, environment
  <1>2. pc[p] # "done" /\ pc'[p] = "done" /\ \A q \in Calls \ {p} : pc'[q] = pc[q]
    BY DEF TypeOK, InTransaction, Refuse, Reply
  <1>3. \A q \in Calls \ {p} : seenBalance'[q] = seenBalance[q]
    BY ForgetType DEF Refuse
  <1> QED
    BY <1>1, <1>2, <1>3, EndWithoutWrites DEF Refuse

LEMMA WriteConflictStep ==
  ASSUME IInv, NEW p \in Calls, WriteConflict(p)
  PROVE  IInv'
  <1> USE DEF IInv
  <1>1. TypeOK'
    <2>1. attempt' \in [Calls -> 1..MaxAttempts]
      BY BoundsAssumption DEF TypeOK, WriteConflict, MayRetry
    <2>2. pc' \in [Calls -> InTransaction \cup {"idle", "done"}]
      BY DEF TypeOK, WriteConflict, InTransaction
    <2>3. LocksTypeOK'
      BY ReleaseFrees DEF TypeOK, WriteConflict
    <2>4. /\ seenBalance' \in [Calls -> [Users -> Int]]
          /\ seenActive' \in [Calls -> SUBSET Users]
      BY ForgetType DEF WriteConflict
    <2> QED
      BY <2>1, <2>2, <2>3, <2>4 DEF TypeOK, WriteConflict, books, environment
  <1>2. pc[p] # "done" /\ pc'[p] = "claim" /\ \A q \in Calls \ {p} : pc'[q] = pc[q]
    BY DEF TypeOK, InTransaction, WriteConflict
  <1>3. \A q \in Calls \ {p} : seenBalance'[q] = seenBalance[q]
    BY ForgetType DEF WriteConflict
  <1> QED
    BY <1>1, <1>2, <1>3, EndWithoutWrites DEF WriteConflict

LEMMA AbortStep ==
  ASSUME IInv, NEW p \in Calls, Abort(p)
  PROVE  IInv'
  BY RefuseStep DEF Abort, Errors

LEMMA LockExistingStep ==
  ASSUME IInv, NEW p \in Calls, LockExisting(p)
  PROVE  IInv'
  <1> USE DEF IInv
  <1>1. CASE ~SameBody(p)
    BY <1>1, RefuseStep DEF LockExisting, Errors, InTransaction
  <1>2. CASE SameBody(p)
    <2>1. records[CallScope(p)].state = "COMPLETED"
      BY IntentFields DEF LockExisting, CallInv, RecordFound, TypeOK
    <2>2. /\ Reply(p, records[CallScope(p)].response)
          /\ ReleaseAll(p)
          /\ UNCHANGED <<books, failedAudits, intent, attempt, snapshot, environment, known>>
      BY <1>2, <2>1 DEF LockExisting
    <2>3. TypeOK'
      <3>1. records[CallScope(p)].response \in Answers
        BY IntentFields DEF TypeOK
      <3>2. answer' \in [Calls -> Answers] /\ pc' \in [Calls -> InTransaction \cup {"idle", "done"}]
        BY <2>2, <3>1 DEF TypeOK, Reply
      <3>3. LocksTypeOK'
        BY <2>2, ReleaseFrees DEF TypeOK
      <3> QED
        BY <2>2, <3>2, <3>3 DEF TypeOK, books, snapshot, environment
    <2>4. pc[p] # "done" /\ pc'[p] = "done" /\ \A q \in Calls \ {p} : pc'[q] = pc[q]
      BY <2>2 DEF TypeOK, LockExisting, Reply
    <2> QED
      BY <2>2, <2>3, <2>4, EndWithoutWrites DEF snapshot
  <1> QED
    BY <1>1, <1>2
-------------------------------------------------------------------------------
(***************************************************************************)
(* Steps inside a transaction.                                             *)
(***************************************************************************)
\* What Advance alone changes, and what it leaves for CallInv(p)'.
LEMMA AdvanceStep ==
  ASSUME IInv, NEW p \in Calls, NEW label \in InTransaction, Advance(p, label),
         pc[p] \in InTransaction,
         LocksTypeOK',
         seenBalance' \in [Calls -> [Users -> Int]],
         seenActive' \in [Calls -> SUBSET Users],
         \A q \in Calls \ {p} : seenBalance'[q] = seenBalance[q],
         \A q \in Calls \ {p}, x \in LockableRows : Holds(q, x)' <=> Holds(q, x),
         CallInv(p)'
  PROVE  IInv'
  <1>1. TypeOK'
    BY DEF IInv, TypeOK, Advance, books, environment
  <1>2. pc[p] # "done" /\ \A q \in Calls \ {p} : UNCHANGED <<pc[q], intent[q]>>
    BY DEF IInv, TypeOK, Advance, InTransaction
  <1> QED
    BY <1>1, <1>2, StepWithoutWrites DEF Advance

LEMMA TryClaimStep ==
  ASSUME IInv, NEW p \in Calls, TryClaim(p)
  PROVE  IInv'
  <1> USE DEF IInv
  <1>1. /\ pc[p] = "claim"
        /\ seenBalance' \in [Calls -> [Users -> Int]]
        /\ seenActive' \in [Calls -> SUBSET Users]
        /\ \A q \in Calls : seenBalance'[q] = seenBalance[q]
    BY DEF TryClaim, snapshot, TypeOK
  <1>2. \A x \in LockableRows : ~Holds(p, x)
    BY <1>1 DEF CallInv, IdleHoldsNothing, KeyHeld
  <1>3. ASSUME records[CallScope(p)].state = "ABSENT",
               Acquire(p, KeyRow(CallScope(p))), Advance(p, NextAfterClaim(p))
        PROVE  IInv'
    <2>1. KeyRow(CallScope(p)) \in LockableRows
      BY IntentFields, RowsDiffer
    <2>2. /\ LocksTypeOK'
          /\ \A q \in Calls \ {p}, x \in LockableRows : Holds(q, x)' <=> Holds(q, x)
      BY <1>3, <2>1, AcquireAdds DEF TypeOK
    <2>6. Holds(p, KeyRow(CallScope(p)))'
      BY <1>3, <2>1, IntentKept DEF Advance, Acquire, Holds, TypeOK, LocksTypeOK
    <2>3. /\ NextAfterClaim(p) \in InTransaction
          /\ pc'[p] = NextAfterClaim(p)
          /\ records'[CallScope(p)'].state = "ABSENT"
      BY <1>3, IntentKept DEF NextAfterClaim, Advance, InTransaction, TypeOK, books
    <2>4. /\ pc'[p] = "resolveWallets" => Route(p) = "transfer"
          /\ pc'[p] = "lockRequest" => Route(p) # "transfer"
          /\ pc'[p] \in {"resolveWallets", "lockRequest"}
      BY <2>3 DEF NextAfterClaim
    <2>5. CallInv(p)'
      BY <1>3, <2>6, <2>3, <2>4, IntentKept
         DEF Advance, CallInv, IdleHoldsNothing, KeyClaimed, RecordFound, RequestChecked, RouteFollowed,
             PartiesChecked, WalletsRead, PaymentChecked, KeyHeld, RequestHeld,
             PartiesResolved, FirstHeld, BothHeld, MovesMoney
    <2> QED
      BY <1>1, <1>3, <2>2, <2>3, <2>5, AdvanceStep DEF InTransaction
  <1>4. ASSUME records[CallScope(p)].state # "ABSENT", Advance(p, "lockRecord"), UNCHANGED lockedBy
        PROVE  IInv'
    <2>1. pc'[p] = "lockRecord" /\ records'[CallScope(p)'].state # "ABSENT"
      BY <1>4, IntentKept DEF Advance, TypeOK, books
    <2>2. /\ LocksTypeOK'
          /\ \A q \in Calls, x \in LockableRows : Holds(q, x)' <=> Holds(q, x)
      BY <1>4 DEF TypeOK, LocksTypeOK, Holds
    <2>3. CallInv(p)'
      BY <1>2, <2>1, <2>2
         DEF CallInv, IdleHoldsNothing, KeyClaimed, RecordFound, RequestChecked, RouteFollowed,
             PartiesChecked, WalletsRead, PaymentChecked, KeyHeld, RequestHeld,
             PartiesResolved, FirstHeld, BothHeld
    <2> QED
      BY <1>1, <1>4, <2>2, <2>3, AdvanceStep DEF InTransaction
  <1> QED
    BY <1>3, <1>4 DEF TryClaim

LEMMA LockRequestStep ==
  ASSUME IInv, NEW p \in Calls, LockRequest(p)
  PROVE  IInv'
  <1> USE DEF IInv
  <1>1. pc[p] = "lockRequest" /\ pc[p] \in InTransaction
    BY DEF LockRequest, InTransaction
  <1>2. CASE \E code \in Errors : Refuse(p, code)
    BY <1>1, <1>2, RefuseStep
  <1>3. ASSUME ActorRole(p) = RequiredRole(p), Pending(Request(p)), HoldRequest(p), UNCHANGED snapshot,
               Advance(p, IF MovesMoney(p) THEN "resolveWallets" ELSE "commit")
        PROVE  IInv'
    <2> DEFINE next == IF MovesMoney(p) THEN "resolveWallets" ELSE "commit"
    <2>1. Route(p) # "transfer" /\ Request(p) \in Requests
      BY <1>1, IntentFields DEF CallInv, RouteFollowed
    <2>2. RequestRow(Request(p)) \in LockableRows /\ KeyRow(CallScope(p)) \in LockableRows
      BY <2>1, IntentFields, RowsDiffer
    <2>3. /\ LocksTypeOK'
          /\ \A x \in LockableRows : Holds(p, x) => Holds(p, x)'
          /\ \A q \in Calls \ {p}, x \in LockableRows : Holds(q, x)' <=> Holds(q, x)
      BY <1>3, <2>2, AcquireAdds DEF TypeOK, HoldRequest
    <2>4. Holds(p, RequestRow(Request(p)))'
      BY <1>3, <2>2, IntentKept DEF Advance, HoldRequest, Acquire, Holds, TypeOK, LocksTypeOK
    <2>5. Holds(p, KeyRow(CallScope(p)))' /\ records'[CallScope(p)'].state = "ABSENT"
      <3>1. Holds(p, KeyRow(CallScope(p))) /\ records[CallScope(p)].state = "ABSENT"
        BY <1>1 DEF CallInv, KeyClaimed, KeyHeld
      <3> QED
        BY <1>3, <2>2, <2>3, <3>1, IntentKept DEF Advance, books, Holds
    <2>6. /\ pc'[p] = next /\ next \in InTransaction /\ next \in {"resolveWallets", "commit"}
          /\ next = "commit" <=> ~MovesMoney(p)
          /\ Pending(Request(p))' /\ ActorRole(p)' = RequiredRole(p)'
          /\ MovesMoney(p)' = MovesMoney(p)
      BY <1>3, IntentKept DEF Advance, InTransaction, TypeOK, books, Pending
    <2>7. CallInv(p)'
      BY <2>4, <2>5, <2>6
         DEF CallInv, IdleHoldsNothing, KeyClaimed, RecordFound, RequestChecked, RouteFollowed,
             PartiesChecked, WalletsRead, PaymentChecked, KeyHeld, RequestHeld,
             PartiesResolved, FirstHeld, BothHeld
    <2> QED
      BY <1>1, <1>3, <2>3, <2>6, <2>7, AdvanceStep DEF snapshot, TypeOK
  <1> QED
    BY <1>2, <1>3 DEF LockRequest, Errors

LEMMA ResolveWalletsStep ==
  ASSUME IInv, NEW p \in Calls, ResolveWallets(p)
  PROVE  IInv'
  <1> USE DEF IInv
  <1>1. pc[p] = "resolveWallets" /\ pc[p] \in InTransaction
    BY DEF ResolveWallets, InTransaction
  <1>2. CASE \E code \in Errors : Refuse(p, code)
    BY <1>1, <1>2, RefuseStep
  <1>3. ASSUME ~ToSelf(p), Receiver(p) \in Users, Advance(p, "lockFirst"),
               UNCHANGED <<snapshot, lockedBy>>
        PROVE  IInv'
    <2>1. /\ LocksTypeOK'
          /\ \A q \in Calls, x \in LockableRows : Holds(q, x)' <=> Holds(q, x)
      BY <1>3 DEF TypeOK, LocksTypeOK, Holds
    <2>2. /\ pc'[p] = "lockFirst" /\ ~ToSelf(p)' /\ Receiver(p)' \in Users
          /\ MovesMoney(p)' = MovesMoney(p)
      BY <1>3, IntentKept DEF Advance, TypeOK
    <2>3. MovesMoney(p) /\ KeyClaimed(p) /\ RequestChecked(p)
      BY <1>1 DEF CallInv, RouteFollowed, RequestHeld, KeyHeld
    <2>4. KeyClaimed(p)'
      BY <1>1, <1>3, <2>3, IntentKept
         DEF KeyClaimed, KeyHeld, Advance, books, Holds
    <2>5. RequestChecked(p)'
      BY <1>1, <1>3, <2>3, IntentKept
         DEF RequestChecked, RequestHeld, KeyHeld, Advance, books, Holds, Pending
    <2>6. CallInv(p)'
      BY <2>2, <2>3, <2>4, <2>5
         DEF CallInv, IdleHoldsNothing, RecordFound, RouteFollowed,
             PartiesChecked, WalletsRead, PaymentChecked, KeyHeld, RequestHeld,
             PartiesResolved, FirstHeld, BothHeld
    <2> QED
      BY <1>1, <1>3, <2>1, <2>6, AdvanceStep DEF snapshot, TypeOK, InTransaction
  <1> QED
    BY <1>2, <1>3 DEF ResolveWallets, Errors

\* The two wallets of a checked payment.
LEMMA WalletsOfPayment ==
  ASSUME TypeOK, NEW p \in Calls, ~ToSelf(p), Receiver(p) \in Users
  PROVE  /\ FirstWallet(p) \in Users /\ SecondWallet(p) \in Users
         /\ FirstWallet(p) # SecondWallet(p)
         /\ {FirstWallet(p), SecondWallet(p)} = {Sender(p), Receiver(p)}
  BY IntentFields DEF FirstWallet, SecondWallet, ToSelf

\* lockWalletById locks the row and reads what is committed in it.
LEMMA LockWalletReads ==
  ASSUME IInv, NEW p \in Calls, NEW u \in Users, LockWallet(p, u)
  PROVE  /\ LocksTypeOK'
         /\ \A x \in LockableRows : Holds(p, x) => Holds(p, x)'
         /\ \A q \in Calls \ {p}, x \in LockableRows : Holds(q, x)' <=> Holds(q, x)
         /\ seenBalance' \in [Calls -> [Users -> Int]]
         /\ seenActive' \in [Calls -> SUBSET Users]
         /\ \A q \in Calls \ {p} : seenBalance'[q] = seenBalance[q]
         /\ lockedBy'[WalletRow(u)] = p
         /\ seenBalance'[p][u] = balance[u]
         /\ \A w \in Users \ {u} : seenBalance'[p][w] = seenBalance[p][w]
  <1>1. WalletRow(u) \in LockableRows
    BY RowsDiffer
  <1>2. /\ LocksTypeOK'
        /\ \A x \in LockableRows : Holds(p, x) => Holds(p, x)'
        /\ \A q \in Calls \ {p}, x \in LockableRows : Holds(q, x)' <=> Holds(q, x)
    BY <1>1, AcquireAdds DEF LockWallet, IInv, TypeOK
  <1>3. lockedBy'[WalletRow(u)] = p
    BY <1>1 DEF LockWallet, Acquire, IInv, TypeOK, LocksTypeOK
  <1> QED
    BY <1>2, <1>3 DEF LockWallet, IInv, TypeOK

\* A step inside the transaction that writes nothing committed and frees
\* nothing keeps the key, the request and the parties of the call.
LEMMA ClaimsKept ==
  ASSUME IInv, NEW p \in Calls, NEW label \in PartiesResolved, Advance(p, label),
         pc[p] \in PartiesResolved,
         \A x \in LockableRows : Holds(p, x) => Holds(p, x)'
  PROVE  KeyClaimed(p)' /\ RequestChecked(p)' /\ PartiesChecked(p)'
  <1> USE DEF IInv
  <1>1. pc[p] \in KeyHeld /\ pc[p] \in RequestHeld
    BY DEF PartiesResolved, KeyHeld, RequestHeld
  <1>2. KeyClaimed(p)'
    <2>1. Holds(p, KeyRow(CallScope(p))) /\ records[CallScope(p)].state = "ABSENT"
      BY <1>1 DEF CallInv, KeyClaimed
    <2>2. KeyRow(CallScope(p)) \in LockableRows
      BY IntentFields, RowsDiffer
    <2> QED
      BY <2>1, <2>2, IntentKept DEF KeyClaimed, Advance, books, Holds
  <1>3. RequestChecked(p)'
    <2> SUFFICES ASSUME Route(p) # "transfer"
                 PROVE  Holds(p, RequestRow(Request(p)))' /\ Pending(Request(p))'
                          /\ ActorRole(p)' = RequiredRole(p)'
      BY IntentKept DEF RequestChecked, Advance
    <2>1. Holds(p, RequestRow(Request(p))) /\ Pending(Request(p)) /\ ActorRole(p) = RequiredRole(p)
      BY <1>1 DEF CallInv, RequestChecked
    <2>2. RequestRow(Request(p)) \in LockableRows
      BY IntentFields, RowsDiffer
    <2> QED
      BY <2>1, <2>2, IntentKept DEF Advance, books, Holds, Pending
  <1>4. PartiesChecked(p)'
    BY IntentKept DEF Advance, PartiesChecked, CallInv
  <1> QED
    BY <1>2, <1>3, <1>4

LEMMA LockFirstStep ==
  ASSUME IInv, NEW p \in Calls, LockFirst(p)
  PROVE  IInv'
  <1> USE DEF IInv
  <1>1. pc[p] = "lockFirst" /\ Advance(p, "lockSecond") /\ LockWallet(p, FirstWallet(p))
    BY DEF LockFirst
  <1>2. MovesMoney(p) /\ ~ToSelf(p) /\ Receiver(p) \in Users
    BY <1>1 DEF CallInv, RouteFollowed, PartiesChecked, RequestHeld, KeyHeld, PartiesResolved
  <1>3. FirstWallet(p) \in Users
    BY <1>2, WalletsOfPayment
  <1>4. /\ LocksTypeOK'
        /\ \A x \in LockableRows : Holds(p, x) => Holds(p, x)'
        /\ \A q \in Calls \ {p}, x \in LockableRows : Holds(q, x)' <=> Holds(q, x)
        /\ seenBalance' \in [Calls -> [Users -> Int]]
        /\ seenActive' \in [Calls -> SUBSET Users]
        /\ \A q \in Calls \ {p} : seenBalance'[q] = seenBalance[q]
        /\ lockedBy'[WalletRow(FirstWallet(p))] = p
        /\ seenBalance'[p][FirstWallet(p)] = balance[FirstWallet(p)]
    BY <1>1, <1>3, LockWalletReads
  <1>5. KeyClaimed(p)' /\ RequestChecked(p)' /\ PartiesChecked(p)'
    BY <1>1, <1>4, ClaimsKept DEF PartiesResolved
  <1>6. pc'[p] = "lockSecond" /\ MovesMoney(p)' = MovesMoney(p)
    BY <1>1, IntentKept DEF Advance, TypeOK
  <1>7. WalletsRead(p)'
    BY <1>1, <1>4, <1>6, IntentKept
       DEF WalletsRead, HoldsWallet, Holds, BothHeld, Advance, books
  <1>8. CallInv(p)'
    BY <1>2, <1>5, <1>6, <1>7
       DEF CallInv, IdleHoldsNothing, RecordFound, RouteFollowed, PaymentChecked, KeyHeld, RequestHeld
  <1> QED
    BY <1>1, <1>4, <1>8, AdvanceStep DEF InTransaction

LEMMA LockSecondStep ==
  ASSUME IInv, NEW p \in Calls, LockSecond(p)
  PROVE  IInv'
  <1> USE DEF IInv
  <1>1. pc[p] = "lockSecond" /\ Advance(p, "settle") /\ LockWallet(p, SecondWallet(p))
    BY DEF LockSecond
  <1>2. MovesMoney(p) /\ ~ToSelf(p) /\ Receiver(p) \in Users
    BY <1>1 DEF CallInv, RouteFollowed, PartiesChecked, RequestHeld, KeyHeld, PartiesResolved
  <1>3. /\ SecondWallet(p) \in Users /\ FirstWallet(p) \in Users
        /\ FirstWallet(p) # SecondWallet(p) /\ WalletRow(FirstWallet(p)) \in LockableRows
    BY <1>2, WalletsOfPayment, RowsDiffer
  <1>4. /\ LocksTypeOK'
        /\ \A x \in LockableRows : Holds(p, x) => Holds(p, x)'
        /\ \A q \in Calls \ {p}, x \in LockableRows : Holds(q, x)' <=> Holds(q, x)
        /\ seenBalance' \in [Calls -> [Users -> Int]]
        /\ seenActive' \in [Calls -> SUBSET Users]
        /\ \A q \in Calls \ {p} : seenBalance'[q] = seenBalance[q]
        /\ lockedBy'[WalletRow(SecondWallet(p))] = p
        /\ seenBalance'[p][SecondWallet(p)] = balance[SecondWallet(p)]
        /\ \A w \in Users \ {SecondWallet(p)} : seenBalance'[p][w] = seenBalance[p][w]
    BY <1>1, <1>3, LockWalletReads
  <1>5. KeyClaimed(p)' /\ RequestChecked(p)' /\ PartiesChecked(p)'
    BY <1>1, <1>4, ClaimsKept DEF PartiesResolved
  <1>6. pc'[p] = "settle" /\ MovesMoney(p)' = MovesMoney(p)
    BY <1>1, IntentKept DEF Advance, TypeOK
  <1>9. HoldsWallet(p, FirstWallet(p))
    BY <1>1, <1>2 DEF CallInv, WalletsRead, FirstHeld
  <1>10. /\ lockedBy'[WalletRow(FirstWallet(p))] = p
         /\ seenBalance'[p][FirstWallet(p)] = balance[FirstWallet(p)]
    BY <1>3, <1>4, <1>9 DEF HoldsWallet, Holds
  <1>7. WalletsRead(p)'
    BY <1>1, <1>4, <1>6, <1>10, IntentKept
       DEF WalletsRead, HoldsWallet, Holds, Advance, books
  <1>8. CallInv(p)'
    BY <1>2, <1>5, <1>6, <1>7
       DEF CallInv, IdleHoldsNothing, RecordFound, RouteFollowed, PaymentChecked, KeyHeld, RequestHeld
  <1> QED
    BY <1>1, <1>4, <1>8, AdvanceStep DEF InTransaction

LEMMA SettleStep ==
  ASSUME IInv, NEW p \in Calls, Settle(p)
  PROVE  IInv'
  <1> USE DEF IInv
  <1>1. pc[p] = "settle" /\ pc[p] \in InTransaction
    BY DEF Settle, InTransaction
  <1>2. CASE \E code \in Errors : Refuse(p, code)
    BY <1>1, <1>2, RefuseStep
  <1>3. ASSUME Sufficient(p), WithinLimit(p), Advance(p, "commit"), UNCHANGED <<snapshot, lockedBy>>
        PROVE  IInv'
    <2>1. /\ LocksTypeOK'
          /\ \A q \in Calls, x \in LockableRows : Holds(q, x)' <=> Holds(q, x)
      BY <1>3 DEF TypeOK, LocksTypeOK, Holds
    <2>2. KeyClaimed(p)' /\ RequestChecked(p)' /\ PartiesChecked(p)'
      BY <1>1, <1>3, <2>1, ClaimsKept DEF PartiesResolved
    <2>3. pc'[p] = "commit" /\ MovesMoney(p)' = MovesMoney(p)
      BY <1>3, IntentKept DEF Advance, TypeOK
    <2>4. PaymentChecked(p)'
      BY <1>3, IntentKept
         DEF PaymentChecked, Sufficient, WithinLimit, Advance, books, snapshot
    <2>5. WalletsRead(p)'
      BY <1>1, <1>3, IntentKept
         DEF CallInv, WalletsRead, HoldsWallet, Holds, FirstHeld, BothHeld, Advance, books, snapshot
    <2>6. CallInv(p)'
      BY <2>2, <2>3, <2>4, <2>5
         DEF CallInv, IdleHoldsNothing, RecordFound, RouteFollowed, KeyHeld, RequestHeld
    <2> QED
      BY <1>1, <1>3, <2>1, <2>6, AdvanceStep DEF snapshot, TypeOK, InTransaction
  <1> QED
    BY <1>2, <1>3 DEF Settle, Errors
-------------------------------------------------------------------------------
(***************************************************************************)
(* COMMIT.  What the transaction writes concerns rows it has locked, so it *)
(* is still as the transaction read and checked it.                        *)
(***************************************************************************)
\* What a call about to commit knows of the committed rows.
LEMMA AtCommit ==
  ASSUME IInv, NEW p \in Calls, pc[p] = "commit"
  PROVE  /\ p \notin committed
         /\ Holds(p, KeyRow(CallScope(p))) /\ records[CallScope(p)].state = "ABSENT"
         /\ Route(p) # "transfer" => Holds(p, RequestRow(Request(p))) /\ Pending(Request(p))
         /\ MovesMoney(p) =>
              /\ Sender(p) \in Users /\ Receiver(p) \in Users /\ Sender(p) # Receiver(p)
              /\ HoldsWallet(p, Sender(p)) /\ HoldsWallet(p, Receiver(p))
              /\ balance[Sender(p)] >= Amount(p)
              /\ sent[Sender(p)] + Amount(p) <= SendLimit
  <1> USE DEF IInv
  <1>1. p \notin committed
    BY DEF CommittedInv
  <1>2. Holds(p, KeyRow(CallScope(p))) /\ records[CallScope(p)].state = "ABSENT"
    BY DEF CallInv, KeyClaimed, KeyHeld
  <1>3. Route(p) # "transfer" => Holds(p, RequestRow(Request(p))) /\ Pending(Request(p))
    BY DEF CallInv, RequestChecked, RequestHeld, KeyHeld
  <1>4. ASSUME MovesMoney(p)
        PROVE  /\ Sender(p) \in Users /\ Receiver(p) \in Users /\ Sender(p) # Receiver(p)
               /\ HoldsWallet(p, Sender(p)) /\ HoldsWallet(p, Receiver(p))
               /\ balance[Sender(p)] >= Amount(p)
               /\ sent[Sender(p)] + Amount(p) <= SendLimit
    <2>1. ~ToSelf(p) /\ Receiver(p) \in Users /\ Sender(p) \in Users
      BY <1>4, IntentFields DEF CallInv, PartiesChecked, PartiesResolved
    <2>2. HoldsWallet(p, FirstWallet(p)) /\ HoldsWallet(p, SecondWallet(p))
      BY <1>4 DEF CallInv, WalletsRead, FirstHeld, BothHeld
    <2>3. HoldsWallet(p, Sender(p)) /\ HoldsWallet(p, Receiver(p))
      BY <2>1, <2>2, WalletsOfPayment
    <2>4. Sufficient(p) /\ WithinLimit(p)
      BY <1>4 DEF CallInv, PaymentChecked
    <2> QED
      BY <2>1, <2>3, <2>4 DEF ToSelf, HoldsWallet, Sufficient, WithinLimit
  <1> QED
    BY <1>1, <1>2, <1>3, <1>4

\* What Publish writes has the types of the tables.
LEMMA PublishType ==
  ASSUME IInv, NEW p \in Calls, pc[p] = "commit", Publish(p),
         pc' = [pc EXCEPT ![p] = "done"],
         answer' \in [Calls -> Answers], failedAudits' \subseteq Calls
  PROVE  TypeOK'
  <1> USE DEF IInv
  <1>1. Receipt(p) \in Answers /\ Result(p) \in Codes
    <2>1. Result(p) \in Codes
      BY DEF Result, Codes
    <2>2. seenBalance[p][Sender(p)] - Amount(p) \in Int
      BY IntentFields DEF TypeOK
    <2> QED
      BY <2>1, <2>2 DEF Receipt, Answers
  <1>2. records' \in [Scopes -> [state : {"ABSENT", "COMPLETED"}, body : Bodies \cup {Nobody},
                                 response : Answers]]
    <2>1. CompletedRecord(p) \in [state : {"ABSENT", "COMPLETED"}, body : Bodies \cup {Nobody},
                                  response : Answers]
      BY <1>1, IntentFields DEF CompletedRecord
    <2> QED
      BY <2>1 DEF Publish, TypeOK
  <1>3. requests' \in [Requests -> [status : Codes \cup {"PENDING"}, transfer : Calls \cup {Nobody}]]
    <2>1. CASE Route(p) = "transfer"
      BY <2>1 DEF Publish, TypeOK
    <2>2. CASE Route(p) # "transfer"
      <3>1. Request(p) \in Requests
        BY <2>2, IntentFields
      <3>2. requests[Request(p)].transfer \in Calls \cup {Nobody}
        BY <3>1 DEF TypeOK
      <3>3. [status |-> Result(p),
             transfer |-> IF Route(p) = "accept" THEN p ELSE requests[Request(p)].transfer]
              \in [status : Codes \cup {"PENDING"}, transfer : Calls \cup {Nobody}]
        BY <1>1, <3>2
      <3> QED
        BY <2>2, <3>1, <3>3 DEF Publish, Resolved, TypeOK
    <2> QED
      BY <2>1, <2>2
  <1>4. /\ balance' \in [Users -> Int]
        /\ sent' \in [Users -> Nat]
        /\ committed' \subseteq Calls
    <2>1. CASE MovesMoney(p)
      <3>1. Sender(p) \in Users /\ Receiver(p) \in Users /\ Amount(p) \in Nat
        BY IntentFields, AtCommit, <2>1
      <3>2. Moved(p) \in [Users -> Int]
        BY <3>1 DEF Moved, TypeOK
      <3>3. sent[Sender(p)] + Amount(p) \in Nat
        BY <3>1 DEF TypeOK
      <3>4. /\ balance' = Moved(p)
            /\ sent' = [sent EXCEPT ![Sender(p)] = sent[Sender(p)] + Amount(p)]
            /\ committed' = committed \cup {p}
        BY <2>1 DEF Publish
      <3> QED
        BY <3>2, <3>3, <3>4 DEF TypeOK
    <2>2. CASE ~MovesMoney(p)
      BY <2>2 DEF Publish, TypeOK
    <2> QED
      BY <2>1, <2>2
  <1>5. ledger' \in [Users -> Seq(LedgerEntries)]
    <2>1. ASSUME NEW l \in [Users -> Seq(LedgerEntries)], NEW u, NEW delta \in Int
          PROVE  Post(p, l, u, delta) \in [Users -> Seq(LedgerEntries)]
      <3>1. CASE u \in Users
        <4>1. Entry(p, u, delta) \in LedgerEntries
          BY <3>1 DEF Entry, LedgerEntries, TypeOK
        <4>2. Append(l[u], Entry(p, u, delta)) \in Seq(LedgerEntries)
          BY <3>1, <4>1
        <4> QED
          BY <3>1, <4>2 DEF Post
      <3>2. CASE u \notin Users
        BY <3>2 DEF Post
      <3> QED
        BY <3>1, <3>2
    <2>2. Amount(p) \in Int /\ -Amount(p) \in Int
      BY IntentFields
    <2>3. Posted(p) \in [Users -> Seq(LedgerEntries)]
      BY <2>1, <2>2 DEF Posted, TypeOK
    <2> QED
      BY <2>3 DEF Publish, TypeOK
  <1>6. LocksTypeOK'
    BY ReleaseFrees DEF Publish, TypeOK
  <1>7. seenBalance' \in [Calls -> [Users -> Int]] /\ seenActive' \in [Calls -> SUBSET Users]
    BY ForgetType DEF Publish
  <1>8. pc' \in [Calls -> InTransaction \cup {"idle", "done"}]
    BY DEF TypeOK
  <1> QED
    BY <1>2, <1>3, <1>4, <1>5, <1>6, <1>7, <1>8 DEF TypeOK, Publish, environment

\* Publishing keeps what is said of every other call: the rows written are
\* locked by p, so no other call has locked them.
LEMMA PublishOthers ==
  ASSUME IInv, NEW p \in Calls, pc[p] = "commit", Publish(p),
         pc' = [pc EXCEPT ![p] = "done"], NEW q \in Calls \ {p}
  PROVE  CallInv(q)'
  <1> USE DEF IInv
  <1>1. \A x \in LockableRows : Holds(q, x) => ~Holds(p, x)
    BY DEF Holds
  <1>2. UNCHANGED <<intent[q], pc[q], seenBalance[q]>>
    BY ForgetType DEF Publish, TypeOK
  <1>3. \A x \in LockableRows : Holds(q, x)' <=> Holds(q, x)
    BY ReleaseFrees DEF Publish, TypeOK
  <1>4. \A s \in Scopes : /\ Holds(q, KeyRow(s)) => records'[s] = records[s]
                          /\ records[s].state # "ABSENT" => records'[s].state # "ABSENT"
    BY <1>1, RowsDiffer, AtCommit DEF Publish, CompletedRecord, TypeOK
  <1>5. \A r \in Requests : Holds(q, RequestRow(r)) => requests'[r] = requests[r]
    BY <1>1, RowsDiffer, AtCommit DEF Publish, Resolved, TypeOK
  <1>6. \A u \in Users : Holds(q, WalletRow(u)) => balance'[u] = balance[u] /\ sent'[u] = sent[u]
    <2>1. CASE MovesMoney(p)
      <3>1. \A u \in Users : Holds(q, WalletRow(u)) => u # Sender(p) /\ u # Receiver(p)
        BY <1>1, <2>1, RowsDiffer, AtCommit DEF HoldsWallet
      <3>2. balance' = Moved(p) /\ sent' = [sent EXCEPT ![Sender(p)] = sent[Sender(p)] + Amount(p)]
        BY <2>1 DEF Publish
      <3> QED
        BY <3>1, <3>2 DEF Moved, TypeOK
    <2>2. CASE ~MovesMoney(p)
      BY <2>2 DEF Publish
    <2> QED
      BY <2>1, <2>2
  <1> QED
    BY <1>2, <1>3, <1>4, <1>5, <1>6, OthersKept

\* The ledger pair continues both wallets' running balances, and the relative
\* updates end where it does, because nothing posted since the locked reads.
LEMMA PublishLedger ==
  ASSUME IInv, NEW p \in Calls, pc[p] = "commit", Publish(p)
  PROVE  LedgerAgrees'
  <1> USE DEF IInv
  <1>1. CASE ~MovesMoney(p)
    BY <1>1 DEF Publish, LedgerAgrees, LastAfter
  <1>2. CASE MovesMoney(p)
    <2>1. /\ Sender(p) \in Users /\ Receiver(p) \in Users /\ Sender(p) # Receiver(p)
          /\ seenBalance[p][Sender(p)] = balance[Sender(p)]
          /\ seenBalance[p][Receiver(p)] = balance[Receiver(p)]
          /\ Amount(p) \in Nat
      BY <1>2, AtCommit, IntentFields DEF HoldsWallet
    <2>2. balance' = Moved(p) /\ ledger' = Posted(p)
      BY <1>2 DEF Publish
    <2> SUFFICES ASSUME NEW u \in Users
                 PROVE  /\ \A n \in 1..Len(ledger'[u]) :
                             ledger'[u][n].after = LastAfter(u, n - 1)' + ledger'[u][n].delta
                        /\ balance'[u] = LastAfter(u, Len(ledger[u]))'
      BY DEF LedgerAgrees
    <2>3. /\ \A n \in 1..Len(ledger[u]) :
               ledger[u][n].after = LastAfter(u, n - 1) + ledger[u][n].delta
          /\ balance[u] = LastAfter(u, Len(ledger[u]))
          /\ ledger[u] \in Seq(LedgerEntries) /\ balance[u] \in Int
      BY DEF LedgerAgrees, TypeOK
    <2>4. ASSUME NEW delta \in Int,
                 ledger'[u] = Append(ledger[u], Entry(p, u, delta)),
                 balance'[u] = balance[u] + delta,
                 seenBalance[p][u] = balance[u]
          PROVE  /\ \A n \in 1..Len(ledger'[u]) :
                      ledger'[u][n].after = LastAfter(u, n - 1)' + ledger'[u][n].delta
                 /\ balance'[u] = LastAfter(u, Len(ledger[u]))'
      <3> DEFINE len == Len(ledger[u])
                 After(n) == IF n = 0 THEN Opening[u] ELSE ledger'[u][n].after
      <3>1. /\ len \in Nat /\ Len(ledger'[u]) = len + 1
            /\ \A n \in 1..len : ledger'[u][n] = ledger[u][n]
            /\ ledger'[u][len + 1] = Entry(p, u, delta)
        BY <2>3, <2>4
      <3>2. \A n \in 0..len : After(n) = LastAfter(u, n)
        BY <3>1 DEF LastAfter
      <3>3. \A n \in 1..len : ledger'[u][n].after = After(n - 1) + ledger'[u][n].delta
        <4>1. \A n \in 1..len : n - 1 \in 0..len
          BY <3>1
        <4> HIDE DEF After
        <4> QED
          BY <2>3, <3>1, <3>2, <4>1
      <3>4. ledger'[u][len + 1].after = balance[u] + delta /\ ledger'[u][len + 1].delta = delta
        BY <2>4, <3>1 DEF Entry
      <3>5. After(len) = balance[u] /\ After(len + 1) = balance'[u]
        BY <2>3, <2>4, <3>1, <3>2, <3>4
      <3>6. \A n \in 1..(len + 1) : ledger'[u][n].after = After(n - 1) + ledger'[u][n].delta
        BY <3>1, <3>3, <3>4, <3>5
      <3>7. /\ \A n : LastAfter(u, n)' = After(n)
            /\ LastAfter(u, Len(ledger[u]))' = After(len + 1)
        BY <3>1 DEF LastAfter
      <3> QED
        BY <3>1, <3>5, <3>6, <3>7
    <2>5. CASE u = Sender(p)
      <3>1. /\ ledger'[u] = Append(ledger[u], Entry(p, u, -Amount(p)))
            /\ balance'[u] = balance[u] + (-Amount(p))
        BY <2>1, <2>2, <2>3, <2>5 DEF Posted, Post, Moved, TypeOK
      <3> QED
        BY <2>1, <2>4, <2>5, <3>1
    <2>6. CASE u = Receiver(p)
      <3>1. /\ ledger'[u] = Append(ledger[u], Entry(p, u, Amount(p)))
            /\ balance'[u] = balance[u] + Amount(p)
        BY <2>1, <2>2, <2>3, <2>6 DEF Posted, Post, Moved, TypeOK
      <3> QED
        BY <2>1, <2>4, <2>6, <3>1
    <2>7. CASE u \notin {Sender(p), Receiver(p)}
      <3>1. ledger'[u] = ledger[u] /\ balance'[u] = balance[u]
        BY <2>1, <2>2, <2>7 DEF Posted, Post, Moved, TypeOK
      <3> QED
        BY <2>3, <3>1 DEF LastAfter
    <2> QED
      BY <2>5, <2>6, <2>7
  <1> QED
    BY <1>1, <1>2

\* Publishing keeps what is said of the committed rows: the key was unused, the
\* request PENDING, and the sender within the limit, all under p's locks.
LEMMA PublishBooks ==
  ASSUME IInv, NEW p \in Calls, pc[p] = "commit", Publish(p),
         pc' = [pc EXCEPT ![p] = "done"]
  PROVE  BooksInv'
  <1> USE DEF IInv
  <1>1. \A q \in Calls : intent'[q] = intent[q]
    BY DEF Publish
  <1>2. /\ \A q \in Calls : /\ CallScope(q)' = CallScope(q) /\ MovesMoney(q)' = MovesMoney(q)
                            /\ Route(q)' = Route(q) /\ Request(q)' = Request(q)
        /\ committed \subseteq Calls /\ committed' \subseteq Calls
        /\ committed' = IF MovesMoney(p) THEN committed \cup {p} ELSE committed
    BY <1>1, IntentKept DEF Publish, TypeOK
  <1>3. /\ CallScope(p) \in Scopes /\ records[CallScope(p)].state = "ABSENT"
        /\ \A s \in Scopes : records'[s] = IF s = CallScope(p) THEN CompletedRecord(p) ELSE records[s]
        /\ CompletedRecord(p).state = "COMPLETED"
    BY AtCommit, IntentFields DEF Publish, CompletedRecord, TypeOK
  <1>4. CommittedInv'
    <2> SUFFICES ASSUME NEW q \in committed'
                 PROVE  pc'[q] = "done" /\ MovesMoney(q) /\ records'[CallScope(q)].state = "COMPLETED"
      BY <1>2 DEF CommittedInv
    <2>1. CallScope(q) \in Scopes
      BY <1>2, IntentFields
    <2> QED
      BY <1>2, <1>3, <2>1 DEF CommittedInv, TypeOK
  <1>5. UnusedInv'
    BY <1>3 DEF UnusedInv
  <1>6. OnePaymentPerKey'
    <2>1. \A q \in committed : CallScope(q) # CallScope(p)
      BY <1>3 DEF CommittedInv
    <2> QED
      BY <1>2, <2>1 DEF OnePaymentPerKey
  <1>7. SendLimitHolds'
    <2>1. CASE MovesMoney(p)
      <3>1. sent' = [sent EXCEPT ![Sender(p)] = sent[Sender(p)] + Amount(p)]
        BY <2>1 DEF Publish
      <3>2. sent[Sender(p)] + Amount(p) <= SendLimit
        BY <2>1, AtCommit
      <3> QED
        BY <3>1, <3>2 DEF SendLimitHolds, TypeOK
    <2>2. CASE ~MovesMoney(p)
      BY <2>2 DEF SendLimitHolds, Publish
    <2> QED
      BY <2>1, <2>2
  <1>8. AcceptedMeansPaidOnce'
    <2> SUFFICES ASSUME NEW r \in Requests
                 PROVE  Settlements(r)' = IF requests'[r].status = "ACCEPTED"
                                          THEN {requests'[r].transfer} ELSE {}
      BY DEF AcceptedMeansPaidOnce
    <2>1. Settlements(r) = IF requests[r].status = "ACCEPTED" THEN {requests[r].transfer} ELSE {}
      BY DEF AcceptedMeansPaidOnce
    <2>2. Settlements(r)' = Settlements(r) \cup
            (IF Route(p) = "accept" /\ Request(p) = r THEN {p} ELSE {})
      BY <1>2 DEF Settlements, MovesMoney
    <2>3. CASE Route(p) # "transfer" /\ Request(p) = r
      <3>1. Settlements(r) = {}
        BY <2>1, <2>3, AtCommit DEF Pending
      <3>2. requests'[r].status = Result(p)
            /\ (Route(p) = "accept" => requests'[r].transfer = p)
        BY <2>3 DEF Publish, Resolved, TypeOK
      <3>3. Route(p) \in Resolutions
        BY <2>3, IntentFields
      <3>4. Result(p) = "ACCEPTED" <=> Route(p) = "accept"
        BY <3>3 DEF Result, Resolutions
      <3> QED
        BY <2>2, <2>3, <3>1, <3>2, <3>4
    <2>4. CASE Route(p) = "transfer" \/ Request(p) # r
      <3>1. requests'[r] = requests[r]
        BY <2>4 DEF Publish, Resolved, TypeOK
      <3> QED
        BY <2>1, <2>2, <2>4, <3>1
    <2> QED
      BY <2>3, <2>4
  <1> QED
    BY <1>4, <1>5, <1>6, <1>7, <1>8, PublishLedger DEF BooksInv

LEMMA PublishStep ==
  ASSUME IInv, NEW p \in Calls, pc[p] = "commit", Publish(p),
         pc' = [pc EXCEPT ![p] = "done"],
         answer' \in [Calls -> Answers], failedAudits' \subseteq Calls
  PROVE  IInv'
  <1>1. TypeOK'
    BY PublishType
  <1>2. BooksInv'
    BY PublishBooks
  <1>3. CallInv(p)'
    <2>1. \A x \in LockableRows : ~Holds(p, x)'
      BY ReleaseFrees DEF IInv, TypeOK, Publish
    <2>2. pc'[p] = "done"
      BY DEF IInv, TypeOK
    <2> QED
      BY <2>1, <2>2, LocklessCall
  <1>4. ASSUME NEW q \in Calls \ {p} PROVE CallInv(q)'
    BY PublishOthers
  <1> QED
    BY <1>1, <1>2, <1>3, <1>4 DEF IInv, BooksInv

LEMMA CommitStep ==
  ASSUME IInv, NEW p \in Calls, Commit(p)
  PROVE  IInv'
  <1>1. Receipt(p) \in Answers
    <2>1. seenBalance[p][Sender(p)] - Amount(p) \in Int
      BY IntentFields DEF IInv, TypeOK
    <2> QED
      BY <2>1 DEF Receipt, Result, Answers, Codes
  <1>2. answer' \in [Calls -> Answers] /\ failedAudits' \subseteq Calls
    BY <1>1 DEF IInv, TypeOK, Commit, Reply
  <1> QED
    BY <1>2, PublishStep DEF Commit, Reply

LEMMA CommitUnacknowledgedStep ==
  ASSUME IInv, NEW p \in Calls, CommitUnacknowledged(p)
  PROVE  IInv'
  <1>1. Refusal("INTERNAL_ERROR") \in Answers
    BY DEF Refusal, Answers, Errors
  <1>2. answer' \in [Calls -> Answers] /\ failedAudits' \subseteq Calls
    BY <1>1 DEF IInv, TypeOK, CommitUnacknowledged, Reply, AuditFailure
  <1> QED
    BY <1>2, PublishStep DEF CommitUnacknowledged, Reply
-------------------------------------------------------------------------------
(***************************************************************************)
(* The remaining steps.                                                    *)
(***************************************************************************)
LEMMA SubmitStep ==
  ASSUME IInv, NEW p \in Calls, Submit(p)
  PROVE  IInv'
  <1> USE DEF IInv
  <1>1. TypeOK'
    <2>1. intent' \in [Calls -> Intents]
      BY DEF Submit, TypeOK
    <2>2. attempt' \in [Calls -> 1..MaxAttempts] /\ known' \in
            [Calls -> [active : SUBSET Users, expired : SUBSET Requests]]
      BY BoundsAssumption DEF Submit, TypeOK
    <2>3. pc' \in [Calls -> InTransaction \cup {"idle", "done"}]
      BY DEF Submit, TypeOK, InTransaction
    <2> QED
      BY <2>1, <2>2, <2>3 DEF Submit, TypeOK, LocksTypeOK, books, snapshot, environment
  <1>2. pc[p] = "idle" /\ pc'[p] = "claim"
    BY DEF Submit, TypeOK
  <1>3. \A q \in Calls, x \in LockableRows : Holds(q, x)' <=> Holds(q, x)
    BY DEF Submit, Holds
  <1>4. CallInv(p)'
    BY <1>2, <1>3, LocklessCall DEF CallInv, IdleHoldsNothing, KeyHeld
  <1>5. \A q \in Calls \ {p} : UNCHANGED <<pc[q], intent[q], seenBalance[q]>>
    BY DEF Submit, TypeOK, snapshot
  <1> QED
    BY <1>1, <1>2, <1>3, <1>4, <1>5, StepWithoutWrites DEF Submit

\* A step of the environment, or none at all.
LEMMA EnvironmentStep ==
  ASSUME IInv, UNCHANGED <<books, failedAudits, pc, intent, attempt, snapshot, answer, lockedBy, known>>,
         active' \subseteq Users, expired' \subseteq Requests
  PROVE  IInv'
  <1> USE DEF IInv
  <1>1. TypeOK'
    BY DEF TypeOK, LocksTypeOK, books, snapshot
  <1>2. BooksInv'
    BY BooksKept
  <1>3. ASSUME NEW q \in Calls PROVE CallInv(q)'
    <2>1. \A x \in LockableRows : Holds(q, x)' <=> Holds(q, x)
      BY DEF Holds
    <2> QED
      BY <2>1, OthersKept DEF books, snapshot
  <1> QED
    BY <1>1, <1>2, <1>3 DEF BooksInv

\* Every step keeps the invariant.
LEMMA NextIInv ==
  ASSUME IInv, [Next]_vars
  PROVE  IInv'
  <1>1. ASSUME NEW p \in Calls, Submit(p) PROVE IInv'
    BY <1>1, SubmitStep
  <1>2. ASSUME NEW p \in Calls, Proceed(p) PROVE IInv'
    BY <1>2, TryClaimStep, LockExistingStep, LockRequestStep, ResolveWalletsStep,
       LockFirstStep, LockSecondStep, SettleStep, CommitStep DEF Proceed
  <1>3. ASSUME NEW p \in Calls, CommitUnacknowledged(p) \/ WriteConflict(p) \/ Abort(p) PROVE IInv'
    BY <1>3, CommitUnacknowledgedStep, WriteConflictStep, AbortStep
  <1>4. ASSUME NEW u \in Users, Suspend(u) PROVE IInv'
    BY <1>4, EnvironmentStep DEF Suspend, IInv, TypeOK
  <1>5. ASSUME NEW r \in Requests, Expire(r) PROVE IInv'
    BY <1>5, EnvironmentStep DEF Expire, IInv, TypeOK
  <1>6. CASE UNCHANGED vars
    BY <1>6, EnvironmentStep DEF vars, environment, IInv, TypeOK
  <1> QED
    BY <1>1, <1>2, <1>3, <1>4, <1>5, <1>6 DEF Next, AllDone

THEOREM Invariance == Spec => []IInv
  BY InitIInv, NextIInv, PTL DEF Spec
-------------------------------------------------------------------------------
(***************************************************************************)
(* The results.                                                            *)
(***************************************************************************)
\* Every variable keeps its type.
THEOREM TypeCorrect == Spec => []TypeOK
  BY Invariance, PTL DEF IInv

\* The ledger always explains every balance: TransferService.settle computes the
\* entries from locked reads and moves the wallets by relative updates.
THEOREM LedgerAlwaysAgrees == Spec => []LedgerAgrees
  BY Invariance, PTL DEF IInv

\* No sender ever exceeds the send limit: assertWithinLimits runs under the lock
\* of the sender's wallet.
THEOREM SendLimitAlwaysHolds == Spec => []SendLimitHolds
  BY Invariance, PTL DEF IInv

\* An idempotency key never pays twice.
THEOREM KeyPaysOnce == Spec => []OnePaymentPerKey
  BY Invariance, PTL DEF IInv

\* A request is ACCEPTED exactly when one transfer settled it, the one it links.
THEOREM AcceptedPaidOnce == Spec => []AcceptedMeansPaidOnce
  BY Invariance, PTL DEF IInv

\* The CHECK constraint behind applyBalanceDelta never fires: what
\* assertAmountAndBalance read under the lock is still so at the write.
THEOREM CheckNeverFires == Spec => []CheckConstraintIdle
  <1>1. IInv => CheckConstraintIdle
    BY AtCommit DEF CheckConstraintIdle
  <1> QED
    BY <1>1, Invariance, PTL

\* Of racing accept, decline and cancel calls exactly one decides a request.
THEOREM DecisionsAreFinal == Spec => ResolvedForGood
  <1> DEFINE Kept == \A r \in Requests : requests[r].status # "PENDING" => requests'[r] = requests[r]
  <1>1. ASSUME IInv, [Next]_vars PROVE [Kept]_requests
    <2>1. ASSUME NEW p \in Calls, pc[p] = "commit", Publish(p) PROVE Kept
      <3>1. Route(p) # "transfer" => requests[Request(p)].status = "PENDING"
        BY <1>1, <2>1, AtCommit DEF Pending
      <3> QED
        BY <1>1, <2>1, <3>1 DEF Publish, Resolved, IInv, TypeOK
    <2>2. ASSUME NEW p \in Calls,
                 Submit(p) \/ Proceed(p) \/ CommitUnacknowledged(p) \/ WriteConflict(p) \/ Abort(p),
                 ~(pc[p] = "commit" /\ Publish(p))
          PROVE  UNCHANGED requests
      BY <2>2 DEF Submit, Proceed, CommitUnacknowledged, WriteConflict, Abort, TryClaim, LockExisting,
         LockRequest, ResolveWallets, LockFirst, LockSecond, Settle, Commit, Advance, Refuse, books
    <2>3. ASSUME NEW u, Suspend(u) \/ Expire(u) PROVE UNCHANGED requests
      BY <2>3 DEF Suspend, Expire, books
    <2>4. CASE UNCHANGED vars
      BY <2>4 DEF vars, books
    <2> QED
      BY <1>1, <2>1, <2>2, <2>3, <2>4 DEF Next, AllDone
  <1> QED
    BY <1>1, Invariance, PTL DEF Spec, ResolvedForGood
-------------------------------------------------------------------------------
\* The committed rows are written by COMMIT and by nothing else.
LEMMA OnlyCommitWrites ==
  ASSUME [Next]_vars
  PROVE  \/ UNCHANGED books
         \/ \E p \in Calls : Commit(p) \/ CommitUnacknowledged(p)
  <1>1. ASSUME NEW p \in Calls, Submit(p) \/ WriteConflict(p) \/ Abort(p)
        PROVE  UNCHANGED books
    BY <1>1 DEF Submit, WriteConflict, Abort, Refuse, books
  <1>2. ASSUME NEW p \in Calls, Proceed(p), ~Commit(p)
        PROVE  UNCHANGED books
    BY <1>2 DEF Proceed, TryClaim, LockExisting, LockRequest, ResolveWallets, LockFirst,
       LockSecond, Settle, Advance, Refuse, books
  <1>3. ASSUME NEW u, Suspend(u) \/ Expire(u) PROVE UNCHANGED books
    BY <1>3 DEF Suspend, Expire, books
  <1>4. CASE UNCHANGED vars
    BY <1>4 DEF vars, books
  <1> QED
    BY <1>1, <1>2, <1>3, <1>4 DEF Next, AllDone
-------------------------------------------------------------------------------
(***************************************************************************)
(* PaymentBook                                                             *)
(***************************************************************************)
\* COMMIT is the step of PaymentBook for the intent of the call.
LEMMA PublishIsABookStep ==
  ASSUME IInv, NEW p \in Calls, pc[p] = "commit", Publish(p)
  PROVE  Book!Next
  <1> USE DEF IInv
  <1>0. PICK i \in Intents : i = intent[p]
    BY IntentFields
  <1> DEFINE used == [s \in Scopes |-> records[s].body]
             status == [r \in Requests |-> requests[r].status]
  <1>1. CallScope(p) \in Scopes /\ CallScope(p) = Book!Key(i)
    BY <1>0, IntentFields DEF Book!Key, CallScope, Scope
  <1>2. Book!Spend(i)
    <2>1. used[CallScope(p)] = Nobody
      BY <1>1, AtCommit DEF UnusedInv
    <2>2. \A s \in Scopes : records'[s].body = IF s = CallScope(p) THEN i.body ELSE records[s].body
      BY <1>0, <1>1 DEF Publish, CompletedRecord, TypeOK, Body
    <2>3. used' = [used EXCEPT ![CallScope(p)] = i.body]
      BY <2>2
    <2> QED
      BY <1>1, <2>1, <2>3 DEF Book!Spend
  <1>3. Route(p) # "transfer" =>
          /\ Request(p) \in Requests /\ requests[Request(p)].status = "PENDING"
          /\ status' = [status EXCEPT ![Request(p)] = Result(p)]
          /\ ActorRole(p) = RequiredRole(p)
    <2> SUFFICES ASSUME Route(p) # "transfer"
                 PROVE  /\ Request(p) \in Requests /\ requests[Request(p)].status = "PENDING"
                        /\ status' = [status EXCEPT ![Request(p)] = Result(p)]
                        /\ ActorRole(p) = RequiredRole(p)
      OBVIOUS
    <2>1. Request(p) \in Requests /\ requests[Request(p)].status = "PENDING"
      BY IntentFields, AtCommit DEF Pending
    <2>2. \A r \in Requests :
            requests'[r].status = IF r = Request(p) THEN Result(p) ELSE requests[r].status
      BY <2>1 DEF Publish, Resolved, TypeOK
    <2>3. ActorRole(p) = RequiredRole(p)
      BY DEF CallInv, RequestChecked, RequestHeld, KeyHeld
    <2> QED
      BY <2>1, <2>2, <2>3
  <1>4. MovesMoney(p) => Book!Pay(Sender(p), Receiver(p), Amount(p))
    BY AtCommit DEF Book!Pay, Publish, Moved
  <1>5. Route(p) = "transfer" => UNCHANGED status
    BY DEF Publish
  <1>6. ~MovesMoney(p) => UNCHANGED <<balance, sent>>
    BY DEF Publish
  <1>7. CASE Route(p) = "transfer"
    <2>1. Book!Transfer(i)
      BY <1>0, <1>2, <1>4, <1>5, <1>7
         DEF Book!Transfer, MovesMoney, Sender, Receiver, Amount, Route, Actor, Body
    <2> QED
      BY <2>1 DEF Book!Next
  <1>8. CASE Route(p) = "accept"
    <2>1. Actor(p) = Terms[Request(p)].payer
      BY <1>3, <1>8 DEF ActorRole, RequiredRole
    <2>2. Result(p) = "ACCEPTED"
      BY <1>8 DEF Result
    <2>3. Book!Settle(Request(p), "ACCEPTED")
      BY <1>3, <1>8, <2>2 DEF Book!Settle
    <2>4. Book!Accept(i)
      BY <1>0, <1>2, <1>4, <1>8, <2>1, <2>3
         DEF Book!Accept, MovesMoney, Sender, Receiver, Amount, Route, Actor, Body, Request
    <2> QED
      BY <2>4 DEF Book!Next
  <1>9. CASE Route(p) = "decline"
    <2>1. Actor(p) = Terms[Request(p)].payer
      BY <1>3, <1>9 DEF ActorRole, RequiredRole
    <2>2. Result(p) = "DECLINED"
      BY <1>9 DEF Result
    <2>3. Book!Settle(Request(p), "DECLINED")
      BY <1>3, <1>9, <2>2 DEF Book!Settle
    <2>4. Book!Decline(i)
      BY <1>0, <1>2, <1>6, <1>9, <2>1, <2>3 DEF Book!Decline, MovesMoney, Route, Actor, Body, Request
    <2> QED
      BY <2>4 DEF Book!Next
  <1>10. CASE Route(p) = "cancel"
    <2>1. Actor(p) = Terms[Request(p)].requester
      BY <1>3, <1>10 DEF ActorRole, RequiredRole
    <2>2. Result(p) = "CANCELLED"
      BY <1>10 DEF Result
    <2>3. Book!Settle(Request(p), "CANCELLED")
      BY <1>3, <1>10, <2>2 DEF Book!Settle
    <2>4. Book!Cancel(i)
      BY <1>0, <1>2, <1>6, <1>10, <2>1, <2>3 DEF Book!Cancel, MovesMoney, Route, Actor, Body, Request
    <2> QED
      BY <2>4 DEF Book!Next
  <1> QED
    BY <1>7, <1>8, <1>9, <1>10, IntentFields DEF Resolutions

\* Whatever the interleaving, the money, the limits, the requests and the keys
\* change as if each intent took effect in one indivisible step, at most once.
THEOREM PaymentBookImplemented == Spec => ImplementsPaymentBook
  <1>1. Init => Book!Init
    BY DEF Init, Book!Init, Absent, Book!Keys, Book!Key, Scopes, Scope
  <1>2. ASSUME IInv, [Next]_vars PROVE [Book!Next]_(Book!bookVars)
    <2>1. UNCHANGED books => UNCHANGED Book!bookVars
      BY DEF books, Book!bookVars
    <2>2. ASSUME NEW p \in Calls, Commit(p) \/ CommitUnacknowledged(p) PROVE Book!Next
      BY <1>2, <2>2, PublishIsABookStep DEF Commit, CommitUnacknowledged
    <2> QED
      BY <1>2, <2>1, <2>2, OnlyCommitWrites
  <1> QED
    BY <1>1, <1>2, Invariance, PTL DEF Spec, ImplementsPaymentBook, Book!Spec
-------------------------------------------------------------------------------
(***************************************************************************)
(* Accounts and expiry                                                     *)
(***************************************************************************)
\* A step of another call, or of the environment, keeps what is said of q:
\* suspensions and expiries are for good.
LEMMA StandingKept ==
  ASSUME NEW q \in Calls, Standing(q),
         UNCHANGED <<pc[q], intent[q], seenActive[q], known[q]>>,
         active' \subseteq active, expired \subseteq expired'
  PROVE  Standing(q)'
  BY IntentKept DEF Standing

\* The steps of a call leave the others, the accounts and the requests' expiry
\* alone.
LEMMA CallLeavesOthers ==
  ASSUME TypeOK, NEW p \in Calls,
         Submit(p) \/ Proceed(p) \/ CommitUnacknowledged(p) \/ WriteConflict(p) \/ Abort(p)
  PROVE  /\ \A q \in Calls \ {p} : UNCHANGED <<pc[q], intent[q], seenActive[q], known[q], answer[q]>>
         /\ UNCHANGED environment
         /\ pc[p] # "done"
         /\ pc[p] # "idle" => UNCHANGED <<intent[p], known[p]>>
  <1> USE DEF TypeOK, environment
  <1>1. CASE Submit(p)
    BY <1>1 DEF Submit, snapshot
  <1>2. ASSUME NEW code, pc[p] \in InTransaction, Refuse(p, code)
        PROVE  /\ \A q \in Calls \ {p} :
                    UNCHANGED <<pc[q], intent[q], seenActive[q], known[q], answer[q]>>
               /\ UNCHANGED <<environment, intent, known>>
               /\ pc[p] # "done"
    BY <1>2 DEF Refuse, Reply, Forget, InTransaction
  <1>3. ASSUME NEW label, pc[p] \in InTransaction, Advance(p, label),
               \A q \in Calls \ {p} : UNCHANGED seenActive[q]
        PROVE  /\ \A q \in Calls \ {p} :
                    UNCHANGED <<pc[q], intent[q], seenActive[q], known[q], answer[q]>>
               /\ UNCHANGED <<environment, intent, known>>
               /\ pc[p] # "done"
    BY <1>3 DEF Advance, InTransaction
  <1>4. CASE TryClaim(p)
    BY <1>3, <1>4 DEF TryClaim, snapshot, InTransaction
  <1>5. CASE LockExisting(p)
    <2>1. pc[p] \in InTransaction
      BY <1>5 DEF LockExisting, InTransaction
    <2>2. CASE SameBody(p) /\ records[CallScope(p)].state = "COMPLETED"
      BY <1>5, <2>1, <2>2 DEF LockExisting, Reply, snapshot, InTransaction
    <2> QED
      BY <1>2, <1>3, <1>5, <2>1, <2>2 DEF LockExisting, snapshot
  <1>6. CASE LockRequest(p)
    BY <1>2, <1>3, <1>6 DEF LockRequest, snapshot, InTransaction
  <1>7. CASE ResolveWallets(p)
    BY <1>2, <1>3, <1>7 DEF ResolveWallets, snapshot, InTransaction
  <1>8. CASE LockFirst(p) \/ LockSecond(p)
    BY <1>3, <1>8 DEF LockFirst, LockSecond, LockWallet, InTransaction
  <1>9. CASE Settle(p)
    BY <1>2, <1>3, <1>9 DEF Settle, snapshot, InTransaction
  <1>10. CASE Commit(p) \/ CommitUnacknowledged(p)
    BY <1>10 DEF Commit, CommitUnacknowledged, Publish, Reply, Forget, InTransaction
  <1>11. CASE WriteConflict(p)
    BY <1>11 DEF WriteConflict, Forget, InTransaction
  <1>12. CASE Abort(p)
    BY <1>2, <1>12 DEF Abort
  <1> QED
    BY <1>1, <1>4, <1>5, <1>6, <1>7, <1>8, <1>9, <1>10, <1>11, <1>12 DEF Proceed

\* A call's own step keeps what is said of it: it reads accounts under the locks
\* of their wallets, and the request's expiry under the lock of the request.
LEMMA StandingStep ==
  ASSUME IInv, NEW p \in Calls, Standing(p),
         Submit(p) \/ Proceed(p) \/ CommitUnacknowledged(p) \/ WriteConflict(p) \/ Abort(p)
  PROVE  Standing(p)'
  <1> USE DEF IInv, TypeOK
  <1>1. UNCHANGED environment /\ (pc[p] # "idle" => UNCHANGED <<intent[p], known[p]>>)
    BY CallLeavesOthers
  <1>2. CASE Submit(p)
    BY <1>2 DEF Submit, Standing, snapshot, environment, RequestHeld, KeyHeld
  <1>3. ASSUME pc[p] # "idle", pc'[p] \in {"claim", "done"}, seenActive'[p] = {}
        PROVE  Standing(p)'
    BY <1>1, <1>3 DEF Standing, environment, RequestHeld, KeyHeld
  <1>4. ASSUME NEW code, pc[p] \in InTransaction, Refuse(p, code)
        PROVE  Standing(p)'
    BY <1>3, <1>4 DEF Refuse, Reply, Forget, InTransaction
  <1>5. ASSUME NEW label \in InTransaction, pc[p] \in InTransaction, Advance(p, label),
               UNCHANGED seenActive[p],
               label = "commit" /\ MovesMoney(p) => {Sender(p), Receiver(p)} \subseteq seenActive[p],
               label \in RequestHeld /\ Route(p) = "accept" =>
                 pc[p] \in RequestHeld \/ Request(p) \notin expired
        PROVE  Standing(p)'
    <2>1. pc[p] # "idle" /\ pc'[p] = label /\ label # "idle"
      BY <1>5 DEF Advance, InTransaction
    <2> QED
      BY <1>1, <1>5, <2>1, IntentKept DEF Standing, environment
  <1>6. CASE TryClaim(p)
    <2>1. pc[p] \in InTransaction /\ UNCHANGED seenActive[p]
      BY <1>6 DEF TryClaim, InTransaction, snapshot
    <2>2. CASE Advance(p, NextAfterClaim(p))
      BY <1>5, <2>1, <2>2 DEF NextAfterClaim, InTransaction, RequestHeld
    <2>3. CASE Advance(p, "lockRecord")
      BY <1>5, <2>1, <2>3 DEF InTransaction, RequestHeld, KeyHeld
    <2> QED
      BY <1>6, <2>2, <2>3 DEF TryClaim
  <1>7. CASE LockExisting(p)
    <2>1. pc[p] \in InTransaction
      BY <1>7 DEF LockExisting, InTransaction
    <2>2. CASE ~SameBody(p)
      BY <1>4, <1>7, <2>1, <2>2 DEF LockExisting
    <2>3. CASE SameBody(p)
      <3>1. records[CallScope(p)].state = "COMPLETED"
        BY <1>7, IntentFields DEF LockExisting, CallInv, RecordFound
      <3>2. pc'[p] = "done" /\ UNCHANGED seenActive[p]
        BY <1>7, <2>3, <3>1 DEF LockExisting, Reply, snapshot
      <3> QED
        BY <1>1, <2>1, <3>2 DEF Standing, environment, RequestHeld, KeyHeld, InTransaction
    <2> QED
      BY <2>2, <2>3
  <1>8. CASE LockRequest(p)
    <2>1. pc[p] \in InTransaction
      BY <1>8 DEF LockRequest, InTransaction
    <2>2. ASSUME NEW code, Refuse(p, code) PROVE Standing(p)'
      BY <1>4, <2>1, <2>2
    <2>3. ASSUME ~TooLate(p), Advance(p, IF MovesMoney(p) THEN "resolveWallets" ELSE "commit"),
                 UNCHANGED snapshot
          PROVE  Standing(p)'
      BY <1>5, <2>1, <2>3 DEF snapshot, TooLate, InTransaction
    <2> QED
      BY <1>8, <2>2, <2>3 DEF LockRequest
  <1>9. CASE ResolveWallets(p)
    <2>1. pc[p] \in InTransaction /\ pc[p] \in RequestHeld
      BY <1>9 DEF ResolveWallets, InTransaction, RequestHeld, KeyHeld
    <2>2. ASSUME Advance(p, "lockFirst"), UNCHANGED snapshot PROVE Standing(p)'
      BY <1>5, <2>1, <2>2 DEF snapshot, InTransaction
    <2> QED
      BY <1>4, <1>9, <2>1, <2>2 DEF ResolveWallets
  <1>10. ASSUME NEW u, NEW label \in {"lockSecond", "settle"}, pc[p] \in {"lockFirst", "lockSecond"},
                LockWallet(p, u), Advance(p, label)
         PROVE  Standing(p)'
    <2>1. /\ pc[p] # "idle" /\ pc[p] \in RequestHeld
          /\ pc'[p] = label /\ label \notin {"idle", "commit"}
          /\ seenActive'[p] = seenActive[p] \cup (active \cap {u})
      BY <1>10 DEF Advance, LockWallet, RequestHeld, KeyHeld
    <2> QED
      BY <1>1, <2>1, IntentKept DEF Standing, environment
  <1>11. CASE LockFirst(p) \/ LockSecond(p)
    BY <1>10, <1>11 DEF LockFirst, LockSecond
  <1>12. CASE Settle(p)
    <2>1. pc[p] \in InTransaction /\ pc[p] \in RequestHeld
      BY <1>12 DEF Settle, InTransaction, RequestHeld, KeyHeld
    <2>2. ASSUME SenderActive(p), ReceiverActive(p), Advance(p, "commit"), UNCHANGED snapshot
          PROVE  Standing(p)'
      BY <1>5, <2>1, <2>2 DEF snapshot, InTransaction, SenderActive, ReceiverActive
    <2> QED
      BY <1>4, <1>12, <2>1, <2>2 DEF Settle
  <1>13. CASE Commit(p) \/ CommitUnacknowledged(p) \/ WriteConflict(p)
    <2>1. pc[p] # "idle" /\ pc'[p] \in {"claim", "done"} /\ seenActive'[p] = {}
      BY <1>13 DEF Commit, CommitUnacknowledged, WriteConflict, Publish, Reply, Forget, InTransaction
    <2> QED
      BY <1>3, <2>1
  <1>14. CASE Abort(p)
    BY <1>4, <1>14 DEF Abort
  <1> QED
    BY <1>2, <1>6, <1>7, <1>8, <1>9, <1>11, <1>12, <1>13, <1>14 DEF Proceed

LEMMA NextStandingInv ==
  ASSUME IInv, StandingInv, [Next]_vars
  PROVE  StandingInv'
  <1> USE DEF IInv, StandingInv
  <1>1. ASSUME NEW p \in Calls,
               Submit(p) \/ Proceed(p) \/ CommitUnacknowledged(p) \/ WriteConflict(p) \/ Abort(p)
        PROVE  \A q \in Calls : Standing(q)'
    <2>1. active' = active /\ expired' = expired
      BY <1>1, CallLeavesOthers DEF environment
    <2>2. \A q \in Calls \ {p} : Standing(q)'
      BY <1>1, <2>1, CallLeavesOthers, StandingKept
    <2> QED
      BY <1>1, <2>2, StandingStep
  <1>2. ASSUME UNCHANGED <<pc, intent, seenActive, known>>,
               active' \subseteq active, expired \subseteq expired'
        PROVE  \A q \in Calls : Standing(q)'
    BY <1>2, StandingKept
  <1>3. \A q \in Calls : Standing(q)'
    <2>1. ASSUME NEW u, Suspend(u) \/ Expire(u) PROVE \A q \in Calls : Standing(q)'
      BY <1>2, <2>1 DEF Suspend, Expire, snapshot
    <2>2. CASE UNCHANGED vars
      BY <1>2, <2>2 DEF vars, snapshot, environment
    <2> QED
      BY <1>1, <2>1, <2>2 DEF Next, AllDone
  <1>4. ASSUME NEW q \in committed
        PROVE  UNCHANGED <<intent[q], known[q]>>
    <2>1. q \in Calls /\ pc[q] = "done"
      BY DEF CommittedInv, TypeOK
    <2> QED
      BY <2>1, CallLeavesOthers DEF Next, AllDone, Suspend, Expire, vars, environment
  <1>5. ASSUME NEW p \in Calls, Commit(p) \/ CommitUnacknowledged(p)
        PROVE  /\ UNCHANGED <<intent[p], known[p]>>
               /\ committed' = IF MovesMoney(p) THEN committed \cup {p} ELSE committed
               /\ MovesMoney(p) => {Sender(p), Receiver(p)} \subseteq known[p].active
               /\ Route(p) = "accept" => Request(p) \notin known[p].expired
    <2>1. pc[p] = "commit"
      BY <1>5 DEF Commit, CommitUnacknowledged
    <2> QED
      BY <1>5, <2>1 DEF Commit, CommitUnacknowledged, Publish, Standing, RequestHeld, KeyHeld
  <1>6. NothingForTheSuspended'
    <2> SUFFICES ASSUME NEW q \in committed'
                 PROVE  /\ {Sender(q)', Receiver(q)'} \subseteq known'[q].active
                        /\ Route(q)' = "accept" => Request(q)' \notin known'[q].expired
      BY DEF NothingForTheSuspended
    <2>1. CASE q \in committed
      <3>1. q \in Calls
        BY <2>1 DEF TypeOK
      <3>2. /\ Sender(q)' = Sender(q) /\ Receiver(q)' = Receiver(q)
            /\ Route(q)' = Route(q) /\ Request(q)' = Request(q)
        BY <1>4, <2>1, <3>1, IntentKept
      <3> QED
        BY <1>4, <2>1, <3>2 DEF NothingForTheSuspended
    <2>2. CASE q \notin committed
      <3>1. PICK p \in Calls : Commit(p) \/ CommitUnacknowledged(p)
        BY <2>2, OnlyCommitWrites DEF books
      <3>2. q = p /\ MovesMoney(p)
        BY <1>5, <2>2, <3>1
      <3> QED
        BY <1>5, <3>1, <3>2, IntentKept
    <2> QED
      BY <2>1, <2>2
  <1> QED
    BY <1>3, <1>6

\* Money never moves for a call made after one of the accounts was suspended or
\* after the request expired: settle re-reads both owners under the wallet
\* locks, runAccept the expiry under the request lock.
THEOREM NeverForTheSuspended == Spec => []NothingForTheSuspended
  <1>1. Init => StandingInv
    BY DEF Init, StandingInv, Standing, NothingForTheSuspended, RequestHeld, KeyHeld
  <1> QED
    BY <1>1, NextStandingInv, Invariance, PTL DEF Spec, StandingInv
-------------------------------------------------------------------------------
(***************************************************************************)
(* Stored answers                                                          *)
(***************************************************************************)
\* A call is answered when its transaction ends: with an error, with what is
\* stored under its key for its body, or with what its COMMIT stores there.
LEMMA HowCallsAreAnswered ==
  ASSUME IInv, NEW p \in Calls,
         Submit(p) \/ Proceed(p) \/ CommitUnacknowledged(p) \/ WriteConflict(p) \/ Abort(p)
  PROVE  \/ UNCHANGED <<answer, books>>
         \/ UNCHANGED books /\ answer'[p].code \notin Codes
         \/ /\ UNCHANGED <<books, intent>> /\ pc'[p] = "done"
            /\ records[CallScope(p)].state = "COMPLETED" /\ SameBody(p)
            /\ answer'[p] = records[CallScope(p)].response
         \/ Commit(p)
         \/ CommitUnacknowledged(p)
  <1> USE DEF IInv, TypeOK
  <1>1. CASE Submit(p) \/ WriteConflict(p)
    BY <1>1 DEF Submit, WriteConflict
  <1>2. ASSUME NEW code \in Errors, Refuse(p, code)
        PROVE  UNCHANGED books /\ answer'[p].code \notin Codes
    BY <1>2 DEF Refuse, Reply, Refusal, Errors, Codes
  <1>3. ASSUME NEW label, Advance(p, label)
        PROVE  UNCHANGED <<answer, books>>
    BY <1>3 DEF Advance
  <1>4. CASE TryClaim(p) \/ LockFirst(p) \/ LockSecond(p)
    BY <1>3, <1>4 DEF TryClaim, LockFirst, LockSecond
  <1>5. CASE LockExisting(p)
    <2>1. records[CallScope(p)].state = "COMPLETED"
      BY <1>5, IntentFields DEF LockExisting, CallInv, RecordFound
    <2>2. CASE ~SameBody(p)
      BY <1>2, <1>5, <2>2 DEF LockExisting, Errors
    <2>3. CASE SameBody(p)
      BY <1>5, <2>1, <2>3 DEF LockExisting, Reply
    <2> QED
      BY <2>2, <2>3
  <1>6. CASE LockRequest(p) \/ ResolveWallets(p) \/ Settle(p)
    BY <1>2, <1>3, <1>6 DEF LockRequest, ResolveWallets, Settle, Errors
  <1>7. CASE Abort(p)
    BY <1>2, <1>7 DEF Abort, Errors
  <1> QED
    BY <1>1, <1>4, <1>5, <1>6, <1>7 DEF Proceed

\* A step that writes no committed row keeps the stored responses: finished
\* calls stay as they are.
LEMMA StoredKept ==
  ASSUME IInv, StoredInv, UNCHANGED books,
         \A q \in Calls : pc[q] = "done" => UNCHANGED <<pc[q], intent[q]>>
  PROVE  \A s \in Scopes : Stored(s)'
  BY IntentKept DEF StoredInv, Stored, books

\* COMMIT stores a response that names its own call and leaves the others'.
LEMMA PublishStores ==
  ASSUME IInv, StoredInv, NEW p \in Calls, Commit(p) \/ CommitUnacknowledged(p)
  PROVE  /\ \A s \in Scopes : Stored(s)'
         /\ \A s \in Scopes : records[s].state = "COMPLETED" => records'[s] = records[s]
         /\ records'[CallScope(p)] = CompletedRecord(p)
         /\ UNCHANGED intent /\ pc'[p] = "done"
  <1> USE DEF IInv, TypeOK
  <1>1. /\ pc[p] = "commit" /\ Publish(p)
        /\ pc' = [pc EXCEPT ![p] = "done"] /\ UNCHANGED intent
    BY DEF Commit, CommitUnacknowledged, Reply, Publish
  <1>2. CallScope(p) \in Scopes /\ records[CallScope(p)].state = "ABSENT"
    BY <1>1, IntentFields, AtCommit
  <1>3. \A s \in Scopes : records'[s] = IF s = CallScope(p) THEN CompletedRecord(p) ELSE records[s]
    BY <1>1, <1>2 DEF Publish
  <1>4. ASSUME NEW s \in Scopes PROVE Stored(s)'
    <2>1. CASE s = CallScope(p)
      <3>1. records'[s].response.by = p /\ records'[s].body = Body(p)
        BY <1>3, <2>1 DEF CompletedRecord, Receipt
      <3>2. MovesMoney(p) => p \in committed'
        BY <1>1 DEF Publish
      <3> QED
        BY <1>1, <2>1, <3>1, <3>2, IntentKept DEF Stored
    <2>2. CASE s # CallScope(p)
      <3>1. \A q \in Calls : pc[q] = "done" => pc'[q] = pc[q]
        BY <1>1
      <3>2. committed \subseteq committed'
        BY <1>1 DEF Publish
      <3> QED
        BY <1>1, <1>3, <2>2, <3>1, <3>2, IntentKept DEF StoredInv, Stored
    <2> QED
      BY <2>1, <2>2
  <1> QED
    BY <1>1, <1>2, <1>3, <1>4

LEMMA NextStoredInv ==
  ASSUME IInv, StoredInv, [Next]_vars
  PROVE  StoredInv'
  <1> USE DEF IInv, TypeOK
  <1>1. ASSUME NEW p \in Calls,
               Submit(p) \/ Proceed(p) \/ CommitUnacknowledged(p) \/ WriteConflict(p) \/ Abort(p)
        PROVE  StoredInv'
    <2>1. /\ pc[p] # "done"
          /\ \A q \in Calls \ {p} : UNCHANGED <<pc[q], intent[q], answer[q]>>
      BY <1>1, CallLeavesOthers
    <2>2. answer[p].code \notin Codes
      BY <2>1 DEF StoredInv, Answered
    <2>3. CASE UNCHANGED books
      <3>1. \A s \in Scopes : Stored(s)'
        BY <2>1, <2>3, StoredKept
      <3>2. \A q \in Calls \ {p} : Answered(q)'
        BY <2>1, <2>3, IntentKept DEF StoredInv, Answered, books
      <3>3. Answered(p)'
        <4>1. CASE answer'[p].code \in Codes
          <5>1. /\ UNCHANGED <<books, intent>> /\ pc'[p] = "done"
                /\ records[CallScope(p)].state = "COMPLETED" /\ SameBody(p)
                /\ answer'[p] = records[CallScope(p)].response
            <6>1. CASE UNCHANGED answer
              BY <2>2, <4>1, <6>1
            <6>2. CASE Commit(p) \/ CommitUnacknowledged(p)
              <7>1. pc[p] = "commit" /\ records' = [records EXCEPT ![CallScope(p)] = CompletedRecord(p)]
                BY <6>2 DEF Commit, CommitUnacknowledged, Publish
              <7>2. CallScope(p) \in Scopes /\ records[CallScope(p)].state = "ABSENT"
                BY <7>1, AtCommit, IntentFields
              <7> QED
                BY <2>3, <7>1, <7>2 DEF books, CompletedRecord
            <6> QED
              BY <1>1, <4>1, <6>1, <6>2, HowCallsAreAnswered
          <5> QED
            BY <5>1, IntentKept DEF Answered, SameBody, books
        <4> QED
          BY <4>1 DEF Answered
      <3> QED
        BY <3>1, <3>2, <3>3 DEF StoredInv
    <2>4. CASE Commit(p) \/ CommitUnacknowledged(p)
      <3>1. /\ \A s \in Scopes : Stored(s)'
            /\ \A s \in Scopes : records[s].state = "COMPLETED" => records'[s] = records[s]
            /\ records'[CallScope(p)] = CompletedRecord(p)
            /\ UNCHANGED intent /\ pc'[p] = "done"
        BY <2>4, PublishStores
      <3>2. \A q \in Calls \ {p} : Answered(q)'
        <4> SUFFICES ASSUME NEW q \in Calls \ {p}, answer[q].code \in Codes
                     PROVE  Answered(q)'
          BY <2>1 DEF Answered
        <4>1. CallScope(q) \in Scopes /\ Answered(q)
          BY IntentFields DEF StoredInv
        <4> QED
          BY <2>1, <3>1, <4>1, IntentKept DEF Answered
      <3>3. answer'[p] = Receipt(p) \/ answer'[p].code = "INTERNAL_ERROR"
        BY <2>4 DEF Commit, CommitUnacknowledged, Reply, Refusal
      <3>4. Answered(p)'
        BY <3>1, <3>3, IntentKept DEF Answered, CompletedRecord, Codes
      <3> QED
        BY <3>1, <3>2, <3>4 DEF StoredInv
    <2> QED
      BY <1>1, <2>3, <2>4, HowCallsAreAnswered
  <1>2. ASSUME UNCHANGED <<books, pc, intent, answer>>
        PROVE  StoredInv'
    <2>1. \A s \in Scopes : Stored(s)'
      BY <1>2, StoredKept
    <2>2. \A q \in Calls : Answered(q)'
      BY <1>2, IntentKept DEF StoredInv, Answered, books
    <2> QED
      BY <2>1, <2>2 DEF StoredInv
  <1>3. ASSUME NEW u, Suspend(u) \/ Expire(u) PROVE StoredInv'
    BY <1>2, <1>3 DEF Suspend, Expire
  <1>4. CASE UNCHANGED vars
    BY <1>2, <1>4 DEF vars
  <1> QED
    BY <1>1, <1>3, <1>4 DEF Next, AllDone

\* A call is told of success only with the response stored under its key, for
\* exactly its body: begin compares the hash of the stored body before it
\* replays, and complete stores what the same transaction did.
THEOREM SuccessIsStored == Spec => []SuccessIsTheStoredResult
  <1>1. Init => StoredInv
    BY DEF Init, StoredInv, Stored, Answered, Absent, NoAnswer, Codes
  <1>2. ASSUME IInv, StoredInv PROVE SuccessIsTheStoredResult
    BY <1>2, IntentFields DEF IInv, StoredInv, Stored, Answered, SuccessIsTheStoredResult
  <1> QED
    BY <1>1, <1>2, NextStoredInv, Invariance, PTL DEF Spec
-------------------------------------------------------------------------------
(***************************************************************************)
(* Lock order                                                              *)
(***************************************************************************)
\* A call's own step keeps its locks among those of its label.
LEMMA OrderStep ==
  ASSUME IInv, NEW p \in Calls, HoldsAtMost(p),
         Submit(p) \/ Proceed(p) \/ CommitUnacknowledged(p) \/ WriteConflict(p) \/ Abort(p)
  PROVE  HoldsAtMost(p)'
  <1> USE DEF IInv, TypeOK
  <1>1. ASSUME ReleaseAll(p) PROVE HoldsAtMost(p)'
    BY <1>1, ReleaseFrees DEF HoldsAtMost
  <1>2. CASE Submit(p)
    <2>1. \A x \in LockableRows : ~Holds(p, x)
      BY <1>2 DEF Submit, HoldsAtMost, KeyHeld, RequestHeld, FirstHeld, BothHeld
    <2> QED
      BY <1>2, <2>1 DEF Submit, HoldsAtMost, Holds
  <1>3. ASSUME NEW code, Refuse(p, code) PROVE HoldsAtMost(p)'
    BY <1>1, <1>3 DEF Refuse
  <1>4. ASSUME NEW label, Advance(p, label), UNCHANGED lockedBy,
               \A held \in {KeyHeld, RequestHeld, FirstHeld, BothHeld} :
                 pc[p] \in held => label \in held
        PROVE  HoldsAtMost(p)'
    <2>1. pc'[p] = label /\ intent'[p] = intent[p]
      BY <1>4 DEF Advance
    <2> QED
      BY <1>4, <2>1, IntentKept DEF HoldsAtMost, Holds
  <1>5. ASSUME NEW label, Advance(p, label), NEW y \in LockableRows, Acquire(p, y),
               \A held \in {KeyHeld, RequestHeld, FirstHeld, BothHeld} :
                 pc[p] \in held => label \in held,
               \/ y = KeyRow(CallScope(p)) /\ label \in KeyHeld
               \/ y = RequestRow(Request(p)) /\ Route(p) # "transfer" /\ label \in RequestHeld
               \/ y = WalletRow(FirstWallet(p)) /\ label \in FirstHeld
               \/ y = WalletRow(SecondWallet(p)) /\ label \in BothHeld
        PROVE  HoldsAtMost(p)'
    <2>1. pc'[p] = label /\ intent'[p] = intent[p]
      BY <1>5 DEF Advance
    <2>2. \A x \in LockableRows : Holds(p, x)' => Holds(p, x) \/ x = y
      BY <1>5 DEF Acquire, Holds, LocksTypeOK
    <2> QED
      BY <1>5, <2>1, <2>2, IntentKept DEF HoldsAtMost
  <1>6. CallScope(p) \in Scopes /\ KeyRow(CallScope(p)) \in LockableRows
    BY IntentFields, RowsDiffer
  <1>7. CASE TryClaim(p)
    <2>1. pc[p] = "claim"
      BY <1>7 DEF TryClaim
    <2>2. NextAfterClaim(p) \in KeyHeld
      BY DEF NextAfterClaim, KeyHeld
    <2>3. \A held \in {KeyHeld, RequestHeld, FirstHeld, BothHeld} : pc[p] \notin held
      BY <2>1 DEF KeyHeld, RequestHeld, FirstHeld, BothHeld
    <2> QED
      BY <1>4, <1>5, <1>6, <1>7, <2>2, <2>3 DEF TryClaim
  <1>8. CASE LockExisting(p)
    <2>1. records[CallScope(p)].state = "COMPLETED"
      BY <1>8, IntentFields DEF LockExisting, CallInv, RecordFound
    <2> QED
      BY <1>1, <1>3, <1>8, <2>1 DEF LockExisting
  <1>9. CASE LockRequest(p)
    <2>1. ASSUME HoldRequest(p), Advance(p, IF MovesMoney(p) THEN "resolveWallets" ELSE "commit")
          PROVE  HoldsAtMost(p)'
      <3>1. pc[p] = "lockRequest" /\ Route(p) # "transfer"
        BY <1>9 DEF LockRequest, CallInv, RouteFollowed
      <3>2. Request(p) \in Requests /\ RequestRow(Request(p)) \in LockableRows
        BY <3>1, IntentFields, RowsDiffer
      <3>3. \A label \in {"resolveWallets", "commit"} :
              /\ label \in RequestHeld
              /\ \A held \in {KeyHeld, RequestHeld, FirstHeld, BothHeld} :
                   pc[p] \in held => label \in held
        BY <3>1 DEF KeyHeld, RequestHeld, FirstHeld, BothHeld
      <3> QED
        BY <1>5, <2>1, <3>1, <3>2, <3>3 DEF HoldRequest
    <2> QED
      BY <1>3, <1>9, <2>1 DEF LockRequest
  <1>10. CASE ResolveWallets(p)
    <2>1. \A held \in {KeyHeld, RequestHeld, FirstHeld, BothHeld} :
            pc[p] \in held => "lockFirst" \in held
      BY <1>10 DEF ResolveWallets, KeyHeld, RequestHeld, FirstHeld, BothHeld
    <2> QED
      BY <1>3, <1>4, <1>10, <2>1 DEF ResolveWallets
  <1>11. ASSUME pc[p] \in PartiesResolved, pc[p] # "commit"
         PROVE  /\ WalletRow(FirstWallet(p)) \in LockableRows
                /\ WalletRow(SecondWallet(p)) \in LockableRows
    <2>1. MovesMoney(p) /\ Receiver(p) \in Users /\ Sender(p) \in Users
      BY <1>11, IntentFields
         DEF CallInv, RouteFollowed, PartiesChecked, PartiesResolved, RequestHeld, KeyHeld
    <2> QED
      BY <2>1, RowsDiffer DEF FirstWallet, SecondWallet
  <1>12. CASE LockFirst(p)
    <2>1. /\ "lockSecond" \in FirstHeld
          /\ \A held \in {KeyHeld, RequestHeld, FirstHeld, BothHeld} :
               pc[p] \in held => "lockSecond" \in held
      BY <1>12 DEF LockFirst, KeyHeld, RequestHeld, FirstHeld, BothHeld
    <2> QED
      BY <1>5, <1>11, <1>12, <2>1 DEF LockFirst, LockWallet, PartiesResolved
  <1>13. CASE LockSecond(p)
    <2>1. /\ "settle" \in BothHeld
          /\ \A held \in {KeyHeld, RequestHeld, FirstHeld, BothHeld} :
               pc[p] \in held => "settle" \in held
      BY <1>13 DEF LockSecond, KeyHeld, RequestHeld, FirstHeld, BothHeld
    <2> QED
      BY <1>5, <1>11, <1>13, <2>1 DEF LockSecond, LockWallet, PartiesResolved
  <1>14. CASE Settle(p)
    <2>1. \A held \in {KeyHeld, RequestHeld, FirstHeld, BothHeld} :
            pc[p] \in held => "commit" \in held
      BY DEF KeyHeld, RequestHeld, FirstHeld, BothHeld
    <2> QED
      BY <1>3, <1>4, <1>14, <2>1 DEF Settle
  <1>15. CASE Commit(p) \/ CommitUnacknowledged(p) \/ WriteConflict(p)
    BY <1>1, <1>15 DEF Commit, CommitUnacknowledged, WriteConflict, Publish
  <1>16. CASE Abort(p)
    BY <1>3, <1>16 DEF Abort
  <1> QED
    BY <1>2, <1>7, <1>8, <1>9, <1>10, <1>12, <1>13, <1>14, <1>15, <1>16 DEF Proceed

\* Another call's step neither gives locks to a call nor takes them away.
LEMMA LocksOfOthers ==
  ASSUME IInv, NEW p \in Calls, NEW q \in Calls \ {p}, NEW x \in LockableRows,
         Submit(p) \/ Proceed(p) \/ CommitUnacknowledged(p) \/ WriteConflict(p) \/ Abort(p),
         Holds(q, x)'
  PROVE  Holds(q, x)
  <1> USE DEF IInv, TypeOK
  <1>1. CASE ReleaseAll(p)
    BY <1>1, ReleaseFrees
  <1>2. CASE UNCHANGED lockedBy
    BY <1>2 DEF Holds
  <1>3. ASSUME NEW y, Acquire(p, y) PROVE Holds(q, x)
    BY <1>3, NobodyAssumption DEF Acquire, Holds, LocksTypeOK
  <1>4. ASSUME NEW code, Refuse(p, code) PROVE Holds(q, x)
    BY <1>1, <1>4 DEF Refuse
  <1>5. CASE Submit(p) \/ Abort(p) \/ WriteConflict(p) \/ Commit(p) \/ CommitUnacknowledged(p)
    BY <1>1, <1>2, <1>4, <1>5
       DEF Submit, Abort, WriteConflict, Commit, CommitUnacknowledged, Publish
  <1>6. CASE TryClaim(p) \/ LockExisting(p) \/ LockRequest(p) \/ ResolveWallets(p) \/ Settle(p)
    BY <1>1, <1>2, <1>3, <1>4, <1>6
       DEF TryClaim, LockExisting, LockRequest, HoldRequest, ResolveWallets, Settle
  <1>7. CASE LockFirst(p) \/ LockSecond(p)
    BY <1>3, <1>7 DEF LockFirst, LockSecond, LockWallet
  <1> QED
    BY <1>5, <1>6, <1>7 DEF Proceed

LEMMA NextOrderInv ==
  ASSUME IInv, OrderInv, [Next]_vars
  PROVE  OrderInv'
  <1> USE DEF IInv, OrderInv
  <1>1. ASSUME NEW p \in Calls,
               Submit(p) \/ Proceed(p) \/ CommitUnacknowledged(p) \/ WriteConflict(p) \/ Abort(p)
        PROVE  \A q \in Calls : HoldsAtMost(q)'
    <2>1. ASSUME NEW q \in Calls \ {p} PROVE HoldsAtMost(q)'
      <3>1. pc'[q] = pc[q] /\ intent'[q] = intent[q]
        BY <1>1, CallLeavesOthers
      <3> QED
        BY <1>1, <3>1, LocksOfOthers, IntentKept DEF HoldsAtMost
    <2> QED
      BY <1>1, <2>1, OrderStep
  <1>2. ASSUME UNCHANGED <<pc, intent, lockedBy>>
        PROVE  \A q \in Calls : HoldsAtMost(q)'
    BY <1>2, IntentKept DEF HoldsAtMost, Holds
  <1>3. ASSUME NEW u, Suspend(u) \/ Expire(u) PROVE \A q \in Calls : HoldsAtMost(q)'
    BY <1>2, <1>3 DEF Suspend, Expire
  <1>4. CASE UNCHANGED vars
    BY <1>2, <1>4 DEF vars
  <1> QED
    BY <1>1, <1>3, <1>4 DEF Next, AllDone

\* A call that is waited for and waits itself is further along the order of keys,
\* requests, first wallets and second wallets than the one that waits for it.
LEMMA WaitingClimbs ==
  ASSUME IInv, OrderInv, NEW p \in Calls, NEW q \in Calls,
         WaitsFor(p, q), pc[q] \in Locking
  PROVE  /\ pc[q] \in {"lockRequest", "lockFirst", "lockSecond"}
         /\ pc[p] = "lockRequest" => pc[q] \in {"lockFirst", "lockSecond"}
         /\ pc[p] = "lockFirst" => pc[q] = "lockSecond"
         /\ pc[p] = "lockSecond" =>
              pc[q] = "lockSecond" /\ FirstWallet(p) < FirstWallet(q)
  <1> USE DEF IInv, TypeOK
  <1>1. pc[p] \in Locking /\ q # p /\ Holds(q, Wanted(p))
    BY DEF WaitsFor, Holds
  <1>2. CallScope(p) \in Scopes
    BY IntentFields
  <1>3. pc[p] = "lockRequest" => Request(p) \in Requests
    BY IntentFields DEF CallInv, RouteFollowed
  <1>4. pc[p] \in {"lockFirst", "lockSecond"} =>
          /\ MovesMoney(p) /\ ~ToSelf(p)
          /\ Sender(p) \in Users /\ Receiver(p) \in Users
    BY IntentFields
       DEF CallInv, RouteFollowed, PartiesChecked, PartiesResolved, RequestHeld, KeyHeld
  <1>5. pc[p] \in {"lockFirst", "lockSecond"} =>
          /\ FirstWallet(p) \in Users /\ SecondWallet(p) \in Users
          /\ FirstWallet(p) < SecondWallet(p)
    <2> SUFFICES ASSUME pc[p] \in {"lockFirst", "lockSecond"}
                 PROVE  /\ FirstWallet(p) \in Users /\ SecondWallet(p) \in Users
                        /\ FirstWallet(p) < SecondWallet(p)
      OBVIOUS
    <2>1. Sender(p) \in Nat /\ Receiver(p) \in Nat /\ Sender(p) # Receiver(p)
      BY <1>4, UsersAssumption DEF ToSelf
    <2>2. CASE Sender(p) < Receiver(p)
      BY <1>4, <2>2 DEF FirstWallet, SecondWallet
    <2>3. CASE Receiver(p) < Sender(p)
      <3>1. FirstWallet(p) = Receiver(p)
        BY <2>1, <2>3 DEF FirstWallet
      <3>2. SecondWallet(p) = Sender(p)
        BY <2>1, <3>1 DEF SecondWallet
      <3> QED
        BY <1>4, <2>3, <3>1, <3>2
    <2> QED
      BY <2>1, <2>2, <2>3
  <1>6. /\ pc[p] \in {"claim", "lockRecord"} => Wanted(p) = KeyRow(CallScope(p))
        /\ pc[p] = "lockRequest" => Wanted(p) = RequestRow(Request(p))
        /\ pc[p] = "lockFirst" => Wanted(p) = WalletRow(FirstWallet(p))
        /\ pc[p] = "lockSecond" => Wanted(p) = WalletRow(SecondWallet(p))
    BY DEF Wanted
  <1>7. Wanted(p) \in LockableRows
    BY <1>1, <1>2, <1>3, <1>5, <1>6, RowsDiffer DEF Locking
  <1>8. \/ Wanted(p) = KeyRow(CallScope(q)) /\ pc[q] \in KeyHeld
        \/ Wanted(p) = RequestRow(Request(q)) /\ pc[q] \in RequestHeld
        \/ Wanted(p) = WalletRow(FirstWallet(q)) /\ pc[q] \in FirstHeld
    BY <1>1, <1>7 DEF OrderInv, HoldsAtMost, Locking, BothHeld
  <1>9. pc[q] \in {"lockRequest", "lockFirst", "lockSecond"}
    BY <1>8 DEF Locking, KeyHeld, RequestHeld, FirstHeld
  <1>10. ASSUME pc[p] = "lockRequest" PROVE pc[q] \in {"lockFirst", "lockSecond"}
    BY <1>6, <1>8, <1>9, <1>10, RowsDiffer DEF RequestHeld
  <1>11. ASSUME pc[p] \in {"lockFirst", "lockSecond"}
         PROVE  pc[q] = "lockSecond" /\ Wanted(p) = WalletRow(FirstWallet(q))
    BY <1>6, <1>8, <1>9, <1>11, RowsDiffer DEF FirstHeld
  <1>12. ASSUME pc[p] = "lockSecond" PROVE FirstWallet(p) < FirstWallet(q)
    BY <1>5, <1>6, <1>11, <1>12, RowsDiffer
  <1> QED
    BY <1>9, <1>10, <1>11, <1>12

\* The API never deadlocks with itself: keys, then requests, then the two wallets
\* in ascending id order, is one global order of locking.
THEOREM NeverACircle == Spec => []NoWaitCycle
  <1>1. ASSUME IInv, OrderInv PROVE NoWaitCycle
    <2> SUFFICES ASSUME NEW S \in SUBSET Calls, S # {},
                        \A p \in S : \E q \in S : WaitsFor(p, q)
                 PROVE  FALSE
      BY DEF NoWaitCycle
    <2>1. \A p \in S : pc[p] \in Locking
      BY DEF WaitsFor
    <2> DEFINE W == {p \in S : pc[p] = "lockSecond"}
               Above(p) == {q \in W : FirstWallet(p) < FirstWallet(q)}
    <2>2. ASSUME NEW p \in W
          PROVE  \E q \in W : FirstWallet(p) < FirstWallet(q)
      BY <1>1, <2>1, WaitingClimbs
    <2>3. W # {}
      <3>1. PICK p \in S : pc[p] \in {"lockRequest", "lockFirst", "lockSecond"}
        BY <1>1, <2>1, WaitingClimbs
      <3>2. PICK q \in S : pc[q] \in {"lockFirst", "lockSecond"}
        BY <1>1, <2>1, <3>1, WaitingClimbs
      <3> QED
        BY <1>1, <2>1, <3>2, WaitingClimbs
    <2>4. \A p \in W : FirstWallet(p) \in Nat
      BY <1>1, IntentFields, UsersAssumption DEF FirstWallet, IInv
    <2>5. IsFiniteSet(W)
      BY CallsAssumption, FS_Subset
    <2>6. \A p \in W : Above(p) \in FiniteSubsetsOf(W)
      BY <2>5, FS_Subset DEF FiniteSubsetsOf
    <2>7. PICK p \in W : \A q \in W : <<Above(q), Above(p)>> \notin StrictSubsetOrdering(W)
      <3> DEFINE T == {Above(p) : p \in W}
      <3>1. T \subseteq FiniteSubsetsOf(W) /\ T # {}
        BY <2>3, <2>6
      <3>2. IsWellFoundedOn(StrictSubsetOrdering(W), FiniteSubsetsOf(W))
        BY FS_StrictSubsetOrderingWellFounded
      <3>3. \E x \in T : \A y \in T : <<y, x>> \notin StrictSubsetOrdering(W)
        BY <3>1, <3>2, WFMin
      <3> QED
        BY <3>3
    <2>8. PICK q \in W : FirstWallet(p) < FirstWallet(q)
      BY <2>2
    <2>9. Above(q) \subseteq Above(p) /\ q \in Above(p) /\ q \notin Above(q)
      BY <2>4, <2>8
    <2>10. <<Above(q), Above(p)>> \in StrictSubsetOrdering(W)
      BY <2>9 DEF StrictSubsetOrdering
    <2> QED
      BY <2>7, <2>10
  <1>2. Init => OrderInv
    BY NobodyAssumption DEF Init, OrderInv, HoldsAtMost, Holds, LocksInit
  <1> QED
    BY <1>1, <1>2, NextOrderInv, Invariance, PTL DEF Spec
-------------------------------------------------------------------------------
(***************************************************************************)
(* Double entry                                                            *)
(***************************************************************************)
\* Appending one entry to a wallet's ledger adds it to the entries of its call.
LEMMA AppendAddsAnEntry ==
  ASSUME TypeOK, NEW p \in Calls, NEW q \in Calls, NEW u \in Users, NEW delta \in Int,
         ledger'[u] = Append(ledger[u], Entry(p, u, delta))
  PROVE  /\ q # p => Entries(q, u)' = Entries(q, u)
         /\ Entries(p, u)' = Entries(p, u) \cup {Len(ledger[u]) + 1}
         /\ Len(ledger[u]) + 1 \in 1..Len(ledger'[u])
         /\ \A n \in 1..Len(ledger[u]) : n \in 1..Len(ledger'[u]) /\ ledger'[u][n] = ledger[u][n]
         /\ ledger'[u][Len(ledger[u]) + 1].delta = delta
  <1> DEFINE len == Len(ledger[u])
  <1>1. ledger[u] \in Seq(LedgerEntries)
    BY DEF TypeOK
  <1>2. /\ len \in Nat /\ Len(ledger'[u]) = len + 1
        /\ \A n \in 1..len : ledger'[u][n] = ledger[u][n]
        /\ ledger'[u][len + 1] = Entry(p, u, delta)
    BY <1>1
  <1>3. Entry(p, u, delta).transfer = p /\ Entry(p, u, delta).delta = delta
    BY DEF Entry
  <1> QED
    BY <1>2, <1>3 DEF Entries

\* COMMIT posts the pair of its transfer and no other entry.
LEMMA PublishPairs ==
  ASSUME IInv, EntriesPaired, NEW p \in Calls, pc[p] = "commit", Publish(p)
  PROVE  EntriesPaired'
  <1> USE DEF IInv, TypeOK
  <1>1. \A q \in Calls : Sender(q)' = Sender(q) /\ Receiver(q)' = Receiver(q) /\ Amount(q)' = Amount(q)
    BY IntentKept DEF Publish
  <1>2. CASE ~MovesMoney(p)
    <2>1. UNCHANGED <<ledger, committed>>
      BY <1>2 DEF Publish
    <2> QED
      BY <1>1, <2>1 DEF EntriesPaired, Entries
  <1>3. CASE MovesMoney(p)
    <2>1. /\ p \notin committed /\ committed' = committed \cup {p}
          /\ Sender(p) \in Users /\ Receiver(p) \in Users /\ Sender(p) # Receiver(p)
          /\ Amount(p) \in Int /\ -Amount(p) \in Int
          /\ ledger' = Posted(p)
      <3>1. Amount(p) \in Nat
        BY IntentFields
      <3> QED
        BY <1>3, <3>1, AtCommit DEF Publish
    <2> SUFFICES ASSUME NEW q \in Calls, NEW u \in Users
                 PROVE  IF q \in committed' /\ u \in {Sender(q), Receiver(q)}
                        THEN \E n \in 1..Len(ledger'[u]) :
                               /\ Entries(q, u)' = {n}
                               /\ ledger'[u][n].delta = IF u = Sender(q) THEN -Amount(q) ELSE Amount(q)
                        ELSE Entries(q, u)' = {}
      BY <1>1 DEF EntriesPaired
    <2>2. IF q \in committed /\ u \in {Sender(q), Receiver(q)}
          THEN \E n \in 1..Len(ledger[u]) :
                 /\ Entries(q, u) = {n}
                 /\ ledger[u][n].delta = IF u = Sender(q) THEN -Amount(q) ELSE Amount(q)
          ELSE Entries(q, u) = {}
      BY DEF EntriesPaired
    <2>3. CASE u \notin {Sender(p), Receiver(p)}
      <3>1. ledger'[u] = ledger[u]
        BY <2>1, <2>3 DEF Posted, Post
      <3>2. Entries(q, u)' = Entries(q, u)
        BY <3>1 DEF Entries
      <3>3. q \in committed' /\ u \in {Sender(q), Receiver(q)}
              <=> q \in committed /\ u \in {Sender(q), Receiver(q)}
        BY <2>1, <2>3
      <3> QED
        BY <2>2, <3>1, <3>2, <3>3
    <2>4. CASE u \in {Sender(p), Receiver(p)}
      <3> DEFINE delta == IF u = Sender(p) THEN -Amount(p) ELSE Amount(p)
                 len == Len(ledger[u])
      <3>1. delta \in Int /\ ledger'[u] = Append(ledger[u], Entry(p, u, delta))
        <4>1. CASE u = Sender(p)
          BY <2>1, <4>1 DEF Posted, Post
        <4>2. CASE u = Receiver(p)
          BY <2>1, <4>2 DEF Posted, Post
        <4> QED
          BY <2>4, <4>1, <4>2
      <3> HIDE DEF delta
      <3>2. /\ q # p => Entries(q, u)' = Entries(q, u)
            /\ Entries(p, u)' = Entries(p, u) \cup {len + 1}
            /\ len + 1 \in 1..Len(ledger'[u])
            /\ \A n \in 1..len : n \in 1..Len(ledger'[u]) /\ ledger'[u][n] = ledger[u][n]
            /\ ledger'[u][len + 1].delta = delta
        BY <3>1, AppendAddsAnEntry
      <3>3. CASE q = p
        BY <2>1, <2>2, <2>4, <3>2, <3>3 DEF delta
      <3>4. CASE q # p
        BY <2>1, <2>2, <3>2, <3>4
      <3> QED
        BY <3>3, <3>4
    <2> QED
      BY <2>3, <2>4
  <1> QED
    BY <1>2, <1>3

\* Every committed transfer has its pair of ledger entries, and there is no other.
LEMMA EntriesComeInPairs == Spec => []EntriesPaired
  <1>1. Init => EntriesPaired
    BY DEF Init, EntriesPaired, Entries
  <1>2. ASSUME IInv, EntriesPaired, [Next]_vars PROVE EntriesPaired'
    <2>1. ASSUME NEW p \in Calls, Commit(p) \/ CommitUnacknowledged(p) PROVE EntriesPaired'
      BY <1>2, <2>1, PublishPairs DEF Commit, CommitUnacknowledged
    <2>2. CASE UNCHANGED books
      <3>1. ASSUME NEW q \in committed PROVE q \in Calls /\ intent'[q] = intent[q]
        <4>1. q \in Calls /\ pc[q] = "done"
          BY <1>2 DEF IInv, CommittedInv, TypeOK
        <4> QED
          BY <1>2, <4>1, CallLeavesOthers DEF IInv, Next, AllDone, Suspend, Expire, vars
      <3>2. \A q \in committed :
              Sender(q)' = Sender(q) /\ Receiver(q)' = Receiver(q) /\ Amount(q)' = Amount(q)
        BY <3>1, IntentKept
      <3> QED
        BY <1>2, <2>2, <3>2 DEF EntriesPaired, Entries, books
    <2> QED
      BY <1>2, <2>1, <2>2, OnlyCommitWrites
  <1> QED
    BY <1>1, <1>2, Invariance, PTL DEF Spec

\* A commit moves its amount from one wallet to another.
LEMMA PublishKeepsTheTotal ==
  ASSUME IInv, NEW p \in Calls, pc[p] = "commit", Publish(p)
  PROVE  SumFunction(balance') = SumFunction(balance)
  <1>1. balance \in [Users -> Int] /\ IsFiniteSet(Users)
    BY UsersAssumption DEF IInv, TypeOK
  <1>2. CASE ~MovesMoney(p)
    BY <1>2 DEF Publish
  <1>3. CASE MovesMoney(p)
    <2>1. /\ Sender(p) \in Users /\ Receiver(p) \in Users /\ Sender(p) # Receiver(p)
          /\ Amount(p) \in Int
      <3>1. Amount(p) \in Nat
        BY IntentFields DEF IInv, TypeOK
      <3> QED
        BY <1>3, <3>1, AtCommit DEF IInv
    <2>2. DOMAIN balance' = Users /\ balance' = Moved(p)
      BY <1>1, <1>3 DEF Publish, Moved
    <2>3. /\ balance'[Sender(p)] = balance[Sender(p)] - Amount(p)
          /\ balance'[Receiver(p)] = balance[Receiver(p)] + Amount(p)
          /\ \A u \in Users \ {Sender(p), Receiver(p)} : balance'[u] = balance[u]
      BY <1>1, <2>1, <2>2 DEF Moved
    <2>4. SumFunctionOnSet(balance', Users) = SumFunctionOnSet(balance, Users)
      BY <1>1, <2>1, <2>3, SumMoves
    <2> QED
      BY <1>1, <2>2, <2>4 DEF SumFunction
  <1> QED
    BY <1>2, <1>3

\* Double entry: every committed transfer has its pair of ledger entries, no
\* other entry exists, and the balances add up to what they did at the start: a
\* retry or a lost acknowledgement never posts twice.
THEOREM BooksBalance == Spec => []DoubleEntry
  <1> DEFINE Total == SumFunction(balance) = SumFunction(Opening)
  <1>1. Init => Total
    BY DEF Init
  <1>2. ASSUME IInv, Total, [Next]_vars PROVE Total'
    <2>1. ASSUME NEW p \in Calls, Commit(p) \/ CommitUnacknowledged(p) PROVE Total'
      BY <1>2, <2>1, PublishKeepsTheTotal DEF Commit, CommitUnacknowledged
    <2>2. CASE UNCHANGED books
      BY <1>2, <2>2 DEF books
    <2> QED
      BY <1>2, <2>1, <2>2, OnlyCommitWrites
  <1>3. EntriesPaired /\ Total => DoubleEntry
    BY DEF DoubleEntry
  <1> HIDE DEF Total
  <1> QED
    BY <1>1, <1>2, <1>3, EntriesComeInPairs, Invariance, PTL DEF Spec
-------------------------------------------------------------------------------
(***************************************************************************)
(* What clients are told, and failure audits                               *)
(***************************************************************************)
\* A failure is audited when its call ends, in an error; the call has rolled
\* back, or its COMMIT was not acknowledged.
LEMMA HowFailuresAreAudited ==
  ASSUME IInv, NEW p \in Calls,
         Submit(p) \/ Proceed(p) \/ CommitUnacknowledged(p) \/ WriteConflict(p) \/ Abort(p)
  PROVE  \/ UNCHANGED failedAudits
         \/ /\ failedAudits' = failedAudits \cup {p} /\ pc'[p] = "done"
            /\ answer'[p].code \notin Codes
            /\ UNCHANGED books \/ (CommitUnacknowledged(p) /\ answer'[p] = Refusal("INTERNAL_ERROR"))
  <1> USE DEF IInv, TypeOK
  <1>1. CASE Submit(p) \/ WriteConflict(p) \/ Commit(p)
    BY <1>1 DEF Submit, WriteConflict, Commit
  <1>2. ASSUME NEW code \in Errors, Refuse(p, code)
        PROVE  \/ UNCHANGED failedAudits
               \/ /\ failedAudits' = failedAudits \cup {p} /\ pc'[p] = "done"
                  /\ answer'[p].code \notin Codes
                  /\ UNCHANGED books
    BY <1>2 DEF Refuse, AuditFailure, Reply, Refusal, Errors, Codes
  <1>3. ASSUME NEW label, Advance(p, label) PROVE UNCHANGED failedAudits
    BY <1>3 DEF Advance
  <1>4. CASE TryClaim(p) \/ LockFirst(p) \/ LockSecond(p)
    BY <1>3, <1>4 DEF TryClaim, LockFirst, LockSecond
  <1>5. CASE LockExisting(p)
    BY <1>2, <1>3, <1>5 DEF LockExisting, Errors
  <1>6. CASE LockRequest(p) \/ ResolveWallets(p) \/ Settle(p)
    BY <1>2, <1>3, <1>6 DEF LockRequest, ResolveWallets, Settle, Errors
  <1>7. CASE Abort(p)
    BY <1>2, <1>7 DEF Abort, Errors
  <1>8. CASE CommitUnacknowledged(p)
    BY <1>8 DEF CommitUnacknowledged, AuditFailure, Reply, Refusal, Codes
  <1> QED
    BY <1>1, <1>4, <1>5, <1>6, <1>7, <1>8 DEF Proceed

AuditedInv == \A p \in failedAudits : pc[p] = "done"

\* Only calls that have ended are audited.
LEMMA NextAuditedInv ==
  ASSUME IInv, AuditedInv, [Next]_vars
  PROVE  AuditedInv'
  <1> USE DEF IInv, TypeOK
  <1>1. ASSUME NEW p \in Calls,
               Submit(p) \/ Proceed(p) \/ CommitUnacknowledged(p) \/ WriteConflict(p) \/ Abort(p)
        PROVE  AuditedInv'
    <2>1. \A q \in failedAudits : pc'[q] = "done"
      BY <1>1, CallLeavesOthers DEF AuditedInv
    <2>2. failedAudits' = failedAudits \/ (failedAudits' = failedAudits \cup {p} /\ pc'[p] = "done")
      BY <1>1, HowFailuresAreAudited
    <2> QED
      BY <2>1, <2>2 DEF AuditedInv
  <1>2. ASSUME NEW u, Suspend(u) \/ Expire(u) PROVE AuditedInv'
    BY <1>2 DEF Suspend, Expire, AuditedInv
  <1>3. CASE UNCHANGED vars
    BY <1>3 DEF vars, AuditedInv
  <1> QED
    BY <1>1, <1>2, <1>3 DEF Next, AllDone

\* "The one that failed has already rolled back", as transfer.service.ts says of
\* the failure audit, is true of every execution in which the acknowledgement of
\* a COMMIT is never lost: that is the only way to break it.
THEOREM AcknowledgedFailuresRolledBack ==
  Spec /\ CommitsAcknowledged => []FailureAuditMeansRolledBack
  <1> USE DEF IInv, TypeOK
  <1>1. Init => AuditedInv /\ FailureAuditMeansRolledBack
    BY DEF Init, AuditedInv, FailureAuditMeansRolledBack
  <1>2. ASSUME IInv, AuditedInv, FailureAuditMeansRolledBack, [Next]_vars,
               [\A p \in Calls : ~CommitUnacknowledged(p)]_vars
        PROVE  FailureAuditMeansRolledBack'
    <2>1. CASE UNCHANGED vars
      BY <1>2, <2>1 DEF vars, books, FailureAuditMeansRolledBack
    <2>2. ASSUME NEW u, Suspend(u) \/ Expire(u) PROVE FailureAuditMeansRolledBack'
      BY <1>2, <2>2 DEF Suspend, Expire, books, FailureAuditMeansRolledBack
    <2>3. ASSUME ~UNCHANGED vars, NEW p \in Calls,
                 Submit(p) \/ Proceed(p) \/ CommitUnacknowledged(p) \/ WriteConflict(p) \/ Abort(p)
          PROVE  FailureAuditMeansRolledBack'
      <3>1. ~CommitUnacknowledged(p)
        BY <1>2, <2>3
      <3>2. pc[p] # "done" /\ p \notin committed /\ p \notin failedAudits
        BY <1>2, <2>3, CallLeavesOthers DEF CommittedInv, AuditedInv
      <3>3. committed' \subseteq committed \cup {p}
        BY <1>2, <2>3, <3>1, HowCallsAreAnswered DEF books, Commit, Publish
      <3>4. CASE Commit(p)
        BY <1>2, <3>2, <3>3, <3>4 DEF Commit, FailureAuditMeansRolledBack
      <3>5. CASE ~Commit(p)
        <4>1. UNCHANGED books
          BY <1>2, <2>3, <3>1, <3>5, HowCallsAreAnswered DEF books
        <4>2. failedAudits' \subseteq failedAudits \cup {p} /\ committed' = committed
          BY <1>2, <2>3, <4>1, HowFailuresAreAudited DEF books
        <4> QED
          BY <1>2, <3>2, <4>2 DEF FailureAuditMeansRolledBack
      <3> QED
        BY <3>4, <3>5
    <2> QED
      BY <1>2, <2>1, <2>2, <2>3 DEF Next, AllDone
  <1> QED
    BY <1>1, <1>2, Invariance, NextAuditedInv, PTL DEF Spec, CommitsAcknowledged
\* A step that leaves the records alone leaves what calls have done alone; a
\* COMMIT does what its call asked and takes nothing back.
LEMMA ActedKept ==
  ASSUME UNCHANGED records
  PROVE  \A q : Acted(q)' <=> Acted(q)
  BY DEF Acted

LEMMA PublishActs ==
  ASSUME IInv, NEW p \in Calls, pc[p] = "commit", Publish(p)
  PROVE  Acted(p)' /\ \A q : q # p => (Acted(q)' <=> Acted(q))
  <1> USE DEF IInv, TypeOK
  <1>1. CallScope(p) \in Scopes /\ records[CallScope(p)].state = "ABSENT"
    BY IntentFields, AtCommit
  <1>2. \A s \in Scopes : records'[s] = IF s = CallScope(p) THEN CompletedRecord(p) ELSE records[s]
    BY <1>1 DEF Publish
  <1>3. CompletedRecord(p).state = "COMPLETED" /\ CompletedRecord(p).response.by = p
    BY DEF CompletedRecord, Receipt
  <1>4. Acted(p)'
    BY <1>1, <1>2, <1>3 DEF Acted
  <1>5. ASSUME NEW q, q # p PROVE Acted(q)' <=> Acted(q)
    BY <1>1, <1>2, <1>3, <1>5 DEF Acted
  <1> QED
    BY <1>4, <1>5

\* What one call did and was told.
ToldTruly(p) ==
  /\ p \in committed => Acted(p)
  /\ Acted(p) => answer[p] = Refusal("INTERNAL_ERROR") \/ (answer[p].code \in Codes /\ answer[p].by = p)
  /\ p \in failedAudits /\ Acted(p) => answer[p] = Refusal("INTERNAL_ERROR")

ToldTrulyInv == \A p \in Calls : ToldTruly(p)

\* A call that is still in its transaction has done nothing: what names it in a
\* record, commits it or audits it ends it.
LEMMA ActedIsDone ==
  ASSUME IInv, StoredInv, AuditedInv, NEW p \in Calls, pc[p] # "done"
  PROVE  ~Acted(p) /\ p \notin committed /\ p \notin failedAudits
  BY DEF StoredInv, Stored, Acted, AuditedInv, IInv, CommittedInv

LEMMA ToldTrulyKept ==
  ASSUME NEW q \in Calls, ToldTruly(q),
         UNCHANGED answer[q], Acted(q)' <=> Acted(q),
         (q \in committed)' <=> q \in committed, (q \in failedAudits)' <=> q \in failedAudits
  PROVE  ToldTruly(q)'
  BY DEF ToldTruly

LEMMA NextToldTruly ==
  ASSUME IInv, StoredInv, AuditedInv, ToldTrulyInv, [Next]_vars
  PROVE  ToldTrulyInv'
  <1> USE DEF IInv, TypeOK, ToldTrulyInv
  <1>1. ASSUME NEW p \in Calls,
               Submit(p) \/ Proceed(p) \/ CommitUnacknowledged(p) \/ WriteConflict(p) \/ Abort(p)
        PROVE  \A q \in Calls : ToldTruly(q)'
    <2>1. pc[p] # "done" /\ \A q \in Calls \ {p} : UNCHANGED answer[q]
      BY <1>1, CallLeavesOthers
    <2>2. ~Acted(p) /\ p \notin committed /\ p \notin failedAudits
      BY <2>1, ActedIsDone
    <2>3. failedAudits' = failedAudits \/ failedAudits' = failedAudits \cup {p}
      BY <1>1, HowFailuresAreAudited
    <2>4. CASE Commit(p) \/ CommitUnacknowledged(p)
      <3>1. pc[p] = "commit" /\ Publish(p)
        BY <2>4 DEF Commit, CommitUnacknowledged
      <3>2. committed' = committed \/ committed' = committed \cup {p}
        BY <3>1 DEF Publish
      <3>3. ASSUME NEW q \in Calls \ {p} PROVE ToldTruly(q)'
        BY <2>1, <2>3, <3>1, <3>2, PublishActs, ToldTrulyKept
      <3>4. Acted(p)'
        BY <3>1, PublishActs
      <3>5. ASSUME Commit(p) PROVE ToldTruly(p)'
        <4>1. answer'[p] = Receipt(p) /\ p \notin failedAudits'
          BY <2>2, <3>5 DEF Commit, Reply
        <4>2. Receipt(p).code \in Codes /\ Receipt(p).by = p
          BY DEF Receipt, Result, Codes
        <4> QED
          BY <3>4, <4>1, <4>2 DEF ToldTruly, Codes, Refusal
      <3>6. ASSUME CommitUnacknowledged(p) PROVE ToldTruly(p)'
        <4>1. answer'[p] = Refusal("INTERNAL_ERROR")
          BY <3>6 DEF CommitUnacknowledged, Reply
        <4> QED
          BY <3>4, <4>1 DEF ToldTruly, Refusal
      <3> QED
        BY <2>4, <3>3, <3>5, <3>6
    <2>5. CASE UNCHANGED books
      <3>1. (\A q : Acted(q)' <=> Acted(q)) /\ committed' = committed
        BY <2>5, ActedKept DEF books
      <3>2. ASSUME NEW q \in Calls \ {p} PROVE ToldTruly(q)'
        BY <2>1, <2>3, <3>1, ToldTrulyKept
      <3>3. ToldTruly(p)'
        BY <2>2, <3>1 DEF ToldTruly
      <3> QED
        BY <3>2, <3>3
    <2> QED
      BY <1>1, <2>4, <2>5, HowCallsAreAnswered
  <1>2. ASSUME UNCHANGED <<books, failedAudits, answer>>
        PROVE  \A q \in Calls : ToldTruly(q)'
    BY <1>2, ActedKept DEF ToldTruly, books
  <1>3. ASSUME NEW u, Suspend(u) \/ Expire(u) PROVE \A q \in Calls : ToldTruly(q)'
    BY <1>2, <1>3 DEF Suspend, Expire
  <1>4. CASE UNCHANGED vars
    BY <1>2, <1>4 DEF vars
  <1> QED
    BY <1>1, <1>3, <1>4 DEF Next, AllDone

LEMMA InitStoredInv == Init => StoredInv
  BY DEF Init, StoredInv, Stored, Answered, Absent, NoAnswer, Codes

\* What a client is told is true: an error other than INTERNAL_ERROR means that
\* its call did nothing, a success names the call that did it, and a call with a
\* failure audit did nothing, or its client was told INTERNAL_ERROR.
THEOREM ClientsAreToldTheTruth == Spec => []AnswersAreTrue
  <1>1. Init => AuditedInv /\ ToldTrulyInv
    BY DEF Init, AuditedInv, ToldTrulyInv, ToldTruly, Acted, Absent
  <1>2. ASSUME IInv, StoredInv, ToldTrulyInv PROVE AnswersAreTrue
    <2>1. ASSUME NEW p \in Calls, answer[p].code \in Codes PROVE Acted(answer[p].by)
      BY <1>2, <2>1, IntentFields DEF IInv, StoredInv, Answered, Acted
    <2> QED
      BY <1>2, <2>1 DEF AnswersAreTrue, ToldTrulyInv, ToldTruly
  <1> QED
    BY <1>1, <1>2, InitStoredInv, NextStoredInv, NextAuditedInv, NextToldTruly, Invariance, PTL DEF Spec
\* A commit only adds to the ledger, at the end of two wallets' entries.
LEMMA PublishAppends ==
  ASSUME IInv, NEW p \in Calls, pc[p] = "commit", Publish(p), NEW u \in Users
  PROVE  /\ Len(ledger[u]) <= Len(ledger'[u])
         /\ \A n \in 1..Len(ledger[u]) : ledger'[u][n] = ledger[u][n]
  <1> USE DEF IInv, TypeOK
  <1>1. CASE ledger'[u] = ledger[u]
    <2>1. Len(ledger[u]) \in Nat
      OBVIOUS
    <2> QED
      BY <1>1, <2>1
  <1>2. ASSUME NEW delta \in Int, ledger'[u] = Append(ledger[u], Entry(p, u, delta))
        PROVE  /\ Len(ledger[u]) <= Len(ledger'[u])
               /\ \A n \in 1..Len(ledger[u]) : ledger'[u][n] = ledger[u][n]
    <2>1. ledger[u] \in Seq(LedgerEntries)
      OBVIOUS
    <2> QED
      BY <1>2, <2>1, AppendAddsAnEntry
  <1>3. CASE ~MovesMoney(p)
    BY <1>1, <1>3 DEF Publish
  <1>4. CASE MovesMoney(p)
    <2>1. /\ Sender(p) \in Users /\ Receiver(p) \in Users /\ Sender(p) # Receiver(p)
          /\ Amount(p) \in Int /\ -Amount(p) \in Int
          /\ ledger' = Posted(p)
      <3>1. Amount(p) \in Nat
        BY IntentFields
      <3> QED
        BY <1>4, <3>1, AtCommit DEF Publish
    <2>2. CASE u = Sender(p)
      BY <1>2, <2>1, <2>2 DEF Posted, Post
    <2>3. CASE u = Receiver(p)
      BY <1>2, <2>1, <2>3 DEF Posted, Post
    <2>4. CASE u \notin {Sender(p), Receiver(p)}
      BY <1>1, <2>1, <2>4 DEF Posted, Post
    <2> QED
      BY <2>2, <2>3, <2>4
  <1> QED
    BY <1>3, <1>4

\* A call that has been answered stays answered, with the same answer.
LEMMA DoneStays ==
  ASSUME TypeOK, NEW p \in Calls, pc[p] = "done", [Next]_vars
  PROVE  pc'[p] = "done" /\ answer'[p] = answer[p]
  <1>1. ASSUME NEW q \in Calls,
               Submit(q) \/ Proceed(q) \/ CommitUnacknowledged(q) \/ WriteConflict(q) \/ Abort(q)
        PROVE  pc'[p] = "done" /\ answer'[p] = answer[p]
    BY <1>1, CallLeavesOthers
  <1>2. ASSUME NEW u, Suspend(u) \/ Expire(u) PROVE pc'[p] = "done" /\ answer'[p] = answer[p]
    BY <1>2 DEF Suspend, Expire
  <1>3. CASE UNCHANGED vars
    BY <1>3 DEF vars
  <1> QED
    BY <1>1, <1>2, <1>3 DEF Next, AllDone

\* What was committed or told stands: no step rewrites a completed record, a
\* ledger entry, a committed transfer or an answer.
THEOREM HistoryNeverRewritten == Spec => HistoryStands
  <1> DEFINE Stands ==
        /\ \A s \in Scopes : records[s].state = "COMPLETED" => records'[s] = records[s]
        /\ \A u \in Users :
             /\ Len(ledger[u]) <= Len(ledger'[u])
             /\ \A n \in 1..Len(ledger[u]) : ledger'[u][n] = ledger[u][n]
        /\ committed \subseteq committed'
        /\ \A p \in Calls : pc[p] = "done" => pc'[p] = "done" /\ answer'[p] = answer[p]
  <1>1. ASSUME IInv, StoredInv, [Next]_vars PROVE Stands
    <2>1. \A p \in Calls : pc[p] = "done" => pc'[p] = "done" /\ answer'[p] = answer[p]
      BY <1>1, DoneStays DEF IInv
    <2>2. CASE UNCHANGED books
      <3>1. \A u \in Users : Len(ledger[u]) \in Nat
        BY <1>1 DEF IInv, TypeOK
      <3> QED
        BY <2>1, <2>2, <3>1 DEF books
    <2>3. ASSUME NEW p \in Calls, Commit(p) \/ CommitUnacknowledged(p) PROVE Stands
      <3>1. pc[p] = "commit" /\ Publish(p)
        BY <2>3 DEF Commit, CommitUnacknowledged
      <3>2. \A s \in Scopes : records[s].state = "COMPLETED" => records'[s] = records[s]
        BY <1>1, <2>3, PublishStores
      <3>3. committed \subseteq committed'
        BY <3>1 DEF Publish
      <3>4. \A u \in Users :
              /\ Len(ledger[u]) <= Len(ledger'[u])
              /\ \A n \in 1..Len(ledger[u]) : ledger'[u][n] = ledger[u][n]
        BY <1>1, <3>1, PublishAppends
      <3> QED
        BY <2>1, <3>2, <3>3, <3>4
    <2> QED
      BY <1>1, <2>2, <2>3, OnlyCommitWrites
  <1> QED
    BY <1>1, InitStoredInv, NextStoredInv, Invariance, PTL DEF Spec, HistoryStands
-------------------------------------------------------------------------------
(***************************************************************************)
(* Overdrafts                                                              *)
(***************************************************************************)
\* In PaymentBook a payment is made only from what the sender has.
LEMMA BookNeverOverdraws == Book!Spec => [](balance \in [Users -> Nat])
  <1> DEFINE Paid == balance \in [Users -> Nat]
  <1>1. Book!Init => Paid
    BY OpeningAssumption DEF Book!Init
  <1>2. ASSUME Paid, [Book!Next]_(Book!bookVars) PROVE Paid'
    <2>1. ASSUME NEW from \in Users, NEW to, NEW amount \in Nat, Book!Pay(from, to, amount) PROVE Paid'
      <3>1. /\ balance[from] \in Nat /\ balance[from] - amount \in Nat
            /\ to \in Users /\ balance[to] + amount \in Nat
        BY <1>2, <2>1 DEF Book!Pay
      <3> QED
        BY <1>2, <2>1, <3>1 DEF Book!Pay
    <2>2. ASSUME NEW i \in Intents, Book!Transfer(i) PROVE Paid'
      <3>1. i.actor \in Users /\ i.body.amount \in Nat
        BY <2>2, IntentsAssumption DEF Book!Transfer, Resolutions
      <3> QED
        BY <2>1, <2>2, <3>1 DEF Book!Transfer
    <2>3. ASSUME NEW i \in Intents, Book!Accept(i) PROVE Paid'
      <3>1. i.body.request \in Requests
        BY <2>3, IntentsAssumption DEF Book!Accept
      <3> QED
        BY <2>1, <2>3, <3>1, TermsAssumption DEF Book!Accept
    <2>4. ASSUME NEW i \in Intents, Book!Decline(i) \/ Book!Cancel(i) PROVE Paid'
      BY <1>2, <2>4 DEF Book!Decline, Book!Cancel
    <2>5. CASE UNCHANGED Book!bookVars
      BY <1>2, <2>5 DEF Book!bookVars
    <2> QED
      BY <1>2, <2>2, <2>3, <2>4, <2>5 DEF Book!Next
  <1> QED
    BY <1>1, <1>2, PTL DEF Book!Spec

\* No balance is ever negative: it is so of PaymentBook, which the transactions
\* implement.
THEOREM NobodyIsOverdrawn == Spec => []NobodyOverdrawn
  <1>1. balance \in [Users -> Nat] => NobodyOverdrawn
    BY DEF NobodyOverdrawn
  <1> QED
    BY <1>1, BookNeverOverdraws, PaymentBookImplemented, PTL DEF ImplementsPaymentBook
-------------------------------------------------------------------------------
(***************************************************************************)
(* The safety behind EveryCallAnswered                                     *)
(***************************************************************************)
\* The row that a call in its transaction needs next is one that can be locked.
LEMMA WantedIsLockable ==
  ASSUME IInv, NEW p \in Calls
  PROVE  pc[p] \in Locking => Wanted(p) \in LockableRows
  <1> USE DEF IInv
  <1>1. CASE pc[p] \in {"claim", "lockRecord"}
    BY <1>1, IntentFields, RowsDiffer DEF Wanted
  <1>2. CASE pc[p] = "lockRequest"
    <2>1. Request(p) \in Requests
      BY <1>2, IntentFields DEF CallInv, RouteFollowed
    <2> QED
      BY <1>2, <2>1, RowsDiffer DEF Wanted
  <1>3. CASE pc[p] \in {"lockFirst", "lockSecond"}
    <2>1. Sender(p) \in Users /\ Receiver(p) \in Users
      BY <1>3, IntentFields
         DEF CallInv, RouteFollowed, PartiesChecked, PartiesResolved, RequestHeld, KeyHeld
    <2>2. FirstWallet(p) \in Users /\ SecondWallet(p) \in Users
      BY <2>1 DEF FirstWallet, SecondWallet
    <2> QED
      BY <1>3, <2>2, RowsDiffer DEF Wanted
  <1> QED
    BY <1>1, <1>2, <1>3 DEF Locking

\* Of the calls that are not answered one finds the row it needs free, or its
\* own: whoever holds a row is itself not answered yet, and they do not all wait
\* for each other.
THEOREM SomeoneAlwaysCan == Spec => []SomeoneCanGoOn
  <1>1. ASSUME IInv, NoWaitCycle PROVE SomeoneCanGoOn
    <2> SUFFICES ASSUME Unanswered # {} PROVE \E p \in Unanswered : CanGoOn(p)
      BY DEF SomeoneCanGoOn
    <2>1. PICK p \in Unanswered : \A q \in Unanswered : ~WaitsFor(p, q)
      BY <1>1 DEF NoWaitCycle, Unanswered
    <2>2. ASSUME pc[p] \in Locking, lockedBy[Wanted(p)] \notin {p, Nobody} PROVE FALSE
      <3> DEFINE h == lockedBy[Wanted(p)]
      <3>1. p \in Calls /\ Wanted(p) \in LockableRows
        BY <1>1, <2>2, WantedIsLockable DEF Unanswered
      <3>2. h \in Calls
        BY <1>1, <2>2, <3>1 DEF IInv, TypeOK, LocksTypeOK
      <3>3. pc[h] \in KeyHeld
        BY <1>1, <3>1, <3>2 DEF IInv, CallInv, IdleHoldsNothing, Holds
      <3>4. h \in Unanswered
        BY <3>2, <3>3 DEF Unanswered, KeyHeld, InTransaction
      <3> QED
        BY <2>1, <2>2, <3>4 DEF WaitsFor
    <2> QED
      BY <2>2 DEF CanGoOn
  <1> QED
    BY <1>1, NeverACircle, Invariance, PTL

\* A statement that is not the last leads to a later label of the same attempt,
\* or to the first label of another.
LEMMA StatementAdvances ==
  ASSUME IInv, NEW p \in Calls, Statement(p)
  PROVE  /\ pc[p] \in InTransaction
         /\ \/ /\ attempt'[p] = attempt[p] /\ pc'[p] \in InTransaction \cup {"done"}
               /\ StatementsLeft[pc'[p]] < StatementsLeft[pc[p]]
            \/ attempt'[p] = attempt[p] + 1 /\ pc'[p] = "claim"
  <1> USE DEF IInv, TypeOK
  <1> DEFINE Later == /\ attempt'[p] = attempt[p] /\ pc'[p] \in InTransaction \cup {"done"}
                      /\ StatementsLeft[pc'[p]] < StatementsLeft[pc[p]]
  <1>1. ASSUME pc[p] \in InTransaction, pc'[p] = "done", UNCHANGED attempt PROVE Later
    BY <1>1 DEF InTransaction, StatementsLeft
  <1>2. ASSUME NEW code, pc[p] \in InTransaction, Refuse(p, code) PROVE Later
    BY <1>1, <1>2 DEF Refuse, Reply
  <1>3. ASSUME NEW label \in InTransaction, pc[p] \in InTransaction, Advance(p, label),
               StatementsLeft[label] < StatementsLeft[pc[p]]
        PROVE  Later
    BY <1>3 DEF Advance
  <1>4. /\ NextAfterClaim(p) \in {"resolveWallets", "lockRequest"}
        /\ NextAfterClaim(p) \in InTransaction
    BY DEF NextAfterClaim, InTransaction
  <1>5. CASE TryClaim(p)
    BY <1>3, <1>4, <1>5 DEF TryClaim, InTransaction, StatementsLeft
  <1>6. CASE LockExisting(p)
    <2>1. pc[p] = "lockRecord" /\ pc[p] \in InTransaction
      BY <1>6 DEF LockExisting, InTransaction
    <2>2. StatementsLeft[NextAfterClaim(p)] < StatementsLeft[pc[p]]
      BY <1>4, <2>1 DEF StatementsLeft
    <2> QED
      BY <1>1, <1>2, <1>3, <1>4, <1>6, <2>1, <2>2 DEF LockExisting, Reply
  <1>7. CASE LockRequest(p)
    BY <1>2, <1>3, <1>7 DEF LockRequest, InTransaction, StatementsLeft
  <1>8. CASE ResolveWallets(p)
    BY <1>2, <1>3, <1>8 DEF ResolveWallets, InTransaction, StatementsLeft
  <1>9. CASE LockFirst(p) \/ LockSecond(p)
    BY <1>3, <1>9 DEF LockFirst, LockSecond, InTransaction, StatementsLeft
  <1>10. CASE Settle(p)
    BY <1>2, <1>3, <1>10 DEF Settle, InTransaction, StatementsLeft
  <1>11. CASE Commit(p) \/ CommitUnacknowledged(p)
    BY <1>1, <1>11 DEF Commit, CommitUnacknowledged, Publish, Reply, InTransaction
  <1>12. CASE Abort(p)
    BY <1>2, <1>12 DEF Abort
  <1>13. CASE WriteConflict(p)
    BY <1>13 DEF WriteConflict, InTransaction
  <1>14. pc[p] \in InTransaction
    BY DEF Statement, Proceed, TryClaim, LockExisting, LockRequest, ResolveWallets, LockFirst,
       LockSecond, Settle, Commit, CommitUnacknowledged, WriteConflict, Abort, InTransaction
  <1> QED
    BY <1>5, <1>6, <1>7, <1>8, <1>9, <1>10, <1>11, <1>12, <1>13, <1>14 DEF Statement, Proceed

\* What is left of a call is a natural number, and less after every statement.
LEMMA LeftFalls ==
  ASSUME IInv, IInv', NEW p \in Calls, Statement(p)
  PROVE  Left(p)' < Left(p) /\ Left(p)' \in 0..Left(p)
  <1> DEFINE a == MaxAttempts - attempt[p]
             b == MaxAttempts - attempt'[p]
             m == StatementsLeft[pc[p]]
             n == StatementsLeft[pc'[p]]
  <1>1. a \in Nat /\ b \in Nat
    BY BoundsAssumption DEF IInv, TypeOK
  <1>2. m \in 1..8 /\ n \in 0..8
    BY StatementAdvances DEF StatementsLeft, InTransaction
  <1>3. (b = a /\ n < m) \/ (b = a - 1 /\ n = 8)
    <2>1. attempt[p] \in Nat /\ attempt'[p] \in Nat /\ MaxAttempts \in Nat
      BY BoundsAssumption DEF IInv, TypeOK
    <2> QED
      BY <2>1, StatementAdvances DEF StatementsLeft
  <1>4. StatementsLeft["claim"] = 8
    BY DEF StatementsLeft
  <1>5. Left(p) = a * 8 + m /\ Left(p)' = b * 8 + n
    BY <1>4 DEF Left, StatementsLeft
  <1> HIDE DEF a, b, m, n
  <1>6. b * 8 + n < a * 8 + m /\ b * 8 + n >= 0
    BY <1>1, <1>2, <1>3
  <1> QED
    BY <1>1, <1>2, <1>5, <1>6

\* A call's attempts are counted by nobody else.
LEMMA OnlyRetriesCount ==
  ASSUME TypeOK, NEW p \in Calls, NEW q \in Calls \ {p},
         Submit(q) \/ Proceed(q) \/ CommitUnacknowledged(q) \/ WriteConflict(q) \/ Abort(q)
  PROVE  attempt'[p] = attempt[p]
  <1>1. CASE Submit(q) \/ WriteConflict(q)
    BY <1>1 DEF Submit, WriteConflict, TypeOK
  <1>2. CASE Proceed(q) \/ CommitUnacknowledged(q) \/ Abort(q)
    BY <1>2 DEF Proceed, TryClaim, LockExisting, LockRequest, ResolveWallets, LockFirst, LockSecond,
       Settle, Commit, CommitUnacknowledged, Abort, Advance, Refuse, Publish
  <1> QED
    BY <1>1, <1>2

\* No call goes on for ever: its own statements, failing or not, bring its end
\* nearer, and nothing else moves it away.  With SomeoneAlwaysCan: every call is
\* answered if the database lets a statement that can run, run.
THEOREM CallsComeToAnEnd == Spec => CallsRunOut
  <1> DEFINE RunOut(p) == /\ Statement(p) => Left(p)' < Left(p)
                          /\ pc[p] # "idle" => Left(p)' \in 0..Left(p)
  <1>1. ASSUME IInv, IInv', [Next]_vars, NEW p \in Calls PROVE RunOut(p)
    <2>1. CASE Statement(p)
      BY <1>1, <2>1, LeftFalls
    <2>2. CASE ~Statement(p) /\ pc[p] # "idle"
      <3>1. pc'[p] = pc[p] /\ attempt'[p] = attempt[p]
        <4>1. ASSUME NEW q \in Calls,
                     Submit(q) \/ Proceed(q) \/ CommitUnacknowledged(q) \/ WriteConflict(q) \/ Abort(q)
              PROVE  pc'[p] = pc[p] /\ attempt'[p] = attempt[p]
          <5>1. q # p
            BY <2>2, <4>1 DEF Statement, Submit
          <5>2. pc'[p] = pc[p]
            BY <1>1, <4>1, <5>1, CallLeavesOthers DEF IInv
          <5>3. attempt'[p] = attempt[p]
            BY <1>1, <4>1, <5>1, OnlyRetriesCount DEF IInv
          <5> QED
            BY <5>2, <5>3
        <4>2. ASSUME NEW u, Suspend(u) \/ Expire(u) PROVE pc'[p] = pc[p] /\ attempt'[p] = attempt[p]
          BY <4>2 DEF Suspend, Expire
        <4>3. CASE UNCHANGED vars
          BY <4>3 DEF vars
        <4> QED
          BY <1>1, <4>1, <4>2, <4>3 DEF Next, AllDone
      <3>2. MaxAttempts - attempt[p] \in Nat /\ StatementsLeft[pc[p]] \in Nat
        BY <1>1, <2>2, BoundsAssumption DEF IInv, TypeOK, StatementsLeft, InTransaction
      <3>3. Left(p) \in Nat
        BY <3>2 DEF Left, StatementsLeft
      <3>4. Left(p)' = Left(p)
        BY <3>1 DEF Left, StatementsLeft
      <3> QED
        BY <2>2, <3>3, <3>4
    <2>3. CASE ~Statement(p) /\ pc[p] = "idle"
      BY <2>3
    <2> QED
      BY <2>1, <2>2, <2>3
  <1>2. IInv /\ IInv' /\ [Next]_vars => [\A p \in Calls : RunOut(p)]_vars
    BY <1>1
  <1> HIDE DEF RunOut
  <1>3. [][\A p \in Calls : RunOut(p)]_vars => CallsRunOut
    BY PTL DEF RunOut, CallsRunOut
  <1> QED
    BY <1>2, <1>3, Invariance, PTL DEF Spec
===============================================================================
