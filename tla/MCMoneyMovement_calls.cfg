\* Transfers racing, retried and failing; a request, its resolvers and payments beside
\* it, accounts suspended and the request expiring; against PaymentBook.
CONSTANTS
  Calls = {c1, c2, c3}
  Nobody = Nobody
  Users <- MCUsers
  Opening <- MCOpening
  Requests = {r1}
  Terms <- MCTerms
  Intents <- MixedIntents
  SendLimit = 3
  MaxAttempts = 2
  Suspendable = {1, 2}
  Expirable = {r1}
SYMMETRY CallSymmetry
SPECIFICATION MCSpec
PROPERTIES ResolvedForGood ImplementsPaymentBook
INVARIANTS TypeOK LedgerAgrees DoubleEntry CheckConstraintIdle SendLimitHolds OnePaymentPerKey SuccessIsTheStoredResult NoWaitCycle AcceptedMeansPaidOnce NothingForTheSuspended
