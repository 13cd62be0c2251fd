\* A lost commit acknowledgement.
CONSTANTS
  Calls = {c1, c2}
  Nobody = Nobody
  Users <- MCUsers
  Opening <- MCOpening
  Requests = {r1}
  Terms <- MCTerms
  Intents <- LivenessIntents
  SendLimit = 3
  MaxAttempts = 1
  Suspendable = {}
  Expirable = {}
SPECIFICATION Spec
INVARIANTS FailureAuditMeansRolledBack
