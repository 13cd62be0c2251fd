\* Every call is answered.
CONSTANTS
  Calls = {c1, c2, c3}
  Nobody = Nobody
  Users <- MCUsers
  Opening <- MCOpening
  Requests = {r1}
  Terms <- MCTerms
  Intents <- LivenessIntents
  SendLimit = 3
  MaxAttempts = 2
  Suspendable = {}
  Expirable = {}
SPECIFICATION CallsSpec
PROPERTIES EveryCallAnswered
