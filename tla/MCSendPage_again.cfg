\* Back, review and confirm after an unconfirmed outcome.
CONSTANTS
  Users = {1, 2, 3}
  Me = 1
  Amounts = {1, 2}
  Requests = {r1}
  Terms <- MCTerms
  Opening <- MCOpening
  SendLimit = 4
  Unused = Unused
  Nothing = Nothing
  Elsewhere <- MCElsewhere
  MaxEdits = 4
  MaxReviews = 2
  MaxPosts = 3
CHECK_DEADLOCK FALSE
SPECIFICATION Spec
INVARIANTS OneIntentOnePayment
