\* Everything the user and the network may do with three confirmation screens, three requests and four edits.
CONSTANTS
  Users = {1, 2, 3}
  Me = 1
  Amounts = {1, 2}
  Requests = {r1}
  Terms <- MCTerms
  Opening <- MCOpening
  SendLimit = 4
  Unused = Unused
  Nothing = Nothing
  Elsewhere <- MCElsewhere
  MaxEdits = 4
  MaxReviews = 3
  MaxPosts = 3
CHECK_DEADLOCK FALSE
SPECIFICATION Spec
INVARIANTS TypeOK PaidAsReviewed ReceiptIsPaid SameKeySameBody
