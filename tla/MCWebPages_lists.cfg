\* The compose form with four edits and three posts, the requests list with two posts and three loads,
\* and each paged list with four rows on pages of two and three first pages (two for notifications).
CONSTANTS
  Inputs <- MCInputs
  Incoming = {r1}
  Nothing = Nothing
  MaxEdits = 4
  MaxPosts = 3
  MaxLoads = 3
  Rows = {1, 2, 3, 4}
  Matching <- MCMatching
  PageSize = 2
  None = None
  MaxEpochs = 3
CHECK_DEADLOCK FALSE
SPECIFICATION MCSpec
INVARIANTS OneRequestPerForm KeyKeepsItsBody WhatWasConfirmedIsShown NoRowMissing NewestLoadShown
