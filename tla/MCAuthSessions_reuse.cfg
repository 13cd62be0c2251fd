\* One token, two refreshes at once.
CONSTANTS
  Users = {u1}
  Calls = {c1, c2, c3}
  Nobody = Nobody
SYMMETRY CallSymmetry
SPECIFICATION Spec
INVARIANTS TokenRefreshesOnce
CHECK_DEADLOCK FALSE
