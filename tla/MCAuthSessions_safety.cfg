\* Logins, refreshes, logouts and sweeps of two users.
CONSTANTS
  Users = {u1, u2}
  Calls = {c1, c2, c3, c4}
  Nobody = Nobody
SYMMETRY CallSymmetry
SPECIFICATION Spec
INVARIANTS TypeOK SpentTokenIssuesNothing AncestorsRevoked SessionsHaveAnExcuse
CHECK_DEADLOCK FALSE
