\* Two submissions of one user, one of them rejected.
CONSTANTS
  Users = {u1, u2}
  Identities = {u1, u2}
  Calls = {c1, c2, c3}
  Nids = {good, bad, other}
  Genuine = {good, other}
  NoNid = NoNid
  Limit = 2
SYMMETRY CallSymmetry
CHECK_DEADLOCK FALSE
SPECIFICATION Spec
PROPERTIES VerifiedIsFinal
