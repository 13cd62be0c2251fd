\* Four transfers of one sender over three rolling windows and the engine's own.
CONSTANTS
  Calls = {c1, c2, c3, c4}
  Amounts = {1, 4}
  Opening = 9
  Length <- MCLength
  Limit <- MCLimit
  Large = 9
  Step = 4
  Day = 3
  Recently = 2
  Many = 3
  SenderSince <- MCSenderSince
  ReceiverSince <- MCReceiverSince
  Nobody = Nobody
  MaxTime = 5
SYMMETRY CallSymmetry
CHECK_DEADLOCK FALSE
SPECIFICATION Spec
INVARIANTS RollingLimitsHold BurstIsFlagged
PROPERTIES HeadroomIsReal
