SPECIFICATION Spec
CONSTANTS
  Deliveries = {d1}
  Nobody = Nobody
  MaxMoves = 1
  MaxForeign = 1
INVARIANTS LandsAtMostOnce StatusIsHonest InsertedIsTrue
PROPERTIES ClipboardIsSettled NothingAfterExit
