SPECIFICATION Spec
CONSTANTS
  Jobs = {j1, j2}
  Tappers = {t1, t2}
  Kinds = {"evening"}
  Items <- MCItems
  KindOf <- MCKindOf
  InitLive <- MCInitLive
  Stale = 0
  Window = 0
  Thumbs = {"up"}
  MaxDay = 1
  MaxTime = 1
  MaxMsgs = 2
  MaxFaults = 0
  Nobody = Nobody
SYMMETRY ThreadSymmetry
INVARIANT NewestAnswers
CHECK_DEADLOCK FALSE
