SPECIFICATION Spec
CONSTANTS
  Jobs = {j1, j2}
  Tappers = {t1, t2}
  Kinds = {"evening"}
  Items <- MCItems
  KindOf <- MCKindOf
  InitLive <- MCInitLive
  Stale = 0
  Window = 0
  Thumbs = {"up"}
  MaxDay = 2
  MaxTime = 1
  MaxMsgs = 2
  MaxFaults = 1
  Nobody = Nobody
CONSTRAINT Slice
SYMMETRY ThreadSymmetry
INVARIANTS TypeOK SentOnce RowHonest TapsExact
 
CHECK_DEADLOCK FALSE
