CONSTANTS
  t1 = t1
  t2 = t2
  t3 = t3
  Direct = {t3}
  Batched = {t1, t2}
  MaxLogical = 4
  Batch = 2
  Incoming <- MCIncoming
  MaxPhys = 3
  MaxEvents = 4
SYMMETRY Symmetry
SPECIFICATION ClockSpec
INVARIANTS
  NowAboveAll
  Unique
