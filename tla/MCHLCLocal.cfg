CONSTANTS
  t1 = t1
  t2 = t2
  t3 = t3
  Direct = {}
  Batched = {t1}
  MaxLogical = 9
  Batch = 3
  Incoming <- MCNoIncoming
  MaxPhys = 3
  MaxEvents = 4
SPECIFICATION ClockSpec
INVARIANT LocalMonotonic
