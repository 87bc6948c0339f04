CONSTANTS
  Null = Null
  t1 = t1
  t2 = t2
  t3 = t3
  n1 = n1
  n2 = n2
  u1 = u1
  u2 = u2
  u3 = u3
  Thread = {t1, t2, t3}
  Node = {n1, n2}
  Enqueuer = {u1, u2, u3}
  Hash <- MCHash
  Capacity = 2
  MaxExits = 1
SYMMETRY Symmetry
SPECIFICATION MCSpec
INVARIANTS BothTypeOK OnePlace OneWriter SlotLeft
