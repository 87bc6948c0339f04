CONSTANTS
  None = None
  p1 = p1
  p2 = p2
  c1 = c1
  c2 = c2
  t1 = t1
  t2 = t2
  b1 = b1
  b2 = b2
  b3 = b3
  Producer = {p1, p2}
  Consumer = {c1, c2}
  Block = {b1, b2, b3}
  BlockSize = 2
  Entries = 2
  Wrap = 16
  MaxSent = 8
  HashCapacity = 2
  MaxExits = 1
SPECIFICATION MCSpec
INVARIANTS TypeOK EntryRight
PROPERTIES ImplementsFifo SpinEnds Obtains
