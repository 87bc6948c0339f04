CONSTANTS
  Faults = {"write", "power", "read"}
  MaxRecords = 5
SPECIFICATION LogSpec
INVARIANTS
  AckedKept
PROPERTY ImplementsDurableLog
