CONSTANTS
  Faults = {"write"}
  MaxRecords = 3
SPECIFICATION LogSpec
INVARIANT AckedDurable
