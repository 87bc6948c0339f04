SPECIFICATION MCSpec
CONSTANTS
  t1 = t1
  t2 = t2
  d1 = d1
  d2 = d2
  None = None
  Thread = {t1, t2}
  Key = {d1, d2}
  ShardOf <- MCShardOf
  Body = {"", "short", "long"}
  Shrinks = {"long"}
  MaxSamples = 2
  MaxWrites = 3
  MaxScanWrites = 2
  MaxWaits = 1
  ScanKey = {1, 2, 3}
  KeyShard <- MCKeyShard
  EmptyShard = 1
  Limit = 1
  Scopes = {"scans"}
PROPERTIES CallsEnd
