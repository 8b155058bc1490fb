SPECIFICATION QuotaSpec
CONSTANTS
  AssetIds = {a1, a2}
  Partitions = {p1, p2}
  Names = {k1, k2}
  Txns = {t1, t2, t3}
  Sizes = {1, 2}
  Ceilings = {3, None}
  PartitionLimits <- mcLimits
  Capacity = 4
  Bucket = Bucket
  Ops = {"reserve", "raw", "commit", "release", "detach", "restore", "cleanup", "limits"}
  None = None
CHECK_DEADLOCK FALSE
INVARIANTS UsageExact OnlyDetachDeadlocks
PROPERTY CeilingsHeld
SYMMETRY QuotaSymmetry
