SPECIFICATION EvictionLiveSpec
CONSTANTS
  AssetIds = {1, 2, 3}
  Partitions = {1, 2}
  cache = cache
  users = users
  Spaces = {cache, users}
  Evictable = {cache}
  PartitionOf <- mcPartitionOf
  SpaceOf <- mcSpaceOf
  SizeOf <- mcSizeOf
  Quotas = {8, None}
  FirstQuota <- mcQuota
  Capacity <- mcCapacity
  Aging = {2}
  MaxTime = 1
  MaxTouches = 1
  MaxBytes = 10
  None = None
CHECK_DEADLOCK FALSE
INVARIANTS ReliefOrReported
PROPERTIES SettledStays EvictsOnlyForNeed OverQuotaRelieved
