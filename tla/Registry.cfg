SPECIFICATION Spec
CONSTANTS
  AssetIds = {a1, a2}
  Spaces = {s1}
  Partitions = {p1, p2}
  Aliases = {k1, k2}
  p1 = p1
  p2 = p2
  s1 = s1
  k1 = k1
  k2 = k2
  SpaceOf <- mcSpaceOf
  Under <- nestedUnder
  FirstSegment <- nestedFirst
  MaxBytes = 11
  ByteSizes = {10, 11}
  PartitionQuotas = {20}
  CountQuotas = {None, 1}
  BucketQuotas = {21}
  HardCeilings = {100}
  Capacity <- mcCapacity
  Grace = 1
  MaxTime = 1
  None = None
SYMMETRY Symmetry
CHECK_DEADLOCK FALSE
INVARIANTS NamesConsistent UsageMatchesAvailable
PROPERTIES LifecycleOrder LastNameRetires GraceHolds AdmissionCeilings
