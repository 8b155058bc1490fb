SPECIFICATION StoreSpec
CONSTANTS
  AssetIds = {a1, a2}
  Spaces = {s1}
  Partitions = {p1}
  Aliases = {k1, k2}
  p1 = p1
  s1 = s1
  SpaceOf <- mcSpaceOf
  Under <- mcUnder
  FirstSegment <- mcFirst
  MaxBytes = 1
  ByteSizes = {1}
  PartitionQuotas = {None}
  CountQuotas = {None}
  BucketQuotas = {None}
  HardCeilings = {100}
  Capacity <- noCapacity
  Grace = 0
  MaxTime = 0
  Uploaders = {u1}
  Readers = {r1}
  Worker = Worker
  MaxFaults = 1
  None = None
SYMMETRY Symmetry
CHECK_DEADLOCK FALSE
INVARIANTS PayloadIntact BytesTracked
PROPERTIES FenceBeforeErase DecisionsRechecked KeepsPromise
