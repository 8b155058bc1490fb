SPECIFICATION ClientsSpec
CONSTANTS
  l1 = l1
  w1 = w1
  w2 = w2
  k1 = k1
  o1 = o1
  o2 = o2
  mf = mf
  good = good
  bad = bad
  Loaders = {l1}
  Workers = {w1, w2}
  Names = {k1, o1, o2, mf}
  Rows <- mcRows
  MaxRetries = 1
  Inputs <- mcInputs
  Outputs <- mcOutputs
  ManifestOf <- mcManifestOf
  None = None
CHECK_DEADLOCK FALSE
INVARIANTS ReportTrue ManifestVouches
PROPERTIES ClientsEnd
