SPECIFICATION FetcherFairSpec
CONSTANTS
  Urls = {u1}
  Contents = {c1, page}
  Images = {c1}
  Jobs = {j1, j2}
  Kinds = {"preload", "refetch", "ensure", "read"}
  MaxInflight = 2
  MaxAssets = 2
  MaxMishaps = 1
  Disturb = {"origin", "import", "expire", "detach", "outage"}
  None = None
INVARIANTS StoredMeansFetched ReadMatchesAsset MintedOnce
PROPERTY JobsEnd
