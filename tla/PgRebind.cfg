SPECIFICATION PgSpec
CONSTANTS
  AssetIds = {a1, a2}
  Fresh = {}
  Names = {k1, k2, k3, k4, k5, k6}
  Mutable = {k2}
  HomeOf <- mcHome
  OrderOf <- mcOrder
  a1 = a1
  a2 = a2
  a3 = a3
  a4 = a4
  a5 = a5
  k1 = k1
  k2 = k2
  k3 = k3
  k4 = k4
  k5 = k5
  k6 = k6
  Txns = {t1, t2}
  PoolSize = 2
  Ops = {"detach", "rebind"}
  Detachable = {k1, k2, k3}
  Attachable = {}
  Receiving = {a1, a2}
  Expiring = {}
  None = None
CHECK_DEADLOCK FALSE
INVARIANT OrphansMarked
