SPECIFICATION PgLiveSpec
CONSTANTS
  AssetIds = {a1, a2, a3, a4, a5}
  Fresh = {a3, a4, a5}
  Names = {k1, k2, k3, k4, k5, k6}
  Mutable = {k2}
  HomeOf <- mcHome
  OrderOf <- mcOrder
  a1 = a1
  a2 = a2
  a3 = a3
  a4 = a4
  a5 = a5
  k1 = k1
  k2 = k2
  k3 = k3
  k4 = k4
  k5 = k5
  k6 = k6
  Txns = {t1, t2}
  PoolSize = 2
  Ops = {"detach", "admin_detach", "rebind", "attach", "reserve", "expire"}
  Detachable = {k1, k2, k6}
  Attachable = {k4}
  Receiving = {a2}
  Expiring = {a2}
  None = None
CHECK_DEADLOCK FALSE
INVARIANTS LastDetachMarks 
PROPERTIES NoNameStolen PoolFrees
