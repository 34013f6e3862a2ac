\* Two results and a recovery batch of one: the newer may not starve the older.
SPECIFICATION FairCallbackSpec
CONSTANTS
  Results = {1, 2}
  SupplierCodes = {c1}
  Deliverers = {t1}
  RecoveryBatch = 1
  MaxCallbackRetries = 1
  MaxMishaps = 2
PROPERTIES PendingEventSettles
CHECK_DEADLOCK FALSE
