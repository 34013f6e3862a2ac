\* The components with liveness properties, each on its own small instance.
SPECIFICATION JobsSpec
CONSTANTS
  Focuses = {"callback", "export", "lease", "final", "feed"}
  a1 = a1 a2 = a2 c1 = c1 c2 = c2 m1 = m1 m2 = m2
  \* SupplierCallbacks
  Results = {1}
  SupplierCodes = {c1, c2}
  Deliverers = {t1, t2}
  RecoveryBatch = 1
  MaxCallbackRetries = 1
  MaxMishaps = 2
  \* ExportJobs
  Jobs = {j1, j2}
  Queries = {q1}
  Requests = {r1, r2}
  Builders = {b1, b2}
  MaxExportFaults = 1
  \* CacheLease
  LeaseRequests = {q1, q2, q3}
  MaxDataChanges = 1
  MaxLeaseFaults = 1
  \* FinalIds
  Buying = {c1, c2}
  Journeys = {a1, a2}
  Unmatched = none
  HomeClient <- Homes
  SurveyClient <- SurveysOf
  MonthOf <- SameMonth
  Months = {1}
  Files <- ShortFiles
  Imports = {i1, i2}
  MaxUploads = 3
  \* SurveyFeed
  Surveys = {1, 2}
  Markets = {m1, m2}
  MarketOf <- OneMarketEach
  Adapters = {"zamplia"}
  DetailWorkers = {1}
  Broken = {1}
  DetailBatch = 2
  MaxRevisions = 1
  MaxFeedFaults = 1
INVARIANTS CallbackInv ExportInv LeaseInv FinalInv
PROPERTIES JobsSettle JobsNeverGoBack
CHECK_DEADLOCK FALSE
