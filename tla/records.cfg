\* The components with safety properties, each on its own small instance.
SPECIFICATION RecordsSpec
CONSTANTS
  Focuses = {"cache", "tree", "scope", "price", "setting", "access", "screen", "report"}
  a1 = a1 o1 = o1 h1 = h1 h2 = h2
  \* SharedCache
  Grants = {g1, g2}
  AccessWriters = {w1}
  CacheRequests = {q1, q2}
  MaxCacheFaults = 1
  MaxGenerations = 3
  \* OrganizationTree
  Units = {1, 2, 3}
  Buyers = {b1}
  Members = {m1}
  Editors = {e1, e2}
  MaxTreeEdits = 2
  \* SupplierScope
  Accounts = {a1}
  Offers = {o1}
  OfferedBy <- OneOffer
  NoPrice = NoPrice
  Unlimited = Unlimited
  Prices = {1, 2}
  Entrants = {e1}
  MaxScopeEdits = 3
  \* SupplierPricing: cents.
  Amounts = {1, 5, 33, 199}
  Cuts = {0, 33, 50}
  Inherited = Inherited
  MaxPriceEdits = 3
  Viewers = {"owner", "admin", "employee", "internal", "internal_employee", "external", "external_employee"}
  \* IntegrationSettings
  SettingEditors = {e1}
  Testers = {t1}
  Tokens = {k1, k2}
  NoCredential = NoCredential
  MaxSettingEdits = 3
  \* AccessControl
  Owner = Owner
  Staff = {m1, m2}
  NoAccount = NoAccount
  AccessRequests = {r1}
  MaxAccountEdits = 3
  \* Screening
  Questions = {"q1", "q2"}
  Options = {1, 2}
  Derived = {"q2"}
  Routable = {"q1"}
  FormContracts <- SomeContracts
  OldestAge = 6
  MaxMoves = 1
  \* TrafficReports
  ReportUsers = {1, 2}
  EmployeeId <- CrossedIds
  NoOwner = NoOwner
  Hits = {h1, h2}
  Sponsors = {1, 2}
  SponsorOf <- OneEach
  Entries <- OwnedAndEarly
  Scopes <- EveryUser
  DayLength = 2
  MonthStarts <- ShortMonths
  YearMonths = {1, 2}
  Kinds = {"rolling", "days", "today", "date", "month", "months", "fy", "custom"}
  Rolling = 2
  RollingDays = 2
  DailyUpTo = 1
  TableRows = 0
  LastInstant = 3
  MaxMoved = 1
INVARIANTS CacheInv TreeInv ScopeInv PriceInv SettingInv ScreenInv ReportInv
PROPERTIES AccessSound ReservationsCovered
CHECK_DEADLOCK FALSE
