\* InventorySync: a leased run and one that a request or a command starts may
\* overlap, on either path.  TolunaInventory: one survey, three upstream
\* changes, a run and one refresher.  SurveyFeed: a survey per market, one of
\* them with details that cannot be read, a batch and an entry's refresh.
\* TolunaMembers: three attempts that share a profile.
SPECIFICATION MCSpec
CONSTANTS
  Focuses = {"inventory", "toluna", "feed", "members"}
  m1 = m1 m2 = m2
  Keys = {k1, k2}
  Runs = {r1, r2}
  Leased = {r1}
  Paths = {TRUE, FALSE}
  BatchSize = 1
  MaxClock = 2
  MaxMerging = 4
  MaxMarker = 0
  Refreshers = {d1}
  Contracts = {c1, c2}
  MaxEvents = 3
  Surveys = {1, 2}
  Markets = {m1, m2}
  MarketOf <- OneMarketEach
  Adapters = {"zamplia", "unimarket", "track", "acuity", "rfg"}
  DetailWorkers = {1, 2}
  Broken = {1}
  DetailBatch = 2
  MaxRevisions = 1
  MaxFeedFaults = 1
  e1 = e1 e2 = e2 e3 = e3 q1 = q1
  Submissions = {e1, e2, e3}
  Members = {"member"}
  MemberOf <- OneMember
  Questions = {q1}
  FormOf <- TwoForms
  Required = {q1}
  Routable = {q1}
  MaxFormChanges = 1
  MaxMemberFaults = 1
INVARIANTS InventoryTypesOK FormMatchesPayload QuietAgrees FeedInv MemberInv
PROPERTIES RunsConverge CloseSurvivesRun
CHECK_DEADLOCK FALSE
