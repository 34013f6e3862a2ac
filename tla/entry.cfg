\* ProfileReuse: two attempts of one survey, one of another, an early one and an
\* older profile; two requests at a time.  InnovateDetails: one survey, two
\* refreshes, a run.
SPECIFICATION EntrySpec
CONSTANTS
  Focuses = {"reuse", "innovate"}
  \* ProfileReuse
  a1 = a1 a2 = a2 a3 = a3 l1 = l1 o1 = o1
  Attempts = {a1, a2, a3, l1, o1}
  SurveyOf <- OneProject
  UidOf <- Drawn
  Registered = {o1}
  Legacy = {l1}
  Uids = {1, 2, 3, 4, 5}
  Answers <- TwoProfiles
  Eligible <- MaleOnly
  p1 = p1 p2 = p2
  Posts = {p1, p2}
  Previous = 0
  Percentage = 100
  FirstDelay = 1
  Interval = 1
  Window = 1
  MaxUses = 1
  MaxScan = 1
  MaxTries = 2
  MaxNow = 4
  MaxTraffic = 2
  MaxFaults = 1
  \* InnovateDetails
  f1 = f1 f2 = f2
  Studies = {s1}
  Fetchers = {f1, f2}
  LastHour = 2
  MaxFetchFaults = 1
INVARIANTS InnovateInv ReusesAllowed CountsCoverReuses VaultSound
SYMMETRY Interchangeable
CHECK_DEADLOCK FALSE
