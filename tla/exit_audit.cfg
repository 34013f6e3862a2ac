\* A signed callback after the first one.
SPECIFICATION Spec
CONSTANTS
  a1 = a1 a2 = a2 a3 = a3
  Attempts = {a1}
  Surveys = {"innovatemr", "biobrain", "toluna", "rfg", "dynamic"}
  SurveyOf <- Innovate
  ProviderOf <- Innovate
  EntryIPs = {}
  NoIP = NoIP
  ArrivalIPs = {NoIP}
  EnforceUniqueIP = TRUE
  HashRequired = TRUE
  Workers = {w1}
  BatchSize = 1
  MaxAnswers = 1
  MaxKills = 1
PROPERTIES ExitAuditStands
CHECK_DEADLOCK FALSE
