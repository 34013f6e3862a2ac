\* An RFG attempt whose browser returns through /survey.
SPECIFICATION Spec
CONSTANTS
  a1 = a1 a2 = a2 a3 = a3
  Attempts = {a1}
  Surveys = {"innovatemr", "biobrain", "toluna", "rfg", "dynamic"}
  SurveyOf <- Rfg
  ProviderOf <- Rfg
  EntryIPs = {}
  NoIP = NoIP
  ArrivalIPs = {NoIP}
  EnforceUniqueIP = TRUE
  HashRequired = TRUE
  Workers = {w1}
  BatchSize = 1
  MaxAnswers = 1
  MaxKills = 1
INVARIANTS RfgCompletionFromServer
CHECK_DEADLOCK FALSE
