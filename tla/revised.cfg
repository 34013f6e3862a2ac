\* Two RFG attempts that enter one survey from one address, and one Toluna
\* attempt, fresh or prepared by an earlier release.
SPECIFICATION Spec
CONSTANTS
  a1 = a1 a2 = a2 a3 = a3
  Attempts = {a1, a2, a3}
  Surveys = {"innovatemr", "biobrain", "toluna", "rfg", "dynamic"}
  SurveyOf <- Revised
  ProviderOf <- Revised
  EntryIPs = {ip1}
  NoIP = NoIP
  ArrivalIPs = {ip1}
  EnforceUniqueIP = TRUE
  HashRequired = TRUE
  Workers = {w1}
  BatchSize = 1
  MaxAnswers = 0
  MaxKills = 0
INVARIANTS VerifiedOutcomeHasVerifiedSource OneRedirectPerEntryIP
PROPERTIES LedgerSpec SentOnce TolunaCompletionStands ClawbackStands
CONSTRAINT OneProvider
CHECK_DEADLOCK FALSE
