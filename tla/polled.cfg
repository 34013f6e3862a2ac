\* An InnovateMR and a BioBrain attempt: browser callbacks, the poll, and an
\* expiry worker that is killed once.
SPECIFICATION FairSpec
CONSTANTS
  a1 = a1 a2 = a2 a3 = a3
  Attempts = {a1, a2}
  Surveys = {"innovatemr", "biobrain", "toluna", "rfg", "dynamic"}
  SurveyOf <- Polled
  ProviderOf <- Polled
  EntryIPs = {}
  NoIP = NoIP
  ArrivalIPs = {NoIP}
  EnforceUniqueIP = TRUE
  HashRequired = TRUE
  Workers = {w1}
  BatchSize = 1
  MaxAnswers = 1
  MaxKills = 1
INVARIANTS TypeOK HoldFollowsJourney
PROPERTIES FirstOutcomeStands ReservationSettles
CHECK_DEADLOCK FALSE
