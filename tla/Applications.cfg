SPECIFICATION PracticeSpec
CONSTANTS
  Requests = {1, 2, 3}
  None = None
  Jobs <- MCJobs
  Needs <- MCNeeds
  MaxApplications = 2
  Calls <- MCCalls
  Beginnings <- MCBeginnings
  MaxFaults = 1
  Talks <- MCTalks
  Threshold = 3
INVARIANTS
  SentAsScored
  ToldSkillsStay
  CheckinsAreKept
  OutcomesAreLearned
  TurnsAreWhole
PROPERTIES
  KeepsBooks
  Heals
  RequestsEnd
CHECK_DEADLOCK FALSE
