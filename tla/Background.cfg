\* Both tasks over a network that goes down, stalls and recovers.
CONSTANTS
  model = model
  NONE = NONE
  Width = 3
  LocalHosts = {0}
  SharedHosts = {1}
  Fallback <- MCFallback
  AwsLists <- MCAws
  GcpLists <- MCGcp
  NetworkStates = {"up", "down", "stalled"}
  Models <- MCModels
  TopN = 2
  Logs <- MCLogs
  FrequentCommits = 3
  Answers <- MCAnswers
SPECIFICATION Spec
INVARIANT AttributionIsMostSpecific LiveMeansAList NothingStaleIsShown CiFiguresAreRight LeadTimeIsTypical
PROPERTY TableConverges BaselinesRecover
