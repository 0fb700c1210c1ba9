\* One run, two numbers of servers: rolling updates, scaling down, and the end.
CONSTANTS
  TotalRuns = 1
  Replicas <- FourThenTwo
  Loads <- Short
  MaxCampaigns = 1
SPECIFICATION FairSpec
INVARIANT RightTarget
PROPERTIES ImplementsCampaign Terminates
CHECK_DEADLOCK FALSE
