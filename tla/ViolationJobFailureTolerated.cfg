\* Does the script survive every Job that fails or is late?
CONSTANTS
  TotalRuns = 1
  Replicas <- One
  Loads <- Short
  MaxCampaigns = 1
SPECIFICATION Spec
INVARIANT JobFailureTolerated
CHECK_DEADLOCK FALSE
