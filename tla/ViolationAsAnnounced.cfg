\* Are a scenario's clients served by the servers the script announces?
CONSTANTS
  TotalRuns = 1
  Replicas <- FourThenTwo
  Loads <- Short
  MaxCampaigns = 1
SPECIFICATION Spec
INVARIANT AsAnnounced
CHECK_DEADLOCK FALSE
