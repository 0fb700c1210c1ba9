\* Two campaigns of one run: two languages, one number of servers, two loads each.
CONSTANTS
  TotalRuns = 1
  Replicas <- One
  Loads <- ShortAndLong
  MaxCampaigns = 2
SPECIFICATION Spec
INVARIANTS TypeOK NoForeignLoad CombinedIsComplete
PROPERTIES JsonFromCompleteJobs ImplementsCampaign
CHECK_DEADLOCK FALSE
