\* Two languages, one number of servers and two loads, after another campaign or not.
CONSTANTS
  Replicas <- Two
  Loads = 2
  MaxLost = 1
SPECIFICATION Spec
INVARIANTS TypeOK RightTarget OneJobAtATime
PROPERTIES LogIsOfThisJob ImplementsCampaign
CHECK_DEADLOCK FALSE
