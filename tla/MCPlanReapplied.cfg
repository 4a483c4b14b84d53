CONSTANTS
  Plans = {p1}
  Texts = {"plan", "other"}
  Suggestions = {s1}
  MaxRuns = 2
  MaxMessages = 1
  MaxCards = 3
  MaxSaves = 2
  MaxCrashes = 1
  MaxCli = 0
  NoKey = NoKey
SPECIFICATION Spec
INVARIANTS
  PlanAppliedOncePerApproval
CHECK_DEADLOCK FALSE
