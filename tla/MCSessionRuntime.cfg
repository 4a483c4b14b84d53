CONSTANTS
  Plans = {p1}
  Texts = {"plan", "other"}
  Suggestions = {s1}
  MaxRuns = 2
  MaxMessages = 1
  MaxCards = 3
  MaxSaves = 2
  MaxCrashes = 1
  MaxCli = 1
  NoKey = NoKey
SPECIFICATION FairSpec
INVARIANTS
  TypeOK
  UncutPlansAppliedOnce
  OneCardPerProposal
  PendingCardOwnsItsApproval
PROPERTIES
  DecidedStaysDecided
  NeverStuckRunning
CHECK_DEADLOCK FALSE
