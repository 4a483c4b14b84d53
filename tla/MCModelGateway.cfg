CONSTANTS
  Turns = {t1, t2}
  Providers = 2
  Threshold = 2
  Window = 1
  Cooldown = 2
  DayLength = 3
  TurnCalls = 2
  TurnTokens = 3
  DayCalls = 3
  DayTokens = 4
  CostLimit = 5
  Sizes = {1, 2}
  MaxRequests = 3
  MaxTime = 4
  MaxCrashes = 1
SYMMETRY MCSymmetry
SPECIFICATION Spec
INVARIANTS
  TypeOK
  LimitsBoundRequests
  BudgetSeesEveryToken
  CircuitOpenAfterBurst
  EveryRequestAudited
CHECK_DEADLOCK FALSE
