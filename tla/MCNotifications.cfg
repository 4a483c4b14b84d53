CONSTANTS
  Types <- MCTypes
  TimeOf <- MCTimeOf
  DayLength = 5
  CatchUp = 1
  RetryLimit = 2
  MaxTime = 5
  MaxForced = 1
  MaxStops = 1
SPECIFICATION Spec
INVARIANTS
  TypeOK
  UndisputedMailedOnce
  RemindersSettleOnTime
CHECK_DEADLOCK FALSE
