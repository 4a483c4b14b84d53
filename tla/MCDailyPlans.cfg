CONSTANTS
  StageOrder <- MCStageOrder
  Courses <- MCCourses
  PerDay = 2
  Drift <- MCDrift
  Generators = {web, cli}
  Cli = {cli}
  MaxCourses = 1
  MaxForced = 1
  MaxCrashes = 1
CONSTRAINT FewDisturbances
SPECIFICATION Spec
INVARIANTS
  TypeOK
  FinishedTaskKept
  PlanFollowsCourse
PROPERTIES
  StagesAreEarned
CHECK_DEADLOCK FALSE
