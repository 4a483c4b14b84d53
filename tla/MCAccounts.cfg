CONSTANTS
  Sessions = {s1, s2}
  NoSession = NoSession
  Slots = 1
  MaxRuns = 2
  MaxCrashes = 1
  Users = {u1, u2}
  Local = Local
  NoOwner = NoOwner
  MaxCalls = 1
SPECIFICATION AccountsSpec
SYMMETRY Symmetric
CONSTRAINT FewCalls
INVARIANTS
  AccountsTypeOK
  RowsFollowOwner
  DeletedLeavesNothing
PROPERTIES
  OwnedStaysOwned
CHECK_DEADLOCK FALSE
