CONSTANTS
  Requests <- MCRequests
  NumListeners = 2
SPECIFICATION Spec
INVARIANTS
  TypeOK
  CrashesHaveACause
  UsersGoFirst
  NothingLeft
  UpdatedIsStarted
