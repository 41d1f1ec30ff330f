SPECIFICATION FairSpec
CONSTANT Builds <- MCBuilds
INVARIANTS
  OnlyUnsupportedAbort
  RightTarget
  NoRoundTrip
  SnoopedByAll
  PrivatePath
  MessagesArrive
  TablesDescribeSystem
PROPERTY Answered
CHECK_DEADLOCK FALSE
