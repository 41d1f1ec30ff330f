SPECIFICATION Spec
CONSTANTS
  c1 = c1
  c2 = c2
  a1 = a1
  a2 = a2
  Cache = {c1, c2}
  Directory = dir
  Addr = {a1, a2}
  Data = {0}
  ZeroBlock = 0
  Ways = 1
  OtherLines = FALSE
  Workload <- AnyRequest
  Nothing = Nothing
INVARIANT WaitingOnMemoryStalls
CHECK_DEADLOCK FALSE
