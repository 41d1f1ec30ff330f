SPECIFICATION Spec
CONSTANTS
  c1 = c1
  c2 = c2
  a1 = a1
  a2 = a2
  Cache = {c1, c2, c3}
  Directory = dir
  Addr = {a1}
  Data = {0, 1}
  ZeroBlock = 0
  Ways = 1
  OtherLines = TRUE
  Workload <- AnyRequest
  Nothing = Nothing
INVARIANTS TypeOK SWMR OneAnswerPerRequest AcksAccounted DirectoryConsistent OneMemoryRequest CopiesTracked OnlyPutSPanics DataValue QuietAgreement RequestsNeverOnlyCopy
CONSTRAINT FewUnderWay
SYMMETRY CacheSymmetry
CHECK_DEADLOCK FALSE
PROPERTY ImplementsCoherentMemory
