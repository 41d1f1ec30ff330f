SPECIFICATION FairSpec
CONSTANTS
  NumPorts = 2
  Addr = {"a", "b"}
  Word <- Halves
  Data = {0}
  ZeroData = 0
  Accesses <- LowOrWhole
  Capacity = 1
  ReadOnly = {1}
  Refusing = {1, 2}
  MemRefuses = {"ReadReq", "WriteReq", "WritebackDirty"}
INVARIANTS OnePacketAtWork CapacityKept OnlyLostWritebackPanics
PROPERTIES ImplementsAtomicMemory RequestsHandled RetriesSent
CHECK_DEADLOCK FALSE
