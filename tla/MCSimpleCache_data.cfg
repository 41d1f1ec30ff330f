SPECIFICATION Spec
CONSTANTS
  NumPorts = 2
  Addr = {"a", "b"}
  Word <- Halves
  Data = {0, 1}
  ZeroData = 0
  Accesses <- LowOrWhole
  Capacity = 1
  ReadOnly = {1}
  Refusing = {}
  MemRefuses = {"ReadReq", "WriteReq"}
INVARIANTS TypeOK PanicFree
PROPERTY ImplementsAtomicMemory
