SPECIFICATION FairSpec
CONSTANTS
  Hellos = {h1, h2}
  Goodbyes = {g1, g2}
  Latencies = {0, 3}
  Fires <- MCFires
  BufferSizes <- MCBufferSizes
  Bandwidths = {1, 2}
  MessageLength = 2
  FloatBits = 3
INVARIANTS ExitsOnTime OnlySharedOrLatePanics
PROPERTY Ends
CHECK_DEADLOCK FALSE
