SPECIFICATION Spec
CONSTANTS
  Block = {b1, b2, b3, b4}
  NoBlock = NoBlock
  W = 8
  Req = {r1, r2}
  W16 = 4
  MaxSets = 4
SYMMETRY Symmetry
INVARIANTS NoTimerOfFreed OneTimerEach ReconnectOnce SocketKept NoDeadSocket
PROPERTY PostsKept
