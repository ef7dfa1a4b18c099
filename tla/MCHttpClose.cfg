SPECIFICATION Spec
CONSTANTS
  Conn = {c1, c2}
  None = None
  Request <- MCRequest
  MaxPacket = 3
  MaxRequests = 2
INVARIANT OwnerConnected
CHECK_DEADLOCK FALSE
