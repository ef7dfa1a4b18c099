SPECIFICATION Spec
CONSTANTS
  Conn = {c1, c2}
  Client = {c2}
  Authentication = TRUE
  Uploads = TRUE
  Silent = {}
  MaxQueue = 1
  Modulus = 4
INVARIANTS QueueIsServed InFlightBounded FramesInOrder CloseIsLast StrangersGetNothing
