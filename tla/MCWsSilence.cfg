SPECIFICATION FairSpec
CONSTANTS
  Conn = {c1}
  Client = {}
  Authentication = TRUE
  Uploads = FALSE
  Silent = {c1}
  MaxQueue = 1
  Modulus = 4
PROPERTIES SilentPeerLeaves OpenIsPinged
