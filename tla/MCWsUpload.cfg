SPECIFICATION FairSpec
CONSTANTS
  Conn = {c1}
  Client = {}
  Authentication = FALSE
  Uploads = TRUE
  Silent = {c1}
  MaxQueue = 1
  Modulus = 4
PROPERTY OpenIsPinged
