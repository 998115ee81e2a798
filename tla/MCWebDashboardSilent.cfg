CONSTANTS
  Clients = {c1}
  Silent = {c1}
  Deaf = {}
  MaxFrame = 2
  Room = 1
SPECIFICATION FairSpec
PROPERTY ShutdownEnds
CHECK_DEADLOCK FALSE
