CONSTANTS
  Clients = {c1, c2}
  Silent = {}
  Deaf = {}
  MaxFrame = 2
  Room = 1
SPECIFICATION FairSpec
INVARIANTS TypeOK PoolIsSound FreshWhenQuiet
PROPERTIES PoolIsStable BroadcastEnds ShutdownEnds
CHECK_DEADLOCK FALSE
