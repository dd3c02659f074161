SPECIFICATION Spec
CONSTANTS
  Sockets <- MCSockets
  MAX_RECONNECT_ATTEMPTS = 2
  FLAP_LIMIT = 2
  MaxActs = 2
  MaxFaults = 3
CHECK_DEADLOCK FALSE
INVARIANTS
  TypeOK
  NoDeadScreen
  MuteAgrees
PROPERTIES
  DialsOnlyWhenWanted
