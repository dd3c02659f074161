SPECIFICATION Spec
CONSTANTS
  Sockets <- MCSockets
  MAX_RECONNECT_ATTEMPTS = 2
  FLAP_LIMIT = 2
  MaxActs = 2
  MaxFaults = 1
CHECK_DEADLOCK FALSE
INVARIANTS
  OwnReconnectIsNotTakeover
