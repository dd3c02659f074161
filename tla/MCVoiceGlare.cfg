INIT VoiceBridgeInit
NEXT VoiceBridgeNext
CONSTANTS
  Speakers = {7}
  MaxQueue = 3
  MaxPresses = 1
INVARIANT
  VoiceIsEstablished
CHECK_DEADLOCK FALSE
