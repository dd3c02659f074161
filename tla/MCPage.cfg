SPECIFICATION PageSpec
CONSTANTS
  MaxTasks = 2
  Channels = {0, 1}
  Root = 0
  Others = {7}
  Me = 9
  Gone = 99
  History = 2
  Queue = 2
  MaxWire = 4
  MaxNews = 4
  Chans = {0, 1, 2}
  People = {5, 6}
  Myself = 6
  NoParent <- NoChannel
  Unknown = 9
  MaxMarks = 1
  MaxTries = 8
  Edited = {"toggleMute", "showHelp"}
  Combos = {"mod-m", "mod-h", "mod-k", "mod-slash", "space", "x"}
  Fingers = {"finger1", "finger2"}
  Mouse = "mouse"
  Pictures = 2
  Drafts = {1, 2}
  Special = {2}
  MaxImages = 2
  MaxLogins = 1
  Limit = 5
  Floor = 1
  Overhead = 2
  Tags = 1
  Sizes = {2, 4}
  Senders = {7, 8}
  System = 0
  Window = 1
  Day = 3
  Stamps = {0, 1, 2, 3, 4}
  Kept = 3
  Speakers = {7}
  MaxQueue = 3
  MaxPresses = 2
INVARIANTS
  PageTypeOK
  SendsAsShown
  NoiseGateIsPolled
  MicIsReleased
  RosterIsMurmurs
  PostGoesWhereWritten
  UnreadDotIsTrue
  EveryoneIsListed
  InviteDialogIsTrue
  GuestIsLetBackIn
  SharedBindingHasReset
  OneOverlay
  PinchHasItsPointers
  MessagesAreShown
  VoiceIsNegotiated
  SpeechEnds
CHECK_DEADLOCK FALSE
