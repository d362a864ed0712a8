\* Two sockets and one place, each carrier in turn, with and without ambient sound.
SPECIFICATION Spec
CONSTANTS
  s1 = s1
  s2 = s2
  Socket = {s1, s2}
  CallId <- Itself
  MaxConcurrent = 1
  Kinds = {"twilio", "bandwidth", "sinch", "infobip", "genesys", "web"}
CHECK_DEADLOCK FALSE
INVARIANT CarriersTypeOK
INVARIANT NothingLeftOpen
INVARIANT NoMessageLost
INVARIANT BargeInSilences
PROPERTY EveryCallEnds
