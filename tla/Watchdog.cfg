\* Three responses; the shortest memory of timed-out responses.
SPECIFICATION FairSpec
CONSTANTS
  MaxResponses = 3
  MaxFailed = 2
  Remembered = 1
CHECK_DEADLOCK FALSE
INVARIANT TypeOK
INVARIANT ActedOnOnce
PROPERTY RejectionIsOurs
PROPERTY NoTalkingOver
PROPERTY NoSilence
