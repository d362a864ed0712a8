\* One call with two transient failures of hang_up; closes may hang, except an orphan's.
SPECIFICATION FairSpec
CONSTANTS
  OrphanHangs = FALSE
  MaxFailures = 2
CHECK_DEADLOCK FALSE
INVARIANT PendingHangUpIsTaken
PROPERTY NobodyStranded
PROPERTY VoiceLiveCloses
