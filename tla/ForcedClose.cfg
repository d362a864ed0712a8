\* A close may hang whatever connection it closes.
SPECIFICATION Spec
CONSTANTS
  OrphanHangs = TRUE
  MaxFailures = 0
CHECK_DEADLOCK FALSE
INVARIANT ForcedCloseAborts
