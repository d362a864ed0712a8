\* Three requests with one text and two recipients, past the window and the retention.
SPECIFICATION Spec
CONSTANTS
  r1 = r1
  r2 = r2
  r3 = r3
  s = s
  t = t
  None = None
  Request = {r1, r2, r3}
  TextOf <- OneText
  Recipients = 2
  Window = 2
  MinInterval = 0
  HourLen = 2
  MaxPerHour = 2
  MaxRun = 1
  Retain = 3
  MaxTime = 3
SYMMETRY Triplets
CHECK_DEADLOCK FALSE
INVARIANT NeverTwiceInWindow
INVARIANT AlreadySentIsTrue
INVARIANT CodeIsHonest
