\* Two requests with one text and one with another; two slots an hour, one recipient.
SPECIFICATION Spec
CONSTANTS
  r1 = r1
  r2 = r2
  r3 = r3
  s = s
  t = t
  None = None
  Request = {r1, r2, r3}
  TextOf <- Texts
  Recipients = 1
  Window = 2
  MinInterval = 1
  HourLen = 3
  MaxPerHour = 2
  MaxRun = 1
  Retain = 4
  MaxTime = 4
SYMMETRY Twins
CHECK_DEADLOCK FALSE
INVARIANT CooldownSpacing
INVARIANT HourlyCap
