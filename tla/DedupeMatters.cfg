\* A booking, its retry and another contact, at a vendor without retry dedupe.
SPECIFICATION Spec
CONSTANTS
  a1 = a1
  a2 = a2
  b1 = b1
  f = f
  g = g
  alice = alice
  bob = bob
  main = main
  other = other
  None = None
  Request = {a1, a2, b1}
  Cell = {0, 1}
  FpOf <- FpAll
  ContactOf <- ContactOfFp
  BindingOf <- OneBinding
  StartOf <- StartOfFp
  EndOf <- EndOfFp
  BufferOf <- NoBuffer
  MaxRounds = 1
  MaxCas = 3
  Dedupe = FALSE
  ReadLag = FALSE
  HostEdits = FALSE
  Limit = 1
CHECK_DEADLOCK FALSE
INVARIANT NoDoubleBooking
