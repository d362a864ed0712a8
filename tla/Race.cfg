\* Two contacts, back-to-back slots through two bindings: they contend for a trailing buffer cell.
SPECIFICATION Spec
CONSTANTS
  a1 = a1
  a2 = a2
  b1 = b1
  f = f
  g = g
  alice = alice
  bob = bob
  main = main
  other = other
  None = None
  Request = {a1, b1}
  Cell = {0, 1, 2, 3}
  FpOf <- FpRace
  ContactOf <- ContactOfFp
  BindingOf <- TwoBindings
  StartOf <- StartNext
  EndOf <- EndNext
  BufferOf <- TrailingBuffer
  MaxRounds = 3
  MaxCas = 3
  Dedupe = TRUE
  ReadLag = TRUE
  HostEdits = TRUE
  Limit = 1
CHECK_DEADLOCK FALSE
INVARIANT NoDoubleBooking
INVARIANT UnavailableCreatedNothing
INVARIANT ClaimsNameTheirBooking
PROPERTY ImplementsLedger
PROPERTY LiveClaimsUntouched
