\* Two callers, two bindings of one calendar; two changes of clock, keys or host events.
SPECIFICATION Spec
CONSTANTS
  ann = ann
  ben = ben
  main = main
  other = other
  Nobody = Nobody
  Caller = {ann, ben}
  TOTAL_BUDGET = 160
  RESERVE = 60
  PROVIDER_TIMEOUT = 60
  CLAIM_TIMEOUT = 20
  SECRET_TIMEOUT = 60
  EXPECTED_CLAIM_LATENCY = 2
  BindingOf <- Agents
  Document <- Deployed
  BodyOf <- Bodies
  Zone <- Zones
  Times = {0, 65}
  HostEdits <- Edits
  Faulty = {ben}
  MaxChanges = 2
  Booker <- Bookings
  RangeOf <- Ranges
  Slots <- Cells5
CHECK_DEADLOCK FALSE
INVARIANT OffersAreGood
INVARIANT NothingIsHidden
INVARIANT OffersAreHonoured
INVARIANT BookedTimesApart
