\* The code's constants in units of 50 ms.
SPECIFICATION Spec
CONSTANTS
  TOTAL_BUDGET = 160
  RESERVE = 60
  PROVIDER_TIMEOUT = 60
  CLAIM_TIMEOUT = 20
  SECRET_TIMEOUT = 60
  EXPECTED_CLAIM_LATENCY = 2
  POLL_INTERVAL = 5
  RELEASE_GRACE = 10
  CLAIM_TTL = 2400
  MAX_ROUNDS = 3
  MAX_CAS_ROUNDS = 3
  CellCounts = {1, 2, 10}
  Lapses = {0, 5, 15, 30}
  MaxExtras = 2
CHECK_DEADLOCK FALSE
INVARIANT OverBeforeStale
INVARIANT CreateHasItsTime
INVARIANT PollLeavesItsTime
