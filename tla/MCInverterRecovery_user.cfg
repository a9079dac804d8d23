SPECIFICATION Spec
CONSTANTS
  u1 = u1
  k1 = k1
  k2 = k2
  POLL = POLL
  Tokens <- MCTokens
  Cycles <- MCCycles
  COLLAPSE_MIN_SAMPLES = 2
  COLLAPSE_MIN_DURATION_S = 1
  ABRUPT_DROP_MAX_S = 2
  MAX_CYCLES_PER_EPISODE = 2
  RETRY_INTERVAL_S = 1
  USER_GRACE_S = 2
  Readings = {"high", "low"}
  PAUSE_S = 1
  RPC_TIMEOUT_S = 2
  Epoch = 2
  MaxTime = 5
  MaxInFlight = 2
  MaxEvents = 2
SYMMETRY Symmetry
CHECK_DEADLOCK FALSE
INVARIANTS NoCycleDuringUserOff
PROPERTIES UserOffExcludesRecoveryCommand TripNeedsDistinctFrames
