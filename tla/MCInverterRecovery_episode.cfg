SPECIFICATION Spec
CONSTANTS
  u1 = u1
  k1 = k1
  k2 = k2
  POLL = POLL
  Tokens <- MCTokens
  Cycles <- MCCycles
  COLLAPSE_MIN_SAMPLES = 2
  COLLAPSE_MIN_DURATION_S = 1
  ABRUPT_DROP_MAX_S = 2
  MAX_CYCLES_PER_EPISODE = 1
  RETRY_INTERVAL_S = 4
  USER_GRACE_S = 2
  Readings = {"high", "mid", "low", "none"}
  PAUSE_S = 1
  RPC_TIMEOUT_S = 2
  Epoch = 4
  MaxTime = 10
  MaxInFlight = 2
  MaxEvents = 0
SYMMETRY Symmetry
CHECK_DEADLOCK FALSE
INVARIANTS RecoveryInv
PROPERTIES CyclesArePaced BadgeNotSilentlyWiped
