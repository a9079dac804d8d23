SPECIFICATION Spec
CONSTANTS
  l1 = l1
  l2 = l2
  l3 = l3
  h1 = h1
  None = None
  Loops <- MCLoops
  Handlers <- MCHandlers
  Methods = {"set_credentials", "clear_credentials", "connect", "disconnect", "select_device", "pause_polling", "resume_polling", "get_battery_packs"}
  Answers = {"none", "other", "active"}
  CHECK_S = 1
  STALE_S = 2
  MIN_RESTART_S = 2
  POLL_S = 1
  BACKOFF_S = 1
  PAUSE_S = 2
  COOLDOWN_S = 1
  COOLDOWN_CAP_S = 2
  MaxRequests = 2
SYMMETRY Symmetry
PROPERTIES LoginsYield
