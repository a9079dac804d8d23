SPECIFICATION Spec
CONSTANTS
  Threads = {"run1", "run2"}
  Transports = {"none", "smb", "rsync_ssh", "rsyncd"}
  KeepCount = 2
  MaxStamp = 3
  DataFiles = {"energy.db", "auth.json"}
  NumSnapshots = 2
  Serials = {"x", "y"}
  NoClient = NoClient
  QuotaRetries = 1
  MaxEdits = 2
  Delays <- MCDelays
  Accounts = {"a", "b"}
  NoAccount = NoAccount
  MaxCalls = 3
  Shift = 2
  MaxNow = 6
  Suggestions = {"s1"}
  NoSuggestion = "no"
  MaxEffects = 2
  ChatTurns = {"t1"}
  ToolRuns = {"r1"}
  MaxRounds = 2
  MaxToolUses = 2
  EffectsCounted = 2
  SeqSpace = 14
  FirstSeq = 11
  NumPackets = 3
  PacketLen = 2
  MaxSegment = 3
  MaxPendingSegments = 2
  MaxPendingBytes = 4
  MaxStreamBuffer = 3
  UpdateInterval = 2
  Heartbeat = 0
  RestartLimit = 2
  MaxPayloads = 3
  MaxDt = 2
  CacheInterval = 2
  EndOfTime = 5
  MaxBoots = 2
  Places = {"p", "q"}
  NoPlace = "none"
  Callers = {"c1", "c2"}
  DeviceZone = "q"
  CacheTTL = 1
  Outlook = 2
  MaxMoves = 2
CHECK_DEADLOCK FALSE
INVARIANTS SnapshotSurvives   AppliedOnce  CreditedOnce ChatIsAccountable 
PROPERTIES   ChangesTakeEffect
