SPECIFICATION LiveSpec
CONSTANTS
  i1 = i1
  i2 = i2
  Unset = Unset
  NoRule = NoRule
  Objects = {1, 2, 3}
  Ids = {i1, i2}
  Defs <- MCDefs
  Posts <- MCPosts
  Files <- MCFiles
  Levels <- MCLevels2
  ARM_MAIN_SOC_PCT = 0
  CLEAR_SOC_PCT = 1
  STALE_FIRE_S = 1
  MaxEvents = 1
INVARIANTS  OneFirePerEdge
PROPERTIES DutiesServed
