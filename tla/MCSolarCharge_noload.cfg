SPECIFICATION SolarSpec
CONSTANTS
  Evals = {"loop", "preview"}
  Recording = {"loop"}
  Modes = {"off", "active"}
  Conditions <- MCConditions
  HouseLoads <- MCHouseLoads
  CarLoad = 2
  TripLoad = 3
  LoadCeiling = 1
  NoLoadThreshold = 1
  Cooldown = 2
  Debounce = 1
  MinHold = 1
  VerifyDelay = 1
  NoLoadCooldown = 2
  ComfortLow = 3
  ComfortHigh = 7
  SafeSunrise = 4
  Hysteresis = 2
INVARIANT NoLoadCutsPlug
