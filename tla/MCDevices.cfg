SPECIFICATION Spec
CONSTANTS
  BalanceEvery = 3
  MinFullAge = 1
  MaxWindow = 2
  MaxAge = 6
  PulseCooldown = 3
  PulseLength = 1
  MaxTime = 4
  Devices = {"d1", "d2"}
  NoDevice = NoDevice
  Base = 2
  MaxBackoff = 5
  PassTime = 1
  MaxFails = 3
  Values = {"v1", "v2"}
  Default = "df"
  Clearable = FALSE
  Hours = 5
  PerHour = 2
  Gain = 1
  Drain = 1
  Target = 7
  Prices = {1, 2}
  Horizon = 4
  Suns = {0, 8}
  Demands = {0, 3}
  SolarCap = 6
  IdleLoad = 1
  Efficiency = 50
  ExtraLoad = 3
  ExtraFloor = 4
  ChargeCeiling = 9
  FullCharge = 10
  MaxHours = 5
  DayHours = 4
  NightHours = 1
  FirstWeekday = 4
  MinWindows = 2
  MinCharges = 2
  Packs = {"p1", "p2"}
  PackWh = 2
  MainWh = 3
  StartTime = 9
  EndTime = 12
  BucketSpan = 2
  HourSpan = 4
  DaySpan = 12
  MaxPause = 2
  DayLength = 2
  Workdays = {0}
  RestDays = {1}
  Dates = {0, 1, 2}
  NoDate = NoDate
  Spans <- MCSpans
  Watts = {2}
  Sleeps <- MCSleeps
  IdleWatts = 3
  LossPercent = 50
  MaxWrites = 2
  Browsers = {"b1", "b2"}
  Views = {"v"}
  NoView = "none"
  MaxOpened = 3
CHECK_DEADLOCK FALSE
INVARIANTS ChoiceStays BalanceDutyCycle ShownDataIsOwn ReachedAtSunrise RecoveredPlugSeen DiversionSparesFloor FlowsAreToldApart PlanIsKept  PacksRemembered 
 
