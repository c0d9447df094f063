\* What becomes of the readings, part by part.
SPECIFICATION RuntimeSpec
CONSTANTS
  c1 = c1
  fridge = fridge
  Circuits = {c1}
  Appliances = {fridge}
  CircuitOf <- MCCircuitOf
  LIMIT = 2
  HEARTBEAT = 3
  SAVE_DELAY = 2
  SHORT_GAP = 2
  MayBlind = TRUE
  Stops = {"reload", "shutdown", "crash"}
  Never = Never
  LastTick = 14
  MaxRestarts = 2
  v1 = v1
  v2 = v2
  Channels = {v1, v2}
  Loads <- MCLoads
  Steps <- MCSteps
  NOISE_W = 3
  RUNNING_W = 5
  TOLERANCE_M = 450
  MARGIN = 200
  MaxRounds = 2
  Unread = Unread
  NoChannel = NoChannel
  s1 = s1
  s2 = s2
  i1 = i1
  i2 = i2
  i3 = i3
  Sources = {s1, s2, s3}
  Configured = {s1, s2, s3}
  Required = {s1}
  Known = {s1, s2}
  Assigned = {s2}
  Ids = {i1, i2, i3, i4, i5}
  FirstIds <- MCFirstIds
  LastRename = 3
  LastForm = 1
  NoOptions = NoOptions
  HOUR = 2
  LOOKBACK_H = 4
  MIN_HISTORY_H = 2
  DEAD_W = 0
  FLOOR_W = 2
  Watts = {0, 5}
  ANSWER = 1
  None = None
  LastClock = 9
  MaxTrips = 1
  MaxStarts = 2
  Histories <- MCHistories
  GAP_S = 2
  MIN_RUN_S = 2
  Diaries <- MCDiaries
  Spans <- MCSpans
  SKIP_STATES = {"unavailable"}
  HALF_S = 1
  WindowEnd = 8
  DAY = 4
  MIN_MATCHED = 2
  Metered = {m1, m2, m3}
  Clamps = {x1, x2}
  Traces <- MCTraces
  OtherLoads <- MCOtherLoads
  CELLS = 4
  MARGIN_W = 2
  MIN_R = 50
  MIN_CONTAINMENT = 98
  MIN_STEP_MATCH = 35
  MIN_MARGIN = 15
  STEP_TOLERANCE = 50
  NoClamp = NoClamp
INVARIANTS
  RuntimeTypeOK
  SilenceWasWatched
  DeadIsNoticed
  HeartbeatIsRecent
  WrongTakesCoincidences
  QuietPanelIsMeasured
  RenamesAreFollowed
  EligibilityFollowsTheReadings
  RunsAreWhole
  MatchesAreMost
  PlacedDrawIsCarried
CHECK_DEADLOCK FALSE
