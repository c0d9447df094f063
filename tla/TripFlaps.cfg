\* Two circuits, one of them watched at times: it flaps, is lost and returns,
\* the other falls beside it; the timer may run a tick late.
SPECIFICATION Spec
CONSTANTS
  c1 = c1
  c2 = c2
  Circuits = {c1, c2}
  Devices = {}
  Meters = {}
  Eligibilities <- MCWatchedOrNot
  Watts = {0, 2}
  DeviceWatts = {}
  None = None
  DEAD_W = 0
  ALIVE_W = 1
  TOGETHER_S = 1
  GRACE_S = 1
  CAP_S = 1
  STABLE_S = 0
  SLACK_S = 0
  LATE_S = 1
  MAX_GAP_S = 2
  LastStart = 0
  LastEvent = 4
  MaxEvents = 5
INVARIANTS
  TypeOK
  TimerCoversTheIncident
  IncidentIsBounded
  EndIsTheLastReturn
PROPERTIES
  IncidentCloses
  ImplementsIncident
CHECK_DEADLOCK FALSE
