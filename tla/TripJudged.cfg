\* A circuit and a metered device, with short delays so that readings leave the
\* window while an incident is open.
SPECIFICATION Spec
CONSTANTS
  c1 = c1
  c2 = c2
  Circuits = {c1}
  Devices = {plug}
  Meters = {plug}
  Eligibilities <- MCWatched
  Watts = {0, 2}
  DeviceWatts = {0, 10}
  None = None
  DEAD_W = 0
  ALIVE_W = 1
  TOGETHER_S = 1
  GRACE_S = 0
  CAP_S = 1
  STABLE_S = 2
  SLACK_S = 0
  LATE_S = 0
  MAX_GAP_S = 2
  LastStart = 0
  LastEvent = 5
  MaxEvents = 5
INVARIANTS
  NothingJudgedWasPruned
CHECK_DEADLOCK FALSE
