\* A circuit that may go without reporting, and a device that comes and goes.
SPECIFICATION Spec
CONSTANTS
  c1 = c1
  c2 = c2
  Circuits = {c1}
  Devices = {lamp}
  Meters = {}
  Eligibilities <- MCWatched
  Watts = {0, 2}
  DeviceWatts = {}
  None = None
  DEAD_W = 0
  ALIVE_W = 1
  TOGETHER_S = 1
  GRACE_S = 1
  CAP_S = 1
  STABLE_S = 1
  SLACK_S = 0
  LATE_S = 0
  MAX_GAP_S = 100
  LastStart = 0
  LastEvent = 7
  MaxEvents = 7
INVARIANT CasualtyWasStable
CHECK_DEADLOCK FALSE
