\* The breaker of a Zigbee device and a Z-Wave node is switched on, off and on
\* again at any moment.
SPECIFICATION Spec
CONSTANTS
  None = None
  lamp = lamp
  node = node
  Zigbee = {lamp}
  Nodes = {node}
  TVs = {}
  Fed <- TheCircuit
  PROBE_DELAY_S = 1
  METER_LAG_S = 2
  SETTLE_S = 2
  GRACE_S = 2
  RETURN_S = 4
  CAP_S = 4
  DECIDE_S = 2
  MEDIA_OFF_S = 2
  MAX_OUTAGE_S = 6
  REQUEST_TIMEOUT_S = 2
  LastEvent = 5
  MaxFlaps = 3
  MaxChanges = 2
INVARIANTS
  TypeOK
  AnsweredIsElsewhere
  HandOverIsComplete
  OneRequestAtATime
  AlwaysADeadline
PROPERTIES
  HandOverIsFinal
  RunEnds
CHECK_DEADLOCK FALSE
