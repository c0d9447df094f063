\* Two calls at once, each for a device of its own, and a reload of the entry.  Any
\* call to Home Assistant may raise but that for a device's own restore.
SPECIFICATION Spec
CONSTANTS
  p1 = p1
  p2 = p2
  Probes = {p1, p2}
  Devices = {lamp, plug}
  Automations = {a1}
  Target <- MCOwnTarget
  Watching <- MCWatching
  ROUNDS = 1
  MayOverlap = TRUE
  Failures = {"pause", "probe", "automation"}
  MaxCrashes = 0
  MaxReloads = 1
INVARIANTS
  UserOffStaysOff
  DeviceAsFound
