\* Two calls for the same device at once: is it left as it was found?
SPECIFICATION Spec
CONSTANTS
  p1 = p1
  p2 = p2
  Probes = {p1, p2}
  Devices = {lamp}
  Automations = {a1, a2}
  Target <- MCTarget
  Watching <- MCWatching
  ROUNDS = 1
  MayOverlap = TRUE
  Failures = {}
  MaxCrashes = 0
  MaxReloads = 0
INVARIANTS
  DeviceAsFound
