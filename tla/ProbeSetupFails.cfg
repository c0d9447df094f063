\* A crash, and a restore that fails at the startup: is it tried again?
SPECIFICATION Spec
CONSTANTS
  p1 = p1
  p2 = p2
  Probes = {p1}
  Devices = {lamp}
  Automations = {a1, a2}
  Target <- MCTarget
  Watching <- MCWatching
  ROUNDS = 1
  MayOverlap = FALSE
  Failures = {"setup"}
  MaxCrashes = 1
  MaxReloads = 0
PROPERTIES
  FailedRestoreIsKept
