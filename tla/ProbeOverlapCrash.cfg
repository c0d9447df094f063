\* Two calls at once and a crash: is everything restored at the startup?
SPECIFICATION Spec
CONSTANTS
  p1 = p1
  p2 = p2
  Probes = {p1, p2}
  Devices = {lamp}
  Automations = {a1, a2}
  Target <- MCTarget
  Watching <- MCWatching
  ROUNDS = 1
  MayOverlap = TRUE
  Failures = {}
  MaxCrashes = 1
  MaxReloads = 0
INVARIANTS
  StartupRestores
