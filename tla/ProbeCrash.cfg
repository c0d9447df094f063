\* Two calls, one after the other; exceptions in the probe, and two crashes.
SPECIFICATION Spec
CONSTANTS
  p1 = p1
  p2 = p2
  Probes = {p1, p2}
  Devices = {lamp}
  Automations = {a1, a2}
  Target <- MCTarget
  Watching <- MCWatching
  ROUNDS = 2
  MayOverlap = FALSE
  Failures = {"probe"}
  MaxCrashes = 2
  MaxReloads = 0
INVARIANTS
  TypeOK
  WriteAhead
  UserOffStaysOff
PROPERTIES
  EventuallyHandedBack
