\* Blind polls before a reload: are they remembered?
SPECIFICATION Spec
CONSTANTS
  c1 = c1
  c2 = c2
  fridge = fridge
  pump = pump
  Circuits = {c1}
  Appliances = {fridge}
  CircuitOf <- MCApart
  LIMIT = 2
  HEARTBEAT = 3
  SAVE_DELAY = 2
  SHORT_GAP = 2
  MayBlind = TRUE
  Stops = {"reload"}
  Never = Never
  LastTick = 10
  MaxRestarts = 1
INVARIANTS
  NoFabricatedSilence
CHECK_DEADLOCK FALSE
