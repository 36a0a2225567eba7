CONSTANTS
  Inputs <- MCInputs
  MaxEvents = 2
  MaxUnplugs = 0
  MaxFaults = 0
  MaxStarts = 1
  Conns = {c1, c2}
  NoConn = NoConn
  QueueCap = 1
  MaxCommands = 2
  MaxAbandoned = 0
  MaxRestarts = 1
  Unmarshalable = {}
  Oversized = {}
SYMMETRY Symmetry
SPECIFICATION PathSpec
INVARIANTS PathInv TakenAsPressed PressLossBounded
CHECK_DEADLOCK FALSE
