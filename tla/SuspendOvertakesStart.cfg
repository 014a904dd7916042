\* A suspend sent while the start before it still waits in the queue.
SPECIFICATION BackendSpec
CONSTANTS
  Receivers = {r1}
  MaxGeneration = 1
  MaxInline = 0
  InlineKinds = {}
  RequestCapacity = 12
  UpdateCapacity = 20
  MaxCommands = 1
  MaxSuspends = 1
  MaxFlaps = 0
INVARIANTS
  AsleepMeansNoSession
CHECK_DEADLOCK FALSE
