\* A suspend, whose resume Windows may swallow, against commands and the
\* rebuild after it.
SPECIFICATION BackendFairSpec
CONSTANTS
  Receivers = {r1}
  MaxGeneration = 2
  MaxInline = 0
  InlineKinds = {}
  RequestCapacity = 12
  UpdateCapacity = 20
  MaxCommands = 1
  MaxSuspends = 1
  MaxFlaps = 0
INVARIANTS
  CatchesUp
PROPERTIES
  GateOpensAgain
CHECK_DEADLOCK FALSE
