\* Stop against starts, failures, rejoins and discovery changes, awake.
SPECIFICATION BackendFairSpec
CONSTANTS
  Receivers = {r1}
  MaxGeneration = 3
  MaxInline = 0
  InlineKinds = {}
  RequestCapacity = 12
  UpdateCapacity = 20
  MaxCommands = 2
  MaxSuspends = 0
  MaxFlaps = 1
PROPERTIES
  StopIsObeyed
CHECK_DEADLOCK FALSE
