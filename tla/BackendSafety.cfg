\* Two receivers, commands, failures and session edges interleaved.
SPECIFICATION BackendSpec
CONSTANTS
  Receivers = {r1, r2}
  MaxGeneration = 2
  MaxInline = 0
  InlineKinds = {}
  RequestCapacity = 12
  UpdateCapacity = 20
  MaxCommands = 2
  MaxSuspends = 0
  MaxFlaps = 0
SYMMETRY ReceiverSymmetry
INVARIANTS
  ControllerTypeOK
  ShownIsHeld
CHECK_DEADLOCK FALSE
