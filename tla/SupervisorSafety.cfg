\* Reconciles against the controls the controller sends.
SPECIFICATION Spec
CONSTANTS
  Receivers = {r1, r2}
  MaxGeneration = 2
  MaxInline = 2
  InlineKinds = {"SetVolume", "Suspend"}
  RequestCapacity = 3
  UpdateCapacity = 12
SYMMETRY ReceiverSymmetry
INVARIANTS
  TypeOK
  OneSession
  NothingLost
  ReportsHonest
PROPERTIES
  ContractKept
CHECK_DEADLOCK FALSE
