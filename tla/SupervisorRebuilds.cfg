\* Every control but Suspend, platform rebuilds included.
SPECIFICATION FairSpec
CONSTANTS
  Receivers = {r1}
  MaxGeneration = 2
  MaxInline = 2
  InlineKinds = {"SetVolume", "Probe", "NetworkChanged", "Resume"}
  RequestCapacity = 2
  UpdateCapacity = 12
PROPERTIES
  FreshStarts
  RequestsConcluded
CHECK_DEADLOCK FALSE
