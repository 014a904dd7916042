\* The last sender goes away while the sender thread is paused.
SPECIFICATION StreamSpec
CONSTANTS
  MaxFrames = 2  ChannelCapacity = 1  DecodeBatch = 2  LowWater = 2
  RecoverAbove = 1  MaxPauses = 1
PROPERTIES
  DisconnectEndsThread
CHECK_DEADLOCK FALSE
