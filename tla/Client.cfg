SPECIFICATION MCProgress
CONSTANTS
  Devices = {1, 2, 3}  Requests <- MCRequests  Sessions <- MCSessions  MaxParallel = 2
  MaxFrames = 3  ChannelCapacity = 2  DecodeBatch = 2  LowWater = 2
  RecoverAbove = 1  MaxPauses = 1
  Delays <- MCDelays  Silent = {1}  Unbound = {1}  Lead = 1  Clocks <- MCClocks  SyncEvery = 2
  SeqSpace = 4  HistorySize = 2  MaxTime = 9  FanFrames = 5  MaxSteps = 2
  Decoders = {d1, d2}  QueueCapacity = 2  FrameSize = 3  PacketSize = 2
  MaxSubmitted = 4
  Timings = {"ntp", "yield"}  MaxCalls = 2  MaxFaults = 1
  Pins = {p1, p2}  RightPin = p1  Orders <- MCOrders  MaxAttempts = 1  MaxFlows = 2
  SourceFiles <- MCFiles  Ratios = {1, 2}  PacketSamples = 2  BufferFrames = 2
  GainBands = {1, 2}  TopGain = 2  Depth = 4  MaxSeeks = 1  MaxTurns = 1
  MeterFrames = 2  FrameSizes = {1, 2}  JitterSlots = 2  Jitters <- MCJitters
  MaxMetered <- MCMetered  MaxResets = 1
  RaopSetups <- MCRaop  FullVolume = 1  MaxRaopCalls = 4  MaxRaopFaults = 1
INVARIANTS
  GroupSafe
  StreamSafe
  FanSafe
  AudioSafe
  SessionsSafe
  PairingSafe
PROPERTIES
  FanStepsSound
  ClientSettles
CHECK_DEADLOCK FALSE
