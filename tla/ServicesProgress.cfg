SPECIFICATION MCProgress
CONSTANTS
  Receivers = {a, b}  Base <- MCOneRung  JitterPercent = 50  MaxRetryDelay = 3
  HealthyResetAfter = 1  StableFor = 1  Spacing = 2  AutoWindow = 1
  MaxAttempt = 1  MaxOutside = 2
  Bases = {b0}  Calibrations = {c0}  Default = b0  Legacy = b0
  NoCalibration = c0  MaxSaves = 1  MaxFaults = 1
  Endpoints = {e1}  SystemDefault = SystemDefault  NoEndpoint = NoEndpoint
  LadderLength = 1  CaptureCapacity = 2  MaxCaptures = 2  MaxControls = 2
  PcmCapacity = 1  ToneFrames = 1  Configs = {1}  MaxTones = 1  MaxDropped = 1
  Devices = {d1}  Names = {n1}  NoDevice = NoDevice  MaxServiceEvents = 2
  Advertisers = {r1}  SupervisorCapacity = 2  MaxGeneration = 2
  MaxWorldChanges = 1  MaxRestarts = 1
  Fingerprints = {f1, f2}  PulseCapacity = 1  EdgeCapacity = 1
  DeviceTables = {t1, t2}  NoTable = NoTable
  Speakers = {a}  Volumes = {0, 1}  MaxPasses = 2  VolumeCapacity = 2
  Members = {a, b}  FeedCapacity = 2  DrainLimit = 3  StreakToFail = 2  MaxLost = 2
  Selections = {{}}  GroupMembers = {}  Levels = {v0}
  Flaky = {}  MaxFlaps = 0  CommandCapacity = 1  MaxSent = 0
  ClockModes = {"ntp"}  Grandmasters = {1, 2}  Ahead <- MCAhead  Relays = {1}
  ClockPeers = {1}  AnnounceEvery = 2  MaxTicks = 1  MaxPackets = 1  MaxPairs = 1
  MaxChanges = 0
  Lead = 5  WindowSize = 2  DriftSamples = 2  DriftSpan = 1  StaleFloor = 1  StaleFactor = 2
  Second = 4  SampleRate = 3  Fraction = 8  NtpEpoch = 7  LastTick = 0  MaxRecords = 1
  Targets = {1}  Generations = 1  FeedEvents = {"failed", "degraded", "streaming", "member", "pcm"}
  FeedSize = 1  SinkCapacity = 1  DrainSize = 1
  DrainRounds = 1  RingCapacity = 1  PageLimits = {1}  MaxInputs = 2
PROPERTIES
  ServicesSettle
  ServicesStop
  TroubleIsNoticed
CHECK_DEADLOCK FALSE
