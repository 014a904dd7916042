SPECIFICATION MCSafety
CONSTANTS
  Receivers = {a, b}  Base <- MCBase  JitterPercent = 50  MaxRetryDelay = 3
  HealthyResetAfter = 2  StableFor = 1  Spacing = 2  AutoWindow = 1
  MaxAttempt = 2  MaxOutside = 1
  Bases = {b0, bL}  Calibrations = {c0, c1}  Default = b0  Legacy = bL
  NoCalibration = c0  MaxSaves = 2  MaxFaults = 2
  Endpoints = {e1}  SystemDefault = SystemDefault  NoEndpoint = NoEndpoint
  LadderLength = 1  CaptureCapacity = 2  MaxCaptures = 3  MaxControls = 2
  PcmCapacity = 2  ToneFrames = 2  Configs = {1}  MaxTones = 2  MaxDropped = 1
  Devices = {d1, d2}  Names = {n1, n2}  NoDevice = NoDevice  MaxServiceEvents = 5
  Advertisers = {r1, r2}  SupervisorCapacity = 2  MaxGeneration = 2
  MaxWorldChanges = 1  MaxRestarts = 1
  Fingerprints = {f1, f2}  PulseCapacity = 2  EdgeCapacity = 2
  DeviceTables = {t1, t2, t3}  NoTable = NoTable
  Speakers = {a, b}  Volumes = {0, 1}  MaxPasses = 2  VolumeCapacity = 2
  Members = {a, b}  FeedCapacity = 2  DrainLimit = 3  StreakToFail = 2  MaxLost = 2
  Selections = {{}, {a, b}, {b, c}}  GroupMembers = {a, b}  Levels = {v0, v1}
  Flaky = {b}  MaxFlaps = 1  CommandCapacity = 2  MaxSent = 3
  ClockModes = {"yield", "slave", "master", "group", "ntp"}  Grandmasters = {1, 2}  Ahead <- MCAhead
  Relays = {1}  ClockPeers = {1, 2}  AnnounceEvery = 2  MaxTicks = 1  MaxPackets = 2
  MaxPairs = 2  MaxChanges = 1
  Lead = 5  WindowSize = 2  DriftSamples = 2  DriftSpan = 1  StaleFloor = 1  StaleFactor = 2
  Second = 4  SampleRate = 3  Fraction = 8  NtpEpoch = 7  LastTick = 2  MaxRecords = 2
  Targets = {1, 2}  Generations = 2  FeedEvents = {"pcm"}
  FeedSize = 1  SinkCapacity = 2  DrainSize = 1
  DrainRounds = 2  RingCapacity = 2  PageLimits = {1}  MaxInputs = 4
INVARIANTS
  TimersSafe
  StoreSafe
  BatchHonest
  CaptureSafe
  BridgeSafe
  InventoryTrue
  WatchersMissNothing
  BarrierSafe
  HealthSafe
  ClocksTrue
  DiagnosticsSafe
PROPERTIES
  ArmsDoNotSpin
  AnswersFit
  ReleasedAtSavedLevel
CHECK_DEADLOCK FALSE
