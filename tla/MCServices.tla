------------------------------ MODULE MCServices ------------------------------
(***************************************************************************)
(* The services the backend runs beside the session supervisor, for TLC.  A *)
(* behaviour exercises one of them; the others stay in their initial state, *)
(* so one run explores each service's own state space.                     *)
(***************************************************************************)
EXTENDS RetryTimers, StateStore, CaptureSupervisor, PcmBridge, NetworkView,
        VolumeBarrier, HealthProbe, CommandBatch, ClockSync, Diagnostics,
        TimingClient

\* How far our clock is ahead of two grandmasters.
MCAhead == [g \in {1, 2} |-> IF g = 1 THEN 20 ELSE -30]

\* RetryPolicy.base on the clock of this model.
MCBase == <<1, 3>>

\* A ladder whose only rung jitters to both sides of the rejoin spacing.
MCOneRung == <<2>>

\* What the services begin they end (BackoffEnds, FlappingIsReported, StartEnds).
ServicesSettle == BackoffEnds /\ FlappingIsReported /\ StartEnds

\* What the services are told to stop stops (SuspendHonoured, ShutdownHonoured,
\* HandleReleased, ThreadIsFreed, RegistryCloses).
ServicesStop ==
  SuspendHonoured /\ ShutdownHonoured /\ HandleReleased /\ ThreadIsFreed
    /\ RegistryCloses

VARIABLE part   \* the component that runs in this behaviour

\* One component runs; the others stay where they started.
Only(p) ==
  /\ part = p /\ UNCHANGED part
  /\ (p # "timers" => UNCHANGED timerVars)
  /\ (p # "store" => UNCHANGED storeVars)
  /\ (p # "capture" => UNCHANGED captureVars)
  /\ (p # "bridge" => UNCHANGED bridgeVars)
  /\ (p # "index" => UNCHANGED indexVars)
  /\ (p # "discovery" => UNCHANGED discoveryVars)
  /\ (p # "monitor" => UNCHANGED monitorVars)
  /\ (p # "scanner" => UNCHANGED scannerVars)
  /\ (p # "barrier" => UNCHANGED barrierVars)
  /\ (p # "health" => UNCHANGED healthVars)
  /\ (p # "batch" => UNCHANGED batchVars)
  /\ (p # "clock" => UNCHANGED clockVars)
  /\ (p # "diagnostics" => UNCHANGED diagnosticsVars)
  /\ (p # "timing" => UNCHANGED timingVars)

MCInit ==
  /\ part \in {"timers", "store", "capture", "bridge", "index", "discovery",
              "monitor", "scanner", "barrier", "health", "batch", "clock",
              "diagnostics", "timing"}
  /\ TimersInit
  /\ StoreInit
  /\ CaptureInit
  /\ BridgeInit
  /\ IndexInit
  /\ DiscoveryInit /\ (part # "discovery" => present = {})
  /\ MonitorInit /\ (part # "monitor" => bindings = CHOOSE f \in Fingerprints : TRUE)
  /\ ScannerInit /\ (part # "scanner" => devices = CHOOSE t \in DeviceTables : TRUE)
  /\ BarrierInit /\ (part # "barrier" => \A s \in Speakers : levels[s] = 0 /\ heard[s] = 0)
  /\ HealthInit
  /\ BatchInit
  /\ ClockInit /\ (part # "clock" => flow.mode = "ntp" /\ boss = CHOOSE c \in Bosses : TRUE)
  /\ DiagnosticsInit /\ (part # "diagnostics" => aggregator.at = "top")
  /\ TimingInit /\ (part # "timing" => client.kind = "ptp")

MCNext ==
  \/ Only("timers") /\ TimersNext
  \/ Only("store") /\ StoreNext
  \/ Only("capture") /\ CaptureNext
  \/ Only("bridge") /\ BridgeNext
  \/ Only("index") /\ IndexNext
  \/ Only("discovery") /\ DiscoveryNext
  \/ Only("monitor") /\ MonitorNext
  \/ Only("scanner") /\ ScannerNext
  \/ Only("barrier") /\ BarrierNext
  \/ Only("health") /\ HealthNext
  \/ Only("batch") /\ BatchNext
  \/ Only("clock") /\ ClockNext
  \/ Only("diagnostics") /\ DiagnosticsNext
  \/ Only("timing") /\ TimingNext

MCFairness ==
  /\ WF_timerVars(part = "timers" /\ Elapse)
  /\ WF_timerVars(part = "timers" /\ FireDueRetries)
  /\ WF_timerVars(part = "timers" /\ SessionEdge)
  /\ WF_captureVars(part = "capture" /\ NextGeneration)
  /\ WF_captureVars(part = "capture" /\ (OpenFails \/ OpenSucceeds))
  /\ WF_captureVars(part = "capture" /\ (phase = "readying" /\ (WorkerReady \/
       WorkerFails)))
  /\ WF_captureVars(part = "capture" /\ LadderElapses)
  /\ WF_captureVars(part = "capture" /\ (Restart \/ Park \/ ParkedIgnores \/
       Unpark \/ StopCapture))
  /\ WF_captureVars(part = "capture" /\ ApplyCaptureUpdate)
  /\ WF_bridgeVars(part = "bridge" /\ BridgeTurn)
  /\ WF_bridgeVars(part = "bridge" /\ SendTone)
  /\ WF_discoveryVars(part = "discovery" /\ StartGeneration)
  /\ WF_discoveryVars(part = "discovery" /\ (Browse \/ ScheduleFailure))
  /\ WF_discoveryVars(part = "discovery" /\ BackoffElapsed)
  /\ WF_discoveryVars(part = "discovery" /\ Settle)
  /\ SF_discoveryVars(part = "discovery" /\ OnControl)
  /\ WF_discoveryVars(part = "discovery" /\ TakeDiscoveryUpdate)
  /\ SF_discoveryVars(part = "discovery" /\ TakeDiscoveryUpdate /\ updates' =
       <<>>)
  /\ WF_monitorVars(part = "monitor" /\ FirstSample)
  /\ WF_monitorVars(part = "monitor" /\ OpenWindow)
  /\ WF_monitorVars(part = "monitor" /\ SettleElapsed)
  /\ WF_monitorVars(part = "monitor" /\ CancelMonitor)
  /\ WF_scannerVars(part = "scanner" /\ TakeRequest)
  /\ WF_scannerVars(part = "scanner" /\ Enumerate)
  /\ WF_scannerVars(part = "scanner" /\ PublishScan)
  /\ WF_scannerVars(part = "scanner" /\ ThreadEnds)
  /\ WF_barrierVars(part = "barrier" /\ Connect)
  /\ WF_barrierVars(part = "barrier" /\ SetMemberVolume)
  /\ WF_barrierVars(part = "barrier" /\ SetupPassEnds)
  /\ WF_barrierVars(part = "barrier" /\ PrepareAudio)
  /\ WF_barrierVars(part = "barrier" /\ BeginActivation)
  /\ WF_barrierVars(part = "barrier" /\ ActivationPassEnds)
  /\ WF_healthVars(part = "health" /\ ProbeTick)
  /\ WF_healthVars(part = "health" /\ DrainStep)
  /\ WF_healthVars(part = "health" /\ DrainLimitReached)
  /\ WF_healthVars(part = "health" /\ ProbeCycle)
  /\ WF_diagnosticsVars(part = "diagnostics" /\ (ApplyCommand \/ Settles \/
       ChecksShutdown \/ Wakes \/ FromFeed \/ TakesSink \/ DrainsEvents \/
       Publishes))

vars == <<part, timerVars, storeVars, captureVars, bridgeVars, indexVars,
          discoveryVars, monitorVars, scannerVars, barrierVars, healthVars,
          batchVars, clockVars, diagnosticsVars, timingVars>>

MCSafety == MCInit /\ [][MCNext]_vars
MCProgress == MCSafety /\ MCFairness

\* What the timing workers and the timing clients publish.
ClocksTrue ==
  /\ part = "clock" => ClockSafe
  /\ part = "timing" => TimingSafe
==============================================================================
