------------------------------- MODULE MCClient -------------------------------
(***************************************************************************)
(* The client side of a session, for TLC: a connection and its pairing,    *)
(* a first-generation connection, a group and its stream, packets, live    *)
(* queue, decoding and meters.  A behaviour exercises one of them; the     *)
(* others stay in their initial state.                                     *)
(***************************************************************************)
EXTENDS GroupConnect, Streamer, RtpFanout, LiveQueue, Sessions, Pairing,
        AudioPath, AudioMeters

\* Device lists a caller may ask for, and sessions it may already hold.
MCRequests == {<<>>, <<2>>, <<2, 2>>, <<2, 1>>, <<1, 2, 3>>, <<3, 1, 2>>}
MCSessions == {<<>>, <<3, 1>>}

\* Presentation delays of three targets, and what a timing worker may publish.
MCDelays == <<0, 2, 1>>
MCClocks == {[id |-> 1, offset |-> 1], [id |-> 2, offset |-> 5]}

\* The orders in which a receiver may sign, the first tried first.
MCOrders == <<"SignerIdPeer", "SignerPeerId">>

\* Files a source may decode: audio, other tracks' packets, faults.
MCFiles ==
  {<<[kind |-> "audio", n |-> 3], [kind |-> "other", n |-> 1], [kind |-> "audio", n |-> 2]>>,
   <<[kind |-> "audio", n |-> 1], [kind |-> "fault", n |-> 0],
     [kind |-> "broken", n |-> 1], [kind |-> "audio", n |-> 3]>>}

\* How often each meter is used, and the jitter it is told of.
MCMetered == [buffer |-> 3, jitter |-> 3, target |-> 2, capture |-> 2, retransmit |-> 1]
MCJitters == {-2, 1}

\* First-generation receivers: with or without a password, and what they can do.
MCRaop ==
  {[password |-> "none", locked |-> FALSE, digest |-> TRUE, rsa |-> TRUE],
   [password |-> "none", locked |-> TRUE, digest |-> TRUE, rsa |-> FALSE],
   [password |-> "right", locked |-> TRUE, digest |-> TRUE, rsa |-> FALSE],
   [password |-> "wrong", locked |-> TRUE, digest |-> TRUE, rsa |-> FALSE],
   [password |-> "right", locked |-> TRUE, digest |-> FALSE, rsa |-> TRUE]}

VARIABLE part   \* the component that runs in this behaviour

\* One component runs; the others stay where they started.
Only(p) ==
  /\ part = p /\ UNCHANGED part
  /\ (p # "group" => UNCHANGED groupVars)
  /\ (p # "streamer" => UNCHANGED streamVars)
  /\ (p # "fanout" => UNCHANGED fanVars)
  /\ (p # "live" => UNCHANGED liveVars)
  /\ (p # "connection" => UNCHANGED connectionVars)
  /\ (p # "pairing" => UNCHANGED pairingVars)
  /\ (p # "audio" => UNCHANGED pathVars)
  /\ (p # "meters" => UNCHANGED meterVars)
  /\ (p # "raop" => UNCHANGED raopVars)

MCInit ==
  /\ part \in {"group", "streamer", "fanout", "live", "connection",
              "pairing", "audio", "meters", "raop"}
  /\ GroupInit /\ (part # "group" => asked = <<>> /\ capable = {} /\ preferred = Nobody /\ session = <<>>)
  /\ StreamInit
  /\ FanInit /\ (part # "fanout" => mode = "ntp")
  /\ LiveInit
  /\ ConnectionInit /\ (part # "connection" => conn.timing = "ntp" /\ identity.file = "none")
       /\ (part = "connection" => (conn.timing = "ntp" <=> identity.file = "old"))
  /\ PairingInit /\ (part # "pairing" => accessory.order = Orders[1])
  /\ PathInit /\ (part # "audio" => source = CHOOSE s \in [file : SourceFiles, ratio : Ratios] : TRUE)
  /\ MetersInit /\ (part # "meters" => meter = "buffer")
  /\ RaopInit /\ (part # "raop" => setup = CHOOSE s \in RaopSetups : TRUE)

MCNext ==
  \/ Only("group") /\ GroupNext
  \/ Only("streamer") /\ StreamNext
  \/ Only("fanout") /\ FanNext
  \/ Only("live") /\ LiveNext
  \/ Only("connection") /\ ConnectionNext
  \/ Only("pairing") /\ PairingNext
  \/ Only("audio") /\ PathNext
  \/ Only("meters") /\ MetersNext
  \/ Only("raop") /\ RaopNext

MCFairness ==
  /\ WF_groupVars(part = "group" /\ GroupNext)
  /\ WF_streamVars(part = "streamer" /\ Loop)
  /\ WF_streamVars(part = "streamer" /\ LoopEnds)
  /\ WF_streamVars(part = "streamer" /\ SendEnds)
  /\ WF_streamVars(part = "streamer" /\ (ThreadControl \/ ThreadPacket))
  /\ WF_streamVars(part = "streamer" /\ ThreadDisconnects)
  /\ WF_streamVars(part = "streamer" /\ GateOpens)
  /\ WF_streamVars(part = "streamer" /\ StopEnds)
  /\ WF_liveVars(part = "live" /\ (Evict \/ Place))
  /\ WF_connectionVars(part = "connection" /\ Steps)
  /\ WF_connectionVars(part = "connection" /\ WorkerEnds)

vars == <<part, groupVars, streamVars, fanVars, liveVars, connectionVars,
          pairingVars, pathVars, meterVars, raopVars>>

MCSafety == MCInit /\ [][MCNext]_vars
MCProgress == MCSafety /\ MCFairness

\* What is captured, decoded, metered and sent on (LiveSafe, PathSafe,
\* MetersSafe): in order, none invented, and the meters count what happened.
AudioSafe ==
  /\ part = "live" => LiveSafe
  /\ part = "audio" => PathSafe
  /\ part = "meters" => MetersSafe

\* What the client begins it ends: a connect call that reached the network
\* returns, a source that ended while the stream plays brings it to its end, the
\* newest live frame is placed, and a disconnect ends with every worker joined.
ClientSettles ==
  (\/ part = "group" /\ CallOpen
   \/ part = "streamer" /\ Draining
   \/ part = "live" /\ Placing
   \/ part = "connection" /\ conn.disconnected)
    ~> (\/ part = "group" /\ Over
        \/ part = "streamer" /\ Drained
        \/ part = "live" /\ ~Placing
        \/ part = "connection" /\ DisconnectOver)
==============================================================================
