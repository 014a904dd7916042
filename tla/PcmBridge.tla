------------------------------ MODULE PcmBridge ------------------------------
(***************************************************************************)
(* The stable PCM bridge thread (apps/openaircast/src/backend/capture.rs): *)
(* live frames, injected alignment clicks, the listening tone and paced    *)
(* silence enter one replace-oldest decoder queue; evictions are counted   *)
(* and published at the edges of a run.  The listening tone is started and *)
(* revoked by the controller (backend/listening_check.rs, controller.rs).  *)
(*                                                                         *)
(* A frame is its kind; a tone frame also carries the number of its tone.  *)
(***************************************************************************)
EXTENDS Integers, Sequences, FiniteSets

CONSTANTS PcmCapacity,   \* CAPTURE_PCM_CAPACITY
          ToneFrames,    \* frames of one listening tone
          Configs,       \* audible configurations a guard can authorise
          MaxTones,      \* bound: listening tests requested
          MaxDropped     \* bound: counted evictions

ASSUME BridgeAssumption ==
  /\ PcmCapacity \in Nat \ {0} /\ ToneFrames \in Nat \ {0}
  /\ MaxTones \in Nat /\ MaxDropped \in Nat

VARIABLES
  live,         \* frames in the worker queue
  clicks,       \* frames in the injection queue
  decoder,      \* the live decoder's queue
  bridge,       \* "running" or "ended"
  tone,         \* ActiveListeningTone: [id, left], id 0 for None
  tone_inbox,   \* listening_tone_rx: at most one request
  tone_active,  \* listening_tone_active
  revoked,      \* cancelled tokens, by tone
  starting,     \* start_listening_tone between its exchange and its send
  tests,        \* tones requested so far
  config,       \* the audible configuration of the snapshot, 0 for none
  authorised,   \* listening_test: the guard's configuration by tone
  pending_drops, in_eviction_run, dropped_total,
  reported      \* the newest total the controller was sent

toneVars   == <<tone, tone_inbox, tone_active, revoked, starting, tests, authorised>>
dropVars   == <<pending_drops, in_eviction_run, dropped_total, reported>>
bridgeVars == <<live, clicks, decoder, bridge, toneVars, config, dropVars>>

Tones == 1..MaxTones
NoTone == [id |-> 0, left |-> 0]
Frame(kind, id) == [kind |-> kind, id |-> id]

BridgeQueues ==
  /\ live \in 0..PcmCapacity /\ clicks \in 0..PcmCapacity
  /\ Len(decoder) <= PcmCapacity

BridgeThread == bridge \in {"running", "ended"} /\ in_eviction_run \in BOOLEAN

ActiveListeningTone ==
  /\ tone \in [id : 0..MaxTones, left : 0..ToneFrames]
  /\ tone_inbox \in 0..MaxTones /\ starting \in 0..MaxTones
  /\ tone_active \in BOOLEAN /\ revoked \subseteq Tones

\* The configuration of the snapshot as capture() sees it: 0 when it is not one
\* a tone may play in, and the one the newest tone was authorised for.
ListeningTestGuard == config \in Configs \cup {0} /\ authorised \in 0..MaxTones

BridgeTypeOK ==
  BridgeQueues /\ BridgeThread /\ ActiveListeningTone /\ ListeningTestGuard

-----------------------------------------------------------------------------
(* Delivery and its counters.                                              *)

\* flush_drops: the queue it shares with the supervisor may be full.
FlushDrops(pending, total) ==
  \E sent \in BOOLEAN :
    /\ pending_drops' = IF sent THEN 0 ELSE pending
    /\ reported' = IF pending > 0 /\ sent THEN total ELSE reported

\* forward over try_send_latest: the oldest frame makes room.
Forward(frame) ==
  IF Len(decoder) < PcmCapacity
  THEN /\ decoder' = Append(decoder, frame)
       /\ in_eviction_run' = FALSE
       /\ IF in_eviction_run THEN FlushDrops(pending_drops, dropped_total)
          ELSE UNCHANGED <<pending_drops, reported>>
       /\ UNCHANGED dropped_total
  ELSE /\ dropped_total < MaxDropped
       /\ decoder' = Append(Tail(decoder), frame)
       /\ dropped_total' = dropped_total + 1
       /\ in_eviction_run' = TRUE
       /\ IF in_eviction_run
          THEN pending_drops' = pending_drops + 1 /\ UNCHANGED reported
          ELSE FlushDrops(pending_drops + 1, dropped_total + 1)

-----------------------------------------------------------------------------
(* One turn of the bridge thread.                                          *)

\* A request whose token is already cancelled releases the flag.
TakeTone ==
  /\ bridge = "running" /\ tone.id = 0 /\ tone_inbox # 0
  /\ tone_inbox' = 0
  /\ IF tone_inbox \in revoked
     THEN tone_active' = FALSE /\ UNCHANGED <<tone, live>>
     ELSE /\ tone' = [id |-> tone_inbox, left |-> ToneFrames]
          /\ live' = 0 /\ UNCHANGED tone_active
  /\ UNCHANGED <<clicks, decoder, bridge, revoked, starting, tests, config, authorised,
                 dropVars>>

EndTone == tone' = NoTone /\ tone_active' = FALSE

RevokeTone ==
  /\ bridge = "running" /\ tone.id \in revoked
  /\ EndTone
  /\ live' = 0
  /\ UNCHANGED <<clicks, decoder, bridge, tone_inbox, revoked, starting, tests, config,
                 authorised, dropVars>>

PlayTone ==
  /\ bridge = "running" /\ tone.id # 0 /\ tone.id \notin revoked
  /\ live' = 0
  /\ Forward(Frame("tone", tone.id))
  /\ IF tone.left = 1 THEN EndTone
     ELSE tone' = [tone EXCEPT !.left = @ - 1] /\ UNCHANGED tone_active
  /\ UNCHANGED <<clicks, bridge, tone_inbox, revoked, starting, tests, config, authorised>>

\* No tone plays and none is waiting: an injected click, a live frame, or
\* after fifty milliseconds a frame of silence.
LiveTurn == bridge = "running" /\ tone.id = 0 /\ tone_inbox = 0

ForwardClick ==
  /\ LiveTurn /\ clicks > 0
  /\ clicks' = clicks - 1
  /\ Forward(Frame("click", 0))
  /\ UNCHANGED <<live, bridge, toneVars, config>>

ForwardLive ==
  /\ LiveTurn /\ clicks = 0 /\ live > 0
  /\ live' = live - 1
  /\ Forward(Frame("live", 0))
  /\ UNCHANGED <<clicks, bridge, toneVars, config>>

PaceSilence ==
  /\ LiveTurn /\ clicks = 0 /\ live = 0
  /\ Forward(Frame("silence", 0))
  /\ UNCHANGED <<live, clicks, bridge, toneVars, config>>

\* The root token: the flag is released and the last drops are published.
EndBridge ==
  /\ bridge = "running"
  /\ bridge' = "ended"
  /\ tone' = NoTone /\ tone_active' = FALSE
  /\ FlushDrops(pending_drops, dropped_total)
  /\ UNCHANGED <<live, clicks, decoder, tone_inbox, revoked, starting, tests, config,
                 authorised, in_eviction_run, dropped_total>>

-----------------------------------------------------------------------------
(* The threads around it.                                                  *)

\* try_send of a capture worker, dropped when full.
WorkerSends ==
  /\ live < PcmCapacity /\ bridge = "running"
  /\ live' = live + 1
  /\ UNCHANGED <<clicks, decoder, bridge, toneVars, config, dropVars>>

\* inject_pattern, as many frames as fit.
InjectPattern ==
  /\ clicks = 0 /\ bridge = "running"
  /\ clicks' = PcmCapacity
  /\ UNCHANGED <<live, decoder, bridge, toneVars, config, dropVars>>

DecoderReads ==
  /\ decoder # <<>>
  /\ decoder' = Tail(decoder)
  /\ UNCHANGED <<live, clicks, bridge, toneVars, config, dropVars>>

\* RunListeningTest: the guard matches the snapshot it was captured from, and
\* compare_exchange claims the bridge.
ClaimTone ==
  /\ config # 0 /\ tests < MaxTones /\ starting = 0
  /\ tests' = tests + 1
  /\ IF tone_active THEN UNCHANGED <<tone_active, starting>>
     ELSE tone_active' = TRUE /\ starting' = tests + 1
  /\ UNCHANGED <<live, clicks, decoder, bridge, tone, tone_inbox, revoked, config,
                 authorised, dropVars>>

\* The send half, and the controller's note of what it authorised.
SendTone ==
  /\ starting # 0
  /\ starting' = 0
  /\ IF bridge = "running" /\ tone_inbox = 0
     THEN tone_inbox' = starting /\ authorised' = starting /\ UNCHANGED tone_active
     ELSE tone_active' = FALSE /\ UNCHANGED <<tone_inbox, authorised>>
  /\ UNCHANGED <<live, clicks, decoder, bridge, tone, revoked, tests, config, dropVars>>

\* Faulty: a changed configuration is shown while the tone goes on.
PublishUnguarded ==
  /\ starting = 0
  /\ config' \in (Configs \cup {0}) \ {config}
  /\ UNCHANGED <<live, clicks, decoder, bridge, toneVars, dropVars>>

\* publish: a snapshot the guard does not match cancels the token.  The
\* controller does not publish while it is inside start_listening_tone.
Publish ==
  /\ starting = 0
  /\ config' \in (Configs \cup {0}) \ {config}
  /\ authorised' = 0
  /\ revoked' = IF authorised # 0 THEN revoked \cup {authorised} ELSE revoked
  /\ UNCHANGED <<live, clicks, decoder, bridge, tone, tone_inbox, tone_active, starting,
                 tests, dropVars>>

-----------------------------------------------------------------------------
BridgeInit ==
  /\ live = 0 /\ clicks = 0 /\ decoder = <<>> /\ bridge = "running"
  /\ tone = NoTone /\ tone_inbox = 0 /\ tone_active = FALSE /\ revoked = {}
  /\ starting = 0 /\ tests = 0 /\ config = 0 /\ authorised = 0
  /\ pending_drops = 0 /\ in_eviction_run = FALSE /\ dropped_total = 0 /\ reported = 0

BridgeTurn ==
  TakeTone \/ RevokeTone \/ PlayTone \/ ForwardClick \/ ForwardLive \/ PaceSilence

BridgeNext ==
  BridgeTurn \/ EndBridge \/ WorkerSends \/ InjectPattern \/ DecoderReads \/ ClaimTone
    \/ SendTone \/ Publish

\* The bridge thread is scheduled; the controller finishes a call it began.
BridgeFairness ==
  /\ WF_bridgeVars(BridgeTurn)
  /\ WF_bridgeVars(SendTone)

-----------------------------------------------------------------------------
(* Properties.                                                             *)

\* The diagnostic signal is never mixed with the music under it: between two
\* frames of one tone the decoder sees nothing else.
ToneUnmixed ==
  \A i, k \in 1..Len(decoder) :
    i < k /\ decoder[i].kind = "tone" /\ decoder[k].kind = "tone"
          /\ decoder[i].id = decoder[k].id
      => \A j \in i..k : decoder[j].kind = "tone"

\* The busy flag is exact while the bridge runs: it is up for one claimed,
\* waiting or playing tone, and for nothing else, so a test is never refused
\* for good and two tones never meet.
ToneFlagExact ==
  bridge = "running" =>
    /\ tone_active <=> (starting # 0 \/ tone_inbox # 0 \/ tone.id # 0)
    /\ Cardinality({starting, tone_inbox, tone.id} \ {0}) <= 1

\* A tone whose token still stands sounds in the configuration the user
\* authorised: the controller holds its guard, and no snapshot was published
\* since it was taken.
ToneIsAuthorised ==
  tone.id # 0 /\ tone.id \notin revoked => tone.id = authorised /\ config # 0

\* No eviction is lost from the books: what was published and what is pending
\* make up the total, also across a full update queue and the end.
DropsAccounted == reported + pending_drops = dropped_total

\* Tones are exclusive, unmixed and authorised, and every dropped frame counts.
BridgeSafe ==
  BridgeTypeOK /\ ToneUnmixed /\ ToneFlagExact /\ ToneIsAuthorised /\ DropsAccounted
=============================================================================
