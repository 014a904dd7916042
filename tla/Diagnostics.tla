---------------------------- MODULE Diagnostics ----------------------------
(***************************************************************************)
(* The diagnostics registry: one worker thread that turns the backend's     *)
(* bounded intake, the session states the shell's bridge reconciles and the   *)
(* client's per-connection event sinks into one published snapshot and one  *)
(* ring of events, which the user interface pages through and a support     *)
(* export copies.                                                           *)
(*                                                                         *)
(* Producers never wait: the feed and the sinks drop their oldest entry     *)
(* when they are full.  An event is its number in the order of recording    *)
(* and a counter stands for the four totals the registry watches.           *)
(***************************************************************************)
EXTENDS Integers, Sequences, FiniteSets, SequencesExt

CONSTANTS
  Targets,      \* the members of a session, as their target indices 1..n
  Generations,  \* bound: the number of session generations
  FeedEvents,   \* what the backend may report: a phase of the session ("failed",
                \* "streaming", "degraded"), a "member"'s failure, frames lost ("pcm")
  FeedSize,     \* DIAGNOSTIC_CAPACITY: entries the broadcast feed retains
  SinkCapacity, \* EVENT_RING_CAPACITY of a connection's sink
  DrainSize,    \* events one drain_events call hands over
  DrainRounds,  \* drain_events calls of one publication
  RingCapacity, \* EVENT_RING_CAPACITY of the registry's ring
  PageLimits,   \* page sizes a reader may ask for
  MaxInputs     \* bound: the steps the registry's surroundings take

ASSUME DiagnosticsBounds ==
  /\ Targets = 1..Cardinality(Targets) /\ Generations \in Nat
  /\ {FeedSize, SinkCapacity, DrainSize, DrainRounds, RingCapacity} \subseteq Nat \ {0}
  /\ FeedEvents \subseteq {"failed", "streaming", "degraded", "member", "pcm"}
  /\ PageLimits \subseteq Nat \ {0} /\ MaxInputs \in Nat

VARIABLES
  sessionState, \* the backend's session state: newest generation, active or not
  registrar,    \* DiagnosticsSessionTracker of the bridge
  lifecycles,   \* the command channel to the worker
  intake,       \* the backend's broadcast feed, as this receiver sees it
  sources,      \* per generation: sinks, audio total and failing feedback
  aggregator,   \* WorkerState and where the worker is
  pool,         \* the events one publication has taken out of the sinks
  ring,         \* DiagnosticsRing
  view,         \* the published DiagnosticsSnapshot
  page,         \* a reader of the ring and what it has been told
  export,       \* the snapshot a support export has loaded so far
  inputs        \* bound: inputs so far

diagnosticsVars == <<sessionState, registrar, lifecycles, intake, sources, aggregator,
                     pool, ring, view, page, export, inputs>>

-----------------------------------------------------------------------------
RingEntry == [cursor : Nat, kind : STRING, session : Nat, from : Nat, upto : Nat]

\* What each part starts from.
DiagnosticsSessionTracker ==
  [newest |-> 0, inactive |-> FALSE, active |-> <<>>, registered |-> <<>>, totals |-> <<>>]
DiagnosticEventReceiver == [queue |-> <<>>, skipped |-> 0, open |-> TRUE, lost |-> 0]
EntryShared ==
  [sinks |-> [d \in Targets |-> <<>>], overflow |-> 0, total |-> 0, failing |-> FALSE,
   recorded |-> {}, warnings |-> {}]
WorkerState(at) ==
  [at |-> at, applied |-> FALSE, active |-> 0, retained |-> 0, memberFailed |-> FALSE,
   phase |-> "none", attention |-> FALSE, feedback |-> FALSE, pcm |-> 0, baseline |-> <<>>,
   dropped |-> 0, closing |-> FALSE, wake |-> FALSE]
DiagnosticsRing == [entries |-> <<>>, next |-> 1, overwritten |-> 0]
DiagnosticsSnapshot ==
  [active |-> 0, session |-> 0, finished |-> FALSE, health |-> "unknown", dropped |-> 0,
   pushed |-> 1]
EventBatch == [cursor |-> 0, seen |-> <<>>, gap |-> {}]

\* A worker without a runtime returns at once.
DiagnosticsInit ==
  /\ sessionState = [generation |-> 0, active |-> FALSE]
  /\ registrar = DiagnosticsSessionTracker /\ lifecycles = <<>>
  /\ intake = DiagnosticEventReceiver /\ sources = [g \in 1..Generations |-> EntryShared]
  /\ \E at \in {"top", "never"} : aggregator = WorkerState(at)
  /\ pool = [next |-> 0, taken |-> <<>>, round |-> 0]
  /\ ring = DiagnosticsRing /\ view = DiagnosticsSnapshot /\ page = EventBatch
  /\ export = <<>> /\ inputs = 0

Input == inputs < MaxInputs /\ inputs' = inputs + 1

-----------------------------------------------------------------------------
(* The ring.                                                               *)

\* push: the newest entry takes the next cursor, the oldest gives way.
Pushed(r, kind, of, from, upto) ==
  LET all == Append(r.entries, [cursor |-> r.next, kind |-> kind, session |-> of,
                                from |-> from, upto |-> upto])
      over == Len(all) > RingCapacity
  IN [entries |-> IF over THEN Tail(all) ELSE all, next |-> r.next + 1,
      overwritten |-> IF over THEN r.overwritten + 1 ELSE r.overwritten]

Oldest == IF ring.entries = <<>> THEN ring.next ELSE ring.entries[1].cursor

\* events_since: the entries after the cursor, at most limit of them, and the
\* gap a reader that fell behind is told of.
EventsSince(cursor, limit) ==
  LET newer == SelectSeq(ring.entries, LAMBDA e : e.cursor > cursor)
      got == SubSeq(newer, 1, IF Len(newer) < limit THEN Len(newer) ELSE limit)
  IN [events |-> got,
      next |-> IF got # <<>> THEN Last(got).cursor
               ELSE IF ring.next - 1 < cursor THEN ring.next - 1 ELSE cursor,
      gap |-> IF cursor < Oldest /\ ring.overwritten > 0 THEN cursor + 1..Oldest - 1 ELSE {}]

ReadPage == \E limit \in PageLimits :
  LET batch == EventsSince(page.cursor, limit)
  IN /\ page' = [cursor |-> batch.next, gap |-> page.gap \cup batch.gap,
                 seen |-> page.seen \o [i \in DOMAIN batch.events |-> batch.events[i].cursor]]
     /\ UNCHANGED <<sessionState, registrar, lifecycles, intake, sources, aggregator, pool,
                    ring, view, export, inputs>>

-----------------------------------------------------------------------------
(* What the registry observes.                                             *)

\* The backend's actor starts and ends session generations; the watch channel
\* keeps only the newest state.
Reports ==
  /\ Input /\ intake.open
  /\ \/ /\ sessionState.generation < Generations
        /\ sessionState' = [generation |-> sessionState.generation + 1, active |-> TRUE]
     \/ sessionState.active /\ sessionState' = [sessionState EXCEPT !.active = FALSE]
  /\ UNCHANGED <<registrar, lifecycles, intake, sources, aggregator, pool, ring, view,
                 page, export>>

\* A broadcast send never waits: a full feed forgets its oldest entry, and the
\* receiver learns how many it missed.
FeedSends == \E e \in FeedEvents :
  /\ Input /\ intake.open
  /\ intake' = IF Len(intake.queue) < FeedSize
             THEN [intake EXCEPT !.queue = Append(@, e)]
             ELSE [intake EXCEPT !.queue = Append(Tail(@), e), !.skipped = @ + 1, !.lost = @ + 1]
  /\ UNCHANGED <<sessionState, registrar, lifecycles, sources, aggregator, pool, ring, view,
                 page, export>>

\* The backend ends: its feed and its watch channel close.
BackendEnds ==
  /\ Input /\ intake.open /\ intake' = [intake EXCEPT !.open = FALSE]
  /\ UNCHANGED <<sessionState, registrar, lifecycles, sources, aggregator, pool, ring, view,
                 page, export>>

\* EventSink::record: the oldest events make room for the newest.
Recorded(s, d) ==
  LET sink == s.sinks[d]
      evicted == IF Len(sink) >= SinkCapacity THEN Len(sink) - SinkCapacity + 1 ELSE 0
  IN [s EXCEPT !.sinks[d] = Append(SubSeq(sink, evicted + 1, Len(sink)), inputs + 1),
               !.overflow = @ + evicted, !.recorded = @ \cup {inputs + 1}]

\* A connection records a feedback result, which it also keeps as its last one,
\* or a warning.
ClientRecords == \E g \in 1..sessionState.generation, d \in Targets :
  /\ Input
  /\ \/ \E failing \in BOOLEAN :
          sources' = [sources EXCEPT ![g] = [Recorded(@, d) EXCEPT !.failing = failing]]
     \/ sources' = [sources EXCEPT ![g] =
                      [Recorded(@, d) EXCEPT !.warnings = @ \cup {inputs + 1}]]
  /\ UNCHANGED <<sessionState, registrar, lifecycles, intake, aggregator, pool, ring, view,
                 page, export>>

\* One of the audio totals grows.
TotalGrows == \E g \in 1..sessionState.generation :
  /\ Input
  /\ sources' = [sources EXCEPT ![g].total = @ + 1]
  /\ UNCHANGED <<sessionState, registrar, lifecycles, intake, aggregator, pool, ring, view,
                 page, export>>

-----------------------------------------------------------------------------
(* The bridge reconciles the newest session state into lifecycle commands.  *)

Register(g) == [op |-> "register", id |-> Len(registrar.registered) + 1, generation |-> g]
FinishOf(id) == [op |-> "finish", id |-> id, generation |-> 0]

\* send: the command waits in the channel; without a worker it goes nowhere.
Sent(commands) ==
  IF aggregator.at \in {"gone", "never"} THEN lifecycles ELSE lifecycles \o commands

\* reconcile, for an ended generation.
ReconcileInactive(g) ==
  /\ g >= registrar.newest
  /\ LET ends == registrar.active # <<>> /\ registrar.active[1].generation <= g
     IN /\ registrar' = [registrar EXCEPT !.newest = g, !.inactive = TRUE,
                         !.active = IF ends THEN <<>> ELSE @]
        /\ lifecycles' = Sent(IF ends THEN <<FinishOf(registrar.active[1].id)>> ELSE <<>>)

\* Faulty: only the generation that is registered now is ignored.
OnlyCurrent(g) == registrar.active # <<>> /\ registrar.active[1].generation = g

\* An Active state the registrar has outlived or already holds is ignored.
Outlived(g) ==
  \/ g < registrar.newest
  \/ g = registrar.newest /\ registrar.inactive
  \/ registrar.active # <<>> /\ registrar.active[1].generation = g

\* reconcile, for a running generation: the earlier registration ends first.
ReconcileActive(g) ==
  /\ ~Outlived(g)
  /\ LET before == IF registrar.active = <<>> THEN <<>> ELSE <<FinishOf(registrar.active[1].id)>>
         new == Register(g)
     IN /\ lifecycles' = Sent(before \o <<new>>)
        /\ registrar' = [newest |-> g, inactive |-> FALSE,
                       active |-> <<[generation |-> g, id |-> new.id]>>,
                       registered |-> Append(registrar.registered, g),
                       totals |-> Append(registrar.totals, sources[g].total)]

\* A pass of the bridge reads the watch's newest value; the end of the intake
\* turns an active session into a failed one (failed_session_state).
Reconciles ==
  /\ ~aggregator.closing
  /\ \/ sessionState.active /\ ReconcileActive(sessionState.generation)
     \/ (~sessionState.active \/ ~intake.open) /\ ReconcileInactive(sessionState.generation)
  /\ aggregator' = [aggregator EXCEPT !.wake = TRUE]
  /\ UNCHANGED <<sessionState, intake, sources, pool, ring, view, page, export, inputs>>

\* Dropping the registry: the flag, the wake-up, and the wait for the worker.
Closes ==
  /\ Input /\ ~aggregator.closing
  /\ aggregator' = [aggregator EXCEPT !.closing = TRUE, !.wake = TRUE]
  /\ UNCHANGED <<sessionState, registrar, lifecycles, intake, sources, pool, ring, view, page,
                 export>>

-----------------------------------------------------------------------------
(* The worker.                                                             *)

Current == registrar.registered[aggregator.active]  \* the active session's generation

\* apply_command: a registration starts from nothing; a finish keeps the final
\* view of the session it names, and only if that one is active.
Applied(w, c) ==
  IF c.op = "register"
  THEN [w EXCEPT !.active = c.id, !.retained = 0, !.memberFailed = FALSE, !.phase = "none",
                 !.attention = FALSE, !.feedback = FALSE, !.pcm = 0, !.baseline = <<>>]
  ELSE IF w.active = c.id THEN [w EXCEPT !.active = 0, !.retained = c.id] ELSE w

ApplyCommand ==
  /\ aggregator.at \in {"top", "last"} /\ lifecycles # <<>>
  /\ aggregator' = [Applied(aggregator, Head(lifecycles)) EXCEPT !.applied = TRUE]
  /\ lifecycles' = Tail(lifecycles)
  /\ UNCHANGED <<sessionState, registrar, intake, sources, pool, ring, view, page, export, inputs>>

\* Once the channel is empty the worker publishes if it applied anything, and
\* the last time in any case.
Settles ==
  /\ lifecycles = <<>>
  /\ \/ /\ aggregator.at = "top"
        /\ aggregator' = [aggregator EXCEPT !.applied = FALSE,
                            !.at = IF @ = "top" /\ aggregator.applied THEN "publish" ELSE "check"]
     \/ aggregator.at = "last" /\ aggregator' = [aggregator EXCEPT !.at = "farewell"]
  /\ pool' = [next |-> 1, taken |-> <<>>, round |-> 1]
  /\ UNCHANGED <<sessionState, registrar, lifecycles, intake, sources, ring, view, page, export, inputs>>

ChecksShutdown ==
  /\ aggregator.at = "check"
  /\ aggregator' = [aggregator EXCEPT !.at = IF aggregator.closing THEN "last" ELSE "wait"]
  /\ UNCHANGED <<sessionState, registrar, lifecycles, intake, sources, pool, ring, view, page,
                 export, inputs>>

Wakes ==
  /\ aggregator.at = "wait" /\ aggregator.wake
  /\ aggregator' = [aggregator EXCEPT !.at = "top", !.wake = FALSE]
  /\ UNCHANGED <<sessionState, registrar, lifecycles, intake, sources, pool, ring, view, page,
                 export, inputs>>

\* ingest_backend_event: the loss a lagging receiver reports, the capture's
\* drops, a member's failure and the session's phase; each is also an entry.
Ingested(w, e) ==
  [w EXCEPT !.pcm = IF e = "pcm" THEN @ + 1 ELSE @,
            !.attention = @ \/ (e = "pcm" /\ w.active # 0),
            !.memberFailed = @ \/ (e = "member" /\ w.active # 0),
            !.phase = IF e \in {"failed", "streaming", "degraded"} THEN e ELSE @]

FromFeed ==
  /\ aggregator.at = "wait"
  /\ \/ /\ intake.skipped > 0
        /\ intake' = [intake EXCEPT !.skipped = 0]
        /\ aggregator' = [aggregator EXCEPT !.dropped = @ + intake.skipped, !.at = "publishFeed"]
        /\ ring' = Pushed(ring, "lag", 0, 0, intake.skipped)
     \/ /\ intake.skipped = 0 /\ intake.queue # <<>>
        /\ LET e == Head(intake.queue)
               w == Ingested(aggregator, e)
               loss == IF e = "pcm" /\ w.active # 0
                       THEN Pushed(ring, "pcm", w.active, w.pcm - 1, w.pcm) ELSE ring
           IN /\ intake' = [intake EXCEPT !.queue = Tail(@)]
              /\ aggregator' = [w EXCEPT !.at = "publishFeed"]
              /\ ring' = Pushed(loss, e, IF e = "member" THEN w.active ELSE 0, 0, 0)
  /\ pool' = [next |-> 1, taken |-> <<>>, round |-> 1]
  /\ UNCHANGED <<sessionState, registrar, lifecycles, sources, view, page, export, inputs>>

-----------------------------------------------------------------------------
(* A publication: the client's events, its counters, then the snapshot.     *)

Publishing == aggregator.at \in {"publish", "publishFeed", "farewell"}

\* drain_events takes each sink in turn; connections go on recording.
TakesSink ==
  /\ Publishing /\ aggregator.active # 0 /\ pool.next \in Targets
  /\ LET sink == sources[Current].sinks[pool.next]
     IN pool' = [pool EXCEPT !.next = @ + 1,
          !.taken = @ \o [i \in DOMAIN sink |-> [n |-> sink[i], of |-> pool.next]]]
  /\ sources' = [sources EXCEPT ![Current].sinks[pool.next] = <<>>]
  /\ UNCHANGED <<sessionState, registrar, lifecycles, intake, aggregator, ring, view, page, export,
                 inputs>>

InOrder(taken) == SortSeq(taken, LAMBDA a, b : a.n < b.n)

\* What exceeds the limit goes back behind what its sink has recorded since.
Remainder(sorted) == SubSeq(sorted, DrainSize + 1, Len(sorted))

RemainderOf(d, sorted) ==
  LET own == SelectSeq(Remainder(sorted), LAMBDA t : t.of = d)
  IN [i \in DOMAIN own |-> own[i].n]

PushedAll(r, events) ==
  FoldLeft(LAMBDA acc, t : Pushed(acc, "client", aggregator.active, t.n, t.n), r, events)

DrainsEvents ==
  /\ Publishing /\ aggregator.active # 0 /\ pool.next = Cardinality(Targets) + 1
  /\ LET sorted == InOrder(pool.taken)
         out == SubSeq(sorted, 1, IF Len(sorted) < DrainSize THEN Len(sorted) ELSE DrainSize)
     IN /\ ring' = PushedAll(ring, out)
        /\ sources' = [sources EXCEPT ![Current].sinks =
             [d \in Targets |-> @[d] \o RemainderOf(d, sorted)]]
        /\ pool' = IF out = <<>> \/ pool.round = DrainRounds
                       THEN [next |-> 0, taken |-> <<>>, round |-> 0]
                       ELSE [next |-> 1, taken |-> <<>>, round |-> pool.round + 1]
        /\ aggregator' = [aggregator EXCEPT !.attention =
             @ \/ \E i \in DOMAIN out : out[i].n \in sources[Current].warnings]
  /\ UNCHANGED <<sessionState, registrar, lifecycles, intake, view, page, export, inputs>>

\* compute_health: no session, an authoritative failure, a loss, a warning or a
\* missing member, or running.
Health(w) ==
  IF w.active = 0 THEN "unknown"
  ELSE IF w.memberFailed \/ w.phase = "failed" THEN "error"
  ELSE IF w.attention \/ w.feedback \/ w.phase = "degraded" THEN "attention"
  ELSE "running"

\* observe_definite_counters: the first reading only seeds the baseline.
Observed(w, total) ==
  [w EXCEPT !.attention = @ \/ (w.baseline # <<>> /\ total > w.baseline[1]),
            !.baseline = <<total>>]
Grew(w, total) == w.baseline # <<>> /\ total > w.baseline[1]

\* publish: the snapshot replaces the one readers see, in one store.
Publishes ==
  /\ Publishing
  /\ aggregator.active # 0 => pool.next = 0
  /\ LET total == sources[Current].total
         seen == IF aggregator.active = 0 THEN aggregator
                 ELSE [Observed(aggregator, total) EXCEPT
                         !.feedback = @ \/ sources[Current].failing]
     IN /\ ring' = IF aggregator.active # 0 /\ Grew(aggregator, total)
                   THEN Pushed(ring, "counter", aggregator.active, aggregator.baseline[1], total)
                   ELSE ring
        /\ aggregator' = [seen EXCEPT !.at = CASE @ = "publish" -> "check"
                                               [] @ = "publishFeed" -> "top"
                                               [] @ = "farewell" -> "gone"]
        /\ view' = [active |-> seen.active,
                    session |-> IF seen.active # 0 THEN seen.active ELSE seen.retained,
                    finished |-> seen.active = 0, health |-> Health(seen),
                    dropped |-> seen.dropped, pushed |-> ring'.next]
  /\ pool' = [next |-> 0, taken |-> <<>>, round |-> 0]
  /\ UNCHANGED <<sessionState, registrar, lifecycles, intake, sources, page, export, inputs>>

-----------------------------------------------------------------------------
(* The support export copies the snapshot, then the ring.                   *)

LoadsView ==
  /\ Input /\ export = <<>> /\ export' = <<view>>
  /\ UNCHANGED <<sessionState, registrar, lifecycles, intake, sources, aggregator, pool, ring,
                 view, page>>

\* support_export_input: what an export that copies the ring now consists of.
ExportInput ==
  [view |-> export[1], entries |-> ring.entries, gap |-> ring.overwritten]

CopiesRing ==
  /\ export # <<>> /\ export' = <<>>
  /\ UNCHANGED <<sessionState, registrar, lifecycles, intake, sources, aggregator, pool, ring,
                 view, page, inputs>>

\* AliasTable::build: sessions are numbered as a fixed walk meets them, the
\* snapshot's before the events'.
Aliases(x) ==
  LET walk == <<x.view.active, x.view.session>>
                \o [i \in DOMAIN x.entries |-> x.entries[i].session]
      Meet(seen, s) == IF s = 0 \/ Contains(seen, s) THEN seen ELSE Append(seen, s)
  IN FoldLeft(Meet, <<>>, walk)

\* The number a session goes by in one export; 0 for none, -1 if unresolved.
AliasOf(x, s) ==
  LET known == {i \in DOMAIN Aliases(x) : Aliases(x)[i] = s}
  IN IF s = 0 THEN 0 ELSE IF known = {} THEN -1 ELSE CHOOSE i \in known : TRUE

SupportView(x) ==
  [active |-> AliasOf(x, x.view.active), session |-> AliasOf(x, x.view.session),
   health |-> x.view.health, dropped |-> x.view.dropped]

SupportEvent(x, e) == [cursor |-> e.cursor, kind |-> e.kind, session |-> AliasOf(x, e.session)]

\* build_support_export.
SupportDocument(x) ==
  [view |-> SupportView(x), retained |-> Len(x.entries), gap |-> x.gap,
   drops |-> x.view.dropped, events |-> [i \in DOMAIN x.entries |-> SupportEvent(x, x.entries[i])]]

\* build_support_summary.
SupportSummary(x) ==
  [health |-> SupportView(x).health, session |-> SupportView(x).session,
   retained |-> Len(x.entries), gap |-> x.gap, drops |-> x.view.dropped]

-----------------------------------------------------------------------------
DiagnosticsNext ==
  \/ Reports \/ FeedSends \/ BackendEnds \/ ClientRecords \/ TotalGrows
  \/ Reconciles \/ Closes
  \/ ApplyCommand \/ Settles \/ ChecksShutdown \/ Wakes \/ FromFeed
  \/ TakesSink \/ DrainsEvents \/ Publishes
  \/ ReadPage \/ LoadsView \/ CopiesRing

DiagnosticsFairness ==
  WF_diagnosticsVars(ApplyCommand \/ Settles \/ ChecksShutdown \/ Wakes \/ FromFeed
                       \/ TakesSink \/ DrainsEvents \/ Publishes)

DiagnosticsSpec == DiagnosticsInit /\ [][DiagnosticsNext]_diagnosticsVars /\ DiagnosticsFairness

-----------------------------------------------------------------------------
(* Properties.                                                             *)

\* The shapes of the registry's state.
DiagnosticsTypeOK ==
  /\ sessionState \in [generation : 0..Generations, active : BOOLEAN]
  /\ Range(registrar.registered) \subseteq 1..Generations
  /\ Len(intake.queue) <= FeedSize
  /\ aggregator.at \in {"top", "check", "wait", "publish", "publishFeed", "last", "farewell",
                        "gone", "never"}
  /\ aggregator.active \in 0..Len(registrar.registered)
  /\ view.health \in {"unknown", "error", "attention", "running"}
  /\ Range(ring.entries) \subseteq RingEntry

\* The ring holds the newest events under consecutive cursors and counts the
\* rest (push, whatever is pushed while readers page through it).
RingIsExact ==
  /\ Len(ring.entries) <= RingCapacity
  /\ ring.overwritten + Len(ring.entries) = ring.next - 1
  /\ \A i \in DOMAIN ring.entries :
       ring.entries[i].cursor = ring.next - 1 - Len(ring.entries) + i

\* A reader that follows next_cursor sees every event once and in order, or is
\* told that it was overwritten (events_since).
ReaderMissesNothing ==
  /\ \A i \in 1..Len(page.seen) - 1 : page.seen[i] < page.seen[i + 1]
  /\ Range(page.seen) \cap page.gap = {}
  /\ Range(page.seen) \cup page.gap = 1..page.cursor

Buffered(g) == UNION {Range(sources[g].sinks[d]) : d \in Targets}
Drawn == {t.n : t \in Range(pool.taken)}
Served(g) == {e \in Range(ring.entries) :
                e.kind = "client" /\ registrar.registered[e.session] = g}

\* A client's event is buffered, being drained or handed on, never two of them
\* and never twice, and only counted evictions leave the sinks (drain_events
\* while the connections go on recording).
ClientEventsOnce ==
  \A g \in 1..Generations :
    LET inSinks == Buffered(g)
        moving == IF aggregator.active # 0 /\ Current = g THEN Drawn ELSE {}
        handed == {e.from : e \in Served(g)}
        sunk == FoldSet(LAMBDA d, acc : Len(sources[g].sinks[d]) + acc, 0, Targets)
    IN /\ sunk = Cardinality(inSinks) /\ Cardinality(handed) = Cardinality(Served(g))
       /\ inSinks \cap moving = {} /\ handed \cap (inSinks \cup moving) = {}
       /\ inSinks \cup moving \cup handed \subseteq sources[g].recorded
       /\ ring.overwritten = 0 =>
            Cardinality(sources[g].recorded) =
              Cardinality(inSinks \cup moving \cup handed) + sources[g].overflow

\* Generations are registered in order, each once, and a worker that has caught
\* up shows exactly the session the bridge has registered (reconcile, the
\* command channel and the final drain of a registry being dropped).
RegistryAgrees ==
  /\ \A i \in 1..Len(registrar.registered) - 1 : registrar.registered[i] < registrar.registered[i + 1]
  /\ (lifecycles = <<>> /\ aggregator.at \in {"wait", "gone"}) =>
       /\ aggregator.active = IF registrar.active = <<>> THEN 0 ELSE registrar.active[1].id
       /\ view.active = aggregator.active
       /\ view.session = Len(registrar.registered)
  /\ aggregator.at = "gone" => lifecycles = <<>>

\* A published loss belongs to the session it is shown for: growth is shown
\* in adjoining pieces that never reach back before the session was registered
\* (observe_definite_counters across registrations).
LossesAreOfTheSession ==
  LET grown == SelectSeq(ring.entries, LAMBDA e : e.kind = "counter")
  IN \A i \in DOMAIN grown :
       /\ registrar.totals[grown[i].session] <= grown[i].from
       /\ grown[i].from < grown[i].upto
       /\ grown[i].upto <= sources[registrar.registered[grown[i].session]].total
       /\ \A j \in DOMAIN grown : j = i + 1 /\ grown[j].session = grown[i].session =>
            grown[j].from = grown[i].upto

\* A session that lost frames or was warned of is not shown as running: whatever
\* entry of it a snapshot has seen still counts (attention_definite across
\* publications, finishes and registrations).
AttentionIsKept ==
  view.health = "running" =>
    \A i \in DOMAIN ring.entries :
      LET e == ring.entries[i]
      IN  (e.session = view.active /\ e.cursor < view.pushed) =>
            /\ e.kind \notin {"pcm", "counter"}
            /\ e.kind = "client" =>
                 e.from \notin sources[registrar.registered[e.session]].warnings

\* What the feed dropped is counted once: reported to the worker or still to be
\* (a receiver's lag across registrations and publications).
LagIsCounted ==
  /\ intake.lost = intake.skipped + aggregator.dropped
  /\ view.dropped <= aggregator.dropped

\* An export is one window of the ring: it accounts for every event the
\* snapshot had seen, every session it names has a number of its own, the live
\* session is the first, and the summary a user pastes agrees with the document
\* (support_export_input, AliasTable::build, build_support_summary).
ExportIsWhole ==
  export # <<>> =>
    LET x == ExportInput
        document == SupportDocument(x)
        summary == SupportSummary(x)
    IN /\ document.gap + document.retained = ring.next - 1 /\ x.view.pushed <= ring.next
       /\ x.view.active # 0 => document.view.active = 1
       /\ IsInjective(Aliases(x))
       /\ -1 \notin {document.view.active, document.view.session}
                      \cup {e.session : e \in Range(document.events)}
       /\ [f \in DOMAIN summary \ {"health", "session"} |-> summary[f]]
            = [f \in {"retained", "gap", "drops"} |-> document[f]]
       /\ summary.health = document.view.health /\ summary.session = document.view.session

\* A registry being dropped gets its worker back (Drop waits for the thread).
RegistryCloses == aggregator.closing ~> aggregator.at \in {"gone", "never"}

DiagnosticsSafe ==
  /\ DiagnosticsTypeOK /\ RingIsExact /\ ReaderMissesNothing /\ ClientEventsOnce
  /\ RegistryAgrees /\ LossesAreOfTheSession /\ AttentionIsKept /\ LagIsCounted
  /\ ExportIsWhole
=============================================================================
