--------------------------- MODULE ReceiverMachine ---------------------------
(***************************************************************************)
(* The per-receiver lifecycle of apps/openaircast/src/backend/recovery.rs, *)
(* as operators on a machine record.  An operation returns the machine it  *)
(* leaves behind and whether every transition it made was permitted: a     *)
(* rejected one panics in debug builds and is a diagnostic in release      *)
(* builds, and leaves the state alone in both.                             *)
(*                                                                         *)
(* Attempt counters, deadlines, error texts and setup phases are payload.  *)
(* enter_setup, which only tests call, is left out: enter_streaming makes  *)
(* the same move.                                                          *)
(***************************************************************************)

NoRole == "none"
Roles  == {"Single", "Primary", "Secondary"}
Labels == {"Discovered", "Connecting", "SettingUp", "Ready", "Streaming",
           "RetryWaiting", "Unavailable", "Failed"}

Lifecycles == [label : Labels, role : Roles \cup {NoRole}, retryable : BOOLEAN]
Machines   == [state : Lifecycles, role : Roles \cup {NoRole},
               service_available : BOOLEAN]

Plain(label) == [label |-> label, role |-> NoRole, retryable |-> FALSE]
InRole(label, role) == [label |-> label, role |-> role, retryable |-> FALSE]
FailedState(retryable) ==
  [label |-> "Failed", role |-> NoRole, retryable |-> retryable]

OwnedLabels == {"Connecting", "SettingUp", "Ready", "Streaming"}

\* The approved edge set.
Permitted(from, to) ==
  \/ to.label = "Unavailable"
  \/ <<from.label, to.label>> \in
       {<<"Unavailable", "Discovered">>, <<"Discovered", "Connecting">>,
        <<"Connecting", "SettingUp">>, <<"SettingUp", "SettingUp">>,
        <<"SettingUp", "Ready">>, <<"Ready", "Streaming">>,
        <<"RetryWaiting", "Connecting">>, <<"Failed", "Connecting">>}
  \/ from.label \in OwnedLabels /\ to.label = "Failed"
  \/ from.label = "Failed" /\ from.retryable /\ to.label = "RetryWaiting"

OwnedByGeneration(m) == m.state.label \in OwnedLabels

AwaitingRejoin(m) ==
  \/ m.state.label \in {"Discovered", "RetryWaiting"}
  \/ m.state.label = "Failed" /\ m.state.retryable

InBackoff(m) == m.state.label \in {"RetryWaiting", "Failed"}

AtRest(available) == Plain(IF available THEN "Discovered" ELSE "Unavailable")

NewMachine(available) ==
  [state |-> AtRest(available), role |-> NoRole,
   service_available |-> available]

Done(m) == [machine |-> m, ok |-> TRUE]

Transition(m, to) ==
  LET ok == m.state = to \/ Permitted(m.state, to)
  IN  [machine |-> IF ok THEN [m EXCEPT !.state = to] ELSE m, ok |-> ok]

SetServiceAvailable(m, available) ==
  LET n == [m EXCEPT !.service_available = available]
  IN  IF available
      THEN IF m.state.label = "Unavailable"
           THEN Transition(n, Plain("Discovered")) ELSE Done(n)
      ELSE IF OwnedByGeneration(m)
           THEN Done(n)
           ELSE Transition([n EXCEPT !.role = NoRole], Plain("Unavailable"))

\* Session-authoritative: re-anchors whatever the row said.
BeginGeneration(m) ==
  Done([m EXCEPT !.state = Plain("Connecting"), !.role = NoRole])

\* The walk Connecting -> SettingUp -> Ready -> Streaming.
EnterStreaming(m, role) ==
  LET Walk(n, from, to) ==
        IF n.ok /\ n.machine.state.label = from
        THEN Transition(n.machine, InRole(to, role)) ELSE n
      anchored == IF OwnedByGeneration(m) THEN m
                  ELSE [m EXCEPT !.state = Plain("Connecting")]
      ready == Walk(Walk(Done(anchored), "Connecting", "SettingUp"),
                    "SettingUp", "Ready")
  IN  IF m.state = InRole("Streaming", role) THEN Done(m)
      ELSE IF ~ready.ok THEN ready
      ELSE Transition([ready.machine EXCEPT !.role = role],
                      InRole("Streaming", role))

Fail(m, retryable) ==
  Done([m EXCEPT !.state = FailedState(retryable), !.role = NoRole])

WaitRetry(m) == Transition(m, Plain("RetryWaiting"))

RetryNow(m) == IF InBackoff(m) THEN Transition(m, Plain("Connecting"))
               ELSE Done(m)

LeaveSession(m) ==
  IF OwnedByGeneration(m)
  THEN [m EXCEPT !.state = AtRest(m.service_available), !.role = NoRole]
  ELSE m

Release(m) ==
  IF m.state.label = "Unavailable" THEN m
  ELSE [m EXCEPT !.state = AtRest(m.service_available), !.role = NoRole]
============================================================================
