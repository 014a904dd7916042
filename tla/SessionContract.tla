--------------------------- MODULE SessionContract ---------------------------
(***************************************************************************)
(* What the session supervisor promises the controller about the order of  *)
(* its lifecycle edges (SessionUpdate of                                   *)
(* apps/openaircast/src/backend/session.rs), whatever the requests, the    *)
(* starts, the probes and the capacity of the update queue do: the         *)
(* generation never goes back, and inside one generation a session is      *)
(* announced, becomes active at most once, and ends for good.              *)
(***************************************************************************)
EXTENDS Naturals

VARIABLES generation,  \* the generation the last edge named
          stage        \* what it said of that generation

Stages == {"Starting", "Active", "Recovering", "Stopped"}

Init == generation = 0 /\ stage = "Stopped"

\* A newer generation takes over.  Edges that found the queue full are missing,
\* so its first visible edge may be any.
Supersede ==
  /\ generation' \in Nat /\ generation' > generation
  /\ stage' \in Stages

\* The start of this generation succeeded.
Activate ==
  /\ stage = "Starting" /\ stage' = "Active"
  /\ generation' = generation

\* The session of this generation ended: by a failed start or activation, by a
\* rebuild (which may find this generation already stopped), or by a suspend.
End ==
  /\ \/ stage # "Recovering" /\ stage' = "Recovering"
     \/ stage \in {"Starting", "Active"} /\ stage' = "Stopped"
  /\ generation' = generation

Next == Supersede \/ Activate \/ End

Spec == Init /\ [][Next]_<<generation, stage>>
============================================================================
