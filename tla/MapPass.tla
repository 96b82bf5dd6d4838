------------------------------- MODULE MapPass -------------------------------
(***************************************************************************)
(* What MapManager promises of one update pass, without threads, queues or *)
(* locks: every map that exists when the pass begins is updated once, or   *)
(* is unloaded, or refuses to be unloaded; only then are the maps given    *)
(* their DelayedUpdate, and none is updated while that goes on.  MapUpdater*)
(* implements this specification.                                          *)
(***************************************************************************)

CONSTANTS
    BaseMaps,       \* the maps of MapManager::i_maps
    Instances       \* the maps MapInstanced objects own

VARIABLES
    stage,          \* where the pass is
    exists,         \* the maps that are allocated
    outcome         \* what the current pass has done with each map

vars == <<stage, exists, outcome>>

AllMaps == BaseMaps \cup Instances

Init ==
    /\ stage = "idle"
    /\ exists = {}
    /\ outcome = [m \in AllMaps |-> "due"]

Create(m) ==
    /\ stage = "idle"
    /\ m \notin exists
    /\ exists' = exists \cup {m}
    /\ UNCHANGED <<stage, outcome>>

Begin ==
    /\ stage = "idle"
    /\ stage' = "updating"
    /\ outcome' = [m \in AllMaps |-> "due"]
    /\ UNCHANGED exists

Settle(m, how) ==
    /\ stage = "updating"
    /\ m \in exists
    /\ outcome[m] = "due"
    /\ outcome' = [outcome EXCEPT ![m] = how]

Update(m) == Settle(m, "updated") /\ UNCHANGED <<stage, exists>>

Refuse(i) == Settle(i, "kept") /\ UNCHANGED <<stage, exists>>

Destroy(i) ==
    /\ Settle(i, "destroyed")
    /\ exists' = exists \ {i}
    /\ UNCHANGED stage

EndUpdates ==
    /\ stage = "updating"
    /\ \A m \in exists : outcome[m] # "due"
    /\ stage' = "delayed"
    /\ UNCHANGED <<exists, outcome>>

EndPass ==
    /\ stage = "delayed"
    /\ stage' = "idle"
    /\ UNCHANGED <<exists, outcome>>

Close ==
    /\ stage = "idle"
    /\ stage' = "closed"
    /\ exists' = {}
    /\ UNCHANGED outcome

Next ==
    \/ \E m \in AllMaps : Create(m) \/ Update(m)
    \/ \E i \in Instances : Refuse(i) \/ Destroy(i)
    \/ Begin \/ EndUpdates \/ EndPass \/ Close

Spec == Init /\ [][Next]_vars
=============================================================================
