---------------------------- MODULE OperationQueue ----------------------------
(***************************************************************************)
(* What a database pool promises its callers, without threads, connections *)
(* or an executor: operations are accepted only while the pool is open,    *)
(* start in the order in which they were accepted, at most Capacity of     *)
(* them at a time, and are finished once; a caller that waits goes on when *)
(* the barrier it posted has finished; and the pool is closed only when    *)
(* everything it accepted has finished.  DatabaseQueue implements this     *)
(* specification.                                                          *)
(***************************************************************************)
EXTENDS Integers, FiniteSets

CONSTANTS Callers, Capacity

VARIABLES
    phase,          \* "opening", "open", "closing", "closed"
    accepted,       \* operations and barriers accepted so far
    started,        \* of these, how many have started: the first ones
    finished,       \* the operations that have finished
    barrier         \* of each caller: the barrier it waits for, or 0

vars == <<phase, accepted, started, finished, barrier>>

InProgress == (1..started) \ finished

Init ==
    /\ phase = "opening"
    /\ accepted = 0 /\ started = 0 /\ finished = {}
    /\ barrier = [c \in Callers |-> 0]

Open ==
    /\ phase = "opening" /\ phase' = "open"
    /\ UNCHANGED <<accepted, started, finished, barrier>>

Accept ==
    /\ phase = "open"
    /\ accepted' = accepted + 1
    /\ UNCHANGED <<phase, started, finished>>

Submit == Accept /\ UNCHANGED barrier

Await(c) ==
    /\ barrier[c] = 0
    /\ Accept
    /\ barrier' = [barrier EXCEPT ![c] = accepted']

Return(c) ==
    /\ barrier[c] \in finished
    /\ barrier' = [barrier EXCEPT ![c] = 0]
    /\ UNCHANGED <<phase, accepted, started, finished>>

Start ==
    /\ started < accepted
    /\ Cardinality(InProgress) < Capacity
    /\ started' = started + 1
    /\ UNCHANGED <<phase, accepted, finished, barrier>>

Finish(k) ==
    /\ k \in InProgress
    /\ finished' = finished \cup {k}
    /\ UNCHANGED <<phase, accepted, started, barrier>>

Close ==
    /\ phase = "open" /\ phase' = "closing"
    /\ UNCHANGED <<accepted, started, finished, barrier>>

Destroy ==
    /\ phase = "closing" /\ phase' = "closed"
    /\ finished = 1..accepted
    /\ UNCHANGED <<accepted, started, finished, barrier>>

Next ==
    \/ Open \/ Submit \/ Start \/ Close \/ Destroy
    \/ \E c \in Callers : Await(c) \/ Return(c)
    \/ \E k \in InProgress : Finish(k)

Spec == Init /\ [][Next]_vars
=============================================================================
