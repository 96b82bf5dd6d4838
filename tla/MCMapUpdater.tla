---------------------------- MODULE MCMapUpdater ----------------------------
EXTENDS MapUpdater, TLC

CONSTANTS plain, dungeon, raid, i1, i2, i3, w1, w2

MCBaseMaps == {plain, dungeon, raid}
MCInstances == {i1, i2, i3}
MCWorkers == {w1, w2}
MCParentOf == [i \in MCInstances |-> IF i = i3 THEN raid ELSE dungeon]

=============================================================================
