SPECIFICATION Spec
CONSTANTS
    plain = plain
    dungeon = dungeon
    raid = raid
    i1 = i1
    i2 = i2
    i3 = i3
    w1 = w1
    w2 = w2
    BaseMaps <- MCBaseMaps
    Instances <- MCInstances
    ParentOf <- MCParentOf
    Workers <- MCWorkers
    World = World
    NoMap = NoMap
    NoThread = NoThread
    MaxPasses = 2
INVARIANTS TypeOK PendingCounts Barrier NoUseAfterDelete
PROPERTIES ImplementsMapPass WorldNeverStuck
