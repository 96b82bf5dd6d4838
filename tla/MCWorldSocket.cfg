SPECIFICATION Spec
CONSTANTS
    NoSession = NoSession
    MaxSessions = 2
    MaxWrites = 2
    MaxPackets = 2
INVARIANTS TypeOK RefsExact NoUseAfterFree AttachSafe QueueOnOpenSocket
PROPERTIES ClosedSocketFreed StopEnds
