SPECIFICATION Spec
CONSTANTS
    Opcodes = {"PLAYER_LOGIN", "ENUM_CHARACTERS", "LOGOUT_REQUEST", "LOGOUT_CANCEL", "ATTACKSWING", "MOVEMENT", "WORLDPORT_ACK", "CANCEL_TRADE"}
    MaxPackets = 3
    MaxProcessed = 1
INVARIANTS TypeOK PacketExact OvertakenOnlyIfDelayed SessionExact
PROPERTIES MapWorkerKeepsPlayer PacketsConsumed SessionEnds
