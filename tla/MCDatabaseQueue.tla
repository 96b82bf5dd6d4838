--------------------------- MODULE MCDatabaseQueue ---------------------------
EXTENDS DatabaseQueue, TLC

CONSTANTS c1, c2

MCClients == {c1, c2}

=============================================================================
