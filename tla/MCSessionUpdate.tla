--------------------------- MODULE MCSessionUpdate ---------------------------
EXTENDS SessionUpdate
=============================================================================
