---------------------------- MODULE MCWorldSocket ----------------------------
EXTENDS WorldSocket
=============================================================================
