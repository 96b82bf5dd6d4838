-------------------------- MODULE MCTransactionTask --------------------------
EXTENDS TransactionTask, TLC
=============================================================================
