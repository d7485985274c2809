------------------------- MODULE UpdateTransactionMC -------------------------
EXTENDS UpdateTransaction
=============================================================================
