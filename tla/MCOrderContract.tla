-------------------------- MODULE MCOrderContract --------------------------
EXTENDS OrderContract, TLC
=============================================================================
