--------------------------- MODULE MCFabricLedger ---------------------------
EXTENDS FabricLedger
=============================================================================
