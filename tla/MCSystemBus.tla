---------------------------- MODULE MCSystemBus ----------------------------
EXTENDS SystemBus
=============================================================================
