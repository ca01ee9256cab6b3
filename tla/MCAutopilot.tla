---------------------------- MODULE MCAutopilot ----------------------------
EXTENDS Autopilot
=============================================================================
