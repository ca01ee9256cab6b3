---------------------------- MODULE MCDronePort ----------------------------
EXTENDS DronePort, TLC

CONSTANTS p1, p2

MCPortOrder == <<p1, p2>>
=============================================================================
