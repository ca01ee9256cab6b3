---------------------------- MODULE MCFlightPrep ----------------------------
EXTENDS FlightPrep

MCComponents ==
  {"orchestrator", "planner", "converter", "mission_store", "drone_store",
   "manager", "poller", "monitor", "handler", "autopilot", "control",
   "authority", "port", "telemetry"}

MCRoutes == {Zones}
=============================================================================
