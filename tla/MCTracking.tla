----------------------------- MODULE MCTracking -----------------------------
(* An instance of Tracking: whom each of the polling threads of systems/   *)
(* agrodron asks.  The cfg takes navigation and the limiter.               *)
EXTENDS Tracking

MCSource == [f \in Followers |->
  CASE f = "navigation" -> "sitl"
    [] f \in {"limiter", "telemetry"} -> "navigation"
    [] OTHER -> "telemetry"]
=============================================================================
