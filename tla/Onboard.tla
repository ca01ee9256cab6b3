------------------------------ MODULE Onboard ------------------------------
(***************************************************************************)
(* The drone's side of a mission's upload and start: the security monitor  *)
(* passes requests on and waits for the target's answer, one at a time;    *)
(* the mission handler, asked through it, asks through it in turn; the     *)
(* autopilot's consumer thread loads and starts the mission, its control   *)
(* thread asks for the takeoff.                                            *)
(*                                                                         *)
(* Autopilot has the flight itself and the other commands, and             *)
(* EmergencyLanding the monitor's policies, which allow all this.          *)
(***************************************************************************)
EXTENDS Calls

CONSTANT MissionIds

VARIABLES mission, \* autopilot: _mission
          state,   \* autopilot: _state
          handled, \* mission handler: _last_mission
          checked  \* the mission whose takeoff the control thread asks for

onboardVars == <<mission, state, handled, checked>>

OnboardTypeOK ==
  /\ {mission, handled, checked} \subseteq MissionIds \cup {None}
  /\ state \in {"IDLE", "MISSION_LOADED", "PRE_FLIGHT", "EXECUTING", "ABORTED"}

OnboardInit ==
  mission = None /\ handled = None /\ checked = None /\ state = "IDLE"

-----------------------------------------------------------------------------
(* security_monitor.py: _handle_proxy_request. *)

\* The component a proxied action is for.
Target == [load_mission |-> "handler", load_header |-> "handler",
           mission_load |-> "autopilot", START |-> "autopilot",
           request_takeoff |-> "authority", port_takeoff |-> "port",
           get_state |-> "telemetry"]

HandleProxyRequest(action) ==
  /\ Asks("monitor", action, Target[action],
          Message(action, First("monitor").mission, None))
  /\ UNCHANGED onboardVars

\* target_timeout, or the answer of the target.
EndProxyRequest(action) ==
  /\ Ends("monitor", action, <<>>,
          IF answer["monitor"] = "none" THEN "error" ELSE answer["monitor"])
  /\ UNCHANGED onboardVars

-----------------------------------------------------------------------------
(* mission_handler.py *)

\* "no_waypoints_in_wpl"
RejectMission ==
  Handles("handler", "load_header", <<>>, "error") /\ UNCHANGED onboardVars

\* A valid mission is kept before the autopilot has it.
HandleLoadMission ==
  /\ Asks("handler", "load_mission", "monitor",
          Message("mission_load", First("handler").mission, None))
  /\ handled' = First("handler").mission
  /\ UNCHANGED <<mission, state, checked>>

\* autopilot_no_response, the monitor's error, or ok.
EndLoadMission ==
  /\ Ends("handler", "load_mission", <<>>,
          IF answer["handler"] = "ok" THEN "ok" ELSE "error")
  /\ UNCHANGED onboardVars

-----------------------------------------------------------------------------
(* autopilot.py *)

HandleMissionLoad ==
  /\ Handles("autopilot", "mission_load", <<>>, "ok")
  /\ mission' = First("autopilot").mission
  /\ state' = "MISSION_LOADED"
  /\ UNCHANGED <<handled, checked>>

\* Without a mission START waits three seconds for one, in the thread that
\* would take it.
AcceptsStart == mission # None /\ state \in {"MISSION_LOADED", "IDLE"}

HandleStart ==
  /\ Handles("autopilot", "START", <<>>, IF AcceptsStart THEN "ok" ELSE "error")
  /\ state' = IF AcceptsStart THEN "PRE_FLIGHT" ELSE state
  /\ UNCHANGED <<mission, handled, checked>>

BeginPreflight ==
  /\ state = "PRE_FLIGHT" /\ job["control"] = None
  /\ checked' = mission
  /\ job' = [job EXCEPT !["control"] = Message("orvd", mission, None)]
  /\ asked' = Append(asked, "control")
  /\ inbox' = [inbox EXCEPT !["monitor"] =
                 Append(@, Message("request_takeoff", mission, "control"))]
  /\ UNCHANGED <<answer, mission, state, handled>>

\* Mutant: any answer will do.
OrvdApprovesAnyway ==
  /\ job["control"] # None /\ job["control"].action = "orvd"
  /\ answer["control"] # None
  /\ job' = [job EXCEPT !["control"].action = "port"]
  /\ answer' = [answer EXCEPT !["control"] = None]
  /\ inbox' = [inbox EXCEPT !["monitor"] =
                 Append(@, Message("port_takeoff", checked, "control"))]
  /\ UNCHANGED <<asked, onboardVars>>

\* With the authority's approval the drone port is asked.
OrvdApproves ==
  /\ job["control"] # None /\ job["control"].action = "orvd"
  /\ answer["control"] = "ok"
  /\ job' = [job EXCEPT !["control"].action = "port"]
  /\ answer' = [answer EXCEPT !["control"] = None]
  /\ inbox' = [inbox EXCEPT !["monitor"] =
                 Append(@, Message("port_takeoff", checked, "control"))]
  /\ UNCHANGED <<asked, onboardVars>>

\* A refusal by either, or no answer.
Denied ==
  /\ answer["control"] # "ok"
  /\ Ends("control", "orvd", <<>>, None) \/ Ends("control", "port", <<>>, None)
  /\ state' = "ABORTED"
  /\ UNCHANGED <<mission, handled, checked>>

PreflightPassed ==
  /\ answer["control"] = "ok"
  /\ Ends("control", "port", <<>>, None)
  /\ state' = "EXECUTING"
  /\ UNCHANGED <<mission, handled, checked>>

-----------------------------------------------------------------------------
\* The drone port and the telemetry component, asked through the monitor.
PortAnswers(result) ==
  Handles("port", "port_takeoff", <<>>, result) /\ UNCHANGED onboardVars

TelemetryAnswers ==
  Handles("telemetry", "get_state", <<>>, "ok") /\ UNCHANGED onboardVars

OnboardStep ==
  \/ \E action \in DOMAIN Target : HandleProxyRequest(action) \/ EndProxyRequest(action)
  \/ RejectMission \/ HandleLoadMission \/ EndLoadMission
  \/ HandleMissionLoad \/ HandleStart
  \/ BeginPreflight \/ OrvdApproves \/ Denied \/ PreflightPassed
  \/ \E result \in {"ok", "error"} : PortAnswers(result)
  \/ TelemetryAnswers
=============================================================================
