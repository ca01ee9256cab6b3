----------------------------- MODULE FlightPrep -----------------------------
(***************************************************************************)
(* From the operator's task to the takeoff: the ground control station     *)
(* (Gcs), the drone (Onboard) and the air-traffic authority (Airspace) on  *)
(* one Kafka bus.                                                          *)
(*                                                                         *)
(* Assumed of real time: handlers end in milliseconds, so the operator,    *)
(* the authority's clerks, the poll of every few seconds and the timeouts  *)
(* of seconds come in the pauses, when each component has nothing to take  *)
(* or waits for an answer.  That includes the pauses in the middle of an   *)
(* upload that has run into the circle described at StartsLastUploaded.    *)
(***************************************************************************)
EXTENDS Gcs, Onboard

CONSTANTS Aircraft, Zones, Routes,
          Filed  \* the missions that may be filed with the authority

ASSUME FlightPrepAssumption ==
  /\ {"orchestrator", "planner", "converter", "mission_store", "drone_store",
      "manager", "poller", "monitor", "handler", "autopilot", "control",
      "authority", "port", "telemetry"} \subseteq Components
  /\ MissionIds = Missions /\ Missions \cap Bogus = {} /\ Kept \subseteq SUBSET Missions
  /\ {MaxTasks, MaxPolls} \subseteq Nat
  /\ Routes \subseteq SUBSET Zones

\* What the messages and the threads' own jobs are about.
Actions ==
  {"submit", "assign", "start", "plan", "save", "prepare", "get", "assigned", "running",
   "reserved", "busy", "telemetry", "upload", "upload_header", "poll", "orvd", "port"}
  \cup DOMAIN Target

Messages == [action : Actions, mission : Ids \cup {None}, caller : Components \cup {None}]

ASSUME NoneAssumption ==
  /\ None \notin Components /\ None # "ok"
  /\ None \notin Messages

VARIABLES registered, plans, authorized, flying, zones, takeoffs

INSTANCE Airspace WITH Flights <- Missions

authorityVars == <<registered, plans, authorized, flying, zones, takeoffs>>
vars == <<callVars, gcsVars, onboardVars, authorityVars>>

FlightPrepTypeOK == GcsTypeOK /\ OnboardTypeOK /\ AirspaceTypeOK

Init == CallsInit /\ GcsInit /\ OnboardInit /\ AirspaceInit

\* _handle_request_takeoff for the drone's control thread.
HandleRequestTakeoff ==
  /\ Gets("authority", "request_takeoff")
  /\ LET m == First("authority").mission
     IN \/ RequestTakeoff(m) /\ Handles("authority", "request_takeoff", <<>>, "ok")
        \/ /\ ~MayTakeOff(m)
           /\ Handles("authority", "request_takeoff", <<>>, "error")
           /\ UNCHANGED authorityVars
  /\ UNCHANGED <<gcsVars, onboardVars>>

\* Nothing is left to do but to wait.
Pause == Quiet /\ ~(state = "PRE_FLIGHT" /\ job["control"] = None)

RequestTimeout ==
  /\ Pause
  /\ \E c \in Components : Expires(c)
  /\ UNCHANGED <<gcsVars, onboardVars, authorityVars>>

\* An id is filed with the authority after the station gave it out.
AuthorityAct ==
  \/ \E d \in Aircraft : RegisterDrone(d) \/ RevokeTakeoff(d)
  \/ \E m \in ids \cap Filed : AuthorizeMission(m)
  \/ \E m \in ids \cap Filed, d \in Aircraft, r \in Routes : RegisterMission(m, d, r)
  \/ \E z \in Zones : AddZone(z) \/ RemoveZone(z)

SystemStep ==
  \/ GcsStep /\ UNCHANGED <<onboardVars, authorityVars>>
  \/ OnboardStep /\ UNCHANGED <<gcsVars, authorityVars>>
  \/ HandleRequestTakeoff
  \/ RequestTimeout

FlightPrepNext ==
  \/ SystemStep
  \/ Pause /\ OperatorTask /\ UNCHANGED <<onboardVars, authorityVars>>
  \/ Pause /\ PollTelemetry /\ UNCHANGED <<onboardVars, authorityVars>>
  \/ Pause /\ AuthorityAct /\ UNCHANGED <<callVars, gcsVars, onboardVars>>

Spec == Init /\ [][FlightPrepNext]_vars

\* Every component goes on, and requests run out.
FairSpec == Spec /\ WF_vars(SystemStep)

-----------------------------------------------------------------------------
(* Properties. *)

\* START names no mission.  The one it starts is nevertheless the last one the
\* station sent, although over Kafka an upload ends in a circle (the manager
\* waits for the monitor, the monitor for the mission handler, which waits for
\* the monitor), its three requests run out, and the load that was stuck in
\* the middle is done after all of them have failed.
StartsLastUploaded ==
  [][state # "PRE_FLIGHT" /\ state' = "PRE_FLIGHT" => mission = uploaded]_vars

\* The circle ends: an assignment the operator was told is forwarded leaves
\* the mission "assigned", and the autopilot gets a mission with waypoints.
AssignmentEnds ==
  \A m \in Missions :
    job["manager"] # None /\ job["manager"].action = "upload"
    /\ job["manager"].mission = m
      ~> mission = m /\ missions[m] \in {"assigned", "running"}

\* The authority recorded the takeoff the autopilot asked for, whatever became
\* of the requests and answers between them.
FlightOnRecord == state = "EXECUTING" => checked \in takeoffs
=============================================================================
