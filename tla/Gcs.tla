-------------------------------- MODULE Gcs --------------------------------
(***************************************************************************)
(* systems/gcs: the ground control station.  The orchestrator answers the  *)
(* operator and lets the drone manager work behind its back; the mission   *)
(* store and the drone store keep what the manager publishes, in Redis.    *)
(*                                                                         *)
(* A route of a mission is there or not: the points of a stored mission    *)
(* give a WPL with waypoints, a mission the store does not know gives the  *)
(* header alone, which is sent like any other.  The topics of the drone    *)
(* are fixed, so whatever drone an assignment names, one drone gets it.    *)
(***************************************************************************)
EXTENDS Calls

CONSTANTS Missions, \* the mission ids the orchestrator may give out
          Kept,     \* the sets of those Redis may have kept from before
          Bogus,    \* other ids an operator may name
          MaxTasks, \* bound on the tasks of the operator
          MaxPolls  \* bound on the polls of telemetry

VARIABLES missions, \* mission store: mission -> status, or None
          drone,    \* drone store: the status of the drone, or None
          ids,      \* the mission ids given out
          tasks,    \* number of tasks submitted, assigned or started
          polling,  \* does a thread poll the drone's telemetry?
          polls,    \* number of polls
          uploaded  \* the last mission whose waypoints were sent to the drone

storeVars == <<missions, drone>>
operatorVars == <<ids, tasks>>
managerVars == <<polling, polls, uploaded>>
gcsVars == <<storeVars, operatorVars, managerVars>>

Ids == Missions \cup Bogus

GcsTypeOK ==
  /\ missions \in [Ids -> {None, "created", "assigned", "running"}]
  /\ \A b \in Bogus : missions[b] = None
  /\ drone \in {None, "connected", "reserved", "busy"}
  /\ ids \subseteq Missions /\ tasks \in 0 .. MaxTasks
  /\ polling \in BOOLEAN /\ polls \in 0 .. MaxPolls
  /\ uploaded \in Ids \cup {None}

GcsInit ==
  /\ ids \in Kept
  /\ missions = [m \in Ids |-> IF m \in ids THEN "created" ELSE None]
  /\ drone = None
  /\ tasks = 0
  /\ polling = FALSE /\ polls = 0 /\ uploaded = None

-----------------------------------------------------------------------------
(* The operator, who names a mission by the id a submission returned, or by *)
(* another. *)

Task(action, m) ==
  /\ tasks < MaxTasks
  /\ IF action = "submit"
     THEN m = None /\ Missions \ ids # {}
     ELSE m \in ids \/ (action = "assign" /\ m \in Bogus)
  /\ tasks' = tasks + 1
  /\ inbox' = [inbox EXCEPT !["orchestrator"] = Append(@, Message(action, m, None))]
  /\ UNCHANGED <<job, asked, answer, ids, storeVars, managerVars>>

\* task.submit: a new mission id; refused unless two or three points are given.
TaskSubmit(m) ==
  /\ m \notin ids
  /\ Asks("orchestrator", "submit", "planner", Message("plan", m, None))
  /\ UNCHANGED gcsVars

\* path_plan: the mission is published for the store before the answer goes.
HandlePathPlan(routed) ==
  LET m == First("planner").mission
  IN /\ IF routed
        THEN Handles("planner", "plan",
                     [mission_store |-> Message("save", m, None)], m)
        ELSE Handles("planner", "plan", <<>>, "error")
     /\ UNCHANGED gcsVars

EndSubmit ==
  /\ Ends("orchestrator", "submit", <<>>, None)
  /\ ids' = ids \cup ({answer["orchestrator"]} \cap Missions)
  /\ UNCHANGED <<storeVars, tasks, managerVars>>

TaskAssign ==
  /\ Asks("orchestrator", "assign", "converter",
          Message("prepare", First("orchestrator").mission, None))
  /\ UNCHANGED gcsVars

\* A mission is taken for uploaded when the message to the manager is sent.
EndAssign ==
  LET m == job["orchestrator"].mission
  IN /\ Ends("orchestrator", "assign",
             IF answer["orchestrator"] \in {"route", "header"}
             THEN [manager |-> Message(IF answer["orchestrator"] = "route"
                                       THEN "upload" ELSE "upload_header",
                                       m, None)]
             ELSE <<>>, None)
     /\ UNCHANGED gcsVars

\* Nobody asks whether the mission is known or was uploaded.
TaskStart ==
  /\ Handles("orchestrator", "start",
       [manager |-> Message("start", First("orchestrator").mission, None)],
       None)
  /\ UNCHANGED gcsVars

-----------------------------------------------------------------------------
(* The mission converter and the stores. *)

HandleMissionPrepare ==
  /\ Asks("converter", "prepare", "mission_store",
          Message("get", First("converter").mission, None))
  /\ UNCHANGED gcsVars

EndMissionPrepare ==
  /\ Ends("converter", "prepare", <<>>,
          IF answer["converter"] = "none" THEN "error" ELSE answer["converter"])
  /\ UNCHANGED gcsVars

HandleGetMission ==
  /\ Handles("mission_store", "get", <<>>,
             IF missions[First("mission_store").mission] = None THEN "header"
             ELSE "route")
  /\ UNCHANGED gcsVars

HandleSaveMission ==
  /\ Handles("mission_store", "save", <<>>, None)
  /\ missions' = [missions EXCEPT ![First("mission_store").mission] = "created"]
  /\ UNCHANGED <<drone, operatorVars, managerVars>>

\* Fields of an unknown mission are dropped.
HandleUpdateMission(status) ==
  /\ Handles("mission_store", status, <<>>, None)
  /\ missions' = [missions EXCEPT ![First("mission_store").mission] =
                    IF @ = None THEN None ELSE status]
  /\ UNCHANGED <<drone, operatorVars, managerVars>>

HandleUpdateDrone(status) ==
  /\ Handles("drone_store", status, <<>>, None)
  /\ drone' = status
  /\ UNCHANGED <<missions, operatorVars, managerVars>>

\* Telemetry of a drone nobody knows makes it "connected".
HandleSaveTelemetry ==
  /\ Handles("drone_store", "telemetry", <<>>, None)
  /\ drone' = IF drone = None THEN "connected" ELSE drone
  /\ UNCHANGED <<missions, operatorVars, managerVars>>

-----------------------------------------------------------------------------
(* The drone manager, which reaches the drone through its monitor. *)

Updates(m, status, droneStatus) ==
  [mission_store |-> Message(status, m, None),
   drone_store |-> Message(droneStatus, m, None)]

\* Mutant: the mission is sent without waiting for the drone's answer.
HandleMissionUploadUnconfirmed ==
  LET m == First("manager").mission
  IN /\ Handles("manager", "upload",
               [monitor |-> Message("load_mission", m, None),
                mission_store |-> Message("assigned", m, None),
                drone_store |-> Message("reserved", m, None)], None)
     /\ uploaded' = m
     /\ UNCHANGED <<storeVars, operatorVars, polling, polls>>

HandleMissionUpload ==
  LET m == First("manager").mission
  IN \/ /\ Asks("manager", "upload", "monitor", Message("load_mission", m, None))
        /\ uploaded' = m
        /\ UNCHANGED <<storeVars, operatorVars, polling, polls>>
     \/ /\ Asks("manager", "upload_header", "monitor", Message("load_header", m, None))
        /\ UNCHANGED gcsVars

\* Mutant: only if the drone answered that it has the mission.
EndMissionUploadIfOk ==
  /\ \E action \in {"upload", "upload_header"} :
       Ends("manager", action,
            IF answer["manager"] = "ok"
            THEN Updates(job["manager"].mission, "assigned", "reserved")
            ELSE <<>>, None)
  /\ UNCHANGED gcsVars

\* Whatever the drone answered, and if it did not.
EndMissionUpload ==
  /\ \E action \in {"upload", "upload_header"} :
       Ends("manager", action,
            Updates(job["manager"].mission, "assigned", "reserved"), None)
  /\ UNCHANGED gcsVars

HandleMissionStart ==
  /\ Asks("manager", "start", "monitor",
          Message("START", First("manager").mission, None))
  /\ UNCHANGED gcsVars

\* The first start of the drone begins to poll its telemetry.
EndMissionStart ==
  LET started == answer["manager"] = "ok"
  IN /\ Ends("manager", "start",
             IF started THEN Updates(job["manager"].mission, "running", "busy")
             ELSE <<>>, None)
     /\ polling' = (polling \/ started)
     /\ UNCHANGED <<storeVars, operatorVars, polls, uploaded>>

PollTelemetry ==
  /\ polling /\ job["poller"] = None /\ polls < MaxPolls
  /\ polls' = polls + 1
  /\ job' = [job EXCEPT !["poller"] = Message("poll", None, None)]
  /\ asked' = Append(asked, "poller")
  /\ inbox' = [inbox EXCEPT !["monitor"] =
                 Append(@, Message("get_state", None, "poller"))]
  /\ UNCHANGED <<answer, storeVars, operatorVars, polling, uploaded>>

EndPoll ==
  /\ Ends("poller", "poll",
          IF answer["poller"] = "ok"
          THEN [drone_store |-> Message("telemetry", None, None)] ELSE <<>>,
          None)
  /\ UNCHANGED gcsVars

-----------------------------------------------------------------------------
OperatorTask ==
  \E m \in Ids \cup {None}, action \in {"submit", "assign", "start"} : Task(action, m)

GcsStep ==
  \/ \E m \in Missions : TaskSubmit(m)
  \/ \E routed \in BOOLEAN : HandlePathPlan(routed)
  \/ EndSubmit \/ TaskAssign \/ EndAssign \/ TaskStart
  \/ HandleMissionPrepare \/ EndMissionPrepare
  \/ HandleGetMission \/ HandleSaveMission
  \/ \E status \in {"assigned", "running"} : HandleUpdateMission(status)
  \/ \E status \in {"reserved", "busy"} : HandleUpdateDrone(status)
  \/ HandleSaveTelemetry
  \/ HandleMissionUpload \/ EndMissionUpload
  \/ HandleMissionStart \/ EndMissionStart
  \/ EndPoll
=============================================================================
