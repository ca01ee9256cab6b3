----------------------------- MODULE Autopilot -----------------------------
(***************************************************************************)
(* systems/agrodron/src/autopilot: two threads share the fields of one     *)
(* object without a lock.  The consumer thread handles mission_load and    *)
(* cmd; the control thread repeats _step_control, which waits for answers  *)
(* of the air-traffic authority and the drone port in the middle.          *)
(*                                                                         *)
(* Statements with no bus call between them are one step, except where a   *)
(* thread reads a field, decides and writes later: handling holds what the *)
(* consumer thread has read, pc and job what the control thread has.       *)
(*                                                                         *)
(* A mission has at least one step; where the drone is matters only as     *)
(* "at its current step" and "on the ground".  Since no mission is shorter *)
(* than another, the state COMPLETED of an index past the end is not       *)
(* reached; nor is the landing that began without _start_mission_landing.  *)
(* The broker is Kafka: one consumer thread runs the handlers inline.      *)
(***************************************************************************)
EXTENDS Naturals, Sequences

CONSTANTS Missions,
          Steps,      \* the number of steps of a mission
          SprayAt,    \* the steps with spray on
          Commands,   \* the commands sent to the autopilot
          MaxMessages,\* bound on the messages sent to it
          Backlog,    \* bound on the messages waiting in its topic
          None

ASSUME AutopilotAssumption ==
  /\ Steps \in Nat \ {0}
  /\ SprayAt \subseteq 1 .. Steps
  /\ Commands \subseteq {"START", "PAUSE", "RESUME", "ABORT", "RESET",
                         "EMERGENCY_STOP", "KOVER"}
  /\ MaxMessages \in Nat /\ Backlog \in Nat \ {0}
  /\ None \notin Missions

VARIABLES mission,   \* _mission
          index,     \* _current_step_index
          state,     \* _state
          kover,     \* _kover_active
          landing,   \* _landing_active
          confirmed, \* _landing_port_confirmed
          nav,       \* _last_nav_state
          pc,        \* where the control thread stands in _step_control
          job,       \* its locals: the mission and the step it works on
          handling,  \* the command the consumer thread is handling, or None
          inbox,     \* messages of the autopilot's topic
          motors,    \* the last target sent to the motors
          sprayer,   \* the last command sent to the sprayer
          cleared,   \* the mission whose takeoff was approved since it was loaded
          overtaken, \* was the mission loaded while a preflight was waiting?
          kovered,   \* has KOVER been sent?
          sent       \* number of messages sent to the autopilot

fields == <<mission, index, state, kover, landing, confirmed>>
commanded == <<motors, sprayer>>
topic == <<inbox, kovered, sent>>
clearance == <<cleared, overtaken>>
vars == <<fields, nav, pc, job, handling, topic, commanded, clearance>>

Navigation == [ground : BOOLEAN, reached : BOOLEAN]

State == {"IDLE", "MISSION_LOADED", "PRE_FLIGHT", "EXECUTING", "PAUSED",
          "ABORTED", "EMERGENCY_STOP", "LANDING"}

ControlPoints == {"poll", "decide", "orvd", "droneport", "fly", "arrived",
                  "landing_port", "landing", "retry_port", "charging",
                  "kover", "kover_landed"}

TypeOK ==
  /\ mission \in Missions \cup {None}
  /\ index \in 1 .. Steps \cup {None}
  /\ state \in State
  /\ kover \in BOOLEAN /\ landing \in BOOLEAN /\ confirmed \in BOOLEAN
  /\ nav = None \/ nav \in Navigation
  /\ pc \in ControlPoints
  /\ motors \in {"none", "hold", "fly", "descend"}
  /\ sprayer \in BOOLEAN
  /\ cleared \in Missions \cup {None}
  /\ overtaken \in BOOLEAN /\ kovered \in BOOLEAN

\* The locals of _step_control outside a preflight and a step.
NoJob == [mission |-> None, step |-> 1]

Init ==
  /\ mission = None /\ index = None
  /\ state = "IDLE"
  /\ kover = FALSE /\ landing = FALSE /\ confirmed = FALSE
  /\ nav = None
  /\ pc = "poll"
  /\ job = NoJob
  /\ handling = None
  /\ inbox = <<>>
  /\ motors = "none" /\ sprayer = FALSE
  /\ cleared = None /\ overtaken = FALSE
  /\ kovered = FALSE /\ sent = 0

-----------------------------------------------------------------------------
(* The consumer thread. *)

Messages == [action : {"mission_load"}, body : Missions]
            \cup [action : {"cmd"}, body : Commands]

\* Any mission, again too: an assignment that is repeated is uploaded again.
Send(msg) ==
  /\ sent < MaxMessages /\ Len(inbox) < Backlog
  /\ kovered' = (kovered \/ msg.body = "KOVER")
  /\ sent' = sent + 1
  /\ inbox' = Append(inbox, msg)
  /\ UNCHANGED <<fields, nav, pc, job, handling, commanded, clearance>>

Receives(action) ==
  /\ handling = None
  /\ inbox # <<>>
  /\ Head(inbox).action = action
  /\ inbox' = Tail(inbox)
  /\ UNCHANGED <<kovered, sent>>

HandleMissionLoad ==
  /\ Receives("mission_load")
  /\ mission' = Head(inbox).body
  /\ index' = 1
  /\ state' = "MISSION_LOADED"
  /\ cleared' = None
  /\ overtaken' = (pc \in {"orvd", "droneport"})
  /\ UNCHANGED <<kover, landing, confirmed, nav, pc, job, handling, commanded>>

\* _handle_cmd: START first looks for a mission, KOVER sets its flag ...
HandleCmd ==
  /\ Receives("cmd")
  /\ handling' = [command |-> Head(inbox).body, seen |-> None,
                  loaded |-> mission # None]
  /\ kover' = (kover \/ Head(inbox).body = "KOVER")
  /\ UNCHANGED <<mission, index, state, landing, confirmed, nav, pc, job,
                 commanded, clearance>>

\* ... then some commands read _state ...
ReadState ==
  /\ handling # None
  /\ handling.command \in {"START", "PAUSE", "RESUME", "KOVER"}
  /\ handling.command = "START" => handling.loaded
  /\ handling.seen = None
  /\ handling' = [handling EXCEPT !.seen = state]
  /\ UNCHANGED <<fields, nav, pc, job, topic, commanded, clearance>>

Handles(command) == handling # None /\ handling.command = command

Handled == /\ handling' = None
           /\ UNCHANGED <<nav, pc, job, topic, commanded>>

Becomes(command, new) ==
  /\ Handles(command)
  /\ Handled
  /\ state' = new
  /\ UNCHANGED <<mission, index, kover, landing, confirmed, clearance>>

\* ... and write it by what they read, whatever it is by now.
Decides(command, when, new) ==
  /\ Handles(command)
  /\ handling.seen # None
  /\ Becomes(command, IF handling.seen \in when THEN new ELSE state)

\* Mutant: the preflight checks are skipped.
StartAtOnce == Decides("START", {"MISSION_LOADED", "IDLE"}, "EXECUTING")

Start == Decides("START", {"MISSION_LOADED", "IDLE"}, "PRE_FLIGHT")
Pause == Decides("PAUSE", {"EXECUTING"}, "PAUSED")
Resume == Decides("RESUME", {"PAUSED"}, "EXECUTING")
Kover == Decides("KOVER", State \ {"EXECUTING", "PAUSED"}, "EXECUTING")
Abort == Becomes("ABORT", "ABORTED")
EmergencyStop == Becomes("EMERGENCY_STOP", "EMERGENCY_STOP")

\* _wait_for_mission_before_start: only mission_load notifies, and it is this
\* thread that would handle it, so the wait ends by its timeout.
StartWithoutMission ==
  /\ Handles("START")
  /\ ~handling.loaded
  /\ Handled
  /\ UNCHANGED <<fields, clearance>>

\* Neither the landing nor the kover flag is reset.
Reset ==
  /\ Handles("RESET")
  /\ Handled
  /\ mission' = None
  /\ index' = None
  /\ state' = "IDLE"
  /\ cleared' = None
  /\ UNCHANGED <<kover, landing, confirmed, overtaken>>

-----------------------------------------------------------------------------
(* The control thread. *)

At(here, there) ==
  /\ pc = here
  /\ pc' = there
  /\ UNCHANGED <<handling, topic>>

\* _poll_navigation_if_due: a new position, or none in time.
Poll ==
  /\ At("poll", "decide")
  /\ nav' \in Navigation \cup {nav}
  /\ UNCHANGED <<fields, job, commanded, clearance>>

\* The early returns of _step_control.
NothingToDo ==
  /\ \/ nav = None
     \/ /\ state # "PRE_FLIGHT" /\ ~landing /\ ~kover
        /\ mission = None \/ state \notin {"EXECUTING", "PAUSED"}
  /\ At("decide", "poll")
  /\ UNCHANGED <<fields, nav, job, commanded, clearance>>

BeginPreflight ==
  /\ nav # None
  /\ state = "PRE_FLIGHT"
  /\ At("decide", "orvd")
  /\ job' = [job EXCEPT !.mission = mission]
  /\ UNCHANGED <<fields, nav, commanded, clearance>>

ContinueLanding ==
  /\ nav # None
  /\ state # "PRE_FLIGHT"
  /\ landing
  /\ At("decide", "landing")
  /\ UNCHANGED <<fields, nav, job, commanded, clearance>>

ContinueKover ==
  /\ nav # None
  /\ state # "PRE_FLIGHT" /\ ~landing
  /\ kover
  /\ At("decide", "kover")
  /\ UNCHANGED <<fields, nav, job, commanded, clearance>>

\* On its way to a step, at a step that is not the last, or at the last.
ContinueMission ==
  LET current == IF index = None THEN 1 ELSE index
      next == IF nav.reached /\ current < Steps THEN current + 1 ELSE current
  IN /\ nav # None
     /\ state \in {"EXECUTING", "PAUSED"} /\ ~landing /\ ~kover
     /\ mission # None
     /\ At("decide", IF nav.reached /\ current = Steps THEN "arrived" ELSE "fly")
     /\ index' = next
     /\ job' = [mission |-> mission, step |-> next]
     /\ UNCHANGED <<mission, state, kover, landing, confirmed, nav, commanded, clearance>>

\* Hold if paused by now, else fly and spray as the step says.
Fly ==
  /\ At("fly", "poll")
  /\ motors' = IF state = "PAUSED" THEN "hold" ELSE "fly"
  /\ sprayer' = (state # "PAUSED" /\ job.step \in SprayAt)
  /\ job' = NoJob
  /\ UNCHANGED <<fields, nav, clearance>>

\* The answer of the air-traffic authority, no answer being a refusal.
OrvdApproves ==
  /\ At("orvd", "droneport")
  /\ UNCHANGED <<fields, nav, job, commanded, clearance>>

\* Mutant: a refusal returns without a new state.
DeniedSilently(by) ==
  /\ At(by, "poll")
  /\ job' = NoJob
  /\ UNCHANGED <<fields, nav, commanded, clearance>>

Denied(by) ==
  /\ At(by, "poll")
  /\ state' = "ABORTED"
  /\ job' = NoJob
  /\ UNCHANGED <<mission, index, kover, landing, confirmed, nav, commanded, clearance>>

OrvdDenies == Denied("orvd")
DroneportDenies == Denied("droneport")

\* The state is not read again before it is overwritten.
DroneportApproves ==
  /\ At("droneport", "poll")
  /\ state' = "EXECUTING"
  /\ cleared' = job.mission
  /\ job' = NoJob
  /\ UNCHANGED <<mission, index, kover, landing, confirmed, nav, commanded, overtaken>>

\* Mutant: the sprayer is not closed.
StartLandingSpraying ==
  /\ At("arrived", "landing_port")
  /\ landing' = TRUE
  /\ confirmed' = FALSE
  /\ state' = "LANDING"
  /\ job' = NoJob
  /\ UNCHANGED <<mission, index, kover, nav, commanded, clearance>>

\* _start_mission_landing up to its request.
StartLanding ==
  /\ At("arrived", "landing_port")
  /\ sprayer' = FALSE
  /\ landing' = TRUE
  /\ confirmed' = FALSE
  /\ state' = "LANDING"
  /\ job' = NoJob
  /\ UNCHANGED <<mission, index, kover, nav, motors, clearance>>

LandingPort ==
  /\ At("landing_port", "poll")
  /\ confirmed' \in BOOLEAN
  /\ UNCHANGED <<mission, index, state, kover, landing, nav, job, commanded, clearance>>

\* _handle_mission_landing.
WaitForPort ==
  /\ ~confirmed
  /\ At("landing", "poll")
  /\ motors' = "hold"
  /\ UNCHANGED <<fields, nav, job, sprayer, clearance>>

AskPortAgain ==
  /\ ~confirmed
  /\ At("landing", "retry_port")
  /\ UNCHANGED <<fields, nav, job, commanded, clearance>>

PortAnswersAgain ==
  /\ At("retry_port", "poll")
  /\ confirmed' \in BOOLEAN
  /\ motors' = "hold"
  /\ UNCHANGED <<mission, index, state, kover, landing, nav, job, sprayer, clearance>>

Descend ==
  /\ confirmed /\ ~nav.ground
  /\ At("landing", "poll")
  /\ motors' = "descend"
  /\ UNCHANGED <<fields, nav, job, sprayer, clearance>>

TouchDown ==
  /\ confirmed /\ nav.ground
  /\ At("landing", "charging")
  /\ motors' = "hold"
  /\ UNCHANGED <<fields, nav, job, sprayer, clearance>>

\* After the request for charging, however it ended.
CompleteMission ==
  /\ At("charging", "poll")
  /\ landing' = FALSE
  /\ mission' = None
  /\ index' = None
  /\ state' = "IDLE"
  /\ cleared' = None
  /\ UNCHANGED <<kover, confirmed, nav, job, commanded, overtaken>>

KoverDescend ==
  /\ At("kover", IF nav.ground THEN "kover_landed" ELSE "poll")
  /\ motors' = "descend"
  /\ sprayer' = FALSE
  /\ UNCHANGED <<fields, nav, job, clearance>>

KoverLanded ==
  /\ At("kover_landed", "poll")
  /\ kover' = FALSE
  /\ state' = "PAUSED"
  /\ UNCHANGED <<mission, index, landing, confirmed, nav, job, commanded, clearance>>

-----------------------------------------------------------------------------
Consumer ==
  \/ HandleMissionLoad \/ HandleCmd \/ ReadState
  \/ Start \/ StartWithoutMission \/ Pause \/ Resume \/ Abort \/ EmergencyStop
  \/ Reset \/ Kover

Decide == \/ NothingToDo \/ BeginPreflight \/ ContinueLanding \/ ContinueKover
          \/ ContinueMission

Control ==
  \/ Poll \/ Decide \/ Fly
  \/ OrvdApproves \/ OrvdDenies \/ DroneportApproves \/ DroneportDenies
  \/ StartLanding \/ LandingPort \/ WaitForPort \/ AskPortAgain
  \/ PortAnswersAgain \/ Descend \/ TouchDown \/ CompleteMission
  \/ KoverDescend \/ KoverLanded

Next == (\E msg \in Messages : Send(msg)) \/ Consumer \/ Control

Spec == Init /\ [][Next]_vars

\* Both threads keep running: every wait for an answer has a timeout.
FairSpec == Spec /\ WF_vars(Consumer) /\ WF_vars(Control)

-----------------------------------------------------------------------------
(* Properties. *)

\* What the autopilot flies was approved by the air-traffic authority and the
\* drone port since it was last loaded (end-to-end scenario 1), whatever is
\* loaded and commanded in the middle of a check, a flight or a landing.  Two
\* things get around it: KOVER, which writes EXECUTING, and a mission loaded
\* while the checks of the one before wait for their answers.
FlightCleared ==
  pc = "fly" /\ state = "EXECUTING" /\ ~kovered /\ ~overtaken
    => cleared = job.mission

\* From the start of a landing to its end the sprayer stays closed, although
\* the control thread may be in the middle of any command when it begins.
SprayOffWhileLanding == landing => ~sprayer

\* A start is decided: the preflight checks end in a flight or an abort.
PreflightDecides ==
  state = "PRE_FLIGHT" /\ nav # None ~> state # "PRE_FLIGHT"
=============================================================================
