-------------------------- MODULE Autopilot_proofs --------------------------
(***************************************************************************)
(* Theorems about Autopilot, for every set of missions, number of steps    *)
(* and number of messages.  SprayOffWhileLanding needs one more fact, that *)
(* the control thread does not work on a step of the mission once it       *)
(* lands.  FlightCleared needs that the mission of a preflight is still    *)
(* the one loaded, and that a step begun before a load or a reset finds a  *)
(* state from which only a new preflight leads to a flight.                *)
(***************************************************************************)
EXTENDS Autopilot, SequenceTheorems, TLAPS

Job == [mission : Missions \cup {None}, step : 1 .. Steps]
Handling == [command : Commands, seen : State \cup {None}, loaded : BOOLEAN]

\* What TypeOK leaves out.
Typed ==
  /\ TypeOK
  /\ job \in Job
  /\ handling \in Handling \cup {None}
  /\ inbox \in Seq(Messages)
  /\ sent \in Nat

\* Whatever a KOVER leaves behind, one was sent.
KoverSeen ==
  /\ \A i \in 1 .. Len(inbox) : inbox[i].body = "KOVER" => kovered
  /\ handling # None /\ handling.command = "KOVER" => kovered
  /\ kover \/ pc \in {"kover", "kover_landed"} => kovered

\* Nothing that either thread has read or written leads to a flight.
Flying == {"EXECUTING", "PAUSED"}
Grounded == /\ state \notin Flying
            /\ handling # None /\ handling.seen # None => handling.seen \notin Flying

\* The clearance is that of the mission, and so is what the control thread
\* works on, or it comes too late to be flown.
Clearance ==
  /\ mission # None => Grounded \/ cleared = mission
  /\ mission # None /\ pc \in {"orvd", "droneport"} => job.mission = mission
  /\ pc = "fly" => Grounded \/ (mission # None /\ job.mission = mission)

Inv == Typed /\ KoverSeen /\ (~kovered /\ ~overtaken => Clearance)

\* Of the landing.
Closed == SprayOffWhileLanding /\ (pc = "fly" => ~landing)

-----------------------------------------------------------------------------
LEMMA ClosedInit == Init => Closed
BY DEF Init, Closed, SprayOffWhileLanding

\* Only a step of the mission opens the sprayer, and only outside a landing.
LEMMA ClosedStep == Closed /\ [Next]_vars => Closed'
<1> SUFFICES ASSUME Closed, [Next]_vars
             PROVE  Closed'
  OBVIOUS
<1> USE DEF Closed, SprayOffWhileLanding, fields, commanded, topic, clearance
<1>1. ASSUME NEW msg \in Messages, Send(msg)
      PROVE  Closed'
  BY <1>1 DEF Send
<1>2. CASE Consumer
  BY <1>2 DEF Consumer, HandleMissionLoad, HandleCmd, ReadState, Start, StartWithoutMission,
              Pause, Resume, Abort, EmergencyStop, Reset, Kover, Decides, Becomes, Handled
<1>3. CASE Poll \/ Decide
  BY <1>3 DEF Poll, Decide, NothingToDo, BeginPreflight, ContinueLanding, ContinueKover,
              ContinueMission, At
<1>4. CASE Fly \/ OrvdApproves \/ OrvdDenies \/ DroneportApproves \/ DroneportDenies
  BY <1>4 DEF Fly, OrvdApproves, OrvdDenies, DroneportApproves, DroneportDenies, Denied, At
<1>5. CASE StartLanding \/ LandingPort \/ WaitForPort \/ AskPortAgain \/ PortAnswersAgain
  BY <1>5 DEF StartLanding, LandingPort, WaitForPort, AskPortAgain, PortAnswersAgain, At
<1>6. CASE Descend \/ TouchDown \/ CompleteMission \/ KoverDescend \/ KoverLanded
  BY <1>6 DEF Descend, TouchDown, CompleteMission, KoverDescend, KoverLanded, At
<1>7. CASE UNCHANGED vars
  BY <1>7 DEF vars
<1> QED
  BY <1>1, <1>2, <1>3, <1>4, <1>5, <1>6, <1>7 DEF Next, Control

\* From the start of a landing to its end the sprayer stays closed, whatever
\* the two threads are in the middle of.
THEOREM SprayerClosed == Spec => []SprayOffWhileLanding
<1>1. Closed => SprayOffWhileLanding
  BY DEF Closed
<1> QED
  BY <1>1, ClosedInit, ClosedStep, PTL DEF Spec

-----------------------------------------------------------------------------
(* Types *)

LEMMA TypedInit == Init => Typed
<1>1. NoJob \in Job /\ 1 \in 1 .. Steps
  BY AutopilotAssumption DEF Job, NoJob
<1>2. <<>> \in Seq(Messages)
  OBVIOUS
<1>3. Init => /\ kover \in BOOLEAN /\ landing \in BOOLEAN /\ confirmed \in BOOLEAN
              /\ sprayer \in BOOLEAN /\ kovered \in BOOLEAN /\ overtaken \in BOOLEAN
  BY Zenon DEF Init
<1> QED
  BY <1>1, <1>2, <1>3 DEF Init, Typed, TypeOK, State, ControlPoints

LEMMA TypedStep == Typed /\ [Next]_vars => Typed'
<1> SUFFICES ASSUME Typed, [Next]_vars
             PROVE  Typed'
  OBVIOUS
<1>0. NoJob \in Job
  BY AutopilotAssumption DEF Job, NoJob
<1> USE DEF Typed, TypeOK, fields, commanded, topic, clearance
<1>1. ASSUME NEW msg \in Messages, Send(msg)
      PROVE  Typed'
  BY <1>1, AppendProperties DEF Send, Messages
<1>2. CASE HandleMissionLoad
  BY <1>2, AutopilotAssumption, HeadTailProperties
     DEF HandleMissionLoad, Receives, Messages, State
<1>3. CASE HandleCmd
  BY <1>3, HeadTailProperties DEF HandleCmd, Receives, Messages, Handling
<1>4. CASE ReadState
  BY <1>4 DEF ReadState, Handling
<1>5. CASE Start \/ Pause \/ Resume \/ Kover \/ Abort \/ EmergencyStop \/ Reset
           \/ StartWithoutMission
  BY <1>5 DEF Start, StartWithoutMission, Pause, Resume, Abort, EmergencyStop, Reset,
              Kover, Decides, Becomes, Handled, State
<1>6. CASE Poll \/ NothingToDo \/ BeginPreflight \/ ContinueLanding \/ ContinueKover
  BY <1>6 DEF Poll, NothingToDo, BeginPreflight, ContinueLanding, ContinueKover, At,
              ControlPoints, Job
<1>7. CASE ContinueMission
  <2> DEFINE current == IF index = None THEN 1 ELSE index
             next == IF nav.reached /\ current < Steps THEN current + 1 ELSE current
  <2>1. current \in 1 .. Steps
    BY AutopilotAssumption
  <2>2. next \in 1 .. Steps
    BY <2>1, AutopilotAssumption
  <2>3. /\ index' = next /\ job' = [mission |-> mission, step |-> next]
        /\ pc' \in {"arrived", "fly"}
        /\ UNCHANGED <<mission, state, kover, landing, confirmed, nav, motors, sprayer,
                       cleared, overtaken, handling, inbox, kovered, sent>>
    BY <1>7 DEF ContinueMission, At
  <2> HIDE DEF next
  <2> QED
    BY <2>2, <2>3 DEF ControlPoints, Job
<1>8. CASE Fly
  BY <1>0, <1>8 DEF Fly, At, ControlPoints
<1>9. CASE OrvdApproves \/ OrvdDenies \/ DroneportApproves \/ DroneportDenies
  BY <1>0, <1>9 DEF OrvdApproves, OrvdDenies, DroneportApproves, DroneportDenies, Denied,
              At, ControlPoints, State, Job
<1>10. CASE StartLanding \/ LandingPort
  <2>1. StartLanding => landing' \in BOOLEAN /\ confirmed' \in BOOLEAN /\ sprayer' \in BOOLEAN
    BY Zenon DEF StartLanding
  <2> QED
    BY <1>0, <1>10, <2>1 DEF StartLanding, LandingPort, At, ControlPoints, State
<1>12. CASE WaitForPort \/ AskPortAgain \/ PortAnswersAgain
  BY <1>12 DEF WaitForPort, AskPortAgain, PortAnswersAgain, At, ControlPoints
<1>13. CASE Descend \/ TouchDown
  BY <1>13 DEF Descend, TouchDown, At, ControlPoints
<1>14. CASE CompleteMission \/ KoverDescend \/ KoverLanded
  <2>1. CompleteMission => landing' \in BOOLEAN
    BY Zenon DEF CompleteMission
  <2>2. KoverDescend => sprayer' \in BOOLEAN
    BY Zenon DEF KoverDescend
  <2>3. KoverLanded => kover' \in BOOLEAN
    BY Zenon DEF KoverLanded
  <2> QED
    BY <1>14, <2>1, <2>2, <2>3
       DEF CompleteMission, KoverDescend, KoverLanded, At, ControlPoints, State
<1>11. CASE UNCHANGED vars
  BY <1>11 DEF vars
<1> QED
  BY <1>1, <1>2, <1>3, <1>4, <1>5, <1>6, <1>7, <1>8, <1>9, <1>10, <1>11, <1>12,
     <1>13, <1>14
     DEF Next, Consumer, Control, Decide

-----------------------------------------------------------------------------
(* KOVER *)

\* The message a handler takes, and those that stay.
LEMMA Receiving ==
  ASSUME Typed, inbox # <<>>
  PROVE  /\ 1 \in 1 .. Len(inbox) /\ Head(inbox) = inbox[1]
         /\ \A i \in 1 .. Len(Tail(inbox)) : /\ i + 1 \in 1 .. Len(inbox)
                                             /\ Tail(inbox)[i] = inbox[i + 1]
BY HeadTailProperties, LenProperties DEF Typed

\* A message goes to the end of the topic.
LEMMA Sending ==
  ASSUME Typed, NEW msg \in Messages, Send(msg)
  PROVE  /\ Len(inbox) + 1 \in 1 .. Len(inbox')
         /\ \A i \in 1 .. Len(inbox') : /\ i \in 1 .. Len(inbox) \/ i = Len(inbox) + 1
                                        /\ i \in 1 .. Len(inbox) => inbox'[i] = inbox[i]
                                        /\ i = Len(inbox) + 1 => inbox'[i] = msg
<1>1. inbox' = Append(inbox, msg) /\ inbox \in Seq(Messages)
  BY DEF Send, Typed
<1> QED
  BY <1>1, AppendProperties, LenProperties

LEMMA KoverStep == Typed /\ KoverSeen /\ [Next]_vars => KoverSeen'
<1> SUFFICES ASSUME Typed, KoverSeen, [Next]_vars
             PROVE  KoverSeen'
  OBVIOUS
<1> USE DEF KoverSeen, fields, commanded, topic, clearance
<1>1. ASSUME NEW msg \in Messages, Send(msg)
      PROVE  KoverSeen'
  <2>1. \A i \in 1 .. Len(inbox') : /\ i \in 1 .. Len(inbox) \/ i = Len(inbox) + 1
                                    /\ i \in 1 .. Len(inbox) => inbox'[i] = inbox[i]
                                    /\ i = Len(inbox) + 1 => inbox'[i] = msg
    BY <1>1, Sending
  <2>2. /\ kovered => kovered'
        /\ msg.body = "KOVER" => kovered'
        /\ UNCHANGED <<handling, kover, pc>>
    BY <1>1 DEF Send
  <2> QED
    BY <2>1, <2>2
<1>2. CASE HandleMissionLoad
  BY <1>2, Receiving DEF HandleMissionLoad, Receives
<1>3. CASE HandleCmd
  <2>1. inbox # <<>> /\ inbox' = Tail(inbox) /\ UNCHANGED <<pc, kovered>>
    BY <1>3 DEF HandleCmd, Receives
  <2>2. Head(inbox).body = "KOVER" => kovered
    BY <2>1, Receiving
  <2>3. (kover' => kover \/ kovered)
        /\ (handling'.command = "KOVER" => kovered)
    BY <1>3, <2>2 DEF HandleCmd
  <2> QED
    BY <2>1, <2>3, Receiving
<1>4. CASE ReadState
  BY <1>4 DEF ReadState, Typed, Handling
<1>5. CASE Start \/ Pause \/ Resume \/ Kover \/ Abort \/ EmergencyStop \/ Reset
           \/ StartWithoutMission
  BY <1>5 DEF Start, StartWithoutMission, Pause, Resume, Abort, EmergencyStop, Reset,
              Kover, Decides, Becomes, Handled
<1>6. CASE Poll \/ NothingToDo \/ BeginPreflight \/ ContinueLanding \/ ContinueKover
           \/ ContinueMission
  BY <1>6 DEF Poll, NothingToDo, BeginPreflight, ContinueLanding, ContinueKover,
              ContinueMission, At
<1>7. CASE Fly \/ OrvdApproves \/ OrvdDenies \/ DroneportApproves \/ DroneportDenies
  BY <1>7 DEF Fly, OrvdApproves, OrvdDenies, DroneportApproves, DroneportDenies, Denied, At
<1>8. CASE StartLanding \/ LandingPort \/ WaitForPort \/ AskPortAgain \/ PortAnswersAgain
  BY <1>8 DEF StartLanding, LandingPort, WaitForPort, AskPortAgain, PortAnswersAgain, At
<1>9. CASE Descend \/ TouchDown \/ CompleteMission \/ KoverDescend \/ KoverLanded
  BY <1>9 DEF Descend, TouchDown, CompleteMission, KoverDescend, KoverLanded, At
<1>10. CASE UNCHANGED vars
  BY <1>10 DEF vars
<1> QED
  BY <1>1, <1>2, <1>3, <1>4, <1>5, <1>6, <1>7, <1>8, <1>9, <1>10
     DEF Next, Consumer, Control, Decide

-----------------------------------------------------------------------------
(* The clearance *)

\* A load drops the clearance of the mission before, and so does a reset; the
\* others keep it, or wait for a new one.
LEMMA ClearanceStep ==
  ASSUME Typed, KoverSeen, ~kovered, ~overtaken', [Next]_vars,
         ~overtaken => Clearance
  PROVE  Clearance'
<1> USE DEF Clearance, Grounded, Flying, fields, commanded, topic, clearance
<1>1. CASE HandleMissionLoad
  <2>1. /\ state' = "MISSION_LOADED" /\ handling = None
        /\ pc \notin {"orvd", "droneport"} /\ UNCHANGED <<handling, pc>>
    BY <1>1 DEF HandleMissionLoad, Receives
  <2> QED
    BY <2>1
<1>2. ASSUME ~HandleMissionLoad
      PROVE  ~overtaken
  BY <1>2 DEF Next, vars, Send, Consumer, HandleCmd, Receives, ReadState, Start, Pause,
       Resume, Kover, Abort, EmergencyStop, Reset, StartWithoutMission, Decides, Becomes,
       Handled, Control, Poll, Decide, NothingToDo, BeginPreflight, ContinueLanding,
       ContinueKover, ContinueMission, Fly, OrvdApproves, OrvdDenies, DroneportApproves,
       DroneportDenies, Denied, StartLanding, LandingPort, WaitForPort, AskPortAgain,
       PortAnswersAgain, Descend, TouchDown, CompleteMission, KoverDescend, KoverLanded, At
<1>3. CASE HandleCmd
  <2>1. ~HandleMissionLoad /\ handling = None
    BY <1>3 DEF HandleCmd, HandleMissionLoad, Receives
  <2>2. handling'.seen = None /\ UNCHANGED <<mission, state, cleared, pc, job>>
    BY <1>3 DEF HandleCmd
  <2> QED
    BY <1>2, <2>1, <2>2
<1>4. CASE ReadState
  <2>1. /\ handling # None /\ handling \in Handling
        /\ handling' = [handling EXCEPT !.seen = state]
        /\ UNCHANGED <<mission, state, cleared, pc, job>> /\ ~HandleMissionLoad
    BY <1>4 DEF ReadState, Typed, HandleMissionLoad, Receives
  <2> QED
    BY <1>2, <2>1 DEF Handling
<1>5. CASE Kover
  BY <1>5 DEF Kover, Decides, Becomes, Handles, KoverSeen
<1>6. CASE Start \/ Pause \/ Resume
  <2>1. /\ handling # None /\ handling' = None /\ handling.seen # None
        /\ UNCHANGED <<mission, cleared, pc, job>> /\ ~HandleMissionLoad
    BY <1>6 DEF Start, Pause, Resume, Decides, Becomes, Handles, Handled, HandleMissionLoad,
                Receives
  <2>2. state' \in Flying => state \in Flying \/ handling.seen \in Flying
    BY <1>6 DEF Start, Pause, Resume, Decides, Becomes
  <2> QED
    BY <1>2, <2>1, <2>2
<1>7. CASE Abort \/ EmergencyStop \/ Reset \/ StartWithoutMission
  <2>1. /\ handling # None /\ handling' = None /\ UNCHANGED <<pc, job>>
        /\ ~HandleMissionLoad
    BY <1>7 DEF Abort, EmergencyStop, Reset, StartWithoutMission, Becomes, Handles, Handled,
                HandleMissionLoad, Receives
  <2>2. \/ state' \notin Flying /\ UNCHANGED <<mission, cleared>>
        \/ state' \notin Flying /\ mission' = None
        \/ UNCHANGED <<mission, cleared, state>>
    BY <1>7 DEF Abort, EmergencyStop, Reset, StartWithoutMission, Becomes
  <2> QED
    BY <1>2, <2>1, <2>2
<1>8. ASSUME Control \/ UNCHANGED vars
      PROVE  ~overtaken /\ UNCHANGED handling
  BY <1>8 DEF vars, Control, Poll, Decide, NothingToDo, BeginPreflight, ContinueLanding,
       ContinueKover, ContinueMission, Fly, OrvdApproves, OrvdDenies, DroneportApproves,
       DroneportDenies, Denied, StartLanding, LandingPort, WaitForPort, AskPortAgain,
       PortAnswersAgain, Descend, TouchDown, CompleteMission, KoverDescend, KoverLanded, At
<1>9. CASE Poll \/ Decide
  <2>1. CASE Poll \/ NothingToDo \/ ContinueLanding \/ ContinueKover
    BY <1>8, <1>9, <2>1 DEF Control, Poll, NothingToDo, ContinueLanding, ContinueKover, At
  <2>2. CASE BeginPreflight
    <3>1. /\ job'.mission = mission /\ pc' = "orvd"
          /\ UNCHANGED <<mission, state, cleared, handling>>
      BY <1>8, <2>2 DEF Control, Decide, BeginPreflight, At, Typed
    <3> QED
      BY <1>8, <1>9, <3>1 DEF Control
  <2>3. CASE ContinueMission
    <3>1. /\ job'.mission = mission /\ mission # None
          /\ pc' \in {"arrived", "fly"} /\ UNCHANGED <<mission, state, cleared, handling>>
      BY <1>8, <2>3 DEF Control, Decide, ContinueMission, At
    <3> QED
      BY <1>8, <1>9, <3>1 DEF Control
  <2> QED
    BY <1>9, <2>1, <2>2, <2>3 DEF Decide
<1>10. CASE Fly \/ OrvdApproves \/ OrvdDenies \/ DroneportApproves \/ DroneportDenies
  BY <1>8, <1>10 DEF Control, Fly, OrvdApproves, OrvdDenies, DroneportApproves,
       DroneportDenies, Denied, At
<1>11. CASE StartLanding \/ LandingPort \/ WaitForPort \/ AskPortAgain \/ PortAnswersAgain
  BY <1>8, <1>11 DEF Control, StartLanding, LandingPort, WaitForPort, AskPortAgain,
       PortAnswersAgain, At
<1>12. CASE Descend \/ TouchDown \/ CompleteMission \/ KoverDescend
  BY <1>8, <1>12 DEF Control, Descend, TouchDown, CompleteMission, KoverDescend, At
<1>13. CASE KoverLanded
  BY <1>13 DEF KoverLanded, At, KoverSeen
<1>14. ASSUME NEW msg \in Messages, Send(msg)
       PROVE  Clearance'
  BY <1>14 DEF Send
<1>15. CASE UNCHANGED vars
  BY <1>8, <1>15 DEF vars
<1> QED
  BY <1>1, <1>3, <1>4, <1>5, <1>6, <1>7, <1>9, <1>10, <1>11, <1>12, <1>13, <1>14, <1>15
     DEF Next, Consumer, Control

-----------------------------------------------------------------------------
LEMMA InvInit == Init => Inv
<1>1. Init => KoverSeen
  BY DEF Init, KoverSeen
<1>2. Init => Clearance
  BY DEF Init, Clearance
<1> QED
  BY <1>1, <1>2, TypedInit DEF Inv

LEMMA InvStep == Inv /\ [Next]_vars => Inv'
<1> SUFFICES ASSUME Inv, [Next]_vars
             PROVE  Inv'
  OBVIOUS
<1>1. Typed' /\ KoverSeen'
  BY TypedStep, KoverStep DEF Inv
<1>2. kovered => kovered'
  BY DEF Next, vars, Send, Consumer, HandleMissionLoad, HandleCmd, Receives, ReadState, Start,
       Pause, Resume, Kover, Abort, EmergencyStop, Reset, StartWithoutMission, Decides,
       Becomes, Handled, topic, Control, Poll, Decide, NothingToDo, BeginPreflight,
       ContinueLanding, ContinueKover, ContinueMission, Fly, OrvdApproves, OrvdDenies,
       DroneportApproves, DroneportDenies, Denied, StartLanding, LandingPort, WaitForPort,
       AskPortAgain, PortAnswersAgain, Descend, TouchDown, CompleteMission, KoverDescend,
       KoverLanded, At
<1>3. ~kovered' /\ ~overtaken' => Clearance'
  BY <1>2, ClearanceStep DEF Inv
<1> QED
  BY <1>1, <1>3 DEF Inv

LEMMA Invariance == Spec => []Inv
BY InvInit, InvStep, PTL DEF Spec

\* The fields of the autopilot keep their type, whatever is sent to it.
THEOREM AutopilotTypeCorrect == Spec => []TypeOK
<1>1. Inv => TypeOK
  BY DEF Inv, Typed
<1> QED
  BY <1>1, Invariance, PTL

\* Without KOVER no step is flown that both authorities have not cleared since
\* its mission was last loaded, but of a mission loaded while the checks of the
\* one before were waiting: no command and no load in the middle of a check, a
\* step or a landing gets around them.
THEOREM FlightsAreCleared == Spec => []FlightCleared
<1>1. Inv => FlightCleared
  BY DEF Inv, FlightCleared, Clearance, Grounded, Flying
<1> QED
  BY <1>1, Invariance, PTL
=============================================================================
