------------------------------ MODULE Tracking ------------------------------
(***************************************************************************)
(* The components of systems/agrodron that follow where the drone is:      *)
(* navigation asks the simulator, the limiter and telemetry ask            *)
(* navigation, the system monitor asks telemetry.  Each has a thread of    *)
(* its own that asks through the security monitor, waits for a time, and   *)
(* keeps the last answer.  They are composed with the simulator of Sitl.   *)
(*                                                                         *)
(* An answer that comes after the caller gave up is dropped by the bus     *)
(* (SystemBus).  Of the telemetry only the part about navigation is kept;  *)
(* the motors and the sprayer, asked before it, say nothing of the place.  *)
(* The limiter also asks for telemetry and never uses it: left out.        *)
(***************************************************************************)
EXTENDS Sitl

CONSTANTS Followers,  \* the polling threads
          Source,     \* whom each asks
          Tardy,      \* bound: whose late answers are kept
          Targets,    \* cells a mission's last step may name
          MaxFailures \* bound: queries of Redis that fail

ASSUME TrackingAssumption ==
  /\ {"navigation", "limiter"} \subseteq Followers
  /\ Tardy \subseteq Followers
  /\ Source \in [Followers -> Followers \cup {"sitl"}]
  /\ \A f \in Followers : Source[f] = "sitl" <=> f = "navigation"
  /\ MaxFailures \in Nat

VARIABLES held,     \* what each follower stored last
          reply,    \* the answer on its way to each thread, or None
          late,     \* an answer whose caller gave up: [to, version], or None
          failures, \* how many queries of Redis have failed
          mission,  \* the last step of the limiter's mission, or None
          state,    \* the limiter's _state
          beyond,   \* ghost: the targets some answer of SITL was out of limits of
          loaded    \* ghost: the targets of the missions the limiter has had

callVars == <<held, reply, late, failures>>
limiterVars == <<mission, state>>
ghosts == <<beyond, loaded>>
trackingVars == <<sitlVars, callVars, limiterVars, ghosts>>

\* lat, lon and alt_m 0 with gps_valid False: what normalize_sitl_to_nav_state
\* makes of an answer without coordinates.
Nowhere == -1
Place == Cell \cup {Nowhere}

\* A NAV_STATE, and the version the record had when SITL was asked.  A follower that
\* has stored nothing holds Nothing.
NavState == [place : Place, version : Nat]
Nothing == [place |-> None, version |-> 0]
Held == NavState \cup {Nothing}

TrackingTypeOK ==
  /\ SitlTypeOK
  /\ held \in [Followers -> Held]
  /\ reply \in [Followers -> Held \cup {None}]
  /\ late \in [to : Tardy, version : Nat] \cup {None}
  /\ failures \in Nat
  /\ mission \in Targets \cup {None}
  /\ state \in {"NORMAL", "WARNING", "EMERGENCY"}
  /\ beyond \subseteq Targets /\ loaded \subseteq Targets

PlaceOf(rec) == IF rec = None THEN Nowhere ELSE rec.cell

\* How far a place is from a target, in the limiter's three degrees.  Nowhere
\* is off the coast of Africa; gps_valid and fix are not looked at.
Deviation(p, t) ==
  IF p = Nowhere THEN "EMERGENCY"
  ELSE CASE p = t -> "NORMAL"
         [] p \in {t - 1, t + 1} -> "WARNING"
         [] OTHER -> "EMERGENCY"

\* The targets whose limits a place is out of.
Breached(p) == {t \in Targets : Deviation(p, t) = "EMERGENCY"}

TrackingInit ==
  /\ SitlInit
  /\ held = [f \in Followers |-> Nothing]
  /\ reply = [f \in Followers |-> None]
  /\ late = None /\ failures = 0
  /\ mission = None
  /\ state = "NORMAL"
  /\ beyond = {} /\ loaded = {}

-----------------------------------------------------------------------------
(* The polls.  A thread is always about to ask or waiting for the answer;  *)
(* until it is made nothing tells the two apart.                           *)

Answer(p) ==
  /\ reply["navigation"] = None
  /\ reply' = [reply EXCEPT !["navigation"] = [place |-> p, version |-> version]]
  /\ beyond' = beyond \cup Breached(p)
  /\ UNCHANGED <<sitlVars, held, late, limiterVars, loaded>>

\* _handle_request_position: the place in the record; without a record an error.
AnswerPosition == Answer(PlaceOf(record)) /\ UNCHANGED failures

\* The query fails, and the answer is empty whatever the record says.  Like the
\* error it is a dict without coordinates: navigation takes it.
FailPosition ==
  /\ failures < MaxFailures
  /\ failures' = failures + 1
  /\ Answer(Nowhere)

\* _handle_get_state of navigation and of telemetry.
AnswerState(f) ==
  /\ Source[f] # "sitl"
  /\ reply[f] = None
  /\ reply' = [reply EXCEPT ![f] = held[Source[f]]]
  /\ UNCHANGED <<sitlVars, held, late, failures, limiterVars, ghosts>>

\* An answer without a state of navigation leaves what the thread had.
Receive(f) ==
  /\ reply[f] # None
  /\ held' = [held EXCEPT ![f] = IF reply[f] = Nothing THEN @ ELSE reply[f]]
  /\ reply' = [reply EXCEPT ![f] = None]
  /\ UNCHANGED <<sitlVars, late, failures, limiterVars, ghosts>>

\* The wait ends with the answer on its way; the pending request is removed.
\* Of the late answers the model keeps the last that comes to a follower of
\* Tardy.
GiveUp(f) ==
  /\ reply[f] # None
  /\ late' = IF f \in Tardy THEN [to |-> f, version |-> reply[f].version] ELSE late
  /\ reply' = [reply EXCEPT ![f] = None]
  /\ UNCHANGED <<sitlVars, held, failures, limiterVars, ghosts>>

\* Mutant: the late answer is taken for that of the next poll.
DropLateStoring ==
  /\ late # None
  /\ late' = None
  /\ held' = [held EXCEPT ![late.to].version = late.version]
  /\ UNCHANGED <<sitlVars, reply, failures, limiterVars, ghosts>>

\* The late answer finds no pending request.
DropLate ==
  /\ late # None
  /\ late' = None
  /\ UNCHANGED <<sitlVars, held, reply, failures, limiterVars, ghosts>>

-----------------------------------------------------------------------------
(* The limiter *)

\* mission_load, from whoever the monitor's policies allow: it replaces the
\* mission and leaves the state to the next recalculation.  None is a mission
\* without a step that can be compared.
LoadMission(t) ==
  /\ mission' = t
  /\ loaded' = loaded \cup ({t} \ {None})
  /\ UNCHANGED <<sitlVars, callVars, state, beyond>>

\* Mutant: an unknown place is compared as well.
RecalculateUnpolled ==
  /\ reply["limiter"] = None
  /\ mission # None
  /\ state' = Deviation(held["limiter"].place, mission)
  /\ UNCHANGED <<sitlVars, callVars, mission, ghosts>>

\* Mutant: an alarm needs a warning before it.
RecalculateStepwise ==
  /\ reply["limiter"] = None
  /\ mission # None /\ held["limiter"] # Nothing
  /\ LET new == Deviation(held["limiter"].place, mission)
     IN  state' = IF new = "EMERGENCY" /\ state = "NORMAL" THEN state ELSE new
  /\ UNCHANGED <<sitlVars, callVars, mission, ghosts>>

\* _recalculate, between two polls of the control loop.
Recalculate ==
  /\ reply["limiter"] = None
  /\ mission # None /\ held["limiter"] # Nothing
  /\ state' = Deviation(held["limiter"].place, mission)
  /\ UNCHANGED <<sitlVars, callVars, mission, ghosts>>

-----------------------------------------------------------------------------
Simulate ==
  /\ SitlStep
  /\ UNCHANGED <<callVars, limiterVars, ghosts>>

TrackingNext ==
  \/ Simulate
  \/ AnswerPosition \/ FailPosition
  \/ \E f \in Followers : AnswerState(f) \/ Receive(f) \/ GiveUp(f)
  \/ DropLate
  \/ \E t \in Targets \cup {None} : LoadMission(t)
  \/ Recalculate

TrackingSpec == TrackingInit /\ [][TrackingNext]_trackingVars

\* The threads go on asking, the components answer, and a wait is not cut
\* short every time.
TrackingFairSpec ==
  /\ TrackingSpec
  /\ \A f \in Followers : WF_trackingVars(AnswerState(f))
  /\ WF_trackingVars(AnswerPosition)
  /\ \A f \in Followers : SF_trackingVars(Receive(f))
  /\ SF_trackingVars(Recalculate)

-----------------------------------------------------------------------------
(* The record is written whole: whichever of two overlapping writes is     *)
(* lost, what stays belongs to one flight.  The drone is on the way that   *)
(* begins at the home the record names, and its status fits its velocity.  *)
(* It is about hset of every field in the controller and the core.         *)
OneFlight ==
  record # None =>
    /\ record.cell >= record.home
    /\ record.status = "MOVING" <=> record.velocity \in Fast

\* An alarm has a cause: a mission the limiter has had, and something SITL has
\* answered that was out of its limits, a place of the drone or none.
AlarmHasCause == state = "EMERGENCY" => beyond \cap loaded # {}

\* The followers keep to Trail: late answers and answers about answers bring
\* nobody back to an older state of the drone.
HeldTrail == INSTANCE Trail WITH
  Drone <- "sitl",
  now <- version,
  held <- [f \in Followers |-> held[f].version]
ImplementsTrail == HeldTrail!TrailSpec

\* A drone that leaves the mission's limits for good raises the alarm, and
\* again if another mission or an older answer has silenced it.
Astray == mission # None /\ Deviation(PlaceOf(record), mission) = "EMERGENCY"
AlarmRaised == <>[]Astray => []<>(state = "EMERGENCY")
=============================================================================
