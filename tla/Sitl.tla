-------------------------------- MODULE Sitl --------------------------------
(***************************************************************************)
(* systems/SITL-module: the simulator that stands for the aircraft.  One   *)
(* drone has one record in Redis.  The controller's coroutines and the     *)
(* core's loop read that record, wait for Redis, and write it back whole;  *)
(* the messaging component reads it.                                       *)
(*                                                                         *)
(* Coordinates are cells along the way the drone flies, a velocity is one  *)
(* of a few names, and Fast are those the thresholds of is_moving_command  *)
(* call moving.  Headings and speeds are left out.                         *)
(***************************************************************************)
EXTENDS Integers

CONSTANTS Homes,       \* cells a HOME may give
          LastCell,    \* bound: where the way ends
          Velocities, Fast,
          MaxInputs,   \* bound: messages the verifier lets through
          None

ASSUME SitlAssumption ==
  /\ LastCell \in Nat /\ MaxInputs \in Nat
  /\ Homes \subseteq 0 .. LastCell
  /\ Fast \subseteq Velocities /\ "still" \in Velocities \ Fast

VARIABLES record,   \* the hash drone:<id>:state, or None
          jobs,     \* the controller's coroutines, one for each message
          beat,     \* the record the core's loop has read, or None
          version   \* how often the record changed

sitlVars == <<record, jobs, beat, version>>

Cell == 0 .. LastCell
Record == [status : {"ARMED", "MOVING"}, velocity : Velocities,
           cell : Cell, home : Homes]
Message == [type : {"HOME"}, home : Homes]
           \cup [type : {"COMMAND"}, velocity : Velocities]
Slots == 1 .. MaxInputs
NotYet == [phase |-> "not yet"]
Done == [phase |-> "done"]
Job == {NotYet, Done}
       \cup [phase : {"read"}, message : Message, seen : Record \cup {None}]

SitlTypeOK ==
  /\ record \in Record \cup {None}
  /\ jobs \in [Slots -> Job]
  /\ beat \in Record \cup {None}
  /\ version \in Nat

\* Redis outlives the components: they find no record, one of a drone at home
\* or one of a drone under way.
SitlInit ==
  /\ record \in {None} \cup
       [status : {"ARMED"}, velocity : {"still"}, cell : {0}, home : Homes \cap {0}]
       \cup [status : {"MOVING"}, velocity : Fast, cell : {0}, home : Homes \cap {0}]
  /\ jobs = [i \in Slots |-> NotYet]
  /\ beat = None
  /\ version = 0

-----------------------------------------------------------------------------
(* shared/state.py *)

build_home_state(m) ==
  [status |-> "ARMED", velocity |-> "still", cell |-> m.home, home |-> m.home]

apply_command_update(state, m) ==
  [state EXCEPT !.velocity = m.velocity,
                !.status = IF m.velocity \in Fast THEN "MOVING" ELSE "ARMED"]

\* The drone of the model stops at the end of the way.
advance_drone_state(state) ==
  IF state.status = "MOVING" /\ state.cell < LastCell
  THEN [state EXCEPT !.cell = @ + 1]
  ELSE state

\* hset of a mapping with every field, and the expiry put off.
Persist(state) ==
  /\ record' = state
  /\ version' = version + 1

-----------------------------------------------------------------------------
(* The verifier and the controller *)

\* A message that breaks its schema is rejected by the verifier and changes
\* nothing.  One that passes (any of Message, at any time) is published for
\* the controller, whose callback starts a coroutine: _handle_verified_message
\* up to the answer of hgetall.  Callbacks run in a pool of threads, so that
\* coroutines may start in any order.
StartJob(i, m) ==
  /\ jobs[i] = NotYet
  /\ \A j \in Slots : j < i => jobs[j] # NotYet
  /\ jobs' = [jobs EXCEPT ![i] = [phase |-> "read", message |-> m, seen |-> record]]
  /\ UNCHANGED <<record, beat, version>>

\* The rest: a HOME replaces the record, a COMMAND changes what was read, and
\* is ignored when there was no record to read.
ApplyMessage(i) ==
  /\ jobs[i].phase = "read"
  /\ LET m == jobs[i].message
     IN  \/ /\ m.type = "HOME"
            /\ Persist(build_home_state(m))
         \/ /\ m.type = "COMMAND" /\ jobs[i].seen # None
            /\ Persist(apply_command_update(jobs[i].seen, m))
         \/ /\ m.type = "COMMAND" /\ jobs[i].seen = None
            /\ UNCHANGED <<record, version>>
  /\ jobs' = [jobs EXCEPT ![i] = Done]
  /\ UNCHANGED beat

-----------------------------------------------------------------------------
(* The core *)

\* _update_drone_position up to the answer of hgetall; only a moving drone is
\* advanced.
BeatRead ==
  /\ beat = None
  /\ record # None /\ record.status = "MOVING"
  /\ beat' = record
  /\ UNCHANGED <<record, jobs, version>>

\* Mutant: only the coordinates are written.
BeatWriteCoordinates ==
  /\ beat # None
  /\ IF record = None THEN UNCHANGED <<record, version>>
     ELSE Persist([record EXCEPT !.cell = advance_drone_state(beat).cell])
  /\ beat' = None
  /\ UNCHANGED jobs

\* The mapping written is what was read, advanced: a message the controller
\* applied in between is undone.
BeatWrite ==
  /\ beat # None
  /\ IF advance_drone_state(beat) = record
     THEN UNCHANGED <<record, version>>
     ELSE Persist(advance_drone_state(beat))
  /\ beat' = None
  /\ UNCHANGED jobs

\* Redis is out of reach: the loop logs it and sleeps.
BeatFails ==
  /\ beat # None
  /\ beat' = None
  /\ UNCHANGED <<record, jobs, version>>

\* STATE_TTL_SEC has passed since the last write.  The core writes a moving
\* record many times a second.
Expire ==
  /\ record # None /\ record.status = "ARMED"
  /\ beat = None
  /\ \A i \in Slots : jobs[i].phase # "read"
  /\ record' = None
  /\ version' = version + 1
  /\ UNCHANGED <<jobs, beat>>

SitlStep ==
  \/ \E i \in Slots, m \in Message : StartJob(i, m)
  \/ \E i \in Slots : ApplyMessage(i)
  \/ BeatRead \/ BeatWrite \/ BeatFails
  \/ Expire
=============================================================================
