------------------------------- MODULE Trail --------------------------------
(***************************************************************************)
(* What the components that follow the drone promise, abstracted from the  *)
(* calls between them: the drone's state has a sequence of versions; each  *)
(* follower holds one that was current at some time, never a newer one     *)
(* than the follower it asks, and only goes forward.                       *)
(***************************************************************************)
EXTENDS Integers

CONSTANTS Followers,
          Source,     \* whom a follower asks: another follower, or the drone
          Drone

VARIABLES now,        \* the drone's version
          held        \* the version each follower holds

trailVars == <<now, held>>

TrailInit == now = 0 /\ held = [f \in Followers |-> 0]

Change == now' = now + 1 /\ UNCHANGED held

\* What f can learn: what its source holds, or held at an earlier time.
Newest(f) == IF Source[f] = Drone THEN now ELSE held[Source[f]]

Follow(f) ==
  \E v \in held[f] .. Newest(f) :
    /\ held' = [held EXCEPT ![f] = v]
    /\ UNCHANGED now

TrailNext == Change \/ \E f \in Followers : Follow(f)

TrailSpec == TrailInit /\ [][TrailNext]_trailVars
=============================================================================
