-------------------------- MODULE FlightClearance --------------------------
(***************************************************************************)
(* What the ledger promises about flying: a clearance is requested once,   *)
(* decided once by the air-traffic authority and closed once, and a flight *)
(* departs only while its clearance is approved.                           *)
(***************************************************************************)
CONSTANT Flights

VARIABLES clearance, \* flight -> the state of its clearance
          airborne   \* flights that have departed and not been moved on

Init ==
  /\ clearance = [f \in Flights |-> "none"]
  /\ airborne = {}

Move(f, from, to) ==
  /\ clearance[f] = from
  /\ clearance' = [clearance EXCEPT ![f] = to]
  /\ UNCHANGED airborne

Request(f) == Move(f, "none", "requested")
Approve(f) == Move(f, "requested", "approved")
Reject(f) == Move(f, "requested", "rejected")
Close(f) == Move(f, "approved", "closed")

Depart(f) ==
  /\ clearance[f] = "approved"
  /\ airborne' = airborne \cup {f}
  /\ UNCHANGED clearance

Leave(f) ==
  /\ airborne' = airborne \ {f}
  /\ UNCHANGED clearance

Next ==
  \E f \in Flights : Request(f) \/ Approve(f) \/ Reject(f) \/ Close(f)
                     \/ Depart(f) \/ Leave(f)

Spec == Init /\ [][Next]_<<clearance, airborne>>
=============================================================================
