---------------------------- MODULE RequestReply ----------------------------
(***************************************************************************)
(* What SystemBus.request promises to its caller: one outcome per call,    *)
(* and an answer only from a handler that ran for this very call.  A       *)
(* handler may run late, after the caller has given up, and may run again. *)
(***************************************************************************)
CONSTANT Requests

VARIABLES outcome, \* request -> how its call stands
          handled  \* requests for which the handler has run

Init ==
  /\ outcome = [r \in Requests |-> "idle"]
  /\ handled = {}

Call(r) ==
  /\ outcome[r] = "idle"
  /\ outcome' = [outcome EXCEPT ![r] = "open"]
  /\ UNCHANGED handled

Handle(r) ==
  /\ outcome[r] # "idle"
  /\ handled' = handled \cup {r}
  /\ UNCHANGED outcome

Answer(r) ==
  /\ outcome[r] = "open"
  /\ r \in handled
  /\ outcome' = [outcome EXCEPT ![r] = "answered"]
  /\ UNCHANGED handled

GiveUp(r) ==
  /\ outcome[r] = "open"
  /\ outcome' = [outcome EXCEPT ![r] = "none"]
  /\ UNCHANGED handled

Next == \E r \in Requests : Call(r) \/ Handle(r) \/ Answer(r) \/ GiveUp(r)

Spec == Init /\ [][Next]_<<outcome, handled>>
=============================================================================
