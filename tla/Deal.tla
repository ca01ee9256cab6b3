-------------------------------- MODULE Deal --------------------------------
(***************************************************************************)
(* What the aggregator promises its customers and operators: an order is   *)
(* matched with one operator that bid for it, keeps that operator, and     *)
(* moves forward from the search to its completion or a dispute.  Only a   *)
(* recall takes it back to the search, and at most once.                   *)
(***************************************************************************)
EXTENDS Naturals

CONSTANTS Orders, Operators, None

VARIABLES phase,   \* order -> how far it is
          party,   \* order -> the operator it is matched with last, or None
          recalls, \* order -> the recalls that may still take it back
          bids     \* the bids made: pairs of an order and an operator

Init ==
  /\ phase = [o \in Orders |-> "none"]
  /\ party = [o \in Orders |-> None]
  /\ recalls = [o \in Orders |-> 0]
  /\ bids = {}

Moves(o, from, to) ==
  /\ phase[o] \in from
  /\ phase' = [phase EXCEPT ![o] = to]
  /\ UNCHANGED <<recalls, bids>>

Open(o) == Moves(o, {"none"}, "open") /\ UNCHANGED party

Bid(o, op) ==
  /\ phase[o] # "none"
  /\ bids' = bids \cup {<<o, op>>}
  /\ UNCHANGED <<phase, party, recalls>>

Match(o, op) ==
  /\ <<o, op>> \in bids
  /\ Moves(o, {"open"}, "matched")
  /\ party' = [party EXCEPT ![o] = op]

Agree(o) == Moves(o, {"matched"}, "agreed") /\ UNCHANGED party
Deliver(o) == Moves(o, {"agreed"}, "delivered") /\ UNCHANGED party
Dispute(o) == Moves(o, {"agreed"}, "disputed") /\ UNCHANGED party
Close(o) == Moves(o, {"delivered"}, "closed") /\ UNCHANGED party

Recall(o) ==
  /\ recalls' = [recalls EXCEPT ![o] = @ + 1]
  /\ UNCHANGED <<phase, party, bids>>

\* It reopens the order, or comes to nothing.
Reopen(o) ==
  /\ recalls[o] > 0 /\ phase[o] # "none"
  /\ recalls' = [recalls EXCEPT ![o] = @ - 1]
  /\ phase' = [phase EXCEPT ![o] = "open"]
  /\ UNCHANGED <<party, bids>>

Lapse(o) ==
  /\ recalls[o] > 0
  /\ recalls' = [recalls EXCEPT ![o] = @ - 1]
  /\ UNCHANGED <<phase, party, bids>>

Next ==
  \E o \in Orders :
    \/ Open(o) \/ Agree(o) \/ Deliver(o) \/ Dispute(o) \/ Close(o)
    \/ Recall(o) \/ Reopen(o) \/ Lapse(o)
    \/ \E op \in Operators : Bid(o, op) \/ Match(o, op)

Spec == Init /\ [][Next]_<<phase, party, recalls, bids>>
=============================================================================
