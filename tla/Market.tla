------------------------------- MODULE Market -------------------------------
(***************************************************************************)
(* The operators (systems/operator) between the aggregator and an insurer. *)
(* Two consumer threads of an operator share its table of drones: one      *)
(* answers the aggregator's orders, handling one at a time and asking the  *)
(* insurer in the middle; the other registers and assigns drones.          *)
(*                                                                         *)
(* An offer is published Attempts times, two seconds apart (six times in   *)
(* the code), because the aggregator takes no offer before it has written  *)
(* "searching".  Assumed of real time: that write, one statement after the *)
(* publication, ends before the last attempt, ten seconds later.           *)
(*                                                                         *)
(* Results of a flight come from outside: no component of the repository   *)
(* publishes order_result.  Nor does one publish create_order to           *)
(* systems.agregator, which the operator's topics.py describes; at most    *)
(* MaxRepeats such messages name an order at a time, any number over time. *)
(***************************************************************************)
EXTENDS Aggregator

CONSTANTS Drones,
          Owner,       \* drone -> its operator
          Attempts,    \* AGREGATOR_OFFER_RETRIES
          MaxPolicies, MaxRepeats

\* What an operator's create_order handler works on.
Job == [order : Orders, drone : Drones, attempt : 0 .. Attempts]

ASSUME MarketAssumption ==
  /\ MaxPolicies \in Nat /\ MaxRepeats \in Nat
  /\ Owner \in [Drones -> Operators]
  /\ Attempts \in Nat \ {0}
  /\ None \notin Job

VARIABLES insurer, active, ended

INSTANCE Insurance

VARIABLES fleet,    \* drone -> None if unknown, "available" or its order
          offering, \* operator -> its create_order handler, or None
          offered   \* the offers published: [order, operator, drone]

insuranceVars == <<insurer, active, ended>>
operatorVars == <<fleet, offering, offered>>
vars == <<aggregatorVars, insuranceVars, operatorVars>>

MarketTypeOK ==
  /\ orders \in [Orders -> Row \cup {None}]
  /\ calls \subseteq [order : Orders, at : {"publish", "update", "confirm"}]
  /\ repeats \in [Orders -> 0 .. MaxRepeats]
  /\ requests \in [Operators -> SUBSET [action : {"create_order", "confirm_price"},
                                        order : Orders]]
  /\ answers \subseteq
       [action : {"price_offer"}, order : Orders, operator : Operators]
       \cup [action : {"order_result"}, order : Orders, success : BOOLEAN]
  /\ fleet \in [Drones -> Orders \cup {None, "available"}]
  /\ offering \in [Operators -> Job \cup {None}]
  /\ offered \subseteq [order : Orders, operator : Operators, drone : Drones]
  /\ InsuranceTypeOK

Init ==
  /\ AggregatorInit /\ InsuranceInit
  /\ fleet = [d \in Drones |-> None]
  /\ offering = [op \in Operators |-> None]
  /\ offered = {}

Available(op) == {d \in Drones : Owner[d] = op /\ fleet[d] = "available"}

-----------------------------------------------------------------------------
(* The handlers of components.operator. *)

\* A certificate, if one is given, has been verified; a drone that is known,
\* and perhaps assigned, is entered again as available.
RegisterDrone(d) ==
  /\ fleet' = [fleet EXCEPT ![d] = "available"]
  /\ UNCHANGED <<aggregatorVars, insuranceVars, offering, offered>>

SelectDrone(d, o) ==
  /\ fleet[d] = "available"
  /\ fleet' = [fleet EXCEPT ![d] = o]
  /\ UNCHANGED <<aggregatorVars, insuranceVars, offering, offered>>

BuyInsurancePolicy(o) == Sell(o) /\ UNCHANGED <<aggregatorVars, operatorVars>>

\* The insurer's other customers.
TerminatePolicy(o) ==
  /\ HandleTerminate(o) \/ TerminatePolicyByOrderId(o)
  /\ UNCHANGED <<aggregatorVars, operatorVars>>

-----------------------------------------------------------------------------
(* The thread of operator.requests. *)

\* An operator takes a request when it is through with the one before.
Takes(op, action, o) ==
  /\ offering[op] = None
  /\ [action |-> action, order |-> o] \in requests[op]
  /\ requests' = [requests EXCEPT ![op] = @ \ {[action |-> action, order |-> o]}]
  /\ UNCHANGED <<orders, calls, repeats, answers, insuranceVars, fleet, offered>>

\* Without an available drone the order is dropped; with one, that drone is
\* offered, and stays available.
HandleCreateOrder(op, o) ==
  /\ Takes(op, "create_order", o)
  /\ IF Available(op) = {} THEN offering' = offering
     ELSE \E d \in Available(op) :
            offering' = [offering EXCEPT ![op] = [order |-> o, drone |-> d, attempt |-> 0]]

\* confirm_price is logged, whoever it is meant for.
HandleConfirmPrice(op, o) == Takes(op, "confirm_price", o) /\ UNCHANGED offering

\* The mission policy is asked for before the order is won; whatever comes
\* of the request, the offer goes on.
InsureOffer(op) ==
  /\ offering[op] # None /\ offering[op].attempt = 0
  /\ offering' = [offering EXCEPT ![op].attempt = 1]
  /\ \/ Sell(offering[op].order)
     \/ UNCHANGED insuranceVars
  /\ UNCHANGED <<aggregatorVars, fleet, offered>>

Offers(op, wait, next) ==
  LET job == offering[op]
  IN /\ job # None /\ job.attempt > 0
     /\ wait => Call(job.order, "update") \notin calls
     /\ answers' = answers \cup
          {[action |-> "price_offer", order |-> job.order, operator |-> op]}
     /\ offered' = offered \cup
          {[order |-> job.order, operator |-> op, drone |-> job.drone]}
     /\ offering' = [offering EXCEPT ![op] = next]
     /\ UNCHANGED <<orders, calls, repeats, requests, insuranceVars, fleet>>

\* Mutant: the offer is published once.
PublishOfferOnce(op) == Offers(op, FALSE, None)

PublishOffer(op) ==
  IF offering[op] # None /\ offering[op].attempt < Attempts
  THEN Offers(op, FALSE, [offering[op] EXCEPT !.attempt = @ + 1])
  ELSE Offers(op, TRUE, None)

\* From outside: an operator flew a confirmed order, or did not; it may say so
\* again.
ReportResult(o, success) ==
  /\ StatusOf(o) = "confirmed"
  /\ answers' = answers \cup
       {[action |-> "order_result", order |-> o, success |-> success]}
  /\ UNCHANGED <<orders, calls, repeats, requests, insuranceVars, fleet, offering,
                 offered>>

\* From outside: a create_order for systems.agregator.
RepeatOrder(o) ==
  /\ repeats[o] < MaxRepeats
  /\ repeats' = [repeats EXCEPT ![o] = @ + 1]
  /\ UNCHANGED <<orders, calls, requests, answers, insuranceVars, operatorVars>>

-----------------------------------------------------------------------------
AggregatorStep == AggregatorNext /\ UNCHANGED <<insuranceVars, operatorVars>>

OperatorStep(op) ==
  \/ \E o \in Orders : HandleCreateOrder(op, o) \/ HandleConfirmPrice(op, o)
  \/ InsureOffer(op)
  \/ PublishOffer(op)

Next ==
  \/ AggregatorStep
  \/ \E op \in Operators : OperatorStep(op)
  \/ \E d \in Drones :
       \/ RegisterDrone(d)
       \/ \E o \in Orders : SelectDrone(d, o)
  \/ \E o \in Orders :
       \/ BuyInsurancePolicy(o) \/ TerminatePolicy(o) \/ RepeatOrder(o)
       \/ \E success \in BOOLEAN : ReportResult(o, success)

Spec == Init /\ [][Next]_vars

\* The handlers of the aggregator end, its consumer and the operators' threads
\* go on.
FairSpec == /\ Spec
            /\ WF_vars((\E o \in Orders : OrderPublished(o))
                       /\ UNCHANGED <<insuranceVars, operatorVars>>)
            /\ WF_vars(HandleAnswer /\ UNCHANGED <<insuranceVars, operatorVars>>)
            /\ \A op \in Operators : WF_vars(OperatorStep(op))

-----------------------------------------------------------------------------
(* Properties. *)

\* The deal between customer and operator: nothing that arrives late, twice or
\* out of order (an offer before "searching" or after a match, a second
\* confirmation or result) takes an order to another operator or back.  Only a
\* create_order of systems.agregator takes it back to the search, once for each
\* that was sent; and an operator is matched only after it bid.
Phase(o) ==
  CASE StatusOf(o) = "none" -> "none"
    [] StatusOf(o) \in {"pending", "searching"} -> "open"
    [] StatusOf(o) = "matched" -> "matched"
    [] StatusOf(o) = "confirmed" -> "agreed"
    [] StatusOf(o) = "completed_pending_confirmation" -> "delivered"
    [] StatusOf(o) = "dispute" -> "disputed"
    [] StatusOf(o) = "completed" -> "closed"

\* The message took the order out of "pending" before the handler that created
\* it wrote "searching": that write, too, may find it further on.
Overtaken(o) ==
  /\ Call(o, "publish") \in calls \/ Call(o, "update") \in calls
  /\ StatusOf(o) # "pending"

Recalls(o) == repeats[o] + IF Overtaken(o) THEN 1 ELSE 0

D == INSTANCE Deal
       WITH phase <- [o \in Orders |-> Phase(o)],
            party <- [o \in Orders |-> IF orders[o] = None THEN None
                                       ELSE orders[o].operator],
            recalls <- [o \in Orders |-> Recalls(o)],
            bids <- {<<b.order, b.operator>> : b \in offered}

ImplementsDeal == D!Spec

\* An operator that begins to offer for an order gets it matched, with itself
\* or another, although the aggregator may still be writing "searching" when
\* the first offers come.
OfferedIsMatched ==
  \A o \in Orders :
    (\E op \in Operators : offering[op] # None /\ offering[op].order = o)
      ~> Phase(o) \notin {"none", "open"}
=============================================================================
