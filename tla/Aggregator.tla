----------------------------- MODULE Aggregator -----------------------------
(***************************************************************************)
(* systems/Agregator: the table of orders, the HTTP handlers of its users  *)
(* and the consumers of its topics: the operators' answers, and its own    *)
(* requests (systems.agregator).  A handler's store calls and publications *)
(* are steps of their own, each SQL statement is one.                      *)
(*                                                                         *)
(* Operators are reached through Kafka alone or through Kafka and MQTT     *)
(* (OPERATOR_TRANSPORT); each listens to one of the brokers.  Nothing      *)
(* orders what the two brokers and their topics' partitions deliver, so    *)
(* the messages under way form a set.  Prices and amounts are left out.    *)
(***************************************************************************)
EXTENDS Naturals

CONSTANTS Orders, Operators,
          Transports,   \* {"kafka"} or {"kafka", "mqtt"}
          Listens,      \* operator -> the broker it listens to
          Reliable,     \* does every publication succeed?
          None

Status == {"pending", "searching", "matched", "confirmed",
           "completed_pending_confirmation", "completed", "dispute"}

Row == [status : Status, operator : Operators \cup {None}]

ASSUME AggregatorAssumption ==
  /\ Transports \subseteq {"kafka", "mqtt"} /\ Transports # {}
  /\ Listens \in [Operators -> Transports]
  /\ Reliable \in BOOLEAN
  /\ None \notin Operators \cup Orders \cup Row

VARIABLES orders,   \* the table orders: id -> row, or None
          calls,    \* HTTP handlers between two statements: [order, at]
          repeats,  \* id -> the create_order messages of systems.agregator that
                    \* carry it as their correlation id, not yet taken
          requests, \* operator -> messages of operator.requests it has to take
          answers   \* messages of operator.responses

aggregatorVars == <<orders, calls, repeats, requests, answers>>

AggregatorInit ==
  /\ orders = [o \in Orders |-> None]
  /\ calls = {}
  /\ repeats = [o \in Orders |-> 0]
  /\ requests = [op \in Operators |-> {}]
  /\ answers = {}

-----------------------------------------------------------------------------
(* store.go *)

StatusOf(o) == IF orders[o] = None THEN "none" ELSE orders[o].status

\* UPDATE orders SET ... WHERE id = o AND ...: the row has the new values if
\* the condition holds and is left alone if not.
Update(o, where, row) ==
  orders' = [orders EXCEPT ![o] = IF @ # None /\ where THEN row ELSE @]

SaveOrder(o) ==
  orders' = [orders EXCEPT ![o] = IF @ = None
                                  THEN [status |-> "pending", operator |-> None]
                                  ELSE [@ EXCEPT !.status = "pending"]]

\* Without a look at the status the order has by now.
UpdateOrderStatus(o, status) ==
  Update(o, TRUE, [orders[o] EXCEPT !.status = status])

\* Mutant: the UPDATE loses its condition on the status.
SetOperatorOfferAlways(o, op) ==
  Update(o, TRUE, [status |-> "matched", operator |-> op])

SetOperatorOffer(o, op) ==
  Update(o, StatusOf(o) = "searching", [status |-> "matched", operator |-> op])

\* The accepted price is not compared with the offered one.
StoreConfirmPrice(o, op) ==
  /\ StatusOf(o) = "matched" /\ orders[o].operator = op
  /\ UpdateOrderStatus(o, "confirmed")

StoreConfirmCompletion(o) ==
  /\ StatusOf(o) = "completed_pending_confirmation"
  /\ UpdateOrderStatus(o, "completed")

\* Whichever operator sends it.
ProcessOrderResult(o, success) ==
  Update(o, StatusOf(o) = "confirmed",
         [orders[o] EXCEPT !.status = IF success
                                      THEN "completed_pending_confirmation"
                                      ELSE "dispute"])

-----------------------------------------------------------------------------
(* api/handler.go *)

Call(o, at) == [order |-> o, at |-> at]

\* MultiPublisher: the brokers that took the message; one is success.
Published(to, msg) ==
  requests' = [op \in Operators |->
                 IF Listens[op] \in to THEN requests[op] \cup {msg}
                 ELSE requests[op]]

Deliveries == IF Reliable THEN {Transports} ELSE SUBSET Transports

\* The id is new; an unknown customer is refused before this.
CreateOrder(o) ==
  /\ orders[o] = None
  /\ SaveOrder(o)
  /\ calls' = calls \cup {Call(o, "publish")}
  /\ UNCHANGED <<repeats, requests, answers>>

\* If no broker takes it the handler ends, and nothing publishes it again.
PublishOrder(o, to) ==
  /\ Call(o, "publish") \in calls
  /\ Published(to, [action |-> "create_order", order |-> o])
  /\ calls' = (calls \ {Call(o, "publish")})
              \cup (IF to = {} THEN {} ELSE {Call(o, "update")})
  /\ UNCHANGED <<orders, repeats, answers>>

OrderPublished(o) ==
  /\ Call(o, "update") \in calls
  /\ UpdateOrderStatus(o, "searching")
  /\ calls' = calls \ {Call(o, "update")}
  /\ UNCHANGED <<repeats, requests, answers>>

\* A refused confirmation changes nothing.
ConfirmPrice(o, op) ==
  /\ StoreConfirmPrice(o, op)
  /\ calls' = calls \cup {Call(o, "confirm")}
  /\ UNCHANGED <<repeats, requests, answers>>

\* To all operators; a failure is ignored.
PublishConfirmPrice(o, to) ==
  /\ Call(o, "confirm") \in calls
  /\ Published(to, [action |-> "confirm_price", order |-> o])
  /\ calls' = calls \ {Call(o, "confirm")}
  /\ UNCHANGED <<orders, repeats, answers>>

ConfirmCompletion(o) ==
  /\ StoreConfirmCompletion(o)
  /\ UNCHANGED <<calls, repeats, requests, answers>>

-----------------------------------------------------------------------------
(* kafka.go and mqtt/service.go: processOperatorMessage *)

HandlePriceOffer(m) ==
  /\ m \in answers /\ m.action = "price_offer"
  /\ SetOperatorOffer(m.order, m.operator)
  /\ answers' = answers \ {m}
  /\ UNCHANGED <<calls, repeats, requests>>

HandleOrderResult(m) ==
  /\ m \in answers /\ m.action = "order_result"
  /\ ProcessOrderResult(m.order, m.success)
  /\ answers' = answers \ {m}
  /\ UNCHANGED <<calls, repeats, requests>>

\* kafka.go: processMessage
\* The request component checks a create_order and saves nothing.  After the
\* reply the order its correlation id names is set back to the search, however
\* far it is; an id that no row has changes nothing.
ProcessMessage(o) ==
  /\ repeats[o] > 0
  /\ repeats' = [repeats EXCEPT ![o] = @ - 1]
  /\ UpdateOrderStatus(o, "searching")
  /\ UNCHANGED <<calls, requests, answers>>

HandleAnswer == \E m \in answers : HandlePriceOffer(m) \/ HandleOrderResult(m)

AggregatorNext ==
  \/ \E o \in Orders :
       \/ CreateOrder(o) \/ OrderPublished(o) \/ ConfirmCompletion(o) \/ ProcessMessage(o)
       \/ \E to \in Deliveries : PublishOrder(o, to) \/ PublishConfirmPrice(o, to)
       \/ \E op \in Operators : ConfirmPrice(o, op)
  \/ HandleAnswer
=============================================================================
