---------------------------- MODULE Market_proofs ----------------------------
(***************************************************************************)
(* Theorems about Market, for any orders, operators, drones, brokers,      *)
(* attempts and lost publications: what the variables hold, and that the   *)
(* aggregator keeps to Deal.  An order's row is written by four threads    *)
(* that do not look at each other, two of them without a look at its       *)
(* status: the handler that created it and the consumer of create_order.   *)
(* The first is the last step of the handler, so it writes once            *)
(* (Publishing), and finds the order further on only if a message of the   *)
(* second has moved it: the recall is that message's.  That operators are  *)
(* matched after they bid is carried by the messages (Bidding).            *)
(***************************************************************************)
EXTENDS Market, TLAPS

-----------------------------------------------------------------------------
(* The inductive invariant. *)

\* The creation of an order has still to publish it, or to write "searching",
\* and its row is there.
Creating(o) == Call(o, "publish") \in calls \/ Call(o, "update") \in calls

Publishing ==
  /\ \A o \in Orders : ~(Call(o, "publish") \in calls /\ Call(o, "update") \in calls)
  /\ \A o \in Orders : Creating(o) => orders[o] # None

\* An order is asked of the operators, and offered for, once it exists; what
\* the aggregator has still to take was offered.
Bidding ==
  /\ \A op \in Operators : \A m \in requests[op] :
       m.action = "create_order" => orders[m.order] # None
  /\ \A op \in Operators : offering[op] # None => orders[offering[op].order] # None
  /\ \A m \in answers : m.action = "price_offer" =>
       \E b \in offered : b.order = m.order /\ b.operator = m.operator

MInv == MarketTypeOK /\ Publishing /\ Bidding

-----------------------------------------------------------------------------
(* What the steps change. *)

LEMMA StatusIs ==
  ASSUME MarketTypeOK, NEW o \in Orders
  PROVE  /\ orders[o] = None \/ (orders[o] \in Row /\ orders[o] # None)
         /\ StatusOf(o) = "none" <=> orders[o] = None
         /\ orders[o] # None => StatusOf(o) = orders[o].status
         /\ None \notin Row
<1>1. None \notin Row /\ orders[o] \in Row \cup {None}
  BY AggregatorAssumption DEF MarketTypeOK
<1>2. \A r \in Row : r.status # "none"
  BY DEF Row, Status
<1> QED BY <1>1, <1>2 DEF StatusOf

\* The row of o becomes row, which is no earlier than what it was.
Rows(o, row) == row \in Row /\ orders' = [orders EXCEPT ![o] = row]

LEMMA RowsKeep ==
  ASSUME MarketTypeOK, NEW o \in Orders, NEW row, Rows(o, row)
  PROVE  /\ orders' \in [Orders -> Row \cup {None}]
         /\ orders'[o] = row /\ StatusOf(o)' = row.status
         /\ \A p \in Orders : p # o => orders'[p] = orders[p] /\ StatusOf(p)' = StatusOf(p)
         /\ \A p \in Orders : orders[p] # None => orders'[p] # None
<1>1. orders \in [Orders -> Row \cup {None}] /\ None \notin Row
  BY AggregatorAssumption DEF MarketTypeOK
<1>2. orders' \in [Orders -> Row \cup {None}] /\ orders'[o] = row /\ row # None
  BY <1>1 DEF Rows
<1>3. \A p \in Orders : p # o => orders'[p] = orders[p]
  BY <1>1 DEF Rows
<1> QED BY <1>1, <1>2, <1>3 DEF StatusOf

\* An UPDATE changes one row, or none.
LEMMA Updated ==
  ASSUME MarketTypeOK, NEW o \in Orders, NEW where, where \in BOOLEAN, NEW row, Update(o, where, row)
  PROVE  IF orders[o] # None /\ where THEN orders' = [orders EXCEPT ![o] = row]
         ELSE orders' = orders
<1>1. orders \in [Orders -> Row \cup {None}]
  BY DEF MarketTypeOK
<1> QED BY <1>1 DEF Update

\* What becomes of an order in a step of the aggregator.
LEMMA CreateRow ==
  ASSUME MInv, NEW o \in Orders, CreateOrder(o)
  PROVE  /\ orders[o] = None
         /\ Rows(o, [status |-> "pending", operator |-> None])
         /\ calls' = calls \cup {Call(o, "publish")}
         /\ UNCHANGED <<repeats, requests, answers>>
<1>1. [status |-> "pending", operator |-> None] \in Row
  BY DEF Row, Status
<1>2. orders[o] = None /\ SaveOrder(o)
  BY DEF CreateOrder
<1>3. orders \in [Orders -> Row \cup {None}]
  BY DEF MInv, MarketTypeOK
<1>4. orders' = [orders EXCEPT ![o] = [status |-> "pending", operator |-> None]]
  BY <1>2, <1>3 DEF SaveOrder
<1> QED BY <1>1, <1>2, <1>4 DEF CreateOrder, Rows

LEMMA StatusRow ==
  ASSUME MarketTypeOK, NEW o \in Orders, NEW status \in Status, orders[o] # None,
         UpdateOrderStatus(o, status)
  PROVE  Rows(o, [orders[o] EXCEPT !.status = status])
<1>1. orders[o] \in Row
  BY StatusIs
<1>2. [orders[o] EXCEPT !.status = status] \in Row
  BY <1>1 DEF Row
<1> QED BY <1>2, Updated DEF UpdateOrderStatus, Rows

LEMMA SearchingRow ==
  ASSUME MInv, NEW o \in Orders, OrderPublished(o)
  PROVE  /\ orders[o] # None /\ Call(o, "update") \in calls
         /\ Rows(o, [orders[o] EXCEPT !.status = "searching"])
         /\ calls' = calls \ {Call(o, "update")}
         /\ UNCHANGED <<repeats, requests, answers>>
<1>1. orders[o] # None /\ "searching" \in Status
  BY DEF OrderPublished, MInv, Publishing, Creating, Status
<1> QED BY <1>1, StatusRow DEF OrderPublished, MInv

\* A create_order of systems.agregator, whose order is there or is not.
LEMMA RecalledRow ==
  ASSUME MInv, NEW o \in Orders, ProcessMessage(o)
  PROVE  /\ repeats[o] > 0 /\ repeats' = [repeats EXCEPT ![o] = @ - 1]
         /\ UNCHANGED <<calls, requests, answers>>
         /\ \/ /\ orders[o] # None
               /\ Rows(o, [orders[o] EXCEPT !.status = "searching"])
            \/ orders[o] = None /\ orders' = orders
<1>1. "searching" \in Status
  BY DEF Status
<1>2. CASE orders[o] # None
  BY <1>1, <1>2, StatusRow DEF ProcessMessage, MInv
<1>3. CASE orders[o] = None
  BY <1>3, Updated DEF ProcessMessage, UpdateOrderStatus, MInv
<1> QED BY <1>2, <1>3 DEF ProcessMessage

LEMMA ConfirmedRow ==
  ASSUME MInv, NEW o \in Orders, NEW op \in Operators, ConfirmPrice(o, op)
  PROVE  /\ StatusOf(o) = "matched"
         /\ Rows(o, [orders[o] EXCEPT !.status = "confirmed"])
         /\ calls' = calls \cup {Call(o, "confirm")}
         /\ UNCHANGED <<repeats, requests, answers>>
<1>1. orders[o] # None /\ "confirmed" \in Status
  BY StatusIs DEF MInv, ConfirmPrice, StoreConfirmPrice, Status
<1> QED BY <1>1, StatusRow DEF ConfirmPrice, StoreConfirmPrice, MInv

LEMMA CompletedRow ==
  ASSUME MInv, NEW o \in Orders, ConfirmCompletion(o)
  PROVE  /\ StatusOf(o) = "completed_pending_confirmation"
         /\ Rows(o, [orders[o] EXCEPT !.status = "completed"])
         /\ UNCHANGED <<calls, repeats, requests, answers>>
<1>1. orders[o] # None /\ "completed" \in Status
  BY StatusIs DEF MInv, ConfirmCompletion, StoreConfirmCompletion, Status
<1> QED BY <1>1, StatusRow DEF ConfirmCompletion, StoreConfirmCompletion, MInv

LEMMA MatchedRow ==
  ASSUME MInv, NEW m \in answers, HandlePriceOffer(m)
  PROVE  /\ m.action = "price_offer" /\ m.order \in Orders /\ m.operator \in Operators
         /\ answers' = answers \ {m} /\ UNCHANGED <<calls, repeats, requests>>
         /\ \/ /\ StatusOf(m.order) = "searching"
               /\ Rows(m.order, [status |-> "matched", operator |-> m.operator])
            \/ orders' = orders
<1>1. m.action = "price_offer" /\ m.order \in Orders /\ m.operator \in Operators
  BY DEF HandlePriceOffer, MInv, MarketTypeOK
<1>2. [status |-> "matched", operator |-> m.operator] \in Row
  BY <1>1 DEF Row, Status
<1>3. Update(m.order, StatusOf(m.order) = "searching",
             [status |-> "matched", operator |-> m.operator])
  BY DEF HandlePriceOffer, SetOperatorOffer
<1>4. \/ /\ StatusOf(m.order) = "searching"
         /\ orders' = [orders EXCEPT ![m.order] = [status |-> "matched", operator |-> m.operator]]
      \/ orders' = orders
  BY <1>1, <1>3, Updated DEF MInv
<1> QED BY <1>1, <1>2, <1>4 DEF HandlePriceOffer, Rows

LEMMA ResultRow ==
  ASSUME MInv, NEW m \in answers, HandleOrderResult(m)
  PROVE  /\ m.action = "order_result" /\ m.order \in Orders
         /\ answers' = answers \ {m} /\ UNCHANGED <<calls, repeats, requests>>
         /\ \/ /\ StatusOf(m.order) = "confirmed"
               /\ \E status \in {"completed_pending_confirmation", "dispute"} :
                    Rows(m.order, [orders[m.order] EXCEPT !.status = status])
            \/ orders' = orders
<1>1. m.action = "order_result" /\ m.order \in Orders /\ m.success \in BOOLEAN
  BY DEF HandleOrderResult, MInv, MarketTypeOK
<1> DEFINE o == m.order
           s == IF m.success THEN "completed_pending_confirmation" ELSE "dispute"
<1>2. Update(o, StatusOf(o) = "confirmed", [orders[o] EXCEPT !.status = s])
  BY DEF HandleOrderResult, ProcessOrderResult
<1>3. s \in {"completed_pending_confirmation", "dispute"} /\ s \in Status
  BY DEF Status
<1> HIDE DEF s
<1>4. CASE StatusOf(o) = "confirmed"
  <2>1. orders[o] # None /\ orders[o] \in Row
    BY <1>1, <1>4, StatusIs DEF MInv
  <2>2. [orders[o] EXCEPT !.status = s] \in Row
    BY <1>3, <2>1 DEF Row
  <2>3. Rows(o, [orders[o] EXCEPT !.status = s])
    BY <1>1, <1>2, <1>4, <2>1, <2>2, Updated DEF MInv, Rows
  <2> QED BY <1>1, <1>3, <1>4, <2>3 DEF HandleOrderResult
<1>5. CASE StatusOf(o) # "confirmed"
  BY <1>1, <1>2, <1>5, Updated DEF MInv, HandleOrderResult
<1> QED BY <1>4, <1>5

-----------------------------------------------------------------------------
(* The invariant is preserved. *)

LEMMA InsuranceTypes ==
  ASSUME InsuranceTypeOK,
         \/ UNCHANGED insuranceVars
         \/ \E o \in Orders : Sell(o) \/ EndsPolicies(o)
  PROVE  InsuranceTypeOK'
<1>1. CASE UNCHANGED insuranceVars
  BY <1>1 DEF insuranceVars, InsuranceTypeOK
<1>2. ASSUME NEW o \in Orders, Sell(o) PROVE InsuranceTypeOK'
  BY <1>2 DEF Sell, InsuranceTypeOK
<1>3. ASSUME NEW o \in Orders, EndsPolicies(o) PROVE InsuranceTypeOK'
  BY <1>3 DEF EndsPolicies, InsuranceTypeOK
<1> QED BY <1>1, <1>2, <1>3

\* A row goes on, and no message or job is added.
LEMMA RowStep ==
  ASSUME MInv, UNCHANGED <<insuranceVars, operatorVars, requests>>,
         repeats' \in [Orders -> 0 .. MaxRepeats],
         NEW o \in Orders, NEW row, Rows(o, row), answers' \subseteq answers,
         calls' \subseteq [order : Orders, at : {"publish", "update", "confirm"}],
         Publishing'
  PROVE  MInv'
<1>1. MarketTypeOK /\ Bidding /\ InsuranceTypeOK
  BY DEF MInv, MarketTypeOK
<1>2. /\ orders' \in [Orders -> Row \cup {None}]
      /\ \A p \in Orders : orders[p] # None => orders'[p] # None
  BY <1>1, RowsKeep
<1>3. /\ InsuranceTypeOK'
      /\ UNCHANGED <<fleet, offering, offered, requests>>
  BY <1>1, InsuranceTypes DEF operatorVars
<1>4. MarketTypeOK'
  BY <1>1, <1>2, <1>3 DEF MarketTypeOK
<1>5. Bidding'
  <2>1. ASSUME NEW op \in Operators, NEW m \in requests[op], m.action = "create_order"
        PROVE  orders'[m.order] # None
    <3>1. m.order \in Orders
      BY <1>1 DEF MarketTypeOK
    <3> QED BY <1>1, <1>2, <2>1, <3>1 DEF Bidding
  <2>2. ASSUME NEW op \in Operators, offering[op] # None PROVE orders'[offering[op].order] # None
    <3>1. offering[op].order \in Orders
      BY <1>1, <2>2 DEF MarketTypeOK, Job
    <3> QED BY <1>1, <1>2, <2>2, <3>1 DEF Bidding
  <2> QED BY <1>1, <1>3, <2>1, <2>2 DEF Bidding
<1> QED BY <1>4, <1>5 DEF MInv

\* A handler begins with the row it saves; no row goes away.
LEMMA RowPublishing ==
  ASSUME MInv, NEW o \in Orders, NEW row, Rows(o, row),
         \/ orders[o] = None /\ calls' = calls \cup {Call(o, "publish")}
         \/ calls' \in {calls, calls \cup {Call(o, "confirm")}}
  PROVE  Publishing'
<1>1. Publishing /\ MarketTypeOK
  BY DEF MInv
<1>2. \A p \in Orders : \A at \in {"publish", "update"} :
        Call(p, at) \in calls' =>
          Call(p, at) \in calls \/ (p = o /\ at = "publish" /\ orders[o] = None)
  BY DEF Call
<1>3. /\ orders'[o] # None
      /\ \A p \in Orders : orders[p] # None => orders'[p] # None
  BY <1>1, RowsKeep, AggregatorAssumption DEF Rows
<1> QED BY <1>1, <1>2, <1>3 DEF Publishing, Creating

LEMMA CallIs ==
  ASSUME NEW o \in Orders, NEW at \in {"publish", "update", "confirm"}
  PROVE  /\ Call(o, at) \in [order : Orders, at : {"publish", "update", "confirm"}]
         /\ \A p, b : Call(p, b) = Call(o, at) <=> p = o /\ b = at
BY DEF Call

\* The aggregator's table and its handlers are as they were: a step of an
\* operator, of an insurer or from outside.
LEMMA OutsideStep ==
  ASSUME MInv, UNCHANGED <<orders, calls>>, MarketTypeOK',
         \A op \in Operators : requests'[op] \subseteq requests[op],
         \A op \in Operators : offering'[op] # None =>
           \/ offering[op] # None /\ offering'[op].order = offering[op].order
           \/ orders[offering'[op].order] # None,
         offered \subseteq offered',
         \A m \in answers' : m.action = "price_offer" =>
           m \in answers \/ \E b \in offered' : b.order = m.order /\ b.operator = m.operator
  PROVE  MInv'
<1>1. Publishing'
  BY DEF MInv, Publishing, Creating
<1>2. Bidding'
  BY DEF MInv, Bidding
<1> QED BY <1>1, <1>2 DEF MInv

LEMMA AggregatorRowStep ==
  ASSUME MInv, UNCHANGED <<insuranceVars, operatorVars>>, NEW o \in Orders,
         \/ CreateOrder(o) \/ OrderPublished(o) \/ ConfirmCompletion(o) \/ ProcessMessage(o)
         \/ \E op \in Operators : ConfirmPrice(o, op)
  PROVE  MInv'
<1>1. /\ MarketTypeOK /\ repeats \in [Orders -> 0 .. MaxRepeats]
      /\ calls \subseteq [order : Orders, at : {"publish", "update", "confirm"}]
  BY DEF MInv, MarketTypeOK
<1>2. CASE CreateOrder(o)
  <2>1. /\ orders[o] = None
        /\ Rows(o, [status |-> "pending", operator |-> None])
        /\ calls' = calls \cup {Call(o, "publish")}
        /\ UNCHANGED <<repeats, requests, answers>>
    BY <1>2, CreateRow
  <2>2. Publishing'
    BY <2>1, RowPublishing
  <2>3. calls' \subseteq [order : Orders, at : {"publish", "update", "confirm"}]
    BY <1>1, <2>1, CallIs
  <2> QED BY <1>1, <2>1, <2>2, <2>3, RowStep
<1>3. CASE OrderPublished(o)
  <2>1. /\ Rows(o, [orders[o] EXCEPT !.status = "searching"])
        /\ calls' = calls \ {Call(o, "update")} /\ Call(o, "update") \in calls
        /\ UNCHANGED <<repeats, requests, answers>>
    BY <1>3, SearchingRow
  <2>2. Publishing'
    <3>1. \A p \in Orders : orders[p] # None => orders'[p] # None
      BY <1>1, <2>1, RowsKeep
    <3> QED BY <2>1, <3>1 DEF MInv, Publishing, Creating
  <2> QED BY <1>1, <2>1, <2>2, RowStep
<1>4. CASE ConfirmCompletion(o)
  <2>1. Publishing'
    BY <1>4, CompletedRow, RowPublishing
  <2> QED BY <1>1, <1>4, <2>1, CompletedRow, RowStep
<1>5. ASSUME NEW op \in Operators, ConfirmPrice(o, op) PROVE MInv'
  <2>1. /\ StatusOf(o) = "matched"
        /\ Rows(o, [orders[o] EXCEPT !.status = "confirmed"])
        /\ calls' = calls \cup {Call(o, "confirm")}
        /\ UNCHANGED <<repeats, requests, answers>>
    BY <1>5, ConfirmedRow
  <2>2. Publishing'
    BY <2>1, RowPublishing
  <2>3. calls' \subseteq [order : Orders, at : {"publish", "update", "confirm"}]
    BY <1>1, <2>1, CallIs
  <2> QED BY <1>1, <2>1, <2>2, <2>3, RowStep
<1>6. CASE ProcessMessage(o)
  <2>1. repeats' = [repeats EXCEPT ![o] = @ - 1] /\ repeats[o] > 0
        /\ UNCHANGED <<calls, requests, answers>>
    BY <1>6, RecalledRow
  <2>2. repeats' \in [Orders -> 0 .. MaxRepeats]
    BY <1>1, <2>1, MarketAssumption
  <2>3. CASE Rows(o, [orders[o] EXCEPT !.status = "searching"])
    <3>1. Publishing'
      BY <2>1, <2>3, RowPublishing
    <3> QED BY <1>1, <2>1, <2>2, <2>3, <3>1, RowStep
  <2>4. CASE orders' = orders
    <3>1. InsuranceTypeOK'
      BY <1>1, InsuranceTypes DEF MarketTypeOK
    <3>2. MarketTypeOK'
      BY <1>1, <2>1, <2>2, <2>4, <3>1 DEF MarketTypeOK, operatorVars
    <3> QED BY <2>1, <2>4, <3>2, OutsideStep DEF MInv, MarketTypeOK, operatorVars
  <2> QED BY <1>6, <2>3, <2>4, RecalledRow
<1> QED BY <1>2, <1>3, <1>4, <1>5, <1>6

\* The row, if it changes, or nothing but the message taken.
LEMMA AnswerStep ==
  ASSUME MInv, UNCHANGED <<insuranceVars, operatorVars>>, HandleAnswer
  PROVE  MInv'
<1>1. /\ calls \subseteq [order : Orders, at : {"publish", "update", "confirm"}] /\ InsuranceTypeOK
      /\ repeats \in [Orders -> 0 .. MaxRepeats]
  BY DEF MInv, MarketTypeOK
<1>2. PICK m \in answers : HandlePriceOffer(m) \/ HandleOrderResult(m)
  BY DEF HandleAnswer
<1>3. answers' = answers \ {m} /\ UNCHANGED <<calls, repeats, requests>> /\ m.order \in Orders
  BY <1>2, MatchedRow, ResultRow
<1>4. \/ \E row : Rows(m.order, row)
      \/ orders' = orders
  BY <1>2, MatchedRow, ResultRow
<1>5. ASSUME NEW row, Rows(m.order, row) PROVE MInv'
  <2>1. Publishing'
    BY <1>3, <1>5, RowPublishing
  <2> QED BY <1>1, <1>3, <1>5, <2>1, RowStep
<1>6. CASE orders' = orders
  <2>1. InsuranceTypeOK'
    BY <1>1, InsuranceTypes
  <2>2. MarketTypeOK'
    BY <1>3, <1>6, <2>1 DEF MInv, MarketTypeOK, operatorVars
  <2>3. Publishing'
    BY <1>3, <1>6 DEF MInv, Publishing, Creating
  <2>4. Bidding'
    BY <1>3, <1>6 DEF MInv, Bidding, operatorVars
  <2> QED BY <2>2, <2>3, <2>4 DEF MInv
<1> QED BY <1>4, <1>5, <1>6

\* A message to the operators of the brokers that took it.
LEMMA PublishedIs ==
  ASSUME MarketTypeOK, NEW to, NEW o \in Orders, NEW action \in {"create_order", "confirm_price"},
         Published(to, [action |-> action, order |-> o])
  PROVE  /\ requests' \in [Operators -> SUBSET [action : {"create_order", "confirm_price"},
                                                order : Orders]]
         /\ \A op \in Operators : \A m \in requests'[op] :
              m \in requests[op] \/ m = [action |-> action, order |-> o]
BY DEF Published, MarketTypeOK

\* Messages come and go, handlers end, and no row changes.
LEMMA MessageStep ==
  ASSUME MInv, UNCHANGED <<insuranceVars, operatorVars, orders, repeats, answers>>,
         requests' \in [Operators -> SUBSET [action : {"create_order", "confirm_price"},
                                             order : Orders]],
         \A op \in Operators : \A m \in requests'[op] :
           m.action = "create_order" => m \in requests[op] \/ orders[m.order] # None,
         calls' \subseteq [order : Orders, at : {"publish", "update", "confirm"}],
         Publishing'
  PROVE  MInv'
<1>1. InsuranceTypeOK'
  BY InsuranceTypes DEF MInv, MarketTypeOK
<1>2. MarketTypeOK'
  BY <1>1 DEF MInv, MarketTypeOK, operatorVars
<1>3. Bidding'
  BY DEF MInv, Bidding, operatorVars
<1> QED BY <1>2, <1>3 DEF MInv

LEMMA PublishStep ==
  ASSUME MInv, UNCHANGED <<insuranceVars, operatorVars>>, NEW o \in Orders, NEW to,
         PublishOrder(o, to) \/ PublishConfirmPrice(o, to)
  PROVE  MInv'
<1>1. MarketTypeOK /\ calls \subseteq [order : Orders, at : {"publish", "update", "confirm"}]
  BY DEF MInv, MarketTypeOK
<1>2. CASE PublishOrder(o, to)
  <2>1. /\ Call(o, "publish") \in calls
        /\ Published(to, [action |-> "create_order", order |-> o])
        /\ calls' = (calls \ {Call(o, "publish")})
                    \cup (IF to = {} THEN {} ELSE {Call(o, "update")})
        /\ UNCHANGED <<orders, repeats, answers>>
    BY <1>2 DEF PublishOrder
  <2>2. orders[o] # None
    BY <2>1 DEF MInv, Publishing, Creating
  <2>3. calls' \subseteq [order : Orders, at : {"publish", "update", "confirm"}]
    BY <1>1, <2>1, CallIs
  <2>4. Publishing'
    <3>1. Call(o, "publish") \notin calls'
      BY <2>1, CallIs
    <3>2. \A p \in Orders : \A at \in {"publish", "update"} :
            Call(p, at) \in calls' => Call(p, at) \in calls \/ p = o
      BY <2>1, CallIs
    <3> QED BY <2>1, <2>2, <3>1, <3>2 DEF MInv, Publishing, Creating
  <2>5. /\ requests' \in [Operators -> SUBSET [action : {"create_order", "confirm_price"},
                                               order : Orders]]
        /\ \A op \in Operators : \A m \in requests'[op] :
             m \in requests[op] \/ m = [action |-> "create_order", order |-> o]
    BY <1>1, <2>1, PublishedIs
  <2>6. \A op \in Operators : \A m \in requests'[op] :
          m.action = "create_order" => m \in requests[op] \/ orders[m.order] # None
    BY <2>2, <2>5
  <2> QED BY <2>1, <2>3, <2>4, <2>5, <2>6, MessageStep
<1>3. CASE PublishConfirmPrice(o, to)
  <2>1. /\ Published(to, [action |-> "confirm_price", order |-> o])
        /\ calls' = calls \ {Call(o, "confirm")}
        /\ UNCHANGED <<orders, repeats, answers>>
    BY <1>3 DEF PublishConfirmPrice
  <2>2. Publishing'
    BY <2>1, CallIs DEF MInv, Publishing, Creating
  <2>3. /\ requests' \in [Operators -> SUBSET [action : {"create_order", "confirm_price"},
                                               order : Orders]]
        /\ \A op \in Operators : \A m \in requests'[op] :
             m \in requests[op] \/ m = [action |-> "confirm_price", order |-> o]
    BY <1>1, <2>1, PublishedIs
  <2>4. \A op \in Operators : \A m \in requests'[op] :
          m.action = "create_order" => m \in requests[op] \/ orders[m.order] # None
    BY <2>3
  <2>5. calls' \subseteq [order : Orders, at : {"publish", "update", "confirm"}]
    BY <1>1, <2>1
  <2> QED BY <2>1, <2>2, <2>3, <2>4, <2>5, MessageStep
<1> QED BY <1>2, <1>3

\* An operator takes a message and does not reply to it.
LEMMA TakesTypes ==
  ASSUME MarketTypeOK, NEW op \in Operators, NEW action, NEW o \in Orders, Takes(op, action, o)
  PROVE  /\ offering[op] = None /\ [action |-> action, order |-> o] \in requests[op]
         /\ requests' \in [Operators -> SUBSET [action : {"create_order", "confirm_price"},
                                                order : Orders]]
         /\ \A q \in Operators : requests'[q] \subseteq requests[q]
         /\ UNCHANGED <<orders, calls, repeats, answers, insuranceVars, fleet, offered>>
BY DEF Takes, MarketTypeOK

LEMMA JobIs ==
  ASSUME NEW o \in Orders, NEW d \in Drones, NEW n \in 0 .. Attempts
  PROVE  /\ [order |-> o, drone |-> d, attempt |-> n] \in Job
         /\ [order |-> o, drone |-> d, attempt |-> n].order = o
BY DEF Job

LEMMA RequestStep ==
  ASSUME MInv, NEW op \in Operators, NEW o \in Orders,
         HandleCreateOrder(op, o) \/ HandleConfirmPrice(op, o)
  PROVE  MInv'
<1>1. MarketTypeOK
  BY DEF MInv
<1>2. ASSUME NEW action, Takes(op, action, o), offering' \in [Operators -> Job \cup {None}],
             \A q \in Operators : offering'[q] # None =>
               \/ offering[q] # None /\ offering'[q].order = offering[q].order
               \/ orders[offering'[q].order] # None
      PROVE  MInv'
  <2>1. /\ requests' \in [Operators -> SUBSET [action : {"create_order", "confirm_price"},
                                               order : Orders]]
        /\ \A q \in Operators : requests'[q] \subseteq requests[q]
        /\ UNCHANGED <<orders, calls, repeats, answers, insuranceVars, fleet, offered>>
    BY <1>1, <1>2, TakesTypes
  <2>2. InsuranceTypeOK'
    BY <1>1, <2>1, InsuranceTypes DEF MarketTypeOK
  <2>3. MarketTypeOK'
    BY <1>1, <1>2, <2>1, <2>2 DEF MarketTypeOK
  <2>4. \A m \in answers' : m.action = "price_offer" => m \in answers
    BY <2>1
  <2> QED BY <1>2, <2>1, <2>3, <2>4, OutsideStep
<1>3. CASE HandleConfirmPrice(op, o)
  <2>1. Takes(op, "confirm_price", o) /\ offering' = offering
    BY <1>3 DEF HandleConfirmPrice
  <2> QED BY <1>1, <1>2, <2>1 DEF MarketTypeOK
<1>4. CASE HandleCreateOrder(op, o)
  <2>1. Takes(op, "create_order", o)
    BY <1>4 DEF HandleCreateOrder
  <2>2. orders[o] # None
    <3>1. [action |-> "create_order", order |-> o] \in requests[op]
      BY <1>1, <2>1, TakesTypes
    <3> QED BY <3>1 DEF MInv, Bidding
  <2>3. \/ offering' = offering
        \/ \E d \in Drones :
             offering' = [offering EXCEPT ![op] = [order |-> o, drone |-> d, attempt |-> 0]]
    BY <1>4 DEF HandleCreateOrder, Available
  <2>4. CASE offering' = offering
    BY <1>1, <1>2, <2>1, <2>4 DEF MarketTypeOK
  <2>5. ASSUME NEW d \in Drones,
               offering' = [offering EXCEPT ![op] = [order |-> o, drone |-> d, attempt |-> 0]]
        PROVE  MInv'
    <3>1. 0 \in 0 .. Attempts
      BY MarketAssumption
    <3>2. [order |-> o, drone |-> d, attempt |-> 0] \in Job
      BY <3>1, JobIs
    <3>3. offering' \in [Operators -> Job \cup {None}]
      BY <1>1, <2>5, <3>2 DEF MarketTypeOK
    <3>4. \A q \in Operators : offering'[q] # None =>
            \/ offering[q] # None /\ offering'[q].order = offering[q].order
            \/ orders[offering'[q].order] # None
      BY <1>1, <2>2, <2>5 DEF MarketTypeOK
    <3> QED BY <1>2, <2>1, <3>3, <3>4
  <2> QED BY <2>3, <2>4, <2>5
<1> QED BY <1>3, <1>4

LEMMA InsureStep ==
  ASSUME MInv, NEW op \in Operators, InsureOffer(op)
  PROVE  MInv'
<1>1. MarketTypeOK
  BY DEF MInv
<1>2. /\ offering[op] \in Job /\ offering[op] # None
      /\ offering' = [offering EXCEPT ![op].attempt = 1]
      /\ Sell(offering[op].order) \/ UNCHANGED insuranceVars
      /\ UNCHANGED <<aggregatorVars, fleet, offered>>
  BY <1>1 DEF InsureOffer, MarketTypeOK
<1>3. offering[op].order \in Orders /\ 1 \in 0 .. Attempts
  BY <1>2, MarketAssumption DEF Job
<1>4. InsuranceTypeOK'
  BY <1>1, <1>2, <1>3, InsuranceTypes DEF MarketTypeOK
<1>5. /\ [offering[op] EXCEPT !.attempt = 1] \in Job
      /\ [offering[op] EXCEPT !.attempt = 1].order = offering[op].order
  BY <1>2, <1>3 DEF Job
<1>6. offering' = [offering EXCEPT ![op] = [offering[op] EXCEPT !.attempt = 1]]
  BY <1>1, <1>2 DEF MarketTypeOK
<1>7. /\ offering' \in [Operators -> Job \cup {None}]
      /\ \A q \in Operators : offering'[q] # None =>
           offering[q] # None /\ offering'[q].order = offering[q].order
  BY <1>1, <1>2, <1>5, <1>6 DEF MarketTypeOK
<1>8. UNCHANGED <<orders, calls, repeats, requests, answers, fleet, offered>>
  BY <1>2 DEF aggregatorVars
<1>9. MarketTypeOK'
  BY <1>1, <1>4, <1>7, <1>8 DEF MarketTypeOK
<1> QED BY <1>7, <1>8, <1>9, OutsideStep

\* What an offer changes: one more is made, of an order that exists.
LEMMA OfferIs ==
  ASSUME MInv, NEW op \in Operators, PublishOffer(op)
  PROVE  /\ offering[op] \in Job /\ offering[op].order \in Orders
         /\ orders[offering[op].order] # None
         /\ offered' = offered \cup {[order |-> offering[op].order, operator |-> op,
                                      drone |-> offering[op].drone]}
         /\ answers' = answers \cup {[action |-> "price_offer", order |-> offering[op].order,
                                      operator |-> op]}
         /\ UNCHANGED <<orders, calls, repeats, requests, insuranceVars, fleet>>
         /\ \E next \in Job \cup {None} :
              /\ offering' = [offering EXCEPT ![op] = next]
              /\ next # None => next.order = offering[op].order
<1>1. MarketTypeOK /\ Bidding
  BY DEF MInv
<1>2. \/ /\ offering[op] # None /\ offering[op].attempt < Attempts
         /\ Offers(op, FALSE, [offering[op] EXCEPT !.attempt = @ + 1])
      \/ Offers(op, TRUE, None)
  BY DEF PublishOffer
<1>3. PICK next : /\ \E wait \in BOOLEAN : Offers(op, wait, next)
                  /\ \/ next = None
                     \/ /\ next = [offering[op] EXCEPT !.attempt = @ + 1]
                        /\ offering[op].attempt < Attempts
  BY <1>2
<1>4. /\ offering[op] # None
      /\ answers' = answers \cup {[action |-> "price_offer", order |-> offering[op].order,
                                   operator |-> op]}
      /\ offered' = offered \cup {[order |-> offering[op].order, operator |-> op,
                                   drone |-> offering[op].drone]}
      /\ offering' = [offering EXCEPT ![op] = next]
      /\ UNCHANGED <<orders, calls, repeats, requests, insuranceVars, fleet>>
  BY <1>3 DEF Offers
<1>5. offering[op] \in Job /\ offering[op].order \in Orders /\ orders[offering[op].order] # None
  BY <1>1, <1>4 DEF MarketTypeOK, Bidding, Job
<1>6. next # None => next \in Job /\ next.order = offering[op].order
  BY <1>3, <1>5, MarketAssumption DEF Job
<1> QED BY <1>4, <1>5, <1>6

LEMMA OfferStep ==
  ASSUME MInv, NEW op \in Operators, PublishOffer(op)
  PROVE  MInv'
<1> DEFINE b == [order |-> offering[op].order, operator |-> op, drone |-> offering[op].drone]
           m == [action |-> "price_offer", order |-> offering[op].order, operator |-> op]
<1>1. MarketTypeOK
  BY DEF MInv
<1>2. /\ offering[op] \in Job /\ offering[op].order \in Orders
      /\ offered' = offered \cup {b} /\ answers' = answers \cup {m}
      /\ UNCHANGED <<orders, calls, repeats, requests, insuranceVars, fleet>>
      /\ \E next \in Job \cup {None} :
           /\ offering' = [offering EXCEPT ![op] = next]
           /\ next # None => next.order = offering[op].order
  BY OfferIs
<1>3. /\ b \in [order : Orders, operator : Operators, drone : Drones]
      /\ m \in [action : {"price_offer"}, order : Orders, operator : Operators]
      /\ b.order = m.order /\ b.operator = m.operator
  BY <1>2 DEF Job
<1> HIDE DEF b, m
<1>4. offering[op] # None
  BY <1>2, MarketAssumption
<1>5. /\ offering' \in [Operators -> Job \cup {None}]
      /\ \A q \in Operators : offering'[q] # None =>
           offering[q] # None /\ offering'[q].order = offering[q].order
  BY <1>1, <1>2, <1>4 DEF MarketTypeOK
<1>6. InsuranceTypeOK'
  BY <1>1, <1>2, InsuranceTypes DEF MarketTypeOK
<1>7. MarketTypeOK'
  BY <1>1, <1>2, <1>3, <1>5, <1>6 DEF MarketTypeOK
<1>8. \A x \in answers' : x.action = "price_offer" =>
        x \in answers \/ \E c \in offered' : c.order = x.order /\ c.operator = x.operator
  BY <1>2, <1>3
<1> QED BY <1>2, <1>5, <1>7, <1>8, OutsideStep

-----------------------------------------------------------------------------
(* The invariant. *)

LEMMA MInvInit == Init => MInv
<1> SUFFICES ASSUME Init
             PROVE  MInv
  OBVIOUS
<1>1. /\ orders = [o \in Orders |-> None] /\ calls = {}
      /\ requests = [op \in Operators |-> {}] /\ answers = {}
      /\ fleet = [d \in Drones |-> None] /\ offering = [op \in Operators |-> None]
      /\ offered = {} /\ repeats = [o \in Orders |-> 0]
  BY DEF Init, AggregatorInit
<1>2. InsuranceTypeOK
  BY DEF Init, InsuranceInit, InsuranceTypeOK
<1>3. MarketTypeOK
  BY <1>1, <1>2, MarketAssumption DEF MarketTypeOK
<1>4. Publishing /\ Bidding
  BY <1>1 DEF Publishing, Creating, Bidding
<1> QED BY <1>3, <1>4 DEF MInv

\* Steps that neither the aggregator nor a handler takes part in.
LEMMA OtherStep ==
  ASSUME MInv, UNCHANGED <<orders, calls, requests, offering, offered>>,
         repeats' \in [Orders -> 0 .. MaxRepeats],
         InsuranceTypeOK', fleet' \in [Drones -> Orders \cup {None, "available"}],
         \/ answers' = answers
         \/ \E o \in Orders, success \in BOOLEAN :
              answers' = answers \cup
                {[action |-> "order_result", order |-> o, success |-> success]}
  PROVE  MInv'
<1>1. /\ answers' \subseteq
           [action : {"price_offer"}, order : Orders, operator : Operators]
           \cup [action : {"order_result"}, order : Orders, success : BOOLEAN]
      /\ \A m \in answers' : m.action = "price_offer" => m \in answers
  BY DEF MInv, MarketTypeOK
<1>2. MarketTypeOK'
  BY <1>1 DEF MInv, MarketTypeOK
<1> QED BY <1>1, <1>2, OutsideStep

LEMMA MInvStep == MInv /\ [Next]_vars => MInv'
<1> SUFFICES ASSUME MInv, [Next]_vars
             PROVE  MInv'
  OBVIOUS
<1>0. MarketTypeOK /\ InsuranceTypeOK
  BY DEF MInv, MarketTypeOK
<1>1. CASE AggregatorStep
  BY <1>1, AggregatorRowStep, AnswerStep, PublishStep DEF AggregatorStep, AggregatorNext
<1>2. ASSUME NEW op \in Operators, OperatorStep(op) PROVE MInv'
  BY <1>2, RequestStep, InsureStep, OfferStep DEF OperatorStep
<1>3. ASSUME NEW d \in Drones,
             RegisterDrone(d) \/ \E o \in Orders : SelectDrone(d, o)
      PROVE  MInv'
  <2>1. CASE RegisterDrone(d)
    <3>1. InsuranceTypeOK'
      BY <1>0, <2>1, InsuranceTypes DEF RegisterDrone
    <3> QED BY <1>0, <2>1, <3>1, OtherStep DEF RegisterDrone, MarketTypeOK, aggregatorVars
  <2>2. ASSUME NEW o \in Orders, SelectDrone(d, o) PROVE MInv'
    <3>1. InsuranceTypeOK'
      BY <1>0, <2>2, InsuranceTypes DEF SelectDrone
    <3> QED BY <1>0, <2>2, <3>1, OtherStep DEF SelectDrone, MarketTypeOK, aggregatorVars
  <2> QED BY <1>3, <2>1, <2>2
<1>4. ASSUME NEW o \in Orders, BuyInsurancePolicy(o) \/ TerminatePolicy(o) PROVE MInv'
  <2>1. Sell(o) \/ EndsPolicies(o)
    BY <1>4 DEF BuyInsurancePolicy, TerminatePolicy, HandleTerminate, TerminatePolicyByOrderId
  <2>2. UNCHANGED <<aggregatorVars, operatorVars>>
    BY <1>4 DEF BuyInsurancePolicy, TerminatePolicy
  <2>3. InsuranceTypeOK'
    BY <1>0, <2>1, InsuranceTypes
  <2> QED BY <1>0, <2>2, <2>3, OtherStep DEF MarketTypeOK, aggregatorVars, operatorVars
<1>5. ASSUME NEW o \in Orders, NEW success \in BOOLEAN, ReportResult(o, success) PROVE MInv'
  <2>1. InsuranceTypeOK'
    BY <1>0, <1>5, InsuranceTypes DEF ReportResult
  <2> QED BY <1>0, <1>5, <2>1, OtherStep DEF ReportResult, MarketTypeOK
<1>6. ASSUME NEW o \in Orders, RepeatOrder(o) PROVE MInv'
  <2>1. InsuranceTypeOK'
    BY <1>0, <1>6, InsuranceTypes DEF RepeatOrder
  <2>2. repeats' \in [Orders -> 0 .. MaxRepeats]
    BY <1>0, <1>6, MarketAssumption DEF RepeatOrder, MarketTypeOK
  <2>3. UNCHANGED <<orders, calls, requests, answers, fleet, offering, offered>>
    BY <1>6 DEF RepeatOrder, operatorVars
  <2> QED BY <1>0, <2>1, <2>2, <2>3, OtherStep DEF MarketTypeOK
<1>7. CASE UNCHANGED vars
  <2>1. InsuranceTypeOK'
    BY <1>0, <1>7, InsuranceTypes DEF vars
  <2> QED BY <1>0, <1>7, <2>1, OtherStep DEF vars, aggregatorVars, operatorVars, MarketTypeOK
<1> QED BY <1>1, <1>2, <1>3, <1>4, <1>5, <1>6, <1>7 DEF Next

LEMMA MInvariance == Spec => []MInv
BY MInvInit, MInvStep, PTL DEF Spec

-----------------------------------------------------------------------------
(* The deal. *)

\* How far an order is, with whom, what may still take it back, and the bids.
phases == [o \in Orders |-> Phase(o)]
parties == [o \in Orders |-> IF orders[o] = None THEN None ELSE orders[o].operator]
permits == [o \in Orders |-> Recalls(o)]
made == {<<b.order, b.operator>> : b \in offered}

PhaseOf(status) ==
  CASE status = "none" -> "none"
    [] status \in {"pending", "searching"} -> "open"
    [] status = "matched" -> "matched"
    [] status = "confirmed" -> "agreed"
    [] status = "completed_pending_confirmation" -> "delivered"
    [] status = "dispute" -> "disputed"
    [] status = "completed" -> "closed"

LEMMA PhasesAre ==
  /\ PhaseOf("none") = "none" /\ PhaseOf("pending") = "open" /\ PhaseOf("searching") = "open"
  /\ PhaseOf("matched") = "matched" /\ PhaseOf("confirmed") = "agreed"
  /\ PhaseOf("completed_pending_confirmation") = "delivered"
  /\ PhaseOf("dispute") = "disputed" /\ PhaseOf("completed") = "closed"
BY DEF PhaseOf

LEMMA PhaseIs ==
  ASSUME NEW o \in Orders
  PROVE  phases[o] = PhaseOf(StatusOf(o))
BY DEF phases, Phase, PhaseOf

\* A new row is a new phase and party of its order.
LEMMA RowsShow ==
  ASSUME MarketTypeOK, NEW o \in Orders, NEW row, Rows(o, row)
  PROVE  /\ phases' = [phases EXCEPT ![o] = PhaseOf(row.status)]
         /\ parties' = [parties EXCEPT ![o] = row.operator]
<1>1. /\ orders'[o] = row /\ StatusOf(o)' = row.status /\ row # None
      /\ \A p \in Orders : p # o => orders'[p] = orders[p] /\ StatusOf(p)' = StatusOf(p)
  BY RowsKeep, AggregatorAssumption DEF Rows
<1>2. \A p \in Orders : phases'[p] = PhaseOf(StatusOf(p)') /\ phases[p] = PhaseOf(StatusOf(p))
  BY DEF phases, Phase, PhaseOf
<1>3. phases' = [phases EXCEPT ![o] = PhaseOf(row.status)]
  <2>1. phases' = [p \in Orders |-> phases'[p]] /\ phases = [p \in Orders |-> phases[p]]
    BY DEF phases
  <2> QED BY <1>1, <1>2, <2>1
<1>4. parties' = [parties EXCEPT ![o] = row.operator]
  BY <1>1 DEF parties
<1> QED BY <1>3, <1>4

LEMMA PhaseKept ==
  ASSUME UNCHANGED orders
  PROVE  UNCHANGED <<phases, parties>>
BY DEF phases, parties, Phase, StatusOf

\* The status alone goes on: so does the phase, and the party stays.
LEMMA StatusShows ==
  ASSUME MarketTypeOK, NEW o \in Orders, NEW status \in Status, orders[o] # None,
         Rows(o, [orders[o] EXCEPT !.status = status]), UNCHANGED offered
  PROVE  /\ phases[o] = PhaseOf(StatusOf(o))
         /\ phases' = [phases EXCEPT ![o] = PhaseOf(status)]
         /\ UNCHANGED <<parties, made>>
<1>1. orders[o] \in Row
  BY StatusIs
<1>2. /\ [orders[o] EXCEPT !.status = status].status = status
      /\ [orders[o] EXCEPT !.status = status].operator = orders[o].operator
  BY <1>1 DEF Row
<1>3. /\ phases' = [phases EXCEPT ![o] = PhaseOf(status)]
      /\ parties' = [parties EXCEPT ![o] = orders[o].operator]
  <2>1. PICK row : row = [orders[o] EXCEPT !.status = status]
    OBVIOUS
  <2>2. Rows(o, row) /\ row.status = status /\ row.operator = orders[o].operator
    BY <1>2, <2>1
  <2>3. /\ phases' = [phases EXCEPT ![o] = PhaseOf(row.status)]
        /\ parties' = [parties EXCEPT ![o] = row.operator]
    BY ONLY <2>2, MarketTypeOK, o \in Orders, RowsShow
  <2> QED BY <2>2, <2>3
<1>4. parties' = parties
  BY <1>3 DEF parties
<1> QED BY <1>3, <1>4, PhaseIs DEF made

\* An order that exists is in some phase.
LEMMA PhaseExists ==
  ASSUME MarketTypeOK, NEW o \in Orders, orders[o] # None
  PROVE  phases[o] # "none"
<1>1. StatusOf(o) \in Status
  BY StatusIs DEF Row
<1> QED BY <1>1, PhaseIs, PhasesAre DEF Status

LEMMA RowsShowStatus ==
  ASSUME MarketTypeOK, NEW o \in Orders, NEW status \in Status, orders[o] # None,
         Rows(o, [orders[o] EXCEPT !.status = status])
  PROVE  StatusOf(o)' = status
<1>1. orders[o] \in Row
  BY StatusIs
<1>2. [orders[o] EXCEPT !.status = status].status = status
  BY <1>1 DEF Row
<1> QED BY <1>2, RowsKeep

\* An order's recalls: those of other orders are as they were.
LEMMA PermitsBecome ==
  ASSUME NEW o \in Orders, \A p \in Orders : p # o => Recalls(p)' = Recalls(p)
  PROVE  permits' = [permits EXCEPT ![o] = Recalls(o)'] /\ permits[o] = Recalls(o)
BY DEF permits

LEMMA PermitsKept ==
  ASSUME UNCHANGED repeats, \A p \in Orders : Overtaken(p)' <=> Overtaken(p)
  PROVE  permits' = permits
BY DEF permits, Recalls

\* Only the row of o and the calls for it change.
LEMMA OthersKept ==
  ASSUME MarketTypeOK, NEW o \in Orders, NEW row, Rows(o, row) \/ UNCHANGED orders,
         \A p \in Orders : p # o => repeats'[p] = repeats[p],
         \A p \in Orders : \A at \in {"publish", "update"} :
           p # o => (Call(p, at) \in calls' <=> Call(p, at) \in calls)
  PROVE  \A p \in Orders : p # o =>
           Recalls(p)' = Recalls(p) /\ (Overtaken(p)' <=> Overtaken(p))
<1>1. \A p \in Orders : p # o => StatusOf(p)' = StatusOf(p)
  BY RowsKeep DEF StatusOf
<1>2. \A p \in Orders : p # o => (Overtaken(p)' <=> Overtaken(p))
  BY <1>1 DEF Overtaken
<1> QED BY <1>2 DEF Recalls

LEMMA CallsKept ==
  ASSUME UNCHANGED <<orders, calls, repeats>>
  PROVE  UNCHANGED permits
BY DEF permits, Recalls, Overtaken, StatusOf

\* An order that has left "pending" goes on: it is overtaken as it was.
LEMMA PermitsStays ==
  ASSUME MarketTypeOK, NEW o \in Orders, \E row : Rows(o, row), UNCHANGED repeats,
         calls' \in {calls, calls \cup {Call(o, "confirm")}},
         StatusOf(o) # "pending", StatusOf(o)' # "pending"
  PROVE  UNCHANGED permits
<1>1. \A p \in Orders : \A at \in {"publish", "update"} :
        Call(p, at) \in calls' <=> Call(p, at) \in calls
  BY DEF Call
<1>2. Overtaken(o)' <=> Overtaken(o)
  BY <1>1 DEF Overtaken
<1>3. \A p \in Orders : p # o => (Overtaken(p)' <=> Overtaken(p))
  BY <1>1, OthersKept
<1> QED BY <1>2, <1>3, PermitsKept

\* The handler's own write: it uses up the recall that overtook it, if one did.
LEMMA PublishedPermits ==
  ASSUME MInv, NEW o \in Orders, OrderPublished(o)
  PROVE  /\ StatusOf(o) = "pending" => UNCHANGED permits
         /\ StatusOf(o) # "pending" =>
              permits[o] > 0 /\ permits' = [permits EXCEPT ![o] = @ - 1]
<1>1. /\ Rows(o, [orders[o] EXCEPT !.status = "searching"])
      /\ calls' = calls \ {Call(o, "update")} /\ Call(o, "update") \in calls
      /\ UNCHANGED repeats /\ MarketTypeOK
  BY SearchingRow DEF MInv
<1>2. \A p \in Orders : \A at \in {"publish", "update"} :
        p # o => (Call(p, at) \in calls' <=> Call(p, at) \in calls)
  BY <1>1, CallIs
<1>3. ~Overtaken(o)'
  BY <1>1 DEF Overtaken, MInv, Publishing
<1>4. Overtaken(o) <=> StatusOf(o) # "pending"
  BY <1>1 DEF Overtaken
<1>5. \A p \in Orders : p # o =>
        Recalls(p)' = Recalls(p) /\ (Overtaken(p)' <=> Overtaken(p))
  BY <1>1, <1>2, OthersKept
<1>6. repeats[o] \in Nat
  BY <1>1 DEF MarketTypeOK
<1>7. CASE StatusOf(o) = "pending"
  BY <1>1, <1>3, <1>4, <1>5, <1>7, PermitsKept
<1>8. CASE StatusOf(o) # "pending"
  <2>1. Recalls(o) = repeats[o] + 1 /\ Recalls(o)' = repeats[o]
    BY <1>1, <1>3, <1>4, <1>6, <1>8 DEF Recalls
  <2>2. permits' = [permits EXCEPT ![o] = Recalls(o)'] /\ permits[o] = Recalls(o)
    BY <1>5, PermitsBecome
  <2>3. permits[o] > 0 /\ Recalls(o)' = permits[o] - 1
    BY <1>6, <2>1, <2>2
  <2> QED BY <1>8, <2>2, <2>3
<1> QED BY <1>7, <1>8

\* A create_order of systems.agregator gives its recall to the handler it
\* overtakes, or uses it up.
LEMMA RecalledPermits ==
  ASSUME MInv, NEW o \in Orders, ProcessMessage(o)
  PROVE  IF Creating(o) /\ StatusOf(o) = "pending" THEN UNCHANGED permits
         ELSE permits[o] > 0 /\ permits' = [permits EXCEPT ![o] = @ - 1]
<1>1. /\ repeats[o] > 0 /\ repeats' = [repeats EXCEPT ![o] = @ - 1]
      /\ UNCHANGED calls /\ MarketTypeOK /\ repeats \in [Orders -> 0 .. MaxRepeats]
  BY RecalledRow DEF MInv, MarketTypeOK
<1>2. \/ /\ orders[o] # None
         /\ Rows(o, [orders[o] EXCEPT !.status = "searching"])
         /\ StatusOf(o)' = "searching"
      \/ orders[o] = None /\ orders' = orders
  <2>1. ASSUME orders[o] # None, Rows(o, [orders[o] EXCEPT !.status = "searching"])
        PROVE  StatusOf(o)' = "searching"
    <3>1. orders[o] \in Row
      BY <1>1, <2>1, StatusIs
    <3>2. [orders[o] EXCEPT !.status = "searching"].status = "searching"
      BY <3>1 DEF Row
    <3> QED BY <1>1, <2>1, <3>2, RowsKeep
  <2> QED BY <2>1, RecalledRow
<1>3. \A p \in Orders : p # o => Recalls(p)' = Recalls(p)
  BY <1>1, <1>2, OthersKept
<1>4. permits' = [permits EXCEPT ![o] = Recalls(o)'] /\ permits[o] = Recalls(o)
  BY <1>3, PermitsBecome
<1>5. repeats[o] \in Nat /\ repeats'[o] = repeats[o] - 1
  BY <1>1
<1>6. CASE Creating(o) /\ StatusOf(o) = "pending"
  <2>1. orders[o] # None
    BY <1>6 DEF MInv, Publishing
  <2>2. ~Overtaken(o) /\ Overtaken(o)'
    BY <1>1, <1>2, <1>6, <2>1 DEF Overtaken, Creating
  <2>3. Recalls(o)' = Recalls(o)
    BY <1>5, <2>2 DEF Recalls
  <2> QED BY <1>4, <1>6, <2>3 DEF permits
<1>7. CASE ~(Creating(o) /\ StatusOf(o) = "pending")
  <2>1. Overtaken(o)' <=> Overtaken(o)
    <3>1. CASE orders[o] = None
      BY <1>1, <1>2, <3>1 DEF Overtaken, StatusOf
    <3>2. CASE orders[o] # None
      BY <1>1, <1>2, <1>7, <3>2 DEF Overtaken, Creating
    <3> QED BY <3>1, <3>2
  <2>2. Recalls(o)' = Recalls(o) - 1 /\ Recalls(o) > 0
    BY <1>1, <1>5, <2>1 DEF Recalls
  <2> QED BY <1>4, <1>7, <2>2
<1> QED BY <1>6, <1>7

\* A publication that fails ends the handler, and with it the recall that
\* overtook it.
LEMMA PublicationPermits ==
  ASSUME MInv, NEW o \in Orders, NEW to, PublishOrder(o, to)
  PROVE  \/ UNCHANGED permits
         \/ permits[o] > 0 /\ permits' = [permits EXCEPT ![o] = @ - 1]
<1>1. /\ Call(o, "publish") \in calls /\ UNCHANGED <<orders, repeats>>
      /\ calls' = (calls \ {Call(o, "publish")})
                  \cup (IF to = {} THEN {} ELSE {Call(o, "update")})
  BY DEF PublishOrder
<1>2. MarketTypeOK /\ repeats[o] \in Nat /\ Call(o, "update") \notin calls
  BY <1>1 DEF MInv, MarketTypeOK, Publishing
<1>3. \A p \in Orders : \A at \in {"publish", "update"} :
        p # o => (Call(p, at) \in calls' <=> Call(p, at) \in calls)
  BY <1>1, CallIs
<1>4. \A p \in Orders : p # o =>
        Recalls(p)' = Recalls(p) /\ (Overtaken(p)' <=> Overtaken(p))
  BY <1>1, <1>2, <1>3, OthersKept
<1>5. StatusOf(o)' = StatusOf(o)
  BY <1>1 DEF StatusOf
<1>6. CASE Overtaken(o)' <=> Overtaken(o)
  BY <1>1, <1>4, <1>6, PermitsKept
<1>7. CASE ~Overtaken(o)' /\ Overtaken(o)
  <2>1. Recalls(o) = repeats[o] + 1 /\ Recalls(o)' = repeats[o]
    BY <1>1, <1>2, <1>7 DEF Recalls
  <2>2. permits' = [permits EXCEPT ![o] = Recalls(o)'] /\ permits[o] = Recalls(o)
    BY <1>4, PermitsBecome
  <2>3. permits[o] > 0 /\ Recalls(o)' = permits[o] - 1
    BY <1>2, <2>1, <2>2
  <2> QED BY <2>2, <2>3
<1>8. Overtaken(o)' => Overtaken(o)
  BY <1>1, <1>5 DEF Overtaken
<1> QED BY <1>6, <1>7, <1>8

\* A step of the market is a move of the deal, or shows nothing of it.
LEMMA DealStep ==
  MInv /\ [Next]_vars => [D!Next]_<<phases, parties, permits, made>>
<1> SUFFICES ASSUME MInv, [Next]_vars
             PROVE  D!Next \/ UNCHANGED <<phases, parties, permits, made>>
  OBVIOUS
<1>0. MarketTypeOK /\ Bidding
  BY DEF MInv
<1>1. ASSUME NEW o \in Orders, CreateOrder(o), UNCHANGED offered
      PROVE  D!Next
  <2>1. orders[o] = None /\ Rows(o, [status |-> "pending", operator |-> None])
    BY <1>1, CreateRow
  <2>2. /\ phases' = [phases EXCEPT ![o] = PhaseOf("pending")]
        /\ parties' = [parties EXCEPT ![o] = None]
    BY <1>0, <2>1, RowsShow
  <2>3. parties' = parties
    BY <2>1, <2>2 DEF parties
  <2>4. phases[o] = "none"
    BY <1>0, <2>1, PhaseIs, PhasesAre, StatusIs
  <2>5. permits' = permits
    <3>1. calls' = calls \cup {Call(o, "publish")} /\ UNCHANGED repeats
      BY <1>1, CreateRow
    <3>2. StatusOf(o)' = "pending"
      BY <1>0, <2>1, RowsKeep
    <3>3. ~Overtaken(o) /\ ~Overtaken(o)'
      BY <2>1, <3>2 DEF Overtaken, MInv, Publishing, Creating
    <3>4. \A p \in Orders : \A at \in {"publish", "update"} :
            p # o => (Call(p, at) \in calls' <=> Call(p, at) \in calls)
      BY <3>1, CallIs
    <3>5. \A p \in Orders : p # o => (Overtaken(p)' <=> Overtaken(p))
      BY <1>0, <2>1, <3>1, <3>4, OthersKept
    <3> QED BY <3>1, <3>3, <3>5, PermitsKept
  <2>6. D!Open(o)
    BY <1>1, <2>2, <2>3, <2>4, <2>5, PhasesAre
    DEF D!Open, D!Moves, phases, parties, permits, made
  <2> QED BY <2>6 DEF D!Next
<1>2. ASSUME NEW o \in Orders, OrderPublished(o), UNCHANGED offered
      PROVE  D!Next \/ UNCHANGED <<phases, parties, permits, made>>
  <2>1. /\ orders[o] # None /\ "searching" \in Status
        /\ Rows(o, [orders[o] EXCEPT !.status = "searching"])
    BY <1>0, <1>2, SearchingRow, StatusIs DEF Status
  <2>2. /\ phases[o] = PhaseOf(StatusOf(o))
        /\ phases' = [phases EXCEPT ![o] = "open"] /\ UNCHANGED <<parties, made>>
    BY <1>0, <1>2, <2>1, StatusShows, PhasesAre
  <2>3. CASE StatusOf(o) = "pending"
    <3>1. phases[o] = "open"
      BY <2>2, <2>3, PhasesAre
    <3>2. phases' = phases
      BY <2>2, <3>1 DEF phases
    <3> QED BY <1>2, <2>2, <2>3, <3>2, PublishedPermits
  <2>4. CASE StatusOf(o) # "pending"
    <3>1. permits[o] > 0 /\ permits' = [permits EXCEPT ![o] = @ - 1]
      BY <1>2, <2>4, PublishedPermits
    <3>2. phases[o] # "none"
      BY <1>0, <2>1, PhaseExists
    <3>3. D!Reopen(o)
      BY <2>2, <3>1, <3>2 DEF D!Reopen, phases, parties, permits, made
    <3> QED BY <3>3 DEF D!Next
  <2> QED BY <2>3, <2>4
<1>3. ASSUME NEW o \in Orders, NEW op \in Operators, ConfirmPrice(o, op), UNCHANGED offered
      PROVE  D!Next
  <2>1. /\ StatusOf(o) = "matched" /\ orders[o] # None /\ "confirmed" \in Status
        /\ Rows(o, [orders[o] EXCEPT !.status = "confirmed"])
    BY <1>0, <1>3, ConfirmedRow, StatusIs DEF Status
  <2>2. UNCHANGED permits
    <3>1. StatusOf(o)' = "confirmed"
      BY <1>0, <2>1, RowsShowStatus
    <3> QED BY <1>0, <1>3, <2>1, <3>1, ConfirmedRow, PermitsStays
  <2>3. D!Agree(o)
    BY <1>0, <1>3, <2>1, <2>2, StatusShows, PhasesAre
    DEF D!Agree, D!Moves, phases, parties, permits, made
  <2> QED BY <2>3 DEF D!Next
<1>4. ASSUME NEW o \in Orders, ConfirmCompletion(o), UNCHANGED offered
      PROVE  D!Next
  <2>1. /\ StatusOf(o) = "completed_pending_confirmation" /\ orders[o] # None
        /\ "completed" \in Status /\ Rows(o, [orders[o] EXCEPT !.status = "completed"])
    BY <1>0, <1>4, CompletedRow, StatusIs DEF Status
  <2>2. UNCHANGED permits
    <3>1. StatusOf(o)' = "completed"
      BY <1>0, <2>1, RowsShowStatus
    <3> QED BY <1>0, <1>4, <2>1, <3>1, CompletedRow, PermitsStays
  <2>3. D!Close(o)
    BY <1>0, <1>4, <2>1, <2>2, StatusShows, PhasesAre
    DEF D!Close, D!Moves, phases, parties, permits, made
  <2> QED BY <2>3 DEF D!Next
<1>5. ASSUME NEW m \in answers, HandlePriceOffer(m), UNCHANGED offered
      PROVE  D!Next \/ UNCHANGED <<phases, parties, permits, made>>
  <2>1. /\ m.action = "price_offer" /\ m.order \in Orders /\ m.operator \in Operators
        /\ \/ /\ StatusOf(m.order) = "searching"
              /\ Rows(m.order, [status |-> "matched", operator |-> m.operator])
           \/ orders' = orders
    BY <1>5, MatchedRow
  <2>2. CASE orders' = orders
    BY <1>5, <2>2, MatchedRow, PhaseKept, CallsKept DEF made
  <2>3. CASE StatusOf(m.order) = "searching"
             /\ Rows(m.order, [status |-> "matched", operator |-> m.operator])
    <3>1. <<m.order, m.operator>> \in made
      BY <1>0, <2>1 DEF Bidding, made
    <3>2. /\ phases' = [phases EXCEPT ![m.order] = PhaseOf("matched")]
          /\ parties' = [parties EXCEPT ![m.order] = m.operator]
      BY <1>0, <2>1, <2>3, RowsShow
    <3>3. phases[m.order] = "open" /\ made' = made
      BY <1>5, <2>1, <2>3, PhaseIs, PhasesAre DEF made
    <3>4. UNCHANGED permits
      <4>1. StatusOf(m.order)' = "matched"
        BY <1>0, <2>1, <2>3, RowsKeep
      <4> QED BY <1>0, <1>5, <2>1, <2>3, <4>1, MatchedRow, PermitsStays
    <3>5. D!Match(m.order, m.operator)
      BY <3>1, <3>2, <3>3, <3>4, PhasesAre
      DEF D!Match, D!Moves, phases, parties, permits, made
    <3> QED BY <2>1, <3>5 DEF D!Next
  <2> QED BY <2>1, <2>2, <2>3
<1>6. ASSUME NEW m \in answers, HandleOrderResult(m), UNCHANGED offered
      PROVE  D!Next \/ UNCHANGED <<phases, parties, permits, made>>
  <2>1. /\ m.order \in Orders
        /\ \/ /\ StatusOf(m.order) = "confirmed"
              /\ \E status \in {"completed_pending_confirmation", "dispute"} :
                   Rows(m.order, [orders[m.order] EXCEPT !.status = status])
           \/ orders' = orders
    BY <1>6, ResultRow
  <2>2. CASE orders' = orders
    BY <1>6, <2>2, ResultRow, PhaseKept, CallsKept DEF made
  <2>3. ASSUME StatusOf(m.order) = "confirmed",
               NEW status \in {"completed_pending_confirmation", "dispute"},
               Rows(m.order, [orders[m.order] EXCEPT !.status = status])
        PROVE  D!Next
    <3>1. orders[m.order] # None /\ status \in Status
      BY <1>0, <2>1, <2>3, StatusIs DEF Status
    <3>2. /\ phases[m.order] = "agreed"
          /\ phases' = [phases EXCEPT ![m.order] = PhaseOf(status)]
          /\ UNCHANGED <<parties, made>>
      BY <1>0, <1>6, <2>1, <2>3, <3>1, StatusShows, PhasesAre
    <3>5. UNCHANGED permits
      <4>1. StatusOf(m.order)' = status
        BY <1>0, <2>1, <2>3, <3>1, RowsShowStatus
      <4> QED BY <1>0, <1>6, <2>1, <2>3, <4>1, ResultRow, PermitsStays
    <3>3. CASE status = "completed_pending_confirmation"
      <4>1. phases' = [phases EXCEPT ![m.order] = "delivered"]
        BY <3>2, <3>3, PhasesAre
      <4>2. D!Deliver(m.order)
        BY <3>2, <3>5, <4>1 DEF D!Deliver, D!Moves, phases, parties, permits, made
      <4> QED BY <2>1, <4>2 DEF D!Next
    <3>4. CASE status = "dispute"
      <4>1. phases' = [phases EXCEPT ![m.order] = "disputed"]
        BY <3>2, <3>4, PhasesAre
      <4>2. D!Dispute(m.order)
        BY <3>2, <3>5, <4>1 DEF D!Dispute, D!Moves, phases, parties, permits, made
      <4> QED BY <2>1, <4>2 DEF D!Next
    <3> QED BY <2>3, <3>3, <3>4
  <2> QED BY <2>1, <2>2, <2>3
<1>7. ASSUME NEW op \in Operators, PublishOffer(op)
      PROVE  D!Next
  <2> DEFINE o == offering[op].order
  <2>1. /\ o \in Orders /\ orders[o] # None /\ UNCHANGED <<orders, calls, repeats>>
        /\ offered' = offered \cup {[order |-> o, operator |-> op, drone |-> offering[op].drone]}
    BY <1>7, OfferIs
  <2> HIDE DEF o
  <2>2. made' = made \cup {<<o, op>>}
    <3> DEFINE b == [order |-> o, operator |-> op, drone |-> offering[op].drone]
    <3>1. b.order = o /\ b.operator = op /\ offered' = offered \cup {b}
      BY <2>1
    <3> HIDE DEF b
    <3> QED BY <3>1 DEF made
  <2>3. phases[o] # "none"
    BY <1>0, <2>1, PhaseExists
  <2>4. D!Bid(o, op)
    BY <2>1, <2>2, <2>3, PhaseKept, CallsKept DEF D!Bid, phases, parties, permits, made
  <2> QED BY <2>1, <2>4 DEF D!Next
<1>8. ASSUME NEW o \in Orders, ProcessMessage(o), UNCHANGED offered
      PROVE  D!Next \/ UNCHANGED <<phases, parties, permits, made>>
  <2>1. \/ /\ orders[o] # None
           /\ Rows(o, [orders[o] EXCEPT !.status = "searching"])
        \/ orders[o] = None /\ orders' = orders
    BY <1>8, RecalledRow
  <2>2. IF Creating(o) /\ StatusOf(o) = "pending" THEN UNCHANGED permits
        ELSE permits[o] > 0 /\ permits' = [permits EXCEPT ![o] = @ - 1]
    BY <1>8, RecalledPermits
  <2>3. CASE orders[o] = None /\ orders' = orders
    <3>1. ~Creating(o)
      BY <2>3 DEF MInv, Publishing
    <3>2. D!Lapse(o)
      BY <1>8, <2>2, <2>3, <3>1, PhaseKept DEF D!Lapse, phases, parties, permits, made
    <3> QED BY <3>2 DEF D!Next
  <2>4. CASE orders[o] # None /\ Rows(o, [orders[o] EXCEPT !.status = "searching"])
    <3>1. "searching" \in Status
      BY DEF Status
    <3>2. /\ phases[o] = PhaseOf(StatusOf(o))
          /\ phases' = [phases EXCEPT ![o] = "open"] /\ UNCHANGED <<parties, made>>
      BY <1>0, <1>8, <2>4, <3>1, StatusShows, PhasesAre
    <3>3. CASE Creating(o) /\ StatusOf(o) = "pending"
      <4>1. phases[o] = "open"
        BY <3>2, <3>3, PhasesAre
      <4>2. phases' = phases
        BY <3>2, <4>1 DEF phases
      <4> QED BY <2>2, <3>2, <3>3, <4>2
    <3>4. CASE ~(Creating(o) /\ StatusOf(o) = "pending")
      <4>1. phases[o] # "none"
        BY <1>0, <2>4, PhaseExists
      <4>2. permits[o] > 0 /\ permits' = [permits EXCEPT ![o] = @ - 1]
        BY <2>2, <3>4
      <4>3. D!Reopen(o)
        BY <3>2, <4>1, <4>2 DEF D!Reopen, phases, parties, permits, made
      <4> QED BY <4>3 DEF D!Next
    <3> QED BY <3>3, <3>4
  <2> QED BY <2>1, <2>3, <2>4
<1>9. ASSUME NEW o \in Orders, NEW to, PublishOrder(o, to), UNCHANGED offered
      PROVE  D!Next \/ UNCHANGED <<phases, parties, permits, made>>
  <2>1. UNCHANGED <<phases, parties, made>>
    BY <1>9, PhaseKept DEF PublishOrder, made
  <2>2. CASE UNCHANGED permits
    BY <2>1, <2>2
  <2>3. CASE permits[o] > 0 /\ permits' = [permits EXCEPT ![o] = @ - 1]
    <3>1. D!Lapse(o)
      BY <2>1, <2>3 DEF D!Lapse, phases, parties, permits, made
    <3> QED BY <3>1 DEF D!Next
  <2> QED BY <1>9, <2>2, <2>3, PublicationPermits
<1>10. ASSUME NEW o \in Orders, RepeatOrder(o)
       PROVE  D!Next
  <2>1. /\ repeats' = [repeats EXCEPT ![o] = @ + 1] /\ repeats[o] \in Nat
        /\ repeats \in [Orders -> 0 .. MaxRepeats] /\ UNCHANGED <<orders, calls, offered>>
    BY <1>0, <1>10 DEF RepeatOrder, operatorVars, MarketTypeOK
  <2>2. \A p \in Orders : Overtaken(p)' <=> Overtaken(p)
    BY <2>1 DEF Overtaken, StatusOf
  <2>3. /\ \A p \in Orders : p # o => Recalls(p)' = Recalls(p)
        /\ Recalls(o)' = Recalls(o) + 1
    BY <2>1, <2>2 DEF Recalls
  <2>4. permits' = [permits EXCEPT ![o] = @ + 1]
    BY <2>3, PermitsBecome
  <2>5. D!Recall(o)
    BY <2>1, <2>4, PhaseKept DEF D!Recall, phases, parties, permits, made
  <2> QED BY <2>5 DEF D!Next
<1>11. ASSUME NEW o \in Orders, NEW to, PublishConfirmPrice(o, to), UNCHANGED offered
       PROVE  UNCHANGED <<phases, parties, permits, made>>
  <2>1. calls' = calls \ {Call(o, "confirm")} /\ UNCHANGED <<orders, repeats>>
    BY <1>11 DEF PublishConfirmPrice
  <2>2. \A p \in Orders : \A at \in {"publish", "update"} :
          Call(p, at) \in calls' <=> Call(p, at) \in calls
    BY <2>1, CallIs
  <2>3. \A p \in Orders : Overtaken(p)' <=> Overtaken(p)
    BY <2>1, <2>2 DEF Overtaken, StatusOf
  <2> QED BY <1>11, <2>1, <2>3, PhaseKept, PermitsKept DEF made
<1>12. CASE UNCHANGED <<orders, calls, repeats, offered>>
  BY <1>12, PhaseKept, CallsKept DEF made
<1>13. CASE AggregatorStep
  <2>1. UNCHANGED offered
    BY <1>13 DEF AggregatorStep, operatorVars
  <2>2. \/ \E o \in Orders : \/ CreateOrder(o) \/ OrderPublished(o) \/ ConfirmCompletion(o)
                             \/ ProcessMessage(o)
                             \/ \E op \in Operators : ConfirmPrice(o, op)
                             \/ \E to : PublishOrder(o, to) \/ PublishConfirmPrice(o, to)
        \/ \E m \in answers : HandlePriceOffer(m) \/ HandleOrderResult(m)
    BY <1>13 DEF AggregatorStep, AggregatorNext, HandleAnswer
  <2> QED BY <1>1, <1>2, <1>3, <1>4, <1>5, <1>6, <1>8, <1>9, <1>11, <2>1, <2>2
<1>14. ASSUME NEW op \in Operators, OperatorStep(op)
       PROVE  (\E q \in Operators : PublishOffer(q)) \/ UNCHANGED <<orders, calls, repeats, offered>>
  BY <1>14 DEF OperatorStep, HandleCreateOrder, HandleConfirmPrice, Takes, InsureOffer, aggregatorVars
<1>15. \/ AggregatorStep \/ (\E op \in Operators : OperatorStep(op))
       \/ (\E o \in Orders : RepeatOrder(o)) \/ UNCHANGED <<orders, calls, repeats, offered>>
  BY DEF Next, RegisterDrone, SelectDrone, BuyInsurancePolicy, TerminatePolicy,
         ReportResult, vars, aggregatorVars, operatorVars
<1> QED BY <1>7, <1>10, <1>12, <1>13, <1>14, <1>15

LEMMA DealInit == Init => D!Init
<1> SUFFICES ASSUME Init
             PROVE  D!Init
  OBVIOUS
<1>1. /\ orders = [o \in Orders |-> None] /\ offered = {}
      /\ calls = {} /\ repeats = [o \in Orders |-> 0]
  BY DEF Init, AggregatorInit
<1>2. \A o \in Orders : Phase(o) = "none" /\ Recalls(o) = 0
  <2> TAKE o \in Orders
  <2>1. StatusOf(o) = "none" /\ repeats[o] = 0
    BY <1>1 DEF StatusOf
  <2>2. Phase(o) = "none"
    BY <2>1 DEF Phase
  <2>3. ~Overtaken(o)
    BY <1>1 DEF Overtaken
  <2> QED BY <2>1, <2>2, <2>3 DEF Recalls
<1>3. /\ [o \in Orders |-> Phase(o)] = [o \in Orders |-> "none"]
      /\ [o \in Orders |-> Recalls(o)] = [o \in Orders |-> 0]
  BY <1>2
<1>4. /\ [o \in Orders |-> IF orders[o] = None THEN None ELSE orders[o].operator]
           = [o \in Orders |-> None]
      /\ {<<b.order, b.operator>> : b \in offered} = {}
  BY <1>1
<1> QED BY <1>3, <1>4 DEF D!Init

-----------------------------------------------------------------------------
\* What the tables, the messages and the handlers hold.
THEOREM MarketTypeCorrect == Spec => []MarketTypeOK
<1>1. MInv => MarketTypeOK
  BY DEF MInv
<1> QED BY <1>1, MInvariance, PTL

\* The aggregator keeps to the deal, whatever order its handlers, its consumers
\* and the operators' messages come in: an order is matched with one operator
\* that bid for it, keeps it, and moves forward, but for the create_order
\* messages of systems.agregator, each of which takes it back once at most.
THEOREM DealRefinement == Spec => ImplementsDeal
<1>1. MInv /\ [Next]_vars => [D!Next]_<<phases, parties, permits, made>>
  BY DealStep
<1> QED
  BY <1>1, DealInit, MInvariance, PTL
  DEF Spec, ImplementsDeal, D!Spec, phases, parties, permits, made
=============================================================================
