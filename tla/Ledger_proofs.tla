--------------------------- MODULE Ledger_proofs ----------------------------
(***************************************************************************)
(* Theorems about OrderContract and FabricLedger, for every set of orders, *)
(* drones, operators and missions and every bound.                         *)
(*                                                                         *)
(* OrderContract.  IInv is the conjunction of the four state properties:   *)
(* FlightUnderApproval needs PermissionLinked (a started order's permission*)
(* record exists), and all of them need TypeOK (a key holds a record or    *)
(* None).                                                                  *)
(*                                                                         *)
(* FabricLedger.  A transaction in flight that is still valid is what its  *)
(* simulation would give now (Simulated), so its commit is a step of the   *)
(* chaincode; what holds of the chaincode then holds of the ledger.        *)
(***************************************************************************)
EXTENDS FabricLedger, TLAPS

IInv ==
  /\ TypeOK
  /\ PermissionLinked
  /\ FlightUnderApproval
  /\ MissionHasGeneralPolicy

-----------------------------------------------------------------------------
(* What the groups of transactions leave alone. *)

\* No transaction of drone.go or security.go touches orders, permissions or
\* mission policies, and no insurance record is ever removed.
LEMMA DroneNextFrame ==
  ASSUME TypeOK, NEW role \in Roles, DroneNext(role)
  PROVE  /\ UNCHANGED <<orders, permissions, missions, violations, now>>
         /\ \A d \in Drones : insurance[d] # None => insurance'[d] # None
<1>1. ASSUME NEW f \in Firmwares, NEW s \in SUBSET Objectives,
             CertifyFirmware(role, f, s) \/ UpdateFirmware(role, f, s)
      PROVE  /\ UNCHANGED <<orders, permissions, missions, violations, now>>
             /\ insurance' = insurance
  BY <1>1 DEF CertifyFirmware, UpdateFirmware, orderVars
<1>2. ASSUME NEW f \in Firmwares, RevokeFirmwareCertification(role, f)
      PROVE  /\ UNCHANGED <<orders, permissions, missions, violations, now>>
             /\ insurance' = insurance
  BY <1>2 DEF RevokeFirmwareCertification, orderVars
<1>3. ASSUME NEW c \in TypeCertificates, IssueTypeCertificate(role, c)
      PROVE  /\ UNCHANGED <<orders, permissions, missions, violations, now>>
             /\ insurance' = insurance
  BY <1>3 DEF IssueTypeCertificate, orderVars
<1>4. ASSUME NEW d \in Drones, NEW f \in Firmwares, NEW c \in TypeCertificates,
             CreateDronePass(role, d, f, c) \/ UpdateDronePass(role, d, f, c)
      PROVE  /\ UNCHANGED <<orders, permissions, missions, violations, now>>
             /\ insurance' = insurance
  BY <1>4 DEF CreateDronePass, UpdateDronePass, orderVars
<1>5. ASSUME NEW d \in Drones, DeleteDronePass(role, d)
      PROVE  /\ UNCHANGED <<orders, permissions, missions, violations, now>>
             /\ insurance' = insurance
  BY <1>5 DEF DeleteDronePass, orderVars
<1>6. ASSUME NEW d \in Drones,
             \/ \E n \in IncidentCount : \/ CreateInsuranceRecord(role, d, n)
                                       \/ UpdateIncidentCount(role, d, n)
             \/ \E s \in InsuranceStatus : UpdateInsuranceStatus(role, d, s)
      PROVE  /\ UNCHANGED <<orders, permissions, missions, violations, now>>
             /\ insurance' = [insurance EXCEPT ![d] = insurance'[d]]
             /\ insurance'[d] \in Insurance
  BY <1>6 DEF CreateInsuranceRecord, UpdateIncidentCount, UpdateInsuranceStatus,
              orderVars, TypeOK, Insurance, IncidentCount, InsuranceStatus
<1>7. ASSUME NEW d \in Drones, insurance'[d] \in Insurance,
             insurance' = [insurance EXCEPT ![d] = insurance'[d]]
      PROVE  \A e \in Drones : insurance[e] # None => insurance'[e] # None
  BY <1>7, NoneAssumption DEF TypeOK
<1> QED
  BY <1>1, <1>2, <1>3, <1>4, <1>5, <1>6, <1>7 DEF DroneNext
-----------------------------------------------------------------------------
(* Type correctness. *)

\* The empty world state is well-typed.
LEMMA TypeInit == Init => TypeOK
BY ChaincodeAssumption DEF Init, TypeOK

\* Transactions of drone.go and security.go write records of the right kind.
LEMMA DroneNextType ==
  ASSUME TypeOK, NEW role \in Roles, DroneNext(role)
  PROVE  TypeOK'
<1>1. /\ orders' = orders /\ permissions' = permissions /\ missions' = missions
      /\ violations' = violations /\ now' = now
  BY DroneNextFrame
<1> DEFINE NewType == /\ insurance' \in [Drones -> Insurance \cup {None}]
                      /\ passes' \in [Drones -> DronePass \cup {None}]
                      /\ firmware' \in [Firmwares -> (SUBSET Objectives) \cup {None}]
                      /\ certificates' \subseteq TypeCertificates
<1>2. NewType
  <2>1. ASSUME NEW f \in Firmwares, NEW s \in SUBSET Objectives,
               CertifyFirmware(role, f, s) \/ UpdateFirmware(role, f, s)
        PROVE  NewType
    BY <2>1 DEF CertifyFirmware, UpdateFirmware, TypeOK
  <2>2. ASSUME NEW f \in Firmwares, RevokeFirmwareCertification(role, f)
        PROVE  NewType
    BY <2>2 DEF RevokeFirmwareCertification, TypeOK
  <2>3. ASSUME NEW c \in TypeCertificates, IssueTypeCertificate(role, c)
        PROVE  NewType
    BY <2>3 DEF IssueTypeCertificate, TypeOK
  <2>4. ASSUME NEW d \in Drones, NEW f \in Firmwares,
               NEW c \in TypeCertificates,
               CreateDronePass(role, d, f, c) \/ UpdateDronePass(role, d, f, c)
        PROVE  NewType
    BY <2>4 DEF CreateDronePass, UpdateDronePass, TypeOK, DronePass
  <2>5. ASSUME NEW d \in Drones, DeleteDronePass(role, d)
        PROVE  NewType
    BY <2>5 DEF DeleteDronePass, TypeOK
  <2>6. ASSUME NEW d \in Drones,
               \/ \E n \in IncidentCount : \/ CreateInsuranceRecord(role, d, n)
                                         \/ UpdateIncidentCount(role, d, n)
               \/ \E s \in InsuranceStatus : UpdateInsuranceStatus(role, d, s)
        PROVE  NewType
    BY <2>6 DEF CreateInsuranceRecord, UpdateIncidentCount,
                UpdateInsuranceStatus, TypeOK, Insurance, InsuranceStatus
  <2> QED
    BY <2>1, <2>2, <2>3, <2>4, <2>5, <2>6 DEF DroneNext
<1> QED
  BY <1>1, <1>2 DEF TypeOK

\* What a transaction on order o does to orders: it writes that order alone,
\* keeps its permission link (a created order has none), and makes it started
\* only with an approved permission.
OrderEffect(o) ==
  /\ UNCHANGED <<droneVars, permissions, missions, now>>
  /\ violations' \subseteq Orders
  /\ orders'[o] \in Order
  /\ orders' = [orders EXCEPT ![o] = orders'[o]]
  /\ orders'[o].hasPermission
       <=> orders[o] # None /\ orders[o].hasPermission
  /\ orders'[o].status = "started"
       => \/ Started(o)
          \/ permissions[o] # None /\ permissions[o].status = "approved"

\* Every transaction on an order has the effect OrderEffect describes.
LEMMA OrderNextEffect ==
  ASSUME TypeOK, NEW role \in Roles, NEW o \in Orders, OrderNext(role, o)
  PROVE  OrderEffect(o)
<1>1. ASSUME NEW op \in Operators, NEW d \in Drones, CreateOrder(role, o, op, d)
      PROVE  OrderEffect(o)
  BY <1>1 DEF CreateOrder, OrderEffect, TypeOK, Order, OrderStatus, Started
<1>2. ASSUME NEW op \in Operators, NEW d \in Drones, AssignOrder(role, o, op, d)
      PROVE  OrderEffect(o)
  BY <1>2 DEF AssignOrder, OrderEffect, TypeOK, Order, OrderStatus, Started
<1>3. ASSUME ApproveOrder(role, o) \/ ConfirmOrder(role, o)
             \/ FinishOrder(role, o) \/ FinalizeOrder(role, o)
      PROVE  OrderEffect(o)
  BY <1>3 DEF ApproveOrder, ConfirmOrder, FinishOrder, FinalizeOrder, SetStatus,
              OrderEffect, TypeOK, Order, OrderStatus, Started
<1>4. ASSUME NEW t \in 1 .. now, StartOrder(role, o, t)
      PROVE  OrderEffect(o)
  BY <1>4 DEF StartOrder, OrderEffect, TypeOK, Order, OrderStatus, Started
<1>5. ASSUME NEW op \in Operators, DistributeFunds(role, o, op)
      PROVE  OrderEffect(o)
  BY <1>5 DEF DistributeFunds, OrderEffect, TypeOK, Order, OrderStatus, Started
<1>6. ASSUME ReportViolation(role, o)
      PROVE  OrderEffect(o)
  BY <1>6 DEF ReportViolation, OrderEffect, TypeOK, Order, OrderStatus, Started
<1> QED
  BY <1>1, <1>2, <1>3, <1>4, <1>5, <1>6 DEF OrderNext

\* What a transaction on the permission of order o does: it creates the
\* record together with the link, or decides or closes an existing one.
PermissionEffect(o) ==
  /\ UNCHANGED <<droneVars, missions, violations, now>>
  /\ permissions'[o] \in Permission
  /\ permissions' = [permissions EXCEPT ![o] = permissions'[o]]
  /\ \/ /\ orders[o] # None
        /\ permissions[o] = None
        /\ permissions'[o].status = "requested"
        /\ orders' = [orders EXCEPT ![o].hasPermission = TRUE]
     \/ /\ permissions[o] # None
        /\ permissions[o].status = "requested"
        /\ permissions'[o].status \in {"approved", "rejected"}
        /\ orders' = orders
     \/ /\ permissions[o] # None
        /\ permissions[o].status = "approved"
        /\ permissions'[o].status = "closed"
        /\ orders' = orders

\* Every transaction on a flight permission has the effect PermissionEffect
\* describes.
LEMMA PermissionNextEffect ==
  ASSUME TypeOK, NEW role \in Roles, NEW o \in Orders, PermissionNext(role, o)
  PROVE  PermissionEffect(o)
<1>1. ASSUME NEW from \in Time, NEW to \in Time,
             RequestFlightPermission(role, o, from, to)
      PROVE  PermissionEffect(o)
  BY <1>1 DEF RequestFlightPermission, PermissionEffect, TypeOK, Permission,
              PermissionStatus
<1>2. ASSUME \/ ApproveFlightPermission(role, o)
             \/ RejectFlightPermission(role, o)
             \/ CloseFlightPermission(role, o)
      PROVE  PermissionEffect(o)
  BY <1>2 DEF ApproveFlightPermission, RejectFlightPermission,
              CloseFlightPermission, PermissionEffect, TypeOK, Permission,
              PermissionStatus
<1> QED
  BY <1>1, <1>2 DEF PermissionNext

\* A transaction on a mission policy writes that policy alone, and the drone
\* it then names has a general policy or was named before.
MissionEffect(m) ==
  /\ UNCHANGED <<droneVars, orders, permissions, violations, now>>
  /\ missions'[m] \in Mission
  /\ missions' = [missions EXCEPT ![m] = missions'[m]]
  /\ \/ insurance[missions'[m].drone] # None
     \/ missions[m] # None /\ missions'[m].drone = missions[m].drone

\* Every transaction on a mission policy has the effect MissionEffect describes.
LEMMA MissionNextEffect ==
  ASSUME TypeOK, NEW role \in Roles, NEW m \in Missions, MissionNext(role, m)
  PROVE  MissionEffect(m)
<1>1. ASSUME NEW o \in Orders, NEW d \in Drones,
             CreateMissionInsurance(role, m, o, d)
      PROVE  MissionEffect(m)
  BY <1>1 DEF CreateMissionInsurance, MissionEffect, TypeOK, Mission,
              MissionStatus
<1>2. ASSUME NEW s \in MissionStatus, UpdateMissionInsuranceStatus(role, m, s)
      PROVE  MissionEffect(m)
  BY <1>2 DEF UpdateMissionInsuranceStatus, MissionEffect, TypeOK, Mission
<1> QED
  BY <1>1, <1>2 DEF MissionNext

\* No transaction leaves the types, whatever its arguments.
LEMMA TypeStep == TypeOK /\ [Next]_vars => TypeOK'
<1> SUFFICES ASSUME TypeOK, [Next]_vars PROVE TypeOK'
  OBVIOUS
<1>1. ASSUME NEW role \in Roles, DroneNext(role)
      PROVE  TypeOK'
  BY <1>1, DroneNextType
<1>2. ASSUME NEW role \in Roles, NEW o \in Orders, OrderNext(role, o)
      PROVE  TypeOK'
  BY <1>2, OrderNextEffect DEF OrderEffect, TypeOK, droneVars
<1>3. ASSUME NEW role \in Roles, NEW o \in Orders, PermissionNext(role, o)
      PROVE  TypeOK'
  <2>1. PermissionEffect(o)
    BY <1>3, PermissionNextEffect
  <2>2. orders' \in [Orders -> Order \cup {None}]
    <3>1. CASE /\ orders[o] # None
               /\ orders' = [orders EXCEPT ![o].hasPermission = TRUE]
      BY ZenonT(30), <3>1 DEF TypeOK, Order
    <3>2. CASE orders' = orders
      BY <3>2 DEF TypeOK
    <3> QED
      BY <2>1, <3>1, <3>2 DEF PermissionEffect
  <2> QED
    BY <2>1, <2>2 DEF PermissionEffect, TypeOK, droneVars
<1>4. ASSUME NEW role \in Roles, NEW m \in Missions, MissionNext(role, m)
      PROVE  TypeOK'
  BY <1>4, MissionNextEffect DEF MissionEffect, TypeOK, droneVars
<1>5. CASE Tick
  BY <1>5, ChaincodeAssumption DEF Tick, TypeOK, orderVars, droneVars
<1>6. CASE UNCHANGED vars
  BY <1>6 DEF vars, TypeOK
<1> QED
  BY <1>1, <1>2, <1>3, <1>4, <1>5, <1>6 DEF Next

\* Every key of the world state holds a record of its kind or is absent, the
\* clock stays within its bound and violations concern existing order ids.
THEOREM TypeCorrect == Spec => []TypeOK
BY TypeInit, TypeStep, PTL DEF Spec

-----------------------------------------------------------------------------
(* The state invariants. *)

\* The empty world state satisfies the inductive invariant.
LEMMA InvInit == Init => IInv
BY TypeInit DEF Init, IInv, PermissionLinked, FlightUnderApproval, Started,
                MissionHasGeneralPolicy

\* Every transaction preserves the inductive invariant.
LEMMA InvStep == IInv /\ [Next]_vars => IInv'
<1> SUFFICES ASSUME IInv, [Next]_vars PROVE IInv'
  OBVIOUS
<1> USE DEF IInv
<1>0. TypeOK'
  BY TypeStep
<1>1. ASSUME NEW role \in Roles, DroneNext(role)
      PROVE  IInv'
  <2>1. /\ UNCHANGED <<orders, permissions, missions>>
        /\ \A d \in Drones : insurance[d] # None => insurance'[d] # None
    BY <1>1, DroneNextFrame
  <2>2. PermissionLinked' /\ FlightUnderApproval'
    BY <2>1 DEF PermissionLinked, FlightUnderApproval, Started
  <2>3. MissionHasGeneralPolicy'
    BY <2>1 DEF MissionHasGeneralPolicy, TypeOK, Mission
  <2> QED
    BY <1>0, <2>2, <2>3
<1>2. ASSUME NEW role \in Roles, NEW o \in Orders, OrderNext(role, o)
      PROVE  IInv'
  <2>1. OrderEffect(o)
    BY <1>2, OrderNextEffect
  <2>2. orders'[o] # None
    BY <2>1, NoneAssumption DEF OrderEffect
  <2>3. PermissionLinked'
    BY <2>1, <2>2 DEF OrderEffect, PermissionLinked, TypeOK
  <2>4. FlightUnderApproval'
    BY <2>1, <2>2 DEF OrderEffect, FlightUnderApproval, Started, TypeOK
  <2>5. MissionHasGeneralPolicy'
    BY <2>1 DEF OrderEffect, droneVars, MissionHasGeneralPolicy
  <2> QED
    BY <1>0, <2>3, <2>4, <2>5
<1>3. ASSUME NEW role \in Roles, NEW o \in Orders, PermissionNext(role, o)
      PROVE  IInv'
  <2>1. PermissionEffect(o)
    BY <1>3, PermissionNextEffect
  <2>2. permissions'[o] # None
    BY <2>1, NoneAssumption DEF PermissionEffect
  <2>3. \A p \in Orders : p # o => /\ permissions'[p] = permissions[p]
                                   /\ orders'[p] = orders[p]
    BY <2>1 DEF PermissionEffect, TypeOK
  <2>4. orders'[o] # None /\ orders'[o].hasPermission
    <3>1. CASE /\ orders[o] # None
               /\ orders' = [orders EXCEPT ![o].hasPermission = TRUE]
      <4>1. orders[o] \in Order
        BY <3>1 DEF TypeOK
      <4>2. orders'[o] = [orders[o] EXCEPT !.hasPermission = TRUE]
        BY <3>1 DEF TypeOK
      <4>3. orders'[o] \in Order /\ orders'[o].hasPermission
        BY <4>1, <4>2 DEF Order
      <4> QED
        BY <4>3, NoneAssumption
    <3>2. CASE permissions[o] # None /\ orders' = orders
      BY <3>2 DEF PermissionLinked
    <3> QED
      BY <2>1, <3>1, <3>2 DEF PermissionEffect
  <2>5. PermissionLinked'
    BY <2>2, <2>3, <2>4 DEF PermissionLinked
  <2>6. Started(o)' => permissions'[o].status \in {"approved", "closed"}
    <3>1. CASE /\ orders[o] # None
               /\ permissions[o] = None
               /\ orders' = [orders EXCEPT ![o].hasPermission = TRUE]
      <4>1. orders'[o].status = orders[o].status
        BY <3>1 DEF TypeOK, Order
      <4> QED
        BY <3>1, <4>1 DEF Started, FlightUnderApproval
    <3>2. CASE /\ orders' = orders
               /\ \/ permissions[o].status = "requested"
                  \/ permissions'[o].status = "closed"
      BY <3>2 DEF Started, FlightUnderApproval
    <3> QED
      BY <2>1, <3>1, <3>2 DEF PermissionEffect
  <2>7. FlightUnderApproval'
    BY <2>2, <2>3, <2>6 DEF FlightUnderApproval, Started
  <2>8. MissionHasGeneralPolicy'
    BY <2>1 DEF PermissionEffect, droneVars, MissionHasGeneralPolicy
  <2> QED
    BY <1>0, <2>5, <2>7, <2>8
<1>4. ASSUME NEW role \in Roles, NEW m \in Missions, MissionNext(role, m)
      PROVE  IInv'
  <2>1. MissionEffect(m)
    BY <1>4, MissionNextEffect
  <2>2. PermissionLinked' /\ FlightUnderApproval'
    BY <2>1 DEF MissionEffect, PermissionLinked, FlightUnderApproval, Started
  <2>3. MissionHasGeneralPolicy'
    BY <2>1 DEF MissionEffect, droneVars, MissionHasGeneralPolicy, TypeOK
  <2> QED
    BY <1>0, <2>2, <2>3
<1>5. CASE Tick \/ UNCHANGED vars
  <2>1. UNCHANGED <<orders, permissions, missions, insurance>>
    BY <1>5 DEF Tick, vars, orderVars, droneVars
  <2> QED
    BY <1>0, <2>1 DEF PermissionLinked, FlightUnderApproval, Started,
                      MissionHasGeneralPolicy
<1> QED
  BY <1>1, <1>2, <1>3, <1>4, <1>5 DEF Next

\* The inductive invariant holds in every reachable world state.
LEMMA Invariance == Spec => []IInv
BY InvInit, InvStep, PTL DEF Spec

\* A started order has a permission the air-traffic authority approved
\* (ApproveFlightPermission), however often operators, aggregators and
\* insurers overwrite its status.
THEOREM StartsOnlyApproved == Spec => []FlightUnderApproval
<1>1. IInv => FlightUnderApproval
  BY DEF IInv
<1> QED
  BY <1>1, Invariance, PTL

\* RequestFlightPermission's two writes stay consistent: FlightPermissionID is
\* set exactly for the orders that have a permission record.
THEOREM PermissionsLinked == Spec => []PermissionLinked
<1>1. IInv => PermissionLinked
  BY DEF IInv
<1> QED
  BY <1>1, Invariance, PTL

\* Every mission policy names a drone that has a general insurance record.
THEOREM MissionsCovered == Spec => []MissionHasGeneralPolicy
<1>1. IInv => MissionHasGeneralPolicy
  BY DEF IInv
<1> QED
  BY <1>1, Invariance, PTL

-----------------------------------------------------------------------------
(* The contract implements the flight clearance protocol: a transaction on  *)
(* an order is a departure, a leaving or nothing, one on a permission is    *)
(* one move of the clearance, every other one is a stutter.                 *)

clearanceOf == [o \in Orders |-> Clearance(o)]
airborneOf == {o \in Orders : Started(o)}

\* The empty world state is an initial state of the clearance protocol.
LEMMA ClearanceInit == Init => FC!Init
BY DEF Init, FC!Init, Clearance, Started

\* Steps that leave orders and permissions alone are invisible outside.
LEMMA ClearanceStutter ==
  ASSUME UNCHANGED <<orders, permissions>>
  PROVE  UNCHANGED <<clearanceOf, airborneOf>>
BY DEF clearanceOf, airborneOf, Clearance, Started

\* Every transaction is a step of the clearance protocol or invisible to it.
LEMMA ClearanceStep ==
  IInv /\ [Next]_vars => [FC!Next]_<<clearanceOf, airborneOf>>
<1> SUFFICES ASSUME IInv, [Next]_vars
             PROVE  FC!Next \/ UNCHANGED <<clearanceOf, airborneOf>>
  OBVIOUS
<1> USE DEF IInv
<1>1. ASSUME NEW role \in Roles, DroneNext(role)
      PROVE  UNCHANGED <<clearanceOf, airborneOf>>
  BY <1>1, DroneNextFrame, ClearanceStutter
<1>2. ASSUME NEW role \in Roles, NEW m \in Missions, MissionNext(role, m)
      PROVE  UNCHANGED <<clearanceOf, airborneOf>>
  BY <1>2, MissionNextEffect, ClearanceStutter DEF MissionEffect
<1>3. CASE Tick \/ UNCHANGED vars
  BY <1>3, ClearanceStutter DEF Tick, vars, orderVars
<1>4. ASSUME NEW role \in Roles, NEW o \in Orders, OrderNext(role, o)
      PROVE  FC!Next \/ UNCHANGED <<clearanceOf, airborneOf>>
  <2>1. OrderEffect(o)
    BY <1>4, OrderNextEffect
  <2>2. UNCHANGED clearanceOf
    BY <2>1 DEF OrderEffect, clearanceOf, Clearance
  <2>3. \A p \in Orders : p # o => (Started(p)' <=> Started(p))
    BY <2>1 DEF OrderEffect, Started, TypeOK
  <2>4. CASE Started(o)' /\ Started(o)
    BY <2>2, <2>3, <2>4 DEF airborneOf
  <2>5. CASE Started(o)' /\ ~Started(o)
    <3>1. clearanceOf[o] = "approved"
      BY <2>1, <2>5 DEF OrderEffect, Started, clearanceOf, Clearance
    <3>2. airborneOf' = airborneOf \cup {o}
      BY <2>3, <2>5 DEF airborneOf
    <3>3. FC!Depart(o)
      BY <2>2, <3>1, <3>2 DEF FC!Depart, clearanceOf, airborneOf
    <3> QED
      BY <3>3 DEF FC!Next
  <2>6. CASE ~Started(o)'
    <3>1. airborneOf' = airborneOf \ {o}
      BY <2>3, <2>6 DEF airborneOf
    <3>2. FC!Leave(o)
      BY <2>2, <3>1 DEF FC!Leave, clearanceOf, airborneOf
    <3> QED
      BY <3>2 DEF FC!Next
  <2> QED
    BY <2>4, <2>5, <2>6
<1>5. ASSUME NEW role \in Roles, NEW o \in Orders, PermissionNext(role, o)
      PROVE  FC!Next
  <2>1. PermissionEffect(o)
    BY <1>5, PermissionNextEffect
  <2>2. permissions'[o] # None
    BY <2>1, NoneAssumption DEF PermissionEffect
  <2>3. \A p \in Orders : p # o => permissions'[p] = permissions[p]
    BY <2>1 DEF PermissionEffect, TypeOK
  <2>4. UNCHANGED airborneOf
    <3>1. ASSUME NEW p \in Orders
          PROVE  Started(p)' <=> Started(p)
      <4>1. CASE orders' = orders
        BY <4>1 DEF Started
      <4>2. CASE /\ orders[o] # None
                 /\ orders' = [orders EXCEPT ![o].hasPermission = TRUE]
        <5>1. CASE p = o
          <6>1. orders[o] \in Order
            BY <4>2 DEF TypeOK
          <6>2. orders'[o] = [orders[o] EXCEPT !.hasPermission = TRUE]
            BY <4>2 DEF TypeOK
          <6>3. orders'[o] \in Order /\ orders'[o].status = orders[o].status
            BY <6>1, <6>2 DEF Order
          <6> QED
            BY <4>2, <5>1, <6>3, NoneAssumption DEF Started
        <5>2. CASE p # o
          BY <4>2, <5>2 DEF Started, TypeOK
        <5> QED
          BY <5>1, <5>2
      <4> QED
        BY <2>1, <4>1, <4>2 DEF PermissionEffect
    <3> QED
      BY <3>1 DEF airborneOf
  <2>5. clearanceOf' = [clearanceOf EXCEPT ![o] = permissions'[o].status]
    BY <2>2, <2>3 DEF clearanceOf, Clearance
  <2>6. CASE /\ permissions[o] = None
             /\ permissions'[o].status = "requested"
    <3>1. FC!Request(o)
      BY <2>4, <2>5, <2>6
         DEF FC!Request, FC!Move, clearanceOf, airborneOf, Clearance
    <3> QED
      BY <3>1 DEF FC!Next
  <2>7. CASE /\ permissions[o] # None
             /\ permissions[o].status = "requested"
             /\ permissions'[o].status \in {"approved", "rejected"}
    <3>1. FC!Approve(o) \/ FC!Reject(o)
      BY <2>4, <2>5, <2>7
         DEF FC!Approve, FC!Reject, FC!Move, clearanceOf, airborneOf, Clearance
    <3> QED
      BY <3>1 DEF FC!Next
  <2>8. CASE /\ permissions[o] # None
             /\ permissions[o].status = "approved"
             /\ permissions'[o].status = "closed"
    <3>1. FC!Close(o)
      BY <2>4, <2>5, <2>8
         DEF FC!Close, FC!Move, clearanceOf, airborneOf, Clearance
    <3> QED
      BY <3>1 DEF FC!Next
  <2> QED
    BY <2>1, <2>6, <2>7, <2>8 DEF PermissionEffect
<1> QED
  BY <1>1, <1>2, <1>3, <1>4, <1>5 DEF Next

\* Seen through the permission statuses and the started orders, every run of
\* the chaincode is a run of FlightClearance: a clearance is decided once and
\* closed once, and a flight departs only under an approved one.
THEOREM ClearanceRefinement == Spec => ImplementsClearance
<1>1. IInv /\ [Next]_vars => [FC!Next]_<<clearanceOf, airborneOf>>
  BY ClearanceStep
<1> QED
  BY <1>1, ClearanceInit, Invariance, PTL
  DEF Spec, ImplementsClearance, FC!Spec, clearanceOf, airborneOf

-----------------------------------------------------------------------------
(***************************************************************************)
(* Proofs about the submission of transactions, for every number of them   *)
(* in flight.  A transaction carries what was computed from an old state.  *)
(* The invariant says that as long as it is valid, it is what a simulation *)
(* against the present state would give (Simulated): whatever wrote a key  *)
(* it read has made it invalid for good.  So committing it is a step of    *)
(* the chaincode on the present state.                                     *)
(***************************************************************************)

Writes(tx, k, value) == DOMAIN tx.writes = {k} /\ tx.writes[k] = value

\* What the transactions that read an order alone write to it.
OrderUpdate(o, new) ==
  \/ /\ orders[o] = None
     /\ \E op \in Operators, d \in Drones :
          new = [status |-> "created", operator |-> op, drone |-> d,
                 payee |-> op, hasPermission |-> FALSE]
  \/ /\ orders[o] # None
     /\ \/ \E op \in Operators, d \in Drones :
             new = [orders[o] EXCEPT !.operator = op, !.drone = d,
                                     !.status = "assigned"]
        \/ new = [orders[o] EXCEPT !.status = "confirmed"]
        \/ new = [orders[o] EXCEPT !.status = "finished"]

OrderTx(tx, o) ==
  /\ DOMAIN tx.reads = {OrderKey(o)}
  /\ \E new \in Order : OrderUpdate(o, new) /\ Writes(tx, OrderKey(o), new)

StartTx(tx, o) ==
  /\ DOMAIN tx.reads = {OrderKey(o), PermissionKey(o)}
  /\ orders[o] # None /\ orders[o].hasPermission
  /\ permissions[o] # None /\ permissions[o].status = "approved"
  /\ \E t \in 1 .. now : permissions[o].from <= t /\ t <= permissions[o].to
  /\ Writes(tx, OrderKey(o), [orders[o] EXCEPT !.status = "started"])

RequestTx(tx, o) ==
  /\ DOMAIN tx.reads = {OrderKey(o), PermissionKey(o)}
  /\ orders[o] # None /\ permissions[o] = None
  /\ DOMAIN tx.writes = {OrderKey(o), PermissionKey(o)}
  /\ tx.writes[OrderKey(o)] = [orders[o] EXCEPT !.hasPermission = TRUE]
  /\ \E from, to \in Time :
       tx.writes[PermissionKey(o)] =
         [status |-> "requested", from |-> from, to |-> to]

PermissionTx(tx, o) ==
  /\ DOMAIN tx.reads = {PermissionKey(o)}
  /\ permissions[o] # None
  /\ \E to \in PermissionStatus :
       /\ \/ permissions[o].status = "requested" /\ to \in {"approved", "rejected"}
          \/ permissions[o].status = "approved" /\ to = "closed"
       /\ Writes(tx, PermissionKey(o), [permissions[o] EXCEPT !.status = to])

InsuranceTx(tx, d) ==
  /\ DOMAIN tx.reads = {InsuranceKey(d)}
  /\ \/ /\ insurance[d] = None
        /\ Writes(tx, InsuranceKey(d), [status |-> "active", incidents |-> 0])
     \/ /\ insurance[d] # None
        /\ \E s \in InsuranceStatus :
             Writes(tx, InsuranceKey(d), [insurance[d] EXCEPT !.status = s])

MissionTx(tx, m, o, d) ==
  /\ DOMAIN tx.reads = {InsuranceKey(d), MissionKey(m)}
  /\ insurance[d] # None /\ insurance[d].status = "active"
  /\ missions[m] = None
  /\ Writes(tx, MissionKey(m), [order |-> o, drone |-> d, status |-> "active"])

FirmwareTx(tx, f) ==
  /\ DOMAIN tx.reads = {FirmwareKey(f)}
  /\ \/ firmware[f] = None /\ Writes(tx, FirmwareKey(f), {})
     \/ firmware[f] # None /\ Writes(tx, FirmwareKey(f), None)

CertificateTx(tx, c) ==
  /\ DOMAIN tx.reads = {CertificateKey(c)}
  /\ c \notin certificates
  /\ Writes(tx, CertificateKey(c), TRUE)

NewPassTx(tx, d, f, c) ==
  /\ DOMAIN tx.reads = {PassKey(d), CertificateKey(c), FirmwareKey(f)}
  /\ passes[d] = None /\ c \in certificates /\ firmware[f] # None
  /\ Writes(tx, PassKey(d), [firmware |-> f, certificate |-> c])

NoPassTx(tx, d) ==
  /\ DOMAIN tx.reads = {PassKey(d)}
  /\ passes[d] # None
  /\ Writes(tx, PassKey(d), None)

\* tx is what a simulation against the present state gives.
Simulated(tx) ==
  \/ \E o \in Orders :
       OrderTx(tx, o) \/ StartTx(tx, o) \/ RequestTx(tx, o) \/ PermissionTx(tx, o)
  \/ \E d \in Drones : InsuranceTx(tx, d) \/ NoPassTx(tx, d)
  \/ \E m \in Missions, o \in Orders, d \in Drones : MissionTx(tx, m, o, d)
  \/ \E f \in Firmwares : FirmwareTx(tx, f)
  \/ \E c \in TypeCertificates : CertificateTx(tx, c)
  \/ \E d \in Drones, f \in Firmwares, c \in TypeCertificates :
       NewPassTx(tx, d, f, c)

InFlightOK ==
  \A tx \in inFlight :
    /\ DOMAIN tx.reads \subseteq Keys
    /\ \A k \in DOMAIN tx.reads : tx.reads[k] \in Nat /\ tx.reads[k] <= version[k]
    /\ Valid(tx) => Simulated(tx)

LedgerInv ==
  /\ TypeOK
  /\ version \in [Keys -> Nat]
  /\ InFlightOK

-----------------------------------------------------------------------------
(* What a commit does *)

\* A transaction that writes one key changes that key alone.
LEMMA CommitOrder ==
  ASSUME TypeOK, NEW tx, Commit(tx), NEW o \in Orders, NEW v,
         Writes(tx, OrderKey(o), v)
  PROVE  /\ orders' = [orders EXCEPT ![o] = v]
         /\ UNCHANGED <<permissions, missions, droneVars, violations, now>>
BY DEF Commit, Written, Writes, TypeOK, droneVars, OrderKey, PermissionKey,
       MissionKey, InsuranceKey, PassKey, FirmwareKey, CertificateKey

\* A commit that writes one permission.
LEMMA CommitPermission ==
  ASSUME TypeOK, NEW tx, Commit(tx), NEW o \in Orders, NEW v,
         Writes(tx, PermissionKey(o), v)
  PROVE  /\ permissions' = [permissions EXCEPT ![o] = v]
         /\ UNCHANGED <<orders, missions, droneVars, violations, now>>
BY DEF Commit, Written, Writes, TypeOK, droneVars, OrderKey, PermissionKey,
       MissionKey, InsuranceKey, PassKey, FirmwareKey, CertificateKey

\* A commit that writes an order together with its permission.
LEMMA CommitRequest ==
  ASSUME TypeOK, NEW tx, Commit(tx), NEW o \in Orders,
         DOMAIN tx.writes = {OrderKey(o), PermissionKey(o)}
  PROVE  /\ orders' = [orders EXCEPT ![o] = tx.writes[OrderKey(o)]]
         /\ permissions' = [permissions EXCEPT ![o] = tx.writes[PermissionKey(o)]]
         /\ UNCHANGED <<missions, droneVars, violations, now>>
BY DEF Commit, Written, TypeOK, droneVars, OrderKey, PermissionKey,
       MissionKey, InsuranceKey, PassKey, FirmwareKey, CertificateKey

\* A commit that writes one mission policy.
LEMMA CommitMission ==
  ASSUME TypeOK, NEW tx, Commit(tx), NEW m \in Missions, NEW v,
         Writes(tx, MissionKey(m), v)
  PROVE  /\ missions' = [missions EXCEPT ![m] = v]
         /\ UNCHANGED <<orders, permissions, droneVars, violations, now>>
BY DEF Commit, Written, Writes, TypeOK, droneVars, OrderKey, PermissionKey,
       MissionKey, InsuranceKey, PassKey, FirmwareKey, CertificateKey

\* A commit that writes one insurance record.
LEMMA CommitInsurance ==
  ASSUME TypeOK, NEW tx, Commit(tx), NEW d \in Drones, NEW v,
         Writes(tx, InsuranceKey(d), v)
  PROVE  /\ insurance' = [insurance EXCEPT ![d] = v]
         /\ UNCHANGED <<orderVars, passes, firmware, certificates, now>>
BY DEF Commit, Written, Writes, TypeOK, orderVars, OrderKey, PermissionKey,
       MissionKey, InsuranceKey, PassKey, FirmwareKey, CertificateKey

\* A commit that writes, or deletes, one drone pass.
LEMMA CommitPass ==
  ASSUME TypeOK, NEW tx, Commit(tx), NEW d \in Drones, NEW v,
         Writes(tx, PassKey(d), v)
  PROVE  /\ passes' = [passes EXCEPT ![d] = v]
         /\ UNCHANGED <<orderVars, insurance, firmware, certificates, now>>
BY DEF Commit, Written, Writes, TypeOK, orderVars, OrderKey, PermissionKey,
       MissionKey, InsuranceKey, PassKey, FirmwareKey, CertificateKey

\* A commit that writes, or deletes, one firmware record.
LEMMA CommitFirmware ==
  ASSUME TypeOK, NEW tx, Commit(tx), NEW f \in Firmwares, NEW v,
         Writes(tx, FirmwareKey(f), v)
  PROVE  /\ firmware' = [firmware EXCEPT ![f] = v]
         /\ UNCHANGED <<orderVars, insurance, passes, certificates, now>>
BY DEF Commit, Written, Writes, TypeOK, orderVars, OrderKey, PermissionKey,
       MissionKey, InsuranceKey, PassKey, FirmwareKey, CertificateKey

\* A commit that writes one type certificate.
LEMMA CommitCertificate ==
  ASSUME TypeOK, NEW tx, Commit(tx), NEW c \in TypeCertificates, NEW v,
         Writes(tx, CertificateKey(c), v)
  PROVE  /\ certificates' = certificates \cup {c}
         /\ UNCHANGED <<orderVars, insurance, passes, firmware, now>>
BY DEF Commit, Written, Writes, TypeOK, orderVars, OrderKey, PermissionKey,
       MissionKey, InsuranceKey, PassKey, FirmwareKey, CertificateKey

-----------------------------------------------------------------------------
(* Committing what a simulation would give is a step of the chaincode *)

\* An administrator may submit every transaction.
LEMMA AdminMay ==
  /\ "admin" \in Roles
  /\ \A allowed : assertRole("admin", allowed)
BY DEF Roles, assertRole

\* Creating, assigning, confirming or finishing an order.
LEMMA CommitOrderTx ==
  ASSUME TypeOK, NEW tx, Commit(tx), NEW o \in Orders, OrderTx(tx, o)
  PROVE  Next
<1>1. PICK new \in Order : OrderUpdate(o, new) /\ Writes(tx, OrderKey(o), new)
  BY DEF OrderTx
<1>2. /\ orders' = [orders EXCEPT ![o] = new]
      /\ UNCHANGED <<permissions, missions, droneVars, violations, now>>
  BY <1>1, CommitOrder
<1>3. SUFFICES OrderNext("admin", o)
  BY AdminMay DEF Next
<1>4. ASSUME NEW op \in Operators, NEW d \in Drones, orders[o] = None,
             new = [status |-> "created", operator |-> op, drone |-> d,
                    payee |-> op, hasPermission |-> FALSE]
      PROVE  OrderNext("admin", o)
  <2>1. CreateOrder("admin", o, op, d)
    BY <1>2, <1>4, AdminMay DEF CreateOrder
  <2> QED
    BY <2>1 DEF OrderNext
<1>5. ASSUME NEW op \in Operators, NEW d \in Drones, orders[o] # None,
             new = [orders[o] EXCEPT !.operator = op, !.drone = d,
                                     !.status = "assigned"]
      PROVE  OrderNext("admin", o)
  <2>1. orders' = [orders EXCEPT ![o].operator = op, ![o].drone = d,
                                 ![o].status = "assigned"]
    BY <1>2, <1>5 DEF TypeOK
  <2>2. AssignOrder("admin", o, op, d)
    BY <1>2, <1>5, <2>1, AdminMay DEF AssignOrder
  <2> QED
    BY <2>2 DEF OrderNext
<1>6. ASSUME orders[o] # None, new = [orders[o] EXCEPT !.status = "confirmed"]
      PROVE  OrderNext("admin", o)
  <2>1. ConfirmOrder("admin", o)
    BY <1>2, <1>6, AdminMay DEF ConfirmOrder, SetStatus
  <2> QED
    BY <2>1 DEF OrderNext
<1>7. ASSUME orders[o] # None, new = [orders[o] EXCEPT !.status = "finished"]
      PROVE  OrderNext("admin", o)
  <2>1. FinishOrder("admin", o)
    BY <1>2, <1>7, AdminMay DEF FinishOrder, SetStatus
  <2> QED
    BY <2>1 DEF OrderNext
<1> QED
  BY <1>1, <1>4, <1>5, <1>6, <1>7 DEF OrderUpdate

\* Starting an order: the permission is still the one that was read.
LEMMA CommitStartTx ==
  ASSUME TypeOK, NEW tx, Commit(tx), NEW o \in Orders, StartTx(tx, o)
  PROVE  Next
<1>1. PICK t \in 1 .. now : permissions[o].from <= t /\ t <= permissions[o].to
  BY DEF StartTx
<1>2. /\ orders' = [orders EXCEPT ![o] = [orders[o] EXCEPT !.status = "started"]]
      /\ UNCHANGED <<permissions, missions, droneVars, violations, now>>
  BY CommitOrder DEF StartTx
<1>3. StartOrder("admin", o, t)
  BY <1>1, <1>2, AdminMay DEF StartOrder, StartTx
<1> QED
  BY <1>3, AdminMay DEF Next, OrderNext

\* Requesting a permission: there is still none.
LEMMA CommitRequestTx ==
  ASSUME TypeOK, NEW tx, Commit(tx), NEW o \in Orders, RequestTx(tx, o)
  PROVE  Next
<1>1. PICK from \in Time, to \in Time :
        tx.writes[PermissionKey(o)] =
          [status |-> "requested", from |-> from, to |-> to]
  BY DEF RequestTx
<1>2. /\ orders' = [orders EXCEPT ![o] = tx.writes[OrderKey(o)]]
      /\ permissions' = [permissions EXCEPT ![o] = tx.writes[PermissionKey(o)]]
      /\ UNCHANGED <<missions, droneVars, violations, now>>
  BY CommitRequest DEF RequestTx
<1>3. RequestFlightPermission("admin", o, from, to)
  BY <1>1, <1>2, AdminMay DEF RequestFlightPermission, RequestTx
<1> QED
  BY <1>3, AdminMay DEF Next, PermissionNext

\* Deciding or closing a permission: its status is still the one read.
LEMMA CommitPermissionTx ==
  ASSUME TypeOK, NEW tx, Commit(tx), NEW o \in Orders, PermissionTx(tx, o)
  PROVE  Next
<1>1. PICK to \in PermissionStatus :
        /\ \/ permissions[o].status = "requested" /\ to \in {"approved", "rejected"}
           \/ permissions[o].status = "approved" /\ to = "closed"
        /\ Writes(tx, PermissionKey(o), [permissions[o] EXCEPT !.status = to])
  BY DEF PermissionTx
<1>2. /\ permissions' = [permissions EXCEPT ![o] =
                           [permissions[o] EXCEPT !.status = to]]
      /\ UNCHANGED <<orders, missions, droneVars, violations, now>>
  BY <1>1, CommitPermission
<1>3. permissions[o] # None
  BY DEF PermissionTx
<1>4. \/ ApproveFlightPermission("admin", o)
      \/ RejectFlightPermission("admin", o)
      \/ CloseFlightPermission("admin", o)
  BY <1>1, <1>2, <1>3, AdminMay DEF ApproveFlightPermission,
     RejectFlightPermission, CloseFlightPermission
<1> QED
  BY <1>4, AdminMay DEF Next, PermissionNext

\* Creating an insurance record or changing its status.
LEMMA CommitInsuranceTx ==
  ASSUME TypeOK, NEW tx, Commit(tx), NEW d \in Drones, InsuranceTx(tx, d)
  PROVE  Next
<1>1. SUFFICES DroneNext("admin")
  BY AdminMay DEF Next
<1>2. ASSUME insurance[d] = None,
             Writes(tx, InsuranceKey(d), [status |-> "active", incidents |-> 0])
      PROVE  DroneNext("admin")
  <2>1. CreateInsuranceRecord("admin", d, 0)
    BY <1>2, CommitInsurance, AdminMay DEF CreateInsuranceRecord
  <2>2. 0 \in IncidentCount
    BY ChaincodeAssumption DEF IncidentCount
  <2> QED
    BY <2>1, <2>2 DEF DroneNext
<1>3. ASSUME insurance[d] # None, NEW s \in InsuranceStatus,
             Writes(tx, InsuranceKey(d), [insurance[d] EXCEPT !.status = s])
      PROVE  DroneNext("admin")
  <2>1. UpdateInsuranceStatus("admin", d, s)
    BY <1>3, CommitInsurance, AdminMay DEF UpdateInsuranceStatus
  <2> QED
    BY <2>1 DEF DroneNext
<1> QED
  BY <1>2, <1>3 DEF InsuranceTx

\* A mission policy: the general policy is still active.
LEMMA CommitMissionTx ==
  ASSUME TypeOK, NEW tx, Commit(tx), NEW m \in Missions, NEW o \in Orders,
         NEW d \in Drones, MissionTx(tx, m, o, d)
  PROVE  Next
<1>1. CreateMissionInsurance("admin", m, o, d)
  BY CommitMission, AdminMay DEF CreateMissionInsurance, MissionTx
<1> QED
  BY <1>1, AdminMay DEF Next, MissionNext

\* Certifying or revoking firmware.
LEMMA CommitFirmwareTx ==
  ASSUME TypeOK, NEW tx, Commit(tx), NEW f \in Firmwares, FirmwareTx(tx, f)
  PROVE  Next
<1>1. \/ CertifyFirmware("admin", f, {})
      \/ RevokeFirmwareCertification("admin", f)
  BY CommitFirmware, AdminMay DEF FirmwareTx, CertifyFirmware,
     RevokeFirmwareCertification
<1> QED
  BY <1>1, AdminMay DEF Next, DroneNext

\* Issuing a type certificate.
LEMMA CommitCertificateTx ==
  ASSUME TypeOK, NEW tx, Commit(tx), NEW c \in TypeCertificates,
         CertificateTx(tx, c)
  PROVE  Next
<1>1. IssueTypeCertificate("admin", c)
  BY CommitCertificate, AdminMay DEF CertificateTx, IssueTypeCertificate
<1> QED
  BY <1>1, AdminMay DEF Next, DroneNext

\* A drone pass: its firmware and its certificate are still there.
LEMMA CommitPassTx ==
  ASSUME TypeOK, NEW tx, Commit(tx), NEW d \in Drones,
         \/ NoPassTx(tx, d)
         \/ \E f \in Firmwares, c \in TypeCertificates : NewPassTx(tx, d, f, c)
  PROVE  Next
<1>1. CASE NoPassTx(tx, d)
  <2>1. DeleteDronePass("admin", d)
    BY <1>1, CommitPass, AdminMay DEF NoPassTx, DeleteDronePass
  <2> QED
    BY <2>1, AdminMay DEF Next, DroneNext
<1>2. ASSUME NEW f \in Firmwares, NEW c \in TypeCertificates,
             NewPassTx(tx, d, f, c)
      PROVE  Next
  <2>1. CreateDronePass("admin", d, f, c)
    BY <1>2, CommitPass, AdminMay DEF NewPassTx, CreateDronePass
  <2> QED
    BY <2>1, AdminMay DEF Next, DroneNext
<1> QED
  BY <1>1, <1>2

\* The commit of whatever would be simulated now is a step of the chaincode.
LEMMA CommitIsStep ==
  ASSUME TypeOK, NEW tx, Commit(tx), Simulated(tx)
  PROVE  Next
BY CommitOrderTx, CommitStartTx, CommitRequestTx, CommitPermissionTx,
   CommitInsuranceTx, CommitMissionTx, CommitFirmwareTx, CommitCertificateTx,
   CommitPassTx DEF Simulated

-----------------------------------------------------------------------------
(* What is simulated stays so while the keys it read do *)

\* The records under the keys stay as they are.
Untouched(keys) ==
  /\ \A o \in Orders : OrderKey(o) \in keys => orders'[o] = orders[o]
  /\ \A o \in Orders : PermissionKey(o) \in keys => permissions'[o] = permissions[o]
  /\ \A m \in Missions : MissionKey(m) \in keys => missions'[m] = missions[m]
  /\ \A d \in Drones : InsuranceKey(d) \in keys => insurance'[d] = insurance[d]
  /\ \A d \in Drones : PassKey(d) \in keys => passes'[d] = passes[d]
  /\ \A f \in Firmwares : FirmwareKey(f) \in keys => firmware'[f] = firmware[f]
  /\ \A c \in TypeCertificates :
       CertificateKey(c) \in keys => (c \in certificates' <=> c \in certificates)

\* A transaction depends on the keys it read and on a time that has passed.
LEMMA SimulatedStable ==
  ASSUME NEW tx, Simulated(tx), Untouched(DOMAIN tx.reads),
         now \in Nat, now' \in Nat, now <= now'
  PROVE  Simulated(tx)'
<1>1. ASSUME NEW o \in Orders, OrderTx(tx, o)
      PROVE  OrderTx(tx, o)'
  <2>1. orders'[o] = orders[o]
    BY <1>1 DEF OrderTx, Untouched
  <2> QED
    BY <1>1, <2>1 DEF OrderTx, OrderUpdate, Writes
<1>2. ASSUME NEW o \in Orders, StartTx(tx, o)
      PROVE  StartTx(tx, o)'
  <2>1. orders'[o] = orders[o] /\ permissions'[o] = permissions[o]
    BY <1>2 DEF StartTx, Untouched
  <2>2. 1 .. now \subseteq 1 .. now'
    OBVIOUS
  <2> QED
    BY <1>2, <2>1, <2>2 DEF StartTx, Writes
<1>3. ASSUME NEW o \in Orders, RequestTx(tx, o)
      PROVE  RequestTx(tx, o)'
  <2>1. orders'[o] = orders[o] /\ permissions'[o] = permissions[o]
    BY <1>3 DEF RequestTx, Untouched
  <2> QED
    BY <1>3, <2>1 DEF RequestTx, Time
<1>4. ASSUME NEW o \in Orders, PermissionTx(tx, o)
      PROVE  PermissionTx(tx, o)'
  <2>1. permissions'[o] = permissions[o]
    BY <1>4 DEF PermissionTx, Untouched
  <2> QED
    BY <1>4, <2>1 DEF PermissionTx, Writes
<1>5. ASSUME NEW d \in Drones, InsuranceTx(tx, d)
      PROVE  InsuranceTx(tx, d)'
  <2>1. insurance'[d] = insurance[d]
    BY <1>5 DEF InsuranceTx, Untouched
  <2> QED
    BY <1>5, <2>1 DEF InsuranceTx, Writes
<1>6. ASSUME NEW d \in Drones, NoPassTx(tx, d)
      PROVE  NoPassTx(tx, d)'
  <2>1. passes'[d] = passes[d]
    BY <1>6 DEF NoPassTx, Untouched
  <2> QED
    BY <1>6, <2>1 DEF NoPassTx, Writes
<1>7. ASSUME NEW m \in Missions, NEW o \in Orders, NEW d \in Drones,
             MissionTx(tx, m, o, d)
      PROVE  MissionTx(tx, m, o, d)'
  <2>1. insurance'[d] = insurance[d] /\ missions'[m] = missions[m]
    BY <1>7 DEF MissionTx, Untouched
  <2> QED
    BY <1>7, <2>1 DEF MissionTx, Writes
<1>8. ASSUME NEW f \in Firmwares, FirmwareTx(tx, f)
      PROVE  FirmwareTx(tx, f)'
  <2>1. firmware'[f] = firmware[f]
    BY <1>8 DEF FirmwareTx, Untouched
  <2> QED
    BY <1>8, <2>1 DEF FirmwareTx, Writes
<1>9. ASSUME NEW c \in TypeCertificates, CertificateTx(tx, c)
      PROVE  CertificateTx(tx, c)'
  <2>1. c \notin certificates'
    BY <1>9 DEF CertificateTx, Untouched
  <2> QED
    BY <1>9, <2>1 DEF CertificateTx, Writes
<1>10. ASSUME NEW d \in Drones, NEW f \in Firmwares, NEW c \in TypeCertificates,
              NewPassTx(tx, d, f, c)
       PROVE  NewPassTx(tx, d, f, c)'
  <2>1. passes'[d] = passes[d] /\ firmware'[f] = firmware[f] /\ c \in certificates'
    BY <1>10 DEF NewPassTx, Untouched
  <2> QED
    BY <1>10, <2>1 DEF NewPassTx, Writes
<1> QED
  BY <1>1, <1>2, <1>3, <1>4, <1>5, <1>6, <1>7, <1>8, <1>9, <1>10 DEF Simulated

-----------------------------------------------------------------------------
(* A simulation puts in flight what it reads and computes now *)

Proposal(readSet, writes) ==
  [reads |-> [k \in readSet |-> version[k]], writes |-> writes]

Proposed(tx) ==
  /\ Simulated(tx) /\ DOMAIN tx.reads \subseteq Keys
  /\ \A k \in DOMAIN tx.reads : tx.reads[k] = version[k]
  /\ inFlight' = inFlight \cup {tx}
  /\ UNCHANGED <<vars, version>>

\* Simulations of the orders family.
LEMMA SimulateOrdersEffect ==
  ASSUME TypeOK, SimulateOrders
  PROVE  \E tx : Proposed(tx)
<1>1. ASSUME NEW o \in Orders, NEW new \in Order, OrderUpdate(o, new),
             ProposeOrder(o, new)
      PROVE  \E tx : Proposed(tx)
  <2> DEFINE tx == Proposal({OrderKey(o)}, PutState(OrderKey(o), new))
  <2>1. OrderTx(tx, o)
    BY <1>1 DEF Proposal, PutState, OrderTx, Writes
  <2>2. Proposed(tx)
    BY <1>1, <2>1 DEF Proposed, Simulated, ProposeOrder, Propose, Proposal, Keys
  <2> QED
    BY <2>2
<1>2. ASSUME NEW o \in Orders, NEW op \in Operators, NEW d \in Drones,
             SimCreateOrder(o, op, d) \/ SimAssignOrder(o, op, d)
      PROVE  \E tx : Proposed(tx)
  <2>1. CASE SimCreateOrder(o, op, d)
    <3> DEFINE new == [status |-> "created", operator |-> op, drone |-> d,
                       payee |-> op, hasPermission |-> FALSE]
    <3>1. new \in Order /\ OrderUpdate(o, new) /\ ProposeOrder(o, new)
      BY <2>1 DEF SimCreateOrder, Order, OrderStatus, OrderUpdate
    <3> QED
      BY <1>1, <3>1
  <2>2. CASE SimAssignOrder(o, op, d)
    <3> DEFINE new == [orders[o] EXCEPT !.operator = op, !.drone = d,
                                        !.status = "assigned"]
    <3>1. new \in Order /\ OrderUpdate(o, new) /\ ProposeOrder(o, new)
      BY <2>2 DEF SimAssignOrder, Order, OrderStatus, OrderUpdate, TypeOK
    <3> QED
      BY <1>1, <3>1
  <2> QED
    BY <1>2, <2>1, <2>2
<1>3. ASSUME NEW o \in Orders, SimConfirmOrder(o) \/ SimFinishOrder(o)
      PROVE  \E tx : Proposed(tx)
  <2>1. PICK s \in {"confirmed", "finished"} :
          /\ orders[o] # None
          /\ ProposeOrder(o, [orders[o] EXCEPT !.status = s])
    BY <1>3 DEF SimConfirmOrder, SimFinishOrder
  <2> DEFINE new == [orders[o] EXCEPT !.status = s]
  <2>2. new \in Order /\ OrderUpdate(o, new) /\ ProposeOrder(o, new)
    BY <2>1 DEF Order, OrderStatus, OrderUpdate, TypeOK
  <2> QED
    BY <1>1, <2>2
<1>4. ASSUME NEW o \in Orders, SimStartOrder(o)
      PROVE  \E tx : Proposed(tx)
  <2> DEFINE tx == Proposal({OrderKey(o), PermissionKey(o)},
                     PutState(OrderKey(o), [orders[o] EXCEPT !.status = "started"]))
  <2>1. now \in 1 .. now
    BY DEF TypeOK
  <2>2. StartTx(tx, o)
    BY <1>4, <2>1 DEF SimStartOrder, Proposal, PutState, StartTx, Writes
  <2>3. Proposed(tx)
    BY <1>4, <2>2 DEF Proposed, Simulated, SimStartOrder, Propose, Proposal, Keys
  <2> QED
    BY <2>3
<1>5. ASSUME NEW o \in Orders, NEW from \in PermissionStatus, NEW to \in PermissionStatus,
             SimPermission(o, from, to),
             \/ from = "requested" /\ to \in {"approved", "rejected"}
             \/ from = "approved" /\ to = "closed"
      PROVE  \E tx : Proposed(tx)
  <2> DEFINE tx == Proposal({PermissionKey(o)},
                     PutState(PermissionKey(o), [permissions[o] EXCEPT !.status = to]))
  <2>1. PermissionTx(tx, o)
    BY <1>5 DEF SimPermission, Proposal, PutState, PermissionTx, Writes
  <2>2. Proposed(tx)
    BY <1>5, <2>1 DEF Proposed, Simulated, SimPermission, Propose, Proposal, Keys
  <2> QED
    BY <2>2
<1>6. ASSUME NEW o \in Orders, NEW from \in Time, NEW to \in Time,
             SimRequestFlightPermission(o, from, to)
      PROVE  \E tx : Proposed(tx)
  <2> DEFINE tx == Proposal({OrderKey(o), PermissionKey(o)},
                     [k \in {OrderKey(o), PermissionKey(o)} |->
                        IF k = OrderKey(o)
                        THEN [orders[o] EXCEPT !.hasPermission = TRUE]
                        ELSE [status |-> "requested", from |-> from, to |-> to]])
  <2>1. OrderKey(o) # PermissionKey(o)
    BY DEF OrderKey, PermissionKey
  <2>2. RequestTx(tx, o)
    BY <1>6, <2>1 DEF SimRequestFlightPermission, Proposal, RequestTx
  <2>3. Proposed(tx)
    BY <1>6, <2>2 DEF Proposed, Simulated, SimRequestFlightPermission, Propose, Proposal, Keys
  <2> QED
    BY <2>3
<1>7. {"requested", "approved", "rejected", "closed"} \subseteq PermissionStatus
  BY DEF PermissionStatus
<1> QED
  BY <1>2, <1>3, <1>4, <1>5, <1>6, <1>7 DEF SimulateOrders

\* Simulations of the policies family.
LEMMA SimulatePoliciesEffect ==
  ASSUME TypeOK, SimulatePolicies
  PROVE  \E tx : Proposed(tx)
<1>1. ASSUME NEW d \in Drones, SimCreateInsuranceRecord(d)
      PROVE  \E tx : Proposed(tx)
  <2> DEFINE tx == Proposal({InsuranceKey(d)},
                     PutState(InsuranceKey(d), [status |-> "active", incidents |-> 0]))
  <2>1. InsuranceTx(tx, d)
    BY <1>1 DEF SimCreateInsuranceRecord, Proposal, PutState, InsuranceTx, Writes
  <2>2. Proposed(tx)
    BY <1>1, <2>1 DEF Proposed, Simulated, SimCreateInsuranceRecord, Propose,
                      Proposal, Keys
  <2> QED
    BY <2>2
<1>2. ASSUME NEW d \in Drones, NEW s \in InsuranceStatus,
             SimUpdateInsuranceStatus(d, s)
      PROVE  \E tx : Proposed(tx)
  <2> DEFINE tx == Proposal({InsuranceKey(d)},
                     PutState(InsuranceKey(d), [insurance[d] EXCEPT !.status = s]))
  <2>1. InsuranceTx(tx, d)
    BY <1>2 DEF SimUpdateInsuranceStatus, Proposal, PutState, InsuranceTx, Writes
  <2>2. Proposed(tx)
    BY <1>2, <2>1 DEF Proposed, Simulated, SimUpdateInsuranceStatus, Propose,
                      Proposal, Keys
  <2> QED
    BY <2>2
<1>3. ASSUME NEW m \in Missions, NEW o \in Orders, NEW d \in Drones,
             SimCreateMissionInsurance(m, o, d)
      PROVE  \E tx : Proposed(tx)
  <2> DEFINE tx == Proposal({InsuranceKey(d), MissionKey(m)},
                     PutState(MissionKey(m),
                              [order |-> o, drone |-> d, status |-> "active"]))
  <2>1. MissionTx(tx, m, o, d)
    BY <1>3 DEF SimCreateMissionInsurance, Proposal, PutState, MissionTx, Writes
  <2>2. Proposed(tx)
    BY <1>3, <2>1 DEF Proposed, Simulated, SimCreateMissionInsurance, Propose,
                      Proposal, Keys
  <2> QED
    BY <2>2
<1> QED
  BY <1>1, <1>2, <1>3 DEF SimulatePolicies

\* Simulations of the passes family.
LEMMA SimulatePassesEffect ==
  ASSUME TypeOK, SimulatePasses
  PROVE  \E tx : Proposed(tx)
<1>1. ASSUME NEW f \in Firmwares, SimCertifyFirmware(f) \/ SimRevokeFirmware(f)
      PROVE  \E tx : Proposed(tx)
  <2> DEFINE v == IF firmware[f] = None THEN {} ELSE None
  <2>1. Propose({FirmwareKey(f)}, PutState(FirmwareKey(f), v))
    BY <1>1 DEF SimCertifyFirmware, SimRevokeFirmware
  <2> DEFINE tx == Proposal({FirmwareKey(f)}, PutState(FirmwareKey(f), v))
  <2>2. FirmwareTx(tx, f)
    BY <2>1 DEF Proposal, PutState, FirmwareTx, Writes
  <2>3. Proposed(tx)
    BY <2>1, <2>2 DEF Proposed, Simulated, Propose, Proposal, Keys
  <2> QED
    BY <2>3
<1>2. ASSUME NEW c \in TypeCertificates, SimIssueTypeCertificate(c)
      PROVE  \E tx : Proposed(tx)
  <2> DEFINE tx == Proposal({CertificateKey(c)}, PutState(CertificateKey(c), TRUE))
  <2>1. CertificateTx(tx, c)
    BY <1>2 DEF SimIssueTypeCertificate, Proposal, PutState, CertificateTx, Writes
  <2>2. Proposed(tx)
    BY <1>2, <2>1 DEF Proposed, Simulated, SimIssueTypeCertificate, Propose,
                      Proposal, Keys
  <2> QED
    BY <2>2
<1>3. ASSUME NEW d \in Drones, NEW f \in Firmwares, NEW c \in TypeCertificates,
             SimCreateDronePass(d, f, c)
      PROVE  \E tx : Proposed(tx)
  <2> DEFINE tx == Proposal({PassKey(d), CertificateKey(c), FirmwareKey(f)},
                     PutState(PassKey(d), [firmware |-> f, certificate |-> c]))
  <2>1. NewPassTx(tx, d, f, c)
    BY <1>3 DEF SimCreateDronePass, Proposal, PutState, NewPassTx, Writes
  <2>2. Proposed(tx)
    BY <1>3, <2>1 DEF Proposed, Simulated, SimCreateDronePass, Propose,
                      Proposal, Keys
  <2> QED
    BY <2>2
<1>4. ASSUME NEW d \in Drones, SimDeleteDronePass(d)
      PROVE  \E tx : Proposed(tx)
  <2> DEFINE tx == Proposal({PassKey(d)}, PutState(PassKey(d), None))
  <2>1. NoPassTx(tx, d)
    BY <1>4 DEF SimDeleteDronePass, Proposal, PutState, NoPassTx, Writes
  <2>2. Proposed(tx)
    BY <1>4, <2>1 DEF Proposed, Simulated, SimDeleteDronePass, Propose,
                      Proposal, Keys
  <2> QED
    BY <2>2
<1> QED
  BY <1>1, <1>2, <1>3, <1>4 DEF SimulatePasses

-----------------------------------------------------------------------------
(* The invariant, and the theorems *)

\* Nothing is in flight at the start.
LEMMA LedgerInit == FabricInit => LedgerInv
BY TypeInit DEF FabricInit, LedgerInv, InFlightOK

\* Every step but a commit leaves the world state alone or is the clock's, and
\* a commit, of a valid transaction, is a step of the chaincode.
LEMMA LedgerStepIsStep ==
  ASSUME LedgerInv, [FabricNext]_fabricVars
  PROVE  [Next]_vars
<1>1. CASE Simulate
  BY <1>1, SimulateOrdersEffect, SimulatePoliciesEffect, SimulatePassesEffect
  DEF Simulate, Proposed, LedgerInv
<1>2. ASSUME NEW tx \in inFlight, Commit(tx)
      PROVE  Next
  BY <1>2, CommitIsStep DEF LedgerInv, InFlightOK, Commit
<1>3. ASSUME NEW tx \in inFlight, Discard(tx)
      PROVE  UNCHANGED vars
  BY <1>3 DEF Discard
<1>4. CASE PeerClock
  BY <1>4 DEF PeerClock, Next
<1>5. CASE UNCHANGED fabricVars
  BY <1>5 DEF fabricVars
<1> QED
  BY <1>1, <1>2, <1>3, <1>4, <1>5 DEF FabricNext

\* A commit of another transaction, or a tick, leaves the invariant of one in
\* flight: had the commit written a key this one read, this one would not be
\* valid afterwards, for versions only grow.
LEMMA CommitKeeps ==
  ASSUME LedgerInv, NEW done \in inFlight, Commit(done), NEW tx \in inFlight
  PROVE  /\ \A k \in DOMAIN tx.reads : tx.reads[k] <= version'[k]
         /\ Valid(tx)' => Simulated(tx)'
<1>1. version \in [Keys -> Nat] /\ DOMAIN tx.reads \subseteq Keys
  BY DEF LedgerInv, InFlightOK
<1>2. \A k \in Keys : /\ version'[k] \in Nat /\ version[k] <= version'[k]
                      /\ k \in DOMAIN done.writes => version'[k] = version[k] + 1
  BY <1>1 DEF Commit
<1>3. \A k \in DOMAIN tx.reads : tx.reads[k] \in Nat /\ tx.reads[k] <= version[k]
  BY DEF LedgerInv, InFlightOK
<1>4. \A k \in DOMAIN tx.reads : tx.reads[k] <= version'[k]
  BY <1>1, <1>2, <1>3
<1>5. ASSUME Valid(tx)'
      PROVE  Simulated(tx)'
  <2>1. \A k \in DOMAIN tx.reads : version'[k] = tx.reads[k]
    BY <1>5 DEF Valid
  <2>2. \A k \in DOMAIN tx.reads :
          version[k] = tx.reads[k] /\ k \notin DOMAIN done.writes
    BY <1>1, <1>2, <1>3, <2>1
  <2>3. Simulated(tx)
    BY <2>2 DEF LedgerInv, InFlightOK, Valid
  <2>4. Untouched(DOMAIN tx.reads)
    BY <2>2 DEF Commit, Written, Untouched
  <2>5. now \in Nat /\ now' = now
    BY DEF LedgerInv, TypeOK, Commit
  <2> QED
    BY <2>3, <2>4, <2>5, SimulatedStable
<1> QED
  BY <1>4, <1>5

\* As long as the world state stays, what is simulated stays so.
LEMMA SimulatedFrame ==
  ASSUME TypeOK, NEW tx, Simulated(tx), UNCHANGED vars
  PROVE  Simulated(tx)'
<1>1. Untouched(DOMAIN tx.reads) /\ now \in Nat /\ now' = now
  BY DEF Untouched, vars, TypeOK
<1> QED
  BY <1>1, SimulatedStable

\* Every step of peers and orderer preserves the invariant.
LEMMA LedgerStep == LedgerInv /\ [FabricNext]_fabricVars => LedgerInv'
<1> SUFFICES ASSUME LedgerInv, [FabricNext]_fabricVars PROVE LedgerInv'
  OBVIOUS
<1>0. TypeOK /\ TypeOK'
  BY LedgerStepIsStep, TypeStep DEF LedgerInv
<1>1. CASE Simulate
  <2>1. PICK tx : Proposed(tx)
    BY <1>1, SimulateOrdersEffect, SimulatePoliciesEffect,
       SimulatePassesEffect DEF Simulate, LedgerInv
  <2>2. version' = version /\ inFlight' = inFlight \cup {tx} /\ UNCHANGED vars
    BY <2>1 DEF Proposed
  <2>3. ASSUME NEW old \in inFlight', Valid(old)'
        PROVE  Simulated(old)'
    <3>1. Simulated(old)
      BY <2>1, <2>2, <2>3 DEF LedgerInv, InFlightOK, Valid, Proposed
    <3> QED
      BY <1>0, <2>2, <3>1, SimulatedFrame
  <2>4. /\ version \in [Keys -> Nat] /\ DOMAIN tx.reads \subseteq Keys
        /\ \A k \in DOMAIN tx.reads : tx.reads[k] = version[k]
    BY <2>1 DEF LedgerInv, Proposed
  <2>5. \A k \in DOMAIN tx.reads : tx.reads[k] \in Nat /\ tx.reads[k] <= version[k]
    BY <2>4
  <2> QED
    BY <1>0, <2>2, <2>3, <2>4, <2>5 DEF LedgerInv, InFlightOK
<1>2. ASSUME NEW done \in inFlight, Commit(done)
      PROVE  LedgerInv'
  <2>1. version' \in [Keys -> Nat]
    BY <1>2 DEF Commit, LedgerInv
  <2>2. inFlight' \subseteq inFlight
    BY <1>2 DEF Commit
  <2> QED
    BY <1>0, <1>2, <2>1, <2>2, CommitKeeps DEF LedgerInv, InFlightOK
<1>3. ASSUME NEW done \in inFlight, Discard(done)
      PROVE  LedgerInv'
  <2>1. inFlight' \subseteq inFlight /\ version' = version /\ UNCHANGED vars
    BY <1>3 DEF Discard
  <2>2. ASSUME NEW tx \in inFlight', Valid(tx)'
        PROVE  Simulated(tx)'
    BY <1>0, <2>1, <2>2, SimulatedFrame DEF LedgerInv, InFlightOK, Valid
  <2> QED
    BY <1>0, <2>1, <2>2 DEF LedgerInv, InFlightOK
<1>4. CASE PeerClock
  <2>1. inFlight' = inFlight /\ version' = version
    BY <1>4 DEF PeerClock
  <2>2. ASSUME NEW tx \in inFlight', Valid(tx)'
        PROVE  Simulated(tx)'
    <3>1. Simulated(tx)
      BY <2>1, <2>2 DEF LedgerInv, InFlightOK, Valid
    <3>2. Untouched(DOMAIN tx.reads) /\ now \in Nat /\ now' = now + 1
      BY <1>0, <1>4 DEF PeerClock, Tick, Untouched, orderVars, droneVars, TypeOK
    <3> QED
      BY <3>1, <3>2, SimulatedStable
  <2> QED
    BY <1>0, <2>1, <2>2 DEF LedgerInv, InFlightOK
<1>5. CASE UNCHANGED fabricVars
  <2>1. inFlight' = inFlight /\ version' = version /\ UNCHANGED vars
    BY <1>5 DEF fabricVars
  <2>2. ASSUME NEW tx \in inFlight', Valid(tx)'
        PROVE  Simulated(tx)'
    BY <1>0, <2>1, <2>2, SimulatedFrame DEF LedgerInv, InFlightOK, Valid
  <2> QED
    BY <1>0, <2>1, <2>2 DEF LedgerInv, InFlightOK
<1> QED
  BY <1>1, <1>2, <1>3, <1>4, <1>5 DEF FabricNext

\* The invariant holds in every reachable state.
LEMMA LedgerInvariance == FabricSpec => []LedgerInv
BY LedgerInit, LedgerStep, PTL DEF FabricSpec

\* Whatever is in flight together, and however often, the commits are a
\* one-at-a-time execution of the chaincode: an order confirmed and assigned
\* at once keeps both, a retry resets nothing.
THEOREM CommitsSerializable == FabricSpec => Serializable
<1>1. FabricInit => Init
  BY DEF FabricInit
<1>2. LedgerInv /\ [FabricNext]_fabricVars => [Next]_vars
  BY LedgerStepIsStep
<1> QED
  BY <1>1, <1>2, LedgerInvariance, PTL DEF FabricSpec, Serializable, Spec

\* So what holds of the chaincode holds of the ledger, whatever the order in
\* which transactions were simulated: a started order's permission is approved
\* or closed.
THEOREM LedgerFliesUnderApproval == FabricSpec => []FlightUnderApproval
BY CommitsSerializable, StartsOnlyApproved DEF Serializable

\* And the ledger, with stale transactions in flight, implements the flight
\* clearance protocol.
THEOREM LedgerImplementsClearance == FabricSpec => ImplementsClearance
BY CommitsSerializable, ClearanceRefinement DEF Serializable

\* A transaction of the chaincode makes an order started only while its
\* permission is approved.
LEMMA StartsApproved ==
  ASSUME TypeOK, [Next]_vars, NEW o \in Orders, Starts(o)
  PROVE  permissions[o].status = "approved"
<1>1. ASSUME NEW role \in Roles, DroneNext(role)
      PROVE  FALSE
  BY <1>1, DroneNextFrame DEF Starts, Started
<1>2. ASSUME NEW role \in Roles, NEW p \in Orders, OrderNext(role, p)
      PROVE  permissions[o].status = "approved"
  BY <1>2, OrderNextEffect DEF OrderEffect, Starts, Started, TypeOK
<1>3. ASSUME NEW role \in Roles, NEW p \in Orders, PermissionNext(role, p)
      PROVE  FALSE
  <2>1. PermissionEffect(p)
    BY <1>3, PermissionNextEffect
  <2>2. CASE /\ orders[p] # None
             /\ orders' = [orders EXCEPT ![p].hasPermission = TRUE]
    BY <2>2 DEF Starts, Started, TypeOK, Order
  <2>3. CASE orders' = orders
    BY <2>3 DEF Starts, Started
  <2> QED
    BY <2>1, <2>2, <2>3 DEF PermissionEffect
<1>4. ASSUME NEW role \in Roles, NEW m \in Missions, MissionNext(role, m)
      PROVE  FALSE
  BY <1>4, MissionNextEffect DEF MissionEffect, Starts, Started
<1>5. CASE Tick \/ UNCHANGED vars
  BY <1>5 DEF Tick, orderVars, vars, Starts, Started
<1> QED
  BY <1>1, <1>2, <1>3, <1>4, <1>5 DEF Next

\* StartOrder commits only while the permission it read when it was simulated
\* is still the approved one of the ledger.
THEOREM StartsUnderOpenApproval == FabricSpec => StartUnderOpenApproval
<1>1. ASSUME LedgerInv, [FabricNext]_fabricVars
      PROVE  [\A o \in Orders : Starts(o) => permissions[o].status = "approved"]_fabricVars
  BY <1>1, LedgerStepIsStep, StartsApproved DEF LedgerInv
<1> QED
  BY <1>1, LedgerInvariance, PTL DEF FabricSpec, StartUnderOpenApproval
=============================================================================
