--------------------------- MODULE OrderContract ---------------------------
(***************************************************************************)
(* The chaincode of fabric-network/chaincode/contracts: OrderContract      *)
(* (billing.go), DronePropertiesContract (drone.go) and FirmwareContract   *)
(* (security.go) share one world state, so they share this module.  Every  *)
(* action is one successful transaction; a transaction that returns an     *)
(* error writes nothing and is no step.  The caller's role (assertRole) is *)
(* the first argument of every transaction.  Module FabricLedger takes     *)
(* simulation and commit apart.                                            *)
(*                                                                         *)
(* Abstracted: amounts, texts and identifiers no guard looks at.  An order *)
(* keeps its status, operator, drone, the recipient of the operator's      *)
(* share and whether FlightPermissionID is set; its permission has the id  *)
(* "PERM-" + order id, so permissions are indexed by order.                *)
(***************************************************************************)
EXTENDS Integers

CONSTANTS Orders, Drones, Operators, Missions, Firmwares, TypeCertificates,
          Objectives,   \* security objectives a firmware may be certified for
          MaxIncidents, \* bound on the incident count of an insurance record
          MaxTime,      \* bound on the clock of the endorsing peers
          None          \* a key that is absent from the world state

ASSUME ChaincodeAssumption ==
  /\ MaxTime \in Nat \ {0}
  /\ MaxIncidents \in Nat
  /\ \A s \in SUBSET Objectives : s # None

Roles == {"admin", "cert_center", "operator", "aggregator", "insurer",
          "orvd", "regulator", "manufacturer"}

OrderStatus == {"created", "assigned", "approved", "confirmed", "started",
                "finished", "finalized", "settled"}
PermissionStatus == {"requested", "approved", "rejected", "closed"}
InsuranceStatus == {"active", "expired", "cancelled"}
MissionStatus == {"active", "used", "expired"}

\* Time 0 is the zero time an unparsable date yields; clocks start at 1.
Time == 0 .. MaxTime

Order == [status : OrderStatus, operator : Operators, drone : Drones,
          payee : Operators, hasPermission : BOOLEAN]
Permission == [status : PermissionStatus, from : Time, to : Time]
\* -1 stands for every negative count.
IncidentCount == -1 .. MaxIncidents
Insurance == [status : InsuranceStatus, incidents : IncidentCount]
DronePass == [firmware : Firmwares, certificate : TypeCertificates]
Mission == [order : Orders, drone : Drones, status : MissionStatus]

ASSUME NoneAssumption ==
  \A r \in Order \cup Permission \cup Insurance \cup DronePass \cup Mission :
    r # None

VARIABLES orders,       \* order id -> Order or None
          permissions,  \* order id -> FlightPermission or None
          missions,     \* mission insurance id -> MissionInsurance or None
          insurance,    \* drone -> InsuranceRecord or None
          passes,       \* drone -> DronePass or None
          firmware,     \* firmware id -> its security objectives or None
          certificates, \* the type certificates issued
          violations,   \* orders with a RestrictionViolation record
          now           \* the peers' clock

droneVars == <<insurance, passes, firmware, certificates>>
orderVars == <<orders, permissions, missions, violations>>
vars == <<orders, permissions, missions, insurance, passes, firmware,
          certificates, violations, now>>

TypeOK ==
  /\ orders \in [Orders -> Order \cup {None}]
  /\ permissions \in [Orders -> Permission \cup {None}]
  /\ missions \in [Missions -> Mission \cup {None}]
  /\ insurance \in [Drones -> Insurance \cup {None}]
  /\ passes \in [Drones -> DronePass \cup {None}]
  /\ firmware \in [Firmwares -> (SUBSET Objectives) \cup {None}]
  /\ certificates \subseteq TypeCertificates
  /\ violations \subseteq Orders
  /\ now \in 1 .. MaxTime

Init ==
  /\ orders = [o \in Orders |-> None]
  /\ permissions = [o \in Orders |-> None]
  /\ missions = [m \in Missions |-> None]
  /\ insurance = [d \in Drones |-> None]
  /\ passes = [d \in Drones |-> None]
  /\ firmware = [f \in Firmwares |-> None]
  /\ certificates = {}
  /\ violations = {}
  /\ now = 1

\* assertRole: the certificate's role attribute, else the role of its MSP.
assertRole(role, allowed) == role \in allowed \cup {"admin"}

-----------------------------------------------------------------------------
(* Firmware, type certificates, drone passes, insurance records. *)

CertifyFirmware(role, f, objectives) ==
  /\ assertRole(role, {"cert_center"})
  /\ firmware[f] = None
  /\ firmware' = [firmware EXCEPT ![f] = objectives]
  /\ UNCHANGED <<orderVars, insurance, passes, certificates, now>>

UpdateFirmware(role, f, objectives) ==
  /\ assertRole(role, {"cert_center"})
  /\ firmware[f] # None
  /\ firmware' = [firmware EXCEPT ![f] = objectives]
  /\ UNCHANGED <<orderVars, insurance, passes, certificates, now>>

\* Deletes the firmware; the passes that name it are not looked at.
RevokeFirmwareCertification(role, f) ==
  /\ assertRole(role, {"cert_center"})
  /\ firmware[f] # None
  /\ firmware' = [firmware EXCEPT ![f] = None]
  /\ UNCHANGED <<orderVars, insurance, passes, certificates, now>>

IssueTypeCertificate(role, c) ==
  /\ assertRole(role, {"cert_center"})
  /\ c \notin certificates
  /\ certificates' = certificates \cup {c}
  /\ UNCHANGED <<orderVars, insurance, passes, firmware, now>>

CreateDronePass(role, d, f, c) ==
  /\ assertRole(role, {"cert_center"})
  /\ passes[d] = None
  /\ c \in certificates
  /\ firmware[f] # None
  /\ passes' = [passes EXCEPT ![d] = [firmware |-> f, certificate |-> c]]
  /\ UNCHANGED <<orderVars, insurance, firmware, certificates, now>>

\* Unlike creation, an update checks neither the firmware nor the certificate.
UpdateDronePass(role, d, f, c) ==
  /\ assertRole(role, {"cert_center"})
  /\ passes[d] # None
  /\ passes' = [passes EXCEPT ![d] = [firmware |-> f, certificate |-> c]]
  /\ UNCHANGED <<orderVars, insurance, firmware, certificates, now>>

DeleteDronePass(role, d) ==
  /\ assertRole(role, {"cert_center"})
  /\ passes[d] # None
  /\ passes' = [passes EXCEPT ![d] = None]
  /\ UNCHANGED <<orderVars, insurance, firmware, certificates, now>>

\* The initial count is not validated, an update is.
CreateInsuranceRecord(role, d, incidents) ==
  /\ assertRole(role, {"insurer"})
  /\ insurance[d] = None
  /\ insurance' = [insurance EXCEPT
                     ![d] = [status |-> "active", incidents |-> incidents]]
  /\ UNCHANGED <<orderVars, passes, firmware, certificates, now>>

UpdateInsuranceStatus(role, d, status) ==
  /\ assertRole(role, {"insurer"})
  /\ insurance[d] # None
  /\ status \in InsuranceStatus
  /\ insurance' = [insurance EXCEPT ![d].status = status]
  /\ UNCHANGED <<orderVars, passes, firmware, certificates, now>>

UpdateIncidentCount(role, d, count) ==
  /\ assertRole(role, {"insurer"})
  /\ count >= 0
  /\ insurance[d] # None
  /\ insurance[d].status = "active"
  /\ insurance' = [insurance EXCEPT ![d].incidents = count]
  /\ UNCHANGED <<orderVars, passes, firmware, certificates, now>>

-----------------------------------------------------------------------------
(* Orders. *)

CreateOrder(role, o, op, d) ==
  /\ assertRole(role, {"aggregator"})
  /\ orders[o] = None
  /\ orders' = [orders EXCEPT
                  ![o] = [status |-> "created", operator |-> op, drone |-> d,
                          payee |-> op, hasPermission |-> FALSE]]
  /\ UNCHANGED <<droneVars, permissions, missions, violations, now>>

\* The operator's share keeps the recipient it was created with.
AssignOrder(role, o, op, d) ==
  /\ assertRole(role, {"aggregator"})
  /\ orders[o] # None
  /\ orders' = [orders EXCEPT ![o].operator = op, ![o].drone = d,
                              ![o].status = "assigned"]
  /\ UNCHANGED <<droneVars, permissions, missions, violations, now>>

\* What ApproveOrder, ConfirmOrder, FinishOrder and FinalizeOrder have in
\* common: they overwrite the status whatever it was.
SetStatus(o, status) ==
  /\ orders[o] # None
  /\ orders' = [orders EXCEPT ![o].status = status]
  /\ UNCHANGED <<droneVars, permissions, missions, violations, now>>

ApproveOrder(role, o) ==
  assertRole(role, {"insurer"}) /\ SetStatus(o, "approved")

ConfirmOrder(role, o) ==
  assertRole(role, {"operator"}) /\ SetStatus(o, "confirmed")

FinishOrder(role, o) ==
  assertRole(role, {"operator"}) /\ SetStatus(o, "finished")

FinalizeOrder(role, o) ==
  assertRole(role, {"aggregator"}) /\ SetStatus(o, "finalized")

DistributeFunds(role, o, payee) ==
  /\ assertRole(role, {"aggregator"})
  /\ orders[o] # None
  /\ orders' = [orders EXCEPT ![o].payee = payee, ![o].status = "settled"]
  /\ UNCHANGED <<droneVars, permissions, missions, violations, now>>

\* Mutant: the status of the permission is not looked at.
StartOrderUnapproved(role, o, t) ==
  /\ assertRole(role, {"operator"})
  /\ orders[o] # None
  /\ orders[o].hasPermission
  /\ permissions[o].from <= t
  /\ t <= permissions[o].to
  /\ orders' = [orders EXCEPT ![o].status = "started"]
  /\ UNCHANGED <<droneVars, permissions, missions, violations, now>>

\* t is the clock of the peer that simulated the transaction.
\* CheckZoneConflict is a stub that never reports a conflict.
StartOrder(role, o, t) ==
  /\ assertRole(role, {"operator"})
  /\ orders[o] # None
  /\ orders[o].hasPermission
  /\ permissions[o] # None
  /\ permissions[o].status = "approved"
  /\ permissions[o].from <= t
  /\ t <= permissions[o].to
  /\ orders' = [orders EXCEPT ![o].status = "started"]
  /\ UNCHANGED <<droneVars, permissions, missions, violations, now>>

-----------------------------------------------------------------------------
(* Flight permissions, mission insurance, violations. *)

\* Mutant: the order is not saved with its FlightPermissionID.
RequestFlightPermissionUnlinked(role, o, from, to) ==
  /\ assertRole(role, {"aggregator", "operator"})
  /\ orders[o] # None
  /\ permissions[o] = None
  /\ permissions' = [permissions EXCEPT
                       ![o] = [status |-> "requested", from |-> from, to |-> to]]
  /\ UNCHANGED <<droneVars, orders, missions, violations, now>>

RequestFlightPermission(role, o, from, to) ==
  /\ assertRole(role, {"aggregator", "operator"})
  /\ orders[o] # None
  /\ permissions[o] = None
  /\ orders' = [orders EXCEPT ![o].hasPermission = TRUE]
  /\ permissions' = [permissions EXCEPT
                       ![o] = [status |-> "requested", from |-> from, to |-> to]]
  /\ UNCHANGED <<droneVars, missions, violations, now>>

\* Mutant: a decided permission can be approved.
ApproveFlightPermissionAnytime(role, o) ==
  /\ assertRole(role, {"orvd"})
  /\ permissions[o] # None
  /\ permissions' = [permissions EXCEPT ![o].status = "approved"]
  /\ UNCHANGED <<droneVars, orders, missions, violations, now>>

ApproveFlightPermission(role, o) ==
  /\ assertRole(role, {"orvd"})
  /\ permissions[o] # None
  /\ permissions[o].status = "requested"
  /\ permissions' = [permissions EXCEPT ![o].status = "approved"]
  /\ UNCHANGED <<droneVars, orders, missions, violations, now>>

RejectFlightPermission(role, o) ==
  /\ assertRole(role, {"orvd"})
  /\ permissions[o] # None
  /\ permissions[o].status = "requested"
  /\ permissions' = [permissions EXCEPT ![o].status = "rejected"]
  /\ UNCHANGED <<droneVars, orders, missions, violations, now>>

CloseFlightPermission(role, o) ==
  /\ assertRole(role, {"operator", "aggregator"})
  /\ permissions[o] # None
  /\ permissions[o].status = "approved"
  /\ permissions' = [permissions EXCEPT ![o].status = "closed"]
  /\ UNCHANGED <<droneVars, orders, missions, violations, now>>

CreateMissionInsurance(role, m, o, d) ==
  /\ assertRole(role, {"insurer"})
  /\ insurance[d] # None
  /\ insurance[d].status = "active"
  /\ missions[m] = None
  /\ missions' = [missions EXCEPT
                    ![m] = [order |-> o, drone |-> d, status |-> "active"]]
  /\ UNCHANGED <<droneVars, orders, permissions, violations, now>>

UpdateMissionInsuranceStatus(role, m, status) ==
  /\ assertRole(role, {"insurer"})
  /\ status \in MissionStatus
  /\ missions[m] # None
  /\ missions' = [missions EXCEPT ![m].status = status]
  /\ UNCHANGED <<droneVars, orders, permissions, violations, now>>

ReportViolation(role, o) ==
  /\ assertRole(role, {"regulator"})
  /\ orders[o] # None
  /\ violations' = violations \cup {o}
  /\ UNCHANGED <<droneVars, orders, permissions, missions, now>>

Tick ==
  /\ now < MaxTime
  /\ now' = now + 1
  /\ UNCHANGED <<orderVars, droneVars>>

-----------------------------------------------------------------------------
DroneNext(role) ==
  \/ \E f \in Firmwares, s \in SUBSET Objectives :
       CertifyFirmware(role, f, s) \/ UpdateFirmware(role, f, s)
  \/ \E f \in Firmwares : RevokeFirmwareCertification(role, f)
  \/ \E c \in TypeCertificates : IssueTypeCertificate(role, c)
  \/ \E d \in Drones, f \in Firmwares, c \in TypeCertificates :
       CreateDronePass(role, d, f, c) \/ UpdateDronePass(role, d, f, c)
  \/ \E d \in Drones : DeleteDronePass(role, d)
  \/ \E d \in Drones, n \in IncidentCount :
       CreateInsuranceRecord(role, d, n) \/ UpdateIncidentCount(role, d, n)
  \/ \E d \in Drones, s \in InsuranceStatus : UpdateInsuranceStatus(role, d, s)

OrderNext(role, o) ==
  \/ \E op \in Operators, d \in Drones :
       CreateOrder(role, o, op, d) \/ AssignOrder(role, o, op, d)
  \/ ApproveOrder(role, o)
  \/ ConfirmOrder(role, o)
  \/ \E t \in 1 .. now : StartOrder(role, o, t)
  \/ FinishOrder(role, o)
  \/ FinalizeOrder(role, o)
  \/ \E op \in Operators : DistributeFunds(role, o, op)
  \/ ReportViolation(role, o)

PermissionNext(role, o) ==
  \/ \E from, to \in Time : RequestFlightPermission(role, o, from, to)
  \/ ApproveFlightPermission(role, o)
  \/ RejectFlightPermission(role, o)
  \/ CloseFlightPermission(role, o)

MissionNext(role, m) ==
  \/ \E o \in Orders, d \in Drones : CreateMissionInsurance(role, m, o, d)
  \/ \E s \in MissionStatus : UpdateMissionInsuranceStatus(role, m, s)

Next ==
  \/ \E role \in Roles :
       \/ DroneNext(role)
       \/ \E o \in Orders : OrderNext(role, o) \/ PermissionNext(role, o)
       \/ \E m \in Missions : MissionNext(role, m)
  \/ Tick

Spec == Init /\ [][Next]_vars

-----------------------------------------------------------------------------
(* Properties. *)

Started(o) == orders[o] # None /\ orders[o].status = "started"

\* An order is in the started status only if the air-traffic authority
\* approved its flight permission; the permission may have been closed since,
\* but it is not pending and was not rejected.  No status guard of the
\* contract helps: the link goes through FlightPermissionID alone.
FlightUnderApproval ==
  \A o \in Orders :
    Started(o) => /\ permissions[o] # None
                  /\ permissions[o].status \in {"approved", "closed"}

\* FlightPermissionID and the permission record are written by one
\* transaction to two keys: an order has the id exactly if the record exists.
PermissionLinked ==
  \A o \in Orders :
    (permissions[o] # None) <=> (orders[o] # None /\ orders[o].hasPermission)

\* A mission policy was written against a general policy of the same drone,
\* and general policies are never deleted, only expired or cancelled.
MissionHasGeneralPolicy ==
  \A m \in Missions :
    missions[m] # None => insurance[missions[m].drone] # None

\* The promise to the outside: module FlightClearance.
Clearance(o) == IF permissions[o] = None THEN "none" ELSE permissions[o].status

FC == INSTANCE FlightClearance
        WITH Flights <- Orders,
             clearance <- [o \in Orders |-> Clearance(o)],
             airborne <- {o \in Orders : Started(o)}

\* The contract implements the flight clearance protocol.
ImplementsClearance == FC!Spec

\* The starting of order o as a step.
Starts(o) == ~Started(o) /\ Started(o)'
=============================================================================
