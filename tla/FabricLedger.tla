---------------------------- MODULE FabricLedger ----------------------------
(***************************************************************************)
(* How transactions of the chaincode reach the ledger.  fabric-proxy hands *)
(* an invoke to SubmitTransaction: a peer simulates the chaincode against  *)
(* its current state and records the version of every key read and the     *)
(* value of every key written; the orderer sequences what was simulated;   *)
(* at commit the peer discards a transaction one of whose reads is stale.  *)
(* Several proxies submit at once, and a proxy or the ledger gateway that  *)
(* timed out leaves its transaction in flight.                             *)
(*                                                                         *)
(* The chaincode's part of a simulation (guards, keys, values) is from     *)
(* src/; the ledger's part (Propose, Commit, Discard) is Fabric's.  Left   *)
(* out: the roles, which do not depend on the ledger, and violations.      *)
(***************************************************************************)
EXTENDS OrderContract, FiniteSets

CONSTANTS Families,   \* the families of transactions submitted: see Simulate
          MaxVersion, \* bound on the version of a key
          MaxInFlight \* bound on the transactions simulated, not yet committed

ASSUME FabricAssumption ==
  /\ Families \subseteq {"orders", "policies", "passes"}
  /\ MaxVersion \in Nat
  /\ MaxInFlight \in Nat

VARIABLES version,   \* key -> number of commits that wrote it
          inFlight,  \* the transactions simulated and not yet validated
          family     \* the family submitted in this behaviour: the families
                     \* share no key, so their steps commute

fabricVars == <<vars, version, inFlight, family>>

OrderKey(o) == <<"order", o>>
PermissionKey(o) == <<"flight_permission", o>>
MissionKey(m) == <<"mission_insurance", m>>
InsuranceKey(d) == <<"insurance", d>>
PassKey(d) == <<"drone_pass", d>>
FirmwareKey(f) == <<"firmware", f>>
CertificateKey(c) == <<"type_certificate", c>>

Keys == {OrderKey(o) : o \in Orders} \cup {PermissionKey(o) : o \in Orders}
        \cup {MissionKey(m) : m \in Missions}
        \cup {InsuranceKey(d) : d \in Drones} \cup {PassKey(d) : d \in Drones}
        \cup {FirmwareKey(f) : f \in Firmwares}
        \cup {CertificateKey(c) : c \in TypeCertificates}

FabricTypeOK ==
  /\ family \in Families
  /\ version \in [Keys -> 0 .. MaxVersion]
  /\ Cardinality(inFlight) <= MaxInFlight
  /\ \A tx \in inFlight :
       /\ DOMAIN tx.reads \subseteq Keys
       /\ DOMAIN tx.writes \subseteq Keys
       /\ \A k \in DOMAIN tx.reads : tx.reads[k] \in 0 .. MaxVersion

FabricInit ==
  /\ Init
  /\ version = [k \in Keys |-> 0]
  /\ inFlight = {}
  /\ family \in Families

\* A simulation that ended without an error.
Propose(readSet, writes) ==
  /\ Cardinality(inFlight) < MaxInFlight
  /\ inFlight' = inFlight \cup
                   {[reads |-> [k \in readSet |-> version[k]], writes |-> writes]}
  /\ UNCHANGED <<vars, version>>

\* Validation at commit: every key read still has the version it was read at.
Valid(tx) == \A k \in DOMAIN tx.reads : version[k] = tx.reads[k]

Written(tx, k, old) == IF k \in DOMAIN tx.writes THEN tx.writes[k] ELSE old

Commit(tx) ==
  /\ Valid(tx)
  /\ \A k \in DOMAIN tx.writes : version[k] < MaxVersion
  /\ orders' = [o \in Orders |-> Written(tx, OrderKey(o), orders[o])]
  /\ permissions' =
       [o \in Orders |-> Written(tx, PermissionKey(o), permissions[o])]
  /\ missions' = [m \in Missions |-> Written(tx, MissionKey(m), missions[m])]
  /\ insurance' = [d \in Drones |-> Written(tx, InsuranceKey(d), insurance[d])]
  /\ passes' = [d \in Drones |-> Written(tx, PassKey(d), passes[d])]
  /\ firmware' = [f \in Firmwares |-> Written(tx, FirmwareKey(f), firmware[f])]
  /\ certificates' = certificates \cup
                       {c \in TypeCertificates : CertificateKey(c) \in DOMAIN tx.writes}
  /\ version' = [k \in Keys |-> IF k \in DOMAIN tx.writes
                                THEN version[k] + 1 ELSE version[k]]
  /\ inFlight' = inFlight \ {tx}
  /\ UNCHANGED <<violations, now>>

Discard(tx) ==
  /\ ~Valid(tx)
  /\ inFlight' = inFlight \ {tx}
  /\ UNCHANGED <<vars, version>>

-----------------------------------------------------------------------------
(* Simulations.  What a transaction writes is computed from the state now  *)
(* and written later.                                                      *)

\* The write set of a transaction that puts, or deletes, one key.
PutState(k, value) == [key \in {k} |-> value]

\* Mutant: the order comes from a cache, not from a read of the ledger.
ProposeOrderBlind(o, new) == Propose({}, PutState(OrderKey(o), new))

ProposeOrder(o, new) == Propose({OrderKey(o)}, PutState(OrderKey(o), new))

SimCreateOrder(o, op, d) ==
  /\ orders[o] = None
  /\ ProposeOrder(o, [status |-> "created", operator |-> op, drone |-> d,
                      payee |-> op, hasPermission |-> FALSE])

SimAssignOrder(o, op, d) ==
  /\ orders[o] # None
  /\ ProposeOrder(o, [orders[o] EXCEPT !.operator = op, !.drone = d,
                                       !.status = "assigned"])

\* ConfirmOrder writes back the whole order it read.
SimConfirmOrder(o) ==
  /\ orders[o] # None
  /\ ProposeOrder(o, [orders[o] EXCEPT !.status = "confirmed"])

SimFinishOrder(o) ==
  /\ orders[o] # None
  /\ ProposeOrder(o, [orders[o] EXCEPT !.status = "finished"])

\* Mutant: the permission is not read from the ledger.
SimStartOrderCached(o) ==
  /\ orders[o] # None
  /\ orders[o].hasPermission
  /\ permissions[o] # None
  /\ permissions[o].status = "approved"
  /\ permissions[o].from <= now
  /\ now <= permissions[o].to
  /\ Propose({OrderKey(o)},
             PutState(OrderKey(o), [orders[o] EXCEPT !.status = "started"]))

SimStartOrder(o) ==
  /\ orders[o] # None
  /\ orders[o].hasPermission
  /\ permissions[o] # None
  /\ permissions[o].status = "approved"
  /\ permissions[o].from <= now
  /\ now <= permissions[o].to
  /\ Propose({OrderKey(o), PermissionKey(o)},
             PutState(OrderKey(o), [orders[o] EXCEPT !.status = "started"]))

SimRequestFlightPermission(o, from, to) ==
  /\ orders[o] # None
  /\ permissions[o] = None
  /\ Propose({OrderKey(o), PermissionKey(o)},
             [k \in {OrderKey(o), PermissionKey(o)} |->
                IF k = OrderKey(o) THEN [orders[o] EXCEPT !.hasPermission = TRUE]
                ELSE [status |-> "requested", from |-> from, to |-> to]])

\* Approve, Reject and Close read and write the permission only.
SimPermission(o, from, to) ==
  /\ permissions[o] # None
  /\ permissions[o].status = from
  /\ Propose({PermissionKey(o)},
             PutState(PermissionKey(o), [permissions[o] EXCEPT !.status = to]))

SimCreateInsuranceRecord(d) ==
  /\ insurance[d] = None
  /\ Propose({InsuranceKey(d)},
             PutState(InsuranceKey(d), [status |-> "active", incidents |-> 0]))

SimUpdateInsuranceStatus(d, status) ==
  /\ insurance[d] # None
  /\ Propose({InsuranceKey(d)},
             PutState(InsuranceKey(d), [insurance[d] EXCEPT !.status = status]))

SimCreateMissionInsurance(m, o, d) ==
  /\ insurance[d] # None
  /\ insurance[d].status = "active"
  /\ missions[m] = None
  /\ Propose({InsuranceKey(d), MissionKey(m)},
             PutState(MissionKey(m), [order |-> o, drone |-> d, status |-> "active"]))

SimCertifyFirmware(f) ==
  /\ firmware[f] = None
  /\ Propose({FirmwareKey(f)}, PutState(FirmwareKey(f), {}))

SimRevokeFirmware(f) ==
  /\ firmware[f] # None
  /\ Propose({FirmwareKey(f)}, PutState(FirmwareKey(f), None))

SimIssueTypeCertificate(c) ==
  /\ c \notin certificates
  /\ Propose({CertificateKey(c)}, PutState(CertificateKey(c), TRUE))

SimCreateDronePass(d, f, c) ==
  /\ passes[d] = None
  /\ c \in certificates
  /\ firmware[f] # None
  /\ Propose({PassKey(d), CertificateKey(c), FirmwareKey(f)},
             PutState(PassKey(d), [firmware |-> f, certificate |-> c]))

SimDeleteDronePass(d) ==
  /\ passes[d] # None
  /\ Propose({PassKey(d)}, PutState(PassKey(d), None))

-----------------------------------------------------------------------------
SimulateOrders ==
  \/ \E o \in Orders, op \in Operators, d \in Drones :
       SimCreateOrder(o, op, d) \/ SimAssignOrder(o, op, d)
  \/ \E o \in Orders :
       \/ SimConfirmOrder(o) \/ SimStartOrder(o) \/ SimFinishOrder(o)
       \/ SimPermission(o, "requested", "approved")
       \/ SimPermission(o, "requested", "rejected")
       \/ SimPermission(o, "approved", "closed")
  \/ \E o \in Orders, from, to \in Time : SimRequestFlightPermission(o, from, to)

SimulatePolicies ==
  \/ \E d \in Drones : SimCreateInsuranceRecord(d)
  \/ \E d \in Drones, s \in InsuranceStatus : SimUpdateInsuranceStatus(d, s)
  \/ \E m \in Missions, o \in Orders, d \in Drones :
       SimCreateMissionInsurance(m, o, d)

SimulatePasses ==
  \/ \E f \in Firmwares : SimCertifyFirmware(f) \/ SimRevokeFirmware(f)
  \/ \E c \in TypeCertificates : SimIssueTypeCertificate(c)
  \/ \E d \in Drones, f \in Firmwares, c \in TypeCertificates :
       SimCreateDronePass(d, f, c)
  \/ \E d \in Drones : SimDeleteDronePass(d)

Simulate ==
  \/ family = "orders" /\ SimulateOrders
  \/ family = "policies" /\ SimulatePolicies
  \/ family = "passes" /\ SimulatePasses

PeerClock == Tick /\ UNCHANGED <<version, inFlight>>

FabricNext ==
  /\ \/ Simulate
     \/ \E tx \in inFlight : Commit(tx) \/ Discard(tx)
     \/ PeerClock
  /\ UNCHANGED family

FabricSpec == FabricInit /\ [][FabricNext]_fabricVars

-----------------------------------------------------------------------------
\* Whatever was in flight together, the committed transactions are those of
\* some one-at-a-time execution of the chaincode: no confirmation brings back
\* the drone an assignment replaced, no retry resets a decided permission.
Serializable == Spec

\* An order enters the started status only while its permission is approved
\* on the ledger, although the permission was read when the transaction was
\* simulated and may have been closed before the commit.
StartUnderOpenApproval ==
  [][\A o \in Orders : Starts(o) => permissions[o].status = "approved"]_fabricVars
=============================================================================
