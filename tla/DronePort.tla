----------------------------- MODULE DronePort -----------------------------
(***************************************************************************)
(* systems/drone_port: how a drone gets a landing port, a charge and a     *)
(* permission to take off.  Five components, each the consumer of its own  *)
(* topic: DroneManager asks PortManager (which asks StateStore) and        *)
(* DroneRegistry and waits for the answers; reservations, registrations,   *)
(* charge reports and port releases are published without an answer.       *)
(*                                                                         *)
(* Broker "kafka": one consumer thread per topic runs the handler inline,  *)
(* so a component takes its messages in order and takes none while its     *)
(* handler waits for an answer.  Broker "mqtt": a thread pool runs the     *)
(* handlers, so messages are taken in any order and handlers overlap.      *)
(*                                                                         *)
(* where and charge are the physical truth, kept to be compared with what  *)
(* StateStore and DroneRegistry say; haunted remembers for the properties  *)
(* what a standing drone's record has been through.                        *)
(***************************************************************************)
EXTENDS Naturals, Sequences, SequencesExt

CONSTANTS Drones,
          PortOrder,      \* DEFAULT_PORTS: the port ids in their order
          DemoDrone,      \* the drone seeded in the first port
          None,           \* no drone / no port / no value
          Broker,         \* "kafka" or "mqtt"
          Impatience,     \* the possible values of impatient
          Reports,        \* the battery levels drones report when they land
          EarlyDeparture, \* do drones ask to leave before they are full? (None
                          \* of them does when somebody is impatient.)
          MaxRequests,    \* bound on the requests ever made ...
          MaxImpatient    \* ... and when somebody is impatient

\* Charge: 0 is 60% or less, 1 is more than 60%, 2 is 100%.
Charge == 0 .. 2
Full == 2

ASSUME DronePortAssumption ==
  /\ Broker \in {"kafka", "mqtt"}
  /\ Impatience \subseteq SUBSET {"landing", "takeoff", "components"}
  /\ Reports \subseteq Charge \cup {None}
  /\ EarlyDeparture \in BOOLEAN
  /\ DemoDrone \in Drones
  /\ PortOrder \in Seq(ToSet(PortOrder)) \ {<<>>}
  /\ MaxRequests \in Nat /\ MaxImpatient \in Nat

Ports == ToSet(PortOrder)
Requests == 1 .. MaxRequests
PortTable == [Ports -> Drones \cup {None}]

Components == {"drone_manager", "port_manager", "state_store",
               "drone_registry", "charging_manager"}

VARIABLES impatient, \* whose bus requests time out: drones that ask for
                    \* "landing" or "takeoff", the "components"
          ports,    \* StateStore: port -> its drone_id or None
          registry, \* DroneRegistry: drone -> record or None
          inbox,    \* component -> messages its topic holds
          request,  \* request id -> what a drone asked, or None
          dm,       \* request -> where DroneManager's handler stands
          pm,       \* request -> where PortManager's handler stands
          snapshot, \* request -> StateStore's answer to PortManager
          answer,   \* request -> PortManager's answer to DroneManager
          record,   \* request -> DroneRegistry's answer to DroneManager
          charging, \* request -> level of the charging thread it started
          asked,    \* drone -> the request it waits for, or None
          where,    \* drone -> the port it stands in, None in the air
          charge,   \* drone -> its real charge
          session,  \* drone -> the landing it is charged for, or None
          haunted   \* the drones to which the charging thread of another
                    \* landing has reported since they landed

handlerVars == <<dm, pm, snapshot, answer, record>>
worldVars == <<asked, where, charge, session, haunted>>
vars == <<impatient, ports, registry, inbox, request, handlerVars, charging, worldVars>>

Registration == [port : Ports \cup {None}, battery : Charge \cup {None},
                 status : {"new", "charging", "ready"}]
Query == [kind : {"request_landing", "request_takeoff"}, drone : Drones,
          battery : Charge \cup {None}]

ASSUME NoneAssumption ==
  /\ None \notin Drones /\ None \notin Ports
  /\ None \notin Charge /\ None \notin Requests
  /\ None # "No free ports" /\ "No free ports" \notin Ports
  /\ \A t \in PortTable : t # None
  /\ \A x \in Registration : x # None
  /\ \A q \in Query : q # None

Waiting == {"port", "ports", "drone"}

TypeOK ==
  /\ impatient \in Impatience
  /\ ports \in PortTable
  /\ registry \in [Drones -> Registration \cup {None}]
  /\ DOMAIN inbox = Components
  /\ dm \in [Requests -> {"none", "inbox", "done"} \cup Waiting]
  /\ pm \in [Requests -> {"none", "inbox", "waiting", "done"}]
  /\ charging \in [Requests -> Charge \cup {None}]
  /\ asked \in [Drones -> Requests \cup {None}]
  /\ where \in [Drones -> Ports \cup {None}]
  /\ charge \in [Drones -> Charge]
  /\ haunted \subseteq Drones

\* Both stores seed the demo drone, fully charged, in the first port.
Init ==
  /\ impatient \in Impatience
  /\ ports = [p \in Ports |-> IF p = PortOrder[1] THEN DemoDrone ELSE None]
  /\ registry = [d \in Drones |->
                   IF d = DemoDrone
                   THEN [port |-> PortOrder[1], battery |-> Full, status |-> "ready"]
                   ELSE None]
  /\ inbox = [c \in Components |-> <<>>]
  /\ request = [r \in Requests |-> None]
  /\ dm = [r \in Requests |-> "none"]
  /\ pm = [r \in Requests |-> "none"]
  /\ snapshot = [r \in Requests |-> None]
  /\ answer = [r \in Requests |-> None]
  /\ record = [r \in Requests |-> None]
  /\ charging = [r \in Requests |-> None]
  /\ asked = [d \in Drones |-> None]
  /\ where = [d \in Drones |-> IF d = DemoDrone THEN PortOrder[1] ELSE None]
  /\ charge = [d \in Drones |-> Full]
  /\ session = [d \in Drones |-> None]
  /\ haunted = {}

-----------------------------------------------------------------------------
(* The broker. *)

Busy(c) == \/ c = "drone_manager" /\ \E r \in Requests : dm[r] \in Waiting
           \/ c = "port_manager" /\ \E r \in Requests : pm[r] = "waiting"

\* Component c takes the i-th message of its topic, which has this action.
Takes(c, i, action) ==
  /\ i \in DOMAIN inbox[c]
  /\ inbox[c][i].action = action
  /\ Broker = "kafka" => i = 1 /\ ~Busy(c)

\* ... and publishes msgs[k] to each component k it publishes to.
TakeAndPublish(c, i, msgs) ==
  inbox' = [k \in Components |->
              (IF k = c THEN RemoveAt(inbox[k], i) ELSE inbox[k])
                \o (IF k \in DOMAIN msgs THEN msgs[k] ELSE <<>>)]

Publish(msgs) ==
  inbox' = [k \in Components |->
              inbox[k] \o (IF k \in DOMAIN msgs THEN msgs[k] ELSE <<>>)]

Nothing == [k \in {} |-> <<>>]

-----------------------------------------------------------------------------
(* The drones. *)

\* Request identifiers are taken in order.
Fresh(r) == /\ request[r] = None
            /\ impatient # {} => r <= MaxImpatient
            /\ \A q \in Requests : q < r => request[q] # None

Ask(r, d, kind, battery) ==
  /\ Fresh(r)
  /\ asked[d] = None
  /\ request' = [request EXCEPT
                   ![r] = [kind |-> kind, drone |-> d, battery |-> battery]]
  /\ dm' = [dm EXCEPT ![r] = "inbox"]
  /\ asked' = [asked EXCEPT ![d] = r]
  /\ Publish([drone_manager |-> <<[action |-> kind, req |-> r]>>])
  /\ UNCHANGED <<ports, registry, pm, snapshot, answer, record, charging,
                 where, charge, session, haunted>>

\* battery is None when the drone reports none that parses.
AskLanding(r, d, battery) ==
  /\ where[d] = None
  /\ Ask(r, d, "request_landing", battery)

AskTakeoff(r, d) ==
  /\ where[d] # None
  /\ (EarlyDeparture /\ impatient = {}) \/ charge[d] = Full
  /\ Ask(r, d, "request_takeoff", None)

\* The drone's own bus request timed out; it may ask again.
DroneGivesUp(d) ==
  /\ asked[d] # None
  /\ \/ "landing" \in impatient /\ request[asked[d]].kind = "request_landing"
     \/ "takeoff" \in impatient /\ request[asked[d]].kind = "request_takeoff"
  /\ asked' = [asked EXCEPT ![d] = None]
  /\ UNCHANGED <<ports, registry, inbox, request, handlerVars, charging,
                 where, charge, session, haunted>>

\* DroneManager's reply, which a drone that gave up no longer gets.
Hears(r) == asked[request[r].drone] = r

Refuse(r) ==
  /\ dm' = [dm EXCEPT ![r] = "done"]
  /\ asked' = IF Hears(r) THEN [asked EXCEPT ![request[r].drone] = None]
                          ELSE asked
  /\ UNCHANGED <<where, charge, session, haunted>>

ApproveLanding(r, p) ==
  LET d == request[r].drone
  IN /\ dm' = [dm EXCEPT ![r] = "done"]
     /\ IF Hears(r)
        THEN /\ asked' = [asked EXCEPT ![d] = None]
             /\ where' = [where EXCEPT ![d] = p]
             /\ charge' = [charge EXCEPT ![d] = IF request[r].battery = None
                                               THEN 0 ELSE request[r].battery]
             /\ session' = [session EXCEPT ![d] = r]
             /\ haunted' = haunted \ {d}
        ELSE UNCHANGED worldVars

ApproveTakeoff(r) ==
  LET d == request[r].drone
  IN /\ dm' = [dm EXCEPT ![r] = "done"]
     /\ IF Hears(r)
        THEN /\ asked' = [asked EXCEPT ![d] = None]
             /\ where' = [where EXCEPT ![d] = None]
             /\ session' = [session EXCEPT ![d] = None]
             /\ haunted' = haunted \ {d}
             /\ UNCHANGED charge
        ELSE UNCHANGED worldVars

-----------------------------------------------------------------------------
(* DroneManager. *)

\* _handle_landing up to its request to PortManager.
HandleLanding(i) ==
  /\ Takes("drone_manager", i, "request_landing")
  /\ LET r == inbox["drone_manager"][i].req
     IN /\ dm' = [dm EXCEPT ![r] = "port"]
        /\ pm' = [pm EXCEPT ![r] = "inbox"]
        /\ TakeAndPublish("drone_manager", i,
             [port_manager |-> <<[action |-> "request_landing", req |-> r]>>])
  /\ UNCHANGED <<ports, registry, request, snapshot, answer, record, charging,
                 worldVars>>

\* The port came: register the drone, report its battery, start charging it.
LandingApproved(r) ==
  /\ dm[r] = "port"
  /\ answer[r] \in Ports
  /\ LET d == request[r].drone
         b == request[r].battery
         register == [action |-> "register_drone", drone |-> d, port |-> answer[r]]
         report == [action |-> "update_battery", drone |-> d, battery |-> b]
     IN Publish([drone_registry |->
                   IF b = None THEN <<register>> ELSE <<register, report>>,
                 charging_manager |->
                   IF b \in {None, Full} THEN <<>>
                   ELSE <<[action |-> "start_charging", req |-> r]>>])
  /\ ApproveLanding(r, answer[r])
  /\ UNCHANGED <<ports, registry, request, pm, snapshot, answer, record, charging>>

LandingRefused(r) ==
  /\ dm[r] = "port"
  /\ answer[r] = "No free ports"
  /\ Refuse(r)
  /\ UNCHANGED <<ports, registry, inbox, request, pm, snapshot, answer, record,
                 charging>>

\* The request to PortManager timed out: the drone is refused.
LandingTimeout(r) ==
  /\ "components" \in impatient
  /\ dm[r] = "port"
  /\ Refuse(r)
  /\ UNCHANGED <<ports, registry, inbox, request, pm, snapshot, answer, record,
                 charging>>

\* _handle_takeoff up to its first request.
HandleTakeoff(i) ==
  /\ Takes("drone_manager", i, "request_takeoff")
  /\ LET r == inbox["drone_manager"][i].req
     IN /\ dm' = [dm EXCEPT ![r] = "ports"]
        /\ pm' = [pm EXCEPT ![r] = "inbox"]
        /\ TakeAndPublish("drone_manager", i,
             [port_manager |-> <<[action |-> "get_port_status", req |-> r]>>])
  /\ UNCHANGED <<ports, registry, request, snapshot, answer, record, charging,
                 worldVars>>

\* With or without the ports (on a timeout there are none), ask the registry.
TakeoffPorts(r) ==
  /\ dm[r] = "ports"
  /\ "components" \in impatient \/ answer[r] # None
  /\ dm' = [dm EXCEPT ![r] = "drone"]
  /\ Publish([drone_registry |-> <<[action |-> "get_drone", req |-> r]>>])
  /\ UNCHANGED <<ports, registry, request, pm, snapshot, answer, record, charging,
                 worldVars>>

\* Mutant: the first port of the table, whoever stands in it.
TakeoffPortFirst(r) == PortOrder[1]

\* The port to free is the registry's, else the one StateStore knows.
TakeoffPort(r) ==
  LET seen == {p \in Ports : answer[r] # None /\ answer[r][p] = request[r].drone}
  IN IF record[r].port # None THEN record[r].port
     ELSE IF seen # {} THEN CHOOSE p \in seen : TRUE
     ELSE None

\* Mutant: the port is not freed.
TakeoffApprovedKeeping(r) ==
  /\ dm[r] = "drone"
  /\ record[r] # None
  /\ record[r].battery \notin {None, 0}
  /\ ApproveTakeoff(r)
  /\ UNCHANGED <<ports, registry, inbox, request, pm, snapshot, answer, record,
                 charging>>

\* Mutant: the battery is not looked at.
TakeoffApprovedUncharged(r) ==
  /\ dm[r] = "drone"
  /\ record[r] # None
  /\ Publish([port_manager |-> <<[action |-> "free_slot", port |-> TakeoffPort(r)]>>])
  /\ ApproveTakeoff(r)
  /\ UNCHANGED <<ports, registry, request, pm, snapshot, answer, record, charging>>

TakeoffApproved(r) ==
  /\ dm[r] = "drone"
  /\ record[r] # None
  /\ record[r].battery \notin {None, 0}
  /\ Publish([port_manager |-> <<[action |-> "free_slot", port |-> TakeoffPort(r)]>>])
  /\ ApproveTakeoff(r)
  /\ UNCHANGED <<ports, registry, request, pm, snapshot, answer, record, charging>>

\* An unknown or a low battery, or no answer in time.
TakeoffRefused(r) ==
  /\ dm[r] = "drone"
  /\ \/ "components" \in impatient
     \/ record[r] # None /\ record[r].battery \in {None, 0}
  /\ Refuse(r)
  /\ UNCHANGED <<ports, registry, inbox, request, pm, snapshot, answer, record,
                 charging>>

-----------------------------------------------------------------------------
(* PortManager. *)

\* Both of its queries start by asking StateStore for all ports.
AskPorts(i, action) ==
  /\ Takes("port_manager", i, action)
  /\ LET r == inbox["port_manager"][i].req
     IN /\ pm' = [pm EXCEPT ![r] = "waiting"]
        /\ TakeAndPublish("port_manager", i,
             [state_store |-> <<[action |-> "get_all_ports", req |-> r]>>])
  /\ UNCHANGED <<ports, registry, request, dm, snapshot, answer, record, charging,
                 worldVars>>

HandleRequestLanding(i) == AskPorts(i, "request_landing")
HandleGetPortStatus(i) == AskPorts(i, "get_port_status")

\* PortManager answers DroneManager, which may have stopped waiting.
Reply(r, value) ==
  /\ pm' = [pm EXCEPT ![r] = "done"]
  /\ answer' = IF dm[r] \in {"port", "ports"}
               THEN [answer EXCEPT ![r] = value] ELSE answer

\* free_ports[0]
FirstFree(ps, p) ==
  \E i \in DOMAIN PortOrder :
    /\ p = PortOrder[i] /\ ps[p] = None
    /\ \A j \in 1 .. i - 1 : ps[PortOrder[j]] # None

\* Mutant: the port is given without being reserved.
ReservePortUnreserved(r) ==
  /\ pm[r] = "waiting"
  /\ request[r].kind = "request_landing"
  /\ snapshot[r] # None
  /\ \E p \in Ports : FirstFree(snapshot[r], p) /\ Reply(r, p)
  /\ UNCHANGED <<ports, registry, inbox, request, dm, snapshot, record, charging,
                 worldVars>>

\* The first free port is reserved by a publication nobody confirms, and
\* given to the drone.
ReservePort(r) ==
  /\ pm[r] = "waiting"
  /\ request[r].kind = "request_landing"
  /\ snapshot[r] # None
  /\ \E p \in Ports :
       /\ FirstFree(snapshot[r], p)
       /\ Publish([state_store |-> <<[action |-> "update_port", port |-> p,
                                      drone |-> request[r].drone]>>])
       /\ Reply(r, p)
  /\ UNCHANGED <<ports, registry, request, dm, snapshot, record, charging, worldVars>>

\* No free port, or no answer from StateStore in time.
NoFreePorts(r) ==
  /\ pm[r] = "waiting"
  /\ request[r].kind = "request_landing"
  /\ \/ "components" \in impatient
     \/ snapshot[r] # None /\ \A p \in Ports : snapshot[r][p] # None
  /\ Reply(r, "No free ports")
  /\ UNCHANGED <<ports, registry, inbox, request, dm, snapshot, record, charging,
                 worldVars>>

\* Mutant: the status is not returned.
PortStatusSilent(r) ==
  /\ pm[r] = "waiting"
  /\ request[r].kind = "request_takeoff"
  /\ snapshot[r] # None
  /\ pm' = [pm EXCEPT ![r] = "done"]
  /\ UNCHANGED <<ports, registry, inbox, request, dm, snapshot, answer, record,
                 charging, worldVars>>

\* On a timeout the status lists no port.
PortStatus(r) ==
  /\ pm[r] = "waiting"
  /\ request[r].kind = "request_takeoff"
  /\ \/ snapshot[r] # None /\ Reply(r, snapshot[r])
     \/ "components" \in impatient /\ Reply(r, [p \in Ports |-> None])
  /\ UNCHANGED <<ports, registry, inbox, request, dm, snapshot, record, charging,
                 worldVars>>

\* _handle_free_slot clears the port without looking who stands in it.
HandleFreeSlot(i) ==
  /\ Takes("port_manager", i, "free_slot")
  /\ LET p == inbox["port_manager"][i].port
     IN TakeAndPublish("port_manager", i,
          IF p = None THEN Nothing
          ELSE [state_store |-> <<[action |-> "update_port", port |-> p,
                                   drone |-> None]>>])
  /\ UNCHANGED <<ports, registry, request, handlerVars, charging, worldVars>>

-----------------------------------------------------------------------------
(* StateStore. *)

HandleGetAllPorts(i) ==
  /\ Takes("state_store", i, "get_all_ports")
  /\ LET r == inbox["state_store"][i].req
     IN snapshot' = IF pm[r] = "waiting" THEN [snapshot EXCEPT ![r] = ports]
                                         ELSE snapshot
  /\ TakeAndPublish("state_store", i, Nothing)
  /\ UNCHANGED <<ports, registry, request, dm, pm, answer, record, charging,
                 worldVars>>

HandleUpdatePort(i) ==
  /\ Takes("state_store", i, "update_port")
  /\ LET m == inbox["state_store"][i]
     IN ports' = [ports EXCEPT ![m.port] = m.drone]
  /\ TakeAndPublish("state_store", i, Nothing)
  /\ UNCHANGED <<registry, request, handlerVars, charging, worldVars>>

-----------------------------------------------------------------------------
(* DroneRegistry.  Redis hset creates the record it is given fields of. *)

FieldsOf(d) == IF registry[d] = None
               THEN [port |-> None, battery |-> None, status |-> "new"]
               ELSE registry[d]

TakeRegistry(i, action, write) ==
  /\ Takes("drone_registry", i, action)
  /\ registry' = [registry EXCEPT ![inbox["drone_registry"][i].drone] = write]
  /\ TakeAndPublish("drone_registry", i, Nothing)
  /\ UNCHANGED <<ports, request, handlerVars, charging, worldVars>>

HandleRegisterDrone(i) ==
  TakeRegistry(i, "register_drone",
    [port |-> inbox["drone_registry"][i].port, battery |-> None, status |-> "new"])

HandleUpdateBattery(i) ==
  LET m == inbox["drone_registry"][i]
  IN TakeRegistry(i, "update_battery",
       [FieldsOf(m.drone) EXCEPT
          !.battery = m.battery,
          !.status = IF m.battery = Full THEN "ready" ELSE "charging"])

HandleChargingStarted(i) ==
  TakeRegistry(i, "charging_started",
    [FieldsOf(inbox["drone_registry"][i].drone) EXCEPT !.status = "charging"])

\* "Drone not found" is, to DroneManager, a record without a battery.
HandleGetDrone(i) ==
  /\ Takes("drone_registry", i, "get_drone")
  /\ LET r == inbox["drone_registry"][i].req
         d == request[r].drone
     IN record' = IF dm[r] # "drone" THEN record
                  ELSE [record EXCEPT ![r] = FieldsOf(d)]
  /\ TakeAndPublish("drone_registry", i, Nothing)
  /\ UNCHANGED <<ports, registry, request, dm, pm, snapshot, answer, charging,
                 worldVars>>

-----------------------------------------------------------------------------
(* ChargingManager. *)

HandleStartCharging(i) ==
  /\ Takes("charging_manager", i, "start_charging")
  /\ LET r == inbox["charging_manager"][i].req
         d == request[r].drone
     IN /\ charging' = [charging EXCEPT ![r] = request[r].battery]
        /\ TakeAndPublish("charging_manager", i,
             [drone_registry |-> <<[action |-> "charging_started", drone |-> d]>>])
  /\ UNCHANGED <<ports, registry, request, handlerVars, worldVars>>

\* A charging thread gains a level and publishes it, wherever the drone is;
\* it charges the drone that is still standing where the thread was started.
ChargingStep(r) ==
  /\ charging[r] # None
  /\ charging[r] < Full
  /\ charging' = [charging EXCEPT ![r] = @ + 1]
  /\ LET d == request[r].drone
     IN /\ Publish([drone_registry |->
                      <<[action |-> "update_battery", drone |-> d,
                         battery |-> charging[r] + 1]>>])
        /\ charge' = IF session[d] = r
                     THEN [charge EXCEPT ![d] = charging[r] + 1] ELSE charge
        /\ haunted' = IF where[d] # None /\ session[d] # r
                      THEN haunted \cup {d} ELSE haunted
  /\ UNCHANGED <<ports, registry, request, handlerVars, asked, where, session>>

-----------------------------------------------------------------------------
DroneStep ==
  \/ \E r \in Requests, d \in Drones, b \in Reports : AskLanding(r, d, b)
  \/ \E r \in Requests, d \in Drones : AskTakeoff(r, d)
  \/ \E d \in Drones : DroneGivesUp(d)

ManagerStep ==
  \/ \E i \in DOMAIN inbox["drone_manager"] : HandleLanding(i) \/ HandleTakeoff(i)
  \/ \E r \in Requests :
       \/ LandingApproved(r) \/ LandingRefused(r) \/ LandingTimeout(r)
       \/ TakeoffPorts(r) \/ TakeoffApproved(r) \/ TakeoffRefused(r)

PortStep ==
  \/ \E i \in DOMAIN inbox["port_manager"] :
       HandleRequestLanding(i) \/ HandleGetPortStatus(i) \/ HandleFreeSlot(i)
  \/ \E r \in Requests : ReservePort(r) \/ NoFreePorts(r) \/ PortStatus(r)

StoreStep ==
  \E i \in DOMAIN inbox["state_store"] : HandleGetAllPorts(i) \/ HandleUpdatePort(i)

RegistryStep ==
  \E i \in DOMAIN inbox["drone_registry"] :
    \/ HandleRegisterDrone(i) \/ HandleUpdateBattery(i)
    \/ HandleChargingStarted(i) \/ HandleGetDrone(i)

ChargingManagerStep ==
  \E i \in DOMAIN inbox["charging_manager"] : HandleStartCharging(i)

Step ==
  \/ DroneStep \/ ManagerStep \/ PortStep \/ StoreStep \/ RegistryStep
  \/ ChargingManagerStep
  \/ \E r \in Requests : ChargingStep(r)

Next == Step /\ UNCHANGED impatient

Spec == Init /\ [][Next]_vars

\* Consumer and charging threads keep running; drones need not ask.
Fairness ==
  /\ WF_vars(ManagerStep /\ UNCHANGED impatient)
  /\ WF_vars(PortStep /\ UNCHANGED impatient)
  /\ WF_vars(StoreStep /\ UNCHANGED impatient)
  /\ WF_vars(RegistryStep /\ UNCHANGED impatient)
  /\ WF_vars(ChargingManagerStep /\ UNCHANGED impatient)
  /\ \A r \in Requests : WF_vars(ChargingStep(r) /\ UNCHANGED impatient)

FairSpec == Spec /\ Fairness

-----------------------------------------------------------------------------
(* Properties. *)

\* No two drones stand in one port.
NoSharedPort ==
  \A d, e \in Drones : where[d] # None /\ where[d] = where[e] => d = e

\* A message of StateStore's topic that writes port p.
Writes(m, p) == m.action = "update_port" /\ m.port = p

\* Port p will hold x when StateStore has caught up: the last write says so,
\* or there is none and p holds it.
WillHold(p, x) ==
  LET q == inbox["state_store"]
  IN \/ \E i \in DOMAIN q : /\ Writes(q[i], p) /\ q[i].drone = x
                            /\ \A j \in DOMAIN q : j > i => ~Writes(q[j], p)
     \/ ports[p] = x /\ \A i \in DOMAIN q : ~Writes(q[i], p)

\* A standing drone's port is its own, in StateStore or in a write on the way.
StandingIsReserved ==
  \A d \in Drones : where[d] # None => WillHold(where[d], d)

\* Nothing is on its way and no handler is running.
Quiet == /\ \A c \in Components : inbox[c] = <<>>
         /\ \A r \in Requests : dm[r] \in {"none", "done"} /\ pm[r] \in {"none", "done"}

\* Then the port table is the truth: no port is leaked, none is lost.  (A wait
\* that ends too early leaks one.)
QuietPortsAgree ==
  Quiet /\ impatient = {} =>
    \A p \in Ports : \A d \in Drones : ports[p] = d <=> where[d] = p

\* A drone leaves with 60% or less only if the charging thread of another
\* landing has reported its own level since this drone landed: no reordering
\* between DroneManager, ChargingManager and DroneRegistry alone lets it go.
TakeoffChargedUnlessHaunted ==
  [][\A d \in Drones :
       where[d] # None /\ where'[d] = None => charge[d] > 0 \/ d \in haunted]_vars

\* Every request of a drone is answered: the waits of DroneManager on
\* PortManager on StateStore and on DroneRegistry never close a circle.
EveryRequestAnswered ==
  \A d \in Drones : asked[d] # None ~> asked[d] = None
=============================================================================
