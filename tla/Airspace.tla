------------------------------ MODULE Airspace ------------------------------
(***************************************************************************)
(* systems/orvd_system: the air-traffic authority.  One object keeps the   *)
(* registered drones and missions, the missions authorised and the flights *)
(* under way; its handlers run one at a time.                              *)
(*                                                                         *)
(* A route is the set of zones it passes; of a zone only whether it is in  *)
(* force matters.  The regulator is asked for a drone with a certificate   *)
(* and says yes or no.  Telemetry and the history are left out, except for *)
(* the takeoffs the history records.                                       *)
(***************************************************************************)
CONSTANTS Flights,   \* mission ids
          Aircraft,  \* drone ids
          Zones,
          Routes,    \* sets of zones
          None

VARIABLES registered, \* _drones
          plans,      \* _missions: id -> [drone, route], or None
          authorized, \* _authorized
          flying,     \* _active_flights: drone -> mission, or None
          zones,      \* _no_fly_zones
          takeoffs    \* the missions with a takeoff_authorized in _history

airspaceVars == <<registered, plans, authorized, flying, zones, takeoffs>>

Plan == [drone : Aircraft, route : Routes]

AirspaceTypeOK ==
  /\ registered \subseteq Aircraft
  /\ plans \in [Flights -> Plan \cup {None}]
  /\ authorized \subseteq Flights
  /\ flying \in [Aircraft -> Flights \cup {None}]
  /\ zones \subseteq Zones
  /\ takeoffs \subseteq Flights

AirspaceInit ==
  /\ registered = {} /\ authorized = {} /\ zones = {} /\ takeoffs = {}
  /\ plans = [m \in Flights |-> None]
  /\ flying = [d \in Aircraft |-> None]

\* A drone the regulator rejects stays as it was.
RegisterDrone(d) ==
  /\ registered' = registered \cup {d}
  /\ UNCHANGED <<plans, authorized, flying, zones, takeoffs>>

\* A mission may be registered again, for another drone or route: what was
\* authorised stays authorised.
RegisterMission(m, d, route) ==
  /\ d \in registered
  /\ route \cap zones = {}
  /\ plans' = [plans EXCEPT ![m] = [drone |-> d, route |-> route]]
  /\ UNCHANGED <<registered, authorized, flying, zones, takeoffs>>

AuthorizeMission(m) ==
  /\ plans[m] # None
  /\ authorized' = authorized \cup {m}
  /\ UNCHANGED <<registered, plans, flying, zones, takeoffs>>

\* The zones and the drone that asks are not looked at: the takeoff is that of
\* the drone the mission was registered for.
MayTakeOff(m) ==
  /\ m \in authorized
  /\ plans[m] # None /\ plans[m].drone \in registered
  /\ flying[plans[m].drone] = None

RequestTakeoff(m) ==
  /\ MayTakeOff(m)
  /\ flying' = [flying EXCEPT ![plans[m].drone] = m]
  /\ takeoffs' = takeoffs \cup {m}
  /\ UNCHANGED <<registered, plans, authorized, zones>>

\* The only end of a flight: no landing is reported.
RevokeTakeoff(d) ==
  /\ flying[d] # None
  /\ flying' = [flying EXCEPT ![d] = None]
  /\ UNCHANGED <<registered, plans, authorized, zones, takeoffs>>

AddZone(z) ==
  /\ zones' = zones \cup {z}
  /\ UNCHANGED <<registered, plans, authorized, flying, takeoffs>>

RemoveZone(z) ==
  /\ zones' = zones \ {z}
  /\ UNCHANGED <<registered, plans, authorized, flying, takeoffs>>

AuthorityStep ==
  \/ \E d \in Aircraft : RegisterDrone(d) \/ RevokeTakeoff(d)
  \/ \E m \in Flights : AuthorizeMission(m)
  \/ \E m \in Flights, d \in Aircraft, r \in Routes : RegisterMission(m, d, r)
  \/ \E z \in Zones : AddZone(z) \/ RemoveZone(z)

AirspaceNext == AuthorityStep \/ \E m \in Flights : RequestTakeoff(m)

AirspaceSpec == AirspaceInit /\ [][AirspaceNext]_airspaceVars
=============================================================================
