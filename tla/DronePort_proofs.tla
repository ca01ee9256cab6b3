-------------------------- MODULE DronePort_proofs --------------------------
(***************************************************************************)
(* Theorems about DronePort for the "kafka" broker, where a component takes *)
(* its messages in order and one at a time, and for any drones, ports,     *)
(* requests, levels and timeouts but one: no drone gives up a takeoff it   *)
(* has asked for (with a thread pool, or with such a drone, two drones can *)
(* be sent to one port).                                                   *)
(***************************************************************************)
EXTENDS DronePort, SequenceTheorems, TLAPS

Setting == /\ Broker = "kafka"
           /\ \A I \in Impatience : "takeoff" \notin I

-----------------------------------------------------------------------------
(* The five topics. *)

MQ == inbox["drone_manager"]
PQ == inbox["port_manager"]
SQ == inbox["state_store"]
RQ == inbox["drone_registry"]
CQ == inbox["charging_manager"]

MMsg == [action : {"request_landing", "request_takeoff"}, req : Requests]
PMsg == [action : {"request_landing", "get_port_status"}, req : Requests]
          \cup [action : {"free_slot"}, port : Ports]
SMsg == [action : {"get_all_ports"}, req : Requests]
          \cup [action : {"update_port"}, port : Ports, drone : Drones \cup {None}]
RMsg == [action : {"register_drone"}, drone : Drones, port : Ports]
          \cup [action : {"update_battery"}, drone : Drones, battery : Charge]
          \cup [action : {"charging_started"}, drone : Drones]
          \cup [action : {"get_drone"}, req : Requests]
CMsg == [action : {"start_charging"}, req : Requests]

-----------------------------------------------------------------------------
(* The inductive invariant. *)

Landing(r) == request[r] # None /\ request[r].kind = "request_landing"
Takeoff(r) == request[r] # None /\ request[r].kind = "request_takeoff"

\* Every variable has its type, the messages of every topic included.
Types ==
  /\ TypeOK
  /\ MQ \in Seq(MMsg) /\ PQ \in Seq(PMsg) /\ SQ \in Seq(SMsg)
  /\ RQ \in Seq(RMsg) /\ CQ \in Seq(CMsg)
  /\ request \in [Requests -> Query \cup {None}]
  /\ snapshot \in [Requests -> PortTable \cup {None}]
  /\ DOMAIN answer = Requests
  /\ record \in [Requests -> Registration \cup {None}]
  /\ session \in [Drones -> Requests \cup {None}]

\* Where the two handlers of a request stand, and what they know by then.
Handlers ==
  \A r \in Requests :
    /\ request[r] = None <=> dm[r] = "none"
    /\ dm[r] \in {"none", "inbox"} => pm[r] = "none"
    /\ dm[r] = "port" => Landing(r)
    /\ dm[r] \in {"ports", "drone"} => Takeoff(r)
    /\ answer[r] # None => pm[r] = "done"
    /\ Landing(r) /\ answer[r] # None => answer[r] \in Ports \cup {"No free ports"}
    /\ snapshot[r] # None => pm[r] \in {"waiting", "done"}
    /\ record[r] # None => dm[r] \in {"drone", "done"}

\* Requests are made, and DroneManager handles them, in the order of their
\* numbers, one after the other.
Order ==
  /\ \A q, r \in Requests :
       q < r => /\ dm[r] # "none" => dm[q] # "none"
                /\ dm[r] \notin {"none", "inbox"} => dm[q] = "done"
  /\ \A i, j \in DOMAIN MQ : i < j => MQ[i].req < MQ[j].req
  /\ \A i \in DOMAIN MQ : /\ dm[MQ[i].req] = "inbox"
                          /\ request[MQ[i].req] # None
                          /\ request[MQ[i].req].kind = MQ[i].action
  /\ \A r \in Requests : dm[r] = "inbox" => \E i \in DOMAIN MQ : MQ[i].req = r

\* PortManager handles one query at a time; each of them once.
Queries ==
  /\ \A q, r \in Requests : pm[q] = "waiting" /\ pm[r] = "waiting" => q = r
  /\ \A i \in DOMAIN PQ : PQ[i].action # "free_slot" => pm[PQ[i].req] = "inbox"
  /\ \A i, j \in DOMAIN PQ :
       /\ PQ[i].action # "free_slot" /\ PQ[j].action # "free_slot"
       /\ PQ[i].req = PQ[j].req
       => i = j

\* What PortManager reads is current when it reserves: it writes the table
\* only between two of its queries.
Reads ==
  \A r \in Requests :
    /\ \A i \in DOMAIN SQ :
         SQ[i].action = "get_all_ports" /\ SQ[i].req = r =>
           /\ pm[r] \in {"waiting", "done"}
           /\ pm[r] = "waiting" =>
                \A j \in DOMAIN SQ : j > i => SQ[j].action # "update_port"
    /\ pm[r] = "waiting" /\ snapshot[r] # None =>
         /\ snapshot[r] = ports
         /\ \A j \in DOMAIN SQ : SQ[j].action # "update_port"

Promised(r, p) == dm[r] = "port" /\ answer[r] = p

\* A standing drone, a promise and a release on its way each own their port,
\* and no two of them the same.
Slots ==
  /\ StandingIsReserved
  /\ \A r \in Requests : \A p \in Ports :
       Promised(r, p) => WillHold(p, request[r].drone)
  /\ \A i \in DOMAIN PQ : PQ[i].action = "free_slot" =>
       /\ \E d \in Drones : WillHold(PQ[i].port, d)
       /\ \A d \in Drones : where[d] # PQ[i].port
       /\ \A r \in Requests : ~Promised(r, PQ[i].port)
  /\ \A i, j \in DOMAIN PQ :
       /\ PQ[i].action = "free_slot" /\ PQ[j].action = "free_slot"
       /\ PQ[i].port = PQ[j].port
       => i = j

\* A drone waits for its last request, and does not stand while it asks to land.
Askers ==
  /\ \A r \in Requests :
       /\ request[r] # None /\ dm[r] # "done"
       /\ "landing" \in impatient => Takeoff(r)
       => asked[request[r].drone] = r
  /\ \A d \in Drones : asked[d] # None =>
       /\ request[asked[d]] # None /\ request[asked[d]].drone = d
       /\ dm[asked[d]] # "done"
       /\ \A q \in Requests : request[q] # None /\ request[q].drone = d => q <= asked[d]
  /\ \A r \in Requests :
       /\ Landing(r) /\ where[request[r].drone] # None => dm[r] = "done"
       /\ Takeoff(r) /\ dm[r] # "done" => where[request[r].drone] # None

Registers(m, d) == m.action = "register_drone" /\ m.drone = d

\* DroneRegistry will say that d stands in p.
WillSay(d, p) ==
  \/ \E i \in DOMAIN RQ : /\ Registers(RQ[i], d) /\ RQ[i].port = p
                          /\ \A j \in DOMAIN RQ : j > i => ~Registers(RQ[j], d)
  \/ /\ registry[d] # None /\ registry[d].port = p
     /\ \A i \in DOMAIN RQ : ~Registers(RQ[i], d)

\* The registry knows where a drone stands by the time a takeoff reads it.
Records ==
  /\ \A d \in Drones : where[d] # None => WillSay(d, where[d])
  /\ \A i \in DOMAIN RQ : RQ[i].action = "get_drone" =>
       /\ dm[RQ[i].req] \in {"drone", "done"}
       /\ dm[RQ[i].req] = "drone" =>
            \A j \in DOMAIN RQ : j > i => RQ[j].action # "register_drone"
  /\ \A r \in Requests : dm[r] = "drone" /\ record[r] # None =>
       record[r].port = where[request[r].drone]

\* Charging threads, and the drone charged by the one of its own landing.
Charging ==
  /\ \A i, j \in DOMAIN CQ : CQ[i].req = CQ[j].req => i = j
  /\ \A i \in DOMAIN CQ :
       LET r == CQ[i].req
       IN /\ dm[r] = "done" /\ charging[r] = None
          /\ request[r] # None /\ request[r].battery \in Charge
  /\ \A r \in Requests : charging[r] # None => dm[r] = "done"
  /\ \A d \in Drones : session[d] # None =>
       LET r == session[d]
       IN /\ dm[r] = "done" /\ request[r] # None /\ request[r].drone = d
          /\ where[d] # None
          /\ charging[r] # None => charge[d] = charging[r]
          /\ charging[r] = None /\ request[r].battery # None =>
               charge[d] = request[r].battery

AtMost(b, c) == b # None => b <= c

\* Unless the thread of another landing reported, what is said of a standing
\* drone's battery since it landed is not more than it has.
Batteries ==
  /\ \A d \in Drones : where[d] # None /\ d \notin haunted =>
       /\ \A i \in DOMAIN RQ :
            /\ RQ[i].action = "update_battery" /\ RQ[i].drone = d
            /\ \A j \in DOMAIN RQ : j > i => ~Registers(RQ[j], d)
            => RQ[i].battery <= charge[d]
       /\ registry[d] # None /\ (\A i \in DOMAIN RQ : ~Registers(RQ[i], d))
            => AtMost(registry[d].battery, charge[d])
  /\ \A r \in Requests :
       dm[r] = "drone" /\ record[r] # None /\ request[r].drone \notin haunted
         => AtMost(record[r].battery, charge[request[r].drone])

\* When nobody is impatient a port is held for a reason.
NoLeak ==
  impatient = {} =>
    /\ \A r \in Requests : pm[r] \in {"inbox", "waiting"} => dm[r] \in {"port", "ports"}
    /\ \A p \in Ports, d \in Drones : WillHold(p, d) =>
         \/ where[d] = p
         \/ \E r \in Requests : Promised(r, p) /\ request[r].drone = d
         \/ \E i \in DOMAIN PQ : PQ[i].action = "free_slot" /\ PQ[i].port = p

Inv == /\ Types /\ Handlers /\ Order /\ Queries /\ Reads /\ Slots /\ Askers
       /\ Records /\ Charging /\ Batteries /\ NoLeak

-----------------------------------------------------------------------------
(* Queues. *)

\* Taking the first message.
LEMMA TakeFirst ==
  ASSUME NEW S, NEW s \in Seq(S), s # <<>>
  PROVE  /\ RemoveAt(s, 1) = Tail(s)
         /\ Tail(s) \in Seq(S)
         /\ 1 \in DOMAIN s
         /\ \A i \in DOMAIN Tail(s) : i + 1 \in DOMAIN s /\ Tail(s)[i] = s[i + 1]
         /\ \A i \in DOMAIN s : i # 1 => i - 1 \in DOMAIN Tail(s) /\ Tail(s)[i - 1] = s[i]
         /\ DOMAIN Tail(s) \subseteq Nat \ {0} /\ DOMAIN s \subseteq Nat \ {0}
<1>1. Tail(s) \in Seq(S) /\ Len(s) \in Nat /\ Len(s) > 0 /\ Len(Tail(s)) = Len(s) - 1
  BY HeadTailProperties, LenProperties, EmptySeq
<1>2. DOMAIN s = 1 .. Len(s) /\ DOMAIN Tail(s) = 1 .. Len(s) - 1
  BY <1>1, LenProperties
<1>3. \A i \in 1 .. Len(s) - 1 : Tail(s)[i] = s[i + 1]
  BY HeadTailProperties, <1>1
<1>4. RemoveAt(s, 1) = Tail(s)
  <2>1. SubSeq(s, 1, 1 - 1) = <<>>
    BY <1>1, SubSeqEmpty
  <2>2. SubSeq(s, 1 + 1, Len(s)) = Tail(s)
    BY TailIsSubSeq
  <2>3. <<>> \o Tail(s) = Tail(s)
    BY <1>1, ConcatEmptySeq
  <2> QED BY <2>1, <2>2, <2>3 DEF RemoveAt
<1>5. \A i \in DOMAIN Tail(s) : i + 1 \in DOMAIN s /\ Tail(s)[i] = s[i + 1]
  BY <1>1, <1>2, <1>3
<1>6. \A i \in DOMAIN s : i # 1 => i - 1 \in DOMAIN Tail(s) /\ Tail(s)[i - 1] = s[i]
  BY <1>1, <1>2, <1>3
<1>7. 1 \in DOMAIN s /\ DOMAIN Tail(s) \subseteq Nat \ {0} /\ DOMAIN s \subseteq Nat \ {0}
  BY <1>1, <1>2
<1> QED BY <1>1, <1>4, <1>5, <1>6, <1>7

\* Publishing one message.
LEMMA PutLast ==
  ASSUME NEW S, NEW s \in Seq(S), NEW m \in S
  PROVE  /\ s \o <<m>> = Append(s, m)
         /\ Append(s, m) \in Seq(S)
         /\ DOMAIN Append(s, m) = DOMAIN s \cup {Len(s) + 1}
         /\ \A i \in DOMAIN s : Append(s, m)[i] = s[i] /\ i < Len(s) + 1
         /\ Append(s, m)[Len(s) + 1] = m
         /\ Len(s) \in Nat /\ DOMAIN s \subseteq Nat \ {0}
         /\ Len(s) + 1 \notin DOMAIN s
<1>1. Append(s, m) \in Seq(S) /\ Len(Append(s, m)) = Len(s) + 1 /\ Len(s) \in Nat
  BY AppendProperties, LenProperties
<1>2. DOMAIN s = 1 .. Len(s) /\ DOMAIN Append(s, m) = 1 .. Len(s) + 1
  BY <1>1, LenProperties
<1>3. \A i \in 1 .. Len(s) : Append(s, m)[i] = s[i]
  BY AppendProperties
<1>4. Append(s, m)[Len(s) + 1] = m
  BY AppendProperties
<1>5. s \o <<m>> = Append(s, m)
  BY AppendIsConcat
<1> QED BY <1>1, <1>2, <1>3, <1>4, <1>5

\* An empty queue holds nothing.
LEMMA NoneQueued == ASSUME NEW S, NEW s \in Seq(S), NEW i \in DOMAIN s PROVE s # <<>>
BY EmptySeq, LenProperties

\* The topics of a state, once moved.
Topics(mq, pq, sq, rq, cq) ==
  /\ MQ' = mq /\ PQ' = pq /\ SQ' = sq /\ RQ' = rq /\ CQ' = cq

\* Publishing without a message leaves a queue as it is.
LEMMA PutNothing == ASSUME NEW S, NEW s \in Seq(S) PROVE s \o <<>> = s
BY ConcatEmptySeq

LEMMA TwoMessages == ASSUME NEW a, NEW c PROVE <<a>> \o <<c>> = <<a, c>>
<1>1. <<a>> \in Seq({a, c}) /\ <<c>> \in Seq({a, c}) /\ <<a, c>> \in Seq({a, c})
  OBVIOUS
<1>2. <<a>> \o <<c>> \in Seq({a, c})
  BY <1>1, ConcatProperties
<1>3. Len(<<a>> \o <<c>>) = 2 /\ (<<a>> \o <<c>>)[1] = a /\ (<<a>> \o <<c>>)[2] = c
  BY <1>1, ConcatProperties
<1> HIDE <1>1
<1>4. \A i \in 1 .. 2 : (<<a>> \o <<c>>)[i] = <<a, c>>[i]
  BY <1>3
<1> QED
  BY <1>1, <1>2, <1>3, <1>4, SeqEqual

-----------------------------------------------------------------------------
(* What each action does to the topics. *)

\* No queue changes by a publication of nothing.
LEMMA QueueEnds ==
  ASSUME Types
  PROVE  /\ MQ \o <<>> = MQ /\ PQ \o <<>> = PQ /\ SQ \o <<>> = SQ
         /\ RQ \o <<>> = RQ /\ CQ \o <<>> = CQ
BY PutNothing DEF Types

\* A message that is taken is the first, of a component that is not busy.
LEMMA TakenFirst ==
  ASSUME Types, Setting, NEW S, NEW c \in Components, NEW i, NEW action,
         inbox[c] \in Seq(S), Takes(c, i, action)
  PROVE  /\ i = 1 /\ 1 \in DOMAIN inbox[c] /\ inbox[c] # <<>> /\ ~Busy(c)
         /\ inbox[c][1].action = action
         /\ RemoveAt(inbox[c], i) = Tail(inbox[c])
         /\ Tail(inbox[c]) \in Seq(S)
<1>1. i = 1 /\ 1 \in DOMAIN inbox[c] /\ ~Busy(c) /\ inbox[c][1].action = action
  BY DEF Takes, Setting
<1>2. inbox[c] # <<>>
  BY <1>1, NoneQueued
<1> QED
  BY <1>1, <1>2, TakeFirst

LEMMA AskTopics ==
  ASSUME Types, NEW r \in Requests, NEW d \in Drones, NEW b,
         NEW k \in {"request_landing", "request_takeoff"}, Ask(r, d, k, b)
  PROVE  Topics(Append(MQ, [action |-> k, req |-> r]), PQ, SQ, RQ, CQ)
<1>1. [action |-> k, req |-> r] \in MMsg
  BY DEF MMsg
<1>2. MQ \o <<[action |-> k, req |-> r]>> = Append(MQ, [action |-> k, req |-> r])
  BY <1>1, PutLast DEF Types
<1>3. Publish([drone_manager |-> <<[action |-> k, req |-> r]>>])
  BY DEF Ask
<1> QED
  BY <1>2, <1>3, QueueEnds DEF Publish, Topics, Components, MQ, PQ, SQ, RQ, CQ

\* The handler of a drone's request asks PortManager.
HandleTopics(query) ==
  /\ MQ # <<>> /\ 1 \in DOMAIN MQ /\ ~Busy("drone_manager")
  /\ Topics(Tail(MQ), Append(PQ, [action |-> query, req |-> MQ[1].req]), SQ, RQ, CQ)

LEMMA HandleLandingTopics ==
  ASSUME Types, Setting, NEW i, HandleLanding(i)
  PROVE  /\ i = 1 /\ MQ[1].action = "request_landing" /\ MQ[1].req \in Requests
         /\ HandleTopics("request_landing")
<1> DEFINE m == [action |-> "request_landing", req |-> MQ[1].req]
<1>1. /\ i = 1 /\ 1 \in DOMAIN MQ /\ MQ # <<>> /\ ~Busy("drone_manager")
      /\ MQ[1].action = "request_landing" /\ RemoveAt(MQ, i) = Tail(MQ)
      /\ Tail(MQ) \in Seq(MMsg)
  <2>1. MQ \in Seq(MMsg)
    BY DEF Types
  <2> QED BY <2>1, TakenFirst DEF HandleLanding, MQ, Components
<1>2. MQ[1] \in MMsg
  BY <1>1, ElementOfSeq, LenProperties DEF Types
<1>3. MQ[1].req \in Requests /\ m \in PMsg
  BY <1>2 DEF MMsg, PMsg
<1>4. PQ \o <<m>> = Append(PQ, m) /\ Tail(MQ) \o <<>> = Tail(MQ)
  BY <1>1, <1>3, PutLast, PutNothing DEF Types
<1>5. TakeAndPublish("drone_manager", i, [port_manager |-> <<m>>])
  BY <1>1 DEF HandleLanding, MQ
<1>6. Topics(Tail(MQ), Append(PQ, m), SQ, RQ, CQ)
  BY <1>1, <1>4, <1>5, QueueEnds DEF TakeAndPublish, Topics, Components, MQ, PQ, SQ, RQ, CQ
<1> QED
  BY <1>1, <1>3, <1>6 DEF HandleTopics

LEMMA HandleTakeoffTopics ==
  ASSUME Types, Setting, NEW i, HandleTakeoff(i)
  PROVE  /\ i = 1 /\ MQ[1].action = "request_takeoff" /\ MQ[1].req \in Requests
         /\ HandleTopics("get_port_status")
<1> DEFINE m == [action |-> "get_port_status", req |-> MQ[1].req]
<1>1. /\ i = 1 /\ 1 \in DOMAIN MQ /\ MQ # <<>> /\ ~Busy("drone_manager")
      /\ MQ[1].action = "request_takeoff" /\ RemoveAt(MQ, i) = Tail(MQ)
      /\ Tail(MQ) \in Seq(MMsg)
  <2>1. MQ \in Seq(MMsg)
    BY DEF Types
  <2> QED BY <2>1, TakenFirst DEF HandleTakeoff, MQ, Components
<1>2. MQ[1] \in MMsg
  BY <1>1, ElementOfSeq, LenProperties DEF Types
<1>3. MQ[1].req \in Requests /\ m \in PMsg
  BY <1>2 DEF MMsg, PMsg
<1>4. PQ \o <<m>> = Append(PQ, m) /\ Tail(MQ) \o <<>> = Tail(MQ)
  BY <1>1, <1>3, PutLast, PutNothing DEF Types
<1>5. TakeAndPublish("drone_manager", i, [port_manager |-> <<m>>])
  BY <1>1 DEF HandleTakeoff, MQ
<1>6. Topics(Tail(MQ), Append(PQ, m), SQ, RQ, CQ)
  BY <1>1, <1>4, <1>5, QueueEnds DEF TakeAndPublish, Topics, Components, MQ, PQ, SQ, RQ, CQ
<1> QED
  BY <1>1, <1>3, <1>6 DEF HandleTopics

RegisterMsg(r) == [action |-> "register_drone", drone |-> request[r].drone, port |-> answer[r]]
ReportMsg(d, b) == [action |-> "update_battery", drone |-> d, battery |-> b]
ChargeMsg(r) == [action |-> "start_charging", req |-> r]

\* An approved landing is registered, then reported, and charged if need be.
LEMMA LandingApprovedTopics ==
  ASSUME Types, NEW r \in Requests, request[r] \in Query, LandingApproved(r)
  PROVE  LET d == request[r].drone
             b == request[r].battery
         IN Topics(MQ, PQ, SQ,
                   IF b = None THEN Append(RQ, RegisterMsg(r))
                   ELSE Append(Append(RQ, RegisterMsg(r)), ReportMsg(d, b)),
                   IF b \in {None, Full} THEN CQ ELSE Append(CQ, ChargeMsg(r)))
<1> DEFINE d == request[r].drone
           b == request[r].battery
           a == RegisterMsg(r)
           c == ReportMsg(d, b)
           s == ChargeMsg(r)
<1>1. d \in Drones /\ b \in Charge \cup {None} /\ answer[r] \in Ports
  BY DEF Query, LandingApproved
<1>2. a \in RMsg /\ s \in CMsg /\ (b # None => c \in RMsg)
  BY <1>1 DEF RMsg, CMsg, RegisterMsg, ReportMsg, ChargeMsg
<1>3. RQ \o <<a>> = Append(RQ, a) /\ Append(RQ, a) \in Seq(RMsg) /\ CQ \o <<s>> = Append(CQ, s)
  BY <1>2, PutLast DEF Types
<1>4. b # None => RQ \o <<a, c>> = Append(Append(RQ, a), c)
  <2> SUFFICES ASSUME b # None PROVE RQ \o <<a, c>> = Append(Append(RQ, a), c)
    OBVIOUS
  <2>1. Append(RQ, a) \o <<c>> = Append(Append(RQ, a), c)
    BY <1>2, <1>3, PutLast
  <2>2. (RQ \o <<a>>) \o <<c>> = RQ \o (<<a>> \o <<c>>)
    <3>1. <<a>> \in Seq(RMsg) /\ <<c>> \in Seq(RMsg)
      BY <1>2
    <3> QED BY <3>1, ConcatAssociative DEF Types
  <2>3. <<a>> \o <<c>> = <<a, c>>
    BY TwoMessages
  <2> QED BY <1>3, <2>1, <2>2, <2>3
<1>5. Publish([drone_registry |-> IF b = None THEN <<a>> ELSE <<a, c>>,
               charging_manager |-> IF b \in {None, Full} THEN <<>> ELSE <<s>>])
  BY DEF LandingApproved, RegisterMsg, ReportMsg, ChargeMsg
<1> HIDE DEF a, b, c, d, s
<1>6. /\ inbox'["drone_registry"] = RQ \o (IF b = None THEN <<a>> ELSE <<a, c>>)
      /\ inbox'["charging_manager"] = CQ \o (IF b \in {None, Full} THEN <<>> ELSE <<s>>)
      /\ inbox'["drone_manager"] = MQ \o <<>> /\ inbox'["port_manager"] = PQ \o <<>>
      /\ inbox'["state_store"] = SQ \o <<>>
  BY <1>5 DEF Publish, Components, MQ, PQ, SQ, RQ, CQ
<1>7. Topics(MQ, PQ, SQ, IF b = None THEN Append(RQ, a) ELSE Append(Append(RQ, a), c),
             IF b \in {None, Full} THEN CQ ELSE Append(CQ, s))
  BY <1>3, <1>4, <1>6, QueueEnds DEF Topics, MQ, PQ, SQ, RQ, CQ
<1> QED
  BY <1>7 DEF a, b, c, d, s

\* DroneManager asks the registry for the drone of a takeoff ...
LEMMA TakeoffPortsTopics ==
  ASSUME Types, NEW r \in Requests, TakeoffPorts(r)
  PROVE  Topics(MQ, PQ, SQ, Append(RQ, [action |-> "get_drone", req |-> r]), CQ)
<1> DEFINE m == [action |-> "get_drone", req |-> r]
<1>1. m \in RMsg
  BY DEF RMsg
<1>2. RQ \o <<m>> = Append(RQ, m)
  BY <1>1, PutLast DEF Types
<1>3. Publish([drone_registry |-> <<m>>])
  BY DEF TakeoffPorts
<1> HIDE DEF m
<1>4. Topics(MQ, PQ, SQ, Append(RQ, m), CQ)
  BY <1>2, <1>3, QueueEnds DEF Publish, Topics, Components, MQ, PQ, SQ, RQ, CQ
<1> QED BY <1>4 DEF m

\* ... and frees the port the drone leaves.
LEMMA TakeoffApprovedTopics ==
  ASSUME Types, NEW r \in Requests, record[r].port \in Ports, TakeoffApproved(r)
  PROVE  Topics(MQ, Append(PQ, [action |-> "free_slot", port |-> record[r].port]), SQ, RQ, CQ)
<1> DEFINE m == [action |-> "free_slot", port |-> record[r].port]
<1>1. m \in PMsg
  BY DEF PMsg
<1>2. PQ \o <<m>> = Append(PQ, m)
  BY <1>1, PutLast DEF Types
<1>3. TakeoffPort(r) = record[r].port
  BY NoneAssumption DEF TakeoffPort
<1>4. Publish([port_manager |-> <<m>>])
  BY <1>3 DEF TakeoffApproved
<1> HIDE DEF m
<1>5. Topics(MQ, Append(PQ, m), SQ, RQ, CQ)
  BY <1>2, <1>4, QueueEnds DEF Publish, Topics, Components, MQ, PQ, SQ, RQ, CQ
<1> QED BY <1>5 DEF m

\* PortManager takes a query and asks StateStore ...
LEMMA AskPortsTopics ==
  ASSUME Types, Setting, NEW i, NEW k \in {"request_landing", "get_port_status"}, AskPorts(i, k)
  PROVE  /\ i = 1 /\ 1 \in DOMAIN PQ /\ PQ # <<>> /\ ~Busy("port_manager")
         /\ PQ[1].action # "free_slot" /\ PQ[1].req \in Requests
         /\ Topics(MQ, Tail(PQ), Append(SQ, [action |-> "get_all_ports", req |-> PQ[1].req]), RQ, CQ)
<1> DEFINE m == [action |-> "get_all_ports", req |-> PQ[1].req]
<1>1. /\ i = 1 /\ 1 \in DOMAIN PQ /\ PQ # <<>> /\ ~Busy("port_manager")
      /\ PQ[1].action = k /\ RemoveAt(PQ, i) = Tail(PQ)
      /\ Tail(PQ) \in Seq(PMsg)
  <2>1. PQ \in Seq(PMsg)
    BY DEF Types
  <2> QED BY <2>1, TakenFirst DEF AskPorts, PQ, Components
<1>2. PQ[1] \in PMsg
  BY <1>1, ElementOfSeq, LenProperties DEF Types
<1>3. PQ[1].req \in Requests /\ m \in SMsg
  BY <1>1, <1>2 DEF PMsg, SMsg
<1>4. SQ \o <<m>> = Append(SQ, m) /\ Tail(PQ) \o <<>> = Tail(PQ)
  BY <1>1, <1>3, PutLast, PutNothing DEF Types
<1>5. TakeAndPublish("port_manager", i, [state_store |-> <<m>>])
  BY <1>1 DEF AskPorts, PQ
<1> HIDE DEF m
<1>6. Topics(MQ, Tail(PQ), Append(SQ, m), RQ, CQ)
  BY <1>1, <1>4, <1>5, QueueEnds DEF TakeAndPublish, Topics, Components, MQ, PQ, SQ, RQ, CQ
<1> QED
  BY <1>1, <1>3, <1>6 DEF m

UpdateMsg(p, x) == [action |-> "update_port", port |-> p, drone |-> x]

\* ... reserves a port ...
LEMMA ReserveTopics ==
  ASSUME Types, NEW p \in Ports, NEW d \in Drones,
         Publish([state_store |-> <<[action |-> "update_port", port |-> p, drone |-> d]>>])
  PROVE  Topics(MQ, PQ, Append(SQ, UpdateMsg(p, d)), RQ, CQ)
<1>1. UpdateMsg(p, d) \in SMsg
  BY DEF SMsg, UpdateMsg
<1>2. SQ \o <<UpdateMsg(p, d)>> = Append(SQ, UpdateMsg(p, d))
  BY <1>1, PutLast DEF Types
<1>3. Publish([state_store |-> <<UpdateMsg(p, d)>>])
  BY DEF UpdateMsg
<1> QED
  BY <1>2, <1>3, QueueEnds DEF Publish, Topics, Components, MQ, PQ, SQ, RQ, CQ

\* ... and releases one.
LEMMA FreeSlotTopics ==
  ASSUME Types, Setting, NEW i, HandleFreeSlot(i)
  PROVE  /\ i = 1 /\ 1 \in DOMAIN PQ /\ PQ # <<>> /\ ~Busy("port_manager")
         /\ PQ[1].action = "free_slot" /\ PQ[1].port \in Ports
         /\ Topics(MQ, Tail(PQ), Append(SQ, UpdateMsg(PQ[1].port, None)), RQ, CQ)
<1> DEFINE m == UpdateMsg(PQ[1].port, None)
<1>1. /\ i = 1 /\ 1 \in DOMAIN PQ /\ PQ # <<>> /\ ~Busy("port_manager")
      /\ PQ[1].action = "free_slot" /\ RemoveAt(PQ, i) = Tail(PQ)
      /\ Tail(PQ) \in Seq(PMsg)
  <2>1. PQ \in Seq(PMsg)
    BY DEF Types
  <2> QED BY <2>1, TakenFirst DEF HandleFreeSlot, PQ, Components
<1>2. PQ[1] \in PMsg
  BY <1>1, ElementOfSeq, LenProperties DEF Types
<1>3. PQ[1].port \in Ports /\ m \in SMsg
  BY <1>1, <1>2 DEF PMsg, SMsg, UpdateMsg
<1>4. SQ \o <<m>> = Append(SQ, m) /\ Tail(PQ) \o <<>> = Tail(PQ)
  BY <1>1, <1>3, PutLast, PutNothing DEF Types
<1>5. TakeAndPublish("port_manager", i, [state_store |-> <<m>>])
  BY <1>1, <1>3, NoneAssumption DEF HandleFreeSlot, PQ, UpdateMsg
<1> HIDE DEF m
<1>6. Topics(MQ, Tail(PQ), Append(SQ, m), RQ, CQ)
  BY <1>1, <1>4, <1>5, QueueEnds DEF TakeAndPublish, Topics, Components, MQ, PQ, SQ, RQ, CQ
<1> QED
  BY <1>1, <1>3, <1>6 DEF m

\* StateStore takes a message and publishes nothing ...
LEMMA StoreTopics ==
  ASSUME Types, Setting, NEW i, NEW action, Takes("state_store", i, action),
         TakeAndPublish("state_store", i, Nothing)
  PROVE  /\ i = 1 /\ 1 \in DOMAIN SQ /\ SQ # <<>> /\ SQ[1].action = action /\ SQ[1] \in SMsg
         /\ Topics(MQ, PQ, Tail(SQ), RQ, CQ)
<1>1. /\ i = 1 /\ 1 \in DOMAIN SQ /\ SQ # <<>> /\ SQ[1].action = action
      /\ RemoveAt(SQ, i) = Tail(SQ) /\ Tail(SQ) \in Seq(SMsg)
  <2>1. SQ \in Seq(SMsg)
    BY DEF Types
  <2> QED BY <2>1, TakenFirst DEF SQ, Components
<1>2. SQ[1] \in SMsg
  BY <1>1, ElementOfSeq, LenProperties DEF Types
<1>3. Tail(SQ) \o <<>> = Tail(SQ)
  BY <1>1, PutNothing
<1>4. Topics(MQ, PQ, Tail(SQ), RQ, CQ)
  BY <1>1, <1>3, QueueEnds
     DEF TakeAndPublish, Nothing, Topics, Components, MQ, PQ, SQ, RQ, CQ
<1> QED
  BY <1>1, <1>2, <1>4

\* ... and so does DroneRegistry.
LEMMA RegistryTopics ==
  ASSUME Types, Setting, NEW i, NEW action, Takes("drone_registry", i, action),
         TakeAndPublish("drone_registry", i, Nothing)
  PROVE  /\ i = 1 /\ 1 \in DOMAIN RQ /\ RQ # <<>> /\ RQ[1].action = action /\ RQ[1] \in RMsg
         /\ Topics(MQ, PQ, SQ, Tail(RQ), CQ)
<1>1. /\ i = 1 /\ 1 \in DOMAIN RQ /\ RQ # <<>> /\ RQ[1].action = action
      /\ RemoveAt(RQ, i) = Tail(RQ) /\ Tail(RQ) \in Seq(RMsg)
  <2>1. RQ \in Seq(RMsg)
    BY DEF Types
  <2> QED BY <2>1, TakenFirst DEF RQ, Components
<1>2. RQ[1] \in RMsg
  BY <1>1, ElementOfSeq, LenProperties DEF Types
<1>3. Tail(RQ) \o <<>> = Tail(RQ)
  BY <1>1, PutNothing
<1>4. Topics(MQ, PQ, SQ, Tail(RQ), CQ)
  BY <1>1, <1>3, QueueEnds
     DEF TakeAndPublish, Nothing, Topics, Components, MQ, PQ, SQ, RQ, CQ
<1> QED
  BY <1>1, <1>2, <1>4

\* ChargingManager starts a thread and says so ...
LEMMA StartChargingTopics ==
  ASSUME Types, Setting, NEW i, HandleStartCharging(i),
         \A r \in Requests : r = CQ[1].req => request[r] \in Query
  PROVE  /\ i = 1 /\ 1 \in DOMAIN CQ /\ CQ # <<>> /\ CQ[1].req \in Requests
         /\ Topics(MQ, PQ, SQ,
                   Append(RQ, [action |-> "charging_started", drone |-> request[CQ[1].req].drone]),
                   Tail(CQ))
<1> DEFINE m == [action |-> "charging_started", drone |-> request[CQ[1].req].drone]
<1>1. /\ i = 1 /\ 1 \in DOMAIN CQ /\ CQ # <<>>
      /\ RemoveAt(CQ, i) = Tail(CQ) /\ Tail(CQ) \in Seq(CMsg)
  <2>1. CQ \in Seq(CMsg)
    BY DEF Types
  <2> QED BY <2>1, TakenFirst DEF HandleStartCharging, CQ, Components
<1>2. CQ[1] \in CMsg
  BY <1>1, ElementOfSeq, LenProperties DEF Types
<1>3. CQ[1].req \in Requests /\ m \in RMsg
  BY <1>2 DEF CMsg, RMsg, Query
<1>4. RQ \o <<m>> = Append(RQ, m) /\ Tail(CQ) \o <<>> = Tail(CQ)
  BY <1>1, <1>3, PutLast, PutNothing DEF Types
<1>5. TakeAndPublish("charging_manager", i, [drone_registry |-> <<m>>])
  BY <1>1 DEF HandleStartCharging, CQ
<1> HIDE DEF m
<1>6. Topics(MQ, PQ, SQ, Append(RQ, m), Tail(CQ))
  BY <1>1, <1>4, <1>5, QueueEnds DEF TakeAndPublish, Topics, Components, MQ, PQ, SQ, RQ, CQ
<1> QED
  BY <1>1, <1>3, <1>6 DEF m

\* ... and the thread reports every level.
LEMMA ChargingStepTopics ==
  ASSUME Types, NEW r \in Requests, request[r] \in Query, ChargingStep(r)
  PROVE  /\ charging[r] + 1 \in Charge
         /\ Topics(MQ, PQ, SQ,
                   Append(RQ, ReportMsg(request[r].drone, charging[r] + 1)), CQ)
<1> DEFINE m == ReportMsg(request[r].drone, charging[r] + 1)
<1>1. charging[r] + 1 \in Charge
  <2>1. charging[r] \in 0 .. 2 /\ charging[r] < 2
    BY DEF ChargingStep, Types, TypeOK, Charge, Full
  <2> QED BY <2>1 DEF Charge
<1>2. m \in RMsg
  BY <1>1 DEF RMsg, Query, ReportMsg
<1>3. RQ \o <<m>> = Append(RQ, m)
  BY <1>2, PutLast DEF Types
<1>4. Publish([drone_registry |-> <<m>>])
  BY DEF ChargingStep, ReportMsg
<1> HIDE DEF m
<1>5. Topics(MQ, PQ, SQ, Append(RQ, m), CQ)
  BY <1>3, <1>4, QueueEnds DEF Publish, Topics, Components, MQ, PQ, SQ, RQ, CQ
<1> QED BY <1>1, <1>5 DEF m

\* A step that leaves the topics.
LEMMA SameTopics == ASSUME UNCHANGED inbox PROVE Topics(MQ, PQ, SQ, RQ, CQ)
BY DEF Topics, MQ, PQ, SQ, RQ, CQ

-----------------------------------------------------------------------------
(* The steps by their effects: the actions that change the same variables   *)
(* in the same way are one effect.                                         *)

Idle == \A q \in Requests : dm[q] \notin Waiting
Unasked == \A q \in Requests : pm[q] # "waiting"

\* A drone asks.
Asks(r, d, k, b) ==
  /\ Fresh(r) /\ asked[d] = None
  /\ k = "request_landing" => where[d] = None
  /\ k = "request_takeoff" => where[d] # None
  /\ request' = [request EXCEPT ![r] = [kind |-> k, drone |-> d, battery |-> b]]
  /\ dm' = [dm EXCEPT ![r] = "inbox"]
  /\ asked' = [asked EXCEPT ![d] = r]
  /\ Topics(Append(MQ, [action |-> k, req |-> r]), PQ, SQ, RQ, CQ)
  /\ UNCHANGED <<ports, registry, pm, snapshot, answer, record, charging,
                 where, charge, session, haunted>>

\* A drone that asked to land gives up.
GivesUp(d) ==
  /\ asked[d] # None
  /\ "landing" \in impatient /\ request[asked[d]].kind = "request_landing"
  /\ asked' = [asked EXCEPT ![d] = None]
  /\ Topics(MQ, PQ, SQ, RQ, CQ)
  /\ UNCHANGED <<ports, registry, request, handlerVars, charging, where, charge, session,
                 haunted>>

\* DroneManager takes a request and asks PortManager.
Handles(r) ==
  /\ MQ # <<>> /\ r = MQ[1].req /\ Idle
  /\ \E k \in {"request_landing", "get_port_status"} :
       /\ k = "request_landing" <=> MQ[1].action = "request_landing"
       /\ dm' = [dm EXCEPT ![r] = IF k = "request_landing" THEN "port" ELSE "ports"]
       /\ Topics(Tail(MQ), Append(PQ, [action |-> k, req |-> r]), SQ, RQ, CQ)
  /\ pm' = [pm EXCEPT ![r] = "inbox"]
  /\ UNCHANGED <<ports, registry, request, snapshot, answer, record, charging, worldVars>>

\* A landing is approved.
Lands(r) ==
  /\ dm[r] = "port" /\ answer[r] \in Ports
  /\ ApproveLanding(r, answer[r])
  /\ LET d == request[r].drone
         b == request[r].battery
     IN Topics(MQ, PQ, SQ,
               IF b = None THEN Append(RQ, RegisterMsg(r))
               ELSE Append(Append(RQ, RegisterMsg(r)), ReportMsg(d, b)),
               IF b \in {None, Full} THEN CQ ELSE Append(CQ, ChargeMsg(r)))
  /\ UNCHANGED <<ports, registry, request, pm, snapshot, answer, record, charging>>

\* A request is refused; without an answer only when a component is impatient.
Refuses(r) ==
  /\ dm[r] \in {"port", "drone"}
  /\ \/ "components" \in impatient
     \/ dm[r] = "port" /\ answer[r] = "No free ports"
     \/ dm[r] = "drone" /\ record[r] # None
  /\ Refuse(r)
  /\ Topics(MQ, PQ, SQ, RQ, CQ)
  /\ UNCHANGED <<ports, registry, request, pm, snapshot, answer, record, charging>>

\* The registry is asked for a drone.
AsksDrone(r) ==
  /\ dm[r] = "ports"
  /\ "components" \in impatient \/ answer[r] # None
  /\ dm' = [dm EXCEPT ![r] = "drone"]
  /\ Topics(MQ, PQ, SQ, Append(RQ, [action |-> "get_drone", req |-> r]), CQ)
  /\ UNCHANGED <<ports, registry, request, pm, snapshot, answer, record, charging,
                 worldVars>>

\* A takeoff is approved.
Leaves(r) ==
  /\ dm[r] = "drone" /\ record[r] # None /\ record[r].battery \notin {None, 0}
  /\ ApproveTakeoff(r)
  /\ Topics(MQ, Append(PQ, [action |-> "free_slot", port |-> record[r].port]), SQ, RQ, CQ)
  /\ UNCHANGED <<ports, registry, request, pm, snapshot, answer, record, charging>>

\* PortManager takes a query and asks StateStore.
Queried(r) ==
  /\ PQ # <<>> /\ PQ[1].action # "free_slot" /\ r = PQ[1].req /\ Unasked
  /\ pm' = [pm EXCEPT ![r] = "waiting"]
  /\ Topics(MQ, Tail(PQ), Append(SQ, [action |-> "get_all_ports", req |-> r]), RQ, CQ)
  /\ UNCHANGED <<ports, registry, request, dm, snapshot, answer, record, charging,
                 worldVars>>

\* It reserves a port.
Reserves(r, p) ==
  /\ pm[r] = "waiting" /\ Landing(r) /\ snapshot[r] # None /\ snapshot[r][p] = None
  /\ Reply(r, p)
  /\ Topics(MQ, PQ, Append(SQ, UpdateMsg(p, request[r].drone)), RQ, CQ)
  /\ UNCHANGED <<ports, registry, request, dm, snapshot, record, charging, worldVars>>

\* It answers without writing.
Answers(r, v) ==
  /\ pm[r] = "waiting"
  /\ Landing(r) => v = "No free ports"
  /\ Reply(r, v)
  /\ Topics(MQ, PQ, SQ, RQ, CQ)
  /\ UNCHANGED <<ports, registry, request, dm, snapshot, record, charging, worldVars>>

\* It releases a port.
Releases ==
  /\ PQ # <<>> /\ PQ[1].action = "free_slot" /\ Unasked
  /\ Topics(MQ, Tail(PQ), Append(SQ, UpdateMsg(PQ[1].port, None)), RQ, CQ)
  /\ UNCHANGED <<ports, registry, request, handlerVars, charging, worldVars>>

\* StateStore answers,
Reading ==
  /\ SQ # <<>> /\ SQ[1].action = "get_all_ports"
  /\ LET r == SQ[1].req
     IN snapshot' = IF pm[r] = "waiting" THEN [snapshot EXCEPT ![r] = ports] ELSE snapshot
  /\ Topics(MQ, PQ, Tail(SQ), RQ, CQ)
  /\ UNCHANGED <<ports, registry, request, dm, pm, answer, record, charging, worldVars>>

\* or writes its table.
Writing ==
  /\ SQ # <<>> /\ SQ[1].action = "update_port"
  /\ ports' = [ports EXCEPT ![SQ[1].port] = SQ[1].drone]
  /\ Topics(MQ, PQ, Tail(SQ), RQ, CQ)
  /\ UNCHANGED <<registry, request, handlerVars, charging, worldVars>>

\* DroneRegistry writes a record,
Noting(d, rec) ==
  /\ RQ # <<>> /\ RQ[1].action # "get_drone" /\ d = RQ[1].drone
  /\ RQ[1].action = "register_drone" => rec.port = RQ[1].port /\ rec.battery = None
  /\ RQ[1].action # "register_drone" => rec.port = FieldsOf(d).port
  /\ RQ[1].action = "update_battery" => rec.battery = RQ[1].battery
  /\ RQ[1].action = "charging_started" => rec.battery = FieldsOf(d).battery
  /\ registry' = [registry EXCEPT ![d] = rec]
  /\ Topics(MQ, PQ, SQ, Tail(RQ), CQ)
  /\ UNCHANGED <<ports, request, handlerVars, charging, worldVars>>

\* or answers.
Telling ==
  /\ RQ # <<>> /\ RQ[1].action = "get_drone"
  /\ LET r == RQ[1].req
     IN record' = IF dm[r] # "drone" THEN record
                  ELSE [record EXCEPT ![r] = FieldsOf(request[r].drone)]
  /\ Topics(MQ, PQ, SQ, Tail(RQ), CQ)
  /\ UNCHANGED <<ports, registry, request, dm, pm, snapshot, answer, charging, worldVars>>

\* A charging thread starts,
Starts(r) ==
  /\ CQ # <<>> /\ r = CQ[1].req
  /\ charging' = [charging EXCEPT ![r] = request[r].battery]
  /\ Topics(MQ, PQ, SQ,
            Append(RQ, [action |-> "charging_started", drone |-> request[r].drone]), Tail(CQ))
  /\ UNCHANGED <<ports, registry, request, handlerVars, worldVars>>

\* or goes on.
Charges(r) ==
  /\ charging[r] # None /\ charging[r] \in Charge /\ charging[r] + 1 \in Charge
  /\ charging' = [charging EXCEPT ![r] = charging[r] + 1]
  /\ charge' = IF session[request[r].drone] = r
               THEN [charge EXCEPT ![request[r].drone] = charging[r] + 1] ELSE charge
  /\ haunted' = IF where[request[r].drone] # None /\ session[request[r].drone] # r
                THEN haunted \cup {request[r].drone} ELSE haunted
  /\ Topics(MQ, PQ, SQ, Append(RQ, ReportMsg(request[r].drone, charging[r] + 1)), CQ)
  /\ UNCHANGED <<ports, registry, request, handlerVars, asked, where, session>>

Effect ==
  \/ \E r \in Requests, d \in Drones, b \in Charge \cup {None},
        k \in {"request_landing", "request_takeoff"} : Asks(r, d, k, b)
  \/ \E d \in Drones : GivesUp(d)
  \/ \E r \in Requests : \/ Handles(r) \/ Lands(r) \/ Refuses(r) \/ AsksDrone(r)
                         \/ Leaves(r) \/ Queried(r) \/ Starts(r) \/ Charges(r)
  \/ \E r \in Requests, p \in Ports : Reserves(r, p)
  \/ \E r \in Requests, v \in PortTable \cup {"No free ports"} : Answers(r, v)
  \/ Releases \/ Reading \/ Writing \/ Telling
  \/ \E d \in Drones, rec \in Registration : Noting(d, rec)

\* What the invariant says of the requests, the topics and the records.
LEMMA Known ==
  ASSUME Inv
  PROVE  /\ \A r \in Requests : dm[r] # "none" => request[r] \in Query
         /\ \A r \in Requests : charging[r] # None => request[r] \in Query
         /\ \A r \in Requests : r \in Nat
         /\ MQ \in Seq(MMsg) /\ PQ \in Seq(PMsg) /\ SQ \in Seq(SMsg)
         /\ RQ \in Seq(RMsg) /\ CQ \in Seq(CMsg)
         /\ MQ # <<>> => MQ[1] \in MMsg /\ 1 \in DOMAIN MQ
         /\ PQ # <<>> => PQ[1] \in PMsg /\ 1 \in DOMAIN PQ
         /\ SQ # <<>> => SQ[1] \in SMsg /\ 1 \in DOMAIN SQ
         /\ RQ # <<>> => RQ[1] \in RMsg /\ 1 \in DOMAIN RQ
         /\ CQ # <<>> => CQ[1] \in CMsg /\ 1 \in DOMAIN CQ
         /\ \A d \in Drones : FieldsOf(d) \in Registration
         /\ \A r \in Requests : dm[r] = "drone" /\ record[r] # None =>
              record[r].port \in Ports
<1>1. \A r \in Requests : dm[r] # "none" => request[r] \in Query
  BY DEF Inv, Types, Handlers
<1>2. \A r \in Requests : charging[r] # None => request[r] \in Query
  BY <1>1 DEF Inv, Charging
<1>3. \A r \in Requests : r \in Nat
  BY DronePortAssumption DEF Requests
<1>4. /\ MQ # <<>> => MQ[1] \in MMsg /\ 1 \in DOMAIN MQ
      /\ PQ # <<>> => PQ[1] \in PMsg /\ 1 \in DOMAIN PQ
      /\ SQ # <<>> => SQ[1] \in SMsg /\ 1 \in DOMAIN SQ
      /\ RQ # <<>> => RQ[1] \in RMsg /\ 1 \in DOMAIN RQ
      /\ CQ # <<>> => CQ[1] \in CMsg /\ 1 \in DOMAIN CQ
  <2>1. ASSUME NEW S, NEW s \in Seq(S), s # <<>> PROVE s[1] \in S /\ 1 \in DOMAIN s
    BY <2>1, TakeFirst, ElementOfSeq, LenProperties
  <2> QED BY <2>1 DEF Inv, Types
<1>5. \A d \in Drones : FieldsOf(d) \in Registration
  BY DEF Inv, Types, TypeOK, FieldsOf, Registration
<1>6. \A r \in Requests : dm[r] = "drone" /\ record[r] # None => record[r].port \in Ports
  <2> SUFFICES ASSUME NEW r \in Requests, dm[r] = "drone", record[r] # None
               PROVE record[r].port \in Ports
    OBVIOUS
  <2>1. record[r].port = where[request[r].drone]
    BY DEF Inv, Records
  <2>2. Takeoff(r) /\ request[r] \in Query
    BY <1>1 DEF Inv, Handlers
  <2>3. where[request[r].drone] # None
    BY <2>2 DEF Inv, Askers
  <2>4. request[r].drone \in Drones
    BY <2>2 DEF Query
  <2> QED BY <2>1, <2>3, <2>4 DEF Inv, Types, TypeOK
<1>7. /\ MQ \in Seq(MMsg) /\ PQ \in Seq(PMsg) /\ SQ \in Seq(SMsg)
      /\ RQ \in Seq(RMsg) /\ CQ \in Seq(CMsg)
  BY DEF Inv, Types
<1> QED BY <1>1, <1>2, <1>3, <1>4, <1>5, <1>6, <1>7

-----------------------------------------------------------------------------
(* Every step has one of the effects. *)

LEMMA DroneEffect ==
  ASSUME Inv, Setting, DroneStep, UNCHANGED impatient PROVE Effect
<1>1. ASSUME NEW r \in Requests, NEW d \in Drones, NEW b \in Reports, AskLanding(r, d, b)
      PROVE  Effect
  <2>1. Ask(r, d, "request_landing", b) /\ where[d] = None
    BY <1>1 DEF AskLanding
  <2>2. Asks(r, d, "request_landing", b)
    BY <2>1, AskTopics DEF Ask, Asks, Inv
  <2>3. b \in Charge \cup {None}
    BY DronePortAssumption
  <2> QED BY <2>2, <2>3 DEF Effect
<1>2. ASSUME NEW r \in Requests, NEW d \in Drones, AskTakeoff(r, d) PROVE Effect
  <2>1. Ask(r, d, "request_takeoff", None) /\ where[d] # None
    BY <1>2 DEF AskTakeoff
  <2>2. Asks(r, d, "request_takeoff", None)
    BY <2>1, AskTopics DEF Ask, Asks, Inv
  <2> QED BY <2>2 DEF Effect
<1>3. ASSUME NEW d \in Drones, DroneGivesUp(d) PROVE Effect
  <2>1. "takeoff" \notin impatient
    BY DEF Setting, Inv, Types, TypeOK
  <2>2. UNCHANGED inbox
    BY <1>3 DEF DroneGivesUp
  <2>3. GivesUp(d)
    BY <1>3, <2>1, <2>2, SameTopics DEF DroneGivesUp, GivesUp
  <2> QED BY <2>3 DEF Effect
<1> QED BY <1>1, <1>2, <1>3 DEF DroneStep

LEMMA ManagerEffect ==
  ASSUME Inv, Setting, ManagerStep PROVE Effect
<1>1. ~Busy("drone_manager") => Idle
  BY DEF Busy, Idle
<1>2. ASSUME NEW i, HandleLanding(i) PROVE Effect
  <2>1. /\ i = 1 /\ MQ[1].action = "request_landing" /\ MQ[1].req \in Requests
        /\ HandleTopics("request_landing")
    BY <1>2, HandleLandingTopics DEF Inv
  <2> DEFINE r == MQ[1].req
  <2>2. /\ dm' = [dm EXCEPT ![r] = "port"] /\ pm' = [pm EXCEPT ![r] = "inbox"]
        /\ UNCHANGED <<ports, registry, request, snapshot, answer, record, charging,
                       worldVars>>
    BY <1>2, <2>1 DEF HandleLanding, MQ
  <2>3. Handles(r)
    BY <1>1, <2>1, <2>2 DEF Handles, HandleTopics
  <2> QED BY <2>1, <2>3 DEF Effect
<1>3. ASSUME NEW i, HandleTakeoff(i) PROVE Effect
  <2>1. /\ i = 1 /\ MQ[1].action = "request_takeoff" /\ MQ[1].req \in Requests
        /\ HandleTopics("get_port_status")
    BY <1>3, HandleTakeoffTopics DEF Inv
  <2> DEFINE r == MQ[1].req
  <2>2. /\ dm' = [dm EXCEPT ![r] = "ports"] /\ pm' = [pm EXCEPT ![r] = "inbox"]
        /\ UNCHANGED <<ports, registry, request, snapshot, answer, record, charging,
                       worldVars>>
    BY <1>3, <2>1 DEF HandleTakeoff, MQ
  <2>3. Handles(r)
    BY <1>1, <2>1, <2>2 DEF Handles, HandleTopics
  <2> QED BY <2>1, <2>3 DEF Effect
<1>4. ASSUME NEW r \in Requests, LandingApproved(r) PROVE Effect
  <2>1. request[r] \in Query
    BY <1>4, Known DEF LandingApproved
  <2>2. Lands(r)
    BY <1>4, <2>1, LandingApprovedTopics DEF LandingApproved, Lands, Inv
  <2> QED BY <2>2 DEF Effect
<1>5. ASSUME NEW r \in Requests, LandingRefused(r) \/ LandingTimeout(r) \/ TakeoffRefused(r)
      PROVE  Effect
  <2>1. UNCHANGED inbox
    BY <1>5 DEF LandingRefused, LandingTimeout, TakeoffRefused
  <2>2. Refuses(r)
    BY <1>5, <2>1, SameTopics DEF LandingRefused, LandingTimeout, TakeoffRefused, Refuses
  <2> QED BY <2>2 DEF Effect
<1>6. ASSUME NEW r \in Requests, TakeoffPorts(r) PROVE Effect
  <2>1. AsksDrone(r)
    BY <1>6, TakeoffPortsTopics DEF TakeoffPorts, AsksDrone, Inv
  <2> QED BY <2>1 DEF Effect
<1>7. ASSUME NEW r \in Requests, TakeoffApproved(r) PROVE Effect
  <2>1. record[r].port \in Ports
    BY <1>7, Known DEF TakeoffApproved
  <2>2. Leaves(r)
    BY <1>7, <2>1, TakeoffApprovedTopics DEF TakeoffApproved, Leaves, Inv
  <2> QED BY <2>2 DEF Effect
<1> QED BY <1>2, <1>3, <1>4, <1>5, <1>6, <1>7 DEF ManagerStep

LEMMA PortEffect ==
  ASSUME Inv, Setting, PortStep PROVE Effect
<1>1. ~Busy("port_manager") => Unasked
  BY DEF Busy, Unasked
<1>2. ASSUME NEW i, HandleRequestLanding(i) \/ HandleGetPortStatus(i) PROVE Effect
  <2> DEFINE r == PQ[1].req
  <2>1. PICK k \in {"request_landing", "get_port_status"} : AskPorts(i, k)
    BY <1>2 DEF HandleRequestLanding, HandleGetPortStatus
  <2>2. /\ i = 1 /\ 1 \in DOMAIN PQ /\ PQ # <<>> /\ ~Busy("port_manager")
        /\ PQ[1].action # "free_slot" /\ r \in Requests
        /\ Topics(MQ, Tail(PQ), Append(SQ, [action |-> "get_all_ports", req |-> r]), RQ, CQ)
    BY <2>1, AskPortsTopics DEF Inv
  <2>3. /\ pm' = [pm EXCEPT ![r] = "waiting"]
        /\ UNCHANGED <<ports, registry, request, dm, snapshot, answer, record, charging,
                       worldVars>>
    BY <2>1, <2>2 DEF AskPorts, PQ
  <2>4. Queried(r)
    BY <1>1, <2>2, <2>3 DEF Queried
  <2> QED BY <2>2, <2>4 DEF Effect
<1>3. ASSUME NEW i, HandleFreeSlot(i) PROVE Effect
  <2>1. Releases
    BY <1>1, <1>3, FreeSlotTopics DEF HandleFreeSlot, Releases, Inv
  <2> QED BY <2>1 DEF Effect
<1>4. ASSUME NEW r \in Requests, ReservePort(r) PROVE Effect
  <2>1. PICK p \in Ports :
          /\ FirstFree(snapshot[r], p)
          /\ Publish([state_store |-> <<[action |-> "update_port", port |-> p,
                                         drone |-> request[r].drone]>>])
          /\ Reply(r, p)
    BY <1>4 DEF ReservePort
  <2>2. request[r] # None /\ request[r].drone \in Drones
    <3>1. pm[r] = "waiting"
      BY <1>4 DEF ReservePort
    <3>2. request[r] \in Query
      BY <3>1, Known DEF Inv, Handlers
    <3> QED BY <3>2, NoneAssumption DEF Query
  <2>3. snapshot[r][p] = None
    BY <2>1 DEF FirstFree
  <2>4. Topics(MQ, PQ, Append(SQ, UpdateMsg(p, request[r].drone)), RQ, CQ)
    BY <2>1, <2>2, ReserveTopics DEF Inv
  <2>5. Reserves(r, p)
    BY <1>4, <2>1, <2>2, <2>3, <2>4 DEF ReservePort, Reserves, Landing
  <2> QED BY <2>5 DEF Effect
<1>5. ASSUME NEW r \in Requests, NoFreePorts(r) PROVE Effect
  <2>1. UNCHANGED inbox
    BY <1>5 DEF NoFreePorts
  <2>2. Answers(r, "No free ports")
    BY <1>5, <2>1, SameTopics DEF NoFreePorts, Answers
  <2> QED BY <2>2 DEF Effect
<1>6. ASSUME NEW r \in Requests, PortStatus(r) PROVE Effect
  <2>1. UNCHANGED inbox
    BY <1>6 DEF PortStatus
  <2>2. ~Landing(r)
    BY <1>6 DEF PortStatus, Landing
  <2>3. PICK v \in PortTable : Reply(r, v)
    <3>1. [p \in Ports |-> None] \in PortTable
      BY DEF PortTable
    <3>2. snapshot[r] # None => snapshot[r] \in PortTable
      BY DEF Inv, Types
    <3> QED BY <1>6, <3>1, <3>2 DEF PortStatus
  <2>4. Answers(r, v)
    BY <1>6, <2>1, <2>2, <2>3, SameTopics DEF PortStatus, Answers
  <2> QED BY <2>4 DEF Effect
<1> QED BY <1>2, <1>3, <1>4, <1>5, <1>6 DEF PortStep

LEMMA StoreEffect ==
  ASSUME Inv, Setting, StoreStep PROVE Effect
<1>1. ASSUME NEW i, HandleGetAllPorts(i) PROVE Effect
  <2>1. /\ i = 1 /\ SQ # <<>> /\ SQ[1].action = "get_all_ports"
        /\ Topics(MQ, PQ, Tail(SQ), RQ, CQ)
    BY <1>1, StoreTopics DEF HandleGetAllPorts, Inv
  <2>2. Reading
    BY <1>1, <2>1 DEF HandleGetAllPorts, Reading, SQ
  <2> QED BY <2>2 DEF Effect
<1>2. ASSUME NEW i, HandleUpdatePort(i) PROVE Effect
  <2>1. /\ i = 1 /\ SQ # <<>> /\ SQ[1].action = "update_port"
        /\ Topics(MQ, PQ, Tail(SQ), RQ, CQ)
    BY <1>2, StoreTopics DEF HandleUpdatePort, Inv
  <2>2. Writing
    BY <1>2, <2>1 DEF HandleUpdatePort, Writing, SQ
  <2> QED BY <2>2 DEF Effect
<1> QED BY <1>1, <1>2 DEF StoreStep

LEMMA RegistryEffect ==
  ASSUME Inv, Setting, RegistryStep PROVE Effect
<1>1. ASSUME NEW i, NEW action \in {"register_drone", "update_battery", "charging_started"},
             NEW rec, TakeRegistry(i, action, rec),
             rec.port = IF action = "register_drone" THEN RQ[i].port
                        ELSE FieldsOf(RQ[i].drone).port,
             rec.battery = IF action = "register_drone" THEN None
                           ELSE IF action = "update_battery" THEN RQ[i].battery
                           ELSE FieldsOf(RQ[i].drone).battery,
             \A d \in Drones : FieldsOf(d) \in Registration =>
               (d = RQ[i].drone /\ RQ[i] \in RMsg /\ RQ[i].action = action => rec \in Registration)
      PROVE  Effect
  <2>1. /\ i = 1 /\ RQ # <<>> /\ RQ[1].action = action /\ RQ[1] \in RMsg
        /\ Topics(MQ, PQ, SQ, Tail(RQ), CQ)
    BY <1>1, RegistryTopics DEF TakeRegistry, Inv
  <2>2. RQ[1].drone \in Drones
    BY <2>1 DEF RMsg
  <2>3. rec \in Registration
    BY <1>1, <2>1, <2>2, Known
  <2>4. Noting(RQ[1].drone, rec)
    BY <1>1, <2>1 DEF TakeRegistry, Noting, RQ
  <2> QED BY <2>2, <2>3, <2>4 DEF Effect
<1>2. ASSUME NEW i, HandleRegisterDrone(i) PROVE Effect
  <2> DEFINE rec == [port |-> RQ[i].port, battery |-> None, status |-> "new"]
  <2>1. RQ[i] \in RMsg /\ RQ[i].action = "register_drone" => rec \in Registration
    BY DEF RMsg, Registration
  <2>2. TakeRegistry(i, "register_drone", rec)
    BY <1>2 DEF HandleRegisterDrone, RQ
  <2>3. rec.port = RQ[i].port /\ rec.battery = None
    OBVIOUS
  <2> HIDE DEF rec
  <2> QED BY <1>1, <2>1, <2>2, <2>3
<1>3. ASSUME NEW i, HandleUpdateBattery(i) PROVE Effect
  <2> DEFINE m == RQ[i]
             rec == [FieldsOf(m.drone) EXCEPT
                       !.battery = m.battery,
                       !.status = IF m.battery = Full THEN "ready" ELSE "charging"]
  <2>1. TakeRegistry(i, "update_battery", rec)
    BY <1>3 DEF HandleUpdateBattery, RQ
  <2>2. /\ m \in RMsg /\ m.action = "update_battery" => m.battery \in Charge /\ m.drone \in Drones
    BY DEF RMsg
  <2>3. FieldsOf(m.drone) \in Registration =>
          /\ rec.port = FieldsOf(m.drone).port /\ rec.battery = m.battery
          /\ m.battery \in Charge => rec \in Registration
    BY DEF Registration
  <2>4. i = 1 /\ RQ[1].action = "update_battery" /\ RQ[1] \in RMsg
    BY <2>1, RegistryTopics DEF TakeRegistry, Inv
  <2>5. FieldsOf(m.drone) \in Registration
    BY <2>2, <2>4, Known
  <2>6. rec.port = FieldsOf(m.drone).port /\ rec.battery = m.battery /\ rec \in Registration
    BY <2>2, <2>3, <2>4, <2>5
  <2> HIDE DEF rec
  <2> QED BY <1>1, <2>1, <2>6
<1>4. ASSUME NEW i, HandleChargingStarted(i) PROVE Effect
  <2> DEFINE m == RQ[i]
             rec == [FieldsOf(m.drone) EXCEPT !.status = "charging"]
  <2>1. TakeRegistry(i, "charging_started", rec)
    BY <1>4 DEF HandleChargingStarted, RQ
  <2>2. /\ m \in RMsg /\ m.action = "charging_started" => m.drone \in Drones
    BY DEF RMsg
  <2>3. FieldsOf(m.drone) \in Registration =>
          /\ rec.port = FieldsOf(m.drone).port /\ rec.battery = FieldsOf(m.drone).battery
          /\ rec \in Registration
    BY DEF Registration
  <2>4. i = 1 /\ RQ[1].action = "charging_started" /\ RQ[1] \in RMsg
    BY <2>1, RegistryTopics DEF TakeRegistry, Inv
  <2>5. FieldsOf(m.drone) \in Registration
    BY <2>2, <2>4, Known
  <2>6. /\ rec.port = FieldsOf(m.drone).port /\ rec.battery = FieldsOf(m.drone).battery
        /\ rec \in Registration
    BY <2>3, <2>5
  <2> HIDE DEF rec
  <2> QED BY <1>1, <2>1, <2>6
<1>5. ASSUME NEW i, HandleGetDrone(i) PROVE Effect
  <2>1. /\ i = 1 /\ RQ # <<>> /\ RQ[1].action = "get_drone"
        /\ Topics(MQ, PQ, SQ, Tail(RQ), CQ)
    BY <1>5, RegistryTopics DEF HandleGetDrone, Inv
  <2>2. Telling
    BY <1>5, <2>1 DEF HandleGetDrone, Telling, RQ
  <2> QED BY <2>2 DEF Effect
<1> QED BY <1>2, <1>3, <1>4, <1>5 DEF RegistryStep

\* The effects of all steps.
LEMMA StepEffect ==
  ASSUME Inv, Setting, Step, UNCHANGED impatient PROVE Effect
<1>1. ASSUME NEW i, HandleStartCharging(i) PROVE Effect
  <2>1. \A r \in Requests : r = CQ[1].req /\ CQ # <<>> => request[r] \in Query
    <3>1. SUFFICES ASSUME NEW r \in Requests, r = CQ[1].req, CQ # <<>>
                   PROVE request[r] \in Query
      OBVIOUS
    <3>2. dm[r] = "done"
      BY <3>1, Known DEF Inv, Charging
    <3> QED BY <3>2, Known
  <2>2. CQ # <<>>
    BY <1>1, NoneQueued DEF HandleStartCharging, Takes, CQ, Inv, Types
  <2>3. /\ i = 1 /\ 1 \in DOMAIN CQ /\ CQ # <<>> /\ CQ[1].req \in Requests
        /\ Topics(MQ, PQ, SQ,
                  Append(RQ, [action |-> "charging_started", drone |-> request[CQ[1].req].drone]),
                  Tail(CQ))
    BY <1>1, <2>1, <2>2, StartChargingTopics DEF Inv
  <2>4. Starts(CQ[1].req)
    BY <1>1, <2>3 DEF HandleStartCharging, Starts, CQ
  <2> QED BY <2>3, <2>4 DEF Effect
<1>2. ASSUME NEW r \in Requests, ChargingStep(r) PROVE Effect
  <2>1. request[r] \in Query
    BY <1>2, Known DEF ChargingStep
  <2>2. charging[r] # None /\ charging[r] \in Charge
    BY <1>2 DEF ChargingStep, Inv, Types, TypeOK
  <2>3. Charges(r)
    BY <1>2, <2>1, <2>2, ChargingStepTopics DEF ChargingStep, Charges, Inv
  <2> QED BY <2>3 DEF Effect
<1> QED
  BY <1>1, <1>2, DroneEffect, ManagerEffect, PortEffect, StoreEffect, RegistryEffect
     DEF Step, ChargingManagerStep

-----------------------------------------------------------------------------
(* Types is kept. *)

\* A message taken or published leaves a topic a sequence of its messages.
LEMMA TopicTypes ==
  ASSUME Inv
  PROVE  /\ MQ # <<>> => Tail(MQ) \in Seq(MMsg)
         /\ PQ # <<>> => Tail(PQ) \in Seq(PMsg)
         /\ SQ # <<>> => Tail(SQ) \in Seq(SMsg)
         /\ RQ # <<>> => Tail(RQ) \in Seq(RMsg)
         /\ CQ # <<>> => Tail(CQ) \in Seq(CMsg)
         /\ \A m \in MMsg : Append(MQ, m) \in Seq(MMsg)
         /\ \A m \in PMsg : Append(PQ, m) \in Seq(PMsg)
         /\ \A m \in SMsg : Append(SQ, m) \in Seq(SMsg)
         /\ \A m \in RMsg : Append(RQ, m) \in Seq(RMsg)
         /\ \A m, n \in RMsg : Append(Append(RQ, m), n) \in Seq(RMsg)
         /\ \A m \in CMsg : Append(CQ, m) \in Seq(CMsg)
<1>1. ASSUME NEW S, NEW s \in Seq(S) PROVE s # <<>> => Tail(s) \in Seq(S)
  BY TakeFirst
<1>2. ASSUME NEW S, NEW s \in Seq(S), NEW m \in S PROVE Append(s, m) \in Seq(S)
  BY PutLast
<1> QED BY <1>1, <1>2 DEF Inv, Types

\* The state but for the topics.
StateTypes ==
  /\ ports \in PortTable
  /\ registry \in [Drones -> Registration \cup {None}]
  /\ dm \in [Requests -> {"none", "inbox", "done"} \cup Waiting]
  /\ pm \in [Requests -> {"none", "inbox", "waiting", "done"}]
  /\ charging \in [Requests -> Charge \cup {None}]
  /\ asked \in [Drones -> Requests \cup {None}]
  /\ where \in [Drones -> Ports \cup {None}]
  /\ charge \in [Drones -> Charge]
  /\ request \in [Requests -> Query \cup {None}]
  /\ snapshot \in [Requests -> PortTable \cup {None}]
  /\ DOMAIN answer = Requests
  /\ record \in [Requests -> Registration \cup {None}]
  /\ session \in [Drones -> Requests \cup {None}]

\* The topics.
TopicsTyped ==
  MQ \in Seq(MMsg) /\ PQ \in Seq(PMsg) /\ SQ \in Seq(SMsg) /\ RQ \in Seq(RMsg) /\ CQ \in Seq(CMsg)

LEMMA TypesParts == Types <=> /\ StateTypes /\ TopicsTyped /\ haunted \subseteq Drones
                              /\ impatient \in Impatience /\ DOMAIN inbox = Components
BY DEF Types, TypeOK, StateTypes, TopicsTyped

LEMMA TopicsKept ==
  ASSUME Inv, Effect PROVE TopicsTyped'
<1> USE TopicTypes, Known DEF Topics, TopicsTyped
<1>1. ASSUME NEW r \in Requests, NEW d \in Drones, NEW b \in Charge \cup {None},
             NEW k \in {"request_landing", "request_takeoff"}, Asks(r, d, k, b)
      PROVE  TopicsTyped'
  <2>1. [action |-> k, req |-> r] \in MMsg
    BY DEF MMsg
  <2> QED BY <1>1, <2>1 DEF Asks
<1>2. ASSUME NEW r \in Requests, Handles(r) PROVE TopicsTyped'
  <2>1. \A k \in {"request_landing", "get_port_status"} : [action |-> k, req |-> r] \in PMsg
    BY DEF PMsg
  <2> QED BY <1>2, <2>1 DEF Handles
<1>3. ASSUME NEW r \in Requests, Lands(r) PROVE TopicsTyped'
  <2>1. request[r] \in Query /\ answer[r] \in Ports
    BY <1>3 DEF Lands
  <2>2. RegisterMsg(r) \in RMsg /\ ChargeMsg(r) \in CMsg
    BY <2>1 DEF RMsg, CMsg, RegisterMsg, ChargeMsg, Query
  <2>3. request[r].battery # None => ReportMsg(request[r].drone, request[r].battery) \in RMsg
    BY <2>1 DEF RMsg, ReportMsg, Query
  <2>4. /\ MQ' = MQ /\ PQ' = PQ /\ SQ' = SQ
        /\ RQ' = IF request[r].battery = None THEN Append(RQ, RegisterMsg(r))
                 ELSE Append(Append(RQ, RegisterMsg(r)),
                             ReportMsg(request[r].drone, request[r].battery))
        /\ CQ' = IF request[r].battery \in {None, Full} THEN CQ ELSE Append(CQ, ChargeMsg(r))
    BY <1>3 DEF Lands
  <2> QED BY <2>2, <2>3, <2>4
<1>4. ASSUME NEW r \in Requests, AsksDrone(r) PROVE TopicsTyped'
  <2>1. [action |-> "get_drone", req |-> r] \in RMsg
    BY DEF RMsg
  <2> QED BY <1>4, <2>1 DEF AsksDrone
<1>5. ASSUME NEW r \in Requests, Leaves(r) PROVE TopicsTyped'
  <2>1. [action |-> "free_slot", port |-> record[r].port] \in PMsg
    BY <1>5 DEF PMsg, Leaves
  <2> QED BY <1>5, <2>1 DEF Leaves
<1>6. ASSUME NEW r \in Requests, Queried(r) PROVE TopicsTyped'
  <2>1. [action |-> "get_all_ports", req |-> r] \in SMsg
    BY DEF SMsg
  <2> QED BY <1>6, <2>1 DEF Queried
<1>7. ASSUME NEW r \in Requests, NEW p \in Ports, Reserves(r, p) PROVE TopicsTyped'
  <2>1. request[r] \in Query
    BY <1>7 DEF Reserves, Inv, Handlers
  <2>2. UpdateMsg(p, request[r].drone) \in SMsg
    BY <2>1 DEF SMsg, UpdateMsg, Query
  <2> QED BY <1>7, <2>2 DEF Reserves
<1>8. ASSUME Releases PROVE TopicsTyped'
  <2>1. UpdateMsg(PQ[1].port, None) \in SMsg
    BY <1>8 DEF SMsg, PMsg, UpdateMsg, Releases
  <2> QED BY <1>8, <2>1 DEF Releases
<1>9. ASSUME NEW r \in Requests, Starts(r) PROVE TopicsTyped'
  <2>1. request[r] \in Query
    BY <1>9 DEF Starts, Inv, Charging
  <2>2. [action |-> "charging_started", drone |-> request[r].drone] \in RMsg
    BY <2>1 DEF RMsg, Query
  <2> QED BY <1>9, <2>2 DEF Starts
<1>10. ASSUME NEW r \in Requests, Charges(r) PROVE TopicsTyped'
  <2>1. request[r] \in Query /\ charging[r] + 1 \in Charge
    BY <1>10 DEF Charges
  <2>2. ReportMsg(request[r].drone, charging[r] + 1) \in RMsg
    BY <2>1 DEF RMsg, ReportMsg, Query
  <2> QED BY <1>10, <2>2 DEF Charges
<1>11. ASSUME \/ \E d \in Drones : GivesUp(d) \/ \E rec \in Registration : Noting(d, rec)
              \/ \E r \in Requests : Refuses(r) \/ \E v : Answers(r, v)
              \/ Reading \/ Writing \/ Telling
       PROVE  TopicsTyped'
  BY <1>11 DEF GivesUp, Refuses, Answers, Reading, Writing, Noting, Telling
<1> QED
  BY <1>1, <1>2, <1>3, <1>4, <1>5, <1>6, <1>7, <1>8, <1>9, <1>10, <1>11 DEF Effect

LEMMA StateTypesKept ==
  ASSUME Inv, Effect PROVE StateTypes'
<1> USE Known DEF StateTypes, Topics, handlerVars, worldVars
<1>0. StateTypes
  BY TypesParts DEF Inv
<1>a. /\ "none" \in {"none", "inbox", "done"} \cup Waiting
      /\ "inbox" \in {"none", "inbox", "done"} \cup Waiting
      /\ "done" \in {"none", "inbox", "done"} \cup Waiting
      /\ "port" \in {"none", "inbox", "done"} \cup Waiting
      /\ "ports" \in {"none", "inbox", "done"} \cup Waiting
      /\ "drone" \in {"none", "inbox", "done"} \cup Waiting
  BY DEF Waiting
<1>1. ASSUME NEW r \in Requests, NEW d \in Drones, NEW b \in Charge \cup {None},
             NEW k \in {"request_landing", "request_takeoff"}, Asks(r, d, k, b)
      PROVE  StateTypes'
  <2>1. [kind |-> k, drone |-> d, battery |-> b] \in Query
    BY DEF Query
  <2> QED BY <1>0, <1>a, <1>1, <2>1 DEF Asks
<1>2. ASSUME NEW r \in Requests, Handles(r) PROVE StateTypes'
  BY SMTT(20), <1>0, <1>a, <1>2 DEF Handles
<1>3. ASSUME NEW r \in Requests, Lands(r) PROVE StateTypes'
  <2>1. request[r] \in Query /\ answer[r] \in Ports
    BY <1>3 DEF Lands
  <2>2. request[r].drone \in Drones /\ request[r].battery \in Charge \cup {None} /\ 0 \in Charge
    BY <2>1 DEF Query, Charge
  <2> QED BY ZenonT(30), <1>0, <1>a, <1>3, <2>1, <2>2 DEF Lands, ApproveLanding
<1>4. ASSUME NEW r \in Requests, Leaves(r) PROVE StateTypes'
  <2>1. request[r] \in Query
    BY <1>4 DEF Leaves
  <2>2. request[r].drone \in Drones
    BY <2>1 DEF Query
  <2> QED BY <1>0, <1>a, <1>4, <2>2 DEF Leaves, ApproveTakeoff
<1>5. ASSUME NEW r \in Requests, Refuses(r) \/ AsksDrone(r) \/ Queried(r) PROVE StateTypes'
  <2>1. Refuses(r) => request[r] \in Query
    BY DEF Refuses
  <2>2. Refuses(r) => request[r].drone \in Drones
    BY <2>1 DEF Query
  <2> QED BY ZenonT(30), <1>0, <1>a, <1>5, <2>2 DEF Refuses, Refuse, AsksDrone, Queried
<1>6. ASSUME NEW r \in Requests, NEW v, (\E p \in Ports : Reserves(r, p)) \/ Answers(r, v)
      PROVE  StateTypes'
  BY <1>0, <1>6 DEF Reserves, Answers, Reply
<1>7. ASSUME Reading PROVE StateTypes'
  BY <1>0, <1>7 DEF Reading
<1>8. ASSUME Writing PROVE StateTypes'
  <2>1. SQ[1].port \in Ports /\ SQ[1].drone \in Drones \cup {None}
    BY <1>8 DEF Writing, SMsg
  <2> QED BY <1>0, <1>8, <2>1 DEF Writing, PortTable
<1>9. ASSUME NEW d \in Drones, NEW rec \in Registration, Noting(d, rec) PROVE StateTypes'
  BY <1>0, <1>9 DEF Noting
<1>10. ASSUME Telling PROVE StateTypes'
  <2>1. SUFFICES ASSUME dm[RQ[1].req] = "drone" PROVE StateTypes'
    BY <1>0, <1>10 DEF Telling
  <2>2. RQ[1].req \in Requests
    BY <1>10 DEF Telling, RMsg
  <2>3. request[RQ[1].req] \in Query
    BY <2>1, <2>2
  <2>4. FieldsOf(request[RQ[1].req].drone) \in Registration
    BY <2>3 DEF Query
  <2> QED BY <1>0, <1>10, <2>4 DEF Telling
<1>11. ASSUME NEW r \in Requests, Starts(r) PROVE StateTypes'
  <2>1. request[r] \in Query
    BY <1>11 DEF Starts, Inv, Charging
  <2>2. request[r].battery \in Charge \cup {None}
    BY <2>1 DEF Query
  <2> QED BY <1>0, <1>11, <2>2 DEF Starts
<1>12. ASSUME NEW r \in Requests, Charges(r) PROVE StateTypes'
  BY <1>0, <1>12 DEF Charges
<1>13. ASSUME Releases \/ \E d \in Drones : GivesUp(d) PROVE StateTypes'
  BY <1>0, <1>13 DEF Releases, GivesUp
<1> QED
  BY <1>1, <1>2, <1>3, <1>4, <1>5, <1>6, <1>7, <1>8, <1>9, <1>10, <1>11, <1>12, <1>13 DEF Effect

\* Every step publishes to, or takes from, the same five topics.
LEMMA TopicNamesKept == ASSUME DOMAIN inbox = Components, Step PROVE DOMAIN inbox' = Components
<1>1. \A m : Publish(m) => DOMAIN inbox' = Components
  BY DEF Publish
<1>2. \A c, i, m : TakeAndPublish(c, i, m) => DOMAIN inbox' = Components
  BY DEF TakeAndPublish
<1>3. ASSUME DroneStep PROVE DOMAIN inbox' = Components
  BY <1>1, <1>3 DEF DroneStep, AskLanding, AskTakeoff, Ask, DroneGivesUp
<1>4. ASSUME ManagerStep PROVE DOMAIN inbox' = Components
  BY <1>1, <1>2, <1>4 DEF ManagerStep, HandleLanding, HandleTakeoff, LandingApproved,
     LandingRefused, LandingTimeout, TakeoffPorts, TakeoffApproved, TakeoffRefused
<1>5. ASSUME PortStep PROVE DOMAIN inbox' = Components
  BY <1>1, <1>2, <1>5 DEF PortStep, HandleRequestLanding, HandleGetPortStatus, AskPorts,
     HandleFreeSlot, ReservePort, NoFreePorts, PortStatus
<1>6. ASSUME StoreStep \/ RegistryStep PROVE DOMAIN inbox' = Components
  BY <1>2, <1>6 DEF StoreStep, HandleGetAllPorts, HandleUpdatePort, RegistryStep, TakeRegistry,
     HandleRegisterDrone, HandleUpdateBattery, HandleChargingStarted, HandleGetDrone
<1>7. ASSUME ChargingManagerStep \/ \E r \in Requests : ChargingStep(r)
      PROVE  DOMAIN inbox' = Components
  BY <1>1, <1>2, <1>7 DEF ChargingManagerStep, HandleStartCharging, ChargingStep
<1> QED BY <1>3, <1>4, <1>5, <1>6, <1>7 DEF Step

\* Only a thread haunts a drone, its own; a drone that lands or leaves is rid
\* of it.
LEMMA HauntedTyped == ASSUME Inv, Effect PROVE haunted' \subseteq Drones
<1>0. haunted \subseteq Drones
  BY TypesParts DEF Inv
<1>1. ASSUME NEW r \in Requests, Lands(r) \/ Leaves(r) PROVE haunted' \subseteq haunted
  BY <1>1 DEF Lands, Leaves, ApproveLanding, ApproveTakeoff, worldVars
<1>2. ASSUME NEW r \in Requests, Charges(r) PROVE haunted' \subseteq Drones
  <2>1. request[r].drone \in Drones
    BY <1>2, Known DEF Charges, Query
  <2> QED BY <1>0, <1>2, <2>1 DEF Charges
<1>3. ASSUME \/ \E d \in Drones : GivesUp(d) \/ \E rec \in Registration : Noting(d, rec)
             \/ \E r \in Requests, d \in Drones, b \in Charge \cup {None},
                   k \in {"request_landing", "request_takeoff"} : Asks(r, d, k, b)
             \/ \E r \in Requests : \/ Handles(r) \/ Refuses(r) \/ AsksDrone(r) \/ Queried(r)
                                    \/ Starts(r) \/ \E v : Answers(r, v) \/ Reserves(r, v)
             \/ Reading \/ Writing \/ Releases \/ Telling
      PROVE  UNCHANGED haunted
  BY <1>3 DEF GivesUp, Noting, Asks, Handles, Refuses, Refuse, AsksDrone, Queried, Starts,
              Answers, Reserves, Reading, Writing, Releases, Telling, worldVars
<1> QED BY <1>0, <1>1, <1>2, <1>3 DEF Effect

LEMMA TypesKept ==
  ASSUME Inv, Setting, Step, UNCHANGED impatient PROVE Types'
<1>1. Effect /\ haunted' \subseteq Drones
  BY StepEffect, HauntedTyped
<1>2. StateTypes' /\ TopicsTyped'
  BY <1>1, StateTypesKept, TopicsKept
<1>3. impatient' \in Impatience /\ DOMAIN inbox' = Components
  BY TopicNamesKept DEF Inv, Types, TypeOK
<1> QED BY <1>1, <1>2, <1>3 DEF Types, TypeOK, StateTypes, TopicsTyped

-----------------------------------------------------------------------------
(* Handlers, Order and Queries are kept. *)

LEMMA HandlersKept ==
  ASSUME Inv, Effect PROVE Handlers'
<1>0. /\ StateTypes /\ Handlers
      /\ None # "No free ports" /\ (\A p \in Ports : p # None) /\ (\A q \in Query : q # None)
      /\ (\A t \in PortTable : t # None)
  BY TypesParts, NoneAssumption DEF Inv
<1> USE <1>0 DEF Handlers, StateTypes, Topics, Landing, Takeoff, Waiting, handlerVars, worldVars
<1>1. ASSUME NEW r \in Requests, NEW d \in Drones, NEW b \in Charge \cup {None},
             NEW k \in {"request_landing", "request_takeoff"}, Asks(r, d, k, b)
      PROVE  Handlers'
  <2>1. [kind |-> k, drone |-> d, battery |-> b] \in Query
    BY DEF Query
  <2>2. request[r] = None /\ dm[r] = "none"
    BY <1>1 DEF Asks, Fresh
  <2> QED BY <1>1, <2>1, <2>2 DEF Asks
<1>2. ASSUME NEW r \in Requests, Handles(r) PROVE Handlers'
  <2>1. MQ[1] \in MMsg /\ 1 \in DOMAIN MQ /\ dm[r] = "inbox" /\ request[r] # None
        /\ request[r].kind = MQ[1].action
    BY <1>2, Known DEF Handles, Inv, Order
  <2>2. MQ[1].action \in {"request_landing", "request_takeoff"}
    BY <2>1 DEF MMsg
  <2>3. PICK x \in {"port", "ports"} :
          /\ dm' = [dm EXCEPT ![r] = x]
          /\ x = "port" <=> MQ[1].action = "request_landing"
    BY <1>2 DEF Handles
  <2>4. pm' = [pm EXCEPT ![r] = "inbox"] /\ UNCHANGED <<request, answer, snapshot, record>>
    BY <1>2 DEF Handles
  <2>5. /\ dm'[r] = x /\ pm'[r] = "inbox" /\ pm[r] = "none"
        /\ \A q \in Requests : q # r => dm'[q] = dm[q] /\ pm'[q] = pm[q]
    BY <2>1, <2>3, <2>4
  <2> QED BY ZenonT(30), <2>1, <2>2, <2>3, <2>4, <2>5
<1>3. ASSUME NEW r \in Requests, Lands(r) \/ Refuses(r) \/ Leaves(r) \/ AsksDrone(r)
      PROVE  Handlers'
  <2>1. /\ dm[r] \in Waiting /\ \E x \in {"done", "drone"} : dm' = [dm EXCEPT ![r] = x]
        /\ dm'[r] = "drone" => dm[r] = "ports"
    BY <1>3 DEF Lands, ApproveLanding, Refuses, Refuse, Leaves, ApproveTakeoff, AsksDrone
  <2>2. UNCHANGED <<request, pm, answer, snapshot, record>>
    BY <1>3 DEF Lands, Refuses, Leaves, AsksDrone
  <2>3. PICK x \in {"done", "drone"} : dm' = [dm EXCEPT ![r] = x]
    BY <2>1
  <2>4. dm'[r] = x /\ \A q \in Requests : q # r => dm'[q] = dm[q]
    BY <2>3
  <2>5. request[r] # None /\ dm[r] \in {"port", "ports", "drone"}
    BY <2>1
  <2>6. ASSUME NEW q \in Requests
        PROVE  /\ request'[q] = None <=> dm'[q] = "none"
               /\ dm'[q] \in {"none", "inbox"} => pm'[q] = "none"
               /\ dm'[q] = "port" => Landing(q)'
               /\ dm'[q] \in {"ports", "drone"} => Takeoff(q)'
               /\ record'[q] # None => dm'[q] \in {"drone", "done"}
    <3>1. CASE q = r
      BY <2>1, <2>2, <2>4, <2>5, <3>1
    <3>2. CASE q # r
      BY <2>2, <2>4, <3>2
    <3> QED BY <3>1, <3>2
  <2> QED BY <2>2, <2>6
<1>4. ASSUME NEW r \in Requests, Queried(r) PROVE Handlers'
  <2>1. 1 \in DOMAIN PQ /\ pm[r] = "inbox"
    BY <1>4, Known DEF Queried, Inv, Queries
  <2> QED BY <1>4, <2>1 DEF Queried
<1>5. ASSUME NEW r \in Requests, NEW p \in Ports, Reserves(r, p) PROVE Handlers'
  BY <1>5 DEF Reserves, Reply
<1>6. ASSUME NEW r \in Requests, NEW v \in PortTable \cup {"No free ports"}, Answers(r, v)
      PROVE  Handlers'
  BY <1>6 DEF Answers, Reply
<1>7. ASSUME Reading PROVE Handlers'
  BY <1>7 DEF Reading
<1>8. ASSUME Telling PROVE Handlers'
  BY <1>8 DEF Telling
<1>9. ASSUME UNCHANGED <<request, dm, pm, answer, snapshot, record>> PROVE Handlers'
  BY <1>9
<1>10. ASSUME \/ \E d \in Drones : GivesUp(d) \/ \E rec \in Registration : Noting(d, rec)
              \/ \E r \in Requests : Starts(r) \/ Charges(r)
              \/ Releases \/ Writing
       PROVE  Handlers'
  <2>1. UNCHANGED <<request, dm, pm, answer, snapshot, record>>
    BY <1>10 DEF GivesUp, Noting, Starts, Charges, Releases, Writing
  <2> QED BY <1>9, <2>1
<1> HIDE <1>0 DEF Handlers, StateTypes, Topics, Landing, Takeoff, Waiting, handlerVars, worldVars
<1> QED
  BY <1>1, <1>2, <1>3, <1>4, <1>5, <1>6, <1>7, <1>8, <1>10 DEF Effect

\* Of two numbers that are not equal, one is the smaller.
LEMMA Smaller ==
  ASSUME NEW a \in Nat, NEW b \in Nat
  PROVE  /\ a # b /\ ~(a > b) => a < b
         /\ ~(a < b /\ b < a) /\ ~(a < a)
OBVIOUS

LEMMA OrderKept ==
  ASSUME Inv, Effect PROVE Order'
<1>0. StateTypes /\ Order /\ MQ \in Seq(MMsg) /\ Requests \subseteq Nat
  BY TypesParts, Known DEF Inv, Requests
<1>a. \A i \in DOMAIN MQ : MQ[i] \in MMsg /\ MQ[i].req \in Requests
                            /\ MQ[i].action \in {"request_landing", "request_takeoff"}
  <2>1. \A i \in DOMAIN MQ : MQ[i] \in MMsg
    BY <1>0, ElementOfSeq, LenProperties
  <2> QED BY <2>1 DEF MMsg
<1> USE DEF StateTypes, Topics, Waiting, handlerVars, worldVars
<1>1. ASSUME NEW r \in Requests, NEW d \in Drones, NEW b \in Charge \cup {None},
             NEW k \in {"request_landing", "request_takeoff"}, Asks(r, d, k, b)
      PROVE  Order'
  <2> DEFINE m == [action |-> k, req |-> r]
  <2>1. /\ [kind |-> k, drone |-> d, battery |-> b] \in Query
        /\ m \in MMsg /\ m.req = r /\ m.action = k
    BY DEF Query, MMsg
  <2>2. /\ request[r] = None /\ dm[r] = "none"
        /\ \A q \in Requests : q < r => dm[q] # "none"
    BY <1>1 DEF Asks, Fresh, Inv, Handlers
  <2>3. \A q \in Requests : q > r => dm[q] = "none"
    BY <2>2, <1>0 DEF Order
  <2>4. \A i \in DOMAIN MQ : MQ[i].req < r
    <3>1. SUFFICES ASSUME NEW i \in DOMAIN MQ PROVE MQ[i].req < r
      OBVIOUS
    <3>2. dm[MQ[i].req] = "inbox" /\ MQ[i].req \in Requests
      BY <1>0, <1>a DEF Order
    <3>3. MQ[i].req # r /\ ~(MQ[i].req > r)
      BY <2>2, <2>3, <3>2
    <3>4. MQ[i].req \in Nat /\ r \in Nat
      BY <1>0, <3>2
    <3> QED BY <3>3, <3>4, Smaller
  <2>5. /\ MQ' = Append(MQ, m)
        /\ request' = [request EXCEPT ![r] = [kind |-> k, drone |-> d, battery |-> b]]
        /\ dm' = [dm EXCEPT ![r] = "inbox"]
    BY <1>1 DEF Asks
  <2> HIDE DEF m
  <2>6. /\ DOMAIN MQ' = DOMAIN MQ \cup {Len(MQ) + 1}
        /\ \A i \in DOMAIN MQ : MQ'[i] = MQ[i] /\ i < Len(MQ) + 1
        /\ MQ'[Len(MQ) + 1] = m /\ Len(MQ) \in Nat /\ DOMAIN MQ \subseteq Nat \ {0}
    BY <1>0, <2>1, <2>5, PutLast
  <2>7. \A q, s \in Requests :
          q < s => /\ dm'[s] # "none" => dm'[q] # "none"
                   /\ dm'[s] \notin {"none", "inbox"} => dm'[q] = "done"
    BY <1>0, <2>2, <2>3, <2>5 DEF Order
  <2>8. \A i, j \in DOMAIN MQ' : i < j => MQ'[i].req < MQ'[j].req
    BY <1>0, <2>1, <2>4, <2>6 DEF Order
  <2>9. \A i \in DOMAIN MQ' : /\ dm'[MQ'[i].req] = "inbox"
                              /\ request'[MQ'[i].req] # None
                              /\ request'[MQ'[i].req].kind = MQ'[i].action
    <3>1. ASSUME NEW i \in DOMAIN MQ
          PROVE  /\ dm'[MQ'[i].req] = "inbox" /\ request'[MQ'[i].req] # None
                 /\ request'[MQ'[i].req].kind = MQ'[i].action
      BY <1>0, <1>a, <2>2, <2>5, <2>6 DEF Order
    <3>2. /\ dm'[m.req] = "inbox" /\ request'[m.req] # None
          /\ request'[m.req].kind = m.action
      BY <1>0, <2>1, <2>5, NoneAssumption
    <3> QED BY <2>6, <3>1, <3>2
  <2>10. \A q \in Requests : dm'[q] = "inbox" => \E i \in DOMAIN MQ' : MQ'[i].req = q
    <3>1. SUFFICES ASSUME NEW q \in Requests, dm'[q] = "inbox"
                   PROVE \E i \in DOMAIN MQ' : MQ'[i].req = q
      OBVIOUS
    <3>2. CASE q = r
      BY <2>1, <2>6, <3>2
    <3>3. CASE q # r
      <4>1. PICK i \in DOMAIN MQ : MQ[i].req = q
        BY <1>0, <2>5, <3>1, <3>3 DEF Order
      <4> QED BY <2>6, <4>1
    <3> QED BY <3>2, <3>3
  <2> QED BY <2>7, <2>8, <2>9, <2>10 DEF Order
<1>2. ASSUME NEW r \in Requests, Handles(r) PROVE Order'
  <2>1. /\ MQ # <<>> /\ r = MQ[1].req /\ MQ' = Tail(MQ) /\ UNCHANGED request
        /\ \A q \in Requests : dm[q] \notin Waiting
    BY <1>2 DEF Handles, Idle
  <2>2. PICK x \in {"port", "ports"} : dm' = [dm EXCEPT ![r] = x]
    BY <1>2 DEF Handles
  <2>3. /\ 1 \in DOMAIN MQ
        /\ \A i \in DOMAIN Tail(MQ) : i + 1 \in DOMAIN MQ /\ Tail(MQ)[i] = MQ[i + 1]
        /\ \A i \in DOMAIN MQ : i # 1 => i - 1 \in DOMAIN Tail(MQ) /\ Tail(MQ)[i - 1] = MQ[i]
        /\ DOMAIN Tail(MQ) \subseteq Nat \ {0} /\ DOMAIN MQ \subseteq Nat \ {0}
    BY <1>0, <2>1, TakeFirst
  <2>4. dm[r] = "inbox" /\ \A i \in DOMAIN MQ : i # 1 => r < MQ[i].req
    BY <1>0, <2>1, <2>3 DEF Order
  <2>5. \A q \in Requests : q < r => dm[q] = "done"
    <3>1. SUFFICES ASSUME NEW q \in Requests, q < r PROVE dm[q] = "done"
      OBVIOUS
    <3>2. dm[q] # "none"
      BY <1>0, <2>4, <3>1 DEF Order
    <3>3. dm[q] # "inbox"
      <4>1. SUFFICES ASSUME dm[q] = "inbox" PROVE FALSE
        OBVIOUS
      <4>2. PICK i \in DOMAIN MQ : MQ[i].req = q
        BY <1>0, <4>1 DEF Order
      <4>3. q < q \/ r < q
        BY <2>1, <2>4, <3>1, <4>2
      <4>4. q \in Nat /\ r \in Nat
        BY <1>0
      <4> QED BY <3>1, <4>3, <4>4, Smaller
    <3> QED BY <1>0, <2>1, <3>2, <3>3
  <2>6. \A q, s \in Requests :
          q < s => /\ dm'[s] # "none" => dm'[q] # "none"
                   /\ dm'[s] \notin {"none", "inbox"} => dm'[q] = "done"
    BY <1>0, <2>2, <2>4, <2>5 DEF Order
  <2>7. \A i, j \in DOMAIN MQ' : i < j => MQ'[i].req < MQ'[j].req
    BY <1>0, <2>1, <2>3 DEF Order
  <2>8. \A i \in DOMAIN MQ' : /\ dm'[MQ'[i].req] = "inbox"
                              /\ request'[MQ'[i].req] # None
                              /\ request'[MQ'[i].req].kind = MQ'[i].action
    <3>1. SUFFICES ASSUME NEW i \in DOMAIN MQ'
                   PROVE /\ dm'[MQ'[i].req] = "inbox" /\ request'[MQ'[i].req] # None
                         /\ request'[MQ'[i].req].kind = MQ'[i].action
      OBVIOUS
    <3>2. i + 1 \in DOMAIN MQ /\ MQ'[i] = MQ[i + 1] /\ i + 1 # 1
      BY <2>1, <2>3
    <3>3. MQ[i + 1].req # r /\ dm[MQ[i + 1].req] = "inbox" /\ MQ[i + 1].req \in Requests
      BY <1>0, <1>a, <2>4, <3>2 DEF Order
    <3> QED BY <1>0, <2>1, <2>2, <3>2, <3>3 DEF Order
  <2>9. \A q \in Requests : dm'[q] = "inbox" => \E i \in DOMAIN MQ' : MQ'[i].req = q
    <3>1. SUFFICES ASSUME NEW q \in Requests, dm'[q] = "inbox"
                   PROVE \E i \in DOMAIN MQ' : MQ'[i].req = q
      OBVIOUS
    <3>2. q # r /\ dm[q] = "inbox"
      BY <1>0, <2>2, <3>1
    <3>3. PICK i \in DOMAIN MQ : MQ[i].req = q
      BY <1>0, <3>2 DEF Order
    <3>4. i # 1
      BY <2>1, <3>2, <3>3
    <3> QED BY <2>1, <2>3, <3>3, <3>4
  <2> QED BY <2>6, <2>7, <2>8, <2>9 DEF Order
<1>3. ASSUME NEW r \in Requests, Lands(r) \/ Refuses(r) \/ Leaves(r) \/ AsksDrone(r)
      PROVE  Order'
  <2>1. /\ dm[r] \in Waiting
        /\ \E x \in {"done", "drone"} : dm' = [dm EXCEPT ![r] = x]
    BY <1>3 DEF Lands, ApproveLanding, Refuses, Refuse, Leaves, ApproveTakeoff, AsksDrone
  <2>2. UNCHANGED request /\ MQ' = MQ
    BY <1>3 DEF Lands, Refuses, Leaves, AsksDrone
  <2>3. \A q, s \in Requests :
          q < s => /\ dm'[s] # "none" => dm'[q] # "none"
                   /\ dm'[s] \notin {"none", "inbox"} => dm'[q] = "done"
    <3>1. \A q \in Requests : q < r => dm[q] = "done"
      BY <1>0, <2>1 DEF Order
    <3>2. \A q \in Requests : q > r => dm[q] \in {"none", "inbox"}
      BY <1>0, <2>1 DEF Order
    <3> QED BY <1>0, <2>1, <3>1, <3>2 DEF Order
  <2>4. \A q \in Requests : dm'[q] = "inbox" <=> dm[q] = "inbox"
    BY <1>0, <2>1
  <2>5. \A i, j \in DOMAIN MQ' : i < j => MQ'[i].req < MQ'[j].req
    BY <1>0, <2>2 DEF Order
  <2>6. \A i \in DOMAIN MQ' : /\ dm'[MQ'[i].req] = "inbox"
                              /\ request'[MQ'[i].req] # None
                              /\ request'[MQ'[i].req].kind = MQ'[i].action
    BY <1>0, <1>a, <2>2, <2>4 DEF Order
  <2>7. \A q \in Requests : dm'[q] = "inbox" => \E i \in DOMAIN MQ' : MQ'[i].req = q
    BY <1>0, <2>2, <2>4 DEF Order
  <2> QED BY <2>3, <2>5, <2>6, <2>7 DEF Order
<1>4. ASSUME UNCHANGED <<request, dm>>, MQ' = MQ PROVE Order'
  BY <1>0, <1>4 DEF Order
<1> QED
  BY <1>1, <1>2, <1>3, <1>4
     DEF Effect, GivesUp, Queried, Reserves, Answers, Releases, Reading, Writing, Noting,
         Telling, Starts, Charges

\* What is known of a queue after a message was published ...
Longer(s, t, m) ==
  /\ DOMAIN t = DOMAIN s \cup {Len(s) + 1} /\ Len(s) \in Nat
  /\ \A i \in DOMAIN s : t[i] = s[i] /\ i < Len(s) + 1
  /\ t[Len(s) + 1] = m
  /\ DOMAIN s \subseteq Nat \ {0}

\* ... or taken.
Shorter(s, t) ==
  /\ \A i \in DOMAIN t : i + 1 \in DOMAIN s /\ t[i] = s[i + 1]
  /\ \A i \in DOMAIN s : i # 1 => i - 1 \in DOMAIN t /\ t[i - 1] = s[i]
  /\ 1 \in DOMAIN s /\ DOMAIN s \subseteq Nat \ {0} /\ DOMAIN t \subseteq Nat \ {0}

LEMMA LongerQueue ==
  ASSUME NEW S, NEW s \in Seq(S), NEW m \in S PROVE Longer(s, Append(s, m), m)
BY PutLast DEF Longer

LEMMA ShorterQueue ==
  ASSUME NEW S, NEW s \in Seq(S), s # <<>> PROVE Shorter(s, Tail(s))
BY TakeFirst DEF Shorter

\* The messages in the topics of PortManager and StateStore.
LEMMA PortMessages ==
  ASSUME PQ \in Seq(PMsg)
  PROVE  \A i \in DOMAIN PQ : /\ PQ[i] \in PMsg
                              /\ PQ[i].action # "free_slot" => PQ[i].req \in Requests
                              /\ PQ[i].action = "free_slot" => PQ[i].port \in Ports
<1>1. \A i \in DOMAIN PQ : PQ[i] \in PMsg
  BY ElementOfSeq, LenProperties
<1> QED BY <1>1 DEF PMsg

LEMMA StoreMessages ==
  ASSUME SQ \in Seq(SMsg)
  PROVE  \A i \in DOMAIN SQ : /\ SQ[i] \in SMsg
                              /\ SQ[i].action = "get_all_ports" => SQ[i].req \in Requests
                              /\ SQ[i].action # "update_port" => SQ[i].action = "get_all_ports"
                              /\ SQ[i].action = "update_port" =>
                                   SQ[i].port \in Ports /\ SQ[i].drone \in Drones \cup {None}
<1>1. \A i \in DOMAIN SQ : SQ[i] \in SMsg
  BY ElementOfSeq, LenProperties
<1> QED BY <1>1 DEF SMsg

LEMMA QueriesKept ==
  ASSUME Inv, Effect PROVE Queries'
<1>0. /\ pm \in [Requests -> {"none", "inbox", "waiting", "done"}]
      /\ Queries /\ PQ \in Seq(PMsg)
  BY TypesParts, Known DEF Inv, StateTypes
<1>a. \A i \in DOMAIN PQ : PQ[i].action # "free_slot" => PQ[i].req \in Requests
  BY <1>0, PortMessages
<1>1. ASSUME NEW r \in Requests, Handles(r) PROVE Queries'
  <2>1. MQ # <<>> /\ r = MQ[1].req /\ pm' = [pm EXCEPT ![r] = "inbox"]
    BY <1>1 DEF Handles
  <2>2. PICK m \in PMsg : m.req = r /\ m.action # "free_slot" /\ PQ' = Append(PQ, m)
    <3>1. PICK k \in {"request_landing", "get_port_status"} :
            PQ' = Append(PQ, [action |-> k, req |-> r])
      BY <1>1 DEF Handles, Topics
    <3>2. [action |-> k, req |-> r] \in PMsg
      BY DEF PMsg
    <3> QED BY <3>1, <3>2
  <2>3. pm[r] = "none"
    BY <2>1, Known DEF Inv, Order, Handlers
  <2>4. Longer(PQ, PQ', m)
    BY <1>0, <2>2, LongerQueue
  <2>5. \A i \in DOMAIN PQ : PQ[i].action # "free_slot" => PQ[i].req # r
    BY <1>0, <1>a, <2>3 DEF Queries
  <2>6. \A q, s \in Requests : pm'[q] = "waiting" /\ pm'[s] = "waiting" => q = s
    BY <1>0, <2>1 DEF Queries
  <2>7. \A i \in DOMAIN PQ' : PQ'[i].action # "free_slot" => pm'[PQ'[i].req] = "inbox"
    BY <1>0, <1>a, <2>1, <2>2, <2>4 DEF Queries, Longer
  <2>8. \A i, j \in DOMAIN PQ' :
          /\ PQ'[i].action # "free_slot" /\ PQ'[j].action # "free_slot"
          /\ PQ'[i].req = PQ'[j].req
          => i = j
    BY <1>0, <2>2, <2>4, <2>5 DEF Queries, Longer
  <2> QED BY <2>6, <2>7, <2>8 DEF Queries
<1>2. ASSUME NEW r \in Requests, Leaves(r) PROVE Queries'
  <2>1. record[r].port \in Ports
    BY <1>2, Known DEF Leaves
  <2> DEFINE m == [action |-> "free_slot", port |-> record[r].port]
  <2>2. m \in PMsg /\ m.action = "free_slot" /\ PQ' = Append(PQ, m) /\ pm' = pm
    BY <1>2, <2>1 DEF Leaves, PMsg, Topics
  <2> HIDE DEF m
  <2>3. Longer(PQ, PQ', m)
    BY <1>0, <2>2, LongerQueue
  <2> QED BY <1>0, <2>2, <2>3 DEF Queries, Longer
<1>3. ASSUME PQ # <<>>, PQ' = Tail(PQ),
             \/ pm' = pm
             \/ /\ pm' = [pm EXCEPT ![PQ[1].req] = "waiting"] /\ PQ[1].action # "free_slot"
                /\ Unasked
      PROVE  Queries'
  <2>1. Shorter(PQ, PQ')
    BY <1>0, <1>3, ShorterQueue
  <2>2. \A i, j \in DOMAIN PQ' :
          /\ PQ'[i].action # "free_slot" /\ PQ'[j].action # "free_slot"
          /\ PQ'[i].req = PQ'[j].req
          => i = j
    BY <1>0, <2>1 DEF Queries, Shorter
  <2>3. \A i \in DOMAIN PQ' : PQ'[i].action # "free_slot" => pm'[PQ'[i].req] = "inbox"
    BY <1>0, <1>3, <1>a, <2>1 DEF Queries, Shorter
  <2>4. \A q, s \in Requests : pm'[q] = "waiting" /\ pm'[s] = "waiting" => q = s
    BY <1>0, <1>3 DEF Queries, Unasked
  <2> QED BY <2>2, <2>3, <2>4 DEF Queries
<1>4. ASSUME NEW r \in Requests, pm[r] = "waiting", pm' = [pm EXCEPT ![r] = "done"], PQ' = PQ
      PROVE  Queries'
  BY <1>0, <1>a, <1>4 DEF Queries
<1>5. ASSUME pm' = pm, PQ' = PQ PROVE Queries'
  BY <1>0, <1>5 DEF Queries
<1>6. ASSUME NEW r \in Requests, Queried(r) PROVE Queries'
  BY <1>3, <1>6 DEF Queried, Topics
<1>7. ASSUME Releases PROVE Queries'
  BY <1>3, <1>7 DEF Releases, Topics, handlerVars
<1>8. ASSUME NEW r \in Requests, NEW v, Answers(r, v) \/ Reserves(r, v) PROVE Queries'
  BY <1>4, <1>8 DEF Answers, Reserves, Reply, Topics
<1>9. ASSUME \/ \E d \in Drones : GivesUp(d) \/ \E rec \in Registration : Noting(d, rec)
             \/ \E r \in Requests, d \in Drones, b \in Charge \cup {None},
                   k \in {"request_landing", "request_takeoff"} : Asks(r, d, k, b)
             \/ \E r \in Requests : \/ Starts(r) \/ Charges(r) \/ Lands(r) \/ Refuses(r)
                                    \/ AsksDrone(r)
             \/ Reading \/ Writing \/ Telling
      PROVE  Queries'
  <2>1. pm' = pm /\ PQ' = PQ
    BY <1>9 DEF GivesUp, Noting, Asks, Starts, Charges, Lands, Refuses, AsksDrone, Reading,
                Writing, Telling, handlerVars, Topics
  <2> QED BY <1>5, <2>1
<1> QED BY <1>1, <1>2, <1>6, <1>7, <1>8, <1>9 DEF Effect

LEMMA ReadsKept ==
  ASSUME Inv, Effect PROVE Reads'
<1>0. /\ pm \in [Requests -> {"none", "inbox", "waiting", "done"}]
      /\ snapshot \in [Requests -> PortTable \cup {None}]
      /\ Reads /\ Queries /\ SQ \in Seq(SMsg)
      /\ \A r \in Requests : snapshot[r] # None => pm[r] \in {"waiting", "done"}
  BY TypesParts, Known DEF Inv, StateTypes, Handlers
<1>a. \A i \in DOMAIN SQ : SQ[i].action = "get_all_ports" => SQ[i].req \in Requests
  BY <1>0, StoreMessages
\* A handler that does not start to wait, with the same topic and table.
<1>1. ASSUME SQ' = SQ, UNCHANGED <<snapshot, ports>>,
             pm' \in [Requests -> {"none", "inbox", "waiting", "done"}],
             \A r \in Requests :
               \/ pm'[r] = pm[r]
               \/ pm[r] = "none"
               \/ pm[r] = "waiting" /\ pm'[r] = "done"
      PROVE  Reads'
  BY <1>0, <1>1 DEF Reads
<1>2. ASSUME NEW r \in Requests, Handles(r) PROVE Reads'
  <2>1. 1 \in DOMAIN MQ /\ r = MQ[1].req /\ pm' = [pm EXCEPT ![r] = "inbox"]
    BY <1>2, Known DEF Handles
  <2>2. pm[r] = "none"
    BY <2>1, Known DEF Inv, Order, Handlers
  <2>3. SQ' = SQ /\ UNCHANGED <<snapshot, ports>>
    BY <1>2 DEF Handles, Topics
  <2>4. pm' \in [Requests -> {"none", "inbox", "waiting", "done"}]
    BY <1>0, <2>1
  <2>5. \A q \in Requests : pm'[q] = pm[q] \/ pm[q] = "none"
    BY <1>0, <2>1, <2>2
  <2> QED BY <1>1, <2>3, <2>4, <2>5
<1>3. ASSUME NEW r \in Requests, NEW v, Answers(r, v) PROVE Reads'
  <2>1. /\ pm[r] = "waiting" /\ pm' = [pm EXCEPT ![r] = "done"]
        /\ SQ' = SQ /\ UNCHANGED <<snapshot, ports>>
    BY <1>3 DEF Answers, Reply, Topics
  <2>2. pm' \in [Requests -> {"none", "inbox", "waiting", "done"}]
    BY <1>0, <2>1
  <2>3. \A q \in Requests : pm'[q] = pm[q] \/ (pm[q] = "waiting" /\ pm'[q] = "done")
    BY <1>0, <2>1
  <2> QED BY <1>1, <2>1, <2>2, <2>3
<1>4. ASSUME NEW r \in Requests, Queried(r) PROVE Reads'
  <2> DEFINE m == [action |-> "get_all_ports", req |-> r]
  <2>1. /\ m \in SMsg /\ m.action = "get_all_ports" /\ m.req = r /\ SQ' = Append(SQ, m)
        /\ pm' = [pm EXCEPT ![r] = "waiting"] /\ UNCHANGED <<snapshot, ports>>
    BY <1>4 DEF Queried, SMsg, Topics
  <2> HIDE DEF m
  <2>2. Longer(SQ, SQ', m)
    BY <1>0, <2>1, LongerQueue
  <2>3. pm[r] = "inbox" /\ \A q \in Requests : pm[q] # "waiting"
    BY <1>4, Known DEF Queried, Unasked, Inv, Queries
  <2>4. snapshot[r] = None /\ \A i \in DOMAIN SQ :
                                SQ[i].action = "get_all_ports" => SQ[i].req # r
    BY <1>0, <2>3 DEF Reads
  <2>5. \A q \in Requests : q # r => pm'[q] = pm[q] /\ pm'[q] # "waiting"
    BY <1>0, <2>1, <2>3
  <2>6. pm'[r] = "waiting"
    BY <1>0, <2>1
  <2>7. ASSUME NEW q \in Requests, NEW i \in DOMAIN SQ', SQ'[i].action = "get_all_ports",
               SQ'[i].req = q
        PROVE  /\ pm'[q] \in {"waiting", "done"}
               /\ pm'[q] = "waiting" =>
                    \A j \in DOMAIN SQ' : j > i => SQ'[j].action # "update_port"
    <3>1. CASE i = Len(SQ) + 1
      <4>1. q = r /\ \A j \in DOMAIN SQ' : ~(j > i)
        BY <2>1, <2>2, <2>7, <3>1 DEF Longer
      <4> QED BY <2>6, <4>1
    <3>2. CASE i # Len(SQ) + 1
      <4>1. i \in DOMAIN SQ /\ SQ[i] = SQ'[i]
        BY <2>2, <3>2 DEF Longer
      <4>2. q # r
        BY <2>4, <2>7, <4>1
      <4>3. pm[q] \in {"waiting", "done"}
        BY <1>0, <2>7, <4>1 DEF Reads
      <4> QED BY <2>5, <4>2, <4>3
    <3> QED BY <3>1, <3>2
  <2>8. ASSUME NEW q \in Requests, pm'[q] = "waiting", snapshot'[q] # None PROVE FALSE
    BY <2>1, <2>4, <2>5, <2>8
  <2> QED BY <2>7, <2>8 DEF Reads
\* PortManager writes when it has no query, or closes the only one it has.
<1>5. ASSUME NEW m \in SMsg, m.action = "update_port", SQ' = Append(SQ, m),
             UNCHANGED <<snapshot, ports>>,
             \A q \in Requests : pm'[q] # "waiting",
             \A q \in Requests : pm[q] \in {"waiting", "done"} => pm'[q] \in {"waiting", "done"}
      PROVE  Reads'
  <2>1. Longer(SQ, SQ', m)
    BY <1>0, <1>5, LongerQueue
  <2> QED BY <1>0, <1>5, <2>1 DEF Reads, Longer
<1>6. ASSUME NEW r \in Requests, NEW p \in Ports, Reserves(r, p) PROVE Reads'
  <2>1. pm[r] = "waiting" /\ pm' = [pm EXCEPT ![r] = "done"] /\ UNCHANGED <<snapshot, ports>>
    BY <1>6 DEF Reserves, Reply
  <2>2. \A q \in Requests : pm'[q] # "waiting" /\
          (pm[q] \in {"waiting", "done"} => pm'[q] \in {"waiting", "done"})
    BY <1>0, <2>1 DEF Queries
  <2>3. request[r] \in Query
    BY <1>6 DEF Reserves, Inv, Handlers, Types, Landing
  <2>4. /\ UpdateMsg(p, request[r].drone) \in SMsg
        /\ UpdateMsg(p, request[r].drone).action = "update_port"
    BY <2>3 DEF SMsg, UpdateMsg, Query
  <2>5. SQ' = Append(SQ, UpdateMsg(p, request[r].drone))
    BY <1>6 DEF Reserves, Topics
  <2> QED BY <1>5, <2>1, <2>2, <2>4, <2>5
<1>7. ASSUME Releases PROVE Reads'
  <2>1. PQ[1].port \in Ports
    BY <1>7, Known DEF Releases, PMsg
  <2>2. /\ UpdateMsg(PQ[1].port, None) \in SMsg
        /\ UpdateMsg(PQ[1].port, None).action = "update_port"
    BY <2>1 DEF SMsg, UpdateMsg
  <2>3. /\ SQ' = Append(SQ, UpdateMsg(PQ[1].port, None))
        /\ UNCHANGED <<snapshot, ports, pm>> /\ \A q \in Requests : pm[q] # "waiting"
    BY <1>7 DEF Releases, Topics, handlerVars, Unasked
  <2> QED BY <1>5, <2>2, <2>3
<1>8. ASSUME Reading PROVE Reads'
  <2> DEFINE r == SQ[1].req
  <2>1. /\ SQ # <<>> /\ SQ[1].action = "get_all_ports" /\ SQ' = Tail(SQ)
        /\ UNCHANGED <<ports, pm>>
        /\ snapshot' = IF pm[r] = "waiting" THEN [snapshot EXCEPT ![r] = ports] ELSE snapshot
    BY <1>8 DEF Reading, Topics
  <2>2. Shorter(SQ, SQ') /\ r \in Requests
    BY <1>0, <1>a, <2>1, ShorterQueue, Known
  <2>3. pm[r] = "waiting" => \A j \in DOMAIN SQ : SQ[j].action # "update_port"
    <3>1. 1 \in DOMAIN SQ /\ \A j \in DOMAIN SQ : j # 1 => j > 1
      BY <2>2 DEF Shorter
    <3> QED BY <1>0, <2>1, <2>2, <3>1 DEF Reads
  <2> HIDE DEF r
  <2>4. ASSUME NEW q \in Requests, NEW i \in DOMAIN SQ', SQ'[i].action = "get_all_ports",
               SQ'[i].req = q
        PROVE  /\ pm'[q] \in {"waiting", "done"}
               /\ pm'[q] = "waiting" =>
                    \A j \in DOMAIN SQ' : j > i => SQ'[j].action # "update_port"
    BY <1>0, <2>1, <2>2, <2>4 DEF Reads, Shorter
  <2>5. ASSUME NEW q \in Requests, pm'[q] = "waiting", snapshot'[q] # None
        PROVE  /\ snapshot'[q] = ports'
               /\ \A j \in DOMAIN SQ' : SQ'[j].action # "update_port"
    <3>1. CASE q = r
      <4>1. \A j \in DOMAIN SQ' : SQ'[j].action # "update_port"
        BY <2>1, <2>2, <2>3, <2>5, <3>1 DEF Shorter
      <4> QED BY <1>0, <2>1, <2>2, <2>5, <3>1, <4>1
    <3>2. CASE q # r
      <4>1. snapshot'[q] = snapshot[q]
        BY <1>0, <2>1, <2>2, <3>2
      <4>2. snapshot[q] = ports /\ \A j \in DOMAIN SQ : SQ[j].action # "update_port"
        BY <1>0, <2>1, <2>5, <4>1 DEF Reads
      <4> QED BY <2>1, <2>2, <4>1, <4>2 DEF Shorter
    <3> QED BY <3>1, <3>2
  <2> QED BY <2>4, <2>5 DEF Reads
<1>9. ASSUME Writing PROVE Reads'
  <2>1. /\ SQ # <<>> /\ SQ[1].action = "update_port" /\ SQ' = Tail(SQ)
        /\ UNCHANGED <<snapshot, pm>>
    BY <1>9 DEF Writing, Topics, handlerVars
  <2>2. Shorter(SQ, SQ')
    BY <1>0, <2>1, ShorterQueue
  <2>3. \A q \in Requests : pm[q] = "waiting" => snapshot[q] = None
    BY <1>0, <2>1, <2>2 DEF Reads, Shorter
  <2> QED BY <1>0, <2>1, <2>2, <2>3 DEF Reads, Shorter
<1>10. ASSUME \/ \E d \in Drones : GivesUp(d) \/ \E rec \in Registration : Noting(d, rec)
              \/ \E r \in Requests, d \in Drones, b \in Charge \cup {None},
                    k \in {"request_landing", "request_takeoff"} : Asks(r, d, k, b)
              \/ \E r \in Requests : \/ Starts(r) \/ Charges(r) \/ Lands(r) \/ Refuses(r)
                                     \/ AsksDrone(r) \/ Leaves(r)
              \/ Telling
       PROVE  Reads'
  <2>1. pm' = pm /\ SQ' = SQ /\ UNCHANGED <<snapshot, ports>>
    BY <1>10 DEF GivesUp, Noting, Asks, Starts, Charges, Lands, Refuses, AsksDrone, Leaves,
                 Telling, handlerVars, Topics
  <2> QED BY <1>0, <1>1, <2>1
<1> QED BY <1>2, <1>3, <1>4, <1>6, <1>7, <1>8, <1>9, <1>10 DEF Effect

-----------------------------------------------------------------------------
(* Askers is kept. *)

\* DroneManager answers a request: the drone, if it still waits, waits no more.
LEMMA AnswerAsker ==
  ASSUME Inv, NEW r \in Requests, dm[r] \in Waiting, UNCHANGED <<request, impatient>>,
         dm' = [dm EXCEPT ![r] = "done"],
         asked' = IF Hears(r) THEN [asked EXCEPT ![request[r].drone] = None] ELSE asked,
         \A d \in Drones : d # request[r].drone => where'[d] = where[d],
         ~Hears(r) => where' = where
  PROVE  Askers'
<1>0. /\ StateTypes /\ Askers /\ Order /\ Handlers /\ Requests \subseteq Nat
      /\ request[r] \in Query /\ (\A q \in Query : q # None)
      /\ \A q \in Requests : request[q] # None => request[q] \in Query
      /\ \A q \in Requests : q # None
      /\ \A q \in Query : q.drone \in Drones
  <2>1. request[r] \in Query
    BY Known DEF Inv, Waiting
  <2>2. \A q \in Requests : request[q] # None => request[q] \in Query
    BY DEF Inv, Types
  <2> QED BY <2>1, <2>2, TypesParts, Known, NoneAssumption DEF Inv, Query
<1>1. \A q \in Requests : dm'[q] # "done" <=> dm[q] # "done" /\ q # r
  BY <1>0 DEF StateTypes, Waiting
<1>2. \A q \in Requests : Landing(q)' = Landing(q) /\ Takeoff(q)' = Takeoff(q)
  BY DEF Landing, Takeoff
<1>3. asked \in [Drones -> Requests \cup {None}]
  BY <1>0 DEF StateTypes
<1>4. request[r].drone \in Drones
  BY <1>0 DEF Query
<1>5. Hears(r) => asked'[request[r].drone] = None
  BY <1>3, <1>4 DEF Hears
<1>6. \A d \in Drones : d # request[r].drone => asked'[d] = asked[d]
  BY <1>3, <1>4
<1>7. ASSUME NEW q \in Requests, request[q] # None, dm'[q] # "done",
             "landing" \in impatient => Takeoff(q)
      PROVE  asked'[request[q].drone] = q
  <2>1. q # r /\ asked[request[q].drone] = q
    BY <1>0, <1>1, <1>7 DEF Askers
  <2>2. request[q].drone \in Drones
    BY <1>0, <1>7 DEF Query
  <2>3. request[q].drone = request[r].drone => ~Hears(r)
    BY <2>1 DEF Hears
  <2> QED BY <1>3, <1>4, <2>1, <2>2, <2>3
<1>8. ASSUME NEW d \in Drones, asked'[d] # None
      PROVE  /\ request[asked'[d]] # None /\ request[asked'[d]].drone = d
             /\ dm'[asked'[d]] # "done"
             /\ \A q \in Requests : request[q] # None /\ request[q].drone = d => q <= asked'[d]
  <2>1. asked'[d] = asked[d] /\ asked[d] \in Requests
    BY <1>3, <1>5, <1>6, <1>8
  <2>2. asked[d] # r
    BY <1>0, <1>5, <1>8, <2>1 DEF Askers, Hears
  <2> QED BY <1>0, <1>1, <1>8, <2>1, <2>2 DEF Askers
<1>9. ASSUME NEW q \in Requests, Landing(q), where'[request[q].drone] # None
      PROVE  dm'[q] = "done"
  <2>1. request[q] \in Query /\ request[q].drone \in Drones
    BY <1>0, <1>9 DEF Landing, Query
  <2>2. CASE request[q].drone = request[r].drone /\ Hears(r)
    <3>1. q <= r
      BY <1>0, <1>9, <2>1, <2>2 DEF Askers, Hears, Landing
    <3>2. q < r => dm[q] = "done"
      BY <1>0 DEF Order, Waiting
    <3>3. q = r \/ dm[q] = "done"
      BY <1>0, <3>1, <3>2
    <3> QED BY <1>1, <3>3
  <2>3. CASE ~(request[q].drone = request[r].drone /\ Hears(r))
    <3>1. where'[request[q].drone] = where[request[q].drone]
      BY <2>1, <2>3
    <3>2. dm[q] = "done"
      BY <1>0, <1>9, <3>1 DEF Askers
    <3> QED BY <1>1, <3>2
  <2> QED BY <2>2, <2>3
<1>10. ASSUME NEW q \in Requests, Takeoff(q), dm'[q] # "done"
       PROVE  where'[request[q].drone] # None
  <2>1. request[q] \in Query /\ request[q].drone \in Drones
    BY <1>0, <1>10 DEF Takeoff, Query
  <2>2. q # r /\ dm[q] # "done" /\ request[q] # None
    BY <1>1, <1>10 DEF Takeoff
  <2>3. asked[request[q].drone] = q /\ where[request[q].drone] # None
    BY <1>0, <1>10, <2>2 DEF Askers
  <2>4. request[q].drone = request[r].drone => ~Hears(r)
    BY <2>2, <2>3 DEF Hears
  <2>5. where'[request[q].drone] = where[request[q].drone]
    BY <2>1, <2>4
  <2> QED BY <2>3, <2>5
<1> QED BY <1>2, <1>7, <1>8, <1>9, <1>10 DEF Askers

LEMMA AskersKept ==
  ASSUME Inv, Effect, UNCHANGED impatient PROVE Askers'
<1>0. /\ StateTypes /\ Askers /\ Order /\ Handlers /\ Requests \subseteq Nat
      /\ (\A q \in Query : q # None /\ q.drone \in Drones)
      /\ \A q \in Requests : request[q] # None => request[q] \in Query
      /\ \A q \in Requests : q # None
  BY TypesParts, Known, NoneAssumption DEF Inv, StateTypes, Query
<1>1. ASSUME NEW r \in Requests, NEW d \in Drones, NEW b \in Charge \cup {None},
             NEW k \in {"request_landing", "request_takeoff"}, Asks(r, d, k, b)
      PROVE  Askers'
  <2> DEFINE m == [kind |-> k, drone |-> d, battery |-> b]
  <2>1. /\ request' = [request EXCEPT ![r] = m] /\ m.kind = k /\ m.drone = d /\ m # None
        /\ dm' = [dm EXCEPT ![r] = "inbox"] /\ asked' = [asked EXCEPT ![d] = r]
        /\ where' = where /\ asked[d] = None
        /\ k = "request_landing" => where[d] = None
        /\ k = "request_takeoff" => where[d] # None
    <3>1. m \in Query
      BY DEF Query
    <3> QED BY <1>0, <1>1, <3>1 DEF Asks
  <2> HIDE DEF m
  <2>2. /\ request[r] = None /\ dm[r] = "none"
        /\ \A q \in Requests : q > r => dm[q] = "none" /\ request[q] = None
    <3>1. request[r] = None /\ dm[r] = "none"
      BY <1>0, <1>1 DEF Asks, Fresh, Handlers
    <3> QED BY <1>0, <3>1 DEF Order, Handlers
  <2>3. /\ request'[r] = m /\ dm'[r] = "inbox" /\ asked'[d] = r
        /\ \A q \in Requests : q # r => request'[q] = request[q] /\ dm'[q] = dm[q]
        /\ \A e \in Drones : e # d => asked'[e] = asked[e]
    BY <1>0, <2>1 DEF StateTypes
  <2>4. ASSUME NEW q \in Requests, request'[q] # None, dm'[q] # "done",
               "landing" \in impatient => Takeoff(q)'
        PROVE  asked'[request'[q].drone] = q
    <3>1. CASE q = r
      BY <2>1, <2>3, <3>1
    <3>2. CASE q # r
      <4>1. /\ request[q] # None /\ dm[q] # "done"
            /\ "landing" \in impatient => Takeoff(q)
        BY <2>3, <2>4, <3>2 DEF Takeoff
      <4>2. asked[request[q].drone] = q
        BY <1>0, <4>1 DEF Askers
      <4>3. request[q].drone # d /\ request[q].drone \in Drones
        BY <1>0, <2>1, <4>1, <4>2
      <4> QED BY <2>3, <3>2, <4>2, <4>3
    <3> QED BY <3>1, <3>2
  <2>5. ASSUME NEW e \in Drones, asked'[e] # None
        PROVE  /\ request'[asked'[e]] # None /\ request'[asked'[e]].drone = e
               /\ dm'[asked'[e]] # "done"
               /\ \A q \in Requests : request'[q] # None /\ request'[q].drone = e => q <= asked'[e]
    <3>1. CASE e = d
      <4>1. \A q \in Requests : request'[q] # None => q <= r
        BY <1>0, <2>2, <2>3
      <4> QED BY <2>1, <2>3, <3>1, <4>1
    <3>2. CASE e # d
      <4>1. asked'[e] = asked[e] /\ asked[e] \in Requests
        BY <1>0, <2>3, <2>5, <3>2 DEF StateTypes
      <4>2. request[asked[e]] # None /\ request[asked[e]].drone = e /\ dm[asked[e]] # "done"
            /\ \A q \in Requests : request[q] # None /\ request[q].drone = e => q <= asked[e]
        BY <1>0, <2>5, <4>1 DEF Askers
      <4> QED BY <2>1, <2>2, <2>3, <3>2, <4>1, <4>2
    <3> QED BY <3>1, <3>2
  <2>6. ASSUME NEW q \in Requests, Landing(q)', where'[request'[q].drone] # None
        PROVE  dm'[q] = "done"
    <3>1. q # r
      BY <2>1, <2>3, <2>6 DEF Landing
    <3>2. request'[q] = request[q] /\ dm'[q] = dm[q] /\ where' = where
      BY <2>1, <2>3, <3>1
    <3>3. Landing(q) /\ where[request[q].drone] # None
      BY <2>6, <3>2 DEF Landing
    <3> QED BY <1>0, <3>2, <3>3 DEF Askers
  <2>7. ASSUME NEW q \in Requests, Takeoff(q)', dm'[q] # "done"
        PROVE  where'[request'[q].drone] # None
    <3>1. CASE q = r
      BY <2>1, <2>3, <2>7, <3>1 DEF Takeoff
    <3>2. CASE q # r
      BY <1>0, <2>1, <2>3, <2>7, <3>2 DEF Askers, Takeoff
    <3> QED BY <3>1, <3>2
  <2> QED BY <2>4, <2>5, <2>6, <2>7 DEF Askers
<1>2. ASSUME NEW d \in Drones, GivesUp(d) PROVE Askers'
  <2>1. /\ asked[d] # None /\ request[asked[d]].kind = "request_landing"
        /\ "landing" \in impatient /\ asked' = [asked EXCEPT ![d] = None]
        /\ UNCHANGED <<request, dm, where>>
    BY <1>2 DEF GivesUp, handlerVars
  <2>2. \A q \in Requests : Takeoff(q)' = Takeoff(q) /\ Landing(q)' = Landing(q)
    BY <2>1 DEF Takeoff, Landing
  <2>3. ASSUME NEW q \in Requests, request[q] # None, dm[q] # "done", Takeoff(q)
        PROVE  asked'[request[q].drone] = q
    <3>1. asked[request[q].drone] = q /\ request[q].drone \in Drones
      BY <1>0, <2>3 DEF Askers
    <3>2. request[q].drone # d
      BY <2>1, <2>3, <3>1 DEF Takeoff
    <3> QED BY <1>0, <2>1, <3>1, <3>2 DEF StateTypes
  <2>4. \A e \in Drones : asked'[e] # None => asked'[e] = asked[e]
    BY <1>0, <2>1 DEF StateTypes
  <2> QED BY ZenonT(30), <1>0, <2>1, <2>2, <2>3, <2>4 DEF Askers
<1>3. ASSUME NEW r \in Requests, dm[r] \notin {"none", "done"}, UNCHANGED <<request, asked, where>>,
             NEW x \in Waiting, dm' = [dm EXCEPT ![r] = x]
      PROVE  Askers'
  <2>1. \A q \in Requests : dm'[q] = "done" <=> dm[q] = "done"
    BY <1>0, <1>3 DEF StateTypes, Waiting
  <2>2. \A q \in Requests : Takeoff(q)' = Takeoff(q) /\ Landing(q)' = Landing(q)
    BY <1>3 DEF Takeoff, Landing
  <2>3. \A d \in Drones : asked[d] # None => asked[d] \in Requests
    BY <1>0 DEF StateTypes
  <2> QED BY <1>0, <1>3, <2>1, <2>2, <2>3 DEF Askers
<1>4. ASSUME NEW r \in Requests, Handles(r) PROVE Askers'
  <2>1. dm[r] = "inbox"
    BY <1>4, Known DEF Handles, Inv, Order
  <2>2. UNCHANGED <<request, asked, where>> /\ \E x \in Waiting : dm' = [dm EXCEPT ![r] = x]
    BY <1>4 DEF Handles, worldVars, Waiting
  <2> QED BY <1>3, <2>1, <2>2
<1>5. ASSUME NEW r \in Requests, AsksDrone(r) PROVE Askers'
  BY <1>3, <1>5 DEF AsksDrone, worldVars, Waiting
<1>6. ASSUME NEW r \in Requests, Lands(r) PROVE Askers'
  <2>1. dm[r] = "port" /\ ApproveLanding(r, answer[r]) /\ UNCHANGED request
    BY <1>6 DEF Lands
  <2>2. Landing(r) /\ request[r] \in Query /\ request[r].drone \in Drones
    BY <1>0, <2>1 DEF Handlers, Landing
  <2>3. /\ dm' = [dm EXCEPT ![r] = "done"]
        /\ asked' = IF Hears(r) THEN [asked EXCEPT ![request[r].drone] = None] ELSE asked
        /\ ~Hears(r) => where' = where
        /\ \A d \in Drones : d # request[r].drone => where'[d] = where[d]
    BY <1>0, <2>1, <2>2 DEF ApproveLanding, worldVars, StateTypes
  <2> QED BY <2>1, <2>2, <2>3, AnswerAsker DEF Waiting
<1>7. ASSUME NEW r \in Requests, Refuses(r) PROVE Askers'
  BY <1>7, AnswerAsker DEF Refuses, Refuse, Waiting
<1>8. ASSUME NEW r \in Requests, Leaves(r) PROVE Askers'
  <2>1. dm[r] = "drone" /\ ApproveTakeoff(r) /\ UNCHANGED request
    BY <1>8 DEF Leaves
  <2>2. Takeoff(r) /\ request[r] \in Query /\ request[r].drone \in Drones
    BY <1>0, <2>1 DEF Handlers, Takeoff
  <2>3. Hears(r) /\ ~Landing(r)
    BY <1>0, <2>1, <2>2 DEF Askers, Hears, Takeoff, Landing
  <2>4. /\ dm' = [dm EXCEPT ![r] = "done"]
        /\ asked' = [asked EXCEPT ![request[r].drone] = None]
        /\ where' = [where EXCEPT ![request[r].drone] = None]
    BY <2>1, <2>3 DEF ApproveTakeoff
  <2>5. where'[request[r].drone] = None
        /\ \A d \in Drones : d # request[r].drone => where'[d] = where[d]
    BY <1>0, <2>2, <2>4 DEF StateTypes
  <2> QED BY <2>1, <2>2, <2>3, <2>4, <2>5, AnswerAsker DEF Waiting
<1>9. ASSUME UNCHANGED <<request, dm, asked, where>> PROVE Askers'
  BY <1>0, <1>9 DEF Askers, Landing, Takeoff
<1>10. ASSUME \/ \E d \in Drones, rec \in Registration : Noting(d, rec)
              \/ \E r \in Requests : \/ Starts(r) \/ Charges(r) \/ Queried(r)
                                     \/ \E v : Answers(r, v) \/ Reserves(r, v)
              \/ Telling \/ Reading \/ Writing \/ Releases
       PROVE  Askers'
  <2>1. UNCHANGED <<request, dm, asked, where>>
    BY <1>10 DEF Noting, Starts, Charges, Queried, Answers, Reserves, Telling, Reading, Writing,
                 Releases, handlerVars, worldVars
  <2> QED BY <1>9, <2>1
<1> QED BY <1>1, <1>2, <1>4, <1>5, <1>6, <1>7, <1>8, <1>10 DEF Effect

-----------------------------------------------------------------------------
(* What a port will hold, once the writes on their way are made. *)

\* WillHold, of a queue of StateStore and a table.
Holds(q, t, p, x) ==
  \/ \E i \in DOMAIN q : /\ Writes(q[i], p) /\ q[i].drone = x
                         /\ \A j \in DOMAIN q : j > i => ~Writes(q[j], p)
  \/ t[p] = x /\ \A i \in DOMAIN q : ~Writes(q[i], p)

\* WillHold after the step.
NextHold(p, x) == Holds(SQ', ports', p, x)

LEMMA HoldsNow == \A p, x : WillHold(p, x) <=> Holds(SQ, ports, p, x)
BY DEF WillHold, Holds, SQ

\* A port will hold one thing.
LEMMA HoldsOne ==
  ASSUME NEW q \in Seq(SMsg), NEW t, NEW p, NEW x, NEW y, Holds(q, t, p, x), Holds(q, t, p, y)
  PROVE  x = y
<1>1. DOMAIN q \subseteq Nat
  BY LenProperties
<1> QED BY <1>1 DEF Holds

\* The last write counts,
LEMMA HoldsWritten ==
  ASSUME NEW q \in Seq(SMsg), NEW t, NEW m \in SMsg, NEW p, NEW x, Writes(m, p)
  PROVE  Holds(Append(q, m), t, p, x) <=> x = m.drone
<1>1. Longer(q, Append(q, m), m)
  BY LongerQueue
<1> HIDE DEF Writes
<1>2. \A j \in DOMAIN Append(q, m) : ~(j > Len(q) + 1)
  BY <1>1 DEF Longer
<1>3. \A i \in DOMAIN q : ~(\A j \in DOMAIN Append(q, m) : j > i => ~Writes(Append(q, m)[j], p))
  BY <1>1 DEF Longer
<1>4. Writes(Append(q, m)[Len(q) + 1], p) /\ Len(q) + 1 \in DOMAIN Append(q, m)
  BY <1>1 DEF Longer
<1> QED BY <1>1, <1>2, <1>3, <1>4 DEF Holds, Longer

\* and other messages do not.
LEMMA HoldsStill ==
  ASSUME NEW q \in Seq(SMsg), NEW t, NEW m \in SMsg, NEW p, NEW x, ~Writes(m, p)
  PROVE  Holds(Append(q, m), t, p, x) <=> Holds(q, t, p, x)
<1>1. Longer(q, Append(q, m), m)
  BY LongerQueue
<1>2. \A i \in DOMAIN q : Append(q, m)[i] = q[i] /\ i \in DOMAIN Append(q, m)
  BY <1>1 DEF Longer
<1>3. \A i \in DOMAIN Append(q, m) : i \in DOMAIN q \/ ~Writes(Append(q, m)[i], p)
  BY <1>1 DEF Longer
<1> HIDE DEF Writes
<1> QED BY <1>2, <1>3 DEF Holds

\* Nothing changes when StateStore takes a message that does not write the port,
LEMMA HoldsTaken ==
  ASSUME NEW q \in Seq(SMsg), q # <<>>, NEW t, NEW u, NEW p, NEW x, ~Writes(q[1], p), u[p] = t[p]
  PROVE  Holds(Tail(q), u, p, x) <=> Holds(q, t, p, x)
<1>1. Shorter(q, Tail(q))
  BY ShorterQueue
<1> DEFINE s == Tail(q)
<1>2. /\ \A i \in DOMAIN s : i + 1 \in DOMAIN q /\ s[i] = q[i + 1] /\ i \in Nat
      /\ \A i \in DOMAIN q : Writes(q[i], p) => i - 1 \in DOMAIN s /\ s[i - 1] = q[i]
      /\ DOMAIN q \subseteq Nat
  BY <1>1 DEF Shorter
<1> HIDE DEF s, Writes
<1>3. ASSUME Holds(q, t, p, x) PROVE Holds(s, u, p, x)
  <2>1. CASE \E i \in DOMAIN q : /\ Writes(q[i], p) /\ q[i].drone = x
                                 /\ \A j \in DOMAIN q : j > i => ~Writes(q[j], p)
    <3>1. PICK i \in DOMAIN q : /\ Writes(q[i], p) /\ q[i].drone = x
                                /\ \A j \in DOMAIN q : j > i => ~Writes(q[j], p)
      BY <2>1
    <3>2. i - 1 \in DOMAIN s /\ s[i - 1] = q[i] /\ i \in Nat
      BY <1>2, <3>1
    <3>3. \A j \in DOMAIN s : j > i - 1 => ~Writes(s[j], p)
      BY <1>2, <3>1, <3>2
    <3> QED BY <3>1, <3>2, <3>3 DEF Holds
  <2>2. CASE t[p] = x /\ \A i \in DOMAIN q : ~Writes(q[i], p)
    BY <1>2, <2>2 DEF Holds
  <2> QED BY <1>3, <2>1, <2>2 DEF Holds
<1>4. ASSUME Holds(s, u, p, x) PROVE Holds(q, t, p, x)
  <2>1. CASE \E i \in DOMAIN s : /\ Writes(s[i], p) /\ s[i].drone = x
                                 /\ \A j \in DOMAIN s : j > i => ~Writes(s[j], p)
    <3>1. PICK i \in DOMAIN s : /\ Writes(s[i], p) /\ s[i].drone = x
                                /\ \A j \in DOMAIN s : j > i => ~Writes(s[j], p)
      BY <2>1
    <3>2. i + 1 \in DOMAIN q /\ s[i] = q[i + 1] /\ i \in Nat
      BY <1>2
    <3>3. \A j \in DOMAIN q : j > i + 1 => ~Writes(q[j], p)
      BY <1>2, <3>1, <3>2
    <3> QED BY <3>1, <3>2, <3>3 DEF Holds
  <2>2. CASE u[p] = x /\ \A i \in DOMAIN s : ~Writes(s[i], p)
    BY <1>2, <2>2 DEF Holds
  <2> QED BY <1>4, <2>1, <2>2 DEF Holds
<1> QED BY <1>3, <1>4 DEF s

\* nor when it takes the write, and makes it.
LEMMA HoldsMade ==
  ASSUME NEW q \in Seq(SMsg), q # <<>>, NEW t, NEW u, NEW p, NEW x, Writes(q[1], p),
         u[p] = q[1].drone
  PROVE  Holds(Tail(q), u, p, x) <=> Holds(q, t, p, x)
<1>1. Shorter(q, Tail(q))
  BY ShorterQueue
<1> DEFINE s == Tail(q)
<1>2. /\ \A i \in DOMAIN s : i + 1 \in DOMAIN q /\ s[i] = q[i + 1] /\ i \in Nat \ {0}
      /\ \A i \in DOMAIN q : i # 1 => i - 1 \in DOMAIN s /\ s[i - 1] = q[i]
      /\ DOMAIN q \subseteq Nat \ {0} /\ 1 \in DOMAIN q
  BY <1>1 DEF Shorter
<1> HIDE DEF s, Writes
<1>3. ASSUME Holds(q, t, p, x) PROVE Holds(s, u, p, x)
  <2>1. PICK i \in DOMAIN q : /\ Writes(q[i], p) /\ q[i].drone = x
                              /\ \A j \in DOMAIN q : j > i => ~Writes(q[j], p)
    BY <1>2, <1>3 DEF Holds
  <2>2. CASE i = 1
    BY <1>2, <2>1, <2>2 DEF Holds
  <2>3. CASE i # 1
    <3>2. i - 1 \in DOMAIN s /\ s[i - 1] = q[i] /\ i \in Nat
      BY <1>2, <2>3
    <3>3. \A j \in DOMAIN s : j > i - 1 => ~Writes(s[j], p)
      BY <1>2, <2>1, <3>2
    <3> QED BY <2>1, <3>2, <3>3 DEF Holds
  <2> QED BY <2>2, <2>3
<1>4. ASSUME Holds(s, u, p, x) PROVE Holds(q, t, p, x)
  <2>1. CASE \E i \in DOMAIN s : /\ Writes(s[i], p) /\ s[i].drone = x
                                 /\ \A j \in DOMAIN s : j > i => ~Writes(s[j], p)
    <3>1. PICK i \in DOMAIN s : /\ Writes(s[i], p) /\ s[i].drone = x
                                /\ \A j \in DOMAIN s : j > i => ~Writes(s[j], p)
      BY <2>1
    <3>2. i + 1 \in DOMAIN q /\ s[i] = q[i + 1] /\ i \in Nat
      BY <1>2
    <3>3. \A j \in DOMAIN q : j > i + 1 => ~Writes(q[j], p)
      BY <1>2, <3>1, <3>2
    <3> QED BY <3>1, <3>2, <3>3 DEF Holds
  <2>2. CASE u[p] = x /\ \A i \in DOMAIN s : ~Writes(s[i], p)
    <3>1. ASSUME NEW j \in DOMAIN q, j > 1 PROVE ~Writes(q[j], p)
      <4>1. j - 1 \in DOMAIN s /\ s[j - 1] = q[j]
        BY <1>2, <3>1
      <4>2. ~Writes(s[j - 1], p)
        BY <2>2, <4>1
      <4> QED BY <4>1, <4>2
    <3> QED BY <1>2, <2>2, <3>1 DEF Holds
  <2> QED BY <1>4, <2>1, <2>2 DEF Holds
<1> QED BY <1>3, <1>4 DEF s

\* So a port will hold what it would have held, unless PortManager publishes
\* a write.
LEMMA HoldKept ==
  ASSUME Inv, Effect, NEW p \in Ports, NEW x,
         ~\E r \in Requests, o \in Ports : Reserves(r, o),
         ~Releases
  PROVE  NextHold(p, x) <=> WillHold(p, x)
<1>0. SQ \in Seq(SMsg) /\ ports \in PortTable
  BY TypesParts, Known DEF Inv, StateTypes
<1>1. NextHold(p, x) <=> Holds(SQ', ports', p, x)
  BY DEF NextHold
<1>2. ASSUME SQ' = SQ, UNCHANGED ports PROVE NextHold(p, x) <=> WillHold(p, x)
  BY <1>1, <1>2, HoldsNow
<1>3. ASSUME NEW m \in SMsg, ~Writes(m, p), SQ' = Append(SQ, m), UNCHANGED ports
      PROVE  NextHold(p, x) <=> WillHold(p, x)
  BY <1>0, <1>1, <1>3, HoldsNow, HoldsStill
<1>4. ASSUME NEW r \in Requests, Queried(r) PROVE NextHold(p, x) <=> WillHold(p, x)
  <2> DEFINE m == [action |-> "get_all_ports", req |-> r]
  <2>1. m \in SMsg /\ ~Writes(m, p) /\ SQ' = Append(SQ, m) /\ UNCHANGED ports
    BY <1>4 DEF Queried, SMsg, Writes, Topics
  <2> HIDE DEF m
  <2> QED BY <1>3, <2>1
<1>7. ASSUME Reading PROVE NextHold(p, x) <=> WillHold(p, x)
  <2>1. SQ # <<>> /\ ~Writes(SQ[1], p) /\ SQ' = Tail(SQ) /\ ports' = ports
    BY <1>7 DEF Reading, Topics, Writes
  <2> QED BY <1>0, <1>1, <2>1, HoldsNow, HoldsTaken
<1>8. ASSUME Writing PROVE NextHold(p, x) <=> WillHold(p, x)
  <2>1. SQ # <<>> /\ SQ' = Tail(SQ) /\ SQ[1].action = "update_port"
        /\ ports' = [ports EXCEPT ![SQ[1].port] = SQ[1].drone]
    BY <1>8 DEF Writing, Topics
  <2>2. CASE SQ[1].port = p
    <3>1. Writes(SQ[1], p) /\ ports'[p] = SQ[1].drone
      BY <1>0, <2>1, <2>2 DEF Writes, PortTable
    <3> QED BY <1>0, <1>1, <2>1, <3>1, HoldsNow, HoldsMade
  <2>3. CASE SQ[1].port # p
    <3>1. ~Writes(SQ[1], p) /\ ports'[p] = ports[p]
      BY <1>0, <2>1, <2>3 DEF Writes, PortTable
    <3> QED BY <1>0, <1>1, <2>1, <3>1, HoldsNow, HoldsTaken
  <2> QED BY <2>2, <2>3
<1>9. ASSUME \/ \E d \in Drones : GivesUp(d) \/ \E rec \in Registration : Noting(d, rec)
             \/ \E r \in Requests, d \in Drones, b \in Charge \cup {None},
                   k \in {"request_landing", "request_takeoff"} : Asks(r, d, k, b)
             \/ \E r \in Requests : \/ Starts(r) \/ Charges(r) \/ Lands(r) \/ Refuses(r)
                                    \/ AsksDrone(r) \/ Leaves(r) \/ Handles(r)
                                    \/ \E v : Answers(r, v)
             \/ Telling
      PROVE  NextHold(p, x) <=> WillHold(p, x)
  <2>1. SQ' = SQ /\ UNCHANGED ports
    BY <1>9 DEF GivesUp, Noting, Asks, Starts, Charges, Lands, Refuses, AsksDrone, Leaves,
                Handles, Answers, Telling, Topics
  <2> QED BY <1>2, <2>1
<1> QED BY <1>4, <1>7, <1>8, <1>9 DEF Effect

\* The port of such a write will hold what is written.
LEMMA HoldWritten ==
  ASSUME Inv, NEW p \in Ports, NEW d \in Drones \cup {None}, UNCHANGED ports,
         SQ' = Append(SQ, UpdateMsg(p, d))
  PROVE  \A x : NextHold(p, x) <=> x = d
<1>1. SQ \in Seq(SMsg)
  BY Known
<1>2. UpdateMsg(p, d) \in SMsg /\ Writes(UpdateMsg(p, d), p) /\ UpdateMsg(p, d).drone = d
  BY DEF SMsg, UpdateMsg, Writes
<1>3. \A x : NextHold(p, x) <=> Holds(SQ', ports', p, x)
  BY DEF NextHold
<1> QED BY <1>1, <1>2, <1>3, HoldsWritten

\* Any other port will hold what it would have held.
LEMMA HoldElse ==
  ASSUME Inv, NEW p \in Ports, NEW d \in Drones \cup {None}, UNCHANGED ports,
         SQ' = Append(SQ, UpdateMsg(p, d)), NEW o \in Ports, o # p
  PROVE  \A x : NextHold(o, x) <=> WillHold(o, x)
<1>1. SQ \in Seq(SMsg)
  BY Known
<1>2. UpdateMsg(p, d) \in SMsg /\ ~Writes(UpdateMsg(p, d), o)
  BY DEF SMsg, UpdateMsg, Writes
<1>3. \A x : NextHold(o, x) <=> Holds(SQ', ports', o, x)
  BY DEF NextHold
<1> QED BY <1>1, <1>2, <1>3, HoldsStill, HoldsNow

-----------------------------------------------------------------------------
(* Slots is kept. *)

\* A release of port p is on its way.
FreeSlot(m, p) == m.action = "free_slot" /\ m.port = p

\* Promised after the step.
NextPromised(r, p) == dm'[r] = "port" /\ answer'[r] = p

\* The parts of Slots after the step.
StandNext == \A d \in Drones : where'[d] # None => NextHold(where'[d], d)
PromiseNext == \A r \in Requests : \A p \in Ports :
                 NextPromised(r, p) => NextHold(p, request'[r].drone)
FreeNext == \A i \in DOMAIN PQ' : PQ'[i].action = "free_slot" =>
              /\ \E d \in Drones : NextHold(PQ'[i].port, d)
              /\ \A d \in Drones : where'[d] # PQ'[i].port
              /\ \A r \in Requests : ~NextPromised(r, PQ'[i].port)
OnceNext == \A i, j \in DOMAIN PQ' :
              /\ PQ'[i].action = "free_slot" /\ PQ'[j].action = "free_slot"
              /\ PQ'[i].port = PQ'[j].port
              => i = j

LEMMA SlotsNext == ASSUME StandNext, PromiseNext, FreeNext, OnceNext PROVE Slots'
<1>1. \A p, x : NextHold(p, x) <=>
        \/ \E i \in DOMAIN SQ' : /\ Writes(SQ'[i], p) /\ SQ'[i].drone = x
                                 /\ \A j \in DOMAIN SQ' : j > i => ~Writes(SQ'[j], p)
        \/ ports'[p] = x /\ \A i \in DOMAIN SQ' : ~Writes(SQ'[i], p)
  BY DEF NextHold, Holds
<1>2. StandingIsReserved'
  BY <1>1 DEF StandingIsReserved, StandNext, WillHold, SQ
<1>3. (\A r \in Requests : \A p \in Ports :
         Promised(r, p) => WillHold(p, request[r].drone))'
  BY <1>1 DEF PromiseNext, NextPromised, Promised, WillHold, SQ
<1>4. (\A i \in DOMAIN PQ : PQ[i].action = "free_slot" =>
         /\ \E d \in Drones : WillHold(PQ[i].port, d)
         /\ \A d \in Drones : where[d] # PQ[i].port
         /\ \A r \in Requests : ~Promised(r, PQ[i].port))'
  BY <1>1 DEF FreeNext, NextPromised, Promised, WillHold, SQ
<1> QED BY <1>2, <1>3, <1>4 DEF OnceNext, Slots

\* The port of a standing drone, of a promise, or of a release is held by a
\* drone, and each by one.
LEMMA Holders ==
  ASSUME Inv
  PROVE  /\ \A p \in Ports : \A x, y : WillHold(p, x) /\ WillHold(p, y) => x = y
         /\ \A d \in Drones : where[d] # None => where[d] \in Ports /\ WillHold(where[d], d)
         /\ \A r \in Requests, p \in Ports :
              Promised(r, p) => /\ WillHold(p, request[r].drone)
                                /\ Landing(r) /\ request[r].drone \in Drones
                                /\ where[request[r].drone] = None
         /\ \A i \in DOMAIN PQ : PQ[i].action = "free_slot" => PQ[i].port \in Ports
<1>1. \A p \in Ports : \A x, y : WillHold(p, x) /\ WillHold(p, y) => x = y
  BY HoldsOne, HoldsNow, Known
<1>2. \A d \in Drones : where[d] # None => where[d] \in Ports /\ WillHold(where[d], d)
  BY DEF Inv, Types, TypeOK, Slots, StandingIsReserved
<1>3. ASSUME NEW r \in Requests, NEW p \in Ports, Promised(r, p)
      PROVE  /\ WillHold(p, request[r].drone)
             /\ Landing(r) /\ request[r].drone \in Drones
             /\ where[request[r].drone] = None
  <2>1. dm[r] = "port" /\ WillHold(p, request[r].drone) /\ Landing(r)
    BY <1>3 DEF Promised, NextPromised, Inv, Slots, Handlers
  <2>2. request[r].drone \in Drones
    BY <2>1, Known DEF Query
  <2>3. where[request[r].drone] = None
    BY <2>1 DEF Inv, Askers
  <2> QED BY <2>1, <2>2, <2>3
<1>4. \A i \in DOMAIN PQ : PQ[i].action = "free_slot" => PQ[i].port \in Ports
  BY PortMessages, Known
<1> QED BY <1>1, <1>2, <1>3, <1>4

\* The step gives no port away: the same drones stand, what is promised was,
\* and what is released was going to be.
LEMMA SlotsStill ==
  ASSUME Inv, Effect, ~\E r \in Requests, o \in Ports : Reserves(r, o), ~Releases,
         where' = where,
         \A r \in Requests, p \in Ports :
            NextPromised(r, p) => Promised(r, p) /\ request'[r] = request[r],
         \A i \in DOMAIN PQ' : PQ'[i].action = "free_slot" =>
            \E j \in DOMAIN PQ : FreeSlot(PQ[j], PQ'[i].port),
         \A i, j \in DOMAIN PQ' :
            /\ PQ'[i].action = "free_slot" /\ PQ'[j].action = "free_slot"
            /\ PQ'[i].port = PQ'[j].port
            => i = j
  PROVE  Slots'
<1>1. \A p \in Ports : \A x : NextHold(p, x) <=> WillHold(p, x)
  BY HoldKept
<1>2. StandNext
  BY <1>1, Holders DEF StandNext
<1>3. \A r \in Requests : \A p \in Ports :
        NextPromised(r, p) => NextHold(p, request'[r].drone)
  BY <1>1, Holders
<1>4. ASSUME NEW i \in DOMAIN PQ', PQ'[i].action = "free_slot"
      PROVE  /\ \E d \in Drones : NextHold(PQ'[i].port, d)
             /\ \A d \in Drones : where'[d] # PQ'[i].port
             /\ \A r \in Requests : ~NextPromised(r, PQ'[i].port)
  <2>1. PICK j \in DOMAIN PQ : FreeSlot(PQ[j], PQ'[i].port)
    BY <1>4
  <2>2. PQ[j].action = "free_slot" /\ PQ[j].port = PQ'[i].port /\ PQ[j].port \in Ports
    BY <2>1, Holders DEF FreeSlot
  <2>3. /\ \E d \in Drones : WillHold(PQ[j].port, d)
        /\ \A d \in Drones : where[d] # PQ[j].port
        /\ \A r \in Requests : ~Promised(r, PQ[j].port)
    BY <2>2 DEF Inv, Slots
  <2>4. \A r \in Requests : ~NextPromised(r, PQ'[i].port)
    BY <2>2, <2>3
  <2> QED BY <1>1, <2>2, <2>3, <2>4
<1> QED BY <1>2, <1>3, <1>4, SlotsNext DEF PromiseNext, FreeNext, OnceNext

\* Only PortManager's writes lengthen StateStore's topic by a write.
LEMMA NotWriting ==
  ASSUME Inv, SQ' = SQ \/ (SQ # <<>> /\ SQ' = Tail(SQ))
              \/ \E m \in SMsg : m.action = "get_all_ports" /\ SQ' = Append(SQ, m)
  PROVE  ~(\E r \in Requests, o \in Ports : Reserves(r, o)) /\ ~Releases
<1>1. \A m \in SMsg : SQ' = Append(SQ, m) => SQ' # SQ /\ (SQ # <<>> => SQ' # Tail(SQ))
  BY Known, AppendProperties, HeadTailProperties, LenProperties
<1>2. ASSUME NEW o \in Ports, NEW d \in Drones \cup {None}, SQ' = Append(SQ, UpdateMsg(o, d))
      PROVE  FALSE
  <2>1. UpdateMsg(o, d) \in SMsg /\ UpdateMsg(o, d).action = "update_port"
    BY DEF UpdateMsg, SMsg
  <2>2. PICK m \in SMsg : m.action = "get_all_ports" /\ SQ' = Append(SQ, m)
    BY <1>1, <1>2, <2>1
  <2>3. m = UpdateMsg(o, d)
    <3>1. SQ'[Len(SQ) + 1] = m
      BY <2>2, Known, PutLast
    <3>2. SQ'[Len(SQ) + 1] = UpdateMsg(o, d)
      BY <1>2, <2>1, Known, PutLast
    <3> QED BY <3>1, <3>2
  <2> QED BY <2>1, <2>2, <2>3
<1>3. ASSUME NEW r \in Requests, NEW o \in Ports, Reserves(r, o) PROVE FALSE
  <2>1. request[r].drone \in Drones
    BY <1>3 DEF Reserves, Inv, Handlers, Types, Landing, Query
  <2> QED BY <1>2, <1>3, <2>1 DEF Reserves, Topics
<1>4. ASSUME Releases PROVE FALSE
  <2>1. PQ[1].port \in Ports
    BY <1>4, Known DEF Releases, PMsg
  <2> QED BY <1>2, <1>4, <2>1 DEF Releases, Topics
<1> QED BY <1>3, <1>4

LEMMA SlotsKept ==
  ASSUME Inv, Effect PROVE Slots'
<1>0. /\ StateTypes /\ Slots /\ Handlers /\ PQ \in Seq(PMsg)
      /\ None \notin Drones /\ None \notin Ports /\ "No free ports" \notin Ports
      /\ \A t \in PortTable : t # None
  BY TypesParts, Known, NoneAssumption DEF Inv
<1>a. /\ \A i, j \in DOMAIN PQ :
            /\ PQ[i].action = "free_slot" /\ PQ[j].action = "free_slot"
            /\ PQ[i].port = PQ[j].port
            => i = j
      /\ \A i \in DOMAIN PQ : PQ[i].action = "free_slot" => FreeSlot(PQ[i], PQ[i].port)
  BY <1>0 DEF Slots, FreeSlot
\* A step that gives no port away.
<1>1. ASSUME ~\E r \in Requests, o \in Ports : Reserves(r, o), ~Releases,
             where' = where,
             \A r \in Requests, p \in Ports :
                NextPromised(r, p) => Promised(r, p) /\ request'[r] = request[r],
             \/ PQ' = PQ
             \/ PQ # <<>> /\ PQ' = Tail(PQ)
             \/ \E m \in PMsg : m.action # "free_slot" /\ PQ' = Append(PQ, m)
      PROVE  Slots'
  <2>1. CASE PQ' = PQ
    BY <1>1, <1>a, <2>1, SlotsStill
  <2>2. CASE PQ # <<>> /\ PQ' = Tail(PQ)
    <3>1. Shorter(PQ, PQ')
      BY <1>0, <2>2, ShorterQueue
    <3>2. \A i \in DOMAIN PQ' : i + 1 \in DOMAIN PQ /\ PQ'[i] = PQ[i + 1] /\ i \in Nat
      BY <3>1 DEF Shorter
    <3>3. \A i \in DOMAIN PQ' : PQ'[i].action = "free_slot" =>
            \E j \in DOMAIN PQ : FreeSlot(PQ[j], PQ'[i].port)
      BY <1>a, <3>2
    <3>4. \A i, j \in DOMAIN PQ' :
            /\ PQ'[i].action = "free_slot" /\ PQ'[j].action = "free_slot"
            /\ PQ'[i].port = PQ'[j].port
            => i = j
      BY <1>a, <3>2
    <3> QED BY <1>1, <3>3, <3>4, SlotsStill
  <2>3. CASE \E m \in PMsg : m.action # "free_slot" /\ PQ' = Append(PQ, m)
    <3>1. PICK m \in PMsg : m.action # "free_slot" /\ PQ' = Append(PQ, m)
      BY <2>3
    <3>2. Longer(PQ, PQ', m)
      BY <1>0, <3>1, LongerQueue
    <3>3. \A i \in DOMAIN PQ' : PQ'[i].action = "free_slot" => i \in DOMAIN PQ /\ PQ'[i] = PQ[i]
      BY <3>1, <3>2 DEF Longer
    <3>4. \A i \in DOMAIN PQ' : PQ'[i].action = "free_slot" =>
            \E j \in DOMAIN PQ : FreeSlot(PQ[j], PQ'[i].port)
      BY <1>a, <3>3
    <3>5. \A i, j \in DOMAIN PQ' :
            /\ PQ'[i].action = "free_slot" /\ PQ'[j].action = "free_slot"
            /\ PQ'[i].port = PQ'[j].port
            => i = j
      BY <1>a, <3>3
    <3> QED BY <1>1, <3>4, <3>5, SlotsStill
  <2> QED BY <1>1, <2>1, <2>2, <2>3
<1>2. ASSUME SQ' = SQ \/ (SQ # <<>> /\ SQ' = Tail(SQ))
             \/ \E m \in SMsg : m.action = "get_all_ports" /\ SQ' = Append(SQ, m)
      PROVE  ~(\E r \in Requests, o \in Ports : Reserves(r, o)) /\ ~Releases
  BY <1>2, NotWriting
<1>3. ASSUME NEW r \in Requests, NEW d \in Drones, NEW b \in Charge \cup {None},
             NEW k \in {"request_landing", "request_takeoff"}, Asks(r, d, k, b)
      PROVE  Slots'
  <2>1. PQ' = PQ /\ SQ' = SQ /\ UNCHANGED <<where, answer>>
        /\ dm' = [dm EXCEPT ![r] = "inbox"]
        /\ \A q \in Requests : q # r => request'[q] = request[q]
    BY <1>0, <1>3 DEF Asks, Topics, StateTypes
  <2>2. \A q \in Requests, p \in Ports :
          NextPromised(q, p) => Promised(q, p) /\ request'[q] = request[q]
    BY <1>0, <2>1 DEF Promised, NextPromised, StateTypes
  <2> QED BY <1>1, <1>2, <2>1, <2>2
<1>4. ASSUME NEW r \in Requests, Handles(r) PROVE Slots'
  <2>1. /\ SQ' = SQ /\ UNCHANGED <<where, answer, request>>
        /\ \E z : dm' = [dm EXCEPT ![r] = z]
        /\ \E k \in {"request_landing", "get_port_status"} :
             PQ' = Append(PQ, [action |-> k, req |-> r])
    BY <1>4 DEF Handles, Topics, worldVars
  <2>2. \A k \in {"request_landing", "get_port_status"} : [action |-> k, req |-> r] \in PMsg
    BY DEF PMsg
  <2>3. answer[r] = None
    <3>1. 1 \in DOMAIN MQ /\ r = MQ[1].req
      BY <1>4, Known DEF Handles
    <3> QED BY <3>1, <1>0 DEF Inv, Order, Handlers
  <2>4. \A q \in Requests, p \in Ports :
          NextPromised(q, p) => Promised(q, p) /\ request'[q] = request[q]
    BY <1>0, <2>1, <2>3 DEF Promised, NextPromised, StateTypes
  <2>5. \E m \in PMsg : m.action # "free_slot" /\ PQ' = Append(PQ, m)
    BY <2>1, <2>2
  <2> QED BY <1>1, <1>2, <2>1, <2>4, <2>5
<1>5. ASSUME NEW r \in Requests, Lands(r) PROVE Slots'
  <2> DEFINE p == answer[r]
             d == request[r].drone
  <2>1. /\ dm[r] = "port" /\ p \in Ports /\ PQ' = PQ /\ SQ' = SQ
        /\ UNCHANGED <<answer, request>> /\ dm' = [dm EXCEPT ![r] = "done"]
        /\ where' = IF Hears(r) THEN [where EXCEPT ![d] = p] ELSE where
    BY <1>5 DEF Lands, Topics, ApproveLanding, worldVars
  <2>2. \A q \in Requests, o \in Ports : NextPromised(q, o) => Promised(q, o) /\ q # r
    BY <1>0, <2>1 DEF Promised, NextPromised, StateTypes
  <2>3. ~(\E q \in Requests, o \in Ports : Reserves(q, o)) /\ ~Releases
    BY <1>2, <2>1
  <2>4. CASE ~Hears(r)
    <3>1. where' = where
      BY <2>1, <2>4
    <3> QED BY <1>1, <2>1, <2>2, <2>3, <3>1
  <2>5. CASE Hears(r)
    <3>1. Promised(r, p) /\ WillHold(p, d) /\ d \in Drones
      BY <2>1, Holders DEF Promised, NextPromised
    <3> HIDE DEF p, d
    <3>2. where'[d] = p /\ \A e \in Drones : e # d => where'[e] = where[e]
      BY <1>0, <2>1, <2>5, <3>1 DEF StateTypes
    <3>3. \A o \in Ports : \A x : NextHold(o, x) <=> WillHold(o, x)
      BY <2>3, HoldKept
    <3>4. StandNext
      BY <2>1, <3>1, <3>2, <3>3, Holders DEF StandNext
    <3>5. \A q \in Requests : \A o \in Ports : NextPromised(q, o) => NextHold(o, request'[q].drone)
      BY <2>1, <2>2, <3>3, Holders
    <3>6. ASSUME NEW i \in DOMAIN PQ', PQ'[i].action = "free_slot"
          PROVE  /\ \E e \in Drones : NextHold(PQ'[i].port, e)
                 /\ \A e \in Drones : where'[e] # PQ'[i].port
                 /\ \A q \in Requests : ~NextPromised(q, PQ'[i].port)
      <4>1. PQ'[i] = PQ[i] /\ i \in DOMAIN PQ /\ PQ[i].port \in Ports
        BY <2>1, <3>6, Holders
      <4>2. PQ[i].port # p
        BY <1>0, <2>1, <3>1, <3>6, <4>1 DEF Slots
      <4>3. /\ \E e \in Drones : WillHold(PQ[i].port, e)
            /\ \A e \in Drones : where[e] # PQ[i].port
            /\ \A q \in Requests : ~Promised(q, PQ[i].port)
        BY <1>0, <3>6, <4>1 DEF Slots
      <4> QED BY <2>2, <3>1, <3>2, <3>3, <4>1, <4>2, <4>3
    <3> QED BY <1>a, <2>1, <3>4, <3>5, <3>6, SlotsNext DEF PromiseNext, FreeNext, OnceNext
  <2> QED BY <2>4, <2>5
<1>6. ASSUME NEW r \in Requests, Leaves(r) PROVE Slots'
  <2> DEFINE p == record[r].port
             d == request[r].drone
             m == [action |-> "free_slot", port |-> p]
  <2>1. /\ dm[r] = "drone" /\ p \in Ports /\ PQ' = Append(PQ, m) /\ SQ' = SQ
        /\ UNCHANGED <<answer, request>> /\ dm' = [dm EXCEPT ![r] = "done"]
        /\ where' = IF Hears(r) THEN [where EXCEPT ![d] = None] ELSE where
    BY <1>6, Known DEF Leaves, Topics, ApproveTakeoff, worldVars
  <2>2. d \in Drones /\ Hears(r) /\ where[d] = p
    <3>1. Takeoff(r) /\ d \in Drones
      BY <1>0, <2>1, Known DEF Handlers, Query
    <3>2. Hears(r)
      BY <2>1, <3>1 DEF Inv, Askers, Hears, Takeoff
    <3>3. where[d] = p
      BY <1>6 DEF Leaves, Inv, Records
    <3> QED BY <3>1, <3>2, <3>3
  <2>3. m \in PMsg /\ m.action = "free_slot" /\ m.port = p
    BY <2>1 DEF PMsg
  <2> HIDE DEF p, d, m
  <2>4. Longer(PQ, PQ', m)
    BY <1>0, <2>1, <2>3, LongerQueue
  <2>5. where'[d] = None /\ \A e \in Drones : e # d => where'[e] = where[e]
    BY <1>0, <2>1, <2>2 DEF StateTypes
  <2>6. \A o \in Ports : \A x : NextHold(o, x) <=> WillHold(o, x)
    BY <1>2, <2>1, HoldKept
  <2>7. \A q \in Requests, o \in Ports : NextPromised(q, o) => Promised(q, o)
    BY <1>0, <2>1 DEF Promised, NextPromised, StateTypes
  <2>8. StandNext
    BY <2>5, <2>6, Holders DEF StandNext
  <2>9. \A q \in Requests : \A o \in Ports : NextPromised(q, o) => NextHold(o, request'[q].drone)
    BY <2>1, <2>6, <2>7, Holders
  <2>10. WillHold(p, d) /\ \A e \in Drones : where[e] = p => e = d
    BY <1>0, <2>1, <2>2, Holders
  <2>11. \A q \in Requests : ~Promised(q, p)
    BY <1>0, <2>1, <2>2, <2>10, Holders
  <2>12. \A i \in DOMAIN PQ : PQ[i].action = "free_slot" => PQ[i].port # p
    BY <1>0, <2>2 DEF Slots
  <2>13. ASSUME NEW i \in DOMAIN PQ', PQ'[i].action = "free_slot"
         PROVE  /\ \E e \in Drones : NextHold(PQ'[i].port, e)
                /\ \A e \in Drones : where'[e] # PQ'[i].port
                /\ \A q \in Requests : ~NextPromised(q, PQ'[i].port)
    <3>1. CASE PQ'[i].port = p
      BY <1>0, <2>1, <2>2, <2>5, <2>6, <2>7, <2>10, <2>11, <3>1
    <3>2. CASE PQ'[i].port # p
      <4>1. i \in DOMAIN PQ /\ PQ'[i] = PQ[i] /\ PQ[i].port \in Ports
        BY <2>3, <2>4, <2>13, <3>2, Holders DEF Longer
      <4>2. /\ \E e \in Drones : WillHold(PQ[i].port, e)
            /\ \A e \in Drones : where[e] # PQ[i].port
            /\ \A q \in Requests : ~Promised(q, PQ[i].port)
        BY <1>0, <2>13, <4>1 DEF Slots
      <4>3. \A e \in Drones : where'[e] # PQ[i].port
        BY <1>0, <2>5, <4>1, <4>2
      <4> QED BY <2>6, <2>7, <4>1, <4>2, <4>3
    <3> QED BY <3>1, <3>2
  <2>14. \A i, j \in DOMAIN PQ' :
            /\ PQ'[i].action = "free_slot" /\ PQ'[j].action = "free_slot"
            /\ PQ'[i].port = PQ'[j].port
            => i = j
    BY <1>a, <2>3, <2>4, <2>12 DEF Longer
  <2> QED BY <2>8, <2>9, <2>13, <2>14, SlotsNext DEF PromiseNext, FreeNext, OnceNext
<1>7. ASSUME NEW r \in Requests, NEW p \in Ports, Reserves(r, p) PROVE Slots'
  <2> DEFINE d == request[r].drone
  <2>1. /\ pm[r] = "waiting" /\ Landing(r) /\ snapshot[r] # None /\ snapshot[r][p] = None
        /\ PQ' = PQ /\ SQ' = Append(SQ, UpdateMsg(p, d)) /\ UNCHANGED <<ports, dm, where, request>>
        /\ answer' = IF dm[r] \in {"port", "ports"} THEN [answer EXCEPT ![r] = p] ELSE answer
    BY <1>7 DEF Reserves, Reply, Topics, worldVars
  <2>2. d \in Drones
    BY <1>0, <2>1 DEF StateTypes, Landing, Query
  <2> HIDE DEF d
  <2>3. WillHold(p, None)
    <3>1. snapshot[r] = ports /\ \A j \in DOMAIN SQ : SQ[j].action # "update_port"
      BY <2>1 DEF Inv, Reads
    <3> QED BY <2>1, <3>1 DEF WillHold, Writes, SQ
  <2>4. \A x : NextHold(p, x) <=> x = d
    BY <2>1, <2>2, HoldWritten
  <2>5. \A o \in Ports : o # p => \A x : NextHold(o, x) <=> WillHold(o, x)
    BY <2>1, <2>2, HoldElse
  <2>6. \A x \in Drones : ~WillHold(p, x)
    BY <1>0, <2>3, Holders
  <2>7. StandNext
    BY <2>1, <2>5, <2>6, Holders DEF StandNext
  <2>8. \A q \in Requests, o \in Ports : NextPromised(q, o) => Promised(q, o) \/ (q = r /\ o = p)
    BY <1>0, <2>1 DEF Promised, NextPromised, StateTypes
  <2>9. \A q \in Requests : \A o \in Ports : NextPromised(q, o) => NextHold(o, request'[q].drone)
    <3>1. SUFFICES ASSUME NEW q \in Requests, NEW o \in Ports, NextPromised(q, o)
                   PROVE NextHold(o, request'[q].drone)
      OBVIOUS
    <3>2. CASE q = r /\ o = p
      BY <2>1, <2>4, <3>2 DEF d
    <3>3. CASE Promised(q, o)
      <4>1. WillHold(o, request[q].drone) /\ request[q].drone \in Drones
        BY <3>3, Holders
      <4>2. o # p
        BY <2>6, <4>1
      <4> QED BY <2>1, <2>5, <4>1, <4>2
    <3> QED BY <2>8, <3>1, <3>2, <3>3
  <2>10. ASSUME NEW i \in DOMAIN PQ', PQ'[i].action = "free_slot"
         PROVE  /\ \E e \in Drones : NextHold(PQ'[i].port, e)
                /\ \A e \in Drones : where'[e] # PQ'[i].port
                /\ \A q \in Requests : ~NextPromised(q, PQ'[i].port)
    <3>1. PQ'[i] = PQ[i] /\ i \in DOMAIN PQ /\ PQ[i].port \in Ports
      BY <2>1, <2>10, Holders
    <3>2. /\ \E e \in Drones : WillHold(PQ[i].port, e)
          /\ \A e \in Drones : where[e] # PQ[i].port
          /\ \A q \in Requests : ~Promised(q, PQ[i].port)
      BY <1>0, <2>10, <3>1 DEF Slots
    <3>3. PQ[i].port # p
      BY <2>6, <3>2
    <3> QED BY <2>1, <2>5, <2>8, <3>1, <3>2, <3>3
  <2> QED BY <1>a, <2>1, <2>7, <2>9, <2>10, SlotsNext DEF PromiseNext, FreeNext, OnceNext
<1>8. ASSUME Releases PROVE Slots'
  <2> DEFINE p == PQ[1].port
  <2>1. /\ PQ # <<>> /\ PQ[1].action = "free_slot" /\ PQ' = Tail(PQ) /\ p \in Ports
        /\ SQ' = Append(SQ, UpdateMsg(p, None)) /\ UNCHANGED <<ports, dm, answer, where, request>>
    BY <1>8, Known, Holders DEF Releases, Topics, worldVars, handlerVars
  <2>2. Shorter(PQ, PQ')
    BY <1>0, <2>1, ShorterQueue
  <2>3. 1 \in DOMAIN PQ /\ \A i \in DOMAIN PQ' :
                             i + 1 \in DOMAIN PQ /\ PQ'[i] = PQ[i + 1] /\ i \in Nat \ {0}
    BY <2>2 DEF Shorter
  <2>4. /\ \A d \in Drones : where[d] # p
        /\ \A r \in Requests : ~Promised(r, p)
    BY <1>0, <2>1, <2>3 DEF Slots
  <2>5. \A i \in DOMAIN PQ' : PQ'[i].action = "free_slot" => PQ'[i].port # p
    BY <1>a, <2>1, <2>3
  <2> HIDE DEF p
  <2>6. \A o \in Ports : o # p => \A x : NextHold(o, x) <=> WillHold(o, x)
    BY <2>1, HoldElse
  <2>7. \A q \in Requests, o \in Ports : NextPromised(q, o) <=> Promised(q, o)
    BY <2>1 DEF Promised, NextPromised
  <2>8. StandNext
    BY <2>1, <2>4, <2>6, Holders DEF StandNext
  <2>9. \A q \in Requests : \A o \in Ports : NextPromised(q, o) => NextHold(o, request'[q].drone)
    BY <2>1, <2>4, <2>6, <2>7, Holders
  <2>10. ASSUME NEW i \in DOMAIN PQ', PQ'[i].action = "free_slot"
         PROVE  /\ \E e \in Drones : NextHold(PQ'[i].port, e)
                /\ \A e \in Drones : where'[e] # PQ'[i].port
                /\ \A q \in Requests : ~NextPromised(q, PQ'[i].port)
    <3>1. PQ'[i] = PQ[i + 1] /\ i + 1 \in DOMAIN PQ /\ PQ[i + 1].port \in Ports
      BY <2>3, <2>10, Holders
    <3>2. /\ \E e \in Drones : WillHold(PQ[i + 1].port, e)
          /\ \A e \in Drones : where[e] # PQ[i + 1].port
          /\ \A q \in Requests : ~Promised(q, PQ[i + 1].port)
      BY <1>0, <2>10, <3>1 DEF Slots
    <3> QED BY <2>1, <2>5, <2>6, <2>7, <2>10, <3>1, <3>2
  <2>11. \A i, j \in DOMAIN PQ' :
            /\ PQ'[i].action = "free_slot" /\ PQ'[j].action = "free_slot"
            /\ PQ'[i].port = PQ'[j].port
            => i = j
    BY <1>a, <2>3
  <2> QED BY <2>8, <2>9, <2>10, <2>11, SlotsNext DEF PromiseNext, FreeNext, OnceNext
<1>9. ASSUME NEW r \in Requests, NEW v \in PortTable \cup {"No free ports"}, Answers(r, v)
      PROVE  Slots'
  <2>1. /\ UNCHANGED <<dm, where, request>> /\ PQ' = PQ /\ SQ' = SQ
        /\ answer' = IF dm[r] \in {"port", "ports"} THEN [answer EXCEPT ![r] = v] ELSE answer
        /\ Landing(r) => v = "No free ports"
    BY <1>9 DEF Answers, Reply, Topics, worldVars
  <2>2. dm[r] = "port" => v \notin Ports
    BY <1>0, <2>1 DEF Handlers
  <2>3. \A q \in Requests, p \in Ports :
          NextPromised(q, p) => Promised(q, p) /\ request'[q] = request[q]
    BY <1>0, <2>1, <2>2 DEF Promised, NextPromised, StateTypes
  <2> QED BY <1>1, <1>2, <2>1, <2>3
<1>10. ASSUME NEW r \in Requests, Queried(r) PROVE Slots'
  <2>1. PQ # <<>> /\ PQ' = Tail(PQ) /\ UNCHANGED <<dm, answer, where, request>>
        /\ SQ' = Append(SQ, [action |-> "get_all_ports", req |-> r])
    BY <1>10 DEF Queried, Topics, worldVars
  <2>2. [action |-> "get_all_ports", req |-> r] \in SMsg
    BY DEF SMsg
  <2>3. \A q \in Requests, p \in Ports :
          NextPromised(q, p) => Promised(q, p) /\ request'[q] = request[q]
    BY <2>1 DEF Promised, NextPromised
  <2>4. ~(\E q \in Requests, o \in Ports : Reserves(q, o)) /\ ~Releases
    BY <1>2, <2>1, <2>2
  <2> QED BY <1>1, <2>1, <2>3, <2>4
<1>11. ASSUME NEW r \in Requests, Refuses(r) \/ AsksDrone(r) PROVE Slots'
  <2>1. /\ PQ' = PQ /\ SQ' = SQ /\ UNCHANGED <<answer, where, request>>
        /\ \E z \in {"done", "drone"} : dm' = [dm EXCEPT ![r] = z]
    BY <1>11 DEF Refuses, AsksDrone, Refuse, Topics, worldVars
  <2>2. \A q \in Requests, p \in Ports :
          NextPromised(q, p) => Promised(q, p) /\ request'[q] = request[q]
    BY <1>0, <2>1 DEF Promised, NextPromised, StateTypes
  <2> QED BY <1>1, <1>2, <2>1, <2>2
<1>12. ASSUME \/ \E d \in Drones : GivesUp(d) \/ \E rec \in Registration : Noting(d, rec)
              \/ \E r \in Requests : Starts(r) \/ Charges(r)
              \/ Telling \/ Reading \/ Writing
       PROVE  Slots'
  <2>1. PQ' = PQ /\ UNCHANGED <<dm, answer, where, request>>
    BY <1>12 DEF GivesUp, Noting, Starts, Charges, Telling, Reading, Writing, Topics,
                 handlerVars, worldVars
  <2>2. SQ' = SQ \/ (SQ # <<>> /\ SQ' = Tail(SQ))
    BY <1>12 DEF GivesUp, Noting, Starts, Charges, Telling, Reading, Writing, Topics
  <2>3. \A q \in Requests, p \in Ports :
          NextPromised(q, p) => Promised(q, p) /\ request'[q] = request[q]
    BY <2>1 DEF Promised, NextPromised
  <2> QED BY <1>1, <1>2, <2>1, <2>2, <2>3
<1> HIDE <1>0, <1>a
<1> QED
  BY <1>3, <1>4, <1>5, <1>6, <1>7, <1>8, <1>9, <1>10, <1>11, <1>12 DEF Effect

-----------------------------------------------------------------------------
(* Records is kept. *)

\* WillSay, of a queue and the records of DroneRegistry.
Says(q, g, d, p) ==
  \/ \E i \in DOMAIN q : /\ Registers(q[i], d) /\ q[i].port = p
                         /\ \A j \in DOMAIN q : j > i => ~Registers(q[j], d)
  \/ /\ g[d] # None /\ g[d].port = p
     /\ \A i \in DOMAIN q : ~Registers(q[i], d)

LEMMA SaysNow == \A d, p : WillSay(d, p) <=> Says(RQ, registry, d, p)
BY DEF WillSay, Says

\* The last registration of a drone counts,
LEMMA SaysRegistered ==
  ASSUME NEW q \in Seq(RMsg), NEW g, NEW m \in RMsg, NEW d, Registers(m, d)
  PROVE  Says(Append(q, m), g, d, m.port)
<1>1. Longer(q, Append(q, m), m)
  BY LongerQueue
<1>2. \A j \in DOMAIN Append(q, m) : ~(j > Len(q) + 1)
  BY <1>1 DEF Longer
<1> HIDE DEF Registers
<1> QED BY <1>1, <1>2 DEF Says, Longer

\* other messages do not,
LEMMA SaysStill ==
  ASSUME NEW q \in Seq(RMsg), NEW g, NEW m \in RMsg, NEW d, NEW p, ~Registers(m, d),
         Says(q, g, d, p)
  PROVE  Says(Append(q, m), g, d, p)
<1>1. Longer(q, Append(q, m), m)
  BY LongerQueue
<1>2. \A i \in DOMAIN q : Append(q, m)[i] = q[i] /\ i \in DOMAIN Append(q, m)
  BY <1>1 DEF Longer
<1>3. \A i \in DOMAIN Append(q, m) : i \in DOMAIN q \/ ~Registers(Append(q, m)[i], d)
  BY <1>1 DEF Longer
<1> HIDE DEF Registers
<1> QED BY <1>2, <1>3 DEF Says

\* and the registry comes to say what was registered.
LEMMA SaysTaken ==
  ASSUME NEW q \in Seq(RMsg), q # <<>>, NEW g, NEW h, NEW d, NEW p, Says(q, g, d, p),
         Registers(q[1], d) => h[d] # None /\ h[d].port = q[1].port,
         ~Registers(q[1], d) /\ g[d] # None => h[d] # None /\ h[d].port = g[d].port
  PROVE  Says(Tail(q), h, d, p)
<1>1. Shorter(q, Tail(q))
  BY ShorterQueue
<1> DEFINE s == Tail(q)
<1>2. /\ \A i \in DOMAIN s : i + 1 \in DOMAIN q /\ s[i] = q[i + 1] /\ i \in Nat \ {0}
      /\ \A i \in DOMAIN q : i # 1 => i - 1 \in DOMAIN s /\ s[i - 1] = q[i]
      /\ DOMAIN q \subseteq Nat \ {0} /\ 1 \in DOMAIN q
  BY <1>1 DEF Shorter
<1> HIDE DEF s, Registers
<1>3. CASE \E i \in DOMAIN q : /\ Registers(q[i], d) /\ q[i].port = p
                               /\ \A j \in DOMAIN q : j > i => ~Registers(q[j], d)
  <2>1. PICK i \in DOMAIN q : /\ Registers(q[i], d) /\ q[i].port = p
                              /\ \A j \in DOMAIN q : j > i => ~Registers(q[j], d)
    BY <1>3
  <2>2. CASE i = 1
    <3>1. \A j \in DOMAIN s : ~Registers(s[j], d)
      BY <1>2, <2>1, <2>2
    <3> QED BY <2>1, <2>2, <3>1 DEF Says, s
  <2>3. CASE i # 1
    <3>1. i - 1 \in DOMAIN s /\ s[i - 1] = q[i] /\ i \in Nat
      BY <1>2, <2>3
    <3>2. \A j \in DOMAIN s : j > i - 1 => ~Registers(s[j], d)
      BY <1>2, <2>1, <3>1
    <3> QED BY <2>1, <3>1, <3>2 DEF Says, s
  <2> QED BY <2>2, <2>3
<1>4. CASE /\ g[d] # None /\ g[d].port = p
           /\ \A i \in DOMAIN q : ~Registers(q[i], d)
  BY <1>2, <1>4 DEF Says, s
<1> QED BY <1>3, <1>4 DEF Says

\* At most one handler of DroneManager waits.
LEMMA OneWaits ==
  ASSUME Inv, NEW q \in Requests, NEW r \in Requests, dm[q] \in Waiting, dm[r] \in Waiting
  PROVE  q = r
BY SMTT(20), Known DEF Inv, Order, Waiting

\* The messages in DroneRegistry's topic.
LEMMA RegistryMessages ==
  ASSUME RQ \in Seq(RMsg)
  PROVE  \A i \in DOMAIN RQ :
           /\ RQ[i] \in RMsg
           /\ RQ[i].action = "get_drone" => RQ[i].req \in Requests
           /\ RQ[i].action = "update_battery" => RQ[i].drone \in Drones /\ RQ[i].battery \in Charge
           /\ RQ[i].action = "register_drone" => RQ[i].drone \in Drones /\ RQ[i].port \in Ports
<1>1. \A i \in DOMAIN RQ : RQ[i] \in RMsg
  BY ElementOfSeq, LenProperties
<1> QED BY <1>1 DEF RMsg

\* The parts of Records.
SayPart == \A d \in Drones : where[d] # None => WillSay(d, where[d])
AskPart == \A i \in DOMAIN RQ : RQ[i].action = "get_drone" =>
             /\ dm[RQ[i].req] \in {"drone", "done"}
             /\ dm[RQ[i].req] = "drone" =>
                  \A j \in DOMAIN RQ : j > i => RQ[j].action # "register_drone"
HavePart == \A r \in Requests : dm[r] = "drone" /\ record[r] # None =>
              record[r].port = where[request[r].drone]
SayNext == \A d \in Drones : where'[d] # None => Says(RQ', registry', d, where'[d])

LEMMA RecordsParts ==
  /\ Records <=> SayPart /\ AskPart /\ HavePart
  /\ SayNext => SayPart'
BY DEF Records, SayPart, AskPart, HavePart, SayNext, Says, WillSay

\* What is said of the drones is kept,
LEMMA SayKept == ASSUME Inv, Effect PROVE SayNext
<1>0. /\ StateTypes /\ RQ \in Seq(RMsg) /\ None \notin Ports
      /\ \A d \in Drones : where[d] # None => Says(RQ, registry, d, where[d])
  BY TypesParts, Known, RecordsParts, SaysNow, NoneAssumption DEF Inv, SayPart
<1>1. ASSUME RQ' = RQ, UNCHANGED <<registry, where>> PROVE SayNext
  BY <1>0, <1>1 DEF SayNext
<1>2. ASSUME NEW m \in RMsg, m.action # "register_drone", RQ' = Append(RQ, m),
             UNCHANGED <<registry, where>>
      PROVE  SayNext
  <2>1. \A d : ~Registers(m, d)
    BY <1>2 DEF Registers
  <2> QED BY <1>0, <1>2, <2>1, SaysStill DEF SayNext
<1>3. ASSUME NEW r \in Requests, Lands(r) PROVE SayNext
  <2> DEFINE d == request[r].drone
             b == request[r].battery
             m == RegisterMsg(r)
             n == ReportMsg(d, b)
  <2>1. /\ dm[r] = "port" /\ answer[r] \in Ports /\ UNCHANGED registry
        /\ where' = IF Hears(r) THEN [where EXCEPT ![d] = answer[r]] ELSE where
        /\ RQ' = IF b = None THEN Append(RQ, m) ELSE Append(Append(RQ, m), n)
    BY <1>3 DEF Lands, Topics, ApproveLanding, worldVars
  <2>2. d \in Drones /\ where[d] = None /\ b \in Charge \cup {None}
    <3>1. Promised(r, answer[r]) /\ request[r] \in Query
      BY <2>1, Known DEF Promised
    <3> QED BY <2>1, <3>1, Holders DEF Query
  <2>3. /\ m \in RMsg /\ m.action = "register_drone" /\ m.drone = d /\ m.port = answer[r]
        /\ b # None => n \in RMsg /\ n.action # "register_drone"
    BY <2>1, <2>2 DEF RMsg, RegisterMsg, ReportMsg
  <2> HIDE DEF d, b, m, n
  <2>4. Append(RQ, m) \in Seq(RMsg)
    BY <1>0, <2>3, PutLast
  <2>5. \A e \in Drones : where[e] # None => Says(Append(RQ, m), registry, e, where[e])
    <3>1. \A e \in Drones : where[e] # None => ~Registers(m, e)
      BY <2>2, <2>3 DEF Registers
    <3> QED BY <1>0, <2>3, <3>1, SaysStill
  <2>6. Says(Append(RQ, m), registry, d, answer[r])
    BY <1>0, <2>3, SaysRegistered DEF Registers
  <2>7. \A e \in Drones : where'[e] # None => Says(Append(RQ, m), registry, e, where'[e])
    BY <1>0, <2>1, <2>2, <2>5, <2>6 DEF StateTypes
  <2>8. CASE b = None
    BY <2>1, <2>7, <2>8 DEF SayNext
  <2>9. CASE b # None
    <3>1. \A e : ~Registers(n, e)
      BY <2>3, <2>9 DEF Registers
    <3>2. \A e \in Drones : where'[e] # None =>
            Says(Append(Append(RQ, m), n), registry, e, where'[e])
      BY <2>3, <2>4, <2>7, <2>9, <3>1, SaysStill
    <3> QED BY <2>1, <2>9, <3>2 DEF SayNext
  <2> QED BY <2>8, <2>9
<1>4. ASSUME NEW r \in Requests, AsksDrone(r) PROVE SayNext
  <2> DEFINE m == [action |-> "get_drone", req |-> r]
  <2>1. m \in RMsg /\ m.action # "register_drone" /\ RQ' = Append(RQ, m)
        /\ UNCHANGED <<registry, where>>
    BY <1>4 DEF AsksDrone, Topics, worldVars, RMsg
  <2> HIDE DEF m
  <2> QED BY <1>2, <2>1
<1>5. ASSUME NEW r \in Requests, Leaves(r) PROVE SayNext
  <2>1. request[r] \in Query /\ UNCHANGED registry /\ RQ' = RQ
        /\ where' = IF Hears(r) THEN [where EXCEPT ![request[r].drone] = None] ELSE where
    BY <1>5, Known DEF Leaves, Topics, ApproveTakeoff, worldVars
  <2>2. request[r].drone \in Drones
    BY <2>1 DEF Query
  <2>3. \A e \in Drones : where'[e] # None => where'[e] = where[e]
    BY <1>0, <2>1, <2>2 DEF StateTypes
  <2> QED BY <1>0, <2>1, <2>3 DEF SayNext
<1>6. ASSUME NEW d \in Drones, NEW rec \in Registration, Noting(d, rec) PROVE SayNext
  <2>1. /\ RQ # <<>> /\ RQ' = Tail(RQ) /\ d = RQ[1].drone
        /\ registry' = [registry EXCEPT ![d] = rec] /\ where' = where
        /\ RQ[1].action = "register_drone" => rec.port = RQ[1].port
        /\ RQ[1].action # "register_drone" => rec.port = FieldsOf(d).port
    BY <1>6 DEF Noting, Topics, worldVars
  <2>2. registry'[d] = rec /\ \A e \in Drones : e # d => registry'[e] = registry[e]
    BY <1>0, <2>1 DEF StateTypes
  <2>3. rec # None /\ 1 \in DOMAIN RQ /\ (RQ[1].action = "register_drone" => RQ[1].drone = d)
    BY <2>1, Known, NoneAssumption
  <2>4. ASSUME NEW e \in Drones, where[e] # None
        PROVE  Says(RQ', registry', e, where[e])
    <3>1. Says(RQ, registry, e, where[e])
      BY <1>0, <2>4
    <3>2. Registers(RQ[1], e) => registry'[e] # None /\ registry'[e].port = RQ[1].port
      BY <2>1, <2>2, <2>3 DEF Registers
    <3>3. ~Registers(RQ[1], e) /\ registry[e] # None =>
            registry'[e] # None /\ registry'[e].port = registry[e].port
      BY <2>1, <2>2, <2>3 DEF Registers, FieldsOf
    <3> QED BY <1>0, <2>1, <3>1, <3>2, <3>3, SaysTaken
  <2> QED BY <2>1, <2>4 DEF SayNext
<1>7. ASSUME Telling PROVE SayNext
  <2>1. /\ RQ # <<>> /\ RQ' = Tail(RQ) /\ UNCHANGED <<registry, where>>
        /\ RQ[1].action = "get_drone"
    BY <1>7 DEF Telling, Topics, worldVars
  <2>2. \A e : ~Registers(RQ[1], e)
    BY <2>1 DEF Registers
  <2> QED BY <1>0, <2>1, <2>2, SaysTaken DEF SayNext
<1>8. ASSUME NEW r \in Requests, Starts(r) PROVE SayNext
  <2> DEFINE m == [action |-> "charging_started", drone |-> request[r].drone]
  <2>1. request[r].drone \in Drones
    BY <1>8, Known DEF Starts, Inv, Charging, Query
  <2>2. m \in RMsg /\ m.action # "register_drone" /\ RQ' = Append(RQ, m)
        /\ UNCHANGED <<registry, where>>
    BY <1>8, <2>1 DEF Starts, Topics, worldVars, RMsg
  <2> HIDE DEF m
  <2> QED BY <1>2, <2>2
<1>9. ASSUME NEW r \in Requests, Charges(r) PROVE SayNext
  <2> DEFINE m == ReportMsg(request[r].drone, charging[r] + 1)
  <2>1. request[r].drone \in Drones /\ charging[r] + 1 \in Charge
    BY <1>9, Known DEF Charges, Query
  <2>2. m \in RMsg /\ m.action # "register_drone" /\ RQ' = Append(RQ, m)
        /\ UNCHANGED <<registry, where>>
    BY <1>9, <2>1 DEF Charges, Topics, RMsg, ReportMsg
  <2> HIDE DEF m
  <2> QED BY <1>2, <2>2
<1>10. ASSUME \/ \E d \in Drones : GivesUp(d)
              \/ \E r \in Requests, d \in Drones, b \in Charge \cup {None},
                    k \in {"request_landing", "request_takeoff"} : Asks(r, d, k, b)
              \/ \E r \in Requests : \/ Handles(r) \/ Refuses(r) \/ Queried(r)
                                     \/ \E v : Answers(r, v) \/ Reserves(r, v)
              \/ Reading \/ Writing \/ Releases
       PROVE  SayNext
  <2>1. RQ' = RQ /\ UNCHANGED <<registry, where>>
    BY <1>10 DEF GivesUp, Asks, Handles, Refuses, Refuse, Queried, Answers, Reserves, Reading,
                 Writing, Releases, Topics, worldVars
  <2> QED BY <1>1, <2>1
<1> QED BY <1>3, <1>4, <1>5, <1>6, <1>7, <1>8, <1>9, <1>10 DEF Effect

\* a drone is asked for after what is to be known of it was published,
LEMMA AskKept == ASSUME Inv, Effect PROVE AskPart'
<1>0. /\ dm \in [Requests -> {"none", "inbox", "done"} \cup Waiting]
      /\ RQ \in Seq(RMsg) /\ AskPart
      /\ \A i \in DOMAIN RQ : RQ[i].action = "get_drone" => RQ[i].req \in Requests
  BY TypesParts, Known, RecordsParts, RegistryMessages DEF Inv, StateTypes
\* A handler that does not come to "drone".
<1>1. ASSUME NEW r \in Requests, dm[r] # "drone" => dm[r] # "done",
             NEW z, dm' = [dm EXCEPT ![r] = z], z # "drone", dm[r] = "drone" => z = "done",
             RQ' = RQ
      PROVE  AskPart'
  BY <1>0, <1>1 DEF AskPart
<1>2. ASSUME NEW m \in RMsg, m.action \notin {"register_drone", "get_drone"},
             RQ' = Append(RQ, m), UNCHANGED dm
      PROVE  AskPart'
  <2>1. Longer(RQ, RQ', m)
    BY <1>0, <1>2, LongerQueue
  <2> QED BY <1>0, <1>2, <2>1 DEF AskPart, Longer
<1>3. ASSUME RQ # <<>>, RQ' = Tail(RQ), UNCHANGED dm PROVE AskPart'
  <2>1. Shorter(RQ, RQ')
    BY <1>0, <1>3, ShorterQueue
  <2> QED BY <1>0, <1>3, <2>1 DEF AskPart, Shorter
<1>4. ASSUME NEW r \in Requests, NEW d \in Drones, NEW b \in Charge \cup {None},
             NEW k \in {"request_landing", "request_takeoff"}, Asks(r, d, k, b)
      PROVE  AskPart'
  <2>1. dm[r] = "none"
    BY <1>4 DEF Asks, Fresh, Inv, Handlers
  <2> QED BY <1>1, <1>4, <2>1 DEF Asks, Topics
<1>5. ASSUME NEW r \in Requests, Handles(r) PROVE AskPart'
  <2>1. dm[r] = "inbox"
    BY <1>5, Known DEF Handles, Inv, Order
  <2>2. RQ' = RQ /\ \E z \in {"port", "ports"} : dm' = [dm EXCEPT ![r] = z]
    BY <1>5 DEF Handles, Topics
  <2> QED BY <1>1, <2>1, <2>2
<1>6. ASSUME NEW r \in Requests, Refuses(r) \/ Leaves(r) PROVE AskPart'
  <2>1. dm[r] \in {"port", "drone"} /\ RQ' = RQ /\ dm' = [dm EXCEPT ![r] = "done"]
    BY <1>6 DEF Refuses, Refuse, Leaves, ApproveTakeoff, Topics
  <2> QED BY <1>1, <2>1
<1>7. ASSUME NEW r \in Requests, Lands(r) PROVE AskPart'
  <2> DEFINE b == request[r].battery
             m == RegisterMsg(r)
             n == ReportMsg(request[r].drone, b)
  <2>1. /\ dm[r] = "port" /\ answer[r] \in Ports /\ dm' = [dm EXCEPT ![r] = "done"]
        /\ RQ' = IF b = None THEN Append(RQ, m) ELSE Append(Append(RQ, m), n)
    BY <1>7 DEF Lands, Topics, ApproveLanding
  <2>2. request[r].drone \in Drones /\ b \in Charge \cup {None}
    BY <2>1, Known DEF Query
  <2>3. /\ m \in RMsg /\ m.action # "get_drone"
        /\ b # None => n \in RMsg /\ n.action # "get_drone"
    BY <2>1, <2>2 DEF RMsg, RegisterMsg, ReportMsg
  <2>4. \A q \in Requests : dm'[q] # "drone"
    <3>1. \A q \in Requests : dm[q] = "drone" => q = r
      BY <2>1, OneWaits DEF Waiting
    <3> QED BY <1>0, <2>1, <3>1
  <2> HIDE DEF b, m, n
  <2>5. Longer(RQ, Append(RQ, m), m) /\ Append(RQ, m) \in Seq(RMsg)
    BY <1>0, <2>3, LongerQueue, PutLast
  <2>6. b # None => Longer(Append(RQ, m), Append(Append(RQ, m), n), n)
    BY <2>3, <2>5, LongerQueue
  <2>7. \A i \in DOMAIN RQ' : RQ'[i].action = "get_drone" => i \in DOMAIN RQ /\ RQ'[i] = RQ[i]
    <3>1. \A i \in DOMAIN Append(RQ, m) :
            Append(RQ, m)[i].action = "get_drone" => i \in DOMAIN RQ /\ Append(RQ, m)[i] = RQ[i]
      BY <2>3, <2>5 DEF Longer
    <3>2. CASE b = None
      BY <2>1, <3>1, <3>2
    <3>3. CASE b # None
      BY <2>1, <2>3, <2>6, <3>1, <3>3 DEF Longer
    <3> QED BY <3>2, <3>3
  <2>8. \A q \in Requests : dm[q] \in {"drone", "done"} => dm'[q] \in {"drone", "done"}
    BY <1>0, <2>1
  <2>9. ASSUME NEW i \in DOMAIN RQ', RQ'[i].action = "get_drone"
        PROVE  RQ'[i].req \in Requests /\ dm'[RQ'[i].req] \in {"drone", "done"}
    <3>1. i \in DOMAIN RQ /\ RQ'[i] = RQ[i]
      BY <2>7, <2>9
    <3>2. RQ[i].req \in Requests /\ dm[RQ[i].req] \in {"drone", "done"}
      BY <1>0, <2>9, <3>1 DEF AskPart
    <3> QED BY <2>8, <3>1, <3>2
  <2> QED BY <2>4, <2>9 DEF AskPart
<1>8. ASSUME NEW r \in Requests, AsksDrone(r) PROVE AskPart'
  <2> DEFINE m == [action |-> "get_drone", req |-> r]
  <2>1. /\ m \in RMsg /\ m.action = "get_drone" /\ m.req = r /\ RQ' = Append(RQ, m)
        /\ dm[r] = "ports" /\ dm' = [dm EXCEPT ![r] = "drone"]
    BY <1>8 DEF AsksDrone, Topics, RMsg
  <2> HIDE DEF m
  <2>2. Longer(RQ, RQ', m)
    BY <1>0, <2>1, LongerQueue
  <2>3. \A q \in Requests : dm[q] # "drone"
    <3>1. \A q \in Requests : dm[q] = "drone" => q = r
      BY <2>1, OneWaits DEF Waiting
    <3> QED BY <2>1, <3>1
  <2>4. ASSUME NEW i \in DOMAIN RQ', RQ'[i].action = "get_drone"
        PROVE  /\ dm'[RQ'[i].req] \in {"drone", "done"}
               /\ dm'[RQ'[i].req] = "drone" =>
                    \A j \in DOMAIN RQ' : j > i => RQ'[j].action # "register_drone"
    <3>1. CASE i = Len(RQ) + 1
      <4>1. \A j \in DOMAIN RQ' : ~(j > i)
        BY <2>2, <3>1 DEF Longer
      <4>2. RQ'[i].req = r
        BY <2>1, <2>2, <3>1 DEF Longer
      <4> QED BY <1>0, <2>1, <4>1, <4>2
    <3>2. CASE i # Len(RQ) + 1
      <4>1. i \in DOMAIN RQ /\ RQ'[i] = RQ[i]
        BY <2>2, <3>2 DEF Longer
      <4>2. RQ[i].req \in Requests /\ dm[RQ[i].req] \in {"drone", "done"}
        BY <1>0, <2>4, <4>1 DEF AskPart
      <4>3. dm'[RQ[i].req] = "done"
        BY <1>0, <2>1, <2>3, <4>2
      <4> QED BY <4>1, <4>3
    <3> QED BY <3>1, <3>2
  <2> QED BY <2>4 DEF AskPart
<1>9. ASSUME NEW r \in Requests, Starts(r) \/ Charges(r) PROVE AskPart'
  <2>1. request[r].drone \in Drones
    BY <1>9, Known DEF Starts, Charges, Inv, Charging, Query
  <2>2. CASE Starts(r)
    <3> DEFINE m == [action |-> "charging_started", drone |-> request[r].drone]
    <3>1. m \in RMsg /\ m.action \notin {"register_drone", "get_drone"} /\ RQ' = Append(RQ, m)
          /\ UNCHANGED dm
      BY <2>1, <2>2 DEF Starts, Topics, handlerVars, RMsg
    <3> HIDE DEF m
    <3> QED BY <1>2, <3>1
  <2>3. CASE Charges(r)
    <3> DEFINE m == ReportMsg(request[r].drone, charging[r] + 1)
    <3>1. m \in RMsg /\ m.action \notin {"register_drone", "get_drone"} /\ RQ' = Append(RQ, m)
          /\ UNCHANGED dm
      BY <2>1, <2>3 DEF Charges, Topics, handlerVars, RMsg, ReportMsg
    <3> HIDE DEF m
    <3> QED BY <1>2, <3>1
  <2> QED BY <1>9, <2>2, <2>3
<1>10. ASSUME Telling \/ \E d \in Drones, rec \in Registration : Noting(d, rec) PROVE AskPart'
  BY <1>3, <1>10 DEF Telling, Noting, Topics, handlerVars
<1>11. ASSUME \/ \E d \in Drones : GivesUp(d)
              \/ \E r \in Requests : \/ Queried(r) \/ \E v : Answers(r, v) \/ Reserves(r, v)
              \/ Reading \/ Writing \/ Releases
       PROVE  AskPart'
  <2>1. RQ' = RQ /\ UNCHANGED dm
    BY <1>11 DEF GivesUp, Queried, Answers, Reserves, Reading, Writing, Releases, Topics,
                 handlerVars
  <2> QED BY <1>0, <2>1 DEF AskPart
<1> QED BY <1>4, <1>5, <1>6, <1>7, <1>8, <1>9, <1>10, <1>11 DEF Effect

\* and what DroneManager has of it says where it stands.
LEMMA HaveKept == ASSUME Inv, Effect PROVE HavePart'
<1>0. /\ StateTypes /\ Handlers /\ HavePart /\ AskPart
  BY TypesParts, RecordsParts DEF Inv
<1>1. ASSUME UNCHANGED <<record, request, where>>,
             \A r \in Requests : dm'[r] = "drone" => dm[r] = "drone" \/ record[r] = None
      PROVE  HavePart'
  BY <1>0, <1>1 DEF HavePart
<1>2. ASSUME NEW r \in Requests, NEW d \in Drones, NEW b \in Charge \cup {None},
             NEW k \in {"request_landing", "request_takeoff"}, Asks(r, d, k, b)
      PROVE  HavePart'
  <2>1. /\ dm' = [dm EXCEPT ![r] = "inbox"] /\ UNCHANGED <<record, where>>
        /\ \A q \in Requests : q # r => request'[q] = request[q]
    BY <1>0, <1>2 DEF Asks, StateTypes
  <2> QED BY <1>0, <2>1 DEF HavePart, StateTypes
<1>3. ASSUME NEW r \in Requests, Handles(r) \/ Refuses(r) \/ AsksDrone(r) PROVE HavePart'
  <2>1. /\ UNCHANGED <<record, request, where>>
        /\ \E z \in {"port", "ports", "done", "drone"} :
             dm' = [dm EXCEPT ![r] = z] /\ (z = "drone" => dm[r] = "ports")
    BY <1>3 DEF Handles, Refuses, Refuse, AsksDrone, worldVars
  <2>2. \A q \in Requests : dm'[q] = "drone" => dm[q] = "drone" \/ record[q] = None
    BY <1>0, <2>1 DEF StateTypes, Handlers
  <2> QED BY <1>1, <2>1, <2>2
\* Nobody moves while DroneManager decides about a takeoff.
<1>4. ASSUME NEW r \in Requests, Lands(r) \/ Leaves(r) PROVE HavePart'
  <2>1. dm[r] \in {"port", "drone"} /\ dm' = [dm EXCEPT ![r] = "done"]
    BY <1>4 DEF Lands, Leaves, ApproveLanding, ApproveTakeoff
  <2>2. \A q \in Requests : dm'[q] # "drone"
    <3>1. \A q \in Requests : dm[q] = "drone" => q = r
      BY <2>1, OneWaits DEF Waiting
    <3> QED BY <1>0, <2>1, <3>1 DEF StateTypes
  <2> QED BY <2>2 DEF HavePart
<1>5. ASSUME Telling PROVE HavePart'
  <2> DEFINE r == RQ[1].req
             d == request[r].drone
  <2>1. /\ RQ # <<>> /\ RQ[1].action = "get_drone" /\ UNCHANGED <<dm, request, where>>
        /\ record' = IF dm[r] # "drone" THEN record ELSE [record EXCEPT ![r] = FieldsOf(d)]
    BY <1>5 DEF Telling, worldVars
  <2>2. r \in Requests /\ 1 \in DOMAIN RQ /\ DOMAIN RQ \subseteq Nat \ {0}
    BY <2>1, Known, RegistryMessages, ShorterQueue DEF Shorter
  <2>3. CASE dm[r] # "drone"
    BY <1>1, <2>1, <2>3
  <2>4. CASE dm[r] = "drone"
    <3>1. \A j \in DOMAIN RQ : RQ[j].action # "register_drone"
      BY <1>0, <2>1, <2>2, <2>4 DEF AskPart
    <3>2. d \in Drones /\ where[d] # None
      <4>1. Takeoff(r) /\ request[r] \in Query
        BY <2>2, <2>4, <1>0, Known DEF Handlers
      <4> QED BY <2>2, <2>4, <4>1 DEF Inv, Askers, Query
    <3>3. WillSay(d, where[d])
      BY <3>2, RecordsParts DEF Inv, SayPart
    <3>4. registry[d] # None /\ registry[d].port = where[d]
      BY <3>1, <3>3 DEF WillSay, Registers
    <3>5. FieldsOf(d).port = where[d]
      BY <3>4 DEF FieldsOf
    <3> HIDE DEF r, d
    <3>6. \A q \in Requests : q # r => record'[q] = record[q]
      BY <1>0, <2>1 DEF StateTypes
    <3>7. record'[r].port = where[d]
      BY <1>0, <2>1, <2>2, <2>4, <3>5 DEF StateTypes
    <3>8. ASSUME NEW q \in Requests, dm'[q] = "drone", record'[q] # None
          PROVE  record'[q].port = where'[request'[q].drone]
      BY <1>0, <2>1, <3>6, <3>7, <3>8 DEF HavePart, d
    <3> QED BY <3>8 DEF HavePart
  <2> QED BY <2>3, <2>4
<1>6. ASSUME \/ \E d \in Drones : GivesUp(d) \/ \E rec \in Registration : Noting(d, rec)
             \/ \E r \in Requests : \/ Queried(r) \/ Starts(r) \/ Charges(r)
                                    \/ \E v : Answers(r, v) \/ Reserves(r, v)
             \/ Reading \/ Writing \/ Releases
      PROVE  HavePart'
  <2>1. UNCHANGED <<record, request, where, dm>>
    BY <1>6 DEF GivesUp, Noting, Queried, Starts, Charges, Answers, Reserves, Reading, Writing,
                Releases, handlerVars, worldVars
  <2> QED BY <1>1, <2>1
<1> QED BY <1>2, <1>3, <1>4, <1>5, <1>6 DEF Effect

LEMMA RecordsKept == ASSUME Inv, Effect PROVE Records'
<1>1. SayPart' /\ AskPart' /\ HavePart'
  BY SayKept, AskKept, HaveKept, RecordsParts
<1> QED BY <1>1 DEF Records, SayPart, AskPart, HavePart

-----------------------------------------------------------------------------
(* Charging is kept. *)

\* The messages in ChargingManager's topic.
LEMMA ChargingMessages ==
  ASSUME CQ \in Seq(CMsg) PROVE \A i \in DOMAIN CQ : CQ[i] \in CMsg /\ CQ[i].req \in Requests
<1>1. \A i \in DOMAIN CQ : CQ[i] \in CMsg
  BY ElementOfSeq, LenProperties
<1> QED BY <1>1 DEF CMsg

\* The charge of a drone that stands where request r brought it.
ChargedBy(d, r) ==
  /\ charging[r] # None => charge[d] = charging[r]
  /\ charging[r] = None /\ request[r].battery # None => charge[d] = request[r].battery

\* The parts of Charging.
QueuedPart == /\ \A i, j \in DOMAIN CQ : CQ[i].req = CQ[j].req => i = j
              /\ \A i \in DOMAIN CQ :
                   /\ dm[CQ[i].req] = "done" /\ charging[CQ[i].req] = None
                   /\ request[CQ[i].req] # None /\ request[CQ[i].req].battery \in Charge
ThreadPart == \A r \in Requests : charging[r] # None => dm[r] = "done"
SessionPart == \A d \in Drones : session[d] # None =>
                 /\ dm[session[d]] = "done" /\ request[session[d]] # None
                 /\ request[session[d]].drone = d /\ where[d] # None
                 /\ ChargedBy(d, session[d])

LEMMA ChargingParts == Charging <=> QueuedPart /\ ThreadPart /\ SessionPart
BY DEF Charging, QueuedPart, ThreadPart, SessionPart, ChargedBy

LEMMA ChargingKept == ASSUME Inv, Effect PROVE Charging'
<1>0. /\ StateTypes /\ QueuedPart /\ ThreadPart /\ SessionPart
      /\ CQ \in Seq(CMsg) /\ (\A i \in DOMAIN CQ : CQ[i].req \in Requests)
      /\ None \notin Ports
  BY TypesParts, ChargingParts, Known, ChargingMessages, NoneAssumption DEF Inv
<1>a. SUFFICES QueuedPart' /\ ThreadPart' /\ SessionPart'
  BY DEF Charging, QueuedPart, ThreadPart, SessionPart, ChargedBy
\* What has ended stays as it was.
<1>1. ASSUME UNCHANGED <<charging, where, charge, session>>, CQ' = CQ,
             \A r \in Requests : dm[r] = "done" => dm'[r] = "done" /\ request'[r] = request[r]
      PROVE  QueuedPart' /\ ThreadPart' /\ SessionPart'
  <2>1. QueuedPart'
    BY <1>0, <1>1 DEF QueuedPart
  <2>2. ThreadPart'
    BY <1>0, <1>1 DEF ThreadPart
  <2>3. SessionPart'
    BY <1>0, <1>1 DEF SessionPart, ChargedBy, StateTypes
  <2> QED BY <2>1, <2>2, <2>3
<1>2. ASSUME NEW r \in Requests, NEW d \in Drones, NEW b \in Charge \cup {None},
             NEW k \in {"request_landing", "request_takeoff"}, Asks(r, d, k, b)
      PROVE  QueuedPart' /\ ThreadPart' /\ SessionPart'
  <2>1. dm[r] = "none"
    BY <1>2 DEF Asks, Fresh, Inv, Handlers
  <2>2. \A q \in Requests : dm[q] = "done" => dm'[q] = "done" /\ request'[q] = request[q]
    BY <1>0, <1>2, <2>1 DEF Asks, StateTypes
  <2> QED BY <1>1, <1>2, <2>2 DEF Asks, Topics
<1>3. ASSUME NEW r \in Requests, Handles(r) \/ Refuses(r) \/ AsksDrone(r)
      PROVE  QueuedPart' /\ ThreadPart' /\ SessionPart'
  <2>1. dm[r] # "done"
    <3>1. Handles(r) => dm[r] = "inbox"
      BY Known DEF Handles, Inv, Order
    <3> QED BY <1>3, <3>1 DEF Refuses, AsksDrone
  <2>2. /\ UNCHANGED <<request, charging, where, charge, session>> /\ CQ' = CQ
        /\ \E z : dm' = [dm EXCEPT ![r] = z]
    BY <1>3 DEF Handles, Refuses, Refuse, AsksDrone, Topics, worldVars
  <2>3. \A q \in Requests : dm[q] = "done" => dm'[q] = "done"
    BY <1>0, <2>1, <2>2 DEF StateTypes
  <2> QED BY <1>1, <2>2, <2>3
<1>4. ASSUME NEW r \in Requests, Lands(r) PROVE QueuedPart' /\ ThreadPart' /\ SessionPart'
  <2> DEFINE d == request[r].drone
             b == request[r].battery
             m == ChargeMsg(r)
  <2>1. /\ dm[r] = "port" /\ answer[r] \in Ports /\ UNCHANGED <<request, charging>>
        /\ dm' = [dm EXCEPT ![r] = "done"]
        /\ CQ' = IF b \in {None, Full} THEN CQ ELSE Append(CQ, m)
    BY <1>4 DEF Lands, ApproveLanding, Topics
  <2>2. IF Hears(r)
        THEN /\ where' = [where EXCEPT ![d] = answer[r]]
             /\ charge' = [charge EXCEPT ![d] = IF b = None THEN 0 ELSE b]
             /\ session' = [session EXCEPT ![d] = r]
        ELSE UNCHANGED <<where, charge, session>>
    BY <1>4 DEF Lands, ApproveLanding, worldVars
  <2>3. d \in Drones /\ b \in Charge \cup {None} /\ request[r] # None
    BY <2>1, Known, NoneAssumption DEF Query
  <2>4. m \in CMsg /\ m.req = r
    BY DEF CMsg, ChargeMsg
  <2>5. charging[r] = None /\ \A i \in DOMAIN CQ : CQ[i].req # r
    BY <1>0, <2>1 DEF ThreadPart, QueuedPart
  <2> HIDE DEF d, b, m
  <2>6. \A q \in Requests : q # r => dm'[q] = dm[q]
    BY <1>0, <2>1 DEF StateTypes
  <2>7. dm'[r] = "done"
    BY <1>0, <2>1 DEF StateTypes
  <2>8. QueuedPart'
    <3>1. CASE CQ' = CQ
      BY <1>0, <2>1, <2>6, <2>5, <3>1 DEF QueuedPart
    <3>2. CASE b \notin {None, Full} /\ CQ' = Append(CQ, m)
      <4>1. Longer(CQ, CQ', m)
        BY <1>0, <2>4, <3>2, LongerQueue
      <4>2. \A i, j \in DOMAIN CQ' : CQ'[i].req = CQ'[j].req => i = j
        BY <1>0, <2>4, <2>5, <4>1 DEF QueuedPart, Longer
      <4>3. ASSUME NEW i \in DOMAIN CQ'
            PROVE  /\ dm'[CQ'[i].req] = "done" /\ charging'[CQ'[i].req] = None
                   /\ request'[CQ'[i].req] # None /\ request'[CQ'[i].req].battery \in Charge
        <5>1. CASE i \in DOMAIN CQ
          BY <1>0, <2>1, <2>5, <2>6, <4>1, <5>1 DEF QueuedPart, Longer
        <5>2. CASE i = Len(CQ) + 1
          BY <2>1, <2>3, <2>4, <2>5, <2>7, <3>2, <4>1, <5>2 DEF Longer, b
        <5> QED BY <4>1, <5>1, <5>2 DEF Longer
      <4> QED BY <4>2, <4>3 DEF QueuedPart
    <3> QED BY <2>1, <3>1, <3>2
  <2>9. ThreadPart'
    BY <1>0, <2>1, <2>6, <2>7 DEF ThreadPart
  <2>10. SessionPart'
    <3>1. ASSUME NEW e \in Drones, session'[e] # None
          PROVE  /\ dm'[session'[e]] = "done" /\ request'[session'[e]] # None
                 /\ request'[session'[e]].drone = e /\ where'[e] # None
                 /\ charging'[session'[e]] # None => charge'[e] = charging'[session'[e]]
                 /\ charging'[session'[e]] = None /\ request'[session'[e]].battery # None =>
                      charge'[e] = request'[session'[e]].battery
      <4>1. CASE Hears(r) /\ e = d
        <5>1. session'[e] = r /\ where'[e] = answer[r] /\ charge'[e] = IF b = None THEN 0 ELSE b
          BY <1>0, <2>2, <4>1 DEF StateTypes
        <5> QED BY <1>0, <2>1, <2>3, <2>5, <2>7, <4>1, <5>1 DEF ChargedBy, d, b
      <4>2. CASE ~(Hears(r) /\ e = d)
        <5>1. session'[e] = session[e] /\ where'[e] = where[e] /\ charge'[e] = charge[e]
          BY <1>0, <2>2, <2>3, <4>2 DEF StateTypes
        <5>2. session[e] \in Requests
          BY <1>0, <3>1, <5>1 DEF StateTypes
        <5> QED BY <1>0, <2>1, <2>6, <2>7, <3>1, <5>1, <5>2 DEF SessionPart, ChargedBy
      <4> QED BY <4>1, <4>2
    <3> QED BY <3>1 DEF SessionPart, ChargedBy
  <2> QED BY <2>8, <2>9, <2>10
<1>5. ASSUME NEW r \in Requests, Leaves(r) PROVE QueuedPart' /\ ThreadPart' /\ SessionPart'
  <2> DEFINE d == request[r].drone
  <2>1. /\ dm[r] = "drone" /\ UNCHANGED <<request, charging, charge>> /\ CQ' = CQ
        /\ dm' = [dm EXCEPT ![r] = "done"]
    BY <1>5 DEF Leaves, ApproveTakeoff, Topics, worldVars
  <2>2. IF Hears(r)
        THEN where' = [where EXCEPT ![d] = None] /\ session' = [session EXCEPT ![d] = None]
        ELSE UNCHANGED <<where, session>>
    BY <1>5 DEF Leaves, ApproveTakeoff, worldVars
  <2>3. d \in Drones
    BY <2>1, Known DEF Query
  <2> HIDE DEF d
  <2>4. \A q \in Requests : dm[q] = "done" => dm'[q] = "done"
    BY <1>0, <2>1 DEF StateTypes
  <2>5. QueuedPart'
    BY <1>0, <2>1, <2>4 DEF QueuedPart
  <2>6. ThreadPart'
    BY <1>0, <2>1, <2>4 DEF ThreadPart
  <2>7. \A e \in Drones : session'[e] # None => session'[e] = session[e] /\ where'[e] = where[e]
    BY <1>0, <2>2, <2>3 DEF StateTypes
  <2>8. SessionPart'
    BY <1>0, <2>1, <2>4, <2>7 DEF SessionPart, ChargedBy, StateTypes
  <2> QED BY <2>5, <2>6, <2>8
<1>6. ASSUME NEW r \in Requests, Starts(r) PROVE QueuedPart' /\ ThreadPart' /\ SessionPart'
  <2>1. /\ CQ # <<>> /\ r = CQ[1].req /\ CQ' = Tail(CQ)
        /\ charging' = [charging EXCEPT ![r] = request[r].battery]
        /\ UNCHANGED <<dm, request, where, charge, session>>
    BY <1>6 DEF Starts, Topics, handlerVars, worldVars
  <2>2. Shorter(CQ, CQ')
    BY <1>0, <2>1, ShorterQueue
  <2>3. dm[r] = "done" /\ charging[r] = None /\ request[r].battery \in Charge
    BY <1>0, <2>1, <2>2 DEF QueuedPart, Shorter
  <2>4. \A i \in DOMAIN CQ' : CQ'[i].req # r
    BY <1>0, <2>1, <2>2 DEF QueuedPart, Shorter
  <2>5. charging'[r] = request[r].battery /\ \A q \in Requests : q # r => charging'[q] = charging[q]
    BY <1>0, <2>1 DEF StateTypes
  <2>6. QueuedPart'
    BY <1>0, <2>1, <2>2, <2>4, <2>5 DEF QueuedPart, Shorter
  <2>7. ThreadPart'
    BY <1>0, <2>1, <2>3, <2>5 DEF ThreadPart
  <2>8. SessionPart'
    <3>1. ASSUME NEW e \in Drones, session[e] # None
          PROVE  /\ charging'[session[e]] # None => charge[e] = charging'[session[e]]
                 /\ charging'[session[e]] = None /\ request[session[e]].battery # None =>
                      charge[e] = request[session[e]].battery
      <4>1. ChargedBy(e, session[e]) /\ session[e] \in Requests
        BY <1>0, <3>1 DEF SessionPart, StateTypes
      <4>2. CASE session[e] = r
        BY <2>3, <2>5, <4>1, <4>2, NoneAssumption DEF ChargedBy
      <4>3. CASE session[e] # r
        BY <2>5, <4>1, <4>3 DEF ChargedBy
      <4> QED BY <4>2, <4>3
    <3> QED BY <1>0, <2>1, <3>1 DEF SessionPart, ChargedBy
  <2> QED BY <2>6, <2>7, <2>8
<1>7. ASSUME NEW r \in Requests, Charges(r) PROVE QueuedPart' /\ ThreadPart' /\ SessionPart'
  <2> DEFINE d == request[r].drone
  <2>1. /\ charging[r] # None /\ charging[r] + 1 \in Charge
        /\ charging' = [charging EXCEPT ![r] = charging[r] + 1]
        /\ charge' = IF session[d] = r THEN [charge EXCEPT ![d] = charging[r] + 1] ELSE charge
        /\ UNCHANGED <<dm, request, where, session>> /\ CQ' = CQ
    BY <1>7 DEF Charges, Topics, handlerVars
  <2>2. d \in Drones
    BY <2>1, Known DEF Query
  <2>3. \A i \in DOMAIN CQ : CQ[i].req # r
    BY <1>0, <2>1 DEF QueuedPart
  <2>4. charging'[r] = charging[r] + 1
        /\ \A q \in Requests : q # r => charging'[q] = charging[q]
    BY <1>0, <2>1 DEF StateTypes
  <2>5. QueuedPart'
    BY <1>0, <2>1, <2>3, <2>4 DEF QueuedPart
  <2>6. ThreadPart'
    BY <1>0, <2>1, <2>4 DEF ThreadPart
  <2>7. SessionPart'
    <3>1. ASSUME NEW e \in Drones, session[e] # None
          PROVE  /\ charging'[session[e]] # None => charge'[e] = charging'[session[e]]
                 /\ charging'[session[e]] = None /\ request[session[e]].battery # None =>
                      charge'[e] = request[session[e]].battery
      <4>1. ChargedBy(e, session[e]) /\ session[e] \in Requests /\ request[session[e]].drone = e
        BY <1>0, <3>1 DEF SessionPart, StateTypes
      <4>2. CASE session[e] = r
        <5>1. e = d /\ charge'[e] = charging[r] + 1
          BY <1>0, <2>1, <4>1, <4>2 DEF StateTypes
        <5> QED BY <2>1, <2>4, <4>2, <5>1, NoneAssumption
      <4>3. CASE session[e] # r
        <5>1. charge'[e] = charge[e]
          BY <1>0, <2>1, <2>2, <4>3 DEF StateTypes
        <5> QED BY <2>4, <4>1, <4>3, <5>1 DEF ChargedBy
      <4> QED BY <4>2, <4>3
    <3> QED BY <1>0, <2>1, <3>1 DEF SessionPart, ChargedBy
  <2> QED BY <2>5, <2>6, <2>7
<1>8. ASSUME \/ \E d \in Drones : GivesUp(d) \/ \E rec \in Registration : Noting(d, rec)
             \/ \E r \in Requests : Queried(r) \/ \E v : Answers(r, v) \/ Reserves(r, v)
             \/ Reading \/ Writing \/ Releases \/ Telling
      PROVE  QueuedPart' /\ ThreadPart' /\ SessionPart'
  <2>1. UNCHANGED <<dm, request, charging, where, charge, session>> /\ CQ' = CQ
    BY <1>8 DEF GivesUp, Noting, Queried, Answers, Reserves, Reading, Writing, Releases,
                Telling, Topics, handlerVars, worldVars
  <2> QED BY <1>1, <2>1
<1> QED BY <1>2, <1>3, <1>4, <1>5, <1>6, <1>7, <1>8 DEF Effect

-----------------------------------------------------------------------------
(* Batteries is kept. *)

ReportsOf(m, d) == m.action = "update_battery" /\ m.drone = d

\* Since drone d last registered, queue q and record g say at most c of it.
Told(q, g, c, d) ==
  /\ \A i \in DOMAIN q :
       /\ ReportsOf(q[i], d)
       /\ \A j \in DOMAIN q : j > i => ~Registers(q[j], d)
       => q[i].battery <= c
  /\ g # None /\ (\A i \in DOMAIN q : ~Registers(q[i], d)) => AtMost(g.battery, c)

\* A report of no more than it has, or of another drone, changes nothing,
LEMMA ToldMore ==
  ASSUME NEW q \in Seq(RMsg), NEW g \in Registration \cup {None}, NEW c \in Charge, NEW e \in Charge,
         NEW m \in RMsg, NEW d, ~Registers(m, d), ReportsOf(m, d) => m.battery <= e,
         c <= e, Told(q, g, c, d),
         \A i \in DOMAIN q : ReportsOf(q[i], d) => q[i].battery \in Charge
  PROVE  Told(Append(q, m), g, e, d)
<1>1. Longer(q, Append(q, m), m)
  BY LongerQueue
<1> DEFINE s == Append(q, m)
<1>2. /\ \A i \in DOMAIN s : i \in DOMAIN q \/ s[i] = m
      /\ \A i \in DOMAIN q : i \in DOMAIN s /\ s[i] = q[i]
  BY <1>1 DEF Longer
<1> HIDE DEF s, Registers, ReportsOf
<1>3. ASSUME NEW i \in DOMAIN s, ReportsOf(s[i], d),
             \A j \in DOMAIN s : j > i => ~Registers(s[j], d)
      PROVE  s[i].battery <= e
  <2>1. CASE i \in DOMAIN q
    <3>1. q[i].battery <= c /\ s[i] = q[i] /\ q[i].battery \in Charge
      BY <1>2, <1>3, <2>1 DEF Told
    <3> QED BY <3>1 DEF Charge
  <2>2. CASE s[i] = m
    BY <1>3, <2>2
  <2> QED BY <1>2, <2>1, <2>2
<1>4. ASSUME g # None, \A i \in DOMAIN s : ~Registers(s[i], d) PROVE AtMost(g.battery, e)
  <2>1. AtMost(g.battery, c)
    BY <1>2, <1>4 DEF Told
  <2>2. g.battery \in Charge \cup {None}
    BY <1>4 DEF Registration
  <2> QED BY <2>1, <2>2 DEF AtMost, Charge
<1>5. Told(s, g, e, d)
  BY <1>3, <1>4 DEF Told
<1> QED BY <1>5 DEF s

\* a registration forgets what was said,
LEMMA ToldRegistered ==
  ASSUME NEW q \in Seq(RMsg), NEW g, NEW c, NEW m \in RMsg, NEW d, Registers(m, d)
  PROVE  Told(Append(q, m), g, c, d)
<1>1. Longer(q, Append(q, m), m)
  BY LongerQueue
<1> DEFINE s == Append(q, m)
<1>2. /\ Len(q) + 1 \in DOMAIN s /\ s[Len(q) + 1] = m /\ Len(q) \in Nat
      /\ \A i \in DOMAIN s : i # Len(q) + 1 => Len(q) + 1 > i
  BY <1>1 DEF Longer
<1>3. ~ReportsOf(m, d)
  BY DEF ReportsOf, Registers
<1> HIDE DEF s, Registers, ReportsOf
<1>4. Told(s, g, c, d)
  BY <1>2, <1>3 DEF Told
<1> QED BY <1>4 DEF s

\* and what DroneRegistry takes it then says itself.
LEMMA ToldTaken ==
  ASSUME NEW q \in Seq(RMsg), q # <<>>, NEW g, NEW h, NEW c, NEW d, Told(q, g, c, d),
         Registers(q[1], d) /\ h # None => h.battery = None,
         ReportsOf(q[1], d) /\ h # None => h.battery = q[1].battery,
         ~Registers(q[1], d) /\ ~ReportsOf(q[1], d) /\ h # None /\ h.battery # None =>
           g # None /\ h.battery = g.battery
  PROVE  Told(Tail(q), h, c, d)
<1>1. Shorter(q, Tail(q))
  BY ShorterQueue
<1> DEFINE s == Tail(q)
<1>2. /\ \A i \in DOMAIN s : i + 1 \in DOMAIN q /\ s[i] = q[i + 1] /\ i \in Nat \ {0}
      /\ \A i \in DOMAIN q : i # 1 => i - 1 \in DOMAIN s /\ s[i - 1] = q[i]
      /\ DOMAIN q \subseteq Nat \ {0} /\ 1 \in DOMAIN q
  BY <1>1 DEF Shorter
<1> HIDE DEF s, Registers, ReportsOf
<1>3. ASSUME NEW i \in DOMAIN s, ReportsOf(s[i], d),
             \A j \in DOMAIN s : j > i => ~Registers(s[j], d)
      PROVE  s[i].battery <= c
  <2>1. i + 1 \in DOMAIN q /\ s[i] = q[i + 1]
    BY <1>2
  <2>2. ASSUME NEW j \in DOMAIN q, j > i + 1 PROVE ~Registers(q[j], d)
    <3>1. j - 1 \in DOMAIN s /\ s[j - 1] = q[j] /\ j - 1 > i
      BY <1>2, <2>2
    <3> QED BY <1>3, <3>1
  <2> QED BY <1>3, <2>1, <2>2 DEF Told
<1>4. ASSUME h # None, \A i \in DOMAIN s : ~Registers(s[i], d) PROVE AtMost(h.battery, c)
  <2>1. \A i \in DOMAIN q : i # 1 => ~Registers(q[i], d)
    BY <1>2, <1>4
  <2>2. CASE Registers(q[1], d)
    BY <1>4, <2>2 DEF AtMost
  <2>3. CASE ReportsOf(q[1], d)
    <3>1. \A j \in DOMAIN q : j > 1 => ~Registers(q[j], d)
      BY <2>1
    <3>2. q[1].battery <= c
      BY <1>2, <2>3, <3>1 DEF Told
    <3> QED BY <1>4, <2>3, <3>2 DEF AtMost
  <2>4. CASE ~Registers(q[1], d) /\ ~ReportsOf(q[1], d)
    BY <1>4, <2>1, <2>4 DEF AtMost, Told
  <2> QED BY <2>2, <2>3, <2>4
<1>5. Told(s, h, c, d)
  BY <1>3, <1>4 DEF Told
<1> QED BY <1>5 DEF s

\* The parts of Batteries.
TruePart == \A d \in Drones : where[d] # None /\ d \notin haunted => Told(RQ, registry[d], charge[d], d)
KnownPart == \A r \in Requests :
               dm[r] = "drone" /\ record[r] # None /\ request[r].drone \notin haunted
                 => AtMost(record[r].battery, charge[request[r].drone])
TrueNext == \A d \in Drones :
              where'[d] # None /\ d \notin haunted' => Told(RQ', registry'[d], charge'[d], d)
KnownNext == \A r \in Requests :
               dm'[r] = "drone" /\ record'[r] # None /\ request'[r].drone \notin haunted'
                 => AtMost(record'[r].battery, charge'[request'[r].drone])

LEMMA BatteriesParts ==
  /\ Batteries <=> TruePart /\ KnownPart
  /\ TrueNext /\ KnownNext => Batteries'
BY DEF Batteries, TruePart, KnownPart, TrueNext, KnownNext, Told, ReportsOf

\* A drone stays haunted where it stands.
LEMMA HauntedStays ==
  ASSUME Inv, Effect
  PROVE  \A d \in Drones : where[d] # None /\ where'[d] = where[d] /\ d \in haunted
                             => d \in haunted'
<1>0. /\ where \in [Drones -> Ports \cup {None}] /\ None \notin Ports
      /\ \A r \in Requests : dm[r] # "none" => request[r] \in Query
  BY TypesParts, NoneAssumption, Known DEF Inv, StateTypes
<1>1. ASSUME NEW r \in Requests, Lands(r), NEW d \in Drones, where[d] # None, d \in haunted
      PROVE  d \in haunted'
  <2>1. Promised(r, answer[r]) /\ answer[r] \in Ports
    BY <1>1 DEF Lands, Promised
  <2>2. where[request[r].drone] = None
    BY <2>1, Holders
  <2>3. haunted' = IF Hears(r) THEN haunted \ {request[r].drone} ELSE haunted
    BY <1>1 DEF Lands, ApproveLanding, worldVars
  <2> QED BY <1>1, <2>2, <2>3
<1>2. ASSUME NEW r \in Requests, Leaves(r), NEW d \in Drones, where[d] # None,
             where'[d] = where[d], d \in haunted
      PROVE  d \in haunted'
  <2>1. IF Hears(r) THEN /\ where' = [where EXCEPT ![request[r].drone] = None]
                         /\ haunted' = haunted \ {request[r].drone}
                    ELSE haunted' = haunted
    BY <1>2 DEF Leaves, ApproveTakeoff, worldVars
  <2> QED BY <1>0, <1>2, <2>1
<1>3. ASSUME NEW r \in Requests, Charges(r) PROVE haunted \subseteq haunted'
  BY <1>3 DEF Charges
<1>4. ASSUME \/ \E d \in Drones : GivesUp(d) \/ \E rec \in Registration : Noting(d, rec)
             \/ \E r \in Requests, d \in Drones, b \in Charge \cup {None},
                   k \in {"request_landing", "request_takeoff"} : Asks(r, d, k, b)
             \/ \E r \in Requests : \/ Handles(r) \/ Refuses(r) \/ AsksDrone(r) \/ Queried(r)
                                    \/ Starts(r) \/ \E v : Answers(r, v) \/ Reserves(r, v)
             \/ Reading \/ Writing \/ Releases \/ Telling
      PROVE  UNCHANGED haunted
  BY <1>4 DEF GivesUp, Noting, Asks, Handles, Refuses, Refuse, AsksDrone, Queried, Starts,
              Answers, Reserves, Reading, Writing, Releases, Telling, worldVars
<1> QED BY <1>1, <1>2, <1>3, <1>4 DEF Effect

\* What is said of the drones since they landed is kept,
LEMMA TrueKept == ASSUME Inv, Effect PROVE TrueNext
<1>0. /\ StateTypes /\ RQ \in Seq(RMsg) /\ TruePart
      /\ \A d \in Drones : where[d] # None /\ where'[d] = where[d] /\ d \in haunted => d \in haunted'
      /\ \A d \in Drones : registry[d] \in Registration \cup {None} /\ charge[d] \in Charge
      /\ \A d : \A i \in DOMAIN RQ : ReportsOf(RQ[i], d) => RQ[i].battery \in Charge
  BY TypesParts, Known, BatteriesParts, HauntedStays, RegistryMessages DEF Inv, StateTypes, ReportsOf
<1>1. ASSUME RQ' = RQ, UNCHANGED <<registry, where, charge, session>> PROVE TrueNext
  BY <1>0, <1>1 DEF TrueNext, TruePart
<1>2. ASSUME NEW m \in RMsg, m.action \notin {"register_drone", "update_battery"},
             RQ' = Append(RQ, m), UNCHANGED <<registry, where, charge, session>>
      PROVE  TrueNext
  <2>1. \A d : ~Registers(m, d) /\ ~ReportsOf(m, d)
    BY <1>2 DEF Registers, ReportsOf
  <2>2. \A c \in Charge : c <= c
    BY DEF Charge
  <2>3. ASSUME NEW d \in Drones, Told(RQ, registry[d], charge[d], d)
        PROVE  Told(Append(RQ, m), registry[d], charge[d], d)
    BY <1>0, <2>1, <2>2, <2>3, ToldMore
  <2> QED BY <1>0, <1>2, <2>3 DEF TrueNext, TruePart
<1>3. ASSUME NEW r \in Requests, Lands(r) PROVE TrueNext
  <2> DEFINE d == request[r].drone
             b == request[r].battery
             m == RegisterMsg(r)
             n == ReportMsg(d, b)
  <2>1. /\ dm[r] = "port" /\ answer[r] \in Ports /\ UNCHANGED registry
        /\ RQ' = IF b = None THEN Append(RQ, m) ELSE Append(Append(RQ, m), n)
        /\ IF Hears(r)
           THEN /\ where' = [where EXCEPT ![d] = answer[r]]
                /\ charge' = [charge EXCEPT ![d] = IF b = None THEN 0 ELSE b]
                /\ session' = [session EXCEPT ![d] = r]
           ELSE UNCHANGED <<where, charge, session>>
    BY <1>3 DEF Lands, Topics, ApproveLanding, worldVars
  <2>2. d \in Drones /\ where[d] = None /\ b \in Charge \cup {None}
    <3>1. Promised(r, answer[r]) /\ request[r] \in Query
      BY <2>1, Known DEF Promised
    <3> QED BY <2>1, <3>1, Holders DEF Query
  <2>3. /\ m \in RMsg /\ (\A e : ~ReportsOf(m, e)) /\ (\A e : Registers(m, e) <=> e = d)
        /\ b # None => /\ n \in RMsg /\ n.battery = b /\ (\A e : ~Registers(n, e))
                       /\ (\A e : ReportsOf(n, e) <=> e = d)
    BY <2>1, <2>2 DEF RMsg, RegisterMsg, ReportMsg, Registers, ReportsOf
  <2>4. Hears(r) => where'[d] # None /\ charge'[d] = IF b = None THEN 0 ELSE b
    <3>1. Hears(r) => where'[d] = answer[r] /\ charge'[d] = IF b = None THEN 0 ELSE b
      <4> HIDE DEF d, b, m, n
      <4> QED BY <1>0, <2>1, <2>2 DEF StateTypes
    <3> QED BY <2>1, <3>1, NoneAssumption
  <2>5. ~Hears(r) => where'[d] = None
    BY <2>1, <2>2
  <2>6. \A e \in Drones : e # d =>
          where'[e] = where[e] /\ charge'[e] = charge[e] /\ session'[e] = session[e]
    BY <1>0, <2>1, <2>2 DEF StateTypes
  <2> HIDE DEF d, b, m, n
  <2>7. /\ Append(RQ, m) \in Seq(RMsg)
        /\ \A e : \A i \in DOMAIN Append(RQ, m) :
             ReportsOf(Append(RQ, m)[i], e) => Append(RQ, m)[i].battery \in Charge
    <3>1. Longer(RQ, Append(RQ, m), m) /\ Append(RQ, m) \in Seq(RMsg)
      BY <1>0, <2>3, LongerQueue, PutLast
    <3> QED BY <1>0, <2>3, <3>1 DEF Longer
  <2>8. \A c \in Charge : c <= c
    BY DEF Charge
  <2>9. ASSUME NEW e \in Drones, where'[e] # None, e \notin haunted'
        PROVE  Told(RQ', registry'[e], charge'[e], e)
    <3>1. Told(Append(RQ, m), registry[e], charge'[e], e) /\ charge'[e] \in Charge
      <4>1. CASE e = d
        <5>1. charge'[e] \in Charge
          BY <2>2, <2>4, <2>5, <2>9, <4>1 DEF Charge
        <5> QED BY <1>0, <2>3, <4>1, <5>1, ToldRegistered
      <4>2. CASE e # d
        <5>1. Told(RQ, registry[e], charge[e], e)
          BY <1>0, <2>6, <2>9, <4>2 DEF TruePart
        <5> QED BY <1>0, <2>3, <2>6, <2>8, <4>2, <5>1, ToldMore
      <4> QED BY <4>1, <4>2
    <3>2. CASE b = None
      BY <2>1, <3>1, <3>2
    <3>3. CASE b # None
      <4>1. ReportsOf(n, e) => n.battery <= charge'[e]
        BY <2>2, <2>3, <2>4, <2>5, <2>8, <2>9, <3>1, <3>3
      <4>2. Told(Append(Append(RQ, m), n), registry[e], charge'[e], e)
        BY <1>0, <2>3, <2>7, <2>8, <3>1, <3>3, <4>1, ToldMore
      <4> QED BY <2>1, <3>3, <4>2
    <3> QED BY <3>2, <3>3
  <2> QED BY <2>9 DEF TrueNext
<1>4. ASSUME NEW r \in Requests, AsksDrone(r) PROVE TrueNext
  <2> DEFINE m == [action |-> "get_drone", req |-> r]
  <2>1. m \in RMsg /\ m.action \notin {"register_drone", "update_battery"} /\ RQ' = Append(RQ, m)
        /\ UNCHANGED <<registry, where, charge, session>>
    BY <1>4 DEF AsksDrone, Topics, worldVars, RMsg
  <2> HIDE DEF m
  <2> QED BY <1>2, <2>1
<1>5. ASSUME NEW r \in Requests, Leaves(r) PROVE TrueNext
  <2> DEFINE d == request[r].drone
  <2>1. request[r] \in Query /\ UNCHANGED <<registry, charge>> /\ RQ' = RQ
        /\ IF Hears(r)
           THEN where' = [where EXCEPT ![d] = None] /\ session' = [session EXCEPT ![d] = None]
           ELSE UNCHANGED <<where, session>>
    BY <1>5, Known DEF Leaves, Topics, ApproveTakeoff, worldVars
  <2>2. d \in Drones
    BY <2>1 DEF Query
  <2>3. \A e \in Drones : where'[e] # None => where'[e] = where[e] /\ session'[e] = session[e]
    BY <1>0, <2>1, <2>2 DEF StateTypes
  <2> QED BY <1>0, <2>1, <2>3 DEF TrueNext, TruePart
<1>6. ASSUME NEW d \in Drones, NEW rec \in Registration, Noting(d, rec) PROVE TrueNext
  <2>1. /\ RQ # <<>> /\ RQ' = Tail(RQ) /\ d = RQ[1].drone /\ RQ[1].action # "get_drone"
        /\ registry' = [registry EXCEPT ![d] = rec] /\ UNCHANGED <<where, charge, session>>
        /\ RQ[1].action = "register_drone" => rec.battery = None
        /\ RQ[1].action = "update_battery" => rec.battery = RQ[1].battery
        /\ RQ[1].action = "charging_started" => rec.battery = FieldsOf(d).battery
    BY <1>6 DEF Noting, Topics, worldVars
  <2>2. registry'[d] = rec /\ \A e \in Drones : e # d => registry'[e] = registry[e]
    BY <1>0, <2>1 DEF StateTypes
  <2>3. RQ[1].action \in {"register_drone", "update_battery", "charging_started", "get_drone"}
    BY <2>1, Known DEF RMsg
  <2>4. ASSUME NEW e \in Drones, Told(RQ, registry[e], charge[e], e)
        PROVE  Told(RQ', registry'[e], charge[e], e)
    <3>1. Registers(RQ[1], e) /\ registry'[e] # None => registry'[e].battery = None
      BY <2>1, <2>2 DEF Registers
    <3>2. ReportsOf(RQ[1], e) /\ registry'[e] # None => registry'[e].battery = RQ[1].battery
      BY <2>1, <2>2 DEF ReportsOf
    <3>3. ~Registers(RQ[1], e) /\ ~ReportsOf(RQ[1], e) /\ registry'[e] # None
            /\ registry'[e].battery # None =>
              registry[e] # None /\ registry'[e].battery = registry[e].battery
      BY <2>1, <2>2, <2>3 DEF Registers, ReportsOf, FieldsOf
    <3> QED BY <1>0, <2>1, <2>4, <3>1, <3>2, <3>3, ToldTaken
  <2> QED BY <1>0, <2>1, <2>4 DEF TrueNext, TruePart
<1>7. ASSUME Telling PROVE TrueNext
  <2>1. /\ RQ # <<>> /\ RQ' = Tail(RQ) /\ UNCHANGED <<registry, where, charge, session>>
        /\ RQ[1].action = "get_drone"
    BY <1>7 DEF Telling, Topics, worldVars
  <2>2. \A e : ~Registers(RQ[1], e) /\ ~ReportsOf(RQ[1], e)
    BY <2>1 DEF Registers, ReportsOf
  <2>3. ASSUME NEW e \in Drones, Told(RQ, registry[e], charge[e], e)
        PROVE  Told(RQ', registry[e], charge[e], e)
    BY <1>0, <2>1, <2>2, <2>3, ToldTaken
  <2> QED BY <1>0, <2>1, <2>3 DEF TrueNext, TruePart
<1>8. ASSUME NEW r \in Requests, Starts(r) PROVE TrueNext
  <2> DEFINE m == [action |-> "charging_started", drone |-> request[r].drone]
  <2>1. request[r].drone \in Drones
    BY <1>8, Known DEF Starts, Inv, Charging, Query
  <2>2. m \in RMsg /\ m.action \notin {"register_drone", "update_battery"} /\ RQ' = Append(RQ, m)
        /\ UNCHANGED <<registry, where, charge, session>>
    BY <1>8, <2>1 DEF Starts, Topics, worldVars, RMsg
  <2> HIDE DEF m
  <2> QED BY <1>2, <2>2
<1>9. ASSUME NEW r \in Requests, Charges(r) PROVE TrueNext
  <2> DEFINE d == request[r].drone
             m == ReportMsg(d, charging[r] + 1)
  <2>1. /\ charging[r] \in Charge /\ charging[r] # None /\ charging[r] + 1 \in Charge
        /\ charging' = [charging EXCEPT ![r] = charging[r] + 1]
        /\ charge' = IF session[d] = r THEN [charge EXCEPT ![d] = charging[r] + 1] ELSE charge
        /\ RQ' = Append(RQ, m) /\ UNCHANGED <<registry, request, where, session>>
    BY <1>9 DEF Charges, Topics
  <2>2. request[r] \in Query /\ d \in Drones
    BY <2>1, Known DEF Query
  <2>3. /\ m \in RMsg /\ (\A e : ~Registers(m, e)) /\ (\A e : ReportsOf(m, e) => e = d)
        /\ m.battery = charging[r] + 1
    BY <2>1, <2>2 DEF RMsg, ReportMsg, Registers, ReportsOf
  \* A thread that goes on haunts its drone, or charges it.
  <2>4. where[d] # None /\ d \notin haunted' => session[d] = r
    BY <1>9 DEF Charges
  <2>5. session[d] = r => charge[d] = charging[r] /\ charge'[d] = charging[r] + 1
    <3>1. session[d] = r => ChargedBy(d, r)
      BY <2>2, ChargingParts, NoneAssumption DEF Inv, SessionPart
    <3>2. session[d] = r => charge'[d] = charging[r] + 1
      BY <1>0, <2>1, <2>2 DEF StateTypes
    <3> QED BY <2>1, <3>1, <3>2 DEF ChargedBy
  <2>6. \A e \in Drones : e # d => charge'[e] = charge[e]
    BY <1>0, <2>1, <2>2 DEF StateTypes
  <2> HIDE DEF d, m
  <2>7. ASSUME NEW e \in Drones, where'[e] # None, e \notin haunted'
        PROVE  Told(RQ', registry'[e], charge'[e], e)
    <3>1. Told(RQ, registry[e], charge[e], e)
      BY <1>0, <2>1, <2>7 DEF TruePart
    <3>2. CASE e = d
      <4>1. charge[e] \in Charge /\ charge'[e] \in Charge /\ charge[e] <= charge'[e]
            /\ m.battery <= charge'[e]
        BY <2>1, <2>3, <2>4, <2>5, <2>7, <3>2 DEF Charge
      <4> QED BY <1>0, <2>1, <2>3, <3>1, <4>1, ToldMore
    <3>3. CASE e # d
      <4>1. charge'[e] = charge[e] /\ charge[e] <= charge[e] /\ ~ReportsOf(m, e)
        BY <1>0, <2>3, <2>6, <3>3 DEF Charge
      <4> QED BY <1>0, <2>1, <2>3, <3>1, <4>1, ToldMore
    <3> QED BY <3>2, <3>3
  <2> QED BY <2>7 DEF TrueNext
<1>10. ASSUME \/ \E d \in Drones : GivesUp(d)
              \/ \E r \in Requests, d \in Drones, b \in Charge \cup {None},
                    k \in {"request_landing", "request_takeoff"} : Asks(r, d, k, b)
              \/ \E r \in Requests : \/ Handles(r) \/ Refuses(r) \/ Queried(r)
                                     \/ \E v : Answers(r, v) \/ Reserves(r, v)
              \/ Reading \/ Writing \/ Releases
       PROVE  TrueNext
  <2>1. RQ' = RQ /\ UNCHANGED <<registry, where, charge, session>>
    BY <1>10 DEF GivesUp, Asks, Handles, Refuses, Refuse, Queried, Answers, Reserves, Reading,
                 Writing, Releases, Topics, worldVars
  <2> QED BY <1>1, <2>1
<1> QED BY <1>3, <1>4, <1>5, <1>6, <1>7, <1>8, <1>9, <1>10 DEF Effect

\* A drone whose takeoff is decided stands.
LEMMA LeaversStand ==
  ASSUME Inv, NEW r \in Requests, dm[r] = "drone" PROVE where[request[r].drone] # None
<1>1. Takeoff(r)
  BY DEF Inv, Handlers
<1> QED BY <1>1 DEF Inv, Askers

\* and so is what DroneManager was told when it decides about a takeoff.
LEMMA KnownKept == ASSUME Inv, Effect PROVE KnownNext
<1>0. /\ StateTypes /\ Handlers /\ KnownPart /\ TruePart
      /\ \A d \in Drones : where[d] # None /\ where'[d] = where[d] /\ d \in haunted => d \in haunted'
      /\ \A r \in Requests : dm[r] # "none" => request[r].drone \in Drones
      /\ \A r \in Requests : dm[r] = "drone" => where[request[r].drone] # None
  BY TypesParts, Known, BatteriesParts, HauntedStays, LeaversStand DEF Inv, Query
<1>1. ASSUME UNCHANGED <<record, request, charge, where>>,
             \A r \in Requests : dm'[r] = "drone" => dm[r] = "drone" \/ record[r] = None
      PROVE  KnownNext
  <2> SUFFICES ASSUME NEW r \in Requests, dm'[r] = "drone", record'[r] # None,
                      request'[r].drone \notin haunted'
               PROVE  AtMost(record'[r].battery, charge'[request'[r].drone])
    BY DEF KnownNext
  <2>1. dm[r] = "drone"
    BY <1>1
  <2>2. request[r].drone \notin haunted
    BY <1>0, <1>1, <2>1
  <2> QED BY <1>0, <1>1, <2>1, <2>2 DEF KnownPart
<1>2. ASSUME NEW r \in Requests, NEW d \in Drones, NEW b \in Charge \cup {None},
             NEW k \in {"request_landing", "request_takeoff"}, Asks(r, d, k, b)
      PROVE  KnownNext
  <2>1. /\ dm' = [dm EXCEPT ![r] = "inbox"] /\ UNCHANGED <<record, charge, where, haunted>>
        /\ \A q \in Requests : q # r => request'[q] = request[q]
    BY <1>0, <1>2 DEF Asks, StateTypes
  <2>2. \A q \in Requests : dm'[q] = "drone" => q # r /\ dm[q] = "drone"
    BY <1>0, <2>1 DEF StateTypes
  <2> QED BY <1>0, <2>1, <2>2 DEF KnownNext, KnownPart
<1>3. ASSUME NEW r \in Requests, Handles(r) \/ Refuses(r) \/ AsksDrone(r) PROVE KnownNext
  <2>1. /\ UNCHANGED <<record, request, charge, where>>
        /\ \E z \in {"port", "ports", "done", "drone"} :
             dm' = [dm EXCEPT ![r] = z] /\ (z = "drone" => dm[r] = "ports")
    BY <1>3 DEF Handles, Refuses, Refuse, AsksDrone, worldVars
  <2>2. \A q \in Requests : dm'[q] = "drone" => dm[q] = "drone" \/ record[q] = None
    BY <1>0, <2>1 DEF StateTypes, Handlers
  <2> QED BY <1>1, <2>1, <2>2
<1>4. ASSUME NEW r \in Requests, Lands(r) \/ Leaves(r) PROVE KnownNext
  <2>1. dm[r] \in {"port", "drone"} /\ dm' = [dm EXCEPT ![r] = "done"]
    BY <1>4 DEF Lands, Leaves, ApproveLanding, ApproveTakeoff
  <2>2. \A q \in Requests : dm'[q] # "drone"
    <3>1. \A q \in Requests : dm[q] = "drone" => q = r
      BY <2>1, OneWaits DEF Waiting
    <3> QED BY <1>0, <2>1, <3>1 DEF StateTypes
  <2> QED BY <2>2 DEF KnownNext
<1>5. ASSUME Telling PROVE KnownNext
  <2> DEFINE r == RQ[1].req
             d == request[r].drone
  <2>1. /\ RQ # <<>> /\ RQ[1].action = "get_drone"
        /\ UNCHANGED <<dm, request, charging, charge, where, haunted>>
        /\ record' = IF dm[r] # "drone" THEN record ELSE [record EXCEPT ![r] = FieldsOf(d)]
    BY <1>5 DEF Telling, worldVars
  <2>2. r \in Requests /\ 1 \in DOMAIN RQ /\ DOMAIN RQ \subseteq Nat \ {0}
    BY <2>1, Known, RegistryMessages, ShorterQueue DEF Shorter
  <2>3. CASE dm[r] # "drone"
    BY <1>1, <2>1, <2>3
  <2>4. CASE dm[r] = "drone"
    <3>1. \A j \in DOMAIN RQ : RQ[j].action # "register_drone"
      <4>1. AskPart
        BY RecordsParts DEF Inv
      <4> QED BY <2>1, <2>2, <2>4, <4>1 DEF AskPart
    <3>2. d \in Drones /\ where[d] # None
      <4>1. Takeoff(r) /\ request[r] \in Query
        BY <2>2, <2>4, <1>0, Known DEF Handlers
      <4> QED BY <2>2, <2>4, <4>1 DEF Inv, Askers, Query
    <3>3. \A i \in DOMAIN RQ : ~Registers(RQ[i], d)
      BY <3>1 DEF Registers
    <3>4. d \notin haunted => AtMost(FieldsOf(d).battery, charge[d])
      BY <1>0, <3>2, <3>3 DEF TruePart, Told, FieldsOf, AtMost
    <3> HIDE DEF r, d
    <3>5. \A q \in Requests : q # r => record'[q] = record[q]
      BY <1>0, <2>1 DEF StateTypes
    <3>6. record'[r] = FieldsOf(d)
      BY <1>0, <2>1, <2>2, <2>4 DEF StateTypes
    <3>7. ASSUME NEW q \in Requests, dm'[q] = "drone", record'[q] # None,
                 request'[q].drone \notin haunted'
          PROVE  AtMost(record'[q].battery, charge'[request'[q].drone])
      <4>1. request[q].drone \notin haunted /\ dm[q] = "drone"
        BY <1>0, <2>1, <3>7
      <4>2. CASE q = r
        BY <2>1, <3>4, <3>6, <4>1, <4>2 DEF d
      <4>3. CASE q # r
        BY <1>0, <2>1, <3>5, <3>7, <4>1, <4>3 DEF KnownPart
      <4> QED BY <4>2, <4>3
    <3> QED BY <3>7 DEF KnownNext
  <2> QED BY <2>3, <2>4
<1>6. ASSUME NEW r \in Requests, Charges(r) PROVE KnownNext
  <2> DEFINE d == request[r].drone
  <2>1. /\ charging[r] \in Charge /\ charging[r] # None /\ charging[r] + 1 \in Charge
        /\ charging' = [charging EXCEPT ![r] = charging[r] + 1]
        /\ charge' = IF session[d] = r THEN [charge EXCEPT ![d] = charging[r] + 1] ELSE charge
        /\ UNCHANGED <<request, session, dm, record, where>>
    BY <1>6 DEF Charges, handlerVars
  <2>2. request[r] \in Query /\ d \in Drones
    BY <2>1, Known DEF Query
  <2>3. session[d] = r => charge[d] = charging[r] /\ charge'[d] = charging[r] + 1
    <3>1. session[d] = r => ChargedBy(d, r)
      BY <2>2, ChargingParts, NoneAssumption DEF Inv, SessionPart
    <3>2. session[d] = r => charge'[d] = charging[r] + 1
      BY <1>0, <2>1, <2>2 DEF StateTypes
    <3> QED BY <2>1, <3>1, <3>2 DEF ChargedBy
  <2>4. \A e \in Drones : charge[e] \in Charge /\ charge'[e] \in Charge /\ charge[e] <= charge'[e]
    <3>1. SUFFICES ASSUME NEW e \in Drones
                   PROVE  charge[e] \in Charge /\ charge'[e] \in Charge /\ charge[e] <= charge'[e]
      OBVIOUS
    <3>2. CASE e = d /\ session[d] = r
      BY <2>1, <2>3, <3>2 DEF Charge
    <3>3. CASE ~(e = d /\ session[d] = r)
      <4>1. charge'[e] = charge[e] /\ charge[e] \in Charge
        BY <1>0, <2>1, <2>2, <3>3 DEF StateTypes
      <4> QED BY <4>1 DEF Charge
    <3> QED BY <3>2, <3>3
  <2> HIDE DEF d
  <2>5. ASSUME NEW q \in Requests, dm'[q] = "drone", record'[q] # None,
               request'[q].drone \notin haunted'
        PROVE  AtMost(record'[q].battery, charge'[request'[q].drone])
    <3>1. /\ request[q].drone \in Drones /\ record[q] \in Registration
          /\ AtMost(record[q].battery, charge[request[q].drone])
      BY <1>0, <2>1, <2>5 DEF KnownPart, StateTypes
    <3>2. record[q].battery \in Charge \cup {None}
      BY <3>1 DEF Registration
    <3> QED BY <2>1, <2>4, <3>1, <3>2 DEF AtMost, Charge
  <2> QED BY <2>5 DEF KnownNext
<1>7. ASSUME \/ \E d \in Drones : GivesUp(d) \/ \E rec \in Registration : Noting(d, rec)
             \/ \E r \in Requests : \/ Queried(r) \/ Starts(r)
                                    \/ \E v : Answers(r, v) \/ Reserves(r, v)
             \/ Reading \/ Writing \/ Releases
      PROVE  KnownNext
  <2>1. UNCHANGED <<record, request, charge, where, dm>>
    BY <1>7 DEF GivesUp, Noting, Queried, Starts, Answers, Reserves, Reading, Writing,
                Releases, handlerVars, worldVars
  <2> QED BY <1>0, <1>1, <2>1
<1> QED BY <1>2, <1>3, <1>4, <1>5, <1>6, <1>7 DEF Effect

LEMMA BatteriesKept == ASSUME Inv, Effect PROVE Batteries'
BY TrueKept, KnownKept, BatteriesParts

-----------------------------------------------------------------------------
(* NoLeak is kept. *)

\* Port p is held by drone d for a reason.
Reason(p, d) == \/ where[d] = p
                \/ \E r \in Requests : Promised(r, p) /\ request[r].drone = d
                \/ \E i \in DOMAIN PQ : FreeSlot(PQ[i], p)
ReasonNext(p, d) == \/ where'[d] = p
                    \/ \E r \in Requests : NextPromised(r, p) /\ request'[r].drone = d
                    \/ \E i \in DOMAIN PQ' : FreeSlot(PQ'[i], p)
Linked == \A r \in Requests : pm[r] \in {"inbox", "waiting"} => dm[r] \in {"port", "ports"}

LEMMA NoLeakNext ==
  ASSUME impatient' = {} => /\ Linked'
                            /\ \A p \in Ports, d \in Drones : NextHold(p, d) => ReasonNext(p, d)
  PROVE  NoLeak'
<1>1. \A p, x : NextHold(p, x) <=>
        \/ \E i \in DOMAIN SQ' : /\ Writes(SQ'[i], p) /\ SQ'[i].drone = x
                                 /\ \A j \in DOMAIN SQ' : j > i => ~Writes(SQ'[j], p)
        \/ ports'[p] = x /\ \A i \in DOMAIN SQ' : ~Writes(SQ'[i], p)
  BY DEF NextHold, Holds
<1> QED BY <1>1 DEF NoLeak, Linked, ReasonNext, NextPromised, Promised, FreeSlot, WillHold, SQ

LEMMA NoLeakKept ==
  ASSUME Inv, Effect, UNCHANGED impatient PROVE NoLeak'
<1>0. SUFFICES ASSUME impatient = {}
               PROVE  /\ Linked'
                      /\ \A p \in Ports, d \in Drones : NextHold(p, d) => ReasonNext(p, d)
  BY NoLeakNext
<1>1. /\ StateTypes /\ Handlers /\ Linked /\ PQ \in Seq(PMsg)
      /\ \A p \in Ports, d \in Drones : WillHold(p, d) => Reason(p, d)
      /\ None \notin Drones /\ None \notin Ports /\ "No free ports" \notin Ports
  BY <1>0, TypesParts, Known, NoneAssumption
     DEF Inv, NoLeak, Linked, Reason, Promised, FreeSlot
<1>2. /\ dm \in [Requests -> {"none", "inbox", "done"} \cup Waiting]
      /\ pm \in [Requests -> {"none", "inbox", "waiting", "done"}]
      /\ DOMAIN answer = Requests /\ where \in [Drones -> Ports \cup {None}]
      /\ request \in [Requests -> Query \cup {None}]
  BY <1>1 DEF StateTypes
\* A step that writes no port and keeps every reason.
<1>3. ASSUME ~\E r \in Requests, o \in Ports : Reserves(r, o), ~Releases,
             \A p \in Ports, d \in Drones : Reason(p, d) => ReasonNext(p, d)
      PROVE  \A p \in Ports, d \in Drones : NextHold(p, d) => ReasonNext(p, d)
  BY <1>1, <1>3, HoldKept
<1>4. ASSUME SQ' = SQ \/ (SQ # <<>> /\ SQ' = Tail(SQ))
             \/ \E m \in SMsg : m.action = "get_all_ports" /\ SQ' = Append(SQ, m)
      PROVE  ~(\E r \in Requests, o \in Ports : Reserves(r, o)) /\ ~Releases
  BY <1>4, NotWriting
<1>5. ASSUME NEW r \in Requests, NEW d \in Drones, NEW b \in Charge \cup {None},
             NEW k \in {"request_landing", "request_takeoff"}, Asks(r, d, k, b)
      PROVE  Linked' /\ \A p \in Ports, e \in Drones : NextHold(p, e) => ReasonNext(p, e)
  <2>1. dm[r] = "none" /\ pm[r] = "none"
    BY <1>1, <1>5 DEF Asks, Fresh, Handlers
  <2>2. /\ PQ' = PQ /\ SQ' = SQ /\ UNCHANGED <<where, answer, pm>>
        /\ dm' = [dm EXCEPT ![r] = "inbox"]
        /\ \A q \in Requests : q # r => request'[q] = request[q]
    BY <1>2, <1>5 DEF Asks, Topics
  <2>3. Linked'
    BY <1>1, <1>2, <2>1, <2>2 DEF Linked
  <2>4. \A p \in Ports, e \in Drones : Reason(p, e) => ReasonNext(p, e)
    BY <1>2, <2>1, <2>2 DEF Reason, ReasonNext, Promised, NextPromised
  <2> QED BY <1>3, <1>4, <2>2, <2>3, <2>4
<1>6. ASSUME NEW d \in Drones, GivesUp(d) PROVE FALSE
  BY <1>0, <1>6 DEF GivesUp
<1>7. ASSUME NEW r \in Requests, Handles(r)
      PROVE  Linked' /\ \A p \in Ports, e \in Drones : NextHold(p, e) => ReasonNext(p, e)
  <2>1. dm[r] = "inbox"
    BY <1>7, Known DEF Handles, Inv, Order
  <2>2. PICK m \in PMsg : m.action # "free_slot" /\ PQ' = Append(PQ, m)
    <3>1. PICK k \in {"request_landing", "get_port_status"} :
            PQ' = Append(PQ, [action |-> k, req |-> r])
      BY <1>7 DEF Handles, Topics
    <3>2. [action |-> k, req |-> r] \in PMsg
      BY DEF PMsg
    <3> QED BY <3>1, <3>2
  <2>3. /\ SQ' = SQ /\ UNCHANGED <<where, answer, request>> /\ pm' = [pm EXCEPT ![r] = "inbox"]
        /\ \E z \in {"port", "ports"} : dm' = [dm EXCEPT ![r] = z]
    BY <1>7 DEF Handles, Topics, worldVars
  <2>4. Longer(PQ, PQ', m)
    BY <1>1, <2>2, LongerQueue
  <2>5. Linked'
    BY <1>1, <1>2, <2>3 DEF Linked
  <2>6. \A p \in Ports, e \in Drones : Reason(p, e) => ReasonNext(p, e)
    BY <1>2, <2>1, <2>3, <2>4 DEF Reason, ReasonNext, Promised, NextPromised, Longer
  <2> QED BY <1>3, <1>4, <2>3, <2>5, <2>6
<1>8. ASSUME NEW r \in Requests, Lands(r)
      PROVE  Linked' /\ \A p \in Ports, e \in Drones : NextHold(p, e) => ReasonNext(p, e)
  <2> DEFINE d == request[r].drone
  <2>1. /\ dm[r] = "port" /\ answer[r] \in Ports /\ PQ' = PQ /\ SQ' = SQ
        /\ UNCHANGED <<answer, request, pm>> /\ dm' = [dm EXCEPT ![r] = "done"]
        /\ where' = IF Hears(r) THEN [where EXCEPT ![d] = answer[r]] ELSE where
    BY <1>8 DEF Lands, Topics, ApproveLanding, worldVars
  <2>2. pm[r] = "done"
    BY <1>1, <2>1 DEF Handlers
  <2>3. Linked'
    BY <1>1, <1>2, <2>1, <2>2 DEF Linked
  <2>4. d \in Drones /\ where[d] = None /\ request[r] # None
    BY <2>1, Holders DEF Promised, Landing
  <2>5. Hears(r)
    BY <1>0, <2>1, <2>4 DEF Inv, Askers, Hears
  <2>6. where'[d] = answer[r] /\ \A e \in Drones : e # d => where'[e] = where[e]
    BY <1>2, <2>1, <2>4, <2>5
  <2>7. \A q \in Requests : q # r => dm'[q] = dm[q]
    BY <1>2, <2>1
  <2>8. \A p \in Ports, e \in Drones : Reason(p, e) => ReasonNext(p, e)
    <3> SUFFICES ASSUME NEW p \in Ports, NEW e \in Drones, Reason(p, e) PROVE ReasonNext(p, e)
      OBVIOUS
    <3>1. CASE where[e] = p
      <4>1. e # d
        BY <1>1, <2>4, <3>1
      <4> QED BY <2>6, <3>1, <4>1 DEF ReasonNext
    <3>2. CASE \E q \in Requests : Promised(q, p) /\ request[q].drone = e
      <4>1. PICK q \in Requests : Promised(q, p) /\ request[q].drone = e
        BY <3>2
      <4>2. CASE q = r
        BY <2>6, <4>1, <4>2 DEF ReasonNext, Promised
      <4>3. CASE q # r
        BY <2>1, <2>7, <4>1, <4>3 DEF ReasonNext, Promised, NextPromised
      <4> QED BY <4>2, <4>3
    <3>3. CASE \E i \in DOMAIN PQ : FreeSlot(PQ[i], p)
      BY <2>1, <3>3 DEF ReasonNext
    <3> QED BY <3>1, <3>2, <3>3 DEF Reason
  <2> QED BY <1>3, <1>4, <2>1, <2>3, <2>8
<1>9. ASSUME NEW r \in Requests, Refuses(r) \/ AsksDrone(r)
      PROVE  Linked' /\ \A p \in Ports, e \in Drones : NextHold(p, e) => ReasonNext(p, e)
  <2>1. /\ PQ' = PQ /\ SQ' = SQ /\ UNCHANGED <<answer, where, request, pm>>
        /\ \E z \in {"done", "drone"} : dm' = [dm EXCEPT ![r] = z]
    BY <1>9 DEF Refuses, AsksDrone, Refuse, Topics, worldVars
  <2>2. \/ dm[r] = "port" /\ answer[r] = "No free ports"
        \/ dm[r] = "drone"
        \/ dm[r] = "ports" /\ answer[r] # None
    BY <1>0, <1>9 DEF Refuses, AsksDrone
  <2>3. pm[r] \notin {"inbox", "waiting"}
    BY <1>1, <2>2, NoneAssumption DEF Linked, Handlers
  <2>4. Linked'
    BY <1>1, <1>2, <2>1, <2>3 DEF Linked
  <2>5. \A q \in Requests, p \in Ports : Promised(q, p) => q # r
    BY <1>1, <2>2 DEF Promised
  <2>6. \A p \in Ports, e \in Drones : Reason(p, e) => ReasonNext(p, e)
    BY <1>2, <2>1, <2>5 DEF Reason, ReasonNext, Promised, NextPromised
  <2> QED BY <1>3, <1>4, <2>1, <2>4, <2>6
<1>10. ASSUME NEW r \in Requests, Leaves(r)
       PROVE  Linked' /\ \A p \in Ports, e \in Drones : NextHold(p, e) => ReasonNext(p, e)
  <2> DEFINE d == request[r].drone
             m == [action |-> "free_slot", port |-> record[r].port]
  <2>1. /\ dm[r] = "drone" /\ record[r].port \in Ports /\ PQ' = Append(PQ, m) /\ SQ' = SQ
        /\ UNCHANGED <<answer, request, pm>> /\ dm' = [dm EXCEPT ![r] = "done"]
        /\ where' = IF Hears(r) THEN [where EXCEPT ![d] = None] ELSE where
    BY <1>10, Known DEF Leaves, Topics, ApproveTakeoff, worldVars
  <2>2. m \in PMsg /\ FreeSlot(m, record[r].port)
    BY <2>1 DEF PMsg, FreeSlot
  <2>3. d \in Drones /\ where[d] = record[r].port
    <3>1. d \in Drones
      BY <2>1, Known DEF Query
    <3> QED BY <1>10, <3>1 DEF Leaves, Inv, Records
  <2> HIDE DEF d, m
  <2>4. Longer(PQ, PQ', m)
    BY <1>1, <2>1, <2>2, LongerQueue
  <2>5. \A i \in DOMAIN PQ : PQ'[i] = PQ[i] /\ i \in DOMAIN PQ'
    BY <2>4 DEF Longer
  <2>6. \E i \in DOMAIN PQ' : FreeSlot(PQ'[i], record[r].port)
    BY <2>2, <2>4 DEF Longer
  <2>7. Linked'
    BY <1>1, <1>2, <2>1 DEF Linked
  <2>8. \A q \in Requests, p \in Ports : Promised(q, p) => NextPromised(q, p)
    BY <1>2, <2>1 DEF Promised, NextPromised
  <2>9. \A e \in Drones : e # d => where'[e] = where[e]
    BY <1>2, <2>1, <2>3
  <2>10. \A p \in Ports, e \in Drones : Reason(p, e) => ReasonNext(p, e)
    BY <2>1, <2>3, <2>5, <2>6, <2>8, <2>9 DEF Reason, ReasonNext
  <2> QED BY <1>3, <1>4, <2>1, <2>7, <2>10
<1>11. ASSUME NEW r \in Requests, Queried(r)
       PROVE  Linked' /\ \A p \in Ports, e \in Drones : NextHold(p, e) => ReasonNext(p, e)
  <2>1. /\ PQ # <<>> /\ PQ[1].action # "free_slot" /\ r = PQ[1].req /\ PQ' = Tail(PQ)
        /\ UNCHANGED <<dm, answer, where, request>> /\ pm' = [pm EXCEPT ![r] = "waiting"]
        /\ SQ' = Append(SQ, [action |-> "get_all_ports", req |-> r])
    BY <1>11 DEF Queried, Topics, worldVars
  <2>2. [action |-> "get_all_ports", req |-> r] \in SMsg
    BY DEF SMsg
  <2>3. Shorter(PQ, PQ')
    BY <1>1, <2>1, ShorterQueue
  <2>4. pm[r] = "inbox"
    BY <2>1, <2>3 DEF Inv, Queries, Shorter
  <2>5. Linked'
    BY <1>1, <1>2, <2>1, <2>4 DEF Linked
  <2>6. \A i \in DOMAIN PQ, p \in Ports :
          FreeSlot(PQ[i], p) => i - 1 \in DOMAIN PQ' /\ PQ'[i - 1] = PQ[i]
    BY <2>1, <2>3 DEF FreeSlot, Shorter
  <2>7. \A p \in Ports, e \in Drones : Reason(p, e) => ReasonNext(p, e)
    BY <2>1, <2>6 DEF Reason, ReasonNext, Promised, NextPromised
  <2>8. ~(\E q \in Requests, o \in Ports : Reserves(q, o)) /\ ~Releases
    BY <1>4, <2>1, <2>2
  <2> QED BY <1>3, <2>5, <2>7, <2>8
<1>12. ASSUME NEW r \in Requests, NEW p \in Ports, Reserves(r, p)
       PROVE  Linked' /\ \A o \in Ports, e \in Drones : NextHold(o, e) => ReasonNext(o, e)
  <2> DEFINE d == request[r].drone
  <2>1. /\ pm[r] = "waiting" /\ Landing(r) /\ PQ' = PQ /\ SQ' = Append(SQ, UpdateMsg(p, d))
        /\ UNCHANGED <<ports, dm, where, request>> /\ pm' = [pm EXCEPT ![r] = "done"]
        /\ answer' = IF dm[r] \in {"port", "ports"} THEN [answer EXCEPT ![r] = p] ELSE answer
    BY <1>12 DEF Reserves, Reply, Topics, worldVars
  <2>2. dm[r] = "port" /\ answer[r] = None
    BY <1>1, <2>1 DEF Linked, Handlers, Landing, Takeoff
  <2>3. d \in Drones
    BY <1>2, <2>1 DEF Landing, Query
  <2>4. Linked'
    BY <1>1, <1>2, <2>1 DEF Linked
  <2>5. NextPromised(r, p)
    BY <1>2, <2>1, <2>2 DEF NextPromised
  <2>6. \A q \in Requests, o \in Ports : Promised(q, o) => NextPromised(q, o)
    BY <1>1, <1>2, <2>1, <2>2 DEF Promised, NextPromised
  <2>7. \A o \in Ports, e \in Drones : Reason(o, e) => ReasonNext(o, e)
    BY <2>1, <2>6 DEF Reason, ReasonNext
  <2>8. ASSUME NEW e \in Drones, NextHold(p, e) PROVE ReasonNext(p, e)
    <3>1. e = d
      BY <2>1, <2>3, <2>8, HoldWritten
    <3> QED BY <2>1, <2>5, <3>1 DEF ReasonNext
  <2>9. ASSUME NEW o \in Ports, o # p, NEW e \in Drones, NextHold(o, e) PROVE ReasonNext(o, e)
    <3>1. WillHold(o, e)
      BY <2>1, <2>3, <2>9, HoldElse
    <3> QED BY <1>1, <2>7, <3>1
  <2> QED BY <2>4, <2>8, <2>9
<1>13. ASSUME NEW r \in Requests, NEW v \in PortTable \cup {"No free ports"}, Answers(r, v)
       PROVE  Linked' /\ \A o \in Ports, e \in Drones : NextHold(o, e) => ReasonNext(o, e)
  <2>1. /\ pm[r] = "waiting" /\ UNCHANGED <<dm, where, request>> /\ PQ' = PQ /\ SQ' = SQ
        /\ pm' = [pm EXCEPT ![r] = "done"]
        /\ answer' = IF dm[r] \in {"port", "ports"} THEN [answer EXCEPT ![r] = v] ELSE answer
    BY <1>13 DEF Answers, Reply, Topics, worldVars
  <2>2. answer[r] = None
    BY <1>1, <2>1 DEF Handlers
  <2>3. Linked'
    BY <1>1, <1>2, <2>1 DEF Linked
  <2>4. \A q \in Requests, o \in Ports : Promised(q, o) => NextPromised(q, o)
    BY <1>1, <1>2, <2>1, <2>2 DEF Promised, NextPromised
  <2>5. \A o \in Ports, e \in Drones : Reason(o, e) => ReasonNext(o, e)
    BY <2>1, <2>4 DEF Reason, ReasonNext
  <2> QED BY <1>3, <1>4, <2>1, <2>3, <2>5
<1>14. ASSUME Releases
       PROVE  Linked' /\ \A o \in Ports, e \in Drones : NextHold(o, e) => ReasonNext(o, e)
  <2> DEFINE p == PQ[1].port
  <2>1. /\ PQ # <<>> /\ PQ[1].action = "free_slot" /\ PQ' = Tail(PQ) /\ p \in Ports
        /\ SQ' = Append(SQ, UpdateMsg(p, None))
        /\ UNCHANGED <<ports, dm, pm, answer, where, request>>
    BY <1>14, Known, Holders DEF Releases, Topics, worldVars, handlerVars
  <2>2. Shorter(PQ, PQ')
    BY <1>1, <2>1, ShorterQueue
  <2>3. Linked'
    BY <1>1, <2>1 DEF Linked
  <2>4. \A i \in DOMAIN PQ, o \in Ports :
          FreeSlot(PQ[i], o) /\ o # p => i - 1 \in DOMAIN PQ' /\ PQ'[i - 1] = PQ[i]
    BY <2>1, <2>2 DEF FreeSlot, Shorter
  <2> HIDE DEF p
  <2>5. \A o \in Ports, e \in Drones : o # p /\ Reason(o, e) => ReasonNext(o, e)
    BY <2>1, <2>4 DEF Reason, ReasonNext, Promised, NextPromised
  <2>6. \A e \in Drones : ~NextHold(p, e)
    BY <1>1, <2>1, HoldWritten
  <2>7. \A o \in Ports, e \in Drones : o # p /\ NextHold(o, e) => WillHold(o, e)
    BY <2>1, HoldElse
  <2> QED BY <1>1, <2>3, <2>5, <2>6, <2>7
<1>15. ASSUME \/ \E d \in Drones, rec \in Registration : Noting(d, rec)
              \/ \E r \in Requests : Starts(r) \/ Charges(r)
              \/ Telling \/ Reading \/ Writing
       PROVE  Linked' /\ \A o \in Ports, e \in Drones : NextHold(o, e) => ReasonNext(o, e)
  <2>1. PQ' = PQ /\ UNCHANGED <<dm, pm, answer, where, request>>
    BY <1>15 DEF Noting, Starts, Charges, Telling, Reading, Writing, Topics,
                 handlerVars, worldVars
  <2>2. SQ' = SQ \/ (SQ # <<>> /\ SQ' = Tail(SQ))
    BY <1>15 DEF Noting, Starts, Charges, Telling, Reading, Writing, Topics
  <2>3. Linked'
    BY <1>1, <2>1 DEF Linked
  <2>4. \A p \in Ports, e \in Drones : Reason(p, e) => ReasonNext(p, e)
    BY <2>1 DEF Reason, ReasonNext, Promised, NextPromised
  <2> QED BY <1>3, <1>4, <2>2, <2>3, <2>4
<1> HIDE <1>1, <1>2
<1> QED
  BY <1>5, <1>6, <1>7, <1>8, <1>9, <1>10, <1>11, <1>12, <1>13, <1>14, <1>15 DEF Effect

-----------------------------------------------------------------------------
(* The theorems. *)

\* At the start only the demo drone stands, charged, in the port that both
\* stores give it.
LEMMA InvInit == ASSUME Init PROVE Inv
<1>1. /\ inbox = [c \in Components |-> <<>>]
      /\ MQ = <<>> /\ PQ = <<>> /\ SQ = <<>> /\ RQ = <<>> /\ CQ = <<>>
      /\ DOMAIN MQ = {} /\ DOMAIN PQ = {} /\ DOMAIN SQ = {} /\ DOMAIN RQ = {} /\ DOMAIN CQ = {}
  BY DEF Init, Components, MQ, PQ, SQ, RQ, CQ
<1>2. \A r \in Requests : /\ request[r] = None /\ dm[r] = "none" /\ pm[r] = "none"
                          /\ snapshot[r] = None /\ answer[r] = None /\ record[r] = None
                          /\ charging[r] = None
  BY DEF Init
<1>3. PortOrder[1] \in Ports
  <2>1. PortOrder \in Seq(ToSet(PortOrder)) /\ PortOrder # <<>>
    BY DronePortAssumption
  <2>2. 1 \in DOMAIN PortOrder
    BY <2>1, EmptySeq, LenProperties
  <2> QED BY <2>2 DEF Ports, ToSet
<1>4. DemoDrone \in Drones /\ Full \in Charge
  BY DronePortAssumption DEF Full, Charge
<1>5. Types
  <2>1. [port |-> PortOrder[1], battery |-> Full, status |-> "ready"] \in Registration
    BY <1>3, <1>4 DEF Registration
  <2>2. /\ ports \in PortTable /\ registry \in [Drones -> Registration \cup {None}]
        /\ where \in [Drones -> Ports \cup {None}] /\ charge \in [Drones -> Charge]
    BY <1>3, <1>4, <2>1 DEF Init, PortTable
  <2>3. TypeOK
    BY <1>1, <2>2 DEF Init, TypeOK, Waiting
  <2>4. /\ MQ \in Seq(MMsg) /\ PQ \in Seq(PMsg) /\ SQ \in Seq(SMsg)
        /\ RQ \in Seq(RMsg) /\ CQ \in Seq(CMsg)
    BY <1>1
  <2> QED BY <2>3, <2>4 DEF Init, Types
<1>6. \A d \in Drones : where[d] # None => d = DemoDrone /\ where[d] = PortOrder[1]
  BY DEF Init
<1>7. ports[PortOrder[1]] = DemoDrone /\ \A p \in Ports : p # PortOrder[1] => ports[p] = None
  BY <1>3 DEF Init
<1>8. /\ registry[DemoDrone] # None /\ registry[DemoDrone].port = PortOrder[1]
      /\ registry[DemoDrone].battery = Full /\ charge[DemoDrone] = Full
  BY <1>3, <1>4, NoneAssumption DEF Init, Registration
<1>9. Handlers /\ Queries /\ Reads
  BY <1>1, <1>2 DEF Handlers, Queries, Reads, Landing
<1>10. Order
  BY <1>1, <1>2 DEF Order
<1>11. Slots
  BY <1>1, <1>2, <1>6, <1>7 DEF Slots, StandingIsReserved, WillHold, SQ, Promised
<1>12. Askers
  BY <1>2 DEF Init, Askers, Landing, Takeoff
<1>13. Records
  BY <1>1, <1>2, <1>6, <1>8 DEF Records, WillSay
<1>14. Charging
  BY <1>1, <1>2 DEF Init, Charging
<1>15. Batteries
  BY <1>1, <1>2, <1>6, <1>8 DEF Batteries, AtMost, Full
<1>16. NoLeak
  <2>1. ASSUME NEW p \in Ports, NEW d \in Drones, WillHold(p, d) PROVE where[d] = p
    <3>1. ports[p] = d
      BY <1>1, <2>1 DEF WillHold, SQ
    <3> QED BY <1>7, <3>1, NoneAssumption DEF Init
  <2> QED BY <1>2, <2>1 DEF NoLeak
<1> QED BY <1>5, <1>9, <1>10, <1>11, <1>12, <1>13, <1>14, <1>15, <1>16 DEF Inv

\* Every step keeps it.
LEMMA InvStep == ASSUME Inv, Setting, Next PROVE Inv'
<1>1. Step /\ UNCHANGED impatient /\ Effect
  BY StepEffect DEF Next
<1> QED
  BY <1>1, TypesKept, HandlersKept, OrderKept, QueriesKept, ReadsKept, SlotsKept, AskersKept,
     RecordsKept, ChargingKept, BatteriesKept, NoLeakKept DEF Inv

LEMMA InvStutter == ASSUME Inv, UNCHANGED vars PROVE Inv'
<1>1. /\ MQ' = MQ /\ PQ' = PQ /\ SQ' = SQ /\ RQ' = RQ /\ CQ' = CQ
      /\ UNCHANGED <<impatient, ports, registry, inbox, request, dm, pm, snapshot, answer, record,
                     charging, asked, where, charge, session,
                     haunted>>
  BY DEF vars, handlerVars, worldVars, MQ, PQ, SQ, RQ, CQ
<1>2. Types' /\ Handlers'
  BY <1>1 DEF Inv, Types, TypeOK, Handlers, Landing, Takeoff
<1>3. Order'
  BY <1>1 DEF Inv, Order
<1>4. Queries' /\ Reads'
  BY <1>1 DEF Inv, Queries, Reads
<1>5. Slots' /\ NoLeak'
  BY <1>1 DEF Inv, Slots, StandingIsReserved, NoLeak, WillHold, Promised
<1>6. Askers' /\ Records' /\ Charging'
  BY <1>1 DEF Inv, Askers, Landing, Takeoff, Records, WillSay, Charging
<1>7. Batteries'
  BY <1>1 DEF Inv, Batteries
<1> QED BY <1>2, <1>3, <1>4, <1>5, <1>6, <1>7 DEF Inv

LEMMA Invariance == ASSUME Setting PROVE Spec => []Inv
<1>1. Init => Inv
  BY InvInit
<1>2. Inv /\ [Next]_vars => Inv'
  BY InvStep, InvStutter
<1> QED BY <1>1, <1>2, PTL DEF Spec

\* The stores, the handlers and the drones keep their types: every table and
\* record holds what its component may write, every handler stands where the
\* code can.
THEOREM TypeCorrect == ASSUME Setting PROVE Spec => []TypeOK
<1>1. Inv => TypeOK
  BY DEF Inv, Types
<1> QED BY <1>1, Invariance, PTL

\* Every standing drone's port is its own in StateStore's table or in the last
\* write on its way there, whatever request of a component times out.
THEOREM StandingReserved == ASSUME Setting PROVE Spec => []StandingIsReserved
<1>1. Inv => StandingIsReserved
  BY DEF Inv, Slots
<1> QED BY <1>1, Invariance, PTL

\* PortManager never sends two drones to one port, although it reserves by a
\* publication nobody confirms.
THEOREM PortsNotShared == ASSUME Setting PROVE Spec => []NoSharedPort
<1>1. Inv => NoSharedPort
  BY Holders DEF NoSharedPort
<1> QED BY <1>1, Invariance, PTL

\* When nobody is impatient and nothing is on its way, the port table is the
\* truth: no port is leaked and none is given away.
THEOREM QuietAgree == ASSUME Setting PROVE Spec => []QuietPortsAgree
<1>1. Inv => QuietPortsAgree
  <2> SUFFICES ASSUME Inv, Quiet, impatient = {}, NEW p \in Ports, NEW d \in Drones
               PROVE  ports[p] = d <=> where[d] = p
    BY DEF QuietPortsAgree
  <2>1. DOMAIN inbox["state_store"] = {} /\ DOMAIN PQ = {}
    BY DEF Quiet, Components, PQ
  <2>2. WillHold(p, d) <=> ports[p] = d
    BY <2>1 DEF WillHold
  <2>3. \A r \in Requests : ~Promised(r, p)
    BY DEF Quiet, Promised
  <2>4. WillHold(p, d) => where[d] = p
    BY <2>1, <2>3 DEF Inv, NoLeak
  <2>5. where[d] = p => WillHold(p, d)
    BY NoneAssumption DEF Inv, Slots, StandingIsReserved
  <2> QED BY <2>2, <2>4, <2>5
<1> QED BY <1>1, Invariance, PTL

\* Only an approved takeoff lets a drone go.
LEMMA ChargedWhenLeaving ==
  ASSUME Inv, Effect, NEW d \in Drones, where[d] # None, where'[d] = None
  PROVE  charge[d] > 0 \/ d \in haunted
<1>0. StateTypes /\ None \notin Ports
  BY TypesParts, NoneAssumption DEF Inv
<1>1. ASSUME NEW r \in Requests, Leaves(r) PROVE charge[d] > 0 \/ d \in haunted
  <2>1. /\ dm[r] = "drone" /\ record[r] # None /\ record[r].battery \notin {None, 0}
        /\ where' = IF Hears(r) THEN [where EXCEPT ![request[r].drone] = None] ELSE where
    BY <1>1 DEF Leaves, ApproveTakeoff, worldVars
  <2>2. d = request[r].drone
    BY <1>0, <2>1 DEF StateTypes
  <2>3. SUFFICES ASSUME d \notin haunted PROVE charge[d] > 0
    OBVIOUS
  <2>4. AtMost(record[r].battery, charge[d])
    BY <2>1, <2>2, <2>3 DEF Inv, Batteries
  <2>5. record[r].battery \in Charge \cup {None} /\ charge[d] \in Charge
    BY <1>0, <2>1 DEF StateTypes, Registration
  <2> QED BY <2>1, <2>4, <2>5 DEF AtMost, Charge
<1>2. ASSUME NEW r \in Requests, Lands(r) PROVE FALSE
  <2>1. /\ answer[r] \in Ports
        /\ where' = IF Hears(r) THEN [where EXCEPT ![request[r].drone] = answer[r]] ELSE where
    BY <1>2 DEF Lands, ApproveLanding, worldVars
  <2> QED BY <1>0, <2>1 DEF StateTypes
<1>3. ASSUME \/ \E e \in Drones : GivesUp(e) \/ \E rec \in Registration : Noting(e, rec)
             \/ \E r \in Requests, e \in Drones, b \in Charge \cup {None},
                   k \in {"request_landing", "request_takeoff"} : Asks(r, e, k, b)
             \/ \E r \in Requests : \/ Handles(r) \/ Refuses(r) \/ AsksDrone(r) \/ Queried(r)
                                    \/ Starts(r) \/ Charges(r)
                                    \/ \E v : Answers(r, v) \/ Reserves(r, v)
             \/ Reading \/ Writing \/ Releases \/ Telling
      PROVE  FALSE
  <2>1. UNCHANGED where
    BY <1>3 DEF GivesUp, Noting, Asks, Handles, Refuses, Refuse, AsksDrone, Queried, Starts,
                Charges, Answers, Reserves, Reading, Writing, Releases, Telling, worldVars
  <2> QED BY <2>1
<1> QED BY <1>1, <1>2, <1>3 DEF Effect

\* No order of the messages between DroneManager, ChargingManager and
\* DroneRegistry lets a drone leave with 60% or less: only the thread of
\* another landing does, by reporting its own level after this one landed.
THEOREM TakeoffCharged == ASSUME Setting PROVE Spec => TakeoffChargedUnlessHaunted
<1>1. Inv /\ [Next]_vars =>
        [\A d \in Drones :
           where[d] # None /\ where'[d] = None => charge[d] > 0 \/ d \in haunted]_vars
  <2> SUFFICES ASSUME Inv, Next, NEW d \in Drones, where[d] # None, where'[d] = None
               PROVE  charge[d] > 0 \/ d \in haunted
    OBVIOUS
  <2> QED BY StepEffect, ChargedWhenLeaving DEF Next
<1> QED BY <1>1, Invariance, PTL DEF Spec, TakeoffChargedUnlessHaunted
=============================================================================
