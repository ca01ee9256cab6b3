---------------------------- MODULE Drone_proofs ----------------------------
(***************************************************************************)
(* Theorems about EmergencyLanding and Tracking: what the drone does in an *)
(* emergency, and who follows it to raise one.                             *)
(*                                                                         *)
(* EmergencyLanding over Kafka, for every set of policies and of grants    *)
(* and every number of messages: the emergency wins, and the landing is    *)
(* final.  The topics keep the order of emergensy's messages, so that the  *)
(* monitor is isolated before it sees either command (After), no target    *)
(* follows a landing in the motors' topic (LandsLast), and the sprayer's   *)
(* topic ends with closing it (Closing).                                   *)
(*                                                                         *)
(* Tracking, for every way, number of messages, set of followers and whom  *)
(* each asks.  A record is Sound wherever a copy of it is: in Redis, in a  *)
(* coroutine or in the loop, and this is what makes OneFlight survive      *)
(* overlapping writes.  What a follower holds, and the answer on its way   *)
(* to it, came from its source (Fresh) and was once an answer of SITL's    *)
(* (Seen).                                                                 *)
(***************************************************************************)
EXTENDS EmergencyLanding, Tracking, SequenceTheorems, TLAPS

-----------------------------------------------------------------------------
(* EmergencyLanding. *)

\* What goes through the monitor.
CloseSprayer == Proxy("emergensy", "sprayer", "set_spray", "OFF")
LandMotors == Proxy("emergensy", "motors", "land", "land")
Commands == {CloseSprayer, LandMotors}
Proxies ==
  AutopilotMessages \cup Commands
  \cup {Proxy("limiter", "emergensy", "limiter_event", "")}
  \cup {Proxy("motors", "sitl", "__raw__", "track"),
        Proxy("motors", "sitl", "__raw__", "land")}

Rules == Grants \cup {Rule("", "", "")}
Isolation == [action |-> "isolation_start", sender |-> "emergensy",
              rule |-> Rule("", "", ""), data |-> ""]
Administration ==
  [action : {"set_policy", "remove_policy"}, sender : {"admin"}, rule : Grants, data : {""}]
  \cup [action : {"clear_policies", "isolation_start"}, sender : {"admin"},
        rule : {Rule("", "", "")}, data : {""}]
  \cup {Isolation}

\* What the other components take.
Delivered(t) ==
  CASE t = "security_monitor" -> Proxies \cup Administration
    [] t = "emergensy" -> [action : {"limiter_event"}, data : {""}]
    [] t = "motors" -> {[action |-> "set_target", data |-> "track"],
                        [action |-> "land", data |-> "land"]}
    [] t = "sprayer" -> [action : {"set_spray"}, data : {"ON", "OFF"}]
    [] t = "sitl" -> [action : {"__raw__"}, data : {"track", "land"}]

Types ==
  /\ TypeOK
  /\ \A t \in Topics : inbox[t] \in Seq(Delivered(t))
  /\ forwarding \in Seq(Proxies) /\ Len(forwarding) <= 1
  /\ protocol \in {<<>>, <<Isolation, CloseSprayer, LandMotors>>,
                   <<CloseSprayer, LandMotors>>, <<LandMotors>>}

-----------------------------------------------------------------------------
(* Sequences that are taken from the front and extended at the end. *)

\* The first message is the one taken.
LEMMA TakeFirst ==
  ASSUME NEW S, NEW s \in Seq(S), 1 \in DOMAIN s
  PROVE  /\ s # <<>> /\ RemoveAt(s, 1) = Tail(s) /\ Head(s) = s[1] /\ s[1] \in S
         /\ Tail(s) \in Seq(S) /\ Len(Tail(s)) = Len(s) - 1
         /\ \A i \in 1 .. Len(Tail(s)) : Tail(s)[i] = s[i + 1]
<1>1. 1 \in 1 .. Len(s) /\ Len(s) \in Nat /\ s # <<>>
  BY LenProperties
<1>2. SubSeq(s, 1, 0) = <<>> /\ SubSeq(s, 2, Len(s)) = Tail(s)
  BY <1>1, SubSeqEmpty, TailIsSubSeq
<1>3. RemoveAt(s, 1) = <<>> \o Tail(s)
  BY <1>2 DEF RemoveAt
<1> QED
  BY <1>1, <1>3, HeadTailProperties, ConcatEmptySeq, LenProperties

LEMMA PutLast ==
  ASSUME NEW S, NEW s \in Seq(S), NEW e \in S
  PROVE  /\ Append(s, e) \in Seq(S) /\ Len(Append(s, e)) = Len(s) + 1
         /\ Len(s) \in Nat
         /\ Append(s, e)[Len(s) + 1] = e
         /\ \A i \in 1 .. Len(s) : Append(s, e)[i] = s[i]
BY AppendProperties, LenProperties

\* Emergensy's commands come after an isolation.
After(q, isolated) ==
  \A j \in 1 .. Len(q) : q[j] \in Commands =>
    isolated \/ \E i \in 1 .. j - 1 : q[i].action = "isolation_start"

Isolates(q) == \E i \in 1 .. Len(q) : q[i].action = "isolation_start"

LEMMA AfterAppend ==
  ASSUME NEW S, NEW q \in Seq(S), NEW e \in S, NEW isolated, After(q, isolated),
         e \in Commands => isolated \/ Isolates(q)
  PROVE  After(Append(q, e), isolated)
BY PutLast DEF After, Isolates

LEMMA AfterTail ==
  ASSUME NEW S, NEW q \in Seq(S), 1 \in DOMAIN q, NEW before, NEW isolated,
         After(q, before), before \/ q[1].action = "isolation_start" => isolated
  PROVE  After(Tail(q), isolated)
<1>1. /\ Len(Tail(q)) = Len(q) - 1 /\ Len(q) \in Nat
      /\ \A i \in 1 .. Len(Tail(q)) : Tail(q)[i] = q[i + 1]
  BY TakeFirst, LenProperties
<1> SUFFICES ASSUME ~isolated, NEW j \in 1 .. Len(Tail(q)), Tail(q)[j] \in Commands
             PROVE  \E i \in 1 .. j - 1 : Tail(q)[i].action = "isolation_start"
  BY DEF After
<1>2. PICK i \in 1 .. j : q[i].action = "isolation_start"
  BY <1>1 DEF After
<1>3. i # 1
  BY <1>2
<1> QED
  BY <1>1, <1>2, <1>3

LEMMA IsolatesKept ==
  ASSUME NEW S, NEW q \in Seq(S), Isolates(q)
  PROVE  /\ \A e \in S : Isolates(Append(q, e))
         /\ 1 \in DOMAIN q /\ q[1].action # "isolation_start" => Isolates(Tail(q))
<1>1. \A e \in S : Isolates(Append(q, e))
  BY PutLast DEF Isolates
<1>2. ASSUME 1 \in DOMAIN q, q[1].action # "isolation_start"
      PROVE  Isolates(Tail(q))
  <2>1. PICK i \in 1 .. Len(q) : q[i].action = "isolation_start"
    BY DEF Isolates
  <2>2. i - 1 \in 1 .. Len(Tail(q)) /\ Tail(q)[i - 1] = q[i]
    BY <1>2, <2>1, TakeFirst, LenProperties
  <2> QED
    BY <2>1, <2>2 DEF Isolates
<1> QED
  BY <1>1, <1>2

\* Once there is a landing only landings follow.
LandsLast(q, landing) ==
  \A j \in 1 .. Len(q) :
    landing \/ (\E i \in 1 .. j - 1 : q[i].action = "land") => q[j].action = "land"
Lands(q) == \E i \in 1 .. Len(q) : q[i].action = "land"

LEMMA LandsLastAppend ==
  ASSUME NEW S, NEW q \in Seq(S), NEW e \in S, NEW landing, LandsLast(q, landing),
         e.action = "land" \/ (~landing /\ ~Lands(q))
  PROVE  LandsLast(Append(q, e), landing)
BY PutLast DEF LandsLast, Lands

LEMMA LandsLastTail ==
  ASSUME NEW S, NEW q \in Seq(S), 1 \in DOMAIN q, NEW before, NEW landing,
         LandsLast(q, before), landing => before \/ q[1].action = "land"
  PROVE  LandsLast(Tail(q), landing)
<1>1. /\ Len(Tail(q)) = Len(q) - 1 /\ Len(q) \in Nat
      /\ \A i \in 1 .. Len(Tail(q)) : Tail(q)[i] = q[i + 1]
  BY TakeFirst, LenProperties
<1> SUFFICES ASSUME NEW j \in 1 .. Len(Tail(q)),
                    landing \/ \E i \in 1 .. j - 1 : Tail(q)[i].action = "land"
             PROVE  Tail(q)[j].action = "land"
  BY DEF LandsLast
<1>2. before \/ \E i \in 1 .. j : q[i].action = "land"
  <2>1. CASE landing
    BY <2>1
  <2>2. ASSUME NEW i \in 1 .. j - 1, Tail(q)[i].action = "land"
        PROVE  q[i + 1].action = "land" /\ i + 1 \in 1 .. j
    BY <1>1, <2>2
  <2> QED
    BY <2>1, <2>2
<1> QED
  BY <1>1, <1>2 DEF LandsLast

LEMMA LandsKept ==
  ASSUME NEW S, NEW q \in Seq(S), Lands(q)
  PROVE  /\ \A e \in S : Lands(Append(q, e))
         /\ 1 \in DOMAIN q => q[1].action = "land" \/ Lands(Tail(q))
<1>1. \A e \in S : Lands(Append(q, e))
  BY PutLast DEF Lands
<1>2. ASSUME 1 \in DOMAIN q, q[1].action # "land"
      PROVE  Lands(Tail(q))
  <2>1. PICK i \in 1 .. Len(q) : q[i].action = "land"
    BY DEF Lands
  <2>2. i - 1 \in 1 .. Len(Tail(q)) /\ Tail(q)[i - 1] = q[i]
    BY <1>2, <2>1, TakeFirst, LenProperties
  <2> QED
    BY <2>1, <2>2 DEF Lands
<1> QED
  BY <1>1, <1>2

\* The sprayer is closed once everything is taken.
Closing(q, now) == IF q = <<>> THEN now = "OFF" ELSE q[Len(q)].data = "OFF"

LEMMA ClosingKept ==
  ASSUME NEW S, NEW q \in Seq(S), NEW now
  PROVE  /\ \A e \in S : e.data = "OFF" => Closing(Append(q, e), now)
         /\ 1 \in DOMAIN q /\ Closing(q, now) => Closing(Tail(q), q[1].data)
<1>1. ASSUME NEW e \in S, e.data = "OFF"
      PROVE  Closing(Append(q, e), now)
  <2>1. Append(q, e) # <<>> /\ Append(q, e)[Len(Append(q, e))] = e
    BY PutLast, EmptySeq
  <2> QED
    BY <1>1, <2>1 DEF Closing
<1>2. ASSUME 1 \in DOMAIN q, Closing(q, now)
      PROVE  Closing(Tail(q), q[1].data)
  <2>1. /\ q # <<>> /\ Len(Tail(q)) = Len(q) - 1 /\ Len(q) \in Nat /\ Tail(q) \in Seq(S)
        /\ \A i \in 1 .. Len(Tail(q)) : Tail(q)[i] = q[i + 1]
    BY <1>2, TakeFirst, LenProperties
  <2>2. CASE Tail(q) = <<>>
    <3>1. Len(<<>>) = 0
      OBVIOUS
    <3>2. Len(q) - 1 = 0 /\ Len(q) \in Nat
      BY <2>1, <2>2, <3>1
    <3>3. Len(q) = 1
      BY <3>2
    <3> QED
      BY <1>2, <2>1, <2>2, <3>3 DEF Closing
  <2>3. CASE Tail(q) # <<>>
    <3>1. Len(Tail(q)) \in 1 .. Len(Tail(q))
      BY <2>1, <2>3, EmptySeq
    <3> QED
      BY <1>2, <2>1, <2>3, <3>1 DEF Closing
  <2> QED
    BY <2>2, <2>3
<1> QED
  BY <1>1, <1>2

Has(q, e) == \E i \in 1 .. Len(q) : q[i] = e

LEMMA HasKept ==
  ASSUME NEW S, NEW q \in Seq(S), NEW e \in S
  PROVE  /\ Has(Append(q, e), e)
         /\ Has(q, e) => /\ \A d \in S : Has(Append(q, d), e)
                         /\ 1 \in DOMAIN q /\ q[1] # e => Has(Tail(q), e)
<1>1. Has(Append(q, e), e)
  BY PutLast DEF Has
<1>2. ASSUME Has(q, e), NEW d \in S
      PROVE  Has(Append(q, d), e)
  BY <1>2, PutLast DEF Has
<1>3. ASSUME Has(q, e), 1 \in DOMAIN q, q[1] # e
      PROVE  Has(Tail(q), e)
  <2>1. PICK i \in 1 .. Len(q) : q[i] = e
    BY <1>3 DEF Has
  <2>2. i - 1 \in 1 .. Len(Tail(q)) /\ Tail(q)[i - 1] = q[i]
    BY <1>3, <2>1, TakeFirst, LenProperties
  <2> QED
    BY <2>1, <2>2 DEF Has
<1> QED
  BY <1>1, <1>2, <1>3

-----------------------------------------------------------------------------
(* The invariant *)

Isolated == mode = "ISOLATED"
Asked == inbox["security_monitor"]

\* Only the administrator changes the policies of an isolated monitor.
PoliciesOK == /\ amended => Isolated
              /\ Isolated /\ ~amended => policies = Emergency

\* The monitor sees emergensy's commands when it is isolated.
OrderOK == /\ After(Asked, Isolated)
           /\ protocol \in {<<CloseSprayer, LandMotors>>, <<LandMotors>>} =>
                Isolated \/ Isolates(Asked)

\* What it passes on then is emergensy's.
ForwardingOK == \A i \in 1 .. Len(forwarding) :
  /\ forwarding[i] \in Commands => Isolated
  /\ Isolated /\ ~amended => forwarding[i] \in Commands

MotorsOK == /\ motors = "LANDING" \/ Lands(inbox["motors"]) => Isolated
            /\ ~amended => LandsLast(inbox["motors"], motors = "LANDING")

\* Each of the two commands is on its way, or arrived for good.
ClosePending == \/ protocol \notin {<<>>, <<LandMotors>>}
                \/ Has(Asked, CloseSprayer) \/ Has(forwarding, CloseSprayer)
                \/ Isolated /\ Closing(inbox["sprayer"], sprayer)
LandPending == \/ protocol # <<>>
               \/ Has(Asked, LandMotors) \/ Has(forwarding, LandMotors)
               \/ Lands(inbox["motors"]) \/ motors = "LANDING"
PendingOK == active /\ ~amended => ClosePending /\ LandPending

EInv == Types /\ PoliciesOK /\ OrderOK /\ ForwardingOK /\ MotorsOK /\ PendingOK

-----------------------------------------------------------------------------
(* Messages to the monitor *)

LEMMA DeliveredIs ==
  /\ Delivered("security_monitor") = Proxies \cup Administration
  /\ Delivered("emergensy") = [action : {"limiter_event"}, data : {""}]
  /\ Delivered("motors") = {[action |-> "set_target", data |-> "track"],
                            [action |-> "land", data |-> "land"]}
  /\ Delivered("sprayer") = [action : {"set_spray"}, data : {"ON", "OFF"}]
  /\ Delivered("sitl") = [action : {"__raw__"}, data : {"track", "land"}]
BY DEF Delivered

LEMMA DataIs ==
  /\ \A msg \in Delivered("motors") : msg.data \in {"track", "land"}
  /\ \A msg \in Delivered("sprayer") : msg.data \in {"ON", "OFF"}
  /\ \A msg \in Delivered("sitl") : msg.data \in {"track", "land"}
BY DEF Delivered

\* Everybody but emergensy sends something else than its commands.
LEMMA Others ==
  ASSUME NEW s, NEW t, NEW a, NEW d, s # "emergensy"
  PROVE  Proxy(s, t, a, d) \notin Commands
<1> DEFINE msg == Proxy(s, t, a, d)
<1>1. /\ msg.sender = s
      /\ CloseSprayer.sender = "emergensy" /\ LandMotors.sender = "emergensy"
  BY DEF Proxy, CloseSprayer, LandMotors
<1> HIDE DEF msg
<1>2. msg \notin Commands
  BY <1>1 DEF Commands
<1> QED
  BY <1>2 DEF msg

\* What a message to the monitor leaves of the types.
LEMMA SentTypes ==
  ASSUME Types, NEW msg \in Proxies \cup Administration, inbox' = ToMonitor(inbox, msg)
  PROVE  /\ DOMAIN inbox' = Topics
         /\ \A t \in Topics : inbox'[t] \in Seq(Delivered(t))
         /\ Asked \in Seq(Proxies \cup Administration)
         /\ inbox'["security_monitor"] = Append(Asked, msg)
         /\ \A t \in Topics \ {"security_monitor"} : inbox'[t] = inbox[t]
<1>1. /\ DOMAIN inbox' = Topics
      /\ inbox'["security_monitor"] = Append(Asked, msg)
      /\ \A t \in Topics \ {"security_monitor"} : inbox'[t] = inbox[t]
  BY DEF Types, TypeOK, Topics, ToMonitor, Asked
<1>2. Asked \in Seq(Proxies \cup Administration)
  BY DeliveredIs DEF Types, Topics, Asked
<1>3. Append(Asked, msg) \in Seq(Delivered("security_monitor"))
  BY <1>2, PutLast, DeliveredIs
<1>4. ASSUME NEW t \in Topics
      PROVE  inbox'[t] \in Seq(Delivered(t))
  <2>1. CASE t = "security_monitor"
    BY <1>1, <1>3, <2>1
  <2>2. CASE t # "security_monitor"
    BY <1>1, <2>2 DEF Types
  <2> QED
    BY <2>1, <2>2
<1> QED
  BY <1>1, <1>2, <1>4

LEMMA Counted ==
  ASSUME Types, NEW s \in {"autopilot", "limiter", "admin"}, NEW max, Counts(s, max)
  PROVE  sent' \in [{"autopilot", "limiter", "admin"} -> Nat]
BY DEF Types, TypeOK, Counts

\* A message that is not one of emergensy's commands.
LEMMA Sends ==
  ASSUME EInv, NEW msg \in (Proxies \cup Administration) \ Commands,
         inbox' = ToMonitor(inbox, msg),
         limiter' \in {"NORMAL", "WARNING", "EMERGENCY"},
         sent' \in [{"autopilot", "limiter", "admin"} -> Nat],
         UNCHANGED <<policies, mode, forwarding, protocol, active, motors, sprayer, flight,
                     amended>>
  PROVE  EInv'
<1> USE DEF EInv, Isolated
<1>1. /\ inbox'["security_monitor"] = Append(Asked, msg)
      /\ Asked \in Seq(Proxies \cup Administration)
      /\ inbox'["motors"] = inbox["motors"] /\ inbox'["sprayer"] = inbox["sprayer"]
      /\ DOMAIN inbox' = Topics
      /\ \A t \in Topics : inbox'[t] \in Seq(Delivered(t))
  BY SentTypes DEF Topics
<1>2. Asked' = Append(Asked, msg)
  BY <1>1 DEF Asked
<1>3. Types'
  BY <1>1 DEF Types, TypeOK
<1>4. PoliciesOK' /\ ForwardingOK' /\ MotorsOK'
  BY <1>1 DEF PoliciesOK, ForwardingOK, MotorsOK
<1>5. OrderOK'
  BY <1>1, <1>2, AfterAppend, IsolatesKept DEF OrderOK
<1>6. PendingOK'
  <2>1. CloseSprayer \in Proxies /\ LandMotors \in Proxies
    BY DEF Proxies, Commands
  <2>2. \A e \in {CloseSprayer, LandMotors} : Has(Asked, e) => Has(Asked, e)'
    BY <1>1, <1>2, <2>1, HasKept
  <2> QED
    BY <1>1, <2>2 DEF PendingOK, ClosePending, LandPending
<1> QED
  BY <1>3, <1>4, <1>5, <1>6

LEMMA AutopilotSent ==
  ASSUME EInv, NEW msg \in AutopilotMessages, AutopilotSends(msg)
  PROVE  EInv'
<1>1. msg \in (Proxies \cup Administration) \ Commands
  BY ZenonT(30), Others DEF Proxies, AutopilotMessages
<1>2. sent' \in [{"autopilot", "limiter", "admin"} -> Nat]
  BY Counted DEF AutopilotSends, EInv
<1>3. limiter' \in {"NORMAL", "WARNING", "EMERGENCY"}
  BY DEF AutopilotSends, EInv, Types, TypeOK
<1> QED
  BY <1>1, <1>2, <1>3, Sends DEF AutopilotSends

LEMMA LimiterRecalculated ==
  ASSUME EInv, NEW new \in {"NORMAL", "WARNING", "EMERGENCY"}, LimiterRecalculates(new)
  PROVE  EInv'
<1>1. limiter' = new
      /\ UNCHANGED <<policies, mode, forwarding, protocol, active, motors, sprayer, flight,
                     amended>>
  BY DEF LimiterRecalculates
<1>2. CASE new = "EMERGENCY"
  <2> DEFINE msg == Proxy("limiter", "emergensy", "limiter_event", "")
  <2>1. msg \in (Proxies \cup Administration) \ Commands
    BY Others DEF Proxies
  <2>2. inbox' = ToMonitor(inbox, msg)
    BY <1>2 DEF LimiterRecalculates
  <2>3. sent' \in [{"autopilot", "limiter", "admin"} -> Nat]
    BY <1>2, Counted DEF LimiterRecalculates, EInv
  <2> HIDE DEF msg
  <2> QED
    BY <1>1, <2>1, <2>2, <2>3, Sends
<1>3. CASE new # "EMERGENCY"
  <2>1. UNCHANGED <<inbox, sent>>
    BY <1>3 DEF LimiterRecalculates
  <2>2. Types'
    BY <1>1, <2>1 DEF EInv, Types, TypeOK
  <2> QED
    BY <1>1, <2>1, <2>2 DEF EInv, PoliciesOK, OrderOK, ForwardingOK, MotorsOK, PendingOK,
                            ClosePending, LandPending, Isolated, Asked
<1> QED
  BY <1>2, <1>3

LEMMA AdminSent ==
  ASSUME EInv, AdminStep
  PROVE  EInv'
<1>1. ASSUME NEW action, NEW rule, AdminSends(action, rule),
             \/ action \in {"set_policy", "remove_policy"} /\ rule \in Grants
             \/ action \in {"clear_policies", "isolation_start"} /\ rule = Rule("", "", "")
      PROVE  EInv'
  <2> DEFINE msg == [action |-> action, sender |-> "admin", rule |-> rule, data |-> ""]
  <2>1. msg \in Administration
    BY <1>1 DEF Administration
  <2>2. msg \notin Commands
    <3>1. msg.sender = "admin" /\ CloseSprayer.sender = "emergensy"
          /\ LandMotors.sender = "emergensy"
      BY DEF Proxy, CloseSprayer, LandMotors
    <3> QED
      BY <3>1 DEF Commands
  <2>3. sent' \in [{"autopilot", "limiter", "admin"} -> Nat]
    BY <1>1, Counted DEF AdminSends, EInv
  <2>4. /\ inbox' = ToMonitor(inbox, msg)
        /\ limiter' \in {"NORMAL", "WARNING", "EMERGENCY"}
        /\ UNCHANGED <<policies, mode, forwarding, protocol, active, motors, sprayer, flight,
                       amended>>
    BY <1>1 DEF AdminSends, EInv, Types, TypeOK
  <2> HIDE DEF msg
  <2> QED
    BY <2>1, <2>2, <2>3, <2>4, Sends
<1> QED
  BY <1>1 DEF AdminStep

\* Emergensy sends its three messages in their order.
LEMMA EmergensyPublished ==
  ASSUME EInv, EmergensyPublishes
  PROVE  EInv'
<1> USE DEF EInv, Isolated
<1> DEFINE M == Proxies \cup Administration
<1>1. CloseSprayer \in M /\ LandMotors \in M /\ Isolation \in M
  BY DEF Proxies, Administration, Commands
<1>2. /\ Isolation.action = "isolation_start" /\ Isolation \notin Commands
      /\ CloseSprayer # LandMotors
  <2>1. CloseSprayer.action = "proxy" /\ LandMotors.action = "proxy"
        /\ CloseSprayer.data = "OFF" /\ LandMotors.data = "land"
        /\ Isolation.action = "isolation_start"
    BY DEF Isolation, CloseSprayer, LandMotors, Proxy
  <2> QED
    BY <2>1 DEF Commands
<1>3. PICK msg \in {Isolation, CloseSprayer, LandMotors} :
        /\ inbox' = ToMonitor(inbox, msg)
        /\ msg = Isolation => protocol' = <<CloseSprayer, LandMotors>>
        /\ msg = CloseSprayer => protocol' = <<LandMotors>>
                                 /\ protocol = <<CloseSprayer, LandMotors>>
        /\ msg = LandMotors => protocol' = <<>> /\ protocol = <<LandMotors>>
  <2>1. inbox' = ToMonitor(inbox, Head(protocol)) /\ protocol' = Tail(protocol)
        /\ protocol # <<>>
    BY DEF EmergensyPublishes
  <2>2. /\ Head(<<LandMotors>>) = LandMotors /\ Tail(<<LandMotors>>) = <<>>
        /\ Head(<<CloseSprayer, LandMotors>>) = CloseSprayer
        /\ Tail(<<CloseSprayer, LandMotors>>) = <<LandMotors>>
        /\ Head(<<Isolation, CloseSprayer, LandMotors>>) = Isolation
        /\ Tail(<<Isolation, CloseSprayer, LandMotors>>) = <<CloseSprayer, LandMotors>>
    OBVIOUS
  <2> QED
    BY <1>2, <2>1, <2>2 DEF Types, Commands
<1> HIDE DEF M
<1>4. /\ inbox'["security_monitor"] = Append(Asked, msg) /\ Asked \in Seq(M)
      /\ inbox'["motors"] = inbox["motors"] /\ inbox'["sprayer"] = inbox["sprayer"]
      /\ DOMAIN inbox' = Topics /\ \A t \in Topics : inbox'[t] \in Seq(Delivered(t))
  BY <1>1, <1>3, SentTypes DEF Topics, M
<1>5. Asked' = Append(Asked, msg) /\ msg \in M
  BY <1>1, <1>4 DEF Asked
<1>6. UNCHANGED <<policies, mode, forwarding, active, limiter, motors, sprayer, flight,
                  amended, sent>>
  BY DEF EmergensyPublishes
<1>7. Types'
  <2>1. protocol' \in {<<>>, <<CloseSprayer, LandMotors>>, <<LandMotors>>}
    BY <1>3
  <2>2. Len(<<>>) = 0 /\ Len(<<LandMotors>>) = 1 /\ Len(<<CloseSprayer, LandMotors>>) = 2
    OBVIOUS
  <2>3. Len(protocol') \in {0, 1, 2}
    BY <2>1, <2>2, Zenon
  <2>4. \A n \in {0, 1, 2} : n <= 3
    OBVIOUS
  <2>5. Len(protocol') <= 3
    BY <2>3, <2>4, Zenon
  <2> QED
    BY <1>4, <1>6, <2>1, <2>5 DEF Types, TypeOK
<1>8. PoliciesOK' /\ ForwardingOK' /\ MotorsOK'
  BY <1>4, <1>6 DEF PoliciesOK, ForwardingOK, MotorsOK
<1>9. OrderOK'
  <2>1. msg \in Commands => Isolated \/ Isolates(Asked)
    BY <1>2, <1>3 DEF OrderOK
  <2>2. After(Append(Asked, msg), Isolated)
    BY <1>4, <1>5, <2>1, AfterAppend DEF OrderOK
  <2>3. msg = Isolation => Isolates(Append(Asked, msg))
    BY <1>2, <1>4, <1>5, PutLast DEF Isolates
  <2>4. Isolates(Asked) => Isolates(Append(Asked, msg))
    BY <1>4, <1>5, IsolatesKept
  <2> QED
    BY <1>3, <1>5, <1>6, <2>1, <2>2, <2>3, <2>4 DEF OrderOK, Commands
<1>10. PendingOK'
  <2>1. Has(Asked, CloseSprayer) \/ msg = CloseSprayer => Has(Asked, CloseSprayer)'
    BY <1>1, <1>4, <1>5, HasKept
  <2>2. Has(Asked, LandMotors) \/ msg = LandMotors => Has(Asked, LandMotors)'
    BY <1>1, <1>4, <1>5, HasKept
  <2>3. /\ <<CloseSprayer, LandMotors>> \notin {<<>>, <<LandMotors>>}
        /\ <<LandMotors>> # <<>>
    OBVIOUS
  <2>4. ClosePending => ClosePending'
    BY <1>3, <1>4, <1>6, <2>1, <2>3 DEF ClosePending
  <2>5. LandPending => LandPending'
    BY <1>3, <1>4, <1>6, <2>2, <2>3 DEF LandPending
  <2> QED
    BY <1>6, <2>4, <2>5 DEF PendingOK
<1> QED
  BY <1>7, <1>8, <1>9, <1>10

-----------------------------------------------------------------------------
(* Messages taken by a component's one consumer thread *)

LEMMA TookTypes ==
  ASSUME Broker = "kafka", Types, NEW t \in Topics, NEW i, NEW action,
         Takes(t, i, action)
  PROVE  /\ i = 1 /\ ~Busy(t)
         /\ 1 \in DOMAIN inbox[t] /\ inbox[t] \in Seq(Delivered(t))
         /\ inbox[t][1] \in Delivered(t) /\ inbox[t][1].action = action
         /\ Taken(t, i) = [inbox EXCEPT ![t] = Tail(@)]
         /\ Tail(inbox[t]) \in Seq(Delivered(t))
<1>1. i = 1 /\ ~Busy(t) /\ 1 \in DOMAIN inbox[t] /\ inbox[t][1].action = action
  BY DEF Takes
<1>2. inbox[t] \in Seq(Delivered(t))
  BY DEF Types
<1>3. /\ inbox[t][1] \in Delivered(t) /\ Tail(inbox[t]) \in Seq(Delivered(t))
      /\ RemoveAt(inbox[t], 1) = Tail(inbox[t])
  BY <1>1, <1>2, TakeFirst
<1> QED
  BY <1>1, <1>2, <1>3 DEF Taken

LEMMA OnlyTook ==
  ASSUME Broker = "kafka", Types, NEW t \in Topics, NEW i, NEW action,
         Takes(t, i, action), inbox' = Taken(t, i)
  PROVE  /\ DOMAIN inbox' = Topics
         /\ inbox'[t] = Tail(inbox[t])
         /\ \A u \in Topics \ {t} : inbox'[u] = inbox[u]
         /\ \A u \in Topics : inbox'[u] \in Seq(Delivered(u))
<1>1. /\ inbox' = [inbox EXCEPT ![t] = Tail(@)]
      /\ Tail(inbox[t]) \in Seq(Delivered(t))
  BY TookTypes
<1>2. DOMAIN inbox = Topics /\ \A u \in Topics : inbox[u] \in Seq(Delivered(u))
  BY DEF Types, TypeOK
<1> QED
  BY <1>1, <1>2

\* What the monitor's thread took.
LEMMA MonitorTook ==
  ASSUME Broker = "kafka", EInv, NEW i, NEW action,
         Takes("security_monitor", i, action), inbox' = Taken("security_monitor", i)
  PROVE  /\ i = 1 /\ forwarding = <<>>
         /\ Asked \in Seq(Proxies \cup Administration) /\ 1 \in DOMAIN Asked
         /\ Asked[1] \in Proxies \cup Administration /\ Asked[1].action = action
         /\ Asked' = Tail(Asked)
         /\ DOMAIN inbox' = Topics
         /\ \A u \in Topics : inbox'[u] \in Seq(Delivered(u))
         /\ inbox'["motors"] = inbox["motors"] /\ inbox'["sprayer"] = inbox["sprayer"]
<1>1. "security_monitor" \in Topics /\ "motors" \in Topics /\ "sprayer" \in Topics
  BY DEF Topics
<1>2. Types
  BY DEF EInv
<1> QED
  BY ZenonT(30), <1>1, <1>2, TookTypes, OnlyTook, DeliveredIs DEF Asked, Busy

\* ... when it is no command of emergensy.
LEMMA MonitorKeeps ==
  ASSUME NEW S, NEW q \in Seq(S), 1 \in DOMAIN q, q[1] \notin Commands
  PROVE  \A e \in Commands : Has(q, e) => Has(Tail(q), e)
<1> SUFFICES ASSUME NEW e \in Commands, Has(q, e)
             PROVE  Has(Tail(q), e)
  OBVIOUS
<1>1. e \in S
  BY DEF Has
<1> QED
  BY <1>1, HasKept

LEMMA NoCommand ==
  /\ \A msg \in Administration : msg \notin Commands /\ msg.action # "proxy"
  /\ \A msg \in Proxies : msg.action = "proxy"
  /\ \A msg \in Commands : msg.action = "proxy"
<1>1. \A s, t, a, d : Proxy(s, t, a, d).action = "proxy"
  BY DEF Proxy
<1>2. \A msg \in Commands : msg.action = "proxy"
  BY <1>1 DEF Commands, CloseSprayer, LandMotors
<1>3. \A msg \in AutopilotMessages : msg.action = "proxy"
  BY <1>1, Zenon DEF AutopilotMessages
<1>4. \A msg \in Proxies : msg.action = "proxy"
  <2>1. /\ Proxy("limiter", "emergensy", "limiter_event", "").action = "proxy"
        /\ Proxy("motors", "sitl", "__raw__", "track").action = "proxy"
        /\ Proxy("motors", "sitl", "__raw__", "land").action = "proxy"
    BY <1>1
  <2> QED
    BY <1>2, <1>3, <2>1, Zenon DEF Proxies
<1>5. Isolation.action = "isolation_start"
  BY DEF Isolation
<1>6. \A msg \in Administration :
         msg.action \in {"set_policy", "remove_policy", "clear_policies", "isolation_start"}
  BY <1>5 DEF Administration
<1> QED
  BY <1>2, <1>4, <1>6

LEMMA PoliciesManaged ==
  ASSUME Broker = "kafka", EInv, NEW i, NEW action, NEW new, Manages(i, action, new),
         action # "proxy", action # "isolation_start",
         new \subseteq Normal \cup Grants \cup Emergency
  PROVE  EInv'
<1> USE DEF EInv, Isolated
<1> DEFINE M == Proxies \cup Administration
<1>1. Takes("security_monitor", i, action) /\ inbox' = Taken("security_monitor", i)
  BY DEF Manages
<1>2. /\ i = 1 /\ forwarding = <<>>
      /\ Asked \in Seq(M) /\ 1 \in DOMAIN Asked /\ Asked[1].action = action
      /\ Asked' = Tail(Asked)
      /\ DOMAIN inbox' = Topics
      /\ \A u \in Topics : inbox'[u] \in Seq(Delivered(u))
      /\ inbox'["motors"] = inbox["motors"] /\ inbox'["sprayer"] = inbox["sprayer"]
  BY <1>1, MonitorTook
<1> HIDE DEF M
<1>3. /\ policies' = new /\ amended' = (amended \/ mode = "ISOLATED")
      /\ UNCHANGED <<mode, forwarding, protocol, active, limiter, motors, sprayer, flight,
                     sent>>
  BY DEF Manages
<1>4. amended' \in BOOLEAN
  BY <1>3, Zenon
<1>5. Types'
  BY <1>2, <1>3, <1>4 DEF Types, TypeOK
<1>6. PoliciesOK' /\ ForwardingOK'
  <2>1. Len(forwarding) = 0
    BY <1>2
  <2> QED
    BY <1>3, <2>1 DEF PoliciesOK, ForwardingOK
<1>7. MotorsOK'
  BY <1>2, <1>3 DEF MotorsOK
<1>8. OrderOK'
  BY <1>2, <1>3, AfterTail, IsolatesKept DEF OrderOK
<1>9. PendingOK'
  <2>1. \A e \in Commands : Has(Asked, e) => Has(Asked, e)'
    BY <1>2, NoCommand, MonitorKeeps
  <2> QED
    BY <1>2, <1>3, <2>1 DEF PendingOK, ClosePending, LandPending, Commands
<1> QED
  BY <1>5, <1>6, <1>7, <1>8, <1>9

LEMMA MonitorIsolated ==
  ASSUME Broker = "kafka", EInv, NEW i, HandleIsolationStart(i)
  PROVE  EInv'
<1> USE DEF EInv, Isolated
<1> DEFINE M == Proxies \cup Administration
<1>1. /\ Takes("security_monitor", i, "isolation_start")
      /\ inbox' = Taken("security_monitor", i)
      /\ policies' = Emergency /\ mode' = "ISOLATED"
      /\ UNCHANGED <<forwarding, protocol, active, limiter, motors, sprayer, flight,
                     amended, sent>>
  BY DEF HandleIsolationStart
<1>2. /\ i = 1 /\ forwarding = <<>>
      /\ Asked \in Seq(M) /\ 1 \in DOMAIN Asked /\ Asked[1].action = "isolation_start"
      /\ Asked' = Tail(Asked)
      /\ DOMAIN inbox' = Topics
      /\ \A u \in Topics : inbox'[u] \in Seq(Delivered(u))
      /\ inbox'["motors"] = inbox["motors"] /\ inbox'["sprayer"] = inbox["sprayer"]
  BY <1>1, MonitorTook
<1> HIDE DEF M
<1>3. Types'
  BY <1>1, <1>2 DEF Types, TypeOK
<1>4. PoliciesOK' /\ MotorsOK'
  BY <1>1, <1>2 DEF PoliciesOK, MotorsOK
<1>5. ForwardingOK'
  <2>1. Len(forwarding) = 0
    BY <1>2
  <2> QED
    BY <1>1, <2>1 DEF ForwardingOK
<1>6. OrderOK'
  BY <1>1 DEF OrderOK, After
<1>7. PendingOK'
  <2>1. \A e \in Commands : Has(Asked, e) => Has(Asked, e)'
    BY <1>2, NoCommand, MonitorKeeps
  <2> QED
    BY <1>1, <1>2, <2>1 DEF PendingOK, ClosePending, LandPending, Commands
<1> QED
  BY <1>3, <1>4, <1>5, <1>6, <1>7

\* The emergency policies allow emergensy's commands and nothing else.
LEMMA EmergencyAllows ==
  ASSUME policies = Emergency, NEW msg \in Proxies
  PROVE  Allowed(msg.rule) <=> msg \in Commands
<1>1. /\ CloseSprayer.rule = Rule("emergensy", "sprayer", "set_spray")
      /\ LandMotors.rule = Rule("emergensy", "motors", "land")
  BY DEF CloseSprayer, LandMotors, Proxy
<1>2. \A rule \in Emergency : Covers(rule, rule) /\ rule.sender = "emergensy"
  BY DEF Emergency, Rule, Covers
<1>3. msg \in Commands => Allowed(msg.rule)
  BY <1>1, <1>2 DEF Commands, Allowed, Emergency
<1>4. ASSUME msg \notin Commands
      PROVE  msg.rule.sender # "emergensy"
  <2>1. \A s, t, a, d : Proxy(s, t, a, d).rule.sender = s
    BY DEF Proxy, Rule
  <2>2. /\ Proxy("autopilot", "motors", "set_target", "track").rule.sender = "autopilot"
        /\ Proxy("autopilot", "sprayer", "set_spray", "ON").rule.sender = "autopilot"
        /\ Proxy("autopilot", "sprayer", "set_spray", "OFF").rule.sender = "autopilot"
        /\ Proxy("autopilot", "navigation", "get_state", "").rule.sender = "autopilot"
        /\ Proxy("limiter", "emergensy", "limiter_event", "").rule.sender = "limiter"
        /\ Proxy("motors", "sitl", "__raw__", "track").rule.sender = "motors"
        /\ Proxy("motors", "sitl", "__raw__", "land").rule.sender = "motors"
    BY DEF Proxy, Rule
  <2>3. \/ msg \in AutopilotMessages
        \/ msg = Proxy("limiter", "emergensy", "limiter_event", "")
        \/ msg = Proxy("motors", "sitl", "__raw__", "track")
        \/ msg = Proxy("motors", "sitl", "__raw__", "land")
    BY <1>4, Zenon DEF Proxies
  <2>4. \/ msg.rule.sender = "autopilot" \/ msg.rule.sender = "limiter"
        \/ msg.rule.sender = "motors"
    BY <2>2, <2>3, Zenon DEF AutopilotMessages
  <2> QED
    BY <2>4
<1>5. Allowed(msg.rule) => msg.rule.sender = "emergensy"
  BY <1>2 DEF Allowed, Covers
<1> QED
  BY <1>3, <1>4, <1>5

LEMMA ProxyHandled ==
  ASSUME Broker = "kafka", EInv, NEW i, HandleProxy(i)
  PROVE  EInv'
<1> USE DEF EInv, Isolated
<1> DEFINE M == Proxies \cup Administration
           msg == Asked[1]
<1>1. /\ Takes("security_monitor", i, "proxy")
      /\ inbox' = Taken("security_monitor", i)
      /\ UNCHANGED <<policies, mode, protocol, active, limiter, motors, sprayer, flight,
                     amended, sent>>
  BY DEF HandleProxy
<1>2. /\ i = 1 /\ forwarding = <<>>
      /\ Asked \in Seq(M) /\ 1 \in DOMAIN Asked /\ msg.action = "proxy" /\ msg \in M
      /\ Asked' = Tail(Asked)
      /\ DOMAIN inbox' = Topics
      /\ \A u \in Topics : inbox'[u] \in Seq(Delivered(u))
      /\ inbox'["motors"] = inbox["motors"] /\ inbox'["sprayer"] = inbox["sprayer"]
  BY <1>1, MonitorTook
<1>3. msg \in Proxies
  BY <1>2, NoCommand
<1>4. forwarding' = IF Allowed(msg.rule) THEN <<msg>> ELSE <<>>
  BY <1>2 DEF HandleProxy, Asked
<1>5. msg \in Commands => Isolated
  <2>1. 1 \in 1 .. Len(Asked)
    BY <1>2
  <2> QED
    BY <2>1 DEF OrderOK, After
<1>6. Isolated /\ ~amended => (Allowed(msg.rule) <=> msg \in Commands)
  BY <1>3, EmergencyAllows DEF PoliciesOK
<1> HIDE DEF M, msg
<1>7. Types'
  <2>1. forwarding' \in Seq(Proxies) /\ Len(forwarding') <= 1
    BY <1>3, <1>4
  <2> QED
    BY <1>1, <1>2, <2>1 DEF Types, TypeOK
<1>8. PoliciesOK' /\ MotorsOK'
  BY <1>1, <1>2 DEF PoliciesOK, MotorsOK
<1>9. ForwardingOK'
  <2>1. CASE Allowed(msg.rule)
    <3>1. \A j \in 1 .. Len(forwarding') : forwarding'[j] = msg
      BY <1>4, <2>1
    <3> QED
      BY <1>1, <1>5, <1>6, <2>1, <3>1 DEF ForwardingOK
  <2>2. CASE ~Allowed(msg.rule)
    <3>1. forwarding' = <<>> /\ Len(<<>>) = 0
      BY <1>4, <2>2
    <3> QED
      BY <3>1 DEF ForwardingOK
  <2> QED
    BY <2>1, <2>2
<1>10. OrderOK'
  <2>1. Asked[1].action # "isolation_start"
    BY <1>2 DEF msg
  <2> QED
    BY <1>1, <1>2, <2>1, AfterTail, IsolatesKept DEF OrderOK
<1>11. PendingOK'
  <2> SUFFICES ASSUME active, ~amended
               PROVE  ClosePending' /\ LandPending'
    BY <1>1 DEF PendingOK
  <2>1. ASSUME NEW e \in Commands, Has(Asked, e)
        PROVE  Has(Asked, e)' \/ Has(forwarding, e)'
    <3>1. CASE msg = e
      <4>1. forwarding' = <<msg>>
        BY <1>4, <1>5, <1>6, <3>1
      <4>2. Len(<<msg>>) = 1 /\ <<msg>>[1] = msg
        OBVIOUS
      <4> QED
        BY <3>1, <4>1, <4>2 DEF Has
    <3>2. CASE msg # e
      <4>1. e \in M
        BY <1>2, <2>1 DEF Has
      <4> QED
        BY <1>2, <2>1, <3>2, <4>1, HasKept DEF msg
    <3> QED
      BY <3>1, <3>2
  <2>2. ASSUME NEW e \in Commands
        PROVE  ~Has(forwarding, e)
    <3>1. Len(forwarding) = 0
      BY <1>2
    <3> QED
      BY <3>1 DEF Has
  <2>3. CloseSprayer \in Commands /\ LandMotors \in Commands
    BY DEF Commands
  <2>4. ClosePending'
    BY <1>1, <1>2, <2>1, <2>2, <2>3 DEF PendingOK, ClosePending
  <2>5. LandPending'
    BY <1>1, <1>2, <2>1, <2>2, <2>3 DEF PendingOK, LandPending
  <2> QED
    BY <2>4, <2>5
<1> QED
  BY <1>7, <1>8, <1>9, <1>10, <1>11

\* What a target gets of a message.
Passed(msg) == [action |-> msg.rule.action, data |-> msg.data]

LEMMA PassedIs ==
  ASSUME NEW msg \in Proxies, msg.rule.topic \in Topics
  PROVE  /\ msg.rule.topic # "security_monitor"
         /\ Passed(msg) \in Delivered(msg.rule.topic)
         /\ msg.rule.topic = "motors" /\ Passed(msg).action = "land" => msg \in Commands
<1> DEFINE to == msg.rule.topic
           d == Passed(msg)
<1>1. ASSUME NEW s, NEW t, NEW a, NEW data, msg = Proxy(s, t, a, data)
      PROVE  to = t /\ d = [action |-> a, data |-> data]
  BY <1>1 DEF Proxy, Rule, Passed
<1>2. \/ msg = Proxy("autopilot", "motors", "set_target", "track")
      \/ msg = Proxy("autopilot", "sprayer", "set_spray", "ON")
      \/ msg = Proxy("autopilot", "sprayer", "set_spray", "OFF")
      \/ msg = Proxy("autopilot", "navigation", "get_state", "")
      \/ msg \in Commands /\ msg = Proxy("emergensy", "sprayer", "set_spray", "OFF")
      \/ msg \in Commands /\ msg = Proxy("emergensy", "motors", "land", "land")
      \/ msg = Proxy("limiter", "emergensy", "limiter_event", "")
      \/ msg = Proxy("motors", "sitl", "__raw__", "track")
      \/ msg = Proxy("motors", "sitl", "__raw__", "land")
  BY Zenon DEF Proxies, AutopilotMessages, Commands, CloseSprayer, LandMotors
<1>3. \/ to = "motors" /\ d = [action |-> "set_target", data |-> "track"]
      \/ to = "motors" /\ d = [action |-> "land", data |-> "land"] /\ msg \in Commands
      \/ to = "sprayer" /\ d = [action |-> "set_spray", data |-> "ON"]
      \/ to = "sprayer" /\ d = [action |-> "set_spray", data |-> "OFF"]
      \/ to = "emergensy" /\ d = [action |-> "limiter_event", data |-> ""]
      \/ to = "sitl" /\ d = [action |-> "__raw__", data |-> "track"]
      \/ to = "sitl" /\ d = [action |-> "__raw__", data |-> "land"]
      \/ to = "navigation"
  BY <1>1, <1>2, Zenon
<1> HIDE DEF to, d
<1>4. to # "navigation"
  <2>1. to \in Topics
    BY DEF to
  <2> QED
    BY <2>1 DEF Topics
<1>5. CASE to = "motors"
  <2>1. \/ d = [action |-> "set_target", data |-> "track"]
        \/ d = [action |-> "land", data |-> "land"] /\ msg \in Commands
    BY <1>3, <1>5
  <2>2. d \in Delivered("motors")
    BY <2>1, DeliveredIs
  <2>3. d.action = "land" => msg \in Commands
    BY <2>1
  <2> QED
    BY <1>5, <2>2, <2>3 DEF to, d
<1>6. CASE to = "sprayer"
  <2>1. d \in Delivered("sprayer")
    BY <1>3, <1>6, DeliveredIs
  <2> QED
    BY <1>6, <2>1 DEF to, d
<1>7. CASE to = "emergensy"
  <2>1. d \in Delivered("emergensy")
    BY <1>3, <1>7, DeliveredIs
  <2> QED
    BY <1>7, <2>1 DEF to, d
<1>8. CASE to = "sitl"
  <2>1. d \in Delivered("sitl")
    BY <1>3, <1>8, DeliveredIs
  <2> QED
    BY <1>8, <2>1 DEF to, d
<1> QED
  BY <1>3, <1>4, <1>5, <1>6, <1>7, <1>8

LEMMA CommandsPassed ==
  /\ CloseSprayer.rule.topic = "sprayer" /\ Passed(CloseSprayer).data = "OFF"
  /\ LandMotors.rule.topic = "motors" /\ Passed(LandMotors).action = "land"
BY DEF CloseSprayer, LandMotors, Proxy, Rule, Passed

\* A landing among the motors' messages was there or is the one added.
LEMMA LandsOnlyBy ==
  ASSUME NEW S, NEW q \in Seq(S), NEW e \in S, Lands(Append(q, e)), e.action # "land"
  PROVE  Lands(q)
BY PutLast DEF Lands

LEMMA LandsAdded ==
  ASSUME NEW S, NEW q \in Seq(S), NEW e \in S, e.action = "land"
  PROVE  Lands(Append(q, e))
<1>1. Len(q) + 1 \in 1 .. Len(Append(q, e)) /\ Append(q, e)[Len(q) + 1] = e
  BY PutLast
<1> QED
  BY <1>1 DEF Lands

\* The one message a handler of the monitor holds is passed on.
LEMMA ForwardTypes ==
  ASSUME Types, NEW i, Forward(i)
  PROVE  /\ i = 1 /\ 1 \in 1 .. Len(forwarding)
         /\ forwarding[1] \in Proxies /\ forwarding' = <<>>
         /\ \A e : Has(forwarding, e) => e = forwarding[1]
<1>1. /\ i \in DOMAIN forwarding /\ forwarding \in Seq(Proxies)
      /\ Len(forwarding) <= 1 /\ Len(forwarding) \in Nat
      /\ forwarding' = RemoveAt(forwarding, i)
  BY LenProperties DEF Forward, Types
<1>2. i = 1 /\ Len(forwarding) = 1
  <2>1. DOMAIN forwarding = 1 .. Len(forwarding)
    BY <1>1, LenProperties
  <2>2. i \in 1 .. Len(forwarding) /\ Len(forwarding) <= 1 /\ Len(forwarding) \in Nat
    BY <1>1, <2>1
  <2>3. \A n \in Nat : n <= 1 => \A k \in 1 .. n : k = 1 /\ n = 1
    OBVIOUS
  <2> QED
    BY <2>2, <2>3, Zenon
<1>3. forwarding' = Tail(forwarding) /\ Tail(forwarding) \in Seq(Proxies)
      /\ Len(Tail(forwarding)) = Len(forwarding) - 1 /\ forwarding[1] \in Proxies
  BY <1>1, <1>2, TakeFirst
<1>4. Len(forwarding') = 0
  BY <1>2, <1>3
<1>5. forwarding' = <<>>
  BY <1>3, <1>4, EmptySeq
<1> QED
  BY <1>2, <1>3, <1>5 DEF Has

\* What it leaves of the topics.
LEMMA ForwardedTo ==
  ASSUME Types, NEW i, Forward(i)
  PROVE  LET msg == forwarding[1] IN
         /\ DOMAIN inbox' = Topics
         /\ \A u \in Topics : inbox'[u] \in Seq(Delivered(u))
         /\ \A u \in Topics :
              inbox'[u] = IF u = msg.rule.topic THEN Append(inbox[u], Passed(msg))
                                                ELSE inbox[u]
<1> DEFINE msg == forwarding[1]
<1>1. msg \in Proxies /\ i = 1
  BY ForwardTypes
<1>2. inbox' = IF msg.rule.topic \in Topics
               THEN [inbox EXCEPT ![msg.rule.topic] = Append(@, Passed(msg))] ELSE inbox
  BY <1>1 DEF Forward, Passed
<1>3. msg.rule.topic \in Topics => Passed(msg) \in Delivered(msg.rule.topic)
  BY <1>1, PassedIs
<1>4. DOMAIN inbox = Topics /\ \A u \in Topics : inbox[u] \in Seq(Delivered(u))
  BY DEF Types, TypeOK
<1> HIDE DEF msg
<1>5. \A u \in Topics :
         inbox'[u] = IF u = msg.rule.topic THEN Append(inbox[u], Passed(msg)) ELSE inbox[u]
  BY <1>2, <1>4
<1>6. DOMAIN inbox' = Topics
  BY <1>2, <1>4
<1>7. ASSUME NEW u \in Topics
      PROVE  inbox'[u] \in Seq(Delivered(u))
  <2>1. CASE u = msg.rule.topic
    <3>1. Append(inbox[u], Passed(msg)) \in Seq(Delivered(u))
      BY <1>3, <1>4, <2>1, PutLast
    <3> QED
      BY <1>5, <2>1, <3>1
  <2>2. CASE u # msg.rule.topic
    BY <1>4, <1>5, <2>2
  <2> QED
    BY <2>1, <2>2
<1> QED
  BY <1>5, <1>6, <1>7 DEF msg

LEMMA Forwarded ==
  ASSUME EInv, NEW i, Forward(i)
  PROVE  EInv'
<1> USE DEF EInv, Isolated
<1> DEFINE msg == forwarding[1]
           Moved == inbox["motors"]
           Sprayed == inbox["sprayer"]
<1>1. /\ 1 \in 1 .. Len(forwarding) /\ msg \in Proxies /\ forwarding' = <<>>
      /\ \A e : Has(forwarding, e) => e = msg
  BY ForwardTypes
<1>2. /\ DOMAIN inbox' = Topics
      /\ \A u \in Topics : inbox'[u] \in Seq(Delivered(u))
      /\ \A u \in Topics : inbox'[u] = IF u = msg.rule.topic
                                       THEN Append(inbox[u], Passed(msg)) ELSE inbox[u]
  BY ForwardedTo
<1>3. UNCHANGED <<policies, mode, protocol, active, limiter, motors, sprayer, flight,
                  amended, sent>>
  BY DEF Forward
<1>4. /\ msg \in Commands => Isolated
      /\ Isolated /\ ~amended => msg \in Commands
  BY <1>1 DEF ForwardingOK
<1>5. msg.rule.topic \in Topics => /\ msg.rule.topic # "security_monitor"
                                   /\ Passed(msg) \in Delivered(msg.rule.topic)
  BY <1>1, PassedIs
<1>6. msg.rule.topic = "motors" /\ Passed(msg).action = "land" => msg \in Commands
  BY <1>1, PassedIs DEF Topics
<1> HIDE DEF msg
<1>7. Len(<<>>) = 0 /\ <<>> \in Seq(Proxies)
  OBVIOUS
<1>8. Types'
  BY <1>1, <1>2, <1>3, <1>7 DEF Types, TypeOK
<1>9. PoliciesOK' /\ ForwardingOK'
  BY <1>1, <1>3, <1>7 DEF PoliciesOK, ForwardingOK
<1>10. Asked' = Asked
  BY <1>2, <1>5 DEF Asked, Topics
<1>11. OrderOK'
  BY <1>3, <1>10 DEF OrderOK
<1>12. Moved \in Seq(Delivered("motors")) /\ Sprayed \in Seq(Delivered("sprayer"))
  BY DEF Types, Topics
<1>13. CASE msg.rule.topic = "motors"
  <2>1. /\ Moved' = Append(Moved, Passed(msg)) /\ Sprayed' = Sprayed
        /\ Passed(msg) \in Delivered("motors")
    BY <1>2, <1>5, <1>13 DEF Topics
  <2> HIDE DEF Moved
  <2>2. Lands(Moved)' => Lands(Moved) \/ msg \in Commands
    BY <1>6, <1>12, <1>13, <2>1, LandsOnlyBy
  <2>3. motors = "LANDING" \/ Lands(Moved) => Isolated
    BY DEF MotorsOK, Moved
  <2>4. ~amended => LandsLast(Moved, motors = "LANDING")'
    <3>1. ~amended => LandsLast(Moved, motors = "LANDING")
      BY DEF MotorsOK, Moved
    <3>2. CASE Passed(msg).action = "land"
      BY <1>3, <1>12, <2>1, <3>1, <3>2, LandsLastAppend
    <3>3. CASE Passed(msg).action # "land" /\ ~amended
      <4>1. msg # LandMotors /\ msg # CloseSprayer
        BY <1>13, <3>3, CommandsPassed
      <4>2. motors # "LANDING" /\ ~Lands(Moved)
        BY <1>4, <2>3, <3>3, <4>1 DEF Commands
      <4> QED
        BY <1>3, <1>12, <2>1, <3>1, <3>3, <4>2, LandsLastAppend
    <3> QED
      BY <1>3, <3>2, <3>3
  <2>5. MotorsOK'
    BY <1>3, <1>4, <2>2, <2>3, <2>4 DEF MotorsOK, Moved
  <2>6. PendingOK'
    <3> SUFFICES ASSUME active, ~amended
                 PROVE  ClosePending' /\ LandPending'
      BY <1>3 DEF PendingOK
    <3>1. ClosePending'
      <4>1. ~Has(forwarding, CloseSprayer)
        BY <1>1, <1>13, CommandsPassed
      <4> QED
        BY <1>3, <1>10, <2>1, <4>1 DEF PendingOK, ClosePending
    <3>2. LandPending'
      <4>1. Lands(Moved) \/ Passed(msg).action = "land" => Lands(Moved)'
        BY <1>12, <2>1, LandsKept, LandsAdded
      <4>2. Has(forwarding, LandMotors) => Lands(Moved)'
        BY <1>1, <4>1, CommandsPassed
      <4> QED
        BY <1>3, <1>10, <4>1, <4>2 DEF PendingOK, LandPending, Moved
    <3> QED
      BY <3>1, <3>2
  <2> QED
    BY <1>8, <1>9, <1>11, <2>5, <2>6
<1>14. CASE msg.rule.topic # "motors"
  <2>1. Moved' = Moved
    BY <1>2, <1>14 DEF Topics
  <2>2. MotorsOK'
    BY <1>3, <2>1 DEF MotorsOK
  <2>3. PendingOK'
    <3> SUFFICES ASSUME active, ~amended
                 PROVE  ClosePending' /\ LandPending'
      BY <1>3 DEF PendingOK
    <3>1. LandPending'
      <4>1. ~Has(forwarding, LandMotors)
        BY <1>1, <1>14, CommandsPassed
      <4> QED
        BY <1>3, <1>10, <2>1, <4>1 DEF PendingOK, LandPending
    <3>2. CASE msg.rule.topic = "sprayer"
      <4>1. Sprayed' = Append(Sprayed, Passed(msg)) /\ Passed(msg) \in Delivered("sprayer")
        BY <1>2, <1>5, <3>2 DEF Topics
      <4>2. Isolated => msg = CloseSprayer
        BY <1>4, <1>14, CommandsPassed DEF Commands
      <4>3. msg = CloseSprayer => Isolated /\ Closing(Sprayed, sprayer)'
        <5>1. msg = CloseSprayer => Passed(msg).data = "OFF"
          BY CommandsPassed
        <5> HIDE DEF Sprayed
        <5> QED
          BY <1>3, <1>4, <1>12, <4>1, <5>1, ClosingKept DEF Commands
      <4> QED
        BY <1>1, <1>3, <1>10, <3>1, <4>2, <4>3 DEF PendingOK, ClosePending
    <3>3. CASE msg.rule.topic # "sprayer"
      <4>1. Sprayed' = Sprayed
        BY <1>2, <3>3 DEF Topics
      <4>2. ~Has(forwarding, CloseSprayer)
        BY <1>1, <3>3, CommandsPassed
      <4> QED
        BY <1>3, <1>10, <3>1, <4>1, <4>2 DEF PendingOK, ClosePending
    <3> QED
      BY <3>2, <3>3
  <2> QED
    BY <1>8, <1>9, <1>11, <2>2, <2>3
<1> QED
  BY <1>13, <1>14

\* A handler that takes from one topic what no part of the invariant reads.
LEMMA SimulatorTook ==
  ASSUME Broker = "kafka", EInv, NEW i, SimulatorTakes(i)
  PROVE  EInv'
<1> USE DEF EInv, Isolated
<1>1. /\ Takes("sitl", i, "__raw__") /\ inbox' = Taken("sitl", i)
      /\ flight' = inbox["sitl"][i].data
      /\ UNCHANGED <<policies, mode, forwarding, protocol, active, limiter, motors, sprayer,
                     amended, sent>>
  BY DEF SimulatorTakes
<1>2. "sitl" \in Topics
  BY DEF Topics
<1>3. i = 1 /\ inbox["sitl"][1] \in Delivered("sitl")
  BY <1>1, <1>2, TookTypes
<1>4. flight' \in {"track", "land"}
  BY <1>1, <1>3, DataIs
<1>5. /\ DOMAIN inbox' = Topics
      /\ \A u \in Topics \ {"sitl"} : inbox'[u] = inbox[u]
      /\ \A u \in Topics : inbox'[u] \in Seq(Delivered(u))
  BY <1>1, <1>2, OnlyTook
<1>6. /\ Asked' = Asked
      /\ inbox'["motors"] = inbox["motors"] /\ inbox'["sprayer"] = inbox["sprayer"]
  BY <1>5 DEF Topics, Asked
<1>7. Types'
  BY <1>1, <1>4, <1>5 DEF Types, TypeOK
<1> QED
  BY <1>1, <1>6, <1>7 DEF PoliciesOK, OrderOK, ForwardingOK, MotorsOK, PendingOK,
                          ClosePending, LandPending

LEMMA EmergencyHandled ==
  ASSUME Broker = "kafka", EInv, NEW i, HandleLimiterEvent(i)
  PROVE  EInv'
<1> USE DEF EInv, Isolated
<1>1. /\ Takes("emergensy", i, "limiter_event") /\ inbox' = Taken("emergensy", i)
      /\ active' = TRUE
      /\ protocol' = protocol \o <<Isolation, CloseSprayer, LandMotors>>
      /\ UNCHANGED <<policies, mode, forwarding, limiter, motors, sprayer, flight, amended,
                     sent>>
  BY DEF HandleLimiterEvent, Isolation, CloseSprayer, LandMotors
<1>2. "emergensy" \in Topics
  BY DEF Topics
<1>3. protocol = <<>>
  <2>1. ~Busy("emergensy")
    BY <1>1, <1>2, TookTypes
  <2> QED
    BY <2>1 DEF Busy
<1>4. protocol' = <<Isolation, CloseSprayer, LandMotors>>
  BY <1>1, <1>3
<1>5. /\ protocol' # <<>> /\ protocol' # <<LandMotors>>
      /\ protocol' # <<CloseSprayer, LandMotors>> /\ Len(protocol') = 3
  BY <1>4
<1>6. /\ DOMAIN inbox' = Topics
      /\ \A u \in Topics \ {"emergensy"} : inbox'[u] = inbox[u]
      /\ \A u \in Topics : inbox'[u] \in Seq(Delivered(u))
  BY <1>1, <1>2, OnlyTook
<1>7. /\ Asked' = Asked
      /\ inbox'["motors"] = inbox["motors"] /\ inbox'["sprayer"] = inbox["sprayer"]
  BY <1>6 DEF Topics, Asked
<1>8. Types'
  <2>1. Len(protocol') <= 3
    BY <1>5
  <2>2. active' \in BOOLEAN
    BY <1>1, Zenon
  <2> QED
    BY <1>1, <1>4, <1>6, <2>1, <2>2 DEF Types, TypeOK
<1>9. PoliciesOK' /\ ForwardingOK' /\ MotorsOK'
  BY <1>1, <1>7 DEF PoliciesOK, ForwardingOK, MotorsOK
<1>10. OrderOK' /\ PendingOK'
  BY <1>1, <1>5, <1>7 DEF OrderOK, PendingOK, ClosePending, LandPending
<1> QED
  BY <1>8, <1>9, <1>10

LEMMA SprayerTook ==
  ASSUME Broker = "kafka", EInv, NEW i, HandleSetSpray(i)
  PROVE  EInv'
<1> USE DEF EInv, Isolated
<1> DEFINE Sprayed == inbox["sprayer"]
<1>1. /\ Takes("sprayer", i, "set_spray") /\ inbox' = Taken("sprayer", i)
      /\ sprayer' = Sprayed[i].data
      /\ UNCHANGED <<policies, mode, forwarding, protocol, active, limiter, motors, flight,
                     amended, sent>>
  BY DEF HandleSetSpray
<1>2. "sprayer" \in Topics
  BY DEF Topics
<1>3. /\ i = 1 /\ Sprayed[1] \in Delivered("sprayer") /\ 1 \in DOMAIN Sprayed
      /\ Sprayed \in Seq(Delivered("sprayer"))
  BY <1>1, <1>2, TookTypes
<1>4. sprayer' \in {"ON", "OFF"}
  BY <1>1, <1>3, DataIs
<1>5. /\ DOMAIN inbox' = Topics /\ Sprayed' = Tail(Sprayed)
      /\ \A u \in Topics \ {"sprayer"} : inbox'[u] = inbox[u]
      /\ \A u \in Topics : inbox'[u] \in Seq(Delivered(u))
  BY <1>1, <1>2, OnlyTook
<1>6. Asked' = Asked /\ inbox'["motors"] = inbox["motors"]
  BY <1>5 DEF Topics, Asked
<1>7. Types'
  BY <1>1, <1>4, <1>5 DEF Types, TypeOK
<1>8. PoliciesOK' /\ ForwardingOK' /\ MotorsOK' /\ OrderOK'
  BY <1>1, <1>6 DEF PoliciesOK, ForwardingOK, MotorsOK, OrderOK
<1>9. PendingOK'
  <2>1. Closing(Sprayed, sprayer) => Closing(Sprayed, sprayer)'
    <3> HIDE DEF Sprayed
    <3> QED
      BY <1>1, <1>3, <1>5, ClosingKept
  <2> QED
    BY <1>1, <1>6, <2>1 DEF PendingOK, ClosePending, LandPending
<1> QED
  BY <1>7, <1>8, <1>9

LEMMA MotorsTook ==
  ASSUME Broker = "kafka", EInv, NEW i, HandleSetTarget(i) \/ HandleLand(i)
  PROVE  EInv' /\ (motors = "LANDING" /\ motors' # "LANDING" => amended)
<1> USE DEF EInv, Isolated
<1> DEFINE Moved == inbox["motors"]
           M == Proxies \cup Administration
           msg == Proxy("motors", "sitl", "__raw__", Moved[i].data)
<1>1. PICK action \in {"set_target", "land"} :
        /\ Takes("motors", i, action)
        /\ inbox' = ToMonitor(Taken("motors", i), msg)
        /\ motors' = IF action = "land" THEN "LANDING" ELSE "TRACKING"
  BY DEF HandleSetTarget, HandleLand, MotorsTake
<1>2. UNCHANGED <<policies, mode, forwarding, protocol, active, limiter, sprayer, flight,
                  amended, sent>>
  BY DEF HandleSetTarget, HandleLand, MotorsTake
<1>3. "motors" \in Topics /\ "security_monitor" \in Topics /\ "sprayer" \in Topics
  BY DEF Topics
<1>4. /\ i = 1 /\ 1 \in DOMAIN Moved /\ Moved \in Seq(Delivered("motors"))
      /\ Moved[1] \in Delivered("motors") /\ Moved[1].action = action
      /\ Taken("motors", i) = [inbox EXCEPT !["motors"] = Tail(@)]
      /\ Tail(Moved) \in Seq(Delivered("motors"))
  BY <1>1, <1>3, TookTypes
<1>5. msg \in M /\ msg \notin Commands
  <2>1. Moved[1].data \in {"track", "land"}
    BY <1>4, DataIs
  <2>2. msg \in Proxies
    BY <1>4, <2>1 DEF Proxies
  <2> QED
    BY <2>2, Others
<1> HIDE DEF msg, M
<1>6. /\ DOMAIN inbox = Topics /\ \A u \in Topics : inbox[u] \in Seq(Delivered(u))
      /\ Asked \in Seq(M)
  BY DeliveredIs DEF Types, TypeOK, Topics, Asked, M
<1>7. /\ DOMAIN inbox' = Topics /\ Moved' = Tail(Moved)
      /\ inbox'["security_monitor"] = Append(Asked, msg)
      /\ \A u \in Topics \ {"motors", "security_monitor"} : inbox'[u] = inbox[u]
  BY <1>1, <1>3, <1>4, <1>6 DEF ToMonitor, Asked
<1>8. Asked' = Append(Asked, msg) /\ Append(Asked, msg) \in Seq(M)
      /\ inbox'["sprayer"] = inbox["sprayer"]
  BY <1>3, <1>5, <1>6, <1>7, PutLast DEF Asked
<1>9. \A u \in Topics : inbox'[u] \in Seq(Delivered(u))
  BY <1>4, <1>6, <1>7, <1>8, DeliveredIs DEF M
<1>10. Types'
  BY <1>1, <1>2, <1>7, <1>9 DEF Types, TypeOK
<1>11. PoliciesOK' /\ ForwardingOK'
  BY <1>2 DEF PoliciesOK, ForwardingOK
<1>12. OrderOK'
  BY <1>2, <1>5, <1>6, <1>8, AfterAppend, IsolatesKept DEF OrderOK
<1>13. /\ motors = "LANDING" \/ Lands(Moved) => Isolated
       /\ ~amended => LandsLast(Moved, motors = "LANDING")
  BY DEF MotorsOK
<1> HIDE DEF Moved
<1>14. action = "land" => Lands(Moved)
  BY <1>4 DEF Lands
<1>15. Lands(Moved)' => Lands(Moved)
  <2>1. \A j \in 1 .. Len(Tail(Moved)) : Tail(Moved)[j] = Moved[j + 1]
        /\ j + 1 \in 1 .. Len(Moved)
    BY <1>4, TakeFirst, LenProperties
  <2> QED
    BY <1>7, <2>1 DEF Lands
<1>16. MotorsOK'
  <2>1. ~amended => LandsLast(Tail(Moved), motors' = "LANDING")
    BY <1>1, <1>4, <1>13, LandsLastTail
  <2> QED
    BY <1>1, <1>2, <1>7, <1>13, <1>14, <1>15, <2>1 DEF MotorsOK, Moved
<1>17. motors = "LANDING" /\ ~amended => action = "land"
  <2>1. 1 \in 1 .. Len(Moved)
    BY <1>4
  <2> QED
    BY <1>4, <1>13, <2>1 DEF LandsLast
<1>18. PendingOK'
  <2>1. \A e \in Commands : Has(Asked, e) => Has(Asked, e)'
    <3>1. ASSUME NEW e \in Commands, Has(Asked, e)
          PROVE  Has(Append(Asked, msg), e)
      <4>1. e \in M
        BY <1>6, <3>1 DEF Has
      <4> QED
        BY <1>5, <1>6, <3>1, <4>1, HasKept
    <3> QED
      BY <1>8, <3>1
  <2>2. Lands(Moved) => Lands(Moved)' \/ motors' = "LANDING"
    BY <1>1, <1>4, <1>7, LandsKept
  <2>3. motors = "LANDING" /\ ~amended => motors' = "LANDING"
    BY <1>1, <1>17
  <2> QED
    BY <1>2, <1>8, <2>1, <2>2, <2>3 DEF PendingOK, ClosePending, LandPending, Commands, Moved
<1> QED
  BY <1>1, <1>10, <1>11, <1>12, <1>16, <1>17, <1>18

-----------------------------------------------------------------------------
(* The theorems *)

LEMMA EInvInit == Init => EInv
<1> SUFFICES ASSUME Init
             PROVE  EInv
  OBVIOUS
<1>1. Len(<<>>) = 0 /\ \A S : <<>> \in Seq(S)
  OBVIOUS
<1>2. \A t \in Topics : inbox[t] = <<>>
  BY DEF Init
<1>3. Types
  <2>1. Len(protocol) <= 3 /\ Len(forwarding) <= 1
    BY <1>1 DEF Init
  <2>2. active \in BOOLEAN /\ amended \in BOOLEAN
    BY Zenon DEF Init
  <2>3. DOMAIN inbox = Topics /\ \A t \in Topics : inbox[t] \in Seq(Delivered(t))
    BY <1>1, <1>2 DEF Init
  <2>4. sent \in [{"autopilot", "limiter", "admin"} -> Nat]
    BY DEF Init
  <2>5. forwarding \in Seq(Proxies)
    BY <1>1 DEF Init
  <2> QED
    BY <2>1, <2>2, <2>3, <2>4, <2>5 DEF Init, Types, TypeOK
<1>4. Asked = <<>> /\ inbox["motors"] = <<>>
  BY <1>2 DEF Asked, Topics
<1>5. protocol # <<LandMotors>> /\ protocol # <<CloseSprayer, LandMotors>>
  BY DEF Init
<1>6. PoliciesOK /\ ForwardingOK /\ PendingOK
  BY <1>1 DEF Init, PoliciesOK, ForwardingOK, PendingOK, Isolated
<1>7. OrderOK /\ MotorsOK
  BY <1>1, <1>4, <1>5 DEF Init, OrderOK, MotorsOK, After, Lands, LandsLast, Isolated
<1> QED
  BY <1>3, <1>6, <1>7 DEF EInv

LEMMA EInvStep ==
  ASSUME Broker = "kafka", EInv, [Next]_vars
  PROVE  EInv' /\ (motors = "LANDING" /\ motors' # "LANDING" => amended)
<1>1. ASSUME NEW msg \in AutopilotMessages, AutopilotSends(msg)
      PROVE  EInv' /\ motors' = motors
  BY <1>1, AutopilotSent DEF AutopilotSends
<1>2. ASSUME NEW alarm \in {"NORMAL", "WARNING", "EMERGENCY"}, LimiterRecalculates(alarm)
      PROVE  EInv' /\ motors' = motors
  BY <1>2, LimiterRecalculated DEF LimiterRecalculates
<1>3. CASE AdminStep
  <2>1. motors' = motors
    BY <1>3 DEF AdminStep, AdminSends
  <2> QED
    BY <1>3, <2>1, AdminSent
<1>4. ASSUME NEW i \in DOMAIN inbox["security_monitor"],
             \/ HandleProxy(i) \/ HandleIsolationStart(i) \/ HandleSetPolicy(i)
             \/ HandleRemovePolicy(i) \/ HandleClearPolicies(i)
      PROVE  EInv' /\ motors' = motors
  <2>1. policies \subseteq Normal \cup Grants \cup Emergency
    BY DEF EInv, Types, TypeOK
  <2>2. CASE HandleProxy(i)
    BY <2>2, ProxyHandled DEF HandleProxy
  <2>3. CASE HandleIsolationStart(i)
    BY <2>3, MonitorIsolated DEF HandleIsolationStart
  <2>4. CASE HandleSetPolicy(i)
    <3> DEFINE rule == inbox["security_monitor"][i].rule
    <3>1. Manages(i, "set_policy", policies \cup {rule})
      BY <2>4 DEF HandleSetPolicy
    <3>2. i = 1 /\ Asked[1] \in Proxies \cup Administration /\ Asked[1].action = "set_policy"
      BY <3>1, MonitorTook DEF Manages
    <3>3. Asked[1] \in Administration
      BY <3>2, NoCommand
    <3>4. Isolation.action # "set_policy"
      BY DEF Isolation
    <3>5. Asked[1].rule \in Grants
      BY <3>2, <3>3, <3>4 DEF Administration
    <3>6. rule \in Grants
      BY <3>2, <3>5 DEF Asked
    <3> HIDE DEF rule
    <3>7. motors' = motors
      BY <3>1 DEF Manages
    <3> QED
      BY <2>1, <3>1, <3>6, <3>7, PoliciesManaged
  <2>5. CASE HandleRemovePolicy(i)
    <3> DEFINE new == policies \ {inbox["security_monitor"][i].rule}
    <3>1. Manages(i, "remove_policy", new) /\ new \subseteq Normal \cup Grants \cup Emergency
      BY <2>1, <2>5 DEF HandleRemovePolicy
    <3> HIDE DEF new
    <3> QED
      BY <3>1, PoliciesManaged DEF Manages
  <2>6. CASE HandleClearPolicies(i)
    <3>1. Manages(i, "clear_policies", {})
      BY <2>6 DEF HandleClearPolicies
    <3> QED
      BY <3>1, PoliciesManaged DEF Manages
  <2> QED
    BY <1>4, <2>2, <2>3, <2>4, <2>5, <2>6
<1>5. ASSUME NEW i \in DOMAIN forwarding, Forward(i)
      PROVE  EInv' /\ motors' = motors
  BY <1>5, Forwarded DEF Forward
<1>6. CASE EmergensyStep
  <2>1. motors' = motors
    BY <1>6 DEF EmergensyStep, HandleLimiterEvent, EmergensyPublishes
  <2> QED
    BY <1>6, <2>1, EmergencyHandled, EmergensyPublished DEF EmergensyStep
<1>7. CASE MotorsStep
  BY <1>7, MotorsTook DEF MotorsStep
<1>8. CASE SprayerStep
  <2>1. motors' = motors
    BY <1>8 DEF SprayerStep, HandleSetSpray
  <2> QED
    BY <1>8, <2>1, SprayerTook DEF SprayerStep
<1>9. CASE SimulatorStep
  <2>1. motors' = motors
    BY <1>9 DEF SimulatorStep, SimulatorTakes
  <2> QED
    BY <1>9, <2>1, SimulatorTook DEF SimulatorStep
<1>10. CASE UNCHANGED vars
  BY <1>10 DEF vars, EInv, Types, TypeOK, PoliciesOK, OrderOK, ForwardingOK, MotorsOK,
               PendingOK, ClosePending, LandPending, Isolated, Asked
<1> QED
  BY <1>1, <1>2, <1>3, <1>4, <1>5, <1>6, <1>7, <1>8, <1>9, <1>10 DEF Next, MonitorStep

LEMMA EInvAlways ==
  ASSUME Broker = "kafka"
  PROVE  Spec => []EInv
<1>1. EInv /\ [Next]_vars => EInv'
  BY EInvStep
<1> QED
  BY <1>1, EInvInit, PTL DEF Spec

\* Over Kafka the variables have their types: at most one protocol of
\* emergensy is under way, and every policy comes from the configuration, the
\* emergency set or the administrator.
THEOREM EmergencyTypeCorrect ==
  ASSUME Broker = "kafka"
  PROVE  Spec => []TypeOK
<1>1. EInv => TypeOK
  BY DEF EInv, Types
<1> QED
  BY <1>1, EInvAlways, PTL

\* Over Kafka, however the autopilot goes on and however often the limiter
\* raises the alarm, the emergency protocol ends with the motors landing and
\* the sprayer closed, unless the administrator changed the policies after
\* the isolation.
THEOREM EmergencyProtocolWins ==
  ASSUME Broker = "kafka"
  PROVE  Spec => []EmergencyWins
<1>1. EInv => EmergencyWins
  <2> SUFFICES ASSUME EInv, Settled, ~amended
               PROVE  motors = "LANDING" /\ sprayer = "OFF"
    BY DEF EmergencyWins
  <2>1. /\ protocol = <<>> /\ forwarding = <<>>
        /\ Asked = <<>> /\ inbox["motors"] = <<>> /\ inbox["sprayer"] = <<>>
    BY DEF Settled, Asked, Topics
  <2>2. Len(<<>>) = 0
    OBVIOUS
  <2>3. ClosePending /\ LandPending
    BY DEF EInv, PendingOK, Settled
  <2> QED
    BY <2>1, <2>2, <2>3 DEF ClosePending, LandPending, Has, Lands, Closing
<1> QED
  BY <1>1, EInvAlways, PTL

\* Over Kafka landing motors follow no target again unless the policies were
\* changed after the isolation.
THEOREM MotorsKeepLanding ==
  ASSUME Broker = "kafka"
  PROVE  Spec => LandingIsFinal
<1>1. EInv /\ [Next]_vars => (motors = "LANDING" /\ motors' # "LANDING" => amended)
  BY EInvStep
<1> QED
  BY <1>1, EInvAlways, PTL DEF Spec, LandingIsFinal

-----------------------------------------------------------------------------
(* Tracking. *)

\* A record that belongs to one flight.
Sound(r) == /\ r \in Record
            /\ r.cell >= r.home
            /\ r.status = "MOVING" <=> r.velocity \in Fast

SoundCopies ==
  /\ record = None \/ Sound(record)
  /\ beat = None \/ Sound(beat)
  /\ \A i \in Slots : jobs[i].phase = "read" =>
       jobs[i].seen = None \/ Sound(jobs[i].seen)
  /\ jobs \in [Slots -> Job]
  /\ version \in Nat

Shape ==
  /\ held \in [Followers -> Held]
  /\ reply \in [Followers -> Held \cup {None}]
  /\ late \in [to : Tardy, version : Nat] \cup {None}
  /\ failures \in Nat
  /\ mission \in Targets \cup {None}
  /\ state \in {"NORMAL", "WARNING", "EMERGENCY"}
  /\ beyond \subseteq Targets /\ loaded \subseteq Targets

\* The version f's source is at.
SourceVersion(f) == IF Source[f] = "sitl" THEN version ELSE held[Source[f]].version

Fresh ==
  \A f \in Followers :
    /\ held[f].version <= SourceVersion(f)
    /\ reply[f] # None /\ reply[f] # Nothing =>
         reply[f].version \in held[f].version .. SourceVersion(f)

Seen ==
  /\ mission # None => mission \in loaded
  /\ \A f \in Followers :
       /\ held[f] # Nothing => Breached(held[f].place) \subseteq beyond
       /\ reply[f] # None /\ reply[f] # Nothing => Breached(reply[f].place) \subseteq beyond

TInv == SoundCopies /\ Shape /\ Fresh /\ Seen /\ AlarmHasCause

-----------------------------------------------------------------------------
(* The simulator *)

LEMMA HomeCells == /\ 0 \in Cell
                   /\ \A h \in Homes : h \in Cell /\ h >= h
BY SitlAssumption DEF Cell

\* What the controller and the core write is sound if what they read was.
LEMMA SoundWrites ==
  /\ \A m \in Message : m.type = "HOME" => Sound(build_home_state(m))
  /\ \A m \in Message : m.type = "COMMAND" =>
       \A r : Sound(r) => Sound(apply_command_update(r, m))
  /\ \A r : Sound(r) => Sound(advance_drone_state(r))
<1>1. ASSUME NEW m \in Message, m.type = "HOME"
      PROVE  Sound(build_home_state(m))
  <2>1. m.home \in Homes
    BY <1>1 DEF Message
  <2> QED
    BY <2>1, HomeCells, SitlAssumption DEF Sound, build_home_state, Record
<1>2. ASSUME NEW r, NEW m \in Message, Sound(r), m.type = "COMMAND"
      PROVE  Sound(apply_command_update(r, m))
  BY <1>2 DEF Sound, apply_command_update, Message, Record
<1>3. ASSUME NEW r, Sound(r)
      PROVE  Sound(advance_drone_state(r))
  <2>1. CASE r.status = "MOVING" /\ r.cell < LastCell
    <3>1. r.cell \in Cell /\ r.home \in Cell /\ r.cell >= r.home
      BY <1>3, HomeCells DEF Sound, Record
    <3>2. r.cell + 1 \in Cell /\ r.cell + 1 >= r.home
      BY <2>1, <3>1, SitlAssumption DEF Cell
    <3> QED
      BY <1>3, <2>1, <3>2 DEF Sound, advance_drone_state, Record
  <2>2. CASE ~(r.status = "MOVING" /\ r.cell < LastCell)
    BY <1>3, <2>2 DEF advance_drone_state
  <2> QED
    BY <2>1, <2>2
<1> QED
  BY <1>1, <1>2, <1>3

LEMMA SoundInit == SitlInit => SoundCopies
<1> SUFFICES ASSUME SitlInit
             PROVE  SoundCopies
  OBVIOUS
<1>1. ASSUME record # None
      PROVE  Sound(record)
  BY <1>1, HomeCells, SitlAssumption DEF SitlInit, Sound, Record, Cell
<1>2. NotYet \in Job /\ NotYet.phase # "read"
  BY DEF NotYet, Job
<1>3. jobs = [i \in Slots |-> NotYet]
  BY DEF SitlInit
<1> QED
  BY <1>1, <1>2, <1>3 DEF SitlInit, SoundCopies

\* What a coroutine holds.
LEMMA JobFields ==
  /\ Done \in Job /\ Done.phase # "read"
  /\ \A m \in Message, seen \in Record \cup {None} :
       [phase |-> "read", message |-> m, seen |-> seen] \in Job
  /\ \A j \in Job : j.phase = "read" => j.message \in Message
<1>1. Done \in Job /\ Done.phase # "read" /\ NotYet.phase # "read"
  BY DEF Done, NotYet, Job
<1>2. ASSUME NEW m \in Message, NEW seen \in Record \cup {None}
      PROVE  [phase |-> "read", message |-> m, seen |-> seen] \in Job
  BY DEF Job
<1>3. ASSUME NEW j \in Job, j.phase = "read"
      PROVE  j.message \in Message
  BY <1>1, <1>3 DEF Job
<1> QED
  BY <1>1, <1>2, <1>3

LEMMA SoundStep ==
  ASSUME SoundCopies, SitlStep
  PROVE  SoundCopies' /\ version' \in {version, version + 1}
<1> USE DEF SoundCopies
<1>1. ASSUME NEW i \in Slots, NEW m \in Message, StartJob(i, m)
      PROVE  SoundCopies' /\ version' \in {version, version + 1}
  <2> DEFINE job == [phase |-> "read", message |-> m, seen |-> record]
  <2>1. job \in Job /\ job.seen = record
    BY JobFields DEF Sound
  <2>2. jobs' = [jobs EXCEPT ![i] = job] /\ UNCHANGED <<record, beat, version>>
    BY <1>1 DEF StartJob
  <2> HIDE DEF job
  <2>3. \A j \in Slots : jobs'[j] = IF j = i THEN job ELSE jobs[j]
    BY <2>2
  <2> QED
    BY <2>1, <2>2, <2>3
<1>2. ASSUME NEW i \in Slots, ApplyMessage(i)
      PROVE  SoundCopies' /\ version' \in {version, version + 1}
  <2>1. /\ jobs[i].message \in Message
        /\ jobs[i].seen = None \/ Sound(jobs[i].seen)
    BY <1>2, JobFields DEF ApplyMessage
  <2>2. \/ record' = record /\ version' = version
        \/ Sound(record') /\ version' = version + 1
    BY <1>2, <2>1, SoundWrites DEF ApplyMessage, Persist, Sound
  <2>3. jobs' = [jobs EXCEPT ![i] = Done] /\ beat' = beat
    BY <1>2 DEF ApplyMessage
  <2>4. \A j \in Slots : jobs'[j] = IF j = i THEN Done ELSE jobs[j]
    BY <2>3
  <2> QED
    BY <2>2, <2>3, <2>4, JobFields
<1>3. CASE BeatRead \/ BeatFails \/ Expire
  BY <1>3 DEF BeatRead, BeatFails, Expire
<1>4. CASE BeatWrite
  BY <1>4, SoundWrites DEF BeatWrite, Persist
<1> QED
  BY <1>1, <1>2, <1>3, <1>4 DEF SitlStep

-----------------------------------------------------------------------------
(* The followers *)

LEMMA VersionsAreNat ==
  ASSUME SoundCopies, Shape, NEW f \in Followers
  PROVE  /\ held[f] \in Held /\ held[f].version \in Nat
         /\ SourceVersion(f) \in Nat
         /\ reply[f] # None => reply[f] \in Held /\ reply[f].version \in Nat
<1>1. \A h \in Held : h.version \in Nat
  BY DEF Held, NavState, Nothing
<1>2. Source[f] # "sitl" => Source[f] \in Followers
  BY TrackingAssumption
<1>3. \A g \in Followers : held[g] \in Held /\ (reply[g] # None => reply[g] \in Held)
  BY DEF Shape
<1> QED
  BY <1>1, <1>2, <1>3 DEF SourceVersion, SoundCopies

LEMMA PlacesArePlaces ==
  ASSUME SoundCopies
  PROVE  PlaceOf(record) \in Place
BY DEF SoundCopies, PlaceOf, Place, Sound, Record

LEMMA TInvInit == TrackingInit => TInv
<1> SUFFICES ASSUME TrackingInit
             PROVE  TInv
  OBVIOUS
<1>1. SoundCopies
  BY SoundInit DEF TrackingInit
<1>2. Shape
  BY TrackingAssumption DEF TrackingInit, Shape, Held
<1>3. Fresh
  <2>1. \A f \in Followers : held[f].version = 0 /\ reply[f] = None
    BY DEF TrackingInit, Nothing
  <2>2. version = 0
    BY DEF TrackingInit, SitlInit
  <2> QED
    BY <2>1, <2>2, TrackingAssumption DEF Fresh, SourceVersion
<1>4. Seen /\ AlarmHasCause
  BY DEF TrackingInit, Seen, AlarmHasCause
<1> QED
  BY <1>1, <1>2, <1>3, <1>4 DEF TInv

\* While the drone flies on, its followers fall behind and nothing else.
LEMMA Simulated ==
  ASSUME TInv, Simulate
  PROVE  TInv' /\ version' \in {version, version + 1} /\ UNCHANGED held
<1> USE DEF TInv
<1>1. /\ SoundCopies' /\ version' \in {version, version + 1}
      /\ UNCHANGED <<held, reply, late, failures, mission, state, beyond, loaded>>
  BY SoundStep DEF Simulate, callVars, limiterVars, ghosts
<1>2. Shape'
  BY <1>1 DEF Shape
<1>3. ASSUME NEW f \in Followers
      PROVE  SourceVersion(f) <= SourceVersion(f)' /\ SourceVersion(f)' \in Nat
  BY <1>1, VersionsAreNat, TrackingAssumption DEF SourceVersion, SoundCopies
<1>4. Fresh'
  <2> SUFFICES ASSUME NEW f \in Followers
               PROVE  /\ held[f].version <= SourceVersion(f)'
                      /\ reply[f] # None /\ reply[f] # Nothing =>
                           reply[f].version \in held[f].version .. SourceVersion(f)'
    BY <1>1 DEF Fresh
  <2> QED
    BY <1>3, VersionsAreNat DEF Fresh
<1>5. Seen'
  BY <1>1 DEF Seen
<1>6. AlarmHasCause'
  BY <1>1 DEF AlarmHasCause
<1> QED
  BY <1>1, <1>2, <1>4, <1>5, <1>6

\* What an answer to f says is what its source has now.
LEMMA Answered ==
  ASSUME TInv, NEW f \in Followers, NEW answer \in Held,
         reply' = [reply EXCEPT ![f] = answer],
         failures' \in Nat,
         beyond' \in SUBSET Targets, beyond \subseteq beyond',
         UNCHANGED <<sitlVars, held, late, limiterVars, loaded>>,
         answer # Nothing => /\ answer.version = SourceVersion(f)
                             /\ Breached(answer.place) \subseteq beyond'
  PROVE  TInv'
<1> USE DEF TInv, sitlVars, limiterVars
<1>1. SoundCopies'
  BY DEF SoundCopies
<1>2. Shape'
  BY DEF Shape
<1>3. \A g \in Followers : SourceVersion(g)' = SourceVersion(g) /\ SourceVersion(g) \in Nat
                           /\ held[g].version \in Nat
  BY VersionsAreNat DEF SourceVersion
<1>4. \A g \in Followers : reply'[g] = IF g = f THEN answer ELSE reply[g]
  BY DEF Shape
<1>5. Fresh'
  BY <1>3, <1>4 DEF Fresh
<1>6. AlarmHasCause'
  BY DEF AlarmHasCause
<1>7. ASSUME NEW g \in Followers
      PROVE  /\ held[g] # Nothing => Breached(held[g].place) \subseteq beyond'
             /\ reply'[g] # None /\ reply'[g] # Nothing =>
                  Breached(reply'[g].place) \subseteq beyond'
  <2>1. CASE g = f
    BY <1>4, <2>1 DEF Seen
  <2>2. CASE g # f
    BY <1>4, <2>2 DEF Seen
  <2> QED
    BY <2>1, <2>2
<1>8. Seen'
  BY <1>7 DEF Seen, Breached, Deviation
<1> QED
  BY <1>1, <1>2, <1>5, <1>6, <1>8

\* A follower that stores an answer goes forward, and stays behind its source.
LEMMA Received ==
  ASSUME TInv, NEW f \in Followers, Receive(f)
  PROVE  /\ TInv'
         /\ \E v \in held[f].version .. SourceVersion(f) :
              \A g \in Followers : held'[g].version = IF g = f THEN v ELSE held[g].version
<1> USE DEF TInv, sitlVars, limiterVars
<1> DEFINE new == IF reply[f] = Nothing THEN held[f] ELSE reply[f]
<1>1. /\ reply[f] # None
      /\ held' = [held EXCEPT ![f] = new]
      /\ reply' = [reply EXCEPT ![f] = None]
      /\ UNCHANGED <<record, jobs, beat, version, late, failures, mission, state, beyond, loaded>>
  BY DEF Receive, ghosts
<1>2. new \in Held /\ new.version \in held[f].version .. SourceVersion(f)
      /\ (new # Nothing => Breached(new.place) \subseteq beyond)
  BY <1>1, VersionsAreNat DEF Fresh, Seen
<1> HIDE DEF new
<1>3. \A g \in Followers : /\ held'[g] = IF g = f THEN new ELSE held[g]
                           /\ reply'[g] = IF g = f THEN None ELSE reply[g]
  BY <1>1 DEF Shape
<1>4. SoundCopies' /\ Shape'
  BY <1>1, <1>2 DEF SoundCopies, Shape
<1>5. ASSUME NEW g \in Followers
      PROVE  SourceVersion(g) <= SourceVersion(g)' /\ SourceVersion(g)' \in Nat
  BY <1>1, <1>2, <1>3, <1>4, VersionsAreNat, TrackingAssumption DEF SourceVersion
<1>6. Fresh'
  <2> SUFFICES ASSUME NEW g \in Followers
               PROVE  /\ held'[g].version <= SourceVersion(g)'
                      /\ reply'[g] # None /\ reply'[g] # Nothing =>
                           reply'[g].version \in held'[g].version .. SourceVersion(g)'
    BY DEF Fresh
  <2>1. CASE g = f
    BY <1>2, <1>3, <1>5, <2>1, VersionsAreNat
  <2>2. CASE g # f
    BY <1>3, <1>5, <2>2, VersionsAreNat DEF Fresh
  <2> QED
    BY <2>1, <2>2
<1>7. AlarmHasCause'
  BY <1>1 DEF AlarmHasCause
<1>8. Seen'
  BY <1>1, <1>2, <1>3 DEF Seen, Breached, Deviation
<1> QED
  BY <1>2, <1>3, <1>4, <1>6, <1>7, <1>8

\* An alarm is about an answer of SITL's and a mission that was loaded.
LEMMA Recalculated ==
  ASSUME TInv, Recalculate
  PROVE  TInv'
<1> USE DEF TInv, sitlVars, callVars
<1>1. /\ mission # None /\ held["limiter"] # Nothing
      /\ state' = Deviation(held["limiter"].place, mission)
      /\ UNCHANGED <<record, jobs, beat, version, held, reply, late, failures, mission, beyond, loaded>>
  BY DEF Recalculate, ghosts
<1>2. /\ Breached(held["limiter"].place) \subseteq beyond
      /\ mission \in loaded /\ mission \in Targets
  BY <1>1, TrackingAssumption DEF Seen, Shape
<1>3. AlarmHasCause'
  BY <1>1, <1>2 DEF AlarmHasCause, Breached
<1>4. Shape'
  BY <1>1 DEF Shape, Deviation
<1>5. SoundCopies' /\ Fresh'
  BY <1>1 DEF SoundCopies, Fresh, SourceVersion
<1>6. Seen'
  BY <1>1 DEF Seen, Breached, Deviation
<1> QED
  BY <1>3, <1>4, <1>5, <1>6

LEMMA TInvStep == TInv /\ [TrackingNext]_trackingVars => TInv'
<1> SUFFICES ASSUME TInv, [TrackingNext]_trackingVars
             PROVE  TInv'
  OBVIOUS
<1>1. CASE Simulate
  BY <1>1, Simulated
<1>2. ASSUME NEW p \in Place, Answer(p), failures' \in Nat
      PROVE  TInv'
  <2> DEFINE answer == [place |-> p, version |-> version]
  <2>1. /\ reply' = [reply EXCEPT !["navigation"] = answer]
        /\ beyond' = beyond \cup Breached(p)
        /\ UNCHANGED <<sitlVars, held, late, limiterVars, loaded>>
    BY <1>2 DEF Answer
  <2>2. answer \in Held
    BY DEF TInv, SoundCopies, Held, NavState
  <2>3. answer.version = SourceVersion("navigation") /\ Breached(answer.place) \subseteq beyond'
    BY <2>1, TrackingAssumption DEF SourceVersion
  <2>4. beyond' \in SUBSET Targets /\ beyond \subseteq beyond'
    BY <2>1 DEF TInv, Shape, Breached
  <2> HIDE DEF answer
  <2> QED
    BY <1>2, <2>1, <2>2, <2>3, <2>4, Answered, TrackingAssumption
<1>10. CASE AnswerPosition
  <2>1. failures' \in Nat /\ PlaceOf(record) \in Place
    BY <1>10, PlacesArePlaces DEF AnswerPosition, TInv, Shape
  <2> QED
    BY <1>2, <1>10, <2>1 DEF AnswerPosition
<1>11. CASE FailPosition
  <2>1. failures' \in Nat /\ Nowhere \in Place
    BY <1>11 DEF FailPosition, TInv, Shape, Place
  <2> QED
    BY <1>2, <1>11, <2>1 DEF FailPosition
<1>3. ASSUME NEW f \in Followers, AnswerState(f)
      PROVE  TInv'
  <2> DEFINE answer == held[Source[f]]
  <2>1. /\ Source[f] \in Followers /\ Source[f] # "sitl"
        /\ reply' = [reply EXCEPT ![f] = answer]
        /\ UNCHANGED <<sitlVars, held, late, failures, limiterVars, beyond, loaded>>
    BY <1>3, TrackingAssumption DEF AnswerState, ghosts
  <2>2. answer \in Held
    BY <2>1 DEF TInv, Shape
  <2>3. answer # Nothing => /\ answer.version = SourceVersion(f)
                            /\ Breached(answer.place) \subseteq beyond
    BY <2>1 DEF SourceVersion, TInv, Seen
  <2>4. failures' \in Nat /\ beyond' = beyond /\ beyond \in SUBSET Targets
    BY <2>1 DEF TInv, Shape
  <2> HIDE DEF answer
  <2> QED
    BY <2>1, <2>2, <2>3, <2>4, Answered
<1>4. ASSUME NEW f \in Followers, Receive(f)
      PROVE  TInv'
  BY <1>4, Received
<1>5. ASSUME NEW f \in Followers, GiveUp(f)
      PROVE  TInv'
  <2>1. /\ late' = IF f \in Tardy THEN [to |-> f, version |-> reply[f].version] ELSE late
        /\ reply' = [reply EXCEPT ![f] = None]
        /\ UNCHANGED <<record, jobs, beat, version, held, failures, mission, state, beyond, loaded>>
    BY <1>5 DEF GiveUp, sitlVars, limiterVars, ghosts
  <2>2. \A g \in Followers : reply'[g] = None \/ reply'[g] = reply[g]
    BY <2>1 DEF TInv, Shape
  <2>3. late' \in [to : Tardy, version : Nat] \cup {None}
    BY <1>5, <2>1, VersionsAreNat DEF GiveUp, TInv, Shape
  <2>4. SoundCopies' /\ Shape'
    BY <2>1, <2>3 DEF TInv, SoundCopies, Shape
  <2>5. Fresh' /\ AlarmHasCause'
    BY <2>1, <2>2 DEF TInv, Fresh, SourceVersion, AlarmHasCause
  <2>6. Seen'
    BY <2>1, <2>2 DEF TInv, Seen, Breached, Deviation
  <2> QED
    BY <2>4, <2>5, <2>6 DEF TInv
<1>6. CASE DropLate
  BY <1>6 DEF DropLate, TInv, SoundCopies, Shape, Fresh, SourceVersion, Seen, AlarmHasCause,
              Breached, Deviation, sitlVars, limiterVars, ghosts
<1>7. ASSUME NEW t \in Targets \cup {None}, LoadMission(t)
      PROVE  TInv'
  <2>1. /\ mission' = t /\ loaded' = loaded \cup ({t} \ {None})
        /\ UNCHANGED <<record, jobs, beat, version, held, reply, late, failures, state, beyond>>
    BY <1>7 DEF LoadMission, sitlVars, callVars
  <2>2. SoundCopies' /\ Shape' /\ Fresh'
    BY <2>1 DEF TInv, SoundCopies, Shape, Fresh, SourceVersion
  <2>3. Seen' /\ AlarmHasCause'
    BY <2>1 DEF TInv, Seen, Breached, Deviation, AlarmHasCause
  <2> QED
    BY <2>2, <2>3 DEF TInv
<1>8. CASE Recalculate
  BY <1>8, Recalculated
<1>9. CASE UNCHANGED trackingVars
  BY <1>9 DEF trackingVars, TInv, SoundCopies, Shape, Fresh, SourceVersion, Seen, Breached,
              Deviation, AlarmHasCause, sitlVars, callVars, limiterVars, ghosts
<1> QED
  BY <1>1, <1>10, <1>11, <1>3, <1>4, <1>5, <1>6, <1>7, <1>8, <1>9 DEF TrackingNext

LEMMA TInvariance == TrackingSpec => []TInv
BY TInvInit, TInvStep, PTL DEF TrackingSpec

\* The record belongs to one flight however the writes of the controller and
\* of the core overlap.
THEOREM RecordsAreOfOneFlight == TrackingSpec => []OneFlight
<1>1. TInv => OneFlight
  BY DEF TInv, SoundCopies, Sound, OneFlight
<1> QED
  BY <1>1, TInvariance, PTL

\* The limiter is never in EMERGENCY without a cause: a mission it has had, and
\* an answer of SITL's - a place of the drone, or none when there is no record
\* or the query fails - that was out of that mission's limits.
THEOREM AlarmsHaveCauses == TrackingSpec => []AlarmHasCause
<1>1. TInv => AlarmHasCause
  BY DEF TInv
<1> QED
  BY <1>1, TInvariance, PTL

-----------------------------------------------------------------------------
(* The refinement *)

LEMMA TrailStart == TrackingInit => HeldTrail!TrailInit
BY DEF TrackingInit, SitlInit, Nothing, HeldTrail!TrailInit

\* A step of a component is a change of the drone, a follower going forward,
\* or nothing the trail shows.
LEMMA TrailStep ==
  TInv /\ [TrackingNext]_trackingVars =>
    [HeldTrail!TrailNext]_<<version, [f \in Followers |-> held[f].version]>>
<1> SUFFICES ASSUME TInv, [TrackingNext]_trackingVars
             PROVE  \/ HeldTrail!TrailNext
                    \/ UNCHANGED <<version, [f \in Followers |-> held[f].version]>>
  OBVIOUS
<1>1. CASE Simulate
  BY <1>1, Simulated DEF HeldTrail!TrailNext, HeldTrail!Change
<1>2. ASSUME NEW f \in Followers, Receive(f)
      PROVE  HeldTrail!TrailNext
  <2>1. PICK v \in held[f].version .. SourceVersion(f) :
          \A g \in Followers : held'[g].version = IF g = f THEN v ELSE held[g].version
    BY <1>2, Received
  <2>2. version' = version
    BY <1>2 DEF Receive, sitlVars
  <2>3. SourceVersion(f) = HeldTrail!Newest(f)
    BY TrackingAssumption DEF SourceVersion, HeldTrail!Newest
  <2>4. [g \in Followers |-> held[g].version]'
          = [[g \in Followers |-> held[g].version] EXCEPT ![f] = v]
    BY <2>1
  <2>5. HeldTrail!Follow(f)
    BY <2>1, <2>2, <2>3, <2>4 DEF HeldTrail!Follow
  <2> QED
    BY <2>5 DEF HeldTrail!TrailNext
<1>3. CASE UNCHANGED <<version, held>>
  BY <1>3
<1>4. Simulate \/ (\E f \in Followers : Receive(f)) \/ UNCHANGED <<version, held>>
  BY DEF TrackingNext, Answer, AnswerPosition, FailPosition, AnswerState, GiveUp, DropLate, LoadMission, Recalculate,
         trackingVars, sitlVars, callVars
<1> QED
  BY <1>1, <1>2, <1>3, <1>4

\* The followers keep to the trail: each version they hold was the drone's,
\* none is newer than that of whom they ask, and none goes back.
THEOREM TrailRefinement == TrackingSpec => ImplementsTrail
<1>1. TInv /\ [TrackingNext]_trackingVars =>
        [HeldTrail!TrailNext]_<<version, [f \in Followers |-> held[f].version]>>
  BY TrailStep
<1> QED
  BY <1>1, TrailStart, TInvariance, PTL
  DEF TrackingSpec, ImplementsTrail, HeldTrail!TrailSpec, HeldTrail!trailVars

\* The state's shape.
THEOREM TrackingTypeCorrect == TrackingSpec => []TrackingTypeOK
<1>1. TInv => TrackingTypeOK
  BY DEF TInv, SoundCopies, Sound, Shape, TrackingTypeOK, SitlTypeOK
<1> QED
  BY <1>1, TInvariance, PTL
=============================================================================
