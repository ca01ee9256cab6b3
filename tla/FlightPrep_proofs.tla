-------------------------- MODULE FlightPrep_proofs --------------------------
(***************************************************************************)
(* Theorem about FlightPrep, for every mission, task, drone and component: *)
(* every flight is on the record of the authority (FlightOnRecord).        *)
(*                                                                         *)
(* The record is written three calls away from the flight: the control     *)
(* thread asks the monitor, which asks ORVD.  Each of the three has a      *)
(* timeout of its own, so the proof is about calls: a component that waits *)
(* has one call under way (One), which is about what it waits for (Links), *)
(* and an approval under way follows a takeoff on record (Approved).       *)
(* Hence no late answer is taken for that of another mission.              *)
(***************************************************************************)
EXTENDS FlightPrep, SequenceTheorems, TLAPS

-----------------------------------------------------------------------------
(* The inductive invariant: a component that waits for an answer has one   *)
(* request under way, which is about what it waits for; so no answer of an *)
(* earlier request, late as it may be, is taken for that of a later one.   *)

\* What a component has to do: the message it handles, at 0, and its inbox.
Places(ib, jb, x) == {i \in 0 .. Len(ib[x]) : i = 0 => jb[x] # None}
At(ib, jb, x, i) == IF i = 0 THEN jb[x] ELSE ib[x][i]
Call(ib, jb, x, i, c) ==
  x \in Components /\ i \in Places(ib, jb, x) /\ At(ib, jb, x, i).caller = c

\* c waits for no call that is not under way, and for one at a time.
One(ib, jb, an) ==
  \A c \in Components :
    /\ jb[c] = None => an[c] = None
    /\ jb[c] = None \/ an[c] # None => \A x, i : ~Call(ib, jb, x, i, c)
    /\ \A x, y, i, j : Call(ib, jb, x, i, c) /\ Call(ib, jb, y, j, c) => x = y /\ i = j

\* The monitor's call is about what it handles, that of the control thread
\* about the takeoff it checks.
Links(ib, jb, chk) ==
  /\ jb["control"] # None => jb["control"].caller = None
  /\ \A x, i :
      /\ Call(ib, jb, x, i, "monitor") =>
           /\ At(ib, jb, x, i).action = jb["monitor"].action
           /\ At(ib, jb, x, i).mission = jb["monitor"].mission
      /\ Call(ib, jb, x, i, "control") =>
           /\ x = "monitor"
           /\ jb["control"].action = "orvd" =>
                /\ At(ib, jb, x, i).action = "request_takeoff"
                /\ At(ib, jb, x, i).mission = chk

CallTypes(ib, jb, an) ==
  /\ ib \in [Components -> Seq(Messages)]
  /\ jb \in [Components -> Messages \cup {None}]
  /\ an = [c \in Components |-> an[c]]

\* An approval follows a takeoff on record.
Approved(jb, an, chk, tk) ==
  /\ an["monitor"] = "ok" /\ jb["monitor"].action = "request_takeoff"
       => jb["monitor"].mission \in tk
  /\ jb["control"] # None /\ jb["control"].action = "orvd" /\ an["control"] = "ok"
       => chk \in tk
  /\ jb["control"] # None /\ jb["control"].action = "port" => chk \in tk

\* What is common to the parts of the invariant about calls.
Tidy(ib, jb, an, chk) == CallTypes(ib, jb, an) /\ One(ib, jb, an) /\ Links(ib, jb, chk)

Sound(ib, jb, an, chk, tk) == Tidy(ib, jb, an, chk) /\ Approved(jb, an, chk, tk)

FInv ==
  /\ Sound(inbox, job, answer, checked, takeoffs)
  /\ {mission, checked} \subseteq Ids \cup {None}
  /\ ids \subseteq Missions
  /\ FlightOnRecord

-----------------------------------------------------------------------------

-----------------------------------------------------------------------------
(* Calls and what moves them. *)

\* The calls of the components in K after a step were under way before it, at
\* the places before the components x took their s[x] first.
From(ib, jb, ib2, jb2, K, s) ==
  /\ s \in [Components -> Nat]
  /\ \A k \in K : \A x, i :
       Call(ib2, jb2, x, i, k) =>
         /\ i \in Nat /\ Call(ib, jb, x, i + s[x], k)
         /\ At(ib2, jb2, x, i) = At(ib, jb, x, i + s[x])

LEMMA CallsKept ==
  ASSUME NEW ib, NEW jb, NEW ib2, NEW jb2, NEW K \in SUBSET Components, NEW s,
         From(ib, jb, ib2, jb2, K, s), NEW an, One(ib, jb, an), NEW k \in K
  PROVE  /\ \A x, y, i, j : Call(ib2, jb2, x, i, k) /\ Call(ib2, jb2, y, j, k) => x = y /\ i = j
         /\ (\A x, i : ~Call(ib, jb, x, i, k)) => \A x, i : ~Call(ib2, jb2, x, i, k)
<1>1. ASSUME NEW x, NEW y, NEW i, NEW j, Call(ib2, jb2, x, i, k), Call(ib2, jb2, y, j, k)
      PROVE  x = y /\ i = j
  <2>1. /\ i \in Nat /\ Call(ib, jb, x, i + s[x], k)
        /\ j \in Nat /\ Call(ib, jb, y, j + s[y], k)
    BY <1>1 DEF From
  <2>2. k \in Components
    OBVIOUS
  <2>3. x = y /\ i + s[x] = j + s[y]
    BY <2>1, <2>2 DEF One
  <2>4. x \in Components /\ s[x] \in Nat
    BY <1>1 DEF Call, From
  <2> QED BY <2>1, <2>3, <2>4
<1>2. ASSUME \A x, i : ~Call(ib, jb, x, i, k) PROVE \A x, i : ~Call(ib2, jb2, x, i, k)
  BY <1>2 DEF From
<1> QED BY <1>1, <1>2

LEMMA CallAt ==
  ASSUME NEW ib, NEW jb, NEW an, CallTypes(ib, jb, an), NEW x \in Components
  PROVE  /\ ib[x] \in Seq(Messages) /\ Len(ib[x]) \in Nat /\ DOMAIN ib[x] = 1 .. Len(ib[x])
         /\ jb[x] \in Messages \cup {None} /\ None \notin Messages
         /\ \A i \in 1 .. Len(ib[x]) : ib[x][i] \in Messages
         /\ \A i, k : Call(ib, jb, x, i, k) <=>
              \/ i = 0 /\ jb[x] # None /\ jb[x].caller = k
              \/ i \in 1 .. Len(ib[x]) /\ ib[x][i].caller = k
         /\ At(ib, jb, x, 0) = jb[x]
         /\ \A i \in 1 .. Len(ib[x]) : At(ib, jb, x, i) = ib[x][i]
<1>1. /\ ib[x] \in Seq(Messages) /\ Len(ib[x]) \in Nat /\ DOMAIN ib[x] = 1 .. Len(ib[x])
      /\ jb[x] \in Messages \cup {None}
      /\ \A i \in 1 .. Len(ib[x]) : ib[x][i] \in Messages
  BY DEF CallTypes
<1>2. None \notin Messages
  BY NoneAssumption DEF Messages
<1>3. /\ At(ib, jb, x, 0) = jb[x]
      /\ \A i \in 1 .. Len(ib[x]) : At(ib, jb, x, i) = ib[x][i]
  BY <1>1 DEF At
<1>4. \A i : i \in Places(ib, jb, x) <=> (i = 0 /\ jb[x] # None) \/ i \in 1 .. Len(ib[x])
  BY <1>1 DEF Places
<1> QED BY <1>1, <1>2, <1>3, <1>4 DEF Call

LEMMA CallWaits ==
  ASSUME NEW ib, NEW jb, NEW an, CallTypes(ib, jb, an), NEW x \in Components,
         NEW i \in 1 .. Len(ib[x])
  PROVE  /\ i \in Nat /\ At(ib, jb, x, i) = ib[x][i]
         /\ Call(ib, jb, x, i, ib[x][i].caller)
<1>1. Len(ib[x]) \in Nat
  BY CallAt
<1>2. At(ib, jb, x, i) = ib[x][i] /\ i \in Nat
  BY <1>1, CallAt
<1>3. Call(ib, jb, x, i, ib[x][i].caller)
  BY CallAt
<1> QED BY <1>2, <1>3

LEMMA CallHandled ==
  ASSUME NEW ib, NEW jb, NEW an, CallTypes(ib, jb, an), NEW x \in Components, jb[x] # None
  PROVE  /\ At(ib, jb, x, 0) = jb[x]
         /\ Call(ib, jb, x, 0, jb[x].caller)
<1>1. At(ib, jb, x, 0) = jb[x]
  BY CallAt
<1>2. Call(ib, jb, x, 0, jb[x].caller)
  BY CallAt
<1> QED BY <1>1, <1>2

\* No call of c is under way.
Silent(ib, jb, c) == \A x, i : ~Call(ib, jb, x, i, c)

\* Messages that ask for no answer.
Notices(out) ==
  \A d \in DOMAIN out : d \in Components => out[d] \in Messages /\ out[d].caller = None

\* A step that makes no call: it moves calls, answers them, or gives them up.
LEMMA Rearranged ==
  ASSUME NEW ib, NEW jb, NEW an, NEW chk, Tidy(ib, jb, an, chk),
         NEW ib2, NEW jb2, NEW an2, CallTypes(ib2, jb2, an2),
         NEW s, From(ib, jb, ib2, jb2, Components, s),
         \A k \in Components :
           /\ jb2[k] = None => an2[k] = None
           /\ jb2[k] = None \/ an2[k] # None => \A x, i : ~Call(ib2, jb2, x, i, k),
         jb2["control"] # None => jb2["control"].caller = None,
         \A k \in {"monitor", "control"} :
           \/ jb2[k].action = jb[k].action /\ jb2[k].mission = jb[k].mission
           \/ \A x, i : ~Call(ib2, jb2, x, i, k)
  PROVE  Tidy(ib2, jb2, an2, chk)
<1>1. One(ib, jb, an) /\ Links(ib, jb, chk) /\ "monitor" \in Components /\ "control" \in Components
  BY FlightPrepAssumption DEF Tidy
<1>2. ASSUME NEW k \in Components, NEW x, NEW y, NEW i, NEW j,
             Call(ib2, jb2, x, i, k), Call(ib2, jb2, y, j, k)
      PROVE  x = y /\ i = j
  BY <1>1, <1>2, CallsKept
<1>3. One(ib2, jb2, an2)
  BY <1>2 DEF One
<1>4. \A k \in {"monitor", "control"} : \A x, i :
        Call(ib2, jb2, x, i, k) => /\ jb2[k].action = jb[k].action /\ jb2[k].mission = jb[k].mission
                                   /\ Call(ib, jb, x, i + s[x], k)
                                   /\ At(ib2, jb2, x, i) = At(ib, jb, x, i + s[x])
  BY <1>1 DEF From
<1>5. Links(ib2, jb2, chk)
  BY <1>1, <1>4 DEF Links
<1> QED BY <1>3, <1>5 DEF Tidy

\* No inbox loses a message.
Still == [x \in Components |-> 0]

LEMMA StillFrom ==
  ASSUME NEW ib, NEW jb, NEW ib2, NEW jb2,
         \A k \in Components : \A x, i :
           Call(ib2, jb2, x, i, k) => /\ i \in Nat /\ Call(ib, jb, x, i, k)
                                      /\ At(ib2, jb2, x, i) = At(ib, jb, x, i)
  PROVE  From(ib, jb, ib2, jb2, Components, Still)
<1>1. Still \in [Components -> Nat] /\ \A x \in Components : Still[x] = 0
  BY DEF Still
<1>2. ASSUME NEW k \in Components, NEW x, NEW i, Call(ib2, jb2, x, i, k) PROVE i + Still[x] = i
  BY <1>1, <1>2 DEF Call
<1> QED BY <1>1, <1>2 DEF From

LEMMA PostedIsTidy ==
  ASSUME NEW ib, NEW jb, NEW an, NEW chk, Tidy(ib, jb, an, chk),
         NEW out, Notices(out)
  PROVE  Tidy(Posted(ib, out), jb, an, chk)
<1> DEFINE ib2 == Posted(ib, out)
<1>1. CallTypes(ib, jb, an) /\ One(ib, jb, an) /\ Links(ib, jb, chk) /\ None \notin Components
  BY NoneAssumption DEF Tidy
<1>2. ASSUME NEW x \in Components
      PROVE  ib2[x] = ib[x] \/ \E m \in Messages : ib2[x] = Append(ib[x], m) /\ m.caller = None
  BY DEF Posted, Notices
<1>3. CallTypes(ib2, jb, an)
  <2>1. ib2 = [x \in Components |-> ib2[x]]
    BY DEF Posted
  <2>2. ASSUME NEW x \in Components PROVE ib2[x] \in Seq(Messages)
    <3>1. ib[x] \in Seq(Messages)
      BY <1>1, CallAt
    <3>2. CASE ib2[x] = ib[x]
      BY <3>1, <3>2
    <3>3. CASE \E m \in Messages : ib2[x] = Append(ib[x], m) /\ m.caller = None
      BY <3>1, <3>3, AppendProperties
    <3> QED BY <1>2, <3>2, <3>3
  <2>3. ib2 \in [Components -> Seq(Messages)]
    BY <2>1, <2>2
  <2> QED BY <1>1, <2>3 DEF CallTypes
<1> HIDE DEF ib2
<1>4. ASSUME NEW k \in Components, NEW x, NEW i, Call(ib2, jb, x, i, k)
      PROVE  i \in Nat /\ Call(ib, jb, x, i, k) /\ At(ib2, jb, x, i) = At(ib, jb, x, i)
  <2>1. x \in Components
    BY <1>4 DEF Call
  <2>2. CASE ib2[x] = ib[x]
    BY <1>1, <1>4, <2>1, <2>2, CallAt DEF Call, At, Places
  <2>3. CASE \E m \in Messages : ib2[x] = Append(ib[x], m) /\ m.caller = None
    <3>1. PICK m \in Messages : ib2[x] = Append(ib[x], m) /\ m.caller = None
      BY <2>3
    <3>2. /\ ib[x] \in Seq(Messages) /\ Len(ib[x]) \in Nat
          /\ Len(ib2[x]) = Len(ib[x]) + 1 /\ ib2[x][Len(ib[x]) + 1] = m
          /\ \A j \in 1 .. Len(ib[x]) : ib2[x][j] = ib[x][j]
      BY <1>1, <2>1, <3>1, CallAt
    <3>3. k # None
      BY <1>1
    <3>4. CASE i = 0 /\ jb[x] # None /\ jb[x].caller = k
      BY <1>1, <1>3, <2>1, <3>4, CallAt
    <3>5. CASE i \in 1 .. Len(ib2[x]) /\ ib2[x][i].caller = k
      <4>1. i \in 1 .. Len(ib[x]) /\ ib2[x][i] = ib[x][i]
        BY <3>1, <3>2, <3>3, <3>5
      <4>2. i \in Nat /\ Call(ib, jb, x, i, k) /\ At(ib, jb, x, i) = ib[x][i]
        BY ONLY <1>1, <2>1, <3>5, <4>1, CallWaits
      <4>3. At(ib2, jb, x, i) = ib2[x][i]
        BY ONLY <1>3, <2>1, <3>5, CallWaits
      <4> QED BY <4>1, <4>2, <4>3
    <3> QED BY <1>3, <1>4, <2>1, <3>4, <3>5, CallAt
  <2> QED BY <1>2, <2>1, <2>2, <2>3
<1>6. From(ib, jb, ib2, jb, Components, Still)
  BY <1>4, StillFrom
<1>7. \A k \in Components :
        /\ jb[k] = None => an[k] = None
        /\ jb[k] = None \/ an[k] # None => \A x, i : ~Call(ib2, jb, x, i, k)
  BY <1>1, <1>4 DEF One
<1> QED BY <1>1, <1>3, <1>6, <1>7, Rearranged DEF Links, ib2

\* c, which waits for an answer and has made no call, makes one to x.
Apt(jb, chk, c, x, m) ==
  /\ m \in Messages /\ m.caller = c
  /\ c = "monitor" => m.action = jb[c].action /\ m.mission = jb[c].mission
  /\ c = "control" => /\ x = "monitor"
                      /\ jb[c].action = "orvd" => m.action = "request_takeoff" /\ m.mission = chk

LEMMA CalledIsTidy ==
  ASSUME NEW ib, NEW jb, NEW an, NEW chk, Tidy(ib, jb, an, chk),
         NEW c \in Components, NEW x \in Components, NEW m, Apt(jb, chk, c, x, m),
         jb[c] # None, an[c] = None, Silent(ib, jb, c)
  PROVE  Tidy([ib EXCEPT ![x] = Append(@, m)], jb, an, chk)
<1> DEFINE ib2 == [ib EXCEPT ![x] = Append(@, m)]
<1>1. CallTypes(ib, jb, an) /\ One(ib, jb, an) /\ Links(ib, jb, chk) /\ None \notin Components
  BY NoneAssumption DEF Tidy
<1>2. m \in Messages /\ m.caller = c
  BY DEF Apt
<1>3. ib[x] \in Seq(Messages) /\ Len(ib[x]) \in Nat
  BY <1>1, CallAt
<1>4. /\ ib2[x] = Append(ib[x], m) /\ \A y \in Components : y # x => ib2[y] = ib[y]
      /\ ib2 = [y \in Components |-> ib2[y]]
  BY <1>1 DEF CallTypes
<1>5. CallTypes(ib2, jb, an)
  <2>1. ASSUME NEW y \in Components PROVE ib2[y] \in Seq(Messages)
    <3>1. CASE y = x
      BY <1>2, <1>3, <1>4, <3>1, AppendProperties
    <3>2. CASE y # x
      BY <1>1, <1>4, <3>2, CallAt
    <3> QED BY <3>1, <3>2
  <2>2. ib2 \in [Components -> Seq(Messages)]
    BY <1>4, <2>1
  <2> QED BY <1>1, <2>2 DEF CallTypes
<1> HIDE DEF ib2
<1>6. ASSUME NEW k \in Components, NEW y, NEW i, Call(ib2, jb, y, i, k)
      PROVE  \/ k = c /\ y = x /\ i = Len(ib[x]) + 1 /\ At(ib2, jb, y, i) = m
             \/ Call(ib, jb, y, i, k) /\ At(ib2, jb, y, i) = At(ib, jb, y, i)
  <2>1. y \in Components
    BY <1>6 DEF Call
  <2>2. CASE y # x
    BY <1>1, <1>4, <1>6, <2>1, <2>2, CallAt DEF Call, At, Places
  <2>3. CASE y = x
    <3>1. /\ Len(ib2[x]) = Len(ib[x]) + 1 /\ ib2[x][Len(ib[x]) + 1] = m
          /\ \A j \in 1 .. Len(ib[x]) : ib2[x][j] = ib[x][j]
      BY <1>2, <1>3, <1>4
    <3>2. CASE i = 0 /\ jb[x] # None /\ jb[x].caller = k
      BY <1>1, <1>5, <2>3, <3>2, CallAt
    <3>3. CASE i \in 1 .. Len(ib2[x]) /\ ib2[x][i].caller = k
      <4>1. CASE i = Len(ib[x]) + 1
        <5>1. k = c /\ At(ib2, jb, x, i) = m
          BY <1>2, <1>3, <3>1, <3>3, <4>1 DEF At
        <5> QED BY <2>3, <4>1, <5>1
      <4>2. CASE i # Len(ib[x]) + 1
        <5>1. i \in 1 .. Len(ib[x]) /\ ib2[x][i] = ib[x][i]
          BY <1>3, <3>1, <3>3, <4>2
        <5>2. Call(ib, jb, x, i, k) /\ At(ib, jb, x, i) = ib[x][i]
          BY <1>1, <3>3, <5>1, CallAt
        <5>3. At(ib2, jb, x, i) = ib2[x][i]
          BY <1>5, <3>3, CallAt
        <5> QED BY <2>3, <5>1, <5>2, <5>3
      <4> QED BY <4>1, <4>2
    <3> QED BY <1>5, <1>6, <2>3, <3>2, <3>3, CallAt
  <2> QED BY <2>2, <2>3
<1>7. One(ib2, jb, an)
  <2>1. ASSUME NEW k \in Components
        PROVE  /\ jb[k] = None => an[k] = None
               /\ jb[k] = None \/ an[k] # None => \A y, i : ~Call(ib2, jb, y, i, k)
    BY <1>1, <1>6, <2>1 DEF One, Silent
  <2>2. ASSUME NEW k \in Components, NEW y, NEW z, NEW i, NEW j,
               Call(ib2, jb, y, i, k), Call(ib2, jb, z, j, k)
        PROVE  y = z /\ i = j
    <3>1. CASE k = c
      <4>1. y = x /\ i = Len(ib[x]) + 1 /\ z = x /\ j = Len(ib[x]) + 1
        BY <1>6, <2>2, <3>1 DEF Silent
      <4> QED BY <4>1
    <3>2. CASE k # c
      <4>1. Call(ib, jb, y, i, k) /\ Call(ib, jb, z, j, k)
        BY <1>6, <2>2, <3>2
      <4> QED BY <1>1, <4>1 DEF One
    <3> QED BY <3>1, <3>2
  <2> QED BY <2>1, <2>2 DEF One
<1>8. Links(ib2, jb, chk)
  <2>1. "monitor" \in Components /\ "control" \in Components
    BY FlightPrepAssumption
  <2>2. ASSUME NEW y, NEW i, Call(ib2, jb, y, i, "monitor")
        PROVE  /\ At(ib2, jb, y, i).action = jb["monitor"].action
               /\ At(ib2, jb, y, i).mission = jb["monitor"].mission
    <3>1. \/ "monitor" = c /\ At(ib2, jb, y, i) = m
          \/ Call(ib, jb, y, i, "monitor") /\ At(ib2, jb, y, i) = At(ib, jb, y, i)
      BY <1>6, <2>1, <2>2
    <3> QED BY <1>1, <3>1 DEF Links, Apt
  <2>3. ASSUME NEW y, NEW i, Call(ib2, jb, y, i, "control")
        PROVE  /\ y = "monitor"
               /\ jb["control"].action = "orvd" =>
                    /\ At(ib2, jb, y, i).action = "request_takeoff"
                    /\ At(ib2, jb, y, i).mission = chk
    <3>1. \/ "control" = c /\ y = x /\ At(ib2, jb, y, i) = m
          \/ Call(ib, jb, y, i, "control") /\ At(ib2, jb, y, i) = At(ib, jb, y, i)
      BY <1>6, <2>1, <2>3
    <3> QED BY <1>1, <3>1 DEF Links, Apt
  <2> QED BY <1>1, <2>2, <2>3 DEF Links
<1> QED BY <1>5, <1>7, <1>8 DEF Tidy, ib2

\* c takes the first message of its inbox; shift by one.
Shift(c) == [x \in Components |-> IF x = c THEN 1 ELSE 0]

LEMMA HeadOf ==
  ASSUME NEW ib, NEW jb, NEW an, CallTypes(ib, jb, an), NEW c \in Components, ib[c] # <<>>
  PROVE  /\ Head(ib[c]) \in Messages /\ Head(ib[c]) = ib[c][1] /\ 1 \in 1 .. Len(ib[c])
         /\ Tail(ib[c]) \in Seq(Messages) /\ Len(Tail(ib[c])) = Len(ib[c]) - 1
         /\ \A i \in 1 .. Len(ib[c]) - 1 : Tail(ib[c])[i] = ib[c][i + 1]
         /\ CallTypes([ib EXCEPT ![c] = Tail(@)], jb, an)
         /\ CallTypes([ib EXCEPT ![c] = Tail(@)], [jb EXCEPT ![c] = Head(ib[c])], an)
<1>1. ib[c] \in Seq(Messages) /\ Len(ib[c]) \in Nat
  BY CallAt
<1>2. /\ Head(ib[c]) \in Messages /\ Head(ib[c]) = ib[c][1] /\ 1 \in 1 .. Len(ib[c])
      /\ Tail(ib[c]) \in Seq(Messages) /\ Len(Tail(ib[c])) = Len(ib[c]) - 1
      /\ \A i \in 1 .. Len(ib[c]) - 1 : Tail(ib[c])[i] = ib[c][i + 1]
  BY <1>1, HeadTailProperties
<1>3. [ib EXCEPT ![c] = Tail(@)] \in [Components -> Seq(Messages)]
  BY <1>2 DEF CallTypes
<1>4. [jb EXCEPT ![c] = Head(ib[c])] \in [Components -> Messages \cup {None}]
  BY <1>2 DEF CallTypes
<1> QED BY <1>2, <1>3, <1>4 DEF CallTypes

LEMMA TakenFrom ==
  ASSUME NEW ib, NEW jb, NEW an, CallTypes(ib, jb, an),
         NEW c \in Components, ib[c] # <<>>, jb[c] = None,
         NEW jb2, jb2 = jb \/ jb2 = [jb EXCEPT ![c] = Head(ib[c])]
  PROVE  From(ib, jb, [ib EXCEPT ![c] = Tail(@)], jb2, Components, Shift(c))
<1> DEFINE ib2 == [ib EXCEPT ![c] = Tail(@)]
           m == Head(ib[c])
<1>1. CallTypes(ib, jb, an)
  OBVIOUS
<1>2. CallTypes(ib2, jb2, an)
  <2>1. CASE jb2 = jb
    BY <1>1, <2>1, HeadOf
  <2>2. CASE jb2 = [jb EXCEPT ![c] = Head(ib[c])]
    <3>1. CallTypes(ib2, [jb EXCEPT ![c] = Head(ib[c])], an)
      BY <1>1, HeadOf
    <3> QED BY <2>2, <3>1
  <2> QED BY <2>1, <2>2
<1>3. /\ ib2[c] = Tail(ib[c]) /\ \A x \in Components : x # c => ib2[x] = ib[x] /\ jb2[x] = jb[x]
      /\ jb2[c] = None \/ jb2[c] = m
  BY <1>1 DEF CallTypes
<1>4. /\ m = ib[c][1] /\ 1 \in 1 .. Len(ib[c]) /\ Len(ib2[c]) = Len(ib[c]) - 1
      /\ \A i \in 1 .. Len(ib[c]) - 1 : ib2[c][i] = ib[c][i + 1]
      /\ Len(ib[c]) \in Nat
  <2> HIDE DEF ib2
  <2>1. /\ m = ib[c][1] /\ 1 \in 1 .. Len(ib[c]) /\ Len(Tail(ib[c])) = Len(ib[c]) - 1
        /\ \A i \in 1 .. Len(ib[c]) - 1 : Tail(ib[c])[i] = ib[c][i + 1]
    BY <1>1, HeadOf
  <2>2. Len(ib[c]) \in Nat
    BY <1>1, CallAt
  <2> QED BY <1>3, <2>1, <2>2
<1> HIDE DEF ib2, m
<1> SUFFICES ASSUME NEW k \in Components, NEW x, NEW i, Call(ib2, jb2, x, i, k)
             PROVE  /\ i \in Nat /\ Call(ib, jb, x, i + Shift(c)[x], k)
                    /\ At(ib2, jb2, x, i) = At(ib, jb, x, i + Shift(c)[x])
  BY DEF From, Shift, ib2
<1>5. x \in Components
  BY DEF Call
<1>6. \/ i = 0 /\ jb2[x] # None /\ jb2[x].caller = k
      \/ i \in 1 .. Len(ib2[x]) /\ ib2[x][i].caller = k
  BY <1>2, <1>5, CallAt
<1>7. CASE x # c
  <2>1. Shift(c)[x] = 0 /\ ib2[x] = ib[x] /\ jb2[x] = jb[x] /\ Len(ib[x]) \in Nat
    BY <1>1, <1>3, <1>5, <1>7, CallAt DEF Shift
  <2>2. i \in Nat /\ i + 0 = i
    BY <1>6, <2>1
  <2>3. Call(ib, jb, x, i, k)
    BY <1>1, <1>5, <1>6, <2>1, CallAt
  <2>4. At(ib2, jb2, x, i) = At(ib, jb, x, i)
    BY <2>1 DEF At
  <2> QED BY <2>1, <2>2, <2>3, <2>4
<1>8. CASE x = c
  <2>1. Shift(c)[x] = 1
    BY <1>8 DEF Shift
  <2>2. CASE i = 0 /\ jb2[x] # None /\ jb2[x].caller = k
    <3>1. jb2[c] = m /\ m.caller = k /\ i + 1 = 1
      BY <1>3, <1>8, <2>2
    <3>2. Call(ib, jb, c, 1, k) /\ At(ib, jb, c, 1) = m
      BY <1>1, <1>4, <3>1, CallAt
    <3>3. At(ib2, jb2, c, 0) = m
      BY <3>1 DEF At
    <3> QED BY <1>8, <2>1, <2>2, <3>1, <3>2, <3>3
  <2>3. CASE i \in 1 .. Len(ib2[x]) /\ ib2[x][i].caller = k
    <3>1. /\ i \in Nat /\ i + 1 \in 1 .. Len(ib[c]) /\ ib2[c][i] = ib[c][i + 1]
          /\ ib[c][i + 1].caller = k
      BY <1>4, <1>8, <2>3
    <3>2. Call(ib, jb, c, i + 1, k) /\ At(ib, jb, c, i + 1) = ib[c][i + 1]
      BY <1>1, <3>1, CallAt
    <3>3. At(ib2, jb2, c, i) = ib2[c][i]
      BY <1>2, <1>8, <2>3, CallAt
    <3> QED BY <1>8, <2>1, <3>1, <3>2, <3>3
  <2> QED BY <1>6, <2>2, <2>3
<1> QED BY <1>7, <1>8

\* A call that is answered is gone.
Result(an, k, r) == IF k = None THEN an ELSE [an EXCEPT ![k] = r]

LEMMA ResultAt ==
  ASSUME NEW ib, NEW jb, NEW an, CallTypes(ib, jb, an), NEW k, NEW r
  PROVE  /\ CallTypes(ib, jb, Result(an, k, r))
         /\ \A x \in Components : x # k => Result(an, k, r)[x] = an[x]
         /\ k \in Components /\ k # None => Result(an, k, r)[k] = r
BY DEF CallTypes, Result

LEMMA HandledIsTidy ==
  ASSUME NEW ib, NEW jb, NEW an, NEW chk, Tidy(ib, jb, an, chk),
         NEW c \in Components, ib[c] # <<>>, jb[c] = None, NEW r
  PROVE  Tidy([ib EXCEPT ![c] = Tail(@)], jb, Result(an, Head(ib[c]).caller, r), chk)
<1> DEFINE ib2 == [ib EXCEPT ![c] = Tail(@)]
           h == Head(ib[c]).caller
           an2 == Result(an, h, r)
<1>1. CallTypes(ib, jb, an) /\ One(ib, jb, an) /\ Links(ib, jb, chk) /\ None \notin Components
  BY NoneAssumption DEF Tidy
<1>2. From(ib, jb, ib2, jb, Components, Shift(c))
  BY <1>1, TakenFrom
<1>3. CallTypes(ib2, jb, an2)
  BY <1>1, HeadOf, ResultAt
<1>4. Call(ib, jb, c, 1, h)
  <2>1. 1 \in 1 .. Len(ib[c]) /\ Head(ib[c]) = ib[c][1]
    BY <1>1, HeadOf
  <2> QED BY <1>1, <2>1, CallAt
<1>5. /\ \A x \in Components : x # h => an2[x] = an[x]
      /\ h \in Components => an2[h] = r
  BY <1>1, ResultAt
<1> HIDE DEF ib2, h, an2
<1>6. ASSUME NEW x, NEW i, Call(ib2, jb, x, i, h), h \in Components PROVE FALSE
  <2>1. i \in Nat /\ Call(ib, jb, x, i + Shift(c)[x], h)
    BY <1>2, <1>6 DEF From
  <2>2. x = c /\ i + Shift(c)[x] = 1
    BY <1>1, <1>4, <1>6, <2>1 DEF One
  <2>3. i = 0
    BY <2>1, <2>2 DEF Shift
  <2> QED BY <1>6, <2>2, <2>3 DEF Call, Places
<1>7. \A k \in Components :
        /\ jb[k] = None => an2[k] = None
        /\ jb[k] = None \/ an2[k] # None => \A x, i : ~Call(ib2, jb, x, i, k)
  <2>1. ASSUME NEW k \in Components, k # h
        PROVE  /\ jb[k] = None => an2[k] = None
               /\ jb[k] = None \/ an2[k] # None => \A x, i : ~Call(ib2, jb, x, i, k)
    <3>1. an2[k] = an[k] /\ ((\A x, i : ~Call(ib, jb, x, i, k)) => \A x, i : ~Call(ib2, jb, x, i, k))
      BY <1>1, <1>2, <1>5, <2>1, CallsKept
    <3> QED BY <1>1, <3>1 DEF One
  <2>2. h \in Components => jb[h] # None
    BY <1>1, <1>4 DEF One
  <2> QED BY <1>6, <2>1, <2>2
<1> QED BY <1>1, <1>2, <1>3, <1>7, Rearranged DEF Links, ib2, an2, h

\* A handler that waits keeps its message, which may be a call.
LEMMA MovedIsSilent ==
  ASSUME NEW ib, NEW jb, NEW an, NEW chk, Tidy(ib, jb, an, chk),
         NEW c \in Components, ib[c] # <<>>, jb[c] = None,
         NEW ib2, ib2 = [ib EXCEPT ![c] = Tail(@)], NEW jb2, jb2 = [jb EXCEPT ![c] = Head(ib[c])]
  PROVE  Silent(ib2, jb2, c)
<1>1. CallTypes(ib, jb, an) /\ One(ib, jb, an)
  BY DEF Tidy
<1>2. From(ib, jb, ib2, jb2, Components, Shift(c))
  BY <1>1, TakenFrom
<1>3. \A x, i : ~Call(ib2, jb2, x, i, c)
  BY <1>1, <1>2, CallsKept DEF One
<1> QED BY <1>3 DEF Silent

LEMMA MovedIsTidy ==
  ASSUME NEW ib, NEW jb, NEW an, NEW chk, Tidy(ib, jb, an, chk),
         NEW c \in Components \ {"control"}, ib[c] # <<>>, jb[c] = None,
         NEW ib2, ib2 = [ib EXCEPT ![c] = Tail(@)], NEW jb2, jb2 = [jb EXCEPT ![c] = Head(ib[c])]
  PROVE  Tidy(ib2, jb2, an, chk) /\ an[c] = None
<1>1. CallTypes(ib, jb, an) /\ One(ib, jb, an) /\ Links(ib, jb, chk)
  BY DEF Tidy
<1>2. From(ib, jb, ib2, jb2, Components, Shift(c))
  BY <1>1, TakenFrom
<1>3. CallTypes(ib2, jb2, an)
  BY <1>1, HeadOf
<1>4. /\ \A k \in Components : k # c => jb2[k] = jb[k]
      /\ jb2[c] # None
  <2>1. Head(ib[c]) \in Messages /\ None \notin Messages
    BY <1>1, HeadOf, CallAt
  <2> QED BY <1>1, <2>1 DEF CallTypes
<1>5. \A k \in Components : (\A x, i : ~Call(ib, jb, x, i, k)) => \A x, i : ~Call(ib2, jb2, x, i, k)
  BY <1>1, <1>2, CallsKept
<1>6. an[c] = None /\ \A x, i : ~Call(ib2, jb2, x, i, c)
  BY <1>1, <1>5 DEF One
<1>7. \A k \in Components :
        /\ jb2[k] = None => an[k] = None
        /\ jb2[k] = None \/ an[k] # None => \A x, i : ~Call(ib2, jb2, x, i, k)
  BY <1>1, <1>4, <1>5, <1>6 DEF One
<1>8. \A k \in {"monitor", "control"} :
        \/ jb2[k].action = jb[k].action /\ jb2[k].mission = jb[k].mission
        \/ \A x, i : ~Call(ib2, jb2, x, i, k)
  BY <1>4, <1>6, FlightPrepAssumption
<1>9. jb2["control"] # None => jb2["control"].caller = None
  BY <1>1, <1>4, FlightPrepAssumption DEF Links
<1> QED BY <1>1, <1>2, <1>3, <1>6, <1>7, <1>8, <1>9, Rearranged

LEMMA EndedIsTidy ==
  ASSUME NEW ib, NEW jb, NEW an, NEW chk, Tidy(ib, jb, an, chk),
         NEW c \in Components, jb[c] # None, an[c] # None, NEW r
  PROVE  /\ Tidy(ib, [jb EXCEPT ![c] = None], [Result(an, jb[c].caller, r) EXCEPT ![c] = None], chk)
         /\ jb[c].caller # c
<1> DEFINE jb2 == [jb EXCEPT ![c] = None]
           h == jb[c].caller
           an1 == Result(an, h, r)
           an2 == [an1 EXCEPT ![c] = None]
<1>1. CallTypes(ib, jb, an) /\ One(ib, jb, an) /\ Links(ib, jb, chk) /\ None \notin Components
  BY NoneAssumption DEF Tidy
<1>2. CallTypes(ib, jb2, an2) /\ CallTypes(ib, jb, an1)
  <2>1. CallTypes(ib, jb, an1)
    BY <1>1, ResultAt
  <2> HIDE DEF an1
  <2> QED BY <2>1 DEF CallTypes
<1>3. Call(ib, jb, c, 0, h) /\ h # c
  <2>1. Call(ib, jb, c, 0, h)
    BY <1>1, CallAt
  <2> QED BY <1>1, <2>1 DEF One
<1>4. /\ \A x \in Components \ {c} : x # h => an2[x] = an[x]
      /\ h \in Components => an2[h] = r
      /\ an2[c] = None
  <2>1. /\ \A x \in Components : x # h => an1[x] = an[x]
        /\ h \in Components => an1[h] = r
    BY <1>1, ResultAt
  <2> HIDE DEF an1, h
  <2> QED BY <1>2, <1>3, <2>1 DEF CallTypes
<1>5. jb2[c] = None /\ \A x \in Components : x # c => jb2[x] = jb[x]
  BY <1>1 DEF CallTypes
<1> HIDE DEF jb2, an2, h
<1>6. ASSUME NEW k \in Components, NEW x, NEW i, Call(ib, jb2, x, i, k)
      PROVE  /\ i \in Nat /\ Call(ib, jb, x, i, k) /\ At(ib, jb2, x, i) = At(ib, jb, x, i)
             /\ k # h
  <2>1. x \in Components /\ Len(ib[x]) \in Nat
    BY <1>1, <1>6, CallAt DEF Call
  <2>2. \/ i = 0 /\ jb2[x] # None /\ jb2[x].caller = k
        \/ i \in 1 .. Len(ib[x]) /\ ib[x][i].caller = k
    BY <1>2, <1>6, <2>1, CallAt
  <2>3. i \in Nat /\ ~(x = c /\ i = 0)
    BY <1>5, <2>1, <2>2
  <2>4. Call(ib, jb, x, i, k) /\ At(ib, jb2, x, i) = At(ib, jb, x, i)
    <3>1. CASE i = 0 /\ jb2[x] # None /\ jb2[x].caller = k
      BY <1>1, <1>2, <1>5, <2>1, <2>3, <3>1, CallAt
    <3>2. CASE i \in 1 .. Len(ib[x]) /\ ib[x][i].caller = k
      BY <1>1, <1>2, <2>1, <3>2, CallAt
    <3> QED BY <2>2, <3>1, <3>2
  <2>5. k # h
    BY <1>1, <1>3, <2>3, <2>4 DEF One
  <2> QED BY <2>3, <2>4, <2>5
<1>7. From(ib, jb, ib, jb2, Components, Still)
  BY <1>6, StillFrom
<1>8. \A k \in Components :
        /\ jb2[k] = None => an2[k] = None
        /\ jb2[k] = None \/ an2[k] # None => \A x, i : ~Call(ib, jb2, x, i, k)
  <2>1. ASSUME NEW k \in Components, k # h
        PROVE  /\ jb2[k] = None => an2[k] = None
               /\ jb2[k] = None \/ an2[k] # None => \A x, i : ~Call(ib, jb2, x, i, k)
    BY <1>1, <1>4, <1>5, <1>6, <2>1 DEF One
  <2>2. h \in Components => jb2[h] # None
    BY <1>1, <1>3, <1>5 DEF One
  <2> QED BY <1>6, <2>1, <2>2
<1>9. \A k \in {"monitor", "control"} :
        \/ jb2[k].action = jb[k].action /\ jb2[k].mission = jb[k].mission
        \/ \A x, i : ~Call(ib, jb2, x, i, k)
  BY <1>5, <1>8, FlightPrepAssumption
<1>10. jb2["control"] # None => jb2["control"].caller = None
  BY <1>1, <1>5, FlightPrepAssumption DEF Links
<1> QED BY <1>1, <1>2, <1>3, <1>7, <1>8, <1>9, <1>10, Rearranged DEF jb2, an2, h

\* A request that runs out: its call goes on, but asks for no answer.
LEMMA ForgottenIsTidy ==
  ASSUME NEW ib, NEW jb, NEW an, NEW chk, Tidy(ib, jb, an, chk),
         NEW c \in Components, jb[c] # None,
         NEW ib2, ib2 = [x \in Components |-> [i \in DOMAIN ib[x] |-> Forgets(ib[x][i], c)]],
         NEW jb2, jb2 = [x \in Components |-> Forgets(jb[x], c)]
  PROVE  Tidy(ib2, jb2, [an EXCEPT ![c] = "none"], chk)
<1> DEFINE an2 == [an EXCEPT ![c] = "none"]
<1>1. CallTypes(ib, jb, an) /\ One(ib, jb, an) /\ Links(ib, jb, chk) /\ None \notin Components
  BY NoneAssumption DEF Tidy
<1>2. ASSUME NEW m \in Messages \cup {None}
      PROVE  /\ Forgets(m, c) \in Messages \cup {None} /\ (Forgets(m, c) = None <=> m = None)
             /\ m # None => /\ Forgets(m, c).action = m.action /\ Forgets(m, c).mission = m.mission
                            /\ Forgets(m, c).caller # c
                            /\ Forgets(m, c).caller # m.caller => Forgets(m, c).caller = None
                            /\ m.caller # c => Forgets(m, c) = m
  <2>1. None \notin Messages
    BY <1>1, CallAt
  <2>2. CASE m # None /\ m.caller = c
    <3>1. m \in Messages
      BY <2>2
    <3>2. [m EXCEPT !.caller = None] \in Messages /\ [m EXCEPT !.caller = None].caller = None
          /\ [m EXCEPT !.caller = None].action = m.action
          /\ [m EXCEPT !.caller = None].mission = m.mission
      BY <3>1 DEF Messages
    <3>3. Forgets(m, c) = [m EXCEPT !.caller = None]
      BY <2>2 DEF Forgets
    <3> QED BY <1>1, <2>1, <2>2, <3>2, <3>3
  <2>3. CASE ~(m # None /\ m.caller = c)
    BY <2>1, <2>3 DEF Forgets
  <2> QED BY <2>2, <2>3
<1>3. ASSUME NEW x \in Components
      PROVE  /\ ib2[x] \in Seq(Messages) /\ Len(ib2[x]) = Len(ib[x]) /\ Len(ib[x]) \in Nat
             /\ \A i \in 1 .. Len(ib[x]) : ib2[x][i] = Forgets(ib[x][i], c) /\ ib[x][i] \in Messages
             /\ jb2[x] = Forgets(jb[x], c) /\ jb[x] \in Messages \cup {None}
             /\ None \notin Messages
  <2>1. /\ ib[x] \in Seq(Messages) /\ Len(ib[x]) \in Nat /\ DOMAIN ib[x] = 1 .. Len(ib[x])
        /\ \A i \in 1 .. Len(ib[x]) : ib[x][i] \in Messages
        /\ jb[x] \in Messages \cup {None} /\ None \notin Messages
    BY <1>1, CallAt
  <2>2. ib2[x] = [i \in 1 .. Len(ib[x]) |-> Forgets(ib[x][i], c)]
    BY <2>1
  <2>3. \A i \in 1 .. Len(ib[x]) : Forgets(ib[x][i], c) \in Messages
    BY <1>2, <2>1
  <2>4. ib2[x] \in [1 .. Len(ib[x]) -> Messages]
    BY <2>2, <2>3
  <2>5. ib2[x] \in Seq(Messages)
    BY ONLY <2>1, <2>4, SeqDef
  <2>6. Len(ib2[x]) = Len(ib[x])
    BY ONLY <2>1, <2>4, <2>5, LenProperties
  <2> QED BY <2>1, <2>2, <2>5, <2>6
<1>4. /\ an2[c] = "none" /\ \A x \in Components : x # c => an2[x] = an[x]
      /\ an2 = [x \in Components |-> an2[x]]
  BY <1>1 DEF CallTypes
<1>5. CallTypes(ib2, jb2, an2)
  <2>1. ib2 \in [Components -> Seq(Messages)]
    BY <1>3
  <2>2. jb2 \in [Components -> Messages \cup {None}]
    BY <1>2, <1>3
  <2> QED BY <1>4, <2>1, <2>2 DEF CallTypes
<1> HIDE DEF an2
<1>6. ASSUME NEW k \in Components, NEW x, NEW i, Call(ib2, jb2, x, i, k)
      PROVE  /\ i \in Nat /\ Call(ib, jb, x, i, k) /\ At(ib2, jb2, x, i) = At(ib, jb, x, i)
             /\ k # c
  <2>1. x \in Components /\ k # None
    BY <1>1, <1>6 DEF Call
  <2>2. CASE i = 0 /\ jb2[x] # None /\ jb2[x].caller = k
    <3>1. jb[x] # None /\ jb[x].caller = k /\ jb2[x] = jb[x] /\ k # c
      <4>1. jb[x] \in Messages \cup {None} /\ jb2[x] = Forgets(jb[x], c)
        BY <1>3, <2>1
      <4> QED BY ONLY <1>2, <2>1, <2>2, <4>1
    <3>2. Call(ib, jb, x, i, k) /\ At(ib, jb, x, i) = jb[x]
      BY ONLY <1>1, <2>1, <2>2, <3>1, CallHandled
    <3>3. At(ib2, jb2, x, i) = jb2[x]
      BY ONLY <1>5, <2>1, <2>2, CallHandled
    <3> QED BY <2>2, <3>1, <3>2, <3>3
  <2>3. CASE i \in 1 .. Len(ib2[x]) /\ ib2[x][i].caller = k
    <3>1. /\ i \in 1 .. Len(ib[x]) /\ i \in Nat /\ ib[x][i] \in Messages /\ ib[x][i] # None
          /\ ib2[x][i] = Forgets(ib[x][i], c)
      <4>1. /\ Len(ib2[x]) = Len(ib[x]) /\ Len(ib[x]) \in Nat /\ None \notin Messages
            /\ \A j \in 1 .. Len(ib[x]) : ib2[x][j] = Forgets(ib[x][j], c) /\ ib[x][j] \in Messages
        BY <1>3, <2>1
      <4>2. i \in 1 .. Len(ib[x]) /\ i \in Nat
        BY <2>3, <4>1
      <4> QED BY <4>1, <4>2
    <3>2. ib[x][i].caller = k /\ ib2[x][i] = ib[x][i] /\ k # c
      BY <1>2, <2>1, <2>3, <3>1
    <3>3. Call(ib, jb, x, i, k) /\ At(ib, jb, x, i) = ib[x][i]
      BY ONLY <1>1, <2>1, <3>1, <3>2, CallWaits
    <3>4. At(ib2, jb2, x, i) = ib2[x][i]
      BY ONLY <1>5, <2>1, <2>3, CallWaits
    <3> QED BY <3>1, <3>2, <3>3, <3>4
  <2> QED BY <1>5, <1>6, <2>1, <2>2, <2>3, CallAt
<1>7. From(ib, jb, ib2, jb2, Components, Still)
  BY <1>6, StillFrom
<1>8. \A k \in Components : jb2[k] = None <=> jb[k] = None
  BY <1>2, <1>3
<1>9. \A k \in Components :
        /\ jb2[k] = None => an2[k] = None
        /\ jb2[k] = None \/ an2[k] # None => \A x, i : ~Call(ib2, jb2, x, i, k)
  BY <1>1, <1>4, <1>6, <1>8 DEF One
<1>10. \A k \in {"monitor", "control"} :
         \/ jb2[k].action = jb[k].action /\ jb2[k].mission = jb[k].mission
         \/ \A x, i : ~Call(ib2, jb2, x, i, k)
  <2>1. SUFFICES ASSUME NEW k \in Components
                 PROVE  \/ jb2[k].action = jb[k].action /\ jb2[k].mission = jb[k].mission
                        \/ \A x, i : ~Call(ib2, jb2, x, i, k)
    BY FlightPrepAssumption
  <2>2. jb2[k] = Forgets(jb[k], c) /\ jb[k] \in Messages \cup {None}
    BY <1>3
  <2>3. CASE jb[k] = None
    <3>1. jb2[k] = None
      BY <1>8, <2>3
    <3> QED BY <1>9, <3>1
  <2>4. CASE jb[k] # None
    BY ONLY <1>2, <2>2, <2>4
  <2> QED BY <2>3, <2>4
<1>11. jb2["control"] # None => jb2["control"].caller = None
  <2>1. SUFFICES ASSUME jb2["control"] # None PROVE jb2["control"].caller = None
    OBVIOUS
  <2>2. "control" \in Components
    BY FlightPrepAssumption
  <2>3. jb["control"] # None /\ jb["control"].caller = None
    BY <1>1, <1>8, <2>1, <2>2 DEF Links
  <2>4. jb2["control"] = Forgets(jb["control"], c) /\ jb["control"] \in Messages \cup {None}
    BY <1>3, <2>2
  <2>5. \/ Forgets(jb["control"], c).caller = None
        \/ Forgets(jb["control"], c) = jb["control"]
    BY ONLY <1>2, <2>3, <2>4
  <2> QED BY <2>3, <2>4, <2>5
<1>12. Tidy(ib, jb, an, chk)
  OBVIOUS
<1>13. Tidy(ib2, jb2, an2, chk)
  BY ONLY <1>5, <1>7, <1>9, <1>10, <1>11, <1>12, Rearranged
<1> QED BY <1>13 DEF an2

\* While the control thread has no job, no call is about a checked mission.
LEMMA Unchecked ==
  ASSUME NEW ib, NEW jb, NEW an, NEW chk, Tidy(ib, jb, an, chk), jb["control"] = None, NEW chk2
  PROVE  Tidy(ib, jb, an, chk2)
<1>1. \A x, i : ~Call(ib, jb, x, i, "control")
  BY FlightPrepAssumption DEF Tidy, One
<1> QED BY <1>1 DEF Tidy, Links

\* c takes up a job of its own, which is no call.
LEMMA TakenUp ==
  ASSUME NEW ib, NEW jb, NEW an, CallTypes(ib, jb, an), One(ib, jb, an),
         NEW c \in Components, jb[c] = None \/ (jb[c].caller = None /\ an[c] # None),
         NEW m \in Messages, m.caller = None,
         NEW k \in Components, NEW x, NEW i, Call(ib, [jb EXCEPT ![c] = m], x, i, k)
  PROVE  /\ i \in Nat /\ Call(ib, jb, x, i, k)
         /\ At(ib, [jb EXCEPT ![c] = m], x, i) = At(ib, jb, x, i)
<1> DEFINE jb2 == [jb EXCEPT ![c] = m]
<1>1. None \notin Components /\ None \notin Messages
  BY NoneAssumption DEF Messages
<1>2. /\ jb2[c] = m /\ \A y \in Components : y # c => jb2[y] = jb[y]
      /\ CallTypes(ib, jb2, an)
  BY DEF CallTypes
<1> HIDE DEF jb2
<1>3. Call(ib, jb2, x, i, k)
  BY DEF jb2
<1>4. x \in Components /\ k # None /\ Len(ib[x]) \in Nat
  BY <1>1, <1>3, CallAt DEF Call
<1>5. CASE i = 0 /\ jb2[x] # None /\ jb2[x].caller = k
  <2>1. x # c
    BY <1>2, <1>4, <1>5
  <2>2. i \in Nat /\ Call(ib, jb, x, i, k) /\ At(ib, jb2, x, i) = At(ib, jb, x, i)
    BY <1>2, <1>4, <1>5, <2>1, CallAt
  <2> QED BY <2>2 DEF jb2
<1>6. CASE i \in 1 .. Len(ib[x]) /\ ib[x][i].caller = k
  <2>1. i \in Nat /\ Call(ib, jb, x, i, k) /\ At(ib, jb2, x, i) = At(ib, jb, x, i)
    BY <1>2, <1>4, <1>6, CallAt
  <2> QED BY <2>1 DEF jb2
<1> QED BY <1>2, <1>3, <1>4, <1>5, <1>6, CallAt

LEMMA TakenUpIsSilent ==
  ASSUME NEW ib, NEW jb, NEW an, NEW chk, Tidy(ib, jb, an, chk),
         NEW c \in Components, jb[c] = None \/ (jb[c].caller = None /\ an[c] # None),
         NEW m \in Messages, m.caller = None
  PROVE  Silent(ib, [jb EXCEPT ![c] = m], c)
BY TakenUp DEF Silent, Tidy, One

LEMMA TakenUpIsTidy ==
  ASSUME NEW ib, NEW jb, NEW an, NEW chk, Tidy(ib, jb, an, chk),
         NEW c \in Components, jb[c] = None \/ (jb[c].caller = None /\ an[c] # None),
         NEW m \in Messages, m.caller = None
  PROVE  Tidy(ib, [jb EXCEPT ![c] = m], [an EXCEPT ![c] = None], chk)
<1> DEFINE jb2 == [jb EXCEPT ![c] = m]
           an2 == [an EXCEPT ![c] = None]
<1>1. CallTypes(ib, jb, an) /\ One(ib, jb, an) /\ Links(ib, jb, chk) /\ None \notin Messages
  BY NoneAssumption DEF Tidy, Messages
<1>2. /\ jb2[c] = m /\ \A x \in Components : x # c => jb2[x] = jb[x]
      /\ an2[c] = None /\ \A x \in Components : x # c => an2[x] = an[x]
      /\ CallTypes(ib, jb2, an2)
  BY <1>1 DEF CallTypes
<1>3. ASSUME NEW k \in Components, NEW x, NEW i, Call(ib, jb2, x, i, k)
      PROVE  i \in Nat /\ Call(ib, jb, x, i, k) /\ At(ib, jb2, x, i) = At(ib, jb, x, i)
  BY <1>1, <1>3, TakenUp
<1> HIDE DEF jb2, an2
<1>4. From(ib, jb, ib, jb2, Components, Still)
  BY <1>3, StillFrom
<1>5. \A x, i : ~Call(ib, jb2, x, i, c)
  BY <1>1, <1>3 DEF One
<1>6. \A k \in Components :
        /\ jb2[k] = None => an2[k] = None
        /\ jb2[k] = None \/ an2[k] # None => \A x, i : ~Call(ib, jb2, x, i, k)
  BY <1>1, <1>2, <1>3, <1>5 DEF One
<1>7. \A k \in {"monitor", "control"} :
        \/ jb2[k].action = jb[k].action /\ jb2[k].mission = jb[k].mission
        \/ \A x, i : ~Call(ib, jb2, x, i, k)
  BY <1>2, <1>5, FlightPrepAssumption
<1>8. jb2["control"] # None => jb2["control"].caller = None
  BY <1>1, <1>2, FlightPrepAssumption DEF Links
<1> QED BY <1>1, <1>2, <1>4, <1>6, <1>7, <1>8, Rearranged DEF jb2, an2

LEMMA AskedIsTidy ==
  ASSUME NEW ib, NEW jb, NEW an, NEW chk, Tidy(ib, jb, an, chk),
         NEW c \in Components \ {"control"}, ib[c] # <<>>, jb[c] = None,
         NEW x \in Components, NEW m \in Messages, m.caller = c,
         c = "monitor" => m.action = Head(ib[c]).action /\ m.mission = Head(ib[c]).mission
  PROVE  Tidy([[ib EXCEPT ![c] = Tail(@)] EXCEPT ![x] = Append(@, m)],
              [jb EXCEPT ![c] = Head(ib[c])], an, chk)
<1> DEFINE ib2 == [ib EXCEPT ![c] = Tail(@)]
           jb2 == [jb EXCEPT ![c] = Head(ib[c])]
<1>1. Tidy(ib2, jb2, an, chk) /\ an[c] = None /\ Silent(ib2, jb2, c)
  <2>1. /\ Tidy(ib, jb, an, chk) /\ c \in Components \ {"control"} /\ ib[c] # <<>>
        /\ jb[c] = None
        /\ ib2 = [ib EXCEPT ![c] = Tail(@)] /\ jb2 = [jb EXCEPT ![c] = Head(ib[c])]
    OBVIOUS
  <2> HIDE DEF ib2, jb2
  <2>2. Tidy(ib2, jb2, an, chk)
    BY ONLY <2>1, MovedIsTidy
  <2>3. an[c] = None
    BY ONLY <2>1, MovedIsTidy
  <2>4. Silent(ib2, jb2, c)
    BY ONLY <2>1, MovedIsSilent
  <2> QED BY <2>2, <2>3, <2>4
<1>2. jb2[c] = Head(ib[c]) /\ Head(ib[c]) # None
  <2>1. CallTypes(ib, jb, an)
    BY DEF Tidy
  <2>2. DOMAIN jb = Components
    BY <2>1 DEF CallTypes
  <2>3. Head(ib[c]) \in Messages
    BY ONLY <2>1, c \in Components \ {"control"}, ib[c] # <<>>, HeadOf
  <2>4. None \notin Messages
    BY NoneAssumption
  <2> QED BY <2>2, <2>3, <2>4
<1> HIDE DEF ib2, jb2
<1>3. Apt(jb2, chk, c, x, m)
  BY <1>2 DEF Apt
<1>4. jb2[c] # None
  BY <1>2
<1>5. Tidy([ib2 EXCEPT ![x] = Append(@, m)], jb2, an, chk)
  BY ONLY <1>1, <1>3, <1>4, c \in Components \ {"control"}, x \in Components, CalledIsTidy
<1> QED BY <1>5 DEF ib2, jb2

-----------------------------------------------------------------------------
(* Names and messages. *)

LEMMA Names ==
  /\ {"orchestrator", "planner", "converter", "mission_store", "drone_store",
      "manager", "poller", "monitor", "handler", "autopilot", "control",
      "authority", "port", "telemetry"} \subseteq Components
  /\ None \notin Components /\ None # "ok" /\ None \notin Messages
BY FlightPrepAssumption, NoneAssumption DEF Messages

\* What is published.
LEMMA MessageIn ==
  ASSUME NEW a \in Actions, NEW m \in Ids \cup {None}, NEW c \in Components \cup {None}
  PROVE  /\ Message(a, m, c) \in Messages /\ Message(a, m, c).action = a
         /\ Message(a, m, c).mission = m /\ Message(a, m, c).caller = c
BY DEF Message, Messages

LEMMA Nothing == Notices(<<>>)
<1>1. DOMAIN <<>> = {}
  OBVIOUS
<1> QED BY <1>1 DEF Notices

LEMMA OneNotice ==
  ASSUME NEW a \in Actions, NEW m \in Ids \cup {None}
  PROVE  /\ Notices([mission_store |-> Message(a, m, None)])
         /\ Notices([drone_store |-> Message(a, m, None)])
         /\ Notices([manager |-> Message(a, m, None)])
         /\ \A b \in Actions : Notices(Updates(m, a, b))
<1>1. ASSUME NEW b \in Actions PROVE Message(b, m, None) \in Messages /\ Message(b, m, None).caller = None
  <2>1. None \in Components \cup {None}
    OBVIOUS
  <2> QED BY <2>1, MessageIn
<1> QED BY <1>1 DEF Notices, Updates

LEMMA MissionIn ==
  ASSUME Sound(inbox, job, answer, checked, takeoffs), NEW c \in Components
  PROVE  /\ inbox[c] # <<>> => First(c).mission \in Ids \cup {None}
         /\ job[c] # None => job[c].mission \in Ids \cup {None}
<1>1. CallTypes(inbox, job, answer)
  BY DEF Sound, Tidy
<1>2. inbox[c] # <<>> => Head(inbox[c]) \in Messages
  BY <1>1, HeadOf
<1>3. job[c] # None => job[c] \in Messages
  BY <1>1 DEF CallTypes
<1> QED BY <1>2, <1>3 DEF First, Messages

-----------------------------------------------------------------------------
(* Handlers. *)

LEMMA AnswerIsResult ==
  ASSUME NEW k, NEW r PROVE Answering(k, r) = Result(answer, k, r)
BY DEF Answering, Result

\* Only the authority may approve a takeoff.
LEMMA HandlesSound ==
  ASSUME Sound(inbox, job, answer, checked, takeoffs),
         NEW c \in Components, c # "monitor", NEW action, NEW out, NEW r,
         Handles(c, action, out, r), Notices(out), NEW tk, takeoffs \subseteq tk,
         action = "request_takeoff" /\ r = "ok" => First(c).mission \in tk
  PROVE  Sound(inbox', job', answer', checked, tk)
<1> DEFINE m == Head(inbox[c])
           an == Result(answer, m.caller, r)
           ib == [inbox EXCEPT ![c] = Tail(@)]
<1>1. /\ Tidy(inbox, job, answer, checked) /\ CallTypes(inbox, job, answer)
      /\ Links(inbox, job, checked) /\ Approved(job, answer, checked, takeoffs)
  BY DEF Sound, Tidy
<1>2. /\ job[c] = None /\ inbox[c] # <<>> /\ m.action = action /\ job' = job
      /\ inbox' = Posted(ib, out) /\ answer' = an
  BY AnswerIsResult DEF Handles, Gets, First, Without
<1>3. Tidy(ib, job, an, checked)
  BY <1>1, <1>2, HandledIsTidy
<1>4. /\ \A x \in Components : x # m.caller => an[x] = answer[x]
      /\ m.caller \in Components => an[m.caller] = r
  BY <1>1, Names, ResultAt
<1>5. Call(inbox, job, c, 1, m.caller) /\ At(inbox, job, c, 1) = m
  <2>1. 1 \in 1 .. Len(inbox[c]) /\ m = inbox[c][1]
    BY <1>1, <1>2, HeadOf
  <2> QED BY <1>1, <2>1, CallAt
<1>6. action = "request_takeoff" /\ r = "ok" => m.mission \in tk
  BY DEF First
<1> HIDE DEF m, an, ib
<1>7. Tidy(Posted(ib, out), job, an, checked)
  BY <1>3, PostedIsTidy
<1>8. m.caller # "control"
  BY <1>1, <1>5 DEF Links
<1>9. m.caller = "monitor" => m.action = job["monitor"].action /\ m.mission = job["monitor"].mission
  BY <1>1, <1>5 DEF Links
<1>10. Approved(job, an, checked, tk)
  BY <1>1, <1>2, <1>4, <1>6, <1>8, <1>9, Names DEF Approved
<1> QED BY <1>2, <1>7, <1>10 DEF Sound

LEMMA AsksSound ==
  ASSUME Sound(inbox, job, answer, checked, takeoffs),
         NEW c \in Components \ {"control"}, NEW action, NEW to \in Components, NEW request \in Messages,
         Asks(c, action, to, request),
         c = "monitor" => request.action = action /\ request.mission = First(c).mission
  PROVE  Sound(inbox', job', answer', checked, takeoffs)
<1> DEFINE m == [request EXCEPT !.caller = c]
           ib == [[inbox EXCEPT ![c] = Tail(@)] EXCEPT ![to] = Append(@, m)]
           jb == [job EXCEPT ![c] = Head(inbox[c])]
<1>1. /\ Tidy(inbox, job, answer, checked) /\ CallTypes(inbox, job, answer)
      /\ Approved(job, answer, checked, takeoffs)
  BY DEF Sound, Tidy
<1>2. /\ job[c] = None /\ inbox[c] # <<>> /\ Head(inbox[c]).action = action
      /\ inbox' = ib /\ job' = jb /\ answer' = answer
  BY DEF Asks, Gets, First, Without
<1>3. /\ m \in Messages /\ m.caller = c /\ m.action = request.action /\ m.mission = request.mission
  BY DEF Messages
<1> HIDE DEF m
<1>4. c = "monitor" => m.action = Head(inbox[c]).action /\ m.mission = Head(inbox[c]).mission
  BY <1>2, <1>3 DEF First
<1>5. Tidy(ib, jb, answer, checked)
  BY <1>1, <1>2, <1>3, <1>4, AskedIsTidy
<1>a. answer[c] = None
  BY <1>1, <1>2 DEF Tidy, One
<1>6. \A x \in Components : x # c => jb[x] = job[x]
  BY <1>1 DEF CallTypes
<1> HIDE DEF ib, jb
<1>7. Approved(jb, answer, checked, takeoffs)
  BY <1>1, <1>a, <1>6, Names DEF Approved
<1> QED BY <1>2, <1>5, <1>7 DEF Sound

\* The monitor passes the authority's approval on, nobody else gives one.
LEMMA EndsSound ==
  ASSUME Sound(inbox, job, answer, checked, takeoffs),
         NEW c \in Components, NEW action, NEW out, NEW r, Ends(c, action, out, r), Notices(out),
         IF c = "monitor" THEN r = "ok" => answer["monitor"] = "ok"
         ELSE action # "request_takeoff"
  PROVE  Sound(inbox', job', answer', checked, takeoffs)
<1> DEFINE h == job[c].caller
           jb == [job EXCEPT ![c] = None]
           an1 == Result(answer, h, r)
           an == [an1 EXCEPT ![c] = None]
<1>1. /\ Tidy(inbox, job, answer, checked) /\ CallTypes(inbox, job, answer)
      /\ Links(inbox, job, checked) /\ Approved(job, answer, checked, takeoffs)
  BY DEF Sound, Tidy
<1>2. /\ job[c] # None /\ job[c].action = action /\ answer[c] # None
      /\ inbox' = Posted(inbox, out) /\ job' = jb /\ answer' = an
  BY AnswerIsResult DEF Ends
<1>3. Tidy(inbox, jb, an, checked) /\ h # c
  BY <1>1, <1>2, EndedIsTidy
<1>4. Call(inbox, job, c, 0, h) /\ At(inbox, job, c, 0) = job[c]
  BY <1>1, <1>2, CallAt
<1>5. /\ \A x \in Components \ {c} : x # h => an[x] = answer[x]
      /\ h \in Components => an[h] = r
      /\ an[c] = None
  <2>1. /\ CallTypes(inbox, job, an1) /\ \A x \in Components : x # h => an1[x] = answer[x]
        /\ h \in Components => an1[h] = r
    BY <1>1, Names, ResultAt
  <2> HIDE DEF an1, h
  <2> QED BY <1>3, <2>1 DEF CallTypes
<1>6. jb[c] = None /\ \A x \in Components : x # c => jb[x] = job[x]
  BY <1>1 DEF CallTypes
<1> HIDE DEF h, jb, an
<1>7. Tidy(Posted(inbox, out), jb, an, checked)
  BY <1>3, PostedIsTidy
<1>8. h = "monitor" => job["monitor"].action = action
  BY <1>1, <1>2, <1>4 DEF Links
<1>9. h = "control" => /\ c = "monitor"
                       /\ job["control"].action = "orvd" =>
                            /\ job["monitor"].action = "request_takeoff"
                            /\ job["monitor"].mission = checked
  BY <1>1, <1>4 DEF Links
<1>10. Approved(jb, an, checked, takeoffs)
  <2>1. an["monitor"] = "ok" => /\ c # "monitor" /\ jb["monitor"] = job["monitor"]
                                /\ h = "monitor" \/ an["monitor"] = answer["monitor"]
    BY <1>5, <1>6, Names
  <2>2. ASSUME jb["control"] # None
        PROVE  c # "control" /\ jb["control"] = job["control"] /\ job["control"] # None
    BY <1>6, <2>2, Names
  <2>3. ASSUME jb["control"] # None, jb["control"].action = "orvd", an["control"] = "ok"
        PROVE  checked \in takeoffs
    <3>1. CASE h = "control"
      <4>1. r = "ok"
        BY <1>5, <2>3, <3>1, Names
      <4> QED BY <1>1, <1>9, <2>2, <2>3, <3>1, <4>1 DEF Approved
    <3>2. CASE h # "control"
      <4>1. answer["control"] = "ok"
        BY <1>5, <2>2, <2>3, <3>2, Names
      <4> QED BY <1>1, <2>2, <2>3, <4>1 DEF Approved
    <3> QED BY <3>1, <3>2
  <2>4. an["monitor"] = "ok" /\ jb["monitor"].action = "request_takeoff"
          => jb["monitor"].mission \in takeoffs
    BY <1>1, <1>8, <2>1 DEF Approved
  <2>5. jb["control"] # None /\ jb["control"].action = "port" => checked \in takeoffs
    BY <1>1, <2>2 DEF Approved
  <2> QED BY <2>3, <2>4, <2>5 DEF Approved
<1> QED BY <1>2, <1>7, <1>10 DEF Sound

LEMMA ExpiresSound ==
  ASSUME Sound(inbox, job, answer, checked, takeoffs), NEW c \in Components, Expires(c)
  PROVE  Sound(inbox', job', answer', checked, takeoffs)
<1>1. /\ Tidy(inbox, job, answer, checked) /\ CallTypes(inbox, job, answer)
      /\ Approved(job, answer, checked, takeoffs)
  BY DEF Sound, Tidy
<1>2. /\ job[c] # None
      /\ inbox' = [x \in Components |-> [i \in DOMAIN inbox[x] |-> Forgets(inbox[x][i], c)]]
      /\ job' = [x \in Components |-> Forgets(job[x], c)]
      /\ answer' = [answer EXCEPT ![c] = "none"]
  BY DEF Expires, Waits
<1>3. Tidy(inbox', job', answer', checked)
  BY ONLY <1>1, <1>2, c \in Components, ForgottenIsTidy
<1>4. \A x \in Components : answer'[x] = "ok" => answer[x] = "ok"
  BY <1>1, <1>2 DEF CallTypes
<1>5. \A x \in Components : job[x] \in Messages =>
        job'[x] # None /\ job'[x].action = job[x].action /\ job'[x].mission = job[x].mission
  BY <1>2, Names DEF Forgets, Messages
<1>6. \A x \in Components : job[x] = None => job'[x] = None
  BY <1>2 DEF Forgets
<1>7. job["monitor"] \in Messages \cup {None} /\ job["control"] \in Messages \cup {None}
  BY <1>1, Names DEF CallTypes
<1>8. answer["monitor"] = "ok" => job["monitor"] # None
  BY Names DEF Sound, Tidy, One
<1>9. Approved(job', answer', checked, takeoffs)
  BY <1>1, <1>4, <1>5, <1>6, <1>7, <1>8, Names DEF Approved
<1> QED BY <1>3, <1>9 DEF Sound

-----------------------------------------------------------------------------
(* Threads that ask on their own account. *)

LEMMA BegunSound ==
  ASSUME Sound(inbox, job, answer, checked, takeoffs),
         NEW c \in {"control", "poller"}, job[c] = None,
         NEW m \in Messages, m.caller = None, NEW m2 \in Messages, m2.caller = c, NEW chk,
         IF c = "control" THEN m2.action = "request_takeoff" /\ m2.mission = chk /\ m.action = "orvd"
         ELSE chk = checked,
         job' = [job EXCEPT ![c] = m], answer' = answer,
         inbox' = [inbox EXCEPT !["monitor"] = Append(@, m2)]
  PROVE  Sound(inbox', job', answer', chk, takeoffs)
<1> DEFINE jb == [job EXCEPT ![c] = m]
           ib == [inbox EXCEPT !["monitor"] = Append(@, m2)]
<1>1. /\ Tidy(inbox, job, answer, checked) /\ CallTypes(inbox, job, answer)
      /\ Approved(job, answer, checked, takeoffs) /\ c \in Components /\ answer[c] = None
  BY Names DEF Sound, Tidy, One
<1>2. Tidy(inbox, job, answer, chk)
  BY <1>1, Unchecked
<1>3. [answer EXCEPT ![c] = None] = answer
  BY <1>1 DEF CallTypes
<1>4. Tidy(inbox, jb, answer, chk)
  <2>1. Tidy(inbox, jb, [answer EXCEPT ![c] = None], chk)
    BY <1>1, <1>2, TakenUpIsTidy
  <2> QED BY <1>3, <2>1
<1>5. Silent(inbox, jb, c)
  BY <1>1, <1>2, TakenUpIsSilent
<1>6. jb[c] = m /\ \A x \in Components : x # c => jb[x] = job[x]
  BY <1>1 DEF CallTypes
<1> HIDE DEF jb
<1>7. Apt(jb, chk, c, "monitor", m2)
  BY Names DEF Apt
<1>8. Tidy(ib, jb, answer, chk)
  BY <1>1, <1>4, <1>5, <1>6, <1>7, Names, CalledIsTidy
<1>9. Approved(jb, answer, chk, takeoffs)
  BY <1>1, <1>6, Names DEF Approved
<1> QED BY <1>8, <1>9 DEF Sound, jb

LEMMA OrvdApprovesSound ==
  ASSUME Sound(inbox, job, answer, checked, takeoffs), checked \in Ids \cup {None}, OrvdApproves
  PROVE  Sound(inbox', job', answer', checked, takeoffs)
<1> DEFINE m == [job["control"] EXCEPT !.action = "port"]
           m2 == Message("port_takeoff", checked, "control")
           jb == [job EXCEPT !["control"] = m]
           an == [answer EXCEPT !["control"] = None]
           ib == [inbox EXCEPT !["monitor"] = Append(@, m2)]
<1>1. /\ Tidy(inbox, job, answer, checked) /\ CallTypes(inbox, job, answer)
      /\ Approved(job, answer, checked, takeoffs) /\ Links(inbox, job, checked)
  BY DEF Sound, Tidy
<1>2. /\ job["control"] # None /\ job["control"].action = "orvd" /\ answer["control"] = "ok"
      /\ inbox' = ib /\ job' = jb /\ answer' = an
  BY DEF OrvdApproves
<1>3. job["control"] \in Messages /\ job["control"].caller = None
  BY <1>1, <1>2, Names DEF CallTypes, Links
<1>4. m \in Messages /\ m.caller = None /\ m.action = "port"
  <2> DEFINE n == job["control"]
  <2>1. n \in Messages /\ n.caller = None
    BY <1>3
  <2> HIDE DEF n
  <2>a. "port" \in Actions
    BY DEF Actions
  <2>2. /\ [n EXCEPT !.action = "port"] \in Messages /\ [n EXCEPT !.action = "port"].caller = None
        /\ [n EXCEPT !.action = "port"].action = "port"
    BY <2>1, <2>a DEF Messages
  <2> QED BY <2>2 DEF n
<1>5. m2 \in Messages /\ m2.caller = "control"
  <2>1. "control" \in Components \cup {None}
    BY Names
  <2>2. "port_takeoff" \in Actions
    BY DEF Actions, Target
  <2> QED BY <2>1, <2>2, MessageIn
<1> HIDE DEF m, m2
<1>6. Tidy(inbox, jb, an, checked) /\ "control" \in Components
  BY <1>1, <1>2, <1>3, <1>4, Names, TakenUpIsTidy
<1>7. Silent(inbox, jb, "control")
  BY <1>1, <1>2, <1>3, <1>4, Names, TakenUpIsSilent
<1>8. /\ jb["control"] = m /\ \A x \in Components : x # "control" => jb[x] = job[x]
      /\ an["control"] = None /\ \A x \in Components : x # "control" => an[x] = answer[x]
  BY <1>1, Names DEF CallTypes
<1> HIDE DEF jb, an
<1>9. Apt(jb, checked, "control", "monitor", m2)
  BY <1>4, <1>5, <1>8 DEF Apt
<1>10. Tidy(ib, jb, an, checked)
  BY <1>4, <1>6, <1>7, <1>8, <1>9, Names, CalledIsTidy
<1>11. Approved(jb, an, checked, takeoffs)
  BY <1>1, <1>2, <1>8, Names DEF Approved
<1> QED BY <1>2, <1>10, <1>11 DEF Sound

-----------------------------------------------------------------------------
(* The ground control station. *)

LEMMA HandlesPlain ==
  ASSUME Sound(inbox, job, answer, checked, takeoffs),
         NEW c \in Components, c # "monitor", NEW action, action # "request_takeoff",
         NEW out, NEW r, Handles(c, action, out, r), Notices(out)
  PROVE  Sound(inbox', job', answer', checked, takeoffs)
BY HandlesSound

LEMMA EndsPlain ==
  ASSUME Sound(inbox, job, answer, checked, takeoffs),
         NEW c \in Components, c # "monitor", NEW action, action # "request_takeoff",
         NEW out, NEW r, Ends(c, action, out, r), Notices(out)
  PROVE  Sound(inbox', job', answer', checked, takeoffs)
BY EndsSound

LEMMA AsksPlain ==
  ASSUME Sound(inbox, job, answer, checked, takeoffs),
         NEW c \in Components \ {"control", "monitor"}, NEW action, NEW to \in Components,
         NEW a \in Actions, NEW m \in Ids \cup {None}, Asks(c, action, to, Message(a, m, None))
  PROVE  Sound(inbox', job', answer', checked, takeoffs)
<1>1. Message(a, m, None) \in Messages
  BY MessageIn
<1> QED BY <1>1, AsksSound

LEMMA OrchestratorSound ==
  ASSUME Sound(inbox, job, answer, checked, takeoffs),
         \/ \E m \in Missions : TaskSubmit(m)
         \/ EndSubmit \/ TaskAssign \/ EndAssign \/ TaskStart
  PROVE  Sound(inbox', job', answer', checked, takeoffs)
<1>1. ASSUME NEW m \in Missions, TaskSubmit(m)
      PROVE  Sound(inbox', job', answer', checked, takeoffs)
  <2>1. m \in Ids \cup {None} /\ "plan" \in Actions
    BY DEF Ids, Actions
  <2> QED BY <1>1, <2>1, Names, AsksPlain DEF TaskSubmit
<1>2. ASSUME EndSubmit PROVE Sound(inbox', job', answer', checked, takeoffs)
  BY <1>2, Names, Nothing, EndsPlain DEF EndSubmit
<1>3. ASSUME TaskAssign PROVE Sound(inbox', job', answer', checked, takeoffs)
  <2>1. First("orchestrator").mission \in Ids \cup {None} /\ "prepare" \in Actions
    BY <1>3, Names, MissionIn DEF TaskAssign, Asks, Gets, Actions
  <2> QED BY <1>3, <2>1, Names, AsksPlain DEF TaskAssign
<1>4. ASSUME EndAssign PROVE Sound(inbox', job', answer', checked, takeoffs)
  <2> DEFINE m == job["orchestrator"].mission
             a == IF answer["orchestrator"] = "route" THEN "upload" ELSE "upload_header"
             out == IF answer["orchestrator"] \in {"route", "header"}
                    THEN [manager |-> Message(a, m, None)] ELSE <<>>
  <2>1. Ends("orchestrator", "assign", out, None)
    BY <1>4 DEF EndAssign
  <2>2. m \in Ids \cup {None}
    BY <2>1, Names, MissionIn DEF Ends
  <2>3. a \in Actions
    BY DEF Actions
  <2> HIDE DEF m, a
  <2>4. Notices([manager |-> Message(a, m, None)]) /\ Notices(<<>>)
    BY <2>2, <2>3, OneNotice, Nothing
  <2>5. Notices(out)
    BY <2>4
  <2> HIDE DEF out
  <2> QED BY <2>1, <2>5, Names, EndsPlain
<1>5. ASSUME TaskStart PROVE Sound(inbox', job', answer', checked, takeoffs)
  <2>1. First("orchestrator").mission \in Ids \cup {None} /\ "start" \in Actions
    BY <1>5, Names, MissionIn DEF TaskStart, Handles, Gets, Actions
  <2>2. Notices([manager |-> Message("start", First("orchestrator").mission, None)])
    BY <2>1, OneNotice
  <2> QED BY <1>5, <2>2, Names, HandlesPlain DEF TaskStart
<1> QED BY <1>1, <1>2, <1>3, <1>4, <1>5

LEMMA StoresSound ==
  ASSUME Sound(inbox, job, answer, checked, takeoffs),
         \/ \E routed \in BOOLEAN : HandlePathPlan(routed)
         \/ HandleMissionPrepare \/ EndMissionPrepare \/ HandleGetMission \/ HandleSaveMission
         \/ \E status \in {"assigned", "running"} : HandleUpdateMission(status)
         \/ \E status \in {"reserved", "busy"} : HandleUpdateDrone(status)
         \/ HandleSaveTelemetry
  PROVE  Sound(inbox', job', answer', checked, takeoffs)
<1>1. ASSUME NEW routed \in BOOLEAN, HandlePathPlan(routed)
      PROVE  Sound(inbox', job', answer', checked, takeoffs)
  <2> DEFINE m == First("planner").mission
  <2>1. CASE routed
    <3>1. Handles("planner", "plan", [mission_store |-> Message("save", m, None)], m)
      BY <1>1, <2>1 DEF HandlePathPlan
    <3>2. m \in Ids \cup {None} /\ "save" \in Actions
      BY <3>1, Names, MissionIn DEF Handles, Gets, Actions
    <3> HIDE DEF m
    <3>3. Notices([mission_store |-> Message("save", m, None)])
      BY <3>2, OneNotice
    <3> QED BY <3>1, <3>3, Names, HandlesPlain
  <2>2. CASE ~routed
    BY <1>1, <2>2, Names, Nothing, HandlesPlain DEF HandlePathPlan
  <2> QED BY <2>1, <2>2
<1>2. ASSUME HandleMissionPrepare PROVE Sound(inbox', job', answer', checked, takeoffs)
  <2>1. First("converter").mission \in Ids \cup {None} /\ "get" \in Actions
    BY <1>2, Names, MissionIn DEF HandleMissionPrepare, Asks, Gets, Actions
  <2> QED BY <1>2, <2>1, Names, AsksPlain DEF HandleMissionPrepare
<1>3. ASSUME EndMissionPrepare PROVE Sound(inbox', job', answer', checked, takeoffs)
  BY <1>3, Names, Nothing, EndsPlain DEF EndMissionPrepare
<1>4. ASSUME HandleGetMission PROVE Sound(inbox', job', answer', checked, takeoffs)
  BY <1>4, Names, Nothing, HandlesPlain DEF HandleGetMission
<1>5. ASSUME HandleSaveMission PROVE Sound(inbox', job', answer', checked, takeoffs)
  BY <1>5, Names, Nothing, HandlesPlain DEF HandleSaveMission
<1>6. ASSUME NEW status \in {"assigned", "running"}, HandleUpdateMission(status)
      PROVE  Sound(inbox', job', answer', checked, takeoffs)
  BY <1>6, Names, Nothing, HandlesPlain DEF HandleUpdateMission
<1>7. ASSUME NEW status \in {"reserved", "busy"}, HandleUpdateDrone(status)
      PROVE  Sound(inbox', job', answer', checked, takeoffs)
  BY <1>7, Names, Nothing, HandlesPlain DEF HandleUpdateDrone
<1>8. ASSUME HandleSaveTelemetry PROVE Sound(inbox', job', answer', checked, takeoffs)
  BY <1>8, Names, Nothing, HandlesPlain DEF HandleSaveTelemetry
<1> QED BY <1>1, <1>2, <1>3, <1>4, <1>5, <1>6, <1>7, <1>8

LEMMA ManagerSound ==
  ASSUME Sound(inbox, job, answer, checked, takeoffs),
         \/ HandleMissionUpload \/ EndMissionUpload
         \/ HandleMissionStart \/ EndMissionStart \/ EndPoll
  PROVE  Sound(inbox', job', answer', checked, takeoffs)
<1>1. ASSUME HandleMissionUpload PROVE Sound(inbox', job', answer', checked, takeoffs)
  <2> DEFINE m == First("manager").mission
  <2>1. PICK action \in {"upload", "upload_header"}, a \in {"load_mission", "load_header"} :
          Asks("manager", action, "monitor", Message(a, m, None))
    BY <1>1 DEF HandleMissionUpload
  <2>2. m \in Ids \cup {None} /\ a \in Actions
    BY <2>1, Names, MissionIn DEF Asks, Gets, Actions, Target
  <2> HIDE DEF m
  <2> QED BY <2>1, <2>2, Names, AsksPlain
<1>2. ASSUME EndMissionUpload PROVE Sound(inbox', job', answer', checked, takeoffs)
  <2> DEFINE m == job["manager"].mission
  <2>1. PICK action \in {"upload", "upload_header"} :
          Ends("manager", action, Updates(m, "assigned", "reserved"), None)
    BY <1>2 DEF EndMissionUpload
  <2>2. m \in Ids \cup {None} /\ "assigned" \in Actions /\ "reserved" \in Actions
    BY <2>1, Names, MissionIn DEF Ends, Actions
  <2> HIDE DEF m
  <2>3. Notices(Updates(m, "assigned", "reserved"))
    BY <2>2, OneNotice
  <2> QED BY <2>1, <2>3, Names, EndsPlain
<1>3. ASSUME HandleMissionStart PROVE Sound(inbox', job', answer', checked, takeoffs)
  <2>1. First("manager").mission \in Ids \cup {None} /\ "START" \in Actions
    BY <1>3, Names, MissionIn DEF HandleMissionStart, Asks, Gets, Actions, Target
  <2> QED BY <1>3, <2>1, Names, AsksPlain DEF HandleMissionStart
<1>4. ASSUME EndMissionStart PROVE Sound(inbox', job', answer', checked, takeoffs)
  <2> DEFINE m == job["manager"].mission
             out == IF answer["manager"] = "ok" THEN Updates(m, "running", "busy") ELSE <<>>
  <2>1. Ends("manager", "start", out, None)
    BY <1>4 DEF EndMissionStart
  <2>2. m \in Ids \cup {None} /\ "running" \in Actions /\ "busy" \in Actions
    BY <2>1, Names, MissionIn DEF Ends, Actions
  <2> HIDE DEF m
  <2>3. Notices(Updates(m, "running", "busy")) /\ Notices(<<>>)
    BY <2>2, OneNotice, Nothing
  <2>4. Notices(out)
    BY <2>3
  <2> HIDE DEF out
  <2> QED BY <2>1, <2>4, Names, EndsPlain
<1>5. ASSUME EndPoll PROVE Sound(inbox', job', answer', checked, takeoffs)
  <2> DEFINE out == IF answer["poller"] = "ok"
                    THEN [drone_store |-> Message("telemetry", None, None)] ELSE <<>>
  <2>1. Ends("poller", "poll", out, None)
    BY <1>5 DEF EndPoll
  <2>2. None \in Ids \cup {None} /\ "telemetry" \in Actions
    BY DEF Actions
  <2>3. Notices([drone_store |-> Message("telemetry", None, None)]) /\ Notices(<<>>)
    BY <2>2, OneNotice, Nothing
  <2>4. Notices(out)
    BY <2>3
  <2> HIDE DEF out
  <2> QED BY <2>1, <2>4, Names, EndsPlain
<1> QED BY <1>1, <1>2, <1>3, <1>4, <1>5

-----------------------------------------------------------------------------
(* The drone and the authority. *)

LEMMA ProxySound ==
  ASSUME Sound(inbox, job, answer, checked, takeoffs), NEW action \in DOMAIN Target,
         HandleProxyRequest(action) \/ EndProxyRequest(action)
  PROVE  Sound(inbox', job', answer', checked, takeoffs)
<1>1. action \in Actions /\ Target[action] \in Components
  BY Names DEF Actions, Target
<1>2. ASSUME HandleProxyRequest(action) PROVE Sound(inbox', job', answer', checked, takeoffs)
  <2> DEFINE m == First("monitor").mission
  <2>1. Asks("monitor", action, Target[action], Message(action, m, None))
    BY <1>2 DEF HandleProxyRequest
  <2>2. m \in Ids \cup {None}
    BY <2>1, Names, MissionIn DEF Asks, Gets
  <2> HIDE DEF m
  <2>3. /\ Message(action, m, None) \in Messages /\ Message(action, m, None).action = action
        /\ Message(action, m, None).mission = m
    BY <1>1, <2>2, MessageIn
  <2>4. "monitor" \in Components \ {"control"}
    BY Names
  <2> QED BY <1>1, <2>1, <2>3, <2>4, AsksSound DEF m
<1>3. ASSUME EndProxyRequest(action) PROVE Sound(inbox', job', answer', checked, takeoffs)
  <2> DEFINE r == IF answer["monitor"] = "none" THEN "error" ELSE answer["monitor"]
  <2>1. Ends("monitor", action, <<>>, r)
    BY <1>3 DEF EndProxyRequest
  <2>2. r = "ok" => answer["monitor"] = "ok"
    OBVIOUS
  <2> HIDE DEF r
  <2> QED BY <2>1, <2>2, Names, Nothing, EndsSound
<1> QED BY <1>2, <1>3

LEMMA AnswersSound ==
  ASSUME Sound(inbox, job, answer, checked, takeoffs),
         \/ RejectMission \/ HandleLoadMission \/ EndLoadMission
         \/ HandleMissionLoad \/ HandleStart \/ TelemetryAnswers
         \/ \E result \in {"ok", "error"} : PortAnswers(result)
         \/ Denied \/ PreflightPassed
  PROVE  Sound(inbox', job', answer', checked, takeoffs)
<1>1. ASSUME RejectMission PROVE Sound(inbox', job', answer', checked, takeoffs)
  BY <1>1, Names, Nothing, HandlesPlain DEF RejectMission
<1>2. ASSUME HandleLoadMission PROVE Sound(inbox', job', answer', checked, takeoffs)
  <2>1. First("handler").mission \in Ids \cup {None} /\ "mission_load" \in Actions
    BY <1>2, Names, MissionIn DEF HandleLoadMission, Asks, Gets, Actions, Target
  <2> QED BY <1>2, <2>1, Names, AsksPlain DEF HandleLoadMission
<1>3. ASSUME EndLoadMission PROVE Sound(inbox', job', answer', checked, takeoffs)
  BY <1>3, Names, Nothing, EndsPlain DEF EndLoadMission
<1>4. ASSUME HandleMissionLoad PROVE Sound(inbox', job', answer', checked, takeoffs)
  BY <1>4, Names, Nothing, HandlesPlain DEF HandleMissionLoad
<1>5. ASSUME HandleStart PROVE Sound(inbox', job', answer', checked, takeoffs)
  BY <1>5, Names, Nothing, HandlesPlain DEF HandleStart
<1>6. ASSUME TelemetryAnswers PROVE Sound(inbox', job', answer', checked, takeoffs)
  BY <1>6, Names, Nothing, HandlesPlain DEF TelemetryAnswers
<1>7. ASSUME NEW result \in {"ok", "error"}, PortAnswers(result)
      PROVE  Sound(inbox', job', answer', checked, takeoffs)
  BY <1>7, Names, Nothing, HandlesPlain DEF PortAnswers
<1>8. ASSUME Denied PROVE Sound(inbox', job', answer', checked, takeoffs)
  BY <1>8, Names, Nothing, EndsPlain DEF Denied
<1>9. ASSUME PreflightPassed PROVE Sound(inbox', job', answer', checked, takeoffs)
  BY <1>9, Names, Nothing, EndsPlain DEF PreflightPassed
<1> QED BY <1>1, <1>2, <1>3, <1>4, <1>5, <1>6, <1>7, <1>8, <1>9

LEMMA BeginPreflightSound ==
  ASSUME FInv, BeginPreflight
  PROVE  Sound(inbox', job', answer', checked', takeoffs)
<1> DEFINE m == Message("orvd", mission, None)
           m2 == Message("request_takeoff", mission, "control")
<1>1. Sound(inbox, job, answer, checked, takeoffs) /\ mission \in Ids \cup {None}
  BY DEF FInv
<1>2. /\ job["control"] = None /\ checked' = mission /\ answer' = answer
      /\ job' = [job EXCEPT !["control"] = m]
      /\ inbox' = [inbox EXCEPT !["monitor"] = Append(@, m2)]
  BY DEF BeginPreflight
<1>3. "orvd" \in Actions /\ "request_takeoff" \in Actions
      /\ "control" \in Components \cup {None} /\ None \in Components \cup {None}
  BY Names DEF Actions, Target
<1>4. /\ m \in Messages /\ m.caller = None /\ m.action = "orvd"
      /\ m2 \in Messages /\ m2.caller = "control" /\ m2.action = "request_takeoff" /\ m2.mission = mission
  BY <1>1, <1>3, MessageIn
<1> HIDE DEF m, m2
<1> QED BY <1>1, <1>2, <1>4, BegunSound

LEMMA PollSound ==
  ASSUME FInv, PollTelemetry
  PROVE  Sound(inbox', job', answer', checked, takeoffs)
<1> DEFINE m == Message("poll", None, None)
           m2 == Message("get_state", None, "poller")
<1>1. Sound(inbox, job, answer, checked, takeoffs)
  BY DEF FInv
<1>2. /\ job["poller"] = None /\ answer' = answer
      /\ job' = [job EXCEPT !["poller"] = m]
      /\ inbox' = [inbox EXCEPT !["monitor"] = Append(@, m2)]
  BY DEF PollTelemetry
<1>3. "poll" \in Actions /\ "get_state" \in Actions /\ None \in Ids \cup {None}
      /\ "poller" \in Components \cup {None} /\ None \in Components \cup {None}
  BY Names DEF Actions, Target
<1>4. m \in Messages /\ m.caller = None /\ m2 \in Messages /\ m2.caller = "poller"
  BY <1>3, MessageIn
<1> HIDE DEF m, m2
<1> QED BY <1>1, <1>2, <1>4, BegunSound

\* A task asks for no answer.
LEMMA TaskSound ==
  ASSUME FInv, NEW m \in Ids \cup {None}, NEW action \in {"submit", "assign", "start"},
         Task(action, m)
  PROVE  Sound(inbox', job', answer', checked, takeoffs)
<1> DEFINE out == [orchestrator |-> Message(action, m, None)]
<1>1. Tidy(inbox, job, answer, checked) /\ Approved(job, answer, checked, takeoffs)
  BY DEF FInv, Sound
<1>2. Message(action, m, None) \in Messages /\ Message(action, m, None).caller = None
  <2>1. action \in Actions /\ None \in Components \cup {None}
    BY DEF Actions
  <2> QED BY <2>1, MessageIn
<1>3. Notices(out)
  BY <1>2 DEF Notices
<1>4. inbox' = Posted(inbox, out) /\ job' = job /\ answer' = answer
  <2>1. DOMAIN inbox = Components
    BY <1>1 DEF Tidy, CallTypes
  <2>2. /\ inbox' = [inbox EXCEPT !["orchestrator"] = Append(@, Message(action, m, None))]
        /\ job' = job /\ answer' = answer
    BY DEF Task
  <2>3. DOMAIN out = {"orchestrator"} /\ out["orchestrator"] = Message(action, m, None)
    OBVIOUS
  <2> HIDE DEF out
  <2>4. inbox' = [c \in Components |-> IF c \in DOMAIN out THEN Append(inbox[c], out[c]) ELSE inbox[c]]
    BY <2>1, <2>2, <2>3
  <2> QED BY <2>2, <2>4 DEF Posted
<1> HIDE DEF out
<1>5. Tidy(Posted(inbox, out), job, answer, checked)
  BY <1>1, <1>3, PostedIsTidy
<1> QED BY <1>1, <1>4, <1>5 DEF Sound

-----------------------------------------------------------------------------
(* The invariant. *)

LEMMA FInit == Init => FInv
<1> SUFFICES ASSUME Init PROVE FInv
  OBVIOUS
<1>1. /\ inbox = [c \in Components |-> <<>>] /\ job = [c \in Components |-> None]
      /\ answer = [c \in Components |-> None]
  BY DEF Init, CallsInit
<1>2. CallTypes(inbox, job, answer)
  BY <1>1 DEF CallTypes
<1>3. \A x, i, k : ~Call(inbox, job, x, i, k)
  <2>1. ASSUME NEW x \in Components, NEW i \in Places(inbox, job, x) PROVE FALSE
    BY <1>1, <2>1 DEF Places
  <2> QED BY <2>1 DEF Call
<1>4. One(inbox, job, answer) /\ Links(inbox, job, checked)
  BY <1>1, <1>3, Names DEF One, Links
<1>5. Approved(job, answer, checked, takeoffs)
  BY <1>1, Names DEF Approved
<1>6. /\ {mission, checked} \subseteq Ids \cup {None} /\ ids \subseteq Missions /\ FlightOnRecord
  BY FlightPrepAssumption DEF Init, GcsInit, OnboardInit, FlightOnRecord
<1> QED BY <1>2, <1>4, <1>5, <1>6 DEF FInv, Sound, Tidy

LEMMA GcsKeeps ==
  ASSUME FInv, GcsStep, UNCHANGED <<onboardVars, authorityVars>> PROVE FInv'
<1>1. Sound(inbox', job', answer', checked, takeoffs)
  BY OrchestratorSound, StoresSound, ManagerSound DEF GcsStep, FInv
<1>2. ids' \subseteq Missions
  <2>1. CASE EndSubmit
    BY <2>1 DEF EndSubmit, FInv
  <2>2. CASE ~EndSubmit
    <3>1. ids' = ids
      BY <2>2 DEF GcsStep, TaskSubmit, HandlePathPlan, TaskAssign, EndAssign, TaskStart,
                  HandleMissionPrepare, EndMissionPrepare, HandleGetMission, HandleSaveMission,
                  HandleUpdateMission, HandleUpdateDrone, HandleSaveTelemetry, HandleMissionUpload,
                  EndMissionUpload, HandleMissionStart, EndMissionStart, EndPoll, gcsVars,
                  operatorVars
    <3> QED BY <3>1 DEF FInv
  <2> QED BY <2>1, <2>2
<1>3. mission' = mission /\ checked' = checked /\ state' = state /\ takeoffs' = takeoffs
  BY DEF onboardVars, authorityVars
<1> QED BY <1>1, <1>2, <1>3 DEF FInv, FlightOnRecord

LEMMA OnboardKeeps ==
  ASSUME FInv, OnboardStep, UNCHANGED <<gcsVars, authorityVars>> PROVE FInv'
<1>1. Sound(inbox, job, answer, checked, takeoffs) /\ {mission, checked} \subseteq Ids \cup {None}
  BY DEF FInv
<1>2. ids' = ids /\ takeoffs' = takeoffs
  BY DEF gcsVars, operatorVars, authorityVars
<1>3. ASSUME Sound(inbox', job', answer', checked', takeoffs),
             {mission', checked'} \subseteq Ids \cup {None},
             state' = "EXECUTING" => checked' \in takeoffs
      PROVE  FInv'
  BY <1>2, <1>3 DEF FInv, FlightOnRecord
<1>4. ASSUME NEW action \in DOMAIN Target, HandleProxyRequest(action) \/ EndProxyRequest(action)
      PROVE  FInv'
  <2>1. UNCHANGED onboardVars
    BY <1>4 DEF HandleProxyRequest, EndProxyRequest
  <2> QED BY <1>1, <1>3, <1>4, <2>1, ProxySound DEF FInv, FlightOnRecord, onboardVars
<1>5. ASSUME \/ RejectMission \/ HandleLoadMission \/ EndLoadMission \/ TelemetryAnswers
             \/ \E result \in {"ok", "error"} : PortAnswers(result)
      PROVE  FInv'
  <2>1. mission' = mission /\ state' = state /\ checked' = checked
    BY <1>5 DEF RejectMission, HandleLoadMission, EndLoadMission, TelemetryAnswers, PortAnswers,
                onboardVars
  <2>2. Sound(inbox', job', answer', checked, takeoffs)
    BY <1>1, <1>5, AnswersSound
  <2> QED BY <1>1, <1>3, <2>1, <2>2 DEF FInv, FlightOnRecord
<1>6. ASSUME HandleMissionLoad PROVE FInv'
  <2>1. /\ mission' = First("autopilot").mission /\ state' = "MISSION_LOADED" /\ checked' = checked
        /\ inbox["autopilot"] # <<>>
    BY <1>6 DEF HandleMissionLoad, Handles, Gets
  <2>2. mission' \in Ids \cup {None}
    BY <1>1, <2>1, Names, MissionIn
  <2>3. Sound(inbox', job', answer', checked, takeoffs)
    BY <1>1, <1>6, AnswersSound
  <2> QED BY <1>1, <1>3, <2>1, <2>2, <2>3
<1>7. ASSUME HandleStart PROVE FInv'
  <2>1. mission' = mission /\ checked' = checked /\ (state' = state \/ state' = "PRE_FLIGHT")
    BY <1>7 DEF HandleStart
  <2>2. Sound(inbox', job', answer', checked, takeoffs)
    BY <1>1, <1>7, AnswersSound
  <2> QED BY <1>1, <1>3, <2>1, <2>2 DEF FInv, FlightOnRecord
<1>8. ASSUME BeginPreflight PROVE FInv'
  <2>1. mission' = mission /\ checked' = mission /\ state' = "PRE_FLIGHT"
    BY <1>8 DEF BeginPreflight
  <2> QED BY <1>1, <1>3, <1>8, <2>1, BeginPreflightSound
<1>9. ASSUME OrvdApproves PROVE FInv'
  <2>1. mission' = mission /\ checked' = checked /\ state' = state
    BY <1>9 DEF OrvdApproves, onboardVars
  <2>2. Sound(inbox', job', answer', checked, takeoffs)
    BY <1>1, <1>9, OrvdApprovesSound
  <2> QED BY <1>1, <1>3, <2>1, <2>2 DEF FInv, FlightOnRecord
<1>10. ASSUME Denied PROVE FInv'
  <2>1. mission' = mission /\ checked' = checked /\ state' = "ABORTED"
    BY <1>10 DEF Denied
  <2>2. Sound(inbox', job', answer', checked, takeoffs)
    BY <1>1, <1>10, AnswersSound
  <2> QED BY <1>1, <1>3, <2>1, <2>2
<1>11. ASSUME PreflightPassed PROVE FInv'
  <2>1. /\ mission' = mission /\ checked' = checked
        /\ job["control"] # None /\ job["control"].action = "port"
    BY <1>11 DEF PreflightPassed, Ends
  <2>2. checked \in takeoffs
    BY <1>1, <2>1 DEF Sound, Approved
  <2>3. Sound(inbox', job', answer', checked, takeoffs)
    BY <1>1, <1>11, AnswersSound
  <2> QED BY <1>1, <1>3, <2>1, <2>2, <2>3
<1> QED BY <1>4, <1>5, <1>6, <1>7, <1>8, <1>9, <1>10, <1>11 DEF OnboardStep

LEMMA AuthorityKeeps ==
  ASSUME FInv, HandleRequestTakeoff PROVE FInv'
<1> DEFINE m == First("authority").mission
<1>1. PICK r \in {"ok", "error"} :
        /\ Handles("authority", "request_takeoff", <<>>, r)
        /\ r = "ok" => takeoffs' = takeoffs \cup {m}
        /\ r = "error" => takeoffs' = takeoffs
  BY DEF HandleRequestTakeoff, RequestTakeoff, authorityVars
<1>2. takeoffs \subseteq takeoffs' /\ (r = "ok" => m \in takeoffs')
  BY <1>1
<1> HIDE DEF m
<1>3. Sound(inbox', job', answer', checked, takeoffs')
  <2>1. "request_takeoff" = "request_takeoff" /\ r = "ok" => First("authority").mission \in takeoffs'
    BY <1>2 DEF m
  <2> QED BY <1>1, <1>2, <2>1, Names, Nothing, HandlesSound DEF FInv
<1>4. /\ mission' = mission /\ checked' = checked /\ state' = state /\ ids' = ids
  BY DEF HandleRequestTakeoff, gcsVars, operatorVars, onboardVars
<1> QED BY <1>2, <1>3, <1>4 DEF FInv, FlightOnRecord

LEMMA OthersKeep ==
  ASSUME FInv,
         \/ RequestTimeout
         \/ OperatorTask /\ UNCHANGED <<onboardVars, authorityVars>>
         \/ PollTelemetry /\ UNCHANGED <<onboardVars, authorityVars>>
         \/ AuthorityAct /\ UNCHANGED <<callVars, gcsVars, onboardVars>>
         \/ UNCHANGED vars
  PROVE  FInv'
<1>1. Sound(inbox, job, answer, checked, takeoffs)
  BY DEF FInv
<1>2. Sound(inbox', job', answer', checked, takeoffs)
  <2>1. CASE \E c \in Components : Expires(c)
    BY <1>1, <2>1, ExpiresSound
  <2>2. CASE OperatorTask
    BY <2>2, TaskSound DEF OperatorTask
  <2>3. CASE PollTelemetry
    BY <2>3, PollSound
  <2>4. CASE UNCHANGED callVars
    BY <1>1, <2>4 DEF callVars
  <2> QED BY <2>1, <2>2, <2>3, <2>4 DEF RequestTimeout, vars
<1>3. /\ mission' = mission /\ checked' = checked /\ state' = state /\ ids' = ids
      /\ takeoffs' = takeoffs
  <2>1. CASE AuthorityAct /\ UNCHANGED <<callVars, gcsVars, onboardVars>>
    <3>1. takeoffs' = takeoffs
      BY <2>1 DEF AuthorityAct, RegisterDrone, RevokeTakeoff, AuthorizeMission, RegisterMission,
                  AddZone, RemoveZone
    <3> QED BY <2>1, <3>1 DEF gcsVars, operatorVars, onboardVars
  <2>2. CASE ~(AuthorityAct /\ UNCHANGED <<callVars, gcsVars, onboardVars>>)
    BY <2>2 DEF RequestTimeout, OperatorTask, Task, PollTelemetry, vars, gcsVars, operatorVars,
                onboardVars, authorityVars
  <2> QED BY <2>1, <2>2
<1> QED BY <1>2, <1>3 DEF FInv, FlightOnRecord

\* The authority has a takeoff on record for whatever flies, although each of
\* the requests between the autopilot and the authority may run out and be
\* answered later, while the next one is waited for.
THEOREM FlightsOnRecord == Spec => []FlightOnRecord
<1>1. FInv /\ [FlightPrepNext]_vars => FInv'
  BY GcsKeeps, OnboardKeeps, AuthorityKeeps, OthersKeep DEF FlightPrepNext, SystemStep
<1>2. FInv => FlightOnRecord
  BY DEF FInv
<1> QED BY <1>1, <1>2, FInit, PTL DEF Spec
=============================================================================
