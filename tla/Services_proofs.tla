--------------------------- MODULE Services_proofs --------------------------
(***************************************************************************)
(* Theorems about the two services that all others write to: the log       *)
(* service (Analytics) with its clients (Journal), and the regulator.      *)
(*                                                                         *)
(* Analytics and Journal, for any payloads, events, batch size and pages:  *)
(* what the backend answers is what it stored, its readers miss nothing    *)
(* but items of a timestamp that a page ends in, and the clients post      *)
(* every event at most once.                                               *)
(*                                                                         *)
(* Regulator, for every set of names, number of requests, of crashes and   *)
(* of writes that fail.  What the service promises must hold of what it    *)
(* has in memory and of every file that can be read (GoodStore, GoodList): *)
(* a crash takes the memory away, and the next start reads the files.      *)
(***************************************************************************)
EXTENDS Journal, Regulator, FiniteSetTheorems, SequenceTheorems, TLAPS

-----------------------------------------------------------------------------
(* The inductive invariant. *)

\* The clients: every event is taken over once and is then in one place.
Distinct(s) == \A i, j \in DOMAIN s : s[i] = s[j] => i = j

Ships ==
  /\ Distinct(buffer) /\ Distinct(batch)
  /\ Elements(buffer) \cap Elements(batch) = {}
  /\ Elements(buffer) \cup Elements(batch) \subseteq logged
  /\ \A e \in Elements(buffer) : posts[e] = 0
  /\ worker = "collects" => \A e \in Elements(batch) : posts[e] = 0
  /\ \A e \in Events : posts[e] <= 1 /\ (posts[e] > 0 => e \in logged)
  /\ client = "journal" => batch = <<>> /\ unfinished = 0

\* What a thread of the journal has taken is in no other place and not posted.
InHand ==
  /\ client = "infopanel" => taken = [t \in Threads |-> <<>>]
  /\ \A t \in Threads : /\ Distinct(taken[t]) /\ Elements(taken[t]) \subseteq logged
                        /\ Elements(taken[t]) \cap Elements(buffer) = {}
                        /\ \A e \in Elements(taken[t]) : posts[e] = 0
  /\ \A t, u \in Threads : t # u => Elements(taken[t]) \cap Elements(taken[u]) = {}

Names(payload) == {payload[i].name : i \in DOMAIN payload}

\* The backend: an item comes in one request, and is stored by no other.
ApartIn(rs, st, ps) ==
  /\ \A r \in rs : Distinct([i \in DOMAIN r.payload |-> r.payload[i].name])
  /\ \A r, s \in rs : Names(r.payload) \cap Names(s.payload) # {} => r = s
  /\ \A e \in Events : ps[e] = 0 => /\ \A r \in rs : e \notin Names(r.payload)
                                    /\ \A x \in Index : \A d \in st[x] : d.name # e

Apart == ApartIn(requests, stored, posts)

Done(stage) == CASE stage = "event" -> {} [] stage = "safety" -> {"event"} [] OTHER -> Index

\* With the items that the indices st hold: is an item stored, which items of
\* a request did the stages behind it store, which items of an index match?
Has(st, item) == item.kind \in Index /\ HitOf(item) \in st[item.kind]
Kept(st, r) == {i \in DOMAIN r.payload : r.payload[i].kind \in Done(r.stage) /\ Has(st, r.payload[i])}
Fitting(st, x, range) == {d \in st[x] : range.from <= d.time /\ d.time <= range.to}

\* What a request has noted so far is what was done with its items.
ExactFor(st, r) ==
  /\ r.accepted \in 0 .. Len(r.payload)
  /\ r.errors \subseteq DOMAIN r.payload
  /\ r.status = 502 => r.stage = "answered"
  /\ r.status # 502 =>
       /\ r.errors = {i \in DOMAIN r.payload :
                        /\ r.payload[i].kind \in {"invalid"} \cup Done(r.stage)
                        /\ ~Has(st, r.payload[i])}
       /\ r.accepted = Cardinality(Kept(st, r))
       /\ \A i \in DOMAIN r.payload :
            r.payload[i].kind \notin Done(r.stage) => ~Has(st, r.payload[i])
       /\ r.stage # "event" => (r.status = 200 <=> r.errors = {})

Exact == \A r \in requests : ExactFor(stored, r)

\* A reader has seen what is on the pages before its own: what it has not seen
\* comes after as many newer documents, or its timestamp is torn.
Newer(d, docs) == {e \in docs : e.time > d.time}

ReadsFor(st, rd) ==
  /\ rd.kind = "list" =>
       LET docs == Fitting(st, rd.index, rd.range)
       IN  /\ rd.page > 0 /\ rd.unseen \subseteq docs
           /\ \A d \in rd.unseen : \/ d.time \in rd.torn
                                    \/ Cardinality(Newer(d, docs)) >= (rd.page - 1) * Limit
  /\ rd.kind = "listed" => \A d \in rd.unseen : d.time \in rd.torn
  /\ rd.kind = "scroll" => IsFiniteSet(rd.unseen)
  /\ rd.kind = "file" => rd.unseen = {}

Reads == ReadsFor(stored, reading)

Storage(st) == st \in [Index -> SUBSET Hit] /\ \A x \in Index : IsFiniteSet(st[x])

BackendTypes ==
  /\ requests \subseteq Request
  /\ Storage(stored)
  /\ reading \in Reading

ClientTypes ==
  /\ client \in {"journal", "infopanel"}
  /\ configured \in BOOLEAN
  /\ taken \in [Threads -> Seq(Events)]
  /\ buffer \in Seq(Events) /\ batch \in Seq(Events)
  /\ busy \subseteq Threads
  /\ phase \in {"up", "stopping", "down"}
  /\ worker \in {"collects", "sends", "ended"}
  /\ unfinished = (IF client = "journal" THEN 0 ELSE Len(buffer) + Len(batch))
  /\ logged \subseteq Events
  /\ posts \in [Events -> Nat]

IInv == BackendTypes /\ ClientTypes /\ Ships /\ InHand /\ Apart /\ Exact /\ Reads

-----------------------------------------------------------------------------
(* Places in an order. *)

Below(S, R, d) == {e \in S : <<e, d>> \in R}
PlaceIn(S, R) == [d \in S |-> Cardinality(Below(S, R, d))]

\* In a finite set that R orders, the elements have the places 0, 1, 2 ...
\* and each its own.
LEMMA OrderedPlaces ==
  ASSUME NEW S, IsFiniteSet(S), NEW R,
         \A a \in S : <<a, a>> \notin R,
         \A a, b \in S : a # b => <<a, b>> \in R \/ <<b, a>> \in R,
         \A a, b, c \in S : <<a, b>> \in R /\ <<b, c>> \in R => <<a, c>> \in R
  PROVE  PlaceIn(S, R) \in Bijection(S, 0 .. Cardinality(S) - 1)
<1> DEFINE B(d) == Below(S, R, d)
           f == [d \in S |-> Cardinality(B(d))]
           n == Cardinality(S)
<1>0. /\ \A d \in S : B(d) \in SUBSET (S \ {d})
      /\ \A a, b \in S : <<a, b>> \in R => B(a) \cup {a} \in SUBSET B(b)
      /\ \A a, b \in S : a # b => <<a, b>> \in R \/ <<b, a>> \in R
  BY DEF Below
<1> HIDE DEF B
<1>1. n \in Nat /\ \A d \in S : IsFiniteSet(B(d)) /\ Cardinality(B(d)) \in Nat
  <2>1. \A d \in S : B(d) \in SUBSET S
    BY <1>0
  <2> QED BY <2>1, FS_CardinalityType, FS_Subset
<1>2. ASSUME NEW d \in S PROVE Cardinality(B(d)) <= n - 1
  <2>1. IsFiniteSet(S \ {d}) /\ Cardinality(S \ {d}) = n - 1
    BY FS_RemoveElement
  <2>2. Cardinality(B(d)) <= Cardinality(S \ {d})
    BY <1>0, <2>1, FS_Subset
  <2> QED BY <2>1, <2>2
<1>3. ASSUME NEW a \in S, NEW b \in S, <<a, b>> \in R PROVE Cardinality(B(a)) < Cardinality(B(b))
  <2>1. a \notin B(a) /\ B(a) \cup {a} \in SUBSET B(b)
    BY <1>0, <1>3
  <2>2. Cardinality(B(a) \cup {a}) = Cardinality(B(a)) + 1
    BY <1>1, <2>1, FS_AddElement
  <2>3. Cardinality(B(a) \cup {a}) <= Cardinality(B(b))
    BY <1>1, <2>1, FS_Subset
  <2> QED BY <1>1, <2>2, <2>3
<1> HIDE DEF n
<1>4. \A d \in S : Cardinality(B(d)) \in 0 .. n - 1
  BY <1>1, <1>2
<1>5. f \in Injection(S, 0 .. n - 1)
  <2>1. ASSUME NEW a \in S, NEW b \in S, f[a] = f[b] PROVE a = b
    <3>1. Cardinality(B(a)) = Cardinality(B(b))
      BY <2>1
    <3>2. <<a, b>> \notin R
      BY <1>1, <1>3, <3>1
    <3>3. <<b, a>> \notin R
      BY <1>1, <1>3, <3>1
    <3> QED BY <1>0, <3>2, <3>3
  <2> QED BY <1>4, <2>1 DEF Injection, IsInjective
<1>6. IsFiniteSet(0 .. n - 1) /\ Cardinality(0 .. n - 1) = n
  BY <1>1, FS_Interval
<1> HIDE DEF f
<1>7. f \in Surjection(S, 0 .. n - 1)
  BY <1>5, <1>6, FS_Injection DEF n
<1> QED BY <1>5, <1>7 DEF Bijection, PlaceIn, f, B, n

\* Whatever order a search chooses, each place is one document's.
LEMMA OrderIsBijection ==
  ASSUME NEW S, IsFiniteSet(S), NEW place \in Orders(S)
  PROVE  /\ Cardinality(S) \in Nat
         /\ place \in [S -> 0 .. Cardinality(S) - 1]
         /\ \A k \in 0 .. Cardinality(S) - 1 : \E d \in S : place[d] = k
         /\ \A d, e \in S : place[d] = place[e] => d = e
<1> DEFINE n == Cardinality(S)
<1>1. n \in Nat
  BY FS_CardinalityType
<1>2. /\ place \in [S -> 0 .. n - 1]
      /\ \A d, e \in S : place[d] = place[e] => d = e
  BY DEF Orders
<1> HIDE DEF n
<1>3. place \in Injection(S, 0 .. n - 1)
  BY <1>2 DEF Injection, IsInjective
<1>4. IsFiniteSet(0 .. n - 1) /\ Cardinality(0 .. n - 1) = n
  BY <1>1, FS_Interval
<1>5. place \in Surjection(S, 0 .. n - 1)
  BY <1>3, <1>4, FS_Injection DEF n
<1>6. \A k \in 0 .. n - 1 : \E d \in S : place[d] = k
  BY <1>5 DEF Surjection
<1> QED BY <1>1, <1>2, <1>6 DEF n

\* Storing more documents moves none to an earlier place.
LEMMA NewerGrow ==
  ASSUME NEW S, NEW T, IsFiniteSet(T), S \subseteq T, NEW d
  PROVE  /\ Cardinality(Newer(d, S)) \in Nat /\ Cardinality(Newer(d, T)) \in Nat
         /\ Cardinality(Newer(d, S)) <= Cardinality(Newer(d, T))
<1>1. Newer(d, S) \in SUBSET Newer(d, T) /\ Newer(d, T) \in SUBSET T
  BY DEF Newer
<1>2. IsFiniteSet(Newer(d, T))
  BY <1>1, FS_Subset
<1>3. IsFiniteSet(Newer(d, S)) /\ Cardinality(Newer(d, S)) <= Cardinality(Newer(d, T))
  BY <1>1, <1>2, FS_Subset
<1> QED BY <1>2, <1>3, FS_CardinalityType

\* A page that does not go past the last document is full.
LEMMA FullPage ==
  ASSUME NEW S, IsFiniteSet(S), NEW place \in Orders(S), NEW k \in Nat, NEW l \in Nat,
         k + l <= Cardinality(S)
  PROVE  Cardinality({e \in S : k <= place[e] /\ place[e] < k + l}) = l
<1> DEFINE P == {e \in S : k <= place[e] /\ place[e] < k + l}
           g == [e \in P |-> place[e]]
<1>1. g \in Bijection(P, k .. k + l - 1)
  <2>1. g \in Injection(P, k .. k + l - 1)
    <3>1. \A e \in P : place[e] \in k .. k + l - 1
      BY OrderIsBijection
    <3>2. \A a, b \in P : g[a] = g[b] => a = b
      BY OrderIsBijection
    <3> QED BY <3>1, <3>2 DEF Injection, IsInjective
  <2>2. \A j \in k .. k + l - 1 : \E e \in P : g[e] = j
    <3>1. SUFFICES ASSUME NEW j \in k .. k + l - 1 PROVE \E e \in P : g[e] = j
      OBVIOUS
    <3>2. j \in 0 .. Cardinality(S) - 1
      BY OrderIsBijection
    <3>3. PICK e \in S : place[e] = j
      BY <3>2, OrderIsBijection
    <3> QED BY <3>3
  <2> QED BY <2>1, <2>2 DEF Bijection, Injection, Surjection
<1>2. IsFiniteSet(P)
  BY FS_Subset
<1>3. IsFiniteSet(k .. k + l - 1) /\ Cardinality(k .. k + l - 1) = l
  BY FS_Interval
<1> HIDE DEF P, g
<1>4. Cardinality(P) = Cardinality(k .. k + l - 1)
  BY <1>1, <1>2, FS_Bijection DEF ExistsBijection
<1> QED BY <1>3, <1>4 DEF P

\* The first place after the documents newer than d goes to d or to one with its
\* timestamp.
LEMMA FirstOfTime ==
  ASSUME NEW S \in SUBSET Hit, IsFiniteSet(S), NEW place \in Orders(S), NEW d \in S
  PROVE  \E e \in S : e.time = d.time /\ place[e] = Cardinality(Newer(d, S))
<1> DEFINE N == Newer(d, S)
           k == Cardinality(N)
           n == Cardinality(S)
<1>1. /\ N \in SUBSET S /\ d \notin N /\ N \cup {d} \in SUBSET S
      /\ \A e \in S : e.time \in Int
      /\ \A e \in S : e \in N <=> e.time > d.time
  BY DEF Newer, Hit
<1> HIDE DEF N
<1>2. IsFiniteSet(N) /\ IsFiniteSet(N \cup {d}) /\ Cardinality(N \cup {d}) = k + 1
      /\ k \in Nat /\ n \in Nat
  BY <1>1, FS_Subset, FS_AddElement, FS_CardinalityType
<1>3. k + 1 <= n
  BY <1>1, <1>2, FS_Subset
<1>4. PICK e \in S : place[e] = k
  <2>1. k \in 0 .. n - 1
    BY <1>2, <1>3
  <2> QED BY <2>1, OrderIsBijection
<1>5. \A f \in S : place[f] \in Nat
  BY OrderIsBijection
<1>6. \A f, h \in S : f.time > h.time => place[f] < place[h]
  BY <1>1 DEF Orders
<1>7. ASSUME e.time > d.time PROVE FALSE
  <2> DEFINE P == {f \in S : 0 <= place[f] /\ place[f] < 0 + (k + 1)}
  <2>1. Cardinality(P) = k + 1
    BY <1>2, <1>3, FullPage
  <2>2. P \in SUBSET N
    BY <1>1, <1>2, <1>4, <1>5, <1>6, <1>7
  <2> HIDE DEF P
  <2>3. Cardinality(P) <= k
    BY <1>2, <2>2, FS_Subset
  <2> QED BY <1>2, <2>1, <2>3
<1>8. ASSUME e.time < d.time PROVE FALSE
  <2> DEFINE P == {f \in S : 0 <= place[f] /\ place[f] < 0 + k}
  <2>1. Cardinality(P) = k /\ P \in SUBSET S
    BY <1>2, <1>3, FullPage
  <2>2. N \cup {d} \in SUBSET P
    BY <1>1, <1>4, <1>5, <1>6, <1>8
  <2> HIDE DEF P
  <2>3. Cardinality(N \cup {d}) <= Cardinality(P)
    BY <2>1, <2>2, FS_Subset
  <2> QED BY <1>2, <2>1, <2>3
<1> QED BY <1>1, <1>4, <1>7, <1>8 DEF N

-----------------------------------------------------------------------------
(* Documents and what is stored of them. *)

\* The items of an index that it did not refuse.
Taken(p, x, failed) == {i \in Positions(p, x) : Document(p, x, i) \notin failed}

\* Each document is one item's, so as many items are taken as documents are
\* not refused.
LEMMA DocumentsTaken ==
  ASSUME NEW p \in Seq(Item), NEW x, NEW failed \in SUBSET Documents(p, x)
  PROVE  /\ IsFiniteSet(Taken(p, x, failed))
         /\ Cardinality(Taken(p, x, failed)) \in Nat
         /\ Cardinality(Documents(p, x) \ failed) = Cardinality(Taken(p, x, failed))
<1> DEFINE S == Positions(p, x)
           R == {q \in S \X S : q[1] < q[2]}
           f == PlaceIn(S, R)
<1>1. S \in SUBSET (1 .. Len(p))
  BY DEF Positions
<1>2. IsFiniteSet(S)
  BY <1>1, FS_Interval, FS_Subset
<1>3. f \in Bijection(S, Documents(p, x))
  <2>1. /\ \A a \in S : <<a, a>> \notin R
        /\ \A a, b \in S : a # b => <<a, b>> \in R \/ <<b, a>> \in R
        /\ \A a, b, c \in S : <<a, b>> \in R /\ <<b, c>> \in R => <<a, c>> \in R
    BY <1>1
  <2> HIDE DEF R
  <2> QED BY <1>2, <2>1, OrderedPlaces DEF Documents
<1>4. \A i \in S : f[i] = Document(p, x, i)
  <2>1. \A i \in S : Below(S, R, i) = {j \in S : j < i}
    BY DEF Below
  <2> QED BY <2>1 DEF Document, PlaceIn
<1> DEFINE T == Taken(p, x, failed)
           g == [i \in T |-> f[i]]
<1>5. T \in SUBSET S /\ \A i \in S : i \in T <=> f[i] \notin failed
  BY <1>4 DEF Taken
<1> HIDE DEF f, S, T
<1>6. g \in Bijection(T, Documents(p, x) \ failed)
  <2>1. g \in Injection(T, Documents(p, x) \ failed)
    BY <1>3, <1>5 DEF Bijection, Injection, IsInjective
  <2>2. \A d \in Documents(p, x) \ failed : \E i \in T : g[i] = d
    BY <1>3, <1>5 DEF Bijection, Surjection
  <2> QED BY <2>1, <2>2 DEF Bijection, Injection, Surjection
<1>7. IsFiniteSet(T) /\ Cardinality(T) \in Nat
  BY <1>2, <1>5, FS_Subset, FS_CardinalityType
<1>8. Cardinality(Documents(p, x) \ failed) = Cardinality(T)
  BY <1>6, <1>7, FS_Bijection DEF ExistsBijection
<1> QED BY <1>7, <1>8 DEF T

\* The indices after one took the items of p at the positions kept.
Grown(st, x, p, kept) == [st EXCEPT ![x] = @ \cup {HitOf(p[i]) : i \in kept}]

\* What it stores is what it took, and nothing of another request.
LEMMA StorageGrows ==
  ASSUME NEW st, Storage(st), NEW x \in Index, NEW p \in Seq(Item),
         Distinct([i \in DOMAIN p |-> p[i].name]),
         NEW kept \in SUBSET Positions(p, x)
  PROVE  /\ Storage(Grown(st, x, p, kept))
         /\ \A y \in Index : st[y] \subseteq Grown(st, x, p, kept)[y]
         /\ \A y \in Index : \A d \in Grown(st, x, p, kept)[y] : d \in st[y] \/ d.name \in Names(p)
         /\ \A i \in DOMAIN p : Has(Grown(st, x, p, kept), p[i]) <=> Has(st, p[i]) \/ i \in kept
         /\ \A item : item.name \notin Names(p) => (Has(Grown(st, x, p, kept), item) <=> Has(st, item))
<1> DEFINE st2 == Grown(st, x, p, kept)
           new == {HitOf(p[i]) : i \in kept}
<1>1. /\ kept \subseteq DOMAIN p /\ DOMAIN p = 1 .. Len(p)
      /\ \A i \in DOMAIN p : p[i] \in Item /\ (i \in kept => p[i].kind = x)
  BY DEF Positions
<1>2. new \subseteq Hit /\ \A d \in new : d.name \in Names(p)
  BY <1>1 DEF Names, Item, Hit, HitOf
<1>3. IsFiniteSet(new)
  <2>1. IsFiniteSet(kept)
    BY <1>1, FS_Interval, FS_Subset
  <2>2. [i \in kept |-> HitOf(p[i])] \in Surjection(kept, new)
    BY DEF Surjection
  <2> QED BY <2>1, <2>2, FS_Surjection
<1>4. /\ st2 \in [Index -> SUBSET Hit]
      /\ st2[x] = st[x] \cup new
      /\ \A y \in Index : y # x => st2[y] = st[y]
  BY <1>2 DEF Grown, Storage
<1>5. \A i \in DOMAIN p : HitOf(p[i]) \in new <=> i \in kept
  <2>1. \A i, j \in DOMAIN p : HitOf(p[i]) = HitOf(p[j]) => i = j
    BY DEF Distinct, HitOf
  <2> QED BY <1>1, <2>1
<1> HIDE DEF st2, new
<1>6. \A y \in Index : IsFiniteSet(st2[y])
  BY <1>3, <1>4, FS_Union DEF Storage
<1>7. \A y \in Index : \A d \in st2[y] : d \in st[y] \/ d.name \in Names(p)
  BY <1>2, <1>4
<1>8. ASSUME NEW i \in DOMAIN p PROVE Has(st2, p[i]) <=> Has(st, p[i]) \/ i \in kept
  BY <1>1, <1>4, <1>5 DEF Has
<1>9. ASSUME NEW item, item.name \notin Names(p) PROVE Has(st2, item) <=> Has(st, item)
  BY <1>2, <1>4, <1>9 DEF Has, HitOf
<1> QED BY <1>4, <1>6, <1>7, <1>8, <1>9 DEF Storage, st2

-----------------------------------------------------------------------------
(* What a request notes. *)

\* A request after _bulk_index answered, and after it failed.
Handled(r, failed) ==
  LET errors == r.errors \cup Reported(r.payload, r.stage, failed)
  IN  [r EXCEPT !.stage = NextStage(r),
                !.accepted = @ + Cardinality(Documents(r.payload, r.stage) \ failed),
                !.errors = errors,
                !.status = IF errors = {} THEN 200 ELSE 207]
Broken(r) == [r EXCEPT !.stage = "answered", !.status = 502]

LEMMA Noted ==
  ASSUME NEW r \in Request, NEW stage, NEW status, NEW accepted, NEW errors
  PROVE  [r EXCEPT !.stage = stage, !.accepted = accepted, !.errors = errors, !.status = status]
           = [payload |-> r.payload, stage |-> stage, status |-> status,
              accepted |-> accepted, errors |-> errors]
<1> DEFINE r1 == [r EXCEPT !.stage = stage]
           r2 == [r1 EXCEPT !.accepted = accepted]
           r3 == [r2 EXCEPT !.errors = errors]
           r4 == [r3 EXCEPT !.status = status]
<1>1. [r EXCEPT !.stage = stage, !.accepted = accepted, !.errors = errors, !.status = status] = r4
  OBVIOUS
<1>2. r1 = [payload |-> r.payload, stage |-> stage, status |-> r.status,
            accepted |-> r.accepted, errors |-> r.errors]
  BY DEF Request
<1> HIDE DEF r1
<1>3. r2 = [payload |-> r.payload, stage |-> stage, status |-> r.status,
            accepted |-> accepted, errors |-> r.errors]
  BY <1>2
<1> HIDE DEF r2
<1>4. r3 = [payload |-> r.payload, stage |-> stage, status |-> r.status,
            accepted |-> accepted, errors |-> errors]
  BY <1>3
<1> HIDE DEF r3
<1>5. r4 = [payload |-> r.payload, stage |-> stage, status |-> status,
            accepted |-> accepted, errors |-> errors]
  BY <1>4
<1> HIDE DEF r4
<1> QED BY <1>1, <1>5

LEMMA ReceivedIsExact ==
  ASSUME NEW st, NEW p \in Seq(Item), \A i \in DOMAIN p : ~Has(st, p[i])
  PROVE  Received(p) \in Request /\ ExactFor(st, Received(p))
<1>1. Received(p) \in Request
  BY DEF Received, Request, Positions, Index
<1>2. Kept(st, Received(p)) = {}
  BY DEF Kept, Received
<1>3. Cardinality(Kept(st, Received(p))) = 0
  BY <1>2, FS_EmptySet
<1>4. {"invalid"} \cup Done("event") = {"invalid"}
  BY DEF Done
<1>5. Received(p).errors = {i \in DOMAIN p : p[i].kind \in {"invalid"} \cup Done("event") /\ ~Has(st, p[i])}
  BY <1>4 DEF Received, Positions
<1>6. Received(p).errors \subseteq DOMAIN p
  BY DEF Received, Positions
<1> QED BY <1>1, <1>3, <1>5, <1>6 DEF ExactFor, Received

\* What is stored for other requests is nothing to this one.
LEMMA OthersStayExact ==
  ASSUME NEW st, NEW st2, NEW s, ExactFor(st, s),
         \A i \in DOMAIN s.payload : Has(st2, s.payload[i]) <=> Has(st, s.payload[i])
  PROVE  ExactFor(st2, s)
<1>1. Kept(st2, s) = Kept(st, s)
  BY DEF Kept
<1> QED BY <1>1 DEF ExactFor

LEMMA BrokenIsExact ==
  ASSUME NEW st, NEW st2, NEW r \in Request, ExactFor(st, r)
  PROVE  Broken(r) \in Request /\ ExactFor(st2, Broken(r))
<1>1. Broken(r) = [payload |-> r.payload, stage |-> "answered", status |-> 502,
                   accepted |-> r.accepted, errors |-> r.errors]
  <2> DEFINE r1 == [r EXCEPT !.stage = "answered"]
             r2 == [r1 EXCEPT !.status = 502]
  <2>1. Broken(r) = r2
    BY DEF Broken
  <2>2. r1 = [payload |-> r.payload, stage |-> "answered", status |-> r.status,
              accepted |-> r.accepted, errors |-> r.errors]
    BY DEF Request
  <2> HIDE DEF r1
  <2>3. r2 = [payload |-> r.payload, stage |-> "answered", status |-> 502,
              accepted |-> r.accepted, errors |-> r.errors]
    BY <2>2
  <2> HIDE DEF r2
  <2> QED BY <2>1, <2>3
<1>2. r.payload \in Seq(Item) /\ r.accepted \in Nat /\ r.errors \in SUBSET Nat
  BY DEF Request
<1>3. r.accepted \in 0 .. Len(r.payload) /\ r.errors \subseteq DOMAIN r.payload
  BY DEF ExactFor
<1>4. Broken(r) \in Request
  BY <1>1, <1>2 DEF Request
<1> QED BY <1>1, <1>3, <1>4 DEF ExactFor

LEMMA HandledIsExact ==
  ASSUME NEW st, NEW r \in Request, ExactFor(st, r), r.stage \in Index,
         NEW failed \in SUBSET Documents(r.payload, r.stage), NEW st2,
         \A i \in DOMAIN r.payload :
           Has(st2, r.payload[i]) <=> \/ Has(st, r.payload[i])
                                      \/ i \in Taken(r.payload, r.stage, failed)
  PROVE  Handled(r, failed) \in Request /\ ExactFor(st2, Handled(r, failed))
<1> DEFINE p == r.payload
           x == r.stage
           T == Taken(p, x, failed)
           s == Handled(r, failed)
           errors == r.errors \cup Reported(p, x, failed)
<1>1. /\ p \in Seq(Item) /\ DOMAIN p = 1 .. Len(p) /\ Len(p) \in Nat
      /\ r.accepted \in Nat /\ r.errors \in SUBSET Nat
  BY DEF Request
<1>2. /\ IsFiniteSet(T) /\ Cardinality(T) \in Nat
      /\ Cardinality(Documents(p, x) \ failed) = Cardinality(T)
  BY <1>1, DocumentsTaken
<1>3. s = [payload |-> p, stage |-> NextStage(r),
            status |-> IF errors = {} THEN 200 ELSE 207,
            accepted |-> r.accepted + Cardinality(T), errors |-> errors]
  <2> DEFINE a == r.accepted + Cardinality(Documents(p, x) \ failed)
             t == IF errors = {} THEN 200 ELSE 207
  <2>1. s = [r EXCEPT !.stage = NextStage(r), !.accepted = a, !.errors = errors, !.status = t]
    BY DEF Handled
  <2>2. a = r.accepted + Cardinality(T)
    BY <1>2
  <2> HIDE DEF a, t, errors, s, p, x
  <2>3. s = [payload |-> r.payload, stage |-> NextStage(r), status |-> t,
             accepted |-> a, errors |-> errors]
    BY ZenonT(30), <2>1, Noted
  <2> QED BY <2>2, <2>3 DEF p, t
<1>4. /\ T \subseteq DOMAIN p
      /\ Reported(p, x, failed) = {i \in DOMAIN p : p[i].kind = x /\ i \notin T}
      /\ \A i \in T : p[i].kind = x
  BY DEF Taken, Reported, Positions
<1>5. /\ Done(NextStage(r)) = Done(x) \cup {x}
      /\ x \notin Done(x) /\ x # "invalid" /\ "invalid" \notin Done(x)
      /\ NextStage(r) \in {"safety", "answered"}
  BY DEF Done, NextStage, Index
<1>6. s \in Request
  <2>1. errors \in SUBSET Nat
    BY <1>1, <1>4
  <2> QED BY <1>1, <1>2, <1>3, <1>5, <2>1 DEF Request, Index
<1>7. r.status # 502
  BY DEF ExactFor, Index
<1>8. \A i \in DOMAIN p : p[i].kind = x => ~Has(st, p[i])
  BY <1>5, <1>7 DEF ExactFor
<1>9. errors = {i \in DOMAIN p : /\ p[i].kind \in {"invalid"} \cup Done(NextStage(r))
                                 /\ ~Has(st2, p[i])}
  <2>1. r.errors = {i \in DOMAIN p : /\ p[i].kind \in {"invalid"} \cup Done(x)
                                     /\ ~Has(st, p[i])}
    BY <1>7 DEF ExactFor
  <2> QED BY <1>4, <1>5, <1>8, <2>1
<1>10. Cardinality(Kept(st2, s)) = s.accepted /\ s.accepted \in 0 .. Len(p)
  <2> DEFINE K == Kept(st, r)
  <2>1. Kept(st2, s) = K \cup T
    <3>1. Kept(st2, s) = {i \in DOMAIN p : p[i].kind \in Done(x) \cup {x} /\ Has(st2, p[i])}
      BY <1>3, <1>5 DEF Kept
    <3> QED BY <1>4, <1>5, <1>8, <3>1 DEF Kept
  <2>2. K \cap T = {}
    BY <1>4, <1>5 DEF Kept
  <2>3. K \in SUBSET (1 .. Len(p)) /\ K \cup T \in SUBSET (1 .. Len(p))
    BY <1>1, <1>4 DEF Kept
  <2>4. Cardinality(K) = r.accepted
    BY <1>7 DEF ExactFor
  <2>5. IsFiniteSet(1 .. Len(p)) /\ Cardinality(1 .. Len(p)) = Len(p)
    BY SMTT(20), <1>1, FS_Interval
  <2>9. s.accepted = r.accepted + Cardinality(T)
    BY <1>3
  <2> HIDE DEF K, T, s, p
  <2>6. IsFiniteSet(K) /\ IsFiniteSet(K \cup T) /\ Cardinality(K \cup T) <= Len(p)
    BY <2>3, <2>5, FS_Subset
  <2>7. Cardinality(K \cup T) = Cardinality(K) + Cardinality(T) - Cardinality({})
    BY <1>2, <2>2, <2>6, FS_Union
  <2>8. Cardinality({}) = 0
    BY FS_EmptySet
  <2> QED BY <1>1, <1>2, <2>1, <2>4, <2>6, <2>7, <2>8, <2>9
<1>11. \A i \in DOMAIN p : p[i].kind \notin Done(NextStage(r)) => ~Has(st2, p[i])
  <2>1. \A i \in DOMAIN p : p[i].kind \notin Done(x) => ~Has(st, p[i])
    BY <1>7 DEF ExactFor
  <2> QED BY <1>4, <1>5, <2>1
<1> HIDE DEF s, errors
<1>12. s.status # 502 /\ (s.status = 200 <=> s.errors = {})
  BY <1>3
<1>13. s.errors \subseteq DOMAIN p
  BY <1>3, <1>9
<1> QED BY <1>3, <1>6, <1>9, <1>10, <1>11, <1>12, <1>13 DEF ExactFor, s

-----------------------------------------------------------------------------
(* Readers. *)

Lists == [kind : {"list", "listed"}, index : Index, range : Ranges,
          page : Nat, unseen : SUBSET Hit, torn : SUBSET Int]
Files == [kind : {"scroll", "file", "cut"}, unseen : SUBSET Hit]

LEMMA ReadingKinds ==
  ASSUME NEW rd \in Reading
  PROVE  /\ rd = Closed \/ rd \in Lists \/ rd \in Files
         /\ rd.kind \in {"list", "listed"} => rd \in Lists
         /\ rd.kind \in {"scroll", "file", "cut"} => rd \in Files
         /\ rd.kind \in {"closed", "list", "listed", "scroll", "file", "cut"}
<1>1. rd = Closed \/ rd \in Lists \/ rd \in Files
  BY DEF Reading, Lists, Files
<1>2. Closed.kind = "closed"
  BY DEF Closed
<1>3. rd \in Lists => rd.kind \in {"list", "listed"}
  BY DEF Lists
<1>4. rd \in Files => rd.kind \in {"scroll", "file", "cut"}
  BY DEF Files
<1> QED BY <1>1, <1>2, <1>3, <1>4

LEMMA ListFields ==
  ASSUME NEW rd \in Lists, NEW k
  PROVE  [rd EXCEPT !.kind = k]
           = [kind |-> k, index |-> rd.index, range |-> rd.range, page |-> rd.page,
              unseen |-> rd.unseen, torn |-> rd.torn]
<1>1. rd = [kind |-> rd.kind, index |-> rd.index, range |-> rd.range, page |-> rd.page,
            unseen |-> rd.unseen, torn |-> rd.torn]
  BY DEF Lists
<1> QED BY <1>1

LEMMA FileFields ==
  ASSUME NEW rd \in Files, NEW k
  PROVE  [rd EXCEPT !.kind = k] = [kind |-> k, unseen |-> rd.unseen]
<1>1. rd = [kind |-> rd.kind, unseen |-> rd.unseen]
  BY DEF Files
<1> QED BY <1>1

LEMMA FittingIsFinite ==
  ASSUME NEW st, Storage(st), NEW x \in Index, NEW range
  PROVE  Fitting(st, x, range) \in SUBSET Hit /\ IsFiniteSet(Fitting(st, x, range))
<1>1. Fitting(st, x, range) \in SUBSET st[x] /\ st[x] \in SUBSET Hit /\ IsFiniteSet(st[x])
  BY DEF Fitting, Storage
<1> QED BY <1>1, FS_Subset

\* What is stored in the meantime moves what a reader waits for to later pages.
LEMMA ReadsGrow ==
  ASSUME NEW st, NEW st2, Storage(st2), \A y \in Index : st[y] \subseteq st2[y],
         NEW rd \in Reading, ReadsFor(st, rd)
  PROVE  ReadsFor(st2, rd)
<1>1. ASSUME rd.kind = "list"
      PROVE  LET docs == Fitting(st2, rd.index, rd.range)
             IN  /\ rd.page > 0 /\ rd.unseen \subseteq docs
                 /\ \A d \in rd.unseen :
                      \/ d.time \in rd.torn
                      \/ Cardinality(Newer(d, docs)) >= (rd.page - 1) * Limit
  <2> DEFINE old == Fitting(st, rd.index, rd.range)
             docs == Fitting(st2, rd.index, rd.range)
             n == (rd.page - 1) * Limit
  <2>1. rd \in Lists
    BY <1>1, ReadingKinds
  <2>2. rd.index \in Index /\ rd.page \in Nat
    BY <2>1 DEF Lists
  <2>3. IsFiniteSet(docs)
    BY <2>2, FittingIsFinite
  <2>4. old \subseteq docs
    BY <2>2 DEF Fitting
  <2>5. /\ rd.page > 0 /\ rd.unseen \subseteq old
        /\ \A d \in rd.unseen : d.time \in rd.torn \/ Cardinality(Newer(d, old)) >= n
    BY <1>1 DEF ReadsFor
  <2>6. n \in Int
    BY <2>2, AnalyticsAssumption
  <2> HIDE DEF old, docs, n
  <2>7. ASSUME NEW d \in rd.unseen PROVE d.time \in rd.torn \/ Cardinality(Newer(d, docs)) >= n
    <3>1. /\ Cardinality(Newer(d, old)) \in Nat /\ Cardinality(Newer(d, docs)) \in Nat
          /\ Cardinality(Newer(d, old)) <= Cardinality(Newer(d, docs))
      BY <2>3, <2>4, NewerGrow
    <3> QED BY <2>5, <2>6, <3>1
  <2> QED BY <2>4, <2>5, <2>7 DEF docs, n
<1> QED BY <1>1 DEF ReadsFor

\* The list after a page turned.
Turned(rd, rows, docs) ==
  [rd EXCEPT !.kind = IF Cardinality(rows) < Limit THEN "listed" ELSE "list",
             !.page = @ + 1,
             !.unseen = @ \ rows,
             !.torn = @ \cup Torn(rows, docs)]

LEMMA TurnedIs ==
  ASSUME NEW rd \in Lists, NEW rows, NEW docs
  PROVE  Turned(rd, rows, docs)
           = [kind |-> IF Cardinality(rows) < Limit THEN "listed" ELSE "list",
              index |-> rd.index, range |-> rd.range, page |-> rd.page + 1,
              unseen |-> rd.unseen \ rows, torn |-> rd.torn \cup Torn(rows, docs)]
<1> DEFINE k == IF Cardinality(rows) < Limit THEN "listed" ELSE "list"
           n == rd.page + 1
           rest == rd.unseen \ rows
           cuts == rd.torn \cup Torn(rows, docs)
           r1 == [rd EXCEPT !.kind = k]
           r2 == [r1 EXCEPT !.page = n]
           r3 == [r2 EXCEPT !.unseen = rest]
           r4 == [r3 EXCEPT !.torn = cuts]
<1>1. Turned(rd, rows, docs) = r4
  BY DEF Turned, Lists
<1> HIDE DEF k, n, rest, cuts
<1>2. r1 = [kind |-> k, index |-> rd.index, range |-> rd.range, page |-> rd.page,
            unseen |-> rd.unseen, torn |-> rd.torn]
  BY ListFields
<1> HIDE DEF r1
<1>3. r2 = [kind |-> k, index |-> rd.index, range |-> rd.range, page |-> n,
            unseen |-> rd.unseen, torn |-> rd.torn]
  BY <1>2
<1> HIDE DEF r2
<1>4. r3 = [kind |-> k, index |-> rd.index, range |-> rd.range, page |-> n,
            unseen |-> rest, torn |-> rd.torn]
  BY <1>3
<1> HIDE DEF r3
<1>5. r4 = [kind |-> k, index |-> rd.index, range |-> rd.range, page |-> n,
            unseen |-> rest, torn |-> cuts]
  BY <1>4
<1> HIDE DEF r4
<1> QED BY <1>1, <1>5 DEF k, n, rest, cuts

\* A page that is not full is the last: what the reader waited for is on it, or
\* the page shows others of its timestamp.
LEMMA TurnedReads ==
  ASSUME NEW st, Storage(st), NEW rd \in Reading, rd.kind = "list", ReadsFor(st, rd),
         NEW place \in Orders(Fitting(st, rd.index, rd.range)),
         NEW rows, rows = Page(place, rd.page),
         NEW s, s = Turned(rd, rows, Fitting(st, rd.index, rd.range))
  PROVE  s \in Reading /\ ReadsFor(st, s)
<1> DEFINE docs == Fitting(st, rd.index, rd.range)
           k == (rd.page - 1) * Limit
           l == Limit
           torn == rd.torn \cup Torn(rows, docs)
<1>1. rd \in Lists
  BY ReadingKinds
<1>2. rd.index \in Index /\ rd.page \in Nat /\ rd.unseen \subseteq Hit /\ rd.torn \subseteq Int
  BY <1>1 DEF Lists
<1>3. docs \in SUBSET Hit /\ IsFiniteSet(docs) /\ place \in Orders(docs)
  BY <1>2, FittingIsFinite
<1>4. /\ rd.page > 0 /\ rd.unseen \subseteq docs
      /\ \A d \in rd.unseen : d.time \in rd.torn \/ Cardinality(Newer(d, docs)) >= k
  BY DEF ReadsFor
<1>5. l \in Nat /\ k \in Nat /\ rd.page * Limit = k + l
  <2>1. Limit \in Nat /\ rd.page - 1 \in Nat /\ rd.page = (rd.page - 1) + 1
    BY <1>2, <1>4, AnalyticsAssumption
  <2>2. \A i, j \in Nat : i * j \in Nat /\ (i + 1) * j = i * j + j
    OBVIOUS
  <2> QED BY <2>1, <2>2
<1>6. s = [kind |-> IF Cardinality(rows) < Limit THEN "listed" ELSE "list",
           index |-> rd.index, range |-> rd.range, page |-> rd.page + 1,
           unseen |-> rd.unseen \ rows, torn |-> torn]
  BY <1>1, TurnedIs
<1> HIDE DEF docs, k, l, torn
<1>7. DOMAIN place = docs
  BY <1>3 DEF Orders
<1>8. rows = {e \in docs : k <= place[e] /\ place[e] < k + l}
  <2>1. rows = {e \in docs : (rd.page - 1) * Limit <= place[e] /\ place[e] < rd.page * Limit}
    BY <1>7 DEF Page
  <2> QED BY <1>5, <2>1 DEF k
<1>9. /\ Cardinality(docs) \in Nat
      /\ \A e \in docs : place[e] \in Nat /\ place[e] + 1 <= Cardinality(docs)
  BY <1>3, OrderIsBijection
<1>10. ASSUME NEW d \in rd.unseen \ rows, d.time \notin torn
       PROVE  Cardinality(Newer(d, docs)) >= k + l /\ Cardinality(rows) = l
  <2>1. d \in docs \ rows /\ Cardinality(Newer(d, docs)) >= k
    BY <1>4, <1>10 DEF torn
  <2>2. PICK e \in docs : e.time = d.time /\ place[e] = Cardinality(Newer(d, docs))
    BY <1>3, <2>1, FirstOfTime
  <2>3. e \notin rows
    BY <1>10, <2>1, <2>2 DEF torn, Torn
  <2>4. place[e] >= k + l
    BY <1>5, <1>8, <1>9, <2>1, <2>2, <2>3
  <2>5. k + l <= Cardinality(docs)
    BY <1>5, <1>9, <2>4
  <2> QED BY <1>3, <1>5, <1>8, <2>2, <2>4, <2>5, FullPage
<1>11. Torn(rows, docs) \subseteq Int
  BY <1>3, <1>8 DEF Torn, Hit
<1>12. s \in Reading
  <2>1. s \in Lists
    <3>1. rd.range \in Ranges
      BY <1>1 DEF Lists
    <3>2. rd.page + 1 \in Nat /\ rd.unseen \ rows \in SUBSET Hit /\ torn \in SUBSET Int
      BY <1>2, <1>11 DEF torn
    <3> QED BY <1>2, <1>6, <3>1, <3>2 DEF Lists
  <2> QED BY <2>1 DEF Lists, Reading
<1>13. ASSUME s.kind = "list" PROVE ReadsFor(st, s)
  <2>1. rd.page + 1 > 0 /\ (s.page - 1) * Limit = k + l
    <3>1. s.page = rd.page + 1
      BY <1>6
    <3>2. s.page - 1 = rd.page
      BY <1>2, <3>1
    <3> QED BY <1>2, <1>5, <3>2
  <2>2. Fitting(st, s.index, s.range) = docs
    BY <1>6 DEF docs
  <2>3. s.page > 0 /\ s.unseen \subseteq docs
    BY <1>4, <1>6, <2>1
  <2>4. \A d \in s.unseen : d.time \in s.torn \/ Cardinality(Newer(d, docs)) >= (s.page - 1) * Limit
    BY <1>6, <1>10, <2>1
  <2> QED BY <1>13, <2>2, <2>3, <2>4 DEF ReadsFor
<1>14. ASSUME s.kind = "listed" PROVE ReadsFor(st, s)
  <2>1. Cardinality(rows) # l
    BY <1>5, <1>6, <1>14 DEF l
  <2>2. \A d \in s.unseen : d.time \in s.torn
    BY <1>6, <1>10, <2>1
  <2> QED BY <1>14, <2>2 DEF ReadsFor
<1>15. s.kind \in {"list", "listed"}
  BY <1>6
<1> QED BY <1>12, <1>13, <1>14, <1>15

\* The scroll after an answer.
Scrolled(rd, rows) ==
  [rd EXCEPT !.kind = IF rows = {} THEN "file" ELSE "scroll", !.unseen = @ \ rows]

\* An empty answer of the scroll is its last: the file holds what was found.
LEMMA ScrolledReads ==
  ASSUME NEW st, NEW rd \in Reading, rd.kind = "scroll", ReadsFor(st, rd),
         NEW place \in Orders(rd.unseen), NEW rows, rows = Page(place, 1),
         NEW s, s = Scrolled(rd, rows)
  PROVE  s \in Reading /\ ReadsFor(st, s)
<1> DEFINE left == rd.unseen
<1>1. rd \in Files
  BY ReadingKinds
<1>2. left \in SUBSET Hit /\ IsFiniteSet(left) /\ place \in Orders(left)
  BY <1>1 DEF Files, ReadsFor
<1>3. ASSUME rows = {} PROVE left = {}
  <2>1. SUFFICES ASSUME left # {} PROVE FALSE
    OBVIOUS
  <2> HIDE DEF left
  <2>2. Cardinality(left) \in Nat /\ Cardinality(left) # 0
    BY <1>2, <2>1, FS_EmptySet, FS_CardinalityType
  <2>3. PICK d \in left : place[d] = 0
    <3>1. 0 \in 0 .. Cardinality(left) - 1
      BY <2>2
    <3> QED BY <1>2, <3>1, OrderIsBijection
  <2>4. (1 - 1) * Limit = 0 /\ 1 * Limit = Limit /\ Limit > 0
    BY AnalyticsAssumption
  <2>5. d \in Page(place, 1)
    BY <1>2, <2>3, <2>4 DEF Page, Orders
  <2> QED BY <1>3, <2>5
<1>4. s = [kind |-> IF rows = {} THEN "file" ELSE "scroll", unseen |-> left \ rows]
  <2> DEFINE k == IF rows = {} THEN "file" ELSE "scroll"
             rest == rd.unseen \ rows
             r1 == [rd EXCEPT !.kind = k]
             r2 == [r1 EXCEPT !.unseen = rest]
  <2>1. s = r2
    BY <1>1 DEF Files, Scrolled
  <2> HIDE DEF k, rest
  <2>2. r1 = [kind |-> k, unseen |-> rd.unseen]
    BY <1>1, FileFields
  <2> HIDE DEF r1
  <2>3. r2 = [kind |-> k, unseen |-> rest]
    BY <2>2
  <2> HIDE DEF r2
  <2> QED BY <2>1, <2>3 DEF k, rest
<1> HIDE DEF left
<1>5. left \ rows \in SUBSET Hit /\ IsFiniteSet(left \ rows)
  BY <1>2, FS_Subset
<1>6. s.kind \in {"scroll", "file"} /\ (s.kind = "file" => rows = {}) /\ s.unseen = left \ rows
  BY <1>4
<1>7. s \in Reading
  BY <1>4, <1>5 DEF Reading
<1> QED BY <1>3, <1>5, <1>6, <1>7 DEF ReadsFor

-----------------------------------------------------------------------------
(* The steps of the backend. *)

LEMMA ApartReplaced ==
  ASSUME NEW rs, NEW st, NEW ps, ApartIn(rs, st, ps), NEW r \in rs,
         NEW s, s.payload = r.payload, NEW st2,
         \A y \in Index : \A d \in st2[y] : d \in st[y] \/ d.name \in Names(r.payload)
  PROVE  ApartIn((rs \ {r}) \cup {s}, st2, ps)
<1> DEFINE rs2 == (rs \ {r}) \cup {s}
<1>1. \A q \in rs2 : Distinct([i \in DOMAIN q.payload |-> q.payload[i].name])
  BY DEF ApartIn
<1>2. ASSUME NEW a \in rs2, NEW b \in rs2, Names(a.payload) \cap Names(b.payload) # {}
      PROVE  a = b
  BY <1>2 DEF ApartIn
<1>3. ASSUME NEW e \in Events, ps[e] = 0
      PROVE  /\ \A q \in rs2 : e \notin Names(q.payload)
             /\ \A x \in Index : \A d \in st2[x] : d.name # e
  BY <1>3 DEF ApartIn
<1> QED BY <1>1, <1>2, <1>3 DEF ApartIn

\* A stage is over: the request r goes on as s.
LEMMA StoreStep ==
  ASSUME IInv, NEW r \in requests, r.stage \in Index,
         NEW kept \in SUBSET Positions(r.payload, r.stage),
         NEW st2, st2 = Grown(stored, r.stage, r.payload, kept),
         NEW s \in Request, s.payload = r.payload, ExactFor(st2, s),
         stored' = st2, Replace(r, s), UNCHANGED <<reading, shipVars>>
  PROVE  IInv'
<1> DEFINE p == r.payload
<1>1. /\ requests \subseteq Request /\ Storage(stored) /\ reading \in Reading
      /\ ApartIn(requests, stored, posts)
      /\ \A q \in requests : ExactFor(stored, q)
      /\ ReadsFor(stored, reading)
  BY DEF IInv, BackendTypes, Apart, Exact, Reads
<1>2. p \in Seq(Item) /\ Distinct([i \in DOMAIN p |-> p[i].name])
  BY <1>1 DEF Request, ApartIn
<1>3. /\ Storage(st2)
      /\ \A y \in Index : stored[y] \subseteq st2[y]
      /\ \A y \in Index : \A d \in st2[y] : d \in stored[y] \/ d.name \in Names(p)
      /\ \A item : item.name \notin Names(p) => (Has(st2, item) <=> Has(stored, item))
  BY <1>1, <1>2, StorageGrows
<1>4. ApartIn((requests \ {r}) \cup {s}, st2, posts)
  BY <1>1, <1>3, ApartReplaced
<1>5. ASSUME NEW q \in requests \ {r} PROVE ExactFor(st2, q)
  <2>1. Names(q.payload) \cap Names(p) = {}
    BY <1>1 DEF ApartIn
  <2>2. \A i \in DOMAIN q.payload : q.payload[i].name \notin Names(p)
    BY <2>1 DEF Names
  <2>3. \A i \in DOMAIN q.payload : Has(st2, q.payload[i]) <=> Has(stored, q.payload[i])
    BY <1>3, <2>2
  <2> QED BY <1>1, <2>3, OthersStayExact
<1>6. ReadsFor(st2, reading)
  BY <1>1, <1>3, ReadsGrow
<1>7. requests' = (requests \ {r}) \cup {s}
  BY DEF Replace
<1>8. BackendTypes'
  BY <1>1, <1>3, <1>7 DEF BackendTypes
<1>9. Apart'
  BY <1>4, <1>7 DEF Apart, shipVars
<1>10. Exact'
  BY <1>5, <1>7 DEF Exact
<1>11. Reads'
  BY <1>6 DEF Reads
<1>12. ClientTypes' /\ Ships' /\ InHand'
  BY DEF IInv, ClientTypes, Ships, InHand, shipVars, journalVars, queueVars, Threads
<1> QED BY <1>8, <1>9, <1>10, <1>11, <1>12 DEF IInv

LEMMA BulkIndexKeeps ==
  ASSUME IInv, NEW r \in requests, BulkIndex(r), UNCHANGED shipVars
  PROVE  IInv'
<1>1. PICK failed \in SUBSET Documents(r.payload, r.stage) :
        /\ stored' = Grown(stored, r.stage, r.payload, Taken(r.payload, r.stage, failed))
        /\ Replace(r, Handled(r, failed))
  BY DEF BulkIndex, Grown, Taken, Handled
<1>2. r.stage \in Index /\ UNCHANGED reading
  BY DEF BulkIndex
<1> DEFINE T == Taken(r.payload, r.stage, failed)
           st2 == Grown(stored, r.stage, r.payload, T)
           s == Handled(r, failed)
<1>3. /\ r \in Request /\ Storage(stored) /\ ExactFor(stored, r)
      /\ Distinct([i \in DOMAIN r.payload |-> r.payload[i].name])
  BY DEF IInv, BackendTypes, Apart, ApartIn, Exact
<1>4. r.payload \in Seq(Item)
  BY <1>3 DEF Request
<1>5. T \in SUBSET Positions(r.payload, r.stage)
  BY DEF Taken
<1>6. \A i \in DOMAIN r.payload : Has(st2, r.payload[i]) <=> Has(stored, r.payload[i]) \/ i \in T
  BY <1>2, <1>3, <1>4, <1>5, StorageGrows
<1>7. s \in Request /\ ExactFor(st2, s)
  BY <1>2, <1>3, <1>6, HandledIsExact
<1>8. s.payload = r.payload
  BY <1>3, Noted DEF Handled
<1> HIDE DEF T, st2, s
<1> QED BY <1>1, <1>2, <1>5, <1>7, <1>8, StoreStep DEF T, st2, s

LEMMA BulkFailsKeeps ==
  ASSUME IInv, NEW r \in requests, BulkFails(r), UNCHANGED shipVars
  PROVE  IInv'
<1>1. PICK kept \in SUBSET Positions(r.payload, r.stage) :
        /\ stored' = Grown(stored, r.stage, r.payload, kept)
        /\ Replace(r, Broken(r))
  BY DEF BulkFails, Grown, Broken
<1>2. r.stage \in Index /\ UNCHANGED reading
  BY DEF BulkFails
<1>3. r \in Request /\ ExactFor(stored, r)
  BY DEF IInv, BackendTypes, Exact
<1>4. Broken(r) \in Request /\ ExactFor(Grown(stored, r.stage, r.payload, kept), Broken(r))
  BY <1>3, BrokenIsExact
<1>5. Broken(r).payload = r.payload
  BY <1>3 DEF Broken, Request
<1> QED BY <1>1, <1>2, <1>4, <1>5, StoreStep

LEMMA RespondKeeps ==
  ASSUME IInv, NEW r \in requests, Respond(r), UNCHANGED shipVars
  PROVE  IInv'
<1>1. requests' \subseteq requests /\ stored' = stored /\ reading' = reading /\ posts' = posts
  BY DEF Respond, shipVars
<1>2. BackendTypes' /\ Exact' /\ Reads'
  BY <1>1 DEF IInv, BackendTypes, Exact, Reads
<1>3. Apart'
  BY <1>1 DEF IInv, Apart, ApartIn
<1>4. ClientTypes' /\ Ships' /\ InHand'
  BY DEF IInv, ClientTypes, Ships, InHand, shipVars, journalVars, queueVars, Threads
<1> QED BY <1>2, <1>3, <1>4 DEF IInv

\* A step of the reader leaves the rest as it is.
LEMMA ReaderStep ==
  ASSUME IInv, NEW s \in Reading, ReadsFor(stored, s), reading' = s,
         UNCHANGED <<requests, stored, shipVars>>
  PROVE  IInv'
<1>1. BackendTypes' /\ Exact' /\ Reads'
  BY DEF IInv, BackendTypes, Exact, Reads
<1>2. Apart' /\ ClientTypes' /\ Ships' /\ InHand'
  BY DEF IInv, Apart, ClientTypes, Ships, InHand, shipVars, journalVars, queueVars, Threads
<1> QED BY <1>1, <1>2 DEF IInv

LEMMA MatchingIsFitting ==
  ASSUME NEW x, NEW range
  PROVE  Matching({x}, range) = Fitting(stored, x, range)
BY DEF Matching, Fitting

LEMMA ReadersKeep ==
  ASSUME IInv, UNCHANGED shipVars,
         \/ \E x \in Index, range \in Ranges : OpenList(x, range)
         \/ \E indices \in {{"event"}, {"safety"}, Index}, range \in Ranges : Download(indices, range)
         \/ TurnPage \/ Scroll \/ ScrollFails
  PROVE  IInv'
<1>1. Storage(stored) /\ reading \in Reading /\ ReadsFor(stored, reading)
  BY DEF IInv, BackendTypes, Reads
<1>2. ASSUME NEW x \in Index, NEW range \in Ranges, OpenList(x, range) PROVE IInv'
  <2> DEFINE docs == Fitting(stored, x, range)
             s == [kind |-> "list", index |-> x, range |-> range, page |-> 1,
                   unseen |-> docs, torn |-> {}]
  <2>1. reading' = s /\ UNCHANGED <<requests, stored>>
    BY <1>2, MatchingIsFitting DEF OpenList
  <2>2. docs \in SUBSET Hit /\ IsFiniteSet(docs)
    BY <1>1, FittingIsFinite
  <2>3. \A d \in docs : Cardinality(Newer(d, docs)) >= (1 - 1) * Limit
    <3>1. (1 - 1) * Limit = 0
      BY AnalyticsAssumption
    <3> QED BY <2>2, <3>1, NewerGrow
  <2>4. s \in Reading
    BY <2>2 DEF Reading
  <2>5. ReadsFor(stored, s)
    BY <2>3 DEF ReadsFor
  <2> HIDE DEF s
  <2> QED BY <2>1, <2>4, <2>5, ReaderStep
<1>3. ASSUME NEW indices \in {{"event"}, {"safety"}, Index}, NEW range \in Ranges,
             Download(indices, range)
      PROVE  IInv'
  <2> DEFINE docs == Matching(indices, range)
             s == [kind |-> "scroll", unseen |-> docs]
  <2>1. reading' = s /\ UNCHANGED <<requests, stored>>
    BY <1>3 DEF Download
  <2>2. docs \in SUBSET (stored["event"] \cup stored["safety"])
    BY DEF Matching, Index
  <2>3. /\ stored["event"] \cup stored["safety"] \subseteq Hit
        /\ IsFiniteSet(stored["event"] \cup stored["safety"])
    BY <1>1, FS_Union DEF Storage, Index
  <2> HIDE DEF docs
  <2>4. docs \in SUBSET Hit /\ IsFiniteSet(docs)
    BY <2>2, <2>3, FS_Subset
  <2>5. s \in Reading
    BY <2>4 DEF Reading
  <2>6. ReadsFor(stored, s)
    BY <2>4 DEF ReadsFor
  <2> HIDE DEF s
  <2> QED BY <2>1, <2>5, <2>6, ReaderStep
<1>4. CASE TurnPage
  <2> DEFINE docs == Fitting(stored, reading.index, reading.range)
  <2>1. reading.kind = "list" /\ UNCHANGED <<requests, stored>>
    BY <1>4 DEF TurnPage
  <2>2. PICK place \in Orders(docs) : reading' = Turned(reading, Page(place, reading.page), docs)
    BY <1>4, MatchingIsFitting DEF TurnPage, Turned
  <2>3. reading' \in Reading /\ ReadsFor(stored, reading')
    BY <1>1, <2>1, <2>2, TurnedReads
  <2> QED BY <2>1, <2>3, ReaderStep
<1>5. CASE Scroll
  <2>1. reading.kind = "scroll" /\ UNCHANGED <<requests, stored>>
    BY <1>5 DEF Scroll
  <2>2. PICK place \in Orders(reading.unseen) :
          reading' = Scrolled(reading, Page(place, 1))
    BY <1>5 DEF Scroll, Scrolled
  <2>3. reading' \in Reading /\ ReadsFor(stored, reading')
    BY <1>1, <2>1, <2>2, ScrolledReads
  <2> QED BY <2>1, <2>3, ReaderStep
<1>6. CASE ScrollFails
  <2> DEFINE s == [reading EXCEPT !.kind = "cut"]
  <2>1. /\ reading.kind = "scroll" /\ reading' = s
        /\ UNCHANGED <<requests, stored>>
    BY <1>6 DEF ScrollFails
  <2>2. reading \in Files
    BY <1>1, <2>1, ReadingKinds
  <2>3. s = [kind |-> "cut", unseen |-> reading.unseen]
    BY <2>2, FileFields
  <2> HIDE DEF s
  <2>4. s \in Reading /\ s.kind = "cut"
    BY <2>2, <2>3 DEF Files, Reading
  <2>5. ReadsFor(stored, s)
    BY <2>4 DEF ReadsFor
  <2> QED BY <2>1, <2>4, <2>5, ReaderStep
<1> QED BY <1>2, <1>3, <1>4, <1>5, <1>6

LEMMA BackendKeeps ==
  ASSUME IInv, AnalyticsStep, UNCHANGED shipVars
  PROVE  IInv'
<1>1. CASE \E r \in requests : BulkIndex(r) \/ BulkFails(r) \/ Respond(r)
  BY <1>1, BulkIndexKeeps, BulkFailsKeeps, RespondKeeps
<1>2. CASE ~ \E r \in requests : BulkIndex(r) \/ BulkFails(r) \/ Respond(r)
  BY <1>2, ReadersKeep DEF AnalyticsStep
<1> QED BY <1>1, <1>2

-----------------------------------------------------------------------------
(* The steps of the clients. *)

LEMMA EmptyElements == Elements(<<>>) = {} /\ Distinct(<<>>)
BY DEF Elements, Distinct

LEMMA AppendElements ==
  ASSUME NEW s \in Seq(Events), NEW e \in Events, Distinct(s), e \notin Elements(s)
  PROVE  /\ Append(s, e) \in Seq(Events) /\ Len(Append(s, e)) = Len(s) + 1
         /\ Elements(Append(s, e)) = Elements(s) \cup {e}
         /\ Distinct(Append(s, e))
<1> DEFINE t == Append(s, e)
<1>1. /\ t \in Seq(Events) /\ Len(t) = Len(s) + 1 /\ DOMAIN t = 1 .. Len(s) + 1
      /\ DOMAIN s = 1 .. Len(s) /\ Len(s) \in Nat
      /\ t[Len(s) + 1] = e /\ \A i \in 1 .. Len(s) : t[i] = s[i]
  OBVIOUS
<1> HIDE DEF t
<1>2. DOMAIN t = DOMAIN s \cup {Len(s) + 1} /\ Len(s) + 1 \notin DOMAIN s
  BY <1>1
<1>3. Elements(t) = Elements(s) \cup {e}
  BY <1>1, <1>2 DEF Elements
<1>4. Distinct(t)
  <2>1. \A i \in DOMAIN s : t[i] = s[i] /\ t[i] # e
    BY <1>1 DEF Elements
  <2> QED BY <1>1, <1>2, <2>1 DEF Distinct
<1> QED BY <1>1, <1>3, <1>4 DEF t

LEMMA TailElements ==
  ASSUME NEW s \in Seq(Events), Distinct(s), s # <<>>
  PROVE  /\ Tail(s) \in Seq(Events) /\ Len(Tail(s)) = Len(s) - 1
         /\ Head(s) \in Events /\ Head(s) \in Elements(s)
         /\ Elements(Tail(s)) = Elements(s) \ {Head(s)}
         /\ Distinct(Tail(s))
<1> DEFINE t == Tail(s)
<1>1. /\ t \in Seq(Events) /\ Len(t) = Len(s) - 1 /\ DOMAIN t = 1 .. Len(s) - 1
      /\ DOMAIN s = 1 .. Len(s) /\ Len(s) \in Nat /\ Len(s) > 0
      /\ Head(s) = s[1] /\ \A i \in 1 .. Len(s) - 1 : t[i] = s[i + 1]
  OBVIOUS
<1> HIDE DEF t
<1>2. Head(s) \in Elements(s) /\ Head(s) \in Events
  BY <1>1 DEF Elements
<1>3. Elements(t) = Elements(s) \ {Head(s)}
  <2>1. ASSUME NEW i \in DOMAIN t PROVE t[i] \in Elements(s) \ {Head(s)}
    <3>1. t[i] = s[i + 1] /\ i + 1 \in DOMAIN s /\ 1 \in DOMAIN s /\ i + 1 # 1
      BY <1>1
    <3> QED BY <1>1, <3>1 DEF Elements, Distinct
  <2>2. ASSUME NEW j \in DOMAIN s, s[j] # Head(s) PROVE s[j] \in Elements(t)
    <3>1. j - 1 \in DOMAIN t /\ t[j - 1] = s[j]
      BY <1>1, <2>2
    <3> QED BY <3>1 DEF Elements
  <2> QED BY <2>1, <2>2 DEF Elements
<1>4. Distinct(t)
  <2>1. ASSUME NEW i \in DOMAIN t, NEW j \in DOMAIN t, t[i] = t[j] PROVE i = j
    <3>1. s[i + 1] = s[j + 1] /\ i + 1 \in DOMAIN s /\ j + 1 \in DOMAIN s
      BY <1>1, <2>1
    <3>2. i + 1 = j + 1
      BY <3>1 DEF Distinct
    <3> QED BY <1>1, <3>2
  <2> QED BY <2>1 DEF Distinct
<1> QED BY <1>1, <1>2, <1>3, <1>4 DEF t

\* A post carries events that no request carried.
Posting ==
  \E s \in Seq(Events) :
    Distinct(s) /\ (\A e \in Elements(s) : posts[e] = 0) /\ Post(s)

LEMMA PostingCounts ==
  ASSUME ClientTypes, NEW s \in Seq(Events), Post(s), \A e \in Elements(s) : posts[e] = 0
  PROVE  /\ posts' \in [Events -> Nat]
         /\ \A e \in Events : posts'[e] = IF e \in Elements(s) THEN 1 ELSE posts[e]
BY DEF ClientTypes, Post

LEMMA ShipStep ==
  ASSUME IInv, NoPost \/ Posting, ClientTypes', Ships', InHand'
  PROVE  IInv'
<1>1. CASE NoPost
  <2>1. requests' = requests /\ stored' = stored /\ reading' = reading /\ posts' = posts
    BY <1>1 DEF NoPost, analyticsVars
  <2>2. BackendTypes' /\ Exact' /\ Reads' /\ Apart'
    BY <2>1 DEF IInv, BackendTypes, Exact, Reads, Apart
  <2> QED BY <2>2 DEF IInv
<1>2. CASE Posting
  <2>1. PICK s \in Seq(Events) :
          Distinct(s) /\ (\A e \in Elements(s) : posts[e] = 0) /\ Post(s)
    BY <1>2 DEF Posting
  <2> DEFINE p == [i \in DOMAIN s |-> [name |-> s[i], time |-> Stamp[s[i]], kind |-> "event"]]
             q == Received(p)
  <2>2. requests' = requests \cup {q} /\ stored' = stored /\ reading' = reading
    BY <2>1 DEF Post
  <2>3. \A e \in Events : posts'[e] = IF e \in Elements(s) THEN 1 ELSE posts[e]
    BY <2>1, PostingCounts DEF IInv
  <2>4. /\ p \in Seq(Item) /\ DOMAIN p = DOMAIN s
        /\ \A i \in DOMAIN s : p[i].name = s[i] /\ p[i].kind = "event" /\ s[i] \in Events
    <3>1. Len(s) \in Nat /\ DOMAIN s = 1 .. Len(s) /\ \A i \in DOMAIN s : s[i] \in Events
      OBVIOUS
    <3>2. \A i \in 1 .. Len(s) : [name |-> s[i], time |-> Stamp[s[i]], kind |-> "event"] \in Item
      <4>1. \A i \in 1 .. Len(s) : s[i] \in Nat /\ Stamp[s[i]] \in Int
        <5>1. Events \subseteq Nat /\ Stamp \in [Events -> Int]
          BY JournalAssumption
        <5> QED BY <3>1, <5>1
      <4>2. "event" \in Index \cup {"invalid"}
        BY DEF Index
      <4> QED BY <4>1, <4>2 DEF Item
    <3> QED BY <3>1, <3>2
  <2>5. q.payload = p
    BY DEF Received
  <2> HIDE DEF p
  <2>6. Names(p) = Elements(s) /\ Distinct([i \in DOMAIN p |-> p[i].name])
    BY <2>1, <2>4 DEF Names, Elements, Distinct
  <2>7. ApartIn(requests, stored, posts)
    BY DEF IInv, Apart
  <2>8. \A i \in DOMAIN p : ~Has(stored, p[i])
    BY <2>1, <2>4, <2>7 DEF ApartIn, Has, HitOf, Elements
  <2>9. q \in Request /\ ExactFor(stored, q)
    BY <2>4, <2>8, ReceivedIsExact
  <2> HIDE DEF q
  <2>10. BackendTypes' /\ Exact' /\ Reads'
    BY <2>2, <2>9 DEF IInv, BackendTypes, Exact, Reads
  <2>11. Elements(s) \subseteq Events
    BY <2>4 DEF Elements
  <2>12. \A r \in requests : Names(r.payload) \cap Names(p) = {}
    BY <2>1, <2>6, <2>7, <2>11 DEF ApartIn
  <2>13. ApartIn(requests \cup {q}, stored, posts')
    <3>1. \A r \in requests \cup {q} : Distinct([i \in DOMAIN r.payload |-> r.payload[i].name])
      BY <2>5, <2>6, <2>7 DEF ApartIn
    <3>2. \A a, b \in requests \cup {q} : Names(a.payload) \cap Names(b.payload) # {} => a = b
      BY <2>5, <2>7, <2>12 DEF ApartIn
    <3>3. ASSUME NEW e \in Events, posts'[e] = 0
          PROVE  /\ \A r \in requests \cup {q} : e \notin Names(r.payload)
                 /\ \A x \in Index : \A d \in stored[x] : d.name # e
      <4>1. posts[e] = 0 /\ e \notin Elements(s)
        BY <2>3, <3>3
      <4> QED BY <2>5, <2>6, <2>7, <4>1 DEF ApartIn
    <3> QED BY <3>1, <3>2, <3>3 DEF ApartIn
  <2> QED BY <2>2, <2>10, <2>13 DEF IInv, Apart
<1> QED BY <1>1, <1>2

\* An event that is taken over now is nowhere yet.
LEMMA FreshEvent ==
  ASSUME ClientTypes, Ships, InHand, NEW e \in Events, e \notin logged
  PROVE  /\ e \notin logged /\ posts[e] = 0
         /\ e \notin Elements(buffer) /\ e \notin Elements(batch)
         /\ \A t \in Threads : e \notin Elements(taken[t])
         /\ Append(buffer, e) \in Seq(Events) /\ Len(Append(buffer, e)) = Len(buffer) + 1
         /\ Elements(Append(buffer, e)) = Elements(buffer) \cup {e}
         /\ Distinct(Append(buffer, e))
<1>1. posts[e] = 0
  BY DEF ClientTypes, Ships
<1>2. e \notin Elements(buffer) /\ e \notin Elements(batch)
  BY DEF Ships
<1>3. \A t \in Threads : e \notin Elements(taken[t])
  BY DEF InHand
<1> QED BY <1>1, <1>2, <1>3, AppendElements DEF ClientTypes, Ships

LEMMA HandleLogEventKeeps ==
  ASSUME IInv, NEW t \in Handlers, NEW e \in Events, HandleLogEvent(t, e)
  PROVE  IInv'
<1> DEFINE filled == Append(buffer, e)
<1>1. /\ e \notin logged /\ posts[e] = 0
      /\ filled \in Seq(Events) /\ Distinct(filled)
      /\ Elements(filled) = Elements(buffer) \cup {e}
      /\ \A u \in Threads : e \notin Elements(taken[u])
  BY FreshEvent DEF IInv, HandleLogEvent
<1>2. /\ client = "journal" /\ logged' = logged \cup {e} /\ NoPost /\ t \in Threads
      /\ batch = <<>> /\ UNCHANGED <<client, configured, busy, phase, batch, worker, unfinished>>
  BY DEF IInv, Ships, HandleLogEvent, queueVars, Threads
<1>3. posts' = posts
  BY <1>2 DEF NoPost
<1>4. \A d \in Elements(filled) : posts[d] = 0
  BY <1>1 DEF IInv, Ships
<1>5. /\ taken \in [Threads -> Seq(Events)] /\ Elements(filled) \subseteq logged'
      /\ \A u \in Threads : Elements(taken[u]) \cap Elements(filled) = {}
  BY <1>1, <1>2 DEF IInv, ClientTypes, Ships, InHand
<1>6. CASE taken' = [taken EXCEPT ![t] = filled] /\ buffer' = <<>>
  <2> HIDE DEF filled
  <2>1. \A u \in Threads : taken'[u] = IF u = t THEN filled ELSE taken[u]
    BY <1>5, <1>6
  <2>2. ClientTypes'
    BY <1>1, <1>2, <1>3, <1>5, <1>6 DEF IInv, ClientTypes, Threads
  <2>3. Ships'
    BY <1>2, <1>3, <1>6, EmptyElements DEF IInv, Ships
  <2>4. InHand'
    BY <1>1, <1>2, <1>3, <1>4, <1>5, <1>6, <2>1, EmptyElements DEF IInv, InHand, Threads
  <2> QED BY <1>2, <2>2, <2>3, <2>4, ShipStep
<1>7. CASE buffer' = filled /\ UNCHANGED taken
  <2> HIDE DEF filled
  <2>1. ClientTypes'
    BY <1>1, <1>2, <1>3, <1>7 DEF IInv, ClientTypes, Threads
  <2>2. Ships'
    BY <1>1, <1>2, <1>3, <1>4, <1>7, EmptyElements DEF IInv, Ships
  <2>3. InHand'
    BY <1>2, <1>3, <1>5, <1>7 DEF IInv, InHand, Threads
  <2> QED BY <1>2, <2>1, <2>2, <2>3, ShipStep
<1> QED BY <1>6, <1>7 DEF HandleLogEvent

LEMMA TakeBufferKeeps ==
  ASSUME IInv, NEW t \in Threads, TakeBuffer(t), NoPost,
         phase' \in {"up", "stopping", "down"},
         UNCHANGED <<client, configured, busy, queueVars, logged>>, client = "journal"
  PROVE  IInv'
<1> USE DEF queueVars
<1>1. /\ taken' = [taken EXCEPT ![t] = buffer] /\ buffer' = <<>>
      /\ posts' = posts
  BY DEF TakeBuffer, NoPost
<1>2. \A u \in Threads : taken'[u] = IF u = t THEN buffer ELSE taken[u]
  BY <1>1 DEF IInv, ClientTypes
<1>3. ClientTypes'
  BY <1>1 DEF IInv, ClientTypes, Threads
<1>4. Ships'
  BY <1>1, EmptyElements DEF IInv, Ships
<1>5. InHand'
  BY <1>1, <1>2, EmptyElements DEF IInv, Ships, InHand, Threads
<1> QED BY <1>3, <1>4, <1>5, ShipStep

LEMMA SendTakenKeeps ==
  ASSUME IInv, NEW t \in Threads, SendTaken(t)
  PROVE  IInv'
<1> DEFINE s == taken[t]
<1>1. /\ client = "journal" /\ taken' = [taken EXCEPT ![t] = <<>>]
      /\ UNCHANGED <<client, configured, buffer, phase, batch, worker, unfinished, logged>>
      /\ busy' \subseteq Threads
  BY DEF SendTaken, queueVars, IInv, ClientTypes
<1>2. /\ s \in Seq(Events) /\ Distinct(s) /\ Elements(s) \subseteq logged
      /\ \A e \in Elements(s) : posts[e] = 0
      /\ Elements(s) \cap Elements(buffer) = {} /\ batch = <<>>
  BY <1>1 DEF IInv, ClientTypes, Ships, InHand
<1>3. \A u \in Threads : taken'[u] = IF u = t THEN <<>> ELSE taken[u]
  BY <1>1 DEF IInv, ClientTypes
<1>4. \A u \in Threads : u # t => Elements(taken[u]) \cap Elements(s) = {}
  BY DEF IInv, InHand
<1> HIDE DEF s
<1>5. ASSUME posts' \in [Events -> Nat],
             \A d \in Events : posts'[d] = posts[d] \/ (d \in Elements(s) /\ posts'[d] = 1),
             NoPost \/ Posting
      PROVE  IInv'
  <2>1. \A u \in Threads : Elements(taken[u]) \subseteq Events
    BY DEF IInv, ClientTypes, InHand
  <2>2. Elements(buffer) \subseteq Events
    BY DEF IInv, ClientTypes, Ships
  <2>3. ClientTypes'
    BY <1>1, <1>5 DEF IInv, ClientTypes, Threads
  <2>4. Ships'
    BY <1>1, <1>2, <1>5, <2>2, EmptyElements DEF IInv, Ships
  <2>5. InHand'
    <3>1. client' # "infopanel" /\ logged' = logged /\ buffer' = buffer
      BY <1>1
    <3>2. ASSUME NEW u \in Threads
          PROVE  /\ Distinct(taken'[u]) /\ Elements(taken'[u]) \subseteq logged
                 /\ Elements(taken'[u]) \cap Elements(buffer) = {}
                 /\ \A e \in Elements(taken'[u]) : posts'[e] = 0
      <4>1. CASE u = t
        BY <1>3, <4>1, EmptyElements
      <4>2. CASE u # t
        <5>1. taken'[u] = taken[u]
          BY <1>3, <4>2
        <5>2. /\ Distinct(taken[u]) /\ Elements(taken[u]) \subseteq logged
              /\ Elements(taken[u]) \cap Elements(buffer) = {}
              /\ \A e \in Elements(taken[u]) : posts[e] = 0
          BY DEF IInv, InHand
        <5>3. \A e \in Elements(taken[u]) : e \in Events /\ e \notin Elements(s)
          BY <1>4, <2>1, <4>2
        <5> QED BY <1>5, <5>1, <5>2, <5>3
      <4> QED BY <4>1, <4>2
    <3>3. \A u, v \in Threads : u # v => Elements(taken'[u]) \cap Elements(taken'[v]) = {}
      BY <1>3, EmptyElements DEF IInv, InHand
    <3>4. Threads' = Threads
      BY DEF Threads
    <3> QED BY <3>1, <3>2, <3>3, <3>4 DEF InHand
  <2> QED BY <1>5, <2>3, <2>4, <2>5, ShipStep
<1>6. CASE Post(s)
  <2>1. /\ posts' \in [Events -> Nat]
        /\ \A d \in Events : posts'[d] = IF d \in Elements(s) THEN 1 ELSE posts[d]
    BY <1>2, <1>6, PostingCounts DEF IInv
  <2>2. Posting
    BY <1>2, <1>6 DEF Posting
  <2> QED BY <1>5, <2>1, <2>2
<1>7. CASE NoPost
  <2>1. posts' = posts /\ posts \in [Events -> Nat]
    BY <1>7 DEF NoPost, IInv, ClientTypes
  <2> QED BY <1>5, <1>7, <2>1
<1> QED BY <1>6, <1>7 DEF SendTaken, s

LEMMA JournalKeeps ==
  ASSUME IInv, JournalStep
  PROVE  IInv'
<1>1. CASE Flush
  <2>1. "flush" \in Threads /\ phase \in {"up", "stopping", "down"}
    BY DEF Threads, IInv, ClientTypes
  <2> QED BY <1>1, <2>1, TakeBufferKeeps DEF Flush
<1>2. CASE StopJournal
  <2>1. "main" \in Threads
    BY DEF Threads
  <2> QED BY <1>2, <2>1, TakeBufferKeeps DEF StopJournal
<1>3. CASE ExitJournal
  <2>1. ClientTypes' /\ Ships' /\ InHand' /\ NoPost
    BY <1>3 DEF IInv, ClientTypes, Ships, InHand, NoPost, ExitJournal, queueVars, Threads
  <2> QED BY <2>1, ShipStep
<1>4. ASSUME NEW t \in Threads, Return(t) PROVE IInv'
  <2>1. ClientTypes' /\ Ships' /\ InHand' /\ NoPost
    BY <1>4 DEF IInv, ClientTypes, Ships, InHand, NoPost, Return, queueVars, Threads
  <2> QED BY <2>1, ShipStep
<1> QED BY <1>1, <1>2, <1>3, <1>4, HandleLogEventKeeps, SendTakenKeeps DEF JournalStep

\* The infopanel client has no threads.
LEMMA NothingTaken ==
  ASSUME IInv, client = "infopanel", client' = client, UNCHANGED journalVars
  PROVE  InHand'
<1>1. taken' = [t \in Threads |-> <<>>] /\ client' = "infopanel"
  BY DEF IInv, InHand, journalVars
<1>2. Elements(<<>>) = {} /\ Distinct(<<>>)
  BY EmptyElements
<1> QED BY <1>1, <1>2 DEF InHand, Threads

LEMMA LogEventKeeps ==
  ASSUME IInv, NEW e \in Events, LogEvent(e)
  PROVE  IInv'
<1> DEFINE filled == Append(buffer, e)
<1>1. /\ e \notin logged /\ posts[e] = 0 /\ e \notin Elements(batch)
      /\ filled \in Seq(Events) /\ Distinct(filled) /\ Len(filled) = Len(buffer) + 1
      /\ Elements(filled) = Elements(buffer) \cup {e}
  BY FreshEvent DEF IInv, LogEvent
<1>2. /\ client = "infopanel" /\ logged' = logged \cup {e} /\ buffer' = filled
      /\ unfinished' = unfinished + 1 /\ NoPost
      /\ UNCHANGED <<client, configured, journalVars, phase, batch, worker>>
  BY DEF LogEvent
<1>3. posts' = posts
  BY <1>2 DEF NoPost
<1> HIDE DEF filled
<1>4. ClientTypes'
  <2>1. /\ unfinished = Len(buffer) + Len(batch) /\ Len(buffer) \in Nat /\ Len(batch) \in Nat
        /\ client' # "journal" /\ Len(batch') = Len(batch)
    BY <1>2 DEF IInv, ClientTypes, journalVars, Threads
  <2>2. unfinished' = Len(buffer') + Len(batch')
    BY <1>1, <1>2, <2>1
  <2> QED BY <1>1, <1>2, <1>3, <2>1, <2>2 DEF IInv, ClientTypes, journalVars, Threads
<1>5. Ships'
  BY <1>1, <1>2, <1>3 DEF IInv, Ships
<1> QED BY <1>2, <1>4, <1>5, ShipStep, NothingTaken

LEMMA CollectKeeps ==
  ASSUME IInv, Collect
  PROVE  IInv'
<1> DEFINE e == Head(buffer)
           more == Append(batch, e)
           less == Tail(buffer)
<1>1. /\ client = "infopanel" /\ worker = "collects" /\ buffer # <<>>
      /\ batch' = more /\ buffer' = less /\ NoPost
      /\ UNCHANGED <<client, configured, journalVars, phase, worker, unfinished, logged>>
  BY DEF Collect
<1>2. posts' = posts
  BY <1>1 DEF NoPost
<1>3. /\ buffer \in Seq(Events) /\ batch \in Seq(Events)
      /\ Distinct(buffer) /\ Distinct(batch)
      /\ Elements(buffer) \cap Elements(batch) = {}
  BY DEF IInv, ClientTypes, Ships
<1>4. /\ less \in Seq(Events) /\ Len(less) = Len(buffer) - 1
      /\ e \in Events /\ e \in Elements(buffer)
      /\ Elements(less) = Elements(buffer) \ {e}
      /\ Distinct(less)
  BY <1>1, <1>3, TailElements
<1> HIDE DEF e, less
<1>5. /\ more \in Seq(Events) /\ Len(more) = Len(batch) + 1
      /\ Elements(more) = Elements(batch) \cup {e}
      /\ Distinct(more)
  BY <1>3, <1>4, AppendElements
<1> HIDE DEF more
<1>6. ClientTypes'
  <2>1. /\ unfinished = Len(buffer) + Len(batch) /\ Len(buffer) \in Nat /\ Len(batch) \in Nat
        /\ client' # "journal"
    BY <1>1, <1>3 DEF IInv, ClientTypes, journalVars, Threads
  <2>2. unfinished' = Len(buffer') + Len(batch')
    BY <1>1, <1>4, <1>5, <2>1
  <2> QED BY <1>1, <1>2, <1>4, <1>5, <2>1, <2>2 DEF IInv, ClientTypes, journalVars, Threads
<1>7. Ships'
  BY <1>1, <1>2, <1>4, <1>5 DEF IInv, Ships
<1> QED BY <1>1, <1>6, <1>7, ShipStep, NothingTaken

LEMMA SendBatchKeeps ==
  ASSUME IInv, SendBatch
  PROVE  IInv'
<1>1. /\ client = "infopanel" /\ worker = "collects" /\ worker' = "sends" /\ Post(batch)
      /\ UNCHANGED <<client, configured, buffer, journalVars, phase, batch, unfinished, logged>>
  BY DEF SendBatch
<1>2. /\ batch \in Seq(Events) /\ Distinct(batch)
      /\ \A e \in Elements(batch) : posts[e] = 0
  BY <1>1 DEF IInv, ClientTypes, Ships
<1>3. /\ posts' \in [Events -> Nat]
      /\ \A d \in Events : posts'[d] = IF d \in Elements(batch) THEN 1 ELSE posts[d]
  BY <1>1, <1>2, PostingCounts DEF IInv
<1>4. ClientTypes'
  BY <1>1, <1>3 DEF IInv, ClientTypes, journalVars, Threads
<1>5. Ships'
  <2>1. \A d \in Elements(buffer) : d \in Events
    BY DEF IInv, ClientTypes, Elements
  <2>2. \A d \in Elements(buffer) : posts'[d] = 0
    BY <1>3, <2>1 DEF IInv, Ships
  <2> QED BY <1>1, <1>3, <2>2 DEF IInv, Ships
<1> QED BY <1>1, <1>2, <1>4, <1>5, ShipStep, NothingTaken DEF Posting

LEMMA BatchDoneKeeps ==
  ASSUME IInv, BatchDone
  PROVE  IInv'
<1>1. /\ client = "infopanel" /\ worker = "sends" /\ NoPost
      /\ unfinished' = unfinished - Len(batch) /\ batch' = <<>>
      /\ UNCHANGED <<client, configured, buffer, journalVars, phase, logged>>
      /\ worker' \in {"collects", "ended"}
  BY DEF BatchDone, NextRound
<1>2. posts' = posts
  BY <1>1 DEF NoPost
<1>3. ClientTypes'
  <2>1. /\ unfinished = Len(buffer) + Len(batch) /\ Len(buffer) \in Nat /\ Len(batch) \in Nat
        /\ client' # "journal"
    BY <1>1 DEF IInv, ClientTypes, journalVars, Threads
  <2>2. Len(batch') = 0 /\ batch' \in Seq(Events) /\ Len(buffer') = Len(buffer)
    BY <1>1
  <2>3. unfinished' = Len(buffer') + Len(batch')
    BY <1>1, <2>1, <2>2
  <2> QED BY <1>1, <1>2, <2>1, <2>2, <2>3 DEF IInv, ClientTypes, journalVars, Threads
<1>4. Ships'
  BY <1>1, <1>2, EmptyElements DEF IInv, Ships
<1> QED BY <1>1, <1>3, <1>4, ShipStep, NothingTaken

LEMMA InfopanelKeeps ==
  ASSUME IInv, InfopanelStep
  PROVE  IInv'
<1>1. CASE EmptyRound
  <2>1. client = "infopanel" /\ UNCHANGED <<client, journalVars>>
    BY <1>1 DEF EmptyRound
  <2>2. ClientTypes' /\ Ships' /\ NoPost
    BY <1>1, EmptyElements DEF IInv, ClientTypes, Ships, NoPost, journalVars, queueVars, Threads, EmptyRound, NextRound
  <2> QED BY <2>1, <2>2, ShipStep, NothingTaken
<1>2. CASE StopClient
  <2>1. client = "infopanel" /\ UNCHANGED <<client, journalVars>>
    BY <1>2 DEF StopClient
  <2>2. ClientTypes' /\ Ships' /\ NoPost
    BY <1>2 DEF IInv, ClientTypes, Ships, NoPost, journalVars, queueVars, Threads, StopClient
  <2> QED BY <2>1, <2>2, ShipStep, NothingTaken
<1>3. CASE JoinReturns
  <2>1. client = "infopanel" /\ UNCHANGED <<client, journalVars>>
    BY <1>3 DEF JoinReturns
  <2>2. ClientTypes' /\ Ships' /\ NoPost
    BY <1>3 DEF IInv, ClientTypes, Ships, NoPost, journalVars, queueVars, Threads, JoinReturns
  <2> QED BY <2>1, <2>2, ShipStep, NothingTaken
<1> QED
  BY <1>1, <1>2, <1>3, LogEventKeeps, CollectKeeps, SendBatchKeeps, BatchDoneKeeps
  DEF InfopanelStep

-----------------------------------------------------------------------------
(* The theorems. *)

LEMMA InitHolds == Init => IInv
<1> SUFFICES ASSUME Init PROVE IInv
  OBVIOUS
<1>1. PICK p \in Payloads : requests = {Received(p)}
  BY DEF Init, AnalyticsInit
<1>2. p \in Seq(Item) /\ Distinct([i \in DOMAIN p |-> p[i].name])
  BY AnalyticsAssumption DEF Distinct
<1>3. stored = [x \in Index |-> {}] /\ reading = Closed
  BY DEF Init, AnalyticsInit
<1>4. Received(p) \in Request /\ ExactFor(stored, Received(p))
  <2>1. \A i \in DOMAIN p : ~Has(stored, p[i])
    BY <1>3 DEF Has
  <2> QED BY <1>2, <2>1, ReceivedIsExact
<1>5. Received(p).payload = p
  BY DEF Received
<1>6. BackendTypes
  <2>1. Storage(stored)
    BY <1>3, FS_EmptySet DEF Storage
  <2> QED BY <1>1, <1>3, <1>4, <2>1 DEF BackendTypes, Reading
<1>7. ClientTypes
  <2>1. <<>> \in Seq(Events) /\ Len(<<>>) = 0
    OBVIOUS
  <2> QED BY <2>1 DEF Init, ClientTypes
<1>8. Ships
  BY EmptyElements DEF Init, Ships
<1>9. Apart
  <2>1. \A e \in Events : e \notin Names(p)
    BY JournalAssumption DEF Names
  <2> QED BY <1>1, <1>2, <1>3, <1>5, <2>1 DEF Apart, ApartIn
<1>10. Exact
  BY <1>1, <1>4 DEF Exact
<1>11. Reads
  <2>1. Closed.kind = "closed"
    BY DEF Closed
  <2> QED BY <1>3, <2>1 DEF Reads, ReadsFor
<1>12. InHand
  <2>1. \A t \in Threads : taken[t] = <<>>
    BY DEF Init
  <2> QED BY <2>1, EmptyElements DEF Init, InHand
<1> QED BY <1>6, <1>7, <1>8, <1>9, <1>10, <1>11, <1>12 DEF IInv

LEMMA NextKeeps == IInv /\ [Next]_vars => IInv'
<1> SUFFICES ASSUME IInv, [Next]_vars PROVE IInv'
  OBVIOUS
<1>1. CASE UNCHANGED vars
  <2>1. ClientTypes' /\ Ships' /\ InHand' /\ NoPost
    BY <1>1 DEF IInv, ClientTypes, Ships, InHand, NoPost, vars, shipVars, journalVars, queueVars,
                Threads
  <2> QED BY <2>1, ShipStep
<1> QED BY <1>1, JournalKeeps, InfopanelKeeps, BackendKeeps DEF Next

LEMMA Inductive == Spec => []IInv
BY InitHolds, NextKeeps, PTL DEF Spec

\* The state of the clients and of the backend has its type.
THEOREM JournalTypeCorrect == Spec => []TypeOK
<1>1. IInv => TypeOK
  <2> SUFFICES ASSUME IInv PROVE TypeOK
    OBVIOUS
  <2>1. ASSUME NEW r \in requests
        PROVE  /\ r.stage \in Index \cup {"answered"} /\ r.status \in {200, 207, 502}
               /\ r.accepted \in 0 .. Len(r.payload)
               /\ r.errors \subseteq DOMAIN r.payload
    BY DEF IInv, BackendTypes, Request, Exact, ExactFor
  <2>2. DOMAIN stored = Index
    BY DEF IInv, BackendTypes, Storage
  <2>3. reading.kind \in {"closed", "list", "listed", "scroll", "file", "cut"}
    BY ReadingKinds DEF IInv, BackendTypes
  <2>4. AnalyticsTypeOK
    BY <2>1, <2>2, <2>3 DEF AnalyticsTypeOK
  <2> QED BY <2>4 DEF IInv, ClientTypes, TypeOK
<1> QED BY <1>1, Inductive, PTL

\* Neither client posts an event twice, whichever of their threads empties
\* the journal's buffer (_handle_log_event, _flush_loop, stop) and whenever
\* the infopanel client's task takes from its queue.
THEOREM PostedAtMostOnce == Spec => []AtMostOnce
<1>1. IInv => AtMostOnce
  BY DEF IInv, Ships, AtMostOnce
<1> QED BY <1>1, Inductive, PTL

\* An answer of POST /log/event that is not 502 names exactly the items that
\* are not stored and counts the others, for any payload, whatever documents
\* either index refused and whatever other requests stored meanwhile.
THEOREM ReportExact == Spec => []ReportIsExact
<1>1. IInv => ReportIsExact
  <2> SUFFICES ASSUME IInv, NEW r \in requests, r.stage = "answered", r.status # 502
               PROVE  /\ r.errors = {i \in DOMAIN r.payload : ~StoredItem(r.payload[i])}
                      /\ r.accepted = Len(r.payload) - Cardinality(r.errors)
                      /\ r.status = 200 <=> r.errors = {}
    BY DEF ReportIsExact
  <2>1. r \in Request /\ ExactFor(stored, r)
    BY DEF IInv, BackendTypes, Exact
  <2>2. Done(r.stage) = Index
    BY DEF Done
  <2>3. /\ \A i \in DOMAIN r.payload : r.payload[i].kind \in {"invalid"} \cup Index
        /\ DOMAIN r.payload = 1 .. Len(r.payload) /\ Len(r.payload) \in Nat
    <3>1. r.payload \in Seq(Item)
      BY <2>1 DEF Request
    <3>2. Len(r.payload) \in Nat /\ DOMAIN r.payload = 1 .. Len(r.payload)
      BY <3>1
    <3>3. \A i \in 1 .. Len(r.payload) : r.payload[i] \in Item
      BY <3>1
    <3>4. \A item \in Item : item.kind \in {"invalid"} \cup Index
      BY DEF Item
    <3> QED BY <3>2, <3>3, <3>4
  <2>4. \A i \in DOMAIN r.payload : StoredItem(r.payload[i]) <=> Has(stored, r.payload[i])
    BY DEF StoredItem, Has
  <2>5. r.errors = {i \in DOMAIN r.payload : ~Has(stored, r.payload[i])}
    BY <2>1, <2>2, <2>3 DEF ExactFor
  <2>6. /\ r.accepted = Cardinality(Kept(stored, r))
        /\ r.status = 200 <=> r.errors = {}
    BY <2>1 DEF ExactFor
  <2>7. r.accepted = Len(r.payload) - Cardinality(r.errors)
    <3> DEFINE D == 1 .. Len(r.payload)
               K == Kept(stored, r)
               E == r.errors
    <3>1. K \cup E = D /\ K \cap E = {}
      BY <2>2, <2>3, <2>5 DEF Kept, Has
    <3>2. IsFiniteSet(D) /\ Cardinality(D) = Len(r.payload)
      BY <2>3, FS_Interval
    <3> HIDE DEF D, K, E
    <3>3. IsFiniteSet(K) /\ IsFiniteSet(E)
      BY <3>1, <3>2, FS_Subset
    <3>4. Cardinality(K) \in Nat /\ Cardinality(E) \in Nat /\ Cardinality({}) = 0
      BY <3>3, FS_CardinalityType, FS_EmptySet
    <3>5. Cardinality(D) = Cardinality(K) + Cardinality(E) - Cardinality({})
      BY <3>1, <3>3, FS_Union
    <3> QED BY <2>6, <3>2, <3>4, <3>5 DEF K, E
  <2> QED BY <2>4, <2>5, <2>6, <2>7
<1> QED BY <1>1, Inductive, PTL

\* A reader that turned the pages of a list to the end has seen every item
\* that matched when it opened the list, though the items stored meanwhile
\* move the others to later pages and each search orders the items of one
\* timestamp as it likes: missed are only items of a timestamp that the end of
\* a page went through.  A file that was not cut holds all that its search found.
THEOREM ReadersMissOnlyTies == Spec => []ReadersSkipOnlyTies
<1>1. IInv => ReadersSkipOnlyTies
  BY DEF IInv, Reads, ReadsFor, ReadersSkipOnlyTies
<1> QED BY <1>1, Inductive, PTL

-----------------------------------------------------------------------------
(* The regulator. *)

\* The results the regulator publishes.
Result ==
  [kind : Kinds, number : Nat, subject : Subjects, certificate : Id \cup {None}]
  \cup [kind : {"insurer"}, number : Nat]
  \cup [kind : {"verify"}, number : Nat, certificate : Id \cup {None}]
  \cup [kind : {"revoke"}, number : Nat, certificate : Id \cup {None}, saved : BOOLEAN]

APICall == [request : RegulatorRequest, got : Result \cup [number : {0}] \cup {None},
            alone : BOOLEAN]

\* The certificates in memory or in a file hold all that were issued, each with
\* the end of its subject's name in its id, and no drone's rests on a firmware
\* certificate that was known to be revoked.
GoodStore(certs, issued) ==
  /\ DOMAIN certs \subseteq Id
  /\ issued \subseteq DOMAIN certs
  /\ \A id \in DOMAIN certs :
       /\ certs[id] \in Certificate
       /\ SuffixOf[certs[id].subject] = id.suffix
       /\ certs[id].firmware = None \/ certs[id].firmware \notin certs[id].revokedThen

\* The list of revoked certificates holds all that were answered to be revoked.
GoodList(list, revoked) == list \subseteq Id /\ revoked \subseteq list

MemoryOK == /\ running \in BOOLEAN
            /\ running => GoodStore(certificates, Issued) /\ GoodList(crl, Revoked)
            /\ ~running => certificates = <<>> /\ crl = {}
            /\ unsaved \subseteq crl

FilesOK == /\ DOMAIN files = {"certificates", "crl"}
           /\ files.certificates.cut \/ GoodStore(files.certificates.content, Issued)
           /\ files.crl.cut \/ GoodList(files.crl.content, Revoked)
           /\ running /\ ~files.crl.cut => crl \ unsaved \subseteq files.crl.content

\* The requests that wait name certificates that were issued, if any, and what
\* a drone's request remembers was revoked.
InboxOK == /\ inbox \in Seq(RegulatorRequest)
           /\ \A i \in 1 .. Len(inbox) :
                /\ inbox[i].kind = "revoke" => inbox[i].certificate \in Issued \cup {None}
                /\ inbox[i].kind = "drone" => inbox[i].revokedThen \subseteq Revoked

AnswersOK == /\ answered \subseteq Result
             /\ \A a \in answered : a.kind \in Kinds /\ a.certificate # None =>
                  a.certificate.suffix = SuffixOf[a.subject]

OutboxOK == outbox \in Seq(Result)

\* While a call is alone, what waits of its kind is its own.
CallsOK == /\ calls \in [Callers -> APICall \cup {None}]
           /\ \A c \in Callers : Waits(c) /\ calls[c].alone =>
                /\ \A i \in 1 .. Len(inbox) :
                     inbox[i].kind = calls[c].request.kind =>
                       inbox[i].number = calls[c].request.number
                /\ \A i \in 1 .. Len(outbox) :
                     outbox[i].kind = calls[c].request.kind =>
                       outbox[i].number = calls[c].request.number
           /\ AloneGetsOwn

Counters == asked \in 0 .. MaxRequests /\ second \in 0 .. MaxSeconds
            /\ faults \in 0 .. MaxFaults

\* The inductive invariant.
RInv == MemoryOK /\ FilesOK /\ InboxOK /\ AnswersOK /\ OutboxOK /\ CallsOK /\ Counters

-----------------------------------------------------------------------------
(* What requests and results are made of. *)

\* The fields of a request, by its kind.
LEMMA RequestFields ==
  ASSUME NEW m \in RegulatorRequest
  PROVE  /\ m.number \in Nat
         /\ m.kind \in {"firmware", "operator", "drone", "insurer", "verify", "revoke"}
         /\ m.kind \in Kinds => m.subject \in Subjects
         /\ m.kind = "drone" => /\ m.firmware \in Id \cup {None}
                                /\ m.revokedThen \in SUBSET Id
         /\ m.kind \in {"verify", "revoke"} => m.certificate \in Id \cup {None}
BY DEF RegulatorRequest, Kinds, Subjects

\* The certificates somebody was told of, or told to be revoked, are ids.
LEMMA NamesAreIds ==
  ASSUME AnswersOK
  PROVE  Issued \subseteq Id /\ Revoked \subseteq Id
<1>1. \A a \in answered : a.kind \in Kinds => a.certificate \in Id \cup {None}
  BY DEF AnswersOK, Result, Kinds
<1>2. \A a \in answered : a.kind = "revoke" => a.certificate \in Id \cup {None}
  BY DEF AnswersOK, Result, Kinds
<1> QED
  BY <1>1, <1>2 DEF Issued, Revoked

\* The id of a new certificate.
LEMMA NewId ==
  ASSUME Counters, NEW type \in Kinds, NEW s \in Subjects
  PROVE  /\ CertificateId(type, s) \in Id
         /\ CertificateId(type, s).suffix = SuffixOf[s]
BY DEF CertificateId, Id, Counters

\* A request that is published is one of the requests, and is about what is
\* known at that time.
LEMMA RequestedOK ==
  ASSUME AnswersOK, Counters, NEW m \in Requested(asked + 1)
  PROVE  /\ m \in RegulatorRequest
         /\ m.number = asked + 1
         /\ m.kind = "revoke" => m.certificate \in Issued \cup {None}
         /\ m.kind = "drone" => m.revokedThen \subseteq Revoked
<1>1. Issued \subseteq Id /\ Revoked \subseteq Id /\ asked + 1 \in Nat
  BY NamesAreIds, RegulatorAssumption DEF Counters
<1> QED
  BY <1>1 DEF Requested, RegulatorRequest

\* A store with one more certificate, or another one under the same id, is as
\* good as before.
LEMMA StoreGrows ==
  ASSUME NEW certs, NEW issued, GoodStore(certs, issued),
         NEW id \in Id, NEW cert \in Certificate,
         SuffixOf[cert.subject] = id.suffix,
         cert.firmware = None \/ cert.firmware \notin cert.revokedThen
  PROVE  GoodStore([i \in DOMAIN certs \cup {id} |-> IF i = id THEN cert ELSE certs[i]],
                   issued \cup {id})
BY DEF GoodStore

\* The certificate a request leads to.
LEMMA Certifies ==
  ASSUME RInv, running, NEW m \in RegulatorRequest, m.kind \in Kinds,
         NEW firmware \in Id \cup {None}, NEW revoked \in SUBSET Id,
         firmware = None \/ firmware \notin revoked
  PROVE  GoodStore(WithCertificate(m, firmware, revoked),
                   Issued \cup {CertificateId(m.kind, m.subject)})
<1> DEFINE cert == [subject |-> m.subject, firmware |-> firmware, revokedThen |-> revoked]
           id == CertificateId(m.kind, m.subject)
<1>1. m.subject \in Subjects
  BY RequestFields
<1>2. id \in Id /\ id.suffix = SuffixOf[m.subject]
  BY <1>1, NewId DEF RInv
<1>3. cert \in Certificate
  BY <1>1 DEF Certificate
<1>4. GoodStore(certificates, Issued)
  BY DEF RInv, MemoryOK
<1>5. GoodStore([i \in DOMAIN certificates \cup {id} |->
                   IF i = id THEN cert ELSE certificates[i]], Issued \cup {id})
  BY <1>2, <1>3, <1>4, StoreGrows
<1> QED
  BY <1>5 DEF WithCertificate

\* A drone is certified on a certificate that is valid now, so that it was not
\* revoked when the request was published.
LEMMA DroneOnGood ==
  ASSUME RInv, running, inbox # <<>>, NEW m, m = Head(inbox), m.kind = "drone",
         Valid(m.firmware)
  PROVE  m.firmware \notin m.revokedThen
<1>1. 1 \in 1 .. Len(inbox) /\ m = inbox[1]
  BY HeadTailProperties, LenProperties DEF RInv, InboxOK
<1>2. m.revokedThen \subseteq Revoked
  BY <1>1 DEF RInv, InboxOK
<1> QED
  BY <1>2 DEF RInv, MemoryOK, GoodList, Valid

-----------------------------------------------------------------------------
(* Steps. *)

\* The next request, and those behind it.
LEMMA NextRequest ==
  ASSUME RInv, inbox # <<>>
  PROVE  /\ Head(inbox) \in RegulatorRequest /\ 1 \in 1 .. Len(inbox)
         /\ Head(inbox) = inbox[1]
         /\ Tail(inbox) \in Seq(RegulatorRequest)
         /\ \A i \in 1 .. Len(Tail(inbox)) : /\ i + 1 \in 1 .. Len(inbox)
                                             /\ Tail(inbox)[i] = inbox[i + 1]
BY HeadTailProperties, LenProperties DEF RInv, InboxOK

\* What every handler does to the requests, the results and the calls.
LEMMA Handling ==
  ASSUME RInv, NEW m, Takes(m), faults' \in 0 .. MaxFaults,
         NEW result \in Result, Answer(result),
         result.kind = m.kind, result.number = m.number,
         result.kind \in Kinds /\ result.certificate # None =>
           result.certificate.suffix = SuffixOf[result.subject]
  PROVE  InboxOK' /\ AnswersOK' /\ OutboxOK' /\ CallsOK' /\ Counters'
<1> USE DEF RInv
<1>1. /\ inbox # <<>> /\ m = Head(inbox) /\ inbox' = Tail(inbox)
      /\ answered' = answered \cup {result} /\ outbox' = Append(outbox, result)
      /\ UNCHANGED <<running, asked, calls, second>>
  BY DEF Takes, Answer
<1>2. Issued \subseteq Issued' /\ Revoked \subseteq Revoked'
  BY <1>1 DEF Issued, Revoked
<1>3. InboxOK'
  BY <1>1, <1>2, NextRequest DEF InboxOK
<1>4. AnswersOK'
  BY <1>1 DEF AnswersOK
<1>5. /\ outbox' \in Seq(Result)
      /\ \A i \in 1 .. Len(outbox') :
           \/ i \in 1 .. Len(outbox) /\ outbox'[i] = outbox[i]
           \/ outbox'[i] = result
  BY <1>1, AppendProperties, LenProperties DEF OutboxOK
<1>6. ASSUME NEW c \in Callers, Waits(c), calls[c].alone,
             NEW i \in 1 .. Len(inbox'), inbox'[i].kind = calls[c].request.kind
      PROVE  inbox'[i].number = calls[c].request.number
  <2>1. inbox'[i] = inbox[i + 1] /\ i + 1 \in 1 .. Len(inbox)
    BY <1>1, NextRequest
  <2> QED
    BY <1>6, <2>1 DEF CallsOK
<1>7. ASSUME NEW c \in Callers, Waits(c), calls[c].alone,
             NEW i \in 1 .. Len(outbox'), outbox'[i].kind = calls[c].request.kind
      PROVE  outbox'[i].number = calls[c].request.number
  <2>1. CASE i \in 1 .. Len(outbox) /\ outbox'[i] = outbox[i]
    BY <1>7, <2>1 DEF CallsOK
  <2>2. CASE outbox'[i] = result
    <3>1. inbox[1].kind = calls[c].request.kind /\ result.number = inbox[1].number
      BY <1>1, <1>7, <2>2, NextRequest
    <3> QED
      BY <1>7, <2>2, <3>1, NextRequest, <1>1 DEF CallsOK
  <2> QED
    BY <1>5, <2>1, <2>2
<1>8. CallsOK'
  BY <1>1, <1>6, <1>7 DEF CallsOK, Waits, AloneGetsOwn
<1>9. Counters'
  BY <1>1 DEF Counters
<1> QED
  BY <1>3, <1>4, <1>5, <1>8, <1>9 DEF OutboxOK

\* A handler that publishes nothing.
LEMMA Unanswered ==
  ASSUME RInv, NEW m, Takes(m), faults' \in 0 .. MaxFaults, NoAnswer
  PROVE  InboxOK' /\ AnswersOK' /\ OutboxOK' /\ CallsOK' /\ Counters'
<1>1. /\ inbox # <<>> /\ inbox' = Tail(inbox)
      /\ UNCHANGED <<running, asked, outbox, calls, second, answered>>
  BY DEF Takes, NoAnswer
<1>2. Issued' = Issued /\ Revoked' = Revoked
  BY <1>1 DEF Issued, Revoked
<1>3. InboxOK'
  BY <1>1, <1>2, NextRequest DEF RInv, InboxOK
<1>4. AnswersOK' /\ OutboxOK' /\ Counters'
  BY <1>1 DEF RInv, AnswersOK, OutboxOK, Counters
<1>5. CallsOK'
  BY <1>1, NextRequest DEF RInv, CallsOK, Waits, AloneGetsOwn
<1> QED
  BY <1>3, <1>4, <1>5

\* A result goes to the calls that wait for its kind: to one that is alone, its
\* own.
LEMMA Delivered ==
  ASSUME RInv, Deliver
  PROVE  RInv'
<1> USE DEF RInv
<1> DEFINE result == Head(outbox)
<1>1. /\ result \in Result /\ 1 \in 1 .. Len(outbox) /\ result = outbox[1]
      /\ outbox' \in Seq(Result)
      /\ \A i \in 1 .. Len(outbox') : /\ i + 1 \in 1 .. Len(outbox)
                                     /\ outbox'[i] = outbox[i + 1]
  BY HeadTailProperties, LenProperties DEF Deliver, OutboxOK
<1>2. /\ UNCHANGED <<storeVars, running, inbox, asked, second, faults, answered>>
      /\ calls' = [c \in Callers |->
           IF Waits(c) /\ calls[c].request.kind = result.kind
           THEN [calls[c] EXCEPT !.got = result] ELSE calls[c]]
  BY DEF Deliver
<1> HIDE DEF result
<1>3. Issued' = Issued /\ Revoked' = Revoked
  BY <1>2 DEF Issued, Revoked
<1>4. MemoryOK' /\ FilesOK' /\ InboxOK' /\ AnswersOK' /\ OutboxOK' /\ Counters'
  BY <1>1, <1>2, <1>3 DEF MemoryOK, FilesOK, InboxOK, AnswersOK, OutboxOK, Counters, storeVars
<1>5. calls' \in [Callers -> APICall \cup {None}]
  BY <1>1, <1>2 DEF CallsOK, APICall, Waits
<1>6. ASSUME NEW c \in Callers, Waits(c)'
      PROVE  Waits(c) /\ calls'[c].request = calls[c].request /\ calls'[c].alone = calls[c].alone
  <2>1. calls[c] \in APICall \cup {None}
    BY DEF CallsOK
  <2>2. \/ calls'[c] = calls[c]
        \/ Waits(c) /\ calls'[c] = [calls[c] EXCEPT !.got = result]
    BY <1>2
  <2> QED
    BY <1>6, <2>1, <2>2 DEF Waits, APICall
<1>7. ASSUME NEW c \in Callers, Waits(c)', calls'[c].alone
      PROVE  /\ \A i \in 1 .. Len(inbox') :
                  inbox'[i].kind = calls'[c].request.kind =>
                    inbox'[i].number = calls'[c].request.number
             /\ \A i \in 1 .. Len(outbox') :
                  outbox'[i].kind = calls'[c].request.kind =>
                    outbox'[i].number = calls'[c].request.number
  <2>1. Waits(c) /\ calls'[c].request = calls[c].request /\ calls[c].alone
    BY <1>6, <1>7
  <2> QED
    BY <1>1, <1>2, <2>1 DEF CallsOK
<1>8. AloneGetsOwn'
  <2> SUFFICES ASSUME NEW c \in Callers, calls'[c] # None, calls'[c].got # None,
                      calls'[c].alone
               PROVE  calls'[c].got.number \in {0, calls'[c].request.number}
    BY DEF AloneGetsOwn
  <2>1. CASE Waits(c) /\ calls[c].request.kind = result.kind
    <3>1. calls[c] \in APICall
      BY <2>1 DEF CallsOK, Waits
    <3>2. calls'[c] = [calls[c] EXCEPT !.got = result]
      BY <1>2, <2>1
    <3>3. /\ calls'[c].got = result /\ calls'[c].request = calls[c].request
          /\ calls'[c].alone = calls[c].alone
      BY <3>1, <3>2 DEF APICall
    <3>4. outbox[1].number = calls[c].request.number
      BY <1>1, <2>1, <3>3 DEF CallsOK
    <3> QED
      BY <1>1, <3>3, <3>4
  <2>2. CASE ~(Waits(c) /\ calls[c].request.kind = result.kind)
    BY <1>2, <2>2 DEF CallsOK, AloneGetsOwn
  <2> QED
    BY <2>1, <2>2
<1> QED
  BY <1>4, <1>5, <1>7, <1>8 DEF CallsOK

\* What somebody was told of, after one more result.
LEMMA Told ==
  ASSUME NEW result, Answer(result)
  PROVE  /\ result.kind \in Kinds => /\ Issued' \subseteq Issued \cup {result.certificate}
                                     /\ Revoked' = Revoked
                                     /\ result.certificate = None => Issued' = Issued
         /\ result.kind = "revoke" =>
              /\ Revoked' \subseteq Revoked \cup {result.certificate}
              /\ ~result.saved \/ result.certificate = None => Revoked' = Revoked
              /\ Issued' = Issued
         /\ result.kind \in {"insurer", "verify"} => Issued' = Issued /\ Revoked' = Revoked
BY DEF Answer, Issued, Revoked, Kinds

\* Nobody is told of anything.
LEMMA NobodyTold ==
  ASSUME UNCHANGED answered
  PROVE  Issued' = Issued /\ Revoked' = Revoked
BY DEF Issued, Revoked

\* The memory and the files after _save.
LEMMA Saved ==
  ASSUME NEW certs, NEW list, Save(certs, list), running' = TRUE,
         GoodStore(certs, Issued'), GoodList(list, Revoked')
  PROVE  MemoryOK' /\ FilesOK'
BY DEF Save, MemoryOK, FilesOK, Written, Whole

\* The memory and the files after a _save that failed.
LEMMA NotWritten ==
  ASSUME RInv, running, running' = TRUE, NoAnswer, NEW certs, NEW list, SaveFails(certs, list),
         GoodStore(certs, Issued), GoodList(list, Revoked), crl \subseteq list
  PROVE  MemoryOK' /\ FilesOK' /\ faults' \in 0 .. MaxFaults
<1>1. Issued' = Issued /\ Revoked' = Revoked
  BY NobodyTold DEF NoAnswer
<1>2. /\ certificates' = certs /\ crl' = list /\ files' \in Unfinished(certs, list)
      /\ unsaved' = unsaved \cup (list \ crl)
  BY DEF SaveFails
<1>3. unsaved \subseteq crl
  BY DEF RInv, MemoryOK
<1>4. MemoryOK'
  BY <1>1, <1>2, <1>3 DEF MemoryOK
<1>5. /\ DOMAIN files' = {"certificates", "crl"}
      /\ files'.certificates.cut \/ GoodStore(files'.certificates.content, Issued)
      /\ files'.crl.cut \/ files'.crl = files.crl
  BY <1>2 DEF RInv, FilesOK, Unfinished, Cut, Whole
<1>6. files'.crl.cut \/ GoodList(files'.crl.content, Revoked)
  BY <1>5 DEF RInv, FilesOK
<1>7. ~files'.crl.cut => crl' \ unsaved' \subseteq files'.crl.content
  BY <1>2, <1>5 DEF RInv, FilesOK
<1>8. FilesOK'
  BY <1>1, <1>5, <1>6, <1>7 DEF FilesOK
<1> QED
  BY <1>4, <1>8, RegulatorAssumption DEF SaveFails, RInv, Counters

\* Where the store does not change, nothing new is issued or revoked.
LEMMA NotSaved ==
  ASSUME RInv, UNCHANGED <<storeVars, running>>, Issued' = Issued, Revoked' = Revoked
  PROVE  MemoryOK' /\ FilesOK'
BY DEF RInv, storeVars, MemoryOK, FilesOK

\* A handler that issues a certificate.
LEMMA Issues ==
  ASSUME RInv, NEW m, Takes(m), m.kind \in Kinds,
         NEW firmware \in Id \cup {None}, NEW revoked \in SUBSET Id,
         firmware = None \/ firmware \notin revoked,
         Change(WithCertificate(m, firmware, revoked), crl,
                Certified(m, CertificateId(m.kind, m.subject)))
  PROVE  RInv'
<1> DEFINE id == CertificateId(m.kind, m.subject)
           result == Certified(m, id)
<1>1. running /\ running' = TRUE /\ m \in RegulatorRequest
  BY NextRequest DEF Takes, RInv, MemoryOK
<1>2. m.subject \in Subjects /\ m.number \in Nat
  BY <1>1, RequestFields
<1>3. id \in Id /\ id.suffix = SuffixOf[m.subject]
  BY <1>2, NewId DEF RInv
<1>4. /\ result \in Result /\ result.kind = m.kind /\ result.number = m.number
      /\ result.subject = m.subject /\ result.certificate = id
  BY <1>2, <1>3 DEF Certified, Result
<1>5. GoodStore(WithCertificate(m, firmware, revoked), Issued \cup {id})
  BY <1>1, Certifies
<1> HIDE DEF result
<1>6. CASE Save(WithCertificate(m, firmware, revoked), crl) /\ Answer(result)
  <2>1. faults' \in 0 .. MaxFaults
    BY <1>6 DEF Save, RInv, Counters
  <2>2. InboxOK' /\ AnswersOK' /\ OutboxOK' /\ CallsOK' /\ Counters'
    BY <1>3, <1>4, <1>6, <2>1, Handling
  <2>3. Issued' \subseteq Issued \cup {id} /\ Revoked' = Revoked
    BY <1>4, <1>6, Told
  <2>4. GoodStore(WithCertificate(m, firmware, revoked), Issued')
    BY <1>5, <2>3 DEF GoodStore
  <2>5. GoodList(crl, Revoked')
    BY <1>1, <2>3 DEF RInv, MemoryOK
  <2>6. MemoryOK' /\ FilesOK'
    BY <1>1, <1>6, <2>4, <2>5, Saved
  <2> QED
    BY <2>2, <2>6 DEF RInv
<1>7. CASE SaveFails(WithCertificate(m, firmware, revoked), crl) /\ NoAnswer
  <2>1. GoodStore(WithCertificate(m, firmware, revoked), Issued) /\ GoodList(crl, Revoked)
    BY <1>1, <1>5 DEF GoodStore, RInv, MemoryOK
  <2>2. MemoryOK' /\ FilesOK' /\ faults' \in 0 .. MaxFaults
    BY <1>1, <1>7, <2>1, NotWritten
  <2> QED
    BY <1>7, <2>2, Unanswered DEF RInv
<1> QED
  BY <1>6, <1>7 DEF Change, result

\* A handler that changes no certificate.  What it answers to be revoked is in
\* the file of the list, unless it says that it is not saved.
LEMMA Replies ==
  ASSUME RInv, NEW m, Takes(m), NoChange,
         NEW result \in Result, Answer(result),
         result.kind = m.kind, result.number = m.number,
         \/ result.kind \in {"insurer", "verify"}
         \/ result.kind \in Kinds /\ result.certificate = None
         \/ /\ result.kind = "revoke"
            /\ \/ result.certificate = None
               \/ result.certificate \in crl /\ (result.saved => result.certificate \notin unsaved)
  PROVE  RInv'
<1>1. running /\ UNCHANGED <<storeVars, running, faults>>
  BY DEF Takes, NoChange
<1>2. InboxOK' /\ AnswersOK' /\ OutboxOK' /\ CallsOK' /\ Counters'
  <2>1. faults' \in 0 .. MaxFaults
    BY <1>1 DEF RInv, Counters
  <2> QED
    BY <2>1, Handling DEF Kinds
<1>3. Issued' = Issued
  BY Told
<1>4. \A id \in Revoked' : id \in Revoked \/ (id \in crl /\ id \notin unsaved)
  <2>1. CASE Revoked' = Revoked
    BY <2>1
  <2>2. CASE /\ result.kind = "revoke" /\ Revoked' \subseteq Revoked \cup {result.certificate}
             /\ result.certificate \in crl \ unsaved
    BY <2>2
  <2> QED
    BY <2>1, <2>2, Told
<1>5. GoodList(crl, Revoked')
  BY <1>1, <1>4 DEF RInv, MemoryOK, GoodList
<1>6. files.crl.cut \/ GoodList(files.crl.content, Revoked')
  BY <1>1, <1>4 DEF RInv, FilesOK, GoodList
<1>7. MemoryOK' /\ FilesOK'
  BY <1>1, <1>3, <1>5, <1>6 DEF RInv, MemoryOK, FilesOK, storeVars
<1> QED
  BY <1>2, <1>7 DEF RInv

-----------------------------------------------------------------------------
(* Crashes and restarts. *)

\* Whatever the files hold when the process dies, what can be read is good.
LEMMA Died ==
  ASSUME RInv, NEW certs, NEW list, Dies,
         GoodStore(certs, Issued), GoodList(list, Revoked),
         files' \in Interrupted(certs, list)
  PROVE  RInv'
<1> USE DEF RInv
<1>1. /\ running' = FALSE /\ certificates' = <<>> /\ crl' = {} /\ unsaved' = {} /\ inbox' = <<>>
      /\ UNCHANGED <<asked, calls, second, answered>>
      /\ faults' = faults + 1 /\ faults < MaxFaults
  BY DEF Dies
<1>2. Issued' = Issued /\ Revoked' = Revoked
  BY <1>1, NobodyTold
<1>3. MemoryOK'
  BY <1>1 DEF MemoryOK
<1>4. /\ DOMAIN files' = {"certificates", "crl"}
      /\ files'.certificates.cut \/ GoodStore(files'.certificates.content, Issued)
      /\ files'.crl.cut \/ GoodList(files'.crl.content, Revoked)
  BY DEF FilesOK, Interrupted, Unfinished, Written, Cut, Whole
<1>5. FilesOK'
  BY <1>1, <1>2, <1>4 DEF FilesOK
<1>6. InboxOK'
  BY <1>1, EmptySeq DEF InboxOK
<1>7. /\ outbox' \in Seq(Result)
      /\ \A i \in 1 .. Len(outbox') : i \in 1 .. Len(outbox) /\ outbox'[i] = outbox[i]
  <2>1. PICK n \in 0 .. Len(outbox) : outbox' = SubSeq(outbox, 1, n)
    BY DEF Dies
  <2>2. Len(outbox) \in Nat /\ outbox \in Seq(Result)
    BY LenProperties DEF OutboxOK
  <2> QED
    BY <2>1, <2>2, SubSeqProperties
<1>8. CallsOK'
  BY <1>1, <1>7 DEF CallsOK, Waits, AloneGetsOwn
<1>9. AnswersOK' /\ OutboxOK' /\ Counters'
  BY <1>1, <1>7, RegulatorAssumption DEF AnswersOK, OutboxOK, Counters
<1> QED
  BY <1>3, <1>5, <1>6, <1>8, <1>9

\* The next start finds what it needs in the files, if it can read them.
LEMMA Restarted ==
  ASSUME RInv, Restart
  PROVE  RInv'
<1> USE DEF RInv
<1>1. Issued' = Issued /\ Revoked' = Revoked
  BY NobodyTold DEF Restart
<1>2. ~files.certificates.cut /\ ~files.crl.cut
  BY DEF Restart, FilesOK
<1>3. MemoryOK' /\ FilesOK'
  BY <1>1, <1>2 DEF Restart, MemoryOK, FilesOK
<1>4. InboxOK' /\ AnswersOK' /\ OutboxOK' /\ CallsOK' /\ Counters'
  BY <1>1 DEF Restart, InboxOK, AnswersOK, OutboxOK, CallsOK, Waits, AloneGetsOwn, Counters
<1> QED
  BY <1>3, <1>4

-----------------------------------------------------------------------------
(* Requests. *)

\* A request goes to the end of the inbox, if the regulator is there.
LEMMA Posted ==
  ASSUME RInv, NEW m \in Requested(asked + 1), Sent(m),
         UNCHANGED <<storeVars, running, outbox, second, faults, answered>>
  PROVE  /\ MemoryOK' /\ FilesOK' /\ InboxOK' /\ AnswersOK' /\ OutboxOK' /\ Counters'
         /\ \A i \in 1 .. Len(inbox') :
              \/ i \in 1 .. Len(inbox) /\ inbox'[i] = inbox[i]
              \/ inbox'[i] = m
<1> USE DEF RInv
<1>1. Issued' = Issued /\ Revoked' = Revoked
  BY NobodyTold
<1>2. /\ m \in RegulatorRequest
      /\ m.kind = "revoke" => m.certificate \in Issued \cup {None}
      /\ m.kind = "drone" => m.revokedThen \subseteq Revoked
  BY RequestedOK
<1>3. /\ inbox' \in Seq(RegulatorRequest)
      /\ \A i \in 1 .. Len(inbox') :
           \/ i \in 1 .. Len(inbox) /\ inbox'[i] = inbox[i]
           \/ inbox'[i] = m
  BY <1>2, AppendProperties, LenProperties DEF Sent, InboxOK
<1>4. InboxOK'
  BY <1>1, <1>2, <1>3 DEF InboxOK
<1>5. MemoryOK' /\ FilesOK'
  BY <1>1, NotSaved
<1>6. AnswersOK' /\ OutboxOK' /\ Counters'
  BY RegulatorAssumption DEF AnswersOK, OutboxOK, Counters, Sent
<1> QED
  BY <1>3, <1>4, <1>5, <1>6

\* The calls of the kind of a new request are no longer alone.
LEMMA NoLongerAlone ==
  ASSUME RInv, NEW kind, NEW c \in Callers
  PROVE  /\ NotAlone(kind) \in [Callers -> APICall \cup {None}]
         /\ \/ NotAlone(kind)[c] = calls[c] /\ (Waits(c) => calls[c].request.kind # kind)
            \/ Waits(c) /\ NotAlone(kind)[c].alone = FALSE
<1>1. \A d \in Callers : Waits(d) => calls[d] \in APICall
  BY DEF RInv, CallsOK, Waits
<1> QED
  BY <1>1 DEF RInv, CallsOK, NotAlone, APICall

\* Another system's request.
LEMMA Published ==
  ASSUME RInv, NEW m \in Requested(asked + 1), Publish(m)
  PROVE  RInv'
<1>1. /\ MemoryOK' /\ FilesOK' /\ InboxOK' /\ AnswersOK' /\ OutboxOK' /\ Counters'
      /\ \A i \in 1 .. Len(inbox') :
           \/ i \in 1 .. Len(inbox) /\ inbox'[i] = inbox[i]
           \/ inbox'[i] = m
      /\ outbox' = outbox
  BY Posted DEF Publish
<1>2. calls' = NotAlone(m.kind)
  BY DEF Publish
<1>3. ASSUME NEW c \in Callers
      PROVE  \/ calls'[c] = calls[c] /\ (Waits(c) => calls[c].request.kind # m.kind)
             \/ Waits(c) /\ calls'[c].alone = FALSE
  BY <1>2, NoLongerAlone
<1>4. calls' \in [Callers -> APICall \cup {None}]
  BY <1>2, NoLongerAlone DEF RInv, CallsOK, NotAlone
<1>5. AloneGetsOwn'
  BY <1>3 DEF RInv, CallsOK, AloneGetsOwn
<1>6. ASSUME NEW d \in Callers, Waits(d)', calls'[d].alone,
             NEW i \in 1 .. Len(inbox'), inbox'[i].kind = calls'[d].request.kind
      PROVE  inbox'[i].number = calls'[d].request.number
  <2>1. calls'[d] = calls[d] /\ (Waits(d) => calls[d].request.kind # m.kind)
    BY <1>3, <1>6
  <2>2. Waits(d) /\ calls[d].alone /\ calls[d].request.kind # m.kind
    BY <1>6, <2>1 DEF Waits
  <2>3. i \in 1 .. Len(inbox) /\ inbox'[i] = inbox[i]
    BY <1>1, <1>6, <2>1, <2>2
  <2> QED
    BY <1>6, <2>1, <2>2, <2>3 DEF RInv, CallsOK
<1>7. ASSUME NEW d \in Callers, Waits(d)', calls'[d].alone,
             NEW i \in 1 .. Len(outbox'), outbox'[i].kind = calls'[d].request.kind
      PROVE  outbox'[i].number = calls'[d].request.number
  <2>1. calls'[d] = calls[d]
    BY <1>3, <1>7
  <2>2. Waits(d) /\ calls[d].alone
    BY <1>7, <2>1 DEF Waits
  <2> QED
    BY <1>1, <1>7, <2>1, <2>2 DEF RInv, CallsOK
<1> QED
  BY <1>1, <1>4, <1>5, <1>6, <1>7 DEF RInv, CallsOK

\* What a call starts with.
LEMMA NewCall ==
  ASSUME NEW request, NEW alone \in BOOLEAN
  PROVE  LET call == [request |-> request, got |-> None, alone |-> alone]
         IN  call.request = request /\ call.got = None /\ (call.alone => alone)
OBVIOUS

\* A call of the API: it is alone if nothing else of its kind is under way.
LEMMA Called ==
  ASSUME RInv, NEW m \in Requested(asked + 1), NEW c \in Callers, Call(c, m)
  PROVE  RInv'
<1> DEFINE new == [request |-> m, got |-> None, alone |-> ~UnderWay(m.kind)]
<1>1. /\ MemoryOK' /\ FilesOK' /\ InboxOK' /\ AnswersOK' /\ OutboxOK' /\ Counters'
      /\ \A i \in 1 .. Len(inbox') :
           \/ i \in 1 .. Len(inbox) /\ inbox'[i] = inbox[i]
           \/ inbox'[i] = m
      /\ outbox' = outbox
  BY Posted DEF Call
<1>2. m \in RegulatorRequest /\ UnderWay(m.kind) \in BOOLEAN
  BY RequestedOK DEF RInv, UnderWay
<1>3. new \in APICall
  BY <1>2 DEF APICall
<1>4. calls' = [NotAlone(m.kind) EXCEPT ![c] = new]
  BY DEF Call
<1>5. calls' \in [Callers -> APICall \cup {None}] /\ calls'[c] = new
  BY <1>3, <1>4, NoLongerAlone
<1>6. ASSUME NEW d \in Callers, d # c
      PROVE  \/ calls'[d] = calls[d] /\ (Waits(d) => calls[d].request.kind # m.kind)
             \/ Waits(d) /\ calls'[d].alone = FALSE
  BY <1>4, <1>6, NoLongerAlone
<1>7. AloneGetsOwn'
  <2> SUFFICES ASSUME NEW d \in Callers, calls'[d] # None, calls'[d].got # None,
                      calls'[d].alone
               PROVE  calls'[d].got.number \in {0, calls'[d].request.number}
    BY DEF AloneGetsOwn
  <2>1. d # c
    BY <1>5
  <2>2. calls'[d] = calls[d]
    BY <1>6, <2>1
  <2> QED
    BY <2>2 DEF RInv, CallsOK, AloneGetsOwn
<1>8. ASSUME NEW d \in Callers, Waits(d)', calls'[d].alone,
             NEW i \in 1 .. Len(inbox'), inbox'[i].kind = calls'[d].request.kind
      PROVE  inbox'[i].number = calls'[d].request.number
  <2>1. CASE d = c
    <3>1. ~UnderWay(m.kind) /\ calls'[d].request = m
      <4>1. calls'[d] = new
        BY <1>5, <2>1
      <4>2. new.request = m /\ new.got = None /\ (new.alone => ~UnderWay(m.kind))
        BY <1>2, NewCall
      <4> HIDE DEF new
      <4> QED
        BY <1>8, <4>1, <4>2
    <3>2. \A j \in 1 .. Len(inbox) : inbox[j].kind # m.kind
      BY <3>1, LenProperties DEF UnderWay, RInv, InboxOK
    <3> QED
      BY <1>1, <1>8, <3>1, <3>2
  <2>2. CASE d # c
    <3>1. calls'[d] = calls[d] /\ (Waits(d) => calls[d].request.kind # m.kind)
      BY <1>6, <1>8, <2>2
    <3>2. Waits(d) /\ calls[d].alone /\ calls[d].request.kind # m.kind
      BY <1>8, <3>1 DEF Waits
    <3>3. i \in 1 .. Len(inbox) /\ inbox'[i] = inbox[i]
      BY <1>1, <1>8, <3>1, <3>2
    <3> QED
      BY <1>8, <3>1, <3>2, <3>3 DEF RInv, CallsOK
  <2> QED
    BY <2>1, <2>2
<1>9. ASSUME NEW d \in Callers, Waits(d)', calls'[d].alone,
             NEW i \in 1 .. Len(outbox'), outbox'[i].kind = calls'[d].request.kind
      PROVE  outbox'[i].number = calls'[d].request.number
  <2>1. CASE d = c
    <3>1. ~UnderWay(m.kind) /\ calls'[d].request = m
      <4>1. calls'[d] = new
        BY <1>5, <2>1
      <4>2. new.request = m /\ new.got = None /\ (new.alone => ~UnderWay(m.kind))
        BY <1>2, NewCall
      <4> HIDE DEF new
      <4> QED
        BY <1>9, <4>1, <4>2
    <3>2. \A j \in 1 .. Len(outbox) : outbox[j].kind # m.kind
      BY <3>1, LenProperties DEF UnderWay, RInv, OutboxOK
    <3> QED
      BY <1>1, <1>9, <3>1, <3>2
  <2>2. CASE d # c
    <3>1. calls'[d] = calls[d]
      BY <1>6, <1>9, <2>2
    <3>2. Waits(d) /\ calls[d].alone
      BY <1>9, <3>1 DEF Waits
    <3> QED
      BY <1>1, <1>9, <3>1, <3>2 DEF RInv, CallsOK
  <2> QED
    BY <2>1, <2>2
<1> QED
  BY <1>1, <1>5, <1>7, <1>8, <1>9 DEF RInv, CallsOK

\* A call that ends without a message.
LEMMA TimedOut ==
  ASSUME RInv, NEW c \in Callers, CallTimeout(c)
  PROVE  RInv'
<1> USE DEF RInv
<1>1. /\ Waits(c) /\ calls[c] \in APICall
      /\ UNCHANGED <<storeVars, running, inbox, asked, outbox, second, faults, answered>>
      /\ calls' = [calls EXCEPT ![c] = [calls[c] EXCEPT !.got = [number |-> 0]]]
  BY DEF CallTimeout, CallsOK, Waits
<1>2. calls' \in [Callers -> APICall \cup {None}]
  BY <1>1 DEF CallsOK, APICall
<1>3. Issued' = Issued /\ Revoked' = Revoked
  BY <1>1, NobodyTold
<1>4. MemoryOK' /\ FilesOK'
  BY <1>1, <1>3, NotSaved
<1>5. InboxOK' /\ AnswersOK' /\ OutboxOK' /\ Counters'
  BY <1>1, <1>3 DEF InboxOK, AnswersOK, OutboxOK, Counters
<1>6. /\ calls'[c].got = [number |-> 0] /\ calls'[c].alone = calls[c].alone
      /\ calls'[c].request = calls[c].request
      /\ \A d \in Callers : d # c => calls'[d] = calls[d]
  BY <1>1 DEF CallsOK, APICall
<1>7. AloneGetsOwn'
  BY <1>6 DEF CallsOK, AloneGetsOwn
<1>8. \A d \in Callers : Waits(d)' /\ calls'[d].alone =>
        /\ \A i \in 1 .. Len(inbox') :
             inbox'[i].kind = calls'[d].request.kind =>
               inbox'[i].number = calls'[d].request.number
        /\ \A i \in 1 .. Len(outbox') :
             outbox'[i].kind = calls'[d].request.kind =>
               outbox'[i].number = calls'[d].request.number
  BY <1>1, <1>6 DEF CallsOK, Waits
<1> QED
  BY <1>2, <1>4, <1>5, <1>7, <1>8 DEF CallsOK

-----------------------------------------------------------------------------
(* The handlers. *)

\* A request that is taken is one of the requests.
LEMMA TakesRequest ==
  ASSUME RInv, NEW m, Takes(m)
  PROVE  m \in RegulatorRequest /\ running /\ running' = TRUE
BY NextRequest DEF Takes, RInv, MemoryOK

LEMMA DroneHandled ==
  ASSUME RInv, NEW m, HandleDrone(m)
  PROVE  RInv'
<1>1. m \in RegulatorRequest /\ m.kind = "drone" /\ running /\ Takes(m) /\ m.kind \in Kinds
  BY TakesRequest DEF HandleDrone, Kinds
<1>2. m.firmware \in Id \cup {None} /\ m.revokedThen \in SUBSET Id
      /\ m.subject \in Subjects /\ m.number \in Nat
  BY <1>1, RequestFields
<1>3. CASE Valid(m.firmware)
  <2>1. m.firmware \notin m.revokedThen
    BY <1>1, <1>3, DroneOnGood DEF Takes
  <2>2. Change(WithCertificate(m, m.firmware, m.revokedThen), crl,
               Certified(m, CertificateId(m.kind, m.subject)))
    BY <1>1, <1>3 DEF HandleDrone
  <2> QED
    BY <1>1, <1>2, <2>1, <2>2, Issues
<1>4. CASE ~Valid(m.firmware)
  <2> DEFINE result == Certified(m, None)
  <2>1. NoChange /\ Answer(result)
    BY <1>4 DEF HandleDrone
  <2>2. /\ result \in Result /\ result.kind = m.kind /\ result.number = m.number
        /\ result.certificate = None
    BY <1>1, <1>2 DEF Certified, Result
  <2> HIDE DEF result
  <2> QED
    BY <1>1, <2>1, <2>2, Replies
<1> QED
  BY <1>3, <1>4

LEMMA InsurerHandled ==
  ASSUME RInv, NEW m, HandleInsurer(m)
  PROVE  RInv'
<1> DEFINE result == [kind |-> "insurer", number |-> m.number]
<1>1. m \in RegulatorRequest /\ m.kind = "insurer" /\ Takes(m)
      /\ Answer(result) /\ NoChange
  BY TakesRequest DEF HandleInsurer
<1>2. result \in Result /\ result.kind = m.kind /\ result.number = m.number
      /\ result.kind = "insurer"
  BY <1>1, RequestFields DEF Result
<1> HIDE DEF result
<1> QED
  BY <1>1, <1>2, Replies

LEMMA VerifyHandled ==
  ASSUME RInv, NEW m, HandleVerify(m)
  PROVE  RInv'
<1>1. m \in RegulatorRequest /\ m.kind = "verify" /\ running /\ Takes(m) /\ NoChange
  BY TakesRequest DEF HandleVerify
<1>2. m.certificate \in Id \cup {None} /\ m.number \in Nat
  BY <1>1, RequestFields
<1>3. CASE ~Valid(m.certificate)
  <2> DEFINE result ==
        [kind |-> "verify", number |-> m.number, certificate |-> m.certificate]
  <2>1. Answer(result)
    BY <1>3 DEF HandleVerify
  <2>2. result \in Result /\ result.kind = m.kind /\ result.number = m.number
        /\ result.kind = "verify"
    BY <1>1, <1>2 DEF Result
  <2> HIDE DEF result
  <2> QED
    BY <1>1, <2>1, <2>2, Replies
<1>4. CASE Valid(m.certificate)
  <2>1. NoAnswer /\ UNCHANGED <<storeVars, running, faults>>
    BY <1>1, <1>4 DEF HandleVerify, NoChange, Takes
  <2>2. Issued' = Issued /\ Revoked' = Revoked
    BY <2>1, NobodyTold DEF NoAnswer
  <2>3. MemoryOK' /\ FilesOK'
    BY <2>1, <2>2, NotSaved
  <2>4. faults' \in 0 .. MaxFaults
    BY <2>1 DEF RInv, Counters
  <2> QED
    BY <1>1, <2>1, <2>3, <2>4, Unanswered DEF RInv
<1> QED
  BY <1>3, <1>4

\* What is asked to be revoked is in the list already, or was issued, so that it
\* is known and gets into the list, or no certificate at all.
LEMMA RevokeHandled ==
  ASSUME RInv, NEW m, HandleRevoke(m)
  PROVE  RInv'
<1>1. /\ m \in RegulatorRequest /\ m.kind = "revoke" /\ running /\ running' = TRUE
      /\ Takes(m)
  BY TakesRequest DEF HandleRevoke
<1>2. m.certificate \in Id \cup {None} /\ m.number \in Nat
  BY <1>1, RequestFields
<1>3. ASSUME NEW pending
      PROVE  LET result == Revocation(m, pending)
             IN  /\ result \in Result /\ result.kind = m.kind /\ result.number = m.number
                 /\ result.kind = "revoke" /\ result.certificate = m.certificate
                 /\ result.saved => m.certificate \notin pending
  BY <1>1, <1>2 DEF Revocation, Result
<1>4. m.certificate = None \/ m.certificate \in DOMAIN certificates
  BY <1>1, NextRequest DEF Takes, RInv, InboxOK, MemoryOK, GoodStore
<1>5. CASE m.certificate \notin DOMAIN certificates \ crl
  <2> DEFINE result == Revocation(m, unsaved)
  <2>1. NoChange /\ Answer(result)
    BY <1>5 DEF HandleRevoke
  <2>2. /\ result \in Result /\ result.kind = m.kind /\ result.number = m.number
        /\ result.kind = "revoke" /\ result.certificate = m.certificate
        /\ result.saved => m.certificate \notin unsaved
    BY <1>3
  <2> HIDE DEF result
  <2> QED
    BY <1>1, <1>4, <1>5, <2>1, <2>2, Replies
<1>6. CASE m.certificate \in DOMAIN certificates \ crl
  <2> DEFINE result == Revocation(m, {})
             list == crl \cup {m.certificate}
  <2>1. Change(certificates, list, result)
    BY <1>6 DEF HandleRevoke
  <2>2. /\ result \in Result /\ result.kind = m.kind /\ result.number = m.number
        /\ result.kind = "revoke" /\ result.certificate = m.certificate
    BY <1>3
  <2>3. /\ GoodStore(certificates, Issued) /\ GoodList(crl, Revoked)
        /\ m.certificate \in Id
    BY <1>1, <1>6 DEF RInv, MemoryOK, GoodStore
  <2> HIDE DEF result
  <2>4. CASE Save(certificates, list) /\ Answer(result)
    <3>1. Issued' = Issued /\ Revoked' \subseteq Revoked \cup {m.certificate}
      BY <2>2, <2>4, Told
    <3>2. GoodStore(certificates, Issued') /\ GoodList(list, Revoked')
      BY <2>3, <3>1 DEF GoodList
    <3>3. MemoryOK' /\ FilesOK'
      BY <1>1, <2>4, <3>2, Saved
    <3>4. faults' \in 0 .. MaxFaults
      BY <2>4 DEF Save, RInv, Counters
    <3>5. InboxOK' /\ AnswersOK' /\ OutboxOK' /\ CallsOK' /\ Counters'
      BY <1>1, <2>2, <2>4, <3>4, Handling DEF Kinds
    <3> QED
      BY <3>3, <3>5 DEF RInv
  <2>5. CASE SaveFails(certificates, list) /\ NoAnswer
    <3>1. GoodList(list, Revoked) /\ crl \subseteq list
      BY <2>3 DEF GoodList
    <3>2. MemoryOK' /\ FilesOK' /\ faults' \in 0 .. MaxFaults
      BY <1>1, <2>3, <2>5, <3>1, NotWritten
    <3> QED
      BY <1>1, <2>5, <3>2, Unanswered DEF RInv
  <2> QED
    BY <2>1, <2>4, <2>5 DEF Change
<1> QED
  BY <1>5, <1>6

LEMMA DiedSaving ==
  ASSUME RInv, NEW m, CrashWhileSaving(m)
  PROVE  RInv'
<1>1. running /\ Dies /\ inbox # <<>> /\ m = Head(inbox) /\ m \in RegulatorRequest
  BY NextRequest DEF CrashWhileSaving, Dies
<1>2. /\ GoodStore(certificates, Issued) /\ GoodList(crl, Revoked)
  BY <1>1 DEF RInv, MemoryOK
<1>3. ASSUME NEW certs, NEW issued, GoodStore(certs, Issued \cup issued)
      PROVE  GoodStore(certs, Issued)
  BY <1>3 DEF GoodStore
<1>4. CASE /\ m.kind \in {"firmware", "operator"}
           /\ files' \in Interrupted(WithCertificate(m, None, {}), crl)
  <2>1. GoodStore(WithCertificate(m, None, {}),
                  Issued \cup {CertificateId(m.kind, m.subject)})
    BY <1>1, <1>4, Certifies DEF Kinds
  <2> QED
    BY <1>1, <1>2, <1>3, <1>4, <2>1, Died
<1>5. CASE /\ m.kind = "drone" /\ Valid(m.firmware)
           /\ files' \in Interrupted(WithCertificate(m, m.firmware, m.revokedThen), crl)
  <2>1. m.firmware \notin m.revokedThen
    BY <1>1, <1>5, DroneOnGood
  <2>2. m.firmware \in Id \cup {None} /\ m.revokedThen \in SUBSET Id
    BY <1>1, <1>5, RequestFields
  <2>3. GoodStore(WithCertificate(m, m.firmware, m.revokedThen),
                  Issued \cup {CertificateId(m.kind, m.subject)})
    BY <1>1, <1>5, <2>1, <2>2, Certifies DEF Kinds
  <2> QED
    BY <1>1, <1>2, <1>3, <1>5, <2>3, Died
<1>6. CASE /\ m.kind = "revoke" /\ m.certificate \in DOMAIN certificates
           /\ files' \in Interrupted(certificates, crl \cup {m.certificate})
  <2>1. m.certificate \in Id
    BY <1>2, <1>6 DEF GoodStore
  <2>2. GoodList(crl \cup {m.certificate}, Revoked)
    BY <1>2, <2>1 DEF GoodList
  <2> QED
    BY <1>1, <1>2, <1>6, <2>2, Died
<1> QED
  BY <1>4, <1>5, <1>6 DEF CrashWhileSaving

LEMMA DiedIdle ==
  ASSUME RInv, Crash
  PROVE  RInv'
<1>1. running /\ Dies /\ files' = files
  BY DEF Crash, Dies
<1>2. GoodStore(certificates, Issued) /\ GoodList(crl, Revoked)
  BY <1>1 DEF RInv, MemoryOK
<1>3. files' \in Interrupted(certificates, crl)
  BY <1>1 DEF Interrupted, Unfinished
<1> QED
  BY <1>1, <1>2, <1>3, Died

-----------------------------------------------------------------------------
(* The invariant and what follows. *)

LEMMA RInvInit == RegulatorInit => RInv
<1> SUFFICES ASSUME RegulatorInit
             PROVE  RInv
  OBVIOUS
<1>1. Issued = {} /\ Revoked = {}
  BY DEF RegulatorInit, Issued, Revoked
<1>2. GoodStore(<<>>, {}) /\ GoodList({}, {})
  BY DEF GoodStore, GoodList
<1>3. MemoryOK /\ FilesOK
  BY <1>1, <1>2 DEF RegulatorInit, MemoryOK, FilesOK, Whole
<1>4. InboxOK
  BY EmptySeq DEF RegulatorInit, InboxOK
<1>5. AnswersOK /\ OutboxOK /\ CallsOK /\ Counters
  BY EmptySeq, RegulatorAssumption DEF RegulatorInit, AnswersOK, OutboxOK, CallsOK, Waits, AloneGetsOwn, Counters
<1> QED
  BY <1>3, <1>4, <1>5 DEF RInv

LEMMA RInvStep == RInv /\ [RegulatorNext]_regulatorVars => RInv'
<1> SUFFICES ASSUME RInv, [RegulatorNext]_regulatorVars
             PROVE  RInv'
  OBVIOUS
<1>1. CASE Tick
  <2>1. UNCHANGED <<certificates, crl, files, unsaved, running, inbox, asked, outbox, calls,
                    faults, answered>>
    BY <1>1 DEF Tick, storeVars
  <2>2. Issued' = Issued /\ Revoked' = Revoked
    BY <2>1, NobodyTold
  <2>3. MemoryOK' /\ FilesOK'
    BY <2>1, <2>2 DEF RInv, MemoryOK, FilesOK
  <2>4. InboxOK' /\ AnswersOK' /\ OutboxOK' /\ CallsOK'
    BY <2>1, <2>2 DEF RInv, InboxOK, AnswersOK, OutboxOK, CallsOK, Waits, AloneGetsOwn
  <2>5. Counters'
    BY <1>1, RegulatorAssumption DEF Tick, RInv, Counters
  <2> QED
    BY <2>3, <2>4, <2>5 DEF RInv
<1>2. ASSUME NEW m \in Requested(asked + 1),
             Publish(m) \/ \E c \in Callers : Call(c, m)
      PROVE  RInv'
  BY <1>2, Published, Called
<1>3. ASSUME NEW c \in Callers, CallTimeout(c)
      PROVE  RInv'
  BY <1>3, TimedOut
<1>4. ASSUME NEW m, inbox # <<>>, m = Head(inbox),
             HandleIssue(m) \/ HandleDrone(m) \/ HandleInsurer(m)
             \/ HandleVerify(m) \/ HandleRevoke(m) \/ CrashWhileSaving(m)
      PROVE  RInv'
  <2>1. CASE HandleIssue(m)
    BY <2>1, Issues DEF HandleIssue, Kinds
  <2> QED
    BY <1>4, <2>1, DroneHandled, InsurerHandled, VerifyHandled, RevokeHandled, DiedSaving
<1>5. CASE Crash
  BY <1>5, DiedIdle
<1>6. CASE Restart
  BY <1>6, Restarted
<1>8. CASE Deliver
  BY <1>8, Delivered
<1>7. CASE UNCHANGED regulatorVars
  <2>1. UNCHANGED <<certificates, crl, files, unsaved, running, inbox, asked, outbox, calls,
                    second, faults, answered>>
    BY <1>7 DEF regulatorVars
  <2>2. Issued' = Issued /\ Revoked' = Revoked
    BY <2>1, NobodyTold
  <2> QED
    BY <2>1, <2>2 DEF RInv, MemoryOK, FilesOK, InboxOK, AnswersOK, OutboxOK, CallsOK,
                      Waits, AloneGetsOwn, Counters
<1> QED
  BY <1>1, <1>2, <1>3, <1>4, <1>5, <1>6, <1>7, <1>8 DEF RegulatorNext

LEMMA RInvariance == RegulatorSpec => []RInv
<1> QED
  BY RInvInit, RInvStep, PTL DEF RegulatorSpec

\* Once the regulator has answered that a certificate is revoked it never calls
\* it valid again, over any number of crashes and writes that fail, wherever they
\* fall in _save, but for an answer that repeats a revocation not yet saved.
THEOREM RevokedForGood == RegulatorSpec => []RevokedStaysRevoked
<1>1. RInv => RevokedStaysRevoked
  BY DEF RInv, MemoryOK, GoodList, RevokedStaysRevoked, Valid
<1> QED
  BY <1>1, RInvariance, PTL

\* No drone is certified on a firmware certificate that was answered to be
\* revoked before the drone's request: neither in memory, nor after a restart.
THEOREM NoDroneOnRevokedFirmware == RegulatorSpec => []DronesOnGoodFirmware
<1>1. RInv => DronesOnGoodFirmware
  <2> SUFFICES ASSUME RInv
               PROVE  DronesOnGoodFirmware
    OBVIOUS
  <2>1. CASE running
    BY <2>1 DEF RInv, MemoryOK, GoodStore, DronesOnGoodFirmware
  <2>2. CASE ~running
    BY <2>2 DEF RInv, MemoryOK, DronesOnGoodFirmware
  <2> QED
    BY <2>1, <2>2
<1> QED
  BY <1>1, RInvariance, PTL

\* What was issued is there as long as the process runs, after a crash as well,
\* and only a name with the same last characters can take its place.
THEOREM IssuedForGood == RegulatorSpec => []IssuedAreStored
<1>1. RInv => IssuedAreStored
  <2> SUFFICES ASSUME RInv, running,
                      NEW a \in answered, a.kind \in Kinds, a.certificate # None
               PROVE  /\ a.certificate \in DOMAIN certificates
                      /\ \/ certificates[a.certificate].subject = a.subject
                         \/ LET other == certificates[a.certificate].subject
                            IN  other # a.subject
                                /\ SuffixOf[other] = SuffixOf[a.subject]
    BY DEF IssuedAreStored
  <2>1. a.certificate \in Issued
    BY DEF Issued
  <2>2. a.certificate \in DOMAIN certificates
        /\ SuffixOf[certificates[a.certificate].subject] = a.certificate.suffix
    BY <2>1 DEF RInv, MemoryOK, GoodStore
  <2>3. a.certificate.suffix = SuffixOf[a.subject]
    BY DEF RInv, AnswersOK
  <2> QED
    BY <2>2, <2>3
<1> QED
  BY <1>1, RInvariance, PTL

\* A call of the API during which no other request of its kind was under way
\* gets its own result, or times out.
THEOREM AloneIsAnswered == RegulatorSpec => []AloneGetsOwn
<1>1. RInv => AloneGetsOwn
  BY DEF RInv, CallsOK
<1> QED
  BY <1>1, RInvariance, PTL

\* The state's shape.
THEOREM RegulatorTypeCorrect == RegulatorSpec => []RegulatorTypeOK
<1>1. RInv => RegulatorTypeOK
  <2> SUFFICES ASSUME RInv
               PROVE  RegulatorTypeOK
    OBVIOUS
  <2>1. /\ DOMAIN certificates \subseteq Id /\ crl \subseteq Id
        /\ \A id \in DOMAIN certificates : certificates[id] \in Certificate
    BY DEF RInv, MemoryOK, GoodStore, GoodList
  <2> QED
    BY <2>1 DEF RInv, MemoryOK, FilesOK, InboxOK, Counters, RegulatorTypeOK
<1> QED
  BY <1>1, RInvariance, PTL
=============================================================================
