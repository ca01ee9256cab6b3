----------------------------- MODULE Analytics ------------------------------
(***************************************************************************)
(* systems/DroneAnalytics: the backend that stores log items in            *)
(* Elasticsearch and shows them.  POST /log/event checks each item of its  *)
(* payload, stores the events in one index, then the safety events in      *)
(* another, and answers which items it did not take.  Readers turn the     *)
(* pages of a list, or download a CSV file, while items are being stored.  *)
(*                                                                         *)
(* An item is its timestamp, its kind, and a name for all the rest.  Both  *)
(* indices show their items newest first, and that is all their order is   *)
(* asked for: several items may have one timestamp (clients stamp whole    *)
(* milliseconds), and each search puts these in an order of its own.       *)
(* POST /log/basic and /log/telemetry are the same with one index.         *)
(* Logins, keys and the backend's own audit items, which the lists leave   *)
(* out, are left out.                                                      *)
(***************************************************************************)
EXTENDS Integers, Sequences, FiniteSets

CONSTANTS Limit,        \* items on a page, or in one answer of a scroll
          Ranges,       \* [from, to] a reader may ask for
          Payloads      \* what another service may be posting at the start

VARIABLES requests,     \* the POSTs being handled or answered
          stored,       \* index -> the documents in it
          reading       \* what the reader asked for, and has not got of what
                        \* was there when it asked

analyticsVars == <<requests, stored, reading>>

Index == {"event", "safety"}

\* A payload is a sequence of items; "invalid" is one its model rejects.
Item == [name : Nat, time : Int, kind : Index \cup {"invalid"}]

\* What is stored of an item.  Elasticsearch gives each document its own _id.
Hit == [name : Nat, time : Int]
HitOf(item) == [name |-> item.name, time |-> item.time]
Positions(payload, kind) == {i \in DOMAIN payload : payload[i].kind = kind}

\* A name tells an item from the others.
ASSUME AnalyticsAssumption ==
  /\ Limit \in Nat \ {0}
  /\ \A r \in Ranges : r.from \in Int /\ r.to \in Int
  /\ Payloads \subseteq Seq(Item)
  /\ \A p \in Payloads : \A i, j \in DOMAIN p : p[i].name = p[j].name => i = j

Request == [payload : Seq(Item), stage : Index \cup {"answered"},
            status : {200, 207, 502}, accepted : Nat, errors : SUBSET Nat]

Closed == [kind |-> "closed"]
Reading ==
  {Closed}
  \cup [kind : {"list", "listed"}, index : Index, range : Ranges,
        page : Nat, unseen : SUBSET Hit, torn : SUBSET Int]
  \cup [kind : {"scroll", "file", "cut"}, unseen : SUBSET Hit]

AnalyticsTypeOK ==
  /\ \A r \in requests :
       /\ r.stage \in Index \cup {"answered"} /\ r.status \in {200, 207, 502}
       /\ r.accepted \in 0 .. Len(r.payload)
       /\ r.errors \subseteq DOMAIN r.payload
  /\ DOMAIN stored = Index
  /\ reading.kind \in {"closed", "list", "listed", "scroll", "file", "cut"}

-----------------------------------------------------------------------------
(* Storing *)

\* The items whose validation fails are noted at once.
Received(payload) ==
  [payload |-> payload, stage |-> "event", status |-> 200, accepted |-> 0,
   errors |-> Positions(payload, "invalid")]

AnalyticsInit ==
  /\ requests \in {{Received(p)} : p \in Payloads}
  /\ stored = [x \in Index |-> {}]
  /\ reading = Closed

\* The documents of an index are sent in the order of their items: what the
\* position pos among them was in the payload, source_indices[pos], is the i
\* whose Document is pos.
Documents(payload, x) == 0 .. Cardinality(Positions(payload, x)) - 1
Document(payload, x, i) == Cardinality({j \in Positions(payload, x) : j < i})

\* Mutant: the position among the documents is reported.
ReportedUnmapped(payload, x, failed) == {pos + 1 : pos \in failed}

\* The positions reported for the documents the index refused.
Reported(payload, x, failed) ==
  {i \in Positions(payload, x) : Document(payload, x, i) \in failed}

Replace(r, s) == requests' = (requests \ {r}) \cup {s}

\* The events first, then the safety events, then the answer.
NextStage(r) == IF r.stage = "event" THEN "safety" ELSE "answered"

\* _bulk_index answers for each document: some may be refused.
BulkIndex(r) ==
  /\ r.stage \in Index
  /\ LET x == r.stage
     IN  \E failed \in SUBSET Documents(r.payload, x) :
           /\ stored' = [stored EXCEPT ![x] = @ \cup
                {HitOf(r.payload[i]) : i \in {j \in Positions(r.payload, x) :
                                              Document(r.payload, x, j) \notin failed}}]
           /\ LET errors == r.errors \cup Reported(r.payload, x, failed)
              IN  Replace(r, [r EXCEPT
                    !.stage = NextStage(r),
                    !.accepted = @ + Cardinality(Documents(r.payload, x) \ failed),
                    !.errors = errors,
                    !.status = IF errors = {} THEN 200 ELSE 207])
  /\ UNCHANGED reading

\* Elasticsearch is out of reach, fails or answers what is not JSON: 502,
\* whatever it stored of the documents and whatever was stored before them.
BulkFails(r) ==
  /\ r.stage \in Index
  /\ Positions(r.payload, r.stage) # {}
  /\ \E kept \in SUBSET Positions(r.payload, r.stage) :
       stored' = [stored EXCEPT ![r.stage] = @ \cup
                    {HitOf(r.payload[i]) : i \in kept}]
  /\ Replace(r, [r EXCEPT !.stage = "answered", !.status = 502])
  /\ UNCHANGED reading

\* The response leaves the backend.
Respond(r) ==
  /\ r.stage = "answered"
  /\ requests' = requests \ {r}
  /\ UNCHANGED <<stored, reading>>

-----------------------------------------------------------------------------
(* Reading *)

Matching(indices, range) ==
  {d \in UNION {stored[x] : x \in indices} : range.from <= d.time /\ d.time <= range.to}

\* The orders in which a search may list the documents: sort by timestamp,
\* descending, and nothing that would order those of one timestamp.  An order
\* gives each document its place.
Orders(docs) ==
  {place \in [docs -> 0 .. Cardinality(docs) - 1] :
     \A d, e \in docs : d # e => /\ place[d] # place[e]
                                 /\ d.time > e.time => place[d] < place[e]}

\* Mutant: pages counted from 0.
PageFromZero(place, page) ==
  {d \in DOMAIN place : page * Limit <= place[d] /\ place[d] < (page + 1) * Limit}

\* from = (page - 1) * limit, size = limit.
Page(place, page) ==
  {d \in DOMAIN place : (page - 1) * Limit <= place[d] /\ place[d] < page * Limit}

\* The timestamps that rows of docs have and others of docs as well: a page
\* boundary goes through them.
Torn(rows, docs) == {d.time : d \in rows} \cap {d.time : d \in docs \ rows}

\* validate_timestamp_range.
ValidRange(range) == range.from <= range.to

OpenList(x, range) ==
  /\ reading = Closed
  /\ ValidRange(range)
  /\ reading' = [kind |-> "list", index |-> x, range |-> range, page |-> 1,
                 unseen |-> Matching({x}, range), torn |-> {}]
  /\ UNCHANGED <<requests, stored>>

\* The reader turns pages until one is not full.  Each page is a search of its
\* own.  (torn is a ghost.)
TurnPage ==
  /\ reading.kind = "list"
  /\ LET docs == Matching({reading.index}, reading.range)
     IN  \E place \in Orders(docs) :
           LET rows == Page(place, reading.page)
           IN  reading' = [reading EXCEPT
                 !.kind = IF Cardinality(rows) < Limit THEN "listed" ELSE "list",
                 !.page = @ + 1,
                 !.unseen = @ \ rows,
                 !.torn = @ \cup Torn(rows, docs)]
  /\ UNCHANGED <<requests, stored>>

\* _es_scroll_iter, or _es_scroll_iter_multi for several indices: the search
\* fixes what the scroll will go through.  The download of everything does not
\* check its range.
Download(indices, range) ==
  /\ reading = Closed
  /\ indices = Index \/ ValidRange(range)
  /\ reading' = [kind |-> "scroll", unseen |-> Matching(indices, range)]
  /\ UNCHANGED <<requests, stored>>

Scroll ==
  /\ reading.kind = "scroll"
  /\ \E place \in Orders(reading.unseen) :
       LET rows == Page(place, 1)
       IN  reading' = [reading EXCEPT
             !.kind = IF rows = {} THEN "file" ELSE "scroll",
             !.unseen = @ \ rows]
  /\ UNCHANGED <<requests, stored>>

\* A step of the scroll fails.  The rows before it, and the status 200, have
\* left already: the file just ends.
ScrollFails ==
  /\ reading.kind = "scroll"
  /\ reading' = [reading EXCEPT !.kind = "cut"]
  /\ UNCHANGED <<requests, stored>>

AnalyticsStep ==
  \/ \E r \in requests : BulkIndex(r) \/ BulkFails(r) \/ Respond(r)
  \/ \E x \in Index, range \in Ranges : OpenList(x, range)
  \/ \E indices \in {{"event"}, {"safety"}, Index}, range \in Ranges : Download(indices, range)
  \/ TurnPage \/ Scroll \/ ScrollFails

-----------------------------------------------------------------------------
(* What the backend answers is what it did: unless the answer is 502, the  *)
(* positions it reports are those of the items that are not stored, and it *)
(* counts the others.  It is about _bulk_index and ingest_event.           *)
StoredItem(item) == item.kind \in Index /\ HitOf(item) \in stored[item.kind]

ReportIsExact ==
  \A r \in requests : r.stage = "answered" /\ r.status # 502 =>
    /\ r.errors = {i \in DOMAIN r.payload : ~StoredItem(r.payload[i])}
    /\ r.accepted = Len(r.payload) - Cardinality(r.errors)
    /\ r.status = 200 <=> r.errors = {}

\* Whoever turns the pages to the end has seen every item that was there at
\* the start, whatever was stored in between, but for items with a timestamp
\* that the end of a page went through: of these the next page may show
\* the same ones again.  A file that was not cut holds what the search found.
\* It is about the sort and the offsets of _get_logs_from_index and the scroll.
ReadersSkipOnlyTies ==
  /\ reading.kind = "listed" => \A d \in reading.unseen : d.time \in reading.torn
  /\ reading.kind = "file" => reading.unseen = {}
=============================================================================
