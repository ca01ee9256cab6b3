------------------------------ MODULE KafkaBus ------------------------------
(***************************************************************************)
(* broker/kafka/kafka_system_bus.py under sdk/base_component.py: callers   *)
(* that request from one component.  The component's consumer thread polls *)
(* its topic, runs the handler inline and publishes the response; the      *)
(* callers' reply consumer completes the future of the correlation id.     *)
(* The component's process may stop or crash and start again; the topic    *)
(* and the offset committed for its consumer group outlive it.             *)
(*                                                                         *)
(* A request stands for its correlation id.  The callers share one bus and *)
(* one reply topic; their process does not stop (a reply topic is new in   *)
(* every process).  Kafka's part: the offsets, committed no later than a   *)
(* poll and no earlier than the records were returned by an earlier one.   *)
(***************************************************************************)
EXTENDS Naturals, Sequences, SequencesExt

CONSTANTS Requests,
          Luck,         \* the values of lucky: {TRUE}, {FALSE} or both
          MaxStops,     \* bound on the stops and crashes of the component
          WarmUpPolls,  \* the polls before the consumer loop: 3 in the code
          None

ASSUME KafkaBusAssumption ==
  /\ Luck \subseteq BOOLEAN
  /\ MaxStops \in Nat /\ WarmUpPolls \in Nat
  /\ None \notin Requests

VARIABLES stage,     \* request -> where its caller stands in request()
          pending,   \* _pending_requests
          completed, \* the requests whose Future has its result
          topic,     \* the records of the component's topic
          replies,   \* the records of the reply topic not taken yet
          up,        \* is the component's process running?
          warmUp,    \* warm-up polls its consumer has still to make
          position,  \* the number of records its consumer has got
          committed, \* the offset committed for its group
          batch,     \* records of the last poll not handled yet
          running,   \* the request whose handler has run, or None
          runs,      \* request -> how often its handler has run
          stops,     \* number of stops and crashes
          lucky      \* TRUE: no request times out, no publication fails and
                     \* the component does not stop in this behaviour

callerVars == <<stage, pending, completed>>
processVars == <<up, warmUp, position, committed, batch, running, stops,
                 lucky>>
vars == <<callerVars, topic, replies, processVars, runs>>

Stage == {"idle", "publishing", "waiting", "expired", "answered", "none"}

TypeOK ==
  /\ stage \in [Requests -> Stage]
  /\ pending \subseteq Requests /\ completed \subseteq Requests
  /\ up \in BOOLEAN
  /\ warmUp \in 0 .. WarmUpPolls
  /\ position \in 0 .. Len(topic) /\ committed \in 0 .. Len(topic)
  /\ running \in Requests \cup {None}
  /\ runs \in [Requests -> 0 .. MaxStops + 1]
  /\ stops \in 0 .. MaxStops
  /\ lucky \in Luck

Init ==
  /\ stage = [r \in Requests |-> "idle"]
  /\ pending = {} /\ completed = {}
  /\ topic = <<>> /\ replies = <<>>
  /\ up = FALSE
  /\ warmUp = 0 /\ position = 0 /\ committed = 0
  /\ batch = <<>> /\ running = None
  /\ runs = [r \in Requests |-> 0]
  /\ stops = 0
  /\ lucky \in Luck

-----------------------------------------------------------------------------
(* request(), in the callers' process. *)

Moves(r, from, to) == /\ stage[r] = from
                      /\ stage' = [stage EXCEPT ![r] = to]

\* The future is entered before the request is published.
Request(r) ==
  /\ Moves(r, "idle", "publishing")
  /\ pending' = pending \cup {r}
  /\ UNCHANGED <<completed, topic, replies, processVars, runs>>

Publish(r) ==
  /\ Moves(r, "publishing", "waiting")
  /\ topic' = Append(topic, r)
  /\ UNCHANGED <<pending, completed, replies, processVars, runs>>

\* The producer's own wait failed, whether or not the record is on its way.
PublishFails(r) ==
  /\ ~lucky
  /\ Moves(r, "publishing", "none")
  /\ pending' = pending \ {r}
  /\ topic' \in {topic, Append(topic, r)}
  /\ UNCHANGED <<completed, replies, processVars, runs>>

\* Mutant: the table keeps the future.
HandleReplyKeeping ==
  /\ replies # <<>>
  /\ replies' = Tail(replies)
  /\ completed' = completed \cup (pending \cap {Head(replies)})
  /\ UNCHANGED <<stage, pending, topic, processVars, runs>>

\* _handle_reply: a reply to a request that is no longer pending is dropped.
HandleReply ==
  /\ replies # <<>>
  /\ replies' = Tail(replies)
  /\ pending' = pending \ {Head(replies)}
  /\ completed' = completed \cup (pending \cap {Head(replies)})
  /\ UNCHANGED <<stage, topic, processVars, runs>>

Return(r) ==
  /\ r \in completed
  /\ Moves(r, "waiting", "answered")
  /\ UNCHANGED <<pending, completed, topic, replies, processVars, runs>>

\* future.result raises TimeoutError ...
Expire(r) ==
  /\ ~lucky
  /\ r \notin completed
  /\ Moves(r, "waiting", "expired")
  /\ UNCHANGED <<pending, completed, topic, replies, processVars, runs>>

\* ... and the entry is dropped later: a reply in between is taken in vain.
Abandon(r) ==
  /\ Moves(r, "expired", "none")
  /\ pending' = pending \ {r}
  /\ UNCHANGED <<completed, topic, replies, processVars, runs>>

-----------------------------------------------------------------------------
(* The consumer thread of the component. *)

\* subscribe: from the committed offset, the earliest record if there is none.
Start ==
  /\ ~up
  /\ up' = TRUE
  /\ warmUp' = WarmUpPolls
  /\ position' = committed
  /\ UNCHANGED <<callerVars, topic, replies, committed, batch, running, stops,
                 lucky, runs>>

\* A poll returns the records up to n; what earlier polls returned may be
\* committed by it.
Gets(n) ==
  /\ n \in position .. Len(topic)
  /\ position' = n
  /\ committed' \in {committed, position}

\* The records are thrown away.
WarmUpPoll(n) ==
  /\ up /\ warmUp > 0
  /\ Gets(n)
  /\ warmUp' = warmUp - 1
  /\ UNCHANGED <<callerVars, topic, replies, up, batch, running, stops,
                 lucky, runs>>

Poll(n) ==
  /\ up /\ warmUp = 0
  /\ batch = <<>> /\ running = None
  /\ Gets(n)
  /\ batch' = SubSeq(topic, position + 1, n)
  /\ UNCHANGED <<callerVars, topic, replies, up, warmUp, running, stops,
                 lucky, runs>>

\* BaseComponent._handle_message up to the handler's result or exception ...
Handle ==
  /\ batch # <<>> /\ running = None
  /\ running' = Head(batch)
  /\ batch' = Tail(batch)
  /\ runs' = [runs EXCEPT ![Head(batch)] = @ + 1]
  /\ UNCHANGED <<callerVars, topic, replies, up, warmUp, position, committed, stops,
                 lucky>>

\* Mutant: responses are published only while more work waits.
RespondBatched ==
  /\ running # None
  /\ replies' = IF batch = <<>> THEN replies ELSE Append(replies, running)
  /\ running' = None
  /\ UNCHANGED <<callerVars, topic, up, warmUp, position, committed, batch, stops,
                 lucky, runs>>

\* Mutant: the whole batch is acknowledged.
RespondEarly ==
  /\ running # None
  /\ replies' = replies \o <<running>> \o batch
  /\ running' = None
  /\ UNCHANGED <<callerVars, topic, up, warmUp, position, committed, batch, stops,
                 lucky, runs>>

\* Mutant: when the publication fails the message is handled again.
RespondRetrying ==
  /\ running # None
  /\ \/ replies' = Append(replies, running) /\ batch' = batch
     \/ ~lucky /\ replies' = replies /\ batch' = <<running>> \o batch
  /\ running' = None
  /\ UNCHANGED <<callerVars, topic, up, warmUp, position, committed, stops,
                 lucky, runs>>

\* ... which is published as the response; a failed publication is ignored.
Respond ==
  /\ running # None
  /\ \/ replies' = Append(replies, running)
     \/ ~lucky /\ replies' = replies
  /\ running' = None
  /\ UNCHANGED <<callerVars, topic, up, warmUp, position, committed, batch, stops,
                 lucky, runs>>

\* stop waits two seconds for the consumer thread; closing the consumer then
\* commits its position, handled or not.  A crash commits nothing.
Stop(offset) ==
  /\ up /\ ~lucky
  /\ stops < MaxStops
  /\ stops' = stops + 1
  /\ up' = FALSE
  /\ committed' = offset
  /\ batch' = <<>> /\ running' = None
  /\ warmUp' = 0
  /\ UNCHANGED <<callerVars, topic, replies, position, lucky, runs>>

-----------------------------------------------------------------------------
CallerStep(r) ==
  Publish(r) \/ PublishFails(r) \/ Return(r) \/ Expire(r) \/ Abandon(r)

ConsumerStep ==
  \/ \E n \in 0 .. Len(topic) : WarmUpPoll(n) \/ Poll(n)
  \/ Handle \/ Respond

Next ==
  \/ \E r \in Requests : Request(r) \/ CallerStep(r)
  \/ HandleReply
  \/ Start \/ ConsumerStep
  \/ Stop(committed) \/ Stop(position)

Spec == Init /\ [][Next]_vars

\* Callers, both consumer threads and the supervisor of the process go on, and
\* in the end a poll returns all there is.
FairSpec == /\ Spec
            /\ \A r \in Requests : WF_vars(CallerStep(r))
            /\ WF_vars(HandleReply) /\ WF_vars(Start)
            /\ WF_vars(\E n \in 0 .. Len(topic) : WarmUpPoll(n))
            /\ WF_vars(Poll(Len(topic)))
            /\ WF_vars(Handle) /\ WF_vars(Respond)

-----------------------------------------------------------------------------
(* Properties. *)

\* request() keeps the promise of SystemBus: one outcome, and an answer only
\* from a handler that ran for this request, whatever is redelivered, late or
\* lost.
Outcome(r) == IF stage[r] \in {"publishing", "waiting", "expired"} THEN "open"
              ELSE stage[r]

RR == INSTANCE RequestReply
        WITH outcome <- [r \in Requests |-> Outcome(r)],
             handled <- {r \in Requests : runs[r] > 0}

ImplementsRequestReply == RR!Spec

\* The table of pending requests holds exactly the calls that are open and
\* have no result: no ended call leaks an entry, no reply is given twice.
PendingAreOpen ==
  pending = {r \in Requests : Outcome(r) = "open"} \ completed

\* A handler runs again for a request only after another stop of its process.
RerunOnlyAfterStop == \A r \in Requests : runs[r] <= 1 + stops

\* A request published when the component is past its warm-up is answered, if
\* nothing times out, fails or stops: the handlers and the two consumers never
\* wait for each other.
WarmRequestsAnswered ==
  \A r \in Requests :
    lucky /\ stage[r] = "publishing" /\ up /\ warmUp = 0 ~> stage[r] = "answered"
=============================================================================
