----------------------------- MODULE Bus_proofs -----------------------------
(***************************************************************************)
(* Theorems about KafkaBus and SystemBus, for every set of requests and    *)
(* every number of stops and warm-up polls.                                *)
(*                                                                         *)
(* KafkaBus.  The table of pending requests needs nothing but itself       *)
(* (Pend).  How often a handler runs rests on where the consumer stands in *)
(* the topic: the batch is the window of the topic that ends at the        *)
(* position (Window), each request is in the topic at most once (Once),    *)
(* and what is to the right of what was handled has run at most once per   *)
(* earlier stop (Fresh).                                                   *)
(*                                                                         *)
(* SystemBus.  The pool keeps no order, but over either broker a message   *)
(* is about a call that was made (Asked), and a reply about a handler that *)
(* ran (Answerable).  How often a handler runs is bounded by the copies of *)
(* its request that are still to be handled (Copies).                      *)
(***************************************************************************)
EXTENDS SystemBus, FiniteSetTheorems, SequenceTheorems, TLAPS

\* The topic, the replies and the batch are sequences of requests.
SequencesOK == /\ topic \in Seq(Requests)
              /\ replies \in Seq(Requests)
              /\ batch \in Seq(Requests)

\* The pending table, and: a call that has not begun has no result.
Pend == /\ PendingAreOpen
        /\ \A r \in Requests : stage[r] = "idle" => r \notin completed

\* The record of r can be in the topic.
Sent(r) == stage[r] \notin {"idle", "publishing"}

\* A record is written by the one publication of its request.
Once == /\ \A i \in 1 .. Len(topic) : Sent(topic[i])
        /\ \A i, j \in 1 .. Len(topic) : topic[i] = topic[j] => i = j
        /\ \A r \in Requests : ~Sent(r) => runs[r] = 0

\* The number of records got and handled, or thrown away.
Done == position - Len(batch)

\* The batch is the end of what was got.
Window == /\ Len(batch) <= position
          /\ \A k \in 1 .. Len(batch) : batch[k] = topic[Done + k]
          /\ warmUp > 0 => batch = <<>>

\* What is still to be handled has run at most once per stop; a process that
\* is down has nothing under way.
Fresh == /\ \A i \in 1 .. Len(topic) : i > Done => runs[topic[i]] <= stops
         /\ ~up => /\ batch = <<>> /\ running = None
                   /\ \A r \in Requests : runs[r] <= stops
         /\ RerunOnlyAfterStop

\* An answer, at every place it can be, comes from a handler that ran.
Ran == /\ running # None => runs[running] > 0
       /\ \A i \in 1 .. Len(replies) : runs[replies[i]] > 0
       /\ \A r \in completed : runs[r] > 0

\* The inductive invariant.
IInv == TypeOK /\ SequencesOK /\ Pend /\ Once /\ Window /\ Fresh /\ Ran

-----------------------------------------------------------------------------
(* The initial state, and the table of pending requests. *)

\* Nothing has been asked, sent or handled.
LEMMA InvInit == Init => IInv
<1> SUFFICES ASSUME Init PROVE IInv
  OBVIOUS
<1>1. TypeOK
  <2>1. Len(topic) = 0
    BY DEF Init
  <2>2. /\ stage \in [Requests -> Stage]
        /\ runs \in [Requests -> 0 .. MaxStops + 1]
    BY KafkaBusAssumption DEF Init, Stage
  <2>3. /\ warmUp \in 0 .. WarmUpPolls
        /\ position \in 0 .. 0 /\ committed \in 0 .. 0
        /\ stops \in 0 .. MaxStops
    BY KafkaBusAssumption DEF Init
  <2> QED
    BY <2>1, <2>2, <2>3 DEF Init, TypeOK
<1>2. SequencesOK
  BY EmptySeq DEF Init, SequencesOK
<1>3. Pend
  BY DEF Init, Pend, PendingAreOpen, Outcome
<1>4. Once /\ Window /\ Ran
  BY DEF Init, Once, Sent, Window, Done, Ran
<1>5. Fresh
  BY KafkaBusAssumption DEF Init, Fresh, Done, RerunOnlyAfterStop
<1> QED
  BY <1>1, <1>2, <1>3, <1>4, <1>5 DEF IInv

\* Every step keeps the table exact: an entry appears with its call, and goes
\* with its result or with the call's end.
LEMMA PendStep ==
  ASSUME TypeOK, Pend, [Next]_vars
  PROVE  Pend'
<1> USE DEF Pend, PendingAreOpen, Outcome, TypeOK
<1>1. ASSUME NEW r \in Requests, Request(r)
      PROVE  Pend'
  BY <1>1 DEF Request, Moves
<1>2. ASSUME NEW r \in Requests, Publish(r)
      PROVE  Pend'
  BY <1>2 DEF Publish, Moves
<1>3. ASSUME NEW r \in Requests, PublishFails(r)
      PROVE  Pend'
  BY <1>3 DEF PublishFails, Moves
<1>4. ASSUME NEW r \in Requests, Return(r)
      PROVE  Pend'
  BY <1>4 DEF Return, Moves
<1>5. ASSUME NEW r \in Requests, Expire(r)
      PROVE  Pend'
  BY <1>5 DEF Expire, Moves
<1>6. ASSUME NEW r \in Requests, Abandon(r)
      PROVE  Pend'
  BY <1>6 DEF Abandon, Moves
<1>7. CASE HandleReply
  BY <1>7 DEF HandleReply
<1>8. CASE Start \/ ConsumerStep \/ Stop(committed) \/ Stop(position) \/ UNCHANGED vars
  <2>1. UNCHANGED callerVars
    BY <1>8 DEF Start, ConsumerStep, WarmUpPoll, Poll, Handle, Respond, Stop, vars
  <2> QED
    BY <2>1 DEF callerVars
<1> QED
  BY <1>1, <1>2, <1>3, <1>4, <1>5, <1>6, <1>7, <1>8 DEF Next, CallerStep

-----------------------------------------------------------------------------
(* The steps of the callers. *)

\* Where the batch lies in the topic.
LEMMA WindowRange ==
  ASSUME TypeOK, SequencesOK, Window
  PROVE  /\ Len(topic) \in Nat /\ Len(batch) \in Nat /\ Done \in Nat
         /\ position \in Nat /\ position <= Len(topic)
         /\ Done + Len(batch) = position
         /\ \A k \in 1 .. Len(batch) : Done + k \in 1 .. Len(topic)
<1>1. Len(topic) \in Nat /\ Len(batch) \in Nat
  BY LenProperties DEF SequencesOK
<1>2. position \in 0 .. Len(topic) /\ Len(batch) <= position
  BY DEF TypeOK, Window
<1> QED
  BY <1>1, <1>2 DEF Done

\* A caller that moves on, without its record becoming sent, disturbs nothing
\* outside its own call.
LEMMA QuietCaller ==
  ASSUME IInv, NEW r \in Requests,
         Request(r) \/ Return(r) \/ Expire(r) \/ Abandon(r)
  PROVE  IInv'
<1>1. Pend'
  BY PendStep DEF IInv, Next, CallerStep
<1>2. /\ UNCHANGED <<completed, topic, replies, processVars, runs>>
      /\ stage' \in [Requests -> Stage]
      /\ \A q \in Requests : Sent(q)' <=> Sent(q)
  BY DEF Request, Return, Expire, Abandon, Moves, Sent, IInv, TypeOK, Stage
<1>3. pending' \subseteq Requests
  BY DEF Request, Return, Expire, Abandon, IInv, TypeOK
<1>4. TypeOK' /\ SequencesOK'
  BY <1>2, <1>3 DEF IInv, TypeOK, SequencesOK, processVars
<1>5. Once'
  BY <1>2, ElementOfSeq DEF IInv, Once, SequencesOK, processVars
<1>6. Window' /\ Fresh' /\ Ran'
  BY <1>2 DEF IInv, Window, Done, Fresh, RerunOnlyAfterStop, Ran, processVars
<1> QED
  BY <1>1, <1>4, <1>5, <1>6 DEF IInv

\* A publication writes the record of a request that had none to the end of
\* the topic, or nothing.
LEMMA Publication ==
  ASSUME IInv, NEW r \in Requests, Publish(r) \/ PublishFails(r)
  PROVE  IInv'
<1> USE DEF IInv
<1>1. Pend'
  BY PendStep DEF Next, CallerStep
<1>2. /\ UNCHANGED <<completed, replies, processVars, runs>>
      /\ pending' \subseteq Requests
      /\ topic' = topic \/ topic' = Append(topic, r)
      /\ stage' \in [Requests -> Stage]
      /\ ~Sent(r) /\ Sent(r)'
      /\ \A q \in Requests : q # r => (Sent(q)' <=> Sent(q))
  BY DEF Publish, PublishFails, Moves, Sent, TypeOK, Stage
<1>3. CASE topic' = topic
  <2>1. TypeOK' /\ SequencesOK'
    BY <1>2, <1>3 DEF TypeOK, SequencesOK, processVars
  <2>2. Once'
    BY <1>2, <1>3, ElementOfSeq DEF Once, SequencesOK, processVars
  <2>3. Window' /\ Fresh' /\ Ran'
    BY <1>2, <1>3 DEF Window, Done, Fresh, RerunOnlyAfterStop, Ran, processVars
  <2> QED
    BY <1>1, <2>1, <2>2, <2>3
<1>4. CASE topic' = Append(topic, r)
  <2>1. /\ topic' \in Seq(Requests)
        /\ Len(topic) \in Nat
        /\ Len(topic') = Len(topic) + 1
        /\ \A i \in 1 .. Len(topic) : topic'[i] = topic[i] /\ topic[i] \in Requests
        /\ topic'[Len(topic) + 1] = r
    BY <1>4, AppendProperties, ElementOfSeq, LenProperties DEF SequencesOK
  <2>2. TypeOK' /\ SequencesOK'
    BY <1>2, <2>1 DEF TypeOK, SequencesOK, processVars
  <2>3. \A i \in 1 .. Len(topic) : topic[i] # r
    BY <1>2 DEF Once
  <2>4. \A i \in 1 .. Len(topic') : i \in 1 .. Len(topic) \/ i = Len(topic) + 1
    BY <2>1
  <2>5. Once'
    BY <1>2, <2>1, <2>3, <2>4 DEF Once
  <2>6. Done' = Done /\ Done \in Nat
    BY <1>2, WindowRange DEF Done, processVars
  <2>7. \A k \in 1 .. Len(batch) : Done + k \in 1 .. Len(topic)
    BY WindowRange
  <2>8. Window'
    BY <1>2, <2>1, <2>6, <2>7 DEF Window, processVars
  <2>9. runs[r] <= stops
    BY <1>2 DEF Once, TypeOK
  <2>10. Fresh'
    BY <1>2, <2>1, <2>4, <2>6, <2>9 DEF Fresh, RerunOnlyAfterStop, processVars
  <2> QED
    BY <1>1, <1>2, <2>2, <2>5, <2>8, <2>10 DEF Ran, processVars
<1> QED
  BY <1>2, <1>3, <1>4

\* A reply is taken from the reply topic; its request may get its result.
LEMMA ReplyTaken ==
  ASSUME IInv, HandleReply
  PROVE  IInv'
<1> USE DEF IInv
<1>1. Pend'
  BY PendStep DEF Next
<1>2. /\ UNCHANGED <<stage, topic, processVars, runs>>
      /\ replies' \in Seq(Requests)
      /\ Head(replies) = replies[1] /\ 1 \in 1 .. Len(replies)
      /\ \A i \in 1 .. Len(replies') : /\ i + 1 \in 1 .. Len(replies)
                                      /\ replies'[i] = replies[i + 1]
  BY HeadTailProperties, LenProperties DEF HandleReply, SequencesOK
<1>3. /\ pending' \subseteq Requests
      /\ completed' \subseteq completed \cup {Head(replies)}
      /\ completed' \subseteq Requests
  BY DEF HandleReply, TypeOK
<1>4. TypeOK' /\ SequencesOK'
  BY <1>2, <1>3 DEF TypeOK, SequencesOK, processVars
<1>5. Once' /\ Window' /\ Fresh'
  BY <1>2 DEF Once, Sent, Window, Done, Fresh, RerunOnlyAfterStop, processVars
<1>6. Ran'
  BY <1>2, <1>3 DEF Ran, processVars
<1> QED
  BY <1>1, <1>4, <1>5, <1>6

-----------------------------------------------------------------------------
(* The steps of the component's process. *)

\* A new consumer goes on from the committed offset, left or right of where
\* the last one stood; all that ran before ran before a stop.
LEMMA Started ==
  ASSUME IInv, Start
  PROVE  IInv'
<1> USE DEF IInv
<1>1. Pend'
  BY PendStep DEF Next
<1>2. /\ UNCHANGED <<callerVars, topic, replies, committed, batch, running, stops,
                     lucky, runs>>
      /\ up' = TRUE /\ warmUp' = WarmUpPolls /\ position' = committed
      /\ batch = <<>> /\ running = None
      /\ \A r \in Requests : runs[r] <= stops
  BY DEF Start, Fresh
<1>3. Len(batch) = 0 /\ Len(topic) \in Nat /\ committed \in 0 .. Len(topic)
  BY <1>2, LenProperties DEF TypeOK, SequencesOK
<1>4. TypeOK' /\ SequencesOK'
  BY <1>2, <1>3, KafkaBusAssumption DEF TypeOK, SequencesOK, callerVars
<1>5. Once' /\ Ran'
  BY <1>2 DEF Once, Sent, Ran, callerVars
<1>6. Window'
  BY <1>2, <1>3 DEF Window
<1>7. Fresh'
  BY <1>2, ElementOfSeq DEF Fresh, SequencesOK, RerunOnlyAfterStop
<1> QED
  BY <1>1, <1>4, <1>5, <1>6, <1>7

\* A warm-up poll moves the window, which is empty, to the right.
LEMMA WarmedUp ==
  ASSUME IInv, NEW n \in 0 .. Len(topic), WarmUpPoll(n)
  PROVE  IInv'
<1> USE DEF IInv
<1>1. Pend'
  BY PendStep DEF Next, ConsumerStep
<1>2. /\ UNCHANGED <<callerVars, topic, replies, up, batch, running, stops, lucky,
                     runs>>
      /\ up /\ warmUp > 0 /\ warmUp' = warmUp - 1
      /\ n \in position .. Len(topic) /\ position' = n
      /\ committed' \in {committed, position}
  BY DEF WarmUpPoll, Gets
<1>3. batch = <<>> /\ Len(batch) = 0
  BY <1>2 DEF Window
<1>4. Len(topic) \in Nat /\ position \in Nat /\ Done = position
  BY <1>3, WindowRange
<1>5. warmUp' \in 0 .. WarmUpPolls
  BY <1>2, KafkaBusAssumption DEF TypeOK
<1>6. TypeOK' /\ SequencesOK'
  BY <1>2, <1>4, <1>5 DEF TypeOK, SequencesOK, callerVars
<1>7. Once' /\ Ran'
  BY <1>2 DEF Once, Sent, Ran, callerVars
<1>8. Window' /\ Done' = n
  BY <1>2, <1>3, <1>4 DEF Window, Done
<1>9. Fresh'
  BY <1>2, <1>4, <1>8 DEF Fresh, RerunOnlyAfterStop
<1> QED
  BY <1>1, <1>6, <1>7, <1>8, <1>9

\* A poll fills the batch with the records that follow.
LEMMA Polled ==
  ASSUME IInv, NEW n \in 0 .. Len(topic), Poll(n)
  PROVE  IInv'
<1> USE DEF IInv
<1>1. Pend'
  BY PendStep DEF Next, ConsumerStep
<1>2. /\ UNCHANGED <<callerVars, topic, replies, up, warmUp, running, stops, lucky,
                     runs>>
      /\ up /\ warmUp = 0 /\ batch = <<>> /\ Len(batch) = 0
      /\ n \in position .. Len(topic) /\ position' = n
      /\ committed' \in {committed, position}
      /\ batch' = SubSeq(topic, position + 1, n)
  BY DEF Poll, Gets
<1>3. Len(topic) \in Nat /\ position \in Nat /\ Done = position
  BY <1>2, WindowRange
<1>4. /\ batch' \in Seq(Requests)
      /\ Len(batch') = n - position
      /\ \A k \in 1 .. Len(batch') : batch'[k] = topic[position + k]
  <2>1. /\ \A i \in position + 1 .. n : i \in 1 .. Len(topic)
        /\ position + 1 \in 1 .. Len(topic) + 1
        /\ n \in position .. Len(topic)
    BY <1>2, <1>3
  <2> QED
    BY <1>2, <1>3, <2>1, SubSeqProperties DEF SequencesOK
<1>5. TypeOK' /\ SequencesOK'
  BY <1>2, <1>3, <1>4 DEF TypeOK, SequencesOK, callerVars
<1>6. Once' /\ Ran'
  BY <1>2 DEF Once, Sent, Ran, callerVars
<1>7. Window' /\ Done' = Done
  BY <1>2, <1>3, <1>4 DEF Window, Done
<1>8. Fresh'
  BY <1>2, <1>7 DEF Fresh, RerunOnlyAfterStop
<1> QED
  BY <1>1, <1>5, <1>6, <1>7, <1>8

\* The first record of the batch is handled: it is nowhere else to the right.
LEMMA Handled ==
  ASSUME IInv, Handle
  PROVE  IInv'
<1> USE DEF IInv
<1> DEFINE h == Head(batch)
<1>1. Pend'
  BY PendStep DEF Next, ConsumerStep
<1>2. /\ UNCHANGED <<callerVars, topic, replies, up, warmUp, position, committed,
                     stops, lucky>>
      /\ batch # <<>> /\ running' = h /\ batch' = Tail(batch)
      /\ runs' = [runs EXCEPT ![h] = @ + 1]
  BY DEF Handle
<1>3. /\ h = batch[1] /\ h \in Requests
      /\ Len(batch) \in Nat \ {0}
      /\ batch' \in Seq(Requests) /\ Len(batch') = Len(batch) - 1
      /\ \A k \in 1 .. Len(batch') : batch'[k] = batch[k + 1]
  BY <1>2, HeadTailProperties, LenProperties DEF SequencesOK
<1>4. /\ Len(topic) \in Nat /\ position \in Nat /\ Done \in Nat
      /\ Done + Len(batch) = position
      /\ Done + 1 \in 1 .. Len(topic) /\ h = topic[Done + 1]
      /\ Done' = Done + 1
  BY <1>2, <1>3, WindowRange DEF Window, Done
<1>5. /\ runs[h] \in Nat /\ stops \in Nat /\ stops <= MaxStops
      /\ runs[h] <= stops
      /\ runs'[h] = runs[h] + 1
      /\ \A r \in Requests : r # h => runs'[r] = runs[r]
  BY <1>2, <1>3, <1>4, KafkaBusAssumption DEF Fresh, TypeOK
<1>6. runs' \in [Requests -> 0 .. MaxStops + 1]
  BY <1>2, <1>3, <1>5, KafkaBusAssumption DEF TypeOK
<1>7. TypeOK' /\ SequencesOK'
  BY <1>2, <1>3, <1>6 DEF TypeOK, SequencesOK, callerVars
<1>8. Once'
  BY <1>2, <1>3, <1>4, <1>5 DEF Once, Sent, callerVars
<1>9. Window'
  BY <1>2, <1>3, <1>4 DEF Window
<1>10. ASSUME NEW i \in 1 .. Len(topic), i > Done'
       PROVE  runs'[topic[i]] <= stops
  <2>1. topic[i] # h /\ topic[i] \in Requests
    BY <1>4, <1>10, ElementOfSeq DEF Once, SequencesOK
  <2>2. i > Done
    BY <1>4, <1>10
  <2> QED
    BY <1>5, <2>1, <2>2 DEF Fresh
<1>11. Fresh'
  BY <1>2, <1>5, <1>10 DEF Fresh, RerunOnlyAfterStop, TypeOK
<1>12. Ran'
  BY SMTT(20), <1>2, <1>3, <1>5, ElementOfSeq DEF Ran, callerVars, SequencesOK, TypeOK
<1> QED
  BY <1>1, <1>7, <1>8, <1>9, <1>11, <1>12

\* The response of a handler that ran is published, or lost.
LEMMA Responded ==
  ASSUME IInv, Respond
  PROVE  IInv'
<1> USE DEF IInv
<1>1. Pend'
  BY PendStep DEF Next, ConsumerStep
<1>2. /\ UNCHANGED <<callerVars, topic, up, warmUp, position, committed, batch,
                     stops, lucky, runs>>
      /\ running # None /\ running' = None
      /\ replies' = replies \/ replies' = Append(replies, running)
  BY DEF Respond
<1>3. running \in Requests /\ runs[running] > 0
  BY <1>2 DEF TypeOK, Ran
<1>4. /\ replies' \in Seq(Requests)
      /\ \A i \in 1 .. Len(replies') :
           \/ replies'[i] = running
           \/ i \in 1 .. Len(replies) /\ replies'[i] = replies[i]
  <2>1. CASE replies' = replies
    BY <2>1 DEF SequencesOK
  <2>2. CASE replies' = Append(replies, running)
    <3>1. /\ replies' \in Seq(Requests)
          /\ Len(replies) \in Nat /\ Len(replies') = Len(replies) + 1
          /\ \A i \in 1 .. Len(replies) : replies'[i] = replies[i]
          /\ replies'[Len(replies) + 1] = running
      BY <1>3, <2>2, AppendProperties, LenProperties DEF SequencesOK
    <3>2. \A i \in 1 .. Len(replies') : i \in 1 .. Len(replies) \/ i = Len(replies) + 1
      BY <3>1
    <3> QED
      BY <3>1, <3>2
  <2> QED
    BY <1>2, <2>1, <2>2
<1>5. TypeOK' /\ SequencesOK'
  BY <1>2, <1>4 DEF TypeOK, SequencesOK, callerVars
<1>6. Once' /\ Window' /\ Fresh'
  BY <1>2 DEF Once, Sent, Window, Done, Fresh, RerunOnlyAfterStop, callerVars
<1>7. Ran'
  BY <1>2, <1>3, <1>4 DEF Ran, callerVars
<1> QED
  BY <1>1, <1>5, <1>6, <1>7

\* A stop counts, so all that ran is within the new count, whatever offset
\* stays committed.
LEMMA Stopped ==
  ASSUME IInv, NEW offset \in {committed, position}, Stop(offset)
  PROVE  IInv'
<1> USE DEF IInv
<1>1. Pend'
  BY PendStep DEF Next
<1>2. /\ UNCHANGED <<callerVars, topic, replies, position, lucky, runs>>
      /\ stops < MaxStops /\ stops' = stops + 1
      /\ up' = FALSE /\ committed' = offset
      /\ batch' = <<>> /\ running' = None /\ warmUp' = 0
  BY DEF Stop
<1>3. Len(topic) \in Nat /\ position \in Nat /\ Len(batch') = 0
  BY <1>2, WindowRange
<1>4. stops' \in 0 .. MaxStops
  BY <1>2, KafkaBusAssumption DEF TypeOK
<1>5. TypeOK' /\ SequencesOK'
  <2>1. offset \in 0 .. Len(topic)
    BY DEF TypeOK
  <2>2. SequencesOK'
    BY <1>2, EmptySeq DEF SequencesOK
  <2>3. up' \in BOOLEAN /\ running' \in Requests \cup {None}
    BY <1>2
  <2>4. warmUp' \in 0 .. WarmUpPolls
    BY <1>2, KafkaBusAssumption
  <2>5. /\ topic' = topic
        /\ committed' \in 0 .. Len(topic) /\ position' \in 0 .. Len(topic)
    BY <1>2, <2>1 DEF TypeOK
  <2> QED
    BY <1>2, <1>4, <2>2, <2>3, <2>4, <2>5 DEF TypeOK, callerVars
<1>6. Once' /\ Ran'
  BY <1>2 DEF Once, Sent, Ran, callerVars
<1>7. Window'
  BY <1>2, <1>3 DEF Window
<1>8. \A r \in Requests : runs'[r] <= stops'
  BY <1>2 DEF Fresh, RerunOnlyAfterStop, TypeOK
<1>9. Fresh'
  BY SMTT(20), <1>2, <1>4, <1>8, ElementOfSeq DEF Fresh, RerunOnlyAfterStop, SequencesOK, TypeOK
<1> QED
  BY <1>1, <1>5, <1>6, <1>7, <1>9

-----------------------------------------------------------------------------
(* The invariants. *)

\* Every step of the callers and of the process preserves the invariant.
LEMMA InvStep == IInv /\ [Next]_vars => IInv'
<1> SUFFICES ASSUME IInv, [Next]_vars PROVE IInv'
  OBVIOUS
<1>1. ASSUME NEW r \in Requests, Request(r) \/ CallerStep(r)
      PROVE  IInv'
  BY <1>1, QuietCaller, Publication DEF CallerStep
<1>2. CASE HandleReply
  BY <1>2, ReplyTaken
<1>3. CASE Start
  BY <1>3, Started
<1>4. CASE ConsumerStep
  BY <1>4, WarmedUp, Polled, Handled, Responded DEF ConsumerStep
<1>5. CASE Stop(committed) \/ Stop(position)
  BY <1>5, Stopped
<1>6. CASE UNCHANGED vars
  BY <1>6 DEF vars, callerVars, processVars, IInv, TypeOK, SequencesOK, Pend,
              PendingAreOpen, Outcome, Once, Sent, Window, Done, Fresh,
              RerunOnlyAfterStop, Ran
<1> QED
  BY <1>1, <1>2, <1>3, <1>4, <1>5, <1>6 DEF Next

\* The inductive invariant holds in every reachable state of the bus.
LEMMA Invariance == Spec => []IInv
BY InvInit, InvStep, PTL DEF Spec

\* The fields of the callers' bus and of the component's consumer keep their
\* type; offsets stay within the topic.
THEOREM BusTypeCorrect == Spec => []TypeOK
<1>1. IInv => TypeOK
  BY DEF IInv
<1> QED
  BY <1>1, Invariance, PTL

\* _pending_requests holds exactly the open calls without a result, whatever
\* expires, is lost or comes late: request() leaks no entry.
THEOREM PendingExact == Spec => []PendingAreOpen
<1>1. IInv => PendingAreOpen
  BY DEF IInv, Pend
<1> QED
  BY <1>1, Invariance, PTL

\* A handler runs for a request at most once more than its process stopped,
\* for every number of requests and wherever the offsets are committed.
THEOREM RerunsCounted == Spec => []RerunOnlyAfterStop
<1>1. IInv => RerunOnlyAfterStop
  BY DEF IInv, Fresh
<1> QED
  BY <1>1, Invariance, PTL

-----------------------------------------------------------------------------
(* The bus implements RequestReply: a call opens, ends and is answered at   *)
(* its caller's steps and is handled at the component's; every other step   *)
(* is a stutter.                                                            *)

outcomeOf == [r \in Requests |-> Outcome(r)]
handledOf == {r \in Requests : runs[r] > 0}

\* No call has begun.
LEMMA ReplyInit == Init => RR!Init
BY DEF Init, RR!Init, Outcome

\* A step that changes neither the callers' stages nor the runs is invisible.
LEMMA ReplyStutter ==
  ASSUME UNCHANGED <<stage, runs>>
  PROVE  UNCHANGED <<outcomeOf, handledOf>>
BY DEF outcomeOf, handledOf, Outcome

\* A step of one caller changes the outcome of its own call.
LEMMA OutcomeStep ==
  ASSUME TypeOK, NEW r \in Requests, NEW s, NEW t, Moves(r, s, t)
  PROVE  /\ stage[r] = s /\ stage'[r] = t
         /\ outcomeOf' = [outcomeOf EXCEPT ![r] = Outcome(r)']
BY DEF Moves, TypeOK, Outcome, outcomeOf

\* Every step of the bus is a step of RequestReply or a stutter.
LEMMA ReplyStep ==
  IInv /\ [Next]_vars => [RR!Next]_<<outcomeOf, handledOf>>
<1> SUFFICES ASSUME IInv, [Next]_vars
             PROVE  RR!Next \/ UNCHANGED <<outcomeOf, handledOf>>
  OBVIOUS
<1>0. TypeOK
  BY DEF IInv
<1>1. ASSUME NEW r \in Requests, Request(r)
      PROVE  RR!Next
  <2>1. /\ stage[r] = "idle" /\ stage'[r] = "publishing" /\ UNCHANGED handledOf
        /\ outcomeOf' = [outcomeOf EXCEPT ![r] = Outcome(r)']
    BY <1>0, <1>1, OutcomeStep DEF Request, handledOf
  <2>2. RR!Call(r)
    BY <2>1 DEF RR!Call, outcomeOf, handledOf, Outcome
  <2> QED
    BY <2>2 DEF RR!Next
<1>2. ASSUME NEW r \in Requests, Publish(r) \/ Expire(r)
      PROVE  UNCHANGED <<outcomeOf, handledOf>>
  <2>1. /\ \/ stage[r] = "publishing" /\ stage'[r] = "waiting"
           \/ stage[r] = "waiting" /\ stage'[r] = "expired"
        /\ UNCHANGED handledOf
        /\ outcomeOf' = [outcomeOf EXCEPT ![r] = Outcome(r)']
    BY <1>0, <1>2, OutcomeStep DEF Publish, Expire, handledOf
  <2> QED
    BY <2>1 DEF outcomeOf, Outcome
<1>3. ASSUME NEW r \in Requests, PublishFails(r) \/ Abandon(r)
      PROVE  RR!Next
  <2>1. /\ stage[r] \in {"publishing", "expired"} /\ stage'[r] = "none"
        /\ UNCHANGED handledOf
        /\ outcomeOf' = [outcomeOf EXCEPT ![r] = Outcome(r)']
    BY <1>0, <1>3, OutcomeStep DEF PublishFails, Abandon, handledOf
  <2>2. RR!GiveUp(r)
    BY <2>1 DEF RR!GiveUp, outcomeOf, handledOf, Outcome
  <2> QED
    BY <2>2 DEF RR!Next
<1>4. ASSUME NEW r \in Requests, Return(r)
      PROVE  RR!Next
  <2>1. /\ stage[r] = "waiting" /\ stage'[r] = "answered" /\ UNCHANGED handledOf
        /\ outcomeOf' = [outcomeOf EXCEPT ![r] = Outcome(r)']
    BY <1>0, <1>4, OutcomeStep DEF Return, handledOf
  <2>2. r \in handledOf
    BY <1>4 DEF Return, IInv, Ran, handledOf
  <2>3. RR!Answer(r)
    BY <2>1, <2>2 DEF RR!Answer, outcomeOf, handledOf, Outcome
  <2> QED
    BY <2>3 DEF RR!Next
<1>5. CASE Handle
  <2>1. PICK h \in Requests : h = Head(batch)
    BY <1>5, HeadTailProperties DEF Handle, IInv, SequencesOK
  <2>2. Done + 1 \in 1 .. Len(topic) /\ h = topic[Done + 1]
    <3>1. h = batch[1] /\ 1 \in 1 .. Len(batch)
      BY <1>5, <2>1, HeadTailProperties, LenProperties DEF Handle, IInv, SequencesOK
    <3> QED
      BY <3>1, WindowRange DEF IInv, Window
  <2>3. Sent(h)
    BY <2>2 DEF IInv, Once
  <2>4. runs' = [runs EXCEPT ![h] = @ + 1] /\ UNCHANGED stage
    BY <1>5, <2>1 DEF Handle, callerVars
  <2>5. handledOf' = handledOf \cup {h}
    BY <1>0, <2>1, <2>4 DEF handledOf, TypeOK
  <2>6. RR!Handle(h)
    BY <2>1, <2>3, <2>4, <2>5 DEF RR!Handle, outcomeOf, handledOf, Outcome, Sent
  <2> QED
    BY <2>6 DEF RR!Next
<1>6. CASE \/ HandleReply \/ Start \/ Respond \/ Stop(committed) \/ Stop(position)
           \/ \E n \in 0 .. Len(topic) : WarmUpPoll(n) \/ Poll(n)
           \/ UNCHANGED vars
  <2>1. UNCHANGED <<stage, runs>>
    BY <1>6 DEF HandleReply, Start, Respond, Stop, WarmUpPoll, Poll, vars, callerVars
  <2> QED
    BY <2>1, ReplyStutter
<1> QED
  BY <1>1, <1>2, <1>3, <1>4, <1>5, <1>6 DEF Next, CallerStep, ConsumerStep

\* request() over Kafka gives each call one outcome, and an answer only from a
\* handler that ran for it, whatever is redelivered, lost or late: every run
\* of the bus is a run of RequestReply.
THEOREM RequestReplyRefinement == Spec => ImplementsRequestReply
<1>1. IInv /\ [Next]_vars => [RR!Next]_<<outcomeOf, handledOf>>
  BY ReplyStep
<1> QED
  BY <1>1, ReplyInit, Invariance, PTL
  DEF Spec, ImplementsRequestReply, RR!Spec, outcomeOf, handledOf

-----------------------------------------------------------------------------
(***************************************************************************)
(* Theorems about SystemBus, for both brokers, every set of requests,      *)
(* every number of disturbances and every size of the pool.  Where Kafka   *)
(* keeps its records in order, MQTT loses, doubles and reorders messages:  *)
(* what still holds of both is that a message is about a call that was     *)
(* made (Asked) and an answer about a handler that ran (Answerable).       *)
(***************************************************************************)

\* What is in the topic or waits for a worker was sent.
Asked == {r \in Requests : Sent(r)}

\* What is on its way back comes from a handler that ran.
Answerable == {r \in Requests : runs[r] > 0}

\* The types the argument needs.
BusTypes ==
  /\ stage \in [Requests -> Stage]
  /\ pending \subseteq Requests
  /\ runs \in [Requests -> Nat]
  /\ position \in Nat /\ committed \in Nat

\* The inductive invariant of both brokers.
BusInv ==
  /\ BusTypes
  /\ Pend
  /\ topic \in Seq(Asked) /\ batch \in Seq(Asked)
  /\ replies \in Seq(Answerable) /\ working \in Seq(Answerable)
  /\ running \in Answerable \cup {None}
  /\ completed \subseteq Answerable

-----------------------------------------------------------------------------
(* Sequences over a set. *)

\* A sequence over a set is one over every larger set.
LEMMA SeqGrows ==
  ASSUME NEW S, NEW T, S \subseteq T, NEW s \in Seq(S)
  PROVE  s \in Seq(T)
<1>1. Len(s) \in Nat /\ s \in [1 .. Len(s) -> S]
  BY LenProperties
<1>2. s \in [1 .. Len(s) -> T]
  BY <1>1
<1> QED
  BY <1>1, <1>2, SeqDef

LEMMA SeqAppends ==
  ASSUME NEW S, NEW s \in Seq(S), NEW e \in S
  PROVE  Append(s, e) \in Seq(S)
BY AppendProperties

\* Without one of its elements it is still one over the set.
LEMMA SeqShrinks ==
  ASSUME NEW S, NEW s \in Seq(S), NEW i \in DOMAIN s
  PROVE  RemoveAt(s, i) \in Seq(S) /\ s[i] \in S
<1>1. Len(s) \in Nat /\ i \in 1 .. Len(s) /\ s[i] \in S
  BY LenProperties, ElementOfSeq
<1>2. SubSeq(s, 1, i - 1) \in Seq(S)
  <2>1. \A k \in 1 .. i - 1 : s[k] \in S
    BY <1>1, ElementOfSeq
  <2> QED
    BY <1>1, <2>1, SubSeqProperties
<1>3. SubSeq(s, i + 1, Len(s)) \in Seq(S)
  <2>1. \A k \in i + 1 .. Len(s) : s[k] \in S
    BY <1>1, ElementOfSeq
  <2> QED
    BY <1>1, <2>1, SubSeqProperties
<1> QED
  BY <1>1, <1>2, <1>3, ConcatProperties DEF RemoveAt

-----------------------------------------------------------------------------
(* The invariant.  What was asked and what can be answered only grow, so   *)
(* that each sequence is looked at where a step changes it.                *)

\* A message of a caller's, or of the component's, stays one.
LEMMA SequencesStay ==
  ASSUME BusInv, Asked \subseteq Asked', Answerable \subseteq Answerable'
  PROVE  /\ topic \in Seq(Asked') /\ batch \in Seq(Asked')
         /\ replies \in Seq(Answerable') /\ working \in Seq(Answerable')
         /\ running \in Answerable' \cup {None}
         /\ completed \subseteq Answerable'
<1>1. topic \in Seq(Asked') /\ batch \in Seq(Asked')
  BY SeqGrows DEF BusInv
<1>2. replies \in Seq(Answerable') /\ working \in Seq(Answerable')
  BY SeqGrows DEF BusInv
<1> QED
  BY <1>1, <1>2 DEF BusInv

\* Nothing has been asked, sent or handled.
LEMMA BusInvInit == BusInit => BusInv
<1> SUFFICES ASSUME BusInit PROVE BusInv
  OBVIOUS
<1>1. BusTypes /\ Pend
  BY DEF BusInit, Init, BusTypes, Stage, Pend, PendingAreOpen, Outcome
<1> QED
  BY <1>1, EmptySeq DEF BusInit, Init, BusInv

\* The steps of the callers.
LEMMA BusCallers ==
  ASSUME BusInv, CallersStep
  PROVE  BusInv'
<1> USE DEF BusInv
<1>1. completed \subseteq Requests
  BY DEF Answerable
<1>2. ASSUME NEW r \in Requests, Request(r) \/ CallerStep(r)
      PROVE  BusInv'
  <2>1. /\ UNCHANGED <<completed, replies, processVars, runs, working>>
        /\ topic' = topic \/ (topic' = Append(topic, r) /\ r \in Asked')
        /\ Asked \subseteq Asked' /\ UNCHANGED Answerable
    BY <1>2 DEF CallersStep, CallerStep, Request, Publish, PublishFails, Return, Expire,
       Abandon, Moves, Sent, Asked, Answerable, BusTypes, Stage
  <2>2. BusTypes'
    BY <1>2, <2>1 DEF CallerStep, Request, Publish, PublishFails, Return, Expire,
       Abandon, Moves, BusTypes, Stage, processVars
  <2>3. Pend'
    BY <1>1, <1>2 DEF CallerStep, Request, Publish, PublishFails, Return, Expire,
       Abandon, Moves, BusTypes, Pend, PendingAreOpen, Outcome
  <2>4. topic' \in Seq(Asked')
    <3>1. topic \in Seq(Asked')
      BY <2>1, SequencesStay
    <3> QED
      BY <2>1, <3>1, SeqAppends
  <2> QED
    BY <2>1, <2>2, <2>3, <2>4, SequencesStay DEF processVars
<1>3. CASE HandleReply
  <2>1. /\ UNCHANGED <<stage, topic, processVars, runs, working>>
        /\ UNCHANGED <<Asked, Answerable>>
    BY <1>3 DEF CallersStep, HandleReply, CallerStep, Request, Publish, PublishFails,
       Return, Expire, Abandon, Moves, Sent, Asked, Answerable
  <2>2. replies' \in Seq(Answerable) /\ Head(replies) \in Answerable
    BY <1>3, HeadTailProperties DEF HandleReply
  <2>3. completed' \subseteq Answerable
    BY <1>3, <2>2 DEF HandleReply
  <2>4. Pend'
    BY <1>1, <1>3, <2>1 DEF HandleReply, BusTypes, Pend, PendingAreOpen, Outcome
  <2>5. BusTypes'
    BY <1>3, <2>1 DEF HandleReply, BusTypes, processVars
  <2> QED
    BY <2>1, <2>2, <2>3, <2>4, <2>5 DEF processVars
<1> QED
  BY <1>2, <1>3 DEF CallersStep

\* A step of the component's leaves the callers alone: the table stays exact,
\* and what was asked is the same.
LEMMA CallersAside ==
  ASSUME BusInv, UNCHANGED callerVars
  PROVE  Pend' /\ Asked' = Asked
BY DEF BusInv, callerVars, Pend, PendingAreOpen, Outcome, Asked, Sent

\* The consumer's polls: what it gets is a part of the topic.
LEMMA BusPolled ==
  ASSUME BusInv, NEW n \in 0 .. Len(topic), WarmUpPoll(n) \/ Poll(n), UNCHANGED working
  PROVE  BusInv'
<1> USE DEF BusInv
<1>1. /\ UNCHANGED <<callerVars, topic, replies, running, runs, working>>
      /\ n \in position .. Len(topic) /\ position' = n
      /\ committed' \in {committed, position}
      /\ batch' = batch \/ batch' = SubSeq(topic, position + 1, n)
  BY DEF WarmUpPoll, Poll, Gets
<1>2. Pend' /\ Asked' = Asked /\ Answerable' = Answerable
  BY <1>1, CallersAside DEF Answerable
<1>3. position \in Nat /\ Len(topic) \in Nat /\ n \in Nat
  BY LenProperties DEF BusTypes
<1>4. batch' \in Seq(Asked)
  <2>1. /\ \A i \in position + 1 .. n : i \in 1 .. Len(topic)
        /\ position + 1 \in 1 .. Len(topic) + 1
        /\ n \in position .. Len(topic)
    BY <1>1, <1>3
  <2>2. SubSeq(topic, position + 1, n) \in Seq(Asked)
    BY <1>3, <2>1, SubSeqProperties
  <2> QED
    BY <1>1, <2>2
<1>5. BusTypes'
  BY <1>1, <1>3 DEF BusTypes, callerVars
<1> QED
  BY <1>1, <1>2, <1>4, <1>5 DEF callerVars

\* A handler runs, in the consumer's thread or in a worker's: its message was
\* asked and can now be answered.
LEMMA BusHandled ==
  ASSUME BusInv, batch # <<>>, batch' = Tail(batch),
         runs' = [runs EXCEPT ![Head(batch)] = @ + 1],
         UNCHANGED <<callerVars, topic, replies, position, committed>>,
         \/ running' = Head(batch) /\ working' = working
         \/ running' = running /\ working' = Append(working, Head(batch))
  PROVE  BusInv'
<1> USE DEF BusInv
<1>1. Head(batch) \in Asked /\ Tail(batch) \in Seq(Asked)
  BY HeadTailProperties
<1>2. /\ runs' \in [Requests -> Nat] /\ Head(batch) \in Answerable'
      /\ Answerable \subseteq Answerable'
  BY <1>1 DEF BusTypes, Asked, Answerable
<1>3. Pend' /\ Asked' = Asked
  BY CallersAside
<1>4. BusTypes'
  BY <1>2 DEF BusTypes, callerVars
<1>5. /\ topic \in Seq(Asked') /\ replies \in Seq(Answerable')
      /\ working \in Seq(Answerable') /\ running \in Answerable' \cup {None}
      /\ completed \subseteq Answerable'
  BY <1>2, <1>3, SequencesStay
<1>6. working' \in Seq(Answerable') /\ running' \in Answerable' \cup {None}
  <2>1. Append(working, Head(batch)) \in Seq(Answerable')
    BY <1>2, <1>5, SeqAppends
  <2> QED
    BY <1>2, <1>5, <2>1
<1> QED
  BY <1>1, <1>3, <1>4, <1>5, <1>6 DEF callerVars

\* The component's consumer over Kafka.
LEMMA BusKafka ==
  ASSUME BusInv, KafkaProcessStep
  PROVE  BusInv'
<1> USE DEF BusInv
<1>1. ASSUME NEW n \in 0 .. Len(topic), WarmUpPoll(n) \/ Poll(n)
      PROVE  BusInv'
  BY <1>1, BusPolled DEF KafkaProcessStep
<1>2. CASE Handle
  BY <1>2, BusHandled DEF Handle, KafkaProcessStep
<1>3. CASE Respond
  <2>1. /\ UNCHANGED <<callerVars, topic, batch, position, committed, runs, working>>
        /\ running \in Answerable /\ running' = None
        /\ replies' \in {replies, Append(replies, running)}
    BY <1>3 DEF Respond, KafkaProcessStep
  <2>2. Pend' /\ Asked' = Asked /\ Answerable' = Answerable
    BY <2>1, CallersAside DEF Answerable
  <2>3. Append(replies, running) \in Seq(Answerable)
    BY <2>1, AppendProperties
  <2>4. BusTypes'
    BY <2>1 DEF BusTypes, callerVars
  <2> QED
    BY <2>1, <2>2, <2>3, <2>4 DEF callerVars
<1>4. CASE Start \/ Stop(committed) \/ Stop(position)
  <2>1. /\ UNCHANGED <<callerVars, topic, replies, runs, working>>
        /\ position' \in {position, committed}
        /\ committed' \in {committed, position}
        /\ batch' \in {batch, <<>>} /\ running' \in {running, None}
    BY <1>4 DEF Start, Stop, KafkaProcessStep
  <2>2. Pend' /\ Asked' = Asked /\ Answerable' = Answerable
    BY <2>1, CallersAside DEF Answerable
  <2>3. BusTypes' /\ batch' \in Seq(Asked)
    BY <2>1, EmptySeq DEF BusTypes, callerVars
  <2> QED
    BY <2>1, <2>2, <2>3 DEF callerVars
<1> QED
  BY <1>1, <1>2, <1>3, <1>4 DEF KafkaProcessStep, ConsumerStep

\* The network thread, the pool and the connections over MQTT.
LEMMA BusMqtt ==
  ASSUME BusInv, MqttProcessStep
  PROVE  BusInv'
<1> USE DEF BusInv
<1>0. Len(topic) \in Nat /\ position \in Nat
  BY LenProperties DEF BusTypes
<1>1. CASE HandleInPool
  BY <1>1, BusHandled DEF HandleInPool
<1>2. CASE OnMessage
  <2>1. topic[position + 1] \in Asked
    BY <1>0, <1>2, ElementOfSeq DEF OnMessage
  <2>2. batch' \in Seq(Asked)
    BY <1>2, <2>1, AppendProperties DEF OnMessage
  <2>3. Pend' /\ Asked' = Asked /\ Answerable' = Answerable
    BY <1>2, CallersAside DEF OnMessage, Answerable
  <2>4. BusTypes'
    BY <1>0, <1>2 DEF OnMessage, BusTypes, callerVars
  <2> QED
    BY <1>2, <2>2, <2>3, <2>4 DEF OnMessage, callerVars
<1>3. ASSUME NEW i \in DOMAIN working, RespondFromPool(i)
      PROVE  BusInv'
  <2>1. working' \in Seq(Answerable) /\ working[i] \in Answerable
    BY <1>3, SeqShrinks DEF RespondFromPool
  <2>2. replies' \in Seq(Answerable)
    <3>1. Append(replies, working[i]) \in Seq(Answerable)
      BY <2>1, SeqAppends
    <3> QED
      BY <1>3, <3>1 DEF RespondFromPool
  <2>3. Pend' /\ Asked' = Asked /\ Answerable' = Answerable
    BY <1>3, CallersAside DEF RespondFromPool, Answerable
  <2>4. BusTypes'
    BY <1>3 DEF RespondFromPool, BusTypes, callerVars
  <2> QED
    BY <1>3, <2>1, <2>2, <2>3, <2>4 DEF RespondFromPool, callerVars
<1>4. CASE StartMqtt \/ StopMqtt \/ Reconnect \/ ReconnectCallers
  <2>1. /\ UNCHANGED <<callerVars, committed, running, runs>>
        /\ position' \in {position, Len(topic)}
        /\ replies' \in {replies, <<>>} /\ batch' \in {batch, <<>>}
        /\ working' \in {working, <<>>}
        /\ topic' \in {topic} \cup {Append(topic, r) : r \in ToSet(topic)}
    BY <1>4 DEF StartMqtt, StopMqtt, Reconnect, ReconnectCallers, Disturbed
  <2>2. topic' \in Seq(Asked)
    <3>1. ASSUME NEW r \in ToSet(topic)
          PROVE  Append(topic, r) \in Seq(Asked)
      <4>1. r \in Asked
        BY ElementOfSeq, LenProperties DEF ToSet
      <4> QED
        BY <4>1, SeqAppends
    <3> QED
      BY <2>1, <3>1
  <2>3. Pend' /\ Asked' = Asked /\ Answerable' = Answerable
    BY <2>1, CallersAside DEF Answerable
  <2>4. BusTypes'
    BY <1>0, <2>1 DEF BusTypes, callerVars
  <2> QED
    BY <2>1, <2>2, <2>3, <2>4, EmptySeq DEF callerVars
<1> QED
  BY <1>1, <1>2, <1>3, <1>4 DEF MqttProcessStep

\* The invariant holds in every reachable state of the bus.
LEMMA BusInvariance == BusSpec => []BusInv
<1>1. BusInv /\ [BusNext]_busVars => BusInv'
  <2> SUFFICES ASSUME BusInv, [BusNext]_busVars PROVE BusInv'
    OBVIOUS
  <2>1. CASE BusNext
    BY <2>1, BusCallers, BusKafka, BusMqtt DEF BusNext
  <2>2. CASE UNCHANGED busVars
    BY <2>2 DEF busVars, vars, callerVars, processVars, BusInv, BusTypes, Pend,
                PendingAreOpen, Outcome, Asked, Answerable, Sent
  <2> QED
    BY <2>1, <2>2
<1> QED
  BY <1>1, BusInvInit, PTL DEF BusSpec

\* Over either broker _pending_requests holds exactly the open calls without a
\* result, whatever is lost, doubled or comes late and whoever reconnects.
THEOREM PendingExactOverBoth == BusSpec => []PendingAreOpen
<1>1. BusInv => PendingAreOpen
  BY DEF BusInv, Pend
<1> QED
  BY <1>1, BusInvariance, PTL

-----------------------------------------------------------------------------
(* Reruns over either broker.  Over Kafka the steps are those of KafkaBus. *)
(* Over MQTT nothing tells where in the topic a message was: what is kept  *)
(* is the number of copies of a request that are still to be handled.      *)

\* The copies that wait for a worker, and those that are still to come.
Waits(r) == {k \in 1 .. Len(batch) : batch[k] = r}
Comes(r) == {i \in position + 1 .. Len(topic) : topic[i] = r}
Left(r) == Cardinality(Waits(r)) + Cardinality(Comes(r))

\* Every copy but the first came from a lost connection.
Copies == /\ \A r \in Requests : ~Sent(r) => runs[r] = 0
          /\ \A r \in Requests : runs[r] + Left(r) <= 1 + stops

\* The inductive invariant of both brokers, with the one of each.
BothInv == /\ BusInv
           /\ broker \in {"kafka", "mqtt"}
           /\ broker = "kafka" => IInv
           /\ broker = "mqtt" => TypeOK /\ Copies

LEMMA CopiesCounted ==
  ASSUME BusInv, NEW r
  PROVE  /\ IsFiniteSet(Waits(r)) /\ Cardinality(Waits(r)) \in Nat
         /\ IsFiniteSet(Comes(r)) /\ Cardinality(Comes(r)) \in Nat
<1>1. Len(batch) \in Nat /\ Len(topic) \in Nat /\ position \in Nat
  BY LenProperties DEF BusInv, BusTypes
<1>2. IsFiniteSet(1 .. Len(batch)) /\ IsFiniteSet(position + 1 .. Len(topic))
  BY <1>1, FS_Interval
<1>3. IsFiniteSet(Waits(r)) /\ IsFiniteSet(Comes(r))
  BY <1>2, FS_Subset DEF Waits, Comes
<1> QED
  BY <1>3, FS_CardinalityType

\* A record more in the topic is a copy more of its request.
LEMMA CopyComes ==
  ASSUME BusInv, TypeOK, NEW e, topic' = Append(topic, e), UNCHANGED <<position, batch>>,
         NEW r
  PROVE  Left(r)' = IF r = e THEN Left(r) + 1 ELSE Left(r)
<1> DEFINE n == Len(topic) + 1
<1>1. Len(topic) \in Nat /\ position \in 0 .. Len(topic) /\ topic \in Seq(Asked)
  BY LenProperties DEF BusInv, TypeOK
<1>2. /\ Len(topic') = n /\ topic'[n] = e
      /\ \A i \in 1 .. Len(topic) : topic'[i] = topic[i]
  <2>1. topic \in Seq(Asked \cup {e}) /\ e \in Asked \cup {e}
    BY <1>1, SeqGrows
  <2> QED
    BY <1>1, <2>1, AppendProperties
<1>3. Waits(r)' = Waits(r)
  BY DEF Waits
<1>4. Comes(r)' = IF r = e THEN Comes(r) \cup {n} ELSE Comes(r)
  <2>1. position' + 1 .. Len(topic') = (position + 1 .. Len(topic)) \cup {n}
    BY <1>1, <1>2
  <2>2. \A i \in position + 1 .. Len(topic) : topic'[i] = topic[i] /\ i # n
    BY <1>1, <1>2
  <2> QED
    BY <1>2, <2>1, <2>2 DEF Comes
<1>5. n \notin Comes(r)
  BY <1>1 DEF Comes
<1>6. Cardinality(Comes(r)') = IF r = e THEN Cardinality(Comes(r)) + 1 ELSE Cardinality(Comes(r))
  BY <1>4, <1>5, CopiesCounted, FS_AddElement
<1> QED
  BY <1>3, <1>6, CopiesCounted DEF Left

\* A job submitted is a copy that has come.
LEMMA CopyArrives ==
  ASSUME BusInv, TypeOK, OnMessage, NEW r
  PROVE  Left(r)' = Left(r)
<1> DEFINE p == position + 1
           n == Len(batch) + 1
<1>1. /\ Len(topic) \in Nat /\ Len(batch) \in Nat /\ position \in Nat /\ p <= Len(topic)
      /\ topic \in Seq(Asked) /\ batch \in Seq(Asked) /\ topic[p] \in Asked
  BY LenProperties, ElementOfSeq DEF BusInv, BusTypes, OnMessage
<1>2. /\ Len(batch') = n /\ batch'[n] = topic[p]
      /\ \A k \in 1 .. Len(batch) : batch'[k] = batch[k]
  BY <1>1, AppendProperties DEF OnMessage
<1>3. Waits(r)' = IF r = topic[p] THEN Waits(r) \cup {n} ELSE Waits(r)
  <2>1. 1 .. Len(batch') = (1 .. Len(batch)) \cup {n}
    BY <1>1, <1>2
  <2>2. \A k \in 1 .. Len(batch) : batch'[k] = batch[k] /\ k # n
    BY <1>1, <1>2
  <2> QED
    BY <1>2, <2>1, <2>2 DEF Waits
<1>4. Comes(r)' = IF r = topic[p] THEN Comes(r) \ {p} ELSE Comes(r)
  <2>1. /\ position' + 1 .. Len(topic') = (p .. Len(topic)) \ {p}
        /\ p \in p .. Len(topic) /\ topic' = topic
    BY <1>1 DEF OnMessage
  <2> QED
    BY <2>1 DEF Comes
<1>5. n \notin Waits(r) /\ (p \in Comes(r) <=> r = topic[p])
  BY <1>1 DEF Waits, Comes
<1>6. Cardinality(Waits(r)')
        = IF r = topic[p] THEN Cardinality(Waits(r)) + 1 ELSE Cardinality(Waits(r))
  BY <1>3, <1>5, CopiesCounted, FS_AddElement
<1>7. Cardinality(Comes(r)')
        = IF r = topic[p] THEN Cardinality(Comes(r)) - 1 ELSE Cardinality(Comes(r))
  BY <1>4, <1>5, CopiesCounted, FS_RemoveElement
<1> QED
  BY <1>6, <1>7, CopiesCounted DEF Left

\* A worker takes a copy away.
LEMMA CopyTaken ==
  ASSUME BusInv, batch # <<>>, batch' = Tail(batch), UNCHANGED <<topic, position>>, NEW r
  PROVE  /\ Left(r)' \in Nat
         /\ Left(r)' = IF r = Head(batch) THEN Left(r) - 1 ELSE Left(r)
<1> DEFINE first == IF r = Head(batch) THEN {1} ELSE {}
           f == [k \in Waits(r)' |-> k + 1]
<1>1. /\ Len(batch) \in Nat \ {0} /\ Head(batch) = batch[1]
      /\ Len(batch') = Len(batch) - 1
      /\ \A k \in 1 .. Len(batch) - 1 : batch'[k] = batch[k + 1]
  BY LenProperties, HeadTailProperties, EmptySeq DEF BusInv
<1>2. f \in Bijection(Waits(r)', Waits(r) \ first)
  <2>1. f \in [Waits(r)' -> Waits(r) \ first]
    BY <1>1 DEF Waits
  <2>2. \A k, l \in Waits(r)' : f[k] = f[l] => k = l
    BY <1>1 DEF Waits
  <2>3. \A k \in Waits(r) \ first : k - 1 \in Waits(r)' /\ f[k - 1] = k
    BY <1>1 DEF Waits
  <2> QED
    BY <2>1, <2>2, <2>3 DEF Bijection, Injection, Surjection, IsInjective
<1>3. IsFiniteSet(Waits(r)')
  <2>1. PICK W : W = Waits(r)'
    OBVIOUS
  <2>2. W \in SUBSET (1 .. Len(batch) - 1)
    BY <1>1, <2>1 DEF Waits
  <2>3. IsFiniteSet(1 .. Len(batch) - 1)
    BY <1>1, FS_Interval
  <2>4. IsFiniteSet(W)
    BY <2>2, <2>3, FS_Subset
  <2> QED
    BY <2>1, <2>4
<1>4. Cardinality(Waits(r)') = Cardinality(Waits(r) \ first)
  BY <1>2, <1>3, FS_Bijection DEF ExistsBijection
<1>5. Cardinality(Waits(r) \ first)
        = IF r = Head(batch) THEN Cardinality(Waits(r)) - 1 ELSE Cardinality(Waits(r))
  <2>1. CASE r = Head(batch)
    <3>1. 1 \in Waits(r)
      BY <1>1, <2>1 DEF Waits
    <3> QED
      BY <2>1, <3>1, CopiesCounted, FS_RemoveElement
  <2>2. CASE r # Head(batch)
    BY <2>2
  <2> QED
    BY <2>1, <2>2
<1>6. Comes(r)' = Comes(r)
  BY DEF Comes
<1>7. Cardinality(Waits(r)') \in Nat
  BY <1>3, FS_CardinalityType
<1> QED
  BY <1>4, <1>5, <1>6, <1>7, CopiesCounted DEF Left

\* A stop and a lost connection only lose copies.
LEMMA CopiesLost ==
  ASSUME BusInv, batch' \in {batch, <<>>}, topic' = topic,
         position' \in {position, Len(topic)}, NEW r
  PROVE  Left(r)' \in Nat /\ Left(r)' <= Left(r)
<1>1. Len(topic) \in Nat
  BY LenProperties DEF BusInv
<1>2. Waits(r)' = Waits(r) \/ Waits(r)' = {}
  <2>1. Len(<<>>) = 0
    BY EmptySeq
  <2> QED
    BY <2>1 DEF Waits
<1>3. Comes(r)' = Comes(r) \/ Comes(r)' = {}
  <2>1. CASE position' = position
    BY <2>1 DEF Comes
  <2>2. CASE position' = Len(topic)
    BY <1>1, <2>2 DEF Comes
  <2> QED
    BY <2>1, <2>2
<1>4. Cardinality({}) = 0
  BY FS_EmptySet
<1>5. Cardinality(Waits(r)') \in {Cardinality(Waits(r)), 0}
  BY <1>2, <1>4
<1>6. Cardinality(Comes(r)') \in {Cardinality(Comes(r)), 0}
  BY <1>3, <1>4
<1>7. /\ Left(r) = Cardinality(Waits(r)) + Cardinality(Comes(r))
      /\ Left(r)' = Cardinality(Waits(r)') + Cardinality(Comes(r)')
  BY DEF Left
<1>8. Cardinality(Waits(r)) \in Nat /\ Cardinality(Comes(r)) \in Nat
  BY CopiesCounted
<1> QED
  BY <1>5, <1>6, <1>7, <1>8

\* The steps of the callers over MQTT: a first copy, of a request not sent yet.
LEMMA PoolCallers ==
  ASSUME BusInv, TypeOK, Copies, CallersStep
  PROVE  TypeOK' /\ Copies'
<1>0. /\ UNCHANGED <<processVars, runs>>
      /\ \A r \in Requests : Sent(r) => Sent(r)'
      /\ \/ topic' = topic
         \/ \E r \in Requests : ~Sent(r) /\ Sent(r)' /\ topic' = Append(topic, r)
  BY DEF CallersStep, CallerStep, Request, Publish, PublishFails, Return, Expire, Abandon,
     HandleReply, Moves, Sent, TypeOK, Stage
<1>1. /\ stage' \in [Requests -> Stage] /\ pending' \subseteq Requests
      /\ completed' \subseteq Requests
  BY DEF CallersStep, CallerStep, Request, Publish, PublishFails, Return, Expire, Abandon,
     HandleReply, Moves, TypeOK, Stage
<1>2. Len(topic) \in Nat
  BY LenProperties DEF BusInv
<1>3. CASE topic' = topic
  <2>1. \A r : Left(r)' = Left(r)
    BY <1>0, <1>3 DEF Left, Waits, Comes, processVars
  <2> QED
    BY <1>0, <1>1, <1>3, <2>1 DEF TypeOK, Copies, processVars
<1>4. ASSUME NEW e \in Requests, ~Sent(e), Sent(e)', topic' = Append(topic, e)
      PROVE  TypeOK' /\ Copies'
  <2>1. Len(topic') = Len(topic) + 1
    BY <1>4, AppendProperties, SeqGrows DEF BusInv, Asked
  <2>2. TypeOK'
    BY <1>0, <1>1, <1>2, <2>1 DEF TypeOK, processVars
  <2>3. \A r : Left(r)' = IF r = e THEN Left(r) + 1 ELSE Left(r)
    BY <1>0, <1>4, CopyComes DEF processVars
  <2>4. Left(e) = 0 /\ runs[e] = 0 /\ stops \in Nat
    <3>1. \A i \in 1 .. Len(topic) : topic[i] \in Asked
      BY ElementOfSeq DEF BusInv
    <3>2. \A k \in 1 .. Len(batch) : batch[k] \in Asked
      BY ElementOfSeq DEF BusInv
    <3>3. Waits(e) = {} /\ Comes(e) = {}
      BY <1>2, <1>4, <3>1, <3>2 DEF Waits, Comes, Asked, TypeOK
    <3> QED
      BY <1>4, <3>3, FS_EmptySet DEF Left, Copies, TypeOK
  <2>5. Copies'
    BY <1>0, <2>3, <2>4 DEF Copies, processVars
  <2> QED
    BY <2>2, <2>5
<1> QED
  BY <1>0, <1>3, <1>4

\* The steps of the component over MQTT.
LEMMA PoolComponent ==
  ASSUME BusInv, TypeOK, Copies, MqttProcessStep
  PROVE  TypeOK' /\ Copies'
<1>0. /\ UNCHANGED <<callerVars, warmUp, committed, running, lucky>>
      /\ Len(topic) \in Nat /\ stops \in Nat
      /\ \A r \in Requests : (Sent(r) <=> Sent(r)') /\ runs[r] \in Nat /\ Left(r) \in Nat
  <2>1. UNCHANGED <<callerVars, warmUp, committed, running, lucky>>
    BY DEF MqttProcessStep, StartMqtt, OnMessage, HandleInPool, RespondFromPool,
       StopMqtt, Reconnect, ReconnectCallers, Disturbed
  <2>2. \A r : Left(r) \in Nat
    BY CopiesCounted DEF Left
  <2>3. Len(topic) \in Nat /\ stops \in Nat /\ \A r \in Requests : runs[r] \in Nat
    BY LenProperties DEF BusInv, BusTypes, TypeOK
  <2> QED
    BY <2>1, <2>2, <2>3 DEF callerVars, Sent
<1>1. CASE OnMessage
  <2>1. \A r : Left(r)' = Left(r)
    BY <1>1, CopyArrives
  <2>2. TypeOK'
    BY <1>0, <1>1 DEF OnMessage, TypeOK, callerVars
  <2> QED
    BY <1>0, <1>1, <2>1, <2>2 DEF OnMessage, Copies
<1>2. CASE HandleInPool
  <2>1. PICK h \in Requests : h = Head(batch) /\ Sent(h)
    BY <1>2, HeadTailProperties DEF HandleInPool, BusInv, Asked
  <2>2. \A r : Left(r)' \in Nat /\ Left(r)' = IF r = h THEN Left(r) - 1 ELSE Left(r)
    BY <1>2, <2>1, CopyTaken DEF HandleInPool
  <2>3. runs' = [runs EXCEPT ![h] = @ + 1] /\ stops' = stops
    BY <1>2, <2>1 DEF HandleInPool
  <2>4. Copies'
    <3>1. \A r \in Requests : runs'[r] = IF r = h THEN runs[r] + 1 ELSE runs[r]
      BY <2>3 DEF BusInv, BusTypes
    <3>2. \A r \in Requests : runs'[r] + Left(r)' = runs[r] + Left(r)
      BY <1>0, <2>2, <3>1
    <3> QED
      BY <1>0, <2>1, <2>3, <3>1, <3>2 DEF Copies
  <2>5. \A r \in Requests : runs'[r] \in 0 .. MaxStops + 1
    <3>1. \A r \in Requests : runs'[r] + Left(r)' <= 1 + stops
      BY <2>3, <2>4 DEF Copies
    <3>2. \A r \in Requests : runs'[r] \in Nat
      BY <1>0, <2>3 DEF BusInv, BusTypes
    <3> QED
      BY <2>2, <3>1, <3>2, KafkaBusAssumption DEF TypeOK
  <2>6. TypeOK'
    BY <1>0, <1>2, <2>3, <2>5 DEF HandleInPool, TypeOK, callerVars
  <2> QED
    BY <2>4, <2>6
<1>3. ASSUME NEW i \in DOMAIN working, RespondFromPool(i)
      PROVE  TypeOK' /\ Copies'
  BY <1>0, <1>3 DEF RespondFromPool, TypeOK, Copies, Left, Waits, Comes, callerVars
<1>4. CASE StartMqtt \/ StopMqtt \/ Reconnect
  <2>1. /\ topic' = topic /\ runs' = runs /\ batch' \in {batch, <<>>}
        /\ position' \in {position, Len(topic)}
        /\ stops' \in {stops} \cup {n \in 1 .. MaxStops : n = stops + 1}
    <3>1. stops < MaxStops /\ stops' = stops + 1 => stops' \in 1 .. MaxStops
      BY <1>0, KafkaBusAssumption
    <3> QED
      BY <1>4, <3>1 DEF StartMqtt, StopMqtt, Reconnect, Disturbed
  <2>2. \A r : Left(r)' \in Nat /\ Left(r)' <= Left(r)
    BY <2>1, CopiesLost
  <2>3. up' \in BOOLEAN
    BY <1>4 DEF StartMqtt, StopMqtt, Reconnect, TypeOK
  <2>4. TypeOK'
    BY <1>0, <2>1, <2>3, KafkaBusAssumption DEF TypeOK, callerVars
  <2> QED
    BY <1>0, <2>1, <2>2, <2>4 DEF Copies
<1>5. CASE ReconnectCallers
  <2>1. /\ UNCHANGED <<runs, batch, position, up>> /\ stops' = stops + 1 /\ stops < MaxStops
        /\ topic' = topic \/ \E e \in ToSet(topic) : topic' = Append(topic, e)
    BY <1>5 DEF ReconnectCallers, Disturbed
  <2>2. \A r : Left(r)' \in {Left(r), Left(r) + 1}
    <3>1. CASE topic' = topic
      BY <2>1, <3>1 DEF Left, Waits, Comes
    <3>2. CASE \E e \in ToSet(topic) : topic' = Append(topic, e)
      BY <2>1, <3>2, CopyComes
    <3> QED
      BY <2>1, <3>1, <3>2
  <2>3. Len(topic') \in {Len(topic), Len(topic) + 1}
    BY <2>1, AppendProperties, ElementOfSeq DEF BusInv, ToSet
  <2>4. TypeOK'
    BY <1>0, <2>1, <2>3, KafkaBusAssumption DEF TypeOK, callerVars
  <2> QED
    BY <1>0, <2>1, <2>2, <2>4 DEF Copies
<1> QED
  BY <1>1, <1>2, <1>3, <1>4, <1>5 DEF MqttProcessStep

LEMMA BothInvariance == BusSpec => []BothInv
<1>1. BusInit => BothInv
  <2> SUFFICES ASSUME BusInit PROVE BothInv
    OBVIOUS
  <2>1. BusInv /\ IInv /\ broker \in {"kafka", "mqtt"}
    BY BusInvInit, InvInit, SystemBusAssumption DEF BusInit
  <2>2. Copies
    <3>1. \A r : Waits(r) = {} /\ Comes(r) = {}
      BY EmptySeq DEF BusInit, Init, Waits, Comes
    <3>2. Cardinality({}) = 0
      BY FS_EmptySet
    <3>3. \A r : Left(r) = 0
      BY <3>1, <3>2 DEF Left
    <3> QED
      BY <3>3 DEF BusInit, Init, Copies
  <2> QED
    BY <2>1, <2>2 DEF BothInv, IInv
<1>2. BothInv /\ [BusNext]_busVars => BothInv'
  <2> SUFFICES ASSUME BothInv, [BusNext]_busVars PROVE BothInv'
    OBVIOUS
  <2>1. CASE BusNext
    <3>1. BusInv' /\ broker' = broker
      BY <2>1, BusCallers, BusKafka, BusMqtt DEF BusNext, BothInv
    <3>2. ASSUME broker = "kafka" PROVE IInv'
      <4>1. Next
        BY <2>1, <3>2 DEF BusNext, CallersStep, KafkaProcessStep, MqttProcessStep, Next
      <4> QED
        BY <3>2, <4>1, InvStep DEF BothInv
    <3>3. ASSUME broker = "mqtt" PROVE TypeOK' /\ Copies'
      BY <2>1, <3>3, PoolCallers, PoolComponent DEF BusNext, KafkaProcessStep, BothInv
    <3> QED
      BY <3>1, <3>2, <3>3 DEF BothInv
  <2>2. CASE UNCHANGED busVars
    <3>1. BusInv'
      BY <2>2 DEF busVars, vars, callerVars, processVars, BothInv, BusInv, BusTypes, Pend,
                PendingAreOpen, Outcome, Asked, Answerable, Sent
    <3>2. broker = "kafka" => IInv'
      BY <2>2, InvStep DEF busVars, BothInv
    <3>3. broker = "mqtt" => TypeOK' /\ Copies'
      BY <2>2 DEF busVars, vars, callerVars, processVars, BothInv, TypeOK, Copies, Left,
                Waits, Comes, Sent
    <3> QED
      BY <2>2, <3>1, <3>2, <3>3 DEF busVars, BothInv
  <2> QED
    BY <2>1, <2>2
<1> QED
  BY <1>1, <1>2, PTL DEF BusSpec

\* Over either broker the bus keeps its types; in particular, the component
\* never is further in its topic than the topic goes.
THEOREM BusTypeCorrectOverBoth == BusSpec => []TypeOK
<1>1. BothInv => TypeOK
  BY DEF BothInv, IInv
<1> QED
  BY <1>1, BothInvariance, PTL

\* Over either broker a handler runs again for a request only after another
\* stop or lost connection: a resent message, a redelivered record or a job
\* that waited in the pool during a stop is handled, but once each.
THEOREM RerunsCountedOverBoth == BusSpec => []RerunOnlyAfterStop
<1>1. BothInv => RerunOnlyAfterStop
  <2> SUFFICES ASSUME BothInv, NEW r \in Requests
               PROVE  runs[r] <= 1 + stops
    BY DEF RerunOnlyAfterStop
  <2>1. CASE broker = "kafka"
    BY <2>1 DEF BothInv, IInv, Fresh, RerunOnlyAfterStop
  <2>2. CASE broker = "mqtt"
    <3>1. runs[r] \in Nat /\ Left(r) \in Nat /\ stops \in Nat
      BY <2>2, CopiesCounted DEF BothInv, BusInv, BusTypes, TypeOK, Left
    <3> QED
      BY <2>2, <3>1 DEF BothInv, Copies
  <2> QED
    BY <2>1, <2>2 DEF BothInv
<1> QED
  BY <1>1, BothInvariance, PTL

-----------------------------------------------------------------------------
(* The two buses implement RequestReply.                                   *)

\* A step of one caller changes the outcome of its own call.
LEMMA BusOutcome ==
  ASSUME BusTypes, NEW r \in Requests, NEW s, NEW t, Moves(r, s, t), UNCHANGED runs
  PROVE  /\ stage[r] = s /\ stage'[r] = t /\ UNCHANGED handledOf
         /\ outcomeOf' = [outcomeOf EXCEPT ![r] = Outcome(r)']
BY DEF Moves, BusTypes, Outcome, outcomeOf, handledOf

\* The callers open, end and answer their calls.
LEMMA CallersReply ==
  ASSUME BusInv, CallersStep
  PROVE  RR!Next \/ UNCHANGED <<outcomeOf, handledOf>>
<1>0. BusTypes
  BY DEF BusInv
<1>1. ASSUME NEW r \in Requests, Request(r)
      PROVE  RR!Next
  <2>1. /\ stage[r] = "idle" /\ stage'[r] = "publishing" /\ UNCHANGED handledOf
        /\ outcomeOf' = [outcomeOf EXCEPT ![r] = Outcome(r)']
    BY <1>0, <1>1, BusOutcome DEF Request
  <2>2. RR!Call(r)
    BY <2>1 DEF RR!Call, outcomeOf, handledOf, Outcome
  <2> QED
    BY <2>2 DEF RR!Next
<1>2. ASSUME NEW r \in Requests, Publish(r) \/ Expire(r)
      PROVE  UNCHANGED <<outcomeOf, handledOf>>
  <2>1. /\ \/ stage[r] = "publishing" /\ stage'[r] = "waiting"
           \/ stage[r] = "waiting" /\ stage'[r] = "expired"
        /\ UNCHANGED handledOf
        /\ outcomeOf' = [outcomeOf EXCEPT ![r] = Outcome(r)']
    BY <1>0, <1>2, BusOutcome DEF Publish, Expire
  <2> QED
    BY <2>1 DEF outcomeOf, Outcome
<1>3. ASSUME NEW r \in Requests, PublishFails(r) \/ Abandon(r)
      PROVE  RR!Next
  <2>1. /\ stage[r] \in {"publishing", "expired"} /\ stage'[r] = "none"
        /\ UNCHANGED handledOf
        /\ outcomeOf' = [outcomeOf EXCEPT ![r] = Outcome(r)']
    BY <1>0, <1>3, BusOutcome DEF PublishFails, Abandon
  <2>2. RR!GiveUp(r)
    BY <2>1 DEF RR!GiveUp, outcomeOf, handledOf, Outcome
  <2> QED
    BY <2>2 DEF RR!Next
<1>4. ASSUME NEW r \in Requests, Return(r)
      PROVE  RR!Next
  <2>1. /\ stage[r] = "waiting" /\ stage'[r] = "answered" /\ UNCHANGED handledOf
        /\ outcomeOf' = [outcomeOf EXCEPT ![r] = Outcome(r)']
    BY <1>0, <1>4, BusOutcome DEF Return
  <2>2. r \in handledOf
    BY <1>4 DEF Return, BusInv, Answerable, handledOf
  <2>3. RR!Answer(r)
    BY <2>1, <2>2 DEF RR!Answer, outcomeOf, handledOf, Outcome
  <2> QED
    BY <2>3 DEF RR!Next
<1>5. CASE HandleReply
  BY <1>5, ReplyStutter DEF HandleReply
<1> QED
  BY <1>1, <1>2, <1>3, <1>4, <1>5 DEF CallersStep, CallerStep

\* A handler that runs is a handler for a call that was made; every other step
\* of the component's is invisible.
LEMMA ComponentReply ==
  ASSUME BusInv, KafkaProcessStep \/ MqttProcessStep
  PROVE  RR!Next \/ UNCHANGED <<outcomeOf, handledOf>>
<1>1. CASE /\ batch # <<>> /\ UNCHANGED stage
           /\ runs' = [runs EXCEPT ![Head(batch)] = @ + 1]
  <2>1. PICK h \in Asked : h = Head(batch)
    BY <1>1, HeadTailProperties DEF BusInv
  <2>2. handledOf' = handledOf \cup {h}
    BY <1>1, <2>1 DEF handledOf, BusInv, BusTypes, Asked
  <2>3. RR!Handle(h)
    BY <1>1, <2>1, <2>2 DEF RR!Handle, outcomeOf, handledOf, Outcome, Sent, Asked
  <2> QED
    BY <2>1, <2>3 DEF RR!Next, Asked
<1>2. CASE UNCHANGED <<stage, runs>>
  BY <1>2, ReplyStutter
<1>3. CASE KafkaProcessStep
  BY <1>1, <1>2, <1>3 DEF KafkaProcessStep, ConsumerStep, Start, WarmUpPoll, Poll,
     Handle, Respond, Stop, callerVars
<1>4. CASE MqttProcessStep
  BY <1>1, <1>2, <1>4 DEF MqttProcessStep, StartMqtt, OnMessage, HandleInPool,
     RespondFromPool, StopMqtt, Reconnect, ReconnectCallers, Disturbed, callerVars
<1> QED
  BY <1>3, <1>4

\* request() gives each call one outcome, and an answer only from a handler that
\* ran for it, over Kafka and over MQTT: the callers cannot tell the brokers.
THEOREM BothBusesImplementRequestReply == BusSpec => ImplementsRequestReply
<1>1. BusInit => RR!Init
  BY ReplyInit DEF BusInit
<1>2. BusInv /\ [BusNext]_busVars => [RR!Next]_<<outcomeOf, handledOf>>
  <2> SUFFICES ASSUME BusInv, [BusNext]_busVars
               PROVE  RR!Next \/ UNCHANGED <<outcomeOf, handledOf>>
    OBVIOUS
  <2>1. CASE BusNext
    BY <2>1, CallersReply, ComponentReply DEF BusNext
  <2>2. CASE UNCHANGED busVars
    BY <2>2, ReplyStutter DEF busVars, vars, callerVars
  <2> QED
    BY <2>1, <2>2
<1> QED
  BY <1>1, <1>2, BusInvariance, PTL
  DEF BusSpec, ImplementsRequestReply, RR!Spec, outcomeOf, handledOf
=============================================================================
