------------------------------ MODULE Journal -------------------------------
(***************************************************************************)
(* The two clients that send events to the backend of Analytics.           *)
(*                                                                         *)
(* sdk/analytics_journal.py takes log_event messages from the bus into a   *)
(* buffer.  Whichever thread fills it posts it, a thread of its own posts  *)
(* it from time to time, and stop() posts it once more.                    *)
(*                                                                         *)
(* systems/SITL-module/shared/infopanel_client.py puts events into a queue *)
(* that a task empties by batches; stop() waits for the queue.             *)
(*                                                                         *)
(* A post is one HTTP request that the thread waits for, with a timeout;   *)
(* neither client looks at the answer or posts again.                      *)
(***************************************************************************)
EXTENDS Analytics

CONSTANTS Events,     \* names of the events
          Stamp,      \* the millisecond each is taken in
          Handlers,   \* threads that run the journal's handler
          BatchSize

ASSUME JournalAssumption ==
  /\ Events \subseteq Nat
  /\ Stamp \in [Events -> Int]
  /\ \A p \in Payloads : \A i \in DOMAIN p : p[i].name \notin Events
  /\ BatchSize \in Nat \ {0}

VARIABLES client,     \* which of the two runs
          configured, \* is there a service to post to: ANALYTICS_URL
          buffer,     \* _buffer, or the client's _queue
          taken,      \* what each thread has taken from it and not yet posted
          busy,       \* threads waiting for their post
          batch,      \* the batch the client's task collects or sends
          phase,      \* of the process: "up", "stopping" or "down"
          worker,     \* the client's task: "collects", "sends" or "ended"
          unfinished, \* tasks of the queue that are not done
          logged,     \* ghost: events taken over
          posts       \* ghost: how often each event was posted

journalVars == <<taken, busy>>
queueVars == <<batch, worker, unfinished>>
shipVars == <<client, configured, buffer, journalVars, phase, queueVars, logged, posts>>
vars == <<analyticsVars, shipVars>>

Threads == Handlers \cup {"flush", "main"}

TypeOK ==
  /\ AnalyticsTypeOK
  /\ client \in {"journal", "infopanel"}
  /\ configured \in BOOLEAN
  /\ buffer \in Seq(Events) /\ batch \in Seq(Events)
  /\ taken \in [Threads -> Seq(Events)]
  /\ busy \subseteq Threads
  /\ phase \in {"up", "stopping", "down"}
  /\ worker \in {"collects", "sends", "ended"}
  /\ unfinished = (IF client = "journal" THEN 0 ELSE Len(buffer) + Len(batch))
  /\ logged \subseteq Events
  /\ posts \in [Events -> Nat]

Init ==
  /\ AnalyticsInit
  /\ client \in {"journal", "infopanel"}
  /\ configured \in BOOLEAN /\ (client = "infopanel" => configured)
  /\ buffer = <<>> /\ batch = <<>>
  /\ taken = [t \in Threads |-> <<>>]
  /\ busy = {} /\ logged = {}
  /\ phase = "up" /\ worker = "collects"
  /\ unfinished = 0
  /\ posts = [e \in Events |-> 0]

Elements(s) == {s[i] : i \in DOMAIN s}

\* A thread that has not taken anything and does not wait.
Idle(t) == t \notin busy /\ taken[t] = <<>>

Post(s) ==
  /\ requests' = requests \cup
       {Received([i \in DOMAIN s |-> [name |-> s[i], time |-> Stamp[s[i]], kind |-> "event"]])}
  /\ posts' = [e \in Events |-> IF e \in Elements(s) THEN posts[e] + 1 ELSE posts[e]]
  /\ UNCHANGED <<stored, reading>>

NoPost == UNCHANGED <<analyticsVars, posts>>

-----------------------------------------------------------------------------
(* AnalyticsJournalComponent *)

\* _handle_log_event stamps the entry before it gets the lock, so that threads may
\* append out of time.  Under the lock the entry is appended and a full buffer
\* taken.
HandleLogEvent(t, e) ==
  /\ client = "journal" /\ phase # "down"
  /\ Idle(t) /\ e \in Events \ logged
  /\ logged' = logged \cup {e}
  /\ LET filled == Append(buffer, e)
     IN  IF Len(filled) >= BatchSize
         THEN /\ taken' = [taken EXCEPT ![t] = filled]
              /\ buffer' = <<>>
         ELSE /\ buffer' = filled
              /\ UNCHANGED taken
  /\ NoPost
  /\ UNCHANGED <<client, configured, busy, phase, queueVars>>

\* Mutant: the buffer is not cleared.
TakeBufferCopied(t) ==
  /\ taken' = [taken EXCEPT ![t] = buffer]
  /\ UNCHANGED buffer

\* Mutant: a buffer that is not full is left for the next time.
TakeBufferFull(t) ==
  IF Len(buffer) >= BatchSize
  THEN /\ taken' = [taken EXCEPT ![t] = buffer]
       /\ buffer' = <<>>
  ELSE UNCHANGED <<buffer, taken>>

\* The part of _flush under the lock.
TakeBuffer(t) ==
  /\ taken' = [taken EXCEPT ![t] = buffer]
  /\ buffer' = <<>>

\* _flush_loop.
Flush ==
  /\ client = "journal" /\ phase # "down"
  /\ Idle("flush")
  /\ TakeBuffer("flush")
  /\ NoPost
  /\ UNCHANGED <<client, configured, busy, phase, queueVars, logged>>

\* _send_batch, after the lock.  Without an address it does nothing.
SendTaken(t) ==
  /\ client = "journal" /\ phase # "down"
  /\ taken[t] # <<>>
  /\ taken' = [taken EXCEPT ![t] = <<>>]
  /\ IF configured THEN Post(taken[t]) /\ busy' = busy \cup {t}
     ELSE NoPost /\ UNCHANGED busy
  /\ UNCHANGED <<client, configured, buffer, phase, queueVars, logged>>

\* stop(): the buffer is flushed, then the bus is stopped and the process
\* exits.  What a handler takes in between stays behind.
StopJournal ==
  /\ client = "journal" /\ phase = "up"
  /\ phase' = "stopping"
  /\ TakeBuffer("main")
  /\ NoPost
  /\ UNCHANGED <<client, configured, busy, queueVars, logged>>

\* The other threads end with the process, and what they have taken with them.
ExitJournal ==
  /\ client = "journal" /\ phase = "stopping"
  /\ Idle("main")
  /\ phase' = "down"
  /\ busy' = {}
  /\ NoPost
  /\ UNCHANGED <<client, configured, buffer, taken, queueVars, logged>>

\* The answer comes, or the timeout ends the wait.
Return(t) ==
  /\ t \in busy
  /\ busy' = busy \ {t}
  /\ NoPost
  /\ UNCHANGED <<client, configured, buffer, taken, phase, queueVars, logged>>

-----------------------------------------------------------------------------
(* InfopanelClient *)

\* log_event: nothing is taken once stop() was called.
LogEvent(e) ==
  /\ client = "infopanel" /\ phase = "up"
  /\ e \in Events \ logged /\ \A d \in Events \ logged : Stamp[e] <= Stamp[d]
  /\ logged' = logged \cup {e}
  /\ buffer' = Append(buffer, e)
  /\ unfinished' = unfinished + 1
  /\ NoPost
  /\ UNCHANGED <<client, configured, journalVars, phase, batch, worker>>

\* _worker takes from the queue until the batch is full or the time is over.
Collect ==
  /\ client = "infopanel" /\ worker = "collects"
  /\ buffer # <<>> /\ Len(batch) < BatchSize
  /\ batch' = Append(batch, Head(buffer))
  /\ buffer' = Tail(buffer)
  /\ NoPost
  /\ UNCHANGED <<client, configured, journalVars, phase, worker, unfinished, logged>>

SendBatch ==
  /\ client = "infopanel" /\ worker = "collects"
  /\ batch # <<>>
  /\ Post(batch)
  /\ worker' = "sends"
  /\ UNCHANGED <<client, configured, buffer, journalVars, phase, batch, unfinished, logged>>

\* The task looks at _stopped before each batch.
NextRound == worker' = IF phase = "up" THEN "collects" ELSE "ended"

\* Mutant: one task is done per batch.
BatchDoneOnce ==
  /\ client = "infopanel" /\ worker = "sends"
  /\ unfinished' = unfinished - 1
  /\ batch' = <<>>
  /\ NextRound
  /\ NoPost
  /\ UNCHANGED <<client, configured, buffer, journalVars, phase, logged>>

\* The post succeeded or failed: either way the batch is done with.
BatchDone ==
  /\ client = "infopanel" /\ worker = "sends"
  /\ unfinished' = unfinished - Len(batch)
  /\ batch' = <<>>
  /\ NextRound
  /\ NoPost
  /\ UNCHANGED <<client, configured, buffer, journalVars, phase, logged>>

\* The time is over and nothing came.
EmptyRound ==
  /\ client = "infopanel" /\ worker = "collects"
  /\ batch = <<>> /\ buffer = <<>> /\ phase # "up"
  /\ NextRound
  /\ NoPost
  /\ UNCHANGED <<client, configured, buffer, journalVars, phase, batch, unfinished, logged>>

\* stop() waits in _queue.join() until no task is unfinished.
StopClient ==
  /\ client = "infopanel" /\ phase = "up"
  /\ phase' = "stopping"
  /\ NoPost
  /\ UNCHANGED <<client, configured, buffer, journalVars, queueVars, logged>>

JoinReturns ==
  /\ client = "infopanel" /\ phase = "stopping"
  /\ unfinished = 0
  /\ phase' = "down"
  /\ NoPost
  /\ UNCHANGED <<client, configured, buffer, journalVars, queueVars, logged>>

JournalStep ==
  \/ \E t \in Handlers, e \in Events : HandleLogEvent(t, e)
  \/ Flush \/ StopJournal \/ ExitJournal
  \/ \E t \in Threads : SendTaken(t) \/ Return(t)

InfopanelStep ==
  \/ \E e \in Events : LogEvent(e)
  \/ Collect \/ SendBatch \/ BatchDone \/ EmptyRound
  \/ StopClient \/ JoinReturns

Next ==
  \/ JournalStep
  \/ InfopanelStep
  \/ AnalyticsStep /\ UNCHANGED shipVars

Spec == Init /\ [][Next]_vars

\* The threads and the task keep running and every wait of theirs ends;
\* nothing is assumed of the backend.
FairSpec ==
  /\ Spec
  /\ WF_vars(Flush)
  /\ \A t \in Threads : WF_vars(SendTaken(t)) /\ WF_vars(Return(t))
  /\ WF_vars(ExitJournal)
  /\ WF_vars(Collect) /\ WF_vars(SendBatch)
  /\ WF_vars(BatchDone) /\ WF_vars(EmptyRound)
  /\ WF_vars(JoinReturns)

-----------------------------------------------------------------------------
\* No event is posted twice, though several threads empty one buffer.
AtMostOnce == \A e \in Events : posts[e] <= 1

\* What the journal takes over before stop() is called is posted if it has an
\* address, but for what another thread than the one that stops has taken and
\* not posted when the process exits.  What the client takes is posted as long
\* as it is not stopped.
Left(e) == phase = "down" /\ \E t \in Threads \ {"main"} : e \in Elements(taken[t])
EventsForwarded ==
  \A e \in Events :
    e \in logged /\ configured /\ phase = "up" ~>
      posts[e] > 0 \/ Left(e) \/ (client = "infopanel" /\ phase # "up")
=============================================================================
