------------------------------- MODULE Calls -------------------------------
(***************************************************************************)
(* Components that call each other over the Kafka bus: each is one thread  *)
(* that takes the messages of its inbox in order and, in the middle of a   *)
(* handler, may wait for the answer of another.  KafkaBus shows what a     *)
(* single request does; here it is the promise of RequestReply.            *)
(*                                                                         *)
(* Handlers take milliseconds, timeouts seconds: one runs out only when    *)
(* nobody can take a step.                                                 *)
(***************************************************************************)
EXTENDS Naturals, Sequences, SequencesExt

CONSTANTS Components,
          Hasty,      \* the components whose requests end after 5 s, not 10
          None

VARIABLES inbox,  \* component -> the messages of its topic
          job,    \* component -> the message whose handler waits, or None
          asked,  \* the components that wait for an answer, the longest first
          answer  \* component -> the answer that ends its wait, or None

callVars == <<inbox, job, asked, answer>>

CallsInit ==
  /\ inbox = [c \in Components |-> <<>>]
  /\ job = [c \in Components |-> None]
  /\ asked = <<>>
  /\ answer = [c \in Components |-> None]

\* A message about a mission; caller is None if nobody waits for an answer.
Message(action, mission, caller) ==
  [action |-> action, mission |-> mission, caller |-> caller]

First(c) == Head(inbox[c])

Gets(c, action) ==
  job[c] = None /\ inbox[c] # <<>> /\ First(c).action = action

\* The inboxes with the messages of out, a function from components, added.
Posted(boxes, out) ==
  [c \in Components |-> IF c \in DOMAIN out THEN Append(boxes[c], out[c]) ELSE boxes[c]]

Without(c) == [inbox EXCEPT ![c] = Tail(@)]

Answering(caller, result) ==
  IF caller = None THEN answer ELSE [answer EXCEPT ![caller] = result]

\* c handles its next message: publishes out and answers.
Handles(c, action, out, result) ==
  /\ Gets(c, action)
  /\ inbox' = Posted(Without(c), out)
  /\ answer' = Answering(First(c).caller, result)
  /\ UNCHANGED <<job, asked>>

\* c, handling its next message, asks another component and waits.
Asks(c, action, to, request) ==
  /\ Gets(c, action)
  /\ inbox' = [Without(c) EXCEPT ![to] = Append(@, [request EXCEPT !.caller = c])]
  /\ job' = [job EXCEPT ![c] = First(c)]
  /\ asked' = Append(asked, c)
  /\ UNCHANGED answer

\* With the answer c ends what it was handling.
Ends(c, action, out, result) ==
  /\ job[c] # None /\ job[c].action = action /\ answer[c] # None
  /\ inbox' = Posted(inbox, out)
  /\ answer' = [Answering(job[c].caller, result) EXCEPT ![c] = None]
  /\ job' = [job EXCEPT ![c] = None]
  /\ asked' = SelectSeq(asked, LAMBDA x : x # c)

Waits(c) == job[c] # None /\ answer[c] = None

\* Nobody has a message to take or an answer to go on with.
Quiet == \A c \in Components : Waits(c) \/ (job[c] = None /\ inbox[c] = <<>>)

Forgets(msg, c) == IF msg # None /\ msg.caller = c THEN [msg EXCEPT !.caller = None]
                   ELSE msg

\* c's request runs out: a later answer to it is dropped.  Of the requests
\* with the same timeout the oldest ends first.
Expires(c) ==
  /\ Waits(c)
  /\ c \in Hasty
     \/ \A i \in DOMAIN asked :
          asked[i] = c \/ asked[i] \in Hasty
          \/ \E j \in 1 .. i : asked[j] = c
  /\ answer' = [answer EXCEPT ![c] = "none"]
  /\ inbox' = [x \in Components |->
                 [i \in DOMAIN inbox[x] |-> Forgets(inbox[x][i], c)]]
  /\ job' = [x \in Components |-> Forgets(job[x], c)]
  /\ UNCHANGED asked
=============================================================================
