----------------------------- MODULE SystemBus -----------------------------
(***************************************************************************)
(* broker/src/system_bus.py over either broker: create_system_bus makes a  *)
(* KafkaSystemBus or an MQTTSystemBus, and the callers cannot tell.  The   *)
(* two classes share the code of request(); they differ in how a component *)
(* gets its messages.  Over MQTT (broker/mqtt/mqtt_system_bus.py) the      *)
(* client's network thread submits each message to a pool of workers, and  *)
(* nothing is kept for a component that is not connected.                  *)
(*                                                                         *)
(* The variables are those of KafkaBus.  Over MQTT, topic holds what was   *)
(* ever published, position is how far the network thread has come, batch  *)
(* holds the jobs of the executor no worker has begun, and stops counts    *)
(* the lost connections too.  A resent response is left out: the caller    *)
(* drops it, as it drops a second response to one request.                 *)
(***************************************************************************)
EXTENDS KafkaBus

CONSTANTS Brokers,  \* the values of broker
          Workers   \* max_workers of the executor: 4 in the code

ASSUME SystemBusAssumption == Brokers \subseteq {"kafka", "mqtt"} /\ Workers \in Nat

VARIABLES broker,  \* BROKER_TYPE of the deployment
          working  \* the requests whose handler a worker has run

busVars == <<vars, broker, working>>

BusInit == Init /\ broker \in Brokers /\ working = <<>>

-----------------------------------------------------------------------------
(* The component's process over MQTT. *)

\* start: a clean session; what was published before it is never received.  A
\* process that was stopped has finished its jobs before it starts again.
StartMqtt ==
  /\ ~up
  /\ batch = <<>> /\ working = <<>>
  /\ up' = TRUE
  /\ position' = Len(topic)
  /\ UNCHANGED <<callerVars, topic, replies, warmUp, committed, batch, running,
                 stops, lucky, runs, working>>

\* _on_message, in the network thread: submit the callback.
OnMessage ==
  /\ up /\ position < Len(topic)
  /\ position' = position + 1
  /\ batch' = Append(batch, topic[position + 1])
  /\ UNCHANGED <<callerVars, topic, replies, up, warmUp, committed, running,
                 stops, lucky, runs, working>>

\* _safe_callback: a worker that is free runs the handler ...
HandleInPool ==
  /\ batch # <<>>
  /\ Len(working) < Workers
  /\ batch' = Tail(batch)
  /\ working' = Append(working, Head(batch))
  /\ runs' = [runs EXCEPT ![Head(batch)] = @ + 1]
  /\ UNCHANGED <<callerVars, topic, replies, up, warmUp, position, committed,
                 running, stops, lucky>>

\* Mutant: when the publication fails the message is handled again.
RespondFromPoolRetrying(i) ==
  /\ working' = RemoveAt(working, i)
  /\ \/ up /\ replies' = Append(replies, working[i]) /\ batch' = batch
     \/ (up => ~lucky) /\ replies' = replies /\ batch' = Append(batch, working[i])
  /\ UNCHANGED <<callerVars, topic, up, warmUp, position, committed,
                 running, stops, lucky, runs>>

\* ... and publishes the response, in any order of the workers.  stop took the
\* client away: a job that ends after it publishes nothing.
RespondFromPool(i) ==
  /\ working' = RemoveAt(working, i)
  /\ \/ up /\ replies' = Append(replies, working[i])
     \/ (up => ~lucky) /\ replies' = replies
  /\ UNCHANGED <<callerVars, topic, up, warmUp, position, committed, batch,
                 running, stops, lucky, runs>>

Disturbed ==
  /\ ~lucky
  /\ stops < MaxStops
  /\ stops' = stops + 1
  /\ UNCHANGED <<callerVars, warmUp, committed, running, lucky, runs>>

\* stop waits for the jobs it has; a crash takes them along.
StopMqtt ==
  /\ up /\ Disturbed
  /\ up' = FALSE
  /\ \/ UNCHANGED <<batch, working>>
     \/ batch' = <<>> /\ working' = <<>>
  /\ UNCHANGED <<topic, replies, position>>

\* The component's connection is lost and made again, in a new clean session.
Reconnect ==
  /\ up /\ Disturbed
  /\ position' = Len(topic)
  /\ UNCHANGED <<topic, replies, up, batch, working>>

\* The callers' is: the replies under way are lost, and the client sends again
\* what the broker has not acknowledged (QoS 1).
ReconnectCallers ==
  /\ Disturbed
  /\ replies' = <<>>
  /\ topic' \in {topic} \cup {Append(topic, r) : r \in ToSet(topic)}
  /\ UNCHANGED <<up, position, batch, working>>

-----------------------------------------------------------------------------
KafkaProcessStep ==
  /\ broker = "kafka"
  /\ Start \/ ConsumerStep \/ Stop(committed) \/ Stop(position)
  /\ UNCHANGED working

MqttProcessStep ==
  /\ broker = "mqtt"
  /\ \/ StartMqtt \/ OnMessage \/ HandleInPool
     \/ \E i \in DOMAIN working : RespondFromPool(i)
     \/ StopMqtt \/ Reconnect \/ ReconnectCallers

CallersStep ==
  /\ \/ \E r \in Requests : Request(r) \/ CallerStep(r)
     \/ HandleReply
  /\ UNCHANGED working

BusNext == (CallersStep \/ KafkaProcessStep \/ MqttProcessStep) /\ UNCHANGED broker

BusSpec == BusInit /\ [][BusNext]_busVars

\* Fairness as in KafkaBus, for the network thread and the workers too.
FairBusSpec ==
  /\ BusSpec
  /\ \A r \in Requests : WF_busVars(CallerStep(r) /\ UNCHANGED <<broker, working>>)
  /\ WF_busVars(HandleReply /\ UNCHANGED <<broker, working>>)
  /\ WF_busVars(KafkaProcessStep /\ Start /\ UNCHANGED broker)
  /\ WF_busVars(KafkaProcessStep /\ UNCHANGED broker
                  /\ \E n \in 0 .. Len(topic) : WarmUpPoll(n))
  /\ WF_busVars(KafkaProcessStep /\ Poll(Len(topic)) /\ UNCHANGED broker)
  /\ WF_busVars(KafkaProcessStep /\ Handle /\ UNCHANGED broker)
  /\ WF_busVars(KafkaProcessStep /\ Respond /\ UNCHANGED broker)
  /\ WF_busVars(MqttProcessStep /\ StartMqtt /\ UNCHANGED broker)
  /\ WF_busVars(MqttProcessStep /\ OnMessage /\ UNCHANGED broker)
  /\ WF_busVars(MqttProcessStep /\ HandleInPool /\ UNCHANGED broker)
  /\ WF_busVars(MqttProcessStep /\ UNCHANGED broker
                  /\ \E i \in DOMAIN working : RespondFromPool(i))
=============================================================================
