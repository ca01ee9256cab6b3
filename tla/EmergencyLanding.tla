-------------------------- MODULE EmergencyLanding --------------------------
(***************************************************************************)
(* systems/agrodron: the emergency protocol.  The limiter notices that the *)
(* drone left its mission and tells emergensy; emergensy isolates the      *)
(* security monitor, closes the sprayer and lands the motors.  All of it,  *)
(* the autopilot's commands and the motors' own commands to the simulator  *)
(* included, passes through the security monitor, which forwards what its  *)
(* policies (sender, topic, action) allow.                                 *)
(*                                                                         *)
(* Broker "kafka": a component's one consumer thread takes the messages of *)
(* its topic in order and finishes one before it takes the next.  Broker   *)
(* "mqtt": a thread pool takes them in any order and handlers overlap.     *)
(* Left out: journal messages.                                             *)
(***************************************************************************)
EXTENDS Naturals, Sequences, SequencesExt

CONSTANTS Broker,      \* "kafka" or "mqtt"
          Normal,      \* the policies of SECURITY_POLICIES
          Grants,      \* policies the policy administrator may set or remove
          MaxCommands, \* bound on the autopilot's messages
          MaxEvents,   \* bound on the limiter's events
          MaxAdmin     \* bound on the administrator's messages

Rule(s, t, a) == [sender |-> s, topic |-> t, action |-> a]

\* Mutant: the landing is forgotten.
EmergencyWithoutLand == {Rule("emergensy", "sprayer", "set_spray")}

\* _load_emergency_policies, without navigation, journal and isolation_status.
Emergency == {Rule("emergensy", "motors", "land"),
              Rule("emergensy", "sprayer", "set_spray")}

Topics == {"security_monitor", "emergensy", "motors", "sprayer", "sitl"}

ASSUME EmergencyAssumption ==
  /\ Broker \in {"kafka", "mqtt"}
  /\ \A p \in Normal \cup Grants : DOMAIN p = {"sender", "topic", "action"}
  /\ MaxCommands \in Nat /\ MaxEvents \in Nat /\ MaxAdmin \in Nat

VARIABLES policies,   \* SecurityMonitor._policies
          mode,       \* SecurityMonitor._mode
          forwarding, \* messages a monitor handler allowed and will pass on
          inbox,      \* topic -> the messages it holds
          protocol,   \* what emergensy's handler has still to publish
          active,     \* Emergensy._active
          limiter,    \* Limiter._state
          motors,     \* Motors._mode
          sprayer,    \* Sprayer._state
          flight,     \* the last command the flight simulator got
          amended,    \* has the administrator changed the policies since the
                      \* isolation?
          sent        \* sender -> number of messages it sent, for the bounds

vars == <<policies, mode, forwarding, inbox, protocol, active, limiter, motors,
          sprayer, flight, amended, sent>>

TypeOK ==
  /\ policies \subseteq Normal \cup Grants \cup Emergency
  /\ mode \in {"NORMAL", "ISOLATED"}
  /\ DOMAIN inbox = Topics
  /\ Len(protocol) <= 3
  /\ active \in BOOLEAN
  /\ limiter \in {"NORMAL", "WARNING", "EMERGENCY"}
  /\ motors \in {"IDLE", "TRACKING", "LANDING"}
  /\ sprayer \in {"ON", "OFF"}
  /\ flight \in {"none", "track", "land"}
  /\ amended \in BOOLEAN
  /\ sent \in [{"autopilot", "limiter", "admin"} -> Nat]

Init ==
  /\ policies = Normal
  /\ mode = "NORMAL"
  /\ forwarding = <<>>
  /\ inbox = [t \in Topics |-> <<>>]
  /\ protocol = <<>>
  /\ active = FALSE
  /\ limiter = "NORMAL"
  /\ motors = "IDLE"
  /\ sprayer = "OFF"
  /\ flight = "none"
  /\ amended = FALSE
  /\ sent = [s \in {"autopilot", "limiter", "admin"} |-> 0]

-----------------------------------------------------------------------------
(* The broker. *)

Busy(t) == \/ t = "security_monitor" /\ forwarding # <<>>
           \/ t = "emergensy" /\ protocol # <<>>

\* The component of topic t takes its i-th message, which has this action.
Takes(t, i, action) ==
  /\ i \in DOMAIN inbox[t]
  /\ inbox[t][i].action = action
  /\ Broker = "kafka" => i = 1 /\ ~Busy(t)

Taken(t, i) == [inbox EXCEPT ![t] = RemoveAt(@, i)]

\* A message to the monitor: pass data on to topic t as action a.
Proxy(s, t, a, data) ==
  [action |-> "proxy", sender |-> s, rule |-> Rule(s, t, a), data |-> data]

ToMonitor(box, msg) ==
  [box EXCEPT !["security_monitor"] = Append(@, msg)]

Counts(s, max) == sent[s] < max /\ sent' = [sent EXCEPT ![s] = @ + 1]

-----------------------------------------------------------------------------
(* The senders. *)

\* What Autopilot publishes or asks while it flies, in any order.
AutopilotSends(msg) ==
  /\ Counts("autopilot", MaxCommands)
  /\ inbox' = ToMonitor(inbox, msg)
  /\ UNCHANGED <<policies, mode, forwarding, protocol, active, limiter, motors,
                 sprayer, flight, amended>>

AutopilotMessages ==
  {Proxy("autopilot", "motors", "set_target", "track"),
   Proxy("autopilot", "sprayer", "set_spray", "ON"),
   Proxy("autopilot", "sprayer", "set_spray", "OFF"),
   Proxy("autopilot", "navigation", "get_state", "")}

\* _recalculate: one event per entry into EMERGENCY.
LimiterRecalculates(state) ==
  /\ limiter # state
  /\ limiter' = state
  /\ IF state = "EMERGENCY"
     THEN /\ Counts("limiter", MaxEvents)
          /\ inbox' = ToMonitor(inbox,
                        Proxy("limiter", "emergensy", "limiter_event", ""))
     ELSE UNCHANGED <<inbox, sent>>
  /\ UNCHANGED <<policies, mode, forwarding, protocol, active, motors, sprayer,
                 flight, amended>>

\* The policy administrator asks for set_policy, remove_policy,
\* clear_policies or isolation_start.
AdminSends(action, rule) ==
  /\ Counts("admin", MaxAdmin)
  /\ inbox' = ToMonitor(inbox, [action |-> action, sender |-> "admin",
                                rule |-> rule, data |-> ""])
  /\ UNCHANGED <<policies, mode, forwarding, protocol, active, limiter, motors,
                 sprayer, flight, amended>>

-----------------------------------------------------------------------------
(* SecurityMonitor. *)

\* _is_allowed: the exact rule, or one with a wildcard.
Covers(policy, rule) == /\ policy.sender = rule.sender
                        /\ policy.topic \in {"*", rule.topic}
                        /\ policy.action \in {"*", rule.action}

Allowed(rule) == \E p \in policies : Covers(p, rule)

\* _handle_proxy_publish and _handle_proxy_request up to the check.
HandleProxy(i) ==
  /\ Takes("security_monitor", i, "proxy")
  /\ LET msg == inbox["security_monitor"][i]
     IN forwarding' = IF Allowed(msg.rule) THEN Append(forwarding, msg)
                                               ELSE forwarding
  /\ inbox' = Taken("security_monitor", i)
  /\ UNCHANGED <<policies, mode, protocol, active, limiter, motors, sprayer,
                 flight, amended, sent>>

\* ... and the publication, or the end of the wait for the target's answer
\* (which comes or times out; a query changes nothing here).
Forward(i) ==
  /\ i \in DOMAIN forwarding
  /\ LET msg == forwarding[i]
     IN inbox' = IF msg.rule.topic \in Topics
                 THEN [inbox EXCEPT ![msg.rule.topic] =
                         Append(@, [action |-> msg.rule.action, data |-> msg.data])]
                 ELSE inbox
  /\ forwarding' = RemoveAt(forwarding, i)
  /\ UNCHANGED <<policies, mode, protocol, active, limiter, motors, sprayer,
                 flight, amended, sent>>

\* Mutant: the emergency set is added to the policies.
HandleIsolationStartAdding(i) ==
  /\ Takes("security_monitor", i, "isolation_start")
  /\ policies' = policies \cup Emergency
  /\ mode' = "ISOLATED"
  /\ inbox' = Taken("security_monitor", i)
  /\ UNCHANGED <<forwarding, protocol, active, limiter, motors, sprayer, flight,
                 amended, sent>>

\* The emergency set replaces the policies; nothing leaves the mode again.
HandleIsolationStart(i) ==
  /\ Takes("security_monitor", i, "isolation_start")
  /\ policies' = Emergency
  /\ mode' = "ISOLATED"
  /\ inbox' = Taken("security_monitor", i)
  /\ UNCHANGED <<forwarding, protocol, active, limiter, motors, sprayer, flight,
                 amended, sent>>

Manages(i, action, new) ==
  /\ Takes("security_monitor", i, action)
  /\ policies' = new
  /\ amended' = (amended \/ mode = "ISOLATED")
  /\ inbox' = Taken("security_monitor", i)
  /\ UNCHANGED <<mode, forwarding, protocol, active, limiter, motors, sprayer,
                 flight, sent>>

HandleSetPolicy(i) ==
  Manages(i, "set_policy", policies \cup {inbox["security_monitor"][i].rule})

HandleRemovePolicy(i) ==
  Manages(i, "remove_policy", policies \ {inbox["security_monitor"][i].rule})

HandleClearPolicies(i) == Manages(i, "clear_policies", {})

-----------------------------------------------------------------------------
(* Emergensy, Motors, Sprayer and the simulator. *)

\* Mutant: the monitor is isolated last.
HandleLimiterEventLate(i) ==
  /\ Takes("emergensy", i, "limiter_event")
  /\ active' = TRUE
  /\ protocol' = protocol \o
       <<Proxy("emergensy", "sprayer", "set_spray", "OFF"),
         Proxy("emergensy", "motors", "land", "land"),
         [action |-> "isolation_start", sender |-> "emergensy",
          rule |-> Rule("", "", ""), data |-> ""]>>
  /\ inbox' = Taken("emergensy", i)
  /\ UNCHANGED <<policies, mode, forwarding, limiter, motors, sprayer, flight,
                 amended, sent>>

HandleLimiterEvent(i) ==
  /\ Takes("emergensy", i, "limiter_event")
  /\ active' = TRUE
  /\ protocol' = protocol \o
       <<[action |-> "isolation_start", sender |-> "emergensy",
          rule |-> Rule("", "", ""), data |-> ""],
         Proxy("emergensy", "sprayer", "set_spray", "OFF"),
         Proxy("emergensy", "motors", "land", "land")>>
  /\ inbox' = Taken("emergensy", i)
  /\ UNCHANGED <<policies, mode, forwarding, limiter, motors, sprayer, flight,
                 amended, sent>>

\* The handler publishes its three messages one after the other.
EmergensyPublishes ==
  /\ protocol # <<>>
  /\ inbox' = ToMonitor(inbox, Head(protocol))
  /\ protocol' = Tail(protocol)
  /\ UNCHANGED <<policies, mode, forwarding, active, limiter, motors, sprayer,
                 flight, amended, sent>>

\* set_target and land: a new mode, and a command for the simulator that is
\* sent, like everything, through the monitor.
MotorsTake(i, action, newMode) ==
  /\ Takes("motors", i, action)
  /\ motors' = newMode
  /\ inbox' = ToMonitor(Taken("motors", i),
                Proxy("motors", "sitl", "__raw__", inbox["motors"][i].data))
  /\ UNCHANGED <<policies, mode, forwarding, protocol, active, limiter, sprayer,
                 flight, amended, sent>>

HandleSetTarget(i) == MotorsTake(i, "set_target", "TRACKING")
HandleLand(i) == MotorsTake(i, "land", "LANDING")

HandleSetSpray(i) ==
  /\ Takes("sprayer", i, "set_spray")
  /\ sprayer' = inbox["sprayer"][i].data
  /\ inbox' = Taken("sprayer", i)
  /\ UNCHANGED <<policies, mode, forwarding, protocol, active, limiter, motors,
                 flight, amended, sent>>

SimulatorTakes(i) ==
  /\ Takes("sitl", i, "__raw__")
  /\ flight' = inbox["sitl"][i].data
  /\ inbox' = Taken("sitl", i)
  /\ UNCHANGED <<policies, mode, forwarding, protocol, active, limiter, motors,
                 sprayer, amended, sent>>

-----------------------------------------------------------------------------
AdminStep ==
  \/ \E p \in Grants, a \in {"set_policy", "remove_policy"} : AdminSends(a, p)
  \/ \E a \in {"clear_policies", "isolation_start"} : AdminSends(a, Rule("", "", ""))

MonitorStep ==
  \/ \E i \in DOMAIN inbox["security_monitor"] :
       \/ HandleProxy(i) \/ HandleIsolationStart(i) \/ HandleSetPolicy(i)
       \/ HandleRemovePolicy(i) \/ HandleClearPolicies(i)
  \/ \E i \in DOMAIN forwarding : Forward(i)

EmergensyStep ==
  \/ \E i \in DOMAIN inbox["emergensy"] : HandleLimiterEvent(i)
  \/ EmergensyPublishes

MotorsStep ==
  \E i \in DOMAIN inbox["motors"] : HandleSetTarget(i) \/ HandleLand(i)

SprayerStep == \E i \in DOMAIN inbox["sprayer"] : HandleSetSpray(i)

SimulatorStep == \E i \in DOMAIN inbox["sitl"] : SimulatorTakes(i)

Next ==
  \/ \E msg \in AutopilotMessages : AutopilotSends(msg)
  \/ \E state \in {"NORMAL", "WARNING", "EMERGENCY"} : LimiterRecalculates(state)
  \/ AdminStep \/ MonitorStep \/ EmergensyStep \/ MotorsStep \/ SprayerStep
  \/ SimulatorStep

Spec == Init /\ [][Next]_vars

\* The consumer threads keep running.
FairSpec == /\ Spec
            /\ WF_vars(MonitorStep) /\ WF_vars(EmergensyStep)
            /\ WF_vars(MotorsStep) /\ WF_vars(SprayerStep) /\ WF_vars(SimulatorStep)

-----------------------------------------------------------------------------
(* Properties. *)

\* Emergensy ran and everything sent has been taken.
Settled == /\ active
           /\ protocol = <<>> /\ forwarding = <<>>
           /\ \A t \in Topics : inbox[t] = <<>>

\* Whatever the autopilot had under way when the emergency came, and however
\* it goes on, the protocol ends with the motors landing and the sprayer
\* closed (README_EMERGENSY: the order of the commands is guaranteed), unless
\* the administrator changed the policies after the isolation.
EmergencyWins == Settled => amended \/ (motors = "LANDING" /\ sprayer = "OFF")

\* Landing motors do not start to follow targets again unless the policies
\* were changed after the isolation: no command checked under the policies of
\* before arrives after the landing.
LandingIsFinal ==
  [][motors = "LANDING" /\ motors' # "LANDING" => amended]_vars

\* An emergency the limiter saw ends in landing motors, if nobody administers
\* the policies.
EmergencyLands ==
  limiter = "EMERGENCY" ~> motors = "LANDING" \/ sent["admin"] > 0
=============================================================================
