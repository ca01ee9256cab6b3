------------------------------ MODULE Insurance ------------------------------
(***************************************************************************)
(* The two insurers, one of which a deployment runs: systems/alt_insurer   *)
(* and the Java service systems/insurer.  Both take one request at a time  *)
(* and sell a policy to whoever asks.  They differ in how a policy ends.   *)
(*                                                                         *)
(* Premiums and terms are left out, so a mission policy and an annual one  *)
(* are alike, and so are the incidents, which a premium alone depends on.  *)
(* A request that is refused changes nothing and is no step.               *)
(***************************************************************************)
EXTENDS Naturals

CONSTANTS Orders,
          MaxPolicies \* bound on the policies of an order

VARIABLES insurer,   \* "alt" or "java"
          active,    \* order -> the number of its active policies
          ended      \* order -> the number of its terminated policies

InsuranceTypeOK ==
  /\ insurer \in {"alt", "java"}
  /\ active \in [Orders -> Nat] /\ ended \in [Orders -> Nat]

InsuranceInit ==
  /\ insurer \in {"alt", "java"}
  /\ active = [o \in Orders |-> 0] /\ ended = [o \in Orders |-> 0]

\* annual_insurance, purchase_policy, mission_insurance: each request is one
\* more policy, also for an order that has one.
Sell(o) ==
  /\ active[o] + ended[o] < MaxPolicies
  /\ active' = [active EXCEPT ![o] = @ + 1]
  /\ UNCHANGED <<insurer, ended>>

EndsPolicies(o) ==
  /\ ended' = [ended EXCEPT ![o] = @ + active[o]]
  /\ active' = [active EXCEPT ![o] = 0]
  /\ UNCHANGED insurer

\* alt: every active policy of the order.
HandleTerminate(o) == insurer = "alt" /\ active[o] > 0 /\ EndsPolicies(o)

\* java: the one policy of the order, active or not; an error if there are two.
TerminatePolicyByOrderId(o) ==
  insurer = "java" /\ active[o] + ended[o] = 1 /\ EndsPolicies(o)
=============================================================================
