---------------------------- MODULE DeployConfig ----------------------------
(***************************************************************************)
(* The active deployment, config/deploy.active.json, as the trading pass   *)
(* sees it (src/config/deploy_loader.py): which desks run, which of them   *)
(* an LLM speaks for, and with which weights they vote.  Nothing keeps the *)
(* file in memory: every question opens it again, and a file that is       *)
(* missing, or that the API is just writing, answers none of them.  What   *)
(* is asked then takes a default of its own.                               *)
(***************************************************************************)
EXTENDS Integers, FiniteSets

CONSTANTS
  Agent,          \* the desks of the registry
  DefaultWeight,  \* their weights there
  Deployment      \* deployments that may be written

ASSUME DeployConstants ==
  /\ IsFiniteSet(Agent) /\ DefaultWeight \in [Agent -> Nat]
  /\ \A d \in Deployment :
       /\ d.enabled \subseteq Agent /\ d.llm \subseteq Agent /\ d.weight \in [Agent -> Nat]
       /\ d.synthesis \in BOOLEAN /\ d.overlay \in BOOLEAN

Unreadable == [enabled |-> {}, llm |-> {}, weight |-> [a \in Agent |-> 0],
               synthesis |-> FALSE, overlay |-> FALSE]

(* A vote needs a positive weight.                                          *)
Positive(w) == [a \in {b \in DOMAIN w : w[b] > 0} |-> w[a]]

(* The desks of the graph: all of the registry if none is enabled.          *)
Nodes(file) == IF file.enabled = {} THEN Agent ELSE file.enabled

(* get_effective_weights: those of the enabled desks.                       *)
DeployedWeights_All(file) == Positive(file.weight)
DeployedWeights(file) == Positive([a \in file.enabled |-> file.weight[a]])

(* _resolve_agent_weights, for a pass without a profile: the registry's     *)
(* if the deployment has none.                                              *)
Weights(file) ==
  IF DOMAIN DeployedWeights(file) = {} THEN Positive(DefaultWeight) ELSE DeployedWeights(file)

(* The desks an LLM is asked about: none unless the deployment says so.     *)
LlmDesks(file) == IF file.synthesis THEN file.llm \cap file.enabled ELSE {}

=============================================================================
