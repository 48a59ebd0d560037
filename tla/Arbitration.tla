----------------------------- MODULE Arbitration ----------------------------
(***************************************************************************)
(* How the contracts of the desks become a decision: the weighted score    *)
(* and its gates (src/workflow/weight_assigner.py), the overlay of the LLM *)
(* arbitrator (src/workflow/weighted_arbitrator.py), and the trade intent  *)
(* of a paper run (src/workflow/execution_intent.py).                      *)
(*                                                                         *)
(* A contract is what the gates see of it: the score of its factors in     *)
(* percent, whether its status is neither error nor skipped, and whether   *)
(* it reports a news shock.  Composites and confidences are in units of    *)
(* 1/10000, which the code rounds to; quotients are rounded down.          *)
(*                                                                         *)
(* The desks that vote are those with a weight, whether or not they ran:   *)
(* one without a contract is as enabled as the others, and its factors     *)
(* have their defaults.                                                    *)
(***************************************************************************)
EXTENDS DeployConfig, FiniteSetsExt

CONSTANTS
  Factors,       \* the number of factors of each desk
  TaDesk,        \* the desk that may decide by itself
  NewsDesk,      \* the desk that reports shocks
  MinFactors,    \* alignment_gating.min_factors_for_directional
  BuyComposite, BuyConf,     \* the gates, in percent: buy.min_composite, ...
  SellComposite, SellConf,
  TaBuy, TaSell, TaConf      \* ta_led.buy_min_composite, ...

ASSUME ArbitrationConstants ==
  /\ TaDesk \in Agent /\ NewsDesk \in Agent
  /\ Factors \in [Agent -> Nat] /\ MinFactors \in Nat
  /\ {BuyComposite, BuyConf, SellComposite, SellConf, TaBuy, TaSell, TaConf} \subseteq 0..100

Distance(x) == 2 * (IF x < 5000 THEN 5000 - x ELSE x - 5000)

(* The contracts of the desks with a weight, with it.                       *)
Ballots(contract, weight) ==
  [a \in DOMAIN weight |-> [score |-> contract[a].score, ok |-> contract[a].ok, weight |-> weight[a]]]

Enabled(c) == {a \in DOMAIN c : c[a].ok}
Bullish(c) == {a \in Enabled(c) : c[a].score >= 55}
Bearish(c) == {a \in Enabled(c) : c[a].score <= 45}

(* compute_global_weighted_score.  The consensus is that of the larger      *)
(* side, whichever side the composite is on.                                *)
Composite(c) ==
  LET total == SumFunctionOnSet([a \in DOMAIN c |-> c[a].weight], Enabled(c))
  IN  IF total = 0 THEN 5000
      ELSE SumFunctionOnSet([a \in DOMAIN c |-> 100 * c[a].weight * c[a].score], Enabled(c)) \div total

Confidence(c) ==
  LET n == Cardinality(Enabled(c))
      side == Max({Cardinality(Bullish(c)), Cardinality(Bearish(c))})
  IN  IF n = 0 THEN 0 ELSE (Distance(Composite(c)) * (n + side)) \div (2 * n)

(* The gate of the composite ...                                            *)
GlobalGate(c) ==
  IF Composite(c) >= Max({5300, 100 * BuyComposite}) /\ Confidence(c) >= 100 * BuyConf THEN "BUY"
  ELSE IF Composite(c) <= Min({4700, 100 * SellComposite}) /\ Confidence(c) >= 100 * SellConf THEN "SELL"
  ELSE "HOLD"

(* ... which too few factors close again.                                   *)
Blocked(c) ==
  GlobalGate(c) # "HOLD" /\ SumFunctionOnSet(Factors, Enabled(c)) < MinFactors

AlignedGate(c) == IF Blocked(c) THEN "HOLD" ELSE GlobalGate(c)

(* The confidence of the technical desk when it decides by itself; a news   *)
(* shock keeps it from buying, not the composite.                           *)
TaConfidence(c) == Max({Confidence(c), Min({10000, 5000 + Distance(100 * c[TaDesk].score)})})
Shock(contract) == contract[NewsDesk].shock

TaLeads(c, shock, action) ==
  /\ TaDesk \in Enabled(c) /\ TaConfidence(c) >= 100 * TaConf
  /\ AlignedGate(c) # action
  /\ IF action = "BUY" THEN ~shock /\ c[TaDesk].score >= TaBuy ELSE c[TaDesk].score <= TaSell

(* compute_weighted_arbitration: the action, its confidence, and whether    *)
(* it is held for want of factors.                                          *)
Decision(c, shock) ==
  IF TaLeads(c, shock, "BUY") THEN [action |-> "BUY", conf |-> TaConfidence(c), gated |-> FALSE]
  ELSE IF TaLeads(c, shock, "SELL") THEN [action |-> "SELL", conf |-> TaConfidence(c), gated |-> FALSE]
  ELSE [action |-> AlignedGate(c), conf |-> Confidence(c), gated |-> Blocked(c)]

(* _apply_llm_arbitration with the answer of the LLM, if there is one.      *)
NoAnswer == [action |-> "none", conf |-> 0]

Overlay(d, answer) ==
  IF answer = NoAnswer THEN d
  ELSE [d EXCEPT !.action = IF d.gated THEN "HOLD" ELSE answer.action, !.conf = answer.conf]

(* derive_trade_intent of a paper run.  The snapshot leaves out a symbol    *)
(* that is not held, so that the lower bound meant for a flat book never    *)
(* applies: MinConf decides.                                                *)
IntentAction(d, MinConf) == IF d.conf >= 100 * MinConf THEN d.action ELSE "HOLD"

=============================================================================
