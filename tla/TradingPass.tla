----------------------------- MODULE TradingPass ----------------------------
(***************************************************************************)
(* Passes of the trading workflow in paper mode, the graph of src/main.py: *)
(* policy_orchestrator, market_scan, the desks, signal_arbitrator,         *)
(* portfolio_proposal, risk_guard, portfolio_execute and audit, trading    *)
(* one symbol on the paper account of PaperFill.  What desks and LLMs      *)
(* answer is nondeterministic; what becomes of an answer is not.           *)
(*                                                                         *)
(* A pass reads the account twice, before the desks and before its orders, *)
(* and sizes its orders with what it read; it reads the deployment four    *)
(* times.  The API may reset the account, or write the deployment, at any  *)
(* time.  Quantities are whole lots.                                       *)
(***************************************************************************)
EXTENDS Arbitration, PaperAccount, Sequences

CONSTANTS
  Score,           \* scores that may come
  Conf,            \* confidences of the LLM arbitrator, in 1/10000
  LlmQty,          \* quantities the LLM execution desk may ask for
  AbsentScore,     \* what the factors of a desk without a contract come to
  Probe,           \* the quantity of the order made without LLM, 0.01 in the code
  MinConf,         \* min_confidence_directional of the fund policy, in percent
  IntentDiv,       \* 1 / intent_notional_fraction of the fund policy
  OrderDiv,        \* 1 / max_notional_fraction of the settings
  MinNotional,     \* min_notional_usd, in price units
  MaxOrders,       \* bound: orders the LLM execution desk asks for
  MaxPasses,       \* bound: passes
  MaxDeploys       \* bound: deployments written

ASSUME ScoreConstants == Score \subseteq 0..100 /\ AbsentScore \in [Agent -> 0..100] /\ MinConf \in 0..100
ASSUME ConfConstants == Conf \subseteq 0..9500
ASSUME PassConstants ==
  /\ LlmQty \subseteq Nat \ {0} /\ Probe \in Nat \ {0}
  /\ IntentDiv \in Nat \ {0} /\ OrderDiv \in Nat \ {0} /\ MinNotional \in Nat
  /\ MaxOrders \in Nat /\ MaxPasses \in Nat /\ MaxDeploys \in Nat

VARIABLES
  deploy,      \* what can be read of the deployment
  writing,     \* the API has opened it for writing
  stage,       \* the node that runs next
  pass,        \* what the pass was started with and has decided
  desk,        \* tier0_contracts, the last of each desk
  answers,     \* the LLM's answer for each desk it is asked about
  plan,        \* the orders that portfolio_execute has still to handle
  sent,        \* the orders it has sent, and what became of each
  report,      \* execution_result of the last pass that reached its audit
  began,       \* history: the account when the pass began; <<>> after a reset
  passes,      \* history: passes begun
  deploys      \* history: deployments written

config == <<instrument, deploy, writing, deploys>>
vars == <<config, acct, stage, pass, desk, answers, plan, sent, report, began, passes>>

Directional == {"BUY", "SELL"}
Side(action) == IF action = "BUY" THEN "buy" ELSE "sell"

(* The contracts a desk may answer, the neutral one of a desk that failed   *)
(* or was skipped among them; what the arbitrator makes of a desk that did  *)
(* not run; and the answers of the LLM that speaks for a desk, where a      *)
(* failed call leaves a neutral stub.                                       *)
Neutral(ok) == [score |-> 50, ok |-> ok, shock |-> FALSE]
Sound(a) == [score : Score, ok : {TRUE}, shock : IF a = NewsDesk THEN BOOLEAN ELSE {FALSE}]
Contract(a) == Sound(a) \cup {Neutral(FALSE)}
Absent(a) == [score |-> AbsentScore[a], ok |-> TRUE, shock |-> FALSE]
Answer(a) ==
  [source : {"agent_llm"}, contract : Sound(a)] \cup {[source |-> "error", contract |-> Neutral(TRUE)]}
Waiting == <<>>
Unread == [a \in Agent |-> Neutral(FALSE)]
Unasked == [a \in Agent |-> Waiting]

NoReport == [status |-> "none", acct |-> <<>>, single |-> FALSE, unsold |-> FALSE]
Idle == [px |-> 1, nodes |-> {}, asked |-> {}, clean |-> TRUE, vetoed |-> FALSE, llm |-> FALSE,
         overlay |-> NoAnswer, action |-> "HOLD", conf |-> 0, cap |-> 0, now |-> Flat(0)]

Init ==
  /\ instrument \in {"spot", "perp"}
  /\ acct = Flat(Start * Unit)
  /\ deploy \in Deployment \cup {Unreadable} /\ writing = FALSE /\ deploys = 0
  /\ stage = "idle" /\ pass = Idle
  /\ desk = Unread /\ answers = Unasked
  /\ plan = <<>> /\ sent = <<>> /\ report = NoReport /\ began = <<>> /\ passes = 0

TypeOK ==
  /\ instrument \in {"spot", "perp"} /\ acct \in Account
  /\ deploy \in Deployment \cup {Unreadable} /\ (writing => deploy = Unreadable)
  /\ stage \in {"idle", "desks", "ask", "infer", "guard", "execute", "orders", "audit"}
  /\ \A a \in Agent : desk[a] \in Contract(a) \cup {Absent(a)}
  /\ pass.action \in {"BUY", "SELL", "HOLD"} /\ pass.conf \in 0..10000 /\ pass.cap \in Nat
  /\ \A i \in DOMAIN sent : sent[i].qty \in Nat \ {0} /\ sent[i].side \in {"buy", "sell"}
  /\ instrument = "spot" => acct.cash >= 0 /\ acct.qty >= 0
  /\ Len(plan) + Len(sent) <= MaxOrders + 1

-----------------------------------------------------------------------------
(* Caps and clamps.  Leverage counts for perpetuals only; a cap is a part   *)
(* of the cash, whatever the order is to do.                                *)

Lev == IF instrument = "perp" THEN Leverage ELSE 1
Least0(x) == IF x < 0 THEN 0 ELSE x
Lots(notional, px) == notional \div (px * Unit)
TooSmall(q, px) == Notional(q, px) < MinNotional * Unit

IntentCap(a) == (Least0(a.cash) \div IntentDiv) * Lev

Cap == Least(Least0((pass.now.cash \div OrderDiv) * Lev), pass.cap)

(* The largest notional that the cash pays margin and fee for.              *)
ByCash ==
  LET cash == Least0(pass.now.cash)
  IN  IF FeeDiv = 0 THEN cash * Leverage ELSE (cash * Leverage * FeeDiv) \div (FeeDiv + Leverage)

Capped(q, notional) == Least(q, Lots(notional, pass.px))
OrSkipped(q) == IF TooSmall(q, pass.px) THEN 0 ELSE q

(* What is left of an order of the plan; 0 when it is skipped.              *)
Clamp_Once(side, q) ==
  LET held == Least0(pass.now.qty)
  IN  IF instrument = "spot" /\ side = "sell" THEN OrSkipped(Least(q, held))
      ELSE IF instrument = "perp" THEN OrSkipped(Capped(q, ByCash)) ELSE OrSkipped(q)

Clamp(side, q) ==
  LET capped == OrSkipped(Capped(q, Cap))
      held == Least0(pass.now.qty)
  IN  IF instrument = "spot" /\ side = "sell" THEN OrSkipped(Least(capped, held))
      ELSE IF instrument = "perp" THEN OrSkipped(Capped(capped, ByCash)) ELSE capped

(* The order made of the intent itself, when no other was sent.             *)
Synthesized_AllCash(action) ==
  IF Cap < MinNotional * Unit THEN 0
  ELSE IF action = "BUY" THEN Lots(Least0(pass.now.cash), pass.px)
  ELSE OrSkipped(Least0(pass.now.qty))

Synthesized(action) ==
  LET held == pass.now.qty
      most == Lots(Cap, pass.px)
  IN  IF Cap < MinNotional * Unit THEN 0
      ELSE IF action = "BUY" THEN most
      ELSE IF instrument = "perp" THEN IF held > 0 THEN Least(held, most) ELSE most
      ELSE OrSkipped(held)

-----------------------------------------------------------------------------
(* The API writes a deployment in place: while it does, there is nothing    *)
(* to read.  A pass is clean if that never happened while it ran.           *)
DeployBegin ==
  /\ ~writing /\ deploys < MaxDeploys
  /\ deploy' = Unreadable /\ writing' = TRUE /\ deploys' = deploys + 1
  /\ pass' = IF stage \in {"desks", "ask", "infer"} THEN [pass EXCEPT !.clean = FALSE] ELSE pass
  /\ UNCHANGED <<instrument, acct, stage, desk, answers, plan, sent, report, began, passes>>

DeployEnd(file) ==
  /\ writing
  /\ deploy' = file /\ writing' = FALSE
  /\ UNCHANGED <<instrument, deploys, acct, stage, pass, desk, answers, plan, sent, report, began,
                 passes>>

(* The graph is built of the desks of the deployment; policy_orchestrator   *)
(* reads the account, market_scan the prices.                               *)
Begin(px) ==
  /\ stage = "idle" /\ passes < MaxPasses
  /\ pass' = [Idle EXCEPT !.px = px, !.nodes = Nodes(deploy), !.clean = ~writing,
                          !.cap = IntentCap(acct)]
  /\ stage' = "desks" /\ began' = acct /\ passes' = passes + 1
  /\ UNCHANGED <<config, acct, desk, answers, plan, sent, report>>

(* The desks run side by side, each adding its contract to the state.       *)
Desks ==
  /\ stage = "desks"
  /\ desk' \in {f \in [Agent -> UNION {Contract(a) \cup {Absent(a)} : a \in Agent}] :
                 \A a \in Agent : f[a] \in IF a \in pass.nodes THEN Contract(a) ELSE {Absent(a)}}
  /\ stage' = "ask"
  /\ UNCHANGED <<config, acct, pass, answers, plan, sent, report, began, passes>>

(* _inject_llm_signals asks the LLM about the desks the deployment names:   *)
(* a thread for each; they finish in any order.                             *)
Ask ==
  /\ stage = "ask"
  /\ pass' = [pass EXCEPT !.asked = LlmDesks(deploy)]
  /\ stage' = "infer"
  /\ UNCHANGED <<config, acct, desk, answers, plan, sent, report, began, passes>>

Infer(a, answer) ==
  /\ stage = "infer" /\ a \in pass.asked /\ answers[a] = Waiting
  /\ answers' = [answers EXCEPT ![a] = answer]
  /\ UNCHANGED <<config, acct, stage, pass, desk, plan, sent, report, began, passes>>

(* The state of the graph goes with the pass.                               *)
Over == pass' = Idle /\ desk' = Unread /\ answers' = Unasked /\ sent' = <<>> /\ report' = NoReport

(* No LLM key, or a node that raises: the pass ends without a report.       *)
Raise ==
  /\ stage \in {"desks", "ask", "infer"}
  /\ stage' = "idle" /\ Over
  /\ UNCHANGED <<config, acct, plan, began, passes>>

(* An answer takes the place of the desk's contract; a failure does not.    *)
Merged_Stubs == [a \in Agent |-> IF answers[a] = Waiting THEN desk[a] ELSE answers[a].contract]

Merged ==
  [a \in Agent |-> IF answers[a] = Waiting \/ answers[a].source = "error" THEN desk[a]
                   ELSE answers[a].contract]

(* weighted_arbitrator_node, with the weights as they are now, and the      *)
(* answer of the LLM arbitrator.  (Contracts are not read from here on.)    *)
Overlays ==
  {NoAnswer} \cup (IF deploy.overlay THEN [action : {"BUY", "SELL", "HOLD"}, conf : Conf] ELSE {})

Arbitrate ==
  /\ stage = "infer"
  /\ \A a \in pass.asked : answers[a] # Waiting
  /\ \E decided \in {Decision(c, Shock(Merged)) : c \in {Ballots(Merged, Weights(deploy))}} :
     \E overlay \in Overlays :
       LET d == Overlay(decided, overlay)
       IN  pass' = [pass EXCEPT !.overlay = overlay, !.conf = d.conf,
                                !.action = IntentAction(d, MinConf),
                                !.nodes = {}, !.asked = {}, !.clean = TRUE]
  /\ desk' = Unread /\ answers' = Unasked
  /\ stage' = "guard"
  /\ UNCHANGED <<config, acct, plan, sent, report, began, passes>>

(* portfolio_proposal and risk_guard.  The guard scores the book under      *)
(* shared_memory.backtest, which a paper run has not: only the kill switch, *)
(* of the environment, makes it veto.  A veto makes the intent HOLD and     *)
(* leads to the audit.  (The confidence is not read from here on.)          *)
RiskGuard(kill) ==
  /\ stage = "guard"
  /\ pass' = [pass EXCEPT !.overlay = NoAnswer, !.conf = 0, !.vetoed = kill,
                          !.action = IF kill THEN "HOLD" ELSE @]
  /\ stage' = IF kill THEN "audit" ELSE "execute"
  /\ report' = IF kill THEN [NoReport EXCEPT !.status = "skipped"] ELSE report
  /\ UNCHANGED <<config, acct, desk, answers, plan, sent, began, passes>>

(* What the LLM execution desk may answer.                                  *)
LlmOrders == UNION {[1..n -> [side : {"buy", "sell"}, qty : LlmQty]] : n \in 0..MaxOrders}

(* portfolio_execute reads the account and the deployment again, and takes  *)
(* the orders of the LLM execution desk, or one of the intent.              *)
Execute ==
  /\ stage = "execute"
  /\ pass' = [pass EXCEPT !.now = acct, !.llm = deploy.synthesis]
  /\ plan' \in IF deploy.synthesis THEN LlmOrders
               ELSE IF pass.action \notin Directional THEN {<<>>}
               ELSE {<<[side |-> Side(pass.action), qty |-> Probe]>>}
  /\ stage' = "orders"
  /\ UNCHANGED <<config, acct, desk, answers, sent, report, began, passes>>

(* place_smart_order: filled on the account as it is now, or refused.       *)
Send(side, q, synth) ==
  LET fill == Fill(side, q, pass.px)
  IN  /\ acct' = fill.acct
      /\ sent' = Append(sent, [side |-> side, qty |-> q, synth |-> synth, booked |-> fill.ok,
                               current |-> acct = pass.now,
                               acct |-> IF fill.ok THEN fill.acct ELSE <<>>])

(* The loop over the orders of the plan.                                    *)
PlaceNext ==
  /\ stage = "orders" /\ plan # <<>>
  /\ LET o == Head(plan)
         q == Clamp(o.side, o.qty)
     IN  IF q = 0 THEN UNCHANGED <<acct, sent>> ELSE Send(o.side, q, FALSE)
  /\ plan' = Tail(plan)
  /\ UNCHANGED <<config, stage, pass, desk, answers, report, began, passes>>

(* After the loop an order is made of the intent if none was sent, whatever *)
(* the LLM execution desk wanted; then execution_result is written: with    *)
(* the account of the first order, or the one read before the orders.       *)
Written_Sent(out) ==
  [status |-> IF out # <<>> THEN "executed" ELSE "skipped",
   acct |-> IF out = <<>> THEN pass.now ELSE out[1].acct,
   single |-> Len(out) <= 1,
   unsold |-> pass.action = "SELL" /\ pass.now.qty > 0 /\ out = <<>>]

Written(out) ==
  [status |-> IF \E i \in DOMAIN out : out[i].booked THEN "executed" ELSE "skipped",
   acct |-> IF out = <<>> THEN pass.now ELSE out[1].acct,
   single |-> Len(out) <= 1,
   unsold |-> pass.action = "SELL" /\ pass.now.qty > 0 /\ out = <<>>]

Synthesize ==
  /\ stage = "orders" /\ plan = <<>>
  /\ LET q == IF pass.action \in Directional THEN Synthesized(pass.action) ELSE 0
     IN  IF sent = <<>> /\ q > 0 THEN Send(Side(pass.action), q, TRUE) ELSE UNCHANGED <<acct, sent>>
  /\ report' = Written(sent')
  /\ stage' = "audit"
  /\ UNCHANGED <<config, pass, desk, answers, plan, began, passes>>

(* audit appends the outcome to the policy memory.                          *)
Audit ==
  /\ stage = "audit"
  /\ stage' = "idle" /\ Over
  /\ UNCHANGED <<config, acct, plan, began, passes>>

(* The API's reset of the paper account (src/api/engine_routes.py), which   *)
(* no lock keeps out of a pass.                                             *)
Reset ==
  /\ acct' = Flat(Start * Unit) /\ began' = <<>>
  /\ UNCHANGED <<config, stage, pass, desk, answers, plan, sent, report, passes>>

Next ==
  \/ \E px \in Price : Begin(px)
  \/ \E a \in Agent : \E answer \in Answer(a) : Infer(a, answer)
  \/ \E kill \in BOOLEAN : RiskGuard(kill)
  \/ \E file \in Deployment : DeployEnd(file)
  \/ DeployBegin \/ Desks \/ Ask \/ Arbitrate \/ Raise
  \/ Execute \/ PlaceNext \/ Synthesize \/ Audit \/ Reset

Spec == Init /\ [][Next]_vars

-----------------------------------------------------------------------------
(* What the desks say, an LLM that answered speaking for its desk: stated   *)
(* here without regard to the order in which the answers came.              *)
Heard ==
  [a \in Agent |->
     IF answers[a] \in [source : {"agent_llm"}, contract : Sound(a)]
     THEN answers[a].contract ELSE desk[a]]

(* A direction has a gate behind it, in what the desks said and by the      *)
(* weights of the deployment: the composite with enough factors, or the     *)
(* technical desk by itself, which never buys into a news shock; the LLM    *)
(* arbitrator may choose another direction but not open what was closed for *)
(* want of factors; and the confidence is never below the policy's.  An LLM *)
(* that failed changes nothing.  And only desks that ran vote or have an    *)
(* LLM speak for them, if no deployment was written meanwhile and the one   *)
(* in force gives a weight to one of its desks.                             *)
TaBacks(action) ==
  /\ TaDesk \in DOMAIN Weights(deploy) /\ Heard[TaDesk].ok
  /\ IF action = "BUY" THEN Heard[TaDesk].score >= TaBuy /\ ~Shock(Heard)
     ELSE Heard[TaDesk].score <= TaSell

Weighted == deploy.enabled = {} \/ \E a \in deploy.enabled : deploy.weight[a] > 0

Gated ==
  LET c == Ballots(Heard, Weights(deploy))
  IN  pass'.action \in Directional =>
        /\ pass'.conf >= 100 * MinConf
        /\ \/ GlobalGate(c) = pass'.action /\ ~Blocked(c)
           \/ TaBacks(pass'.action)
           \/ /\ pass'.overlay.action = pass'.action
              /\ Blocked(c) => \E action \in Directional : TaBacks(action)

DecisionsAreGated ==
  [][stage = "infer" /\ stage' = "guard" =>
       /\ Gated
       /\ pass.clean /\ Weighted => DOMAIN Weights(deploy) \cup pass.asked \subseteq pass.nodes]_vars

(* Orders have a mandate and a limit.  None follows a veto; without LLM     *)
(* there is one at most, in the direction of the intent; with LLM, one of   *)
(* the intent is sent only when no other was.  None is larger than the caps *)
(* allow of the cash that was read, except for a spot sale of all that is   *)
(* held, and no spot sale is larger than what was held.                     *)
OrdersAreSound ==
  /\ pass.vetoed => sent = <<>>
  /\ (sent # <<>> /\ (~pass.llm \/ sent[1].synth)) =>
       Len(sent) = 1 /\ pass.action \in Directional /\ sent[1].side = Side(pass.action)
  /\ \A i \in DOMAIN sent :
       LET o == sent[i]
           spotSale == instrument = "spot" /\ o.side = "sell"
       IN  /\ Notional(o.qty, pass.px) <= Cap \/ (spotSale /\ o.synth)
           /\ spotSale => o.qty <= pass.now.qty

(* The report is true: unless the account was reset meanwhile, a pass says  *)
(* "executed" when it has changed the account and only then, and the        *)
(* account it shows is the one it leaves when it sent one order or none.    *)
ReportIsTrue ==
  stage = "audit" /\ began # <<>> =>
    /\ (report.status = "executed") = (acct # began)
    /\ (report.single /\ report.acct # <<>>) => report.acct = acct

(* An order fails for a cause.  The account refuses it only when it changed *)
(* since it was read, by a reset or an earlier order of the pass, or when   *)
(* the order would turn a position round, whose loss the clamps leave out;  *)
(* and a pass that means to sell what is held sends nothing only when the   *)
(* position or, since the caps of a sale are parts of the cash as well, the *)
(* cash is too small for an order.                                          *)
OrdersFailForCause ==
  /\ \A i \in DOMAIN sent :
       LET o == sent[i]
           against == IF o.side = "buy" THEN -pass.now.qty ELSE pass.now.qty
       IN  o.booked \/ ~o.current \/ (instrument = "perp" /\ 0 < against /\ against < o.qty)
  /\ stage = "audit" /\ report.unsold =>
       Cap < MinNotional * Unit \/ TooSmall(pass.now.qty, pass.px)

(* Together: an order that is sent is justified, and so is one that is not. *)
OrdersAreJustified == OrdersAreSound /\ OrdersFailForCause

=============================================================================
