------------------------------ MODULE RiskGuard -----------------------------
(***************************************************************************)
(* What the workflow's last two decisions make of a direction in backtest  *)
(* mode: the trade intent of src/workflow/execution_intent.py, and the     *)
(* veto of src/agents/governance/risk_guard.py.  Both read the engine's    *)
(* book as it is at the call, with the equity of the last snapshot.        *)
(***************************************************************************)
EXTENDS PerpBook

CONSTANTS
  DrawdownStop,  \* risk_max_drawdown_stop of the fund policy, in percent, 0 for none
  MaxLeverage    \* max_leverage of the fund policy

ASSUME GuardConstants == DrawdownStop \in 0..95 /\ MaxLeverage \in Nat \ {0}

Signed(b, s) == b.pos[s].dir * b.pos[s].size
BookIsFlat(b) == \A s \in Symbol : ~Held(b, s)

(* A bearish view of a book without any net position is no order when short *)
(* positions are not allowed.                                               *)
Intent(b, action, shorts) ==
  IF action = "SELL" /\ ~shorts /\ SumFunctionOnSet([s \in Symbol |-> Signed(b, s)], Symbol) = 0
  THEN "HOLD" ELSE action

(* The drawdown from the peak, both as the signal function reports them.    *)
Armed(equity, peak) ==
  DrawdownStop > 0 /\ peak > 0 /\ 100 * (peak - equity) >= DrawdownStop * peak

(* An order of s against its position counts as reducing it, whatever it    *)
(* leads to.                                                                *)
IncreasesRisk(b, s, action) ==
  \/ action = "BUY" /\ Signed(b, s) >= 0
  \/ action = "SELL" /\ Signed(b, s) <= 0

(* Gross exposure at the last closes shown, against the policy's leverage.  *)
Gross(b, px) == SumFunctionOnSet([s \in Symbol |-> Money(b.pos[s].size, px[s])], Symbol)
OverLeveraged(b, px, equity) == equity > 0 /\ 100 * Gross(b, px) > 102 * MaxLeverage * equity

(* The scores above 0.8.  A flat book clears the drawdown stop; too much    *)
(* leverage vetoes every direction.                                         *)
Vetoed_OwnPosition(b, s, action, equity, peak, px) ==
  \/ Armed(equity, peak) /\ Held(b, s) /\ IncreasesRisk(b, s, action)
  \/ OverLeveraged(b, px, equity)

Vetoed(b, s, action, equity, peak, px) ==
  \/ Armed(equity, peak) /\ ~BookIsFlat(b) /\ IncreasesRisk(b, s, action)
  \/ OverLeveraged(b, px, equity)

=============================================================================
