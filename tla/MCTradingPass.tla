--------------------------- MODULE MCTradingPass ----------------------------
(* Small instances of TradingPass for TLC: the technical desk with its      *)
(* weight in the shipped deployment, 0.55, and one desk, which can report   *)
(* news shocks, for the rest.                                               *)
EXTENDS TradingPass, TLC
CONSTANTS ta, news

DeskWeight == (ta :> 55) @@ (news :> 45)
DeskFactors == (ta :> 2) @@ (news :> 1)
DeskAbsent == (ta :> 45) @@ (news :> 51)

(* All desks and all that LLMs may do; the technical desk alone, although   *)
(* weights are kept for both and the LLM could speak for both.              *)
Full == [enabled |-> {ta, news}, llm |-> {ta, news}, weight |-> DeskWeight,
         synthesis |-> TRUE, overlay |-> TRUE]
Narrow == [Full EXCEPT !.enabled = {ta}, !.overlay = FALSE]
Deployments == {Full, Narrow}
=============================================================================
