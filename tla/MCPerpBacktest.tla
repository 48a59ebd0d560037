--------------------------- MODULE MCPerpBacktest ---------------------------
(* Small instances of PerpBacktest for TLC: bars that gap, that trade       *)
(* through a stop and a target, and that wipe out a leveraged position.     *)
EXTENDS PerpBacktest

Bar(o, h, l, c) == [open |-> o, high |-> h, low |-> l, close |-> c]
Wild == Bar(20, 26, 14, 20)
Crash == Bar(20, 20, 10, 10)
Surge == Bar(30, 34, 28, 32)
MCCandle == {Wild, Crash, Surge}
MCTiers == <<[cap |-> 9000, div |-> 20], [cap |-> 20000, div |-> 10]>>
=============================================================================
