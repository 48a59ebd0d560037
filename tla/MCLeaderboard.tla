--------------------------- MODULE MCLeaderboard ----------------------------
(* A small instance of Leaderboard for TLC: three kinds of backtest, a      *)
(* smoke test among their results, and a provider whose results return the  *)
(* same, or the same to the hundredth.                                      *)
EXTENDS Leaderboard, TLC

MCPrefix == [r \in Id |-> CASE r = 1 -> "perp_" [] r = 2 -> "bt_" [] r = 3 -> "bt-" [] OTHER -> "other"]
Few == [ret |-> 20, sharpe |-> 1, trades |-> 2, rest |-> 1]
Many == [ret |-> 10, sharpe |-> 1, trades |-> 4, rest |-> 1]
Odd == [ret |-> 30, sharpe |-> 1, trades |-> 2, rest |-> 1]
Part == [Few EXCEPT !.ret = 21, !.sharpe = Unknown]
MCRunResult == (1 :> {Few}) @@ (2 :> {Few, Odd})
MCPostResult == {Many, Part}
MCRefused == {Odd}
=============================================================================
