---------------------------- MODULE PaperAccount ----------------------------
(***************************************************************************)
(* One paper account of one symbol, spot or perpetual, as the programs     *)
(* that trade on it see it: PaperTrading and TradingPass.                  *)
(***************************************************************************)
EXTENDS PaperFill

CONSTANTS
  Start,       \* starting cash, in price units
  Price        \* prices that may come

ASSUME AccountConstants == Start \in Nat /\ Price \subseteq Nat \ {0}

VARIABLES
  instrument,  \* "spot" or "perp": settings.paper.instrument
  acct         \* the paper account

Account == [cash : Int, realized : Int, qty : Int, avg : Nat, margin : Nat]

(* The fill of an order, by the instrument of the account.                  *)
Fill(side, q, px) ==
  CASE instrument = "spot" /\ side = "buy"  -> SpotBuy(acct, q, px)
    [] instrument = "spot" /\ side = "sell" -> SpotSell(acct, q, px)
    [] instrument = "perp" /\ side = "buy"  -> PerpBuy(acct, q, px)
    [] instrument = "perp" /\ side = "sell" -> PerpSell(acct, q, px)

=============================================================================
