---------------------------- MODULE PaperTrading ----------------------------
(***************************************************************************)
(* Sequences of fills on one paper account, spot or perpetual, as the      *)
(* callers of src/paper_account.py apply them: a refused fill leaves the   *)
(* account as it was.                                                      *)
(***************************************************************************)
EXTENDS PaperAccount

CONSTANTS
  Qty,       \* quantities of the fills
  MaxFills   \* bound: fills applied

ASSUME TradingConstants == Qty \subseteq Nat \ {0} /\ MaxFills \in Nat

VARIABLES
  fees,   \* history: fees paid
  fills   \* history: fills booked

tradingVars == <<instrument, acct, fees, fills>>

TradingTypeOK ==
  /\ instrument \in {"spot", "perp"} /\ acct \in Account
  /\ instrument = "spot" => acct.cash >= 0 /\ acct.qty >= 0 /\ acct.margin = 0
  /\ acct.qty = 0 => acct.avg = 0 /\ acct.margin = 0
  /\ fees \in Nat /\ fills \in 0..MaxFills

TradingInit ==
  /\ instrument \in {"spot", "perp"}
  /\ acct = Flat(Start * Unit) /\ fees = 0 /\ fills = 0

ApplyFill(side, q, px) ==
  /\ fills < MaxFills
  /\ Fill(side, q, px).ok
  /\ acct' = Fill(side, q, px).acct
  /\ fees' = fees + Fill(side, q, px).fee
  /\ fills' = fills + 1
  /\ UNCHANGED instrument

TradingNext ==
  \E side \in {"buy", "sell"}, q \in Qty, px \in Price : ApplyFill(side, q, px)

TradingSpec == TradingInit /\ [][TradingNext]_tradingVars

-----------------------------------------------------------------------------
(* What the position is worth at px: its notional for spot, its profit and  *)
(* loss on top of the margin for a perpetual.                               *)
Equity(a, px) ==
  a.cash + a.margin + a.qty * (IF instrument = "spot" THEN px * Unit ELSE px * Unit - a.avg)

(* The books balance after any sequence of fills: the starting cash, the    *)
(* profit realized and the fees explain what is in cash, locked as margin   *)
(* and paid for the position.                                               *)
BooksBalance ==
  acct.cash + acct.margin + (IF instrument = "spot" THEN acct.qty * acct.avg ELSE 0)
    = Start * Unit + acct.realized - fees

(* A fill at a price leaves the equity at that price as it was, less its    *)
(* fee: nothing is gained or lost by trading itself.  A sell of a short is  *)
(* left out: "Open short from flat" takes it before "Add to short" can, and *)
(* the profit so far is lost.                                               *)
AddsToShort(side) == side = "sell" /\ acct.qty < 0
FillsCostOnlyFees ==
  \A px \in Price, q \in Qty, side \in {"buy", "sell"} :
    LET f == Fill(side, q, px)
    IN  (f.ok /\ ~AddsToShort(side)) => Equity(f.acct, px) = Equity(acct, px) - f.fee

(* The margin locked is never more than the position was opened for, and    *)
(* whoever closes all of it gets all of it back: no margin is left over     *)
(* when a position is closed in parts, flipped or added to.                 *)
MarginMatchesPosition ==
  instrument = "perp" =>
    /\ (acct.margin = 0) = (acct.qty = 0)
    /\ \A px \in Price : LET size == IF acct.qty < 0 THEN -acct.qty ELSE acct.qty
                             side == IF acct.qty < 0 THEN "buy" ELSE "sell"
                         IN  size > 0 =>
                               /\ Fill(side, size, px).ok
                               /\ Fill(side, size, px).acct.cash =
                                    Equity(acct, px) - Fill(side, size, px).fee

(* Together: no fill makes or loses anything but its fee.                   *)
EquityIsKept == FillsCostOnlyFees /\ MarginMatchesPosition

=============================================================================
