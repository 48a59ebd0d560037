----------------------------- MODULE PaperFill ------------------------------
(***************************************************************************)
(* Fills of the paper account, src/paper_account.py: apply_spot_fill and   *)
(* apply_perp_fill (linear perpetual futures with isolated margin), as     *)
(* functions of one symbol's position.                                     *)
(*                                                                         *)
(* Money is counted in units small enough that every division below is     *)
(* exact in the instances that are checked: Unit units to one price unit.  *)
(* The code's floats, and the 1e-9 and 1e-12 it allows for them, are then  *)
(* plain comparisons.                                                      *)
(***************************************************************************)
EXTENDS Integers

CONSTANTS
  Unit,      \* money units of price 1
  Leverage,  \* leverage of the fill, at least 1
  FeeDiv     \* the fee is notional / FeeDiv; 0 for no fee

ASSUME FillConstants == Unit \in Nat \ {0} /\ Leverage \in Nat \ {0} /\ FeeDiv \in Nat

(* An account with a position in one symbol: qty is qty or qty_signed, avg  *)
(* is avg_entry, margin is margin_locked_usdt (0 for spot).                 *)
Flat(cash) == [cash |-> cash, realized |-> 0, qty |-> 0, avg |-> 0, margin |-> 0]

Least(a, b) == IF a < b THEN a ELSE b
Notional(q, px) == q * px * Unit
Fee(q, px) == IF FeeDiv = 0 THEN 0 ELSE Notional(q, px) \div FeeDiv
InitialMargin(q, px) == Notional(q, px) \div Leverage

(* What apply_*_fill returns: the account, and the fees it took; refused is *)
(* the ValueError, after which no caller saves the account.                 *)
Refused(acct) == [ok |-> FALSE, acct |-> acct, fee |-> 0]
Booked(acct, fee) == [ok |-> TRUE, acct |-> acct, fee |-> fee]

(* The average entry price of the position and q more at px.                *)
Blend(acct, q, px) ==
  (acct.avg * acct.qty + Notional(q, px)) \div (acct.qty + q)

-----------------------------------------------------------------------------

SpotBuy(acct, q, px) ==
  LET cost == Notional(q, px) + Fee(q, px)
  IN  IF acct.cash < cost THEN Refused(acct)
      ELSE Booked([acct EXCEPT !.cash = @ - cost, !.avg = Blend(acct, q, px), !.qty = @ + q], Fee(q, px))

SpotSell_AnyQty(acct, q, px) ==
  Booked([acct EXCEPT !.cash = @ + Notional(q, px) - Fee(q, px),
                      !.realized = @ + q * (px * Unit - acct.avg), !.qty = @ - q], Fee(q, px))

SpotSell(acct, q, px) ==
  LET left == acct.qty - q
  IN  IF left < 0 THEN Refused(acct)
      ELSE Booked([acct EXCEPT !.cash = @ + Notional(q, px) - Fee(q, px),
                               !.realized = @ + q * (px * Unit - acct.avg),
                               !.qty = left, !.avg = IF left = 0 THEN 0 ELSE @], Fee(q, px))

-----------------------------------------------------------------------------
Opened_FeeNotPaid(acct, sign, q, px, avg) ==
  IF acct.cash < InitialMargin(q, px) THEN Refused(acct)
  ELSE Booked([acct EXCEPT !.cash = @ - InitialMargin(q, px), !.margin = @ + InitialMargin(q, px),
                           !.qty = @ + sign * q, !.avg = avg], Fee(q, px))

(* A long (sign = 1) or a short (sign = -1) of q more, posted with its      *)
(* initial margin and fee; avg is the entry price it ends with.             *)
Opened(acct, sign, q, px, avg) ==
  LET need == InitialMargin(q, px) + Fee(q, px)
  IN  IF acct.cash < need THEN Refused(acct)
      ELSE Booked([acct EXCEPT !.cash = @ - need, !.margin = @ + InitialMargin(q, px),
                               !.qty = @ + sign * q, !.avg = avg], Fee(q, px))

Closed_MarginKept(acct, sign, q, px) ==
  LET pnl == sign * q * (px * Unit - acct.avg)
      left == acct.qty - sign * q
  IN  [acct EXCEPT !.cash = @ + pnl - Fee(q, px), !.realized = @ + pnl,
                   !.qty = left, !.avg = IF left = 0 THEN 0 ELSE @]

Closed_PnlSign(acct, sign, q, px) ==
  LET size == sign * acct.qty
      released == (acct.margin * q) \div size
      pnl == q * (px * Unit - acct.avg)
      left == acct.qty - sign * q
  IN  [acct EXCEPT !.cash = @ + released + pnl - Fee(q, px), !.realized = @ + pnl,
                   !.qty = left, !.avg = IF left = 0 THEN 0 ELSE @,
                   !.margin = IF left = 0 THEN 0 ELSE @ - released]

(* q of a long or a short closed: its share of the margin comes back with   *)
(* the profit or loss; nothing asks whether the cash covers a loss.         *)
Closed(acct, sign, q, px) ==
  LET size == sign * acct.qty
      released == (acct.margin * q) \div size
      pnl == sign * q * (px * Unit - acct.avg)
      left == acct.qty - sign * q
  IN  [acct EXCEPT !.cash = @ + released + pnl - Fee(q, px), !.realized = @ + pnl,
                   !.qty = left, !.avg = IF left = 0 THEN 0 ELSE @,
                   !.margin = IF left = 0 THEN 0 ELSE @ - released]

(* Close what there is, then open the rest the other way.  When the rest is *)
(* refused the whole fill is.                                               *)
Flipped(acct, sign, q, px) ==
  LET size == sign * acct.qty
      part == Least(q, size)
      after == Closed(acct, sign, part, px)
      rest == Opened(after, -sign, q - part, px, px * Unit)
  IN  IF q = part THEN Booked(after, Fee(part, px))
      ELSE IF rest.ok THEN Booked(rest.acct, Fee(part, px) + rest.fee)
      ELSE Refused(acct)

PerpBuy(acct, q, px) ==
  IF acct.qty >= 0 THEN Opened(acct, 1, q, px, Blend(acct, q, px))
                   ELSE Flipped(acct, -1, q, px)

(* Every sell of a flat or short account takes the branch meant for a flat  *)
(* one, whose entry price is the fill's.                                    *)
PerpSell(acct, q, px) ==
  IF acct.qty <= 0 THEN Opened(acct, -1, q, px, px * Unit)
                   ELSE Flipped(acct, 1, q, px)

=============================================================================
