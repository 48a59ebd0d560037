------------------------------ MODULE PerpBook ------------------------------
(***************************************************************************)
(* The book of the perpetual backtest, src/backtest/engines/perp.py, as    *)
(* functions from a book to the book after one of the engine's methods.    *)
(*                                                                         *)
(* Prices are whole ticks, sizes whole lots (the code rounds to 1e-6), and *)
(* money is counted Unit to a tick of a lot; quotients are rounded down.   *)
(* The list of trades is kept as what the properties need of it: the sums  *)
(* of profit and of commission, and the last exit of each symbol.          *)
(***************************************************************************)
EXTENDS Integers, Sequences, FiniteSetsExt

CONSTANTS
  NSym,        \* symbols, numbered in the order the engine sorts them
  Unit,        \* money of one tick of one lot
  Leverage,    \* leverage, 1 or more
  TakerDiv,    \* the fee of an open is its notional / TakerDiv,
  MakerDiv,    \*   that of a close / MakerDiv
  SlipDiv,     \* slippage is price / SlipDiv, less than the price
  FundDiv,     \* a funding fee is notional / FundDiv
  Tiers,       \* maintenance margin: <<[cap, div], ...>>, notional / div up to cap
  TakeDiv,     \* take-profit at entry / TakeDiv from the entry, 0 for none
  StopDiv,     \* stop-loss likewise
  MaxHold,     \* max_hold_bars, 0 for no timeout
  Cooldown,    \* trade_cooldown_bars
  WeightDen    \* target weights are in units of 1 / WeightDen

ASSUME BookConstants ==
  /\ NSym \in Nat \ {0} /\ Unit \in Nat \ {0} /\ Leverage \in Nat \ {0}
  /\ TakerDiv \in Nat \ {0} /\ MakerDiv \in Nat \ {0}
  /\ SlipDiv \in Nat /\ SlipDiv > 1 /\ FundDiv \in Nat \ {0}
  /\ TakeDiv \in Nat /\ StopDiv \in Nat /\ MaxHold \in Nat /\ Cooldown \in Nat
  /\ WeightDen \in Nat \ {0}
  /\ Tiers \in Seq([cap : Nat, div : Nat \ {0}]) /\ Len(Tiers) > 0

Symbol == 1..NSym

(* Flat stands for a symbol that is not in positions.                       *)
Flat == [dir |-> 0, size |-> 0, entry |-> 0, margin |-> 0, bar |-> 0, fee |-> 0]

Never == -1

(* paid and settled are history: every commission and every funding fee,    *)
(* counted when it is taken from the capital; why is the last exit's reason. *)
NewBook(cash) ==
  [capital |-> cash, pos |-> [s \in Symbol |-> Flat],
   lastEntry |-> [s \in Symbol |-> Never], funded |-> {},
   pnl |-> 0, commission |-> 0, exit |-> [s \in Symbol |-> [bar |-> Never, why |-> "none"]],
   paid |-> 0, settled |-> 0]

Held(b, s) == b.pos[s].dir # 0

Money(size, px) == size * px * Unit
InitialMargin(size, px) == Money(size, px) \div Leverage
Slipped(px, dir) == px + dir * (px \div SlipDiv)

(* round(max(raw, 0.0), 6) of num / den: to the nearest lot, ties to even.  *)
RoundSize(num, den) ==
  LET q == num \div den
      r == 2 * (num % den)
  IN  IF num <= 0 THEN 0 ELSE IF r > den \/ (r = den /\ q % 2 = 1) THEN q + 1 ELSE q

Maintenance(notional) ==
  LET covering == {i \in DOMAIN Tiers : notional <= Tiers[i].cap}
      tier == IF covering = {} THEN Len(Tiers) ELSE Min(covering)
  IN  notional \div Tiers[tier].div

Unrealized(p, px) == p.dir * p.size * (px - p.entry) * Unit

(* _equity, at a price for each symbol.                                     *)
Equity(b, px) ==
  b.capital + SumFunctionOnSet([s \in Symbol |-> b.pos[s].margin + Unrealized(b.pos[s], px[s])], Symbol)

-----------------------------------------------------------------------------
Close_MarginKept(b, s, px, why, bar) ==
  LET p == b.pos[s]
      pnl == Unrealized(p, px)
      fee == Money(p.size, px) \div MakerDiv
  IN  IF p.dir = 0 THEN b
      ELSE [b EXCEPT !.capital = @ + pnl - fee, !.pos[s] = Flat, !.pnl = @ + pnl,
                     !.commission = @ + p.fee + fee, !.exit[s] = [bar |-> bar, why |-> why],
                     !.paid = @ + fee]

Close(b, s, px, why, bar) ==
  LET p == b.pos[s]
      pnl == Unrealized(p, px)
      fee == Money(p.size, px) \div MakerDiv
  IN  IF p.dir = 0 THEN b
      ELSE [b EXCEPT !.capital = @ + p.margin + pnl - fee, !.pos[s] = Flat, !.pnl = @ + pnl,
                     !.commission = @ + p.fee + fee, !.exit[s] = [bar |-> bar, why |-> why],
                     !.paid = @ + fee]

(* A fill against the position pays the slippage.                           *)
CloseAtMarket(b, s, px, why, bar) == Close(b, s, Slipped(px, -b.pos[s].dir), why, bar)

(* The size of an order of weight w at px for an equity of eq: what the     *)
(* weight asks, or what the capital affords once the commission of that     *)
(* first size is set aside.                                                 *)
OrderSize_FeeNotReserved(b, w, eq, px) ==
  LET asked == RoundSize(w * eq * Leverage, WeightDen * px * Unit)
  IN  IF InitialMargin(asked, px) > b.capital
      THEN RoundSize(b.capital * Leverage, px * Unit) ELSE asked

OrderSize(b, w, eq, px) ==
  LET asked == RoundSize(w * eq * Leverage, WeightDen * px * Unit)
      fee == Money(asked, px) \div TakerDiv
  IN  IF InitialMargin(asked, px) + fee > b.capital
      THEN RoundSize((b.capital - fee) * Leverage, px * Unit) ELSE asked

Open_Empty(b, s, dir, size, px, bar) ==
  LET fee == Money(size, px) \div TakerDiv
      margin == InitialMargin(size, px)
  IN  [b EXCEPT !.capital = @ - margin - fee, !.lastEntry[s] = bar, !.paid = @ + fee,
                !.pos[s] = [dir |-> dir, size |-> size, entry |-> px, margin |-> margin,
                            bar |-> bar, fee |-> fee]]

(* No position is opened with nothing in it.                                *)
Open(b, s, dir, size, px, bar) ==
  LET fee == Money(size, px) \div TakerDiv
      margin == InitialMargin(size, px)
  IN  IF size = 0 THEN b
      ELSE [b EXCEPT !.capital = @ - margin - fee, !.lastEntry[s] = bar, !.paid = @ + fee,
                     !.pos[s] = [dir |-> dir, size |-> size, entry |-> px, margin |-> margin,
                                 bar |-> bar, fee |-> fee]]

Cooling(b, s, bar) == b.lastEntry[s] # Never /\ bar - b.lastEntry[s] < Cooldown

(* _rebalance to weight w at the open of a bar: a position of the other     *)
(* direction, or any when w is 0, is closed; one of the same direction is   *)
(* left as it is; with none, one is opened, sized with the equity at the    *)
(* closes of this bar.                                                      *)
Rebalance(b, s, w, candle, bar) ==
  LET dir == IF w > 0 THEN 1 ELSE IF w < 0 THEN -1 ELSE 0
      open == candle[s].open
      cleared == IF Held(b, s) /\ dir # b.pos[s].dir
                 THEN CloseAtMarket(b, s, open, "signal", bar) ELSE b
      closes == [x \in Symbol |-> candle[x].close]
      px == Slipped(open, dir)
      size == OrderSize(cleared, dir * w, Equity(cleared, closes), px)
  IN  IF dir = 0 \/ Held(cleared, s) \/ Cooling(cleared, s, bar) THEN cleared
      ELSE Open(cleared, s, dir, size, px, bar)

-----------------------------------------------------------------------------
(* on_bar, in its order: funding, liquidation, take-profit or stop-loss,    *)
(* timeout.                                                                 *)

(* One charge per slot: the hour when it is a funding hour, else the day.   *)
Slot(s, min) ==
  LET hour == (min \div 60) % 24
      day == min \div 1440
  IN  IF hour \in {0, 8, 16} THEN <<s, day, hour>> ELSE <<s, day>>

ApplyFunding(b, s, px, min) ==
  LET fee == b.pos[s].dir * (Money(b.pos[s].size, px) \div FundDiv)
  IN  IF Slot(s, min) \in b.funded THEN b
      ELSE [b EXCEPT !.funded = @ \cup {Slot(s, min)}, !.capital = @ - fee, !.settled = @ + fee]

IsUnderwater(p, px) ==
  /\ p.dir # 0 /\ Leverage > 1
  /\ p.margin + Unrealized(p, px) <= Maintenance(Money(p.size, px))

CheckLiquidation(b, s, px, bar) ==
  IF IsUnderwater(b.pos[s], px) THEN CloseAtMarket(b, s, px, "liquidation", bar) ELSE b

(* The trigger prices, and whether the bar traded through them.             *)
TakePrice(p) == p.entry + p.dir * (p.entry \div TakeDiv)
StopPrice(p) == p.entry - p.dir * (p.entry \div StopDiv)

HitsStop(p, k) == StopDiv > 0 /\ IF p.dir > 0 THEN k.low <= StopPrice(p) ELSE k.high >= StopPrice(p)
HitsTake(p, k) == TakeDiv > 0 /\ IF p.dir > 0 THEN k.high >= TakePrice(p) ELSE k.low <= TakePrice(p)

CheckTpSl_EntryBar(b, s, k, bar) ==
  LET p == b.pos[s]
  IN  IF p.dir = 0 THEN b
      ELSE IF HitsStop(p, k) THEN CloseAtMarket(b, s, StopPrice(p), "stop_loss", bar)
      ELSE IF HitsTake(p, k) THEN CloseAtMarket(b, s, TakePrice(p), "take_profit", bar)
      ELSE b

(* Never on the bar of the entry; the stop wins over the target.            *)
CheckTpSl(b, s, k, bar) ==
  LET p == b.pos[s]
  IN  IF p.dir = 0 \/ bar - p.bar < 1 THEN b
      ELSE IF HitsStop(p, k) THEN CloseAtMarket(b, s, StopPrice(p), "stop_loss", bar)
      ELSE IF HitsTake(p, k) THEN CloseAtMarket(b, s, TakePrice(p), "take_profit", bar)
      ELSE b

CheckTimeout_OffByOne(b, s, px, bar) ==
  IF b.pos[s].dir # 0 /\ MaxHold > 0 /\ bar - b.pos[s].bar > MaxHold
  THEN CloseAtMarket(b, s, px, "timeout", bar) ELSE b

CheckTimeout(b, s, px, bar) ==
  IF b.pos[s].dir # 0 /\ MaxHold > 0 /\ bar - b.pos[s].bar >= MaxHold
  THEN CloseAtMarket(b, s, px, "timeout", bar) ELSE b

OnBar(b, s, k, min, bar) ==
  LET funded == ApplyFunding(b, s, k.close, min)
      solvent == CheckLiquidation(funded, s, k.close, bar)
      stopped == CheckTpSl(solvent, s, k, bar)
  IN  CheckTimeout(stopped, s, k.close, bar)

=============================================================================
