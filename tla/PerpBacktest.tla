---------------------------- MODULE PerpBacktest ----------------------------
(***************************************************************************)
(* One run of the perpetual backtest: PerpEngine.run, which steps through  *)
(* the bars, and the signal function of src/backtest/engine.py, which it   *)
(* asks for a target weight per symbol and bar: the decision of the        *)
(* workflow, which RiskGuard has the end of, or of the VCP strategy.       *)
(*                                                                         *)
(* The bars are whatever the market gives; the filling of a bar a symbol   *)
(* lacks repeats another one, which is one of these.  What the agents and  *)
(* the VCP strategy want is nondeterministic; what becomes of it is not.   *)
(***************************************************************************)
EXTENDS RiskGuard, FiniteSets

CONSTANTS
  Bars,        \* bars of the run
  Candle,      \* the bars a symbol may have: [open, high, low, close]
  Conf,        \* confidences of an answer, in units of 1 / WeightDen
  Cap,         \* the largest weight of an agent's answer, 0.45 of WeightDen
  AgentLed,    \* symbols the workflow decides; VCP decides the others
  InitialCash, \* in price ticks of one lot
  Warmup,      \* bars before the scored window
  StartMin, BarMin, \* minute of the first bar, and from a bar to the next
  Gaps         \* bars each symbol's own rows lack

ASSUME RunConstants ==
  /\ Bars \in Nat \ {0} /\ Warmup \in Nat /\ StartMin \in Nat /\ BarMin \in Nat \ {0}
  /\ Candle \subseteq [open : Nat \ {0}, high : Nat \ {0}, low : Nat \ {0}, close : Nat \ {0}]
  /\ Conf \subseteq 0..WeightDen /\ Cap \in 0..WeightDen
  /\ AgentLed \subseteq Symbol /\ InitialCash \in Nat /\ Gaps \in 0..(Bars - 1)

VARIABLES
  rows,    \* the rows each symbol was loaded with: the bars they are of
  bar,     \* _bar_index
  stage,   \* "signal", "mark", "close" (the end of the backtest) or "done"
  turn,    \* the symbol to handle next in this stage; NSym + 1 when all are
  candle,  \* each symbol's bar
  book,    \* the engine's capital, positions and trades
  curve,   \* the last snapshot: equity and closes; (history) the commissions paid by then
  peak,    \* _equity_peak: the highest equity the agents were shown
  allowsShort \* allows_short of the deployment

runVars == <<rows, bar, stage, turn, candle, book, curve, peak, allowsShort>>

Closes == [s \in Symbol |-> candle[s].close]

Position ==
  {p \in [dir : {-1, 0, 1}, size : Nat, entry : Nat, margin : Nat, bar : 0..Bars, fee : Nat] :
     IF p.dir = 0 THEN p = Flat ELSE p.size > 0}

RunTypeOK ==
  /\ rows \in [Symbol -> SUBSET (0..(Bars - 1))]
  /\ bar \in 0..(Bars - 1) /\ turn \in 1..(NSym + 1)
  /\ stage \in {"signal", "mark", "close", "done"}
  /\ candle \in [Symbol -> Candle]
  /\ book.capital \in Int /\ book.pnl \in Int /\ book.settled \in Int
  /\ book.commission \in Nat /\ book.paid \in Nat
  /\ DOMAIN book.pos = Symbol /\ \A s \in Symbol : book.pos[s] \in Position
  /\ \A s \in Symbol : book.pos[s].bar <= bar
  /\ book.lastEntry \in [Symbol -> {Never} \cup 0..bar]
  /\ peak \in Nat /\ allowsShort \in BOOLEAN
  /\ stage = "done" => \A s \in Symbol : ~Held(book, s)

(* align_bars_by_min_length gives every symbol the same number of rows, of  *)
(* its own bars; _align_bars puts them on the bars that any symbol has.     *)
RunInit ==
  /\ rows \in [Symbol -> {R \in SUBSET (0..(Bars - 1)) : Cardinality(R) = Bars - Gaps}]
  /\ UNION {rows[s] : s \in Symbol} = 0..(Bars - 1)
  /\ bar = 0 /\ stage = "mark" /\ turn = 1
  /\ candle \in [Symbol -> Candle]
  /\ book = NewBook(InitialCash * Unit)
  /\ curve = [equity |-> InitialCash * Unit, closes |-> Closes, paid |-> 0]
  /\ peak = 0 /\ allowsShort \in BOOLEAN

-----------------------------------------------------------------------------
(* What the workflow or VCP want, and whether the symbol's bars fail their  *)
(* quality check or the workflow raises, as it does before it decides; the  *)
(* kill switch, which makes every answer HOLD, comes to the same.           *)
Answer(s) ==
  [action : IF s \in AgentLed THEN {"BUY", "SELL", "HOLD"} ELSE {"BUY"}, conf : Conf, failed : BOOLEAN]

(* The bars an agent is shown of a symbol: as many of its own rows as the   *)
(* run has completed bars; and the last closes of such rows, which are      *)
(* those of the snapshot unless a bar is missing.                           *)
Shown(s) == {t \in rows[s] : Cardinality({u \in rows[s] : u <= t}) <= bar}

LastCloses ==
  {px \in [Symbol -> {k.close : k \in Candle}] :
     \A s \in Symbol : Shown(s) = 0..(bar - 1) => px[s] = curve.closes[s]}

(* The agents are asked in the scored window only.  The peak they are shown *)
(* is of the equities they were shown.                                      *)
Asked(s) == s \in AgentLed /\ bar >= Warmup
PeakNow == IF curve.equity > peak THEN curve.equity ELSE peak

Decision(s, action, px) ==
  LET intent == Intent(book, action, allowsShort)
  IN  IF Vetoed(book, s, intent, curve.equity, PeakNow, px) THEN "HOLD" ELSE intent

(* The target weight: 0, that is no position, before the scored window, for *)
(* a HOLD and for a failure; VCP's weight as it is; the agents' confidence  *)
(* up to Cap.                                                               *)
Weight(s, a, px) ==
  LET action == Decision(s, a.action, px)
      sign == CASE action = "BUY" -> 1 [] action = "SELL" -> -1 [] OTHER -> 0
  IN  IF bar < Warmup \/ a.failed THEN 0
      ELSE IF s \notin AgentLed THEN a.conf
      ELSE sign * Min({a.conf, Cap})

(* Signal and rebalance of the symbol whose turn it is, from bar 1 on.      *)
Signal(a, px) ==
  /\ stage = "signal" /\ turn <= NSym
  /\ book' = Rebalance(book, turn, Weight(turn, a, px), candle, bar)
  /\ peak' = IF Asked(turn) THEN PeakNow ELSE peak
  /\ turn' = turn + 1
  /\ UNCHANGED <<rows, bar, stage, candle, curve, allowsShort>>

EndSignals ==
  /\ stage = "signal" /\ turn > NSym
  /\ stage' = "mark" /\ turn' = 1
  /\ UNCHANGED <<rows, bar, candle, book, curve, peak, allowsShort>>

Mark ==
  /\ stage = "mark" /\ turn <= NSym
  /\ book' = OnBar(book, turn, candle[turn], StartMin + bar * BarMin, bar)
  /\ turn' = turn + 1
  /\ UNCHANGED <<rows, bar, stage, candle, curve, peak, allowsShort>>

(* The snapshot at the closes, then the next bar or the end.                *)
Snapshot ==
  /\ stage = "mark" /\ turn > NSym
  /\ curve' = [equity |-> Equity(book, Closes), closes |-> Closes, paid |-> book.paid]
  /\ turn' = 1
  /\ IF bar + 1 < Bars
     THEN /\ stage' = "signal" /\ bar' = bar + 1
          /\ candle' \in [Symbol -> Candle]
     ELSE stage' = "close" /\ UNCHANGED <<bar, candle>>
  /\ UNCHANGED <<rows, book, peak, allowsShort>>

(* What is still held is closed at the last close, without slippage.        *)
CloseOut ==
  /\ stage = "close" /\ turn <= NSym
  /\ book' = Close(book, turn, candle[turn].close, "end_of_backtest", bar)
  /\ turn' = turn + 1
  /\ UNCHANGED <<rows, bar, stage, candle, curve, peak, allowsShort>>

Finish ==
  /\ stage = "close" /\ turn > NSym
  /\ stage' = "done"
  /\ UNCHANGED <<rows, bar, turn, candle, book, curve, peak, allowsShort>>

RunNext ==
  \/ \E a \in Answer(turn), px \in LastCloses : Signal(a, px)
  \/ EndSignals \/ Mark \/ Snapshot \/ CloseOut \/ Finish

RunSpec == RunInit /\ [][RunNext]_runVars

-----------------------------------------------------------------------------
OpenMargins(b) == SumFunctionOnSet([s \in Symbol |-> b.pos[s].margin], Symbol)
OpenFees(b) == SumFunctionOnSet([s \in Symbol |-> b.pos[s].fee], Symbol)

(* The final equity that is reported is the last snapshot's: what the book  *)
(* ends with is that less the commissions of closing what was still held.   *)
FinalEquityIsReal ==
  stage \in {"close", "done"} =>
    Equity(book, Closes) = curve.equity - (book.paid - curve.paid)

(* The capital and the margins locked are the initial cash, the profit of   *)
(* the trades, less every commission and funding fee taken; and the         *)
(* commissions of the trades and of the open positions are all there are:   *)
(* no margin is lost or given back twice on any way out of a position.      *)
MoneyIsExplained ==
  /\ book.capital + OpenMargins(book) = InitialCash * Unit + book.pnl - book.paid - book.settled
  /\ book.paid = book.commission + OpenFees(book)
  /\ FinalEquityIsReal

(* No order is paid with money the book does not have: losses and funding   *)
(* can take the capital below zero, but an opened position leaves it at     *)
(* zero or above, to the half lot that rounding may add; and entries of a   *)
(* symbol are Cooldown bars apart, whatever closed the trades in between.   *)
IsEntry(s) == book'.lastEntry[s] # book.lastEntry[s]

EntryIsPaid(s) ==
  LET px == book'.pos[s].entry
  IN  /\ book'.capital + InitialMargin(1, px) + Money(1, px) \div TakerDiv >= 0
      /\ book.lastEntry[s] # Never => book'.lastEntry[s] - book.lastEntry[s] >= Cooldown

EntriesArePaid == [][\A s \in Symbol : IsEntry(s) => EntryIsPaid(s)]_runVars

(* What the agents enter, the risk guard let pass: under the drawdown stop  *)
(* nothing but a turn of a position or the entry of a flat book, and        *)
(* nothing at all beyond the leverage of the policy; and without short      *)
(* positions allowed no flat book goes short.                               *)
EntryIsGuarded(s) ==
  /\ Armed(curve.equity, peak') =>
       \/ \A x \in Symbol : book.pos[x] = Flat
       \/ book.pos[s].dir = -book'.pos[s].dir
  /\ rows[s] = 0..(Bars - 1) => ~OverLeveraged(book, curve.closes, curve.equity)
  /\ book'.pos[s].dir = -1 /\ ~allowsShort => \E x \in Symbol : book.pos[x] # Flat

EntriesAreGuarded == [][\A s \in AgentLed : IsEntry(s) => EntryIsGuarded(s)]_runVars

EntriesAreSound == EntriesArePaid /\ EntriesAreGuarded

(* What a bar leaves open is sound when its snapshot is taken: no position  *)
(* that its margin no longer covers, none past its stop or its target, none *)
(* held too long.                                                           *)
SurvivorsAreSound ==
  stage = "mark" /\ turn > NSym =>
    \A s \in Symbol : Held(book, s) =>
      LET p == book.pos[s]
      IN  /\ ~IsUnderwater(p, candle[s].close)
          /\ bar > p.bar => ~HitsStop(p, candle[s]) /\ ~HitsTake(p, candle[s])
          /\ MaxHold > 0 => bar - p.bar < MaxHold

(* An entry follows the symbol's last exit, on the same bar only when that  *)
(* was by signal; nothing is held before the scored window; a stop or a     *)
(* target never ends a trade on the bar that opened it.                     *)
TradesInOrder ==
  /\ \A s \in Symbol : LET last == book.exit[s] IN
       /\ Held(book, s) =>
            /\ book.pos[s].bar >= Warmup /\ book.pos[s].bar = book.lastEntry[s]
            /\ last.bar <= book.pos[s].bar
            /\ last.bar = book.pos[s].bar => last.why = "signal"
       /\ last.why \in {"stop_loss", "take_profit"} /\ ~Held(book, s) => last.bar > book.lastEntry[s]
  /\ book.commission > 0 => bar >= Warmup

(* Together: what the checks of a bar leave behind is in order.             *)
BarsAreSound == SurvivorsAreSound /\ TradesInOrder

(* "Slice OHLCV to completed bars only (no look-ahead)".                    *)
CompletedBarsOnly == stage = "signal" => \A s \in Symbol : Shown(s) \subseteq 0..(bar - 1)

=============================================================================
