# Formal models of the AI market maker

TLA+ modules, TLC configurations and TLAPS proofs about the parts of this
repository that hold state which several actors, or several moments, must agree
on: orders, signals, copied trades, jobs, accounts, published results and the
supervised trading loop; and about the two engines that turn decisions into money, the trading
pass and the perpetual backtest. The repository's code is the reference; where a doc, a comment or a test
states what the code should do, a property states it too and quotes it.

`PROJECT.json` gives, for every definition, the lines it translates (`map`), for
every property the run that checks it and a plausible bug that breaks it
(`mutants`), and for every hazard the line where it bites.

- [1. Inventory of the system](#1-inventory-of-the-system)
- [2. The modules](#2-the-modules)
- [3. The runs](#3-the-runs)
- [4. What is proved](#4-what-is-proved)
- [5. Where code and documents disagree](#5-where-code-and-documents-disagree)
- [6. What is not modelled](#6-what-is-not-modelled)
- [7. Plan](#7-plan)

## 1. Inventory of the system

The program researches markets with a graph of agents, turns their opinions into
an order, and executes it on a paper account, or through an order management
system on an exchange. Around that are a web API that starts loops and
backtests, and a social part: providers publish signals, followers receive them
and may have them executed on their own paper account.

| Component | State | Operations | Interacts with | What makes it correct |
|---|---|---|---|---|
| **Order management** `src/oms` | orders and idempotency index in memory; `oms_orders`, `oms_order_events` in SQLite | submit, cancel, status, reconcile, reload | calls an adapter; a restart reloads | a key is placed at most once; the ledger is ahead of the exchange; final states are final; every transition is audited |
| **Exchange adapters** `src/adapters` | none (Hyperliquid); the paper book (Nexus) | place, cancel, status | the OMS; the paper account | a reply says what the venue did; an error means unknown, not failed |
| **Paper account** `src/paper_account.py` | cash, position, average entry, margin, profit, fees | spot fill, perpetual fill, load, save, append trade | copy trading, live paper book | the books balance; trading itself costs only fees; margin follows the position |
| **Signal fan-out** `src/storage/leadpage_db.py` | signals, follows, inboxes, a cursor | publish, follow, unfollow, fan-out pass | worker processes over PostgreSQL | every follower receives every signal, once, in order; the fan-out never gets stuck |
| **Copy trading** `src/api/copy_routes.py` | inbox, settings, executions; account row, trade rows and an account file | poll, execute, mark read, change setting | the fan-out feeds it; worker and API run it | what is reported is booked; nothing is booked twice; row, file and trades agree; switching off stops it |
| **Backtest jobs** `src/api/backtest_routes.py` | `BACKTEST_JOBS` in each process, `job.json`, a daemon thread | post, progress, complete, fail, poll, stale check, start-up recovery | two server processes share `.runs` | an answer is true and final; nobody polls for ever; a restart repairs |
| **Paper engine supervisor** `src/api/engine_routes.py` | a PID file, a status file, processes | start, stop, status; the loop's status patches | API threads and processes, the loop | one loop at most, and it is the one that can be seen and stopped |
| **Live paper book** `nexus_adapter.py`, `.runs/paper` | account file and trade log | smart order, reset, load | the loop, the API, housekeeping | a booked fill stays in the account, and always in the log |
| **Trading workflow** `src/main.py`, `src/workflow` | the graph's state | desks, arbitrator, proposal, risk guard, execution, audit | agents and LLMs, the paper account | an order has a gate behind it and a cap over it; a veto reaches the execution; the report is true |
| **Deployment** `deploy_routes.py`, `deploy_loader.py` | `deploy.active.json` | deploy, read anew for every question | API and wizard write, passes read | one pass follows one deployment |
| **Arbitrator** `weight_assigner.py`, `weighted_arbitrator.py` | none | weighted composite, gates, TA-led rule, LLM overlay | the desks' contracts, the workflow | a failed LLM changes nothing; no direction without its gate |
| **Perpetual backtest** `src/backtest/engines/perp.py`, `engine.py` | positions, capital, trades, equity curve | rebalance, fund, liquidate, stop, time out, mark, close out | the workflow as its signal function | money is explained; orders are paid for; nothing overdue survives; no look-ahead |
| **Leaderboard** `leadpage_routes.py`, `leadpage_db.py` | `leadpage_results`, summaries under `.runs/backtests`, a file of passes | post, publish, sync, rank, page, history | backtests, platform worker, operators, passes, housekeeping | nothing counts twice; what is stored is what is shown; a run that stays gets in |
| **Run retention** `runs_retention.py` | files under `.runs` | rank, delete | every process that writes runs | what is in use is kept |
| **Run index, decision cache, event log** | files | append, look up | passes and API | see section 6 |
| **Agents, LLM clients, market data, policies, API pages, web** | configuration and caches | requests and conversions | external services | see section 6 |

What is hard here, and hard to test:

- **Processes that share files and rows without locks.** Two gunicorn workers,
  a thread pool in each, platform workers and the trading loop meet in the PID
  file, the status file, `job.json`, the account file and the database.
- **Crashes between two writes.** Almost every operation is several commits or
  file writes: row then event, fill then account then trade then read mark,
  file then memory, process then PID file.
- **Errors of unknown effect.** An exchange call may raise after it took effect,
  a swallowed exception rolls back more than the statement that raised it.
- **Retries and deadlines.** A key is submitted again, an unread item is polled
  again, a job is failed by a deadline while its thread lives on.
- **Long sequences of legal calls.** A short that is added to, a position closed
  in parts, two submissions that share an id.

`PROJECT.json` lists these one by one under `hazards`.

## 2. The modules

### Order management: `OmsOrder`, `Oms`, `OrderLifecycle`

`OmsOrder` holds the state machine of an order (`_transition` with its one-way
door, `_map_status`, the adapter's `_map_hl_status`). `Oms` models `Oms`,
`SqliteLedger`, the adapter and the venue:

| Module | Code |
|---|---|
| `orders`, `idem` | `Oms._orders`, `Oms._idem_index`; gone at a crash, `Reload` is `__init__` |
| `rows`, `events` | the two tables; `Upsert` is `INSERT OR REPLACE`, with the row it drops |
| `call` | the call in progress, at the point it has reached: commit of the row, commit of the event, exchange |
| `venue` | the exchange's own book: it fills and expires orders when it likes |
| `setting` | how the OMS was built: adapter and dry run |
| `SubmitNew`, `SubmitDuplicate`, `CreatedRecorded`, `SubmittedRecorded`, `Place*` | `submit_order`, cut at its commits and at the call of the adapter |
| `CancelLocally`, `ContactVenue`, `ReadBack`, `Cancel*`, `Status*` | `cancel_order`, `get_order_status` |
| `Reconcile`, `ExpireFirst`, `ExpiredRecorded` | `reconcile`, one order after the other |
| `RecordRow`, `LogEvent`, `CommitRaises` | `_record`: two commits, either of which may raise, inside or outside the caller's `try` |
| `CrashRestart` | the process dies at any of these points and is started again with the same setting |

The class is not thread-safe and its callers do not share one, so one call runs
at a time. The list `reconcile` is given is taken to be fresh; nothing in the
repository calls it yet.

`OrderLifecycle` is the abstract promise for one key: intent recorded, opened,
sent at most once and only while open, closed for good. `Oms` implements it
under the mapping at the end of the module, which reads the *durable* row and
the calls of `place_order` only: that is what survives.

### Paper account: `PaperFill`, `PaperAccount`, `PaperTrading`

`PaperFill` translates `apply_spot_fill` and `apply_perp_fill` branch by branch,
including the branches that overlap (`PerpSell`) and the margin released in
shares (`Closed`). `PaperAccount` has what every user of an account knows of it: its
types, and what the two kinds of account never hold. `PaperTrading` applies the fills
in sequence to one account.
Amounts are integers in units of `1/Unit`; `Unit` is divisible by every quotient
the runs can form, so averages and margins are exact and a difference TLC finds
is one of the code, not of rounding. Floats and their tolerances (`1e-12`) are
left out. A refused fill leaves the account alone, as its callers drop the
object unsaved.

### Signal fan-out: `SignalFanout`

Publishers, followers and workers over PostgreSQL at READ COMMITTED. A pass is
one transaction: `ReadCursor`, `ReadBatch`, `ReadFollowers` for each signal,
`InsertItem` for each follower, `CommitPass`; `pass[w]` is what it has read and
not yet committed. `InsertDuplicate` and `InsertFails` are the `except` that
rolls the whole pass back and goes on (`RolledBack`); `Locked` is the row lock
two workers meet at. `DrawId` and `Publish` are separate because an id comes
from a sequence and becomes visible at commit; `OrderedIds` says whether two
publishers may overlap. `owed` is history: who followed when a signal became
visible and has not left since. One provider, one cursor, followers returned in
a fixed order, the cursor row present with 0.

### Copy trading: `CopyExecution`

`execute_inbox_item` with the storage calls it makes, each a step:
`Accept`/`Reject`/`NotFound` (`check`), `LoadRow`, `LoadFile`, `Fill`,
`SaveFile`, `SaveRow`, `BookTrade`, `MarkRead`, `RecordExecuted`. `Fault` is the
call that raises, inside the `try` (then `RecordFailed`) or outside it; `Crash`
the process that dies, possibly leaving a cut-short account file that reads as
none. `proc[e]` is a worker with the items of its poll or an API request. Items
buy or sell one unit at price 1 without fee, or carry an intent that is rejected:
the arithmetic is `PaperFill`'s subject. Executors share `.runs`, as they do in
the compose file.

### Backtest jobs: `BacktestJobs`

One job in two server processes: `disk` is `job.json`, `mem[s]` each process's
copy, `thread` the daemon thread with the write it is doing, `act` the poll of
each client, with the process it asked last, and the start-up of each server. `_write_job` is `WritesDisk` then
`Merges`, or `WriteFaults`, which skips both as the swallowed exception does.
`updated_at` is `age`: fresh, older than the deadline, or not yet set.

### Paper engine supervisor: `PaperEngine`

`paper_start`, `paper_stop`, `paper_status` step by step over the PID file, the
status file and the process table, where a dead child of a living server is a
zombie that `os.kill(pid, 0)` still finds. The rewrites of the status file are
a read and a write of their own, by the stop request and by the loop, whose
patches stand also for the ones `main.py` makes in the same process. Requests
overlap as they like; `MaxRaces` bounds the starts that overlap another request,
and `budget.races` counts them. Torn reads and the reuse of a recorded pid by a
foreign process are left out; servers are replaced between requests.

### Live paper desk: `RunsRetention`, `PaperDesk`

Composes the loop, its passes, the account file and trade log of the paper book,
the API handlers that show and reset the book, and housekeeping.

| Module | Code |
|---|---|
| `loops`, `pidFile`, `Start`, `Stop`, `LoopDies` | `engine_routes.py`, `run_paper_loop.py`; one step each, their steps are `PaperEngine`'s |
| `acct`, `log` | `default.account.json`, `default.trades.jsonl`; an account is the set of its fills, their arithmetic is `PaperFill` |
| `hand[w]` | where each pass, a `GET /book` and a reset are between load, append, truncate and write; what they loaded |
| `Load`, `AppendTrade`, `Truncate`, `Write` | `load_or_init_account`, `append_trade`, `save_account`, which truncates the file and then writes it |
| `Look`, `Order`, `View`, `Reset`, `Unlink` | `get_portfolio_health`, `place_smart_order`, `paper_book`, `paper_book_reset` |
| `StartPass`, `EndPass` | `main.py`: the run's event log, and `enforce_runs_retention` at its end |
| `root`, `Evicted` | `.runs`, newest first by modification time, which writing to a file *inside* a directory does not change |

`truth`, `harm` and `dropped` are history: which fills were answered booked, which
of the losing events have happened, which log entries were deleted.

### Leaderboard: `RunsRetention`, `Leaderboard`

Results meet here from three places, and a page is put together from all of them.

| Module | Code |
|---|---|
| `dirs`, `summary` | `.runs/backtests`: `StartRun`, `FinishRun` of a backtest; `PassEnds` deletes the oldest (`enforce_backtests_retention`) |
| `rows` | the table `leadpage_results`, with `Post` for the two ingest endpoints of providers |
| `lines` | `local_scan_results.jsonl`, one line of each pass and, when passes also submit, the payload of the submission, whose metrics no reader finds |
| `sync[p]` | the worker between `StartSync`, the question whether a run has a row (`LookUp`) and the row (`InsertLocal`), or an operator who publishes one run; `InsertRaises`, `SyncFails` |
| `Pool`, `Newest`, `FromTable` | `leaderboard_rows`: the newest rows, `max(limit*20, 500)` of them, are ranked by return and the first `limit` returned |
| `FromDisk`, `Gathered` | what `get_leaderboard` reads, in its order; it asks the table for four rows for each one it will show |
| `Rounded`, `RetKey`, `Outcome` | the key of an outcome, `f"{ret:.2f}"` and the trades: returns that are equal to the hundredth are one outcome, half a hundredth goes to the even one and `-0.00` is not `0.00` |
| `Enriched`, `OneEachRun`, `OneEachOutcome`, `Smoke`, `Overlaid`, `Ranked`, `Page`, `History` | its steps, one operator each, and the local history |

A row is its return, Sharpe ratio, trades and, as one column, the rest; pages are
ranked by return, results are of one ticker, the table is there. The limits
of the code (four rows fetched for each one shown, `PoolPer` = 20 ranked for each one fetched
and `PoolMin` = 500 at least, 2000 lines read, 200 directories synced) are constants, so that
small ones are reached. So is `Grain`, the hundredth of a percent in the unit the returns
are in.

### Trading workflow: `DeployConfig`, `Arbitration`, `TradingPass`

`DeployConfig` is the active deployment as a pass sees it: which desks run
(`Nodes`), which vote and with which weight (`Weights`), for which an LLM speaks
(`LlmDesks`). The file is opened for each of these questions, and one that is missing or
just being rewritten (`Unreadable`) answers none of them, so each falls back to a
default of its own: all desks, the registry's weights, no LLM.

`Arbitration` is `compute_weighted_arbitration` with its gates, the alignment
block, the TA-led rule, the overlay of the LLM arbitrator and the intent of a
paper run, as operators over the desks' contracts. A contract is what the gates
see of it: score, whether it is enabled, whether it reports a news shock. The desks
that count are those with a weight (`Ballots`), also one that did not run.

`TradingPass` runs the graph of `main.py` in paper mode for one symbol, node by
node: `Begin` (`policy_orchestrator`, `market_scan`), `Desks`, `Ask` and `Infer` (the
mode and the desks to ask about; the thread of each LLM call, in any order), `Arbitrate`, `RiskGuard` (with
`portfolio_proposal`), `Execute`, `PlaceNext` for each order of the plan,
`Synthesize` and `Audit`; `Raise` where a node ends the run. `acct` is a
`PaperAccount`, which `Reset` may replace at any moment, and `DeployBegin` and
`DeployEnd` are the API's truncation and writing of the deployment. A pass reads it at
`Begin`, `Ask`, `Arbitrate` and `Execute`; reads that follow each other without a
call between them are one step. Debate texts and proposals reach no decision and are
left out.

### Perpetual backtest: `PerpBook`, `RiskGuard`, `PerpBacktest`

`PerpBook` has every method of `PerpEngine` that changes the book, as functions
from a book to the next: `OrderSize` and `Rebalance`, `Open`, `Close`,
`ApplyFunding`, `CheckLiquidation`, `CheckTpSl`, `CheckTimeout`, `OnBar`.
`PerpBacktest` is the loop of `run`: signals for each symbol, marks, snapshot, next
bar, close-out. `Answer`, `Weight` and `Signal` are the signal function of
`engine.py`: what becomes of an agent's or VCP's answer, of failures and the
warm-up. `RiskGuard` is the end of the workflow in a backtest, which `Decision`
puts together: the trade intent, which drops a sale of a flat book when
short positions are not allowed, and the veto by drawdown or leverage. `peak` is
the signal function's `_equity_peak`; the guard sees the equity of the last
snapshot (`curve`) and the book as the symbols before it left it.
`rows` are the bars each symbol was loaded with and `Shown` the ones the agents
are given. Prices are ticks, sizes lots, money `1/Unit` of both.

## 3. The runs

A property is broken by at least one mutant of the code under the same
configuration. Actions all fire in the passing runs. A name that joins two
properties is their conjunction; each is stated and explained in the module.

| Run | Instance | Shows |
|---|---|---|
| `oms_calls` | 2 keys with own ids, 2 venue ids, quantity 2, all three builds, 4 calls, 1 crash, 1 raising commit | the six properties below |
| `fills` | spot and perpetual, leverage 3, fee 1/10, prices 1..3, quantities 1..2, 4 fills | books, equity, margin |
| `fanout_workers` | 2 workers, 2 users, 3 signals, batches of 2, 1 follow or unfollow, 1 failing insert, 1 pass that dies | safety and liveness of the fan-out |
| `copy_run` | a worker and an API request, 3 items of 3 kinds, poll of 2, window of 2, cash for one item, 1 act of the user, 1 interruption | safety and liveness of copying |
| `jobs_run` | 2 processes, a client, 2 bars, a thread that may hang, 2 crashes or raising writes, deadlines at any time | answers, alignment, recovery, liveness |
| `jobs_restart` | the same, 1 crash | a violation, section 5 |
| `engine_run` | 2 pids, 2 servers, 2 requests at a time, 2 deaths, 1 replaced server, 1 start that overlaps | one loop, tracked, true answers |
| `desk_run` | 2 loops, 2 fills, 2 runs, 1 loop that dies alone, 1 reset, a view, room for 3 entries of which 2 are taken | what can lose a fill, and what cannot |
| `board_run` | 2 backtests, 4 results of which the database refuses 1 and 1 lacks its Sharpe ratio, a provider, a pass that submits, 3 events (post, publish, pass, fault), twice a page fetched, as many rows ranked and 3 at least, returns in tenths of a hundredth (`Grain` = 10), two of them equal to the hundredth, 2 lines read, room for 1 backtest | nothing twice, nothing lost, sync |
| `pass_run` | 2 desks, scores 30, 50 and 100, prices 2 and 20, up to 2 LLM orders, spot and perpetual, 2 passes, resets at any moment; 2 deployments or none, of which 1 is written while passes run | decisions, orders, report |
| `perp_run` | 2 symbols, one led by agents and one by VCP, 3 candles, 4 bars of four hours, 1 of warm-up | money, entries and the risk guard, survivors, order of trades |
| `perp_view` | the same, each symbol without one of the bars | a violation |

**Order management.** `AtMostOncePlacement`: resubmitting a key never calls
`place_order` twice, although the crash, the failed commit or the timeout may
come after the exchange took the order. `WriteAhead`: what the exchange was
asked is durable past CREATED. `LedgerIsComplete` (`ReportedIsDurable`,
`MemoryIsDurable`, `AuditComplete`): what a caller was told, and what the process
believes, is in the ledger (as long as no commit raised), and without crash or
raising commit the log names creation, submission and the present state.
`ClosedMeansDone`: an order the OMS closed and the venue had numbered is not live
there. `ImplementsLifecycle`: the refinement; no late reply, reconciliation or
restart reopens an order. Four calls are enough to submit, cancel or query, be
interrupted and retry; the longest chain a property depends on is submit, crash,
resubmit, query. Two keys are enough for one order to disturb another.

**Paper account.** `BooksBalance`: cash, margin and position cost equal the start,
the realized profit and the fees. `EquityIsKept` joins two statements.
`FillsCostOnlyFees`: at the fill's price the
equity falls by the fee and by nothing else, for every fill of every reachable
account (so one fill beyond the bound) but a sell that adds to a short.
`MarginMatchesPosition`: margin is locked exactly while a position is open and
closing all of it returns all. Four fills, the fifth inside the property, open,
add, close in parts and flip.

**Fan-out.** `LosesNothing`: crashes, duplicates that roll a pass back, a second
worker and followers who come and go lose nothing, only an insert that fails for
another reason does (`OnlyErrorsSkip`); and whoever has a signal has every
earlier one that is owed (`InOrder`). `CatchesUp`: once publishing stops, the
cursor comes to stay past every signal and everyone has what they are owed. Three
signals with batches of two make a pass that is cut, a pass that is not, and a
cursor written back by the slower worker. Fairness: a worker's loop never stops
(`while True`, with every exception caught and logged; a process that dies is
started again, which the compose file leaves to the operator) and an open
publishing transaction commits. Ids are committed in order in this run; section 5
says what happens otherwise.

**Copy trading.** `ExecutionsAreBooked`: an execution recorded as executed has a
trade and is read, whoever runs beside it; and an item is booked again at most
once per interruption, although nothing but the read mark, written last, says it
is done. `AccountIsExplained`: account row and trade rows differ by at most the
interruptions, and a worker alone neither makes nor loses money.
`DisablingStops`: after copying is switched off each worker finishes at most the
item in hand. `EventuallyBooked`: every item that can be executed is, if fewer
unread items than a poll holds are stuck. Fairness: the worker's loop. The cash is
that of one item so that it reaches 0 and buys are refused.

**Backtest jobs.** `VerdictsAreTrue`: completed is never told of a job that did
not complete, whatever dies and whatever comes late; without a missed deadline
and a crash the first final answer is the outcome. `FileSettles`: memory and file
end up the same, and after its process is back no dead job is running.
`NoPollForever`: once `job.json` has been written, or the thread has ended, every
client gets a final answer. Fairness: time passes; a client goes on asking the
process it asked last (`Asks`: a stream never leaves the one that opened it),
another one only if that is not up, though it may change at any time; dead
processes are started again (gunicorn's master replaces its workers); the thread
only as long as it does not hang. Without the condition the property is false of
the code, and TLC finds it so: the write of a queued job raises and is swallowed
(line 90), the thread hangs, there is neither an `updated_at` nor a file whose time
could stand for it, `_maybe_fail_stale_job` (line 158) returns the job as it is,
and the stream of the owner says "queued" for ever.

**Supervisor.** `OneTrackedLoop`: unless a start overlaps another request, there is
one loop at most and, between requests, the PID file names it; stops and polls may
overlap each other. `AnswersAreTrue`: stopped and not running are said when
nothing runs, already running of a running loop or of one that died by itself.

**Paper desk.** `LossesAreExplained`: the account has every fill since the last
reset, unless a stop fell between truncation and write, a reader found the file
torn or gone and saved a new account, two saves overlapped, or housekeeping deleted
the directory; each of the four happens in the run. `LogKnowsTheRest`: whatever is
killed, torn or overlaps, the log has every booked fill but the ones a reset or
housekeeping deleted. `OneDesk`: two loops only after housekeeping deleted the PID
file; two passes only then or after a loop died alone. Two fills of two loops are
enough for each of the two to overwrite the other's.

**Leaderboard.** `CountsOnce`: a run has one row in the table, unless worker and
operator asked for it at the same moment; and no page of any kind shows an
outcome, or a run of a provider, twice, whatever is stored. `BestIsShown` is three
things, measured by the *full page*, the one of `All` rows, which has room for everything there
is. The pool grows with the page, so the full page ranks the whole table (`Pool(Fetch * All)` is
at least the length of it), the disk, and 2000 lines of the file. The endpoint itself serves
pages of at most 500 rows; the full page is what a page would be without that bound, and is
one that can be asked for as long as there are no more than 500 rows:

- `HiddenForCause`: a stored outcome is on the full page, unless a smoke test of the same
  outcome took its place (of two equal outcomes one is kept before smoke tests are
  dropped), or its run has a row with another outcome;
- `PageIsBest`: a page of n is the top n of the full page if every row was read, or if n of
  its rows return more, to the hundredth, than every row that was not. A row of the table is
  not read (`Unread`) because others return more, or because it is older than the pool: such a row
  may be the best of all, and then the condition fails for that page, as the page does. To the
  hundredth, because an unread row that returns a little less than one on the page is the
  same outcome to the full page, and may take its place there. The condition is still not
  enough: an unread row may be a more complete result of
  a run that was read, which would take its place on the full page;
- `HistoryHasThePage`: a run the local page shows is in the local history, with the
  same return.

`EventuallySynced`: a finished run that stays among the directories
the worker looks at gets its row, whatever fails now and then, if no run before it
is refused every time. Fairness: the worker's loop. Three events
are a run stored before housekeeping deletes it while a result is posted twice;
the tables and files are then full to their limits.

**Trading pass.** `DecisionsAreGated`: a direction has a gate behind it in what the
desks said, in whatever order LLM answers and failures came; an overlay may
change it but not open what was closed for want of factors; and only desks that ran
vote or have an LLM speak for them, unless a deployment was written meanwhile or gives
none of its desks a weight. The two deployments differ in their desks, and for both
weights and LLM desks name one that is disabled in one of them. `OrdersAreJustified`
joins two statements about orders. `OrdersAreSound`: none
follows a veto, a synthesized order is alone and in the direction of the intent,
and none is larger than the caps allow or, sold on spot, than what is held.
`ReportIsTrue`: "executed" is said exactly when the pass changed the account.
`OrdersFailForCause`: the account refuses a clamped order only if it changed since
it was read or the order turns a perpetual position round; an exit is left out
only for want of position or cash. The second pass starts with the position of
the first, on which the sells and the caps depend. `PaperFill` divides exactly in
`fills`; here an average may round, which none of these properties reads.

**Perpetual backtest.** `MoneyIsExplained`: capital and margins are the initial cash,
the profit and the fees, on every way out of a position, and the final equity is
the last snapshot less the commissions of the close-out. `EntriesAreSound`: no
position is paid with capital that is not there, though losses and funding can
make it negative, and entries are a cooldown apart; what the agents enter keeps the
drawdown stop, the leverage of the policy and the rule on short positions, as far
as the code keeps them (section 5). `BarsAreSound` joins two statements about
what a bar leaves behind. `SurvivorsAreSound`: no bar
leaves a position under water, past its stop or target, or held too long.
`TradesInOrder`: entries follow exits, nothing is held before the scored window, no
stop ends a trade on its own bar. Four bars of four hours cross a funding time,
fill a cooldown and a time limit; the candles reach stop, target and liquidation,
fees and funding alone the drawdown stop, and positions are turned round under it.

Deadlock is checked except where everything may have been done and counted:
calls, fills, jobs and backtests end.

## 4. What is proved

Machine-checked for every value of the constants, under the assumptions the
modules state for them.

**`OmsProofs`.** `TypeCorrect == Spec => []TypeOK`. `TypeOK` is not inductive: an
action needs to know that the order it handles exists and that a call at the
adapter has a tag and an id that fit. `TypeInv` adds that every order in a book
is filed with its key's id (`BookOK`), that the index points nowhere or at the
key's id (`IndexOK`), that a call is in progress with what its step needs
(`CallOK`) and that a live venue order is not full (`VenueOK`). Each action
keeps each part; the answers of the exchange share `AnswerShape`.

`AtMostOnce == ASSUME UniqueIds PROVE Spec => []AtMostOncePlacement` and
`WritesAhead`, with `UniqueIds`: every key is submitted with an id of its own, as
when both are computed from the same fields. That assumption is needed:
two submissions that share an id break it (section 5). The invariant `OnceInv` says
that the index covers every order in memory, that memory covers every durable
row, so that a restart forgets no key that matters, and, for the call in
progress and for the rest (`SubmissionOK`, `PlacedOK`), that a key was placed
only if its row is past CREATED and that the one call that is about to place it
is the first. Most actions leave these alone (`QuietStep`); the others,
new submission, the commits, the placing and the crash, have a lemma each.

`ImplementsTheLifecycle == ASSUME UniqueIds PROVE Spec => ImplementsLifecycle` is the
refinement of `OrderLifecycle`, for every key. It needs to know how memory and ledger
are related, `LifeInv`: a live order has a row; a closed row has its order closed in
the same way; an order whose row is open is past CREATED, and one in CREATED has
no venue id; between a row and its event the row is the order. A step of the OMS is
then mapped as follows: `RecordRow` to `RecordIntent`, `Open`, `Close` or, when the
phase stays, to a stutter (`RecordRowMaps`); a placing to `Send`, which needs
`OnceInv` (`PlacingMaps`); everything else, crashes included, to a stutter. That no
late reply reopens a closed row is the step of this proof that uses `LifeInv` most:
memory and row are closed together, and `Transition` leaves a closed order alone.

`ClosedIsDone == Spec => []ClosedMeansDone` needs no assumption about ids. `VenueMoves` is what
the exchange does in any step: what it has it keeps, and what is done stays as it is.
`DoneInv` says of every copy of an order, in memory and in a row, what the property says
(`Fine`), that nothing is asked about an order that is closed already, and that what
a reconciliation has still to expire is done at the venue (`AskedOK`).

`LedgerHoldsAll == ASSUME UniqueIds PROVE Spec => []LedgerIsComplete`. `Mirrored`: as long as no
commit raised, memory equals the rows but for the order of the call whose row comes next;
`Logged`: without a crash as well, the log has every state, creation and submission but for the
one event between the two commits.

**`NumberLemmas`.** What the other proofs need to know of integer quotients, and of
`SumFunctionOnSet`: its type
(`SumType`), a bound, and how it changes with one summand (`SumChange`) or with none. The
library defines it by recursion and states nothing about it. The proof that
the partial sums exist and are unique takes a smallest set for which they would not
be, which needs no induction theorem (these take an operator as a parameter, which
the provers cannot instantiate): `NatLessThanWellFounded` is enough.

**`TradingProofs`.** The account first, for every leverage, fee, price, quantity and number of
fills, with the integer division of `PaperFill`. `TradingTypes == TradingSpec =>
[]TradingTypeOK`: a spot account never owes and is never short, and a closed position leaves
nothing behind. `PerpBooksBalance == TradingSpec => [](instrument = "perp" =>
BooksBalance)`: whatever is lost in rounding an average or a share of the margin is not
lost from the books. Each of the three building blocks (`Opens`, `Closes`, `Flips`) moves
cash, margin and profit by amounts that cancel; the four branches combine them.

Two theorems say that trading itself makes and loses nothing. `MarginComesBack == ASSUME
MarginIsCharged PROVE TradingSpec => []MarginMatchesPosition` needs that there is a margin exactly if there
is a position (`Backed`), which closing in parts preserves because a part of the
position releases less than the whole margin (`ShareLeaves`); `MarginIsCharged` says
that the leverage is not so high that a margin is rounded to nothing, which floats do not
do. `EquityHolds == ASSUME MarginIsCharged PROVE TradingSpec => [](QuotientsAreExact => EquityIsKept)`
(`OpensAtCost`, `ClosesAtValue`, `FlipsAtValue`, `SpotCostsFee`): only the entry price
of a position that is added to is a quotient that shows in the equity, and `QuotientsAreExact` says of a
state that the fills to come divide without remainder. The unit of money of `fills` is chosen
such that they do. `BooksHold == TradingSpec /\ []QuotientsAreExact => []BooksBalance`
is the same for the books of spot accounts, whose equation has the entry price in it.

Then the pass, for all desks, gates, weights, deployments, orders an LLM may ask for and
moments at which the API writes a file. `PassInv` is one inductive invariant in named
parts: `DeploymentInv` (what the pass read is a deployment or none), `ContractsInv` (contracts are
of desks that ran), `PassTyped` and `OrdersTyped`, `CleanInv` (in a pass that no write of the
deployment disturbed, what it read is the deployment that is there), `MandateInv`
(the plan is what the intent, the veto and the account read at `Execute` allow),
`BeganTyped` and `ReportInv` (what the report will say, compared with the account the pass
began with). From it, with `AccountInv`:

- `PassTypes == Spec => []TypeOK`;
- `DecisionsHaveGates == Spec => DecisionsAreGated`, an action property: the lemmas
  about `Arbitration` say of the composite, the gates, the technical rule and the
  overlay which direction each can produce from which ballots (`SumBound` bounds the
  composite);
- `OrdersHaveCause == ASSUME CapsLeaveFees, LotsAreSmall PROVE Spec => []OrdersAreJustified`.
  `CapsLeaveFees`: the caps of an order leave the cash for its fee; with a policy
  that allows all of it the code does send orders the account refuses, and the property
  is false. `LotsAreSmall`: one lot costs no more than the smallest order; the code has
  fractions of a unit, so this is about the model's whole lots;
- `ReportsAreTrue == ASSUME FeesAreCharged PROVE Spec => []ReportIsTrue`. The report compares
  accounts; without a fee a purchase and a sale at one price restore the
  account, and the pass would report that nothing was executed.

The instance of `pass_run` satisfies all three.

**`RunsProofs`: the paper desk.** For every number of passes, fills and runs, and for every
rule by which housekeeping picks its victims:
`BookedFillsAreLogged == Spec => []LogKnowsTheRest`, `OneDeskAtATime ==
Spec => []OneDesk`, `LossesHaveFourCauses == Spec => []LossesAreExplained`.
`HandInv` says who can be at which step with what in hand. `LogInv` adds that a fill
past its log entry is in the log or was deleted from it. `LoopInv` says, unless
the PID file was deleted, that the loop it names is the only one and that passes
belong to it. `BookInv` says, as long as nothing that loses fills has happened,
what the account holds: the answered fills, or, while it is torn, what its one
writer has in hand, and that no one else holds a copy that would undo it. The
proof shows that the four causes of `LossesAreExplained` are all there are: each
step that ends `BookInv` adds one of them to `harm`. `DeskTypes == Spec => []TypeOK` are the
types of the files (`StateTypeOK`) and of the listing of `.runs` (`RootTypeOK`): each entry is
there once, the PID file's and the account's as long as the files are. `RootInv` adds
that the listing is a sequence without repetitions (`Dir`) and that a pass that ends has a
run to write to. `Touch` and `Evicted` are written with `Chosen`, a recursive
function that does what `SelectSeq` does, whose lemmas (`OnlyTakes`, `TouchDir`) the
provers can use.

**`BacktestProofs`: the jobs.** `TypeCorrect`, `VerdictsHold ==
Spec => []VerdictsAreTrue` and `TheFileSettles == Spec => []FileSettles`, for every number of processes, clients, bars, crashes and
raising writes. `WorkInHand` gives each actor at a step the job the step needs.
`ThreadInv` and `TruthInv`: the thread ends once, its last write is how it ended,
and no copy of the job, in the file, in a process or on its way there, says
completed before that. `CalmInv`: without a missed deadline and a crash nobody
writes but the thread, so that every final status anywhere is the outcome.
`AlignInv` and `RecoveryInv` are for the end of a job: on such a calm run file and memory
differ only in the middle of a write, if no write raised; and a server starts only after its
thread died, can write nothing but a failure, and cannot be done, if no write
raised, while the file still says running.

**`BacktestProofs`: the perpetual backtest.** All four properties of `perp_run`, for every
number of symbols, bars and candles, every fee, leverage, funding rate, cooldown and
policy, and whatever the agents answer:
`RunTypes == RunSpec => []RunTypeOK`, `MoneyAddsUp == RunSpec => []MoneyIsExplained`,
`NothingIsOverdue == RunSpec => []BarsAreSound` and `EntriesHold == RunSpec =>
EntriesAreSound`. The one assumption that the code does not check itself is `SlipDiv > 1`:
slippage is less than the price, without which a sale would be at zero and the size of
the next order a division by zero.

What an operation of `PerpEngine` does to a book is a lemma of its own (`CloseEffect`,
`FundingEffect`, `TpSlEffect`, `OpenEffect`, `RebalanceEffect` and the others): it
touches one position only (`OnlyMoves`), cash, margins, profit and fees cancel (`Balance`), and
the commissions of open and closed trades are the ones that were paid (`Unbooked`). Sums
over positions change in the one summand (`SumChange`). `RunInv` is the inductive
invariant of the loop: `MoneyInv`; `PastOK`, the order in time of a symbol's last
entry, last exit and position; `StageOK`, which symbols the present stage has
already dealt with and what that means for their positions, namely that nothing overdue is left
behind the turn; and `FinalEquityIsReal`, by which the close-out changes equity by its
commissions alone.

`EntriesHold` is an action property with two arguments. An entry is paid for
(`OrderIsAffordable`): an order that is cut to what the capital allows sets a commission
aside that the smaller order does not exceed, so that what it costs more than the
capital is what the rounding to a lot can add. An entry of the agents is guarded (`EntryGuarded`):
a book without holdings has no net position, for the rule on shorts; the leverage the
guard read is that of the book at the closes of the last snapshot, and they are the ones
shown when the symbol has all its bars, for then every symbol has (`RowsInv`,
`FullRowsShowSnapshot`). With gaps the two may differ, and the property asks for nothing.

**`PaperEngineProofs`.** `TypeCorrect`, `OneLoopAndTracked == Spec => []OneTrackedLoop`
and `AnswersHold == Spec => []AnswersAreTrue`, for every number of requests at a
time, servers, processes and deaths. `ReqOK` fits what a request has in hand to
its step. `RaceFree` is the rest, under the condition of the properties: a start is
alone (`StartsAlone`); what lives is what the PID file names or what a start
has just forked, and is what every request past its probe has in hand (`LoopInv`);
and if no loop died by itself the file names one that lives or that
is being stopped (`FileInv`).

**`RunsProofs`: the leaderboard.** `OneRowPerRun == BoardSpec => []StoredOnce`, a part of `CountsOnce`, for every number of
backtests, providers, results and faults, and for whatever order a sync takes
the directories in: while no other publisher inserted the run between the look-up
and the insertion, the table has one row of it. `OnceInv` adds to that what makes it
inductive: whoever is about to insert a run has found no row of it
and is the only one about to. `BoardTypes == BoardSpec => []BoardTypeOK` (`BoardInv`: a
publisher that is not idle has runs left, which needs `SyncLimit # 0`; the code has 200).

`NothingCountsTwice == BoardSpec => []CountsOnce` is about what is shown: of every page, local
or not, whatever table, disk and file hold, no two rows are of one run of a provider
or of one outcome. A page is put together in eight steps, and each must keep what
the earlier ones achieved:

- filtering, sorting and cutting only rearrange: their result *takes* rows from
  their argument, no place twice (`TakenFrom`; for sorting this is that `Ranking` hits every
  place, by counting who is before whom). What holds of any two rows still does;
- a merge leaves one row of each key (`WinnersOnce`, by induction along the
  recursion of `Winners`), and is itself such a taking, so the merge by outcome does not
  undo the merge by run (`OneOfEach`);
- the overlay of disk summaries comes *after* both merges and writes to the columns
  the second one compared: it could make two outcomes equal. That it does not needs an
  invariant of the whole program: `KnownInv`, whatever the table or a publisher holds of a
  run is what its summary says for as long as there is one, since a summary is written
  once and a name is not used again while a row or a publisher has it. (That is a guard of
  `StartRun`: ids are drawn at random, `backtest_routes.py:692`. With `--run-id` an operator
  may repeat one; the model has no such run.) So columns that
  were filled in from a row's own payload are not changed by the overlay (`Complete`,
  `OverlaidComplete`).

`StoredIsShown == BoardSpec => []BestIsShown` is about what is missing. Taking rows is not
enough here; the theorem needs that no step loses what it should keep:

- every key has a winner (`Winners` covers its argument), so a merge by run or by outcome
  drops a row only for another of its key. From there `HiddenRows`: follow a stored row
  through fill-in, merge by run, merge by outcome and the removal of smoke tests; each
  place where it can vanish is one of the causes the property names;
- for `BestPages`, what is read is compared with all there is, step by step. First, whatever
  the pool and the limit cut, what is read is a *choice* from the full page's rows that keeps their
  order (`GatheredIs`, `TableRead`): sorting a choice is choosing from the sorted list (`SelSort`),
  and no row is there twice, since no two rows of the table have one time. Filling in
  columns keeps it a choice (`WholeIs`). Then take the rows that return more, to the hundredth,
  than every unread row (`Over`): all of them are read, and rows of one outcome are all over
  or none is, which is where rounding matters (`OverOutcomes`; `RoundedIs`: rounding keeps the order).
  The merge by run is the one step in which rows below can replace
  one that is over (`RunsOfMore`). Local rows of a run all return the same, so none is unread if
  one is over. Rows of a provider come sorted by return, so the over ones come first, and the
  unread ones of a run that has one change nothing (`MrgSkip`), because the property
  excludes a more complete one among them. So both lists hold the same rows over
  the unread ones after each merge, and sorting puts those on top, where a page of n ends
  (`TopOfMore`);
- the full page reads everything because `All` has room for every row times two, `Fetch` and
  `PoolPer` are not 0 (4 and 20 in the code), so it fetches as many rows as there are and
  ranks at least as many as it fetches (`PoolIs`);
- a local row's columns are those of the summary it was made of, and all rows of one local run,
  those about to be inserted too, were made of the same one (`AgreeInv`; with `KnownInv` it is
  what the disk has, as long as it has it). So for `HistoryAgrees` it does not matter which row of a run
  the history keeps and which the page: the return is the same.

**`SignalFanoutProofs`.** `TypeCorrect` and, under `OrderedIds`,
`NothingIsLost == Spec => []LosesNothing`, for every number of workers, followers,
signals and passes that die, and every batch. The argument is that *an inbox that has a
signal is complete up to it* (`Complete`), which is more than `InOrder` asks: it
holds across users. It makes a rollback at a duplicate harmless, because the item that
is there already vouches for everything the rollback took along, and it
lets a slow worker write an older cursor. For a pass, `NobodyLeftOut` says what
committing it would leave complete: everything before the signal in turn is in the
inbox or in its items, and of that signal whoever is not still to come;
`HandOK` that its batch has no gaps, for which ids must be committed in the order
they are drawn (`Published`): the ordering hazard of section 5 is the case in which
this step of the proof fails. An insert that fails ends the argument, as it ends the property.

**`CopyExecutionProofs`.** `TypeCorrect`; `ExecutedHasTrade == Spec =>
[]ExecutedIsBooked`, for every number of executors, faults and crashes (`BookedInv`: an
item about to be marked has its trade, one about to be recorded has also left the
unread list, and no step takes either back, `OnlyMore`); `DisablingHolds == Spec =>
[]DisablingStops` (`OffInv`: while copying is off, the trades booked since and the workers
still armed, that is between the check and the trade, are no more than the workers);
and, for a single worker, which is how the platform is deployed and how `copy_run` is set up:
`MoneyIsConserved == Spec => []ConservedUndisturbed`
(`AccountInv`: row and file agree except between the worker's two writes, so that
a cash of 0 falls through to a file that says 0 as well), `ExecutionsHold == Spec =>
[]ExecutionsAreBooked` and `AccountHolds == Spec => []AccountIsExplained`. Both count
against the interruptions. `RepeatInv`: the repeats so far and the items that
have a trade and could still be booked again (`Again`: unread, or in hand) are
together no more than the interruptions; only a fault or a crash between trade and
read mark adds to them. `PositionInv`: what the worker holds in hand fits
the row, and the row differs from the sum of the trades, and the one the row has and the
trades do not have yet (`Owed`), by at most one per interruption. With two
workers neither is true: both may book one item, with no interruption at all.

Model-checked only:

- liveness (`CursorSettles`, `EventuallyDelivered`, `EventuallyBooked`,
  `NoPollForever`, `EventuallySynced`), which the prover does not reach;
- accounts in which an entry price had to be rounded: by how much the equity of a
  perpetual account, or the books of a spot account, then differ;
- the look-ahead of `perp_view` and the orphans of `jobs_restart`, which do not hold.

## 5. Where code and documents disagree

Kept as runs that find the violation:

- **A look into the future** (`perp_view`, `engine.py:325`). "Slice OHLCV to
  completed bars only (no look-ahead)": the slice counts the bars of all symbols,
  but cuts each symbol's own rows. A symbol that lacks an early bar shows its agents
  the bar they are about to trade.
- **A restart that fails a living job** (`jobs_restart`, `backtest_routes.py:201`).
  The recovery takes any running `job.json` for an orphan, also one whose thread
  runs in the other process.

Met while modelling, and excluded from a passing property by a condition that its
comment names (drop the condition and TLC finds the violation):

- **Adding to a short** (`paper_account.py:378`; `AddsToShort`). The branch "Open
  short from flat" also takes every existing short; "Add to short" is never
  reached, the entry price is replaced and the profit or loss so far is gone.
- **An insert that is not idempotent** (`leadpage_db.py:499`; `raced`). "Idempotent
  insert" asks whether the run has a row and then inserts it, in two transactions and
  without a constraint: worker and operator may both insert.
- **A shared client order id** (`oms.py:214`; `UniqueIds`). "Restart-safe
  idempotency" (`docs/run-modes.md:123`): two submissions with one
  `client_order_id` and different keys replace each other in the ledger; after a
  restart the first key is unknown and is placed again. `place_smart_order` of the
  OMS adapter passes the caller's id with a fresh nonce, hence a fresh key.
- **Ids that commit out of order** (`leadpage_db.py:1042`; `OrderedIds`). "Pull new
  signals in id order for stable cursoring": the cursor passes a signal whose
  transaction commits later, and it is never fanned out.
- **A cash of exactly zero** (`copy_routes.py:190`; `ConservedUndisturbed`). The
  row, the "single source of truth", is overridden by the account file when its
  cash is 0, and the file may be older or new.
- **Two loops** (`engine_routes.py:112`; `budget.races` in `AtMostOneLoop`). Two
  starts at the same time both find no loop, although a second one is to be told
  "Paper loop already running".
- The `except` of the fan-out (`leadpage_db.py:1070`) takes every error for a
  duplicate, and the cursor still advances: the exception in `OnlyErrorsSkip`.
- A job failed by the deadline comes back when its thread writes again, and
  file and memory may then end up different: the condition in `VerdictIsFinal`
  and `Aligned`.
- A loop that died by itself is a zombie of the server and is answered "already
  running" until somebody calls stop: the exception in `AnswersAreTrue`.
- **Registry weights for desks that never ran** (`weighted_arbitrator.py:174`;
  `pass.clean` and `Weighted` in `DecisionsAreGated`). "Deploy / profile weights only — do
  not merge leftover registry defaults": they are taken when the deployment gives no
  enabled desk a weight, and when the file is read while the API rewrites it, after the
  graph was built without those desks. A desk without a contract is no abstention:
  with the defaults of its factors the technical desk comes to 45 of 100, which counts
  as bearish. A deployment that is written during a pass mixes the same way: desks of
  the old one, weights of the new.
- The caps of an order are parts of the free cash, also of one that sells: with the
  cash locked in the position the exit is not sent (`OrdersFailForCause`).
- **A drawdown stop that turns positions round** (`risk_guard.py:209`;
  `EntriesAreGuarded`). "DD stop: block risk-increasing only": a sale of a long passes
  as reducing, but the engine closes the long and opens a short of the full weight.
- **Short positions that are not allowed** (`execution_intent.py:131`;
  `EntriesAreGuarded`). "If `false`, bearish signals result in HOLD"
  (`docs/policy-schema.md:17`): they do for a flat book only. With any net position, of
  whatever symbol, the SELL stands, and the engine goes short.
- A GET of the book saves a new account over a file it finds torn, also one that is
  just being written; housekeeping ranks the book's directory by a time that
  writing the account does not change, and takes the PID file of a running loop
  for an artifact (`LossesAreExplained`, `OneDesk`).

Modelled as the code has it, with no property about it:

- A crash between the two commits of `_record` (`oms.py:113-114`) leaves a
  transition that no event names; "every state transition is appended"
  (`docs/run-modes.md:125`) holds without crashes, as `AuditComplete` says.
- A paper order is booked and accepted without a venue id, so cancelling it is
  local, as for one "never confirmed by the exchange" (`oms.py:251-263`).
- An insert of a backtest that raises every time, as for a value the database does
  not take, ends the worker's turn before the fan-out and the copying, in every turn:
  the other runs of the worker module assume that the sync is off or succeeds.
- Smoke tests are filtered out after they have displaced other rows of the same return
  and number of trades; rows of passes that submit appear without a return; the file
  of passes is read from its start, so that the newest lines are the ones past
  the limit; the worker's 200 directories are the last by name.
- The leaderboard prefers rows whose run begins with `bt_`
  (`leadpage_routes.py:120`), as the engine names them itself; runs the API starts
  begin with `bt-`.
- `auto_execute` is read at the poll and not again; `enabled` is.
- A patch of the status file that was read before a start and written after it
  takes the start's fields away (`run_paper_loop.py:25-30`). A server that dies
  between `Popen` and the write of the PID file leaves a loop nobody can find.
- "TA-led desk can fire from its own composite when the global gate holds"
  (`weight_assigner.py:534`): the rule asks only that the gate says something
  else, so it also turns a global SELL into a BUY and the other way round.
  `block_aggressive_long` keeps the technical desk from buying, not the composite.
- "Writes the execution settings into runtime_settings.json so the running system picks
  them up without restart" (`deploy_routes.py:329-332`): no pass reads the sections
  `policy` and `execution` of that file. A configuration that fails its validation is
  deployed all the same, with `valid` false in the answer.
- The risk guard scores `shared_memory["backtest"]`, which a paper pass does not
  fill: only the kill switch vetoes there. In a backtest a veto is a weight
  of 0, so it closes the position it keeps from growing.
- The lower confidence bound of a flat book never applies on paper: a symbol that
  is not held is missing in the snapshot that decides whether the book is flat.
- The execution desk's decision to send no order, or its failure, is replaced by an
  order of the full cap made of the intent; `main.py:1064` calls the snapshot it
  leaves "updated", but that is the account before the orders, and the report's is
  the one after the first of them.
- An order of the perpetual backtest is filled at the open of a bar and sized with
  the equity at its close; a funding fee is also taken on the first bar of a day that
  lies outside the funding hours; a gap before a symbol's first bar is
  filled with the prices of the later one.

## 6. What is not modelled

- Text: debate, prompts, the parsing of LLM answers, reports, exports, event logs
  and the web. No decision reads what they produce; the answers themselves are
  nondeterministic in the models.
- How an agent computes its scores, market data, screeners, statistics of a
  finished backtest: sums over real numbers without state that outlives the call.
- Policies and presets: schemas and merges of configuration values, constants of
  the models.
- API pages for studio, portfolio and settings: single validated reads
  and writes. The run index, the decision cache and the memories of a run: appended
  or keyed files that no other step depends on.
- The Futu adapter (the same order calls without state of its own) and the older
  spot backtest loop.
- Of the leadpage: profiles, signatures and nonces, the file mode without a
  database, pages ranked by Sharpe ratio or drawdown (the same code with another
  key), and runs of a provider that carry the name of a local one.
- Authentication: outside the scope of this project.
- In the modelled parts: several symbols (but in the perpetual backtest) and
  providers, floats and their tolerances, the notional cap of copied trades, the
  shared name of the temporary job file (it shows as a write that raises), passes of
  the workflow through the OMS adapter.

The map names the lines the definitions stand for. Most of the 43 000 lines of the
implementation are of the kinds above: they could be rewritten as operators but
have no behaviour for a checker to explore.

## 7. Plan

1. `PaperDesk` with the arithmetic of `PaperFill` in place of sets of fills, and
   `TradingPass` inside it.
2. The gates of `Arbitration` in front of `RiskGuard`, in backtest mode.

Runs stay within a few minutes each; the questions of a module are put into one
passing run, and a violation run is kept where a document promises otherwise.
