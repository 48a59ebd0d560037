---------------------------- MODULE Leaderboard -----------------------------
(***************************************************************************)
(* The leaderboard: backtests leave a summary under .runs/backtests, where *)
(* housekeeping deletes the oldest; the platform worker and an operator    *)
(* copy summaries to the database; providers post results of their own;    *)
(* every paper pass appends a line to a file; and a page is put together   *)
(* from all three (src/api/leadpage_routes.py, src/storage/leadpage_db.py, *)
(* scripts/run_platform_worker.py, src/runs_retention.py).                 *)
(*                                                                         *)
(* A result is the return, the Sharpe ratio, the trades and, as one        *)
(* column, the rest.  All results are of one ticker.                       *)
(***************************************************************************)
EXTENDS RunsRetention, Integers, FiniteSets

CONSTANTS
  Run,        \* names of local backtests, numbers in the order of the names
  PostRun,    \* run ids that providers post
  PassRun,    \* run ids of paper passes
  Prefix,     \* what each of them begins with
  Provider,   \* providers other than "local"
  RunResult,  \* results each local backtest may have
  PostResult, \* results providers may post
  Refused,    \* those the database refuses, as the NaN in a JSON column
  PassReturn, \* returns a pass may report
  Fetch,      \* rows read from the database per row of the page (4 in the code)
  PoolPer,    \* newest rows of the database that are ranked, per row read of it (20),
  PoolMin,    \* and at least (500)
  Grain,      \* units of a return in the last decimal that tells results apart (0.01)
  LineLimit,  \* lines read of the file of passes (2000)
  SyncLimit,  \* directories looked at by a sync (200)
  Submits,    \* whether passes also submit their result (AIMM_LB_ENABLED)
  MaxEvents   \* bound: results posted, runs published by the operator, passes, and
              \* syncs that an error or a restart ends, all together

Unknown == -1000  \* None; as a return or a Sharpe ratio, the least of all
NoRun == 0
Result == PostResult \cup UNION {RunResult[r] : r \in Run}
Id == Run \cup PostRun \cup PassRun

ASSUME LeaderboardConstants ==
  /\ Id \subseteq Nat \ {NoRun} /\ Run \cap (PostRun \cup PassRun) = {} /\ PostRun \cap PassRun = {}
  /\ Prefix \in [Id -> {"bt_", "bt-", "perp_", "other"}] /\ "local" \notin Provider
  /\ RunResult \in [Run -> SUBSET Result]
  /\ Result \subseteq [ret : Int, sharpe : Int, trades : Nat, rest : Int]
  /\ Refused \subseteq Result
  /\ {Fetch, PoolPer, Grain, SyncLimit} \subseteq Nat \ {0}
  /\ {PoolMin, LineLimit, MaxEvents} \subseteq Nat /\ Submits \subseteq BOOLEAN /\ PassReturn \subseteq Int

VARIABLES
  dirs,     \* directories of backtests, the newest first by modification time
  summary,  \* summary.json of each, or NoResult
  rows,     \* table leadpage_results, in the order of its ids
  lines,    \* leadpage/local_scan_results.jsonl
  sync,     \* what the worker and the operator are doing
  clock,    \* seconds: one for every row or line written
  events,   \* those that MaxEvents bounds, so far
  raced     \* history: a run was looked up while the other was inserting it

boardVars == <<dirs, summary, rows, lines, sync, clock, events, raced>>

Blank == [ret |-> Unknown, sharpe |-> Unknown, trades |-> Unknown, rest |-> Unknown]
NoResult == Blank
Publisher == {"worker", "operator"}
Idle == [pc |-> "idle", todo |-> <<>>, result |-> NoResult]

(* A row of the table, a line or a row of the page; meta.summary is the     *)
(* result it was made of.                                                   *)
Row(source, provider, run, ts, res, meta) ==
  [source |-> source, provider |-> provider, run |-> run, ts |-> ts, ret |-> res.ret,
   sharpe |-> res.sharpe, trades |-> res.trades, rest |-> res.rest, meta |-> meta]

IsRow(r) ==
  /\ r.source \in {"local", "external", "none"}
  /\ r.provider \in Provider \cup {"local"} /\ r.run \in Id \cup {NoRun} /\ r.ts \in 0..clock
  /\ r.meta \in Result \cup {NoResult}

BoardTypeOK ==
  /\ Entries(dirs) \subseteq Run /\ Cardinality(Entries(dirs)) = Len(dirs)
  /\ summary \in [Run -> Result \cup {NoResult}]
  /\ \A r \in Run : summary[r] # NoResult => r \in Entries(dirs)
  /\ \A i \in DOMAIN rows : IsRow(rows[i])
  /\ \A i \in DOMAIN lines : IsRow(lines[i]) /\ lines[i].provider = "local"
  /\ \A p \in Publisher : /\ sync[p].pc \in {"idle", "check", "insert"}
                          /\ (sync[p].pc = "idle") = (sync[p].todo = <<>>)
                          /\ (sync[p].pc = "insert") = (sync[p].result # NoResult)
  /\ \A i, j \in DOMAIN rows : i < j => rows[i].ts < rows[j].ts
  /\ raced \in BOOLEAN

BoardInit ==
  /\ dirs = <<>> /\ summary = [r \in Run |-> NoResult]
  /\ rows = <<>> /\ lines = <<>> /\ clock = 0
  /\ sync = [p \in Publisher |-> Idle]
  /\ events = 0
  /\ raced = FALSE

Event == events < MaxEvents /\ events' = events + 1

-----------------------------------------------------------------------------
(* Who writes.                                                              *)

(* A backtest makes its directory, and at its end its summary in it; until  *)
(* then, and while it is being written, there is none to read.  Names are   *)
(* random: one that is still in a row or a list is not drawn again.         *)
StartRun(r) ==
  /\ r \notin Entries(dirs) /\ \A i \in DOMAIN rows : rows[i].run # r
  /\ \A p \in Publisher : r \notin Entries(sync[p].todo)
  /\ dirs' = Touch(dirs, r)
  /\ UNCHANGED <<summary, rows, lines, sync, clock, events, raced>>

FinishRun(r, res) ==
  /\ r \in Entries(dirs) /\ summary[r] = NoResult
  /\ summary' = [summary EXCEPT ![r] = res]
  /\ dirs' = Touch(dirs, r)
  /\ UNCHANGED <<rows, lines, sync, clock, events, raced>>

Insert(row) == rows' = Append(rows, row)

(* A provider posts a result, or posts it again, as after a lost answer.    *)
Post(p, run, res) ==
  /\ Event
  /\ clock' = clock + 1
  /\ Insert(Row("external", p, run, clock + 1, res, NoResult))
  /\ UNCHANGED <<dirs, summary, lines, sync, raced>>

(* What a pass leaves: its account's return, and, when it submits results,  *)
(* the payload with its metrics out of the page's sight.                    *)
ScanLines(run, ret, submits) ==
  LET line == Row("local", "local", run, clock + 1, [Blank EXCEPT !.ret = ret], NoResult)
  IN  IF submits THEN <<line, Row("none", "local", NoRun, 0, Blank, NoResult)>> ELSE <<line>>

(* The end of a pass: its line, then the housekeeping of the backtests.     *)
PassEnds(run, ret, submits) ==
  /\ Event /\ \A i \in DOMAIN lines : lines[i].run # run
  /\ clock' = clock + 1
  /\ lines' = lines \o ScanLines(run, ret, submits)
  /\ LET gone == Evicted(dirs, {}, 0) IN
       /\ dirs' = Without(dirs, gone)
       /\ summary' = [r \in Run |-> IF r \in gone THEN NoResult ELSE summary[r]]
  /\ UNCHANGED <<rows, sync, raced>>

(* The members of a set one after the other, in a strict total order.       *)
Pairs(S) == S \X S
Ranking(S, before) ==
  [k \in 1..Cardinality(S) |->
     CHOOSE x \in S : Cardinality({y \in S : <<y, x>> \in before}) = k - 1]

(* Names of the directories, the last first.                                *)
ByName == Ranking(Entries(dirs), {p \in Pairs(Entries(dirs)) : p[1] > p[2]})

UpTo(s, n) == SubSeq(s, 1, IF n < Len(s) THEN n ELSE Len(s))

(* The worker lists the directories it will look at; the operator names one *)
(* that has a summary.                                                      *)
Lists == UpTo(ByName, SyncLimit)

StartSync ==
  /\ sync["worker"].pc = "idle" /\ dirs # <<>>
  /\ sync' = [sync EXCEPT !["worker"] = [Idle EXCEPT !.pc = "check", !.todo = Lists]]
  /\ UNCHANGED <<dirs, summary, rows, lines, clock, events, raced>>

PublishRun(r) ==
  /\ sync["operator"].pc = "idle" /\ summary[r] # NoResult
  /\ Event
  /\ sync' = [sync EXCEPT !["operator"] = [Idle EXCEPT !.pc = "check", !.todo = <<r>>]]
  /\ UNCHANGED <<dirs, summary, rows, lines, clock, raced>>

Stored(r) == \E i \in DOMAIN rows : rows[i].provider = "local" /\ rows[i].run = r
Skipped(todo) == IF Len(todo) = 1 THEN Idle ELSE [Idle EXCEPT !.pc = "check", !.todo = Tail(todo)]

(* The summary is read, if there still is one, and the table is asked for   *)
(* it; the row is another transaction.                                      *)
LookUp_Unread(p) ==
  LET r == Head(sync[p].todo) IN
  /\ sync[p].pc = "check"
  /\ sync' = [sync EXCEPT ![p] = IF Stored(r) THEN Skipped(@.todo)
                                 ELSE [@ EXCEPT !.pc = "insert", !.result = summary[r]]]
  /\ UNCHANGED <<dirs, summary, rows, lines, clock, events, raced>>

LookUp_Breaks(p) ==
  LET r == Head(sync[p].todo) IN
  /\ sync[p].pc = "check"
  /\ sync' = [sync EXCEPT ![p] = IF summary[r] = NoResult \/ Stored(r) THEN Idle
                                 ELSE [@ EXCEPT !.pc = "insert", !.result = summary[r]]]
  /\ UNCHANGED <<dirs, summary, rows, lines, clock, events, raced>>

LookUp_Unasked(p) ==
  LET r == Head(sync[p].todo) IN
  /\ sync[p].pc = "check"
  /\ sync' = [sync EXCEPT ![p] = IF summary[r] = NoResult THEN Skipped(@.todo)
                                 ELSE [@ EXCEPT !.pc = "insert", !.result = summary[r]]]
  /\ UNCHANGED <<dirs, summary, rows, lines, clock, events, raced>>

LookUp(p) ==
  LET r == Head(sync[p].todo) IN
  /\ sync[p].pc = "check"
  /\ sync' = [sync EXCEPT ![p] = IF summary[r] = NoResult \/ Stored(r) THEN Skipped(@.todo)
                                 ELSE [@ EXCEPT !.pc = "insert", !.result = summary[r]]]
  /\ raced' = (raced \/ \E q \in Publisher \ {p} : sync[q].pc = "insert" /\ Head(sync[q].todo) = r)
  /\ UNCHANGED <<dirs, summary, rows, lines, clock, events>>

InsertLocal(p) ==
  /\ sync[p].pc = "insert" /\ sync[p].result \notin Refused
  /\ clock' = clock + 1
  /\ Insert(Row("external", "local", Head(sync[p].todo), clock + 1,
                [sync[p].result EXCEPT !.rest = Unknown], sync[p].result))
  /\ sync' = [sync EXCEPT ![p] = Skipped(@.todo)]
  /\ UNCHANGED <<dirs, summary, lines, events, raced>>

(* An insert that raises ends the sync, and the turn of the worker; the     *)
(* next one starts over.                                                    *)
InsertRaises(p) ==
  /\ sync[p].pc = "insert" /\ sync[p].result \in Refused
  /\ sync' = [sync EXCEPT ![p] = Idle]
  /\ UNCHANGED <<dirs, summary, rows, lines, clock, events, raced>>

(* So does a fault of the database, or a restart.                           *)
SyncFails(p) ==
  /\ sync[p].pc # "idle"
  /\ Event
  /\ sync' = [sync EXCEPT ![p] = Idle]
  /\ UNCHANGED <<dirs, summary, rows, lines, clock, raced>>

-----------------------------------------------------------------------------
(* What a page shows.                                                       *)

(* Sorted, the better first; equals keep their order.                       *)
Sorted(s, Better(_, _)) ==
  LET before == {p \in Pairs(DOMAIN s) :
                   \/ Better(s[p[1]], s[p[2]])
                   \/ p[1] < p[2] /\ ~Better(s[p[2]], s[p[1]])}
      at == Ranking(DOMAIN s, before)
  IN  [k \in DOMAIN at |-> s[at[k]]]

Reversed(s) == [i \in DOMAIN s |-> s[Len(s) - i + 1]]

ByReturn(r, s) == r.ret > s.ret
ByReturnThenSharpe(r, s) == r.ret > s.ret \/ (r.ret = s.ret /\ r.sharpe > s.sharpe)
ByTime(r, s) == r.ts > s.ts

(* leaderboard_rows: the newest rows of the table, ranked, and cut; the     *)
(* more rows are asked for, the older the ones that are ranked.             *)
Pool(n) == IF PoolPer * n > PoolMin THEN PoolPer * n ELSE PoolMin
Newest(providers, n) ==
  UpTo(Reversed(Chosen(rows, LAMBDA r : r.provider \in providers)), Pool(n))
FromTable(providers, n) == UpTo(Sorted(Newest(providers, n), ByReturn), n)

(* A summary's time is that of its last bar, which is before any row: 0.    *)
DiskRow(r) == Row("local", "local", r, 0, summary[r], summary[r])
FromDisk == LET readable == Chosen(ByName, LAMBDA r : summary[r] # NoResult)
            IN  [i \in DOMAIN readable |-> DiskRow(readable[i])]

Everyone == Provider \cup {"local"}

(* All rows of a page of n: local ones, and the ones of providers, which    *)
(* the table returns together with its local rows unless one is named.      *)
Gathered(local, external, named, n) ==
  (IF local THEN FromTable({"local"}, Fetch * n) \o FromDisk \o UpTo(lines, LineLimit) ELSE <<>>)
  \o
  (IF ~external THEN <<>>
   ELSE IF named = {} THEN Chosen(FromTable(Everyone, Fetch * n), LAMBDA r : r.provider # "local")
   ELSE FromTable(named, Fetch * n))

(* Columns a row lacks are filled in from a result.                         *)
Filled(r, res) ==
  [c \in DOMAIN r |-> IF c \in DOMAIN res /\ r[c] = Unknown THEN res[c] ELSE r[c]]
Enriched(s) == [i \in DOMAIN s |-> Filled(s[i], s[i].meta)]
Overlaid(s) ==
  [i \in DOMAIN s |-> IF s[i].run \in Run THEN Filled(s[i], summary[s[i].run]) ELSE s[i]]

Completeness(r) == Cardinality({c \in DOMAIN Blank : r[c] # Unknown})

(* One row of each key, at the place of the first: a later one takes its    *)
(* place if it is better.  First the places of those rows.                  *)
Merged(key, better, before, n) ==
  LET same == {k \in DOMAIN before : key[before[k]] = key[n]}
  IN  IF same = {} THEN Append(before, n)
      ELSE [k \in DOMAIN before |-> IF k \in same /\ <<n, before[k]>> \in better THEN n ELSE before[k]]

Winners(key, better) ==
  LET kept[n \in 0..Len(key)] == IF n = 0 THEN <<>> ELSE Merged(key, better, kept[n - 1], n)
  IN  kept[Len(key)]

OneEach(s, Key(_), Better(_, _)) ==
  LET at == Winners([i \in DOMAIN s |-> Key(s[i])],
                    {p \in Pairs(DOMAIN s) : Better(s[p[1]], s[p[2]])})
  IN  [k \in DOMAIN at |-> s[at[k]]]

RunKey(r) == <<r.provider, r.run>>
Richer(r, s) ==
  \/ Completeness(r) > Completeness(s)
  \/ Completeness(r) = Completeness(s) /\ s.source # "local" /\ r.source = "local"

(* Rows without a run id come first, and all of them.                       *)
OneEachRun(s) ==
  Chosen(s, LAMBDA r : r.run = NoRun) \o
  OneEach(Chosen(s, LAMBDA r : r.run # NoRun), RunKey, Richer)

(* f"{ret:.2f}": to the nearest hundredth, the even one of two, with the    *)
(* sign of what it was; "?" if there is no return.                          *)
Rounded(ret) ==
  LET down == ret \div Grain
      twice == 2 * (ret % Grain)
  IN  IF twice > Grain \/ (twice = Grain /\ down % 2 = 1) THEN down + 1 ELSE down
RetKey(ret) == <<ret = Unknown, ret < 0, Rounded(ret)>>
Outcome(r) == <<RetKey(r.ret), IF r.trades = Unknown THEN 0 ELSE r.trades>>
Begins(r, prefix) == r.run # NoRun /\ Prefix[r.run] = prefix
Preferred(r, s) ==
  \/ Begins(r, "bt_") /\ ~Begins(s, "bt_")
  \/ /\ Begins(r, "bt_") = Begins(s, "bt_")
     /\ \/ r.ts > s.ts
        \/ r.ts = s.ts /\ Completeness(r) > Completeness(s)

OneEachOutcome(s) == OneEach(s, Outcome, Preferred)

Smoke(r) == Begins(r, "perp_") /\ r.trades \in 0..2

Ranked(s) ==
  Sorted(Overlaid(Chosen(OneEachOutcome(OneEachRun(Enriched(s))), LAMBDA r : ~Smoke(r))),
         ByReturnThenSharpe)

(* GET /leadpage/leaderboard.                                               *)
Page_CutFirst(local, external, named, n) == Ranked(UpTo(Gathered(local, external, named, n), n))
Page(local, external, named, n) == UpTo(Ranked(Gathered(local, external, named, n)), n)

(* GET /leadpage/providers/local/rows: the disk has the last word.          *)
History(n) ==
  LET table == UpTo(Reversed(Chosen(rows, LAMBDA r : r.provider = "local")), n)
      disk == UpTo(FromDisk, n)
  IN  UpTo(Sorted(OneEach(table \o disk, LAMBDA r : r.run, LAMBDA r, s : TRUE), ByTime), n)

-----------------------------------------------------------------------------
BoardNext ==
  \/ \E r \in Run : StartRun(r) \/ PublishRun(r)
  \/ \E r \in Run : \E res \in RunResult[r] : FinishRun(r, res)
  \/ \E p \in Provider, run \in PostRun, res \in PostResult \ Refused : Post(p, run, res)
  \/ \E run \in PassRun, ret \in PassReturn, submits \in Submits : PassEnds(run, ret, submits)
  \/ StartSync
  \/ \E p \in Publisher : LookUp(p) \/ InsertLocal(p) \/ InsertRaises(p) \/ SyncFails(p)

(* The worker's loop never stops.                                           *)
Fairness == WF_boardVars(\/ StartSync \/ LookUp("worker")
                    \/ InsertLocal("worker") \/ InsertRaises("worker"))
BoardSpec == BoardInit /\ [][BoardNext]_boardVars /\ Fairness

-----------------------------------------------------------------------------
(* Room on a page for everything there is.                                  *)
All == 2 * Len(rows) + Len(lines) + Len(dirs)

(* "One visible row per distinct outcome", and one of each run of each      *)
(* provider, on every page, whatever was stored twice.                      *)
PagesShowOnce ==
  \A view \in {<<TRUE, TRUE, {}>>, <<TRUE, FALSE, {}>>} \cup {<<FALSE, TRUE, {p}>> : p \in Provider} :
    LET page == Page(view[1], view[2], view[3], All) IN
    \A i, j \in DOMAIN page : i < j =>
      /\ Outcome(page[i]) # Outcome(page[j])
      /\ page[i].run = NoRun \/ RunKey(page[i]) # RunKey(page[j])

(* "Idempotent insert": a run has one row in the table, unless worker and   *)
(* operator looked it up at the same time.                                  *)
StoredOnce ==
  raced \/ \A i, j \in DOMAIN rows :
             rows[i].provider = "local" /\ rows[j].provider = "local" /\ rows[i].run = rows[j].run => i = j

(* Together: nothing counts twice.                                          *)
CountsOnce == PagesShowOnce /\ StoredOnce

(* Whatever is stored has its outcome on the full page, unless it is a      *)
(* smoke test or a smoke test of the same outcome took its place, the same  *)
(* run has a row with another outcome, or it is past the lines that are     *)
(* read at all.                                                             *)
HiddenForCause ==
  LET shown == {Outcome(r) : r \in Entries(Page(TRUE, TRUE, {}, All))}
      stored == Entries(Enriched(rows \o FromDisk \o UpTo(lines, LineLimit)))
  IN  \A r \in stored :
        \/ Outcome(r) \in shown
        \/ \E s \in stored : Smoke(s) /\ Outcome(s) = Outcome(r)
        \/ \E s \in stored : RunKey(s) = RunKey(r) /\ Outcome(s) # Outcome(r)

(* The rows of the table that are not read for a page of n: others return   *)
(* more, or so many are newer that they are not ranked.                     *)
Unread(n) == Entries(rows) \ Entries(Gathered(TRUE, TRUE, {}, n))

(* A page of n is the top of the full page if everything was read, or n of  *)
(* its rows return more than all that was not, to the hundredth; but not if *)
(* one of those is a more complete result of a run that was read.           *)
PageIsBest ==
  LET full == Page(TRUE, TRUE, {}, All) IN
  \A n \in 1..2 :
    LET read == Gathered(TRUE, TRUE, {}, n)
        ranked == Ranked(read)
        unread == Unread(n)
        sure == {i \in DOMAIN ranked : \A u \in unread : Rounded(u.ret) < Rounded(ranked[i].ret)}
    IN  \/ unread # {} /\ Cardinality(sure) < n
        \/ \E u \in unread, r \in Entries(read) :
             RunKey(u) = RunKey(r) /\ Completeness(u) > Completeness(r)
        \/ Page(TRUE, TRUE, {}, n) = UpTo(full, n)

(* "inner local provider leaderboard matches": a run the local page shows   *)
(* is in the local history, with the same return.                           *)
HistoryHasThePage ==
  LET history == {<<r.run, r.ret>> : r \in Entries(History(All))}
  IN  \A r \in Entries(Page(TRUE, FALSE, {}, All)) :
        r.run \in Run => <<r.run, r.ret>> \in history

(* Together: what is stored is what is shown.                               *)
BestIsShown == HiddenForCause /\ PageIsBest /\ HistoryHasThePage

(* A finished run gets into the table if it stays among the directories the *)
(* worker looks at, and no run before it makes the insert raise.            *)
Listed(r) ==
  LET before == {x \in Entries(dirs) : x > r}
  IN  /\ summary[r] # NoResult /\ Cardinality(before) < SyncLimit
      /\ \A x \in before \cup {r} : summary[x] \notin Refused
EventuallySynced == \A r \in Run : <>[]Listed(r) => <>Stored(r)

=============================================================================
