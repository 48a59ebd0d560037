--------------------------- MODULE CopyExecution ---------------------------
(***************************************************************************)
(* Copying a provider's signals into a paper account: execute_inbox_item   *)
(* of src/api/copy_routes.py with the storage calls it makes               *)
(* (src/storage/leadpage_db.py, src/paper_account.py), run by the worker   *)
(* of scripts/run_platform_worker.py and by the API's POST /copy/execute.  *)
(*                                                                         *)
(* One user and one provider.  Every storage call is a transaction or a    *)
(* file write of its own, so each is a step.  An item buys or sells one    *)
(* unit at price 1 without a fee, or carries an intent that is rejected.   *)
(***************************************************************************)
EXTENDS Naturals, Integers, FiniteSets, Sequences, SequencesExt, FiniteSetsExt

CONSTANTS
  Worker,         \* worker processes
  Api,            \* API requests that may be under way together
  Start,          \* settings.paper.start_usdt
  Limit,          \* unread items read per poll (3 in the worker)
  Window,         \* newest items execute_inbox_item searches (5000)
  Kinds,          \* kinds of item the provider publishes
  MaxItems,       \* bound: items delivered
  MaxUser,        \* bound: changes of the setting, items marked as read and API requests
  MaxFailures     \* bound: storage calls that raise and processes that die

ASSUME CopyConstants ==
  /\ IsFiniteSet(Worker) /\ Worker \cap Api = {}
  /\ Kinds \subseteq {"buy", "sell", "bad"}
  /\ Start \in Nat /\ Limit \in Nat \ {0} /\ Window \in Nat
  /\ \A n \in {MaxItems, MaxUser, MaxFailures} : n \in Nat

VARIABLES
  inbox,      \* kinds of the items delivered, oldest first: leadpage_inbox and the signals' intents
  unread,     \* items with no read_ts
  setting,    \* the leadpage_copy_settings row
  db,         \* the leadpage_paper_accounts row
  trades,     \* rows of leadpage_paper_trades, by item
  executed,   \* items with a leadpage_executions row that says executed
  file,       \* user-<id>.account.json
  proc,       \* each executor
  off,        \* history: trades the workers booked since copying was disabled
  budget      \* items, changes, reads, ... so far

vars == <<inbox, unread, setting, db, trades, executed, file, proc, off, budget>>

Executor == Worker \cup Api
Item == 1..MaxItems
Account == [cash : Nat, qty : Nat]
NoRow == [missing |-> TRUE]

InTry == {"fill", "savefile", "savedb", "tradedb", "mark", "record"}
Idle == [step |-> "idle", queue |-> <<>>, acct |-> [cash |-> Start, qty |-> 0]]

TypeOK ==
  /\ inbox \in Seq(Kinds) /\ Len(inbox) <= MaxItems
  /\ unread \subseteq DOMAIN inbox
  /\ setting \in [enabled : BOOLEAN, auto : BOOLEAN]
  /\ db \in Account \cup {NoRow}
  /\ trades \in [Item -> Nat]
  /\ executed \subseteq Item
  /\ file \in Account \cup {NoRow}
  /\ \A e \in Executor :
       /\ proc[e].step \in {"idle", "poll", "check", "load", "file", "failed"} \cup InTry
       /\ proc[e].acct \in Account
       /\ Len(proc[e].queue) <= Limit /\ Range(proc[e].queue) \subseteq DOMAIN inbox
  /\ off \in Nat

Init ==
  /\ inbox = <<>> /\ unread = {}
  /\ setting = [enabled |-> TRUE, auto |-> TRUE]
  /\ db = NoRow /\ file = NoRow
  /\ trades = [i \in Item |-> 0]
  /\ executed = {}
  /\ proc = [e \in Executor |-> Idle]
  /\ off = 0
  /\ budget = [changes |-> 0, reads |-> 0, requests |-> 0, faults |-> 0, crashes |-> 0]

Spend(kind) == budget' = [budget EXCEPT ![kind] = @ + 1]

UserActs == budget.changes + budget.reads + budget.requests

Interruptions == budget.faults + budget.crashes

-----------------------------------------------------------------------------
(* The user and the fan-out.                                                *)

Deliver ==
  /\ Len(inbox) < MaxItems
  /\ \E k \in Kinds : inbox' = Append(inbox, k)
  /\ unread' = unread \cup {Len(inbox')}
  /\ UNCHANGED <<setting, db, trades, executed, file, proc, off, budget>>

UserMarksRead ==
  /\ UserActs < MaxUser /\ Spend("reads")
  /\ \E i \in unread : unread' = unread \ {i}
  /\ UNCHANGED <<inbox, setting, db, trades, executed, file, proc, off>>

(* upsert_copy_setting.                                                     *)
ChangeSetting ==
  /\ UserActs < MaxUser /\ Spend("changes")
  /\ setting' \in [enabled : BOOLEAN, auto : BOOLEAN]
  /\ off' = IF setting'.enabled # setting.enabled THEN 0 ELSE off
  /\ UNCHANGED <<inbox, unread, db, trades, executed, file, proc>>

-----------------------------------------------------------------------------
(* The executors.                                                           *)

At(e, step) == proc[e].step = step
Cur(e) == Head(proc[e].queue)
Go(e, step) == proc' = [proc EXCEPT ![e].step = step]

(* On to the next item of the poll; the loop (or the request) ends when     *)
(* there is none.                                                           *)
NextItem(e) ==
  proc' = [proc EXCEPT ![e] = IF Len(@.queue) > 1 THEN [Idle EXCEPT !.step = "check", !.queue = Tail(proc[e].queue)]
                                                 ELSE Idle]

(* auto_execute_targets: the pair is a target only with both switches on.   *)
ReadTargets(w) ==
  /\ At(w, "idle")
  /\ Go(w, IF setting.enabled /\ setting.auto THEN "poll" ELSE "idle")
  /\ UNCHANGED <<inbox, unread, setting, db, trades, executed, file, off, budget>>

Polls(w, items) ==
  /\ proc' = [proc EXCEPT ![w] = IF items = <<>> THEN Idle
                                 ELSE [Idle EXCEPT !.step = "check", !.queue = items]]
  /\ UNCHANGED <<inbox, unread, setting, db, trades, executed, file, off, budget>>

OldestFirst_Unlimited(seq, items) ==
  /\ Range(seq) = items
  /\ \A i, j \in DOMAIN seq : i < j => seq[i] < seq[j]

(* seq is the oldest of items, in their order.                              *)
OldestFirst(seq, items) ==
  /\ Len(seq) = Limit \/ (Len(seq) < Limit /\ Range(seq) = items)
  /\ \A i, j \in DOMAIN seq : i < j => seq[i] < seq[j]
  /\ \A x \in items \ Range(seq), y \in Range(seq) : y < x

(* unread_ops_inbox: the oldest unread items.                               *)
Poll(w) ==
  /\ At(w, "poll")
  /\ \E seq \in SeqOf(unread, MaxItems) : OldestFirst(seq, unread) /\ Polls(w, seq)

(* POST /copy/execute: the user names any item of the inbox.                *)
Request(a) ==
  /\ At(a, "idle")
  /\ UserActs < MaxUser /\ Spend("requests")
  /\ \E i \in DOMAIN inbox : proc' = [proc EXCEPT ![a] = [Idle EXCEPT !.step = "check", !.queue = <<i>>]]
  /\ UNCHANGED <<inbox, unread, setting, db, trades, executed, file, off>>

(* The item is searched among the newest ones only.                         *)
Found(e) == Cur(e) > Len(inbox) - Window

(* 404: raised out of execute_inbox_item and swallowed by its caller.       *)
NotFound(e) ==
  /\ At(e, "check") /\ ~Found(e)
  /\ NextItem(e)
  /\ UNCHANGED <<inbox, unread, setting, db, trades, executed, file, off, budget>>

(* Copying is disabled, or the intent is missing or invalid: the row that   *)
(* record_execution adds changes nothing else, and the item stays unread.   *)
Reject(e) ==
  /\ At(e, "check") /\ Found(e)
  /\ inbox[Cur(e)] = "bad" \/ ~setting.enabled
  /\ NextItem(e)
  /\ UNCHANGED <<inbox, unread, setting, db, trades, executed, file, off, budget>>

Accepts(e, allowed) ==
  /\ At(e, "check") /\ Found(e)
  /\ inbox[Cur(e)] # "bad" /\ allowed
  /\ Go(e, "load")
  /\ UNCHANGED <<inbox, unread, setting, db, trades, executed, file, off, budget>>

Accept_Unchecked(e) == Accepts(e, TRUE)

Accept(e) == Accepts(e, setting.enabled)

NewAccount == [cash |-> Start, qty |-> 0]

(* get_or_init_paper_account: the row, made if it is missing.               *)
LoadRow(e) ==
  /\ At(e, "load")
  /\ db' = IF db = NoRow THEN NewAccount ELSE db
  /\ proc' = [proc EXCEPT ![e].acct = db', ![e].step = "file"]
  /\ UNCHANGED <<inbox, unread, setting, trades, executed, file, off, budget>>

(* The account is the row, except that cash 0 is taken for a missing value: *)
(* float(snap.get("cash_usdt") or acct.cash_usdt).  A file that is missing, *)
(* or that another executor is just writing, is made anew.                  *)
LoadFile(e) ==
  /\ At(e, "file")
  /\ \E seen \in {file} \cup {NoRow : x \in {x \in Executor \ {e} : At(x, "savefile")}} :
       file' = IF seen = NoRow THEN NewAccount ELSE file
  /\ proc' = [proc EXCEPT ![e].acct.cash = IF @ = 0 THEN file'.cash ELSE @, ![e].step = "fill"]
  /\ UNCHANGED <<inbox, unread, setting, db, trades, executed, off, budget>>

Fillable(acct, side) == IF side = "buy" THEN acct.cash >= 1 ELSE acct.qty >= 1

Filled_KeepsPosition(acct, side) ==
  IF side = "buy" THEN [cash |-> acct.cash - 1, qty |-> acct.qty + 1]
                  ELSE [cash |-> acct.cash + 1, qty |-> acct.qty]

(* apply_spot_fill at price 1.                                              *)
Filled(acct, side) ==
  IF side = "buy" THEN [cash |-> acct.cash - 1, qty |-> acct.qty + 1]
                  ELSE [cash |-> acct.cash + 1, qty |-> acct.qty - 1]

Fill(e) ==
  /\ At(e, "fill")
  /\ Fillable(proc[e].acct, inbox[Cur(e)])
  /\ proc' = [proc EXCEPT ![e].acct = Filled(@, inbox[Cur(e)]), ![e].step = "savefile"]
  /\ UNCHANGED <<inbox, unread, setting, db, trades, executed, file, off, budget>>

(* "insufficient cash", "insufficient position qty".                        *)
FillRefused(e) ==
  /\ At(e, "fill")
  /\ ~Fillable(proc[e].acct, inbox[Cur(e)])
  /\ Go(e, "failed")
  /\ UNCHANGED <<inbox, unread, setting, db, trades, executed, file, off, budget>>

(* save_account, and the line of the trade file, which nothing here reads.  *)
SaveFile(e) ==
  /\ At(e, "savefile")
  /\ file' = proc[e].acct
  /\ Go(e, "savedb")
  /\ UNCHANGED <<inbox, unread, setting, db, trades, executed, off, budget>>

SavesRow(e, next) ==
  /\ At(e, "savedb")
  /\ db' = proc[e].acct
  /\ Go(e, next)
  /\ UNCHANGED <<inbox, unread, setting, trades, executed, file, off, budget>>

SaveRow(e) == SavesRow(e, "tradedb")

BookTrade(e) ==
  /\ At(e, "tradedb")
  /\ trades' = [trades EXCEPT ![Cur(e)] = @ + 1]
  /\ off' = IF e \in Worker /\ ~setting.enabled THEN off + 1 ELSE off
  /\ Go(e, "mark")
  /\ UNCHANGED <<inbox, unread, setting, db, executed, file, budget>>

Marks(e, still) ==
  /\ At(e, "mark")
  /\ unread' = still
  /\ Go(e, "record")
  /\ UNCHANGED <<inbox, setting, db, trades, executed, file, off, budget>>

MarkRead_Forgotten(e) == Marks(e, unread)

MarkRead(e) == Marks(e, unread \ {Cur(e)})

RecordExecuted(e) ==
  /\ At(e, "record")
  /\ executed' = executed \cup {Cur(e)}
  /\ NextItem(e)
  /\ UNCHANGED <<inbox, unread, setting, db, trades, file, off, budget>>

FailsWith(e, still) ==
  /\ At(e, "failed")
  /\ NextItem(e)
  /\ unread' = still
  /\ UNCHANGED <<inbox, setting, db, trades, executed, file, off, budget>>

RecordFailed_MarksRead(e) == FailsWith(e, unread \ {Cur(e)})

(* The except clause: the failure is executed, the item stays unread.       *)
RecordFailed(e) == FailsWith(e, unread)

(* A storage call raises: inside the try it is recorded as a failure,       *)
(* before it the caller of execute_inbox_item swallows it.                  *)
Fault(e) ==
  /\ proc[e].step \in {"poll", "check", "load", "file"} \cup InTry
  /\ Interruptions < MaxFailures /\ Spend("faults")
  /\ IF proc[e].step \in InTry THEN Go(e, "failed") ELSE NextItem(e)
  /\ UNCHANGED <<inbox, unread, setting, db, trades, executed, file, off>>

(* The process dies: what it was writing to the file may be left cut short, *)
(* which load_or_init_account treats as no file.                            *)
Crash(e) ==
  /\ proc[e].step # "idle"
  /\ Interruptions < MaxFailures /\ Spend("crashes")
  /\ proc' = [proc EXCEPT ![e] = Idle]
  /\ file' \in {file} \cup (IF At(e, "savefile") THEN {NoRow} ELSE {})
  /\ UNCHANGED <<inbox, unread, setting, db, trades, executed, off>>

Execute(e) ==
  \/ NotFound(e) \/ Reject(e) \/ Accept(e) \/ LoadRow(e) \/ LoadFile(e)
  \/ Fill(e) \/ FillRefused(e) \/ SaveFile(e) \/ SaveRow(e) \/ BookTrade(e)
  \/ MarkRead(e) \/ RecordExecuted(e) \/ RecordFailed(e)

Loop(w) == ReadTargets(w) \/ Poll(w) \/ Execute(w)

Next ==
  \/ Deliver \/ UserMarksRead \/ ChangeSetting
  \/ \E w \in Worker : Loop(w)
  \/ \E a \in Api : Request(a) \/ Execute(a)
  \/ \E e \in Executor : Fault(e) \/ Crash(e)

Spec == Init /\ [][Next]_vars

(* The worker's loop never stops.                                           *)
FairSpec == Spec /\ \A w \in Worker : WF_vars(Loop(w))

-----------------------------------------------------------------------------
(* Whatever fails, dies or runs at the same time, an execution reported as  *)
(* "executed" has a trade in the ledger and is off the unread list.         *)
ExecutedIsBooked ==
  \A i \in executed : trades[i] > 0 /\ i \notin unread

(* The worker books an item again only after it was interrupted, and once   *)
(* per interruption: without any, at most once, although nothing but the    *)
(* read mark, written last, says an item is done.  (A request may execute   *)
(* what was executed before.)                                               *)
Repeats == SumFunctionOnSet([i \in Item |-> IF trades[i] > 1 THEN trades[i] - 1 ELSE 0], Item)

RepeatsOnlyAfterInterruption == budget.requests = 0 => Repeats <= Interruptions

(* Together: executions, inbox and trades tell the same story.              *)
ExecutionsAreBooked == ExecutedIsBooked /\ RepeatsOnlyAfterInterruption

Side(i) == IF inbox[i] = "buy" THEN 1 ELSE -1

NetBought ==
  SumFunctionOnSet([i \in Item |-> IF i \in DOMAIN inbox THEN Side(i) * trades[i] ELSE 0], Item)

Position == IF db = NoRow THEN 0 ELSE db.qty

(* When nobody is between the two writes and no request ran beside the      *)
(* worker, the position of the account is what its trades add up to, give   *)
(* or take one trade per interruption.                                      *)
TradesExplainPosition ==
  (budget.requests = 0 /\ \A e \in Executor : ~At(e, "tradedb")) =>
    /\ Position - NetBought <= Interruptions
    /\ NetBought - Position <= Interruptions

(* "DB-backed paper account snapshot (single source of truth in             *)
(* production)": at price 1 and without fees, no execution makes or loses   *)
(* money.                                                                   *)
Conserved == db # NoRow => db.cash + db.qty = Start

(* It holds for one worker that nothing interrupts.                         *)
ConservedUndisturbed == (Interruptions = 0 /\ budget.requests = 0) => Conserved

(* Together: the account is explained by its trades.                        *)
AccountIsExplained == TradesExplainPosition /\ ConservedUndisturbed

(* Switching copying off stops the worker: only the item it is executing    *)
(* may still be booked.                                                     *)
DisablingStops == off <= Cardinality(Worker)

(* An item no poll can get rid of: its intent is rejected, its fill is      *)
(* refused or it is beyond the newest items.                                *)
Stuck(i) ==
  \/ inbox[i] = "bad"
  \/ db # NoRow /\ ~Fillable(db, inbox[i])
  \/ i <= Len(inbox) - Window

(* Every item is executed in the end, however often an execution fails or   *)
(* the worker dies, unless it is stuck, the unread stuck items fill a whole *)
(* poll, copying is switched off or the user marked an item as read.        *)
EventuallyBooked ==
  <>[]( /\ setting.enabled /\ setting.auto /\ budget.reads = 0
        /\ Cardinality({i \in unread : Stuck(i)}) < Limit
        => \A i \in DOMAIN inbox : Stuck(i) \/ trades[i] > 0)

=============================================================================
