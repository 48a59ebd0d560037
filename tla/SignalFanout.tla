---------------------------- MODULE SignalFanout ----------------------------
(***************************************************************************)
(* Publishing, following and fan-out of signals: insert_signal,            *)
(* follow_provider, unfollow_provider and fanout_new_signals of            *)
(* src/storage/leadpage_db.py, and the loop of                             *)
(* scripts/run_platform_worker.py that runs the fan-out, over PostgreSQL   *)
(* at its default isolation (each statement reads what is committed).      *)
(*                                                                         *)
(* One provider, whose followers are the users.  A worker's pass is one    *)
(* database transaction: it reads the cursor, reads a batch of signals,    *)
(* and for each signal reads the followers and inserts one inbox item      *)
(* each.  A failing insert rolls back the whole transaction, is swallowed, *)
(* and the pass goes on.                                                   *)
(***************************************************************************)
EXTENDS Naturals, FiniteSets, Sequences, SequencesExt

CONSTANTS
  User,         \* possible followers
  Worker,       \* worker processes sharing one cursor
  InitFollows,  \* the followers at the start
  FollowRank,   \* the order in which the database returns followers
  MaxSignal,    \* bound: signals published
  Batch,        \* PLATFORM_WORKER_BATCH
  OrderedIds,   \* TRUE if ids are committed in the order they are drawn
  MaxChanges,   \* bound: follows and unfollows
  MaxErrors,    \* bound: inserts that fail for a reason other than a duplicate
  MaxCrashes    \* bound: passes that die or are aborted

ASSUME FanoutConstants ==
  /\ InitFollows \subseteq User
  /\ IsFiniteSet(User) /\ FollowRank \in [User -> Nat]
  /\ \A u, v \in User : FollowRank[u] = FollowRank[v] => u = v
  /\ MaxSignal \in Nat /\ Batch \in Nat \ {0}
  /\ OrderedIds \in BOOLEAN
  /\ MaxChanges \in Nat /\ MaxErrors \in Nat /\ MaxCrashes \in Nat

VARIABLES
  drawn,    \* ids the sequence of leadpage_signals has handed out
  signals,  \* committed signals
  follows,  \* committed rows of leadpage_follows
  inbox,    \* committed rows of leadpage_inbox: <<user, signal>>
  cursor,   \* committed last_signal_id of the cursor row
  pass,     \* the transaction of each worker
  owed,     \* history: <<user, signal>> with user following when signal was committed
  budget    \* changes, errors and crashes so far

vars == <<drawn, signals, follows, inbox, cursor, pass, owed, budget>>

SignalId == 1..MaxSignal

NoPass == [step |-> "idle", cur |-> 0, dirty |-> FALSE, sigs |-> <<>>, users |-> <<>>, items |-> {}]

TypeOK ==
  /\ drawn \in 0..MaxSignal
  /\ signals \subseteq SignalId
  /\ follows \subseteq User
  /\ inbox \subseteq User \X SignalId
  /\ cursor \in 0..MaxSignal
  /\ \A w \in Worker :
       /\ pass[w].step \in {"idle", "read", "signal", "users", "commit"}
       /\ pass[w].cur \in 0..MaxSignal /\ pass[w].dirty \in BOOLEAN
       /\ Len(pass[w].sigs) <= Batch /\ Range(pass[w].sigs) \subseteq SignalId
       /\ Range(pass[w].users) \subseteq User
       /\ pass[w].items \subseteq User \X SignalId
  /\ owed \subseteq User \X SignalId
  /\ budget \in [changes : 0..MaxChanges, errors : 0..MaxErrors, crashes : 0..MaxCrashes]

Init ==
  /\ drawn = 0 /\ signals = {} /\ follows = InitFollows
  /\ inbox = {} /\ cursor = 0 /\ owed = {}
  /\ pass = [w \in Worker |-> NoPass]
  /\ budget = [changes |-> 0, errors |-> 0, crashes |-> 0]

-----------------------------------------------------------------------------
(* Publishers and followers: each request is its own transaction.           *)

(* insert_signal draws the id; the commit that makes it visible comes       *)
(* later, and nothing orders the commits of two publishers.                 *)
DrawId ==
  /\ drawn < MaxSignal
  /\ OrderedIds => drawn \in signals \cup {0}
  /\ drawn' = drawn + 1
  /\ UNCHANGED <<signals, follows, inbox, cursor, pass, owed, budget>>

Publish ==
  \E id \in (1..drawn) \ signals :
    /\ signals' = signals \cup {id}
    /\ owed' = owed \cup (follows \X {id})
    /\ UNCHANGED <<drawn, follows, inbox, cursor, pass, budget>>

Change ==
  /\ budget.changes < MaxChanges
  /\ budget' = [budget EXCEPT !.changes = @ + 1]
  /\ UNCHANGED <<drawn, signals, inbox, cursor, pass>>

(* follow_provider: following twice breaks the unique constraint, which is  *)
(* swallowed.                                                               *)
Follow == Change /\ UNCHANGED owed /\ \E u \in User : follows' = follows \cup {u}

Unfollow ==
  /\ Change
  /\ \E u \in follows : follows' = follows \ {u} /\ owed' = {o \in owed : o[1] # u}

-----------------------------------------------------------------------------
(* fanout_new_signals, run again and again by the loop of the worker.       *)

Step(w, new) ==
  /\ pass' = [pass EXCEPT ![w] = new]
  /\ UNCHANGED <<drawn, signals, follows, owed>>

(* Session, _get_cursor: last_id is read once per pass.                     *)
ReadCursor(w) ==
  /\ pass[w].step = "idle"
  /\ Step(w, [NoPass EXCEPT !.step = "read", !.cur = cursor])
  /\ UNCHANGED <<inbox, cursor, budget>>

NewSignals_OffByOne(w) == {id \in signals : id > pass[w].cur + 1}

NewSignals(w) == {id \in signals : id > pass[w].cur}

Starts(w, sigs) ==
  /\ Step(w, IF sigs = <<>> THEN NoPass ELSE [pass[w] EXCEPT !.step = "signal", !.sigs = sigs])
  /\ UNCHANGED <<inbox, cursor, budget>>

Ascending(ids) == \A i, j \in DOMAIN ids : i < j => ids[i] < ids[j]

FirstOf_Unlimited(ids, set) == Ascending(ids) /\ Range(ids) = set

(* The first of a set of ids, in order, no more than the batch.             *)
FirstOf(ids, set) ==
  /\ Ascending(ids)
  /\ Len(ids) = Batch \/ (Len(ids) < Batch /\ Range(ids) = set)
  /\ \A i \in Range(ids), later \in set \ Range(ids) : i < later

(* A pass that finds nothing returns.                                       *)
ReadBatch(w) ==
  /\ pass[w].step = "read"
  /\ \E sigs \in SeqOf(NewSignals(w), MaxSignal) : FirstOf(sigs, NewSignals(w)) /\ Starts(w, sigs)

(* The followers of the next signal, read when its turn comes.              *)
ReadFollowers(w) ==
  /\ pass[w].step = "signal"
  /\ \E users \in SeqOf(follows, Cardinality(User)) :
       /\ Range(users) = follows
       /\ \A i, j \in DOMAIN users : i < j => FollowRank[users[i]] < FollowRank[users[j]]
       /\ Step(w, [pass[w] EXCEPT !.step = "users", !.users = users])
  /\ UNCHANGED <<inbox, cursor, budget>>

Item(w) == <<Head(pass[w].users), Head(pass[w].sigs)>>

Inserting(w) == pass[w].step = "users" /\ pass[w].users # <<>>

(* An uncommitted row with the same unique key makes the insert wait.       *)
Locked(w) == \E x \in Worker \ {w} : Item(w) \in pass[x].items

InsertItem(w) ==
  /\ Inserting(w) /\ ~Locked(w)
  /\ Item(w) \notin inbox
  /\ Step(w, [pass[w] EXCEPT !.users = Tail(@), !.items = @ \cup {Item(w)}])
  /\ UNCHANGED <<inbox, cursor, budget>>

(* The except clause: roll back, begin again, read the cursor row again and *)
(* go on with the next follower.                                            *)
RolledBack(w) == [pass[w] EXCEPT !.users = Tail(@), !.items = {},
                                 !.cur = cursor, !.dirty = FALSE]

InsertDuplicate(w) ==
  /\ Inserting(w) /\ ~Locked(w)
  /\ Item(w) \in inbox
  /\ Step(w, RolledBack(w))
  /\ UNCHANGED <<inbox, cursor, budget>>

(* The insert fails otherwise: the same clause catches it.                  *)
InsertFails(w) ==
  /\ Inserting(w)
  /\ budget.errors < MaxErrors
  /\ budget' = [budget EXCEPT !.errors = @ + 1]
  /\ Step(w, RolledBack(w))
  /\ UNCHANGED <<inbox, cursor>>

Passed(w) ==
  /\ pass[w].step = "users" /\ pass[w].users = <<>>
  /\ LET id == Head(pass[w].sigs)
     IN  Step(w, [pass[w] EXCEPT !.dirty = @ \/ pass[w].cur # id, !.cur = id, !.sigs = Tail(@),
                                !.step = IF Len(pass[w].sigs) = 1 THEN "commit" ELSE "signal"])

SignalDone_CursorCommitted(w) ==
  /\ Passed(w)
  /\ cursor' = Head(pass[w].sigs)
  /\ UNCHANGED <<inbox, budget>>

(* The cursor moves past the signal, in the transaction.                    *)
SignalDone(w) == Passed(w) /\ UNCHANGED <<inbox, cursor, budget>>

(* Items and cursor become visible together; an unchanged cursor is not     *)
(* written.                                                                 *)
CommitPass(w) ==
  /\ pass[w].step = "commit"
  /\ inbox' = inbox \cup pass[w].items
  /\ cursor' = IF pass[w].dirty THEN pass[w].cur ELSE cursor
  /\ Step(w, NoPass)
  /\ UNCHANGED budget

(* The worker dies, or a statement outside the try raises: the database     *)
(* drops the transaction and the loop starts a new pass.                    *)
PassDies(w) ==
  /\ pass[w].step # "idle"
  /\ budget.crashes < MaxCrashes
  /\ budget' = [budget EXCEPT !.crashes = @ + 1]
  /\ Step(w, NoPass)
  /\ UNCHANGED <<inbox, cursor>>

WorkerStep(w) ==
  \/ ReadCursor(w) \/ ReadBatch(w) \/ ReadFollowers(w)
  \/ InsertItem(w) \/ InsertDuplicate(w) \/ SignalDone(w) \/ CommitPass(w)

Next ==
  \/ DrawId \/ Publish \/ Follow \/ Unfollow
  \/ \E w \in Worker : WorkerStep(w) \/ InsertFails(w) \/ PassDies(w)

Spec == Init /\ [][Next]_vars

(* The loop never stops, and a transaction that has drawn an id commits.    *)
FairSpec == Spec /\ WF_vars(Publish) /\ \A w \in Worker : WF_vars(WorkerStep(w))

-----------------------------------------------------------------------------
(* "Fan out newly published signals into follower inboxes": whoever        *)
(* followed when a signal became visible, and still does, has it once the   *)
(* cursor is past it.                                                       *)
NothingSkipped == \A o \in owed : o[2] <= cursor => o \in inbox

(* A crash, a retry, a second worker whose duplicates roll the pass back or *)
(* a follow in the middle of a pass loses nothing; only an insert that      *)
(* fails for another reason does.                                           *)
OnlyErrorsSkip == budget.errors = 0 => NothingSkipped

(* An inbox receives the signals it is owed in the order of their ids:      *)
(* whoever sees one has every earlier one, whichever worker brought it, if  *)
(* no insert failed.                                                        *)
InOrder ==
  budget.errors = 0 =>
    \A o, p \in owed : (o[1] = p[1] /\ p[2] < o[2] /\ o \in inbox) => p \in inbox

(* Together: nothing but a failing insert loses or overtakes a signal.      *)
LosesNothing == OnlyErrorsSkip /\ InOrder

(* The fan-out never gets stuck on a signal: whatever inserts fail, passes  *)
(* die or slower workers write an older cursor, once publishing stops the   *)
(* cursor comes to stay past every signal.                                  *)
CursorSettles == <>[](\A id \in signals : cursor >= id)

(* And by then whoever followed when a signal was published, and still      *)
(* does, has it, unless an insert failed.                                   *)
EventuallyDelivered == <>[](budget.errors = 0 => owed \subseteq inbox)

(* Together: the fan-out catches up with its publishers.                    *)
CatchesUp == CursorSettles /\ EventuallyDelivered

=============================================================================
