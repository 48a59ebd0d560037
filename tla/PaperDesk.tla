------------------------------ MODULE PaperDesk -----------------------------
(***************************************************************************)
(* The live paper desk: the loop that runs one pass of src/main.py after   *)
(* another, the paper account those passes trade on (the file and trade    *)
(* log of src/paper_account.py, filled by src/adapters/nexus_adapter.py),  *)
(* the API handlers that start and stop the loop and show or reset the     *)
(* book (src/api/engine_routes.py), and the housekeeping at the end of     *)
(* every pass.  They are separate processes that share files, no locks.    *)
(*                                                                         *)
(* A fill is a number; an account is the set of its fills, their           *)
(* arithmetic is in PaperFill.  Start and stop requests come one at a time *)
(* and are one step each: PaperEngine has their steps, and shows that they *)
(* then leave one loop at most.                                            *)
(***************************************************************************)
EXTENDS RunsRetention, Integers, FiniteSets

CONSTANTS
  Pid,       \* loops
  Bulk,      \* disk use of the backtests, which are not candidates
  MaxFills,  \* bound: orders filled
  MaxRuns,   \* bound: passes
  MaxFaults, \* bound: loops that die on their own, leaving their pass behind
  MaxResets  \* bound: resets of the book

ASSUME DeskConstants ==
  /\ IsFiniteSet(Pid) /\ Pid \cap {"none", "view", "reset"} = {}
  /\ Bulk \in Nat
  /\ MaxFills \in Nat /\ MaxRuns \in Nat /\ MaxFaults \in Nat /\ MaxResets \in Nat

VARIABLES
  loops,    \* the loops that are alive
  pidFile,  \* paper_engine.pid
  hand,     \* what each pass (by its loop) and the two API handlers are doing
  acct,     \* paper/default.account.json: absent, torn, or its fills
  log,      \* paper/default.trades.jsonl: its fills
  root,     \* entries of .runs, newest first: the account, the PID file, runs
  count,    \* fills, passes, faults and resets so far
  truth,    \* history: the fills answered "booked" since the last reset
  harm,     \* history: what has happened that loses fills, or a loop
  dropped   \* history: fills whose log entry was deleted

vars == <<loops, pidFile, hand, acct, log, root, count, truth, harm, dropped>>

NoPid == "none"
Absent == {0}   \* no file; fills are numbered from 1
Torn == {-1}    \* a file that cannot be parsed
PaperDir == -1  \* entries of .runs; runs are numbered from 1
PidEntry == -2
Writer == Pid \cup {"view", "reset"}
Fill == 1..MaxFills

Readable == acct \notin {Absent, Torn}

Off == [pc |-> "off", got |-> {}, base |-> {}, fill |-> 0, init |-> FALSE, run |-> 0]

Content == (SUBSET Fill) \cup {Absent, Torn}

Hand == [pc : {"off", "ready", "append", "truncate", "write", "unlink"},
         got : SUBSET Fill, base : Content, fill : 0..MaxFills,
         init : BOOLEAN, run : 0..MaxRuns]

StateTypeOK ==
  /\ loops \subseteq Pid /\ pidFile \in Pid \cup {NoPid}
  /\ hand \in [Writer -> Hand]
  /\ acct \in Content /\ log \subseteq Fill
  /\ count \in [fills : 0..MaxFills, runs : 0..MaxRuns, faults : 0..MaxFaults,
                resets : 0..MaxResets]
  /\ truth \subseteq Fill /\ dropped \subseteq Fill
  /\ harm \subseteq {"cut", "unreadable", "overlap", "evicted", "untracked"}

RootTypeOK ==
  /\ Entries(root) \subseteq {PaperDir, PidEntry} \cup 1..MaxRuns
  /\ Cardinality(Entries(root)) = Len(root)
  /\ (pidFile # NoPid) = (PidEntry \in Entries(root))
  /\ (acct # Absent \/ log # {}) => PaperDir \in Entries(root)

TypeOK == StateTypeOK /\ RootTypeOK

Init ==
  /\ loops = {} /\ pidFile = NoPid
  /\ hand = [w \in Writer |-> Off]
  /\ acct = Absent /\ log = {} /\ root = <<>>
  /\ count = [fills |-> 0, runs |-> 0, faults |-> 0, resets |-> 0]
  /\ truth = {} /\ harm = {} /\ dropped = {}

At(w, pc) == hand[w].pc = pc
Go(w, pc) == hand' = [hand EXCEPT ![w].pc = pc]
Rest(w) == IF w \in Pid THEN "ready" ELSE "off"
Harmed(kind, if) == harm' = IF if THEN harm \cup {kind} ELSE harm

(* Creating a file in paper/, or deleting one, touches the directory;       *)
(* writing to one that is there does not.                                   *)
TouchPaper(if) == root' = IF if THEN Touch(root, PaperDir) ELSE root

-----------------------------------------------------------------------------
(* The account file.                                                        *)

(* load_or_init_account: an absent or unreadable file makes a new account,  *)
(* to be saved over it, before whatever the caller loaded it for: an order  *)
(* (fill) or a look at the book (0).                                        *)
Load_Blind(w, fill) ==
  /\ hand' = [hand EXCEPT ![w].pc = IF fill = 0 THEN Rest(w) ELSE "append", ![w].got = {},
                          ![w].base = acct, ![w].fill = fill, ![w].init = FALSE]
  /\ UNCHANGED harm

Load_Trusting(w, fill) ==
  /\ hand' = [hand EXCEPT ![w].pc = IF fill = 0 THEN Rest(w) ELSE "append", ![w].got = acct,
                          ![w].base = acct, ![w].fill = fill, ![w].init = FALSE]
  /\ UNCHANGED harm

Load(w, fill) ==
  /\ hand' = [hand EXCEPT ![w].pc = IF ~Readable THEN "truncate" ELSE IF fill = 0 THEN Rest(w) ELSE "append",
                          ![w].got = IF Readable THEN acct ELSE {},
                          ![w].base = acct, ![w].fill = fill, ![w].init = ~Readable]
  /\ Harmed("unreadable", acct = Torn \/ (acct = Absent /\ truth # {}))

(* place_smart_order appends the trade of a fill to the log ...             *)
Append_Skipped(w) ==
  /\ At(w, "append")
  /\ hand' = [hand EXCEPT ![w].pc = "truncate", ![w].got = @ \cup {hand[w].fill}, ![w].init = FALSE]
  /\ UNCHANGED <<loops, pidFile, acct, log, root, count, truth, harm, dropped>>

AppendTrade(w) ==
  /\ At(w, "append")
  /\ log' = log \cup {hand[w].fill}
  /\ TouchPaper(log = {})
  /\ hand' = [hand EXCEPT ![w].pc = "truncate", ![w].got = @ \cup {hand[w].fill}, ![w].init = FALSE]
  /\ UNCHANGED <<loops, pidFile, acct, count, truth, harm, dropped>>

(* ... and save_account truncates the file and writes it.  Saving over an   *)
(* account that has changed since it was loaded loses the change.           *)
Truncate(w) ==
  /\ At(w, "truncate")
  /\ acct' = Torn /\ Go(w, "write")
  /\ TouchPaper(acct = Absent)
  /\ Harmed("overlap", acct # hand[w].base)
  /\ UNCHANGED <<loops, pidFile, log, count, truth, dropped>>

(* Two that write at once leave one of the contents, or the longer one's    *)
(* tail after the shorter; a write to a file deleted meanwhile is lost.     *)
AfterWrite(w) ==
  CASE acct = Absent -> {Absent}
    [] acct = Torn /\ "evicted" \notin harm -> {hand[w].got}
    [] OTHER -> {hand[w].got, Torn}

Write(w) ==
  /\ At(w, "write")
  /\ acct' \in AfterWrite(w)
  /\ IF hand[w].init
     THEN /\ hand' = [hand EXCEPT ![w].pc = IF hand[w].fill # 0 THEN "append" ELSE Rest(w),
                                  ![w].base = hand[w].got]
          /\ UNCHANGED truth
     ELSE /\ hand' = [hand EXCEPT ![w].pc = IF w = "reset" THEN "unlink" ELSE "ready", ![w].fill = 0]
          /\ truth' = IF w = "reset" THEN {} ELSE truth \cup {hand[w].fill}
  /\ Harmed("evicted", acct = Absent)
  /\ UNCHANGED <<loops, pidFile, log, root, count, dropped>>

-----------------------------------------------------------------------------
(* The passes.                                                              *)

(* A loop runs main.py: the run has its event log.                          *)
StartPass(p) ==
  /\ p \in loops /\ At(p, "off") /\ count.runs < MaxRuns
  /\ count' = [count EXCEPT !.runs = @ + 1]
  /\ hand' = [hand EXCEPT ![p] = [Off EXCEPT !.pc = "ready", !.run = count.runs + 1]]
  /\ root' = Touch(root, count.runs + 1)
  /\ UNCHANGED <<loops, pidFile, acct, log, truth, harm, dropped>>

(* get_portfolio_health.                                                    *)
Look(p) ==
  /\ At(p, "ready")
  /\ Load(p, 0)
  /\ UNCHANGED <<loops, pidFile, acct, log, root, count, truth, dropped>>

(* place_smart_order loads the account and fills the order; a fill it       *)
(* refuses changes nothing more.                                            *)
Order(p) ==
  /\ At(p, "ready") /\ count.fills < MaxFills
  /\ Load(p, count.fills + 1)
  /\ count' = [count EXCEPT !.fills = @ + 1]
  /\ UNCHANGED <<loops, pidFile, acct, log, root, truth, dropped>>

(* The pass ends, well or not: its last event is written, and housekeeping  *)
(* deletes entries of .runs other than its own.  One step: the scan and the *)
(* deletions.                                                               *)
EndPass(p) ==
  /\ At(p, "ready")
  /\ LET now == Touch(root, hand[p].run)
         gone == Evicted(now, {hand[p].run}, Bulk)
     IN  /\ root' = Without(now, gone)
         /\ pidFile' = IF PidEntry \in gone THEN NoPid ELSE pidFile
         /\ acct' = IF PaperDir \in gone THEN Absent ELSE acct
         /\ log' = IF PaperDir \in gone THEN {} ELSE log
         /\ dropped' = IF PaperDir \in gone THEN dropped \cup log ELSE dropped
         /\ harm' = harm \cup {h \in {"evicted"} : PaperDir \in gone}
                        \cup {h \in {"untracked"} : PidEntry \in gone}
  /\ hand' = [hand EXCEPT ![p] = Off]
  /\ UNCHANGED <<loops, count, truth>>

-----------------------------------------------------------------------------
(* The API.                                                                 *)

(* A start is refused when the PID file names a loop that is alive.         *)
Start_Unchecked(p) ==
  /\ p \notin loops /\ At(p, "off")
  /\ loops' = loops \cup {p} /\ pidFile' = p
  /\ root' = Touch(root, PidEntry)
  /\ UNCHANGED <<hand, acct, log, count, truth, harm, dropped>>

Start(p) ==
  /\ pidFile \notin loops
  /\ p \notin loops /\ At(p, "off")
  /\ loops' = loops \cup {p} /\ pidFile' = p
  /\ root' = Touch(root, PidEntry)
  /\ UNCHANGED <<hand, acct, log, count, truth, harm, dropped>>

(* A stop kills the process group: the loop and its pass, wherever it is.   *)
Stop ==
  /\ pidFile \in loops
  /\ loops' = loops \ {pidFile} /\ pidFile' = NoPid
  /\ hand' = [hand EXCEPT ![pidFile] = Off]
  /\ root' = Without(root, {PidEntry})
  /\ Harmed("cut", hand[pidFile].pc = "write")
  /\ UNCHANGED <<acct, log, count, truth, dropped>>

(* The loop alone dies; its pass goes on to its end.                        *)
LoopDies(p) ==
  /\ p \in loops /\ count.faults < MaxFaults
  /\ loops' = loops \ {p}
  /\ count' = [count EXCEPT !.faults = @ + 1]
  /\ UNCHANGED <<pidFile, hand, acct, log, root, truth, harm, dropped>>

(* GET /engine/paper/book: looking at a readable book changes nothing.      *)
View ==
  /\ At("view", "off")
  /\ IF Readable THEN UNCHANGED vars
     ELSE /\ Load("view", 0)
          /\ UNCHANGED <<loops, pidFile, acct, log, root, count, truth, dropped>>

(* POST /engine/paper/book/reset: save a new account, whatever the file is, *)
(* then delete the log.                                                     *)
Reset ==
  /\ At("reset", "off") /\ count.resets < MaxResets
  /\ count' = [count EXCEPT !.resets = @ + 1]
  /\ acct' = Torn /\ Go("reset", "write")
  /\ TouchPaper(acct = Absent)
  /\ Harmed("overlap", acct = Torn)
  /\ UNCHANGED <<loops, pidFile, log, truth, dropped>>

Unlink ==
  /\ At("reset", "unlink")
  /\ log' = {} /\ dropped' = dropped \cup log
  /\ TouchPaper(log # {})
  /\ Go("reset", "off")
  /\ UNCHANGED <<loops, pidFile, acct, count, truth, harm>>

Next ==
  \/ \E p \in Pid : StartPass(p) \/ Look(p) \/ Order(p) \/ EndPass(p) \/ Start(p) \/ LoopDies(p)
  \/ \E w \in Writer : AppendTrade(w) \/ Truncate(w) \/ Write(w)
  \/ Stop \/ View \/ Reset \/ Unlink

Spec == Init /\ [][Next]_vars

-----------------------------------------------------------------------------
(* The account has every fill that an order was answered "booked" for since *)
(* the book was last reset, unless one of four things has happened: a stop  *)
(* between the truncation and the write, a reader that found the file torn  *)
(* or gone and saved a new account, two that saved what they had loaded     *)
(* before the other's save, or housekeeping that deleted the directory.     *)
LossesAreExplained ==
  harm \subseteq {"untracked"} /\ (\A w \in Writer : ~At(w, "write")) =>
    acct = truth \/ (acct = Absent /\ truth = {})

(* Whatever is killed, torn or overlaps, the log has every booked fill, so  *)
(* that the book can be put together again: but for the entries a reset or  *)
(* housekeeping deleted.                                                    *)
LogKnowsTheRest == truth \subseteq log \cup dropped

(* Two loops are alive only when housekeeping deleted the PID file of one;  *)
(* two passes trade at once only then, or when a loop died without its pass. *)
OneDesk ==
  /\ Cardinality(loops) <= 1 \/ "untracked" \in harm
  /\ Cardinality({p \in Pid : ~At(p, "off")}) <= 1 \/ "untracked" \in harm \/ count.faults > 0

=============================================================================
