---------------------------- MODULE BacktestJobs ----------------------------
(***************************************************************************)
(* The status of an asynchronous backtest, src/api/backtest_routes.py: the *)
(* daemon thread that runs the job, the copy each server process keeps in  *)
(* BACKTEST_JOBS, the job.json they share, the polls that read one or the  *)
(* other and fail a job that looks stale, and the recovery at start-up.    *)
(* The API image runs two server processes (Dockerfile.api).               *)
(*                                                                         *)
(* One job.  Every assignment to BACKTEST_JOBS and every write of job.json *)
(* is a step, so the writers interleave as threads and processes do.       *)
(***************************************************************************)
EXTENDS Naturals, FiniteSets

CONSTANTS
  Server,          \* server processes
  Owner,           \* the one that took the POST and runs the thread
  Client,          \* clients that poll the job or read its stream
  JobBars,         \* bars of the backtest
  MayHang,         \* TRUE if the thread may block for ever (an LLM call)
  MaxFailures      \* bound: server processes that die and writes of job.json that raise

ASSUME JobConstants ==
  /\ Owner \in Server /\ Client \cap Server = {}
  /\ JobBars \in Nat /\ MayHang \in BOOLEAN
  /\ MaxFailures \in Nat

VARIABLES
  disk,     \* job.json
  mem,      \* BACKTEST_JOBS[run_id] in each process
  up,       \* "down", "starting" (before the recovery has ended), "up"
  thread,   \* the daemon thread and the write it is doing
  act,      \* the poll of each client, with the process it asked last, and
            \* the start-up of each server
  seen,     \* the last answer each client got
  outcome,  \* history: how the thread ended
  late,     \* history: BACKTEST_JOB_STALE_SEC once went by without a write
  budget    \* crashes and write faults so far

vars == <<disk, mem, up, thread, act, seen, outcome, late, budget>>

Active == {"queued", "running"}
Terminal == {"completed", "failed"}

(* age is how long ago updated_at is: "fresh", "stale", or "unset" before   *)
(* the first write of the job.                                              *)
Job == [status : Active \cup Terminal, step : 0..JobBars, age : {"unset", "fresh", "stale"}]
NoJob == [missing |-> TRUE]

Actor == Client \cup Server
Idle(s) == [pc |-> "idle", server |-> s, job |-> NoJob]

TypeOK ==
  /\ disk \in Job \cup {NoJob}
  /\ mem \in [Server -> Job \cup {NoJob}]
  /\ up \in [Server -> {"down", "starting", "up"}]
  /\ thread \in [pc : {"post", "run", "write", "merge", "hung", "dead"}, job : Job \cup {NoJob}]
  /\ act \in [Actor -> [pc : {"idle", "fail", "write", "merge", "skip"}, server : Server, job : Job \cup {NoJob}]]
  /\ seen \in [Client -> Active \cup Terminal \cup {"nothing", "unknown"}]
  /\ outcome \in Terminal \cup {"none"}
  /\ late \in BOOLEAN
  /\ budget \in [crashes : 0..MaxFailures, writes : 0..MaxFailures]

Init ==
  /\ disk = NoJob
  /\ mem = [s \in Server |-> NoJob]
  /\ up = [s \in Server |-> "up"]
  /\ thread = [pc |-> "post", job |-> NoJob]
  /\ act = [a \in Actor |-> Idle(IF a \in Server THEN a ELSE Owner)]
  /\ seen = [c \in Client |-> "nothing"]
  /\ outcome = "none"
  /\ late = FALSE
  /\ budget = [crashes |-> 0, writes |-> 0]

Spend(kind) ==
  /\ budget.crashes + budget.writes < MaxFailures
  /\ budget' = [budget EXCEPT ![kind] = @ + 1]

-----------------------------------------------------------------------------
(* _write_job, called by w, an actor or the thread: job.json first, then    *)
(* the same data over the copy in memory.                                   *)

Fresh(job) == [job EXCEPT !.age = "fresh"]

WritesDisk(job) == disk' = Fresh(job) /\ UNCHANGED <<mem, budget>>

(* "except Exception: pass" skips the copy in memory too.                   *)
WriteFaults ==
  /\ Spend("writes")
  /\ UNCHANGED <<disk, mem>>

Merges(s, job) ==
  /\ mem' = [mem EXCEPT ![s] = IF @ = NoJob THEN @ ELSE job]
  /\ UNCHANGED <<disk, budget>>

-----------------------------------------------------------------------------
(* The thread, and the POST that starts it.                                 *)

Sets(job) ==
  /\ mem' = [mem EXCEPT ![Owner] = job]
  /\ thread' = [pc |-> "write", job |-> job]
  /\ UNCHANGED <<disk, up, act, seen, late, budget>>

Post ==
  /\ thread.pc = "post"
  /\ Sets([status |-> "queued", step |-> 0, age |-> "unset"])
  /\ UNCHANGED outcome

Progress_PastEnd ==
  /\ thread.pc = "run"
  /\ LET n == IF thread.job.status = "queued" THEN 1 ELSE thread.job.step + 1
     IN  n <= JobBars + 1 /\ Sets([mem[Owner] EXCEPT !.status = "running", !.step = n])
  /\ UNCHANGED outcome

(* The window is known, or a bar is done (_job_progress_update): the copy   *)
(* in memory becomes running, whatever it says by now.                      *)
Progress ==
  /\ thread.pc = "run"
  /\ LET n == IF thread.job.status = "queued" THEN 0 ELSE thread.job.step + 1
     IN  n <= JobBars /\ Sets([mem[Owner] EXCEPT !.status = "running", !.step = n])
  /\ UNCHANGED outcome

Ends(status) ==
  /\ thread.pc = "run"
  /\ outcome' = status
  /\ Sets([status |-> status, step |-> thread.job.step, age |-> "unset"])

Complete == thread.pc = "run" /\ thread.job.step = JobBars /\ Ends("completed")

Fails_Swallowed ==
  /\ thread.pc = "run" /\ outcome' = "failed"
  /\ Sets([status |-> "completed", step |-> thread.job.step, age |-> "unset"])

(* HTTPException or any other exception of the backtest.                    *)
Fails == Ends("failed")

AfterWrite == IF thread.job.status \in Terminal THEN "dead" ELSE "run"

ThreadWrites ==
  /\ thread.pc = "write"
  /\ \/ WritesDisk(thread.job) /\ thread' = [pc |-> "merge", job |-> Fresh(thread.job)]
     \/ WriteFaults /\ thread' = [thread EXCEPT !.pc = AfterWrite]
  /\ UNCHANGED <<up, act, seen, outcome, late>>

ThreadMerges ==
  /\ thread.pc = "merge"
  /\ Merges(Owner, thread.job)
  /\ thread' = [thread EXCEPT !.pc = AfterWrite]
  /\ UNCHANGED <<up, act, seen, outcome, late>>

Hang ==
  /\ MayHang /\ thread.pc = "run"
  /\ thread' = [thread EXCEPT !.pc = "hung"]
  /\ UNCHANGED <<disk, mem, up, act, seen, outcome, late, budget>>

-----------------------------------------------------------------------------
(* get_backtest_job, polled by hand or by the event stream.                 *)

(* Memory first, then job.json.                                             *)
Current(s) == IF mem[s] # NoJob THEN mem[s] ELSE disk

(* _job_updated_at falls back on the time of the file.                      *)
Age(job) == IF job.age # "unset" THEN job.age ELSE IF disk # NoJob THEN disk.age ELSE "unset"

Stale_RunningOnly(job) == job.status = "running" /\ Age(job) = "stale"

Stale(job) == job.status \in Active /\ Age(job) = "stale"

Tell(c, status) == seen' = [seen EXCEPT ![c] = status]

(* A client stops once it got a terminal status or the 404.                 *)
Polling(c, s) ==
  /\ act[c].pc = "idle" /\ up[s] = "up"
  /\ seen[c] \notin Terminal \cup {"unknown"}
  /\ thread.pc # "post"

PollAnswers(c, s) ==
  /\ Polling(c, s)
  /\ act' = [act EXCEPT ![c].server = s]
  /\ IF Current(s) = NoJob THEN Tell(c, "unknown")
     ELSE ~Stale(Current(s)) /\ Tell(c, Current(s).status)
  /\ UNCHANGED <<disk, mem, up, thread, outcome, late, budget>>

PollFindsStale(c, s) ==
  /\ Polling(c, s)
  /\ Current(s) # NoJob /\ Stale(Current(s))
  /\ act' = [act EXCEPT ![c] = [pc |-> "fail", server |-> s, job |-> Current(s)]]
  /\ UNCHANGED <<disk, mem, up, thread, seen, outcome, late, budget>>

(* _fail_job, for a poll or for the recovery: the copy in memory, ...       *)
FailSets(a) ==
  /\ act[a].pc = "fail"
  /\ LET failed == [act[a].job EXCEPT !.status = "failed", !.age = "unset"]
     IN  /\ mem' = [mem EXCEPT ![act[a].server] = failed]
         /\ act' = [act EXCEPT ![a].pc = "write", ![a].job = failed]
  /\ UNCHANGED <<disk, up, thread, seen, outcome, late, budget>>

FailWrites(a) ==
  /\ act[a].pc = "write"
  /\ \/ WritesDisk(act[a].job) /\ act' = [act EXCEPT ![a].pc = "merge", ![a].job = Fresh(@)]
     \/ WriteFaults /\ act' = [act EXCEPT ![a].pc = "skip"]
  /\ UNCHANGED <<up, thread, seen, outcome, late>>

(* ... and the poll returns failed, or the recovery lets the server start.  *)
FailMerges(a) ==
  /\ \/ act[a].pc = "merge" /\ Merges(act[a].server, act[a].job)
     \/ act[a].pc = "skip" /\ UNCHANGED <<disk, mem, budget>>
  /\ act' = [act EXCEPT ![a] = Idle(@.server)]
  /\ IF a \in Client THEN Tell(a, "failed") /\ UNCHANGED up
     ELSE up' = [up EXCEPT ![a] = "up"] /\ UNCHANGED seen
  /\ UNCHANGED <<thread, outcome, late>>

-----------------------------------------------------------------------------
(* Processes and time.                                                      *)

(* The daemon thread and the polls die with their process.                  *)
Crash(s) ==
  /\ up[s] # "down" /\ thread.pc # "post"
  /\ Spend("crashes")
  /\ up' = [up EXCEPT ![s] = "down"]
  /\ mem' = [mem EXCEPT ![s] = NoJob]
  /\ thread' = IF s = Owner THEN [thread EXCEPT !.pc = "dead"] ELSE thread
  /\ act' = [a \in Actor |-> IF act[a].server = s THEN Idle(s) ELSE act[a]]
  /\ UNCHANGED <<disk, seen, outcome, late>>

Orphan_RunningOnly == disk # NoJob /\ disk.status = "running"

(* recover_stale_backtest_jobs takes any job.json that is not finished.     *)
Orphan == disk # NoJob /\ disk.status \in Active

Restart(s) ==
  /\ up[s] = "down"
  /\ IF Orphan
     THEN /\ act' = [act EXCEPT ![s] = [pc |-> "fail", server |-> s, job |-> disk]]
          /\ up' = [up EXCEPT ![s] = "starting"]
     ELSE up' = [up EXCEPT ![s] = "up"] /\ UNCHANGED act
  /\ UNCHANGED <<disk, mem, thread, seen, outcome, late, budget>>

(* BACKTEST_JOB_STALE_SEC pass without a write.                             *)
Ageing(job) == IF job # NoJob /\ job.age = "fresh" THEN [job EXCEPT !.age = "stale"] ELSE job

Tick ==
  /\ disk # NoJob /\ disk.age = "fresh"
  /\ disk' = Ageing(disk)
  /\ mem' = [s \in Server |-> Ageing(mem[s])]
  /\ thread' = [thread EXCEPT !.job = Ageing(@)]
  /\ act' = [a \in Actor |-> [act[a] EXCEPT !.job = Ageing(@)]]
  /\ late' = TRUE
  /\ UNCHANGED <<up, seen, outcome, budget>>

ThreadStep == Post \/ Progress \/ Complete \/ Fails \/ ThreadWrites \/ ThreadMerges
Acts(a) == FailSets(a) \/ FailWrites(a) \/ FailMerges(a)
Polls(c) == Acts(c) \/ \E s \in Server : PollAnswers(c, s) \/ PollFindsStale(c, s)

Next ==
  \/ ThreadStep \/ Hang \/ Tick
  \/ \E c \in Client : Polls(c)
  \/ \E s \in Server : Acts(s) \/ Crash(s) \/ Restart(s)

Spec == Init /\ [][Next]_vars

(* A client may ask any process each time, but nothing makes it change: its *)
(* stream stays in the process that opened it for as long as that is up.    *)
Asks(c) ==
  \/ Acts(c)
  \/ \E s \in Server :
       /\ s = act[c].server \/ up[act[c].server] # "up"
       /\ PollAnswers(c, s) \/ PollFindsStale(c, s)

(* Time never stops; a client goes on asking where it asked last until it   *)
(* has its answer; a process that died is started again (gunicorn replaces  *)
(* its workers).  The thread may hang, so its steps are fair only as long   *)
(* as it does not.                                                          *)
FairSpec ==
  /\ Spec
  /\ WF_vars(Tick)
  /\ WF_vars(ThreadStep)
  /\ \A c \in Client : WF_vars(Asks(c))
  /\ \A s \in Server : WF_vars(Acts(s) \/ Restart(s))

-----------------------------------------------------------------------------
(* A client told "completed" has a backtest that did complete, whatever     *)
(* processes die and however late their writes come.                        *)
CompletedIsTrue == \A c \in Client : seen[c] = "completed" => outcome = "completed"

(* "Clients should close the stream once they receive a terminal state":    *)
(* it is the last word on the job, so any two clients are told the same, as *)
(* long as the thread writes before the deadline and no process dies.       *)
VerdictIsFinal ==
  (~late /\ budget.crashes = 0) =>
    \A c \in Client : seen[c] \in Terminal => seen[c] = outcome

(* Together: what a client is told is true, and stays so.                   *)
VerdictsAreTrue == CompletedIsTrue /\ VerdictIsFinal

(* "Keep in-memory copy aligned when this worker owns the job": once the    *)
(* thread has ended and no write is under way, the owner's copy and         *)
(* job.json have the same status, if no write failed, no process died and   *)
(* no poll took the job for stale.                                          *)
Settled == thread.pc = "dead" /\ \A a \in Actor : act[a].pc = "idle"

Aligned ==
  (Settled /\ ~late /\ budget = [crashes |-> 0, writes |-> 0] /\ mem[Owner] # NoJob)
    => mem[Owner].status = disk.status

(* "flip orphaned job.json out of running": the start-up of a process fails *)
(* no job whose thread is alive.                                            *)
OnlyOrphansFail ==
  \A s \in Server : act[s].pc # "idle" => thread.pc \in {"hung", "dead"}

(* When the process that died with the job is back, job.json no longer says *)
(* that it is running, if no write failed.                                  *)
RestartLeavesNothingRunning ==
  (Settled /\ up[Owner] = "up" /\ budget.writes = 0) =>
     disk = NoJob \/ disk.status \in Terminal

(* Together: once nothing is under way, file and memory are the last word.  *)
FileSettles == Aligned /\ RestartLeavesNothingRunning

(* "Without this the UI polls forever": once job.json has been written, or  *)
(* the thread has ended, every client gets a terminal status (or is told    *)
(* that the job is unknown), whether it changes process or stays in one,    *)
(* and whether the thread hangs, dies with its process or cannot write any  *)
(* more.  If every write has raised and the thread hangs, nothing tells the *)
(* age of the job, and a stream in the owner goes on for ever.              *)
NoPollForever ==
  \A c \in Client :
    (disk # NoJob \/ thread.pc = "dead") ~> (seen[c] \in Terminal \cup {"unknown"})

=============================================================================
