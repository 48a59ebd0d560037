--------------------------- MODULE BacktestProofs ---------------------------
(***************************************************************************)
(* Theorems about backtests: the status of an asynchronous job             *)
(* (BacktestJobs), for every set of servers and clients, every length of   *)
(* the backtest and every bound on the failures; and the perpetual engine  *)
(* (PerpBacktest), for all bars, rates, symbols and answers.               *)
(***************************************************************************)
EXTENDS BacktestJobs, PerpBacktest, NumberLemmas, TLAPS

-----------------------------------------------------------------------------
(* The status of a job.                                                     *)

USE DEF Active, Terminal, Actor

(* Whoever is working on the job has one: the thread, until it ends or its  *)
(* process dies, in memory too; a poll or a recovery, until its last step.  *)
WorkInHand ==
  /\ thread.pc \in {"run", "write", "merge", "hung"} => thread.job \in Job /\ mem[Owner] \in Job
  /\ \A a \in Actor : act[a].pc \in {"fail", "write", "merge"} => act[a].job \in Job

TypeInv == TypeOK /\ WorkInHand

LEMMA AgeingType ==
  ASSUME NEW job
  PROVE  /\ job \in Job \cup {NoJob} => Ageing(job) \in Job \cup {NoJob}
         /\ job \in Job => Ageing(job) \in Job /\ Ageing(job).status = job.status
BY DEF Ageing, Job

LEMMA FreshType ==
  ASSUME NEW job \in Job
  PROVE  Fresh(job) \in Job /\ Fresh(job).status = job.status /\ Fresh(job).age = "fresh"
BY DEF Fresh, Job

LEMMA NoJobIsNone == NoJob \notin Job
<1>1. DOMAIN NoJob = {"missing"}
  BY DEF NoJob
<1>2. \A job \in Job : DOMAIN job = {"status", "step", "age"}
  BY DEF Job
<1> QED
  BY <1>1, <1>2

LEMMA InitType == Init => TypeInv
<1> SUFFICES ASSUME Init PROVE TypeInv
  OBVIOUS
<1>1. budget \in [crashes : 0..MaxFailures, writes : 0..MaxFailures]
  BY JobConstants DEF Init
<1>2. /\ thread \in [pc : {"post", "run", "write", "merge", "hung", "dead"}, job : Job \cup {NoJob}]
      /\ act \in [Actor -> [pc : {"idle", "fail", "write", "merge", "skip"}, server : Server,
                          job : Job \cup {NoJob}]]
  BY JobConstants DEF Init, Idle
<1> QED
  BY <1>1, <1>2 DEF Init, TypeInv, TypeOK, WorkInHand, Idle

(* The thread's copy, after it assigned BACKTEST_JOBS.                      *)
LEMMA SetsType ==
  ASSUME TypeInv, NEW job \in Job, Sets(job), outcome' \in Terminal \cup {"none"}
  PROVE  TypeInv'
BY JobConstants DEF Sets, TypeInv, TypeOK, WorkInHand

LEMMA SpendType ==
  ASSUME TypeInv, NEW kind \in {"crashes", "writes"}, Spend(kind)
  PROVE  budget' \in [crashes : 0..MaxFailures, writes : 0..MaxFailures]
BY JobConstants DEF Spend, TypeInv, TypeOK

LEMMA MergesType ==
  ASSUME TypeInv, NEW s \in Server, NEW job \in Job, Merges(s, job)
  PROVE  /\ mem' \in [Server -> Job \cup {NoJob}]
         /\ mem[Owner] \in Job => mem'[Owner] \in Job
         /\ UNCHANGED <<disk, budget>>
BY JobConstants DEF Merges, TypeInv, TypeOK

LEMMA ProgressJob ==
  ASSUME TypeInv, thread.pc = "run", NEW n \in 0..JobBars
  PROVE  [mem[Owner] EXCEPT !.status = "running", !.step = n] \in Job
BY DEF TypeInv, TypeOK, WorkInHand, Job

(* A poll or a recovery goes a step further.                                *)
Act == [pc : {"idle", "fail", "write", "merge", "skip"}, server : Server, job : Job \cup {NoJob}]

LEMMA ActType ==
  ASSUME TypeInv, NEW a \in Actor, NEW r \in Act, act' = [act EXCEPT ![a] = r],
         r.pc \in {"fail", "write", "merge"} => r.job \in Job
  PROVE  /\ act' \in [Actor -> Act]
         /\ \A b \in Actor : act'[b].pc \in {"fail", "write", "merge"} => act'[b].job \in Job
BY DEF TypeInv, TypeOK, WorkInHand, Act

LEMMA TypeStep == TypeInv /\ [Next]_vars => TypeInv'
<1> SUFFICES ASSUME TypeInv, [Next]_vars PROVE TypeInv'
  OBVIOUS
<1> USE JobConstants
<1>1. ASSUME Post PROVE TypeInv'
  <2>1. [status |-> "queued", step |-> 0, age |-> "unset"] \in Job
    BY DEF Job
  <2> QED
    BY <1>1, <2>1, SetsType DEF Post, TypeInv, TypeOK
<1>2. ASSUME Progress PROVE TypeInv'
  <2>1. PICK n : /\ n = IF thread.job.status = "queued" THEN 0 ELSE thread.job.step + 1
                 /\ n <= JobBars
                 /\ Sets([mem[Owner] EXCEPT !.status = "running", !.step = n])
    BY <1>2 DEF Progress
  <2>2. n \in 0..JobBars
    BY <1>2, <2>1 DEF Progress, TypeInv, WorkInHand, Job
  <2> QED
    BY <1>2, <2>1, <2>2, ProgressJob, SetsType DEF Progress, TypeInv, TypeOK
<1>3. ASSUME NEW st \in Terminal, Ends(st) PROVE TypeInv'
  <2>1. [status |-> st, step |-> thread.job.step, age |-> "unset"] \in Job
    BY <1>3 DEF Ends, TypeInv, WorkInHand, Job
  <2> QED
    BY <1>3, <2>1, SetsType DEF Ends
<1>4. ASSUME ThreadWrites PROVE TypeInv'
  <2>1. thread.job \in Job /\ Fresh(thread.job) \in Job
    BY <1>4, FreshType DEF ThreadWrites, TypeInv, WorkInHand
  <2>2. CASE WritesDisk(thread.job) /\ thread' = [pc |-> "merge", job |-> Fresh(thread.job)]
    BY <1>4, <2>1, <2>2 DEF ThreadWrites, WritesDisk, TypeInv, TypeOK, WorkInHand
  <2>3. CASE WriteFaults /\ thread' = [thread EXCEPT !.pc = AfterWrite]
    BY <1>4, <2>1, <2>3, SpendType DEF ThreadWrites, WriteFaults, AfterWrite, TypeInv, TypeOK, WorkInHand
  <2> QED
    BY <1>4, <2>2, <2>3 DEF ThreadWrites
<1>5. ASSUME ThreadMerges PROVE TypeInv'
  BY <1>5, MergesType DEF ThreadMerges, AfterWrite, TypeInv, TypeOK, WorkInHand
<1>6. ASSUME Hang PROVE TypeInv'
  BY <1>6 DEF Hang, TypeInv, TypeOK, WorkInHand
<1>7. ASSUME NEW c \in Client, NEW s \in Server, PollAnswers(c, s) PROVE TypeInv'
  <2>1. Current(s) \in Job \cup {NoJob}
    BY DEF Current, TypeInv, TypeOK
  <2>2. seen' \in [Client -> Active \cup Terminal \cup {"nothing", "unknown"}]
    <3>1. CASE Current(s) = NoJob
      BY <1>7, <3>1 DEF PollAnswers, Tell, TypeInv, TypeOK
    <3>2. CASE Current(s) # NoJob
      <4>1. Current(s).status \in Active \cup Terminal
        BY <2>1, <3>2 DEF Job
      <4> QED
        BY <1>7, <3>2, <4>1 DEF PollAnswers, Tell, TypeInv, TypeOK
    <3> QED
      BY <3>1, <3>2
  <2> QED
    BY <1>7, <2>2 DEF PollAnswers, TypeInv, TypeOK, WorkInHand
<1>8. ASSUME NEW c \in Client, NEW s \in Server, PollFindsStale(c, s) PROVE TypeInv'
  BY <1>8 DEF PollFindsStale, Current, TypeInv, TypeOK, WorkInHand
<1>9. ASSUME NEW a \in Actor, FailSets(a) PROVE TypeInv'
  <2>1. [act[a].job EXCEPT !.status = "failed", !.age = "unset"] \in Job
    BY <1>9 DEF FailSets, TypeInv, WorkInHand, Job
  <2> QED
    BY <1>9, <2>1 DEF FailSets, TypeInv, TypeOK, WorkInHand
<1>10. ASSUME NEW a \in Actor, FailWrites(a) PROVE TypeInv'
  <2>1. act[a].job \in Job /\ Fresh(act[a].job) \in Job
    BY <1>10, FreshType DEF FailWrites, TypeInv, WorkInHand
  <2>2. CASE WritesDisk(act[a].job) /\ act' = [act EXCEPT ![a].pc = "merge", ![a].job = Fresh(@)]
    <3> DEFINE r == [act[a] EXCEPT !.pc = "merge", !.job = Fresh(@)]
    <3>1. act[a] \in Act /\ act' = [act EXCEPT ![a] = r]
      BY <2>2 DEF TypeInv, TypeOK, Act
    <3>2. r \in Act /\ r.job \in Job
      BY <2>1, <3>1 DEF Act
    <3> HIDE DEF r
    <3>3. /\ act' \in [Actor -> Act]
          /\ \A b \in Actor : act'[b].pc \in {"fail", "write", "merge"} => act'[b].job \in Job
      BY <3>1, <3>2, ActType
    <3> QED
      BY <1>10, <2>1, <2>2, <3>3 DEF FailWrites, WritesDisk, TypeInv, TypeOK, WorkInHand, Act
  <2>3. CASE WriteFaults /\ act' = [act EXCEPT ![a].pc = "skip"]
    BY <1>10, <2>1, <2>3, SpendType DEF FailWrites, WriteFaults, TypeInv, TypeOK, WorkInHand
  <2> QED
    BY <1>10, <2>2, <2>3 DEF FailWrites
<1>11. ASSUME NEW a \in Actor, FailMerges(a) PROVE TypeInv'
  BY <1>11, MergesType DEF FailMerges, Tell, Idle, TypeInv, TypeOK, WorkInHand
<1>12. ASSUME NEW s \in Server, Crash(s) PROVE TypeInv'
  BY <1>12, SpendType DEF Crash, Idle, TypeInv, TypeOK, WorkInHand
<1>13. ASSUME NEW s \in Server, Restart(s) PROVE TypeInv'
  <2>1. CASE Orphan
    <3> DEFINE r == [pc |-> "fail", server |-> s, job |-> disk]
    <3>1. r \in Act /\ r.job \in Job
      BY <2>1 DEF Orphan, TypeInv, TypeOK, Act
    <3>2. act' = [act EXCEPT ![s] = r]
      BY <1>13, <2>1 DEF Restart
    <3> HIDE DEF r
    <3>3. /\ act' \in [Actor -> Act]
          /\ \A b \in Actor : act'[b].pc \in {"fail", "write", "merge"} => act'[b].job \in Job
      BY <3>1, <3>2, ActType
    <3> QED
      BY <1>13, <2>1, <3>3 DEF Restart, TypeInv, TypeOK, WorkInHand, Act
  <2>2. CASE ~Orphan
    BY <1>13, <2>2 DEF Restart, TypeInv, TypeOK, WorkInHand
  <2> QED
    BY <2>1, <2>2
<1>14. ASSUME Tick PROVE TypeInv'
  <2>1. /\ disk' \in Job \cup {NoJob} /\ mem' \in [Server -> Job \cup {NoJob}]
        /\ mem[Owner] \in Job => mem'[Owner] \in Job
    BY <1>14, AgeingType DEF Tick, TypeInv, TypeOK
  <2>2. /\ thread'.pc = thread.pc /\ thread'.job = Ageing(thread.job)
        /\ thread' \in [pc : {"post", "run", "write", "merge", "hung", "dead"}, job : Job \cup {NoJob}]
    BY <1>14, AgeingType DEF Tick, TypeInv, TypeOK
  <2>3. ASSUME NEW a \in Actor
        PROVE  /\ act'[a] \in Act /\ act'[a].pc = act[a].pc
               /\ act'[a].pc \in {"fail", "write", "merge"} => act'[a].job \in Job
    <3>1. act[a] \in Act /\ act'[a] = [act[a] EXCEPT !.job = Ageing(@)]
      BY <1>14 DEF Tick, TypeInv, TypeOK, Act
    <3>2. act'[a].pc = act[a].pc /\ act'[a].job = Ageing(act[a].job) /\ act'[a] \in Act
      BY <3>1, AgeingType DEF Act
    <3> QED
      BY <3>2, AgeingType DEF TypeInv, WorkInHand
  <2>4. act' \in [Actor -> Act]
    BY <1>14, <2>3 DEF Tick
  <2> QED
    BY <1>14, <2>1, <2>2, <2>3, <2>4, AgeingType DEF Tick, TypeInv, TypeOK, WorkInHand, Act
<1>15. CASE UNCHANGED vars
  BY <1>15 DEF vars, TypeInv, TypeOK, WorkInHand
<1> QED
  BY <1>1, <1>2, <1>3, <1>4, <1>5, <1>6, <1>7, <1>8, <1>9, <1>10, <1>11, <1>12, <1>13, <1>14, <1>15
     DEF Next, ThreadStep, Complete, Fails, Polls, Acts

(* Every copy of the job, every answer and every step under way has its     *)
(* type.                                                                    *)
THEOREM TypeCorrect == Spec => []TypeOK
<1>1. TypeInv => TypeOK
  BY DEF TypeInv
<1> QED
  BY <1>1, InitType, TypeStep, PTL DEF Spec

-----------------------------------------------------------------------------
(* What the copies say.                                                     *)

Truthful(job) == job \in Job => (job.status = "completed" => outcome = "completed")

(* The thread ends once, and what it writes last is how it ended; no copy   *)
(* of the job, wherever it is, says "completed" before that.                *)
ThreadInv ==
  /\ thread.pc \in {"post", "run", "hung"} => outcome = "none"
  /\ thread.pc \in {"write", "merge"} =>
       IF outcome = "none" THEN thread.job.status \in Active ELSE thread.job.status = outcome

TruthInv ==
  /\ Truthful(disk)
  /\ \A s \in Server : Truthful(mem[s])
  /\ \A a \in Actor : Truthful(act[a].job)
  /\ CompletedIsTrue

LEMMA ThreadStepOK == TypeInv /\ ThreadInv /\ [Next]_vars => ThreadInv'
<1> SUFFICES ASSUME TypeInv, ThreadInv, [Next]_vars PROVE ThreadInv'
  OBVIOUS
<1> USE JobConstants
<1>1. CASE Post
  BY <1>1 DEF Post, Sets, ThreadInv
<1>2. CASE Progress
  <2>1. outcome' = "none" /\ thread'.pc = "write" /\ thread'.job.status = "running"
    BY <1>2, ProgressJob DEF Progress, Sets, ThreadInv, TypeInv, WorkInHand, Job
  <2> QED
    BY <2>1 DEF ThreadInv
<1>3. ASSUME NEW st \in Terminal, Ends(st) PROVE ThreadInv'
  BY <1>3 DEF Ends, Sets, ThreadInv
<1>4. CASE ThreadWrites
  <2>1. thread.job \in Job
    BY <1>4 DEF ThreadWrites, TypeInv, WorkInHand
  <2> QED
    BY <1>4, <2>1, FreshType DEF ThreadWrites, AfterWrite, ThreadInv, TypeInv, TypeOK
<1>5. CASE ThreadMerges
  BY <1>5 DEF ThreadMerges, AfterWrite, ThreadInv, TypeInv, TypeOK
<1>6. CASE Hang
  BY <1>6 DEF Hang, ThreadInv, TypeInv, TypeOK
<1>7. ASSUME NEW s \in Server, Crash(s) PROVE ThreadInv'
  BY <1>7 DEF Crash, ThreadInv, TypeInv, TypeOK
<1>8. CASE Tick
  <2>1. thread'.pc = thread.pc /\ thread'.job = Ageing(thread.job) /\ outcome' = outcome
    BY <1>8 DEF Tick, TypeInv, TypeOK
  <2> QED
    BY <2>1, AgeingType DEF ThreadInv, TypeInv, WorkInHand
<1>9. CASE UNCHANGED <<thread, outcome>>
  BY <1>9 DEF ThreadInv
<1> QED
  BY <1>1, <1>2, <1>3, <1>4, <1>5, <1>6, <1>7, <1>8, <1>9
     DEF Next, ThreadStep, Complete, Fails, Polls, Acts, PollAnswers, PollFindsStale, FailSets,
         FailWrites, FailMerges, Restart, vars

(* The outcome is set once, so that what is said stays true.                *)
LEMMA OutcomeOnce ==
  ASSUME ThreadInv, [Next]_vars
  PROVE  outcome' = outcome \/ outcome = "none"
BY DEF Next, ThreadStep, Post, Progress, Complete, Fails, Ends, ThreadWrites, ThreadMerges, Hang,
       Polls, Acts, PollAnswers, PollFindsStale, FailSets, FailWrites, FailMerges, Crash, Restart,
       Tick, vars, ThreadInv

LEMMA TruthStep == TypeInv /\ ThreadInv /\ TruthInv /\ [Next]_vars => TruthInv'
<1> SUFFICES ASSUME TypeInv, ThreadInv, TruthInv, [Next]_vars PROVE TruthInv'
  OBVIOUS
<1> USE JobConstants, NoJobIsNone
<1> DEFINE Holds(job) == job \in Job => (job.status = "completed" => outcome' = "completed")
           Copies == /\ Holds(disk')
                     /\ \A s \in Server : Holds(mem'[s])
                     /\ \A a \in Actor : Holds(act'[a].job)
           Told == \A c \in Client : seen'[c] = "completed" => outcome' = "completed"
<1>1. /\ Holds(disk)
      /\ \A s \in Server : Holds(mem[s])
      /\ \A a \in Actor : Holds(act[a].job)
  BY OutcomeOnce DEF TruthInv, Truthful
<1>2. \A c \in Client : seen[c] = "completed" => outcome' = "completed"
  BY OutcomeOnce DEF TruthInv, CompletedIsTrue
<1>3. Holds(NoJob)
  OBVIOUS
<1>4. /\ disk \in Job \cup {NoJob} /\ mem \in [Server -> Job \cup {NoJob}]
      /\ act \in [Actor -> Act] /\ seen \in [Client -> Active \cup Terminal \cup {"nothing", "unknown"}]
  BY DEF TypeInv, TypeOK, Act
<1>sets. ASSUME NEW job, Sets(job), Holds(job) PROVE Copies /\ Told
  BY <1>1, <1>2, <1>4, <1>sets DEF Sets
<1>merges. ASSUME NEW s \in Server, NEW job, Merges(s, job), Holds(job)
           PROVE  Holds(disk') /\ \A t \in Server : Holds(mem'[t])
  BY <1>1, <1>4, <1>merges DEF Merges
<1>fresh. ASSUME NEW job \in Job, Holds(job) PROVE Holds(Fresh(job))
  BY <1>fresh, FreshType
<1>5. ASSUME Post PROVE Copies /\ Told
  <2>1. Holds([status |-> "queued", step |-> 0, age |-> "unset"])
    OBVIOUS
  <2> HIDE DEF Holds, Copies, Told
  <2> QED
    BY <1>5, <1>sets, <2>1 DEF Post
<1>6. ASSUME Progress PROVE Copies /\ Told
  <2>1. PICK n : /\ n = IF thread.job.status = "queued" THEN 0 ELSE thread.job.step + 1
                 /\ n <= JobBars
                 /\ Sets([mem[Owner] EXCEPT !.status = "running", !.step = n])
    BY <1>6 DEF Progress
  <2>2. mem[Owner] \in Job
    BY <1>6 DEF Progress, TypeInv, WorkInHand
  <2>3. Holds([mem[Owner] EXCEPT !.status = "running", !.step = n])
    BY <2>2 DEF Job
  <2> HIDE DEF Holds, Copies, Told
  <2> QED
    BY <1>sets, <2>1, <2>3
<1>7. ASSUME NEW st \in Terminal, Ends(st) PROVE Copies /\ Told
  <2>1. Holds([status |-> st, step |-> thread.job.step, age |-> "unset"])
    BY <1>7 DEF Ends
  <2> HIDE DEF Holds, Copies, Told
  <2> QED
    BY <1>7, <1>sets, <2>1 DEF Ends
<1>8. ASSUME ThreadWrites PROVE Copies /\ Told
  <2>1. thread.job \in Job /\ Holds(thread.job)
    BY <1>8 DEF ThreadWrites, TypeInv, WorkInHand, ThreadInv
  <2>2. Holds(disk') /\ mem' = mem /\ act' = act /\ seen' = seen
    BY <1>1, <1>8, <1>fresh, <2>1 DEF ThreadWrites, WritesDisk, WriteFaults
  <2> QED
    BY <1>1, <1>2, <2>2
<1>9. ASSUME ThreadMerges PROVE Copies /\ Told
  <2>1. Holds(thread.job)
    BY <1>9 DEF ThreadMerges, ThreadInv
  <2>2. Holds(disk') /\ \A t \in Server : Holds(mem'[t])
    BY <1>9, <1>merges, <2>1 DEF ThreadMerges
  <2> QED
    BY <1>1, <1>2, <1>9, <2>2 DEF ThreadMerges
<1>10. ASSUME Hang PROVE Copies /\ Told
  BY <1>1, <1>2, <1>10 DEF Hang
<1>11. ASSUME NEW c \in Client, NEW s \in Server, PollAnswers(c, s) PROVE Copies /\ Told
  <2>1. Current(s) \in Job \cup {NoJob} /\ Holds(Current(s))
    BY <1>1, <1>4 DEF Current
  <2>2. \A d \in Client : seen'[d] = seen[d] \/ seen'[d] = "unknown"
                          \/ (Current(s) \in Job /\ seen'[d] = Current(s).status)
    BY <1>4, <1>11, <2>1 DEF PollAnswers, Tell
  <2> QED
    BY <1>1, <1>2, <1>11, <2>1, <2>2 DEF PollAnswers
<1>12. ASSUME NEW c \in Client, NEW s \in Server, PollFindsStale(c, s) PROVE Copies /\ Told
  <2>1. Holds(Current(s))
    BY <1>1 DEF Current
  <2>2. \A a \in Actor : act'[a].job \in {act[a].job, Current(s)}
    BY <1>4, <1>12 DEF PollFindsStale
  <2> QED
    BY <1>1, <1>2, <1>12, <2>1, <2>2 DEF PollFindsStale
<1>13. ASSUME NEW a \in Actor, FailSets(a) PROVE Copies /\ Told
  <2> DEFINE failed == [act[a].job EXCEPT !.status = "failed", !.age = "unset"]
  <2>1. act[a].job \in Job
    BY <1>13 DEF FailSets, TypeInv, WorkInHand
  <2>2. Holds(failed)
    BY <2>1 DEF Job
  <2>3. \A s \in Server : mem'[s] \in {mem[s], failed}
    BY <1>4, <1>13 DEF FailSets
  <2>4. \A b \in Actor : act'[b].job \in {act[b].job, failed}
    BY <1>4, <1>13 DEF FailSets, Act
  <2> HIDE DEF failed
  <2> QED
    BY <1>1, <1>2, <1>13, <2>2, <2>3, <2>4 DEF FailSets
<1>14. ASSUME NEW a \in Actor, FailWrites(a) PROVE Copies /\ Told
  <2>1. act[a].job \in Job /\ Holds(act[a].job) /\ Holds(Fresh(act[a].job))
    BY <1>1, <1>14, <1>fresh DEF FailWrites, TypeInv, WorkInHand
  <2>2. /\ disk' \in {disk, Fresh(act[a].job)} /\ mem' = mem /\ seen' = seen
        /\ \A b \in Actor : act'[b].job \in {act[b].job, Fresh(act[a].job)}
    BY <1>4, <1>14 DEF FailWrites, WritesDisk, WriteFaults, Act
  <2> QED
    BY <1>1, <1>2, <2>1, <2>2
<1>15. ASSUME NEW a \in Actor, FailMerges(a) PROVE Copies /\ Told
  <2>1. Holds(disk') /\ \A t \in Server : Holds(mem'[t])
    <3>1. act[a].server \in Server /\ Holds(act[a].job)
      BY <1>1, <1>4 DEF Act
    <3> QED
      BY <1>1, <1>15, <1>merges, <3>1 DEF FailMerges
  <2>2. \A b \in Actor : act'[b].job \in {act[b].job, NoJob}
    BY <1>4, <1>15 DEF FailMerges, Idle
  <2>3. \A d \in Client : seen'[d] \in {seen[d], "failed"}
    BY <1>4, <1>15 DEF FailMerges, Tell
  <2> QED
    BY <1>1, <1>2, <1>3, <2>1, <2>2, <2>3
<1>16. ASSUME NEW s \in Server, Crash(s) PROVE Copies /\ Told
  <2>1. \A t \in Server : mem'[t] \in {mem[t], NoJob}
    BY <1>4, <1>16 DEF Crash
  <2>2. \A a \in Actor : act'[a].job \in {act[a].job, NoJob}
    BY <1>16 DEF Crash, Idle
  <2> QED
    BY <1>1, <1>2, <1>3, <1>16, <2>1, <2>2 DEF Crash
<1>17. ASSUME NEW s \in Server, Restart(s) PROVE Copies /\ Told
  <2>1. \A a \in Actor : act'[a].job \in {act[a].job, disk}
    BY <1>4, <1>17 DEF Restart
  <2> QED
    BY <1>1, <1>2, <1>17, <2>1 DEF Restart
<1>18. ASSUME Tick PROVE Copies /\ Told
  <2>1. ASSUME NEW job \in Job \cup {NoJob}, Holds(job) PROVE Holds(Ageing(job))
    BY <2>1, AgeingType DEF Ageing
  <2>2. /\ disk' = Ageing(disk) /\ seen' = seen
        /\ \A s \in Server : mem'[s] = Ageing(mem[s])
        /\ \A a \in Actor : act'[a].job = Ageing(act[a].job)
    BY <1>4, <1>18 DEF Tick, Act
  <2>3. \A a \in Actor : act[a].job \in Job \cup {NoJob}
    BY <1>4 DEF Act
  <2> HIDE DEF Holds
  <2> QED
    BY <1>1, <1>2, <1>4, <2>1, <2>2, <2>3
<1>19. ASSUME UNCHANGED vars PROVE Copies /\ Told
  BY <1>1, <1>2, <1>19 DEF vars
<1>20. Copies /\ Told
  <2> HIDE DEF Copies, Told
  <2> QED
    BY <1>5, <1>6, <1>7, <1>8, <1>9, <1>10, <1>11, <1>12, <1>13, <1>14, <1>15, <1>16, <1>17, <1>18,
       <1>19 DEF Next, ThreadStep, Complete, Fails, Polls, Acts
<1> QED
  BY <1>20 DEF TruthInv, Truthful, CompletedIsTrue

-----------------------------------------------------------------------------
(* As long as the thread writes in time and no process dies, nobody but the *)
(* thread writes, and every terminal status anywhere is how it ended.       *)

Calm == ~late /\ budget.crashes = 0

Settles(job) == job \in Job => job.age # "stale" /\ (job.status \in Terminal => job.status = outcome)

CalmInv ==
  Calm =>
    /\ \A a \in Actor : act[a].pc = "idle"
    /\ \A s \in Server : up[s] = "up" /\ Settles(mem[s])
    /\ Settles(disk) /\ Settles(thread.job)
    /\ \A c \in Client : seen[c] \in Terminal => seen[c] = outcome

LEMMA CalmBefore ==
  ASSUME TypeInv, [Next]_vars, Calm'
  PROVE  Calm
<1>1. CASE \E s \in Server : Crash(s)
  <2>1. budget'.crashes = budget.crashes + 1 /\ budget.crashes \in Nat
    BY <1>1 DEF Crash, Spend, TypeInv, TypeOK
  <2> QED
    BY <2>1 DEF Calm
<1>2. CASE WriteFaults /\ late' = late
  <2>1. budget'.crashes = budget.crashes
    BY <1>2 DEF WriteFaults, Spend, TypeInv, TypeOK
  <2> QED
    BY <1>2, <2>1 DEF Calm
<1>3. CASE late' \/ UNCHANGED <<budget, late>>
  BY <1>3 DEF Calm
<1> QED
  BY <1>1, <1>2, <1>3
     DEF Next, ThreadStep, Post, Progress, Complete, Fails, Ends, Sets, ThreadWrites, WritesDisk,
         ThreadMerges, Merges, Hang, Polls, Acts, PollAnswers, PollFindsStale, FailSets, FailWrites,
         FailMerges, Restart, Tick, vars

LEMMA CalmStep == TypeInv /\ ThreadInv /\ CalmInv /\ [Next]_vars => CalmInv'
<1> SUFFICES ASSUME TypeInv, ThreadInv, CalmInv, [Next]_vars, Calm' PROVE CalmInv'
  BY DEF CalmInv
<1> USE JobConstants, NoJobIsNone
<1>0. Calm /\ ~late'
  BY CalmBefore DEF Calm
<1> DEFINE Holds(job) ==
             job \in Job => job.age # "stale" /\ (job.status \in Terminal => job.status = outcome')
           Quiet == /\ \A a \in Actor : act'[a].pc = "idle"
                    /\ \A s \in Server : up'[s] = "up" /\ Holds(mem'[s])
                    /\ Holds(disk') /\ Holds(thread'.job)
           Told == \A c \in Client : seen'[c] \in Terminal => seen'[c] = outcome'
<1>1. /\ \A a \in Actor : act[a].pc = "idle"
      /\ \A s \in Server : up[s] = "up" /\ Holds(mem[s])
      /\ Holds(disk) /\ Holds(thread.job)
  BY <1>0, OutcomeOnce DEF CalmInv, Settles, Job
<1>2. \A c \in Client : seen[c] \in Terminal => seen[c] = outcome'
  BY <1>0, OutcomeOnce DEF CalmInv
<1>3. /\ disk \in Job \cup {NoJob} /\ mem \in [Server -> Job \cup {NoJob}]
      /\ seen \in [Client -> Active \cup Terminal \cup {"nothing", "unknown"}]
      /\ thread \in [pc : {"post", "run", "write", "merge", "hung", "dead"}, job : Job \cup {NoJob}]
  BY DEF TypeInv, TypeOK
<1>sets. ASSUME NEW job, Sets(job), Holds(job) PROVE Quiet /\ Told
  BY <1>1, <1>2, <1>3, <1>sets DEF Sets
<1>4. ASSUME Post PROVE Quiet /\ Told
  <2>1. Holds([status |-> "queued", step |-> 0, age |-> "unset"])
    OBVIOUS
  <2> HIDE DEF Holds, Quiet, Told
  <2> QED
    BY <1>4, <1>sets, <2>1 DEF Post
<1>5. ASSUME Progress PROVE Quiet /\ Told
  <2>1. PICK n : /\ n = IF thread.job.status = "queued" THEN 0 ELSE thread.job.step + 1
                 /\ n <= JobBars
                 /\ Sets([mem[Owner] EXCEPT !.status = "running", !.step = n])
    BY <1>5 DEF Progress
  <2>2. mem[Owner] \in Job /\ Holds(mem[Owner])
    BY <1>1, <1>5 DEF Progress, TypeInv, WorkInHand
  <2>3. Holds([mem[Owner] EXCEPT !.status = "running", !.step = n])
    BY <2>2 DEF Job
  <2> HIDE DEF Holds, Quiet, Told
  <2> QED
    BY <1>sets, <2>1, <2>3
<1>6. ASSUME NEW st \in Terminal, Ends(st) PROVE Quiet /\ Told
  <2>1. Holds([status |-> st, step |-> thread.job.step, age |-> "unset"])
    BY <1>6 DEF Ends
  <2> HIDE DEF Holds, Quiet, Told
  <2> QED
    BY <1>6, <1>sets, <2>1 DEF Ends
<1>7. ASSUME ThreadWrites PROVE Quiet /\ Told
  <2>1. thread.job \in Job /\ Holds(thread.job) /\ Holds(Fresh(thread.job))
    BY <1>1, <1>7, FreshType DEF ThreadWrites, TypeInv, WorkInHand
  <2>2. /\ Holds(disk') /\ Holds(thread'.job)
        /\ UNCHANGED <<mem, up, act, seen>>
    BY <1>1, <1>3, <1>7, <2>1 DEF ThreadWrites, WritesDisk, WriteFaults
  <2> QED
    BY <1>1, <1>2, <2>2
<1>8. ASSUME ThreadMerges PROVE Quiet /\ Told
  <2>1. /\ disk' = disk /\ thread'.job = thread.job /\ UNCHANGED <<up, act, seen>>
        /\ \A s \in Server : mem'[s] \in {mem[s], thread.job}
    BY <1>3, <1>8 DEF ThreadMerges, Merges
  <2> QED
    BY <1>1, <1>2, <2>1
<1>9. ASSUME Hang PROVE Quiet /\ Told
  BY <1>1, <1>2, <1>3, <1>9 DEF Hang
<1>10. ASSUME NEW c \in Client, NEW s \in Server, PollAnswers(c, s) PROVE Quiet /\ Told
  <2>1. Current(s) \in Job \cup {NoJob} /\ Holds(Current(s))
    BY <1>1, <1>3 DEF Current
  <2>2. \A d \in Client : seen'[d] = seen[d] \/ seen'[d] = "unknown"
                          \/ (Current(s) \in Job /\ seen'[d] = Current(s).status)
    BY <1>3, <1>10, <2>1 DEF PollAnswers, Tell
  <2> QED
    BY <1>1, <1>2, <1>10, <2>1, <2>2 DEF PollAnswers
<1>11. ASSUME NEW c \in Client, NEW s \in Server, PollFindsStale(c, s) PROVE FALSE
  <2>1. Current(s) \in Job /\ Current(s).age # "stale"
    BY <1>1, <1>3, <1>11 DEF PollFindsStale, Current
  <2>2. disk \in Job => disk.age # "stale"
    BY <1>1
  <2>3. Age(Current(s)) # "stale"
    BY <1>3, <2>1, <2>2 DEF Age
  <2> QED
    BY <1>11, <2>3 DEF PollFindsStale, Stale
<1>12. ASSUME NEW a \in Actor, Acts(a) PROVE FALSE
  BY <1>1, <1>12 DEF Acts, FailSets, FailWrites, FailMerges
<1>13. ASSUME NEW s \in Server, Crash(s) PROVE FALSE
  <2>1. budget'.crashes = budget.crashes + 1 /\ budget.crashes \in Nat
    BY <1>13 DEF Crash, Spend, TypeInv, TypeOK
  <2> QED
    BY <2>1 DEF Calm
<1>14. ASSUME NEW s \in Server, Restart(s) PROVE FALSE
  BY <1>1, <1>14 DEF Restart
<1>15. ASSUME Tick PROVE FALSE
  BY <1>0, <1>15 DEF Tick
<1>16. ASSUME UNCHANGED vars PROVE Quiet /\ Told
  BY <1>1, <1>2, <1>16 DEF vars
<1>17. Quiet /\ Told
  <2> HIDE DEF Quiet, Told
  <2> QED
    BY <1>4, <1>5, <1>6, <1>7, <1>8, <1>9, <1>10, <1>11, <1>12, <1>13, <1>14, <1>15, <1>16
       DEF Next, ThreadStep, Complete, Fails, Polls
<1> QED
  BY <1>17 DEF CalmInv, Settles

(* A client told "completed" has a backtest that did complete, whatever     *)
(* dies and however late the writes come; and as long as nothing dies and   *)
(* the thread writes in time, a client told how it ended was told the last  *)
(* word.                                                                    *)
THEOREM VerdictsHold == Spec => []VerdictsAreTrue
<1>1. Init => TypeInv /\ ThreadInv /\ TruthInv /\ CalmInv
  <2>1. Init => ThreadInv
    BY DEF Init, ThreadInv
  <2>2. Init => TruthInv
    BY NoJobIsNone DEF Init, TruthInv, Truthful, CompletedIsTrue, Idle
  <2>3. Init => CalmInv
    BY NoJobIsNone DEF Init, CalmInv, Settles, Idle
  <2> QED
    BY <2>1, <2>2, <2>3, InitType
<1>2. TypeInv /\ ThreadInv /\ TruthInv /\ CalmInv /\ [Next]_vars
        => (TypeInv /\ ThreadInv /\ TruthInv /\ CalmInv)'
  BY TypeStep, ThreadStepOK, TruthStep, CalmStep
<1>3. TruthInv /\ CalmInv => VerdictsAreTrue
  BY DEF TruthInv, CalmInv, Calm, VerdictsAreTrue, VerdictIsFinal
<1> QED
  BY <1>1, <1>2, <1>3, PTL DEF Spec

-----------------------------------------------------------------------------
(* What file and memory say at the end.                                     *)

(* As long as the thread writes in time, nothing dies and no write raises,  *)
(* file and memory differ only in the middle of a write.                    *)
AlignInv ==
  Calm /\ budget.writes = 0 =>
    /\ thread.pc \in {"write", "merge"} => mem[Owner].status = thread.job.status
    /\ thread.pc = "merge" => disk.status = thread.job.status
    /\ thread.pc \in {"run", "hung", "dead"} => disk.status = mem[Owner].status

Over(job) == job \in Job => job.status \in Terminal

(* A server starts only after its thread died; what it writes is a failure; *)
(* and unless a write raised, whoever is done has left a final status.      *)
RecoveryInv ==
  /\ up[Owner] # "up" => thread.pc = "dead"
  /\ \A s \in Server : act[s].pc # "idle" => up[s] = "starting" /\ act[s].server = s
  /\ \A a \in Actor : act[a].pc \in {"write", "merge"} => act[a].job.status = "failed"
  /\ budget.writes = 0 =>
       /\ \A a \in Actor : act[a].pc # "skip"
       /\ thread.pc = "merge" /\ thread.job.status \in Terminal => Over(disk)
       /\ thread.pc = "dead" /\ up[Owner] = "up" => Over(disk)
       /\ act[Owner].pc = "merge" => Over(disk)

LEMMA NoWriteBefore ==
  ASSUME TypeInv, [Next]_vars, budget'.writes = 0
  PROVE  budget.writes = 0 /\ ~WriteFaults
<1>1. ~WriteFaults
  BY DEF WriteFaults, Spend, TypeInv, TypeOK
<1>2. CASE \E s \in Server : Crash(s)
  BY <1>1, <1>2 DEF Crash, Spend, TypeInv, TypeOK
<1>3. CASE budget' = budget
  BY <1>1, <1>3
<1> QED
  BY <1>1, <1>2, <1>3
     DEF Next, ThreadStep, Post, Progress, Complete, Fails, Ends, Sets, ThreadWrites, WritesDisk,
         ThreadMerges, Merges, Hang, Polls, Acts, PollAnswers, PollFindsStale, FailSets, FailWrites,
         FailMerges, Restart, Tick, vars

LEMMA AlignStep == TypeInv /\ CalmInv /\ AlignInv /\ [Next]_vars => AlignInv'
<1> SUFFICES ASSUME TypeInv, CalmInv, AlignInv, [Next]_vars, Calm', budget'.writes = 0
    PROVE  AlignInv'
  BY DEF AlignInv
<1> USE JobConstants
<1>1. /\ Calm /\ Calm' /\ budget.writes = 0 /\ ~WriteFaults
      /\ \A a \in Actor : act[a].pc = "idle"
      /\ \A s \in Server : up[s] = "up"
  BY CalmBefore, NoWriteBefore DEF CalmInv
<1>2. /\ thread \in [pc : {"post", "run", "write", "merge", "hung", "dead"}, job : Job \cup {NoJob}]
      /\ mem \in [Server -> Job \cup {NoJob}]
  BY DEF TypeInv, TypeOK
<1>3. ASSUME NEW job, Sets(job) PROVE AlignInv'
  BY <1>2, <1>3 DEF Sets, AlignInv
<1>4. CASE ThreadWrites
  <2>1. thread.job \in Job
    BY <1>4 DEF ThreadWrites, TypeInv, WorkInHand
  <2> QED
    BY <1>1, <1>2, <1>4, <2>1, FreshType DEF ThreadWrites, WritesDisk, AlignInv
<1>5. CASE ThreadMerges
  <2>1. mem[Owner] \in Job /\ thread.job \in Job
    BY <1>5 DEF ThreadMerges, TypeInv, WorkInHand
  <2>2. mem'[Owner] = thread.job /\ disk' = disk /\ thread'.pc \in {"run", "dead"}
    BY <1>2, <1>5, <2>1, NoJobIsNone DEF ThreadMerges, Merges, AfterWrite
  <2> QED
    BY <1>1, <1>5, <2>2 DEF ThreadMerges, AlignInv
<1>6. CASE Hang
  BY <1>1, <1>2, <1>6 DEF Hang, AlignInv
<1>7. CASE UNCHANGED <<thread, mem, disk>>
  BY <1>1, <1>7 DEF AlignInv
<1>8. ASSUME NEW c \in Client, NEW s \in Server, PollFindsStale(c, s) PROVE AlignInv'
  BY <1>7, <1>8 DEF PollFindsStale
<1>9. ASSUME NEW a \in Actor, Acts(a) PROVE FALSE
  BY <1>1, <1>9 DEF Acts, FailSets, FailWrites, FailMerges
<1>10. ASSUME NEW s \in Server, Crash(s) PROVE FALSE
  BY <1>1, <1>10 DEF Crash, Calm, Spend, TypeInv, TypeOK
<1>11. ASSUME NEW s \in Server, Restart(s) PROVE FALSE
  BY <1>1, <1>11 DEF Restart
<1>12. ~Tick
  BY <1>1 DEF Tick, Calm
<1> QED
  BY <1>3, <1>4, <1>5, <1>6, <1>7, <1>8, <1>9, <1>10, <1>11, <1>12
     DEF Next, ThreadStep, Post, Progress, Complete, Fails, Ends, Polls, PollAnswers, vars

LEMMA RecoveryStep == TypeInv /\ RecoveryInv /\ [Next]_vars => RecoveryInv'
<1> SUFFICES ASSUME TypeInv, RecoveryInv, [Next]_vars PROVE RecoveryInv'
  OBVIOUS
<1> USE JobConstants, NoJobIsNone
<1>0. /\ thread \in [pc : {"post", "run", "write", "merge", "hung", "dead"}, job : Job \cup {NoJob}]
      /\ act \in [Actor -> Act] /\ up \in [Server -> {"down", "starting", "up"}]
      /\ disk \in Job \cup {NoJob}
  BY DEF TypeInv, TypeOK, Act
<1>1. budget'.writes = 0 => budget.writes = 0 /\ ~WriteFaults
  BY NoWriteBefore
<1>2. ASSUME NEW job, Sets(job), thread.pc \in {"post", "run"} PROVE RecoveryInv'
  BY <1>0, <1>1, <1>2 DEF Sets, RecoveryInv
<1>3. CASE ThreadWrites
  <2>1. thread.job \in Job /\ up[Owner] = "up" /\ act[Owner].pc = "idle"
    BY <1>3 DEF ThreadWrites, TypeInv, WorkInHand, RecoveryInv
  <2>2. Fresh(thread.job) \in Job /\ Fresh(thread.job).status = thread.job.status
    BY <2>1, FreshType
  <2> QED
    BY <1>0, <1>1, <1>3, <2>1, <2>2 DEF ThreadWrites, WritesDisk, RecoveryInv, Over
<1>4. CASE ThreadMerges
  <2>1. /\ UNCHANGED <<disk, act, up, budget>>
        /\ thread'.pc = IF thread.job.status \in Terminal THEN "dead" ELSE "run"
        /\ thread.pc = "merge"
    BY <1>0, <1>4 DEF ThreadMerges, Merges, AfterWrite
  <2> QED
    BY <1>0, <2>1 DEF RecoveryInv
<1>5. CASE Hang
  BY <1>0, <1>5 DEF Hang, RecoveryInv
<1>6. ASSUME NEW c \in Client, NEW s \in Server, PollFindsStale(c, s) PROVE RecoveryInv'
  BY <1>0, <1>6 DEF PollFindsStale, RecoveryInv
<1>7. ASSUME NEW a \in Actor, FailSets(a) PROVE RecoveryInv'
  <2> DEFINE failed == [act[a].job EXCEPT !.status = "failed", !.age = "unset"]
  <2>1. act[a].job \in Job
    BY <1>7 DEF FailSets, TypeInv, WorkInHand
  <2>2. failed.status = "failed"
    BY <2>1 DEF Job
  <2>3. /\ act'[a] = [act[a] EXCEPT !.pc = "write", !.job = failed]
        /\ \A b \in Actor \ {a} : act'[b] = act[b]
        /\ UNCHANGED <<disk, up, thread, budget>>
    BY <1>0, <1>7 DEF FailSets
  <2>4. act'[a].pc = "write" /\ act'[a].job = failed /\ act'[a].server = act[a].server
    BY <1>0, <2>3 DEF Act
  <2>5. act[a].pc = "fail"
    BY <1>7 DEF FailSets
  <2>6. ASSUME NEW b \in Actor
        PROVE  /\ act'[b].pc # "idle" => act[b].pc # "idle" /\ act'[b].server = act[b].server
               /\ act'[b].pc \in {"write", "merge"} => act'[b].job.status = "failed"
               /\ act'[b].pc \in {"merge", "skip"} => act[b].pc = act'[b].pc
    <3>1. CASE b = a
      BY <2>2, <2>4, <2>5, <3>1
    <3>2. CASE b # a
      BY <2>3, <3>2 DEF RecoveryInv
    <3> QED
      BY <3>1, <3>2
  <2> HIDE DEF failed
  <2> QED
    BY <2>3, <2>5, <2>6 DEF RecoveryInv
<1>8. ASSUME NEW a \in Actor, FailWrites(a) PROVE RecoveryInv'
  <2>1. act[a].job \in Job /\ act[a].job.status = "failed"
    BY <1>8 DEF FailWrites, TypeInv, WorkInHand, RecoveryInv
  <2>2. Fresh(act[a].job) \in Job /\ Fresh(act[a].job).status = "failed"
    BY <2>1, FreshType
  <2>3. CASE WritesDisk(act[a].job) /\ act' = [act EXCEPT ![a].pc = "merge", ![a].job = Fresh(@)]
    <3>1. /\ disk' = Fresh(act[a].job) /\ UNCHANGED <<up, thread, budget>>
          /\ act'[a] = [act[a] EXCEPT !.pc = "merge", !.job = Fresh(@)]
          /\ \A b \in Actor \ {a} : act'[b] = act[b]
      BY <1>0, <1>8, <2>3 DEF FailWrites, WritesDisk
    <3>2. act'[a].pc = "merge" /\ act'[a].job = Fresh(act[a].job) /\ act'[a].server = act[a].server
      BY <1>0, <3>1 DEF Act
    <3>3. Over(disk') /\ act[a].pc = "write"
      BY <1>8, <2>2, <3>1 DEF FailWrites, Over
    <3>4. ASSUME NEW b \in Actor
          PROVE  /\ act'[b].pc # "idle" => act[b].pc # "idle" /\ act'[b].server = act[b].server
                 /\ act'[b].pc \in {"write", "merge"} => act'[b].job.status = "failed"
                 /\ act'[b].pc = "skip" => act[b].pc = "skip"
      <4>1. CASE b = a
        BY <2>2, <3>2, <3>3, <4>1
      <4>2. CASE b # a
        BY <3>1, <4>2 DEF RecoveryInv
      <4> QED
        BY <4>1, <4>2
    <3> QED
      BY <3>1, <3>3, <3>4 DEF RecoveryInv
  <2>4. CASE WriteFaults /\ act' = [act EXCEPT ![a].pc = "skip"]
    <3>1. act'[a] = [act[a] EXCEPT !.pc = "skip"] /\ \A b \in Actor \ {a} : act'[b] = act[b]
      BY <1>0, <2>4
    <3>2. act'[a].pc = "skip" /\ act'[a].server = act[a].server
      BY <1>0, <3>1 DEF Act
    <3> QED
      BY <1>1, <1>8, <2>4, <3>1, <3>2 DEF FailWrites, RecoveryInv
  <2> QED
    BY <1>8, <2>3, <2>4 DEF FailWrites
<1>9. ASSUME NEW a \in Actor, FailMerges(a) PROVE RecoveryInv'
  <2>1. /\ act'[a].pc = "idle" /\ \A b \in Actor \ {a} : act'[b] = act[b]
        /\ UNCHANGED <<disk, thread, budget>>
        /\ up' = IF a \in Client THEN up ELSE [up EXCEPT ![a] = "up"]
        /\ act[a].pc \in {"merge", "skip"}
    BY <1>0, <1>9 DEF FailMerges, Merges, Idle
  <2> QED
    BY <1>0, <2>1 DEF RecoveryInv
<1>10. ASSUME NEW s \in Server, Crash(s) PROVE RecoveryInv'
  <2>1. /\ up' = [up EXCEPT ![s] = "down"] /\ disk' = disk
        /\ thread' = IF s = Owner THEN [thread EXCEPT !.pc = "dead"] ELSE thread
        /\ \A a \in Actor : act'[a] = IF act[a].server = s THEN Idle(s) ELSE act[a]
    BY <1>10 DEF Crash
  <2>2. Idle(s).pc = "idle"
    BY DEF Idle
  <2>3. budget'.writes = budget.writes
    BY <1>10 DEF Crash, Spend, TypeInv, TypeOK
  <2>4. /\ up'[Owner] # "up" => thread'.pc = "dead"
        /\ up'[Owner] = "up" => s # Owner /\ thread' = thread /\ up[Owner] = "up"
    BY <1>0, <2>1 DEF RecoveryInv
  <2>5. \A t \in Server : act'[t].pc # "idle" => up'[t] = "starting" /\ act'[t].server = t
    BY <1>0, <2>1, <2>2 DEF RecoveryInv
  <2>6. \A a \in Actor : act'[a].pc = "idle" \/ act'[a] = act[a]
    BY <2>1, <2>2
  <2>7. thread'.pc = "merge" => thread' = thread
    BY <1>0, <2>1
  <2> QED
    BY <2>1, <2>3, <2>4, <2>5, <2>6, <2>7 DEF RecoveryInv
<1>11. ASSUME NEW s \in Server, Restart(s) PROVE RecoveryInv'
  <2>1. UNCHANGED <<disk, thread, budget>> /\ up[s] = "down"
    BY <1>11 DEF Restart
  <2>2. CASE Orphan
    <3>1. /\ act'[s].pc = "fail" /\ act'[s].server = s
          /\ \A b \in Actor \ {s} : act'[b] = act[b]
          /\ up' = [up EXCEPT ![s] = "starting"]
      BY <1>0, <1>11, <2>2 DEF Restart
    <3> QED
      BY <1>0, <2>1, <3>1 DEF RecoveryInv
  <2>3. CASE ~Orphan
    <3>1. Over(disk)
      BY <1>0, <2>3 DEF Orphan, Over, Job
    <3>2. act' = act /\ up' = [up EXCEPT ![s] = "up"]
      BY <1>11, <2>3 DEF Restart
    <3> QED
      BY <1>0, <2>1, <3>1, <3>2 DEF RecoveryInv
  <2> QED
    BY <2>2, <2>3
<1>12. CASE Tick
  <2>1. /\ UNCHANGED <<up, budget>> /\ disk' = Ageing(disk)
        /\ thread'.pc = thread.pc /\ thread'.job = Ageing(thread.job)
        /\ \A a \in Actor : /\ act'[a].pc = act[a].pc /\ act'[a].server = act[a].server
                            /\ act'[a].job = Ageing(act[a].job)
    BY <1>0, <1>12 DEF Tick, Act
  <2>2. Over(disk) => Over(disk')
    BY <1>0, <2>1, AgeingType DEF Over, Ageing
  <2>3. \A a \in Actor : act[a].pc \in {"write", "merge"} => act'[a].job.status = act[a].job.status
    BY <2>1, AgeingType DEF TypeInv, WorkInHand
  <2>4. thread.pc = "merge" => thread'.job.status = thread.job.status
    BY <2>1, AgeingType DEF TypeInv, WorkInHand
  <2> QED
    BY <2>1, <2>2, <2>3, <2>4 DEF RecoveryInv
<1>13. CASE UNCHANGED <<disk, up, thread, act, budget>>
  BY <1>13 DEF RecoveryInv
<1>14. ASSUME NEW c \in Client, NEW s \in Server, PollAnswers(c, s) PROVE RecoveryInv'
  <2>1. /\ act'[c].pc = act[c].pc /\ act'[c].job = act[c].job
        /\ \A b \in Actor \ {c} : act'[b] = act[b]
    BY <1>0, <1>14 DEF PollAnswers
  <2>2. UNCHANGED <<disk, up, thread, budget>>
    BY <1>14 DEF PollAnswers
  <2>3. c \notin Server
    OBVIOUS
  <2> QED
    BY <2>1, <2>2, <2>3 DEF RecoveryInv, Actor
<1> QED
  BY <1>2, <1>3, <1>4, <1>5, <1>6, <1>7, <1>8, <1>9, <1>10, <1>11, <1>12, <1>13, <1>14
     DEF Next, ThreadStep, Post, Progress, Complete, Fails, Ends, Polls, Acts, vars

(* Once the thread has ended and nothing is under way, the owner's copy and *)
(* job.json agree, if nothing failed or was late; and after a restart       *)
(* job.json says how the job ended, whatever died, if no write raised.      *)
THEOREM TheFileSettles == Spec => []FileSettles
<1> DEFINE Inv == TypeInv /\ ThreadInv /\ CalmInv /\ AlignInv /\ RecoveryInv
<1>1. Init => Inv
  <2>1. Init => ThreadInv /\ CalmInv /\ AlignInv
    BY NoJobIsNone DEF Init, ThreadInv, CalmInv, AlignInv, Settles, Idle
  <2>2. Init => RecoveryInv
    BY JobConstants, NoJobIsNone DEF Init, RecoveryInv, Over, Idle
  <2> QED
    BY <2>1, <2>2, InitType
<1>2. Inv /\ [Next]_vars => Inv'
  BY TypeStep, ThreadStepOK, CalmStep, AlignStep, RecoveryStep
<1>3. Inv => FileSettles
  <2> SUFFICES ASSUME Inv PROVE FileSettles
    OBVIOUS
  <2>1. Aligned
    BY DEF Aligned, AlignInv, Calm, Settled
  <2>2. RestartLeavesNothingRunning
    BY DEF RestartLeavesNothingRunning, RecoveryInv, Over, Settled, TypeInv, TypeOK
  <2> QED
    BY <2>1, <2>2 DEF FileSettles
<1> HIDE DEF Inv
<1> QED
  BY <1>1, <1>2, <1>3, PTL DEF Spec

HIDE DEF Active, Terminal, Actor

-----------------------------------------------------------------------------
(* The engine: its book.                                                    *)

(* What the operations on a book rely on, and keep.                         *)
AnySlot == {Slot(s, min) : s \in Symbol, min \in Nat}
Holding == [dir : {-1, 0, 1}, size : Nat, entry : Nat, margin : Nat, bar : Nat, fee : Nat]
ExitReason == {"none", "signal", "liquidation", "stop_loss", "take_profit", "timeout", "end_of_backtest"}
Exit == [bar : Nat \cup {Never}, why : ExitReason]

Book ==
  [capital : Int, pos : [Symbol -> Holding], lastEntry : [Symbol -> Nat \cup {Never}],
   funded : SUBSET AnySlot, pnl : Int, commission : Nat, exit : [Symbol -> Exit],
   paid : Nat, settled : Int]

(* A symbol has a position with something in it, or none.                   *)
BookOK(b) ==
  b \in Book /\ \A s \in Symbol : IF Held(b, s) THEN b.pos[s].size > 0 ELSE b.pos[s] = Flat

(* The sides of MoneyIsExplained, as far as the book has them.              *)
Balance(b) == b.capital + OpenMargins(b) - b.pnl + b.paid + b.settled
Unbooked(b) == b.paid - b.commission - OpenFees(b)

(* b and c differ in nothing but s, and in money that is explained.         *)
OnlyMoves(b, c, s) ==
  /\ Balance(c) = Balance(b) /\ Unbooked(c) = Unbooked(b)
  /\ \A x \in Symbol \ {s} :
       c.pos[x] = b.pos[x] /\ c.lastEntry[x] = b.lastEntry[x] /\ c.exit[x] = b.exit[x]

(* c is b after the position of s was closed.                               *)
IsClosed(b, c, s, why, at) ==
  /\ Held(b, s) /\ c.pos[s] = Flat /\ c.exit[s] = [bar |-> at, why |-> why]
  /\ c.lastEntry[s] = b.lastEntry[s]

(* c has the same position of s as b.                                       *)
IsUntouched(b, c, s) ==
  /\ c.pos[s] = b.pos[s] /\ c.exit[s] = b.exit[s] /\ c.lastEntry[s] = b.lastEntry[s]
  /\ c.commission = b.commission

-----------------------------------------------------------------------------
LEMMA SymbolsFinite == IsFiniteSet(Symbol)
BY BookConstants, FS_Interval DEF Symbol

LEMMA MoneyTypes ==
  ASSUME NEW size \in Nat, NEW px \in Nat
  PROVE  /\ Money(size, px) \in Nat /\ InitialMargin(size, px) \in Nat
         /\ Money(size, px) \div MakerDiv \in Nat /\ Money(size, px) \div TakerDiv \in Nat
         /\ Money(size, px) \div FundDiv \in Nat
<1>1. Money(size, px) \in Nat
  BY BookConstants DEF Money
<1> DEFINE m == Money(size, px)
<1>2. m \in Int /\ m >= 0
  BY <1>1
<1>3. /\ Leverage \in Nat \ {0} /\ MakerDiv \in Nat \ {0} /\ TakerDiv \in Nat \ {0}
      /\ FundDiv \in Nat \ {0}
  BY BookConstants
<1> HIDE DEF m
<1>4. \A d \in Nat \ {0} : m \div d \in Nat
  BY <1>2, DivBounds
<1> QED
  BY <1>1, <1>3, <1>4 DEF InitialMargin, m

LEMMA UnrealizedType ==
  ASSUME NEW p \in Holding, NEW px \in Int
  PROVE  Unrealized(p, px) \in Int
<1>1. p.dir \in Int /\ p.size \in Int /\ px - p.entry \in Int /\ Unit \in Int
  BY BookConstants DEF Holding
<1> QED
  BY <1>1 DEF Unrealized

(* A price with its slippage is a price.                                    *)
LEMMA SlippedPrice ==
  ASSUME NEW px \in Nat, NEW dir \in {-1, 0, 1}
  PROVE  Slipped(px, dir) \in Nat /\ (px > 0 => Slipped(px, dir) > 0)
<1> DEFINE e == px \div SlipDiv
<1>1. SlipDiv \in Nat \ {0} /\ SlipDiv >= 2
  BY BookConstants
<1>2. e \in Nat /\ SlipDiv * e <= px
  BY <1>1, DivBounds
<1> HIDE DEF e
<1>3. SlipDiv * e >= 2 * e
  BY <1>1, <1>2
<1>4. e <= px /\ (px > 0 => e < px)
  BY <1>1, <1>2, <1>3
<1>5. Slipped(px, dir) = px + dir * e
  BY DEF Slipped, e
<1> QED
  BY <1>2, <1>4, <1>5

(* Target and stop are prices, too.                                         *)
LEMMA TriggerPrices ==
  ASSUME NEW p \in Holding
  PROVE  (TakeDiv > 0 => TakePrice(p) \in Nat) /\ (StopDiv > 0 => StopPrice(p) \in Nat)
<1>1. p.entry \in Nat /\ p.dir \in {-1, 0, 1}
  BY DEF Holding
<1>2. ASSUME NEW d \in Nat \ {0} PROVE p.entry \div d \in Nat /\ p.entry \div d <= p.entry
  <2>1. p.entry <= d * p.entry
    BY <1>1
  <2> QED
    BY <1>1, <2>1, DivBounds, DivAtMost
<1>3. ASSUME TakeDiv > 0 PROVE TakePrice(p) \in Nat
  <2>1. p.entry \div TakeDiv \in Nat /\ p.entry \div TakeDiv <= p.entry
    BY <1>2, <1>3, BookConstants
  <2> QED
    BY <1>1, <2>1 DEF TakePrice
<1>4. ASSUME StopDiv > 0 PROVE StopPrice(p) \in Nat
  <2>1. p.entry \div StopDiv \in Nat /\ p.entry \div StopDiv <= p.entry
    BY <1>2, <1>4, BookConstants
  <2> QED
    BY <1>1, <2>1 DEF StopPrice
<1> QED
  BY <1>3, <1>4

-----------------------------------------------------------------------------
(* The sums over the positions.                                             *)
LEMMA BookSums ==
  ASSUME NEW b \in Book
  PROVE  OpenMargins(b) \in Int /\ OpenFees(b) \in Int
<1>1. \A s \in Symbol : b.pos[s].margin \in Int /\ b.pos[s].fee \in Int
  BY DEF Book, Holding
<1> DEFINE m == [s \in Symbol |-> b.pos[s].margin]
           f == [s \in Symbol |-> b.pos[s].fee]
<1>2. \A s \in Symbol : m[s] \in Int /\ f[s] \in Int
  BY <1>1
<1>3. OpenMargins(b) = SumFunctionOnSet(m, Symbol) /\ OpenFees(b) = SumFunctionOnSet(f, Symbol)
  BY DEF OpenMargins, OpenFees
<1> HIDE DEF m, f
<1> QED
  BY <1>2, <1>3, SymbolsFinite, SumType

LEMMA SumsChange ==
  ASSUME NEW b \in Book, NEW c \in Book, NEW s \in Symbol,
         \A x \in Symbol \ {s} : c.pos[x] = b.pos[x]
  PROVE  /\ OpenMargins(c) = OpenMargins(b) + c.pos[s].margin - b.pos[s].margin
         /\ OpenFees(c) = OpenFees(b) + c.pos[s].fee - b.pos[s].fee
<1>1. \A x \in Symbol : /\ b.pos[x].margin \in Int /\ b.pos[x].fee \in Int
                        /\ c.pos[x].margin \in Int /\ c.pos[x].fee \in Int
  BY DEF Book, Holding
<1> DEFINE mb == [x \in Symbol |-> b.pos[x].margin]
           mc == [x \in Symbol |-> c.pos[x].margin]
           fb == [x \in Symbol |-> b.pos[x].fee]
           fc == [x \in Symbol |-> c.pos[x].fee]
<1>2. /\ \A x \in Symbol : mb[x] \in Int /\ mc[x] \in Int /\ fb[x] \in Int /\ fc[x] \in Int
      /\ \A x \in Symbol \ {s} : mc[x] = mb[x] /\ fc[x] = fb[x]
      /\ mc[s] = c.pos[s].margin /\ mb[s] = b.pos[s].margin
      /\ fc[s] = c.pos[s].fee /\ fb[s] = b.pos[s].fee
  BY <1>1
<1>3. /\ OpenMargins(b) = SumFunctionOnSet(mb, Symbol) /\ OpenFees(b) = SumFunctionOnSet(fb, Symbol)
      /\ OpenMargins(c) = SumFunctionOnSet(mc, Symbol) /\ OpenFees(c) = SumFunctionOnSet(fc, Symbol)
  BY DEF OpenMargins, OpenFees
<1> HIDE DEF mb, mc, fb, fc
<1>4. SumFunctionOnSet(mc, Symbol) = SumFunctionOnSet(mb, Symbol) + mc[s] - mb[s]
  <2>1. /\ \A x \in Symbol : mb[x] \in Int /\ mc[x] \in Int
        /\ \A x \in Symbol \ {s} : mc[x] = mb[x]
    BY <1>2
  <2> QED
    BY <2>1, SymbolsFinite, SumChange
<1>5. SumFunctionOnSet(fc, Symbol) = SumFunctionOnSet(fb, Symbol) + fc[s] - fb[s]
  <2>1. /\ \A x \in Symbol : fb[x] \in Int /\ fc[x] \in Int
        /\ \A x \in Symbol \ {s} : fc[x] = fb[x]
    BY <1>2
  <2> QED
    BY <2>1, SymbolsFinite, SumChange
<1> QED
  BY <1>2, <1>3, <1>4, <1>5

(* The equity at a price for each symbol.                                   *)
PriceOf == [Symbol -> Nat]

LEMMA EquityType ==
  ASSUME NEW b \in Book, NEW px \in PriceOf
  PROVE  Equity(b, px) \in Int
<1> DEFINE v == [s \in Symbol |-> b.pos[s].margin + Unrealized(b.pos[s], px[s])]
<1>1. \A s \in Symbol : v[s] \in Int
  <2> SUFFICES ASSUME NEW s \in Symbol PROVE v[s] \in Int
    OBVIOUS
  <2>1. b.pos[s] \in Holding /\ px[s] \in Int
    BY DEF Book, PriceOf
  <2>2. b.pos[s].margin \in Int /\ Unrealized(b.pos[s], px[s]) \in Int
    BY <2>1, UnrealizedType DEF Holding
  <2> QED
    BY <2>2
<1>2. Equity(b, px) = b.capital + SumFunctionOnSet(v, Symbol)
  BY DEF Equity
<1>3. b.capital \in Int
  BY DEF Book
<1> HIDE DEF v
<1> QED
  BY <1>1, <1>2, <1>3, SymbolsFinite, SumType

LEMMA EquityChanges ==
  ASSUME NEW b \in Book, NEW c \in Book, NEW px \in PriceOf, NEW s \in Symbol,
         \A x \in Symbol \ {s} : c.pos[x] = b.pos[x]
  PROVE  Equity(c, px) = Equity(b, px) + c.capital - b.capital
           + c.pos[s].margin - b.pos[s].margin + Unrealized(c.pos[s], px[s]) - Unrealized(b.pos[s], px[s])
<1> DEFINE v == [x \in Symbol |-> b.pos[x].margin + Unrealized(b.pos[x], px[x])]
           w == [x \in Symbol |-> c.pos[x].margin + Unrealized(c.pos[x], px[x])]
<1>1. ASSUME NEW x \in Symbol
      PROVE  /\ b.pos[x].margin \in Int /\ Unrealized(b.pos[x], px[x]) \in Int
             /\ c.pos[x].margin \in Int /\ Unrealized(c.pos[x], px[x]) \in Int
  <2>1. b.pos[x] \in Holding /\ c.pos[x] \in Holding /\ px[x] \in Int
    BY DEF Book, PriceOf
  <2> QED
    BY <2>1, UnrealizedType DEF Holding
<1>2. /\ \A x \in Symbol : v[x] \in Int /\ w[x] \in Int
      /\ \A x \in Symbol \ {s} : w[x] = v[x]
      /\ v[s] = b.pos[s].margin + Unrealized(b.pos[s], px[s])
      /\ w[s] = c.pos[s].margin + Unrealized(c.pos[s], px[s])
  BY <1>1
<1>3. /\ Equity(b, px) = b.capital + SumFunctionOnSet(v, Symbol)
      /\ Equity(c, px) = c.capital + SumFunctionOnSet(w, Symbol)
      /\ b.capital \in Int /\ c.capital \in Int
  BY DEF Equity, Book
<1> HIDE DEF v, w
<1>4. SumFunctionOnSet(w, Symbol) = SumFunctionOnSet(v, Symbol) + w[s] - v[s]
  BY <1>2, SymbolsFinite, SumChange
<1>5. SumFunctionOnSet(v, Symbol) \in Int
  BY <1>2, SymbolsFinite, SumType
<1> QED
  BY <1>1, <1>2, <1>3, <1>4, <1>5

-----------------------------------------------------------------------------
(* Closing a position, at whatever price.                                   *)
LEMMA FlatIsNothing ==
  /\ Flat \in Holding /\ Flat.margin = 0 /\ Flat.fee = 0 /\ Flat.dir = 0 /\ Flat.bar = 0
  /\ \A px \in Int : Unrealized(Flat, px) = 0
BY BookConstants DEF Flat, Holding, Unrealized

LEMMA CloseEffect ==
  ASSUME NEW b, BookOK(b), NEW s \in Symbol, NEW px \in Nat, NEW why \in ExitReason, NEW at \in Nat,
         NEW c, c = Close(b, s, px, why, at)
  PROVE  /\ BookOK(c) /\ OnlyMoves(b, c, s)
         /\ IF Held(b, s) THEN IsClosed(b, c, s, why, at) ELSE c = b
         /\ \A P \in PriceOf : P[s] = px => Equity(c, P) = Equity(b, P) - (c.paid - b.paid)
<1> DEFINE p == b.pos[s]
           gain == Unrealized(p, px)
           fee == Money(p.size, px) \div MakerDiv
<1>1. b \in Book /\ p \in Holding
  BY DEF BookOK, Book
<1>2. gain \in Int /\ fee \in Nat /\ p.margin \in Nat /\ p.fee \in Nat
  <2>1. p.size \in Nat /\ p.margin \in Nat /\ p.fee \in Nat
    BY <1>1 DEF Holding
  <2> HIDE DEF p
  <2>2. Money(p.size, px) \div MakerDiv \in Nat
    BY <2>1, MoneyTypes, Zenon
  <2>3. Unrealized(p, px) \in Int
    BY <1>1, UnrealizedType
  <2> QED
    BY <2>1, <2>2, <2>3
<1>3. CASE ~Held(b, s)
  <2>1. c = b
    BY <1>3 DEF Close, Held
  <2>2. OnlyMoves(b, b, s)
    BY DEF OnlyMoves
  <2>3. b.paid \in Int
    BY <1>1 DEF Book
  <2>4. \A P \in PriceOf : Equity(b, P) \in Int
    BY <1>1, EquityType
  <2> QED
    BY <1>3, <2>1, <2>2, <2>3, <2>4
<1>4. CASE Held(b, s)
  <2> DEFINE d == [b EXCEPT !.capital = @ + p.margin + gain - fee, !.pos[s] = Flat, !.pnl = @ + gain,
                   !.commission = @ + p.fee + fee, !.exit[s] = [bar |-> at, why |-> why],
                   !.paid = @ + fee]
  <2>1. c = d
    BY <1>4 DEF Close, Held
  <2>2. /\ b.capital \in Int /\ b.pnl \in Int /\ b.commission \in Nat /\ b.paid \in Nat /\ b.settled \in Int
        /\ b.pos \in [Symbol -> Holding] /\ b.exit \in [Symbol -> Exit]
        /\ b.lastEntry \in [Symbol -> Nat \cup {Never}] /\ b.funded \in SUBSET AnySlot
    BY <1>1 DEF Book
  <2>3. [bar |-> at, why |-> why] \in Exit
    BY DEF Exit
  <2> HIDE DEF gain, fee
  <2>4. /\ c.capital = b.capital + p.margin + gain - fee /\ c.pnl = b.pnl + gain
        /\ c.commission = b.commission + p.fee + fee /\ c.paid = b.paid + fee
        /\ c.settled = b.settled /\ c.funded = b.funded /\ c.lastEntry = b.lastEntry
        /\ c.pos = [b.pos EXCEPT ![s] = Flat]
        /\ c.exit = [b.exit EXCEPT ![s] = [bar |-> at, why |-> why]]
    BY <1>1, <2>1 DEF Book
  <2>5. c = [capital |-> c.capital, pos |-> c.pos, lastEntry |-> c.lastEntry, funded |-> c.funded,
             pnl |-> c.pnl, commission |-> c.commission, exit |-> c.exit, paid |-> c.paid,
             settled |-> c.settled]
    BY <1>1, <2>1 DEF Book
  <2>6. c.pos \in [Symbol -> Holding] /\ c.exit \in [Symbol -> Exit]
    BY <2>2, <2>3, <2>4, FlatIsNothing
  <2>7. c.capital \in Int /\ c.pnl \in Int /\ c.commission \in Nat /\ c.paid \in Nat
    BY <1>2, <2>2, <2>4
  <2> HIDE DEF d
  <2>8. c \in Book
    BY <2>2, <2>4, <2>5, <2>6, <2>7 DEF Book
  <2>9. /\ c.pos[s] = Flat /\ c.exit[s] = [bar |-> at, why |-> why]
        /\ \A x \in Symbol \ {s} : c.pos[x] = b.pos[x] /\ c.exit[x] = b.exit[x]
    BY <2>2, <2>4
  <2>10. BookOK(c)
    BY <2>8, <2>9, FlatIsNothing DEF BookOK, Held
  <2>11. /\ OpenMargins(c) = OpenMargins(b) - p.margin /\ OpenFees(c) = OpenFees(b) - p.fee
         /\ OpenMargins(b) \in Int /\ OpenFees(b) \in Int
    <3>1. /\ OpenMargins(c) = OpenMargins(b) + c.pos[s].margin - b.pos[s].margin
          /\ OpenFees(c) = OpenFees(b) + c.pos[s].fee - b.pos[s].fee
      BY <1>1, <2>8, <2>9, SumsChange
    <3>2. OpenMargins(b) \in Int /\ OpenFees(b) \in Int
      BY <1>1, BookSums
    <3> QED
      BY <1>2, <2>9, <3>1, <3>2, FlatIsNothing
  <2>12. Balance(c) = Balance(b)
    <3>1. Balance(c) = (b.capital + p.margin + gain - fee) + (OpenMargins(b) - p.margin)
                         - (b.pnl + gain) + (b.paid + fee) + b.settled
      BY <2>4, <2>11 DEF Balance
    <3> HIDE DEF p
    <3> QED
      BY <1>2, <2>2, <2>11, <3>1 DEF Balance
  <2>13. Unbooked(c) = Unbooked(b)
    <3>1. Unbooked(c) = (b.paid + fee) - (b.commission + p.fee + fee) - (OpenFees(b) - p.fee)
      BY <2>4, <2>11 DEF Unbooked
    <3> HIDE DEF p
    <3> QED
      BY <1>2, <2>2, <2>11, <3>1 DEF Unbooked
  <2>14. OnlyMoves(b, c, s)
    BY <2>4, <2>9, <2>12, <2>13 DEF OnlyMoves
  <2>15. IsClosed(b, c, s, why, at)
    BY <1>4, <2>4, <2>9 DEF IsClosed
  <2>16. ASSUME NEW P \in PriceOf, P[s] = px
         PROVE  Equity(c, P) = Equity(b, P) - (c.paid - b.paid)
    <3>1. Equity(c, P) = Equity(b, P) + c.capital - b.capital
            + c.pos[s].margin - b.pos[s].margin + Unrealized(c.pos[s], P[s]) - Unrealized(b.pos[s], P[s])
      BY <1>1, <2>8, <2>9, EquityChanges
    <3>2. Unrealized(c.pos[s], P[s]) = 0 /\ Unrealized(b.pos[s], P[s]) = gain /\ c.pos[s].margin = 0
      BY <2>9, <2>16, FlatIsNothing DEF gain
    <3>3. Equity(b, P) \in Int
      BY <1>1, EquityType
    <3> DEFINE e == Equity(b, P)
               m == b.pos[s].margin
    <3>4. Equity(c, P) = e + (b.capital + m + gain - fee) - b.capital + 0 - m + 0 - gain
      BY <2>4, <3>1, <3>2
    <3>5. e \in Int /\ m \in Int
      BY <1>2, <3>3
    <3> HIDE DEF e, m
    <3>6. Equity(c, P) = e - fee
      BY <1>2, <2>2, <3>4, <3>5
    <3>7. c.paid - b.paid = fee
      BY <1>2, <2>2, <2>4
    <3> QED
      BY <3>6, <3>7 DEF e
  <2> QED
    BY <1>4, <2>10, <2>14, <2>15, <2>16
<1> QED
  BY <1>3, <1>4

(* Closing it with slippage.                                                *)
LEMMA MarketCloseEffect ==
  ASSUME NEW b, BookOK(b), NEW s \in Symbol, NEW px \in Nat, NEW why \in ExitReason, NEW at \in Nat,
         NEW c, c = CloseAtMarket(b, s, px, why, at)
  PROVE  /\ BookOK(c) /\ OnlyMoves(b, c, s)
         /\ IF Held(b, s) THEN IsClosed(b, c, s, why, at) ELSE c = b
<1> DEFINE fill == Slipped(px, -b.pos[s].dir)
<1>1. b.pos[s].dir \in {-1, 0, 1}
  BY DEF BookOK, Book, Holding
<1>2. fill \in Nat
  <2>1. -b.pos[s].dir \in {-1, 0, 1}
    BY <1>1
  <2> QED
    BY <2>1, SlippedPrice
<1>3. c = Close(b, s, fill, why, at)
  BY DEF CloseAtMarket
<1> HIDE DEF fill
<1> QED
  BY <1>2, <1>3, CloseEffect

-----------------------------------------------------------------------------
(* The steps of a mark.                                                     *)
Bar4 == [open : Nat, high : Nat, low : Nat, close : Nat]

(* What no check of a bar objects to.                                       *)
Survives(p, k, at) ==
  /\ ~IsUnderwater(p, k.close)
  /\ at > p.bar => ~HitsStop(p, k) /\ ~HitsTake(p, k)
  /\ MaxHold > 0 => at - p.bar < MaxHold

(* A position is closed by a check, or it passes the check.                 *)
ClosesOr(b, c, s, at, reasons, passes) ==
  /\ BookOK(c) /\ OnlyMoves(b, c, s)
  /\ \/ c = b /\ (Held(b, s) => passes)
     \/ \E why \in reasons : IsClosed(b, c, s, why, at)

LEMMA FundingEffect ==
  ASSUME NEW b, BookOK(b), NEW s \in Symbol, NEW px \in Nat, NEW min \in Nat,
         NEW c, c = ApplyFunding(b, s, px, min)
  PROVE  BookOK(c) /\ OnlyMoves(b, c, s) /\ IsUntouched(b, c, s)
<1> DEFINE p == b.pos[s]
           fee == p.dir * (Money(p.size, px) \div FundDiv)
<1>1. b \in Book /\ p \in Holding
  BY DEF BookOK, Book
<1>2. fee \in Int
  <2>1. p.dir \in Int /\ p.size \in Nat
    BY <1>1 DEF Holding
  <2> HIDE DEF p
  <2>2. Money(p.size, px) \div FundDiv \in Nat
    BY <2>1, MoneyTypes, Zenon
  <2> QED
    BY <2>1, <2>2
<1>3. CASE Slot(s, min) \in b.funded
  <2>1. c = b
    BY <1>3 DEF ApplyFunding
  <2> QED
    BY <2>1 DEF OnlyMoves, IsUntouched
<1>4. CASE Slot(s, min) \notin b.funded
  <2> DEFINE d == [b EXCEPT !.funded = @ \cup {Slot(s, min)}, !.capital = @ - fee, !.settled = @ + fee]
  <2>1. c = d
    BY <1>4 DEF ApplyFunding
  <2>2. b.capital \in Int /\ b.settled \in Int /\ b.paid \in Int /\ b.pnl \in Int /\ b.funded \in SUBSET AnySlot
    BY <1>1 DEF Book
  <2>3. Slot(s, min) \in AnySlot
    BY DEF AnySlot
  <2> HIDE DEF fee
  <2>4. /\ c.capital = b.capital - fee /\ c.settled = b.settled + fee
        /\ c.funded = b.funded \cup {Slot(s, min)}
        /\ c.pos = b.pos /\ c.lastEntry = b.lastEntry /\ c.exit = b.exit
        /\ c.pnl = b.pnl /\ c.paid = b.paid /\ c.commission = b.commission
    BY <1>1, <2>1 DEF Book
  <2>5. c = [capital |-> c.capital, pos |-> c.pos, lastEntry |-> c.lastEntry, funded |-> c.funded,
             pnl |-> c.pnl, commission |-> c.commission, exit |-> c.exit, paid |-> c.paid,
             settled |-> c.settled]
    BY <1>1, <2>1 DEF Book
  <2> HIDE DEF d
  <2>6. c.capital \in Int /\ c.settled \in Int /\ c.funded \in SUBSET AnySlot
    BY <1>2, <2>2, <2>3, <2>4
  <2>7. c \in Book
    <3>1. /\ c.pos \in [Symbol -> Holding] /\ c.lastEntry \in [Symbol -> Nat \cup {Never}]
          /\ c.exit \in [Symbol -> Exit] /\ c.pnl \in Int /\ c.paid \in Nat /\ c.commission \in Nat
      BY <1>1, <2>4 DEF Book
    <3> QED
      BY <2>5, <2>6, <3>1 DEF Book
  <2>8. BookOK(c)
    BY <2>4, <2>7 DEF BookOK, Held
  <2>9. OpenMargins(c) = OpenMargins(b) /\ OpenFees(c) = OpenFees(b) /\ OpenMargins(b) \in Int
    BY <1>1, <2>4, BookSums DEF OpenMargins, OpenFees
  <2>10. Balance(c) = Balance(b)
    <3>1. Balance(c) = (b.capital - fee) + OpenMargins(b) - b.pnl + b.paid + (b.settled + fee)
      BY <2>4, <2>9 DEF Balance
    <3> QED
      BY <1>2, <2>2, <2>9, <3>1 DEF Balance
  <2> QED
    BY <2>4, <2>8, <2>9, <2>10 DEF OnlyMoves, Unbooked, IsUntouched
<1> QED
  BY <1>3, <1>4

LEMMA LiquidationEffect ==
  ASSUME NEW b, BookOK(b), NEW s \in Symbol, NEW px \in Nat, NEW at \in Nat,
         NEW c, c = CheckLiquidation(b, s, px, at)
  PROVE  ClosesOr(b, c, s, at, {"liquidation"}, ~IsUnderwater(b.pos[s], px))
<1>1. CASE ~IsUnderwater(b.pos[s], px)
  BY <1>1 DEF CheckLiquidation, ClosesOr, OnlyMoves
<1>2. CASE IsUnderwater(b.pos[s], px)
  <2>1. Held(b, s)
    BY <1>2 DEF IsUnderwater, Held
  <2>2. "liquidation" \in ExitReason /\ c = CloseAtMarket(b, s, px, "liquidation", at)
    BY <1>2 DEF CheckLiquidation, ExitReason
  <2> QED
    BY <2>1, <2>2, MarketCloseEffect DEF ClosesOr
<1> QED
  BY <1>1, <1>2

LEMMA TpSlEffect ==
  ASSUME NEW b, BookOK(b), NEW s \in Symbol, NEW k \in Bar4, NEW at \in Nat,
         NEW c, c = CheckTpSl(b, s, k, at)
  PROVE  /\ ClosesOr(b, c, s, at, {"stop_loss", "take_profit"},
                     at > b.pos[s].bar => ~HitsStop(b.pos[s], k) /\ ~HitsTake(b.pos[s], k))
         /\ c # b => at > b.pos[s].bar
<1> DEFINE p == b.pos[s]
<1>1. p \in Holding /\ p.bar \in Nat /\ "stop_loss" \in ExitReason /\ "take_profit" \in ExitReason
  BY DEF BookOK, Book, Holding, ExitReason
<1>2. CASE p.dir = 0 \/ at - p.bar < 1
  <2>1. c = b /\ (Held(b, s) => ~(at > p.bar))
    BY <1>1, <1>2 DEF CheckTpSl, Held
  <2> QED
    BY <2>1 DEF ClosesOr, OnlyMoves
<1>3. CASE ~(p.dir = 0 \/ at - p.bar < 1) /\ HitsStop(p, k)
  <2>1. c = CloseAtMarket(b, s, StopPrice(p), "stop_loss", at)
    BY <1>3 DEF CheckTpSl
  <2>2. StopPrice(p) \in Nat
    BY <1>1, <1>3, TriggerPrices, BookConstants DEF HitsStop
  <2>3. Held(b, s) /\ at > p.bar
    BY <1>1, <1>3 DEF Held
  <2> HIDE DEF p
  <2> QED
    BY <1>1, <2>1, <2>2, <2>3, MarketCloseEffect DEF ClosesOr, p
<1>4. CASE ~(p.dir = 0 \/ at - p.bar < 1) /\ ~HitsStop(p, k) /\ HitsTake(p, k)
  <2>1. c = CloseAtMarket(b, s, TakePrice(p), "take_profit", at)
    BY <1>4 DEF CheckTpSl
  <2>2. TakePrice(p) \in Nat
    BY <1>1, <1>4, TriggerPrices, BookConstants DEF HitsTake
  <2>3. Held(b, s) /\ at > p.bar
    BY <1>1, <1>4 DEF Held
  <2> HIDE DEF p
  <2> QED
    BY <1>1, <2>1, <2>2, <2>3, MarketCloseEffect DEF ClosesOr, p
<1>5. CASE ~(p.dir = 0 \/ at - p.bar < 1) /\ ~HitsStop(p, k) /\ ~HitsTake(p, k)
  <2>1. c = b
    BY <1>5 DEF CheckTpSl
  <2> QED
    BY <1>5, <2>1 DEF ClosesOr, OnlyMoves
<1> QED
  BY <1>2, <1>3, <1>4, <1>5

LEMMA TimeoutEffect ==
  ASSUME NEW b, BookOK(b), NEW s \in Symbol, NEW px \in Nat, NEW at \in Nat,
         NEW c, c = CheckTimeout(b, s, px, at)
  PROVE  ClosesOr(b, c, s, at, {"timeout"}, MaxHold > 0 => at - b.pos[s].bar < MaxHold)
<1>1. b.pos[s].bar \in Nat /\ MaxHold \in Nat /\ "timeout" \in ExitReason
  BY BookConstants DEF BookOK, Book, Holding, ExitReason
<1>2. CASE Held(b, s) /\ MaxHold > 0 /\ at - b.pos[s].bar >= MaxHold
  <2>1. c = CloseAtMarket(b, s, px, "timeout", at)
    BY <1>2 DEF CheckTimeout, Held
  <2> QED
    BY <1>1, <1>2, <2>1, MarketCloseEffect DEF ClosesOr
<1>3. CASE ~(Held(b, s) /\ MaxHold > 0 /\ at - b.pos[s].bar >= MaxHold)
  <2>1. c = b
    BY <1>3 DEF CheckTimeout, Held
  <2>2. Held(b, s) => (MaxHold > 0 => at - b.pos[s].bar < MaxHold)
    BY <1>1, <1>3
  <2> QED
    BY <2>1, <2>2 DEF ClosesOr, OnlyMoves
<1> QED
  BY <1>2, <1>3

(* One mark: what it leaves open passes every check, at most one check      *)
(* closes it, and a stop or target never on the bar of the entry.           *)
LEMMA OnBarEffect ==
  ASSUME NEW b, BookOK(b), NEW s \in Symbol, NEW k \in Bar4, NEW min \in Nat, NEW at \in Nat,
         NEW c, c = OnBar(b, s, k, min, at)
  PROVE  /\ BookOK(c) /\ OnlyMoves(b, c, s)
         /\ \/ IsUntouched(b, c, s) /\ (Held(b, s) => Survives(b.pos[s], k, at))
            \/ \E why \in ExitReason \ {"none", "signal"} :
                 /\ IsClosed(b, c, s, why, at)
                 /\ why \in {"stop_loss", "take_profit"} => at > b.pos[s].bar
<1> DEFINE funded == ApplyFunding(b, s, k.close, min)
           solvent == CheckLiquidation(funded, s, k.close, at)
           stopped == CheckTpSl(solvent, s, k, at)
<1>1. k.close \in Nat
  BY DEF Bar4
<1>2. c = CheckTimeout(stopped, s, k.close, at)
  BY DEF OnBar
<1>3. BookOK(funded) /\ OnlyMoves(b, funded, s) /\ IsUntouched(b, funded, s)
  BY <1>1, FundingEffect
<1> DEFINE p == b.pos[s]
<1>4. funded.pos[s] = p /\ (Held(funded, s) <=> Held(b, s))
  BY <1>3 DEF IsUntouched, Held
<1>5. ClosesOr(funded, solvent, s, at, {"liquidation"}, ~IsUnderwater(p, k.close))
  <2> HIDE DEF funded
  <2> QED
    BY <1>1, <1>3, <1>4, LiquidationEffect
<1> HIDE DEF funded
<1>6. BookOK(solvent)
  BY <1>5 DEF ClosesOr
<1>7. /\ ClosesOr(solvent, stopped, s, at, {"stop_loss", "take_profit"},
                  at > solvent.pos[s].bar => ~HitsStop(solvent.pos[s], k) /\ ~HitsTake(solvent.pos[s], k))
      /\ stopped # solvent => at > solvent.pos[s].bar
  <2> HIDE DEF solvent
  <2> QED
    BY <1>6, TpSlEffect
<1> HIDE DEF solvent
<1>8. BookOK(stopped)
  BY <1>7 DEF ClosesOr
<1>9. ClosesOr(stopped, c, s, at, {"timeout"}, MaxHold > 0 => at - stopped.pos[s].bar < MaxHold)
  <2> HIDE DEF stopped
  <2> QED
    BY <1>1, <1>2, <1>8, TimeoutEffect
<1> HIDE DEF stopped, p
<1>10. BookOK(c) /\ OnlyMoves(b, c, s)
  BY <1>3, <1>5, <1>7, <1>9 DEF ClosesOr, OnlyMoves
<1>11. ASSUME NEW d, NEW e, NEW why, IsClosed(d, e, s, why, at) PROVE ~Held(e, s)
  BY <1>11, FlatIsNothing DEF IsClosed, Held
<1>12. CASE solvent # funded
  <2>1. Held(funded, s) /\ IsClosed(funded, solvent, s, "liquidation", at)
    BY <1>5, <1>12 DEF ClosesOr, IsClosed
  <2>2. ~Held(solvent, s)
    BY <1>11, <2>1
  <2>3. stopped = solvent
    BY <1>7, <2>2 DEF ClosesOr, IsClosed
  <2>4. c = stopped
    BY <1>9, <2>2, <2>3 DEF ClosesOr, IsClosed
  <2>5. IsClosed(b, c, s, "liquidation", at)
    BY <1>3, <1>4, <2>1, <2>3, <2>4 DEF IsClosed, IsUntouched
  <2> QED
    BY <1>10, <2>5 DEF ExitReason
<1>13. CASE solvent = funded /\ stopped # solvent
  <2>1. PICK why \in {"stop_loss", "take_profit"} : IsClosed(solvent, stopped, s, why, at)
    BY <1>7, <1>13 DEF ClosesOr
  <2>2. at > b.pos[s].bar
    BY <1>4, <1>7, <1>13 DEF p
  <2>3. ~Held(stopped, s)
    BY <1>11, <2>1
  <2>4. c = stopped
    BY <1>9, <2>3 DEF ClosesOr, IsClosed
  <2>5. IsClosed(b, c, s, why, at)
    BY <1>3, <1>4, <1>13, <2>1, <2>4 DEF IsClosed, IsUntouched
  <2> QED
    BY <1>10, <2>2, <2>5 DEF ExitReason
<1>14. CASE solvent = funded /\ stopped = solvent /\ c # stopped
  <2>1. IsClosed(stopped, c, s, "timeout", at)
    BY <1>9, <1>14 DEF ClosesOr
  <2>2. IsClosed(b, c, s, "timeout", at)
    BY <1>3, <1>4, <1>14, <2>1 DEF IsClosed, IsUntouched
  <2> QED
    BY <1>10, <2>2 DEF ExitReason
<1>15. CASE solvent = funded /\ stopped = solvent /\ c = stopped
  <2>1. Held(b, s) => ~IsUnderwater(p, k.close)
    <3>1. ~ (\E why \in {"liquidation"} : IsClosed(funded, solvent, s, why, at)) \/ ~Held(solvent, s)
      BY <1>11
    <3> QED
      BY <1>4, <1>5, <1>15, <3>1 DEF ClosesOr
  <2>2. Held(b, s) => (at > p.bar => ~HitsStop(p, k) /\ ~HitsTake(p, k))
    <3>1. ~ (\E why \in {"stop_loss", "take_profit"} : IsClosed(solvent, stopped, s, why, at)) \/ ~Held(stopped, s)
      BY <1>11
    <3> QED
      BY <1>4, <1>7, <1>15, <3>1 DEF ClosesOr
  <2>3. Held(b, s) => (MaxHold > 0 => at - p.bar < MaxHold)
    <3>1. ~ (\E why \in {"timeout"} : IsClosed(stopped, c, s, why, at)) \/ ~Held(c, s)
      BY <1>11
    <3> QED
      BY <1>4, <1>9, <1>15, <3>1 DEF ClosesOr
  <2> QED
    BY <1>3, <1>10, <1>15, <2>1, <2>2, <2>3 DEF Survives, p
<1> QED
  BY <1>12, <1>13, <1>14, <1>15

-----------------------------------------------------------------------------
(* The size of an order.                                                    *)
LEMMA DivMonotone ==
  ASSUME NEW a \in Int, NEW b \in Int, NEW d \in Nat \ {0}, a <= b
  PROVE  a \div d <= b \div d
<1> DEFINE e == a \div d
<1>1. e \in Int /\ d * e <= a
  BY DivBounds
<1> HIDE DEF e
<1>2. d * e <= b
  BY <1>1
<1> QED
  BY <1>1, <1>2, DivAtLeast DEF e

LEMMA Rounds ==
  ASSUME NEW num \in Int, NEW den \in Nat \ {0}
  PROVE  /\ RoundSize(num, den) \in Nat
         /\ RoundSize(num, den) > 0 => num > 0 /\ 2 * (den * RoundSize(num, den)) <= 2 * num + den
         /\ \A n \in Nat : num <= den * n => RoundSize(num, den) <= n
<1> DEFINE q == num \div den
           rem == num % den
<1>1. q \in Int /\ rem \in 0..(den - 1) /\ num = den * q + rem
  OBVIOUS
<1>2. RoundSize(num, den) =
        IF num <= 0 THEN 0
        ELSE IF 2 * rem > den \/ (2 * rem = den /\ q % 2 = 1) THEN q + 1 ELSE q
  BY DEF RoundSize
<1>3. num > 0 => q >= 0
  BY DivBounds
<1>4. PICK odd \in BOOLEAN : odd <=> q % 2 = 1
  OBVIOUS
<1> HIDE DEF q, rem
<1>5. CASE num <= 0
  BY <1>2, <1>5
<1>6. CASE num > 0 /\ (2 * rem > den \/ (2 * rem = den /\ odd))
  <2>1. RoundSize(num, den) = q + 1
    BY <1>2, <1>4, <1>6
  <2>2. den * (q + 1) = den * q + den
    BY <1>1
  <2>3. 2 * (den * (q + 1)) <= 2 * num + den
    BY <1>1, <1>6, <2>2
  <2>4. ASSUME NEW n \in Nat, num <= den * n PROVE q + 1 <= n
    <3> SUFFICES ASSUME n <= q PROVE FALSE
      BY <1>1
    <3>1. den * n <= den * q
      BY <1>1
    <3>2. rem > 0
      BY <1>1, <1>6
    <3> QED
      BY <1>1, <2>4, <3>1, <3>2
  <2> QED
    BY <1>1, <1>3, <1>6, <2>1, <2>3, <2>4
<1>7. CASE num > 0 /\ ~(2 * rem > den \/ (2 * rem = den /\ odd))
  <2>1. RoundSize(num, den) = q
    BY <1>2, <1>4, <1>7
  <2>2. 2 * (den * q) <= 2 * num + den
    BY <1>1
  <2>3. ASSUME NEW n \in Nat, num <= den * n PROVE q <= n
    <3> SUFFICES ASSUME n + 1 <= q PROVE FALSE
      BY <1>1
    <3>1. den * (n + 1) <= den * q
      BY <1>1
    <3>2. den * (n + 1) = den * n + den
      OBVIOUS
    <3> QED
      BY <1>1, <2>3, <3>1, <3>2
  <2> QED
    BY <1>1, <1>3, <1>7, <2>1, <2>2, <2>3
<1> QED
  BY <1>5, <1>6, <1>7

(* What an open position leaves of the capital: nothing below zero, but for *)
(* the half lot of rounding.                                                *)
Affordable(capital, px) == capital + InitialMargin(1, px) + Money(1, px) \div TakerDiv >= 0

LEMMA OrderIsAffordable ==
  ASSUME NEW b \in Book, NEW w \in Int, NEW eq \in Int, NEW px \in Nat \ {0},
         NEW size, size = OrderSize(b, w, eq, px)
  PROVE  /\ size \in Nat
         /\ size > 0 => Affordable(b.capital - InitialMargin(size, px) - Money(size, px) \div TakerDiv, px)
<1> DEFINE asked == RoundSize(w * eq * Leverage, WeightDen * px * Unit)
           n == px * Unit
           cap == b.capital
           fee == Money(asked, px) \div TakerDiv
           margin == InitialMargin(asked, px)
           less == RoundSize((cap - fee) * Leverage, n)
<1>1. /\ Leverage \in Nat \ {0} /\ TakerDiv \in Nat \ {0} /\ WeightDen \in Nat \ {0}
      /\ Unit \in Nat \ {0} /\ cap \in Int
  BY BookConstants DEF Book
<1>2. n \in Nat \ {0} /\ WeightDen * px * Unit \in Nat \ {0} /\ w * eq * Leverage \in Int
  <2>1. px * Unit \in Nat \ {0} /\ WeightDen * px \in Nat \ {0}
    BY <1>1
  <2>2. WeightDen * px * Unit \in Nat \ {0}
    BY <1>1, <2>1
  <2>3. w * eq * Leverage \in Int
    BY <1>1
  <2> QED
    BY <2>1, <2>2, <2>3
<1>3. asked \in Nat
  <2> DEFINE num == w * eq * Leverage
             den == WeightDen * px * Unit
  <2>1. num \in Int /\ den \in Nat \ {0}
    BY <1>2
  <2> HIDE DEF num, den
  <2>2. RoundSize(num, den) \in Nat
    BY <2>1, Rounds
  <2> QED
    BY <2>2 DEF num, den
<1>4. size = IF margin + fee > cap THEN less ELSE asked
  BY DEF OrderSize
<1> HIDE DEF asked
<1>5. \A m \in Nat : Money(m, px) = n * m
  BY <1>1 DEF Money
<1>6. fee = (n * asked) \div TakerDiv /\ margin = (n * asked) \div Leverage
  BY <1>3, <1>5 DEF InitialMargin
<1>7. n * asked \in Int /\ n * asked >= 0
  BY <1>2, <1>3
<1>8. InitialMargin(1, px) = n \div Leverage /\ Money(1, px) \div TakerDiv = n \div TakerDiv
  BY <1>2, <1>5 DEF InitialMargin
<1> DEFINE h == n \div Leverage
           g == n \div TakerDiv
<1>9. h \in Nat /\ g \in Nat /\ n < Leverage * h + Leverage
  BY <1>1, <1>2, DivBounds
<1> HIDE DEF n, h, g
<1>10. /\ fee \in Int /\ fee >= 0 /\ n * asked < TakerDiv * fee + TakerDiv
       /\ margin \in Int /\ Leverage * margin <= n * asked
  BY <1>1, <1>6, <1>7, DivBounds
<1> HIDE DEF fee, margin, cap
<1>11. less \in Nat
  <2>1. (cap - fee) * Leverage \in Int
    BY <1>1, <1>10
  <2> DEFINE num == (cap - fee) * Leverage
  <2> HIDE DEF num
  <2>2. RoundSize(num, n) \in Nat
    BY <1>2, <2>1, Rounds DEF num
  <2> QED
    BY <2>2 DEF num
<1>12. CASE margin + fee <= cap
  <2>1. size = asked
    BY <1>1, <1>4, <1>10, <1>12
  <2>2. cap - margin - fee + h + g >= 0
    BY <1>1, <1>9, <1>10, <1>12
  <2> QED
    BY <1>3, <1>8, <2>1, <2>2 DEF Affordable, fee, margin, cap, h, g
<1>13. CASE margin + fee > cap
  <2>1. size = less /\ size \in Nat
    BY <1>4, <1>11, <1>13
  <2> SUFFICES ASSUME size > 0
               PROVE  Affordable(b.capital - InitialMargin(size, px) - Money(size, px) \div TakerDiv, px)
    BY <2>1
  <2> DEFINE avail == cap - fee
             num == avail * Leverage
  <2>2. avail \in Int /\ num \in Int /\ avail <= margin
    BY <1>1, <1>10, <1>13
  <2> HIDE DEF avail
  <2>3. num <= n * asked
    <3>1. Leverage * avail <= Leverage * margin
      BY <1>1, <1>10, <2>2
    <3>2. Leverage * avail = avail * Leverage
      BY <1>1, <2>2
    <3> QED
      BY <1>1, <1>7, <1>10, <2>2, <3>1, <3>2
  <2> HIDE DEF num
  <2>4. size = RoundSize(num, n)
    BY <2>1 DEF num, avail
  <2>5. size <= asked /\ 2 * (n * size) <= 2 * num + n
    BY <1>2, <1>3, <2>2, <2>3, <2>4, Rounds
  <2>6. n * size \in Nat /\ n * size <= n * asked
    BY <1>2, <1>3, <2>1, <2>5
  <2> DEFINE paid == (n * size) \div TakerDiv
             locked == (n * size) \div Leverage
  <2>7. paid \in Int /\ paid <= fee
    <3>1. paid <= (n * asked) \div TakerDiv
      BY <1>1, <1>7, <2>6, DivMonotone
    <3>2. paid \in Int
      BY <1>1, <2>6, DivBounds
    <3> QED
      BY <1>6, <3>1, <3>2
  <2>8. locked \in Int /\ Leverage * locked <= n * size
    BY <1>1, <2>6, DivBounds
  <2>9. Money(size, px) \div TakerDiv = paid /\ InitialMargin(size, px) = locked
    BY <1>5, <2>1 DEF InitialMargin
  <2> HIDE DEF paid, locked
  <2>10. locked <= avail + h
    <3> SUFFICES ASSUME locked >= avail + h + 1 PROVE FALSE
      BY <1>9, <2>2, <2>8
    <3>1. Leverage * locked >= Leverage * (avail + h + 1)
      BY <1>1, <1>9, <2>2, <2>8
    <3>2. Leverage * (avail + h + 1) = num + Leverage * h + Leverage
      BY <1>1, <1>9, <2>2 DEF num
    <3> DEFINE x == n * size
               y == Leverage * h
               z == Leverage * locked
    <3>3. x \in Int /\ y \in Int /\ z \in Int
      BY <1>1, <1>9, <2>6, <2>8
    <3>4. z <= x /\ 2 * x <= 2 * num + n /\ n < y + Leverage /\ z >= num + y + Leverage
      BY <1>9, <2>5, <2>8, <3>1, <3>2
    <3> HIDE DEF x, y, z
    <3> QED
      BY <1>1, <1>2, <2>2, <3>3, <3>4
  <2>11. cap - locked - paid + h + g >= 0
    BY <1>1, <1>9, <1>10, <2>2, <2>7, <2>8, <2>10 DEF avail
  <2> QED
    BY <1>8, <2>9, <2>11 DEF Affordable, cap, h, g
<1> QED
  BY <1>1, <1>10, <1>12, <1>13

-----------------------------------------------------------------------------
(* Entries.                                                                 *)
Sign(w) == IF w > 0 THEN 1 ELSE IF w < 0 THEN -1 ELSE 0

(* c is b with a position of s opened, after one was closed if there was.   *)
Entered(b, c, s, w, at) ==
  /\ w # 0 /\ ~Cooling(b, s, at)
  /\ Held(b, s) => b.pos[s].dir # Sign(w)
  /\ c.pos[s].dir = Sign(w) /\ c.pos[s].bar = at /\ c.lastEntry[s] = at
  /\ c.exit[s] = IF Held(b, s) THEN [bar |-> at, why |-> "signal"] ELSE b.exit[s]
  /\ Affordable(c.capital, c.pos[s].entry)

LEMMA OpenEffect ==
  ASSUME NEW b, BookOK(b), NEW s \in Symbol, ~Held(b, s), NEW dir \in {-1, 1}, NEW size \in Nat \ {0},
         NEW px \in Nat, NEW at \in Nat, NEW c, c = Open(b, s, dir, size, px, at)
  PROVE  /\ BookOK(c) /\ OnlyMoves(b, c, s)
         /\ c.pos[s].dir = dir /\ c.pos[s].bar = at /\ c.pos[s].entry = px
         /\ c.lastEntry[s] = at /\ c.exit[s] = b.exit[s]
         /\ c.capital = b.capital - InitialMargin(size, px) - Money(size, px) \div TakerDiv
<1> DEFINE fee == Money(size, px) \div TakerDiv
           margin == InitialMargin(size, px)
           p == [dir |-> dir, size |-> size, entry |-> px, margin |-> margin, bar |-> at, fee |-> fee]
           d == [b EXCEPT !.capital = @ - margin - fee, !.lastEntry[s] = at, !.paid = @ + fee, !.pos[s] = p]
<1>1. b \in Book /\ b.pos[s] = Flat
  BY DEF BookOK
<1>2. fee \in Nat /\ margin \in Nat
  <2>1. size \in Nat
    OBVIOUS
  <2> QED
    BY <2>1, MoneyTypes, Zenon
<1>3. c = d
  BY DEF Open
<1> HIDE DEF fee, margin
<1>4. p \in Holding /\ p.dir = dir /\ p.size = size /\ p.entry = px /\ p.margin = margin /\ p.bar = at /\ p.fee = fee
  BY <1>2 DEF Holding
<1> HIDE DEF p
<1>5. /\ b.capital \in Int /\ b.pnl \in Int /\ b.commission \in Nat /\ b.paid \in Nat /\ b.settled \in Int
      /\ b.pos \in [Symbol -> Holding] /\ b.exit \in [Symbol -> Exit]
      /\ b.lastEntry \in [Symbol -> Nat \cup {Never}] /\ b.funded \in SUBSET AnySlot
  BY <1>1 DEF Book
<1>6. /\ c.capital = b.capital - margin - fee /\ c.paid = b.paid + fee
      /\ c.pnl = b.pnl /\ c.commission = b.commission /\ c.settled = b.settled /\ c.funded = b.funded
      /\ c.exit = b.exit /\ c.pos = [b.pos EXCEPT ![s] = p] /\ c.lastEntry = [b.lastEntry EXCEPT ![s] = at]
  BY <1>1, <1>3 DEF Book
<1>7. c = [capital |-> c.capital, pos |-> c.pos, lastEntry |-> c.lastEntry, funded |-> c.funded,
           pnl |-> c.pnl, commission |-> c.commission, exit |-> c.exit, paid |-> c.paid,
           settled |-> c.settled]
  BY <1>1, <1>3 DEF Book
<1> HIDE DEF d
<1>8. c.pos \in [Symbol -> Holding] /\ c.lastEntry \in [Symbol -> Nat \cup {Never}]
  BY <1>4, <1>5, <1>6
<1>9. c.capital \in Int /\ c.paid \in Nat
  BY <1>2, <1>5, <1>6
<1>10. c \in Book
  BY <1>5, <1>6, <1>7, <1>8, <1>9 DEF Book
<1>11. /\ c.pos[s] = p /\ c.lastEntry[s] = at
       /\ \A x \in Symbol \ {s} : c.pos[x] = b.pos[x] /\ c.lastEntry[x] = b.lastEntry[x]
  BY <1>5, <1>6
<1>12. BookOK(c)
  <2> SUFFICES ASSUME NEW x \in Symbol
               PROVE  IF Held(c, x) THEN c.pos[x].size > 0 ELSE c.pos[x] = Flat
    BY <1>10 DEF BookOK
  <2>1. CASE x = s
    BY <1>4, <1>11, <2>1 DEF Held
  <2>2. CASE x # s
    BY <1>11, <2>2 DEF BookOK, Held
  <2> QED
    BY <2>1, <2>2
<1>13. /\ OpenMargins(c) = OpenMargins(b) + margin /\ OpenFees(c) = OpenFees(b) + fee
       /\ OpenMargins(b) \in Int /\ OpenFees(b) \in Int
  <2>1. /\ OpenMargins(c) = OpenMargins(b) + c.pos[s].margin - b.pos[s].margin
        /\ OpenFees(c) = OpenFees(b) + c.pos[s].fee - b.pos[s].fee
    BY <1>1, <1>10, <1>11, SumsChange
  <2>2. OpenMargins(b) \in Int /\ OpenFees(b) \in Int
    BY <1>1, BookSums
  <2> QED
    BY <1>1, <1>2, <1>4, <1>11, <2>1, <2>2, FlatIsNothing
<1>14. Balance(c) = Balance(b)
  <2>1. Balance(c) = (b.capital - margin - fee) + (OpenMargins(b) + margin) - b.pnl + (b.paid + fee) + b.settled
    BY <1>6, <1>13 DEF Balance
  <2> QED
    BY <1>2, <1>5, <1>13, <2>1 DEF Balance
<1>15. Unbooked(c) = Unbooked(b)
  <2>1. Unbooked(c) = (b.paid + fee) - b.commission - (OpenFees(b) + fee)
    BY <1>6, <1>13 DEF Unbooked
  <2> QED
    BY <1>2, <1>5, <1>13, <2>1 DEF Unbooked
<1> QED
  BY <1>4, <1>6, <1>11, <1>12, <1>14, <1>15 DEF OnlyMoves, fee, margin

(* A bar at whose open something may be bought.                             *)
Tradable == [open : Nat \ {0}, high : Nat \ {0}, low : Nat \ {0}, close : Nat \ {0}]

LEMMA RebalanceEffect ==
  ASSUME NEW b, BookOK(b), NEW s \in Symbol, NEW w \in Int, NEW k \in [Symbol -> Tradable],
         NEW at \in Nat, NEW c, c = Rebalance(b, s, w, k, at)
  PROVE  /\ BookOK(c) /\ OnlyMoves(b, c, s)
         /\ \/ c = b
            \/ IsClosed(b, c, s, "signal", at)
            \/ Entered(b, c, s, w, at)
<1> DEFINE dir == IF w > 0 THEN 1 ELSE IF w < 0 THEN -1 ELSE 0
           open == k[s].open
           turns == Held(b, s) /\ dir # b.pos[s].dir
           cleared == IF turns THEN CloseAtMarket(b, s, open, "signal", at) ELSE b
           prices == [x \in Symbol |-> k[x].close]
           px == Slipped(open, dir)
           eq == Equity(cleared, prices)
           size == OrderSize(cleared, dir * w, eq, px)
<1>1. /\ open \in Nat \ {0} /\ prices \in PriceOf /\ dir \in {-1, 0, 1} /\ dir = Sign(w)
      /\ dir * w \in Int /\ "signal" \in ExitReason
  BY DEF Tradable, PriceOf, Sign, ExitReason
<1>2. px \in Nat \ {0}
  <2> HIDE DEF open, dir
  <2> QED
    BY <1>1, SlippedPrice
<1>3. c = IF dir = 0 \/ Held(cleared, s) \/ Cooling(cleared, s, at) THEN cleared
          ELSE Open(cleared, s, dir, size, px, at)
  BY DEF Rebalance
<1> HIDE DEF open, dir, prices, px, size
<1>4. CASE turns
  <2>1. cleared = CloseAtMarket(b, s, open, "signal", at)
    BY <1>4
  <2> HIDE DEF cleared
  <2> QED
    <3>1. /\ BookOK(cleared) /\ OnlyMoves(b, cleared, s) /\ IsClosed(b, cleared, s, "signal", at)
      BY <1>1, <1>4, <2>1, MarketCloseEffect
    <3>2. ~Held(cleared, s) /\ cleared.lastEntry[s] = b.lastEntry[s]
      BY <3>1, FlatIsNothing DEF IsClosed, Held
    <3>3. CASE dir = 0 \/ Cooling(cleared, s, at)
      BY <1>3, <3>1, <3>3
    <3>4. CASE ~(dir = 0 \/ Cooling(cleared, s, at))
      <4>1. c = Open(cleared, s, dir, size, px, at) /\ dir \in {-1, 1}
        BY <1>1, <1>3, <3>2, <3>4
      <4>2. size \in Nat /\ (size > 0 => Affordable(cleared.capital - InitialMargin(size, px)
                                                      - Money(size, px) \div TakerDiv, px))
        <5>1. cleared \in Book
          BY <3>1 DEF BookOK
        <5>2. eq \in Int
          BY <1>1, <5>1, EquityType
        <5> HIDE DEF eq
        <5> DEFINE asks == dir * w
        <5>3. asks \in Int
          BY <1>1
        <5> HIDE DEF asks
        <5>4. size = OrderSize(cleared, asks, eq, px)
          BY DEF size, asks, eq
        <5> QED
          BY <1>2, <5>1, <5>2, <5>3, <5>4, OrderIsAffordable
      <4>3. CASE size = 0
        BY <3>1, <4>1, <4>3 DEF Open
      <4>4. CASE size > 0
        <5>1. /\ BookOK(c) /\ OnlyMoves(cleared, c, s)
              /\ c.pos[s].dir = dir /\ c.pos[s].bar = at /\ c.pos[s].entry = px
              /\ c.lastEntry[s] = at /\ c.exit[s] = cleared.exit[s]
              /\ c.capital = cleared.capital - InitialMargin(size, px) - Money(size, px) \div TakerDiv
          BY <1>2, <3>1, <3>2, <4>1, <4>2, <4>4, OpenEffect
        <5>2. OnlyMoves(b, c, s)
          BY <3>1, <5>1 DEF OnlyMoves
        <5>3. w # 0 /\ b.pos[s].dir # Sign(w) /\ ~Cooling(b, s, at)
          BY <1>1, <1>4, <3>2, <3>4, <4>1 DEF Sign, Cooling
        <5>4. Entered(b, c, s, w, at)
          BY <1>1, <1>4, <3>1, <4>2, <4>4, <5>1, <5>3 DEF Entered, IsClosed
        <5> QED
          BY <5>1, <5>2, <5>4
      <4> QED
        BY <4>2, <4>3, <4>4
    <3> QED
      BY <3>3, <3>4
<1>5. CASE ~turns
  <2>1. cleared = b
    BY <1>5
  <2> HIDE DEF cleared
  <2>2. OnlyMoves(b, b, s)
    BY DEF OnlyMoves
  <2>3. CASE dir = 0 \/ Held(b, s) \/ Cooling(b, s, at)
    BY <1>3, <2>1, <2>2, <2>3
  <2>4. CASE ~(dir = 0 \/ Held(b, s) \/ Cooling(b, s, at))
    <3>1. c = Open(b, s, dir, size, px, at) /\ dir \in {-1, 1}
      BY <1>1, <1>3, <2>1, <2>4
    <3>2. size \in Nat /\ (size > 0 => Affordable(b.capital - InitialMargin(size, px)
                                                    - Money(size, px) \div TakerDiv, px))
      <4>1. b \in Book
        BY DEF BookOK
      <4>2. eq \in Int
        BY <1>1, <2>1, <4>1, EquityType
      <4> DEFINE asks == dir * w
      <4>3. asks \in Int
        BY <1>1
      <4> HIDE DEF asks, eq
      <4>4. size = OrderSize(b, asks, eq, px)
        BY <2>1 DEF size, asks, eq
      <4> QED
        BY <1>2, <4>1, <4>2, <4>3, <4>4, OrderIsAffordable
    <3>3. CASE size = 0
      BY <2>2, <3>1, <3>3 DEF Open
    <3>4. CASE size > 0
      <4>1. /\ BookOK(c) /\ OnlyMoves(b, c, s)
            /\ c.pos[s].dir = dir /\ c.pos[s].bar = at /\ c.pos[s].entry = px
            /\ c.lastEntry[s] = at /\ c.exit[s] = b.exit[s]
            /\ c.capital = b.capital - InitialMargin(size, px) - Money(size, px) \div TakerDiv
        BY <1>2, <2>4, <3>1, <3>2, <3>4, OpenEffect
      <4>2. w # 0
        BY <1>1, <3>1 DEF Sign
      <4>3. Entered(b, c, s, w, at)
        BY <1>1, <2>4, <3>2, <3>4, <4>1, <4>2 DEF Entered
      <4> QED
        BY <4>1, <4>3
    <3> QED
      BY <3>2, <3>3, <3>4
  <2> QED
    BY <2>3, <2>4
<1> QED
  BY <1>4, <1>5

-----------------------------------------------------------------------------
(* The run. Its state, *)
RunTyped ==
  /\ rows \in [Symbol -> SUBSET (0..(Bars - 1))]
  /\ bar \in 0..(Bars - 1) /\ turn \in 1..(NSym + 1)
  /\ stage \in {"signal", "mark", "close", "done"}
  /\ candle \in [Symbol -> Candle]
  /\ BookOK(book)
  /\ curve.equity \in Int /\ curve.paid \in Int
  /\ peak \in Nat /\ allowsShort \in BOOLEAN

(* what it adds up to,                                                      *)
MoneyInv == Balance(book) = InitialCash * Unit /\ Unbooked(book) = 0

(* the trades of a symbol so far,                                           *)
PastOK(s) ==
  LET p == book.pos[s]
      last == book.exit[s]
  IN  /\ p.bar <= bar /\ book.lastEntry[s] <= bar /\ last.bar <= bar
      /\ Held(book, s) =>
           /\ p.bar >= Warmup /\ p.bar = book.lastEntry[s] /\ last.bar <= p.bar
           /\ last.bar = p.bar => last.why = "signal"
      /\ last.why \in {"stop_loss", "take_profit"} /\ ~Held(book, s) => last.bar > book.lastEntry[s]

(* and what the stage has done to it: nothing closed in this bar before the *)
(* symbol's signal, nothing overdue after its mark, nothing held after its  *)
(* close-out.                                                               *)
StageOK(s) ==
  /\ stage = "signal" /\ s >= turn => book.exit[s].bar < bar
  /\ stage = "mark" /\ s < turn /\ Held(book, s) => Survives(book.pos[s], candle[s], bar)
  /\ stage = "done" \/ (stage = "close" /\ s < turn) => ~Held(book, s)

TradesInv ==
  /\ \A s \in Symbol : PastOK(s) /\ StageOK(s)
  /\ book.commission > 0 => bar >= Warmup

RowsInv == \A s \in Symbol : Cardinality(rows[s]) = Bars - Gaps

RunInv == RunTyped /\ MoneyInv /\ TradesInv /\ FinalEquityIsReal /\ RowsInv

-----------------------------------------------------------------------------
LEMMA CandlesTradable == Candle \subseteq Tradable /\ Candle \subseteq Bar4
BY RunConstants DEF Tradable, Bar4

LEMMA ClosesArePrices ==
  ASSUME candle \in [Symbol -> Candle]
  PROVE  Closes \in PriceOf /\ \A s \in Symbol : Closes[s] = candle[s].close
<1>1. \A s \in Symbol : candle[s].close \in Nat
  BY CandlesTradable DEF Bar4
<1> QED
  BY <1>1 DEF Closes, PriceOf

(* A new book.                                                              *)
LEMMA NewBookOK ==
  ASSUME NEW cash \in Int
  PROVE  /\ BookOK(NewBook(cash)) /\ Balance(NewBook(cash)) = cash /\ Unbooked(NewBook(cash)) = 0
         /\ \A s \in Symbol : ~Held(NewBook(cash), s)
<1> DEFINE b == NewBook(cash)
<1>1. /\ b.capital = cash /\ b.pnl = 0 /\ b.commission = 0 /\ b.paid = 0 /\ b.settled = 0
      /\ b.pos = [s \in Symbol |-> Flat]
  BY DEF NewBook
<1>2. b \in Book
  <2>1. /\ b.pos \in [Symbol -> Holding] /\ {} \in SUBSET AnySlot
        /\ [s \in Symbol |-> Never] \in [Symbol -> Nat \cup {Never}]
        /\ [s \in Symbol |-> [bar |-> Never, why |-> "none"]] \in [Symbol -> Exit]
    BY <1>1, FlatIsNothing DEF Exit, ExitReason
  <2> QED
    BY <1>1, <2>1 DEF NewBook, Book
<1>3. \A s \in Symbol : b.pos[s] = Flat /\ ~Held(b, s)
  BY <1>1, FlatIsNothing DEF Held
<1>4. OpenMargins(b) = 0 /\ OpenFees(b) = 0
  <2> DEFINE m == [s \in Symbol |-> b.pos[s].margin]
             f == [s \in Symbol |-> b.pos[s].fee]
  <2>1. \A s \in Symbol : m[s] = 0 /\ f[s] = 0
    BY <1>3, FlatIsNothing
  <2>2. OpenMargins(b) = SumFunctionOnSet(m, Symbol) /\ OpenFees(b) = SumFunctionOnSet(f, Symbol)
    BY DEF OpenMargins, OpenFees
  <2> HIDE DEF m, f, b
  <2> QED
    BY <2>1, <2>2, SymbolsFinite, SumOfNone
<1> HIDE DEF b
<1>5. BookOK(b)
  BY <1>2, <1>3 DEF BookOK
<1>6. Balance(b) = cash /\ Unbooked(b) = 0
  BY <1>1, <1>4 DEF Balance, Unbooked
<1> QED
  BY <1>3, <1>5, <1>6 DEF b

LEMMA RunStarts == RunInit => RunInv
<1> SUFFICES ASSUME RunInit PROVE RunInv
  OBVIOUS
<1>1. InitialCash * Unit \in Int
  BY RunConstants, BookConstants
<1>2. /\ BookOK(book) /\ MoneyInv /\ \A s \in Symbol : ~Held(book, s)
  BY <1>1, NewBookOK DEF RunInit, MoneyInv
<1>3. RunTyped
  <2>1. 0 \in 0..(Bars - 1) /\ 1 \in 1..(NSym + 1)
    BY RunConstants, BookConstants
  <2> QED
    BY <1>1, <1>2, <2>1 DEF RunInit, RunTyped
<1>4. \A s \in Symbol : book.pos[s].bar = 0 /\ book.lastEntry[s] = -1 /\ book.exit[s].bar = -1
                        /\ book.exit[s].why = "none" /\ book.commission = 0
  BY FlatIsNothing DEF RunInit, NewBook, Never
<1>5. book.commission = 0
  BY DEF RunInit, NewBook
<1>6. \A s \in Symbol : PastOK(s) /\ StageOK(s)
  <2>1. bar = 0 /\ stage = "mark"
    BY DEF RunInit
  <2> QED
    BY <1>2, <1>4, <2>1 DEF PastOK, StageOK
<1>7. FinalEquityIsReal /\ RowsInv
  BY DEF RunInit, FinalEquityIsReal, RowsInv
<1> QED
  BY <1>2, <1>3, <1>5, <1>6, <1>7 DEF RunInv, TradesInv

(* What an operation on a symbol leaves of the others' past.                *)
LEMMA OthersPast ==
  ASSUME NEW t \in Symbol, OnlyMoves(book, book', t), UNCHANGED bar,
         NEW s \in Symbol \ {t}, PastOK(s)
  PROVE  PastOK(s)' /\ (Held(book', s) <=> Held(book, s))
BY DEF OnlyMoves, PastOK, Held

LEMMA TurnIsSymbol ==
  ASSUME RunTyped, turn <= NSym
  PROVE  turn \in Symbol /\ turn + 1 \in 1..(NSym + 1)
BY BookConstants DEF RunTyped, Symbol

-----------------------------------------------------------------------------
(* Weights.                                                                 *)
LEMMA MinOfTwo ==
  ASSUME NEW a \in Int, NEW b \in Int
  PROVE  Min({a, b}) = IF a <= b THEN a ELSE b
<1>1. \E x \in {a, b} : \A y \in {a, b} : x <= y
  OBVIOUS
<1>2. Min({a, b}) \in {a, b} /\ \A y \in {a, b} : Min({a, b}) <= y
  BY <1>1, Zenon DEF Min
<1> QED
  BY <1>2

(* A weight is of the decision and, if not 0, of a bar in the window.       *)
LEMMA WeightEffect ==
  ASSUME NEW s \in Symbol, NEW a \in Answer(s), NEW px, NEW w, w = Weight(s, a, px), bar \in Int
  PROVE  /\ w \in Int
         /\ w # 0 => bar >= Warmup
         /\ s \in AgentLed /\ w > 0 => Decision(s, a.action, px) = "BUY"
         /\ s \in AgentLed /\ w < 0 => Decision(s, a.action, px) = "SELL"
<1>1. a.conf \in Conf /\ a.failed \in BOOLEAN
  BY DEF Answer
<1>2. a.conf \in Nat /\ Cap \in Nat /\ Warmup \in Nat
  <2>1. Conf \subseteq 0..WeightDen /\ Cap \in 0..WeightDen /\ Warmup \in Nat
    BY RunConstants
  <2>2. WeightDen \in Nat
    BY BookConstants
  <2>3. Conf \subseteq Nat /\ Cap \in Nat
    BY <2>1, <2>2
  <2> QED
    BY <1>1, <2>1, <2>3
<1> DEFINE m == Min({a.conf, Cap})
           action == Decision(s, a.action, px)
           sign == CASE action = "BUY" -> 1 [] action = "SELL" -> -1 [] OTHER -> 0
<1>3. m \in Nat
  BY <1>2, MinOfTwo
<1>4. /\ sign \in {-1, 0, 1} /\ (sign = 1 => action = "BUY") /\ (sign = -1 => action = "SELL")
  OBVIOUS
<1>5. w = IF bar < Warmup \/ a.failed THEN 0 ELSE IF s \notin AgentLed THEN a.conf ELSE sign * m
  BY DEF Weight
<1> HIDE DEF m, action, sign
<1>6. /\ sign * m \in Int /\ (sign * m > 0 => sign = 1) /\ (sign * m < 0 => sign = -1)
  BY <1>3, <1>4
<1> DEFINE z == sign * m
<1>7. z \in Int /\ (z > 0 => action = "BUY") /\ (z < 0 => action = "SELL")
  BY <1>4, <1>6
<1> HIDE DEF z
<1>8. w = IF bar < Warmup \/ a.failed THEN 0 ELSE IF s \notin AgentLed THEN a.conf ELSE z
  BY <1>5 DEF z
<1>9. w \in Int
  BY <1>2, <1>7, <1>8
<1>10. w # 0 => bar >= Warmup
  BY <1>2, <1>8
<1>11. s \in AgentLed /\ w > 0 => action = "BUY"
  BY <1>7, <1>8
<1>12. s \in AgentLed /\ w < 0 => action = "SELL"
  BY <1>7, <1>8
<1> QED
  BY <1>9, <1>10, <1>11, <1>12 DEF action

-----------------------------------------------------------------------------
(* The actions.                                                             *)
LEMMA RunTypes1 ==
  ASSUME RunTyped
  PROVE  /\ bar \in Nat /\ Bars \in Nat \ {0} /\ NSym \in Nat \ {0} /\ Symbol = 1..NSym /\ Warmup \in Nat
         /\ turn \in Nat /\ book \in Book
         /\ \A s \in Symbol : /\ book.pos[s] \in Holding /\ book.pos[s].bar \in Nat
                              /\ book.lastEntry[s] \in Int /\ book.exit[s].bar \in Int
                              /\ candle[s] \in Bar4
<1>1. Bars \in Nat \ {0} /\ Warmup \in Nat
  BY RunConstants
<1>2. NSym \in Nat \ {0}
  BY BookConstants
<1>3. bar \in Nat /\ turn \in Nat /\ Symbol = 1..NSym
  BY <1>1, <1>2 DEF RunTyped, Symbol
<1>4. book \in Book /\ \A s \in Symbol : candle[s] \in Bar4
  BY CandlesTradable DEF RunTyped, BookOK
<1>5. \A s \in Symbol : /\ book.pos[s] \in Holding /\ book.pos[s].bar \in Nat
                        /\ book.lastEntry[s] \in Int /\ book.exit[s].bar \in Int
  BY <1>4 DEF Book, Holding, Exit, Never
<1> QED
  BY <1>1, <1>2, <1>3, <1>4, <1>5

(* After a position was closed.                                             *)
LEMMA ClosedPast ==
  ASSUME RunTyped, RunTyped', UNCHANGED bar, NEW s \in Symbol, PastOK(s), NEW why,
         IsClosed(book, book', s, why, bar),
         why \in {"stop_loss", "take_profit"} => bar > book.pos[s].bar
  PROVE  PastOK(s)' /\ ~Held(book', s) /\ bar >= Warmup
<1>1. /\ bar \in Nat /\ Warmup \in Nat /\ book.pos[s].bar \in Nat /\ book.lastEntry[s] \in Int
  BY RunTypes1
<1>2. /\ ~Held(book', s) /\ book'.pos[s].bar = 0
      /\ book'.exit[s].bar = bar /\ book'.exit[s].why = why /\ book'.lastEntry[s] = book.lastEntry[s]
  BY FlatIsNothing DEF IsClosed, Held
<1>3. /\ book.pos[s].bar >= Warmup /\ book.pos[s].bar = book.lastEntry[s] /\ book.pos[s].bar <= bar
  BY DEF PastOK, IsClosed
<1> QED
  BY <1>1, <1>2, <1>3 DEF PastOK

LEMMA SignalKeeps ==
  ASSUME RunInv, NEW a \in Answer(turn), NEW px, Signal(a, px)
  PROVE  RunInv'
<1> DEFINE w == Weight(turn, a, px)
<1>0. RunTyped /\ TradesInv
  BY DEF RunInv
<1>1. turn \in Symbol /\ turn + 1 \in 1..(NSym + 1)
  BY <1>0, TurnIsSymbol DEF Signal
<1>2. /\ bar \in Nat /\ book \in Book /\ BookOK(book) /\ candle \in [Symbol -> Tradable]
  BY <1>0, RunTypes1, CandlesTradable DEF RunTyped
<1>3. w \in Int /\ (w # 0 => bar >= Warmup)
  <2>1. bar \in Int
    BY <1>2
  <2> QED
    BY <1>1, <2>1, WeightEffect
<1>4. book' = Rebalance(book, turn, w, candle, bar)
  BY DEF Signal
<1> HIDE DEF w
<1>5. /\ BookOK(book') /\ OnlyMoves(book, book', turn)
      /\ \/ book' = book
         \/ IsClosed(book, book', turn, "signal", bar)
         \/ Entered(book, book', turn, w, bar)
  BY <1>1, <1>2, <1>3, <1>4, RebalanceEffect
<1>6. RunTyped'
  <2>1. peak' \in Nat
    <3>1. curve.equity \in Int /\ peak \in Nat
      BY <1>0 DEF RunTyped
    <3>2. PeakNow \in Nat
      BY <3>1 DEF PeakNow
    <3> QED
      BY <3>1, <3>2 DEF Signal
  <2> QED
    BY <1>0, <1>1, <1>5, <2>1 DEF RunTyped, Signal
<1>7. MoneyInv'
  BY <1>5 DEF RunInv, MoneyInv, OnlyMoves
<1>8. ASSUME NEW s \in Symbol, s # turn PROVE PastOK(s)' /\ StageOK(s)'
  <2>1. PastOK(s) /\ StageOK(s) /\ stage = "signal" /\ stage' = "signal" /\ bar' = bar /\ turn' = turn + 1
    BY <1>0 DEF TradesInv, Signal
  <2>2. PastOK(s)'
    BY <1>1, <1>5, <1>8, <2>1, OthersPast
  <2>3. book'.exit[s] = book.exit[s]
    BY <1>5, <1>8 DEF OnlyMoves
  <2>4. s >= turn' => s >= turn
    BY <1>0, <2>1, RunTypes1
  <2> QED
    BY <2>1, <2>2, <2>3, <2>4 DEF StageOK
<1>9. PastOK(turn) /\ StageOK(turn) /\ stage = "signal" /\ stage' = "signal" /\ bar' = bar /\ turn' = turn + 1
  BY <1>0, <1>1 DEF TradesInv, Signal
<1>10. /\ book.exit[turn].bar < bar /\ book.exit[turn].bar \in Int /\ book.lastEntry[turn] \in Int
       /\ turn \in Nat /\ Warmup \in Nat
  BY <1>0, <1>1, <1>9, RunTypes1 DEF StageOK
<1>11. book' # book => bar >= Warmup
  <2>1. CASE IsClosed(book, book', turn, "signal", bar)
    BY <1>0, <1>1, <1>6, <1>9, <2>1, ClosedPast
  <2>2. CASE Entered(book, book', turn, w, bar)
    BY <1>3, <2>2 DEF Entered
  <2> QED
    BY <1>5, <2>1, <2>2
<1>12. \A s \in Symbol : s = turn => PastOK(s)' /\ StageOK(s)'
  <2> SUFFICES ASSUME NEW s \in Symbol, s = turn PROVE PastOK(s)' /\ StageOK(s)'
    OBVIOUS
  <2>1. StageOK(s)'
    <3>1. ~(s >= turn')
      BY <1>9, <1>10
    <3> QED
      BY <1>9, <3>1 DEF StageOK
  <2>2. CASE book' = book
    BY <1>9, <2>1, <2>2 DEF PastOK
  <2>3. CASE IsClosed(book, book', s, "signal", bar)
    BY <1>0, <1>6, <1>9, <2>1, <2>3, ClosedPast
  <2>4. CASE Entered(book, book', s, w, bar)
    <3>1. /\ book'.pos[s].bar = bar /\ book'.lastEntry[s] = bar /\ bar >= Warmup
          /\ book'.exit[s] = IF Held(book, s) THEN [bar |-> bar, why |-> "signal"] ELSE book.exit[s]
          /\ Held(book', s)
      BY <1>3, <2>4 DEF Entered, Held, Sign
    <3>2. \/ book'.exit[s].bar = bar /\ book'.exit[s].why = "signal"
          \/ book'.exit[s].bar \in Int /\ book'.exit[s].bar < bar
      BY <1>10, <3>1
    <3> QED
      BY <1>2, <1>9, <1>10, <2>1, <3>1, <3>2 DEF PastOK
  <2> QED
    BY <1>5, <2>2, <2>3, <2>4
<1>13. TradesInv'
  <2>1. book'.commission > 0 => bar' >= Warmup
    BY <1>0, <1>9, <1>11 DEF TradesInv
  <2> QED
    BY <1>8, <1>12, <2>1 DEF TradesInv
<1>14. FinalEquityIsReal' /\ RowsInv'
  BY DEF Signal, FinalEquityIsReal, RowsInv, RunInv
<1> QED
  BY <1>6, <1>7, <1>13, <1>14 DEF RunInv

LEMMA EndSignalsKeeps ==
  ASSUME RunInv, EndSignals
  PROVE  RunInv'
<1>0. RunTyped /\ TradesInv
  BY DEF RunInv
<1>1. RunTyped'
  BY <1>0, BookConstants DEF RunTyped, EndSignals
<1>2. MoneyInv' /\ RowsInv'
  BY DEF RunInv, MoneyInv, RowsInv, EndSignals
<1>3. FinalEquityIsReal'
  BY DEF EndSignals, FinalEquityIsReal
<1>4. ASSUME NEW s \in Symbol PROVE PastOK(s)' /\ StageOK(s)'
  <2>1. PastOK(s)'
    BY <1>0 DEF TradesInv, PastOK, EndSignals
  <2>2. ~(s < turn') /\ stage' = "mark"
    BY <1>0, RunTypes1 DEF EndSignals
  <2> QED
    BY <2>1, <2>2 DEF StageOK
<1>5. TradesInv'
  BY <1>0, <1>4 DEF TradesInv, EndSignals
<1> QED
  BY <1>1, <1>2, <1>3, <1>5 DEF RunInv

LEMMA MarkKeeps ==
  ASSUME RunInv, Mark
  PROVE  RunInv'
<1>0. RunTyped /\ TradesInv
  BY DEF RunInv
<1>1. turn \in Symbol /\ turn + 1 \in 1..(NSym + 1)
  BY <1>0, TurnIsSymbol DEF Mark
<1>2. bar \in Nat /\ BookOK(book) /\ candle[turn] \in Bar4 /\ turn \in Nat
  BY <1>0, <1>1, RunTypes1 DEF RunTyped
<1>3. StartMin + bar * BarMin \in Nat
  BY <1>2, RunConstants
<1> DEFINE min == StartMin + bar * BarMin
<1>4. book' = OnBar(book, turn, candle[turn], min, bar)
  BY DEF Mark
<1> HIDE DEF min
<1>5. /\ BookOK(book') /\ OnlyMoves(book, book', turn)
      /\ \/ /\ IsUntouched(book, book', turn)
            /\ Held(book, turn) => Survives(book.pos[turn], candle[turn], bar)
         \/ \E why \in ExitReason \ {"none", "signal"} :
              /\ IsClosed(book, book', turn, why, bar)
              /\ why \in {"stop_loss", "take_profit"} => bar > book.pos[turn].bar
  BY <1>1, <1>2, <1>3, <1>4, OnBarEffect DEF min
<1>6. RunTyped'
  BY <1>0, <1>1, <1>5 DEF RunTyped, Mark
<1>7. MoneyInv' /\ RowsInv'
  BY <1>5 DEF RunInv, MoneyInv, OnlyMoves, RowsInv, Mark
<1>8. FinalEquityIsReal'
  BY DEF Mark, FinalEquityIsReal
<1>9. stage = "mark" /\ stage' = "mark" /\ bar' = bar /\ candle' = candle /\ turn' = turn + 1
  BY DEF Mark
<1>10. ASSUME NEW s \in Symbol, s # turn PROVE PastOK(s)' /\ StageOK(s)'
  <2>1. PastOK(s) /\ StageOK(s)
    BY <1>0 DEF TradesInv
  <2>2. PastOK(s)' /\ (Held(book', s) <=> Held(book, s))
    BY <1>1, <1>5, <1>9, <1>10, <2>1, OthersPast
  <2>3. book'.pos[s] = book.pos[s]
    BY <1>5, <1>10 DEF OnlyMoves
  <2>4. s < turn' => s < turn
    BY <1>0, <1>2, <1>9, <1>10, RunTypes1
  <2> QED
    BY <1>9, <2>1, <2>2, <2>3, <2>4 DEF StageOK
<1>11. PastOK(turn)
  BY <1>0, <1>1 DEF TradesInv
<1>12. CASE IsUntouched(book, book', turn) /\ (Held(book, turn) => Survives(book.pos[turn], candle[turn], bar))
  <2>1. \A s \in Symbol : s = turn => PastOK(s)' /\ StageOK(s)'
    BY <1>9, <1>11, <1>12 DEF IsUntouched, PastOK, StageOK, Held
  <2>2. book'.commission > 0 => bar' >= Warmup
    BY <1>0, <1>9, <1>12 DEF IsUntouched, TradesInv
  <2>3. TradesInv'
    BY <1>10, <2>1, <2>2 DEF TradesInv
  <2> QED
    BY <1>6, <1>7, <1>8, <2>3 DEF RunInv
<1>13. ASSUME NEW why \in ExitReason \ {"none", "signal"}, IsClosed(book, book', turn, why, bar),
              why \in {"stop_loss", "take_profit"} => bar > book.pos[turn].bar
       PROVE  RunInv'
  <2>1. \A s \in Symbol : s = turn => PastOK(s)' /\ ~Held(book', s) /\ bar >= Warmup
    BY <1>0, <1>6, <1>9, <1>11, <1>13, ClosedPast
  <2>2. \A s \in Symbol : s = turn => StageOK(s)'
    BY <1>9, <2>1 DEF StageOK, Held
  <2>3. bar' >= Warmup
    BY <1>1, <1>9, <2>1
  <2>4. TradesInv'
    BY <1>10, <2>1, <2>2, <2>3 DEF TradesInv
  <2> QED
    BY <1>6, <1>7, <1>8, <2>4 DEF RunInv
<1> QED
  BY <1>5, <1>12, <1>13

LEMMA SnapshotKeeps ==
  ASSUME RunInv, Snapshot
  PROVE  RunInv'
<1>0. RunTyped /\ TradesInv
  BY DEF RunInv
<1>1. /\ bar \in Nat /\ Bars \in Nat \ {0} /\ NSym \in Nat \ {0} /\ Symbol = 1..NSym /\ book \in Book
      /\ Warmup \in Nat
  BY <1>0, RunTypes1
<1>2. Equity(book, Closes) \in Int /\ book.paid \in Int /\ candle \in [Symbol -> Candle]
  BY <1>0, <1>1, ClosesArePrices, EquityType DEF RunTyped, Book
<1>3. /\ curve' = [equity |-> Equity(book, Closes), closes |-> Closes, paid |-> book.paid]
      /\ book' = book /\ turn' = 1 /\ UNCHANGED <<rows, peak, allowsShort>>
      /\ \/ stage' = "signal" /\ bar' = bar + 1 /\ bar + 1 < Bars /\ candle' \in [Symbol -> Candle]
         \/ stage' = "close" /\ bar' = bar /\ candle' = candle
  BY DEF Snapshot
<1>4. RunTyped'
  <2>1. curve'.equity \in Int /\ curve'.paid \in Int
    BY <1>2, <1>3
  <2>2. bar' \in 0..(Bars - 1) /\ turn' \in 1..(NSym + 1) /\ candle' \in [Symbol -> Candle]
    BY <1>0, <1>1, <1>2, <1>3 DEF RunTyped
  <2> QED
    BY <1>0, <1>3, <2>1, <2>2 DEF RunTyped
<1>5. MoneyInv' /\ RowsInv'
  BY <1>3 DEF RunInv, MoneyInv, RowsInv
<1>6. FinalEquityIsReal'
  <2> SUFFICES ASSUME stage' = "close"
               PROVE  Equity(book', Closes') = curve'.equity - (book'.paid - curve'.paid)
    BY <1>3 DEF FinalEquityIsReal
  <2>1. Closes' = Closes
    BY <1>3 DEF Closes
  <2>2. curve'.equity = Equity(book, Closes) /\ curve'.paid = book.paid
    BY <1>3
  <2> QED
    BY <1>2, <1>3, <2>1, <2>2
<1>7. ASSUME NEW s \in Symbol PROVE PastOK(s)' /\ StageOK(s)'
  <2>1. /\ PastOK(s) /\ book.pos[s].bar \in Nat /\ book.lastEntry[s] \in Int /\ book.exit[s].bar \in Int
    BY <1>0, RunTypes1 DEF TradesInv
  <2>2. bar' \in Nat /\ bar' >= bar
    BY <1>1, <1>3
  <2>3. PastOK(s)'
    BY <1>1, <1>3, <2>1, <2>2 DEF PastOK
  <2>4. stage' = "signal" => book'.exit[s].bar < bar'
    BY <1>1, <1>3, <2>1 DEF PastOK
  <2>5. ~(s < turn')
    BY <1>1, <1>3
  <2> QED
    BY <1>3, <2>3, <2>4, <2>5 DEF StageOK
<1>8. book'.commission > 0 => bar' >= Warmup
  <2>1. book.commission > 0 => bar >= Warmup
    BY <1>0 DEF TradesInv
  <2> QED
    BY <1>1, <1>3, <2>1
<1>9. TradesInv'
  BY <1>7, <1>8 DEF TradesInv
<1> QED
  BY <1>4, <1>5, <1>6, <1>9 DEF RunInv

LEMMA CloseOutKeeps ==
  ASSUME RunInv, CloseOut
  PROVE  RunInv'
<1>0. RunTyped /\ TradesInv
  BY DEF RunInv
<1>1. turn \in Symbol /\ turn + 1 \in 1..(NSym + 1)
  BY <1>0, TurnIsSymbol DEF CloseOut
<1>2. /\ bar \in Nat /\ BookOK(book) /\ turn \in Nat /\ candle[turn].close \in Nat /\ book \in Book
      /\ Closes \in PriceOf /\ Closes[turn] = candle[turn].close /\ "end_of_backtest" \in ExitReason
  BY <1>0, <1>1, RunTypes1, ClosesArePrices DEF RunTyped, Bar4, ExitReason
<1>3. book' = Close(book, turn, candle[turn].close, "end_of_backtest", bar)
  BY DEF CloseOut
<1>4. /\ BookOK(book') /\ OnlyMoves(book, book', turn)
      /\ IF Held(book, turn) THEN IsClosed(book, book', turn, "end_of_backtest", bar) ELSE book' = book
      /\ Equity(book', Closes) = Equity(book, Closes) - (book'.paid - book.paid)
  <2> DEFINE px == candle[turn].close
  <2>1. px \in Nat /\ book' = Close(book, turn, px, "end_of_backtest", bar) /\ Closes[turn] = px
    BY <1>2, <1>3
  <2> HIDE DEF px
  <2> QED
    BY <1>1, <1>2, <2>1, CloseEffect
<1>5. /\ stage = "close" /\ stage' = "close" /\ bar' = bar /\ candle' = candle /\ turn' = turn + 1
      /\ curve' = curve
  BY DEF CloseOut
<1>6. RunTyped'
  BY <1>0, <1>1, <1>4 DEF RunTyped, CloseOut
<1>7. MoneyInv' /\ RowsInv'
  BY <1>4 DEF RunInv, MoneyInv, OnlyMoves, RowsInv, CloseOut
<1>8. FinalEquityIsReal'
  <2>1. Closes' = Closes
    BY <1>5 DEF Closes
  <2>2. Equity(book, Closes) = curve.equity - (book.paid - curve.paid)
    BY <1>5 DEF RunInv, FinalEquityIsReal
  <2>3. /\ book'.paid \in Int /\ book.paid \in Int /\ curve.equity \in Int /\ curve.paid \in Int
    BY <1>0, <1>4, <1>2 DEF RunTyped, BookOK, Book
  <2>4. Equity(book', Closes) = curve.equity - (book'.paid - curve.paid)
    BY <1>4, <2>2, <2>3
  <2> QED
    BY <1>5, <2>1, <2>4 DEF FinalEquityIsReal
<1>9. ASSUME NEW s \in Symbol, s # turn PROVE PastOK(s)' /\ StageOK(s)'
  <2>1. PastOK(s) /\ StageOK(s)
    BY <1>0 DEF TradesInv
  <2>2. PastOK(s)' /\ (Held(book', s) <=> Held(book, s))
    BY <1>1, <1>4, <1>5, <1>9, <2>1, OthersPast
  <2>3. s < turn' => s < turn
    BY <1>0, <1>2, <1>5, <1>9, RunTypes1
  <2> QED
    BY <1>5, <2>1, <2>2, <2>3 DEF StageOK
<1>10. PastOK(turn)
  BY <1>0, <1>1 DEF TradesInv
<1>11. \A s \in Symbol : s = turn => PastOK(s)' /\ ~Held(book', s) /\ (book' # book => bar >= Warmup)
  <2>1. CASE Held(book, turn)
    BY <1>0, <1>4, <1>5, <1>6, <1>10, <2>1, ClosedPast
  <2>2. CASE ~Held(book, turn)
    BY <1>4, <1>5, <1>10, <2>2 DEF PastOK
  <2> QED
    BY <2>1, <2>2
<1>12. \A s \in Symbol : s = turn => StageOK(s)'
  BY <1>5, <1>11 DEF StageOK, Held
<1>13. book'.commission > 0 => bar' >= Warmup
  BY <1>0, <1>1, <1>5, <1>11 DEF TradesInv
<1>14. TradesInv'
  BY <1>9, <1>11, <1>12, <1>13 DEF TradesInv
<1> QED
  BY <1>6, <1>7, <1>8, <1>14 DEF RunInv

LEMMA FinishKeeps ==
  ASSUME RunInv, Finish
  PROVE  RunInv'
<1>0. RunTyped /\ TradesInv
  BY DEF RunInv
<1>1. RunTyped'
  BY <1>0 DEF RunTyped, Finish
<1>2. MoneyInv' /\ RowsInv'
  BY DEF RunInv, MoneyInv, RowsInv, Finish
<1>3. FinalEquityIsReal'
  BY DEF Finish, FinalEquityIsReal, Closes, RunInv
<1>4. ASSUME NEW s \in Symbol PROVE PastOK(s)' /\ StageOK(s)'
  <2>1. PastOK(s) /\ StageOK(s) /\ stage = "close" /\ stage' = "done" /\ book' = book /\ bar' = bar
    BY <1>0 DEF TradesInv, Finish
  <2>2. PastOK(s)'
    BY <2>1 DEF PastOK
  <2>3. s < turn
    BY <1>0, RunTypes1 DEF Finish
  <2> QED
    BY <2>1, <2>2, <2>3 DEF StageOK
<1>5. TradesInv'
  BY <1>0, <1>4 DEF TradesInv, Finish
<1> QED
  BY <1>1, <1>2, <1>3, <1>5 DEF RunInv

LEMMA RunInvInductive == RunInv /\ [RunNext]_runVars => RunInv'
<1> SUFFICES ASSUME RunInv, [RunNext]_runVars PROVE RunInv'
  OBVIOUS
<1>1. CASE UNCHANGED runVars
  BY <1>1 DEF runVars, RunInv, RunTyped, MoneyInv, TradesInv, PastOK, StageOK, FinalEquityIsReal,
     RowsInv, Closes
<1>2. ASSUME NEW a \in Answer(turn), NEW px \in LastCloses, Signal(a, px) PROVE RunInv'
  BY <1>2, SignalKeeps
<1> QED
  BY <1>1, <1>2, EndSignalsKeeps, MarkKeeps, SnapshotKeeps, CloseOutKeeps, FinishKeeps DEF RunNext

-----------------------------------------------------------------------------
(* Every reachable state of a backtest is well typed, a position has        *)
(* something in it and is not older than the bar, and at the end nothing    *)
(* is held (PerpEngine.run).                                                *)
THEOREM RunTypes == RunSpec => []RunTypeOK
<1>1. RunInv => RunTypeOK
  <2> SUFFICES ASSUME RunInv PROVE RunTypeOK
    OBVIOUS
  <2>0. RunTyped /\ TradesInv
    BY DEF RunInv
  <2>1. bar \in Nat /\ Bars \in Nat /\ bar <= Bars
    BY <2>0, RunTypes1 DEF RunTyped
  <2>2. book \in Book /\ BookOK(book)
    BY <2>0, RunTypes1 DEF RunTyped
  <2>3. \A s \in Symbol : book.pos[s].bar <= bar /\ book.lastEntry[s] <= bar
    BY <2>0 DEF TradesInv, PastOK
  <2>4. \A s \in Symbol : book.pos[s] \in Position
    <3> SUFFICES ASSUME NEW s \in Symbol PROVE book.pos[s] \in Position
      OBVIOUS
    <3>1. book.pos[s] \in Holding /\ (IF Held(book, s) THEN book.pos[s].size > 0 ELSE book.pos[s] = Flat)
      BY <2>2 DEF BookOK, Book
    <3>2. book.pos[s].bar \in 0..Bars
      BY <2>1, <2>3, <3>1 DEF Holding
    <3> QED
      BY <3>1, <3>2 DEF Holding, Held, Position
  <2>5. book.lastEntry \in [Symbol -> {Never} \cup 0..bar]
    BY <2>1, <2>2, <2>3 DEF Book, Never
  <2>6. stage = "done" => \A s \in Symbol : ~Held(book, s)
    BY <2>0 DEF TradesInv, StageOK
  <2>7. /\ book.capital \in Int /\ book.pnl \in Int /\ book.settled \in Int
        /\ book.commission \in Nat /\ book.paid \in Nat /\ DOMAIN book.pos = Symbol
    BY <2>2 DEF Book
  <2> QED
    BY <2>0, <2>3, <2>4, <2>5, <2>6, <2>7 DEF RunTyped, RunTypeOK
<1> QED
  BY <1>1, RunStarts, RunInvInductive, PTL DEF RunSpec

(* For every series of bars and answers: the capital and the margins are    *)
(* the initial cash, the profit, less every commission and funding fee, on  *)
(* every way out of a position (_close, _apply_funding); and the final      *)
(* equity is the last snapshot's less the commissions of the close-out.     *)
THEOREM MoneyAddsUp == RunSpec => []MoneyIsExplained
<1>1. RunInv => MoneyIsExplained
  <2> SUFFICES ASSUME RunInv PROVE MoneyIsExplained
    OBVIOUS
  <2>1. book \in Book
    BY RunTypes1 DEF RunInv
  <2>2. OpenMargins(book) \in Int /\ OpenFees(book) \in Int
    BY <2>1, BookSums
  <2>3. /\ book.capital \in Int /\ book.pnl \in Int /\ book.settled \in Int
        /\ book.commission \in Int /\ book.paid \in Int
    BY <2>1 DEF Book
  <2>4. InitialCash * Unit \in Int
    BY RunConstants, BookConstants
  <2>5. /\ book.capital + OpenMargins(book) - book.pnl + book.paid + book.settled = InitialCash * Unit
        /\ book.paid - book.commission - OpenFees(book) = 0
    BY DEF RunInv, MoneyInv, Balance, Unbooked
  <2> DEFINE m == OpenMargins(book)
             f == OpenFees(book)
             i == InitialCash * Unit
  <2>6. /\ m \in Int /\ f \in Int /\ i \in Int
        /\ book.capital + m - book.pnl + book.paid + book.settled = i
        /\ book.paid - book.commission - f = 0
    BY <2>2, <2>4, <2>5
  <2> HIDE DEF m, f, i
  <2>7. book.capital + m = i + book.pnl - book.paid - book.settled /\ book.paid = book.commission + f
    BY <2>3, <2>6
  <2> QED
    BY <2>7 DEF MoneyIsExplained, RunInv, m, f, i
<1> QED
  BY <1>1, RunStarts, RunInvInductive, PTL DEF RunSpec

(* No bar leaves a position its margin does not cover, past its stop or     *)
(* target or held too long; trades follow each other as _rebalance and      *)
(* on_bar have them.                                                        *)
THEOREM NothingIsOverdue == RunSpec => []BarsAreSound
<1>1. RunInv => BarsAreSound
  <2> SUFFICES ASSUME RunInv PROVE BarsAreSound
    OBVIOUS
  <2>1. RunTyped /\ TradesInv
    BY DEF RunInv
  <2>2. SurvivorsAreSound
    <3> SUFFICES ASSUME stage = "mark", turn > NSym, NEW s \in Symbol, Held(book, s)
                 PROVE  Survives(book.pos[s], candle[s], bar)
      BY DEF SurvivorsAreSound, Survives
    <3>1. s < turn
      BY <2>1, RunTypes1
    <3> QED
      BY <2>1, <3>1 DEF TradesInv, StageOK
  <2>3. TradesInOrder
    BY <2>1 DEF TradesInv, PastOK, TradesInOrder
  <2> QED
    BY <2>2, <2>3 DEF BarsAreSound
<1> QED
  BY <1>1, RunStarts, RunInvInductive, PTL DEF RunSpec

-----------------------------------------------------------------------------
(* Entries, step by step.                                                   *)
LEMMA EntriesOnlyInSignal ==
  ASSUME RunInv, [RunNext]_runVars, NEW s \in Symbol, IsEntry(s)
  PROVE  \E a \in Answer(s), px \in LastCloses :
           /\ s = turn /\ Signal(a, px)
           /\ Weight(s, a, px) \in Int /\ (Weight(s, a, px) # 0 => bar >= Warmup)
           /\ Entered(book, book', s, Weight(s, a, px), bar)
<1>0. RunTyped /\ bar \in Nat
  BY RunTypes1 DEF RunInv
<1>1. ~(UNCHANGED runVars \/ EndSignals \/ Snapshot \/ Finish)
  BY DEF IsEntry, runVars, EndSignals, Snapshot, Finish
<1>2. ~Mark
  <2> SUFFICES ASSUME Mark PROVE FALSE
    OBVIOUS
  <2>1. turn \in Symbol
    BY <1>0, TurnIsSymbol DEF Mark
  <2>2. BookOK(book) /\ candle[turn] \in Bar4
    BY <1>0, <2>1, RunTypes1 DEF RunTyped
  <2> DEFINE min == StartMin + bar * BarMin
  <2>3. min \in Nat /\ book' = OnBar(book, turn, candle[turn], min, bar)
    BY <1>0, RunConstants DEF Mark
  <2> HIDE DEF min
  <2>4. /\ OnlyMoves(book, book', turn)
        /\ IsUntouched(book, book', turn) \/ \E why : IsClosed(book, book', turn, why, bar)
    BY <1>0, <2>1, <2>2, <2>3, OnBarEffect
  <2>5. book'.lastEntry[turn] = book.lastEntry[turn]
    BY <2>4 DEF IsUntouched, IsClosed
  <2> QED
    BY <2>4, <2>5 DEF OnlyMoves, IsEntry
<1>3. ~CloseOut
  <2> SUFFICES ASSUME CloseOut PROVE FALSE
    OBVIOUS
  <2>1. turn \in Symbol
    BY <1>0, TurnIsSymbol DEF CloseOut
  <2> DEFINE px == candle[turn].close
  <2>2. BookOK(book) /\ px \in Nat /\ "end_of_backtest" \in ExitReason
    BY <1>0, <2>1, RunTypes1 DEF RunTyped, Bar4, ExitReason
  <2>3. book' = Close(book, turn, px, "end_of_backtest", bar)
    BY DEF CloseOut
  <2> HIDE DEF px
  <2>4. /\ OnlyMoves(book, book', turn)
        /\ IsClosed(book, book', turn, "end_of_backtest", bar) \/ book' = book
    BY <1>0, <2>1, <2>2, <2>3, CloseEffect
  <2>5. book'.lastEntry[turn] = book.lastEntry[turn]
    BY <2>4 DEF IsClosed
  <2> QED
    BY <2>4, <2>5 DEF OnlyMoves, IsEntry
<1>4. PICK a \in Answer(turn), px \in LastCloses : Signal(a, px)
  BY <1>1, <1>2, <1>3 DEF RunNext
<1>5. turn \in Symbol
  BY <1>0, <1>4, TurnIsSymbol DEF Signal
<1> DEFINE w == Weight(turn, a, px)
<1>6. w \in Int /\ (w # 0 => bar >= Warmup)
  <2>1. bar \in Int
    BY <1>0
  <2> QED
    BY <1>4, <1>5, <2>1, WeightEffect
<1>7. BookOK(book) /\ candle \in [Symbol -> Tradable]
  BY <1>0, CandlesTradable DEF RunTyped
<1>8. book' = Rebalance(book, turn, w, candle, bar)
  BY <1>4 DEF Signal
<1> HIDE DEF w
<1>9. /\ OnlyMoves(book, book', turn)
      /\ book' = book \/ IsClosed(book, book', turn, "signal", bar) \/ Entered(book, book', turn, w, bar)
  BY <1>0, <1>5, <1>6, <1>7, <1>8, RebalanceEffect
<1>10. s = turn
  BY <1>9 DEF OnlyMoves, IsEntry
<1>11. Entered(book, book', s, w, bar)
  BY <1>9, <1>10 DEF IsEntry, IsClosed
<1> QED
  BY <1>4, <1>6, <1>10, <1>11 DEF w

LEMMA EntryPaid ==
  ASSUME RunInv, [RunNext]_runVars, NEW s \in Symbol, IsEntry(s)
  PROVE  EntryIsPaid(s)
<1>1. PICK a \in Answer(s), px \in LastCloses : Entered(book, book', s, Weight(s, a, px), bar)
  BY EntriesOnlyInSignal
<1>2. book.lastEntry[s] \in Int /\ bar \in Nat /\ Cooldown \in Nat
  BY RunTypes1, BookConstants DEF RunInv
<1>3. book'.lastEntry[s] = bar /\ ~Cooling(book, s, bar) /\ Affordable(book'.capital, book'.pos[s].entry)
  BY <1>1 DEF Entered
<1>4. book.lastEntry[s] # Never => bar - book.lastEntry[s] >= Cooldown
  BY <1>2, <1>3 DEF Cooling
<1> QED
  BY <1>3, <1>4 DEF EntryIsPaid, Affordable

(* When one symbol has all its bars, every symbol has, and the closes the   *)
(* agents see are the snapshot's.                                           *)
LEMMA FullRowsShowSnapshot ==
  ASSUME RunInv, NEW s \in Symbol, rows[s] = 0..(Bars - 1), NEW px \in LastCloses
  PROVE  \A x \in Symbol : px[x] = curve.closes[x]
<1>1. bar \in Nat /\ Bars \in Nat \ {0} /\ bar <= Bars - 1
  BY RunTypes1 DEF RunInv, RunTyped
<1>2. IsFiniteSet(0..(Bars - 1)) /\ Cardinality(0..(Bars - 1)) = Bars
  BY <1>1, FS_Interval
<1>3. SUFFICES ASSUME NEW x \in Symbol PROVE Shown(x) = 0..(bar - 1)
  BY DEF LastCloses
<1>4. rows[x] \in SUBSET (0..(Bars - 1)) /\ Cardinality(rows[x]) = Cardinality(0..(Bars - 1))
  BY <1>2 DEF RunInv, RunTyped, RowsInv
<1>5. rows[x] = 0..(Bars - 1)
  <2> DEFINE full == 0..(Bars - 1)
  <2>1. IsFiniteSet(full) /\ rows[x] \in SUBSET full /\ Cardinality(rows[x]) = Cardinality(full)
    BY <1>2, <1>4
  <2> HIDE DEF full
  <2>2. Cardinality(full) \in Nat /\ Cardinality(rows[x]) \in Nat
    BY <2>1, FS_Subset, FS_CardinalityType
  <2>3. rows[x] = full
    BY <2>1, <2>2, FS_Subset
  <2> QED
    BY <2>3 DEF full
<1>6. ASSUME NEW t \in 0..(Bars - 1)
      PROVE  Cardinality({u \in rows[x] : u <= t}) = t + 1
  <2>1. {u \in rows[x] : u <= t} = 0..t
    BY <1>1, <1>5
  <2>2. 0 \in Int /\ t \in Int /\ 0 <= t
    BY <1>1
  <2>3. Cardinality(0..t) = IF 0 > t THEN 0 ELSE t - 0 + 1
    BY <2>2, FS_Interval, Zenon
  <2> DEFINE n == Cardinality(0..t)
  <2>4. Cardinality({u \in rows[x] : u <= t}) = n
    BY <2>1, Zenon
  <2>5. n = IF 0 > t THEN 0 ELSE t - 0 + 1
    BY <2>3
  <2> HIDE DEF n
  <2>6. n = t + 1
    BY <2>2, <2>5
  <2> QED
    BY <2>4, <2>6, Zenon
<1>7. Shown(x) = {t \in 0..(Bars - 1) : t + 1 <= bar}
  BY <1>5, <1>6 DEF Shown
<1> QED
  BY <1>1, <1>7

LEMMA NoNetWithoutHoldings ==
  ASSUME NEW b, \A x \in Symbol : b.pos[x] = Flat
  PROVE  SumFunctionOnSet([x \in Symbol |-> Signed(b, x)], Symbol) = 0
<1> DEFINE f == [x \in Symbol |-> Signed(b, x)]
<1>1. \A x \in Symbol : f[x] = 0
  BY DEF Signed, Flat
<1> HIDE DEF f
<1>2. SumFunctionOnSet(f, Symbol) = 0
  BY <1>1, SymbolsFinite, SumOfNone
<1> QED
  BY <1>2 DEF f

LEMMA GrossAtSnapshot ==
  ASSUME NEW b, NEW px, NEW qx, b \in Book, \A x \in Symbol : px[x] = qx[x]
  PROVE  Gross(b, px) = Gross(b, qx)
<1>1. [x \in Symbol |-> Money(b.pos[x].size, px[x])] = [x \in Symbol |-> Money(b.pos[x].size, qx[x])]
  OBVIOUS
<1> QED
  BY <1>1 DEF Gross

LEMMA EntryGuarded ==
  ASSUME RunInv, [RunNext]_runVars, NEW s \in Symbol, s \in AgentLed, IsEntry(s)
  PROVE  EntryIsGuarded(s)
<1>0. RunTyped /\ bar \in Nat /\ book \in Book /\ BookOK(book)
  BY RunTypes1 DEF RunInv, RunTyped
<1>1. PICK a \in Answer(s), px \in LastCloses :
           /\ s = turn /\ Signal(a, px)
           /\ Weight(s, a, px) \in Int /\ (Weight(s, a, px) # 0 => bar >= Warmup)
           /\ Entered(book, book', s, Weight(s, a, px), bar)
  BY EntriesOnlyInSignal
<1> DEFINE w == Weight(s, a, px)
           action == Decision(s, a.action, px)
           intent == Intent(book, a.action, allowsShort)
<1>2. w \in Int /\ w # 0 /\ bar >= Warmup /\ book'.pos[s].dir = Sign(w)
  BY <1>1 DEF Entered
<1>3. (w > 0 => action = "BUY") /\ (w < 0 => action = "SELL")
  <2>1. bar \in Int
    BY <1>0
  <2> QED
    BY <2>1, WeightEffect
<1>4. peak' = PeakNow
  BY <1>1, <1>2 DEF Signal, Asked
<1> HIDE DEF w
<1>5. /\ action \in {"BUY", "SELL"} /\ book'.pos[s].dir = (IF action = "BUY" THEN 1 ELSE -1)
  BY <1>2, <1>3 DEF Sign
<1>6. action = intent /\ ~Vetoed(book, s, intent, curve.equity, PeakNow, px)
  BY <1>5 DEF Decision
<1> HIDE DEF action
<1>7. ASSUME Armed(curve.equity, peak')
      PROVE  \/ \A x \in Symbol : book.pos[x] = Flat
             \/ book.pos[s].dir = -book'.pos[s].dir
  <2>1. BookIsFlat(book) \/ ~IncreasesRisk(book, s, intent)
    BY <1>4, <1>6, <1>7 DEF Vetoed
  <2>2. CASE BookIsFlat(book)
    BY <1>0, <2>2 DEF BookIsFlat, BookOK
  <2>3. CASE ~IncreasesRisk(book, s, intent)
    <3>1. book.pos[s].dir \in {-1, 0, 1} /\ book.pos[s].size \in Nat
      BY <1>0 DEF Book, Holding
    <3> DEFINE d == book.pos[s].dir
               q == book.pos[s].size
    <3>2. d \in {-1, 0, 1} /\ q \in Nat /\ Signed(book, s) = d * q
      BY <3>1 DEF Signed
    <3> HIDE DEF d, q
    <3>3. (action = "BUY" => d * q < 0) /\ (action = "SELL" => d * q > 0)
      BY <1>6, <2>3, <3>2 DEF IncreasesRisk
    <3>4. (action = "BUY" => d = -1) /\ (action = "SELL" => d = 1)
      BY <3>2, <3>3
    <3> QED
      BY <1>5, <3>4 DEF d
  <2> QED
    BY <2>1, <2>2, <2>3
<1>8. ASSUME rows[s] = 0..(Bars - 1)
      PROVE  ~OverLeveraged(book, curve.closes, curve.equity)
  <2>1. Gross(book, px) = Gross(book, curve.closes)
    BY <1>0, <1>8, FullRowsShowSnapshot, GrossAtSnapshot
  <2>2. ~OverLeveraged(book, px, curve.equity)
    BY <1>6 DEF Vetoed
  <2> QED
    BY <2>1, <2>2 DEF OverLeveraged
<1>9. ASSUME book'.pos[s].dir = -1, ~allowsShort
      PROVE  \E x \in Symbol : book.pos[x] # Flat
  <2>1. intent = "SELL" /\ a.action = "SELL"
    BY <1>5, <1>6, <1>9 DEF Intent
  <2>2. SumFunctionOnSet([x \in Symbol |-> Signed(book, x)], Symbol) # 0
    BY <1>9, <2>1 DEF Intent
  <2> QED
    BY <2>2, NoNetWithoutHoldings
<1> QED
  BY <1>7, <1>8, <1>9 DEF EntryIsGuarded

(* No position is opened with capital that is not there, or within the      *)
(* cooldown (_rebalance); and what the agents enter, the risk guard and the *)
(* trade intent let pass, as far as they keep their promises.               *)
THEOREM EntriesHold == RunSpec => EntriesAreSound
<1>1. RunInv /\ [RunNext]_runVars => [\A s \in Symbol : IsEntry(s) => EntryIsPaid(s)]_runVars
  BY EntryPaid
<1>2. RunInv /\ [RunNext]_runVars => [\A s \in AgentLed : IsEntry(s) => EntryIsGuarded(s)]_runVars
  BY EntryGuarded, RunConstants
<1> QED
  BY <1>1, <1>2, RunStarts, RunInvInductive, PTL DEF RunSpec, EntriesAreSound, EntriesArePaid, EntriesAreGuarded

=============================================================================
