----------------------------- MODULE PaperEngine ----------------------------
(***************************************************************************)
(* Starting and stopping the live paper loop: src/api/engine_routes.py,    *)
(* whose handlers share a PID file and a status file between threads and   *)
(* server processes, and scripts/run_paper_loop.py, which patches the      *)
(* status file as it scans.                                                *)
(*                                                                         *)
(* Each read or write of a file, fork, signal and reply is a step.         *)
(***************************************************************************)
EXTENDS Naturals, FiniteSets

CONSTANTS
  Pid,         \* process ids
  Server,      \* API server processes
  Request,     \* requests that may be handled at the same time
  Kinds,       \* what the clients ask: "start", "stop", "status"
  MaxDeaths,   \* bound: loops that die on their own
  MaxRaces,    \* bound: starts that overlap another request
  MaxRestarts  \* bound: server processes that die, between requests

ASSUME EngineConstants ==
  /\ IsFiniteSet(Pid) /\ Pid \cap (Request \cup {"none", "nothing"}) = {}
  /\ Kinds \subseteq {"start", "stop", "status"}
  /\ MaxDeaths \in Nat /\ MaxRaces \in Nat /\ MaxRestarts \in Nat

VARIABLES
  pidFile,   \* paper_engine.pid
  proc,      \* each process: "free", "alive", or "zombie" until its parent waits for it
  parent,    \* the server that started each process, or "init"
  status,    \* paper_engine.status.json: the start whose fields it has
  patch,     \* what each rewrite in progress has read of it: loops' and stop requests'
  req,       \* each request
  answer,    \* history: the last answer of a start or stop, and if a loop ran then
  budget     \* deaths, races and restarts so far

vars == <<pidFile, proc, parent, status, patch, req, answer, budget>>

NoPid == "none"
Nothing == "nothing"
Free == [kind |-> "none", pc |-> "idle", server |-> "none", pid |-> NoPid]

Alive == {p \in Pid : proc[p] = "alive"}
Serving == \E r \in Request : req[r].pc # "idle"

TypeOK ==
  /\ pidFile \in Pid \cup {NoPid}
  /\ proc \in [Pid -> {"free", "alive", "zombie"}]
  /\ parent \in [Pid -> Server \cup {"init"}]
  /\ status \in Pid \cup {NoPid}
  /\ patch \in [Pid \cup Request -> Pid \cup {NoPid, Nothing}]
  /\ \A p \in Pid : proc[p] # "alive" => patch[p] = Nothing
  /\ req \in [Request ->
       [kind : {"none", "start", "stop", "status"}, server : Server \cup {"none"},
        pid : Pid \cup {NoPid},
        pc : {"idle", "check", "probe", "unlink", "spawn", "writePid", "writeStatus",
              "kill", "clearPid", "readStatus", "noteStop"}]]
  /\ answer \in [said : {"nothing", "running", "already", "stopped", "not running"}, true : BOOLEAN]
  /\ budget \in [deaths : 0..MaxDeaths, races : 0..MaxRaces, restarts : 0..MaxRestarts]

Init ==
  /\ pidFile = NoPid
  /\ proc = [p \in Pid |-> "free"] /\ parent = [p \in Pid |-> "init"]
  /\ status = NoPid
  /\ patch = [w \in Pid \cup Request |-> Nothing]
  /\ req = [r \in Request |-> Free]
  /\ answer = [said |-> "nothing", true |-> TRUE]
  /\ budget = [deaths |-> 0, races |-> 0, restarts |-> 0]

-----------------------------------------------------------------------------
(* The handlers.                                                            *)

At(r, pc) == req[r].pc = pc
Go(r, pc) == req' = [req EXCEPT ![r].pc = pc]
Ends(r) == req' = [req EXCEPT ![r] = Free]

(* The reply, and whether it says what is the case.                         *)
Says(text, true) == answer' = [said |-> text, true |-> true]

(* A start and any other request at the same time: nothing prevents it.     *)
Races(r, kind) ==
  \E s \in Request \ {r} : req[s].pc # "idle" /\ "start" \in {kind, req[s].kind}

Arrive(r) ==
  /\ At(r, "idle")
  /\ \E kind \in Kinds, s \in Server :
       /\ req' = [req EXCEPT ![r] = [kind |-> kind, pc |-> "check", server |-> s, pid |-> NoPid]]
       /\ IF Races(r, kind) THEN budget.races < MaxRaces /\ budget' = [budget EXCEPT !.races = @ + 1]
                            ELSE UNCHANGED budget
  /\ UNCHANGED <<pidFile, proc, parent, status, patch, answer>>

(* What a handler does when _current_pid found no process.                  *)
NotRunning(r) ==
  IF req[r].kind = "start" THEN Go(r, "spawn") /\ UNCHANGED answer
  ELSE /\ Ends(r)
       /\ IF req[r].kind = "stop" THEN Says("not running", Alive = {}) ELSE UNCHANGED answer

(* _current_pid: read the file, ...                                         *)
ReadPidFile(r) ==
  /\ At(r, "check")
  /\ IF pidFile = NoPid THEN NotRunning(r)
     ELSE req' = [req EXCEPT ![r].pid = pidFile, ![r].pc = "probe"] /\ UNCHANGED answer
  /\ UNCHANGED <<pidFile, proc, parent, status, patch, budget>>

(* ... ask with signal 0 whether the process exists (a zombie does); a      *)
(* refused start answers with paper_status, which asks again, ...           *)
Exists(p) == proc[p] # "free"

Probes(r, found) ==
  /\ At(r, "probe")
  /\ IF ~found THEN Go(r, "unlink") /\ UNCHANGED answer
     ELSE CASE req[r].kind = "start" ->
                 /\ req' = [req EXCEPT ![r].kind = "status", ![r].pc = "check"]
                 /\ Says("already", proc[req[r].pid] = "alive")
            [] req[r].kind = "stop" -> Go(r, "kill") /\ UNCHANGED answer
            [] req[r].kind = "status" -> Ends(r) /\ UNCHANGED answer
  /\ UNCHANGED <<pidFile, proc, parent, status, patch, budget>>

Probe_AlwaysStale(r) == Probes(r, FALSE)

Probe(r) == Probes(r, Exists(req[r].pid))

(* ... and remove the file if it does not, whatever it says by now.         *)
UnlinkStale(r) ==
  /\ At(r, "unlink")
  /\ pidFile' = NoPid
  /\ NotRunning(r)
  /\ UNCHANGED <<proc, parent, status, patch, budget>>

(* Popen first waits for the dead children of its process; the new loop     *)
(* runs from here on.                                                       *)
Spawn(r) ==
  /\ At(r, "spawn")
  /\ LET reaped == {p \in Pid : proc[p] = "zombie" /\ parent[p] = req[r].server}
     IN  \E p \in {p \in Pid : proc[p] = "free"} :
           /\ proc' = [q \in Pid |-> IF q = p THEN "alive" ELSE IF q \in reaped THEN "free" ELSE proc[q]]
           /\ parent' = [parent EXCEPT ![p] = req[r].server]
           /\ req' = [req EXCEPT ![r].pid = p, ![r].pc = "writePid"]
  /\ UNCHANGED <<pidFile, status, patch, answer, budget>>

(* Popen raises: the request fails with a 500.                              *)
SpawnFails(r) ==
  /\ At(r, "spawn")
  /\ Ends(r)
  /\ UNCHANGED <<pidFile, proc, parent, status, patch, answer, budget>>

WritePid(r) ==
  /\ At(r, "writePid")
  /\ pidFile' = req[r].pid
  /\ Go(r, "writeStatus")
  /\ UNCHANGED <<proc, parent, status, patch, answer, budget>>

WriteStatus(r) ==
  /\ At(r, "writeStatus")
  /\ status' = req[r].pid
  /\ Ends(r) /\ Says("running", TRUE)
  /\ UNCHANGED <<pidFile, proc, parent, patch, budget>>

(* A child of a living server stays a zombie when it dies.                  *)
Dies(p) ==
  /\ proc' = [proc EXCEPT ![p] = IF parent[p] = "init" THEN "free" ELSE "zombie"]
  /\ patch' = [patch EXCEPT ![p] = Nothing]

Kill_ZombieOnly(r) ==
  /\ At(r, "kill")
  /\ Go(r, "clearPid")
  /\ UNCHANGED <<pidFile, proc, parent, status, patch, answer, budget>>

(* SIGTERM to the group, SIGKILL two seconds later; a pid that is gone by   *)
(* then makes both calls raise and the request ends with a 500.             *)
Kill(r) ==
  /\ At(r, "kill")
  /\ IF proc[req[r].pid] = "free" THEN Ends(r) ELSE Go(r, "clearPid")
  /\ IF proc[req[r].pid] = "alive" THEN Dies(req[r].pid) ELSE UNCHANGED <<proc, patch>>
  /\ UNCHANGED <<pidFile, parent, status, answer, budget>>

(* The file goes, whatever it says by now.                                  *)
ClearPid(r) ==
  /\ At(r, "clearPid")
  /\ pidFile' = NoPid
  /\ Go(r, "readStatus")
  /\ UNCHANGED <<proc, parent, status, patch, answer, budget>>

(* Reading the status file and writing it back patched: a stop notes when,  *)
(* and answers; a loop its phase, at the start and the end of each scan.    *)
ReadsStatus(w) == patch' = [patch EXCEPT ![w] = status]
WritesStatus(w) == status' = patch[w] /\ patch' = [patch EXCEPT ![w] = Nothing]

ReadStatus_Skipped(r) ==
  /\ At(r, "readStatus")
  /\ Go(r, "noteStop")
  /\ UNCHANGED <<pidFile, proc, parent, status, patch, answer, budget>>

ReadStatus(r) ==
  /\ At(r, "readStatus")
  /\ ReadsStatus(r)
  /\ Go(r, "noteStop")
  /\ UNCHANGED <<pidFile, proc, parent, status, answer, budget>>

NoteStop(r) ==
  /\ At(r, "noteStop")
  /\ WritesStatus(r)
  /\ Ends(r) /\ Says("stopped", Alive = {})
  /\ UNCHANGED <<pidFile, proc, parent, budget>>

-----------------------------------------------------------------------------
(* The loops.                                                               *)

MergeReads(p) ==
  /\ proc[p] = "alive" /\ patch[p] = Nothing
  /\ ReadsStatus(p)
  /\ UNCHANGED <<pidFile, proc, parent, status, req, answer, budget>>

MergeWrites(p) ==
  /\ patch[p] # Nothing
  /\ WritesStatus(p)
  /\ UNCHANGED <<pidFile, proc, parent, req, answer, budget>>

(* The loop ends by itself: an exception, the kernel's memory killer.       *)
LoopDies(p) ==
  /\ proc[p] = "alive"
  /\ budget.deaths < MaxDeaths
  /\ budget' = [budget EXCEPT !.deaths = @ + 1]
  /\ Dies(p)
  /\ UNCHANGED <<pidFile, parent, status, req, answer>>

(* A server process is replaced: its children live on, their dead ones are  *)
(* waited for by init.                                                      *)
ServerRestarts(s) ==
  /\ \A r \in Request : req[r].server # s
  /\ budget.restarts < MaxRestarts
  /\ budget' = [budget EXCEPT !.restarts = @ + 1]
  /\ parent' = [p \in Pid |-> IF parent[p] = s THEN "init" ELSE parent[p]]
  /\ proc' = [p \in Pid |-> IF parent[p] = s /\ proc[p] = "zombie" THEN "free" ELSE proc[p]]
  /\ UNCHANGED <<pidFile, status, patch, req, answer>>

Handle(r) ==
  \/ ReadPidFile(r) \/ Probe(r) \/ UnlinkStale(r) \/ Spawn(r) \/ SpawnFails(r)
  \/ WritePid(r) \/ WriteStatus(r) \/ Kill(r) \/ ClearPid(r)
  \/ ReadStatus(r) \/ NoteStop(r)

Next ==
  \/ \E r \in Request : Arrive(r) \/ Handle(r)
  \/ \E p \in Pid : MergeReads(p) \/ MergeWrites(p) \/ LoopDies(p)
  \/ \E s \in Server : ServerRestarts(s)

Spec == Init /\ [][Next]_vars

-----------------------------------------------------------------------------
(* "Paper loop already running": a start never leaves two loops trading on  *)
(* the one paper account, if no other request runs beside it.               *)
AtMostOneLoop == budget.races = 0 => Cardinality(Alive) <= 1

(* Between requests a running loop is the one the PID file names, so that   *)
(* it can be seen and stopped; stops and polls may run beside each other.   *)
LoopIsTracked == (budget.races = 0 /\ ~Serving) => \A p \in Alive : pidFile = p

(* Together: what runs is one loop, and the one the server knows.           *)
OneTrackedLoop == AtMostOneLoop /\ LoopIsTracked

(* What a stop or a start answers is so: after "stopped" or "not running"   *)
(* nothing trades any more, and "already running" is said of a dead loop    *)
(* only if it died by itself, as a zombie that nothing has waited for.      *)
AnswersAreTrue ==
  \/ answer.true \/ budget.races > 0
  \/ answer.said = "already" /\ budget.deaths > 0

=============================================================================
