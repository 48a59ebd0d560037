-------------------------- MODULE PaperEngineProofs -------------------------
(***************************************************************************)
(* Theorems about PaperEngine, for every set of processes, of servers and  *)
(* of requests, and every bound.                                           *)
(***************************************************************************)
EXTENDS PaperEngine, FiniteSetTheorems, TLAPS

USE EngineConstants DEF NoPid, Nothing, At

Req == [kind : {"none", "start", "stop", "status"}, server : Server \cup {"none"},
        pid : Pid \cup {NoPid},
        pc : {"idle", "check", "probe", "unlink", "spawn", "writePid", "writeStatus",
              "kill", "clearPid", "readStatus", "noteStop"}]

(* Which requests come where, and what they then have in hand.              *)
ReqOK(q) ==
  /\ q.pc # "idle" => q.kind # "none" /\ q.server \in Server
  /\ q.pc \in {"probe", "kill", "writePid", "writeStatus"} => q.pid \in Pid
  /\ q.pc \in {"spawn", "writePid", "writeStatus"} => q.kind = "start"
  /\ q.pc \in {"kill", "clearPid", "readStatus", "noteStop"} => q.kind = "stop"

TypeInv ==
  /\ TypeOK
  /\ \A r \in Request : ReqOK(req[r])
  /\ \A r \in Request : At(r, "noteStop") => patch[r] # Nothing

Budget == [deaths : 0..MaxDeaths, races : 0..MaxRaces, restarts : 0..MaxRestarts]

LEMMA Types ==
  ASSUME TypeInv
  PROVE  /\ req \in [Request -> Req] /\ budget \in Budget
         /\ proc \in [Pid -> {"free", "alive", "zombie"}]
         /\ patch \in [Pid \cup Request -> Pid \cup {NoPid, Nothing}]
BY DEF TypeInv, TypeOK, Req, Budget

LEMMA FreeType == Free \in Req /\ ReqOK(Free) /\ Free.pc = "idle" /\ Free.kind = "none"
BY DEF Free, Req, ReqOK

LEMMA InitType == Init => TypeInv
<1> SUFFICES ASSUME Init PROVE TypeInv
  OBVIOUS
<1>1. req \in [Request -> Req] /\ \A r \in Request : req[r] = Free
  BY FreeType DEF Init
<1>2. budget \in [deaths : 0..MaxDeaths, races : 0..MaxRaces, restarts : 0..MaxRestarts]
  BY DEF Init
<1> QED
  BY <1>1, <1>2, FreeType DEF Init, TypeInv, TypeOK, Req

(* One request goes on, and does not arrive at the rewrite of the status    *)
(* file.                                                                    *)
LEMMA ReqStep ==
  ASSUME TypeInv, NEW r \in Request, NEW q \in Req, req' = [req EXCEPT ![r] = q],
         ReqOK(q), q.pc # "noteStop", \A s \in Request \ {r} : patch'[s] = patch[s]
  PROVE  /\ req' \in [Request -> Req]
         /\ \A s \in Request : ReqOK(req'[s])
         /\ \A s \in Request : req'[s].pc = "noteStop" => patch'[s] # Nothing
BY DEF TypeInv, TypeOK, Req

LEMMA EndsStep ==
  ASSUME TypeInv, NEW r \in Request, Ends(r), \A s \in Request \ {r} : patch'[s] = patch[s]
  PROVE  /\ req' \in [Request -> Req]
         /\ \A s \in Request : ReqOK(req'[s])
         /\ \A s \in Request : req'[s].pc = "noteStop" => patch'[s] # Nothing
BY FreeType, ReqStep DEF Ends

LEMMA GoStep ==
  ASSUME TypeInv, NEW r \in Request,
         NEW pc \in {"unlink", "spawn", "writeStatus", "kill", "clearPid", "readStatus"},
         Go(r, pc), \A s \in Request \ {r} : patch'[s] = patch[s],
         ~At(r, "idle"),
         pc \in {"kill", "writeStatus"} => req[r].pid \in Pid,
         pc \in {"spawn", "writeStatus"} => req[r].kind = "start",
         pc \in {"kill", "clearPid", "readStatus"} => req[r].kind = "stop"
  PROVE  /\ req' \in [Request -> Req]
         /\ \A s \in Request : ReqOK(req'[s])
         /\ \A s \in Request : req'[s].pc = "noteStop" => patch'[s] # Nothing
<1> DEFINE q == [req[r] EXCEPT !.pc = pc]
<1>1. req[r] \in Req /\ req' = [req EXCEPT ![r] = q] /\ ReqOK(req[r])
  BY DEF Go, TypeInv, TypeOK, Req
<1>2. /\ q \in Req /\ q.pc = pc
      /\ q.kind = req[r].kind /\ q.pid = req[r].pid /\ q.server = req[r].server
  BY <1>1 DEF Req
<1> HIDE DEF q
<1>3. ReqOK(q)
  BY <1>1, <1>2 DEF ReqOK
<1> QED
  BY <1>1, <1>2, <1>3, ReqStep

Answer == [said : {"nothing", "running", "already", "stopped", "not running"}, true : BOOLEAN]

LEMMA SaysType ==
  ASSUME NEW text \in {"running", "already", "stopped", "not running"}, NEW b \in BOOLEAN, Says(text, b)
  PROVE  answer' \in Answer
BY DEF Says, Answer

LEMMA NotRunningStep ==
  ASSUME TypeInv, NEW r \in Request, NotRunning(r), ~At(r, "idle"), patch' = patch
  PROVE  /\ req' \in [Request -> Req]
         /\ \A s \in Request : ReqOK(req'[s])
         /\ \A s \in Request : req'[s].pc = "noteStop" => patch'[s] # Nothing
         /\ answer' \in Answer
<1>1. answer' \in Answer
  <2>1. CASE UNCHANGED answer
    BY <2>1 DEF TypeInv, TypeOK, Answer
  <2>2. CASE Says("not running", Alive = {})
    <3>1. (Alive = {}) \in BOOLEAN
      OBVIOUS
    <3> QED
      BY <2>2, <3>1, SaysType
  <2> QED
    BY <2>1, <2>2 DEF NotRunning
<1>2. CASE req[r].kind = "start"
  BY <1>1, <1>2, GoStep DEF NotRunning
<1>3. CASE req[r].kind # "start"
  BY <1>1, <1>3, EndsStep DEF NotRunning
<1> QED
  BY <1>2, <1>3

(* Spawning frees the zombies of the server and makes one process alive.    *)
SpawnsProcess(r, p) ==
  /\ proc[p] = "free" /\ proc'[p] = "alive"
  /\ proc' \in [Pid -> {"free", "alive", "zombie"}]
  /\ \A x \in Pid \ {p} : proc'[x] = "alive" <=> proc[x] = "alive"
  /\ parent' = [parent EXCEPT ![p] = req[r].server]
  /\ req' = [req EXCEPT ![r].pid = p, ![r].pc = "writePid"]

LEMMA SpawnsOne ==
  ASSUME TypeInv, NEW r \in Request, Spawn(r)
  PROVE  \E p \in Pid : SpawnsProcess(r, p)
<1> DEFINE reaped == {x \in Pid : proc[x] = "zombie" /\ parent[x] = req[r].server}
<1>1. PICK p \in {x \in Pid : proc[x] = "free"} :
        /\ proc' = [x \in Pid |-> IF x = p THEN "alive" ELSE IF x \in reaped THEN "free" ELSE proc[x]]
        /\ parent' = [parent EXCEPT ![p] = req[r].server]
        /\ req' = [req EXCEPT ![r].pid = p, ![r].pc = "writePid"]
  BY DEF Spawn
<1>2. proc \in [Pid -> {"free", "alive", "zombie"}]
  BY DEF TypeInv, TypeOK
<1>3. \A x \in reaped : proc[x] = "zombie"
  OBVIOUS
<1> HIDE DEF reaped
<1>4. SpawnsProcess(r, p)
  BY <1>1, <1>2, <1>3 DEF SpawnsProcess
<1> QED
  BY <1>1, <1>4

(* A process that dies is not alive, and its rewrite of the status file is  *)
(* not finished.                                                            *)
LEMMA DiesType ==
  ASSUME TypeInv, NEW p \in Pid, Dies(p)
  PROVE  /\ proc' \in [Pid -> {"free", "alive", "zombie"}]
         /\ patch' \in [Pid \cup Request -> Pid \cup {NoPid, Nothing}]
         /\ \A x \in Pid : proc'[x] # "alive" => patch'[x] = Nothing
         /\ \A s \in Request : patch'[s] = patch[s]
         /\ proc'[p] # "alive" /\ \A x \in Pid \ {p} : proc'[x] = proc[x]
<1>1. /\ proc \in [Pid -> {"free", "alive", "zombie"}]
      /\ patch \in [Pid \cup Request -> Pid \cup {NoPid, Nothing}]
      /\ \A x \in Pid : proc[x] # "alive" => patch[x] = Nothing
  BY DEF TypeInv, TypeOK
<1>2. PICK z \in {"free", "zombie"} : proc' = [proc EXCEPT ![p] = z]
  BY DEF Dies
<1>3. patch' = [patch EXCEPT ![p] = Nothing]
  BY DEF Dies
<1> QED
  BY <1>1, <1>2, <1>3

LEMMA TypeStep == TypeInv /\ [Next]_vars => TypeInv'
<1> SUFFICES ASSUME TypeInv, [Next]_vars PROVE TypeInv'
  OBVIOUS
<1> DEFINE Reqs == /\ req' \in [Request -> Req]
                   /\ \A s \in Request : ReqOK(req'[s])
                   /\ \A s \in Request : req'[s].pc = "noteStop" => patch'[s] # Nothing
<1>0. ASSUME UNCHANGED <<req, patch>> PROVE Reqs
  BY <1>0 DEF TypeInv, TypeOK, Req
<1>1. ASSUME NEW r \in Request, Arrive(r) PROVE TypeInv'
  <2>1. PICK kind \in Kinds, s \in Server :
          /\ req' = [req EXCEPT ![r] = [kind |-> kind, pc |-> "check", server |-> s, pid |-> NoPid]]
          /\ \/ budget.races < MaxRaces /\ budget' = [budget EXCEPT !.races = @ + 1]
             \/ budget' = budget
    BY <1>1 DEF Arrive
  <2>2. budget' \in [deaths : 0..MaxDeaths, races : 0..MaxRaces, restarts : 0..MaxRestarts]
    <3>1. CASE budget' = budget
      BY <3>1 DEF TypeInv, TypeOK
    <3>2. CASE budget.races < MaxRaces /\ budget' = [budget EXCEPT !.races = @ + 1]
      <4>1. budget.races + 1 \in 0..MaxRaces
        BY <3>2, Types DEF Budget
      <4> QED
        BY <3>2, <4>1 DEF TypeInv, TypeOK
    <3> QED
      BY <2>1, <3>1, <3>2
  <2> DEFINE q == [kind |-> kind, pc |-> "check", server |-> s, pid |-> NoPid]
  <2>3. q \in Req /\ ReqOK(q) /\ q.pc # "noteStop"
    BY DEF Req, ReqOK
  <2> HIDE DEF q
  <2>4. Reqs
    BY <1>1, <2>1, <2>3, ReqStep DEF Arrive, q
  <2> QED
    BY <1>1, <2>2, <2>4 DEF Arrive, TypeInv, TypeOK, Req
<1>2. ASSUME NEW r \in Request, ReadPidFile(r) PROVE TypeInv'
  <2>1. CASE pidFile = NoPid
    BY <1>2, <2>1, NotRunningStep DEF ReadPidFile, TypeInv, TypeOK, Req, Answer
  <2>2. CASE pidFile # NoPid
    <3> DEFINE q == [req[r] EXCEPT !.pid = pidFile, !.pc = "probe"]
    <3>0. req[r] \in Req /\ ReqOK(req[r]) /\ pidFile \in Pid
      BY <2>2 DEF TypeInv, TypeOK, Req
    <3>1. req' = [req EXCEPT ![r] = q]
      BY <1>2, <2>2, Types DEF ReadPidFile
    <3>2. q \in Req /\ ReqOK(q) /\ q.pc # "noteStop"
      BY <1>2, <3>0 DEF ReadPidFile, Req, ReqOK
    <3> HIDE DEF q
    <3>3. Reqs
      BY <1>2, <3>1, <3>2, ReqStep DEF ReadPidFile
    <3> QED
      BY <1>2, <2>2, <3>3 DEF ReadPidFile, TypeInv, TypeOK, Req
  <2> QED
    BY <2>1, <2>2
<1>3. ASSUME NEW r \in Request, Probe(r) PROVE TypeInv'
  <2>1. req[r] \in Req /\ ReqOK(req[r]) /\ req[r].pc = "probe"
    BY <1>3 DEF Probe, Probes, TypeInv, TypeOK, Req
  <2>2. CASE ~Exists(req[r].pid)
    <3>1. Go(r, "unlink") /\ UNCHANGED <<pidFile, proc, parent, status, patch, budget, answer>>
      BY <1>3, <2>2 DEF Probe, Probes
    <3>2. Reqs
      BY <2>1, <3>1, GoStep
    <3> QED
      BY <3>1, <3>2 DEF TypeInv, TypeOK, Req
  <2>3. CASE Exists(req[r].pid) /\ req[r].kind = "start"
    <3> DEFINE q == [req[r] EXCEPT !.kind = "status", !.pc = "check"]
    <3>1. /\ req' = [req EXCEPT ![r] = q] /\ Says("already", proc[req[r].pid] = "alive")
          /\ UNCHANGED <<pidFile, proc, parent, status, patch, budget>>
      BY <1>3, <2>3 DEF Probe, Probes, TypeInv, TypeOK
    <3>2. q \in Req /\ ReqOK(q) /\ q.pc # "noteStop"
      BY <2>1 DEF Req, ReqOK
    <3> HIDE DEF q
    <3>3. Reqs
      BY <3>1, <3>2, ReqStep
    <3> QED
      BY <3>1, <3>3 DEF Says, TypeInv, TypeOK, Req
  <2>4. CASE Exists(req[r].pid) /\ req[r].kind = "stop"
    <3>1. Go(r, "kill") /\ UNCHANGED <<pidFile, proc, parent, status, patch, budget, answer>>
      BY <1>3, <2>4 DEF Probe, Probes
    <3>2. Reqs
      BY <2>1, <2>4, <3>1, GoStep DEF ReqOK
    <3> QED
      BY <3>1, <3>2 DEF TypeInv, TypeOK, Req
  <2>5. CASE Exists(req[r].pid) /\ req[r].kind = "status"
    <3>1. Ends(r) /\ UNCHANGED <<pidFile, proc, parent, status, patch, budget, answer>>
      BY <1>3, <2>5 DEF Probe, Probes
    <3>2. Reqs
      BY <3>1, EndsStep
    <3> QED
      BY <3>1, <3>2 DEF TypeInv, TypeOK, Req
  <2> QED
    BY <2>1, <2>2, <2>3, <2>4, <2>5 DEF Req, ReqOK
<1>4. ASSUME NEW r \in Request, UnlinkStale(r) PROVE TypeInv'
  BY <1>4, NotRunningStep DEF UnlinkStale, TypeInv, TypeOK, Req, Answer
<1>5. ASSUME NEW r \in Request, Spawn(r) PROVE TypeInv'
  <2>1. PICK p \in Pid : SpawnsProcess(r, p)
    BY <1>5, SpawnsOne
  <2> DEFINE q == [req[r] EXCEPT !.pid = p, !.pc = "writePid"]
  <2>2. req[r] \in Req /\ ReqOK(req[r]) /\ req' = [req EXCEPT ![r] = q]
    BY <2>1 DEF SpawnsProcess, TypeInv, TypeOK, Req
  <2>3. q \in Req /\ ReqOK(q) /\ q.pc # "noteStop"
    BY <1>5, <2>2 DEF Spawn, Req, ReqOK
  <2> HIDE DEF q
  <2>4. Reqs
    BY <1>5, <2>2, <2>3, ReqStep DEF Spawn
  <2>5. parent' \in [Pid -> Server \cup {"init"}]
    <3>1. req[r].server \in Server
      BY <1>5 DEF Spawn, TypeInv, ReqOK
    <3> QED
      BY <2>1, <3>1 DEF SpawnsProcess, TypeInv, TypeOK
  <2>6. \A x \in Pid : proc'[x] # "alive" => patch'[x] = Nothing
    BY <1>5, <2>1 DEF SpawnsProcess, Spawn, TypeInv, TypeOK
  <2> QED
    BY <1>5, <2>1, <2>4, <2>5, <2>6 DEF SpawnsProcess, Spawn, TypeInv, TypeOK, Req
<1>6. ASSUME NEW r \in Request, SpawnFails(r) PROVE TypeInv'
  BY <1>6, EndsStep DEF SpawnFails, TypeInv, TypeOK, Req
<1>7. ASSUME NEW r \in Request, WritePid(r) PROVE TypeInv'
  <2>1. req[r].pid \in Pid /\ req[r].kind = "start"
    BY <1>7 DEF WritePid, TypeInv, ReqOK
  <2>2. Reqs
    BY <1>7, <2>1, GoStep DEF WritePid
  <2> QED
    BY <1>7, <2>1, <2>2 DEF WritePid, TypeInv, TypeOK, Req
<1>8. ASSUME NEW r \in Request, WriteStatus(r) PROVE TypeInv'
  <2>1. req[r].pid \in Pid
    BY <1>8 DEF WriteStatus, TypeInv, ReqOK
  <2>2. Reqs
    BY <1>8, EndsStep DEF WriteStatus
  <2> QED
    BY <1>8, <2>1, <2>2 DEF WriteStatus, Says, TypeInv, TypeOK, Req
<1>9. ASSUME NEW r \in Request, Kill(r) PROVE TypeInv'
  <2>1. req[r].pid \in Pid /\ req[r].kind = "stop"
    BY <1>9 DEF Kill, TypeInv, ReqOK
  <2>2. /\ proc' \in [Pid -> {"free", "alive", "zombie"}]
        /\ patch' \in [Pid \cup Request -> Pid \cup {NoPid, Nothing}]
        /\ \A x \in Pid : proc'[x] # "alive" => patch'[x] = Nothing
        /\ \A s \in Request : patch'[s] = patch[s]
    <3>1. CASE proc[req[r].pid] = "alive"
      BY <1>9, <2>1, <3>1, DiesType DEF Kill
    <3>2. CASE proc[req[r].pid] # "alive"
      BY <1>9, <3>2 DEF Kill, TypeInv, TypeOK
    <3> QED
      BY <3>1, <3>2
  <2>3. Reqs
    BY <1>9, <2>1, <2>2, EndsStep, GoStep DEF Kill
  <2> QED
    BY <1>9, <2>2, <2>3 DEF Kill, TypeInv, TypeOK, Req
<1>10. ASSUME NEW r \in Request, ClearPid(r) PROVE TypeInv'
  <2>1. req[r].kind = "stop"
    BY <1>10 DEF ClearPid, TypeInv, ReqOK
  <2>2. Reqs
    BY <1>10, <2>1, GoStep DEF ClearPid
  <2> QED
    BY <1>10, <2>2 DEF ClearPid, TypeInv, TypeOK, Req
<1>11. ASSUME NEW r \in Request, ReadStatus(r) PROVE TypeInv'
  <2> DEFINE q == [req[r] EXCEPT !.pc = "noteStop"]
  <2>1. /\ req[r] \in Req /\ ReqOK(req[r]) /\ req' = [req EXCEPT ![r] = q]
        /\ patch' = [patch EXCEPT ![r] = status] /\ status # Nothing
    BY <1>11 DEF ReadStatus, ReadsStatus, Go, TypeInv, TypeOK, Req
  <2>2. q \in Req /\ ReqOK(q)
    BY <1>11, <2>1 DEF ReadStatus, Req, ReqOK
  <2> HIDE DEF q
  <2>3. Reqs
    BY <2>1, <2>2 DEF TypeInv, TypeOK, Req
  <2> QED
    <3>1. patch' \in [Pid \cup Request -> Pid \cup {NoPid, Nothing}]
      BY <2>1 DEF TypeInv, TypeOK
    <3>2. \A x \in Pid : patch'[x] = patch[x]
      BY <2>1, Types
    <3> QED
      BY <1>11, <2>3, <3>1, <3>2 DEF ReadStatus, TypeInv, TypeOK, Req
<1>12. ASSUME NEW r \in Request, NoteStop(r) PROVE TypeInv'
  <2>1. patch[r] # Nothing /\ patch' = [patch EXCEPT ![r] = Nothing] /\ status' = patch[r]
    BY <1>12 DEF NoteStop, WritesStatus, TypeInv
  <2>2. Reqs
    BY <1>12, <2>1, EndsStep DEF NoteStop, TypeInv, TypeOK
  <2> QED
    BY <1>12, <2>1, <2>2 DEF NoteStop, Says, TypeInv, TypeOK, Req
<1>13. ASSUME NEW p \in Pid, MergeReads(p) PROVE TypeInv'
  BY <1>13 DEF MergeReads, ReadsStatus, TypeInv, TypeOK
<1>14. ASSUME NEW p \in Pid, MergeWrites(p) PROVE TypeInv'
  BY <1>14 DEF MergeWrites, WritesStatus, TypeInv, TypeOK
<1>15. ASSUME NEW p \in Pid, LoopDies(p) PROVE TypeInv'
  <2>1. budget' \in [deaths : 0..MaxDeaths, races : 0..MaxRaces, restarts : 0..MaxRestarts]
    <3>1. budget.deaths + 1 \in 0..MaxDeaths
      BY <1>15, Types DEF LoopDies, Budget
    <3> QED
      BY <1>15, <3>1 DEF LoopDies, TypeInv, TypeOK
  <2>2. Dies(p) /\ UNCHANGED <<pidFile, parent, status, req, answer>>
    BY <1>15 DEF LoopDies
  <2> QED
    BY <2>1, <2>2, DiesType DEF TypeInv, TypeOK
<1>16. ASSUME NEW s \in Server, ServerRestarts(s) PROVE TypeInv'
  <2>1. budget' \in [deaths : 0..MaxDeaths, races : 0..MaxRaces, restarts : 0..MaxRestarts]
    <3>1. budget.restarts + 1 \in 0..MaxRestarts
      BY <1>16, Types DEF ServerRestarts, Budget
    <3> QED
      BY <1>16, <3>1 DEF ServerRestarts, TypeInv, TypeOK
  <2>2. /\ parent' \in [Pid -> Server \cup {"init"}]
        /\ proc' \in [Pid -> {"free", "alive", "zombie"}]
        /\ \A x \in Pid : proc'[x] = "alive" <=> proc[x] = "alive"
    BY <1>16 DEF ServerRestarts, TypeInv, TypeOK
  <2> QED
    BY <1>16, <2>1, <2>2 DEF ServerRestarts, TypeInv, TypeOK
<1>17. CASE UNCHANGED vars
  BY <1>17 DEF vars, TypeInv, TypeOK
<1> QED
  BY <1>1, <1>2, <1>3, <1>4, <1>5, <1>6, <1>7, <1>8, <1>9, <1>10, <1>11, <1>12, <1>13, <1>14, <1>15,
     <1>16, <1>17 DEF Next, Handle

(* Every request, process and file has its type.                            *)
THEOREM TypeCorrect == Spec => []TypeOK
<1>1. TypeInv => TypeOK
  BY DEF TypeInv
<1> QED
  BY <1>1, InitType, TypeStep, PTL DEF Spec

-----------------------------------------------------------------------------
(* As long as no start has overlapped another request.                      *)

Active(r) == ~At(r, "idle")
Lives(p) == proc[p] = "alive"

(* A start is alone.                                                        *)
StartsAlone ==
  \A r, s \in Request : r # s /\ Active(r) /\ Active(s) => req[r].kind # "start"

(* What runs is what the PID file names, but between the fork of a loop and *)
(* the write of the file; and what a request has read of it still holds     *)
(* when it uses it.                                                         *)
LoopInv ==
  /\ \A p \in Pid : Lives(p) => pidFile = p \/ \E r \in Request : At(r, "writePid")
  /\ \A r \in Request : \A p \in Pid : Lives(p) =>
       /\ req[r].pc \in {"probe", "kill", "writePid"} => p = req[r].pid
       /\ req[r].pc \notin {"unlink", "spawn", "clearPid", "readStatus", "noteStop"}

(* Unless a loop died by itself, the PID file names a loop that is alive,   *)
(* or that is being stopped.                                                *)
FileInv ==
  budget.deaths = 0 =>
    /\ pidFile # NoPid => Lives(pidFile) \/ \E r \in Request : At(r, "clearPid")
    /\ \A r \in Request :
         \/ At(r, "writePid")
         \/ At(r, "probe") /\ req[r].kind = "start"
         => Lives(req[r].pid)

RaceFree == budget.races = 0 => StartsAlone /\ LoopInv /\ FileInv

LEMMA InitRaceFree == Init => RaceFree
BY FreeType DEF Init, RaceFree, StartsAlone, LoopInv, FileInv, Active, Lives

(* One request goes on; nothing lives that did not, and what lives still    *)
(* does.                                                                    *)
Goes(r, q) ==
  /\ req' = [req EXCEPT ![r] = q]
  /\ \A p \in Pid : Lives(p)' <=> Lives(p)
  /\ budget' = budget

LEMMA RaceFreeStep == TypeInv /\ TypeInv' /\ RaceFree /\ [Next]_vars => RaceFree'
<1> SUFFICES ASSUME TypeInv, TypeInv', RaceFree, [Next]_vars, budget'.races = 0
             PROVE  (StartsAlone /\ LoopInv /\ FileInv)'
  BY DEF RaceFree
<1> DEFINE Goal == (StartsAlone /\ LoopInv /\ FileInv)'
<1>0. /\ req \in [Request -> Req] /\ budget \in Budget /\ pidFile \in Pid \cup {NoPid}
      /\ \A r \in Request : ReqOK(req[r])
  BY Types DEF TypeInv, TypeOK
<1>inv. ASSUME budget.races = 0 PROVE StartsAlone /\ LoopInv /\ FileInv
  BY <1>inv DEF RaceFree
<1>1. ASSUME NEW r \in Request, Arrive(r) PROVE Goal
  <2>1. PICK kind \in Kinds, s \in Server :
          /\ req' = [req EXCEPT ![r] = [kind |-> kind, pc |-> "check", server |-> s, pid |-> NoPid]]
          /\ IF Races(r, kind) THEN budget' = [budget EXCEPT !.races = @ + 1] ELSE budget' = budget
    BY <1>1 DEF Arrive
  <2>2. ~Races(r, kind) /\ budget' = budget
    BY <1>0, <2>1 DEF Budget
  <2>3. StartsAlone'
    BY <1>0, <1>1, <1>inv, <2>1, <2>2 DEF StartsAlone, Active, Races, Arrive
  <2>4. /\ req'[r].pc = "check" /\ req[r].pc = "idle"
        /\ \A x \in Request \ {r} : req'[x] = req[x]
        /\ UNCHANGED <<pidFile, proc>>
    BY <1>0, <1>1, <2>1 DEF Arrive
  <2> QED
    BY <1>inv, <2>2, <2>3, <2>4 DEF LoopInv, FileInv, Lives
<1>2. ASSUME NEW r \in Request, NEW q, Goes(r, q), pidFile' = pidFile, Active(r),
             q.pc # "idle" => q.kind \in {req[r].kind, "status"},
             ~At(r, "writePid"), ~At(r, "clearPid"),
             \A p \in Pid : Lives(p) =>
               /\ q.pc \in {"probe", "kill", "writePid"} => p = q.pid
               /\ q.pc \notin {"unlink", "spawn", "clearPid", "readStatus", "noteStop"},
             budget.deaths = 0 /\ (q.pc = "writePid" \/ (q.pc = "probe" /\ q.kind = "start"))
               => q.pid \in Pid /\ Lives(q.pid)
      PROVE  Goal
  <2>1. /\ req'[r] = q /\ \A s \in Request \ {r} : req'[s] = req[s]
        /\ \A p \in Pid : Lives(p)' <=> Lives(p)
        /\ budget.races = 0 /\ budget' = budget
    BY <1>0, <1>2 DEF Goes
  <2>2. StartsAlone'
    BY <1>2, <1>inv, <2>1 DEF StartsAlone, Active
  <2>3. LoopInv'
    BY <1>2, <1>inv, <2>1 DEF LoopInv
  <2>4. FileInv'
    BY <1>0, <1>2, <1>inv, <2>1 DEF FileInv, ReqOK
  <2> QED
    BY <2>2, <2>3, <2>4
<1>3. ASSUME NEW r \in Request, NEW q, Goes(r, q), pidFile' = NoPid, Active(r),
             ~At(r, "writePid"), \A p \in Pid : ~Lives(p),
             q.pc # "idle" => q.kind = req[r].kind, q.pc \notin {"probe", "writePid"}
      PROVE  Goal
  <2>1. /\ req'[r] = q /\ \A s \in Request \ {r} : req'[s] = req[s]
        /\ \A p \in Pid : ~Lives(p)'
        /\ budget.races = 0 /\ budget' = budget
    BY <1>0, <1>3 DEF Goes
  <2>2. StartsAlone'
    BY <1>3, <1>inv, <2>1 DEF StartsAlone, Active
  <2>3. LoopInv'
    BY <2>1 DEF LoopInv
  <2>4. FileInv'
    BY <1>0, <1>3, <1>inv, <2>1 DEF FileInv, ReqOK
  <2> QED
    BY <2>2, <2>3, <2>4
<1>free. ASSUME NEW r \in Request, Ends(r), budget' = budget, proc' = proc, pidFile' = pidFile,
                Active(r), ~At(r, "writePid"), ~At(r, "clearPid")
         PROVE  Goal
  <2>1. Goes(r, Free) /\ Free.pc = "idle"
    BY <1>free, FreeType DEF Goes, Ends, Lives
  <2> QED
    BY <1>2, <1>free, <2>1
<1>go. ASSUME NEW r \in Request, NEW pc, Go(r, pc), proc' = proc, budget' = budget
       PROVE  \E q : /\ Goes(r, q) /\ q.pc = pc
                     /\ q.kind = req[r].kind /\ q.pid = req[r].pid
  <2> DEFINE q == [req[r] EXCEPT !.pc = pc]
  <2>1. Goes(r, q) /\ q.pc = pc /\ q.kind = req[r].kind /\ q.pid = req[r].pid
    BY <1>0, <1>go DEF Goes, Go, Lives, Req
  <2> QED
    BY <2>1
<1>4. ASSUME NEW r \in Request, ReadPidFile(r) PROVE Goal
  <2>1. /\ At(r, "check") /\ Active(r) /\ UNCHANGED <<pidFile, proc, budget>>
        /\ StartsAlone /\ LoopInv /\ FileInv
    BY <1>4, <1>inv DEF ReadPidFile, Active
  <2>2. CASE pidFile = NoPid /\ req[r].kind = "start"
    <3>1. PICK q : /\ Goes(r, q) /\ q.pc = "spawn"
                   /\ q.kind = req[r].kind /\ q.pid = req[r].pid
      BY <1>4, <1>go, <2>1, <2>2 DEF ReadPidFile, NotRunning
    <3>2. \A p \in Pid : ~Lives(p)
      BY <2>1, <2>2 DEF LoopInv, StartsAlone, Active
    <3> QED
      BY <1>2, <2>1, <3>1, <3>2
  <2>3. CASE pidFile = NoPid /\ req[r].kind # "start"
    BY <1>4, <1>free, <2>1, <2>3 DEF ReadPidFile, NotRunning
  <2>4. CASE pidFile # NoPid
    <3> DEFINE q == [req[r] EXCEPT !.pid = pidFile, !.pc = "probe"]
    <3>1. Goes(r, q) /\ q.pc = "probe" /\ q.kind = req[r].kind /\ q.pid = pidFile
      BY <1>0, <1>4, <2>1, <2>4 DEF ReadPidFile, Goes, Lives, Req
    <3> HIDE DEF q
    <3>2. \A p \in Pid : Lives(p) => pidFile = p
      BY <1>0, <2>1 DEF LoopInv, StartsAlone, Active, ReqOK
    <3>3. budget.deaths = 0 /\ q.kind = "start" => Lives(pidFile)
      BY <2>1, <2>4, <3>1 DEF FileInv, StartsAlone, Active
    <3> QED
      BY <1>0, <1>2, <2>1, <2>4, <3>1, <3>2, <3>3
  <2> QED
    BY <2>2, <2>3, <2>4
<1>5. ASSUME NEW r \in Request, Probe(r) PROVE Goal
  <2>1. /\ At(r, "probe") /\ Active(r) /\ UNCHANGED <<pidFile, proc, budget>>
        /\ \A p \in Pid : Lives(p) => p = req[r].pid
    BY <1>5, <1>inv DEF Probe, Probes, Active, LoopInv
  <2>2. CASE ~Exists(req[r].pid)
    <3>1. PICK q : Goes(r, q) /\ q.pc = "unlink" /\ q.kind = req[r].kind
      BY <1>5, <1>go, <2>1, <2>2 DEF Probe, Probes
    <3>2. \A p \in Pid : ~Lives(p)
      BY <2>1, <2>2 DEF Exists, Lives
    <3> QED
      BY <1>2, <2>1, <3>1, <3>2
  <2>3. CASE Exists(req[r].pid) /\ req[r].kind = "start"
    <3> DEFINE q == [req[r] EXCEPT !.kind = "status", !.pc = "check"]
    <3>1. Goes(r, q) /\ q.pc = "check" /\ q.kind = "status"
      BY <1>0, <1>5, <2>1, <2>3 DEF Probe, Probes, Goes, Lives, Req
    <3> HIDE DEF q
    <3> QED
      BY <1>2, <2>1, <3>1
  <2>4. CASE Exists(req[r].pid) /\ req[r].kind = "stop"
    <3>1. PICK q : Goes(r, q) /\ q.pc = "kill" /\ q.kind = req[r].kind /\ q.pid = req[r].pid
      BY <1>5, <1>go, <2>1, <2>4 DEF Probe, Probes
    <3> QED
      BY <1>2, <2>1, <3>1
  <2>5. CASE Exists(req[r].pid) /\ req[r].kind = "status"
    BY <1>5, <1>free, <2>1, <2>5 DEF Probe, Probes
  <2>6. req[r].kind \in {"start", "stop", "status"}
    BY <1>0, <2>1 DEF Req, ReqOK
  <2> QED
    BY <2>2, <2>3, <2>4, <2>5, <2>6
<1>6. ASSUME NEW r \in Request, UnlinkStale(r) PROVE Goal
  <2>1. /\ At(r, "unlink") /\ Active(r) /\ UNCHANGED <<proc, budget>> /\ pidFile' = NoPid
        /\ \A p \in Pid : ~Lives(p)
    BY <1>6, <1>inv DEF UnlinkStale, Active, LoopInv
  <2>2. CASE req[r].kind = "start"
    <3>1. PICK q : Goes(r, q) /\ q.pc = "spawn" /\ q.kind = req[r].kind
      BY <1>6, <1>go, <2>1, <2>2 DEF UnlinkStale, NotRunning
    <3> QED
      BY <1>3, <2>1, <3>1
  <2>3. CASE req[r].kind # "start"
    <3>1. Goes(r, Free) /\ Free.pc = "idle"
      BY <1>6, <2>1, <2>3, FreeType DEF UnlinkStale, NotRunning, Goes, Ends, Lives
    <3> QED
      BY <1>3, <2>1, <3>1
  <2> QED
    BY <2>2, <2>3
<1>7. ASSUME NEW r \in Request, Spawn(r) PROVE Goal
  <2>1. PICK p \in Pid : SpawnsProcess(r, p)
    BY <1>7, SpawnsOne
  <2>2. /\ At(r, "spawn") /\ req[r].kind = "start" /\ budget' = budget /\ pidFile' = pidFile
        /\ \A x \in Pid : ~Lives(x)
    BY <1>0, <1>7, <1>inv DEF Spawn, LoopInv, ReqOK
  <2>3. \A s \in Request \ {r} : ~Active(s)
    BY <1>inv, <2>2 DEF StartsAlone, Active
  <2>4. /\ req'[r].pc = "writePid" /\ req'[r].pid = p /\ req'[r].kind = "start"
        /\ \A s \in Request \ {r} : req'[s].pc = "idle"
        /\ \A x \in Pid : Lives(x)' <=> x = p
    BY <1>0, <2>1, <2>2, <2>3 DEF SpawnsProcess, Lives, Active, Req
  <2>5. StartsAlone' /\ LoopInv'
    BY <2>4 DEF StartsAlone, LoopInv, Active
  <2>6. FileInv'
    BY <1>inv, <1>0, <2>2, <2>3, <2>4 DEF FileInv, Active
  <2> QED
    BY <2>5, <2>6
<1>8. ASSUME NEW r \in Request, SpawnFails(r) PROVE Goal
  BY <1>8, <1>free DEF SpawnFails, Active
<1>9. ASSUME NEW r \in Request, WritePid(r) PROVE Goal
  <2>1. /\ At(r, "writePid") /\ req[r].kind = "start" /\ req[r].pid \in Pid
        /\ UNCHANGED <<proc, budget>> /\ pidFile' = req[r].pid
        /\ \A p \in Pid : Lives(p) => p = req[r].pid
        /\ budget.deaths = 0 => Lives(req[r].pid)
    BY <1>0, <1>9, <1>inv DEF WritePid, LoopInv, FileInv, ReqOK
  <2>2. \A s \in Request \ {r} : req[s].pc = "idle"
    BY <1>inv, <2>1 DEF StartsAlone, Active
  <2>3. /\ req'[r].pc = "writeStatus" /\ req'[r].kind = "start"
        /\ \A s \in Request \ {r} : req'[s].pc = "idle"
    BY <1>0, <1>9, <2>1, <2>2 DEF WritePid, Go, Req
  <2> QED
    BY <2>1, <2>3 DEF StartsAlone, LoopInv, FileInv, Active, Lives
<1>10. ASSUME NEW r \in Request, WriteStatus(r) PROVE Goal
  BY <1>10, <1>free DEF WriteStatus, Active
<1>11. ASSUME NEW r \in Request, Kill(r) PROVE Goal
  <2>1. /\ At(r, "kill") /\ Active(r) /\ req[r].kind = "stop" /\ req[r].pid \in Pid
        /\ pidFile' = pidFile /\ budget' = budget
        /\ StartsAlone /\ LoopInv /\ FileInv
    BY <1>0, <1>11, <1>inv DEF Kill, Active, ReqOK
  <2>2. \A p \in Pid : Lives(p) => p = req[r].pid
    BY <2>1 DEF LoopInv
  <2>3. CASE proc[req[r].pid] = "free"
    BY <1>11, <1>free, <2>1, <2>3 DEF Kill
  <2>4. CASE proc[req[r].pid] # "free"
    <3>1. \A p \in Pid : ~Lives(p)'
      <4>1. CASE Lives(req[r].pid)
        BY <1>11, <2>1, <2>2, <4>1, DiesType DEF Kill, Lives
      <4>2. CASE ~Lives(req[r].pid)
        BY <1>11, <2>2, <4>2 DEF Kill, Lives
      <4> QED
        BY <4>1, <4>2
    <3>2. /\ req'[r].pc = "clearPid" /\ req'[r].kind = "stop"
          /\ \A s \in Request \ {r} : req'[s] = req[s]
      BY <1>0, <1>11, <2>1, <2>4 DEF Kill, Go, Req
    <3>3. StartsAlone'
      BY <2>1, <3>2 DEF StartsAlone, Active
    <3>4. LoopInv'
      BY <3>1 DEF LoopInv
    <3>5. FileInv'
      BY <1>0, <2>1, <3>2 DEF FileInv, StartsAlone, Active, ReqOK
    <3> QED
      BY <3>3, <3>4, <3>5
  <2> QED
    BY <2>3, <2>4
<1>12. ASSUME NEW r \in Request, ClearPid(r) PROVE Goal
  <2>1. /\ At(r, "clearPid") /\ Active(r) /\ UNCHANGED <<proc, budget>> /\ pidFile' = NoPid
        /\ \A p \in Pid : ~Lives(p)
    BY <1>12, <1>inv DEF ClearPid, Active, LoopInv
  <2>2. PICK q : Goes(r, q) /\ q.pc = "readStatus" /\ q.kind = req[r].kind
    BY <1>12, <1>go, <2>1 DEF ClearPid
  <2> QED
    BY <1>3, <2>1, <2>2
<1>13. ASSUME NEW r \in Request, ReadStatus(r) PROVE Goal
  <2>1. /\ At(r, "readStatus") /\ Active(r) /\ UNCHANGED <<proc, budget, pidFile>>
        /\ \A p \in Pid : ~Lives(p)
    BY <1>13, <1>inv DEF ReadStatus, Active, LoopInv
  <2>2. PICK q : Goes(r, q) /\ q.pc = "noteStop" /\ q.kind = req[r].kind
    BY <1>13, <1>go, <2>1 DEF ReadStatus
  <2> QED
    BY <1>2, <2>1, <2>2
<1>14. ASSUME NEW r \in Request, NoteStop(r) PROVE Goal
  BY <1>14, <1>free DEF NoteStop, Active
<1>15. ASSUME UNCHANGED <<pidFile, proc, req, budget>> PROVE Goal
  BY <1>15, <1>inv DEF StartsAlone, LoopInv, FileInv, Active, Lives
<1>16. ASSUME NEW p \in Pid, LoopDies(p) PROVE Goal
  <2>1. /\ budget'.deaths # 0 /\ budget'.races = budget.races
        /\ UNCHANGED <<pidFile, req>>
    BY <1>0, <1>16 DEF LoopDies, Budget
  <2>2. \A x \in Pid : Lives(x)' => Lives(x)
    BY <1>16, DiesType DEF LoopDies, Lives
  <2> QED
    BY <1>inv, <2>1, <2>2 DEF StartsAlone, LoopInv, FileInv, Active
<1>17. ASSUME NEW s \in Server, ServerRestarts(s) PROVE Goal
  <2>1. /\ budget'.deaths = budget.deaths /\ budget'.races = budget.races
        /\ UNCHANGED <<pidFile, req>>
        /\ \A x \in Pid : Lives(x)' <=> Lives(x)
    BY <1>0, <1>17, Types DEF ServerRestarts, Lives, Budget
  <2> QED
    BY <1>0, <1>inv, <2>1 DEF StartsAlone, LoopInv, FileInv, Active, ReqOK
<1> QED
  <2> HIDE DEF Goal
  <2>1. Goal
    BY <1>1, <1>4, <1>5, <1>6, <1>7, <1>8, <1>9, <1>10, <1>11, <1>12, <1>13, <1>14, <1>15, <1>16, <1>17
       DEF Next, Handle, MergeReads, MergeWrites, vars
  <2> QED
    BY <2>1 DEF Goal

LEMMA AtMostOneOf ==
  ASSUME NEW S, NEW x, S \subseteq {x}
  PROVE  Cardinality(S) <= 1
<1>1. S = {} \/ S = {x}
  OBVIOUS
<1>2. Cardinality({}) = 0 /\ Cardinality({x}) = 1
  BY FS_EmptySet, FS_Singleton
<1> QED
  BY <1>1, <1>2

LEMMA RaceFreeTracks == TypeInv /\ RaceFree => OneTrackedLoop
<1> SUFFICES ASSUME TypeInv, StartsAlone, LoopInv
             PROVE  /\ Cardinality(Alive) <= 1
                    /\ ~Serving => \A p \in Alive : pidFile = p
  BY DEF RaceFree, OneTrackedLoop, AtMostOneLoop, LoopIsTracked
<1>1. \A p \in Alive : Lives(p) /\ p \in Pid
  BY DEF Alive, Lives
<1>2. CASE \E r \in Request : At(r, "writePid")
  <2>1. PICK r \in Request : At(r, "writePid")
    BY <1>2
  <2>2. Alive \subseteq {req[r].pid}
    BY <1>1, <2>1 DEF LoopInv
  <2> QED
    BY <2>1, <2>2, AtMostOneOf DEF Serving
<1>3. CASE ~\E r \in Request : At(r, "writePid")
  <2>1. Alive \subseteq {pidFile}
    BY <1>1, <1>3 DEF LoopInv
  <2> QED
    BY <2>1, AtMostOneOf
<1> QED
  BY <1>2, <1>3

(* As long as no start overlaps another request, whatever dies and is       *)
(* restarted: one loop runs at most, and between requests the PID file      *)
(* names it.                                                                *)
THEOREM OneLoopAndTracked == Spec => []OneTrackedLoop
<1>1. Init => TypeInv /\ RaceFree
  BY InitType, InitRaceFree
<1>2. TypeInv /\ RaceFree /\ [Next]_vars => (TypeInv /\ RaceFree)'
  BY TypeStep, RaceFreeStep
<1> QED
  BY <1>1, <1>2, RaceFreeTracks, PTL DEF Spec

-----------------------------------------------------------------------------
(* The answers.                                                             *)

LEMMA AnswerStep == TypeInv /\ RaceFree /\ AnswersAreTrue /\ [Next]_vars => AnswersAreTrue'
<1> SUFFICES ASSUME TypeInv, RaceFree, AnswersAreTrue, [Next]_vars PROVE AnswersAreTrue'
  OBVIOUS
<1>0. budget \in Budget /\ req \in [Request -> Req] /\ \A r \in Request : ReqOK(req[r])
  BY Types DEF TypeInv
(* What was true when it was said is still taken for true.                  *)
<1>1. ASSUME answer' = answer PROVE AnswersAreTrue'
  <2>1. \/ budget' = budget
        \/ budget' = [budget EXCEPT !.races = @ + 1]
        \/ budget' = [budget EXCEPT !.deaths = @ + 1]
        \/ budget' = [budget EXCEPT !.restarts = @ + 1]
    BY DEF Next, Handle, Arrive, ReadPidFile, Probe, Probes, UnlinkStale, Spawn, SpawnFails,
           WritePid, WriteStatus, Kill, ClearPid, ReadStatus, NoteStop, MergeReads, MergeWrites,
           LoopDies, ServerRestarts, vars
  <2>2. /\ budget.races > 0 => budget'.races > 0
        /\ budget.deaths > 0 => budget'.deaths > 0
    BY <1>0, <2>1 DEF Budget
  <2> QED
    BY <1>1, <2>2 DEF AnswersAreTrue
<1>2. ASSUME NEW text, NEW b \in BOOLEAN, Says(text, b), b PROVE AnswersAreTrue'
  BY <1>2 DEF Says, AnswersAreTrue
<1>3. ASSUME budget' = budget, budget.races # 0 PROVE AnswersAreTrue'
  BY <1>0, <1>3 DEF AnswersAreTrue, Budget
<1>4. ASSUME NEW r \in Request, NotRunning(r), budget' = budget,
             budget.races = 0 => Alive = {}
      PROVE  AnswersAreTrue'
  <2>1. CASE UNCHANGED answer
    BY <1>1, <2>1
  <2>2. CASE Says("not running", Alive = {}) /\ Alive = {}
    BY <1>2, <2>2
  <2> QED
    BY <1>3, <1>4, <2>1, <2>2 DEF NotRunning
<1>5. ASSUME NEW r \in Request, ReadPidFile(r) PROVE AnswersAreTrue'
  <2>1. CASE pidFile = NoPid
    <3>1. ASSUME budget.races = 0, NEW p \in Pid PROVE ~Lives(p)
      BY <1>0, <1>5, <2>1, <3>1 DEF ReadPidFile, RaceFree, LoopInv, StartsAlone, Active, ReqOK
    <3>2. budget.races = 0 => Alive = {}
      BY <3>1 DEF Alive, Lives
    <3> QED
      BY <1>4, <1>5, <2>1, <3>2 DEF ReadPidFile
  <2>2. CASE pidFile # NoPid
    BY <1>1, <1>5, <2>2 DEF ReadPidFile
  <2> QED
    BY <2>1, <2>2
<1>6. ASSUME NEW r \in Request, Probe(r) PROVE AnswersAreTrue'
  <2>1. CASE Exists(req[r].pid) /\ req[r].kind = "start"
    <3>1. Says("already", proc[req[r].pid] = "alive") /\ budget' = budget /\ At(r, "probe")
      BY <1>6, <2>1 DEF Probe, Probes
    <3>2. CASE Lives(req[r].pid)
      <4>1. Says("already", TRUE)
        BY <3>1, <3>2 DEF Lives
      <4> QED
        BY <1>2, <4>1
    <3>3. CASE ~Lives(req[r].pid)
      <4>1. budget.races = 0 => budget.deaths # 0
        BY <2>1, <3>1, <3>3 DEF RaceFree, FileInv
      <4>2. budget.races > 0 \/ budget.deaths > 0
        BY <1>0, <4>1 DEF Budget
      <4> QED
        BY <3>1, <4>2 DEF Says, AnswersAreTrue
    <3> QED
      BY <3>2, <3>3
  <2>2. CASE ~(Exists(req[r].pid) /\ req[r].kind = "start")
    <3>1. req[r].kind \in {"start", "stop", "status"}
      BY <1>0, <1>6 DEF Probe, Probes, Req, ReqOK
    <3> QED
      BY <1>1, <1>6, <2>2, <3>1 DEF Probe, Probes
  <2> QED
    BY <2>1, <2>2
<1>7. ASSUME NEW r \in Request, UnlinkStale(r) PROVE AnswersAreTrue'
  <2>1. budget.races = 0 => Alive = {}
    BY <1>7 DEF UnlinkStale, RaceFree, LoopInv, Alive, Lives
  <2> QED
    BY <1>4, <1>7, <2>1 DEF UnlinkStale
<1>8. ASSUME NEW r \in Request, NoteStop(r) PROVE AnswersAreTrue'
  <2>1. budget.races = 0 => Alive = {}
    BY <1>8 DEF NoteStop, RaceFree, LoopInv, Alive, Lives
  <2>2. CASE Alive = {}
    BY <1>2, <1>8, <2>2 DEF NoteStop
  <2> QED
    BY <1>3, <1>8, <2>1, <2>2 DEF NoteStop
<1>9. ASSUME NEW r \in Request, WriteStatus(r) PROVE AnswersAreTrue'
  BY <1>2, <1>9 DEF WriteStatus
<1>10. ASSUME NEW r \in Request,
              Arrive(r) \/ Spawn(r) \/ SpawnFails(r) \/ WritePid(r) \/ Kill(r) \/ ClearPid(r) \/ ReadStatus(r)
       PROVE  AnswersAreTrue'
  BY <1>1, <1>10 DEF Arrive, Spawn, SpawnFails, WritePid, Kill, ClearPid, ReadStatus
<1>11. CASE UNCHANGED answer
  BY <1>1, <1>11
<1> QED
  BY <1>5, <1>6, <1>7, <1>8, <1>9, <1>10, <1>11
     DEF Next, Handle, MergeReads, MergeWrites, LoopDies, ServerRestarts, vars

(* After "stopped" or "not running" nothing trades any more; "already       *)
(* running" is said of a dead loop only if it died by itself; all this as   *)
(* long as no start overlaps another request.                               *)
THEOREM AnswersHold == Spec => []AnswersAreTrue
<1>1. Init => TypeInv /\ RaceFree /\ AnswersAreTrue
  BY InitType, InitRaceFree DEF Init, AnswersAreTrue
<1>2. TypeInv /\ RaceFree /\ AnswersAreTrue /\ [Next]_vars
        => (TypeInv /\ RaceFree /\ AnswersAreTrue)'
  BY TypeStep, RaceFreeStep, AnswerStep
<1> QED
  BY <1>1, <1>2, PTL DEF Spec

=============================================================================
