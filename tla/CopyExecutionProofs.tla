------------------------- MODULE CopyExecutionProofs ------------------------
(***************************************************************************)
(* Theorems about CopyExecution, for every number of workers, requests,    *)
(* items, changes of the setting, faults and crashes.                      *)
(***************************************************************************)
EXTENDS CopyExecution, NumberLemmas, TLAPS

USE CopyConstants DEF At

Steps == {"idle", "poll", "check", "load", "file", "failed"} \cup InTry

Proc == [step : Steps, queue : Seq(Item), acct : Account]

Budget == [changes : Nat, reads : Nat, requests : Nat, faults : Nat, crashes : Nat]

QueueOK(queue) ==
  /\ queue \in Seq(Item)
  /\ Len(queue) <= Limit /\ Range(queue) \subseteq DOMAIN inbox

(* Whoever executes has an item in hand.                                    *)
ProcOK ==
  /\ proc \in [Executor -> Proc]
  /\ \A e \in Executor : QueueOK(proc[e].queue)
  /\ \A e \in Executor : proc[e].step \notin {"idle", "poll"} => proc[e].queue # <<>>

TypeInv ==
  /\ ProcOK
  /\ inbox \in Seq(Kinds) /\ Len(inbox) <= MaxItems
  /\ unread \subseteq DOMAIN inbox
  /\ setting \in [enabled : BOOLEAN, auto : BOOLEAN]
  /\ db \in Account \cup {NoRow} /\ file \in Account \cup {NoRow}
  /\ trades \in [Item -> Nat]
  /\ executed \subseteq DOMAIN inbox
  /\ off \in Nat
  /\ budget \in Budget

LEMMA Types ==
  ASSUME TypeInv
  PROVE  /\ inbox \in Seq(Kinds) /\ DOMAIN inbox = 1..Len(inbox) /\ DOMAIN inbox \subseteq Item
         /\ \A e \in Executor : proc[e] \in Proc /\ QueueOK(proc[e].queue)
BY DEF TypeInv, ProcOK, Item

(* The item in hand, and the rest of the queue.                             *)
LEMMA QueueParts ==
  ASSUME NEW queue, QueueOK(queue), queue # <<>>
  PROVE  /\ Head(queue) \in DOMAIN inbox /\ Head(queue) \in Item
         /\ QueueOK(Tail(queue))
         /\ Len(queue) > 1 => Tail(queue) # <<>>
<1>1. Head(queue) = queue[1] /\ 1 \in DOMAIN queue /\ DOMAIN queue = 1..Len(queue)
  BY DEF QueueOK
<1>2. Head(queue) \in Range(queue)
  BY <1>1 DEF Range
<1>3. /\ Tail(queue) \in Seq(Item) /\ Len(Tail(queue)) = Len(queue) - 1
      /\ DOMAIN Tail(queue) = 1..(Len(queue) - 1)
      /\ \A i \in 1..(Len(queue) - 1) : Tail(queue)[i] = queue[i + 1]
  BY DEF QueueOK
<1>4. Range(Tail(queue)) \subseteq Range(queue)
  BY <1>1, <1>3 DEF Range
<1>5. QueueOK(Tail(queue))
  BY <1>3, <1>4 DEF QueueOK
<1>6. Len(queue) > 1 => Tail(queue) # <<>>
  BY <1>3 DEF QueueOK
<1> QED
  BY <1>1, <1>2, <1>5, <1>6 DEF QueueOK

LEMMA InHand ==
  ASSUME TypeInv, NEW e \in Executor, proc[e].step \notin {"idle", "poll"}
  PROVE  /\ Cur(e) \in DOMAIN inbox /\ Cur(e) \in Item
         /\ QueueOK(Tail(proc[e].queue))
         /\ Len(proc[e].queue) > 1 => Tail(proc[e].queue) # <<>>
BY Types, QueueParts DEF TypeInv, ProcOK, Cur

LEMMA NoRowIsNoAccount == NoRow \notin Account
<1>1. \A a \in Account : DOMAIN a = {"cash", "qty"}
  BY DEF Account
<1>2. DOMAIN NoRow = {"missing"}
  BY DEF NoRow
<1> QED
  BY <1>1, <1>2

LEMMA Empty == QueueOK(<<>>)
BY DEF QueueOK, Range

LEMMA IdleType == Idle \in Proc /\ Idle.step = "idle" /\ Idle.queue = <<>> /\ Idle.acct = NewAccount
BY DEF Idle, Proc, Steps, Account, NewAccount

LEMMA TypeInvImplies == TypeInv => TypeOK
<1> SUFFICES ASSUME TypeInv PROVE TypeOK
  OBVIOUS
<1>1. DOMAIN inbox \subseteq Item
  BY Types
<1>2. \A e \in Executor :
        /\ proc[e].step \in {"idle", "poll", "check", "load", "file", "failed"} \cup InTry
        /\ proc[e].acct \in Account
        /\ Len(proc[e].queue) <= Limit /\ Range(proc[e].queue) \subseteq DOMAIN inbox
  BY DEF TypeInv, ProcOK, QueueOK, Proc, Steps
<1> QED
  BY <1>1, <1>2 DEF TypeInv, TypeOK

LEMMA SpendType ==
  ASSUME budget \in Budget, NEW kind \in {"changes", "reads", "requests", "faults", "crashes"},
         Spend(kind)
  PROVE  budget' \in Budget
<1>1. budget = [changes |-> budget.changes, reads |-> budget.reads, requests |-> budget.requests,
                faults |-> budget.faults, crashes |-> budget.crashes]
  BY DEF Budget
<1> QED
  BY <1>1 DEF Spend, Budget

LEMMA InitType == Init => TypeInv
<1> SUFFICES ASSUME Init PROVE TypeInv
  OBVIOUS
<1>1. inbox \in Seq(Kinds) /\ Len(inbox) = 0 /\ trades \in [Item -> Nat]
  BY DEF Init
<1>2. \A e \in Executor : proc[e] = Idle
  BY DEF Init
<1>3. ProcOK
  BY <1>2, IdleType, Empty DEF Init, ProcOK
<1> QED
  BY <1>1, <1>3 DEF Init, TypeInv, Budget

-----------------------------------------------------------------------------
(* Steps of one executor.                                                   *)

(* One executor goes on; the inbox only grows.                              *)
LEMMA ProcStep ==
  ASSUME ProcOK, NEW e \in Executor, NEW p \in Proc, proc' = [proc EXCEPT ![e] = p],
         inbox' = inbox, QueueOK(p.queue),
         p.step \notin {"idle", "poll"} => p.queue # <<>>
  PROVE  ProcOK'
BY DEF ProcOK, QueueOK

LEMMA NextItemStep ==
  ASSUME TypeInv, NEW e \in Executor, NextItem(e), inbox' = inbox, ~At(e, "idle")
  PROVE  /\ ProcOK'
         /\ proc'[e].step \in {"idle", "check"}
         /\ \A x \in Executor \ {e} : proc'[x] = proc[x]
<1>1. CASE Len(proc[e].queue) > 1
  <2> DEFINE p == [Idle EXCEPT !.step = "check", !.queue = Tail(proc[e].queue)]
  <2>1. proc' = [proc EXCEPT ![e] = p]
    BY <1>1 DEF NextItem
  <2>2. proc[e].queue # <<>> /\ QueueOK(proc[e].queue)
    BY <1>1, Types DEF QueueOK
  <2>3. QueueOK(Tail(proc[e].queue)) /\ Tail(proc[e].queue) # <<>>
    BY <1>1, <2>2, QueueParts
  <2>4. p \in Proc /\ p.queue = Tail(proc[e].queue) /\ p.step = "check"
    BY <2>3, IdleType DEF Proc, Steps, QueueOK
  <2> HIDE DEF p
  <2> QED
    BY <2>1, <2>3, <2>4, ProcStep DEF TypeInv, ProcOK
<1>2. CASE ~(Len(proc[e].queue) > 1)
  <2>1. proc' = [proc EXCEPT ![e] = Idle]
    BY <1>2 DEF NextItem
  <2> QED
    BY <2>1, IdleType, Empty, ProcStep DEF TypeInv, ProcOK
<1> QED
  BY <1>1, <1>2

LEMMA GoStep ==
  ASSUME TypeInv, NEW e \in Executor, NEW step \in Steps, Go(e, step), inbox' = inbox,
         step \notin {"idle", "poll"} => proc[e].queue # <<>>
  PROVE  /\ ProcOK'
         /\ proc'[e] = [proc[e] EXCEPT !.step = step]
         /\ \A x \in Executor \ {e} : proc'[x] = proc[x]
<1> DEFINE p == [proc[e] EXCEPT !.step = step]
<1>1. proc[e] \in Proc /\ QueueOK(proc[e].queue) /\ ProcOK
  BY Types DEF TypeInv
<1>2. p \in Proc /\ p.step = step /\ p.queue = proc[e].queue /\ proc' = [proc EXCEPT ![e] = p]
  BY <1>1 DEF Proc, Go
<1> HIDE DEF p
<1>3. ProcOK'
  BY <1>1, <1>2, ProcStep
<1> USE DEF p
<1> QED
  BY <1>1, <1>2, <1>3 DEF ProcOK

(* It goes on with the item in hand and another account.                    *)
LEMMA AcctStep ==
  ASSUME TypeInv, NEW e \in Executor, NEW step \in Steps, NEW acct \in Account,
         proc' = [proc EXCEPT ![e] = [@ EXCEPT !.step = step, !.acct = acct]], inbox' = inbox,
         proc[e].step \notin {"idle", "poll"}
  PROVE  /\ ProcOK'
         /\ proc'[e] = [proc[e] EXCEPT !.step = step, !.acct = acct]
         /\ \A x \in Executor \ {e} : proc'[x] = proc[x]
<1> DEFINE p == [proc[e] EXCEPT !.step = step, !.acct = acct]
<1>1. proc[e] \in Proc /\ QueueOK(proc[e].queue) /\ ProcOK /\ proc[e].queue # <<>>
  BY Types DEF TypeInv, ProcOK
<1>2. p \in Proc /\ p.step = step /\ p.queue = proc[e].queue /\ proc' = [proc EXCEPT ![e] = p]
  BY <1>1 DEF Proc, ProcOK
<1> HIDE DEF p
<1>3. ProcOK'
  BY <1>1, <1>2, ProcStep
<1> USE DEF p
<1> QED
  BY <1>1, <1>2, <1>3 DEF ProcOK

LEMMA FilledType ==
  ASSUME NEW acct \in Account, NEW side, Fillable(acct, side)
  PROVE  Filled(acct, side) \in Account
BY DEF Account, Fillable, Filled

(* What an executor goes on to do with its item.                            *)
LEMMA LoadRowStep ==
  ASSUME TypeInv, NEW e \in Executor, LoadRow(e)
  PROVE  TypeInv' /\ db' \in Account
         /\ proc'[e] = [proc[e] EXCEPT !.step = "file", !.acct = db']
         /\ \A x \in Executor \ {e} : proc'[x] = proc[x]
<1>1. db' \in Account
  BY DEF LoadRow, TypeInv, NewAccount, Account
<1>2. proc' = [proc EXCEPT ![e] = [@ EXCEPT !.step = "file", !.acct = db']]
  BY Types DEF LoadRow, TypeInv, ProcOK, Proc
<1>3. /\ ProcOK'
      /\ proc'[e] = [proc[e] EXCEPT !.step = "file", !.acct = db']
      /\ \A x \in Executor \ {e} : proc'[x] = proc[x]
  <2>1. "file" \in Steps /\ inbox' = inbox /\ proc[e].step \notin {"idle", "poll"}
    BY DEF LoadRow, Steps
  <2> QED
    BY <1>1, <1>2, <2>1, AcctStep
<1> QED
  BY <1>1, <1>3 DEF TypeInv, LoadRow

LEMMA LoadFileStep ==
  ASSUME TypeInv, NEW e \in Executor, LoadFile(e)
  PROVE  TypeInv' /\ file' \in Account
         /\ proc'[e] = [proc[e] EXCEPT !.step = "fill",
                          !.acct.cash = IF @ = 0 THEN file'.cash ELSE @]
         /\ \A x \in Executor \ {e} : proc'[x] = proc[x]
<1>1. file' \in Account
  BY DEF LoadFile, TypeInv, NewAccount, Account
<1> DEFINE acct == [proc[e].acct EXCEPT !.cash = IF @ = 0 THEN file'.cash ELSE @]
<1>2. proc[e] \in Proc /\ acct \in Account
  BY <1>1, Types DEF Proc, Account
<1>3. proc' = [proc EXCEPT ![e] = [@ EXCEPT !.step = "fill", !.acct = acct]]
  BY <1>2 DEF LoadFile, TypeInv, ProcOK, Proc
<1> HIDE DEF acct
<1>4. /\ ProcOK'
      /\ proc'[e] = [proc[e] EXCEPT !.step = "fill", !.acct = acct]
      /\ \A x \in Executor \ {e} : proc'[x] = proc[x]
  <2>1. "fill" \in Steps /\ inbox' = inbox /\ proc[e].step \notin {"idle", "poll"}
    BY DEF LoadFile, Steps, InTry
  <2> QED
    BY <1>2, <1>3, <2>1, AcctStep
<1> USE DEF acct
<1> QED
  BY <1>1, <1>2, <1>4 DEF TypeInv, LoadFile, Proc

LEMMA FillStep ==
  ASSUME TypeInv, NEW e \in Executor, Fill(e)
  PROVE  TypeInv'
         /\ proc'[e] = [proc[e] EXCEPT !.step = "savefile", !.acct = Filled(@, inbox[Cur(e)])]
         /\ \A x \in Executor \ {e} : proc'[x] = proc[x]
<1> DEFINE acct == Filled(proc[e].acct, inbox[Cur(e)])
<1>1. proc[e] \in Proc /\ acct \in Account
  BY Types, FilledType DEF Proc, Fill
<1>2. proc' = [proc EXCEPT ![e] = [@ EXCEPT !.step = "savefile", !.acct = acct]]
  BY <1>1 DEF Fill, TypeInv, ProcOK, Proc
<1> HIDE DEF acct
<1>3. /\ ProcOK'
      /\ proc'[e] = [proc[e] EXCEPT !.step = "savefile", !.acct = acct]
      /\ \A x \in Executor \ {e} : proc'[x] = proc[x]
  <2>1. "savefile" \in Steps /\ inbox' = inbox /\ proc[e].step \notin {"idle", "poll"}
    BY DEF Fill, Steps, InTry
  <2> QED
    BY <1>1, <1>2, <2>1, AcctStep
<1> USE DEF acct
<1> QED
  BY <1>1, <1>3 DEF TypeInv, Fill, Proc

(* An item that arrives is new.                                             *)
LEMMA DeliverStep ==
  ASSUME TypeInv, Deliver
  PROVE  /\ TypeInv'
         /\ inbox' \in Seq(Kinds) /\ DOMAIN inbox \subseteq DOMAIN inbox'
         /\ \A i \in unread' : i \in unread \/ i \notin DOMAIN inbox
<1>1. /\ inbox' \in Seq(Kinds) /\ Len(inbox') = Len(inbox) + 1
      /\ DOMAIN inbox = 1..Len(inbox) /\ DOMAIN inbox' = 1..Len(inbox')
      /\ Len(inbox) \in Nat /\ Len(inbox') <= MaxItems
  BY DEF Deliver, TypeInv
<1>2. unread' = unread \cup {Len(inbox')} /\ Len(inbox') \in DOMAIN inbox' \ DOMAIN inbox
      /\ DOMAIN inbox \subseteq DOMAIN inbox'
  BY <1>1 DEF Deliver
<1>3. ProcOK'
  BY <1>2 DEF Deliver, TypeInv, ProcOK, QueueOK
<1> QED
  BY <1>1, <1>2, <1>3 DEF Deliver, TypeInv

(* The user decides about settings and marks.                               *)
LEMMA UserType == ASSUME TypeInv, UserMarksRead \/ ChangeSetting PROVE TypeInv'
<1>1. ProcOK' = ProcOK
  BY DEF UserMarksRead, ChangeSetting, ProcOK, QueueOK
<1>2. budget' \in Budget
  BY SpendType DEF UserMarksRead, ChangeSetting, TypeInv
<1>3. setting' \in [enabled : BOOLEAN, auto : BOOLEAN] /\ off' \in Nat
  BY DEF UserMarksRead, ChangeSetting, TypeInv
<1>4. unread' \subseteq unread
  BY DEF UserMarksRead, ChangeSetting
<1> QED
  BY <1>1, <1>2, <1>3, <1>4 DEF UserMarksRead, ChangeSetting, TypeInv

LEMMA PollStep ==
  ASSUME TypeInv, NEW w \in Worker, Poll(w)
  PROVE  /\ TypeInv'
         /\ proc'[w].step \in {"idle", "check"}
         /\ \A x \in Executor \ {w} : proc'[x] = proc[x]
<1>1. PICK seq \in SeqOf(unread, MaxItems) : OldestFirst(seq, unread) /\ Polls(w, seq)
  BY DEF Poll
<1>2. PICK n \in 0..MaxItems : seq \in [1..n -> unread]
  BY <1>1 DEF SeqOf
<1>3. seq \in Seq(unread) /\ Range(seq) \subseteq unread
  BY <1>2 DEF Range
<1>4. unread \subseteq Item /\ unread \subseteq DOMAIN inbox
  BY Types DEF TypeInv
<1>5. seq \in Seq(Item)
  BY <1>2, <1>4
<1>6. QueueOK(seq)
  BY <1>1, <1>3, <1>4, <1>5 DEF QueueOK, OldestFirst
<1> DEFINE p == IF seq = <<>> THEN Idle ELSE [Idle EXCEPT !.step = "check", !.queue = seq]
<1>7. /\ p \in Proc /\ QueueOK(p.queue) /\ p.step \in {"idle", "check"}
      /\ p.step \notin {"idle", "poll"} => p.queue # <<>>
  BY <1>5, <1>6, IdleType, Empty DEF Proc, Steps
<1>8. proc' = [proc EXCEPT ![w] = p] /\ inbox' = inbox
  BY <1>1 DEF Polls
<1> HIDE DEF p
<1>9. ProcOK'
  BY <1>7, <1>8, ProcStep DEF TypeInv, Executor
<1> QED
  BY <1>1, <1>7, <1>8, <1>9 DEF TypeInv, ProcOK, Polls, Executor

LEMMA RequestStep ==
  ASSUME TypeInv, NEW a \in Api, Request(a)
  PROVE  /\ TypeInv'
         /\ proc'[a].step = "check"
         /\ \A x \in Executor \ {a} : proc'[x] = proc[x]
<1>1. PICK i \in DOMAIN inbox : proc' = [proc EXCEPT ![a] = [Idle EXCEPT !.step = "check", !.queue = <<i>>]]
  BY DEF Request
<1> DEFINE p == [Idle EXCEPT !.step = "check", !.queue = <<i>>]
<1>2. i \in Item
  BY Types
<1>3. QueueOK(<<i>>)
  BY <1>2 DEF QueueOK, Range
<1>4. p \in Proc /\ p.queue = <<i>> /\ p.step = "check"
  BY <1>3, IdleType DEF Proc, Steps, QueueOK
<1>5. proc' = [proc EXCEPT ![a] = p] /\ inbox' = inbox
  BY <1>1 DEF Request
<1> HIDE DEF p
<1>6. ProcOK'
  <2>1. <<i>> # <<>>
    OBVIOUS
  <2> QED
    BY <1>3, <1>4, <1>5, <2>1, ProcStep DEF TypeInv, Executor
<1>7. budget' \in Budget
  BY SpendType DEF Request, TypeInv
<1> QED
  BY <1>4, <1>5, <1>6, <1>7 DEF Request, TypeInv, ProcOK, Executor

-----------------------------------------------------------------------------
(* Between passing the check and booking the trade.                         *)
Armed == {"load", "file", "fill", "savefile", "savedb", "tradedb"}

(* What an executor's own steps have in common: only BookTrade and MarkRead *)
(* arrive at "mark" and "record", only Accept gets armed.                   *)
Moves(e) ==
  /\ TypeInv'
  /\ \A x \in Executor \ {e} : proc'[x] = proc[x]
  /\ proc'[e].step = "mark" => BookTrade(e)
  /\ proc'[e].step = "record" => MarkRead(e)
  /\ proc'[e].step \in Armed => proc[e].step \in Armed \/ setting.enabled
  /\ BookTrade(e) \/ MarkRead(e) => proc'[e].queue = proc[e].queue
  /\ BookTrade(e) => proc'[e].step = "mark"

LEMMA LeavesType ==
  ASSUME TypeInv, NEW e \in Executor, NotFound(e) \/ Reject(e) \/ RecordExecuted(e) \/ RecordFailed(e)
  PROVE  Moves(e)
<1>1. NextItem(e) /\ inbox' = inbox /\ proc[e].step \in {"check", "record", "failed"}
  BY DEF NotFound, Reject, RecordExecuted, RecordFailed, FailsWith
<1>2. /\ ProcOK'
      /\ proc'[e].step \in {"idle", "check"}
      /\ \A x \in Executor \ {e} : proc'[x] = proc[x]
  BY <1>1, NextItemStep
<1>3. executed' \subseteq DOMAIN inbox
  BY <1>1, InHand DEF TypeInv, NotFound, Reject, RecordExecuted, RecordFailed, FailsWith
<1>4. TypeInv'
  BY <1>1, <1>2, <1>3 DEF TypeInv, NotFound, Reject, RecordExecuted, RecordFailed, FailsWith
<1>5. ~BookTrade(e) /\ ~MarkRead(e)
  BY <1>1, <1>2 DEF BookTrade, MarkRead, Marks, NotFound, Reject, RecordExecuted, RecordFailed, FailsWith
<1> QED
  BY <1>2, <1>4, <1>5 DEF Moves, Armed

LEMMA GoesType ==
  ASSUME TypeInv, NEW e \in Executor,
         Accept(e) \/ FillRefused(e) \/ SaveFile(e) \/ SaveRow(e) \/ BookTrade(e) \/ MarkRead(e)
  PROVE  Moves(e)
<1>1. PICK step \in {"load", "failed", "savedb", "tradedb", "mark", "record"} :
        /\ Go(e, step)
        /\ step = "mark" => BookTrade(e)
        /\ step = "record" => MarkRead(e)
        /\ step \in Armed => proc[e].step \in Armed \/ setting.enabled
        /\ BookTrade(e) => step = "mark"
  BY DEF Accept, Accepts, FillRefused, SaveFile, SaveRow, SavesRow, BookTrade, MarkRead, Marks, Armed
<1>2. inbox' = inbox /\ proc[e].step \notin {"idle", "poll"} /\ step \in Steps
  BY DEF Accept, Accepts, FillRefused, SaveFile, SaveRow, SavesRow, BookTrade, MarkRead, Marks, Steps, InTry
<1>3. proc[e].queue # <<>> /\ proc[e] \in Proc
  BY <1>2, Types DEF TypeInv, ProcOK
<1>4. /\ ProcOK'
      /\ proc'[e] = [proc[e] EXCEPT !.step = step]
      /\ \A x \in Executor \ {e} : proc'[x] = proc[x]
  BY <1>1, <1>2, <1>3, GoStep
<1>5. file' \in Account \cup {NoRow} /\ db' \in Account \cup {NoRow}
  BY <1>3 DEF TypeInv, Accept, Accepts, FillRefused, SaveFile, SaveRow, SavesRow, BookTrade, MarkRead,
              Marks, Proc
<1>6. trades' \in [Item -> Nat] /\ off' \in Nat /\ unread' \subseteq unread
  BY DEF TypeInv, Accept, Accepts, FillRefused, SaveFile, SaveRow, SavesRow, BookTrade, MarkRead, Marks
<1>7. TypeInv'
  BY <1>2, <1>4, <1>5, <1>6
     DEF TypeInv, Accept, Accepts, FillRefused, SaveFile, SaveRow, SavesRow, BookTrade, MarkRead, Marks
<1> QED
  BY <1>1, <1>3, <1>4, <1>7 DEF Moves, Proc

LEMMA ExecuteMoves == ASSUME TypeInv, NEW e \in Executor, Execute(e) PROVE Moves(e)
<1>1. CASE LoadRow(e)
  <2>1. At(e, "load") /\ ~BookTrade(e) /\ ~MarkRead(e)
    BY <1>1 DEF LoadRow, BookTrade, MarkRead, Marks
  <2>2. proc'[e].step = "file"
    BY <1>1, LoadRowStep, Types DEF Proc
  <2> QED
    BY <1>1, <2>1, <2>2, LoadRowStep DEF Moves, Armed
<1>2. CASE LoadFile(e)
  <2>1. At(e, "file") /\ ~BookTrade(e) /\ ~MarkRead(e)
    BY <1>2 DEF LoadFile, BookTrade, MarkRead, Marks
  <2>2. proc'[e].step = "fill"
    BY <1>2, LoadFileStep, Types DEF Proc
  <2> QED
    BY <1>2, <2>1, <2>2, LoadFileStep DEF Moves, Armed
<1>3. CASE Fill(e)
  <2>1. At(e, "fill") /\ ~BookTrade(e) /\ ~MarkRead(e)
    BY <1>3 DEF Fill, BookTrade, MarkRead, Marks
  <2>2. proc'[e].step = "savefile"
    BY <1>3, FillStep, Types DEF Proc
  <2> QED
    BY <1>3, <2>1, <2>2, FillStep DEF Moves, Armed
<1> QED
  BY <1>1, <1>2, <1>3, LeavesType, GoesType DEF Execute

(* A fault or a crash disarms; the worker's question does not arm.          *)
Disarms(e) ==
  /\ TypeInv'
  /\ \A x \in Executor \ {e} : proc'[x] = proc[x]
  /\ proc'[e].step \in {"idle", "poll", "check", "failed"}

LEMMA FaultDisarms == ASSUME TypeInv, NEW e \in Executor, Fault(e) PROVE Disarms(e)
<1>1. budget' \in Budget /\ inbox' = inbox
  BY SpendType DEF Fault, TypeInv
<1>2. CASE proc[e].step \in InTry
  <2>1. Go(e, "failed") /\ proc[e].queue # <<>> /\ "failed" \in Steps
    BY <1>2 DEF Fault, TypeInv, ProcOK, InTry, Steps
  <2>2. /\ ProcOK'
        /\ proc'[e] = [proc[e] EXCEPT !.step = "failed"]
        /\ \A x \in Executor \ {e} : proc'[x] = proc[x]
    BY <1>1, <2>1, GoStep
  <2>3. proc'[e].step = "failed"
    BY <2>2, Types DEF Proc
  <2> QED
    BY <1>1, <2>2, <2>3 DEF Fault, Disarms, TypeInv
<1>3. CASE proc[e].step \notin InTry
  <2>1. NextItem(e) /\ ~At(e, "idle")
    BY <1>3 DEF Fault
  <2>2. /\ ProcOK'
        /\ proc'[e].step \in {"idle", "check"}
        /\ \A x \in Executor \ {e} : proc'[x] = proc[x]
    BY <1>1, <2>1, NextItemStep
  <2> QED
    BY <1>1, <2>2 DEF Fault, Disarms, TypeInv
<1> QED
  BY <1>2, <1>3

LEMMA CrashDisarms == ASSUME TypeInv, NEW e \in Executor, Crash(e) PROVE Disarms(e)
<1>1. budget' \in Budget /\ inbox' = inbox
  BY SpendType DEF Crash, TypeInv
<1>2. proc' = [proc EXCEPT ![e] = Idle]
  BY DEF Crash
<1>3. ProcOK'
  BY <1>1, <1>2, IdleType, Empty, ProcStep DEF TypeInv
<1>4. proc'[e] = Idle /\ \A x \in Executor \ {e} : proc'[x] = proc[x]
  BY <1>2 DEF TypeInv, ProcOK
<1>5. file' \in Account \cup {NoRow}
  BY DEF Crash, TypeInv
<1> QED
  BY <1>1, <1>3, <1>4, <1>5, IdleType DEF Crash, Disarms, TypeInv

LEMMA ReadTargetsDisarms == ASSUME TypeInv, NEW w \in Worker, ReadTargets(w) PROVE Disarms(w)
<1>1. PICK step \in {"idle", "poll"} : Go(w, step)
  BY DEF ReadTargets
<1>2. inbox' = inbox /\ w \in Executor /\ step \in Steps
  BY DEF ReadTargets, Executor, Steps
<1>3. /\ ProcOK'
      /\ proc'[w] = [proc[w] EXCEPT !.step = step]
      /\ \A x \in Executor \ {w} : proc'[x] = proc[x]
  BY <1>1, <1>2, GoStep
<1>4. proc'[w].step = step
  BY <1>2, <1>3, Types DEF Proc
<1> QED
  BY <1>3, <1>4 DEF ReadTargets, Disarms, TypeInv

LEMMA PollDisarms == ASSUME TypeInv, NEW w \in Worker, Poll(w) PROVE Disarms(w)
BY PollStep DEF Disarms

LEMMA RequestDisarms == ASSUME TypeInv, NEW a \in Api, Request(a) PROVE Disarms(a)
BY RequestStep DEF Disarms

(* All the steps there are.                                                 *)
LEMMA StepCases ==
  ASSUME TypeInv, [Next]_vars
  PROVE  \/ Deliver \/ UserMarksRead \/ ChangeSetting \/ UNCHANGED vars
         \/ \E e \in Executor : Execute(e) /\ Moves(e)
         \/ \E e \in Executor :
              /\ Disarms(e)
              /\ \/ Fault(e) \/ Crash(e)
                 \/ e \in Worker /\ (ReadTargets(e) \/ Poll(e))
                 \/ e \in Api /\ Request(e)
BY ExecuteMoves, FaultDisarms, CrashDisarms, ReadTargetsDisarms, PollDisarms, RequestDisarms
   DEF Next, Loop, Executor

LEMMA TypeStep == ASSUME TypeInv, [Next]_vars PROVE TypeInv'
<1>1. CASE UNCHANGED vars
  BY <1>1 DEF vars, TypeInv, ProcOK, QueueOK
<1> QED
  BY <1>1, StepCases, DeliverStep, UserType DEF Moves, Disarms

(* TypeOK, for every value of the constants.                                *)
THEOREM TypeCorrect == Spec => []TypeOK
<1>1. TypeInv /\ [Next]_vars => TypeInv'
  BY TypeStep
<1> QED
  BY <1>1, InitType, TypeInvImplies, PTL DEF Spec

-----------------------------------------------------------------------------
(* An item about to be marked has its trade, one about to be recorded has   *)
(* also left the unread list.                                               *)
BookedInv ==
  /\ ExecutedIsBooked
  /\ \A e \in Executor :
       /\ At(e, "mark") => trades[Cur(e)] > 0
       /\ At(e, "record") => trades[Cur(e)] > 0 /\ Cur(e) \notin unread

(* Trades are not taken back and items do not become unread again.          *)
OnlyMore ==
  /\ \A i \in Item : trades[i] > 0 => trades'[i] > 0
  /\ \A i \in unread' : i \in unread \/ i \notin DOMAIN inbox

LEMMA OnlyMoreStep == ASSUME TypeInv, [Next]_vars PROVE OnlyMore
<1>1. ASSUME NEW e \in Executor, Execute(e) PROVE OnlyMore
  <2>1. CASE BookTrade(e)
    <3>1. unread' = unread /\ trades' = [trades EXCEPT ![Cur(e)] = @ + 1]
      BY <2>1 DEF BookTrade
    <3>2. trades \in [Item -> Nat]
      BY DEF TypeInv
    <3> QED
      BY <3>1, <3>2 DEF OnlyMore
  <2>2. CASE MarkRead(e)
    BY <2>2 DEF MarkRead, Marks, OnlyMore
  <2>3. CASE ~BookTrade(e) /\ ~MarkRead(e)
    BY <1>1, <2>3 DEF OnlyMore, Execute, NotFound, Reject, Accept, Accepts, LoadRow, LoadFile, Fill, FillRefused,
                      SaveFile, SaveRow, SavesRow, RecordExecuted, RecordFailed, FailsWith
  <2> QED
    BY <2>1, <2>2, <2>3
<1>2. ASSUME NEW e \in Executor, Fault(e) \/ Crash(e) \/ ReadTargets(e) \/ Poll(e) \/ Request(e)
      PROVE  OnlyMore
  BY <1>2 DEF OnlyMore, Fault, Crash, ReadTargets, Poll, Polls, Request
<1>3. CASE UserMarksRead \/ ChangeSetting \/ UNCHANGED vars
  BY <1>3 DEF OnlyMore, UserMarksRead, ChangeSetting, vars
<1>4. CASE Deliver
  BY <1>4, DeliverStep DEF OnlyMore, Deliver
<1> QED
  BY <1>1, <1>2, <1>3, <1>4, StepCases

(* An executor that is not about to mark or record keeps the invariant when *)
(* nothing more is recorded as executed.                                    *)
LEMMA BookedQuiet ==
  ASSUME TypeInv, BookedInv, OnlyMore, executed' = executed,
         \A x \in Executor : proc'[x] = proc[x] \/ proc'[x].step \notin {"mark", "record"}
  PROVE  BookedInv'
<1>1. \A i \in executed : i \in Item /\ i \in DOMAIN inbox
  BY Types DEF TypeInv
<1>2. ExecutedIsBooked'
  BY <1>1 DEF BookedInv, ExecutedIsBooked, OnlyMore
<1>3. \A x \in Executor : At(x, "mark") \/ At(x, "record") =>
        Cur(x) \in Item /\ Cur(x) \in DOMAIN inbox
  BY InHand
<1> QED
  BY <1>2, <1>3 DEF BookedInv, OnlyMore, Cur

LEMMA BookedStep == ASSUME TypeInv, BookedInv, [Next]_vars PROVE BookedInv'
<1>1. OnlyMore /\ TypeInv'
  BY OnlyMoreStep, TypeStep
<1>2. CASE Deliver \/ UserMarksRead \/ ChangeSetting \/ UNCHANGED vars
  BY <1>1, <1>2, BookedQuiet DEF Deliver, UserMarksRead, ChangeSetting, vars
<1>3. ASSUME NEW e \in Executor, Disarms(e),
             Fault(e) \/ Crash(e) \/ ReadTargets(e) \/ Poll(e) \/ Request(e)
      PROVE  BookedInv'
  <2>1. executed' = executed
    BY <1>3 DEF Fault, Crash, ReadTargets, Poll, Polls, Request
  <2>2. \A x \in Executor \ {e} : proc'[x] = proc[x]
    BY <1>3 DEF Disarms
  <2>3. proc'[e].step \notin {"mark", "record"}
    BY <1>3 DEF Disarms
  <2> QED
    BY <1>1, <2>1, <2>2, <2>3, BookedQuiet
<1>4. ASSUME NEW e \in Executor, Execute(e), Moves(e) PROVE BookedInv'
  <2>1. \A x \in Executor \ {e} : proc'[x] = proc[x]
    BY <1>4 DEF Moves
  <2>2. \A x \in Executor \ {e} : At(x, "mark") \/ At(x, "record") =>
          Cur(x) \in Item /\ Cur(x) \in DOMAIN inbox
    BY InHand
  <2>3. \A i \in executed : i \in Item /\ i \in DOMAIN inbox
    BY Types DEF TypeInv
  <2>4. CASE BookTrade(e)
    <3>1. Cur(e) \in Item /\ Cur(e)' = Cur(e) /\ executed' = executed /\ unread' = unread
          /\ trades' = [trades EXCEPT ![Cur(e)] = @ + 1]
      BY <1>4, <2>4, InHand DEF BookTrade, Moves, Cur
    <3>2. trades'[Cur(e)'] > 0
      BY <3>1 DEF TypeInv
    <3>3. proc'[e].step = "mark"
      BY <1>4, <2>4 DEF Moves
    <3>4. ExecutedIsBooked'
      BY <1>1, <2>3, <3>1 DEF BookedInv, ExecutedIsBooked, OnlyMore
    <3> QED
      BY <1>1, <2>1, <2>2, <3>2, <3>3, <3>4 DEF BookedInv, OnlyMore, Cur
  <2>5. CASE MarkRead(e)
    <3>1. /\ Cur(e)' = Cur(e) /\ executed' = executed /\ trades' = trades
          /\ unread' = unread \ {Cur(e)} /\ At(e, "mark")
      BY <1>4, <2>5 DEF MarkRead, Marks, Moves, Cur
    <3>2. trades'[Cur(e)'] > 0 /\ Cur(e)' \notin unread'
      BY <3>1 DEF BookedInv
    <3>3. ExecutedIsBooked'
      BY <3>1 DEF BookedInv, ExecutedIsBooked
    <3> QED
      BY <1>1, <2>1, <2>2, <3>2, <3>3 DEF BookedInv, OnlyMore, Cur
  <2>6. CASE RecordExecuted(e)
    <3>1. /\ executed' = executed \cup {Cur(e)} /\ trades' = trades /\ unread' = unread
          /\ At(e, "record")
      BY <2>6 DEF RecordExecuted
    <3>2. ExecutedIsBooked'
      BY <3>1 DEF BookedInv, ExecutedIsBooked
    <3>3. ~BookTrade(e) /\ ~MarkRead(e)
      BY <3>1 DEF BookTrade, MarkRead, Marks
    <3>4. proc'[e].step \notin {"mark", "record"}
      BY <1>4, <3>3 DEF Moves
    <3> QED
      BY <1>1, <2>1, <2>2, <3>2, <3>4 DEF BookedInv, OnlyMore, Cur
  <2>7. CASE ~BookTrade(e) /\ ~MarkRead(e) /\ ~RecordExecuted(e)
    <3>1. executed' = executed
      BY <1>4, <2>7 DEF Execute, NotFound, Reject, Accept, Accepts, LoadRow, LoadFile, Fill, FillRefused,
                        SaveFile, SaveRow, SavesRow, RecordFailed, FailsWith
    <3>2. proc'[e].step \notin {"mark", "record"}
      BY <1>4, <2>7 DEF Moves
    <3> QED
      BY <1>1, <2>1, <3>1, <3>2, BookedQuiet
  <2> QED
    BY <2>4, <2>5, <2>6, <2>7
<1> QED
  BY <1>2, <1>3, <1>4, StepCases

(* Whatever fails, dies or runs at the same time, what is reported as       *)
(* executed has a trade and is off the unread list.                         *)
THEOREM ExecutedHasTrade == Spec => []ExecutedIsBooked
<1>1. Init => BookedInv
  BY DEF Init, BookedInv, ExecutedIsBooked, Idle
<1>2. TypeInv /\ BookedInv /\ [Next]_vars => (TypeInv /\ BookedInv)'
  BY TypeStep, BookedStep
<1>3. BookedInv => ExecutedIsBooked
  BY DEF BookedInv
<1> QED
  BY <1>1, <1>2, <1>3, InitType, PTL DEF Spec

-----------------------------------------------------------------------------
(* While copying is off, every trade a worker books disarms one that was    *)
(* armed before, and none is armed again.                                   *)
ArmedWorkers == {w \in Worker : proc[w].step \in Armed}

OffInv == IF setting.enabled THEN off = 0
                             ELSE off + Cardinality(ArmedWorkers) <= Cardinality(Worker)

LEMMA ArmedFinite ==
  ASSUME NEW S \in SUBSET Worker
  PROVE  IsFiniteSet(S) /\ Cardinality(S) \in Nat /\ Cardinality(S) <= Cardinality(Worker)
         /\ Cardinality(Worker) \in Nat
BY FS_Subset, FS_CardinalityType

LEMMA Fewer ==
  ASSUME NEW S \in SUBSET Worker, NEW T \in SUBSET S
  PROVE  Cardinality(T) <= Cardinality(S) /\ \A w \in S \ T : Cardinality(T) < Cardinality(S)
<1>1. IsFiniteSet(S) /\ IsFiniteSet(T) /\ Cardinality(S) \in Nat /\ Cardinality(T) \in Nat
  BY ArmedFinite
<1>2. Cardinality(T) <= Cardinality(S)
  BY <1>1, FS_Subset
<1>3. ASSUME NEW w \in S \ T PROVE Cardinality(T) < Cardinality(S)
  <2>1. IsFiniteSet(S \ {w}) /\ Cardinality(S \ {w}) = Cardinality(S) - 1
    BY <1>1, <1>3, FS_RemoveElement
  <2>2. Cardinality(T) <= Cardinality(S \ {w})
    <3>1. T \subseteq S \ {w}
      BY <1>3
    <3> QED
      BY <2>1, <3>1, FS_Subset
  <2> QED
    BY <1>1, <2>1, <2>2
<1> QED
  BY <1>2, <1>3

(* Nobody but the switch arms a worker while copying is off.                *)
LEMMA OffQuiet ==
  ASSUME TypeInv, OffInv, setting' = setting, off' = off,
         \A x \in Executor :
           proc'[x].step \in Armed => proc[x].step \in Armed \/ setting.enabled
  PROVE  OffInv'
<1>1. CASE setting.enabled
  BY <1>1 DEF OffInv
<1>2. CASE ~setting.enabled
  <2>1. ArmedWorkers' \subseteq ArmedWorkers /\ ArmedWorkers \subseteq Worker
    BY <1>2 DEF ArmedWorkers, Executor
  <2>2. Cardinality(ArmedWorkers') <= Cardinality(ArmedWorkers)
    BY <2>1, Fewer
  <2>3. /\ Cardinality(ArmedWorkers') \in Nat /\ Cardinality(ArmedWorkers) \in Nat
        /\ Cardinality(Worker) \in Nat /\ off \in Nat
    BY <2>1, ArmedFinite DEF TypeInv
  <2> QED
    BY <1>2, <2>2, <2>3 DEF OffInv
<1> QED
  BY <1>1, <1>2

LEMMA OffStep == ASSUME TypeInv, OffInv, [Next]_vars PROVE OffInv'
<1>1. CASE Deliver \/ UserMarksRead \/ UNCHANGED vars
  BY <1>1, OffQuiet DEF Deliver, UserMarksRead, vars
<1>2. CASE ChangeSetting
  <2>1. CASE setting'.enabled = setting.enabled
    <3>1. off' = off /\ proc' = proc
      BY <1>2, <2>1 DEF ChangeSetting
    <3>2. ArmedWorkers' = ArmedWorkers
      BY <3>1 DEF ArmedWorkers
    <3> QED
      BY <2>1, <3>1, <3>2 DEF OffInv
  <2>2. CASE setting'.enabled # setting.enabled
    <3>1. off' = 0
      BY <1>2, <2>2 DEF ChangeSetting
    <3>2. /\ Cardinality(ArmedWorkers') \in Nat
          /\ Cardinality(ArmedWorkers') <= Cardinality(Worker)
      BY ArmedFinite DEF ArmedWorkers
    <3> QED
      BY <3>1, <3>2 DEF OffInv
  <2> QED
    BY <2>1, <2>2
<1>3. ASSUME NEW e \in Executor, Disarms(e),
             Fault(e) \/ Crash(e) \/ ReadTargets(e) \/ Poll(e) \/ Request(e)
      PROVE  OffInv'
  <2>1. setting' = setting /\ off' = off
    BY <1>3 DEF Fault, Crash, ReadTargets, Poll, Polls, Request
  <2>2. \A x \in Executor : proc'[x].step \in Armed => proc[x].step \in Armed
    BY <1>3 DEF Disarms, Armed
  <2> QED
    BY <2>1, <2>2, OffQuiet
<1>4. ASSUME NEW e \in Executor, Execute(e), Moves(e) PROVE OffInv'
  <2>1. setting' = setting
    BY <1>4 DEF Execute, NotFound, Reject, Accept, Accepts, LoadRow, LoadFile, Fill, FillRefused, SaveFile,
                SaveRow, SavesRow, BookTrade, MarkRead, Marks, RecordExecuted, RecordFailed, FailsWith
  <2>2. \A x \in Executor : proc'[x].step \in Armed => proc[x].step \in Armed \/ setting.enabled
    BY <1>4 DEF Moves
  <2>3. CASE off' = off
    BY <2>1, <2>2, <2>3, OffQuiet
  <2>4. CASE off' # off
    <3>1. BookTrade(e)
      BY <1>4, <2>4
         DEF Execute, NotFound, Reject, Accept, Accepts, LoadRow, LoadFile, Fill, FillRefused, SaveFile,
             SaveRow, SavesRow, MarkRead, Marks, RecordExecuted, RecordFailed, FailsWith
    <3>2. e \in Worker /\ ~setting.enabled /\ off' = off + 1 /\ At(e, "tradedb")
      BY <2>4, <3>1 DEF BookTrade
    <3>3. proc'[e].step = "mark"
      BY <1>4, <3>1 DEF Moves
    <3>4. /\ ArmedWorkers' \subseteq ArmedWorkers /\ ArmedWorkers \subseteq Worker
          /\ e \in ArmedWorkers \ ArmedWorkers'
      BY <2>2, <3>2, <3>3 DEF ArmedWorkers, Armed, Executor
    <3>5. Cardinality(ArmedWorkers') < Cardinality(ArmedWorkers)
      BY <3>4, Fewer
    <3>6. /\ Cardinality(ArmedWorkers') \in Nat /\ Cardinality(ArmedWorkers) \in Nat
          /\ Cardinality(Worker) \in Nat /\ off \in Nat
      BY <3>4, ArmedFinite DEF TypeInv
    <3> QED
      BY <2>1, <3>2, <3>5, <3>6 DEF OffInv
  <2> QED
    BY <2>3, <2>4
<1> QED
  BY <1>1, <1>2, <1>3, <1>4, StepCases

(* Switching copying off stops the workers: each may still book the item it *)
(* had checked, and no more.                                                *)
THEOREM DisablingHolds == Spec => []DisablingStops
<1>1. Init => OffInv
  BY DEF Init, OffInv
<1>2. TypeInv /\ OffInv /\ [Next]_vars => (TypeInv /\ OffInv)'
  BY TypeStep, OffStep
<1>3. TypeInv /\ OffInv => DisablingStops
  <2> SUFFICES ASSUME TypeInv, OffInv PROVE off <= Cardinality(Worker)
    BY DEF DisablingStops
  <2>1. Cardinality(ArmedWorkers) \in Nat /\ Cardinality(Worker) \in Nat /\ off \in Nat
    BY ArmedFinite DEF ArmedWorkers, TypeInv
  <2> QED
    BY <2>1 DEF OffInv
<1> QED
  BY <1>1, <1>2, <1>3, InitType, PTL DEF Spec

-----------------------------------------------------------------------------
(* A single worker that nothing interrupts and beside which nobody asks.    *)
Undisturbed == Interruptions = 0 /\ budget.requests = 0

Sums(acct) == acct \in Account /\ acct.cash + acct.qty = Start

(* What row and file hold is what the worker took from them, except between *)
(* its writes.                                                              *)
AccountInv(w) ==
  /\ db # NoRow => Sums(db)
  /\ At(w, "file") => db # NoRow /\ proc[w].acct = db /\ file \in {db, NoRow}
                      /\ (file = NoRow => db = NewAccount)
  /\ At(w, "fill") => db # NoRow /\ file = db /\ proc[w].acct = db
  /\ At(w, "savefile") => Sums(proc[w].acct)
  /\ At(w, "savedb") => Sums(proc[w].acct) /\ file = proc[w].acct
  /\ proc[w].step \notin {"file", "savedb"} => file = db

AloneInv(w) ==
  Undisturbed => (\A a \in Api : At(a, "idle")) /\ AccountInv(w)

LEMMA StillUndisturbed ==
  ASSUME TypeInv, [Next]_vars, Undisturbed'
  PROVE  /\ Undisturbed
         /\ \A e \in Executor : ~Fault(e) /\ ~Crash(e)
         /\ \A a \in Api : ~Request(a)
<1>1. budget = [changes |-> budget.changes, reads |-> budget.reads, requests |-> budget.requests,
                faults |-> budget.faults, crashes |-> budget.crashes]
      /\ budget.requests \in Nat /\ budget.faults \in Nat /\ budget.crashes \in Nat
  BY DEF TypeInv, Budget
<1>2. ASSUME NEW kind \in {"changes", "reads", "requests", "faults", "crashes"}, Spend(kind)
      PROVE  /\ Undisturbed
             /\ kind \notin {"requests", "faults", "crashes"}
  BY <1>1, <1>2 DEF Spend, Undisturbed, Interruptions
<1>3. budget' = budget \/ \E kind \in {"changes", "reads", "requests", "faults", "crashes"} : Spend(kind)
  BY DEF Next, Loop, Execute, vars, Deliver, UserMarksRead, ChangeSetting, Request, Fault, Crash, ReadTargets,
         Poll, Polls, NotFound, Reject, Accept, Accepts, LoadRow, LoadFile, Fill, FillRefused, SaveFile,
         SaveRow, SavesRow, BookTrade, MarkRead, Marks, RecordExecuted, RecordFailed, FailsWith
<1> QED
  BY <1>2, <1>3 DEF Fault, Crash, Request, Undisturbed, Interruptions

LEMMA FilledSums ==
  ASSUME NEW acct, Sums(acct), NEW side, Fillable(acct, side)
  PROVE  Sums(Filled(acct, side))
<1>1. acct \in Account /\ Filled(acct, side) \in Account
  BY FilledType DEF Sums
<1>2. acct.cash \in Nat /\ acct.qty \in Nat
  BY <1>1 DEF Account
<1> QED
  BY <1>1, <1>2 DEF Sums, Filled

LEMMA AccountStep ==
  ASSUME TypeInv, NEW w \in Executor, AccountInv(w), Execute(w),
         \A x \in Executor \ {w} : At(x, "idle")
  PROVE  AccountInv(w)'
<1>1. CASE NotFound(w) \/ Reject(w) \/ RecordExecuted(w) \/ RecordFailed(w)
  <2>1. NextItem(w) /\ inbox' = inbox /\ proc[w].step \in {"check", "record", "failed"}
        /\ db' = db /\ file' = file
    BY <1>1 DEF NotFound, Reject, RecordExecuted, RecordFailed, FailsWith
  <2>2. proc'[w].step \in {"idle", "check"}
    BY <2>1, NextItemStep
  <2> QED
    BY <2>1, <2>2 DEF AccountInv
<1>2. CASE Accept(w) \/ FillRefused(w) \/ BookTrade(w) \/ MarkRead(w)
  <2>1. PICK step \in {"load", "failed", "mark", "record"} :
          Go(w, step) /\ db' = db /\ file' = file /\ proc[w].step \notin {"file", "savedb"}
    BY <1>2 DEF Accept, Accepts, FillRefused, BookTrade, MarkRead, Marks
  <2>2. proc'[w].step = step
    BY <2>1 DEF Go, TypeInv, ProcOK, Proc
  <2> QED
    BY <2>1, <2>2 DEF AccountInv
<1>3. CASE SaveFile(w)
  <2>1. proc'[w].step = "savedb" /\ proc'[w].acct = proc[w].acct
    BY <1>3 DEF SaveFile, Go, TypeInv, ProcOK, Proc
  <2> QED
    BY <1>3, <2>1 DEF SaveFile, AccountInv, Sums
<1>4. CASE SaveRow(w)
  <2>1. proc'[w].step = "tradedb" /\ proc'[w].acct = proc[w].acct
    BY <1>4 DEF SaveRow, SavesRow, Go, TypeInv, ProcOK, Proc
  <2> QED
    BY <1>4, <2>1 DEF SaveRow, SavesRow, AccountInv, Sums
<1>5. CASE LoadRow(w)
  <2>1. proc[w] \in Proc /\ proc'[w] = [proc[w] EXCEPT !.step = "file", !.acct = db']
    BY <1>5, LoadRowStep, Types
  <2>2. proc'[w].step = "file" /\ proc'[w].acct = db'
    BY <2>1 DEF Proc
  <2>3. db' \in Account /\ db' # NoRow
    BY <1>5, LoadRowStep, NoRowIsNoAccount
  <2>4. file = db /\ file' = file /\ db' = IF db = NoRow THEN NewAccount ELSE db
    BY <1>5 DEF LoadRow, AccountInv
  <2>5. Sums(NewAccount)
    BY DEF Sums, NewAccount, Account
  <2> QED
    BY <2>2, <2>3, <2>4, <2>5 DEF AccountInv, Sums
<1>6. CASE LoadFile(w)
  <2>1. proc[w] \in Proc /\ proc'[w] = [proc[w] EXCEPT !.step = "fill",
                                        !.acct.cash = IF @ = 0 THEN file'.cash ELSE @]
    BY <1>6, LoadFileStep, Types
  <2>2. /\ db # NoRow /\ Sums(db) /\ proc[w].acct = db /\ file \in {db, NoRow}
        /\ file = NoRow => db = NewAccount
    BY <1>6 DEF LoadFile, AccountInv
  <2>3. {x \in Executor \ {w} : At(x, "savefile")} = {}
    OBVIOUS
  <2>4. file' = db /\ db' = db
    BY <1>6, <2>2, <2>3 DEF LoadFile
  <2>5. [db EXCEPT !.cash = IF @ = 0 THEN db.cash ELSE @] = db
    BY <2>2 DEF Sums, Account
  <2>6. proc'[w].step = "fill" /\ proc'[w].acct = db
    BY <2>1, <2>2, <2>4, <2>5 DEF Proc
  <2> QED
    BY <2>2, <2>4, <2>6 DEF AccountInv, Sums
<1>7. CASE Fill(w)
  <2>1. proc[w] \in Proc
        /\ proc'[w] = [proc[w] EXCEPT !.step = "savefile", !.acct = Filled(@, inbox[Cur(w)])]
    BY <1>7, FillStep, Types
  <2>2. proc'[w].step = "savefile" /\ proc'[w].acct = Filled(proc[w].acct, inbox[Cur(w)])
    BY <2>1 DEF Proc
  <2>3. Sums(db) /\ proc[w].acct = db /\ file = db /\ db' = db /\ file' = file
        /\ Fillable(proc[w].acct, inbox[Cur(w)])
    BY <1>7 DEF Fill, AccountInv
  <2>4. Sums(proc'[w].acct)
    BY <2>2, <2>3, FilledSums
  <2> QED
    BY <2>2, <2>3, <2>4 DEF AccountInv, Sums
<1> QED
  BY <1>1, <1>2, <1>3, <1>4, <1>5, <1>6, <1>7 DEF Execute

LEMMA AloneStep ==
  ASSUME NEW w, Worker = {w}, TypeInv, AloneInv(w), [Next]_vars
  PROVE  AloneInv(w)'
<1> SUFFICES ASSUME Undisturbed' PROVE (\A a \in Api : At(a, "idle")') /\ AccountInv(w)'
  BY DEF AloneInv
<1>1. /\ Undisturbed
      /\ \A e \in Executor : ~Fault(e) /\ ~Crash(e)
      /\ \A a \in Api : ~Request(a)
  BY StillUndisturbed
<1>2. w \in Executor /\ (\A x \in Executor \ {w} : At(x, "idle")) /\ AccountInv(w)
  BY <1>1 DEF AloneInv, Executor
<1>3. CASE Deliver \/ UserMarksRead \/ ChangeSetting \/ UNCHANGED vars
  <2>1. proc' = proc /\ db' = db /\ file' = file
    BY <1>3 DEF Deliver, UserMarksRead, ChangeSetting, vars
  <2> QED
    BY <1>2, <2>1 DEF AccountInv, Sums, Executor
<1>4. ASSUME NEW e \in Executor, Execute(e), Moves(e)
      PROVE  (\A a \in Api : At(a, "idle")') /\ AccountInv(w)'
  <2>1. ~At(e, "idle")
    BY <1>4 DEF Execute, NotFound, Reject, Accept, Accepts, LoadRow, LoadFile, Fill, FillRefused, SaveFile,
                SaveRow, SavesRow, BookTrade, MarkRead, Marks, RecordExecuted, RecordFailed, FailsWith
  <2>2. e = w
    BY <1>2, <2>1
  <2>3. AccountInv(w)'
    BY <1>2, <1>4, <2>2, AccountStep
  <2> QED
    BY <1>2, <1>4, <2>2, <2>3 DEF Moves, Executor
<1>5. ASSUME NEW e \in Worker, Disarms(e), ReadTargets(e) \/ Poll(e)
      PROVE  (\A a \in Api : At(a, "idle")') /\ AccountInv(w)'
  <2>1. e = w /\ db' = db /\ file' = file /\ proc[w].step \in {"idle", "poll"}
    BY <1>5 DEF ReadTargets, Poll, Polls
  <2> QED
    BY <1>2, <1>5, <2>1 DEF Disarms, AccountInv, Executor
<1> QED
  BY <1>1, <1>3, <1>4, <1>5, StepCases

(* A single worker that nothing interrupts and no request runs beside makes *)
(* and loses no money, although row and file are written and read apart.    *)
THEOREM MoneyIsConserved ==
  ASSUME NEW w, Worker = {w}
  PROVE  Spec => []ConservedUndisturbed
<1>1. Init => AloneInv(w)
  BY DEF Init, AloneInv, AccountInv, Idle, Executor
<1>2. TypeInv /\ AloneInv(w) /\ [Next]_vars => (TypeInv /\ AloneInv(w))'
  BY TypeStep, AloneStep
<1>3. AloneInv(w) => ConservedUndisturbed
  BY DEF AloneInv, AccountInv, Undisturbed, ConservedUndisturbed, Conserved, Sums
<1> QED
  BY <1>1, <1>2, <1>3, InitType, PTL DEF Spec

-----------------------------------------------------------------------------
(* A single worker and no requests: what it repeats.                        *)
Distinct(queue) == \A i, j \in DOMAIN queue : i # j => queue[i] # queue[j]

(* What the worker may still book: what is unread, and what is left of its  *)
(* queue, but not the item it is just marking.                              *)
Rest(w) ==
  Range(IF proc[w].step \in {"mark", "record", "failed"} THEN Tail(proc[w].queue) ELSE proc[w].queue)

MayBook(w) == Rest(w) \cup (IF At(w, "mark") THEN unread \ {Cur(w)} ELSE unread)

(* Those among them that have a trade already were interrupted.             *)
Again(w) == {i \in Item : i \in MayBook(w) /\ trades[i] > 0}

ApiRests == \A a \in Api : At(a, "idle")

TradedInv == \A i \in Item : trades[i] > 0 => i \in DOMAIN inbox

RepeatInv(w) ==
  budget.requests = 0 =>
    /\ ApiRests /\ TradedInv /\ Distinct(proc[w].queue)
    /\ Repeats + Cardinality(Again(w)) <= Interruptions

LEMMA StillAlone ==
  ASSUME TypeInv, [Next]_vars, budget'.requests = 0
  PROVE  budget.requests = 0 /\ \A a \in Api : ~Request(a)
<1>1. budget = [changes |-> budget.changes, reads |-> budget.reads, requests |-> budget.requests,
                faults |-> budget.faults, crashes |-> budget.crashes]
      /\ budget.requests \in Nat /\ budget.faults \in Nat /\ budget.crashes \in Nat
  BY DEF TypeInv, Budget
<1>2. ASSUME NEW kind \in {"changes", "reads", "requests", "faults", "crashes"}, Spend(kind)
      PROVE  budget.requests = 0 /\ kind # "requests"
  BY <1>1, <1>2 DEF Spend
<1>3. budget' = budget \/ \E kind \in {"changes", "reads", "requests", "faults", "crashes"} : Spend(kind)
  BY DEF Next, Loop, Execute, vars, Deliver, UserMarksRead, ChangeSetting, Request, Fault, Crash, ReadTargets,
         Poll, Polls, NotFound, Reject, Accept, Accepts, LoadRow, LoadFile, Fill, FillRefused, SaveFile,
         SaveRow, SavesRow, BookTrade, MarkRead, Marks, RecordExecuted, RecordFailed, FailsWith
<1> QED
  BY <1>2, <1>3 DEF Request

LEMMA MoreInterruptions ==
  ASSUME TypeInv, TypeInv', NEW e \in Executor, Fault(e) \/ Crash(e)
  PROVE  Interruptions' = Interruptions + 1
<1>1. budget \in Budget /\ (Spend("faults") \/ Spend("crashes"))
  BY DEF Fault, Crash, TypeInv
<1>2. budget.faults \in Nat /\ budget.crashes \in Nat
  BY <1>1 DEF Budget
<1>3. \/ budget'.faults = budget.faults + 1 /\ budget'.crashes = budget.crashes
      \/ budget'.faults = budget.faults /\ budget'.crashes = budget.crashes + 1
  BY <1>1 DEF Spend, Budget
<1> QED
  BY <1>2, <1>3 DEF Interruptions

LEMMA InterruptionsType == ASSUME TypeInv PROVE Interruptions \in Nat
<1>1. budget.faults \in Nat /\ budget.crashes \in Nat
  BY DEF TypeInv, Budget
<1> QED
  BY <1>1 DEF Interruptions

(* Without requests it is the worker, the user or the fan-out that acts.    *)
LEMMA AloneCases ==
  ASSUME NEW w, Worker = {w}, TypeInv, [Next]_vars, budget'.requests = 0, ApiRests
  PROVE  /\ TypeInv' /\ ApiRests' /\ w \in Executor
         /\ \/ Deliver \/ UserMarksRead \/ ChangeSetting \/ UNCHANGED vars
            \/ Execute(w) /\ Moves(w)
            \/ Disarms(w) /\ (ReadTargets(w) \/ Poll(w))
            \/ Disarms(w) /\ (Fault(w) \/ Crash(w))
<1>1. TypeInv' /\ w \in Executor /\ \A x \in Executor \ {w} : At(x, "idle")
  BY TypeStep DEF Executor, ApiRests
<1>2. \A a \in Api : ~Request(a)
  BY StillAlone
<1>3. ASSUME NEW e \in Executor, Execute(e) \/ Fault(e) \/ Crash(e) PROVE e = w
  <2>1. ~At(e, "idle")
    BY <1>3 DEF Execute, NotFound, Reject, Accept, Accepts, LoadRow, LoadFile, Fill, FillRefused, SaveFile,
                SaveRow, SavesRow, BookTrade, MarkRead, Marks, RecordExecuted, RecordFailed, FailsWith,
                Fault, Crash, InTry
  <2> QED
    BY <1>1, <2>1
<1>4. \/ Deliver \/ UserMarksRead \/ ChangeSetting \/ UNCHANGED vars
      \/ Execute(w) /\ Moves(w)
      \/ Disarms(w) /\ (ReadTargets(w) \/ Poll(w))
      \/ Disarms(w) /\ (Fault(w) \/ Crash(w))
  BY <1>2, <1>3, StepCases
<1>5. proc' = proc \/ \A x \in Executor \ {w} : proc'[x] = proc[x]
  BY <1>4 DEF Deliver, UserMarksRead, ChangeSetting, vars, Moves, Disarms
<1>6. ApiRests'
  BY <1>5 DEF ApiRests, Executor
<1> QED
  BY <1>1, <1>4, <1>6

LEMMA ItemsFinite == IsFiniteSet(Item) /\ \A T \in SUBSET Item :
                        IsFiniteSet(T) /\ Cardinality(T) \in Nat
<1>1. IsFiniteSet(Item)
  BY FS_Interval DEF Item
<1> QED
  BY <1>1, FS_Subset, FS_CardinalityType

LEMMA RepeatsType == ASSUME TypeInv PROVE Repeats \in Nat
<1>1. trades \in [Item -> Nat]
  BY DEF TypeInv
<1> DEFINE f == [i \in Item |-> IF trades[i] > 1 THEN trades[i] - 1 ELSE 0]
<1>2. \A i \in Item : f[i] \in Int /\ f[i] >= 0
  BY <1>1
<1> HIDE DEF f
<1>3. SumFunctionOnSet(f, Item) \in Int /\ SumFunctionOnSet(f, Item) >= 0
  BY <1>2, ItemsFinite, SumType
<1> QED
  BY <1>3 DEF Repeats, f

(* What a queue holds, its first item apart.                                *)
LEMMA QueueSplits ==
  ASSUME NEW queue, QueueOK(queue), queue # <<>>
  PROVE  /\ Range(Tail(queue)) \subseteq Range(queue)
         /\ Distinct(queue) => Distinct(Tail(queue)) /\ Head(queue) \notin Range(Tail(queue))
         /\ Head(queue) \in Range(queue)
         /\ ~(Len(queue) > 1) => Range(Tail(queue)) = {}
<1>1. queue \in Seq(Item) /\ Len(queue) \in Nat \ {0} /\ DOMAIN queue = 1..Len(queue) /\ Head(queue) = queue[1]
  BY DEF QueueOK
<1>2. /\ Tail(queue) \in Seq(Item) /\ Len(Tail(queue)) = Len(queue) - 1
      /\ DOMAIN Tail(queue) = 1..(Len(queue) - 1)
      /\ \A i \in 1..(Len(queue) - 1) : Tail(queue)[i] = queue[i + 1]
  BY <1>1
<1>3. \A i \in 1..(Len(queue) - 1) : i + 1 \in DOMAIN queue /\ i + 1 # 1
  BY <1>1
<1>4. 1 \in DOMAIN queue
  BY <1>1
<1> DEFINE t == Tail(queue)
<1>5. DOMAIN t = 1..(Len(queue) - 1) /\ \A i \in DOMAIN t : t[i] = queue[i + 1]
  BY <1>2
<1> HIDE DEF t
<1>6. Range(t) \subseteq Range(queue)
  BY <1>3, <1>5 DEF Range
<1>7. ASSUME Distinct(queue) PROVE Distinct(t)
  <2> SUFFICES ASSUME NEW i \in DOMAIN t, NEW j \in DOMAIN t, i # j PROVE t[i] # t[j]
    BY DEF Distinct
  <2>1. i + 1 \in DOMAIN queue /\ j + 1 \in DOMAIN queue /\ i + 1 # j + 1
    BY <1>3, <1>5
  <2> QED
    BY <1>5, <1>7, <2>1 DEF Distinct
<1>8. ASSUME Distinct(queue) PROVE queue[1] \notin Range(t)
  <2> SUFFICES ASSUME NEW i \in DOMAIN t PROVE t[i] # queue[1]
    BY DEF Range
  <2> QED
    BY <1>3, <1>4, <1>5, <1>8 DEF Distinct
<1>9. queue[1] \in Range(queue)
  BY <1>4 DEF Range
<1>10. ASSUME ~(Len(queue) > 1) PROVE Range(t) = {}
  <2>1. DOMAIN t = {}
    BY <1>1, <1>5, <1>10
  <2> QED
    BY <2>1 DEF Range
<1> QED
  BY <1>1, <1>6, <1>7, <1>8, <1>9, <1>10 DEF t

(* Nothing is booked and no more may be booked.                             *)
LEMMA RepeatQuiet ==
  ASSUME NEW w, TypeInv, TypeInv', RepeatInv(w), budget.requests = 0, trades' = trades,
         Interruptions' \in {Interruptions, Interruptions + 1}, DOMAIN inbox \subseteq DOMAIN inbox', ApiRests',
         Distinct(proc[w].queue)', Again(w)' \subseteq Again(w)
  PROVE  RepeatInv(w)'
<1>1. Again(w) \in SUBSET Item /\ Again(w)' \in SUBSET Item
  BY DEF Again
<1>2. Cardinality(Again(w)') <= Cardinality(Again(w))
  BY <1>1, ItemsFinite, FS_Subset
<1>3. Repeats' = Repeats
  BY DEF Repeats
<1>4. /\ Cardinality(Again(w)) \in Nat /\ Cardinality(Again(w)') \in Nat /\ Repeats \in Nat
      /\ Interruptions \in Nat
  BY <1>1, ItemsFinite, RepeatsType, InterruptionsType
<1>5. Repeats' + Cardinality(Again(w)') <= Interruptions'
  BY <1>2, <1>3, <1>4 DEF RepeatInv
<1>6. TradedInv'
  BY DEF RepeatInv, TradedInv
<1> QED
  BY <1>5, <1>6 DEF RepeatInv

(* An interruption gives at most the item in hand back.                     *)
LEMMA RepeatInterrupted ==
  ASSUME NEW w, TypeInv, TypeInv', RepeatInv(w), budget.requests = 0, trades' = trades,
         Interruptions' = Interruptions + 1, DOMAIN inbox \subseteq DOMAIN inbox', ApiRests',
         Distinct(proc[w].queue)', NEW x \in Item, Again(w)' \subseteq Again(w) \cup {x}
  PROVE  RepeatInv(w)'
<1>1. Again(w) \in SUBSET Item /\ Again(w)' \in SUBSET Item /\ Again(w) \cup {x} \in SUBSET Item
  BY DEF Again
<1>2. Cardinality(Again(w)') <= Cardinality(Again(w) \cup {x})
  BY <1>1, ItemsFinite, FS_Subset
<1>3. Cardinality(Again(w) \cup {x}) <= Cardinality(Again(w)) + 1
  BY <1>1, ItemsFinite, FS_AddElement
<1>4. Repeats' = Repeats
  BY DEF Repeats
<1>5. /\ Cardinality(Again(w)) \in Nat /\ Cardinality(Again(w)') \in Nat /\ Repeats \in Nat
      /\ Interruptions \in Nat /\ Cardinality(Again(w) \cup {x}) \in Nat
  BY <1>1, ItemsFinite, RepeatsType, InterruptionsType
<1>6. Repeats' + Cardinality(Again(w)') <= Interruptions'
  BY <1>2, <1>3, <1>4, <1>5 DEF RepeatInv
<1>7. TradedInv'
  BY DEF RepeatInv, TradedInv
<1> QED
  BY <1>6, <1>7 DEF RepeatInv

(* On to the next item: the worker may book what it might before.           *)
LEMMA NextItemBooks ==
  ASSUME TypeInv, NEW w \in Executor, NextItem(w), inbox' = inbox, ~At(w, "idle"), trades' = trades,
         unread' = unread, Distinct(proc[w].queue)
  PROVE  /\ Distinct(proc[w].queue)'
         /\ Again(w)' \subseteq Again(w) \cup (IF At(w, "mark") THEN {Cur(w)} ELSE {})
<1>1. proc'[w].step \in {"idle", "check"}
  BY NextItemStep
<1>2. QueueOK(proc[w].queue) /\ proc \in [Executor -> Proc]
  BY Types DEF TypeInv, ProcOK
<1>3. MayBook(w)' = Range(proc'[w].queue) \cup unread
  BY <1>1 DEF MayBook, Rest
<1>4. CASE Len(proc[w].queue) > 1
  <2>1. proc'[w] = [Idle EXCEPT !.step = "check", !.queue = Tail(proc[w].queue)]
    BY <1>2, <1>4 DEF NextItem
  <2>2. proc'[w].queue = Tail(proc[w].queue) /\ proc[w].queue # <<>>
    BY <1>2, <1>4, <2>1 DEF Idle, QueueOK
  <2>3. Distinct(proc[w].queue)' /\ Range(Tail(proc[w].queue)) \subseteq Rest(w)
    BY <1>2, <2>2, QueueSplits DEF Rest
  <2> QED
    BY <1>3, <2>2, <2>3 DEF Again, MayBook
<1>5. CASE ~(Len(proc[w].queue) > 1)
  <2>1. proc'[w] = Idle
    BY <1>2, <1>5 DEF NextItem
  <2>2. proc'[w].queue = <<>>
    BY <2>1, IdleType
  <2>3. Distinct(proc[w].queue)' /\ Range(proc'[w].queue) = {}
    BY <2>2 DEF Distinct, Range
  <2> QED
    BY <1>3, <2>3 DEF Again, MayBook
<1> QED
  BY <1>4, <1>5

LEMMA RepeatExecute ==
  ASSUME NEW w \in Executor, TypeInv, RepeatInv(w), budget'.requests = 0, ApiRests', Execute(w), Moves(w)
  PROVE  RepeatInv(w)'
<1>0. TypeInv' /\ budget' = budget /\ inbox' = inbox
  BY DEF Moves, Execute, NotFound, Reject, Accept, Accepts, LoadRow, LoadFile, Fill, FillRefused, SaveFile,
         SaveRow, SavesRow, BookTrade, MarkRead, Marks, RecordExecuted, RecordFailed, FailsWith
<1>1. Interruptions' = Interruptions /\ budget.requests = 0 /\ Distinct(proc[w].queue)
  BY <1>0 DEF Interruptions, RepeatInv
<1>2. CASE NotFound(w) \/ Reject(w) \/ RecordExecuted(w) \/ RecordFailed(w)
  <2>1. NextItem(w) /\ trades' = trades /\ unread' = unread /\ ~At(w, "idle") /\ ~At(w, "mark")
    BY <1>2 DEF NotFound, Reject, RecordExecuted, RecordFailed, FailsWith
  <2> QED
    BY <1>0, <1>1, <2>1, NextItemBooks, RepeatQuiet
<1>3. proc[w].step \notin {"idle", "poll"}
  BY DEF Execute, NotFound, Reject, Accept, Accepts, LoadRow, LoadFile, Fill, FillRefused, SaveFile,
         SaveRow, SavesRow, BookTrade, MarkRead, Marks, RecordExecuted, RecordFailed, FailsWith
<1>4. /\ proc[w].queue # <<>> /\ QueueOK(proc[w].queue) /\ Cur(w) \in Item /\ Cur(w) = Head(proc[w].queue)
      /\ proc \in [Executor -> Proc] /\ trades \in [Item -> Nat]
  BY <1>3, Types, InHand DEF TypeInv, ProcOK, Cur
<1>5. CASE LoadRow(w) \/ LoadFile(w) \/ Fill(w) \/ Accept(w) \/ SaveFile(w) \/ SaveRow(w)
  <2>1. proc'[w].queue = proc[w].queue /\ trades' = trades /\ unread' = unread
    BY <1>4, <1>5 DEF LoadRow, LoadFile, Fill, Accept, Accepts, SaveFile, SaveRow, SavesRow, Go, Proc
  <2>2. proc'[w].step \notin {"mark", "record", "failed"} /\ proc[w].step \notin {"mark", "record", "failed"}
    BY <1>4, <1>5 DEF LoadRow, LoadFile, Fill, Accept, Accepts, SaveFile, SaveRow, SavesRow, Go, Proc
  <2>3. Again(w)' = Again(w)
    BY <2>1, <2>2 DEF Again, MayBook, Rest
  <2> QED
    BY <1>0, <1>1, <2>1, <2>3, RepeatQuiet
<1>6. CASE FillRefused(w)
  <2>1. /\ proc'[w].queue = proc[w].queue /\ trades' = trades /\ unread' = unread
        /\ At(w, "fill") /\ proc'[w].step = "failed"
    BY <1>4, <1>6 DEF FillRefused, Go, Proc
  <2>2. Again(w)' \subseteq Again(w)
    BY <1>4, <2>1, QueueSplits DEF Again, MayBook, Rest
  <2> QED
    BY <1>0, <1>1, <2>1, <2>2, RepeatQuiet
<1>7. CASE MarkRead(w)
  <2>1. /\ proc'[w].queue = proc[w].queue /\ trades' = trades /\ unread' = unread \ {Cur(w)}
        /\ At(w, "mark") /\ proc'[w].step = "record"
    BY <1>4, <1>7 DEF MarkRead, Marks, Go, Proc
  <2>2. Again(w)' \subseteq Again(w)
    BY <2>1 DEF Again, MayBook, Rest
  <2> QED
    BY <1>0, <1>1, <2>1, <2>2, RepeatQuiet
<1>8. CASE BookTrade(w)
  <2> DEFINE x == Cur(w)
  <2>1. /\ proc'[w].queue = proc[w].queue /\ trades' = [trades EXCEPT ![x] = @ + 1] /\ unread' = unread
        /\ At(w, "tradedb") /\ proc'[w].step = "mark" /\ Cur(w)' = x
    BY <1>4, <1>8 DEF BookTrade, Go, Proc, Cur
  <2>2. x \in Range(proc[w].queue) /\ x \notin Range(Tail(proc[w].queue))
    BY <1>1, <1>4, QueueSplits
  <2>3. Again(w)' \subseteq Again(w) \ {x} /\ (trades[x] > 0 => x \in Again(w))
    <3>1. MayBook(w)' \subseteq MayBook(w) \ {x} /\ x \in MayBook(w)
      BY <1>4, <2>1, <2>2, QueueSplits DEF MayBook, Rest
    <3>2. \A i \in Item \ {x} : trades'[i] = trades[i]
      BY <1>4, <2>1
    <3> QED
      BY <1>4, <3>1, <3>2 DEF Again
  <2>4. Repeats' = Repeats + (IF trades[x] > 0 THEN 1 ELSE 0)
    <3> DEFINE f == [i \in Item |-> IF trades[i] > 1 THEN trades[i] - 1 ELSE 0]
               h == [i \in Item |-> IF trades'[i] > 1 THEN trades'[i] - 1 ELSE 0]
    <3>1. trades[x] \in Nat /\ trades'[x] = trades[x] + 1 /\ \A i \in Item \ {x} : trades'[i] = trades[i]
      BY <1>4, <2>1
    <3>2. (\A i \in Item : f[i] \in Int /\ h[i] \in Int) /\ \A i \in Item \ {x} : h[i] = f[i]
      BY <1>0, <1>4, <3>1 DEF TypeInv
    <3>3. h[x] - f[x] = IF trades[x] > 0 THEN 1 ELSE 0
      BY <1>4, <3>1
    <3>4. f[x] \in Int /\ h[x] \in Int
      BY <1>4, <3>2
    <3>5. Repeats = SumFunctionOnSet(f, Item) /\ Repeats' = SumFunctionOnSet(h, Item)
      BY DEF Repeats
    <3>6. SumFunctionOnSet(h, Item) = SumFunctionOnSet(f, Item) + h[x] - f[x]
      <4> x \in Item
        BY <1>4
      <4> HIDE DEF f, h, x
      <4> QED
        BY <3>2, ItemsFinite, SumChange
    <3> HIDE DEF f, h
    <3>7. Repeats \in Nat
      BY RepeatsType
    <3> QED
      BY <3>3, <3>4, <3>5, <3>6, <3>7
  <2>5. Again(w) \in SUBSET Item /\ Again(w)' \in SUBSET Item
    BY DEF Again
  <2>6. Cardinality(Again(w)') <= Cardinality(Again(w)) - (IF trades[x] > 0 THEN 1 ELSE 0)
    <3>1. Cardinality(Again(w)') <= Cardinality(Again(w) \ {x})
      BY <2>3, <2>5, ItemsFinite, FS_Subset
    <3>2. Cardinality(Again(w) \ {x}) = IF x \in Again(w) THEN Cardinality(Again(w)) - 1
                                                          ELSE Cardinality(Again(w))
      BY <2>5, ItemsFinite, FS_RemoveElement
    <3>3. /\ Cardinality(Again(w)) \in Nat /\ Cardinality(Again(w)') \in Nat
          /\ Cardinality(Again(w) \ {x}) \in Nat
      BY <2>5, ItemsFinite
    <3>4. x \in Again(w) <=> trades[x] > 0
      BY <2>3 DEF Again
    <3> QED
      BY <3>1, <3>2, <3>3, <3>4
  <2>7. TradedInv'
    <3>1. x \in DOMAIN inbox
      BY <1>3, InHand
    <3>2. \A i \in Item \ {x} : trades'[i] = trades[i]
      BY <1>4, <2>1
    <3> QED
      BY <1>0, <1>1, <3>1, <3>2 DEF RepeatInv, TradedInv
  <2>8. /\ Cardinality(Again(w)) \in Nat /\ Cardinality(Again(w)') \in Nat /\ Repeats \in Nat
        /\ Interruptions \in Nat
    BY <2>5, ItemsFinite, RepeatsType, InterruptionsType
  <2>9. Repeats' + Cardinality(Again(w)') <= Interruptions'
    <3>1. Repeats + Cardinality(Again(w)) <= Interruptions
      BY <1>1 DEF RepeatInv
    <3> HIDE DEF x
    <3> QED
      BY <1>1, <2>4, <2>6, <2>8, <3>1
  <2> QED
    BY <1>1, <2>1, <2>7, <2>9 DEF RepeatInv
<1> QED
  BY <1>2, <1>5, <1>6, <1>7, <1>8 DEF Execute

LEMMA RepeatStep ==
  ASSUME NEW w, Worker = {w}, TypeInv, RepeatInv(w), [Next]_vars
  PROVE  RepeatInv(w)'
<1> SUFFICES ASSUME budget'.requests = 0 PROVE RepeatInv(w)'
  BY DEF RepeatInv
<1>0. budget.requests = 0
  BY StillAlone
<1>1. /\ ApiRests /\ TypeInv' /\ ApiRests' /\ w \in Executor /\ Distinct(proc[w].queue)
      /\ \/ Deliver \/ UserMarksRead \/ ChangeSetting \/ UNCHANGED vars
         \/ Execute(w) /\ Moves(w)
         \/ Disarms(w) /\ (ReadTargets(w) \/ Poll(w))
         \/ Disarms(w) /\ (Fault(w) \/ Crash(w))
  BY <1>0, AloneCases DEF RepeatInv
<1>2. CASE Deliver
  <2>1. /\ trades' = trades /\ proc' = proc /\ budget' = budget
        /\ DOMAIN inbox \subseteq DOMAIN inbox'
        /\ \A i \in unread' : i \in unread \/ i \notin DOMAIN inbox
    BY <1>2, DeliverStep DEF Deliver
  <2>2. Again(w)' \subseteq Again(w)
    BY <1>0, <2>1 DEF Again, MayBook, Rest, Cur, RepeatInv, TradedInv
  <2>3. Interruptions' = Interruptions /\ Distinct(proc[w].queue)'
    BY <1>1, <2>1 DEF Interruptions
  <2> QED
    BY <1>0, <1>1, <2>1, <2>2, <2>3, RepeatQuiet
<1>3. CASE UserMarksRead \/ ChangeSetting \/ UNCHANGED vars
  <2>1. /\ trades' = trades /\ proc' = proc /\ inbox' = inbox /\ unread' \subseteq unread
        /\ budget' = budget \/ Spend("reads") \/ Spend("changes")
    BY <1>3 DEF UserMarksRead, ChangeSetting, vars
  <2>2. Interruptions' = Interruptions
    BY <2>1 DEF Interruptions, Spend, TypeInv, Budget
  <2>3. Again(w)' \subseteq Again(w) /\ Distinct(proc[w].queue)'
    BY <1>1, <2>1 DEF Again, MayBook, Rest, Cur
  <2> QED
    BY <1>0, <1>1, <2>1, <2>2, <2>3, RepeatQuiet
<1>4. CASE Execute(w) /\ Moves(w)
  BY <1>1, <1>4, RepeatExecute
<1>5. CASE ReadTargets(w)
  <2>1. /\ trades' = trades /\ inbox' = inbox /\ unread' = unread /\ budget' = budget
        /\ proc'[w].queue = proc[w].queue
        /\ proc'[w].step \notin {"mark", "record", "failed"} /\ At(w, "idle")
    BY <1>1, <1>5 DEF ReadTargets, Go, TypeInv, ProcOK, Proc
  <2>2. Again(w)' \subseteq Again(w) /\ Distinct(proc[w].queue)' /\ Interruptions' = Interruptions
    BY <1>1, <2>1 DEF Again, MayBook, Rest, Interruptions
  <2> QED
    BY <1>0, <1>1, <2>1, <2>2, RepeatQuiet
<1>6. CASE Poll(w)
  <2>1. PICK seq \in SeqOf(unread, MaxItems) : OldestFirst(seq, unread) /\ Polls(w, seq)
    BY <1>6 DEF Poll
  <2>2. PICK n \in 0..MaxItems : seq \in [1..n -> unread]
    BY <2>1 DEF SeqOf
  <2>3. Range(seq) \subseteq unread
    BY <2>2 DEF Range
  <2>4. Distinct(seq)
    <3> SUFFICES ASSUME NEW i \in DOMAIN seq, NEW j \in DOMAIN seq, i # j PROVE seq[i] # seq[j]
      BY DEF Distinct
    <3>1. i \in Int /\ j \in Int /\ unread \subseteq Int
      BY <2>2, Types DEF TypeInv, Item
    <3>2. seq[i] \in Int /\ seq[j] \in Int
      BY <2>2, <3>1
    <3>3. i < j \/ j < i
      BY <3>1
    <3> QED
      BY <2>1, <3>2, <3>3 DEF OldestFirst
  <2>5. /\ trades' = trades /\ inbox' = inbox /\ unread' = unread /\ budget' = budget
        /\ proc'[w] = IF seq = <<>> THEN Idle ELSE [Idle EXCEPT !.step = "check", !.queue = seq]
    BY <1>1, <2>1 DEF Polls, TypeInv, ProcOK
  <2>6. proc'[w].queue = seq /\ proc'[w].step \in {"idle", "check"}
    BY <2>5 DEF Idle
  <2>7. Again(w)' \subseteq Again(w) /\ Distinct(proc[w].queue)' /\ Interruptions' = Interruptions
    <3>1. At(w, "poll")
      BY <1>6 DEF Poll
    <3> QED
      BY <2>3, <2>4, <2>5, <2>6, <3>1 DEF Again, MayBook, Rest, Interruptions
  <2> QED
    BY <1>0, <1>1, <2>5, <2>7, RepeatQuiet
<1>7. CASE Fault(w) \/ Crash(w)
  <2>1. /\ trades' = trades /\ inbox' = inbox /\ unread' = unread /\ proc[w].step # "idle"
        /\ Interruptions' = Interruptions + 1
    BY <1>1, <1>7, MoreInterruptions DEF Fault, Crash, InTry
  <2>2. /\ Distinct(proc[w].queue)'
        /\ Again(w)' \subseteq Again(w) \cup (IF At(w, "mark") THEN {Cur(w)} ELSE {})
    <3>1. CASE Fault(w) /\ proc[w].step \notin InTry
      <4>1. NextItem(w)
        BY <3>1 DEF Fault
      <4> QED
        BY <1>1, <2>1, <4>1, NextItemBooks
    <3>2. CASE Fault(w) /\ proc[w].step \in InTry
      <4>1. proc'[w].queue = proc[w].queue /\ proc'[w].step = "failed"
        BY <1>1, <3>2 DEF Fault, Go, TypeInv, ProcOK, Proc
      <4>2. proc[w].queue # <<>> /\ QueueOK(proc[w].queue)
        BY <1>1, <3>2, Types DEF TypeInv, ProcOK, InTry
      <4>3. Rest(w)' \subseteq Rest(w)
        BY <4>1, <4>2, QueueSplits DEF Rest
      <4> QED
        BY <1>1, <2>1, <4>1, <4>3 DEF Again, MayBook
    <3>3. CASE Crash(w)
      <4>1. proc'[w].queue = <<>> /\ proc'[w].step = "idle"
        BY <1>1, <3>3, IdleType DEF Crash, TypeInv, ProcOK
      <4>2. Distinct(proc[w].queue)' /\ Rest(w)' = {}
        BY <4>1 DEF Distinct, Rest, Range
      <4> QED
        BY <2>1, <4>1, <4>2 DEF Again, MayBook
    <3> QED
      BY <1>7, <3>1, <3>2, <3>3
  <2>3. CASE At(w, "mark")
    <3>1. Cur(w) \in Item
      BY <1>1, <2>3, InHand
    <3> QED
      BY <1>0, <1>1, <2>1, <2>2, <2>3, <3>1, RepeatInterrupted
  <2>4. CASE ~At(w, "mark")
    BY <1>0, <1>1, <2>1, <2>2, <2>4, RepeatQuiet
  <2> QED
    BY <2>3, <2>4
<1> QED
  BY <1>1, <1>2, <1>3, <1>4, <1>5, <1>6, <1>7

(* A single worker beside which nobody asks books an item again only after  *)
(* it was interrupted, once for each interruption.                          *)
THEOREM ExecutionsHold ==
  ASSUME NEW w, Worker = {w}
  PROVE  Spec => []ExecutionsAreBooked
<1>1. Init => RepeatInv(w)
  <2> SUFFICES ASSUME Init PROVE RepeatInv(w)
    OBVIOUS
  <2>1. TypeInv /\ w \in Executor /\ proc[w] = Idle /\ ApiRests
    BY InitType, IdleType DEF Init, Executor, ApiRests
  <2>2. TradedInv /\ Again(w) = {}
    BY DEF Init, TradedInv, Again
  <2>3. Cardinality(Again(w)) = 0
    BY <2>2, FS_EmptySet
  <2>4. Repeats = 0
    <3> DEFINE f == [i \in Item |-> IF trades[i] > 1 THEN trades[i] - 1 ELSE 0]
    <3>1. \A i \in Item : f[i] = 0
      BY DEF Init
    <3> HIDE DEF f
    <3>2. SumFunctionOnSet(f, Item) = 0
      BY <3>1, ItemsFinite, SumOfNone
    <3> QED
      BY <3>2 DEF Repeats, f
  <2>5. Distinct(proc[w].queue) /\ Interruptions = 0
    BY <2>1, IdleType DEF Distinct, Init, Interruptions
  <2> QED
    BY <2>1, <2>2, <2>3, <2>4, <2>5 DEF RepeatInv
<1>2. TypeInv /\ RepeatInv(w) /\ [Next]_vars => (TypeInv /\ RepeatInv(w))'
  BY TypeStep, RepeatStep
<1>3. TypeInv /\ RepeatInv(w) => RepeatsOnlyAfterInterruption
  <2> SUFFICES ASSUME TypeInv, RepeatInv(w), budget.requests = 0 PROVE Repeats <= Interruptions
    BY DEF RepeatsOnlyAfterInterruption
  <2>1. Cardinality(Again(w)) \in Nat /\ Repeats \in Nat /\ Interruptions \in Nat
    BY ItemsFinite, RepeatsType, InterruptionsType DEF Again
  <2> QED
    BY <2>1 DEF RepeatInv
<1>4. Spec => []RepeatsOnlyAfterInterruption
  BY <1>1, <1>2, <1>3, InitType, PTL DEF Spec
<1> QED
  BY <1>4, ExecutedHasTrade, PTL DEF ExecutionsAreBooked

-----------------------------------------------------------------------------
(* The position of a single worker's account.                               *)

(* What the row has and the trades do not have yet.                         *)
Owed(w) == IF At(w, "tradedb") THEN Side(Cur(w)) ELSE 0

Drift(w) == Position - NetBought - Owed(w)

PositionInv(w) ==
  budget.requests = 0 =>
    /\ ApiRests /\ TradedInv
    /\ proc[w].step \in {"file", "fill"} => proc[w].acct.qty = Position
    /\ proc[w].step \in {"savefile", "savedb"} => proc[w].acct.qty = Position + Side(Cur(w))
    /\ -Interruptions <= Drift(w) /\ Drift(w) <= Interruptions

Signed == [i \in Item |-> IF i \in DOMAIN inbox THEN Side(i) * trades[i] ELSE 0]

LEMMA SignedType ==
  ASSUME TypeInv
  PROVE  /\ NetBought = SumFunctionOnSet(Signed, Item) /\ NetBought \in Int
         /\ \A i \in Item : Signed[i] \in Int
<1>1. NetBought = SumFunctionOnSet(Signed, Item)
  BY DEF NetBought, Signed
<1>2. ASSUME NEW i \in Item PROVE Signed[i] \in Int
  <2>1. trades[i] \in Int /\ Side(i) \in Int
    BY DEF TypeInv, Side
  <2> QED
    BY <2>1 DEF Signed
<1>3. SumFunctionOnSet(Signed, Item) \in Int
  BY <1>2, ItemsFinite, SumType
<1> QED
  BY <1>1, <1>2, <1>3

LEMMA DriftType ==
  ASSUME TypeInv, NEW w
  PROVE  /\ Position \in Nat /\ NetBought \in Int /\ Owed(w) \in {-1, 0, 1} /\ Drift(w) \in Int
         /\ \A i : Side(i) \in {-1, 1}
<1>1. Position \in Nat
  BY DEF TypeInv, Position, Account
<1>2. Owed(w) \in {-1, 0, 1} /\ \A i : Side(i) \in {-1, 1}
  BY DEF Owed, Side
<1> QED
  BY <1>1, <1>2, SignedType DEF Drift

(* An item that arrives has no trades.                                      *)
LEMMA NetBoughtKept ==
  ASSUME TypeInv, TypeInv', TradedInv, trades' = trades, inbox' = inbox \/ Deliver
  PROVE  /\ NetBought' = NetBought
         /\ TradedInv'
         /\ \A i \in DOMAIN inbox : Side(i)' = Side(i)
<1>1. /\ DOMAIN inbox \subseteq DOMAIN inbox'
      /\ \A i \in DOMAIN inbox : inbox'[i] = inbox[i]
  <2>1. CASE inbox' = inbox
    BY <2>1
  <2>2. CASE Deliver
    <3>1. PICK k \in Kinds : inbox' = Append(inbox, k)
      BY <2>2 DEF Deliver
    <3>2. inbox \in Seq(Kinds)
      BY DEF TypeInv
    <3> QED
      BY <3>1, <3>2
  <2> QED
    BY <2>1, <2>2
<1>2. \A i \in DOMAIN inbox : Side(i)' = Side(i)
  BY <1>1 DEF Side
<1>3. ASSUME NEW i \in Item PROVE Signed'[i] = Signed[i]
  <2>1. trades[i] \in Nat /\ (i \notin DOMAIN inbox => trades[i] = 0)
    BY DEF TypeInv, TradedInv
  <2>2. CASE i \in DOMAIN inbox
    BY <1>1, <1>2, <2>2 DEF Signed
  <2>3. CASE i \notin DOMAIN inbox
    <3>1. Side(i)' \in Int
      BY DEF Side
    <3>2. Side(i)' * trades'[i] = 0
      BY <2>1, <2>3, <3>1
    <3> QED
      BY <2>3, <3>2 DEF Signed
  <2> QED
    BY <2>2, <2>3
<1>4. \A i \in Item : Signed[i] \in Int
  BY SignedType
<1>5. SumFunctionOnSet(Signed', Item) = SumFunctionOnSet(Signed, Item)
  BY <1>3, <1>4, ItemsFinite, SumSame
<1>6. NetBought = SumFunctionOnSet(Signed, Item) /\ NetBought' = SumFunctionOnSet(Signed', Item)
  BY DEF NetBought, Signed
<1> QED
  BY <1>1, <1>2, <1>5, <1>6 DEF TradedInv

(* One trade more.                                                          *)
LEMMA NetBoughtGrows ==
  ASSUME TypeInv, TypeInv', inbox' = inbox, NEW x \in DOMAIN inbox,
         trades' = [trades EXCEPT ![x] = @ + 1]
  PROVE  NetBought' = NetBought + Side(x)
<1>1. x \in Item /\ trades \in [Item -> Nat]
  BY Types DEF TypeInv
<1>2. /\ \A i \in Item : Signed[i] \in Int
      /\ NetBought = SumFunctionOnSet(Signed, Item) /\ NetBought' = SumFunctionOnSet(Signed', Item)
      /\ NetBought \in Int
  BY SignedType DEF NetBought, Signed
<1>3. \A i \in Item \ {x} : Signed'[i] = Signed[i]
  BY <1>1 DEF Signed, Side
<1>4. Signed'[x] = Signed[x] + Side(x)
  <2>1. trades[x] \in Nat /\ trades'[x] = trades[x] + 1 /\ Side(x)' = Side(x) /\ Side(x) \in Int
    BY <1>1 DEF Side
  <2>2. Side(x) * (trades[x] + 1) = Side(x) * trades[x] + Side(x)
    BY <2>1
  <2>3. Signed[x] = Side(x) * trades[x] /\ Signed'[x] = Side(x) * (trades[x] + 1)
    BY <1>1, <2>1 DEF Signed
  <2>4. Side(x) * trades[x] \in Int
    BY <2>1
  <2> QED
    BY <2>1, <2>2, <2>3, <2>4
<1>5. \A i \in Item : Signed'[i] \in Int
  BY <1>1, <1>2, <1>3, <1>4 DEF Side
<1> DEFINE f == Signed
           h == Signed'
<1>6. \A i \in Item : f[i] \in Int /\ h[i] \in Int
  BY <1>2, <1>5
<1>7. \A i \in Item \ {x} : h[i] = f[i]
  BY <1>3
<1>8. h[x] = f[x] + Side(x) /\ Side(x) \in Int /\ f[x] \in Int
  BY <1>1, <1>4, <1>6 DEF Side
<1>9. NetBought = SumFunctionOnSet(f, Item) /\ NetBought' = SumFunctionOnSet(h, Item)
  BY <1>2
<1> HIDE DEF f, h
<1>10. SumFunctionOnSet(h, Item) = SumFunctionOnSet(f, Item) + h[x] - f[x]
  <2>1. x \in Item /\ IsFiniteSet(Item)
    BY <1>1, ItemsFinite
  <2>2. SUFFICES ASSUME NEW s, NEW t, s = f, t = h
                 PROVE  SumFunctionOnSet(t, Item) = SumFunctionOnSet(s, Item) + t[x] - s[x]
    OBVIOUS
  <2>3. (\A i \in Item : s[i] \in Int /\ t[i] \in Int) /\ \A i \in Item \ {x} : t[i] = s[i]
    BY <1>6, <1>7, <2>2
  <2> QED
    BY <2>1, <2>3, SumChange
<1> QED
  BY <1>2, <1>8, <1>9, <1>10

(* Neither the row nor the trades change.                                   *)
LEMMA PositionQuiet ==
  ASSUME NEW w, TypeInv, TypeInv', PositionInv(w), budget.requests = 0, ApiRests',
         trades' = trades, inbox' = inbox \/ Deliver, db' = db,
         \/ Interruptions' = Interruptions /\ Owed(w)' = Owed(w)
         \/ Interruptions' = Interruptions + 1 /\ Owed(w)' = 0,
         proc'[w].step \in {"file", "fill"} => proc'[w].acct.qty = Position,
         proc'[w].step \in {"savefile", "savedb"} => proc'[w].acct.qty = Position + Side(Cur(w))'
  PROVE  PositionInv(w)'
<1>1. NetBought' = NetBought /\ TradedInv'
  BY NetBoughtKept DEF PositionInv
<1>2. Position' = Position
  BY DEF Position
<1>3. /\ Position \in Nat /\ NetBought \in Int /\ Owed(w) \in {-1, 0, 1} /\ Drift(w) \in Int
      /\ Interruptions \in Nat
  BY DriftType, InterruptionsType
<1>4. Drift(w)' = Position - NetBought - Owed(w)'
  BY <1>1, <1>2 DEF Drift
<1>5. -Interruptions <= Drift(w) /\ Drift(w) <= Interruptions /\ Drift(w) = Position - NetBought - Owed(w)
  BY DEF PositionInv, Drift
<1>6. -Interruptions' <= Drift(w)' /\ Drift(w)' <= Interruptions'
  BY <1>3, <1>4, <1>5
<1> QED
  BY <1>1, <1>2, <1>6 DEF PositionInv

LEMMA PositionExecute ==
  ASSUME NEW w \in Executor, TypeInv, PositionInv(w), budget'.requests = 0, ApiRests', Execute(w), Moves(w)
  PROVE  PositionInv(w)'
<1>0. TypeInv' /\ budget' = budget /\ inbox' = inbox
  BY DEF Moves, Execute, NotFound, Reject, Accept, Accepts, LoadRow, LoadFile, Fill, FillRefused, SaveFile,
         SaveRow, SavesRow, BookTrade, MarkRead, Marks, RecordExecuted, RecordFailed, FailsWith
<1>1. Interruptions' = Interruptions /\ budget.requests = 0 /\ Interruptions \in Nat
  BY <1>0, InterruptionsType DEF Interruptions
<1>2. /\ proc \in [Executor -> Proc] /\ proc[w] \in Proc /\ db \in Account \cup {NoRow}
      /\ db' \in Account \cup {NoRow}
  BY <1>0 DEF TypeInv, ProcOK
<1>3. CASE NotFound(w) \/ Reject(w) \/ RecordExecuted(w) \/ RecordFailed(w)
  <2>1. NextItem(w) /\ trades' = trades /\ db' = db /\ ~At(w, "idle") /\ ~At(w, "tradedb")
    BY <1>3 DEF NotFound, Reject, RecordExecuted, RecordFailed, FailsWith
  <2>2. proc'[w].step \in {"idle", "check"}
    BY <1>0, <2>1, NextItemStep
  <2>3. Owed(w)' = Owed(w)
    BY <2>1, <2>2 DEF Owed
  <2> QED
    BY <1>0, <1>1, <2>1, <2>2, <2>3, PositionQuiet
<1>4. CASE Accept(w) \/ FillRefused(w) \/ MarkRead(w)
  <2>1. PICK step \in {"load", "failed", "record"} :
          Go(w, step) /\ trades' = trades /\ db' = db /\ ~At(w, "tradedb")
    BY <1>4 DEF Accept, Accepts, FillRefused, MarkRead, Marks
  <2>2. proc'[w].step = step
    BY <1>2, <2>1 DEF Go, Proc
  <2>3. Owed(w)' = Owed(w)
    BY <2>1, <2>2 DEF Owed
  <2> QED
    BY <1>0, <1>1, <2>1, <2>2, <2>3, PositionQuiet
<1>5. CASE LoadFile(w)
  <2>1. proc'[w] = [proc[w] EXCEPT !.step = "fill", !.acct.cash = IF @ = 0 THEN file'.cash ELSE @]
    BY <1>5, LoadFileStep
  <2>2. proc'[w].step = "fill" /\ proc'[w].acct.qty = proc[w].acct.qty
    BY <1>2, <2>1 DEF Proc, Account
  <2>3. At(w, "file") /\ db' = db /\ trades' = trades
    BY <1>5 DEF LoadFile
  <2>4. proc[w].acct.qty = Position /\ Owed(w)' = Owed(w)
    BY <1>1, <2>2, <2>3 DEF PositionInv, Owed
  <2> QED
    BY <1>0, <1>1, <2>2, <2>3, <2>4, PositionQuiet
<1>6. CASE Fill(w)
  <2>1. proc'[w] = [proc[w] EXCEPT !.step = "savefile", !.acct = Filled(@, inbox[Cur(w)])]
    BY <1>6, FillStep
  <2>2. /\ proc'[w].step = "savefile" /\ proc'[w].acct = Filled(proc[w].acct, inbox[Cur(w)])
        /\ proc'[w].queue = proc[w].queue
    BY <1>2, <2>1 DEF Proc
  <2>3. At(w, "fill") /\ db' = db /\ trades' = trades
    BY <1>6 DEF Fill
  <2>4. proc[w].acct.qty = Position /\ Owed(w)' = Owed(w) /\ Side(Cur(w))' = Side(Cur(w))
    BY <1>0, <1>1, <2>2, <2>3 DEF PositionInv, Owed, Side, Cur
  <2>5. proc'[w].acct.qty = Position + Side(Cur(w))
    <3>1. Position \in Nat
      BY DriftType
    <3> QED
      BY <2>2, <2>4, <3>1 DEF Filled, Side
  <2> QED
    BY <1>0, <1>1, <2>2, <2>3, <2>4, <2>5, PositionQuiet
<1>7. CASE SaveFile(w)
  <2>1. /\ proc'[w].step = "savedb" /\ proc'[w].acct = proc[w].acct /\ proc'[w].queue = proc[w].queue
        /\ At(w, "savefile") /\ db' = db /\ trades' = trades
    BY <1>2, <1>7 DEF SaveFile, Go, Proc
  <2>2. proc[w].acct.qty = Position + Side(Cur(w)) /\ Owed(w)' = Owed(w) /\ Side(Cur(w))' = Side(Cur(w))
    BY <1>0, <1>1, <2>1 DEF PositionInv, Owed, Side, Cur
  <2> QED
    BY <1>0, <1>1, <2>1, <2>2, PositionQuiet
<1>8. CASE LoadRow(w)
  <2>1. /\ proc'[w] = [proc[w] EXCEPT !.step = "file", !.acct = db'] /\ db' \in Account
        /\ trades' = trades /\ At(w, "load") /\ db' = IF db = NoRow THEN NewAccount ELSE db
    BY <1>8, LoadRowStep DEF LoadRow
  <2>2. proc'[w].step = "file" /\ proc'[w].acct = db' /\ db' # NoRow
    BY <1>2, <2>1, NoRowIsNoAccount DEF Proc
  <2>3. Position' = db'.qty /\ Position' = Position
    BY <2>1, <2>2 DEF Position, NewAccount
  <2>4. Owed(w)' = Owed(w) /\ Owed(w) = 0
    BY <2>1, <2>2 DEF Owed
  <2>5. NetBought' = NetBought /\ TradedInv'
    BY <1>0, <1>1, <2>1, NetBoughtKept DEF PositionInv
  <2>6. Drift(w)' = Drift(w)
    BY <2>3, <2>4, <2>5 DEF Drift
  <2> QED
    BY <1>1, <2>2, <2>3, <2>5, <2>6 DEF PositionInv
<1>9. CASE SaveRow(w)
  <2>1. /\ proc'[w].step = "tradedb" /\ proc'[w].queue = proc[w].queue
        /\ At(w, "savedb") /\ db' = proc[w].acct /\ trades' = trades
    BY <1>2, <1>9 DEF SaveRow, SavesRow, Go, Proc
  <2>2. db' # NoRow
    BY <1>2, <2>1, NoRowIsNoAccount DEF Proc
  <2>3. Position' = Position + Side(Cur(w)) /\ Owed(w) = 0 /\ Owed(w)' = Side(Cur(w))
    BY <1>0, <1>1, <2>1, <2>2 DEF Position, PositionInv, Owed, Side, Cur
  <2>4. NetBought' = NetBought /\ TradedInv'
    BY <1>0, <1>1, <2>1, NetBoughtKept DEF PositionInv
  <2>5. Drift(w)' = Drift(w)
    BY <2>3, <2>4, DriftType DEF Drift
  <2> QED
    BY <1>1, <2>1, <2>4, <2>5 DEF PositionInv
<1>10. CASE BookTrade(w)
  <2>1. /\ proc'[w].step = "mark" /\ At(w, "tradedb") /\ db' = db
        /\ trades' = [trades EXCEPT ![Cur(w)] = @ + 1]
    BY <1>2, <1>10 DEF BookTrade, Go, Proc
  <2>2. Cur(w) \in DOMAIN inbox
    BY <2>1, InHand
  <2>3. NetBought' = NetBought + Side(Cur(w))
    BY <1>0, <2>1, <2>2, NetBoughtGrows
  <2>4. Position' = Position /\ Owed(w) = Side(Cur(w)) /\ Owed(w)' = 0
    BY <2>1 DEF Position, Owed
  <2>5. Drift(w)' = Drift(w)
    BY <2>3, <2>4, DriftType DEF Drift
  <2>6. TradedInv'
    BY <1>0, <1>1, <2>1, <2>2 DEF PositionInv, TradedInv, TypeInv
  <2> QED
    BY <1>1, <2>1, <2>5, <2>6 DEF PositionInv
<1> QED
  BY <1>3, <1>4, <1>5, <1>6, <1>7, <1>8, <1>9, <1>10 DEF Execute

LEMMA PositionStep ==
  ASSUME NEW w, Worker = {w}, TypeInv, PositionInv(w), [Next]_vars
  PROVE  PositionInv(w)'
<1> SUFFICES ASSUME budget'.requests = 0 PROVE PositionInv(w)'
  BY DEF PositionInv
<1>0. budget.requests = 0
  BY StillAlone
<1>1. /\ ApiRests /\ TypeInv' /\ ApiRests' /\ w \in Executor /\ proc \in [Executor -> Proc]
      /\ \/ Deliver \/ UserMarksRead \/ ChangeSetting \/ UNCHANGED vars
         \/ Execute(w) /\ Moves(w)
         \/ Disarms(w) /\ (ReadTargets(w) \/ Poll(w))
         \/ Disarms(w) /\ (Fault(w) \/ Crash(w))
  BY <1>0, AloneCases DEF PositionInv, TypeInv, ProcOK
<1>2. CASE Deliver \/ UserMarksRead \/ ChangeSetting \/ UNCHANGED vars
  <2>1. /\ trades' = trades /\ proc' = proc /\ db' = db /\ (inbox' = inbox \/ Deliver)
        /\ budget' = budget \/ Spend("reads") \/ Spend("changes")
    BY <1>2 DEF Deliver, UserMarksRead, ChangeSetting, vars
  <2>2. Interruptions' = Interruptions
    BY <2>1 DEF Interruptions, Spend, TypeInv, Budget
  <2>3. proc[w].step \notin {"idle", "poll"} => Side(Cur(w))' = Side(Cur(w))
    <3>1. proc[w].step \notin {"idle", "poll"} => Cur(w) \in DOMAIN inbox
      BY <1>1, InHand
    <3>2. \A i \in DOMAIN inbox : Side(i)' = Side(i)
      BY <1>0, <1>1, <2>1, NetBoughtKept DEF PositionInv
    <3>3. Side(Cur(w))' = IF inbox'[Cur(w)] = "buy" THEN 1 ELSE -1
      BY <2>1 DEF Side, Cur
    <3> QED
      BY <3>1, <3>2, <3>3 DEF Side
  <2>4. Owed(w)' = Owed(w)
    BY <2>1, <2>3 DEF Owed
  <2> QED
    BY <1>0, <1>1, <2>1, <2>2, <2>3, <2>4, PositionQuiet DEF PositionInv
<1>3. CASE Execute(w) /\ Moves(w)
  BY <1>1, <1>3, PositionExecute
<1>4. CASE Disarms(w) /\ (ReadTargets(w) \/ Poll(w))
  <2>1. /\ trades' = trades /\ db' = db /\ inbox' = inbox /\ budget' = budget /\ ~At(w, "tradedb")
        /\ proc'[w].step \in {"idle", "poll", "check", "failed"}
    BY <1>4 DEF ReadTargets, Poll, Polls, Disarms
  <2>2. Owed(w)' = Owed(w) /\ Interruptions' = Interruptions
    BY <2>1 DEF Owed, Interruptions
  <2> QED
    BY <1>0, <1>1, <2>1, <2>2, PositionQuiet
<1>5. CASE Disarms(w) /\ (Fault(w) \/ Crash(w))
  <2>1. /\ trades' = trades /\ db' = db /\ inbox' = inbox
        /\ proc'[w].step \in {"idle", "poll", "check", "failed"}
    BY <1>5 DEF Fault, Crash, Disarms
  <2>2. Owed(w)' = 0 /\ Interruptions' = Interruptions + 1
    BY <1>1, <1>5, <2>1, MoreInterruptions DEF Owed
  <2> QED
    BY <1>0, <1>1, <2>1, <2>2, PositionQuiet
<1> QED
  BY <1>1, <1>2, <1>3, <1>4, <1>5

(* The account of a single worker beside which nobody asks is what its      *)
(* trades add up to, give or take one for each interruption; and without    *)
(* any it has neither made nor lost money.                                  *)
THEOREM AccountHolds ==
  ASSUME NEW w, Worker = {w}
  PROVE  Spec => []AccountIsExplained
<1>1. Init => PositionInv(w)
  <2> SUFFICES ASSUME Init PROVE PositionInv(w)
    OBVIOUS
  <2>1. TypeInv /\ proc[w].step = "idle" /\ ApiRests /\ TradedInv
    BY InitType, IdleType DEF Init, Executor, ApiRests, TradedInv
  <2>2. NetBought = 0
    <3>1. \A i \in Item : Signed[i] = 0
      BY DEF Init, Signed
    <3>2. SumFunctionOnSet(Signed, Item) = 0
      BY <3>1, ItemsFinite, SumOfNone
    <3> QED
      BY <2>1, <3>2, SignedType
  <2>3. Position = 0 /\ Interruptions = 0 /\ Owed(w) = 0
    BY <2>1 DEF Init, Position, Interruptions, Owed
  <2> QED
    BY <2>1, <2>2, <2>3 DEF PositionInv, Drift
<1>2. TypeInv /\ PositionInv(w) /\ [Next]_vars => (TypeInv /\ PositionInv(w))'
  BY TypeStep, PositionStep
<1>3. TypeInv /\ PositionInv(w) => TradesExplainPosition
  <2> SUFFICES ASSUME TypeInv, PositionInv(w), budget.requests = 0, \A e \in Executor : ~At(e, "tradedb")
      PROVE  Position - NetBought <= Interruptions /\ NetBought - Position <= Interruptions
    BY DEF TradesExplainPosition
  <2>1. Owed(w) = 0
    BY DEF Owed, Executor
  <2> QED
    BY <2>1, DriftType, InterruptionsType DEF PositionInv, Drift
<1>4. Spec => []TradesExplainPosition
  BY <1>1, <1>2, <1>3, InitType, PTL DEF Spec
<1> QED
  BY <1>4, MoneyIsConserved, PTL DEF AccountIsExplained

=============================================================================
