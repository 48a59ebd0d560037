------------------------- MODULE SignalFanoutProofs -------------------------
(***************************************************************************)
(* Proof that the fan-out loses and overtakes nothing unless an insert     *)
(* fails, for every number of workers, followers, signals and crashes and  *)
(* every batch.                                                            *)
(***************************************************************************)
EXTENDS SignalFanout, FiniteSetTheorems, TLAPS

USE FanoutConstants

Pass == [step : {"idle", "read", "signal", "users", "commit"}, cur : 0..MaxSignal, dirty : BOOLEAN,
         sigs : Seq(SignalId), users : Seq(User), items : SUBSET (User \X SignalId)]

Budget == [changes : 0..MaxChanges, errors : 0..MaxErrors, crashes : 0..MaxCrashes]

TypeInv ==
  /\ drawn \in 0..MaxSignal
  /\ signals \subseteq 1..drawn
  /\ follows \subseteq User
  /\ inbox \subseteq User \X SignalId
  /\ cursor \in 0..MaxSignal
  /\ pass \in [Worker -> Pass]
  /\ \A w \in Worker :
       /\ Len(pass[w].sigs) <= Batch
       /\ pass[w].step \in {"signal", "users"} => pass[w].sigs # <<>>
  /\ owed \subseteq follows \X signals
  /\ budget \in Budget

PassOK(p) ==
  /\ p \in Pass /\ Len(p.sigs) <= Batch
  /\ p.step \in {"signal", "users"} => p.sigs # <<>>

LEMMA Passes == ASSUME TypeInv, NEW w \in Worker PROVE PassOK(pass[w])
BY DEF TypeInv, PassOK

LEMMA Signals == TypeInv => signals \subseteq SignalId /\ owed \subseteq User \X SignalId /\ drawn \in Nat
<1> SUFFICES ASSUME TypeInv PROVE signals \subseteq SignalId /\ owed \subseteq User \X SignalId /\ drawn \in Nat
  OBVIOUS
<1>1. signals \subseteq SignalId /\ drawn \in Nat
  BY DEF TypeInv, SignalId
<1>2. follows \subseteq User /\ owed \subseteq follows \X signals
  BY DEF TypeInv
<1> QED
  BY <1>1, <1>2

LEMMA TypeInvImplies == TypeInv => TypeOK
<1> SUFFICES ASSUME TypeInv PROVE TypeOK
  OBVIOUS
<1>1. \A w \in Worker :
       /\ pass[w].step \in {"idle", "read", "signal", "users", "commit"}
       /\ pass[w].cur \in 0..MaxSignal /\ pass[w].dirty \in BOOLEAN
       /\ Len(pass[w].sigs) <= Batch /\ Range(pass[w].sigs) \subseteq SignalId
       /\ Range(pass[w].users) \subseteq User
       /\ pass[w].items \subseteq User \X SignalId
  <2> SUFFICES ASSUME NEW w \in Worker
               PROVE  /\ pass[w].step \in {"idle", "read", "signal", "users", "commit"}
                      /\ pass[w].cur \in 0..MaxSignal /\ pass[w].dirty \in BOOLEAN
                      /\ Len(pass[w].sigs) <= Batch /\ Range(pass[w].sigs) \subseteq SignalId
                      /\ Range(pass[w].users) \subseteq User
                      /\ pass[w].items \subseteq User \X SignalId
    OBVIOUS
  <2>1. pass[w] \in Pass /\ Len(pass[w].sigs) <= Batch
    BY Passes DEF PassOK
  <2>2. Range(pass[w].sigs) \subseteq SignalId /\ Range(pass[w].users) \subseteq User
    BY <2>1 DEF Pass, Range
  <2> QED
    BY <2>1, <2>2 DEF Pass
<1> QED
  BY <1>1, Signals DEF TypeInv, TypeOK, Budget

LEMMA NoPassOK == PassOK(NoPass) /\ NoPass.step = "idle" /\ NoPass.items = {} /\ NoPass.sigs = <<>>
BY DEF NoPass, PassOK, Pass

LEMMA BudgetType ==
  ASSUME budget \in Budget
  PROVE  /\ budget.changes < MaxChanges => [budget EXCEPT !.changes = @ + 1] \in Budget
         /\ budget.errors < MaxErrors => [budget EXCEPT !.errors = @ + 1] \in Budget
         /\ budget.crashes < MaxCrashes => [budget EXCEPT !.crashes = @ + 1] \in Budget
<1>1. budget.changes \in 0..MaxChanges /\ budget.errors \in 0..MaxErrors /\ budget.crashes \in 0..MaxCrashes
  BY DEF Budget
<1>2. budget = [changes |-> budget.changes, errors |-> budget.errors, crashes |-> budget.crashes]
  BY DEF Budget
<1> QED
  BY <1>1, <1>2 DEF Budget

LEMMA InitType == Init => TypeInv
<1> SUFFICES ASSUME Init PROVE TypeInv
  OBVIOUS
<1>1. \A w \in Worker : pass[w] = NoPass
  BY DEF Init
<1> QED
  BY <1>1, NoPassOK DEF Init, TypeInv, PassOK, Budget

-----------------------------------------------------------------------------
(* Steps of a pass.                                                         *)
LEMMA StepType ==
  ASSUME TypeInv, NEW w \in Worker, NEW new, PassOK(new), Step(w, new),
         inbox' \subseteq User \X SignalId, cursor' \in 0..MaxSignal, budget' \in Budget
  PROVE  /\ TypeInv'
         /\ pass'[w] = new
         /\ \A x \in Worker \ {w} : pass'[x] = pass[x]
BY DEF TypeInv, Step, PassOK

(* The first of a sequence and what is left of it.                          *)
LEMMA Parts ==
  ASSUME NEW S, NEW seq \in Seq(S), seq # <<>>
  PROVE  /\ Head(seq) = seq[1] /\ Head(seq) \in S /\ Head(seq) \in Range(seq)
         /\ Tail(seq) \in Seq(S) /\ Len(Tail(seq)) = Len(seq) - 1
         /\ Len(seq) \in Nat /\ Len(seq) > 0 /\ DOMAIN seq = 1..Len(seq)
         /\ \A i \in 1..(Len(seq) - 1) : Tail(seq)[i] = seq[i + 1]
         /\ Range(seq) = {Head(seq)} \cup Range(Tail(seq))
<1>1. /\ Head(seq) = seq[1] /\ Head(seq) \in S
      /\ Tail(seq) \in Seq(S) /\ Len(Tail(seq)) = Len(seq) - 1
      /\ Len(seq) \in Nat /\ Len(seq) > 0 /\ DOMAIN seq = 1..Len(seq)
      /\ DOMAIN Tail(seq) = 1..(Len(seq) - 1)
      /\ \A i \in 1..(Len(seq) - 1) : Tail(seq)[i] = seq[i + 1]
  OBVIOUS
<1>2. Head(seq) \in Range(seq)
  BY <1>1 DEF Range
<1>3. ASSUME NEW x \in Range(seq), x # Head(seq) PROVE x \in Range(Tail(seq))
  <2>1. PICK i \in 1..Len(seq) : seq[i] = x
    BY <1>1, <1>3 DEF Range
  <2>2. i - 1 \in 1..(Len(seq) - 1) /\ Tail(seq)[i - 1] = x
    BY <1>1, <1>3, <2>1
  <2> QED
    BY <1>1, <2>2 DEF Range
<1>4. ASSUME NEW x \in Range(Tail(seq)) PROVE x \in Range(seq)
  <2>1. PICK i \in 1..(Len(seq) - 1) : Tail(seq)[i] = x
    BY <1>1 DEF Range
  <2>2. i + 1 \in 1..Len(seq) /\ seq[i + 1] = x
    BY <1>1, <2>1
  <2> QED
    BY <1>1, <2>2 DEF Range
<1> QED
  BY <1>1, <1>2, <1>3, <1>4

Alone(w) == TypeInv' /\ \A x \in Worker \ {w} : pass'[x] = pass[x]

LEMMA ReadCursorStep ==
  ASSUME TypeInv, NEW w \in Worker, ReadCursor(w)
  PROVE  Alone(w) /\ pass'[w].step = "read" /\ pass'[w].cur = cursor /\ pass'[w].items = {}
<1> DEFINE new == [NoPass EXCEPT !.step = "read", !.cur = cursor]
<1>1. PassOK(new) /\ new.step = "read" /\ new.cur = cursor /\ new.items = {}
  BY NoPassOK DEF PassOK, Pass, TypeInv
<1> HIDE DEF new
<1>2. Step(w, new) /\ inbox' = inbox /\ cursor' = cursor /\ budget' = budget
  BY DEF ReadCursor, new
<1>3. inbox \subseteq User \X SignalId /\ cursor \in 0..MaxSignal /\ budget \in Budget
  BY DEF TypeInv
<1> QED
  BY <1>1, <1>2, <1>3, StepType DEF Alone

LEMMA ReadBatchStep ==
  ASSUME TypeInv, NEW w \in Worker, ReadBatch(w)
  PROVE  /\ Alone(w)
         /\ \/ pass'[w] = NoPass
            \/ /\ pass'[w].step = "signal" /\ pass'[w].items = pass[w].items
               /\ pass'[w].sigs # <<>> /\ Range(pass'[w].sigs) \subseteq NewSignals(w)
               /\ FirstOf(pass'[w].sigs, NewSignals(w))
<1>1. PICK sigs \in SeqOf(NewSignals(w), MaxSignal) : FirstOf(sigs, NewSignals(w)) /\ Starts(w, sigs)
  BY DEF ReadBatch
<1>2. PICK n \in 0..MaxSignal : sigs \in [1..n -> NewSignals(w)]
  BY <1>1 DEF SeqOf
<1>3. NewSignals(w) \subseteq SignalId
  BY Signals DEF NewSignals
<1>4. sigs \in Seq(SignalId) /\ Range(sigs) \subseteq NewSignals(w)
  BY <1>2, <1>3 DEF Range
<1>5. Len(sigs) <= Batch
  BY <1>1, <1>4 DEF FirstOf
<1>6. PassOK(pass[w]) /\ inbox' = inbox /\ cursor' = cursor /\ budget' = budget
      /\ inbox \subseteq User \X SignalId /\ cursor \in 0..MaxSignal /\ budget \in Budget
  BY <1>1, Passes DEF Starts, TypeInv
<1>7. CASE sigs = <<>>
  <2>1. Step(w, NoPass)
    BY <1>1, <1>7 DEF Starts
  <2> QED
    BY <1>6, <2>1, NoPassOK, StepType DEF Alone
<1>8. CASE sigs # <<>>
  <2> DEFINE new == [pass[w] EXCEPT !.step = "signal", !.sigs = sigs]
  <2>1. PassOK(new) /\ new.step = "signal" /\ new.sigs = sigs /\ new.items = pass[w].items
    BY <1>4, <1>5, <1>6, <1>8 DEF PassOK, Pass
  <2>2. Step(w, new)
    BY <1>1, <1>8 DEF Starts
  <2> HIDE DEF new
  <2>3. Alone(w) /\ pass'[w] = new
    BY <1>6, <2>1, <2>2, StepType DEF Alone
  <2> QED
    BY <1>1, <1>4, <1>8, <2>1, <2>3
<1> QED
  BY <1>7, <1>8

LEMMA ReadFollowersStep ==
  ASSUME TypeInv, NEW w \in Worker, ReadFollowers(w)
  PROVE  /\ Alone(w)
         /\ pass'[w].step = "users" /\ Range(pass'[w].users) = follows
         /\ pass'[w].sigs = pass[w].sigs /\ pass'[w].items = pass[w].items
<1>1. PICK users \in SeqOf(follows, Cardinality(User)) :
        Range(users) = follows /\ Step(w, [pass[w] EXCEPT !.step = "users", !.users = users])
  BY DEF ReadFollowers
<1>2. Cardinality(User) \in Nat
  BY FS_CardinalityType
<1>3. PICK n \in 0..Cardinality(User) : users \in [1..n -> follows]
  BY <1>1 DEF SeqOf
<1>4. follows \subseteq User
  BY DEF TypeInv
<1>5. users \in Seq(User)
  BY <1>2, <1>3, <1>4
<1>6. PassOK(pass[w]) /\ inbox' = inbox /\ cursor' = cursor /\ budget' = budget
      /\ inbox \subseteq User \X SignalId /\ cursor \in 0..MaxSignal /\ budget \in Budget
      /\ pass[w].step = "signal"
  BY Passes DEF ReadFollowers, TypeInv
<1> DEFINE new == [pass[w] EXCEPT !.step = "users", !.users = users]
<1>7. /\ PassOK(new) /\ new.step = "users" /\ new.users = users
      /\ new.sigs = pass[w].sigs /\ new.items = pass[w].items
  BY <1>5, <1>6 DEF PassOK, Pass
<1> HIDE DEF new
<1>8. Alone(w) /\ pass'[w] = new
  BY <1>1, <1>6, <1>7, StepType DEF Alone, new
<1> QED
  BY <1>1, <1>7, <1>8

(* The follower whose turn it is, of the signal whose turn it is.           *)
LEMMA Turn ==
  ASSUME TypeInv, NEW w \in Worker, Inserting(w)
  PROVE  /\ Item(w) = <<Head(pass[w].users), Head(pass[w].sigs)>> /\ Item(w) \in User \X SignalId
         /\ Head(pass[w].users) \in User /\ Head(pass[w].sigs) \in SignalId
         /\ Tail(pass[w].users) \in Seq(User)
         /\ Range(pass[w].users) = {Head(pass[w].users)} \cup Range(Tail(pass[w].users))
         /\ pass[w].step = "users" /\ pass[w] \in Pass
<1>1. /\ pass[w].step = "users" /\ pass[w].users # <<>> /\ pass[w].sigs # <<>>
      /\ pass[w] \in Pass
  BY Passes DEF Inserting, PassOK
<1>2. pass[w].users \in Seq(User) /\ pass[w].sigs \in Seq(SignalId)
  BY <1>1 DEF Pass
<1>3. Head(pass[w].users) \in User /\ Head(pass[w].sigs) \in SignalId
  BY <1>1, <1>2, Parts
<1> QED
  BY <1>1, <1>2, <1>3, Parts DEF Item

LEMMA InsertItemStep ==
  ASSUME TypeInv, NEW w \in Worker, InsertItem(w)
  PROVE  /\ Alone(w)
         /\ pass'[w].step = "users" /\ pass'[w].sigs = pass[w].sigs
         /\ pass'[w].users = Tail(pass[w].users)
         /\ pass'[w].items = pass[w].items \cup {Item(w)}
<1> DEFINE new == [pass[w] EXCEPT !.users = Tail(@), !.items = @ \cup {Item(w)}]
<1>1. Inserting(w) /\ Step(w, new) /\ inbox' = inbox /\ cursor' = cursor /\ budget' = budget
  BY DEF InsertItem
<1>2. Item(w) \in User \X SignalId /\ Tail(pass[w].users) \in Seq(User) /\ pass[w].step = "users"
  BY <1>1, Turn
<1>3. PassOK(pass[w]) /\ inbox \subseteq User \X SignalId /\ cursor \in 0..MaxSignal /\ budget \in Budget
  BY Passes DEF TypeInv
<1>4. /\ PassOK(new) /\ new.step = "users" /\ new.sigs = pass[w].sigs
      /\ new.users = Tail(pass[w].users) /\ new.items = pass[w].items \cup {Item(w)}
  BY <1>2, <1>3 DEF PassOK, Pass
<1> HIDE DEF new
<1> QED
  BY <1>1, <1>3, <1>4, StepType DEF Alone

LEMMA RolledBackStep ==
  ASSUME TypeInv, NEW w \in Worker, Inserting(w), Step(w, RolledBack(w)),
         inbox' = inbox, cursor' = cursor, budget' \in Budget
  PROVE  /\ Alone(w)
         /\ pass'[w].step = "users" /\ pass'[w].sigs = pass[w].sigs
         /\ pass'[w].users = Tail(pass[w].users) /\ pass'[w].items = {}
<1> DEFINE new == RolledBack(w)
<1>1. Tail(pass[w].users) \in Seq(User) /\ pass[w].step = "users"
  BY Turn
<1>2. PassOK(pass[w]) /\ inbox \subseteq User \X SignalId /\ cursor \in 0..MaxSignal
  BY Passes DEF TypeInv
<1>3. /\ PassOK(new) /\ new.step = "users" /\ new.sigs = pass[w].sigs
      /\ new.users = Tail(pass[w].users) /\ new.items = {}
  BY <1>1, <1>2 DEF PassOK, Pass, RolledBack
<1> HIDE DEF new
<1>4. Step(w, new)
  BY DEF new
<1> QED
  BY <1>2, <1>3, <1>4, StepType DEF Alone

LEMMA SignalDoneStep ==
  ASSUME TypeInv, NEW w \in Worker, SignalDone(w)
  PROVE  /\ Alone(w)
         /\ pass'[w].cur = Head(pass[w].sigs) /\ pass'[w].sigs = Tail(pass[w].sigs)
         /\ pass'[w].items = pass[w].items
         /\ pass'[w].step = IF Len(pass[w].sigs) = 1 THEN "commit" ELSE "signal"
<1> DEFINE p == pass[w]
           dirty == p.dirty \/ p.cur # Head(p.sigs)
           cur == Head(p.sigs)
           sigs == Tail(p.sigs)
           step == IF Len(p.sigs) = 1 THEN "commit" ELSE "signal"
           new == [p EXCEPT !.dirty = dirty, !.cur = cur, !.sigs = sigs, !.step = step]
<1>1. Step(w, new) /\ inbox' = inbox /\ cursor' = cursor /\ budget' = budget /\ p.step = "users"
  BY DEF SignalDone, Passed
<1>2. /\ p \in Pass /\ Len(p.sigs) <= Batch /\ p.sigs \in Seq(SignalId) /\ p.sigs # <<>>
      /\ inbox \subseteq User \X SignalId /\ cursor \in 0..MaxSignal /\ budget \in Budget
  BY <1>1, Passes DEF PassOK, Pass, TypeInv
<1>3. /\ cur \in SignalId /\ sigs \in Seq(SignalId)
      /\ Len(sigs) = Len(p.sigs) - 1 /\ Len(p.sigs) \in Nat
  BY <1>2, Parts
<1>4. cur \in 0..MaxSignal /\ dirty \in BOOLEAN /\ step \in {"commit", "signal"}
  BY <1>3 DEF SignalId
<1>5. step = "signal" => sigs # <<>>
  <2>1. step = "signal" => Len(sigs) # 0
    BY <1>2, <1>3
  <2> QED
    BY <2>1
<1> HIDE DEF p, dirty, cur, sigs, step
<1>6. new \in Pass /\ new.cur = cur /\ new.sigs = sigs /\ new.items = p.items /\ new.step = step
  BY <1>2, <1>3, <1>4 DEF Pass
<1> HIDE DEF new
<1>7. PassOK(new)
  BY <1>2, <1>3, <1>4, <1>5, <1>6 DEF PassOK
<1>8. Alone(w) /\ pass'[w] = new
  BY <1>1, <1>2, <1>7, StepType DEF Alone
<1> QED
  BY <1>6, <1>8 DEF p, cur, sigs, step

LEMMA CommitPassStep ==
  ASSUME TypeInv, NEW w \in Worker, CommitPass(w)
  PROVE  Alone(w) /\ pass'[w] = NoPass
<1>1. PassOK(pass[w]) /\ inbox \subseteq User \X SignalId /\ cursor \in 0..MaxSignal /\ budget \in Budget
  BY Passes DEF TypeInv
<1>2. inbox' \subseteq User \X SignalId /\ cursor' \in 0..MaxSignal /\ budget' \in Budget
  BY <1>1 DEF CommitPass, PassOK, Pass
<1>3. Step(w, NoPass)
  BY DEF CommitPass
<1> QED
  BY <1>2, <1>3, NoPassOK, StepType DEF Alone

LEMMA PassDiesStep ==
  ASSUME TypeInv, NEW w \in Worker, PassDies(w)
  PROVE  Alone(w) /\ pass'[w] = NoPass
<1>1. inbox' \subseteq User \X SignalId /\ cursor' \in 0..MaxSignal
  BY DEF PassDies, TypeInv
<1>3. budget' \in Budget
  BY BudgetType DEF PassDies, TypeInv
<1>2. Step(w, NoPass)
  BY DEF PassDies
<1> QED
  BY <1>1, <1>2, <1>3, NoPassOK, StepType DEF Alone

-----------------------------------------------------------------------------
(* Publishers and followers.                                                *)
LEMMA PublishType == ASSUME TypeInv, DrawId \/ Publish PROVE TypeInv'
<1>1. CASE DrawId
  <2>1. drawn' \in 0..MaxSignal /\ 1..drawn \subseteq 1..drawn'
    BY <1>1 DEF DrawId, TypeInv
  <2> QED
    BY <1>1, <2>1 DEF DrawId, TypeInv
<1>2. CASE Publish
  <2>1. PICK id \in (1..drawn) \ signals : signals' = signals \cup {id} /\ owed' = owed \cup (follows \X {id})
    BY <1>2 DEF Publish
  <2>2. signals' \subseteq 1..drawn
    BY <2>1 DEF TypeInv
  <2>3. owed' \subseteq follows \X signals'
    BY <2>1 DEF TypeInv
  <2> QED
    BY <1>2, <2>2, <2>3 DEF Publish, TypeInv
<1> QED
  BY <1>1, <1>2

LEMMA FollowType == ASSUME TypeInv, Follow \/ Unfollow PROVE TypeInv'
<1>1. budget' \in Budget
  BY BudgetType DEF Follow, Unfollow, Change, TypeInv
<1>2. follows' \subseteq User /\ owed' \subseteq follows' \X signals
  <2>1. CASE Follow
    BY <2>1 DEF Follow, Change, TypeInv
  <2>2. CASE Unfollow
    <3>1. PICK u \in follows : follows' = follows \ {u} /\ owed' = {o \in owed : o[1] # u}
      BY <2>2 DEF Unfollow
    <3> QED
      BY <3>1 DEF TypeInv
  <2> QED
    BY <2>1, <2>2
<1> QED
  BY <1>1, <1>2 DEF Follow, Unfollow, Change, TypeInv

LEMMA TypeStep == ASSUME TypeInv, [Next]_vars PROVE TypeInv'
<1>1. CASE DrawId \/ Publish \/ Follow \/ Unfollow
  BY <1>1, PublishType, FollowType
<1>2. CASE UNCHANGED vars
  BY <1>2 DEF vars, TypeInv
<1>3. ASSUME NEW w \in Worker, InsertDuplicate(w) \/ InsertFails(w) PROVE TypeInv'
  <2>1. budget' \in Budget
    BY <1>3, BudgetType DEF InsertDuplicate, InsertFails, TypeInv
  <2> QED
    BY <1>3, <2>1, RolledBackStep DEF InsertDuplicate, InsertFails, Alone
<1>4. ASSUME NEW w \in Worker, WorkerStep(w) \/ PassDies(w), ~InsertDuplicate(w) PROVE TypeInv'
  BY <1>4, ReadCursorStep, ReadBatchStep, ReadFollowersStep, InsertItemStep, SignalDoneStep, CommitPassStep,
     PassDiesStep DEF WorkerStep, Alone
<1> QED
  BY <1>1, <1>2, <1>3, <1>4 DEF Next

(* TypeOK, for every value of the constants.                                *)
THEOREM TypeCorrect == Spec => []TypeOK
<1>1. TypeInv /\ [Next]_vars => TypeInv'
  BY TypeStep
<1> QED
  BY <1>1, InitType, TypeInvImplies, PTL DEF Spec

-----------------------------------------------------------------------------
(* Everybody who is owed a signal up to n is among the items of S.          *)
Delivered(S, n) ==
  \A u \in User, i \in SignalId : <<u, i>> \in owed /\ i <= n => <<u, i>> \in S

(* The rest of a batch has no gaps.                                         *)
InBatch(sigs) ==
  /\ Ascending(sigs) /\ Range(sigs) \subseteq signals
  /\ \A i \in signals : Head(sigs) < i /\ i <= Last(sigs) => i \in Range(sigs)

ItemsUpTo(p, n) == \A u \in User, i \in SignalId : <<u, i>> \in p.items => i \in signals /\ i <= n

(* What a pass has in hand ...                                              *)
HandOK(p) ==
  /\ p.step \in {"idle", "read"} => p.items = {}
  /\ p.step = "read" => p.cur \in signals \cup {0}
  /\ p.step \in {"signal", "users"} => InBatch(p.sigs) /\ ItemsUpTo(p, Head(p.sigs))
  /\ p.step = "commit" => p.cur \in signals /\ ItemsUpTo(p, p.cur)

(* ... and that committing it leaves nobody out.                            *)
NobodyLeftOut(p) ==
  /\ p.step = "read" => Delivered(inbox, p.cur)
  /\ p.step \in {"signal", "users"} => Delivered(inbox \cup p.items, Head(p.sigs) - 1)
  /\ p.step = "users" =>
       \A u \in User : <<u, Head(p.sigs)>> \in owed =>
         <<u, Head(p.sigs)>> \in inbox \cup p.items \/ u \in Range(p.users)
  /\ p.step = "commit" => Delivered(inbox \cup p.items, p.cur)

Published ==
  /\ 1..(drawn - 1) \subseteq signals /\ cursor \in signals \cup {0}
  /\ \A u \in User, i \in SignalId : <<u, i>> \in inbox => i \in signals

(* An inbox that has a signal is complete up to it.                         *)
Complete ==
  /\ \A v \in User, j \in SignalId : <<v, j>> \in inbox => Delivered(inbox, j)
  /\ Delivered(inbox, cursor)

FanInv ==
  /\ Published
  /\ \A w \in Worker : HandOK(pass[w])
  /\ budget.errors = 0 => Complete /\ \A w \in Worker : NobodyLeftOut(pass[w])

LEMMA InitFan == Init => FanInv
<1> SUFFICES ASSUME Init PROVE FanInv
  OBVIOUS
<1>1. \A w \in Worker : pass[w].step = "idle" /\ pass[w].items = {}
  BY NoPassOK DEF Init
<1>2. owed = {} /\ inbox = {} /\ drawn = 0 /\ cursor = 0
  BY DEF Init
<1> QED
  BY <1>1, <1>2 DEF FanInv, Published, HandOK, NobodyLeftOut, Complete, Delivered

(* A worker's step that commits nothing.                                    *)
LEMMA PassStep ==
  ASSUME TypeInv, FanInv, NEW w \in Worker, NEW new, pass'[w] = new,
         \A x \in Worker \ {w} : pass'[x] = pass[x],
         inbox' = inbox, cursor' = cursor, UNCHANGED <<drawn, signals, owed>>,
         HandOK(new), budget'.errors = 0 => budget.errors = 0 /\ NobodyLeftOut(new)
  PROVE  FanInv'
<1>1. \A p : HandOK(p)' = HandOK(p)
  BY DEF HandOK, InBatch, ItemsUpTo
<1>2. \A p : NobodyLeftOut(p)' = NobodyLeftOut(p)
  BY DEF NobodyLeftOut, Delivered
<1>3. Published' = Published /\ Complete' = Complete
  BY DEF Published, Complete, Delivered
<1> QED
  BY <1>1, <1>2, <1>3 DEF FanInv

(* The signal in turn, and those behind it.                                 *)
LEMMA BatchParts ==
  ASSUME TypeInv, NEW sigs \in Seq(SignalId), sigs # <<>>, InBatch(sigs)
  PROVE  /\ Head(sigs) \in signals /\ Head(sigs) \in SignalId /\ Head(sigs) \in Nat
         /\ Last(sigs) \in signals
         /\ Len(sigs) \in Nat /\ Len(sigs) > 0
         /\ Len(sigs) # 1 =>
              /\ Tail(sigs) \in Seq(SignalId) /\ Tail(sigs) # <<>> /\ InBatch(Tail(sigs))
              /\ Head(sigs) < Head(Tail(sigs))
              /\ \A i \in signals : i < Head(Tail(sigs)) => i <= Head(sigs)
<1>1. /\ Head(sigs) = sigs[1] /\ Head(sigs) \in SignalId /\ Head(sigs) \in Range(sigs)
      /\ Tail(sigs) \in Seq(SignalId) /\ Len(Tail(sigs)) = Len(sigs) - 1
      /\ Len(sigs) \in Nat /\ Len(sigs) > 0 /\ DOMAIN sigs = 1..Len(sigs)
      /\ \A i \in 1..(Len(sigs) - 1) : Tail(sigs)[i] = sigs[i + 1]
      /\ Range(sigs) = {Head(sigs)} \cup Range(Tail(sigs))
  BY Parts
<1>2. Last(sigs) \in Range(sigs)
  BY <1>1 DEF Last, Range
<1>3. signals \subseteq SignalId /\ SignalId \subseteq Nat
  BY Signals DEF SignalId
<1>4. ASSUME Len(sigs) # 1
      PROVE  /\ Tail(sigs) \in Seq(SignalId) /\ Tail(sigs) # <<>> /\ InBatch(Tail(sigs))
             /\ Head(sigs) < Head(Tail(sigs))
             /\ \A i \in signals : i < Head(Tail(sigs)) => i <= Head(sigs)
  <2> DEFINE rest == Tail(sigs)
  <2>1. /\ rest \in Seq(SignalId) /\ Len(rest) = Len(sigs) - 1
        /\ \A i \in 1..(Len(sigs) - 1) : rest[i] = sigs[i + 1]
        /\ Range(sigs) = {Head(sigs)} \cup Range(rest)
    BY <1>1
  <2> HIDE DEF rest
  <2>2. Len(rest) \in Nat /\ Len(rest) > 0 /\ DOMAIN rest = 1..Len(rest)
    BY <1>1, <1>4, <2>1
  <2>3. rest # <<>>
    BY <2>2
  <2>4. Head(rest) = rest[1] /\ rest[1] = sigs[2] /\ Head(rest) \in Range(rest)
    BY <2>1, <2>2, <2>3, Parts
  <2>5. Last(rest) = Last(sigs) /\ Last(rest) \in Range(rest)
    BY <1>1, <2>1, <2>2 DEF Last, Range
  <2>6. \A x \in Range(rest) : x \in signals /\ x \in Nat
    BY <1>3, <2>1 DEF InBatch
  <2>7. Ascending(rest)
    <3> SUFFICES ASSUME NEW i \in DOMAIN rest, NEW j \in DOMAIN rest, i < j PROVE rest[i] < rest[j]
      BY DEF Ascending
    <3>1. i + 1 \in DOMAIN sigs /\ j + 1 \in DOMAIN sigs /\ rest[i] = sigs[i + 1] /\ rest[j] = sigs[j + 1]
      BY <1>1, <2>1, <2>2
    <3>2. i + 1 < j + 1
      BY <2>2
    <3> QED
      BY <3>1, <3>2 DEF InBatch, Ascending
  <2>8. \A x \in Range(rest) : Head(sigs) < x /\ Head(rest) <= x
    <3> SUFFICES ASSUME NEW i \in DOMAIN rest PROVE Head(sigs) < rest[i] /\ Head(rest) <= rest[i]
      BY DEF Range
    <3>1. rest[i] \in Range(rest) /\ rest[i] \in Nat
      BY <2>6 DEF Range
    <3>2. i + 1 \in DOMAIN sigs /\ 1 \in DOMAIN sigs /\ 1 < i + 1 /\ rest[i] = sigs[i + 1]
      BY <1>1, <2>1, <2>2
    <3>3. Head(sigs) < rest[i]
      BY <1>1, <3>2 DEF InBatch, Ascending
    <3>4. CASE i = 1
      BY <2>4, <3>1, <3>3, <3>4
    <3>5. CASE i # 1
      <4>1. 1 < i /\ 1 \in DOMAIN rest
        BY <2>2, <3>5
      <4>2. rest[1] < rest[i]
        BY <4>1, <2>7 DEF Ascending
      <4>3. rest[1] \in Nat
        BY <2>4, <2>6
      <4> QED
        BY <2>4, <3>1, <3>3, <4>2, <4>3
    <3> QED
      BY <3>4, <3>5
  <2>9. /\ Head(sigs) \in Nat /\ Head(rest) \in Nat /\ Last(rest) \in Nat
        /\ Head(sigs) < Head(rest) /\ Head(rest) <= Last(rest)
    BY <1>1, <1>3, <2>4, <2>5, <2>6, <2>8
  <2>10. ASSUME NEW i \in signals, Head(sigs) < i, i <= Last(sigs) PROVE i \in Range(rest)
    <3>1. i \in Range(sigs)
      BY <2>10 DEF InBatch
    <3>2. i # Head(sigs)
      BY <2>9, <2>10
    <3> QED
      BY <2>1, <3>1, <3>2
  <2>11. ASSUME NEW i \in signals, i < Head(rest) PROVE i <= Head(sigs)
    <3>1. i \in Nat
      BY <1>3
    <3>2. SUFFICES ASSUME Head(sigs) < i PROVE FALSE
      BY <2>9, <3>1
    <3>3. i <= Last(sigs)
      BY <2>5, <2>9, <2>11, <3>1
    <3>4. Head(rest) <= i
      BY <2>8, <2>10, <3>2, <3>3
    <3> QED
      BY <2>9, <2>11, <3>1, <3>4
  <2>12. InBatch(rest)
    <3>1. ASSUME NEW i \in signals, Head(rest) < i, i <= Last(rest) PROVE i \in Range(rest)
      <4>1. i \in Nat
        BY <1>3
      <4>2. Head(sigs) < i /\ i <= Last(sigs)
        BY <2>5, <2>9, <3>1, <4>1
      <4> QED
        BY <2>10, <4>2
    <3> QED
      BY <2>6, <2>7, <3>1 DEF InBatch
  <2> QED
    BY <2>1, <2>3, <2>9, <2>11, <2>12 DEF rest
<1> QED
  BY <1>1, <1>2, <1>3, <1>4 DEF InBatch

(* Who is owed something in future was owed it before, or it is a signal    *)
(* that comes after every one there is.                                     *)
LEMMA StillDelivered ==
  ASSUME TypeInv, NEW S, NEW n \in Nat, Delivered(S, n),
         \A u \in User, i \in SignalId : <<u, i>> \in owed' => <<u, i>> \in owed \/ n < i
  PROVE  \A T : S \subseteq T => Delivered(T, n)'
BY DEF Delivered, SignalId

LEMMA OutsideStep ==
  ASSUME TypeInv, FanInv, OrderedIds, DrawId \/ Publish \/ Follow \/ Unfollow
  PROVE  FanInv'
<1>1. pass' = pass /\ inbox' = inbox /\ cursor' = cursor /\ budget'.errors = budget.errors
  BY DEF DrawId, Publish, Follow, Unfollow, Change, TypeInv, Budget
<1>2. /\ signals \subseteq signals' /\ 1..(drawn' - 1) \subseteq signals'
      /\ \A i \in signals' \ signals : \A j \in signals \cup {0} : j < i
      /\ \A u \in User, i \in SignalId :
            <<u, i>> \in owed' => <<u, i>> \in owed \/ i \in signals' \ signals
  <2>1. CASE DrawId
    <3>1. 1..drawn \subseteq signals
      BY <2>1 DEF DrawId, FanInv, Published, TypeInv
    <3> QED
      BY <2>1, <3>1 DEF DrawId, TypeInv
  <2>2. CASE Publish
    <3>1. PICK id \in (1..drawn) \ signals : signals' = signals \cup {id} /\ owed' = owed \cup (follows \X {id})
      BY <2>2 DEF Publish
    <3>2. drawn \in Nat /\ drawn' = drawn
      BY <2>2 DEF Publish, TypeInv
    <3>3. id = drawn /\ signals \subseteq 1..(drawn - 1)
      BY <3>1, <3>2 DEF FanInv, Published, TypeInv
    <3> QED
      BY <3>1, <3>2, <3>3 DEF FanInv, Published
  <2>3. CASE Follow \/ Unfollow
    BY <2>3 DEF Follow, Unfollow, Change, FanInv, Published
  <2> QED
    BY <2>1, <2>2, <2>3
<1>3. signals \subseteq SignalId /\ SignalId \subseteq Nat
  BY Signals DEF SignalId
<1>8. signals' \subseteq Nat
  <2>1. TypeInv'
    BY PublishType, FollowType
  <2> QED
    BY <2>1 DEF TypeInv
<1>4. Published'
  BY <1>1, <1>2 DEF FanInv, Published
<1>5. \A w \in Worker : HandOK(pass[w])'
  <2> SUFFICES ASSUME NEW w \in Worker PROVE HandOK(pass[w])'
    OBVIOUS
  <2>1. HandOK(pass[w]) /\ PassOK(pass[w])
    BY Passes DEF FanInv
  <2>2. ASSUME NEW n, ItemsUpTo(pass[w], n) PROVE ItemsUpTo(pass[w], n)'
    BY <1>1, <1>2, <2>2 DEF ItemsUpTo
  <2>3. ASSUME pass[w].step \in {"signal", "users"} PROVE InBatch(pass[w].sigs)'
    <3>1. InBatch(pass[w].sigs) /\ pass[w].sigs \in Seq(SignalId) /\ pass[w].sigs # <<>>
      BY <2>1, <2>3 DEF HandOK, PassOK, Pass
    <3>2. Last(pass[w].sigs) \in signals
      BY <3>1, BatchParts
    <3>3. ASSUME NEW i \in signals', i <= Last(pass[w].sigs) PROVE i \in signals
      <4>1. i \in Nat /\ Last(pass[w].sigs) \in Nat
        BY <1>3, <1>8, <3>2
      <4> QED
        BY <1>2, <3>2, <3>3, <4>1
    <3> QED
      BY <1>1, <1>2, <3>1, <3>3 DEF InBatch, Last
  <2> QED
    BY <1>1, <1>2, <2>1, <2>2, <2>3 DEF HandOK
<1>6. ASSUME budget.errors = 0 PROVE Complete'
  <2>1. Complete
    BY <1>6 DEF FanInv
  <2>2. ASSUME NEW n \in signals \cup {0}, Delivered(inbox, n) PROVE Delivered(inbox, n)'
    BY <1>1, <1>2, <1>3, <2>2, StillDelivered
  <2>3. ASSUME NEW v \in User, NEW j \in SignalId, <<v, j>> \in inbox PROVE Delivered(inbox, j)'
    BY <2>1, <2>2, <2>3 DEF Complete, FanInv, Published
  <2>4. Delivered(inbox, cursor)'
    BY <1>1, <2>1, <2>2 DEF Complete, FanInv, Published, Delivered
  <2> QED
    BY <1>1, <2>3, <2>4 DEF Complete, Delivered
<1>7. ASSUME budget.errors = 0, NEW w \in Worker PROVE NobodyLeftOut(pass[w])'
  <2> DEFINE p == pass[w]
  <2>1. NobodyLeftOut(p) /\ HandOK(p) /\ PassOK(p)
    BY <1>7, Passes DEF FanInv
  <2>2. \A u \in User, i \in SignalId : \A n \in signals \cup {0} :
          <<u, i>> \in owed' /\ i <= n => <<u, i>> \in owed
    BY <1>2, <1>3
  <2>3. CASE p.step = "read"
    <3>1. p.cur \in signals \cup {0} /\ Delivered(inbox, p.cur)
      BY <2>1, <2>3 DEF NobodyLeftOut, HandOK
    <3> QED
      BY <1>1, <2>2, <2>3, <3>1 DEF NobodyLeftOut, Delivered
  <2>4. CASE p.step = "commit"
    <3>1. p.cur \in signals \cup {0} /\ Delivered(inbox \cup p.items, p.cur)
      BY <2>1, <2>4 DEF NobodyLeftOut, HandOK
    <3> QED
      BY <1>1, <2>2, <2>4, <3>1 DEF NobodyLeftOut, Delivered
  <2>5. CASE p.step \in {"signal", "users"}
    <3>1. Head(p.sigs) \in signals /\ Head(p.sigs) \in SignalId /\ Head(p.sigs) \in Nat
      BY <2>1, <2>5, BatchParts DEF HandOK, PassOK, Pass
    <3>2. \A u \in User, i \in SignalId : <<u, i>> \in owed' /\ i <= Head(p.sigs) => <<u, i>> \in owed
      BY <2>2, <3>1
    <3>3. Delivered(inbox \cup p.items, Head(p.sigs) - 1)'
      <4>1. \A i \in SignalId : i <= Head(p.sigs) - 1 => i <= Head(p.sigs)
        BY <1>3, <3>1
      <4> QED
        BY <1>1, <2>1, <2>5, <3>2, <4>1 DEF NobodyLeftOut, Delivered
    <3>4. p.step = "users" =>
            \A u \in User : <<u, Head(p.sigs)>> \in owed' =>
              <<u, Head(p.sigs)>> \in inbox \cup p.items \/ u \in Range(p.users)
      BY <2>1, <3>1, <3>2 DEF NobodyLeftOut
    <3> QED
      BY <1>1, <2>5, <3>3, <3>4 DEF NobodyLeftOut
  <2>6. CASE p.step = "idle"
    BY <1>1, <2>6 DEF NobodyLeftOut
  <2> QED
    BY <2>1, <2>3, <2>4, <2>5, <2>6 DEF PassOK, Pass
<1> QED
  BY <1>1, <1>4, <1>5, <1>6, <1>7 DEF FanInv

-----------------------------------------------------------------------------
(* The worker's steps.                                                      *)
LEMMA Outside ==
  ASSUME NEW w \in Worker, WorkerStep(w)
  PROVE  UNCHANGED <<drawn, signals, owed>> /\ (~CommitPass(w) => inbox' = inbox /\ cursor' = cursor)
         /\ budget' = budget
BY DEF WorkerStep, ReadCursor, ReadBatch, Starts, ReadFollowers, InsertItem, InsertDuplicate, SignalDone, Passed,
       CommitPass, Step

LEMMA NoPassFan == HandOK(NoPass) /\ NobodyLeftOut(NoPass)
BY NoPassOK DEF HandOK, NobodyLeftOut

LEMMA ReadCursorFan == ASSUME TypeInv, FanInv, NEW w \in Worker, ReadCursor(w) PROVE FanInv'
<1> DEFINE new == pass'[w]
<1>1. Alone(w) /\ new.step = "read" /\ new.cur = cursor /\ new.items = {}
  BY ReadCursorStep
<1>2. HandOK(new)
  BY <1>1 DEF HandOK, FanInv, Published
<1>3. budget.errors = 0 => NobodyLeftOut(new)
  BY <1>1 DEF NobodyLeftOut, FanInv, Complete
<1>4. inbox' = inbox /\ cursor' = cursor /\ UNCHANGED <<drawn, signals, owed>> /\ budget' = budget
  BY DEF ReadCursor, Step
<1> QED
  BY <1>1, <1>2, <1>3, <1>4, PassStep DEF Alone

LEMMA HeadLeast ==
  ASSUME NEW ids \in Seq(SignalId), ids # <<>>, Ascending(ids)
  PROVE  \A x \in Range(ids) : Head(ids) <= x /\ x <= Last(ids)
<1>1. /\ Head(ids) = ids[1] /\ Len(ids) \in Nat /\ Len(ids) > 0 /\ DOMAIN ids = 1..Len(ids)
      /\ 1 \in DOMAIN ids /\ Len(ids) \in DOMAIN ids
  BY Parts
<1> SUFFICES ASSUME NEW i \in DOMAIN ids PROVE Head(ids) <= ids[i] /\ ids[i] <= Last(ids)
  BY DEF Range
<1>2. ids[i] \in Nat /\ ids[1] \in Nat /\ ids[Len(ids)] \in Nat
      /\ (i = 1 \/ 1 < i) /\ (i = Len(ids) \/ i < Len(ids))
  BY <1>1 DEF SignalId
<1>3. Head(ids) <= ids[i]
  BY <1>1, <1>2 DEF Ascending
<1>4. ids[i] <= Last(ids)
  BY <1>1, <1>2 DEF Ascending, Last
<1> QED
  BY <1>3, <1>4

LEMMA ReadBatchFan == ASSUME TypeInv, FanInv, NEW w \in Worker, ReadBatch(w) PROVE FanInv'
<1> DEFINE p == pass[w]
           new == pass'[w]
<1>1. inbox' = inbox /\ cursor' = cursor /\ UNCHANGED <<drawn, signals, owed>> /\ budget' = budget
      /\ p.step = "read"
  BY DEF ReadBatch, Starts, Step
<1>2. Alone(w) /\ p.items = {} /\ PassOK(new)
  BY <1>1, ReadBatchStep, NoPassOK DEF Alone, TypeInv, PassOK, FanInv, HandOK
<1>3. CASE new = NoPass
  BY <1>1, <1>2, <1>3, NoPassFan, PassStep DEF Alone
<1>4. CASE new # NoPass
  <2> DEFINE sigs == new.sigs
  <2>1. /\ new.step = "signal" /\ new.items = {} /\ sigs # <<>> /\ Range(sigs) \subseteq NewSignals(w)
        /\ FirstOf(sigs, NewSignals(w))
    BY <1>2, <1>4, ReadBatchStep
  <2>2. signals \subseteq SignalId /\ SignalId \subseteq Nat /\ p.cur \in Nat
    BY Signals, Passes DEF SignalId, PassOK, Pass
  <2>3. sigs \in Seq(SignalId)
    BY <1>2 DEF PassOK, Pass
  <2>4. \A x \in Range(sigs) : x \in signals /\ p.cur < x /\ Head(sigs) <= x /\ x <= Last(sigs)
    BY <2>1, <2>3, HeadLeast DEF NewSignals, FirstOf
  <2>5. Head(sigs) \in Range(sigs) /\ Last(sigs) \in Range(sigs)
    BY <2>1, <2>3, Parts DEF Range, Last
  <2>6. ASSUME NEW i \in signals, p.cur < i, i \notin Range(sigs) PROVE Last(sigs) < i
    BY <2>1, <2>5, <2>6 DEF NewSignals, FirstOf
  <2>7. Head(sigs) \in Nat /\ Last(sigs) \in Nat /\ p.cur < Head(sigs) /\ Head(sigs) <= Last(sigs)
    BY <2>2, <2>4, <2>5
  <2>8. InBatch(sigs)
    <3>1. ASSUME NEW i \in signals, Head(sigs) < i, i <= Last(sigs) PROVE i \in Range(sigs)
      <4>1. i \in Nat
        BY <2>2
      <4>2. p.cur < i
        BY <2>2, <2>7, <3>1, <4>1
      <4> QED
        BY <2>6, <2>7, <3>1, <4>1, <4>2
    <3> QED
      BY <2>1, <2>4, <3>1 DEF InBatch, FirstOf
  <2>9. HandOK(new)
    BY <2>1, <2>8 DEF HandOK, ItemsUpTo
  <2>10. ASSUME budget.errors = 0 PROVE NobodyLeftOut(new)
    <3>1. Delivered(inbox, p.cur)
      BY <1>1, <2>10 DEF FanInv, NobodyLeftOut
    <3>2. ASSUME NEW u \in User, NEW i \in SignalId, <<u, i>> \in owed, i <= Head(sigs) - 1
          PROVE  <<u, i>> \in inbox
      <4>1. i \in signals /\ i \in Nat
        BY <2>2, <3>2 DEF TypeInv
      <4>2. i <= p.cur
        BY <2>2, <2>4, <2>6, <2>7, <3>2, <4>1
      <4> QED
        BY <3>1, <3>2, <4>2 DEF Delivered
    <3> QED
      BY <2>1, <3>2 DEF NobodyLeftOut, Delivered
  <2> QED
    BY <1>1, <1>2, <2>9, <2>10, PassStep DEF Alone
<1> QED
  BY <1>3, <1>4

(* A pass that is at a signal: what it knows of it.                         *)
LEMMA AtSignal ==
  ASSUME TypeInv, FanInv, NEW w \in Worker, pass[w].step \in {"signal", "users"}
  PROVE  /\ PassOK(pass[w]) /\ pass[w].sigs \in Seq(SignalId) /\ pass[w].sigs # <<>>
         /\ InBatch(pass[w].sigs) /\ ItemsUpTo(pass[w], Head(pass[w].sigs))
         /\ Head(pass[w].sigs) \in signals /\ Head(pass[w].sigs) \in SignalId /\ Head(pass[w].sigs) \in Nat
         /\ budget.errors = 0 => Delivered(inbox \cup pass[w].items, Head(pass[w].sigs) - 1)
<1>1. PassOK(pass[w]) /\ pass[w].sigs \in Seq(SignalId) /\ pass[w].sigs # <<>>
  BY Passes DEF PassOK, Pass
<1>2. InBatch(pass[w].sigs) /\ ItemsUpTo(pass[w], Head(pass[w].sigs))
  BY DEF FanInv, HandOK
<1>3. Head(pass[w].sigs) \in signals /\ Head(pass[w].sigs) \in SignalId /\ Head(pass[w].sigs) \in Nat
  BY <1>1, <1>2, BatchParts
<1>4. budget.errors = 0 => Delivered(inbox \cup pass[w].items, Head(pass[w].sigs) - 1)
  BY DEF FanInv, NobodyLeftOut
<1> QED
  BY <1>1, <1>2, <1>3, <1>4

LEMMA ReadFollowersFan == ASSUME TypeInv, FanInv, NEW w \in Worker, ReadFollowers(w) PROVE FanInv'
<1> DEFINE p == pass[w]
           new == pass'[w]
<1>1. inbox' = inbox /\ cursor' = cursor /\ UNCHANGED <<drawn, signals, owed>> /\ budget' = budget
      /\ p.step = "signal"
  BY DEF ReadFollowers, Step
<1>2. Alone(w) /\ new.step = "users" /\ Range(new.users) = follows /\ new.sigs = p.sigs /\ new.items = p.items
  BY ReadFollowersStep
<1>3. InBatch(p.sigs) /\ ItemsUpTo(p, Head(p.sigs))
      /\ (budget.errors = 0 => Delivered(inbox \cup p.items, Head(p.sigs) - 1))
  BY <1>1, AtSignal
<1>4. HandOK(new)
  BY <1>2, <1>3 DEF HandOK, ItemsUpTo
<1>5. \A u \in User : <<u, Head(p.sigs)>> \in owed => u \in follows
  BY DEF TypeInv
<1>6. budget.errors = 0 => NobodyLeftOut(new)
  BY <1>2, <1>3, <1>5 DEF NobodyLeftOut
<1> QED
  BY <1>1, <1>2, <1>4, <1>6, PassStep DEF Alone

LEMMA InsertItemFan == ASSUME TypeInv, FanInv, NEW w \in Worker, InsertItem(w) PROVE FanInv'
<1> DEFINE p == pass[w]
           new == pass'[w]
           item == <<Head(p.users), Head(p.sigs)>>
<1>1. inbox' = inbox /\ cursor' = cursor /\ UNCHANGED <<drawn, signals, owed>> /\ budget' = budget
      /\ Inserting(w) /\ p.step = "users"
  BY DEF InsertItem, Inserting, Step
<1>2. Alone(w) /\ new.step = "users" /\ new.sigs = p.sigs /\ new.users = Tail(p.users)
      /\ new.items = p.items \cup {item}
  BY InsertItemStep DEF Item
<1>3. Range(p.users) = {Head(p.users)} \cup Range(Tail(p.users))
  BY <1>1, Turn
<1>4. InBatch(p.sigs) /\ ItemsUpTo(p, Head(p.sigs)) /\ Head(p.sigs) \in signals /\ Head(p.sigs) \in Nat
      /\ (budget.errors = 0 => Delivered(inbox \cup p.items, Head(p.sigs) - 1))
  BY <1>1, AtSignal
<1>5. ItemsUpTo(new, Head(p.sigs))
  BY <1>2, <1>4 DEF ItemsUpTo
<1>6. HandOK(new)
  BY <1>2, <1>4, <1>5 DEF HandOK
<1>7. ASSUME budget.errors = 0 PROVE NobodyLeftOut(new)
  <2>1. Delivered(inbox \cup new.items, Head(p.sigs) - 1)
    BY <1>2, <1>4, <1>7 DEF Delivered
  <2>2. ASSUME NEW u \in User, <<u, Head(p.sigs)>> \in owed
        PROVE  <<u, Head(p.sigs)>> \in inbox \cup new.items \/ u \in Range(new.users)
    <3>1. <<u, Head(p.sigs)>> \in inbox \cup p.items \/ u \in Range(p.users)
      BY <1>1, <1>7, <2>2 DEF FanInv, NobodyLeftOut
    <3> QED
      BY <1>2, <1>3, <3>1
  <2> QED
    BY <1>2, <2>1, <2>2 DEF NobodyLeftOut
<1> QED
  BY <1>1, <1>2, <1>6, <1>7, PassStep DEF Alone

(* A duplicate is the reason for rolling back that costs nobody anything:   *)
(* an inbox that has the item is complete up to it.                         *)
LEMMA RolledBackFan ==
  ASSUME TypeInv, FanInv, NEW w \in Worker, InsertDuplicate(w) \/ InsertFails(w)
  PROVE  FanInv'
<1> DEFINE p == pass[w]
           new == pass'[w]
<1>1. /\ inbox' = inbox /\ cursor' = cursor /\ UNCHANGED <<drawn, signals, owed>>
      /\ Inserting(w) /\ p.step = "users" /\ Step(w, RolledBack(w))
  BY DEF InsertDuplicate, InsertFails, Inserting, Step
<1>2. budget' \in Budget /\ (budget'.errors = 0 => budget.errors = 0 /\ InsertDuplicate(w))
  <2>1. CASE InsertDuplicate(w)
    BY <2>1 DEF InsertDuplicate, TypeInv
  <2>2. CASE InsertFails(w)
    <3>1. budget' = [budget EXCEPT !.errors = @ + 1] /\ budget.errors < MaxErrors
      BY <2>2 DEF InsertFails
    <3>2. budget \in Budget /\ budget.errors \in Nat
      BY DEF TypeInv, Budget
    <3>3. budget'.errors = budget.errors + 1
      BY <3>1, <3>2 DEF Budget
    <3> QED
      BY <3>1, <3>2, <3>3, BudgetType
  <2> QED
    BY <1>1, <2>1, <2>2
<1>3. Alone(w) /\ new.step = "users" /\ new.sigs = p.sigs /\ new.users = Tail(p.users) /\ new.items = {}
  BY <1>1, <1>2, RolledBackStep
<1>4. InBatch(p.sigs) /\ Head(p.sigs) \in SignalId /\ Head(p.sigs) \in Nat
  BY <1>1, AtSignal
<1>5. HandOK(new)
  BY <1>3, <1>4 DEF HandOK, ItemsUpTo
<1>6. ASSUME budget'.errors = 0 PROVE NobodyLeftOut(new)
  <2>1. Item(w) \in inbox /\ Item(w) = <<Head(p.users), Head(p.sigs)>> /\ Head(p.users) \in User
    BY <1>1, <1>2, <1>6, Turn DEF InsertDuplicate
  <2>2. Delivered(inbox, Head(p.sigs))
    BY <1>2, <1>4, <1>6, <2>1 DEF FanInv, Complete
  <2>3. Delivered(inbox \cup new.items, Head(p.sigs) - 1)
    <3>1. \A i \in SignalId : i <= Head(p.sigs) - 1 => i <= Head(p.sigs)
      BY <1>4 DEF SignalId
    <3> QED
      BY <2>2, <3>1 DEF Delivered
  <2>4. \A u \in User : <<u, Head(p.sigs)>> \in owed => <<u, Head(p.sigs)>> \in inbox
    BY <1>4, <2>2 DEF Delivered
  <2> QED
    BY <1>3, <2>3, <2>4 DEF NobodyLeftOut
<1> QED
  BY <1>1, <1>2, <1>3, <1>5, <1>6, PassStep DEF Alone

LEMMA SignalDoneFan == ASSUME TypeInv, FanInv, NEW w \in Worker, SignalDone(w) PROVE FanInv'
<1> DEFINE p == pass[w]
           new == pass'[w]
           all == inbox \cup p.items
<1>1. inbox' = inbox /\ cursor' = cursor /\ UNCHANGED <<drawn, signals, owed>> /\ budget' = budget
      /\ p.step = "users" /\ p.users = <<>>
  BY DEF SignalDone, Passed, Step
<1>2. /\ Alone(w) /\ new.cur = Head(p.sigs) /\ new.sigs = Tail(p.sigs) /\ new.items = p.items
      /\ new.step = IF Len(p.sigs) = 1 THEN "commit" ELSE "signal"
  BY SignalDoneStep
<1>3. /\ p.sigs \in Seq(SignalId) /\ p.sigs # <<>> /\ InBatch(p.sigs) /\ ItemsUpTo(p, Head(p.sigs))
      /\ Head(p.sigs) \in signals /\ Head(p.sigs) \in Nat
      /\ budget.errors = 0 => Delivered(all, Head(p.sigs) - 1)
  BY <1>1, AtSignal
<1>4. ASSUME budget.errors = 0 PROVE Delivered(all, Head(p.sigs))
  <2>1. \A u \in User : <<u, Head(p.sigs)>> \in owed => <<u, Head(p.sigs)>> \in all
    <3>1. Range(p.users) = {}
      BY <1>1 DEF Range
    <3> QED
      BY <1>1, <1>4, <3>1 DEF FanInv, NobodyLeftOut
  <2>2. \A i \in SignalId : i <= Head(p.sigs) => i = Head(p.sigs) \/ i <= Head(p.sigs) - 1
    BY <1>3 DEF SignalId
  <2> QED
    BY <1>3, <1>4, <2>1, <2>2 DEF Delivered
<1>5. CASE Len(p.sigs) = 1
  <2>1. new.step = "commit" /\ ItemsUpTo(new, new.cur) /\ new.cur \in signals
    BY <1>2, <1>3, <1>5 DEF ItemsUpTo
  <2>2. HandOK(new)
    BY <2>1 DEF HandOK
  <2>3. budget.errors = 0 => NobodyLeftOut(new)
    BY <1>2, <1>4, <2>1 DEF NobodyLeftOut
  <2> QED
    BY <1>1, <1>2, <2>2, <2>3, PassStep DEF Alone
<1>6. CASE Len(p.sigs) # 1
  <2> DEFINE rest == Tail(p.sigs)
  <2>1. /\ rest \in Seq(SignalId) /\ rest # <<>> /\ InBatch(rest) /\ Head(p.sigs) < Head(rest)
        /\ \A i \in signals : i < Head(rest) => i <= Head(p.sigs)
    BY <1>3, <1>6, BatchParts
  <2>2. Head(rest) \in Nat /\ signals \subseteq SignalId /\ SignalId \subseteq Nat
    <3>1. Head(rest) \in Nat
      BY <2>1, BatchParts
    <3>2. signals \subseteq SignalId
      BY Signals
    <3>3. SignalId \subseteq Nat
      BY DEF SignalId
    <3> QED
      BY <3>1, <3>2, <3>3
  <2>3. new.step = "signal" /\ new.sigs = rest /\ new.items = p.items
    BY <1>2, <1>6
  <2>4. ItemsUpTo(p, Head(rest))
    <3>1. \A i \in SignalId : i <= Head(p.sigs) => i <= Head(rest)
      BY <1>3, <2>1, <2>2
    <3> QED
      BY <1>3, <3>1 DEF ItemsUpTo
  <2>5. HandOK(new)
    BY <2>1, <2>3, <2>4 DEF HandOK, ItemsUpTo
  <2>6. ASSUME budget.errors = 0 PROVE NobodyLeftOut(new)
    <3>1. \A u \in User, i \in SignalId : <<u, i>> \in owed /\ i <= Head(rest) - 1 => i <= Head(p.sigs)
      <4> SUFFICES ASSUME NEW u \in User, NEW i \in SignalId, <<u, i>> \in owed, i <= Head(rest) - 1
                   PROVE  i <= Head(p.sigs)
        OBVIOUS
      <4>1. i \in signals
        BY DEF TypeInv
      <4>2. i < Head(rest)
        <5>1. i \in Nat
          BY <2>2
        <5> HIDE DEF rest
        <5> QED
          BY <2>2, <5>1
      <4> QED
        BY <2>1, <4>1, <4>2
    <3>2. Delivered(all, Head(rest) - 1)
      BY <1>4, <2>6, <3>1 DEF Delivered
    <3> QED
      BY <2>3, <3>2 DEF NobodyLeftOut
  <2> QED
    BY <1>1, <1>2, <2>5, <2>6, PassStep DEF Alone
<1> QED
  BY <1>5, <1>6

LEMMA CommitPassFan == ASSUME TypeInv, FanInv, NEW w \in Worker, CommitPass(w) PROVE FanInv'
<1> DEFINE p == pass[w]
<1>1. /\ inbox' = inbox \cup p.items /\ cursor' \in {p.cur, cursor} /\ p.step = "commit"
      /\ UNCHANGED <<drawn, signals, owed>> /\ budget' = budget
  BY DEF CommitPass, Step
<1>2. Alone(w) /\ pass'[w] = NoPass
  BY CommitPassStep
<1>3. p.cur \in signals /\ ItemsUpTo(p, p.cur) /\ signals \subseteq SignalId /\ SignalId \subseteq Nat
  BY <1>1, Signals DEF FanInv, HandOK, SignalId
<1>4. Published'
  BY <1>1, <1>3 DEF FanInv, Published, ItemsUpTo
<1>5. \A x \in Worker : HandOK(pass[x])'
  <2>1. \A q : HandOK(q)' = HandOK(q)
    BY <1>1 DEF HandOK, InBatch, ItemsUpTo
  <2> QED
    BY <1>2, <2>1, NoPassFan DEF FanInv, Alone
<1>6. ASSUME budget.errors = 0 PROVE Complete'
  <2>1. Complete /\ Delivered(inbox \cup p.items, p.cur)
    BY <1>1, <1>6 DEF FanInv, NobodyLeftOut
  <2>2. ASSUME NEW v \in User, NEW j \in SignalId, <<v, j>> \in inbox'
        PROVE  Delivered(inbox \cup p.items, j)
    <3>1. CASE <<v, j>> \in inbox
      BY <2>1, <3>1 DEF Complete, Delivered
    <3>2. CASE <<v, j>> \in p.items
      <4>1. j <= p.cur /\ j \in Nat /\ p.cur \in Nat
        BY <1>3, <3>2 DEF ItemsUpTo
      <4>2. \A i \in SignalId : i <= j => i <= p.cur
        BY <4>1 DEF SignalId
      <4> QED
        BY <2>1, <4>2 DEF Delivered
    <3> QED
      BY <1>1, <2>2, <3>1, <3>2
  <2>3. Delivered(inbox \cup p.items, cursor')
    BY <1>1, <2>1 DEF Complete, Delivered
  <2> QED
    BY <1>1, <2>2, <2>3 DEF Complete, Delivered
<1>7. ASSUME budget.errors = 0, NEW x \in Worker PROVE NobodyLeftOut(pass[x])'
  <2>1. \A q : NobodyLeftOut(q) => NobodyLeftOut(q)'
    BY <1>1 DEF NobodyLeftOut, Delivered
  <2>2. NobodyLeftOut(pass[x])
    BY <1>7 DEF FanInv
  <2>3. CASE x = w
    BY <1>2, <2>1, <2>3, NoPassFan
  <2>4. CASE x # w
    BY <1>2, <2>1, <2>2, <2>4 DEF Alone
  <2> QED
    BY <2>3, <2>4
<1> QED
  BY <1>1, <1>4, <1>5, <1>6, <1>7 DEF FanInv

LEMMA PassDiesFan == ASSUME TypeInv, FanInv, NEW w \in Worker, PassDies(w) PROVE FanInv'
<1>1. inbox' = inbox /\ cursor' = cursor /\ UNCHANGED <<drawn, signals, owed>> /\ budget'.errors = budget.errors
  BY DEF PassDies, Step, TypeInv, Budget
<1>2. Alone(w) /\ pass'[w] = NoPass
  BY PassDiesStep
<1> QED
  BY <1>1, <1>2, NoPassFan, PassStep DEF Alone

LEMMA FanStep == ASSUME OrderedIds, TypeInv, FanInv, [Next]_vars PROVE FanInv'
<1>1. CASE DrawId \/ Publish \/ Follow \/ Unfollow
  BY <1>1, OutsideStep
<1>2. CASE UNCHANGED vars
  BY <1>2 DEF vars, FanInv, Published, HandOK, InBatch, ItemsUpTo, NobodyLeftOut, Complete, Delivered
<1>3. ASSUME NEW w \in Worker, WorkerStep(w) \/ InsertFails(w) \/ PassDies(w) PROVE FanInv'
  BY <1>3, ReadCursorFan, ReadBatchFan, ReadFollowersFan, InsertItemFan, RolledBackFan, SignalDoneFan,
     CommitPassFan, PassDiesFan DEF WorkerStep
<1> QED
  BY <1>1, <1>2, <1>3 DEF Next

LEMMA FanLosesNothing == ASSUME TypeInv, FanInv PROVE LosesNothing
<1> SUFFICES ASSUME budget.errors = 0
             PROVE  /\ NothingSkipped
                    /\ \A o, p \in owed : (o[1] = p[1] /\ p[2] < o[2] /\ o \in inbox) => p \in inbox
  BY DEF LosesNothing, OnlyErrorsSkip, InOrder
<1>1. Complete /\ owed \subseteq User \X SignalId
  BY Signals DEF FanInv
<1>2. \A o \in owed : o[1] \in User /\ o[2] \in SignalId /\ o = <<o[1], o[2]>>
  BY <1>1
<1>3. NothingSkipped
  BY <1>1, <1>2 DEF NothingSkipped, Complete, Delivered
<1>4. ASSUME NEW o \in owed, NEW p \in owed, p[2] < o[2], o \in inbox PROVE p \in inbox
  <2>1. Delivered(inbox, o[2])
    BY <1>1, <1>2, <1>4 DEF Complete
  <2>2. p[2] <= o[2]
    BY <1>2, <1>4 DEF SignalId
  <2> QED
    BY <1>2, <1>4, <2>1, <2>2 DEF Delivered
<1> QED
  BY <1>3, <1>4

(* However many workers share the cursor, whatever dies, is rolled back or  *)
(* written late: unless an insert fails, whoever is owed a signal has it    *)
(* once the cursor is past it, and nobody has a later one before it - if    *)
(* ids are committed in the order they are drawn.                           *)
THEOREM NothingIsLost ==
  ASSUME OrderedIds
  PROVE  Spec => []LosesNothing
<1>1. TypeInv /\ FanInv /\ [Next]_vars => (TypeInv /\ FanInv)'
  BY TypeStep, FanStep
<1> QED
  BY <1>1, InitType, InitFan, FanLosesNothing, PTL DEF Spec

=============================================================================
