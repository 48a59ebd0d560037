----------------------------- MODULE OmsProofs -----------------------------
(***************************************************************************)
(* Theorems about Oms, for every set of keys, client order ids and venue   *)
(* ids, every bound, and both adapters.                                    *)
(***************************************************************************)
EXTENDS Oms, TLAPS

(* A stored order carries a key, and sits under the id of that key.         *)
BookOK(book) ==
  \A c \in Coid :
    IF Exists(book, c) THEN book[c].key \in Key /\ CoidOf[book[c].key] = c
                       ELSE book[c] = Absent

IndexOK == \A k \in Key : idem[k] \in {NoCoid, CoidOf[k]}

(* A call in progress works on an order that exists.                        *)
CallOK ==
  /\ call.step # "idle" => call.coid \in Coid
  /\ call.step # "idle" => Exists(orders, call.coid)
  /\ \A c \in call.todo : Exists(orders, c)

(* A live order of the venue is not completely filled.                      *)
VenueOK == \A v \in VenueId : IsLiveAtVenue(v) => venue[v].filled < Qty

TypeInv == BookTypeOK /\ BookOK(orders) /\ BookOK(rows) /\ IndexOK /\ CallOK /\ VenueOK

(* Every order in memory is found again by its key.                         *)
IndexCovers == \A c \in Coid : Exists(orders, c) => idem[orders[c].key] = c

(* Every row has its order in memory: Reload would bring nothing back.      *)
MemoryCoversRows == \A c \in Coid : Exists(rows, c) => orders[c].key = rows[c].key

(* A submission has started and its exchange call is still to come.         *)
Submitting ==
  \/ call.tag \in {"created", "submitted"} /\ call.step \in {"row", "event"}
  \/ call.op = "submit" /\ call.step = "adapter"

(* No submission is under way.                                              *)
NoSubmission == ~Submitting /\ (call.step = "adapter" => call.tag = "none")

(* What each step of a submission finds in memory and in the ledger.        *)
SubmissionOK ==
  /\ (call.tag = "created" /\ call.step \in {"row", "event"})
        => orders[call.coid].state = "created"
  /\ call.step = "adapter" => call.tag = "none"
  /\ (Submitting /\ call.tag # "created") => orders[call.coid].state = "submitted"
  /\ (Submitting /\ call.tag # "created" /\ call.step # "row")
        => rows[call.coid] = orders[call.coid]

(* A key placed at the exchange has a row past CREATED, an order past       *)
(* CREATED, and no submission under way.                                    *)
PlacedOK ==
  \A k \in Key : placed[k] > 0 =>
    /\ rows[CoidOf[k]].key = k /\ rows[CoidOf[k]].state # "created"
    /\ orders[CoidOf[k]].state # "created"
    /\ ~(Submitting /\ call.coid = CoidOf[k])

OnceInv ==
  AtMostOncePlacement /\ IndexCovers /\ MemoryCoversRows /\ SubmissionOK /\ PlacedOK

-----------------------------------------------------------------------------
(* Lemmas on the operators of the model.                                    *)

(* No exchange status takes an order back to CREATED.                       *)
LEMMA StatusNeverCreated ==
  ASSUME NEW status
  PROVE  MapStatus(status) \in OrderStates \ {"created"}
BY DEF MapStatus, OrderStates, LiveStates, TerminalStates

(* A transition between states stays among the states, and what is past     *)
(* CREATED stays past it.                                                   *)
LEMMA TransitionOK ==
  ASSUME NEW s \in OrderStates, NEW t \in OrderStates
  PROVE  /\ Transition(s, t) \in OrderStates
         /\ t # "created" /\ s # "created" => Transition(s, t) # "created"
         /\ s \in TerminalStates => Transition(s, t) = s
BY DEF Transition

(* Upsert leaves a well-formed book well formed.                            *)
LEMMA UpsertOK ==
  ASSUME NEW book \in [Coid -> Order], BookOK(book),
         NEW c \in Coid, NEW o \in Order,
         o.state # "absent", o.key \in Key, CoidOf[o.key] = c
  PROVE  /\ Upsert(book, c, o) \in [Coid -> Order]
         /\ BookOK(Upsert(book, c, o))
         /\ Upsert(book, c, o)[c] = o
BY OmsConstants DEF Upsert, BookOK, Exists, Absent, Order, OrderStates

(* Updating a stored order without touching its key.                        *)
LEMMA UpdateOK ==
  ASSUME NEW book \in [Coid -> Order], BookOK(book),
         NEW c \in Coid, Exists(book, c), NEW o \in Order,
         o.state # "absent", o.key = book[c].key
  PROVE  /\ [book EXCEPT ![c] = o] \in [Coid -> Order]
         /\ BookOK([book EXCEPT ![c] = o])
BY DEF BookOK, Exists

(* Under UniqueIds an upsert touches the row of its own id only.            *)
LEMMA UpsertUnique ==
  ASSUME UniqueIds, NEW book \in [Coid -> Order], BookOK(book),
         NEW c \in Coid, NEW o \in Order, o.key \in Key, CoidOf[o.key] = c,
         NEW x \in Coid, x # c
  PROVE  Upsert(book, c, o)[x] = book[x]
BY OmsConstants DEF Upsert, BookOK, Exists, Absent, UniqueIds

LEMMA AbsentOK == Absent \in Order
BY OmsConstants DEF Absent, Order, OrderStates

(* An existing order is a record of the expected shape.                     *)
LEMMA ExistingOrder ==
  ASSUME TypeInv, NEW c \in Coid, Exists(orders, c)
  PROVE  /\ orders[c] \in Order /\ orders[c].state \in OrderStates
         /\ orders[c].key \in Key /\ CoidOf[orders[c].key] = c
         /\ orders[c].filled \in 0..Qty /\ orders[c].vid \in VenueId \cup {NoId}
BY DEF TypeInv, BookTypeOK, BookOK, Exists, Order

(* Setting the state of an existing order.                                  *)
LEMMA SetStateOK ==
  ASSUME TypeInv, NEW c \in Coid, Exists(orders, c), NEW t \in OrderStates,
         orders' = [orders EXCEPT ![c].state = Transition(@, t)]
  PROVE  /\ orders' \in [Coid -> Order] /\ BookOK(orders)'
         /\ \A x \in Coid : Exists(orders, x)' <=> Exists(orders, x)
         /\ \A x \in Coid : orders'[x].key = orders[x].key
         /\ \A x \in Coid \ {c} : orders'[x] = orders[x]
         /\ orders'[c].state = Transition(orders[c].state, t)
<1> DEFINE o == [orders[c] EXCEPT !.state = Transition(@, t)]
<1>1. orders \in [Coid -> Order] /\ BookOK(orders)
  BY DEF TypeInv, BookTypeOK
<1>2. o \in Order /\ o.state \in OrderStates /\ o.key = orders[c].key
      /\ o.state = Transition(orders[c].state, t)
  BY ExistingOrder, TransitionOK DEF Order
<1>3. orders' = [orders EXCEPT ![c] = o]
  BY <1>1
<1> HIDE DEF o
<1>4. o.state # "absent"
  BY <1>2 DEF OrderStates, LiveStates, TerminalStates
<1>5. orders' \in [Coid -> Order] /\ BookOK(orders')
  <2>1. [orders EXCEPT ![c] = o] \in [Coid -> Order] /\ BookOK([orders EXCEPT ![c] = o])
    BY <1>1, <1>2, <1>4, UpdateOK
  <2> QED
    BY <1>3, <2>1
<1>6. \A x \in Coid : Exists(orders, x)' <=> Exists(orders, x)
  BY <1>1, <1>3, <1>4 DEF Exists
<1>7. BookOK(orders)'
  BY <1>5 DEF BookOK, Exists
<1> QED
  BY <1>1, <1>2, <1>3, <1>5, <1>6, <1>7

(* Applying a reply to an existing order.                                   *)
LEMMA RepliesOK ==
  ASSUME TypeInv, call.step # "idle", NEW status, NEW v \in VenueId \cup {NoId},
         NEW filled \in 0..Qty, Replies(status, v, filled)
  PROVE  /\ orders' \in [Coid -> Order] /\ BookOK(orders)'
         /\ \A x \in Coid : Exists(orders, x)' <=> Exists(orders, x)
         /\ \A x \in Coid : orders'[x].key = orders[x].key
         /\ \A x \in Coid \ {call.coid} : orders'[x] = orders[x]
         /\ orders'[call.coid].state = Transition(orders[call.coid].state, MapStatus(status))
<1> DEFINE c == call.coid
           o == ApplyResult(orders[c], status, v, filled)
<1>1. orders \in [Coid -> Order] /\ BookOK(orders) /\ c \in Coid /\ Exists(orders, c)
  BY DEF TypeInv, BookTypeOK, CallOK
<1>2. MapStatus(status) \in OrderStates
  BY StatusNeverCreated
<1>3. o \in Order /\ o.state \in OrderStates /\ o.key = orders[c].key
      /\ o.state = Transition(orders[c].state, MapStatus(status))
  <2> DEFINE new == Transition(orders[c].state, MapStatus(status))
  <2>1. orders[c] \in Order /\ orders[c].state \in OrderStates
    BY <1>1, ExistingOrder
  <2>2. new \in OrderStates
    BY <1>2, <2>1, TransitionOK
  <2> HIDE DEF new
  <2>3. o = [orders[c] EXCEPT !.vid = IF v # NoId THEN v ELSE @, !.filled = filled, !.state = new]
    BY DEF ApplyResult, new
  <2> HIDE DEF o, c
  <2>4. o \in Order /\ o.state = new /\ o.key = orders[c].key
    BY <2>1, <2>2, <2>3 DEF Order
  <2> QED
    BY <2>2, <2>4 DEF new
<1>4. orders' = [orders EXCEPT ![c] = o]
  BY <1>1 DEF Replies
<1> HIDE DEF c, o
<1>5. o.state # "absent"
  BY <1>3 DEF OrderStates, LiveStates, TerminalStates
<1>6. orders' \in [Coid -> Order] /\ BookOK(orders')
  BY <1>1, <1>3, <1>4, <1>5, UpdateOK
<1>7. \A x \in Coid : Exists(orders, x)' <=> Exists(orders, x)
  BY <1>1, <1>4, <1>5 DEF Exists
<1>8. BookOK(orders)'
  BY <1>6 DEF BookOK, Exists
<1> QED
  BY <1>1, <1>3, <1>4, <1>6, <1>7, <1>8 DEF c

-----------------------------------------------------------------------------
(* Type correctness.  BookTypeOK alone is not inductive: the state of an order  *)
(* logged as an event is typed only because the call works on an order that *)
(* exists, and a fill stays within Qty only because a live order has room.  *)

LEMMA InitTypeInv == Init => TypeInv
BY OmsConstants, AbsentOK DEF Init, TypeInv, BookTypeOK, BookOK, Exists, IndexOK, CallOK, VenueOK,
   IsLiveAtVenue, Absent, Idle, Ops, Tags, Steps, OrderStates

(* A step that only advances the program counter, or only the histories.    *)
LEMMA ReturningKeepsTypes ==
  ASSUME TypeInv, UNCHANGED <<orders, idem, rows, venue>>,
         (call' = call \/ call' = Idle
            \/ \E op \in Ops, c \in Coid : Exists(orders, c) /\ call' = Calling(op, c)),
         events' \in [Coid -> SUBSET OrderStates],
         placed' \in [Key -> Nat],
         reported' \in [Key -> OrderStates \cup {"absent"}],
         budget' \in [calls : Nat, crashes : Nat, faults : Nat]
  PROVE  TypeInv'
<1>1. BookTypeOK' /\ CallOK'
  BY DEF TypeInv, BookTypeOK, CallOK, Idle, Calling, Exists, Ops, Tags, Steps
<1>2. BookOK(orders)' /\ BookOK(rows)' /\ IndexOK' /\ VenueOK'
  BY DEF TypeInv, BookOK, IndexOK, VenueOK, IsLiveAtVenue, Exists
<1> QED
  BY <1>1, <1>2 DEF TypeInv

(* A step that changes the order under way and goes on to record it.        *)
LEMMA RecordingKeepsTypes ==
  ASSUME TypeInv, UNCHANGED <<rows, reported>>,
         orders' \in [Coid -> Order], BookOK(orders)',
         NEW c \in Coid, NEW op \in Ops, NEW tag \in Tags, NEW todo \in SUBSET Coid,
         \A x \in todo \cup {c} : Exists(orders, x)',
         call' = Recording(op, tag, c, todo),
         idem' \in [Key -> Coid \cup {NoCoid}], IndexOK',
         events' \in [Coid -> SUBSET OrderStates],
         venue' \in [VenueId -> [key : Key \cup {NoKey}, filled : 0..Qty,
                                 st : {"none", "open", "partial", "filled", "cancelled"}]],
         VenueOK',
         placed' \in [Key -> Nat],
         budget' \in [calls : Nat, crashes : Nat, faults : Nat]
  PROVE  TypeInv'
<1>1. BookTypeOK' /\ CallOK'
  BY DEF TypeInv, BookTypeOK, CallOK, Recording, Steps
<1>2. BookOK(rows)'
  BY DEF TypeInv, BookOK, Exists
<1> QED
  BY <1>1, <1>2 DEF TypeInv

(* The venue entering or not entering an order.                             *)
LEMMA EntersOK ==
  ASSUME TypeInv, call.step # "idle",
         UNCHANGED venue \/ \E v \in VenueId, st \in {"open", "filled"} : Enters(v, st)
  PROVE  /\ venue' \in [VenueId -> [key : Key \cup {NoKey}, filled : 0..Qty,
                                 st : {"none", "open", "partial", "filled", "cancelled"}]]
         /\ VenueOK'
<1>1. CASE UNCHANGED venue
  BY <1>1 DEF TypeInv, BookTypeOK, VenueOK, IsLiveAtVenue
<1>2. CASE \E v \in VenueId, st \in {"open", "filled"} : Enters(v, st)
  <2>1. PICK v \in VenueId, st \in {"open", "filled"} : Enters(v, st)
    BY <1>2
  <2>2. orders[call.coid].key \in Key
    BY ExistingOrder DEF TypeInv, CallOK
  <2> DEFINE e == [key |-> orders[call.coid].key, st |-> st,
                   filled |-> IF st = "filled" THEN Qty ELSE 0]
  <2>3. e.key \in Key /\ e.filled \in 0..Qty /\ e.st = st /\ (st = "open" => e.filled < Qty)
        /\ e \in [key : Key \cup {NoKey}, filled : 0..Qty,
                 st : {"none", "open", "partial", "filled", "cancelled"}]
    BY <2>2, OmsConstants
  <2>4. venue' = [venue EXCEPT ![v] = e]
    BY <2>1 DEF Enters
  <2> HIDE DEF e
  <2> QED
    BY <2>1, <2>3, <2>4 DEF TypeInv, BookTypeOK, VenueOK, IsLiveAtVenue
<1> QED
  BY <1>1, <1>2

LEMMA CancelledOK ==
  ASSUME TypeInv, UNCHANGED venue \/ \E v \in VenueId : Cancelled(v)
  PROVE  /\ venue' \in [VenueId -> [key : Key \cup {NoKey}, filled : 0..Qty,
                                 st : {"none", "open", "partial", "filled", "cancelled"}]]
         /\ VenueOK'
BY DEF TypeInv, BookTypeOK, VenueOK, IsLiveAtVenue, Cancelled

(* The facts about a call in progress that every recording step needs.      *)
LEMMA InProgress ==
  ASSUME TypeInv, call.step # "idle"
  PROVE  /\ call.coid \in Coid /\ Exists(orders, call.coid)
         /\ call.op \in Ops /\ call.tag \in Tags /\ call.todo \in SUBSET Coid
         /\ orders[call.coid].state \in OrderStates
BY ExistingOrder DEF TypeInv, BookTypeOK, CallOK

LEMMA LogEventOK ==
  ASSUME TypeInv, LogEvent
  PROVE  events' \in [Coid -> SUBSET OrderStates] /\ call.step = "event"
<1>1. call.step = "event" /\ call.step # "idle"
  BY DEF LogEvent
<1>2. orders[call.coid].state \in OrderStates /\ "failed" \in OrderStates
  BY <1>1, InProgress DEF OrderStates, TerminalStates
<1> QED
  BY <1>1, <1>2 DEF LogEvent, TypeInv, BookTypeOK

LEMMA ExpireFirstKeepsTypes ==
  ASSUME TypeInv, NEW todo \in SUBSET Coid, \A x \in todo : Exists(orders, x),
         ExpireFirst("reconcile", todo), UNCHANGED <<idem, rows, venue, placed, reported>>,
         events' \in [Coid -> SUBSET OrderStates],
         budget' \in [calls : Nat, crashes : Nat, faults : Nat]
  PROVE  TypeInv'
<1>1. PICK c \in todo : /\ orders' = [orders EXCEPT ![c].state = Transition(@, "expired")]
                       /\ call' = Recording("reconcile", "expired", c, todo \ {c})
  BY DEF ExpireFirst
<1>2. c \in Coid /\ Exists(orders, c) /\ "expired" \in OrderStates
      /\ "reconcile" \in Ops /\ "expired" \in Tags /\ todo \ {c} \in SUBSET Coid
  BY DEF OrderStates, TerminalStates, Ops, Tags
<1>3. orders' \in [Coid -> Order] /\ BookOK(orders)'
      /\ \A x \in Coid : Exists(orders, x)' <=> Exists(orders, x)
  BY <1>1, <1>2, SetStateOK
<1>4. VenueOK' /\ IndexOK' /\ idem' \in [Key -> Coid \cup {NoCoid}] /\ placed' \in [Key -> Nat]
      /\ venue' \in [VenueId -> [key : Key \cup {NoKey}, filled : 0..Qty,
                                 st : {"none", "open", "partial", "filled", "cancelled"}]]
  BY DEF TypeInv, BookTypeOK, VenueOK, IndexOK, IsLiveAtVenue
<1>5. \A x \in (todo \ {c}) \cup {c} : Exists(orders, x)'
  BY <1>2, <1>3
<1>6. call' = Recording("reconcile", "expired", c, todo \ {c}) /\ UNCHANGED <<rows, reported>>
  BY <1>1
<1> QED
  BY <1>2, <1>3, <1>4, <1>5, <1>6, RecordingKeepsTypes

(* Raises and Replies both go on to record an order that exists.            *)
LEMMA AnswerKeepsTypes ==
  ASSUME TypeInv, call.step # "idle",
         \/ Raises
         \/ \E status : \E v \in VenueId \cup {NoId}, filled \in 0..Qty : Replies(status, v, filled),
         venue' \in [VenueId -> [key : Key \cup {NoKey}, filled : 0..Qty,
                                 st : {"none", "open", "partial", "filled", "cancelled"}]],
         VenueOK', UNCHANGED <<idem, rows, events, reported, budget>>,
         placed' \in [Key -> Nat]
  PROVE  TypeInv'
<1>1. call.coid \in Coid /\ Exists(orders, call.coid) /\ call.op \in Ops
  BY InProgress
<1>2. IndexOK' /\ idem' \in [Key -> Coid \cup {NoCoid}]
      /\ events' \in [Coid -> SUBSET OrderStates]
      /\ budget' \in [calls : Nat, crashes : Nat, faults : Nat]
  BY DEF TypeInv, BookTypeOK, IndexOK
<1>3. "failed" \in Tags /\ "result" \in Tags /\ {} \in SUBSET Coid /\ "failed" \in OrderStates
  BY DEF Tags, OrderStates, TerminalStates
<1>4. CASE Raises
  <2>1. orders' \in [Coid -> Order] /\ BookOK(orders)'
        /\ \A x \in Coid : Exists(orders, x)' <=> Exists(orders, x)
    BY <1>1, <1>3, <1>4, SetStateOK DEF Raises, Failing
  <2>2. call' = Recording(call.op, "failed", call.coid, {})
    BY <1>4 DEF Raises
  <2> QED
    BY <1>1, <1>2, <1>3, <2>1, <2>2, RecordingKeepsTypes
<1>5. CASE \E status : \E v \in VenueId \cup {NoId}, filled \in 0..Qty : Replies(status, v, filled)
  <2>0. PICK status : \E v \in VenueId \cup {NoId}, filled \in 0..Qty : Replies(status, v, filled)
    BY <1>5
  <2>1. PICK v \in VenueId \cup {NoId}, filled \in 0..Qty : Replies(status, v, filled)
    BY <2>0
  <2>2. orders' \in [Coid -> Order] /\ BookOK(orders)'
        /\ \A x \in Coid : Exists(orders, x)' <=> Exists(orders, x)
    BY <2>1, RepliesOK
  <2>3. call' = Recording(call.op, "result", call.coid, {})
    BY <2>1 DEF Replies
  <2> QED
    BY <1>1, <1>2, <1>3, <2>2, <2>3, RecordingKeepsTypes
<1> QED
  BY <1>4, <1>5

LEMMA StartsKeepTypes ==
  ASSUME TypeInv,
         \/ \E k \in Key : SubmitDuplicate(k) \/ SubmitNew(k)
         \/ \E c \in Coid : CancelLocally(c) \/ ReadBack(c)
         \/ \E c \in Coid : ContactVenue("cancel", c) \/ ContactVenue("status", c)
         \/ Reconcile
  PROVE  TypeInv'
<1>0. budget' \in [calls : Nat, crashes : Nat, faults : Nat]
  BY DEF TypeInv, BookTypeOK, SubmitDuplicate, SubmitNew, CancelLocally, ReadBack, ContactVenue,
     Reconcile, StartCall
<1>1. ASSUME NEW k \in Key, SubmitDuplicate(k) PROVE TypeInv'
  <2>1. idem[k] \in Coid /\ Exists(orders, idem[k])
    BY <1>1, OmsConstants DEF SubmitDuplicate, KnownKey, TypeInv, BookTypeOK
  <2>2. orders[idem[k]].state \in OrderStates
    BY <2>1, ExistingOrder
  <2>3. /\ call' = call /\ UNCHANGED <<orders, idem, rows, venue>>
        /\ events' \in [Coid -> SUBSET OrderStates] /\ placed' \in [Key -> Nat]
        /\ reported' \in [Key -> OrderStates \cup {"absent"}]
    BY <1>1, <2>2 DEF SubmitDuplicate, TypeInv, BookTypeOK
  <2> QED
    BY <1>0, <2>3, ReturningKeepsTypes
<1>2. ASSUME NEW k \in Key, SubmitNew(k) PROVE TypeInv'
  <2> DEFINE c == CoidOf[k]
  <2>1. c \in Coid /\ c # NoCoid
    BY OmsConstants
  <2>2. NewOrder(k) \in Order /\ NewOrder(k).state # "absent" /\ NewOrder(k).key = k
    BY OmsConstants DEF NewOrder, Order, OrderStates
  <2>3. orders' = [orders EXCEPT ![c] = NewOrder(k)] /\ call' = Recording("submit", "created", c, {})
        /\ idem' = [idem EXCEPT ![k] = c]
    BY <1>2 DEF SubmitNew
  <2>4. orders' \in [Coid -> Order] /\ Exists(orders, c)'
    BY <2>1, <2>2, <2>3 DEF TypeInv, BookTypeOK, Exists
  <2>5. BookOK(orders)'
    <3> SUFFICES ASSUME NEW x \in Coid
                 PROVE  IF Exists(orders', x)
                        THEN orders'[x].key \in Key /\ CoidOf[orders'[x].key] = x
                        ELSE orders'[x] = Absent
      BY DEF BookOK, Exists
    <3>1. CASE x = c
      BY <3>1, <2>2, <2>3, <2>4 DEF TypeInv, BookTypeOK, Exists
    <3>2. CASE x # c
      BY <3>2, <2>3 DEF TypeInv, BookTypeOK, BookOK, Exists
    <3> QED
      BY <3>1, <3>2
  <2>6. idem' \in [Key -> Coid \cup {NoCoid}] /\ IndexOK'
    BY <2>1, <2>3 DEF TypeInv, BookTypeOK, IndexOK
  <2>7. /\ UNCHANGED <<rows, reported>> /\ VenueOK' /\ events' \in [Coid -> SUBSET OrderStates]
        /\ placed' \in [Key -> Nat]
        /\ venue' \in [VenueId -> [key : Key \cup {NoKey}, filled : 0..Qty,
                                 st : {"none", "open", "partial", "filled", "cancelled"}]]
    BY <1>2 DEF SubmitNew, TypeInv, BookTypeOK, VenueOK, IsLiveAtVenue
  <2>8. "submit" \in Ops /\ "created" \in Tags /\ {} \in SUBSET Coid
        /\ \A x \in {} \cup {c} : Exists(orders, x)'
    BY <2>4 DEF Ops, Tags
  <2> HIDE DEF c
  <2> QED
    BY <1>0, <2>1, <2>3, <2>4, <2>5, <2>6, <2>7, <2>8, RecordingKeepsTypes
<1>3. ASSUME NEW c \in Coid, CancelLocally(c) PROVE TypeInv'
  <2>1. Exists(orders, c) /\ "cancelled" \in OrderStates
    BY <1>3 DEF CancelLocally, OrderStates, TerminalStates
  <2>2. orders' \in [Coid -> Order] /\ BookOK(orders)'
        /\ \A x \in Coid : Exists(orders, x)' <=> Exists(orders, x)
    BY <1>3, <2>1, SetStateOK DEF CancelLocally
  <2>3. /\ UNCHANGED <<rows, reported>> /\ VenueOK' /\ events' \in [Coid -> SUBSET OrderStates]
        /\ placed' \in [Key -> Nat] /\ idem' \in [Key -> Coid \cup {NoCoid}] /\ IndexOK'
        /\ venue' \in [VenueId -> [key : Key \cup {NoKey}, filled : 0..Qty,
                                 st : {"none", "open", "partial", "filled", "cancelled"}]]
    BY <1>3 DEF CancelLocally, TypeInv, BookTypeOK, VenueOK, IsLiveAtVenue, IndexOK
  <2>4. "cancel" \in Ops /\ "local" \in Tags /\ {} \in SUBSET Coid
        /\ \A x \in {} \cup {c} : Exists(orders, x)'
    BY <2>1, <2>2 DEF Ops, Tags
  <2>5. call' = Recording("cancel", "local", c, {})
    BY <1>3 DEF CancelLocally
  <2> QED
    BY <1>0, <2>2, <2>3, <2>4, <2>5, RecordingKeepsTypes
<1>4. ASSUME NEW c \in Coid, ReadBack(c) PROVE TypeInv'
  <2>1. orders[c].state \in OrderStates
    BY <1>4, ExistingOrder DEF ReadBack
  <2>2. /\ call' = call /\ UNCHANGED <<orders, idem, rows, venue>>
        /\ events' \in [Coid -> SUBSET OrderStates] /\ placed' \in [Key -> Nat]
        /\ reported' \in [Key -> OrderStates \cup {"absent"}]
    BY <1>4, <2>1 DEF ReadBack, TypeInv, BookTypeOK
  <2> QED
    BY <1>0, <2>2, ReturningKeepsTypes
<1>5. ASSUME NEW c \in Coid, NEW op \in {"cancel", "status"}, ContactVenue(op, c) PROVE TypeInv'
  <2>1. /\ op \in Ops /\ Exists(orders, c) /\ call' = Calling(op, c)
        /\ UNCHANGED <<orders, idem, rows, venue>>
        /\ events' \in [Coid -> SUBSET OrderStates] /\ placed' \in [Key -> Nat]
        /\ reported' \in [Key -> OrderStates \cup {"absent"}]
    BY <1>5 DEF ContactVenue, TypeInv, BookTypeOK, Ops
  <2> QED
    BY <1>0, <2>1, ReturningKeepsTypes
<1>6. CASE Reconcile
  <2>1. Unlisted \in SUBSET Coid /\ \A x \in Unlisted : Exists(orders, x)
    BY DEF Unlisted, Exists, LiveStates
  <2>2. /\ ExpireFirst("reconcile", Unlisted) /\ UNCHANGED <<idem, rows, venue, placed, reported>>
        /\ events' \in [Coid -> SUBSET OrderStates]
    BY <1>6 DEF Reconcile, TypeInv, BookTypeOK
  <2> QED
    BY <1>0, <2>1, <2>2, ExpireFirstKeepsTypes
<1> QED
  BY <1>1, <1>2, <1>3, <1>4, <1>5, <1>6

LEMMA RecordingStepsKeepTypes ==
  ASSUME TypeInv,
         \/ RecordRow \/ CreatedRecorded \/ SubmittedRecorded \/ ExpiredRecorded
         \/ CallReturns \/ CommitRaises
  PROVE  TypeInv'
<1>1. CASE RecordRow
  <2>1. call.coid \in Coid /\ Exists(orders, call.coid)
    BY <1>1, InProgress DEF RecordRow
  <2>2. /\ orders[call.coid] \in Order /\ orders[call.coid].state # "absent"
        /\ orders[call.coid].key \in Key /\ CoidOf[orders[call.coid].key] = call.coid
    BY <2>1, ExistingOrder DEF Exists
  <2>3. rows' \in [Coid -> Order] /\ BookOK(rows')
    BY <1>1, <2>1, <2>2, UpsertOK DEF RecordRow, TypeInv, BookTypeOK
  <2>4. call' = [call EXCEPT !.step = "event"]
        /\ UNCHANGED <<orders, idem, events, venue, placed, reported, budget>>
    BY <1>1 DEF RecordRow
  <2>5. BookTypeOK' /\ CallOK'
    BY <2>1, <2>3, <2>4 DEF TypeInv, BookTypeOK, CallOK, Exists, Steps
  <2>6. BookOK(orders)' /\ BookOK(rows)' /\ IndexOK' /\ VenueOK'
    BY <2>3, <2>4 DEF TypeInv, BookOK, Exists, IndexOK, VenueOK, IsLiveAtVenue
  <2> QED
    BY <2>5, <2>6 DEF TypeInv
<1>2. CASE CreatedRecorded
  <2>1. events' \in [Coid -> SUBSET OrderStates] /\ call.step = "event"
    BY <1>2, LogEventOK DEF CreatedRecorded
  <2>2. call.coid \in Coid /\ Exists(orders, call.coid) /\ "submitted" \in OrderStates
    BY <2>1, InProgress DEF OrderStates, LiveStates
  <2>3. orders' \in [Coid -> Order] /\ BookOK(orders)'
        /\ \A x \in Coid : Exists(orders, x)' <=> Exists(orders, x)
    BY <1>2, <2>2, SetStateOK DEF CreatedRecorded
  <2>4. /\ UNCHANGED <<rows, reported>> /\ VenueOK' /\ IndexOK'
        /\ placed' \in [Key -> Nat] /\ idem' \in [Key -> Coid \cup {NoCoid}]
        /\ budget' \in [calls : Nat, crashes : Nat, faults : Nat]
        /\ venue' \in [VenueId -> [key : Key \cup {NoKey}, filled : 0..Qty,
                                 st : {"none", "open", "partial", "filled", "cancelled"}]]
    BY <1>2 DEF CreatedRecorded, LogEvent, TypeInv, BookTypeOK, VenueOK, IsLiveAtVenue, IndexOK
  <2>5. "submit" \in Ops /\ "submitted" \in Tags /\ {} \in SUBSET Coid
        /\ \A x \in {} \cup {call.coid} : Exists(orders, x)'
    BY <2>2, <2>3 DEF Ops, Tags
  <2>6. call' = Recording("submit", "submitted", call.coid, {})
    BY <1>2 DEF CreatedRecorded
  <2> QED
    BY <2>1, <2>2, <2>3, <2>4, <2>5, <2>6, RecordingKeepsTypes
<1>3. CASE SubmittedRecorded
  <2>1. events' \in [Coid -> SUBSET OrderStates] /\ call.step = "event"
    BY <1>3, LogEventOK DEF SubmittedRecorded
  <2>2. /\ "submit" \in Ops /\ call.coid \in Coid /\ Exists(orders, call.coid)
        /\ call' = Calling("submit", call.coid)
        /\ UNCHANGED <<orders, idem, rows, venue>> /\ placed' \in [Key -> Nat]
        /\ reported' \in [Key -> OrderStates \cup {"absent"}]
        /\ budget' \in [calls : Nat, crashes : Nat, faults : Nat]
    BY <1>3, <2>1, InProgress DEF SubmittedRecorded, LogEvent, TypeInv, BookTypeOK, Ops
  <2> QED
    BY <2>1, <2>2, ReturningKeepsTypes
<1>4. CASE ExpiredRecorded
  <2>1. events' \in [Coid -> SUBSET OrderStates] /\ call.step = "event"
    BY <1>4, LogEventOK DEF ExpiredRecorded
  <2>2. /\ call.todo \in SUBSET Coid /\ \A x \in call.todo : Exists(orders, x)
        /\ ExpireFirst("reconcile", call.todo)
        /\ UNCHANGED <<idem, rows, venue, placed, reported>>
        /\ budget' \in [calls : Nat, crashes : Nat, faults : Nat]
    BY <1>4, <2>1 DEF ExpiredRecorded, LogEvent, TypeInv, BookTypeOK, CallOK
  <2> QED
    BY <2>1, <2>2, ExpireFirstKeepsTypes
<1>5. CASE CallReturns
  <2>1. events' \in [Coid -> SUBSET OrderStates] /\ call.step = "event"
    BY <1>5, LogEventOK DEF CallReturns
  <2>2. orders[call.coid].state \in OrderStates
    BY <2>1, InProgress
  <2>3. reported' \in [Key -> OrderStates \cup {"absent"}]
    BY <1>5, <2>2 DEF CallReturns, TypeInv, BookTypeOK
  <2>4. /\ call' = Idle /\ UNCHANGED <<orders, idem, rows, venue>>
        /\ placed' \in [Key -> Nat] /\ budget' \in [calls : Nat, crashes : Nat, faults : Nat]
    BY <1>5 DEF CallReturns, LogEvent, TypeInv, BookTypeOK
  <2> QED
    BY <2>1, <2>3, <2>4, ReturningKeepsTypes
<1>6. CASE CommitRaises
  <2>1. call.step # "idle" /\ UNCHANGED <<idem, rows, events, venue, placed, reported>>
        /\ budget' \in [calls : Nat, crashes : Nat, faults : Nat]
    BY <1>6 DEF CommitRaises, TypeInv, BookTypeOK
  <2>2. call.coid \in Coid /\ Exists(orders, call.coid) /\ call.op \in Ops
        /\ "failed" \in OrderStates /\ "failed" \in Tags /\ {} \in SUBSET Coid
    BY <2>1, InProgress DEF OrderStates, TerminalStates, Tags
  <2>3. /\ IndexOK' /\ VenueOK' /\ idem' \in [Key -> Coid \cup {NoCoid}]
        /\ placed' \in [Key -> Nat] /\ events' \in [Coid -> SUBSET OrderStates]
        /\ reported' \in [Key -> OrderStates \cup {"absent"}]
        /\ venue' \in [VenueId -> [key : Key \cup {NoKey}, filled : 0..Qty,
                                 st : {"none", "open", "partial", "filled", "cancelled"}]]
    BY <2>1 DEF TypeInv, BookTypeOK, IndexOK, VenueOK, IsLiveAtVenue
  <2>4. CASE call.tag = "result"
    <3>1. orders' = Failing(call.coid) /\ call' = Recording(call.op, "failed", call.coid, {})
      BY <1>6, <2>4 DEF CommitRaises
    <3>2. orders' \in [Coid -> Order] /\ BookOK(orders)'
          /\ \A x \in Coid : Exists(orders, x)' <=> Exists(orders, x)
      BY <2>2, <3>1, SetStateOK DEF Failing
    <3>3. \A x \in {} \cup {call.coid} : Exists(orders, x)'
      BY <2>2, <3>2
    <3> QED
      BY <2>1, <2>2, <2>3, <3>1, <3>2, <3>3, RecordingKeepsTypes
  <2>5. CASE call.tag # "result"
    <3>1. call' = Idle /\ UNCHANGED orders
      BY <1>6, <2>5 DEF CommitRaises
    <3> QED
      BY <2>1, <2>3, <3>1, ReturningKeepsTypes
  <2> QED
    BY <2>4, <2>5
<1> QED
  BY <1>1, <1>2, <1>3, <1>4, <1>5, <1>6

LEMMA VenueStepsKeepTypes ==
  ASSUME TypeInv, \E v \in VenueId : VenueFills(v) \/ VenueExpires(v)
  PROVE  TypeInv'
<1>1. PICK v \in VenueId : VenueFills(v) \/ VenueExpires(v)
  OBVIOUS
<1>2. UNCHANGED <<orders, idem, rows, events, call, placed, reported, budget>>
  BY <1>1 DEF VenueFills, VenueExpires
<1>3. venue' \in [VenueId -> [key : Key \cup {NoKey}, filled : 0..Qty,
                            st : {"none", "open", "partial", "filled", "cancelled"}]]
      /\ VenueOK'
  <2>1. CASE VenueFills(v)
    <3>1. venue[v].filled \in Nat /\ venue[v].filled < Qty /\ Qty \in Nat
      BY <2>1, OmsConstants DEF VenueFills, TypeInv, BookTypeOK, VenueOK
    <3>2. venue[v].filled + 1 \in 0..Qty
          /\ (venue[v].filled + 1 # Qty => venue[v].filled + 1 < Qty)
      BY <3>1
    <3> QED
      BY <2>1, <3>2 DEF VenueFills, TypeInv, BookTypeOK, VenueOK, IsLiveAtVenue
  <2>2. CASE VenueExpires(v)
    BY <2>2, CancelledOK DEF VenueExpires
  <2> QED
    BY <1>1, <2>1, <2>2
<1>4. BookTypeOK' /\ CallOK' /\ BookOK(orders)' /\ BookOK(rows)' /\ IndexOK'
  BY <1>2, <1>3 DEF TypeInv, BookTypeOK, CallOK, BookOK, Exists, IndexOK
<1> QED
  BY <1>3, <1>4 DEF TypeInv

LEMMA CrashKeepsTypes ==
  ASSUME TypeInv, CrashRestart
  PROVE  TypeInv'
<1>1. /\ orders' = rows /\ call' = Idle /\ UNCHANGED <<rows, events, venue, placed, reported>>
      /\ budget' \in [calls : Nat, crashes : Nat, faults : Nat]
  BY DEF CrashRestart, Reload, TypeInv, BookTypeOK
<1>2. idem' = [k \in Key |-> IF \E c \in Coid : rows[c].key = k
                             THEN CHOOSE c \in Coid : rows[c].key = k ELSE NoCoid]
  BY DEF CrashRestart, Reload
<1>3. \A k \in Key : idem'[k] \in {NoCoid, CoidOf[k]}
  <2> SUFFICES ASSUME NEW k \in Key PROVE idem'[k] \in {NoCoid, CoidOf[k]}
    OBVIOUS
  <2>1. CASE \E c \in Coid : rows[c].key = k
    <3> DEFINE d == CHOOSE c \in Coid : rows[c].key = k
    <3>1. d \in Coid /\ rows[d].key = k
      BY <2>1
    <3>2. idem'[k] = d
      BY <1>2, <2>1
    <3> HIDE DEF d
    <3>3. CoidOf[k] = d
      BY <3>1, OmsConstants DEF TypeInv, BookOK, Exists, Absent
    <3> QED
      BY <3>2, <3>3
  <2>2. CASE ~ \E c \in Coid : rows[c].key = k
    BY <1>2, <2>2
  <2> QED
    BY <2>1, <2>2
<1>4. idem' \in [Key -> Coid \cup {NoCoid}] /\ IndexOK'
  BY <1>2, <1>3, OmsConstants DEF IndexOK
<1>5. BookTypeOK'
  BY <1>1, <1>4 DEF TypeInv, BookTypeOK, Idle, Ops, Tags, Steps
<1>6. CallOK' /\ BookOK(orders)' /\ BookOK(rows)' /\ VenueOK'
  BY <1>1 DEF TypeInv, CallOK, Idle, BookOK, Exists, VenueOK, IsLiveAtVenue
<1> QED
  BY <1>4, <1>5, <1>6 DEF TypeInv

(* PlaceAcknowledged and the rest: every answer of the exchange.            *)
Answered ==
  \/ PlaceAcknowledged \/ PlaceTimesOut \/ PlaceOnPaper \/ PlaceRejected \/ PlaceRaises
  \/ CancelAcknowledged \/ CancelTooLate \/ CancelRaises
  \/ StatusAnswered \/ StatusUnknown \/ StatusRaises

(* An answer is an exception or a reply, and leaves every store alone.      *)
LEMMA AnswerShape ==
  ASSUME TypeInv, Answered
  PROVE  /\ call.step = "adapter"
         /\ \/ Raises
            \/ \E status : \E v \in VenueId \cup {NoId}, filled \in 0..Qty :
                  Replies(status, v, filled)
         /\ UNCHANGED <<idem, rows, events, reported, budget>>
         /\ UNCHANGED placed \/ Placing
<1> USE DEF AtAdapter
<1>1. 0 \in 0..Qty /\ NoId \in VenueId \cup {NoId}
  BY OmsConstants
<1>2. CASE PlaceAcknowledged
  <2>1. PICK v \in VenueId, raw \in {"open", "filled"} : Enters(v, raw) /\ Replies(MapHlStatus(raw), v, 0)
    BY <1>2 DEF PlaceAcknowledged
  <2> QED
    BY <1>1, <1>2, <2>1 DEF PlaceAcknowledged, Placing
<1>3. CASE PlaceTimesOut
  BY <1>1, <1>3 DEF PlaceTimesOut, Placing
<1>4. CASE PlaceOnPaper
  BY <1>1, <1>4 DEF PlaceOnPaper, Placing
<1>5. CASE PlaceRejected \/ PlaceRaises
  BY <1>1, <1>5 DEF PlaceRejected, PlaceRaises, Placing
<1>6. CASE CancelAcknowledged
  BY <1>1, <1>6 DEF CancelAcknowledged, Cancelling
<1>7. CASE CancelTooLate
  BY <1>1, <1>7 DEF CancelTooLate, Cancelling
<1>8. CASE CancelRaises
  BY <1>8 DEF CancelRaises, Cancelling
<1>9. CASE StatusAnswered
  <2>1. PICK v \in VenueId : Querying(v) /\ Replies(MapHlStatus(venue[v].st), v, venue[v].filled)
    BY <1>9 DEF StatusAnswered
  <2>2. venue[v].filled \in 0..Qty
    BY DEF TypeInv, BookTypeOK
  <2> QED
    BY <2>1, <2>2 DEF Querying
<1>10. CASE StatusUnknown \/ StatusRaises
  BY <1>1, <1>10 DEF StatusUnknown, StatusRaises, Querying
<1> QED
  BY <1>2, <1>3, <1>4, <1>5, <1>6, <1>7, <1>8, <1>9, <1>10 DEF Answered

LEMMA AnswerVenue ==
  ASSUME TypeInv, Answered
  PROVE  \/ UNCHANGED venue
         \/ \E v \in VenueId, st \in {"open", "filled"} : Enters(v, st)
         \/ \E v \in VenueId : Cancelled(v)
BY DEF Answered, PlaceAcknowledged, PlaceTimesOut, PlaceOnPaper, PlaceRejected, PlaceRaises,
   CancelAcknowledged, CancelTooLate, CancelRaises, StatusAnswered, StatusUnknown, StatusRaises,
   Querying

LEMMA AnswersKeepTypes ==
  ASSUME TypeInv, Answered
  PROVE  TypeInv'
<1>1. call.step # "idle" /\ placed' \in [Key -> Nat]
  BY AnswerShape DEF Placing, TypeInv, BookTypeOK
<1>2. /\ venue' \in [VenueId -> [key : Key \cup {NoKey}, filled : 0..Qty,
                                 st : {"none", "open", "partial", "filled", "cancelled"}]]
      /\ VenueOK'
  BY <1>1, AnswerVenue, EntersOK, CancelledOK
<1> QED
  BY <1>1, <1>2, AnswerShape, AnswerKeepsTypes

LEMMA TypeInvInductive == TypeInv /\ [Next]_vars => TypeInv'
<1> SUFFICES ASSUME TypeInv, [Next]_vars PROVE TypeInv'
  OBVIOUS
<1>1. CASE UNCHANGED vars
  BY <1>1 DEF vars, TypeInv, BookTypeOK, BookOK, Exists, IndexOK, CallOK, VenueOK, IsLiveAtVenue
<1>2. CASE Next
  BY <1>2, StartsKeepTypes, RecordingStepsKeepTypes, AnswersKeepTypes, VenueStepsKeepTypes,
     CrashKeepsTypes DEF Next, Answered
<1> QED
  BY <1>1, <1>2

LEMMA TypeInvariant == Spec => []TypeInv
BY InitTypeInv, TypeInvInductive, PTL DEF Spec

(* The OMS keeps the adapter and the dry_run it was built with.             *)
LEMMA SettingFixed == [Next]_vars => UNCHANGED setting
<1>1. CASE UNCHANGED vars
  BY <1>1 DEF vars
<1>2. CASE \/ \E k \in Key : SubmitDuplicate(k) \/ SubmitNew(k)
           \/ \E c \in Coid : CancelLocally(c) \/ ReadBack(c)
           \/ \E c \in Coid : ContactVenue("cancel", c) \/ ContactVenue("status", c)
           \/ Reconcile
  BY <1>2 DEF StartCall, SubmitDuplicate, SubmitNew, CancelLocally, ReadBack, ContactVenue,
     Reconcile
<1>3. CASE RecordRow \/ CreatedRecorded \/ SubmittedRecorded \/ ExpiredRecorded
           \/ CallReturns \/ CommitRaises
  BY <1>3 DEF LogEvent, RecordRow, CreatedRecorded, SubmittedRecorded, ExpiredRecorded,
     CallReturns, CommitRaises
<1>4. CASE Answered
  BY <1>4 DEF Answered, Placing, Cancelling, Querying, PlaceAcknowledged, PlaceTimesOut,
     PlaceOnPaper, PlaceRejected, PlaceRaises, CancelAcknowledged, CancelTooLate, CancelRaises,
     StatusAnswered, StatusUnknown, StatusRaises
<1>5. CASE CrashRestart \/ \E v \in VenueId : VenueFills(v) \/ VenueExpires(v)
  BY <1>5 DEF CrashRestart, VenueFills, VenueExpires
<1> QED
  BY <1>1, <1>2, <1>3, <1>4, <1>5 DEF Next, Answered

(* Every reachable state of Oms is well typed, whatever the constants.      *)
THEOREM TypeCorrect == Spec => []TypeOK
<1>1. TypeInv => BookTypeOK
  BY DEF TypeInv
<1>2. Init => setting \in Settings
  BY DEF Init
<1>3. setting \in Settings /\ [Next]_vars => (setting \in Settings)'
  BY SettingFixed
<1> QED
  BY <1>1, <1>2, <1>3, TypeInvariant, PTL DEF Spec, TypeOK

-----------------------------------------------------------------------------
(* At most one placement.  It rests on the caller using one client order id *)
(* per key (UniqueIds): with a shared id a submission overwrites the row    *)
(* that remembers the placement of another key (run OmsSharedId).           *)

LEMMA InitOnceInv == Init => OnceInv
BY OmsConstants DEF Init, OnceInv, AtMostOncePlacement, IndexCovers, MemoryCoversRows,
   SubmissionOK, PlacedOK, Submitting, Exists, Absent, Idle

LEMMA UnchangedOnce ==
  ASSUME OnceInv, UNCHANGED <<orders, idem, rows, call, placed>>
  PROVE  OnceInv'
BY DEF OnceInv, AtMostOncePlacement, IndexCovers, MemoryCoversRows, SubmissionOK, PlacedOK,
   Submitting, Exists

(* A step that submits nothing, keeps the ledger, and takes no order back   *)
(* to CREATED.                                                              *)
LEMMA QuietStep ==
  ASSUME TypeInv, OnceInv, UNCHANGED <<idem, rows, placed>>,
         \A x \in Coid : /\ Exists(orders, x)' <=> Exists(orders, x)
                         /\ orders'[x].key = orders[x].key
                         /\ orders[x].state # "created" => orders'[x].state # "created",
         NoSubmission'
  PROVE  OnceInv'
<1>1. AtMostOncePlacement'
  BY DEF OnceInv, AtMostOncePlacement
<1>2. IndexCovers'
  BY DEF OnceInv, IndexCovers, Exists
<1>3. MemoryCoversRows'
  BY DEF OnceInv, MemoryCoversRows, Exists
<1>4. SubmissionOK'
  BY DEF SubmissionOK, NoSubmission, Submitting
<1>5. PlacedOK'
  <2>1. \A k \in Key : CoidOf[k] \in Coid
    BY OmsConstants
  <2> QED
    BY <2>1 DEF OnceInv, PlacedOK, NoSubmission
<1> QED
  BY <1>1, <1>2, <1>3, <1>4, <1>5 DEF OnceInv

(* Setting a state other than CREATED, seen from every order.               *)
LEMMA SetStateQuiet ==
  ASSUME TypeInv, NEW c \in Coid, Exists(orders, c), NEW t \in OrderStates \ {"created"},
         orders' = [orders EXCEPT ![c].state = Transition(@, t)]
  PROVE  \A x \in Coid : /\ Exists(orders, x)' <=> Exists(orders, x)
                         /\ orders'[x].key = orders[x].key
                         /\ orders[x].state # "created" => orders'[x].state # "created"
<1>1. /\ \A x \in Coid : Exists(orders, x)' <=> Exists(orders, x)
      /\ \A x \in Coid : orders'[x].key = orders[x].key
      /\ \A x \in Coid \ {c} : orders'[x] = orders[x]
      /\ orders'[c].state = Transition(orders[c].state, t)
  BY SetStateOK
<1>2. orders[c].state # "created" => orders'[c].state # "created"
  BY <1>1, ExistingOrder, TransitionOK
<1> QED
  BY <1>1, <1>2

LEMMA RepliesQuiet ==
  ASSUME TypeInv, call.step # "idle", NEW status, NEW v \in VenueId \cup {NoId},
         NEW filled \in 0..Qty, Replies(status, v, filled)
  PROVE  \A x \in Coid : /\ Exists(orders, x)' <=> Exists(orders, x)
                         /\ orders'[x].key = orders[x].key
                         /\ orders[x].state # "created" => orders'[x].state # "created"
<1>1. /\ \A x \in Coid : Exists(orders, x)' <=> Exists(orders, x)
      /\ \A x \in Coid : orders'[x].key = orders[x].key
      /\ \A x \in Coid \ {call.coid} : orders'[x] = orders[x]
      /\ orders'[call.coid].state = Transition(orders[call.coid].state, MapStatus(status))
  BY RepliesOK
<1>2. orders[call.coid].state # "created" => orders'[call.coid].state # "created"
  BY <1>1, InProgress, StatusNeverCreated, TransitionOK
<1> QED
  BY <1>1, <1>2

LEMMA ExpireFirstOnce ==
  ASSUME TypeInv, OnceInv, NEW todo \in SUBSET Coid, \A x \in todo : Exists(orders, x),
         ExpireFirst("reconcile", todo), UNCHANGED <<idem, rows, placed>>
  PROVE  OnceInv'
<1>1. PICK c \in todo : /\ orders' = [orders EXCEPT ![c].state = Transition(@, "expired")]
                       /\ call' = Recording("reconcile", "expired", c, todo \ {c})
  BY DEF ExpireFirst
<1>2. c \in Coid /\ Exists(orders, c) /\ "expired" \in OrderStates \ {"created"}
  BY DEF OrderStates, TerminalStates
<1>3. NoSubmission'
  BY <1>1 DEF Recording, Submitting, NoSubmission
<1>4. \A x \in Coid : /\ Exists(orders, x)' <=> Exists(orders, x)
                      /\ orders'[x].key = orders[x].key
                      /\ orders[x].state # "created" => orders'[x].state # "created"
  BY <1>1, <1>2, SetStateQuiet
<1> QED
  BY <1>3, <1>4, QuietStep

(* A step that leaves the orders alone and submits nothing.                 *)
LEMMA IdleStep ==
  ASSUME TypeInv, OnceInv, UNCHANGED <<orders, idem, rows, placed>>,
         call' = Idle \/ \E op \in Ops \ {"submit"}, c \in Coid : call' = Calling(op, c)
  PROVE  OnceInv'
<1>1. NoSubmission'
  BY DEF Submitting, NoSubmission, Idle, Calling
<1>2. \A x \in Coid : /\ Exists(orders, x)' <=> Exists(orders, x)
                      /\ orders'[x].key = orders[x].key
                      /\ orders[x].state # "created" => orders'[x].state # "created"
  BY DEF Exists
<1> QED
  BY <1>1, <1>2, QuietStep

(* A new submission of k: k is in no row, or it would be known.             *)
LEMMA SubmitNewOnce ==
  ASSUME TypeInv, OnceInv, UniqueIds, NEW k \in Key, SubmitNew(k)
  PROVE  OnceInv'
<1> DEFINE c == CoidOf[k]
<1>1. c \in Coid
  BY OmsConstants
<1>2. /\ orders' = [orders EXCEPT ![c] = NewOrder(k)] /\ idem' = [idem EXCEPT ![k] = c]
      /\ call' = Recording("submit", "created", c, {}) /\ UNCHANGED <<rows, placed>>
      /\ ~KnownKey(k)
  BY DEF SubmitNew
<1>3. \A j \in Key : j # k => CoidOf[j] # c
  BY DEF UniqueIds
<1>4. orders \in [Coid -> Order] /\ idem \in [Key -> Coid \cup {NoCoid}]
  BY DEF TypeInv, BookTypeOK
<1>5. /\ orders'[c] = NewOrder(k) /\ idem'[k] = c
      /\ \A x \in Coid \ {c} : orders'[x] = orders[x]
      /\ \A j \in Key \ {k} : idem'[j] = idem[j]
  BY <1>1, <1>2, <1>4
<1>6. \A x \in Coid : Exists(orders, x) => orders[x].key \in Key /\ CoidOf[orders[x].key] = x
  BY DEF TypeInv, BookOK
<1>7. ~Exists(orders, c)
  BY <1>1, <1>2, <1>6, OmsConstants DEF KnownKey, OnceInv, IndexCovers, UniqueIds
<1>8. ~Exists(rows, c)
  BY <1>1, <1>7, OmsConstants DEF OnceInv, MemoryCoversRows, TypeInv, BookOK, Absent
<1>9. placed[k] = 0
  <2>1. placed[k] > 0 => FALSE
    BY <1>1, <1>8, OmsConstants DEF OnceInv, PlacedOK, TypeInv, BookOK, Absent
  <2> QED
    BY <2>1 DEF TypeInv, BookTypeOK
<1> HIDE DEF c
<1>10. AtMostOncePlacement'
  BY <1>2 DEF OnceInv, AtMostOncePlacement
<1>11. IndexCovers'
  <2> SUFFICES ASSUME NEW x \in Coid, Exists(orders, x)' PROVE idem'[orders'[x].key] = x
    BY DEF IndexCovers
  <2>1. CASE x = c
    BY <1>5, <2>1 DEF NewOrder
  <2>2. CASE x # c
    BY <1>5, <1>6, <2>2 DEF c, OnceInv, IndexCovers, Exists
  <2> QED
    BY <2>1, <2>2
<1>12. MemoryCoversRows'
  BY <1>2, <1>5, <1>8 DEF OnceInv, MemoryCoversRows, Exists
<1>13. SubmissionOK'
  BY <1>1, <1>2, <1>5 DEF SubmissionOK, Submitting, Recording, NewOrder
<1>14. PlacedOK'
  BY <1>1, <1>2, <1>3, <1>5, <1>9, OmsConstants DEF OnceInv, PlacedOK, Recording, c
<1> QED
  BY <1>10, <1>11, <1>12, <1>13, <1>14 DEF OnceInv

(* Committing the row of the order under way.                               *)
LEMMA RecordRowOnce ==
  ASSUME TypeInv, OnceInv, UniqueIds, RecordRow
  PROVE  OnceInv'
<1> DEFINE c == call.coid
<1>1. c \in Coid /\ Exists(orders, c) /\ call.step = "row"
  BY InProgress DEF RecordRow
<1>2. /\ orders[c] \in Order /\ orders[c].state # "absent"
      /\ orders[c].key \in Key /\ CoidOf[orders[c].key] = c
  BY <1>1, ExistingOrder DEF Exists
<1>3. /\ rows' = Upsert(rows, c, orders[c]) /\ call' = [call EXCEPT !.step = "event"]
      /\ UNCHANGED <<orders, idem, placed>>
  BY DEF RecordRow
<1>4. rows \in [Coid -> Order] /\ BookOK(rows)
  BY DEF TypeInv, BookTypeOK
<1>5. rows'[c] = orders[c] /\ \A x \in Coid \ {c} : rows'[x] = rows[x]
  BY <1>1, <1>2, <1>3, <1>4, UpsertOK, UpsertUnique
<1>6. /\ call'.coid = c /\ call'.step = "event" /\ call'.tag = call.tag
      /\ Submitting' => Submitting
  BY <1>1, <1>3 DEF TypeInv, BookTypeOK, Submitting
<1> HIDE DEF c
<1>7. AtMostOncePlacement' /\ IndexCovers'
  BY <1>3 DEF OnceInv, AtMostOncePlacement, IndexCovers, Exists
<1>8. MemoryCoversRows'
  BY <1>3, <1>5 DEF OnceInv, MemoryCoversRows, Exists
<1>9. SubmissionOK'
  BY <1>1, <1>3, <1>5, <1>6 DEF OnceInv, SubmissionOK, c
<1>10. PlacedOK'
  <2> SUFFICES ASSUME NEW k \in Key, placed[k] > 0
               PROVE  /\ rows'[CoidOf[k]].key = k /\ rows'[CoidOf[k]].state # "created"
                      /\ orders[CoidOf[k]].state # "created"
                      /\ ~(Submitting' /\ c = CoidOf[k])
    BY <1>3, <1>6 DEF PlacedOK
  <2>1. /\ rows[CoidOf[k]].key = k /\ rows[CoidOf[k]].state # "created"
        /\ orders[CoidOf[k]].state # "created"
        /\ ~(Submitting' /\ c = CoidOf[k])
    BY <1>6 DEF OnceInv, PlacedOK, c
  <2>2. CASE CoidOf[k] = c
    <3>1. orders[c].key = k
      BY <1>2, <2>2 DEF UniqueIds
    <3> QED
      BY <1>5, <2>1, <2>2, <3>1
  <2>3. CASE CoidOf[k] # c
    BY <1>5, <2>1, <2>3, OmsConstants
  <2> QED
    BY <2>2, <2>3
<1> QED
  BY <1>7, <1>8, <1>9, <1>10 DEF OnceInv

(* CREATED is durable: go on to SUBMITTED.                                  *)
LEMMA CreatedRecordedOnce ==
  ASSUME TypeInv, OnceInv, CreatedRecorded
  PROVE  OnceInv'
<1>1. call.step = "event" /\ call.tag = "created" /\ call.coid \in Coid /\ Exists(orders, call.coid)
  BY InProgress DEF CreatedRecorded, LogEvent
<1>2. /\ orders' = [orders EXCEPT ![call.coid].state = Transition(@, "submitted")]
      /\ call' = Recording("submit", "submitted", call.coid, {})
      /\ UNCHANGED <<idem, rows, placed>>
  BY DEF CreatedRecorded, LogEvent
<1>3. "submitted" \in OrderStates \ {"created"}
  BY DEF OrderStates, LiveStates
<1>4. \A x \in Coid : /\ Exists(orders, x)' <=> Exists(orders, x)
                      /\ orders'[x].key = orders[x].key
                      /\ orders[x].state # "created" => orders'[x].state # "created"
  BY <1>1, <1>2, <1>3, SetStateQuiet
<1>5. Submitting /\ orders[call.coid].state = "created"
  BY <1>1 DEF Submitting, OnceInv, SubmissionOK
<1>6. orders'[call.coid].state = "submitted"
  <2>1. orders'[call.coid].state = Transition("created", "submitted")
    BY <1>1, <1>2, <1>3, <1>5, SetStateOK
  <2> QED
    BY <2>1 DEF Transition, TerminalStates
<1>7. AtMostOncePlacement' /\ MemoryCoversRows'
  BY <1>2, <1>4 DEF OnceInv, AtMostOncePlacement, MemoryCoversRows, Exists
<1>8. IndexCovers'
  BY <1>2, <1>4 DEF OnceInv, IndexCovers, Exists
<1>9. SubmissionOK'
  BY <1>2, <1>6 DEF SubmissionOK, Recording
<1>10. PlacedOK'
  BY <1>2, <1>4, <1>5, OmsConstants DEF OnceInv, PlacedOK, Recording
<1> QED
  BY <1>7, <1>8, <1>9, <1>10 DEF OnceInv

(* SUBMITTED is durable: call the exchange.                                 *)
LEMMA SubmittedRecordedOnce ==
  ASSUME TypeInv, OnceInv, SubmittedRecorded
  PROVE  OnceInv'
<1>1. /\ call.step = "event" /\ call.tag = "submitted"
      /\ call' = Calling("submit", call.coid) /\ UNCHANGED <<orders, idem, rows, placed>>
  BY DEF SubmittedRecorded, LogEvent
<1>2. Submitting
  BY <1>1 DEF Submitting
<1>3. AtMostOncePlacement' /\ IndexCovers' /\ MemoryCoversRows'
  BY <1>1 DEF OnceInv, AtMostOncePlacement, IndexCovers, MemoryCoversRows, Exists
<1>4. SubmissionOK'
  BY <1>1, <1>2 DEF OnceInv, SubmissionOK, Calling
<1>5. PlacedOK'
  BY <1>1, <1>2 DEF OnceInv, PlacedOK, Calling
<1> QED
  BY <1>3, <1>4, <1>5 DEF OnceInv

(* A commit raises: the order under way may fail, nothing is submitted.     *)
LEMMA CommitRaisesOnce ==
  ASSUME TypeInv, OnceInv, CommitRaises
  PROVE  OnceInv'
<1>1. call.step # "idle" /\ UNCHANGED <<idem, rows, placed>>
  BY DEF CommitRaises
<1>2. CASE call.tag = "result"
  <2>1. /\ orders' = [orders EXCEPT ![call.coid].state = Transition(@, "failed")]
        /\ call' = Recording(call.op, "failed", call.coid, {})
    BY <1>2 DEF CommitRaises, Failing
  <2>2. call.coid \in Coid /\ Exists(orders, call.coid) /\ "failed" \in OrderStates \ {"created"}
    BY <1>1, InProgress DEF OrderStates, TerminalStates
  <2>3. NoSubmission'
    BY <2>1 DEF Recording, Submitting, NoSubmission
  <2>4. \A x \in Coid : /\ Exists(orders, x)' <=> Exists(orders, x)
                        /\ orders'[x].key = orders[x].key
                        /\ orders[x].state # "created" => orders'[x].state # "created"
    BY <2>1, <2>2, SetStateQuiet
  <2> QED
    BY <1>1, <2>3, <2>4, QuietStep
<1>3. CASE call.tag # "result"
  <2>1. call' = Idle /\ UNCHANGED orders
    BY <1>3 DEF CommitRaises
  <2> QED
    BY <1>1, <2>1, IdleStep
<1> QED
  BY <1>2, <1>3

(* What an answer of the exchange does to the orders.                       *)
LEMMA AnswerQuiet ==
  ASSUME TypeInv, Answered
  PROVE  /\ \A x \in Coid : /\ Exists(orders, x)' <=> Exists(orders, x)
                            /\ orders'[x].key = orders[x].key
                            /\ orders[x].state # "created" => orders'[x].state # "created"
         /\ NoSubmission'
<1>1. call.step # "idle"
  BY AnswerShape
<1>2. call.coid \in Coid /\ Exists(orders, call.coid) /\ "failed" \in OrderStates \ {"created"}
  BY <1>1, InProgress DEF OrderStates, TerminalStates
<1>3. CASE Raises
  <2>1. /\ orders' = [orders EXCEPT ![call.coid].state = Transition(@, "failed")]
        /\ call' = Recording(call.op, "failed", call.coid, {})
    BY <1>3 DEF Raises, Failing
  <2>2. \A x \in Coid : /\ Exists(orders, x)' <=> Exists(orders, x)
                        /\ orders'[x].key = orders[x].key
                        /\ orders[x].state # "created" => orders'[x].state # "created"
    BY <1>2, <2>1, SetStateQuiet
  <2> QED
    BY <2>1, <2>2 DEF Recording, Submitting, NoSubmission
<1>4. CASE \E status : \E v \in VenueId \cup {NoId}, filled \in 0..Qty : Replies(status, v, filled)
  <2>1. PICK status : \E v \in VenueId \cup {NoId}, filled \in 0..Qty : Replies(status, v, filled)
    BY <1>4
  <2>2. PICK v \in VenueId \cup {NoId}, filled \in 0..Qty : Replies(status, v, filled)
    BY <2>1
  <2>3. call' = Recording(call.op, "result", call.coid, {})
    BY <2>2 DEF Replies
  <2>4. \A x \in Coid : /\ Exists(orders, x)' <=> Exists(orders, x)
                        /\ orders'[x].key = orders[x].key
                        /\ orders[x].state # "created" => orders'[x].state # "created"
    BY <1>1, <2>2, RepliesQuiet
  <2> QED
    BY <2>3, <2>4 DEF Recording, Submitting, NoSubmission
<1> QED
  BY <1>3, <1>4, AnswerShape

(* The exchange is called for the order under way: its key was never        *)
(* placed, because a placed key has no submission under way.                *)
LEMMA PlacingOnce ==
  ASSUME TypeInv, OnceInv, Answered, Placing
  PROVE  OnceInv'
<1> DEFINE c == call.coid
           k == orders[c].key
<1>1. call.step = "adapter" /\ call.op = "submit" /\ UNCHANGED <<idem, rows>>
  BY DEF Placing, AtAdapter
<1>2. c \in Coid /\ Exists(orders, c)
  BY <1>1, InProgress
<1>3. k \in Key /\ CoidOf[k] = c
  BY <1>2, ExistingOrder
<1>4. Submitting
  BY <1>1 DEF Submitting
<1>5. placed[k] = 0
  <2>1. ~(placed[k] > 0)
    BY <1>3, <1>4 DEF OnceInv, PlacedOK
  <2> QED
    BY <1>3, <2>1 DEF TypeInv, BookTypeOK
<1>6. placed'[k] = 1 /\ \A j \in Key \ {k} : placed'[j] = placed[j]
  BY <1>3, <1>5 DEF Placing, TypeInv, BookTypeOK
<1>7. /\ \A x \in Coid : /\ Exists(orders, x)' <=> Exists(orders, x)
                         /\ orders'[x].key = orders[x].key
                         /\ orders[x].state # "created" => orders'[x].state # "created"
      /\ NoSubmission'
  BY AnswerQuiet
<1>8. orders[c].state = "submitted" /\ rows[c] = orders[c]
  BY <1>1, <1>4 DEF OnceInv, SubmissionOK
<1> HIDE DEF c, k
<1>9. AtMostOncePlacement'
  BY <1>3, <1>6 DEF OnceInv, AtMostOncePlacement
<1>10. IndexCovers' /\ MemoryCoversRows'
  <2>1. IndexCovers'
    BY <1>1, <1>7 DEF OnceInv, IndexCovers, Exists
  <2>2. MemoryCoversRows'
    BY <1>1, <1>7 DEF OnceInv, MemoryCoversRows, Exists
  <2> QED
    BY <2>1, <2>2
<1>11. SubmissionOK'
  BY <1>7 DEF SubmissionOK, NoSubmission, Submitting
<1>12. PlacedOK'
  <2> SUFFICES ASSUME NEW j \in Key, placed'[j] > 0
               PROVE  /\ rows[CoidOf[j]].key = j /\ rows[CoidOf[j]].state # "created"
                      /\ orders'[CoidOf[j]].state # "created"
    BY <1>1, <1>7 DEF PlacedOK, NoSubmission
  <2>1. CASE j = k
    BY <1>2, <1>3, <1>7, <1>8, <2>1 DEF k
  <2>2. CASE j # k
    BY <1>6, <1>7, <2>2, OmsConstants DEF OnceInv, PlacedOK
  <2> QED
    BY <2>1, <2>2
<1> QED
  BY <1>9, <1>10, <1>11, <1>12 DEF OnceInv

LEMMA AnswersOnce ==
  ASSUME TypeInv, OnceInv, Answered
  PROVE  OnceInv'
<1>1. CASE Placing
  BY <1>1, PlacingOnce
<1>2. CASE UNCHANGED placed
  BY <1>2, AnswerShape, AnswerQuiet, QuietStep
<1> QED
  BY <1>1, <1>2, AnswerShape

(* A restart: memory and index are those of the rows.                       *)
LEMMA CrashOnce ==
  ASSUME TypeInv, OnceInv, CrashRestart
  PROVE  OnceInv'
<1>1. orders' = rows /\ call' = Idle /\ UNCHANGED <<rows, placed>>
  BY DEF CrashRestart, Reload
<1>2. idem' = [k \in Key |-> IF \E c \in Coid : rows[c].key = k
                             THEN CHOOSE c \in Coid : rows[c].key = k ELSE NoCoid]
  BY DEF CrashRestart, Reload
<1>3. \A c \in Coid : Exists(rows, c) => rows[c].key \in Key /\ CoidOf[rows[c].key] = c
  BY DEF TypeInv, BookOK
<1>4. IndexCovers'
  <2> SUFFICES ASSUME NEW c \in Coid, Exists(rows, c) PROVE idem'[rows[c].key] = c
    BY <1>1 DEF IndexCovers, Exists
  <2> DEFINE k == rows[c].key
             d == CHOOSE x \in Coid : rows[x].key = k
  <2>1. k \in Key /\ CoidOf[k] = c
    BY <1>3
  <2>2. d \in Coid /\ rows[d].key = k
    OBVIOUS
  <2>3. idem'[k] = d
    BY <1>2, <2>1
  <2> HIDE DEF d, k
  <2>4. d = c
    BY <1>3, <2>1, <2>2, OmsConstants DEF TypeInv, BookOK, Absent
  <2> QED
    BY <2>3, <2>4 DEF k
<1>5. AtMostOncePlacement' /\ MemoryCoversRows'
  BY <1>1 DEF OnceInv, AtMostOncePlacement, MemoryCoversRows, Exists
<1>6. SubmissionOK' /\ ~Submitting'
  BY <1>1 DEF SubmissionOK, Submitting, Idle
<1>7. PlacedOK'
  BY <1>1, <1>6 DEF OnceInv, PlacedOK
<1> QED
  BY <1>4, <1>5, <1>6, <1>7 DEF OnceInv

LEMMA StartsOnce ==
  ASSUME TypeInv, OnceInv, UniqueIds,
         \/ \E k \in Key : SubmitDuplicate(k) \/ SubmitNew(k)
         \/ \E c \in Coid : CancelLocally(c) \/ ReadBack(c)
         \/ \E c \in Coid : ContactVenue("cancel", c) \/ ContactVenue("status", c)
         \/ Reconcile
  PROVE  OnceInv'
<1>1. ASSUME NEW c \in Coid, CancelLocally(c) PROVE OnceInv'
  <2>1. Exists(orders, c) /\ "cancelled" \in OrderStates \ {"created"}
    BY <1>1 DEF CancelLocally, OrderStates, TerminalStates
  <2>2. \A x \in Coid : /\ Exists(orders, x)' <=> Exists(orders, x)
                        /\ orders'[x].key = orders[x].key
                        /\ orders[x].state # "created" => orders'[x].state # "created"
    BY <1>1, <2>1, SetStateQuiet DEF CancelLocally
  <2>3. NoSubmission'
    BY <1>1 DEF CancelLocally, Recording, Submitting, NoSubmission
  <2>4. UNCHANGED <<idem, rows, placed>>
    BY <1>1 DEF CancelLocally
  <2> QED
    BY <2>2, <2>3, <2>4, QuietStep
<1>2. ASSUME NEW c \in Coid, ContactVenue("cancel", c) \/ ContactVenue("status", c) PROVE OnceInv'
  <2>1. UNCHANGED <<orders, idem, rows, placed>>
    BY <1>2 DEF ContactVenue
  <2>2. \E op \in Ops \ {"submit"} : call' = Calling(op, c)
    BY <1>2 DEF ContactVenue, Ops
  <2> QED
    BY <2>1, <2>2, IdleStep
<1>3. CASE Reconcile
  <2>1. Unlisted \in SUBSET Coid /\ \A x \in Unlisted : Exists(orders, x)
    BY DEF Unlisted, Exists, LiveStates
  <2>2. ExpireFirst("reconcile", Unlisted) /\ UNCHANGED <<idem, rows, placed>>
    BY <1>3 DEF Reconcile
  <2> QED
    BY <2>1, <2>2, ExpireFirstOnce
<1>4. ASSUME UNCHANGED <<orders, idem, rows, call, placed>> PROVE OnceInv'
  BY <1>4, UnchangedOnce
<1>5. ASSUME NEW k \in Key, SubmitDuplicate(k) PROVE OnceInv'
  BY <1>4, <1>5 DEF SubmitDuplicate
<1>6. ASSUME NEW c \in Coid, ReadBack(c) PROVE OnceInv'
  BY <1>4, <1>6 DEF ReadBack
<1> QED
  BY <1>1, <1>2, <1>3, <1>5, <1>6, SubmitNewOnce

LEMMA OnceInvInductive ==
  ASSUME UniqueIds, TypeInv, OnceInv, [Next]_vars
  PROVE  OnceInv'
<1>1. CASE UNCHANGED vars
  BY <1>1, UnchangedOnce DEF vars
<1>2. CASE RecordRow \/ CreatedRecorded \/ SubmittedRecorded \/ CommitRaises
  BY <1>2, RecordRowOnce, CreatedRecordedOnce, SubmittedRecordedOnce, CommitRaisesOnce
<1>3. CASE ExpiredRecorded
  <2>1. /\ call.todo \in SUBSET Coid /\ \A x \in call.todo : Exists(orders, x)
        /\ ExpireFirst("reconcile", call.todo) /\ UNCHANGED <<idem, rows, placed>>
    BY <1>3 DEF ExpiredRecorded, LogEvent, TypeInv, BookTypeOK, CallOK
  <2> QED
    BY <2>1, ExpireFirstOnce
<1>4. CASE CallReturns
  <2>1. call' = Idle /\ UNCHANGED <<orders, idem, rows, placed>>
    BY <1>4 DEF CallReturns, LogEvent
  <2> QED
    BY <2>1, IdleStep
<1>5. CASE \E v \in VenueId : VenueFills(v) \/ VenueExpires(v)
  <2>1. UNCHANGED <<orders, idem, rows, call, placed>>
    BY <1>5 DEF VenueFills, VenueExpires
  <2> QED
    BY <2>1, UnchangedOnce
<1> QED
  BY <1>1, <1>2, <1>3, <1>4, <1>5, StartsOnce, AnswersOnce, CrashOnce DEF Next, Answered

(* When every key has a client order id of its own, resubmitting a key      *)
(* never places a second order at the exchange, across crashes, failed      *)
(* commits and raising exchange calls (Oms.submit_order).                   *)
THEOREM AtMostOnce == ASSUME UniqueIds PROVE Spec => []AtMostOncePlacement
<1>1. OnceInv => AtMostOncePlacement
  BY DEF OnceInv
<1> QED
  BY <1>1, InitOnceInv, OnceInvInductive, TypeInvariant, PTL DEF Spec

(* When every key has a client order id of its own, the exchange is only    *)
(* called for an order the ledger holds past CREATED (Oms.submit_order).    *)
THEOREM WritesAhead == ASSUME UniqueIds PROVE Spec => []WriteAhead
<1>1. OnceInv => WriteAhead
  BY DEF OnceInv, PlacedOK, WriteAhead
<1> QED
  BY <1>1, InitOnceInv, OnceInvInductive, TypeInvariant, PTL DEF Spec

-----------------------------------------------------------------------------
(* Oms implements OrderLifecycle, key by key.                               *)

(* What relates the order in memory to its row: a live order has a row, a   *)
(* closed row has the order closed in the same way, an order whose row is   *)
(* open is past CREATED, and one in CREATED has no venue id.                *)
MemoryFits ==
  \A c \in Coid :
    /\ orders[c].state \in LiveStates => Exists(rows, c)
    /\ rows[c].state \in TerminalStates => orders[c].state = rows[c].state
    /\ rows[c].state \in LiveStates => orders[c].state # "created"
    /\ orders[c].state = "created" => orders[c].vid = NoId
    /\ rows[c].state = "created" => rows[c].vid = NoId

(* Between row and event the row is the order; the exchange is not called   *)
(* for an order in CREATED.                                                 *)
CallFits ==
  /\ call.step = "event" => rows[call.coid] = orders[call.coid]
  /\ call.step = "adapter" => orders[call.coid].state # "created"

LifeInv == MemoryFits /\ CallFits

-----------------------------------------------------------------------------

LEMMA InitLifeInv == Init => LifeInv
BY DEF Init, LifeInv, MemoryFits, CallFits, Absent, Idle, LiveStates, TerminalStates, Exists

(* A step without a commit: an order stays, or moves to a state other than  *)
(* CREATED, to a live one only if it has a row.                             *)
Moves(x) ==
  \/ orders'[x] = orders[x]
  \/ \E t \in OrderStates \ {"created"} :
       /\ orders'[x].state = Transition(orders[x].state, t)
       /\ t \in LiveStates => Exists(rows, x)

LEMMA MovesKeepLife ==
  ASSUME TypeInv, LifeInv, rows' = rows, \A x \in Coid : Moves(x),
         call'.step # "event",
         call'.step = "adapter" => orders'[call'.coid].state # "created"
  PROVE  LifeInv'
<1>1. MemoryFits'
  <2> SUFFICES ASSUME NEW x \in Coid
               PROVE  /\ orders'[x].state \in LiveStates => Exists(rows, x)
                      /\ rows[x].state \in TerminalStates => orders'[x].state = rows[x].state
                      /\ rows[x].state \in LiveStates => orders'[x].state # "created"
                      /\ orders'[x].state = "created" => orders'[x].vid = NoId
                      /\ rows[x].state = "created" => rows[x].vid = NoId
    BY DEF MemoryFits, Exists
  <2>1. CASE orders'[x] = orders[x]
    BY <2>1 DEF LifeInv, MemoryFits
  <2>2. CASE orders'[x] # orders[x]
    <3>1. PICK t \in OrderStates \ {"created"} :
            /\ orders'[x].state = Transition(orders[x].state, t)
            /\ t \in LiveStates => Exists(rows, x)
      BY <2>2 DEF Moves
    <3>2. "created" \notin TerminalStates /\ LiveStates \cap TerminalStates = {}
      BY DEF TerminalStates, LiveStates
    <3> QED
      BY <3>1, <3>2 DEF LifeInv, MemoryFits, Transition
  <2> QED
    BY <2>1, <2>2
<1>2. CallFits'
  BY DEF CallFits
<1> QED
  BY <1>1, <1>2 DEF LifeInv

(* A step that leaves orders and rows alone.                                *)
LEMMA RestKeepsLife ==
  ASSUME TypeInv, LifeInv, UNCHANGED <<orders, rows>>,
         call' = call \/ call' = Idle
  PROVE  LifeInv'
BY DEF LifeInv, MemoryFits, CallFits, Exists, Idle

(* Setting the state of an existing order to t.                             *)
LEMMA SetStateMoves ==
  ASSUME TypeInv, NEW c \in Coid, Exists(orders, c), NEW t \in OrderStates \ {"created"},
         t \in LiveStates => Exists(rows, c),
         orders' = [orders EXCEPT ![c].state = Transition(@, t)]
  PROVE  \A x \in Coid : Moves(x)
BY SetStateOK DEF Moves

LEMMA ExpireFirstKeepsLife ==
  ASSUME TypeInv, LifeInv, NEW todo \in SUBSET Coid, \A x \in todo : Exists(orders, x),
         ExpireFirst("reconcile", todo), UNCHANGED rows
  PROVE  LifeInv'
<1>1. PICK c \in todo : /\ orders' = [orders EXCEPT ![c].state = Transition(@, "expired")]
                       /\ call' = Recording("reconcile", "expired", c, todo \ {c})
  BY DEF ExpireFirst
<1>2. /\ c \in Coid /\ Exists(orders, c)
      /\ "expired" \in OrderStates \ {"created"} /\ "expired" \notin LiveStates
  BY DEF OrderStates, TerminalStates, LiveStates
<1>3. \A x \in Coid : Moves(x)
  BY <1>1, <1>2, SetStateMoves
<1> QED
  BY <1>1, <1>3, MovesKeepLife DEF Recording

(* An answer of the exchange: an order that is asked about is open, so it   *)
(* has a row, or closed, so it stays.                                       *)
LEMMA AnswersKeepLife ==
  ASSUME TypeInv, OnceInv, LifeInv, Answered
  PROVE  LifeInv'
<1>1. call.step = "adapter" /\ UNCHANGED rows
  BY DEF Answered, Placing, Cancelling, Querying, AtAdapter, PlaceAcknowledged, PlaceTimesOut,
     PlaceOnPaper, PlaceRejected, PlaceRaises, CancelAcknowledged, CancelTooLate, CancelRaises,
     StatusAnswered, StatusUnknown, StatusRaises
<1>2. /\ call.coid \in Coid /\ Exists(orders, call.coid) /\ orders[call.coid].state \in OrderStates
      /\ orders[call.coid].state # "created"
  BY <1>1, InProgress DEF LifeInv, CallFits
<1>3. /\ call'.step = "row"
      /\ \E t \in OrderStates \ {"created"} :
           /\ orders'[call.coid].state = Transition(orders[call.coid].state, t)
           /\ \A x \in Coid \ {call.coid} : orders'[x] = orders[x]
  <2>1. CASE Raises
    <3>1. /\ orders' = [orders EXCEPT ![call.coid].state = Transition(@, "failed")]
          /\ call' = Recording(call.op, "failed", call.coid, {})
      BY <2>1 DEF Raises, Failing
    <3>2. "failed" \in OrderStates \ {"created"}
      BY DEF OrderStates, TerminalStates
    <3> QED
      BY <1>2, <3>1, <3>2, SetStateOK DEF Recording
  <2>2. CASE \E status : \E v \in VenueId \cup {NoId}, filled \in 0..Qty : Replies(status, v, filled)
    <3>1. PICK status : \E v \in VenueId \cup {NoId}, filled \in 0..Qty : Replies(status, v, filled)
      BY <2>2
    <3>2. PICK v \in VenueId \cup {NoId}, filled \in 0..Qty : Replies(status, v, filled)
      BY <3>1
    <3>3. call'.step = "row" /\ call.step # "idle"
      BY <1>1, <3>2 DEF Replies, Recording
    <3>4. /\ orders'[call.coid].state = Transition(orders[call.coid].state, MapStatus(status))
          /\ \A x \in Coid \ {call.coid} : orders'[x] = orders[x]
      BY <3>2, <3>3, RepliesOK
    <3> QED
      BY <3>3, <3>4, StatusNeverCreated
  <2> QED
    BY <2>1, <2>2, AnswerShape
<1>4. PICK t \in OrderStates \ {"created"} :
        /\ orders'[call.coid].state = Transition(orders[call.coid].state, t)
        /\ \A x \in Coid \ {call.coid} : orders'[x] = orders[x]
  BY <1>3
<1>5. Moves(call.coid)
  <2>1. CASE orders[call.coid].state \in LiveStates
    <3>1. Exists(rows, call.coid)
      BY <1>2, <2>1 DEF LifeInv, MemoryFits
    <3> QED
      BY <1>4, <3>1 DEF Moves
  <2>2. CASE orders[call.coid].state \in TerminalStates
    <3>1. orders'[call.coid].state = Transition(orders[call.coid].state, "failed")
      BY <1>4, <2>2 DEF Transition
    <3>2. "failed" \in OrderStates \ {"created"} /\ "failed" \notin LiveStates
      BY DEF OrderStates, TerminalStates, LiveStates
    <3> QED
      BY <3>1, <3>2 DEF Moves
  <2> QED
    BY <1>2, <2>1, <2>2 DEF OrderStates
<1>6. \A x \in Coid : Moves(x)
  BY <1>4, <1>5 DEF Moves
<1> QED
  BY <1>1, <1>3, <1>6, MovesKeepLife

(* A new submission: its id has neither an order nor a row.                 *)
LEMMA SubmitNewLife ==
  ASSUME TypeInv, OnceInv, LifeInv, UniqueIds, NEW k \in Key, SubmitNew(k)
  PROVE  LifeInv'
<1> DEFINE c == CoidOf[k]
<1>1. c \in Coid
  BY OmsConstants
<1>2. /\ orders' = [orders EXCEPT ![c] = NewOrder(k)] /\ UNCHANGED rows
      /\ call' = Recording("submit", "created", c, {}) /\ ~KnownKey(k)
  BY DEF SubmitNew
<1>3. \A x \in Coid : Exists(orders, x) => orders[x].key \in Key /\ CoidOf[orders[x].key] = x
  BY DEF TypeInv, BookOK
<1>4. ~Exists(orders, c)
  BY <1>1, <1>2, <1>3, OmsConstants DEF KnownKey, OnceInv, IndexCovers, UniqueIds
<1>5. ~Exists(rows, c)
  BY <1>1, <1>4, OmsConstants DEF OnceInv, MemoryCoversRows, TypeInv, BookOK, Absent
<1>6. /\ orders'[c].state = "created" /\ orders'[c].vid = NoId
      /\ \A x \in Coid \ {c} : orders'[x] = orders[x]
  BY <1>1, <1>2 DEF NewOrder, TypeInv, BookTypeOK
<1> HIDE DEF c
<1>7. MemoryFits'
  BY <1>2, <1>5, <1>6 DEF LifeInv, MemoryFits, Exists, LiveStates, TerminalStates
<1>8. CallFits'
  BY <1>2 DEF CallFits, Recording
<1> QED
  BY <1>7, <1>8 DEF LifeInv

LEMMA StartsKeepLife ==
  ASSUME TypeInv, OnceInv, LifeInv, UniqueIds,
         \/ \E k \in Key : SubmitDuplicate(k) \/ SubmitNew(k)
         \/ \E c \in Coid : CancelLocally(c) \/ ReadBack(c)
         \/ \E c \in Coid : ContactVenue("cancel", c) \/ ContactVenue("status", c)
         \/ Reconcile
  PROVE  LifeInv'
<1>1. ASSUME NEW c \in Coid, CancelLocally(c) PROVE LifeInv'
  <2>1. /\ Exists(orders, c) /\ UNCHANGED rows
        /\ orders' = [orders EXCEPT ![c].state = Transition(@, "cancelled")]
        /\ call'.step = "row"
    BY <1>1 DEF CancelLocally, Recording
  <2>2. "cancelled" \in OrderStates \ {"created"} /\ "cancelled" \notin LiveStates
    BY DEF OrderStates, TerminalStates, LiveStates
  <2>3. \A x \in Coid : Moves(x)
    BY <2>1, <2>2, SetStateMoves
  <2> QED
    BY <2>1, <2>3, MovesKeepLife
<1>2. ASSUME NEW c \in Coid, ContactVenue("cancel", c) \/ ContactVenue("status", c) PROVE LifeInv'
  <2>1. UNCHANGED <<orders, rows>> /\ call'.step = "adapter" /\ call'.coid = c /\ orders[c].vid # NoId
    BY <1>2 DEF ContactVenue, Calling
  <2>2. orders'[c].state # "created" /\ \A x \in Coid : Moves(x)
    BY <2>1 DEF LifeInv, MemoryFits, Moves
  <2> QED
    BY <2>1, <2>2, MovesKeepLife
<1>3. CASE Reconcile
  <2>1. /\ Unlisted \in SUBSET Coid /\ \A x \in Unlisted : Exists(orders, x)
        /\ ExpireFirst("reconcile", Unlisted) /\ UNCHANGED rows
    BY <1>3 DEF Reconcile, Unlisted, Exists, LiveStates
  <2> QED
    BY <2>1, ExpireFirstKeepsLife
<1>4. ASSUME NEW k \in Key, SubmitDuplicate(k) PROVE LifeInv'
  BY <1>4, RestKeepsLife DEF SubmitDuplicate
<1>5. ASSUME NEW c \in Coid, ReadBack(c) PROVE LifeInv'
  BY <1>5, RestKeepsLife DEF ReadBack
<1> QED
  BY <1>1, <1>2, <1>3, <1>4, <1>5, SubmitNewLife

(* What the commit of a row does to the rows.                               *)
LEMMA RowCommitted ==
  ASSUME TypeInv, UniqueIds, RecordRow
  PROVE  /\ call.coid \in Coid /\ rows'[call.coid] = orders[call.coid]
         /\ orders[call.coid].key \in Key /\ CoidOf[orders[call.coid].key] = call.coid
         /\ orders[call.coid].state \in OrderStates
         /\ \A x \in Coid \ {call.coid} : rows'[x] = rows[x]
<1> DEFINE c == call.coid
<1>1. c \in Coid /\ Exists(orders, c)
  BY InProgress DEF RecordRow
<1>2. /\ orders[c] \in Order /\ orders[c].state # "absent" /\ orders[c].state \in OrderStates
      /\ orders[c].key \in Key /\ CoidOf[orders[c].key] = c
  BY <1>1, ExistingOrder DEF Exists
<1>3. rows' = Upsert(rows, c, orders[c]) /\ rows \in [Coid -> Order] /\ BookOK(rows)
  BY DEF RecordRow, TypeInv, BookTypeOK
<1> QED
  BY <1>1, <1>2, <1>3, UpsertOK, UpsertUnique

LEMMA RecordRowLife ==
  ASSUME TypeInv, OnceInv, LifeInv, UniqueIds, RecordRow
  PROVE  LifeInv'
<1> DEFINE c == call.coid
<1>1. /\ c \in Coid /\ rows'[c] = orders[c] /\ orders[c].state \in OrderStates
      /\ \A x \in Coid \ {c} : rows'[x] = rows[x]
  BY RowCommitted
<1>2. UNCHANGED orders /\ call'.step = "event" /\ call'.coid = c
  BY DEF RecordRow, TypeInv, BookTypeOK
<1> HIDE DEF c
<1>3. MemoryFits'
  <2> SUFFICES ASSUME NEW x \in Coid
               PROVE  /\ orders[x].state \in LiveStates => Exists(rows', x)
                      /\ rows'[x].state \in TerminalStates => orders[x].state = rows'[x].state
                      /\ rows'[x].state \in LiveStates => orders[x].state # "created"
                      /\ orders[x].state = "created" => orders[x].vid = NoId
                      /\ rows'[x].state = "created" => rows'[x].vid = NoId
    BY <1>2 DEF MemoryFits, Exists
  <2>1. CASE x = c
    BY <1>1, <2>1 DEF LifeInv, MemoryFits, Exists, OrderStates, LiveStates, TerminalStates
  <2>2. CASE x # c
    BY <1>1, <2>2 DEF LifeInv, MemoryFits, Exists
  <2> QED
    BY <2>1, <2>2
<1>4. CallFits'
  BY <1>1, <1>2 DEF CallFits
<1> QED
  BY <1>3, <1>4 DEF LifeInv

LEMMA RecordingStepsKeepLife ==
  ASSUME TypeInv, OnceInv, LifeInv,
         CreatedRecorded \/ SubmittedRecorded \/ ExpiredRecorded \/ CallReturns \/ CommitRaises
  PROVE  LifeInv'
<1>1. CASE CreatedRecorded
  <2>1. /\ call.step = "event" /\ call.coid \in Coid /\ Exists(orders, call.coid)
        /\ orders' = [orders EXCEPT ![call.coid].state = Transition(@, "submitted")]
        /\ call'.step = "row" /\ UNCHANGED rows
    BY <1>1, InProgress DEF CreatedRecorded, LogEvent, Recording
  <2>2. "submitted" \in OrderStates \ {"created"} /\ Exists(rows, call.coid)
    BY <2>1 DEF LifeInv, CallFits, Exists, OrderStates, LiveStates
  <2>3. \A x \in Coid : Moves(x)
    BY <2>1, <2>2, SetStateMoves
  <2> QED
    BY <2>1, <2>3, MovesKeepLife
<1>2. CASE SubmittedRecorded
  <2>1. /\ call.step = "event" /\ call.tag = "submitted" /\ UNCHANGED <<orders, rows>>
        /\ call'.step = "adapter" /\ call'.coid = call.coid
    BY <1>2 DEF SubmittedRecorded, LogEvent, Calling
  <2>2. orders'[call'.coid].state # "created" /\ \A x \in Coid : Moves(x)
    BY <2>1 DEF OnceInv, SubmissionOK, Submitting, Moves
  <2> QED
    BY <2>1, <2>2, MovesKeepLife
<1>3. CASE ExpiredRecorded
  <2>1. /\ call.todo \in SUBSET Coid /\ \A x \in call.todo : Exists(orders, x)
        /\ ExpireFirst("reconcile", call.todo) /\ UNCHANGED rows
    BY <1>3 DEF ExpiredRecorded, LogEvent, TypeInv, BookTypeOK, CallOK
  <2> QED
    BY <2>1, ExpireFirstKeepsLife
<1>4. CASE CallReturns
  BY <1>4, RestKeepsLife DEF CallReturns, LogEvent
<1>5. CASE CommitRaises
  <2>1. CASE call.tag = "result"
    <3>1. /\ call.coid \in Coid /\ Exists(orders, call.coid)
          /\ orders' = [orders EXCEPT ![call.coid].state = Transition(@, "failed")]
          /\ call'.step = "row" /\ UNCHANGED rows
      BY <1>5, <2>1, InProgress DEF CommitRaises, Failing, Recording
    <3>2. "failed" \in OrderStates \ {"created"} /\ "failed" \notin LiveStates
      BY DEF OrderStates, TerminalStates, LiveStates
    <3>3. \A x \in Coid : Moves(x)
      BY <3>1, <3>2, SetStateMoves
    <3> QED
      BY <3>1, <3>3, MovesKeepLife
  <2>2. CASE call.tag # "result"
    BY <1>5, <2>2, RestKeepsLife DEF CommitRaises
  <2> QED
    BY <2>1, <2>2
<1> QED
  BY <1>1, <1>2, <1>3, <1>4, <1>5

(* A restart takes the rows for the orders.                                 *)
LEMMA CrashKeepsLife ==
  ASSUME TypeInv, LifeInv, CrashRestart
  PROVE  LifeInv'
BY DEF CrashRestart, Reload, LifeInv, MemoryFits, CallFits, Idle, Exists, LiveStates, TerminalStates

LEMMA LifeInvInductive ==
  ASSUME UniqueIds, TypeInv, OnceInv, LifeInv, [Next]_vars
  PROVE  LifeInv'
<1>1. CASE UNCHANGED vars
  BY <1>1, RestKeepsLife DEF vars
<1>2. CASE \E v \in VenueId : VenueFills(v) \/ VenueExpires(v)
  BY <1>2, RestKeepsLife DEF VenueFills, VenueExpires
<1> QED
  BY <1>1, <1>2, StartsKeepLife, RecordRowLife, RecordingStepsKeepLife, AnswersKeepLife,
     CrashKeepsLife DEF Next, Answered

-----------------------------------------------------------------------------
(* The mapping: what a commit of a row and a call of place_order are to     *)
(* OrderLifecycle.                                                          *)

Phases == [k \in Key |-> PhaseOf(k)]
Sent == [k \in Key |-> placed[k] > 0]

LEMMA InitMaps == Init => Lifecycle!Init
<1> SUFFICES ASSUME Init PROVE Lifecycle!Init
  OBVIOUS
<1>1. \A k \in Key : PhaseOf(k) = "new"
  <2> TAKE k \in Key
  <2>1. rows[CoidOf[k]].key # k /\ rows[CoidOf[k]].state = "absent"
    BY OmsConstants DEF Init, Absent
  <2> QED
    BY <2>1 DEF PhaseOf, LiveStates
<1>2. \A k \in Key : (placed[k] > 0) = FALSE
  <2> SUFFICES ASSUME NEW k \in Key PROVE ~(placed[k] > 0)
    OBVIOUS
  <2> QED
    BY DEF Init
<1> QED
  BY <1>1, <1>2, Zenon DEF Lifecycle!Init

(* A step that leaves rows and placements alone shows nothing.              *)
LEMMA Stutters ==
  ASSUME UNCHANGED <<rows, placed>>
  PROVE  UNCHANGED <<Phases, Sent>>
BY DEF Phases, Sent, PhaseOf

LEMMA RecordRowMaps ==
  ASSUME TypeInv, OnceInv, LifeInv, UniqueIds, RecordRow
  PROVE  Lifecycle!Next \/ UNCHANGED <<Phases, Sent>>
<1>0. PICK c \in Coid, k \in Key : c = call.coid /\ k = orders[c].key
  BY RowCommitted
<1>1. /\ CoidOf[k] = c /\ orders[c].state \in OrderStates
      /\ rows'[c] = orders[c] /\ \A x \in Coid \ {c} : rows'[x] = rows[x]
  BY <1>0, RowCommitted
<1>2. UNCHANGED Sent
  BY DEF RecordRow, Sent
<1>3. \A j \in Key \ {k} : PhaseOf(j)' = PhaseOf(j)
  BY <1>1, OmsConstants DEF PhaseOf, UniqueIds
<1>4. PhaseOf(k)' = (CASE orders[c].state = "created" -> "intent"
                       [] orders[c].state \in LiveStates -> "open"
                       [] OTHER -> orders[c].state)
  BY <1>0, <1>1 DEF PhaseOf
<1>5. \/ ~Exists(rows, c) /\ PhaseOf(k) = "new"
      \/ Exists(rows, c) /\ rows[c].key = k /\ rows[c].state \in OrderStates
  <2>1. CASE Exists(rows, c)
    BY <1>0, <1>1, <2>1 DEF TypeInv, BookTypeOK, OnceInv, MemoryCoversRows, Order, Exists
  <2>2. CASE ~Exists(rows, c)
    <3>1. rows[c].key # k /\ rows[c].state = "absent"
      BY <2>2, OmsConstants DEF TypeInv, BookOK, Absent
    <3> QED
      BY <1>1, <2>2, <3>1 DEF PhaseOf, LiveStates
  <2> QED
    BY <2>1, <2>2
<1>6. Phases' = [Phases EXCEPT ![k] = PhaseOf(k)'] /\ Phases[k] = PhaseOf(k)
  BY <1>1, <1>3 DEF Phases
<1>7. CASE PhaseOf(k)' = PhaseOf(k)
  BY <1>2, <1>6, <1>7 DEF Phases
<1>8. CASE PhaseOf(k) = "new" /\ PhaseOf(k)' = "intent"
  BY <1>1, <1>2, <1>6, <1>8 DEF Lifecycle!Next, Lifecycle!RecordIntent, Phases, Sent
<1>9. CASE PhaseOf(k) = "intent" /\ PhaseOf(k)' = "open"
  BY <1>1, <1>2, <1>6, <1>9 DEF Lifecycle!Next, Lifecycle!Open, Phases, Sent
<1>10. CASE PhaseOf(k) \in {"new", "intent", "open"} /\ PhaseOf(k)' \in TerminalStates
  BY <1>1, <1>2, <1>6, <1>10 DEF Lifecycle!Next, Lifecycle!Close, Phases, Sent
<1>11. \/ PhaseOf(k)' = PhaseOf(k)
       \/ PhaseOf(k) = "new" /\ PhaseOf(k)' = "intent"
       \/ PhaseOf(k) = "intent" /\ PhaseOf(k)' = "open"
       \/ PhaseOf(k) \in {"new", "intent", "open"} /\ PhaseOf(k)' \in TerminalStates
  <2>1. CASE ~Exists(rows, c) /\ PhaseOf(k) = "new"
    <3>1. orders[c].state \notin LiveStates
      BY <1>1, <2>1 DEF LifeInv, MemoryFits
    <3> QED
      BY <1>1, <1>4, <2>1, <3>1 DEF OrderStates
  <2>2. CASE Exists(rows, c) /\ rows[c].key = k /\ rows[c].state \in OrderStates
    <3>1. PhaseOf(k) = (CASE rows[c].state = "created" -> "intent"
                          [] rows[c].state \in LiveStates -> "open"
                          [] OTHER -> rows[c].state)
      BY <1>1, <2>2 DEF PhaseOf
    <3>2. /\ rows[c].state \in TerminalStates => orders[c].state = rows[c].state
          /\ rows[c].state \in LiveStates => orders[c].state # "created"
      BY <1>1 DEF LifeInv, MemoryFits
    <3> QED
      BY <1>1, <1>4, <2>2, <3>1, <3>2 DEF OrderStates, LiveStates, TerminalStates
  <2> QED
    BY <1>5, <2>1, <2>2
<1> QED
  BY <1>7, <1>8, <1>9, <1>10, <1>11

LEMMA PlacingMaps ==
  ASSUME TypeInv, OnceInv, Answered, Placing
  PROVE  Lifecycle!Next
<1>1. call.step = "adapter" /\ call.op = "submit" /\ UNCHANGED rows
  BY DEF Placing, AtAdapter
<1>2. PICK c \in Coid, k \in Key : c = call.coid /\ k = orders[c].key /\ CoidOf[k] = c
  BY <1>1, InProgress, ExistingOrder
<1>3. Submitting /\ rows[c].key = k /\ rows[c].state = "submitted"
  BY <1>1, <1>2 DEF OnceInv, SubmissionOK, Submitting
<1>4. placed' = [placed EXCEPT ![k] = @ + 1] /\ placed \in [Key -> Nat]
  BY <1>2 DEF Placing, TypeInv, BookTypeOK
<1>5. ~(placed[k] > 0)
  BY <1>2, <1>3 DEF OnceInv, PlacedOK
<1>6. Sent' = [Sent EXCEPT ![k] = TRUE] /\ Sent[k] = FALSE
  <2>1. placed'[k] > 0 /\ \A j \in Key \ {k} : placed'[j] = placed[j]
    BY <1>2, <1>4
  <2>2. (placed[k] > 0) = FALSE /\ (placed'[k] > 0) = TRUE
    BY <1>5, <2>1
  <2> QED
    BY <1>2, <2>1, <2>2, Zenon DEF Sent
<1>7. PhaseOf(k) = "open" /\ UNCHANGED Phases
  BY <1>1, <1>2, <1>3 DEF PhaseOf, Phases, LiveStates
<1> QED
  BY <1>2, <1>6, <1>7 DEF Lifecycle!Next, Lifecycle!Send, Phases, Sent

LEMMA StepMaps ==
  ASSUME UniqueIds, TypeInv, OnceInv, LifeInv, [Next]_vars
  PROVE  Lifecycle!Next \/ UNCHANGED <<Phases, Sent>>
<1>1. CASE RecordRow
  BY <1>1, RecordRowMaps
<1>2. CASE Answered
  <2>1. CASE Placing
    BY <1>2, <2>1, PlacingMaps
  <2>2. CASE ~Placing
    BY <1>2, <2>2, AnswerShape, Stutters
  <2> QED
    BY <2>1, <2>2
<1>3. CASE UNCHANGED <<rows, placed>>
  BY <1>3, Stutters
<1>4. RecordRow \/ Answered \/ UNCHANGED <<rows, placed>>
  BY DEF Next, vars, Answered, SubmitDuplicate, SubmitNew, CancelLocally, ReadBack, ContactVenue,
     Reconcile, CreatedRecorded, SubmittedRecorded, ExpiredRecorded, CallReturns, LogEvent,
     CommitRaises, VenueFills, VenueExpires, CrashRestart
<1> QED
  BY <1>1, <1>2, <1>3, <1>4

(* When every key has a client order id of its own, the ledger and the      *)
(* calls of place_order show, for each key, nothing but the life of one     *)
(* order: intent, open, sent at most once, closed for good, across crashes  *)
(* and raising commits (Oms, SqliteLedger).                                 *)
THEOREM ImplementsTheLifecycle == ASSUME UniqueIds PROVE Spec => ImplementsLifecycle
<1>1. Init => Lifecycle!Init
  BY InitMaps
<1>2. TypeInv /\ OnceInv /\ LifeInv /\ [Next]_vars
        => [Lifecycle!Next]_<<[k \in Key |-> PhaseOf(k)], [k \in Key |-> placed[k] > 0]>>
  BY StepMaps DEF Phases, Sent
<1>3. TypeInv /\ OnceInv /\ LifeInv /\ [Next]_vars => LifeInv'
  BY LifeInvInductive
<1> QED
  BY <1>1, <1>2, <1>3, InitOnceInv, OnceInvInductive, InitLifeInv, TypeInvariant, PTL
     DEF Spec, ImplementsLifecycle, Lifecycle!Spec

-----------------------------------------------------------------------------
(* What is closed in the book is done at the venue. *)

(* An order with a venue id names an order the venue has; once closed, for  *)
(* any reason but FAILED, the venue's is done, and filled if it is filled.  *)
Fine(o, book) ==
  o.vid # NoId =>
    /\ book[o.vid].st # "none"
    /\ o.state \in TerminalStates \ {"failed"} =>
         /\ book[o.vid].st \notin {"open", "partial"}
         /\ o.state = "filled" => book[o.vid].filled = Qty

(* The venue's book only moves on: what it has it keeps, and what is done   *)
(* stays as it is.                                                          *)
VenueMoves ==
  \A v \in VenueId : venue[v].st # "none" =>
    /\ venue'[v].st # "none"
    /\ venue[v].st \notin {"open", "partial"} => venue'[v] = venue[v]

(* A call that asks the exchange works on an order that is open, one that   *)
(* places it on one without a venue id; what a reconciliation still has to  *)
(* expire is done at the venue.                                             *)
AskedOK ==
  /\ Submitting \/ call.step = "adapter" => orders[call.coid].state \notin TerminalStates
  /\ Submitting => orders[call.coid].vid = NoId
  /\ \A c \in call.todo : orders[c].vid # NoId => venue[orders[c].vid].st \notin {"open", "partial"}

DoneInv ==
  /\ \A c \in Coid : Fine(orders[c], venue) /\ Fine(rows[c], venue)
  /\ \A v \in VenueId : venue[v].st = "filled" => venue[v].filled = Qty
  /\ AskedOK

-----------------------------------------------------------------------------

LEMMA InitDoneInv == Init => DoneInv
BY DEF Init, DoneInv, Fine, AskedOK, Submitting, Absent, Idle

LEMMA FineKept ==
  ASSUME NEW o \in Order, Fine(o, venue), VenueMoves
  PROVE  Fine(o, venue')
BY DEF Fine, VenueMoves, Order

(* The three ways the venue's book changes.                                 *)
LEMMA VenueChange ==
  ASSUME TypeInv, \A v \in VenueId : venue[v].st = "filled" => venue[v].filled = Qty,
         \/ UNCHANGED venue
         \/ \E v \in VenueId, st \in {"open", "filled"} : Enters(v, st)
         \/ \E v \in VenueId : Cancelled(v)
         \/ \E v \in VenueId : VenueFills(v)
  PROVE  VenueMoves /\ \A v \in VenueId : venue'[v].st = "filled" => venue'[v].filled = Qty
<1>1. \A v \in VenueId : venue[v] \in [key : Key \cup {NoKey}, filled : 0..Qty,
                                        st : {"none", "open", "partial", "filled", "cancelled"}]
      /\ venue = [u \in VenueId |-> venue[u]]
  BY DEF TypeInv, BookTypeOK
<1>2. CASE UNCHANGED venue
  BY <1>2 DEF VenueMoves
<1>3. ASSUME NEW v \in VenueId, NEW st \in {"open", "filled"}, Enters(v, st)
      PROVE  VenueMoves /\ \A w \in VenueId : venue'[w].st = "filled" => venue'[w].filled = Qty
  <2>1. /\ venue[v].st = "none" /\ venue'[v].st = st /\ (st = "filled" => venue'[v].filled = Qty)
        /\ \A w \in VenueId \ {v} : venue'[w] = venue[w]
    BY <1>1, <1>3 DEF Enters
  <2> QED
    BY <2>1 DEF VenueMoves
<1>4. ASSUME NEW v \in VenueId, Cancelled(v)
      PROVE  VenueMoves /\ \A w \in VenueId : venue'[w].st = "filled" => venue'[w].filled = Qty
  <2>1. /\ venue[v].st \in {"open", "partial"} /\ venue'[v].st = "cancelled"
        /\ \A w \in VenueId \ {v} : venue'[w] = venue[w]
    BY <1>1, <1>4 DEF Cancelled, IsLiveAtVenue
  <2> QED
    BY <2>1 DEF VenueMoves
<1>5. ASSUME NEW v \in VenueId, VenueFills(v)
      PROVE  VenueMoves /\ \A w \in VenueId : venue'[w].st = "filled" => venue'[w].filled = Qty
  <2>1. /\ venue[v].st \in {"open", "partial"} /\ venue'[v].st \in {"filled", "partial"}
        /\ venue'[v].st = "filled" => venue'[v].filled = Qty
        /\ \A w \in VenueId \ {v} : venue'[w] = venue[w]
    BY <1>1, <1>5, OmsConstants DEF VenueFills, IsLiveAtVenue
  <2> QED
    BY <2>1 DEF VenueMoves
<1> QED
  BY <1>2, <1>3, <1>4, <1>5

(* A step whose order book is fine keeps the invariant.                     *)
LEMMA MovesKeepDone ==
  ASSUME TypeInv, DoneInv, VenueMoves,
         \A v \in VenueId : venue'[v].st = "filled" => venue'[v].filled = Qty,
         \A c \in Coid : \/ orders'[c] = orders[c] \/ orders'[c] = rows[c]
                         \/ Fine(orders'[c], venue'),
         \A c \in Coid : rows'[c] = rows[c] \/ rows'[c] = orders[c] \/ rows'[c] = Absent,
         AskedOK'
  PROVE  DoneInv'
<1>1. \A c \in Coid : orders[c] \in Order /\ rows[c] \in Order
  BY DEF TypeInv, BookTypeOK
<1>2. \A c \in Coid : Fine(orders[c], venue') /\ Fine(rows[c], venue')
  BY <1>1, FineKept DEF DoneInv
<1>3. Fine(Absent, venue')
  BY DEF Fine, Absent
<1> QED
  BY <1>2, <1>3 DEF DoneInv

(* What a reply leaves of the order it is about.                            *)
LEMMA RepliesShape ==
  ASSUME TypeInv, call.step = "adapter", NEW status, NEW v, NEW filled, Replies(status, v, filled)
  PROVE  /\ orders'[call.coid].state = Transition(orders[call.coid].state, MapStatus(status))
         /\ orders'[call.coid].vid = IF v # NoId THEN v ELSE orders[call.coid].vid
         /\ \A c \in Coid \ {call.coid} : orders'[c] = orders[c]
         /\ call' = Recording(call.op, "result", call.coid, {})
<1>1. call.coid \in Coid /\ orders \in [Coid -> Order]
  BY InProgress DEF TypeInv, BookTypeOK
<1>2. orders' = [orders EXCEPT ![call.coid] = ApplyResult(orders[call.coid], status, v, filled)]
  BY DEF Replies
<1>3. orders[call.coid] \in Order
  BY <1>1
<1> QED
  BY <1>1, <1>2, <1>3 DEF Replies, ApplyResult, Order

LEMMA RaisesShape ==
  ASSUME TypeInv, call.step = "adapter" \/ call.tag = "result", call.step # "idle",
         orders' = Failing(call.coid)
  PROVE  /\ orders'[call.coid].state = Transition(orders[call.coid].state, "failed")
         /\ orders'[call.coid].vid = orders[call.coid].vid
         /\ \A c \in Coid \ {call.coid} : orders'[c] = orders[c]
<1>1. call.coid \in Coid /\ orders \in [Coid -> Order]
  BY InProgress DEF TypeInv, BookTypeOK
<1>2. orders[call.coid] \in Order
  BY <1>1
<1> QED
  BY <1>1, <1>2 DEF Failing, Order

(* A reply that carries a venue id carries it with a state that is true.    *)
LEMMA AnswerFine ==
  ASSUME TypeInv, DoneInv, Answered
  PROVE  Fine(orders'[call.coid], venue')
<1> DEFINE c == call.coid
           s == orders[c].state
<1>1. /\ c \in Coid /\ s \notin TerminalStates /\ call.step = "adapter"
      /\ orders[c].vid \in VenueId \cup {NoId} /\ Fine(orders[c], venue)
      /\ venue \in [VenueId -> [key : Key \cup {NoKey}, filled : 0..Qty,
                                st : {"none", "open", "partial", "filled", "cancelled"}]]
      /\ \A v \in VenueId : venue[v].st = "filled" => venue[v].filled = Qty
  BY AnswerShape, InProgress, ExistingOrder DEF DoneInv, AskedOK, TypeInv, BookTypeOK
<1>2. \A v \in VenueId : v # NoId
  BY OmsConstants
<1> USE DEF Fine
<1>3. CASE Raises
  <2>1. orders'[c].vid = orders[c].vid /\ orders'[c].state = "failed"
    BY <1>1, <1>3, RaisesShape DEF Raises, Transition
  <2>2. VenueMoves
    BY <1>1, AnswerVenue, VenueChange
  <2> QED
    BY <1>1, <2>1, <2>2 DEF VenueMoves
<1>4. CASE Placing
  <2>1. orders[c].vid = NoId
    BY <1>1, <1>4 DEF Placing, AtAdapter, Submitting, DoneInv, AskedOK
  <2>2. CASE PlaceAcknowledged
    <3>1. PICK v \in VenueId, raw \in {"open", "filled"} : Enters(v, raw) /\ Replies(MapHlStatus(raw), v, 0)
      BY <2>2 DEF PlaceAcknowledged
    <3>2. orders'[c].vid = v /\ orders'[c].state = MapStatus(MapHlStatus(raw))
      BY <1>1, <1>2, <3>1, RepliesShape DEF Transition
    <3>3. venue'[v].st = raw /\ (raw = "filled" => venue'[v].filled = Qty)
      BY <1>1, <3>1 DEF Enters
    <3> QED
      BY <3>2, <3>3 DEF MapStatus, MapHlStatus, TerminalStates
  <2>3. CASE \E status : Replies(status, NoId, 0)
    BY <1>1, <2>1, <2>3, RepliesShape
  <2> QED
    BY <1>3, <1>4, <2>2, <2>3 DEF Answered, PlaceTimesOut, PlaceOnPaper, PlaceRejected, PlaceRaises,
       CancelAcknowledged, CancelTooLate, CancelRaises, StatusAnswered, StatusUnknown, StatusRaises,
       Placing, Cancelling, Querying, AtAdapter
<1>5. CASE CancelAcknowledged
  <2>1. PICK v \in VenueId : Cancelling(v) /\ Cancelled(v) /\ Replies(MapHlStatus("cancelled"), v, 0)
    BY <1>5 DEF CancelAcknowledged
  <2>2. orders'[c].vid = v /\ orders'[c].state = "cancelled"
    BY <1>1, <1>2, <2>1, RepliesShape DEF Transition, MapStatus, MapHlStatus
  <2>3. venue'[v].st = "cancelled"
    BY <1>1, <2>1 DEF Cancelled
  <2> QED
    BY <2>2, <2>3
<1>6. CASE CancelTooLate \/ StatusUnknown
  <2>1. PICK v \in VenueId, status \in {MapHlStatus("error: not open"), MapHlStatus("timeout")} :
          Replies(status, v, 0) /\ v = orders[c].vid /\ UNCHANGED venue
    BY <1>6 DEF CancelTooLate, StatusUnknown, Cancelling, Querying
  <2>2. orders'[c].vid = orders[c].vid /\ orders'[c].state = "unknown"
    BY <1>1, <1>2, <2>1, RepliesShape DEF Transition, MapStatus, MapHlStatus
  <2> QED
    BY <1>1, <2>1, <2>2 DEF TerminalStates
<1>7. CASE StatusAnswered
  <2>1. PICK v \in VenueId : Replies(MapHlStatus(venue[v].st), v, venue[v].filled)
                              /\ v = orders[c].vid /\ UNCHANGED venue
    BY <1>7 DEF StatusAnswered, Querying
  <2>2. orders'[c].vid = orders[c].vid /\ orders'[c].state = MapStatus(MapHlStatus(venue[v].st))
    BY <1>1, <1>2, <2>1, RepliesShape DEF Transition
  <2> QED
    BY <1>1, <2>1, <2>2 DEF MapStatus, MapHlStatus, TerminalStates
<1> QED
  BY <1>3, <1>4, <1>5, <1>6, <1>7 DEF Answered, PlaceAcknowledged, PlaceTimesOut, PlaceOnPaper,
     PlaceRejected, PlaceRaises, CancelRaises, StatusRaises

LEMMA AnswersKeepDone ==
  ASSUME TypeInv, DoneInv, Answered
  PROVE  DoneInv'
<1>1. VenueMoves /\ \A v \in VenueId : venue'[v].st = "filled" => venue'[v].filled = Qty
  BY AnswerVenue, VenueChange DEF DoneInv
<1>2. call.step = "adapter" /\ UNCHANGED rows /\ call.coid \in Coid
  BY AnswerShape, InProgress
<1>3. /\ \A c \in Coid \ {call.coid} : orders'[c] = orders[c]
      /\ call'.step = "row" /\ call'.tag \in {"result", "failed"} /\ call'.todo = {}
  BY <1>2, AnswerShape, RepliesShape, RaisesShape DEF Raises, Recording, Replies
<1>4. AskedOK'
  BY <1>3 DEF AskedOK, Submitting
<1> QED
  BY <1>1, <1>2, <1>3, <1>4, AnswerFine, MovesKeepDone

(* Expiring the first order of a list of orders that are done.              *)
LEMMA ExpireFirstDone ==
  ASSUME TypeInv, DoneInv, UNCHANGED <<venue, rows>>, NEW todo \in SUBSET Coid,
         \A x \in todo : Exists(orders, x)
                         /\ (orders[x].vid # NoId => venue[orders[x].vid].st \notin {"open", "partial"}),
         ExpireFirst("reconcile", todo)
  PROVE  DoneInv'
<1>1. PICK c \in todo : /\ orders' = [orders EXCEPT ![c].state = Transition(@, "expired")]
                       /\ call' = Recording("reconcile", "expired", c, todo \ {c})
  BY DEF ExpireFirst
<1>2. orders \in [Coid -> Order] /\ orders[c] \in Order /\ Fine(orders[c], venue)
  BY DEF TypeInv, BookTypeOK, DoneInv
<1>3. /\ orders'[c].vid = orders[c].vid /\ orders'[c].state = Transition(orders[c].state, "expired")
      /\ \A x \in Coid \ {c} : orders'[x] = orders[x]
  BY <1>1, <1>2 DEF Order
<1>4. Fine(orders'[c], venue')
  BY <1>2, <1>3 DEF Fine, Transition, TerminalStates
<1>5. AskedOK'
  BY <1>1, <1>3 DEF AskedOK, Submitting, Recording
<1>6. VenueMoves /\ \A v \in VenueId : venue'[v].st = "filled" => venue'[v].filled = Qty
  BY DEF VenueMoves, DoneInv
<1> QED
  BY <1>3, <1>4, <1>5, <1>6, MovesKeepDone

LEMMA StartsKeepDone ==
  ASSUME TypeInv, DoneInv,
         \/ \E k \in Key : SubmitDuplicate(k) \/ SubmitNew(k)
         \/ \E c \in Coid : CancelLocally(c) \/ ReadBack(c)
         \/ \E c \in Coid : ContactVenue("cancel", c) \/ ContactVenue("status", c)
         \/ Reconcile
  PROVE  DoneInv'
<1> USE DEF StartCall
<1>1. /\ UNCHANGED <<venue, rows>> /\ VenueMoves /\ orders \in [Coid -> Order]
      /\ \A v \in VenueId : venue'[v].st = "filled" => venue'[v].filled = Qty
  BY DEF SubmitDuplicate, SubmitNew, CancelLocally, ReadBack, ContactVenue, Reconcile, VenueMoves,
     DoneInv, TypeInv, BookTypeOK
<1>2. ASSUME NEW k \in Key, SubmitNew(k) PROVE DoneInv'
  <2>1. /\ CoidOf[k] \in Coid /\ orders'[CoidOf[k]] = NewOrder(k)
        /\ \A c \in Coid \ {CoidOf[k]} : orders'[c] = orders[c]
        /\ call' = Recording("submit", "created", CoidOf[k], {})
    BY <1>1, <1>2, OmsConstants DEF SubmitNew
  <2>2. Fine(orders'[CoidOf[k]], venue') /\ AskedOK'
    BY <2>1 DEF Fine, NewOrder, AskedOK, Recording, TerminalStates
  <2> QED
    BY <1>1, <2>1, <2>2, MovesKeepDone
<1>3. ASSUME NEW c \in Coid, CancelLocally(c) PROVE DoneInv'
  <2>1. /\ orders[c] \in Order /\ orders[c].vid = NoId /\ orders'[c].vid = NoId
        /\ \A x \in Coid \ {c} : orders'[x] = orders[x]
        /\ call' = Recording("cancel", "local", c, {})
    BY <1>1, <1>3 DEF CancelLocally, Order
  <2>2. Fine(orders'[c], venue') /\ AskedOK'
    BY <2>1 DEF Fine, AskedOK, Recording, Submitting
  <2> QED
    BY <1>1, <2>1, <2>2, MovesKeepDone
<1>4. ASSUME NEW c \in Coid, ContactVenue("cancel", c) \/ ContactVenue("status", c) PROVE DoneInv'
  <2>1. /\ UNCHANGED orders /\ orders[c].state \notin TerminalStates
        /\ call'.op # "submit" /\ call'.step = "adapter" /\ call'.coid = c /\ call'.todo = {}
    BY <1>4 DEF ContactVenue, IsTerminal, Calling
  <2>2. AskedOK'
    BY <2>1 DEF AskedOK, Submitting
  <2> QED
    BY <1>1, <2>1, <2>2, MovesKeepDone
<1>5. CASE Reconcile
  <2>1. /\ Unlisted \in SUBSET Coid /\ ExpireFirst("reconcile", Unlisted)
        /\ \A x \in Unlisted :
             Exists(orders, x) /\ venue[orders[x].vid].st \notin {"open", "partial"}
    BY <1>5 DEF Reconcile, Unlisted, IsLiveAtVenue, Exists, LiveStates
  <2> QED
    BY <1>1, <2>1, ExpireFirstDone
<1>6. ASSUME UNCHANGED <<orders, call>> PROVE DoneInv'
  <2>1. AskedOK'
    BY <1>1, <1>6 DEF DoneInv, AskedOK, Submitting
  <2> QED
    BY <1>1, <1>6, <2>1, MovesKeepDone
<1> QED
  BY <1>2, <1>3, <1>4, <1>5, <1>6 DEF SubmitDuplicate, ReadBack

LEMMA RecordingStepsKeepDone ==
  ASSUME TypeInv, DoneInv,
         \/ RecordRow \/ CreatedRecorded \/ SubmittedRecorded \/ ExpiredRecorded
         \/ CallReturns \/ CommitRaises
  PROVE  DoneInv'
<1>1. /\ UNCHANGED venue /\ VenueMoves /\ orders \in [Coid -> Order] /\ rows \in [Coid -> Order]
      /\ \A v \in VenueId : venue'[v].st = "filled" => venue'[v].filled = Qty
      /\ call.step # "idle" /\ call.coid \in Coid /\ orders[call.coid] \in Order
      /\ Exists(orders, call.coid)
  BY InProgress DEF RecordRow, CreatedRecorded, SubmittedRecorded, ExpiredRecorded, CallReturns,
     CommitRaises, LogEvent, VenueMoves, DoneInv, TypeInv, BookTypeOK
<1>2. CASE RecordRow
  <2>1. /\ UNCHANGED orders /\ call.step = "row" /\ call' = [call EXCEPT !.step = "event"]
        /\ \A c \in Coid : rows'[c] \in {rows[c], orders[c], Absent}
    BY <1>1, <1>2 DEF RecordRow, Upsert
  <2>2. /\ call'.step = "event" /\ call'.tag = call.tag /\ call'.op = call.op
        /\ call'.coid = call.coid /\ call'.todo = call.todo
    BY <2>1 DEF TypeInv, BookTypeOK
  <2>3. AskedOK'
    BY <1>1, <2>1, <2>2 DEF DoneInv, AskedOK, Submitting
  <2> QED
    BY <1>1, <2>1, <2>3, MovesKeepDone
<1>3. CASE CreatedRecorded
  <2>1. /\ call.tag = "created" /\ call.step = "event" /\ UNCHANGED rows
        /\ orders' = [orders EXCEPT ![call.coid].state = Transition(@, "submitted")]
        /\ call' = Recording("submit", "submitted", call.coid, {})
    BY <1>3 DEF CreatedRecorded, LogEvent
  <2>2. orders[call.coid].vid = NoId /\ orders[call.coid].state \notin TerminalStates
    BY <2>1 DEF DoneInv, AskedOK, Submitting
  <2>3. /\ orders'[call.coid].vid = NoId /\ orders'[call.coid].state = "submitted"
        /\ \A c \in Coid \ {call.coid} : orders'[c] = orders[c]
    BY <1>1, <2>1, <2>2 DEF Order, Transition
  <2>4. Fine(orders'[call.coid], venue') /\ AskedOK'
    BY <2>1, <2>3 DEF Fine, AskedOK, Recording, TerminalStates
  <2> QED
    BY <1>1, <2>1, <2>3, <2>4, MovesKeepDone
<1>4. CASE SubmittedRecorded
  <2>1. /\ call.tag = "submitted" /\ call.step = "event" /\ UNCHANGED <<orders, rows>>
        /\ call' = Calling("submit", call.coid)
    BY <1>4 DEF SubmittedRecorded, LogEvent
  <2>2. AskedOK'
    BY <2>1 DEF DoneInv, AskedOK, Submitting, Calling
  <2> QED
    BY <1>1, <2>1, <2>2, MovesKeepDone
<1>5. CASE ExpiredRecorded
  <2>1. /\ call.todo \in SUBSET Coid /\ \A x \in call.todo : Exists(orders, x)
        /\ ExpireFirst("reconcile", call.todo) /\ UNCHANGED rows
        /\ \A x \in call.todo : orders[x].vid # NoId => venue[orders[x].vid].st \notin {"open", "partial"}
    BY <1>5 DEF ExpiredRecorded, LogEvent, TypeInv, BookTypeOK, CallOK, DoneInv, AskedOK
  <2> QED
    BY <1>1, <2>1, ExpireFirstDone
<1>6. ASSUME UNCHANGED <<orders, rows>>, call' = Idle PROVE DoneInv'
  <2>1. AskedOK'
    BY <1>6 DEF AskedOK, Submitting, Idle
  <2> QED
    BY <1>1, <1>6, <2>1, MovesKeepDone
<1>7. CASE CommitRaises /\ call.tag = "result"
  <2>1. /\ orders' = Failing(call.coid) /\ UNCHANGED rows
        /\ call' = Recording(call.op, "failed", call.coid, {})
    BY <1>7 DEF CommitRaises
  <2>2. /\ orders'[call.coid].state = Transition(orders[call.coid].state, "failed")
        /\ orders'[call.coid].vid = orders[call.coid].vid
        /\ \A c \in Coid \ {call.coid} : orders'[c] = orders[c]
    BY <1>1, <1>7, <2>1, RaisesShape
  <2>3. Fine(orders[call.coid], venue)
    BY <1>1 DEF DoneInv
  <2>4. Fine(orders'[call.coid], venue')
    BY <1>1, <2>2, <2>3 DEF Fine, Transition
  <2>5. AskedOK'
    BY <2>1 DEF AskedOK, Submitting, Recording
  <2> QED
    BY <1>1, <2>1, <2>2, <2>4, <2>5, MovesKeepDone
<1> QED
  BY <1>2, <1>3, <1>4, <1>5, <1>6, <1>7 DEF CallReturns, CommitRaises, LogEvent

LEMMA DoneInvInductive ==
  ASSUME TypeInv, DoneInv, [Next]_vars
  PROVE  DoneInv'
<1>1. CASE UNCHANGED vars
  BY <1>1 DEF vars, DoneInv, AskedOK, Submitting, Fine
<1>2. CASE \E v \in VenueId : VenueFills(v) \/ VenueExpires(v)
  <2>1. VenueMoves /\ \A v \in VenueId : venue'[v].st = "filled" => venue'[v].filled = Qty
    BY <1>2, VenueChange DEF DoneInv, VenueExpires
  <2>2. UNCHANGED <<orders, rows, call>>
    BY <1>2 DEF VenueFills, VenueExpires
  <2>3. \A c \in Coid : orders[c] \in Order /\ Fine(orders[c], venue)
    BY DEF TypeInv, BookTypeOK, DoneInv
  <2>4. call.todo \in SUBSET Coid
    BY DEF TypeInv, BookTypeOK
  <2>5. AskedOK'
    BY <2>1, <2>2, <2>3, <2>4 DEF DoneInv, AskedOK, Submitting, VenueMoves, Fine, Order
  <2> QED
    BY <2>1, <2>2, <2>5, MovesKeepDone
<1>3. CASE CrashRestart
  <2>1. orders' = rows /\ UNCHANGED <<rows, venue>> /\ call' = Idle
    BY <1>3 DEF CrashRestart, Reload
  <2>2. AskedOK' /\ VenueMoves
    BY <2>1 DEF AskedOK, Submitting, Idle, VenueMoves
  <2> QED
    BY <2>1, <2>2, MovesKeepDone DEF DoneInv
<1> QED
  BY <1>1, <1>2, <1>3, StartsKeepDone, RecordingStepsKeepDone, AnswersKeepDone DEF Next, Answered

(* An order the OMS closed for any reason but FAILED is not live at the     *)
(* venue, and FILLED means completely filled: whatever replies came late,   *)
(* whatever was reconciled from a list that was no longer true, and across  *)
(* restarts from the ledger (Oms, HyperliquidAdapter).                      *)
THEOREM ClosedIsDone == Spec => []ClosedMeansDone
<1>1. TypeInv /\ DoneInv => ClosedMeansDone
  BY DEF DoneInv, Fine, ClosedMeansDone, IsLiveAtVenue
<1> QED
  BY <1>1, InitDoneInv, DoneInvInductive, TypeInvariant, PTL DEF Spec

-----------------------------------------------------------------------------
(* The ledger and its log miss nothing. *)

(* As long as no commit has raised: the order book is the ledger, but for   *)
(* the order whose row is about to be committed, which has a row already    *)
(* unless it is new; and whatever final state was reported is in its row.   *)
Mirrored ==
  budget.faults = 0 =>
    /\ \A c \in Coid : orders[c] = rows[c] \/ (call.step = "row" /\ call.coid = c)
    /\ call.step = "row" /\ call.tag # "created" => Exists(rows, call.coid)
    /\ ReportedIsDurable

(* As long as no commit has raised and no crash has come between: the row   *)
(* of an order was logged in its state, with its creation, but for the      *)
(* event that is about to be logged; and no order was placed whose          *)
(* submission was not logged.                                               *)
Logging(c) == call.step = "event" /\ call.coid = c

Logged ==
  (budget.crashes = 0 /\ budget.faults = 0) =>
    /\ \A c \in Coid : Exists(rows, c) =>
         /\ rows[c].state \in events[c] \/ Logging(c)
         /\ "created" \in events[c] \/ (Logging(c) /\ call.tag = "created")
         /\ placed[rows[c].key] > 0 => "submitted" \in events[c]
    /\ call.step = "adapter" =>
         /\ orders[call.coid].state \notin TerminalStates
         /\ call.op = "submit" => "submitted" \in events[call.coid]
    /\ call.step \in {"row", "event"} /\ call.tag = "failed" => orders[call.coid].state = "failed"

LedgerInv == Mirrored /\ Logged

-----------------------------------------------------------------------------

LEMMA InitLedgerInv == Init => LedgerInv
BY DEF Init, LedgerInv, Mirrored, Logged, Logging, ReportedIsDurable, Absent, Idle, Exists,
   TerminalStates

(* A step in which only the order whose row will be committed changes.      *)
LEMMA OneOrderMoves ==
  ASSUME TypeInv, LedgerInv, UNCHANGED <<rows, events, reported>>,
         budget'.faults = 0 => budget.faults = 0,
         budget'.crashes = 0 => budget.crashes = 0,
         call.step \notin {"row", "event"}, call'.step = "row" \/ call'.step = "adapter",
         \A c \in Coid : Exists(rows, c) /\ placed'[rows[c].key] > 0 =>
           placed[rows[c].key] > 0 \/ (call.step = "adapter" /\ call.op = "submit" /\ call.coid = c),
         call'.coid \in Coid,
         \A c \in Coid \ {call'.coid} : orders'[c] = orders[c],
         call'.step = "row" /\ call'.tag # "created" => Exists(orders, call'.coid),
         call'.step = "row" /\ call'.tag = "failed" =>
           orders'[call'.coid].state = Transition(orders[call'.coid].state, "failed")
           /\ call.step = "adapter" /\ call.coid = call'.coid,
         call'.step = "adapter" =>
           orders' = orders /\ orders[call'.coid].state \notin TerminalStates /\ call'.op # "submit"
  PROVE  LedgerInv'
<1>1. Mirrored'
  <2> SUFFICES ASSUME budget'.faults = 0
               PROVE  /\ \A c \in Coid : orders'[c] = rows[c] \/ (call'.step = "row" /\ call'.coid = c)
                      /\ call'.step = "row" /\ call'.tag # "created" => Exists(rows, call'.coid)
                      /\ ReportedIsDurable'
    BY DEF Mirrored, Exists
  <2>1. (\A c \in Coid : orders[c] = rows[c]) /\ ReportedIsDurable
    BY DEF LedgerInv, Mirrored
  <2>2. ReportedIsDurable'
    BY <2>1 DEF ReportedIsDurable
  <2> QED
    BY <2>1, <2>2 DEF Exists
<1>2. Logged'
  <2> SUFFICES ASSUME budget'.crashes = 0, budget'.faults = 0
               PROVE  /\ \A c \in Coid : Exists(rows, c) =>
                           /\ rows[c].state \in events[c]
                           /\ "created" \in events[c]
                           /\ placed'[rows[c].key] > 0 => "submitted" \in events[c]
                      /\ call'.step = "adapter" =>
                           orders'[call'.coid].state \notin TerminalStates /\ call'.op # "submit"
                      /\ call'.step = "row" /\ call'.tag = "failed" =>
                           orders'[call'.coid].state = "failed"
    BY DEF Logged, Logging, Exists
  <2>1. /\ \A c \in Coid : Exists(rows, c) =>
             /\ rows[c].state \in events[c]
             /\ "created" \in events[c]
             /\ placed[rows[c].key] > 0 => "submitted" \in events[c]
        /\ call.step = "adapter" =>
             /\ orders[call.coid].state \notin TerminalStates
             /\ call.op = "submit" => "submitted" \in events[call.coid]
    BY DEF LedgerInv, Logged, Logging
  <2> QED
    BY <2>1 DEF Transition
<1> QED
  BY <1>1, <1>2 DEF LedgerInv

LEMMA StartsKeepLedger ==
  ASSUME TypeInv, OnceInv, LedgerInv,
         \/ \E k \in Key : SubmitDuplicate(k) \/ SubmitNew(k)
         \/ \E c \in Coid : CancelLocally(c) \/ ReadBack(c)
         \/ \E c \in Coid : ContactVenue("cancel", c) \/ ContactVenue("status", c)
         \/ Reconcile
  PROVE  LedgerInv'
<1>1. /\ call.step = "idle" /\ budget'.faults = budget.faults /\ budget'.crashes = budget.crashes
      /\ UNCHANGED <<rows, events, placed>>
  BY DEF SubmitDuplicate, SubmitNew, CancelLocally, ReadBack, ContactVenue, Reconcile, StartCall,
     TypeInv, BookTypeOK
<1>2. orders \in [Coid -> Order]
  BY DEF TypeInv, BookTypeOK
<1>3. ASSUME NEW k \in Key, SubmitNew(k) PROVE LedgerInv'
  <2>1. /\ CoidOf[k] \in Coid /\ UNCHANGED reported
        /\ \A c \in Coid \ {CoidOf[k]} : orders'[c] = orders[c]
        /\ call'.step = "row" /\ call'.tag = "created" /\ call'.coid = CoidOf[k]
    BY <1>2, <1>3, OmsConstants DEF SubmitNew, Recording
  <2> QED
    BY <1>1, <2>1, OneOrderMoves
<1>4. ASSUME NEW c \in Coid, CancelLocally(c) PROVE LedgerInv'
  <2>1. /\ Exists(orders, c) /\ UNCHANGED reported
        /\ \A x \in Coid \ {c} : orders'[x] = orders[x]
        /\ call'.step = "row" /\ call'.tag = "local" /\ call'.coid = c
    BY <1>2, <1>4 DEF CancelLocally, Recording
  <2> QED
    BY <1>1, <2>1, OneOrderMoves
<1>5. ASSUME NEW c \in Coid, ContactVenue("cancel", c) \/ ContactVenue("status", c) PROVE LedgerInv'
  <2>1. /\ UNCHANGED <<orders, reported>> /\ orders[c].state \notin TerminalStates
        /\ call'.op # "submit" /\ call'.step = "adapter" /\ call'.coid = c
    BY <1>5 DEF ContactVenue, IsTerminal, Calling
  <2> QED
    BY <1>1, <2>1, OneOrderMoves
<1>6. CASE Reconcile
  <2>1. PICK c \in Unlisted : /\ orders' = [orders EXCEPT ![c].state = Transition(@, "expired")]
                              /\ call' = Recording("reconcile", "expired", c, Unlisted \ {c})
    BY <1>6 DEF Reconcile, ExpireFirst
  <2>2. /\ c \in Coid /\ Exists(orders, c) /\ UNCHANGED reported
        /\ \A x \in Coid \ {c} : orders'[x] = orders[x]
        /\ call'.step = "row" /\ call'.tag = "expired" /\ call'.coid = c
    BY <1>2, <1>6, <2>1 DEF Reconcile, Unlisted, Exists, LiveStates, Recording
  <2> QED
    BY <1>1, <2>1, <2>2, OneOrderMoves
<1>7. ASSUME NEW c \in Coid, NEW k \in Key, CoidOf[k] = c, UNCHANGED <<orders, call>>,
             reported' = [reported EXCEPT ![k] = orders[c].state]
      PROVE  LedgerInv'
  <2>1. Logged'
    BY <1>1, <1>7 DEF LedgerInv, Logged, Logging, Exists
  <2>2. budget.faults = 0 => ReportedIsDurable'
    BY <1>1, <1>7 DEF LedgerInv, Mirrored, ReportedIsDurable, TypeInv, BookTypeOK
  <2>3. Mirrored'
    BY <1>1, <1>7, <2>2 DEF LedgerInv, Mirrored, Exists
  <2> QED
    BY <2>1, <2>3 DEF LedgerInv
<1>8. ASSUME NEW k \in Key, SubmitDuplicate(k) PROVE LedgerInv'
  <2>1. idem[k] = CoidOf[k] /\ CoidOf[k] \in Coid
    BY <1>8, OmsConstants DEF SubmitDuplicate, KnownKey, TypeInv, IndexOK
  <2> QED
    BY <1>7, <1>8, <2>1 DEF SubmitDuplicate
<1>9. ASSUME NEW c \in Coid, ReadBack(c) PROVE LedgerInv'
  <2>1. orders[c].key \in Key /\ CoidOf[orders[c].key] = c
    BY <1>9, ExistingOrder DEF ReadBack
  <2> QED
    BY <1>7, <1>9, <2>1 DEF ReadBack
<1> QED
  BY <1>3, <1>4, <1>5, <1>6, <1>8, <1>9

LEMMA AnswersKeepLedger ==
  ASSUME TypeInv, OnceInv, LedgerInv, Answered
  PROVE  LedgerInv'
<1>1. /\ call.step = "adapter" /\ UNCHANGED <<idem, rows, events, reported, budget>>
      /\ call.coid \in Coid /\ Exists(orders, call.coid)
      /\ orders \in [Coid -> Order] /\ BookOK(rows)
  BY AnswerShape, InProgress DEF TypeInv, BookTypeOK
<1>2. /\ call'.step = "row" /\ call'.coid = call.coid
      /\ \A c \in Coid \ {call.coid} : orders'[c] = orders[c]
      /\ call'.tag = "failed" =>
           orders'[call.coid].state = Transition(orders[call.coid].state, "failed")
  BY <1>1, AnswerShape, RepliesShape, RaisesShape DEF Raises, Recording, Replies
<1>3. \A c \in Coid : Exists(rows, c) /\ placed'[rows[c].key] > 0 =>
        placed[rows[c].key] > 0 \/ (call.step = "adapter" /\ call.op = "submit" /\ call.coid = c)
  <2>1. CASE UNCHANGED placed
    BY <2>1
  <2>2. CASE Placing
    <3>1. orders[call.coid].key \in Key /\ CoidOf[orders[call.coid].key] = call.coid
      BY <1>1, ExistingOrder
    <3>2. \A c \in Coid : Exists(rows, c) => rows[c].key \in Key /\ CoidOf[rows[c].key] = c
      BY <1>1 DEF BookOK
    <3> QED
      BY <1>1, <2>2, <3>1, <3>2 DEF Placing, AtAdapter, TypeInv, BookTypeOK
  <2> QED
    BY <2>1, <2>2, AnswerShape
<1> QED
  BY <1>1, <1>2, <1>3, OneOrderMoves

(* The commit of a row: a final state that was reported stays in it.        *)
LEMMA RecordRowLedger ==
  ASSUME TypeInv, OnceInv, LifeInv, LedgerInv, UniqueIds, RecordRow
  PROVE  LedgerInv'
<1> DEFINE c == call.coid
<1>1. /\ c \in Coid /\ rows'[c] = orders[c] /\ orders[c].key \in Key /\ CoidOf[orders[c].key] = c
      /\ orders[c].state \in OrderStates
      /\ \A x \in Coid \ {c} : rows'[x] = rows[x]
  BY RowCommitted
<1>2. /\ UNCHANGED <<orders, events, placed, reported, budget>> /\ call.step = "row"
      /\ call'.step = "event" /\ call'.coid = c /\ call'.tag = call.tag /\ call'.op = call.op
  BY DEF RecordRow, TypeInv, BookTypeOK
<1>3. Mirrored'
  <2> SUFFICES ASSUME budget.faults = 0
               PROVE  (\A x \in Coid : orders[x] = rows'[x]) /\ ReportedIsDurable'
    BY <1>2 DEF Mirrored
  <2>1. /\ \A x \in Coid : orders[x] = rows[x] \/ x = c
        /\ ReportedIsDurable
    BY <1>2 DEF LedgerInv, Mirrored
  <2>2. ReportedIsDurable'
    <3> SUFFICES ASSUME NEW k \in Key, reported[k] \in TerminalStates
                 PROVE  rows'[CoidOf[k]].state = reported[k]
      BY <1>2 DEF ReportedIsDurable
    <3>1. rows[CoidOf[k]].state = reported[k] /\ CoidOf[k] \in Coid
      BY <2>1, OmsConstants DEF ReportedIsDurable
    <3> QED
      BY <1>1, <3>1 DEF LifeInv, MemoryFits
  <2> QED
    BY <1>1, <2>1, <2>2
<1>4. Logged'
  <2> SUFFICES ASSUME budget.crashes = 0, budget.faults = 0
               PROVE  /\ \A x \in Coid : Exists(rows', x) =>
                           /\ rows'[x].state \in events[x] \/ x = c
                           /\ "created" \in events[x] \/ (x = c /\ call.tag = "created")
                           /\ placed[rows'[x].key] > 0 => "submitted" \in events[x]
                      /\ call.tag = "failed" => orders[c].state = "failed"
    BY <1>2 DEF Logged, Logging, Exists
  <2>1. /\ \A x \in Coid : Exists(rows, x) =>
             /\ rows[x].state \in events[x]
             /\ "created" \in events[x]
             /\ placed[rows[x].key] > 0 => "submitted" \in events[x]
        /\ call.tag = "failed" => orders[c].state = "failed"
        /\ call.tag # "created" => Exists(rows, c)
    BY <1>2 DEF LedgerInv, Logged, Logging, Mirrored
  <2>2. placed[orders[c].key] > 0 => Exists(rows, c) /\ rows[c].key = orders[c].key
    BY <1>1, OmsConstants DEF OnceInv, PlacedOK, TypeInv, BookOK, Absent
  <2> QED
    BY <1>1, <2>1, <2>2 DEF Exists
<1> QED
  BY <1>3, <1>4 DEF LedgerInv

(* The commit of an event: the log of its order is complete again.          *)
LEMMA EventLogged ==
  ASSUME TypeInv, OnceInv, LifeInv, LedgerInv, LogEvent
  PROVE  /\ UNCHANGED <<rows, placed, budget>> /\ call.step = "event" /\ call.coid \in Coid
         /\ rows[call.coid] = orders[call.coid] /\ Exists(rows, call.coid)
         /\ (budget.crashes = 0 /\ budget.faults = 0) =>
              /\ \A c \in Coid : Exists(rows, c) =>
                   /\ rows[c].state \in events'[c]
                   /\ "created" \in events'[c]
                   /\ placed[rows[c].key] > 0 => "submitted" \in events'[c]
              /\ orders[call.coid].state \in events'[call.coid]
<1> DEFINE x == call.coid
<1>1. /\ call.step = "event" /\ x \in Coid /\ Exists(orders, x) /\ UNCHANGED <<rows, placed, budget>>
      /\ events' = [events EXCEPT ![x] = @ \cup {IF call.tag = "failed" THEN "failed" ELSE orders[x].state}]
      /\ events \in [Coid -> SUBSET OrderStates]
  BY InProgress DEF LogEvent, TypeInv, BookTypeOK
<1>2. rows[x] = orders[x]
  BY <1>1 DEF LifeInv, CallFits
<1>3. ASSUME budget.crashes = 0, budget.faults = 0
      PROVE  /\ \A c \in Coid : Exists(rows, c) =>
                   /\ rows[c].state \in events'[c]
                   /\ "created" \in events'[c]
                   /\ placed[rows[c].key] > 0 => "submitted" \in events'[c]
             /\ orders[x].state \in events'[x]
  <2>1. events'[x] = events[x] \cup {orders[x].state} /\ \A c \in Coid \ {x} : events'[c] = events[c]
    BY <1>1, <1>3 DEF LedgerInv, Logged
  <2>2. \A c \in Coid : Exists(rows, c) =>
             /\ rows[c].state \in events[c] \/ c = x
             /\ "created" \in events[c] \/ (c = x /\ call.tag = "created")
             /\ placed[rows[c].key] > 0 => "submitted" \in events[c]
    BY <1>3 DEF LedgerInv, Logged, Logging
  <2>3. call.tag = "created" => orders[x].state = "created"
    BY <1>1 DEF OnceInv, SubmissionOK
  <2> QED
    BY <1>1, <1>2, <2>1, <2>2, <2>3
<1> QED
  BY <1>1, <1>2, <1>3 DEF Exists

LEMMA EventStepsKeepLedger ==
  ASSUME TypeInv, OnceInv, LifeInv, LedgerInv,
         CreatedRecorded \/ SubmittedRecorded \/ ExpiredRecorded \/ CallReturns
  PROVE  LedgerInv'
<1> DEFINE x == call.coid
<1>1. LogEvent
  BY DEF CreatedRecorded, SubmittedRecorded, ExpiredRecorded, CallReturns
<1>2. /\ UNCHANGED <<rows, placed, budget>> /\ x \in Coid /\ call.step = "event"
      /\ rows[x] = orders[x] /\ Exists(rows, x) /\ orders \in [Coid -> Order]
      /\ (budget.crashes = 0 /\ budget.faults = 0) =>
           /\ \A c \in Coid : Exists(rows, c) =>
                /\ rows[c].state \in events'[c]
                /\ "created" \in events'[c]
                /\ placed[rows[c].key] > 0 => "submitted" \in events'[c]
           /\ orders[x].state \in events'[x]
  BY <1>1, EventLogged DEF TypeInv, BookTypeOK
<1>3. budget.faults = 0 => (\A c \in Coid : orders[c] = rows[c]) /\ ReportedIsDurable
  BY <1>2 DEF LedgerInv, Mirrored
<1>4. ASSUME NEW c \in Coid, Exists(orders, c), UNCHANGED reported,
             \A y \in Coid \ {c} : orders'[y] = orders[y],
             call'.step = "row", call'.coid = c, call'.tag # "failed"
      PROVE  LedgerInv'
  <2>1. Mirrored'
    BY <1>2, <1>3, <1>4 DEF Mirrored, ReportedIsDurable, Exists
  <2>2. Logged'
    BY <1>2, <1>4 DEF Logged, Logging, Exists
  <2> QED
    BY <2>1, <2>2 DEF LedgerInv
<1>5. CASE CreatedRecorded
  <2>1. /\ orders' = [orders EXCEPT ![x].state = Transition(@, "submitted")]
        /\ call' = Recording("submit", "submitted", x, {}) /\ UNCHANGED reported
    BY <1>5 DEF CreatedRecorded
  <2> QED
    BY <1>2, <1>4, <2>1 DEF Recording, Exists
<1>6. CASE ExpiredRecorded
  <2>1. PICK c \in call.todo : /\ orders' = [orders EXCEPT ![c].state = Transition(@, "expired")]
                              /\ call' = Recording("reconcile", "expired", c, call.todo \ {c})
    BY <1>6 DEF ExpiredRecorded, ExpireFirst
  <2>2. c \in Coid /\ Exists(orders, c) /\ UNCHANGED reported
    BY <1>6 DEF ExpiredRecorded, TypeInv, BookTypeOK, CallOK
  <2> QED
    BY <1>2, <1>4, <2>1, <2>2 DEF Recording
<1>7. CASE SubmittedRecorded
  <2>1. UNCHANGED <<orders, reported>> /\ call' = Calling("submit", x) /\ call.tag = "submitted"
    BY <1>7 DEF SubmittedRecorded
  <2>2. orders[x].state = "submitted"
    BY <1>2, <2>1 DEF OnceInv, SubmissionOK, Submitting
  <2>3. Mirrored'
    BY <1>2, <1>3, <2>1 DEF Mirrored, ReportedIsDurable, Calling
  <2>4. Logged'
    BY <1>2, <2>1, <2>2 DEF Logged, Logging, Exists, Calling, TerminalStates
  <2> QED
    BY <2>3, <2>4 DEF LedgerInv
<1>8. CASE CallReturns
  <2>1. /\ UNCHANGED orders /\ call' = Idle
        /\ reported' = reported \/ reported' = [reported EXCEPT ![orders[x].key] = orders[x].state]
    BY <1>8 DEF CallReturns
  <2>2. CoidOf[orders[x].key] = x /\ orders[x].key \in Key
    BY <1>2, ExistingOrder DEF Exists
  <2>3. budget.faults = 0 => ReportedIsDurable'
    BY <1>2, <1>3, <2>1, <2>2 DEF ReportedIsDurable, TypeInv, BookTypeOK
  <2>4. Mirrored'
    BY <1>2, <1>3, <2>1, <2>3 DEF Mirrored, Idle
  <2>5. Logged'
    BY <1>2, <2>1 DEF Logged, Logging, Exists, Idle
  <2> QED
    BY <2>4, <2>5 DEF LedgerInv
<1> QED
  BY <1>5, <1>6, <1>7, <1>8

LEMMA LedgerInvInductive ==
  ASSUME UniqueIds, TypeInv, OnceInv, LifeInv, LedgerInv, [Next]_vars
  PROVE  LedgerInv'
<1>1. ASSUME UNCHANGED <<orders, rows, events, call, placed, reported, budget>> PROVE LedgerInv'
  BY <1>1 DEF LedgerInv, Mirrored, ReportedIsDurable, Logged, Logging, Exists
<1>2. CASE CommitRaises
  <2>1. budget'.faults # 0
    BY <1>2 DEF CommitRaises, TypeInv, BookTypeOK
  <2> QED
    BY <2>1 DEF LedgerInv, Mirrored, Logged
<1>3. CASE CrashRestart
  <2>1. /\ orders' = rows /\ call' = Idle /\ UNCHANGED <<rows, reported>>
        /\ budget'.crashes # 0 /\ budget'.faults = budget.faults
    BY <1>3 DEF CrashRestart, Reload, TypeInv, BookTypeOK
  <2> QED
    BY <2>1 DEF LedgerInv, Mirrored, Logged, ReportedIsDurable, Idle
<1> QED
  BY <1>1, <1>2, <1>3, StartsKeepLedger, RecordRowLedger, EventStepsKeepLedger, AnswersKeepLedger
     DEF Next, Answered, vars, VenueFills, VenueExpires

(* The ledger holds whatever the program believes or has said: a final      *)
(* state handed to a caller is durable and the order book is the ledger     *)
(* between calls, as long as no commit raises; and the audit log names the  *)
(* creation, the submission and the state of every order, as long as no     *)
(* crash or raising commit separates row and event (Oms, SqliteLedger).     *)
THEOREM LedgerHoldsAll == ASSUME UniqueIds PROVE Spec => []LedgerIsComplete
<1>1. TypeInv /\ LedgerInv => MemoryIsDurable
  <2> SUFFICES ASSUME TypeInv, LedgerInv, call.step = "idle", budget.faults = 0
               PROVE  orders = rows
    BY DEF MemoryIsDurable
  <2>1. orders \in [Coid -> Order] /\ rows \in [Coid -> Order]
    BY DEF TypeInv, BookTypeOK
  <2>2. \A c \in Coid : orders[c] = rows[c]
    BY DEF LedgerInv, Mirrored
  <2> QED
    BY <2>1, <2>2
<1>2. LedgerInv => ReportedIsDurable
  BY DEF LedgerInv, Mirrored, ReportedIsDurable
<1>3. LedgerInv => AuditComplete
  BY DEF LedgerInv, Logged, Logging, AuditComplete
<1>4. TypeInv /\ LedgerInv => LedgerIsComplete
  BY <1>1, <1>2, <1>3 DEF LedgerIsComplete
<1> QED
  BY <1>4, InitOnceInv, OnceInvInductive, InitLifeInv, LifeInvInductive, InitLedgerInv,
     LedgerInvInductive, TypeInvariant, PTL DEF Spec

=============================================================================
