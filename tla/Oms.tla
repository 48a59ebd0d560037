-------------------------------- MODULE Oms --------------------------------
(***************************************************************************)
(* The order management system of src/oms: Oms (the in-process order book  *)
(* and idempotency index), SqliteLedger (the durable rows and events), the *)
(* exchange adapter it calls and the venue behind that adapter.            *)
(*                                                                         *)
(* Oms is single-threaded: one call runs at a time, and `call` is its      *)
(* program counter.  A call is cut at every point another actor can see:   *)
(* the commit of the row, the commit of the event, the exchange call.  The *)
(* process may die at any of these points, either commit may raise, the    *)
(* exchange call may raise with or without having taken effect, and the    *)
(* venue fills and expires orders at any time.                             *)
(***************************************************************************)
EXTENDS Naturals, OmsOrder

CONSTANTS
  Key,        \* idempotency keys
  Coid,       \* client order ids
  CoidOf,     \* the client order id a caller submits with each key
  VenueId,    \* order ids the venue can assign
  NoKey, NoCoid, NoId,
  Qty,        \* the quantity of every order, in fill units
  Settings,   \* the pairs of adapter and dry_run the OMS may be built with
  MaxCalls,   \* bound: calls started
  MaxCrashes, \* bound: crashes of the process
  MaxFaults   \* bound: ledger commits that raise

ASSUME OmsConstants ==
  /\ CoidOf \in [Key -> Coid]
  /\ NoKey \notin Key /\ NoCoid \notin Coid /\ NoId \notin VenueId
  /\ Qty \in Nat \ {0}
  /\ Settings \subseteq [adapter : {"hyperliquid", "paper"}, dryRun : BOOLEAN]
  /\ MaxCalls \in Nat /\ MaxCrashes \in Nat /\ MaxFaults \in Nat

VARIABLES
  setting,  \* how Oms.__init__ was called: exchange adapter and dry_run
  orders,   \* Oms._orders: client order id -> order in memory
  idem,     \* Oms._idem_index: idempotency key -> client order id
  rows,     \* table oms_orders: client order id -> durable order
  events,   \* table oms_order_events: client order id -> event types logged
  call,     \* the call in progress
  venue,    \* the venue's own book
  placed,   \* history: place_order calls made for each key
  reported, \* history: state last returned to the caller of each key
  budget    \* calls, crashes and faults so far

vars == <<setting, orders, idem, rows, events, call, venue, placed, reported, budget>>

Absent == [key |-> NoKey, state |-> "absent", vid |-> NoId, filled |-> 0]

Order == [key : Key \cup {NoKey}, state : OrderStates \cup {"absent"},
          vid : VenueId \cup {NoId}, filled : 0..Qty]

Exists(book, c) == book[c].state # "absent"

IsTerminal(o) == o.state \in TerminalStates

Idle == [op |-> "none", tag |-> "none", step |-> "idle", coid |-> NoCoid, todo |-> {}]

Ops   == {"none", "submit", "cancel", "status", "reconcile"}
Tags  == {"none", "created", "submitted", "result", "failed", "local", "expired"}
Steps == {"idle", "row", "event", "adapter"}

BookTypeOK ==
  /\ orders \in [Coid -> Order]
  /\ rows \in [Coid -> Order]
  /\ idem \in [Key -> Coid \cup {NoCoid}]
  /\ events \in [Coid -> SUBSET OrderStates]
  /\ call \in [op : Ops, tag : Tags, step : Steps,
               coid : Coid \cup {NoCoid}, todo : SUBSET Coid]
  /\ venue \in [VenueId -> [key : Key \cup {NoKey}, filled : 0..Qty,
                            st : {"none", "open", "partial", "filled", "cancelled"}]]
  /\ placed \in [Key -> Nat]
  /\ reported \in [Key -> OrderStates \cup {"absent"}]
  /\ budget \in [calls : Nat, crashes : Nat, faults : Nat]

TypeOK == setting \in Settings /\ BookTypeOK

Init ==
  /\ setting \in Settings
  /\ orders = [c \in Coid |-> Absent]
  /\ rows = [c \in Coid |-> Absent]
  /\ idem = [k \in Key |-> NoCoid]
  /\ events = [c \in Coid |-> {}]
  /\ call = Idle
  /\ venue = [v \in VenueId |-> [key |-> NoKey, filled |-> 0, st |-> "none"]]
  /\ placed = [k \in Key |-> 0]
  /\ reported = [k \in Key |-> "absent"]
  /\ budget = [calls |-> 0, crashes |-> 0, faults |-> 0]

-----------------------------------------------------------------------------
(* Starting a call: only when no other call runs. *)

StartCall ==
  /\ call.step = "idle"
  /\ budget.calls < MaxCalls
  /\ budget' = [budget EXCEPT !.calls = @ + 1]
  /\ UNCHANGED setting

Recording(op, tag, c, todo) ==
  [op |-> op, tag |-> tag, step |-> "row", coid |-> c, todo |-> todo]

Calling(op, c) ==
  [op |-> op, tag |-> "none", step |-> "adapter", coid |-> c, todo |-> {}]

NewOrder(k) == [key |-> k, state |-> "created", vid |-> NoId, filled |-> 0]

KnownKey_OpenOnly(k) == idem[k] # NoCoid /\ orders[idem[k]].state \in LiveStates

(* The idempotency guard of submit_order. *)
KnownKey(k) == idem[k] # NoCoid /\ Exists(orders, idem[k])

SubmitDuplicate(k) ==
  /\ StartCall
  /\ KnownKey(k)
  /\ reported' = [reported EXCEPT ![k] = orders[idem[k]].state]
  /\ UNCHANGED <<orders, idem, rows, events, call, venue, placed>>

SubmitNew(k) ==
  /\ StartCall
  /\ ~KnownKey(k)
  /\ orders' = [orders EXCEPT ![CoidOf[k]] = NewOrder(k)]
  /\ idem' = [idem EXCEPT ![k] = CoidOf[k]]
  /\ call' = Recording("submit", "created", CoidOf[k], {})
  /\ UNCHANGED <<rows, events, venue, placed, reported>>

CancelLocally_Unrecorded(c) ==
  /\ StartCall
  /\ Exists(orders, c) /\ ~IsTerminal(orders[c]) /\ orders[c].vid = NoId
  /\ orders' = [orders EXCEPT ![c].state = Transition(@, "cancelled")]
  /\ reported' = [reported EXCEPT ![orders[c].key] = "cancelled"]
  /\ UNCHANGED <<idem, rows, events, call, venue, placed>>

(* cancel_order of an order the venue never gave an id: local only. *)
CancelLocally(c) ==
  /\ StartCall
  /\ Exists(orders, c) /\ ~IsTerminal(orders[c]) /\ orders[c].vid = NoId
  /\ orders' = [orders EXCEPT ![c].state = Transition(@, "cancelled")]
  /\ call' = Recording("cancel", "local", c, {})
  /\ UNCHANGED <<idem, rows, events, venue, placed, reported>>

(* cancel_order and get_order_status of an open order with a venue id. *)
ContactVenue(op, c) ==
  /\ StartCall
  /\ Exists(orders, c) /\ ~IsTerminal(orders[c]) /\ orders[c].vid # NoId
  /\ call' = Calling(op, c)
  /\ UNCHANGED <<orders, idem, rows, events, venue, placed, reported>>

(* get_order_status (and cancel_order of a terminal order) just returns. *)
ReadBack(c) ==
  /\ StartCall
  /\ Exists(orders, c) /\ (IsTerminal(orders[c]) \/ orders[c].vid = NoId)
  /\ reported' = [reported EXCEPT ![orders[c].key] = orders[c].state]
  /\ UNCHANGED <<orders, idem, rows, events, call, venue, placed>>

IsLiveAtVenue(v) == venue[v].st \in {"open", "partial"}

(* reconcile with the ids the venue lists as open when it is called. *)
Unlisted ==
  {c \in Coid : /\ orders[c].state \in LiveStates
                /\ orders[c].vid # NoId
                /\ ~IsLiveAtVenue(orders[c].vid)}

ExpireFirst(op, todo) ==
  \E c \in todo :
    /\ orders' = [orders EXCEPT ![c].state = Transition(@, "expired")]
    /\ call' = Recording(op, "expired", c, todo \ {c})

Reconcile ==
  /\ StartCall
  /\ Unlisted # {}
  /\ ExpireFirst("reconcile", Unlisted)
  /\ UNCHANGED <<idem, rows, events, venue, placed, reported>>

-----------------------------------------------------------------------------
(* Oms._record: SqliteLedger.upsert_order commits the row, then            *)
(* SqliteLedger.append_event commits the event.                            *)

(* INSERT OR REPLACE: the primary key replaces the row of the same client  *)
(* order id, the unique index deletes any other row of the same key.       *)
Upsert(book, c, o) ==
  [x \in Coid |-> IF x = c THEN o
                  ELSE IF book[x].key = o.key THEN Absent ELSE book[x]]

RecordRow ==
  /\ call.step = "row"
  /\ rows' = Upsert(rows, call.coid, orders[call.coid])
  /\ call' = [call EXCEPT !.step = "event"]
  /\ UNCHANGED <<setting, orders, idem, events, venue, placed, reported, budget>>

LogEvent ==
  /\ call.step = "event"
  /\ events' = [events EXCEPT ![call.coid] =
                  @ \cup {IF call.tag = "failed" THEN "failed" ELSE orders[call.coid].state}]
  /\ UNCHANGED <<setting, idem, rows, venue, placed, budget>>

CreatedRecorded_PlacesAtOnce ==
  /\ LogEvent
  /\ call.tag = "created" /\ ~setting.dryRun
  /\ orders' = [orders EXCEPT ![call.coid].state = Transition(@, "submitted")]
  /\ call' = Calling("submit", call.coid)
  /\ UNCHANGED reported

(* submit_order goes on to SUBMITTED unless this is a dry run. *)
CreatedRecorded ==
  /\ LogEvent
  /\ call.tag = "created" /\ ~setting.dryRun
  /\ orders' = [orders EXCEPT ![call.coid].state = Transition(@, "submitted")]
  /\ call' = Recording("submit", "submitted", call.coid, {})
  /\ UNCHANGED reported

SubmittedRecorded ==
  /\ LogEvent
  /\ call.tag = "submitted"
  /\ call' = Calling("submit", call.coid)
  /\ UNCHANGED <<orders, reported>>

ExpiredRecorded ==
  /\ LogEvent
  /\ call.tag = "expired" /\ call.todo # {}
  /\ ExpireFirst("reconcile", call.todo)
  /\ UNCHANGED reported

CallReturns ==
  /\ LogEvent
  /\ \/ call.tag \in {"result", "failed", "local"}
     \/ call.tag = "created" /\ setting.dryRun
     \/ call.tag = "expired" /\ call.todo = {}
  /\ call' = Idle
  /\ reported' = IF call.op = "reconcile" THEN reported
                 ELSE [reported EXCEPT ![orders[call.coid].key] = orders[call.coid].state]
  /\ UNCHANGED orders

Failing(c) == [orders EXCEPT ![c].state = Transition(@, "failed")]

(* A commit raises.  Inside the try of the exchange call the exception is   *)
(* taken for a failure of the order; anywhere else it leaves the call.      *)
CommitRaises ==
  /\ call.step \in {"row", "event"}
  /\ budget.faults < MaxFaults
  /\ budget' = [budget EXCEPT !.faults = @ + 1]
  /\ IF call.tag = "result"
     THEN /\ orders' = Failing(call.coid)
          /\ call' = Recording(call.op, "failed", call.coid, {})
     ELSE call' = Idle /\ UNCHANGED orders
  /\ UNCHANGED <<setting, idem, rows, events, venue, placed, reported>>

-----------------------------------------------------------------------------
(* The exchange call.  A reply is an ExchangeOrderResult: protocol status, *)
(* exchange_order_id and filled_qty.                                       *)

ApplyResult_Accumulates(o, status, vid, filled) ==
  [o EXCEPT !.vid = IF vid # NoId THEN vid ELSE @,
            !.filled = @ + filled,
            !.state = Transition(@, MapStatus(status))]

(* oms._apply_result: the id is kept when the reply has none, the filled   *)
(* quantity is always overwritten.                                         *)
ApplyResult(o, status, vid, filled) ==
  [o EXCEPT !.vid = IF vid # NoId THEN vid ELSE @,
            !.filled = filled,
            !.state = Transition(@, MapStatus(status))]

Replies(status, vid, filled) ==
  /\ orders' = [orders EXCEPT ![call.coid] = ApplyResult(@, status, vid, filled)]
  /\ call' = Recording(call.op, "result", call.coid, {})

Raises ==
  /\ orders' = Failing(call.coid)
  /\ call' = Recording(call.op, "failed", call.coid, {})

AtAdapter(op) == call.step = "adapter" /\ call.op = op

Placing ==
  /\ AtAdapter("submit")
  /\ placed' = [placed EXCEPT ![orders[call.coid].key] = @ + 1]
  /\ UNCHANGED <<setting, idem, rows, events, reported, budget>>

(* The venue takes the order; an order filled at once is entered as filled. *)
Enters(v, st) ==
  /\ venue[v].st = "none"
  /\ venue' = [venue EXCEPT ![v] = [key |-> orders[call.coid].key, st |-> st,
                                    filled |-> IF st = "filled" THEN Qty ELSE 0]]

(* HyperliquidAdapter.place_order: the reply carries the id and, whatever   *)
(* the venue filled, filled_qty 0.                                          *)
PlaceAcknowledged ==
  /\ Placing /\ setting.adapter = "hyperliquid"
  /\ \E v \in VenueId, raw \in {"open", "filled"} :
       Enters(v, raw) /\ Replies(MapHlStatus(raw), v, 0)

(* The reply names no order: "timeout", whether or not the venue took it.   *)
PlaceTimesOut ==
  /\ Placing /\ setting.adapter = "hyperliquid"
  /\ Replies(MapHlStatus("timeout"), NoId, 0)
  /\ UNCHANGED venue \/ \E v \in VenueId : Enters(v, "open")

(* NexusAdapter.place_order: the paper fill is booked in the account before *)
(* the reply, or not booked at all; the reply is "accepted" with no id.     *)
PlaceOnPaper ==
  /\ Placing /\ setting.adapter = "paper"
  /\ Replies("accepted", NoId, 0)
  /\ UNCHANGED venue \/ \E v \in VenueId : Enters(v, "filled")

PlaceRejected ==
  /\ Placing
  /\ Replies("rejected", NoId, 0)
  /\ UNCHANGED venue

PlaceRaises ==
  /\ Placing
  /\ Raises
  /\ \/ UNCHANGED venue
     \/ \E v \in VenueId : Enters(v, IF setting.adapter = "paper" THEN "filled" ELSE "open")

Cancelled(v) ==
  /\ IsLiveAtVenue(v)
  /\ venue' = [venue EXCEPT ![v].st = "cancelled"]

Cancelling(v) ==
  /\ AtAdapter("cancel")
  /\ v = orders[call.coid].vid
  /\ UNCHANGED <<setting, idem, rows, events, placed, reported, budget>>

(* HyperliquidAdapter.cancel_order: filled_qty is 0 whatever was filled.    *)
CancelAcknowledged ==
  \E v \in VenueId : Cancelling(v) /\ Cancelled(v) /\ Replies(MapHlStatus("cancelled"), v, 0)

(* Nothing left to cancel: the venue answers with some other status.        *)
CancelTooLate ==
  \E v \in VenueId :
    /\ Cancelling(v) /\ ~IsLiveAtVenue(v)
    /\ Replies(MapHlStatus("error: not open"), v, 0)
    /\ UNCHANGED venue

CancelRaises ==
  \E v \in VenueId : Cancelling(v) /\ Raises /\ (UNCHANGED venue \/ Cancelled(v))

Querying(v) ==
  /\ AtAdapter("status")
  /\ v = orders[call.coid].vid
  /\ UNCHANGED <<setting, idem, rows, events, venue, placed, reported, budget>>

(* HyperliquidAdapter.get_order_status: status and filled_sz of the venue.  *)
StatusAnswered ==
  \E v \in VenueId :
    Querying(v) /\ Replies(MapHlStatus(venue[v].st), v, venue[v].filled)

(* A reply with an unknown status and no filled_sz, which defaults to 0.    *)
StatusUnknown ==
  \E v \in VenueId : Querying(v) /\ Replies(MapHlStatus("timeout"), v, 0)

StatusRaises ==
  \E v \in VenueId : Querying(v) /\ Raises

-----------------------------------------------------------------------------
(* The venue moves on its own. *)

VenueFills(v) ==
  /\ IsLiveAtVenue(v)
  /\ venue' = [venue EXCEPT ![v].filled = @ + 1,
                            ![v].st = IF venue[v].filled + 1 = Qty THEN "filled" ELSE "partial"]
  /\ UNCHANGED <<setting, orders, idem, rows, events, call, placed, reported, budget>>

VenueExpires(v) ==
  /\ Cancelled(v)
  /\ UNCHANGED <<setting, orders, idem, rows, events, call, placed, reported, budget>>

Reload_NoIndex ==
  /\ orders' = rows
  /\ idem' = [k \in Key |-> NoCoid]

(* Oms.__init__ over an existing database. *)
Reload ==
  /\ orders' = rows
  /\ idem' = [k \in Key |->
                IF \E c \in Coid : rows[c].key = k
                THEN CHOOSE c \in Coid : rows[c].key = k ELSE NoCoid]

(* The process dies between two steps and is started again. *)
CrashRestart ==
  /\ budget.crashes < MaxCrashes
  /\ budget' = [budget EXCEPT !.crashes = @ + 1]
  /\ Reload
  /\ call' = Idle
  /\ UNCHANGED <<setting, rows, events, venue, placed, reported>>

Next ==
  \/ \E k \in Key : SubmitDuplicate(k) \/ SubmitNew(k)
  \/ \E c \in Coid : CancelLocally(c) \/ ReadBack(c)
  \/ \E c \in Coid : ContactVenue("cancel", c) \/ ContactVenue("status", c)
  \/ Reconcile
  \/ RecordRow \/ CreatedRecorded \/ SubmittedRecorded \/ ExpiredRecorded
  \/ CallReturns \/ CommitRaises
  \/ PlaceAcknowledged \/ PlaceTimesOut \/ PlaceOnPaper \/ PlaceRejected \/ PlaceRaises
  \/ CancelAcknowledged \/ CancelTooLate \/ CancelRaises
  \/ StatusAnswered \/ StatusUnknown \/ StatusRaises
  \/ \E v \in VenueId : VenueFills(v) \/ VenueExpires(v)
  \/ CrashRestart

Spec == Init /\ [][Next]_vars

-----------------------------------------------------------------------------
(* What the OMS promises. *)

(* One client order id belongs to one key, as when both come from the same  *)
(* six fields (make_idempotency_key, make_client_order_id).                 *)
UniqueIds == \A j, k \in Key : CoidOf[j] = CoidOf[k] => j = k

(* "adapter.place_order is NOT called again": resubmitting a key never      *)
(* places a second order, across crashes at any point, commits that raise   *)
(* and exchange calls that fail after taking effect.                        *)
AtMostOncePlacement == \A k \in Key : placed[k] <= 1

(* The exchange is never called for an order whose submission is not        *)
(* already durable, so a restart after any crash knows of it.               *)
WriteAhead ==
  \A k \in Key : placed[k] > 0 =>
    rows[CoidOf[k]].key = k /\ rows[CoidOf[k]].state # "created"

(* A final state handed to a caller is in the ledger, so no restart takes   *)
(* it back (as long as no commit has raised).                               *)
ReportedIsDurable ==
  budget.faults = 0 =>
    \A k \in Key : reported[k] \in TerminalStates =>
                     rows[CoidOf[k]].state = reported[k]

(* Between calls the ledger mirrors the order book: every path through      *)
(* every call that changes an order records it (no commit having raised).   *)
MemoryIsDurable == (call.step = "idle" /\ budget.faults = 0) => orders = rows

(* An order the OMS closed for any reason but FAILED, and that the venue    *)
(* had numbered, is not live at the venue; FILLED means completely filled.  *)
ClosedMeansDone ==
  \A c \in Coid :
    (orders[c].vid # NoId /\ orders[c].state \in TerminalStates \ {"failed"}) =>
      /\ ~IsLiveAtVenue(orders[c].vid)
      /\ orders[c].state = "filled" => venue[orders[c].vid].filled = Qty

(* docs/run-modes.md: "every state transition ... is appended to            *)
(* oms_order_events".  As long as no crash and no raising commit separates  *)
(* row and event, the log of an order names its creation, its submission if *)
(* it was placed, and the state its row is in.                              *)
AuditComplete ==
  (call.step = "idle" /\ budget.crashes = 0 /\ budget.faults = 0) =>
    \A c \in Coid : Exists(rows, c) =>
      /\ {"created", rows[c].state} \subseteq events[c]
      /\ placed[rows[c].key] > 0 => "submitted" \in events[c]

(* Whatever the program believes, has said or has done to an order survives *)
(* it in the ledger.                                                        *)
LedgerIsComplete == ReportedIsDurable /\ MemoryIsDurable /\ AuditComplete

-----------------------------------------------------------------------------
(* Refinement: the durable rows and the place_order calls implement         *)
(* OrderLifecycle.                                                          *)

PhaseOf(k) ==
  LET row == rows[CoidOf[k]]
  IN  CASE row.key # k             -> "new"
        [] row.state = "created"   -> "intent"
        [] row.state \in LiveStates -> "open"
        [] OTHER                   -> row.state

Lifecycle == INSTANCE OrderLifecycle WITH
  Outcome <- TerminalStates,
  phase   <- [k \in Key |-> PhaseOf(k)],
  sent    <- [k \in Key |-> placed[k] > 0]

(* Crashes, failed commits, raising exchange calls and replies in any order *)
(* never show an observer of the ledger and of the exchange anything but    *)
(* the abstract life of an order; "terminal states are a one-way door" is   *)
(* part of it, across restarts too.                                         *)
ImplementsLifecycle == Lifecycle!Spec

=============================================================================
