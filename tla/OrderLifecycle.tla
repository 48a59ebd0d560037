--------------------------- MODULE OrderLifecycle ---------------------------
(***************************************************************************)
(* What an order management system owes its caller for each idempotency    *)
(* key, whatever crashes: the intent is durable before anything is sent,   *)
(* the order is sent at most once and only while it is open, and the       *)
(* outcome, once recorded, stays.                                          *)
(***************************************************************************)
CONSTANTS Key, Outcome

VARIABLES
  phase,   \* "new", "intent", "open" or the recorded outcome of each key
  sent     \* whether the order of each key has been sent to the exchange

Init ==
  /\ phase = [k \in Key |-> "new"]
  /\ sent = [k \in Key |-> FALSE]

RecordIntent(k) ==
  /\ phase[k] = "new"
  /\ phase' = [phase EXCEPT ![k] = "intent"]
  /\ UNCHANGED sent

Open(k) ==
  /\ phase[k] = "intent"
  /\ phase' = [phase EXCEPT ![k] = "open"]
  /\ UNCHANGED sent

Send(k) ==
  /\ phase[k] = "open" /\ ~sent[k]
  /\ sent' = [sent EXCEPT ![k] = TRUE]
  /\ UNCHANGED phase

(* An order may be given up before it was opened, or before its intent was  *)
(* durable.                                                                 *)
Close(k) ==
  /\ phase[k] \in {"new", "intent", "open"}
  /\ \E o \in Outcome : phase' = [phase EXCEPT ![k] = o]
  /\ UNCHANGED sent

Next == \E k \in Key : RecordIntent(k) \/ Open(k) \/ Send(k) \/ Close(k)

Spec == Init /\ [][Next]_<<phase, sent>>

=============================================================================
