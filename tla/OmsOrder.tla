------------------------------ MODULE OmsOrder ------------------------------
(***************************************************************************)
(* The order states of src/oms/order.py, the one-way door of               *)
(* OmsOrder._transition, and the two status vocabularies that lead to a    *)
(* state: the raw status of a Hyperliquid reply, which the adapter         *)
(* normalises, and the normalised status of an ExchangeOrderResult, which  *)
(* the OMS maps to an OrderState.                                          *)
(***************************************************************************)

TerminalStates == {"filled", "cancelled", "rejected", "expired", "failed"}

LiveStates == {"submitted", "accepted", "partially_filled", "unknown"}

OrderStates == {"created"} \cup LiveStates \cup TerminalStates

(* OmsOrder._transition: a terminal state is never left. *)
Transition(state, new) == IF state \in TerminalStates THEN state ELSE new

(* oms._map_status: every unlisted status becomes UNKNOWN. *)
MapStatus(status) ==
  CASE status \in {"accepted", "open", "dry_run"}      -> "accepted"
    [] status = "filled"                               -> "filled"
    [] status = "cancelled"                            -> "cancelled"
    [] status \in {"rejected", "error"}                -> "rejected"
    [] status \in {"partially_filled", "partial"}      -> "partially_filled"
    [] OTHER                                           -> "unknown"

MapHlStatus_PartialIsFilled(raw) ==
  CASE raw = "open"                                    -> "accepted"
    [] raw \in {"filled", "partial"}                   -> "filled"
    [] raw \in {"cancelled", "rejected"}               -> raw
    [] OTHER                                           -> "unknown"

(* hyperliquid_adapter._map_hl_status: raw venue status to protocol status. *)
MapHlStatus(raw) ==
  CASE raw = "open"                                    -> "accepted"
    [] raw \in {"filled", "cancelled", "rejected"}     -> raw
    [] raw \in {"partial", "partially_filled"}         -> "partially_filled"
    [] OTHER                                           -> "unknown"

=============================================================================
