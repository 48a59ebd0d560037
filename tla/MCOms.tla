------------------------------- MODULE MCOms -------------------------------
(* Oms with two keys and two client order ids, for TLC. *)
EXTENDS Oms, TLC

CONSTANTS k1, k2, c1, c2

(* Each key has an id of its own, as make_client_order_id gives it.          *)
OwnIds == k1 :> c1 @@ k2 :> c2

(* The caller passes one client_order_id with two submissions whose          *)
(* idempotency keys differ, as OmsNexusAdapter does with its fresh nonces.   *)
SharedId == k1 :> c1 @@ k2 :> c1

(* The ways nexus_adapter.py builds it.                                        *)
Builds ==
  {[adapter |-> "hyperliquid", dryRun |-> FALSE], [adapter |-> "paper", dryRun |-> FALSE],
   [adapter |-> "hyperliquid", dryRun |-> TRUE]}

(* Venue ids are interchangeable.                                            *)
VenueSymmetry == Permutations(VenueId)
=============================================================================
