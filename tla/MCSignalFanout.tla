--------------------------- MODULE MCSignalFanout ---------------------------
(* SignalFanout with two users. *)
EXTENDS SignalFanout

CONSTANTS u1, u2, w1, w2

UsersInOrder == u1 :> 1 @@ u2 :> 2
=============================================================================
