--------------------------- MODULE MCK35Campaign ---------------------------
(* Small instances of K35Campaign. *)
EXTENDS K35Campaign, TLC

CONSTANTS w1, w2, p1, p2

(* Each process has an id of its own, as the plan assigns them. *)
OwnIds == (p1 :> w1) @@ (p2 :> w2)
=============================================================================
