---------------------------- MODULE MCK35Replan ----------------------------
(* Small instances of K35Replan. *)
EXTENDS K35Replan, TLC

CONSTANTS w1, w2, p1, p2

OwnIds == (p1 :> w1) @@ (p2 :> w2)
=============================================================================
