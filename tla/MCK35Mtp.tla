----------------------------- MODULE MCK35Mtp ------------------------------
(* Small instances of K35Mtp. *)
EXTENDS K35Mtp

CONSTANTS p1, p2, w1, w2, c1, c2

(* One id, container and plan; two ids and a re-plan; layer 45 prepared     *)
(* again for another container; one id and container, and a re-plan.        *)
PlainOrMixed ==
  {[ids |-> {w1}, codecs |-> {c1}, plans |-> 1],
   [ids |-> {w1, w2}, codecs |-> {c1}, plans |-> 2],
   [ids |-> {w1}, codecs |-> {c1, c2}, plans |-> 1]}
Replanned == {[ids |-> {w1}, codecs |-> {c1}, plans |-> 2]}
=============================================================================
