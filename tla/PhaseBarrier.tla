---------------------------- MODULE PhaseBarrier ----------------------------
(***************************************************************************)
(* What a barrier of a persistent grid promises, with no word about how:   *)
(* the CTAs of a launch go through the same numbered rendezvous, and none  *)
(* leaves a rendezvous before all have reached it.                         *)
(***************************************************************************)
EXTENDS Naturals, FiniteSets

CONSTANT CtaIds      \* every CTA index a launch may use

VARIABLES members,    \* the CTAs of the kernel that is running
          reached,    \* how many rendezvous a CTA has reached
          left        \* how many it has left again

vars == <<members, reached, left>>

Nowhere == [c \in {} |-> 0]

Init == /\ members = {}
        /\ reached = Nowhere
        /\ left = Nowhere

\* A new kernel starts, its CTAs in front of the first rendezvous.
Start(S) == /\ members = {}
            /\ members' = S
            /\ reached' = [c \in S |-> 0]
            /\ left' = [c \in S |-> 0]

\* The kernel ends, its CTAs not inside a rendezvous and equally far.
Finish == /\ members # {}
          /\ \A c \in members : reached[c] = left[c]
          /\ \A c, d \in members : left[c] = left[d]
          /\ members' = {}
          /\ reached' = Nowhere
          /\ left' = Nowhere

Reach(c) == /\ reached[c] = left[c]
            /\ reached' = [reached EXCEPT ![c] = @ + 1]
            /\ UNCHANGED <<members, left>>

Leave(c) == /\ reached[c] = left[c] + 1
            /\ \A d \in members : reached[d] >= reached[c]
            /\ left' = [left EXCEPT ![c] = @ + 1]
            /\ UNCHANGED <<members, reached>>

Next == \/ \E S \in SUBSET CtaIds : Start(S)
        \/ Finish
        \/ \E c \in members : Reach(c) \/ Leave(c)

Spec == Init /\ [][Next]_vars
=============================================================================
