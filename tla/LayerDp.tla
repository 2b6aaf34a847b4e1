------------------------------ MODULE LayerDp ------------------------------
(***************************************************************************)
(* The exact-budget allocation of one layer: solve_layer_dp in             *)
(* encode/k35_common.py.  Every tensor is quantized at 3 or at 4 bits;     *)
(* exactly Budget of the N tensors of the census get 4 bits, and the sum   *)
(* of their gains (the scaled, rounded product of expert mass and loss     *)
(* reduction) is to be the largest there is.  The program walks the        *)
(* tensors once, keeping the best score of every number of upgrades and a  *)
(* backpointer per tensor, then walks the backpointers home.               *)
(*                                                                         *)
(* A gain is an integer and may be negative: the code refuses a negative   *)
(* loss, not a loss that grows with the width.  One action is one turn of  *)
(* one of the two loops; the loops over prior_cost and bits inside a turn  *)
(* only ever offer a new cost two candidates, in a fixed order.            *)
(***************************************************************************)
EXTENDS Integers, FiniteSets, FiniteSetsExt

CONSTANTS
    N,        \* tensors of the layer, in census order (864)
    Budget,   \* upgrades the layer gets (432)
    Gains,    \* the gains the probe may have measured
    Unreached \* the score of a cost that cannot be reached

ASSUME CensusAssumption ==
    /\ N \in Nat
    /\ Budget \in 0..N
    /\ Gains \subseteq Int
    /\ Unreached \notin Int

VARIABLES
    gain,     \* the gain of 4 bits over 3, per tensor
    item,     \* the tensors relaxed so far, counted down again by the walk
    scores,   \* best score per number of upgrades
    parent,   \* per tensor and cost: the bits chosen and the prior cost
    cost,     \* where the walk over the backpointers stands
    bits,     \* the widths selected so far
    phase     \* "relax", "trace" or "done"

dpVars == <<gain, item, scores, parent, cost, bits, phase>>

Tensors == 1..N
Costs == 0..Budget

\* What costs and choices hold before any candidate arrives.
NoParent == [bits |-> 0, prior |-> -1]

DpInit ==
    /\ gain \in [Tensors -> Gains]
    /\ item = 0
    /\ scores = [c \in Costs |-> IF c = 0 THEN 0 ELSE Unreached]
    /\ parent = [t \in Tensors |-> [c \in Costs |-> NoParent]]
    /\ cost = Budget
    /\ bits = [t \in Tensors |-> 0]
    /\ phase = "relax"

(***************************************************************************)
(* The first loop.  Costs are visited upwards, so the candidate that       *)
(* upgrades the tensor (from c - 1) is the incumbent when the one that     *)
(* keeps it at the floor (from c) arrives, and is replaced only on strict  *)
(* gain.                                                                   *)
(***************************************************************************)
CanKeep(c) == scores[c] # Unreached

CanUpgrade(c) == c > 0 /\ scores[c - 1] # Unreached

\* Slip: a floor of zero on the gain, as if more bits could never lose.
UpgradedClamped(t, c) == scores[c - 1] + (IF gain[t] > 0 THEN gain[t] ELSE 0)

Upgraded(t, c) == scores[c - 1] + gain[t]

Keeps(t, c) ==
    /\ CanKeep(c)
    /\ CanUpgrade(c) => scores[c] > Upgraded(t, c)

BestScore(t, c) ==
    IF Keeps(t, c) THEN scores[c]
    ELSE IF CanUpgrade(c) THEN Upgraded(t, c)
    ELSE Unreached

\* Slip: the backpointer of an upgrade keeps its own cost.
ChoiceSameCost(t, c) ==
    IF Keeps(t, c) THEN [bits |-> 3, prior |-> c]
    ELSE IF CanUpgrade(c) THEN [bits |-> 4, prior |-> c]
    ELSE NoParent

\* Slip: the width is subtracted from the cost, not the extra units.
ChoiceByWidth(t, c) ==
    IF Keeps(t, c) THEN [bits |-> 3, prior |-> c - 3]
    ELSE IF CanUpgrade(c) THEN [bits |-> 4, prior |-> c - 4]
    ELSE NoParent

Choice(t, c) ==
    IF Keeps(t, c) THEN [bits |-> 3, prior |-> c]
    ELSE IF CanUpgrade(c) THEN [bits |-> 4, prior |-> c - 1]
    ELSE NoParent

Relax ==
    /\ phase = "relax"
    /\ item < N
    /\ item' = item + 1
    /\ scores' = [c \in Costs |-> BestScore(item', c)]
    /\ parent' = [parent EXCEPT ![item'] = [c \in Costs |-> Choice(item', c)]]
    /\ UNCHANGED <<gain, cost, bits, phase>>

\* All tensors are relaxed and the exact budget is reachable.
BeginTrace ==
    /\ phase = "relax"
    /\ item = N
    /\ scores[Budget] # Unreached
    /\ phase' = "trace"
    /\ UNCHANGED <<gain, item, scores, parent, cost, bits>>

\* The two checks of the walk: a corrupt backpointer stops the program.
SoundParent(p) == p.bits \in {3, 4} /\ p.prior >= 0

Trace ==
    /\ phase = "trace"
    /\ item > 0
    /\ SoundParent(parent[item][cost])
    /\ bits' = [bits EXCEPT ![item] = parent[item][cost].bits]
    /\ cost' = parent[item][cost].prior
    /\ item' = item - 1
    /\ UNCHANGED <<gain, scores, parent, phase>>

\* The walk must come home to zero upgrades.
Finish ==
    /\ phase = "trace"
    /\ item = 0
    /\ cost = 0
    /\ phase' = "done"
    /\ UNCHANGED <<gain, item, scores, parent, cost, bits>>

DpNext == Relax \/ BeginTrace \/ Trace \/ Finish

DpSpec == DpInit /\ [][DpNext]_dpVars /\ WF_dpVars(DpNext)

----------------------------------------------------------------------------
(* Reference: every set of tensors that might be upgraded.                 *)

Selections(n, k) == {S \in SUBSET (1..n) : Cardinality(S) = k}

Score(S) == MapThenSumSet(LAMBDA t : gain[t], S)

Selected == {t \in Tensors : bits[t] = 4}

----------------------------------------------------------------------------
(* Properties.                                                             *)

\* Type invariant: scores are integers or Unreached, backpointers stay in range.
DpTypeOK ==
    /\ gain \in [Tensors -> Gains]
    /\ item \in 0..N
    /\ scores \in [Costs -> Int \cup {Unreached}]
    /\ parent \in [Tensors -> [Costs -> [bits : {0, 3, 4}, prior : -1..Budget]]]
    /\ cost \in Costs
    /\ bits \in [Tensors -> {0, 3, 4}]
    /\ phase \in {"relax", "trace", "done"}

\* None of the three die() branches behind the first loop can be reached:
\* the exact budget is reachable once every tensor is relaxed, the walk
\* never meets a hole in the backpointers and it ends at zero upgrades.
NeverCorrupt ==
    /\ phase = "relax" /\ item = N => scores[Budget] # Unreached
    /\ phase = "trace" /\ item > 0 => SoundParent(parent[item][cost])
    /\ phase = "trace" /\ item = 0 => cost = 0

\* The audit of the result: every tensor has a width and exactly Budget of
\* them have four bits, at every moment of the walk counting what is left.
ExactBudget ==
    phase # "relax" =>
        /\ \A t \in Tensors : t > item <=> bits[t] # 0
        /\ Cardinality(Selected) + cost = Budget

\* No other set of Budget tensors gains more than the one returned, and of
\* several best sets the one returned keeps its upgrades latest in the census:
\* the last tensor in which it differs from a rival is upgraded by it and not
\* by the rival, so equal probes always give the same plan.
SelectionOptimal ==
    phase = "done" =>
        \A S \in Selections(N, Budget) \ {Selected} :
            \/ Score(Selected) > Score(S)
            \/ /\ Score(Selected) = Score(S)
               /\ \E t \in Selected \ S : \A u \in S \ Selected : u < t
=============================================================================
