----------------------------- MODULE MCExl3Mixed -----------------------------
(* Two groups of processes: one layer with any assignment of two bitrates to *)
(* three experts or of three to two, run for one call; and a few pairs of    *)
(* models under knobs that make batches be sliced and paths be mixed.        *)
EXTENDS Exl3Mixed

OneCall == [maxM |-> 1, batched |-> 1, capacity |-> 1, blockM |-> 4, explicit |-> FALSE,
            minM |-> 1, chunk |-> 1, prefillTrellis |-> TRUE, fused |-> TRUE,
            budget |-> -1, captures |-> {}, calls |-> 1]
Alone(format, bits) ==
    [layers |-> <<[owner |-> "target", format |-> format, bits |-> bits]>>,
     knobs |-> OneCall, sharedConfig |-> FALSE, stamped |-> FALSE]

Assignments(experts, rates) == [Projections -> [0 .. experts - 1 -> rates]]
PerExpert(f) == [p \in Projections |-> f]
MCPlacements ==
    {Alone("r7", b) : b \in Assignments(3, {3, 4}) \cup Assignments(2, {3, 4, 5})}
    \cup {Alone("rank", PerExpert(f)) : f \in [0 .. 2 -> {3, 4, 5}]}

Of(g0, g1, u0, u1, d0, d1) ==
    [p \in Projections |-> [e \in 0 .. 1 |->
        CASE p = "gate" -> <<g0, g1>>[e + 1] [] p = "up" -> <<u0, u1>>[e + 1]
          [] OTHER -> <<d0, d1>>[e + 1]]]
TwoTiers == Of(3, 4, 3, 3, 4, 4)
Narrow == Of(3, 4, 3, 4, 3, 4)
ThreeTiers == Of(3, 4, 5, 3, 4, 4)
OneTier == Of(3, 3, 3, 3, 3, 3)
Four == Of(4, 4, 4, 4, 4, 4)

L(owner, format, bits) == [owner |-> owner, format |-> format, bits |-> bits]
Knob(maxM, batched, capacity) ==
    [maxM |-> maxM, batched |-> batched, capacity |-> capacity, blockM |-> 4,
     explicit |-> FALSE, minM |-> 1, chunk |-> 1, prefillTrellis |-> TRUE,
     fused |-> TRUE, budget |-> -1, captures |-> {1}, calls |-> 2]
Pair(layers, shared, knobs) ==
    [layers |-> layers, knobs |-> knobs, sharedConfig |-> shared, stamped |-> shared]

\* The same layer in both models, with one quant config and with two; then
\* layers of several kinds under the knobs that send them different ways.
Twins == <<L("target", "r7", TwoTiers), L("draft", "r7", TwoTiers)>>
Tiered == <<L("target", "r7", TwoTiers), L("target", "r7", Narrow), L("draft", "rank", Narrow)>>
Graphs == <<L("target", "r7", OneTier), L("draft", "r7", OneTier)>>
Wide == <<L("target", "r7", ThreeTiers), L("target", "r7", OneTier), L("draft", "r7", Narrow)>>
Rank == <<L("target", "rank", OneTier), L("draft", "rank", OneTier)>>
Rated == <<L("target", "rank", Narrow), L("target", "rank", OneTier), L("target", "rank", Four)>>
TwoRates == <<L("target", "rank", OneTier), L("target", "rank", Four)>>
MCModels ==
    MCPlacements
    \cup {Pair(Twins, shared, Knob(1, 2, 1)) : shared \in BOOLEAN}
    \cup {Pair(Graphs, shared, Knob(1, 3, 2)) : shared \in BOOLEAN}
    \cup {Pair(Tiered, TRUE, [Knob(1, 2, 2) EXCEPT !.budget = 1]),
          Pair(Tiered, FALSE, [Knob(2, 2, 1) EXCEPT !.captures = {}]),
          Pair(Twins, TRUE, [Knob(1, 2, 2) EXCEPT !.fused = FALSE]),
          Pair(Twins, TRUE, [Knob(1, 2, 2) EXCEPT !.prefillTrellis = FALSE]),
          Pair(Wide, TRUE, [Knob(1, 2, 2) EXCEPT !.explicit = TRUE]),
          Pair(Rated, FALSE, Knob(1, 2, 2)),
          Pair(TwoRates, FALSE, [Knob(1, 2, 2) EXCEPT !.prefillTrellis = FALSE])}
    \cup {Pair(Rank, TRUE, k) :
            k \in {[Knob(1, 3, 2) EXCEPT !.captures = {1, 2}],
                  [Knob(2, 3, 3) EXCEPT !.minM = 2],
                  [Knob(3, 3, 3) EXCEPT !.minM = 3],
                  [Knob(1, 3, 3) EXCEPT !.prefillTrellis = FALSE, !.captures = {1, 2}]}}
MCOwners == {"target", "draft"}
MCLayers == 1 .. 3
MCQualified == {<<<<3, 1>>, <<4, 1>>>>}
=============================================================================
