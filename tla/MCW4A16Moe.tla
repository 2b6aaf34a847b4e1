----------------------------- MODULE MCW4A16Moe -----------------------------
EXTENDS W4A16Moe

\* A gated launch whose FC1 is cut in stripes: 2 tiles of 3 K tiles on 3
\* CTAs, fewer tiles than CTAs; FC2 is one tile of one K tile.
Stripe == [routes |-> 1, topk |-> 1, dead |-> {}, direct |-> TRUE, splitK |-> TRUE,
           whole |-> FALSE, m8 |-> TRUE, gated |-> TRUE, rotate |-> FALSE,
           coupled |-> FALSE, fused |-> TRUE,
           n1 |-> 2, k1 |-> 3, n2 |-> 1, k2 |-> 1]

\* A packed ungated launch with a route whose expert is not local: 4 tiles of
\* 2 K tiles on 3 CTAs, so both GEMMs are cut with more tiles than CTAs.
Packed == [routes |-> 2, topk |-> 2, dead |-> {1}, direct |-> FALSE, splitK |-> FALSE,
           whole |-> FALSE, m8 |-> FALSE, gated |-> FALSE, rotate |-> FALSE,
           coupled |-> FALSE, fused |-> FALSE,
           n1 |-> 2, k1 |-> 2, n2 |-> 2, k2 |-> 2]

\* The same on the fused sum, both routes adding into one row.
Fused == [Packed EXCEPT !.dead = {}, !.direct = TRUE, !.splitK = TRUE, !.fused = TRUE,
                        !.m8 = TRUE, !.n2 = 1]

\* One tile cut into as many slices as there are CTAs.
Deep == [Stripe EXCEPT !.gated = FALSE, !.fused = FALSE, !.n1 = 1, !.k1 = 3]

\* A rotated launch scheduled in whole tiles, one of its routes not local.
Rotated == [routes |-> 2, topk |-> 2, dead |-> {1}, direct |-> TRUE, splitK |-> FALSE,
            whole |-> TRUE, m8 |-> FALSE, gated |-> TRUE, rotate |-> TRUE,
            coupled |-> TRUE, fused |-> FALSE,
            n1 |-> 2, k1 |-> 1, n2 |-> 2, k2 |-> 1]

\* The division of every small GEMM over every small grid: nothing is left
\* out or computed twice, and the pieces of a tile meet at a slot of their own.
SmallGemms == [grid : 1 .. 5, blocks : 1 .. 2, nTiles : 1 .. 4, kTiles : 1 .. 4,
               whole : BOOLEAN, m8 : BOOLEAN]

ASSUME ScheduleSound ==
    \A g \in SmallGemms : ExactCover(g) /\ SlicesAgree(g) /\ SlotsPrivate(g)

MCLaunches == {Stripe, Packed, Fused, Deep, Rotated}
MCCtaIds == 0 .. 3
=============================================================================
