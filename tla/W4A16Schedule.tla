---------------------------- MODULE W4A16Schedule ----------------------------
(***************************************************************************)
(* How W4A16GemmKernel._run_persistent_gemm divides one GEMM over the CTAs *)
(* of a persistent grid.  A GEMM g is a record                             *)
(*   [grid, nTiles, kTiles, blocks, whole, m8]                             *)
(* : the CTAs of the launch, the N tiles of a route block, the K tiles of  *)
(* a tile, the route blocks, and whether the kernel was compiled with      *)
(* schedule_whole_tiles or with uses_m_block_8 and not small_m_splitk.     *)
(* The unit of work is the mn-tile, numbered block * nTiles + n; what a    *)
(* CTA is given of it is a piece                                           *)
(*   [tile, k, cnt, slices, slice, slot]                                   *)
(* : cnt K tiles from k on, the slice-th of slices that are reduced through *)
(* lock and scratch slot "slot".  The pieces of a CTA are a function on     *)
(* indexes, and the CTA computes them in the order of their indexes.       *)
(***************************************************************************)
EXTENDS Integers, FiniteSets

CeilDiv(a, b) == (a + b - 1) \div b
Lesser(a, b) == IF a < b THEN a ELSE b
Greater(a, b) == IF a > b THEN a ELSE b

MnTiles(g) == g.blocks * g.nTiles

\* force_one_tile_per_cta: a small GEMM leaves the CTAs it does not need idle.
OneTilePerCta(g) == g.m8 /\ MnTiles(g) <= g.grid

\* How many mn-tiles at the end are cut along K over the whole grid.
TailTiles(g) ==
    IF g.whole \/ OneTilePerCta(g) THEN 0
    ELSE IF MnTiles(g) <= g.grid THEN MnTiles(g)
    ELSE LET rest == MnTiles(g) % g.grid
         IN IF rest * 3 <= g.grid THEN rest + g.grid ELSE rest

\* How many waves of whole mn-tiles come before them.
FullWaves(g) ==
    IF g.whole THEN CeilDiv(MnTiles(g), g.grid)
    ELSE IF OneTilePerCta(g) THEN 1
    ELSE (MnTiles(g) - TailTiles(g)) \div g.grid

\* The K tiles of the tail one CTA takes; they are laid end to end.
Iters(g) == CeilDiv(g.kTiles * TailTiles(g), g.grid)

\* Whole tiles: CTA c takes c, c + grid, ...; the last wave may be ragged.
WholeTurns(g, c) == {i \in 1 .. FullWaves(g) : c + (i - 1) * g.grid < MnTiles(g)}

WholePiece(g, c, i) == [tile |-> c + (i - 1) * g.grid, k |-> 0, cnt |-> g.kTiles,
                        slices |-> 1, slice |-> 0, slot |-> -1]

\* The tail tiles, from 0, that CTA c's stretch of Iters(g) K tiles touches.
TailTouched(g, c) ==
    {w \in 0 .. TailTiles(g) - 1 :
        Greater(Iters(g) * c, g.kTiles * w) < Lesser(Iters(g) * (c + 1), g.kTiles * (w + 1))}

\* Into how many slices tail tile w is cut and which of them is CTA c's:
\* the CTA with the highest K tiles is slice 0 and merges first.
TailSlices(g, w) ==
    LET boundary == Iters(g) * CeilDiv(g.kTiles * w, Iters(g))
        offset == boundary - g.kTiles * w
    IN IF boundary > g.kTiles * (w + 1) THEN 1
       ELSE CeilDiv(g.kTiles - offset, Iters(g)) + (IF offset > 0 THEN 1 ELSE 0)

TailSlice(g, w, c) ==
    LET boundary == Iters(g) * CeilDiv(g.kTiles * w, Iters(g))
        offset == boundary - g.kTiles * w
        delta == Iters(g) * c - boundary
    IN IF boundary > g.kTiles * (w + 1) THEN 0
       ELSE IF delta < 0 \/ (offset = 0 /\ delta = 0) THEN TailSlices(g, w) - 1
       ELSE TailSlices(g, w) - 1 - delta \div Iters(g) - (IF offset > 0 THEN 1 ELSE 0)

\* The slot CTA c reduces tail tile w through.  A tail shorter than the grid
\* has one slot per tile; a longer one has a slot per CTA, and a CTA moves on
\* to its neighbour's when it comes to the tile it shares with it.
TailSlot(g, w, c) ==
    IF TailTiles(g) < g.grid THEN w
    ELSE c + Cardinality({v \in TailTouched(g, c) :
                             /\ v <= w
                             /\ TailSlices(g, v) > 1
                             /\ TailSlice(g, v, c) = TailSlices(g, v) - 1})

\* The part of tail tile w that falls in CTA c's stretch.
TailPiece(g, c, w) ==
    LET from == Greater(Iters(g) * c - g.kTiles * w, 0)
        upTo == Lesser(Iters(g) * (c + 1) - g.kTiles * w, g.kTiles)
    IN [tile |-> w + MnTiles(g) - TailTiles(g), k |-> from, cnt |-> upTo - from,
        slices |-> TailSlices(g, w), slice |-> TailSlice(g, w, c), slot |-> TailSlot(g, w, c)]

\* What CTA c computes: its whole tiles, then its stretch of the tail.
TailTurn(g, w) == FullWaves(g) + 1 + w

Pieces(g, c) ==
    [i \in WholeTurns(g, c) \cup {TailTurn(g, w) : w \in TailTouched(g, c)} |->
        IF i <= FullWaves(g) THEN WholePiece(g, c, i)
                             ELSE TailPiece(g, c, i - TailTurn(g, 0))]

\* Every FC1 tile gets a CTA, whether it is resident or not.
GridOfAllTiles(cap, direct, splitK, whole, fc1Tiles, fc2Tiles) ==
    IF fc1Tiles > cap THEN fc1Tiles ELSE cap

\* _w4a16_fused_persistent_grid_x: the CTAs of a fused launch, never more than
\* cap, the number that is resident together.  A directly routed launch takes
\* no more CTAs than its FC1 tiles fill in whole waves; under whole-tile
\* scheduling the candidate with the shorter FC1 + FC2 critical path wins.
PersistentGrid(cap, direct, splitK, whole, fc1Tiles, fc2Tiles) ==
    LET most == Greater(cap, 1)
        path(grid) == CeilDiv(fc1Tiles, grid) + CeilDiv(fc2Tiles, grid)
        right == Lesser(fc1Tiles, cap)
        waves == CeilDiv(fc1Tiles, cap)
    IN IF splitK \/ ~direct \/ fc1Tiles = 0 THEN most
       ELSE IF whole THEN (IF path(right) <= path(cap) THEN right ELSE cap)
       ELSE IF fc1Tiles % waves = 0 THEN fc1Tiles \div waves ELSE most

-----------------------------------------------------------------------------
\* All pieces of a GEMM, each with the CTA that computes it.
Assignments(g) == UNION {{<<c, i>> : i \in DOMAIN Pieces(g, c)} : c \in 0 .. g.grid - 1}

PieceOf(g, a) == Pieces(g, a[1])[a[2]]

\* Every K tile of every mn-tile is computed by exactly one piece.
ExactCover(g) ==
    \A t \in 0 .. MnTiles(g) - 1, k \in 0 .. g.kTiles - 1 :
        Cardinality({a \in Assignments(g) :
            LET p == PieceOf(g, a)
            IN p.tile = t /\ k \in p.k .. p.k + p.cnt - 1}) = 1

\* The pieces of a tile agree on how many they are and on the slot they use,
\* and take different turns.
SlicesAgree(g) ==
    \A t \in 0 .. MnTiles(g) - 1 :
        LET mine == {a \in Assignments(g) : PieceOf(g, a).tile = t}
        IN \A a \in mine :
              /\ PieceOf(g, a).slices = Cardinality(mine)
              /\ PieceOf(g, a).slice \in 0 .. Cardinality(mine) - 1
              /\ \A b \in mine \ {a} :
                    /\ PieceOf(g, a).slice # PieceOf(g, b).slice
                    /\ PieceOf(g, a).slot = PieceOf(g, b).slot
                    /\ a[1] < b[1] => PieceOf(g, a).slice > PieceOf(g, b).slice

\* No slot serves two tiles of one GEMM, and none lies beyond the grid.
SlotsPrivate(g) ==
    \A a, b \in {x \in Assignments(g) : PieceOf(g, x).slices > 1} :
        /\ PieceOf(g, a).slot \in 0 .. g.grid - 1
        /\ PieceOf(g, a).slot = PieceOf(g, b).slot
               => PieceOf(g, a).tile = PieceOf(g, b).tile
=============================================================================
