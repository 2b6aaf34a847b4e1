------------------------------ MODULE MCMoePool ------------------------------
EXTENDS MoePool

Shape(quant, experts, topk) ==
    [quant |-> quant, gated |-> TRUE, experts |-> experts, hidden |-> 128,
     inter |-> 128, topk |-> topk]

\* With 8 experts and 8 routes a token, 4 tokens run on a micro kernel, 8 on a
\* dynamic one of 11 tiles of 16 rows, 14 on 14 such tiles, 15 on 11 tiles of 32.
Nv(name) == [name |-> name, fam |-> Shape("nvfp4", 8, 8)]
Wide == [name |-> "w", fam |-> Shape("w4a16", 8, 8)]

\* The repacked shape that is given tiles of 32 rows up to 2304 rows, of 16 up
\* to 4096.
Measured == [name |-> "m", fam |-> [Shape("w4a8_mx", 256, 8) EXCEPT !.hidden = 7168, !.inter = 1024]]
MeasuredCalls == {<<Measured, 288>>, <<Measured, 512>>}
MeasuredPlans == {{512}}

MCCalls == {<<Nv("a"), 4>>, <<Nv("a"), 15>>, <<Nv("b"), 14>>, <<Wide, 4>>, <<Wide, 14>>}
MCPlans == {{4, 15}, {14}}

\* No two layers of the instances differ in their activation alone.
ASSUME LayersAlike == OneActivation

\* Every way to spread rows over experts.
Spreads(experts, rows) ==
    {h \in [1 .. experts -> 0 .. rows] : SumFunction(h) = rows}

GatedShapes == {[Shape("nvfp4", e, k) EXCEPT !.gated = g] :
                   e \in 1 .. 3, k \in {1, 2}, g \in BOOLEAN}

\* No spread of the rows needs more tiles than the task geometry plans, and a
\* smaller call is never given a larger tile.
ASSUME TilesBound ==
    \A f \in GatedShapes, rows \in {1, 2, 15, 17, 32, 33, 49} :
       /\ \A h \in Spreads(f.experts, rows) :
             SumFunction([e \in DOMAIN h |-> Ceil(h[e], TileM(f, rows))]) <= PhysicalTiles(f, rows)
       /\ \A n \in 1 .. rows : TileM(f, n) <= TileM(f, rows)

\* No packing of the routes needs more slots than the buffers hold, and every
\* smaller call gets a block size the scratch was sized for.
ASSUME SlotsBound ==
    /\ \A e \in 1 .. 3, rows \in {1, 2, 7, 8, 9, 17}, block \in {8, 16} :
          \A h \in Spreads(e, rows) :
             SumFunction([i \in DOMAIN h |-> AlignUp(h[i], block)]) <= PackedSlots(rows, block, e)
    /\ \A f \in GatedShapes, m \in 1 .. 40 :
          \A n \in 1 .. m : BlockSize(f, n) \in ReachableBlocks(f, m)
=============================================================================
