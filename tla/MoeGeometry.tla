----------------------------- MODULE MoeGeometry -----------------------------
(***************************************************************************)
(* The sizes the b12x MoE front end (fused_moe/_impl.py) plans for a call: *)
(* which kernel family serves it, how large the tensors of its workspace   *)
(* must be, and what the launch will index.  A family f is a record        *)
(*   [quant, gated, experts, hidden, inter, topk]                          *)
(* with quant "nvfp4", "w4a8_mx" (repacked weights), "w4a8_nvfp4",         *)
(* "w6a8_mx" or "w4a16" (packed weights, bfloat16).  The device is not an  *)
(* SM121, and the micro kernels support the shapes.  Sizes are counted in  *)
(* elements; the padding between tensors is left out.                      *)
(***************************************************************************)
EXTENDS Integers, Sequences, FiniteSets, FiniteSetsExt

CONSTANT Sms      \* streaming multiprocessors of the device

ASSUME SmsAssumption == Sms \in Nat \ {0}

Positive == Nat \ {0}
Shapes == [quant : {"nvfp4", "w4a8_mx", "w4a8_nvfp4", "w6a8_mx", "w4a16"}, gated : BOOLEAN,
           experts : Positive, hidden : Positive, inter : Positive, topk : Positive]

Ceil(a, b) == (a + b - 1) \div b
AlignUp(a, b) == Ceil(a, b) * b
AtLeast(a, b) == IF a < b THEN b ELSE a

\* Micro kernels take at most 8 tokens and fewer than 64 routed rows; a route
\* block bypasses packing for up to 6 tokens, in decode for up to 8.
MicroMaxTokens == 8
MicroCutover == 64
DirectMaxTokens == 6
TcDecodeMaxTokens == 8
DirectMaxRows == 32

-----------------------------------------------------------------------------
(* Route packing (w4a16/host.py).                                          *)

RoutedSizes == <<8, 16, 32, 48, 64>>

\* The first block size the average expert fills to nine tenths, by index.
BlockIndex(f, m) ==
    LET roomy == {i \in 1 .. 5 : 10 * m * f.topk < 9 * RoutedSizes[i] * f.experts}
    IN IF roomy = {} THEN 5 ELSE Min(roomy)

BlockSize(f, m) == RoutedSizes[BlockIndex(f, m)]

\* route_block_sizes_for_capacity: every size a call of 1 .. m tokens may get.
ReachableBlocks(f, m) == {RoutedSizes[i] : i \in BlockIndex(f, 1) .. BlockIndex(f, m)}

\* max_packed_route_slots: each expert's last block may hold one route only.
PackedSlots(rows, block, experts) ==
    LET padded == rows + experts * (block - 1)
    IN IF rows < experts THEN Min({rows * block, padded}) ELSE padded

\* route_pack_token_capacity: the next power of two, a number without an odd
\* divisor; there is one below the double of any number.
PowerOfTwo(n) == \A d \in 2 .. n : n % d = 0 => d % 2 = 0
TokenBucket(m) == Min({n \in m .. 2 * m : PowerOfTwo(n)})

\* packed_gemm_scratch_elements
ScratchElements(cols, slots, block) ==
    LET partial == Min({cols * slots, Sms * 4 * block * 256})
    IN AtLeast(IF block = 8 THEN 2 * partial ELSE partial, 1)

\* _w4a16_tc_decode_preferred: until packing finds rows to reuse.
TcDecodePreferred(f, m) ==
    LET rows == m * f.topk
    IN /\ m \in 1 .. TcDecodeMaxTokens
       /\ ~ (/\ rows * 8 >= Min({Sms, 64}) * 7
             /\ rows * (rows - 1) >= 6 * f.experts)

-----------------------------------------------------------------------------
(* Dynamic kernels.                                                        *)

W4A8 == {"w4a8_mx", "w4a8_nvfp4"}

\* _dynamic_kernel_intermediate_size: repacked weights are tiled by 128.
KernelInter(f) == IF f.quant = "w4a8_mx" THEN AlignUp(f.inter, 128) ELSE f.inter

\* A shape measured on its own; it is given 32 rows below and 16 above.
MeasuredShape(f) ==
    f.quant = "w4a8_mx" /\ f.gated /\ f.experts = 256 /\ KernelInter(f) = 1024

\* _select_dynamic_tile_mn: the M tile grows with the rows an expert gets.
TileM(f, rows) ==
    LET per(n) == rows < n * f.experts
    IN IF f.quant \in W4A8
       THEN IF MeasuredShape(f) /\ rows \in 384 .. 2304 THEN 32
            ELSE IF rows <= 16 * f.experts THEN 16
            ELSE IF per(36) THEN 32 ELSE 64
       ELSE IF f.quant = "w6a8_mx" \/ ~ f.gated THEN 128
            ELSE IF per(15) THEN 16
            ELSE IF per(48) THEN 32
            ELSE IF per(96) THEN 64 ELSE 128

\* _dynamic_direct_routing_candidate
DirectRouting(f, rows) ==
    /\ f.gated /\ f.quant \in {"nvfp4", "w4a8_mx"}
    /\ rows \in 1 .. DirectMaxRows /\ TileM(f, rows) = 16

\* _w4a8_dynamic_dense_candidate and the single-token one: the kernel stages
\* its intermediate in global memory.
Materialized(f, m) ==
    /\ f.quant = "w4a8_mx" /\ f.gated
    /\ f.hidden % 256 = 0 /\ f.inter % 32 = 0
    /\ TileM(f, m * f.topk) >= 32 \/ (m = 1 /\ DirectRouting(f, f.topk))

\* _dynamic_task_geometry: every expert but one may start a tile of its own.
PhysicalTiles(f, rows) ==
    LET packed == Ceil(rows, TileM(f, rows)) + Min({f.experts, rows}) - 1
    IN IF DirectRouting(f, rows) THEN AtLeast(packed, rows) ELSE packed

SliceGroups(f) == Ceil(KernelInter(f), 128)

\* Every w4a8 call of at most 8 tokens may be micro, repacked ones up to 4.
TinyDecode(f, m) ==
    CASE f.quant = "nvfp4"      -> m <= MicroMaxTokens /\ m * f.topk < MicroCutover
      [] f.quant = "w4a8_nvfp4" -> m <= MicroMaxTokens
      [] f.quant = "w4a8_mx"    -> m \in 1 .. 4 /\ f.gated /\ f.hidden % 512 = 0 /\ f.inter % 32 = 0
      [] OTHER                  -> FALSE

\* The family a call belongs to: _resolve_workspace_layout.
Backend(f, m) ==
    CASE f.quant = "w4a16" -> "w4a16"
      [] TinyDecode(f, m)  -> "micro"
      [] OTHER             -> "dynamic"

\* plan_tp_moe_execution: what a call of m tokens asks of a workspace.
ExecutionPlan(f, m) ==
    LET rows == m * f.topk
        impl == Backend(f, m)
        tiles == IF impl = "dynamic" THEN PhysicalTiles(f, rows) ELSE 0
    IN [impl |-> impl, rows |-> rows, tiles |-> tiles, tasks |-> tiles * SliceGroups(f),
        stateE |-> IF impl = "micro" THEN rows ELSE f.experts,
        maxRows |-> IF impl = "dynamic" THEN AlignUp(rows, TileM(f, rows)) ELSE rows]

-----------------------------------------------------------------------------
(* Workspaces: _plan_core_workspace.                                       *)

Fc1Cols(f) == (IF f.gated THEN 2 ELSE 1) * f.inter

\* The calls that may route directly, each row in a block of its own.
DirectSlots(f, capacity, block) ==
    LET most == IF f.gated THEN TcDecodeMaxTokens ELSE DirectMaxTokens
    IN {m * f.topk * block : m \in {n \in 1 .. Min({capacity, most}) : BlockSize(f, n) = block}}

\* Only the block size of the largest call is planned for.
ScratchOfLargest(f, rows, cols) ==
    LET b == BlockSize(f, Ceil(rows, f.topk))
    IN ScratchElements(cols, PackedSlots(rows, b, f.experts), b)

\* The accumulation scratch of a GEMM with cols columns, over every block size
\* a call within capacity may be given, packed or direct.
SplitKScratch(f, rows, cols) ==
    LET capacity == Ceil(rows, f.topk)
        slots(b) == Max({PackedSlots(rows, b, f.experts)} \cup DirectSlots(f, capacity, b))
    IN Max({1} \cup {ScratchElements(cols, slots(b), b) : b \in ReachableBlocks(f, capacity)})

W4A16Core(f, p) ==
    LET blocks == ReachableBlocks(f, Ceil(p.rows, f.topk))
        slots == Max({PackedSlots(p.rows, b, f.experts) : b \in blocks})
        owners == Max({Ceil(PackedSlots(p.rows, b, f.experts), b) : b \in blocks})
    IN [plan |-> p, routeSlots |-> slots, routeBlocks |-> owners,
        cache13 |-> p.rows * AtLeast(Fc1Cols(f), f.hidden),
        cache2 |-> p.rows * f.inter,
        fc1 |-> SplitKScratch(f, p.rows, Fc1Cols(f)),
        fc2 |-> SplitKScratch(f, p.rows, f.hidden)]

MicroCore(f, p) ==
    [plan |-> p, barriers |-> p.rows + (p.rows \div f.topk) * 16,
     inputRows |-> p.stateE * p.maxRows, scaleRows |-> p.stateE * AlignUp(p.maxRows, 128),
     inner |-> Max({p.stateE * f.inter, p.rows * (f.hidden + Ceil(f.inter \div 2, 128) * 128)}
                   \cup IF f.quant # "w4a8_mx" THEN {}
                        ELSE {p.maxRows * 2 * f.inter,
                              p.rows * ((f.inter \div 2) + (f.inter \div 128) * 257)})]

\* The rows are those of the tile the workspace's own row count selects.
DynamicCore(f, p) ==
    LET padded == p.tiles * TileM(f, p.rows)
    IN [plan |-> p, barriers |-> p.rows, inputRows |-> padded,
        scaleRows |-> AlignUp(padded, 128),
        inner |-> IF f.quant \in W4A8 THEN padded * (KernelInter(f) + KernelInter(f) \div 32)
                  ELSE 16]

CorePlan(f, p) ==
    CASE p.impl = "w4a16" -> W4A16Core(f, p)
      [] p.impl = "micro" -> MicroCore(f, p)
      [] OTHER            -> DynamicCore(f, p)

\* _core_workspace_nbytes: the tensors end to end.
CoreBytes(f, core) ==
    LET p == core.plan
        cols == AlignUp(f.hidden \div 16, 4)
    IN CASE p.impl = "w4a16" ->
               2 * (core.cache13 + core.cache2)
               + 4 * (core.fc1 + core.fc2 + core.routeSlots + core.routeBlocks + 2 + 2 * f.experts)
         [] p.impl = "micro" ->
               4 * (2 * p.stateE + 2 * core.barriers + 2 * p.stateE * p.maxRows + p.rows
                    + core.inner + f.experts + 1)
               + core.inputRows * (f.hidden \div 2) + core.scaleRows * cols
         [] OTHER ->
               4 * (5 * p.stateE + 2 * core.barriers + 2 * core.inputRows + 6 * p.tasks
                    + p.tiles + 6) + 2 * f.hidden + core.inner
               + core.inputRows * (IF f.quant = "nvfp4" THEN f.hidden \div 2 ELSE f.hidden)
               + core.scaleRows * cols

\* _arena_core_token_counts: the counts asked for and the largest micro call,
\* w4a16 rounded up to its buckets.
CoreTokenCounts(f, counts) ==
    LET bucket(m) == IF f.quant = "w4a16" THEN TokenBucket(m) ELSE m
        most == Max(counts)
        micro == Min({most, MicroCutover \div f.topk})
    IN {bucket(m) : m \in counts}
       \cup (IF MicroCutover \div f.topk >= 1 THEN {bucket(micro)} ELSE {})

\* plan_tp_moe_arena_layout: room for the largest of their workspaces.
ArenaBytes(f, counts) ==
    Max({CoreBytes(f, CorePlan(f, ExecutionPlan(f, m))) : m \in CoreTokenCounts(f, counts)})
=============================================================================
