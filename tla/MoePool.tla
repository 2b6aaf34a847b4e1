------------------------------- MODULE MoePool -------------------------------
(***************************************************************************)
(* Workspaces of the b12x MoE front end (fused_moe/_impl.py): the pool     *)
(* that keeps one workspace per kind of kernel, in memory of its own or in *)
(* one shared arena; the scratch a caller lends for a single call; and the *)
(* calls, bound first and launched later, eagerly or from a CUDA graph.    *)
(*                                                                         *)
(* Every workspace of the pool starts at the same offset of the shared     *)
(* arena, so what one kernel leaves there another one overwrites.  Of the  *)
(* memory of a block the model keeps two facts: for which workspace layout *)
(* the barrier words are in order, and whose input scales it holds.        *)
(***************************************************************************)
EXTENDS MoeGeometry, SequencesExt

CONSTANTS Calls,        \* pairs of a layer [name, fam], with scales of its own,
                        \* and a token count
          Plans,        \* sets of token counts a host may plan for
          MaxBlocks,    \* bound on the blocks ever allocated
          MaxBound      \* bound on the bindings held at a time

ASSUME PoolAssumption ==
    /\ \A c \in Calls : c[1].fam \in Shapes /\ c[2] \in Positive
    /\ \A counts \in Plans :
          counts # {} /\ counts \subseteq Positive /\ IsFiniteSet(counts)
    /\ MaxBlocks \in Nat /\ MaxBound \in Nat

VARIABLES lends,    \* does the caller lend scratch, or keep a pool?
          caps,     \* the counts the shared arena was sized for; {} without arena
          frozen,   \* TPMoEWorkspacePool.frozen
          pool,     \* TPMoEWorkspacePool.workspaces: key -> workspace
          mem,      \* what each block holds
          blocks,   \* how many blocks have been allocated
          bound,    \* the bindings the callers hold
          graph,    \* {} or the one captured call
          last      \* what the last call came to

vars == <<lends, caps, frozen, pool, mem, blocks, bound, graph, last>>

Layers == {c[1] : c \in Calls}
Families == {l.fam : l \in Layers}

\* Block 0 is the shared arena, block -1 the scratch of the callers.
Arena == 0
Scratch == -1

Raw == [words |-> {}, scales |-> {}]

\* _workspace_pool_key: by kernel and shapes, not by how many rows; only the
\* w4a16 workspaces are told apart by activation.
Key(f, p) == <<p.impl, f.quant, IF p.impl = "w4a16" THEN f.gated ELSE TRUE,
               f.experts, f.hidden, f.inter, f.topk>>

Capacity == Max({ArenaBytes(f, caps) : f \in Families})

\* Layers whose workspaces share a key have one shape: no model runs gated and
\* ungated layers of the same sizes, which only a w4a16 key tells apart.
OneActivation ==
    \A f, g \in Families : [f EXCEPT !.gated = g.gated] = g => f = g

\* A workspace with too few tiles is taken all the same.
FitsRows(core, p) ==
    /\ core.plan.impl = p.impl
    /\ core.plan.stateE >= p.stateE
    /\ core.plan.maxRows >= p.maxRows
    /\ core.plan.rows >= p.rows

\* _validate_workspace, and the negation of needs_growth
Fits(core, p) ==
    /\ core.plan.impl = p.impl
    /\ core.plan.stateE >= p.stateE
    /\ core.plan.maxRows >= p.maxRows
    /\ core.plan.rows >= p.rows
    /\ core.plan.tiles >= p.tiles
    /\ core.plan.tasks >= p.tasks

\* Growth takes the larger of every capacity.
Grown(p, q) ==
    [impl |-> p.impl, rows |-> Max({p.rows, q.rows}), tiles |-> Max({p.tiles, q.tiles}),
     tasks |-> Max({p.tasks, q.tasks}), stateE |-> Max({p.stateE, q.stateE}),
     maxRows |-> Max({p.maxRows, q.maxRows})]

\* The plan a missing or too small workspace is allocated for.
Wanted(f, p) ==
    IF Key(f, p) \in DOMAIN pool THEN Grown(p, pool[Key(f, p)].core.plan) ELSE p

HasWorkspace(f, p) == Key(f, p) \in DOMAIN pool /\ Fits(pool[Key(f, p)].core, p)

-----------------------------------------------------------------------------
(* W4A16 launches.  A launch is a set: {} when run_w4a16_moe compiles one  *)
(* for the call, or one compiled beforehand.                               *)

\* _prewarm_w4a16_planned_launches: one for every planned count, and a decode
\* launch for every exact small count.
FusedLaunches(f, planned) ==
    {[size |-> c, block |-> BlockSize(f, c), tc |-> FALSE] : c \in planned}

DecodeLaunches(f, planned) ==
    {[size |-> m, block |-> BlockSize(f, m), tc |-> TRUE] :
        m \in IF planned = {} THEN {} ELSE 1 .. TcDecodeMaxTokens}

\* _w4a16_preplanned_launches, with no expert map: the decode launch of the
\* exact count, else the launch of the next planned count.
LaunchFor(f, planned, m) ==
    LET exact == {x \in DecodeLaunches(f, planned) : x.size = m}
        roomy == {x \in FusedLaunches(f, planned) : x.size >= m}
    IN IF exact # {} THEN exact ELSE {x \in roomy : \A y \in roomy : x.size <= y.size}

\* run_w4a16_moe: does the call decode directly, route directly, or pack?
UsesTcDecode(f, m, launch) ==
    f.gated /\ TcDecodePreferred(f, m) /\ \A x \in launch : x.tc

UsesDirect(f, m, launch) ==
    /\ m <= DirectMaxTokens \/ UsesTcDecode(f, m, launch)
    /\ \A x \in launch : x.tc

\* A preplanned decode launch only serves a call that decodes directly.
LaunchServes(f, m, launch) ==
    \A x \in launch : x.tc => UsesTcDecode(f, m, launch)

LaunchBlock(f, m, launch) == IF launch = {} THEN BlockSize(f, m) ELSE Max({x.block : x \in launch})
LaunchSize(m, launch) == IF launch = {} THEN m ELSE Max({x.size : x \in launch})

\* The route slots of the launch, and of its accumulation scratch.
LaunchSlots(f, m, launch) ==
    LET block == LaunchBlock(f, m, launch)
    IN IF UsesDirect(f, m, launch) THEN m * f.topk * block
       ELSE PackedSlots(LaunchSize(m, launch) * f.topk, block, f.experts)

\* The buffers of the workspace hold what the launch will index.
BuffersFit(f, core, m, launch) ==
    LET rows == LaunchSize(m, launch) * f.topk
        block == LaunchBlock(f, m, launch)
        slots == LaunchSlots(f, m, launch)
    IN /\ \/ UsesDirect(f, m, launch)
          \/ slots <= core.routeSlots /\ Ceil(slots, block) <= core.routeBlocks
       /\ rows * AtLeast(Fc1Cols(f), f.hidden) <= core.cache13
       /\ rows * f.inter <= core.cache2

\* The staged intermediate of a dynamic kernel, in tiles of the call.
StagingFits(f, core, m) ==
    core.plan.tiles * TileM(f, m * f.topk) * (KernelInter(f) + KernelInter(f) \div 32) <= core.inner

\* _get_c_tmp: a scratch that is too small is replaced, but not in a capture.
ScratchFits(f, core, m, launch) ==
    LET elements(cols) == ScratchElements(cols, LaunchSlots(f, m, launch), LaunchBlock(f, m, launch))
    IN elements(Fc1Cols(f)) <= core.fc1 /\ elements(f.hidden) <= core.fc2

-----------------------------------------------------------------------------
NoCall == [event |-> "none"]

Init == /\ lends \in BOOLEAN
        /\ caps = {}
        /\ frozen = FALSE
        /\ pool = [k \in {} |-> Raw]
        /\ mem = [b \in Scratch .. MaxBlocks |-> Raw]
        /\ blocks = 0
        /\ bound = {}
        /\ graph = {}
        /\ last = NoCall

Quiet == last' = NoCall

\* bind_shared_arena, once, before there are calls or graphs.
BindArena(counts, freeze) ==
    /\ ~ lends /\ blocks = 0 /\ bound = {} /\ graph = {} /\ caps = {}
    /\ caps' = counts
    /\ frozen' = freeze
    /\ pool' = [k \in {} |-> Raw]
    /\ Quiet
    /\ UNCHANGED <<lends, mem, blocks, bound, graph>>

NewBlock == IF caps # {} THEN Arena ELSE blocks + 1

\* materialize_tp_moe_arena_workspaces: of the planned counts that share a key,
\* the one with the most bytes.
LargestCore(f, planned, k) ==
    LET mine == {c \in {CorePlan(f, ExecutionPlan(f, m)) : m \in planned} : Key(f, c.plan) = k}
    IN CHOOSE c \in mine : \A d \in mine : CoreBytes(f, d) <= CoreBytes(f, c)

\* A workspace that will do is kept.
Kept(f, planned, k) ==
    /\ k \in DOMAIN pool
    /\ Fits(pool[k].core, LargestCore(f, planned, k).plan)
    /\ f.quant = "w4a16" => planned \subseteq pool[k].planned

\* The host plans the counts its arena was sized for; tensors start as zeros.
Materialize(f, counts) ==
    LET planned == CoreTokenCounts(f, counts)
        keys == {Key(f, ExecutionPlan(f, m)) : m \in planned}
        fresh == SetToSeq({k \in keys : ~ Kept(f, planned, k)})
        place(i) == IF caps # {} THEN Arena ELSE blocks + i
        made(i) == [core |-> LargestCore(f, planned, fresh[i]), block |-> place(i),
                    planned |-> IF f.quant = "w4a16" THEN planned ELSE {}]
        index(k) == CHOOSE i \in DOMAIN fresh : fresh[i] = k
        taken(b) == {i \in DOMAIN fresh : place(i) = b}
    IN /\ ~ lends /\ caps \in {{}, counts}
       /\ fresh # <<>>
       /\ NewBlock + (IF caps = {} THEN Len(fresh) - 1 ELSE 0) <= MaxBlocks
       /\ pool' = [k \in DOMAIN pool \cup keys |->
                      IF k \in Range(fresh) THEN made(index(k)) ELSE pool[k]]
       /\ mem' = [b \in DOMAIN mem |->
                     IF taken(b) = {} THEN mem[b]
                     ELSE [words |-> {made(Max(taken(b))).core}, scales |-> {}]]
       /\ blocks' = IF caps = {} THEN blocks + Len(fresh) ELSE blocks
       /\ Quiet
       /\ UNCHANGED <<lends, caps, frozen, bound, graph>>

-----------------------------------------------------------------------------
(* Binding a call.                                                         *)

\* A frozen pool grows when a call needs more than it was planned for.
RefusalsUnfrozen(f, m, capturing) ==
    LET p == ExecutionPlan(f, m)
    IN IF Key(f, p) \in DOMAIN pool THEN {} ELSE {"frozen"}

\* Why _resolve_workspace refuses: the pool is frozen, the capture may not
\* allocate, the new workspace does not fit the arena, no launch was planned.
PoolRefusals(f, m, capturing) ==
    LET p == ExecutionPlan(f, m)
        new == ~ HasWorkspace(f, p)
        planned == IF new THEN {} ELSE pool[Key(f, p)].planned
    IN {r \in {"frozen", "capture", "arena", "unplanned"} :
          CASE r = "frozen"  -> new /\ frozen
            [] r = "capture" -> new /\ capturing /\ p.impl = "w4a16"
            [] r = "arena"   -> new /\ caps # {} /\ CoreBytes(f, CorePlan(f, Wanted(f, p))) > Capacity
            [] OTHER         -> planned # {} /\ LaunchFor(f, planned, m) = {}}

\* TPMoEScratchPlan.bind checks the token count alone.
ScratchRefusals(f, m, counts) == IF m > Max(counts) THEN {"tokens"} ELSE {}

\* The workspace of a call: the one in the pool, or a new one.
Resolved(f, m) ==
    LET p == ExecutionPlan(f, m)
    IN IF HasWorkspace(f, p) THEN pool[Key(f, p)]
       ELSE [core |-> CorePlan(f, Wanted(f, p)), block |-> NewBlock, planned |-> {}]

ScratchWorkspace(f, counts) ==
    [core |-> CorePlan(f, ExecutionPlan(f, Max(CoreTokenCounts(f, counts)))),
     block |-> Scratch, planned |-> {}]

\* build_tp_moe_fp4_binding
Binding(l, m, w) ==
    [layer |-> l, m |-> m, core |-> w.core, block |-> w.block,
     launch |-> LaunchFor(l.fam, w.planned, m)]

\* _build_tp_moe_fp4_binding_from_views: no launch is bound, the call compiles.
ScratchBinding(l, m, w) ==
    [layer |-> l, m |-> m, core |-> w.core, block |-> w.block, launch |-> {}]

\* A new workspace joins the pool.
Enroll(l, m) ==
    LET k == Key(l.fam, ExecutionPlan(l.fam, m))
        w == Resolved(l.fam, m)
    IN /\ w.block <= MaxBlocks
       /\ pool' = [x \in DOMAIN pool \cup {k} |-> IF x = k THEN w ELSE pool[x]]
       /\ blocks' = AtLeast(blocks, w.block)

\* The tensors of a new workspace are zeroed, the input scales of a dynamic
\* one are those of the layer that bound last.
BoundMemory(l, w, new) ==
    [mem EXCEPT ![w.block] =
        [words |-> IF new THEN {w.core} ELSE @.words,
         scales |-> IF w.core.plan.impl = "dynamic" THEN {l}
                    ELSE IF new THEN {} ELSE @.scales]]

Refuse(l, m, reasons) ==
    last' = [event |-> "refused", layer |-> l, m |-> m, why |-> reasons]

BindPool(l, m) ==
    LET w == Resolved(l.fam, m)
        refusals == PoolRefusals(l.fam, m, FALSE)
    IN /\ ~ lends
       /\ UNCHANGED <<lends, caps, frozen, graph>>
       /\ \/ /\ refusals # {}
             /\ Refuse(l, m, refusals)
             /\ UNCHANGED <<pool, mem, blocks, bound>>
          \/ /\ refusals = {} /\ Cardinality(bound) < MaxBound
             /\ Enroll(l, m)
             /\ mem' = BoundMemory(l, w, ~ HasWorkspace(l.fam, ExecutionPlan(l.fam, m)))
             /\ bound' = bound \cup {Binding(l, m, w)}
             /\ Quiet

\* Binding borrowed scratch maps views over it and initialises nothing.
BindScratch(l, m, counts) ==
    LET w == ScratchWorkspace(l.fam, counts)
        refusals == ScratchRefusals(l.fam, m, counts)
    IN /\ lends
       /\ UNCHANGED <<lends, caps, frozen, pool, blocks, graph>>
       /\ \/ /\ refusals # {}
             /\ Refuse(l, m, refusals)
             /\ UNCHANGED <<mem, bound>>
          \/ /\ refusals = {} /\ Cardinality(bound) < MaxBound
             /\ mem' = BoundMemory(l, w, FALSE)
             /\ bound' = bound \cup {ScratchBinding(l, m, w)}
             /\ Quiet

Drop == /\ \E b \in bound : bound' = bound \ {b}
        /\ Quiet
        /\ UNCHANGED <<lends, caps, frozen, pool, mem, blocks, graph>>

-----------------------------------------------------------------------------
(* Launching: b12x_moe_fp4.                                                *)

\* Why a bound call is refused on its way to the kernel.
LaunchRefusals(b, capturing) ==
    LET f == b.layer.fam
        w4a16 == f.quant = "w4a16"
    IN {r \in {"plan", "staging", "rows", "decode", "buffers", "scratch"} :
          CASE r = "plan"    -> ~ w4a16 /\ ~ Fits(b.core, ExecutionPlan(f, b.m))
            [] r = "staging" -> /\ Backend(f, b.m) = "dynamic" /\ Materialized(f, b.m)
                                /\ ~ StagingFits(f, b.core, b.m)
            [] r = "rows"    -> w4a16 /\ b.core.plan.rows < b.m * f.topk
            [] r = "decode"  -> w4a16 /\ ~ LaunchServes(f, b.m, b.launch)
            [] r = "buffers" -> w4a16 /\ ~ BuffersFit(f, b.core, b.m, b.launch)
            [] OTHER         -> w4a16 /\ capturing /\ ~ ScratchFits(f, b.core, b.m, b.launch)}

\* The workspace rebuilt from a binding is always volatile, and knows no
\* source of the scales it holds.
NotVolatile(b) == FALSE
Volatile(b) == TRUE
SourceOfBinding(b) == {b.layer}
KnownSource(b) == {}

\* The launch wrapper zeroes the barrier words and copies the scales.
Prepared(b) ==
    [words |-> IF Volatile(b) THEN {b.core} ELSE mem[b.block].words,
     scales |-> IF KnownSource(b) # {b.layer} THEN {b.layer} ELSE mem[b.block].scales]

\* The kernel leaves its own words in order and everything else overwritten.
KernelLeaves(b) ==
    CASE b.core.plan.impl = "dynamic" -> [words |-> {b.core}, scales |-> Prepared(b).scales]
      [] b.core.plan.impl = "micro"   -> [words |-> {b.core}, scales |-> {}]
      [] OTHER                        -> Raw

Run(b) == /\ mem' = [mem EXCEPT ![b.block] = KernelLeaves(b)]
          /\ last' = [event |-> "launch", layer |-> b.layer, m |-> b.m,
                      core |-> b.core, saw |-> Prepared(b)]

LaunchEager ==
    /\ UNCHANGED <<lends, caps, frozen, pool, blocks, bound, graph>>
    /\ \E b \in bound :
          IF LaunchRefusals(b, FALSE) = {} THEN Run(b)
          ELSE Refuse(b.layer, b.m, LaunchRefusals(b, FALSE)) /\ UNCHANGED mem

\* Under capture, binding and launch are recorded and nothing runs.
Record(b) ==
    /\ IF LaunchRefusals(b, TRUE) = {} THEN graph' = {b} /\ Quiet
       ELSE Refuse(b.layer, b.m, LaunchRefusals(b, TRUE)) /\ UNCHANGED graph
    /\ UNCHANGED <<lends, caps, frozen, mem, bound>>

CapturePool(l, m) ==
    /\ ~ lends /\ graph = {} /\ PoolRefusals(l.fam, m, TRUE) = {}
    /\ Record(Binding(l, m, Resolved(l.fam, m)))
    /\ Enroll(l, m)

CaptureScratch(l, m, counts) ==
    /\ lends /\ graph = {} /\ ScratchRefusals(l.fam, m, counts) = {}
    /\ Record(ScratchBinding(l, m, ScratchWorkspace(l.fam, counts)))
    /\ UNCHANGED <<pool, blocks>>

\* A replayed graph repeats the zeroing, the copies and the kernel, unchecked.
Replay == \E b \in graph : Run(b) /\ UNCHANGED <<lends, caps, frozen, pool, blocks, bound, graph>>

\* Other owners of the shared arena and of the scratch write over them.
Overwrite(b) == /\ b = Scratch \/ caps # {}
                /\ mem[b] # Raw
                /\ mem' = [mem EXCEPT ![b] = Raw]
                /\ Quiet
                /\ UNCHANGED <<lends, caps, frozen, pool, blocks, bound, graph>>

Next ==
    \/ \E counts \in Plans, freeze \in BOOLEAN : BindArena(counts, freeze)
    \/ \E f \in Families, counts \in Plans : Materialize(f, counts)
    \/ \E c \in Calls : BindPool(c[1], c[2]) \/ CapturePool(c[1], c[2])
    \/ \E c \in Calls, counts \in Plans :
          BindScratch(c[1], c[2], counts) \/ CaptureScratch(c[1], c[2], counts)
    \/ Drop
    \/ LaunchEager
    \/ Replay
    \/ \E b \in {Arena, Scratch} : Overwrite(b)

Spec == Init /\ [][Next]_vars

-----------------------------------------------------------------------------
\* A block holds the words of one layout and the scales of one layer at most,
\* every workspace and binding is on a block that exists, and with a shared
\* arena every workspace of the pool is in it.
TypeOK ==
    /\ caps \in SUBSET Nat /\ frozen \in BOOLEAN /\ blocks \in 0 .. MaxBlocks
    /\ \A b \in DOMAIN mem : Cardinality(mem[b].words) <= 1 /\ mem[b].scales \subseteq Layers
    /\ \A k \in DOMAIN pool : pool[k].block \in IF caps # {} THEN {Arena} ELSE 1 .. blocks
    /\ Cardinality(bound) <= MaxBound /\ Cardinality(graph) <= 1
    /\ \A b \in bound \cup graph : b.block \in Scratch .. blocks

KernelFits(l, m, core) ==
    LET f == l.fam
        p == ExecutionPlan(f, m)
    IN CASE p.impl = "dynamic" ->
              /\ core.plan.tiles >= p.tiles /\ core.plan.tasks >= p.tasks
              /\ core.plan.stateE >= f.experts
              /\ core.plan.tiles * TileM(f, p.rows) <= core.inputRows
              /\ p.tiles * TileM(f, p.rows) <= core.scaleRows
         [] p.impl = "micro" ->
              /\ p.rows + m * 16 <= core.barriers
              /\ p.rows * (f.hidden + Ceil(f.inter \div 2, 128) * 128) <= core.inner
         [] OTHER -> core.plan.rows >= p.rows

\* Whatever the kernel of a call indexes lies inside the workspace it was bound
\* to, also when the tile of the call differs from the one the workspace was
\* planned with (_select_dynamic_tile_mn, _dynamic_task_geometry).
LaunchFits ==
    last.event = "launch" => KernelFits(last.layer, last.m, last.core)

\* A kernel finds its barrier words as it left them or zero, never what another
\* kernel, another layout or another owner of the memory left there.
BarrierClean ==
    last.event = "launch" /\ last.core.plan.impl # "w4a16" => last.core \in last.saw.words

\* A dynamic kernel quantises with the input scales of the layer that is
\* called, however many layers were bound to the workspace since.
ScalesOfCall ==
    last.event = "launch" /\ last.core.plan.impl = "dynamic" => last.saw.scales = {last.layer}

\* No call that a workspace was found for is turned away for its buffers, and
\* no capture for its accumulation scratch: what was planned covers every
\* smaller call, packed or direct, in every block size and every tile it may be
\* given (_select_dynamic_tile_mn: "they select the SAME tile").
PlannedScratchSuffices ==
    last.event = "refused" => last.why \cap {"staging", "rows", "buffers", "scratch"} = {}

\* While the pool is frozen no workspace of it is replaced, so the addresses a
\* captured graph holds stay those of the pool.
FrozenPoolFixed ==
    [][frozen => \A k \in DOMAIN pool : k \in DOMAIN pool' /\ pool'[k] = pool[k]]_vars
=============================================================================
