------------------------------- MODULE Exl3Mixed -------------------------------
(***************************************************************************)
(* Exl3MoEMethod: the MoE layers of a target model and of its draft, from   *)
(* loading to serving.  The host runs one forward pass at a time, layer by  *)
(* layer: a layer's first call plans its runtime and the scratch arenas it  *)
(* shares with other layers, every call appends kernel launches to the      *)
(* stream of the model it belongs to, or, while a CUDA graph is captured,   *)
(* to the graph.  The two streams run on their own; a graph is replayed     *)
(* with the arenas it was captured with.                                   *)
(*                                                                         *)
(* A model m of Models fixes what the process is started with:             *)
(*   layers  each [owner, format, bits]; format is "r7" or "rank"          *)
(*   knobs   maxM, batched, capacity, blockM, explicit, minM, chunk,        *)
(*           prefillTrellis, fused, budget; captures, the batch sizes that  *)
(*           are captured; calls, a bound of the model                     *)
(*   sharedConfig   whether both models were given one quant config        *)
(*   stamped   whether the draft's layers were stamped as such when it was  *)
(*           built (load_eagle_model, external), or are named like a draft's *)
(* What a cell of an arena holds is the set of calls, <<owner, call, layer, *)
(* first row>>, whose data it was computed from.                           *)
(***************************************************************************)
EXTENDS MixedTiers

CONSTANTS
    Models,         \* the processes considered
    Owners,         \* "target" and "draft"
    Layers,         \* the layer numbers any model uses
    TopK,           \* routes per row
    DecodeBlock,    \* _MIXED_TRELLIS_ROUTE_BLOCK_SIZE
    QualifiedBlock, \* _GLM52_MIXED_TRELLIS_PREFILL_BLOCK_SIZE
    Qualified       \* _GLM52_MIXED_TRELLIS_BLOCK32_SIGNATURES

\* What the environment and the configuration may ask for.
KnobsPossible(k) ==
    /\ \A n \in {k.maxM, k.batched, k.capacity, k.blockM, k.minM, k.chunk} : n \in Nat \ {0}
    /\ {k.explicit, k.prefillTrellis, k.fused} \subseteq BOOLEAN
    /\ k.budget \in Nat \cup {-1} /\ k.calls \in Nat

\* The layers of one model have the same number of experts; a rank-sliced
\* checkpoint has one bitrate per expert.
LayersPossible(layers) ==
    /\ layers \in Seq(Range(layers))
    /\ \A l \in DOMAIN layers :
          /\ layers[l].owner \in Owners /\ layers[l].format \in {"r7", "rank"}
          /\ Assigned(layers[l].bits)
          /\ layers[l].format = "rank" =>
                \A p \in Projections : layers[l].bits[p] = layers[l].bits["gate"]
          /\ \A j \in DOMAIN layers : layers[j].owner = layers[l].owner =>
                Experts(layers[j].bits) = Experts(layers[l].bits)

\* "The single funnel every speculator draft passes through": a draft that
\* shares the target's quant config has layers that are known to be its own.
RolesKnown(m) ==
    m.sharedConfig =>
        \/ m.stamped
        \/ \A l \in DOMAIN m.layers : m.layers[l].owner = "draft" => m.layers[l].format = "rank"

ASSUME OwnersAssumption == Owners = {"target", "draft"}
ASSUME SizesAssumption == {TopK, DecodeBlock, QualifiedBlock} \subseteq Nat \ {0}
ASSUME ModelsAssumption ==
    \A m \in Models :
        /\ KnobsPossible(m.knobs) /\ LayersPossible(m.layers)
        /\ {m.sharedConfig, m.stamped} \subseteq BOOLEAN /\ RolesKnown(m)

VARIABLES
    model,      \* the process
    art,        \* per layer: what loading left behind
    spent,      \* _r7_fused_layers of a quant config
    runtimes,   \* the planned runtimes: key -> [rate], the rate planned for
    arenas,     \* the scratch arenas: key -> [slots, blocks, route, acc, out]
    bound,      \* the layers bound to a runtime: runtime_binding_key
    host,       \* the forward pass in progress
    stream,     \* per owner: launches not yet executed
    graphs,     \* per owner: the captured graphs, [rows, ops]
    calls,      \* per owner: calls executed or being executed
    batch,      \* per owner: the rows of its last call
    taken,      \* per owner: the slices of output its last call produced
    profiled,   \* the owners whose profile pass is over
    verdict     \* what was refused, if anything was

vars == <<model, art, spent, runtimes, arenas, bound, host, stream, graphs, calls,
          batch, taken, profiled, verdict>>

Knobs == model.knobs
LayerIds == DOMAIN model.layers
Layer(l) == model.layers[l]
OwnLayers(o) == {l \in LayerIds : Layer(l).owner = o}
Nothing == [kind |-> "none"]
Idle == [kind |-> "idle"]
Accepted == [at |-> "none"]

Init ==
    /\ model \in Models
    /\ art = [l \in LayerIds |-> Nothing]
    /\ spent = [c \in Owners |-> 0]
    /\ runtimes = <<>> /\ arenas = <<>> /\ bound = {}
    /\ host = Idle
    /\ stream = [o \in Owners |-> <<>>] /\ graphs = [o \in Owners |-> {}]
    /\ calls = [o \in Owners |-> 0] /\ batch = [o \in Owners |-> 0]
    /\ taken = [o \in Owners |-> {}]
    /\ profiled = {} /\ verdict = Accepted

\* _runtime_scope_id: one scope per quant config.
ConfigOf(o) == IF model.sharedConfig THEN "target" ELSE o
\* _is_draft_layer: create_weights stamps the layers of a rank-sliced
\* checkpoint itself.
IsDraft(l) == Layer(l).owner = "draft" /\ (Layer(l).format = "rank" \/ model.stamped)
\* The owner as the config alone would have it.
OwnerTokenByConfig(l) == [scope |-> ConfigOf(Layer(l).owner), draft |-> FALSE]
\* _runtime_owner_token: with the role of the layer.
OwnerToken(l) == [scope |-> ConfigOf(Layer(l).owner), draft |-> IsDraft(l)]

Uniform(l) == Cardinality(Rates(Layer(l).bits)) = 1
Fused(l) == art[l].kind = "mixed"

-----------------------------------------------------------------------------
(* process_weights_after_loading.                                          *)

Loading == host = Idle /\ verdict = Accepted
LoadNext(l) == l \in LayerIds /\ art[l] = Nothing /\ \A j \in 1 .. l - 1 : art[j] # Nothing

\* _r7_projection_tiers and _r7_fused_layer_budget; -1 is no budget.
NativeTiers(l) ==
    /\ Knobs.fused
    /\ Cardinality(Rates(Layer(l).bits)) \in {2, 3}
    /\ Knobs.budget = -1 \/ spent[ConfigOf(Layer(l).owner)] < Knobs.budget

Refuse(record) == verdict' = record

\* An oversized tier is found out after the source tensors are gone.
LoadR7Fused(l) ==
    /\ Loading /\ LoadNext(l) /\ Layer(l).format = "r7" /\ NativeTiers(l)
    /\ IF Oversized(Layer(l).bits)
       THEN Refuse([at |-> "load", layer |-> l]) /\ UNCHANGED <<art, spent>>
       ELSE /\ art' = [art EXCEPT ![l] = [kind |-> "mixed",
                                          weights |-> ProjectionTiered(Layer(l).bits)]]
            /\ spent' = IF Knobs.budget = -1 THEN spent
                        ELSE [spent EXCEPT ![ConfigOf(Layer(l).owner)] = @ + 1]
            /\ UNCHANGED verdict
    /\ UNCHANGED <<model, runtimes, arenas, bound, host, stream, graphs, calls, batch,
                   taken, profiled>>

\* The fallback keeps the payloads and builds tables of their addresses.
LoadR7Graph(l) ==
    /\ Loading /\ LoadNext(l) /\ Layer(l).format = "r7" /\ ~NativeTiers(l)
    /\ art' = [art EXCEPT ![l] = [kind |-> "graph"]]
    /\ UNCHANGED <<model, spent, runtimes, arenas, bound, host, stream, graphs, calls,
                   batch, taken, profiled, verdict>>

LoadRankSliced(l) ==
    /\ Loading /\ LoadNext(l) /\ Layer(l).format = "rank"
    /\ IF Uniform(l)
       THEN /\ art' = [art EXCEPT ![l] = [kind |-> "uniform"]]
            /\ UNCHANGED verdict
       ELSE IF Cardinality(Rates(Layer(l).bits)) # 2 \/ Oversized(Layer(l).bits)
       THEN Refuse([at |-> "load", layer |-> l]) /\ UNCHANGED art
       ELSE /\ art' = [art EXCEPT ![l] = [kind |-> "mixed",
                                          weights |-> ExpertTiered(Layer(l).bits)]]
            /\ UNCHANGED verdict
    /\ UNCHANGED <<model, spent, runtimes, arenas, bound, host, stream, graphs, calls,
                   batch, taken, profiled>>

-----------------------------------------------------------------------------
(* A forward pass.  The engine waits for a call to be over before it issues *)
(* the owner's next one; the first call of an owner is the profile pass     *)
(* over the largest batch the scheduler may emit, and graphs are captured   *)
(* before the second.                                                      *)

Ready(o) ==
    /\ host = Idle /\ verdict = Accepted /\ stream[o] = <<>>
    /\ \A l \in LayerIds : art[l] # Nothing
    /\ OwnLayers(o) # {}

Begin(o, m, kind) ==
    /\ Ready(o)
    /\ kind = "profile" <=> o \notin profiled
    /\ kind = "profile" => m = Knobs.batched
    /\ kind = "capture" => calls[o] = 1 /\ m \in Knobs.captures /\ \A g \in graphs[o] : g.rows # m
    /\ kind # "capture" => calls[o] < Knobs.calls
    /\ host' = [kind |-> kind, owner |-> o, rows |-> m, left |-> OwnLayers(o), ops |-> <<>>]
    /\ IF kind = "capture" THEN UNCHANGED <<calls, batch, taken>>
       ELSE /\ calls' = [calls EXCEPT ![o] = @ + 1]
            /\ batch' = [batch EXCEPT ![o] = m]
            /\ taken' = [taken EXCEPT ![o] = {}]
    /\ UNCHANGED <<model, art, spent, runtimes, arenas, bound, stream, graphs, profiled,
                   verdict>>

Capturing == host.kind = "capture"
Current == Min(host.left)

\* The launches of a layer go where the pass sends them.
Launch(ops) ==
    /\ host' = [host EXCEPT !.left = @ \ {Current}, !.ops = IF Capturing THEN @ \o ops ELSE @]
    /\ stream' = IF Capturing THEN stream
                 ELSE [stream EXCEPT ![host.owner] = @ \o ops]

RefuseCall ==
    /\ Refuse([at |-> host.kind, layer |-> Current, rows |-> host.rows])
    /\ host' = Idle
    /\ UNCHANGED <<stream, runtimes, arenas, bound>>

\* Successive slices of at most n rows, as <<first row, last row>>.
Slices(m, n) == [i \in 1 .. (m + n - 1) \div n |-> <<(i - 1) * n + 1, Min({i * n, m})>>]

Op(do, key, l, slice) ==
    [do |-> do, arena |-> key, layer |-> l, from |-> slice[1], to |-> slice[2]]

\* The four steps over one slice after the other, on the arena of key.
Launches(steps, key, l, slices) ==
    [i \in 1 .. 4 * Len(slices) |->
        Op(steps[((i - 1) % 4) + 1], key, l, slices[((i - 1) \div 4) + 1])]

EmptyArena(slots, blocks) ==
    [slots |-> slots, blocks |-> blocks, route |-> {}, acc |-> {}, out |-> {}]

\* dict.setdefault: an entry there is stays as it is.
SetDefault(f, key, value) ==
    [k \in DOMAIN f \cup {key} |-> IF k \in DOMAIN f THEN f[k] ELSE value]

\* max_packed_route_slots, and the blocks they fill.
RouteSlots(rows, block, experts) ==
    LET n == rows * TopK
        all == n + experts * (block - 1)
    IN IF n < experts THEN Min({n * block, all}) ELSE all
Blocks(slots, block) == (slots + block - 1) \div block

-----------------------------------------------------------------------------
(* _mixed_rank_sliced_runtime and _apply_mixed_rank_sliced.                 *)

MaxDecode == Min({Knobs.maxM, Knobs.batched})
TiersOf(l) == art[l].weights.tiers
TierSignature(l) == [t \in DOMAIN TiersOf(l) |-> <<TiersOf(l)[t].bits, TiersOf(l)[t].slots>>]

\* _resolve_mixed_trellis_prefill_block_m on the geometry it is meant for.
PrefillBlock(l) ==
    IF ~Knobs.explicit /\ (TierSignature(l) \in Qualified \/ Len(TiersOf(l)) = 3)
    THEN QualifiedBlock ELSE Knobs.blockM

\* A runtime is a decode state and, if a batch may exceed it, a prefill one.
States(l) ==
    {[name |-> "decode", rows |-> MaxDecode, block |-> DecodeBlock]}
    \cup IF Knobs.batched > MaxDecode
         THEN {[name |-> "prefill", rows |-> Knobs.capacity, block |-> PrefillBlock(l)]}
         ELSE {}

MixedKey(l) ==
    [owner |-> OwnerToken(l), path |-> "mixed",
     signature |-> TierSignature(l), experts |-> Cardinality(Experts(Layer(l).bits)),
     block |-> PrefillBlock(l)]

\* _shared_mixed_buffers: the key leaves out what differs between tier
\* signatures; the size comes from the number of experts routed to.
ArenaKey(l, s) ==
    [owner |-> OwnerToken(l), path |-> "mixed", rows |-> s.rows,
     block |-> s.block, tiers |-> Len(TiersOf(l))]

ArenaFor(l, s) ==
    LET slots == RouteSlots(s.rows, s.block, Cardinality(Experts(Layer(l).bits)))
    IN EmptyArena(slots, Blocks(slots, s.block))

Plannable(l) == Compilable(art[l].weights) /\ (Knobs.batched > MaxDecode => Knobs.prefillTrellis)

\* bind_layer_states: the launches take the layer's own slabs and maps.
LayerStatesBind(l) == Bindable(art[l].weights, Experts(Layer(l).bits))

\* Arenas planned with the runtime of layer l.
ArenaKeys(l) == {ArenaKey(l, s) : s \in States(l)}
WithArenas(l) ==
    [k \in DOMAIN arenas \cup ArenaKeys(l) |->
        IF k \in DOMAIN arenas THEN arenas[k]
        ELSE ArenaFor(l, CHOOSE s \in States(l) : ArenaKey(l, s) = k)]

\* run_bound_mixed_trellis refuses what launch or arena cannot hold.
Fits(l, s, m, as) ==
    LET slots == RouteSlots(m, s.block, Cardinality(Experts(Layer(l).bits)))
    IN /\ m \in 1 .. s.rows
       /\ Blocks(slots, s.block) <= ArenaFor(l, s).blocks
       /\ slots <= as[ArenaKey(l, s)].slots
       /\ Blocks(slots, s.block) <= as[ArenaKey(l, s)].blocks

\* The state a batch of m rows runs in and the slices it is cut into.
StateFor(l, m) ==
    CHOOSE s \in States(l) : s.name = IF m <= MaxDecode THEN "decode" ELSE "prefill"
MixedSlices(m) == IF m <= MaxDecode THEN <<<<1, m>>>> ELSE Slices(m, Knobs.capacity)

\* Route packing, the cooperative kernel, the weighted sum, and the cast that
\* takes the rows out of the arena.
MixedSteps == <<"pack", "kernel", "sum", "take">>

ApplyMixed ==
    /\ host # Idle /\ host.left # {} /\ Fused(Current)
    /\ LET l == Current
           s == StateFor(l, host.rows)
           planned == MixedKey(l) \in DOMAIN runtimes
           as == IF planned THEN arenas ELSE WithArenas(l)
       IN IF \/ ~planned /\ (Capturing \/ ~Plannable(l))
             \/ ~LayerStatesBind(l)
             \/ host.rows > Knobs.batched
          THEN RefuseCall
          ELSE IF \E i \in DOMAIN MixedSlices(host.rows) :
                     ~Fits(l, s, MixedSlices(host.rows)[i][2] - MixedSlices(host.rows)[i][1] + 1, as)
          THEN RefuseCall
          ELSE /\ runtimes' = SetDefault(runtimes, MixedKey(l), [rate |-> 0])
               /\ arenas' = as
               /\ bound' = bound \cup {l}
               /\ Launch(Launches(MixedSteps, ArenaKey(l, s), l, MixedSlices(host.rows)))
               /\ UNCHANGED verdict
    /\ UNCHANGED <<model, art, spent, graphs, calls, batch, taken, profiled>>

-----------------------------------------------------------------------------
(* _r7_graph_runtime and _apply_r7_graph: staging by the token batch, one   *)
(* fused entry per slice of the arena's capacity.                          *)

GraphKey(l) == [owner |-> OwnerToken(l), path |-> "graph",
                experts |-> Cardinality(Experts(Layer(l).bits))]
GraphArena == EmptyArena(Knobs.capacity, 0)
GraphSteps == <<"stage", "clear", "fused", "take">>

ApplyR7Graph ==
    /\ host # Idle /\ host.left # {} /\ art[Current].kind = "graph"
    /\ LET l == Current
           planned == GraphKey(l) \in DOMAIN runtimes
       IN IF (~planned /\ Capturing) \/ host.rows > Knobs.batched
          THEN RefuseCall
          ELSE /\ runtimes' = SetDefault(runtimes, GraphKey(l), [rate |-> 0])
               /\ arenas' = SetDefault(arenas, GraphKey(l), GraphArena)
               /\ Launch(Launches(GraphSteps, GraphKey(l), l, Slices(host.rows, Knobs.capacity)))
               /\ UNCHANGED <<bound, verdict>>
    /\ UNCHANGED <<model, art, spent, graphs, calls, batch, taken, profiled>>

-----------------------------------------------------------------------------
(* _rank_sliced_runtime and _apply_rank_sliced for a layer of one bitrate:  *)
(* a Trellis window, a prefill plan beyond it, else the eager parity path.  *)

UniformKey(l) == [owner |-> OwnerToken(l), path |-> "uniform",
                  experts |-> Cardinality(Experts(Layer(l).bits))]
UniformArena(l, name) ==
    [owner |-> OwnerToken(l), path |-> "uniform", name |-> name,
     experts |-> Cardinality(Experts(Layer(l).bits))]

PrefillPlanned == Knobs.prefillTrellis /\ Knobs.batched > Knobs.maxM
\* One chunk, whether or not larger batches have a plan of their own.
ParityRowsOneChunk == Min({Knobs.chunk, Knobs.batched})
ParityRows == IF PrefillPlanned THEN Min({Knobs.chunk, Knobs.batched}) ELSE Knobs.batched

\* What the runtime refuses to be planned with.
UniformPlannable ==
    /\ Knobs.minM <= Knobs.maxM
    /\ Min({Knobs.batched, Knobs.minM - 1}) <= ParityRows

UniformPath(m) ==
    CASE m \in Knobs.minM .. Knobs.maxM           -> "decode"
      [] PrefillPlanned /\ m > Knobs.maxM         -> "prefill"
      [] OTHER                                    -> "parity"

UniformSlices(m) == IF UniformPath(m) = "prefill" THEN Slices(m, Knobs.capacity) ELSE <<<<1, m>>>>
UniformSteps(m) == IF UniformPath(m) = "parity" THEN GraphSteps ELSE MixedSteps

\* The plan was made for the weights of the first layer; bind refuses others.
UniformRate(l) == CHOOSE k \in Rates(Layer(l).bits) : TRUE

ApplyUniform ==
    /\ host # Idle /\ host.left # {} /\ art[Current].kind = "uniform"
    /\ LET l == Current
           m == host.rows
           key == UniformKey(l)
           planned == key \in DOMAIN runtimes
           path == UniformPath(m)
       IN IF \/ ~planned /\ (Capturing \/ ~UniformPlannable)
             \/ path # "parity" /\ planned /\ runtimes[key].rate # UniformRate(l)
             \/ path = "prefill" /\ m > Knobs.batched
             \/ path = "parity" /\ (Capturing \/ m > ParityRows)
          THEN RefuseCall
          ELSE /\ runtimes' = SetDefault(runtimes, key, [rate |-> UniformRate(l)])
               /\ arenas' = SetDefault(arenas, UniformArena(l, path), EmptyArena(0, 0))
               /\ Launch(Launches(UniformSteps(m), UniformArena(l, path), l, UniformSlices(m)))
               /\ UNCHANGED <<bound, verdict>>
    /\ UNCHANGED <<model, art, spent, graphs, calls, batch, taken, profiled>>

-----------------------------------------------------------------------------
EndPass ==
    /\ host # Idle /\ host.left = {}
    /\ host' = Idle
    /\ graphs' = IF Capturing
                 THEN [graphs EXCEPT ![host.owner] = @ \cup {[rows |-> host.rows, ops |-> host.ops]}]
                 ELSE graphs
    /\ profiled' = profiled \cup {host.owner}
    /\ UNCHANGED <<model, art, spent, runtimes, arenas, bound, stream, calls, batch, taken,
                   verdict>>

\* A graph is replayed for a batch of its size, with new input.
Replay(o) ==
    /\ Ready(o) /\ calls[o] < Knobs.calls
    /\ \E g \in graphs[o] :
          /\ stream' = [stream EXCEPT ![o] = g.ops]
          /\ batch' = [batch EXCEPT ![o] = g.rows]
    /\ calls' = [calls EXCEPT ![o] = @ + 1]
    /\ taken' = [taken EXCEPT ![o] = {}]
    /\ UNCHANGED <<model, art, spent, runtimes, arenas, bound, host, graphs, profiled, verdict>>

\* warmup_mixed_trellis_route_pack: dummy routes are packed into the arenas.
DummyPacked(l) ==
    [k \in DOMAIN arenas |->
        IF k \in ArenaKeys(l) THEN [arenas[k] EXCEPT !.route = {}] ELSE arenas[k]]

\* warmup_exl3_mixed_trellis_route_pack: between the profile pass and the
\* captures; every mixed layer must have been planned by then.
Warmup(l) ==
    /\ host = Idle /\ verdict = Accepted /\ l \in LayerIds
    /\ Layer(l).owner \in profiled /\ graphs[Layer(l).owner] = {}
    /\ stream[Layer(l).owner] = <<>> /\ Fused(l)
    /\ IF l \notin bound
       THEN Refuse([at |-> "warmup", layer |-> l, rows |-> 0]) /\ UNCHANGED arenas
       ELSE /\ arenas' = DummyPacked(l)
            /\ UNCHANGED verdict
    /\ UNCHANGED <<model, art, spent, runtimes, bound, host, stream, graphs, calls, batch,
                   taken, profiled>>

-----------------------------------------------------------------------------
(* The stream of an owner executes its next launch.                        *)

Token(o, op) == <<o, calls[o], op.layer, op.from>>

\* What a launch leaves in the cells of its arena.  A fused entry adds to the
\* output it finds.
Effect(do, a, token) ==
    CASE do = "pack"   -> [a EXCEPT !.route = {token}]
      [] do = "kernel" -> [a EXCEPT !.acc = a.route \cup {token}]
      [] do = "sum"    -> [a EXCEPT !.out = a.acc \cup {token}]
      [] do = "stage"  -> [a EXCEPT !.acc = {token}]
      [] do = "clear"  -> [a EXCEPT !.out = {}]
      [] do = "fused"  -> [a EXCEPT !.out = @ \cup a.acc \cup {token}]
      [] OTHER         -> a

Execute(o) ==
    /\ stream[o] # <<>>
    /\ LET op == Head(stream[o])
           a == arenas[op.arena]
       IN /\ arenas' = [arenas EXCEPT ![op.arena] = Effect(op.do, a, Token(o, op))]
          /\ taken' = IF op.do # "take" THEN taken
                      ELSE [taken EXCEPT ![o] = @ \cup
                              {[layer |-> op.layer, from |-> op.from, to |-> op.to, of |-> a.out]}]
    /\ stream' = [stream EXCEPT ![o] = Tail(@)]
    /\ UNCHANGED <<model, art, spent, runtimes, bound, host, graphs, calls, batch, profiled,
                   verdict>>

\* The engine has nothing to do, or has ended on an error.
Rest == host = Idle /\ (\A o \in Owners : stream[o] = <<>>) /\ UNCHANGED vars

Next ==
    \/ \E l \in Layers : LoadR7Fused(l) \/ LoadR7Graph(l) \/ LoadRankSliced(l) \/ Warmup(l)
    \/ \E o \in Owners, m \in 1 .. Knobs.batched, kind \in {"profile", "eager", "capture"} :
          Begin(o, m, kind)
    \/ ApplyMixed \/ ApplyR7Graph \/ ApplyUniform \/ EndPass
    \/ \E o \in Owners : Replay(o) \/ Execute(o)
    \/ Rest

Spec == Init /\ [][Next]_vars

-----------------------------------------------------------------------------
(* Properties.                                                             *)

\* Types: art, runtimes, arenas, streams and graphs are what their comments
\* say, and the host's pass belongs to an owner whose layers are loaded.
TypeOK ==
    /\ model \in Models
    /\ \A l \in LayerIds : art[l].kind \in {"none", "mixed", "graph", "uniform"}
    /\ \A o \in Owners : spent[o] \in Nat /\ calls[o] \in 0 .. Knobs.calls
    /\ bound \subseteq {l \in LayerIds : Fused(l)}
    /\ host.kind \in {"idle", "profile", "eager", "capture"}
    /\ \A o \in Owners : \A i \in DOMAIN stream[o] :
          stream[o][i].arena \in DOMAIN arenas /\ Layer(stream[o][i].layer).owner = o
    /\ \A o \in Owners : \A g \in graphs[o] : g.rows \in 1 .. Knobs.batched
    /\ \A o \in Owners : \A t \in taken[o] : t.from <= t.to
    /\ Knobs.budget # -1 => \A o \in Owners : spent[o] <= Knobs.budget
    /\ verdict.at \in {"none", "load", "profile", "eager", "capture", "warmup"}

\* Whatever order the two streams run in, when a call is over every layer of
\* its model has answered every row of the batch exactly once, and the answer
\* was computed from that call's rows and routes alone: the arenas shared by
\* the layers of a model, replayed graphs included, carry nothing over from
\* another layer, an earlier call, another slice or the other model.
CallExact ==
    \A o \in Owners :
        verdict = Accepted /\ calls[o] > 0 /\ stream[o] = <<>>
            /\ (host = Idle \/ host.owner # o \/ Capturing)
        => \A l \in OwnLayers(o) :
             LET own == {t \in taken[o] : t.layer = l}
             IN /\ \A r \in 1 .. batch[o] : Cardinality({t \in own : r \in t.from .. t.to}) = 1
                /\ \A t \in own : t.to <= batch[o] /\ t.of = {<<o, calls[o], l, t.from>>}

\* Once a layer is bound the kernel computes every half of FC1 and FC2 of
\* every expert: with the plane of that expert and projection, decoded at the
\* bitrate it was encoded with, and with the expert's own rotation row; no
\* tile is skipped as padding or out of its tier's bounds.
EachPlaneItsOwn ==
    \A l \in bound : \A e \in Experts(Layer(l).bits) :
        LET its(p) == [plane |-> <<p, e>>, bits |-> Layer(l).bits[p][e], rotation |-> e]
        IN /\ Emitted(art[l].weights, TRUE, 0, 1, e) = its("gate")
           /\ Emitted(art[l].weights, TRUE, 1, 1, e) = its("up")
           /\ Emitted(art[l].weights, FALSE, 0, 1, e) = its("down")

\* Layers of one model that the uniform runtime cannot serve together: their
\* Trellis plan is made for one bitrate.
Misrated(l) ==
    /\ art[l].kind = "uniform"
    /\ \E j \in OwnLayers(Layer(l).owner) :
          art[j].kind = "uniform" /\ UniformRate(j) # UniformRate(l)

\* What can be wrong with the process as it was started.
Misconfigured(l) ==
    \/ art[l].kind = "mixed" /\ ~Plannable(l)
    \/ art[l].kind = "uniform" /\ ~UniformPlannable
    \/ Misrated(l)

\* A profile pass that takes the parity path binds no plan to any layer.
UnseenByProfile(l) == Misrated(l) /\ UniformPath(Knobs.batched) = "parity"

\* Serving never ends on a refusal: whatever a process cannot do it refuses
\* in its profile pass, and from then on every batch the scheduler may emit
\* is served, eagerly or under capture, but for a capture outside the Trellis
\* window of a layer of one bitrate, and for layers of several bitrates that
\* the profile pass ran without their plan.
ProfiledNeverRefused ==
    /\ verdict.at = "profile" => Misconfigured(verdict.layer)
    /\ verdict.at # "warmup"
    /\ verdict.at = "eager" => UnseenByProfile(verdict.layer)
    /\ verdict.at = "capture" =>
          \/ UnseenByProfile(verdict.layer)
          \/ /\ art[verdict.layer].kind = "uniform"
             /\ \/ verdict.rows < Knobs.minM
                \/ verdict.rows > Knobs.maxM /\ ~Knobs.prefillTrellis
=============================================================================
