# Verification of the GLM-5.3-Flash EXL3 3.5 bpw project

The repository builds a mixed 3/4-bit EXL3 quantization of a large
mixture-of-experts checkpoint and serves it with vLLM on two GPUs. It has two
halves, and the modules follow them.

- **Building** is a campaign of several days: 42 main layers (3 to 44) and the
  MTP layer 45, of 288 experts each, encoded by a few worker processes that are
  killed, restarted and recovered by hand and coordinated by nothing but files
  under one work root; then a pack of the result into a checkpoint.
- **Serving** is a quantization method and a speculator laid over vLLM, and the
  persistent GPU kernels and the MoE front end they call. Here the state is in
  shared scratch memory, captured graphs and the words of a grid barrier.

Contents: 1 inventory, 2 interactions and what is hard, 3 plan, 4 the modules
and the code, 5 runs and bounds, 6 fairness, 7 proofs, 8 only model-checked,
9 where code and documentation differ, 10 not modelled.

## 1. Inventory

Paths are under `src/`.

| component | source | state it keeps | operations | what makes it correct | modelled in |
|---|---|---|---|---|---|
| Campaign state machine | external (`quant_pipeline.campaign.glm53_uniform_k35`) | sealed states: phase, pending layers, active claims, completed rows | `initial_state`, enter encoding, `claim_next_layer`, complete, recover, seal main, qualify | a layer is in one place | `K35StateMachine`, from its call sites |
| State directory | `encode/k35_common.py` | `state/state-NNNN.json`, `state/.lock`, `plan.json` | `newest_state`, append, `state_lock`, `load_plan` | linear chain per plan | `K35Campaign` (as its newest state), `K35Replan` (as files) |
| Encode worker | `encode/k35_worker.py` | `active_claim` in memory; receipts, Hessians, packed choices, layer receipt under `layers/L{NN}` | startup checks, claim, resume, `encode_layer`, complete, exits | never refuses its own work, never mixes claims | `K35Campaign`, `K35Replan` |
| Recovery | `encode/k35_worker.py` (`recover_worker`, `quarantine_partial_layer`) | none | drop claim, delete the layer's artifacts, requeue | a layer is not lost or doubled | `K35Campaign`, `K35Replan` |
| Launch plan and re-plan | `encode/k35_phase4_plan.py`, `encode/README-K35-DRIVERS.md` (5b) | `plan.json`, `state/history` | bootstrap, move, re-plan, restart the chain | no state of the newer plan is lost | `K35Replan` |
| Entering the encoding phase | `encode/k35_phase6b_enter.py` | none | read state 0, write state 1 | repeatable | `K35Replan` |
| Probe and rate allocation | `encode/k35_probe_driver.py`, `solve_layer_dp` in `k35_common.py` | `allocations/L{NN}.json` | measure, scale and round gains, DP with backpointers | exact budget, optimal, deterministic | `LayerDp`; the write of the result is `Probe` of `K35Replan` |
| Phase 6 | `encode/k35_phase6_gss.py` | prepared rows under `gss/`, readiness receipt | sweep staging, build, publish, seal readiness | binds one plan's allocations | the readiness receipt only (`SealReadiness`) |
| MTP driver (layer 45) | `encode/k35_mtp45_encode.py` | `layers/L45`, adapter receipt, phase of the chain | seal main, mint, encode, adopt, adapter, qualify | one claim per receipt, chain agrees with disk | `K35Mtp` |
| Packed surface | `encode/k35_surface.py`, `encode/k35_phase8_pack.py` | none (reads `layers/`) | load, bind receipts to readiness | packs one plan | `Pack` of `K35Mtp`, inputs of `McgMaterializer` |
| Materializer | `encode/glm53_mcg_materializer.py` | output root: shards, shard receipts, documents, final receipt, temporary files | plan, write or adopt or resume a shard, documents, finish, verify | complete means exact | `McgMaterializer` |
| Inventory and selection tools | `encode/k35_build_inventory.py`, `k35_patch_inventory.py`, `k35_mint_selection.py` | one sealed document each | hash, check, write | - | not modelled |
| EXL3 mixed method | `vllm-patches/exl3-mixed.py` | per-layer artifacts, runtimes and scratch arenas by key, graphs | load, process weights, profile, plan, apply in slices, capture | a call's answer comes from that call; nothing profiled is refused later | `MixedTiers`, `Exl3Mixed` |
| b12x mixed-rate tiers | `b12x-master/w4a16/mixed_trellis.py` | slabs, route map, descriptors, rotation rows of a layer | pack a tier, bind, look up | every expert finds its own plane | `MixedTiers` |
| b12x W4A16 kernels | `b12x-master/w4a16/kernel.py` | workspace words (locks, barrier count and sense), split-K scratch, intermediates; shared memory and registers of a CTA | phases, grid barrier, turns, tile pipeline | exact sums, launch after launch | `PhaseBarrier`, `GridBarrier`, `W4A16Schedule`, `W4A16Moe`, `W4A16Tile` |
| b12x MoE front end | `b12x-master/fused_moe/_impl.py`, `w4a16/host.py` | workspace pool, shared arena, bindings, graphs | plan, materialise, freeze, bind, launch | what is launched fits and finds its words and scales | `MoeGeometry`, `MoePool` |
| DFlash speculator overlay | `vllm-patches/dflash-overlay/` | draft KV cells, shared input buffers and block tables, logits, captured graphs | prepare inputs, shift block tables, store context, draft, sample | a request drafts from its own context | `DFlashDraft` |
| Rotary patch | `patches/rotary_common.py` | none | numerics | - | not modelled |
| Serving scripts | `start.sh`, `stop.sh`, `status.sh`, `serve/*.sh` | containers, ports | launch, poll, stop | - | not modelled |
| Benchmarks, charts | `bench/`, `charts/` | none | client requests, plots | - | not modelled |

## 2. Interactions, and what is hard

**Building.** Everything in the campaign interacts through files. A worker takes
the flock `state/.lock` twice per layer, once to claim it (or to find its own
claim again) and once to complete it; hours of encoding lie between, without the
lock and protected only by the claim. Recovery holds the lock while it deletes.
The scripts of phases 4 to 6b, which replace the plan, the allocations and the
chain under all of them, do not take the lock. The MTP driver takes it to seal
the main encoding and to qualify layer 45, but mints its own claim and encodes
outside it. Phase 8 does not read the chain at all: layer receipts alone tell it
what is finished. Each file is bound to others by hashes, so the usual effect of
a wrong order is a refusal (`die`), and the questions are whether refusals can
be reached that nothing clears, and whether any order gets past them. Each
process is sequential; its interleaving points are its file accesses.

**Serving.** vLLM runs a forward pass layer by layer on one host thread.
`Exl3MoEMethod.apply` takes the runtime and arena of the layer's key, shared with
every other layer of that key, and appends launches to the stream of its
model; target and draft have a stream each, and a captured graph keeps the
addresses it was captured with. The launches go through the b12x front end,
whose pool lays the workspaces of different kernels at the same address of one
arena, each relying on barrier words some predecessor left. In a launch the
CTAs of a persistent grid meet at a barrier built from two words of that
workspace, and take turns at an mn-tile through lock words; within a CTA the
warps share a four-stage ring that asynchronous copies fill. After every target
step the speculator writes the kept tokens into the draft KV cache and drafts a
block per request, through input buffers that outlive the step.

Hard to test, hence what the properties are for:

- a kill at any point, above all inside the deletions of a recovery and
  between an artifact and the receipt that seals it;
- a recovery of a worker that is not dead; two processes under one worker id;
- a value read before a lock or before a long computation and used after it:
  `plan.json`, the readiness receipt, the newest state, a receipt "not there";
- a plan replaced while workers, recoveries, drivers or packs hold the old one;
- what is run a second time over what a first run left: 5b, 6b, the MTP driver,
  the pack;
- progress: that a layer left in any state by any crash can still be completed;
- a fast CTA in the next barrier, or the next launch, while a slow one spins in
  this one; a slice added before its turn or into scratch not yet cleared;
- a stage of the ring refilled while a warp still reads it;
- scratch that is shared by key or by address: another layer, slice, owner or an
  earlier launch left something in it;
- sizes planned for one call and used by another, where the size is not
  monotone; refusals after the profile pass or during capture;
- rows of a captured graph beyond the batch, restored prefixes, rejected rows,
  windows and several KV groups over one set of lengths.

## 3. Plan

Order of the modules, the most important behaviour first:

1. `K35StateMachine`, `LayerLedger`, `K35Campaign`: the campaign under one plan,
   crash by crash, with the ledger as the abstract specification it implements.
   Proofs in `K35CampaignProofs`. *Done; liveness stays with TLC.*
2. `K35Replan`: the same actors, coarser inside a layer and finer at the state
   directory, across plans and beside scripts that ignore the lock. Proofs in
   `K35ReplanProofs`, which opens with the same lemmas about the transitions of
   `K35StateMachine` as `K35CampaignProofs` does. *Done; liveness stays with TLC.*
3. `LayerDp`: the allocation algorithm, against a definition by enumeration.
   Proofs in `K35DriverProofs`. *Done; optimality stays with TLC.*
4. `K35Mtp`: the layer-45 driver and what phase 8 loads. Proofs in `K35DriverProofs`
   too. *Done; liveness stays with TLC.*
5. `McgMaterializer`: the resumable pack. Proofs in `K35DriverProofs`, which extends
   the modules of all three programs. *Done; liveness stays with TLC.*
6. `PhaseBarrier`, `GridBarrier`, `W4A16Schedule`, `W4A16Moe`: the persistent
   kernel; the barrier implements its abstract specification, and the kernel that
   uses it computes what it should. Proofs in `W4A16MoeProofs`, for every grid, size
   and number of launches. *Done; liveness stays with TLC.*
7. `W4A16Tile`: the pipeline of one CTA, which `W4A16Moe` takes as a step. Proofs in
   `W4A16TileProofs`, for every shape and list of pieces. *Done.*
8. `MoeGeometry`, `MoePool`: sizes, workspaces, bindings and graphs. Proofs in
   `MoePoolProofs`. *Done.*
9. `MixedTiers`, `Exl3Mixed`: loading and serving of mixed-rate layers. Proofs in
   `Exl3MixedProofs`. *Done.*
10. `DFlashDraft`: the draft KV cache. Proofs in `DFlashDraftProofs`. *Done for a
    fixed depth.*
11. `K35Gss`: phase 6 with PID-named staging directories: sweep, liveness check
    and removal as separate steps, `os.replace` onto an existing row, subset
    runs and the readiness receipt. *Left.*

Composition: `K35Campaign` and `K35Replan` extend `K35StateMachine`;
`K35Campaign` instantiates `LayerLedger` through a refinement mapping. `K35Mtp`
abstracts the workers to one step (`DrainMain`) and a re-plan to one step,
which `K35Campaign` and `K35Replan` spell out; `McgMaterializer` starts
where `Pack` of `K35Mtp` ends. `W4A16Moe` extends `GridBarrier`, which
instantiates `PhaseBarrier`, and `W4A16Schedule`; `MoePool` extends
`MoeGeometry`; `Exl3Mixed` extends `MixedTiers`. What `MoePool` calls "the words
are in order" is what `W4A16Moe` requires of a workspace at a launch and leaves
behind (`WorkspaceClean`); what `W4A16Moe` takes as one step `Multiply` is
`TileExact` of `W4A16Tile`; what `Exl3Mixed` takes as the step "kernel" is
`ResultExact` of `W4A16Moe`.

## 4. The modules and the code

Two abstractions are common to the modules of the building half. **Hashes**: a
sealed document's hash is represented by what it is a function of, so two
documents are equal exactly if their hashes are (collisions are excluded). A
claim is the record of plan, parent sequence, worker and layer; an artifact is
the claim it embeds. **Files** are written in one step: every reader verifies a
seal and dies on a torn file, which leaves the disk as a crash of the reader
would. In the serving half, **numbers** are represented by where they come
from: a sum is the set of its terms, a cell is the row or call it was computed
from, and whatever is not such a value is `Junk`. Exactness is then a statement
about provenance, and rounding has no part in it.

In every module `TypeOK` documents the types of the state. TLC checks it in
`campaign` and `dp`; where a component has a module of proofs, it is a theorem.

### `K35StateMachine`

States, claims and transitions of the sealed campaign state. The package that
implements them is not in the repository; the operators are read off their call
sites in `k35_worker.py`, `k35_phase6b_enter.py` and `k35_mtp45_encode.py` and
are marked external in the map, except where `recover_worker` spells its
successor out itself (`RecoverySuccessor`). `CensusOf` says when a state has each
layer in one place; both campaign modules use it.

### `LayerLedger`

What the campaign promises, without files or processes: a worker holds at most
one layer, under a token never issued before; it releases or finishes it; a
layer is finished once, by the token that holds it; the ledger closes only when
all layers are finished.

### `K35Campaign`

| in the module | in the code |
|---|---|
| `state` | the newest `state-NNNN.json` |
| `receipts`, `choices`, `hessians`, `layerReceipt` | the artifacts of a layer |
| `pc`, `claim`, `next` | a worker process: where it is, `active_claim`, its expert loop |
| `rstep`, `rworker` | a running `--recover-worker`; `rstep # "idle"` is the lock held |
| `ExitClosed`, `Resume`, `ExitPaused`, `ExitDrained`, `ClaimLayer` | the locked section at the head of the worker's loop, one action per branch, in the code's order |
| `SkipExpert` ... `WriteLayerReceipt` | `encode_layer`: verify or refuse what exists, choices, Hessian, receipt, read-back, layer receipt |
| `Complete`, `ClaimVanished` | the locked section that completes the layer |
| `Recover`, `DropReceipt`, `ReceiptsDropped`, `DropStore`, `DropLayerReceipt`, `WriteRecovery` | `recover_worker` and `quarantine_partial_layer`, deletion by deletion |
| `SealDrained` | the MTP driver's seal of a drained chain |
| `Crash`, `RecoveryCrash`, `TogglePause` | kills and the operator |

A locked section is one action, because in this module every access to the state
directory holds the flock. `careful` says which operator a behaviour has: one who
runs `--recover-worker` only for a worker that is dead, as the docstring tells him,
or one who also hits live workers. Properties that need the first are
implications from `careful`; the others hold under both. `NeverRefused` also assumes
`DistinctIds`: two processes started under one id encode the same layer under the
same claim, and the first to complete it leaves the other to die on
`ClaimVanished`.

### `K35Replan`

The files themselves: `files` maps sequences to states, `planDisk`,
`allocDisk` and `readiness` are `plan.json`, `allocations/` and the readiness
receipt, `lock` is the flock. Each locked section is split into the read of the
plan, the read of the chain and the write of the successor, since the operator's
scripts (`ReplanGlob`, `ReplanMove`, `ReplanWritePlan`, `ReplanWriteState` for 5b;
`SealReadiness` for 6; `EnterRead`, `EnterWrite` for 6b) run in between and may
die between any two steps. A layer directory is one variable per layer: the
claim its artifacts embed. PAUSE and the expert loop are in `K35Campaign`.
`quiet` is the operator who stops the workers before 5b; `InOrder` the order 5b, 6,
6b of the runbook.

### `K35Mtp`

A driver run reads plan and readiness (`Start`), seals the main encoding
(`SealMain`), mints a claim whose parent is the newest state (`Mint`), adopts a
layer receipt that is there (`Adopt`) or encodes expert by expert
(`EncodeExpert` sees no receipt, `WriteExpert` writes one later), reads back and
seals (`SealLayer`), writes the adapter and qualifies it. An expert receipt
carries its claim and codec. Two runs may overlap, be killed and be run again;
`Replan`, `SealReadiness` and `DrainMain` are the rest of the campaign, `Pack` is
`load_k35_surface`. `usage` says which `--worker` ids and which containers (whose
codec identity a readiness receipt seals) the runs have, and how many plans there
are; `Plain` is the operator who keeps to one of each.

### `LayerDp`

`solve_layer_dp`. One action is one turn of the outer loop (`Relax`) or of the
walk back (`Trace`). In the code a pass offers each cost at most two candidates,
the upgrade from `c - 1` and then the floor from `c`, and replaces on strict
gain; `Keeps`, `BestScore` and `Choice` say that in closed form. The scores are the
scaled and rounded integers of the code, of any sign.

### `McgMaterializer`

The output root: `shard`, `receipt`, `temps`, `docs`, `final`. A surface, and the plan
made from it, is its version. The tensors of a shard depend on the version only
if some of them are routed, but the file of a shard does in any case: it names in its
metadata the plan it was written for (`glm53_mcg_materializer.py:438-442`), and
the hashes in receipts are of whole files (`:489`, `:511`). A `File` is therefore
plan and tensors, and a file's hash is taken to be a function of the two, that is,
`save_file` of safetensors (external) writes the same tensors and metadata the same
way each time.

The actions follow `_write_shard`: resume by a receipt of the same plan that seals
the file on disk; adopt a file without a receipt; or write a temporary file and
replace. The file on disk is then read back in either case (`VerifyShard`,
`RefuseFile`), tensor by tensor and whatever plan its metadata names, so that an
adopted native shard may keep an older plan's name. `HashShard` is a step of its
own: the receipt seals the hash of the file that is there by then, which another
pack may have replaced since. The documents follow in their order, the copy
of the auxiliary files, the final receipt and `verify_materialized_checkpoint`.
`Unwind` is an exception (the `finally` clause removes the temporary file), `Kill` is
not. `Reencode` changes the surface between and during packs. `packs` says which
packs may overlap and how many surfaces there will be; `OneSurfaceAtATime` is one
pack at a time, or packs of one surface. Two packs of two surfaces may mix their
shards, since the final verification reads receipts and does not hash the shards
again, and one may replace a shard whose receipt the other has sealed (`Stale`):
`CompleteIsExact` and `CompleteIsFinal` are stated for the first kind of usage,
`PackStopsForCause` for both.

### `PhaseBarrier` and `GridBarrier`

`PhaseBarrier` is what a grid barrier promises: the CTAs of a launch pass the same
numbered rendezvous, and none leaves one that another has not reached.
`GridBarrier` is `_grid_barrier`, load by load and store by store, over two words
of the workspace: `Enter` reads the sense, `Add` counts, the last arrival does
`Reset` and `Publish`, the others spin (`Released`). The words survive the launch;
`BarrierLaunch` starts another grid over whatever sense value was left.
`ImplementsPhases` is `PhaseBarrier` under a refinement mapping in which a CTA
reaches a rendezvous at its `Add`.

### `W4A16Schedule` and `W4A16Moe`

`W4A16Schedule` is how `_run_persistent_gemm` divides a GEMM over a grid: whole
tiles, one tile per CTA, or a tail of tiles cut along K into stripes that meet at
a lock and scratch slot. What a CTA has to do, here and in the grid-strided loops
of `W4A16Moe`, is a function from indexes to units of work; it always takes the
unit with the least index that is left, which is the order of the loops.
`W4A16Moe` runs it: `Launch` chooses the shape and its
phases (`rotate`, `fc1`, activation, `fc2`), `Dispatch` is a CTA getting its place on
an SM, `Barrier` is the step of `GridBarrier` between phases, and in a GEMM phase
`Multiply`, `Turn`, `MergeSlice`, `PublishTurn`, `Store` are `_run_tile`,
`_wait_for_reduction_turn`, `_merge_splitk_vec4`, `_publish_reduction_turn` and the
stores. `KernelEnds` and `TopKSum` are the end of the launch and the sum kernel.
`Poll` is a thread reading a word that has not changed: with it a grid that waits
for itself is a livelock that `KernelCompletes` finds. `cache13` is one memory
for FC1's and FC2's rows, as in the code. A sum is the set of its terms; a value
that is not a sum of distinct terms of one tile is `Junk`, a term no launch has.
Memory is sequentially consistent, the atomics are external.

`LaunchesAssumption` is what the host checks or builds: sizes are positive, and
FC1 has the N tiles FC2 has K tiles, twice that with a gate, because its rows are
the gate and the up half of what FC2 multiplies.

### `W4A16Tile`

The warps of one CTA in `_run_mma_pipeline` and around it: loading routes, filling
the ring (`Prefetch`, `StageAhead`), waiting for a copy group (`StageWait`), reading a
fragment ahead (`Reload`), folding the partial sums of the warp rows over the same
bytes, and storing. Copies of a group land at any time (`Land`); `Sync` is
`__syncthreads`, and each warp's accesses since the last one are kept in `reads`
and `writes`.

### `MoeGeometry` and `MoePool`

`MoeGeometry` is the arithmetic of `_impl.py`: which kernel family serves a call, the
tile ladder, and the sizes of every tensor. In `MoePool` a caller binds
(`BindPool`, `BindScratch`, `BindArena`), launches (`LaunchEager`), captures
(`CapturePool`, `CaptureScratch`), replays (`Replay`) and drops. Of the memory of a
block the model keeps for which layout the barrier words are in order and whose
input scales it holds; `Overwrite` is another owner of the same memory. Every
error the code raises on the way is an element of a set of refusals.

### `MixedTiers` and `Exl3Mixed`

`MixedTiers` is loading: the experts of one bitrate are packed into the slabs of a
tier, and the route map, descriptors and rotation rows lead back to them; `Emitted`
is what the kernel would compute for an expert and half. `Exl3Mixed` is the life
of a process: `LoadNext` and its branches per layer, a profile pass of each owner,
then eager passes, captures and replays. `ApplyMixed`, `ApplyUniform` and the
graph path plan the runtime and the arenas of a key when it is first met, cut the
batch into slices and append the launches; `Execute` runs the head of one owner's
stream, so that the two streams interleave in every way. A cell of an arena holds
the set of calls its content came from.

Whether a layer is a draft's is decided per layer (`IsDraft`): `create_weights` stamps
the layers of a rank-sliced checkpoint only (`exl3-mixed.py:2811`); of the others it
is known if `load_eagle_model`, which is not in the repository, stamped them or
their names say so (`stamped`). `OwnerToken(l)` is the scope of the layer's quant
config with that role. `RolesKnown` is what the docstring at `:325-334` counts on: a
draft that shares the target's config has layers known to be its own. With a
config each, the scopes differ anyway.

### `DFlashDraft`

`DFlashSpeculator.propose`, kernel by kernel: `Decline` for the early return of an
unaligned prefix, `Prepare` once per KV group (context slots, query slots,
positions, lengths, sampling rows), `Shift` once per group (the shared lengths are
shortened with the last), `Store` of the context rows, `Forward` of the query block,
`Sample`. `Admit`, `Release` and `Target` are the scheduler and target model, modelled
from what `propose` assumes of them: chunked prefill, restored prefixes, drafts
rejected from the end. A KV cell holds the context of a request at a position,
this step's query row, or junk. Each request has blocks of its own. Buffers that
outlive a step are `Stale` between steps: whoever uses a stale row may spoil any
cell or logit, which covers every content an earlier batch may have left.
Properties speak of drafts that lie within `max_model_len` (`Fits`), and of
positions not `missed` by a declined batch; both exceptions are in section 9.

The `MC*` modules extend these and give the functions used as constants
(`WorkerOf`, gains, shapes, models, draft configurations).

## 5. Runs and bounds

| run | question | instance | states |
|---|---|---|---|
| `campaign` | Can a crash, a recovery or a restart lose a layer, mix artifacts or make a worker refuse its own work? Does every layer complete? Does the campaign implement the ledger? | 2 workers, 2 layers of 2 experts, careful and careless operator, recoveries start below sequence 3 | 460 600 |
| `replan` | What holds of the chain if workers and a recovery are alive across a re-plan? If they are stopped for it: are completed layers on disk, does recovery free the layers old artifacts wedge? | 2 workers, 1 layer, 2 generations of allocations, quiet or not, sequences up to 4 | 126 669 |
| `mtp` | Is layer 45 qualified in the end, what is on disk then, and what may a run with another id or an old plan do? | 2 overlapping runs; one id, container and plan, 2 ids and 2 plans, or 2 containers; 2 experts | 471 974 |
| `mtp_adapter` (violation) | Does the adapter receipt assert what was verified? | 1 run, 2 plans | - |
| `dp` | Is the allocation exact, optimal and tie-broken as documented? | 5 tensors, 3 upgrades, gains -1, 0, 1, 3 | 13 312 |
| `pack` | Is a complete checkpoint exact and final; what can stop a pack for good? | 2 shards; 1 packer over 3 surfaces, 2 packers of one, or 2 of two | 410 978 |
| `w4a16_moe` | Is every output row the exact sum, launch after launch; does every launch end; is the barrier one? | 3 resident CTAs, sense of 2 values, 5 kinds of launch, 2 in a row | 13 115 |
| `w4a16_tile` | Do the warps of a CTA ever race, is every piece the exact sum? | 1, 2, 4 warp rows, 2 or 3 pieces, packed and direct routes | 26 984 |
| `moe_pool` | Does what is launched fit, and find its words and scales; is planned scratch enough; do frozen workspaces stay? | 3 layers of 2 kernel families, 5 sizes of call, pool or lent scratch, arena or none, frozen or not | 19 506 |
| `moe_pool_tile` (violation) | Is scratch planned for more rows enough for fewer? | the repacked shape with measured tiles, 288 and 512 tokens | - |
| `mixed` | Does every expert find its own plane, every call get its own answer; is anything refused after the profile pass? | all assignments of 2 rates to 3 experts and 3 to 2; 14 pairs of models, or one with two layers of different single rates, under knobs that slice, share and capture | 112 730 |
| `dflash` | Does every request draft from, write and return only what is its own? | 2 request slots, three configurations | 184 070 |

The bounds limit how often something is repeated, not what can happen between.

- `MaxRecoverySeq`/`MaxSeq`: recoveries start, or states are written, only below
  that sequence; without it a layer can be recovered for ever. `MaxPlan`,
  `MaxVersion`: plans and surfaces. Interference needs two actors and one contested
  layer; `campaign` has a second layer for the order of the queue and for "the
  other worker's claim", two experts separate "first written, second not", and
  recovery is allowed after a claim, a re-claim and a completion. Two generations
  give `replan` an old and a new plan with a chain each, and the provisional
  plan 0.
- `pack`: the first shard is routed, the second native. The receipt of the first
  shard decides which plan gets past it, so a foreign file of a routed shard is met
  there (`RefuseFile`); the native one behind it is where a pack adopts a file that
  names another plan, and where two packs of two surfaces leave a `Stale` receipt.
  Three versions let a pack meet what two other surfaces left. The third usage, two
  packs with a re-encoding between or under them, has both kinds of interference
  at once. Without its disjunct for stale receipts `PackStopsForCause` is violated.
- `dp`: five tensors with three upgrades have both triangular corners of the
  table (costs not yet reachable, costs beyond the tensors); the gains contain
  ties, a negative and a zero.
- `w4a16_moe`: `SenseWidth` 2 is the smallest the barrier may work with, and the
  hardest, as a stale sense repeats soonest; `MaxLaunches` 2 is every ordered pair of
  kinds over one workspace. The kinds cover FC1 cut in stripes with fewer tiles
  than CTAs and with more, one tile cut over all CTAs, whole tiles, the fused and
  the separate sum, a gate, rotation, and a route without a local expert.
  `ScheduleSound` evaluates the division of every GEMM up to 5 CTAs, 2 blocks,
  4 N tiles and 4 K tiles, each way of scheduling.
- `w4a16_tile`: `Stages` 4 and `Iters` 2 are the code's; pieces of 1, 2 and 6 K tiles
  are shorter than the ring and pass its end.
- `moe_pool`: `Sms` 188 is the device's. The sizes are chosen at the edges: a micro
  call, dynamic calls of 11 and 14 tiles of 16 rows, and one of 11 tiles of 32.
  `MaxBlocks` 2 bounds growth, `MaxBound` 1 the bindings held beside a graph; a second
  layer is bound between bind and launch by being bound and dropped. `TilesBound` and
  `SlotsBound` evaluate the planned geometry over every spread of rows over up to
  3 experts.
- `mixed`: `MaxTier` 2 (256 in the code) makes tiers fill up; `calls` bounds a model to
  one or two calls of each owner.
- `dflash`: two slots make "another request's block" and "a row past the batch"
  happen; `maxLen` of 6 or 8 with blocks of 2 has prefill, restored prefixes of one
  and two blocks, full and partial rejection and the end of the table. The slots are
  interchangeable and the run uses that symmetry (it has no liveness property).

Deadlock is checked in all runs except `dp` (the solver ends) and `pack` (a pack that
is complete, or refused by a leftover file, stops; the liveness property says
when).

## 6. Fairness

Nothing in the program schedules the campaign's processes; an operator does. What
is assumed is what the documentation tells the operator to do, and never that a
crash happens or does not.

- `K35Campaign`: weak fairness of each process's steps (a running process runs
  on; only crashes, recoveries and PAUSE disturb it and they are not fair), of
  `Start` (the module docstring of `k35_worker.py`: the same id is started again
  and resumes) and of the steps of a recovery already begun.
- `K35Replan`: strong fairness of worker and recovery steps, as the flock may be
  free and taken again infinitely often and `flock` does not starve a waiter;
  weak fairness of `LoadPlan`; strong fairness of `Unwedge`, the operator's
  recovery of a worker whose layer holds another claim's artifacts (phase 7 of
  `README-K35-DRIVERS.md`, and its changelog on the recovery wedge).
- `K35Mtp`: weak fairness of driver steps, of starting it again, of `DrainMain`.
- `McgMaterializer`: weak fairness of pack steps, and of `Begin` until complete.
- `LayerDp`: weak fairness of the one sequential program.
- `W4A16Moe`: weak fairness of each CTA's steps, its dispatch included (the grid is
  no larger than what is resident, and the hardware does not stop a resident CTA),
  of the end of the kernel and of the sum kernel, which the stream runs next. No
  fairness of `Launch`.

`W4A16Tile`, `MoePool`, `Exl3Mixed` and `DFlashDraft` have safety properties only.

Liveness of the campaign is always conditional on disturbances ending
(`<>[][~Disturbance]_vars`, or no more crashes). A killed process is in
another state than one that has refused and exited (`"killed"`, or the outcome
`"crashed"`), so that this premise does not also exclude refusals: a worker that
would refuse its own files again and again violates the property.

## 7. What is proved

Checked by TLAPS for all values of the constants, under the named assumptions
`StateMachineAssumption`, `CampaignAssumption`, `CensusAssumption`,
`ReplanAssumption`, `MtpAssumption`, `MaterializerAssumption` (there is a layer, an
expert, a shard; ids are well-formed; "absent" values are distinct from values),
`CtaIdsAssumption` (finitely many CTA ids), `SenseWidthAssumption` (the sense
word has at least two values), `SmsAssumption` and `PoolAssumption` (the device has
a multiprocessor; shapes and token counts are positive; a host plans for finitely
many counts), `CapAssumption`, `LaunchesAssumption` and `MaxLaunchesAssumption` (at
least one CTA is resident; the shapes of a launch fit together, section 4; the
bound on launches is a natural number), `TileAssumption` (one, two or four warp rows;
a piece has a K tile and, if it takes no turns, is stored; a CTA with no piece skips
the loop), `OwnersAssumption`, `SizesAssumption`, `ModelsAssumption` and
`MaxTierAssumption` (there are a target and a draft; block sizes, routes per row, the
capacity of a tier and the numeric knobs are positive; the layers of one model
have the same experts; `RolesKnown`, section 4) and `DraftAssumption` (finitely many
requests; sizes are positive; graphs and context sizes are captured for what the
buffers hold; the distinguished values differ). Nothing is assumed of the number of
workers, layers, experts, plans, packers, shards, CTAs, launches, bindings or
requests, nor of the shapes and token counts of the MoE calls but what the theorem
says; the bounds named in section 5 are
constants of any size.

**The campaign under one plan**, `K35CampaignProofs`:

| theorem | statement | argument |
|---|---|---|
| `TypeCorrect` | `Spec => []TypeOK` | `TypeInv == TypeOK /\ Bound`: to type the record a recovery writes one must know that while `rstep # "idle"` the worker in `rworker` has a claim, and to type a completion that an encoding process has a claim of its own id. |
| `CensusHolds` | `Spec => []Census` | `StateSteps`: only claim, complete, recover and seal write a state. One lemma each (`ClaimCensus`, `CompleteCensus`, `RecoveryCensus`, `PhaseCensus`) shows that the transition moves one layer and touches no other. Inductive with `TypeInv`. |
| `OneClaimPerLayer` | `Spec => []SameLayerSameClaim` | Not inductive by itself. While the operator is careful (`CarefulStays`: he remains so), `OwnsOrDone` says that an encoding process's claim is held by its id or has been completed by a process of the same id, and that a recovery under way has no encoding process of its id; with `Census` two encoders of one layer have one claim. `WorkerOf` is any function here, so processes sharing a worker id are covered, which the runs leave out. |
| `WorkersNeverRefused` | `Spec => []NeverRefused` | `Artifacts`: an expert receipt on disk embeds a claim the chain knows, held by an id or recorded as completed, and its choices and Hessian are on disk (`ReceiptsBacked`); once a recovery has begun to delete the stores, no receipt of its layer is left (`Quarantined`, the order of the deletions in `quarantine_partial_layer`); what an encoding process has passed in its loop is on disk under its own claim (`Progress`). A refusal needs a receipt of another claim, one without its backing, or a vanished claim; with `OwnsOrDone` and distinct ids none of these can be. |
| `CompletedStaysIntact` | `Spec => []CompletedIntact` | `ArtifactInv`: that a completed row names the claim it was sealed under holds under any operator; that its artifacts are on disk is the part of `Artifacts` that survives because `Census` keeps every writer and every recovery off a completed layer. |
| `ImplementsLedger` | `Spec => LedgerSpec` | initial states map to initial states; each chain write is a take, finish, release or close, every other step a stutter. Freshness of tokens comes from the sequence number. |

**The campaign across plans**, `K35ReplanProofs`. The theorems have the hypothesis
`InOrder` (the runbook's order of 5b, 6 and 6b, without which 6b may enter a plan
with another plan's readiness receipt, see section 9); the runs have it too. The
first three hold whether or not the workers are stopped for a re-plan.

| theorem | statement | argument |
|---|---|---|
| `TypeCorrect` | `InOrder => (Spec => []TypeOK)` | by `ChainInv` below |
| `NothingOverwritten` | `InOrder => (Spec => AppendOnly)` | `ChainInv`. Behind the files of a newer plan lie those of an older one (`Layered`), as what survives a re-plan was written by a process that still held the older plan. A state read under the flock (`Held`) stays what its reader takes it for although the scripts ignore the flock: no file of its plan or a newer one lies beyond it, and every file of an older plan that is not one of the first two does. So its successor goes to a free number or over an older plan's state. `Heads` and `Scripts` say the same of the first two files, which the scripts write. `AdvanceFree` is that step, for claims, completions and recoveries alike. |
| `ChainIsLinked` | `InOrder => (Spec => []ChainLinked)` | `Linked` of the same invariant: the plan in force has a chain without a gap, and a process that holds a state of it holds its last one, so each state is a transition of the one below it. |
| `CompletedStaysOnDisk` | `InOrder => (Spec => []CompletedOnDisk)` | `QuietInv`, on top of `ChainInv`, for the operator who stops the workers: there is one plan at a time and every live process is bound to it (`OnePlan`); who holds a state holds the newest, who encodes owns its layer in it, and who has sealed has read its own artifacts back (`Owners`); the newest state has every layer in one place and what it records as completed is on disk (`Work`). Ownership through the transitions is `Owns`, as in `OneClaimPerLayer`. |

That the newest state exists whenever a plan has a state is part of the invariant
(`HasNewest`): a set of naturals need not have a maximum, the state directory
always does.

**The MTP driver**, `K35DriverProofs`:

| theorem | statement | argument |
|---|---|---|
| `TypeCorrect` | `Spec => []TypeOK` | with what a run holds at each place (`Held`) |
| `QualifiesItsPlan` | `Spec => []QualifiedForPlan` | the chain is qualified under the flock by a run whose plan is compared there |
| `SealsOneClaim` | `Spec => []SealedByOneClaim` | a layer receipt is built by reading every expert receipt back and comparing its claim, however many runs, ids and plans there are |
| `QualifiesWhatIsOnDisk` | `Spec => []QualifiedOnDisk` | under one id, container and plan there is only one claim a run can mint, one expert receipt it can write per expert, one layer receipt (`OnlyClaim`, `OnlyExpert`, `OnlyReceipt`): `PlainInv` says that whatever is on disk, in the chain, or held by a run is that one. Overlapping runs and runs after a kill then overwrite a file only with itself. |

**The materializer**, `K35DriverProofs`:

| theorem | statement | argument |
|---|---|---|
| `PackTypesHold` | `PackSpec => []PackTypeOK` | with where a pack is in the list of files (`Placed`) |
| `CompleteCorrect` | `PackSpec => []CompleteIsExact` | `Prefix`: every shard a running pack has passed holds its plan's tensors, its receipt is of that plan and seals that very file, and every document it has passed is its plan's; a kill forgets the prefix and the next pack establishes it again, from receipts that seal a file of their plan's tensors (`Honest`). With one surface at a time no other pack undoes it: a pack alone has the root to itself, and packs of one surface only ever write the same file again (`Alike`). The final receipt is written when the prefix is everything. |
| `CompleteStays` | `PackSpec => CompleteIsFinal` | `Settled`: beside a complete checkpoint a running pack is of the same plan, and rewrites nothing, or stands before its first shard and will be refused there, since the receipt names another plan. |

`PackInv` has these parts. Both properties hold under `OneSurfaceAtATime` only, as
their formulas say.

**Allocation**, `K35DriverProofs`:

| theorem | statement | argument |
|---|---|---|
| `ScoresTyped` | `DpSpec => []DpTypeOK` | from the invariant below |
| `NoCorruption` | `DpSpec => []NeverCorrupt` | `DpInv == DpTypeOK /\ Reachable /\ Linked /\ Standing`: after `n` tensors a cost `c` has a score iff `c <= n`; a backpointer of a reachable cost is sound and leads to a cost reachable one tensor earlier; the walk always stands on a reachable cost. Hence the exact budget is reachable because `Budget <= N`, and none of the `die` branches can be taken. |
| `AuditPasses` | `DpSpec => []ExactBudget` | with `NoCorruption`'s invariant, and the cardinality of the upgraded set grows by one exactly when the cost falls by one |

**The kernel**, `W4A16MoeProofs`:

| theorem | statement | argument |
|---|---|---|
| `BarrierInvariant` | `BarrierSpec => []BarrierInv` | the count is the number of CTAs that have arrived and not left (`CountExact`); all CTAs are within one rendezvous of each other (`SameLevel`); a spinning CTA saw the sense word as it is now, or has been released (`SeenCurrent`); while one CTA resets and publishes, all others wait (`OthersWait`). Two sense values suffice because no CTA can be two rendezvous behind. |
| `ImplementsBarrier` | `BarrierSpec => ImplementsPhases` | by the invariant: `Add` is the reaching, `Publish` and `Released` the leaving of a rendezvous, the rest are stutters. For any number of CTAs, launches and rendezvous, and whatever sense the previous launch left. |
| `DivisionExact`, `DivisionAgrees`, `DivisionSlots` | `\A g : IsGemm(g) => ExactCover(g)`, `SlicesAgree(g)`, `SlotsPrivate(g)` | the three parts of `ScheduleSound`, for every size. The K tiles of the tail lie end to end, so the CTAs that touch a tile are an interval (`TailCtas`) and a slice number is the distance from its end (`SlicesAre`). In a tail shorter than the grid a slot is a tile; in a longer one every CTA's stretch is at least one tile long, no tile has more than two CTAs, and a shared tile's slot is the number of the higher of the two (`SlotIs`). |
| `KernelInvariant` | `Spec => []IInv` | below |
| `KernelExact` | `Spec => []ResultExact` | a conjunct of `IInv` |
| `KernelClean` | `Spec => []WorkspaceClean` | while no kernel runs, the locks are free and no CTA is counted |
| `KernelPhases` | `Spec => ImplementsPhases` | every step of the kernel is a barrier step or leaves the barrier alone, so `ImplementsBarrier`'s lemmas apply |

None of the kernel's properties is inductive: that a row of the output is right
depends on every write since the launch. `IInv` says, while a kernel runs, what each
word means:

- `Shape`: what a CTA has left are units of its phase's work, and none while it is in
  the barrier. A unit is done (`Done`) when its CTA has passed its phase or, in it,
  has crossed the unit out.
- `LocksAwaited`: a lock that is not at zero has a slice coming to it that has not
  passed the turn on (`Awaited`); `LocksExact`: it is then the number of slices of that
  tile which have (`Published`). So a lock is free when its tile is finished, for the
  next phase, which may use the same word for another tile, and for the next
  launch, whose grid may be another.
- `ScratchExact`: the slice whose turn it is finds in the scratch the sum of the
  slices before it, whatever was there before the first; `StepExact`: the
  accumulator is what the step the CTA is at has made of it.
- `Data`: what the units that are done have left in the intermediates (`RotatedIn`,
  `Fc1Gated`, `Fc1Plain`, `Activated`, `Zeroed`, `Fc2Rows`), and in a fused launch that
  an output cell which has been cleared holds the tiles added to it so far and
  nothing else (`Cleared`). `Fc1Gated` ends with the activation: FC2 overwrites
  `cache13`, and by the barrier no CTA is then still reading FC1's rows.

A step of one CTA keeps what another relies on because their units differ
(`SameTile`, `SameSlot`: distinct pieces write distinct tiles and use distinct slots
unless they share both) or their phases cannot meet. The argument uses no bound
on launches, and the launches of a behaviour may differ in everything. TLC has
evaluated `IInv` on every reachable state of `w4a16_moe`.

**The pipeline of a CTA**, `W4A16TileProofs`:

| theorem | statement | argument |
|---|---|---|
| `NoRaces` | `Spec => []RaceFree` | `Framed /\ Control /\ Headed`, below |
| `TilesExact` | `Spec => []TileExact` | `Framed /\ Control /\ Content`, below |

`RaceFree` speaks of what was touched since the last barrier, so the invariant is
about barriers. `Goal(w)` is the one warp `w` is at or goes to next, by name, piece
and K tile or M block; `Together`: it is the same for all warps, their `Phase`. This
is where the code could go wrong, as a warp decides by its own registers and by
what it reads from shared memory whether it comes to a barrier. `Queue` says which
commit groups a warp has in flight at each place, from the waits it has passed;
`Footprint` bounds by the phase what a warp may have read and written. Two warps in
one phase then have disjoint footprints (`Apart`, `NoRace`): the stage
refilled during a K tile is the one the tile before has left, and the reduction slots,
the staged output and the count of valid rows reuse the ring only once the last
tile of a piece has left it.

`Content` adds what the bytes hold, phase by phase: the route block, its rows and
count (`Headed`, `Counted`), every staged tile landed or in flight (`Ringed`), the
fragment and the accumulators (`Summed`), the slots a fold leaves for the row above
(`Slotted`, `Folded`), the staged output (`LaidOut`) and what is handed over
(`Delivered`). A write keeps what other warps rely on because it meets no cell
they may read, which is `NoRaces`'s argument again, so `Control` comes first. TLC
has evaluated all conjuncts on every reachable state of `w4a16_tile`.

**The MoE workspaces**, `MoePoolProofs`:

| theorem | statement | argument |
|---|---|---|
| `FrozenPoolKept` | `OneActivation => (Spec => FrozenPoolFixed)` | `IInv`, below. A frozen pool holds, under every key, the largest workspace of the counts its arena was sized for (`FrozenOf`), which every count of that key fits (`LargestServes`); so a call either finds its workspace or is refused, and materializing again finds all of them good enough. |
| `LaunchesFit` | `OneActivation /\ MeasuredRegular => (Spec => []LaunchFits)` | What passed the checks of the launch was bound to a workspace with the tensors of its own plan (`BindingOf`); the smaller call's tile is not the larger one (`TileMono`), so its tiles, times its rows, stay inside (`TileCovered`). Of the measured shape, whose tiles do shrink as rows grow, the staging check refuses what would not fit. |
| `PlannedScratchIsEnough` | `OneActivation /\` no measured shape `=> (Spec => []PlannedScratchSuffices)` | The sizes are monotone in the token count: block sizes (`BlockIndexMono`), packed slots (`PackedMono`), route buffers (`RouteMono`), the accumulation scratch over every reachable block size (`SplitKMono`). A preplanned launch has at least the call's tokens and at most the workspace's rows (`LaunchOf`). |
| `BarrierIsClean`, `ScalesAreOfCall` | `Spec => []BarrierClean`, `Spec => []ScalesOfCall` | `SawItsOwn`: the launch wrapper zeroes the words and copies the scales because the workspace rebuilt from a binding is volatile and knows no source. No hypothesis on the layers. |

`IInv` is about the five places a workspace can be: in the pool (`WorkspaceOf`: it is
what `_plan_core_workspace` makes for the shape of its key, with room for every
launch compiled beforehand), in a frozen pool (`FrozenOf`), in a binding held or
captured (`BindingOf`), in the captured graph (which no launch check refuses), and
in the last call (`LastOf`). None of the properties is inductive: that a launch
fits follows from what its binding was built from, possibly long ago and over a
workspace the pool has replaced since, and that needs `WorkspaceOf` of the pool at
that time, through growth (`Grown` takes the larger of each capacity) and
materialization (the largest of the counts that share a key). TLC checked `IInv`
on the instance of `moe_pool`; its last conjunct, which quantifies over all
bindings, by proof only.

The hypotheses say where the code relies on the models it serves. `OneActivation`:
no two layers differ in their activation alone; MCMoePool's layers satisfy it, and
section 9 says what happens otherwise. No measured shape: with it the statement
is false, which is the run `moe_pool_tile`. `MeasuredRegular`: a layer with the
measured shape has a hidden size divisible by 256 and an intermediate size
divisible by 32 (the shape it was measured on has 7168 and 1024), without which
the staging check is skipped.

**Mixed-rate layers**, `Exl3MixedProofs`:

| theorem | statement | argument |
|---|---|---|
| `TypeCorrect` | `Spec => []TypeOK` | by `Inv` below |
| `ServingInvariant` | `Spec => []Inv` | one lemma per branch of loading, per pass, and for the head of a stream |
| `PlanesTheirOwn` | `Spec => []EachPlaneItsOwn` | the slots of the tiers are disjoint stretches (`SlotOf`, `TierFound`), the encoded route of an expert is one of them, and the descriptor row behind it is that of the plane packed for this expert and projection (`ProjectionPlaces`, `ExpertPlaces`, `EmittedIs`); padded rows are never routed to. For any number of experts and bitrates, empty tiers included. |
| `CallsExact` | `Spec => []CallExact` | the arena keys of two owners differ because their tokens do (`TokensApart`, which is where `RolesKnown` is used), so a cell of an arena is only written by its own owner's stream (`StreamsFlow`), slice after slice, each taken before the next is packed; the slices of a call lie end to end and cover its rows (`CallsCut`, `SlicesSliced`), and so do those of a graph at every replay (`GraphsWhole`) and of a capture under way (`CaptureSoFar`). `TakenOwn`: what was taken is the call's own. |
| `NeverRefusedLater` | `Spec => []ProfiledNeverRefused` | what the profile pass has seen is planned (`ArenasPlanned`, `UniformPlanned`), for the largest batch the scheduler may emit, and what is planned serves every smaller one (`RouteSlotsMore`, `BlocksMore`, `ProfileServes`). |

The names in brackets are the parts of `Inv`. Trying to prove the last one showed
that an earlier form of it was too strong: two rank-sliced layers of different
single bitrates may pass the profile pass and be refused by the first eager call or
capture, which `UnseenByProfile` now excepts (section 9) and the model with two rates
in `mixed` exercises.

**The draft cache**, `DFlashDraftProofs`:

| theorem | statement | argument |
|---|---|---|
| `TypeCorrect` | `Spec => []TypeOK` | by `IInv` below |
| `DraftInvariant` | `Spec => []IInv` | one lemma per kernel (`Prepares`, `Shifts`, `Stores`, `Forwards`, `Samples`), early return (`Declines`) and step of the runner (`Admits`, `Releases`, `Targets`) |
| `ReadsItsContext` | `Spec => []DraftReadsItsContext` | `ReadsAt`: entry `j` of a shifted sequence is position `st + j` of the request, where `st` is the number of dropped blocks times the block size. The dropped blocks are the restored ones and the ones outside the window, the length is shortened by the latter once for all groups, and what is left of the row covers the length (`Shifting`, `LengthIs`). `HoldsAt`: the cell of that position holds its context if it was stored, its query row if it was drafted. |
| `KeepsContext` | `Spec => []ContextKept` | the conjunct `Cache` of `IInv`, between two steps |
| `ProposesOwn` | `Spec => []ProposalsAreOwn` | `Proposals` of `IInv`; `SamplesAt` and `ScattersAt` say which sampling row returns which draft, and that a padding row is nobody's |
| `AttentionIsPlanned` | `Spec => []AttentionPlanned` | a row's length is at most its end plus the query block, and with a window at most the window and the rest of its first block |

`IInv` follows a step through the kernels. `Batch`: the rows are live requests, each
once, and their tokens lie end to end, so that every context row belongs to exactly
one of them (`TokenOf`, `RowAt`). `Tables`, `Buffers`: for the groups the loop has
passed (`Prepared`, `Shifted`) the tables, lengths, slots, positions and sampling rows
are what the batch says they should be, padding included; of the others nothing is
said, which is why a kernel that ran early would read stale rows. `Cache`: the cell of
each position of a live request that fits its block table holds its context, its
query row or junk, according to how far the step has got (`Holds`), unless the block
was evicted; the null block and the blocks of free slots hold junk. So a row is
written to a cell only by the position that owns it (`CellOf`), and a request
that comes to a slot finds nothing of the one before. None of the four properties
is inductive: what attention finds depends on each `Store` since the request was
admitted.

A request near `max_model_len` may draft past its table; its rows then meet in its
last block. `Cache` says nothing of such a request, and that it spoils nobody else's
cells. TLC has evaluated `IInv` on every reachable state of `dflash`.

## 8. What is only model-checked

- Liveness under fairness, all of it: `EveryLayerCompletes`, `RecoveryUnwedges`,
  `MtpQualifies`, `PackStopsForCause`, `KernelCompletes`. It is outside what the prover
  handles.
- `SelectionOptimal`: a sum over a set of any size is an induction over data, which
  the installed provers cannot carry out. The same is true of `TilesBound` and
  `SlotsBound`, which TLC evaluates for small values.
- That no spread of rows over experts needs more tiles than `PhysicalTiles` plans
  (`TilesBound`) is the one part of "what is launched fits" outside `LaunchFits`, and
  for the same reason: it sums over the experts.

## 9. Where code and documentation differ

Kept as runs, with their counterexamples:

- `mtp_adapter`: `k35_mtp45_encode.py:21` says the adapter asserts exactly what was
  verified; at `:178` a layer receipt on disk is adopted on its `complete` flag,
  so that the receipt of an older plan or codec may be sealed into the adapter.
- `moe_pool_tile`: the docstring at `fused_moe/_impl.py:1635-1638` says that scratch
  plan and kernel build select the same tile. They call one function, but with
  different row counts, and its ladder (`:1664`) is not monotone: 16 rows for 512
  tokens, 32 for 288. Scratch planned for 512 tokens is refused at 288. `moe_pool`
  uses shapes without a measured tile and has no such refusal.

Met while modelling, without a run of their own; building:

- A worker prints "ready for phase 8" while another still encodes
  (`k35_worker.py:858-864`): pending is empty, active is not looked at.
- A second re-plan overwrites the files of the first in `state/history`
  (`README-K35-DRIVERS.md:93`).
- `README-K35-DRIVERS.md:121-124` says a worker alive across a re-plan never appends
  old-plan successors. It compares the plan under the flock, but 5b does not take
  the flock: a plan replaced between the comparison and the write gets an
  old-plan state into the directory. `AppendOnly` and `ChainLinked` show why this is
  harmless: `newest_state` ignores it, and no state of the new plan is overwritten.
- A worker whose layer is sealed dies, instead of leaving cleanly, when the plan was
  replaced meanwhile (`k35_worker.py:900`).
- 6b run before 6 binds the readiness receipt of another plan
  (`k35_phase6b_enter.py:7`); the runbook's order rules it out, and `InOrder` is that order.
- The pack does not bind layer 45's receipt to the readiness (`k35_surface.py:216`).
- A temporary file left by a kill stops every later pack
  (`glm53_mcg_materializer.py:432`, `:902-904`); `PackStopsForCause` is the statement
  that holds.
- Where packs of two surfaces overlap, the earlier may replace a shard after the
  later has sealed its receipt and be killed; every further run of the later plan
  then stops with "resumable shard receipt differs" (`:491`), native shards included,
  because the file names its plan. This is the cause `Stale`.

Serving:

- `exl3-mixed.py:3960-3964` promises `None` for layouts outside the kernel's contract,
  but a tier of more than 256 experts raises in `mixed_trellis.py:2441`, after the
  source tensors were consumed.
- The uniform runtime's key omits the bitrate (`exl3-mixed.py:4659-4680`), while
  `bind` refuses a plan of another (`_impl.py:949`): two layers of different single
  rates in one model are refused, in the profile pass, or, if that pass is too large
  for the Trellis path and runs both on the parity path
  (`exl3-mixed.py:4851-4951`), by the first eager call or capture that is not.
- `speculator.py:689-696` returns for the whole batch when one request's prefix is
  unaligned, against the module docstring `:5-9`: the context of the other requests'
  tokens of that step is never written, and later drafts read the hole (`missed`).
- Near `max_model_len` the query position is clamped but the slot is computed from
  the unclamped position in a clamped block (`:1005-1020`), so that the draft block
  wraps onto the request's own context. The properties are stated for drafts that
  fit.
- `sample_col` is laid out for the full depth (`:150-154`) and would be wrong for a
  smaller depth of the step; only a subclass outside the repository varies it.
- `_impl.py:2046-2055` sizes the shared arena for a boundary of `cutover // topk`
  tokens as if that were the last micro call, while `:2226` asks for fewer rows than
  the cutover: where `topk` divides it, the last micro call is one token smaller.
- Scratch planned for a large nvfp4 batch is refused to a micro-sized call, and the
  TC-decode path is planned for every call of up to 8 tokens although
  `kernel.py:12080-12108` refuses some of them.
- `_impl.py:2470-2476` zeroes the barrier words of the full-rotation workspace
  when it is bound from caller scratch; the workspace the pool allocates on that
  path (`:2889`) is never zeroed.
- `_workspace_pool_key` (`_impl.py:6084`) keeps the activation only for `w4a16`. A gated
  and an ungated `nvfp4` layer of the same sizes would share a workspace, though
  its rows are counted in the tile of one of them (16 to 128 rows gated, always
  128 ungated). With such a pair in the instance TLC violates `LaunchFits` (an
  ungated call of 8 tokens indexes tiles of 128 rows in a workspace of 352) and
  `FrozenPoolFixed` (materializing for the second layer replaces the first one's).
  No model the repository serves has such a pair; `OneActivation` states it.
- A pool that is not frozen may replace a workspace after a capture and free
  memory the graph uses; freezing first (`_impl.py:6344`) is the caller's duty, and
  `FrozenPoolFixed` what it buys.
- `kernel.py:5871-5890`: the lookup table is added to shared memory after
  `blocks_per_sm` was computed; the cooperative launch then fails rather than hangs.
- `kernel.py:9120-9145`: the wide FC1 override of TC-decode lacks the guard on
  `moe_block_size == 8` its counterpart has, and ends in a `ValueError`.

## 10. Not modelled

- Numerics: codec, Hessians, capture, probe losses, rotary, dequantization. They
  have no state the rest of the system depends on except through files, hashes and
  sums.
- Contents of the preflight, baseline and inventory; argument parsing; wording.
- Torn files, loss of unsynced writes in a power failure (a crash here is that
  of a process), hash collisions.
- The layer's row-by-row verification in `k35_surface.py`.
- Phase 6 builds: planned (section 3), with their hazard listed.
- Kernels: weak memory (the fences are taken at their word), preemption of a
  cooperative grid, one workspace used from two streams at once, the small-M direct
  kernel, which keeps words of its own at the end of the same workspace
  (`kernel.py:11985`), the inner loop of the TC-decode kernel, generated PTX, tuning.
- Front end: weight preparation, the kernels of the nvfp4 families, padding between
  tensors, an SM121 device.
- `exl3-mixed.py`: linear layers, expert parallelism, the parity chunks as separate
  launches, the loading ballast; data types and environment knobs are fixed for a
  process. Captures take place between the profile pass and the first serving call.
- Speculator: dummy and profile runs, capture itself, token values, seeds and
  temperature, a depth that varies; model definition, weight loading, and mask
  embedding; blocks shared between requests by prefix caching.
- Inventory tools, serving scripts, benchmarks, charts: one-shot, no protocol of
  their own.
- What a checkpoint contains after two packs of two different surfaces at once
  (`OneSurfaceAtATime` in section 4); what can stop such packs is checked.
