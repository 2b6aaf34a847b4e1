------------------------------ MODULE W4A16Moe ------------------------------
(***************************************************************************)
(* The fused W4A16 mixture-of-experts kernel (W4A16FusedMoeKernel), launch *)
(* after launch on one stream and one workspace: a persistent grid of CTAs *)
(* runs the phases of _moe_body with a grid barrier between them, and in a *)
(* GEMM phase the CTAs that share an mn-tile take turns to add their K     *)
(* slices through a lock word and a scratch slot (_finish_tile).           *)
(*                                                                         *)
(* A launch l is a record                                                  *)
(*   [routes, topk, dead, direct, splitK, whole, m8, gated, rotate,        *)
(*    coupled, fused, n1, k1, n2, k2]                                      *)
(* : its route blocks (one route each), the blocks whose expert is not     *)
(* local, the options the kernel was compiled with, and the N and K tiles  *)
(* of its two GEMMs.  FC1 of a gated launch has k2 gate and k2 up tiles,   *)
(* one half after the other, or interleaved when the launch is coupled.    *)
(*                                                                         *)
(* What a CTA has to do is a function from indexes to units of work, which *)
(* it takes in the order of their indexes.                                 *)
(* A sum is the set of its terms <<launch number, GEMM, mn-tile, K tile>>; *)
(* a value that is not the sum of distinct terms of one tile is Junk.      *)
(***************************************************************************)
EXTENDS GridBarrier, W4A16Schedule, Sequences, FiniteSetsExt

CONSTANTS Launches,      \* the launches the host may ask for
          Cap,           \* CTAs resident together (sms * blocks_per_sm)
          MaxLaunches    \* bound on the launches of a behaviour

ASSUME CapAssumption == Cap \in Nat \ {0} /\ 0 .. Cap - 1 \subseteq CtaIds
ASSUME MaxLaunchesAssumption == MaxLaunches \in Nat

\* A gated launch has a gate and an up tile for each K tile of its FC2.
ASSUME LaunchesAssumption ==
    \A l \in Launches :
        /\ {l.routes, l.topk, l.n1, l.k1, l.n2, l.k2} \subseteq Nat \ {0}
        /\ l.dead \subseteq 0 .. l.routes - 1
        /\ {l.direct, l.splitK, l.whole, l.m8, l.gated, l.rotate, l.coupled, l.fused} \subseteq BOOLEAN
        /\ l.n1 = IF l.gated THEN 2 * l.k2 ELSE l.k2

VARIABLES launch,    \* the launch in progress
          number,    \* how many launches there have been
          stage,     \* "idle", "kernel" or "sum": what runs on the stream
          started,   \* CTAs the hardware has made resident so far
          todo,      \* what a CTA still has to do in its phase
          step,      \* where it is in the tile at the head of todo
          acc,       \* its accumulator
          locks,     \* workspace[0 .. sms * 4 - 1]
          ctmp,      \* the split-K scratch of each GEMM
          rotA,      \* rotation_a_gate / _up by route block
          cache13,   \* fc1_out and, in the same memory, fc2_out
          cache2,    \* activated
          output

gpuVars == <<started, todo, step, acc, locks, ctmp, rotA, cache13, cache2, output>>
vars == <<barrierVars, launch, number, stage, gpuVars>>

Grid(l) == PersistentGrid(Cap, l.direct, l.splitK, l.whole, l.routes * l.n1, l.routes * l.n2)

Gemm(l, ph) ==
    [grid |-> Grid(l), blocks |-> l.routes, whole |-> l.whole, m8 |-> l.m8 /\ ~ l.splitK,
     nTiles |-> IF ph = "fc1" THEN l.n1 ELSE l.n2,
     kTiles |-> IF ph = "fc1" THEN l.k1 ELSE l.k2]

\* run_w4a16_moe asks for zeroed FC2 rows when packed routes may have no
\* local expert.
ZeroFc2(l) == l.dead # {} /\ ~ l.direct /\ ~ l.rotate

\* The phases of _moe_body; a grid barrier stands between two of them.
PhasesOf(l) == (IF l.rotate THEN <<"rotate">> ELSE <<>>) \o <<"fc1">>
               \o (IF l.gated THEN <<"act">> ELSE <<>>)
               \o (IF ZeroFc2(l) THEN <<"zero">> ELSE <<>>) \o <<"fc2">>

Phase(c) == PhasesOf(launch)[passed[c] + 1]

Cells == UNION {UNION {0 .. l.routes * n - 1 : n \in {l.n1, l.n2, l.k2}} : l \in Launches}

\* A grid-strided loop: CTA c takes every grid-th of n units of work.
Turns(l, c, n) == (n + Grid(l) - 1 - c) \div Grid(l)
UnitOf(l, c, i, op) == [op |-> op, cell |-> c + (i - 1) * Grid(l)]
Strided(l, c, n, op) == [i \in 1 .. Turns(l, c, n) |-> UnitOf(l, c, i, op)]

\* The pieces of the route blocks with a local expert.
Tiles(l, ph, c) ==
    LET all == Pieces(Gemm(l, ph), c)
        live == {i \in DOMAIN all : all[i].tile \div Gemm(l, ph).nTiles \notin l.dead}
    IN [i \in live |-> [op |-> "tile", piece |-> all[i]]]

\* _run_input_rotation and its coupled form: a CTA's routes with a local expert.
RotateUnits(l, c) ==
    LET all == Strided(l, c, l.routes, "rotate")
    IN Restrict(all, {i \in DOMAIN all : all[i].cell \notin l.dead})

\* The activation of a rotated launch passes over the other routes, the plain
\* one computes their rows too.
ActivateUnits(l, c) ==
    LET all == Strided(l, c, l.routes * l.k2, "act")
    IN Restrict(all, {i \in DOMAIN all : l.rotate => all[i].cell \div l.k2 \notin l.dead})

\* A launch with the fused sum clears the output first, before FC1.
ClearTurns(l, c) == IF l.fused THEN Turns(l, c, (l.routes \div l.topk) * l.n2) ELSE 0

Fc1Units(l, c) ==
    LET tiles == Tiles(l, "fc1", c)
    IN [i \in 1 .. ClearTurns(l, c) \cup {ClearTurns(l, c) + j : j \in DOMAIN tiles} |->
           IF i <= ClearTurns(l, c) THEN UnitOf(l, c, i, "clear") ELSE tiles[i - ClearTurns(l, c)]]

\* The FC1 tiles the gate and the up value of unit u are read from.
Fc1Sources(l, u) ==
    LET r == u \div l.k2
        b == u % l.k2
    IN {r * l.n1 + t : t \in IF l.coupled THEN {2 * b, 2 * b + 1} ELSE {b, b + l.k2}}

\* What CTA c does in a phase.
Work(l, ph, c) ==
    CASE ph = "rotate" -> RotateUnits(l, c)
      [] ph = "fc1"    -> Fc1Units(l, c)
      [] ph = "act"    -> ActivateUnits(l, c)
      [] ph = "zero"   -> Strided(l, c, l.routes * l.n2, "zero")
      [] ph = "fc2"    -> Tiles(l, "fc2", c)

\* No launch has the number 0.
Junk == {<<0, "fc1", 0, 0>>}

Add2(a, b) == IF Junk \in {a, b} \/ a \cap b # {} THEN Junk ELSE a \cup b

Whole(l, ph, t) == {<<number, ph, t, k>> : k \in 0 .. Gemm(l, ph).kTiles - 1}

Init == /\ BarrierInit
        /\ launch \in Launches
        /\ number = 0
        /\ stage = "idle"
        /\ started = {}
        /\ todo = <<>>
        /\ step = <<>>
        /\ acc = <<>>
        /\ locks = [s \in 0 .. Cap - 1 |-> 0]
        /\ ctmp = [g \in {"fc1", "fc2"} |-> [s \in 0 .. Cap - 1 |-> Junk]]
        /\ rotA = [r \in Cells |-> 0]
        /\ cache13 = [c \in Cells |-> Junk]
        /\ cache2 = [c \in Cells |-> 0]
        /\ output = [c \in Cells |-> Junk]

\* run_w4a16_moe puts the next launch on the stream.
Launch(l) == /\ stage = "idle"
             /\ number < MaxLaunches
             /\ LET S == 0 .. Grid(l) - 1
                IN /\ BarrierLaunch(S, Len(PhasesOf(l)) - 1)
                   /\ todo' = [c \in S |-> Work(l, PhasesOf(l)[1], c)]
                   /\ step' = [c \in S |-> "next"]
                   /\ acc' = [c \in S |-> {}]
             /\ launch' = l
             /\ number' = number + 1
             /\ stage' = "kernel"
             /\ started' = {}
             /\ UNCHANGED <<locks, ctmp, rotA, cache13, cache2, output>>

Exited(c) == at[c] = "run" /\ passed[c] = rounds /\ DOMAIN todo[c] = {}

\* The hardware gives a CTA a place on an SM; it keeps it until it exits.
Dispatch(c) == /\ c \in members \ started
               /\ Cardinality({d \in started : ~ Exited(d)}) < Cap
               /\ started' = started \cup {c}
               /\ UNCHANGED <<barrierVars, launch, number, stage, todo, step, acc,
                              locks, ctmp, rotA, cache13, cache2, output>>

Busy(c, where) == c \in started /\ at[c] = "run" /\ DOMAIN todo[c] # {} /\ step[c] = where
Index(c) == Min(DOMAIN todo[c])
Task(c) == todo[c][Index(c)]
TaskDone(c) == todo' = [todo EXCEPT ![c] = Restrict(@, DOMAIN @ \ {Index(c)})]

Unit(c, op) == Busy(c, "next") /\ Task(c).op = op

\* One route's input, rotated for its expert.
Rotate(c) == /\ Unit(c, "rotate")
             /\ rotA' = [rotA EXCEPT ![Task(c).cell] = number]
             /\ TaskDone(c)
             /\ UNCHANGED <<barrierVars, launch, number, stage, started, step, acc,
                            locks, ctmp, cache13, cache2, output>>

\* The fused sum adds into the output: the prologue clears it.
Clear(c) == /\ Unit(c, "clear")
            /\ output' = [output EXCEPT ![Task(c).cell] = {}]
            /\ TaskDone(c)
            /\ UNCHANGED <<barrierVars, launch, number, stage, started, step, acc,
                           locks, ctmp, rotA, cache13, cache2>>

Activate(c) == /\ Unit(c, "act")
               /\ LET u == Task(c).cell
                      good == \A t \in Fc1Sources(launch, u) : cache13[t] = Whole(launch, "fc1", t)
                  IN cache2' = [cache2 EXCEPT ![u] = IF good THEN number ELSE 0]
               /\ TaskDone(c)
               /\ UNCHANGED <<barrierVars, launch, number, stage, started, step, acc,
                              locks, ctmp, rotA, cache13, output>>

\* _zero_fc2_output: the rows a route without a local expert leaves unwritten.
Zero(c) == /\ Unit(c, "zero")
           /\ cache13' = [cache13 EXCEPT ![Task(c).cell] = {}]
           /\ TaskDone(c)
           /\ UNCHANGED <<barrierVars, launch, number, stage, started, step, acc,
                          locks, ctmp, rotA, cache2, output>>

\* _run_tile: the CTA multiplies the K tiles of its piece.
Multiply(c) ==
    /\ Busy(c, "next")
    /\ Task(c).op = "tile"
    /\ LET p == Task(c).piece
           r == p.tile \div Gemm(launch, Phase(c)).nTiles
           ready(k) == IF Phase(c) = "fc1" THEN launch.rotate => rotA[r] = number
                                           ELSE cache2[r * launch.k2 + k] = number
           ks == p.k .. p.k + p.cnt - 1
       IN /\ acc' = [acc EXCEPT ![c] =
                        IF \A k \in ks : ready(k)
                        THEN {<<number, Phase(c), p.tile, k>> : k \in ks} ELSE Junk]
          /\ step' = [step EXCEPT ![c] = IF p.slices > 1 THEN "turn" ELSE "store"]
    /\ UNCHANGED <<barrierVars, launch, number, stage, started, todo,
                   locks, ctmp, rotA, cache13, cache2, output>>

\* _wait_for_reduction_turn
Turn(c) == /\ Busy(c, "turn")
           /\ locks[Task(c).piece.slot] = Task(c).piece.slice
           /\ step' = [step EXCEPT ![c] = "merge"]
           /\ UNCHANGED <<barrierVars, launch, number, stage, started, todo, acc,
                          locks, ctmp, rotA, cache13, cache2, output>>

LastSlice(p) == p.slice = p.slices - 1

\* The first slice too adds what the scratch holds.
MergeAlwaysAdds(c) ==
    /\ Busy(c, "merge")
    /\ LET p == Task(c).piece
           sum == Add2(acc[c], ctmp[Phase(c)][p.slot])
       IN /\ acc' = [acc EXCEPT ![c] = sum]
          /\ ctmp' = IF LastSlice(p) THEN ctmp
                     ELSE [ctmp EXCEPT ![Phase(c)][p.slot] = sum]
    /\ step' = [step EXCEPT ![c] = "publish"]
    /\ UNCHANGED <<barrierVars, launch, number, stage, started, todo,
                   locks, rotA, cache13, cache2, output>>

\* _merge_splitk_vec4: all slices but the first add what the scratch holds,
\* all but the last leave the sum there.
MergeSlice(c) ==
    /\ Busy(c, "merge")
    /\ LET p == Task(c).piece
           sum == IF p.slice = 0 THEN acc[c] ELSE Add2(acc[c], ctmp[Phase(c)][p.slot])
       IN /\ acc' = [acc EXCEPT ![c] = sum]
          /\ ctmp' = IF LastSlice(p) THEN ctmp
                     ELSE [ctmp EXCEPT ![Phase(c)][p.slot] = sum]
    /\ step' = [step EXCEPT ![c] = "publish"]
    /\ UNCHANGED <<barrierVars, launch, number, stage, started, todo,
                   locks, rotA, cache13, cache2, output>>

\* The last slice leaves the lock as it is.
PublishWithoutReset(c) ==
    /\ Busy(c, "publish")
    /\ LET p == Task(c).piece
       IN /\ locks' = [locks EXCEPT ![p.slot] = @ + 1]
          /\ IF LastSlice(p)
             THEN step' = [step EXCEPT ![c] = "store"] /\ UNCHANGED todo
             ELSE step' = [step EXCEPT ![c] = "next"] /\ TaskDone(c)
    /\ UNCHANGED <<barrierVars, launch, number, stage, started, acc,
                   ctmp, rotA, cache13, cache2, output>>

\* _publish_reduction_turn: the last slice resets the lock for the next user.
PublishTurn(c) ==
    /\ Busy(c, "publish")
    /\ LET p == Task(c).piece
       IN /\ locks' = [locks EXCEPT ![p.slot] = IF LastSlice(p) THEN 0 ELSE @ + 1]
          /\ IF LastSlice(p)
             THEN step' = [step EXCEPT ![c] = "store"] /\ UNCHANGED todo
             ELSE step' = [step EXCEPT ![c] = "next"] /\ TaskDone(c)
    /\ UNCHANGED <<barrierVars, launch, number, stage, started, acc,
                   ctmp, rotA, cache13, cache2, output>>

\* _store_tile_*: FC1 writes its rows, or without a gate the activated rows;
\* FC2 writes the route's row or adds to the token's.
Store(c) ==
    /\ Busy(c, "store")
    /\ LET p == Task(c).piece
           n2 == launch.n2
           token == (p.tile \div n2) \div launch.topk
           sum == token * n2 + (p.tile % n2)
           fc1 == Phase(c) = "fc1"
       IN /\ cache13' = IF (fc1 /\ launch.gated) \/ (~ fc1 /\ ~ launch.fused)
                        THEN [cache13 EXCEPT ![p.tile] = acc[c]] ELSE cache13
          /\ cache2' = IF fc1 /\ ~ launch.gated
                       THEN [cache2 EXCEPT ![p.tile] =
                                IF acc[c] = Whole(launch, "fc1", p.tile) THEN number ELSE 0]
                       ELSE cache2
          /\ output' = IF ~ fc1 /\ launch.fused
                       THEN [output EXCEPT ![sum] = Add2(@, acc[c])] ELSE output
    /\ step' = [step EXCEPT ![c] = "next"]
    /\ TaskDone(c)
    /\ UNCHANGED <<barrierVars, launch, number, stage, started, acc, locks, ctmp, rotA>>

\* Between two phases the CTA goes through the grid barrier.
Barrier(c) ==
    /\ c \in started
    /\ DOMAIN todo[c] = {}
    /\ BarrierStep(c)
    /\ todo' = IF passed'[c] = passed[c] THEN todo
               ELSE [todo EXCEPT ![c] = Work(launch, PhasesOf(launch)[passed'[c] + 1], c)]
    /\ UNCHANGED <<launch, number, stage, started, step, acc,
                   locks, ctmp, rotA, cache13, cache2, output>>

\* All CTAs have exited; without the fused sum the top-k sum kernel is next.
KernelEnds ==
    /\ stage = "kernel"
    /\ \A c \in members : c \in started /\ DOMAIN todo[c] = {}
    /\ BarrierFinish
    /\ stage' = IF launch.fused THEN "idle" ELSE "sum"
    /\ started' = {}
    /\ todo' = <<>>
    /\ step' = <<>>
    /\ acc' = <<>>
    /\ UNCHANGED <<launch, number, locks, ctmp, rotA, cache13, cache2, output>>

\* W4A16TopKSumKernel: a token's row is the sum of its routes' rows; a route
\* without a local expert is skipped, or its row holds the zeros of "zero".
RoutesOf(token) == {r \in 0 .. launch.routes - 1 : r \div launch.topk = token}

SumRows(rs, n) ==
    LET row(r) == cache13[r * launch.n2 + n]
    IN IF \/ \E r \in rs : row(r) = Junk
          \/ \E r, q \in rs : r # q /\ row(r) \cap row(q) # {}
       THEN Junk ELSE UNION {row(r) : r \in rs}

TopKSum ==
    /\ stage = "sum"
    /\ LET summed(token) == IF ZeroFc2(launch) THEN RoutesOf(token)
                                               ELSE RoutesOf(token) \ launch.dead
           rows == 0 .. (launch.routes \div launch.topk) * launch.n2 - 1
       IN output' = [c \in Cells |-> IF c \in rows
                        THEN SumRows(summed(c \div launch.n2), c % launch.n2) ELSE output[c]]
    /\ stage' = "idle"
    /\ UNCHANGED <<barrierVars, launch, number, started, todo, step, acc,
                   locks, ctmp, rotA, cache13, cache2>>

\* A thread that spins at a lock or at the barrier reads the word once more.
Poll(c) == /\ c \in started
           /\ \/ Busy(c, "turn") /\ locks[Task(c).piece.slot] # Task(c).piece.slice
              \/ at[c] = "spin" /\ sense = seen[c]
           /\ UNCHANGED vars

CtaStep(c) == \/ Dispatch(c)
              \/ Rotate(c) \/ Clear(c) \/ Activate(c) \/ Zero(c)
              \/ Multiply(c) \/ Turn(c) \/ MergeSlice(c) \/ PublishTurn(c) \/ Store(c)
              \/ Barrier(c)
              \/ Poll(c)

\* The host has made its last call.
Finished == stage = "idle" /\ number = MaxLaunches /\ UNCHANGED vars

Next == \/ \E l \in Launches : Launch(l)
        \/ \E c \in CtaIds : CtaStep(c)
        \/ KernelEnds
        \/ TopKSum
        \/ Finished

\* A CTA that can advance is not held back for ever, and the stream advances.
Fairness == /\ \A c \in CtaIds : WF_vars(CtaStep(c))
            /\ WF_vars(KernelEnds)
            /\ WF_vars(TopKSum)

Spec == Init /\ [][Next]_vars /\ Fairness

-----------------------------------------------------------------------------
TypeOK ==
    /\ launch \in Launches
    /\ number \in 0 .. MaxLaunches
    /\ stage \in {"idle", "kernel", "sum"}
    /\ started \subseteq members
    /\ stage = "kernel" <=> members # {}
    /\ locks \in [0 .. Cap - 1 -> 0 .. Cap - 1]
    /\ \A c \in members : /\ at[c] \in Places
                          /\ step[c] \in {"next", "turn", "merge", "publish", "store"}
                          /\ step[c] # "next" => DOMAIN todo[c] # {} /\ at[c] = "run"
    /\ count \in 0 .. Cardinality(members)
    /\ sense \in 0 .. SenseWidth - 1

\* When a call has returned, every row of its output is the sum, over the
\* token's routes with a local expert, of exactly one product per K tile of
\* FC2, each computed from finished activations of this call.  This is what
\* the barriers, the turns and the reuse of cache13, of the split-K scratch
\* and of the workspace by the next phase and the next call must not break.
ResultExact ==
    stage = "idle" /\ number > 0 =>
        \A token \in 0 .. (launch.routes \div launch.topk) - 1, n \in 0 .. launch.n2 - 1 :
            output[token * launch.n2 + n] =
                UNION {Whole(launch, "fc2", r * launch.n2 + n) : r \in RoutesOf(token) \ launch.dead}

\* The workspace a launch leaves to the next one: every lock and the arrival
\* counter are back at zero although launches differ in grid and in tiles.
WorkspaceClean ==
    stage # "kernel" => count = 0 /\ \A s \in DOMAIN locks : locks[s] = 0

\* No CTA waits for ever at a lock or at the barrier: each launch ends.
KernelCompletes == stage = "kernel" ~> stage # "kernel"
=============================================================================
