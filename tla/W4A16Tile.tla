------------------------------ MODULE W4A16Tile ------------------------------
(***************************************************************************)
(* One CTA of the W4A16 GEMM (W4A16GemmKernel._run_tile) at the level of   *)
(* its warps: what W4A16Moe takes as one step, the sum of a piece's K      *)
(* tiles.  The warps stage K tiles into a ring in shared memory with       *)
(* asynchronous copies, multiply them out of registers loaded one fragment *)
(* ahead, fold the partial sums of the warp rows, and store the tile.      *)
(*                                                                         *)
(* A shape [rows, cols, mBlocks] gives the warps: rows = tile_k / 32 share *)
(* the K blocks of a tile, two each (b_sh_wr_iters), and cols = tile_n / 64*)
(* its columns; rows is 1, 2 or 4.  A piece [kind, first, tiles, merge,    *)
(* store] is what the persistent loop hands to _run_tile: its K tiles,     *)
(* whether it takes turns with other CTAs, and whether it stores the tile. *)
(*                                                                         *)
(* A sum is a set of terms <<piece, K tile, K block, M block>>.  The B     *)
(* operand is laid out as for packed weights.  Landing of the copies of a  *)
(* commit group is one step; groups land in any order.                     *)
(***************************************************************************)
EXTENDS Integers, Sequences, FiniteSets, FiniteSetsExt

CONSTANT Cases      \* pairs of a tile shape and the pieces a CTA is given

PieceType == [kind : {"direct", "packed"}, first : Nat, tiles : Nat \ {0},
              merge : BOOLEAN, store : BOOLEAN]

\* A piece that takes no turns is stored: it is a whole tile.
ASSUME TileAssumption ==
    \A c \in Cases :
       /\ c[1].rows \in {1, 2, 4} /\ {c[1].cols, c[1].mBlocks} \subseteq Nat \ {0}
       /\ c[2] \in Seq(PieceType) /\ c[2] # <<>>
       /\ \A p \in DOMAIN c[2] : c[2][p].merge \/ c[2][p].store

Stages == 4
Iters == 2          \* b_sh_wr_iters is 2 for every tile configuration

VARIABLES shape, work,
          smem,      \* the shared memory, by cell
          pc,        \* where each warp is
          waits,     \* the warps at __syncthreads
          piece,     \* the piece each warp works on, by index
          tile,      \* tile_idx
          mb,        \* the M block being folded
          frag,      \* the terms of the fragment registers, current
          acc,       \* the accumulators, by M block
          valid,     \* block_valid_rows, by the block it was counted for
          inflight,  \* the commit groups of each warp, oldest first
          reads,     \* the cells each warp read since the last barrier
          writes,    \* and those it wrote or had a copy write
          results    \* what was handed to the split-K merge or stored

vars == <<shape, work, smem, pc, waits, piece, tile, mb, frag, acc, valid, inflight,
          reads, writes, results>>

Warps == (0 .. shape.rows - 1) \X (0 .. shape.cols - 1)
FirstWarp == <<0, 0>>
LastWarp == <<shape.rows - 1, shape.cols - 1>>
KBlocks == Iters * shape.rows
Piece(w) == work[piece[w]]

-----------------------------------------------------------------------------
(* Shared memory.  The weight ring, the reduction slots, the staged output *)
(* and the count of valid rows start at the same offset.  Their overlap is *)
(* counted in units of one K block of weights, column by column.           *)

RingCells == {<<"b", p, k, c>> : p \in 0 .. Stages - 1, k \in 0 .. KBlocks - 1,
                                 c \in 0 .. shape.cols - 1}
InputCells == {<<"a", p, w>> : p \in 0 .. Stages - 1, w \in Warps}
SlotCells == {<<"red", s, c>> : s \in 0 .. (shape.rows \div 2) - 1, c \in 0 .. shape.cols - 1}
OutCells == {<<"out", c>> : c \in 0 .. shape.cols - 1}
Cells == RingCells \cup InputCells \cup SlotCells \cup OutCells
         \cup {<<"valid">>, <<"route">>, <<"rows">>}

Units(x) == CASE x[1] = "b"     -> {KBlocks * x[2] + x[3]}
              [] x[1] = "red"   -> 8 * x[2] .. 8 * x[2] + 7
              [] x[1] = "out"   -> 0 .. 4 * shape.mBlocks
              [] x[1] = "valid" -> {0}
              [] OTHER          -> {}

Columns(x) == CASE x[1] = "b" -> {x[4]} [] x[1] = "red" -> {x[3]}
                [] x[1] = "valid" -> {0} [] OTHER -> 0 .. shape.cols - 1

Overlap(x, y) == IF x[1] = y[1] THEN x = y
                 ELSE Units(x) \cap Units(y) # {} /\ Columns(x) \cap Columns(y) # {}

NoTerm == <<-1, -1, -1, -1>>
Stale(x) == CASE x[1] \in {"a", "b"} -> <<-1, -1>>
              [] x[1] = "red"        -> {NoTerm}
              [] x[1] = "out"        -> [m \in 1 .. shape.mBlocks |-> {NoTerm}]
              [] OTHER               -> -1

\* What is written to a cell destroys what overlaps it.
Stored(pairs) ==
    [x \in Cells |->
        IF \E q \in pairs : q[1] = x THEN (CHOOSE q \in pairs : q[1] = x)[2]
        ELSE IF \E q \in pairs : Overlap(x, q[1]) THEN Stale(x) ELSE smem[x]]

NoteReads(w, cells) == reads' = [reads EXCEPT ![w] = @ \cup cells]
NoteWrites(w, cells) == writes' = [writes EXCEPT ![w] = @ \cup cells]

Init ==
    /\ \E c \in Cases : shape = c[1] /\ work = c[2]
    /\ smem = [x \in Cells |-> Stale(x)]
    /\ pc = [w \in Warps |-> "routes"]
    /\ waits = {}
    /\ piece = [w \in Warps |-> 1]
    /\ tile = [w \in Warps |-> 0]
    /\ mb = [w \in Warps |-> 1]
    /\ frag = [w \in Warps |-> NoTerm]
    /\ acc = [w \in Warps |-> [m \in 1 .. shape.mBlocks |-> {}]]
    /\ valid = [w \in Warps |-> -1]
    /\ inflight = [w \in Warps |-> <<>>]
    /\ reads = [w \in Warps |-> {}]
    /\ writes = [w \in Warps |-> {}]
    /\ results = {}

-----------------------------------------------------------------------------
(* Barriers and asynchronous copies.                                       *)

At(w, where) == w \in Warps \ waits /\ pc[w] = where

\* Goes on at once, or at the next barrier.
Goto(w, where) == pc' = [pc EXCEPT ![w] = where] /\ UNCHANGED waits
Arrive(w, where) == pc' = [pc EXCEPT ![w] = where] /\ waits' = waits \cup {w}

\* bar.sync does not ask where a warp arrived from.
Sync == /\ waits = Warps
        /\ waits' = {}
        /\ reads' = [w \in Warps |-> {}]
        /\ writes' = [w \in Warps |-> {}]
        /\ UNCHANGED <<shape, work, smem, pc, piece, tile, mb, frag, acc, valid, inflight, results>>

\* cp_async_wait_group(n): all but the n youngest groups have landed.
Waited(w, n) == Len(inflight[w]) <= n

\* Groups that have landed at the old end of the queue are forgotten.
Trim(groups) ==
    LET kept == {i \in DOMAIN groups : \E j \in 1 .. i : groups[j] # {}}
    IN IF kept = {} THEN <<>> ELSE SubSeq(groups, Min(kept), Len(groups))

Land(w) ==
    /\ w \in Warps
    /\ \E i \in DOMAIN inflight[w] :
          /\ inflight[w][i] # {}
          /\ smem' = Stored(inflight[w][i])
          /\ inflight' = [inflight EXCEPT ![w] = Trim([@ EXCEPT ![i] = {}])]
    /\ UNCHANGED <<shape, work, pc, waits, piece, tile, mb, frag, acc, valid, reads, writes, results>>

Commit(w, groups) == inflight' = [inflight EXCEPT ![w] = Trim(@ \o groups)]

-----------------------------------------------------------------------------
(* The route block: _read_moe_block_data.                                  *)

\* Direct routes are stored by the first thread; packed ones are copied.
Routes(w) ==
    /\ At(w, "routes")
    /\ UNCHANGED <<shape, work, piece, tile, mb, frag, acc, results, reads>>
    /\ \/ /\ Piece(w).kind = "direct"
          /\ LET mine == IF w # FirstWarp THEN {}
                         ELSE {<<<<"route">>, piece[w]>>, <<<<"rows">>, piece[w]>>}
             IN smem' = Stored(mine) /\ NoteWrites(w, {q[1] : q \in mine})
          /\ valid' = [valid EXCEPT ![w] = piece[w]]
          /\ Arrive(w, "prefetch")
          /\ UNCHANGED inflight
       \/ /\ Piece(w).kind = "packed"
          /\ LET mine == IF w # FirstWarp THEN {} ELSE {<<<<"route">>, piece[w]>>}
             IN Commit(w, <<mine>>) /\ NoteWrites(w, {q[1] : q \in mine})
          /\ Goto(w, "routesWait")
          /\ UNCHANGED <<smem, valid>>

RoutesWait(w) ==
    /\ At(w, "routesWait") /\ Waited(w, 0)
    /\ Arrive(w, "count")
    /\ UNCHANGED <<shape, work, smem, piece, tile, mb, frag, acc, valid, inflight, reads, writes, results>>

\* The last warp counts the valid routes, the first finds their input rows.
Count(w) ==
    /\ At(w, "count")
    /\ LET mine == (IF w = LastWarp THEN {<<<<"valid">>, smem[<<"route">>]>>} ELSE {})
                   \cup (IF w = FirstWarp THEN {<<<<"rows">>, smem[<<"route">>]>>} ELSE {})
       IN /\ smem' = Stored(mine)
          /\ NoteWrites(w, {q[1] : q \in mine})
          /\ NoteReads(w, IF mine = {} THEN {} ELSE {<<"route">>})
    /\ Arrive(w, "readValid")
    /\ UNCHANGED <<shape, work, piece, tile, mb, frag, acc, valid, inflight, results>>

\* The count lies where the first weights will be staged: without a barrier
\* after it a fast warp stages over a count a slow one has not read.
ReadValidAndGo(w) ==
    /\ At(w, "readValid")
    /\ valid' = [valid EXCEPT ![w] = smem[<<"valid">>]]
    /\ NoteReads(w, {<<"valid">>})
    /\ Goto(w, "prefetch")
    /\ UNCHANGED <<shape, work, smem, piece, tile, mb, frag, acc, inflight, writes, results>>

ReadValid(w) ==
    /\ At(w, "readValid")
    /\ valid' = [valid EXCEPT ![w] = smem[<<"valid">>]]
    /\ NoteReads(w, {<<"valid">>})
    /\ Arrive(w, "prefetch")
    /\ UNCHANGED <<shape, work, smem, piece, tile, mb, frag, acc, inflight, writes, results>>

-----------------------------------------------------------------------------
(* The pipeline over the K tiles: _run_mma_pipeline.                       *)

\* _stage_k_tile_async: thread i * cta_threads + tid copies that word, so a
\* warp copies the K blocks equal to its row modulo the rows, and its part of
\* the input rows and the scales.  Beyond the last tile the group is empty.
Staged(w, t) ==
    LET p == t % Stages
    IN IF t >= Piece(w).tiles THEN {}
       ELSE {<<<<"a", p, w>>, <<smem[<<"rows">>], Piece(w).first + t>>>>}
            \cup {<<<<"b", p, k, w[2]>>, <<piece[w], Piece(w).first + t>>>> :
                     k \in {i * shape.rows + w[1] : i \in 0 .. Iters - 1}}

StagedCells(w, t) == {q[1] : q \in Staged(w, t)}

\* _prefetch_initial_tiles
Prefetch(w) ==
    /\ At(w, "prefetch")
    /\ Commit(w, [i \in 1 .. Stages - 1 |-> Staged(w, i - 1)])
    /\ NoteReads(w, {<<"rows">>})
    /\ NoteWrites(w, UNION {StagedCells(w, t) : t \in 0 .. Stages - 2})
    /\ tile' = [tile EXCEPT ![w] = 0]
    /\ acc' = [acc EXCEPT ![w] = [m \in 1 .. shape.mBlocks |-> {}]]
    /\ Goto(w, "prefetchWait")
    /\ UNCHANGED <<shape, work, smem, piece, mb, frag, valid, results>>

PrefetchWait(w) ==
    /\ At(w, "prefetchWait") /\ Waited(w, Stages - 2)
    /\ Arrive(w, "reload")
    /\ UNCHANGED <<shape, work, smem, piece, tile, mb, frag, acc, valid, inflight, reads, writes, results>>

\* The two register loads of K block kk of a warp row, from the stage of tile
\* t: all input rows, one column of weights.
FragmentCells(w, t, kk) ==
    {<<"a", t % Stages, v>> : v \in Warps} \cup {<<"b", t % Stages, Iters * w[1] + kk, w[2]>>}

Fragment(w, t, kk) ==
    LET held == {smem[x] : x \in FragmentCells(w, t, kk)}
        v == CHOOSE u \in held : TRUE
    IN IF Cardinality(held) = 1 THEN <<v[1], v[2], Iters * w[1] + kk>> ELSE <<-1, -1, -1>>

\* Before the first tile, and again after every fourth.
Reload(w) ==
    /\ At(w, "reload")
    /\ frag' = [frag EXCEPT ![w] = Fragment(w, tile[w], 0)]
    /\ NoteReads(w, FragmentCells(w, tile[w], 0))
    /\ Goto(w, "stage")
    /\ UNCHANGED <<shape, work, smem, piece, tile, mb, acc, valid, inflight, writes, results>>

\* Adding a term a second time, or a stale one, spoils the sum.
Plus(sum, f, m) == LET t == Append(f, m) IN sum \cup IF t \in sum THEN {NoTerm} ELSE {t}
Added(w, f) == [m \in 1 .. shape.mBlocks |-> Plus(acc[w][m], f, m)]

\* First half of a tile: load its second fragment, stage the tile three ahead
\* into the stage the last tile has left (_prefetch_lookahead_tile), multiply
\* the first fragment.
StageAhead(w) ==
    /\ At(w, "stage")
    /\ LET t == tile[w]
       IN /\ Commit(w, <<Staged(w, t + Stages - 1)>>)
          /\ NoteReads(w, FragmentCells(w, t, 1) \cup {<<"rows">>})
          /\ NoteWrites(w, StagedCells(w, t + Stages - 1))
          /\ acc' = [acc EXCEPT ![w] = Added(w, frag[w])]
          /\ frag' = [frag EXCEPT ![w] = Fragment(w, t, 1)]
    /\ Goto(w, "stageWait")
    /\ UNCHANGED <<shape, work, smem, piece, tile, mb, valid, results>>

StageWait(w) ==
    /\ At(w, "stageWait") /\ Waited(w, Stages - 2)
    /\ Arrive(w, "next")
    /\ UNCHANGED <<shape, work, smem, piece, tile, mb, frag, acc, valid, inflight, reads, writes, results>>

\* Second half: load the first fragment of the next tile, multiply the second
\* of this one.  After four tiles, and after the last, the warps meet.
NextTile(w) ==
    /\ At(w, "next")
    /\ LET t == tile[w] + 1
           more == t < Piece(w).tiles
       IN /\ acc' = [acc EXCEPT ![w] = Added(w, frag[w])]
          /\ frag' = [frag EXCEPT ![w] = IF more THEN Fragment(w, t, 0) ELSE NoTerm]
          /\ NoteReads(w, IF more THEN FragmentCells(w, t, 0) ELSE {})
          /\ tile' = [tile EXCEPT ![w] = t]
          /\ CASE more /\ t % Stages # 0 -> Goto(w, "stage")
               [] more /\ t % Stages = 0 -> Arrive(w, "reload")
               [] OTHER                  -> Arrive(w, IF shape.rows = 1 THEN "finish" ELSE "fold")
    /\ mb' = [mb EXCEPT ![w] = 1]
    /\ UNCHANGED <<shape, work, smem, piece, valid, inflight, writes, results>>

-----------------------------------------------------------------------------
(* Folding the warp rows: _fold_cta_partials_*, one M block after another. *)

Join(a, b) == a \cup b \cup IF a \cap b # {} THEN {NoTerm} ELSE {}

Slot(w, s) == <<"red", s, w[2]>>

\* Of four rows the upper two leave their sums in the slots.
Fold(w) ==
    /\ At(w, "fold")
    /\ LET mine == IF w[1] < 2 \/ shape.rows < 4 THEN {}
                   ELSE {<<Slot(w, w[1] - 2), acc[w][mb[w]]>>}
       IN smem' = Stored(mine) /\ NoteWrites(w, {q[1] : q \in mine})
    /\ IF shape.rows = 4 THEN Arrive(w, "foldMiddle") ELSE Goto(w, "foldMiddle")
    /\ UNCHANGED <<shape, work, piece, tile, mb, frag, acc, valid, inflight, reads, results>>

\* Row 1 adds both slots and leaves its sum in the first.
FoldMiddle(w) ==
    /\ At(w, "foldMiddle")
    /\ LET slots == IF w[1] # 1 \/ shape.rows < 4 THEN {} ELSE {Slot(w, 0), Slot(w, 1)}
           sum == IF slots = {} THEN acc[w][mb[w]]
                  ELSE Join(Join(acc[w][mb[w]], smem[Slot(w, 1)]), smem[Slot(w, 0)])
           mine == IF w[1] # 1 THEN {} ELSE {<<Slot(w, 0), sum>>}
       IN /\ acc' = [acc EXCEPT ![w][mb[w]] = sum]
          /\ NoteReads(w, slots)
          /\ smem' = Stored(mine) /\ NoteWrites(w, {q[1] : q \in mine})
    /\ Arrive(w, "foldFirst")
    /\ UNCHANGED <<shape, work, piece, tile, mb, frag, valid, inflight, results>>

\* Row 0 adds the first slot.  Without a barrier before the next M block, row
\* 1 leaves the sum of that block in a slot row 0 has not added yet.
FoldFirstAndGo(w) ==
    /\ At(w, "foldFirst")
    /\ IF w[1] # 0 THEN UNCHANGED <<acc, reads>>
       ELSE /\ acc' = [acc EXCEPT ![w][mb[w]] = Join(@, smem[Slot(w, 0)])]
            /\ NoteReads(w, {Slot(w, 0)})
    /\ IF mb[w] < shape.mBlocks
       THEN mb' = [mb EXCEPT ![w] = @ + 1] /\ Goto(w, "fold")
       ELSE Arrive(w, "finish") /\ UNCHANGED mb
    /\ UNCHANGED <<shape, work, smem, piece, tile, frag, valid, inflight, writes, results>>

FoldFirst(w) ==
    /\ At(w, "foldFirst")
    /\ IF w[1] # 0 THEN UNCHANGED <<acc, reads>>
       ELSE /\ acc' = [acc EXCEPT ![w][mb[w]] = Join(@, smem[Slot(w, 0)])]
            /\ NoteReads(w, {Slot(w, 0)})
    /\ IF mb[w] < shape.mBlocks
       THEN mb' = [mb EXCEPT ![w] = @ + 1] /\ Arrive(w, "fold")
       ELSE Arrive(w, "finish") /\ UNCHANGED mb
    /\ UNCHANGED <<shape, work, smem, piece, tile, frag, valid, inflight, writes, results>>

-----------------------------------------------------------------------------
(* Handing over the tile: _finish_tile.                                    *)

NextPiece(w) == IF piece[w] = Len(work) THEN "end" ELSE "routes"

\* The first thread waits for the turn of the slice, the others at a barrier.
Finish(w) ==
    /\ At(w, "finish")
    /\ IF Piece(w).merge THEN Arrive(w, "merge") ELSE Goto(w, "store")
    /\ UNCHANGED <<shape, work, smem, piece, tile, mb, frag, acc, valid, inflight, reads, writes, results>>

\* _combine_splitk_accumulators: the threads of row 0 hold the tile.
Merge(w) ==
    /\ At(w, "merge")
    /\ results' = results \cup IF w[1] # 0 THEN {}
                               ELSE {[piece |-> piece[w], by |-> w, rows |-> valid[w], sums |-> {acc[w]}]}
    /\ Arrive(w, "merged")
    /\ UNCHANGED <<shape, work, smem, piece, tile, mb, frag, acc, valid, inflight, reads, writes>>

Merged(w) ==
    /\ At(w, "merged")
    /\ IF Piece(w).store THEN Goto(w, "store") /\ UNCHANGED piece
       ELSE Goto(w, NextPiece(w)) /\ piece' = [piece EXCEPT ![w] = @ + 1]
    /\ UNCHANGED <<shape, work, smem, tile, mb, frag, acc, valid, inflight, reads, writes, results>>

\* _store_tile_*: row 0 lays the tile out in shared memory ...
Store(w) ==
    /\ At(w, "store")
    /\ LET mine == IF w[1] # 0 THEN {} ELSE {<<<<"out", w[2]>>, acc[w]>>}
       IN smem' = Stored(mine) /\ NoteWrites(w, {q[1] : q \in mine})
    /\ Arrive(w, "drain")
    /\ UNCHANGED <<shape, work, piece, tile, mb, frag, acc, valid, inflight, reads, results>>

\* ... and all warps write its valid rows out (_drain_output_smem).
Drain(w) ==
    /\ At(w, "drain")
    /\ results' = results \cup
          {[piece |-> smem[<<"route">>], by |-> w, rows |-> valid[w],
            sums |-> {smem[x] : x \in OutCells}]}
    /\ NoteReads(w, OutCells \cup {<<"route">>})
    /\ piece' = [piece EXCEPT ![w] = @ + 1]
    /\ Arrive(w, NextPiece(w))
    /\ UNCHANGED <<shape, work, smem, tile, mb, frag, acc, valid, inflight, writes>>

WarpStep(w) ==
    \/ Land(w)
    \/ Routes(w) \/ RoutesWait(w) \/ Count(w) \/ ReadValid(w)
    \/ Prefetch(w) \/ PrefetchWait(w)
    \/ Reload(w) \/ StageAhead(w) \/ StageWait(w) \/ NextTile(w)
    \/ Fold(w) \/ FoldMiddle(w) \/ FoldFirst(w)
    \/ Finish(w) \/ Merge(w) \/ Merged(w) \/ Store(w) \/ Drain(w)

Ended == waits = {} /\ \A w \in Warps : pc[w] = "end"

Next == \/ \E w \in Warps : WarpStep(w)
        \/ Sync
        \/ Ended /\ UNCHANGED vars

Spec == Init /\ [][Next]_vars

-----------------------------------------------------------------------------
\* A warp has fewer groups in flight than the ring has stages, so that a stage
\* is never staged into twice (the waits of _prefetch_pipeline_step); it is at
\* most one past its last piece and only ever touches the cells of its shape.
TypeOK ==
    /\ \A w \in Warps : /\ Len(inflight[w]) < Stages
                        /\ piece[w] \in 1 .. Len(work) + 1
                        /\ valid[w] \in -1 .. Len(work)
                        /\ mb[w] \in 1 .. shape.mBlocks
                        /\ reads[w] \cup writes[w] \subseteq Cells
    /\ waits \subseteq Warps

\* Between two barriers no warp touches memory that another writes or has a
\* copy in flight to, nor reads where a copy of its own is still landing:
\* the ring, the reduction slots, the output and the count of valid rows share
\* their bytes (_run_mma_pipeline, _read_moe_block_data, _fold_cta_partials).
Landing(w) == UNION {{q[1] : q \in inflight[w][i]} : i \in DOMAIN inflight[w]}

RaceFree ==
    \A w \in Warps :
       /\ \A v \in Warps \ {w} :
             \A x \in writes[v] \cup Landing(v), y \in reads[w] \cup writes[w] : ~ Overlap(x, y)
       /\ \A x \in Landing(w), y \in reads[w] : ~ Overlap(x, y)

\* Every piece ends as the sum of each K block of each of its K tiles exactly
\* once, for the rows of its own route block, and a CTA that ends has handed
\* over every piece.
Exact(p) == [m \in 1 .. shape.mBlocks |->
                {<<p, work[p].first + t, k, m>> : t \in 0 .. work[p].tiles - 1, k \in 0 .. KBlocks - 1}]

TileExact ==
    /\ \A r \in results : r.rows = r.piece /\ r.piece \in DOMAIN work /\ r.sums = {Exact(r.piece)}
    /\ Ended => \A p \in DOMAIN work :
                   {r.by : r \in {q \in results : q.piece = p}} =
                      IF work[p].store THEN Warps ELSE {w \in Warps : w[1] = 0}
=============================================================================
