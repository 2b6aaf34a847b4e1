--------------------------- MODULE W4A16TileProofs ---------------------------
(***************************************************************************)
(* The warps of a CTA never race and compute exact sums, for every number  *)
(* of warp columns and M blocks, one, two or four warp rows, and every     *)
(* list of pieces with any number of K tiles each.                         *)
(*                                                                         *)
(* The invariant says where the warps are relative to each other through   *)
(* the barrier each goes to next: Together, it is the same one for all.    *)
(* That barrier (Phase) bounds what a warp may have read and written since *)
(* the last one (Footprint) and which K tiles it still has copies of in    *)
(* flight (Queue), and this is all RaceFree needs, once the header of the  *)
(* piece (Headed) is known to be the one its packed rows were counted for. *)
(* The sums need besides what each place holds on the way: the ring        *)
(* (Ringed), the fragments and accumulators (Summed, Folded), the          *)
(* reduction slots (Slotted), the staged output (LaidOut) and what has     *)
(* been handed over (Delivered).                                           *)
(***************************************************************************)
EXTENDS W4A16Tile, FiniteSetTheorems, SequenceTheorems, TLAPS

(* The barrier a warp goes to next, as <<name, piece, K tile or M block>>. *)

StartOf(p) == IF p > Len(work) THEN <<"stop", p, 0>>
              ELSE IF work[p].kind = "direct" THEN <<"prefetch", p, 0>> ELSE <<"count", p, 0>>

AfterTile(p, t) ==
    IF t + 1 < work[p].tiles
    THEN IF (t + 1) % Stages = 0 THEN <<"reload", p, t + 1>> ELSE <<"next", p, t + 1>>
    ELSE IF shape.rows = 1 THEN <<"finish", p, 0>> ELSE <<"fold", p, 1>>

Ahead(where, p, t, m) ==
    CASE where \in {"routes", "end"} -> StartOf(p)
      [] where = "routesWait" -> <<"count", p, 0>>
      [] where = "count" -> <<"readValid", p, 0>>
      [] where = "readValid" -> <<"prefetch", p, 0>>
      [] where \in {"prefetch", "prefetchWait"} -> <<"reload", p, 0>>
      [] where \in {"reload", "stage", "stageWait"} -> <<"next", p, t>>
      [] where = "next" -> AfterTile(p, t)
      [] where = "fold" -> IF shape.rows = 4 THEN <<"foldMiddle", p, m>> ELSE <<"foldFirst", p, m>>
      [] where = "foldMiddle" -> <<"foldFirst", p, m>>
      [] where = "foldFirst" -> IF m < shape.mBlocks THEN <<"fold", p, m + 1>> ELSE <<"finish", p, 0>>
      [] where = "finish" -> IF work[p].merge THEN <<"merge", p, 0>> ELSE <<"drain", p, 0>>
      [] where = "merge" -> <<"merged", p, 0>>
      [] where = "merged" -> IF work[p].store THEN <<"drain", p, 0>> ELSE StartOf(p + 1)
      [] where = "store" -> <<"drain", p, 0>>
      [] where = "drain" -> IF p = Len(work) THEN <<"end", p + 1, 0>> ELSE <<"routes", p + 1, 0>>

Here(where, p, t, m) ==
    <<where, p, CASE where \in {"reload", "next"} -> t
                  [] where \in {"fold", "foldMiddle", "foldFirst"} -> m
                  [] OTHER -> 0>>

Goal(w) == IF w \in waits THEN Here(pc[w], piece[w], tile[w], mb[w])
           ELSE Ahead(pc[w], piece[w], tile[w], mb[w])

Phase == Goal(FirstWarp)

Together == \A w \in Warps : Goal(w) = Phase

Meeting == {"routes", "end", "prefetch", "count", "readValid", "reload", "next", "fold",
            "foldMiddle", "foldFirst", "finish", "merge", "merged", "drain"}

Folding == {"fold", "foldMiddle", "foldFirst"}
Places == Meeting \cup {"routesWait", "prefetchWait", "stage", "stageWait", "store"}

Local(w) ==
    /\ pc[w] \in Places
    /\ w \in waits => pc[w] \in Meeting
    /\ piece[w] \in 1 .. Len(work) + 1
    /\ pc[w] = "end" <=> piece[w] = Len(work) + 1
    /\ tile[w] \in Nat
    /\ pc[w] \in {"reload", "stage", "stageWait", "next"} => tile[w] < Piece(w).tiles
    /\ pc[w] = "reload" => tile[w] % Stages = 0
    /\ pc[w] = "prefetchWait" => tile[w] = 0
    /\ mb[w] \in 1 .. shape.mBlocks
    /\ pc[w] \in {"routesWait", "count", "readValid"} => Piece(w).kind = "packed"
    /\ pc[w] \in Folding => shape.rows # 1
    /\ pc[w] = "foldMiddle" /\ w \in waits => shape.rows = 4
    /\ pc[w] \in {"merge", "merged"} => Piece(w).merge
    /\ pc[w] \in {"store", "drain"} => Piece(w).store

(* The copies of a warp. *)

Blocks(w) == {w[1], shape.rows + w[1]}

StageCells(w, t) == {<<"a", t % Stages, w>>} \cup {<<"b", t % Stages, k, w[2]>> : k \in Blocks(w)}

Group(w, p, t) ==
    IF t >= work[p].tiles THEN {}
    ELSE {<<<<"a", t % Stages, w>>, <<p, work[p].first + t>>>>}
         \cup {<<<<"b", t % Stages, k, w[2]>>, <<p, work[p].first + t>>>> : k \in Blocks(w)}

Copies == Cells \X (Nat \cup Nat \X Nat)

\* One past the youngest K tile a warp has a commit group of.
Youngest(w) == CASE pc[w] = "prefetchWait" -> 3
                 [] pc[w] \in {"reload", "stage"} -> tile[w] + 3
                 [] pc[w] \in {"stageWait", "next"} -> tile[w] + 4
                 [] OTHER -> 0

Room(w) == CASE pc[w] \in {"prefetchWait", "stageWait"} -> 3
             [] pc[w] \in {"reload", "stage", "next"} -> 2
             [] pc[w] = "routesWait" -> 1
             [] OTHER -> 0

TileOf(w, i) == Youngest(w) - Len(inflight[w]) + i - 1

Queue(w) ==
    /\ inflight[w] \in Seq(SUBSET Copies)
    /\ Len(inflight[w]) <= Room(w)
    /\ inflight[w] # <<>> => inflight[w][1] # {}
    /\ \A i \in 1 .. Len(inflight[w]) :
          inflight[w][i] # {} =>
             IF pc[w] = "routesWait"
             THEN w = FirstWarp /\ inflight[w][i] = {<<<<"route">>, piece[w]>>}
             ELSE inflight[w][i] = Group(w, piece[w], TileOf(w, i))

(* What a warp may have touched, or have a copy landing in, on the way to  *)
(* a barrier.                                                              *)

ReadOf(t, w) == {<<"a", t % Stages, v>> : v \in Warps}
                \cup {<<"b", t % Stages, Iters * w[1] + kk, w[2]>> : kk \in 0 .. 1}

MayRead(w, g) ==
    CASE g[1] = "readValid" -> {<<"route">>}
      [] g[1] = "prefetch" /\ work[g[2]].kind = "packed" -> {<<"valid">>}
      [] g[1] = "reload" /\ g[3] = 0 -> {<<"rows">>}
      [] g[1] = "reload" /\ g[3] # 0 -> ReadOf(g[3], w)
      [] g[1] = "next" -> {<<"rows">>} \cup ReadOf(g[3], w)
      [] g[1] = "foldFirst" /\ shape.rows = 4 /\ w[1] = 1 -> {Slot(w, 0), Slot(w, 1)}
      [] g[1] \in {"fold", "finish"} /\ shape.rows # 1 /\ w[1] = 0 -> {Slot(w, 0)}
      [] g[1] \in {"routes", "end"} -> OutCells \cup {<<"route">>}
      [] OTHER -> {}

MayWrite(w, g) ==
    CASE g[1] = "prefetch" /\ w = FirstWarp /\ work[g[2]].kind = "direct" -> {<<"route">>, <<"rows">>}
      [] g[1] = "count" /\ w = FirstWarp -> {<<"route">>}
      [] g[1] = "readValid" -> (IF w = FirstWarp THEN {<<"rows">>} ELSE {})
                               \cup (IF w = LastWarp THEN {<<"valid">>} ELSE {})
      [] g[1] = "reload" /\ g[3] = 0 -> UNION {StageCells(w, t) : t \in 0 .. 2}
      [] g[1] = "next" -> StageCells(w, g[3] + 3)
      [] g[1] = "foldMiddle" /\ w[1] >= 2 -> {Slot(w, w[1] - 2)}
      [] g[1] = "foldFirst" /\ w[1] = 1 -> {Slot(w, 0)}
      [] g[1] = "drain" /\ w[1] = 0 -> {<<"out", w[2]>>}
      [] OTHER -> {}

Footprint(w) ==
    /\ reads[w] \subseteq MayRead(w, Phase)
    /\ writes[w] \subseteq MayWrite(w, Phase)

-----------------------------------------------------------------------------
(* What the memory holds. *)

\* The route block of the piece, its rows and its count.
Headed ==
    LET g == Phase
        p == Phase[2]
        first == FirstWarp \in waits
    IN CASE g[1] = "stop" -> TRUE
         [] g[1] = "prefetch" ->
               /\ work[p].kind = "packed" \/ first => smem[<<"route">>] = p /\ smem[<<"rows">>] = p
               /\ work[p].kind = "packed" => smem[<<"valid">>] = p
         [] g[1] = "count" ->
               first \/ (pc[FirstWarp] = "routesWait" /\ inflight[FirstWarp] = <<>>) => smem[<<"route">>] = p
         [] g[1] = "readValid" ->
               /\ smem[<<"route">>] = p
               /\ first => smem[<<"rows">>] = p
               /\ LastWarp \in waits => smem[<<"valid">>] = p
         [] g[1] \in {"routes", "end"} -> smem[<<"route">>] = p - 1
         [] OTHER -> smem[<<"route">>] = p /\ smem[<<"rows">>] = p

Counted(w) == pc[w] \notin {"routes", "routesWait", "count", "readValid", "end"} => valid[w] = piece[w]

\* Every staged tile has landed or is in flight.
InFlight(w, u) == \E i \in 1 .. Len(inflight[w]) : TileOf(w, i) = u /\ inflight[w][i] # {}

Landed(w, p, u) == \A x \in StageCells(w, u) : smem[x] = <<p, work[p].first + u>>

Ringed(w) ==
    pc[w] \in {"prefetchWait", "reload", "stage", "stageWait", "next"} =>
       \A u \in tile[w] .. Youngest(w) - 1 :
          u < Piece(w).tiles => InFlight(w, u) \/ Landed(w, piece[w], u)

\* The terms of the K blocks of warp row r, of the first n tiles.
RowTerms(r, p, n, m) ==
    {<<p, work[p].first + t, k, m>> : t \in 0 .. n - 1, k \in {Iters * r, Iters * r + 1}}

RowsTerms(rs, p, m) ==
    {<<p, work[p].first + t, k, m>> : t \in 0 .. work[p].tiles - 1,
                                      k \in UNION {{Iters * r, Iters * r + 1} : r \in rs}}

Term(w, half) == <<piece[w], Piece(w).first + tile[w], Iters * w[1] + half>>

Own(w, m) == RowsTerms({w[1]}, piece[w], m)

Summed(w) ==
    /\ acc[w] = [m \in 1 .. shape.mBlocks |-> acc[w][m]]
    /\ pc[w] \in {"prefetchWait", "reload", "stage"} =>
          \A m \in 1 .. shape.mBlocks : acc[w][m] = RowTerms(w[1], piece[w], tile[w], m)
    /\ pc[w] \in {"stageWait", "next"} =>
          \A m \in 1 .. shape.mBlocks :
             acc[w][m] = RowTerms(w[1], piece[w], tile[w], m) \cup {Append(Term(w, 0), m)}
    /\ pc[w] = "stage" => frag[w] = Term(w, 0)
    /\ pc[w] \in {"stageWait", "next"} => frag[w] = Term(w, 1)

Folded(w) ==
    /\ pc[w] \in Folding =>
          /\ \A m \in 1 .. shape.mBlocks :
                m > mb[w] \/ (m = mb[w] /\ ~(pc[w] = "foldFirst" /\ w[1] = 1)) => acc[w][m] = Own(w, m)
          /\ w[1] = 0 => \A m \in 1 .. mb[w] - 1 : acc[w][m] = Exact(piece[w])[m]
    /\ pc[w] \in {"finish", "merge", "merged", "store"} /\ w[1] = 0 => acc[w] = Exact(piece[w])

\* The slots of a column.
Slotted(w) ==
    LET g == Phase
        left(s, rs, m) == smem[Slot(w, s)] = RowsTerms(rs, g[2], m)
    IN CASE g[1] = "foldMiddle" -> w[1] >= 2 /\ w \in waits => left(w[1] - 2, {w[1]}, g[3])
         [] g[1] = "foldFirst" /\ w[1] = 1 ->
               /\ shape.rows = 4 /\ w \notin waits => left(0, {2}, g[3]) /\ left(1, {3}, g[3])
               /\ w \in waits => left(0, 1 .. shape.rows - 1, g[3])
         [] g[1] = "fold" /\ g[3] # 1 /\ w[1] = 0 -> left(0, 1 .. shape.rows - 1, g[3] - 1)
         [] g[1] = "finish" /\ shape.rows # 1 /\ w[1] = 0 -> left(0, 1 .. shape.rows - 1, shape.mBlocks)
         [] OTHER -> TRUE

LaidOut(w) ==
    CASE Phase[1] = "drain" -> w[1] = 0 /\ w \in waits => smem[<<"out", w[2]>>] = Exact(Phase[2])
      [] Phase[1] \in {"routes", "end"} -> w[1] = 0 => smem[<<"out", w[2]>>] = Exact(Phase[2] - 1)
      [] OTHER -> TRUE

\* What has been handed over.
Handed(w, p) == \E r \in results : r.piece = p /\ r.by = w

Due(w, p) == work[p].store \/ w[1] = 0

Delivered ==
    /\ \A r \in results : /\ r.piece \in DOMAIN work /\ r.rows = r.piece /\ r.sums = {Exact(r.piece)}
                          /\ r.by \in Warps /\ Due(r.by, r.piece)
    /\ \A w \in Warps : /\ \A p \in 1 .. piece[w] - 1 : Due(w, p) => Handed(w, p)
                        /\ pc[w] = "merged" /\ w[1] = 0 => Handed(w, piece[w])

Control == waits \subseteq Warps /\ Together /\ \A w \in Warps : Local(w) /\ Queue(w) /\ Footprint(w)

Content == Headed /\ Delivered /\ \A w \in Warps : /\ Counted(w) /\ Ringed(w) /\ Summed(w)
                                                  /\ Folded(w) /\ Slotted(w) /\ LaidOut(w)
Framed ==
    /\ \E c \in Cases : shape = c[1] /\ work = c[2]
    /\ waits \subseteq Warps
    /\ DOMAIN pc = Warps /\ DOMAIN piece = Warps /\ DOMAIN tile = Warps /\ DOMAIN mb = Warps
    /\ DOMAIN frag = Warps /\ DOMAIN acc = Warps /\ DOMAIN valid = Warps
    /\ DOMAIN inflight = Warps /\ DOMAIN reads = Warps /\ DOMAIN writes = Warps

-----------------------------------------------------------------------------
(* The shape and the pieces of a CTA. *)

LEMMA Geometry ==
  ASSUME Framed
  PROVE  /\ shape.rows \in {1, 2, 4}
         /\ shape.cols \in Nat \ {0} /\ shape.mBlocks \in Nat \ {0}
         /\ work \in Seq(PieceType) /\ Len(work) \in Nat \ {0}
         /\ \A p \in 1 .. Len(work) :
               /\ work[p].kind \in {"direct", "packed"}
               /\ work[p].first \in Nat /\ work[p].tiles \in Nat \ {0}
               /\ work[p].merge \in BOOLEAN /\ work[p].store \in BOOLEAN
               /\ work[p].merge \/ work[p].store
<1>1. PICK c \in Cases : shape = c[1] /\ work = c[2]
  BY DEF Framed
<1>2. /\ shape.rows \in {1, 2, 4} /\ {shape.cols, shape.mBlocks} \subseteq Nat \ {0}
      /\ work \in Seq(PieceType) /\ work # <<>>
      /\ \A p \in DOMAIN work : work[p].merge \/ work[p].store
  BY <1>1, TileAssumption
<1>3. Len(work) \in Nat \ {0} /\ DOMAIN work = 1 .. Len(work)
  BY <1>2
<1>4. \A p \in 1 .. Len(work) : work[p] \in PieceType
  BY <1>2, <1>3
<1>5. QED
  BY <1>2, <1>3, <1>4 DEF PieceType

LEMMA WarpIs ==
  ASSUME Framed, NEW w \in Warps
  PROVE  /\ w[1] \in 0 .. shape.rows - 1 /\ w[2] \in 0 .. shape.cols - 1
         /\ w = <<w[1], w[2]>>
BY DEF Warps

LEMMA Ends ==
  ASSUME Framed
  PROVE  FirstWarp \in Warps /\ LastWarp \in Warps
BY Geometry DEF Warps, FirstWarp, LastWarp

LEMMA PieceIs ==
  ASSUME Framed, NEW w \in Warps, Local(w), pc[w] # "end"
  PROVE  /\ piece[w] \in 1 .. Len(work)
         /\ Piece(w) = work[piece[w]]
         /\ Piece(w).kind \in {"direct", "packed"}
         /\ Piece(w).first \in Nat /\ Piece(w).tiles \in Nat \ {0}
         /\ Piece(w).merge \in BOOLEAN /\ Piece(w).store \in BOOLEAN
         /\ Piece(w).merge \/ Piece(w).store
<1>1. piece[w] \in 1 .. Len(work) + 1 /\ piece[w] # Len(work) + 1
  BY DEF Local
<1>2. piece[w] \in 1 .. Len(work)
  BY <1>1, Geometry
<1>3. QED
  BY <1>2, Geometry DEF Piece

-----------------------------------------------------------------------------
(* Where a warp goes. *)

LEMMA AheadOf ==
  ASSUME NEW p, NEW t, NEW m
  PROVE  /\ Ahead("routes", p, t, m) = StartOf(p)
         /\ Ahead("end", p, t, m) = StartOf(p)
         /\ Ahead("routesWait", p, t, m) = <<"count", p, 0>>
         /\ Ahead("count", p, t, m) = <<"readValid", p, 0>>
         /\ Ahead("readValid", p, t, m) = <<"prefetch", p, 0>>
         /\ Ahead("prefetch", p, t, m) = <<"reload", p, 0>>
         /\ Ahead("prefetchWait", p, t, m) = <<"reload", p, 0>>
         /\ Ahead("reload", p, t, m) = <<"next", p, t>>
         /\ Ahead("stage", p, t, m) = <<"next", p, t>>
         /\ Ahead("stageWait", p, t, m) = <<"next", p, t>>
         /\ Ahead("next", p, t, m) = AfterTile(p, t)
         /\ Ahead("fold", p, t, m) = IF shape.rows = 4 THEN <<"foldMiddle", p, m>>
                                     ELSE <<"foldFirst", p, m>>
         /\ Ahead("foldMiddle", p, t, m) = <<"foldFirst", p, m>>
         /\ Ahead("foldFirst", p, t, m) = IF m < shape.mBlocks THEN <<"fold", p, m + 1>>
                                          ELSE <<"finish", p, 0>>
         /\ Ahead("finish", p, t, m) = IF work[p].merge THEN <<"merge", p, 0>> ELSE <<"drain", p, 0>>
         /\ Ahead("merge", p, t, m) = <<"merged", p, 0>>
         /\ Ahead("merged", p, t, m) = IF work[p].store THEN <<"drain", p, 0>> ELSE StartOf(p + 1)
         /\ Ahead("store", p, t, m) = <<"drain", p, 0>>
         /\ Ahead("drain", p, t, m) = IF p = Len(work) THEN <<"end", p + 1, 0>>
                                      ELSE <<"routes", p + 1, 0>>
BY DEF Ahead

LEMMA HereOf ==
  ASSUME NEW p, NEW t, NEW m
  PROVE  /\ Here("reload", p, t, m) = <<"reload", p, t>>
         /\ Here("next", p, t, m) = <<"next", p, t>>
         /\ Here("fold", p, t, m) = <<"fold", p, m>>
         /\ Here("foldMiddle", p, t, m) = <<"foldMiddle", p, m>>
         /\ Here("foldFirst", p, t, m) = <<"foldFirst", p, m>>
         /\ Here("routes", p, t, m) = <<"routes", p, 0>>
         /\ Here("end", p, t, m) = <<"end", p, 0>>
         /\ Here("prefetch", p, t, m) = <<"prefetch", p, 0>>
         /\ Here("count", p, t, m) = <<"count", p, 0>>
         /\ Here("readValid", p, t, m) = <<"readValid", p, 0>>
         /\ Here("finish", p, t, m) = <<"finish", p, 0>>
         /\ Here("merge", p, t, m) = <<"merge", p, 0>>
         /\ Here("merged", p, t, m) = <<"merged", p, 0>>
         /\ Here("drain", p, t, m) = <<"drain", p, 0>>
BY DEF Here

\* The others stay as they are.
Rest(w) ==
    /\ UNCHANGED <<shape, work>>
    /\ \A v \in Warps \ {w} :
          /\ pc'[v] = pc[v] /\ (v \in waits' <=> v \in waits) /\ piece'[v] = piece[v]
          /\ tile'[v] = tile[v] /\ mb'[v] = mb[v] /\ frag'[v] = frag[v] /\ acc'[v] = acc[v]
          /\ valid'[v] = valid[v] /\ inflight'[v] = inflight[v]
          /\ reads'[v] = reads[v] /\ writes'[v] = writes[v]

LEMMA FrameStep ==
  ASSUME Framed, NEW w \in Warps, WarpStep(w)
  PROVE  Framed' /\ Rest(w) /\ Warps' = Warps
<1>1. Warps' = Warps /\ UNCHANGED <<shape, work>>
  <2>1. UNCHANGED <<shape, work>>
    BY DEF WarpStep, Land, Routes, RoutesWait, Count, ReadValid, Prefetch, PrefetchWait, Reload,
           StageAhead, StageWait, NextTile, Fold, FoldMiddle, FoldFirst, Finish, Merge, Merged,
           Store, Drain
  <2>2. QED
    BY <2>1 DEF Warps
<1> USE <1>1 DEF Framed, Rest, Goto, Arrive, NoteReads, NoteWrites, Commit
<1>2. CASE Land(w)
  BY <1>2 DEF Land
<1>3. CASE Routes(w)
  BY <1>3 DEF Routes
<1>4. CASE RoutesWait(w)
  BY <1>4 DEF RoutesWait
<1>5. CASE Count(w)
  BY <1>5 DEF Count
<1>6. CASE ReadValid(w)
  BY <1>6 DEF ReadValid
<1>7. CASE Prefetch(w)
  BY <1>7 DEF Prefetch
<1>8. CASE PrefetchWait(w)
  BY <1>8 DEF PrefetchWait
<1>9. CASE Reload(w)
  BY <1>9 DEF Reload
<1>10. CASE StageAhead(w)
  BY <1>10 DEF StageAhead
<1>11. CASE StageWait(w)
  BY <1>11 DEF StageWait
<1>12. CASE NextTile(w)
  BY <1>12 DEF NextTile
<1>13. CASE Fold(w)
  BY <1>13 DEF Fold
<1>14. CASE FoldMiddle(w)
  BY <1>14 DEF FoldMiddle
<1>15. CASE FoldFirst(w)
  BY <1>15 DEF FoldFirst
<1>16. CASE Finish(w)
  BY <1>16 DEF Finish
<1>17. CASE Merge(w)
  BY <1>17 DEF Merge
<1>18. CASE Merged(w)
  BY <1>18 DEF Merged
<1>19. CASE Store(w)
  BY <1>19 DEF Store
<1>20. CASE Drain(w)
  BY <1>20 DEF Drain
<1>21. QED
  BY <1>2, <1>3, <1>4, <1>5, <1>6, <1>7, <1>8, <1>9, <1>10, <1>11, <1>12, <1>13, <1>14, <1>15,
     <1>16, <1>17, <1>18, <1>19, <1>20 DEF WarpStep

LEMMA GoalNext ==
  ASSUME UNCHANGED <<shape, work>>, NEW w
  PROVE  Goal(w)' = IF w \in waits' THEN Here(pc'[w], piece'[w], tile'[w], mb'[w])
                    ELSE Ahead(pc'[w], piece'[w], tile'[w], mb'[w])
BY DEF Goal, Here, Ahead, StartOf, AfterTile

\* A warp's own step leads to the barrier it was on its way to.
LEMMA GoalKept ==
  ASSUME Framed, NEW w \in Warps, Local(w), WarpStep(w)
  PROVE  Goal(w)' = Goal(w) /\ Local(w)'
<1> DEFINE p == piece[w]
           t == tile[w]
           m == mb[w]
<1>1. UNCHANGED <<shape, work>> /\ Piece(w) = work[p]
  BY FrameStep DEF Rest, Piece
<1>2. Goal(w)' = IF w \in waits' THEN Here(pc'[w], piece'[w], tile'[w], mb'[w])
                 ELSE Ahead(pc'[w], piece'[w], tile'[w], mb'[w])
  BY <1>1, GoalNext
<1>3. pc[w] # "end" => /\ p \in 1 .. Len(work) /\ Piece(w).tiles \in Nat \ {0}
                       /\ Piece(w).kind \in {"direct", "packed"}
                       /\ Piece(w).merge \in BOOLEAN /\ Piece(w).store \in BOOLEAN
                       /\ Piece(w).merge \/ Piece(w).store
  BY PieceIs
<1>4. shape.rows \in {1, 2, 4} /\ shape.mBlocks \in Nat \ {0} /\ Len(work) \in Nat \ {0}
  BY Geometry
<1>5. /\ pc[w] \in Places /\ t \in Nat /\ m \in 1 .. shape.mBlocks /\ p \in 1 .. Len(work) + 1
      /\ w \in waits => pc[w] \in Meeting
      /\ pc[w] = "end" <=> p = Len(work) + 1
      /\ pc[w] \in {"reload", "stage", "stageWait", "next"} => t < Piece(w).tiles
      /\ pc[w] = "reload" => t % Stages = 0
      /\ pc[w] = "prefetchWait" => t = 0
      /\ pc[w] \in {"routesWait", "count", "readValid"} => Piece(w).kind = "packed"
      /\ pc[w] \in Folding => shape.rows # 1
      /\ pc[w] \in {"merge", "merged"} => Piece(w).merge
      /\ pc[w] \in {"store", "drain"} => Piece(w).store
  BY DEF Local
<1>6. w \notin waits => Goal(w) = Ahead(pc[w], p, t, m)
  BY DEF Goal
<1>7. Piece(w)' = work[piece'[w]]
  BY <1>1 DEF Piece
<1>8. DOMAIN pc = Warps /\ DOMAIN piece = Warps /\ DOMAIN tile = Warps /\ DOMAIN mb = Warps
      /\ waits \subseteq Warps
  BY DEF Framed
<1>9. CASE Land(w)
  <2>1. UNCHANGED <<pc, waits, piece, tile, mb>>
    BY <1>9 DEF Land
  <2>2. QED
    BY <2>1, <1>1, <1>2 DEF Goal, Local, Piece
<1>10. CASE Routes(w)
  <2>1. w \notin waits /\ pc[w] = "routes" /\ piece'[w] = p /\ tile'[w] = t /\ mb'[w] = m
    BY <1>10 DEF Routes, At
  <2>2. CASE Piece(w).kind = "direct"
    <3>1. pc'[w] = "prefetch" /\ w \in waits'
      BY <1>8, <1>10, <2>2 DEF Routes, Arrive
    <3>2. Goal(w) = <<"prefetch", p, 0>>
      BY <1>1, <1>3, <1>4, <1>6, <2>1, <2>2, AheadOf DEF StartOf
    <3>3. Goal(w)' = <<"prefetch", p, 0>>
      BY <1>2, <2>1, <3>1, HereOf
    <3>4. Local(w)'
      BY <1>1, <1>4, <1>5, <1>7, <2>1, <3>1 DEF Local, Places, Meeting, Folding
    <3>5. QED
      BY <3>2, <3>3, <3>4
  <2>3. CASE Piece(w).kind = "packed"
    <3>1. pc'[w] = "routesWait" /\ w \notin waits'
      BY <1>8, <1>10, <2>1, <2>3 DEF Routes, Goto
    <3>2. Goal(w) = <<"count", p, 0>>
      BY <1>1, <1>3, <1>4, <1>6, <2>1, <2>3, AheadOf DEF StartOf
    <3>3. Goal(w)' = <<"count", p, 0>>
      BY <1>2, <2>1, <3>1, AheadOf
    <3>4. Local(w)'
      BY <1>1, <1>4, <1>5, <1>7, <2>1, <2>3, <3>1 DEF Local, Places, Meeting, Folding
    <3>5. QED
      BY <3>2, <3>3, <3>4
  <2>4. QED
    BY <1>3, <2>1, <2>2, <2>3
<1>11. CASE RoutesWait(w)
  <2>1. /\ w \notin waits /\ pc[w] = "routesWait" /\ piece'[w] = p /\ tile'[w] = t /\ mb'[w] = m
        /\ pc'[w] = "count" /\ w \in waits'
    BY <1>8, <1>11 DEF RoutesWait, At, Arrive
  <2>2. Goal(w) = <<"count", p, 0>> /\ Goal(w)' = <<"count", p, 0>>
    BY <1>2, <1>6, <2>1, AheadOf, HereOf
  <2>3. Local(w)'
    BY <1>1, <1>4, <1>5, <1>7, <2>1 DEF Local, Places, Meeting, Folding
  <2>4. QED
    BY <2>2, <2>3
<1>12. CASE Count(w)
  <2>1. /\ w \notin waits /\ pc[w] = "count" /\ piece'[w] = p /\ tile'[w] = t /\ mb'[w] = m
        /\ pc'[w] = "readValid" /\ w \in waits'
    BY <1>8, <1>12 DEF Count, At, Arrive
  <2>2. Goal(w) = <<"readValid", p, 0>> /\ Goal(w)' = <<"readValid", p, 0>>
    BY <1>2, <1>6, <2>1, AheadOf, HereOf
  <2>3. Local(w)'
    BY <1>1, <1>4, <1>5, <1>7, <2>1 DEF Local, Places, Meeting, Folding
  <2>4. QED
    BY <2>2, <2>3
<1>13. CASE ReadValid(w)
  <2>1. /\ w \notin waits /\ pc[w] = "readValid" /\ piece'[w] = p /\ tile'[w] = t /\ mb'[w] = m
        /\ pc'[w] = "prefetch" /\ w \in waits'
    BY <1>8, <1>13 DEF ReadValid, At, Arrive
  <2>2. Goal(w) = <<"prefetch", p, 0>> /\ Goal(w)' = <<"prefetch", p, 0>>
    BY <1>2, <1>6, <2>1, AheadOf, HereOf
  <2>3. Local(w)'
    BY <1>1, <1>4, <1>5, <1>7, <2>1 DEF Local, Places, Meeting, Folding
  <2>4. QED
    BY <2>2, <2>3
<1>14. CASE Prefetch(w)
  <2>1. /\ w \notin waits /\ pc[w] = "prefetch" /\ piece'[w] = p /\ tile'[w] = 0 /\ mb'[w] = m
        /\ pc'[w] = "prefetchWait" /\ w \notin waits'
    BY <1>8, <1>14 DEF Prefetch, At, Goto
  <2>2. Goal(w) = <<"reload", p, 0>> /\ Goal(w)' = <<"reload", p, 0>>
    BY <1>2, <1>6, <2>1, AheadOf
  <2>3. Local(w)'
    BY <1>1, <1>4, <1>5, <1>7, <2>1 DEF Local, Places, Meeting, Folding
  <2>4. QED
    BY <2>2, <2>3
<1>15. CASE PrefetchWait(w)
  <2>1. /\ w \notin waits /\ pc[w] = "prefetchWait" /\ piece'[w] = p /\ tile'[w] = t /\ mb'[w] = m
        /\ pc'[w] = "reload" /\ w \in waits' /\ t = 0
    BY <1>5, <1>8, <1>15 DEF PrefetchWait, At, Arrive
  <2>2. Goal(w) = <<"reload", p, 0>> /\ Goal(w)' = <<"reload", p, 0>>
    BY <1>2, <1>6, <2>1, AheadOf, HereOf
  <2>3. Local(w)'
    BY <1>1, <1>3, <1>4, <1>5, <1>7, <2>1 DEF Local, Places, Meeting, Folding, Stages
  <2>4. QED
    BY <2>2, <2>3
<1>16. CASE Reload(w)
  <2>1. /\ w \notin waits /\ pc[w] = "reload" /\ piece'[w] = p /\ tile'[w] = t /\ mb'[w] = m
        /\ pc'[w] = "stage" /\ w \notin waits'
    BY <1>8, <1>16 DEF Reload, At, Goto
  <2>2. Goal(w) = <<"next", p, t>> /\ Goal(w)' = <<"next", p, t>>
    BY <1>2, <1>6, <2>1, AheadOf
  <2>3. Local(w)'
    BY <1>1, <1>4, <1>5, <1>7, <2>1 DEF Local, Places, Meeting, Folding
  <2>4. QED
    BY <2>2, <2>3
<1>17. CASE StageAhead(w)
  <2>1. /\ w \notin waits /\ pc[w] = "stage" /\ piece'[w] = p /\ tile'[w] = t /\ mb'[w] = m
        /\ pc'[w] = "stageWait" /\ w \notin waits'
    BY <1>8, <1>17 DEF StageAhead, At, Goto
  <2>2. Goal(w) = <<"next", p, t>> /\ Goal(w)' = <<"next", p, t>>
    BY <1>2, <1>6, <2>1, AheadOf
  <2>3. Local(w)'
    BY <1>1, <1>4, <1>5, <1>7, <2>1 DEF Local, Places, Meeting, Folding
  <2>4. QED
    BY <2>2, <2>3
<1>18. CASE StageWait(w)
  <2>1. /\ w \notin waits /\ pc[w] = "stageWait" /\ piece'[w] = p /\ tile'[w] = t /\ mb'[w] = m
        /\ pc'[w] = "next" /\ w \in waits'
    BY <1>8, <1>18 DEF StageWait, At, Arrive
  <2>2. Goal(w) = <<"next", p, t>> /\ Goal(w)' = <<"next", p, t>>
    BY <1>2, <1>6, <2>1, AheadOf, HereOf
  <2>3. Local(w)'
    BY <1>1, <1>4, <1>5, <1>7, <2>1 DEF Local, Places, Meeting, Folding
  <2>4. QED
    BY <2>2, <2>3
<1>19. CASE NextTile(w)
  <2>1. /\ w \notin waits /\ pc[w] = "next" /\ piece'[w] = p /\ tile'[w] = t + 1 /\ mb'[w] = 1
    BY <1>8, <1>19 DEF NextTile, At
  <2>2. Goal(w) = AfterTile(p, t)
    BY <1>6, <2>1, AheadOf
  <2>3. CASE t + 1 < Piece(w).tiles /\ (t + 1) % Stages # 0
    <3>1. pc'[w] = "stage" /\ w \notin waits'
      BY <1>8, <1>19, <2>1, <2>3 DEF NextTile, Goto, Arrive
    <3>2. Goal(w) = <<"next", p, t + 1>> /\ Goal(w)' = <<"next", p, t + 1>>
      BY <1>1, <1>2, <2>1, <2>2, <2>3, <3>1, AheadOf DEF AfterTile
    <3>3. Local(w)'
      BY <1>1, <1>4, <1>5, <1>7, <2>1, <2>3, <3>1 DEF Local, Places, Meeting, Folding
    <3>4. QED
      BY <3>2, <3>3
  <2>4. CASE t + 1 < Piece(w).tiles /\ (t + 1) % Stages = 0
    <3>1. pc'[w] = "reload" /\ w \in waits'
      BY <1>8, <1>19, <2>1, <2>4 DEF NextTile, Goto, Arrive
    <3>2. Goal(w) = <<"reload", p, t + 1>> /\ Goal(w)' = <<"reload", p, t + 1>>
      BY <1>1, <1>2, <2>1, <2>2, <2>4, <3>1, HereOf DEF AfterTile
    <3>3. Local(w)'
      BY <1>1, <1>4, <1>5, <1>7, <2>1, <2>4, <3>1 DEF Local, Places, Meeting, Folding
    <3>4. QED
      BY <3>2, <3>3
  <2>5. CASE ~(t + 1 < Piece(w).tiles)
    <3>1. pc'[w] = (IF shape.rows = 1 THEN "finish" ELSE "fold") /\ w \in waits'
      BY <1>8, <1>19, <2>1, <2>5 DEF NextTile, Goto, Arrive
    <3>2. Goal(w) = Here(pc'[w], p, t + 1, 1)
      BY <1>1, <2>2, <2>5, <3>1, HereOf DEF AfterTile
    <3>3. Local(w)'
      BY <1>1, <1>4, <1>5, <1>7, <2>1, <2>5, <3>1 DEF Local, Places, Meeting, Folding
    <3>4. QED
      BY <1>2, <2>1, <3>1, <3>2, <3>3
  <2>6. QED
    BY <2>3, <2>4, <2>5
<1>20. CASE Fold(w)
  <2>1. w \notin waits /\ pc[w] = "fold" /\ piece'[w] = p /\ tile'[w] = t /\ mb'[w] = m
        /\ pc'[w] = "foldMiddle" /\ (w \in waits' <=> shape.rows = 4)
    BY <1>8, <1>20 DEF Fold, At, Goto, Arrive
  <2>2. Goal(w)' = Goal(w)
    BY <1>2, <1>6, <2>1, AheadOf, HereOf
  <2>3. Local(w)'
    BY <1>1, <1>4, <1>5, <1>7, <2>1 DEF Local, Places, Meeting, Folding
  <2>4. QED
    BY <2>2, <2>3
<1>21. CASE FoldMiddle(w)
  <2>1. w \notin waits /\ pc[w] = "foldMiddle" /\ piece'[w] = p /\ tile'[w] = t /\ mb'[w] = m
        /\ pc'[w] = "foldFirst" /\ w \in waits'
    BY <1>8, <1>21 DEF FoldMiddle, At, Arrive
  <2>2. Goal(w)' = Goal(w)
    BY <1>2, <1>6, <2>1, AheadOf, HereOf
  <2>3. Local(w)'
    BY <1>1, <1>4, <1>5, <1>7, <2>1 DEF Local, Places, Meeting, Folding
  <2>4. QED
    BY <2>2, <2>3
<1>22. CASE FoldFirst(w)
  <2>1. /\ w \notin waits /\ pc[w] = "foldFirst" /\ piece'[w] = p /\ tile'[w] = t /\ w \in waits'
        /\ IF m < shape.mBlocks THEN pc'[w] = "fold" /\ mb'[w] = m + 1
           ELSE pc'[w] = "finish" /\ mb'[w] = m
    BY <1>8, <1>22 DEF FoldFirst, At, Arrive
  <2>2. Goal(w)' = Goal(w)
    <3>1. CASE m < shape.mBlocks
      <4>1. Goal(w) = <<"fold", p, m + 1>>
        BY <1>2, <1>6, <2>1, <3>1, AheadOf
      <4>2. Goal(w)' = Here("fold", p, t, m + 1)
        BY <1>2, <1>6, <2>1, <3>1
      <4>3. QED
        BY <4>1, <4>2, HereOf
    <3>2. CASE ~(m < shape.mBlocks)
      <4>1. Goal(w) = <<"finish", p, 0>>
        BY <1>2, <1>6, <2>1, <3>2, AheadOf
      <4>2. Goal(w)' = Here("finish", p, t, m)
        BY <1>2, <1>6, <2>1, <3>2
      <4>3. QED
        BY <4>1, <4>2, HereOf
    <3>3. QED
      BY <3>1, <3>2
  <2>3. Local(w)'
    BY <1>1, <1>4, <1>5, <1>7, <2>1 DEF Local, Places, Meeting, Folding
  <2>4. QED
    BY <2>2, <2>3
<1>23. CASE Finish(w)
  <2>1. /\ w \notin waits /\ pc[w] = "finish" /\ piece'[w] = p /\ tile'[w] = t /\ mb'[w] = m
        /\ IF Piece(w).merge THEN pc'[w] = "merge" /\ w \in waits'
           ELSE pc'[w] = "store" /\ w \notin waits'
    BY <1>8, <1>23 DEF Finish, At, Arrive, Goto
  <2>2. Goal(w)' = Goal(w)
    <3>1. CASE Piece(w).merge
      <4>1. Goal(w) = <<"merge", p, 0>>
        BY <1>1, <1>2, <1>6, <2>1, <3>1, AheadOf
      <4>2. Goal(w)' = Here("merge", p, t, m)
        BY <1>1, <1>2, <1>6, <2>1, <3>1
      <4>3. QED
        BY <4>1, <4>2, HereOf
    <3>2. CASE ~(Piece(w).merge)
      BY <1>1, <1>2, <1>6, <2>1, <3>2, AheadOf, HereOf
    <3>3. QED
      BY <3>1, <3>2
  <2>3. Local(w)'
    BY <1>1, <1>3, <1>4, <1>5, <1>7, <2>1 DEF Local, Places, Meeting, Folding
  <2>4. QED
    BY <2>2, <2>3
<1>24. CASE Merge(w)
  <2>1. /\ w \notin waits /\ pc[w] = "merge" /\ piece'[w] = p /\ tile'[w] = t /\ mb'[w] = m
        /\ pc'[w] = "merged" /\ w \in waits'
    BY <1>8, <1>24 DEF Merge, At, Arrive
  <2>2. Goal(w)' = Goal(w)
    BY <1>2, <1>6, <2>1, AheadOf, HereOf
  <2>3. Local(w)'
    BY <1>1, <1>4, <1>5, <1>7, <2>1 DEF Local, Places, Meeting, Folding
  <2>4. QED
    BY <2>2, <2>3
<1>25. CASE Merged(w)
  <2>1. /\ w \notin waits /\ pc[w] = "merged" /\ tile'[w] = t /\ mb'[w] = m /\ w \notin waits'
        /\ IF Piece(w).store THEN pc'[w] = "store" /\ piece'[w] = p
           ELSE /\ pc'[w] = (IF p = Len(work) THEN "end" ELSE "routes")
                /\ piece'[w] = p + 1
    BY <1>8, <1>25 DEF Merged, At, Goto, NextPiece
  <2>2. Goal(w)' = Goal(w)
    <3>1. CASE Piece(w).store
      <4>1. Goal(w) = <<"drain", p, 0>>
        BY <1>1, <1>6, <2>1, <3>1, AheadOf
      <4>2. Goal(w)' = Ahead("store", p, t, m)
        BY <1>2, <2>1, <3>1
      <4>3. QED
        BY <4>1, <4>2, AheadOf
    <3>2. CASE ~Piece(w).store
      BY <1>1, <1>2, <1>6, <2>1, <3>2, AheadOf
    <3>3. QED
      BY <3>1, <3>2
  <2>3. Local(w)'
    BY <1>1, <1>3, <1>4, <1>5, <1>7, <2>1 DEF Local, Places, Meeting, Folding
  <2>4. QED
    BY <2>2, <2>3
<1>26. CASE Store(w)
  <2>1. /\ w \notin waits /\ pc[w] = "store" /\ piece'[w] = p /\ tile'[w] = t /\ mb'[w] = m
        /\ pc'[w] = "drain" /\ w \in waits'
    BY <1>8, <1>26 DEF Store, At, Arrive
  <2>2. Goal(w)' = Goal(w)
    BY <1>2, <1>6, <2>1, AheadOf, HereOf
  <2>3. Local(w)'
    BY <1>1, <1>4, <1>5, <1>7, <2>1 DEF Local, Places, Meeting, Folding
  <2>4. QED
    BY <2>2, <2>3
<1>27. CASE Drain(w)
  <2>1. /\ w \notin waits /\ pc[w] = "drain" /\ piece'[w] = p + 1 /\ tile'[w] = t /\ mb'[w] = m
        /\ pc'[w] = (IF p = Len(work) THEN "end" ELSE "routes") /\ w \in waits'
    BY <1>8, <1>27 DEF Drain, At, Arrive, NextPiece
  <2>2. Goal(w)' = Goal(w)
    <3>1. CASE p = Len(work)
      <4>1. Goal(w) = <<"end", p + 1, 0>>
        BY <1>2, <1>6, <2>1, <3>1, AheadOf
      <4>2. Goal(w)' = Here("end", p + 1, t, m)
        BY <1>2, <1>6, <2>1, <3>1
      <4>3. QED
        BY <4>1, <4>2, HereOf
    <3>2. CASE ~(p = Len(work))
      <4>1. Goal(w) = <<"routes", p + 1, 0>>
        BY <1>2, <1>6, <2>1, <3>2, AheadOf
      <4>2. Goal(w)' = Here("routes", p + 1, t, m)
        BY <1>2, <1>6, <2>1, <3>2
      <4>3. QED
        BY <4>1, <4>2, HereOf
    <3>3. QED
      BY <3>1, <3>2
  <2>3. Local(w)'
    BY <1>1, <1>3, <1>4, <1>5, <1>7, <2>1 DEF Local, Places, Meeting, Folding
  <2>4. QED
    BY <2>2, <2>3
<1>28. QED
  BY <1>9, <1>10, <1>11, <1>12, <1>13, <1>14, <1>15, <1>16, <1>17, <1>18, <1>19, <1>20, <1>21,
     <1>22, <1>23, <1>24, <1>25, <1>26, <1>27 DEF WarpStep

-----------------------------------------------------------------------------
(* The commit groups of a warp. *)

LEMMA TrimIs ==
  ASSUME NEW S, NEW s \in Seq(S), Len(s) <= 3
  PROVE  /\ Trim(s) \in Seq(S)
         /\ \E d \in 0 .. Len(s) : /\ Len(Trim(s)) = Len(s) - d
                                   /\ \A i \in 1 .. Len(Trim(s)) : Trim(s)[i] = s[i + d]
                                   /\ \A i \in 1 .. d : s[i] = {}
         /\ Trim(s) # <<>> => Trim(s)[1] # {}
<1> DEFINE kept == {i \in DOMAIN s : \E j \in 1 .. i : s[j] # {}}
<1>1. Len(s) \in 0 .. 3 /\ DOMAIN s = 1 .. Len(s) /\ kept \subseteq 1 .. Len(s)
  <2>1. Len(s) \in Nat /\ DOMAIN s = 1 .. Len(s)
    OBVIOUS
  <2>2. QED
    BY <2>1
<1>2. Trim(s) = IF kept = {} THEN <<>> ELSE SubSeq(s, Min(kept), Len(s))
  BY DEF Trim
<1>3. \A i \in 1 .. Len(s) : s[i] # {} => i \in kept
  BY <1>1
<1>4. CASE kept = {}
  <2>1. Trim(s) = <<>> /\ Len(s) \in 0 .. Len(s) /\ \A i \in 1 .. Len(s) : s[i] = {}
    BY <1>1, <1>2, <1>3, <1>4
  <2>2. Len(Trim(s)) = 0 /\ Trim(s) \in Seq(S)
    BY <2>1
  <2>3. /\ Len(Trim(s)) = Len(s) - Len(s)
        /\ \A i \in 1 .. Len(Trim(s)) : Trim(s)[i] = s[i + Len(s)]
        /\ \A i \in 1 .. Len(s) : s[i] = {}
    BY <2>1, <2>2, <1>1
  <2>4. QED
    BY <2>1, <2>2, <2>3
<1>5. CASE kept # {}
  <2> HIDE DEF kept
  <2>1. \E m \in kept : \A i \in kept : m <= i
    <3>1. CASE 1 \in kept
      BY <1>1, <3>1
    <3>2. CASE 1 \notin kept /\ 2 \in kept
      BY <1>1, <3>2
    <3>3. CASE 1 \notin kept /\ 2 \notin kept
      <4>1. \A i \in kept : i \in Int /\ 1 <= i /\ i <= 3 /\ i # 1 /\ i # 2
        BY <1>1, <3>3
      <4>2. \A i \in kept : i = 3
        BY <4>1
      <4>3. QED
        BY <1>5, <4>2
    <3>4. QED
      BY <3>1, <3>2, <3>3
  <2>2. PICK m \in kept : m = Min(kept) /\ \A i \in kept : m <= i
    BY <2>1 DEF Min
  <2>3. m \in 1 .. Len(s)
    BY <1>1, <2>2
  <2>4. \A i \in 1 .. m - 1 : s[i] = {}
    BY <1>1, <1>3, <2>2, <2>3
  <2>5. s[m] # {}
    <3>1. PICK j \in 1 .. m : s[j] # {}
      BY <2>2 DEF kept
    <3>2. j \notin 1 .. m - 1
      BY <2>4, <3>1
    <3>3. j = m
      BY <2>3, <3>1, <3>2
    <3>4. QED
      BY <3>1, <3>3
  <2>6. Trim(s) = SubSeq(s, m, Len(s))
    BY <1>2, <1>5, <2>2
  <2>7. /\ Trim(s) \in Seq(S) /\ Len(Trim(s)) = Len(s) - (m - 1)
        /\ \A i \in 1 .. Len(s) - (m - 1) : Trim(s)[i] = s[i + (m - 1)]
    BY <2>3, <2>6, <1>1
  <2>8. Trim(s)[1] # {}
    BY <2>3, <2>5, <2>7, <1>1
  <2>9. m - 1 \in 0 .. Len(s)
    BY <2>3, <1>1
  <2>10. QED
    BY <2>4, <2>7, <2>8, <2>9
<1>6. QED
  BY <1>4, <1>5

LEMMA KindOfCell ==
  ASSUME Framed, NEW x \in Cells
  PROVE  x[1] \in {"b", "a", "red", "out", "valid", "route", "rows"}
BY DEF Cells, RingCells, InputCells, SlotCells, OutCells

LEMMA StageInCells ==
  ASSUME Framed, NEW w \in Warps, NEW t \in Nat
  PROVE  StageCells(w, t) \subseteq Cells
<1>1. t % 4 \in 0 .. 3 /\ shape.rows \in {1, 2, 4} /\ shape.cols \in Nat
  BY Geometry
<1>2. w[1] \in 0 .. shape.rows - 1 /\ w[2] \in 0 .. shape.cols - 1
  BY WarpIs
<1>3. \A k \in Blocks(w) : k \in 0 .. KBlocks - 1
  BY <1>1, <1>2 DEF Blocks, KBlocks, Iters
<1>4. <<"a", t % Stages, w>> \in InputCells
  BY <1>1 DEF InputCells, Stages
<1>5. \A k \in Blocks(w) : <<"b", t % Stages, k, w[2]>> \in RingCells
  BY <1>1, <1>2, <1>3 DEF RingCells, Stages
<1>6. QED
  BY <1>4, <1>5 DEF StageCells, Cells

LEMMA StagedIs ==
  ASSUME Framed, NEW w \in Warps, NEW t \in Nat, piece[w] \in 1 .. Len(work),
         smem[<<"rows">>] = piece[w]
  PROVE  /\ Staged(w, t) = Group(w, piece[w], t)
         /\ StagedCells(w, t) \subseteq StageCells(w, t)
<1>1. {i * shape.rows + w[1] : i \in 0 .. Iters - 1} = Blocks(w)
  <2>1. 0 .. Iters - 1 = {0, 1} /\ shape.rows \in Int /\ w[1] \in Int
    BY Geometry, WarpIs DEF Iters
  <2>2. 0 * shape.rows + w[1] = w[1] /\ 1 * shape.rows + w[1] = shape.rows + w[1]
    BY <2>1
  <2>3. {i * shape.rows + w[1] : i \in 0 .. Iters - 1} = {0 * shape.rows + w[1], 1 * shape.rows + w[1]}
    BY <2>1
  <2>4. QED
    BY <2>2, <2>3 DEF Blocks
<1>2. Staged(w, t) = Group(w, piece[w], t)
  BY <1>1 DEF Staged, Group, Piece
<1>3. \A q \in Group(w, piece[w], t) : q[1] \in StageCells(w, t)
  BY DEF Group, StageCells
<1>4. QED
  BY <1>2, <1>3 DEF StagedCells

LEMMA GroupIs ==
  ASSUME Framed, NEW w \in Warps, NEW t \in Nat, NEW p \in 1 .. Len(work)
  PROVE  /\ Group(w, p, t) \subseteq Copies
         /\ \A q \in Group(w, p, t) : q[1] \in StageCells(w, t)
                                      /\ q[2] = <<p, work[p].first + t>> /\ t < work[p].tiles
         /\ t < work[p].tiles => \A x \in StageCells(w, t) :
                                    <<x, <<p, work[p].first + t>>>> \in Group(w, p, t)
<1>1. work[p].first + t \in Nat /\ p \in Nat /\ work[p].tiles \in Nat
  BY Geometry
<1>2. \A q \in Group(w, p, t) : /\ q = <<q[1], <<p, work[p].first + t>>>> /\ q[1] \in StageCells(w, t)
                                /\ q[2] = <<p, work[p].first + t>> /\ t < work[p].tiles
  BY <1>1 DEF Group, StageCells
<1>3. Group(w, p, t) \subseteq Copies
  BY <1>1, <1>2, StageInCells DEF Copies
<1>4. t < work[p].tiles => \A x \in StageCells(w, t) : <<x, <<p, work[p].first + t>>>> \in Group(w, p, t)
  BY <1>1 DEF Group, StageCells
<1>5. QED
  BY <1>2, <1>3, <1>4

LEMMA RouteCopy ==
  ASSUME Framed, NEW p \in 1 .. Len(work)
  PROVE  {<<<<"route">>, p>>} \subseteq Copies /\ <<"route">> \in Cells
BY DEF Copies, Cells

LEMMA ShapeKept ==
  ASSUME UNCHANGED <<shape, work>>
  PROVE  /\ Warps' = Warps /\ Cells' = Cells /\ Copies' = Copies /\ OutCells' = OutCells
         /\ FirstWarp' = FirstWarp /\ LastWarp' = LastWarp
         /\ \A w, p, t : Group(w, p, t)' = Group(w, p, t)
         /\ \A w, t : StageCells(w, t)' = StageCells(w, t)
<1>1. Warps' = Warps
  BY DEF Warps
<1>2. Cells' = Cells /\ OutCells' = OutCells
  BY <1>1 DEF Cells, RingCells, InputCells, SlotCells, OutCells, KBlocks
<1>3. Copies' = Copies
  BY <1>2 DEF Copies
<1>4. FirstWarp' = FirstWarp /\ LastWarp' = LastWarp
  BY DEF FirstWarp, LastWarp
<1>5. \A w, p, t : Group(w, p, t)' = Group(w, p, t)
  BY DEF Group, Blocks
<1>6. \A w, t : StageCells(w, t)' = StageCells(w, t)
  BY DEF StageCells, Blocks
<1>7. QED
  BY <1>1, <1>2, <1>3, <1>4, <1>5, <1>6

LEMMA RoomIs ==
  ASSUME NEW w
  PROVE  /\ pc[w] \in {"prefetchWait", "stageWait"} => Room(w) = 3
         /\ pc[w] \in {"reload", "stage", "next"} => Room(w) = 2
         /\ pc[w] = "routesWait" => Room(w) = 1
         /\ pc[w] \notin {"prefetchWait", "stageWait", "reload", "stage", "next", "routesWait"} => Room(w) = 0
         /\ pc[w] = "prefetchWait" => Youngest(w) = 3
         /\ pc[w] \in {"reload", "stage"} => Youngest(w) = tile[w] + 3
         /\ pc[w] \in {"stageWait", "next"} => Youngest(w) = tile[w] + 4
BY DEF Room, Youngest

LEMMA RoomNext ==
  ASSUME NEW w
  PROVE  /\ pc'[w] \in {"prefetchWait", "stageWait"} => Room(w)' = 3
         /\ pc'[w] \in {"reload", "stage", "next"} => Room(w)' = 2
         /\ pc'[w] = "routesWait" => Room(w)' = 1
         /\ pc'[w] \notin {"prefetchWait", "stageWait", "reload", "stage", "next", "routesWait"} => Room(w)' = 0
         /\ pc'[w] = "prefetchWait" => Youngest(w)' = 3
         /\ pc'[w] \in {"reload", "stage"} => Youngest(w)' = tile'[w] + 3
         /\ pc'[w] \in {"stageWait", "next"} => Youngest(w)' = tile'[w] + 4
BY DEF Room, Youngest

Idle == {"routes", "end", "prefetch", "count", "readValid", "fold", "foldMiddle", "foldFirst",
         "finish", "merge", "merged", "drain", "store"}

LEMMA EmptyQueue ==
  ASSUME NEW w, Queue(w), Len(inflight[w]) <= 0 \/ pc[w] \in Idle
  PROVE  inflight[w] = <<>>
<1>1. inflight[w] \in Seq(SUBSET Copies) /\ Len(inflight[w]) <= Room(w)
  BY DEF Queue
<1>2. Len(inflight[w]) \in Nat /\ Len(inflight[w]) <= 0
  BY <1>1, RoomIs DEF Idle
<1>3. Len(inflight[w]) = 0
  BY <1>2
<1>4. QED
  BY <1>1, <1>3

LEMMA GroupNext ==
  ASSUME UNCHANGED <<shape, work>>, NEW w, NEW i
  PROVE  Group(w, piece[w], TileOf(w, i))'
         = Group(w, piece'[w], Youngest(w)' - Len(inflight'[w]) + i - 1)
BY DEF Group, TileOf, Blocks

LEMMA QueueSame ==
  ASSUME UNCHANGED <<shape, work>>, NEW w, Queue(w), inflight'[w] = inflight[w],
         \/ inflight[w] = <<>>
         \/ /\ pc[w] # "routesWait" /\ pc'[w] # "routesWait"
            /\ Youngest(w)' = Youngest(w) /\ piece'[w] = piece[w]
            /\ Len(inflight[w]) <= Room(w)'
  PROVE  Queue(w)'
<1>1. Room(w)' \in {0, 1, 2, 3}
  BY DEF Room
<1>2. CASE inflight[w] = <<>>
  <2>1. inflight'[w] = <<>> /\ Len(inflight'[w]) = 0
    BY <1>2
  <2>2. inflight'[w] \in Seq(SUBSET Copies)
    BY <2>1
  <2>3. QED
    BY <1>1, <2>1, <2>2, ShapeKept DEF Queue
<1>3. CASE /\ pc[w] # "routesWait" /\ pc'[w] # "routesWait"
           /\ Youngest(w)' = Youngest(w) /\ piece'[w] = piece[w]
           /\ Len(inflight[w]) <= Room(w)'
  <2>1. inflight[w] \in Seq(SUBSET Copies) /\ Copies' = Copies
    BY ShapeKept DEF Queue
  <2>2. inflight[w] # <<>> => inflight[w][1] # {}
    BY DEF Queue
  <2>3. \A i \in 1 .. Len(inflight[w]) :
          inflight[w][i] # {} => inflight[w][i] = Group(w, piece[w], Youngest(w) - Len(inflight[w]) + i - 1)
    BY <1>3 DEF Queue, TileOf
  <2>4. \A i \in 1 .. Len(inflight'[w]) :
          inflight'[w][i] # {} =>
             inflight'[w][i] = Group(w, piece[w], TileOf(w, i))'
    BY <1>3, <2>3, GroupNext
  <2>5. QED
    BY <1>3, <2>1, <2>2, <2>4 DEF Queue
<1>4. QED
  BY <1>2, <1>3

LEMMA QueueTrim ==
  ASSUME UNCHANGED <<shape, work>>, NEW w, NEW s \in Seq(SUBSET Copies), Len(s) <= 3,
         inflight'[w] = Trim(s), Len(s) <= Room(w)', Youngest(w)' \in Int,
         \A i \in 1 .. Len(s) :
            s[i] # {} =>
               IF pc'[w] = "routesWait" THEN w = FirstWarp /\ s[i] = {<<<<"route">>, piece'[w]>>}
               ELSE s[i] = Group(w, piece'[w], Youngest(w)' - Len(s) + i - 1)
  PROVE  Queue(w)'
<1> DEFINE r == Trim(s)
<1>1. PICK d \in 0 .. Len(s) : /\ Len(r) = Len(s) - d
                               /\ \A i \in 1 .. Len(r) : r[i] = s[i + d]
  BY TrimIs
<1>2. r \in Seq(SUBSET Copies) /\ (r # <<>> => r[1] # {})
  BY TrimIs
<1> HIDE DEF r
<1>3. Len(s) \in Nat /\ Len(r) \in Nat
  BY <1>2
<1>4. Len(inflight'[w]) <= Room(w)'
  <2>1. Room(w)' \in {0, 1, 2, 3}
    BY DEF Room
  <2>2. QED
    BY <1>1, <1>3, <2>1 DEF r
<1>5. ASSUME NEW i \in 1 .. Len(r), r[i] # {}
      PROVE  IF pc'[w] = "routesWait" THEN w = FirstWarp /\ r[i] = {<<<<"route">>, piece'[w]>>}
             ELSE r[i] = Group(w, piece'[w], Youngest(w)' - Len(r) + i - 1)
  <2>1. i + d \in 1 .. Len(s) /\ r[i] = s[i + d]
    BY <1>1, <1>3
  <2>2. Youngest(w)' - Len(s) + (i + d) - 1 = Youngest(w)' - Len(r) + i - 1
    BY <1>1, <1>3
  <2>3. QED
    BY <1>5, <2>1, <2>2
<1>6. \A i \in 1 .. Len(inflight'[w]) :
         inflight'[w][i] # {} =>
            IF pc'[w] = "routesWait"
            THEN FirstWarp' = FirstWarp /\ w = FirstWarp /\ inflight'[w][i] = {<<<<"route">>, piece'[w]>>}
            ELSE inflight'[w][i] = Group(w, piece[w], TileOf(w, i))'
  BY <1>5, GroupNext, ShapeKept DEF r
<1>7. QED
  BY <1>2, <1>4, <1>6, ShapeKept DEF Queue, r

LEMMA QueueKept ==
  ASSUME Framed, NEW w \in Warps, Local(w), Queue(w), WarpStep(w),
         pc[w] \in {"prefetch", "stage"} /\ w \notin waits => smem[<<"rows">>] = piece[w]
  PROVE  Queue(w)'
<1> DEFINE q == inflight[w]
           p == piece[w]
           t == tile[w]
<1>1. UNCHANGED <<shape, work>> /\ DOMAIN pc = Warps /\ DOMAIN piece = Warps /\ DOMAIN tile = Warps
      /\ DOMAIN inflight = Warps
  BY FrameStep DEF Rest, Framed
<1>2. q \in Seq(SUBSET Copies) /\ Len(q) \in Nat /\ Len(q) <= Room(w)
      /\ \A i \in 1 .. Len(q) :
            q[i] # {} => IF pc[w] = "routesWait" THEN w = FirstWarp /\ q[i] = {<<<<"route">>, p>>}
                         ELSE q[i] = Group(w, p, Youngest(w) - Len(q) + i - 1)
  <2>1. q \in Seq(SUBSET Copies)
    BY DEF Queue
  <2>2. QED
    BY <2>1 DEF Queue, TileOf
<1>3. t \in Nat /\ pc[w] \in Places /\ (pc[w] # "end" => p \in 1 .. Len(work) /\ Piece(w) = work[p])
  BY PieceIs DEF Local
<1>4. ASSUME pc'[w] \in Idle, inflight'[w] = q, q = <<>>
      PROVE  Queue(w)'
  BY <1>1, <1>4, QueueSame
<1>5. pc[w] \in Idle => q = <<>>
  BY EmptyQueue
<1>6. CASE Land(w)
  <2>1. UNCHANGED <<pc, piece, tile>>
    BY <1>6 DEF Land
  <2>2. PICK i \in DOMAIN q : inflight' = [inflight EXCEPT ![w] = Trim([@ EXCEPT ![i] = {}])]
    BY <1>6 DEF Land
  <2> DEFINE s == [q EXCEPT ![i] = {}]
  <2>3. inflight'[w] = Trim(s)
    BY <1>1, <2>2
  <2>4. s \in Seq(SUBSET Copies) /\ Len(s) = Len(q)
        /\ \A j \in 1 .. Len(s) : s[j] = IF j = i THEN {} ELSE q[j]
    BY <1>2
  <2> HIDE DEF s
  <2>5. Room(w)' = Room(w) /\ Room(w) \in {0, 1, 2, 3} /\ Youngest(w)' = Youngest(w) /\ Youngest(w) \in Int
    BY <1>3, <2>1 DEF Room, Youngest
  <2>6. \A j \in 1 .. Len(s) :
          s[j] # {} =>
             IF pc'[w] = "routesWait" THEN w = FirstWarp /\ s[j] = {<<<<"route">>, piece'[w]>>}
             ELSE s[j] = Group(w, piece'[w], Youngest(w)' - Len(s) + j - 1)
    BY <1>2, <2>1, <2>4, <2>5
  <2>7. QED
    <3>1. Len(s) <= 3 /\ Len(s) <= Room(w)' /\ Youngest(w)' \in Int
      BY <1>2, <2>4, <2>5
    <3>2. s \in Seq(SUBSET Copies) /\ UNCHANGED <<shape, work>>
      BY <1>1, <2>4
    <3>3. QED
      BY <2>3, <2>6, <3>1, <3>2, QueueTrim
<1>7. CASE Routes(w)
  <2>1. pc[w] = "routes" /\ piece' = piece /\ tile' = tile
    BY <1>7 DEF Routes, At
  <2>2. q = <<>> /\ p \in 1 .. Len(work)
    BY <1>3, <1>5, <2>1 DEF Idle
  <2>3. CASE Piece(w).kind = "direct"
    <3>1. pc'[w] = "prefetch" /\ inflight' = inflight
      BY <1>1, <1>7, <2>3 DEF Routes, Arrive
    <3>2. QED
      BY <1>4, <2>2, <3>1 DEF Idle
  <2>4. CASE Piece(w).kind # "direct"
    <3> DEFINE mine == IF w # FirstWarp THEN {} ELSE {<<<<"route">>, p>>}
               s == q \o <<mine>>
    <3>1. pc'[w] = "routesWait" /\ inflight'[w] = Trim(s)
      BY <1>1, <1>7, <2>4 DEF Routes, Goto, Commit
    <3>2. mine \in SUBSET Copies
      BY <2>2, RouteCopy
    <3>3. s \in Seq(SUBSET Copies) /\ Len(s) = 1 /\ s[1] = mine
      BY <2>2, <3>2
    <3> HIDE DEF s
    <3>4. Room(w)' = 1 /\ Youngest(w)' = 0
      BY <3>1 DEF Room, Youngest
    <3>5. \A j \in 1 .. Len(s) : s[j] # {} => w = FirstWarp /\ s[j] = {<<<<"route">>, piece'[w]>>}
      BY <2>1, <3>3
    <3>6. \A j \in 1 .. Len(s) :
             s[j] # {} =>
                IF pc'[w] = "routesWait" THEN w = FirstWarp /\ s[j] = {<<<<"route">>, piece'[w]>>}
                ELSE s[j] = Group(w, piece'[w], Youngest(w)' - Len(s) + j - 1)
      BY <3>1, <3>5
    <3>7. Len(s) <= 3 /\ Len(s) <= Room(w)' /\ Youngest(w)' \in Int
      BY <3>3, <3>4
    <3>8. QED
      BY <1>1, <3>1, <3>3, <3>6, <3>7, QueueTrim
  <2>5. QED
    BY <2>3, <2>4
<1>8. CASE RoutesWait(w)
  <2>1. pc'[w] = "count" /\ inflight' = inflight /\ q = <<>>
    BY <1>1, <1>8, EmptyQueue DEF RoutesWait, Arrive, Waited
  <2>2. QED
    BY <1>4, <2>1 DEF Idle
<1>9. CASE Prefetch(w)
  <2> DEFINE gs == [i \in 1 .. Stages - 1 |-> Staged(w, i - 1)]
             s == q \o gs
  <2>1. pc[w] = "prefetch" /\ w \notin waits /\ pc'[w] = "prefetchWait" /\ piece' = piece /\ tile'[w] = 0
        /\ inflight'[w] = Trim(s)
    BY <1>1, <1>9 DEF Prefetch, At, Goto, Commit
  <2>2. q = <<>> /\ p \in 1 .. Len(work)
    BY <1>3, <1>5, <2>1 DEF Idle
  <2>3. \A i \in 1 .. 3 : gs[i] = Group(w, p, i - 1) /\ Group(w, p, i - 1) \in SUBSET Copies
    <3>1. ASSUME NEW i \in 1 .. 3
          PROVE  gs[i] = Group(w, p, i - 1) /\ Group(w, p, i - 1) \in SUBSET Copies
      <4>1. i - 1 \in Nat /\ i \in 1 .. Stages - 1
        BY DEF Stages
      <4>2. Staged(w, i - 1) = Group(w, p, i - 1)
        BY <2>1, <2>2, <4>1, StagedIs
      <4>3. QED
        BY <2>2, <4>1, <4>2, GroupIs
    <3>2. QED
      BY <3>1
  <2>4. gs \in Seq(SUBSET Copies) /\ Len(gs) = 3
    <3>1. gs = [i \in 1 .. 3 |-> gs[i]]
      BY DEF Stages
    <3>2. \A i \in 1 .. 3 : gs[i] \in SUBSET Copies
      BY <2>3
    <3> HIDE DEF gs
    <3>3. QED
      BY <3>1, <3>2
  <2> HIDE DEF gs
  <2>5. s \in Seq(SUBSET Copies) /\ Len(s) = 3 /\ \A i \in 1 .. 3 : s[i] = Group(w, p, i - 1)
    BY <2>2, <2>3, <2>4
  <2> HIDE DEF s
  <2>6. Room(w)' = 3 /\ Youngest(w)' = 3
    BY <2>1, RoomNext
  <2>7. \A i \in 1 .. Len(s) :
           s[i] # {} =>
              IF pc'[w] = "routesWait" THEN w = FirstWarp /\ s[i] = {<<<<"route">>, piece'[w]>>}
              ELSE s[i] = Group(w, piece'[w], Youngest(w)' - Len(s) + i - 1)
    <3>1. ASSUME NEW i \in 1 .. Len(s)
          PROVE  s[i] = Group(w, piece'[w], Youngest(w)' - Len(s) + i - 1)
      <4>1. Youngest(w)' - Len(s) + i - 1 = i - 1 /\ piece'[w] = p
        BY <2>1, <2>5, <2>6
      <4>2. QED
        BY <2>5, <4>1
    <3>2. QED
      BY <2>1, <3>1
  <2>8. Len(s) <= 3 /\ Len(s) <= Room(w)' /\ Youngest(w)' \in Int
    BY <2>5, <2>6
  <2>9. QED
    BY <1>1, <2>1, <2>5, <2>7, <2>8, QueueTrim
<1>10. CASE PrefetchWait(w)
  <2>1. pc[w] = "prefetchWait" /\ pc'[w] = "reload" /\ inflight' = inflight /\ piece' = piece
        /\ tile'[w] = 0 /\ t = 0 /\ Len(q) <= 2
    BY <1>1, <1>10 DEF PrefetchWait, Arrive, Waited, Local, At, Stages
  <2>2. Room(w)' = 2 /\ Youngest(w) = 3 /\ Youngest(w)' = 3
    BY <2>1, RoomIs, RoomNext
  <2>3. QED
    BY <1>1, <2>1, <2>2, QueueSame
<1>11. CASE Reload(w)
  <2>1. pc[w] = "reload" /\ pc'[w] = "stage" /\ inflight' = inflight /\ piece' = piece /\ tile' = tile
    BY <1>1, <1>11 DEF Reload, Goto, At
  <2>2. Room(w)' = 2 /\ Room(w) = 2 /\ Youngest(w)' = Youngest(w)
    BY <2>1, RoomIs, RoomNext
  <2>3. QED
    BY <1>1, <1>2, <2>1, <2>2, QueueSame
<1>12. CASE StageAhead(w)
  <2> DEFINE s == q \o <<Staged(w, t + Stages - 1)>>
  <2>1. pc[w] = "stage" /\ w \notin waits /\ pc'[w] = "stageWait" /\ piece' = piece /\ tile' = tile
        /\ inflight'[w] = Trim(s)
    BY <1>1, <1>12 DEF StageAhead, At, Goto, Commit
  <2>2. p \in 1 .. Len(work) /\ smem[<<"rows">>] = p
    BY <1>3, <2>1
  <2>3. Staged(w, t + Stages - 1) = Group(w, p, t + 3) /\ Group(w, p, t + 3) \in SUBSET Copies
    <3>1. t + Stages - 1 = t + 3 /\ t + 3 \in Nat
      BY <1>3 DEF Stages
    <3>2. QED
      BY <2>2, <3>1, StagedIs, GroupIs
  <2>4. Room(w) = 2 /\ Youngest(w) = t + 3 /\ Room(w)' = 3 /\ Youngest(w)' = t + 4
    BY <2>1, RoomIs, RoomNext
  <2>5. s \in Seq(SUBSET Copies) /\ Len(s) = Len(q) + 1 /\ s[Len(q) + 1] = Group(w, p, t + 3)
        /\ \A i \in 1 .. Len(q) : s[i] = q[i]
    BY <1>2, <2>3
  <2> HIDE DEF s
  <2>6. \A i \in 1 .. Len(s) : s[i] # {} => s[i] = Group(w, p, t + 4 - Len(s) + i - 1)
    <3>1. ASSUME NEW i \in 1 .. Len(s), s[i] # {}
          PROVE  s[i] = Group(w, p, t + 4 - Len(s) + i - 1)
      <4>1. CASE i \in 1 .. Len(q)
        <5>1. s[i] = Group(w, p, Youngest(w) - Len(q) + i - 1)
          BY <1>2, <2>1, <2>5, <3>1, <4>1
        <5>2. Youngest(w) - Len(q) + i - 1 = t + 4 - Len(s) + i - 1
          BY <1>2, <1>3, <2>4, <2>5, <4>1
        <5>3. QED
          BY <5>1, <5>2
      <4>2. CASE i \notin 1 .. Len(q)
        <5>1. i = Len(q) + 1
          BY <1>2, <2>5, <4>2
        <5>2. t + 4 - Len(s) + i - 1 = t + 3
          BY <1>2, <1>3, <2>5, <5>1
        <5>3. QED
          BY <2>5, <5>1, <5>2
      <4>3. QED
        BY <4>1, <4>2
    <3>2. QED
      BY <3>1
  <2>7. Len(s) <= 3
    BY <1>2, <2>4, <2>5
  <2>8. piece'[w] = p /\ t + 4 = Youngest(w)'
    BY <2>1, <2>4
  <2>9. \A i \in 1 .. Len(s) :
           s[i] # {} =>
              IF pc'[w] = "routesWait" THEN w = FirstWarp /\ s[i] = {<<<<"route">>, piece'[w]>>}
              ELSE s[i] = Group(w, piece'[w], Youngest(w)' - Len(s) + i - 1)
    <3>1. ASSUME NEW i \in 1 .. Len(s), s[i] # {}
          PROVE  s[i] = Group(w, piece'[w], Youngest(w)' - Len(s) + i - 1)
      <4>1. s[i] = Group(w, p, t + 4 - Len(s) + i - 1)
        BY <2>6, <3>1
      <4>2. Youngest(w)' - Len(s) + i - 1 = t + 4 - Len(s) + i - 1
        BY <1>3, <2>4
      <4>3. QED
        BY <2>8, <4>1, <4>2
    <3>2. QED
      BY <2>1, <3>1
  <2>10. Len(s) <= Room(w)' /\ Youngest(w)' \in Int
    BY <1>3, <2>4, <2>7
  <2>11. QED
    BY <1>1, <2>1, <2>5, <2>7, <2>9, <2>10, QueueTrim
<1>13. CASE StageWait(w)
  <2>1. pc[w] = "stageWait" /\ pc'[w] = "next" /\ inflight' = inflight /\ piece' = piece
        /\ tile' = tile /\ Len(q) <= 2
    BY <1>1, <1>13 DEF StageWait, Arrive, Waited, At, Stages
  <2>2. Room(w)' = 2 /\ Youngest(w) = Youngest(w)'
    BY <2>1, RoomIs, RoomNext
  <2>3. QED
    BY <1>1, <2>1, <2>2, QueueSame
<1>14. CASE NextTile(w)
  <2>1. pc[w] = "next" /\ inflight' = inflight /\ piece' = piece /\ tile'[w] = t + 1
    BY <1>1, <1>14 DEF NextTile, At
  <2>2. Room(w) = 2 /\ Youngest(w) = t + 4
    BY <2>1, RoomIs
  <2>3. CASE t + 1 < Piece(w).tiles
    <3>1. pc'[w] \in {"stage", "reload"}
      BY <1>1, <1>14, <2>3 DEF NextTile, Goto, Arrive
    <3>2. Room(w)' = 2 /\ Youngest(w)' = t + 4
      BY <1>3, <2>1, <3>1, RoomNext
    <3>3. QED
      BY <1>1, <1>2, <2>1, <2>2, <3>1, <3>2, QueueSame
  <2>4. CASE ~(t + 1 < Piece(w).tiles)
    <3>1. pc'[w] \in {"finish", "fold"}
      BY <1>1, <1>14, <2>4 DEF NextTile, Goto, Arrive
    <3>2. q = <<>>
      <4>1. SUFFICES ASSUME q # <<>> PROVE FALSE
        OBVIOUS
      <4>2. q[1] # {} /\ 1 \in 1 .. Len(q)
        BY <1>2, <4>1 DEF Queue
      <4>3. q[1] = Group(w, p, Youngest(w) - Len(q) + 1 - 1)
        BY <1>2, <2>1, <4>2
      <4>4. Piece(w).tiles \in Nat /\ Piece(w) = work[p]
        BY <2>1, PieceIs
      <4>5. Youngest(w) - Len(q) + 1 - 1 >= work[p].tiles
        BY <1>2, <1>3, <2>2, <2>4, <4>4
      <4>6. QED
        BY <4>2, <4>3, <4>5 DEF Group
    <3>3. QED
      BY <1>4, <2>1, <3>1, <3>2 DEF Idle
  <2>5. QED
    BY <2>3, <2>4
<1>15. CASE /\ pc[w] \in Idle /\ inflight' = inflight /\ pc'[w] \in Idle
  BY <1>4, <1>5, <1>15
<1>16. CASE Count(w) \/ ReadValid(w) \/ Fold(w) \/ FoldMiddle(w) \/ FoldFirst(w) \/ Finish(w)
            \/ Merge(w) \/ Merged(w) \/ Store(w) \/ Drain(w)
  <2>1. pc[w] \in Idle /\ inflight' = inflight
    BY <1>16 DEF Idle, At, Count, ReadValid, Fold, FoldMiddle, FoldFirst, Finish, Merge, Merged, Store, Drain
  <2>2. pc'[w] \in Idle
    BY <1>1, <1>16 DEF Idle, At, Count, ReadValid, Fold, FoldMiddle, FoldFirst, Finish, Merge, Merged,
       Store, Drain, Goto, Arrive, NextPiece
  <2>3. QED
    BY <1>15, <2>1, <2>2
<1>17. QED
  BY <1>6, <1>7, <1>8, <1>9, <1>10, <1>11, <1>12, <1>13, <1>14, <1>16 DEF WarpStep

-----------------------------------------------------------------------------
(* What a warp touches between two barriers. *)

LEMMA MayPrefetch ==
  ASSUME NEW w, NEW p, NEW g, g = <<"prefetch", p, 0>>
  PROVE  /\ MayRead(w, g) = IF work[p].kind = "packed" THEN {<<"valid">>} ELSE {}
         /\ MayWrite(w, g) = IF w = FirstWarp /\ work[p].kind = "direct" THEN {<<"route">>, <<"rows">>} ELSE {}
BY DEF MayRead, MayWrite

LEMMA MayCount ==
  ASSUME NEW w, NEW p, NEW g, g = <<"count", p, 0>>
  PROVE  /\ MayRead(w, g) = {}
         /\ MayWrite(w, g) = IF w = FirstWarp THEN {<<"route">>} ELSE {}
BY DEF MayRead, MayWrite

LEMMA MayReadValid ==
  ASSUME NEW w, NEW p, NEW g, g = <<"readValid", p, 0>>
  PROVE  /\ MayRead(w, g) = {<<"route">>}
         /\ MayWrite(w, g) = (IF w = FirstWarp THEN {<<"rows">>} ELSE {})
                             \cup (IF w = LastWarp THEN {<<"valid">>} ELSE {})
BY DEF MayRead, MayWrite

LEMMA MayReload ==
  ASSUME NEW w, NEW p, NEW g, g = <<"reload", p, 0>>
  PROVE  /\ MayRead(w, g) = {<<"rows">>}
         /\ MayWrite(w, g) = UNION {StageCells(w, u) : u \in 0 .. 2}
BY DEF MayRead, MayWrite

LEMMA MayReloadLater ==
  ASSUME NEW w, NEW p, NEW t, t # 0, NEW g, g = <<"reload", p, t>>
  PROVE  /\ MayRead(w, g) = ReadOf(t, w)
         /\ MayWrite(w, g) = {}
BY DEF MayRead, MayWrite

LEMMA MayMultiply ==
  ASSUME NEW w, NEW p, NEW t, NEW g, g = <<"next", p, t>>
  PROVE  /\ MayRead(w, g) = {<<"rows">>} \cup ReadOf(t, w)
         /\ MayWrite(w, g) = StageCells(w, t + 3)
BY DEF MayRead, MayWrite

LEMMA MayFoldMiddle ==
  ASSUME NEW w, NEW p, NEW m, NEW g, g = <<"foldMiddle", p, m>>
  PROVE  /\ MayRead(w, g) = {}
         /\ MayWrite(w, g) = IF w[1] >= 2 THEN {Slot(w, w[1] - 2)} ELSE {}
BY DEF MayRead, MayWrite

LEMMA MayFoldFirst ==
  ASSUME NEW w, NEW p, NEW m, NEW g, g = <<"foldFirst", p, m>>
  PROVE  /\ MayRead(w, g) = IF shape.rows = 4 /\ w[1] = 1 THEN {Slot(w, 0), Slot(w, 1)} ELSE {}
         /\ MayWrite(w, g) = IF w[1] = 1 THEN {Slot(w, 0)} ELSE {}
BY DEF MayRead, MayWrite

LEMMA MayFold ==
  ASSUME NEW w, NEW p, NEW m, NEW g, g = <<"fold", p, m>>
  PROVE  /\ MayRead(w, g) = IF shape.rows # 1 /\ w[1] = 0 THEN {Slot(w, 0)} ELSE {}
         /\ MayWrite(w, g) = {}
BY DEF MayRead, MayWrite

LEMMA MayFinish ==
  ASSUME NEW w, NEW p, NEW g, g = <<"finish", p, 0>>
  PROVE  /\ MayRead(w, g) = IF shape.rows # 1 /\ w[1] = 0 THEN {Slot(w, 0)} ELSE {}
         /\ MayWrite(w, g) = {}
BY DEF MayRead, MayWrite

LEMMA MayDrain ==
  ASSUME NEW w, NEW p, NEW g, g = <<"drain", p, 0>>
  PROVE  /\ MayRead(w, g) = {}
         /\ MayWrite(w, g) = IF w[1] = 0 THEN {<<"out", w[2]>>} ELSE {}
BY DEF MayRead, MayWrite

LEMMA MayLeave ==
  ASSUME NEW w, NEW p, NEW g, g = <<"routes", p, 0>> \/ g = <<"end", p, 0>>
  PROVE  /\ MayRead(w, g) = OutCells \cup {<<"route">>}
         /\ MayWrite(w, g) = {}
BY DEF MayRead, MayWrite

LEMMA MayRest ==
  ASSUME NEW w, NEW p, NEW g, g = <<"merge", p, 0>> \/ g = <<"merged", p, 0>> \/ g = <<"stop", p, 0>>
  PROVE  /\ MayRead(w, g) = {}
         /\ MayWrite(w, g) = {}
BY DEF MayRead, MayWrite

LEMMA MayNext ==
  ASSUME UNCHANGED <<shape, work>>, Phase' = Phase, NEW w
  PROVE  /\ MayRead(w, Phase)' = MayRead(w, Phase)
         /\ MayWrite(w, Phase)' = MayWrite(w, Phase)
<1>1. Warps' = Warps /\ OutCells' = OutCells /\ FirstWarp' = FirstWarp /\ LastWarp' = LastWarp
  BY ShapeKept
<1>2. MayRead(w, Phase)' = MayRead(w, Phase)
  BY <1>1 DEF MayRead, ReadOf, Slot
<1>3. MayWrite(w, Phase)' = MayWrite(w, Phase)
  BY <1>1 DEF MayWrite, Slot, StageCells, Blocks
<1>4. QED
  BY <1>2, <1>3

LEMMA FragmentIn ==
  ASSUME NEW w \in Warps, NEW t \in Nat, NEW kk \in 0 .. 1
  PROVE  FragmentCells(w, t, kk) \subseteq ReadOf(t, w)
BY DEF FragmentCells, ReadOf

LEMMA FootKept ==
  ASSUME Framed, NEW w \in Warps, Local(w), Footprint(w), WarpStep(w),
         Goal(w) = Phase, Phase' = Phase,
         pc[w] \in {"prefetch", "stage"} /\ w \notin waits => smem[<<"rows">>] = piece[w]
  PROVE  Footprint(w)'
<1> DEFINE p == piece[w]
           t == tile[w]
           m == mb[w]
<1>1. UNCHANGED <<shape, work>> /\ DOMAIN reads = Warps /\ DOMAIN writes = Warps
  BY FrameStep DEF Rest, Framed
<1>2. SUFFICES reads'[w] \subseteq MayRead(w, Phase) /\ writes'[w] \subseteq MayWrite(w, Phase)
  BY <1>1, MayNext DEF Footprint
<1>3. reads[w] \subseteq MayRead(w, Phase) /\ writes[w] \subseteq MayWrite(w, Phase)
  BY DEF Footprint
<1>4. t \in Nat /\ m \in 1 .. shape.mBlocks
      /\ (pc[w] # "end" => p \in 1 .. Len(work) /\ Piece(w) = work[p])
  BY PieceIs DEF Local
<1>5. w \notin waits => Phase = Ahead(pc[w], p, t, m)
  BY DEF Goal
<1>6. shape.rows \in {1, 2, 4} /\ w[1] \in 0 .. shape.rows - 1
  BY Geometry, WarpIs
<1>7. CASE UNCHANGED <<reads, writes>>
  BY <1>3, <1>7
<1>8. CASE Routes(w)
  <2>1. w \notin waits /\ pc[w] = "routes" /\ reads' = reads
    BY <1>8 DEF Routes, At
  <2>2. Phase = StartOf(p) /\ p \in 1 .. Len(work) /\ Len(work) \in Nat
    BY <1>4, <1>5, <2>1, AheadOf, Geometry
  <2>3. CASE Piece(w).kind = "direct"
    <3>1. Phase = <<"prefetch", p, 0>> /\ work[p].kind = "direct"
      BY <1>4, <2>1, <2>2, <2>3 DEF StartOf
    <3>2. writes'[w] = writes[w] \cup IF w # FirstWarp THEN {} ELSE {<<"route">>, <<"rows">>}
      <4> DEFINE mine == IF w # FirstWarp THEN {} ELSE {<<<<"route">>, p>>, <<<<"rows">>, p>>}
      <4>1. writes'[w] = writes[w] \cup {q[1] : q \in mine}
        BY <1>1, <1>8, <2>3 DEF Routes, NoteWrites
      <4>2. {q[1] : q \in {<<<<"route">>, p>>, <<<<"rows">>, p>>}} = {<<"route">>, <<"rows">>}
        OBVIOUS
      <4>3. QED
        BY <4>1, <4>2
    <3>3. QED
      BY <1>3, <2>1, <3>1, <3>2, MayPrefetch
  <2>4. CASE Piece(w).kind = "packed"
    <3>1. Phase = <<"count", p, 0>>
      BY <1>4, <2>1, <2>2, <2>4 DEF StartOf
    <3>2. writes'[w] = writes[w] \cup IF w # FirstWarp THEN {} ELSE {<<"route">>}
      <4> DEFINE mine == IF w # FirstWarp THEN {} ELSE {<<<<"route">>, p>>}
      <4>1. writes'[w] = writes[w] \cup {q[1] : q \in mine}
        BY <1>1, <1>8, <2>4 DEF Routes, NoteWrites
      <4>2. {q[1] : q \in {<<<<"route">>, p>>}} = {<<"route">>}
        OBVIOUS
      <4>3. QED
        BY <4>1, <4>2
    <3>3. QED
      BY <1>3, <2>1, <3>1, <3>2, MayCount
  <2>5. QED
    BY <1>8, <2>3, <2>4 DEF Routes
<1>9. CASE Count(w)
  <2>1. w \notin waits /\ pc[w] = "count"
    BY <1>9 DEF Count, At
  <2>2. Phase = <<"readValid", p, 0>>
    BY <1>5, <2>1, AheadOf
  <2>3. /\ reads'[w] \subseteq reads[w] \cup {<<"route">>}
        /\ writes'[w] \subseteq writes[w] \cup (IF w = FirstWarp THEN {<<"rows">>} ELSE {})
                                          \cup (IF w = LastWarp THEN {<<"valid">>} ELSE {})
    <3> DEFINE mine == (IF w = LastWarp THEN {<<<<"valid">>, smem[<<"route">>]>>} ELSE {})
                       \cup (IF w = FirstWarp THEN {<<<<"rows">>, smem[<<"route">>]>>} ELSE {})
    <3>1. /\ reads'[w] = reads[w] \cup (IF mine = {} THEN {} ELSE {<<"route">>})
          /\ writes'[w] = writes[w] \cup {q[1] : q \in mine}
      BY <1>1, <1>9 DEF Count, NoteReads, NoteWrites
    <3>2. \A q \in mine : \/ w = LastWarp /\ q[1] = <<"valid">>
                          \/ w = FirstWarp /\ q[1] = <<"rows">>
      OBVIOUS
    <3> HIDE DEF mine
    <3>3. QED
      BY <3>1, <3>2
  <2>4. QED
    BY <1>3, <2>2, <2>3, MayReadValid
<1>10. CASE ReadValid(w)
  <2>1. w \notin waits /\ pc[w] = "readValid" /\ writes' = writes /\ reads'[w] = reads[w] \cup {<<"valid">>}
        /\ work[p].kind = "packed"
    BY <1>1, <1>4, <1>10 DEF ReadValid, At, NoteReads, Local
  <2>2. Phase = <<"prefetch", p, 0>>
    BY <1>5, <2>1, AheadOf
  <2>3. QED
    BY <1>3, <2>1, <2>2, MayPrefetch
<1>11. CASE Prefetch(w)
  <2>1. /\ w \notin waits /\ pc[w] = "prefetch" /\ reads'[w] = reads[w] \cup {<<"rows">>}
        /\ writes'[w] = writes[w] \cup UNION {StagedCells(w, u) : u \in 0 .. 2}
    BY <1>1, <1>11 DEF Prefetch, At, NoteReads, NoteWrites, Stages
  <2>2. Phase = <<"reload", p, 0>>
    BY <1>5, <2>1, AheadOf
  <2>3. \A u \in 0 .. 2 : StagedCells(w, u) \subseteq StageCells(w, u)
    BY <1>4, <2>1, StagedIs
  <2>4. writes'[w] \subseteq UNION {StageCells(w, u) : u \in 0 .. 2}
    BY <1>3, <2>1, <2>2, <2>3, MayReload
  <2>5. QED
    BY <1>3, <2>1, <2>2, <2>4, MayReload
<1>12. CASE Reload(w)
  <2>1. w \notin waits /\ pc[w] = "reload" /\ reads'[w] = reads[w] \cup FragmentCells(w, t, 0) /\ writes' = writes
    BY <1>1, <1>12 DEF Reload, At, NoteReads
  <2>2. Phase = <<"next", p, t>>
    BY <1>5, <2>1, AheadOf
  <2>3. QED
    BY <1>3, <1>4, <2>1, <2>2, MayMultiply, FragmentIn
<1>13. CASE StageAhead(w)
  <2>1. /\ w \notin waits /\ pc[w] = "stage"
        /\ reads'[w] = reads[w] \cup (FragmentCells(w, t, 1) \cup {<<"rows">>})
        /\ writes'[w] = writes[w] \cup StagedCells(w, t + Stages - 1)
    BY <1>1, <1>13 DEF StageAhead, At, NoteReads, NoteWrites
  <2>2. Phase = <<"next", p, t>>
    BY <1>5, <2>1, AheadOf
  <2>3. StagedCells(w, t + Stages - 1) \subseteq StageCells(w, t + 3)
    <3>1. t + Stages - 1 = t + 3 /\ t + 3 \in Nat
      BY <1>4 DEF Stages
    <3>2. QED
      BY <1>4, <2>1, <3>1, StagedIs
  <2>4. QED
    BY <1>3, <1>4, <2>1, <2>2, <2>3, MayMultiply, FragmentIn
<1>14. CASE NextTile(w)
  <2>1. w \notin waits /\ pc[w] = "next" /\ writes' = writes
    BY <1>14 DEF NextTile, At
  <2>2. Phase = AfterTile(p, t)
    BY <1>5, <2>1, AheadOf
  <2>3. CASE t + 1 < Piece(w).tiles
    <3>1. reads'[w] = reads[w] \cup FragmentCells(w, t + 1, 0)
      BY <1>1, <1>14, <2>3 DEF NextTile, NoteReads
    <3>2. t + 1 \in Nat /\ t + 1 # 0
      BY <1>4
    <3>3. Phase = <<"reload", p, t + 1>> \/ Phase = <<"next", p, t + 1>>
      BY <1>4, <2>1, <2>2, <2>3 DEF AfterTile
    <3>4. ReadOf(t + 1, w) \subseteq MayRead(w, Phase)
      <4>1. CASE Phase = <<"reload", p, t + 1>>
        BY <3>2, <4>1, MayReloadLater
      <4>2. CASE Phase = <<"next", p, t + 1>>
        BY <4>2, MayMultiply
      <4>3. QED
        BY <3>3, <4>1, <4>2
    <3>5. QED
      BY <1>3, <2>1, <3>1, <3>2, <3>4, FragmentIn
  <2>4. CASE ~(t + 1 < Piece(w).tiles)
    <3>1. reads'[w] = reads[w]
      BY <1>1, <1>14, <2>4 DEF NextTile, NoteReads
    <3>2. QED
      BY <1>3, <2>1, <3>1
  <2>5. QED
    BY <2>3, <2>4
<1>15. CASE Fold(w)
  <2> DEFINE mine == IF w[1] < 2 \/ shape.rows < 4 THEN {} ELSE {<<Slot(w, w[1] - 2), acc[w][m]>>}
  <2>1. w \notin waits /\ pc[w] = "fold" /\ reads' = reads
        /\ writes'[w] = writes[w] \cup {q[1] : q \in mine}
    BY <1>1, <1>15 DEF Fold, At, NoteWrites
  <2>2. CASE w[1] < 2 \/ shape.rows < 4
    BY <1>3, <2>1, <2>2
  <2>3. CASE ~(w[1] < 2 \/ shape.rows < 4)
    <3>1. Phase = <<"foldMiddle", p, m>> /\ w[1] >= 2
      BY <1>5, <1>6, <2>1, <2>3, AheadOf
    <3>2. writes'[w] = writes[w] \cup {Slot(w, w[1] - 2)}
      BY <2>1, <2>3
    <3>3. QED
      BY <1>3, <2>1, <3>1, <3>2, MayFoldMiddle
  <2>4. QED
    BY <2>2, <2>3
<1>16. CASE FoldMiddle(w)
  <2>1. /\ w \notin waits /\ pc[w] = "foldMiddle"
        /\ reads'[w] = reads[w] \cup IF w[1] # 1 \/ shape.rows < 4 THEN {} ELSE {Slot(w, 0), Slot(w, 1)}
        /\ writes'[w] = writes[w] \cup IF w[1] # 1 THEN {} ELSE {Slot(w, 0)}
    <3> DEFINE slots == IF w[1] # 1 \/ shape.rows < 4 THEN {} ELSE {Slot(w, 0), Slot(w, 1)}
               sum == IF slots = {} THEN acc[w][mb[w]]
                      ELSE Join(Join(acc[w][mb[w]], smem[Slot(w, 1)]), smem[Slot(w, 0)])
               mine == IF w[1] # 1 THEN {} ELSE {<<Slot(w, 0), sum>>}
    <3>1. w \notin waits /\ pc[w] = "foldMiddle" /\ reads'[w] = reads[w] \cup slots
          /\ writes'[w] = writes[w] \cup {q[1] : q \in mine}
      BY <1>1, <1>16 DEF FoldMiddle, At, NoteWrites, NoteReads
    <3> HIDE DEF sum
    <3>2. {q[1] : q \in mine} = IF w[1] # 1 THEN {} ELSE {Slot(w, 0)}
      <4>1. {q[1] : q \in {<<Slot(w, 0), sum>>}} = {Slot(w, 0)}
        OBVIOUS
      <4>2. QED
        BY <4>1
    <3>3. QED
      BY <3>1, <3>2
  <2>2. Phase = <<"foldFirst", p, m>>
    BY <1>5, <2>1, AheadOf
  <2>3. reads'[w] \subseteq MayRead(w, Phase)
    BY <1>3, <1>6, <2>1, <2>2, MayFoldFirst
  <2>4. writes'[w] \subseteq MayWrite(w, Phase)
    BY <1>3, <1>6, <2>1, <2>2, MayFoldFirst
  <2>5. QED
    BY <2>3, <2>4
<1>17. CASE FoldFirst(w)
  <2>1. w \notin waits /\ pc[w] = "foldFirst" /\ writes' = writes
        /\ reads'[w] = reads[w] \cup IF w[1] # 0 THEN {} ELSE {Slot(w, 0)}
    BY <1>1, <1>17 DEF FoldFirst, At, NoteReads
  <2>2. Phase = <<"fold", p, m + 1>> \/ Phase = <<"finish", p, 0>>
    BY <1>5, <2>1, AheadOf
  <2>3. shape.rows # 1
    BY <2>1 DEF Local, Folding
  <2>4. QED
    BY <1>3, <2>1, <2>2, <2>3, MayFold, MayFinish
<1>18. CASE Store(w)
  <2> DEFINE mine == IF w[1] # 0 THEN {} ELSE {<<<<"out", w[2]>>, acc[w]>>}
  <2>1. w \notin waits /\ pc[w] = "store" /\ reads' = reads
        /\ writes'[w] = writes[w] \cup IF w[1] # 0 THEN {} ELSE {<<"out", w[2]>>}
    <3>1. w \notin waits /\ pc[w] = "store" /\ reads' = reads
          /\ writes'[w] = writes[w] \cup {q[1] : q \in mine}
      BY <1>1, <1>18 DEF Store, At, NoteWrites
    <3>2. {q[1] : q \in {<<<<"out", w[2]>>, acc[w]>>}} = {<<"out", w[2]>>}
      OBVIOUS
    <3>3. QED
      BY <3>1, <3>2
  <2>2. Phase = <<"drain", p, 0>>
    BY <1>5, <2>1, AheadOf
  <2>3. QED
    BY <1>3, <1>6, <2>1, <2>2, MayDrain
<1>19. CASE Drain(w)
  <2>1. w \notin waits /\ pc[w] = "drain" /\ writes' = writes
        /\ reads'[w] = reads[w] \cup (OutCells \cup {<<"route">>})
    BY <1>1, <1>19 DEF Drain, At, NoteReads
  <2>2. Phase = <<"end", p + 1, 0>> \/ Phase = <<"routes", p + 1, 0>>
    BY <1>5, <2>1, AheadOf
  <2>3. QED
    BY <1>3, <2>1, <2>2, MayLeave
<1>20. QED
  BY <1>7, <1>8, <1>9, <1>10, <1>11, <1>12, <1>13, <1>14, <1>15, <1>16, <1>17, <1>18, <1>19
     DEF WarpStep, Land, RoutesWait, PrefetchWait, StageWait, Finish, Merge, Merged

-----------------------------------------------------------------------------
(* Which cells share bytes. *)

LEMMA NoUnits ==
  ASSUME NEW x, NEW y, x[1] # y[1],
         x[1] \in {"a", "route", "rows"} \/ y[1] \in {"a", "route", "rows"}
  PROVE  ~ Overlap(x, y) /\ ~ Overlap(y, x)
<1>1. \A z : z[1] \in {"a", "route", "rows"} => Units(z) = {}
  BY DEF Units
<1>2. QED
  BY <1>1 DEF Overlap

LEMMA SameKind ==
  ASSUME NEW x, NEW y, x[1] = y[1], x # y
  PROVE  ~ Overlap(x, y) /\ ~ Overlap(y, x)
BY DEF Overlap

LEMMA StageCellIs ==
  ASSUME NEW w, NEW t, NEW x \in StageCells(w, t)
  PROVE  \/ x = <<"a", t % Stages, w>> /\ x[1] = "a"
         \/ \E k \in Blocks(w) : x = <<"b", t % Stages, k, w[2]>> /\ x[1] = "b"
BY DEF StageCells

LEMMA StageApart ==
  ASSUME Framed, NEW v \in Warps, NEW w \in Warps, v # w, NEW t, NEW u,
         NEW x \in StageCells(v, t), NEW y \in StageCells(w, u)
  PROVE  ~ Overlap(x, y)
<1>1. /\ \/ x = <<"a", t % Stages, v>> /\ x[1] = "a"
         \/ \E k \in Blocks(v) : x = <<"b", t % Stages, k, v[2]>> /\ x[1] = "b"
      /\ \/ y = <<"a", u % Stages, w>> /\ y[1] = "a"
         \/ \E k \in Blocks(w) : y = <<"b", u % Stages, k, w[2]>> /\ y[1] = "b"
  BY StageCellIs
<1>2. CASE x[1] # y[1]
  <2>1. x[1] = "a" \/ y[1] = "a"
    BY <1>1, <1>2
  <2>2. QED
    BY <1>2, <2>1, NoUnits
<1>3. CASE x[1] = "a" /\ y[1] = "a"
  <2>1. x = <<"a", t % Stages, v>> /\ y = <<"a", u % Stages, w>>
    BY <1>1, <1>3
  <2>2. x # y
    BY <2>1
  <2>3. QED
    BY <1>3, <2>2, SameKind
<1>4. CASE x[1] = "b" /\ y[1] = "b"
  <2>1. PICK k \in Blocks(v) : x = <<"b", t % Stages, k, v[2]>>
    BY <1>1, <1>4
  <2>2. PICK l \in Blocks(w) : y = <<"b", u % Stages, l, w[2]>>
    BY <1>1, <1>4
  <2>3. v[2] # w[2] \/ k # l
    <3>1. CASE v[2] # w[2]
      BY <3>1
    <3>2. CASE v[2] = w[2]
      <4>1. /\ v[1] \in 0 .. shape.rows - 1 /\ w[1] \in 0 .. shape.rows - 1
            /\ v = <<v[1], v[2]>> /\ w = <<w[1], w[2]>> /\ shape.rows \in Int
        BY Geometry, WarpIs
      <4>2. v[1] # w[1]
        BY <3>2, <4>1
      <4>3. k \in {v[1], shape.rows + v[1]} /\ l \in {w[1], shape.rows + w[1]}
        BY DEF Blocks
      <4>4. k # l
        BY <4>1, <4>2, <4>3
      <4>5. QED
        BY <4>4
    <3>3. QED
      BY <3>1, <3>2
  <2>4. x # y
    BY <2>1, <2>2, <2>3
  <2>5. QED
    BY <1>4, <2>4, SameKind
<1>5. QED
  BY <1>1, <1>2, <1>3, <1>4

LEMMA StageNotRead ==
  ASSUME NEW v, NEW w, NEW t, NEW u, t % Stages # u % Stages,
         NEW x \in StageCells(v, t), NEW y \in ReadOf(u, w)
  PROVE  ~ Overlap(x, y)
<1>1. \/ x = <<"a", t % Stages, v>> /\ x[1] = "a"
      \/ \E k \in Blocks(v) : x = <<"b", t % Stages, k, v[2]>> /\ x[1] = "b"
  BY StageCellIs
<1>2. x[1] \in {"a", "b"} /\ x[2] = t % Stages
  BY <1>1
<1>3. \/ \E z \in Warps : y = <<"a", u % Stages, z>>
      \/ \E kk \in 0 .. 1 : y = <<"b", u % Stages, Iters * w[1] + kk, w[2]>>
  BY DEF ReadOf
<1>4. y[1] \in {"a", "b"} /\ y[2] = u % Stages
  BY <1>3
<1>5. CASE x[1] # y[1]
  <2>1. x[1] = "a" \/ y[1] = "a"
    BY <1>2, <1>4, <1>5
  <2>2. QED
    BY <1>5, <2>1, NoUnits
<1>6. CASE x[1] = y[1]
  <2>1. x # y
    BY <1>2, <1>4
  <2>2. QED
    BY <1>6, <2>1, SameKind
<1>7. QED
  BY <1>5, <1>6

LEMMA StageNotHead ==
  ASSUME NEW v, NEW t, NEW x \in StageCells(v, t), NEW y, y \in {<<"route">>, <<"rows">>}
  PROVE  ~ Overlap(x, y) /\ ~ Overlap(y, x)
<1>1. x[1] \in {"a", "b"}
  BY StageCellIs
<1>2. y[1] \in {"route", "rows"}
  OBVIOUS
<1>3. x[1] # y[1]
  BY <1>1, <1>2
<1>4. QED
  BY <1>2, <1>3, NoUnits

LEMMA Ahead4 ==
  ASSUME NEW t \in Nat, NEW u \in t + 1 .. t + 3
  PROVE  u % Stages # t % Stages
BY DEF Stages

\* The phases there are.
LEMMA PhaseIs ==
  ASSUME Framed, NEW w \in Warps, Local(w)
  PROVE  LET g == Goal(w) IN
         \/ \E p \in 1 .. Len(work) + 1 :
               g \in {<<"stop", p, 0>>, <<"prefetch", p, 0>>, <<"count", p, 0>>, <<"readValid", p, 0>>,
                      <<"finish", p, 0>>, <<"merge", p, 0>>, <<"merged", p, 0>>, <<"drain", p, 0>>,
                      <<"routes", p, 0>>, <<"end", p, 0>>}
         \/ \E p \in 1 .. Len(work) : \E t \in Nat : g \in {<<"reload", p, t>>, <<"next", p, t>>}
         \/ \E p \in 1 .. Len(work) : \E m \in 1 .. shape.mBlocks :
               g \in {<<"fold", p, m>>, <<"foldMiddle", p, m>>, <<"foldFirst", p, m>>}
<1> DEFINE p == piece[w]
           t == tile[w]
           m == mb[w]
<1>1. pc[w] \in Places /\ t \in Nat /\ m \in 1 .. shape.mBlocks /\ p \in 1 .. Len(work) + 1
      /\ (pc[w] # "end" => p \in 1 .. Len(work)) /\ (w \in waits => pc[w] \in Meeting)
  BY PieceIs DEF Local
<1>2. shape.mBlocks \in Nat \ {0} /\ Len(work) \in Nat
  BY Geometry
<1>3. CASE w \in waits
  <2>1. Goal(w) = Here(pc[w], p, t, m) /\ pc[w] \in Meeting
    BY <1>1, <1>3 DEF Goal
  <2>2. CASE pc[w] \in {"reload", "next"}
    BY <1>1, <2>1, <2>2, HereOf
  <2>3. CASE pc[w] \in Folding
    BY <1>1, <2>1, <2>3, HereOf DEF Folding
  <2>4. CASE pc[w] \in {"routes", "end", "prefetch", "count", "readValid", "finish", "merge", "merged", "drain"}
    BY <1>1, <2>1, <2>4, HereOf
  <2>5. QED
    BY <2>1, <2>2, <2>3, <2>4 DEF Meeting, Folding
<1>4. CASE w \notin waits
  <2>1. Goal(w) = Ahead(pc[w], p, t, m)
    BY <1>4 DEF Goal
  <2>2. CASE pc[w] \in {"routes", "end"}
    BY <1>1, <2>1, <2>2, AheadOf DEF StartOf
  <2>3. CASE pc[w] \in {"routesWait", "count", "readValid", "merge", "store"}
    BY <1>1, <2>1, <2>3, AheadOf
  <2>4. CASE pc[w] \in {"prefetch", "prefetchWait", "reload", "stage", "stageWait"}
    <3>1. Goal(w) \in {<<"reload", p, 0>>, <<"next", p, t>>}
      BY <2>1, <2>4, AheadOf
    <3>2. QED
      BY <1>1, <2>4, <3>1
  <2>5. CASE pc[w] = "next"
    <3>1. Goal(w) \in {<<"reload", p, t + 1>>, <<"next", p, t + 1>>, <<"finish", p, 0>>, <<"fold", p, 1>>}
      BY <2>1, <2>5, AheadOf DEF AfterTile
    <3>2. t + 1 \in Nat /\ 1 \in 1 .. shape.mBlocks /\ p \in 1 .. Len(work)
      BY <1>1, <1>2, <2>5
    <3>3. QED
      BY <1>1, <3>1, <3>2
  <2>6. CASE pc[w] \in {"fold", "foldMiddle"}
    <3>1. Goal(w) \in {<<"foldMiddle", p, m>>, <<"foldFirst", p, m>>}
      BY <2>1, <2>6, AheadOf
    <3>2. QED
      BY <1>1, <2>6, <3>1
  <2>7. CASE pc[w] = "foldFirst"
    <3>1. \/ m < shape.mBlocks /\ Goal(w) = <<"fold", p, m + 1>>
          \/ Goal(w) = <<"finish", p, 0>>
      BY <2>1, <2>7, AheadOf
    <3>2. m < shape.mBlocks => m + 1 \in 1 .. shape.mBlocks
      BY <1>1, <1>2
    <3>3. QED
      BY <1>1, <2>7, <3>1, <3>2
  <2>8. CASE pc[w] = "finish"
    BY <1>1, <2>1, <2>8, AheadOf
  <2>9. CASE pc[w] = "merged"
    <3>1. Goal(w) \in {<<"drain", p, 0>>, <<"stop", p + 1, 0>>, <<"prefetch", p + 1, 0>>, <<"count", p + 1, 0>>}
      BY <2>1, <2>9, AheadOf DEF StartOf
    <3>2. p + 1 \in 1 .. Len(work) + 1
      BY <1>1, <1>2, <2>9
    <3>3. QED
      BY <1>1, <3>1, <3>2
  <2>10. CASE pc[w] = "drain"
    <3>1. Goal(w) \in {<<"end", p + 1, 0>>, <<"routes", p + 1, 0>>}
      BY <2>1, <2>10, AheadOf
    <3>2. p + 1 \in 1 .. Len(work) + 1
      BY <1>1, <1>2, <2>10
    <3>3. QED
      BY <3>1, <3>2
  <2>11. QED
    BY <1>1, <2>2, <2>3, <2>4, <2>5, <2>6, <2>7, <2>8, <2>9, <2>10 DEF Places, Meeting
<1>5. QED
  BY <1>3, <1>4

-----------------------------------------------------------------------------
(* Where the copies of a warp may land, and that nobody is there. *)

MayLand(w, g) ==
    IF g[1] = "count" THEN IF w = FirstWarp THEN {<<"route">>} ELSE {}
    ELSE IF g[1] = "reload" /\ g[3] = 0 THEN UNION {StageCells(w, u) : u \in 0 .. 2}
    ELSE IF g[1] \in {"reload", "next"} THEN UNION {StageCells(w, u) : u \in g[3] + 1 .. g[3] + 3}
    ELSE {}

LEMMA InRing ==
  ASSUME Framed, NEW w \in Warps, Local(w), Queue(w), NEW i \in 1 .. Len(inflight[w]),
         inflight[w][i] # {}, pc[w] # "routesWait"
  PROVE  \E u \in Nat : /\ TileOf(w, i) = u /\ u < work[piece[w]].tiles
                        /\ inflight[w][i] = Group(w, piece[w], u)
                        /\ \/ Goal(w) = <<"reload", piece[w], 0>> /\ u \in 0 .. 2
                           \/ \E t \in Nat : \/ Goal(w) = <<"reload", piece[w], t>> /\ u \in t + 1 .. t + 2
                                             \/ Goal(w) = <<"next", piece[w], t>> /\ u \in t + 1 .. t + 3
<1> DEFINE q == inflight[w]
           p == piece[w]
           t == tile[w]
           at == TileOf(w, i)
<1>1. q \in Seq(SUBSET Copies) /\ Len(q) \in Nat /\ Len(q) <= Room(w)
  <2>1. q \in Seq(SUBSET Copies)
    BY DEF Queue
  <2>2. QED
    BY <2>1 DEF Queue
<1>2. q[i] = Group(w, p, at)
  BY DEF Queue
<1>3. at < work[p].tiles
  <2>1. ~(at >= work[p].tiles)
    BY <1>2 DEF Group
  <2>2. work[p].tiles \in Nat
    BY PieceIs, EmptyQueue, <1>1 DEF Idle
  <2>3. at \in Int
    <3>1. Youngest(w) \in Int
      BY DEF Youngest, Local
    <3>2. QED
      BY <1>1, <3>1 DEF TileOf
  <2>4. QED
    BY <2>1, <2>2, <2>3
<1>4. t \in Nat /\ p \in 1 .. Len(work) + 1 /\ pc[w] \in Places /\ (w \in waits => pc[w] \in Meeting)
      /\ (pc[w] = "prefetchWait" => t = 0) /\ at = Youngest(w) - Len(q) + i - 1
  BY DEF Local, TileOf
<1> HIDE DEF at
<1>12. t \in Nat
  BY DEF Local
<1>13. at = Youngest(w) - Len(q) + i - 1
  BY DEF TileOf, at
<1>14. \A c \in Nat : Youngest(w) \in Nat /\ Len(q) <= c => at \in Youngest(w) - c .. Youngest(w) - 1
  <2>1. \A y, c, n, j \in Nat : n <= c /\ 1 <= j /\ j <= n => y - n + j - 1 \in y - c .. y - 1
    OBVIOUS
  <2>2. Len(q) \in Nat /\ i \in Nat /\ 1 <= i /\ i <= Len(q)
    BY <1>1
  <2>3. QED
    BY <1>13, <2>1, <2>2
<1>5. Len(q) \in Nat /\ i \in Nat /\ Len(q) >= 1 /\ i >= 1 /\ i <= Len(q)
  BY <1>1
<1>6. pc[w] \in {"prefetchWait", "reload", "stage", "stageWait", "next"}
  <2>1. pc[w] \notin Idle
    <3>1. Len(q) # 0
      BY <1>5
    <3>2. q # <<>>
      BY <3>1
    <3>3. QED
      BY <3>2, EmptyQueue
  <2>2. QED
    BY <1>4, <2>1 DEF Places, Meeting, Idle
<1>7. CASE pc[w] = "prefetchWait"
  <2>1. w \notin waits
    BY <1>4, <1>7 DEF Meeting
  <2>2. Goal(w) = <<"reload", p, 0>>
    BY <1>7, <2>1, AheadOf DEF Goal
  <2>3. at \in 0 .. 2
    <3>1. Youngest(w) = 3 /\ Len(q) <= 3
      BY <1>1, <1>7, RoomIs
    <3>2. at \in Youngest(w) - 3 .. Youngest(w) - 1
      BY <1>14, <3>1
    <3>3. QED
      BY <3>1, <3>2
  <2>4. QED
    BY <1>2, <1>3, <2>2, <2>3 DEF at
<1>8. CASE pc[w] \in {"reload", "stage"}
  <2>1. at \in t + 1 .. t + 2 /\ at \in Nat
    <3>1. Youngest(w) = t + 3 /\ Len(q) <= 2
      BY <1>1, <1>8, RoomIs
    <3>2. at \in Youngest(w) - 2 .. Youngest(w) - 1
      BY <1>12, <1>14, <3>1
    <3>3. QED
      BY <1>12, <3>1, <3>2
  <2>2. Goal(w) \in {<<"reload", p, t>>, <<"next", p, t>>}
    <3>1. CASE w \in waits
      <4>1. pc[w] = "reload"
        BY <1>4, <1>8, <3>1 DEF Meeting
      <4>2. QED
        BY <3>1, <4>1, HereOf DEF Goal
    <3>2. CASE w \notin waits
      BY <1>8, <3>2, AheadOf DEF Goal
    <3>3. QED
      BY <3>1, <3>2
  <2>3. at \in t + 1 .. t + 3
    BY <1>4, <2>1
  <2>4. QED
    BY <1>2, <1>3, <1>4, <2>1, <2>2, <2>3 DEF at
<1>9. CASE pc[w] = "stageWait"
  <2>1. at \in t + 1 .. t + 3 /\ at \in Nat
    <3>1. Youngest(w) = t + 4 /\ Len(q) <= 3
      BY <1>1, <1>9, RoomIs
    <3>2. at \in Youngest(w) - 3 .. Youngest(w) - 1
      BY <1>12, <1>14, <3>1
    <3>3. QED
      BY <1>12, <3>1, <3>2
  <2>2. Goal(w) = <<"next", p, t>>
    BY <1>4, <1>9, AheadOf DEF Goal, Meeting
  <2>3. QED
    BY <1>2, <1>3, <1>4, <2>1, <2>2 DEF at
<1>10. CASE pc[w] = "next"
  <2>1. at \in t + 2 .. t + 3 /\ at \in Nat
    <3>1. Youngest(w) = t + 4 /\ Len(q) <= 2
      BY <1>1, <1>10, RoomIs
    <3>2. at \in Youngest(w) - 2 .. Youngest(w) - 1
      BY <1>12, <1>14, <3>1
    <3>3. QED
      BY <1>12, <3>1, <3>2
  <2>2. CASE w \in waits
    <3>1. Goal(w) = <<"next", p, t>>
      BY <1>10, <2>2, HereOf DEF Goal
    <3>2. at \in t + 1 .. t + 3
      BY <1>4, <2>1
    <3>3. QED
      BY <1>2, <1>3, <1>4, <2>1, <3>1, <3>2 DEF at
  <2>3. CASE w \notin waits
    <3>1. Goal(w) = AfterTile(p, t)
      BY <1>10, <2>3, AheadOf DEF Goal
    <3>2. work[p].tiles \in Nat
      BY <1>10, PieceIs
    <3>3. t + 1 < work[p].tiles
      BY <1>3, <1>12, <2>1, <3>2
    <3>4. Goal(w) \in {<<"reload", p, t + 1>>, <<"next", p, t + 1>>}
      BY <3>1, <3>3 DEF AfterTile
    <3>5. at \in (t + 1) + 1 .. (t + 1) + 2 /\ at \in (t + 1) + 1 .. (t + 1) + 3 /\ t + 1 \in Nat
      BY <1>12, <2>1
    <3>6. QED
      BY <1>2, <1>3, <2>1, <3>4, <3>5 DEF at
  <2>4. QED
    BY <2>2, <2>3
<1>11. QED
  BY <1>6, <1>7, <1>8, <1>9, <1>10

LEMMA LandingIn ==
  ASSUME Framed, NEW w \in Warps, Local(w), Queue(w)
  PROVE  Landing(w) \subseteq MayLand(w, Goal(w))
<1> SUFFICES ASSUME NEW x \in Landing(w)
             PROVE  x \in MayLand(w, Goal(w))
  OBVIOUS
<1>1. inflight[w] \in Seq(SUBSET Copies)
  BY DEF Queue
<1>2. PICK i \in 1 .. Len(inflight[w]) : \E q \in inflight[w][i] : x = q[1]
  BY <1>1 DEF Landing
<1>3. PICK q \in inflight[w][i] : x = q[1]
  BY <1>2
<1>4. inflight[w][i] # {}
  BY <1>3
<1>5. CASE pc[w] = "routesWait"
  <2>1. w = FirstWarp /\ inflight[w][i] = {<<<<"route">>, piece[w]>>}
    BY <1>4, <1>5 DEF Queue
  <2>2. x = <<"route">>
    BY <1>3, <2>1
  <2>3. w \notin waits
    BY <1>5 DEF Local, Meeting
  <2>4. Goal(w) = <<"count", piece[w], 0>>
    BY <1>5, <2>3, AheadOf DEF Goal
  <2>5. QED
    BY <2>1, <2>2, <2>4 DEF MayLand
<1>6. CASE pc[w] # "routesWait"
  <2>1. PICK u \in Nat :
           /\ u < work[piece[w]].tiles /\ inflight[w][i] = Group(w, piece[w], u)
           /\ \/ Goal(w) = <<"reload", piece[w], 0>> /\ u \in 0 .. 2
              \/ \E t \in Nat : \/ Goal(w) = <<"reload", piece[w], t>> /\ u \in t + 1 .. t + 2
                                \/ Goal(w) = <<"next", piece[w], t>> /\ u \in t + 1 .. t + 3
    BY <1>4, <1>6, InRing
  <2>2. x \in StageCells(w, u)
    BY <1>3, <2>1 DEF Group, StageCells
  <2>3. CASE Goal(w) = <<"reload", piece[w], 0>> /\ u \in 0 .. 2
    BY <2>2, <2>3 DEF MayLand
  <2>4. ASSUME NEW t \in Nat, Goal(w) = <<"reload", piece[w], t>>, u \in t + 1 .. t + 2
        PROVE  x \in MayLand(w, Goal(w))
    <3>1. CASE t = 0
      <4>1. u \in 0 .. 2
        BY <2>4, <3>1
      <4>2. QED
        BY <2>2, <2>4, <3>1, <4>1 DEF MayLand
    <3>2. CASE t # 0
      <4>1. u \in t + 1 .. t + 3
        BY <2>4
      <4>2. MayLand(w, Goal(w)) = UNION {StageCells(w, z) : z \in t + 1 .. t + 3}
        BY <2>4, <3>2 DEF MayLand
      <4>3. QED
        BY <2>2, <4>1, <4>2
    <3>3. QED
      BY <3>1, <3>2
  <2>5. ASSUME NEW t \in Nat, Goal(w) = <<"next", piece[w], t>>, u \in t + 1 .. t + 3
        PROVE  x \in MayLand(w, Goal(w))
    <3>1. MayLand(w, Goal(w)) = UNION {StageCells(w, z) : z \in t + 1 .. t + 3}
      BY <2>5 DEF MayLand
    <3>2. QED
      BY <2>2, <2>5, <3>1
  <2>6. QED
    BY <2>1, <2>3, <2>4, <2>5
<1>7. QED
  BY <1>5, <1>6

Touched(w) == MayRead(w, Phase) \cup MayWrite(w, Phase)

\* Two warps on the way to the same barrier keep apart, and a warp from its own copies.
LEMMA Apart ==
  ASSUME Framed, NEW w \in Warps, Local(w), Goal(w) = Phase
  PROVE  /\ \A v \in Warps \ {w} : \A x \in MayWrite(v, Phase) \cup MayLand(v, Phase) :
               \A y \in Touched(w) : ~ Overlap(x, y)
         /\ \A x \in MayLand(w, Phase), y \in MayRead(w, Phase) : ~ Overlap(x, y)
<1> DEFINE g == Phase
           Good == /\ \A v \in Warps \ {w} : \A x \in MayWrite(v, Phase) \cup MayLand(v, Phase) :
                         \A y \in Touched(w) : ~ Overlap(x, y)
                   /\ \A x \in MayLand(w, Phase), y \in MayRead(w, Phase) : ~ Overlap(x, y)
<1>1. \/ \E p \in 1 .. Len(work) + 1 :
            g \in {<<"stop", p, 0>>, <<"prefetch", p, 0>>, <<"count", p, 0>>, <<"readValid", p, 0>>,
                   <<"finish", p, 0>>, <<"merge", p, 0>>, <<"merged", p, 0>>, <<"drain", p, 0>>,
                   <<"routes", p, 0>>, <<"end", p, 0>>}
      \/ \E p \in 1 .. Len(work) : \E t \in Nat : g \in {<<"reload", p, t>>, <<"next", p, t>>}
      \/ \E p \in 1 .. Len(work) : \E m \in 1 .. shape.mBlocks :
            g \in {<<"fold", p, m>>, <<"foldMiddle", p, m>>, <<"foldFirst", p, m>>}
  BY PhaseIs
<1>2. \A a : (\A v \in Warps : MayLand(v, g) = {}) /\ (\A v \in Warps : MayWrite(v, g) = {}) => Good
  BY DEF Touched
<1>3. ASSUME NEW p, g \in {<<"stop", p, 0>>, <<"finish", p, 0>>, <<"merge", p, 0>>, <<"merged", p, 0>>,
                           <<"routes", p, 0>>, <<"end", p, 0>>}
      PROVE  Good
  <2>1. \A v \in Warps : MayWrite(v, g) = {}
    BY <1>3, MayFinish, MayRest, MayLeave
  <2>2. \A v \in Warps : MayLand(v, g) = {}
    BY <1>3 DEF MayLand
  <2>3. QED
    BY <1>2, <2>1, <2>2
<1>4. ASSUME NEW p, g = <<"prefetch", p, 0>>
      PROVE  Good
  <2>1. \A v \in Warps : MayLand(v, g) = {}
    BY <1>4 DEF MayLand
  <2>2. \A v \in Warps : MayWrite(v, g) # {} => v = FirstWarp /\ work[p].kind = "direct"
    BY <1>4, MayPrefetch
  <2>3. work[p].kind = "direct" => MayRead(w, g) = {}
    BY <1>4, MayPrefetch
  <2>4. QED
    BY <2>1, <2>2, <2>3 DEF Touched
<1>5. ASSUME NEW p, g = <<"count", p, 0>>
      PROVE  Good
  <2>1. \A v \in Warps : MayRead(v, g) = {} /\ (v # FirstWarp => MayWrite(v, g) = {} /\ MayLand(v, g) = {})
    BY <1>5, MayCount DEF MayLand
  <2>2. QED
    BY <2>1 DEF Touched
<1>6. ASSUME NEW p, g = <<"readValid", p, 0>>
      PROVE  Good
  <2>1. \A v \in Warps : MayLand(v, g) = {} /\ MayRead(v, g) = {<<"route">>}
           /\ MayWrite(v, g) = (IF v = FirstWarp THEN {<<"rows">>} ELSE {})
                               \cup (IF v = LastWarp THEN {<<"valid">>} ELSE {})
    BY <1>6, MayReadValid DEF MayLand
  <2>2. ASSUME NEW v \in Warps \ {w}, NEW x \in MayWrite(v, g), NEW y \in Touched(w)
        PROVE  ~ Overlap(x, y)
    <3>1. \/ x = <<"rows">> /\ v = FirstWarp
          \/ x = <<"valid">> /\ v = LastWarp
      BY <2>1
    <3>2. \/ y = <<"route">>
          \/ y = <<"rows">> /\ w = FirstWarp
          \/ y = <<"valid">> /\ w = LastWarp
      BY <2>1 DEF Touched
    <3>3. /\ x[1] \in {"rows", "valid"} /\ y[1] \in {"route", "rows", "valid"} /\ x[1] # y[1]
          /\ x[1] = "rows" \/ y[1] \in {"route", "rows"}
      BY <3>1, <3>2
    <3>4. QED
      BY <3>3, NoUnits
  <2>3. QED
    BY <2>1, <2>2
<1>7. ASSUME NEW p, g = <<"reload", p, 0>>
      PROVE  Good
  <2>1. \A v \in Warps : /\ MayLand(v, g) = UNION {StageCells(v, z) : z \in 0 .. 2}
                         /\ MayWrite(v, g) = UNION {StageCells(v, z) : z \in 0 .. 2}
                         /\ MayRead(v, g) = {<<"rows">>}
    BY <1>7, MayReload DEF MayLand
  <2>2. \A v \in Warps : \A x \in UNION {StageCells(v, z) : z \in 0 .. 2} :
           \A y \in {<<"rows">>} : ~ Overlap(x, y)
    BY StageNotHead
  <2>3. \A v \in Warps \ {w} : \A x \in UNION {StageCells(v, z) : z \in 0 .. 2} :
           \A y \in UNION {StageCells(w, z) : z \in 0 .. 2} : ~ Overlap(x, y)
    BY StageApart
  <2>4. QED
    BY <2>1, <2>2, <2>3 DEF Touched
<1>8. ASSUME NEW p, NEW t \in Nat, \/ g = <<"reload", p, t>> /\ t # 0
                                   \/ g = <<"next", p, t>>
      PROVE  Good
  <2> DEFINE Coming(v) == UNION {StageCells(v, z) : z \in t + 1 .. t + 3}
  <2>1. \A v \in Warps : MayLand(v, g) = Coming(v)
    BY <1>8 DEF MayLand
  <2>2. \A v \in Warps : MayWrite(v, g) \subseteq Coming(v) /\ MayRead(v, g) \subseteq {<<"rows">>} \cup ReadOf(t, v)
    <3>1. CASE g = <<"reload", p, t>> /\ t # 0
      BY <3>1, MayReloadLater
    <3>2. CASE g = <<"next", p, t>>
      <4>1. t + 3 \in t + 1 .. t + 3
        OBVIOUS
      <4>2. \A v \in Warps : StageCells(v, t + 3) \subseteq Coming(v)
        BY <4>1
      <4>3. \A v \in Warps : MayRead(v, g) = {<<"rows">>} \cup ReadOf(t, v) /\ MayWrite(v, g) = StageCells(v, t + 3)
        BY <3>2, MayMultiply
      <4>4. QED
        BY <4>2, <4>3
    <3>3. QED
      BY <1>8, <3>1, <3>2
  <2>3. \A v \in Warps : \A x \in Coming(v) : \A y \in {<<"rows">>} : ~ Overlap(x, y)
    BY StageNotHead
  <2>4. \A v \in Warps \ {w} : \A x \in Coming(v), y \in Coming(w) : ~ Overlap(x, y)
    BY StageApart
  <2>5. \A v \in Warps : \A x \in Coming(v), y \in ReadOf(t, w) : ~ Overlap(x, y)
    BY Ahead4, StageNotRead
  <2> HIDE DEF Coming
  <2>6. QED
    BY <2>1, <2>2, <2>3, <2>4, <2>5 DEF Touched
<1>9. ASSUME NEW p, NEW m, g = <<"fold", p, m>>
      PROVE  Good
  <2>1. \A v \in Warps : MayWrite(v, g) = {} /\ MayLand(v, g) = {}
    BY <1>9, MayFold DEF MayLand
  <2>2. QED
    BY <1>2, <2>1
<1>10. ASSUME NEW p, NEW m, \/ g = <<"foldMiddle", p, m>>
                            \/ g = <<"foldFirst", p, m>>
       PROVE  Good
  <2>1. \A v \in Warps : MayLand(v, g) = {}
    BY <1>10 DEF MayLand
  <2>2. \A v \in Warps : /\ \A x \in MayWrite(v, g) : \E s \in Int : x = Slot(v, s)
                                 /\ (g = <<"foldMiddle", p, m>> => v[1] >= 2 /\ s = v[1] - 2)
                                 /\ (g = <<"foldFirst", p, m>> => v[1] = 1)
                         /\ \A x \in MayRead(v, g) : \E s \in Int : x = Slot(v, s)
                                 /\ (g = <<"foldMiddle", p, m>> => v[1] >= 2 /\ s = v[1] - 2)
                                 /\ (g = <<"foldFirst", p, m>> => v[1] = 1)
    <3>1. CASE g = <<"foldMiddle", p, m>>
      <4>1. \A v \in Warps : v[1] \in Int
        BY WarpIs, Geometry
      <4>2. \A v \in Warps : MayRead(v, g) = {} /\ MayWrite(v, g) = IF v[1] >= 2 THEN {Slot(v, v[1] - 2)} ELSE {}
        BY <3>1, MayFoldMiddle
      <4>3. ASSUME NEW v \in Warps
            PROVE  /\ MayRead(v, g) = {} /\ g # <<"foldFirst", p, m>>
                   /\ \A x \in MayWrite(v, g) : x = Slot(v, v[1] - 2) /\ v[1] >= 2 /\ v[1] - 2 \in Int
        <5>1. v[1] \in Int /\ v[1] - 2 \in Int /\ g # <<"foldFirst", p, m>>
          BY <3>1, <4>1
        <5>2. MayRead(v, g) = {} /\ MayWrite(v, g) = IF v[1] >= 2 THEN {Slot(v, v[1] - 2)} ELSE {}
          BY <4>2
        <5>3. \A x \in MayWrite(v, g) : x = Slot(v, v[1] - 2) /\ v[1] >= 2
          BY <5>2
        <5>4. QED
          BY <5>1, <5>2, <5>3
      <4>4. QED
        BY <4>3
    <3>2. CASE g = <<"foldFirst", p, m>>
      <4>1. \A v \in Warps : /\ MayRead(v, g) = IF shape.rows = 4 /\ v[1] = 1 THEN {Slot(v, 0), Slot(v, 1)} ELSE {}
                             /\ MayWrite(v, g) = IF v[1] = 1 THEN {Slot(v, 0)} ELSE {}
        BY <3>2, MayFoldFirst
      <4>2. ASSUME NEW v \in Warps
            PROVE  /\ g # <<"foldMiddle", p, m>>
                   /\ \A x \in MayRead(v, g) : (x = Slot(v, 0) \/ x = Slot(v, 1)) /\ v[1] = 1
                   /\ \A x \in MayWrite(v, g) : x = Slot(v, 0) /\ v[1] = 1
        <5>1. \A x \in MayRead(v, g) : (x = Slot(v, 0) \/ x = Slot(v, 1)) /\ v[1] = 1
          BY <4>1
        <5>2. \A x \in MayWrite(v, g) : x = Slot(v, 0) /\ v[1] = 1
          BY <4>1
        <5>3. QED
          BY <3>2, <5>1, <5>2
      <4>3. 0 \in Int /\ 1 \in Int
        OBVIOUS
      <4>4. QED
        BY <4>2, <4>3
    <3>3. QED
      BY <1>10, <3>1, <3>2
  <2>3. ASSUME NEW v \in Warps \ {w}, NEW x \in MayWrite(v, g), NEW y \in Touched(w)
        PROVE  ~ Overlap(x, y)
    <3>1. PICK s \in Int : x = Slot(v, s) /\ (g = <<"foldMiddle", p, m>> => v[1] >= 2 /\ s = v[1] - 2)
                                          /\ (g = <<"foldFirst", p, m>> => v[1] = 1)
      BY <2>2
    <3>2. PICK r \in Int : y = Slot(w, r) /\ (g = <<"foldMiddle", p, m>> => w[1] >= 2 /\ r = w[1] - 2)
                                          /\ (g = <<"foldFirst", p, m>> => w[1] = 1)
      BY <2>2 DEF Touched
    <3>3. v = <<v[1], v[2]>> /\ w = <<w[1], w[2]>> /\ v[1] \in Int /\ w[1] \in Int
      BY WarpIs, Geometry
    <3>4. v[2] # w[2] \/ s # r
      BY <1>10, <3>1, <3>2, <3>3
    <3>5. x # y /\ x[1] = y[1]
      BY <3>1, <3>2, <3>4 DEF Slot
    <3>6. QED
      BY <3>5, SameKind
  <2>4. QED
    BY <2>1, <2>3
<1>11. ASSUME NEW p, g = <<"drain", p, 0>>
       PROVE  Good
  <2>1. \A v \in Warps : /\ MayLand(v, g) = {} /\ MayRead(v, g) = {}
                         /\ MayWrite(v, g) = IF v[1] = 0 THEN {<<"out", v[2]>>} ELSE {}
    <3>1. \A v \in Warps : MayLand(v, g) = {}
      BY <1>11 DEF MayLand
    <3>2. ASSUME NEW v \in Warps
          PROVE  MayRead(v, g) = {} /\ MayWrite(v, g) = IF v[1] = 0 THEN {<<"out", v[2]>>} ELSE {}
      BY <1>11, MayDrain
    <3>3. QED
      BY <3>1, <3>2
  <2>2. ASSUME NEW v \in Warps \ {w}, NEW x \in MayWrite(v, g), NEW y \in Touched(w)
        PROVE  ~ Overlap(x, y)
    <3>1. x = <<"out", v[2]>> /\ v[1] = 0 /\ y = <<"out", w[2]>> /\ w[1] = 0
      BY <2>1 DEF Touched
    <3>2. v = <<v[1], v[2]>> /\ w = <<w[1], w[2]>>
      BY WarpIs
    <3>3. x # y /\ x[1] = y[1]
      BY <3>1, <3>2
    <3>4. QED
      BY <3>3, SameKind
  <2>3. QED
    BY <2>1, <2>2
<1>12. ASSUME NEW p, NEW t \in Nat, g \in {<<"reload", p, t>>, <<"next", p, t>>}
       PROVE  Good
  <2>1. CASE g = <<"reload", p, t>> /\ t = 0
    BY <1>7, <2>1
  <2>2. CASE g = <<"reload", p, t>> /\ t # 0
    BY <1>8, <2>2
  <2>3. CASE g = <<"next", p, t>>
    BY <1>8, <2>3
  <2>4. QED
    BY <1>12, <2>1, <2>2, <2>3
<1> HIDE DEF Good, g
<1>13. ASSUME NEW p, g \in {<<"stop", p, 0>>, <<"prefetch", p, 0>>, <<"count", p, 0>>, <<"readValid", p, 0>>,
                            <<"finish", p, 0>>, <<"merge", p, 0>>, <<"merged", p, 0>>, <<"drain", p, 0>>,
                            <<"routes", p, 0>>, <<"end", p, 0>>}
       PROVE  Good
  <2>1. CASE g \in {<<"stop", p, 0>>, <<"finish", p, 0>>, <<"merge", p, 0>>, <<"merged", p, 0>>,
                    <<"routes", p, 0>>, <<"end", p, 0>>}
    BY <1>3, <2>1
  <2>2. CASE g = <<"prefetch", p, 0>>
    BY <1>4, <2>2
  <2>3. CASE g = <<"count", p, 0>>
    BY <1>5, <2>3
  <2>4. CASE g = <<"readValid", p, 0>>
    BY <1>6, <2>4
  <2>5. CASE g = <<"drain", p, 0>>
    BY <1>11, <2>5
  <2>6. QED
    BY <1>13, <2>1, <2>2, <2>3, <2>4, <2>5
<1>14. ASSUME NEW p, NEW m, g \in {<<"fold", p, m>>, <<"foldMiddle", p, m>>, <<"foldFirst", p, m>>}
       PROVE  Good
  <2>1. CASE g = <<"fold", p, m>>
    BY <1>9, <2>1
  <2>2. CASE g = <<"foldMiddle", p, m>> \/ g = <<"foldFirst", p, m>>
    BY <1>10, <2>2
  <2>3. QED
    BY <1>14, <2>1, <2>2
<1>15. Good
  BY <1>1, <1>12, <1>13, <1>14
<1>16. QED
  BY <1>15 DEF Good

LEMMA NoRace ==
  ASSUME Framed, Control
  PROVE  RaceFree
<1>1. SUFFICES ASSUME NEW w \in Warps
               PROVE  /\ \A v \in Warps \ {w} :
                            \A x \in writes[v] \cup Landing(v), y \in reads[w] \cup writes[w] : ~ Overlap(x, y)
                      /\ \A x \in Landing(w), y \in reads[w] : ~ Overlap(x, y)
  BY DEF RaceFree
<1>2. \A v \in Warps : /\ Landing(v) \subseteq MayLand(v, Phase)
                       /\ reads[v] \subseteq MayRead(v, Phase) /\ writes[v] \subseteq MayWrite(v, Phase)
  <2>1. ASSUME NEW v \in Warps
        PROVE  /\ Landing(v) \subseteq MayLand(v, Phase)
               /\ reads[v] \subseteq MayRead(v, Phase) /\ writes[v] \subseteq MayWrite(v, Phase)
    <3>1. Local(v) /\ Queue(v) /\ Footprint(v) /\ Goal(v) = Phase
      BY DEF Control, Together
    <3>2. QED
      BY <3>1, LandingIn DEF Footprint
  <2>2. QED
    BY <2>1
<1>3. Local(w) /\ Goal(w) = Phase
  BY DEF Control, Together
<1>4. /\ \A v \in Warps \ {w} : \A x \in MayWrite(v, Phase) \cup MayLand(v, Phase) :
            \A y \in Touched(w) : ~ Overlap(x, y)
      /\ \A x \in MayLand(w, Phase), y \in MayRead(w, Phase) : ~ Overlap(x, y)
  BY <1>3, Apart
<1>5. QED
  BY <1>2, <1>4 DEF Touched

-----------------------------------------------------------------------------
(* What a write leaves. *)

LEMMA StoredIs ==
  ASSUME NEW pairs, \A q, r \in pairs : q[1] = r[1] => q[2] = r[2]
  PROVE  /\ \A q \in pairs : q[1] \in Cells => Stored(pairs)[q[1]] = q[2]
         /\ \A x \in Cells : (\A q \in pairs : x # q[1] /\ ~ Overlap(x, q[1])) => Stored(pairs)[x] = smem[x]
<1>1. \A x \in Cells : Stored(pairs)[x] =
         IF \E q \in pairs : q[1] = x THEN (CHOOSE q \in pairs : q[1] = x)[2]
         ELSE IF \E q \in pairs : Overlap(x, q[1]) THEN Stale(x) ELSE smem[x]
  BY DEF Stored
<1>2. ASSUME NEW q \in pairs, q[1] \in Cells
      PROVE  Stored(pairs)[q[1]] = q[2]
  <2>1. PICK r \in pairs : r[1] = q[1] /\ r = CHOOSE z \in pairs : z[1] = q[1]
    OBVIOUS
  <2>2. Stored(pairs)[q[1]] = r[2]
    BY <1>1, <1>2, <2>1
  <2>3. QED
    BY <2>1, <2>2
<1>3. ASSUME NEW x \in Cells, \A q \in pairs : x # q[1] /\ ~ Overlap(x, q[1])
      PROVE  Stored(pairs)[x] = smem[x]
  BY <1>1, <1>3
<1>4. QED
  BY <1>2, <1>3

LEMMA StoredNothing ==
  ASSUME NEW x \in Cells
  PROVE  Stored({})[x] = smem[x]
BY StoredIs

LEMMA StoredOne ==
  ASSUME NEW c \in Cells, NEW v
  PROVE  /\ Stored({<<c, v>>})[c] = v
         /\ \A x \in Cells : x # c /\ ~ Overlap(x, c) => Stored({<<c, v>>})[x] = smem[x]
<1> DEFINE pairs == {<<c, v>>}
<1>1. \A q \in pairs : q[1] = c /\ q[2] = v
  OBVIOUS
<1>2. <<c, v>> \in pairs /\ <<c, v>>[1] = c /\ <<c, v>>[2] = v
  OBVIOUS
<1> HIDE DEF pairs
<1>3. Stored(pairs)[c] = v
  BY <1>1, <1>2, StoredIs
<1>4. \A x \in Cells : x # c /\ ~ Overlap(x, c) => Stored(pairs)[x] = smem[x]
  BY <1>1, StoredIs
<1>5. QED
  BY <1>3, <1>4 DEF pairs

LEMMA HeadCells ==
  ASSUME Framed
  PROVE  <<"route">> \in Cells /\ <<"rows">> \in Cells /\ <<"valid">> \in Cells
BY DEF Cells

LEMMA SlotInCells ==
  ASSUME Framed, NEW w \in Warps, NEW s, \/ shape.rows = 4 /\ s \in {0, 1}
                                         \/ shape.rows = 2 /\ s = 0
  PROVE  Slot(w, s) \in Cells
<1>1. 4 \div 2 = 2 /\ 2 \div 2 = 1
  OBVIOUS
<1>2. w[2] \in 0 .. shape.cols - 1
  BY WarpIs
<1>3. s \in 0 .. (shape.rows \div 2) - 1
  <2>1. CASE shape.rows = 4 /\ s \in {0, 1}
    BY <1>1, <2>1
  <2>2. CASE shape.rows = 2 /\ s = 0
    BY <1>1, <2>2
  <2>3. QED
    BY <2>1, <2>2
<1>4. QED
  BY <1>2, <1>3 DEF Slot, Cells, SlotCells

LEMMA OutInCells ==
  ASSUME Framed, NEW w \in Warps
  PROVE  <<"out", w[2]>> \in Cells /\ <<"out", w[2]>> \in OutCells
<1>1. w[2] \in 0 .. shape.cols - 1
  BY WarpIs
<1>2. QED
  BY <1>1 DEF Cells, OutCells

-----------------------------------------------------------------------------
(* The control of the warps: a step of one keeps everybody's. *)

LEMMA HeadedOf ==
  ASSUME Headed
  PROVE  /\ Phase[1] \notin {"stop", "prefetch", "count", "readValid", "routes", "end"} =>
               smem[<<"route">>] = Phase[2] /\ smem[<<"rows">>] = Phase[2]
         /\ Phase[1] \in {"routes", "end"} => smem[<<"route">>] = Phase[2] - 1
         /\ Phase[1] = "prefetch" =>
               /\ work[Phase[2]].kind = "packed" \/ FirstWarp \in waits =>
                     smem[<<"route">>] = Phase[2] /\ smem[<<"rows">>] = Phase[2]
               /\ work[Phase[2]].kind = "packed" => smem[<<"valid">>] = Phase[2]
         /\ Phase[1] = "count" =>
               (FirstWarp \in waits \/ (pc[FirstWarp] = "routesWait" /\ inflight[FirstWarp] = <<>>) =>
                  smem[<<"route">>] = Phase[2])
         /\ Phase[1] = "readValid" => /\ smem[<<"route">>] = Phase[2]
                                      /\ FirstWarp \in waits => smem[<<"rows">>] = Phase[2]
                                      /\ LastWarp \in waits => smem[<<"valid">>] = Phase[2]
BY DEF Headed

LEMMA RowsKnown ==
  ASSUME Headed, NEW w \in Warps, Goal(w) = Phase, pc[w] \in {"prefetch", "stage"}, w \notin waits
  PROVE  smem[<<"rows">>] = piece[w]
<1>1. Phase \in {<<"reload", piece[w], 0>>, <<"next", piece[w], tile[w]>>}
  BY AheadOf DEF Goal
<1>2. Phase[1] \in {"reload", "next"} /\ Phase[2] = piece[w]
  BY <1>1
<1>3. QED
  BY <1>2, HeadedOf

LEMMA GoalOther ==
  ASSUME NEW w, Rest(w), NEW v \in Warps \ {w}
  PROVE  Goal(v)' = Goal(v)
<1>1. UNCHANGED <<shape, work>> /\ pc'[v] = pc[v] /\ (v \in waits' <=> v \in waits)
      /\ piece'[v] = piece[v] /\ tile'[v] = tile[v] /\ mb'[v] = mb[v]
  BY DEF Rest
<1>2. QED
  BY <1>1, GoalNext DEF Goal

LEMMA PhaseKept ==
  ASSUME Framed, Together, NEW w \in Warps, Local(w), WarpStep(w)
  PROVE  /\ Phase' = Phase /\ Together' /\ Goal(w) = Phase
         /\ \A v \in Warps : Goal(v)' = Phase
<1>1. Rest(w) /\ Warps' = Warps /\ UNCHANGED <<shape, work>>
  BY FrameStep DEF Rest
<1>2. \A v \in Warps : Goal(v)' = Goal(v)
  BY <1>1, GoalKept, GoalOther
<1>3. FirstWarp \in Warps /\ FirstWarp' = FirstWarp
  BY <1>1, Ends, ShapeKept
<1>4. \A v \in Warps : Goal(v) = Phase
  BY DEF Together
<1>5. Phase' = Goal(FirstWarp)'
  BY <1>3 DEF Phase
<1>6. Phase' = Phase
  BY <1>2, <1>3, <1>4, <1>5
<1>7. QED
  BY <1>1, <1>2, <1>4, <1>6 DEF Together

LEMMA LocalOther ==
  ASSUME NEW w, Rest(w), NEW v \in Warps \ {w}, Local(v)
  PROVE  Local(v)'
<1>1. UNCHANGED <<shape, work>> /\ pc'[v] = pc[v] /\ (v \in waits' <=> v \in waits)
      /\ piece'[v] = piece[v] /\ tile'[v] = tile[v] /\ mb'[v] = mb[v]
  BY DEF Rest
<1>2. QED
  BY <1>1 DEF Local, Piece

LEMMA QueueOther ==
  ASSUME NEW w, Rest(w), NEW v \in Warps \ {w}, Queue(v)
  PROVE  Queue(v)'
<1>1. UNCHANGED <<shape, work>> /\ pc'[v] = pc[v] /\ piece'[v] = piece[v] /\ tile'[v] = tile[v]
      /\ inflight'[v] = inflight[v]
  BY DEF Rest
<1>2. /\ Room(v)' = Room(v) /\ TRUE
      /\ \A i : TileOf(v, i)' = TileOf(v, i)
      /\ \A i : Group(v, piece[v], TileOf(v, i))' = Group(v, piece[v], TileOf(v, i))
  <2>1. Room(v)' = Room(v)
    BY <1>1 DEF Room
  <2>2. \A i : TileOf(v, i)' = TileOf(v, i)
    BY <1>1 DEF TileOf, Youngest
  <2>3. \A i : Group(v, piece[v], TileOf(v, i))' = Group(v, piece[v], TileOf(v, i))
    BY <1>1 DEF Group, Blocks, TileOf, Youngest
  <2>4. QED
    BY <2>1, <2>2, <2>3
<1>3. Copies' = Copies /\ FirstWarp' = FirstWarp
  BY <1>1, ShapeKept
<1>4. QED
  BY <1>1, <1>2, <1>3 DEF Queue

LEMMA FootOther ==
  ASSUME NEW w, Rest(w), NEW v \in Warps \ {w}, Footprint(v), Phase' = Phase
  PROVE  Footprint(v)'
<1>1. UNCHANGED <<shape, work>> /\ reads'[v] = reads[v] /\ writes'[v] = writes[v]
  BY DEF Rest
<1>2. QED
  BY <1>1, MayNext DEF Footprint

LEMMA ControlKept ==
  ASSUME Framed, Control, Headed, NEW w \in Warps, WarpStep(w)
  PROVE  Framed' /\ Control'
<1>1. Framed' /\ Rest(w) /\ Warps' = Warps
  BY FrameStep
<1>2. \A v \in Warps : Local(v) /\ Queue(v) /\ Footprint(v) /\ Goal(v) = Phase
  BY DEF Control, Together
<1>3. Phase' = Phase /\ Together'
  BY <1>2, PhaseKept DEF Control
<1>4. pc[w] \in {"prefetch", "stage"} /\ w \notin waits => smem[<<"rows">>] = piece[w]
  BY <1>2, RowsKnown
<1>5. Local(w)' /\ Queue(w)' /\ Footprint(w)'
  BY <1>2, <1>3, <1>4, GoalKept, QueueKept, FootKept
<1>6. \A v \in Warps \ {w} : Local(v)' /\ Queue(v)' /\ Footprint(v)'
  BY <1>1, <1>2, <1>3, LocalOther, QueueOther, FootOther
<1>7. waits' \subseteq Warps'
  BY <1>1 DEF Framed
<1>8. QED
  BY <1>1, <1>3, <1>5, <1>6, <1>7 DEF Control

-----------------------------------------------------------------------------
(* The route block in shared memory. *)

LEMMA HeadedSet ==
  ASSUME UNCHANGED <<shape, work>>, Phase' = Phase,
         Phase[1] \notin {"stop", "prefetch", "count", "readValid", "routes", "end"} =>
            smem'[<<"route">>] = Phase[2] /\ smem'[<<"rows">>] = Phase[2],
         Phase[1] \in {"routes", "end"} => smem'[<<"route">>] = Phase[2] - 1,
         Phase[1] = "prefetch" =>
            /\ work[Phase[2]].kind = "packed" \/ FirstWarp \in waits' =>
                  smem'[<<"route">>] = Phase[2] /\ smem'[<<"rows">>] = Phase[2]
            /\ work[Phase[2]].kind = "packed" => smem'[<<"valid">>] = Phase[2],
         Phase[1] = "count" =>
            (FirstWarp \in waits' \/ (pc'[FirstWarp] = "routesWait" /\ inflight'[FirstWarp] = <<>>) =>
               smem'[<<"route">>] = Phase[2]),
         Phase[1] = "readValid" => /\ smem'[<<"route">>] = Phase[2]
                                   /\ FirstWarp \in waits' => smem'[<<"rows">>] = Phase[2]
                                   /\ LastWarp \in waits' => smem'[<<"valid">>] = Phase[2]
  PROVE  Headed'
<1>1. FirstWarp' = FirstWarp /\ LastWarp' = LastWarp
  BY ShapeKept
<1>2. QED
  BY <1>1 DEF Headed

\* A step that leaves the three cells, and brings nobody who owes one of them to the barrier.
LEMMA HeadedSame ==
  ASSUME Headed, UNCHANGED <<shape, work>>, Phase' = Phase,
         smem'[<<"route">>] = smem[<<"route">>], smem'[<<"rows">>] = smem[<<"rows">>],
         Phase[1] \in {"prefetch", "readValid"} => smem'[<<"valid">>] = smem[<<"valid">>],
         Phase[1] = "prefetch" => work[Phase[2]].kind = "packed" \/ (FirstWarp \in waits' => FirstWarp \in waits),
         Phase[1] = "readValid" => /\ FirstWarp \in waits' => FirstWarp \in waits
                                   /\ LastWarp \in waits' => LastWarp \in waits,
         Phase[1] = "count" =>
            (FirstWarp \in waits' \/ (pc'[FirstWarp] = "routesWait" /\ inflight'[FirstWarp] = <<>>) =>
             FirstWarp \in waits \/ (pc[FirstWarp] = "routesWait" /\ inflight[FirstWarp] = <<>>))
  PROVE  Headed'
<1>1. /\ Phase[1] \notin {"stop", "prefetch", "count", "readValid", "routes", "end"} =>
            smem'[<<"route">>] = Phase[2] /\ smem'[<<"rows">>] = Phase[2]
      /\ Phase[1] \in {"routes", "end"} => smem'[<<"route">>] = Phase[2] - 1
  BY HeadedOf
<1>2. Phase[1] = "prefetch" =>
            /\ work[Phase[2]].kind = "packed" \/ FirstWarp \in waits' =>
                  smem'[<<"route">>] = Phase[2] /\ smem'[<<"rows">>] = Phase[2]
            /\ work[Phase[2]].kind = "packed" => smem'[<<"valid">>] = Phase[2]
  BY HeadedOf
<1>3. Phase[1] = "count" =>
            (FirstWarp \in waits' \/ (pc'[FirstWarp] = "routesWait" /\ inflight'[FirstWarp] = <<>>) =>
               smem'[<<"route">>] = Phase[2])
  BY HeadedOf
<1>4. Phase[1] = "readValid" => /\ smem'[<<"route">>] = Phase[2]
                                /\ FirstWarp \in waits' => smem'[<<"rows">>] = Phase[2]
                                /\ LastWarp \in waits' => smem'[<<"valid">>] = Phase[2]
  BY HeadedOf
<1>5. QED
  BY <1>1, <1>2, <1>3, <1>4, HeadedSet

\* The copies that land belong to the route block or to the ring.
LEMMA LandIs ==
  ASSUME Framed, NEW w \in Warps, Local(w), Queue(w), NEW i \in DOMAIN inflight[w], inflight[w][i] # {}
  PROVE  \/ /\ pc[w] = "routesWait" /\ w = FirstWarp /\ w \notin waits
            /\ Goal(w) = <<"count", piece[w], 0>>
            /\ i = 1 /\ Len(inflight[w]) = 1 /\ inflight[w][i] = {<<<<"route">>, piece[w]>>}
         \/ /\ pc[w] # "routesWait" /\ Goal(w)[1] \in {"reload", "next"} /\ Goal(w)[2] = piece[w]
            /\ \E t \in Nat : TileOf(w, i) = t /\ t < work[piece[w]].tiles
                              /\ inflight[w][i] = Group(w, piece[w], t)
<1>1. inflight[w] \in Seq(SUBSET Copies) /\ Len(inflight[w]) \in Nat /\ i \in 1 .. Len(inflight[w])
      /\ Len(inflight[w]) <= Room(w)
  <2>1. inflight[w] \in Seq(SUBSET Copies)
    BY DEF Queue
  <2>2. QED
    BY <2>1 DEF Queue
<1>2. CASE pc[w] = "routesWait"
  <2>1. w \notin waits
    BY <1>2 DEF Local, Meeting
  <2>2. Len(inflight[w]) <= 1
    BY <1>1, <1>2, RoomIs
  <2>3. i = 1 /\ Len(inflight[w]) = 1
    <3>1. \A n \in Nat : \A j \in 1 .. n : n <= 1 => j = 1 /\ n = 1
      OBVIOUS
    <3>2. Len(inflight[w]) \in Nat /\ i \in 1 .. Len(inflight[w])
      BY <1>1
    <3>3. QED
      BY <2>2, <3>1, <3>2
  <2>4. w = FirstWarp /\ inflight[w][i] = {<<<<"route">>, piece[w]>>}
    BY <1>1, <1>2 DEF Queue
  <2>5. Goal(w) = <<"count", piece[w], 0>>
    BY <1>2, <2>1, AheadOf DEF Goal
  <2>6. QED
    BY <1>2, <2>1, <2>3, <2>4, <2>5
<1>3. CASE pc[w] # "routesWait"
  <2>1. PICK t \in Nat : /\ TileOf(w, i) = t /\ t < work[piece[w]].tiles
                         /\ inflight[w][i] = Group(w, piece[w], t)
                         /\ \/ Goal(w) = <<"reload", piece[w], 0>>
                            \/ \E s \in Nat : \/ Goal(w) = <<"reload", piece[w], s>>
                                              \/ Goal(w) = <<"next", piece[w], s>>
    BY <1>1, <1>3, InRing
  <2>2. Goal(w)[1] \in {"reload", "next"} /\ Goal(w)[2] = piece[w]
    BY <2>1
  <2>3. QED
    BY <1>3, <2>1, <2>2
<1>4. QED
  BY <1>2, <1>3

\* Staged weights leave the route and the rows alone, and what another warp staged.
LEMMA GroupLands ==
  ASSUME Framed, NEW w \in Warps, NEW p \in 1 .. Len(work), NEW t \in Nat, t < work[p].tiles
  PROVE  /\ \A x \in StageCells(w, t) : Stored(Group(w, p, t))[x] = <<p, work[p].first + t>>
         /\ \A y \in {<<"route">>, <<"rows">>} : Stored(Group(w, p, t))[y] = smem[y]
         /\ \A v \in Warps \ {w}, s \in Nat : \A x \in StageCells(v, s) : Stored(Group(w, p, t))[x] = smem[x]
         /\ \A s \in Nat : s % Stages # t % Stages =>
               \A x \in StageCells(w, s) : Stored(Group(w, p, t))[x] = smem[x]
<1> DEFINE G == Group(w, p, t)
<1>1. /\ \A q \in G : q[1] \in StageCells(w, t) /\ q[2] = <<p, work[p].first + t>>
      /\ \A x \in StageCells(w, t) : <<x, <<p, work[p].first + t>>>> \in G
  BY GroupIs
<1>2. \A v \in Warps, s \in Nat : StageCells(v, s) \subseteq Cells
  BY StageInCells
<1>3. <<"route">> \in Cells /\ <<"rows">> \in Cells
  BY HeadCells
<1> HIDE DEF G
<1>4. /\ \A q \in G : q[1] \in Cells => Stored(G)[q[1]] = q[2]
      /\ \A x \in Cells : (\A q \in G : x # q[1] /\ ~ Overlap(x, q[1])) => Stored(G)[x] = smem[x]
  BY <1>1, StoredIs
<1>5. ASSUME NEW x \in StageCells(w, t)
      PROVE  Stored(G)[x] = <<p, work[p].first + t>>
  <2>1. <<x, <<p, work[p].first + t>>>> \in G /\ x \in Cells
    BY <1>1, <1>2
  <2>2. QED
    BY <1>4, <2>1
<1>6. ASSUME NEW y \in {<<"route">>, <<"rows">>}
      PROVE  Stored(G)[y] = smem[y]
  <2>1. \A q \in G : ~ Overlap(y, q[1])
    BY <1>1, StageNotHead
  <2>2. \A q \in G : y # q[1]
    <3>1. \A x \in StageCells(w, t) : x[1] \in {"a", "b"}
      BY StageCellIs
    <3>2. y[1] \notin {"a", "b"}
      OBVIOUS
    <3>3. QED
      BY <1>1, <3>1, <3>2
  <2>3. QED
    BY <1>3, <1>4, <2>1, <2>2
<1>7. ASSUME NEW v \in Warps \ {w}, NEW s \in Nat, NEW x \in StageCells(v, s)
      PROVE  Stored(G)[x] = smem[x]
  <2>1. \A q \in G : ~ Overlap(x, q[1])
    BY <1>1, StageApart
  <2>2. \A q \in G : x # q[1]
    <3>1. \A y : Overlap(y, y)
      BY DEF Overlap
    <3>2. QED
      BY <2>1, <3>1
  <2>3. QED
    BY <1>2, <1>4, <2>1, <2>2
<1>8. ASSUME NEW s \in Nat, s % Stages # t % Stages, NEW x \in StageCells(w, s)
      PROVE  Stored(G)[x] = smem[x]
  <2>1. \A q \in G : x # q[1] /\ ~ Overlap(x, q[1])
    <3>1. \A y \in StageCells(w, t) : y[1] \in {"a", "b"} /\ y[2] = t % Stages
      BY StageCellIs
    <3>2. x[1] \in {"a", "b"} /\ x[2] = s % Stages
      BY StageCellIs
    <3>3. ASSUME NEW q \in G
          PROVE  x # q[1] /\ ~ Overlap(x, q[1])
      <4>1. q[1][1] \in {"a", "b"} /\ x # q[1]
        BY <1>1, <1>8, <3>1, <3>2
      <4>2. CASE x[1] = q[1][1]
        BY <4>1, <4>2, SameKind
      <4>3. CASE x[1] # q[1][1]
        <5>1. x[1] = "a" \/ q[1][1] = "a"
          BY <3>2, <4>1, <4>3
        <5>2. QED
          BY <4>1, <4>3, <5>1, NoUnits
      <4>4. QED
        BY <4>2, <4>3
    <3>4. QED
      BY <3>3
  <2>2. QED
    BY <1>2, <1>4, <2>1
<1>9. QED
  BY <1>5, <1>6, <1>7, <1>8 DEF G

LEMMA HeadedKept ==
  ASSUME Framed, Control, Headed, NEW w \in Warps, WarpStep(w)
  PROVE  Headed'
<1> DEFINE p == piece[w]
           first == FirstWarp
           same == /\ smem'[<<"route">>] = smem[<<"route">>] /\ smem'[<<"rows">>] = smem[<<"rows">>]
                   /\ smem'[<<"valid">>] = smem[<<"valid">>]
<1>1. UNCHANGED <<shape, work>> /\ Rest(w) /\ DOMAIN pc = Warps /\ DOMAIN inflight = Warps /\ waits \subseteq Warps
  BY FrameStep DEF Rest, Framed
<1>2. Local(w) /\ Queue(w) /\ Goal(w) = Phase /\ Phase' = Phase
  BY PhaseKept DEF Control, Together
<1>3. first \in Warps /\ LastWarp \in Warps
  BY Ends
<1>4. \A v \in Warps \ {w} : pc'[v] = pc[v] /\ (v \in waits' <=> v \in waits) /\ inflight'[v] = inflight[v]
  BY <1>1 DEF Rest
<1>5. pc[w] # "end" => p \in 1 .. Len(work) /\ Piece(w) = work[p]
  BY <1>2, PieceIs
<1>6. w \notin waits => Phase = Ahead(pc[w], p, tile[w], mb[w])
  BY <1>2 DEF Goal
<1>7. <<"route">> \in Cells /\ <<"rows">> \in Cells /\ <<"valid">> \in Cells
  BY HeadCells
<1>8. CASE Land(w)
  <2>1. PICK i \in DOMAIN inflight[w] :
           /\ inflight[w][i] # {} /\ smem' = Stored(inflight[w][i])
           /\ inflight'[w] = Trim([inflight[w] EXCEPT ![i] = {}])
    BY <1>1, <1>8 DEF Land
  <2>2. UNCHANGED <<pc, waits>>
    BY <1>8 DEF Land
  <2>3. CASE /\ pc[w] = "routesWait" /\ w = first /\ w \notin waits
             /\ Goal(w) = <<"count", p, 0>>
             /\ inflight[w][i] = {<<<<"route">>, p>>}
    <3>1. smem'[<<"route">>] = p
      <4>1. smem' = Stored({<<<<"route">>, p>>})
        BY <2>1, <2>3
      <4>2. Stored({<<<<"route">>, p>>})[<<"route">>] = p
        BY <1>7, StoredOne
      <4>3. QED
        BY <4>1, <4>2
    <3>2. Phase = <<"count", p, 0>>
      BY <1>2, <2>3
    <3>3. QED
      BY <1>1, <1>2, <3>1, <3>2, HeadedSet
  <2>4. CASE /\ pc[w] # "routesWait" /\ Goal(w)[1] \in {"reload", "next"} /\ Goal(w)[2] = p
             /\ \E t \in Nat : TileOf(w, i) = t /\ t < work[p].tiles /\ inflight[w][i] = Group(w, p, t)
    <3>1. PICK t \in Nat : t < work[p].tiles /\ inflight[w][i] = Group(w, p, t)
      BY <2>4
    <3>2. p \in 1 .. Len(work)
      <4>1. pc[w] # "end"
        <5>1. inflight[w] # <<>>
          BY <2>1
        <5>2. QED
          BY <1>2, <5>1, EmptyQueue DEF Idle
      <4>2. QED
        BY <1>5, <4>1
    <3>3. smem'[<<"route">>] = smem[<<"route">>] /\ smem'[<<"rows">>] = smem[<<"rows">>]
      BY <2>1, <3>1, <3>2, GroupLands
    <3>4. Phase[1] \notin {"stop", "prefetch", "count", "readValid", "routes", "end"}
      BY <1>2, <2>4
    <3>5. QED
      BY <1>1, <1>2, <3>3, <3>4, HeadedSame
  <2>5. QED
    BY <1>2, <2>1, <2>3, <2>4, LandIs
<1>9. CASE Routes(w)
  <2>1. w \notin waits /\ pc[w] = "routes" /\ Phase = StartOf(p) /\ p \in 1 .. Len(work) /\ Piece(w) = work[p]
    BY <1>5, <1>6, <1>9, AheadOf DEF Routes, At
  <2>2. CASE Piece(w).kind = "direct"
    <3>1. Phase = <<"prefetch", p, 0>> /\ work[p].kind # "packed"
      BY <2>1, <2>2, Geometry DEF StartOf
    <3>2. CASE w = first
      <4> DEFINE pairs == {<<<<"route">>, p>>, <<<<"rows">>, p>>}
      <4>1. smem' = Stored(pairs)
        BY <1>9, <2>2, <3>2 DEF Routes
      <4>2. smem'[<<"route">>] = p /\ smem'[<<"rows">>] = p
        <5>1. \A q \in pairs : q[1] \in Cells /\ q[2] = p
          BY <1>7
        <5>2. <<<<"route">>, p>> \in pairs /\ <<<<"rows">>, p>> \in pairs
          OBVIOUS
        <5> HIDE DEF pairs
        <5>3. \A q \in pairs : Stored(pairs)[q[1]] = q[2]
          BY <5>1, StoredIs
        <5>4. Stored(pairs)[<<"route">>] = p /\ Stored(pairs)[<<"rows">>] = p
          BY <5>2, <5>3
        <5>5. QED
          BY <4>1, <5>4
      <4>3. QED
        BY <1>1, <1>2, <3>1, <4>2, HeadedSet
    <3>3. CASE w # first
      <4>1. smem' = Stored({})
        BY <1>9, <2>2, <3>3 DEF Routes
      <4>2. same
        BY <1>7, <4>1, StoredNothing
      <4>3. first \in waits' => first \in waits
        BY <1>3, <1>4, <3>3
      <4>4. QED
        BY <1>1, <1>2, <3>1, <4>2, <4>3, HeadedSame
    <3>4. QED
      BY <3>2, <3>3
  <2>3. CASE Piece(w).kind = "packed"
    <3>1. Phase = <<"count", p, 0>>
      BY <2>1, <2>3, Geometry DEF StartOf
    <3>2. smem' = smem /\ waits' = waits
      BY <1>9, <2>3 DEF Routes, Goto
    <3>3. first \in waits' \/ (pc'[first] = "routesWait" /\ inflight'[first] = <<>>) =>
             first \in waits \/ (pc[first] = "routesWait" /\ inflight[first] = <<>>)
      <4>1. CASE w # first
        BY <1>3, <1>4, <4>1
      <4>2. CASE w = first
        <5> DEFINE s == inflight[w] \o <<{<<<<"route">>, p>>}>>
        <5>1. inflight'[w] = Trim(s)
          BY <1>1, <1>9, <2>3, <4>2 DEF Routes, Commit
        <5>2. inflight[w] = <<>>
          BY <1>2, <2>1, EmptyQueue DEF Idle
        <5>3. s = <<{<<<<"route">>, p>>}>>
          BY <5>2
        <5>4. s \in Seq(SUBSET Copies) /\ Len(s) = 1 /\ s[1] # {}
          <6> DEFINE one == {<<<<"route">>, p>>}
          <6>1. one \in SUBSET Copies /\ one # {}
            BY <2>1, RouteCopy
          <6>2. s = <<one>>
            BY <5>3
          <6> HIDE DEF one, s
          <6>3. QED
            BY <6>1, <6>2
        <5> HIDE DEF s
        <5>5. PICK d \in 0 .. Len(s) : Len(Trim(s)) = Len(s) - d /\ \A i \in 1 .. d : s[i] = {}
          BY <5>4, TrimIs
        <5>6. d = 0
          BY <5>4, <5>5
        <5>7. Len(Trim(s)) = 1
          BY <5>4, <5>5, <5>6
        <5>8. inflight'[w] # <<>>
          BY <5>1, <5>7
        <5>9. QED
          BY <3>2, <4>2, <5>8
      <4>3. QED
        BY <4>1, <4>2
    <3>4. QED
      BY <1>1, <1>2, <3>1, <3>2, <3>3, HeadedSame
  <2>4. QED
    BY <1>9, <2>2, <2>3 DEF Routes
<1>10. CASE RoutesWait(w)
  <2>1. w \notin waits /\ pc[w] = "routesWait" /\ smem' = smem /\ inflight' = inflight
        /\ inflight[w] = <<>>
    BY <1>2, <1>10, EmptyQueue DEF RoutesWait, At, Waited
  <2>2. Phase = <<"count", p, 0>>
    BY <1>6, <2>1, AheadOf
  <2>3. first \in waits' \/ (pc'[first] = "routesWait" /\ inflight'[first] = <<>>) =>
           first \in waits \/ (pc[first] = "routesWait" /\ inflight[first] = <<>>)
    BY <1>3, <1>4, <2>1
  <2>4. QED
    BY <1>1, <1>2, <2>1, <2>2, <2>3, HeadedSame
<1>11. CASE Count(w)
  <2> DEFINE route == smem[<<"route">>]
             mine == (IF w = LastWarp THEN {<<<<"valid">>, route>>} ELSE {})
                     \cup (IF w = first THEN {<<<<"rows">>, route>>} ELSE {})
  <2>1. w \notin waits /\ pc[w] = "count" /\ smem' = Stored(mine)
    BY <1>11 DEF Count, At
  <2>2. Phase = <<"readValid", p, 0>> /\ route = p
    <3>1. Phase = <<"readValid", p, 0>>
      BY <1>6, <2>1, AheadOf
    <3>2. QED
      BY <3>1, HeadedOf
  <2>3. /\ \A q \in mine : q[2] = p /\ (q[1] = <<"valid">> \/ q[1] = <<"rows">>)
        /\ \A q \in mine : q[1] = <<"valid">> => w = LastWarp
        /\ \A q \in mine : q[1] = <<"rows">> => w = first
        /\ w = LastWarp => <<<<"valid">>, p>> \in mine
        /\ w = first => <<<<"rows">>, p>> \in mine
    BY <2>2
  <2> HIDE DEF mine, route
  <2>4. /\ \A q \in mine : q[1] \in Cells => Stored(mine)[q[1]] = q[2]
        /\ \A x \in Cells : (\A q \in mine : x # q[1] /\ ~ Overlap(x, q[1])) => Stored(mine)[x] = smem[x]
    BY <2>3, StoredIs
  <2>5. /\ ~ Overlap(<<"route">>, <<"valid">>) /\ ~ Overlap(<<"route">>, <<"rows">>)
        /\ ~ Overlap(<<"rows">>, <<"valid">>) /\ ~ Overlap(<<"valid">>, <<"rows">>)
    <3>1. <<"route">>[1] = "route" /\ <<"valid">>[1] = "valid" /\ <<"rows">>[1] = "rows"
      OBVIOUS
    <3>2. QED
      BY <3>1, NoUnits
  <2>6. <<"route">> # <<"valid">> /\ <<"route">> # <<"rows">> /\ <<"rows">> # <<"valid">>
    OBVIOUS
  <2>7. smem'[<<"route">>] = p
    BY <1>7, <2>1, <2>2, <2>3, <2>4, <2>5, <2>6 DEF route
  <2>8. first \in waits' => smem'[<<"rows">>] = p
    <3>1. CASE w = first
      BY <1>7, <2>1, <2>3, <2>4, <3>1
    <3>2. CASE w # first
      <4>1. smem'[<<"rows">>] = smem[<<"rows">>]
        BY <1>7, <2>1, <2>3, <2>4, <2>5, <2>6, <3>2
      <4>2. QED
        BY <1>3, <1>4, <2>2, <3>2, <4>1, HeadedOf
    <3>3. QED
      BY <3>1, <3>2
  <2>9. LastWarp \in waits' => smem'[<<"valid">>] = p
    <3>1. CASE w = LastWarp
      BY <1>7, <2>1, <2>3, <2>4, <3>1
    <3>2. CASE w # LastWarp
      <4>1. smem'[<<"valid">>] = smem[<<"valid">>]
        BY <1>7, <2>1, <2>3, <2>4, <2>5, <2>6, <3>2
      <4>2. QED
        BY <1>3, <1>4, <2>2, <3>2, <4>1, HeadedOf
    <3>3. QED
      BY <3>1, <3>2
  <2>10. QED
    BY <1>1, <1>2, <2>2, <2>7, <2>8, <2>9, HeadedSet
<1>12. CASE ReadValid(w)
  <2>1. w \notin waits /\ pc[w] = "readValid" /\ smem' = smem /\ work[p].kind = "packed"
    BY <1>2, <1>5, <1>12 DEF ReadValid, At, Local
  <2>2. Phase = <<"prefetch", p, 0>>
    BY <1>6, <2>1, AheadOf
  <2>3. QED
    BY <1>1, <1>2, <2>1, <2>2, HeadedSame
<1>13. ASSUME smem' = smem, waits' = waits, w \notin waits, inflight'[w] = inflight[w], pc[w] # "routesWait",
              pc'[w] # "routesWait"
       PROVE  Headed'
  <2>1. pc'[first] = "routesWait" /\ inflight'[first] = <<>> => pc[first] = "routesWait" /\ inflight[first] = <<>>
    BY <1>3, <1>4, <1>13
  <2>2. QED
    BY <1>1, <1>2, <1>13, <2>1, HeadedSame
<1>14. ASSUME smem'[<<"route">>] = smem[<<"route">>], smem'[<<"rows">>] = smem[<<"rows">>],
              Phase[1] \notin {"prefetch", "readValid", "count"}
       PROVE  Headed'
  BY <1>1, <1>2, <1>14, HeadedSame
<1>15. ASSUME NEW c \in Cells, NEW x, c[1] \notin {"route", "rows"}, smem' = Stored({<<c, x>>})
       PROVE  smem'[<<"route">>] = smem[<<"route">>] /\ smem'[<<"rows">>] = smem[<<"rows">>]
  <2>1. \A y \in {<<"route">>, <<"rows">>} : y # c /\ ~ Overlap(y, c)
    <3>1. \A y \in {<<"route">>, <<"rows">>} : y[1] \in {"route", "rows"} /\ y[1] # c[1]
      BY <1>15
    <3>2. QED
      BY <3>1, NoUnits
  <2>2. \A y \in Cells : y # c /\ ~ Overlap(y, c) => Stored({<<c, x>>})[y] = smem[y]
    BY StoredOne
  <2>3. QED
    BY <1>7, <1>15, <2>1, <2>2
<1>16. CASE Fold(w) \/ FoldMiddle(w)
  <2>1. w \notin waits /\ pc[w] \in {"fold", "foldMiddle"}
    BY <1>16 DEF Fold, FoldMiddle, At
  <2>2. Phase \in {<<"foldMiddle", p, mb[w]>>, <<"foldFirst", p, mb[w]>>}
    BY <1>6, <2>1, AheadOf
  <2>3. \/ smem' = Stored({})
        \/ \E s, x : Slot(w, s) \in Cells /\ smem' = Stored({<<Slot(w, s), x>>})
    <3>1. CASE Fold(w)
      <4>1. CASE w[1] < 2 \/ shape.rows < 4
        BY <3>1, <4>1 DEF Fold
      <4>2. CASE ~(w[1] < 2 \/ shape.rows < 4)
        <5>1. smem' = Stored({<<Slot(w, w[1] - 2), acc[w][mb[w]]>>})
          BY <3>1, <4>2 DEF Fold
        <5>2. shape.rows = 4 /\ w[1] - 2 \in {0, 1}
          BY <4>2, Geometry, WarpIs
        <5>3. QED
          BY <5>1, <5>2, SlotInCells
      <4>3. QED
        BY <4>1, <4>2
    <3>2. CASE FoldMiddle(w)
      <4>1. CASE w[1] # 1
        BY <3>2, <4>1 DEF FoldMiddle
      <4>2. CASE w[1] = 1
        <5>1. \E x : smem' = Stored({<<Slot(w, 0), x>>})
          BY <3>2, <4>2 DEF FoldMiddle
        <5>2. shape.rows \in {2, 4}
          BY <4>2, Geometry, WarpIs
        <5>3. QED
          BY <5>1, <5>2, SlotInCells
      <4>3. QED
        BY <4>1, <4>2
    <3>3. QED
      BY <1>16, <3>1, <3>2
  <2>4. smem'[<<"route">>] = smem[<<"route">>] /\ smem'[<<"rows">>] = smem[<<"rows">>]
    <3>1. CASE smem' = Stored({})
      BY <1>7, <3>1, StoredNothing
    <3>2. ASSUME NEW s, NEW x, Slot(w, s) \in Cells, smem' = Stored({<<Slot(w, s), x>>})
          PROVE  smem'[<<"route">>] = smem[<<"route">>] /\ smem'[<<"rows">>] = smem[<<"rows">>]
      <4>1. Slot(w, s)[1] \notin {"route", "rows"}
        BY DEF Slot
      <4>2. QED
        BY <1>15, <3>2, <4>1
    <3>3. QED
      BY <2>3, <3>1, <3>2
  <2>5. QED
    BY <1>14, <2>2, <2>4
<1>17. CASE Store(w)
  <2>1. w \notin waits /\ pc[w] = "store"
    BY <1>17 DEF Store, At
  <2>2. Phase = <<"drain", p, 0>>
    BY <1>6, <2>1, AheadOf
  <2>3. smem'[<<"route">>] = smem[<<"route">>] /\ smem'[<<"rows">>] = smem[<<"rows">>]
    <3>1. CASE w[1] # 0
      <4>1. smem' = Stored({})
        BY <1>17, <3>1 DEF Store
      <4>2. QED
        BY <1>7, <4>1, StoredNothing
    <3>2. CASE w[1] = 0
      <4>1. smem' = Stored({<<<<"out", w[2]>>, acc[w]>>})
        BY <1>17, <3>2 DEF Store
      <4>2. <<"out", w[2]>> \in Cells /\ <<"out", w[2]>>[1] \notin {"route", "rows"}
        BY OutInCells
      <4>3. QED
        BY <1>15, <4>1, <4>2
    <3>3. QED
      BY <3>1, <3>2
  <2>4. QED
    BY <1>14, <2>2, <2>3
<1>18. CASE Prefetch(w) \/ PrefetchWait(w) \/ Reload(w) \/ StageAhead(w) \/ StageWait(w) \/ NextTile(w)
            \/ FoldFirst(w) \/ Finish(w) \/ Merge(w) \/ Drain(w)
  <2>1. smem' = smem /\ w \notin waits
        /\ pc[w] \in {"prefetch", "prefetchWait", "reload", "stage", "stageWait", "next", "foldFirst",
                      "finish", "merge", "drain"}
    BY <1>18 DEF Prefetch, PrefetchWait, Reload, StageAhead, StageWait, NextTile, FoldFirst, Finish,
       Merge, Drain, At
  <2>2. Phase[1] \in {"reload", "next", "fold", "finish", "merge", "merged", "drain", "routes", "end"}
    <3>1. CASE pc[w] # "next"
      BY <1>6, <2>1, <3>1, AheadOf
    <3>2. CASE pc[w] = "next"
      BY <1>6, <2>1, <3>2, AheadOf DEF AfterTile
    <3>3. QED
      BY <3>1, <3>2
  <2>3. QED
    BY <1>14, <2>1, <2>2
<1>19. CASE Merged(w)
  BY <1>1, <1>13, <1>19 DEF Merged, At, Goto, NextPiece
<1>20. QED
  BY <1>8, <1>9, <1>10, <1>11, <1>12, <1>16, <1>17, <1>18, <1>19 DEF WarpStep

-----------------------------------------------------------------------------
(* The barrier: everybody is where everybody goes. *)

LEMMA HereSays ==
  ASSUME NEW w \in waits, Local(w)
  PROVE  /\ pc[w] \in Meeting /\ Goal(w)[1] = pc[w] /\ Goal(w)[2] = piece[w]
         /\ pc[w] \in {"reload", "next"} => Goal(w)[3] = tile[w]
         /\ pc[w] \in Folding => Goal(w)[3] = mb[w]
<1>1. pc[w] \in Meeting /\ Goal(w) = Here(pc[w], piece[w], tile[w], mb[w])
  BY DEF Local, Goal
<1>2. QED
  BY <1>1, HereOf DEF Meeting, Folding

LEMMA AheadSays ==
  ASSUME NEW where \in Meeting, NEW p, NEW t, NEW m, NEW u, NEW n,
         where \in {"reload", "next"} => t = u, where \in Folding => m = n
  PROVE  Ahead(where, p, t, m) = Ahead(where, p, u, n)
<1>1. CASE where \in {"reload", "next"}
  BY <1>1, AheadOf
<1>2. CASE where \in Folding
  <2>1. m = n
    BY <1>2
  <2>2. CASE where = "fold"
    <3>1. Ahead("fold", p, t, m) = IF shape.rows = 4 THEN <<"foldMiddle", p, m>> ELSE <<"foldFirst", p, m>>
      BY AheadOf
    <3>2. Ahead("fold", p, u, m) = IF shape.rows = 4 THEN <<"foldMiddle", p, m>> ELSE <<"foldFirst", p, m>>
      BY AheadOf
    <3>3. QED
      BY <2>1, <2>2, <3>1, <3>2
  <2>3. CASE where = "foldMiddle"
    BY <2>1, <2>3, AheadOf
  <2>4. CASE where = "foldFirst"
    <3>1. Ahead("foldFirst", p, t, m) = IF m < shape.mBlocks THEN <<"fold", p, m + 1>> ELSE <<"finish", p, 0>>
      BY AheadOf
    <3>2. Ahead("foldFirst", p, u, m) = IF m < shape.mBlocks THEN <<"fold", p, m + 1>> ELSE <<"finish", p, 0>>
      BY AheadOf
    <3>3. QED
      BY <2>1, <2>4, <3>1, <3>2
  <2>5. QED
    BY <1>2, <2>2, <2>3, <2>4 DEF Folding
<1>3. CASE where \in {"routes", "end", "prefetch", "count", "readValid"}
  <2>1. CASE where \in {"routes", "end"}
    BY <2>1, AheadOf
  <2>2. CASE where = "prefetch"
    BY <2>2, AheadOf
  <2>3. CASE where = "count"
    BY <2>3, AheadOf
  <2>4. CASE where = "readValid"
    BY <2>4, AheadOf
  <2>5. QED
    BY <1>3, <2>1, <2>2, <2>3, <2>4
<1>4. CASE where \in {"finish", "merge", "merged", "drain"}
  <2>1. CASE where = "finish"
    BY <2>1, AheadOf
  <2>2. CASE where = "merge"
    BY <2>2, AheadOf
  <2>3. CASE where = "merged"
    BY <2>3, AheadOf
  <2>4. CASE where = "drain"
    <3>1. Ahead("drain", p, t, m) = IF p = Len(work) THEN <<"end", p + 1, 0>> ELSE <<"routes", p + 1, 0>>
      BY AheadOf
    <3>2. Ahead("drain", p, u, n) = IF p = Len(work) THEN <<"end", p + 1, 0>> ELSE <<"routes", p + 1, 0>>
      BY AheadOf
    <3>3. QED
      BY <2>4, <3>1, <3>2
  <2>5. QED
    BY <1>4, <2>1, <2>2, <2>3, <2>4
<1>5. QED
  BY <1>1, <1>2, <1>3, <1>4 DEF Meeting, Folding

LEMMA Parted ==
  ASSUME Framed, Control, Sync
  PROVE  /\ UNCHANGED <<shape, work, pc>> /\ waits = Warps /\ waits' = {} /\ pc[FirstWarp] \in Meeting
         /\ \A v \in Warps : Goal(v)' = Ahead(pc[FirstWarp], piece[FirstWarp], tile[FirstWarp], mb[FirstWarp])
<1> DEFINE f == FirstWarp
<1>1. UNCHANGED <<shape, work, pc, piece, tile, mb>> /\ waits = Warps /\ waits' = {}
  BY DEF Sync
<1>2. \A v \in Warps : Local(v) /\ Goal(v) = Phase
  BY DEF Control, Together
<1>3. f \in Warps
  BY Ends
<1>4. \A v \in Warps : /\ pc[v] \in Meeting /\ Phase[1] = pc[v] /\ Phase[2] = piece[v]
                       /\ pc[v] \in {"reload", "next"} => Phase[3] = tile[v]
                       /\ pc[v] \in Folding => Phase[3] = mb[v]
  BY <1>1, <1>2, HereSays
<1>5. ASSUME NEW v \in Warps
      PROVE  Goal(v)' = Ahead(pc[f], piece[f], tile[f], mb[f])
  <2>1. Goal(v)' = Ahead(pc[v], piece[v], tile[v], mb[v])
    BY <1>1, GoalNext
  <2>2. pc[v] = pc[f] /\ piece[v] = piece[f]
        /\ (pc[f] \in {"reload", "next"} => tile[v] = tile[f])
        /\ (pc[f] \in Folding => mb[v] = mb[f])
    BY <1>3, <1>4
  <2>3. Ahead(pc[f], piece[f], tile[v], mb[v]) = Ahead(pc[f], piece[f], tile[f], mb[f])
    BY <1>3, <1>4, <2>2, AheadSays
  <2>4. QED
    BY <2>1, <2>2, <2>3
<1>6. QED
  BY <1>1, <1>3, <1>4, <1>5

LEMMA HeadedParted ==
  ASSUME Framed, Control, Headed, Sync
  PROVE  Headed'
<1> DEFINE f == FirstWarp
           p == piece[f]
<1>1. /\ UNCHANGED <<shape, work, pc, smem>> /\ waits = Warps /\ waits' = {} /\ pc[f] \in Meeting
      /\ \A v \in Warps : Goal(v)' = Ahead(pc[f], p, tile[f], mb[f])
  BY Parted DEF Sync
<1>2. f \in Warps /\ LastWarp \in Warps /\ f' = f /\ Local(f) /\ Goal(f) = Phase
  BY <1>1, Ends, ShapeKept DEF Control, Phase
<1>3. Phase' = Ahead(pc[f], p, tile[f], mb[f])
  BY <1>1, <1>2 DEF Phase
<1>4. Phase[1] = pc[f] /\ Phase[2] = p
  BY <1>1, <1>2, HereSays
<1>5. ASSUME Phase'[1] \in {"stop", "count"} \/ (Phase'[1] = "prefetch" /\ work[Phase'[2]].kind # "packed")
      PROVE  Headed'
  <2>1. f' \notin waits' /\ pc'[f'] # "routesWait"
    BY <1>1, <1>2 DEF Meeting
  <2>2. QED
    BY <1>1, <1>5, <2>1 DEF Headed
<1>6. ASSUME Phase'[1] \notin {"stop", "prefetch", "count", "readValid", "routes", "end"},
             smem[<<"route">>] = Phase'[2], smem[<<"rows">>] = Phase'[2]
      PROVE  Headed'
  BY <1>1, <1>6 DEF Headed
<1>7. ASSUME NEW q, Phase' = StartOf(q), q \in 1 .. Len(work) + 1
      PROVE  Headed'
  <2>1. CASE q > Len(work)
    BY <1>5, <1>7, <2>1 DEF StartOf
  <2>2. CASE ~(q > Len(work)) /\ work[q].kind = "direct"
    BY <1>5, <1>7, <2>2 DEF StartOf
  <2>3. CASE ~(q > Len(work)) /\ work[q].kind # "direct"
    BY <1>5, <1>7, <2>3 DEF StartOf
  <2>4. QED
    BY <2>1, <2>2, <2>3
<1>8. p \in 1 .. Len(work) + 1 /\ (pc[f] # "end" => p \in 1 .. Len(work))
  BY <1>2, PieceIs DEF Local
<1>9. CASE pc[f] \in {"routes", "end"}
  BY <1>3, <1>7, <1>8, <1>9, AheadOf
<1>10. CASE pc[f] = "prefetch"
  <2>1. smem[<<"route">>] = p /\ smem[<<"rows">>] = p
    BY <1>1, <1>2, <1>4, <1>10, HeadedOf
  <2>2. Phase' = <<"reload", p, 0>>
    BY <1>3, <1>10, AheadOf
  <2>3. QED
    BY <1>6, <2>1, <2>2
<1>11. CASE pc[f] = "count"
  <2>1. smem[<<"route">>] = p
    BY <1>1, <1>2, <1>4, <1>11, HeadedOf
  <2>2. Phase' = <<"readValid", p, 0>>
    BY <1>3, <1>11, AheadOf
  <2>3. QED
    BY <1>1, <2>1, <2>2 DEF Headed
<1>12. CASE pc[f] = "readValid"
  <2>1. smem[<<"route">>] = p /\ smem[<<"rows">>] = p /\ smem[<<"valid">>] = p
    BY <1>1, <1>2, <1>4, <1>12, HeadedOf
  <2>2. Phase' = <<"prefetch", p, 0>>
    BY <1>3, <1>12, AheadOf
  <2>3. QED
    BY <1>1, <2>1, <2>2 DEF Headed
<1>13. CASE pc[f] \in {"reload", "next", "fold", "foldMiddle", "foldFirst", "finish", "merge"}
  <2>1. smem[<<"route">>] = p /\ smem[<<"rows">>] = p
    BY <1>4, <1>13, HeadedOf
  <2>2. /\ Phase'[1] \in {"next", "reload", "fold", "foldMiddle", "foldFirst", "finish", "merge", "drain", "merged"}
        /\ Phase'[2] = p
    <3>1. CASE pc[f] # "next"
      BY <1>3, <1>13, <3>1, AheadOf
    <3>2. CASE pc[f] = "next"
      BY <1>3, <3>2, AheadOf DEF AfterTile
    <3>3. QED
      BY <3>1, <3>2
  <2>3. QED
    BY <1>6, <2>1, <2>2
<1>14. CASE pc[f] = "merged"
  <2>1. smem[<<"route">>] = p /\ smem[<<"rows">>] = p
    BY <1>4, <1>14, HeadedOf
  <2>2. CASE work[p].store
    <3>1. Phase' = <<"drain", p, 0>>
      BY <1>3, <1>14, <2>2, AheadOf
    <3>2. QED
      BY <1>6, <2>1, <3>1
  <2>3. CASE ~ work[p].store
    <3>1. Phase' = StartOf(p + 1) /\ p + 1 \in 1 .. Len(work) + 1
      BY <1>3, <1>8, <1>14, <2>3, AheadOf, Geometry
    <3>2. QED
      BY <1>7, <3>1
  <2>4. QED
    BY <2>2, <2>3
<1>15. CASE pc[f] = "drain"
  <2>1. smem[<<"route">>] = p
    BY <1>4, <1>15, HeadedOf
  <2>2. Phase' \in {<<"end", p + 1, 0>>, <<"routes", p + 1, 0>>}
    BY <1>3, <1>15, AheadOf
  <2>3. Phase'[1] \in {"routes", "end"} /\ Phase'[2] - 1 = p
    BY <1>8, <1>15, <2>2
  <2>4. QED
    BY <1>1, <2>1, <2>3 DEF Headed
<1>16. QED
  BY <1>1, <1>9, <1>10, <1>11, <1>12, <1>13, <1>14, <1>15 DEF Meeting

LEMMA ControlParted ==
  ASSUME Framed, Control, Sync
  PROVE  Framed' /\ Control'
<1>1. /\ UNCHANGED <<shape, work, pc, piece, tile, mb, frag, acc, valid, inflight>> /\ waits' = {}
      /\ reads' = [w \in Warps |-> {}] /\ writes' = [w \in Warps |-> {}]
  BY DEF Sync
<1>2. Warps' = Warps /\ FirstWarp' = FirstWarp /\ FirstWarp \in Warps
  BY <1>1, ShapeKept, Ends
<1>3. Framed'
  BY <1>1, <1>2 DEF Framed
<1>4. Together'
  <2>1. \A v \in Warps : Goal(v)' = Goal(FirstWarp)'
    BY <1>2, Parted
  <2>2. QED
    BY <1>2, <2>1 DEF Together, Phase
<1>5. ASSUME NEW v \in Warps
      PROVE  Local(v)' /\ Queue(v)' /\ Footprint(v)'
  <2>1. Local(v) /\ Queue(v)
    BY DEF Control
  <2>2. Local(v)'
    BY <1>1, <2>1 DEF Local, Piece
  <2>3. Queue(v)'
    <3>2. Room(v)' = Room(v) /\ Youngest(v)' = Youngest(v)
      BY <1>1 DEF Room, Youngest
    <3>3. CASE inflight[v] = <<>>
      BY <1>1, <2>1, <3>3, QueueSame
    <3>4. CASE pc[v] # "routesWait"
      BY <1>1, <2>1, <3>2, <3>4, QueueSame DEF Queue
    <3>5. CASE pc[v] = "routesWait"
      BY <2>1, <3>5 DEF Local, Meeting, Sync
    <3>6. QED
      BY <3>3, <3>4, <3>5
  <2>4. Footprint(v)'
    BY <1>1 DEF Footprint
  <2>5. QED
    BY <2>2, <2>3, <2>4
<1>6. QED
  BY <1>1, <1>2, <1>3, <1>4, <1>5 DEF Control

LEMMA ControlRests ==
  ASSUME Framed, Control, Headed, UNCHANGED vars
  PROVE  Framed' /\ Control' /\ Headed'
<1> DEFINE nobody == <<-1, 0>>
<1>1. UNCHANGED <<shape, work, smem, pc, waits, piece, tile, mb, frag, acc, valid, inflight, reads, writes>>
  BY DEF vars
<1>2. Warps' = Warps /\ FirstWarp' = FirstWarp /\ FirstWarp \in Warps
  BY <1>1, ShapeKept, Ends
<1>3. nobody \notin Warps
  BY DEF Warps
<1>4. Rest(nobody)
  BY <1>1 DEF Rest
<1>5. \A v \in Warps : Goal(v)' = Goal(v)
  BY <1>3, <1>4, GoalOther
<1>6. Phase' = Phase
  BY <1>2, <1>5 DEF Phase
<1>7. \A v \in Warps : Local(v)' /\ Queue(v)' /\ Footprint(v)'
  BY <1>3, <1>4, <1>6, LocalOther, QueueOther, FootOther DEF Control
<1>8. Together'
  BY <1>2, <1>5, <1>6 DEF Together, Control
<1>9. Headed'
  BY <1>1, <1>6, HeadedSame
<1>10. QED
  BY <1>1, <1>2, <1>7, <1>8, <1>9 DEF Framed, Control

LEMMA ControlStarts ==
  ASSUME Init
  PROVE  Framed /\ Control /\ Headed
<1>1. Framed
  BY DEF Init, Framed
<1>2. FirstWarp \in Warps /\ Len(work) \in Nat \ {0} /\ shape.mBlocks \in Nat \ {0}
  BY <1>1, Ends, Geometry
<1>3. /\ waits = {} /\ \A v \in Warps : /\ pc[v] = "routes" /\ piece[v] = 1 /\ tile[v] = 0 /\ mb[v] = 1
                                        /\ inflight[v] = <<>> /\ reads[v] = {} /\ writes[v] = {}
  BY DEF Init
<1>4. \A v \in Warps : Goal(v) = StartOf(1)
  BY <1>3, AheadOf DEF Goal
<1>5. Phase = StartOf(1) /\ Together
  BY <1>2, <1>4 DEF Phase, Together
<1>6. ASSUME NEW v \in Warps
      PROVE  Local(v) /\ Queue(v) /\ Footprint(v)
  <2>1. Local(v)
    BY <1>2, <1>3 DEF Local, Places, Meeting, Folding
  <2>2. Queue(v)
    <3>1. inflight[v] = <<>> /\ Room(v) = 0
      BY <1>3, RoomIs
    <3>2. <<>> \in Seq(SUBSET Copies) /\ Len(<<>>) = 0
      OBVIOUS
    <3>3. QED
      BY <3>1, <3>2 DEF Queue
  <2>3. Footprint(v)
    BY <1>3 DEF Footprint
  <2>4. QED
    BY <2>1, <2>2, <2>3
<1>7. Control
  BY <1>3, <1>5, <1>6 DEF Control
<1>8. Headed
  <2>1. work[1].kind \in {"direct", "packed"}
    BY <1>1, <1>2, Geometry
  <2>2. Phase \in {<<"prefetch", 1, 0>>, <<"count", 1, 0>>} /\ (Phase[1] = "prefetch" => work[1].kind # "packed")
    BY <1>2, <1>5, <2>1 DEF StartOf
  <2>3. QED
    BY <1>2, <1>3, <2>2 DEF Headed
<1>9. QED
  BY <1>1, <1>7, <1>8

\* Between two barriers no warp reads or writes a shared cell another warp
\* writes or has a copy landing in: the __syncthreads of _run_mma_pipeline,
\* _read_moe_block_data and _fold_cta_partials are enough, for any number of
\* pieces and K tiles and whatever the order in which the copies land.
THEOREM NoRaces == Spec => []RaceFree
<1>1. Init => Framed /\ Control /\ Headed
  BY ControlStarts
<1>2. Framed /\ Control /\ Headed /\ [Next]_vars => Framed' /\ Control' /\ Headed'
  <2> SUFFICES ASSUME Framed, Control, Headed, [Next]_vars
               PROVE  Framed' /\ Control' /\ Headed'
    OBVIOUS
  <2>1. ASSUME NEW w \in Warps, WarpStep(w)
        PROVE  Framed' /\ Control' /\ Headed'
    BY <2>1, ControlKept, HeadedKept
  <2>2. CASE Sync
    BY <2>2, ControlParted, HeadedParted
  <2>3. CASE UNCHANGED vars
    BY <2>3, ControlRests
  <2>4. QED
    BY <2>1, <2>2, <2>3 DEF Next
<1>3. Framed /\ Control => RaceFree
  BY NoRace
<1>4. QED
  BY <1>1, <1>2, <1>3, PTL DEF Spec
-----------------------------------------------------------------------------
(* Which step writes to the memory on the way to which barrier. *)

LEMMA MemoryStep ==
  ASSUME Framed, NEW w \in Warps, Local(w), Queue(w), Goal(w) = Phase, WarpStep(w)
  PROVE  /\ Phase[1] \in {"fold", "finish", "merge", "merged", "routes", "end", "stop"} => smem' = smem
         /\ Phase[1] \in {"reload", "next"} =>
               \/ smem' = smem
               \/ /\ pc[w] # "routesWait" /\ piece[w] \in 1 .. Len(work)
                  /\ \E t \in Nat : t < work[piece[w]].tiles /\ smem' = Stored(Group(w, piece[w], t))
         /\ Phase[1] = "foldMiddle" => smem' = smem \/ (Fold(w) /\ shape.rows = 4)
         /\ Phase[1] = "foldFirst" => smem' = smem \/ FoldMiddle(w) \/ (Fold(w) /\ shape.rows # 4)
         /\ Phase[1] = "drain" => smem' = smem \/ Store(w)
<1>1. w \notin waits => Phase = Ahead(pc[w], piece[w], tile[w], mb[w])
  BY DEF Goal
<1>2. CASE Land(w)
  <2>1. PICK i \in DOMAIN inflight[w] : inflight[w][i] # {} /\ smem' = Stored(inflight[w][i])
    BY <1>2 DEF Land
  <2>2. CASE Goal(w) = <<"count", piece[w], 0>>
    BY <2>2
  <2>3. CASE /\ pc[w] # "routesWait" /\ Goal(w)[1] \in {"reload", "next"}
             /\ \E t \in Nat : TileOf(w, i) = t /\ t < work[piece[w]].tiles
                               /\ inflight[w][i] = Group(w, piece[w], t)
    <3>1. pc[w] # "end"
      <4>1. inflight[w] # <<>>
        BY <2>1
      <4>2. QED
        BY <4>1, EmptyQueue DEF Idle
    <3>2. piece[w] \in 1 .. Len(work)
      BY <3>1, PieceIs
    <3>3. QED
      BY <2>1, <2>3, <3>2
  <2>4. QED
    BY <2>1, <2>2, <2>3, LandIs
<1>3. CASE Routes(w)
  <2>1. w \notin waits /\ pc[w] = "routes" /\ piece[w] \in 1 .. Len(work)
    BY <1>3, PieceIs DEF Routes, At
  <2>2. Phase[1] \in {"prefetch", "count"}
    BY <1>1, <2>1, AheadOf, Geometry DEF StartOf
  <2>3. QED
    BY <2>2
<1>4. CASE Count(w)
  BY <1>1, <1>4, AheadOf DEF Count, At
<1>5. CASE Fold(w)
  BY <1>1, <1>5, AheadOf DEF Fold, At
<1>6. CASE FoldMiddle(w)
  BY <1>1, <1>6, AheadOf DEF FoldMiddle, At
<1>7. CASE Store(w)
  BY <1>1, <1>7, AheadOf DEF Store, At
<1>8. CASE smem' = smem
  BY <1>8
<1>9. QED
  BY <1>2, <1>3, <1>4, <1>5, <1>6, <1>7, <1>8 DEF WarpStep, RoutesWait, ReadValid, Prefetch, PrefetchWait,
     Reload, StageAhead, StageWait, NextTile, FoldFirst, Finish, Merge, Merged, Drain

Ring == {"prefetchWait", "reload", "stage", "stageWait", "next"}

LEMMA RingPhase ==
  ASSUME NEW v, Goal(v) = Phase, pc[v] \in Ring, Local(v)
  PROVE  Phase[1] \in {"reload", "next", "fold", "finish"}
<1>1. CASE v \in waits
  <2>1. pc[v] \in {"reload", "next"} /\ Phase[1] = pc[v]
    BY <1>1, HereSays DEF Ring, Meeting
  <2>2. QED
    BY <2>1
<1>2. CASE v \notin waits
  <2>1. Phase = Ahead(pc[v], piece[v], tile[v], mb[v])
    BY <1>2 DEF Goal
  <2>2. CASE pc[v] # "next"
    BY <2>1, <2>2, AheadOf DEF Ring
  <2>3. CASE pc[v] = "next"
    BY <2>1, <2>3, AheadOf DEF AfterTile
  <2>4. QED
    BY <2>2, <2>3
<1>3. QED
  BY <1>1, <1>2

\* A warp whose registers stay knows the same of them.
LEMMA RegistersSame ==
  ASSUME UNCHANGED <<shape, work>>, NEW v, pc'[v] = pc[v], piece'[v] = piece[v], tile'[v] = tile[v],
         mb'[v] = mb[v], frag'[v] = frag[v], acc'[v] = acc[v], valid'[v] = valid[v]
  PROVE  /\ Counted(v) => Counted(v)'
         /\ Summed(v) => Summed(v)'
         /\ Folded(v) => Folded(v)'
<1>1. Counted(v) => Counted(v)'
  BY DEF Counted
<1>2. Summed(v) => Summed(v)'
  <2>1. \A m : RowTerms(v[1], piece[v], tile[v], m)' = RowTerms(v[1], piece[v], tile[v], m)
    BY DEF RowTerms
  <2>2. Term(v, 0)' = Term(v, 0) /\ Term(v, 1)' = Term(v, 1)
    BY DEF Term, Piece
  <2>3. QED
    BY <2>1, <2>2 DEF Summed
<1>3. Folded(v) => Folded(v)'
  <2>1. \A m : Own(v, m)' = Own(v, m)
    BY DEF Own, RowsTerms
  <2>2. Exact(piece[v])' = Exact(piece[v])
    BY DEF Exact, KBlocks
  <2>3. QED
    BY <2>1, <2>2 DEF Folded
<1>4. QED
  BY <1>1, <1>2, <1>3

LEMMA RegistersOther ==
  ASSUME NEW w, Rest(w), NEW v \in Warps \ {w}
  PROVE  /\ Counted(v) => Counted(v)'
         /\ Summed(v) => Summed(v)'
         /\ Folded(v) => Folded(v)'
<1>1. /\ UNCHANGED <<shape, work>> /\ pc'[v] = pc[v] /\ piece'[v] = piece[v]
      /\ tile'[v] = tile[v] /\ mb'[v] = mb[v] /\ frag'[v] = frag[v] /\ acc'[v] = acc[v]
      /\ valid'[v] = valid[v]
  BY DEF Rest
<1>2. QED
  BY <1>1, RegistersSame

LEMMA RingedOther ==
  ASSUME Framed, Control, NEW w \in Warps, WarpStep(w), NEW v \in Warps \ {w}, Ringed(v)
  PROVE  Ringed(v)'
<1>1. Rest(w) /\ Goal(v) = Phase /\ Goal(w) = Phase /\ Local(v) /\ Local(w) /\ Queue(v) /\ Queue(w)
  BY FrameStep DEF Control, Together
<1>2. UNCHANGED <<shape, work>> /\ pc'[v] = pc[v] /\ piece'[v] = piece[v] /\ tile'[v] = tile[v]
      /\ inflight'[v] = inflight[v]
  BY <1>1 DEF Rest
<1>3. Youngest(v)' = Youngest(v) /\ \A i : TileOf(v, i)' = TileOf(v, i)
  <2>1. Youngest(v)' = Youngest(v)
    BY <1>2 DEF Youngest
  <2>2. QED
    BY <1>2, <2>1 DEF TileOf
<1>4. ASSUME NEW s, InFlight(v, s)
      PROVE  InFlight(v, s)'
  BY <1>2, <1>3, <1>4 DEF InFlight
<1>5. ASSUME pc[v] \in Ring, NEW s \in Nat, Landed(v, piece[v], s)
      PROVE  Landed(v, piece[v], s)'
  <2>1. \A x \in StageCells(v, s) : smem'[x] = smem[x]
    <3>1. Phase[1] \in {"reload", "next", "fold", "finish"}
      BY <1>1, <1>5, RingPhase
    <3>2. CASE smem' = smem
      BY <3>2
    <3>3. ASSUME NEW t \in Nat, piece[w] \in 1 .. Len(work), t < work[piece[w]].tiles,
                 smem' = Stored(Group(w, piece[w], t))
          PROVE  \A x \in StageCells(v, s) : smem'[x] = smem[x]
      BY <3>3, GroupLands
    <3>4. QED
      BY <1>1, <3>1, <3>2, <3>3, MemoryStep
  <2>2. StageCells(v, s)' = StageCells(v, s)
    BY <1>2, ShapeKept
  <2>3. QED
    BY <1>2, <1>5, <2>1, <2>2 DEF Landed
<1>6. pc[v] \in Ring => tile[v] \in Nat /\ Youngest(v) \in Nat
  BY <1>1, RoomIs DEF Ring, Local
<1>7. QED
  <2> SUFFICES ASSUME pc[v] \in Ring, NEW s \in tile[v] .. Youngest(v) - 1, s < Piece(v).tiles
               PROVE  InFlight(v, s)' \/ Landed(v, piece[v], s)'
    BY <1>2, <1>3 DEF Ringed, Ring, Piece
  <2>1. InFlight(v, s) \/ Landed(v, piece[v], s)
    BY DEF Ringed, Ring
  <2>2. s \in Nat
    BY <1>6
  <2>3. QED
    BY <1>4, <1>5, <2>1, <2>2

-----------------------------------------------------------------------------
(* The registers and the ring of the warp that steps. *)

LEMMA CountedKept ==
  ASSUME Framed, Control, Headed, NEW w \in Warps, WarpStep(w), Counted(w)
  PROVE  Counted(w)'
<1>1. Local(w) /\ Goal(w) = Phase /\ DOMAIN pc = Warps /\ DOMAIN valid = Warps /\ DOMAIN piece = Warps
  BY DEF Control, Together, Framed
<1>2. CASE Routes(w)
  BY <1>1, <1>2 DEF Routes, Goto, Arrive, Counted
<1>3. CASE ReadValid(w)
  <2>1. w \notin waits /\ pc[w] = "readValid" /\ valid'[w] = smem[<<"valid">>] /\ piece' = piece
    BY <1>1, <1>3 DEF ReadValid, At
  <2>2. Phase = <<"prefetch", piece[w], 0>>
    BY <1>1, <2>1, AheadOf DEF Goal
  <2>3. work[piece[w]].kind = "packed"
    BY <1>1, <2>1 DEF Local, Piece
  <2>4. valid'[w] = piece'[w]
    BY <2>1, <2>2, <2>3, HeadedOf
  <2>5. QED
    BY <2>4 DEF Counted
<1>4. CASE Merged(w) \/ Drain(w)
  <2>1. valid' = valid /\ ((piece' = piece /\ pc[w] = "merged") \/ pc'[w] \in {"routes", "end"})
    BY <1>1, <1>4 DEF Merged, Drain, At, Goto, Arrive, NextPiece
  <2>2. QED
    BY <2>1 DEF Counted
<1>5. CASE RoutesWait(w) \/ Count(w)
  BY <1>1, <1>5 DEF RoutesWait, Count, Arrive, Counted
<1>6. CASE Land(w)
  BY <1>6 DEF Land, Counted
<1>7. CASE \/ Prefetch(w) \/ PrefetchWait(w) \/ Reload(w) \/ StageAhead(w) \/ StageWait(w) \/ NextTile(w)
           \/ Fold(w) \/ FoldMiddle(w) \/ FoldFirst(w) \/ Finish(w) \/ Merge(w) \/ Store(w)
  <2>1. valid' = valid /\ piece' = piece /\ pc[w] \notin {"routes", "routesWait", "count", "readValid", "end"}
    BY <1>7 DEF Prefetch, PrefetchWait, Reload, StageAhead, StageWait, NextTile, Fold, FoldMiddle, FoldFirst,
       Finish, Merge, Store, At
  <2>2. QED
    BY <2>1 DEF Counted
<1>8. QED
  BY <1>2, <1>3, <1>4, <1>5, <1>6, <1>7 DEF WarpStep

\* A group that stays in the queue keeps its tile when the landed ones before it are forgotten.
LEMMA StaysInFlight ==
  ASSUME NEW w, NEW s \in Seq(SUBSET Copies), Len(s) <= 3, inflight'[w] = Trim(s),
         Youngest(w)' \in Int, NEW j \in 1 .. Len(s), s[j] # {},
         NEW n, Youngest(w)' - Len(s) + j - 1 = n
  PROVE  InFlight(w, n)'
<1>1. PICK d \in 0 .. Len(s) : /\ Len(Trim(s)) = Len(s) - d
                               /\ \A i \in 1 .. Len(Trim(s)) : Trim(s)[i] = s[i + d]
                               /\ \A i \in 1 .. d : s[i] = {}
  BY TrimIs
<1>2. Len(s) \in Nat /\ j > d /\ j - d \in 1 .. Len(Trim(s)) /\ Trim(s)[j - d] = s[j]
  <2>1. Len(s) \in Nat /\ j \in Nat /\ d \in Nat /\ j <= Len(s)
    OBVIOUS
  <2>2. j > d
    BY <1>1, <2>1
  <2>3. j - d \in 1 .. Len(Trim(s)) /\ (j - d) + d = j
    BY <1>1, <2>1, <2>2
  <2>4. QED
    BY <1>1, <2>1, <2>2, <2>3
<1>3. Youngest(w)' - Len(Trim(s)) + (j - d) - 1 = n
  BY <1>1, <1>2
<1>4. TileOf(w, j - d)' = Youngest(w)' - Len(Trim(s)) + (j - d) - 1
  BY DEF TileOf
<1>5. QED
  BY <1>2, <1>3, <1>4 DEF InFlight

LEMMA GroupFull ==
  ASSUME NEW w, NEW p, NEW t, ~(t >= work[p].tiles)
  PROVE  Group(w, p, t) # {}
BY DEF Group

LEMMA RingedKept ==
  ASSUME Framed, Control, Headed, NEW w \in Warps, WarpStep(w), Ringed(w)
  PROVE  Ringed(w)'
<1> DEFINE p == piece[w]
<1>1. /\ UNCHANGED <<shape, work>> /\ Warps' = Warps /\ DOMAIN pc = Warps /\ DOMAIN inflight = Warps
      /\ DOMAIN tile = Warps
      /\ Local(w) /\ Queue(w) /\ Goal(w) = Phase /\ tile[w] \in Nat /\ DOMAIN piece = Warps
  BY FrameStep DEF Rest, Control, Together, Framed, Local
<1>2. inflight[w] \in Seq(SUBSET Copies) /\ Len(inflight[w]) \in Nat /\ Len(inflight[w]) <= Room(w)
  <2>1. inflight[w] \in Seq(SUBSET Copies)
    BY <1>1 DEF Queue
  <2>2. QED
    BY <1>1, <2>1 DEF Queue
<1>3. \A t : StageCells(w, t)' = StageCells(w, t)
  BY <1>1, ShapeKept
<1>4. CASE pc'[w] \notin Ring
  BY <1>4 DEF Ringed, Ring
<1>5. ASSUME smem' = smem, p = piece'[w], NEW n, Landed(w, p, n)
      PROVE  Landed(w, piece[w], n)'
  BY <1>1, <1>3, <1>5 DEF Landed
<1>6. ASSUME smem' = smem, inflight' = inflight, piece' = piece, pc[w] \in Ring, pc'[w] \in Ring,
             tile'[w] \in {tile[w], tile[w] + 1}, Youngest(w)' = Youngest(w), Youngest(w) \in Int
      PROVE  Ringed(w)'
  <2> SUFFICES ASSUME NEW n \in tile'[w] .. Youngest(w)' - 1, n < Piece(w)'.tiles
               PROVE  InFlight(w, n)' \/ Landed(w, piece[w], n)'
    BY DEF Ringed
  <2>1. n \in tile[w] .. Youngest(w) - 1
    BY <1>1, <1>6
  <2>2. n < Piece(w).tiles
    BY <1>1, <1>6 DEF Piece
  <2>3. InFlight(w, n) \/ Landed(w, p, n)
    BY <1>6, <2>1, <2>2 DEF Ringed, Ring
  <2>4. InFlight(w, n) => InFlight(w, n)'
    BY <1>6 DEF InFlight, TileOf
  <2>5. QED
    BY <1>5, <1>6, <2>3, <2>4
<1>7. CASE Prefetch(w)
  <2>1. /\ pc[w] = "prefetch" /\ w \notin waits /\ pc'[w] = "prefetchWait" /\ piece' = piece
        /\ tile'[w] = 0 /\ inflight'[w] = Trim(inflight[w] \o [i \in 1 .. Stages - 1 |-> Staged(w, i - 1)])
    BY <1>1, <1>7 DEF Prefetch, At, Goto, Commit
  <2>2. p \in 1 .. Len(work) /\ smem[<<"rows">>] = p
    BY <1>1, <2>1, PieceIs, RowsKnown
  <2>3. inflight[w] = <<>>
    BY <1>1, <2>1, EmptyQueue DEF Idle
  <2> DEFINE s == <<Group(w, p, 0), Group(w, p, 1), Group(w, p, 2)>>
  <2>4. inflight'[w] = Trim(s)
    <3>1. Staged(w, 0) = Group(w, p, 0) /\ Staged(w, 1) = Group(w, p, 1) /\ Staged(w, 2) = Group(w, p, 2)
      BY <2>2, StagedIs
    <3>2. [i \in 1 .. Stages - 1 |-> Staged(w, i - 1)] = <<Staged(w, 0), Staged(w, 1), Staged(w, 2)>>
      BY DEF Stages
    <3>3. \A a, b, c : <<>> \o <<a, b, c>> = <<a, b, c>>
      OBVIOUS
    <3>4. inflight[w] \o [i \in 1 .. Stages - 1 |-> Staged(w, i - 1)]
          = <<>> \o <<Group(w, p, 0), Group(w, p, 1), Group(w, p, 2)>>
      BY <2>3, <3>1, <3>2
    <3>5. inflight[w] \o [i \in 1 .. Stages - 1 |-> Staged(w, i - 1)] = s
      BY <3>3, <3>4
    <3>6. QED
      BY <2>1, <3>5
  <2>5. Group(w, p, 0) \in SUBSET Copies /\ Group(w, p, 1) \in SUBSET Copies /\ Group(w, p, 2) \in SUBSET Copies
    BY <2>2, GroupIs
  <2>6. s \in Seq(SUBSET Copies) /\ Len(s) = 3 /\ \A j \in 1 .. 3 : s[j] = Group(w, p, j - 1)
    BY <2>5
  <2>7. Youngest(w)' = 3
    BY <2>1, RoomNext
  <2> HIDE DEF s
  <2> SUFFICES ASSUME NEW n \in 0 .. 2, n < Piece(w)'.tiles
               PROVE  InFlight(w, n)'
    BY <2>1, <2>7 DEF Ringed
  <2>8. n < work[p].tiles /\ work[p].tiles \in Nat
    BY <1>1, <2>1, <2>2, Geometry DEF Piece
  <2>9. n + 1 \in 1 .. Len(s) /\ s[n + 1] = Group(w, p, n) /\ Group(w, p, n) # {}
    BY <2>6, <2>8, GroupFull
  <2>10. Youngest(w)' - Len(s) + (n + 1) - 1 = n /\ Youngest(w)' \in Int /\ Len(s) <= 3
    BY <2>6, <2>7
  <2>11. QED
    BY <2>4, <2>6, <2>9, <2>10, StaysInFlight
<1>8. CASE StageAhead(w)
  <2> DEFINE t == tile[w]
             s == inflight[w] \o <<Group(w, p, t + 3)>>
  <2>1. /\ pc[w] = "stage" /\ w \notin waits /\ pc'[w] = "stageWait" /\ piece' = piece /\ smem' = smem
        /\ tile' = tile /\ inflight'[w] = Trim(inflight[w] \o <<Staged(w, t + 3)>>)
    BY <1>1, <1>8 DEF StageAhead, At, Goto, Commit, Stages
  <2>2. p \in 1 .. Len(work) /\ smem[<<"rows">>] = p
    BY <1>1, <2>1, PieceIs, RowsKnown
  <2>3. t \in Nat /\ t + 3 \in Nat
    BY <1>1
  <2>4. inflight'[w] = Trim(s)
    BY <2>1, <2>2, <2>3, StagedIs
  <2>5. Group(w, p, t + 3) \in SUBSET Copies
    BY <2>2, <2>3, GroupIs
  <2>6. /\ s \in Seq(SUBSET Copies) /\ Len(s) = Len(inflight[w]) + 1
        /\ \A j \in 1 .. Len(inflight[w]) : s[j] = inflight[w][j]
        /\ s[Len(inflight[w]) + 1] = Group(w, p, t + 3)
    <3>1. <<Group(w, p, t + 3)>> \in Seq(SUBSET Copies)
      BY <2>5
    <3>2. QED
      BY <1>2, <3>1
  <2>7. Youngest(w)' = t + 4 /\ Youngest(w) = t + 3 /\ Len(inflight[w]) <= 2
    BY <1>2, <2>1, RoomIs, RoomNext
  <2> HIDE DEF s, t
  <2>8. Len(s) <= 3 /\ Youngest(w)' \in Int
    BY <1>2, <2>3, <2>6, <2>7
  <2> SUFFICES ASSUME NEW n \in tile'[w] .. Youngest(w)' - 1, n < Piece(w)'.tiles
               PROVE  InFlight(w, n)' \/ Landed(w, piece[w], n)'
    BY DEF Ringed
  <2>9. n < work[p].tiles /\ work[p].tiles \in Nat /\ Piece(w) = work[p] /\ n \in t .. t + 3
    <3>1. Piece(w)' = work[p] /\ tile'[w] = t
      BY <1>1, <2>1 DEF Piece, t
    <3>2. n < work[p].tiles /\ n \in t .. t + 3
      <4>1. Youngest(w)' - 1 = t + 3
        BY <2>3, <2>7
      <4>2. QED
        BY <3>1, <4>1
    <3>3. QED
      BY <2>2, <3>2, Geometry DEF Piece
  <2>10. CASE n = t + 3
    <3>1. Len(s) \in 1 .. Len(s) /\ s[Len(s)] = Group(w, p, n) /\ Group(w, p, n) # {}
      BY <1>2, <2>3, <2>6, <2>9, <2>10, GroupFull
    <3>2. Youngest(w)' - Len(s) + Len(s) - 1 = n
      BY <1>2, <2>3, <2>6, <2>7, <2>10
    <3>3. QED
      BY <2>4, <2>6, <2>8, <3>1, <3>2, StaysInFlight
  <2>11. CASE n # t + 3
    <3>1. n \in tile[w] .. Youngest(w) - 1
      BY <2>3, <2>7, <2>9, <2>11 DEF t
    <3>2. InFlight(w, n) \/ Landed(w, p, n)
      BY <2>1, <2>9, <3>1 DEF Ringed
    <3>3. CASE InFlight(w, n)
      <4>1. PICK j \in 1 .. Len(inflight[w]) : TileOf(w, j) = n /\ inflight[w][j] # {}
        BY <3>3 DEF InFlight
      <4>2. j \in 1 .. Len(s) /\ s[j] # {}
        BY <1>2, <2>6, <4>1
      <4>3. Youngest(w)' - Len(s) + j - 1 = n
        <5>1. Youngest(w) - Len(inflight[w]) + j - 1 = n
          BY <4>1 DEF TileOf
        <5>2. \A a, l, k \in Int : (a + 4) - (l + 1) + k - 1 = (a + 3) - l + k - 1
          OBVIOUS
        <5>3. j \in Int /\ Len(inflight[w]) \in Int /\ t \in Int
          BY <1>2, <2>3
        <5>4. (t + 4) - (Len(inflight[w]) + 1) + j - 1 = (t + 3) - Len(inflight[w]) + j - 1
          BY <5>2, <5>3
        <5>5. Youngest(w)' - Len(s) + j - 1 = (t + 4) - (Len(inflight[w]) + 1) + j - 1
          BY <2>6, <2>7
        <5>6. QED
          BY <2>7, <5>1, <5>4, <5>5
      <4>4. QED
        BY <2>4, <2>6, <2>8, <4>2, <4>3, StaysInFlight
    <3>4. CASE Landed(w, p, n)
      BY <1>5, <2>1, <3>4
    <3>5. QED
      BY <3>2, <3>3, <3>4
  <2>12. QED
    BY <2>10, <2>11
<1>9. CASE Land(w) /\ pc[w] \in Ring
  <2>1. PICK i \in DOMAIN inflight[w] :
           /\ inflight[w][i] # {} /\ smem' = Stored(inflight[w][i])
           /\ inflight'[w] = Trim([inflight[w] EXCEPT ![i] = {}])
    BY <1>1, <1>9 DEF Land
  <2> DEFINE s == [inflight[w] EXCEPT ![i] = {}]
  <2>2. UNCHANGED <<pc, waits, tile, piece>>
    BY <1>9 DEF Land
  <2>3. i \in 1 .. Len(inflight[w]) /\ pc[w] # "routesWait" /\ pc[w] # "end"
    BY <1>2, <1>9 DEF Ring
  <2>4. p \in 1 .. Len(work)
    BY <1>1, <2>3, PieceIs
  <2>5. PICK t \in Nat : TileOf(w, i) = t /\ t < work[p].tiles /\ inflight[w][i] = Group(w, p, t)
    BY <1>1, <2>1, <2>3, LandIs
  <2>6. s \in Seq(SUBSET Copies) /\ Len(s) = Len(inflight[w])
        /\ \A j \in 1 .. Len(inflight[w]) : j # i => s[j] = inflight[w][j]
    BY <1>2, <2>3
  <2>7. Youngest(w)' = Youngest(w) /\ Youngest(w) \in Int /\ Len(inflight[w]) <= 3
        /\ Len(inflight[w]) <= Youngest(w) - tile[w]
        /\ Youngest(w) <= tile[w] + 4
    <3>1. Youngest(w)' = Youngest(w)
      BY <2>2 DEF Youngest
    <3>2. CASE pc[w] = "prefetchWait"
      <4>1. tile[w] = 0
        BY <1>1, <3>2 DEF Local
      <4>2. QED
        BY <1>1, <1>2, <3>1, <3>2, <4>1, RoomIs
    <3>3. CASE pc[w] \in {"reload", "stage", "stageWait", "next"}
      BY <1>1, <1>2, <3>1, <3>3, RoomIs
    <3>4. QED
      BY <1>9, <3>2, <3>3 DEF Ring
  <2> HIDE DEF s
  <2>8. t >= tile[w] /\ t <= Youngest(w) - 1
    BY <1>1, <1>2, <2>3, <2>5, <2>7 DEF TileOf
  <2> SUFFICES ASSUME NEW n \in tile'[w] .. Youngest(w)' - 1, n < Piece(w)'.tiles
               PROVE  InFlight(w, n)' \/ Landed(w, piece[w], n)'
    BY DEF Ringed
  <2>9. n \in tile[w] .. Youngest(w) - 1 /\ n < Piece(w).tiles /\ n \in Nat
    BY <1>1, <2>2, <2>7 DEF Piece
  <2>10. (\A x \in StageCells(w, n) : smem'[x] = <<p, work[p].first + n>>) => Landed(w, piece[w], n)'
    BY <1>1, <1>3, <2>2 DEF Landed
  <2>11. CASE n = t
    <3>1. \A x \in StageCells(w, t) : Stored(Group(w, p, t))[x] = <<p, work[p].first + t>>
      BY <2>4, <2>5, GroupLands
    <3>2. QED
      BY <2>1, <2>5, <2>10, <2>11, <3>1
  <2>12. CASE n # t
    <3>1. InFlight(w, n) \/ Landed(w, p, n)
      BY <1>9, <2>9 DEF Ringed, Ring
    <3>2. CASE InFlight(w, n)
      <4>1. PICK j \in 1 .. Len(inflight[w]) : TileOf(w, j) = n /\ inflight[w][j] # {}
        BY <3>2 DEF InFlight
      <4>2. j # i
        BY <2>5, <2>12, <4>1
      <4>3. j \in 1 .. Len(s) /\ s[j] # {}
        BY <2>6, <4>1, <4>2
      <4>4. Youngest(w)' - Len(s) + j - 1 = n
        BY <2>6, <2>7, <4>1 DEF TileOf
      <4>5. QED
        BY <2>1, <2>6, <2>7, <4>3, <4>4, StaysInFlight DEF s
    <3>3. CASE Landed(w, p, n)
      <4>1. n % Stages # t % Stages
        <5>1. CASE n > t
          <6>1. n \in t + 1 .. t + 3
            BY <1>1, <2>7, <2>8, <2>9, <5>1
          <6>2. QED
            BY <6>1, Ahead4
        <5>2. CASE n < t
          <6>1. t \in n + 1 .. n + 3
            BY <1>1, <2>7, <2>8, <2>9, <5>2
          <6>2. QED
            BY <2>9, <6>1, Ahead4
        <5>3. QED
          BY <2>9, <2>12, <5>1, <5>2
      <4>2. \A x \in StageCells(w, n) : Stored(Group(w, p, t))[x] = smem[x]
        BY <2>4, <2>5, <2>9, <4>1, GroupLands
      <4>3. QED
        BY <2>1, <2>5, <2>10, <3>3, <4>2 DEF Landed
    <3>4. QED
      BY <3>1, <3>2, <3>3
  <2>13. QED
    BY <2>11, <2>12
<1>10. CASE Land(w) /\ pc[w] \notin Ring
  BY <1>4, <1>10 DEF Land
<1>11. CASE PrefetchWait(w) \/ Reload(w) \/ StageWait(w)
  <2>1. /\ smem' = smem /\ inflight' = inflight /\ piece' = piece /\ tile' = tile
        /\ \/ pc[w] = "prefetchWait" /\ pc'[w] = "reload"
           \/ pc[w] = "reload" /\ pc'[w] = "stage"
           \/ pc[w] = "stageWait" /\ pc'[w] = "next"
    BY <1>1, <1>11 DEF PrefetchWait, Reload, StageWait, At, Arrive, Goto
  <2>2. Youngest(w)' = Youngest(w) /\ Youngest(w) \in Int
    <3>1. pc[w] = "prefetchWait" => tile[w] = 0
      BY <1>1 DEF Local
    <3>2. QED
      BY <1>1, <2>1, <3>1, RoomIs, RoomNext
  <2>3. QED
    BY <1>6, <2>1, <2>2 DEF Ring
<1>12. CASE NextTile(w) /\ pc'[w] \in Ring
  <2>1. /\ smem' = smem /\ inflight' = inflight /\ piece' = piece /\ tile'[w] = tile[w] + 1
        /\ pc[w] = "next"
    BY <1>1, <1>12 DEF NextTile, At
  <2>2. pc'[w] \in {"reload", "stage"}
    BY <1>1, <1>12 DEF NextTile, Arrive, Goto, Ring
  <2>3. Youngest(w)' = Youngest(w) /\ Youngest(w) \in Int
    BY <1>1, <2>1, <2>2, RoomIs, RoomNext
  <2>4. QED
    BY <1>6, <2>1, <2>2, <2>3 DEF Ring
<1>13. CASE Routes(w) \/ RoutesWait(w) \/ Count(w) \/ ReadValid(w)
  BY <1>1, <1>4, <1>13 DEF Routes, RoutesWait, Count, ReadValid, Arrive, Goto, Ring
<1>14. CASE Fold(w) \/ FoldMiddle(w) \/ FoldFirst(w) \/ Finish(w) \/ Merge(w) \/ Merged(w) \/ Store(w) \/ Drain(w)
  BY <1>1, <1>4, <1>14 DEF Fold, FoldMiddle, FoldFirst, Finish, Merge, Merged, Store, Drain, Arrive, Goto,
     NextPiece, Ring
<1>15. CASE NextTile(w) /\ pc'[w] \notin Ring
  BY <1>4, <1>15
<1>16. QED
  BY <1>7, <1>8, <1>9, <1>10, <1>11, <1>12, <1>13, <1>14, <1>15 DEF WarpStep

-----------------------------------------------------------------------------
(* The sums. *)

\* When a tile is multiplied out, every copy of it has landed.
LEMMA LandedNow ==
  ASSUME Framed, NEW v \in Warps, Local(v), Queue(v), Ringed(v), NEW p, NEW t \in Nat,
         Goal(v) = <<"next", p, t>>, t < work[p].tiles
  PROVE  Landed(v, p, t)
<1>1. /\ Len(inflight[v]) \in Nat /\ Len(inflight[v]) <= Room(v)
      /\ tile[v] \in Nat /\ pc[v] \in Places
  <2>1. inflight[v] \in Seq(SUBSET Copies)
    BY DEF Queue
  <2>2. QED
    BY <2>1 DEF Queue, Local
<1>2. \/ piece[v] = p /\ tile[v] = t /\ pc[v] = "next" /\ v \in waits
      \/ piece[v] = p /\ tile[v] = t /\ pc[v] \in {"reload", "stage", "stageWait"}
      \/ piece[v] = p /\ tile[v] + 1 = t /\ pc[v] = "next"
  <2>1. CASE v \in waits
    BY <2>1, HereSays
  <2>2. CASE v \notin waits
    <3>1. Goal(v) = Ahead(pc[v], piece[v], tile[v], mb[v])
      BY <2>2 DEF Goal
    <3>2. CASE pc[v] \in {"reload", "stage", "stageWait"}
      BY <3>1, <3>2, AheadOf
    <3>3. CASE pc[v] = "next"
      <4>1. AfterTile(piece[v], tile[v]) = <<"next", p, t>>
        BY <3>1, <3>3, AheadOf
      <4>2. <<"next", piece[v], tile[v] + 1>> = <<"next", p, t>>
        BY <4>1 DEF AfterTile
      <4>3. QED
        BY <3>3, <4>2
    <3>4. CASE pc[v] \in {"routes", "end"}
      BY <3>1, <3>4, AheadOf DEF StartOf
    <3>5. CASE pc[v] \in {"routesWait", "count", "readValid", "prefetch", "prefetchWait"}
      BY <3>1, <3>5, AheadOf
    <3>6. CASE pc[v] \in {"fold", "foldMiddle", "foldFirst"}
      BY <3>1, <3>6, AheadOf
    <3>7. CASE pc[v] \in {"finish", "merge", "store", "drain"}
      BY <3>1, <3>7, AheadOf
    <3>8. CASE pc[v] = "merged"
      BY <3>1, <3>8, AheadOf DEF StartOf
    <3>9. QED
      BY <1>1, <3>2, <3>3, <3>4, <3>5, <3>6, <3>7, <3>8 DEF Places, Meeting
  <2>3. QED
    BY <2>1, <2>2
<1>3. piece[v] = p /\ pc[v] \in Ring /\ t \in tile[v] .. Youngest(v) - 1 /\ t < Youngest(v) - Len(inflight[v])
      /\ Youngest(v) \in Nat
  <2>1. CASE piece[v] = p /\ tile[v] = t /\ pc[v] = "next" /\ v \in waits
    BY <1>1, <2>1, RoomIs DEF Ring
  <2>2. CASE piece[v] = p /\ tile[v] = t /\ pc[v] \in {"reload", "stage", "stageWait"}
    BY <1>1, <2>2, RoomIs DEF Ring
  <2>3. CASE piece[v] = p /\ tile[v] + 1 = t /\ pc[v] = "next"
    BY <1>1, <2>3, RoomIs DEF Ring
  <2>4. QED
    BY <1>2, <2>1, <2>2, <2>3
<1>4. ~ InFlight(v, t)
  <2>1. \A i \in 1 .. Len(inflight[v]) : TileOf(v, i) # t
    BY <1>1, <1>3 DEF TileOf
  <2>2. QED
    BY <2>1 DEF InFlight
<1>5. InFlight(v, t) \/ Landed(v, piece[v], t)
  BY <1>3 DEF Ringed, Ring, Piece
<1>6. QED
  BY <1>3, <1>4, <1>5

LEMMA FragmentIs ==
  ASSUME Framed, NEW w \in Warps, NEW p, NEW t \in Nat, \A v \in Warps : Landed(v, p, t), NEW kk \in 0 .. 1
  PROVE  Fragment(w, t, kk) = <<p, work[p].first + t, Iters * w[1] + kk>>
<1> DEFINE val == <<p, work[p].first + t>>
           held == {smem[x] : x \in FragmentCells(w, t, kk)}
           k == Iters * w[1] + kk
<1>1. \A v \in Warps : smem[<<"a", t % Stages, v>>] = val
  BY DEF Landed, StageCells
<1>2. smem[<<"b", t % Stages, k, w[2]>>] = val
  <2>1. PICK r \in 0 .. shape.rows - 1 : k = r \/ k = shape.rows + r
    <3>1. shape.rows \in {1, 2, 4} /\ w[1] \in 0 .. shape.rows - 1
      BY Geometry, WarpIs
    <3>2. k \in 0 .. 2 * shape.rows - 1
      BY <3>1 DEF Iters
    <3>3. CASE k < shape.rows
      BY <3>1, <3>2, <3>3
    <3>4. CASE k >= shape.rows
      <4>1. k - shape.rows \in 0 .. shape.rows - 1 /\ k = shape.rows + (k - shape.rows)
        BY <3>1, <3>2, <3>4
      <4>2. QED
        BY <4>1
    <3>5. QED
      BY <3>1, <3>2, <3>3, <3>4
  <2> DEFINE v == <<r, w[2]>>
  <2>2. v \in Warps /\ v[1] = r /\ v[2] = w[2]
    BY WarpIs DEF Warps
  <2>3. k \in Blocks(v)
    BY <2>1, <2>2 DEF Blocks
  <2> HIDE DEF v, k
  <2>4. <<"b", t % Stages, k, w[2]>> \in StageCells(v, t)
    BY <2>2, <2>3 DEF StageCells
  <2>5. QED
    BY <2>2, <2>4 DEF Landed
<1>3. held = {val}
  <2>1. \A x \in FragmentCells(w, t, kk) : smem[x] = val
    BY <1>1, <1>2 DEF FragmentCells
  <2>2. <<"a", t % Stages, w>> \in FragmentCells(w, t, kk)
    BY DEF FragmentCells
  <2>3. QED
    BY <2>1, <2>2
<1>4. Cardinality(held) = 1 /\ (CHOOSE e \in held : TRUE) = val
  BY <1>3, FS_Singleton
<1> HIDE DEF held
<1>5. Fragment(w, t, kk) = <<val[1], val[2], k>>
  BY <1>4 DEF Fragment, held
<1>6. QED
  BY <1>5

LEMMA AppendFourth ==
  ASSUME NEW a, NEW b, NEW c, NEW m
  PROVE  Append(<<a, b, c>>, m) = <<a, b, c, m>>
<1> DEFINE S == {a, b, c, m}
           three == <<a, b, c>>
           four == <<a, b, c, m>>
<1>1. three \in Seq(S) /\ Len(three) = 3 /\ m \in S
  OBVIOUS
<1>2. four \in Seq(S) /\ Len(four) = 4
  OBVIOUS
<1>3. Append(three, m) \in Seq(S) /\ Len(Append(three, m)) = Len(three) + 1
      /\ \A i \in 1 .. Len(three) : Append(three, m)[i] = three[i]
      /\ Append(three, m)[Len(three) + 1] = m
  BY <1>1, AppendProperties
<1>4. \A i \in 1 .. 4 : Append(three, m)[i] = four[i]
  <2>1. three[1] = four[1] /\ three[2] = four[2] /\ three[3] = four[3] /\ four[4] = m
    OBVIOUS
  <2> HIDE DEF three, S, four
  <2>2. QED
    BY <1>1, <2>1, <1>3
<1> HIDE DEF three, S, four
<1>5. Len(Append(three, m)) = 4
  BY <1>1, <1>3
<1>6. Append(three, m) = four
  BY <1>1, <1>2, <1>3, <1>4, <1>5, SeqEqual
<1>7. QED
  BY <1>6 DEF three, four

LEMMA PlusIs ==
  ASSUME NEW sum, NEW a, NEW b, NEW c, NEW m, <<a, b, c, m>> \notin sum
  PROVE  Plus(sum, <<a, b, c>>, m) = sum \cup {<<a, b, c, m>>}
<1>1. Append(<<a, b, c>>, m) = <<a, b, c, m>>
  BY AppendFourth
<1>2. QED
  BY <1>1 DEF Plus

LEMMA RowTermsGrow ==
  ASSUME Framed, NEW r \in Nat, NEW p \in 1 .. Len(work), NEW n \in Nat, NEW m
  PROVE  /\ <<p, work[p].first + n, Iters * r, m>> \notin RowTerms(r, p, n, m)
         /\ <<p, work[p].first + n, Iters * r + 1, m>>
               \notin RowTerms(r, p, n, m) \cup {<<p, work[p].first + n, Iters * r, m>>}
         /\ RowTerms(r, p, n + 1, m) = RowTerms(r, p, n, m) \cup {<<p, work[p].first + n, Iters * r, m>>}
                                       \cup {<<p, work[p].first + n, Iters * r + 1, m>>}
         /\ RowTerms(r, p, 0, m) = {}
<1> DEFINE f == work[p].first
<1>1. f \in Nat
  BY Geometry
<1> HIDE DEF f
<1>2. \A y : y \in RowTerms(r, p, n, m) <=>
               \E t \in 0 .. n - 1, k \in {Iters * r, Iters * r + 1} : y = <<p, f + t, k, m>>
  BY DEF RowTerms, f
<1>3. \A y : y \in RowTerms(r, p, n + 1, m) <=>
               \E t \in 0 .. (n + 1) - 1, k \in {Iters * r, Iters * r + 1} : y = <<p, f + t, k, m>>
  BY DEF RowTerms, f
<1>4. \A k : <<p, f + n, k, m>> \notin RowTerms(r, p, n, m)
  <2>1. ASSUME NEW k, NEW t \in 0 .. n - 1, NEW l, <<p, f + n, k, m>> = <<p, f + t, l, m>>
        PROVE  FALSE
    <3>1. f + n = f + t
      BY <2>1
    <3>2. QED
      BY <1>1, <3>1
  <2>2. QED
    BY <1>2, <2>1
<1>5. Iters * r # Iters * r + 1
  BY DEF Iters
<1>6. ASSUME NEW y
      PROVE  y \in RowTerms(r, p, n + 1, m) <=>
                y \in RowTerms(r, p, n, m) \cup {<<p, f + n, Iters * r, m>>} \cup {<<p, f + n, Iters * r + 1, m>>}
  <2>1. \A t : t \in 0 .. (n + 1) - 1 <=> t \in 0 .. n - 1 \/ t = n
    OBVIOUS
  <2>2. QED
    BY <1>2, <1>3, <2>1
<1>7. RowTerms(r, p, 0, m) = {}
  BY DEF RowTerms
<1>8. QED
  BY <1>4, <1>5, <1>6, <1>7 DEF f

Shaped(w) == acc[w] = [m \in 1 .. shape.mBlocks |-> acc[w][m]]

LEMMA ShapedKept ==
  ASSUME Framed, NEW w \in Warps, Shaped(w), WarpStep(w)
  PROVE  Shaped(w)'
<1> DEFINE M == 1 .. shape.mBlocks
<1>1. UNCHANGED shape /\ DOMAIN acc = Warps
  BY FrameStep DEF Rest, Framed
<1>2. ASSUME NEW k, NEW e, acc'[w] = [acc[w] EXCEPT ![k] = e]
      PROVE  Shaped(w)'
  <2>1. DOMAIN acc[w] = M
    BY DEF Shaped
  <2>2. acc'[w] = [m \in M |-> IF m = k THEN e ELSE acc[w][m]]
    BY <1>2, <2>1
  <2>3. acc'[w] = [m \in M |-> acc'[w][m]]
    BY <2>2
  <2>4. QED
    BY <1>1, <2>3 DEF Shaped
<1>3. ASSUME acc'[w] = acc[w]
      PROVE  Shaped(w)'
  BY <1>1, <1>3 DEF Shaped
<1>4. CASE Prefetch(w)
  <2>1. acc'[w] = [m \in M |-> {}]
    BY <1>1, <1>4 DEF Prefetch
  <2>2. acc'[w] = [m \in M |-> acc'[w][m]]
    BY <2>1
  <2>3. QED
    BY <1>1, <2>2 DEF Shaped
<1>5. CASE StageAhead(w) \/ NextTile(w)
  <2>1. acc'[w] = Added(w, frag[w])
    BY <1>1, <1>5 DEF StageAhead, NextTile
  <2>2. acc'[w] = [m \in M |-> acc'[w][m]]
    BY <2>1 DEF Added
  <2>3. QED
    BY <1>1, <2>2 DEF Shaped
<1>6. CASE FoldMiddle(w)
  <2>1. \E e : acc' = [acc EXCEPT ![w][mb[w]] = e]
    BY <1>6 DEF FoldMiddle
  <2>2. \E e : acc'[w] = [acc[w] EXCEPT ![mb[w]] = e]
    BY <1>1, <2>1
  <2>3. QED
    BY <1>2, <2>2
<1>7. CASE FoldFirst(w)
  <2>1. acc' = acc \/ acc' = [acc EXCEPT ![w][mb[w]] = Join(@, smem[Slot(w, 0)])]
    BY <1>7 DEF FoldFirst
  <2>2. acc'[w] = acc[w] \/ \E e : acc'[w] = [acc[w] EXCEPT ![mb[w]] = e]
    BY <1>1, <2>1
  <2>3. QED
    BY <1>2, <1>3, <2>2
<1>8. CASE Land(w) \/ Routes(w) \/ RoutesWait(w) \/ Count(w) \/ ReadValid(w) \/ PrefetchWait(w) \/ Reload(w)
           \/ StageWait(w) \/ Fold(w) \/ Finish(w) \/ Merge(w) \/ Merged(w) \/ Store(w) \/ Drain(w)
  <2>1. acc' = acc
    BY <1>8 DEF Land, Routes, RoutesWait, Count, ReadValid, PrefetchWait, Reload, StageWait, Fold, Finish,
       Merge, Merged, Store, Drain
  <2>2. QED
    BY <1>3, <2>1
<1>9. QED
  BY <1>4, <1>5, <1>6, <1>7, <1>8 DEF WarpStep

\* The sum of a row while it multiplies a tile, and after.
LEMMA FirstHalf ==
  ASSUME Framed, NEW w \in Warps, piece[w] \in 1 .. Len(work), tile[w] \in Nat, frag[w] = Term(w, 0),
         NEW m \in 1 .. shape.mBlocks, acc[w][m] = RowTerms(w[1], piece[w], tile[w], m)
  PROVE  Added(w, frag[w])[m] = RowTerms(w[1], piece[w], tile[w], m) \cup {Append(Term(w, 0), m)}
<1> DEFINE p == piece[w]
           n == tile[w]
           r == w[1]
           f == work[p].first
<1>1. r \in Nat
  BY WarpIs, Geometry
<1>2. Term(w, 0) = <<p, f + n, Iters * r>> /\ Append(Term(w, 0), m) = <<p, f + n, Iters * r, m>>
  <2>1. Term(w, 0) = <<p, f + n, Iters * r>>
    BY <1>1 DEF Term, Piece, Iters
  <2>2. Append(<<p, f + n, Iters * r>>, m) = <<p, f + n, Iters * r, m>>
    BY AppendFourth
  <2>3. QED
    BY <2>1, <2>2
<1>3. <<p, f + n, Iters * r, m>> \notin RowTerms(r, p, n, m)
  BY <1>1, RowTermsGrow
<1>4. Added(w, frag[w])[m] = Plus(RowTerms(r, p, n, m), <<p, f + n, Iters * r>>, m)
  BY <1>2 DEF Added
<1> HIDE DEF p, n, r, f
<1>5. Plus(RowTerms(r, p, n, m), <<p, f + n, Iters * r>>, m)
      = RowTerms(r, p, n, m) \cup {<<p, f + n, Iters * r, m>>}
  BY <1>3, PlusIs
<1>6. QED
  BY <1>2, <1>4, <1>5 DEF p, n, r

LEMMA SecondHalf ==
  ASSUME Framed, NEW w \in Warps, piece[w] \in 1 .. Len(work), tile[w] \in Nat, frag[w] = Term(w, 1),
         NEW m \in 1 .. shape.mBlocks,
         acc[w][m] = RowTerms(w[1], piece[w], tile[w], m) \cup {Append(Term(w, 0), m)}
  PROVE  Added(w, frag[w])[m] = RowTerms(w[1], piece[w], tile[w] + 1, m)
<1> DEFINE p == piece[w]
           n == tile[w]
           r == w[1]
           f == work[p].first
           sum == RowTerms(r, p, n, m) \cup {<<p, f + n, Iters * r, m>>}
<1>1. r \in Nat
  BY WarpIs, Geometry
<1>2. Term(w, 0) = <<p, f + n, Iters * r>> /\ Term(w, 1) = <<p, f + n, Iters * r + 1>>
      /\ Append(Term(w, 0), m) = <<p, f + n, Iters * r, m>>
  <2>1. Term(w, 0) = <<p, f + n, Iters * r>> /\ Term(w, 1) = <<p, f + n, Iters * r + 1>>
    BY <1>1 DEF Term, Piece, Iters
  <2>2. Append(<<p, f + n, Iters * r>>, m) = <<p, f + n, Iters * r, m>>
    BY AppendFourth
  <2>3. QED
    BY <2>1, <2>2
<1>3. /\ <<p, f + n, Iters * r + 1, m>> \notin sum
      /\ RowTerms(r, p, n + 1, m) = sum \cup {<<p, f + n, Iters * r + 1, m>>}
  BY <1>1, RowTermsGrow
<1>4. Added(w, frag[w])[m] = Plus(sum, <<p, f + n, Iters * r + 1>>, m)
  BY <1>2 DEF Added
<1> HIDE DEF p, n, r, f, sum
<1>5. Plus(sum, <<p, f + n, Iters * r + 1>>, m) = sum \cup {<<p, f + n, Iters * r + 1, m>>}
  BY <1>3, PlusIs
<1>6. QED
  BY <1>3, <1>4, <1>5 DEF p, n, r

LEMMA FragmentNow ==
  ASSUME Framed, Control, \A v \in Warps : Ringed(v), NEW w \in Warps, NEW p, NEW t \in Nat,
         Phase = <<"next", p, t>>, t < work[p].tiles, NEW kk \in 0 .. 1
  PROVE  Fragment(w, t, kk) = <<p, work[p].first + t, Iters * w[1] + kk>>
<1>1. \A v \in Warps : Local(v) /\ Queue(v) /\ Ringed(v) /\ Goal(v) = <<"next", p, t>>
  BY DEF Control, Together
<1>2. \A v \in Warps : Landed(v, p, t)
  BY <1>1, LandedNow
<1>3. QED
  BY <1>2, FragmentIs

LEMMA SummedSet ==
  ASSUME UNCHANGED <<shape, work>>, NEW w, Shaped(w)',
         pc'[w] \in {"prefetchWait", "reload", "stage"} =>
            \A m \in 1 .. shape.mBlocks : acc'[w][m] = RowTerms(w[1], piece'[w], tile'[w], m),
         pc'[w] \in {"stageWait", "next"} =>
            \A m \in 1 .. shape.mBlocks :
               acc'[w][m] = RowTerms(w[1], piece'[w], tile'[w], m) \cup {Append(Term(w, 0)', m)},
         pc'[w] = "stage" => frag'[w] = Term(w, 0)',
         pc'[w] \in {"stageWait", "next"} => frag'[w] = Term(w, 1)'
  PROVE  Summed(w)'
<1>1. \A m : RowTerms(w[1], piece[w], tile[w], m)' = RowTerms(w[1], piece'[w], tile'[w], m)
  BY DEF RowTerms
<1>2. acc'[w] = [m \in 1 .. shape.mBlocks |-> acc'[w][m]]
  BY DEF Shaped
<1>3. QED
  BY <1>1, <1>2 DEF Summed

LEMMA SummedOf ==
  ASSUME NEW w, Summed(w)
  PROVE  /\ Shaped(w)
         /\ pc[w] \in {"prefetchWait", "reload", "stage"} =>
               \A m \in 1 .. shape.mBlocks : acc[w][m] = RowTerms(w[1], piece[w], tile[w], m)
         /\ pc[w] \in {"stageWait", "next"} =>
               \A m \in 1 .. shape.mBlocks :
                  acc[w][m] = RowTerms(w[1], piece[w], tile[w], m) \cup {Append(Term(w, 0), m)}
         /\ pc[w] = "stage" => frag[w] = Term(w, 0)
         /\ pc[w] \in {"stageWait", "next"} => frag[w] = Term(w, 1)
<1>1. Shaped(w)
  BY DEF Summed, Shaped
<1>2. QED
  BY <1>1 DEF Summed

LEMMA TermNext ==
  ASSUME UNCHANGED <<shape, work>>, NEW w, NEW h
  PROVE  Term(w, h)' = <<piece'[w], work[piece'[w]].first + tile'[w], Iters * w[1] + h>>
BY DEF Term, Piece

LEMMA SummedKept ==
  ASSUME Framed, Control, \A v \in Warps : Ringed(v), NEW w \in Warps, WarpStep(w), Summed(w)
  PROVE  Summed(w)'
<1> DEFINE p == piece[w]
           n == tile[w]
           M == 1 .. shape.mBlocks
<1>1. /\ UNCHANGED <<shape, work>> /\ DOMAIN pc = Warps /\ DOMAIN frag = Warps /\ DOMAIN tile = Warps
      /\ DOMAIN acc = Warps /\ Local(w) /\ Goal(w) = Phase /\ n \in Nat
  BY FrameStep DEF Rest, Control, Together, Framed, Local
<1>2. Shaped(w)'
  BY SummedOf, ShapedKept
<1>3. w \notin waits => Phase = Ahead(pc[w], p, n, mb[w])
  BY <1>1 DEF Goal
<1>4. CASE pc'[w] \notin Ring
  BY <1>1, <1>2, <1>4, SummedSet DEF Ring
<1>5. pc[w] # "end" => p \in 1 .. Len(work) /\ Piece(w) = work[p]
  BY <1>1, PieceIs
<1>6. CASE Prefetch(w)
  <2>1. /\ pc'[w] = "prefetchWait" /\ tile'[w] = 0 /\ pc[w] = "prefetch"
        /\ acc'[w] = [m \in M |-> {}] /\ piece' = piece
    BY <1>1, <1>6 DEF Prefetch, At, Goto
  <2>2. w[1] \in Nat /\ p \in 1 .. Len(work)
    BY <1>5, <2>1, WarpIs, Geometry
  <2>3. \A m \in M : acc'[w][m] = RowTerms(w[1], piece'[w], tile'[w], m)
    <3>1. \A m : RowTerms(w[1], p, 0, m) = {}
      BY <1>1, <2>2, RowTermsGrow
    <3>2. \A m \in M : acc'[w][m] = {}
      BY <2>1
    <3>3. QED
      BY <2>1, <3>1, <3>2
  <2>4. QED
    BY <1>1, <1>2, <2>1, <2>3, SummedSet
<1>7. CASE PrefetchWait(w)
  <2>1. pc[w] = "prefetchWait" /\ pc'[w] = "reload" /\ tile' = tile /\ acc' = acc /\ piece' = piece
    BY <1>1, <1>7 DEF PrefetchWait, At, Arrive
  <2>2. QED
    BY <1>1, <1>2, <2>1, SummedOf, SummedSet
<1>8. CASE Reload(w)
  <2>1. /\ pc[w] = "reload" /\ w \notin waits /\ pc'[w] = "stage" /\ tile' = tile /\ acc' = acc
        /\ piece' = piece /\ frag'[w] = Fragment(w, n, 0)
    BY <1>1, <1>8 DEF Reload, At, Goto
  <2>2. p \in 1 .. Len(work) /\ Phase = <<"next", p, n>> /\ n < work[p].tiles
    BY <1>1, <1>3, <1>5, <2>1, AheadOf DEF Local
  <2>3. Fragment(w, n, 0) = <<p, work[p].first + n, Iters * w[1] + 0>>
    BY <1>1, <2>2, FragmentNow
  <2>4. frag'[w] = Term(w, 0)'
    BY <1>1, <2>1, <2>3, TermNext
  <2>5. QED
    BY <1>1, <1>2, <2>1, <2>4, SummedOf, SummedSet
<1>9. CASE StageAhead(w)
  <2>1. /\ pc[w] = "stage" /\ w \notin waits /\ pc'[w] = "stageWait" /\ tile' = tile /\ piece' = piece
        /\ acc'[w] = Added(w, frag[w]) /\ frag'[w] = Fragment(w, n, 1)
    BY <1>1, <1>9 DEF StageAhead, At, Goto
  <2>2. p \in 1 .. Len(work) /\ Phase = <<"next", p, n>> /\ n < work[p].tiles
    BY <1>1, <1>3, <1>5, <2>1, AheadOf DEF Local
  <2>3. Fragment(w, n, 1) = <<p, work[p].first + n, Iters * w[1] + 1>>
    BY <1>1, <2>2, FragmentNow
  <2>4. frag'[w] = Term(w, 1)' /\ Term(w, 0)' = Term(w, 0)
    <3>1. frag'[w] = Term(w, 1)'
      BY <1>1, <2>1, <2>3, TermNext
    <3>2. Term(w, 0)' = Term(w, 0)
      BY <1>1, <2>1 DEF Term, Piece
    <3>3. QED
      BY <3>1, <3>2
  <2>5. \A m \in M : acc'[w][m] = RowTerms(w[1], p, n, m) \cup {Append(Term(w, 0), m)}
    BY <1>1, <2>1, <2>2, SummedOf, FirstHalf
  <2>6. QED
    BY <1>1, <1>2, <2>1, <2>4, <2>5, SummedSet
<1>10. CASE StageWait(w)
  <2>1. /\ pc[w] = "stageWait" /\ pc'[w] = "next" /\ tile' = tile /\ acc' = acc /\ piece' = piece
        /\ frag' = frag
    BY <1>1, <1>10 DEF StageWait, At, Arrive
  <2>2. Term(w, 0)' = Term(w, 0) /\ Term(w, 1)' = Term(w, 1)
    BY <1>1, <2>1 DEF Term, Piece
  <2>3. QED
    BY <1>1, <1>2, <2>1, <2>2, SummedOf, SummedSet
<1>11. CASE NextTile(w) /\ pc'[w] \in Ring
  <2>1. /\ pc[w] = "next" /\ w \notin waits /\ tile'[w] = n + 1 /\ piece' = piece
        /\ acc'[w] = Added(w, frag[w])
    BY <1>1, <1>11 DEF NextTile, At
  <2>2. p \in 1 .. Len(work) /\ Piece(w) = work[p]
    BY <1>5, <2>1
  <2>3. \A m \in M : acc'[w][m] = RowTerms(w[1], p, n + 1, m)
    BY <1>1, <2>1, <2>2, SummedOf, SecondHalf
  <2>4. pc'[w] \in {"reload", "stage"} /\ n + 1 < Piece(w).tiles
        /\ (pc'[w] = "stage" => (n + 1) % Stages # 0 /\ frag'[w] = Fragment(w, n + 1, 0))
    BY <1>1, <1>11, <2>1 DEF NextTile, Arrive, Goto, Ring
  <2>5. pc'[w] = "stage" => frag'[w] = Term(w, 0)'
    <3>1. SUFFICES ASSUME pc'[w] = "stage"
                   PROVE  frag'[w] = Term(w, 0)'
      OBVIOUS
    <3>2. Phase = <<"next", p, n + 1>>
      BY <1>3, <2>1, <2>2, <2>4, <3>1, AheadOf DEF AfterTile
    <3>3. Fragment(w, n + 1, 0) = <<p, work[p].first + (n + 1), Iters * w[1] + 0>>
      BY <1>1, <2>2, <2>4, <3>2, FragmentNow
    <3>4. QED
      BY <1>1, <2>1, <2>4, <3>1, <3>3, TermNext
  <2>6. QED
    BY <1>1, <1>2, <2>1, <2>3, <2>4, <2>5, SummedSet
<1>12. CASE Land(w)
  <2>1. UNCHANGED <<pc, tile, piece, acc, frag>>
    BY <1>12 DEF Land
  <2>2. Term(w, 0)' = Term(w, 0) /\ Term(w, 1)' = Term(w, 1)
    BY <1>1, <2>1 DEF Term, Piece
  <2>3. QED
    BY <1>1, <1>2, <2>1, <2>2, SummedOf, SummedSet
<1>13. CASE Routes(w) \/ RoutesWait(w) \/ Count(w) \/ ReadValid(w)
  BY <1>1, <1>4, <1>13 DEF Routes, RoutesWait, Count, ReadValid, Arrive, Goto, Ring
<1>14. CASE Fold(w) \/ FoldMiddle(w) \/ FoldFirst(w) \/ Finish(w) \/ Merge(w) \/ Merged(w) \/ Store(w) \/ Drain(w)
  BY <1>1, <1>4, <1>14 DEF Fold, FoldMiddle, FoldFirst, Finish, Merge, Merged, Store, Drain, Arrive, Goto,
     NextPiece, Ring
<1>15. CASE NextTile(w) /\ pc'[w] \notin Ring
  BY <1>4, <1>15
<1>16. QED
  BY <1>6, <1>7, <1>8, <1>9, <1>10, <1>11, <1>12, <1>13, <1>14, <1>15 DEF WarpStep

-----------------------------------------------------------------------------
(* The sums of the rows, and the fold. *)

LEMMA RowsIs ==
  ASSUME NEW rs, NEW p, NEW m
  PROVE  \A y : y \in RowsTerms(rs, p, m) <=>
            \E t \in 0 .. work[p].tiles - 1, r \in rs : \E k \in {Iters * r, Iters * r + 1} :
               y = <<p, work[p].first + t, k, m>>
<1>1. \A k : k \in UNION {{Iters * r, Iters * r + 1} : r \in rs} <=> \E r \in rs : k \in {Iters * r, Iters * r + 1}
  OBVIOUS
<1> DEFINE ks == UNION {{Iters * r, Iters * r + 1} : r \in rs}
<1>2. RowsTerms(rs, p, m) = {<<p, work[p].first + t, k, m>> : t \in 0 .. work[p].tiles - 1, k \in ks}
  BY DEF RowsTerms
<1> HIDE DEF ks
<1>3. \A y : y \in RowsTerms(rs, p, m) <=>
         \E t \in 0 .. work[p].tiles - 1, k \in ks : y = <<p, work[p].first + t, k, m>>
  BY <1>2
<1>4. QED
  BY <1>1, <1>3 DEF ks

TermOf(y, rs, p, m) ==
    \E t \in 0 .. work[p].tiles - 1, r \in rs : \E k \in {Iters * r, Iters * r + 1} :
       y = <<p, work[p].first + t, k, m>>

LEMMA RowsHave ==
  ASSUME NEW rs, NEW p, NEW m, NEW y
  PROVE  y \in RowsTerms(rs, p, m) <=> TermOf(y, rs, p, m)
BY RowsIs DEF TermOf

LEMMA OwnIs ==
  ASSUME NEW w, NEW m
  PROVE  Own(w, m) = RowTerms(w[1], piece[w], work[piece[w]].tiles, m)
<1> DEFINE p == piece[w]
<1>1. \A y : y \in Own(w, m) <=>
         \E t \in 0 .. work[p].tiles - 1, r \in {w[1]} : \E k \in {Iters * r, Iters * r + 1} :
            y = <<p, work[p].first + t, k, m>>
  BY RowsIs DEF Own
<1>2. \A y : y \in RowTerms(w[1], p, work[p].tiles, m) <=>
         \E t \in 0 .. work[p].tiles - 1, k \in {Iters * w[1], Iters * w[1] + 1} :
            y = <<p, work[p].first + t, k, m>>
  BY DEF RowTerms
<1>3. QED
  BY <1>1, <1>2

LEMMA JoinRows ==
  ASSUME NEW rs, NEW qs, rs \subseteq Nat, qs \subseteq Nat, rs \cap qs = {}, NEW p, NEW m
  PROVE  Join(RowsTerms(rs, p, m), RowsTerms(qs, p, m)) = RowsTerms(rs \cup qs, p, m)
<1>1. RowsTerms(rs, p, m) \cap RowsTerms(qs, p, m) = {}
  <2>1. ASSUME NEW y \in RowsTerms(rs, p, m), y \in RowsTerms(qs, p, m)
        PROVE  FALSE
    <3>0. TermOf(y, rs, p, m) /\ TermOf(y, qs, p, m)
      BY <2>1, RowsHave
    <3>1. PICK t \in 0 .. work[p].tiles - 1, r \in rs : \E k \in {Iters * r, Iters * r + 1} :
                  y = <<p, work[p].first + t, k, m>>
      BY <3>0 DEF TermOf
    <3>2. PICK s \in 0 .. work[p].tiles - 1, q \in qs : \E k \in {Iters * q, Iters * q + 1} :
                  y = <<p, work[p].first + s, k, m>>
      BY <3>0 DEF TermOf
    <3>3. r \in Nat /\ q \in Nat /\ r # q
      OBVIOUS
    <3>4. y[3] \in {Iters * r, Iters * r + 1} /\ y[3] \in {Iters * q, Iters * q + 1}
      BY <3>1, <3>2
    <3>5. QED
      BY <3>3, <3>4 DEF Iters
  <2>2. QED
    BY <2>1
<1>2. \A y : y \in RowsTerms(rs \cup qs, p, m) <=> y \in RowsTerms(rs, p, m) \/ y \in RowsTerms(qs, p, m)
  BY RowsIs
<1>3. QED
  BY <1>1, <1>2 DEF Join

LEMMA ExactRows ==
  ASSUME Framed, NEW p, NEW m \in 1 .. shape.mBlocks
  PROVE  Exact(p)[m] = RowsTerms(0 .. shape.rows - 1, p, m)
<1> DEFINE f == work[p].first
           T == 0 .. work[p].tiles - 1
<1>1. \A k : k \in 0 .. KBlocks - 1 <=> \E r \in 0 .. shape.rows - 1 : k \in {Iters * r, Iters * r + 1}
  <2>1. shape.rows \in {1, 2, 4}
    BY Geometry
  <2>2. CASE shape.rows = 1
    BY <2>2 DEF KBlocks, Iters
  <2>3. CASE shape.rows = 2
    BY <2>3 DEF KBlocks, Iters
  <2>4. CASE shape.rows = 4
    <3>1. ASSUME NEW k \in 0 .. 7
          PROVE  \E r \in 0 .. 3 : k \in {2 * r, 2 * r + 1}
      <4>1. k \in {2 * 0, 2 * 0 + 1} \/ k \in {2 * 1, 2 * 1 + 1} \/ k \in {2 * 2, 2 * 2 + 1} \/ k \in {2 * 3, 2 * 3 + 1}
        OBVIOUS
      <4>2. QED
        BY <4>1
    <3>2. ASSUME NEW k, NEW r \in 0 .. 3, k \in {2 * r, 2 * r + 1}
          PROVE  k \in 0 .. 7
      BY <3>2
    <3>3. QED
      BY <2>4, <3>1, <3>2 DEF KBlocks, Iters
  <2>5. QED
    BY <2>1, <2>2, <2>3, <2>4
<1>2. Exact(p)[m] = {<<p, f + t, k, m>> : t \in T, k \in 0 .. KBlocks - 1}
  BY DEF Exact
<1>4. \A y : y \in RowsTerms(0 .. shape.rows - 1, p, m) <=>
         \E t \in T, r \in 0 .. shape.rows - 1 : \E k \in {Iters * r, Iters * r + 1} : y = <<p, f + t, k, m>>
  <2>1. \A y : y \in RowsTerms(0 .. shape.rows - 1, p, m) <=> TermOf(y, 0 .. shape.rows - 1, p, m)
    BY RowsHave
  <2>2. QED
    BY <2>1 DEF TermOf
<1> HIDE DEF f, T
<1>3. \A y : y \in Exact(p)[m] <=> \E t \in T, k \in 0 .. KBlocks - 1 : y = <<p, f + t, k, m>>
  BY <1>2
<1>5. ASSUME NEW y
      PROVE  y \in Exact(p)[m] <=> y \in RowsTerms(0 .. shape.rows - 1, p, m)
  <2>1. ASSUME y \in Exact(p)[m]
        PROVE  y \in RowsTerms(0 .. shape.rows - 1, p, m)
    <3>1. PICK t \in T, k \in 0 .. KBlocks - 1 : y = <<p, f + t, k, m>>
      BY <1>3, <2>1
    <3>2. PICK r \in 0 .. shape.rows - 1 : k \in {Iters * r, Iters * r + 1}
      BY <1>1
    <3>3. QED
      BY <1>4, <3>1, <3>2
  <2>2. ASSUME y \in RowsTerms(0 .. shape.rows - 1, p, m)
        PROVE  y \in Exact(p)[m]
    <3>1. PICK t \in T, r \in 0 .. shape.rows - 1 : \E k \in {Iters * r, Iters * r + 1} : y = <<p, f + t, k, m>>
      BY <1>4, <2>2
    <3>2. PICK k \in {Iters * r, Iters * r + 1} : y = <<p, f + t, k, m>>
      BY <3>1
    <3>3. k \in 0 .. KBlocks - 1
      BY <1>1
    <3>4. QED
      BY <1>3, <3>2, <3>3
  <2>3. QED
    BY <2>1, <2>2
<1>6. Exact(p)[m] = RowsTerms(0 .. shape.rows - 1, p, m)
  BY <1>5
<1>7. QED
  BY <1>6

\* A tile that is right in every M block is right.
LEMMA ExactIs ==
  ASSUME NEW f, f = [m \in 1 .. shape.mBlocks |-> f[m]], NEW p,
         \A m \in 1 .. shape.mBlocks : f[m] = Exact(p)[m]
  PROVE  f = Exact(p)
<1>1. Exact(p) = [m \in 1 .. shape.mBlocks |-> Exact(p)[m]]
  BY DEF Exact
<1>2. QED
  BY <1>1

LEMMA FoldedSet ==
  ASSUME UNCHANGED <<shape, work>>, NEW w,
         pc'[w] \in Folding =>
            /\ \A m \in 1 .. shape.mBlocks :
                  m > mb'[w] \/ (m = mb'[w] /\ ~(pc'[w] = "foldFirst" /\ w[1] = 1)) =>
                     acc'[w][m] = RowsTerms({w[1]}, piece'[w], m)
            /\ w[1] = 0 => \A m \in 1 .. mb'[w] - 1 : acc'[w][m] = Exact(piece'[w])[m],
         pc'[w] \in {"finish", "merge", "merged", "store"} /\ w[1] = 0 => acc'[w] = Exact(piece'[w])
  PROVE  Folded(w)'
<1>1. \A m : Own(w, m)' = RowsTerms({w[1]}, piece'[w], m)
  BY DEF Own, RowsTerms
<1>2. Exact(piece[w])' = Exact(piece'[w])
  BY DEF Exact, KBlocks
<1>3. QED
  BY <1>1, <1>2 DEF Folded

LEMMA FoldedOf ==
  ASSUME NEW w, Folded(w)
  PROVE  /\ pc[w] \in Folding =>
               /\ \A m \in 1 .. shape.mBlocks :
                     m > mb[w] \/ (m = mb[w] /\ ~(pc[w] = "foldFirst" /\ w[1] = 1)) =>
                        acc[w][m] = RowsTerms({w[1]}, piece[w], m)
               /\ w[1] = 0 => \A m \in 1 .. mb[w] - 1 : acc[w][m] = Exact(piece[w])[m]
         /\ pc[w] \in {"finish", "merge", "merged", "store"} /\ w[1] = 0 => acc[w] = Exact(piece[w])
BY DEF Folded, Own

\* What row 0 adds last is the sum of all the others.
LEMMA SlotOfOthers ==
  ASSUME Framed, NEW w \in Warps, Local(w), Slotted(w), Goal(w) = Phase, w \notin waits,
         pc[w] = "foldFirst", w[1] = 0
  PROVE  smem[Slot(w, 0)] = RowsTerms(1 .. shape.rows - 1, piece[w], mb[w])
<1>1. shape.rows # 1 /\ mb[w] \in 1 .. shape.mBlocks /\ shape.mBlocks \in Nat
  BY Geometry DEF Local, Folding
<1>2. Phase = IF mb[w] < shape.mBlocks THEN <<"fold", piece[w], mb[w] + 1>> ELSE <<"finish", piece[w], 0>>
  BY AheadOf DEF Goal
<1>3. CASE mb[w] < shape.mBlocks
  <2>1. Phase[1] = "fold" /\ Phase[2] = piece[w] /\ Phase[3] # 1 /\ Phase[3] - 1 = mb[w]
    BY <1>1, <1>2, <1>3
  <2>2. QED
    BY <2>1 DEF Slotted
<1>4. CASE ~(mb[w] < shape.mBlocks)
  <2>1. Phase[1] = "finish" /\ Phase[2] = piece[w] /\ shape.mBlocks = mb[w]
    BY <1>1, <1>2, <1>4
  <2>2. QED
    BY <1>1, <2>1 DEF Slotted
<1>5. QED
  BY <1>3, <1>4

LEMMA AllRows ==
  ASSUME Framed, NEW p, NEW m \in 1 .. shape.mBlocks
  PROVE  Join(RowsTerms({0}, p, m), RowsTerms(1 .. shape.rows - 1, p, m)) = Exact(p)[m]
<1>1. {0} \subseteq Nat /\ 1 .. shape.rows - 1 \subseteq Nat /\ {0} \cap (1 .. shape.rows - 1) = {}
      /\ {0} \cup (1 .. shape.rows - 1) = 0 .. shape.rows - 1
  BY Geometry
<1> DEFINE others == 1 .. shape.rows - 1
           zero == {0}
<1>2. zero \cup others = 0 .. shape.rows - 1 /\ zero \subseteq Nat /\ others \subseteq Nat /\ zero \cap others = {}
  BY <1>1
<1> HIDE DEF others, zero
<1>3. Join(RowsTerms(zero, p, m), RowsTerms(others, p, m)) = RowsTerms(zero \cup others, p, m)
  BY <1>2, JoinRows
<1>4. RowsTerms(zero \cup others, p, m) = Exact(p)[m]
  BY <1>2, ExactRows
<1>5. QED
  BY <1>3, <1>4 DEF others, zero

LEMMA FoldedKept ==
  ASSUME Framed, Control, NEW w \in Warps, WarpStep(w), Summed(w), Folded(w), Slotted(w)
  PROVE  Folded(w)'
<1> DEFINE p == piece[w]
           n == tile[w]
           M == 1 .. shape.mBlocks
<1>1. /\ UNCHANGED <<shape, work>> /\ DOMAIN pc = Warps /\ DOMAIN mb = Warps /\ DOMAIN piece = Warps
      /\ DOMAIN acc = Warps /\ Local(w) /\ Goal(w) = Phase /\ n \in Nat
  BY FrameStep DEF Rest, Control, Together, Framed, Local
<1>2. Shaped(w)' /\ Shaped(w) /\ DOMAIN acc[w] = M
  <2>1. Shaped(w)' /\ Shaped(w)
    BY SummedOf, ShapedKept
  <2>2. QED
    BY <2>1 DEF Shaped
<1>3. mb[w] \in M /\ shape.mBlocks \in Nat /\ w[1] \in Nat
  BY <1>1, Geometry, WarpIs DEF Local
<1>4. CASE pc'[w] \notin Folding \cup {"finish", "merge", "merged", "store"}
  BY <1>1, <1>4, FoldedSet
<1>5. pc[w] # "end" => p \in 1 .. Len(work) /\ Piece(w) = work[p]
  BY <1>1, PieceIs
<1>6. CASE NextTile(w) /\ pc'[w] \in {"fold", "finish"}
  <2>1. /\ pc[w] = "next" /\ w \notin waits /\ piece' = piece /\ mb'[w] = 1
        /\ acc'[w] = Added(w, frag[w])
        /\ ~(n + 1 < Piece(w).tiles)
        /\ pc'[w] = IF shape.rows = 1 THEN "finish" ELSE "fold"
    BY <1>1, <1>6 DEF NextTile, At, Arrive, Goto
  <2>2. p \in 1 .. Len(work) /\ Piece(w) = work[p] /\ n + 1 = work[p].tiles
    <3>1. p \in 1 .. Len(work) /\ Piece(w) = work[p] /\ work[p].tiles \in Nat
      BY <1>5, <2>1, Geometry
    <3>2. n < work[p].tiles
      BY <1>1, <2>1, <3>1 DEF Local
    <3>3. QED
      BY <1>1, <2>1, <3>1, <3>2
  <2>3. \A m \in M : acc'[w][m] = RowTerms(w[1], p, n + 1, m)
    BY <1>1, <2>1, <2>2, SummedOf, SecondHalf
  <2>4. \A m \in M : acc'[w][m] = RowsTerms({w[1]}, p, m)
    <3>1. \A m \in M : acc'[w][m] = RowTerms(w[1], p, work[p].tiles, m)
      BY <2>2, <2>3
    <3>2. \A m : RowTerms(w[1], p, work[p].tiles, m) = RowsTerms({w[1]}, p, m)
      BY OwnIs DEF Own
    <3>3. QED
      BY <3>1, <3>2
  <2>5. CASE shape.rows # 1
    <3>1. \A m \in 1 .. mb'[w] - 1 : FALSE
      BY <2>1
    <3>2. pc'[w] = "fold"
      BY <2>1, <2>5
    <3>3. QED
      BY <1>1, <2>1, <2>4, <3>1, <3>2, FoldedSet
  <2>6. CASE shape.rows = 1
    <3>1. pc'[w] = "finish" /\ w[1] = 0
      BY <2>1, <2>6, WarpIs
    <3>2. \A m \in M : acc'[w][m] = Exact(p)[m]
      <4>1. 0 .. shape.rows - 1 = {0}
        BY <2>6
      <4>2. QED
        BY <2>4, <3>1, <4>1, ExactRows
    <3>3. acc'[w] = [m \in M |-> acc'[w][m]]
      BY <1>1, <1>2 DEF Shaped
    <3>4. acc'[w] = Exact(p)
      BY <3>2, <3>3, ExactIs
    <3>5. QED
      BY <1>1, <2>1, <3>1, <3>4, FoldedSet DEF Folding
  <2>7. QED
    BY <2>5, <2>6
<1>7. CASE Fold(w)
  <2>1. pc[w] = "fold" /\ pc'[w] = "foldMiddle" /\ piece' = piece /\ mb' = mb /\ acc' = acc
    BY <1>1, <1>7 DEF Fold, At, Arrive, Goto
  <2>2. QED
    BY <1>1, <2>1, FoldedOf, FoldedSet DEF Folding
<1>8. CASE FoldMiddle(w)
  <2>1. pc[w] = "foldMiddle" /\ pc'[w] = "foldFirst" /\ piece' = piece /\ mb' = mb
    BY <1>1, <1>8 DEF FoldMiddle, At, Arrive
  <2>2. /\ \A m \in M \ {mb[w]} : acc'[w][m] = acc[w][m]
        /\ w[1] # 1 => acc'[w][mb[w]] = acc[w][mb[w]]
    <3>1. PICK e : acc' = [acc EXCEPT ![w][mb[w]] = e] /\ (w[1] # 1 => e = acc[w][mb[w]])
      BY <1>8 DEF FoldMiddle
    <3>2. acc'[w] = [acc[w] EXCEPT ![mb[w]] = e]
      BY <1>1, <3>1
    <3>3. QED
      BY <1>2, <1>3, <3>1, <3>2
  <2>3. \A m \in M : m > mb[w] \/ (m = mb[w] /\ w[1] # 1) => acc'[w][m] = RowsTerms({w[1]}, p, m)
    <3>1. \A m \in M : m > mb[w] \/ m = mb[w] => acc[w][m] = RowsTerms({w[1]}, p, m)
      BY <2>1, FoldedOf DEF Folding
    <3>2. \A m \in M : m > mb[w] => m # mb[w]
      BY <1>3
    <3>3. QED
      BY <1>3, <2>2, <3>1, <3>2
  <2>4. w[1] = 0 => \A m \in 1 .. mb[w] - 1 : acc'[w][m] = Exact(p)[m]
    <3>1. w[1] = 0 => \A m \in 1 .. mb[w] - 1 : acc[w][m] = Exact(p)[m]
      BY <2>1, FoldedOf DEF Folding
    <3>2. \A m \in 1 .. mb[w] - 1 : m \in M \ {mb[w]}
      BY <1>3
    <3>3. QED
      BY <2>2, <3>1, <3>2
  <2>5. QED
    BY <1>1, <2>1, <2>3, <2>4, FoldedSet DEF Folding
<1>9. CASE FoldFirst(w) /\ w[1] # 0
  <2>1. /\ pc[w] = "foldFirst" /\ piece' = piece /\ acc' = acc
        /\ \/ pc'[w] = "fold" /\ mb'[w] = mb[w] + 1
           \/ pc'[w] = "finish"
    BY <1>1, <1>9 DEF FoldFirst, At, Arrive, Goto
  <2>2. CASE pc'[w] = "finish"
    BY <1>1, <1>9, <2>2, FoldedSet DEF Folding
  <2>3. CASE pc'[w] = "fold" /\ mb'[w] = mb[w] + 1
    <3>1. \A m \in M : m > mb'[w] \/ m = mb'[w] => m > mb[w]
      BY <1>3, <2>3
    <3>2. \A m \in M : m > mb[w] => acc[w][m] = RowsTerms({w[1]}, p, m)
      BY <2>1, FoldedOf DEF Folding
    <3>3. QED
      BY <1>1, <1>9, <2>1, <2>3, <3>1, <3>2, FoldedSet DEF Folding
  <2>4. QED
    BY <2>1, <2>2, <2>3
<1>10. CASE FoldFirst(w) /\ w[1] = 0
  <2> DEFINE e == Join(acc[w][mb[w]], smem[Slot(w, 0)])
  <2>1. /\ pc[w] = "foldFirst" /\ w \notin waits /\ piece' = piece
        /\ acc' = [acc EXCEPT ![w][mb[w]] = e]
    BY <1>1, <1>10 DEF FoldFirst, At
  <2>2. \/ pc'[w] = "fold" /\ mb'[w] = mb[w] + 1 /\ mb[w] < shape.mBlocks
        \/ pc'[w] = "finish" /\ ~(mb[w] < shape.mBlocks)
    BY <1>1, <1>10 DEF FoldFirst, Arrive
  <2>3. e = Exact(p)[mb[w]]
    <3>1. acc[w][mb[w]] = RowsTerms({0}, p, mb[w])
      <4>1. pc[w] \in Folding /\ ~(pc[w] = "foldFirst" /\ w[1] = 1)
        BY <1>10, <2>1 DEF Folding
      <4>2. acc[w][mb[w]] = RowsTerms({w[1]}, p, mb[w])
        BY <1>3, <4>1, FoldedOf
      <4>3. QED
        BY <1>10, <4>2
    <3>2. smem[Slot(w, 0)] = RowsTerms(1 .. shape.rows - 1, p, mb[w])
      BY <1>1, <1>10, <2>1, SlotOfOthers
    <3>3. QED
      BY <1>3, <3>1, <3>2, AllRows
  <2> HIDE DEF e
  <2>4. /\ \A m \in M \ {mb[w]} : acc'[w][m] = acc[w][m]
        /\ acc'[w][mb[w]] = Exact(p)[mb[w]]
    <3>1. acc'[w] = [acc[w] EXCEPT ![mb[w]] = e]
      BY <1>1, <2>1
    <3>2. QED
      BY <1>2, <1>3, <2>3, <3>1
  <2>5. \A m \in 1 .. mb[w] : acc'[w][m] = Exact(p)[m]
    <3>1. \A m \in 1 .. mb[w] - 1 : acc[w][m] = Exact(p)[m]
      BY <1>10, <2>1, FoldedOf DEF Folding
    <3>2. \A m \in 1 .. mb[w] : m = mb[w] \/ (m \in 1 .. mb[w] - 1 /\ m \in M \ {mb[w]})
      BY <1>3
    <3>3. QED
      BY <2>4, <3>1, <3>2
  <2>6. CASE pc'[w] = "fold" /\ mb'[w] = mb[w] + 1
    <3>1. \A m \in M : m > mb'[w] \/ m = mb'[w] => m > mb[w] /\ m # mb[w]
      BY <1>3, <2>6
    <3>2. \A m \in M : m > mb[w] => acc[w][m] = RowsTerms({w[1]}, p, m)
      BY <2>1, FoldedOf DEF Folding
    <3>3. \A m \in M : m > mb'[w] \/ m = mb'[w] => acc'[w][m] = RowsTerms({w[1]}, p, m)
      BY <2>4, <3>1, <3>2
    <3>4. \A m \in 1 .. mb'[w] - 1 : acc'[w][m] = Exact(p)[m]
      BY <1>3, <2>5, <2>6
    <3>5. QED
      BY <1>1, <2>1, <2>6, <3>3, <3>4, FoldedSet DEF Folding
  <2>7. CASE pc'[w] = "finish" /\ ~(mb[w] < shape.mBlocks)
    <3>1. \A m \in M : acc'[w][m] = Exact(p)[m]
      BY <1>3, <2>5, <2>7
    <3>2. acc'[w] = [m \in M |-> acc'[w][m]]
      BY <1>1, <1>2 DEF Shaped
    <3>3. acc'[w] = Exact(p)
      BY <3>1, <3>2, ExactIs
    <3>4. QED
      BY <1>1, <2>1, <2>7, <3>3, FoldedSet DEF Folding
  <2>8. QED
    BY <2>2, <2>6, <2>7
<1>11. CASE (Finish(w) \/ Merge(w) \/ Merged(w)) /\ pc'[w] \in {"merge", "merged", "store"}
  <2>1. pc[w] \in {"finish", "merge", "merged"} /\ acc' = acc /\ piece' = piece
    BY <1>1, <1>11 DEF Finish, Merge, Merged, At, Goto, NextPiece
  <2>2. QED
    BY <1>1, <1>11, <2>1, FoldedOf, FoldedSet DEF Folding
<1>12. CASE Land(w)
  <2>1. UNCHANGED <<pc, mb, piece, acc>>
    BY <1>12 DEF Land
  <2>2. QED
    BY <1>1, <2>1, FoldedOf, FoldedSet
<1>13. CASE \/ Routes(w) \/ RoutesWait(w) \/ Count(w) \/ ReadValid(w) \/ Prefetch(w) \/ PrefetchWait(w)
            \/ Reload(w) \/ StageAhead(w) \/ StageWait(w) \/ Store(w) \/ Drain(w)
  BY <1>1, <1>4, <1>13 DEF Routes, RoutesWait, Count, ReadValid, Prefetch, PrefetchWait, Reload, StageAhead,
     StageWait, Store, Drain, Arrive, Goto, NextPiece, Folding
<1>14. CASE NextTile(w) /\ pc'[w] \notin {"fold", "finish"}
  BY <1>1, <1>4, <1>14 DEF NextTile, Arrive, Goto, Folding
<1>15. CASE (Finish(w) \/ Merge(w) \/ Merged(w)) /\ pc'[w] \notin {"merge", "merged", "store"}
  BY <1>1, <1>4, <1>15 DEF Finish, Merge, Merged, Arrive, Goto, NextPiece, Folding
<1>16. QED
  BY <1>6, <1>7, <1>8, <1>9, <1>10, <1>11, <1>12, <1>13, <1>14, <1>15 DEF WarpStep

-----------------------------------------------------------------------------
(* The reduction slots and the staged output. *)

LEMMA StepTo ==
  ASSUME Framed, NEW w \in Warps, Local(w), Queue(w), Goal(w) = Phase, WarpStep(w)
  PROVE  /\ Phase[1] = "foldMiddle" =>
               \/ waits' = waits /\ smem' = smem
               \/ w \notin waits /\ Fold(w) /\ shape.rows = 4 /\ Phase = <<"foldMiddle", piece[w], mb[w]>>
         /\ Phase[1] = "foldFirst" =>
               \/ waits' = waits /\ smem' = smem
               \/ w \notin waits /\ FoldMiddle(w) /\ Phase = <<"foldFirst", piece[w], mb[w]>>
               \/ waits' = waits /\ shape.rows # 4 /\ smem' = Stored({})
         /\ Phase[1] = "drain" =>
               \/ waits' = waits /\ smem' = smem
               \/ w \notin waits /\ Store(w) /\ Phase = <<"drain", piece[w], 0>>
<1>1. CASE Land(w)
  <2>1. waits' = waits
    BY <1>1 DEF Land
  <2>2. Phase[1] \in {"foldMiddle", "foldFirst", "drain"} => smem' = smem
    <3>1. (~ Fold(w) /\ ~ FoldMiddle(w) /\ ~ Store(w)) \/ Phase[1] \notin {"foldMiddle", "foldFirst", "drain"}
      <4>1. PICK i \in DOMAIN inflight[w] : inflight[w][i] # {}
        BY <1>1 DEF Land
      <4>2. Goal(w)[1] \in {"count", "reload", "next"}
        BY <4>1, LandIs
      <4>3. QED
        BY <4>2
    <3>2. QED
      BY <3>1, MemoryStep
  <2>3. QED
    BY <2>1, <2>2
<1>2. ASSUME ~ Land(w)
      PROVE  w \notin waits /\ Phase = Ahead(pc[w], piece[w], tile[w], mb[w])
  <2>1. w \notin waits
    BY <1>2 DEF WarpStep, Routes, RoutesWait, Count, ReadValid, Prefetch, PrefetchWait, Reload, StageAhead,
       StageWait, NextTile, Fold, FoldMiddle, FoldFirst, Finish, Merge, Merged, Store, Drain, At
  <2>2. QED
    BY <2>1 DEF Goal
<1>3. CASE Routes(w)
  <2>1. (pc[w] = "routes" /\ ~ Land(w)) \/ Land(w)
    BY <1>3 DEF Routes, At
  <2>2. CASE ~ Land(w)
    <3>1. piece[w] \in 1 .. Len(work)
      BY <2>1, <2>2, PieceIs
    <3>2. Phase[1] \in {"prefetch", "count"}
      BY <1>2, <2>1, <2>2, <3>1, AheadOf, Geometry DEF StartOf
    <3>3. QED
      BY <3>2
  <2>3. QED
    BY <1>1, <2>2
<1>4. CASE RoutesWait(w) \/ Count(w) \/ ReadValid(w) \/ Prefetch(w) \/ PrefetchWait(w)
  <2>1. pc[w] \in {"routesWait", "count", "readValid", "prefetch", "prefetchWait"}
    BY <1>4 DEF RoutesWait, Count, ReadValid, Prefetch, PrefetchWait, At
  <2>2. ~ Land(w) => Phase[1] \in {"count", "readValid", "prefetch", "reload"}
    BY <1>2, <2>1, AheadOf
  <2>3. QED
    BY <1>1, <2>2
<1>5. CASE Reload(w) \/ StageAhead(w) \/ StageWait(w)
  <2>1. pc[w] \in {"reload", "stage", "stageWait"}
    BY <1>5 DEF Reload, StageAhead, StageWait, At
  <2>2. ~ Land(w) => Phase[1] = "next"
    BY <1>2, <2>1, AheadOf
  <2>3. QED
    BY <1>1, <2>2
<1>6. CASE NextTile(w)
  <2>1. pc[w] = "next"
    BY <1>6 DEF NextTile, At
  <2>2. ~ Land(w) => Phase[1] \in {"next", "reload", "finish", "fold"}
    BY <1>2, <2>1, AheadOf DEF AfterTile
  <2>3. QED
    BY <1>1, <2>2
<1>7. CASE Fold(w)
  <2>1. pc[w] = "fold"
    BY <1>7 DEF Fold, At
  <2>2. CASE ~ Land(w) /\ shape.rows = 4
    <3>1. Phase = <<"foldMiddle", piece[w], mb[w]>>
      BY <1>2, <2>1, <2>2, AheadOf
    <3>2. QED
      BY <1>2, <1>7, <2>2, <3>1
  <2>3. CASE ~ Land(w) /\ shape.rows # 4
    <3>1. Phase[1] = "foldFirst"
      BY <1>2, <2>1, <2>3, AheadOf
    <3>2. waits' = waits /\ smem' = Stored({})
      <4>1. shape.rows < 4
        BY <2>3, Geometry
      <4>2. QED
        BY <1>7, <2>3, <4>1 DEF Fold, Goto
    <3>3. QED
      BY <2>3, <3>1, <3>2
  <2>4. QED
    BY <1>1, <2>2, <2>3
<1>8. CASE FoldMiddle(w)
  <2>1. pc[w] = "foldMiddle"
    BY <1>8 DEF FoldMiddle, At
  <2>2. ~ Land(w) => Phase = <<"foldFirst", piece[w], mb[w]>>
    BY <1>2, <2>1, AheadOf
  <2>3. QED
    BY <1>1, <1>2, <1>8, <2>2
<1>9. CASE FoldFirst(w) \/ Drain(w)
  <2>1. pc[w] \in {"foldFirst", "drain"}
    BY <1>9 DEF FoldFirst, Drain, At
  <2>2. ~ Land(w) => Phase[1] \in {"fold", "finish", "end", "routes"}
    BY <1>2, <2>1, AheadOf
  <2>3. QED
    BY <1>1, <2>2
<1>10. CASE Finish(w) \/ Merge(w)
  <2>1. CASE Land(w)
    BY <1>1, <2>1
  <2>2. CASE ~ Land(w)
    <3>1. smem' = smem /\ (waits' = waits \/ pc[w] = "merge" \/ (pc[w] = "finish" /\ Piece(w).merge))
      BY <1>10 DEF Finish, Merge, At, Goto
    <3>2. pc[w] = "merge" => Phase[1] = "merged"
      BY <1>2, <2>2, AheadOf
    <3>3. pc[w] = "finish" /\ Piece(w).merge => Phase[1] = "merge"
      BY <1>2, <2>2, AheadOf DEF Piece
    <3>4. QED
      BY <3>1, <3>2, <3>3
  <2>3. QED
    BY <2>1, <2>2
<1>11. CASE Merged(w)
  BY <1>11 DEF Merged, Goto
<1>12. CASE Store(w)
  <2>1. pc[w] = "store"
    BY <1>12 DEF Store, At
  <2>2. ~ Land(w) => Phase = <<"drain", piece[w], 0>>
    BY <1>2, <2>1, AheadOf
  <2>3. QED
    BY <1>1, <1>2, <1>12, <2>2
<1>13. QED
  BY <1>1, <1>3, <1>4, <1>5, <1>6, <1>7, <1>8, <1>9, <1>10, <1>11, <1>12 DEF WarpStep

LEMMA SlottedSet ==
  ASSUME UNCHANGED <<shape, work>>, NEW v,
         Phase'[1] = "foldMiddle" =>
            (v[1] >= 2 /\ v \in waits' => smem'[Slot(v, v[1] - 2)] = RowsTerms({v[1]}, Phase'[2], Phase'[3])),
         Phase'[1] = "foldFirst" /\ v[1] = 1 =>
            /\ shape.rows = 4 /\ v \notin waits' =>
                  /\ smem'[Slot(v, 0)] = RowsTerms({2}, Phase'[2], Phase'[3])
                  /\ smem'[Slot(v, 1)] = RowsTerms({3}, Phase'[2], Phase'[3])
            /\ v \in waits' => smem'[Slot(v, 0)] = RowsTerms(1 .. shape.rows - 1, Phase'[2], Phase'[3]),
         Phase'[1] = "fold" /\ Phase'[3] # 1 /\ v[1] = 0 =>
            smem'[Slot(v, 0)] = RowsTerms(1 .. shape.rows - 1, Phase'[2], Phase'[3] - 1),
         Phase'[1] = "finish" /\ shape.rows # 1 /\ v[1] = 0 =>
            smem'[Slot(v, 0)] = RowsTerms(1 .. shape.rows - 1, Phase'[2], shape.mBlocks)
  PROVE  Slotted(v)'
<1>1. \A rs, p, m : RowsTerms(rs, p, m)' = RowsTerms(rs, p, m)
  BY DEF RowsTerms
<1>2. \A s : Slot(v, s)' = Slot(v, s)
  BY DEF Slot
<1>3. QED
  BY <1>1, <1>2 DEF Slotted

LEMMA SlottedOf ==
  ASSUME NEW v, Slotted(v)
  PROVE  /\ Phase[1] = "foldMiddle" =>
               (v[1] >= 2 /\ v \in waits => smem[Slot(v, v[1] - 2)] = RowsTerms({v[1]}, Phase[2], Phase[3]))
         /\ Phase[1] = "foldFirst" /\ v[1] = 1 =>
               /\ shape.rows = 4 /\ v \notin waits =>
                     /\ smem[Slot(v, 0)] = RowsTerms({2}, Phase[2], Phase[3])
                     /\ smem[Slot(v, 1)] = RowsTerms({3}, Phase[2], Phase[3])
               /\ v \in waits => smem[Slot(v, 0)] = RowsTerms(1 .. shape.rows - 1, Phase[2], Phase[3])
         /\ Phase[1] = "fold" /\ Phase[3] # 1 /\ v[1] = 0 =>
               smem[Slot(v, 0)] = RowsTerms(1 .. shape.rows - 1, Phase[2], Phase[3] - 1)
         /\ Phase[1] = "finish" /\ shape.rows # 1 /\ v[1] = 0 =>
               smem[Slot(v, 0)] = RowsTerms(1 .. shape.rows - 1, Phase[2], shape.mBlocks)
BY DEF Slotted

\* Cells of one kind do not overlap.
LEMMA OtherCell ==
  ASSUME NEW c \in Cells, NEW d \in Cells, c[1] = d[1], c # d, NEW x
  PROVE  Stored({<<c, x>>})[d] = smem[d]
<1>1. ~ Overlap(d, c)
  BY SameKind
<1> DEFINE pairs == {<<c, x>>}
<1>2. \A q \in pairs : q[1] = c /\ q[2] = x
  OBVIOUS
<1> HIDE DEF pairs
<1>3. Stored(pairs)[d] = smem[d]
  BY <1>1, <1>2, StoredIs
<1>4. QED
  BY <1>3 DEF pairs

LEMMA SlotsDiffer ==
  ASSUME NEW w, NEW r, NEW v, NEW s, w[2] # v[2] \/ r # s
  PROVE  Slot(w, r) # Slot(v, s) /\ Slot(w, r)[1] = Slot(v, s)[1]
BY DEF Slot

LEMMA SumOfThree ==
  ASSUME NEW p, NEW m
  PROVE  Join(Join(RowsTerms({1}, p, m), RowsTerms({3}, p, m)), RowsTerms({2}, p, m)) = RowsTerms(1 .. 3, p, m)
<1>1. Join(RowsTerms({1}, p, m), RowsTerms({3}, p, m)) = RowsTerms({1} \cup {3}, p, m)
  BY JoinRows
<1>2. Join(RowsTerms({1} \cup {3}, p, m), RowsTerms({2}, p, m)) = RowsTerms(({1} \cup {3}) \cup {2}, p, m)
  BY JoinRows
<1>3. ({1} \cup {3}) \cup {2} = 1 .. 3
  OBVIOUS
<1>4. QED
  BY <1>1, <1>2, <1>3

\* What row 1 leaves in the first slot.
LEMMA MiddleLeaves ==
  ASSUME Framed, NEW w \in Warps, FoldMiddle(w), w[1] = 1, Local(w), Folded(w), Slotted(w), Goal(w) = Phase,
         w \notin waits, Phase = <<"foldFirst", piece[w], mb[w]>>
  PROVE  /\ smem' = Stored({<<Slot(w, 0), RowsTerms(1 .. shape.rows - 1, piece[w], mb[w])>>})
         /\ Slot(w, 0) \in Cells
<1> DEFINE p == piece[w]
           m == mb[w]
<1>1. pc[w] = "foldMiddle"
  BY DEF FoldMiddle, At
<1>2. m \in 1 .. shape.mBlocks /\ shape.rows \in {2, 4}
  BY Geometry, WarpIs DEF Local
<1>3. acc[w][m] = RowsTerms({1}, p, m)
  <2>1. pc[w] \in Folding /\ ~(pc[w] = "foldFirst" /\ w[1] = 1)
    BY <1>1 DEF Folding
  <2>2. acc[w][m] = RowsTerms({w[1]}, p, m)
    BY <1>2, <2>1, FoldedOf
  <2>3. QED
    BY <2>2
<1>4. CASE shape.rows = 4
  <2>1. smem' = Stored({<<Slot(w, 0), Join(Join(acc[w][m], smem[Slot(w, 1)]), smem[Slot(w, 0)])>>})
    <3>1. ~(w[1] # 1 \/ shape.rows < 4)
      BY <1>4
    <3>2. {Slot(w, 0), Slot(w, 1)} # {}
      OBVIOUS
    <3>3. QED
      BY <3>1, <3>2 DEF FoldMiddle
  <2>2. smem[Slot(w, 0)] = RowsTerms({2}, p, m) /\ smem[Slot(w, 1)] = RowsTerms({3}, p, m)
    BY <1>4, SlottedOf
  <2>3. Join(Join(acc[w][m], smem[Slot(w, 1)]), smem[Slot(w, 0)]) = RowsTerms(1 .. 3, p, m)
    BY <1>3, <2>2, SumOfThree
  <2>4. shape.rows - 1 = 3 /\ Slot(w, 0) \in Cells
    BY <1>4, SlotInCells
  <2>5. QED
    BY <2>1, <2>3, <2>4
<1>5. CASE shape.rows = 2
  <2>1. smem' = Stored({<<Slot(w, 0), acc[w][m]>>})
    BY <1>5 DEF FoldMiddle
  <2>2. 1 .. shape.rows - 1 = {1} /\ Slot(w, 0) \in Cells
    BY <1>5, SlotInCells
  <2>3. QED
    BY <1>3, <2>1, <2>2
<1>6. QED
  BY <1>2, <1>4, <1>5

LEMMA SlottedKept ==
  ASSUME Framed, Control, NEW w \in Warps, WarpStep(w), Folded(w), Slotted(w), NEW v \in Warps, Slotted(v)
  PROVE  Slotted(v)'
<1>1. /\ UNCHANGED <<shape, work>> /\ Rest(w) /\ Local(w) /\ Queue(w) /\ Goal(w) = Phase /\ Phase' = Phase
      /\ DOMAIN pc = Warps
  BY FrameStep, PhaseKept DEF Rest, Control, Together, Framed
<1>2. v # w => (v \in waits' <=> v \in waits)
  BY <1>1 DEF Rest
<1>3. v # w => v[1] # w[1] \/ v[2] # w[2]
  <2>1. v = <<v[1], v[2]>> /\ w = <<w[1], w[2]>>
    BY WarpIs
  <2>2. QED
    BY <2>1
<1>4. v[1] \in 0 .. shape.rows - 1 /\ w[1] \in 0 .. shape.rows - 1 /\ shape.rows \in {1, 2, 4}
  BY WarpIs, Geometry
<1>5. CASE waits' = waits /\ smem' = smem
  BY <1>1, <1>5, SlottedOf, SlottedSet
<1>6. CASE Phase[1] \in {"fold", "finish"}
  BY <1>1, <1>6, MemoryStep, SlottedOf, SlottedSet
<1>7. CASE Phase[1] \notin {"fold", "finish", "foldMiddle", "foldFirst"}
  BY <1>1, <1>7, SlottedSet
<1>8. CASE w \notin waits /\ Fold(w) /\ shape.rows = 4 /\ Phase = <<"foldMiddle", piece[w], mb[w]>>
  <2>1. ASSUME v[1] >= 2, v \in waits'
        PROVE  smem'[Slot(v, v[1] - 2)] = RowsTerms({v[1]}, piece[w], mb[w])
    <3>1. Slot(v, v[1] - 2) \in Cells
      <4>1. v[1] - 2 \in {0, 1}
        BY <1>4, <1>8, <2>1
      <4>2. QED
        BY <1>8, <4>1, SlotInCells
    <3>2. CASE v = w
      <4>1. smem' = Stored({<<Slot(w, w[1] - 2), acc[w][mb[w]]>>})
        <5>1. ~(w[1] < 2 \/ shape.rows < 4)
          BY <1>4, <1>8, <2>1, <3>2
        <5>2. QED
          BY <1>8, <5>1 DEF Fold
      <4>2. smem'[Slot(w, w[1] - 2)] = acc[w][mb[w]]
        <5>1. Slot(w, w[1] - 2) \in Cells
          BY <3>1, <3>2
        <5>2. QED
          BY <4>1, <5>1, StoredOne
      <4>3. acc[w][mb[w]] = RowsTerms({w[1]}, piece[w], mb[w])
        <5>1. pc[w] = "fold" /\ mb[w] \in 1 .. shape.mBlocks
          BY <1>1, <1>8 DEF Fold, At, Local
        <5>2. pc[w] \in Folding /\ ~(pc[w] = "foldFirst" /\ w[1] = 1)
          BY <5>1 DEF Folding
        <5>3. QED
          BY <5>1, <5>2, FoldedOf
      <4>4. QED
        BY <3>2, <4>2, <4>3
    <3>3. CASE v # w
      <4>1. smem[Slot(v, v[1] - 2)] = RowsTerms({v[1]}, piece[w], mb[w])
        BY <1>2, <1>8, <2>1, <3>3, SlottedOf
      <4>2. CASE w[1] < 2
        <5>1. smem' = Stored({})
          BY <1>8, <4>2 DEF Fold
        <5>2. QED
          BY <3>1, <4>1, <5>1, StoredNothing
      <4>3. CASE w[1] >= 2
        <5>1. smem' = Stored({<<Slot(w, w[1] - 2), acc[w][mb[w]]>>})
          <6>1. ~(w[1] < 2 \/ shape.rows < 4)
            BY <1>4, <1>8, <4>3
          <6>2. QED
            BY <1>8, <6>1 DEF Fold
        <5>2. Slot(w, w[1] - 2) \in Cells
          <6>1. w[1] - 2 \in {0, 1}
            BY <1>4, <1>8, <4>3
          <6>2. QED
            BY <1>8, <6>1, SlotInCells
        <5>3. w[2] # v[2] \/ w[1] - 2 # v[1] - 2
          BY <1>3, <1>4, <3>3
        <5>4. Stored({<<Slot(w, w[1] - 2), acc[w][mb[w]]>>})[Slot(v, v[1] - 2)] = smem[Slot(v, v[1] - 2)]
          <6>1. Slot(w, w[1] - 2) # Slot(v, v[1] - 2) /\ Slot(w, w[1] - 2)[1] = Slot(v, v[1] - 2)[1]
            BY <5>3, SlotsDiffer
          <6>2. QED
            BY <3>1, <5>2, <6>1, OtherCell
        <5>5. QED
          BY <4>1, <5>1, <5>4
      <4>4. QED
        BY <1>4, <4>2, <4>3
    <3>4. QED
      BY <3>2, <3>3
  <2>2. QED
    BY <1>1, <1>8, <2>1, SlottedSet
<1>9. CASE Phase[1] = "foldFirst" /\ waits' = waits /\ shape.rows # 4 /\ smem' = Stored({})
  <2>1. ASSUME v[1] = 1, v \in waits
        PROVE  smem'[Slot(v, 0)] = RowsTerms(1 .. shape.rows - 1, Phase[2], Phase[3])
    <3>1. Slot(v, 0) \in Cells
      <4>1. shape.rows = 2
        BY <1>4, <1>9, <2>1
      <4>2. QED
        BY <4>1, SlotInCells
    <3>2. smem'[Slot(v, 0)] = smem[Slot(v, 0)]
      BY <1>9, <3>1, StoredNothing
    <3>3. QED
      BY <1>9, <2>1, <3>2, SlottedOf
  <2>2. QED
    BY <1>1, <1>9, <2>1, SlottedSet
<1>10. CASE w \notin waits /\ FoldMiddle(w) /\ Phase = <<"foldFirst", piece[w], mb[w]>>
  <2> DEFINE whole == RowsTerms(1 .. shape.rows - 1, piece[w], mb[w])
  <2>1. w \in waits'
    BY <1>10 DEF FoldMiddle, Arrive
  <2>2. CASE v = w
    <3>1. v[1] = 1 => smem'[Slot(v, 0)] = whole
      <4>1. SUFFICES ASSUME v[1] = 1
                     PROVE  smem'[Slot(w, 0)] = whole
        BY <2>2
      <4>2. smem' = Stored({<<Slot(w, 0), whole>>}) /\ Slot(w, 0) \in Cells
        BY <1>1, <1>10, <2>2, <4>1, MiddleLeaves
      <4>3. QED
        BY <4>2, StoredOne
    <3>2. QED
      BY <1>1, <1>10, <2>1, <2>2, <3>1, SlottedSet
  <2>3. CASE v # w
    <3>1. ASSUME v[1] = 1, NEW s, Slot(v, s) \in Cells
          PROVE  smem'[Slot(v, s)] = smem[Slot(v, s)]
      <4>1. CASE w[1] # 1
        <5>1. smem' = Stored({})
          BY <1>10, <4>1 DEF FoldMiddle
        <5>2. QED
          BY <3>1, <5>1, StoredNothing
      <4>2. CASE w[1] = 1
        <5>1. smem' = Stored({<<Slot(w, 0), whole>>}) /\ Slot(w, 0) \in Cells
          BY <1>1, <1>10, <4>2, MiddleLeaves
        <5>2. w[2] # v[2]
          BY <1>3, <2>3, <3>1, <4>2
        <5>3. \A x : Stored({<<Slot(w, 0), x>>})[Slot(v, s)] = smem[Slot(v, s)]
          <6>1. Slot(w, 0) # Slot(v, s) /\ Slot(w, 0)[1] = Slot(v, s)[1]
            BY <5>2, SlotsDiffer
          <6>2. QED
            BY <3>1, <5>1, <6>1, OtherCell
        <5>4. QED
          BY <5>1, <5>3
      <4>3. QED
        BY <4>1, <4>2
    <3>2. v[1] = 1 => Slot(v, 0) \in Cells /\ (shape.rows = 4 => Slot(v, 1) \in Cells)
      <4>1. v[1] = 1 => shape.rows \in {2, 4}
        BY <1>4
      <4>2. QED
        BY <4>1, SlotInCells
    <3>3. v[1] = 1 => /\ smem'[Slot(v, 0)] = smem[Slot(v, 0)]
                      /\ shape.rows = 4 => smem'[Slot(v, 1)] = smem[Slot(v, 1)]
      BY <3>1, <3>2
    <3>4. Phase[1] = "foldFirst"
      BY <1>10
    <3>5. v[1] = 1 =>
            /\ shape.rows = 4 /\ v \notin waits' =>
                  /\ smem'[Slot(v, 0)] = RowsTerms({2}, Phase[2], Phase[3])
                  /\ smem'[Slot(v, 1)] = RowsTerms({3}, Phase[2], Phase[3])
            /\ v \in waits' => smem'[Slot(v, 0)] = RowsTerms(1 .. shape.rows - 1, Phase[2], Phase[3])
      BY <1>2, <2>3, <3>3, <3>4, SlottedOf
    <3>6. QED
      BY <1>1, <3>4, <3>5, SlottedSet
  <2>4. QED
    BY <2>2, <2>3
<1>11. QED
  BY <1>1, <1>5, <1>6, <1>7, <1>8, <1>9, <1>10, StepTo

LEMMA LaidOutKept ==
  ASSUME Framed, Control, NEW w \in Warps, WarpStep(w), Folded(w), NEW v \in Warps, LaidOut(v)
  PROVE  LaidOut(v)'
<1>1. /\ UNCHANGED <<shape, work>> /\ Rest(w) /\ Local(w) /\ Queue(w) /\ Goal(w) = Phase /\ Phase' = Phase
  BY FrameStep, PhaseKept DEF Rest, Control, Together, Framed
<1>2. v # w => (v \in waits' <=> v \in waits)
  BY <1>1 DEF Rest
<1>3. \A p : Exact(p)' = Exact(p)
  BY <1>1 DEF Exact, KBlocks
<1>4. CASE Phase[1] \in {"routes", "end"}
  <2>1. smem' = smem
    BY <1>1, <1>4, MemoryStep
  <2>2. QED
    BY <1>1, <1>3, <1>4, <2>1 DEF LaidOut
<1>5. CASE Phase[1] \notin {"routes", "end", "drain"}
  BY <1>1, <1>5 DEF LaidOut
<1>6. CASE Phase[1] = "drain" /\ waits' = waits /\ smem' = smem
  BY <1>1, <1>3, <1>6 DEF LaidOut
<1>7. CASE w \notin waits /\ Store(w) /\ Phase = <<"drain", piece[w], 0>>
  <2>1. ASSUME v[1] = 0, v \in waits'
        PROVE  smem'[<<"out", v[2]>>] = Exact(piece[w])
    <3>1. <<"out", v[2]>> \in Cells /\ <<"out", w[2]>> \in Cells
      BY OutInCells
    <3>2. CASE v = w
      <4>1. smem' = Stored({<<<<"out", w[2]>>, acc[w]>>})
        BY <1>7, <2>1, <3>2 DEF Store
      <4>2. acc[w] = Exact(piece[w])
        <5>1. pc[w] = "store"
          BY <1>7 DEF Store, At
        <5>2. QED
          BY <2>1, <3>2, <5>1, FoldedOf
      <4>3. QED
        BY <3>1, <3>2, <4>1, <4>2, StoredOne
    <3>3. CASE v # w
      <4>1. smem[<<"out", v[2]>>] = Exact(piece[w])
        BY <1>2, <1>7, <2>1, <3>3 DEF LaidOut
      <4>2. CASE w[1] # 0
        <5>1. smem' = Stored({})
          BY <1>7, <4>2 DEF Store
        <5>2. QED
          BY <3>1, <4>1, <5>1, StoredNothing
      <4>3. CASE w[1] = 0
        <5>1. smem' = Stored({<<<<"out", w[2]>>, acc[w]>>})
          BY <1>7, <4>3 DEF Store
        <5>2. <<"out", v[2]>> # <<"out", w[2]>>
          <6>1. v = <<v[1], v[2]>> /\ w = <<w[1], w[2]>>
            BY WarpIs
          <6>2. v[2] # w[2]
            BY <2>1, <3>3, <4>3, <6>1
          <6>3. QED
            BY <6>2
        <5>3. Stored({<<<<"out", w[2]>>, acc[w]>>})[<<"out", v[2]>>] = smem[<<"out", v[2]>>]
          <6>1. <<"out", v[2]>>[1] = <<"out", w[2]>>[1]
            OBVIOUS
          <6>2. QED
            BY <3>1, <5>2, <6>1, OtherCell
        <5>4. QED
          BY <4>1, <5>1, <5>3
      <4>4. QED
        BY <4>2, <4>3
    <3>4. QED
      BY <3>2, <3>3
  <2>2. Phase'[1] = "drain" /\ Phase'[2] = piece[w]
    BY <1>1, <1>7
  <2>3. QED
    BY <1>3, <2>1, <2>2 DEF LaidOut
<1>8. QED
  BY <1>1, <1>4, <1>5, <1>6, <1>7, StepTo

-----------------------------------------------------------------------------
(* What is handed over. *)

Good(r) ==
    /\ r.piece \in DOMAIN work /\ r.rows = r.piece /\ r.sums = {Exact(r.piece)}
    /\ r.by \in Warps /\ Due(r.by, r.piece)

Given(w) ==
    /\ \A p \in 1 .. piece[w] - 1 : Due(w, p) => Handed(w, p)
    /\ pc[w] = "merged" /\ w[1] = 0 => Handed(w, piece[w])

LEMMA DeliveredIs == Delivered <=> (\A r \in results : Good(r)) /\ \A w \in Warps : Given(w)
BY DEF Delivered, Good, Given

LEMMA GoodKept ==
  ASSUME UNCHANGED <<shape, work>>
  PROVE  /\ \A r : Good(r)' <=> Good(r)
         /\ \A w, p : Due(w, p)' <=> Due(w, p)
<1>1. Warps' = Warps /\ \A p : Exact(p)' = Exact(p)
  BY ShapeKept DEF Exact, KBlocks
<1>2. \A w, p : Due(w, p)' <=> Due(w, p)
  BY DEF Due
<1>3. QED
  BY <1>1, <1>2 DEF Good

LEMMA HandedKept ==
  ASSUME results \subseteq results', NEW w, NEW p, Handed(w, p)
  PROVE  Handed(w, p)'
BY DEF Handed

LEMMA GivenKept ==
  ASSUME UNCHANGED <<shape, work>>, results \subseteq results', NEW w, Given(w),
         piece'[w] = piece[w], pc'[w] = "merged" => pc[w] = "merged"
  PROVE  Given(w)'
<1>1. \A p : Due(w, p)' <=> Due(w, p)
  BY GoodKept
<1>2. \A p : Handed(w, p) => Handed(w, p)'
  BY HandedKept
<1>3. Handed(w, piece[w]) => Handed(w, piece[w])'
  BY DEF Handed
<1>4. QED
  BY <1>1, <1>2, <1>3 DEF Given

\* Past a piece whose tile a warp has handed over, or has not to.
LEMMA GivenNext ==
  ASSUME UNCHANGED <<shape, work>>, results \subseteq results', NEW w, Given(w), piece[w] \in Nat,
         piece'[w] = piece[w] + 1, pc'[w] # "merged", Due(w, piece[w]) => \E r \in results' : r.piece = piece[w] /\ r.by = w
  PROVE  Given(w)'
<1>1. \A p : Due(w, p)' <=> Due(w, p)
  BY GoodKept
<1>2. \A p \in 1 .. piece'[w] - 1 : p \in 1 .. piece[w] - 1 \/ p = piece[w]
  OBVIOUS
<1>3. ASSUME NEW p \in 1 .. piece'[w] - 1, Due(w, p)
      PROVE  Handed(w, p)'
  <2>1. CASE p \in 1 .. piece[w] - 1
    BY <1>3, <2>1, HandedKept DEF Given
  <2>2. CASE p = piece[w]
    BY <1>3, <2>2 DEF Handed
  <2>3. QED
    BY <1>2, <2>1, <2>2
<1>4. QED
  BY <1>1, <1>3 DEF Given

LEMMA DeliveredKept ==
  ASSUME Framed, Control, Headed, Delivered, NEW w \in Warps, WarpStep(w),
         \A v \in Warps : Counted(v) /\ Folded(v) /\ LaidOut(v)
  PROVE  Delivered'
<1> DEFINE p == piece[w]
<1>1. /\ UNCHANGED <<shape, work>> /\ Rest(w) /\ Local(w) /\ Goal(w) = Phase /\ Warps' = Warps
      /\ DOMAIN pc = Warps /\ DOMAIN piece = Warps
  BY FrameStep DEF Rest, Control, Together, Framed
<1>2. (\A r \in results : Good(r)) /\ \A v \in Warps : Given(v)
  BY DeliveredIs
<1>3. \A r : Good(r)' <=> Good(r)
  BY <1>1, GoodKept
<1>4. ASSUME results \subseteq results', \A r \in results' \ results : Good(r), Given(w)'
      PROVE  Delivered'
  <2>1. \A r \in results' : Good(r)'
    BY <1>2, <1>3, <1>4
  <2>2. ASSUME NEW v \in Warps
        PROVE  Given(v)'
    <3>1. CASE v = w
      BY <1>4, <3>1
    <3>2. CASE v # w
      <4>1. piece'[v] = piece[v] /\ pc'[v] = pc[v]
        BY <1>1, <3>2 DEF Rest
      <4>2. QED
        BY <1>1, <1>2, <1>4, <4>1, GivenKept
    <3>3. QED
      BY <3>1, <3>2
  <2>3. QED
    BY <1>1, <2>1, <2>2 DEF Delivered, Good, Given
<1>5. pc[w] # "end" => p \in 1 .. Len(work) /\ Piece(w) = work[p] /\ p \in DOMAIN work /\ p \in Nat
  <2>1. DOMAIN work = 1 .. Len(work) /\ Len(work) \in Nat
    BY Geometry
  <2>2. QED
    BY <1>1, <2>1, PieceIs
<1>6. CASE Merge(w)
  <2> DEFINE r == [piece |-> p, by |-> w, rows |-> valid[w], sums |-> {acc[w]}]
  <2>1. /\ results' = results \cup IF w[1] # 0 THEN {} ELSE {r}
        /\ pc[w] = "merge" /\ pc'[w] = "merged" /\ piece' = piece
    BY <1>1, <1>6 DEF Merge, At, Arrive
  <2>2. w[1] = 0 => Good(r)
    <3>1. valid[w] = p
      BY <2>1 DEF Counted
    <3>2. w[1] = 0 => acc[w] = Exact(p)
      BY <2>1, FoldedOf
    <3>3. QED
      BY <1>5, <2>1, <3>1, <3>2 DEF Good, Due
  <2>3. w[1] = 0 => Handed(w, p)'
    <3>1. r.piece = p /\ r.by = w
      OBVIOUS
    <3>2. w[1] = 0 => r \in results'
      BY <2>1
    <3> HIDE DEF r
    <3>3. QED
      BY <2>1, <3>1, <3>2 DEF Handed
  <2>4. Given(w)'
    <3>1. \A q : Due(w, q)' <=> Due(w, q)
      BY <1>1, GoodKept
    <3>2. results \subseteq results'
      BY <2>1
    <3>3. \A q : Handed(w, q) => Handed(w, q)'
      BY <3>2, HandedKept
    <3>4. \A q \in 1 .. piece[w] - 1 : Due(w, q) => Handed(w, q)
      BY <1>2 DEF Given
    <3>5. w[1] = 0 => Handed(w, piece[w])'
      BY <2>1, <2>3 DEF Handed
    <3>6. QED
      BY <2>1, <3>1, <3>3, <3>4, <3>5 DEF Given
  <2>5. QED
    BY <1>4, <2>1, <2>2, <2>4
<1>7. CASE Merged(w)
  <2>1. results' = results /\ pc[w] = "merged" /\ pc'[w] # "merged" /\ results \subseteq results'
        /\ \/ piece' = piece
           \/ piece'[w] = p + 1 /\ ~ Piece(w).store
    BY <1>1, <1>7 DEF Merged, At, Goto, NextPiece
  <2>2. CASE piece' = piece
    <3>1. Given(w)'
      BY <1>1, <1>2, <2>1, <2>2, GivenKept
    <3>2. QED
      BY <1>4, <2>1, <3>1
  <2>3. CASE piece'[w] = p + 1 /\ ~ Piece(w).store
    <3>1. Due(w, p) => w[1] = 0
      BY <1>5, <2>1, <2>3 DEF Due
    <3>2. Due(w, p) => \E r \in results' : r.piece = p /\ r.by = w
      BY <1>2, <2>1, <3>1 DEF Given, Handed
    <3>3. Given(w)'
      BY <1>1, <1>2, <1>5, <2>1, <2>3, <3>2, GivenNext
    <3>4. QED
      BY <1>4, <2>1, <3>3
  <2>4. QED
    BY <2>1, <2>2, <2>3
<1>8. CASE Drain(w)
  <2> DEFINE r == [piece |-> smem[<<"route">>], by |-> w, rows |-> valid[w], sums |-> {smem[x] : x \in OutCells}]
  <2>1. /\ results' = results \cup {r} /\ pc[w] = "drain" /\ w \notin waits
        /\ piece'[w] = p + 1 /\ pc'[w] # "merged"
    BY <1>1, <1>8 DEF Drain, At, Arrive, NextPiece
  <2>2. Phase \in {<<"end", p + 1, 0>>, <<"routes", p + 1, 0>>} /\ (p + 1) - 1 = p
    BY <1>1, <1>5, <2>1, AheadOf DEF Goal
  <2>3. smem[<<"route">>] = p
    <3>1. Phase[1] \in {"routes", "end"} /\ Phase[2] - 1 = p
      BY <2>2
    <3>2. QED
      BY <3>1, HeadedOf
  <2>4. valid[w] = p
    BY <2>1 DEF Counted
  <2>5. {smem[x] : x \in OutCells} = {Exact(p)}
    <3>1. ASSUME NEW c \in 0 .. shape.cols - 1
          PROVE  smem[<<"out", c>>] = Exact(p)
      <4> DEFINE v == <<0, c>>
      <4>1. v \in Warps /\ v[1] = 0 /\ v[2] = c
        BY Geometry DEF Warps
      <4> HIDE DEF v
      <4>2. smem[<<"out", v[2]>>] = Exact(Phase[2] - 1)
        BY <2>2, <4>1 DEF LaidOut
      <4>3. QED
        BY <2>2, <4>1, <4>2
    <3>2. 0 \in 0 .. shape.cols - 1
      BY Geometry
    <3>3. QED
      BY <3>1, <3>2 DEF OutCells
  <2>6. r.piece = p /\ r.by = w /\ r.rows = p /\ r.sums = {Exact(p)}
    BY <2>3, <2>4, <2>5
  <2> HIDE DEF r
  <2>7. Good(r)
    <3>1. work[p].store
      BY <1>1, <1>5, <2>1 DEF Local
    <3>2. QED
      BY <1>5, <2>1, <2>6, <3>1 DEF Good, Due
  <2>8. Given(w)'
    BY <1>1, <1>2, <1>5, <2>1, <2>6, GivenNext
  <2>9. QED
    BY <1>4, <2>1, <2>7, <2>8
<1>9. CASE Land(w)
  BY <1>1, <1>2, <1>4, <1>9, GivenKept DEF Land
<1>10. CASE \/ Routes(w) \/ RoutesWait(w) \/ Count(w) \/ ReadValid(w) \/ Prefetch(w) \/ PrefetchWait(w)
            \/ Reload(w) \/ StageAhead(w) \/ StageWait(w) \/ NextTile(w) \/ Fold(w) \/ FoldMiddle(w)
            \/ FoldFirst(w) \/ Finish(w) \/ Store(w)
  <2>1. results' = results /\ piece' = piece
    BY <1>10 DEF Routes, RoutesWait, Count, ReadValid, Prefetch, PrefetchWait, Reload, StageAhead,
       StageWait, NextTile, Fold, FoldMiddle, FoldFirst, Finish, Store
  <2>2. pc'[w] # "merged"
    <3>1. CASE Routes(w) \/ RoutesWait(w) \/ Count(w) \/ ReadValid(w) \/ Prefetch(w) \/ PrefetchWait(w)
      BY <1>1, <3>1 DEF Routes, RoutesWait, Count, ReadValid, Prefetch, PrefetchWait, Goto, Arrive
    <3>2. CASE Reload(w) \/ StageAhead(w) \/ StageWait(w) \/ NextTile(w)
      BY <1>1, <3>2 DEF Reload, StageAhead, StageWait, NextTile, Goto, Arrive
    <3>3. CASE Fold(w) \/ FoldMiddle(w) \/ FoldFirst(w) \/ Finish(w) \/ Store(w)
      BY <1>1, <3>3 DEF Fold, FoldMiddle, FoldFirst, Finish, Store, Goto, Arrive
    <3>4. QED
      BY <1>10, <3>1, <3>2, <3>3
  <2>3. Given(w)'
    BY <1>1, <1>2, <2>1, <2>2, GivenKept
  <2>4. QED
    BY <1>4, <2>1, <2>3
<1>11. QED
  BY <1>6, <1>7, <1>8, <1>9, <1>10 DEF WarpStep

-----------------------------------------------------------------------------
(* The content at a barrier, at rest and at the start. *)

LEMMA ContentSame ==
  ASSUME Framed, Content,
         UNCHANGED <<shape, work, smem, pc, piece, tile, mb, frag, acc, valid, inflight, results>>
  PROVE  /\ Warps' = Warps /\ Delivered'
         /\ \A v \in Warps : Counted(v)' /\ Ringed(v)' /\ Summed(v)' /\ Folded(v)'
<1>1. Warps' = Warps /\ \A v, s : StageCells(v, s)' = StageCells(v, s)
  BY ShapeKept
<1>2. ASSUME NEW v \in Warps
      PROVE  Counted(v)' /\ Summed(v)' /\ Folded(v)'
  BY RegistersSame DEF Content
<1>3. ASSUME NEW v \in Warps
      PROVE  Ringed(v)'
  <2>1. Youngest(v)' = Youngest(v) /\ \A i : TileOf(v, i)' = TileOf(v, i)
    <3>1. Youngest(v)' = Youngest(v)
      BY DEF Youngest
    <3>2. QED
      BY <3>1 DEF TileOf
  <2>2. \A n : InFlight(v, n) => InFlight(v, n)'
    BY <2>1 DEF InFlight
  <2>3. \A n : Landed(v, piece[v], n) => Landed(v, piece[v], n)'
    BY <1>1 DEF Landed
  <2>4. Ringed(v)
    BY DEF Content
  <2>5. QED
    BY <2>1, <2>2, <2>3, <2>4 DEF Ringed, Piece
<1>4. Delivered'
  <2>1. (\A r \in results : Good(r)) /\ \A v \in Warps : Given(v)
    BY DeliveredIs DEF Content
  <2>2. \A r \in results' : Good(r)'
    BY <2>1, GoodKept
  <2>3. \A v \in Warps : Given(v)'
    BY <2>1, GivenKept
  <2>4. QED
    BY <1>1, <2>2, <2>3 DEF Delivered, Good, Given
<1>5. QED
  BY <1>1, <1>2, <1>3, <1>4

LEMMA SlottedParted ==
  ASSUME Framed, Control, Content, Sync, NEW v \in Warps
  PROVE  Slotted(v)' /\ LaidOut(v)'
<1> DEFINE f == FirstWarp
           p == piece[f]
           m == mb[f]
<1>1. /\ UNCHANGED <<shape, work, pc, smem>> /\ waits = Warps /\ waits' = {} /\ pc[f] \in Meeting
      /\ \A w \in Warps : Goal(w)' = Ahead(pc[f], p, tile[f], m)
  BY Parted DEF Sync
<1>2. f \in Warps /\ f' = f /\ Local(f) /\ Goal(f) = Phase
  BY <1>1, Ends, ShapeKept DEF Control, Phase
<1>3. Phase' = Ahead(pc[f], p, tile[f], m)
  BY <1>1, <1>2 DEF Phase
<1>4. Phase[1] = pc[f] /\ Phase[2] = p /\ (pc[f] \in Folding => Phase[3] = m) /\ m \in 1 .. shape.mBlocks
      /\ shape.mBlocks \in Nat
  BY <1>1, <1>2, HereSays, Geometry DEF Local
<1>5. v \notin waits' /\ \A w \in Warps : Slotted(w) /\ LaidOut(w) /\ w \in waits
  BY <1>1 DEF Content
<1>6. v[1] \in 0 .. shape.rows - 1 /\ v[2] \in 0 .. shape.cols - 1 /\ shape.rows \in {1, 2, 4}
  BY WarpIs, Geometry
<1>7. ASSUME NEW r \in 0 .. shape.rows - 1
      PROVE  <<r, v[2]>> \in Warps /\ <<r, v[2]>>[1] = r /\ <<r, v[2]>>[2] = v[2]
  BY <1>6 DEF Warps
<1>8. \A w, s : Slot(<<w, v[2]>>, s) = Slot(v, s)
  BY DEF Slot
<1>9. CASE pc[f] \in {"fold", "foldMiddle"}
  <2>1. Phase' \in {<<"foldMiddle", p, m>>, <<"foldFirst", p, m>>}
        /\ (shape.rows = 4 /\ Phase'[1] = "foldFirst" => pc[f] = "foldMiddle")
    BY <1>3, <1>9, AheadOf
  <2>2. ASSUME shape.rows = 4, pc[f] = "foldMiddle"
        PROVE  smem[Slot(v, 0)] = RowsTerms({2}, p, m) /\ smem[Slot(v, 1)] = RowsTerms({3}, p, m)
    <3>1. ASSUME NEW r \in {2, 3}
          PROVE  smem[Slot(v, r - 2)] = RowsTerms({r}, p, m)
      <4> DEFINE w == <<r, v[2]>>
      <4>1. w \in Warps /\ w[1] = r /\ r >= 2
        BY <1>7, <2>2
      <4>2. Slot(w, r - 2) = Slot(v, r - 2)
        BY <1>8
      <4> HIDE DEF w
      <4>3. smem[Slot(w, w[1] - 2)] = RowsTerms({w[1]}, p, m)
        <5>1. Slotted(w) /\ w \in waits /\ Phase[1] = "foldMiddle" /\ Phase[2] = p /\ Phase[3] = m
          BY <1>4, <1>5, <2>2, <4>1 DEF Folding
        <5>2. smem[Slot(w, w[1] - 2)] = RowsTerms({w[1]}, Phase[2], Phase[3])
          BY <4>1, <5>1, SlottedOf
        <5>3. QED
          BY <5>1, <5>2
      <4>4. QED
        BY <4>1, <4>2, <4>3
    <3>2. 2 - 2 = 0 /\ 3 - 2 = 1
      OBVIOUS
    <3>3. QED
      BY <3>1, <3>2
  <2>3. Slotted(v)'
    <3>1. Phase'[1] = "foldFirst" /\ v[1] = 1 /\ shape.rows = 4 =>
             /\ smem'[Slot(v, 0)] = RowsTerms({2}, Phase'[2], Phase'[3])
             /\ smem'[Slot(v, 1)] = RowsTerms({3}, Phase'[2], Phase'[3])
      BY <1>1, <2>1, <2>2
    <3>2. Phase'[1] \notin {"fold", "finish"}
      BY <2>1
    <3>3. QED
      BY <1>1, <1>5, <3>1, <3>2, SlottedSet
  <2>4. LaidOut(v)'
    BY <2>1 DEF LaidOut
  <2>5. QED
    BY <2>3, <2>4
<1>10. CASE pc[f] = "foldFirst"
  <2>1. \/ m < shape.mBlocks /\ Phase' = <<"fold", p, m + 1>>
        \/ m = shape.mBlocks /\ Phase' = <<"finish", p, 0>>
    <3>1. Phase' = IF m < shape.mBlocks THEN <<"fold", p, m + 1>> ELSE <<"finish", p, 0>>
      BY <1>3, <1>10, AheadOf
    <3>2. QED
      BY <1>4, <3>1
  <2>2. smem[Slot(v, 0)] = RowsTerms(1 .. shape.rows - 1, p, m)
    <3> DEFINE w == <<1, v[2]>>
    <3>1. shape.rows # 1
      BY <1>2, <1>10 DEF Local, Folding
    <3>2. 1 \in 0 .. shape.rows - 1
      BY <1>6, <3>1
    <3>3. w \in Warps /\ w[1] = 1 /\ Slot(w, 0) = Slot(v, 0)
      BY <1>7, <1>8, <3>2
    <3> HIDE DEF w
    <3>4. Slotted(w) /\ w \in waits /\ Phase[1] = "foldFirst" /\ Phase[2] = p /\ Phase[3] = m
      BY <1>4, <1>5, <1>10, <3>3 DEF Folding
    <3>5. smem[Slot(w, 0)] = RowsTerms(1 .. shape.rows - 1, Phase[2], Phase[3])
      BY <3>3, <3>4, SlottedOf
    <3>6. QED
      BY <3>3, <3>4, <3>5
  <2>3. Slotted(v)'
    <3>1. CASE m < shape.mBlocks /\ Phase' = <<"fold", p, m + 1>>
      <4>1. Phase'[1] = "fold" /\ Phase'[2] = p /\ Phase'[3] - 1 = m
        BY <1>4, <3>1
      <4>2. QED
        BY <1>1, <2>2, <4>1, SlottedSet
    <3>2. CASE m = shape.mBlocks /\ Phase' = <<"finish", p, 0>>
      BY <1>1, <2>2, <3>2, SlottedSet
    <3>3. QED
      BY <2>1, <3>1, <3>2
  <2>4. LaidOut(v)'
    BY <2>1 DEF LaidOut
  <2>5. QED
    BY <2>3, <2>4
<1>11. CASE pc[f] = "drain"
  <2>1. Phase' \in {<<"end", p + 1, 0>>, <<"routes", p + 1, 0>>} /\ (p + 1) - 1 = p
    <3>1. p \in Nat
      BY <1>2, Geometry DEF Local
    <3>2. QED
      BY <1>3, <1>11, <3>1, AheadOf
  <2>2. Slotted(v)'
    BY <1>1, <2>1, SlottedSet
  <2>3. LaidOut(v)'
    <3>1. v[1] = 0 => smem[<<"out", v[2]>>] = Exact(p)
      BY <1>4, <1>5, <1>11 DEF LaidOut
    <3>2. Exact(p)' = Exact(p') /\ \A q : Exact(q)' = Exact(q)
      BY <1>1 DEF Exact, KBlocks
    <3>3. Phase'[1] \in {"routes", "end"} /\ Phase'[2] - 1 = p
      BY <2>1
    <3>4. QED
      BY <1>1, <3>1, <3>2, <3>3 DEF LaidOut
  <2>4. QED
    BY <2>2, <2>3
<1>12. CASE pc[f] \notin {"fold", "foldMiddle", "foldFirst", "drain"}
  <2>1. /\ Phase'[1] \notin {"foldMiddle", "foldFirst", "routes", "end"}
        /\ Phase'[1] = "fold" => Phase'[3] = 1
        /\ Phase'[1] = "finish" => shape.rows = 1
    <3>1. CASE pc[f] = "next"
      BY <1>3, <3>1, AheadOf DEF AfterTile
    <3>2. CASE pc[f] \in {"routes", "end"}
      BY <1>3, <3>2, AheadOf DEF StartOf
    <3>3. CASE pc[f] = "merged"
      BY <1>3, <3>3, AheadOf DEF StartOf
    <3>4. CASE pc[f] \in {"prefetch", "count", "readValid", "reload"}
      BY <1>3, <3>4, AheadOf
    <3>5. CASE pc[f] \in {"finish", "merge"}
      BY <1>3, <3>5, AheadOf
    <3>6. QED
      BY <1>1, <1>12, <3>1, <3>2, <3>3, <3>4, <3>5 DEF Meeting
  <2>2. Slotted(v)'
    BY <1>1, <2>1, SlottedSet
  <2>3. LaidOut(v)'
    BY <1>1, <2>1 DEF LaidOut
  <2>4. QED
    BY <2>2, <2>3
<1>13. QED
  BY <1>9, <1>10, <1>11, <1>12

LEMMA ContentParted ==
  ASSUME Framed, Control, Content, Sync
  PROVE  Content'
<1>1. UNCHANGED <<shape, work, smem, pc, piece, tile, mb, frag, acc, valid, inflight, results>>
  BY DEF Sync
<1>2. Headed'
  BY HeadedParted DEF Content
<1>3. /\ Warps' = Warps /\ Delivered'
      /\ \A v \in Warps : Counted(v)' /\ Ringed(v)' /\ Summed(v)' /\ Folded(v)'
  BY <1>1, ContentSame
<1>4. \A v \in Warps : Slotted(v)' /\ LaidOut(v)'
  BY SlottedParted
<1>5. QED
  BY <1>2, <1>3, <1>4 DEF Content

LEMMA ContentRests ==
  ASSUME Framed, Control, Content, UNCHANGED vars
  PROVE  Content'
<1>1. UNCHANGED <<shape, work, smem, pc, waits, piece, tile, mb, frag, acc, valid, inflight, results, reads, writes>>
  BY DEF vars
<1>2. Headed'
  BY ControlRests DEF Content
<1>3. /\ Warps' = Warps /\ Delivered'
      /\ \A v \in Warps : Counted(v)' /\ Ringed(v)' /\ Summed(v)' /\ Folded(v)'
  BY <1>1, ContentSame
<1>4. Phase' = Phase
  <2>1. FirstWarp' = FirstWarp /\ \A v : Goal(v)' = Goal(v)
    BY <1>1, GoalNext, ShapeKept DEF Goal
  <2>2. QED
    BY <2>1 DEF Phase
<1>5. ASSUME NEW v \in Warps
      PROVE  Slotted(v)' /\ LaidOut(v)'
  <2>1. Slotted(v) /\ LaidOut(v)
    BY DEF Content
  <2>2. Slotted(v)'
    BY <1>1, <1>4, <2>1, SlottedOf, SlottedSet
  <2>3. \A q : Exact(q)' = Exact(q)
    BY <1>1 DEF Exact, KBlocks
  <2>4. LaidOut(v)'
    BY <1>1, <1>4, <2>1, <2>3 DEF LaidOut
  <2>5. QED
    BY <2>2, <2>4
<1>6. QED
  BY <1>2, <1>3, <1>5 DEF Content

LEMMA ContentStarts ==
  ASSUME Init
  PROVE  Content
<1>1. Framed /\ Control /\ Headed
  BY ControlStarts
<1>2. FirstWarp \in Warps /\ Len(work) \in Nat \ {0}
  BY <1>1, Ends, Geometry
<1>3. /\ waits = {} /\ results = {}
      /\ \A v \in Warps : /\ pc[v] = "routes" /\ piece[v] = 1
                          /\ acc[v] = [m \in 1 .. shape.mBlocks |-> {}]
  BY DEF Init
<1>4. Phase[1] \in {"prefetch", "count"}
  <2>1. Goal(FirstWarp) = StartOf(1)
    BY <1>2, <1>3, AheadOf DEF Goal
  <2>2. work[1].kind \in {"direct", "packed"}
    BY <1>1, <1>2, Geometry
  <2>3. QED
    BY <1>2, <2>1, <2>2 DEF StartOf, Phase
<1>5. ASSUME NEW v \in Warps
      PROVE  Counted(v) /\ Ringed(v) /\ Summed(v) /\ Folded(v) /\ Slotted(v) /\ LaidOut(v)
  <2>1. Counted(v) /\ Ringed(v) /\ Folded(v)
    BY <1>3 DEF Counted, Ringed, Folded, Folding
  <2>2. Summed(v)
    BY <1>3 DEF Summed
  <2>3. Slotted(v) /\ LaidOut(v)
    BY <1>4 DEF Slotted, LaidOut
  <2>4. QED
    BY <2>1, <2>2, <2>3
<1>6. Delivered
  <2>1. \A v \in Warps : 1 .. piece[v] - 1 = {} /\ pc[v] # "merged"
    BY <1>3
  <2>2. QED
    BY <1>3, <2>1 DEF Delivered
<1>7. QED
  BY <1>1, <1>5, <1>6 DEF Content

LEMMA ContentKept ==
  ASSUME Framed, Control, Content, NEW w \in Warps, WarpStep(w)
  PROVE  Content'
<1>1. Headed /\ Delivered /\ \A v \in Warps : /\ Counted(v) /\ Ringed(v) /\ Summed(v)
                                             /\ Folded(v) /\ Slotted(v) /\ LaidOut(v)
  BY DEF Content
<1>2. Rest(w) /\ Warps' = Warps
  BY FrameStep
<1>3. Headed' /\ Delivered'
  BY <1>1, HeadedKept, DeliveredKept
<1>4. Counted(w)' /\ Ringed(w)' /\ Summed(w)' /\ Folded(w)'
  BY <1>1, CountedKept, RingedKept, SummedKept, FoldedKept
<1>5. \A v \in Warps \ {w} : Counted(v)' /\ Ringed(v)' /\ Summed(v)' /\ Folded(v)'
  BY <1>1, <1>2, RegistersOther, RingedOther
<1>6. \A v \in Warps : Slotted(v)' /\ LaidOut(v)'
  BY <1>1, SlottedKept, LaidOutKept
<1>7. QED
  BY <1>2, <1>3, <1>4, <1>5, <1>6 DEF Content

LEMMA ExactNow ==
  ASSUME Framed, Control, Delivered
  PROVE  TileExact
<1>1. (\A r \in results : Good(r)) /\ \A v \in Warps : Given(v)
  BY DeliveredIs
<1>2. \A r \in results : r.rows = r.piece /\ r.piece \in DOMAIN work /\ r.sums = {Exact(r.piece)}
  BY <1>1 DEF Good
<1>3. ASSUME Ended, NEW p \in DOMAIN work
      PROVE  {r.by : r \in {q \in results : q.piece = p}} = IF work[p].store THEN Warps ELSE {w \in Warps : w[1] = 0}
  <2>1. p \in 1 .. Len(work) /\ Len(work) \in Nat
    BY Geometry
  <2>2. \A v \in Warps : piece[v] = Len(work) + 1
    BY <1>3 DEF Ended, Control, Local
  <2>3. \A v \in Warps : Due(v, p) => Handed(v, p)
    <3>1. \A v \in Warps : p \in 1 .. piece[v] - 1
      BY <2>1, <2>2
    <3>2. QED
      BY <1>1, <3>1 DEF Given
  <2>4. \A r \in results : r.piece = p => r.by \in Warps /\ Due(r.by, p)
    BY <1>1 DEF Good
  <2>5. {r.by : r \in {q \in results : q.piece = p}} = {v \in Warps : Due(v, p)}
    BY <2>3, <2>4 DEF Handed
  <2>6. QED
    BY <2>5 DEF Due
<1>4. QED
  BY <1>2, <1>3 DEF TileExact

\* What _finish_tile merges or stores is, for every piece, the sum of its own
\* K tiles and of all their K blocks, each term once, with the row indices of
\* that piece; and when the CTA is done exactly the warps that owe
\* a piece have handed it over.
THEOREM TilesExact == Spec => []TileExact
<1>1. Init => Framed /\ Control /\ Content
  BY ControlStarts, ContentStarts
<1>2. Framed /\ Control /\ Content /\ [Next]_vars => Framed' /\ Control' /\ Content'
  <2> SUFFICES ASSUME Framed, Control, Content, [Next]_vars
               PROVE  Framed' /\ Control' /\ Content'
    OBVIOUS
  <2>1. Headed
    BY DEF Content
  <2>2. ASSUME NEW w \in Warps, WarpStep(w)
        PROVE  Framed' /\ Control' /\ Content'
    BY <2>1, <2>2, ControlKept, ContentKept
  <2>3. CASE Sync
    BY <2>3, ControlParted, ContentParted
  <2>4. CASE UNCHANGED vars
    BY <2>1, <2>4, ControlRests, ContentRests
  <2>5. QED
    BY <2>2, <2>3, <2>4 DEF Next
<1>3. Framed /\ Control /\ Content => TileExact
  BY ExactNow DEF Content
<1>4. QED
  BY <1>1, <1>2, <1>3, PTL DEF Spec
=============================================================================
