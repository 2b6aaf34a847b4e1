----------------------------- MODULE DFlashDraft ----------------------------
(***************************************************************************)
(* DFlashSpeculator.propose: after each target step it writes the context  *)
(* KV of the tokens the target kept into the draft KV cache and drafts a   *)
(* block of [bonus, MASK, ...] rows per request, in one forward that may   *)
(* be a CUDA graph replayed for more requests than the batch has.          *)
(*                                                                         *)
(* A KV cell holds what was written there: the context of a request at a   *)
(* position, this step's query row, or junk.  Block b of request r is      *)
(* <<r, b>>, of its own in every KV-cache group.  The scheduler, the       *)
(* target forward and the gather of the block tables are outside src/ and  *)
(* are modelled from what propose assumes of them.  A CUDA stream runs the *)
(* kernels in order, so each kernel is a step.  A row of the input buffers *)
(* that an earlier step filled is Stale: it stands for any slot or request,*)
(* and whoever uses it may spoil every cell or logit.  Left out: dummy and *)
(* profile runs, capture, token values, and a draft depth that varies.     *)
(***************************************************************************)
EXTENDS Integers, Sequences, FiniteSetsExt, Functions

CONSTANTS Reqs,     \* request slots of the runner
          Configs,  \* the draft configurations considered
          None,     \* no request, no proposal
          Null,     \* physical block 0
          Pad,      \* PAD_SLOT_ID: nothing is written
          Stale,    \* what an earlier step left in a row of a buffer
          Junk      \* a cell no row of a live request was written to

\* Graphs are captured for batches and context sizes the buffers hold.
ASSUME DraftAssumption ==
  /\ IsFiniteSet(Reqs) /\ {None, Stale} \intersect Reqs = {}
  /\ Cardinality({None, Null, Pad, Stale}) = 4
  /\ None \notin [prompt : Nat, cached : Nat, len : Nat, missed : SUBSET Nat]
  /\ Null \notin Reqs \X Nat
  /\ \A x \in {Pad, Stale} : x \notin ((Reqs \X Nat) \union {Null}) \X Nat
  /\ \A c \in Configs :
       /\ {c.block, c.maxLen, c.depth, c.groups} \subseteq Nat \ {0}
       /\ c.window \in Nat /\ c.anchor \in BOOLEAN
       /\ c.block \in c.sizes /\ c.sizes \subseteq Nat \ {0}
       /\ c.tokens \in Nat /\ c.tokens >= Cardinality(Reqs) * (c.depth + 1)
       /\ c.graphs \subseteq 1..Cardinality(Reqs) /\ c.contexts \subseteq 1..c.tokens
       /\ c.prompts \subseteq (1..c.maxLen) \X Nat

VARIABLES
  cfg,      \* block, kernel block sizes, maxLen, depth, anchor, groups,
            \* window (0: none), captured batch and context sizes, prompts
  req,      \* slot -> live request: its prompt, restored and computed
            \* tokens, and the positions whose context was never written
  batch,    \* the rows of the step: request, tokens fed, rejected, first
            \* position, tokens of the rows before it (query_start_loc)
  pc, group,\* the kernel propose launches next, for which group
  table,    \* group -> row -> input_block_tables, shared with attention
  seqLens,  \* row -> sequence length, one buffer for all groups
  cslot, cpos, \* context rows: slot per group, position
  qslot, qpos, \* query rows: slot per group, position
  sample,   \* sampling rows: the query row, the key, the request
  kv,       \* group -> cell -> what was written there
  logits,   \* request -> column -> the draft the logits belong to
  proposal  \* request -> the drafts returned for it, or None

tables == <<table, seqLens>>
rows == <<cslot, cpos, qslot, qpos, sample>>
outputs == <<logits, proposal>>
vars == <<cfg, req, batch, pc, group, tables, rows, kv, outputs>>

MaxReqs == Cardinality(Reqs)
CeilDiv(a, b) == (a + b - 1) \div b
Least(a, b) == IF a < b THEN a ELSE b
Most(a, b) == IF a > b THEN a ELSE b

NumQuery == IF cfg.anchor THEN cfg.depth ELSE cfg.depth + 1
Stride == CeilDiv(cfg.maxLen, cfg.block)
Groups == 1..cfg.groups
Blocks == {<<r, b>> : r \in Reqs, b \in 0..(Stride - 1)}
Cells == (Blocks \union {Null}) \X (0..(cfg.block - 1))
Slot(block, p) == IF block = Null THEN Pad ELSE <<block, p % cfg.block>>

Rows == DOMAIN batch
LastToken(i) == batch[i].start + batch[i].fed
RowOf(t) == CHOOSE i \in Rows : batch[i].start < t /\ t <= LastToken(i)
NumTokens == LastToken(Len(batch))

(* One past the last position the target kept: where the bonus token goes. *)
End(i) == batch[i].first + batch[i].fed - batch[i].rejected

Live(r) == req[r] # None
Cached(r) == req[r].cached
WholeCached(r) == (Cached(r) \div cfg.block) * cfg.block

NoLens == [i \in 1..MaxReqs |-> 0]
StaleContext == [g \in Groups |-> [t \in 1..cfg.tokens |-> Stale]]
StaleQuery == [g \in Groups |-> [q \in 1..(MaxReqs * NumQuery) |-> Stale]]
StaleSample ==
  [s \in 1..(MaxReqs * cfg.depth) |-> [row |-> 1, key |-> 0, req |-> Stale]]

Init ==
  /\ cfg \in Configs
  /\ req = [r \in Reqs |-> None]
  /\ batch = <<>> /\ pc = "runner" /\ group = 1
  /\ table = [g \in Groups |-> <<>>]
  /\ seqLens = NoLens /\ cslot = StaleContext /\ cpos = [t \in 1..cfg.tokens |-> 0]
  /\ qslot = StaleQuery /\ qpos = [q \in 1..(MaxReqs * NumQuery) |-> 0]
  /\ sample = StaleSample
  /\ kv = [g \in Groups |-> [c \in Cells |-> Junk]]
  /\ logits = [r \in Reqs |-> [k \in 1..cfg.depth |-> None]]
  /\ proposal = [r \in Reqs |-> None]

-----------------------------------------------------------------------------
(* The runner *)

(* The KV of the first cached tokens of the prompt is restored: the target *)
(* never runs over them.                                                   *)
Admit(r, prompt, cached) ==
  /\ pc = "runner" /\ ~Live(r) /\ cached < prompt
  /\ req' = [req EXCEPT ![r] = [prompt |-> prompt, cached |-> cached,
                                len |-> cached, missed |-> {}]]
  /\ UNCHANGED <<cfg, batch, pc, group, tables, rows, kv, outputs>>

(* A request finishes or is preempted; its blocks are another's now. *)
Release(r) ==
  /\ pc = "runner" /\ Live(r)
  /\ req' = [req EXCEPT ![r] = None]
  /\ kv' = [g \in Groups |-> [c \in Cells |->
              IF c[1] # Null /\ c[1][1] = r THEN Junk ELSE kv[g][c]]]
  /\ proposal' = [proposal EXCEPT ![r] = None]
  /\ logits' = [logits EXCEPT ![r] = [k \in 1..cfg.depth |-> None]]
  /\ UNCHANGED <<cfg, batch, pc, group, tables, rows>>

(* A chunk of the prompt, or the last token and the drafts of the last     *)
(* step, of which the target rejects a suffix.                             *)
Feed(r) ==
  LET left == req[r].prompt - req[r].len
      room == cfg.maxLen - req[r].len
  IN IF left > 0 THEN {[fed |-> n, rejected |-> 0] : n \in 1..left}
     ELSE {[fed |-> n, rejected |-> k] :
             n \in {m \in {1, Least(cfg.depth + 1, room)} :
                      m = 1 \/ proposal[r] \notin {None, <<>>}},
             k \in 0..cfg.depth}

(* Blocks wholly outside the window are the null block. *)
BlockRow(r, end) ==
  [b \in 0..(Stride - 1) |->
     IF cfg.window > 0 /\ (b + 1) * cfg.block <= end - cfg.window + 1
     THEN Null ELSE <<r, b>>]

(* The tokens of the first n of these rows. *)
Tokens(feed, n) == Cardinality(UNION {{j} \X (1..feed[j].fed) : j \in 1..n})

Target(rs, feed) ==
  /\ pc = "runner"
  /\ \A i \in DOMAIN rs : /\ Live(rs[i]) /\ req[rs[i]].len + 1 < cfg.maxLen
                          /\ feed[i] \in Feed(rs[i])
                          /\ feed[i].rejected < feed[i].fed
  /\ Tokens(feed, Len(rs)) <= cfg.tokens
  /\ batch' = [i \in DOMAIN rs |->
       [req |-> rs[i], fed |-> feed[i].fed, rejected |-> feed[i].rejected,
        first |-> req[rs[i]].len, start |-> Tokens(feed, i - 1)]]
  /\ req' = [r \in Reqs |->
       IF r \in Range(rs)
       THEN [req[r] EXCEPT !.len =
               LET i == CHOOSE j \in DOMAIN rs : rs[j] = r
               IN @ + feed[i].fed - feed[i].rejected]
       ELSE req[r]]
  /\ table' = [g \in Groups |-> [i \in DOMAIN rs |-> BlockRow(rs[i], req'[rs[i]].len)]]
  /\ pc' = "prepare" /\ group' = 1
  /\ UNCHANGED <<cfg, seqLens, rows, kv, outputs>>

-----------------------------------------------------------------------------
(* propose *)

Unaligned == \E i \in Rows, size \in cfg.sizes : Cached(batch[i].req) % size # 0

Return ==
  /\ batch' = <<>> /\ pc' = "runner" /\ group' = 1
  /\ table' = [g \in Groups |-> <<>>] /\ seqLens' = NoLens
  /\ cslot' = StaleContext /\ cpos' = [t \in 1..cfg.tokens |-> 0]
  /\ qslot' = StaleQuery /\ qpos' = [q \in DOMAIN qpos |-> 0]
  /\ sample' = StaleSample

(* The whole batch is declined, and no context of it is written. *)
Decline ==
  /\ pc = "prepare" /\ group = 1 /\ Unaligned
  /\ Return
  /\ proposal' = [r \in Reqs |->
       IF \E i \in Rows : batch[i].req = r THEN <<>> ELSE proposal[r]]
  /\ req' = [r \in Reqs |->
       IF \E i \in Rows : batch[i].req = r
       THEN [req[r] EXCEPT !.missed = @ \union
               UNION {batch[i].first..(End(i) - 1) : i \in {j \in Rows : batch[j].req = r}}]
       ELSE req[r]]
  /\ UNCHANGED <<cfg, kv, logits>>

(* dispatch_context: the smallest captured size that covers the rows. *)
ContextRows ==
  LET fit == {n \in cfg.contexts : n >= NumTokens}
  IN IF fit = {} THEN NumTokens ELSE Min(fit)

Entry(g, i, p) == table[g][i][Least(p \div cfg.block, Stride - 1)]

ContextPos(t) ==
  LET i == RowOf(t)
      p == batch[i].first + t - 1 - batch[i].start
  IN IF p < End(i) THEN p ELSE 0

ContextSlot(g, t) ==
  LET i == RowOf(t)
      p == batch[i].first + t - 1 - batch[i].start
  IN IF p < End(i) THEN Slot(Entry(g, i, p), p) ELSE Pad

ContextRow(old, t, new, padding) ==
  IF t <= NumTokens THEN new ELSE IF t <= ContextRows THEN padding ELSE old

RowOfQuery(q) == (q - 1) \div NumQuery + 1
QueryPos(q) == End(RowOfQuery(q)) + ((q - 1) % NumQuery)
IsQuery(q) == RowOfQuery(q) \in Rows

DraftLen(i) ==
  Most(End(i) + NumQuery - WholeCached(batch[i].req), NumQuery)

SampleOffset == IF cfg.anchor THEN 0 ELSE 1

(* Mutant: rows past the batch keep their request. *)
SampleRowUnpadded(s) ==
  LET i == (s - 1) \div cfg.depth + 1
      k == ((s - 1) % cfg.depth) + SampleOffset
  IN [row |-> IF i \in Rows THEN (i - 1) * NumQuery + k + 1 ELSE 1,
      key |-> IF i \in Rows THEN End(i) + k + (1 - SampleOffset) ELSE 0,
      req |-> IF i \in Rows THEN batch[i].req ELSE sample[s].req]

SampleRow(s) ==
  LET i == (s - 1) \div cfg.depth + 1
      k == ((s - 1) % cfg.depth) + SampleOffset
  IN IF i \in Rows
     THEN [row |-> (i - 1) * NumQuery + k + 1,
           key |-> End(i) + k + (1 - SampleOffset),
           req |-> batch[i].req]
     ELSE [row |-> 1, key |-> 0, req |-> None]

(* Mutant: rows past the batch keep their slot. *)
QuerySlotUnpadded(g, q) ==
  IF IsQuery(q) THEN Slot(Entry(g, RowOfQuery(q), QueryPos(q)), QueryPos(q))
                ELSE qslot[g][q]

QuerySlot(g, q) ==
  IF IsQuery(q) THEN Slot(Entry(g, RowOfQuery(q), QueryPos(q)), QueryPos(q)) ELSE Pad

LoopOver(next, here) ==
  IF group < cfg.groups THEN pc' = here /\ group' = group + 1
                        ELSE pc' = next /\ group' = 1

Prepare ==
  /\ pc = "prepare" /\ ~Unaligned
  /\ cslot' = [cslot EXCEPT ![group] = [t \in 1..cfg.tokens |->
                 ContextRow(@[t], t, ContextSlot(group, t), Pad)]]
  /\ cpos' = [t \in 1..cfg.tokens |-> ContextRow(cpos[t], t, ContextPos(t), 0)]
  /\ qslot' = [qslot EXCEPT ![group] = [q \in DOMAIN qpos |-> QuerySlot(group, q)]]
  /\ qpos' = [q \in DOMAIN qpos |->
       IF IsQuery(q) THEN Least(QueryPos(q), cfg.maxLen - 1) ELSE 0]
  /\ seqLens' = [i \in 1..MaxReqs |-> IF i \in Rows THEN DraftLen(i) ELSE 0]
  /\ sample' = [s \in DOMAIN sample |-> SampleRow(s)]
  /\ LoopOver("shift", "prepare")
  /\ UNCHANGED <<cfg, req, batch, table, kv, outputs>>

WindowShift(i) ==
  IF cfg.window > 0 THEN Most(seqLens[i] - cfg.window, 0) \div cfg.block ELSE 0

CachedShift(i) == Cached(batch[i].req) \div cfg.block

ShiftedLen(i) == seqLens[i] - WindowShift(i) * cfg.block

(* Only the blocks the shifted sequence still references are moved. *)
ShiftedRow(row, i) ==
  LET shift == CachedShift(i) + WindowShift(i)
      moved == Least(Stride - shift, CeilDiv(ShiftedLen(i), cfg.block))
  IN [b \in 0..(Stride - 1) |-> IF b < moved THEN row[b + shift] ELSE row[b]]

(* Mutants: every group, or none, shortens the shared lengths. *)
UpdatesEvery(g) == g \in Groups
UpdatesNone(g) == g = cfg.groups + 1

UpdatesSeqLens(g) == g = cfg.groups

Shift ==
  /\ pc = "shift"
  /\ table' = [table EXCEPT ![group] = [i \in Rows |-> ShiftedRow(@[i], i)]]
  /\ seqLens' = [i \in 1..MaxReqs |->
       IF i \in Rows /\ UpdatesSeqLens(group) THEN ShiftedLen(i) ELSE seqLens[i]]
  /\ LoopOver("store", "shift")
  /\ UNCHANGED <<cfg, req, batch, rows, kv, outputs>>

(* A kernel writes the value of each of its rows to the row's slot; two    *)
(* rows that meet in a cell leave either, and a stale row may be in any.   *)
Written(cells, slot, values) ==
  [c \in Cells |->
     LET writers == {t \in DOMAIN values : slot[t] = c}
     IN IF \E t \in DOMAIN values : slot[t] = Stale THEN Junk
        ELSE IF writers = {} THEN cells[c]
        ELSE IF Cardinality(writers) = 1 THEN values[CHOOSE t \in writers : TRUE]
        ELSE Junk]

ContextValue(t) ==
  IF t <= NumTokens THEN <<"context", batch[RowOf(t)].req, cpos[t]>> ELSE Junk

Store ==
  /\ pc = "store"
  /\ kv' = [g \in Groups |->
       Written(kv[g], cslot[g], [t \in 1..ContextRows |-> ContextValue(t)])]
  /\ pc' = "forward"
  /\ UNCHANGED <<cfg, req, batch, group, tables, rows, outputs>>

(* The smallest captured graph that covers the batch, or eager. *)
GraphReqs ==
  LET fit == {n \in cfg.graphs : n >= Len(batch)}
  IN IF fit = {} THEN Len(batch) ELSE Min(fit)

QueryValue(q) ==
  IF IsQuery(q) THEN <<"query", batch[RowOfQuery(q)].req, qpos[q]>> ELSE Junk

Forward ==
  /\ pc = "forward"
  /\ kv' = [g \in Groups |->
       Written(kv[g], qslot[g], [q \in 1..(GraphReqs * NumQuery) |-> QueryValue(q)])]
  /\ pc' = "attend"
  /\ UNCHANGED <<cfg, req, batch, group, tables, rows, outputs>>

Draft(s) ==
  LET q == sample[s].row
  IN [req |-> batch[RowOfQuery(q)].req,
      pos |-> qpos[q] + (1 - SampleOffset),
      key |-> sample[s].key]

Column(s) == ((s - 1) % cfg.depth) + 1

Scattered(r, k) ==
  LET from == {s \in 1..(GraphReqs * cfg.depth) :
                 sample[s].req = r /\ Column(s) = k}
  IN IF \E s \in 1..(GraphReqs * cfg.depth) : sample[s].req = Stale THEN Junk
     ELSE IF from = {} THEN logits[r][k]
     ELSE IF Cardinality(from) = 1 THEN Draft(CHOOSE s \in from : TRUE) ELSE Junk

(* The drafts of the padding rows are not returned.  Query rows of this    *)
(* step are nobody's context: later they are junk.                         *)
Sample ==
  /\ pc = "attend"
  /\ Return
  /\ logits' = [r \in Reqs |-> [k \in 1..cfg.depth |-> Scattered(r, k)]]
  /\ proposal' = [r \in Reqs |->
       IF \E i \in Rows : batch[i].req = r
       THEN LET i == CHOOSE j \in Rows : batch[j].req = r
            IN [k \in 1..cfg.depth |-> Draft((i - 1) * cfg.depth + k)]
       ELSE proposal[r]]
  /\ kv' = [g \in Groups |-> [c \in Cells |->
              IF kv[g][c] # Junk /\ kv[g][c][1] = "query" THEN Junk ELSE kv[g][c]]]
  /\ UNCHANGED <<cfg, req>>

Next ==
  \/ \E r \in Reqs : \E p \in cfg.prompts : Admit(r, p[1], p[2])
  \/ \E r \in Reqs : Release(r)
  \/ \E rs \in UNION {[1..n -> Reqs] : n \in 1..MaxReqs} :
       /\ IsInjective(rs) /\ \A i \in DOMAIN rs : Live(rs[i])
       /\ \E feed \in [DOMAIN rs -> UNION {Feed(r) : r \in Range(rs)}] : Target(rs, feed)
  \/ Decline \/ Prepare \/ Shift \/ Store \/ Forward \/ Sample

Spec == Init /\ [][Next]_vars

-----------------------------------------------------------------------------
(* Properties *)

TypeOK ==
  /\ cfg \in Configs
  /\ pc \in {"runner", "prepare", "shift", "store", "forward", "attend"}
  /\ group \in Groups
  /\ \A r \in Reqs : Live(r) => /\ req[r].len \in Cached(r)..cfg.maxLen
                                /\ req[r].missed \subseteq Cached(r)..cfg.maxLen
  /\ \A g \in Groups : /\ DOMAIN table[g] = Rows
                       /\ DOMAIN kv[g] = Cells

(* The draft block lies within the request's block table. *)
Fits(end) == end + NumQuery <= cfg.maxLen

(* What attention of row i finds in group g, in order. *)
Visible(g, i) ==
  [j \in 0..(seqLens[i] - 1) |->
     kv[g][<<table[g][i][j \div cfg.block], j % cfg.block>>]]

(* The draft of a request attends, through the shifted table and length of *)
(* every group, to the context of consecutive positions and to the         *)
(* request's own draft block after it; to nothing that was restored from   *)
(* the cache, another request's or evicted, and to everything the window   *)
(* keeps.  A position fed by a declined batch is a hole this allows.       *)
DraftReadsItsContext ==
  pc = "attend" =>
    \A i \in Rows, g \in Groups :
      LET r == batch[i].req
          past == End(i) + NumQuery
          start == past - seqLens[i]
          keeps == IF cfg.window > 0 THEN past - cfg.window ELSE 0
      IN Fits(End(i)) =>
           /\ start >= WholeCached(r)
           /\ start <= Most(WholeCached(r), keeps)
           /\ \A j \in 0..(seqLens[i] - 1) :
                Visible(g, i)[j] =
                  LET p == start + j
                  IN IF p >= End(i) THEN <<"query", r, p>>
                     ELSE IF p \in req[r].missed THEN Junk
                     ELSE <<"context", r, p>>

(* Between two steps the draft KV of every live request, in this batch or  *)
(* not, is the context of its computed positions, and no row was written   *)
(* to the null block.                                                      *)
ContextKept ==
  pc = "runner" =>
    \A g \in Groups :
      /\ \A o \in 0..(cfg.block - 1) : kv[g][<<Null, o>>] = Junk
      /\ \A r \in {s \in Reqs : Live(s)} :
           \A p \in Cached(r)..(req[r].len - 1) :
             \/ p \in req[r].missed
             \/ cfg.window > 0 /\ p < req[r].len - cfg.window + 1
             \/ ~Fits(req[r].len)
             \/ kv[g][<<<<r, p \div cfg.block>>, p % cfg.block>>] = <<"context", r, p>>

(* The drafts last returned for a request, and the logits the target will  *)
(* verify them against, are its own, at the positions after its bonus      *)
(* token, keyed by those positions; later batches of others keep them.     *)
ProposalsAreOwn ==
  pc = "runner" =>
    \A r \in Reqs :
      (Live(r) /\ proposal[r] \notin {None, <<>>} /\ Fits(req[r].len)) =>
        \A k \in 1..cfg.depth :
          /\ proposal[r][k] = [req |-> r, pos |-> req[r].len + k, key |-> req[r].len + k]
          /\ logits[r][k] = proposal[r][k]

(* draft_max_seq_len, what attention is planned for. *)
DraftMaxSeqLen ==
  LET bound == Least(Max({batch[i].first + batch[i].fed : i \in Rows}) + NumQuery,
                     cfg.maxLen)
  IN IF cfg.window > 0 THEN Least(bound, cfg.window + cfg.block - 1) ELSE bound

(* No row attends to more positions than attention was planned for. *)
AttentionPlanned ==
  pc = "attend" =>
    \A i \in Rows : Fits(End(i)) => seqLens[i] <= DraftMaxSeqLen
=============================================================================
