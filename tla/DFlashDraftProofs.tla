--------------------------- MODULE DFlashDraftProofs -------------------------
(***************************************************************************)
(* What a draft reads, leaves behind and returns is its own request's, for *)
(* any number of requests, any block and window sizes, draft depth, KV     *)
(* groups and captured sizes.                                              *)
(*                                                                         *)
(* The invariant is about positions.  For a request that fits its block    *)
(* table it says of every position what the cell of that position holds,   *)
(* and of every buffer a kernel reads what the kernels before it have put  *)
(* there.  It says nothing of requests near the end of their table, whose  *)
(* drafts may meet in the last block, but that they spoil nobody else's.   *)
(***************************************************************************)
EXTENDS DFlashDraft, FiniteSetTheorems, NaturalsInduction, WellFoundedInduction, TLAPS

-----------------------------------------------------------------------------
(* Numbers *)

LEMMA Division ==
  ASSUME NEW a \in Int, NEW b \in Nat \ {0}
  PROVE  a \div b \in Int /\ b * (a \div b) <= a /\ a < b * (a \div b) + b
OBVIOUS

LEMMA Steps ==
  ASSUME NEW b \in Nat \ {0}, NEW p \in Int, NEW q \in Int, p < q
  PROVE  b * p \in Int /\ b * q \in Int /\ b * p + b <= b * q
<1>1. q - p - 1 \in Nat
  OBVIOUS
<1>2. b * (q - p - 1) >= 0
  BY <1>1
<1> QED
  BY <1>2

LEMMA Ordered ==
  ASSUME NEW b \in Nat \ {0}, NEW p \in Int, NEW q \in Int
  PROVE  /\ b * p < b * q + b => p <= q
         /\ b * p < b * q => p < q
         /\ b * p <= b * q => p <= q
         /\ p <= q => b * p <= b * q
BY Steps

LEMMA Quotient ==
  ASSUME NEW a \in Int, NEW b \in Nat \ {0}, NEW q \in Int, b * q <= a, a < b * q + b
  PROVE  a \div b = q
<1> DEFINE d == a \div b
<1>1. d \in Int /\ b * d <= a /\ a < b * d + b
  BY Division
<1> HIDE DEF d
<1>2. d <= q /\ q <= d
  BY <1>1, Ordered
<1> QED
  BY <1>1, <1>2 DEF d

LEMMA Remainder ==
  ASSUME NEW a \in Int, NEW b \in Nat \ {0}
  PROVE  a % b \in 0..(b - 1) /\ a = b * (a \div b) + (a % b)
<1> DEFINE d == a \div b
<1>1. a % b = a - b * d
  OBVIOUS
<1>2. d \in Int /\ b * d <= a /\ a < b * d + b
  BY Division
<1> HIDE DEF d
<1>3. b * d \in Int
  BY <1>2
<1> DEFINE r == a % b
<1>4. r = a - b * d
  BY <1>1
<1> HIDE DEF r
<1>5. r \in 0..(b - 1) /\ a = b * d + r
  BY <1>2, <1>3, <1>4
<1> QED
  BY <1>5, Zenon DEF d, r

\* Quotient and remainder by one number tell positions apart.
LEMMA Written2 ==
  ASSUME NEW b \in Nat \ {0}, NEW q \in Int, NEW r \in 0..(b - 1)
  PROVE  (b * q + r) \div b = q /\ (b * q + r) % b = r
<1> DEFINE a == b * q + r
<1>1. a \in Int /\ b * q \in Int
  OBVIOUS
<1>2. a \div b = q
  BY <1>1, Quotient
<1>3. a % b \in 0..(b - 1) /\ a = b * (a \div b) + (a % b)
  BY <1>1, Remainder
<1> DEFINE s == a % b
<1>4. s \in 0..(b - 1) /\ a = b * q + s
  BY <1>2, <1>3
<1> HIDE DEF s
<1>5. s = r
  BY <1>1, <1>4
<1> QED
  BY <1>2, <1>5 DEF s

\* A multiple comes off the quotient and leaves the remainder.
LEMMA Multiples ==
  ASSUME NEW b \in Nat \ {0}, NEW q \in Nat, NEW a \in Nat
  PROVE  (b * q + a) \div b = q + a \div b /\ (b * q + a) % b = a % b
<1> DEFINE d == a \div b
           r == a % b
<1>1. d \in Int /\ r \in 0..(b - 1) /\ a = b * d + r
  BY Division, Remainder
<1> HIDE DEF d, r
<1>2. b * q + a = b * (q + d) + r
  BY <1>1
<1>3. (b * (q + d) + r) \div b = q + d /\ (b * (q + d) + r) % b = r
  BY <1>1, Written2
<1> QED
  BY <1>2, <1>3 DEF d, r

LEMMA MinIn ==
  ASSUME NEW S \in SUBSET Nat, S # {}
  PROVE  Min(S) \in S /\ \A k \in S : Min(S) <= k
<1>1. PICK n \in S : \A k \in S : <<k, n>> \notin OpToRel(<, Nat)
  BY NatLessThanWellFounded, WFMin, Zenon
<1>2. \A k \in S : ~ (k < n)
  BY <1>1, Zenon DEF OpToRel
<1>3. \A k \in S : n <= k
  BY <1>2
<1> QED
  BY <1>3 DEF Min

-----------------------------------------------------------------------------
(* The invariant *)

Config == /\ cfg \in Configs /\ group \in Groups
          /\ pc \in {"runner", "prepare", "shift", "store", "forward", "attend"}

(* A live request has computed a prefix of what fits its block table. *)
Requests ==
  /\ DOMAIN req = Reqs
  /\ \A r \in Reqs : Live(r) =>
       /\ req[r] \in [prompt : 1..cfg.maxLen, cached : Nat, len : 0..cfg.maxLen,
                      missed : SUBSET Nat]
       /\ Cached(r) <= req[r].len
       /\ req[r].missed \subseteq Cached(r)..(req[r].len - 1)

Row == [req : Reqs, fed : Nat \ {0}, rejected : Nat, first : Nat, start : Nat]

(* The rows of a step are live requests, each once, whose tokens lie one   *)
(* row's after the other's.                                                *)
Batch ==
  /\ batch \in Seq(Row) /\ Len(batch) <= MaxReqs
  /\ pc = "runner" <=> batch = <<>>
  /\ pc # "runner" => batch[1].start = 0 /\ NumTokens <= cfg.tokens
  /\ \A i \in Rows :
       /\ Live(batch[i].req) /\ batch[i].rejected < batch[i].fed
       /\ Cached(batch[i].req) <= batch[i].first /\ End(i) = req[batch[i].req].len
       /\ \A p \in req[batch[i].req].missed : p < batch[i].first
       /\ i > 1 => batch[i].start = LastToken(i - 1)
       /\ \A j \in Rows : j # i => batch[j].req # batch[i].req
       /\ \A j \in Rows : i < j => LastToken(i) <= batch[j].start

Prepared(g) == \/ pc = "prepare" /\ g < group
               \/ pc \in {"shift", "store", "forward", "attend"}
Shifted(g) == \/ pc = "shift" /\ g < group
              \/ pc \in {"store", "forward", "attend"}

(* The block table and the length of row i before and after the shift. *)
Gathered(i) == BlockRow(batch[i].req, End(i))
DroppedBlocks(i) == IF cfg.window > 0 THEN Most(DraftLen(i) - cfg.window, 0) \div cfg.block ELSE 0
KeptLen(i) == DraftLen(i) - DroppedBlocks(i) * cfg.block
Dropped(i) == CachedShift(i) + DroppedBlocks(i)
Kept(i) ==
  [b \in 0..(Stride - 1) |->
     IF b < Least(Stride - Dropped(i), CeilDiv(KeptLen(i), cfg.block))
     THEN Gathered(i)[b + Dropped(i)] ELSE Gathered(i)[b]]

Tables ==
  /\ DOMAIN table = Groups /\ \A g \in Groups : DOMAIN table[g] = Rows
  /\ \A g \in Groups, i \in Rows : table[g][i] = IF Shifted(g) THEN Kept(i) ELSE Gathered(i)
  /\ Prepared(1) => /\ ~ Unaligned
                    /\ \A i \in Rows : seqLens[i] = IF Shifted(cfg.groups) THEN KeptLen(i) ELSE DraftLen(i)

(* Where position p of row i lies. *)
SlotIn(i, p) == Slot(Gathered(i)[Least(p \div cfg.block, Stride - 1)], p)

PosOf(t) == batch[RowOf(t)].first + t - 1 - batch[RowOf(t)].start

Buffers ==
  /\ DOMAIN cslot = Groups /\ DOMAIN qslot = Groups
  /\ DOMAIN qpos = 1..(MaxReqs * NumQuery) /\ DOMAIN sample = 1..(MaxReqs * cfg.depth)
  /\ \A g \in Groups : Prepared(g) =>
       /\ \A t \in 1..ContextRows :
            cslot[g][t] = IF t <= NumTokens /\ PosOf(t) < End(RowOf(t))
                          THEN SlotIn(RowOf(t), PosOf(t)) ELSE Pad
       /\ \A q \in 1..(MaxReqs * NumQuery) :
            qslot[g][q] = IF IsQuery(q) THEN SlotIn(RowOfQuery(q), QueryPos(q)) ELSE Pad
  /\ Prepared(1) =>
       /\ \A t \in 1..NumTokens : PosOf(t) < End(RowOf(t)) => cpos[t] = PosOf(t)
       /\ \A q \in 1..(MaxReqs * NumQuery) :
            IsQuery(q) => qpos[q] = Least(QueryPos(q), cfg.maxLen - 1)
       /\ \A s \in DOMAIN sample : sample[s] = SampleRow(s)

InBatch(r) == \E i \in Rows : batch[i].req = r
Cell(r, p) == <<<<r, p \div cfg.block>>, p % cfg.block>>

(* The block of position p lies wholly outside the window. *)
Evicted(r, p) ==
  cfg.window > 0 /\ ((p \div cfg.block) + 1) * cfg.block <= req[r].len - cfg.window + 1

(* Position p of request r has been computed, and this step stored it. *)
Stored(r, p) ==
  IF pc \in {"prepare", "shift", "store"} /\ InBatch(r)
  THEN \E i \in Rows : batch[i].req = r /\ p < batch[i].first
  ELSE p < req[r].len

Drafted(r, p) == pc = "attend" /\ InBatch(r) /\ p < req[r].len + NumQuery

Holds(r, p) == IF p \in req[r].missed THEN Junk
               ELSE IF Stored(r, p) THEN <<"context", r, p>>
               ELSE IF Drafted(r, p) THEN <<"query", r, p>>
               ELSE Junk

(* What the draft KV cache holds of a request that fits. *)
Cache ==
  /\ DOMAIN kv = Groups
  /\ \A g \in Groups :
       /\ DOMAIN kv[g] = Cells
       /\ \A o \in 0..(cfg.block - 1) : kv[g][<<Null, o>>] = Junk
       /\ \A r \in Reqs : ~ Live(r) =>
            \A b \in 0..(Stride - 1), o \in 0..(cfg.block - 1) : kv[g][<<<<r, b>>, o>>] = Junk
       /\ \A r \in Reqs : Live(r) /\ Fits(req[r].len) =>
            \A p \in Cached(r)..(cfg.maxLen - 1) : Evicted(r, p) \/ kv[g][Cell(r, p)] = Holds(r, p)

Own(r) ==
  \A k \in 1..cfg.depth :
     /\ proposal[r][k] = [req |-> r, pos |-> req[r].len + k, key |-> req[r].len + k]
     /\ logits[r][k] = proposal[r][k]

Proposals ==
  /\ DOMAIN proposal = Reqs /\ DOMAIN logits = Reqs
  /\ \A r \in Reqs : DOMAIN logits[r] = 1..cfg.depth
  /\ \A r \in Reqs : ~ Live(r) => proposal[r] = None
  /\ \A r \in Reqs : Live(r) /\ ~ InBatch(r) /\ proposal[r] \notin {None, <<>>} /\ Fits(req[r].len)
                        => Own(r)

IInv == /\ Config /\ Requests /\ Batch /\ Tables /\ Buffers /\ Cache /\ Proposals

-----------------------------------------------------------------------------
(* Sizes *)

Sizes ==
  /\ cfg.block \in Nat \ {0} /\ cfg.maxLen \in Nat \ {0} /\ cfg.depth \in Nat \ {0}
  /\ cfg.groups \in Nat \ {0} /\ cfg.window \in Nat /\ cfg.anchor \in BOOLEAN
  /\ cfg.block \in cfg.sizes /\ cfg.tokens \in Nat
  /\ cfg.graphs \subseteq 1..MaxReqs /\ cfg.contexts \subseteq 1..cfg.tokens
  /\ cfg.prompts \subseteq (1..cfg.maxLen) \X Nat
  /\ MaxReqs \in Nat /\ NumQuery \in Nat \ {0} /\ SampleOffset \in {0, 1}
  /\ NumQuery = cfg.depth + SampleOffset
  /\ Groups = 1..cfg.groups /\ Stride \in Nat \ {0}

LEMMA Positions ==
  ASSUME NEW b \in Nat \ {0}, NEW n \in Nat \ {0}
  PROVE  /\ CeilDiv(n, b) \in Nat \ {0}
         /\ b * CeilDiv(n, b) >= n /\ b * CeilDiv(n, b) < n + b
         /\ \A p \in 0..(n - 1) : p \div b \in 0..(CeilDiv(n, b) - 1)
<1> DEFINE s == CeilDiv(n, b)
<1>1. s \in Int /\ b * s <= n + b - 1 /\ n + b - 1 < b * s + b
  BY Division DEF CeilDiv
<1> HIDE DEF s
<1>2. s > 0
  <2>1. CASE s <= 0
    <3>1. b * s <= b * 0
      BY <1>1, <2>1, Ordered
    <3> QED
      BY <1>1, <3>1
  <2> QED
    BY <1>1, <2>1
<1>3. ASSUME NEW p \in 0..(n - 1) PROVE p \div b \in 0..(s - 1)
  <2> DEFINE d == p \div b
  <2>1. d \in Int /\ b * d <= p /\ p < b * d + b
    BY Division
  <2> HIDE DEF d
  <2>2. b * d < b * s /\ b * 0 < b * d + b
    BY <1>1, <2>1
  <2>3. d < s /\ 0 <= d
    BY <1>1, <2>1, <2>2, Ordered
  <2> QED
    BY <1>1, <2>1, <2>3 DEF d
<1>4. b * s >= n /\ b * s < n + b
  BY <1>1
<1> QED
  BY <1>1, <1>2, <1>3, <1>4 DEF s

LEMMA SizesHold ==
  ASSUME Config
  PROVE  Sizes
<1>1. MaxReqs \in Nat
  BY DraftAssumption, FS_CardinalityType DEF MaxReqs
<1>2. cfg \in Configs
  BY DEF Config
<1>3. /\ {cfg.block, cfg.maxLen, cfg.depth, cfg.groups} \subseteq Nat \ {0}
      /\ cfg.window \in Nat /\ cfg.anchor \in BOOLEAN
      /\ cfg.block \in cfg.sizes /\ cfg.sizes \subseteq Nat \ {0} /\ cfg.tokens \in Nat
      /\ cfg.graphs \subseteq 1..MaxReqs /\ cfg.contexts \subseteq 1..cfg.tokens
      /\ cfg.prompts \subseteq (1..cfg.maxLen) \X Nat
  BY <1>2, DraftAssumption DEF MaxReqs
<1>4. Stride \in Nat \ {0}
  BY <1>3, Positions DEF Stride
<1> QED
  BY <1>1, <1>3, <1>4 DEF Sizes, NumQuery, SampleOffset, Groups

\* No two positions of a request share a cell, and a position that the block
\* table covers has one.
LEMMA CellOf ==
  ASSUME Sizes, NEW r \in Reqs
  PROVE  /\ \A p \in 0..(cfg.maxLen - 1) : /\ p \div cfg.block \in 0..(Stride - 1)
                                           /\ Least(p \div cfg.block, Stride - 1) = p \div cfg.block
                                           /\ Cell(r, p) \in Cells
         /\ \A p, q \in Nat, s \in Reqs : Cell(r, p) = Cell(s, q) => r = s /\ p = q
<1> DEFINE B == cfg.block
<1>0. B \in Nat \ {0}
  BY DEF Sizes
<1> HIDE DEF B
<1>a. \A p \in Nat : p % B \in 0..(B - 1) /\ p = B * (p \div B) + (p % B)
  BY <1>0, Remainder
<1>1. ASSUME NEW p \in 0..(cfg.maxLen - 1)
      PROVE  /\ p \div cfg.block \in 0..(Stride - 1)
             /\ Least(p \div cfg.block, Stride - 1) = p \div cfg.block
             /\ Cell(r, p) \in Cells
  <2>1. p \div cfg.block \in 0..(Stride - 1)
    BY Positions DEF Sizes, Stride
  <2>2. p % B \in 0..(B - 1)
    BY <1>a DEF Sizes
  <2>3. <<r, p \div cfg.block>> \in Blocks
    BY <2>1 DEF Blocks
  <2>3a. p % cfg.block \in 0..(cfg.block - 1)
    BY <2>2, Zenon DEF B
  <2>4. Cell(r, p) \in Cells
    BY <2>3, <2>3a DEF Cell, Cells
  <2>5. Stride - 1 \in Int
    BY DEF Sizes
  <2> DEFINE d == p \div cfg.block
  <2> HIDE DEF d
  <2>6. Least(d, Stride - 1) = d
    BY <2>1, <2>5 DEF Least, d
  <2> QED
    BY <2>1, <2>4, <2>6 DEF d
<1>2. ASSUME NEW p \in Nat, NEW q \in Nat, NEW s \in Reqs, Cell(r, p) = Cell(s, q)
      PROVE  r = s /\ p = q
  <2>1. r = s /\ p \div B = q \div B /\ p % B = q % B
    BY <1>2, Zenon DEF Cell, B
  <2>2. p = B * (p \div B) + (p % B)
    BY <1>a
  <2>3. q = B * (q \div B) + (q % B)
    BY <1>a
  <2> QED
    BY <2>1, <2>2, <2>3, Zenon
<1> QED
  BY <1>1, <1>2

\* The tokens of the rows lie end to end.
LEMMA TokensAdd ==
  ASSUME NEW n \in Nat, NEW m \in Nat, NEW feed, \A i \in 1..n : feed[i].fed \in 0..m
  PROVE  /\ \A i \in 0..n : Tokens(feed, i) \in Nat
         /\ Tokens(feed, 0) = 0
         /\ \A i \in 1..n : Tokens(feed, i) = Tokens(feed, i - 1) + feed[i].fed
         /\ \A i, j \in 0..n : i <= j => Tokens(feed, i) <= Tokens(feed, j)
<1> DEFINE P(i) == {i} \X (1..feed[i].fed)
           U(i) == UNION {P(j) : j \in 1..i}
<1>1. ASSUME NEW i \in 1..n
      PROVE  IsFiniteSet(P(i)) /\ Cardinality(P(i)) = feed[i].fed
  <2>1. IsFiniteSet({i}) /\ Cardinality({i}) = 1
    BY FS_Singleton
  <2> DEFINE f == feed[i].fed
  <2>2. f \in Nat
    OBVIOUS
  <2> HIDE DEF f
  <2>3. IsFiniteSet(1..f) /\ Cardinality(1..f) = f
    BY <2>2, FS_Interval
  <2>4. /\ IsFiniteSet({i} \X (1..f))
        /\ Cardinality({i} \X (1..f)) = Cardinality({i}) * Cardinality(1..f)
    BY <2>1, <2>3, FS_Product, Zenon
  <2> QED
    BY <2>1, <2>2, <2>3, <2>4 DEF f
<1>2. ASSUME NEW i \in 0..n PROVE IsFiniteSet(U(i)) /\ Cardinality(U(i)) \in Nat
  <2>1. IsFiniteSet(1..n) /\ IsFiniteSet(1..m)
    <3>1. 1 \in Int /\ n \in Int /\ m \in Int
      OBVIOUS
    <3> QED
      BY <3>1, FS_Interval, Zenon
  <2>2. IsFiniteSet((1..n) \X (1..m))
    BY <2>1, FS_Product
  <2>3. \A j \in 1..i : P(j) \in SUBSET ((1..n) \X (1..m))
    OBVIOUS
  <2>4. U(i) \in SUBSET ((1..n) \X (1..m))
    BY <2>3
  <2> HIDE DEF U
  <2> QED
    BY <2>2, <2>4, FS_Subset, FS_CardinalityType
<1>3. \A i \in 0..n : Tokens(feed, i) = Cardinality(U(i))
  BY DEF Tokens
<1>4. Tokens(feed, 0) = 0
  <2>1. U(0) = {}
    OBVIOUS
  <2> HIDE DEF U
  <2> QED
    BY <1>3, <2>1, FS_EmptySet
<1>5. ASSUME NEW i \in 1..n
      PROVE  Tokens(feed, i) = Tokens(feed, i - 1) + feed[i].fed
  <2>1. U(i) = U(i - 1) \cup P(i)
    <3>1. 1..i = (1..(i - 1)) \cup {i}
      OBVIOUS
    <3> HIDE DEF P
    <3> QED
      BY <3>1
  <2>2. U(i - 1) \cap P(i) = {}
    OBVIOUS
  <2> HIDE DEF U, P
  <2>3. IsFiniteSet(U(i - 1)) /\ IsFiniteSet(P(i))
    BY <1>1, <1>2
  <2>4. Cardinality(U(i - 1)) \in Nat /\ feed[i].fed \in Nat
    BY <1>2
  <2>5. Cardinality(U(i)) = Cardinality(U(i - 1)) + Cardinality(P(i)) - Cardinality({})
    BY <2>1, <2>2, <2>3, FS_Union
  <2>6. Tokens(feed, i) = Cardinality(U(i)) /\ Tokens(feed, i - 1) = Cardinality(U(i - 1))
    BY <1>3
  <2> QED
    BY <1>1, <2>4, <2>5, <2>6, FS_EmptySet
<1>6. ASSUME NEW i \in 0..n, NEW j \in 0..n, i <= j
      PROVE  Tokens(feed, i) <= Tokens(feed, j)
  <2>1. U(i) \in SUBSET U(j)
    <3> HIDE DEF P
    <3> QED
      BY <1>6
  <2> HIDE DEF U
  <2>2. IsFiniteSet(U(j))
    BY <1>2
  <2> QED
    BY <1>3, <2>1, <2>2, FS_Subset
<1>7. \A i \in 0..n : Tokens(feed, i) \in Nat
  <2> HIDE DEF U
  <2> QED
    BY <1>2, <1>3
<1> QED
  BY <1>4, <1>5, <1>6, <1>7

-----------------------------------------------------------------------------
(* The rows of a step *)

LEMMA RowType ==
  ASSUME Sizes, Requests, Batch, NEW i \in Rows
  PROVE  /\ Rows = 1..Len(batch) /\ Len(batch) \in 1..MaxReqs
         /\ batch[i].req \in Reqs /\ Live(batch[i].req)
         /\ batch[i].first \in Nat /\ batch[i].start \in Nat /\ batch[i].fed \in Nat \ {0}
         /\ batch[i].rejected \in Nat
         /\ End(i) \in 1..cfg.maxLen /\ batch[i].first < End(i)
         /\ End(i) <= batch[i].first + batch[i].fed
         /\ End(i) = req[batch[i].req].len
         /\ LastToken(i) \in Nat /\ batch[i].start < LastToken(i)
         /\ Cached(batch[i].req) \in 0..batch[i].first
         /\ pc # "runner"
<1>1. Rows = 1..Len(batch) /\ Len(batch) \in 1..MaxReqs
  BY DEF Rows, Batch, Sizes
<1>2. batch[i] \in Row
  BY DEF Rows, Batch
<1>3. /\ batch[i].req \in Reqs /\ Live(batch[i].req)
      /\ batch[i].rejected < batch[i].fed
      /\ Cached(batch[i].req) <= batch[i].first /\ End(i) = req[batch[i].req].len
  BY <1>2 DEF Batch, Row
<1>4. /\ req[batch[i].req] \in [prompt : 1..cfg.maxLen, cached : Nat, len : 0..cfg.maxLen,
                                missed : SUBSET Nat]
  BY <1>3 DEF Requests
<1>5. req[batch[i].req].len \in 0..cfg.maxLen /\ Cached(batch[i].req) \in Nat
  BY <1>4 DEF Cached
<1>6. /\ batch[i].first \in Nat /\ batch[i].start \in Nat /\ batch[i].fed \in Nat \ {0}
      /\ batch[i].rejected \in Nat
  BY <1>2 DEF Row
<1>7. End(i) \in 1..cfg.maxLen /\ batch[i].first < End(i) /\ End(i) <= batch[i].first + batch[i].fed
  <2> DEFINE f == batch[i].first
             d == batch[i].fed
             x == batch[i].rejected
             e == End(i)
             m == cfg.maxLen
  <2>1. e = f + d - x
    BY DEF End
  <2>2. f \in Nat /\ d \in Nat /\ x \in Nat /\ x < d /\ e \in 0..m
    BY <1>3, <1>5, <1>6
  <2>3. m \in Nat
    BY DEF Sizes
  <2> HIDE DEF f, d, x, e, m
  <2>4. e \in 1..m /\ f < e /\ e <= f + d
    BY <2>1, <2>2, <2>3
  <2> QED
    BY <2>4 DEF f, d, e, m
<1>8. LastToken(i) \in Nat /\ batch[i].start < LastToken(i)
  BY <1>6 DEF LastToken
<1>9. pc # "runner"
  BY DEF Batch, Rows
<1> QED
  BY <1>1, <1>3, <1>5, <1>6, <1>7, <1>8, <1>9

LEMMA RowExists ==
  ASSUME Sizes, Requests, Batch, pc # "runner"
  PROVE  /\ Rows = 1..Len(batch) /\ Len(batch) \in 1..MaxReqs
         /\ NumTokens \in 1..cfg.tokens
         /\ \A i \in Rows : LastToken(i) <= NumTokens
<1>1. Rows = 1..Len(batch) /\ Len(batch) \in 1..MaxReqs
  BY DEF Rows, Batch, Sizes
<1>2. Len(batch) \in Rows
  BY <1>1
<1>3. NumTokens \in 1..cfg.tokens
  <2> DEFINE n == Len(batch)
  <2>1. NumTokens = LastToken(n)
    BY DEF NumTokens
  <2>2. n \in Rows
    BY <1>2
  <2> HIDE DEF n
  <2>3. LastToken(n) \in Nat /\ batch[n].start \in Nat /\ batch[n].start < LastToken(n)
    BY <2>2, RowType, Zenon
  <2>4. NumTokens <= cfg.tokens
    BY Zenon DEF Batch
  <2>5. cfg.tokens \in Nat
    BY DEF Sizes
  <2> QED
    BY <2>1, <2>3, <2>4, <2>5
<1>4. ASSUME NEW i \in Rows PROVE LastToken(i) <= NumTokens
  <2>1. CASE i = Len(batch)
    BY <1>3, <2>1 DEF NumTokens
  <2>2. CASE i < Len(batch)
    <3> DEFINE n == Len(batch)
    <3>1. n \in Rows /\ i < n
      BY <1>2, <2>2
    <3> HIDE DEF n
    <3>2. LastToken(i) <= batch[n].start
      BY <3>1, Zenon DEF Batch
    <3>3. LastToken(i) \in Nat /\ LastToken(n) \in Nat /\ batch[n].start \in Nat
          /\ batch[n].start < LastToken(n)
      BY <3>1, RowType, Zenon
    <3> QED
      BY <3>2, <3>3 DEF NumTokens, n
  <2> QED
    BY <1>1, <2>1, <2>2
<1> QED
  BY <1>1, <1>3, <1>4

\* Each of the context rows is one token of one request.
LEMMA TokenOf ==
  ASSUME Sizes, Requests, Batch, pc # "runner", NEW t \in 1..NumTokens
  PROVE  /\ RowOf(t) \in Rows
         /\ batch[RowOf(t)].start < t /\ t <= LastToken(RowOf(t))
         /\ PosOf(t) \in batch[RowOf(t)].first..(batch[RowOf(t)].first + batch[RowOf(t)].fed - 1)
<1> DEFINE S == {i \in Rows : t <= LastToken(i)}
           m == Min(S)
<1>1. Rows = 1..Len(batch) /\ Len(batch) \in Nat \ {0} /\ NumTokens \in Nat
  <2>1. Rows = 1..Len(batch) /\ Len(batch) \in 1..MaxReqs /\ NumTokens \in 1..cfg.tokens
    BY RowExists, Zenon
  <2>2. MaxReqs \in Nat /\ cfg.tokens \in Nat
    BY DEF Sizes
  <2> QED
    BY <2>1, <2>2
<1>2. S \in SUBSET Nat /\ S # {}
  <2>1. Len(batch) \in S
    BY <1>1 DEF NumTokens
  <2> QED
    BY <1>1, <2>1
<1>3. m \in S /\ \A k \in S : m <= k
  BY <1>2, MinIn
<1> HIDE DEF m
<1>4. batch[m].start < t
  <2>1. CASE m = 1
    BY <2>1 DEF Batch
  <2>2. CASE m # 1
    <3>1. m - 1 \in Rows /\ m \in Rows /\ m > 1
      BY <1>1, <1>3, <2>2
    <3>2. m - 1 \notin S
      BY <1>1, <1>3
    <3>3. batch[m].start = LastToken(m - 1)
      BY <3>1 DEF Batch
    <3>4. LastToken(m - 1) \in Nat
      BY <3>1, RowType
    <3> QED
      BY <1>1, <3>1, <3>2, <3>3, <3>4
  <2> QED
    BY <2>1, <2>2
<1>5. RowOf(t) \in Rows /\ batch[RowOf(t)].start < t /\ t <= LastToken(RowOf(t))
  <2>1. m \in Rows /\ batch[m].start < t /\ t <= LastToken(m)
    BY <1>3, <1>4
  <2> QED
    BY <2>1 DEF RowOf
<1> DEFINE i == RowOf(t)
<1> HIDE DEF i
<1>6. i \in Rows /\ batch[i].start < t /\ t <= LastToken(i)
  BY <1>5 DEF i
<1>7. /\ batch[i].first \in Nat /\ batch[i].start \in Nat /\ batch[i].fed \in Nat \ {0}
  BY <1>6, RowType
<1>8. batch[i].first + t - 1 - batch[i].start \in batch[i].first..(batch[i].first + batch[i].fed - 1)
  <2> DEFINE f == batch[i].first
             d == batch[i].fed
             x == batch[i].start
  <2>1. f \in Nat /\ d \in Nat /\ x \in Nat /\ x < t /\ t <= x + d /\ t \in Nat
    BY <1>1, <1>6, <1>7 DEF LastToken
  <2> HIDE DEF f, d, x
  <2>2. f + t - 1 - x \in f..(f + d - 1)
    BY <2>1
  <2> QED
    BY <2>2 DEF f, d, x
<1> QED
  BY <1>6, <1>8 DEF i, PosOf

LEMMA TokenAt ==
  ASSUME Sizes, Requests, Batch, NEW i \in Rows,
         NEW p \in batch[i].first..(batch[i].first + batch[i].fed - 1)
  PROVE  \E t \in 1..NumTokens : /\ RowOf(t) = i /\ PosOf(t) = p
                                 /\ \A s \in 1..NumTokens :
                                       RowOf(s) = i /\ PosOf(s) = p => s = t
<1> DEFINE t == batch[i].start + p - batch[i].first + 1
<1>1. /\ batch[i].first \in Nat /\ batch[i].start \in Nat /\ batch[i].fed \in Nat \ {0}
      /\ pc # "runner"
  BY RowType
<1>2. LastToken(i) <= NumTokens /\ NumTokens \in Nat
  BY <1>1, RowExists
<1>3. t \in 1..NumTokens /\ batch[i].start < t /\ t <= LastToken(i)
  BY <1>1, <1>2 DEF LastToken
<1> HIDE DEF t
<1>4. RowOf(t) = i
  <2>1. RowOf(t) \in Rows /\ batch[RowOf(t)].start < t /\ t <= LastToken(RowOf(t))
    BY <1>1, <1>3, TokenOf
  <2> DEFINE j == RowOf(t)
  <2> HIDE DEF j
  <2>2. j \in Rows /\ batch[j].start < t /\ t <= LastToken(j)
    BY <2>1 DEF j
  <2>3. j < i => LastToken(j) <= batch[i].start
    BY <2>2 DEF Batch
  <2>4. i < j => LastToken(i) <= batch[j].start
    BY <2>2 DEF Batch
  <2>5. LastToken(j) \in Nat /\ batch[j].start \in Nat /\ LastToken(i) \in Nat
        /\ Rows = 1..Len(batch) /\ i \in Rows
    BY <2>2, RowType, Zenon
  <2>6. i \in Nat /\ j \in Nat
    BY <2>2, <2>5
  <2>7. t \in Int /\ batch[i].start \in Nat /\ batch[i].start < t /\ t <= LastToken(i)
    <3>1. batch[i].start \in Nat
      BY RowType, Zenon
    <3> QED
      BY <1>2, <1>3, <3>1
  <2>8. ~ (j < i)
    BY <2>2, <2>3, <2>5, <2>7
  <2>9. ~ (i < j)
    BY <2>2, <2>4, <2>5, <2>7
  <2> QED
    BY <2>6, <2>8, <2>9 DEF j
<1>5. PosOf(t) = p
  BY <1>1, <1>2, <1>4 DEF PosOf, t
<1>6. ASSUME NEW s \in 1..NumTokens, RowOf(s) = i, PosOf(s) = p
      PROVE  s = t
  BY <1>1, <1>2, <1>3, <1>6 DEF PosOf, t
<1> QED
  BY <1>3, <1>4, <1>5, <1>6

-----------------------------------------------------------------------------
(* Cells and slots *)

LEMMA CellsApart ==
  ASSUME Sizes
  PROVE  /\ Pad \notin Cells /\ Stale \notin Cells /\ Pad # Stale /\ None # Stale
         /\ None \notin Reqs /\ Stale \notin Reqs
         /\ \A r \in Reqs, b \in 0..(Stride - 1), o \in 0..(cfg.block - 1) :
               /\ <<<<r, b>>, o>> \in Cells /\ <<<<r, b>>, o>> # Pad /\ <<<<r, b>>, o>> # Stale
               /\ <<r, b>> # Null
         /\ \A o \in 0..(cfg.block - 1) : <<Null, o>> \in Cells
<1>1. 0..(Stride - 1) \subseteq Nat /\ 0..(cfg.block - 1) \subseteq Nat
  BY DEF Sizes
<1>2. Blocks \subseteq Reqs \X Nat
  BY <1>1 DEF Blocks
<1>3. Cells \subseteq ((Reqs \X Nat) \union {Null}) \X Nat
  BY <1>1, <1>2 DEF Cells
<1>4. Pad # Stale /\ None # Stale
  <2>1. ASSUME Pad = Stale \/ None = Stale PROVE FALSE
    <3>1. \/ {None, Null, Pad, Stale} = {None, Null, Pad}
          \/ {None, Null, Pad, Stale} = {Null, Pad, Stale}
      BY <2>1
    <3>2. \A a, b, c : Cardinality({a, b, c}) <= 3 /\ Cardinality({a, b, c}) \in Nat
      <4> TAKE a, b, c
      <4>1. IsFiniteSet({}) /\ Cardinality({}) = 0
        BY FS_EmptySet
      <4>2. IsFiniteSet({a}) /\ Cardinality({a}) = 1
        BY FS_Singleton
      <4>3. {a, b} = {a} \union {b} /\ {a, b, c} = {a, b} \union {c}
        OBVIOUS
      <4>4. IsFiniteSet({a, b}) /\ Cardinality({a, b}) \in {1, 2}
        BY <4>2, <4>3, FS_AddElement
      <4>5. IsFiniteSet({a, b, c}) /\ Cardinality({a, b, c}) \in {1, 2, 3}
        BY <4>3, <4>4, FS_AddElement
      <4> QED
        BY <4>5
    <3>3. Cardinality({None, Null, Pad}) <= 3 /\ Cardinality({Null, Pad, Stale}) <= 3
      BY <3>2
    <3>4. Cardinality({None, Null, Pad, Stale}) <= 3
      BY <3>1, <3>3, Zenon
    <3>5. Cardinality({None, Null, Pad, Stale}) = 4
      BY DraftAssumption
    <3> QED
      BY <3>4, <3>5
  <2> QED
    BY <2>1
<1>5. Pad \notin Cells /\ Stale \notin Cells /\ None \notin Reqs /\ Stale \notin Reqs
  BY <1>3, DraftAssumption
<1>6. ASSUME NEW r \in Reqs, NEW b \in 0..(Stride - 1), NEW o \in 0..(cfg.block - 1)
      PROVE  <<<<r, b>>, o>> \in Cells /\ <<r, b>> # Null
  <2>1. <<r, b>> \in Blocks
    BY DEF Blocks
  <2> QED
    BY <1>2, <2>1, DraftAssumption DEF Cells
<1> QED
  BY <1>4, <1>5, <1>6 DEF Cells

LEMMA SlotCell ==
  ASSUME Sizes, Requests, Batch, NEW i \in Rows
  PROVE  /\ \A p \in Nat : \/ SlotIn(i, p) = Pad
                           \/ \E b \in 0..(Stride - 1), o \in 0..(cfg.block - 1) :
                                 SlotIn(i, p) = <<<<batch[i].req, b>>, o>>
         /\ \A p \in 0..(cfg.maxLen - 1) :
               SlotIn(i, p) = IF Evicted(batch[i].req, p) THEN Pad ELSE Cell(batch[i].req, p)
<1> DEFINE r == batch[i].req
<1>1. r \in Reqs /\ End(i) = req[r].len
  BY RowType
<1>2. \A b \in 0..(Stride - 1) :
         Gathered(i)[b] = IF cfg.window > 0 /\ (b + 1) * cfg.block <= req[r].len - cfg.window + 1
                          THEN Null ELSE <<r, b>>
  BY <1>1 DEF Gathered, BlockRow
<1>3. \A b \in 0..(Stride - 1), o \in 0..(cfg.block - 1) : <<r, b>> # Null
  BY <1>1, CellsApart
<1> HIDE DEF r
<1>4. ASSUME NEW p \in Nat
      PROVE  \/ SlotIn(i, p) = Pad
             \/ \E b \in 0..(Stride - 1), o \in 0..(cfg.block - 1) : SlotIn(i, p) = <<<<r, b>>, o>>
  <2> DEFINE B == cfg.block
             d == p \div B
             e == Least(d, Stride - 1)
  <2>1. B \in Nat \ {0}
    BY DEF Sizes
  <2> HIDE DEF B
  <2>2. p % B \in 0..(B - 1)
    BY <2>1, Remainder
  <2>3. d \in Int /\ B * d <= p /\ p < B * d + B
    BY <2>1, Division
  <2> HIDE DEF d
  <2>4. d >= 0
    <3>1. B * 0 < B * d + B
      BY <2>1, <2>3
    <3> QED
      BY <2>1, <2>3, <3>1, Ordered
  <2>5. e \in 0..(Stride - 1)
    BY <2>3, <2>4 DEF Least, Sizes
  <2>6. SlotIn(i, p) = IF Gathered(i)[e] = Null THEN Pad ELSE <<Gathered(i)[e], p % B>>
    BY DEF SlotIn, Slot, d, B
  <2> HIDE DEF e
  <2>7. Gathered(i)[e] = Null \/ Gathered(i)[e] = <<r, e>>
    BY <1>2, <2>5
  <2> QED
    BY <2>2, <2>5, <2>6, <2>7, Zenon DEF B
<1>5. ASSUME NEW p \in 0..(cfg.maxLen - 1)
      PROVE  SlotIn(i, p) = IF Evicted(r, p) THEN Pad ELSE Cell(r, p)
  <2>1. p \div cfg.block \in 0..(Stride - 1) /\ Least(p \div cfg.block, Stride - 1) = p \div cfg.block
    BY <1>1, CellOf
  <2> DEFINE d == p \div cfg.block
  <2>2. SlotIn(i, p) = IF Gathered(i)[d] = Null THEN Pad ELSE <<Gathered(i)[d], p % cfg.block>>
    BY <2>1 DEF SlotIn, Slot
  <2>3. Evicted(r, p) <=> cfg.window > 0 /\ (d + 1) * cfg.block <= req[r].len - cfg.window + 1
    BY DEF Evicted
  <2>4. Cell(r, p) = <<<<r, d>>, p % cfg.block>>
    BY DEF Cell
  <2>5. d \in 0..(Stride - 1) /\ 0 \in 0..(cfg.block - 1)
    BY <2>1 DEF Sizes
  <2> HIDE DEF d
  <2>6. Gathered(i)[d] = IF Evicted(r, p) THEN Null ELSE <<r, d>>
    BY <1>2, <2>3, <2>5
  <2>7. <<r, d>> # Null
    BY <1>3, <2>5
  <2> QED
    BY <2>2, <2>4, <2>6, <2>7
<1> QED
  BY <1>4, <1>5 DEF r

\* A kernel that knows every slot it writes to changes a cell only if a row
\* of it is meant for the cell, and then to that row's value.
LEMMA WrittenIs ==
  ASSUME NEW cells, NEW slot, NEW values,
         \A t \in DOMAIN values : slot[t] # Stale
  PROVE  /\ DOMAIN Written(cells, slot, values) = Cells
         /\ \A c \in Cells : (\A t \in DOMAIN values : slot[t] # c)
                                => Written(cells, slot, values)[c] = cells[c]
         /\ \A c \in Cells, t \in DOMAIN values :
               slot[t] = c /\ (\A s \in DOMAIN values : slot[s] = c => s = t)
                  => Written(cells, slot, values)[c] = values[t]
<1> DEFINE W(c) == {t \in DOMAIN values : slot[t] = c}
           V(c) == IF W(c) = {} THEN cells[c]
                   ELSE IF Cardinality(W(c)) = 1 THEN values[CHOOSE t \in W(c) : TRUE] ELSE Junk
<1>1. Written(cells, slot, values) = [c \in Cells |-> V(c)]
  BY DEF Written
<1>2. ASSUME NEW c \in Cells, \A t \in DOMAIN values : slot[t] # c
      PROVE  V(c) = cells[c]
  BY <1>2
<1>3. ASSUME NEW c \in Cells, NEW t \in DOMAIN values, slot[t] = c,
             \A s \in DOMAIN values : slot[s] = c => s = t
      PROVE  V(c) = values[t]
  <2>1. W(c) = {t}
    BY <1>3
  <2>2. Cardinality({t}) = 1
    BY FS_Singleton
  <2>3. (CHOOSE s \in {t} : TRUE) = t
    OBVIOUS
  <2>4. W(c) # {}
    BY <2>1
  <2> HIDE DEF W
  <2> QED
    BY <2>1, <2>2, <2>3, <2>4
<1> HIDE DEF V
<1> QED
  BY <1>1, <1>2, <1>3

-----------------------------------------------------------------------------
(* The rows of the kernels *)

\* Rows of m columns, numbered from 1.
LEMMA ColumnAt ==
  ASSUME NEW m \in Nat \ {0}, NEW n \in Nat, NEW i \in 1..n, NEW k \in 0..(m - 1)
  PROVE  /\ (i - 1) * m + k + 1 \in 1..(n * m)
         /\ ((((i - 1) * m + k + 1) - 1) \div m) + 1 = i
         /\ (((i - 1) * m + k + 1) - 1) % m = k
<1> DEFINE j == i - 1
           a == m * j
<1>1. j \in 0..(n - 1)
  OBVIOUS
<1> HIDE DEF j
<1>2. m * j \in Int /\ m * 0 <= m * j /\ m * j + m <= m * n /\ m * n \in Int
  BY <1>1, Ordered, Steps
<1>3. (m * j + k) \div m = j /\ (m * j + k) % m = k
  BY <1>1, Written2
<1>4. j * m = m * j /\ n * m = m * n
  BY <1>1
<1>5. a \in Int /\ a >= 0 /\ a + m <= m * n /\ j * m = a /\ (a + k) \div m = j /\ (a + k) % m = k
  BY <1>2, <1>3, <1>4
<1>6. (i - 1) * m = a
  BY <1>5 DEF j
<1> DEFINE e == m * n
           x == (i - 1) * m
<1>7. e \in Int /\ a + m <= e /\ n * m = e /\ x = a
  BY <1>2, <1>4, <1>5, <1>6
<1> HIDE DEF a, e, x
<1>8. x + k + 1 \in 1..e /\ (x + k + 1) - 1 = a + k
  BY <1>5, <1>7
<1>9. i = j + 1
  BY DEF j
<1>10. x + k + 1 \in 1..(n * m)
  BY <1>7, <1>8
<1> QED
  BY <1>1, <1>5, <1>8, <1>9, <1>10, Zenon DEF x

LEMMA RowAt ==
  ASSUME NEW m \in Nat \ {0}, NEW n \in Nat, NEW q \in 1..(n * m)
  PROVE  /\ ((q - 1) \div m) + 1 \in 1..n
         /\ (q - 1) % m \in 0..(m - 1)
         /\ q = (((q - 1) \div m) + 1 - 1) * m + ((q - 1) % m) + 1
<1> DEFINE e == m * n
           a == q - 1
           d == a \div m
           r == a % m
<1>1. e \in Nat /\ n * m = e
  OBVIOUS
<1>2. a \in Int /\ a >= 0 /\ a < e /\ q = a + 1
  BY <1>1
<1> HIDE DEF a
<1>3. d \in Int /\ m * d <= a /\ a < m * d + m /\ r \in 0..(m - 1) /\ a = m * d + r
  BY <1>2, Division, Remainder
<1> HIDE DEF d, r
<1>4. m * d < m * n /\ m * 0 < m * d + m
  BY <1>1, <1>2, <1>3
<1>5. d < n /\ 0 <= d
  BY <1>3, <1>4, Ordered
<1>6. d + 1 \in 1..n /\ (d + 1 - 1) * m = m * d
  BY <1>3, <1>5
<1> DEFINE x == (d + 1 - 1) * m
           y == m * d
<1>7. x = y /\ y \in Int /\ a = y + r
  BY <1>3, <1>6
<1> HIDE DEF x, y
<1>8. q = x + r + 1
  BY <1>2, <1>3, <1>7
<1>9. ((q - 1) \div m) = d /\ (q - 1) % m = r
  BY DEF d, r, a
<1> QED
  BY <1>3, <1>6, <1>8, <1>9 DEF x

\* The rows of a forward: each query row of a request, once.
LEMMA QueryAt ==
  ASSUME Sizes, NEW n \in Nat
  PROVE  /\ \A i \in 1..n, k \in 0..(NumQuery - 1) :
               LET q == (i - 1) * NumQuery + k + 1
               IN q \in 1..(n * NumQuery) /\ RowOfQuery(q) = i /\ QueryPos(q) = End(i) + k
         /\ \A q \in 1..(n * NumQuery) :
               LET i == RowOfQuery(q)
               IN i \in 1..n /\ \E k \in 0..(NumQuery - 1) :
                     QueryPos(q) = End(i) + k /\ q = (i - 1) * NumQuery + k + 1
<1>1. NumQuery \in Nat \ {0}
  BY DEF Sizes
<1>2. ASSUME NEW i \in 1..n, NEW k \in 0..(NumQuery - 1)
      PROVE  LET q == (i - 1) * NumQuery + k + 1
             IN q \in 1..(n * NumQuery) /\ RowOfQuery(q) = i /\ QueryPos(q) = End(i) + k
  <2> DEFINE q == (i - 1) * NumQuery + k + 1
  <2>1. q \in 1..(n * NumQuery) /\ ((q - 1) \div NumQuery) + 1 = i /\ (q - 1) % NumQuery = k
    <3> DEFINE m == NumQuery
    <3>1. m \in Nat \ {0} /\ k \in 0..(m - 1)
      BY <1>1
    <3> HIDE DEF m
    <3>2. LET x == (i - 1) * m + k + 1
          IN x \in 1..(n * m) /\ ((x - 1) \div m) + 1 = i /\ (x - 1) % m = k
      BY <3>1, ColumnAt
    <3> QED
      BY <3>2 DEF m
  <2> HIDE DEF q
  <2>2. RowOfQuery(q) = i
    BY <2>1 DEF RowOfQuery
  <2>3. QueryPos(q) = End(i) + k
    BY <2>1, <2>2 DEF QueryPos
  <2> QED
    BY <2>1, <2>2, <2>3 DEF q
<1>3. ASSUME NEW q \in 1..(n * NumQuery)
      PROVE  LET i == RowOfQuery(q)
             IN i \in 1..n /\ \E k \in 0..(NumQuery - 1) :
                   QueryPos(q) = End(i) + k /\ q = (i - 1) * NumQuery + k + 1
  <2> DEFINE k == (q - 1) % NumQuery
             i == RowOfQuery(q)
  <2>1. ((q - 1) \div NumQuery) + 1 \in 1..n /\ k \in 0..(NumQuery - 1)
        /\ q = (((q - 1) \div NumQuery) + 1 - 1) * NumQuery + k + 1
    BY <1>1, RowAt
  <2>2. i = (q - 1) \div NumQuery + 1 /\ QueryPos(q) = End(i) + k
    BY DEF RowOfQuery, QueryPos
  <2> DEFINE d == (q - 1) \div NumQuery
  <2>2a. d + 1 \in 1..n /\ q = (d + 1 - 1) * NumQuery + k + 1 /\ i = d + 1
    BY <2>1, <2>2, Zenon
  <2>2d. d \in Int
    BY <1>1
  <2> HIDE DEF k, i, d
  <2>2c. i = d + 1 /\ d \in Int
    BY <2>2a, <2>2d, Zenon
  <2>2b. d + 1 - 1 = i - 1
    BY <2>2c
  <2>3. i \in 1..n /\ q = (i - 1) * NumQuery + k + 1
    BY <2>2a, <2>2b, Zenon
  <2> QED
    BY <2>1, <2>2, <2>3 DEF i
<1> QED
  BY <1>2, <1>3

\* A captured size that is at least what is asked for, and within bounds.
LEMMA Covers ==
  ASSUME NEW n \in Nat, NEW S, NEW m \in Nat, n <= m, S \subseteq 1..m
  PROVE  LET fit == {k \in S : k >= n}
         IN (IF fit = {} THEN n ELSE Min(fit)) \in n..m
<1> DEFINE fit == {k \in S : k >= n}
<1>1. fit \subseteq n..m
  <2> SUFFICES ASSUME NEW k \in S, k >= n PROVE k \in n..m
    OBVIOUS
  <2>1. k \in 1..m
    OBVIOUS
  <2> QED
    BY <2>1
<1>1a. fit \in SUBSET Nat /\ n \in n..m
  BY <1>1
<1> HIDE DEF fit
<1>2. CASE fit = {}
  BY <1>1a, <1>2 DEF fit
<1>3. CASE fit # {}
  <2>1. Min(fit) \in fit
    BY <1>1a, <1>3, MinIn
  <2> QED
    BY <1>1, <1>3, <2>1, Zenon DEF fit
<1> QED
  BY <1>2, <1>3 DEF fit

LEMMA Captured ==
  ASSUME Sizes, Requests, Batch, pc # "runner"
  PROVE  /\ ContextRows \in NumTokens..cfg.tokens
         /\ GraphReqs \in Len(batch)..MaxReqs
<1>1. Len(batch) \in 1..MaxReqs /\ NumTokens \in 1..cfg.tokens
  BY RowExists
<1>2. ContextRows \in NumTokens..cfg.tokens
  <2>1. NumTokens \in Nat /\ cfg.tokens \in Nat /\ NumTokens <= cfg.tokens /\ cfg.contexts \subseteq 1..cfg.tokens
    BY <1>1 DEF Sizes
  <2> QED
    BY <2>1, Covers DEF ContextRows
<1>3. GraphReqs \in Len(batch)..MaxReqs
  <2>1. Len(batch) \in Nat /\ MaxReqs \in Nat /\ Len(batch) <= MaxReqs /\ cfg.graphs \subseteq 1..MaxReqs
    BY <1>1 DEF Sizes
  <2> QED
    BY <2>1, Covers DEF GraphReqs
<1> QED
  BY <1>2, <1>3

-----------------------------------------------------------------------------
(* What the kernels write *)

\* The precompute kernel writes the context of the kept tokens, each to the
\* cell of its position, and nothing else.
LEMMA StoreCell ==
  ASSUME Sizes, Requests, Batch, Buffers, pc = "store", NEW g \in Groups
  PROVE  LET W == Written(kv[g], cslot[g], [t \in 1..ContextRows |-> ContextValue(t)])
         IN /\ DOMAIN W = Cells
            /\ \A c \in Cells :
                 (\A i \in Rows : \A p \in batch[i].first..(End(i) - 1) :
                     Evicted(batch[i].req, p) \/ Cell(batch[i].req, p) # c) => W[c] = kv[g][c]
            /\ \A i \in Rows : \A p \in batch[i].first..(End(i) - 1) :
                 Evicted(batch[i].req, p)
                   \/ W[Cell(batch[i].req, p)] = <<"context", batch[i].req, p>>
<1> DEFINE V == [t \in 1..ContextRows |-> ContextValue(t)]
           W == Written(kv[g], cslot[g], V)
<1>1. NumTokens \in Nat \ {0} /\ ContextRows \in Nat /\ NumTokens <= ContextRows
  <2>1. pc # "runner"
    OBVIOUS
  <2>2. NumTokens \in 1..cfg.tokens /\ ContextRows \in NumTokens..cfg.tokens
    BY <2>1, Captured, RowExists, Zenon
  <2>3. cfg.tokens \in Nat
    BY DEF Sizes
  <2> QED
    BY <2>2, <2>3
<1>2. ASSUME NEW t \in 1..ContextRows
      PROVE  /\ t \in 1..NumTokens /\ PosOf(t) < End(RowOf(t)) =>
                  /\ RowOf(t) \in Rows
                  /\ PosOf(t) \in batch[RowOf(t)].first..(End(RowOf(t)) - 1)
                  /\ cslot[g][t] = IF Evicted(batch[RowOf(t)].req, PosOf(t)) THEN Pad
                                   ELSE Cell(batch[RowOf(t)].req, PosOf(t))
             /\ ~ (t \in 1..NumTokens /\ PosOf(t) < End(RowOf(t))) => cslot[g][t] = Pad
  <2>1. cslot[g][t] = IF t <= NumTokens /\ PosOf(t) < End(RowOf(t))
                      THEN SlotIn(RowOf(t), PosOf(t)) ELSE Pad
    BY DEF Buffers, Prepared
  <2>2. t \in 1..NumTokens <=> t <= NumTokens
    BY <1>1
  <2>3. ASSUME t \in 1..NumTokens, PosOf(t) < End(RowOf(t))
        PROVE  /\ RowOf(t) \in Rows
               /\ PosOf(t) \in batch[RowOf(t)].first..(End(RowOf(t)) - 1)
               /\ PosOf(t) \in 0..(cfg.maxLen - 1)
    <3> DEFINE i == RowOf(t)
               p == PosOf(t)
    <3>1. i \in Rows /\ p \in batch[i].first..(batch[i].first + batch[i].fed - 1)
      BY <2>3, TokenOf
    <3> HIDE DEF i, p
    <3>2. batch[i].first \in Nat /\ batch[i].fed \in Nat /\ End(i) \in 1..cfg.maxLen /\ cfg.maxLen \in Nat
      BY <3>1, RowType DEF Sizes
    <3>3. p < End(i)
      BY <2>3 DEF p, i
    <3>4. p \in batch[i].first..(End(i) - 1) /\ p \in 0..(cfg.maxLen - 1)
      BY <3>1, <3>2, <3>3
    <3> QED
      BY <3>1, <3>4 DEF i, p
  <2> QED
    BY <2>1, <2>2, <2>3, SlotCell
<1>3. DOMAIN V = 1..ContextRows
  OBVIOUS
<1>4. \A t \in DOMAIN V : cslot[g][t] # Stale
  <2> SUFFICES ASSUME NEW t \in 1..ContextRows PROVE cslot[g][t] # Stale
    BY <1>3
  <2>1. Pad # Stale
    BY CellsApart
  <2>2. CASE t \in 1..NumTokens /\ PosOf(t) < End(RowOf(t))
    <3>1. RowOf(t) \in Rows /\ PosOf(t) \in batch[RowOf(t)].first..(End(RowOf(t)) - 1)
      BY <1>2, <2>2
    <3> DEFINE i == RowOf(t)
               p == PosOf(t)
    <3>1a. i \in Rows /\ p \in batch[i].first..(End(i) - 1)
      BY <3>1
    <3> HIDE DEF i, p
    <3>1b. batch[i].first \in Nat /\ End(i) \in 1..cfg.maxLen /\ batch[i].req \in Reqs /\ cfg.maxLen \in Nat
      BY <3>1a, RowType DEF Sizes
    <3>1c. batch[i].req \in Reqs /\ p \in 0..(cfg.maxLen - 1)
      BY <3>1a, <3>1b
    <3>2. batch[RowOf(t)].req \in Reqs /\ PosOf(t) \in 0..(cfg.maxLen - 1)
      BY <3>1c DEF i, p
    <3>3. Cell(batch[RowOf(t)].req, PosOf(t)) # Stale
      BY <3>2, CellOf, CellsApart
    <3> QED
      BY <1>2, <2>1, <2>2, <3>3
  <2> QED
    BY <1>2, <2>1, <2>2
<1>5. ASSUME NEW c \in Cells,
             \A i \in Rows : \A p \in batch[i].first..(End(i) - 1) :
                Evicted(batch[i].req, p) \/ Cell(batch[i].req, p) # c
      PROVE  \A t \in DOMAIN V : cslot[g][t] # c
  <2> SUFFICES ASSUME NEW t \in 1..ContextRows PROVE cslot[g][t] # c
    BY <1>3
  <2>1. Pad # c
    BY CellsApart
  <2> QED
    BY <1>2, <1>5, <2>1
<1>6. ASSUME NEW i \in Rows, NEW p \in batch[i].first..(End(i) - 1), ~ Evicted(batch[i].req, p)
      PROVE  \E t \in DOMAIN V :
                /\ cslot[g][t] = Cell(batch[i].req, p)
                /\ V[t] = <<"context", batch[i].req, p>>
                /\ \A s \in DOMAIN V : cslot[g][s] = Cell(batch[i].req, p) => s = t
  <2> DEFINE c == Cell(batch[i].req, p)
  <2>1. /\ batch[i].first \in Nat /\ batch[i].fed \in Nat /\ End(i) \in 1..cfg.maxLen /\ batch[i].req \in Reqs
        /\ End(i) <= batch[i].first + batch[i].fed
    BY RowType
  <2> DEFINE f == batch[i].first
             d == batch[i].fed
             e == End(i)
             m == cfg.maxLen
  <2>2a. f \in Nat /\ d \in Nat /\ e \in 1..m /\ m \in Nat /\ e <= f + d /\ p \in f..(e - 1)
    BY <2>1 DEF Sizes
  <2> HIDE DEF f, d, e, m
  <2>2b. p \in f..(f + d - 1) /\ p \in Nat /\ p < e /\ p \in 0..(m - 1)
    BY <2>2a
  <2>2. p \in batch[i].first..(batch[i].first + batch[i].fed - 1) /\ p \in Nat /\ p < End(i)
        /\ p \in 0..(cfg.maxLen - 1)
    BY <2>2b DEF f, d, e, m
  <2>3. PICK t \in 1..NumTokens : /\ RowOf(t) = i /\ PosOf(t) = p
                                  /\ \A s \in 1..NumTokens : RowOf(s) = i /\ PosOf(s) = p => s = t
    BY <2>2, TokenAt
  <2>4. t \in 1..ContextRows
    BY <1>1
  <2>5. cslot[g][t] = c
    BY <1>2, <1>6, <2>2, <2>3, <2>4
  <2>6. V[t] = <<"context", batch[i].req, p>>
    <3>1. cpos[t] = p
      BY <2>2, <2>3 DEF Buffers, Prepared
    <3>2. t <= NumTokens
      BY <1>1
    <3>3. ContextValue(t) = <<"context", batch[i].req, p>>
      BY <2>3, <3>1, <3>2 DEF ContextValue
    <3> QED
      BY <2>4, <3>3
  <2>7. ASSUME NEW s \in 1..ContextRows, cslot[g][s] = c PROVE s = t
    <3>1. c # Pad
      BY <2>1, <2>2, CellOf, CellsApart
    <3>2. s \in 1..NumTokens /\ PosOf(s) < End(RowOf(s))
      BY <1>2, <2>7, <3>1
    <3> DEFINE j == RowOf(s)
               q == PosOf(s)
    <3>3. j \in Rows /\ q \in batch[j].first..(End(j) - 1) /\ Cell(batch[j].req, q) = c
      BY <1>2, <2>7, <3>1, <3>2
    <3> HIDE DEF j, q
    <3>4. batch[j].req \in Reqs /\ q \in Nat
      <4>1. batch[j].req \in Reqs /\ batch[j].first \in Nat /\ End(j) \in 1..cfg.maxLen
        BY <3>3, RowType, Zenon
      <4>2. q \in batch[j].first..(End(j) - 1)
        BY <3>3, Zenon
      <4>3. cfg.maxLen \in Nat
        BY DEF Sizes
      <4> QED
        BY <4>1, <4>2, <4>3
    <3> HIDE DEF c
    <3>5. batch[j].req = batch[i].req /\ q = p
      BY <2>1, <2>2, <3>3, <3>4, CellOf DEF c
    <3>6. j = i
      BY <3>3, <3>5 DEF Batch
    <3> QED
      BY <2>3, <3>2, <3>5, <3>6 DEF j, q
  <2> HIDE DEF V
  <2> QED
    BY <1>3, <2>4, <2>5, <2>6, <2>7
<1>7. /\ DOMAIN W = Cells
      /\ \A c \in Cells : (\A t \in DOMAIN V : cslot[g][t] # c) => W[c] = kv[g][c]
      /\ \A c \in Cells, t \in DOMAIN V :
            cslot[g][t] = c /\ (\A s \in DOMAIN V : cslot[g][s] = c => s = t) => W[c] = V[t]
  <2> HIDE DEF V
  <2> QED
    BY <1>4, WrittenIs
<1>8. ASSUME NEW i \in Rows, NEW p \in batch[i].first..(End(i) - 1)
      PROVE  Evicted(batch[i].req, p) \/ W[Cell(batch[i].req, p)] = <<"context", batch[i].req, p>>
  <2> SUFFICES ASSUME ~ Evicted(batch[i].req, p)
               PROVE  W[Cell(batch[i].req, p)] = <<"context", batch[i].req, p>>
    OBVIOUS
  <2>1. batch[i].first \in Nat /\ End(i) \in 1..cfg.maxLen /\ batch[i].req \in Reqs
    BY RowType
  <2>2. p \in 0..(cfg.maxLen - 1)
    <3> DEFINE f == batch[i].first
               e == End(i)
               m == cfg.maxLen
    <3>1. f \in Nat /\ e \in 1..m /\ m \in Nat /\ p \in f..(e - 1)
      BY <2>1 DEF Sizes
    <3> HIDE DEF f, e, m
    <3>2. p \in 0..(m - 1)
      BY <3>1
    <3> QED
      BY <3>2 DEF m
  <2>3. Cell(batch[i].req, p) \in Cells
    BY <2>1, <2>2, CellOf
  <2> HIDE DEF W, V
  <2> QED
    BY <1>6, <1>7, <2>3
<1> HIDE DEF W, V
<1>9. DOMAIN W = Cells
      /\ \A c \in Cells : (\A i \in Rows : \A p \in batch[i].first..(End(i) - 1) :
                             Evicted(batch[i].req, p) \/ Cell(batch[i].req, p) # c) => W[c] = kv[g][c]
  BY <1>5, <1>7
<1> QED
  BY <1>8, <1>9 DEF W, V

\* The draft forward writes the query rows of each request, to the cells of
\* its own table.  Where the draft block fits, each row has a cell of its own.
LEMMA ForwardCell ==
  ASSUME Sizes, Requests, Batch, Buffers, pc = "forward", NEW g \in Groups
  PROVE  LET W == Written(kv[g], qslot[g], [q \in 1..(GraphReqs * NumQuery) |-> QueryValue(q)])
         IN /\ DOMAIN W = Cells
            /\ \A c \in Cells :
                 (\A i \in Rows, k \in 0..(NumQuery - 1) : SlotIn(i, End(i) + k) # c) => W[c] = kv[g][c]
            /\ \A i \in Rows : Fits(End(i)) =>
                 \A p \in End(i)..(End(i) + NumQuery - 1) :
                    W[Cell(batch[i].req, p)] = <<"query", batch[i].req, p>>
<1> DEFINE n == GraphReqs
           V == [q \in 1..(n * NumQuery) |-> QueryValue(q)]
           W == Written(kv[g], qslot[g], V)
<1>1. Rows = 1..Len(batch) /\ Len(batch) \in 1..MaxReqs /\ n \in Len(batch)..MaxReqs /\ MaxReqs \in Nat
      /\ NumQuery \in Nat \ {0}
  BY Captured, RowExists DEF Sizes
<1>2. n \in Nat /\ n <= MaxReqs /\ Rows \subseteq 1..n
  BY <1>1
<1> HIDE DEF n
<1>3. \A q \in 1..(n * NumQuery) : q \in 1..(MaxReqs * NumQuery)
  <2> DEFINE m == NumQuery
  <2>1. m \in Nat \ {0}
    BY <1>1
  <2> HIDE DEF m
  <2>2. m * n <= m * MaxReqs
    BY <1>1, <1>2, <2>1, Ordered
  <2>3. n * m = m * n /\ MaxReqs * m = m * MaxReqs /\ m * n \in Int /\ m * MaxReqs \in Int
    BY <1>1, <1>2, <2>1
  <2> DEFINE a == m * n
             b == m * MaxReqs
  <2>4. a <= b /\ a \in Int /\ b \in Int /\ n * m = a /\ MaxReqs * m = b
    BY <2>2, <2>3
  <2> HIDE DEF a, b
  <2> QED
    BY <2>4 DEF m
<1>4. \A q \in 1..(n * NumQuery) :
         qslot[g][q] = IF IsQuery(q) THEN SlotIn(RowOfQuery(q), QueryPos(q)) ELSE Pad
  BY <1>3 DEF Buffers, Prepared
<1>5. ASSUME NEW q \in 1..(n * NumQuery)
      PROVE  IsQuery(q) => \E k \in 0..(NumQuery - 1) :
                QueryPos(q) = End(RowOfQuery(q)) + k /\ q = (RowOfQuery(q) - 1) * NumQuery + k + 1
  BY <1>2, QueryAt
<1>6. DOMAIN V = 1..(n * NumQuery)
  OBVIOUS
<1>7. ASSUME NEW i \in Rows, NEW k \in 0..(NumQuery - 1)
      PROVE  End(i) + k \in Nat /\ SlotIn(i, End(i) + k) # Stale
  <2>1. End(i) \in Nat /\ batch[i].req \in Reqs
    BY RowType DEF Sizes
  <2>2. End(i) + k \in Nat
    BY <1>1, <2>1
  <2> QED
    BY <2>1, <2>2, SlotCell, CellsApart
<1>8. \A q \in DOMAIN V : qslot[g][q] # Stale
  <2> SUFFICES ASSUME NEW q \in 1..(n * NumQuery) PROVE qslot[g][q] # Stale
    BY <1>6
  <2>1. Pad # Stale
    BY CellsApart
  <2> QED
    BY <1>4, <1>5, <1>7, <2>1 DEF IsQuery
<1>9. ASSUME NEW c \in Cells,
             \A i \in Rows, k \in 0..(NumQuery - 1) : SlotIn(i, End(i) + k) # c
      PROVE  \A q \in DOMAIN V : qslot[g][q] # c
  <2> SUFFICES ASSUME NEW q \in 1..(n * NumQuery) PROVE qslot[g][q] # c
    BY <1>6
  <2>1. Pad # c
    BY CellsApart
  <2> QED
    BY <1>4, <1>5, <1>9, <2>1 DEF IsQuery
<1>10. ASSUME NEW i \in Rows, Fits(End(i)), NEW p \in End(i)..(End(i) + NumQuery - 1)
       PROVE  /\ p \in 0..(cfg.maxLen - 1)
              /\ SlotIn(i, p) = Cell(batch[i].req, p)
              /\ \E q \in DOMAIN V :
                    /\ qslot[g][q] = Cell(batch[i].req, p)
                    /\ V[q] = <<"query", batch[i].req, p>>
                    /\ \A s \in DOMAIN V : qslot[g][s] = Cell(batch[i].req, p) => s = q
  <2> DEFINE r == batch[i].req
             c == Cell(r, p)
             k == p - End(i)
             q == (i - 1) * NumQuery + k + 1
  <2>1. End(i) \in 1..cfg.maxLen /\ r \in Reqs /\ End(i) = req[r].len /\ cfg.maxLen \in Nat
    BY RowType DEF Sizes
  <2> DEFINE e == End(i)
             N == NumQuery
             m == cfg.maxLen
  <2>2a. e \in 1..m /\ m \in Nat /\ N \in Nat \ {0} /\ p \in e..(e + N - 1) /\ e + N <= m
    BY <1>1, <1>10, <2>1 DEF Fits
  <2>2b. k = p - e
    OBVIOUS
  <2> HIDE DEF e, N, m, k
  <2>2c. p \in 0..(m - 1) /\ k \in 0..(N - 1) /\ p = e + k
    BY <2>2a, <2>2b
  <2>2. p \in 0..(cfg.maxLen - 1) /\ k \in 0..(NumQuery - 1) /\ p = End(i) + k
    BY <2>2c DEF e, N, m
  <2>3. ~ Evicted(r, p)
    <3> DEFINE B == cfg.block
               d == p \div B
    <3>1. B \in Nat \ {0} /\ cfg.window \in Nat
      BY DEF Sizes
    <3> HIDE DEF B
    <3>1a. p \in Int
      BY <2>1, <2>2
    <3>2. p < B * d + B /\ d \in Int
      BY <3>1, <3>1a, Division
    <3> HIDE DEF d
    <3>3. (d + 1) * B = B * d + B /\ B * d \in Int
      BY <3>1, <3>2
    <3> DEFINE y == B * d
               x == (d + 1) * B
    <3>4. p < y + B /\ y \in Int /\ x = y + B
      BY <3>2, <3>3
    <3> HIDE DEF y, x
    <3>5. ASSUME cfg.window > 0, x <= req[r].len - cfg.window + 1 PROVE FALSE
      BY <2>1, <2>2, <3>1, <3>4, <3>5
    <3> QED
      BY <3>5 DEF x, d, B, Evicted
  <2>4. SlotIn(i, p) = c
    BY <2>2, <2>3, SlotCell
  <2>5. q \in 1..(n * NumQuery) /\ RowOfQuery(q) = i /\ QueryPos(q) = p
    BY <1>2, <2>2, QueryAt
  <2> HIDE DEF q
  <2>6. IsQuery(q)
    BY <2>5 DEF IsQuery
  <2>7. qslot[g][q] = c
    BY <1>4, <2>4, <2>5, <2>6
  <2>8. V[q] = <<"query", r, p>>
    <3>1. q \in 1..(MaxReqs * NumQuery)
      BY <1>3, <2>5
    <3>2. qpos[q] = Least(p, cfg.maxLen - 1)
      BY <2>5, <2>6, <3>1 DEF Buffers, Prepared
    <3>3. qpos[q] = p
      BY <2>1, <2>2, <3>2 DEF Least
    <3>4. QueryValue(q) = <<"query", r, p>>
      BY <2>5, <2>6, <3>3 DEF QueryValue
    <3> QED
      BY <2>5, <3>4
  <2>9. ASSUME NEW s \in 1..(n * NumQuery), qslot[g][s] = c PROVE s = q
    <3>1. c \in Cells /\ c # Pad
      BY <2>1, <2>2, CellOf, CellsApart
    <3>2. IsQuery(s) /\ SlotIn(RowOfQuery(s), QueryPos(s)) = c
      BY <1>4, <2>9, <3>1
    <3> DEFINE j == RowOfQuery(s)
    <3>3a. \E h \in 0..(NumQuery - 1) : QueryPos(s) = End(j) + h /\ s = (j - 1) * NumQuery + h + 1
      BY <1>5, <3>2
    <3>3b. j \in Rows
      BY <3>2 DEF IsQuery
    <3> HIDE DEF j
    <3>3. PICK h \in 0..(NumQuery - 1) : QueryPos(s) = End(j) + h /\ s = (j - 1) * NumQuery + h + 1
      BY <3>3a
    <3>4. SlotIn(j, End(j) + h) = c
      BY <3>2, <3>3 DEF j
    <3>5. End(j) + h \in Nat /\ batch[j].req \in Reqs
      BY <1>7, <3>3b, RowType
    <3>6. \E b, o : c = <<<<batch[j].req, b>>, o>>
      BY <3>1, <3>3b, <3>4, <3>5, SlotCell
    <3>7. batch[j].req = r
      BY <3>6 DEF Cell
    <3>8. j = i
      BY <3>3b, <3>7 DEF Batch
    <3>9a. h \in 0..(N - 1)
      BY <3>3 DEF N
    <3>9b. e + h \in 0..(m - 1)
      BY <2>2a, <3>9a
    <3>9. End(i) + h \in 0..(cfg.maxLen - 1)
      BY <3>9b DEF e, m
    <3>10. Cell(r, End(i) + h) = c
      BY <3>1, <3>4, <3>8, <3>9, SlotCell
    <3> DEFINE x == End(i) + h
    <3>11. x \in Nat /\ p \in Nat
      BY <2>2, <3>9
    <3>12. x = p
      BY <2>1, <3>10, <3>11, CellOf
    <3>13. h = k
      BY <2>1, <2>2, <3>12
    <3> HIDE DEF k
    <3> QED
      BY <3>3, <3>8, <3>13 DEF q
  <2> HIDE DEF V
  <2> QED
    BY <1>6, <2>2, <2>4, <2>5, <2>7, <2>8, <2>9
<1>11. /\ DOMAIN W = Cells
       /\ \A c \in Cells : (\A q \in DOMAIN V : qslot[g][q] # c) => W[c] = kv[g][c]
       /\ \A c \in Cells, q \in DOMAIN V :
             qslot[g][q] = c /\ (\A s \in DOMAIN V : qslot[g][s] = c => s = q) => W[c] = V[q]
  <2> HIDE DEF V
  <2> QED
    BY <1>8, WrittenIs
<1>12. ASSUME NEW i \in Rows, Fits(End(i)), NEW p \in End(i)..(End(i) + NumQuery - 1)
       PROVE  W[Cell(batch[i].req, p)] = <<"query", batch[i].req, p>>
  <2>1. batch[i].req \in Reqs /\ p \in 0..(cfg.maxLen - 1)
    BY <1>10, <1>12, RowType
  <2>2. Cell(batch[i].req, p) \in Cells
    BY <2>1, CellOf
  <2> HIDE DEF W, V
  <2> QED
    BY <1>10, <1>11, <1>12, <2>2
<1> HIDE DEF W, V
<1>13. DOMAIN W = Cells
       /\ \A c \in Cells : (\A i \in Rows, k \in 0..(NumQuery - 1) : SlotIn(i, End(i) + k) # c)
                              => W[c] = kv[g][c]
  BY <1>9, <1>11
<1> QED
  BY <1>12, <1>13 DEF W, V, n

-----------------------------------------------------------------------------
(* What attention reads *)

\* The shifted sequence: which multiple of the block size it starts at.
LEMMA Shifting ==
  ASSUME NEW B \in Nat \ {0}, NEW w \in Nat, NEW e \in Nat, NEW n \in Nat \ {0}, NEW c \in Nat,
         c % B = 0, c <= e
  PROVE  LET s == c \div B
             l == e + n - c
             d == IF w > 0 THEN Most(l - w, 0) \div B ELSE 0
             k == l - d * B
         IN /\ s \in Nat /\ s * B = c /\ d \in Nat /\ k \in 1..l
            /\ B * (s + d) \in c..(e + n) /\ B * (s + d) = e + n - k
            /\ B * (s + d) <= Most(c, IF w > 0 THEN e + n - w ELSE 0)
            /\ w > 0 => k <= w + B - 1 /\ e - w + 1 < B * (s + d) + B
<1> DEFINE s == c \div B
           l == e + n - c
           x == Most(l - w, 0)
           d == IF w > 0 THEN x \div B ELSE 0
           k == l - d * B
<1>1. s \in Int /\ B * s <= c /\ c < B * s + B /\ c = B * s + (c % B)
  BY Division, Remainder
<1> HIDE DEF s
<1>2. B * s = c /\ s * B = c /\ s \in Nat
  <2>1. B * s = c
    BY <1>1
  <2>2. B * 0 < B * s + B
    BY <2>1
  <2> QED
    BY <1>1, <2>1, <2>2, Ordered
<1>3. x \in Nat /\ l \in Nat \ {0} /\ l <= e + n
  BY DEF Most
<1> HIDE DEF x
<1>4. w > 0 => d \in Int /\ B * d <= x /\ x < B * d + B
  BY <1>3, Division
<1>5. d \in Nat /\ (w > 0 => B * d <= x /\ x < B * d + B) /\ (w = 0 => d = 0)
  <2>1. CASE w > 0
    <3>1. d \in Int /\ B * d <= x /\ x < B * d + B
      BY <1>4, <2>1
    <3> HIDE DEF d
    <3>2. B * 0 < B * d + B
      BY <1>3, <3>1
    <3> QED
      BY <2>1, <3>1, <3>2, Ordered
  <2>2. CASE ~ (w > 0)
    BY <2>2
  <2> QED
    BY <2>1, <2>2
<1> HIDE DEF d
<1>6. B * (s + d) = B * s + B * d /\ d * B = B * d /\ B * d \in Nat
  BY <1>2, <1>5
<1> DEFINE a == B * d
           b == B * (s + d)
           y == d * B
<1>7. /\ a \in Nat /\ b = c + a /\ y = a /\ k = l - y
      /\ w > 0 => a <= x /\ x < a + B
  BY <1>2, <1>5, <1>6
<1>8. w = 0 => a = 0
  BY <1>5
<1>9. x = IF l - w > 0 THEN l - w ELSE 0
  BY DEF x, Most
<1>10. l = e + n - c
  OBVIOUS
<1> HIDE DEF a, b, y, l, k
<1>11. /\ k \in 1..l /\ b \in c..(e + n) /\ b = e + n - k
       /\ b <= Most(c, IF w > 0 THEN e + n - w ELSE 0)
       /\ w > 0 => k <= w + B - 1 /\ e - w + 1 < b + B
  <2>1. CASE w = 0
    BY <1>3, <1>7, <1>8, <1>10, <2>1 DEF Most
  <2>2. CASE w > 0
    BY <1>3, <1>7, <1>9, <1>10, <2>2 DEF Most
  <2> QED
    BY <2>1, <2>2
<1> QED
  BY <1>2, <1>5, <1>11 DEF s, d, k, b, l, x, y

LEMMA LengthIs ==
  ASSUME Sizes, Requests, Batch, ~ Unaligned, NEW i \in Rows
  PROVE  LET c == Cached(batch[i].req)
             past == End(i) + NumQuery
             start == cfg.block * Dropped(i)
         IN /\ WholeCached(batch[i].req) = c /\ c \in Nat
            /\ Dropped(i) \in Nat /\ DroppedBlocks(i) \in Nat
            /\ KeptLen(i) \in 1..past /\ start = past - KeptLen(i)
            /\ start \in c..past
            /\ start <= Most(c, IF cfg.window > 0 THEN past - cfg.window ELSE 0)
            /\ cfg.window > 0 => /\ KeptLen(i) <= cfg.window + cfg.block - 1
                                 /\ End(i) - cfg.window + 1 < start + cfg.block
<1> DEFINE c == Cached(batch[i].req)
           B == cfg.block
           w == cfg.window
           e == End(i)
           n == NumQuery
           s == c \div B
           l == e + n - c
           d == IF w > 0 THEN Most(l - w, 0) \div B ELSE 0
           k == l - d * B
<1>1. B \in Nat \ {0} /\ w \in Nat /\ n \in Nat \ {0} /\ B \in cfg.sizes
  BY DEF Sizes
<1>2. e \in Nat /\ c \in Nat /\ c <= e
  <2>1. c \in 0..batch[i].first /\ batch[i].first \in Nat /\ e \in 1..cfg.maxLen /\ batch[i].first < e
        /\ cfg.maxLen \in Nat
    BY RowType DEF Sizes
  <2> HIDE DEF c, e
  <2> QED
    BY <2>1
<1>3. c % B = 0
  BY <1>1 DEF Unaligned
<1>4. /\ s \in Nat /\ s * B = c /\ d \in Nat /\ k \in 1..l
      /\ B * (s + d) \in c..(e + n) /\ B * (s + d) = e + n - k
      /\ B * (s + d) <= Most(c, IF w > 0 THEN e + n - w ELSE 0)
      /\ w > 0 => k <= w + B - 1 /\ e - w + 1 < B * (s + d) + B
  <2> HIDE DEF B, w, e, n, c
  <2> QED
    BY <1>1, <1>2, <1>3, Shifting
<1>5. WholeCached(batch[i].req) = s * B
  BY DEF WholeCached
<1>6. DraftLen(i) = l
  <2>1. DraftLen(i) = Most(e + n - s * B, n)
    BY <1>5 DEF DraftLen
  <2>2. DraftLen(i) = Most(l, n)
    BY <1>4, <2>1
  <2> HIDE DEF e, n, c, s, B
  <2> QED
    BY <1>1, <1>2, <2>2 DEF Most
<1>7. DroppedBlocks(i) = d /\ KeptLen(i) = k /\ Dropped(i) = s + d
  <2>1. DroppedBlocks(i) = d
    BY <1>6 DEF DroppedBlocks
  <2> HIDE DEF d, l
  <2> QED
    BY <1>6, <2>1 DEF KeptLen, Dropped, CachedShift
<1>8. WholeCached(batch[i].req) = c
  BY <1>4, <1>5
<1>9. k \in 1..(e + n)
  <2> DEFINE z == k
  <2>1. z \in 1..l
    BY <1>4
  <2> HIDE DEF z, c, e, n
  <2>2. z \in 1..(e + n)
    BY <1>1, <1>2, <2>1
  <2> QED
    BY <2>2 DEF z
<1>10. s + d \in Nat
  BY <1>4
<1> DEFINE st == B * (s + d)
<1>11. st = cfg.block * Dropped(i)
  BY <1>7
<1> HIDE DEF k, d, s, st
<1>12. /\ st \in c..(e + n) /\ st = e + n - k
       /\ st <= Most(c, IF w > 0 THEN e + n - w ELSE 0)
       /\ w > 0 => k <= w + B - 1 /\ e - w + 1 < st + B
  BY <1>4 DEF st
<1> DEFINE past == e + n
           start == cfg.block * Dropped(i)
<1>13. /\ start \in c..past /\ start = past - KeptLen(i) /\ KeptLen(i) \in 1..past
       /\ start <= Most(c, IF w > 0 THEN past - w ELSE 0)
       /\ w > 0 => KeptLen(i) <= w + B - 1 /\ e - w + 1 < start + B
  <2> DEFINE K == KeptLen(i)
             S == start
             P == past
  <2>1. K = k /\ S = st /\ P = e + n
    BY <1>7, <1>11, Zenon
  <2> HIDE DEF c, B, w, e, n, K, S, P
  <2>2. /\ S \in c..P /\ S = P - K /\ K \in 1..P
        /\ S <= Most(c, IF w > 0 THEN P - w ELSE 0)
        /\ w > 0 => K <= w + B - 1 /\ e - w + 1 < S + B
    BY <1>1, <1>2, <1>9, <1>12, <2>1
  <2> QED
    BY <2>2, Zenon DEF K, S, P
<1>14. Dropped(i) \in Nat /\ DroppedBlocks(i) \in Nat
  <2>1. d \in Nat
    BY <1>4 DEF d, s, k
  <2> QED
    BY <1>7, <1>10, <2>1
<1> HIDE DEF start, past
<1> QED
  BY <1>2, <1>8, <1>13, <1>14 DEF start, past

\* The j-th position of the shifted sequence, through the shifted table.
LEMMA ReadsAt ==
  ASSUME Sizes, Requests, Batch, ~ Unaligned, NEW i \in Rows, Fits(End(i)),
         NEW j \in 0..(KeptLen(i) - 1)
  PROVE  LET r == batch[i].req
             p == cfg.block * Dropped(i) + j
         IN /\ p \in Cached(r)..(End(i) + NumQuery - 1) /\ p \in 0..(cfg.maxLen - 1)
            /\ p = End(i) + NumQuery - KeptLen(i) + j
            /\ ~ Evicted(r, p)
            /\ <<Kept(i)[j \div cfg.block], j % cfg.block>> = Cell(r, p)
<1> DEFINE r == batch[i].req
           B == cfg.block
           u == Dropped(i)
           st == B * u
           p == st + j
           past == End(i) + NumQuery
           k == KeptLen(i)
<1>1. /\ B \in Nat \ {0} /\ u \in Nat /\ k \in 1..past /\ st = past - k /\ past \in Nat
      /\ st \in Cached(r)..past /\ Cached(r) \in Nat /\ past <= cfg.maxLen /\ cfg.maxLen \in Nat
      /\ cfg.window > 0 => End(i) - cfg.window + 1 < st + B
      /\ End(i) \in Nat /\ r \in Reqs /\ cfg.window \in Nat /\ Stride \in Nat
      /\ End(i) = req[r].len
  <2>1. /\ B \in Nat \ {0} /\ cfg.maxLen \in Nat /\ cfg.window \in Nat /\ Stride \in Nat
        /\ NumQuery \in Nat /\ past <= cfg.maxLen
    BY DEF Sizes, Fits
  <2>2. End(i) \in 1..cfg.maxLen /\ r \in Reqs /\ End(i) = req[r].len
    BY RowType
  <2>3. past \in Nat /\ End(i) \in Nat
    BY <2>1, <2>2
  <2>4. /\ u \in Nat /\ k \in 1..past /\ st = past - k
        /\ st \in Cached(r)..past /\ Cached(r) \in Nat
        /\ cfg.window > 0 => End(i) - cfg.window + 1 < st + B
    BY LengthIs, Zenon
  <2> QED
    BY <2>1, <2>2, <2>3, <2>4
<1> HIDE DEF B, u, k, past
<1>2. st \in Nat
  BY <1>1
<1> DEFINE z == st
<1>3. z \in Nat /\ z = past - k /\ z \in Cached(r)..past /\ (cfg.window > 0 => End(i) - cfg.window + 1 < z + B)
  BY <1>1, <1>2
<1>4. j \in 0..(k - 1)
  BY DEF k
<1> HIDE DEF z
<1>5. z + j \in Cached(r)..(past - 1) /\ z + j \in 0..(cfg.maxLen - 1) /\ z + j = past - k + j /\ j \in Nat
  <2> DEFINE cr == Cached(r)
             m == cfg.maxLen
  <2>1. cr \in Nat /\ m \in Nat /\ past <= m /\ z \in cr..past /\ past \in Nat /\ k \in 1..past
    BY <1>1, <1>3
  <2> HIDE DEF cr, m
  <2>2. z + j \in cr..(past - 1) /\ z + j \in 0..(m - 1) /\ z + j = past - k + j /\ j \in Nat
    BY <1>3, <1>4, <2>1
  <2> QED
    BY <2>2 DEF cr, m
<1>6. p \div B = u + j \div B /\ p % B = j % B
  BY <1>1, <1>5, Multiples
<1> DEFINE v == j \div B
           d == p \div B
<1>7. v \in Int /\ B * v <= j /\ j < B * v + B
  BY <1>1, <1>5, Division
<1>8. d \in Int /\ d = u + v
  BY <1>1, <1>6, <1>7
<1>9. v \in 0..(CeilDiv(k, B) - 1) /\ CeilDiv(k, B) \in Nat
  <2>1. k \in Nat \ {0}
    BY <1>1
  <2> QED
    BY <1>1, <1>4, <2>1, Positions
<1>10. p = z + j
  BY DEF z
<1>11. d \in 0..(Stride - 1)
  <2>1. p \in 0..(cfg.maxLen - 1)
    BY <1>5, <1>10
  <2> HIDE DEF p
  <2> QED
    BY <1>1, <2>1, CellOf DEF B
<1> HIDE DEF v, d
<1>12. ~ Evicted(r, p)
  <2>1. (d + 1) * B = B * d + B /\ B * d = B * u + B * v /\ B * u \in Int /\ B * v \in Int
    BY <1>1, <1>7, <1>8
  <2>2. 0 <= B * v
    <3>1. 0 <= v
      BY <1>9
    <3>2. B * 0 <= B * v
      BY <1>1, <1>7, <3>1, Ordered
    <3> QED
      BY <1>1, <3>2
  <2> DEFINE a == (d + 1) * B
             b == B * v
             y == B * d
  <2>3. a = y + B /\ y = z + b /\ b \in Int /\ 0 <= b
    BY <2>1, <2>2 DEF z
  <2> HIDE DEF a, b, y
  <2>4. ASSUME cfg.window > 0 PROVE ~ (a <= req[r].len - cfg.window + 1)
    BY <1>1, <1>3, <2>3, <2>4
  <2>5. Evicted(r, p) <=> cfg.window > 0 /\ a <= req[r].len - cfg.window + 1
    BY DEF Evicted, a, d, B
  <2> QED
    BY <2>4, <2>5
<1>13. Kept(i)[v] = <<r, d>>
  <2>1. v \in 0..(Stride - 1) /\ v < Stride - u
    BY <1>1, <1>8, <1>9, <1>11
  <2>2. v < Least(Stride - u, CeilDiv(k, B))
    BY <1>9, <2>1 DEF Least
  <2>3. Kept(i)[v] = Gathered(i)[v + u]
    BY <2>1, <2>2 DEF Kept, u, k, B
  <2>4. v + u = d
    BY <1>1, <1>7, <1>8
  <2>5. Gathered(i)[d] = IF Evicted(r, p) THEN Null ELSE <<r, d>>
    <3>1. Gathered(i)[d] = IF cfg.window > 0 /\ (d + 1) * cfg.block <= req[r].len - cfg.window + 1
                           THEN Null ELSE <<r, d>>
      BY <1>1, <1>11 DEF Gathered, BlockRow
    <3>2. Evicted(r, p) <=> cfg.window > 0 /\ (d + 1) * cfg.block <= req[r].len - cfg.window + 1
      BY DEF Evicted, d, B
    <3> QED
      BY <3>1, <3>2
  <2> QED
    BY <1>12, <2>3, <2>4, <2>5
<1>14. <<Kept(i)[j \div cfg.block], j % cfg.block>> = Cell(r, p)
  <2>1. Kept(i)[j \div cfg.block] = <<r, p \div cfg.block>>
    BY <1>13, Zenon DEF v, d, B
  <2>2. j % cfg.block = p % cfg.block
    BY <1>6, Zenon DEF B
  <2> QED
    BY <2>1, <2>2, Zenon DEF Cell
<1>15. p \in Cached(r)..(past - 1) /\ p \in 0..(cfg.maxLen - 1) /\ p = past - k + j
  BY <1>5, <1>10
<1>16. p = cfg.block * Dropped(i) + j
  BY DEF B, u
<1> HIDE DEF p, st
<1>17. p \in Cached(r)..(End(i) + NumQuery - 1) /\ p = End(i) + NumQuery - KeptLen(i) + j
  <2> DEFINE e == End(i)
             n == NumQuery
             x == Cached(r)
             K == KeptLen(i)
  <2>1. e \in Nat /\ n \in Nat /\ x \in Nat /\ K \in 1..(e + n) /\ p \in x..((e + n) - 1)
        /\ p = (e + n) - K + j /\ j \in Nat
    BY <1>1, <1>5, <1>15 DEF past, k, Sizes
  <2> HIDE DEF e, n, x, K
  <2>2. p \in x..(e + n - 1) /\ p = e + n - K + j
    BY <2>1
  <2> QED
    BY <2>2, Zenon DEF e, n, x, K
<1> QED
  BY <1>12, <1>14, <1>15, <1>16, <1>17

\* What a position that attention reads holds.
LEMMA HoldsAt ==
  ASSUME Sizes, Requests, Batch, pc = "attend", NEW i \in Rows, Fits(End(i)),
         NEW p \in Cached(batch[i].req)..(End(i) + NumQuery - 1)
  PROVE  Holds(batch[i].req, p) =
           IF p >= End(i) THEN <<"query", batch[i].req, p>>
           ELSE IF p \in req[batch[i].req].missed THEN Junk
           ELSE <<"context", batch[i].req, p>>
<1> DEFINE r == batch[i].req
<1>1. /\ r \in Reqs /\ Live(r) /\ End(i) = req[r].len /\ End(i) \in Nat
      /\ Cached(r) \in Nat /\ InBatch(r)
  <2>1. /\ r \in Reqs /\ Live(r) /\ End(i) = req[r].len /\ End(i) \in 1..cfg.maxLen
        /\ Cached(r) \in 0..batch[i].first /\ batch[i].first \in Nat
    BY RowType
  <2>2. InBatch(r)
    BY DEF InBatch
  <2>3. cfg.maxLen \in Nat
    BY DEF Sizes
  <2> HIDE DEF r
  <2> QED
    BY <2>1, <2>2, <2>3
<1>2. \A x \in req[r].missed : x < End(i)
  <2>1. req[r].missed \subseteq Cached(r)..(req[r].len - 1)
    BY <1>1 DEF Requests
  <2> QED
    BY <1>1, <2>1
<1>3. Stored(r, p) <=> p < End(i)
  BY <1>1 DEF Stored
<1>4. Drafted(r, p)
  <2>1. NumQuery \in Nat
    BY DEF Sizes
  <2> DEFINE e == End(i)
             n == NumQuery
             x == Cached(r)
  <2>2. e \in Nat /\ n \in Nat /\ x \in Nat /\ p \in x..(e + n - 1)
    BY <1>1, <2>1
  <2> HIDE DEF e, n, x
  <2>3. p < e + n
    BY <2>2
  <2> QED
    BY <1>1, <2>3 DEF Drafted, e, n
<1>5. p \in Nat
  <2>1. NumQuery \in Nat
    BY DEF Sizes
  <2> DEFINE e == End(i)
             n == NumQuery
             x == Cached(r)
  <2>2. e \in Nat /\ n \in Nat /\ x \in Nat /\ p \in x..(e + n - 1)
    BY <1>1, <2>1
  <2> HIDE DEF e, n, x
  <2> QED
    BY <2>2
<1> HIDE DEF r
<1>6. CASE p >= End(i)
  <2>1. p \notin req[r].missed /\ ~ Stored(r, p)
    BY <1>1, <1>2, <1>3, <1>5, <1>6
  <2> QED
    BY <1>4, <1>6, <2>1 DEF Holds, r
<1>7. CASE ~ (p >= End(i))
  <2>1. Stored(r, p)
    BY <1>1, <1>3, <1>5, <1>7
  <2> QED
    BY <1>7, <2>1 DEF Holds, r
<1> QED
  BY <1>6, <1>7

LEMMA ReadsContext ==
  ASSUME IInv
  PROVE  DraftReadsItsContext
<1>1. Sizes /\ Requests /\ Batch /\ Tables /\ Cache
  BY SizesHold DEF IInv
<1> SUFFICES ASSUME pc = "attend", NEW i \in Rows, NEW g \in Groups, Fits(End(i))
             PROVE  LET r == batch[i].req
                        past == End(i) + NumQuery
                        start == past - seqLens[i]
                        keeps == IF cfg.window > 0 THEN past - cfg.window ELSE 0
                    IN /\ start >= WholeCached(r)
                       /\ start <= Most(WholeCached(r), keeps)
                       /\ \A j \in 0..(seqLens[i] - 1) :
                            Visible(g, i)[j] =
                              LET p == start + j
                              IN IF p >= End(i) THEN <<"query", r, p>>
                                 ELSE IF p \in req[r].missed THEN Junk
                                 ELSE <<"context", r, p>>
  BY DEF DraftReadsItsContext
<1> DEFINE r == batch[i].req
           past == End(i) + NumQuery
           keeps == IF cfg.window > 0 THEN past - cfg.window ELSE 0
           st == cfg.block * Dropped(i)
<1>2. seqLens[i] = KeptLen(i) /\ table[g][i] = Kept(i) /\ ~ Unaligned
  BY <1>1 DEF Tables, Prepared, Shifted
<1>3. /\ WholeCached(r) = Cached(r) /\ Cached(r) \in Nat /\ KeptLen(i) \in 1..past
      /\ st = past - KeptLen(i) /\ st \in Cached(r)..past
      /\ st <= Most(Cached(r), keeps)
  BY <1>1, <1>2, LengthIs, Zenon
<1>4. ASSUME NEW j \in 0..(KeptLen(i) - 1)
      PROVE  LET p == past - KeptLen(i) + j
             IN Visible(g, i)[j] = IF p >= End(i) THEN <<"query", r, p>>
                                   ELSE IF p \in req[r].missed THEN Junk
                                   ELSE <<"context", r, p>>
  <2> DEFINE q == cfg.block * Dropped(i) + j
             p == past - KeptLen(i) + j
  <2>1. /\ q \in Cached(r)..(End(i) + NumQuery - 1) /\ q \in 0..(cfg.maxLen - 1)
        /\ q = End(i) + NumQuery - KeptLen(i) + j
        /\ ~ Evicted(r, q)
        /\ <<Kept(i)[j \div cfg.block], j % cfg.block>> = Cell(r, q)
    BY <1>1, <1>2, <1>4, ReadsAt, Zenon
  <2>2. q = p
    <3> DEFINE e == End(i)
               n == NumQuery
               k == KeptLen(i)
    <3>1. q = e + n - k + j /\ p = (e + n) - k + j
      BY <2>1, Zenon
    <3>2. e \in 1..cfg.maxLen /\ k \in 1..(e + n)
      BY <1>1, <1>3, RowType, Zenon
    <3>3. n \in Nat /\ cfg.maxLen \in Nat
      BY <1>1 DEF Sizes
    <3> HIDE DEF e, n, k, p, q
    <3>4. e \in Nat
      BY <3>2, <3>3
    <3>5. k \in Int
      BY <3>2, <3>3, <3>4
    <3>6. j \in Int
      <4>1. KeptLen(i) \in Int
        BY <3>5 DEF k
      <4> QED
        BY <4>1
    <3> QED
      BY <3>1, <3>3, <3>4, <3>5, <3>6
  <2>3. Visible(g, i)[j] = kv[g][Cell(r, q)]
    <3>1. j \in 0..(seqLens[i] - 1)
      BY <1>2
    <3> QED
      BY <1>2, <2>1, <3>1 DEF Visible
  <2>4. r \in Reqs /\ Live(r) /\ End(i) = req[r].len /\ Cached(r) \in Nat
    BY <1>1, <1>3, RowType
  <2>5. q \in Cached(r)..(cfg.maxLen - 1)
    <3> HIDE DEF q
    <3>1. cfg.maxLen \in Nat
      BY <1>1 DEF Sizes
    <3> DEFINE e == End(i) + NumQuery
               m == cfg.maxLen
               x == Cached(r)
    <3>2. m \in Nat /\ x \in Nat /\ q \in 0..(m - 1) /\ q \in x..(End(i) + NumQuery - 1)
      BY <2>1, <2>4, <3>1
    <3> HIDE DEF m, x
    <3>3. q \in x..(m - 1)
      BY <3>2
    <3> QED
      BY <3>3 DEF m, x
  <2> HIDE DEF q
  <2>6. kv[g][Cell(r, q)] = Holds(r, q)
    BY <1>1, <2>1, <2>4, <2>5, Zenon DEF Cache
  <2>7. Holds(r, q) = IF q >= End(i) THEN <<"query", r, q>>
                      ELSE IF q \in req[r].missed THEN Junk
                      ELSE <<"context", r, q>>
    BY <1>1, <2>1, HoldsAt
  <2> QED
    BY <2>2, <2>3, <2>6, <2>7, Zenon
<1>5. past - KeptLen(i) >= WholeCached(r) /\ past - KeptLen(i) <= Most(WholeCached(r), keeps)
  <2> DEFINE x == Cached(r)
             y == past
  <2> HIDE DEF st, y, x
  <2>1. st >= x
    BY <1>3 DEF x
  <2> QED
    BY <1>3, <2>1, Zenon DEF x
<1> HIDE DEF past, keeps, r
<1>6. /\ past - seqLens[i] >= WholeCached(r)
      /\ past - seqLens[i] <= Most(WholeCached(r), keeps)
      /\ \A j \in 0..(seqLens[i] - 1) :
           Visible(g, i)[j] =
             LET p == past - seqLens[i] + j
             IN IF p >= End(i) THEN <<"query", r, p>>
                ELSE IF p \in req[r].missed THEN Junk
                ELSE <<"context", r, p>>
  BY <1>2, <1>4, <1>5, Zenon
<1> QED
  BY <1>6, Zenon DEF past, keeps, r

LEMMA KeepsTheContext ==
  ASSUME IInv
  PROVE  ContextKept
<1>1. Sizes /\ Requests /\ Cache
  BY SizesHold DEF IInv
<1> SUFFICES ASSUME pc = "runner", NEW g \in Groups, NEW r \in Reqs, Live(r),
                    NEW p \in Cached(r)..(req[r].len - 1),
                    ~ (cfg.window > 0 /\ p < req[r].len - cfg.window + 1),
                    Fits(req[r].len), p \notin req[r].missed
             PROVE  kv[g][<<<<r, p \div cfg.block>>, p % cfg.block>>] = <<"context", r, p>>
  BY <1>1 DEF ContextKept, Cache
<1> DEFINE l == req[r].len
           m == cfg.maxLen
           n == NumQuery
           w == cfg.window
           B == cfg.block
           d == p \div B
<1>2. l \in 0..m /\ m \in Nat /\ n \in Nat /\ l + n <= m /\ w \in Nat /\ B \in Nat \ {0}
      /\ Cached(r) \in Nat
  <2>1. req[r] \in [prompt : 1..cfg.maxLen, cached : Nat, len : 0..cfg.maxLen, missed : SUBSET Nat]
    BY <1>1 DEF Requests
  <2> QED
    BY <1>1, <2>1 DEF Sizes, Fits, Cached
<1>3. p \in Cached(r)..(l - 1) /\ ~ (w > 0 /\ p < l - w + 1)
  OBVIOUS
<1>4. Evicted(r, p) <=> w > 0 /\ (d + 1) * B <= l - w + 1
  BY DEF Evicted
<1> HIDE DEF l, m, n, w, B
<1>5. p \in 0..(m - 1) /\ p \in Int /\ p < l
  BY <1>2, <1>3
<1>6. d \in Int /\ p < B * d + B
  BY <1>2, <1>5, Division
<1> HIDE DEF d
<1>7. (d + 1) * B = B * d + B /\ B * d \in Int
  BY <1>2, <1>6
<1> DEFINE x == B * d
           y == (d + 1) * B
<1>8. x \in Int /\ y = x + B /\ p < x + B
  BY <1>6, <1>7
<1> HIDE DEF x, y
<1>9. ~ (w > 0 /\ y <= l - w + 1)
  BY <1>2, <1>3, <1>5, <1>8
<1>10. ~ Evicted(r, p)
  BY <1>4, <1>9 DEF y
<1>11. p \in Cached(r)..(cfg.maxLen - 1)
  BY <1>2, <1>3, <1>5 DEF m
<1>12. kv[g][Cell(r, p)] = Holds(r, p)
  BY <1>1, <1>10, <1>11, Zenon DEF Cache
<1>13. Stored(r, p)
  BY <1>5 DEF Stored, l
<1> QED
  BY <1>12, <1>13, Zenon DEF Holds, Cell

LEMMA ProposesItsOwn ==
  ASSUME IInv
  PROVE  ProposalsAreOwn
<1> SUFFICES ASSUME pc = "runner", NEW r \in Reqs, Live(r), proposal[r] \notin {None, <<>>},
                    Fits(req[r].len)
             PROVE  Own(r)
  BY DEF ProposalsAreOwn, Own
<1>1. batch = <<>>
  BY DEF IInv, Batch
<1>2. ~ InBatch(r)
  BY <1>1 DEF InBatch, Rows
<1> QED
  BY <1>2 DEF IInv, Proposals

\* The greatest member of a bounded set.
LEMMA MaxIn ==
  ASSUME NEW m \in Nat, NEW S \in SUBSET (0..m), S # {}
  PROVE  Max(S) \in S /\ \A k \in S : k <= Max(S)
<1> DEFINE T == {k \in Nat : m - k \in S}
           x == m - Min(T)
<1>1. T \in SUBSET Nat /\ T # {}
  <2>1. PICK k \in S : TRUE
    OBVIOUS
  <2>2. k \in 0..m
    BY <2>1
  <2>3. m - k \in Nat /\ m - (m - k) = k
    BY <2>2
  <2>4. m - k \in T
    BY <2>1, <2>3
  <2> QED
    BY <2>4
<1>2. Min(T) \in T /\ \A k \in T : Min(T) <= k
  BY <1>1, MinIn
<1>3. ASSUME NEW k \in S PROVE k <= x
  <2>1. k \in 0..m
    OBVIOUS
  <2>2. m - k \in Nat /\ m - (m - k) = k
    BY <2>1
  <2>3. m - k \in T
    BY <2>2
  <2>4. Min(T) <= m - k /\ Min(T) \in Nat
    BY <1>2, <2>3
  <2> DEFINE z == Min(T)
  <2> HIDE DEF z, T
  <2>5. z <= m - k /\ z \in Nat /\ x = m - z
    BY <2>4 DEF z
  <2> HIDE DEF x
  <2> QED
    BY <2>1, <2>5
<1>4. x \in S
  BY <1>2
<1>5. \E y \in S : \A k \in S : y >= k
  <2>1. \A k \in S : k \in Int
    OBVIOUS
  <2> HIDE DEF x
  <2>2. x \in 0..m
    BY <1>4
  <2> QED
    BY <1>3, <1>4, <2>1, <2>2
<1>6. Max(S) \in S /\ \A k \in S : Max(S) >= k
  BY <1>5, Zenon DEF Max
<1> QED
  BY <1>6

LEMMA PlansAttention ==
  ASSUME IInv
  PROVE  AttentionPlanned
<1>1. Sizes /\ Requests /\ Batch /\ Tables
  BY SizesHold DEF IInv
<1> SUFFICES ASSUME pc = "attend", NEW i \in Rows, Fits(End(i))
             PROVE  seqLens[i] <= DraftMaxSeqLen
  BY DEF AttentionPlanned
<1> DEFINE S == {batch[j].first + batch[j].fed : j \in Rows}
           M == Max(S)
           k == KeptLen(i)
           past == End(i) + NumQuery
<1>2. seqLens[i] = k /\ ~ Unaligned
  BY <1>1 DEF Tables, Prepared, Shifted
<1>3. cfg.maxLen \in Nat /\ cfg.tokens \in Nat /\ cfg.window \in Nat /\ NumQuery \in Nat /\ cfg.block \in Nat
  BY <1>1 DEF Sizes
<1>4. k \in 1..past /\ (cfg.window > 0 => k <= cfg.window + cfg.block - 1)
  BY <1>1, <1>2, LengthIs, Zenon
<1>5. ASSUME NEW j \in Rows PROVE batch[j].first + batch[j].fed \in 0..(cfg.maxLen + cfg.tokens)
  <2>1. /\ batch[j].first \in Nat /\ batch[j].start \in Nat /\ batch[j].fed \in Nat
        /\ End(j) \in 1..cfg.maxLen /\ batch[j].first < End(j)
    BY <1>1, RowType
  <2>2. LastToken(j) <= NumTokens /\ NumTokens \in 1..cfg.tokens
    BY <1>1, RowExists
  <2> DEFINE f == batch[j].first
             d == batch[j].fed
             x == batch[j].start
             y == NumTokens
             e == End(j)
             t == cfg.tokens
             m == cfg.maxLen
  <2>3. f \in Nat /\ d \in Nat /\ x \in Nat /\ y \in 1..t /\ e \in 1..m /\ f < e /\ x + d <= y
        /\ t \in Nat /\ m \in Nat
    BY <1>3, <2>1, <2>2 DEF LastToken
  <2> HIDE DEF f, d, x, y, e, t, m
  <2>4. f + d \in 0..(m + t)
    BY <2>3
  <2> QED
    BY <2>4, Zenon DEF f, d, m, t
<1>6. S \in SUBSET (0..(cfg.maxLen + cfg.tokens)) /\ batch[i].first + batch[i].fed \in S
  BY <1>5
<1>7. cfg.maxLen + cfg.tokens \in Nat
  BY <1>3
<1>8. M \in S /\ \A x \in S : x <= M
  <2> HIDE DEF S
  <2> QED
    BY <1>6, <1>7, MaxIn
<1>9. End(i) <= batch[i].first + batch[i].fed /\ End(i) \in Nat
      /\ batch[i].first + batch[i].fed \in Nat
  <2>1. End(i) \in 1..cfg.maxLen
    BY <1>1, RowType
  <2>2. End(i) \in Nat
    BY <1>3, <2>1
  <2> QED
    BY <1>1, <2>2, RowType
<1>10. End(i) <= M /\ M \in Nat
  <2>1. M \in 0..(cfg.maxLen + cfg.tokens)
    BY <1>6, <1>8, Zenon
  <2>2. batch[i].first + batch[i].fed <= M
    BY <1>6, <1>8, Zenon
  <2> HIDE DEF M
  <2> QED
    BY <1>3, <1>9, <2>1, <2>2
<1>11. past <= cfg.maxLen
  BY DEF Fits
<1>12. DraftMaxSeqLen = LET bound == Least(M + NumQuery, cfg.maxLen)
                        IN IF cfg.window > 0 THEN Least(bound, cfg.window + cfg.block - 1) ELSE bound
  BY DEF DraftMaxSeqLen
<1> DEFINE e == End(i)
           n == NumQuery
           m == cfg.maxLen
<1>13. e \in Nat /\ n \in Nat /\ m \in Nat /\ e + n <= m /\ k \in 1..(e + n) /\ e <= M
  BY <1>3, <1>4, <1>9, <1>10, <1>11
<1> HIDE DEF M, k, e, n, m
<1>14. k <= M + n /\ k <= m /\ k \in Nat
  BY <1>10, <1>13
<1> QED
  BY <1>2, <1>3, <1>4, <1>10, <1>12, <1>14 DEF Least, n, m

-----------------------------------------------------------------------------
(* What a step that leaves the configuration, or the batch too, leaves *)

LEMMA SameConfig ==
  ASSUME cfg' = cfg
  PROVE  /\ NumQuery' = NumQuery /\ Stride' = Stride /\ Groups' = Groups
         /\ Blocks' = Blocks /\ Cells' = Cells /\ SampleOffset' = SampleOffset
         /\ NoLens' = NoLens /\ StaleContext' = StaleContext /\ StaleQuery' = StaleQuery
         /\ StaleSample' = StaleSample
         /\ \A end : Fits(end)' <=> Fits(end)
         /\ Sizes' <=> Sizes
<1>1. /\ NumQuery' = NumQuery /\ Stride' = Stride /\ Groups' = Groups /\ SampleOffset' = SampleOffset
  BY Zenon DEF NumQuery, Stride, Groups, SampleOffset
<1>2. Blocks' = Blocks
  BY <1>1 DEF Blocks
<1>3. Cells' = Cells
  BY <1>2, Zenon DEF Cells
<1>4. /\ NoLens' = NoLens /\ StaleContext' = StaleContext /\ StaleQuery' = StaleQuery
      /\ StaleSample' = StaleSample
  BY <1>1, Zenon DEF NoLens, StaleContext, StaleQuery, StaleSample
<1>5. ASSUME NEW end PROVE Fits(end)' <=> Fits(end)
  BY <1>1, Zenon DEF Fits
<1>6. Sizes' <=> Sizes
  BY <1>1, Zenon DEF Sizes
<1> QED
  BY <1>1, <1>2, <1>3, <1>4, <1>5, <1>6, Zenon

LEMMA SameBatch ==
  ASSUME cfg' = cfg, req' = req, batch' = batch
  PROVE  /\ Rows' = Rows /\ NumTokens' = NumTokens /\ ContextRows' = ContextRows
         /\ \A r : Live(r)' = Live(r) /\ Cached(r)' = Cached(r) /\ InBatch(r)' = InBatch(r)
         /\ \A r, p : Evicted(r, p)' = Evicted(r, p)
         /\ Unaligned' = Unaligned
         /\ \A i : /\ End(i)' = End(i) /\ LastToken(i)' = LastToken(i)
                   /\ Gathered(i)' = Gathered(i) /\ DraftLen(i)' = DraftLen(i)
                   /\ KeptLen(i)' = KeptLen(i) /\ Kept(i)' = Kept(i)
         /\ \A i, p : SlotIn(i, p)' = SlotIn(i, p)
         /\ \A t : RowOf(t)' = RowOf(t) /\ PosOf(t)' = PosOf(t)
         /\ \A q : RowOfQuery(q)' = RowOfQuery(q) /\ QueryPos(q)' = QueryPos(q)
                   /\ IsQuery(q)' = IsQuery(q)
         /\ \A s : SampleRow(s)' = SampleRow(s)
<1>0. /\ NumQuery' = NumQuery /\ Stride' = Stride /\ SampleOffset' = SampleOffset
  BY SameConfig
<1>1. Rows' = Rows
  BY Zenon DEF Rows
<1>2. \A r : Live(r)' = Live(r) /\ Cached(r)' = Cached(r)
  BY Zenon DEF Live, Cached
<1>3. \A i : End(i)' = End(i) /\ LastToken(i)' = LastToken(i)
  BY Zenon DEF End, LastToken
<1>4. NumTokens' = NumTokens
  <2>1. Len(batch)' = Len(batch)
    BY Zenon
  <2>2. LastToken(Len(batch))' = LastToken(Len(batch))
    BY Zenon DEF LastToken
  <2> QED
    BY <2>2, Zenon DEF NumTokens
<1>5. ContextRows' = ContextRows
  BY <1>4, Zenon DEF ContextRows
<1>6. \A r : InBatch(r)' = InBatch(r)
  BY <1>1, Zenon DEF InBatch
<1>7. \A r, p : Evicted(r, p)' = Evicted(r, p)
  BY Zenon DEF Evicted
<1>8. Unaligned' = Unaligned
  BY <1>1, <1>2, Zenon DEF Unaligned
<1>9. ASSUME NEW i
      PROVE  /\ Gathered(i)' = Gathered(i) /\ DraftLen(i)' = DraftLen(i)
             /\ KeptLen(i)' = KeptLen(i) /\ Kept(i)' = Kept(i)
  <2>1. Gathered(i)' = Gathered(i)
    BY <1>0, <1>3, Zenon DEF Gathered, BlockRow
  <2>2. WholeCached(batch[i].req)' = WholeCached(batch[i].req)
    BY Zenon DEF WholeCached, Cached
  <2>3. DraftLen(i)' = DraftLen(i)
    BY <1>0, <1>3, <2>2, Zenon DEF DraftLen
  <2>4. DroppedBlocks(i)' = DroppedBlocks(i)
    BY <2>3, Zenon DEF DroppedBlocks
  <2>5. KeptLen(i)' = KeptLen(i)
    BY <2>3, <2>4, Zenon DEF KeptLen
  <2>6. Dropped(i)' = Dropped(i)
    BY <2>4, Zenon DEF Dropped, CachedShift, Cached
  <2>7. Kept(i)' = Kept(i)
    BY <1>0, <2>1, <2>5, <2>6, Zenon DEF Kept
  <2> QED
    BY <2>1, <2>3, <2>5, <2>7
<1>10. ASSUME NEW i, NEW p PROVE SlotIn(i, p)' = SlotIn(i, p)
  <2>1. Gathered(i)' = Gathered(i)
    BY <1>9
  <2> QED
    BY <1>0, <2>1, Zenon DEF SlotIn, Slot
<1>11. ASSUME NEW t PROVE RowOf(t)' = RowOf(t) /\ PosOf(t)' = PosOf(t)
  <2>1. RowOf(t)' = RowOf(t)
    BY <1>1, <1>3, Zenon DEF RowOf
  <2> QED
    BY <2>1, Zenon DEF PosOf
<1>12. ASSUME NEW q
       PROVE  RowOfQuery(q)' = RowOfQuery(q) /\ QueryPos(q)' = QueryPos(q) /\ IsQuery(q)' = IsQuery(q)
  <2>1. RowOfQuery(q)' = RowOfQuery(q)
    BY <1>0, Zenon DEF RowOfQuery
  <2>2. End(RowOfQuery(q))' = End(RowOfQuery(q))
    BY <2>1, Zenon DEF End
  <2>3. QueryPos(q)' = QueryPos(q)
    BY <1>0, <2>2, Zenon DEF QueryPos
  <2> QED
    BY <1>1, <2>1, <2>3, Zenon DEF IsQuery
<1>13. ASSUME NEW s PROVE SampleRow(s)' = SampleRow(s)
  BY <1>0, <1>1, <1>3, Zenon DEF SampleRow
<1> QED
  BY <1>1, <1>2, <1>3, <1>4, <1>5, <1>6, <1>7, <1>8, <1>9, <1>10, <1>11, <1>12, <1>13, Zenon

\* A kernel of propose moves neither the requests nor the rows.
LEMMA Kernel ==
  ASSUME Requests, Batch, Proposals, cfg' = cfg, req' = req, batch' = batch, outputs' = outputs,
         pc # "runner", pc' # "runner"
  PROVE  Requests' /\ Batch' /\ Proposals'
<1>1. /\ Rows' = Rows /\ NumTokens' = NumTokens
      /\ \A r : Live(r)' = Live(r) /\ Cached(r)' = Cached(r) /\ InBatch(r)' = InBatch(r)
      /\ \A i : End(i)' = End(i) /\ LastToken(i)' = LastToken(i)
  BY SameBatch, Zenon
<1>2. Requests'
  BY <1>1, Zenon DEF Requests
<1>3. Batch'
  BY <1>1, Zenon DEF Batch
<1>4. \A end : Fits(end)' <=> Fits(end)
  BY SameConfig, Zenon
<1>5. proposal' = proposal /\ logits' = logits
  BY DEF outputs
<1>6. \A r : Own(r)' <=> Own(r)
  BY <1>5, Zenon DEF Own
<1>7. Proposals'
  BY <1>1, <1>4, <1>5, <1>6, Zenon DEF Proposals
<1> QED
  BY <1>2, <1>3, <1>7

-----------------------------------------------------------------------------
(* The first state *)

LEMMA Starts ==
  ASSUME Init
  PROVE  IInv
<1>1. Config
  <2>1. cfg \in Configs /\ group = 1 /\ pc = "runner"
    BY DEF Init
  <2>2. cfg.groups \in Nat \ {0}
    BY <2>1, DraftAssumption
  <2> QED
    BY <2>1, <2>2 DEF Config, Groups
<1>2. Sizes
  BY <1>1, SizesHold
<1>3. batch = <<>> /\ Rows = {} /\ pc = "runner"
  BY DEF Init, Rows
<1>4. \A r \in Reqs : ~ Live(r)
  BY DEF Init, Live
<1>5. Requests
  BY <1>4 DEF Requests, Init
<1>6. Batch
  BY <1>2, <1>3 DEF Batch, Sizes
<1>7. Tables
  BY <1>3 DEF Tables, Prepared, Init
<1>8. Buffers
  BY <1>3 DEF Buffers, Prepared, Init, StaleContext, StaleQuery, StaleSample
<1>9. Cache
  <2>1. DOMAIN kv = Groups /\ \A g \in Groups : DOMAIN kv[g] = Cells /\ \A c \in Cells : kv[g][c] = Junk
    BY DEF Init
  <2>2. \A r \in Reqs, b \in 0..(Stride - 1), o \in 0..(cfg.block - 1) : <<<<r, b>>, o>> \in Cells
    BY <1>2, CellsApart
  <2>3. \A o \in 0..(cfg.block - 1) : <<Null, o>> \in Cells
    BY <1>2, CellsApart
  <2> QED
    BY <1>4, <2>1, <2>2, <2>3 DEF Cache
<1>10. Proposals
  BY <1>4 DEF Proposals, Init
<1> QED
  BY <1>1, <1>5, <1>6, <1>7, <1>8, <1>9, <1>10 DEF IInv

-----------------------------------------------------------------------------
(* The kernels that prepare the inputs *)

\* A loop over the groups has done those before the one it is at.
LEMMA Loops ==
  ASSUME Sizes, group \in Groups, NEW next, NEW here, LoopOver(next, here)
  PROVE  /\ group' \in Groups
         /\ \/ group = cfg.groups /\ pc' = next /\ group' = 1
            \/ group < cfg.groups /\ pc' = here /\ group' = group + 1
         /\ \A g \in Groups : /\ group = cfg.groups => g = group \/ g < group
                              /\ g < group + 1 <=> g = group \/ g < group
                              /\ ~ (g < 1)
         /\ ~ (cfg.groups < 1) /\ ~ (cfg.groups < group)
         /\ group < cfg.groups => ~ (cfg.groups < group + 1)
<1>1. cfg.groups \in Nat \ {0} /\ Groups = 1..cfg.groups
  BY DEF Sizes
<1> QED
  BY <1>1 DEF LoopOver

\* The cache after a step, by what its cells hold.
LEMMA CacheIs ==
  ASSUME cfg' = cfg, DOMAIN kv' = Groups,
         \A g \in Groups :
           /\ DOMAIN kv'[g] = Cells
           /\ \A o \in 0..(cfg.block - 1) : kv'[g][<<Null, o>>] = Junk,
         \A g \in Groups : \A r \in Reqs : ~ Live(r)' =>
           \A b \in 0..(Stride - 1), o \in 0..(cfg.block - 1) : kv'[g][<<<<r, b>>, o>>] = Junk,
         \A g \in Groups : \A r \in Reqs : Live(r)' /\ Fits(req'[r].len) =>
           \A p \in Cached(r)'..(cfg.maxLen - 1) :
              Evicted(r, p)' \/ kv'[g][Cell(r, p)] = Holds(r, p)'
  PROVE  Cache'
<1>1. Stride' = Stride /\ Groups' = Groups /\ Cells' = Cells
      /\ \A end : Fits(end)' <=> Fits(end)
  BY SameConfig, Zenon
<1>2. \A g \in Groups' : /\ DOMAIN kv'[g] = Cells'
                         /\ \A o \in 0..(cfg'.block - 1) : kv'[g][<<Null, o>>] = Junk
  BY <1>1, Zenon
<1>3. \A g \in Groups' : \A r \in Reqs : ~ Live(r)' =>
         \A b \in 0..(Stride' - 1), o \in 0..(cfg'.block - 1) : kv'[g][<<<<r, b>>, o>>] = Junk
  <2> SUFFICES ASSUME NEW g \in Groups', NEW r \in Reqs, ~ Live(r)',
                      NEW b \in 0..(Stride' - 1), NEW o \in 0..(cfg'.block - 1)
               PROVE  kv'[g][<<<<r, b>>, o>>] = Junk
    BY Zenon
  <2>1. g \in Groups /\ b \in 0..(Stride - 1) /\ o \in 0..(cfg.block - 1)
    BY <1>1
  <2> QED
    BY <2>1, Zenon
<1>4. \A g \in Groups' : \A r \in Reqs : Live(r)' /\ Fits(req[r].len)' =>
         \A p \in Cached(r)'..(cfg'.maxLen - 1) : Evicted(r, p)' \/ kv'[g][Cell(r, p)'] = Holds(r, p)'
  <2> SUFFICES ASSUME NEW g \in Groups', NEW r \in Reqs, Live(r)', Fits(req[r].len)',
                      NEW p \in Cached(r)'..(cfg'.maxLen - 1)
               PROVE  Evicted(r, p)' \/ kv'[g][Cell(r, p)'] = Holds(r, p)'
    BY Zenon
  <2>1. g \in Groups /\ p \in Cached(r)'..(cfg.maxLen - 1)
    BY <1>1, Zenon
  <2>2. Fits(req'[r].len)
    BY <1>1, Zenon DEF Fits
  <2>3. Cell(r, p)' = Cell(r, p)
    BY Zenon DEF Cell
  <2> QED
    BY <2>1, <2>2, <2>3, Zenon
<1> QED
  BY <1>1, <1>2, <1>3, <1>4, Zenon DEF Cache

\* The kernels before the precompute one leave the cache to what it was.
LEMMA CacheWaits ==
  ASSUME Cache, cfg' = cfg, req' = req, batch' = batch, kv' = kv,
         pc \in {"prepare", "shift"}, pc' \in {"prepare", "shift", "store"}
  PROVE  Cache'
<1>1. /\ Rows' = Rows
      /\ \A r : Live(r)' = Live(r) /\ Cached(r)' = Cached(r) /\ InBatch(r)' = InBatch(r)
      /\ \A r, p : Evicted(r, p)' = Evicted(r, p)
  BY SameBatch, Zenon
<1>2. NumQuery' = NumQuery
  BY SameConfig
<1>3. ASSUME NEW r, NEW p PROVE Holds(r, p)' = Holds(r, p)
  <2>1. ~ Drafted(r, p) /\ ~ Drafted(r, p)'
    BY DEF Drafted
  <2>2. Stored(r, p)' <=> Stored(r, p)
    <3>1. pc \in {"prepare", "shift", "store"}
      OBVIOUS
    <3> QED
      BY <1>1, <3>1, Zenon DEF Stored
  <2> QED
    BY <2>1, <2>2, Zenon DEF Holds
<1>4. ASSUME NEW g \in Groups, NEW r \in Reqs, Live(r)', Fits(req'[r].len),
             NEW p \in Cached(r)'..(cfg.maxLen - 1)
      PROVE  Evicted(r, p)' \/ kv'[g][Cell(r, p)] = Holds(r, p)'
  BY <1>1, <1>3, <1>4, Zenon DEF Cache
<1>5. /\ DOMAIN kv = Groups
      /\ \A g \in Groups :
           /\ DOMAIN kv[g] = Cells
           /\ \A o \in 0..(cfg.block - 1) : kv[g][<<Null, o>>] = Junk
           /\ \A r \in Reqs : ~ Live(r) =>
                \A b \in 0..(Stride - 1), o \in 0..(cfg.block - 1) : kv[g][<<<<r, b>>, o>>] = Junk
  BY Zenon DEF Cache
<1> QED
  BY <1>1, <1>4, <1>5, CacheIs, Zenon

LEMMA Prepares ==
  ASSUME IInv, Prepare
  PROVE  IInv'
<1>0. /\ Config /\ Requests /\ Batch /\ Tables /\ Buffers /\ Cache /\ Proposals /\ Sizes
  BY SizesHold DEF IInv
<1>1. /\ cfg' = cfg /\ req' = req /\ batch' = batch /\ table' = table /\ kv' = kv
      /\ outputs' = outputs /\ pc = "prepare" /\ ~ Unaligned
      /\ LoopOver("shift", "prepare")
  BY DEF Prepare
<1>2. /\ group' \in Groups
      /\ \/ group = cfg.groups /\ pc' = "shift" /\ group' = 1
         \/ group < cfg.groups /\ pc' = "prepare" /\ group' = group + 1
      /\ \A g \in Groups : /\ group = cfg.groups => g = group \/ g < group
                           /\ g < group + 1 <=> g = group \/ g < group
                           /\ ~ (g < 1)
      /\ ~ (cfg.groups < 1) /\ ~ (cfg.groups < group)
  BY <1>0, <1>1, Loops, Zenon DEF Config
<1>3. pc' \in {"prepare", "shift"} /\ pc # "runner" /\ pc' # "runner"
  BY <1>1, <1>2
<1>4. NumQuery' = NumQuery /\ Stride' = Stride /\ Groups' = Groups
  BY <1>1, SameConfig
<1>5. Config'
  BY <1>0, <1>1, <1>2, <1>3, <1>4 DEF Config
<1>6. Requests' /\ Batch' /\ Proposals'
  BY <1>0, <1>1, <1>3, Kernel
<1>7. Cache'
  BY <1>0, <1>1, <1>3, CacheWaits
<1>8. /\ Rows' = Rows /\ NumTokens' = NumTokens /\ ContextRows' = ContextRows
      /\ Unaligned' = Unaligned
      /\ \A i : /\ End(i)' = End(i) /\ Gathered(i)' = Gathered(i) /\ DraftLen(i)' = DraftLen(i)
      /\ \A i, p : SlotIn(i, p)' = SlotIn(i, p)
      /\ \A t : RowOf(t)' = RowOf(t) /\ PosOf(t)' = PosOf(t)
      /\ \A q : RowOfQuery(q)' = RowOfQuery(q) /\ QueryPos(q)' = QueryPos(q)
                /\ IsQuery(q)' = IsQuery(q)
      /\ \A s : SampleRow(s)' = SampleRow(s)
  BY <1>1, SameBatch, Zenon
<1>9. \A g \in Groups : /\ ~ Shifted(g) /\ ~ Shifted(g)'
                        /\ Prepared(g)' => g = group \/ Prepared(g)
  BY <1>1, <1>2 DEF Shifted, Prepared
<1>10. Rows \subseteq 1..MaxReqs /\ ContextRows \in NumTokens..cfg.tokens /\ NumTokens \in Nat
       /\ cfg.tokens \in Nat /\ NumTokens <= ContextRows /\ 1..ContextRows \subseteq 1..cfg.tokens
  <2>1. Rows = 1..Len(batch) /\ Len(batch) \in 1..MaxReqs /\ NumTokens \in 1..cfg.tokens
    BY <1>0, <1>1, RowExists
  <2>2. ContextRows \in NumTokens..cfg.tokens
    BY <1>0, <1>1, Captured
  <2>3. MaxReqs \in Nat /\ cfg.tokens \in Nat
    BY <1>0 DEF Sizes
  <2> QED
    BY <2>1, <2>2, <2>3
<1>11. Tables'
  <2>1. ~ Shifted(cfg.groups)'
    BY <1>1, <1>2 DEF Shifted
  <2>2. \A i \in Rows : seqLens'[i] = DraftLen(i)
    <3>1. seqLens' = [i \in 1..MaxReqs |-> IF i \in Rows THEN DraftLen(i) ELSE 0]
      BY DEF Prepare
    <3> QED
      BY <1>10, <3>1
  <2>3. \A g \in Groups, i \in Rows : table[g][i] = Gathered(i)
    BY <1>0, <1>9 DEF Tables
  <2>4. DOMAIN table = Groups /\ \A g \in Groups : DOMAIN table[g] = Rows
    BY <1>0 DEF Tables
  <2> QED
    BY <1>1, <1>4, <1>8, <1>9, <2>1, <2>2, <2>3, <2>4, Zenon DEF Tables
<1>12. Buffers'
  <2>1. DOMAIN cslot' = Groups /\ DOMAIN qslot' = Groups /\ DOMAIN qpos' = DOMAIN qpos
        /\ DOMAIN sample' = DOMAIN sample
    BY <1>0 DEF Prepare, Buffers
  <2>2. DOMAIN qpos = 1..(MaxReqs * NumQuery) /\ DOMAIN sample = 1..(MaxReqs * cfg.depth)
    BY <1>0 DEF Buffers
  <2>3. ASSUME NEW g \in Groups, Prepared(g)', NEW t \in 1..ContextRows
        PROVE  cslot'[g][t] = IF t <= NumTokens /\ PosOf(t) < End(RowOf(t))
                              THEN SlotIn(RowOf(t), PosOf(t)) ELSE Pad
    <3>1. CASE g = group
      <4>1. cslot'[g][t] = ContextRow(cslot[g][t], t, ContextSlot(g, t), Pad)
        <5>1. cslot' = [cslot EXCEPT ![group] = [x \in 1..cfg.tokens |->
                          ContextRow(@[x], x, ContextSlot(group, x), Pad)]]
          BY DEF Prepare
        <5>2. DOMAIN cslot = Groups
          BY <1>0 DEF Buffers
        <5> QED
          BY <1>10, <3>1, <5>1, <5>2
      <4>2. CASE ~ (t <= NumTokens)
        <5>1. t <= ContextRows
          BY <1>10
        <5> QED
          BY <4>1, <4>2, <5>1 DEF ContextRow
      <4>3. CASE t <= NumTokens
        <5>1. t \in 1..NumTokens
          BY <1>10, <4>3
        <5>2. RowOf(t) \in Rows
          BY <1>0, <1>1, <5>1, TokenOf
        <5>3. table[g][RowOf(t)] = Gathered(RowOf(t))
          BY <1>0, <1>9, <5>2 DEF Tables
        <5>4. ContextSlot(g, t) = IF PosOf(t) < End(RowOf(t)) THEN SlotIn(RowOf(t), PosOf(t)) ELSE Pad
          BY <5>3, Zenon DEF ContextSlot, PosOf, SlotIn, Entry
        <5> QED
          BY <4>1, <4>3, <5>4, Zenon DEF ContextRow
      <4> QED
        BY <4>2, <4>3
    <3>2. CASE g # group
      <4>1. cslot'[g] = cslot[g]
        BY <1>0, <3>2 DEF Prepare, Buffers
      <4>2. Prepared(g)
        BY <1>9, <2>3, <3>2
      <4> QED
        BY <1>0, <4>1, <4>2, Zenon DEF Buffers
    <3> QED
      BY <3>1, <3>2
  <2>4. ASSUME NEW g \in Groups, Prepared(g)', NEW q \in 1..(MaxReqs * NumQuery)
        PROVE  qslot'[g][q] = IF IsQuery(q) THEN SlotIn(RowOfQuery(q), QueryPos(q)) ELSE Pad
    <3>1. CASE g = group
      <4>1. qslot'[g][q] = QuerySlot(g, q)
        <5>1. qslot' = [qslot EXCEPT ![group] = [x \in DOMAIN qpos |-> QuerySlot(group, x)]]
          BY DEF Prepare
        <5>2. DOMAIN qslot = Groups
          BY <1>0 DEF Buffers
        <5> QED
          BY <2>2, <3>1, <5>1, <5>2
      <4>2. CASE IsQuery(q)
        <5>1. table[g][RowOfQuery(q)] = Gathered(RowOfQuery(q))
          BY <1>0, <1>9, <4>2 DEF Tables, IsQuery
        <5> QED
          BY <4>1, <4>2, <5>1, Zenon DEF QuerySlot, SlotIn, Entry
      <4>3. CASE ~ IsQuery(q)
        BY <4>1, <4>3 DEF QuerySlot
      <4> QED
        BY <4>2, <4>3
    <3>2. CASE g # group
      <4>1. qslot'[g] = qslot[g]
        BY <1>0, <3>2 DEF Prepare, Buffers
      <4>2. Prepared(g)
        BY <1>9, <2>4, <3>2
      <4> QED
        BY <1>0, <4>1, <4>2, Zenon DEF Buffers
    <3> QED
      BY <3>1, <3>2
  <2>5. ASSUME NEW t \in 1..NumTokens, PosOf(t) < End(RowOf(t))
        PROVE  cpos'[t] = PosOf(t)
    <3>1. t \in 1..cfg.tokens /\ t <= NumTokens
      BY <1>10
    <3>2. cpos'[t] = ContextRow(cpos[t], t, ContextPos(t), 0)
      BY <3>1 DEF Prepare
    <3>3. ContextPos(t) = PosOf(t)
      BY <2>5, Zenon DEF ContextPos, PosOf
    <3> QED
      BY <3>1, <3>2, <3>3 DEF ContextRow
  <2>6. ASSUME NEW q \in 1..(MaxReqs * NumQuery), IsQuery(q)
        PROVE  qpos'[q] = Least(QueryPos(q), cfg.maxLen - 1)
    BY <2>2, <2>6 DEF Prepare
  <2>7. \A s \in DOMAIN sample : sample'[s] = SampleRow(s)
    BY DEF Prepare
  <2>8. MaxReqs' = MaxReqs
    BY DEF MaxReqs
  <2> QED
    BY <1>1, <1>4, <1>8, <2>1, <2>2, <2>3, <2>4, <2>5, <2>6, <2>7, <2>8, Zenon
    DEF Buffers, Least
<1> QED
  BY <1>5, <1>6, <1>7, <1>11, <1>12 DEF IInv

-----------------------------------------------------------------------------
(* The shift *)

LEMMA Shifts ==
  ASSUME IInv, Shift
  PROVE  IInv'
<1>0. /\ Config /\ Requests /\ Batch /\ Tables /\ Buffers /\ Cache /\ Proposals /\ Sizes
  BY SizesHold DEF IInv
<1>1. /\ cfg' = cfg /\ req' = req /\ batch' = batch /\ rows' = rows /\ kv' = kv
      /\ outputs' = outputs /\ pc = "shift" /\ LoopOver("store", "shift")
  BY DEF Shift
<1>2. /\ group' \in Groups
      /\ \/ group = cfg.groups /\ pc' = "store" /\ group' = 1
         \/ group < cfg.groups /\ pc' = "shift" /\ group' = group + 1
      /\ \A g \in Groups : /\ group = cfg.groups => g = group \/ g < group
                           /\ g < group + 1 <=> g = group \/ g < group
                           /\ ~ (g < 1)
      /\ ~ (cfg.groups < 1) /\ ~ (cfg.groups < group)
      /\ group < cfg.groups => ~ (cfg.groups < group + 1)
  BY <1>0, <1>1, Loops, Zenon DEF Config
<1>3. pc' \in {"shift", "store"} /\ pc # "runner" /\ pc' # "runner"
  BY <1>1, <1>2
<1>4. NumQuery' = NumQuery /\ Stride' = Stride /\ Groups' = Groups
  BY <1>1, SameConfig
<1>5. Config'
  BY <1>0, <1>1, <1>2, <1>3, <1>4 DEF Config
<1>6. Requests' /\ Batch' /\ Proposals'
  BY <1>0, <1>1, <1>3, Kernel
<1>7. Cache'
  BY <1>0, <1>1, <1>3, CacheWaits
<1>8. /\ Rows' = Rows /\ NumTokens' = NumTokens /\ ContextRows' = ContextRows
      /\ Unaligned' = Unaligned
      /\ \A i : /\ End(i)' = End(i) /\ Gathered(i)' = Gathered(i) /\ DraftLen(i)' = DraftLen(i)
                /\ KeptLen(i)' = KeptLen(i) /\ Kept(i)' = Kept(i)
      /\ \A i, p : SlotIn(i, p)' = SlotIn(i, p)
      /\ \A t : RowOf(t)' = RowOf(t) /\ PosOf(t)' = PosOf(t)
      /\ \A q : RowOfQuery(q)' = RowOfQuery(q) /\ QueryPos(q)' = QueryPos(q)
                /\ IsQuery(q)' = IsQuery(q)
      /\ \A s : SampleRow(s)' = SampleRow(s)
  BY <1>1, SameBatch, Zenon
<1>9. Rows \subseteq 1..MaxReqs
  <2>1. Rows = 1..Len(batch) /\ Len(batch) \in 1..MaxReqs
    BY <1>0, <1>1, RowExists
  <2>2. MaxReqs \in Nat
    BY <1>0 DEF Sizes
  <2> QED
    BY <2>1, <2>2
<1>10. \A g \in Groups : Shifted(g)' <=> g = group \/ Shifted(g)
  BY <1>1, <1>2 DEF Shifted
<1>11. ~ Shifted(cfg.groups) /\ ~ Shifted(group) /\ (Shifted(cfg.groups)' <=> group = cfg.groups)
  BY <1>0, <1>1, <1>2 DEF Shifted, Config, Groups, Sizes
<1>12. \A g : Prepared(g) /\ Prepared(g)'
  BY <1>1, <1>3 DEF Prepared
<1>13. ASSUME NEW i \in Rows
       PROVE  ShiftedLen(i) = KeptLen(i) /\ ShiftedRow(Gathered(i), i) = Kept(i)
  <2>1. seqLens[i] = DraftLen(i)
    BY <1>0, <1>11, <1>12 DEF Tables
  <2>2. WindowShift(i) = DroppedBlocks(i)
    BY <2>1, Zenon DEF WindowShift, DroppedBlocks
  <2>3. ShiftedLen(i) = KeptLen(i)
    BY <2>1, <2>2, Zenon DEF ShiftedLen, KeptLen
  <2> QED
    BY <2>2, <2>3, Zenon DEF ShiftedRow, Kept, Dropped
<1>14. Tables'
  <2>1. table' = [table EXCEPT ![group] = [i \in Rows |-> ShiftedRow(@[i], i)]]
    BY DEF Shift
  <2>2. /\ DOMAIN table = Groups /\ \A g \in Groups : DOMAIN table[g] = Rows
        /\ \A g \in Groups, i \in Rows : table[g][i] = IF Shifted(g) THEN Kept(i) ELSE Gathered(i)
    BY <1>0 DEF Tables
  <2>3. group \in Groups
    BY <1>0 DEF Config
  <2>4. DOMAIN table' = Groups /\ \A g \in Groups : DOMAIN table'[g] = Rows
    BY <2>1, <2>2
  <2>5. ASSUME NEW g \in Groups, NEW i \in Rows
        PROVE  table'[g][i] = IF Shifted(g)' THEN Kept(i) ELSE Gathered(i)
    <3>1. CASE g = group
      <4>1. table'[g][i] = ShiftedRow(table[g][i], i)
        BY <2>1, <2>2, <3>1
      <4>2. table[g][i] = Gathered(i)
        BY <1>11, <2>2, <3>1
      <4> QED
        BY <1>10, <1>13, <3>1, <4>1, <4>2
    <3>2. CASE g # group
      <4>1. table'[g] = table[g]
        BY <2>1, <2>2, <3>2
      <4> QED
        BY <1>10, <2>2, <3>2, <4>1
    <3> QED
      BY <3>1, <3>2
  <2>6. ASSUME NEW i \in Rows
        PROVE  seqLens'[i] = IF Shifted(cfg.groups)' THEN KeptLen(i) ELSE DraftLen(i)
    <3>1. seqLens' = [x \in 1..MaxReqs |->
                        IF x \in Rows /\ UpdatesSeqLens(group) THEN ShiftedLen(x) ELSE seqLens[x]]
      BY DEF Shift
    <3>2. seqLens[i] = DraftLen(i)
      BY <1>0, <1>11, <1>12 DEF Tables
    <3>3. i \in 1..MaxReqs
      BY <1>9
    <3> QED
      BY <1>11, <1>13, <3>1, <3>2, <3>3 DEF UpdatesSeqLens
  <2>7. ~ Unaligned
    BY <1>0, <1>12 DEF Tables
  <2> QED
    BY <1>1, <1>4, <1>8, <2>4, <2>5, <2>6, <2>7, Zenon DEF Tables
<1>15. Buffers'
  <2>1. cslot' = cslot /\ cpos' = cpos /\ qslot' = qslot /\ qpos' = qpos /\ sample' = sample
    BY <1>1 DEF rows
  <2>2. MaxReqs' = MaxReqs
    BY DEF MaxReqs
  <2> QED
    BY <1>0, <1>1, <1>4, <1>8, <1>12, <2>1, <2>2, Zenon DEF Buffers, Least
<1> QED
  BY <1>5, <1>6, <1>7, <1>14, <1>15 DEF IInv

-----------------------------------------------------------------------------
(* The kernels that write the cache *)

\* A kernel that only writes the cache leaves the inputs what they were.
LEMMA InputsStay ==
  ASSUME Tables, Buffers, cfg' = cfg, req' = req, batch' = batch, group' = group,
         tables' = tables, rows' = rows,
         pc \in {"store", "forward"}, pc' \in {"forward", "attend"}
  PROVE  Tables' /\ Buffers'
<1>1. /\ Rows' = Rows /\ NumTokens' = NumTokens /\ ContextRows' = ContextRows
      /\ Unaligned' = Unaligned
      /\ \A i : /\ End(i)' = End(i) /\ Gathered(i)' = Gathered(i) /\ DraftLen(i)' = DraftLen(i)
                /\ KeptLen(i)' = KeptLen(i) /\ Kept(i)' = Kept(i)
      /\ \A i, p : SlotIn(i, p)' = SlotIn(i, p)
      /\ \A t : RowOf(t)' = RowOf(t) /\ PosOf(t)' = PosOf(t)
      /\ \A q : RowOfQuery(q)' = RowOfQuery(q) /\ QueryPos(q)' = QueryPos(q)
                /\ IsQuery(q)' = IsQuery(q)
      /\ \A s : SampleRow(s)' = SampleRow(s)
  BY SameBatch, Zenon
<1>2. NumQuery' = NumQuery /\ Stride' = Stride /\ Groups' = Groups
  BY SameConfig
<1>3. \A g : Prepared(g) /\ Prepared(g)' /\ Shifted(g) /\ Shifted(g)'
  BY DEF Prepared, Shifted
<1>4. table' = table /\ seqLens' = seqLens
  BY DEF tables
<1>5. cslot' = cslot /\ cpos' = cpos /\ qslot' = qslot /\ qpos' = qpos /\ sample' = sample
  BY DEF rows
<1>6. Tables'
  BY <1>1, <1>2, <1>3, <1>4, Zenon DEF Tables
<1>7. MaxReqs' = MaxReqs
  BY DEF MaxReqs
<1>8. Buffers'
  BY <1>1, <1>2, <1>3, <1>5, <1>7, Zenon DEF Buffers, Least
<1> QED
  BY <1>6, <1>8

LEMMA Stores ==
  ASSUME IInv, Store
  PROVE  IInv'
<1>0. /\ Config /\ Requests /\ Batch /\ Tables /\ Buffers /\ Cache /\ Proposals /\ Sizes
  BY SizesHold DEF IInv
<1>1. /\ cfg' = cfg /\ req' = req /\ batch' = batch /\ group' = group /\ tables' = tables
      /\ rows' = rows /\ outputs' = outputs /\ pc = "store" /\ pc' = "forward"
      /\ kv' = [g \in Groups |->
           Written(kv[g], cslot[g], [t \in 1..ContextRows |-> ContextValue(t)])]
  BY DEF Store
<1>2. pc \in {"store", "forward"} /\ pc' \in {"forward", "attend"} /\ pc # "runner" /\ pc' # "runner"
  BY <1>1
<1>3. Config'
  BY <1>0, <1>1, SameConfig DEF Config
<1>4. Requests' /\ Batch' /\ Proposals'
  BY <1>0, <1>1, <1>2, Kernel
<1>5. Tables' /\ Buffers'
  BY <1>0, <1>1, <1>2, InputsStay
<1>6. /\ Rows' = Rows
      /\ \A r : Live(r)' = Live(r) /\ Cached(r)' = Cached(r) /\ InBatch(r)' = InBatch(r)
      /\ \A r, p : Evicted(r, p)' = Evicted(r, p)
  BY <1>1, SameBatch, Zenon
<1>7. ASSUME NEW i \in Rows, NEW p \in batch[i].first..(End(i) - 1)
      PROVE  /\ batch[i].req \in Reqs /\ Live(batch[i].req) /\ p \in Nat
             /\ p \div cfg.block \in 0..(Stride - 1)
  <2>1. batch[i].first \in Nat /\ End(i) \in 1..cfg.maxLen /\ batch[i].req \in Reqs
        /\ Live(batch[i].req)
    BY <1>0, RowType
  <2>2. cfg.maxLen \in Nat
    BY <1>0 DEF Sizes
  <2>3. p \in 0..(cfg.maxLen - 1)
    BY <2>1, <2>2
  <2> QED
    BY <1>0, <2>1, <2>3, CellOf
<1>8. ASSUME NEW g \in Groups
      PROVE  /\ DOMAIN kv'[g] = Cells
             /\ \A c \in Cells :
                  (\A i \in Rows : \A p \in batch[i].first..(End(i) - 1) :
                      Evicted(batch[i].req, p) \/ Cell(batch[i].req, p) # c) => kv'[g][c] = kv[g][c]
             /\ \A i \in Rows : \A p \in batch[i].first..(End(i) - 1) :
                  Evicted(batch[i].req, p)
                    \/ kv'[g][Cell(batch[i].req, p)] = <<"context", batch[i].req, p>>
  <2>1. kv'[g] = Written(kv[g], cslot[g], [t \in 1..ContextRows |-> ContextValue(t)])
    BY <1>1
  <2> QED
    BY <1>0, <1>1, <2>1, StoreCell, Zenon
<1>9. ASSUME NEW g \in Groups, NEW o \in 0..(cfg.block - 1)
      PROVE  kv'[g][<<Null, o>>] = Junk
  <2>1. <<Null, o>> \in Cells
    BY <1>0, CellsApart
  <2>2. ASSUME NEW i \in Rows, NEW p \in batch[i].first..(End(i) - 1)
        PROVE  Cell(batch[i].req, p) # <<Null, o>>
    <3>1. <<batch[i].req, p \div cfg.block>> # Null
      BY <1>0, <1>7, CellsApart
    <3> QED
      BY <3>1 DEF Cell
  <2> QED
    BY <1>0, <1>8, <2>1, <2>2 DEF Cache
<1>10. ASSUME NEW g \in Groups, NEW r \in Reqs, ~ Live(r),
              NEW b \in 0..(Stride - 1), NEW o \in 0..(cfg.block - 1)
       PROVE  kv'[g][<<<<r, b>>, o>>] = Junk
  <2>1. <<<<r, b>>, o>> \in Cells
    BY <1>0, CellsApart
  <2>2. ASSUME NEW i \in Rows, NEW p \in batch[i].first..(End(i) - 1)
        PROVE  Cell(batch[i].req, p) # <<<<r, b>>, o>>
    <3>1. batch[i].req # r
      BY <1>7, <1>10
    <3> QED
      BY <3>1 DEF Cell
  <2>3. kv'[g][<<<<r, b>>, o>>] = kv[g][<<<<r, b>>, o>>]
    BY <1>8, <2>1, <2>2
  <2> QED
    BY <1>0, <1>10, <2>3, Zenon DEF Cache
<1>11. ASSUME NEW g \in Groups, NEW r \in Reqs, Live(r), Fits(req[r].len),
              NEW p \in Cached(r)..(cfg.maxLen - 1), ~ Evicted(r, p)
       PROVE  kv'[g][Cell(r, p)] = Holds(r, p)'
  <2>1. kv[g][Cell(r, p)] = Holds(r, p)
    BY <1>0, <1>11, Zenon DEF Cache
  <2>2. cfg.maxLen \in Nat /\ Cached(r) \in Nat
    BY <1>0, <1>11 DEF Sizes, Requests, Cached
  <2>3. p \in 0..(cfg.maxLen - 1) /\ p \in Nat
    BY <2>2
  <2>4. Cell(r, p) \in Cells
    BY <1>0, <2>3, CellOf
  <2>5. ~ Drafted(r, p) /\ ~ Drafted(r, p)'
    BY <1>1 DEF Drafted
  <2>6. Stored(r, p)' <=> p < req[r].len
    BY <1>1 DEF Stored
  <2>7. CASE ~ InBatch(r)
    <3>1. kv'[g][Cell(r, p)] = kv[g][Cell(r, p)]
      <4>1. ASSUME NEW i \in Rows, NEW q \in batch[i].first..(End(i) - 1)
            PROVE  Cell(batch[i].req, q) # Cell(r, p)
        <5>1. batch[i].req # r
          BY <2>7 DEF InBatch
        <5> QED
          BY <5>1 DEF Cell
      <4> QED
        BY <1>8, <2>4, <4>1
    <3>2. Stored(r, p) <=> p < req[r].len
      BY <1>1, <2>7 DEF Stored
    <3> QED
      BY <1>1, <2>1, <2>5, <2>6, <3>1, <3>2, Zenon DEF Holds
  <2>8. CASE InBatch(r)
    <3>1. PICK i \in Rows : batch[i].req = r
      BY <2>8 DEF InBatch
    <3>2. \A j \in Rows : batch[j].req = r => j = i
      BY <1>0, <3>1 DEF Batch
    <3>3. End(i) = req[r].len /\ \A q \in req[r].missed : q < batch[i].first
      BY <1>0, <3>1 DEF Batch
    <3>4. batch[i].first \in Nat /\ End(i) \in 1..cfg.maxLen /\ batch[i].first < End(i)
      BY <1>0, RowType
    <3>5. Stored(r, p) <=> p < batch[i].first
      <4>1. pc \in {"prepare", "shift", "store"}
        BY <1>1
      <4> QED
        BY <2>8, <3>1, <3>2, <4>1, Zenon DEF Stored
    <3>6. CASE p \in batch[i].first..(End(i) - 1)
      <4>1. kv'[g][Cell(r, p)] = <<"context", r, p>>
        BY <1>8, <1>11, <3>1, <3>6
      <4>2. p \notin req[r].missed /\ p < req[r].len
        BY <2>2, <2>3, <3>3, <3>4, <3>6
      <4> QED
        BY <1>1, <2>6, <4>1, <4>2, Zenon DEF Holds
    <3>7. CASE p \notin batch[i].first..(End(i) - 1)
      <4>1. kv'[g][Cell(r, p)] = kv[g][Cell(r, p)]
        <5>1. ASSUME NEW j \in Rows, NEW q \in batch[j].first..(End(j) - 1)
              PROVE  Cell(batch[j].req, q) # Cell(r, p)
          <6>1. batch[j].req \in Reqs /\ q \in Nat
            BY <1>7
          <6>2. ASSUME Cell(batch[j].req, q) = Cell(r, p) PROVE FALSE
            <7>1. batch[j].req = r /\ q = p
              BY <1>0, <2>3, <6>1, <6>2, CellOf
            <7>2. j = i
              BY <3>2, <7>1
            <7> QED
              BY <3>7, <7>1, <7>2
          <6> QED
            BY <6>2
        <5> QED
          BY <1>8, <2>4, <5>1
      <4>2. Stored(r, p)' <=> Stored(r, p)
        <5>1. cfg.maxLen \in Nat
          BY <2>2
        <5> QED
          BY <2>3, <2>6, <3>3, <3>4, <3>5, <3>7, <5>1
      <4> QED
        BY <1>1, <2>1, <2>5, <4>1, <4>2, Zenon DEF Holds
    <3> QED
      BY <3>6, <3>7
  <2> QED
    BY <2>7, <2>8
<1>12. Cache'
  <2>1. DOMAIN kv' = Groups
    BY <1>1
  <2>2. \A g \in Groups : \A r \in Reqs : Live(r)' /\ Fits(req'[r].len) =>
           \A p \in Cached(r)'..(cfg.maxLen - 1) :
              Evicted(r, p)' \/ kv'[g][Cell(r, p)] = Holds(r, p)'
    BY <1>1, <1>6, <1>11, Zenon
  <2>3. \A g \in Groups :
           /\ DOMAIN kv'[g] = Cells
           /\ \A o \in 0..(cfg.block - 1) : kv'[g][<<Null, o>>] = Junk
    BY <1>8, <1>9, Zenon
  <2>4. \A g \in Groups : \A r \in Reqs : ~ Live(r)' =>
           \A b \in 0..(Stride - 1), o \in 0..(cfg.block - 1) : kv'[g][<<<<r, b>>, o>>] = Junk
    BY <1>6, <1>10, Zenon
  <2> QED
    BY <1>1, <2>1, <2>2, <2>3, <2>4, CacheIs, Zenon
<1> QED
  BY <1>3, <1>4, <1>5, <1>12 DEF IInv

LEMMA Forwards ==
  ASSUME IInv, Forward
  PROVE  IInv'
<1>0. /\ Config /\ Requests /\ Batch /\ Tables /\ Buffers /\ Cache /\ Proposals /\ Sizes
  BY SizesHold DEF IInv
<1>1. /\ cfg' = cfg /\ req' = req /\ batch' = batch /\ group' = group /\ tables' = tables
      /\ rows' = rows /\ outputs' = outputs /\ pc = "forward" /\ pc' = "attend"
      /\ kv' = [g \in Groups |->
           Written(kv[g], qslot[g], [q \in 1..(GraphReqs * NumQuery) |-> QueryValue(q)])]
  BY DEF Forward
<1>2. pc \in {"store", "forward"} /\ pc' \in {"forward", "attend"} /\ pc # "runner" /\ pc' # "runner"
  BY <1>1
<1>3. Config'
  BY <1>0, <1>1, SameConfig DEF Config
<1>4. Requests' /\ Batch' /\ Proposals'
  BY <1>0, <1>1, <1>2, Kernel
<1>5. Tables' /\ Buffers'
  BY <1>0, <1>1, <1>2, InputsStay
<1>6. /\ Rows' = Rows /\ NumQuery' = NumQuery
      /\ \A r : Live(r)' = Live(r) /\ Cached(r)' = Cached(r) /\ InBatch(r)' = InBatch(r)
      /\ \A r, p : Evicted(r, p)' = Evicted(r, p)
  BY <1>1, SameBatch, SameConfig, Zenon
<1>7. ASSUME NEW i \in Rows, NEW k \in 0..(NumQuery - 1)
      PROVE  /\ batch[i].req \in Reqs /\ Live(batch[i].req) /\ End(i) + k \in Nat
             /\ \/ SlotIn(i, End(i) + k) = Pad
                \/ \E b \in 0..(Stride - 1), o \in 0..(cfg.block - 1) :
                      SlotIn(i, End(i) + k) = <<<<batch[i].req, b>>, o>>
  <2>1. End(i) \in 1..cfg.maxLen /\ batch[i].req \in Reqs /\ Live(batch[i].req)
    BY <1>0, RowType
  <2>2. cfg.maxLen \in Nat /\ NumQuery \in Nat
    BY <1>0 DEF Sizes
  <2>3. End(i) + k \in Nat
    BY <2>1, <2>2
  <2> QED
    BY <1>0, <2>1, <2>3, SlotCell
<1>8. ASSUME NEW g \in Groups
      PROVE  /\ DOMAIN kv'[g] = Cells
             /\ \A c \in Cells :
                  (\A i \in Rows, k \in 0..(NumQuery - 1) : SlotIn(i, End(i) + k) # c)
                     => kv'[g][c] = kv[g][c]
             /\ \A i \in Rows : Fits(End(i)) =>
                  \A p \in End(i)..(End(i) + NumQuery - 1) :
                     kv'[g][Cell(batch[i].req, p)] = <<"query", batch[i].req, p>>
  <2>1. kv'[g] = Written(kv[g], qslot[g], [q \in 1..(GraphReqs * NumQuery) |-> QueryValue(q)])
    BY <1>1
  <2> QED
    BY <1>0, <1>1, <2>1, ForwardCell, Zenon
<1>9. ASSUME NEW g \in Groups, NEW o \in 0..(cfg.block - 1)
      PROVE  kv'[g][<<Null, o>>] = Junk
  <2>1. <<Null, o>> \in Cells
    BY <1>0, CellsApart
  <2>2. ASSUME NEW i \in Rows, NEW k \in 0..(NumQuery - 1)
        PROVE  SlotIn(i, End(i) + k) # <<Null, o>>
    <3>1. \A b \in 0..(Stride - 1) : <<batch[i].req, b>> # Null
      <4>1. o \in 0..(cfg.block - 1) /\ batch[i].req \in Reqs
        BY <1>7
      <4> QED
        BY <1>0, <4>1, CellsApart
    <3>2. Pad # <<Null, o>>
      BY <1>0, <2>1, CellsApart
    <3> QED
      BY <1>7, <3>1, <3>2
  <2> QED
    BY <1>0, <1>8, <2>1, <2>2 DEF Cache
<1>10. ASSUME NEW g \in Groups, NEW r \in Reqs, NEW c \in Cells, c[1][1] = r,
              \A i \in Rows : batch[i].req # r
       PROVE  kv'[g][c] = kv[g][c]
  <2>1. ASSUME NEW i \in Rows, NEW k \in 0..(NumQuery - 1)
        PROVE  SlotIn(i, End(i) + k) # c
    <3>1. batch[i].req # r
      BY <1>10
    <3>2. Pad # c
      BY <1>0, CellsApart
    <3>3. \A b, o : c # <<<<batch[i].req, b>>, o>>
      BY <1>10, <3>1
    <3> QED
      BY <1>7, <3>2, <3>3
  <2> QED
    BY <1>8, <2>1
<1>11. ASSUME NEW g \in Groups, NEW r \in Reqs, ~ Live(r),
              NEW b \in 0..(Stride - 1), NEW o \in 0..(cfg.block - 1)
       PROVE  kv'[g][<<<<r, b>>, o>>] = Junk
  <2> DEFINE c == <<<<r, b>>, o>>
  <2>1. c \in Cells /\ c[1][1] = r
    BY <1>0, CellsApart
  <2>2. \A i \in Rows : batch[i].req # r
    BY <1>0, <1>11, RowType
  <2>3. kv[g][c] = Junk
    BY <1>0, <1>11, Zenon DEF Cache
  <2> HIDE DEF c
  <2>4. kv'[g][c] = kv[g][c]
    BY <1>10, <2>1, <2>2
  <2> QED
    BY <2>3, <2>4 DEF c
<1>12. ASSUME NEW g \in Groups, NEW r \in Reqs, Live(r), Fits(req[r].len),
              NEW p \in Cached(r)..(cfg.maxLen - 1), ~ Evicted(r, p)
       PROVE  kv'[g][Cell(r, p)] = Holds(r, p)'
  <2>1. kv[g][Cell(r, p)] = Holds(r, p)
    BY <1>0, <1>12, Zenon DEF Cache
  <2>2. cfg.maxLen \in Nat /\ Cached(r) \in Nat /\ NumQuery \in Nat
    BY <1>0, <1>12 DEF Sizes, Requests, Cached
  <2>3. p \in 0..(cfg.maxLen - 1) /\ p \in Nat
    BY <2>2
  <2>4. Cell(r, p) \in Cells /\ Cell(r, p)[1][1] = r
    <3>1. Cell(r, p)[1][1] = r
      BY DEF Cell
    <3> QED
      BY <1>0, <2>3, <3>1, CellOf
  <2>5. (Stored(r, p)' <=> p < req[r].len) /\ (Stored(r, p) <=> p < req[r].len)
    BY <1>1 DEF Stored
  <2>6. ~ Drafted(r, p) /\ (Drafted(r, p)' <=> InBatch(r) /\ p < req[r].len + NumQuery)
    BY <1>1, <1>6 DEF Drafted
  <2>7. CASE ~ InBatch(r)
    <3>1. kv'[g][Cell(r, p)] = kv[g][Cell(r, p)]
      BY <1>10, <2>4, <2>7 DEF InBatch
    <3> QED
      BY <1>1, <2>1, <2>5, <2>6, <2>7, <3>1, Zenon DEF Holds
  <2>8. CASE InBatch(r)
    <3>1. PICK i \in Rows : batch[i].req = r
      BY <2>8 DEF InBatch
    <3>2. \A j \in Rows : batch[j].req = r => j = i
      BY <1>0, <3>1 DEF Batch
    <3>3. End(i) = req[r].len /\ \A q \in req[r].missed : q < batch[i].first
      BY <1>0, <3>1 DEF Batch
    <3>4. batch[i].first \in Nat /\ End(i) \in 1..cfg.maxLen /\ batch[i].first < End(i)
      BY <1>0, RowType
    <3>5. Fits(End(i))
      BY <1>12, <3>3
    <3> DEFINE e == End(i)
               n == NumQuery
               m == cfg.maxLen
    <3>6. e \in 1..m /\ n \in Nat /\ m \in Nat /\ e + n <= m /\ req[r].len = e
      BY <2>2, <3>3, <3>4, <3>5 DEF Fits
    <3>7. CASE p \in End(i)..(End(i) + NumQuery - 1)
      <4>1. kv'[g][Cell(r, p)] = <<"query", r, p>>
        BY <1>8, <3>1, <3>5, <3>7
      <4>2. p \in e..(e + n - 1) /\ \A q \in req[r].missed : q < batch[i].first
        BY <3>3, <3>7
      <4>3. batch[i].first \in Nat /\ batch[i].first < e
        BY <3>4
      <4> HIDE DEF e, n, m
      <4>4. p \notin req[r].missed /\ ~ (p < e) /\ p < e + n
        BY <2>3, <3>6, <4>2, <4>3
      <4>5. ~ Stored(r, p)' /\ Drafted(r, p)'
        BY <2>5, <2>6, <2>8, <3>6, <4>4 DEF n
      <4> QED
        BY <1>1, <4>1, <4>4, <4>5, Zenon DEF Holds
    <3>8. CASE p \notin End(i)..(End(i) + NumQuery - 1)
      <4>1. ASSUME NEW j \in Rows, NEW k \in 0..(NumQuery - 1)
            PROVE  SlotIn(j, End(j) + k) # Cell(r, p)
        <5>1. ASSUME SlotIn(j, End(j) + k) = Cell(r, p) PROVE FALSE
          <6>1. Pad # Cell(r, p)
            BY <1>0, <2>4, CellsApart
          <6>2. \E b, o : Cell(r, p) = <<<<batch[j].req, b>>, o>>
            BY <1>7, <5>1, <6>1
          <6>3. batch[j].req = r
            BY <6>2 DEF Cell
          <6>4. j = i
            BY <3>2, <6>3
          <6>5. e + k \in 0..(m - 1) /\ e + k \in Nat /\ e + k \in e..(e + n - 1)
            <7>1. k \in 0..(n - 1)
              OBVIOUS
            <7> HIDE DEF e, n, m
            <7> QED
              BY <3>6, <7>1
          <6>6. Cell(r, End(i) + k) = Cell(r, p)
            BY <1>0, <3>1, <5>1, <6>1, <6>4, <6>5, SlotCell
          <6>7. e + k = p
            BY <1>0, <2>3, <6>5, <6>6, CellOf
          <6> QED
            BY <3>8, <6>5, <6>7
        <5> QED
          BY <5>1
      <4>2. kv'[g][Cell(r, p)] = kv[g][Cell(r, p)]
        BY <1>8, <2>4, <4>1
      <4>3. ~ Stored(r, p) => ~ Drafted(r, p)'
        <5>1. p \notin e..(e + n - 1)
          BY <3>8
        <5> HIDE DEF e, n, m
        <5>2. ~ (p < e) => ~ (p < e + n)
          BY <2>3, <3>6, <5>1
        <5> QED
          BY <2>5, <2>6, <3>6, <5>2 DEF n
      <4> QED
        BY <1>1, <2>1, <2>5, <2>6, <4>2, <4>3, Zenon DEF Holds
    <3> QED
      BY <3>7, <3>8
  <2> QED
    BY <2>7, <2>8
<1>13. Cache'
  <2>1. DOMAIN kv' = Groups
    BY <1>1
  <2>2. \A g \in Groups : \A r \in Reqs : Live(r)' /\ Fits(req'[r].len) =>
           \A p \in Cached(r)'..(cfg.maxLen - 1) :
              Evicted(r, p)' \/ kv'[g][Cell(r, p)] = Holds(r, p)'
    BY <1>1, <1>6, <1>12, Zenon
  <2>3. \A g \in Groups :
           /\ DOMAIN kv'[g] = Cells
           /\ \A o \in 0..(cfg.block - 1) : kv'[g][<<Null, o>>] = Junk
    BY <1>8, <1>9, Zenon
  <2>4. \A g \in Groups : \A r \in Reqs : ~ Live(r)' =>
           \A b \in 0..(Stride - 1), o \in 0..(cfg.block - 1) : kv'[g][<<<<r, b>>, o>>] = Junk
    BY <1>6, <1>11, Zenon
  <2> QED
    BY <1>1, <2>1, <2>2, <2>3, <2>4, CacheIs, Zenon
<1> QED
  BY <1>3, <1>4, <1>5, <1>13 DEF IInv

-----------------------------------------------------------------------------
(* The drafts *)

LEMMA Fewer ==
  ASSUME NEW m \in Nat \ {0}, NEW n \in Nat, NEW N \in Nat, n <= N
  PROVE  1..(n * m) \subseteq 1..(N * m)
<1>1. m * n <= m * N
  BY Ordered
<1> DEFINE a == n * m
           b == N * m
<1>2. a \in Int /\ b \in Int /\ a <= b
  BY <1>1
<1> HIDE DEF a, b
<1>3. 1..a \subseteq 1..b
  BY <1>2
<1> QED
  BY <1>3 DEF a, b

\* The k-th sampling row of a request of the batch, and no other row, is the
\* request's k-th draft; where the draft block fits, so are position and key.
LEMMA SamplesAt ==
  ASSUME Sizes, Requests, Batch, Buffers, pc = "attend"
  PROVE  /\ \A s \in 1..(GraphReqs * cfg.depth) :
              /\ sample[s].req # Stale
              /\ \A r \in Reqs : sample[s].req = r =>
                   \E i \in Rows : batch[i].req = r /\ s = (i - 1) * cfg.depth + Column(s)
         /\ \A i \in Rows, k \in 1..cfg.depth :
              LET s == (i - 1) * cfg.depth + k
              IN /\ s \in 1..(GraphReqs * cfg.depth) /\ Column(s) = k
                 /\ sample[s].req = batch[i].req
                 /\ Fits(End(i)) =>
                      Draft(s) = [req |-> batch[i].req, pos |-> End(i) + k, key |-> End(i) + k]
<1> DEFINE n == GraphReqs
           m == cfg.depth
<1>1. Rows = 1..Len(batch) /\ Len(batch) \in 1..MaxReqs /\ n \in Len(batch)..MaxReqs /\ MaxReqs \in Nat
      /\ m \in Nat \ {0} /\ NumQuery \in Nat \ {0} /\ SampleOffset \in {0, 1}
      /\ NumQuery = m + SampleOffset
  BY Captured, RowExists DEF Sizes
<1> HIDE DEF n, m
<1>2. n \in Nat /\ n <= MaxReqs /\ Rows \subseteq 1..n /\ Rows \subseteq 1..MaxReqs
  BY <1>1
<1>3. 1..(n * m) \subseteq DOMAIN sample
  <2>1. DOMAIN sample = 1..(MaxReqs * m)
    BY DEF Buffers, m
  <2> QED
    BY <1>1, <1>2, <2>1, Fewer
<1>4. ASSUME NEW s \in 1..(n * m)
      PROVE  sample[s] = SampleRow(s)
  BY <1>3 DEF Buffers, Prepared
<1>5. ASSUME NEW s \in 1..(n * m)
      PROVE  /\ sample[s].req # Stale
             /\ \A r \in Reqs : sample[s].req = r =>
                  \E i \in Rows : batch[i].req = r /\ s = (i - 1) * cfg.depth + Column(s)
  <2> DEFINE i == (s - 1) \div m + 1
             k == (s - 1) % m
  <2>1. ((s - 1) \div m) + 1 \in 1..n /\ k \in 0..(m - 1)
        /\ s = (((s - 1) \div m) + 1 - 1) * m + k + 1
    BY <1>1, <1>2, RowAt
  <2>2. sample[s].req = IF i \in Rows THEN batch[i].req ELSE None
    <3>1. sample[s] = SampleRow(s)
      BY <1>4
    <3>2. SampleRow(s).req = IF i \in Rows THEN batch[i].req ELSE None
      BY DEF SampleRow, m
    <3> QED
      BY <3>1, <3>2
  <2>3. None # Stale /\ None \notin Reqs /\ Stale \notin Reqs
    BY CellsApart
  <2>4. i \in Rows => batch[i].req \in Reqs
    <3> HIDE DEF i
    <3> QED
      BY RowType
  <2>5. s = (i - 1) * m + Column(s)
    <3> DEFINE d == (s - 1) \div m
    <3>1. d + 1 \in 1..n /\ s = (d + 1 - 1) * m + k + 1 /\ i = d + 1
      BY <2>1
    <3>2. d \in Int
      BY <1>1
    <3>3. Column(s) = k + 1
      BY DEF Column, m
    <3> HIDE DEF d, i, k
    <3>4. d + 1 - 1 = i - 1
      BY <3>1, <3>2
    <3> DEFINE x == (i - 1) * m
    <3>5. s = x + k + 1
      BY <3>1, <3>4, Zenon
    <3>6. x \in Int
      BY <1>1, <3>1, <3>2
    <3> HIDE DEF x
    <3>7. s = x + (k + 1)
      BY <2>1, <3>5, <3>6
    <3> QED
      BY <3>3, <3>7, Zenon DEF x
  <2> HIDE DEF i, k
  <2>6. ASSUME NEW r \in Reqs, sample[s].req = r
        PROVE  \E j \in Rows : batch[j].req = r /\ s = (j - 1) * cfg.depth + Column(s)
    <3>1. i \in Rows /\ batch[i].req = r
      BY <2>2, <2>3, <2>6
    <3> QED
      BY <2>5, <3>1, Zenon DEF m
  <2>7. sample[s].req # Stale
    BY <2>2, <2>3, <2>4
  <2> QED
    BY <2>6, <2>7
<1>6. ASSUME NEW i \in Rows, NEW k \in 1..m
      PROVE  LET s == (i - 1) * m + k
             IN /\ s \in 1..(n * m) /\ Column(s) = k
                /\ sample[s].req = batch[i].req
                /\ Fits(End(i)) =>
                     Draft(s) = [req |-> batch[i].req, pos |-> End(i) + k, key |-> End(i) + k]
  <2> DEFINE s == (i - 1) * m + k
             h == k - 1
  <2>1. h \in 0..(m - 1) /\ h \in Int /\ k = h + 1 /\ i \in 1..n /\ i \in 1..MaxReqs
    BY <1>1, <1>2
  <2> HIDE DEF h
  <2>2. (i - 1) * m + h + 1 = s
    <3> DEFINE x == (i - 1) * m
    <3>1. x \in Int
      BY <1>1, <2>1
    <3> HIDE DEF x
    <3>2. x + h + 1 = x + k
      BY <2>1, <3>1
    <3> QED
      BY <3>2 DEF x
  <2> HIDE DEF s
  <2>3. /\ (i - 1) * m + h + 1 \in 1..(n * m)
        /\ ((((i - 1) * m + h + 1) - 1) \div m) + 1 = i
        /\ (((i - 1) * m + h + 1) - 1) % m = h
    <3>1. m \in Nat \ {0} /\ n \in Nat /\ i \in 1..n /\ h \in 0..(m - 1)
      BY <1>1, <1>2, <2>1
    <3>2. LET x == (i - 1) * m + h + 1
          IN x \in 1..(n * m) /\ ((x - 1) \div m) + 1 = i /\ (x - 1) % m = h
      BY <3>1, ColumnAt
    <3> QED
      BY <3>2, Zenon
  <2>4. s \in 1..(n * m) /\ ((s - 1) \div m) + 1 = i /\ (s - 1) % m = h
    BY <2>2, <2>3, Zenon
  <2>5. Column(s) = k
    BY <2>1, <2>4 DEF Column, m
  <2> DEFINE g == h + SampleOffset
  <2>6. sample[s] = [row |-> (i - 1) * NumQuery + g + 1,
                     key |-> End(i) + g + (1 - SampleOffset),
                     req |-> batch[i].req]
    <3>1. sample[s] = SampleRow(s)
      BY <1>4, <2>4
    <3>2. (s - 1) \div cfg.depth + 1 = i /\ ((s - 1) % cfg.depth) = h
      BY <2>4 DEF m
    <3> QED
      BY <3>1, <3>2, Zenon DEF SampleRow
  <2>7. ASSUME Fits(End(i))
        PROVE  Draft(s) = [req |-> batch[i].req, pos |-> End(i) + k, key |-> End(i) + k]
    <3> DEFINE q == (i - 1) * NumQuery + g + 1
    <3>1. g \in 0..(NumQuery - 1)
      BY <1>1, <2>1
    <3> HIDE DEF g
    <3>2. q \in 1..(MaxReqs * NumQuery) /\ RowOfQuery(q) = i /\ QueryPos(q) = End(i) + g
      <4>1. MaxReqs \in Nat /\ i \in 1..MaxReqs /\ g \in 0..(NumQuery - 1)
        BY <1>1, <2>1, <3>1
      <4>2. LET x == (i - 1) * NumQuery + g + 1
            IN x \in 1..(MaxReqs * NumQuery) /\ RowOfQuery(x) = i /\ QueryPos(x) = End(i) + g
        BY <4>1, QueryAt
      <4> QED
        BY <4>2, Zenon
    <3> HIDE DEF q
    <3>3. qpos[q] = Least(End(i) + g, cfg.maxLen - 1)
      BY <3>2 DEF Buffers, Prepared, IsQuery
    <3>4. End(i) \in 1..cfg.maxLen /\ cfg.maxLen \in Nat
      BY RowType DEF Sizes
    <3> DEFINE e == End(i)
               N == NumQuery
               M == cfg.maxLen
               o == SampleOffset
    <3>5. e \in 1..M /\ M \in Nat /\ N \in Nat \ {0} /\ e + N <= M /\ g \in 0..(N - 1) /\ o \in {0, 1}
      BY <1>1, <2>7, <3>1, <3>4 DEF Fits
    <3>6. qpos[q] = Least(e + g, M - 1)
      BY <3>3
    <3>7. g = h + o
      BY DEF g
    <3> HIDE DEF e, N, M, o
    <3>8. qpos[q] = e + g
      BY <3>5, <3>6 DEF Least
    <3>9. qpos[q] + (1 - o) = e + k /\ e + g + (1 - o) = e + k
      BY <2>1, <3>5, <3>7, <3>8
    <3>10. sample[s].row = q /\ sample[s].key = e + g + (1 - o)
      BY <2>6 DEF q, e, o
    <3>11. Draft(s) = [req |-> batch[RowOfQuery(q)].req, pos |-> qpos[q] + (1 - o), key |-> e + g + (1 - o)]
      BY <3>10, Zenon DEF Draft, o
    <3> QED
      BY <3>2, <3>9, <3>11, Zenon DEF e
  <2>8. sample[s].req = batch[i].req
    BY <2>6
  <2> QED
    BY <2>4, <2>5, <2>7, <2>8 DEF s
<1> QED
  BY <1>5, <1>6 DEF n, m

\* The logits of a request of the batch are its drafts'; of the others, what
\* they were.
LEMMA ScattersAt ==
  ASSUME Sizes, Requests, Batch, Buffers, pc = "attend"
  PROVE  /\ \A i \in Rows, k \in 1..cfg.depth :
              Scattered(batch[i].req, k) = Draft((i - 1) * cfg.depth + k)
         /\ \A r \in Reqs, k \in 1..cfg.depth : ~ InBatch(r) => Scattered(r, k) = logits[r][k]
<1>1. \A s \in 1..(GraphReqs * cfg.depth) :
         /\ sample[s].req # Stale
         /\ \A r \in Reqs : sample[s].req = r =>
              \E i \in Rows : batch[i].req = r /\ s = (i - 1) * cfg.depth + Column(s)
  BY SamplesAt, Zenon
<1>2. \A i \in Rows, k \in 1..cfg.depth :
         LET s == (i - 1) * cfg.depth + k
         IN s \in 1..(GraphReqs * cfg.depth) /\ Column(s) = k /\ sample[s].req = batch[i].req
  BY SamplesAt, Zenon
<1>3. ASSUME NEW i \in Rows, NEW k \in 1..cfg.depth
      PROVE  Scattered(batch[i].req, k) = Draft((i - 1) * cfg.depth + k)
  <2> DEFINE r == batch[i].req
             t == (i - 1) * cfg.depth + k
             F == {s \in 1..(GraphReqs * cfg.depth) : sample[s].req = r /\ Column(s) = k}
  <2>1. r \in Reqs
    BY RowType
  <2>2. t \in F
    BY <1>2
  <2>3. ASSUME NEW s \in F PROVE s = t
    <3>1. s \in 1..(GraphReqs * cfg.depth) /\ sample[s].req = r /\ Column(s) = k
      OBVIOUS
    <3>2. PICK j \in Rows : batch[j].req = r /\ s = (j - 1) * cfg.depth + Column(s)
      BY <1>1, <2>1, <3>1
    <3>3. j = i
      BY <3>2 DEF Batch
    <3> QED
      BY <3>1, <3>2, <3>3
  <2> HIDE DEF t, F
  <2>4. F = {t}
    BY <2>2, <2>3
  <2>5. Cardinality({t}) = 1 /\ (CHOOSE s \in {t} : TRUE) = t /\ {t} # {}
    BY FS_Singleton
  <2>6. Scattered(r, k) = IF F = {} THEN logits[r][k]
                          ELSE IF Cardinality(F) = 1 THEN Draft(CHOOSE s \in F : TRUE) ELSE Junk
    BY <1>1, Zenon DEF Scattered, F
  <2>7. Scattered(r, k) = Draft(t)
    BY <2>4, <2>5, <2>6, Zenon
  <2> QED
    BY <2>7 DEF t
<1>4. ASSUME NEW r \in Reqs, NEW k \in 1..cfg.depth, ~ InBatch(r)
      PROVE  Scattered(r, k) = logits[r][k]
  <2> DEFINE F == {s \in 1..(GraphReqs * cfg.depth) : sample[s].req = r /\ Column(s) = k}
  <2>1. F = {}
    BY <1>1, <1>4 DEF InBatch
  <2>2. Scattered(r, k) = IF F = {} THEN logits[r][k]
                          ELSE IF Cardinality(F) = 1 THEN Draft(CHOOSE s \in F : TRUE) ELSE Junk
    BY <1>1, Zenon DEF Scattered
  <2> QED
    BY <2>1, <2>2, Zenon
<1> QED
  BY <1>3, <1>4

-----------------------------------------------------------------------------
(* The return of propose *)

LEMMA Returns ==
  ASSUME Sizes, Config, Buffers, Return, cfg' = cfg
  PROVE  /\ Config' /\ Batch' /\ Tables' /\ Buffers'
         /\ Rows' = {} /\ pc' = "runner" /\ \A r : ~ InBatch(r)'
<1>1. /\ NumQuery' = NumQuery /\ Groups' = Groups /\ MaxReqs' = MaxReqs
      /\ StaleSample' = StaleSample
  BY SameConfig DEF MaxReqs
<1>2. /\ batch' = <<>> /\ pc' = "runner" /\ group' = 1
      /\ table' = [g \in Groups |-> <<>>]
      /\ cslot' = StaleContext /\ qslot' = StaleQuery /\ sample' = StaleSample
      /\ DOMAIN qpos' = DOMAIN qpos
  BY DEF Return
<1>3. Rows' = {}
  BY <1>2 DEF Rows
<1>4. \A r : ~ InBatch(r)'
  BY <1>3 DEF InBatch
<1>5. Config'
  BY <1>1, <1>2 DEF Config, Sizes
<1>6. Batch'
  BY <1>1, <1>2, <1>3 DEF Batch, Sizes
<1>7. \A g : ~ Prepared(g)' /\ ~ Shifted(g)'
  BY <1>2 DEF Prepared, Shifted
<1>8. Tables'
  BY <1>1, <1>2, <1>3, <1>7 DEF Tables
<1>9. Buffers'
  <2>1. DOMAIN cslot' = Groups /\ DOMAIN qslot' = Groups
    BY <1>2 DEF StaleContext, StaleQuery
  <2>2. DOMAIN sample' = 1..(MaxReqs * cfg.depth)
    BY <1>2 DEF StaleSample
  <2>3. DOMAIN qpos' = 1..(MaxReqs * NumQuery)
    BY <1>2 DEF Buffers
  <2> QED
    BY <1>1, <1>7, <2>1, <2>2, <2>3, Zenon DEF Buffers
<1> QED
  BY <1>2, <1>3, <1>4, <1>5, <1>6, <1>8, <1>9

LEMMA Samples ==
  ASSUME IInv, Sample
  PROVE  IInv'
<1>0. /\ Config /\ Requests /\ Batch /\ Tables /\ Buffers /\ Cache /\ Proposals /\ Sizes
  BY SizesHold DEF IInv
<1>1. /\ cfg' = cfg /\ req' = req /\ pc = "attend" /\ pc # "runner" /\ Return
      /\ logits' = [r \in Reqs |-> [k \in 1..cfg.depth |-> Scattered(r, k)]]
      /\ proposal' = [r \in Reqs |->
           IF \E i \in Rows : batch[i].req = r
           THEN LET i == CHOOSE j \in Rows : batch[j].req = r
                IN [k \in 1..cfg.depth |-> Draft((i - 1) * cfg.depth + k)]
           ELSE proposal[r]]
      /\ kv' = [g \in Groups |-> [c \in Cells |->
           IF kv[g][c] # Junk /\ kv[g][c][1] = "query" THEN Junk ELSE kv[g][c]]]
  BY DEF Sample
<1>2. /\ Config' /\ Batch' /\ Tables' /\ Buffers' /\ pc' = "runner" /\ \A r : ~ InBatch(r)'
  BY <1>0, <1>1, Returns
<1>3. \A r : Live(r)' = Live(r) /\ Cached(r)' = Cached(r)
  BY <1>1 DEF Live, Cached
<1>4. \A r, p : Evicted(r, p)' = Evicted(r, p)
  BY <1>1, Zenon DEF Evicted
<1>5. Requests'
  BY <1>0, <1>1, <1>3, Zenon DEF Requests
<1>6. \A g \in Groups : DOMAIN kv'[g] = Cells
  BY <1>1
<1>7. \A g \in Groups, c \in Cells :
         kv'[g][c] = IF kv[g][c] # Junk /\ kv[g][c][1] = "query" THEN Junk ELSE kv[g][c]
  BY <1>1
<1>8. Cache'
  <2>1. DOMAIN kv' = Groups
    BY <1>1
  <2>2. ASSUME NEW g \in Groups, NEW o \in 0..(cfg.block - 1)
        PROVE  kv'[g][<<Null, o>>] = Junk
    <3>1. <<Null, o>> \in Cells
      BY <1>0, CellsApart
    <3>2. kv[g][<<Null, o>>] = Junk
      BY <1>0, Zenon DEF Cache
    <3> QED
      BY <1>7, <3>1, <3>2, Zenon
  <2>3. ASSUME NEW g \in Groups, NEW r \in Reqs, ~ Live(r),
               NEW b \in 0..(Stride - 1), NEW o \in 0..(cfg.block - 1)
        PROVE  kv'[g][<<<<r, b>>, o>>] = Junk
    <3>1. <<<<r, b>>, o>> \in Cells
      BY <1>0, CellsApart
    <3>2. kv[g][<<<<r, b>>, o>>] = Junk
      BY <1>0, <2>3, Zenon DEF Cache
    <3> QED
      BY <1>7, <3>1, <3>2, Zenon
  <2>4. ASSUME NEW g \in Groups, NEW r \in Reqs, Live(r), Fits(req[r].len),
               NEW p \in Cached(r)..(cfg.maxLen - 1), ~ Evicted(r, p)
        PROVE  kv'[g][Cell(r, p)] = Holds(r, p)'
    <3>1. kv[g][Cell(r, p)] = Holds(r, p)
      BY <1>0, <2>4, Zenon DEF Cache
    <3>2. cfg.maxLen \in Nat /\ Cached(r) \in Nat
      BY <1>0, <2>4 DEF Sizes, Requests, Cached
    <3>3. p \in 0..(cfg.maxLen - 1)
      BY <3>2
    <3>4. Cell(r, p) \in Cells
      BY <1>0, <3>3, CellOf
    <3>5. kv'[g][Cell(r, p)] = IF Holds(r, p) # Junk /\ Holds(r, p)[1] = "query" THEN Junk
                               ELSE Holds(r, p)
      <4>1. kv'[g][Cell(r, p)] = IF kv[g][Cell(r, p)] # Junk /\ kv[g][Cell(r, p)][1] = "query"
                                 THEN Junk ELSE kv[g][Cell(r, p)]
        BY <1>7, <3>4
      <4> QED
        BY <3>1, <4>1
    <3>6. Stored(r, p)' <=> Stored(r, p)
      BY <1>1, <1>2 DEF Stored
    <3>7. ~ Drafted(r, p)'
      BY <1>2 DEF Drafted
    <3>8. Holds(r, p)' = IF p \in req[r].missed THEN Junk
                         ELSE IF Stored(r, p) THEN <<"context", r, p>> ELSE Junk
      BY <1>1, <3>6, <3>7, Zenon DEF Holds
    <3>9. <<"context", r, p>>[1] # "query" /\ <<"query", r, p>>[1] = "query"
      OBVIOUS
    <3> QED
      BY <3>5, <3>8, <3>9, Zenon DEF Holds
  <2>5. \A g \in Groups :
           /\ DOMAIN kv'[g] = Cells
           /\ \A o \in 0..(cfg.block - 1) : kv'[g][<<Null, o>>] = Junk
    BY <1>6, <2>2, Zenon
  <2>6. \A g \in Groups : \A r \in Reqs : ~ Live(r)' =>
           \A b \in 0..(Stride - 1), o \in 0..(cfg.block - 1) : kv'[g][<<<<r, b>>, o>>] = Junk
    BY <1>3, <2>3, Zenon
  <2>7. \A g \in Groups : \A r \in Reqs : Live(r)' /\ Fits(req'[r].len) =>
           \A p \in Cached(r)'..(cfg.maxLen - 1) :
              Evicted(r, p)' \/ kv'[g][Cell(r, p)] = Holds(r, p)'
    BY <1>1, <1>3, <1>4, <2>4, Zenon
  <2> QED
    BY <1>1, <2>1, <2>5, <2>6, <2>7, CacheIs, Zenon
<1>9. Proposals'
  <2>1. DOMAIN proposal' = Reqs /\ DOMAIN logits' = Reqs
        /\ \A r \in Reqs : DOMAIN logits'[r] = 1..cfg.depth
    BY <1>1
  <2>2. ASSUME NEW r \in Reqs, ~ InBatch(r)
        PROVE  proposal'[r] = proposal[r] /\ \A k \in 1..cfg.depth : logits'[r][k] = logits[r][k]
    <3>1. proposal'[r] = proposal[r]
      BY <1>1, <2>2 DEF InBatch
    <3>2. \A k \in 1..cfg.depth : logits'[r][k] = Scattered(r, k)
      BY <1>1
    <3> QED
      BY <1>0, <1>1, <2>2, <3>1, <3>2, ScattersAt, Zenon
  <2>3. ASSUME NEW r \in Reqs, ~ Live(r)
        PROVE  proposal'[r] = None
    <3>1. ~ InBatch(r)
      BY <1>0, <2>3, RowType DEF InBatch
    <3> QED
      BY <1>0, <2>2, <2>3, <3>1 DEF Proposals
  <2>4. ASSUME NEW r \in Reqs, Live(r), proposal'[r] \notin {None, <<>>}, Fits(req[r].len),
               NEW k \in 1..cfg.depth
        PROVE  /\ proposal'[r][k] = [req |-> r, pos |-> req[r].len + k, key |-> req[r].len + k]
               /\ logits'[r][k] = proposal'[r][k]
    <3>1. CASE ~ InBatch(r)
      <4>1. proposal'[r] = proposal[r] /\ logits'[r][k] = logits[r][k]
        BY <2>2, <3>1
      <4>2. Own(r)
        BY <1>0, <2>4, <3>1, <4>1, Zenon DEF Proposals
      <4> QED
        BY <4>1, <4>2, Zenon DEF Own
    <3>2. CASE InBatch(r)
      <4> DEFINE i == CHOOSE j \in Rows : batch[j].req = r
      <4>1. i \in Rows /\ batch[i].req = r
        BY <3>2 DEF InBatch
      <4>2. proposal'[r] = [h \in 1..cfg.depth |-> Draft((i - 1) * cfg.depth + h)]
        BY <1>1, <3>2 DEF InBatch
      <4>3. proposal'[r][k] = Draft((i - 1) * cfg.depth + k)
        BY <4>2
      <4>4. logits'[r][k] = Scattered(r, k)
        BY <1>1
      <4> HIDE DEF i
      <4>5. End(i) = req[r].len
        BY <1>0, <4>1, RowType
      <4>6. Scattered(r, k) = Draft((i - 1) * cfg.depth + k)
        BY <1>0, <1>1, <4>1, ScattersAt, Zenon
      <4>7. Draft((i - 1) * cfg.depth + k) = [req |-> r, pos |-> End(i) + k, key |-> End(i) + k]
        <5>1. Fits(End(i))
          BY <2>4, <4>5
        <5> QED
          BY <1>0, <1>1, <4>1, <5>1, SamplesAt, Zenon
      <4> QED
        BY <4>3, <4>4, <4>5, <4>6, <4>7, Zenon
    <3> QED
      BY <3>1, <3>2
  <2>5. \A end : Fits(end)' <=> Fits(end)
    BY <1>1, SameConfig, Zenon
  <2>6. \A r \in Reqs : Live(r) /\ proposal'[r] \notin {None, <<>>} /\ Fits(req[r].len) => Own(r)'
    <3> SUFFICES ASSUME NEW r \in Reqs, Live(r), proposal'[r] \notin {None, <<>>}, Fits(req[r].len)
                 PROVE  Own(r)'
      OBVIOUS
    <3>1. \A k \in 1..cfg.depth :
            /\ proposal'[r][k] = [req |-> r, pos |-> req[r].len + k, key |-> req[r].len + k]
            /\ logits'[r][k] = proposal'[r][k]
      BY <2>4
    <3> QED
      BY <1>1, <3>1, Zenon DEF Own
  <2> QED
    BY <1>1, <1>3, <2>1, <2>3, <2>5, <2>6, Zenon DEF Proposals
<1> QED
  BY <1>2, <1>5, <1>8, <1>9 DEF IInv

LEMMA Declines ==
  ASSUME IInv, Decline
  PROVE  IInv'
<1>0. /\ Config /\ Requests /\ Batch /\ Tables /\ Buffers /\ Cache /\ Proposals /\ Sizes
  BY SizesHold DEF IInv
<1>1. /\ cfg' = cfg /\ kv' = kv /\ logits' = logits /\ pc = "prepare" /\ pc # "runner" /\ Return
      /\ proposal' = [r \in Reqs |->
           IF \E i \in Rows : batch[i].req = r THEN <<>> ELSE proposal[r]]
      /\ req' = [r \in Reqs |->
           IF \E i \in Rows : batch[i].req = r
           THEN [req[r] EXCEPT !.missed = @ \union
                   UNION {batch[i].first..(End(i) - 1) : i \in {j \in Rows : batch[j].req = r}}]
           ELSE req[r]]
  BY DEF Decline
<1>2. /\ Config' /\ Batch' /\ Tables' /\ Buffers' /\ pc' = "runner" /\ \A r : ~ InBatch(r)'
  BY <1>0, <1>1, Returns
<1>3. ASSUME NEW r \in Reqs, ~ InBatch(r) PROVE req'[r] = req[r] /\ proposal'[r] = proposal[r]
  BY <1>1, <1>3 DEF InBatch
<1>4. ASSUME NEW i \in Rows
      PROVE  LET r == batch[i].req
             IN /\ r \in Reqs /\ Live(r) /\ req'[r] # None /\ proposal'[r] = <<>>
                /\ req'[r] \in [prompt : 1..cfg.maxLen, cached : Nat, len : 0..cfg.maxLen,
                                missed : SUBSET Nat]
                /\ req'[r].len = req[r].len /\ req'[r].cached = req[r].cached
                /\ req'[r].missed = req[r].missed \union (batch[i].first..(End(i) - 1))
                /\ req'[r].missed \subseteq Cached(r)..(req[r].len - 1)
  <2> DEFINE r == batch[i].req
             S == batch[i].first..(End(i) - 1)
             T == [prompt : 1..cfg.maxLen, cached : Nat, len : 0..cfg.maxLen, missed : SUBSET Nat]
  <2>1. /\ r \in Reqs /\ Live(r) /\ batch[i].first \in Nat /\ End(i) \in 1..cfg.maxLen
        /\ End(i) = req[r].len /\ Cached(r) \in 0..batch[i].first
    BY <1>0, RowType
  <2>2. req[r] \in T
        /\ req[r].missed \subseteq Cached(r)..(req[r].len - 1)
    BY <1>0, <2>1 DEF Requests
  <2>3. {batch[j].first..(End(j) - 1) : j \in {k \in Rows : batch[k].req = r}} = {S}
    <3>1. {k \in Rows : batch[k].req = r} = {i}
      BY <1>0 DEF Batch
    <3> QED
      BY <3>1
  <2>4. UNION {S} = S
    OBVIOUS
  <2>5. req'[r] = [req[r] EXCEPT !.missed = @ \union S]
    <3>1. \E j \in Rows : batch[j].req = r
      OBVIOUS
    <3>2. req'[r] = [req[r] EXCEPT !.missed = @ \union UNION {batch[j].first..(End(j) - 1) :
                                                   j \in {k \in Rows : batch[k].req = r}}]
      BY <1>1, <2>1, <3>1
    <3> QED
      BY <2>3, <2>4, <3>2, Zenon
  <2>6. proposal'[r] = <<>>
    BY <1>1, <2>1
  <2>7. S \in SUBSET Nat /\ S \subseteq Cached(r)..(req[r].len - 1)
    <3> DEFINE f == batch[i].first
               e == End(i)
               c == Cached(r)
               m == cfg.maxLen
    <3>1. f \in Nat /\ e \in 1..m /\ m \in Nat /\ c \in 0..f /\ req[r].len = e
      BY <1>0, <2>1 DEF Sizes
    <3> HIDE DEF f, e, c, m
    <3>2. f..(e - 1) \in SUBSET Nat /\ f..(e - 1) \subseteq c..(e - 1)
      BY <3>1
    <3> QED
      BY <3>1, <3>2, Zenon DEF f, e, c
  <2> HIDE DEF S, r
  <2>8. /\ req'[r] \in T
        /\ req'[r].len = req[r].len /\ req'[r].cached = req[r].cached
        /\ req'[r].missed = req[r].missed \union S
    BY <2>2, <2>5, <2>7
  <2>9. req'[r] # None
    <3>1. req'[r] \in [prompt : Nat, cached : Nat, len : Nat, missed : SUBSET Nat]
      BY <1>0, <2>8 DEF Sizes
    <3>2. None \notin [prompt : Nat, cached : Nat, len : Nat, missed : SUBSET Nat]
      BY DraftAssumption
    <3> QED
      BY <3>1, <3>2, Zenon
  <2> QED
    BY <2>1, <2>2, <2>6, <2>7, <2>8, <2>9, Zenon DEF S, r
<1>5. ASSUME NEW r \in Reqs
      PROVE  /\ Live(r)' <=> Live(r)
             /\ Live(r) => /\ req'[r].len = req[r].len /\ Cached(r)' = Cached(r)
                           /\ req'[r] \in [prompt : 1..cfg.maxLen, cached : Nat, len : 0..cfg.maxLen,
                                           missed : SUBSET Nat]
                           /\ req'[r].missed \subseteq Cached(r)..(req[r].len - 1)
                           /\ Cached(r) <= req[r].len
  <2>1. CASE InBatch(r)
    <3>1. PICK i \in Rows : batch[i].req = r
      BY <2>1 DEF InBatch
    <3>2. /\ Live(r) /\ req'[r] # None
          /\ req'[r] \in [prompt : 1..cfg.maxLen, cached : Nat, len : 0..cfg.maxLen,
                          missed : SUBSET Nat]
          /\ req'[r].len = req[r].len /\ req'[r].cached = req[r].cached
          /\ req'[r].missed \subseteq Cached(r)..(req[r].len - 1)
      BY <1>4, <3>1, Zenon
    <3>3. Cached(r)' = Cached(r)
      BY <3>2, Zenon DEF Cached
    <3>4. Cached(r) <= req[r].len
      BY <1>0, <3>2, Zenon DEF Requests
    <3> QED
      BY <3>2, <3>3, <3>4, Zenon DEF Live
  <2>2. CASE ~ InBatch(r)
    BY <1>0, <1>3, <2>2, Zenon DEF Live, Cached, Requests
  <2> QED
    BY <2>1, <2>2
<1>6. Requests'
  <2>1. DOMAIN req' = Reqs
    BY <1>1
  <2>2. ASSUME NEW r \in Reqs, Live(r)'
        PROVE  /\ req'[r] \in [prompt : 1..cfg'.maxLen, cached : Nat, len : 0..cfg'.maxLen,
                               missed : SUBSET Nat]
               /\ Cached(r)' <= req'[r].len
               /\ req'[r].missed \subseteq Cached(r)'..(req'[r].len - 1)
    <3>1. /\ req'[r].len = req[r].len /\ Cached(r)' = Cached(r)
          /\ req'[r] \in [prompt : 1..cfg.maxLen, cached : Nat, len : 0..cfg.maxLen,
                          missed : SUBSET Nat]
          /\ req'[r].missed \subseteq Cached(r)..(req[r].len - 1)
          /\ Cached(r) <= req[r].len
      BY <1>5, <2>2, Zenon
    <3>2. cfg'.maxLen = cfg.maxLen
      BY <1>1, Zenon
    <3> QED
      BY <3>1, <3>2, Zenon
  <2> QED
    BY <2>1, <2>2, Zenon DEF Requests
<1>7. ASSUME NEW r \in Reqs, NEW p, Live(r) PROVE Evicted(r, p)' = Evicted(r, p)
  BY <1>1, <1>5, <1>7, Zenon DEF Evicted
<1>8. ASSUME NEW r \in Reqs, Live(r), NEW p \in Cached(r)..(cfg.maxLen - 1)
      PROVE  Holds(r, p)' = Holds(r, p)
  <2>1. /\ ~ Drafted(r, p) /\ ~ Drafted(r, p)'
    BY <1>1, <1>2 DEF Drafted
  <2>2. Stored(r, p)' <=> p < req[r].len
    BY <1>2, <1>5, <1>8 DEF Stored
  <2>3. cfg.maxLen \in Nat /\ Cached(r) \in Nat
    BY <1>0, <1>8 DEF Sizes, Requests, Cached
  <2>4. p \in Nat
    BY <2>3
  <2>5. CASE ~ InBatch(r)
    <3>1. Stored(r, p) <=> p < req[r].len
      BY <2>5 DEF Stored
    <3>2. req'[r].missed = req[r].missed
      BY <1>3, <2>5
    <3> QED
      BY <2>1, <2>2, <3>1, <3>2, Zenon DEF Holds
  <2>6. CASE InBatch(r)
    <3>1. PICK i \in Rows : batch[i].req = r
      BY <2>6 DEF InBatch
    <3>2. \A j \in Rows : batch[j].req = r => j = i
      BY <1>0, <3>1 DEF Batch
    <3>3. Stored(r, p) <=> p < batch[i].first
      <4>1. pc \in {"prepare", "shift", "store"}
        BY <1>1
      <4> QED
        BY <2>6, <3>1, <3>2, <4>1, Zenon DEF Stored
    <3>4. req'[r].missed = req[r].missed \union (batch[i].first..(End(i) - 1))
      BY <1>4, <3>1
    <3>5. batch[i].first \in Nat /\ End(i) = req[r].len /\ batch[i].first < End(i) /\ End(i) \in 1..cfg.maxLen
      BY <1>0, <3>1, RowType
    <3>6. p \in req'[r].missed <=> p \in req[r].missed \/ (p >= batch[i].first /\ p < req[r].len)
      BY <2>3, <2>4, <3>4, <3>5
    <3>7. Stored(r, p)' <=> Stored(r, p) \/ (p >= batch[i].first /\ p < req[r].len)
      BY <2>2, <2>3, <2>4, <3>3, <3>5
    <3>8. Stored(r, p) => ~ (p >= batch[i].first /\ p < req[r].len)
      BY <2>4, <3>3, <3>5
    <3> QED
      BY <2>1, <3>6, <3>7, <3>8 DEF Holds
  <2> QED
    BY <2>5, <2>6
<1>9. Cache'
  <2>1. \A g \in Groups : \A r \in Reqs : Live(r)' /\ Fits(req'[r].len) =>
           \A p \in Cached(r)'..(cfg.maxLen - 1) :
              Evicted(r, p)' \/ kv'[g][Cell(r, p)] = Holds(r, p)'
    <3> SUFFICES ASSUME NEW g \in Groups, NEW r \in Reqs, Live(r)', Fits(req'[r].len),
                        NEW p \in Cached(r)'..(cfg.maxLen - 1)
                 PROVE  Evicted(r, p)' \/ kv'[g][Cell(r, p)] = Holds(r, p)'
      BY Zenon
    <3>1. Live(r) /\ Fits(req[r].len) /\ p \in Cached(r)..(cfg.maxLen - 1)
      BY <1>5, Zenon
    <3>2. Evicted(r, p) \/ kv[g][Cell(r, p)] = Holds(r, p)
      BY <1>0, <3>1, Zenon DEF Cache
    <3> QED
      BY <1>1, <1>7, <1>8, <3>1, <3>2, Zenon
  <2>2. /\ DOMAIN kv' = Groups
        /\ \A g \in Groups :
             /\ DOMAIN kv'[g] = Cells
             /\ \A o \in 0..(cfg.block - 1) : kv'[g][<<Null, o>>] = Junk
    BY <1>0, <1>1, Zenon DEF Cache
  <2>3. \A g \in Groups : \A r \in Reqs : ~ Live(r)' =>
           \A b \in 0..(Stride - 1), o \in 0..(cfg.block - 1) : kv'[g][<<<<r, b>>, o>>] = Junk
    <3>1. \A g \in Groups : \A r \in Reqs : ~ Live(r) =>
            \A b \in 0..(Stride - 1), o \in 0..(cfg.block - 1) : kv[g][<<<<r, b>>, o>>] = Junk
      BY <1>0, Zenon DEF Cache
    <3>2. ASSUME NEW g \in Groups, NEW r \in Reqs, ~ Live(r)',
                 NEW b \in 0..(Stride - 1), NEW o \in 0..(cfg.block - 1)
          PROVE  kv'[g][<<<<r, b>>, o>>] = Junk
      <4>1. ~ Live(r)
        BY <1>5, <3>2, Zenon
      <4>2. kv[g][<<<<r, b>>, o>>] = Junk
        BY <3>1, <4>1, Zenon
      <4> QED
        BY <1>1, <4>2, Zenon
    <3> QED
      BY <3>2, Zenon
  <2> QED
    BY <1>1, <2>1, <2>2, <2>3, CacheIs, Zenon
<1>10. Proposals'
  <2>1. DOMAIN proposal' = Reqs
    BY <1>1
  <2>2. \A r \in Reqs : ~ Live(r)' => proposal'[r] = None
    <3> SUFFICES ASSUME NEW r \in Reqs, ~ Live(r)' PROVE proposal'[r] = None
      OBVIOUS
    <3>1. ~ Live(r)
      BY <1>5
    <3>2. ~ InBatch(r)
      BY <1>0, <3>1, RowType DEF InBatch
    <3> QED
      BY <1>0, <1>3, <3>1, <3>2 DEF Proposals
  <2>3. \A end : Fits(end)' <=> Fits(end)
    BY <1>1, SameConfig, Zenon
  <2>4. \A r \in Reqs : Live(r)' /\ proposal'[r] \notin {None, <<>>} /\ Fits(req'[r].len) => Own(r)'
    <3> SUFFICES ASSUME NEW r \in Reqs, Live(r)', proposal'[r] \notin {None, <<>>}, Fits(req'[r].len)
                 PROVE  Own(r)'
      OBVIOUS
    <3>1. ~ InBatch(r)
      BY <1>4 DEF InBatch
    <3>2. req'[r] = req[r] /\ proposal'[r] = proposal[r] /\ Live(r)
      BY <1>3, <1>5, <3>1
    <3>3. Own(r)
      BY <1>0, <3>1, <3>2, Zenon DEF Proposals
    <3> QED
      BY <1>1, <3>2, <3>3, Zenon DEF Own
  <2> QED
    BY <1>0, <1>1, <2>1, <2>2, <2>3, <2>4, Zenon DEF Proposals
<1> QED
  BY <1>2, <1>6, <1>9, <1>10 DEF IInv

-----------------------------------------------------------------------------
(* The runner *)

\* Between two steps there are no rows, and nothing depends on the inputs.
LEMMA Idles ==
  ASSUME Sizes, Config, Batch, Tables, Buffers, pc = "runner",
         UNCHANGED <<cfg, batch, pc, group, tables, rows>>
  PROVE  /\ Config' /\ Batch' /\ Tables' /\ Buffers'
         /\ Rows = {} /\ \A r : ~ InBatch(r) /\ ~ InBatch(r)'
         /\ \A r, p : /\ Stored(r, p) <=> p < req[r].len
                      /\ Stored(r, p)' <=> p < req'[r].len
                      /\ ~ Drafted(r, p) /\ ~ Drafted(r, p)'
<1>1. /\ NumQuery' = NumQuery /\ Groups' = Groups /\ MaxReqs' = MaxReqs
  BY SameConfig DEF MaxReqs
<1>2. /\ batch = <<>> /\ batch' = <<>> /\ Rows = {} /\ Rows' = {} /\ pc' = "runner"
  BY DEF Batch, Rows
<1>3. \A r : ~ InBatch(r) /\ ~ InBatch(r)'
  BY <1>2 DEF InBatch
<1>4. Config'
  BY <1>1 DEF Config
<1>5. Batch'
  BY <1>1, <1>2 DEF Batch, Sizes
<1>6. \A g : ~ Prepared(g)' /\ ~ Shifted(g)'
  BY <1>2 DEF Prepared, Shifted
<1>7. Tables'
  <2>1. table' = table
    BY DEF tables
  <2> QED
    BY <1>1, <1>2, <1>6, <2>1 DEF Tables
<1>8. Buffers'
  <2>1. cslot' = cslot /\ qslot' = qslot /\ qpos' = qpos /\ sample' = sample
    BY DEF rows
  <2> QED
    BY <1>1, <1>6, <2>1, Zenon DEF Buffers
<1>9. \A r, p : /\ Stored(r, p) <=> p < req[r].len
                /\ Stored(r, p)' <=> p < req'[r].len
                /\ ~ Drafted(r, p) /\ ~ Drafted(r, p)'
  BY <1>2 DEF Stored, Drafted
<1> QED
  BY <1>2, <1>3, <1>4, <1>5, <1>7, <1>8, <1>9

LEMMA Admits ==
  ASSUME IInv, NEW r \in Reqs, NEW p \in cfg.prompts, Admit(r, p[1], p[2])
  PROVE  IInv'
<1>0. /\ Config /\ Requests /\ Batch /\ Tables /\ Buffers /\ Cache /\ Proposals /\ Sizes
  BY SizesHold DEF IInv
<1> DEFINE new == [prompt |-> p[1], cached |-> p[2], len |-> p[2], missed |-> {}]
<1>1. /\ UNCHANGED <<cfg, batch, pc, group, tables, rows>> /\ cfg' = cfg /\ kv' = kv
      /\ proposal' = proposal /\ logits' = logits
      /\ pc = "runner" /\ ~ Live(r) /\ p[2] < p[1] /\ req' = [req EXCEPT ![r] = new]
  BY DEF Admit, outputs
<1>2. /\ Config' /\ Batch' /\ Tables' /\ Buffers'
      /\ \A s : ~ InBatch(s) /\ ~ InBatch(s)'
      /\ \A s, q : /\ Stored(s, q) <=> q < req[s].len
                   /\ Stored(s, q)' <=> q < req'[s].len
                   /\ ~ Drafted(s, q) /\ ~ Drafted(s, q)'
  BY <1>0, <1>1, Idles
<1>3. DOMAIN req = Reqs
  BY <1>0 DEF Requests
<1>4. DOMAIN req' = Reqs /\ req'[r] = new /\ \A s \in Reqs \ {r} : req'[s] = req[s]
  BY <1>1, <1>3
<1>5. /\ new \in [prompt : 1..cfg.maxLen, cached : Nat, len : 0..cfg.maxLen, missed : SUBSET Nat]
      /\ new # None /\ new.len = p[2] /\ new.cached = p[2] /\ new.missed = {}
      /\ p[2] \in Nat
  <2>1. p[1] \in 1..cfg.maxLen /\ p[2] \in Nat /\ cfg.maxLen \in Nat
    BY <1>0 DEF Sizes
  <2>2. p[2] \in 0..cfg.maxLen
    BY <1>1, <2>1
  <2>3. new \in [prompt : Nat, cached : Nat, len : Nat, missed : SUBSET Nat]
    BY <2>1
  <2>4. None \notin [prompt : Nat, cached : Nat, len : Nat, missed : SUBSET Nat]
    BY DraftAssumption
  <2>5. new # None
    BY <2>3, <2>4, Zenon
  <2> QED
    BY <2>1, <2>2, <2>5
<1> HIDE DEF new
<1>6. Live(r)' /\ Cached(r)' = p[2]
  BY <1>4, <1>5 DEF Live, Cached
<1>7. \A s \in Reqs \ {r} : /\ Live(s)' = Live(s) /\ Cached(s)' = Cached(s)
                            /\ \A q : Evicted(s, q)' = Evicted(s, q) /\ Holds(s, q)' = Holds(s, q)
  <2> SUFFICES ASSUME NEW s \in Reqs \ {r}
               PROVE  /\ Live(s)' = Live(s) /\ Cached(s)' = Cached(s)
                      /\ \A q : Evicted(s, q)' = Evicted(s, q) /\ Holds(s, q)' = Holds(s, q)
    OBVIOUS
  <2>1. req'[s] = req[s]
    BY <1>4
  <2>2. Live(s)' = Live(s) /\ Cached(s)' = Cached(s)
    BY <2>1, Zenon DEF Live, Cached
  <2>3. \A q : Evicted(s, q)' = Evicted(s, q)
    BY <1>1, <2>1, Zenon DEF Evicted
  <2>4. \A q : Holds(s, q)' = Holds(s, q)
    BY <1>2, <2>1, Zenon DEF Holds
  <2> QED
    BY <2>2, <2>3, <2>4
<1>8. Requests'
  <2>1. ASSUME NEW s \in Reqs, Live(s)'
        PROVE  /\ req'[s] \in [prompt : 1..cfg.maxLen, cached : Nat, len : 0..cfg.maxLen,
                               missed : SUBSET Nat]
               /\ Cached(s)' <= req'[s].len
               /\ req'[s].missed \subseteq Cached(s)'..(req'[s].len - 1)
    <3>1. CASE s = r
      BY <1>4, <1>5, <1>6, <3>1
    <3>2. CASE s # r
      <4>1. s \in Reqs \ {r}
        BY <3>2
      <4>2. Live(s) /\ req'[s] = req[s] /\ Cached(s)' = Cached(s)
        BY <1>4, <1>7, <2>1, <4>1
      <4> QED
        BY <1>0, <4>2, Zenon DEF Requests
    <3> QED
      BY <3>1, <3>2
  <2>2. cfg'.maxLen = cfg.maxLen
    BY <1>1
  <2> QED
    BY <1>4, <2>1, <2>2, Zenon DEF Requests
<1>9. Cache'
  <2>1. ASSUME NEW g \in Groups, NEW s \in Reqs, Live(s)', Fits(req'[s].len),
               NEW q \in Cached(s)'..(cfg.maxLen - 1)
        PROVE  Evicted(s, q)' \/ kv'[g][Cell(s, q)] = Holds(s, q)'
    <3>1. CASE s = r
      <4>1. q \in 0..(cfg.maxLen - 1) /\ ~ (q < req'[r].len)
        <5>1. cfg.maxLen \in Nat
          BY <1>0 DEF Sizes
        <5>2. q \in p[2]..(cfg.maxLen - 1)
          BY <1>6, <3>1
        <5>3. req'[r].len = p[2]
          BY <1>4, <1>5
        <5> QED
          BY <1>5, <5>1, <5>2, <5>3
      <4>2. Holds(r, q)' = Junk
        BY <1>2, <4>1, Zenon DEF Holds
      <4> DEFINE b == q \div cfg.block
                 o == q % cfg.block
      <4>3. b \in 0..(Stride - 1)
        BY <1>0, <4>1, CellOf
      <4>4. o \in 0..(cfg.block - 1)
        <5> DEFINE B == cfg.block
        <5>1. B \in Nat \ {0} /\ q \in Int
          BY <1>0, <4>1 DEF Sizes
        <5> HIDE DEF B
        <5>2. q % B \in 0..(B - 1)
          BY <5>1, Remainder
        <5> QED
          BY <5>2, Zenon DEF B
      <4>5. Cell(r, q) = <<<<r, b>>, o>>
        BY DEF Cell
      <4> HIDE DEF b, o
      <4>6. kv[g][<<<<r, b>>, o>>] = Junk
        BY <1>0, <1>1, <4>3, <4>4, Zenon DEF Cache
      <4> QED
        BY <1>1, <3>1, <4>2, <4>5, <4>6
    <3>2. CASE s # r
      <4>1. s \in Reqs \ {r}
        BY <3>2
      <4>2. /\ Live(s) /\ req'[s] = req[s] /\ Cached(s)' = Cached(s)
            /\ Evicted(s, q)' = Evicted(s, q) /\ Holds(s, q)' = Holds(s, q)
        BY <1>4, <1>7, <2>1, <4>1
      <4> QED
        BY <1>0, <1>1, <2>1, <4>2, Zenon DEF Cache
    <3> QED
      BY <3>1, <3>2
  <2>2. /\ DOMAIN kv' = Groups
        /\ \A g \in Groups :
             /\ DOMAIN kv'[g] = Cells
             /\ \A o \in 0..(cfg.block - 1) : kv'[g][<<Null, o>>] = Junk
    BY <1>0, <1>1, Zenon DEF Cache
  <2>3. ASSUME NEW g \in Groups, NEW s \in Reqs, ~ Live(s)',
               NEW b \in 0..(Stride - 1), NEW o \in 0..(cfg.block - 1)
        PROVE  kv'[g][<<<<s, b>>, o>>] = Junk
    <3>1. s \in Reqs \ {r}
      BY <1>6, <2>3
    <3>2. ~ Live(s)
      BY <1>7, <2>3, <3>1
    <3>3. kv[g][<<<<s, b>>, o>>] = Junk
      BY <1>0, <3>2, Zenon DEF Cache
    <3> QED
      BY <1>1, <3>3, Zenon
  <2> QED
    BY <1>1, <2>1, <2>2, <2>3, CacheIs, Zenon
<1>10. Proposals'
  <2>1. \A end : Fits(end)' <=> Fits(end)
    BY <1>1, SameConfig, Zenon
  <2>2. ASSUME NEW s \in Reqs, Live(s)', proposal'[s] \notin {None, <<>>}, Fits(req'[s].len)
        PROVE  Own(s)'
    <3>1. s # r
      BY <1>0, <1>1, <2>2 DEF Proposals
    <3>2. Live(s) /\ req'[s] = req[s]
      BY <1>4, <1>7, <2>2, <3>1
    <3>3. Own(s)
      BY <1>0, <1>1, <1>2, <2>2, <3>2, Zenon DEF Proposals
    <3> QED
      BY <1>1, <3>2, <3>3, Zenon DEF Own
  <2>3. ASSUME NEW s \in Reqs, ~ Live(s)' PROVE proposal'[s] = None
    <3>1. s # r
      BY <1>6, <2>3
    <3> QED
      BY <1>0, <1>1, <1>7, <2>3, <3>1 DEF Proposals
  <2> QED
    BY <1>0, <1>1, <2>1, <2>2, <2>3, Zenon DEF Proposals
<1> QED
  BY <1>2, <1>8, <1>9, <1>10 DEF IInv

LEMMA Releases ==
  ASSUME IInv, NEW r \in Reqs, Release(r)
  PROVE  IInv'
<1>0. /\ Config /\ Requests /\ Batch /\ Tables /\ Buffers /\ Cache /\ Proposals /\ Sizes
  BY SizesHold DEF IInv
<1>1. /\ UNCHANGED <<cfg, batch, pc, group, tables, rows>> /\ cfg' = cfg
      /\ pc = "runner" /\ req' = [req EXCEPT ![r] = None]
      /\ kv' = [g \in Groups |-> [c \in Cells |->
           IF c[1] # Null /\ c[1][1] = r THEN Junk ELSE kv[g][c]]]
      /\ proposal' = [proposal EXCEPT ![r] = None]
      /\ logits' = [logits EXCEPT ![r] = [k \in 1..cfg.depth |-> None]]
  BY DEF Release
<1>2. /\ Config' /\ Batch' /\ Tables' /\ Buffers'
      /\ \A s : ~ InBatch(s) /\ ~ InBatch(s)'
      /\ \A s, q : /\ Stored(s, q) <=> q < req[s].len
                   /\ Stored(s, q)' <=> q < req'[s].len
                   /\ ~ Drafted(s, q) /\ ~ Drafted(s, q)'
  BY <1>0, <1>1, Idles
<1>3. DOMAIN req = Reqs
  BY <1>0 DEF Requests
<1>4. DOMAIN req' = Reqs /\ req'[r] = None /\ \A s \in Reqs \ {r} : req'[s] = req[s]
  BY <1>1, <1>3
<1>5. ~ Live(r)'
  BY <1>4 DEF Live
<1>6. \A s \in Reqs \ {r} : /\ Live(s)' = Live(s) /\ Cached(s)' = Cached(s)
                            /\ \A q : Evicted(s, q)' = Evicted(s, q) /\ Holds(s, q)' = Holds(s, q)
  <2> SUFFICES ASSUME NEW s \in Reqs \ {r}
               PROVE  /\ Live(s)' = Live(s) /\ Cached(s)' = Cached(s)
                      /\ \A q : Evicted(s, q)' = Evicted(s, q) /\ Holds(s, q)' = Holds(s, q)
    OBVIOUS
  <2>1. req'[s] = req[s]
    BY <1>4
  <2>2. Live(s)' = Live(s) /\ Cached(s)' = Cached(s)
    BY <2>1, Zenon DEF Live, Cached
  <2>3. \A q : Evicted(s, q)' = Evicted(s, q)
    BY <1>1, <2>1, Zenon DEF Evicted
  <2>4. \A q : Holds(s, q)' = Holds(s, q)
    BY <1>2, <2>1, Zenon DEF Holds
  <2> QED
    BY <2>2, <2>3, <2>4
<1>7. ASSUME NEW s \in Reqs, Live(s)'
      PROVE  s \in Reqs \ {r} /\ Live(s) /\ req'[s] = req[s] /\ Cached(s)' = Cached(s)
             /\ \A q : Evicted(s, q)' = Evicted(s, q) /\ Holds(s, q)' = Holds(s, q)
  <2>1. s \in Reqs \ {r}
    BY <1>5, <1>7
  <2> QED
    BY <1>4, <1>6, <1>7, <2>1, Zenon
<1>8. Requests'
  <2>1. ASSUME NEW s \in Reqs, Live(s)'
        PROVE  /\ req'[s] \in [prompt : 1..cfg.maxLen, cached : Nat, len : 0..cfg.maxLen,
                               missed : SUBSET Nat]
               /\ Cached(s)' <= req'[s].len
               /\ req'[s].missed \subseteq Cached(s)'..(req'[s].len - 1)
    BY <1>0, <1>7, <2>1, Zenon DEF Requests
  <2>2. cfg'.maxLen = cfg.maxLen
    BY <1>1
  <2> QED
    BY <1>4, <2>1, <2>2, Zenon DEF Requests
<1>9. Cache'
  <2>1. DOMAIN kv' = Groups /\ \A g \in Groups : DOMAIN kv'[g] = Cells
    BY <1>1
  <2>2. \A g \in Groups, c \in Cells :
           kv'[g][c] = IF c[1] # Null /\ c[1][1] = r THEN Junk ELSE kv[g][c]
    BY <1>1
  <2>3. ASSUME NEW g \in Groups, NEW o \in 0..(cfg.block - 1)
        PROVE  kv'[g][<<Null, o>>] = Junk
    <3>1. <<Null, o>> \in Cells
      BY <1>0, CellsApart
    <3>2. kv[g][<<Null, o>>] = Junk
      BY <1>0, Zenon DEF Cache
    <3> QED
      BY <2>2, <3>1, <3>2
  <2>4. ASSUME NEW g \in Groups, NEW s \in Reqs, ~ Live(s)',
               NEW b \in 0..(Stride - 1), NEW o \in 0..(cfg.block - 1)
        PROVE  kv'[g][<<<<s, b>>, o>>] = Junk
    <3>1. <<<<s, b>>, o>> \in Cells /\ <<s, b>> # Null
      BY <1>0, CellsApart
    <3>2. CASE s = r
      BY <2>2, <3>1, <3>2
    <3>3. CASE s # r
      <4>1. ~ Live(s)
        BY <1>6, <2>4, <3>3
      <4>2. kv[g][<<<<s, b>>, o>>] = Junk
        BY <1>0, <4>1, Zenon DEF Cache
      <4> QED
        BY <2>2, <3>1, <4>2
    <3> QED
      BY <3>2, <3>3
  <2>5. ASSUME NEW g \in Groups, NEW s \in Reqs, Live(s)', Fits(req'[s].len),
               NEW q \in Cached(s)'..(cfg.maxLen - 1)
        PROVE  Evicted(s, q)' \/ kv'[g][Cell(s, q)] = Holds(s, q)'
    <3>1. /\ s \in Reqs \ {r} /\ Live(s) /\ req'[s] = req[s] /\ Cached(s)' = Cached(s)
          /\ Evicted(s, q)' = Evicted(s, q) /\ Holds(s, q)' = Holds(s, q)
      BY <1>7, <2>5, Zenon
    <3>2. Evicted(s, q) \/ kv[g][Cell(s, q)] = Holds(s, q)
      BY <1>0, <2>5, <3>1, Zenon DEF Cache
    <3>3. Cell(s, q) \in Cells
      <4>1. cfg.maxLen \in Nat /\ Cached(s) \in Nat
        BY <1>0, <3>1 DEF Sizes, Requests, Cached
      <4>2. q \in Cached(s)..(cfg.maxLen - 1)
        BY <3>1, <2>5
      <4>3. q \in 0..(cfg.maxLen - 1)
        BY <4>1, <4>2
      <4> QED
        BY <1>0, <4>3, CellOf
    <3>4. Cell(s, q)[1][1] = s
      BY DEF Cell
    <3>5. kv'[g][Cell(s, q)] = kv[g][Cell(s, q)]
      BY <2>2, <3>1, <3>3, <3>4
    <3> QED
      BY <3>1, <3>2, <3>5, Zenon
  <2> QED
    BY <1>1, <2>1, <2>3, <2>4, <2>5, CacheIs, Zenon
<1>10. Proposals'
  <2>1. \A end : Fits(end)' <=> Fits(end)
    BY <1>1, SameConfig, Zenon
  <2>2. /\ DOMAIN proposal = Reqs /\ DOMAIN logits = Reqs
        /\ \A s \in Reqs : DOMAIN logits[s] = 1..cfg.depth
    BY <1>0 DEF Proposals
  <2>3. /\ DOMAIN proposal' = Reqs /\ DOMAIN logits' = Reqs /\ proposal'[r] = None
        /\ \A s \in Reqs : DOMAIN logits'[s] = 1..cfg.depth
        /\ \A s \in Reqs \ {r} : proposal'[s] = proposal[s] /\ logits'[s] = logits[s]
    BY <1>1, <2>2
  <2>4. ASSUME NEW s \in Reqs, Live(s)', proposal'[s] \notin {None, <<>>}, Fits(req'[s].len)
        PROVE  Own(s)'
    <3>1. s \in Reqs \ {r} /\ Live(s) /\ req'[s] = req[s]
      BY <1>7, <2>4
    <3>2. proposal'[s] = proposal[s] /\ logits'[s] = logits[s]
      BY <2>3, <3>1
    <3>3. Own(s)
      BY <1>0, <1>2, <2>4, <3>1, <3>2, Zenon DEF Proposals
    <3> QED
      BY <1>1, <3>1, <3>2, <3>3, Zenon DEF Own
  <2>5. ASSUME NEW s \in Reqs, ~ Live(s)' PROVE proposal'[s] = None
    <3>1. CASE s = r
      BY <2>3, <3>1
    <3>2. CASE s # r
      <4>1. ~ Live(s)
        BY <1>6, <2>5, <3>2
      <4> QED
        BY <1>0, <2>3, <3>2, <4>1 DEF Proposals
    <3> QED
      BY <3>1, <3>2
  <2>6. cfg'.depth = cfg.depth
    BY <1>1
  <2> QED
    BY <1>1, <2>1, <2>3, <2>4, <2>5, <2>6, Zenon DEF Proposals
<1> QED
  BY <1>2, <1>8, <1>9, <1>10 DEF IInv

\* What a request is fed in a step leaves it within its block table.
LEMMA Feeds ==
  ASSUME Sizes, Requests, NEW r \in Reqs, Live(r), req[r].len + 1 < cfg.maxLen,
         NEW f \in Feed(r), f.rejected < f.fed
  PROVE  /\ f.fed \in 1..(cfg.maxLen + cfg.depth + 1) /\ f.rejected \in Nat
         /\ req[r].len \in Nat /\ Cached(r) \in 0..req[r].len
         /\ req[r].len + f.fed - f.rejected \in (req[r].len + 1)..cfg.maxLen
         /\ \A p \in req[r].missed : p < req[r].len
<1> DEFINE l == req[r].len
           m == cfg.maxLen
           d == cfg.depth
           left == req[r].prompt - l
           room == m - l
<1>1. /\ l \in 0..m /\ m \in Nat \ {0} /\ d \in Nat \ {0} /\ req[r].prompt \in 1..m
      /\ Cached(r) \in Nat /\ Cached(r) <= l /\ req[r].missed \subseteq Cached(r)..(l - 1)
      /\ l + 1 < m
  <2>1. req[r] \in [prompt : 1..cfg.maxLen, cached : Nat, len : 0..cfg.maxLen, missed : SUBSET Nat]
    BY DEF Requests
  <2>2. Cached(r) <= req[r].len /\ req[r].missed \subseteq Cached(r)..(req[r].len - 1)
    BY DEF Requests
  <2> QED
    BY <2>1, <2>2 DEF Sizes, Cached
<1>2. /\ left > 0 => \E n \in 1..left : f = [fed |-> n, rejected |-> 0]
      /\ ~ (left > 0) => \E n \in {1, Least(d + 1, room)}, k \in 0..d : f = [fed |-> n, rejected |-> k]
  BY DEF Feed
<1> DEFINE n == f.fed
           x == f.rejected
<1>3. x < n
  OBVIOUS
<1> HIDE DEF l, m, d, n, x
<1>4. n \in 1..(m + d + 1) /\ x \in Nat /\ l + n <= m
  <2>1. CASE left > 0
    <3>1. n \in 1..left /\ x = 0
      BY <1>2, <2>1 DEF n, x
    <3> QED
      BY <1>1, <2>1, <3>1
  <2>2. CASE ~ (left > 0)
    <3>1. n \in {1, Least(d + 1, room)} /\ x \in 0..d
      BY <1>2, <2>2 DEF n, x
    <3>2. Least(d + 1, room) \in 1..(d + 1) /\ Least(d + 1, room) <= room
      BY <1>1 DEF Least
    <3>3. n \in 1..(d + 1) /\ n <= room
      BY <1>1, <3>1, <3>2
    <3> HIDE DEF room
    <3>4. room = m - l
      BY DEF room
    <3> QED
      BY <1>1, <3>1, <3>3, <3>4
  <2> QED
    BY <2>1, <2>2
<1>5. l + n - x \in (l + 1)..m /\ l \in Nat /\ Cached(r) \in 0..l
  BY <1>1, <1>3, <1>4
<1>6. \A p \in req[r].missed : p < l
  BY <1>1
<1> QED
  BY <1>4, <1>5, <1>6 DEF l, m, d, n, x

LEMMA Targets ==
  ASSUME IInv, NEW n \in 1..MaxReqs, NEW rs \in [1..n -> Reqs], IsInjective(rs),
         NEW feed, Target(rs, feed)
  PROVE  IInv'
<1>0. /\ Config /\ Requests /\ Batch /\ Tables /\ Buffers /\ Cache /\ Proposals /\ Sizes
  BY SizesHold DEF IInv
<1> DEFINE end(i) == req[rs[i]].len + feed[i].fed - feed[i].rejected
<1>1. /\ cfg' = cfg /\ rows' = rows /\ kv' = kv /\ outputs' = outputs
      /\ pc = "runner" /\ pc' = "prepare" /\ group' = 1
      /\ \A i \in 1..n : /\ Live(rs[i]) /\ req[rs[i]].len + 1 < cfg.maxLen
                         /\ feed[i] \in Feed(rs[i]) /\ feed[i].rejected < feed[i].fed
      /\ Tokens(feed, Len(rs)) <= cfg.tokens
      /\ batch' = [i \in 1..n |->
           [req |-> rs[i], fed |-> feed[i].fed, rejected |-> feed[i].rejected,
            first |-> req[rs[i]].len, start |-> Tokens(feed, i - 1)]]
      /\ req' = [r \in Reqs |->
           IF r \in Range(rs)
           THEN [req[r] EXCEPT !.len =
                   LET i == CHOOSE j \in 1..n : rs[j] = r
                   IN @ + feed[i].fed - feed[i].rejected]
           ELSE req[r]]
      /\ table' = [g \in Groups |-> [i \in 1..n |-> BlockRow(rs[i], req'[rs[i]].len)]]
  BY DEF Target
<1>2. n \in Nat \ {0} /\ n <= MaxReqs /\ MaxReqs \in Nat /\ Len(rs) = n
  BY <1>0 DEF Sizes
<1>3. \A i, j \in 1..n : rs[i] = rs[j] => i = j
  BY DEF IsInjective
<1>4. NumQuery' = NumQuery /\ Stride' = Stride /\ Groups' = Groups
      /\ \A x : Fits(x)' <=> Fits(x)
  BY <1>1, SameConfig
<1>5. ASSUME NEW i \in 1..n
      PROVE  /\ rs[i] \in Reqs /\ Live(rs[i])
             /\ feed[i].fed \in 1..(cfg.maxLen + cfg.depth + 1) /\ feed[i].rejected \in Nat
             /\ feed[i].rejected < feed[i].fed
             /\ req[rs[i]].len \in Nat /\ Cached(rs[i]) \in 0..req[rs[i]].len
             /\ end(i) \in (req[rs[i]].len + 1)..cfg.maxLen
             /\ \A p \in req[rs[i]].missed : p < req[rs[i]].len
             /\ req'[rs[i]] = [req[rs[i]] EXCEPT !.len = end(i)]
  <2>1. rs[i] \in Reqs /\ Live(rs[i]) /\ feed[i].rejected < feed[i].fed
    BY <1>1
  <2>2. /\ feed[i].fed \in 1..(cfg.maxLen + cfg.depth + 1) /\ feed[i].rejected \in Nat
        /\ req[rs[i]].len \in Nat /\ Cached(rs[i]) \in 0..req[rs[i]].len
        /\ end(i) \in (req[rs[i]].len + 1)..cfg.maxLen
        /\ \A p \in req[rs[i]].missed : p < req[rs[i]].len
    BY <1>0, <1>1, <2>1, Feeds, Zenon
  <2>3. req'[rs[i]] = [req[rs[i]] EXCEPT !.len = end(i)]
    <3>1. rs[i] \in Range(rs)
      BY DEF Range
    <3>2. (CHOOSE j \in 1..n : rs[j] = rs[i]) = i
      BY <1>3
    <3>3. req'[rs[i]] = [req[rs[i]] EXCEPT !.len =
                           LET k == CHOOSE j \in 1..n : rs[j] = rs[i]
                           IN @ + feed[k].fed - feed[k].rejected]
      BY <1>1, <2>1, <3>1
    <3> QED
      BY <3>2, <3>3, Zenon
  <2> QED
    BY <2>1, <2>2, <2>3
<1> HIDE DEF end
<1>6. ASSUME NEW i \in 1..n
      PROVE  /\ req'[rs[i]] \in [prompt : 1..cfg.maxLen, cached : Nat, len : 0..cfg.maxLen,
                                 missed : SUBSET Nat]
             /\ req'[rs[i]] # None /\ req'[rs[i]].len = end(i)
             /\ req'[rs[i]].cached = req[rs[i]].cached /\ req'[rs[i]].missed = req[rs[i]].missed
  <2> DEFINE T == [prompt : 1..cfg.maxLen, cached : Nat, len : 0..cfg.maxLen, missed : SUBSET Nat]
  <2>1. req[rs[i]] \in T
    BY <1>0, <1>5 DEF Requests
  <2>2. end(i) \in 0..cfg.maxLen
    <3> DEFINE l == req[rs[i]].len
               m == cfg.maxLen
    <3>1. l \in Nat /\ end(i) \in (l + 1)..m /\ m \in Nat
      BY <1>0, <1>5 DEF Sizes
    <3> HIDE DEF l, m
    <3>2. end(i) \in 0..m
      BY <3>1
    <3> QED
      BY <3>2 DEF m
  <2>3. /\ req'[rs[i]] \in T /\ req'[rs[i]].len = end(i)
        /\ req'[rs[i]].cached = req[rs[i]].cached /\ req'[rs[i]].missed = req[rs[i]].missed
    <3>1. req'[rs[i]] = [req[rs[i]] EXCEPT !.len = end(i)]
      BY <1>5
    <3> QED
      BY <2>1, <2>2, <3>1
  <2>4. req'[rs[i]] \in [prompt : Nat, cached : Nat, len : Nat, missed : SUBSET Nat]
    <3> DEFINE m == cfg.maxLen
               x == req'[rs[i]]
    <3>1. x \in [prompt : 1..m, cached : Nat, len : 0..m, missed : SUBSET Nat]
      BY <2>3
    <3>2. m \in Nat
      BY <1>0 DEF Sizes
    <3> HIDE DEF m, x
    <3>3. 1..m \subseteq Nat /\ 0..m \subseteq Nat
      BY <3>2
    <3>4. x \in [prompt : Nat, cached : Nat, len : Nat, missed : SUBSET Nat]
      BY <3>1, <3>3
    <3> QED
      BY <3>4 DEF x
  <2>5. None \notin [prompt : Nat, cached : Nat, len : Nat, missed : SUBSET Nat]
    BY DraftAssumption
  <2>6. req'[rs[i]] # None
    BY <2>4, <2>5, Zenon
  <2> QED
    BY <2>3, <2>6
<1>7. ASSUME NEW r \in Reqs, r \notin Range(rs) PROVE req'[r] = req[r]
  BY <1>1, <1>7
<1>8. ASSUME NEW r \in Reqs
      PROVE  \/ \E i \in 1..n : r = rs[i]
             \/ r \notin Range(rs)
  BY DEF Range
<1>9. \A r \in Reqs : (Live(r)' <=> Live(r)) /\ (Live(r) => /\ Cached(r)' = Cached(r)
                                                            /\ req'[r].missed = req[r].missed)
  <2> SUFFICES ASSUME NEW r \in Reqs
               PROVE  (Live(r)' <=> Live(r)) /\ (Live(r) => /\ Cached(r)' = Cached(r)
                                                            /\ req'[r].missed = req[r].missed)
    OBVIOUS
  <2>1. CASE \E i \in 1..n : r = rs[i]
    <3>1. PICK i \in 1..n : r = rs[i]
      BY <2>1
    <3>2. Live(r) /\ req'[r] # None /\ req'[r].cached = req[r].cached /\ req'[r].missed = req[r].missed
      BY <1>5, <1>6, <3>1
    <3> QED
      BY <3>2, Zenon DEF Live, Cached
  <2>2. CASE r \notin Range(rs)
    BY <1>7, <2>2, Zenon DEF Live, Cached
  <2> QED
    BY <1>8, <2>1, <2>2
<1>10. Requests'
  <2>1. ASSUME NEW r \in Reqs, Live(r)'
        PROVE  /\ req'[r] \in [prompt : 1..cfg.maxLen, cached : Nat, len : 0..cfg.maxLen,
                               missed : SUBSET Nat]
               /\ Cached(r)' <= req'[r].len
               /\ req'[r].missed \subseteq Cached(r)'..(req'[r].len - 1)
    <3>0. Live(r) /\ Cached(r)' = Cached(r) /\ req'[r].missed = req[r].missed
      BY <1>9, <2>1
    <3>1. CASE \E i \in 1..n : r = rs[i]
      <4>1. PICK i \in 1..n : r = rs[i]
        BY <3>1
      <4>2. /\ req'[r] \in [prompt : 1..cfg.maxLen, cached : Nat, len : 0..cfg.maxLen,
                            missed : SUBSET Nat]
            /\ req'[r].len = end(i)
        BY <1>6, <4>1
      <4>3. req[r].len \in Nat /\ Cached(r) \in 0..req[r].len /\ end(i) \in (req[r].len + 1)..cfg.maxLen
        BY <1>5, <4>1
      <4>4. req[r].missed \subseteq Cached(r)..(req[r].len - 1)
        BY <1>0, <3>0 DEF Requests
      <4>5. cfg.maxLen \in Nat
        BY <1>0 DEF Sizes
      <4>6. Cached(r) <= end(i) /\ req[r].missed \subseteq Cached(r)..(end(i) - 1)
        <5> DEFINE c == Cached(r)
                   l == req[r].len
                   e == end(i)
                   m == cfg.maxLen
                   S == req[r].missed
        <5>1. l \in Nat /\ c \in 0..l /\ m \in Nat /\ e \in (l + 1)..m /\ S \subseteq c..(l - 1)
          BY <4>3, <4>4, <4>5, Zenon
        <5> HIDE DEF c, l, e, m, S
        <5>2. c <= e /\ S \subseteq c..(e - 1)
          BY <5>1
        <5> QED
          BY <5>2 DEF c, e, S
      <4> QED
        BY <3>0, <4>2, <4>6, Zenon
    <3>2. CASE r \notin Range(rs)
      <4>1. req'[r] = req[r]
        BY <1>7, <3>2
      <4> QED
        BY <1>0, <3>0, <4>1, Zenon DEF Requests
    <3> QED
      BY <1>8, <3>1, <3>2
  <2>2. cfg'.maxLen = cfg.maxLen /\ DOMAIN req' = Reqs
    BY <1>1
  <2> QED
    BY <2>1, <2>2, Zenon DEF Requests
<1>11. /\ \A i \in 0..n : Tokens(feed, i) \in Nat
       /\ Tokens(feed, 0) = 0
       /\ \A i \in 1..n : Tokens(feed, i) = Tokens(feed, i - 1) + feed[i].fed
       /\ \A i, j \in 0..n : i <= j => Tokens(feed, i) <= Tokens(feed, j)
  <2> DEFINE m == cfg.maxLen + cfg.depth + 1
  <2>1. m \in Nat
    BY <1>0 DEF Sizes
  <2>2. \A i \in 1..n : feed[i].fed \in 1..m
    BY <1>5
  <2> HIDE DEF m
  <2>3. \A i \in 1..n : feed[i].fed \in 0..m
    BY <2>1, <2>2
  <2>4. n \in Nat
    BY <1>2
  <2> QED
    BY <2>1, <2>3, <2>4, TokensAdd, Zenon
<1>12. /\ Rows' = 1..n /\ Len(batch') = n
       /\ \A i \in 1..n :
            /\ batch'[i].req = rs[i] /\ batch'[i].fed = feed[i].fed
            /\ batch'[i].rejected = feed[i].rejected /\ batch'[i].first = req[rs[i]].len
            /\ batch'[i].start = Tokens(feed, i - 1)
            /\ batch'[i] \in Row
            /\ End(i)' = end(i) /\ LastToken(i)' = Tokens(feed, i)
  <2>1. Rows' = 1..n
    BY <1>1 DEF Rows
  <2>2. Len(batch') = n
    BY <1>1, <1>2
  <2>3. ASSUME NEW i \in 1..n
        PROVE  /\ batch'[i].req = rs[i] /\ batch'[i].fed = feed[i].fed
               /\ batch'[i].rejected = feed[i].rejected /\ batch'[i].first = req[rs[i]].len
               /\ batch'[i].start = Tokens(feed, i - 1)
               /\ batch'[i] \in Row
               /\ End(i)' = end(i) /\ LastToken(i)' = Tokens(feed, i)
    <3>1. batch'[i] = [req |-> rs[i], fed |-> feed[i].fed, rejected |-> feed[i].rejected,
                       first |-> req[rs[i]].len, start |-> Tokens(feed, i - 1)]
      BY <1>1
    <3>2. i - 1 \in 0..n /\ i \in 0..n
      BY <1>2
    <3>3. Tokens(feed, i - 1) \in Nat /\ Tokens(feed, i) = Tokens(feed, i - 1) + feed[i].fed
      BY <1>11, <3>2
    <3>4. /\ batch'[i].req = rs[i] /\ batch'[i].fed = feed[i].fed
          /\ batch'[i].rejected = feed[i].rejected /\ batch'[i].first = req[rs[i]].len
          /\ batch'[i].start = Tokens(feed, i - 1)
      BY <3>1
    <3>5. End(i)' = end(i)
      BY <3>4, Zenon DEF End, end
    <3>6. LastToken(i)' = Tokens(feed, i)
      BY <3>3, <3>4, Zenon DEF LastToken
    <3>7. /\ rs[i] \in Reqs /\ feed[i].fed \in 1..(cfg.maxLen + cfg.depth + 1)
          /\ feed[i].rejected \in Nat /\ req[rs[i]].len \in Nat
      BY <1>5
    <3>8. feed[i].fed \in Nat \ {0}
      <4>1. cfg.maxLen + cfg.depth + 1 \in Nat
        BY <1>0 DEF Sizes
      <4> QED
        BY <3>7, <4>1
    <3>9. batch'[i] \in Row
      BY <3>1, <3>3, <3>7, <3>8 DEF Row
    <3> QED
      BY <3>4, <3>5, <3>6, <3>9
  <2> QED
    BY <2>1, <2>2, <2>3
<1>13. Batch'
  <2>1. batch' \in Seq(Row)
    <3>1. batch' \in [1..n -> Row]
      BY <1>1, <1>12
    <3> QED
      BY <1>2, <3>1
  <2>2. pc' # "runner" /\ batch' # <<>> /\ batch'[1].start = 0
    <3>1. batch' # <<>>
      BY <1>2, <1>12
    <3>2. batch'[1].start = Tokens(feed, 1 - 1)
      BY <1>2, <1>12
    <3>3. 1 - 1 = 0
      OBVIOUS
    <3> QED
      BY <1>1, <1>11, <3>1, <3>2, <3>3
  <2>3. NumTokens' <= cfg'.tokens
    <3>1. LastToken(n)' = Tokens(feed, n)
      BY <1>2, <1>12
    <3>2. NumTokens' = LastToken(n)'
      BY <1>12, Zenon DEF NumTokens, LastToken
    <3>3. Tokens(feed, n) <= cfg.tokens
      BY <1>1, <1>2
    <3> QED
      BY <1>1, <3>1, <3>2, <3>3
  <2>4. ASSUME NEW i \in 1..n
        PROVE  /\ req'[batch'[i].req] # None /\ batch'[i].rejected < batch'[i].fed
               /\ req'[batch'[i].req].cached <= batch'[i].first
               /\ End(i)' = req'[batch'[i].req].len
               /\ \A p \in req'[batch'[i].req].missed : p < batch'[i].first
    <3> DEFINE r == rs[i]
    <3>1. /\ batch'[i].req = r /\ batch'[i].fed = feed[i].fed
          /\ batch'[i].rejected = feed[i].rejected /\ batch'[i].first = req[r].len
          /\ End(i)' = end(i)
      BY <1>12
    <3>2. /\ r \in Reqs /\ Live(r) /\ feed[i].rejected < feed[i].fed
          /\ req[r].len \in Nat /\ Cached(r) \in 0..req[r].len
          /\ \A p \in req[r].missed : p < req[r].len
      BY <1>5
    <3>3. req'[r] # None /\ req'[r].len = end(i) /\ req'[r].cached = req[r].cached
          /\ req'[r].missed = req[r].missed
      BY <1>6
    <3>4. req[r].cached <= req[r].len
      BY <3>2 DEF Cached
    <3> HIDE DEF r
    <3> QED
      BY <3>1, <3>2, <3>3, <3>4
  <2>5. ASSUME NEW i \in 1..n
        PROVE  /\ i > 1 => batch'[i].start = LastToken(i - 1)'
               /\ \A j \in 1..n : j # i => batch'[j].req # batch'[i].req
               /\ \A j \in 1..n : i < j => LastToken(i)' <= batch'[j].start
    <3>1. ASSUME i > 1 PROVE batch'[i].start = LastToken(i - 1)'
      <4>1. i - 1 \in 1..n
        BY <1>2, <3>1
      <4> QED
        BY <1>12, <4>1
    <3>2. ASSUME NEW j \in 1..n, j # i PROVE batch'[j].req # batch'[i].req
      BY <1>3, <1>12, <3>2
    <3>3. ASSUME NEW j \in 1..n, i < j PROVE LastToken(i)' <= batch'[j].start
      <4>1. i \in 0..n /\ j - 1 \in 0..n /\ i <= j - 1
        BY <1>2, <3>3
      <4>2. Tokens(feed, i) <= Tokens(feed, j - 1)
        BY <1>11, <4>1
      <4> QED
        BY <1>12, <4>2
    <3> QED
      BY <3>1, <3>2, <3>3
  <2>6. Len(batch') <= MaxReqs'
    BY <1>2, <1>12 DEF MaxReqs
  <2> QED
    BY <1>12, <2>1, <2>2, <2>3, <2>4, <2>5, <2>6, Zenon DEF Batch, Live, Cached
<1>14. \A g \in Groups : ~ Prepared(g)' /\ ~ Shifted(g)'
  <2>1. \A g \in Groups : ~ (g < 1)
    BY <1>0 DEF Sizes
  <2> QED
    BY <1>1, <2>1 DEF Prepared, Shifted
<1>15. 1 \in Groups /\ cfg.groups \in Groups
  BY <1>0 DEF Sizes
<1>16. Config'
  BY <1>0, <1>1, <1>4, <1>15 DEF Config
<1>17. Tables'
  <2>1. DOMAIN table' = Groups /\ \A g \in Groups : DOMAIN table'[g] = 1..n
    BY <1>1
  <2>2. ASSUME NEW g \in Groups, NEW i \in 1..n PROVE table'[g][i] = Gathered(i)'
    <3>1. table'[g][i] = BlockRow(rs[i], end(i))
      BY <1>1, <1>6
    <3>2. Gathered(i)' = BlockRow(rs[i], end(i))
      BY <1>1, <1>4, <1>12, Zenon DEF Gathered, BlockRow
    <3> QED
      BY <3>1, <3>2
  <2>3. ~ Prepared(1)'
    BY <1>14, <1>15
  <2> QED
    BY <1>4, <1>12, <1>14, <2>1, <2>2, <2>3 DEF Tables
<1>18. Buffers'
  <2>1. cslot' = cslot /\ qslot' = qslot /\ qpos' = qpos /\ sample' = sample /\ MaxReqs' = MaxReqs
    BY <1>1 DEF rows, MaxReqs
  <2>2. ~ Prepared(1)'
    BY <1>14, <1>15
  <2> QED
    BY <1>0, <1>1, <1>4, <1>14, <2>1, <2>2, Zenon DEF Buffers
<1>19. ASSUME NEW r \in Reqs, Live(r)
       PROVE  /\ req[r].len \in Nat /\ req'[r].len \in Nat /\ req[r].len <= req'[r].len
              /\ \A p : Stored(r, p) <=> p < req[r].len
              /\ \A p : Stored(r, p)' <=> p < req[r].len
  <2>1. ~ InBatch(r) /\ \A p : Stored(r, p) <=> p < req[r].len
    <3>1. batch = <<>>
      BY <1>0, <1>1, Zenon DEF Batch
    <3>2. ~ InBatch(r)
      BY <3>1 DEF InBatch, Rows
    <3> QED
      BY <3>2, Zenon DEF Stored
  <2>2. CASE \E i \in 1..n : r = rs[i]
    <3>1. PICK i \in 1..n : r = rs[i]
      BY <2>2
    <3>2. req[r].len \in Nat /\ end(i) \in (req[r].len + 1)..cfg.maxLen /\ req'[r].len = end(i)
          /\ cfg.maxLen \in Nat
      BY <1>0, <1>5, <1>6, <3>1 DEF Sizes
    <3>3. InBatch(r)'
      BY <1>12, <3>1 DEF InBatch
    <3>4. \A j \in 1..n : batch'[j].req = r <=> j = i
      BY <1>3, <1>12, <3>1
    <3>5. batch'[i].first = req[r].len
      BY <1>12, <3>1
    <3>6. \A p : Stored(r, p)' <=> p < req[r].len
      <4>1. pc' \in {"prepare", "shift", "store"}
        BY <1>1
      <4>2. \A p : Stored(r, p)' <=> \E j \in Rows' : batch'[j].req = r /\ p < batch'[j].first
        BY <3>3, <4>1, Zenon DEF Stored
      <4> QED
        BY <1>12, <3>4, <3>5, <4>2
    <3> QED
      BY <2>1, <3>2, <3>6
  <2>3. CASE r \notin Range(rs)
    <3>1. req'[r] = req[r]
      BY <1>7, <2>3
    <3>2. ~ InBatch(r)'
      BY <1>12, <2>3 DEF InBatch, Range
    <3>3. \A p : Stored(r, p)' <=> p < req'[r].len
      BY <3>2 DEF Stored
    <3>4. req[r].len \in Nat
      BY <1>0, <1>19 DEF Requests, Sizes
    <3> QED
      BY <2>1, <3>1, <3>3, <3>4
  <2> QED
    BY <1>8, <2>2, <2>3
<1>20. Cache'
  <2>1. ASSUME NEW g \in Groups, NEW r \in Reqs, Live(r)', Fits(req'[r].len),
               NEW p \in Cached(r)'..(cfg.maxLen - 1)
        PROVE  Evicted(r, p)' \/ kv'[g][Cell(r, p)] = Holds(r, p)'
    <3>1. Live(r) /\ Cached(r)' = Cached(r) /\ req'[r].missed = req[r].missed
      BY <1>9, <2>1
    <3>2. /\ req[r].len \in Nat /\ req'[r].len \in Nat /\ req[r].len <= req'[r].len
          /\ Stored(r, p) <=> Stored(r, p)'
      BY <1>19, <3>1
    <3>3. Fits(req[r].len)
      <4> DEFINE l == req[r].len
                 k == req'[r].len
                 m == cfg.maxLen
      <4>1. l \in Nat /\ k \in Nat /\ l <= k /\ m \in Nat /\ NumQuery \in Nat
        BY <1>0, <3>2 DEF Sizes
      <4>2. k + NumQuery <= m
        BY <2>1 DEF Fits
      <4> HIDE DEF l, k, m
      <4>3. l + NumQuery <= m
        BY <4>1, <4>2
      <4> QED
        BY <4>3 DEF Fits, l, m
    <3>4. Evicted(r, p) \/ kv[g][Cell(r, p)] = Holds(r, p)
      BY <1>0, <2>1, <3>1, <3>3, Zenon DEF Cache
    <3>5. ~ Drafted(r, p) /\ ~ Drafted(r, p)'
      BY <1>1 DEF Drafted
    <3>6. Holds(r, p)' = Holds(r, p)
      BY <3>1, <3>2, <3>5, Zenon DEF Holds
    <3>7. Evicted(r, p) => Evicted(r, p)'
      <4> DEFINE x == ((p \div cfg.block) + 1) * cfg.block
                 l == req[r].len
                 k == req'[r].len
                 w == cfg.window
      <4>1. w \in Nat /\ l \in Nat /\ k \in Nat /\ l <= k
        BY <1>0, <3>2 DEF Sizes
      <4>2. Evicted(r, p) <=> w > 0 /\ x <= l - w + 1
        BY DEF Evicted
      <4>3. Evicted(r, p)' <=> w > 0 /\ x <= k - w + 1
        BY <1>1, Zenon DEF Evicted
      <4>4. x \in Int
        <5>1. cfg.maxLen \in Nat /\ Cached(r) \in Nat /\ cfg.block \in Nat \ {0}
          BY <1>0, <3>1 DEF Sizes, Requests, Cached
        <5>2. p \in Int
          BY <2>1
        <5> DEFINE B == cfg.block
                   d == p \div B
        <5>3. d \in Int /\ B \in Int
          BY <5>1, <5>2
        <5> HIDE DEF B, d
        <5>4. (d + 1) * B \in Int
          BY <5>3
        <5> QED
          BY <5>4 DEF d, B
      <4> HIDE DEF x, l, k, w
      <4> QED
        BY <4>1, <4>2, <4>3, <4>4
    <3> QED
      BY <1>1, <3>4, <3>6, <3>7, Zenon
  <2>2. /\ DOMAIN kv' = Groups
        /\ \A g \in Groups :
             /\ DOMAIN kv'[g] = Cells
             /\ \A o \in 0..(cfg.block - 1) : kv'[g][<<Null, o>>] = Junk
    BY <1>0, <1>1, Zenon DEF Cache
  <2>3. ASSUME NEW g \in Groups, NEW r \in Reqs, ~ Live(r)',
               NEW b \in 0..(Stride - 1), NEW o \in 0..(cfg.block - 1)
        PROVE  kv'[g][<<<<r, b>>, o>>] = Junk
    <3>1. ~ Live(r)
      BY <1>9, <2>3
    <3>2. kv[g][<<<<r, b>>, o>>] = Junk
      BY <1>0, <3>1, Zenon DEF Cache
    <3> QED
      BY <1>1, <3>2, Zenon
  <2> QED
    BY <1>1, <2>1, <2>2, <2>3, CacheIs, Zenon
<1>21. Proposals'
  <2>1. proposal' = proposal /\ logits' = logits
    BY <1>1 DEF outputs
  <2>2. ASSUME NEW r \in Reqs, Live(r)', ~ InBatch(r)', proposal'[r] \notin {None, <<>>},
               Fits(req'[r].len)
        PROVE  Own(r)'
    <3>1. r \notin Range(rs)
      BY <1>12, <2>2 DEF InBatch, Range
    <3>2. req'[r] = req[r] /\ Live(r)
      BY <1>7, <1>9, <2>2, <3>1
    <3>3. ~ InBatch(r)
      <4>1. batch = <<>>
        BY <1>0, <1>1, Zenon DEF Batch
      <4> QED
        BY <4>1 DEF InBatch, Rows
    <3>4. Own(r)
      BY <1>0, <2>1, <2>2, <3>2, <3>3, Zenon DEF Proposals
    <3> QED
      BY <1>1, <2>1, <3>2, <3>4, Zenon DEF Own
  <2>3. \A r \in Reqs : ~ Live(r)' => proposal'[r] = None
    BY <1>0, <1>9, <2>1 DEF Proposals
  <2> QED
    BY <1>0, <1>1, <1>4, <2>1, <2>2, <2>3, Zenon DEF Proposals
<1> QED
  BY <1>10, <1>13, <1>16, <1>17, <1>18, <1>20, <1>21 DEF IInv

-----------------------------------------------------------------------------
(* The theorems *)

LEMMA Stutters ==
  ASSUME IInv, UNCHANGED vars
  PROVE  IInv'
<1>1. /\ cfg' = cfg /\ req' = req /\ batch' = batch /\ pc' = pc /\ group' = group
      /\ table' = table /\ seqLens' = seqLens /\ kv' = kv
      /\ cslot' = cslot /\ cpos' = cpos /\ qslot' = qslot /\ qpos' = qpos /\ sample' = sample
      /\ proposal' = proposal /\ logits' = logits
  BY Zenon DEF vars, tables, rows, outputs
<1>2. /\ NumQuery' = NumQuery /\ Stride' = Stride /\ Groups' = Groups /\ Cells' = Cells
      /\ \A end : Fits(end)' <=> Fits(end)
  BY <1>1, SameConfig
<1>3. /\ Rows' = Rows /\ NumTokens' = NumTokens /\ ContextRows' = ContextRows
      /\ Unaligned' = Unaligned
      /\ \A r : Live(r)' = Live(r) /\ Cached(r)' = Cached(r) /\ InBatch(r)' = InBatch(r)
      /\ \A r, p : Evicted(r, p)' = Evicted(r, p)
      /\ \A i : /\ End(i)' = End(i) /\ LastToken(i)' = LastToken(i)
                /\ Gathered(i)' = Gathered(i) /\ DraftLen(i)' = DraftLen(i)
                /\ KeptLen(i)' = KeptLen(i) /\ Kept(i)' = Kept(i)
      /\ \A i, p : SlotIn(i, p)' = SlotIn(i, p)
      /\ \A t : RowOf(t)' = RowOf(t) /\ PosOf(t)' = PosOf(t)
      /\ \A q : RowOfQuery(q)' = RowOfQuery(q) /\ QueryPos(q)' = QueryPos(q)
                /\ IsQuery(q)' = IsQuery(q)
      /\ \A s : SampleRow(s)' = SampleRow(s)
  BY <1>1, SameBatch, Zenon
<1>4. \A g : Prepared(g)' = Prepared(g) /\ Shifted(g)' = Shifted(g)
  BY <1>1, Zenon DEF Prepared, Shifted
<1>5. MaxReqs' = MaxReqs
  BY DEF MaxReqs
<1>6. Config'
  BY <1>1, <1>2, Zenon DEF IInv, Config
<1>7. Requests'
  BY <1>1, <1>3, Zenon DEF IInv, Requests
<1>8. Batch'
  BY <1>1, <1>3, <1>5, Zenon DEF IInv, Batch
<1>9. Tables'
  BY <1>1, <1>2, <1>3, <1>4, Zenon DEF IInv, Tables
<1>10. Buffers'
  BY <1>1, <1>2, <1>3, <1>4, <1>5, Zenon DEF IInv, Buffers, Least
<1>11. \A r, p : Stored(r, p)' = Stored(r, p) /\ Drafted(r, p)' = Drafted(r, p)
  BY <1>1, <1>2, <1>3, Zenon DEF Stored, Drafted
<1>12. \A r, p : Holds(r, p)' = Holds(r, p)
  BY <1>1, <1>11, Zenon DEF Holds
<1>13. Cache'
  <2>1. ASSUME NEW g \in Groups, NEW r \in Reqs, Live(r)', Fits(req'[r].len),
               NEW p \in Cached(r)'..(cfg.maxLen - 1)
        PROVE  Evicted(r, p)' \/ kv'[g][Cell(r, p)] = Holds(r, p)'
    <3>1. Live(r) /\ Fits(req[r].len) /\ p \in Cached(r)..(cfg.maxLen - 1)
      BY <1>1, <1>2, <1>3, <2>1
    <3>2. Evicted(r, p) \/ kv[g][Cell(r, p)] = Holds(r, p)
      BY <3>1, Zenon DEF IInv, Cache
    <3> QED
      BY <1>1, <1>3, <1>12, <3>2, Zenon
  <2>2. /\ DOMAIN kv = Groups
        /\ \A g \in Groups :
             /\ DOMAIN kv[g] = Cells
             /\ \A o \in 0..(cfg.block - 1) : kv[g][<<Null, o>>] = Junk
             /\ \A r \in Reqs : ~ Live(r) =>
                  \A b \in 0..(Stride - 1), o \in 0..(cfg.block - 1) :
                     kv[g][<<<<r, b>>, o>>] = Junk
    BY Zenon DEF IInv, Cache
  <2> QED
    BY <1>1, <1>3, <2>1, <2>2, CacheIs, Zenon
<1>14. \A r : Own(r)' = Own(r)
  BY <1>1, Zenon DEF Own
<1>15. Proposals'
  BY <1>1, <1>2, <1>3, <1>14, Zenon DEF IInv, Proposals
<1> QED
  BY <1>6, <1>7, <1>8, <1>9, <1>10, <1>13, <1>15 DEF IInv

LEMMA Keeps ==
  ASSUME IInv, [Next]_vars
  PROVE  IInv'
<1>1. CASE UNCHANGED vars
  BY <1>1, Stutters
<1>2. ASSUME NEW r \in Reqs, NEW p \in cfg.prompts, Admit(r, p[1], p[2]) PROVE IInv'
  BY <1>2, Admits
<1>3. ASSUME NEW r \in Reqs, Release(r) PROVE IInv'
  BY <1>3, Releases
<1>4. ASSUME NEW rs \in UNION {[1..n -> Reqs] : n \in 1..MaxReqs}, IsInjective(rs),
             NEW feed, Target(rs, feed)
      PROVE  IInv'
  <2>1. PICK n \in 1..MaxReqs : rs \in [1..n -> Reqs]
    OBVIOUS
  <2> QED
    BY <1>4, <2>1, Targets
<1> QED
  BY <1>1, <1>2, <1>3, <1>4, Declines, Prepares, Shifts, Stores, Forwards, Samples, Zenon DEF Next

(* The invariant holds of every reachable state: batch, block tables, input *)
(* buffers and KV cells are what the kernels of propose that have run so   *)
(* far have made of them.                                                  *)
THEOREM DraftInvariant == Spec => []IInv
<1>1. Init => IInv
  BY Starts
<1>2. IInv /\ [Next]_vars => IInv'
  BY Keeps
<1> QED
  BY <1>1, <1>2, PTL DEF Spec

(* Every live request has computed at least its cached prefix and never    *)
(* past its block table, and block tables and KV caches keep the rows and  *)
(* the cells propose addresses.                                            *)
THEOREM TypeCorrect == Spec => []TypeOK
<1>1. IInv => TypeOK
  <2> SUFFICES ASSUME IInv PROVE TypeOK
    OBVIOUS
  <2>1. Config /\ Requests /\ Tables /\ Cache /\ Sizes
    BY SizesHold DEF IInv
  <2>2. ASSUME NEW r \in Reqs, Live(r)
        PROVE  req[r].len \in Cached(r)..cfg.maxLen /\ req[r].missed \subseteq Cached(r)..cfg.maxLen
    <3> DEFINE c == req[r].cached
               l == req[r].len
               m == cfg.maxLen
               S == req[r].missed
    <3>1. c \in Nat /\ l \in 0..m /\ m \in Nat /\ c <= l /\ S \subseteq c..(l - 1)
      BY <2>1, <2>2 DEF Requests, Cached, Sizes
    <3> HIDE DEF c, l, m, S
    <3>2. l \in c..m /\ S \subseteq c..m
      BY <3>1
    <3> QED
      BY <3>2 DEF c, l, m, S, Cached
  <2>3. \A g \in Groups : DOMAIN table[g] = Rows /\ DOMAIN kv[g] = Cells
    BY <2>1, Zenon DEF Tables, Cache
  <2> QED
    BY <2>1, <2>2, <2>3 DEF Config, TypeOK
<1> QED
  BY <1>1, DraftInvariant, PTL

(* Attention of a draft reads, through every group's shifted block table,  *)
(* the context of consecutive positions of its own request and then its    *)
(* own draft block: propose's preparation kernels, the shift of            *)
(* _shift_block_tables and the lengths shared by the groups fit together   *)
(* for every choice of block size, window, cached prefix and captured size.*)
THEOREM ReadsItsContext == Spec => []DraftReadsItsContext
<1>1. IInv => DraftReadsItsContext
  BY ReadsContext
<1> QED
  BY <1>1, DraftInvariant, PTL

(* Between two steps the draft KV of every live request, in the batch or   *)
(* not, is the context of its own positions, and the null block is never   *)
(* written: neither the padding rows of a captured graph nor the query     *)
(* rows of another request disturb it.                                     *)
THEOREM KeepsContext == Spec => []ContextKept
<1>1. IInv => ContextKept
  BY KeepsTheContext
<1> QED
  BY <1>1, DraftInvariant, PTL

(* The drafts propose returned for a request, and the logits kept for the  *)
(* target's verification, stay its own through the steps of the others.    *)
THEOREM ProposesOwn == Spec => []ProposalsAreOwn
<1>1. IInv => ProposalsAreOwn
  BY ProposesItsOwn
<1> QED
  BY <1>1, DraftInvariant, PTL

(* draft_max_seq_len bounds the sequence length of every row attention is  *)
(* launched for.                                                           *)
THEOREM AttentionIsPlanned == Spec => []AttentionPlanned
<1>1. IInv => AttentionPlanned
  BY PlansAttention
<1> QED
  BY <1>1, DraftInvariant, PTL

=============================================================================
