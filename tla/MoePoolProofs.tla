--------------------------- MODULE MoePoolProofs ----------------------------
(***************************************************************************)
(* The workspaces of the pool and the scratch of the callers are large     *)
(* enough for every call that finds them, and a frozen pool stays as it    *)
(* is: for every set of shapes, token counts and plans.                    *)
(***************************************************************************)
EXTENDS MoePool, FiniteSetTheorems, WellFoundedInduction, TLAPS

USE DEF Positive

-----------------------------------------------------------------------------
(* Numbers *)

LEMMA CeilNat ==
  ASSUME NEW a \in Nat, NEW b \in Positive
  PROVE  Ceil(a, b) \in Nat /\ Ceil(a, b) * b >= a /\ (a > 0 => Ceil(a, b) > 0)
BY DEF Ceil

LEMMA CeilMono ==
  ASSUME NEW a \in Nat, NEW c \in Nat, NEW b \in Positive, a <= c
  PROVE  Ceil(a, b) <= Ceil(c, b)
BY DEF Ceil

LEMMA CeilTimes ==
  ASSUME NEW m \in Nat, NEW b \in Positive
  PROVE  Ceil(m * b, b) = m
BY DEF Ceil

LEMMA AlignUpNat ==
  ASSUME NEW a \in Nat, NEW b \in Positive
  PROVE  AlignUp(a, b) \in Nat /\ AlignUp(a, b) >= a
BY CeilNat DEF AlignUp

LEMMA TimesMono ==
  ASSUME NEW a \in Nat, NEW c \in Nat, NEW b \in Nat, a <= c
  PROVE  a * b \in Nat /\ c * b \in Nat /\ a * b <= c * b /\ b * a <= b * c
OBVIOUS

LEMMA TimesLess ==
  ASSUME NEW a \in Nat, NEW c \in Nat, NEW b \in Positive, a < c
  PROVE  a * b < c * b
OBVIOUS

-----------------------------------------------------------------------------
(* Least and greatest members of sets of naturals *)

LEMMA MinIn ==
  ASSUME NEW S \in SUBSET Nat, S # {}
  PROVE  Min(S) \in S /\ \A k \in S : Min(S) <= k
<1>1. PICK n \in S : \A k \in S : <<k, n>> \notin OpToRel(<, Nat)
  BY NatLessThanWellFounded, WFMin, Zenon
<1>2. \A k \in S : ~(k < n)
  BY <1>1, Zenon DEF OpToRel
<1>3. \A k \in S : n <= k
  BY <1>2
<1>4. QED
  BY <1>3 DEF Min

LEMMA MinPair ==
  ASSUME NEW a \in Nat, NEW b \in Nat
  PROVE  Min({a, b}) = IF a <= b THEN a ELSE b
<1>1. Min({a, b}) \in {a, b} /\ \A k \in {a, b} : Min({a, b}) <= k
  BY MinIn
<1>2. QED
  BY <1>1

LEMMA MaxIn ==
  ASSUME NEW S \in SUBSET Nat, S # {}, NEW n \in Nat, \A k \in S : k <= n
  PROVE  Max(S) \in S /\ Max(S) \in Nat /\ \A k \in S : k <= Max(S)
<1> DEFINE B == {b \in Nat : \A k \in S : k <= b}
<1>1. B \in SUBSET Nat /\ B # {}
  OBVIOUS
<1>2. PICK u \in B : \A b \in B : u <= b
  BY <1>1, MinIn
<1>3. u \in S
  <2> SUFFICES ASSUME u \notin S PROVE FALSE
    OBVIOUS
  <2>1. u \in Nat /\ \A k \in S : k \in Nat /\ k < u
    BY <1>2
  <2>2. PICK x \in S : TRUE
    OBVIOUS
  <2>3. x \in Nat /\ x < u
    BY <2>1, <2>2
  <2>4. u - 1 \in Nat /\ \A k \in S : k <= u - 1
    BY <2>1, <2>3
  <2>5. QED
    BY <1>2, <2>1, <2>4
<1>4. \E x \in S : \A y \in S : x >= y
  BY <1>2, <1>3
<1>5. Max(S) \in S /\ \A y \in S : Max(S) >= y
  BY <1>4 DEF Max
<1>6. QED
  BY <1>5

LEMMA MaxPair ==
  ASSUME NEW a \in Nat, NEW b \in Nat
  PROVE  Max({a, b}) = IF a <= b THEN b ELSE a
<1>1. Max({a, b}) \in {a, b} /\ \A k \in {a, b} : k <= Max({a, b})
  <2>1. \A k \in {a, b} : k <= a + b
    OBVIOUS
  <2>2. a + b \in Nat /\ {a, b} \in SUBSET Nat /\ {a, b} # {}
    OBVIOUS
  <2>3. QED
    BY <2>1, <2>2, MaxIn
<1>2. QED
  BY <1>1

LEMMA MaxOne == ASSUME NEW a \in Nat PROVE Max({a}) = a
BY MaxIn

(* A finite set of naturals has a bound: of its subsets without one a      *)
(* smallest would lose its last member and still have none.                *)
LEMMA FiniteBounded ==
  ASSUME NEW S \in SUBSET Nat, IsFiniteSet(S)
  PROVE  \E n \in Nat : \A k \in S : k <= n
<1> DEFINE Bounded(T) == \E n \in Nat : \A k \in T : k <= n
           U == {T \in SUBSET S : ~Bounded(T)}
<1> SUFFICES ASSUME U # {} PROVE FALSE
  OBVIOUS
<1>1. IsWellFoundedOn(StrictSubsetOrdering(S), SUBSET S)
  BY FS_StrictSubsetOrderingWellFounded, FS_FiniteSubsetsOfFinite
<1> HIDE DEF Bounded
<1>2. PICK T \in U : \A V \in U : ~(<<V, T>> \in StrictSubsetOrdering(S))
  <2>1. U \subseteq SUBSET S
    OBVIOUS
  <2>2. \A R, P : IsWellFoundedOn(R, P) =>
          \A T : T \subseteq P /\ T # {} => \E x \in T : \A y \in T : ~(<<y, x>> \in R)
    BY WFMin
  <2> HIDE DEF U
  <2>3. QED
    BY <1>1, <2>1, <2>2, Zenon
<1>3. T # {}
  BY DEF Bounded
<1>4. PICK x \in T : TRUE
  BY <1>3
<1>5. Bounded(T \ {x})
  <2>1. <<T \ {x}, T>> \in StrictSubsetOrdering(S)
    BY <1>4 DEF StrictSubsetOrdering
  <2>2. QED
    BY <1>2, <2>1
<1>6. PICK n \in Nat : \A k \in T \ {x} : k <= n
  BY <1>5 DEF Bounded
<1>7. x \in Nat /\ \A k \in T : k \in Nat
  BY <1>4
<1>8. \A k \in T : k <= n + x
  BY <1>6, <1>7
<1>9. n + x \in Nat
  BY <1>7
<1>10. Bounded(T)
  BY <1>8, <1>9 DEF Bounded
<1>11. QED
  BY <1>10

LEMMA FiniteMax ==
  ASSUME NEW S \in SUBSET Nat, S # {}, IsFiniteSet(S)
  PROVE  Max(S) \in S /\ Max(S) \in Nat /\ \A k \in S : k <= Max(S)
BY FiniteBounded, MaxIn

-----------------------------------------------------------------------------
(* Route packing: block sizes and slots *)

BlockSizes == {8, 16, 32, 48, 64}

LEMMA Sizes ==
  /\ RoutedSizes[1] = 8 /\ RoutedSizes[2] = 16 /\ RoutedSizes[3] = 32
  /\ RoutedSizes[4] = 48 /\ RoutedSizes[5] = 64
  /\ \A i \in 1 .. 5 : RoutedSizes[i] \in BlockSizes
BY DEF RoutedSizes, BlockSizes

(* The sizes with room for the average expert. *)
Roomy(f, m) == {i \in 1 .. 5 : 10 * m * f.topk < 9 * RoutedSizes[i] * f.experts}

LEMMA BlockIndexIs ==
  ASSUME NEW f, NEW m
  PROVE  /\ BlockIndex(f, m) \in 1 .. 5
         /\ IF Roomy(f, m) = {} THEN BlockIndex(f, m) = 5 ELSE BlockIndex(f, m) \in Roomy(f, m)
         /\ \A i \in Roomy(f, m) : BlockIndex(f, m) <= i
<1>1. BlockIndex(f, m) = IF Roomy(f, m) = {} THEN 5 ELSE Min(Roomy(f, m))
  BY DEF BlockIndex, Roomy
<1>2. Roomy(f, m) \in SUBSET Nat /\ Roomy(f, m) \subseteq 1 .. 5
  BY DEF Roomy
<1>3. Roomy(f, m) # {} => /\ Min(Roomy(f, m)) \in Roomy(f, m)
                          /\ \A i \in Roomy(f, m) : Min(Roomy(f, m)) <= i
  BY <1>2, MinIn
<1>4. QED
  BY <1>1, <1>2, <1>3

(* More tokens never get a smaller block. *)
LEMMA BlockIndexMono ==
  ASSUME NEW f \in Shapes, NEW m \in Nat, NEW n \in Nat, m <= n
  PROVE  BlockIndex(f, m) <= BlockIndex(f, n)
<1>1. f.topk \in Positive /\ f.experts \in Positive
  BY DEF Shapes
<1>2. 10 * m \in Nat /\ 10 * n \in Nat /\ 10 * m <= 10 * n
  OBVIOUS
<1>3. 10 * m * f.topk \in Nat /\ 10 * n * f.topk \in Nat /\ 10 * m * f.topk <= 10 * n * f.topk
  BY <1>1, <1>2, TimesMono
<1>4. ASSUME NEW i \in Roomy(f, n) PROVE i \in Roomy(f, m)
  <2>1. i \in 1 .. 5 /\ 10 * n * f.topk < 9 * RoutedSizes[i] * f.experts
    BY <1>4 DEF Roomy
  <2>2. 9 * RoutedSizes[i] * f.experts \in Nat
    <3>1. RoutedSizes[i] \in Nat
      BY <2>1, Sizes
    <3>2. QED
      BY <1>1, <3>1
  <2>3. QED
    BY <1>3, <2>1, <2>2 DEF Roomy
<1>5. CASE Roomy(f, n) = {}
  BY <1>5, BlockIndexIs
<1>6. CASE Roomy(f, n) # {}
  BY <1>4, <1>6, BlockIndexIs
<1>7. QED
  BY <1>5, <1>6

LEMMA BlockSizeType ==
  ASSUME NEW f, NEW m
  PROVE  BlockSize(f, m) \in BlockSizes
BY BlockIndexIs, Sizes DEF BlockSize

LEMMA Reachable ==
  ASSUME NEW f \in Shapes, NEW m \in Positive
  PROVE  /\ ReachableBlocks(f, m) \subseteq BlockSizes
         /\ \A n \in 1 .. m : BlockSize(f, n) \in ReachableBlocks(f, m)
         /\ \A n \in 1 .. m : ReachableBlocks(f, n) \subseteq ReachableBlocks(f, m)
<1>1. BlockIndex(f, 1) \in 1 .. 5 /\ BlockIndex(f, m) \in 1 .. 5
  BY BlockIndexIs
<1>2. ReachableBlocks(f, m) \subseteq BlockSizes
  BY <1>1, Sizes DEF ReachableBlocks
<1>3. ASSUME NEW n \in 1 .. m
      PROVE  /\ BlockSize(f, n) \in ReachableBlocks(f, m)
             /\ ReachableBlocks(f, n) \subseteq ReachableBlocks(f, m)
  <2>1. /\ BlockIndex(f, n) \in 1 .. 5
        /\ BlockIndex(f, 1) <= BlockIndex(f, n) /\ BlockIndex(f, n) <= BlockIndex(f, m)
    BY <1>1, BlockIndexMono, BlockIndexIs
  <2>2. BlockIndex(f, n) \in BlockIndex(f, 1) .. BlockIndex(f, m)
    BY <1>1, <2>1
  <2>3. BlockIndex(f, 1) .. BlockIndex(f, n) \subseteq BlockIndex(f, 1) .. BlockIndex(f, m)
    BY <1>1, <2>1
  <2>4. QED
    BY <2>2, <2>3 DEF BlockSize, ReachableBlocks
<1>4. QED
  BY <1>2, <1>3

(* More rows never need fewer slots. *)
LEMMA PackedMono ==
  ASSUME NEW r \in Nat, NEW s \in Nat, NEW e \in Positive,
         NEW b \in BlockSizes, r <= s
  PROVE  /\ PackedSlots(r, b, e) \in Nat /\ PackedSlots(s, b, e) \in Nat
         /\ PackedSlots(r, b, e) <= PackedSlots(s, b, e)
         /\ PackedSlots(r, b, e) <= r + 64 * e /\ PackedSlots(s, b, e) <= s + 64 * e
<1>1. \A n \in Nat : /\ n * b \in Nat /\ n + e * (b - 1) \in Nat
                     /\ n + e * (b - 1) <= n + 64 * e
  BY DEF BlockSizes
<1>2. \A n \in Nat : Min({n * b, n + e * (b - 1)}) =
                       IF n * b <= n + e * (b - 1) THEN n * b ELSE n + e * (b - 1)
  BY <1>1, MinPair
<1>3. \A n \in Nat :
        PackedSlots(n, b, e) = IF n < e /\ n * b <= n + e * (b - 1)
                               THEN n * b ELSE n + e * (b - 1)
  BY <1>2 DEF PackedSlots
<1>4. r * b <= s * b
  BY DEF BlockSizes
<1>5. QED
  BY <1>1, <1>3, <1>4 DEF BlockSizes

-----------------------------------------------------------------------------
(* The accumulation scratch *)

LEMMA MaxMono ==
  ASSUME NEW S \in SUBSET Nat, NEW T \in SUBSET Nat, S # {}, T # {},
         NEW n \in Nat, \A k \in S : k <= n, \A k \in T : k <= n,
         \A k \in S : \E j \in T : k <= j
  PROVE  Max(S) <= Max(T)
<1>1. /\ Max(S) \in S /\ Max(S) \in Nat
      /\ Max(T) \in Nat /\ \A k \in T : k <= Max(T)
  BY MaxIn
<1>2. PICK j \in T : Max(S) <= j
  BY <1>1
<1>3. j \in Nat /\ j <= Max(T)
  BY <1>1
<1>4. QED
  BY <1>1, <1>2, <1>3

LEMMA ScratchElementsMono ==
  ASSUME NEW cols \in Positive, NEW r \in Nat, NEW s \in Nat,
         NEW b \in BlockSizes, r <= s
  PROVE  /\ ScratchElements(cols, r, b) \in Nat /\ ScratchElements(cols, s, b) \in Nat
         /\ ScratchElements(cols, r, b) <= ScratchElements(cols, s, b)
         /\ ScratchElements(cols, s, b) <= 131072 * Sms
<1> USE SmsAssumption
<1>1. cols * r \in Nat /\ cols * s \in Nat /\ cols * r <= cols * s
  BY TimesMono
<1>2. /\ Sms * 4 * b * 256 \in Nat
      /\ 2 * (Sms * 4 * b * 256) <= 131072 * Sms
      /\ Sms * 4 * b * 256 <= 131072 * Sms /\ 1 <= 131072 * Sms
  BY DEF BlockSizes
<1> DEFINE limit == Sms * 4 * b * 256
           part(n) == Min({cols * n, limit})
<1>3. /\ part(r) = IF cols * r <= limit THEN cols * r ELSE limit
      /\ part(s) = IF cols * s <= limit THEN cols * s ELSE limit
  BY <1>1, <1>2, MinPair
<1>4. \A n \in {r, s} : ScratchElements(cols, n, b) = AtLeast(IF b = 8 THEN 2 * part(n) ELSE part(n), 1)
  BY DEF ScratchElements
<1> HIDE DEF part, limit
<1>5. /\ part(r) \in Nat /\ part(s) \in Nat /\ part(r) <= part(s)
      /\ part(s) <= limit
  BY <1>1, <1>2, <1>3 DEF limit
<1>6. QED
  BY <1>2, <1>4, <1>5 DEF AtLeast, limit

SplitSlots(f, rows, b) ==
  Max({PackedSlots(rows, b, f.experts)} \cup DirectSlots(f, Ceil(rows, f.topk), b))

LEMMA DirectSlotsType ==
  ASSUME NEW f \in Shapes, NEW c \in Nat, NEW b \in BlockSizes
  PROVE  /\ DirectSlots(f, c, b) \in SUBSET Nat
         /\ \A k \in DirectSlots(f, c, b) : k <= 512 * f.topk
         /\ \A d \in Nat : c <= d => DirectSlots(f, c, b) \subseteq DirectSlots(f, d, b)
         /\ \A m \in 1 .. c : /\ m <= IF f.gated THEN 8 ELSE 6
                              /\ BlockSize(f, m) = b
                              => m * f.topk * b \in DirectSlots(f, c, b)
<1> DEFINE most == IF f.gated THEN TcDecodeMaxTokens ELSE DirectMaxTokens
           These(d) == {n \in 1 .. Min({d, most}) : BlockSize(f, n) = b}
<1>1. most \in Nat /\ most <= 8 /\ most = IF f.gated THEN 8 ELSE 6
  BY DEF TcDecodeMaxTokens, DirectMaxTokens
<1>2. \A d \in Nat : DirectSlots(f, d, b) = {m * f.topk * b : m \in These(d)}
  BY DEF DirectSlots
<1>3. \A d \in Nat : These(d) = {n \in 1 .. d : n <= most /\ BlockSize(f, n) = b}
  <2>1. \A d \in Nat : Min({d, most}) = IF d <= most THEN d ELSE most
    BY <1>1, MinPair
  <2>2. QED
    BY <1>1, <2>1
<1> HIDE DEF These, most
<1>4. f.topk \in Nat
  BY DEF Shapes
<1>5. \A m \in 1 .. c : m <= 8 => m * f.topk * b \in Nat /\ m * f.topk * b <= 512 * f.topk
  <2> SUFFICES ASSUME NEW m \in 1 .. c, m <= 8
               PROVE  m * f.topk * b \in Nat /\ m * f.topk * b <= 512 * f.topk
    OBVIOUS
  <2>1. m * f.topk \in Nat /\ m * f.topk <= 8 * f.topk /\ 8 * f.topk \in Nat
    BY <1>4, TimesMono
  <2>2. m * f.topk * b \in Nat /\ m * f.topk * b <= 64 * (m * f.topk)
    BY <2>1 DEF BlockSizes
  <2>3. QED
    BY <1>4, <2>1, <2>2
<1>6. QED
  BY <1>1, <1>2, <1>3, <1>5

(* The tokens a number of rows has room for. *)
LEMMA TokensOfRows ==
  ASSUME NEW f \in Shapes, NEW r \in Positive, NEW s \in Positive, r <= s
  PROVE  /\ Ceil(r, f.topk) \in Positive /\ Ceil(s, f.topk) \in Positive
         /\ Ceil(r, f.topk) <= Ceil(s, f.topk)
         /\ \A m \in Nat : m * f.topk <= r => m <= Ceil(r, f.topk)
<1>1. f.topk \in Positive
  BY DEF Shapes
<1>2. r \in Nat /\ s \in Nat /\ r > 0 /\ s > 0
  OBVIOUS
<1>3. /\ Ceil(r, f.topk) \in Nat /\ Ceil(r, f.topk) > 0
      /\ Ceil(s, f.topk) \in Nat /\ Ceil(s, f.topk) > 0
      /\ Ceil(r, f.topk) <= Ceil(s, f.topk)
  BY <1>1, <1>2, CeilNat, CeilMono, Zenon
<1>4. ASSUME NEW m \in Nat, m * f.topk <= r PROVE m <= Ceil(r, f.topk)
  <2>1. m * f.topk \in Nat
    BY <1>1
  <2>2. Ceil(m * f.topk, f.topk) <= Ceil(r, f.topk)
    BY <1>1, <1>2, <1>4, <2>1, CeilMono, Zenon
  <2>3. QED
    BY <1>1, <2>2, CeilTimes
<1>5. QED
  BY <1>3, <1>4

LEMMA SplitSlotsMono ==
  ASSUME NEW f \in Shapes, NEW r \in Positive, NEW s \in Positive,
         NEW b \in BlockSizes, r <= s
  PROVE  /\ SplitSlots(f, r, b) \in Nat /\ SplitSlots(f, s, b) \in Nat
         /\ SplitSlots(f, r, b) <= SplitSlots(f, s, b)
         /\ PackedSlots(r, b, f.experts) <= SplitSlots(f, r, b)
         /\ \A k \in DirectSlots(f, Ceil(r, f.topk), b) : k <= SplitSlots(f, r, b)
<1>1. f.topk \in Positive /\ f.experts \in Positive
  BY DEF Shapes
<1>2. /\ Ceil(r, f.topk) \in Nat /\ Ceil(s, f.topk) \in Nat
      /\ Ceil(r, f.topk) <= Ceil(s, f.topk)
  BY <1>1, CeilNat, CeilMono
<1> DEFINE Dr == DirectSlots(f, Ceil(r, f.topk), b)
           Ds == DirectSlots(f, Ceil(s, f.topk), b)
           pr == PackedSlots(r, b, f.experts)
           ps == PackedSlots(s, b, f.experts)
           n == s + 64 * f.experts + 512 * f.topk
<1>3. /\ Dr \in SUBSET Nat /\ Ds \in SUBSET Nat /\ Dr \subseteq Ds
      /\ \A k \in Ds : k <= 512 * f.topk
  BY <1>2, DirectSlotsType
<1>4. pr \in Nat /\ ps \in Nat /\ pr <= ps /\ ps <= s + 64 * f.experts
  BY <1>1, PackedMono
<1>5. SplitSlots(f, r, b) = Max({pr} \cup Dr) /\ SplitSlots(f, s, b) = Max({ps} \cup Ds)
  BY DEF SplitSlots
<1> HIDE DEF Dr, Ds, pr, ps
<1>6. n \in Nat /\ s + 64 * f.experts <= n /\ 512 * f.topk <= n
  BY <1>1
<1> HIDE DEF n
<1>7. /\ {pr} \cup Dr \in SUBSET Nat /\ {ps} \cup Ds \in SUBSET Nat
      /\ \A k \in {ps} \cup Ds : k <= n
  BY <1>1, <1>3, <1>4, <1>6
<1>8. \A k \in {pr} \cup Dr : \E j \in {ps} \cup Ds : k <= j
  BY <1>3, <1>4
<1>9. \A k \in {pr} \cup Dr : k <= n
  BY <1>1, <1>3, <1>4, <1>6
<1>10. Max({pr} \cup Dr) <= Max({ps} \cup Ds)
  BY <1>6, <1>7, <1>8, <1>9, MaxMono
<1>11. /\ Max({pr} \cup Dr) \in Nat /\ \A k \in {pr} \cup Dr : k <= Max({pr} \cup Dr)
       /\ Max({ps} \cup Ds) \in Nat
  BY <1>6, <1>7, <1>9, MaxIn
<1>12. QED
  BY <1>5, <1>10, <1>11 DEF pr, Dr

(* More rows never need less scratch, and the scratch serves every number  *)
(* of slots and every block size within the capacity.                      *)
LEMMA SplitKMono ==
  ASSUME NEW f \in Shapes, NEW r \in Positive, NEW s \in Positive, NEW cols \in Positive, r <= s
  PROVE  /\ SplitKScratch(f, r, cols) \in Nat /\ SplitKScratch(f, s, cols) \in Nat
         /\ SplitKScratch(f, r, cols) <= SplitKScratch(f, s, cols)
         /\ \A b \in ReachableBlocks(f, Ceil(r, f.topk)), n \in Nat :
               n <= SplitSlots(f, r, b) =>
                  ScratchElements(cols, n, b) <= SplitKScratch(f, r, cols)
<1> DEFINE cr == Ceil(r, f.topk)
           cs == Ceil(s, f.topk)
           Of(n, c) == {ScratchElements(cols, SplitSlots(f, n, b), b) : b \in ReachableBlocks(f, c)}
           limit == 131072 * Sms
<1>1. cr \in Positive /\ cs \in Positive /\ cr <= cs
  BY TokensOfRows
<1>2. cr \in Positive /\ cs \in Positive /\ cr \in 1 .. cs
  BY <1>1
<1>3. /\ ReachableBlocks(f, cr) \subseteq BlockSizes /\ ReachableBlocks(f, cs) \subseteq BlockSizes
      /\ ReachableBlocks(f, cr) \subseteq ReachableBlocks(f, cs)
  BY <1>2, Reachable
<1>4. /\ SplitKScratch(f, r, cols) = Max({1} \cup Of(r, cr))
      /\ SplitKScratch(f, s, cols) = Max({1} \cup Of(s, cs))
  BY DEF SplitKScratch, SplitSlots
<1>5. limit \in Nat /\ 1 <= limit
  BY SmsAssumption
<1> HIDE DEF cr, cs, limit
<1>6. ASSUME NEW b \in BlockSizes
      PROVE  /\ SplitSlots(f, r, b) \in Nat /\ SplitSlots(f, s, b) \in Nat
             /\ SplitSlots(f, r, b) <= SplitSlots(f, s, b)
  BY SplitSlotsMono
<1>7. ASSUME NEW b \in BlockSizes, NEW n \in Nat, NEW k \in Nat, n <= k
      PROVE  /\ ScratchElements(cols, n, b) \in Nat /\ ScratchElements(cols, k, b) \in Nat
             /\ ScratchElements(cols, n, b) <= ScratchElements(cols, k, b)
             /\ ScratchElements(cols, k, b) <= limit
  BY <1>7, ScratchElementsMono DEF limit
<1>8. ASSUME NEW b \in BlockSizes
      PROVE  LET er == ScratchElements(cols, SplitSlots(f, r, b), b)
                 es == ScratchElements(cols, SplitSlots(f, s, b), b)
             IN er \in Nat /\ es \in Nat /\ er <= es /\ es <= limit
  BY <1>6, <1>7
<1>9. /\ {1} \cup Of(r, cr) \in SUBSET Nat /\ {1} \cup Of(s, cs) \in SUBSET Nat
      /\ \A k \in {1} \cup Of(r, cr) : k <= limit
      /\ \A k \in {1} \cup Of(s, cs) : k <= limit
      /\ \A k \in {1} \cup Of(r, cr) : \E j \in {1} \cup Of(s, cs) : k <= j
  <2>1. \A k \in Of(r, cr) : k \in Nat /\ k <= limit
    <3> SUFFICES ASSUME NEW b \in ReachableBlocks(f, cr)
                 PROVE  /\ ScratchElements(cols, SplitSlots(f, r, b), b) \in Nat
                        /\ ScratchElements(cols, SplitSlots(f, r, b), b) <= limit
      OBVIOUS
    <3>1. b \in BlockSizes
      BY <1>3
    <3>2. QED
      BY <1>5, <1>8, <3>1
  <2>2. \A k \in Of(s, cs) : k \in Nat /\ k <= limit
    BY <1>3, <1>8
  <2>3. \A k \in Of(r, cr) : \E j \in Of(s, cs) : k <= j
    <3> SUFFICES ASSUME NEW b \in ReachableBlocks(f, cr)
                 PROVE  \E j \in Of(s, cs) : ScratchElements(cols, SplitSlots(f, r, b), b) <= j
      OBVIOUS
    <3>1. b \in BlockSizes /\ b \in ReachableBlocks(f, cs)
      BY <1>3
    <3>2. QED
      BY <1>8, <3>1
  <2> HIDE DEF Of
  <2>4. QED
    BY <1>5, <2>1, <2>2, <2>3
<1>10. Max({1} \cup Of(r, cr)) <= Max({1} \cup Of(s, cs))
  BY <1>5, <1>9, MaxMono
<1>11. /\ Max({1} \cup Of(r, cr)) \in Nat /\ Max({1} \cup Of(s, cs)) \in Nat
       /\ \A k \in Of(r, cr) : k <= Max({1} \cup Of(r, cr))
  BY <1>5, <1>9, MaxIn
<1>12. ASSUME NEW b \in ReachableBlocks(f, cr), NEW n \in Nat, n <= SplitSlots(f, r, b)
       PROVE  ScratchElements(cols, n, b) <= SplitKScratch(f, r, cols)
  <2>1. b \in BlockSizes
    BY <1>3
  <2>2. /\ ScratchElements(cols, n, b) \in Nat
        /\ ScratchElements(cols, n, b) <= ScratchElements(cols, SplitSlots(f, r, b), b)
    BY <1>6, <1>7, <1>12, <2>1
  <2>3. /\ ScratchElements(cols, SplitSlots(f, r, b), b) \in Nat
        /\ ScratchElements(cols, SplitSlots(f, r, b), b) <= Max({1} \cup Of(r, cr))
    BY <1>8, <1>11, <2>1
  <2>4. QED
    BY <1>4, <1>11, <2>2, <2>3
<1>13. QED
  BY <1>4, <1>10, <1>11, <1>12 DEF cr

-----------------------------------------------------------------------------
(* Workspaces of the w4a16 kernels *)

PlanShapes ==
  [impl : {"w4a16", "micro", "dynamic"}, rows : Positive, tiles : Nat, tasks : Nat,
   stateE : Nat, maxRows : Nat]

RouteSlots(f, r) ==
  Max({PackedSlots(r, b, f.experts) : b \in ReachableBlocks(f, Ceil(r, f.topk))})
RouteBlocks(f, r) ==
  Max({Ceil(PackedSlots(r, b, f.experts), b) : b \in ReachableBlocks(f, Ceil(r, f.topk))})

LEMMA RouteMono ==
  ASSUME NEW f \in Shapes, NEW r \in Positive, NEW s \in Positive, r <= s
  PROVE  /\ RouteSlots(f, r) \in Nat /\ RouteSlots(f, s) \in Nat
         /\ RouteSlots(f, r) <= RouteSlots(f, s)
         /\ RouteBlocks(f, r) \in Nat /\ RouteBlocks(f, s) \in Nat
         /\ RouteBlocks(f, r) <= RouteBlocks(f, s)
         /\ \A b \in ReachableBlocks(f, Ceil(r, f.topk)) :
               /\ PackedSlots(r, b, f.experts) <= RouteSlots(f, r)
               /\ Ceil(PackedSlots(r, b, f.experts), b) <= RouteBlocks(f, r)
<1> DEFINE Rr == ReachableBlocks(f, Ceil(r, f.topk))
           Rs == ReachableBlocks(f, Ceil(s, f.topk))
           P(n, b) == PackedSlots(n, b, f.experts)
           limit == s + 64 * f.experts
<1>1. f.topk \in Positive /\ f.experts \in Positive
  BY DEF Shapes
<1>2. /\ Rr \subseteq BlockSizes /\ Rs \subseteq BlockSizes /\ Rr \subseteq Rs
      /\ Rr # {}
  <2>1. /\ Ceil(r, f.topk) \in Positive /\ Ceil(s, f.topk) \in Positive
        /\ Ceil(r, f.topk) <= Ceil(s, f.topk)
    BY TokensOfRows
  <2>2. Ceil(r, f.topk) \in 1 .. Ceil(s, f.topk) /\ 1 \in 1 .. Ceil(r, f.topk)
    BY <2>1
  <2>3. QED
    BY <2>1, <2>2, Reachable
<1>3. r \in Nat /\ s \in Nat /\ limit \in Nat
  BY <1>1
<1>4. ASSUME NEW b \in BlockSizes
      PROVE  /\ P(r, b) \in Nat /\ P(s, b) \in Nat /\ P(r, b) <= P(s, b)
             /\ P(r, b) <= limit /\ P(s, b) <= limit
  <2>1. /\ P(r, b) \in Nat /\ P(s, b) \in Nat /\ P(r, b) <= P(s, b)
        /\ P(s, b) <= s + 64 * f.experts
    BY <1>1, <1>3, PackedMono
  <2>2. QED
    BY <1>3, <2>1
<1> HIDE DEF Rr, Rs, limit
<1> HIDE DEF P
<1>5. ASSUME NEW b \in BlockSizes
      PROVE  /\ Ceil(P(r, b), b) \in Nat /\ Ceil(P(s, b), b) \in Nat
             /\ Ceil(P(r, b), b) <= Ceil(P(s, b), b)
             /\ Ceil(P(r, b), b) <= limit /\ Ceil(P(s, b), b) <= limit
  <2>1. b \in Positive
    BY DEF BlockSizes
  <2>2. /\ Ceil(P(r, b), b) \in Nat /\ Ceil(P(s, b), b) \in Nat
        /\ Ceil(P(r, b), b) <= Ceil(P(s, b), b)
    BY <1>4, <2>1, CeilNat, CeilMono
  <2>3. Ceil(P(s, b), b) <= P(s, b)
    BY <1>4 DEF Ceil, BlockSizes
  <2>4. QED
    BY <1>3, <1>4, <2>2, <2>3
<1> DEFINE Sr == {P(r, b) : b \in Rr}
           Ss == {P(s, b) : b \in Rs}
           Br == {Ceil(P(r, b), b) : b \in Rr}
           Bs == {Ceil(P(s, b), b) : b \in Rs}
<1>6. /\ Sr \in SUBSET Nat /\ Ss \in SUBSET Nat /\ Sr # {} /\ Ss # {}
      /\ \A k \in Sr : k <= limit
      /\ \A k \in Ss : k <= limit
      /\ \A k \in Sr : \E j \in Ss : k <= j
  BY <1>2, <1>4
<1>7. /\ Br \in SUBSET Nat /\ Bs \in SUBSET Nat /\ Br # {} /\ Bs # {}
      /\ \A k \in Br : k <= limit
      /\ \A k \in Bs : k <= limit
      /\ \A k \in Br : \E j \in Bs : k <= j
  BY <1>2, <1>5
<1>8. /\ RouteSlots(f, r) = Max(Sr) /\ RouteSlots(f, s) = Max(Ss)
      /\ RouteBlocks(f, r) = Max(Br) /\ RouteBlocks(f, s) = Max(Bs)
  BY DEF RouteSlots, RouteBlocks, Rr, Rs, P
<1>9. \A b \in Rr : P(r, b) \in Sr /\ Ceil(P(r, b), b) \in Br
  OBVIOUS
<1> HIDE DEF Sr, Ss, Br, Bs
<1>10. /\ Max(Sr) \in Nat /\ Max(Ss) \in Nat /\ Max(Sr) <= Max(Ss)
       /\ \A k \in Sr : k <= Max(Sr)
  BY <1>3, <1>6, MaxIn, MaxMono
<1>11. /\ Max(Br) \in Nat /\ Max(Bs) \in Nat /\ Max(Br) <= Max(Bs)
       /\ \A k \in Br : k <= Max(Br)
  BY <1>3, <1>7, MaxIn, MaxMono
<1>12. QED
  BY <1>8, <1>9, <1>10, <1>11 DEF Rr, P

(* A launch for c tokens fits a workspace with room for them: its packed   *)
(* routes, the blocks of them, and its accumulation scratch, packed or     *)
(* direct.                                                                 *)
LEMMA W4A16Serves ==
  ASSUME NEW f \in Shapes, NEW r \in Positive, NEW c \in Positive, c * f.topk <= r
  PROVE  LET b == BlockSize(f, c)
             slots == PackedSlots(c * f.topk, b, f.experts)
         IN /\ slots \in Nat /\ slots <= RouteSlots(f, r) /\ Ceil(slots, b) <= RouteBlocks(f, r)
            /\ \A cols \in Positive :
                  ScratchElements(cols, slots, b) <= SplitKScratch(f, r, cols)
            /\ c <= (IF f.gated THEN 8 ELSE 6) =>
                  \A cols \in Positive :
                     ScratchElements(cols, c * f.topk * b, b) <= SplitKScratch(f, r, cols)
<1> DEFINE b == BlockSize(f, c)
           slots == PackedSlots(c * f.topk, b, f.experts)
           all == PackedSlots(r, b, f.experts)
<1>1. f.topk \in Positive /\ f.experts \in Positive
  BY DEF Shapes
<1>2. c * f.topk \in Nat /\ r \in Nat /\ c \in Nat
  BY <1>1
<1>3. c <= Ceil(r, f.topk) /\ Ceil(r, f.topk) \in Positive
  BY <1>2, TokensOfRows
<1>4. c \in 1 .. Ceil(r, f.topk)
  BY <1>3
<1>5. b \in ReachableBlocks(f, Ceil(r, f.topk)) /\ b \in BlockSizes
  BY <1>3, <1>4, Reachable, BlockSizeType
<1>6. slots \in Nat /\ all \in Nat /\ slots <= all
  <2> HIDE DEF b
  <2>1. QED
    BY <1>1, <1>2, <1>5, PackedMono
<1>7. all <= RouteSlots(f, r) /\ Ceil(all, b) <= RouteBlocks(f, r)
  <2>1. r <= r
    BY <1>2
  <2>2. \A x \in ReachableBlocks(f, Ceil(r, f.topk)) :
           /\ PackedSlots(r, x, f.experts) <= RouteSlots(f, r)
           /\ Ceil(PackedSlots(r, x, f.experts), x) <= RouteBlocks(f, r)
    BY <2>1, RouteMono
  <2>3. QED
    BY <1>5, <2>2
<1>8. RouteSlots(f, r) \in Nat /\ RouteBlocks(f, r) \in Nat
  BY RouteMono
<1> HIDE DEF b
<1>9. Ceil(slots, b) \in Nat /\ Ceil(all, b) \in Nat /\ Ceil(slots, b) <= Ceil(all, b)
  <2>1. b \in Positive
    BY <1>5 DEF BlockSizes
  <2> HIDE DEF slots, all
  <2>2. QED
    BY <1>6, <2>1, CeilNat, CeilMono
<1>10. slots <= RouteSlots(f, r) /\ Ceil(slots, b) <= RouteBlocks(f, r)
  BY <1>6, <1>7, <1>8, <1>9
<1>11. /\ SplitSlots(f, r, b) \in Nat /\ all <= SplitSlots(f, r, b)
       /\ \A k \in DirectSlots(f, Ceil(r, f.topk), b) : k <= SplitSlots(f, r, b)
  BY <1>5, SplitSlotsMono
<1>12. ASSUME NEW cols \in Positive
       PROVE  ScratchElements(cols, slots, b) <= SplitKScratch(f, r, cols)
  <2>1. slots <= SplitSlots(f, r, b)
    BY <1>6, <1>11
  <2>2. QED
    BY <1>5, <1>6, <2>1, SplitKMono
<1>13. ASSUME c <= (IF f.gated THEN 8 ELSE 6), NEW cols \in Positive
       PROVE  ScratchElements(cols, c * f.topk * b, b) <= SplitKScratch(f, r, cols)
  <2>1. c * f.topk * b \in DirectSlots(f, Ceil(r, f.topk), b)
    BY <1>3, <1>4, <1>5, <1>13, DirectSlotsType DEF b
  <2>2. c * f.topk * b \in Nat
    BY <1>2, <1>5 DEF BlockSizes
  <2>3. c * f.topk * b <= SplitSlots(f, r, b)
    BY <1>11, <2>1
  <2>4. QED
    BY <1>5, <2>2, <2>3, SplitKMono
<1>14. QED
  BY <1>6, <1>10, <1>12, <1>13 DEF b

LEMMA W4A16CoreIs ==
  ASSUME NEW f, NEW p
  PROVE  W4A16Core(f, p) =
           [plan |-> p, routeSlots |-> RouteSlots(f, p.rows), routeBlocks |-> RouteBlocks(f, p.rows),
            cache13 |-> p.rows * AtLeast(Fc1Cols(f), f.hidden),
            cache2 |-> p.rows * f.inter,
            fc1 |-> SplitKScratch(f, p.rows, Fc1Cols(f)),
            fc2 |-> SplitKScratch(f, p.rows, f.hidden)]
BY DEF W4A16Core, RouteSlots, RouteBlocks

LEMMA ColsType ==
  ASSUME NEW f \in Shapes
  PROVE  Fc1Cols(f) \in Positive /\ f.hidden \in Positive /\ AtLeast(Fc1Cols(f), f.hidden) \in Positive
<1>1. f.inter \in Positive /\ f.hidden \in Positive
  BY DEF Shapes
<1>2. Fc1Cols(f) \in Positive
  BY <1>1 DEF Fc1Cols
<1>3. QED
  BY <1>1, <1>2 DEF AtLeast

(* A w4a16 workspace for more rows has more bytes. *)
LEMMA W4A16Bytes ==
  ASSUME NEW f \in Shapes, NEW p \in PlanShapes, NEW q \in PlanShapes,
         p.impl = "w4a16", q.impl = "w4a16", p.rows <= q.rows
  PROVE  /\ CoreBytes(f, W4A16Core(f, p)) \in Nat /\ CoreBytes(f, W4A16Core(f, q)) \in Nat
         /\ p.rows < q.rows =>
               CoreBytes(f, W4A16Core(f, p)) < CoreBytes(f, W4A16Core(f, q))
<1> DEFINE r == p.rows
           s == q.rows
           a == AtLeast(Fc1Cols(f), f.hidden)
           Bytes(n) == 2 * (n * a + n * f.inter)
                       + 4 * (SplitKScratch(f, n, Fc1Cols(f)) + SplitKScratch(f, n, f.hidden)
                              + RouteSlots(f, n) + RouteBlocks(f, n) + 2 + 2 * f.experts)
<1>1. r \in Positive /\ s \in Positive /\ r <= s
  BY DEF PlanShapes
<1>2. f.inter \in Positive /\ f.experts \in Positive /\ a \in Positive
  BY ColsType DEF Shapes
<1>3. CoreBytes(f, W4A16Core(f, p)) = Bytes(r) /\ CoreBytes(f, W4A16Core(f, q)) = Bytes(s)
  BY W4A16CoreIs DEF CoreBytes
<1> HIDE DEF r, s, a
<1>4. /\ SplitKScratch(f, r, Fc1Cols(f)) \in Nat /\ SplitKScratch(f, s, Fc1Cols(f)) \in Nat
      /\ SplitKScratch(f, r, Fc1Cols(f)) <= SplitKScratch(f, s, Fc1Cols(f))
  BY <1>1, ColsType, SplitKMono
<1>5. /\ SplitKScratch(f, r, f.hidden) \in Nat /\ SplitKScratch(f, s, f.hidden) \in Nat
      /\ SplitKScratch(f, r, f.hidden) <= SplitKScratch(f, s, f.hidden)
  BY <1>1, ColsType, SplitKMono
<1>6. /\ RouteSlots(f, r) \in Nat /\ RouteSlots(f, s) \in Nat
      /\ RouteSlots(f, r) <= RouteSlots(f, s)
      /\ RouteBlocks(f, r) \in Nat /\ RouteBlocks(f, s) \in Nat
      /\ RouteBlocks(f, r) <= RouteBlocks(f, s)
  BY <1>1, RouteMono
<1>7. /\ r * a \in Nat /\ s * a \in Nat /\ r * f.inter \in Nat /\ s * f.inter \in Nat
      /\ r * a <= s * a /\ r * f.inter <= s * f.inter
      /\ r < s => r * f.inter < s * f.inter
  BY <1>1, <1>2, TimesMono, TimesLess
<1>8. Bytes(r) \in Nat /\ Bytes(s) \in Nat /\ (r < s => Bytes(r) < Bytes(s))
  <2> DEFINE x1 == SplitKScratch(f, r, Fc1Cols(f))
             x2 == SplitKScratch(f, s, Fc1Cols(f))
             y1 == SplitKScratch(f, r, f.hidden)
             y2 == SplitKScratch(f, s, f.hidden)
             z1 == r * a
             z2 == s * a
             w1 == r * f.inter
             w2 == s * f.inter
  <2>1. /\ x1 \in Nat /\ x2 \in Nat /\ x1 <= x2 /\ y1 \in Nat /\ y2 \in Nat /\ y1 <= y2
        /\ z1 \in Nat /\ z2 \in Nat /\ z1 <= z2 /\ w1 \in Nat /\ w2 \in Nat
        /\ r < s => w1 < w2
    BY <1>4, <1>5, <1>7
  <2>2. /\ Bytes(r) = 2 * (z1 + w1)
                      + 4 * (x1 + y1 + RouteSlots(f, r) + RouteBlocks(f, r) + 2 + 2 * f.experts)
        /\ Bytes(s) = 2 * (z2 + w2)
                      + 4 * (x2 + y2 + RouteSlots(f, s) + RouteBlocks(f, s) + 2 + 2 * f.experts)
    OBVIOUS
  <2> HIDE DEF x1, x2, y1, y2, z1, z2, w1, w2, Bytes
  <2>3. QED
    BY <1>2, <1>6, <2>1, <2>2
<1>9. QED
  BY <1>3, <1>8 DEF r, s

-----------------------------------------------------------------------------
(* Workspaces of the micro and dynamic kernels *)

LEMMA TileMType ==
  ASSUME NEW f \in Shapes, NEW r \in Nat
  PROVE  TileM(f, r) \in {16, 32, 64, 128} /\ TileM(f, r) \in Positive
BY DEF TileM

LEMMA KernelInterType ==
  ASSUME NEW f \in Shapes
  PROVE  /\ KernelInter(f) \in Positive
         /\ KernelInter(f) + KernelInter(f) \div 32 \in Positive
         /\ SliceGroups(f) \in Positive
<1>1. f.inter \in Positive
  BY DEF Shapes
<1>2. KernelInter(f) \in Positive
  BY <1>1 DEF KernelInter, AlignUp, Ceil
<1> HIDE DEF KernelInter
<1>3. QED
  BY <1>2 DEF SliceGroups, Ceil

MicroRows(f, p) == p.rows * (f.hidden + Ceil(f.inter \div 2, 128) * 128)

LEMMA MicroInner ==
  ASSUME NEW f \in Shapes, NEW p \in PlanShapes
  PROVE  /\ MicroCore(f, p).inner \in Nat
         /\ MicroRows(f, p) \in Nat /\ MicroRows(f, p) <= MicroCore(f, p).inner
<1> DEFINE a == p.stateE * f.inter
           c == p.maxRows * 2 * f.inter
           d == p.rows * ((f.inter \div 2) + (f.inter \div 128) * 257)
           e == MicroRows(f, p)
           S == {a, e} \cup IF f.quant # "w4a8_mx" THEN {} ELSE {c, d}
<1>1. /\ f.inter \in Positive /\ f.hidden \in Positive
      /\ p.rows \in Positive /\ p.stateE \in Nat /\ p.maxRows \in Nat
  BY DEF Shapes, PlanShapes
<1>2. a \in Nat /\ c \in Nat
  BY <1>1
<1>3. d \in Nat
  BY <1>1
<1>4. e \in Nat
  <2>1. Ceil(f.inter \div 2, 128) \in Nat
    BY <1>1 DEF Ceil
  <2>2. QED
    BY <1>1, <2>1 DEF MicroRows
<1>5. MicroCore(f, p).inner = Max(S)
  BY DEF MicroCore, MicroRows
<1> HIDE DEF a, c, d, e
<1>6. /\ S \in SUBSET Nat /\ S # {} /\ a + c + d + e \in Nat
      /\ \A k \in S : k <= a + c + d + e
  BY <1>2, <1>3, <1>4
<1>7. e \in S
  OBVIOUS
<1> HIDE DEF S
<1>8. Max(S) \in Nat /\ e <= Max(S)
  BY <1>6, <1>7, MaxIn
<1>9. QED
  BY <1>4, <1>5, <1>8 DEF e

LEMMA CorePlanOf ==
  ASSUME NEW f, NEW p \in PlanShapes
  PROVE  CorePlan(f, p).plan = p
BY DEF CorePlan, W4A16Core, MicroCore, DynamicCore

LEMMA CoreBytesNat ==
  ASSUME NEW f \in Shapes, NEW p \in PlanShapes
  PROVE  CoreBytes(f, CorePlan(f, p)) \in Nat
<1>1. /\ f.hidden \in Positive /\ f.experts \in Positive /\ f.topk \in Positive
      /\ p.rows \in Positive /\ p.tiles \in Nat /\ p.tasks \in Nat
      /\ p.stateE \in Nat /\ p.maxRows \in Nat
      /\ p.impl \in {"w4a16", "micro", "dynamic"}
  BY DEF Shapes, PlanShapes
<1>2. AlignUp(f.hidden \div 16, 4) \in Nat /\ f.hidden \div 2 \in Nat
  BY <1>1 DEF AlignUp, Ceil
<1>3. CASE p.impl = "w4a16"
  <2>1. p.rows <= p.rows
    BY <1>1
  <2>2. QED
    BY <1>3, <2>1, W4A16Bytes DEF CorePlan
<1>4. CASE p.impl = "micro"
  <2> DEFINE c == MicroCore(f, p)
  <2>1. CorePlan(f, p) = c /\ c.plan = p
    BY <1>4 DEF CorePlan, MicroCore
  <2>2. c.inner \in Nat
    BY MicroInner
  <2>3. /\ c.barriers = p.rows + (p.rows \div f.topk) * 16
        /\ c.inputRows = p.stateE * p.maxRows
        /\ c.scaleRows = p.stateE * AlignUp(p.maxRows, 128)
    BY DEF MicroCore
  <2>4. c.barriers \in Nat
    BY <1>1, <2>3
  <2>5. c.inputRows \in Nat /\ p.stateE * p.maxRows \in Nat
    BY <1>1, <2>3
  <2>6. c.scaleRows \in Nat
    <3>1. AlignUp(p.maxRows, 128) \in Nat
      BY <1>1, AlignUpNat
    <3>2. QED
      BY <1>1, <2>3, <3>1
  <2>7. c.inputRows * (f.hidden \div 2) \in Nat /\ c.scaleRows * AlignUp(f.hidden \div 16, 4) \in Nat
    BY <1>2, <2>5, <2>6
  <2>8. CoreBytes(f, c) =
          4 * (2 * p.stateE + 2 * c.barriers + 2 * p.stateE * p.maxRows + p.rows
               + c.inner + f.experts + 1)
          + c.inputRows * (f.hidden \div 2) + c.scaleRows * AlignUp(f.hidden \div 16, 4)
    BY <1>4, <2>1 DEF CoreBytes
  <2>9. 2 * p.stateE * p.maxRows \in Nat
    BY <1>1
  <2> DEFINE u == 2 * p.stateE * p.maxRows
             v == c.inputRows * (f.hidden \div 2)
             w == c.scaleRows * AlignUp(f.hidden \div 16, 4)
  <2>10. /\ u \in Nat /\ v \in Nat /\ w \in Nat
         /\ CoreBytes(f, c) = 4 * (2 * p.stateE + 2 * c.barriers + u + p.rows
                                   + c.inner + f.experts + 1) + v + w
    BY <2>7, <2>8, <2>9
  <2> HIDE DEF c, u, v, w
  <2>11. 4 * (2 * p.stateE + 2 * c.barriers + u + p.rows + c.inner + f.experts + 1) + v + w \in Nat
    <3>1. /\ p.stateE \in Nat /\ p.rows \in Nat /\ f.experts \in Nat
          /\ c.barriers \in Nat /\ c.inner \in Nat /\ u \in Nat /\ v \in Nat /\ w \in Nat
      BY <1>1, <2>2, <2>4, <2>10
    <3>2. \A a, b, d, e, g, h, k, n \in Nat :
            4 * (2 * a + 2 * b + d + e + g + h + 1) + k + n \in Nat
      OBVIOUS
    <3> HIDE DEF c
    <3>3. QED
      BY <3>1, <3>2
  <2>12. QED
    BY <2>1, <2>10, <2>11
<1>5. CASE p.impl = "dynamic"
  <2> DEFINE c == DynamicCore(f, p)
             padded == p.tiles * TileM(f, p.rows)
             stage == KernelInter(f) + KernelInter(f) \div 32
             cols == IF f.quant = "nvfp4" THEN f.hidden \div 2 ELSE f.hidden
  <2>1. CorePlan(f, p) = c /\ c.plan = p
    BY <1>5 DEF CorePlan, DynamicCore
  <2>2. TileM(f, p.rows) \in Nat /\ stage \in Nat /\ cols \in Nat
    <3>1. TileM(f, p.rows) \in {16, 32, 64, 128}
      BY <1>1, TileMType
    <3>2. QED
      BY <1>1, <1>2, <3>1, KernelInterType
  <2> HIDE DEF stage
  <2>3. padded \in Nat /\ padded * stage \in Nat
    BY <1>1, <2>2
  <2>4. /\ c.barriers = p.rows /\ c.inputRows = padded
        /\ c.scaleRows = AlignUp(padded, 128)
        /\ c.inner = IF f.quant \in W4A8 THEN padded * stage ELSE 16
    BY DEF DynamicCore, stage
  <2> HIDE DEF padded
  <2>5. c.scaleRows \in Nat /\ c.inner \in Nat
    BY <2>3, <2>4, AlignUpNat
  <2>6. CoreBytes(f, c) =
          4 * (5 * p.stateE + 2 * c.barriers + 2 * c.inputRows + 6 * p.tasks + p.tiles + 6)
          + 2 * f.hidden + c.inner
          + c.inputRows * cols + c.scaleRows * AlignUp(f.hidden \div 16, 4)
    BY <1>5, <2>1 DEF CoreBytes
  <2> HIDE DEF cols
  <2>7. c.inputRows * cols \in Nat /\ c.scaleRows * AlignUp(f.hidden \div 16, 4) \in Nat
    BY <1>2, <2>2, <2>3, <2>4, <2>5
  <2> HIDE DEF c
  <2>8. QED
    BY <1>1, <2>1, <2>3, <2>4, <2>5, <2>6, <2>7
<1>6. QED
  BY <1>1, <1>3, <1>4, <1>5

LEMMA BackendIs ==
  ASSUME NEW f, NEW m
  PROVE  /\ Backend(f, m) \in {"w4a16", "micro", "dynamic"}
         /\ Backend(f, m) = "w4a16" <=> f.quant = "w4a16"
         /\ Backend(f, m) = "micro" <=> f.quant # "w4a16" /\ TinyDecode(f, m)
<1>1. CASE f.quant = "w4a16"
  BY <1>1 DEF Backend, TinyDecode
<1>2. CASE f.quant # "w4a16" /\ TinyDecode(f, m)
  BY <1>2 DEF Backend
<1>3. CASE f.quant # "w4a16" /\ ~ TinyDecode(f, m)
  BY <1>3 DEF Backend
<1>4. QED
  BY <1>1, <1>2, <1>3

LEMMA PlanType ==
  ASSUME NEW f \in Shapes, NEW m \in Positive
  PROVE  /\ ExecutionPlan(f, m) \in PlanShapes
         /\ ExecutionPlan(f, m).rows = m * f.topk
         /\ ExecutionPlan(f, m).impl = Backend(f, m)
         /\ ExecutionPlan(f, m).impl = "w4a16" <=> f.quant = "w4a16"
         /\ ExecutionPlan(f, m).impl = "dynamic" => ExecutionPlan(f, m).stateE = f.experts
<1> DEFINE rows == m * f.topk
<1>1. f.experts \in Positive /\ f.topk \in Positive
  BY DEF Shapes
<1>2. rows \in Positive
  BY <1>1
<1> HIDE DEF rows
<1>3. rows \in Nat /\ TileM(f, rows) \in Positive
  BY <1>2, TileMType
<1>4. AlignUp(rows, TileM(f, rows)) \in Nat /\ Ceil(rows, TileM(f, rows)) \in Nat
  BY <1>2, <1>3, AlignUpNat, CeilNat
<1>5. PhysicalTiles(f, rows) \in Nat
  <2>1. Min({f.experts, rows}) \in Positive
    BY <1>1, <1>2, MinPair
  <2>2. Ceil(rows, TileM(f, rows)) + Min({f.experts, rows}) - 1 \in Nat
    BY <1>4, <2>1
  <2>3. QED
    BY <1>2, <2>2 DEF PhysicalTiles, AtLeast
<1>6. Backend(f, m) \in {"w4a16", "micro", "dynamic"} /\ (Backend(f, m) = "w4a16" <=> f.quant = "w4a16")
  BY BackendIs
<1> DEFINE tiles == IF Backend(f, m) = "dynamic" THEN PhysicalTiles(f, rows) ELSE 0
<1>7. tiles \in Nat /\ tiles * SliceGroups(f) \in Nat
  <2>1. tiles \in Nat /\ SliceGroups(f) \in Nat
    BY <1>5, KernelInterType
  <2> HIDE DEF tiles
  <2>2. QED
    BY <2>1
<1>8. ExecutionPlan(f, m) =
        [impl |-> Backend(f, m), rows |-> rows, tiles |-> tiles, tasks |-> tiles * SliceGroups(f),
         stateE |-> IF Backend(f, m) = "micro" THEN rows ELSE f.experts,
         maxRows |-> IF Backend(f, m) = "dynamic" THEN AlignUp(rows, TileM(f, rows)) ELSE rows]
  BY DEF ExecutionPlan, rows
<1> HIDE DEF tiles
<1>9. QED
  BY <1>1, <1>2, <1>4, <1>6, <1>7, <1>8 DEF PlanShapes, rows

LEMMA GrownType ==
  ASSUME NEW p \in PlanShapes, NEW q \in PlanShapes
  PROVE  /\ Grown(p, q) \in PlanShapes
         /\ Grown(p, q).impl = p.impl
         /\ Grown(p, q).rows >= p.rows /\ Grown(p, q).rows >= q.rows
<1>1. \A a, b \in Nat : Max({a, b}) \in Nat /\ Max({a, b}) >= a /\ Max({a, b}) >= b
  BY MaxPair
<1>2. \A x \in {p, q} : /\ x.rows \in Positive /\ x.tiles \in Nat /\ x.tasks \in Nat
                        /\ x.stateE \in Nat /\ x.maxRows \in Nat
                        /\ x.impl \in {"w4a16", "micro", "dynamic"}
  BY DEF PlanShapes
<1>3. /\ Max({p.rows, q.rows}) \in Positive /\ Max({p.rows, q.rows}) >= p.rows
      /\ Max({p.rows, q.rows}) >= q.rows
  BY <1>1, <1>2
<1>4. /\ Max({p.tiles, q.tiles}) \in Nat /\ Max({p.tasks, q.tasks}) \in Nat
      /\ Max({p.stateE, q.stateE}) \in Nat /\ Max({p.maxRows, q.maxRows}) \in Nat
  BY <1>1, <1>2
<1>5. QED
  BY <1>2, <1>3, <1>4 DEF Grown, PlanShapes

(* A call of fewer rows never gets a larger tile, but for the shape that   *)
(* was measured on its own.                                                *)
LEMMA TileMono ==
  ASSUME NEW f \in Shapes, NEW r \in Nat, NEW s \in Nat, r <= s, ~ MeasuredShape(f)
  PROVE  TileM(f, r) <= TileM(f, s)
<1>1. f.experts \in Positive
  BY DEF Shapes
<1>2. \A n \in {15, 36, 48, 96} : s < n * f.experts => r < n * f.experts
  BY <1>1
<1>3. CASE f.quant \in W4A8
  BY <1>1, <1>2, <1>3 DEF TileM
<1>4. CASE f.quant \notin W4A8
  BY <1>1, <1>2, <1>4 DEF TileM
<1>5. QED
  BY <1>3, <1>4

(* A call of fewer tokens is served by micro kernels if a larger one is.   *)
LEMMA TinyMono ==
  ASSUME NEW f \in Shapes, NEW m \in Positive, NEW n \in Positive, n <= m, TinyDecode(f, m)
  PROVE  TinyDecode(f, n)
<1>1. n * f.topk \in Nat /\ m * f.topk \in Nat /\ n * f.topk <= m * f.topk
  BY DEF Shapes
<1>2. CASE f.quant = "nvfp4"
  BY <1>1, <1>2 DEF TinyDecode, MicroMaxTokens, MicroCutover
<1>3. CASE f.quant = "w4a8_nvfp4"
  BY <1>3 DEF TinyDecode, MicroMaxTokens
<1>4. CASE f.quant = "w4a8_mx"
  BY <1>4 DEF TinyDecode
<1>5. CASE f.quant \notin {"nvfp4", "w4a8_nvfp4", "w4a8_mx"}
  BY <1>5 DEF TinyDecode
<1>6. QED
  BY <1>2, <1>3, <1>4, <1>5

(* The double of a power of two is one: an odd divisor of it divides the   *)
(* half.                                                                   *)
LEMMA DoublePower ==
  ASSUME NEW p \in Positive, PowerOfTwo(p)
  PROVE  PowerOfTwo(2 * p)
<1> SUFFICES ASSUME NEW d \in 2 .. 2 * p, (2 * p) % d = 0, d % 2 # 0
             PROVE  FALSE
  BY DEF PowerOfTwo
<1> DEFINE k == (2 * p) \div d
           h == d \div 2
<1>1. d \in Nat /\ d >= 2 /\ k \in Nat /\ h \in Nat
  OBVIOUS
<1>2. 2 * p = d * k
  OBVIOUS
<1>3. d = 2 * h + 1
  OBVIOUS
<1> HIDE DEF k, h
<1>4. 2 * p = 2 * (h * k) + k /\ h * k \in Nat
  BY <1>1, <1>2, <1>3
<1>5. PICK j \in Nat : k = 2 * j
  <2> DEFINE n == h * k
  <2>1. n \in Nat /\ 2 * p = 2 * n + k
    BY <1>4
  <2> HIDE DEF n
  <2>2. k = 2 * (p - n) /\ p - n \in Nat
    BY <1>1, <2>1
  <2>3. QED
    BY <2>2
<1>6. p = d * j
  BY <1>1, <1>2, <1>5
<1>7. j > 0
  BY <1>1, <1>6
<1>8. p % d = 0 /\ d <= p
  <2>1. d <= d * j
    BY <1>1, <1>7
  <2>2. \A a, b \in Nat : b > 0 => (b * a) % b = 0
    OBVIOUS
  <2>3. QED
    BY <1>1, <1>5, <1>6, <2>1, <2>2
<1>9. d \in 2 .. p
  BY <1>1, <1>8
<1>10. QED
  BY <1>8, <1>9 DEF PowerOfTwo

LEMMA BucketType ==
  ASSUME NEW m \in Positive
  PROVE  TokenBucket(m) \in Positive /\ TokenBucket(m) >= m
<1> DEFINE Bucketed(k) == \E n \in k .. 2 * k : PowerOfTwo(n)
           Bad == {k \in Positive : ~ Bucketed(k)}
<1>1. ASSUME Bad # {} PROVE FALSE
  <2>1. PICK k \in Bad : \A j \in Bad : k <= j
    <3>1. Bad \in SUBSET Nat
      OBVIOUS
    <3> HIDE DEF Bad
    <3>2. QED
      BY <1>1, <3>1, MinIn
  <2>2. k \in Positive /\ ~ Bucketed(k)
    BY <2>1
  <2>3. k # 1
    <3>1. PowerOfTwo(1)
      BY DEF PowerOfTwo
    <3>2. QED
      BY <2>2, <3>1
  <2>4. k - 1 \in Positive /\ k - 1 < k
    BY <2>2, <2>3
  <2>5. k - 1 \notin Bad
    <3> HIDE DEF Bad
    <3>1. QED
      BY <2>1, <2>2, <2>4
  <2>6. PICK n \in k - 1 .. 2 * (k - 1) : PowerOfTwo(n)
    BY <2>4, <2>5
  <2>7. n = k - 1
    BY <2>2, <2>4, <2>6
  <2>8. PowerOfTwo(2 * n) /\ 2 * n \in k .. 2 * k
    BY <2>2, <2>4, <2>6, <2>7, DoublePower
  <2>9. QED
    BY <2>2, <2>8
<1>2. Bucketed(m)
  BY <1>1
<1>3. {n \in m .. 2 * m : PowerOfTwo(n)} \in SUBSET Nat
  OBVIOUS
<1>4. TokenBucket(m) \in {n \in m .. 2 * m : PowerOfTwo(n)}
  BY <1>2, <1>3, MinIn DEF TokenBucket
<1>5. QED
  BY <1>4

-----------------------------------------------------------------------------
(* What a host plans *)

LEMMA CountsType ==
  ASSUME NEW f \in Shapes, NEW counts \in Plans
  PROVE  /\ CoreTokenCounts(f, counts) \subseteq Positive
         /\ CoreTokenCounts(f, counts) # {}
         /\ IsFiniteSet(CoreTokenCounts(f, counts))
         /\ Max(counts) \in counts /\ \A m \in counts : m <= Max(counts)
         /\ \A m \in counts : \E c \in CoreTokenCounts(f, counts) : m <= c
<1> DEFINE bucket(m) == IF f.quant = "w4a16" THEN TokenBucket(m) ELSE m
           limit == MicroCutover \div f.topk
           S == {bucket(m) : m \in counts}
           T == IF limit >= 1 THEN {bucket(Min({Max(counts), limit}))} ELSE {}
<1>1. counts # {} /\ counts \subseteq Positive /\ IsFiniteSet(counts)
  BY PoolAssumption
<1>2. counts \in SUBSET Nat
  BY <1>1
<1>3. Max(counts) \in counts /\ Max(counts) \in Nat /\ \A m \in counts : m <= Max(counts)
  BY <1>1, <1>2, FiniteMax
<1>4. \A m \in Positive : bucket(m) \in Positive /\ m <= bucket(m)
  BY BucketType
<1>5. CoreTokenCounts(f, counts) = S \cup T
  BY DEF CoreTokenCounts
<1>6. limit \in Nat
  BY DEF Shapes, MicroCutover
<1> HIDE DEF bucket, limit
<1>7. T \subseteq Positive /\ IsFiniteSet(T)
  <2>1. limit >= 1 => Min({Max(counts), limit}) \in Positive
    BY <1>1, <1>3, <1>6, MinPair
  <2>2. QED
    BY <1>4, <2>1, FS_EmptySet, FS_Singleton
<1>8. IsFiniteSet(S)
  <2> DEFINE g == [m \in counts |-> bucket(m)]
  <2>1. g \in Surjection(counts, S)
    BY DEF Surjection
  <2>2. QED
    BY <1>1, <2>1, FS_Surjection
<1>9. S \subseteq Positive /\ S # {} /\ \A m \in counts : \E c \in S : m <= c
  BY <1>1, <1>4
<1> HIDE DEF S, T
<1>10. IsFiniteSet(S \cup T)
  BY <1>7, <1>8, FS_Union
<1>11. QED
  BY <1>3, <1>5, <1>7, <1>9, <1>10

PlannedCore(f, m) == CorePlan(f, ExecutionPlan(f, m))
KeyOf(f, m) == Key(f, ExecutionPlan(f, m))

(* Of the planned counts with a key, one has the workspace with the most   *)
(* bytes.                                                                  *)
LEMMA LargestIs ==
  ASSUME NEW f \in Shapes, NEW planned \in SUBSET Positive, IsFiniteSet(planned),
         NEW n \in planned
  PROVE  \E m \in planned :
            /\ KeyOf(f, m) = KeyOf(f, n)
            /\ LargestCore(f, planned, KeyOf(f, n)) = PlannedCore(f, m)
            /\ \A j \in planned : KeyOf(f, j) = KeyOf(f, n) =>
                  CoreBytes(f, PlannedCore(f, j)) <= CoreBytes(f, PlannedCore(f, m))
<1> DEFINE k == KeyOf(f, n)
           mine == {c \in {PlannedCore(f, m) : m \in planned} : Key(f, c.plan) = k}
           those == {m \in planned : KeyOf(f, m) = k}
           bytes == {CoreBytes(f, PlannedCore(f, m)) : m \in those}
           g == [m \in those |-> CoreBytes(f, PlannedCore(f, m))]
<1>1. \A m \in planned : /\ ExecutionPlan(f, m) \in PlanShapes
                         /\ PlannedCore(f, m).plan = ExecutionPlan(f, m)
                         /\ CoreBytes(f, PlannedCore(f, m)) \in Nat
  BY PlanType, CorePlanOf, CoreBytesNat DEF PlannedCore
<1>2. mine = {PlannedCore(f, m) : m \in those}
  BY <1>1 DEF KeyOf
<1>3. IsFiniteSet(those) /\ n \in those
  BY FS_Subset
<1>4. g \in Surjection(those, bytes)
  BY DEF Surjection
<1>5. IsFiniteSet(bytes)
  <2> HIDE DEF g, those, bytes
  <2>1. QED
    BY <1>3, <1>4, FS_Surjection
<1>6. bytes \in SUBSET Nat /\ bytes # {}
  BY <1>1, <1>3
<1>7. Max(bytes) \in bytes /\ \A b \in bytes : b <= Max(bytes)
  <2> HIDE DEF bytes
  <2>1. QED
    BY <1>5, <1>6, FiniteMax
<1>8. PICK m \in those : Max(bytes) = CoreBytes(f, PlannedCore(f, m))
  BY <1>7
<1>9. \A d \in mine : CoreBytes(f, d) <= CoreBytes(f, PlannedCore(f, m))
  BY <1>2, <1>7, <1>8
<1>10. LargestCore(f, planned, k) =
         CHOOSE c \in mine : \A d \in mine : CoreBytes(f, d) <= CoreBytes(f, c)
  BY DEF LargestCore, PlannedCore
<1>11. PlannedCore(f, m) \in mine
  BY <1>2, <1>8
<1>12. \E c \in mine : \A d \in mine : CoreBytes(f, d) <= CoreBytes(f, c)
  BY <1>9, <1>11
<1>13. /\ LargestCore(f, planned, k) \in mine
       /\ \A d \in mine : CoreBytes(f, d) <= CoreBytes(f, LargestCore(f, planned, k))
  <2> HIDE DEF mine, k
  <2>1. QED
    BY <1>10, <1>12
<1>14. PICK x \in those : LargestCore(f, planned, k) = PlannedCore(f, x)
  BY <1>2, <1>13
<1>15. \A j \in those : CoreBytes(f, PlannedCore(f, j)) <= CoreBytes(f, PlannedCore(f, x))
  BY <1>2, <1>13, <1>14
<1>16. QED
  BY <1>14, <1>15

(* The sequence of a finite set has its members, each once.                *)
LEMMA SeqOfSet ==
  ASSUME NEW S, IsFiniteSet(S)
  PROVE  /\ DOMAIN SetToSeq(S) = 1 .. Cardinality(S)
         /\ \A i \in DOMAIN SetToSeq(S) : SetToSeq(S)[i] \in S
         /\ Range(SetToSeq(S)) = S
         /\ SetToSeq(S) = <<>> => S = {}
<1> DEFINE n == Cardinality(S)
<1>1. n \in Nat /\ ExistsBijection(1 .. n, S)
  BY FS_CardinalityType
<1>2. PICK g \in Bijection(1 .. n, S) : TRUE
  BY <1>1 DEF ExistsBijection
<1>3. g \in [1 .. n -> S] /\ IsInjective(g)
  BY <1>2 DEF Bijection, Injection, Surjection
<1>4. SetToSeq(S) \in [1 .. n -> S] /\ IsInjective(SetToSeq(S))
  <2> DEFINE F == [1 .. n -> S]
  <2>1. SetToSeq(S) = CHOOSE h \in F : IsInjective(h)
    BY DEF SetToSeq
  <2>2. \E h \in F : IsInjective(h)
    BY <1>3
  <2> HIDE DEF F
  <2>3. SetToSeq(S) \in F /\ IsInjective(SetToSeq(S))
    BY <2>1, <2>2, Zenon
  <2>4. QED
    BY <2>3 DEF F
<1> DEFINE s == SetToSeq(S)
<1> HIDE DEF s
<1>5. s \in Injection(1 .. n, S)
  BY <1>4 DEF Injection, s
<1>6. IsFiniteSet(1 .. n) /\ Cardinality(1 .. n) = n
  BY <1>1, FS_Interval
<1>7. s \in Surjection(1 .. n, S)
  BY <1>5, <1>6, FS_Injection
<1>8. Range(s) = S
  BY <1>4, <1>7 DEF Range, Surjection, s
<1>9. ASSUME s = <<>> PROVE S = {}
  BY <1>4, <1>8, <1>9 DEF Range, s
<1>10. QED
  BY <1>4, <1>8, <1>9 DEF s

LEMMA FamiliesType == Families \subseteq Shapes
BY PoolAssumption DEF Families, Layers

LEMMA KeysAlike ==
  ASSUME OneActivation, NEW f \in Families, NEW g \in Families, NEW p, NEW q,
         Key(f, p) = Key(g, q)
  PROVE  f = g /\ p.impl = q.impl
<1>1. f \in Shapes /\ g \in Shapes
  BY FamiliesType
<1>2. /\ p.impl = q.impl /\ f.quant = g.quant
      /\ f.experts = g.experts /\ f.hidden = g.hidden /\ f.inter = g.inter
      /\ f.topk = g.topk
  BY DEF Key
<1>3. [f EXCEPT !.gated = g.gated] = g
  BY <1>1, <1>2 DEF Shapes
<1>4. QED
  BY <1>2, <1>3 DEF OneActivation

-----------------------------------------------------------------------------
(* The inductive invariant *)

(* A launch is compiled for the call, or was beforehand for at least as    *)
(* many tokens and at most as many rows as the workspace has.              *)
LaunchOf(f, rows, m, launch) ==
    \/ launch = {}
    \/ \E x \in launch :
          /\ launch = {x}
          /\ x.size \in Positive /\ m <= x.size /\ x.size * f.topk <= rows
          /\ x.block = BlockSize(f, x.size)
          /\ x.tc => x.size = m

(* A workspace has the tensors of its plan, and the rows of every call a   *)
(* launch was compiled for.                                                *)
WorkspaceFor(f, w) ==
    LET p == w.core.plan
    IN /\ p \in PlanShapes
       /\ p.impl = "w4a16" <=> f.quant = "w4a16"
       /\ w.core = CorePlan(f, p)
       /\ w.planned \subseteq Positive
       /\ \A c \in w.planned : c * f.topk <= p.rows

WorkspaceOf(k, w) == \E f \in Families : k = Key(f, w.core.plan) /\ WorkspaceFor(f, w)

(* A binding has the rows of its call, and if the call is served by a      *)
(* dynamic kernel, the tensors of one.                                     *)
BindingOf(b) ==
    LET f == b.layer.fam
        p == b.core.plan
    IN /\ b.layer \in Layers /\ b.m \in Positive
       /\ p \in PlanShapes
       /\ p.impl = "w4a16" <=> f.quant = "w4a16"
       /\ Backend(f, b.m) = "dynamic" => p.impl = "dynamic"
       /\ b.core = CorePlan(f, p)
       /\ b.m * f.topk <= p.rows
       /\ LaunchOf(f, p.rows, b.m, b.launch)

(* The workspaces of a frozen pool are those its arena was sized for.      *)
FrozenOf(k, w, counts) ==
    \E f \in Families : \E n \in CoreTokenCounts(f, counts) :
       /\ k = KeyOf(f, n)
       /\ w.core = LargestCore(f, CoreTokenCounts(f, counts), k)
       /\ f.quant = "w4a16" => w.planned = CoreTokenCounts(f, counts)

(* The last call was launched over a workspace that holds it, on barrier   *)
(* words and scales of its own; or it was refused, by the pool or for what *)
(* the workspace of its binding lacks.                                     *)
LastOf(x) ==
    \/ x.event = "none"
    \/ /\ x.event = "launch"
       /\ \E b : /\ BindingOf(b) /\ LaunchRefusals(b, FALSE) = {}
                 /\ x.layer = b.layer /\ x.m = b.m /\ x.core = b.core
       /\ x.saw = [words |-> {x.core}, scales |-> {x.layer}]
    \/ /\ x.event = "refused"
       /\ \/ x.why \subseteq {"frozen", "capture", "arena", "unplanned", "tokens"}
          \/ \E b : BindingOf(b) /\ x.why \subseteq LaunchRefusals(b, TRUE)

IInv == /\ caps = {} \/ caps \in Plans
        /\ frozen => caps # {}
        /\ \A k \in DOMAIN pool : WorkspaceOf(k, pool[k])
        /\ frozen => \A k \in DOMAIN pool : FrozenOf(k, pool[k], caps)
        /\ \A b \in bound \cup graph : BindingOf(b)
        /\ \A b \in graph : LaunchRefusals(b, TRUE) = {}
        /\ LastOf(last)

LEMMA LaunchIs ==
  ASSUME NEW f \in Shapes, NEW m \in Positive, NEW planned \in SUBSET Positive, NEW r \in Nat,
         m * f.topk <= r, \A c \in planned : c * f.topk <= r
  PROVE  LaunchOf(f, r, m, LaunchFor(f, planned, m))
<1> DEFINE dec == DecodeLaunches(f, planned)
           exact == {x \in dec : x.size = m}
           roomy == {x \in FusedLaunches(f, planned) : x.size >= m}
           least == {x \in roomy : \A y \in roomy : x.size <= y.size}
           mine == [size |-> m, block |-> BlockSize(f, m), tc |-> TRUE]
<1>1. LaunchFor(f, planned, m) = IF exact # {} THEN exact ELSE least
  BY DEF LaunchFor
<1>2. \A x \in dec : /\ x.size \in 1 .. 8
                     /\ x = [size |-> x.size, block |-> BlockSize(f, x.size), tc |-> TRUE]
  BY DEF DecodeLaunches, TcDecodeMaxTokens
<1>3. \A x \in FusedLaunches(f, planned) :
         /\ x.size \in planned
         /\ x = [size |-> x.size, block |-> BlockSize(f, x.size), tc |-> FALSE]
  BY DEF FusedLaunches
<1>4. ASSUME exact # {} PROVE LaunchOf(f, r, m, exact)
  <2>1. mine \in exact /\ \A x \in exact : x = mine
    BY <1>2, <1>4
  <2>2. exact = {mine}
    BY <2>1
  <2> HIDE DEF exact
  <2>3. m <= m
    OBVIOUS
  <2>4. QED
    BY <2>2, <2>3 DEF LaunchOf
<1>5. ASSUME exact = {}, least # {} PROVE LaunchOf(f, r, m, least)
  <2>1. PICK x \in least : TRUE
    BY <1>5
  <2>2. /\ x \in FusedLaunches(f, planned) /\ m <= x.size /\ x.size \in planned
        /\ x.block = BlockSize(f, x.size) /\ x.tc = FALSE
    BY <1>3, <2>1
  <2>3. ASSUME NEW y \in least PROVE y = x
    <3>1. y.size \in Nat /\ x.size \in Nat /\ y.size <= x.size /\ x.size <= y.size
      BY <1>3, <2>1
    <3>2. y.size = x.size
      BY <3>1
    <3>3. QED
      BY <1>3, <2>1, <3>2
  <2>4. least = {x}
    BY <2>1, <2>3
  <2> HIDE DEF least
  <2>5. QED
    BY <2>2, <2>4 DEF LaunchOf
<1>6. QED
  BY <1>1, <1>4, <1>5 DEF LaunchOf

(* The workspace a call gets from the pool has the rows of the call.       *)
LEMMA ResolvedIs ==
  ASSUME OneActivation, \A k \in DOMAIN pool : WorkspaceOf(k, pool[k]),
         NEW f \in Families, NEW m \in Positive
  PROVE  LET w == Resolved(f, m)
         IN /\ WorkspaceFor(f, w) /\ w.core.plan.impl = Backend(f, m)
            /\ Key(f, w.core.plan) = KeyOf(f, m)
            /\ m * f.topk <= w.core.plan.rows
<1> DEFINE q == ExecutionPlan(f, m)
           w == Resolved(f, m)
           k == Key(f, q)
<1>1. f \in Shapes
  BY FamiliesType
<1>2. /\ q \in PlanShapes /\ q.rows = m * f.topk /\ q.impl = Backend(f, m)
      /\ q.impl = "w4a16" <=> f.quant = "w4a16"
  BY <1>1, PlanType
<1>3. ASSUME k \in DOMAIN pool
      PROVE  /\ WorkspaceFor(f, pool[k]) /\ pool[k].core.plan.impl = q.impl
             /\ Key(f, pool[k].core.plan) = k
  <2>1. PICK g \in Families : k = Key(g, pool[k].core.plan) /\ WorkspaceFor(g, pool[k])
    BY <1>3 DEF WorkspaceOf
  <2> HIDE DEF q
  <2>2. f = g /\ q.impl = pool[k].core.plan.impl
    BY <2>1, KeysAlike
  <2>3. QED
    BY <2>1, <2>2
<1> HIDE DEF q
<1>4. CASE HasWorkspace(f, q)
  <2>1. k \in DOMAIN pool /\ w = pool[k] /\ pool[k].core.plan.rows >= q.rows
    BY <1>4 DEF HasWorkspace, Fits, Resolved, q
  <2>2. QED
    BY <1>2, <1>3, <2>1 DEF KeyOf, q
<1>5. CASE ~ HasWorkspace(f, q)
  <2> DEFINE p == Wanted(f, q)
  <2>1. w = [core |-> CorePlan(f, p), block |-> NewBlock, planned |-> {}]
    BY <1>5 DEF Resolved, q
  <2>2. p \in PlanShapes /\ p.impl = q.impl /\ p.rows >= q.rows
    <3>1. CASE k \in DOMAIN pool
      <4>1. pool[k].core.plan \in PlanShapes
        BY <1>3, <3>1 DEF WorkspaceFor
      <4>2. p = Grown(q, pool[k].core.plan)
        BY <3>1 DEF Wanted
      <4>3. QED
        BY <1>2, <4>1, <4>2, GrownType
    <3>2. CASE k \notin DOMAIN pool
      <4>1. p = q /\ q.rows \in Nat
        BY <1>2, <3>2 DEF Wanted, PlanShapes
      <4>2. QED
        BY <1>2, <4>1
    <3>3. QED
      BY <3>1, <3>2
  <2> HIDE DEF p
  <2>3. CorePlan(f, p).plan = p
    BY <2>2, CorePlanOf
  <2>4. Key(f, p) = Key(f, q)
    BY <2>2 DEF Key
  <2>5. WorkspaceFor(f, w)
    BY <1>2, <2>1, <2>2, <2>3 DEF WorkspaceFor
  <2>6. QED
    BY <1>2, <2>1, <2>2, <2>3, <2>4, <2>5 DEF KeyOf, q
<1>6. QED
  BY <1>4, <1>5

LEMMA BindingIs ==
  ASSUME OneActivation, \A k \in DOMAIN pool : WorkspaceOf(k, pool[k]), NEW c \in Calls
  PROVE  BindingOf(Binding(c[1], c[2], Resolved(c[1].fam, c[2])))
<1> DEFINE l == c[1]
           f == c[1].fam
           m == c[2]
           w == Resolved(f, m)
           b == Binding(l, m, w)
<1>1. l \in Layers /\ f \in Families /\ f \in Shapes /\ m \in Positive
  BY PoolAssumption DEF Layers, Families
<1>2. /\ WorkspaceFor(f, w) /\ w.core.plan.impl = Backend(f, m)
      /\ m * f.topk <= w.core.plan.rows
  BY <1>1, ResolvedIs
<1> HIDE DEF l, f, m, w
<1>3. w.core.plan.rows \in Nat
  BY <1>2 DEF WorkspaceFor, PlanShapes
<1>4. LaunchOf(f, w.core.plan.rows, m, LaunchFor(f, w.planned, m))
  BY <1>1, <1>2, <1>3, LaunchIs DEF WorkspaceFor
<1>5. /\ b.layer = l /\ b.m = m /\ b.core = w.core
      /\ b.launch = LaunchFor(f, w.planned, m)
  BY DEF Binding, f, l
<1> HIDE DEF b
<1>6. b.layer.fam = f
  BY <1>5 DEF f, l
<1>7. BindingOf(b)
  BY <1>1, <1>2, <1>4, <1>5, <1>6 DEF BindingOf, WorkspaceFor
<1>8. QED
  BY <1>7 DEF b, w, f, m, l

LEMMA ScratchBindingIs ==
  ASSUME NEW c \in Calls, NEW counts \in Plans, ScratchRefusals(c[1].fam, c[2], counts) = {}
  PROVE  BindingOf(ScratchBinding(c[1], c[2], ScratchWorkspace(c[1].fam, counts)))
<1> DEFINE l == c[1]
           f == c[1].fam
           m == c[2]
           n == Max(CoreTokenCounts(f, counts))
           p == ExecutionPlan(f, n)
           b == ScratchBinding(l, m, ScratchWorkspace(f, counts))
<1>1. l \in Layers /\ f \in Families /\ f \in Shapes /\ m \in Positive
  BY PoolAssumption DEF Layers, Families
<1>2. n \in Positive /\ m <= n
  <2>1. m <= Max(counts)
    <3>1. Max(counts) \in Positive
      BY <1>1, CountsType, PoolAssumption
    <3>2. ~ (m > Max(counts))
      BY DEF ScratchRefusals
    <3>3. QED
      BY <1>1, <3>1, <3>2
  <2>2. /\ CoreTokenCounts(f, counts) \subseteq Positive /\ CoreTokenCounts(f, counts) # {}
        /\ IsFiniteSet(CoreTokenCounts(f, counts))
        /\ Max(counts) \in counts
        /\ \A x \in counts : \E y \in CoreTokenCounts(f, counts) : x <= y
    BY <1>1, CountsType
  <2>3. PICK y \in CoreTokenCounts(f, counts) : Max(counts) <= y
    BY <2>2
  <2>4. CoreTokenCounts(f, counts) \in SUBSET Nat
    BY <2>2
  <2>5. n \in CoreTokenCounts(f, counts) /\ y <= n
    BY <2>2, <2>4, FiniteMax
  <2>6. Max(counts) \in Nat /\ y \in Nat /\ n \in Positive
    BY <2>2, <2>5, PoolAssumption
  <2>7. QED
    BY <1>1, <2>1, <2>3, <2>5, <2>6
<1> HIDE DEF n
<1>3. /\ p \in PlanShapes /\ p.rows = n * f.topk /\ p.impl = Backend(f, n)
      /\ p.impl = "w4a16" <=> f.quant = "w4a16"
  BY <1>1, <1>2, PlanType
<1>4. m * f.topk <= p.rows
  <2>1. f.topk \in Nat
    BY <1>1 DEF Shapes
  <2>2. QED
    BY <1>1, <1>2, <1>3, <2>1, TimesMono
<1>5. Backend(f, m) = "dynamic" => p.impl = "dynamic"
  <2> SUFFICES ASSUME Backend(f, m) = "dynamic", p.impl # "dynamic" PROVE FALSE
    OBVIOUS
  <2>1. f.quant # "w4a16" /\ ~ TinyDecode(f, m)
    BY BackendIs
  <2>2. Backend(f, n) = "micro"
    BY <1>3, <2>1, BackendIs
  <2>3. TinyDecode(f, n)
    BY <2>2, BackendIs
  <2>4. QED
    BY <1>1, <1>2, <2>1, <2>3, TinyMono
<1> HIDE DEF p
<1>6. /\ b.layer = l /\ b.m = m /\ b.core = CorePlan(f, p) /\ b.launch = {}
      /\ b.layer.fam = f
  BY DEF ScratchBinding, ScratchWorkspace, n, p
<1>7. CorePlan(f, p).plan = p
  BY <1>3, CorePlanOf
<1> HIDE DEF b, l, f, m
<1>8. BindingOf(b)
  BY <1>1, <1>3, <1>4, <1>5, <1>6, <1>7 DEF BindingOf, LaunchOf
<1>9. QED
  BY <1>8 DEF b, l, f, m

-----------------------------------------------------------------------------
(* What the planned buffers are enough for *)

(* The launch of a w4a16 call indexes as many rows as it was compiled for, *)
(* in the block size of as many tokens; a direct one those of the call.    *)
LEMMA LaunchRoom ==
  ASSUME NEW f \in Shapes, NEW r \in Positive, NEW m \in Positive, NEW launch,
         m * f.topk <= r, LaunchOf(f, r, m, launch)
  PROVE  \E c \in Positive :
            /\ LaunchSize(m, launch) = c /\ LaunchBlock(f, m, launch) = BlockSize(f, c)
            /\ c * f.topk <= r
            /\ UsesDirect(f, m, launch) => c = m /\ c <= IF f.gated THEN 8 ELSE 6
<1>1. ASSUME UsesDirect(f, m, launch) PROVE m <= IF f.gated THEN 8 ELSE 6
  BY <1>1 DEF UsesDirect, UsesTcDecode, TcDecodePreferred, DirectMaxTokens, TcDecodeMaxTokens
<1>2. CASE launch = {}
  BY <1>1, <1>2 DEF LaunchSize, LaunchBlock
<1>3. CASE launch # {}
  <2>1. PICK x \in launch : /\ launch = {x}
                            /\ x.size \in Positive /\ m <= x.size /\ x.size * f.topk <= r
                            /\ x.block = BlockSize(f, x.size)
                            /\ x.tc => x.size = m
    BY <1>3 DEF LaunchOf
  <2>2. {y.size : y \in launch} = {x.size} /\ {y.block : y \in launch} = {x.block}
    BY <2>1
  <2>3. x.size \in Nat /\ x.block \in Nat
    BY <2>1, BlockSizeType DEF BlockSizes
  <2>4. LaunchSize(m, launch) = x.size /\ LaunchBlock(f, m, launch) = x.block
    <3>1. Max({x.size}) = x.size /\ Max({x.block}) = x.block
      BY <2>3, MaxOne
    <3>2. QED
      BY <1>3, <2>2, <3>1 DEF LaunchSize, LaunchBlock
  <2>5. UsesDirect(f, m, launch) => x.tc
    BY <2>1 DEF UsesDirect
  <2>6. QED
    BY <1>1, <2>1, <2>4, <2>5
<1>4. QED
  BY <1>2, <1>3

LEMMA BuffersEnough ==
  ASSUME NEW f \in Shapes, NEW p \in PlanShapes, NEW m \in Positive, NEW launch,
         m * f.topk <= p.rows, LaunchOf(f, p.rows, m, launch)
  PROVE  /\ BuffersFit(f, W4A16Core(f, p), m, launch)
         /\ ScratchFits(f, W4A16Core(f, p), m, launch)
<1> DEFINE r == p.rows
           core == W4A16Core(f, p)
<1>1. r \in Positive /\ f.topk \in Positive /\ f.inter \in Positive
  BY DEF PlanShapes, Shapes
<1>2. PICK c \in Positive :
         /\ LaunchSize(m, launch) = c /\ LaunchBlock(f, m, launch) = BlockSize(f, c)
         /\ c * f.topk <= r
         /\ UsesDirect(f, m, launch) => c = m /\ c <= IF f.gated THEN 8 ELSE 6
  BY <1>1, LaunchRoom
<1>3. /\ core.routeSlots = RouteSlots(f, r) /\ core.routeBlocks = RouteBlocks(f, r)
      /\ core.cache13 = r * AtLeast(Fc1Cols(f), f.hidden) /\ core.cache2 = r * f.inter
      /\ core.fc1 = SplitKScratch(f, r, Fc1Cols(f)) /\ core.fc2 = SplitKScratch(f, r, f.hidden)
  BY W4A16CoreIs
<1> HIDE DEF core
<1> DEFINE b == BlockSize(f, c)
           slots == PackedSlots(c * f.topk, b, f.experts)
<1>4. /\ slots <= RouteSlots(f, r) /\ Ceil(slots, b) <= RouteBlocks(f, r)
      /\ \A cols \in Positive : ScratchElements(cols, slots, b) <= SplitKScratch(f, r, cols)
      /\ c <= (IF f.gated THEN 8 ELSE 6) =>
            \A cols \in Positive : ScratchElements(cols, c * f.topk * b, b) <= SplitKScratch(f, r, cols)
  BY <1>1, <1>2, W4A16Serves
<1>5. /\ UsesDirect(f, m, launch) => LaunchSlots(f, m, launch) = c * f.topk * b
      /\ ~ UsesDirect(f, m, launch) => LaunchSlots(f, m, launch) = slots
  BY <1>2 DEF LaunchSlots
<1>6. \A n \in Nat : (c * f.topk) * n <= r * n
  <2>1. c * f.topk \in Nat /\ r \in Nat
    BY <1>1
  <2>2. QED
    BY <1>2, <2>1, TimesMono
<1>7. BuffersFit(f, core, m, launch)
  <2>1. /\ c * f.topk * AtLeast(Fc1Cols(f), f.hidden) <= core.cache13
        /\ c * f.topk * f.inter <= core.cache2
    BY <1>1, <1>3, <1>6, ColsType
  <2>2. \/ UsesDirect(f, m, launch)
        \/ /\ LaunchSlots(f, m, launch) <= core.routeSlots
           /\ Ceil(LaunchSlots(f, m, launch), LaunchBlock(f, m, launch)) <= core.routeBlocks
    BY <1>2, <1>3, <1>4, <1>5
  <2>3. QED
    BY <1>2, <2>1, <2>2 DEF BuffersFit
<1>8. ScratchFits(f, core, m, launch)
  <2>1. ASSUME NEW cols \in Positive
        PROVE  ScratchElements(cols, LaunchSlots(f, m, launch), LaunchBlock(f, m, launch))
                  <= SplitKScratch(f, r, cols)
    <3>1. CASE UsesDirect(f, m, launch)
      BY <1>2, <1>4, <1>5, <3>1
    <3>2. CASE ~ UsesDirect(f, m, launch)
      BY <1>2, <1>4, <1>5, <3>2
    <3>3. QED
      BY <3>1, <3>2
  <2>2. QED
    BY <1>3, <2>1, ColsType DEF ScratchFits
<1>9. QED
  BY <1>7, <1>8 DEF core

LEMMA StagingEnough ==
  ASSUME NEW f \in Shapes, NEW p \in PlanShapes, NEW m \in Positive,
         m * f.topk <= p.rows, f.quant = "w4a8_mx", ~ MeasuredShape(f)
  PROVE  StagingFits(f, DynamicCore(f, p), m)
<1> DEFINE stage == KernelInter(f) + KernelInter(f) \div 32
           n == m * f.topk
<1>1. /\ p.rows \in Nat /\ p.tiles \in Nat /\ f.topk \in Positive
      /\ stage \in Nat
  BY KernelInterType DEF PlanShapes, Shapes
<1>2. n \in Nat
  BY <1>1
<1>3. /\ DynamicCore(f, p).inner = p.tiles * TileM(f, p.rows) * stage
      /\ DynamicCore(f, p).plan.tiles = p.tiles
  BY DEF DynamicCore, W4A8
<1> HIDE DEF stage, n
<1>4. /\ TileM(f, n) \in Nat /\ TileM(f, p.rows) \in Nat
      /\ TileM(f, n) <= TileM(f, p.rows)
  BY <1>1, <1>2, TileMType, TileMono DEF n
<1>5. /\ p.tiles * TileM(f, n) \in Nat /\ p.tiles * TileM(f, p.rows) \in Nat
      /\ p.tiles * TileM(f, n) <= p.tiles * TileM(f, p.rows)
  BY <1>1, <1>4, TimesMono
<1>6. p.tiles * TileM(f, n) * stage <= p.tiles * TileM(f, p.rows) * stage
  BY <1>1, <1>5, TimesMono
<1>7. QED
  BY <1>3, <1>6 DEF StagingFits, stage, n

LEMMA NoShortage ==
  ASSUME NEW b, BindingOf(b), ~ MeasuredShape(b.layer.fam)
  PROVE  LaunchRefusals(b, TRUE) \cap {"staging", "rows", "buffers", "scratch"} = {}
<1> DEFINE f == b.layer.fam
           p == b.core.plan
           m == b.m
<1>1. /\ f \in Shapes /\ p \in PlanShapes /\ m \in Positive
      /\ p.impl = "w4a16" <=> f.quant = "w4a16"
      /\ Backend(f, m) = "dynamic" => p.impl = "dynamic"
      /\ b.core = CorePlan(f, p)
      /\ m * f.topk <= p.rows
      /\ LaunchOf(f, p.rows, m, b.launch)
  BY FamiliesType DEF BindingOf, Families
<1> DEFINE short == LaunchRefusals(b, TRUE)
<1>2. "staging" \in short => /\ Backend(f, m) = "dynamic" /\ Materialized(f, m)
                            /\ ~ StagingFits(f, b.core, m)
  BY DEF LaunchRefusals
<1>3. "rows" \in short => p.rows < m * f.topk
  BY DEF LaunchRefusals
<1>4. "buffers" \in short => f.quant = "w4a16" /\ ~ BuffersFit(f, b.core, m, b.launch)
  BY DEF LaunchRefusals
<1>5. "scratch" \in short => f.quant = "w4a16" /\ ~ ScratchFits(f, b.core, m, b.launch)
  BY DEF LaunchRefusals
<1> HIDE DEF short, f, p, m
<1>6. "staging" \notin short
  <2> SUFFICES ASSUME "staging" \in short PROVE FALSE
    OBVIOUS
  <2>1. b.core = DynamicCore(f, p) /\ f.quant = "w4a8_mx"
    BY <1>1, <1>2 DEF CorePlan, Materialized
  <2>2. QED
    BY <1>1, <1>2, <2>1, StagingEnough DEF f
<1>7. "rows" \notin short
  <2>1. p.rows \in Nat /\ m * f.topk \in Nat
    BY <1>1 DEF PlanShapes, Shapes
  <2>2. QED
    BY <1>1, <1>3, <2>1
<1>8. "buffers" \notin short /\ "scratch" \notin short
  <2>1. f.quant = "w4a16" => b.core = W4A16Core(f, p)
    BY <1>1 DEF CorePlan
  <2>2. QED
    BY <1>1, <1>4, <1>5, <2>1, BuffersEnough
<1>9. QED
  BY <1>6, <1>7, <1>8 DEF short

-----------------------------------------------------------------------------
(* What a launch that is not refused indexes *)

(* The shape that was measured on its own divides into the blocks of the   *)
(* kernel that stages its intermediate.                                    *)
MeasuredRegular ==
    \A f \in Families : MeasuredShape(f) => f.hidden % 256 = 0 /\ f.inter % 32 = 0

LEMMA LaunchPasses ==
  ASSUME NEW b, LaunchRefusals(b, FALSE) = {}
  PROVE  /\ b.layer.fam.quant # "w4a16" => Fits(b.core, ExecutionPlan(b.layer.fam, b.m))
         /\ Backend(b.layer.fam, b.m) = "dynamic" /\ Materialized(b.layer.fam, b.m)
               => StagingFits(b.layer.fam, b.core, b.m)
         /\ b.layer.fam.quant = "w4a16" => ~ (b.core.plan.rows < b.m * b.layer.fam.topk)
<1>1. "plan" \notin LaunchRefusals(b, FALSE) /\ "staging" \notin LaunchRefusals(b, FALSE)
      /\ "rows" \notin LaunchRefusals(b, FALSE)
  OBVIOUS
<1>2. QED
  BY <1>1 DEF LaunchRefusals

(* A smaller call gets no larger tile than its workspace was sized for: of *)
(* the measured shape, the staged intermediate would not fit.              *)
LEMMA TileCovered ==
  ASSUME NEW f \in Shapes, NEW p \in PlanShapes, NEW n \in Positive, n * f.topk <= p.rows,
         MeasuredShape(f) => f.hidden % 256 = 0 /\ f.inter % 32 = 0,
         Materialized(f, n) => StagingFits(f, DynamicCore(f, p), n)
  PROVE  /\ TileM(f, n * f.topk) \in Nat
         /\ p.tiles * TileM(f, n * f.topk) <= p.tiles * TileM(f, p.rows)
<1> DEFINE m == n * f.topk
           s == TileM(f, m)
           t == TileM(f, p.rows)
           stage == KernelInter(f) + KernelInter(f) \div 32
<1>1. /\ p.rows \in Nat /\ p.tiles \in Nat /\ stage \in Positive /\ m \in Nat /\ m <= p.rows
  BY KernelInterType DEF PlanShapes, Shapes
<1> HIDE DEF stage, m
<1>2. s \in {16, 32, 64, 128} /\ t \in {16, 32, 64, 128}
  BY <1>1, TileMType
<1>3. ASSUME s > t PROVE p.tiles * s <= p.tiles * t
  <2>1. MeasuredShape(f)
    BY <1>1, <1>2, <1>3, TileMono
  <2>2. Materialized(f, n) /\ f.quant = "w4a8_mx"
    BY <1>2, <1>3, <2>1 DEF Materialized, MeasuredShape, m
  <2>3. p.tiles * s * stage <= p.tiles * t * stage
    <3>1. StagingFits(f, DynamicCore(f, p), n)
      BY <2>2
    <3>2. DynamicCore(f, p).inner = p.tiles * t * stage /\ DynamicCore(f, p).plan.tiles = p.tiles
      BY <2>2 DEF DynamicCore, W4A8, stage
    <3>3. QED
      BY <3>1, <3>2 DEF StagingFits, stage, m
  <2> HIDE DEF s, t
  <2>4. p.tiles * s \in Nat /\ p.tiles * t \in Nat
    BY <1>1, <1>2
  <2>5. QED
    BY <1>1, <2>3, <2>4, TimesLess
<1>4. ASSUME s <= t PROVE p.tiles * s <= p.tiles * t
  <2> HIDE DEF s, t
  <2>1. s \in Nat /\ t \in Nat
    BY <1>2
  <2>2. QED
    BY <1>1, <1>4, <2>1, TimesMono
<1>5. s \in Nat /\ (s > t \/ s <= t)
  BY <1>2
<1>6. QED
  BY <1>3, <1>4, <1>5 DEF m

LEMMA KernelFitsBinding ==
  ASSUME MeasuredRegular, NEW b, BindingOf(b), LaunchRefusals(b, FALSE) = {}
  PROVE  KernelFits(b.layer, b.m, b.core)
<1> DEFINE f == b.layer.fam
           m == b.m
           c == b.core
           p == b.core.plan
           q == ExecutionPlan(f, m)
<1>1. /\ f \in Families /\ f \in Shapes /\ p \in PlanShapes /\ m \in Positive
      /\ p.impl = "w4a16" <=> f.quant = "w4a16"
      /\ c = CorePlan(f, p)
      /\ m * f.topk <= p.rows
  BY FamiliesType DEF BindingOf, Families
<1>2. /\ f.quant # "w4a16" => Fits(c, q)
      /\ Backend(f, m) = "dynamic" /\ Materialized(f, m) => StagingFits(f, c, m)
  BY LaunchPasses
<1>3. /\ q \in PlanShapes /\ q.rows = m * f.topk /\ q.impl = Backend(f, m)
      /\ q.impl = "w4a16" <=> f.quant = "w4a16"
      /\ q.impl = "dynamic" => q.stateE = f.experts
  BY <1>1, PlanType
<1> HIDE DEF q, c, p, f, m
<1>4. c.plan = p
  BY DEF c, p
<1>5. q.impl # "w4a16" => /\ p.impl = q.impl /\ p.stateE >= q.stateE
                         /\ p.tiles >= q.tiles /\ p.tasks >= q.tasks
  BY <1>2, <1>3, <1>4 DEF Fits
<1>6. CASE q.impl = "dynamic"
  <2>1. c = DynamicCore(f, p) /\ p.impl = "dynamic"
    BY <1>1, <1>5, <1>6 DEF CorePlan
  <2>2. MeasuredShape(f) => f.hidden % 256 = 0 /\ f.inter % 32 = 0
    BY <1>1 DEF MeasuredRegular
  <2>3. Materialized(f, m) => StagingFits(f, DynamicCore(f, p), m)
    BY <1>2, <1>3, <1>6, <2>1
  <2>4. /\ TileM(f, q.rows) \in Nat
        /\ p.tiles * TileM(f, q.rows) <= p.tiles * TileM(f, p.rows)
    BY <1>1, <1>3, <2>2, <2>3, TileCovered
  <2>5. /\ c.inputRows = p.tiles * TileM(f, p.rows)
        /\ c.scaleRows = AlignUp(p.tiles * TileM(f, p.rows), 128)
    BY <2>1 DEF DynamicCore
  <2>6. /\ p.tiles \in Nat /\ q.tiles \in Nat /\ q.tiles <= p.tiles
        /\ p.tiles * TileM(f, p.rows) \in Nat
    <3>1. p.rows \in Nat
      BY <1>1 DEF PlanShapes
    <3>2. TileM(f, p.rows) \in Nat
      BY <1>1, <3>1, TileMType
    <3>3. p.tiles \in Nat /\ q.tiles \in Nat /\ q.tiles <= p.tiles
      BY <1>1, <1>3, <1>5, <1>6 DEF PlanShapes
    <3>4. QED
      BY <3>2, <3>3
  <2>7. /\ q.tiles * TileM(f, q.rows) \in Nat /\ p.tiles * TileM(f, q.rows) \in Nat
        /\ q.tiles * TileM(f, q.rows) <= p.tiles * TileM(f, q.rows)
    BY <2>4, <2>6, TimesMono
  <2>8. /\ AlignUp(p.tiles * TileM(f, p.rows), 128) \in Nat
        /\ p.tiles * TileM(f, p.rows) <= AlignUp(p.tiles * TileM(f, p.rows), 128)
    BY <2>6, AlignUpNat
  <2>9. q.tiles * TileM(f, q.rows) <= c.scaleRows
    BY <2>4, <2>5, <2>6, <2>7, <2>8
  <2>10. p.stateE >= f.experts
    BY <1>3, <1>5, <1>6
  <2>11. KernelFits(b.layer, m, c)
    BY <1>4, <1>5, <1>6, <2>4, <2>5, <2>9, <2>10 DEF KernelFits, q, f
  <2>12. QED
    BY <2>11 DEF m, c
<1>7. CASE q.impl = "micro"
  <2>1. c = MicroCore(f, p)
    BY <1>1, <1>5, <1>7 DEF CorePlan
  <2>2. f.topk \in Positive /\ p.rows \in Nat /\ q.rows \in Nat /\ m * f.topk \in Nat
    BY <1>1, <1>3 DEF Shapes, PlanShapes
  <2>3. q.rows + m * 16 <= c.barriers
    <3>1. c.barriers = p.rows + (p.rows \div f.topk) * 16
      BY <2>1 DEF MicroCore
    <3>2. m <= p.rows \div f.topk /\ p.rows \div f.topk \in Nat
      BY <1>1, <2>2
    <3>3. QED
      BY <1>1, <1>3, <2>2, <3>1, <3>2
  <2>4. q.rows * (f.hidden + Ceil(f.inter \div 2, 128) * 128) <= c.inner
    <3> DEFINE w == f.hidden + Ceil(f.inter \div 2, 128) * 128
    <3>1. w \in Nat
      BY <1>1 DEF Shapes, Ceil
    <3>2. p.rows * w \in Nat /\ p.rows * w <= c.inner /\ c.inner \in Nat
      BY <1>1, <2>1, MicroInner DEF MicroRows
    <3> HIDE DEF w
    <3>3. q.rows * w \in Nat /\ q.rows * w <= p.rows * w
      BY <1>1, <1>3, <2>2, <3>1, TimesMono
    <3>4. q.rows * w <= c.inner
      BY <3>2, <3>3
    <3>5. QED
      BY <3>4 DEF w
  <2>5. KernelFits(b.layer, m, c)
    BY <1>7, <2>3, <2>4 DEF KernelFits, q, f
  <2>6. QED
    BY <2>5 DEF m, c
<1>8. CASE q.impl = "w4a16"
  <2>1. p.rows \in Nat /\ q.rows \in Nat /\ p.rows >= q.rows
    BY <1>1, <1>3 DEF PlanShapes
  <2>2. KernelFits(b.layer, m, c)
    BY <1>4, <1>8, <2>1 DEF KernelFits, q, f
  <2>3. QED
    BY <2>2 DEF m, c
<1>9. QED
  BY <1>3, <1>6, <1>7, <1>8 DEF PlanShapes

-----------------------------------------------------------------------------
(* Steps of the pool *)

(* A workspace of a frozen pool does for all that its arena was sized for. *)
LEMMA FrozenKept ==
  ASSUME OneActivation, NEW f \in Families, NEW counts \in Plans, NEW k \in DOMAIN pool,
         FrozenOf(k, pool[k], counts), NEW m \in CoreTokenCounts(f, counts), k = KeyOf(f, m)
  PROVE  Kept(f, CoreTokenCounts(f, counts), k)
<1> DEFINE planned == CoreTokenCounts(f, counts)
<1>1. f \in Shapes /\ planned \in SUBSET Positive /\ IsFiniteSet(planned)
  BY FamiliesType, CountsType
<1>2. PICK g \in Families : \E n \in CoreTokenCounts(g, counts) :
         /\ k = KeyOf(g, n)
         /\ pool[k].core = LargestCore(g, CoreTokenCounts(g, counts), k)
         /\ g.quant = "w4a16" => pool[k].planned = CoreTokenCounts(g, counts)
  BY DEF FrozenOf
<1>3. f = g
  BY <1>2, KeysAlike DEF KeyOf
<1>4. /\ pool[k].core = LargestCore(f, planned, k)
      /\ f.quant = "w4a16" => pool[k].planned = planned
  BY <1>2, <1>3
<1>5. PICK x \in planned : LargestCore(f, planned, k) = PlannedCore(f, x)
  BY <1>1, LargestIs
<1>6. ExecutionPlan(f, x) \in PlanShapes /\ PlannedCore(f, x).plan = ExecutionPlan(f, x)
  BY <1>1, PlanType, CorePlanOf DEF PlannedCore
<1> DEFINE c == LargestCore(f, planned, k)
<1>7. c.plan \in PlanShapes
  BY <1>5, <1>6
<1> HIDE DEF c
<1>8. Fits(c, c.plan)
  BY <1>7 DEF Fits, PlanShapes
<1>9. QED
  BY <1>4, <1>8 DEF Kept, c

(* What materializing the planned counts of a family makes of the pool.    *)
LEMMA MaterializeIs ==
  ASSUME NEW f \in Families, NEW counts \in Plans, Materialize(f, counts)
  PROVE  LET planned == CoreTokenCounts(f, counts)
             keys == {KeyOf(f, m) : m \in planned}
         IN /\ DOMAIN pool' = DOMAIN pool \cup keys
            /\ \A k \in DOMAIN pool' :
                  \/ /\ k \in DOMAIN pool /\ pool'[k] = pool[k]
                     /\ k \in keys => Kept(f, planned, k)
                  \/ /\ k \in keys /\ ~ Kept(f, planned, k)
                     /\ pool'[k].core = LargestCore(f, planned, k)
                     /\ pool'[k].planned = IF f.quant = "w4a16" THEN planned ELSE {}
<1> DEFINE planned == CoreTokenCounts(f, counts)
           keys == {KeyOf(f, m) : m \in planned}
           S == {k \in keys : ~ Kept(f, planned, k)}
           fresh == SetToSeq(S)
           place(i) == IF caps # {} THEN Arena ELSE blocks + i
           made(i) == [core |-> LargestCore(f, planned, fresh[i]), block |-> place(i),
                       planned |-> IF f.quant = "w4a16" THEN planned ELSE {}]
           index(k) == CHOOSE i \in DOMAIN fresh : fresh[i] = k
<1>1. IsFiniteSet(planned)
  BY FamiliesType, CountsType
<1>2. IsFiniteSet(keys)
  <2> DEFINE g == [m \in planned |-> KeyOf(f, m)]
  <2>1. g \in Surjection(planned, keys)
    BY DEF Surjection
  <2>2. QED
    BY <1>1, <2>1, FS_Surjection
<1>3. IsFiniteSet(S)
  BY <1>2, FS_Subset
<1> HIDE DEF planned
<1>4. pool' = [k \in DOMAIN pool \cup keys |->
                 IF k \in Range(fresh) THEN made(index(k)) ELSE pool[k]]
  BY DEF Materialize, planned, KeyOf
<1>5. Range(fresh) = S
  <2> HIDE DEF S
  <2>1. QED
    BY <1>3, SeqOfSet
<1>6. ASSUME NEW k \in S PROVE fresh[index(k)] = k
  <2>1. \E i \in DOMAIN fresh : fresh[i] = k
    BY <1>5 DEF Range
  <2> HIDE DEF fresh
  <2>2. QED
    BY <2>1
<1> HIDE DEF fresh, index
<1>7. ASSUME NEW k \in S
      PROVE  /\ pool'[k].core = LargestCore(f, planned, k)
             /\ pool'[k].planned = IF f.quant = "w4a16" THEN planned ELSE {}
  <2>1. k \in keys /\ pool'[k] = made(index(k))
    BY <1>4, <1>5
  <2>2. QED
    BY <1>6, <2>1
<1>8. ASSUME NEW k \in DOMAIN pool', k \notin S
      PROVE  /\ k \in DOMAIN pool /\ pool'[k] = pool[k]
             /\ k \in keys => Kept(f, planned, k)
  <2>1. k \in DOMAIN pool \cup keys /\ pool'[k] = pool[k]
    BY <1>4, <1>5, <1>8
  <2>2. k \in keys => Kept(f, planned, k)
    BY <1>8
  <2>3. QED
    BY <2>1, <2>2 DEF Kept
<1>9. DOMAIN pool' = DOMAIN pool \cup keys
  BY <1>4
<1>10. QED
  BY <1>7, <1>8, <1>9 DEF planned

(* The workspace with the most bytes has the rows of every planned count.  *)
LEMMA LargestServes ==
  ASSUME NEW f \in Families, NEW counts \in Plans, NEW m \in CoreTokenCounts(f, counts),
         NEW w, w.core = LargestCore(f, CoreTokenCounts(f, counts), KeyOf(f, m)),
         w.planned = IF f.quant = "w4a16" THEN CoreTokenCounts(f, counts) ELSE {}
  PROVE  WorkspaceOf(KeyOf(f, m), w)
<1> DEFINE planned == CoreTokenCounts(f, counts)
<1>1. f \in Shapes /\ planned \in SUBSET Positive /\ IsFiniteSet(planned)
  BY FamiliesType, CountsType
<1>2. PICK x \in planned :
         /\ KeyOf(f, x) = KeyOf(f, m)
         /\ w.core = PlannedCore(f, x)
         /\ \A j \in planned : KeyOf(f, j) = KeyOf(f, m) =>
               CoreBytes(f, PlannedCore(f, j)) <= CoreBytes(f, PlannedCore(f, x))
  BY <1>1, LargestIs
<1>3. \A j \in planned :
         /\ ExecutionPlan(f, j) \in PlanShapes /\ ExecutionPlan(f, j).rows = j * f.topk
         /\ ExecutionPlan(f, j).impl = "w4a16" <=> f.quant = "w4a16"
         /\ PlannedCore(f, j).plan = ExecutionPlan(f, j)
         /\ CoreBytes(f, PlannedCore(f, j)) \in Nat
  BY <1>1, PlanType, CorePlanOf, CoreBytesNat DEF PlannedCore
<1> DEFINE p == ExecutionPlan(f, x)
<1>4. /\ w.core.plan = p /\ p \in PlanShapes
      /\ p.impl = "w4a16" <=> f.quant = "w4a16"
      /\ w.core = CorePlan(f, p) /\ KeyOf(f, m) = Key(f, p)
  BY <1>2, <1>3 DEF PlannedCore, KeyOf
<1>5. ASSUME f.quant = "w4a16", NEW j \in planned PROVE j * f.topk <= p.rows
  <2> DEFINE q == ExecutionPlan(f, j)
  <2>1. /\ q \in PlanShapes /\ p \in PlanShapes /\ q.impl = "w4a16" /\ p.impl = "w4a16"
        /\ q.rows = j * f.topk
    BY <1>3, <1>5
  <2>2. KeyOf(f, j) = KeyOf(f, m)
    BY <1>2, <2>1 DEF KeyOf, Key
  <2>3. CoreBytes(f, W4A16Core(f, q)) <= CoreBytes(f, W4A16Core(f, p))
    BY <1>2, <2>1, <2>2 DEF PlannedCore, CorePlan
  <2> HIDE DEF p, q
  <2>4. p.rows \in Nat /\ q.rows \in Nat
    BY <2>1 DEF PlanShapes
  <2>5. ~ (p.rows < q.rows)
    <3> SUFFICES ASSUME p.rows < q.rows PROVE FALSE
      OBVIOUS
    <3>1. /\ CoreBytes(f, W4A16Core(f, p)) \in Nat /\ CoreBytes(f, W4A16Core(f, q)) \in Nat
          /\ CoreBytes(f, W4A16Core(f, p)) < CoreBytes(f, W4A16Core(f, q))
      BY <1>1, <2>1, <2>4, W4A16Bytes
    <3>2. QED
      BY <2>3, <3>1
  <2>6. QED
    BY <2>1, <2>4, <2>5
<1> HIDE DEF p
<1>6. /\ w.planned \subseteq Positive
      /\ \A c \in w.planned : c * f.topk <= p.rows
  BY <1>1, <1>5
<1>7. QED
  BY <1>4, <1>6 DEF WorkspaceOf, WorkspaceFor

PoolStays == \A k \in DOMAIN pool : k \in DOMAIN pool' /\ pool'[k] = pool[k]

LEMMA MaterializeStep ==
  ASSUME OneActivation, IInv, NEW f \in Families, NEW counts \in Plans, Materialize(f, counts)
  PROVE  /\ \A k \in DOMAIN pool' : WorkspaceOf(k, pool'[k])
         /\ frozen => PoolStays
         /\ frozen => \A k \in DOMAIN pool' : FrozenOf(k, pool'[k], caps)
<1> DEFINE planned == CoreTokenCounts(f, counts)
           keys == {KeyOf(f, m) : m \in planned}
           Old(k) == /\ k \in DOMAIN pool /\ pool'[k] = pool[k]
                     /\ k \in keys => Kept(f, planned, k)
           New(k) == /\ k \in keys /\ ~ Kept(f, planned, k)
                     /\ pool'[k].core = LargestCore(f, planned, k)
                     /\ pool'[k].planned = IF f.quant = "w4a16" THEN planned ELSE {}
<1>1. DOMAIN pool' = DOMAIN pool \cup keys /\ \A k \in DOMAIN pool' : Old(k) \/ New(k)
  BY MaterializeIs
<1>2. \A k \in DOMAIN pool' : WorkspaceOf(k, pool'[k])
  <2> SUFFICES ASSUME NEW k \in DOMAIN pool' PROVE WorkspaceOf(k, pool'[k])
    OBVIOUS
  <2>1. CASE Old(k)
    BY <2>1 DEF IInv
  <2>2. CASE New(k)
    <3>1. PICK m \in planned : k = KeyOf(f, m)
      BY <2>2
    <3>2. QED
      BY <2>2, <3>1, LargestServes
  <2>3. QED
    BY <1>1, <2>1, <2>2
<1>3. ASSUME frozen
      PROVE  PoolStays /\ \A k \in DOMAIN pool' : FrozenOf(k, pool'[k], caps)
  <2>1. caps = counts
    BY <1>3 DEF IInv, Materialize
  <2>2. \A k \in DOMAIN pool : FrozenOf(k, pool[k], counts)
    BY <1>3, <2>1 DEF IInv
  <2>3. ASSUME NEW k \in DOMAIN pool, k \in keys PROVE Kept(f, planned, k)
    <3>1. PICK m \in planned : k = KeyOf(f, m)
      BY <2>3
    <3>2. QED
      BY <2>2, <3>1, FrozenKept
  <2>4. PoolStays
    BY <1>1, <2>3 DEF PoolStays
  <2>5. ASSUME NEW k \in DOMAIN pool' PROVE FrozenOf(k, pool'[k], counts)
    <3>1. CASE Old(k)
      BY <2>2, <3>1
    <3>2. CASE New(k)
      <4>1. PICK m \in planned : k = KeyOf(f, m)
        BY <3>2
      <4>2. QED
        BY <3>2, <4>1 DEF FrozenOf
    <3>3. QED
      BY <1>1, <3>1, <3>2
  <2>6. QED
    BY <2>1, <2>4, <2>5
<1>4. QED
  BY <1>2, <1>3

LEMMA NotFrozen ==
  ASSUME NEW f, NEW m, NEW capturing, PoolRefusals(f, m, capturing) = {}, frozen
  PROVE  HasWorkspace(f, ExecutionPlan(f, m))
<1>1. "frozen" \notin PoolRefusals(f, m, capturing)
  OBVIOUS
<1>2. QED
  BY <1>1 DEF PoolRefusals

LEMMA EnrollStep ==
  ASSUME OneActivation, IInv, NEW c \in Calls, Enroll(c[1], c[2]),
         frozen => HasWorkspace(c[1].fam, ExecutionPlan(c[1].fam, c[2]))
  PROVE  /\ \A k \in DOMAIN pool' : WorkspaceOf(k, pool'[k])
         /\ frozen => PoolStays
         /\ frozen => \A k \in DOMAIN pool' : FrozenOf(k, pool'[k], caps)
<1> DEFINE f == c[1].fam
           m == c[2]
           w == Resolved(f, m)
           k == KeyOf(f, m)
<1>1. f \in Families /\ m \in Positive
  BY PoolAssumption DEF Layers, Families
<1>2. WorkspaceFor(f, w) /\ Key(f, w.core.plan) = k
  BY <1>1, ResolvedIs DEF IInv
<1>3. pool' = [x \in DOMAIN pool \cup {k} |-> IF x = k THEN w ELSE pool[x]]
  BY DEF Enroll, KeyOf
<1>4. ASSUME frozen PROVE k \in DOMAIN pool /\ w = pool[k]
  BY <1>4 DEF HasWorkspace, Resolved, KeyOf
<1> HIDE DEF f, m, w, k
<1>5. WorkspaceOf(k, w)
  BY <1>1, <1>2 DEF WorkspaceOf
<1>6. \A x \in DOMAIN pool' : WorkspaceOf(x, pool'[x])
  BY <1>3, <1>5 DEF IInv
<1>7. ASSUME frozen PROVE pool' = [x \in DOMAIN pool |-> pool[x]]
  BY <1>3, <1>4, <1>7
<1>8. ASSUME frozen PROVE PoolStays /\ \A x \in DOMAIN pool' : FrozenOf(x, pool'[x], caps)
  BY <1>7, <1>8 DEF PoolStays, IInv
<1>9. QED
  BY <1>6, <1>8

LEMMA RunStep ==
  ASSUME NEW b, BindingOf(b), LaunchRefusals(b, FALSE) = {}, Run(b)
  PROVE  LastOf(last')
<1>1. last' = [event |-> "launch", layer |-> b.layer, m |-> b.m, core |-> b.core,
               saw |-> Prepared(b)]
  BY DEF Run
<1>2. Prepared(b) = [words |-> {b.core}, scales |-> {b.layer}]
  BY DEF Prepared, Volatile, KnownSource
<1>3. QED
  BY <1>1, <1>2 DEF LastOf

(* A launch that a capture may make is one that an eager call may.         *)
LEMMA CapturedPasses ==
  ASSUME NEW b, LaunchRefusals(b, TRUE) = {}
  PROVE  LaunchRefusals(b, FALSE) = {}
<1>1. LaunchRefusals(b, FALSE) \subseteq LaunchRefusals(b, TRUE)
  BY DEF LaunchRefusals
<1>2. QED
  BY <1>1

LEMMA RefuseStep ==
  ASSUME NEW l, NEW m, NEW reasons, Refuse(l, m, reasons),
         \/ reasons \subseteq {"frozen", "capture", "arena", "unplanned", "tokens"}
         \/ \E b : BindingOf(b) /\ reasons \subseteq LaunchRefusals(b, TRUE)
  PROVE  LastOf(last')
BY DEF Refuse, LastOf

LEMMA InitHolds == Init => IInv
<1> SUFFICES ASSUME Init PROVE IInv
  OBVIOUS
<1>1. caps = {} /\ frozen = FALSE /\ bound = {} /\ graph = {} /\ last.event = "none"
  BY DEF Init, NoCall
<1>2. DOMAIN pool = {}
  BY DEF Init
<1>3. LastOf(last)
  BY <1>1 DEF LastOf
<1>4. QED
  BY <1>1, <1>2, <1>3 DEF IInv

(* What is left of the invariant when the arena and the freeze stay.       *)
LEMMA Assembled ==
  ASSUME IInv, UNCHANGED <<caps, frozen>>,
         \A k \in DOMAIN pool' : WorkspaceOf(k, pool'[k]),
         frozen => \A k \in DOMAIN pool' : FrozenOf(k, pool'[k], caps),
         \A b \in bound' \cup graph' : BindingOf(b),
         \A b \in graph' : LaunchRefusals(b, TRUE) = {},
         LastOf(last')
  PROVE  IInv'
BY DEF IInv

LEMMA QuietStep == ASSUME Quiet PROVE LastOf(last')
BY DEF Quiet, NoCall, LastOf

(* The steps that leave the pool alone. *)
LEMMA PoolAside ==
  ASSUME IInv, UNCHANGED <<caps, frozen, pool>>,
         \A b \in bound' \cup graph' : BindingOf(b),
         \A b \in graph' : LaunchRefusals(b, TRUE) = {},
         LastOf(last')
  PROVE  IInv' /\ PoolStays
<1>1. \A k \in DOMAIN pool' : WorkspaceOf(k, pool'[k])
  BY DEF IInv
<1>2. frozen => \A k \in DOMAIN pool' : FrozenOf(k, pool'[k], caps)
  BY DEF IInv
<1>3. IInv'
  BY <1>1, <1>2, Assembled
<1>4. PoolStays
  BY DEF PoolStays
<1>5. QED
  BY <1>3, <1>4

(* What a record of a captured call adds to the graph.                     *)
LEMMA RecordStep ==
  ASSUME IInv, NEW b, BindingOf(b), Record(b)
  PROVE  /\ \A x \in bound' \cup graph' : BindingOf(x)
         /\ \A x \in graph' : LaunchRefusals(x, TRUE) = {}
         /\ LastOf(last')
         /\ UNCHANGED <<caps, frozen>>
<1>1. bound' = bound /\ UNCHANGED <<caps, frozen>>
  BY DEF Record
<1>2. CASE LaunchRefusals(b, TRUE) = {}
  <2>1. graph' = {b} /\ Quiet
    BY <1>2 DEF Record
  <2>2. QED
    BY <1>1, <1>2, <2>1, QuietStep DEF IInv
<1>3. CASE LaunchRefusals(b, TRUE) # {}
  <2>1. graph' = graph /\ Refuse(b.layer, b.m, LaunchRefusals(b, TRUE))
    BY <1>3 DEF Record
  <2>2. LastOf(last')
    BY <2>1, RefuseStep
  <2>3. QED
    BY <1>1, <2>1, <2>2 DEF IInv
<1>4. QED
  BY <1>2, <1>3

LEMMA RefusalsType ==
  /\ \A f, m, capturing : PoolRefusals(f, m, capturing) \subseteq
        {"frozen", "capture", "arena", "unplanned", "tokens"}
  /\ \A f, m, counts : ScratchRefusals(f, m, counts) \subseteq
        {"frozen", "capture", "arena", "unplanned", "tokens"}
  /\ \A b : LaunchRefusals(b, FALSE) \subseteq LaunchRefusals(b, TRUE)
BY DEF PoolRefusals, ScratchRefusals, LaunchRefusals

LEMMA Step ==
  ASSUME OneActivation, IInv, [Next]_vars
  PROVE  IInv' /\ (frozen => PoolStays)
<1>1. ASSUME NEW counts \in Plans, NEW freeze \in BOOLEAN, BindArena(counts, freeze)
      PROVE  IInv' /\ (frozen => PoolStays)
  <2>1. /\ caps = {} /\ caps' = counts /\ DOMAIN pool' = {} /\ last'.event = "none"
        /\ bound' = {} /\ graph' = {}
    BY <1>1 DEF BindArena, Quiet, NoCall
  <2>2. counts # {}
    BY PoolAssumption
  <2>3. LastOf(last')
    BY <2>1 DEF LastOf
  <2>4. IInv'
    BY <2>1, <2>2, <2>3 DEF IInv
  <2>5. ~ frozen
    BY <2>1 DEF IInv
  <2>6. QED
    BY <2>4, <2>5
<1>2. ASSUME NEW f \in Families, NEW counts \in Plans, Materialize(f, counts)
      PROVE  IInv' /\ (frozen => PoolStays)
  <2>1. UNCHANGED <<caps, frozen, bound, graph>> /\ Quiet
    BY <1>2 DEF Materialize
  <2>2. QED
    BY <1>2, <2>1, MaterializeStep, QuietStep, Assembled DEF IInv
<1>3. ASSUME NEW c \in Calls, BindPool(c[1], c[2])
      PROVE  IInv' /\ (frozen => PoolStays)
  <2> DEFINE f == c[1].fam
             refusals == PoolRefusals(f, c[2], FALSE)
  <2>1. UNCHANGED <<caps, frozen, graph>>
    BY <1>3 DEF BindPool
  <2>2. CASE refusals # {}
    <3>1. Refuse(c[1], c[2], refusals) /\ UNCHANGED <<pool, bound>>
      BY <1>3, <2>2 DEF BindPool
    <3>2. LastOf(last')
      BY <3>1, RefuseStep, RefusalsType
    <3>3. QED
      BY <2>1, <3>1, <3>2, PoolAside DEF IInv
  <2>3. CASE refusals = {}
    <3>1. /\ Enroll(c[1], c[2]) /\ Quiet
          /\ bound' = bound \cup {Binding(c[1], c[2], Resolved(f, c[2]))}
      BY <1>3, <2>3 DEF BindPool
    <3>2. frozen => HasWorkspace(f, ExecutionPlan(f, c[2]))
      BY <2>3, NotFrozen
    <3>3. /\ \A k \in DOMAIN pool' : WorkspaceOf(k, pool'[k])
          /\ frozen => PoolStays
          /\ frozen => \A k \in DOMAIN pool' : FrozenOf(k, pool'[k], caps)
      BY <3>1, <3>2, EnrollStep
    <3>4. BindingOf(Binding(c[1], c[2], Resolved(f, c[2])))
      BY BindingIs DEF IInv
    <3>5. /\ \A b \in bound' \cup graph' : BindingOf(b)
          /\ \A b \in graph' : LaunchRefusals(b, TRUE) = {}
      BY <2>1, <3>1, <3>4 DEF IInv
    <3>6. QED
      BY <2>1, <3>1, <3>3, <3>5, QuietStep, Assembled
  <2>4. QED
    BY <2>2, <2>3
<1>4. ASSUME NEW c \in Calls, CapturePool(c[1], c[2])
      PROVE  IInv' /\ (frozen => PoolStays)
  <2> DEFINE f == c[1].fam
             b == Binding(c[1], c[2], Resolved(f, c[2]))
  <2>1. Record(b) /\ Enroll(c[1], c[2]) /\ PoolRefusals(f, c[2], TRUE) = {}
    BY <1>4 DEF CapturePool
  <2>2. BindingOf(b)
    BY BindingIs DEF IInv
  <2> HIDE DEF b
  <2>3. /\ \A x \in bound' \cup graph' : BindingOf(x)
        /\ \A x \in graph' : LaunchRefusals(x, TRUE) = {}
        /\ LastOf(last') /\ UNCHANGED <<caps, frozen>>
    BY <2>1, <2>2, RecordStep
  <2>4. frozen => HasWorkspace(f, ExecutionPlan(f, c[2]))
    BY <2>1, NotFrozen
  <2>5. /\ \A k \in DOMAIN pool' : WorkspaceOf(k, pool'[k])
        /\ frozen => PoolStays
        /\ frozen => \A k \in DOMAIN pool' : FrozenOf(k, pool'[k], caps)
    BY <2>1, <2>4, EnrollStep
  <2>6. QED
    BY <2>3, <2>5, Assembled
<1>5. ASSUME NEW c \in Calls, NEW counts \in Plans, BindScratch(c[1], c[2], counts)
      PROVE  IInv' /\ PoolStays
  <2> DEFINE f == c[1].fam
             refusals == ScratchRefusals(f, c[2], counts)
             b == ScratchBinding(c[1], c[2], ScratchWorkspace(f, counts))
  <2>1. UNCHANGED <<caps, frozen, pool, graph>>
    BY <1>5 DEF BindScratch
  <2>2. CASE refusals # {}
    <3>1. Refuse(c[1], c[2], refusals) /\ UNCHANGED bound
      BY <1>5, <2>2 DEF BindScratch
    <3>2. LastOf(last')
      BY <3>1, RefuseStep, RefusalsType
    <3>3. QED
      BY <2>1, <3>1, <3>2, PoolAside DEF IInv
  <2>3. CASE refusals = {}
    <3>1. Quiet /\ bound' = bound \cup {b}
      BY <1>5, <2>3 DEF BindScratch
    <3>2. BindingOf(b)
      BY <2>3, ScratchBindingIs
    <3> HIDE DEF b
    <3>3. /\ \A x \in bound' \cup graph' : BindingOf(x)
          /\ \A x \in graph' : LaunchRefusals(x, TRUE) = {}
      BY <2>1, <3>1, <3>2 DEF IInv
    <3>4. QED
      BY <2>1, <3>1, <3>3, QuietStep, PoolAside
  <2>4. QED
    BY <2>2, <2>3
<1>6. ASSUME NEW c \in Calls, NEW counts \in Plans, CaptureScratch(c[1], c[2], counts)
      PROVE  IInv' /\ PoolStays
  <2> DEFINE b == ScratchBinding(c[1], c[2], ScratchWorkspace(c[1].fam, counts))
  <2>1. Record(b) /\ UNCHANGED pool /\ ScratchRefusals(c[1].fam, c[2], counts) = {}
    BY <1>6 DEF CaptureScratch
  <2>2. BindingOf(b)
    BY <2>1, ScratchBindingIs
  <2> HIDE DEF b
  <2>3. /\ \A x \in bound' \cup graph' : BindingOf(x)
        /\ \A x \in graph' : LaunchRefusals(x, TRUE) = {}
        /\ LastOf(last') /\ UNCHANGED <<caps, frozen>>
    BY <2>1, <2>2, RecordStep
  <2>4. QED
    BY <2>1, <2>3, PoolAside
<1>7. ASSUME Drop PROVE IInv' /\ PoolStays
  <2>1. UNCHANGED <<caps, frozen, pool, graph>> /\ bound' \subseteq bound /\ Quiet
    BY <1>7 DEF Drop
  <2>2. QED
    BY <2>1, QuietStep, PoolAside DEF IInv
<1>8. ASSUME LaunchEager PROVE IInv' /\ PoolStays
  <2>1. UNCHANGED <<caps, frozen, pool, bound, graph>>
    BY <1>8 DEF LaunchEager
  <2>2. PICK b \in bound : IF LaunchRefusals(b, FALSE) = {} THEN Run(b)
                           ELSE Refuse(b.layer, b.m, LaunchRefusals(b, FALSE)) /\ UNCHANGED mem
    BY <1>8 DEF LaunchEager
  <2>3. BindingOf(b)
    BY DEF IInv
  <2>4. LastOf(last')
    <3>1. CASE LaunchRefusals(b, FALSE) = {}
      BY <2>2, <2>3, <3>1, RunStep
    <3>2. CASE LaunchRefusals(b, FALSE) # {}
      BY <2>2, <2>3, <3>2, RefuseStep, RefusalsType
    <3>3. QED
      BY <3>1, <3>2
  <2>5. QED
    BY <2>1, <2>4, PoolAside DEF IInv
<1>9. ASSUME Replay PROVE IInv' /\ PoolStays
  <2>1. PICK b \in graph : Run(b) /\ UNCHANGED <<lends, caps, frozen, pool, blocks, bound, graph>>
    BY <1>9 DEF Replay
  <2>2. BindingOf(b) /\ LaunchRefusals(b, FALSE) = {}
    BY CapturedPasses DEF IInv
  <2>3. LastOf(last')
    BY <2>1, <2>2, RunStep
  <2>4. QED
    BY <2>1, <2>3, PoolAside DEF IInv
<1>10. ASSUME NEW b, Overwrite(b) PROVE IInv' /\ PoolStays
  <2>1. UNCHANGED <<caps, frozen, pool, bound, graph>> /\ Quiet
    BY <1>10 DEF Overwrite
  <2>2. QED
    BY <2>1, QuietStep, PoolAside DEF IInv
<1>11. ASSUME UNCHANGED vars PROVE IInv' /\ PoolStays
  <2>1. UNCHANGED <<caps, frozen, pool, bound, graph, last>>
    BY <1>11 DEF vars
  <2>2. LastOf(last')
    BY <2>1 DEF IInv
  <2>3. QED
    BY <2>1, <2>2, PoolAside DEF IInv
<1>12. QED
  BY <1>1, <1>2, <1>3, <1>4, <1>5, <1>6, <1>7, <1>8, <1>9, <1>10, <1>11 DEF Next

-----------------------------------------------------------------------------
(* The theorems *)

(* Layers that share a workspace have one activation.  A frozen pool keeps *)
(* every workspace it has: _resolve_workspace replaces none for a call,    *)
(* and materialize_tp_moe_arena_workspaces, called again with the counts   *)
(* the arena was sized for, finds them all large enough.                   *)
THEOREM FrozenPoolKept == OneActivation => (Spec => FrozenPoolFixed)
<1> SUFFICES ASSUME OneActivation PROVE Spec => FrozenPoolFixed
  OBVIOUS
<1>1. IInv /\ [Next]_vars => IInv'
  BY Step
<1>2. IInv /\ [Next]_vars =>
        [frozen => \A k \in DOMAIN pool : k \in DOMAIN pool' /\ pool'[k] = pool[k]]_vars
  BY Step DEF PoolStays
<1>3. QED
  BY InitHolds, <1>1, <1>2, PTL DEF Spec, FrozenPoolFixed

(* If moreover the measured shape divides into the blocks of its staging   *)
(* kernel, no launch of b12x_moe_fp4 indexes past the workspace it was     *)
(* bound to: eager or replayed, from the pool, from a pool that grew, or   *)
(* from lent scratch.                                                      *)
THEOREM LaunchesFit == OneActivation /\ MeasuredRegular => (Spec => []LaunchFits)
<1> SUFFICES ASSUME OneActivation, MeasuredRegular PROVE Spec => []LaunchFits
  OBVIOUS
<1>1. IInv /\ [Next]_vars => IInv'
  BY Step
<1>2. IInv => LaunchFits
  <2> SUFFICES ASSUME IInv, last.event = "launch" PROVE KernelFits(last.layer, last.m, last.core)
    BY DEF LaunchFits
  <2>1. PICK b : /\ BindingOf(b) /\ LaunchRefusals(b, FALSE) = {}
                 /\ last.layer = b.layer /\ last.m = b.m /\ last.core = b.core
    BY DEF IInv, LastOf
  <2>2. QED
    BY <2>1, KernelFitsBinding
<1>3. QED
  BY InitHolds, <1>1, <1>2, PTL DEF Spec

(* Layers that share a workspace have one activation and none the measured *)
(* shape.  No call the pool or the scratch has taken is refused by         *)
(* run_w4a16_moe or _launch_dynamic_flat for rows, buffers or staging, and *)
(* no capture for accumulation scratch.                                    *)
THEOREM PlannedScratchIsEnough ==
  OneActivation /\ (\A f \in Families : ~ MeasuredShape(f)) => (Spec => []PlannedScratchSuffices)
<1> SUFFICES ASSUME OneActivation, \A f \in Families : ~ MeasuredShape(f)
             PROVE  Spec => []PlannedScratchSuffices
  OBVIOUS
<1>1. IInv /\ [Next]_vars => IInv'
  BY Step
<1>2. IInv => PlannedScratchSuffices
  <2> DEFINE short == {"staging", "rows", "buffers", "scratch"}
  <2> SUFFICES ASSUME IInv, last.event = "refused" PROVE last.why \cap short = {}
    BY DEF PlannedScratchSuffices
  <2>1. CASE last.why \subseteq {"frozen", "capture", "arena", "unplanned", "tokens"}
    BY <2>1
  <2>2. ASSUME NEW b, BindingOf(b), last.why \subseteq LaunchRefusals(b, TRUE)
        PROVE  last.why \cap short = {}
    <3>1. ~ MeasuredShape(b.layer.fam)
      BY <2>2 DEF BindingOf, Families
    <3>2. LaunchRefusals(b, TRUE) \cap short = {}
      BY <2>2, <3>1, NoShortage
    <3>3. QED
      BY <2>2, <3>2
  <2>3. QED
    BY <2>1, <2>2 DEF IInv, LastOf
<1>3. QED
  BY InitHolds, <1>1, <1>2, PTL DEF Spec

(* What the kernel of the last call found in memory. *)
SawItsOwn ==
    last.event = "launch" =>
       last.saw = [words |-> {last.core}, scales |-> {last.layer}]

LEMMA SawStep == ASSUME SawItsOwn, [Next]_vars PROVE SawItsOwn'
<1>1. ASSUME NEW b, Run(b) PROVE SawItsOwn'
  BY <1>1 DEF Run, Prepared, Volatile, KnownSource, SawItsOwn
<1>2. ASSUME Quiet PROVE SawItsOwn'
  BY <1>2 DEF Quiet, NoCall, SawItsOwn
<1>3. ASSUME NEW l, NEW m, NEW reasons, Refuse(l, m, reasons) PROVE SawItsOwn'
  BY <1>3 DEF Refuse, SawItsOwn
<1>4. ASSUME NEW c \in Calls, BindPool(c[1], c[2]) \/ CapturePool(c[1], c[2]) PROVE SawItsOwn'
  BY <1>2, <1>3, <1>4 DEF BindPool, CapturePool, Record
<1>5. ASSUME NEW c \in Calls, NEW counts \in Plans,
             BindScratch(c[1], c[2], counts) \/ CaptureScratch(c[1], c[2], counts)
      PROVE  SawItsOwn'
  BY <1>2, <1>3, <1>5 DEF BindScratch, CaptureScratch, Record
<1>6. ASSUME LaunchEager \/ Replay PROVE SawItsOwn'
  BY <1>1, <1>3, <1>6 DEF LaunchEager, Replay
<1>7. ASSUME UNCHANGED vars PROVE SawItsOwn'
  BY <1>7 DEF vars, SawItsOwn
<1>8. QED
  BY <1>2, <1>4, <1>5, <1>6, <1>7 DEF Next, BindArena, Materialize, Drop, Overwrite

(* Whatever was bound, launched, replayed or written over the memory in    *)
(* between, a micro or dynamic kernel finds the barrier words of its own   *)
(* layout in order: the workspace rebuilt from a binding is volatile, and  *)
(* the launch zeroes its words.                                            *)
THEOREM BarrierIsClean == Spec => []BarrierClean
<1>1. Init => SawItsOwn
  BY DEF Init, NoCall, SawItsOwn
<1>2. SawItsOwn /\ [Next]_vars => SawItsOwn'
  BY SawStep
<1>3. SawItsOwn => BarrierClean
  BY DEF SawItsOwn, BarrierClean
<1>4. QED
  BY <1>1, <1>2, <1>3, PTL DEF Spec

(* And a dynamic kernel finds the input scales of the layer that is called:*)
(* the rebuilt workspace knows no source, so the launch copies them.       *)
THEOREM ScalesAreOfCall == Spec => []ScalesOfCall
<1>1. Init => SawItsOwn
  BY DEF Init, NoCall, SawItsOwn
<1>2. SawItsOwn /\ [Next]_vars => SawItsOwn'
  BY SawStep
<1>3. SawItsOwn => ScalesOfCall
  BY DEF SawItsOwn, ScalesOfCall
<1>4. QED
  BY <1>1, <1>2, <1>3, PTL DEF Spec
=============================================================================
