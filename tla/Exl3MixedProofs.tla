--------------------------- MODULE Exl3MixedProofs ---------------------------
(***************************************************************************)
(* Proofs about Exl3Mixed, for every process: any models and knobs, any     *)
(* number of layers, experts and bitrates, any order of the two streams.    *)
(*                                                                         *)
(* First the tables: what loading stores leads the kernel to every expert's *)
(* own planes (Places), and has the extents a launch asks for (PlacesBind). *)
(* Then the streams: the launches of a slice follow each other (Chained),   *)
(* stay with one model (Own) and cut each layer's rows up once (Cut).       *)
(* Then the invariant, action by action: the cells the next launch of a     *)
(* stream reads were written for it (StreamsFlow), what was captured is a   *)
(* whole call (GraphsWhole), arenas have the room they were planned with    *)
(* (ArenasPlanned), and a profiled layer has all a later pass needs          *)
(* (ProfileServes).                                                        *)
(***************************************************************************)
EXTENDS Exl3Mixed, FiniteSetTheorems, WellFoundedInduction, TLAPS

-----------------------------------------------------------------------------
(* Sorting a finite set: the member of rank r is found at place r + 1.     *)

Rank(S, key, x) == Cardinality({y \in S : key[y] < key[x]})

LEMMA RankLess ==
  ASSUME NEW S, IsFiniteSet(S), NEW key, \A x \in S : key[x] \in Int,
         NEW x \in S, NEW z \in S, key[x] < key[z]
  PROVE  Rank(S, key, x) < Rank(S, key, z)
<1> DEFINE A == {y \in S : key[y] < key[x]}
           B == {y \in S : key[y] < key[z]}
<1>1. A \in SUBSET B
  <2> SUFFICES ASSUME NEW y \in S, key[y] < key[x] PROVE key[y] < key[z]
    OBVIOUS
  <2>1. key[y] \in Int /\ key[x] \in Int /\ key[z] \in Int
    OBVIOUS
  <2>2. QED
    BY <2>1
<1>2. x \in B /\ x \notin A
  <2>1. key[x] \in Int
    OBVIOUS
  <2>2. QED
    BY <2>1
<1>3. IsFiniteSet(B)
  BY FS_Subset, B \in SUBSET S
<1>4. IsFiniteSet(A) /\ Cardinality(A) <= Cardinality(B) /\ Cardinality(A) # Cardinality(B)
  BY <1>1, <1>2, <1>3, FS_Subset
<1>5. Cardinality(A) \in Nat /\ Cardinality(B) \in Nat
  BY <1>3, <1>4, FS_CardinalityType
<1>6. QED
  BY <1>4, <1>5 DEF Rank

LEMMA RankIs ==
  ASSUME NEW S, IsFiniteSet(S), NEW key, \A x \in S : key[x] \in Int, NEW x \in S
  PROVE  Cardinality(S) \in Nat /\ Rank(S, key, x) \in 0 .. Cardinality(S) - 1
<1> DEFINE A == {y \in S : key[y] < key[x]}
<1>1. x \notin A /\ A \in SUBSET S
  <2>1. key[x] \in Int
    OBVIOUS
  <2>2. QED
    BY <2>1
<1>2. IsFiniteSet(A) /\ Cardinality(A) <= Cardinality(S) /\ Cardinality(A) # Cardinality(S)
  BY <1>1, FS_Subset
<1>3. Cardinality(A) \in Nat /\ Cardinality(S) \in Nat
  BY <1>2, FS_CardinalityType
<1>4. QED
  BY <1>2, <1>3 DEF Rank

LEMMA Sorted ==
  ASSUME NEW S, IsFiniteSet(S), NEW key, \A x \in S : key[x] \in Int,
         \A x, z \in S : key[x] = key[z] => x = z
  PROVE  /\ Cardinality(S) \in Nat
         /\ SortedBy(S, key) \in [1 .. Cardinality(S) -> S]
         /\ \A x \in S : SortedBy(S, key)[Rank(S, key, x) + 1] = x
         /\ \A i \in 1 .. Cardinality(S) : Rank(S, key, SortedBy(S, key)[i]) = i - 1
<1> DEFINE n == Cardinality(S)
           r == [x \in S |-> Rank(S, key, x) + 1]
<1>1. n \in Nat
  BY FS_CardinalityType
<1>2. \A x \in S : Rank(S, key, x) \in 0 .. n - 1
  BY RankIs
<1>3. \A x, z \in S : Rank(S, key, x) = Rank(S, key, z) => x = z
  <2> SUFFICES ASSUME NEW x \in S, NEW z \in S, x # z PROVE Rank(S, key, x) # Rank(S, key, z)
    OBVIOUS
  <2>1. key[x] \in Int /\ key[z] \in Int /\ key[x] # key[z]
    OBVIOUS
  <2>2. Rank(S, key, x) \in Int /\ Rank(S, key, z) \in Int
    BY <1>1, <1>2
  <2>3. CASE key[x] < key[z]
    BY <2>2, <2>3, RankLess
  <2>4. CASE key[z] < key[x]
    BY <2>2, <2>4, RankLess
  <2>5. QED
    BY <2>1, <2>3, <2>4
<1>4. r \in Surjection(S, 1 .. n)
  <2>1. r \in [S -> 1 .. n]
    BY <1>1, <1>2
  <2>2. \A x, z \in S : r[x] = r[z] => x = z
    BY <1>1, <1>2, <1>3
  <2>3. r \in Injection(S, 1 .. n)
    BY <2>1, <2>2 DEF Injection, IsInjective
  <2>4. IsFiniteSet(1 .. n) /\ Cardinality(1 .. n) = n
    BY <1>1, FS_Interval
  <2>5. QED
    BY <2>3, <2>4, FS_Injection
<1>5. \A i \in 1 .. n : \E x \in S : Rank(S, key, x) = i - 1
  <2> TAKE i \in 1 .. n
  <2>1. PICK x \in S : r[x] = i
    BY <1>4 DEF Surjection
  <2>2. Rank(S, key, x) + 1 = i /\ Rank(S, key, x) \in Int
    BY <1>1, <1>2, <2>1
  <2>3. QED
    BY <2>2
<1>6. \A i \in 1 .. n : SortedBy(S, key)[i] \in S /\ Rank(S, key, SortedBy(S, key)[i]) = i - 1
  BY <1>5, Zenon DEF SortedBy, Rank
<1>7. \A x \in S : SortedBy(S, key)[Rank(S, key, x) + 1] = x
  <2> TAKE x \in S
  <2> DEFINE i == Rank(S, key, x) + 1
  <2>1. i \in 1 .. n /\ Rank(S, key, x) = i - 1
    BY <1>1, <1>2
  <2>2. QED
    BY <1>3, <1>6, <2>1
<1>8. QED
  BY <1>1, <1>6, <1>7 DEF SortedBy

LEMMA AscendingIs ==
  ASSUME NEW S \in SUBSET Int, IsFiniteSet(S)
  PROVE  /\ Cardinality(S) \in Nat
         /\ Ascending(S) \in [1 .. Cardinality(S) -> S]
         /\ \A x \in S : /\ Cardinality({y \in S : y < x}) \in 0 .. Cardinality(S) - 1
                         /\ Ascending(S)[Cardinality({y \in S : y < x}) + 1] = x
         /\ \A i \in 1 .. Cardinality(S) : Cardinality({y \in S : y < Ascending(S)[i]}) = i - 1
<1> DEFINE key == [x \in S |-> x]
<1>1. \A x \in S : key[x] \in Int
  OBVIOUS
<1>2. \A x, z \in S : key[x] = key[z] => x = z
  OBVIOUS
<1>3. \A x \in S : Rank(S, key, x) = Cardinality({y \in S : y < x})
  <2> TAKE x \in S
  <2>1. {y \in S : key[y] < key[x]} = {y \in S : y < x}
    OBVIOUS
  <2>2. QED
    BY <2>1 DEF Rank
<1>4. Ascending(S) = SortedBy(S, key)
  BY DEF Ascending
<1> HIDE DEF key
<1>5. \A x \in S : Rank(S, key, x) \in 0 .. Cardinality(S) - 1
  BY <1>1, RankIs
<1>6. /\ Cardinality(S) \in Nat
      /\ SortedBy(S, key) \in [1 .. Cardinality(S) -> S]
      /\ \A x \in S : SortedBy(S, key)[Rank(S, key, x) + 1] = x
      /\ \A i \in 1 .. Cardinality(S) : Rank(S, key, SortedBy(S, key)[i]) = i - 1
  BY <1>1, <1>2, Sorted, Zenon
<1>7. \A i \in 1 .. Cardinality(S) : SortedBy(S, key)[i] \in S
  BY <1>6
<1>8. QED
  BY <1>3, <1>4, <1>5, <1>6, <1>7

-----------------------------------------------------------------------------
(* What an assignment of bitrates looks like.                              *)

Count(bits, p, k) == Cardinality({e \in Experts(bits) : bits[p][e] = k})

LEMMA BitsAre ==
  ASSUME NEW bits, Assigned(bits)
  PROVE  /\ Cardinality(Experts(bits)) \in Nat \ {0}
         /\ Experts(bits) = 0 .. Cardinality(Experts(bits)) - 1
         /\ IsFiniteSet(Experts(bits))
         /\ \A p \in Projections : /\ DOMAIN bits[p] = Experts(bits)
                                   /\ \A e \in Experts(bits) : bits[p][e] \in Nat \ {0}
<1> DEFINE n == Cardinality(Experts(bits))
<1>1. n \in Nat \ {0} /\ bits \in [Projections -> [0 .. n - 1 -> Nat \ {0}]]
  BY DEF Assigned
<1>2. bits["gate"] \in [0 .. n - 1 -> Nat \ {0}]
  BY <1>1 DEF Projections
<1>3. Experts(bits) = 0 .. n - 1
  BY <1>2 DEF Experts
<1>4. IsFiniteSet(0 .. n - 1)
  BY <1>1, FS_Interval
<1>5. QED
  BY <1>1, <1>3, <1>4

LEMMA RatesAre ==
  ASSUME NEW bits, Assigned(bits)
  PROVE  /\ Rates(bits) \in SUBSET (Nat \ {0}) /\ IsFiniteSet(Rates(bits))
         /\ \A p \in Projections, e \in Experts(bits) : bits[p][e] \in Rates(bits)
<1>1. \A p \in Projections, e \in Experts(bits) : bits[p][e] \in Rates(bits)
  <2> TAKE p \in Projections, e \in Experts(bits)
  <2>1. bits[p][e] \in Range(bits[p])
    BY BitsAre, Zenon DEF Range
  <2>2. QED
    BY <2>1, Zenon DEF Rates
<1>2. \A k \in Rates(bits) : \E p \in Projections, e \in Experts(bits) : k = bits[p][e]
  BY BitsAre, Zenon DEF Rates, Range
<1>3. Rates(bits) \in SUBSET (Nat \ {0})
  BY <1>2, BitsAre
<1>4. IsFiniteSet(Rates(bits))
  <2>1. \A p \in Projections : IsFiniteSet(Range(bits[p]))
    <3> TAKE p \in Projections
    <3> DEFINE f == bits[p]
    <3>1. DOMAIN f = Experts(bits) /\ IsFiniteSet(Experts(bits))
      BY BitsAre
    <3>2. f \in Surjection(Experts(bits), Range(f))
      <4>1. f \in [Experts(bits) -> Range(f)]
        <5>1. bits \in [Projections -> [0 .. Cardinality(Experts(bits)) - 1 -> Nat \ {0}]]
          BY DEF Assigned
        <5>2. QED
          BY <5>1, <3>1 DEF Range
      <4>2. QED
        BY <4>1, <3>1 DEF Surjection, Range
    <3>3. QED
      BY <3>1, <3>2, FS_Surjection
  <2>2. Rates(bits) = Range(bits["gate"]) \cup Range(bits["up"]) \cup Range(bits["down"])
    BY DEF Rates, Projections
  <2>3. QED
    BY <2>1, <2>2, FS_Union DEF Projections
<1>5. QED
  BY <1>1, <1>3, <1>4

\* Every bitrate has a tier and every tier a bitrate.
LEMMA TierBitsAre ==
  ASSUME NEW bits, Assigned(bits)
  PROVE  /\ Cardinality(Rates(bits)) \in Nat
         /\ TierBits(bits) \in [1 .. Cardinality(Rates(bits)) -> Rates(bits)]
         /\ \A k \in Rates(bits) : /\ TierOf(bits, k) \in 0 .. Cardinality(Rates(bits)) - 1
                                   /\ TierBits(bits)[TierOf(bits, k) + 1] = k
         /\ \A t \in 1 .. Cardinality(Rates(bits)) : TierOf(bits, TierBits(bits)[t]) = t - 1
<1>1. Rates(bits) \in SUBSET Int /\ IsFiniteSet(Rates(bits))
  BY RatesAre
<1>2. QED
  BY <1>1, AscendingIs, Zenon DEF TierBits, TierOf

\* The place of an expert among those of its tier, both ways.
LEMMA MembersAre ==
  ASSUME NEW bits, Assigned(bits), NEW p \in Projections, NEW k
  PROVE  /\ Count(bits, p, k) \in Nat
         /\ Members(bits, p, k) \in [1 .. Count(bits, p, k) -> {e \in Experts(bits) : bits[p][e] = k}]
         /\ \A e \in Experts(bits) : bits[p][e] = k =>
               /\ Entry(bits, p, e).local \in 0 .. Count(bits, p, k) - 1
               /\ Members(bits, p, k)[Entry(bits, p, e).local + 1] = e
         /\ \A i \in 1 .. Count(bits, p, k) : Entry(bits, p, Members(bits, p, k)[i]).local = i - 1
<1> DEFINE S == {e \in Experts(bits) : bits[p][e] = k}
           m == Members(bits, p, k)
<1>1. S \in SUBSET Int /\ IsFiniteSet(S)
  <2>1. S \in SUBSET Experts(bits)
    OBVIOUS
  <2>2. Experts(bits) \subseteq Int /\ IsFiniteSet(Experts(bits))
    BY BitsAre
  <2>3. QED
    BY <2>1, <2>2, FS_Subset
<1>2. \A e \in S : Entry(bits, p, e).local = Cardinality({f \in S : f < e})
  <2> TAKE e \in S
  <2>1. {f \in Experts(bits) : f < e /\ bits[p][f] = bits[p][e]} = {f \in S : f < e}
    OBVIOUS
  <2>2. QED
    BY <2>1 DEF Entry
<1>3. m = Ascending(S)
  BY DEF Members
<1>4. /\ Cardinality(S) \in Nat
      /\ m \in [1 .. Cardinality(S) -> S]
      /\ \A x \in S : /\ Cardinality({y \in S : y < x}) \in 0 .. Cardinality(S) - 1
                      /\ m[Cardinality({y \in S : y < x}) + 1] = x
      /\ \A i \in 1 .. Cardinality(S) : Cardinality({y \in S : y < m[i]}) = i - 1
  BY <1>1, <1>3, AscendingIs, Zenon
<1>5. Cardinality(S) = Count(bits, p, k)
  BY DEF Count
<1>6. \A i \in 1 .. Count(bits, p, k) : m[i] \in S
  BY <1>4, <1>5
<1> HIDE DEF m
<1>7. \A e \in S : /\ Entry(bits, p, e).local \in 0 .. Count(bits, p, k) - 1
                   /\ m[Entry(bits, p, e).local + 1] = e
  BY <1>2, <1>4, <1>5
<1>8. \A i \in 1 .. Count(bits, p, k) : Entry(bits, p, m[i]).local = i - 1
  BY <1>2, <1>4, <1>5, <1>6
<1>9. QED
  BY <1>4, <1>5, <1>7, <1>8 DEF m

-----------------------------------------------------------------------------
(* Least and greatest of two.                                              *)

LEMMA MaxTwo ==
  ASSUME NEW a \in Nat, NEW b \in Nat
  PROVE  Max({a, b}) = IF a <= b THEN b ELSE a
<1> DEFINE m == IF a <= b THEN b ELSE a
<1>1. m \in {a, b} /\ \A y \in {a, b} : m >= y
  OBVIOUS
<1>2. Max({a, b}) \in {a, b} /\ \A y \in {a, b} : Max({a, b}) >= y
  BY <1>1 DEF Max
<1>3. QED
  BY <1>2

LEMMA MaxThree ==
  ASSUME NEW a \in Nat, NEW b \in Nat, NEW c \in Nat
  PROVE  /\ Max({a, b, c}) \in {a, b, c}
         /\ Max({a, b, c}) \in Nat
         /\ a <= Max({a, b, c}) /\ b <= Max({a, b, c}) /\ c <= Max({a, b, c})
<1> DEFINE m == IF a <= b THEN IF b <= c THEN c ELSE b
                ELSE IF a <= c THEN c ELSE a
<1>1. m \in {a, b, c} /\ \A y \in {a, b, c} : m >= y
  OBVIOUS
<1>2. Max({a, b, c}) \in {a, b, c} /\ \A y \in {a, b, c} : Max({a, b, c}) >= y
  BY <1>1 DEF Max
<1>3. QED
  BY <1>2

LEMMA MinTwo ==
  ASSUME NEW a \in Nat, NEW b \in Nat
  PROVE  Min({a, b}) = IF a <= b THEN a ELSE b
<1> DEFINE m == IF a <= b THEN a ELSE b
<1>1. m \in {a, b} /\ \A y \in {a, b} : m =< y
  OBVIOUS
<1>2. Min({a, b}) \in {a, b} /\ \A y \in {a, b} : Min({a, b}) =< y
  BY <1>1 DEF Min
<1>3. QED
  BY <1>2

-----------------------------------------------------------------------------
(* The record and the slabs of a tier.                                     *)

LEMMA PlanesAre ==
  ASSUME NEW bits, Assigned(bits), NEW p \in Projections, NEW k
  PROVE  /\ Planes(bits, p, k) \in Seq(Projections \X Nat)
         /\ Len(Planes(bits, p, k)) = Count(bits, p, k)
         /\ \A i \in 1 .. Count(bits, p, k) : Planes(bits, p, k)[i] = <<p, Members(bits, p, k)[i]>>
<1>1. Count(bits, p, k) \in Nat
  BY MembersAre
<1>2. DOMAIN Members(bits, p, k) = 1 .. Count(bits, p, k)
  BY MembersAre
<1>3. \A i \in 1 .. Count(bits, p, k) : Members(bits, p, k)[i] \in Nat
  <2>1. \A i \in 1 .. Count(bits, p, k) : Members(bits, p, k)[i] \in Experts(bits)
    BY MembersAre
  <2>2. QED
    BY <2>1, BitsAre
<1>4. Planes(bits, p, k) = [i \in 1 .. Count(bits, p, k) |-> <<p, Members(bits, p, k)[i]>>]
  BY <1>2 DEF Planes
<1>5. QED
  BY <1>1, <1>3, <1>4

LEMMA SlabOf ==
  ASSUME NEW P, NEW s \in Seq(P)
  PROVE  /\ Len(AtLeastOne(s)) = Max({Len(s), 1})
         /\ \A i \in 1 .. Len(s) : AtLeastOne(s)[i] = s[i]
<1>1. CASE s = <<>>
  BY <1>1, MaxTwo DEF AtLeastOne
<1>2. CASE s # <<>>
  <2>1. Len(s) \in Nat /\ Len(s) # 0
    BY <1>2
  <2>2. Max({Len(s), 1}) = Len(s)
    BY <2>1, MaxTwo
  <2>3. QED
    BY <1>2, <2>2 DEF AtLeastOne
<1>3. QED
  BY <1>1, <1>2

LEMMA TierFields ==
  ASSUME NEW bits, Assigned(bits), NEW k
  PROVE  /\ Count(bits, "gate", k) \in Nat /\ Count(bits, "up", k) \in Nat
         /\ Count(bits, "down", k) \in Nat
         /\ Tier(bits, k).bits = k
         /\ Tier(bits, k).gate = Count(bits, "gate", k)
         /\ Tier(bits, k).up = Count(bits, "up", k)
<1>1. {"gate", "up", "down"} \subseteq Projections
  BY DEF Projections
<1>2. QED
  BY <1>1, PlanesAre, MembersAre DEF Tier

LEMMA TierSizes ==
  ASSUME NEW bits, Assigned(bits), NEW k
  PROVE  /\ Tier(bits, k).slots = Max({Count(bits, "gate", k), Count(bits, "up", k), 1})
         /\ Len(Tier(bits, k).w13) = Max({Count(bits, "gate", k) + Count(bits, "up", k), 1})
         /\ Len(Tier(bits, k).w2) = Max({Count(bits, "down", k), 1})
<1> DEFINE G == Planes(bits, "gate", k)
           U == Planes(bits, "up", k)
           D == Planes(bits, "down", k)
           P == Projections \X Nat
<1>1. {"gate", "up", "down"} \subseteq Projections
  BY DEF Projections
<1>2. /\ G \in Seq(P) /\ Len(G) = Count(bits, "gate", k)
      /\ U \in Seq(P) /\ Len(U) = Count(bits, "up", k)
      /\ D \in Seq(P) /\ Len(D) = Count(bits, "down", k)
  BY <1>1, PlanesAre
<1>3. /\ Tier(bits, k).w13 = AtLeastOne(G \o U) /\ Tier(bits, k).w2 = AtLeastOne(D)
      /\ Tier(bits, k).slots = Max({Len(G), Len(U), 1})
  BY DEF Tier
<1> HIDE DEF G, U, D, P
<1>4. G \o U \in Seq(P) /\ Len(G \o U) = Len(G) + Len(U)
  BY <1>2
<1>5. Len(AtLeastOne(G \o U)) = Max({Len(G) + Len(U), 1})
  <2>1. Len(AtLeastOne(G \o U)) = Max({Len(G \o U), 1})
    BY <1>4, SlabOf
  <2>2. QED
    BY <1>4, <2>1, Zenon
<1>6. Len(AtLeastOne(D)) = Max({Len(D), 1})
  BY <1>2, SlabOf
<1>7. QED
  BY <1>2, <1>3, <1>5, <1>6, Zenon

LEMMA TierPlanes ==
  ASSUME NEW bits, Assigned(bits), NEW k
  PROVE  /\ \A i \in 1 .. Count(bits, "gate", k) :
               Tier(bits, k).w13[i] = <<"gate", Members(bits, "gate", k)[i]>>
         /\ \A i \in 1 .. Count(bits, "up", k) :
               Tier(bits, k).w13[Count(bits, "gate", k) + i] = <<"up", Members(bits, "up", k)[i]>>
         /\ \A i \in 1 .. Count(bits, "down", k) :
               Tier(bits, k).w2[i] = <<"down", Members(bits, "down", k)[i]>>
<1> DEFINE G == Planes(bits, "gate", k)
           U == Planes(bits, "up", k)
           D == Planes(bits, "down", k)
           g == Count(bits, "gate", k)
           u == Count(bits, "up", k)
           d == Count(bits, "down", k)
           P == Projections \X Nat
<1>1. {"gate", "up", "down"} \subseteq Projections
  BY DEF Projections
<1>2. /\ G \in Seq(P) /\ Len(G) = g
      /\ \A i \in 1 .. g : G[i] = <<"gate", Members(bits, "gate", k)[i]>>
  BY <1>1, PlanesAre
<1>3. /\ U \in Seq(P) /\ Len(U) = u
      /\ \A i \in 1 .. u : U[i] = <<"up", Members(bits, "up", k)[i]>>
  BY <1>1, PlanesAre
<1>4. /\ D \in Seq(P) /\ Len(D) = d
      /\ \A i \in 1 .. d : D[i] = <<"down", Members(bits, "down", k)[i]>>
  BY <1>1, PlanesAre
<1>5. Tier(bits, k).w13 = AtLeastOne(G \o U) /\ Tier(bits, k).w2 = AtLeastOne(D)
  BY DEF Tier
<1>6. g \in Nat /\ u \in Nat /\ d \in Nat
  BY TierFields
<1> HIDE DEF G, U, D, g, u, d, P
<1>7. G \o U \in Seq(P) /\ Len(G \o U) = g + u
  <2>1. G \in Seq(P) /\ U \in Seq(P) /\ Len(G) = g /\ Len(U) = u
    BY <1>2, <1>3
  <2>2. QED
    BY <2>1
<1>8. \A i \in 1 .. g + u : AtLeastOne(G \o U)[i] = (G \o U)[i]
  <2>1. \A i \in 1 .. Len(G \o U) : AtLeastOne(G \o U)[i] = (G \o U)[i]
    BY <1>7, SlabOf
  <2>2. QED
    BY <1>7, <2>1
<1>9. \A i \in 1 .. d : AtLeastOne(D)[i] = D[i]
  BY <1>4, SlabOf
<1>10. \A i \in 1 .. g : Tier(bits, k).w13[i] = <<"gate", Members(bits, "gate", k)[i]>>
  <2> TAKE i \in 1 .. g
  <2>1. (G \o U)[i] = G[i] /\ i \in 1 .. g + u
    BY <1>2, <1>3, <1>6
  <2>2. QED
    BY <1>2, <1>5, <1>8, <2>1
<1>11. \A i \in 1 .. u : Tier(bits, k).w13[g + i] = <<"up", Members(bits, "up", k)[i]>>
  <2> TAKE i \in 1 .. u
  <2>1. (G \o U)[g + i] = U[i] /\ g + i \in 1 .. g + u
    BY <1>2, <1>3, <1>6
  <2>2. QED
    BY <1>3, <1>5, <1>8, <2>1
<1>12. \A i \in 1 .. d : Tier(bits, k).w2[i] = <<"down", Members(bits, "down", k)[i]>>
  BY <1>4, <1>5, <1>9
<1>13. QED
  BY <1>10, <1>11, <1>12 DEF g, u, d

-----------------------------------------------------------------------------
(* The slots of a layer, and that there is one for every expert.           *)

Slots(tiers) == UNION {{t} \X (1 .. tiers[t].slots) : t \in DOMAIN tiers}

LEMMA CountBound ==
  ASSUME NEW bits, Assigned(bits), NEW p \in Projections, NEW k
  PROVE  Count(bits, p, k) \in 0 .. Cardinality(Experts(bits))
<1>1. {e \in Experts(bits) : bits[p][e] = k} \in SUBSET Experts(bits)
  OBVIOUS
<1>2. IsFiniteSet(Experts(bits)) /\ Cardinality(Experts(bits)) \in Nat
  BY BitsAre
<1>3. Cardinality({e \in Experts(bits) : bits[p][e] = k}) <= Cardinality(Experts(bits))
  BY <1>1, <1>2, FS_Subset
<1>4. Count(bits, p, k) \in Nat
  BY MembersAre
<1>5. QED
  BY <1>2, <1>3, <1>4 DEF Count

LEMMA TiersAre ==
  ASSUME NEW bits, Assigned(bits)
  PROVE  /\ Tiers(bits) \in Seq(Range(Tiers(bits)))
         /\ Len(Tiers(bits)) = Cardinality(Rates(bits))
         /\ DOMAIN Tiers(bits) = 1 .. Cardinality(Rates(bits))
         /\ \A t \in 1 .. Cardinality(Rates(bits)) : Tiers(bits)[t] = Tier(bits, TierBits(bits)[t])
<1>1. Cardinality(Rates(bits)) \in Nat /\ DOMAIN TierBits(bits) = 1 .. Cardinality(Rates(bits))
  BY TierBitsAre
<1>2. Tiers(bits) = [t \in 1 .. Cardinality(Rates(bits)) |-> Tier(bits, TierBits(bits)[t])]
  BY <1>1 DEF Tiers
<1>3. QED
  BY <1>1, <1>2 DEF Range

\* The tier of an expert, found through its entry.
LEMMA TierFound ==
  ASSUME NEW bits, Assigned(bits), NEW p \in Projections, NEW e \in Experts(bits)
  PROVE  /\ Entry(bits, p, e).tier = TierOf(bits, bits[p][e])
         /\ Entry(bits, p, e).tier \in 0 .. Cardinality(Rates(bits)) - 1
         /\ Entry(bits, p, e).tier + 1 \in DOMAIN Tiers(bits)
         /\ TierBits(bits)[Entry(bits, p, e).tier + 1] = bits[p][e]
         /\ Tiers(bits)[Entry(bits, p, e).tier + 1] = Tier(bits, bits[p][e])
<1>1. bits[p][e] \in Rates(bits)
  BY RatesAre
<1>2. Entry(bits, p, e).tier = TierOf(bits, bits[p][e])
  BY DEF Entry
<1>3. /\ TierOf(bits, bits[p][e]) \in 0 .. Cardinality(Rates(bits)) - 1
      /\ TierBits(bits)[TierOf(bits, bits[p][e]) + 1] = bits[p][e]
      /\ Cardinality(Rates(bits)) \in Nat
  BY <1>1, TierBitsAre
<1>4. TierOf(bits, bits[p][e]) + 1 \in 1 .. Cardinality(Rates(bits))
  BY <1>3
<1>5. QED
  BY <1>2, <1>3, <1>4, TiersAre

LEMMA SlotsAre ==
  ASSUME NEW bits, Assigned(bits), NEW t \in DOMAIN Tiers(bits)
  PROVE  /\ Tiers(bits)[t].slots \in 1 .. Cardinality(Experts(bits))
         /\ Count(bits, "gate", TierBits(bits)[t]) <= Tiers(bits)[t].slots
         /\ Count(bits, "up", TierBits(bits)[t]) <= Tiers(bits)[t].slots
<1> DEFINE k == TierBits(bits)[t]
           n == Cardinality(Experts(bits))
           g == Count(bits, "gate", k)
           u == Count(bits, "up", k)
<1>1. n \in Nat \ {0}
  BY BitsAre
<1>2. g \in 0 .. n /\ u \in 0 .. n
  BY CountBound DEF Projections
<1>3. Tiers(bits)[t] = Tier(bits, k)
  BY TiersAre
<1>4. Tiers(bits)[t].slots = Max({g, u, 1})
  BY <1>3, TierSizes
<1> HIDE DEF g, u, n
<1>5. Max({g, u, 1}) \in {g, u, 1} /\ g <= Max({g, u, 1}) /\ u <= Max({g, u, 1}) /\ 1 <= Max({g, u, 1})
  BY <1>1, <1>2, MaxThree
<1>6. Max({g, u, 1}) \in 1 .. n
  BY <1>1, <1>2, <1>5
<1>7. QED
  BY <1>4, <1>5, <1>6 DEF g, u, n

LEMMA StrideIs ==
  ASSUME NEW bits, Assigned(bits)
  PROVE  /\ IsFiniteSet(Slots(Tiers(bits)))
         /\ Stride(Tiers(bits)) = Cardinality(Slots(Tiers(bits)))
         /\ Stride(Tiers(bits)) \in Nat
         /\ \A t, i : <<t, i>> \in Slots(Tiers(bits))
                        <=> t \in DOMAIN Tiers(bits) /\ i \in 1 .. Tiers(bits)[t].slots
<1> DEFINE n == Cardinality(Experts(bits))
           r == Cardinality(Rates(bits))
<1>1. n \in Nat /\ r \in Nat
  BY BitsAre, TierBitsAre
<1>2. \A t, i : <<t, i>> \in Slots(Tiers(bits))
                        <=> t \in DOMAIN Tiers(bits) /\ i \in 1 .. Tiers(bits)[t].slots
  BY DEF Slots
<1>3. Slots(Tiers(bits)) \subseteq (1 .. r) \X (1 .. n)
  <2> SUFFICES ASSUME NEW c \in Slots(Tiers(bits)) PROVE c \in (1 .. r) \X (1 .. n)
    OBVIOUS
  <2>1. PICK t \in DOMAIN Tiers(bits) : c \in {t} \X (1 .. Tiers(bits)[t].slots)
    BY DEF Slots
  <2>2. Tiers(bits)[t].slots \in 1 .. n /\ t \in 1 .. r
    BY SlotsAre, TiersAre
  <2>3. QED
    BY <1>1, <2>1, <2>2
<1>4. IsFiniteSet((1 .. r) \X (1 .. n))
  <2>1. IsFiniteSet(1 .. r) /\ IsFiniteSet(1 .. n)
    BY <1>1, FS_Interval
  <2>2. QED
    BY <2>1, FS_Product, Zenon
<1>5. IsFiniteSet(Slots(Tiers(bits)))
  BY <1>3, <1>4, FS_Subset
<1>6. QED
  BY <1>2, <1>5, FS_CardinalityType DEF Stride, Slots

\* An expert's own slot, by its gate projection.
SlotOf(bits) ==
    [e \in Experts(bits) |-> <<Entry(bits, "gate", e).tier + 1, Entry(bits, "gate", e).local + 1>>]

LEMMA SlotOfInjective ==
  ASSUME NEW bits, Assigned(bits)
  PROVE  SlotOf(bits) \in Injection(Experts(bits), Slots(Tiers(bits)))
<1>1. "gate" \in Projections
  BY DEF Projections
<1>2. SlotOf(bits) \in [Experts(bits) -> Slots(Tiers(bits))]
  <2> SUFFICES ASSUME NEW e \in Experts(bits)
               PROVE  <<Entry(bits, "gate", e).tier + 1, Entry(bits, "gate", e).local + 1>>
                         \in Slots(Tiers(bits))
    BY DEF SlotOf
  <2> DEFINE t == Entry(bits, "gate", e).tier + 1
             k == bits["gate"][e]
  <2>1. t \in DOMAIN Tiers(bits) /\ TierBits(bits)[t] = k
    BY <1>1, TierFound
  <2>2. Entry(bits, "gate", e).local \in 0 .. Count(bits, "gate", k) - 1
        /\ Count(bits, "gate", k) \in Nat
    BY <1>1, MembersAre
  <2>3. Count(bits, "gate", k) <= Tiers(bits)[t].slots /\ Tiers(bits)[t].slots \in Nat
    <3>1. Tiers(bits)[t].slots \in 1 .. Cardinality(Experts(bits))
          /\ Count(bits, "gate", TierBits(bits)[t]) <= Tiers(bits)[t].slots
      BY <2>1, SlotsAre
    <3>2. QED
      BY <2>1, <3>1
  <2>4. Entry(bits, "gate", e).local + 1 \in 1 .. Tiers(bits)[t].slots
    BY <2>2, <2>3
  <2>5. QED
    BY <2>1, <2>4, StrideIs
<1>3. \A e, f \in Experts(bits) : SlotOf(bits)[e] = SlotOf(bits)[f] => e = f
  <2> SUFFICES ASSUME NEW e \in Experts(bits), NEW f \in Experts(bits),
                      SlotOf(bits)[e] = SlotOf(bits)[f]
               PROVE  e = f
    OBVIOUS
  <2>1. /\ Entry(bits, "gate", e).tier + 1 = Entry(bits, "gate", f).tier + 1
        /\ Entry(bits, "gate", e).local + 1 = Entry(bits, "gate", f).local + 1
    BY DEF SlotOf
  <2>2. bits["gate"][e] = bits["gate"][f]
    <3>1. /\ TierBits(bits)[Entry(bits, "gate", e).tier + 1] = bits["gate"][e]
          /\ TierBits(bits)[Entry(bits, "gate", f).tier + 1] = bits["gate"][f]
      BY <1>1, TierFound
    <3>2. QED
      BY <2>1, <3>1
  <2>3. /\ Members(bits, "gate", bits["gate"][e])[Entry(bits, "gate", e).local + 1] = e
        /\ Members(bits, "gate", bits["gate"][e])[Entry(bits, "gate", f).local + 1] = f
    BY <1>1, <2>2, MembersAre
  <2>4. QED
    BY <2>1, <2>3
<1>4. QED
  BY <1>2, <1>3 DEF Injection, IsInjective

LEMMA StrideRoom ==
  ASSUME NEW bits, Assigned(bits)
  PROVE  Cardinality(Experts(bits)) <= Stride(Tiers(bits))
BY SlotOfInjective, StrideIs, FS_Injection

-----------------------------------------------------------------------------
(* A layer of one bitrate per expert fills its slots.                      *)

Alike(bits) == \A p \in Projections : bits[p] = bits["gate"]

LEMMA AlikeCount ==
  ASSUME NEW bits, Assigned(bits), Alike(bits), NEW p \in Projections, NEW k
  PROVE  Count(bits, p, k) = Count(bits, "gate", k)
<1>1. bits[p] = bits["gate"]
  BY DEF Alike
<1>2. QED
  BY <1>1 DEF Count

LEMMA AlikeEntry ==
  ASSUME NEW bits, Assigned(bits), Alike(bits), NEW p \in Projections, NEW e
  PROVE  Entry(bits, p, e) = Entry(bits, "gate", e)
<1>1. bits[p] = bits["gate"]
  BY DEF Alike
<1>2. QED
  BY <1>1 DEF Entry

LEMMA StrideFilled ==
  ASSUME NEW bits, Assigned(bits), Alike(bits)
  PROVE  Stride(Tiers(bits)) = Cardinality(Experts(bits))
<1>1. "gate" \in Projections /\ "up" \in Projections
  BY DEF Projections
<1>2. SlotOf(bits) \in Surjection(Experts(bits), Slots(Tiers(bits)))
  <2> SUFFICES ASSUME NEW c \in Slots(Tiers(bits))
               PROVE  \E e \in Experts(bits) : SlotOf(bits)[e] = c
    BY SlotOfInjective DEF Injection, Surjection
  <2>1. PICK t \in DOMAIN Tiers(bits) : c \in {t} \X (1 .. Tiers(bits)[t].slots)
    BY DEF Slots
  <2>2. PICK i \in 1 .. Tiers(bits)[t].slots : c = <<t, i>>
    BY <2>1
  <2> DEFINE k == TierBits(bits)[t]
             g == Count(bits, "gate", k)
  <2>3. t \in 1 .. Cardinality(Rates(bits)) /\ Cardinality(Rates(bits)) \in Nat
    BY TiersAre, TierBitsAre
  <2>4. k \in Rates(bits) /\ TierOf(bits, k) = t - 1
    BY <2>3, TierBitsAre
  <2>5. g \in Nat /\ g # 0
    <3>1. PICK p \in Projections : k \in Range(bits[p])
      BY <2>4 DEF Rates
    <3>2. k \in Range(bits["gate"])
      BY <3>1 DEF Alike
    <3>3. PICK e \in Experts(bits) : bits["gate"][e] = k
      BY <1>1, <3>2, BitsAre DEF Range
    <3>4. Entry(bits, "gate", e).local \in 0 .. g - 1 /\ g \in Nat
      BY <1>1, <3>3, MembersAre
    <3>5. QED
      BY <3>4
  <2>6. Tiers(bits)[t].slots = g
    <3>1. Tiers(bits)[t] = Tier(bits, k)
      BY <2>3, TiersAre
    <3>2. Count(bits, "up", k) = g
      BY <1>1, AlikeCount
    <3>3. Tiers(bits)[t].slots = Max({g, Count(bits, "up", k), 1})
      BY <3>1, TierSizes
    <3>4. {g, Count(bits, "up", k), 1} = {g, 1}
      BY <3>2
    <3>5. Max({g, 1}) = g
      <4> HIDE DEF g
      <4>1. QED
        BY <2>5, MaxTwo
    <3>6. QED
      BY <3>3, <3>4, <3>5
  <2> DEFINE e == Members(bits, "gate", k)[i]
  <2>7. /\ e \in Experts(bits) /\ bits["gate"][e] = k
        /\ Entry(bits, "gate", e).local = i - 1
    <3>1. i \in 1 .. g
      BY <2>6
    <3>2. QED
      BY <1>1, <3>1, MembersAre
  <2>8. Entry(bits, "gate", e).tier = t - 1
    BY <1>1, <2>4, <2>7, TierFound
  <2>9. SlotOf(bits)[e] = <<t, i>>
    <3> HIDE DEF e
    <3>1. t - 1 + 1 = t /\ i - 1 + 1 = i
      BY <2>3, <2>6, <2>5
    <3>2. QED
      BY <2>7, <2>8, <3>1 DEF SlotOf
  <2>10. QED
    BY <2>2, <2>7, <2>9
<1>3. QED
  BY <1>2, SlotOfInjective, StrideIs, FS_Injection

-----------------------------------------------------------------------------
(* Where the kernel looks: an artifact whose tables lead every expert to    *)
(* its own entry and rotation row gives it its own planes.                 *)

Places(a, bits) ==
    /\ a.tiers = Tiers(bits)
    /\ DOMAIN a.map = Experts(bits)
    /\ \A p \in Projections :
          /\ Len(a.desc[p]) = Stride(Tiers(bits))
          /\ DOMAIN a.desc[p] = 1 .. Stride(Tiers(bits))
          /\ \A i \in DOMAIN a.desc[p] :
                a.desc[p][i].tier = -1 \/ \E e \in Experts(bits) : a.map[e] + 1 = i
    /\ Len(a.rotation) = Stride(Tiers(bits))
    /\ \A e \in Experts(bits) :
          /\ a.map[e] \in 0 .. Stride(Tiers(bits)) - 1
          /\ a.rotation[a.map[e] + 1] = e
          /\ \A p \in Projections : a.desc[p][a.map[e] + 1] = Entry(bits, p, e)

LEMMA PlaneFound ==
  ASSUME NEW bits, Assigned(bits), NEW p \in Projections, NEW e \in Experts(bits)
  PROVE  LET tier == Tier(bits, bits[p][e])
             local == Entry(bits, p, e).local
         IN InTierBounds(tier, p, local) /\ PlaneAt(tier, p, local) = <<p, e>>
<1> DEFINE k == bits[p][e]
           tier == Tier(bits, k)
           i == Entry(bits, p, e).local
           c == Count(bits, p, k)
<1>1. /\ c \in Nat /\ i \in 0 .. c - 1
      /\ Members(bits, p, k)[i + 1] = e
  BY MembersAre
<1>2. i + 1 \in 1 .. c /\ i < c
  BY <1>1
<1>3. CASE p = "gate"
  <2>1. tier.gate = c /\ tier.w13[i + 1] = <<"gate", Members(bits, "gate", k)[i + 1]>>
    BY <1>2, <1>3, TierPlanes, TierFields
  <2>2. QED
    BY <1>1, <1>2, <1>3, <2>1 DEF InTierBounds, PlaneAt
<1>4. CASE p = "up"
  <2>1. /\ tier.up = c /\ tier.gate = Count(bits, "gate", k) /\ tier.gate \in Nat
        /\ tier.w13[Count(bits, "gate", k) + (i + 1)] = <<"up", Members(bits, "up", k)[i + 1]>>
    BY <1>2, <1>4, TierPlanes, TierFields
  <2>2. tier.gate + i + 1 = Count(bits, "gate", k) + (i + 1)
    BY <1>1, <2>1
  <2>3. tier.w13[tier.gate + i + 1] = <<"up", e>>
    BY <1>1, <1>4, <2>1, <2>2
  <2>4. QED
    BY <1>2, <1>4, <2>1, <2>3 DEF InTierBounds, PlaneAt
<1>5. CASE p = "down"
  <2>1. tier.w2[i + 1] = <<"down", Members(bits, "down", k)[i + 1]>>
    BY <1>2, <1>5, TierPlanes
  <2>2. i < Len(tier.w2)
    <3>1. Len(tier.w2) = Max({c, 1})
      BY <1>5, TierSizes
    <3> HIDE DEF c, i
    <3>2. Max({c, 1}) = IF c <= 1 THEN 1 ELSE c
      BY <1>1, MaxTwo
    <3>3. QED
      BY <1>1, <1>2, <3>1, <3>2
  <2>3. QED
    BY <1>1, <1>5, <2>1, <2>2 DEF InTierBounds, PlaneAt
<1>6. QED
  BY <1>3, <1>4, <1>5 DEF Projections

LEMMA EmittedIs ==
  ASSUME NEW bits, Assigned(bits), NEW a, Places(a, bits), NEW e \in Experts(bits),
         NEW fc1, NEW n, NEW half, NEW p, p = DescriptorRow(fc1, n, half)
  PROVE  Emitted(a, fc1, n, half, e) = [plane |-> <<p, e>>, bits |-> bits[p][e], rotation |-> e]
<1> DEFINE c == a.map[e]
           entry == a.desc[p][c + 1]
           tier == a.tiers[entry.tier + 1]
<1>1. p \in Projections
  BY DEF DescriptorRow, Projections
<1>2. /\ c \in 0 .. Stride(a.tiers) - 1 /\ a.rotation[c + 1] = e
      /\ entry = Entry(bits, p, e)
  BY <1>1 DEF Places
<1>3. entry # NoEntry
  <2>1. entry.tier \in 0 .. Cardinality(Rates(bits)) - 1 /\ Cardinality(Rates(bits)) \in Nat
    BY <1>1, <1>2, TierFound, TierBitsAre
  <2>2. entry.tier # -1
    BY <2>1
  <2>3. QED
    BY <2>2 DEF NoEntry
<1>4. tier = Tier(bits, bits[p][e])
  BY <1>1, <1>2, TierFound DEF Places
<1>5. InTierBounds(tier, p, entry.local) /\ PlaneAt(tier, p, entry.local) = <<p, e>>
  BY <1>1, <1>2, <1>4, PlaneFound
<1> HIDE DEF tier
<1>6. tier.bits = bits[p][e]
  BY <1>4, TierFields
<1>7. QED
  BY <1>2, <1>3, <1>5, <1>6, Zenon DEF Emitted, tier

-----------------------------------------------------------------------------
(* Tables padded to one row per slot.                                      *)

LEMMA PaddedRoom ==
  ASSUME NEW S, NEW row \in Seq(S), NEW n \in Nat, Len(row) <= n, NEW with \in S
  PROVE  Len(Padded(row, n, with)) = n
BY DEF Padded

LEMMA PaddedType ==
  ASSUME NEW S, NEW row \in Seq(S), NEW n \in Nat, Len(row) <= n, NEW with \in S
  PROVE  Padded(row, n, with) \in Seq(S)
<1> DEFINE rest == [i \in 1 .. n - Len(row) |-> with]
<1>1. rest \in Seq(S)
  OBVIOUS
<1> HIDE DEF rest
<1>2. row \o rest \in Seq(S)
  BY <1>1
<1>3. QED
  BY <1>2 DEF Padded, rest

LEMMA PaddedHead ==
  ASSUME NEW S, NEW row \in Seq(S), NEW n \in Nat, Len(row) <= n, NEW with \in S,
         NEW i \in 1 .. Len(row)
  PROVE  Padded(row, n, with)[i] = row[i]
<1> DEFINE rest == [j \in 1 .. n - Len(row) |-> with]
<1>1. rest \in Seq(S)
  OBVIOUS
<1> HIDE DEF rest
<1>2. (row \o rest)[i] = row[i]
  BY <1>1
<1>3. QED
  BY <1>2 DEF Padded, rest

LEMMA PaddedTail ==
  ASSUME NEW S, NEW row \in Seq(S), NEW n \in Nat, Len(row) <= n, NEW with \in S,
         NEW i \in Len(row) + 1 .. n
  PROVE  Padded(row, n, with)[i] = with
<1> DEFINE m == n - Len(row)
           rest == [j \in 1 .. m |-> with]
<1>1. m \in Nat /\ i - Len(row) \in 1 .. m /\ i \in Len(row) + 1 .. Len(row) + m
  OBVIOUS
<1>2. rest \in Seq(S) /\ Len(rest) = m
  BY <1>1
<1>3. rest[i - Len(row)] = with
  BY <1>1
<1> HIDE DEF rest, m
<1>4. (row \o rest)[i] = rest[i - Len(row)]
  BY <1>1, <1>2
<1>5. QED
  BY <1>3, <1>4 DEF Padded, rest, m


Entries == [tier : Int, local : Int]

LEMMA EntryType ==
  ASSUME NEW bits, Assigned(bits), NEW p \in Projections, NEW e \in Experts(bits)
  PROVE  Entry(bits, p, e) \in Entries
<1>1. Entry(bits, p, e).tier \in Int
  BY TierFound, TierBitsAre
<1>2. Entry(bits, p, e).local \in Int
  <2>1. /\ Entry(bits, p, e).local \in 0 .. Count(bits, p, bits[p][e]) - 1
        /\ Count(bits, p, bits[p][e]) \in Nat
    BY MembersAre, Zenon
  <2>2. QED
    BY <2>1
<1>3. QED
  BY <1>1, <1>2 DEF Entry, Entries

LEMMA InOrderIs ==
  ASSUME NEW bits, Assigned(bits)
  PROVE  /\ InOrder(bits) \in Seq(Int)
         /\ Len(InOrder(bits)) = Cardinality(Experts(bits))
         /\ DOMAIN InOrder(bits) = 1 .. Cardinality(Experts(bits))
         /\ \A i \in 1 .. Cardinality(Experts(bits)) : InOrder(bits)[i] = i - 1
<1>1. Cardinality(Experts(bits)) \in Nat
  BY BitsAre
<1>2. QED
  BY <1>1 DEF InOrder

\* The descriptor row of a projection before it is padded.
RowOf(bits, p) == [i \in 1 .. Cardinality(Experts(bits)) |-> Entry(bits, p, i - 1)]

LEMMA RowIs ==
  ASSUME NEW bits, Assigned(bits), NEW p \in Projections
  PROVE  /\ RowOf(bits, p) \in Seq(Entries)
         /\ Len(RowOf(bits, p)) = Cardinality(Experts(bits))
<1> DEFINE n == Cardinality(Experts(bits))
<1>1. n \in Nat /\ Experts(bits) = 0 .. n - 1
  BY BitsAre
<1>2. \A i \in 1 .. n : Entry(bits, p, i - 1) \in Entries
  <2> TAKE i \in 1 .. n
  <2>1. i - 1 \in Experts(bits)
    BY <1>1
  <2>2. QED
    BY <2>1, EntryType
<1> HIDE DEF n
<1>3. [i \in 1 .. n |-> Entry(bits, p, i - 1)] \in Seq(Entries)
      /\ Len([i \in 1 .. n |-> Entry(bits, p, i - 1)]) = n
  BY <1>1, <1>2
<1>4. QED
  BY <1>3 DEF n, RowOf

LEMMA ProjectionTieredIs ==
  ASSUME NEW bits, Assigned(bits)
  PROVE  LET a == ProjectionTiered(bits)
             n == Cardinality(Experts(bits))
             width == Stride(Tiers(bits))
         IN /\ a.tiers = Tiers(bits)
            /\ a.map = [e \in Experts(bits) |-> e]
            /\ n \in Nat /\ width \in Nat /\ n <= width
            /\ Len(a.rotation) = width
            /\ \A i \in 1 .. n : a.rotation[i] = i - 1
            /\ \A p \in Projections :
                  /\ Len(a.desc[p]) = width /\ DOMAIN a.desc[p] = 1 .. width
                  /\ \A i \in 1 .. width :
                        a.desc[p][i] = IF i <= n THEN Entry(bits, p, i - 1) ELSE NoEntry
<1> DEFINE a == ProjectionTiered(bits)
           n == Cardinality(Experts(bits))
           width == Stride(Tiers(bits))
<1>1. n \in Nat /\ width \in Nat /\ n <= width
  BY BitsAre, StrideIs, StrideRoom
<1>2. a = [tiers |-> Tiers(bits), map |-> [e \in Experts(bits) |-> e],
           desc |-> [p \in Projections |-> Padded(RowOf(bits, p), width, NoEntry)],
           rotation |-> Padded(InOrder(bits), width, -1)]
  BY InOrderIs, Zenon DEF ProjectionTiered, RowOf
<1>3. /\ a.tiers = Tiers(bits)
      /\ a.map = [e \in Experts(bits) |-> e]
      /\ a.desc = [p \in Projections |-> Padded(RowOf(bits, p), width, NoEntry)]
      /\ a.rotation = Padded(InOrder(bits), width, -1)
  <2> HIDE DEF a, width, n
  <2>1. QED
    BY <1>2
<1> HIDE DEF a, width, n
<1>4. /\ InOrder(bits) \in Seq(Int) /\ Len(InOrder(bits)) = n
      /\ \A i \in 1 .. n : InOrder(bits)[i] = i - 1
  BY InOrderIs DEF n
<1>5. Len(a.rotation) = width /\ \A i \in 1 .. n : a.rotation[i] = i - 1
  <2>1. /\ Len(Padded(InOrder(bits), width, -1)) = width
        /\ \A i \in 1 .. n : Padded(InOrder(bits), width, -1)[i] = InOrder(bits)[i]
    <3> DEFINE none == -1
               Ids == Int
    <3>1. none \in Ids /\ InOrder(bits) \in Seq(Ids)
      BY <1>4
    <3>2. Len(InOrder(bits)) <= width
      BY <1>1, <1>4
    <3> HIDE DEF none, Ids
    <3>3. /\ Len(Padded(InOrder(bits), width, none)) = width
          /\ \A i \in 1 .. Len(InOrder(bits)) :
                Padded(InOrder(bits), width, none)[i] = InOrder(bits)[i]
      BY <1>1, <3>1, <3>2, PaddedRoom, PaddedHead
    <3>4. QED
      BY <1>4, <3>3 DEF none
  <2>2. Len(a.rotation) = width
    BY <1>3, <2>1
  <2>3. ASSUME NEW i \in 1 .. n
        PROVE  a.rotation[i] = i - 1
    BY <1>3, <1>4, <2>1
  <2>4. QED
    BY <2>2, <2>3
<1>6. ASSUME NEW p \in Projections
      PROVE  /\ Len(a.desc[p]) = width /\ DOMAIN a.desc[p] = 1 .. width
             /\ \A i \in 1 .. width :
                   a.desc[p][i] = IF i <= n THEN Entry(bits, p, i - 1) ELSE NoEntry
  <2> DEFINE row == RowOf(bits, p)
  <2>1. row \in Seq(Entries) /\ Len(row) = n
    BY RowIs DEF n
  <2>2. NoEntry \in Entries
    BY DEF NoEntry, Entries
  <2> HIDE DEF row
  <2>3. /\ Padded(row, width, NoEntry) \in Seq(Entries)
        /\ Len(Padded(row, width, NoEntry)) = width
        /\ \A i \in 1 .. width : Padded(row, width, NoEntry)[i]
                                    = IF i <= n THEN row[i] ELSE NoEntry
    <3>1. Len(row) <= width
      BY <1>1, <2>1
    <3> DEFINE Cells == Entries
               hole == NoEntry
    <3>2. hole \in Cells /\ row \in Seq(Cells)
      BY <2>1, <2>2
    <3> HIDE DEF Cells, hole
    <3>3. /\ Len(Padded(row, width, hole)) = width
          /\ Padded(row, width, hole) \in Seq(Cells)
      BY <1>1, <3>1, <3>2, PaddedRoom, PaddedType
    <3>4. \A i \in 1 .. Len(row) : Padded(row, width, hole)[i] = row[i]
      BY <1>1, <3>1, <3>2, PaddedHead
    <3>5. \A i \in Len(row) + 1 .. width : Padded(row, width, hole)[i] = hole
      BY <1>1, <3>1, <3>2, PaddedTail
    <3>6. /\ Padded(row, width, NoEntry) \in Seq(Entries)
          /\ Len(Padded(row, width, NoEntry)) = width
          /\ \A i \in 1 .. Len(row) : Padded(row, width, NoEntry)[i] = row[i]
          /\ \A i \in Len(row) + 1 .. width : Padded(row, width, NoEntry)[i] = NoEntry
      BY <3>3, <3>4, <3>5 DEF Cells, hole
    <3>7. ASSUME NEW i \in 1 .. width
          PROVE  Padded(row, width, NoEntry)[i] = IF i <= n THEN row[i] ELSE NoEntry
      <4>1. CASE i <= n
        <5>1. i \in 1 .. Len(row)
          BY <1>1, <2>1, <4>1
        <5>2. QED
          BY <3>6, <4>1, <5>1
      <4>2. CASE ~(i <= n)
        <5>1. i \in Len(row) + 1 .. width
          BY <1>1, <2>1, <4>2
        <5>2. QED
          BY <3>6, <4>2, <5>1
      <4>3. QED
        BY <4>1, <4>2
    <3>8. QED
      BY <3>6, <3>7
  <2>4. a.desc[p] = Padded(row, width, NoEntry)
    BY <1>3 DEF row
  <2>5. \A i \in 1 .. n : row[i] = Entry(bits, p, i - 1)
    BY DEF row, RowOf, n
  <2>6. QED
    BY <1>1, <2>3, <2>4, <2>5
<1>7. QED
  BY <1>1, <1>3, <1>5, <1>6 DEF a, n, width

LEMMA ProjectionPlaces ==
  ASSUME NEW bits, Assigned(bits)
  PROVE  Places(ProjectionTiered(bits), bits)
<1> DEFINE a == ProjectionTiered(bits)
           n == Cardinality(Experts(bits))
           width == Stride(Tiers(bits))
<1>1. /\ a.tiers = Tiers(bits)
      /\ a.map = [e \in Experts(bits) |-> e]
      /\ n \in Nat /\ width \in Nat /\ n <= width
      /\ Len(a.rotation) = width
      /\ \A i \in 1 .. n : a.rotation[i] = i - 1
      /\ \A p \in Projections :
            /\ Len(a.desc[p]) = width /\ DOMAIN a.desc[p] = 1 .. width
            /\ \A i \in 1 .. width :
                  a.desc[p][i] = IF i <= n THEN Entry(bits, p, i - 1) ELSE NoEntry
  BY ProjectionTieredIs
<1>2. Experts(bits) = 0 .. n - 1
  BY BitsAre
<1> HIDE DEF a, n, width
<1>3. ASSUME NEW e \in Experts(bits)
      PROVE  /\ a.map[e] \in 0 .. width - 1
             /\ a.rotation[a.map[e] + 1] = e
             /\ \A p \in Projections : a.desc[p][a.map[e] + 1] = Entry(bits, p, e)
  <2>1. a.map[e] = e /\ e \in 0 .. n - 1 /\ e + 1 \in 1 .. n /\ e + 1 \in 1 .. width /\ e + 1 - 1 = e
    BY <1>1, <1>2
  <2>2. QED
    BY <1>1, <2>1
<1>4. ASSUME NEW p \in Projections, NEW i \in DOMAIN a.desc[p]
      PROVE  a.desc[p][i].tier = -1 \/ \E e \in Experts(bits) : a.map[e] + 1 = i
  <2>1. i \in 1 .. width
    BY <1>1
  <2>2. CASE i <= n
    <3>1. i - 1 \in Experts(bits) /\ i - 1 + 1 = i
      BY <1>1, <1>2, <2>1, <2>2
    <3>2. QED
      BY <1>1, <3>1
  <2>3. CASE ~(i <= n)
    BY <1>1, <2>1, <2>3 DEF NoEntry
  <2>4. QED
    BY <2>2, <2>3
<1>5. QED
  BY <1>1, <1>3, <1>4 DEF Places, a, n, width

-----------------------------------------------------------------------------
(* Experts renumbered tier by tier.                                        *)

LEMMA KeysDiffer ==
  ASSUME NEW n \in Nat \ {0}, NEW a \in Nat, NEW b \in Nat,
         NEW e \in 0 .. n - 1, NEW f \in 0 .. n - 1, a * n + e = b * n + f
  PROVE  e = f
<1>1. ASSUME NEW x \in Nat, NEW y \in Nat, x < y PROVE x * n + n <= y * n
  <2>1. PICK d \in Nat : y = x + 1 + d
    <3>1. y - x - 1 \in Nat /\ y = x + 1 + (y - x - 1)
      BY <1>1
    <3>2. QED
      BY <3>1
  <2>2. y * n = x * n + n + d * n
    BY <2>1
  <2>3. d * n \in Nat /\ x * n \in Nat
    OBVIOUS
  <2>4. QED
    BY <2>2, <2>3
<1>2. a * n \in Nat /\ b * n \in Nat
  OBVIOUS
<1>3. CASE a < b
  BY <1>1, <1>2, <1>3
<1>4. CASE b < a
  BY <1>1, <1>2, <1>4
<1>5. CASE a = b
  BY <1>2, <1>5
<1>6. QED
  BY <1>3, <1>4, <1>5

LEMMA TierOrderIs ==
  ASSUME NEW bits, Assigned(bits)
  PROVE  LET n == Cardinality(Experts(bits))
             order == TierOrder(bits)
         IN /\ order \in [1 .. n -> Experts(bits)]
            /\ \A e \in Experts(bits) : \E i \in 1 .. n : order[i] = e
            /\ \A i, j \in 1 .. n : order[i] = order[j] => i = j
<1> DEFINE n == Cardinality(Experts(bits))
           key == [e \in Experts(bits) |-> bits["gate"][e] * n + e]
           order == SortedBy(Experts(bits), key)
<1>1. n \in Nat \ {0} /\ Experts(bits) = 0 .. n - 1 /\ IsFiniteSet(Experts(bits))
  BY BitsAre
<1>2. \A e \in Experts(bits) : bits["gate"][e] \in Nat
  BY BitsAre DEF Projections
<1>3. TierOrder(bits) = order
  BY DEF TierOrder
<1>4. \A e \in Experts(bits) : key[e] \in Int
  <2> TAKE e \in Experts(bits)
  <2>1. bits["gate"][e] * n \in Int /\ e \in Int
    BY <1>1, <1>2
  <2>2. QED
    BY <2>1
<1>5. \A e, f \in Experts(bits) : key[e] = key[f] => e = f
  <2> SUFFICES ASSUME NEW e \in Experts(bits), NEW f \in Experts(bits), key[e] = key[f]
               PROVE  e = f
    OBVIOUS
  <2>1. bits["gate"][e] * n + e = bits["gate"][f] * n + f
    OBVIOUS
  <2> HIDE DEF n
  <2>2. QED
    BY <1>1, <1>2, <2>1, KeysDiffer
<1> HIDE DEF key
<1>6. /\ Cardinality(Experts(bits)) \in Nat
      /\ SortedBy(Experts(bits), key) \in [1 .. Cardinality(Experts(bits)) -> Experts(bits)]
      /\ \A x \in Experts(bits) :
            SortedBy(Experts(bits), key)[Rank(Experts(bits), key, x) + 1] = x
      /\ \A i \in 1 .. Cardinality(Experts(bits)) :
            Rank(Experts(bits), key, SortedBy(Experts(bits), key)[i]) = i - 1
  BY <1>1, <1>4, <1>5, Sorted, Zenon
<1>7. \A e \in Experts(bits) : Rank(Experts(bits), key, e) \in 0 .. n - 1
  BY <1>1, <1>4, RankIs
<1> HIDE DEF n, order
<1>8. \A e \in Experts(bits) : \E i \in 1 .. n : order[i] = e
  <2> TAKE e \in Experts(bits)
  <2>1. Rank(Experts(bits), key, e) + 1 \in 1 .. n
    BY <1>1, <1>7
  <2>2. order[Rank(Experts(bits), key, e) + 1] = e
    BY <1>6 DEF order
  <2>3. QED
    BY <2>1, <2>2
<1>9. \A i, j \in 1 .. n : order[i] = order[j] => i = j
  <2> SUFFICES ASSUME NEW i \in 1 .. n, NEW j \in 1 .. n, order[i] = order[j] PROVE i = j
    OBVIOUS
  <2>1. Rank(Experts(bits), key, order[i]) = i - 1 /\ Rank(Experts(bits), key, order[j]) = j - 1
    BY <1>6 DEF order, n
  <2>2. i - 1 = j - 1
    BY <2>1
  <2>3. QED
    BY <1>1, <2>2
<1>10. order \in [1 .. n -> Experts(bits)]
  BY <1>6 DEF order, n
<1>11. QED
  BY <1>3, <1>8, <1>9, <1>10 DEF n, order

LEMMA ExpertPlaces ==
  ASSUME NEW bits, Assigned(bits), Alike(bits)
  PROVE  Places(ExpertTiered(bits), bits)
<1> DEFINE a == ExpertTiered(bits)
           n == Cardinality(Experts(bits))
           order == TierOrder(bits)
           row == [i \in DOMAIN order |-> Entry(bits, "gate", order[i])]
<1>1. /\ n \in Nat \ {0} /\ Experts(bits) = 0 .. n - 1
      /\ order \in [1 .. n -> Experts(bits)]
      /\ \A e \in Experts(bits) : \E i \in 1 .. n : order[i] = e
      /\ \A i, j \in 1 .. n : order[i] = order[j] => i = j
  BY BitsAre, TierOrderIs
<1>2. Stride(Tiers(bits)) = n
  BY StrideFilled
<1>3. /\ a.tiers = Tiers(bits)
      /\ a.map = [e \in Experts(bits) |-> (CHOOSE i \in DOMAIN order : order[i] = e) - 1]
      /\ a.desc = [p \in Projections |-> row]
      /\ a.rotation = order
  BY DEF ExpertTiered
<1>4. DOMAIN row = 1 .. n /\ \A i \in 1 .. n : row[i] = Entry(bits, "gate", order[i])
  BY <1>1
<1>5. row \in Seq(Range(row)) /\ Len(row) = n
  <2>1. row = [i \in 1 .. n |-> Entry(bits, "gate", order[i])]
    BY <1>1
  <2> HIDE DEF n
  <2>2. QED
    BY <1>1, <2>1 DEF Range
<1>6. order \in Seq(Experts(bits)) /\ Len(order) = n
  <2> HIDE DEF n, order
  <2>1. QED
    BY <1>1
<1> HIDE DEF a, n, order, row
<1>7. ASSUME NEW e \in Experts(bits)
      PROVE  a.map[e] + 1 \in 1 .. n /\ a.map[e] \in 0 .. n - 1 /\ order[a.map[e] + 1] = e
  <2> DEFINE i == CHOOSE i \in DOMAIN order : order[i] = e
  <2>1. i \in 1 .. n /\ order[i] = e
    BY <1>1
  <2>2. a.map[e] = i - 1
    BY <1>3
  <2> HIDE DEF i
  <2>3. i - 1 + 1 = i /\ i - 1 \in 0 .. n - 1
    BY <1>1, <2>1
  <2>4. QED
    BY <2>1, <2>2, <2>3
<1>8. ASSUME NEW p \in Projections, NEW e \in Experts(bits)
      PROVE  a.desc[p][a.map[e] + 1] = Entry(bits, p, e)
  <2>1. a.desc[p][a.map[e] + 1] = Entry(bits, "gate", e)
    BY <1>3, <1>4, <1>7
  <2>2. QED
    BY <2>1, AlikeEntry
<1>9. ASSUME NEW p \in Projections, NEW i \in 1 .. n
      PROVE  \E e \in Experts(bits) : a.map[e] + 1 = i
  <2>1. order[i] \in Experts(bits)
    BY <1>1
  <2>2. a.map[order[i]] + 1 \in 1 .. n /\ order[a.map[order[i]] + 1] = order[i]
    BY <1>7, <2>1
  <2>3. a.map[order[i]] + 1 = i
    BY <1>1, <2>2
  <2>4. QED
    BY <2>1, <2>3
<1>10. \A p \in Projections : Len(a.desc[p]) = n /\ DOMAIN a.desc[p] = 1 .. n
  BY <1>3, <1>4, <1>5
<1>11. DOMAIN a.map = Experts(bits) /\ Len(a.rotation) = n
  BY <1>3, <1>6
<1>12. \A e \in Experts(bits) : a.rotation[a.map[e] + 1] = e
  BY <1>3, <1>7
<1>13. QED
  BY <1>2, <1>3, <1>7, <1>8, <1>9, <1>10, <1>11, <1>12 DEF Places, a

-----------------------------------------------------------------------------
(* What the launch checks of an artifact's extents.                        *)

LEMMA EncodedIs ==
  ASSUME NEW bits, Assigned(bits), NEW a, Places(a, bits), NEW p \in Projections,
         NEW t \in DOMAIN Tiers(bits)
  PROVE  Encoded(a, p, t) = Count(bits, p, TierBits(bits)[t])
<1> DEFINE k == TierBits(bits)[t]
           S == {e \in Experts(bits) : bits[p][e] = k}
           I == {i \in DOMAIN a.desc[p] : a.desc[p][i].tier = t - 1}
           f == [e \in S |-> a.map[e] + 1]
<1>1. t \in 1 .. Cardinality(Rates(bits)) /\ Cardinality(Rates(bits)) \in Nat
  BY TiersAre, TierBitsAre
<1>2. k \in Rates(bits) /\ TierOf(bits, k) = t - 1
  BY <1>1, TierBitsAre
<1>3. Stride(Tiers(bits)) \in Nat
  BY StrideIs
<1>4. ASSUME NEW e \in S PROVE f[e] \in I
  <2>1. a.map[e] \in 0 .. Stride(Tiers(bits)) - 1
    BY DEF Places
  <2>2. a.map[e] + 1 \in DOMAIN a.desc[p]
    <3>1. DOMAIN a.desc[p] = 1 .. Stride(Tiers(bits))
      BY DEF Places
    <3>2. QED
      BY <1>3, <2>1, <3>1
  <2>3. a.desc[p][a.map[e] + 1] = Entry(bits, p, e)
    BY DEF Places
  <2>4. Entry(bits, p, e).tier = t - 1
    BY <1>2, TierFound
  <2>5. QED
    BY <2>2, <2>3, <2>4
<1>5. ASSUME NEW e \in S, NEW g \in S, f[e] = f[g] PROVE e = g
  <2>1. a.rotation[a.map[e] + 1] = e /\ a.rotation[a.map[g] + 1] = g
    BY DEF Places
  <2>2. QED
    BY <1>5, <2>1
<1>6. ASSUME NEW i \in I PROVE \E e \in S : f[e] = i
  <2>1. a.desc[p][i].tier # -1
    BY <1>1
  <2>2. PICK e \in Experts(bits) : a.map[e] + 1 = i
    BY <2>1 DEF Places
  <2>3. a.desc[p][i] = Entry(bits, p, e)
    BY <2>2 DEF Places
  <2>4. Entry(bits, p, e).tier + 1 = t
    BY <1>1, <2>3
  <2>5. bits[p][e] = k
    BY <2>4, TierFound
  <2>6. QED
    BY <2>2, <2>5
<1>7. f \in Bijection(S, I)
  <2>1. f \in [S -> I]
    BY <1>4
  <2>2. QED
    BY <2>1, <1>5, <1>6 DEF Bijection, Injection, Surjection, IsInjective
<1>8. IsFiniteSet(S)
  BY BitsAre, FS_Subset, S \in SUBSET Experts(bits)
<1>9. Cardinality(I) = Cardinality(S)
  BY <1>7, <1>8, FS_Bijection DEF ExistsBijection
<1>10. QED
  BY <1>9 DEF Encoded, Count

LEMMA PlacesBind ==
  ASSUME NEW bits, Assigned(bits), ~Oversized(bits), NEW a, Places(a, bits)
  PROVE  Bindable(a, Experts(bits))
<1>1. ASSUME NEW t \in DOMAIN Tiers(bits)
      PROVE  /\ TierStored(Tiers(bits)[t])
             /\ Encoded(a, "gate", t) = Tiers(bits)[t].gate
             /\ Encoded(a, "up", t) = Tiers(bits)[t].up
  <2> DEFINE k == TierBits(bits)[t]
             d == Count(bits, "down", k)
             tier == Tiers(bits)[t]
  <2>1. tier = Tier(bits, k)
    BY TiersAre
  <2>2. /\ Count(bits, "gate", k) \in Nat /\ Count(bits, "up", k) \in Nat /\ d \in Nat
        /\ tier.gate = Count(bits, "gate", k) /\ tier.up = Count(bits, "up", k)
    BY <2>1, TierFields
  <2>3. /\ tier.slots \in 1 .. Cardinality(Experts(bits)) /\ Cardinality(Experts(bits)) \in Nat
        /\ Count(bits, "gate", k) <= tier.slots /\ Count(bits, "up", k) <= tier.slots
    BY SlotsAre, BitsAre
  <2>4. Len(tier.w13) = Max({tier.gate + tier.up, 1})
    <3>1. Len(tier.w13) = Max({Count(bits, "gate", k) + Count(bits, "up", k), 1})
      BY <2>1, TierSizes
    <3>2. QED
      BY <2>2, <3>1, Zenon
  <2>5. Len(tier.w2) = Max({d, 1})
    BY <2>1, TierSizes
  <2>6. d <= MaxTier
    <3>1. CASE d = 0
      BY <3>1, MaxTierAssumption
    <3>2. CASE d # 0
      <4> DEFINE e == Members(bits, "down", k)[d]
      <4>1. d \in 1 .. d
        BY <2>2, <3>2
      <4>2. "down" \in Projections
        BY DEF Projections
      <4>3. e \in Experts(bits) /\ Entry(bits, "down", e).local = d - 1
        BY <4>1, <4>2, MembersAre
      <4>4. ~(Entry(bits, "down", e).local >= MaxTier)
        BY <4>2, <4>3 DEF Oversized
      <4> HIDE DEF d, e
      <4>5. QED
        BY <2>2, <4>3, <4>4, MaxTierAssumption
    <3>3. QED
      BY <3>1, <3>2
  <2> HIDE DEF d, tier
  <2>7. Len(tier.w2) \in 1 .. MaxTier
    <3>1. Max({d, 1}) = IF d <= 1 THEN 1 ELSE d
      BY <2>2, MaxTwo
    <3>2. QED
      BY <2>2, <2>5, <2>6, <3>1, MaxTierAssumption
  <2>8. TierStored(tier)
    BY <2>2, <2>3, <2>4, <2>7 DEF TierStored
  <2>9. QED
    BY <2>2, <2>8, EncodedIs DEF Projections, tier
<1>2. QED
  BY <1>1, Zenon DEF Bindable, Places

-----------------------------------------------------------------------------
(* Launches: the four steps of a slice follow each other in a stream.      *)

Scopes == [scope : Owners, draft : BOOLEAN]
ArenaNames ==
    [owner : Scopes, path : {"mixed"}, rows : Nat, block : Nat, tiers : Nat]
    \cup [owner : Scopes, path : {"graph"}, experts : Nat]
    \cup [owner : Scopes, path : {"uniform"}, name : {"decode", "prefill", "parity"},
          experts : Nat]
Works == {"pack", "kernel", "sum", "stage", "clear", "fused", "take"}
Ops == [do : Works, arena : ArenaNames, layer : Nat, from : Nat, to : Nat]

Starts == {"pack", "stage"}
After(do) ==
    CASE do = "pack" -> "kernel" [] do = "kernel" -> "sum" [] do = "sum" -> "take"
      [] do = "stage" -> "clear" [] do = "clear" -> "fused" [] do = "fused" -> "take"
      [] OTHER -> "none"

\* Every launch is followed by the next step over its slice, a last one by a
\* first.
Chained(q) ==
    \A i \in DOMAIN q :
        IF q[i].do = "take" THEN i + 1 \in DOMAIN q => q[i + 1].do \in Starts
        ELSE /\ i + 1 \in DOMAIN q
             /\ q[i + 1].do = After(q[i].do)
             /\ q[i + 1].arena = q[i].arena /\ q[i + 1].layer = q[i].layer
             /\ q[i + 1].from = q[i].from /\ q[i + 1].to = q[i].to
Fresh(q) == Chained(q) /\ (q # <<>> => q[1].do \in Starts)

LEMMA TailIs ==
  ASSUME NEW S, NEW q \in Seq(S), q # <<>>
  PROVE  /\ Tail(q) \in Seq(S) /\ Len(q) \in Nat \ {0} /\ Len(Tail(q)) = Len(q) - 1
         /\ Head(q) = q[1] /\ Head(q) \in S
         /\ \A i \in 1 .. Len(q) - 1 : Tail(q)[i] = q[i + 1]
OBVIOUS

LEMMA JoinIs ==
  ASSUME NEW S, NEW q \in Seq(S), NEW b \in Seq(S)
  PROVE  /\ q \o b \in Seq(S) /\ Len(q \o b) = Len(q) + Len(b)
         /\ Len(q) \in Nat /\ Len(b) \in Nat
         /\ \A i \in 1 .. Len(q) : (q \o b)[i] = q[i]
         /\ \A i \in 1 .. Len(b) : (q \o b)[Len(q) + i] = b[i]
OBVIOUS

LEMMA ChainedTail ==
  ASSUME NEW q \in Seq(Ops), q # <<>>, Chained(q)
  PROVE  Chained(Tail(q))
<1> DEFINE s == Tail(q)
           n == Len(q)
<1>1. /\ s \in Seq(Ops) /\ n \in Nat \ {0} /\ Len(s) = n - 1
      /\ \A i \in 1 .. n - 1 : s[i] = q[i + 1]
  BY TailIs
<1>2. DOMAIN s = 1 .. n - 1 /\ DOMAIN q = 1 .. n
  BY <1>1
<1> HIDE DEF s, n
<1> SUFFICES ASSUME NEW i \in DOMAIN s
             PROVE IF s[i].do = "take" THEN i + 1 \in DOMAIN s => s[i + 1].do \in Starts
                   ELSE /\ i + 1 \in DOMAIN s
                        /\ s[i + 1].do = After(s[i].do)
                        /\ s[i + 1].arena = s[i].arena /\ s[i + 1].layer = s[i].layer
                        /\ s[i + 1].from = s[i].from /\ s[i + 1].to = s[i].to
  BY DEF Chained, s
<1>3. i \in 1 .. n - 1 /\ i + 1 \in DOMAIN q /\ s[i] = q[i + 1]
  BY <1>1, <1>2
<1>4. i + 1 + 1 \in DOMAIN q <=> i + 1 \in DOMAIN s
  BY <1>1, <1>2, <1>3
<1>5. i + 1 \in DOMAIN s => s[i + 1] = q[i + 1 + 1]
  BY <1>1, <1>2
<1>6. IF q[i + 1].do = "take" THEN i + 1 + 1 \in DOMAIN q => q[i + 1 + 1].do \in Starts
      ELSE /\ i + 1 + 1 \in DOMAIN q
           /\ q[i + 1 + 1].do = After(q[i + 1].do)
           /\ q[i + 1 + 1].arena = q[i + 1].arena /\ q[i + 1 + 1].layer = q[i + 1].layer
           /\ q[i + 1 + 1].from = q[i + 1].from /\ q[i + 1 + 1].to = q[i + 1].to
  BY <1>3 DEF Chained
<1>7. QED
  BY <1>3, <1>4, <1>5, <1>6

LEMMA ChainedJoin ==
  ASSUME NEW q \in Seq(Ops), NEW b \in Seq(Ops), Chained(q), Fresh(b)
  PROVE  Chained(q \o b)
<1> DEFINE s == q \o b
           n == Len(q)
           k == Len(b)
<1>1. /\ s \in Seq(Ops) /\ n \in Nat /\ k \in Nat /\ Len(s) = n + k
      /\ \A i \in 1 .. n : s[i] = q[i]
      /\ \A i \in 1 .. k : s[n + i] = b[i]
  BY JoinIs
<1>2. DOMAIN s = 1 .. n + k /\ DOMAIN q = 1 .. n /\ DOMAIN b = 1 .. k
  BY <1>1
<1>3. k > 0 => b # <<>>
  OBVIOUS
<1> HIDE DEF s, n, k
<1> SUFFICES ASSUME NEW i \in DOMAIN s
             PROVE IF s[i].do = "take" THEN i + 1 \in DOMAIN s => s[i + 1].do \in Starts
                   ELSE /\ i + 1 \in DOMAIN s
                        /\ s[i + 1].do = After(s[i].do)
                        /\ s[i + 1].arena = s[i].arena /\ s[i + 1].layer = s[i].layer
                        /\ s[i + 1].from = s[i].from /\ s[i + 1].to = s[i].to
  BY DEF Chained, s
<1>4. i \in Nat
  BY <1>1, <1>2
<1>5. CASE i < n
  <2>1. i \in DOMAIN q /\ i + 1 \in DOMAIN q /\ i + 1 \in DOMAIN s /\ s[i] = q[i] /\ s[i + 1] = q[i + 1]
    BY <1>1, <1>2, <1>4, <1>5
  <2>2. QED
    BY <2>1 DEF Chained
<1>6. CASE i = n
  <2>1. i \in DOMAIN q /\ i + 1 \notin DOMAIN q /\ s[i] = q[i]
    BY <1>1, <1>2, <1>6
  <2>2. s[i].do = "take"
    BY <2>1 DEF Chained
  <2>3. ASSUME i + 1 \in DOMAIN s PROVE s[i + 1].do \in Starts
    <3>1. k > 0 /\ 1 \in 1 .. k
      BY <1>1, <1>2, <1>6, <2>3
    <3>2. s[i + 1] = b[1]
      BY <1>1, <1>6, <3>1
    <3>3. QED
      BY <1>3, <3>1, <3>2 DEF Fresh
  <2>4. QED
    BY <2>2, <2>3
<1>7. CASE i > n
  <2>1. PICK j \in 1 .. k : i = n + j
    <3>1. i - n \in 1 .. k /\ i = n + (i - n)
      BY <1>1, <1>2, <1>4, <1>7
    <3>2. QED
      BY <3>1
  <2>2. s[i] = b[j] /\ (j + 1 \in DOMAIN b => s[i + 1] = b[j + 1])
        /\ (j + 1 \in DOMAIN b <=> i + 1 \in DOMAIN s) /\ j \in DOMAIN b
    <3>1. i + 1 = n + (j + 1)
      BY <1>1, <2>1
    <3>2. QED
      BY <1>1, <1>2, <2>1, <3>1
  <2>3. IF b[j].do = "take" THEN j + 1 \in DOMAIN b => b[j + 1].do \in Starts
        ELSE /\ j + 1 \in DOMAIN b
             /\ b[j + 1].do = After(b[j].do)
             /\ b[j + 1].arena = b[j].arena /\ b[j + 1].layer = b[j].layer
             /\ b[j + 1].from = b[j].from /\ b[j + 1].to = b[j].to
    BY <2>2 DEF Fresh, Chained
  <2>4. QED
    BY <2>2, <2>3
<1>8. QED
  BY <1>1, <1>4, <1>5, <1>6, <1>7

LEMMA FreshJoin ==
  ASSUME NEW q \in Seq(Ops), NEW b \in Seq(Ops), Fresh(q), Fresh(b)
  PROVE  Fresh(q \o b)
<1>1. Chained(q \o b)
  BY ChainedJoin DEF Fresh
<1>2. ASSUME q \o b # <<>> PROVE (q \o b)[1].do \in Starts
  <2>1. CASE q = <<>>
    <3>1. q \o b = b
      BY <2>1
    <3>2. QED
      BY <1>2, <3>1 DEF Fresh
  <2>2. CASE q # <<>>
    <3>1. Len(q) \in Nat /\ Len(q) # 0
      BY <2>2
    <3>2. (q \o b)[1] = q[1]
      BY <3>1, JoinIs
    <3>3. QED
      BY <2>2, <3>2 DEF Fresh
  <2>3. QED
    BY <2>1, <2>2
<1>3. QED
  BY <1>1, <1>2 DEF Fresh

-----------------------------------------------------------------------------
(* Slices: a batch cut up in row order, and what it makes of Launches.     *)

Sliced(sl, m) ==
    /\ sl \in Seq(Nat \X Nat)
    /\ \A i \in 1 .. Len(sl) : 1 <= sl[i][1] /\ sl[i][1] <= sl[i][2] /\ sl[i][2] <= m
    /\ \A i, j \in 1 .. Len(sl) : i < j => sl[i][2] < sl[j][1]
    /\ \A r \in 1 .. m : \E i \in 1 .. Len(sl) : sl[i][1] <= r /\ r <= sl[i][2]

LEMMA OneSlice ==
  ASSUME NEW m \in Nat \ {0}
  PROVE  Sliced(<<<<1, m>>>>, m)
<1>1. <<<<1, m>>>> \in Seq(Nat \X Nat) /\ Len(<<<<1, m>>>>) = 1
  OBVIOUS
<1>2. QED
  BY <1>1 DEF Sliced

LEMMA CeilingIs ==
  ASSUME NEW m \in Nat \ {0}, NEW n \in Nat \ {0}
  PROVE  LET k == (m + n - 1) \div n
         IN k \in Nat \ {0} /\ (k - 1) * n < m /\ m <= k * n
<1>1. m + n - 1 \in Nat
  OBVIOUS
<1> DEFINE x == m + n - 1
           k == x \div n
           c == x % n
<1>2. k \in Nat /\ x = n * k + c /\ c \in 0 .. n - 1
  BY <1>1
<1> HIDE DEF k, c
<1>3. n * k \in Nat /\ n * k = k * n /\ (k - 1) * n = k * n - n
  BY <1>2
<1>4. k # 0
  BY <1>2
<1>5. QED
  BY <1>2, <1>3, <1>4 DEF k

LEMMA PlaceIn ==
  ASSUME NEW r \in Nat \ {0}, NEW n \in Nat \ {0}
  PROVE  \E i \in Nat \ {0} : (i - 1) * n + 1 <= r /\ r <= i * n
<1> DEFINE k == (r + n - 1) \div n
<1>1. k \in Nat \ {0} /\ (k - 1) * n < r /\ r <= k * n
  BY CeilingIs
<1> HIDE DEF k
<1>2. (k - 1) * n \in Int
  BY <1>1
<1>3. (k - 1) * n + 1 <= r
  BY <1>1, <1>2
<1>4. QED
  BY <1>1, <1>3

LEMMA TimesUp ==
  ASSUME NEW a \in Int, NEW b \in Int, a <= b, NEW n \in Nat
  PROVE  a * n <= b * n /\ a * n \in Int /\ b * n \in Int
<1>1. PICK d \in Nat : b = a + d
  <2>1. b - a \in Nat /\ b = a + (b - a)
    OBVIOUS
  <2>2. QED
    BY <2>1
<1>2. b * n = a * n + d * n
  BY <1>1
<1>3. d * n \in Nat /\ a * n \in Int
  BY <1>1
<1>4. QED
  BY <1>2, <1>3

LEMMA SlicesSliced ==
  ASSUME NEW m \in Nat \ {0}, NEW n \in Nat \ {0}
  PROVE  /\ Sliced(Slices(m, n), m)
         /\ \A i \in 1 .. Len(Slices(m, n)) : Slices(m, n)[i][2] - Slices(m, n)[i][1] + 1 \in 1 .. n
<1> DEFINE k == (m + n - 1) \div n
           sl == Slices(m, n)
<1>1. k \in Nat \ {0} /\ (k - 1) * n < m /\ m <= k * n
  BY CeilingIs
<1>2. sl = [i \in 1 .. k |-> <<(i - 1) * n + 1, Min({i * n, m})>>]
  BY DEF Slices
<1> HIDE DEF k, sl
<1>3. ASSUME NEW i \in 1 .. k
      PROVE  /\ sl[i][1] = (i - 1) * n + 1 /\ sl[i][2] = (IF i * n <= m THEN i * n ELSE m)
             /\ (i - 1) * n \in Nat /\ i * n \in Nat /\ i * n = (i - 1) * n + n
             /\ (i - 1) * n < m
  <2>1. i - 1 \in Nat /\ i \in Nat /\ i - 1 <= k - 1 /\ k - 1 \in Int
    BY <1>1
  <2>2. (i - 1) * n \in Nat /\ i * n \in Nat /\ i * n = (i - 1) * n + n
    BY <2>1
  <2>3. (i - 1) * n <= (k - 1) * n /\ (k - 1) * n \in Int
    BY <2>1, TimesUp
  <2>4. Min({i * n, m}) = IF i * n <= m THEN i * n ELSE m
    BY <2>2, MinTwo
  <2>5. sl[i] = <<(i - 1) * n + 1, Min({i * n, m})>>
    BY <1>2
  <2>6. QED
    BY <1>1, <2>2, <2>3, <2>4, <2>5
<1>4. \A i \in 1 .. k : sl[i] \in Nat \X Nat
  <2> TAKE i \in 1 .. k
  <2>1. sl[i] = <<(i - 1) * n + 1, Min({i * n, m})>>
    BY <1>2
  <2>2. (i - 1) * n + 1 \in Nat
    BY <1>3
  <2>3. Min({i * n, m}) \in Nat
    <3>1. i * n \in Nat
      BY <1>3
    <3>2. QED
      BY <3>1, MinTwo
  <2>4. QED
    BY <2>1, <2>2, <2>3
<1>5. sl \in Seq(Nat \X Nat) /\ Len(sl) = k
  <2> DEFINE T == Nat \X Nat
  <2>1. DOMAIN sl = 1 .. k /\ sl = [i \in 1 .. k |-> sl[i]]
    BY <1>2
  <2>2. \A i \in 1 .. k : sl[i] \in T
    BY <1>4
  <2> HIDE DEF T
  <2>3. sl \in Seq(T) /\ Len(sl) = k
    BY <1>1, <2>1, <2>2
  <2>4. QED
    BY <2>3 DEF T
<1>6. ASSUME NEW i \in 1 .. k
      PROVE  /\ 1 <= sl[i][1] /\ sl[i][1] <= sl[i][2] /\ sl[i][2] <= m
             /\ sl[i][2] - sl[i][1] + 1 \in 1 .. n
  BY <1>3
<1>7. ASSUME NEW i \in 1 .. k, NEW j \in 1 .. k, i < j
      PROVE  sl[i][2] < sl[j][1]
  <2>1. i \in Int /\ j - 1 \in Int /\ i <= j - 1
    BY <1>1, <1>7
  <2>2. i * n <= (j - 1) * n
    BY <2>1, TimesUp
  <2>3. sl[i][2] <= i * n /\ sl[i][2] \in Int /\ sl[j][1] = (j - 1) * n + 1
        /\ (j - 1) * n \in Int /\ i * n \in Int
    BY <1>3
  <2>4. QED
    BY <2>2, <2>3
<1>8. ASSUME NEW r \in 1 .. m
      PROVE  \E i \in 1 .. k : sl[i][1] <= r /\ r <= sl[i][2]
  <2>1. PICK i \in Nat \ {0} : (i - 1) * n + 1 <= r /\ r <= i * n
    <3>1. r \in Nat \ {0}
      BY <1>1
    <3>2. QED
      BY <3>1, PlaceIn
  <2>2. i <= k
    <3> SUFFICES ASSUME k <= i - 1 PROVE FALSE
      BY <1>1
    <3>1. k * n <= (i - 1) * n /\ (i - 1) * n \in Int /\ k * n \in Int
      BY <1>1, TimesUp
    <3>2. QED
      BY <1>1, <2>1, <3>1
  <2>3. i \in 1 .. k
    BY <1>1, <2>2
  <2>4. QED
    BY <1>3, <2>1, <2>3
<1>9. QED
  BY <1>5, <1>6, <1>7, <1>8 DEF Sliced, sl

-----------------------------------------------------------------------------
(* What the launches of a stream, or of a graph, are for: they stay with   *)
(* one model's arenas, layers and rows; and of a layer that is part of the  *)
(* call every row has been taken, or is going to be, once.                 *)

Own(q, keys, tokens, layers, m) ==
    \A i \in DOMAIN q :
        /\ q[i].arena \in keys /\ q[i].arena.owner \in tokens /\ q[i].layer \in layers
        /\ 1 <= q[i].from /\ q[i].from <= q[i].to /\ q[i].to <= m

Takes(q, i, l) == q[i].do = "take" /\ q[i].layer = l

Cut(q, T, l, m) ==
    /\ \A r \in 1 .. m :
          \/ \E t \in T : t.layer = l /\ t.from <= r /\ r <= t.to
          \/ \E i \in DOMAIN q : Takes(q, i, l) /\ q[i].from <= r /\ r <= q[i].to
    /\ \A i, j \in DOMAIN q : Takes(q, i, l) /\ Takes(q, j, l) /\ i < j => q[i].to < q[j].from
    /\ \A t \in T, i \in DOMAIN q : t.layer = l /\ Takes(q, i, l) => t.to < q[i].from
    /\ \A t, u \in T : t.layer = l /\ u.layer = l => t = u \/ t.to < u.from \/ u.to < t.from

Untouched(q, T, l) == (\A i \in DOMAIN q : q[i].layer # l) /\ (\A t \in T : t.layer # l)

Answers == [layer : Nat, from : Nat, to : Nat, of : SUBSET (Owners \X Nat \X Nat \X Nat)]

LEMMA OwnTail ==
  ASSUME NEW q \in Seq(Ops), q # <<>>, NEW keys, NEW token, NEW layers, NEW m,
         Own(q, keys, token, layers, m)
  PROVE  Own(Tail(q), keys, token, layers, m)
<1>1. DOMAIN Tail(q) = 1 .. Len(q) - 1 /\ DOMAIN q = 1 .. Len(q)
      /\ \A i \in 1 .. Len(q) - 1 : Tail(q)[i] = q[i + 1] /\ i + 1 \in 1 .. Len(q)
  BY TailIs
<1>2. QED
  BY <1>1 DEF Own

LEMMA OwnJoin ==
  ASSUME NEW q \in Seq(Ops), NEW b \in Seq(Ops), NEW keys, NEW token, NEW layers, NEW m,
         Own(q, keys, token, layers, m), Own(b, keys, token, layers, m)
  PROVE  Own(q \o b, keys, token, layers, m)
<1> DEFINE s == q \o b
<1>1. /\ Len(q) \in Nat /\ Len(b) \in Nat /\ Len(s) = Len(q) + Len(b) /\ s \in Seq(Ops)
      /\ \A i \in 1 .. Len(q) : s[i] = q[i]
      /\ \A i \in 1 .. Len(b) : s[Len(q) + i] = b[i]
  BY JoinIs
<1>2. DOMAIN s = 1 .. Len(q) + Len(b) /\ DOMAIN q = 1 .. Len(q) /\ DOMAIN b = 1 .. Len(b)
  BY <1>1
<1>3. \A i \in DOMAIN s : (i \in DOMAIN q /\ s[i] = q[i]) \/ \E j \in DOMAIN b : s[i] = b[j]
  <2> HIDE DEF s
  <2> TAKE i \in DOMAIN s
  <2>1. CASE i <= Len(q)
    BY <1>1, <1>2, <2>1
  <2>2. CASE ~(i <= Len(q))
    <3>1. i - Len(q) \in 1 .. Len(b) /\ i = Len(q) + (i - Len(q))
      BY <1>1, <1>2, <2>2
    <3>2. QED
      BY <1>1, <1>2, <3>1
  <2>3. QED
    BY <2>1, <2>2
<1> HIDE DEF s
<1>4. QED
  BY <1>3 DEF Own, s

LEMMA OwnMore ==
  ASSUME NEW q, NEW keys, NEW more, keys \subseteq more, NEW token, NEW layers, NEW m,
         Own(q, keys, token, layers, m)
  PROVE  Own(q, more, token, layers, m)
BY DEF Own

LEMMA CutJoinOther ==
  ASSUME NEW q \in Seq(Ops), NEW b \in Seq(Ops), NEW T, NEW l, NEW m,
         Cut(q, T, l, m), \A i \in DOMAIN b : b[i].layer # l
  PROVE  Cut(q \o b, T, l, m)
<1> DEFINE s == q \o b
<1>1. /\ Len(q) \in Nat /\ Len(b) \in Nat /\ Len(s) = Len(q) + Len(b) /\ s \in Seq(Ops)
      /\ \A i \in 1 .. Len(q) : s[i] = q[i]
      /\ \A i \in 1 .. Len(b) : s[Len(q) + i] = b[i]
  BY JoinIs
<1>2. DOMAIN s = 1 .. Len(q) + Len(b) /\ DOMAIN q = 1 .. Len(q) /\ DOMAIN b = 1 .. Len(b)
  BY <1>1
<1> HIDE DEF s
<1>3. \A i \in DOMAIN s : Takes(s, i, l) => i \in DOMAIN q /\ Takes(q, i, l) /\ s[i] = q[i]
  <2> SUFFICES ASSUME NEW i \in DOMAIN s, Takes(s, i, l)
               PROVE  i \in DOMAIN q /\ Takes(q, i, l) /\ s[i] = q[i]
    OBVIOUS
  <2>1. CASE i <= Len(q)
    BY <1>1, <1>2, <2>1 DEF Takes
  <2>2. CASE ~(i <= Len(q))
    <3>1. i - Len(q) \in 1 .. Len(b) /\ i = Len(q) + (i - Len(q))
      BY <1>1, <1>2, <2>2
    <3>2. s[i] = b[i - Len(q)]
      BY <1>1, <3>1
    <3>3. QED
      BY <1>2, <3>1, <3>2 DEF Takes
  <2>3. QED
    BY <2>1, <2>2
<1>4. \A i \in DOMAIN q : i \in DOMAIN s /\ s[i] = q[i] /\ (Takes(q, i, l) => Takes(s, i, l))
  BY <1>1, <1>2 DEF Takes
<1>5. QED
  BY <1>3, <1>4 DEF Cut, s

LEMMA CutJoinOwn ==
  ASSUME NEW q \in Seq(Ops), NEW b \in Seq(Ops), NEW T, NEW l, NEW m,
         Untouched(q, T, l), Cut(b, {}, l, m)
  PROVE  Cut(q \o b, T, l, m)
<1> DEFINE s == q \o b
           n == Len(q)
<1>1. /\ n \in Nat /\ Len(b) \in Nat /\ Len(s) = n + Len(b) /\ s \in Seq(Ops)
      /\ \A i \in 1 .. n : s[i] = q[i]
      /\ \A i \in 1 .. Len(b) : s[n + i] = b[i]
  BY JoinIs
<1>2. DOMAIN s = 1 .. n + Len(b) /\ DOMAIN q = 1 .. n /\ DOMAIN b = 1 .. Len(b)
  BY <1>1
<1> HIDE DEF s, n
<1>3. \A i \in DOMAIN s : Takes(s, i, l) =>
        /\ i - n \in DOMAIN b /\ Takes(b, i - n, l) /\ s[i] = b[i - n]
  <2> SUFFICES ASSUME NEW i \in DOMAIN s, Takes(s, i, l)
               PROVE  i - n \in DOMAIN b /\ Takes(b, i - n, l) /\ s[i] = b[i - n]
    OBVIOUS
  <2>1. ~(i <= n)
    BY <1>1, <1>2 DEF Takes, Untouched
  <2>2. i - n \in 1 .. Len(b) /\ i = n + (i - n)
    BY <1>1, <1>2, <2>1
  <2>3. QED
    BY <1>1, <1>2, <2>2 DEF Takes
<1>4. \A i \in DOMAIN b : n + i \in DOMAIN s /\ s[n + i] = b[i] /\ (Takes(b, i, l) => Takes(s, n + i, l))
  BY <1>1, <1>2 DEF Takes
<1>5. \A r \in 1 .. m : \E i \in DOMAIN s : Takes(s, i, l) /\ s[i].from <= r /\ r <= s[i].to
  <2> TAKE r \in 1 .. m
  <2>1. PICK i \in DOMAIN b : Takes(b, i, l) /\ b[i].from <= r /\ r <= b[i].to
    BY DEF Cut
  <2>2. QED
    BY <1>4, <2>1
<1>6. \A i, j \in DOMAIN s : Takes(s, i, l) /\ Takes(s, j, l) /\ i < j => s[i].to < s[j].from
  <2> SUFFICES ASSUME NEW i \in DOMAIN s, NEW j \in DOMAIN s,
                      Takes(s, i, l), Takes(s, j, l), i < j
               PROVE  s[i].to < s[j].from
    OBVIOUS
  <2>1. i - n < j - n
    BY <1>1, <1>2
  <2>2. QED
    BY <1>3, <2>1 DEF Cut
<1>7. QED
  BY <1>5, <1>6 DEF Cut, Untouched, s

LEMMA UntouchedJoin ==
  ASSUME NEW q \in Seq(Ops), NEW b \in Seq(Ops), NEW T, NEW l,
         Untouched(q, T, l), \A i \in DOMAIN b : b[i].layer # l
  PROVE  Untouched(q \o b, T, l)
<1> DEFINE s == q \o b
<1>1. /\ Len(q) \in Nat /\ Len(b) \in Nat /\ Len(s) = Len(q) + Len(b) /\ s \in Seq(Ops)
      /\ \A i \in 1 .. Len(q) : s[i] = q[i]
      /\ \A i \in 1 .. Len(b) : s[Len(q) + i] = b[i]
  BY JoinIs
<1>2. DOMAIN s = 1 .. Len(q) + Len(b) /\ DOMAIN q = 1 .. Len(q) /\ DOMAIN b = 1 .. Len(b)
  BY <1>1
<1> HIDE DEF s
<1>3. ASSUME NEW i \in DOMAIN s PROVE s[i].layer # l
  <2>1. CASE i <= Len(q)
    BY <1>1, <1>2, <2>1 DEF Untouched
  <2>2. CASE ~(i <= Len(q))
    <3>1. i - Len(q) \in 1 .. Len(b) /\ i = Len(q) + (i - Len(q))
      BY <1>1, <1>2, <2>2
    <3>2. QED
      BY <1>1, <1>2, <3>1
  <2>3. QED
    BY <2>1, <2>2
<1>4. QED
  BY <1>3 DEF Untouched, s

\* A launch that takes nothing of the layer leaves the stream.
LEMMA CutTail ==
  ASSUME NEW q \in Seq(Ops), q # <<>>, NEW T, NEW l, NEW m, Cut(q, T, l, m), ~Takes(q, 1, l)
  PROVE  Cut(Tail(q), T, l, m)
<1> DEFINE s == Tail(q)
           n == Len(q)
<1>1. n \in Nat \ {0} /\ DOMAIN s = 1 .. n - 1 /\ DOMAIN q = 1 .. n
      /\ \A i \in 1 .. n - 1 : s[i] = q[i + 1]
  BY TailIs
<1> HIDE DEF s, n
<1>2. \A i \in DOMAIN s : i \in Int /\ i + 1 \in DOMAIN q /\ s[i] = q[i + 1]
                          /\ (Takes(s, i, l) <=> Takes(q, i + 1, l))
  BY <1>1 DEF Takes
<1>3. \A i \in DOMAIN q : Takes(q, i, l) => \E j \in DOMAIN s : j + 1 = i
  <2> SUFFICES ASSUME NEW i \in DOMAIN q, Takes(q, i, l) PROVE \E j \in DOMAIN s : j + 1 = i
    OBVIOUS
  <2>1. i # 1
    OBVIOUS
  <2>2. i - 1 \in DOMAIN s /\ i - 1 + 1 = i
    BY <1>1, <2>1
  <2>3. QED
    BY <2>2
<1>4. \A r \in 1 .. m :
          \/ \E t \in T : t.layer = l /\ t.from <= r /\ r <= t.to
          \/ \E i \in DOMAIN s : Takes(s, i, l) /\ s[i].from <= r /\ r <= s[i].to
  <2> SUFFICES ASSUME NEW r \in 1 .. m, ~\E t \in T : t.layer = l /\ t.from <= r /\ r <= t.to
               PROVE  \E i \in DOMAIN s : Takes(s, i, l) /\ s[i].from <= r /\ r <= s[i].to
    OBVIOUS
  <2>1. PICK i \in DOMAIN q : Takes(q, i, l) /\ q[i].from <= r /\ r <= q[i].to
    BY DEF Cut
  <2>2. PICK j \in DOMAIN s : j + 1 = i
    BY <1>3, <2>1
  <2>3. QED
    BY <1>2, <2>1, <2>2
<1>5. \A i, j \in DOMAIN s : Takes(s, i, l) /\ Takes(s, j, l) /\ i < j => s[i].to < s[j].from
  <2> SUFFICES ASSUME NEW i \in DOMAIN s, NEW j \in DOMAIN s,
                      Takes(s, i, l), Takes(s, j, l), i < j
               PROVE  s[i].to < s[j].from
    OBVIOUS
  <2>1. i + 1 < j + 1
    BY <1>2
  <2>2. QED
    BY <1>2, <2>1 DEF Cut
<1>6. \A t \in T, i \in DOMAIN s : t.layer = l /\ Takes(s, i, l) => t.to < s[i].from
  BY <1>2 DEF Cut
<1>7. QED
  BY <1>4, <1>5, <1>6 DEF Cut, s

\* A launch that takes a slice of the layer leaves it among the answers.
LEMMA CutTake ==
  ASSUME NEW q \in Seq(Ops), q # <<>>, NEW T, NEW l, NEW m, Cut(q, T, l, m), Takes(q, 1, l),
         NEW u, u.layer = l, u.from = q[1].from, u.to = q[1].to
  PROVE  Cut(Tail(q), T \cup {u}, l, m)
<1> DEFINE s == Tail(q)
           n == Len(q)
<1>1. n \in Nat \ {0} /\ DOMAIN s = 1 .. n - 1 /\ DOMAIN q = 1 .. n
      /\ \A i \in 1 .. n - 1 : s[i] = q[i + 1]
  BY TailIs
<1> HIDE DEF s, n
<1>2. \A i \in DOMAIN s : i \in Int /\ i + 1 \in DOMAIN q /\ s[i] = q[i + 1] /\ 1 < i + 1
                          /\ (Takes(s, i, l) <=> Takes(q, i + 1, l))
  BY <1>1 DEF Takes
<1>3. \A i \in DOMAIN q : i # 1 => \E j \in DOMAIN s : j + 1 = i
  <2> SUFFICES ASSUME NEW i \in DOMAIN q, i # 1 PROVE \E j \in DOMAIN s : j + 1 = i
    OBVIOUS
  <2>1. i - 1 \in DOMAIN s /\ i - 1 + 1 = i
    BY <1>1
  <2>2. QED
    BY <2>1
<1>4. \A r \in 1 .. m :
          \/ \E t \in T \cup {u} : t.layer = l /\ t.from <= r /\ r <= t.to
          \/ \E i \in DOMAIN s : Takes(s, i, l) /\ s[i].from <= r /\ r <= s[i].to
  <2> SUFFICES ASSUME NEW r \in 1 .. m,
                      ~\E t \in T \cup {u} : t.layer = l /\ t.from <= r /\ r <= t.to
               PROVE  \E i \in DOMAIN s : Takes(s, i, l) /\ s[i].from <= r /\ r <= s[i].to
    OBVIOUS
  <2>1. PICK i \in DOMAIN q : Takes(q, i, l) /\ q[i].from <= r /\ r <= q[i].to
    BY DEF Cut
  <2>2. i # 1
    BY <2>1
  <2>3. PICK j \in DOMAIN s : j + 1 = i
    BY <1>3, <2>2
  <2>4. QED
    BY <1>2, <2>1, <2>3
<1>5. \A i, j \in DOMAIN s : Takes(s, i, l) /\ Takes(s, j, l) /\ i < j => s[i].to < s[j].from
  <2> SUFFICES ASSUME NEW i \in DOMAIN s, NEW j \in DOMAIN s,
                      Takes(s, i, l), Takes(s, j, l), i < j
               PROVE  s[i].to < s[j].from
    OBVIOUS
  <2>1. i + 1 < j + 1
    BY <1>2
  <2>2. QED
    BY <1>2, <2>1 DEF Cut
<1>6. \A t \in T \cup {u}, i \in DOMAIN s : t.layer = l /\ Takes(s, i, l) => t.to < s[i].from
  <2> SUFFICES ASSUME NEW t \in T \cup {u}, NEW i \in DOMAIN s, t.layer = l, Takes(s, i, l)
               PROVE  t.to < s[i].from
    OBVIOUS
  <2>1. 1 \in DOMAIN q
    BY <1>1
  <2>2. CASE t = u
    BY <1>2, <2>1, <2>2 DEF Cut
  <2>3. CASE t \in T
    BY <1>2, <2>3 DEF Cut
  <2>4. QED
    BY <2>2, <2>3
<1>7. \A t, v \in T \cup {u} : t.layer = l /\ v.layer = l => t = v \/ t.to < v.from \/ v.to < t.from
  <2>1. 1 \in DOMAIN q
    BY <1>1
  <2>2. \A t \in T : t.layer = l => t.to < u.from
    BY <2>1 DEF Cut
  <2>3. \A t, v \in T : t.layer = l /\ v.layer = l => t = v \/ t.to < v.from \/ v.to < t.from
    BY DEF Cut
  <2>4. QED
    BY <2>2, <2>3
<1>8. QED
  BY <1>4, <1>5, <1>6, <1>7 DEF Cut, s

\* An answer of another layer.
LEMMA CutOther ==
  ASSUME NEW q, NEW T, NEW l, NEW m, Cut(q, T, l, m), NEW u, u.layer # l
  PROVE  Cut(q, T \cup {u}, l, m)
BY DEF Cut

LEMMA UntouchedTail ==
  ASSUME NEW q \in Seq(Ops), q # <<>>, NEW T, NEW l, Untouched(q, T, l)
  PROVE  Untouched(Tail(q), T, l) /\ q[1].layer # l
<1>1. DOMAIN Tail(q) = 1 .. Len(q) - 1 /\ DOMAIN q = 1 .. Len(q) /\ Len(q) \in Nat \ {0}
      /\ \A i \in 1 .. Len(q) - 1 : Tail(q)[i] = q[i + 1] /\ i + 1 \in 1 .. Len(q)
  BY TailIs
<1>2. 1 \in DOMAIN q
  BY <1>1
<1>3. QED
  BY <1>1, <1>2 DEF Untouched

-----------------------------------------------------------------------------
(* The launches of a layer.                                                *)

LEMMA StepsAre ==
  ASSUME NEW steps \in {MixedSteps, GraphSteps}
  PROVE  /\ \A r \in 1 .. 4 : steps[r] \in Works
         /\ steps[1] \in Starts /\ steps[1] # "take" /\ steps[2] # "take" /\ steps[3] # "take"
         /\ steps[4] = "take"
         /\ steps[2] = After(steps[1]) /\ steps[3] = After(steps[2]) /\ steps[4] = After(steps[3])
<1>1. CASE steps = MixedSteps
  <2>1. /\ steps[1] = "pack" /\ steps[2] = "kernel" /\ steps[3] = "sum" /\ steps[4] = "take"
    BY <1>1 DEF MixedSteps
  <2>2. \A r \in 1 .. 4 : r = 1 \/ r = 2 \/ r = 3 \/ r = 4
    OBVIOUS
  <2>3. QED
    BY <2>1, <2>2 DEF Works, Starts, After
<1>2. CASE steps = GraphSteps
  <2>1. /\ steps[1] = "stage" /\ steps[2] = "clear" /\ steps[3] = "fused" /\ steps[4] = "take"
    BY <1>2 DEF GraphSteps
  <2>2. \A r \in 1 .. 4 : r = 1 \/ r = 2 \/ r = 3 \/ r = 4
    OBVIOUS
  <2>3. QED
    BY <2>1, <2>2 DEF Works, Starts, After
<1>3. QED
  BY <1>1, <1>2

LEMMA ByFour ==
  ASSUME NEW x \in Nat
  PROVE  x \div 4 \in Nat /\ x % 4 \in 0 .. 3 /\ x = 4 * (x \div 4) + (x % 4)
OBVIOUS

LEMMA FourOnce ==
  ASSUME NEW x \in Nat, NEW k \in Nat, NEW c \in 0 .. 3, x = 4 * k + c
  PROVE  x \div 4 = k /\ x % 4 = c
<1> DEFINE d == x \div 4
           e == x % 4
<1>1. d \in Nat /\ e \in 0 .. 3 /\ x = 4 * d + e
  BY ByFour
<1> HIDE DEF d, e
<1>2. d = k /\ e = c
  BY <1>1
<1>3. QED
  BY <1>2 DEF d, e

LEMMA LaunchesAre ==
  ASSUME NEW steps \in {MixedSteps, GraphSteps}, NEW key \in ArenaNames, NEW l \in Nat,
         NEW m \in Nat, NEW sl, Sliced(sl, m), NEW keys, key \in keys, NEW layers, l \in layers
  PROVE  LET b == Launches(steps, key, l, sl)
         IN /\ b \in Seq(Ops)
            /\ Fresh(b)
            /\ \A tokens : key.owner \in tokens => Own(b, keys, tokens, layers, m)
            /\ \A i \in DOMAIN b : b[i].layer = l
            /\ Cut(b, {}, l, m)
<1> DEFINE b == Launches(steps, key, l, sl)
           n == Len(sl)
           J(i) == ((i - 1) \div 4) + 1
           R(i) == ((i - 1) % 4) + 1
<1>1. n \in Nat /\ sl \in Seq(Nat \X Nat)
  BY DEF Sliced
<1>2. b = [i \in 1 .. 4 * n |-> Op(steps[R(i)], key, l, sl[J(i)])]
  BY DEF Launches
<1>3. ASSUME NEW i \in 1 .. 4 * n
      PROVE  J(i) \in 1 .. n /\ R(i) \in 1 .. 4 /\ i = 4 * (J(i) - 1) + R(i) /\ J(i) \in Int /\ R(i) \in Int
  <2> DEFINE x == i - 1
             k == x \div 4
             c == x % 4
  <2>1. x \in Nat /\ i = x + 1 /\ i <= 4 * n
    OBVIOUS
  <2> HIDE DEF n, x
  <2>2. k \in Nat /\ c \in 0 .. 3 /\ x = 4 * k + c
    BY <2>1, ByFour
  <2>3. J(i) = k + 1 /\ R(i) = c + 1
    BY DEF x
  <2> HIDE DEF k, c, J, R
  <2>4. k + 1 \in 1 .. n /\ c + 1 \in 1 .. 4 /\ i = 4 * ((k + 1) - 1) + (c + 1)
        /\ k + 1 \in Int /\ c + 1 \in Int
    BY <1>1, <2>1, <2>2
  <2>5. QED
    BY <2>3, <2>4
<1> HIDE DEF n, b, J, R
<1>4. ASSUME NEW i \in 1 .. 4 * n
      PROVE  /\ b[i].do = steps[R(i)] /\ b[i].arena = key /\ b[i].layer = l
             /\ b[i].from = sl[J(i)][1] /\ b[i].to = sl[J(i)][2]
             /\ b[i] \in Ops
  <2>1. b[i] = Op(steps[R(i)], key, l, sl[J(i)])
    BY <1>2
  <2>2. steps[R(i)] \in Works
    BY <1>3, StepsAre
  <2>3. sl[J(i)][1] \in Nat /\ sl[J(i)][2] \in Nat
    <3>1. J(i) \in 1 .. Len(sl)
      BY <1>3 DEF n
    <3>2. sl[J(i)] \in Nat \X Nat
      BY <1>1, <3>1
    <3>3. QED
      BY <3>2
  <2>4. QED
    BY <2>1, <2>2, <2>3 DEF Op, Ops
<1>5. DOMAIN b = 1 .. 4 * n /\ b = [i \in 1 .. 4 * n |-> b[i]]
  BY <1>2
<1>6. b \in Seq(Ops)
  <2>1. \A i \in 1 .. 4 * n : b[i] \in Ops
    BY <1>4
  <2>2. 4 * n \in Nat
    BY <1>1
  <2>3. QED
    BY <1>5, <2>1, <2>2
\* The step after a step that takes nothing is in the same slice.
<1>7. ASSUME NEW i \in 1 .. 4 * n, R(i) # 4
      PROVE  i + 1 \in 1 .. 4 * n /\ J(i + 1) = J(i) /\ R(i + 1) = R(i) + 1
  <2>1. i + 1 \in 1 .. 4 * n
    <3>1. i = 4 * (J(i) - 1) + R(i) /\ J(i) \in 1 .. n /\ R(i) \in 1 .. 4
      BY <1>3
    <3> DEFINE x == J(i)
               y == R(i)
    <3>2. i = 4 * (x - 1) + y /\ x \in 1 .. n /\ y \in 1 .. 4 /\ y # 4
      BY <3>1, <1>7
    <3> HIDE DEF x, y
    <3>3. QED
      BY <1>1, <3>2
  <2> DEFINE k == (i - 1) \div 4
             c == (i - 1) % 4
  <2>2. i - 1 \in Nat /\ i \in Nat
    OBVIOUS
  <2>3. k \in Nat /\ c \in 0 .. 3 /\ i - 1 = 4 * k + c
    BY <2>2, ByFour
  <2>4. J(i) = k + 1 /\ R(i) = c + 1
    BY DEF J, R
  <2> HIDE DEF k, c
  <2>5. c + 1 \in 0 .. 3 /\ i = 4 * k + (c + 1)
    BY <1>7, <2>2, <2>3, <2>4
  <2>6. i \div 4 = k /\ i % 4 = c + 1
    BY <2>2, <2>3, <2>5, FourOnce
  <2>7. i + 1 - 1 = i
    BY <2>2
  <2>8. J(i + 1) = k + 1 /\ R(i + 1) = c + 1 + 1
    BY <2>6, <2>7 DEF J, R
  <2>9. QED
    BY <2>1, <2>4, <2>8
<1>8. ASSUME NEW i \in 1 .. 4 * n, R(i) = 4, i + 1 \in 1 .. 4 * n
      PROVE  R(i + 1) = 1
  <2> DEFINE k == (i - 1) \div 4
             c == (i - 1) % 4
  <2>1. i - 1 \in Nat /\ i \in Nat
    OBVIOUS
  <2>2. k \in Nat /\ c \in 0 .. 3 /\ i - 1 = 4 * k + c
    BY <2>1, ByFour
  <2>3. c + 1 = 4
    BY <1>8 DEF R
  <2> HIDE DEF k, c
  <2>4. i = 4 * (k + 1) + 0 /\ k + 1 \in Nat /\ 0 \in 0 .. 3
    BY <2>1, <2>2, <2>3
  <2>5. i % 4 = 0
    BY <2>1, <2>4, FourOnce
  <2>6. i + 1 - 1 = i
    BY <2>1
  <2>7. QED
    BY <2>5, <2>6 DEF R
<1>9. Chained(b)
  <2> SUFFICES ASSUME NEW i \in 1 .. 4 * n
               PROVE IF b[i].do = "take" THEN i + 1 \in DOMAIN b => b[i + 1].do \in Starts
                     ELSE /\ i + 1 \in DOMAIN b
                          /\ b[i + 1].do = After(b[i].do)
                          /\ b[i + 1].arena = b[i].arena /\ b[i + 1].layer = b[i].layer
                          /\ b[i + 1].from = b[i].from /\ b[i + 1].to = b[i].to
    BY <1>5 DEF Chained
  <2>1. CASE R(i) = 4
    <3>1. b[i].do = "take"
      BY <1>4, <2>1, StepsAre
    <3>2. i + 1 \in DOMAIN b => b[i + 1].do \in Starts
      BY <1>4, <1>5, <1>8, <2>1, StepsAre
    <3>3. QED
      BY <3>1, <3>2
  <2>2. CASE R(i) # 4
    <3>1. R(i) = 1 \/ R(i) = 2 \/ R(i) = 3
      BY <1>3, <2>2
    <3>2. steps[R(i)] # "take" /\ steps[R(i) + 1] = After(steps[R(i)])
      <4>1. 1 + 1 = 2 /\ 2 + 1 = 3 /\ 3 + 1 = 4
        OBVIOUS
      <4>2. QED
        BY <3>1, <4>1, StepsAre
    <3>3. QED
      BY <1>4, <1>5, <1>7, <2>2, <3>2
  <2>3. QED
    BY <2>1, <2>2
<1>10. b # <<>> => b[1].do \in Starts
  <2> SUFFICES ASSUME b # <<>> PROVE b[1].do \in Starts
    OBVIOUS
  <2>1. 1 \in 1 .. 4 * n
    <3>1. 4 * n # 0
      <4>1. Len(b) = 4 * n
        BY <1>1, <1>5, <1>6
      <4>2. QED
        BY <1>6, <4>1
    <3>2. QED
      BY <1>1, <3>1
  <2>2. R(1) = 1
    BY DEF R
  <2>3. QED
    BY <1>4, <2>1, <2>2, StepsAre
<1>11. \A tokens : key.owner \in tokens => Own(b, keys, tokens, layers, m)
  <2> SUFFICES ASSUME NEW i \in 1 .. 4 * n
               PROVE  /\ b[i].arena \in keys /\ b[i].arena.owner = key.owner /\ b[i].layer \in layers
                      /\ 1 <= b[i].from /\ b[i].from <= b[i].to /\ b[i].to <= m
    BY <1>5 DEF Own
  <2>1. J(i) \in 1 .. Len(sl)
    BY <1>3 DEF n
  <2>2. 1 <= sl[J(i)][1] /\ sl[J(i)][1] <= sl[J(i)][2] /\ sl[J(i)][2] <= m
    BY <2>1 DEF Sliced
  <2>3. QED
    BY <1>4, <2>2
<1>12. \A i \in DOMAIN b : b[i].layer = l
  BY <1>4, <1>5
<1>13. ASSUME NEW i \in DOMAIN b
       PROVE  Takes(b, i, l) <=> R(i) = 4
  <2>1. R(i) = 1 \/ R(i) = 2 \/ R(i) = 3 \/ R(i) = 4
    BY <1>3, <1>5
  <2>2. QED
    BY <1>4, <1>5, <2>1, StepsAre DEF Takes
<1>14. \A i, j \in DOMAIN b : Takes(b, i, l) /\ Takes(b, j, l) /\ i < j => b[i].to < b[j].from
  <2> SUFFICES ASSUME NEW i \in DOMAIN b, NEW j \in DOMAIN b,
                      Takes(b, i, l), Takes(b, j, l), i < j
               PROVE  b[i].to < b[j].from
    OBVIOUS
  <2>1. J(i) < J(j) /\ J(i) \in 1 .. Len(sl) /\ J(j) \in 1 .. Len(sl)
    <3>1. R(i) = 4 /\ R(j) = 4
      BY <1>13
    <3>2. i = 4 * (J(i) - 1) + 4 /\ j = 4 * (J(j) - 1) + 4 /\ J(i) \in 1 .. n /\ J(j) \in 1 .. n
          /\ J(i) \in Int /\ J(j) \in Int
      BY <1>3, <1>5, <3>1
    <3>3. QED
      BY <3>2 DEF n
  <2>2. sl[J(i)][2] < sl[J(j)][1]
    BY <2>1 DEF Sliced
  <2>3. QED
    BY <1>4, <1>5, <2>2
<1>15. \A r \in 1 .. m : \E i \in DOMAIN b : Takes(b, i, l) /\ b[i].from <= r /\ r <= b[i].to
  <2> TAKE r \in 1 .. m
  <2>1. PICK j \in 1 .. n : sl[j][1] <= r /\ r <= sl[j][2]
    BY DEF Sliced, n
  <2>2. 4 * j \in 1 .. 4 * n /\ J(4 * j) = j /\ R(4 * j) = 4
    <3> DEFINE x == 4 * j - 1
    <3>1. 4 * j \in 1 .. 4 * n /\ x \in Nat /\ j - 1 \in Nat /\ x = 4 * (j - 1) + 3 /\ 3 \in 0 .. 3
      BY <1>1, <2>1
    <3>2. J(4 * j) = (x \div 4) + 1 /\ R(4 * j) = (x % 4) + 1
      BY DEF J, R
    <3> HIDE DEF x
    <3>3. x \div 4 = j - 1 /\ x % 4 = 3
      BY <3>1, FourOnce
    <3>4. QED
      BY <3>1, <3>2, <3>3
  <2>3. QED
    BY <1>4, <1>5, <1>13, <2>1, <2>2
<1>16. Cut(b, {}, l, m)
  BY <1>14, <1>15 DEF Cut
<1>17. QED
  BY <1>6, <1>9, <1>10, <1>11, <1>12, <1>16 DEF Fresh, b

-----------------------------------------------------------------------------
(* A launch and an arena planned for the most rows have room for fewer.    *)

LEMMA RouteSlotsMore ==
  ASSUME NEW a \in Nat, NEW b \in Nat, a <= b, NEW block \in Nat \ {0}, NEW experts \in Nat
  PROVE  /\ RouteSlots(a, block, experts) \in Nat /\ RouteSlots(b, block, experts) \in Nat
         /\ RouteSlots(a, block, experts) <= RouteSlots(b, block, experts)
<1> DEFINE x == a * TopK
           y == b * TopK
           pad == experts * (block - 1)
<1>1. TopK \in Nat /\ block - 1 \in Nat
  BY SizesAssumption
<1>2. x \in Nat /\ y \in Nat /\ pad \in Nat
  BY <1>1
<1>3. x <= y
  BY <1>1, TimesUp
<1> HIDE DEF x, y, pad
<1>4. x * block <= y * block /\ x * block \in Nat /\ y * block \in Nat
  BY <1>2, <1>3, TimesUp
<1>5. RouteSlots(a, block, experts) = IF x < experts THEN Min({x * block, x + pad}) ELSE x + pad
  BY DEF RouteSlots, x, pad
<1>6. RouteSlots(b, block, experts) = IF y < experts THEN Min({y * block, y + pad}) ELSE y + pad
  BY DEF RouteSlots, y, pad
<1>7. Min({x * block, x + pad}) = (IF x * block <= x + pad THEN x * block ELSE x + pad)
  BY <1>2, <1>4, MinTwo
<1>8. Min({y * block, y + pad}) = (IF y * block <= y + pad THEN y * block ELSE y + pad)
  BY <1>2, <1>4, MinTwo
<1> DEFINE xb == x * block
           yb == y * block
<1> HIDE DEF xb, yb
<1>9. QED
  BY <1>2, <1>3, <1>4, <1>5, <1>6, <1>7, <1>8 DEF xb, yb

LEMMA BlocksMore ==
  ASSUME NEW a \in Nat, NEW b \in Nat, a <= b, NEW n \in Nat \ {0}
  PROVE  Blocks(a, n) \in Nat /\ Blocks(b, n) \in Nat /\ Blocks(a, n) <= Blocks(b, n)
<1> DEFINE x == (a + n - 1) \div n
           y == (b + n - 1) \div n
           c == (a + n - 1) % n
           d == (b + n - 1) % n
<1>1. a + n - 1 \in Nat /\ b + n - 1 \in Nat
  OBVIOUS
<1>2. x \in Nat /\ c \in 0 .. n - 1 /\ a + n - 1 = n * x + c
  BY <1>1
<1>3. y \in Nat /\ d \in 0 .. n - 1 /\ b + n - 1 = n * y + d
  BY <1>1
<1> HIDE DEF x, y, c, d
<1>4. x <= y
  <2> SUFFICES ASSUME y + 1 <= x PROVE FALSE
    BY <1>2, <1>3
  <2>1. (y + 1) * n <= x * n /\ (y + 1) * n = n * y + n /\ x * n = n * x
    BY <1>2, <1>3, TimesUp
  <2>2. n * x \in Nat /\ n * y \in Nat
    BY <1>2, <1>3
  <2>3. QED
    BY <1>2, <1>3, <2>1, <2>2
<1>5. QED
  BY <1>2, <1>3, <1>4 DEF Blocks, x, y

-----------------------------------------------------------------------------
(* The inductive invariant.                                                *)

Cells == SUBSET (Owners \X Nat \X Nat \X Nat)
Arenas == [slots : Nat, blocks : Nat, route : Cells, acc : Cells, out : Cells]
Passes ==
    [kind : {"profile", "eager", "capture"}, owner : Owners, rows : Nat, left : SUBSET Nat,
     ops : Seq(Ops)]

\* What the variables hold.
Typed ==
    /\ model \in Models
    /\ spent \in [Owners -> Nat]
    /\ Knobs.budget # -1 => \A o \in Owners : spent[o] <= Knobs.budget
    /\ DOMAIN arenas \subseteq ArenaNames /\ \A k \in DOMAIN arenas : arenas[k] \in Arenas
    /\ host \in {Idle} \cup Passes
    /\ host # Idle => /\ verdict = Accepted
                      /\ host.left \subseteq OwnLayers(host.owner)
                      /\ host.rows \in 1 .. Knobs.batched
    /\ stream \in [Owners -> Seq(Ops)]
    /\ graphs \in [Owners -> SUBSET [rows : Nat, ops : Seq(Ops)]]
    /\ calls \in [Owners -> Nat] /\ batch \in [Owners -> Nat]
    /\ \A o \in Owners : calls[o] <= Knobs.calls
    /\ taken \in [Owners -> SUBSET Answers]
    /\ profiled \subseteq Owners

\* A loaded layer leads the kernel to its own planes, and nothing is planned
\* before every layer is loaded.
Stored(l) ==
    \/ art[l] = Nothing
    \/ art[l] = [kind |-> "graph"]
    \/ art[l] = [kind |-> "uniform"]
    \/ /\ art[l].kind = "mixed" /\ ~Oversized(Layer(l).bits)
       /\ Places(art[l].weights, Layer(l).bits)
Loaded ==
    /\ DOMAIN art = LayerIds /\ \A l \in LayerIds : Stored(l)
    /\ bound \subseteq {l \in LayerIds : Fused(l)}
    /\ (\E l \in LayerIds : art[l] = Nothing) =>
          /\ host = Idle /\ profiled = {} /\ bound = {}
          /\ DOMAIN arenas = {} /\ DOMAIN runtimes = {}

\* The cells the next launch of a stream reads hold its own call's data.
Primed(do, a, token) ==
    CASE do = "kernel" -> a.route = {token}
      [] do \in {"sum", "clear"} -> a.acc = {token}
      [] do = "fused" -> a.acc = {token} /\ a.out = {}
      [] do = "take" -> a.out = {token}
      [] OTHER -> TRUE
\* The tokens of a model's layers.
OwnerTokens(o) == {OwnerToken(l) : l \in OwnLayers(o)}

StreamsFlow ==
    \A o \in Owners :
        /\ Own(stream[o], DOMAIN arenas, OwnerTokens(o), OwnLayers(o), batch[o])
        /\ Chained(stream[o])
        /\ stream[o] # <<>> =>
              Primed(stream[o][1].do, arenas[stream[o][1].arena], Token(o, stream[o][1]))

\* A graph, or what has been captured of it, is a whole call in itself.
GraphsWhole ==
    \A o \in Owners : \A g \in graphs[o] :
        /\ Own(g.ops, DOMAIN arenas, OwnerTokens(o), OwnLayers(o), g.rows)
        /\ Fresh(g.ops) /\ g.rows \in 1 .. Knobs.batched
        /\ \A l \in OwnLayers(o) : Cut(g.ops, {}, l, g.rows)
CaptureSoFar ==
    Capturing =>
        /\ Own(host.ops, DOMAIN arenas, OwnerTokens(host.owner), OwnLayers(host.owner), host.rows)
        /\ Fresh(host.ops)
        /\ \A l \in OwnLayers(host.owner) :
              IF l \in host.left THEN Untouched(host.ops, {}, l)
              ELSE Cut(host.ops, {}, l, host.rows)

\* Of a call, every layer the host is past has been cut into slices.
Running == host.kind \in {"profile", "eager"}
Left(o) == IF Running /\ host.owner = o THEN host.left ELSE {}
CallsCut ==
    /\ Running => calls[host.owner] > 0 /\ batch[host.owner] = host.rows
    /\ verdict = Accepted =>
          \A o \in Owners : calls[o] > 0 => \A l \in OwnLayers(o) :
              IF l \in Left(o) THEN Untouched(stream[o], taken[o], l)
              ELSE Cut(stream[o], taken[o], l, batch[o])

TakenOwn ==
    \A o \in Owners : \A t \in taken[o] :
        /\ t.of = {<<o, calls[o], t.layer, t.from>>}
        /\ t.from <= t.to /\ t.to <= batch[o]

\* The arenas of a planned layer exist and have the room it was planned with.
ArenasPlanned ==
    \A l \in LayerIds : Fused(l) =>
        /\ MixedKey(l) \in DOMAIN runtimes => ArenaKeys(l) \subseteq DOMAIN arenas
        /\ \A s \in States(l) : ArenaKey(l, s) \in DOMAIN arenas =>
              /\ arenas[ArenaKey(l, s)].slots = ArenaFor(l, s).slots
              /\ arenas[ArenaKey(l, s)].blocks = ArenaFor(l, s).blocks
UniformPlanned ==
    \A l \in LayerIds : art[l].kind = "uniform" /\ UniformKey(l) \in DOMAIN runtimes =>
        /\ UniformPlannable
        /\ \E j \in OwnLayers(Layer(l).owner) :
              art[j].kind = "uniform" /\ runtimes[UniformKey(l)].rate = UniformRate(j)

\* What the profile pass leaves behind for a layer.
Served(l) ==
    /\ Fused(l) => MixedKey(l) \in DOMAIN runtimes /\ l \in bound
    /\ art[l].kind = "graph" => GraphKey(l) \in DOMAIN runtimes
    /\ art[l].kind = "uniform" =>
          /\ UniformKey(l) \in DOMAIN runtimes
          /\ UniformPath(Knobs.batched) # "parity" =>
                runtimes[UniformKey(l)].rate = UniformRate(l)
ProfileServes ==
    /\ host.kind \in {"eager", "capture"} => host.owner \in profiled
    /\ host.kind = "profile" => host.rows = Knobs.batched /\ host.owner \notin profiled
    /\ \A o \in Owners : \A l \in OwnLayers(o) :
          o \in profiled \/ (host.kind = "profile" /\ host.owner = o /\ l \notin host.left)
             => Served(l)

Refusals ==
    /\ verdict.at \in {"none", "load", "profile", "eager", "capture", "warmup"}
    /\ ProfiledNeverRefused

Inv ==
    /\ Typed /\ Loaded /\ StreamsFlow /\ GraphsWhole /\ CaptureSoFar /\ CallsCut /\ TakenOwn
    /\ ArenasPlanned /\ UniformPlanned /\ ProfileServes /\ Refusals

-----------------------------------------------------------------------------
(* What a process is started with.                                         *)

LEMMA KnobFacts ==
  ASSUME model \in Models
  PROVE  /\ Knobs.maxM \in Nat \ {0} /\ Knobs.batched \in Nat \ {0} /\ Knobs.capacity \in Nat \ {0}
         /\ Knobs.blockM \in Nat \ {0} /\ Knobs.minM \in Nat \ {0} /\ Knobs.chunk \in Nat \ {0}
         /\ Knobs.explicit \in BOOLEAN /\ Knobs.prefillTrellis \in BOOLEAN /\ Knobs.fused \in BOOLEAN
         /\ Knobs.budget \in Nat \cup {-1} /\ Knobs.calls \in Nat
<1>1. KnobsPossible(Knobs)
  BY ModelsAssumption DEF Knobs
<1>2. QED
  BY <1>1 DEF KnobsPossible

LEMMA LayerFacts ==
  ASSUME model \in Models, NEW l \in LayerIds
  PROVE  /\ l \in Nat \ {0} /\ Layer(l).owner \in Owners /\ l \in OwnLayers(Layer(l).owner)
         /\ Assigned(Layer(l).bits)
         /\ Layer(l).format = "rank" => Alike(Layer(l).bits)
<1>1. LayersPossible(model.layers)
  BY ModelsAssumption
<1>2. l \in Nat \ {0}
  <2>1. model.layers \in Seq(Range(model.layers))
    BY <1>1 DEF LayersPossible
  <2>2. QED
    BY <2>1 DEF LayerIds
<1>3. QED
  BY <1>1, <1>2 DEF LayersPossible, Layer, LayerIds, OwnLayers, Alike

LEMMA ExpertsAlike ==
  ASSUME model \in Models, NEW l \in LayerIds, NEW j \in LayerIds,
         Layer(l).owner = Layer(j).owner
  PROVE  Experts(Layer(j).bits) = Experts(Layer(l).bits)
<1>1. LayersPossible(model.layers)
  BY ModelsAssumption
<1>2. QED
  BY <1>1 DEF LayersPossible, Layer, LayerIds

LEMMA OwnLayersAre ==
  ASSUME model \in Models, NEW o
  PROVE  /\ OwnLayers(o) \subseteq LayerIds /\ LayerIds \subseteq Nat
         /\ \A l \in OwnLayers(o) : Layer(l).owner = o
BY LayerFacts DEF OwnLayers

LEMMA OwnerTokenIs ==
  ASSUME model \in Models, NEW l \in LayerIds
  PROVE  OwnerToken(l) \in Scopes /\ OwnerToken(l) \in OwnerTokens(Layer(l).owner)
<1>1. Layer(l).owner \in Owners /\ "target" \in Owners /\ l \in OwnLayers(Layer(l).owner)
  BY LayerFacts, OwnersAssumption
<1>2. ConfigOf(Layer(l).owner) \in Owners
  BY <1>1 DEF ConfigOf
<1>3. IsDraft(l) \in BOOLEAN
  BY DEF IsDraft
<1>4. OwnerToken(l) \in Scopes
  BY <1>2, <1>3 DEF OwnerToken, Scopes
<1>5. QED
  BY <1>1, <1>4 DEF OwnerTokens

\* The token of a layer tells which model it belongs to.
LEMMA TokenTells ==
  ASSUME model \in Models, NEW l \in LayerIds, NEW j \in LayerIds,
         OwnerToken(l) = OwnerToken(j)
  PROVE  Layer(l).owner = Layer(j).owner
<1>1. /\ Layer(l).owner \in {"target", "draft"} /\ Layer(j).owner \in {"target", "draft"}
      /\ RolesKnown(model) /\ model.sharedConfig \in BOOLEAN
  BY LayerFacts, ModelsAssumption, OwnersAssumption
<1>2. /\ ConfigOf(Layer(l).owner) = ConfigOf(Layer(j).owner)
      /\ IsDraft(l) = IsDraft(j)
  BY DEF OwnerToken
<1>3. CASE model.sharedConfig
  <2>1. ASSUME NEW i \in LayerIds, Layer(i).owner = "draft" PROVE IsDraft(i)
    BY <1>1, <1>3, <2>1 DEF RolesKnown, IsDraft, Layer, LayerIds
  <2>2. ASSUME NEW i \in LayerIds, Layer(i).owner = "target" PROVE ~IsDraft(i)
    BY <2>2 DEF IsDraft
  <2>3. QED
    BY <1>1, <1>2, <2>1, <2>2
<1>4. CASE ~model.sharedConfig
  BY <1>2, <1>4 DEF ConfigOf
<1>5. QED
  BY <1>1, <1>3, <1>4

LEMMA TokensApart ==
  ASSUME model \in Models, NEW o \in Owners, NEW p \in Owners,
         NEW t \in OwnerTokens(o), t \in OwnerTokens(p)
  PROVE  p = o
<1>1. PICK l \in OwnLayers(o) : t = OwnerToken(l)
  BY DEF OwnerTokens
<1>2. PICK j \in OwnLayers(p) : t = OwnerToken(j)
  BY DEF OwnerTokens
<1>3. /\ l \in LayerIds /\ j \in LayerIds /\ Layer(l).owner = o /\ Layer(j).owner = p
  BY DEF OwnLayers
<1>4. QED
  BY <1>1, <1>2, <1>3, TokenTells

LEMMA LeastIn ==
  ASSUME NEW S \in SUBSET Nat, S # {}
  PROVE  Min(S) \in S
<1>1. PICK n \in S : \A k \in S : <<k, n>> \notin OpToRel(<, Nat)
  BY NatLessThanWellFounded, WFMin, Zenon
<1>2. \A k \in S : ~(k < n)
  BY <1>1, Zenon DEF OpToRel
<1>3. \A k \in S : n <= k
  BY <1>2
<1>4. QED
  BY <1>3 DEF Min

LEMMA IdleIs ==
  /\ Idle.kind = "idle"
  /\ \A h \in Passes : h # Idle /\ h.kind # "idle"
<1>1. Idle.kind = "idle"
  BY DEF Idle
<1>2. \A h \in Passes : h.kind # "idle"
  BY DEF Passes
<1>3. QED
  BY <1>1, <1>2

LEMMA ArtKinds ==
  ASSUME Loaded, NEW l \in LayerIds
  PROVE  /\ art[l].kind \in {"none", "graph", "uniform", "mixed"}
         /\ art[l].kind = "none" <=> art[l] = Nothing
         /\ Fused(l) => ~Oversized(Layer(l).bits) /\ Places(art[l].weights, Layer(l).bits)
<1>1. Stored(l)
  BY DEF Loaded
<1>2. QED
  BY <1>1 DEF Stored, Nothing, Fused

-----------------------------------------------------------------------------
(* What stays the same while the process and its layers do.                *)

LEMMA SameModel ==
  ASSUME model' = model
  PROVE  /\ Knobs' = Knobs /\ LayerIds' = LayerIds
         /\ \A l : Layer(l)' = Layer(l)
         /\ \A o : OwnLayers(o)' = OwnLayers(o)
         /\ \A l : OwnerToken(l)' = OwnerToken(l)
         /\ \A o : OwnerTokens(o)' = OwnerTokens(o)
<1>1. /\ Knobs' = Knobs /\ LayerIds' = LayerIds /\ \A l : Layer(l)' = Layer(l)
      /\ \A l : OwnerToken(l)' = OwnerToken(l)
  BY DEF Knobs, LayerIds, Layer, OwnerToken, ConfigOf, IsDraft
<1>2. \A o : OwnLayers(o)' = OwnLayers(o)
  BY <1>1 DEF OwnLayers
<1>3. \A o : OwnerTokens(o)' = OwnerTokens(o)
  BY <1>1, <1>2 DEF OwnerTokens
<1>4. QED
  BY <1>1, <1>2, <1>3

LEMMA SameLayers ==
  ASSUME model' = model, art' = art
  PROVE  /\ \A l : Fused(l)' = Fused(l)
         /\ \A l : States(l)' = States(l)
         /\ \A l : MixedKey(l)' = MixedKey(l)
         /\ \A l : ArenaKeys(l)' = ArenaKeys(l)
         /\ \A l, s : ArenaKey(l, s)' = ArenaKey(l, s)
         /\ \A l, s : ArenaFor(l, s)' = ArenaFor(l, s)
         /\ \A l : GraphKey(l)' = GraphKey(l)
         /\ \A l : UniformKey(l)' = UniformKey(l)
         /\ \A l : UniformRate(l)' = UniformRate(l)
         /\ \A m : UniformPath(m)' = UniformPath(m)
         /\ UniformPlannable' = UniformPlannable
<1>1. Knobs' = Knobs /\ \A l : Layer(l)' = Layer(l)
  BY SameModel
<1>2. \A l : OwnerToken(l)' = OwnerToken(l)
  BY SameModel
<1>3. \A l : TiersOf(l)' = TiersOf(l)
  BY DEF TiersOf
<1>4. \A l : TierSignature(l)' = TierSignature(l)
  BY <1>3 DEF TierSignature
<1>5. \A l : PrefillBlock(l)' = PrefillBlock(l)
  BY <1>1, <1>3, <1>4 DEF PrefillBlock
<1>6. MaxDecode' = MaxDecode
  BY <1>1 DEF MaxDecode
<1>7. \A l : States(l)' = States(l)
  BY <1>1, <1>5, <1>6 DEF States
<1>8. \A l, s : ArenaKey(l, s)' = ArenaKey(l, s)
  BY <1>1, <1>2, <1>3 DEF ArenaKey
<1>9. \A l : ArenaKeys(l)' = ArenaKeys(l)
  BY <1>7, <1>8 DEF ArenaKeys
<1>10. \A l, s : ArenaFor(l, s)' = ArenaFor(l, s)
  BY <1>1 DEF ArenaFor
<1>11. \A l : MixedKey(l)' = MixedKey(l)
  BY <1>1, <1>2, <1>4, <1>5 DEF MixedKey
<1>12. /\ \A l : GraphKey(l)' = GraphKey(l)
       /\ \A l : UniformKey(l)' = UniformKey(l)
       /\ \A l : UniformRate(l)' = UniformRate(l)
  BY <1>1, <1>2 DEF GraphKey, UniformKey, UniformRate
<1>13. PrefillPlanned' = PrefillPlanned
  BY <1>1 DEF PrefillPlanned
<1>14. ParityRows' = ParityRows
  BY <1>1, <1>13 DEF ParityRows
<1>15. (\A m : UniformPath(m)' = UniformPath(m)) /\ UniformPlannable' = UniformPlannable
  BY <1>1, <1>13, <1>14 DEF UniformPath, UniformPlannable
<1>16. \A l : Fused(l)' = Fused(l)
  BY DEF Fused
<1>17. QED
  BY <1>7, <1>8, <1>9, <1>10, <1>11, <1>12, <1>15, <1>16

-----------------------------------------------------------------------------
(* The invariant holds before anything is loaded.                          *)

LEMMA EmptyFlows ==
  /\ \A keys, token, layers, m : Own(<<>>, keys, token, layers, m)
  /\ Chained(<<>>) /\ Fresh(<<>>)
  /\ <<>> \in Seq(Ops)
BY DEF Own, Chained, Fresh

LEMMA InitInv == Init => Inv
<1> SUFFICES ASSUME Init PROVE Inv
  OBVIOUS
<1>1. Typed
  <2>1. host = Idle /\ DOMAIN arenas = {} /\ profiled = {} /\ model \in Models
    BY DEF Init
  <2>2. /\ spent = [c \in Owners |-> 0] /\ stream = [o \in Owners |-> <<>>]
        /\ graphs = [o \in Owners |-> {}] /\ calls = [o \in Owners |-> 0]
        /\ batch = [o \in Owners |-> 0] /\ taken = [o \in Owners |-> {}]
    BY DEF Init
  <2>3. Knobs.calls \in Nat /\ Knobs.budget \in Nat \cup {-1}
    BY <2>1, KnobFacts
  <2>4. \A o \in Owners : calls[o] <= Knobs.calls /\ (Knobs.budget # -1 => spent[o] <= Knobs.budget)
    BY <2>2, <2>3
  <2>5. stream \in [Owners -> Seq(Ops)]
    BY <2>2, EmptyFlows
  <2>6. QED
    BY <2>1, <2>2, <2>4, <2>5 DEF Typed
<1>2. Loaded
  <2>1. \A l \in LayerIds : Stored(l)
    BY DEF Init, Stored
  <2>2. QED
    BY <2>1 DEF Loaded, Init
<1>3. StreamsFlow
  <2>1. \A o \in Owners : stream[o] = <<>>
    BY DEF Init
  <2>2. QED
    BY <2>1, EmptyFlows DEF StreamsFlow
<1>4. GraphsWhole /\ TakenOwn
  BY DEF Init, GraphsWhole, TakenOwn
<1>5. CaptureSoFar /\ CallsCut /\ ~Running /\ ~Capturing
  <2>1. ~Capturing /\ ~Running
    BY IdleIs DEF Init, Capturing, Running
  <2>2. \A o \in Owners : ~(calls[o] > 0)
    BY DEF Init
  <2>3. QED
    BY <2>1, <2>2 DEF CaptureSoFar, CallsCut
<1>6. ArenasPlanned /\ UniformPlanned
  <2>1. DOMAIN runtimes = {} /\ DOMAIN arenas = {}
    BY DEF Init
  <2>2. QED
    BY <2>1 DEF ArenasPlanned, UniformPlanned
<1>7. ProfileServes
  BY IdleIs DEF Init, ProfileServes
<1>8. Refusals
  BY DEF Init, Refusals, ProfiledNeverRefused, Accepted
<1>9. QED
  BY <1>1, <1>2, <1>3, <1>4, <1>5, <1>6, <1>7, <1>8 DEF Inv

-----------------------------------------------------------------------------
(* What a step leaves alone of the invariant.                              *)

LEMMA FlowSame ==
  ASSUME StreamsFlow, UNCHANGED <<model, stream, arenas, calls, batch>>
  PROVE  StreamsFlow'
<1>1. \A o : OwnerTokens(o)' = OwnerTokens(o) /\ OwnLayers(o)' = OwnLayers(o)
  BY SameModel
<1>2. \A o, op : Token(o, op)' = Token(o, op)
  BY DEF Token
<1>3. QED
  BY <1>1, <1>2 DEF StreamsFlow

LEMMA GraphsSame ==
  ASSUME GraphsWhole, UNCHANGED <<model, graphs>>, DOMAIN arenas \subseteq DOMAIN arenas'
  PROVE  GraphsWhole'
<1>1. /\ \A o : OwnerTokens(o)' = OwnerTokens(o) /\ OwnLayers(o)' = OwnLayers(o)
      /\ Knobs' = Knobs
  BY SameModel
<1>2. ASSUME NEW o \in Owners, NEW g \in graphs[o]
      PROVE  Own(g.ops, DOMAIN arenas', OwnerTokens(o), OwnLayers(o), g.rows)
  <2>1. Own(g.ops, DOMAIN arenas, OwnerTokens(o), OwnLayers(o), g.rows)
    BY DEF GraphsWhole
  <2>2. QED
    BY <2>1, OwnMore, Zenon
<1>3. QED
  BY <1>1, <1>2 DEF GraphsWhole

LEMMA CaptureSame ==
  ASSUME CaptureSoFar, UNCHANGED <<model, host>>, DOMAIN arenas \subseteq DOMAIN arenas'
  PROVE  CaptureSoFar'
<1>1. \A o : OwnerTokens(o)' = OwnerTokens(o) /\ OwnLayers(o)' = OwnLayers(o)
  BY SameModel
<1>2. ASSUME Capturing
      PROVE  Own(host.ops, DOMAIN arenas', OwnerTokens(host.owner), OwnLayers(host.owner), host.rows)
  <2>1. Own(host.ops, DOMAIN arenas, OwnerTokens(host.owner), OwnLayers(host.owner), host.rows)
    BY <1>2 DEF CaptureSoFar
  <2>2. QED
    BY <2>1, OwnMore, Zenon
<1>3. Capturing' = Capturing
  BY DEF Capturing
<1>4. QED
  BY <1>1, <1>2, <1>3 DEF CaptureSoFar

LEMMA CaptureOver ==
  ASSUME host' = Idle
  PROVE  CaptureSoFar'
BY IdleIs DEF CaptureSoFar, Capturing

LEMMA CutSame ==
  ASSUME CallsCut, UNCHANGED <<model, host, stream, calls, batch, taken, verdict>>
  PROVE  CallsCut'
<1>1. \A o : OwnLayers(o)' = OwnLayers(o)
  BY SameModel
<1>2. Running' = Running /\ \A o : Left(o)' = Left(o)
  BY DEF Running, Left
<1>3. QED
  BY <1>1, <1>2 DEF CallsCut

LEMMA CutRefused ==
  ASSUME host' = Idle, verdict' # Accepted
  PROVE  CallsCut'
<1>1. ~Running'
  BY IdleIs DEF Running
<1>2. QED
  BY <1>1 DEF CallsCut

LEMMA TakenSame ==
  ASSUME TakenOwn, UNCHANGED <<calls, batch, taken>>
  PROVE  TakenOwn'
BY DEF TakenOwn

LEMMA PlannedSame ==
  ASSUME ArenasPlanned, UniformPlanned, UNCHANGED <<model, art, runtimes, arenas>>
  PROVE  ArenasPlanned' /\ UniformPlanned'
<1>1. /\ LayerIds' = LayerIds /\ \A l : Layer(l)' = Layer(l)
      /\ \A o : OwnLayers(o)' = OwnLayers(o)
  BY SameModel
<1>2. ArenasPlanned'
  BY <1>1, SameLayers DEF ArenasPlanned
<1>3. UniformPlanned'
  BY <1>1, SameLayers DEF UniformPlanned
<1>4. QED
  BY <1>2, <1>3

LEMMA ServedSame ==
  ASSUME UNCHANGED <<model, art, runtimes, bound>>
  PROVE  \A l : Served(l)' = Served(l)
<1>1. Knobs' = Knobs
  BY SameModel
<1>2. QED
  BY <1>1, SameLayers DEF Served

LEMMA ServesSame ==
  ASSUME ProfileServes, UNCHANGED <<model, art, runtimes, bound, host, profiled>>
  PROVE  ProfileServes'
<1>1. Knobs' = Knobs /\ \A o : OwnLayers(o)' = OwnLayers(o)
  BY SameModel
<1>2. QED
  BY <1>1, ServedSame DEF ProfileServes

LEMMA RefusalsSame ==
  ASSUME Refusals, UNCHANGED <<model, art, verdict>>
  PROVE  Refusals'
<1>1. /\ Knobs' = Knobs /\ \A l : Layer(l)' = Layer(l)
      /\ \A o : OwnLayers(o)' = OwnLayers(o)
  BY SameModel
<1>2. MaxDecode' = MaxDecode
  BY <1>1 DEF MaxDecode
<1>3. \A l : Misrated(l)' = Misrated(l)
  BY <1>1, SameLayers DEF Misrated
<1>4. \A l : Plannable(l)' = Plannable(l)
  BY <1>1, <1>2 DEF Plannable
<1>5. /\ \A l : Misconfigured(l)' = Misconfigured(l)
      /\ \A l : UnseenByProfile(l)' = UnseenByProfile(l)
  BY <1>1, <1>3, <1>4, SameLayers DEF Misconfigured, UnseenByProfile
<1>6. ProfiledNeverRefused' = ProfiledNeverRefused
  BY <1>1, <1>5 DEF ProfiledNeverRefused
<1>7. QED
  BY <1>6 DEF Refusals

LEMMA RefusalsNone ==
  ASSUME verdict'.at \in {"none", "load"}
  PROVE  Refusals'
BY DEF Refusals, ProfiledNeverRefused

-----------------------------------------------------------------------------
(* Loading.                                                                *)

LEMMA LoadKeeps ==
  ASSUME Inv, Loading, NEW l \in LayerIds, art[l] = Nothing,
         UNCHANGED <<model, runtimes, arenas, bound, host, stream, graphs, calls, batch, taken,
                     profiled>>,
         DOMAIN art' = DOMAIN art, \A j \in LayerIds \ {l} : art'[j] = art[j], Stored(l)',
         spent' \in [Owners -> Nat],
         Knobs.budget # -1 => \A o \in Owners : spent'[o] <= Knobs.budget,
         verdict'.at \in {"none", "load"}
  PROVE  Inv'
<1>1. /\ Knobs' = Knobs /\ LayerIds' = LayerIds /\ \A j : Layer(j)' = Layer(j)
      /\ \A o : OwnLayers(o)' = OwnLayers(o)
  BY SameModel
<1>2. host = Idle /\ verdict = Accepted
  BY DEF Loading
<1>3. profiled = {} /\ bound = {} /\ DOMAIN arenas = {} /\ DOMAIN runtimes = {}
  BY DEF Inv, Loaded
<1>4. Typed'
  BY <1>1, <1>2 DEF Inv, Typed
<1>5. Loaded'
  <2>1. DOMAIN art' = LayerIds'
    BY <1>1 DEF Inv, Loaded
  <2>2. ASSUME NEW j \in LayerIds, j # l PROVE Stored(j)'
    <3>1. Stored(j)
      BY DEF Inv, Loaded
    <3>2. art'[j] = art[j] /\ Layer(j)' = Layer(j)
      BY <1>1, <2>2
    <3>3. QED
      BY <3>1, <3>2 DEF Stored
  <2>3. QED
    BY <1>1, <1>2, <1>3, <2>1, <2>2 DEF Loaded
<1>6. StreamsFlow' /\ GraphsWhole' /\ TakenOwn'
  BY FlowSame, GraphsSame, TakenSame DEF Inv
<1>7. CaptureSoFar'
  BY <1>2, CaptureOver
<1>8. CallsCut'
  <2>1. ~Running /\ ~Running'
    BY <1>2, IdleIs DEF Running
  <2>2. \A o : Left(o) = {} /\ Left(o)' = {}
    BY <2>1 DEF Left
  <2>3. QED
    BY <1>1, <1>2, <2>1, <2>2 DEF Inv, CallsCut, Left
<1>9. ArenasPlanned' /\ UniformPlanned'
  BY <1>3 DEF ArenasPlanned, UniformPlanned
<1>10. ProfileServes'
  BY <1>2, <1>3, IdleIs DEF ProfileServes
<1>11. Refusals'
  BY RefusalsNone
<1>12. QED
  BY <1>4, <1>5, <1>6, <1>7, <1>8, <1>9, <1>10, <1>11 DEF Inv

LEMMA LoadR7FusedInv ==
  ASSUME Inv, NEW l, LoadR7Fused(l)
  PROVE  Inv'
<1>1. l \in LayerIds /\ art[l] = Nothing /\ Loading /\ verdict = Accepted /\ DOMAIN art = LayerIds
  BY DEF LoadR7Fused, LoadNext, Loading, Inv, Loaded
<1>2. UNCHANGED <<model, runtimes, arenas, bound, host, stream, graphs, calls, batch, taken,
                  profiled>>
  BY DEF LoadR7Fused
<1>3. model \in Models /\ spent \in [Owners -> Nat]
      /\ (Knobs.budget # -1 => \A o \in Owners : spent[o] <= Knobs.budget)
  BY DEF Inv, Typed
<1>4. /\ Assigned(Layer(l).bits) /\ Layer(l).owner \in Owners /\ \A j : Layer(j)' = Layer(j)
  BY <1>1, <1>2, <1>3, LayerFacts, SameModel
<1>5. CASE Oversized(Layer(l).bits)
  <2>1. verdict' = [at |-> "load", layer |-> l] /\ UNCHANGED <<art, spent>>
    BY <1>5 DEF LoadR7Fused, Refuse
  <2>2. Stored(l)'
    BY <1>1, <2>1 DEF Stored, Nothing
  <2>3. verdict'.at \in {"none", "load"}
    BY <2>1
  <2>4. QED
    BY <1>1, <1>2, <1>3, <2>1, <2>2, <2>3, LoadKeeps
<1>6. CASE ~Oversized(Layer(l).bits)
  <2>1. /\ art' = [art EXCEPT ![l] = [kind |-> "mixed",
                                      weights |-> ProjectionTiered(Layer(l).bits)]]
        /\ spent' = IF Knobs.budget = -1 THEN spent
                    ELSE [spent EXCEPT ![ConfigOf(Layer(l).owner)] = @ + 1]
        /\ verdict' = verdict
    BY <1>6 DEF LoadR7Fused
  <2>2. art'[l].kind = "mixed" /\ art'[l].weights = ProjectionTiered(Layer(l).bits)
        /\ DOMAIN art' = DOMAIN art /\ \A j \in LayerIds \ {l} : art'[j] = art[j]
    BY <1>1, <2>1
  <2>3. Stored(l)'
    BY <1>4, <1>6, <2>2, ProjectionPlaces DEF Stored
  <2>4. ConfigOf(Layer(l).owner) \in Owners
    BY <1>4, OwnersAssumption DEF ConfigOf
  <2>5. Knobs.budget = -1 \/ spent[ConfigOf(Layer(l).owner)] < Knobs.budget
    BY DEF LoadR7Fused, NativeTiers
  <2>6. Knobs.budget \in Nat \cup {-1}
    BY <1>3, KnobFacts
  <2>7. spent' \in [Owners -> Nat]
    BY <1>3, <2>1, <2>4
  <2>8. Knobs.budget # -1 => \A o \in Owners : spent'[o] <= Knobs.budget
    BY <1>3, <2>1, <2>4, <2>5, <2>6
  <2>9. verdict'.at \in {"none", "load"}
    BY <1>1, <2>1 DEF Accepted
  <2>10. QED
    BY <1>1, <1>2, <2>2, <2>3, <2>7, <2>8, <2>9, LoadKeeps
<1>7. QED
  BY <1>5, <1>6

LEMMA LoadR7GraphInv ==
  ASSUME Inv, NEW l, LoadR7Graph(l)
  PROVE  Inv'
<1>1. l \in LayerIds /\ art[l] = Nothing /\ Loading /\ verdict = Accepted /\ DOMAIN art = LayerIds
  BY DEF LoadR7Graph, LoadNext, Loading, Inv, Loaded
<1>2. UNCHANGED <<model, spent, runtimes, arenas, bound, host, stream, graphs, calls, batch, taken,
                  profiled, verdict>>
  BY DEF LoadR7Graph
<1>3. spent' \in [Owners -> Nat]
      /\ (Knobs.budget # -1 => \A o \in Owners : spent'[o] <= Knobs.budget)
  BY <1>2 DEF Inv, Typed
<1>4. art' = [art EXCEPT ![l] = [kind |-> "graph"]]
  BY DEF LoadR7Graph
<1>5. art'[l] = [kind |-> "graph"]
      /\ DOMAIN art' = DOMAIN art /\ \A j \in LayerIds \ {l} : art'[j] = art[j]
  BY <1>1, <1>4
<1>6. Stored(l)'
  BY <1>5 DEF Stored
<1>7. verdict'.at \in {"none", "load"}
  BY <1>1, <1>2 DEF Accepted
<1>8. QED
  BY <1>1, <1>2, <1>3, <1>5, <1>6, <1>7, LoadKeeps

LEMMA LoadRankSlicedInv ==
  ASSUME Inv, NEW l, LoadRankSliced(l)
  PROVE  Inv'
<1>1. l \in LayerIds /\ art[l] = Nothing /\ Loading /\ verdict = Accepted /\ DOMAIN art = LayerIds
  BY DEF LoadRankSliced, LoadNext, Loading, Inv, Loaded
<1>2. UNCHANGED <<model, spent, runtimes, arenas, bound, host, stream, graphs, calls, batch, taken,
                  profiled>>
  BY DEF LoadRankSliced
<1>3. model \in Models /\ spent' \in [Owners -> Nat]
      /\ (Knobs.budget # -1 => \A o \in Owners : spent'[o] <= Knobs.budget)
  BY <1>2 DEF Inv, Typed
<1>4. /\ Assigned(Layer(l).bits) /\ Alike(Layer(l).bits) /\ \A j : Layer(j)' = Layer(j)
  BY <1>1, <1>2, <1>3, LayerFacts, SameModel DEF LoadRankSliced
<1>5. CASE Uniform(l)
  <2>1. art' = [art EXCEPT ![l] = [kind |-> "uniform"]] /\ verdict' = verdict
    BY <1>5 DEF LoadRankSliced
  <2>2. art'[l] = [kind |-> "uniform"]
        /\ DOMAIN art' = DOMAIN art /\ \A j \in LayerIds \ {l} : art'[j] = art[j]
    BY <1>1, <2>1
  <2>3. Stored(l)'
    BY <2>2 DEF Stored
  <2>4. verdict'.at \in {"none", "load"}
    BY <1>1, <2>1 DEF Accepted
  <2>5. QED
    BY <1>1, <1>2, <1>3, <2>2, <2>3, <2>4, LoadKeeps
<1>6. CASE ~Uniform(l) /\ (Cardinality(Rates(Layer(l).bits)) # 2 \/ Oversized(Layer(l).bits))
  <2>1. verdict' = [at |-> "load", layer |-> l] /\ art' = art
    BY <1>6 DEF LoadRankSliced, Refuse
  <2>2. Stored(l)'
    BY <1>1, <2>1 DEF Stored, Nothing
  <2>3. verdict'.at \in {"none", "load"}
    BY <2>1
  <2>4. QED
    BY <1>1, <1>2, <1>3, <2>1, <2>2, <2>3, LoadKeeps
<1>7. CASE ~Uniform(l) /\ ~(Cardinality(Rates(Layer(l).bits)) # 2 \/ Oversized(Layer(l).bits))
  <2>1. /\ art' = [art EXCEPT ![l] = [kind |-> "mixed",
                                      weights |-> ExpertTiered(Layer(l).bits)]]
        /\ verdict' = verdict
    BY <1>7 DEF LoadRankSliced
  <2>2. art'[l].kind = "mixed" /\ art'[l].weights = ExpertTiered(Layer(l).bits)
        /\ DOMAIN art' = DOMAIN art /\ \A j \in LayerIds \ {l} : art'[j] = art[j]
    BY <1>1, <2>1
  <2>3. Stored(l)'
    BY <1>4, <1>7, <2>2, ExpertPlaces DEF Stored
  <2>4. verdict'.at \in {"none", "load"}
    BY <1>1, <2>1 DEF Accepted
  <2>5. QED
    BY <1>1, <1>2, <1>3, <2>2, <2>3, <2>4, LoadKeeps
<1>8. QED
  BY <1>5, <1>6, <1>7

-----------------------------------------------------------------------------
(* The host between passes.                                                *)

\* What a step that only moves the host, the streams and the calls leaves.
LEMMA LoadedSame ==
  ASSUME Loaded, UNCHANGED <<model, art, runtimes, arenas, bound>>,
         (\E l \in LayerIds : art[l] = Nothing) => host' = Idle /\ profiled' = {}
  PROVE  Loaded'
<1>1. LayerIds' = LayerIds /\ (\A l : Layer(l)' = Layer(l)) /\ (\A l : Fused(l)' = Fused(l))
  BY SameModel DEF Fused
<1>2. \A l : Stored(l)' = Stored(l)
  BY <1>1 DEF Stored
<1>3. QED
  BY <1>1, <1>2 DEF Loaded

LEMMA BeginInv ==
  ASSUME Inv, NEW o \in Owners, NEW m \in 1 .. Knobs.batched,
         NEW kind \in {"profile", "eager", "capture"}, Begin(o, m, kind)
  PROVE  Inv'
<1>1. /\ host = Idle /\ verdict = Accepted /\ stream[o] = <<>>
      /\ \A l \in LayerIds : art[l] # Nothing
  BY DEF Begin, Ready
<1>2. UNCHANGED <<model, art, spent, runtimes, arenas, bound, stream, graphs, profiled, verdict>>
  BY DEF Begin
<1>3. host' = [kind |-> kind, owner |-> o, rows |-> m, left |-> OwnLayers(o), ops |-> <<>>]
  BY DEF Begin
<1>4. /\ Knobs' = Knobs /\ LayerIds' = LayerIds /\ \A l : Layer(l)' = Layer(l)
      /\ \A p : OwnLayers(p)' = OwnLayers(p) /\ OwnerTokens(p)' = OwnerTokens(p)
  BY <1>2, SameModel
<1>5. model \in Models /\ Knobs.batched \in Nat \ {0} /\ Knobs.calls \in Nat
      /\ OwnLayers(o) \subseteq LayerIds /\ LayerIds \subseteq Nat
  BY KnobFacts, OwnLayersAre DEF Inv, Typed
<1>6. calls \in [Owners -> Nat] /\ batch \in [Owners -> Nat] /\ taken \in [Owners -> SUBSET Answers]
  BY DEF Inv, Typed
<1>7. host' \in Passes /\ host' # Idle
  <2>1. OwnLayers(o) \subseteq Nat
    BY <1>5
  <2>2. m \in Nat
    BY <1>5
  <2>3. <<>> \in Seq(Ops)
    BY EmptyFlows
  <2>4. host' \in Passes
    BY <1>3, <2>1, <2>3, <2>2 DEF Passes
  <2>5. QED
    BY <2>4, IdleIs
<1>8. CASE kind = "capture"
  <2>1. UNCHANGED <<calls, batch, taken>>
    BY <1>8 DEF Begin
  <2>2. Typed'
    BY <1>1, <1>2, <1>3, <1>4, <1>7, <2>1 DEF Inv, Typed
  <2>3. StreamsFlow' /\ GraphsWhole' /\ TakenOwn'
    BY <1>2, <2>1, FlowSame, GraphsSame, TakenSame DEF Inv
  <2>4. CaptureSoFar'
    <3>1. host'.ops = <<>> /\ host'.left = OwnLayers(o) /\ host'.owner = o
      BY <1>3
    <3>2. \A l : Untouched(<<>>, {}, l)
      BY DEF Untouched
    <3>3. QED
      BY <1>4, <3>1, <3>2, EmptyFlows DEF CaptureSoFar
  <2>5. CallsCut'
    <3>1. ~Running /\ ~Running'
      BY <1>1, <1>3, <1>8, IdleIs DEF Running
    <3>2. \A p : Left(p) = {} /\ Left(p)' = {}
      BY <3>1 DEF Left
    <3>3. QED
      BY <1>1, <1>2, <1>4, <2>1, <3>1, <3>2 DEF Inv, CallsCut
  <2>6. QED
    <3>1. Loaded'
      BY <1>1, <1>2, LoadedSame DEF Inv
    <3>2. ArenasPlanned' /\ UniformPlanned'
      BY <1>2, PlannedSame DEF Inv
    <3>3. ProfileServes'
      <4>1. o \in profiled
        BY <1>8 DEF Begin
      <4>2. \A l : Served(l)' = Served(l)
        BY <1>2, ServedSame
      <4>3. QED
        BY <1>1, <1>2, <1>3, <1>4, <1>8, <4>1, <4>2 DEF Inv, ProfileServes
    <3>4. Refusals'
      BY <1>2, RefusalsSame DEF Inv
    <3>5. QED
      BY <2>2, <2>3, <2>4, <2>5, <3>1, <3>2, <3>3, <3>4 DEF Inv
<1>9. CASE kind # "capture"
  <2>1. /\ calls' = [calls EXCEPT ![o] = @ + 1] /\ batch' = [batch EXCEPT ![o] = m]
        /\ taken' = [taken EXCEPT ![o] = {}] /\ calls[o] < Knobs.calls
    BY <1>9 DEF Begin
  <2>2. /\ calls' \in [Owners -> Nat] /\ batch' \in [Owners -> Nat]
        /\ taken' \in [Owners -> SUBSET Answers]
        /\ calls'[o] = calls[o] + 1 /\ batch'[o] = m /\ taken'[o] = {}
        /\ \A p \in Owners \ {o} : calls'[p] = calls[p] /\ batch'[p] = batch[p] /\ taken'[p] = taken[p]
    BY <1>5, <1>6, <2>1
  <2>3. \A p \in Owners : calls'[p] <= Knobs.calls
    <3>1. \A p \in Owners : calls[p] <= Knobs.calls
      BY DEF Inv, Typed
    <3>2. QED
      BY <1>5, <1>6, <2>1, <2>2, <3>1
  <2>4. Typed'
    BY <1>1, <1>2, <1>3, <1>4, <1>7, <2>2, <2>3 DEF Inv, Typed
  <2>5. StreamsFlow'
    <3>1. ASSUME NEW p \in Owners, p # o, NEW op PROVE Token(p, op)' = Token(p, op)
      BY <2>2, <3>1 DEF Token
    <3>2. ASSUME NEW p \in Owners, p # o
          PROVE  /\ Own(stream'[p], DOMAIN arenas', OwnerTokens(p)', OwnLayers(p)', batch'[p])
                 /\ Chained(stream'[p])
                 /\ stream'[p] # <<>> =>
                      Primed(stream'[p][1].do, arenas'[stream'[p][1].arena], Token(p, stream[p][1])')
      BY <1>2, <1>4, <2>2, <3>1, <3>2 DEF Inv, StreamsFlow
    <3>3. stream'[o] = <<>>
      BY <1>1, <1>2
    <3>4. QED
      BY <1>2, <3>2, <3>3, EmptyFlows DEF StreamsFlow
  <2>6. GraphsWhole'
    BY <1>2, GraphsSame DEF Inv
  <2>7. TakenOwn'
    BY <2>2 DEF Inv, TakenOwn
  <2>8. CaptureSoFar'
    BY <1>3, <1>9 DEF CaptureSoFar, Capturing
  <2>9. CallsCut'
    <3>1. ~Running /\ Running' /\ host'.owner = o /\ host'.left = OwnLayers(o) /\ host'.rows = m
      BY <1>1, <1>3, <1>9, IdleIs DEF Running
    <3>2. /\ \A p : Left(p) = {}
          /\ Left(o)' = OwnLayers(o) /\ \A p : p # o => Left(p)' = {}
      BY <3>1 DEF Left
    <3>3. \A l : Untouched(<<>>, {}, l)
      BY DEF Untouched
    <3>4. \A l \in OwnLayers(o) : Untouched(stream'[o], taken'[o], l)
      BY <1>1, <1>2, <2>2, <3>3
    <3>5. \A p \in Owners \ {o} : calls'[p] > 0 =>
             \A l \in OwnLayers(p) : Cut(stream'[p], taken'[p], l, batch'[p])
      BY <1>1, <1>2, <2>2, <3>2 DEF Inv, CallsCut
    <3>6. calls'[o] > 0
      BY <1>6, <2>2
    <3>7. \A p \in Owners : calls'[p] > 0 => \A l \in OwnLayers(p)' :
              IF l \in Left(p)' THEN Untouched(stream'[p], taken'[p], l)
              ELSE Cut(stream'[p], taken'[p], l, batch'[p])
      BY <1>4, <3>2, <3>4, <3>5
    <3>8. QED
      BY <2>2, <3>1, <3>6, <3>7 DEF CallsCut
  <2>10. Loaded'
    BY <1>1, <1>2, LoadedSame DEF Inv
  <2>11. ArenasPlanned' /\ UniformPlanned' /\ Refusals'
    BY <1>2, PlannedSame, RefusalsSame DEF Inv
  <2>12. ProfileServes'
    <3>1. /\ kind = "profile" <=> o \notin profiled
          /\ kind = "profile" => m = Knobs.batched
      BY DEF Begin
    <3>2. \A l : Served(l)' = Served(l)
      BY <1>2, ServedSame
    <3>3. \A p \in Owners : \A l \in OwnLayers(p) : p \in profiled => Served(l)
      BY DEF Inv, ProfileServes
    <3>4. QED
      BY <1>2, <1>3, <1>4, <1>9, <3>1, <3>2, <3>3 DEF ProfileServes
  <2>13. QED
    BY <2>4, <2>5, <2>6, <2>7, <2>8, <2>9, <2>10, <2>11, <2>12 DEF Inv
<1>10. QED
  BY <1>8, <1>9

LEMMA EndPassInv ==
  ASSUME Inv, EndPass
  PROVE  Inv'
<1>1. /\ host # Idle /\ host.left = {} /\ host' = Idle
      /\ profiled' = profiled \cup {host.owner}
      /\ UNCHANGED <<model, art, spent, runtimes, arenas, bound, stream, calls, batch, taken,
                     verdict>>
  BY DEF EndPass
<1>2. host \in Passes /\ host.owner \in Owners /\ verdict = Accepted /\ host.rows \in 1 .. Knobs.batched
  BY <1>1 DEF Inv, Typed, Passes
<1>3. /\ Knobs' = Knobs /\ LayerIds' = LayerIds /\ \A l : Layer(l)' = Layer(l)
      /\ \A p : OwnLayers(p)' = OwnLayers(p) /\ OwnerTokens(p)' = OwnerTokens(p)
  BY <1>1, SameModel
<1>4. graphs' \in [Owners -> SUBSET [rows : Nat, ops : Seq(Ops)]] /\ GraphsWhole'
  <2>1. CASE Capturing
    <3>1. graphs' = [graphs EXCEPT ![host.owner] = @ \cup {[rows |-> host.rows, ops |-> host.ops]}]
      BY <2>1 DEF EndPass
    <3>2. graphs \in [Owners -> SUBSET [rows : Nat, ops : Seq(Ops)]]
      BY DEF Inv, Typed
    <3>3. [rows |-> host.rows, ops |-> host.ops] \in [rows : Nat, ops : Seq(Ops)]
      BY <1>2 DEF Passes
    <3>4. graphs' \in [Owners -> SUBSET [rows : Nat, ops : Seq(Ops)]]
      BY <1>2, <3>1, <3>2, <3>3
    <3>5. ASSUME NEW o \in Owners, NEW g \in graphs'[o]
          PROVE  g \in graphs[o] \/ (o = host.owner /\ g.rows = host.rows /\ g.ops = host.ops)
      BY <1>2, <3>1, <3>2
    <3>6. ASSUME NEW o \in Owners, NEW g \in graphs'[o]
          PROVE  /\ Own(g.ops, DOMAIN arenas, OwnerTokens(o), OwnLayers(o), g.rows)
                 /\ Fresh(g.ops) /\ g.rows \in 1 .. Knobs.batched
                 /\ \A l \in OwnLayers(o) : Cut(g.ops, {}, l, g.rows)
      <4>1. CASE g \in graphs[o]
        BY <4>1 DEF Inv, GraphsWhole
      <4>2. CASE o = host.owner /\ g.rows = host.rows /\ g.ops = host.ops
        BY <1>1, <1>2, <2>1, <4>2 DEF Inv, CaptureSoFar
      <4>3. QED
        BY <3>5, <4>1, <4>2
    <3>7. GraphsWhole'
      BY <1>1, <1>3, <3>6 DEF GraphsWhole
    <3>8. QED
      BY <3>4, <3>7
  <2>2. CASE ~Capturing
    <3>1. graphs' = graphs
      BY <2>2 DEF EndPass
    <3>2. QED
      BY <1>1, <3>1, GraphsSame DEF Inv, Typed
  <2>3. QED
    BY <2>1, <2>2
<1>5. Typed'
  BY <1>1, <1>2, <1>3, <1>4 DEF Inv, Typed
<1>6. Loaded'
  <2>1. ~\E l \in LayerIds : art[l] = Nothing
    BY <1>1 DEF Inv, Loaded
  <2>2. QED
    BY <1>1, <2>1, LoadedSame DEF Inv
<1>7. StreamsFlow' /\ TakenOwn' /\ ArenasPlanned' /\ UniformPlanned' /\ Refusals' /\ CaptureSoFar'
  BY <1>1, FlowSame, TakenSame, PlannedSame, RefusalsSame, CaptureOver DEF Inv
<1>8. CallsCut'
  <2>1. ~Running'
    BY <1>1, IdleIs DEF Running
  <2>2. \A o : Left(o) = {} /\ Left(o)' = {}
    BY <1>1, <2>1 DEF Left
  <2>3. QED
    BY <1>1, <1>2, <1>3, <2>1, <2>2 DEF Inv, CallsCut
<1>9. ProfileServes'
  <2>1. \A l : Served(l)' = Served(l)
    BY <1>1, ServedSame
  <2>2. host.kind \in {"profile", "eager", "capture"}
    BY <1>2 DEF Passes
  <2>3. ASSUME NEW o \in Owners, NEW l \in OwnLayers(o), o \in profiled' PROVE Served(l)
    <3>1. CASE o \in profiled
      BY <3>1 DEF Inv, ProfileServes
    <3>2. CASE o = host.owner /\ o \notin profiled
      <4>1. host.kind = "profile"
        BY <2>2, <3>2 DEF Inv, ProfileServes
      <4>2. QED
        BY <1>1, <3>2, <4>1 DEF Inv, ProfileServes
    <3>3. QED
      BY <1>1, <2>3, <3>1, <3>2
  <2>4. QED
    BY <1>1, <1>3, <2>1, <2>3, IdleIs DEF ProfileServes
<1>10. QED
  BY <1>4, <1>5, <1>6, <1>7, <1>8, <1>9 DEF Inv

LEMMA ReplayInv ==
  ASSUME Inv, NEW o \in Owners, Replay(o)
  PROVE  Inv'
<1>1. /\ host = Idle /\ verdict = Accepted /\ stream[o] = <<>>
      /\ \A l \in LayerIds : art[l] # Nothing
  BY DEF Replay, Ready
<1>2. UNCHANGED <<model, art, spent, runtimes, arenas, bound, host, graphs, profiled, verdict>>
  BY DEF Replay
<1>3. PICK g \in graphs[o] : /\ stream' = [stream EXCEPT ![o] = g.ops]
                             /\ batch' = [batch EXCEPT ![o] = g.rows]
  BY DEF Replay
<1>4. /\ calls' = [calls EXCEPT ![o] = @ + 1] /\ taken' = [taken EXCEPT ![o] = {}]
      /\ calls[o] < Knobs.calls
  BY DEF Replay
<1>5. /\ Knobs' = Knobs /\ LayerIds' = LayerIds /\ \A l : Layer(l)' = Layer(l)
      /\ \A p : OwnLayers(p)' = OwnLayers(p) /\ OwnerTokens(p)' = OwnerTokens(p)
  BY <1>2, SameModel
<1>6. Knobs.calls \in Nat
  BY KnobFacts DEF Inv, Typed
<1>7. /\ calls \in [Owners -> Nat] /\ batch \in [Owners -> Nat]
      /\ taken \in [Owners -> SUBSET Answers] /\ stream \in [Owners -> Seq(Ops)]
      /\ g.ops \in Seq(Ops) /\ g.rows \in Nat
  BY DEF Inv, Typed
<1>8. /\ calls' \in [Owners -> Nat] /\ batch' \in [Owners -> Nat]
      /\ taken' \in [Owners -> SUBSET Answers] /\ stream' \in [Owners -> Seq(Ops)]
  BY <1>3, <1>4, <1>7
<1>9. /\ calls'[o] = calls[o] + 1 /\ batch'[o] = g.rows /\ taken'[o] = {} /\ stream'[o] = g.ops
      /\ \A p \in Owners \ {o} : /\ calls'[p] = calls[p] /\ batch'[p] = batch[p]
                                 /\ taken'[p] = taken[p] /\ stream'[p] = stream[p]
  BY <1>3, <1>4, <1>7
<1>10. \A p \in Owners : calls'[p] <= Knobs.calls
  <2>1. \A p \in Owners : calls[p] <= Knobs.calls
    BY DEF Inv, Typed
  <2>2. QED
    BY <1>4, <1>6, <1>7, <1>9, <2>1
<1>11. Typed'
  BY <1>1, <1>2, <1>5, <1>8, <1>10 DEF Inv, Typed
<1>12. /\ Own(g.ops, DOMAIN arenas, OwnerTokens(o), OwnLayers(o), g.rows)
       /\ Fresh(g.ops) /\ \A l \in OwnLayers(o) : Cut(g.ops, {}, l, g.rows)
  BY DEF Inv, GraphsWhole
<1>13. StreamsFlow'
  <2>1. ASSUME NEW p \in Owners, p # o
        PROVE  /\ Own(stream'[p], DOMAIN arenas', OwnerTokens(p)', OwnLayers(p)', batch'[p])
               /\ Chained(stream'[p])
               /\ stream'[p] # <<>> =>
                    Primed(stream'[p][1].do, arenas'[stream'[p][1].arena], Token(p, stream[p][1])')
    <3>1. ASSUME NEW op PROVE Token(p, op)' = Token(p, op)
      BY <1>9, <2>1 DEF Token
    <3>2. QED
      BY <1>2, <1>5, <1>9, <2>1, <3>1 DEF Inv, StreamsFlow
  <2>2. /\ Own(stream'[o], DOMAIN arenas', OwnerTokens(o)', OwnLayers(o)', batch'[o])
        /\ Chained(stream'[o])
    BY <1>2, <1>5, <1>9, <1>12 DEF Fresh
  <2>3. ASSUME stream'[o] # <<>>, NEW a, NEW token PROVE Primed(stream'[o][1].do, a, token)
    <3>1. stream'[o][1].do \in {"pack", "stage"}
      BY <1>9, <1>12, <2>3 DEF Fresh, Starts
    <3>2. QED
      BY <3>1 DEF Primed
  <2>4. QED
    BY <2>1, <2>2, <2>3 DEF StreamsFlow
<1>14. GraphsWhole' /\ CaptureSoFar'
  BY <1>1, <1>2, GraphsSame, CaptureOver DEF Inv
<1>15. TakenOwn'
  BY <1>9 DEF Inv, TakenOwn
<1>16. CallsCut'
  <2>1. ~Running /\ ~Running'
    BY <1>1, <1>2, IdleIs DEF Running
  <2>2. \A p : Left(p) = {} /\ Left(p)' = {}
    BY <2>1 DEF Left
  <2>3. \A p \in Owners \ {o} : calls'[p] > 0 =>
           \A l \in OwnLayers(p) : Cut(stream'[p], taken'[p], l, batch'[p])
    BY <1>1, <1>9, <2>2 DEF Inv, CallsCut
  <2>4. \A l \in OwnLayers(o) : Cut(stream'[o], taken'[o], l, batch'[o])
    BY <1>9, <1>12
  <2>5. QED
    BY <1>5, <2>1, <2>2, <2>3, <2>4 DEF CallsCut
<1>17. Loaded'
  BY <1>1, <1>2, LoadedSame DEF Inv
<1>18. ArenasPlanned' /\ UniformPlanned' /\ Refusals' /\ ProfileServes'
  BY <1>2, PlannedSame, RefusalsSame, ServesSame DEF Inv
<1>19. QED
  BY <1>11, <1>13, <1>14, <1>15, <1>16, <1>17, <1>18 DEF Inv

LEMMA ArenaKeyOwner ==
  ASSUME NEW l, NEW k \in ArenaKeys(l)
  PROVE  k.owner = OwnerToken(l)
BY DEF ArenaKeys, ArenaKey

LEMMA WarmupInv ==
  ASSUME Inv, NEW l, Warmup(l)
  PROVE  Inv'
<1>1. /\ host = Idle /\ verdict = Accepted /\ l \in LayerIds
      /\ Layer(l).owner \in profiled /\ stream[Layer(l).owner] = <<>> /\ Fused(l)
      /\ UNCHANGED <<model, art, spent, runtimes, bound, host, stream, graphs, calls, batch,
                     taken, profiled>>
  BY DEF Warmup
<1>2. model \in Models /\ Layer(l).owner \in Owners /\ l \in OwnLayers(Layer(l).owner)
  BY <1>1, LayerFacts DEF Inv, Typed
<1>3. l \in bound
  BY <1>1, <1>2 DEF Inv, ProfileServes, Served
<1>4. arenas' = DummyPacked(l) /\ verdict' = verdict
  BY <1>3 DEF Warmup
<1>5. /\ Knobs' = Knobs /\ LayerIds' = LayerIds /\ \A j : Layer(j)' = Layer(j)
      /\ \A p : OwnLayers(p)' = OwnLayers(p) /\ OwnerTokens(p)' = OwnerTokens(p)
  BY <1>1, SameModel
<1>6. \A k \in DOMAIN arenas : arenas[k] \in Arenas
  BY DEF Inv, Typed
<1>7. DOMAIN arenas' = DOMAIN arenas
  BY <1>4 DEF DummyPacked
<1>8. \A k \in DOMAIN arenas : k \notin ArenaKeys(l) => arenas'[k] = arenas[k]
  BY <1>4 DEF DummyPacked
<1>9. \A k \in DOMAIN arenas : k \in ArenaKeys(l) => arenas'[k] = [arenas[k] EXCEPT !.route = {}]
  BY <1>4 DEF DummyPacked
<1>10. ASSUME NEW k \in DOMAIN arenas
       PROVE  arenas'[k] \in Arenas /\ arenas'[k].slots = arenas[k].slots
              /\ arenas'[k].blocks = arenas[k].blocks
  <2>1. arenas[k] \in Arenas
    BY <1>6
  <2>2. CASE k \in ArenaKeys(l)
    <3>1. arenas'[k] = [arenas[k] EXCEPT !.route = {}]
      BY <1>9, <2>2
    <3>2. {} \in Cells
      BY DEF Cells
    <3>3. QED
      BY <2>1, <3>1, <3>2 DEF Arenas
  <2>3. CASE k \notin ArenaKeys(l)
    BY <1>8, <2>1, <2>3
  <2>4. QED
    BY <2>2, <2>3
<1>11. Typed'
  BY <1>1, <1>4, <1>5, <1>7, <1>10 DEF Inv, Typed
<1>12. Loaded'
  <2>1. \A j : Fused(j)' = Fused(j)
    BY <1>1 DEF Fused
  <2>2. \A j : Stored(j)' = Stored(j)
    BY <1>1, <1>5 DEF Stored
  <2>3. QED
    BY <1>1, <1>5, <1>7, <2>1, <2>2 DEF Inv, Loaded
<1>13. StreamsFlow'
  <2>1. ASSUME NEW o \in Owners, stream[o] # <<>>
        PROVE  arenas'[stream[o][1].arena] = arenas[stream[o][1].arena]
    <3>1. OwnerToken(l) \notin OwnerTokens(o)
      BY <1>1, <1>2, <2>1, OwnerTokenIs, TokensApart
    <3>2. 1 \in DOMAIN stream[o]
      <4>1. stream[o] \in Seq(Ops)
        BY DEF Inv, Typed
      <4>2. QED
        BY <2>1, <4>1
    <3>3. stream[o][1].arena \in DOMAIN arenas /\ stream[o][1].arena.owner \in OwnerTokens(o)
      BY <3>2 DEF Inv, StreamsFlow, Own
    <3>4. QED
      BY <1>8, <3>1, <3>3, ArenaKeyOwner
  <2>2. \A o, op : Token(o, op)' = Token(o, op)
    BY <1>1 DEF Token
  <2>3. QED
    BY <1>1, <1>5, <1>7, <2>1, <2>2 DEF Inv, StreamsFlow
<1>14. GraphsWhole' /\ CaptureSoFar' /\ CallsCut' /\ TakenOwn'
  BY <1>1, <1>4, <1>7, GraphsSame, CaptureSame, CutSame, TakenSame DEF Inv
<1>15. ArenasPlanned' /\ UniformPlanned'
  <2>1. UniformPlanned'
    BY <1>1, <1>5, SameLayers DEF Inv, UniformPlanned
  <2>2. ArenasPlanned'
    BY <1>1, <1>5, <1>7, <1>10, SameLayers DEF Inv, ArenasPlanned
  <2>3. QED
    BY <2>1, <2>2
<1>16. ProfileServes' /\ Refusals'
  BY <1>1, <1>4, ServesSame, RefusalsSame DEF Inv
<1>17. QED
  BY <1>11, <1>12, <1>13, <1>14, <1>15, <1>16 DEF Inv

LEMMA RestInv ==
  ASSUME Inv, UNCHANGED vars
  PROVE  Inv'
<1>1. UNCHANGED <<model, art, spent, runtimes, arenas, bound, host, stream, graphs, calls,
                  batch, taken, profiled, verdict>>
  BY DEF vars
<1>2. Typed'
  <2>1. Knobs' = Knobs /\ \A o : OwnLayers(o)' = OwnLayers(o)
    BY <1>1, SameModel
  <2>2. QED
    BY <1>1, <2>1 DEF Inv, Typed
<1>3. Loaded'
  <2>1. (\E l \in LayerIds : art[l] = Nothing) => host' = Idle /\ profiled' = {}
    BY <1>1 DEF Inv, Loaded
  <2>2. QED
    BY <1>1, <2>1, LoadedSame DEF Inv
<1>4. QED
  BY <1>1, <1>2, <1>3, FlowSame, GraphsSame, CaptureSame, CutSame, TakenSame, PlannedSame,
     ServesSame, RefusalsSame DEF Inv

-----------------------------------------------------------------------------
(* A launch executed.                                                      *)

Tokens == Owners \X Nat \X Nat \X Nat

LEMMA EffectIs ==
  ASSUME NEW a \in Arenas, NEW token \in Tokens, NEW do \in Works
  PROVE  /\ Effect(do, a, token) \in Arenas
         /\ Effect(do, a, token).slots = a.slots /\ Effect(do, a, token).blocks = a.blocks
<1>1. {token} \in Cells /\ {} \in Cells
  BY DEF Cells, Tokens
<1>2. a.route \cup {token} \in Cells /\ a.acc \cup {token} \in Cells
      /\ a.out \cup a.acc \cup {token} \in Cells
  BY <1>1 DEF Arenas, Cells
<1> HIDE DEF Cells
<1>3. CASE do = "pack"
  BY <1>1, <1>3 DEF Effect, Arenas
<1>4. CASE do = "kernel"
  BY <1>2, <1>4 DEF Effect, Arenas
<1>5. CASE do = "sum"
  BY <1>2, <1>5 DEF Effect, Arenas
<1>6. CASE do = "stage"
  BY <1>1, <1>6 DEF Effect, Arenas
<1>7. CASE do = "clear"
  BY <1>1, <1>7 DEF Effect, Arenas
<1>8. CASE do = "fused"
  BY <1>2, <1>8 DEF Effect, Arenas
<1>9. CASE do = "take"
  BY <1>9 DEF Effect
<1>10. QED
  BY <1>3, <1>4, <1>5, <1>6, <1>7, <1>8, <1>9 DEF Works

LEMMA PrimedNext ==
  ASSUME NEW a \in Arenas, NEW token, NEW do \in Works \ {"take"}, Primed(do, a, token)
  PROVE  Primed(After(do), Effect(do, a, token), token)
<1>1. CASE do = "pack"
  BY <1>1 DEF Effect, Arenas, Primed, After
<1>2. CASE do = "kernel"
  BY <1>2 DEF Effect, Arenas, Primed, After
<1>3. CASE do = "sum"
  BY <1>3 DEF Effect, Arenas, Primed, After
<1>4. CASE do = "stage"
  BY <1>4 DEF Effect, Arenas, Primed, After
<1>5. CASE do = "clear"
  BY <1>5 DEF Effect, Arenas, Primed, After
<1>6. CASE do = "fused"
  BY <1>6 DEF Effect, Arenas, Primed, After
<1>7. QED
  BY <1>1, <1>2, <1>3, <1>4, <1>5, <1>6 DEF Works

LEMMA ExecuteInv ==
  ASSUME Inv, NEW o \in Owners, Execute(o)
  PROVE  Inv'
<1> DEFINE q == stream[o]
           op == q[1]
           a == arenas[op.arena]
           token == Token(o, op)
           answer == [layer |-> op.layer, from |-> op.from, to |-> op.to, of |-> a.out]
<1>1. /\ q # <<>> /\ q \in Seq(Ops) /\ op \in Ops /\ 1 \in DOMAIN q /\ Head(q) = op
      /\ Tail(q) \in Seq(Ops) /\ Len(q) \in Nat \ {0} /\ Len(Tail(q)) = Len(q) - 1
      /\ \A i \in 1 .. Len(q) - 1 : Tail(q)[i] = q[i + 1]
  <2>1. q # <<>> /\ q \in Seq(Ops)
    BY DEF Execute, Inv, Typed
  <2>2. QED
    BY <2>1, TailIs
<1>2. UNCHANGED <<model, art, spent, runtimes, bound, host, graphs, calls, batch, profiled, verdict>>
  BY DEF Execute
<1>3. /\ arenas' = [arenas EXCEPT ![op.arena] = Effect(op.do, a, token)]
      /\ taken' = IF op.do # "take" THEN taken ELSE [taken EXCEPT ![o] = @ \cup {answer}]
      /\ stream' = [stream EXCEPT ![o] = Tail(q)]
  BY <1>1 DEF Execute
<1>4. /\ Knobs' = Knobs /\ LayerIds' = LayerIds /\ \A j : Layer(j)' = Layer(j)
      /\ \A p : OwnLayers(p)' = OwnLayers(p) /\ OwnerTokens(p)' = OwnerTokens(p)
  BY <1>2, SameModel
<1>5. /\ Own(q, DOMAIN arenas, OwnerTokens(o), OwnLayers(o), batch[o]) /\ Chained(q)
      /\ Primed(op.do, a, token)
  BY <1>1 DEF Inv, StreamsFlow
<1>6. /\ op.arena \in DOMAIN arenas /\ op.arena.owner \in OwnerTokens(o)
      /\ 1 <= op.from /\ op.from <= op.to /\ op.to <= batch[o]
  BY <1>1, <1>5 DEF Own
<1>7. a \in Arenas /\ calls \in [Owners -> Nat]
  BY <1>6 DEF Inv, Typed
<1>8. /\ op.do \in Works /\ op.layer \in Nat /\ op.from \in Nat /\ op.to \in Nat
      /\ token \in Tokens /\ token = <<o, calls[o], op.layer, op.from>>
  BY <1>1, <1>7 DEF Ops, Token, Tokens
<1> DEFINE b == Effect(op.do, a, token)
<1>9. b \in Arenas /\ b.slots = a.slots /\ b.blocks = a.blocks
  BY <1>7, <1>8, EffectIs
<1>10. /\ DOMAIN arenas' = DOMAIN arenas /\ arenas'[op.arena] = b
       /\ \A k \in DOMAIN arenas : k # op.arena => arenas'[k] = arenas[k]
  BY <1>3, <1>6
<1>11. stream \in [Owners -> Seq(Ops)] /\ taken \in [Owners -> SUBSET Answers]
  BY DEF Inv, Typed
<1>12. /\ stream' \in [Owners -> Seq(Ops)] /\ stream'[o] = Tail(q)
       /\ \A p \in Owners \ {o} : stream'[p] = stream[p]
  BY <1>1, <1>3, <1>11
<1>13. op.do = "take" => answer \in Answers /\ answer.of = {token}
  <2>1. op.do = "take" => a.out = {token}
    BY <1>5 DEF Primed
  <2>2. a.out \in Cells
    BY <1>7 DEF Arenas
  <2>3. QED
    BY <1>8, <2>1, <2>2 DEF Answers, Cells
<1>14. /\ taken' \in [Owners -> SUBSET Answers]
       /\ taken'[o] = IF op.do # "take" THEN taken[o] ELSE taken[o] \cup {answer}
       /\ \A p \in Owners \ {o} : taken'[p] = taken[p]
  <2> HIDE DEF answer
  <2>1. QED
    BY <1>3, <1>11, <1>13
<1> HIDE DEF q, op, a, token, b
<1>15. \A k \in DOMAIN arenas : arenas'[k] \in Arenas /\ arenas'[k].slots = arenas[k].slots
                                /\ arenas'[k].blocks = arenas[k].blocks
  <2>1. \A k \in DOMAIN arenas : arenas[k] \in Arenas
    BY DEF Inv, Typed
  <2>2. QED
    BY <1>9, <1>10, <2>1 DEF a
<1>16. Typed'
  BY <1>2, <1>4, <1>10, <1>12, <1>14, <1>15 DEF Inv, Typed
<1>17. Loaded'
  <2>1. \A j : Fused(j)' = Fused(j)
    BY <1>2 DEF Fused
  <2>2. \A j : Stored(j)' = Stored(j)
    BY <1>2, <1>4 DEF Stored
  <2>3. QED
    BY <1>2, <1>4, <1>10, <2>1, <2>2 DEF Inv, Loaded
<1>18. \A p, x : Token(p, x)' = Token(p, x)
  BY <1>2 DEF Token
<1>19. ASSUME NEW p \in Owners, p # o
       PROVE  /\ Own(stream'[p], DOMAIN arenas', OwnerTokens(p)', OwnLayers(p)', batch'[p])
              /\ Chained(stream'[p])
              /\ stream'[p] # <<>> =>
                   Primed(stream'[p][1].do, arenas'[stream'[p][1].arena], Token(p, stream[p][1])')
  <2>1. ASSUME stream[p] # <<>>
        PROVE  arenas'[stream[p][1].arena] = arenas[stream[p][1].arena]
    <3>1. OwnerTokens(p) \cap OwnerTokens(o) = {}
      <4>1. model \in Models /\ o \in Owners
        BY DEF Inv, Typed
      <4>2. QED
        BY <1>19, <4>1, TokensApart
    <3>2. 1 \in DOMAIN stream[p]
      BY <1>11, <2>1
    <3>3. stream[p][1].arena \in DOMAIN arenas /\ stream[p][1].arena.owner \in OwnerTokens(p)
      BY <3>2 DEF Inv, StreamsFlow, Own
    <3>4. QED
      BY <1>6, <1>10, <3>1, <3>3
  <2>2. QED
    BY <1>2, <1>4, <1>10, <1>12, <1>18, <1>19, <2>1 DEF Inv, StreamsFlow
<1>20. /\ Own(stream'[o], DOMAIN arenas', OwnerTokens(o)', OwnLayers(o)', batch'[o])
       /\ Chained(stream'[o])
  <2>1. Own(Tail(q), DOMAIN arenas, OwnerTokens(o), OwnLayers(o), batch[o])
    BY <1>1, <1>5, OwnTail
  <2>2. Chained(Tail(q))
    BY <1>1, <1>5, ChainedTail
  <2>3. QED
    BY <1>2, <1>4, <1>10, <1>12, <2>1, <2>2
<1>21. ASSUME Tail(q) # <<>>
       PROVE  Primed(Tail(q)[1].do, arenas'[Tail(q)[1].arena], Token(o, Tail(q)[1]))
  <2>1. Len(q) >= 2
    <3>1. Len(Tail(q)) # 0
      BY <1>1, <1>21
    <3>2. QED
      BY <1>1, <3>1
  <2>2. Tail(q)[1] = q[2] /\ 2 \in DOMAIN q
    BY <1>1, <2>1
  <2>3. IF q[1].do = "take" THEN 2 \in DOMAIN q => q[2].do \in Starts
        ELSE /\ q[2].do = After(q[1].do) /\ q[2].arena = q[1].arena
             /\ q[2].layer = q[1].layer /\ q[2].from = q[1].from
    <3>1. IF q[1].do = "take" THEN 1 + 1 \in DOMAIN q => q[1 + 1].do \in Starts
          ELSE /\ q[1 + 1].do = After(q[1].do) /\ q[1 + 1].arena = q[1].arena
               /\ q[1 + 1].layer = q[1].layer /\ q[1 + 1].from = q[1].from
      <4>1. 1 \in DOMAIN q /\ Chained(q)
        BY <1>1, <1>5
      <4>2. QED
        BY <4>1 DEF Chained
    <3>2. QED
      BY <3>1
  <2>4. CASE op.do = "take"
    <3>1. q[2].do \in {"pack", "stage"}
      BY <2>2, <2>4, <2>3 DEF Starts, op
    <3>2. QED
      BY <2>2, <3>1 DEF Primed
  <2>5. CASE op.do # "take"
    <3>1. /\ q[2].do = After(op.do) /\ q[2].arena = op.arena /\ q[2].layer = op.layer
          /\ q[2].from = op.from
      BY <2>5, <2>3 DEF op
    <3>2. Primed(After(op.do), b, token)
      BY <1>5, <1>7, <1>8, <2>5, PrimedNext DEF b
    <3>3. Token(o, q[2]) = token
      BY <3>1 DEF Token, token
    <3>4. QED
      BY <1>10, <2>2, <3>1, <3>2, <3>3
  <2>6. QED
    BY <2>4, <2>5
<1>22. StreamsFlow'
  <2>1. stream'[o] # <<>> =>
           Primed(stream'[o][1].do, arenas'[stream'[o][1].arena], Token(o, stream[o][1])')
    <3>1. Token(o, stream[o][1])' = Token(o, stream'[o][1])
      BY <1>2 DEF Token
    <3>2. QED
      BY <1>12, <1>21, <3>1
  <2>2. QED
    BY <1>19, <1>20, <2>1 DEF StreamsFlow
<1>23. GraphsWhole' /\ CaptureSoFar'
  BY <1>2, <1>10, GraphsSame, CaptureSame DEF Inv
<1>24. TakenOwn'
  <2>1. ASSUME NEW t \in taken'[o]
        PROVE  /\ t.of = {<<o, calls[o], t.layer, t.from>>}
               /\ t.from <= t.to /\ t.to <= batch[o]
    <3>1. CASE t \in taken[o]
      BY <3>1 DEF Inv, TakenOwn
    <3>2. CASE op.do = "take" /\ t = answer
      BY <1>6, <1>8, <1>13, <3>2
    <3>3. QED
      BY <1>14, <2>1, <3>1, <3>2
  <2>2. QED
    BY <1>2, <1>14, <2>1 DEF Inv, TakenOwn
<1>25. CallsCut'
  <2>1. Running' = Running /\ \A p : Left(p)' = Left(p)
    BY <1>2 DEF Running, Left
  <2>2. ASSUME verdict = Accepted, calls[o] > 0, NEW l \in OwnLayers(o), l \in Left(o)
        PROVE  Untouched(Tail(q), taken'[o], l)
    <3>1. Untouched(q, taken[o], l)
      BY <2>2 DEF Inv, CallsCut, q
    <3>2. Untouched(Tail(q), taken[o], l) /\ op.layer # l
      BY <1>1, <3>1, UntouchedTail DEF op
    <3>3. QED
      BY <1>14, <3>2 DEF Untouched
  <2>3. ASSUME verdict = Accepted, calls[o] > 0, NEW l \in OwnLayers(o), l \notin Left(o)
        PROVE  Cut(Tail(q), taken'[o], l, batch[o])
    <3>1. Cut(q, taken[o], l, batch[o])
      BY <2>3 DEF Inv, CallsCut, q
    <3> DEFINE n == batch[o]
               T == taken[o]
    <3>2. CASE op.do = "take" /\ op.layer = l
      <4>1. Takes(q, 1, l)
        BY <3>2 DEF Takes, op
      <4>2. answer.layer = l /\ answer.from = q[1].from /\ answer.to = q[1].to
        BY <3>2 DEF op
      <4>3. taken'[o] = T \cup {answer}
        BY <1>14, <3>2
      <4> HIDE DEF answer, T, n
      <4>4. Cut(Tail(q), T \cup {answer}, l, n)
        BY <1>1, <3>1, <4>1, <4>2, CutTake DEF T, n
      <4>5. QED
        BY <4>3, <4>4 DEF n
    <3>3. CASE ~(op.do = "take" /\ op.layer = l)
      <4>1. ~Takes(q, 1, l)
        BY <3>3 DEF Takes, op
      <4>2. Cut(Tail(q), T, l, n)
        BY <1>1, <3>1, <4>1, CutTail
      <4>3. CASE op.do # "take"
        BY <1>14, <4>2, <4>3
      <4>4. CASE op.do = "take"
        <5>1. answer.layer # l /\ taken'[o] = T \cup {answer}
          BY <1>14, <3>3, <4>4
        <5> HIDE DEF answer, T, n
        <5>2. Cut(Tail(q), T \cup {answer}, l, n)
          BY <4>2, <5>1, CutOther
        <5>3. QED
          BY <5>1, <5>2 DEF n
      <4>5. QED
        BY <4>3, <4>4
    <3>4. QED
      BY <3>2, <3>3
  <2>4. ASSUME verdict = Accepted, calls[o] > 0, NEW l \in OwnLayers(o)
        PROVE  IF l \in Left(o) THEN Untouched(stream'[o], taken'[o], l)
               ELSE Cut(stream'[o], taken'[o], l, batch[o])
    BY <1>12, <2>2, <2>3, <2>4
  <2>5. QED
    BY <1>2, <1>4, <1>12, <1>14, <2>1, <2>4 DEF Inv, CallsCut
<1>26. ArenasPlanned' /\ UniformPlanned'
  <2>1. UniformPlanned'
    BY <1>2, <1>4, SameLayers DEF Inv, UniformPlanned
  <2>2. ArenasPlanned'
    BY <1>2, <1>4, <1>10, <1>15, SameLayers DEF Inv, ArenasPlanned
  <2>3. QED
    BY <2>1, <2>2
<1>27. ProfileServes' /\ Refusals'
  BY <1>2, ServesSame, RefusalsSame DEF Inv
<1>28. QED
  BY <1>16, <1>17, <1>22, <1>23, <1>24, <1>25, <1>26, <1>27 DEF Inv

-----------------------------------------------------------------------------
(* A layer of a pass: what any of the three paths does.                    *)

LEMMA PassIs ==
  ASSUME Inv, host # Idle, host.left # {}
  PROVE  /\ model \in Models /\ host \in Passes /\ host.owner \in Owners /\ verdict = Accepted
         /\ host.kind \in {"profile", "eager", "capture"} /\ host.rows \in 1 .. Knobs.batched
         /\ host.rows \in Nat \ {0} /\ Knobs.batched \in Nat \ {0}
         /\ Current \in host.left /\ Current \in LayerIds /\ Current \in OwnLayers(host.owner)
         /\ Layer(Current).owner = host.owner
         /\ host.left \subseteq OwnLayers(host.owner)
         /\ \A l \in LayerIds : art[l] # Nothing
         /\ host.kind # "profile" => Served(Current)
<1>1. model \in Models /\ host \in Passes /\ verdict = Accepted
      /\ host.rows \in 1 .. Knobs.batched /\ host.left \subseteq OwnLayers(host.owner)
  BY DEF Inv, Typed
<1>2. host.owner \in Owners /\ host.kind \in {"profile", "eager", "capture"}
  BY <1>1 DEF Passes
<1>3. Knobs.batched \in Nat \ {0} /\ host.rows \in Nat \ {0}
  BY <1>1, KnobFacts
<1>4. host.left \subseteq Nat /\ host.left \subseteq LayerIds
      /\ \A l \in host.left : Layer(l).owner = host.owner
  BY <1>1, OwnLayersAre
<1>5. Current \in host.left
  BY <1>4, LeastIn DEF Current
<1>6. \A l \in LayerIds : art[l] # Nothing
  BY DEF Inv, Loaded
<1>7. host.kind # "profile" => Served(Current)
  BY <1>1, <1>2, <1>5 DEF Inv, ProfileServes
<1>8. QED
  BY <1>1, <1>2, <1>3, <1>4, <1>5, <1>6, <1>7

LEMMA RefusedInv ==
  ASSUME Inv, host # Idle, host.left # {}, RefuseCall,
         UNCHANGED <<model, art, spent, graphs, calls, batch, taken, profiled>>,
         host.kind = "profile" => Misconfigured(Current),
         host.kind = "eager" => UnseenByProfile(Current),
         host.kind = "capture" =>
            \/ UnseenByProfile(Current)
            \/ /\ art[Current].kind = "uniform"
               /\ \/ host.rows < Knobs.minM
                  \/ host.rows > Knobs.maxM /\ ~Knobs.prefillTrellis
  PROVE  Inv'
<1>1. /\ verdict' = [at |-> host.kind, layer |-> Current, rows |-> host.rows] /\ host' = Idle
      /\ UNCHANGED <<stream, runtimes, arenas, bound>>
  BY DEF RefuseCall, Refuse
<1>2. /\ Knobs' = Knobs /\ LayerIds' = LayerIds /\ \A l : Layer(l)' = Layer(l)
      /\ \A o : OwnLayers(o)' = OwnLayers(o)
  BY SameModel
<1>3. host.kind \in {"profile", "eager", "capture"} /\ \A l \in LayerIds : art[l] # Nothing
  BY PassIs
<1>4. /\ verdict'.at = host.kind /\ verdict'.layer = Current /\ verdict'.rows = host.rows
      /\ verdict' # Accepted
  BY <1>1, <1>3 DEF Accepted
<1>5. Typed'
  BY <1>1, <1>2 DEF Inv, Typed
<1>6. Loaded'
  BY <1>1, <1>3, LoadedSame DEF Inv
<1>7. StreamsFlow' /\ GraphsWhole' /\ CaptureSoFar' /\ CallsCut' /\ TakenOwn'
  BY <1>1, <1>4, FlowSame, GraphsSame, CaptureOver, CutRefused, TakenSame DEF Inv
<1>8. ArenasPlanned' /\ UniformPlanned'
  BY <1>1, PlannedSame DEF Inv
<1>9. ProfileServes'
  <2>1. \A l : Served(l)' = Served(l)
    BY <1>1, ServedSame
  <2>2. QED
    BY <1>1, <1>2, <2>1, IdleIs DEF Inv, ProfileServes
<1>10. Refusals'
  <2>1. MaxDecode' = MaxDecode
    BY <1>2 DEF MaxDecode
  <2>2. \A l : Misrated(l)' = Misrated(l)
    BY <1>2, SameLayers DEF Misrated
  <2>3. \A l : Plannable(l)' = Plannable(l)
    BY <1>2, <2>1 DEF Plannable
  <2>4. /\ \A l : Misconfigured(l)' = Misconfigured(l)
        /\ \A l : UnseenByProfile(l)' = UnseenByProfile(l)
    BY <1>2, <2>2, <2>3, SameLayers DEF Misconfigured, UnseenByProfile
  <2>5. ProfiledNeverRefused'
    BY <1>2, <1>3, <1>4, <2>4 DEF ProfiledNeverRefused
  <2>6. QED
    BY <1>3, <1>4, <2>5 DEF Refusals
<1>11. QED
  BY <1>5, <1>6, <1>7, <1>8, <1>9, <1>10 DEF Inv

LEMMA LaunchedInv ==
  ASSUME Inv, host # Idle, host.left # {},
         NEW steps \in {MixedSteps, GraphSteps}, NEW key \in ArenaNames, key \in DOMAIN arenas',
         key.owner \in OwnerTokens(host.owner), NEW sl, Sliced(sl, host.rows),
         Launch(Launches(steps, key, Current, sl)),
         UNCHANGED <<model, art, spent, graphs, calls, batch, taken, profiled, verdict>>,
         DOMAIN arenas \subseteq DOMAIN arenas', DOMAIN arenas' \subseteq ArenaNames,
         \A k \in DOMAIN arenas : arenas'[k] = arenas[k],
         \A k \in DOMAIN arenas' : arenas'[k] \in Arenas,
         DOMAIN runtimes \subseteq DOMAIN runtimes',
         \A k \in DOMAIN runtimes : runtimes'[k] = runtimes[k],
         bound \subseteq bound', \A j \in bound' : j \in bound \/ (j = Current /\ Fused(j)),
         ArenasPlanned', UniformPlanned',
         host.kind = "profile" => \A j : j = Current => Served(j)'
  PROVE  Inv'
<1> DEFINE o == host.owner
           l == Current
           b == Launches(steps, key, l, sl)
           m == host.rows
<1>1. /\ Knobs' = Knobs /\ LayerIds' = LayerIds /\ \A j : Layer(j)' = Layer(j)
      /\ \A p : OwnLayers(p)' = OwnLayers(p) /\ OwnerTokens(p)' = OwnerTokens(p)
  BY SameModel
<1>2. /\ model \in Models /\ host \in Passes /\ o \in Owners /\ verdict = Accepted
      /\ host.kind \in {"profile", "eager", "capture"} /\ m \in 1 .. Knobs.batched
      /\ m \in Nat \ {0} /\ l \in host.left /\ l \in LayerIds /\ l \in OwnLayers(o)
      /\ host.left \subseteq OwnLayers(o) /\ \A j \in LayerIds : art[j] # Nothing
  BY PassIs
<1>3. l \in Nat
  BY <1>2, OwnLayersAre
<1>4. /\ b \in Seq(Ops) /\ Fresh(b) /\ Own(b, DOMAIN arenas', OwnerTokens(o), OwnLayers(o), m)
      /\ \A i \in DOMAIN b : b[i].layer = l
      /\ Cut(b, {}, l, m)
  <2> DEFINE keys == DOMAIN arenas'
             layers == OwnLayers(o)
  <2>1. key \in keys /\ l \in layers /\ key.owner \in OwnerTokens(o)
    BY <1>2
  <2> HIDE DEF keys, layers, l, m, b
  <2>2. /\ Launches(steps, key, l, sl) \in Seq(Ops) /\ Fresh(Launches(steps, key, l, sl))
        /\ \A tokens : key.owner \in tokens => Own(Launches(steps, key, l, sl), keys, tokens, layers, m)
        /\ \A i \in DOMAIN Launches(steps, key, l, sl) : Launches(steps, key, l, sl)[i].layer = l
        /\ Cut(Launches(steps, key, l, sl), {}, l, m)
    <3>1. Sliced(sl, m) /\ m \in Nat
      BY <1>2 DEF m
    <3>2. QED
      BY <1>3, <2>1, <3>1, LaunchesAre
  <2>3. QED
    BY <2>1, <2>2 DEF b, keys, layers, o
<1>5. /\ host' = [host EXCEPT !.left = @ \ {l}, !.ops = IF Capturing THEN @ \o b ELSE @]
      /\ stream' = IF Capturing THEN stream ELSE [stream EXCEPT ![o] = @ \o b]
  BY DEF Launch
<1> HIDE DEF b, l, m, o
<1>6. host.ops \in Seq(Ops) /\ host.left \subseteq Nat /\ stream \in [Owners -> Seq(Ops)]
  BY <1>2 DEF Passes, Inv, Typed
<1>7. /\ host'.kind = host.kind /\ host'.owner = o /\ host'.rows = m /\ host'.left = host.left \ {l}
      /\ host'.ops = IF Capturing THEN host.ops \o b ELSE host.ops
  BY <1>2, <1>5 DEF Passes, o, m
<1>8. host' \in Passes /\ host' # Idle
  <2>1. host.ops \o b \in Seq(Ops)
    BY <1>4, <1>6
  <2> DEFINE left == host.left \ {l}
             ops == IF Capturing THEN host.ops \o b ELSE host.ops
  <2>2. left \subseteq Nat /\ ops \in Seq(Ops)
    BY <1>6, <2>1
  <2>3. host' = [host EXCEPT !.left = left, !.ops = ops]
    BY <1>5
  <2> HIDE DEF left, ops
  <2>4. host' \in Passes
    BY <1>2, <2>2, <2>3 DEF Passes
  <2>5. QED
    BY <2>4, IdleIs
<1>9. Capturing' = Capturing /\ Running' = Running /\ (Capturing => ~Running)
  BY <1>7 DEF Capturing, Running
<1>10. /\ stream' \in [Owners -> Seq(Ops)]
       /\ stream'[o] = IF Capturing THEN stream[o] ELSE stream[o] \o b
       /\ \A p \in Owners \ {o} : stream'[p] = stream[p]
  <2>1. stream[o] \o b \in Seq(Ops)
    BY <1>2, <1>4, <1>6
  <2>2. QED
    BY <1>2, <1>5, <1>6, <2>1
<1>11. Typed'
  BY <1>1, <1>2, <1>7, <1>8, <1>10 DEF Inv, Typed, o, m
<1>12. Loaded'
  <2>1. \A j : Fused(j)' = Fused(j)
    BY DEF Fused
  <2>2. \A j : Stored(j)' = Stored(j)
    BY <1>1 DEF Stored
  <2>3. QED
    BY <1>1, <1>2, <2>1, <2>2 DEF Inv, Loaded, l
<1>13. \A p, x : Token(p, x)' = Token(p, x)
  BY DEF Token
<1>14. ASSUME NEW p \in Owners
       PROVE  /\ Own(stream[p], DOMAIN arenas', OwnerTokens(p), OwnLayers(p), batch[p])
              /\ Chained(stream[p])
              /\ stream[p] # <<>> =>
                   Primed(stream[p][1].do, arenas'[stream[p][1].arena], Token(p, stream[p][1]))
  <2>1. Own(stream[p], DOMAIN arenas, OwnerTokens(p), OwnLayers(p), batch[p])
    BY DEF Inv, StreamsFlow
  <2>2. Own(stream[p], DOMAIN arenas', OwnerTokens(p), OwnLayers(p), batch[p])
    BY <2>1, OwnMore, Zenon
  <2>3. ASSUME stream[p] # <<>>
        PROVE  stream[p][1].arena \in DOMAIN arenas
    <3>1. 1 \in DOMAIN stream[p]
      BY <1>6, <2>3
    <3>2. QED
      BY <2>1, <3>1 DEF Own
  <2>4. QED
    BY <2>2, <2>3 DEF Inv, StreamsFlow
<1>15. ASSUME ~Capturing
       PROVE  m = batch[o] /\ calls[o] > 0
  BY <1>2, <1>15 DEF Capturing, Running, Inv, CallsCut, o, m
<1>16. /\ Own(stream'[o], DOMAIN arenas', OwnerTokens(o), OwnLayers(o), batch[o])
       /\ Chained(stream'[o])
       /\ stream'[o] # <<>> =>
            Primed(stream'[o][1].do, arenas'[stream'[o][1].arena], Token(o, stream'[o][1]))
  <2>1. CASE Capturing
    BY <1>2, <1>10, <1>14, <2>1
  <2>2. CASE ~Capturing
    <3> DEFINE q == stream[o]
               n == batch[o]
               token == OwnerTokens(o)
               layers == OwnLayers(o)
               keys == DOMAIN arenas'
    <3>1. q \in Seq(Ops) /\ Own(q, keys, token, layers, n) /\ Own(b, keys, token, layers, n)
      BY <1>2, <1>4, <1>6, <1>14, <1>15, <2>2
    <3>2. Chained(q)
      BY <1>2, <1>14
    <3>3. stream'[o] = q \o b
      BY <1>10, <2>2
    <3>4. q # <<>> => Primed(q[1].do, arenas'[q[1].arena], Token(o, q[1]))
      BY <1>2, <1>14
    <3> HIDE DEF q, n, token, layers, keys
    <3>5. Own(q \o b, keys, token, layers, n)
      BY <1>4, <3>1, OwnJoin
    <3>6. Chained(q \o b)
      BY <1>4, <3>1, <3>2, ChainedJoin
    <3>7. CASE q = <<>>
      <4>1. q \o b = b
        BY <1>4, <3>7
      <4>2. b # <<>> => b[1].do \in {"pack", "stage"}
        BY <1>4 DEF Fresh, Starts
      <4>3. \A x, t : b # <<>> => Primed(b[1].do, x, t)
        BY <4>2 DEF Primed
      <4>4. QED
        BY <3>3, <3>5, <3>6, <4>1, <4>3 DEF n, token, layers, keys
    <3>8. CASE q # <<>>
      <4>1. Len(q) \in Nat \ {0}
        BY <3>1, <3>8
      <4>2. (q \o b)[1] = q[1]
        BY <1>4, <3>1, <4>1
      <4>3. QED
        BY <3>3, <3>4, <3>5, <3>6, <3>8, <4>2 DEF n, token, layers, keys
    <3>9. QED
      BY <3>7, <3>8
  <2>3. QED
    BY <2>1, <2>2
<1>17. StreamsFlow'
  <2>1. ASSUME NEW p \in Owners
        PROVE  /\ Own(stream'[p], DOMAIN arenas', OwnerTokens(p), OwnLayers(p), batch[p])
               /\ Chained(stream'[p])
               /\ stream'[p] # <<>> =>
                    Primed(stream'[p][1].do, arenas'[stream'[p][1].arena], Token(p, stream'[p][1]))
    <3>1. CASE p = o
      BY <1>16, <3>1
    <3>2. CASE p # o
      BY <1>10, <1>14, <3>2
    <3>3. QED
      BY <3>1, <3>2
  <2>2. ASSUME NEW p PROVE Token(p, stream[p][1])' = Token(p, stream'[p][1])
    BY DEF Token
  <2>3. QED
    BY <1>1, <2>1, <2>2 DEF StreamsFlow
<1>18. GraphsWhole' /\ TakenOwn'
  BY GraphsSame, TakenSame DEF Inv
<1>19. CaptureSoFar'
  <2>1. CASE ~Capturing
    BY <1>9, <2>1 DEF CaptureSoFar
  <2>2. CASE Capturing
    <3> DEFINE q == host.ops
               token == OwnerTokens(o)
               layers == OwnLayers(o)
               keys == DOMAIN arenas
               more == DOMAIN arenas'
    <3>1. /\ Own(q, keys, token, layers, m) /\ Fresh(q) /\ q \in Seq(Ops) /\ keys \subseteq more
          /\ \A j \in layers : IF j \in host.left THEN Untouched(q, {}, j) ELSE Cut(q, {}, j, m)
      BY <1>6, <2>2 DEF Inv, CaptureSoFar, o, m
    <3>2. Own(b, more, token, layers, m) /\ host'.ops = q \o b
      BY <1>4, <1>7, <2>2
    <3> HIDE DEF q, token, keys, more
    <3>3. Own(q, more, token, layers, m)
      BY <3>1, OwnMore, Zenon
    <3>4. Own(q \o b, more, token, layers, m) /\ Fresh(q \o b)
      BY <1>4, <3>1, <3>2, <3>3, OwnJoin, FreshJoin
    <3>5. ASSUME NEW j \in layers
          PROVE  IF j \in host.left \ {l} THEN Untouched(q \o b, {}, j) ELSE Cut(q \o b, {}, j, m)
      <4>1. CASE j \in host.left \ {l}
        BY <1>4, <3>1, <4>1, UntouchedJoin
      <4>2. CASE j = l
        BY <1>2, <1>4, <3>1, <4>2, CutJoinOwn DEF l
      <4>3. CASE j \notin host.left
        <5>1. j # l
          BY <1>2, <4>3 DEF l
        <5>2. \A i \in DOMAIN b : b[i].layer # j
          BY <1>4, <5>1
        <5>3. Cut(q, {}, j, m)
          BY <3>1, <4>3
        <5>4. Cut(q \o b, {}, j, m)
          BY <1>4, <3>1, <5>2, <5>3, CutJoinOther
        <5>5. QED
          BY <4>3, <5>4
      <4>4. QED
        BY <4>1, <4>2, <4>3
    <3>6. QED
      BY <1>1, <1>7, <3>2, <3>4, <3>5 DEF CaptureSoFar, q, token, layers, more
  <2>3. QED
    BY <2>1, <2>2
<1>20. CallsCut'
  <2>1. ASSUME NEW p \in Owners, calls[p] > 0, NEW j \in OwnLayers(p)
        PROVE  IF j \in Left(p)' THEN Untouched(stream'[p], taken[p], j)
               ELSE Cut(stream'[p], taken[p], j, batch[p])
    <3>1. IF j \in Left(p) THEN Untouched(stream[p], taken[p], j)
          ELSE Cut(stream[p], taken[p], j, batch[p])
      BY <1>2, <2>1 DEF Inv, CallsCut
    <3>2. CASE Capturing \/ p # o
      <4>1. Left(p)' = Left(p)
        BY <1>7, <1>9, <3>2 DEF Left, o
      <4>2. stream'[p] = stream[p]
        BY <1>10, <3>2
      <4>3. QED
        BY <3>1, <4>1, <4>2
    <3>3. CASE ~Capturing /\ p = o
      <4>1. Running
        BY <1>2, <3>3 DEF Running, Capturing
      <4>2. Left(p) = host.left /\ Left(p)' = host.left \ {l}
        BY <1>7, <1>9, <3>3, <4>1 DEF Left, o
      <4> DEFINE q == stream[o]
                 T == taken[o]
                 n == batch[o]
      <4>3. q \in Seq(Ops) /\ stream'[p] = q \o b /\ n = m
        BY <1>2, <1>6, <1>10, <1>15, <3>3
      <4>4. IF j \in host.left THEN Untouched(q, T, j) ELSE Cut(q, T, j, n)
        BY <3>1, <3>3, <4>2
      <4> HIDE DEF q, T, n
      <4>5. CASE j \in host.left \ {l}
        <5>1. \A i \in DOMAIN b : b[i].layer # j
          BY <1>4, <4>5
        <5>2. Untouched(q \o b, T, j)
          BY <1>4, <4>3, <4>4, <4>5, <5>1, UntouchedJoin
        <5>3. QED
          BY <3>3, <4>2, <4>3, <4>5, <5>2 DEF T
      <4>6. CASE j = l
        <5>1. Untouched(q, T, l)
          BY <1>2, <4>4, <4>6 DEF l
        <5>2. Cut(q \o b, T, l, n)
          BY <1>4, <4>3, <5>1, CutJoinOwn
        <5>3. QED
          BY <3>3, <4>2, <4>3, <4>6, <5>2 DEF T, n
      <4>7. CASE j \notin host.left
        <5>1. \A i \in DOMAIN b : b[i].layer # j
          BY <1>2, <1>4, <4>7 DEF l
        <5>2. Cut(q, T, j, n)
          BY <4>4, <4>7
        <5>3. Cut(q \o b, T, j, n)
          BY <1>4, <4>3, <5>1, <5>2, CutJoinOther
        <5>4. QED
          BY <3>3, <4>2, <4>3, <4>7, <5>3 DEF T, n
      <4>8. QED
        BY <4>5, <4>6, <4>7
    <3>4. QED
      BY <3>2, <3>3
  <2>2. Running' => calls'[host'.owner] > 0 /\ batch'[host'.owner] = host'.rows
    BY <1>7, <1>9, <1>15
  <2>3. QED
    BY <1>1, <2>1, <2>2 DEF CallsCut
<1>21. ProfileServes'
  <2>1. \A j : GraphKey(j)' = GraphKey(j) /\ MixedKey(j)' = MixedKey(j) /\ UniformKey(j)' = UniformKey(j)
               /\ UniformRate(j)' = UniformRate(j) /\ Fused(j)' = Fused(j)
    BY SameLayers
  <2>2. \A n : UniformPath(n)' = UniformPath(n)
    BY SameLayers
  <2>3. ASSUME NEW j, Served(j) PROVE Served(j)'
    BY <1>1, <2>1, <2>2, <2>3 DEF Served
  <2>4. /\ host.kind \in {"eager", "capture"} => o \in profiled
        /\ host.kind = "profile" => m = Knobs.batched /\ o \notin profiled
    BY DEF Inv, ProfileServes, o, m
  <2>5. ASSUME NEW p \in Owners, NEW j \in OwnLayers(p),
               p \in profiled \/ (host.kind = "profile" /\ o = p /\ j \notin host.left \ {l})
        PROVE  Served(j)'
    <3>1. CASE host.kind = "profile" /\ j = l
      BY <3>1 DEF l
    <3>2. CASE p \in profiled \/ (host.kind = "profile" /\ o = p /\ j \notin host.left)
      <4>1. Served(j)
        BY <3>2 DEF Inv, ProfileServes, o
      <4>2. QED
        BY <2>3, <4>1
    <3>3. QED
      BY <2>5, <3>1, <3>2
  <2>6. /\ host'.kind \in {"eager", "capture"} => host'.owner \in profiled'
        /\ host'.kind = "profile" => host'.rows = (Knobs').batched /\ host'.owner \notin profiled'
    BY <1>1, <1>7, <2>4
  <2>7. \A p \in Owners : \A j \in OwnLayers(p)' :
          p \in profiled' \/ (host'.kind = "profile" /\ host'.owner = p /\ j \notin host'.left)
             => Served(j)'
    BY <1>1, <1>7, <2>5
  <2>8. QED
    BY <2>6, <2>7 DEF ProfileServes
<1>22. Refusals'
  BY RefusalsSame DEF Inv
<1>23. QED
  BY <1>11, <1>12, <1>17, <1>18, <1>19, <1>20, <1>21, <1>22 DEF Inv

-----------------------------------------------------------------------------
(* Planning leaves every earlier runtime and arena as it was.              *)

LEMMA SetDefaultIs ==
  ASSUME NEW f, NEW key, NEW value
  PROVE  /\ DOMAIN SetDefault(f, key, value) = DOMAIN f \cup {key}
         /\ \A k \in DOMAIN f : SetDefault(f, key, value)[k] = f[k]
         /\ key \notin DOMAIN f => SetDefault(f, key, value)[key] = value
BY DEF SetDefault

LEMMA OthersPlanned ==
  ASSUME ArenasPlanned, UNCHANGED <<model, art>>, NEW r, r.path # "mixed", NEW k, k.path # "mixed",
         DOMAIN runtimes' = DOMAIN runtimes \cup {r}, DOMAIN arenas' = DOMAIN arenas \cup {k},
         \A j \in DOMAIN arenas : arenas'[j] = arenas[j]
  PROVE  ArenasPlanned'
<1>1. LayerIds' = LayerIds
  BY SameModel
<1>2. ASSUME NEW l \in LayerIds, Fused(l)
      PROVE  /\ MixedKey(l) \in DOMAIN runtimes' => ArenaKeys(l) \subseteq DOMAIN arenas'
             /\ \A s \in States(l) : ArenaKey(l, s) \in DOMAIN arenas' =>
                   /\ arenas'[ArenaKey(l, s)].slots = ArenaFor(l, s).slots
                   /\ arenas'[ArenaKey(l, s)].blocks = ArenaFor(l, s).blocks
  <2>1. MixedKey(l) # r
    BY DEF MixedKey
  <2>2. \A s : ArenaKey(l, s) # k
    BY DEF ArenaKey
  <2>3. QED
    BY <1>2, <2>1, <2>2 DEF ArenasPlanned
<1>3. QED
  BY <1>1, <1>2, SameLayers DEF ArenasPlanned

LEMMA CountOfExperts ==
  ASSUME model \in Models, NEW l \in LayerIds
  PROVE  Cardinality(Experts(Layer(l).bits)) \in Nat \ {0}
BY LayerFacts DEF Assigned

LEMMA ApplyR7GraphInv ==
  ASSUME Inv, ApplyR7Graph
  PROVE  Inv'
<1> DEFINE l == Current
           key == GraphKey(l)
           sl == Slices(host.rows, Knobs.capacity)
<1>1. host # Idle /\ host.left # {} /\ art[l].kind = "graph"
      /\ UNCHANGED <<model, art, spent, graphs, calls, batch, taken, profiled>>
  BY DEF ApplyR7Graph
<1>2. /\ model \in Models /\ host.owner \in Owners /\ host.rows \in 1 .. Knobs.batched
      /\ host.rows \in Nat \ {0} /\ Knobs.batched \in Nat \ {0} /\ l \in LayerIds
      /\ Layer(l).owner = host.owner /\ (host.kind # "profile" => Served(l))
  BY <1>1, PassIs
<1>3. ~Fused(l)
  BY <1>1 DEF Fused
<1>4. ~((key \notin DOMAIN runtimes /\ Capturing) \/ host.rows > Knobs.batched)
  <2>1. Capturing => key \in DOMAIN runtimes
    BY <1>1, <1>2 DEF Capturing, Served
  <2>2. QED
    BY <1>2, <2>1
<1>5. /\ runtimes' = SetDefault(runtimes, key, [rate |-> 0])
      /\ arenas' = SetDefault(arenas, key, GraphArena)
      /\ Launch(Launches(GraphSteps, key, l, sl))
      /\ UNCHANGED <<bound, verdict>>
  BY <1>4 DEF ApplyR7Graph
<1>6. Knobs.capacity \in Nat \ {0}
  BY <1>2, KnobFacts
<1>7. OwnerToken(l) \in Scopes /\ OwnerToken(l) \in OwnerTokens(host.owner)
  BY <1>2, OwnerTokenIs
<1>8. key \in ArenaNames /\ key.owner \in OwnerTokens(host.owner) /\ key.path = "graph"
  <2>1. key = [owner |-> OwnerToken(l), path |-> "graph",
               experts |-> Cardinality(Experts(Layer(l).bits))]
    BY <1>2 DEF GraphKey
  <2>2. Cardinality(Experts(Layer(l).bits)) \in Nat
    BY <1>2, CountOfExperts
  <2> DEFINE n == Cardinality(Experts(Layer(l).bits))
             t == OwnerToken(l)
  <2> HIDE DEF n, t, key
  <2>3. key \in [owner : Scopes, path : {"graph"}, experts : Nat]
    BY <1>7, <2>1, <2>2 DEF n, t
  <2>4. QED
    BY <1>7, <2>1, <2>3 DEF ArenaNames
<1>9. Sliced(sl, host.rows)
  BY <1>2, <1>6, SlicesSliced
<1>10. GraphArena \in Arenas
  <2>1. {} \in Cells /\ 0 \in Nat
    BY DEF Cells
  <2>2. QED
    BY <1>6, <2>1 DEF GraphArena, EmptyArena, Arenas
<1> HIDE DEF key, sl
<1>11. /\ DOMAIN runtimes' = DOMAIN runtimes \cup {key}
       /\ \A k \in DOMAIN runtimes : runtimes'[k] = runtimes[k]
       /\ DOMAIN arenas' = DOMAIN arenas \cup {key}
       /\ \A k \in DOMAIN arenas : arenas'[k] = arenas[k]
       /\ key \notin DOMAIN arenas => arenas'[key] = GraphArena
  <2>1. /\ DOMAIN SetDefault(arenas, key, GraphArena) = DOMAIN arenas \cup {key}
        /\ \A k \in DOMAIN arenas : SetDefault(arenas, key, GraphArena)[k] = arenas[k]
        /\ key \notin DOMAIN arenas => SetDefault(arenas, key, GraphArena)[key] = GraphArena
    BY SetDefaultIs, Zenon
  <2>2. /\ DOMAIN SetDefault(runtimes, key, [rate |-> 0]) = DOMAIN runtimes \cup {key}
        /\ \A k \in DOMAIN runtimes : SetDefault(runtimes, key, [rate |-> 0])[k] = runtimes[k]
    <3> DEFINE value == [rate |-> 0]
    <3> HIDE DEF value
    <3>1. /\ DOMAIN SetDefault(runtimes, key, value) = DOMAIN runtimes \cup {key}
          /\ \A k \in DOMAIN runtimes : SetDefault(runtimes, key, value)[k] = runtimes[k]
          /\ key \notin DOMAIN runtimes => SetDefault(runtimes, key, value)[key] = value
      BY SetDefaultIs, Zenon
    <3>2. QED
      BY <3>1 DEF value
  <2>3. QED
    BY <1>5, <2>1, <2>2, Zenon
<1>12. /\ DOMAIN arenas' \subseteq ArenaNames /\ \A k \in DOMAIN arenas' : arenas'[k] \in Arenas
  BY <1>8, <1>10, <1>11 DEF Inv, Typed
<1>13. ArenasPlanned'
  BY <1>1, <1>8, <1>11, OthersPlanned DEF Inv
<1>14. UniformPlanned'
  <2>1. \A j : UniformKey(j) # key
    BY <1>8 DEF UniformKey
  <2>2. /\ LayerIds' = LayerIds /\ \A j : Layer(j)' = Layer(j)
        /\ \A o : OwnLayers(o)' = OwnLayers(o)
    BY <1>1, SameModel
  <2>3. QED
    BY <1>1, <1>11, <2>1, <2>2, SameLayers DEF Inv, UniformPlanned
<1>15. \A j : j = l => Served(j)'
  <2>1. GraphKey(l) \in DOMAIN runtimes'
    BY <1>11 DEF key
  <2>2. ASSUME NEW j, j = l PROVE Served(j)'
    BY <1>1, <1>3, <2>1, <2>2, SameLayers DEF Served
  <2>3. QED
    BY <2>2
<1>16. QED
  <2>1. GraphSteps \in {MixedSteps, GraphSteps}
    OBVIOUS
  <2>2. key \in DOMAIN arenas' /\ DOMAIN arenas \subseteq DOMAIN arenas'
        /\ DOMAIN runtimes \subseteq DOMAIN runtimes'
    BY <1>11
  <2>3. \A j \in bound' : j \in bound \/ (j = Current /\ Fused(j))
    BY <1>5
  <2>4. host.kind = "profile" => \A j : j = Current => Served(j)'
    BY <1>15
  <2>5. bound \subseteq bound'
    BY <1>5
  <2>6. UNCHANGED <<model, art, spent, graphs, calls, batch, taken, profiled, verdict>>
    BY <1>1, <1>5
  <2>7. Launch(Launches(GraphSteps, key, Current, sl))
    BY <1>5
  <2>8. QED
    BY <1>1, <1>8, <1>9, <1>11, <1>12, <1>13, <1>14, <2>1, <2>2, <2>3, <2>4, <2>5, <2>6, <2>7,
       LaunchedInv

-----------------------------------------------------------------------------
(* A layer of one bitrate.                                                 *)

LEMMA UniformKeyOwner ==
  ASSUME Typed, NEW j \in LayerIds, NEW l \in LayerIds, UniformKey(j) = UniformKey(l)
  PROVE  Layer(j).owner = Layer(l).owner
<1>1. model \in Models
  BY DEF Typed
<1>2. Layer(j).owner \in Owners /\ Layer(l).owner \in Owners
  BY <1>1, LayerFacts
<1>3. OwnerToken(j) = OwnerToken(l)
  <2>1. UniformKey(j).owner = OwnerToken(j) /\ UniformKey(l).owner = OwnerToken(l)
    BY DEF UniformKey
  <2>2. QED
    BY <2>1
<1>4. QED
  BY <1>1, <1>3, TokenTells

\* The parity path holds every batch it is given, if the runtime was planned.
LEMMA ParityHolds ==
  ASSUME model \in Models, UniformPlannable, NEW m \in 1 .. Knobs.batched, UniformPath(m) = "parity"
  PROVE  m <= ParityRows
<1>1. /\ Knobs.batched \in Nat \ {0} /\ Knobs.minM \in Nat \ {0} /\ Knobs.maxM \in Nat \ {0}
      /\ Knobs.chunk \in Nat \ {0}
  BY KnobFacts
<1>2. CASE ~PrefillPlanned
  BY <1>1, <1>2 DEF ParityRows
<1>3. CASE PrefillPlanned
  <2>1. m < Knobs.minM
    BY <1>1, <1>3 DEF UniformPath
  <2> DEFINE n == Knobs.batched
             k == Knobs.minM - 1
  <2>2. n \in Nat /\ k \in Nat /\ m <= n /\ m <= k /\ m \in Int
    BY <1>1, <2>1
  <2>3. Min({n, k}) <= ParityRows
    BY DEF UniformPlannable
  <2>4. ParityRows \in Int
    <3> DEFINE c == Knobs.chunk
    <3>1. c \in Nat /\ ParityRows = Min({c, n})
      BY <1>1, <1>3 DEF ParityRows
    <3> HIDE DEF c, n
    <3>2. Min({c, n}) \in Int
      BY <2>2, <3>1, MinTwo
    <3>3. QED
      BY <3>1, <3>2
  <2> HIDE DEF n, k
  <2>5. Min({n, k}) \in Int /\ m <= Min({n, k})
    BY <2>2, MinTwo
  <2>6. QED
    BY <2>2, <2>3, <2>4, <2>5
<1>4. QED
  BY <1>2, <1>3

\* A batch that takes the parity path is outside the Trellis window.
LEMMA ParityOutside ==
  ASSUME model \in Models, NEW m \in 1 .. Knobs.batched, UniformPath(m) = "parity"
  PROVE  m < Knobs.minM \/ (m > Knobs.maxM /\ ~Knobs.prefillTrellis)
<1>1. /\ Knobs.batched \in Nat \ {0} /\ Knobs.minM \in Nat \ {0} /\ Knobs.maxM \in Nat \ {0}
  BY KnobFacts
<1>2. QED
  BY <1>1 DEF UniformPath, PrefillPlanned

LEMMA UniformRefused ==
  ASSUME Inv, host # Idle, host.left # {}, art[Current].kind = "uniform",
         LET l == Current
             m == host.rows
             key == UniformKey(l)
             planned == key \in DOMAIN runtimes
             path == UniformPath(m)
         IN \/ ~planned /\ (Capturing \/ ~UniformPlannable)
            \/ path # "parity" /\ planned /\ runtimes[key].rate # UniformRate(l)
            \/ path = "prefill" /\ m > Knobs.batched
            \/ path = "parity" /\ (Capturing \/ m > ParityRows)
  PROVE  /\ host.kind = "profile" => Misconfigured(Current)
         /\ host.kind = "eager" => UnseenByProfile(Current)
         /\ host.kind = "capture" =>
              \/ UnseenByProfile(Current)
              \/ /\ art[Current].kind = "uniform"
                 /\ \/ host.rows < Knobs.minM
                    \/ host.rows > Knobs.maxM /\ ~Knobs.prefillTrellis
<1> DEFINE l == Current
           m == host.rows
           key == UniformKey(l)
           planned == key \in DOMAIN runtimes
           path == UniformPath(m)
<1>1. /\ model \in Models /\ m \in 1 .. Knobs.batched /\ Knobs.batched \in Nat \ {0}
      /\ l \in LayerIds /\ host.kind \in {"profile", "eager", "capture"}
      /\ (host.kind # "profile" => Served(l))
  BY PassIs
<1>2. art[l].kind = "uniform"
  OBVIOUS
<1>3. host.kind # "profile" =>
         planned /\ (UniformPath(Knobs.batched) # "parity" => runtimes[key].rate = UniformRate(l))
  BY <1>1, <1>2 DEF Served
<1>4. planned => /\ UniformPlannable
                 /\ \E j \in OwnLayers(Layer(l).owner) :
                       art[j].kind = "uniform" /\ runtimes[key].rate = UniformRate(j)
  BY <1>1, <1>2 DEF Inv, UniformPlanned
<1>5. \/ ~planned /\ (Capturing \/ ~UniformPlannable)
      \/ path # "parity" /\ planned /\ runtimes[key].rate # UniformRate(l)
      \/ path = "parity" /\ (Capturing \/ m > ParityRows)
  BY <1>1
<1> HIDE DEF l, m, key, planned, path
<1>6. CASE ~planned /\ (Capturing \/ ~UniformPlannable)
  <2>1. host.kind = "profile"
    BY <1>3, <1>6
  <2>2. ~UniformPlannable
    BY <1>6, <2>1 DEF Capturing
  <2>3. QED
    BY <1>2, <2>1, <2>2 DEF Misconfigured, l
<1>7. CASE path # "parity" /\ planned /\ runtimes[key].rate # UniformRate(l)
  <2>1. Misrated(l)
    BY <1>2, <1>4, <1>7 DEF Misrated
  <2>2. host.kind # "profile" => UnseenByProfile(l)
    BY <1>3, <1>7, <2>1 DEF UnseenByProfile
  <2>3. QED
    BY <2>1, <2>2 DEF Misconfigured, l
<1>8. CASE path = "parity" /\ (Capturing \/ m > ParityRows)
  <2>1. m < Knobs.minM \/ (m > Knobs.maxM /\ ~Knobs.prefillTrellis)
    BY <1>1, <1>8, ParityOutside DEF path
  <2>2. CASE Capturing
    BY <1>2, <2>1, <2>2 DEF Capturing, l, m
  <2>3. CASE ~Capturing /\ m > ParityRows
    <3>1. ~UniformPlannable
      <4>1. UniformPlannable => m <= ParityRows
        BY <1>1, <1>8, ParityHolds DEF path
      <4>2. UniformPlannable => ParityRows \in Int
        <5> DEFINE c == Knobs.chunk
                   n == Knobs.batched
        <5>1. c \in Nat /\ n \in Nat /\ (ParityRows = Min({c, n}) \/ ParityRows = n)
          BY <1>1, KnobFacts DEF ParityRows
        <5> HIDE DEF c, n
        <5>2. Min({c, n}) \in Int
          BY <5>1, MinTwo
        <5>3. QED
          BY <5>1, <5>2
      <4>3. QED
        BY <1>1, <2>3, <4>1, <4>2
    <3>2. host.kind = "profile"
      BY <1>3, <1>4, <3>1
    <3>3. QED
      BY <1>2, <3>1, <3>2 DEF Misconfigured, l
  <2>4. QED
    BY <1>8, <2>2, <2>3
<1>9. QED
  BY <1>5, <1>6, <1>7, <1>8

LEMMA UniformArenaNamed ==
  ASSUME Typed, NEW l \in LayerIds, NEW name \in {"decode", "prefill", "parity"}
  PROVE  /\ UniformArena(l, name) \in ArenaNames /\ UniformArena(l, name).path = "uniform"
         /\ UniformArena(l, name).owner = OwnerToken(l)
<1>1. model \in Models
  BY DEF Typed
<1> DEFINE n == Cardinality(Experts(Layer(l).bits))
           t == OwnerToken(l)
<1>2. n \in Nat /\ t \in Scopes
  BY <1>1, CountOfExperts, LayerFacts, OwnerTokenIs
<1>3. UniformArena(l, name) = [owner |-> t, path |-> "uniform", name |-> name, experts |-> n]
  BY DEF UniformArena
<1> HIDE DEF n
<1>4. t = OwnerToken(l)
  OBVIOUS
<1> HIDE DEF t
<1>5. UniformArena(l, name)
        \in [owner : Scopes, path : {"uniform"}, name : {"decode", "prefill", "parity"}, experts : Nat]
  BY <1>2, <1>3
<1>6. UniformArena(l, name) \in ArenaNames
  BY <1>5 DEF ArenaNames
<1>7. QED
  BY <1>3, <1>4, <1>6

LEMMA ApplyUniformInv ==
  ASSUME Inv, ApplyUniform
  PROVE  Inv'
<1> DEFINE l == Current
           m == host.rows
           key == UniformKey(l)
           planned == key \in DOMAIN runtimes
           path == UniformPath(m)
           arena == UniformArena(l, path)
           steps == UniformSteps(m)
           sl == UniformSlices(m)
           refused == \/ ~planned /\ (Capturing \/ ~UniformPlannable)
                      \/ path # "parity" /\ planned /\ runtimes[key].rate # UniformRate(l)
                      \/ path = "prefill" /\ m > Knobs.batched
                      \/ path = "parity" /\ (Capturing \/ m > ParityRows)
<1>1. host # Idle /\ host.left # {} /\ art[Current].kind = "uniform"
      /\ UNCHANGED <<model, art, spent, graphs, calls, batch, taken, profiled>>
  BY DEF ApplyUniform
<1>2. /\ model \in Models /\ host.owner \in Owners /\ m \in 1 .. Knobs.batched
      /\ m \in Nat \ {0} /\ Knobs.batched \in Nat \ {0} /\ l \in LayerIds
      /\ Layer(l).owner = host.owner /\ l \in OwnLayers(host.owner)
  BY <1>1, PassIs
<1>3. CASE refused
  <2>1. RefuseCall
    BY <1>3 DEF ApplyUniform
  <2>2. /\ host.kind = "profile" => Misconfigured(Current)
        /\ host.kind = "eager" => UnseenByProfile(Current)
        /\ host.kind = "capture" =>
              \/ UnseenByProfile(Current)
              \/ /\ art[Current].kind = "uniform"
                 /\ \/ host.rows < Knobs.minM
                    \/ host.rows > Knobs.maxM /\ ~Knobs.prefillTrellis
    BY <1>1, <1>3, UniformRefused
  <2>3. QED
    BY <1>1, <2>1, <2>2, RefusedInv
<1>4. CASE ~refused
  <2>1. /\ runtimes' = SetDefault(runtimes, key, [rate |-> UniformRate(l)])
        /\ arenas' = SetDefault(arenas, arena, EmptyArena(0, 0))
        /\ Launch(Launches(steps, arena, l, sl))
        /\ UNCHANGED <<bound, verdict>>
    BY <1>4 DEF ApplyUniform
  <2>2. path \in {"decode", "prefill", "parity"}
    BY DEF UniformPath
  <2>3. arena \in ArenaNames /\ arena.path = "uniform" /\ arena.owner \in OwnerTokens(host.owner)
    <3>1. Typed
      BY DEF Inv
    <3>2. QED
      BY <1>2, <2>2, <3>1, UniformArenaNamed, OwnerTokenIs DEF Typed
  <2>4. steps \in {MixedSteps, GraphSteps}
    BY DEF UniformSteps
  <2>5. Sliced(sl, m)
    <3>1. Knobs.capacity \in Nat \ {0}
      BY <1>2, KnobFacts
    <3>2. Sliced(Slices(m, Knobs.capacity), m) /\ Sliced(<<<<1, m>>>>, m)
      BY <1>2, <3>1, SlicesSliced, OneSlice
    <3>3. QED
      BY <3>2 DEF UniformSlices
  <2>6. EmptyArena(0, 0) \in Arenas
    <3>1. {} \in Cells /\ 0 \in Nat
      BY DEF Cells
    <3>2. QED
      BY <3>1 DEF EmptyArena, Arenas
  <2>7. key.path = "uniform" /\ key = UniformKey(l)
    BY DEF UniformKey
  <2>8. ~planned => UniformPlannable
    BY <1>4
  <2>9. path # "parity" /\ planned => runtimes[key].rate = UniformRate(l)
    BY <1>4
  <2> HIDE DEF key, arena, steps, sl, refused, path
  <2> DEFINE fresh == EmptyArena(0, 0)
             value == [rate |-> UniformRate(l)]
  <2>10. value.rate = UniformRate(l)
    OBVIOUS
  <2> HIDE DEF fresh, value
  <2>11. /\ DOMAIN SetDefault(arenas, arena, fresh) = DOMAIN arenas \cup {arena}
         /\ \A k \in DOMAIN arenas : SetDefault(arenas, arena, fresh)[k] = arenas[k]
         /\ arena \notin DOMAIN arenas => SetDefault(arenas, arena, fresh)[arena] = fresh
    BY SetDefaultIs, Zenon
  <2>12. /\ DOMAIN SetDefault(runtimes, key, value) = DOMAIN runtimes \cup {key}
         /\ \A k \in DOMAIN runtimes : SetDefault(runtimes, key, value)[k] = runtimes[k]
         /\ key \notin DOMAIN runtimes => SetDefault(runtimes, key, value)[key] = value
    BY SetDefaultIs, Zenon
  <2>13. /\ DOMAIN runtimes' = DOMAIN runtimes \cup {key}
         /\ \A k \in DOMAIN runtimes : runtimes'[k] = runtimes[k]
         /\ ~planned => runtimes'[key].rate = UniformRate(l)
    BY <2>1, <2>10, <2>12 DEF value
  <2>14. /\ DOMAIN arenas' = DOMAIN arenas \cup {arena}
         /\ \A k \in DOMAIN arenas : arenas'[k] = arenas[k]
         /\ arena \notin DOMAIN arenas => arenas'[arena] = fresh
    BY <2>1, <2>11 DEF fresh
  <2>15. /\ DOMAIN arenas' \subseteq ArenaNames /\ \A k \in DOMAIN arenas' : arenas'[k] \in Arenas
    BY <2>3, <2>6, <2>14 DEF Inv, Typed, fresh
  <2>16. ArenasPlanned'
    <3>1. key.path # "mixed" /\ arena.path # "mixed"
      BY <2>3, <2>7
    <3>2. QED
      BY <1>1, <2>13, <2>14, <3>1, OthersPlanned DEF Inv
  <2>17. UniformPlanned'
    <3>1. /\ LayerIds' = LayerIds /\ \A j : Layer(j)' = Layer(j)
          /\ \A o : OwnLayers(o)' = OwnLayers(o)
      BY <1>1, SameModel
    <3>2. ASSUME NEW j \in LayerIds, art[j].kind = "uniform", UniformKey(j) \in DOMAIN runtimes'
          PROVE  /\ UniformPlannable
                 /\ \E i \in OwnLayers(Layer(j).owner) :
                       art[i].kind = "uniform" /\ runtimes'[UniformKey(j)].rate = UniformRate(i)
      <4>1. CASE UniformKey(j) \in DOMAIN runtimes
        BY <2>13, <3>2, <4>1 DEF Inv, UniformPlanned
      <4>2. CASE UniformKey(j) \notin DOMAIN runtimes
        <5>1. UniformKey(j) = key
          BY <2>13, <3>2, <4>2
        <5>2. Layer(j).owner = Layer(l).owner
          <6>1. Typed
            BY DEF Inv
          <6>2. QED
            BY <1>2, <2>7, <5>1, <6>1, UniformKeyOwner
        <5>3. ~planned
          BY <4>2, <5>1
        <5>4. l \in OwnLayers(Layer(j).owner) /\ art[l].kind = "uniform"
          BY <1>1, <1>2, <5>2
        <5>5. runtimes'[UniformKey(j)].rate = UniformRate(l)
          BY <2>13, <5>1, <5>3
        <5>6. QED
          BY <2>8, <5>3, <5>4, <5>5
      <4>3. QED
        BY <4>1, <4>2
    <3>3. QED
      BY <1>1, <3>1, <3>2, SameLayers DEF UniformPlanned
  <2>18. host.kind = "profile" => \A j : j = l => Served(j)'
    <3>1. ASSUME host.kind = "profile", NEW j, j = l PROVE Served(j)'
      <4>1. m = Knobs.batched
        BY <3>1 DEF Inv, ProfileServes
      <4>2. key \in DOMAIN runtimes' /\ ~Fused(l)
        BY <1>1, <2>13 DEF Fused
      <4>3. path # "parity" => runtimes'[key].rate = UniformRate(l)
        BY <2>9, <2>13
      <4>4. Knobs' = Knobs
        BY <1>1, SameModel
      <4>5. UniformKey(j)' = key /\ UniformRate(j)' = UniformRate(l) /\ Fused(j)' = Fused(l)
        BY <1>1, <2>7, <3>1, SameLayers
      <4>6. UniformPath(Knobs.batched)' = path
        BY <1>1, <4>1, <4>4, SameLayers DEF path
      <4>7. art'[j].kind = "uniform"
        BY <1>1, <3>1
      <4>8. QED
        BY <4>2, <4>3, <4>5, <4>6, <4>7 DEF Served
    <3>2. QED
      BY <3>1
  <2>19. QED
    <3>1. arena \in DOMAIN arenas' /\ DOMAIN arenas \subseteq DOMAIN arenas'
          /\ DOMAIN runtimes \subseteq DOMAIN runtimes'
      BY <2>13, <2>14
    <3>2. bound \subseteq bound' /\ \A j \in bound' : j \in bound \/ (j = Current /\ Fused(j))
      BY <2>1
    <3>3. UNCHANGED <<model, art, spent, graphs, calls, batch, taken, profiled, verdict>>
      BY <1>1, <2>1
    <3>4. Launch(Launches(steps, arena, Current, sl))
      BY <2>1
    <3>5. QED
      BY <1>1, <2>3, <2>4, <2>5, <2>13, <2>14, <2>15, <2>16, <2>17, <2>18, <3>1, <3>2, <3>3,
         <3>4, LaunchedInv
<1>5. QED
  BY <1>3, <1>4

-----------------------------------------------------------------------------
(* A layer of several bitrates: its launch states and their arenas.        *)

LEMMA MaxDecodeIs ==
  ASSUME model \in Models
  PROVE  /\ MaxDecode \in Nat \ {0} /\ MaxDecode <= Knobs.batched
<1> DEFINE a == Knobs.maxM
           b == Knobs.batched
<1>1. a \in Nat \ {0} /\ b \in Nat \ {0}
  BY KnobFacts
<1>2. MaxDecode = Min({a, b})
  BY DEF MaxDecode
<1> HIDE DEF a, b
<1>3. Min({a, b}) = IF a <= b THEN a ELSE b
  BY <1>1, MinTwo
<1>4. MaxDecode \in Nat \ {0} /\ MaxDecode <= b
  BY <1>1, <1>2, <1>3
<1>5. QED
  BY <1>4 DEF b

LEMMA FusedTiers ==
  ASSUME Typed, Loaded, NEW l \in LayerIds, Fused(l)
  PROVE  /\ TiersOf(l) = Tiers(Layer(l).bits) /\ Len(TiersOf(l)) \in Nat
         /\ DOMAIN TiersOf(l) = 1 .. Len(TiersOf(l)) /\ Len(TierSignature(l)) = Len(TiersOf(l))
         /\ LayerStatesBind(l)
<1>1. model \in Models
  BY DEF Typed
<1>2. Assigned(Layer(l).bits)
  BY <1>1, LayerFacts
<1>3. ~Oversized(Layer(l).bits) /\ Places(art[l].weights, Layer(l).bits)
  BY ArtKinds
<1>4. TiersOf(l) = Tiers(Layer(l).bits)
  BY <1>3 DEF TiersOf, Places
<1>5. TiersOf(l) \in Seq(Range(TiersOf(l)))
  BY <1>2, <1>4, TiersAre
<1>6. Len(TiersOf(l)) \in Nat /\ DOMAIN TiersOf(l) = 1 .. Len(TiersOf(l))
  BY <1>5
<1>7. Len(TierSignature(l)) = Len(TiersOf(l))
  <2> DEFINE n == Len(TiersOf(l))
             f(t) == <<TiersOf(l)[t].bits, TiersOf(l)[t].slots>>
  <2>1. TierSignature(l) = [t \in 1 .. n |-> f(t)] /\ n \in Nat
    BY <1>6 DEF TierSignature
  <2> HIDE DEF n, f
  <2>2. Len([t \in 1 .. n |-> f(t)]) = n
    BY <2>1
  <2>3. QED
    BY <2>1, <2>2 DEF n
<1>8. LayerStatesBind(l)
  BY <1>2, <1>3, PlacesBind DEF LayerStatesBind
<1>9. QED
  BY <1>4, <1>6, <1>7, <1>8

LEMMA StatesAre ==
  ASSUME model \in Models, NEW l, NEW s \in States(l)
  PROVE  /\ s.name \in {"decode", "prefill"} /\ s.rows \in Nat \ {0} /\ s.block \in Nat \ {0}
         /\ s = [name |-> s.name, rows |-> s.rows, block |-> s.block]
<1>1. MaxDecode \in Nat \ {0} /\ Knobs.capacity \in Nat \ {0} /\ Knobs.blockM \in Nat \ {0}
  BY MaxDecodeIs, KnobFacts
<1>2. DecodeBlock \in Nat \ {0} /\ QualifiedBlock \in Nat \ {0}
  BY SizesAssumption
<1>3. PrefillBlock(l) \in Nat \ {0}
  BY <1>1, <1>2 DEF PrefillBlock
<1>4. \/ s = [name |-> "decode", rows |-> MaxDecode, block |-> DecodeBlock]
      \/ s = [name |-> "prefill", rows |-> Knobs.capacity, block |-> PrefillBlock(l)]
  BY DEF States
<1>5. QED
  BY <1>1, <1>2, <1>3, <1>4

LEMMA StateForIs ==
  ASSUME model \in Models, NEW l, NEW m \in 1 .. Knobs.batched
  PROVE  /\ StateFor(l, m) \in States(l)
         /\ m <= MaxDecode => StateFor(l, m).rows = MaxDecode
         /\ m > MaxDecode => StateFor(l, m).rows = Knobs.capacity
<1> DEFINE decode == [name |-> "decode", rows |-> MaxDecode, block |-> DecodeBlock]
           prefill == [name |-> "prefill", rows |-> Knobs.capacity, block |-> PrefillBlock(l)]
           s == StateFor(l, m)
<1>1. MaxDecode \in Nat \ {0} /\ Knobs.batched \in Nat \ {0} /\ m \in Nat
  BY MaxDecodeIs, KnobFacts
<1>2. decode \in States(l) /\ decode.name = "decode" /\ decode.rows = MaxDecode
  BY DEF States
<1>3. prefill.name = "prefill" /\ prefill.rows = Knobs.capacity
  OBVIOUS
<1>4. m > MaxDecode => prefill \in States(l)
  BY <1>1 DEF States
<1>5. States(l) \subseteq {decode, prefill}
  BY DEF States
<1> HIDE DEF decode, prefill
<1>6. CASE m <= MaxDecode
  <2>1. s = CHOOSE t \in States(l) : t.name = "decode"
    BY <1>6 DEF StateFor
  <2>2. s \in States(l) /\ s.name = "decode"
    BY <1>2, <2>1
  <2>3. QED
    BY <1>1, <1>2, <1>3, <1>5, <1>6, <2>2
<1>7. CASE ~(m <= MaxDecode)
  <2>1. s = CHOOSE t \in States(l) : t.name = "prefill"
    BY <1>7 DEF StateFor
  <2>2. s \in States(l) /\ s.name = "prefill"
    BY <1>1, <1>3, <1>4, <1>7, <2>1
  <2>3. QED
    BY <1>1, <1>2, <1>3, <1>5, <1>7, <2>2
<1>8. QED
  BY <1>6, <1>7

\* The slices a batch is cut into are no larger than its state.
LEMMA MixedSlicesAre ==
  ASSUME model \in Models, NEW l, NEW m \in 1 .. Knobs.batched
  PROVE  /\ Sliced(MixedSlices(m), m)
         /\ \A i \in 1 .. Len(MixedSlices(m)) :
               MixedSlices(m)[i][2] - MixedSlices(m)[i][1] + 1 \in 1 .. StateFor(l, m).rows
<1>1. m \in Nat \ {0} /\ Knobs.capacity \in Nat \ {0} /\ MaxDecode \in Nat \ {0}
  <2>1. Knobs.batched \in Nat \ {0}
    BY KnobFacts
  <2>2. QED
    BY <2>1, KnobFacts, MaxDecodeIs
<1>2. CASE m <= MaxDecode
  <2>1. MixedSlices(m) = <<<<1, m>>>>
    BY <1>2 DEF MixedSlices
  <2>2. Sliced(<<<<1, m>>>>, m)
    BY <1>1, OneSlice
  <2>3. \A i \in 1 .. Len(<<<<1, m>>>>) :
           <<<<1, m>>>>[i][2] - <<<<1, m>>>>[i][1] + 1 \in 1 .. MaxDecode
    BY <1>1, <1>2
  <2>4. StateFor(l, m).rows = MaxDecode
    BY <1>2, StateForIs
  <2>5. QED
    BY <2>1, <2>2, <2>3, <2>4
<1>3. CASE ~(m <= MaxDecode)
  <2> DEFINE n == Knobs.capacity
  <2>1. MixedSlices(m) = Slices(m, n) /\ StateFor(l, m).rows = n
    BY <1>1, <1>3, StateForIs DEF MixedSlices
  <2> HIDE DEF n
  <2>2. n \in Nat \ {0}
    BY <1>1 DEF n
  <2>3. /\ Sliced(Slices(m, n), m)
        /\ \A i \in 1 .. Len(Slices(m, n)) : Slices(m, n)[i][2] - Slices(m, n)[i][1] + 1 \in 1 .. n
    BY <1>1, <2>2, SlicesSliced
  <2>4. QED
    BY <2>1, <2>3
<1>4. QED
  BY <1>2, <1>3

LEMMA ArenaKeyNamed ==
  ASSUME Typed, Loaded, NEW l \in LayerIds, Fused(l), NEW s \in States(l)
  PROVE  /\ ArenaKey(l, s) \in ArenaNames /\ ArenaKey(l, s).owner = OwnerToken(l)
         /\ ArenaKey(l, s).rows = s.rows /\ ArenaKey(l, s).block = s.block
<1> DEFINE n == Len(TiersOf(l))
           t == OwnerToken(l)
<1>1. model \in Models
  BY DEF Typed
<1>2. n \in Nat /\ t \in Scopes
  BY <1>1, FusedTiers, LayerFacts, OwnerTokenIs
<1>3. s.rows \in Nat /\ s.block \in Nat
  BY <1>1, StatesAre
<1>4. ArenaKey(l, s) = [owner |-> t, path |-> "mixed", rows |-> s.rows,
                        block |-> s.block, tiers |-> n]
  BY DEF ArenaKey
<1>5. t = OwnerToken(l)
  OBVIOUS
<1> HIDE DEF n, t
<1>6. ArenaKey(l, s) \in [owner : Scopes, path : {"mixed"},
                          rows : Nat, block : Nat, tiers : Nat]
  BY <1>2, <1>3, <1>4
<1>7. ArenaKey(l, s) \in ArenaNames
  BY <1>6 DEF ArenaNames
<1>8. QED
  BY <1>4, <1>5, <1>7

LEMMA ArenaForIs ==
  ASSUME model \in Models, NEW l \in LayerIds, NEW s \in States(l)
  PROVE  /\ ArenaFor(l, s) \in Arenas
         /\ ArenaFor(l, s).slots = RouteSlots(s.rows, s.block, Cardinality(Experts(Layer(l).bits)))
         /\ ArenaFor(l, s).blocks
               = Blocks(RouteSlots(s.rows, s.block, Cardinality(Experts(Layer(l).bits))), s.block)
<1> DEFINE experts == Cardinality(Experts(Layer(l).bits))
           slots == RouteSlots(s.rows, s.block, experts)
           blocks == Blocks(slots, s.block)
<1>1. s.rows \in Nat /\ s.block \in Nat \ {0} /\ experts \in Nat
  BY StatesAre, CountOfExperts
<1> HIDE DEF experts
<1>2. slots \in Nat
  <2>1. s.rows <= s.rows
    BY <1>1
  <2>2. QED
    BY <1>1, <2>1, RouteSlotsMore
<1> HIDE DEF slots
<1>3. blocks \in Nat
  BY <1>1, <1>2, BlocksMore
<1>4. ArenaFor(l, s) = EmptyArena(slots, blocks)
  BY DEF ArenaFor, experts, slots, blocks
<1> HIDE DEF blocks
<1>5. {} \in Cells
  BY DEF Cells
<1>6. /\ EmptyArena(slots, blocks) \in Arenas
      /\ EmptyArena(slots, blocks).slots = slots /\ EmptyArena(slots, blocks).blocks = blocks
  BY <1>2, <1>3, <1>5 DEF EmptyArena, Arenas
<1>7. QED
  BY <1>4, <1>6 DEF experts, slots, blocks

\* An arena with the room of its state holds every slice of a batch.
LEMMA SliceFits ==
  ASSUME model \in Models, NEW l \in LayerIds, NEW s \in States(l), NEW n \in 1 .. s.rows, NEW as,
         as[ArenaKey(l, s)].slots = ArenaFor(l, s).slots,
         as[ArenaKey(l, s)].blocks = ArenaFor(l, s).blocks
  PROVE  Fits(l, s, n, as)
<1> DEFINE experts == Cardinality(Experts(Layer(l).bits))
           block == s.block
           slots == RouteSlots(n, block, experts)
           most == RouteSlots(s.rows, block, experts)
<1>1. s.rows \in Nat /\ block \in Nat \ {0} /\ experts \in Nat
  BY StatesAre, CountOfExperts
<1>2. n \in Nat /\ n <= s.rows
  BY <1>1
<1>3. /\ ArenaFor(l, s).slots = most /\ ArenaFor(l, s).blocks = Blocks(most, block)
  BY ArenaForIs
<1> HIDE DEF experts, block
<1>4. slots \in Nat /\ most \in Nat /\ slots <= most
  BY <1>1, <1>2, RouteSlotsMore
<1> HIDE DEF slots, most
<1>5. Blocks(slots, block) <= Blocks(most, block)
  BY <1>1, <1>4, BlocksMore
<1>6. QED
  BY <1>3, <1>4, <1>5 DEF Fits, experts, block, slots

LEMMA MixedKeyOwner ==
  ASSUME Typed, NEW j \in LayerIds, NEW l \in LayerIds, MixedKey(j) = MixedKey(l)
  PROVE  Layer(j).owner = Layer(l).owner
<1>1. model \in Models
  BY DEF Typed
<1>2. Layer(j).owner \in Owners /\ Layer(l).owner \in Owners
  BY <1>1, LayerFacts
<1>3. OwnerToken(j) = OwnerToken(l)
  <2>1. MixedKey(j).owner = OwnerToken(j) /\ MixedKey(l).owner = OwnerToken(l)
    BY DEF MixedKey
  <2>2. QED
    BY <2>1
<1>4. QED
  BY <1>1, <1>3, TokenTells

\* Layers of one runtime share their arenas.
LEMMA MixedKeyArenas ==
  ASSUME Typed, Loaded, NEW j \in LayerIds, NEW l \in LayerIds, Fused(j), Fused(l),
         MixedKey(j) = MixedKey(l)
  PROVE  ArenaKeys(j) = ArenaKeys(l)
<1>1. TierSignature(j) = TierSignature(l) /\ PrefillBlock(j) = PrefillBlock(l)
  <2>1. /\ MixedKey(j).signature = TierSignature(j) /\ MixedKey(l).signature = TierSignature(l)
        /\ MixedKey(j).block = PrefillBlock(j) /\ MixedKey(l).block = PrefillBlock(l)
    BY DEF MixedKey
  <2>2. QED
    BY <2>1
<1>2. Len(TiersOf(j)) = Len(TiersOf(l))
  <2>1. Len(TierSignature(j)) = Len(TiersOf(j)) /\ Len(TierSignature(l)) = Len(TiersOf(l))
    BY FusedTiers
  <2>2. QED
    BY <1>1, <2>1
<1>3. States(j) = States(l)
  BY <1>1 DEF States
<1>4. OwnerToken(j) = OwnerToken(l)
  <2>1. MixedKey(j).owner = OwnerToken(j) /\ MixedKey(l).owner = OwnerToken(l)
    BY DEF MixedKey
  <2>2. QED
    BY <2>1
<1>5. \A s : ArenaKey(j, s) = ArenaKey(l, s)
  BY <1>2, <1>4 DEF ArenaKey
<1>6. QED
  BY <1>3, <1>5 DEF ArenaKeys

\* One arena, one size: a key two layers share gives both the same room.
LEMMA SameArena ==
  ASSUME Typed, Loaded, NEW j \in LayerIds, NEW l \in LayerIds, Fused(j), Fused(l),
         NEW s \in States(j), NEW t \in States(l), ArenaKey(j, s) = ArenaKey(l, t)
  PROVE  ArenaFor(j, s) = ArenaFor(l, t)
<1>1. model \in Models
  BY DEF Typed
<1>2. /\ ArenaKey(j, s).owner = OwnerToken(j) /\ ArenaKey(j, s).rows = s.rows
      /\ ArenaKey(j, s).block = s.block
  BY ArenaKeyNamed
<1>3. /\ ArenaKey(l, t).owner = OwnerToken(l) /\ ArenaKey(l, t).rows = t.rows
      /\ ArenaKey(l, t).block = t.block
  BY ArenaKeyNamed
<1>4. s.rows = t.rows /\ s.block = t.block /\ OwnerToken(j) = OwnerToken(l)
  BY <1>2, <1>3
<1>5. Layer(j).owner = Layer(l).owner
  BY <1>1, <1>4, TokenTells
<1>6. Experts(Layer(j).bits) = Experts(Layer(l).bits)
  BY <1>1, <1>5, ExpertsAlike
<1>7. QED
  BY <1>4, <1>6 DEF ArenaFor

\* What planning a layer makes of the arenas.
LEMMA WithArenasIs ==
  ASSUME Typed, Loaded, NEW l \in LayerIds, Fused(l)
  PROVE  /\ DOMAIN WithArenas(l) = DOMAIN arenas \cup ArenaKeys(l)
         /\ \A k \in DOMAIN arenas : WithArenas(l)[k] = arenas[k]
         /\ \A k \in ArenaKeys(l) \ DOMAIN arenas :
               \E s \in States(l) : ArenaKey(l, s) = k /\ WithArenas(l)[k] = ArenaFor(l, s)
<1>1. /\ DOMAIN WithArenas(l) = DOMAIN arenas \cup ArenaKeys(l)
      /\ \A k \in DOMAIN arenas : WithArenas(l)[k] = arenas[k]
  BY DEF WithArenas
<1>2. ASSUME NEW k \in ArenaKeys(l) \ DOMAIN arenas
      PROVE  \E s \in States(l) : ArenaKey(l, s) = k /\ WithArenas(l)[k] = ArenaFor(l, s)
  <2> DEFINE s == CHOOSE s \in States(l) : ArenaKey(l, s) = k
  <2>1. \E t \in States(l) : ArenaKey(l, t) = k
    BY DEF ArenaKeys
  <2>2. s \in States(l) /\ ArenaKey(l, s) = k
    BY <2>1
  <2>3. WithArenas(l)[k] = ArenaFor(l, s)
    BY DEF WithArenas
  <2> HIDE DEF s
  <2>4. QED
    BY <2>2, <2>3
<1>3. QED
  BY <1>1, <1>2

\* With the arenas of a layer, ArenasPlanned holds of every layer.
LEMMA ArenasGrow ==
  ASSUME Typed, Loaded, ArenasPlanned, NEW l \in LayerIds, Fused(l), NEW as,
         MixedKey(l) \in DOMAIN runtimes => as = arenas,
         MixedKey(l) \notin DOMAIN runtimes => as = WithArenas(l)
  PROVE  /\ DOMAIN arenas \subseteq DOMAIN as /\ \A k \in DOMAIN arenas : as[k] = arenas[k]
         /\ DOMAIN as \subseteq ArenaNames /\ \A k \in DOMAIN as : as[k] \in Arenas
         /\ ArenaKeys(l) \subseteq DOMAIN as
         /\ \A j \in LayerIds : Fused(j) =>
               \A s \in States(j) : ArenaKey(j, s) \in DOMAIN as =>
                  /\ as[ArenaKey(j, s)].slots = ArenaFor(j, s).slots
                  /\ as[ArenaKey(j, s)].blocks = ArenaFor(j, s).blocks
<1>1. model \in Models /\ DOMAIN arenas \subseteq ArenaNames
      /\ \A k \in DOMAIN arenas : arenas[k] \in Arenas
  BY DEF Typed
<1>2. CASE MixedKey(l) \in DOMAIN runtimes
  <2>1. as = arenas
    BY <1>2
  <2>2. QED
    BY <1>1, <1>2, <2>1 DEF ArenasPlanned
<1>3. CASE MixedKey(l) \notin DOMAIN runtimes
  <2>1. as = WithArenas(l)
    BY <1>3
  <2>2. /\ DOMAIN as = DOMAIN arenas \cup ArenaKeys(l)
        /\ \A k \in DOMAIN arenas : as[k] = arenas[k]
        /\ \A k \in ArenaKeys(l) \ DOMAIN arenas :
              \E s \in States(l) : ArenaKey(l, s) = k /\ as[k] = ArenaFor(l, s)
    BY <2>1, WithArenasIs
  <2>3. ArenaKeys(l) \subseteq ArenaNames
    BY ArenaKeyNamed DEF ArenaKeys
  <2>4. ASSUME NEW k \in DOMAIN as PROVE as[k] \in Arenas
    <3>1. CASE k \in DOMAIN arenas
      BY <1>1, <2>2, <3>1
    <3>2. CASE k \notin DOMAIN arenas
      <4>1. PICK s \in States(l) : as[k] = ArenaFor(l, s)
        BY <2>2, <2>4, <3>2
      <4>2. QED
        BY <1>1, <4>1, ArenaForIs
    <3>3. QED
      BY <3>1, <3>2
  <2>5. ASSUME NEW j \in LayerIds, Fused(j), NEW s \in States(j), ArenaKey(j, s) \in DOMAIN as
        PROVE  /\ as[ArenaKey(j, s)].slots = ArenaFor(j, s).slots
               /\ as[ArenaKey(j, s)].blocks = ArenaFor(j, s).blocks
    <3>1. CASE ArenaKey(j, s) \in DOMAIN arenas
      <4>1. as[ArenaKey(j, s)] = arenas[ArenaKey(j, s)]
        BY <2>2, <3>1
      <4>2. /\ arenas[ArenaKey(j, s)].slots = ArenaFor(j, s).slots
            /\ arenas[ArenaKey(j, s)].blocks = ArenaFor(j, s).blocks
        BY <2>5, <3>1 DEF ArenasPlanned
      <4>3. QED
        BY <4>1, <4>2
    <3>2. CASE ArenaKey(j, s) \notin DOMAIN arenas
      <4>1. PICK t \in States(l) :
               ArenaKey(l, t) = ArenaKey(j, s) /\ as[ArenaKey(j, s)] = ArenaFor(l, t)
        <5> DEFINE k == ArenaKey(j, s)
        <5>1. k \in ArenaKeys(l) \ DOMAIN arenas
          BY <2>2, <2>5, <3>2
        <5> HIDE DEF k
        <5>2. \E t \in States(l) : ArenaKey(l, t) = k /\ as[k] = ArenaFor(l, t)
          BY <2>2, <5>1
        <5>3. QED
          BY <5>2 DEF k
      <4>2. ArenaFor(j, s) = ArenaFor(l, t)
        BY <2>5, <4>1, SameArena
      <4>3. QED
        BY <4>1, <4>2
    <3>3. QED
      BY <3>1, <3>2
  <2>6. QED
    BY <1>1, <2>2, <2>3, <2>4, <2>5
<1>4. QED
  BY <1>2, <1>3

LEMMA ApplyMixedInv ==
  ASSUME Inv, ApplyMixed
  PROVE  Inv'
<1> DEFINE l == Current
           m == host.rows
           key == MixedKey(l)
           s == StateFor(l, m)
           planned == key \in DOMAIN runtimes
           as == IF planned THEN arenas ELSE WithArenas(l)
           sl == MixedSlices(m)
           unplanned == \/ ~planned /\ (Capturing \/ ~Plannable(l))
                        \/ ~LayerStatesBind(l)
                        \/ m > Knobs.batched
           unfit == \E i \in DOMAIN sl : ~Fits(l, s, sl[i][2] - sl[i][1] + 1, as)
           arena == ArenaKey(l, s)
<1>1. host # Idle /\ host.left # {} /\ Fused(l)
      /\ UNCHANGED <<model, art, spent, graphs, calls, batch, taken, profiled>>
  BY DEF ApplyMixed
<1>2. /\ model \in Models /\ host.owner \in Owners /\ m \in 1 .. Knobs.batched
      /\ m \in Nat \ {0} /\ Knobs.batched \in Nat \ {0} /\ l \in LayerIds
      /\ Layer(l).owner = host.owner /\ host.kind \in {"profile", "eager", "capture"}
      /\ (host.kind # "profile" => Served(l))
  BY <1>1, PassIs
<1>3. Typed /\ Loaded /\ ArenasPlanned
  BY DEF Inv
<1>4. LayerStatesBind(l)
  BY <1>1, <1>2, <1>3, FusedTiers
<1>5. CASE unplanned
  <2>1. RefuseCall
    BY <1>5 DEF ApplyMixed
  <2>2. ~planned /\ (Capturing \/ ~Plannable(l))
    BY <1>2, <1>4, <1>5
  <2>3. host.kind = "profile"
    BY <1>1, <1>2, <2>2 DEF Served
  <2>4. ~Plannable(l) /\ art[l].kind = "mixed"
    BY <1>1, <2>2, <2>3 DEF Capturing, Fused
  <2>5. Misconfigured(Current)
    BY <2>4 DEF Misconfigured
  <2>6. QED
    BY <1>1, <2>1, <2>3, <2>5, RefusedInv
<1>6. CASE ~unplanned
  <2>1. /\ DOMAIN arenas \subseteq DOMAIN as /\ \A k \in DOMAIN arenas : as[k] = arenas[k]
        /\ DOMAIN as \subseteq ArenaNames /\ \A k \in DOMAIN as : as[k] \in Arenas
        /\ ArenaKeys(l) \subseteq DOMAIN as
        /\ \A j \in LayerIds : Fused(j) =>
              \A t \in States(j) : ArenaKey(j, t) \in DOMAIN as =>
                 /\ as[ArenaKey(j, t)].slots = ArenaFor(j, t).slots
                 /\ as[ArenaKey(j, t)].blocks = ArenaFor(j, t).blocks
    <3> DEFINE bs == as
    <3>1. /\ MixedKey(l) \in DOMAIN runtimes => bs = arenas
          /\ MixedKey(l) \notin DOMAIN runtimes => bs = WithArenas(l)
      OBVIOUS
    <3>2. Fused(l) /\ l \in LayerIds
      BY <1>1, <1>2
    <3> HIDE DEF bs, l
    <3>3. /\ DOMAIN arenas \subseteq DOMAIN bs /\ \A k \in DOMAIN arenas : bs[k] = arenas[k]
          /\ DOMAIN bs \subseteq ArenaNames /\ \A k \in DOMAIN bs : bs[k] \in Arenas
          /\ ArenaKeys(l) \subseteq DOMAIN bs
          /\ \A j \in LayerIds : Fused(j) =>
                \A t \in States(j) : ArenaKey(j, t) \in DOMAIN bs =>
                   /\ bs[ArenaKey(j, t)].slots = ArenaFor(j, t).slots
                   /\ bs[ArenaKey(j, t)].blocks = ArenaFor(j, t).blocks
      BY <1>3, <3>1, <3>2, ArenasGrow, Zenon
    <3>4. QED
      BY <3>3 DEF bs
  <2>2. s \in States(l)
    BY <1>2, StateForIs
  <2>3. /\ Sliced(sl, m)
        /\ \A i \in 1 .. Len(sl) : sl[i][2] - sl[i][1] + 1 \in 1 .. s.rows
    BY <1>2, MixedSlicesAre
  <2>4. arena \in ArenaKeys(l) /\ arena \in DOMAIN as
    BY <2>1, <2>2 DEF ArenaKeys
  <2>5. arena \in ArenaNames /\ arena.owner \in OwnerTokens(host.owner)
    BY <1>1, <1>2, <1>3, <2>2, ArenaKeyNamed, OwnerTokenIs
  <2>6. ~unfit
    <3>1. as[ArenaKey(l, s)].slots = ArenaFor(l, s).slots
          /\ as[ArenaKey(l, s)].blocks = ArenaFor(l, s).blocks
      BY <1>1, <1>2, <2>1, <2>2, <2>4
    <3>2. DOMAIN sl = 1 .. Len(sl)
      BY <2>3 DEF Sliced
    <3>3. l \in LayerIds
      BY <1>2
    <3> HIDE DEF as, s, sl, l
    <3>4. ASSUME NEW i \in DOMAIN sl PROVE Fits(l, s, sl[i][2] - sl[i][1] + 1, as)
      <4> DEFINE n == sl[i][2] - sl[i][1] + 1
      <4>1. n \in 1 .. s.rows
        BY <2>3, <3>2
      <4> HIDE DEF n
      <4>2. Fits(l, s, n, as)
        BY <1>2, <2>2, <3>1, <3>3, <4>1, SliceFits
      <4>3. QED
        BY <4>2 DEF n
    <3>5. QED
      BY <3>4
  <2>7. /\ runtimes' = SetDefault(runtimes, key, [rate |-> 0])
        /\ arenas' = as
        /\ bound' = bound \cup {l}
        /\ Launch(Launches(MixedSteps, arena, l, sl))
        /\ UNCHANGED verdict
    BY <1>6, <2>6 DEF ApplyMixed
  <2>8. key.path = "mixed" /\ key = MixedKey(l)
    BY DEF MixedKey
  <2> HIDE DEF key, as, s, sl, arena, unplanned, unfit
  <2> DEFINE value == [rate |-> 0]
  <2> HIDE DEF value
  <2>9. /\ DOMAIN SetDefault(runtimes, key, value) = DOMAIN runtimes \cup {key}
        /\ \A k \in DOMAIN runtimes : SetDefault(runtimes, key, value)[k] = runtimes[k]
        /\ key \notin DOMAIN runtimes => SetDefault(runtimes, key, value)[key] = value
    BY SetDefaultIs, Zenon
  <2>10. /\ DOMAIN runtimes' = DOMAIN runtimes \cup {key}
         /\ \A k \in DOMAIN runtimes : runtimes'[k] = runtimes[k]
    BY <2>7, <2>9 DEF value
  <2>11. /\ LayerIds' = LayerIds /\ \A j : Layer(j)' = Layer(j)
         /\ \A o : OwnLayers(o)' = OwnLayers(o)
    BY <1>1, SameModel
  <2>12. ArenasPlanned'
    <3>1. ASSUME NEW j \in LayerIds, Fused(j), MixedKey(j) \in DOMAIN runtimes'
          PROVE  ArenaKeys(j) \subseteq DOMAIN arenas'
      <4>1. CASE MixedKey(j) \in DOMAIN runtimes
        BY <1>3, <2>1, <2>7, <3>1, <4>1 DEF ArenasPlanned
      <4>2. CASE MixedKey(j) = MixedKey(l)
        <5>1. ArenaKeys(j) = ArenaKeys(l)
          BY <1>1, <1>2, <1>3, <3>1, <4>2, MixedKeyArenas
        <5>2. QED
          BY <2>1, <2>7, <5>1
      <4>3. QED
        BY <2>8, <2>10, <3>1, <4>1, <4>2
    <3>2. \A j \in LayerIds : Fused(j) =>
              \A t \in States(j) : ArenaKey(j, t) \in DOMAIN arenas' =>
                 /\ arenas'[ArenaKey(j, t)].slots = ArenaFor(j, t).slots
                 /\ arenas'[ArenaKey(j, t)].blocks = ArenaFor(j, t).blocks
      BY <2>1, <2>7
    <3>3. QED
      BY <1>1, <2>11, <3>1, <3>2, SameLayers DEF ArenasPlanned
  <2>13. UniformPlanned'
    <3>1. \A j : UniformKey(j) # key
      BY <2>8 DEF UniformKey
    <3>2. QED
      BY <1>1, <2>10, <2>11, <3>1, SameLayers DEF Inv, UniformPlanned
  <2>14. ASSUME NEW j, j = l PROVE Served(j)'
    <3>1. MixedKey(j)' = key /\ Fused(j)' = Fused(j)
      BY <1>1, <2>8, <2>14, SameLayers
    <3>2. key \in DOMAIN runtimes' /\ j \in bound'
      BY <2>7, <2>10, <2>14
    <3>3. art'[j].kind = "mixed"
      BY <1>1, <2>14 DEF Fused
    <3>4. QED
      BY <3>1, <3>2, <3>3 DEF Served
  <2>15. QED
    <3>1. /\ arena \in DOMAIN arenas' /\ DOMAIN arenas \subseteq DOMAIN arenas'
          /\ DOMAIN arenas' \subseteq ArenaNames
          /\ \A k \in DOMAIN arenas : arenas'[k] = arenas[k]
          /\ \A k \in DOMAIN arenas' : arenas'[k] \in Arenas
          /\ DOMAIN runtimes \subseteq DOMAIN runtimes'
      BY <2>1, <2>4, <2>7, <2>10
    <3>2. bound \subseteq bound' /\ \A j \in bound' : j \in bound \/ (j = Current /\ Fused(j))
      BY <1>1, <2>7
    <3>3. UNCHANGED <<model, art, spent, graphs, calls, batch, taken, profiled, verdict>>
      BY <1>1, <2>7
    <3>4. Launch(Launches(MixedSteps, arena, Current, sl)) /\ Sliced(sl, host.rows)
      BY <2>3, <2>7
    <3>5. MixedSteps \in {MixedSteps, GraphSteps}
      OBVIOUS
    <3>6. host.kind = "profile" => \A j : j = Current => Served(j)'
      BY <2>14
    <3>7. QED
      BY <1>1, <2>5, <2>10, <2>12, <2>13, <3>1, <3>2, <3>3, <3>4, <3>5, <3>6, LaunchedInv
<1>7. QED
  BY <1>5, <1>6

-----------------------------------------------------------------------------
(* Every step, and what follows.                                           *)

LEMMA NextInv == Inv /\ [Next]_vars => Inv'
<1> SUFFICES ASSUME Inv, [Next]_vars PROVE Inv'
  OBVIOUS
<1>1. ASSUME NEW l \in Layers, LoadR7Fused(l) PROVE Inv'
  BY <1>1, LoadR7FusedInv
<1>2. ASSUME NEW l \in Layers, LoadR7Graph(l) PROVE Inv'
  BY <1>2, LoadR7GraphInv
<1>3. ASSUME NEW l \in Layers, LoadRankSliced(l) PROVE Inv'
  BY <1>3, LoadRankSlicedInv
<1>4. ASSUME NEW l \in Layers, Warmup(l) PROVE Inv'
  BY <1>4, WarmupInv
<1>5. ASSUME NEW o \in Owners, NEW m \in 1 .. Knobs.batched,
             NEW kind \in {"profile", "eager", "capture"}, Begin(o, m, kind)
      PROVE  Inv'
  BY <1>5, BeginInv
<1>6. ASSUME ApplyMixed PROVE Inv'
  BY <1>6, ApplyMixedInv
<1>7. ASSUME ApplyR7Graph PROVE Inv'
  BY <1>7, ApplyR7GraphInv
<1>8. ASSUME ApplyUniform PROVE Inv'
  BY <1>8, ApplyUniformInv
<1>9. ASSUME EndPass PROVE Inv'
  BY <1>9, EndPassInv
<1>10. ASSUME NEW o \in Owners, Replay(o) PROVE Inv'
  BY <1>10, ReplayInv
<1>11. ASSUME NEW o \in Owners, Execute(o) PROVE Inv'
  BY <1>11, ExecuteInv
<1>12. ASSUME UNCHANGED vars PROVE Inv'
  BY <1>12, RestInv
<1>13. QED
  BY <1>1, <1>2, <1>3, <1>4, <1>5, <1>6, <1>7, <1>8, <1>9, <1>10, <1>11, <1>12 DEF Next, Rest

\* Whatever a process was started with, and whatever order its streams run
\* in: what loading stored, the launches on the streams and in the graphs,
\* the arenas and the runtimes stay in step.
THEOREM ServingInvariant == Spec => []Inv
<1>1. QED
  BY InitInv, NextInv, PTL DEF Spec

-----------------------------------------------------------------------------

LEMMA InvTypeOK == Inv => TypeOK
<1> SUFFICES ASSUME Inv PROVE TypeOK
  OBVIOUS
<1>1. Typed /\ Loaded
  BY DEF Inv
<1>2. model \in Models /\ \A l \in LayerIds : art[l].kind \in {"none", "mixed", "graph", "uniform"}
  BY <1>1, ArtKinds DEF Typed
<1>3. \A o \in Owners : spent[o] \in Nat /\ calls[o] \in 0 .. Knobs.calls
  <2>1. Knobs.calls \in Nat
    BY <1>2, KnobFacts
  <2>2. QED
    BY <1>1, <2>1 DEF Typed
<1>4. bound \subseteq {l \in LayerIds : Fused(l)}
  BY <1>1 DEF Loaded
<1>5. host.kind \in {"idle", "profile", "eager", "capture"}
  BY <1>1, IdleIs DEF Typed, Passes
<1>6. \A o \in Owners : \A i \in DOMAIN stream[o] :
         stream[o][i].arena \in DOMAIN arenas /\ Layer(stream[o][i].layer).owner = o
  <2>1. ASSUME NEW o \in Owners, NEW i \in DOMAIN stream[o]
        PROVE  stream[o][i].arena \in DOMAIN arenas /\ stream[o][i].layer \in OwnLayers(o)
    BY DEF Inv, StreamsFlow, Own
  <2>2. QED
    BY <1>2, <2>1, OwnLayersAre
<1>7. \A o \in Owners : \A g \in graphs[o] : g.rows \in 1 .. Knobs.batched
  BY DEF Inv, GraphsWhole
<1>8. \A o \in Owners : \A t \in taken[o] : t.from <= t.to
  BY DEF Inv, TakenOwn
<1>9. Knobs.budget # -1 => \A o \in Owners : spent[o] <= Knobs.budget
  BY <1>1 DEF Typed
<1>10. verdict.at \in {"none", "load", "profile", "eager", "capture", "warmup"}
  BY DEF Inv, Refusals
<1>11. QED
  BY <1>2, <1>3, <1>4, <1>5, <1>6, <1>7, <1>8, <1>9, <1>10 DEF TypeOK

LEMMA InvCallExact == Inv => CallExact
<1> SUFFICES ASSUME Inv, NEW o \in Owners, verdict = Accepted, calls[o] > 0, stream[o] = <<>>,
                    host = Idle \/ host.owner # o \/ Capturing, NEW l \in OwnLayers(o)
             PROVE  LET own == {t \in taken[o] : t.layer = l}
                    IN /\ \A r \in 1 .. batch[o] : Cardinality({t \in own : r \in t.from .. t.to}) = 1
                       /\ \A t \in own : t.to <= batch[o] /\ t.of = {<<o, calls[o], l, t.from>>}
  BY DEF CallExact
<1> DEFINE own == {t \in taken[o] : t.layer = l}
<1>1. l \notin Left(o)
  BY IdleIs DEF Left, Running, Capturing
<1>2. Cut(<<>>, taken[o], l, batch[o])
  BY <1>1 DEF Inv, CallsCut
<1>3. batch[o] \in Nat /\ taken[o] \subseteq Answers
  BY DEF Inv, Typed
<1>4. ASSUME NEW r \in 1 .. batch[o]
      PROVE  Cardinality({t \in own : r \in t.from .. t.to}) = 1
  <2> DEFINE holding == {t \in own : r \in t.from .. t.to}
  <2>1. \A t \in own : t.from \in Nat /\ t.to \in Nat /\ t \in taken[o] /\ t.layer = l
    BY <1>3 DEF Answers
  <2>2. PICK t \in taken[o] : t.layer = l /\ t.from <= r /\ r <= t.to
    BY <1>2 DEF Cut
  <2>3. t \in holding
    BY <1>3, <2>1, <2>2
  <2>4. \A u \in holding : u = t
    <3>1. \A u, v \in taken[o] : u.layer = l /\ v.layer = l => u = v \/ u.to < v.from \/ v.to < u.from
      BY <1>2 DEF Cut
    <3>2. ASSUME NEW u \in holding PROVE u = t
      <4>1. u \in taken[o] /\ u.layer = l /\ u.from <= r /\ r <= u.to
            /\ u.from \in Nat /\ u.to \in Nat
        BY <1>3, <2>1
      <4>2. t.from \in Nat /\ t.to \in Nat
        BY <2>1, <2>3
      <4>3. ~(u.to < t.from) /\ ~(t.to < u.from)
        BY <1>3, <2>2, <4>1, <4>2
      <4>4. QED
        BY <2>2, <3>1, <4>1, <4>3
    <3>3. QED
      BY <3>2
  <2> HIDE DEF holding
  <2>5. holding = {t}
    BY <2>3, <2>4
  <2>6. QED
    BY <2>5, FS_Singleton DEF holding
<1>5. \A t \in own : t.to <= batch[o] /\ t.of = {<<o, calls[o], l, t.from>>}
  BY DEF Inv, TakenOwn
<1>6. QED
  BY <1>4, <1>5

LEMMA InvEachPlane == Inv => EachPlaneItsOwn
<1> SUFFICES ASSUME Inv, NEW l \in bound, NEW e \in Experts(Layer(l).bits)
             PROVE  LET its(p) == [plane |-> <<p, e>>, bits |-> Layer(l).bits[p][e], rotation |-> e]
                    IN /\ Emitted(art[l].weights, TRUE, 0, 1, e) = its("gate")
                       /\ Emitted(art[l].weights, TRUE, 1, 1, e) = its("up")
                       /\ Emitted(art[l].weights, FALSE, 0, 1, e) = its("down")
  BY DEF EachPlaneItsOwn
<1> DEFINE bits == Layer(l).bits
           a == art[l].weights
<1>1. l \in LayerIds /\ Fused(l) /\ Typed /\ Loaded
  BY DEF Inv, Loaded
<1>2. Assigned(bits) /\ Places(a, bits)
  BY <1>1, ArtKinds, LayerFacts DEF Typed
<1>3. e \in Experts(bits)
  OBVIOUS
<1> HIDE DEF bits, a
<1>4. /\ "gate" = DescriptorRow(TRUE, 0, 1) /\ "up" = DescriptorRow(TRUE, 1, 1)
      /\ "down" = DescriptorRow(FALSE, 0, 1)
  BY DEF DescriptorRow
<1>5. ASSUME NEW fc1, NEW n, NEW p, p = DescriptorRow(fc1, n, 1)
      PROVE  Emitted(a, fc1, n, 1, e) = [plane |-> <<p, e>>, bits |-> bits[p][e], rotation |-> e]
  <2> DEFINE half == 1
  <2>1. p = DescriptorRow(fc1, n, half)
    BY <1>5
  <2> HIDE DEF half
  <2>2. Emitted(a, fc1, n, half, e) = [plane |-> <<p, e>>, bits |-> bits[p][e], rotation |-> e]
    BY <1>2, <1>3, <2>1, EmittedIs
  <2>3. QED
    BY <2>2 DEF half
<1>6. Emitted(a, TRUE, 0, 1, e) = [plane |-> <<"gate", e>>, bits |-> bits["gate"][e], rotation |-> e]
  BY <1>4, <1>5
<1>7. Emitted(a, TRUE, 1, 1, e) = [plane |-> <<"up", e>>, bits |-> bits["up"][e], rotation |-> e]
  BY <1>4, <1>5
<1>8. Emitted(a, FALSE, 0, 1, e) = [plane |-> <<"down", e>>, bits |-> bits["down"][e], rotation |-> e]
  BY <1>4, <1>5
<1>9. QED
  BY <1>6, <1>7, <1>8 DEF bits, a

-----------------------------------------------------------------------------

\* The variables of exl3-mixed.py's load, apply, capture and replay keep
\* their types.
THEOREM TypeCorrect == Spec => []TypeOK
<1>1. QED
  BY ServingInvariant, InvTypeOK, PTL

\* The arenas that layers, slices, calls and replayed graphs share never mix
\* their data up: a call that is over was answered once per row and layer,
\* from its own rows, whatever order the two streams ran in.
THEOREM CallsExact == Spec => []CallExact
<1>1. QED
  BY ServingInvariant, InvCallExact, PTL

\* Whatever the bitrates of a layer, the tables that loading built lead the
\* kernel to every expert's own planes, bitrate and rotation row.
THEOREM PlanesTheirOwn == Spec => []EachPlaneItsOwn
<1>1. QED
  BY ServingInvariant, InvEachPlane, PTL

\* A process refuses in its profile pass or, but for the captures and the
\* layers of several bitrates the property names, not at all.
THEOREM NeverRefusedLater == Spec => []ProfiledNeverRefused
<1>1. Inv => ProfiledNeverRefused
  BY DEF Inv, Refusals
<1>2. QED
  BY <1>1, ServingInvariant, PTL
=============================================================================
