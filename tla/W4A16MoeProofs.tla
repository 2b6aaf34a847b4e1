--------------------------- MODULE W4A16MoeProofs ---------------------------
(***************************************************************************)
(* The grid barrier implements the abstract one, for every set of CTAs,    *)
(* every number of launches and barriers, and every width of the sense     *)
(* word from two values up; the division of a GEMM over a grid gives each  *)
(* tile's slices to different CTAs in turn; and the kernel built on both   *)
(* computes exact sums and leaves a clean workspace.                       *)
(***************************************************************************)
EXTENDS W4A16Moe, FiniteSetTheorems, WellFoundedInduction, TLAPS

-----------------------------------------------------------------------------
(* The grid barrier *)

\* The last CTA to arrive, between its atomic_add and its release.
Closing(c) == at[c] \in {"reset", "publish"}

\* The CTAs counted for the rendezvous that is still open.
Waiting == {c \in members : \/ at[c] = "reset"
                            \/ at[c] = "spin" /\ seen[c] = sense}

\* The rendezvous a CTA is at, those let go but not gone counted as through.
Level(c) == IF at[c] = "spin" /\ seen[c] # sense THEN passed[c] + 1
                                                 ELSE passed[c]

BarrierTypeOK ==
    /\ members \subseteq CtaIds
    /\ rounds \in Nat
    /\ at \in [members -> Places]
    /\ passed \in [members -> Nat]
    /\ seen \in [members -> 0 .. SenseWidth - 1]
    /\ count \in Nat
    /\ sense \in 0 .. SenseWidth - 1

SameLevel == \A c, d \in members : Level(c) = Level(d)
SeenCurrent == \A c \in members :
                   at[c] \in {"add", "reset", "publish"} => seen[c] = sense
OthersWait == \A c, d \in members :
                  Closing(c) /\ d # c => at[d] = "spin" /\ seen[d] = sense
CountExact == IF \E c \in members : at[c] = "publish"
              THEN count = 0 ELSE count = Cardinality(Waiting)

BarrierInv == BarrierTypeOK /\ SameLevel /\ SeenCurrent /\ OthersWait /\ CountExact

\* A step of the sense word always shows to a spinning reader.
LEMMA SenseMoves ==
    ASSUME NEW s \in 0 .. SenseWidth - 1
    PROVE  NextSense(s) \in 0 .. SenseWidth - 1 /\ NextSense(s) # s
  BY SenseWidthAssumption DEF NextSense

LEMMA MembersFinite ==
    ASSUME BarrierTypeOK
    PROVE  /\ IsFiniteSet(members)
           /\ Cardinality(members) \in Nat
           /\ \A W \in SUBSET members : IsFiniteSet(W) /\ Cardinality(W) \in Nat
  <1>1. IsFiniteSet(members)
    BY CtaIdsAssumption, FS_Subset DEF BarrierTypeOK
  <1>2. \A W \in SUBSET members : IsFiniteSet(W)
    BY <1>1, FS_Subset
  <1> QED
    BY <1>1, <1>2, FS_CardinalityType

\* No rendezvous is open between kernels.
LEMMA EmptyCount ==
    ASSUME BarrierInv, \A c \in members : at[c] = "run"
    PROVE  count = 0
  <1>1. Waiting = {}
    BY DEF Waiting
  <1> QED
    BY <1>1, FS_EmptySet DEF BarrierInv, CountExact

LEMMA InitInv == BarrierInit => BarrierInv
  <1> SUFFICES ASSUME BarrierInit PROVE BarrierInv
    OBVIOUS
  <1>1. BarrierTypeOK
    BY SenseWidthAssumption DEF BarrierInit, BarrierTypeOK, Nothing
  <1>2. Waiting = {} /\ members = {}
    BY DEF BarrierInit, Waiting
  <1>3. CountExact
    BY <1>2, FS_EmptySet DEF BarrierInit, CountExact
  <1> QED
    BY <1>1, <1>2, <1>3 DEF BarrierInv, SameLevel, SeenCurrent, OthersWait

LEMMA LaunchInv ==
    ASSUME BarrierInv, NEW S \in SUBSET CtaIds, NEW n \in Nat, BarrierLaunch(S, n)
    PROVE  BarrierInv'
  <1>1. count = 0
    BY EmptyCount DEF BarrierLaunch
  <1>2. BarrierTypeOK'
    BY SenseWidthAssumption DEF BarrierLaunch, BarrierInv, BarrierTypeOK, Places
  <1>3. Waiting' = {} /\ (\A c \in members' : (at[c])' = "run" /\ (passed[c])' = 0)
    BY DEF BarrierLaunch, Waiting
  <1>4. CountExact'
    BY <1>1, <1>3, FS_EmptySet DEF BarrierLaunch, CountExact
  <1> QED
    BY <1>2, <1>3, <1>4 DEF BarrierInv, SameLevel, SeenCurrent, OthersWait, Level, Closing

LEMMA FinishInv ==
    ASSUME BarrierInv, BarrierFinish
    PROVE  BarrierInv'
  <1>1. count = 0
    BY EmptyCount DEF BarrierFinish
  <1>2. BarrierTypeOK'
    BY DEF BarrierFinish, BarrierInv, BarrierTypeOK, Nothing
  <1>3. Waiting' = {} /\ members' = {}
    BY DEF BarrierFinish, Waiting
  <1>4. CountExact'
    BY <1>1, <1>3, FS_EmptySet DEF BarrierFinish, CountExact
  <1> QED
    BY <1>2, <1>3, <1>4 DEF BarrierInv, SameLevel, SeenCurrent, OthersWait

LEMMA EnterInv ==
    ASSUME BarrierInv, NEW c \in members, Enter(c)
    PROVE  BarrierInv'
  <1> USE DEF BarrierInv, BarrierTypeOK, Enter
  <1>1. BarrierTypeOK'
    BY DEF Places
  <1>2. Waiting' = Waiting
    BY DEF Waiting
  <1>3. (\E d \in members : at[d] = "publish")' <=> \E d \in members : at[d] = "publish"
    OBVIOUS
  <1>4. CountExact'
    BY <1>2, <1>3 DEF CountExact
  <1>5. SameLevel'
    BY DEF SameLevel, Level
  <1>6. SeenCurrent'
    BY DEF SeenCurrent
  <1>7. OthersWait'
    BY DEF OthersWait, Closing
  <1> QED
    BY <1>1, <1>4, <1>5, <1>6, <1>7

LEMMA AddInv ==
    ASSUME BarrierInv, NEW c \in members, Add(c)
    PROVE  BarrierInv'
  <1> USE DEF BarrierInv, BarrierTypeOK, Add
  <1>1. BarrierTypeOK'
    BY DEF Places
  <1>2. seen[c] = sense /\ \A d \in members : ~ Closing(d)
    BY DEF SeenCurrent, OthersWait, Closing
  <1>3. c \notin Waiting /\ Waiting \in SUBSET members
    BY DEF Waiting
  <1>4. Waiting' = Waiting \cup {c}
    BY <1>2 DEF Waiting
  <1>5. Cardinality(Waiting') = Cardinality(Waiting) + 1
    BY <1>3, <1>4, MembersFinite, FS_AddElement
  <1>6. count = Cardinality(Waiting)
    BY <1>2 DEF CountExact, Closing
  <1>7. \A d \in members : at'[d] # "publish"
    BY <1>2 DEF Closing
  <1>8. CountExact'
    BY <1>5, <1>6, <1>7 DEF CountExact
  <1>9. SameLevel'
    BY <1>2 DEF SameLevel, Level
  <1>10. SeenCurrent'
    BY DEF SeenCurrent
  <1>11. ASSUME at'[c] = "reset" PROVE Waiting' = members
    <2>1. count = Cardinality(members) - 1
      BY <1>11
    <2>2. Waiting' \in SUBSET members /\ Cardinality(Waiting') = Cardinality(members)
      BY <2>1, <1>3, <1>4, <1>5, <1>6, MembersFinite
    <2> QED
      BY <2>2, MembersFinite, FS_Subset
  <1>12. OthersWait'
    <2>1. SUFFICES ASSUME NEW a \in members, NEW d \in members,
                          Closing(a)', d # a
                   PROVE  at'[d] = "spin" /\ seen'[d] = sense'
      BY DEF OthersWait
    <2>2. a = c /\ at'[c] = "reset"
      BY <2>1, <1>2 DEF Closing
    <2>3. d \in Waiting
      BY <2>1, <2>2, <1>4, <1>11
    <2> QED
      BY <2>1, <2>2, <2>3, <1>2 DEF Waiting, Closing
  <1> QED
    BY <1>1, <1>8, <1>9, <1>10, <1>12

LEMMA ResetInv ==
    ASSUME BarrierInv, NEW c \in members, Reset(c)
    PROVE  BarrierInv'
  <1> USE DEF BarrierInv, BarrierTypeOK, Reset
  <1>1. BarrierTypeOK'
    BY DEF Places
  <1>2. CountExact'
    BY DEF CountExact
  <1>3. SameLevel'
    BY DEF SameLevel, Level
  <1>4. SeenCurrent'
    BY DEF SeenCurrent
  <1>5. OthersWait'
    BY DEF OthersWait, Closing
  <1> QED
    BY <1>1, <1>2, <1>3, <1>4, <1>5

LEMMA PublishInv ==
    ASSUME BarrierInv, NEW c \in members, Publish(c)
    PROVE  BarrierInv'
  <1> USE DEF BarrierInv, BarrierTypeOK, Publish
  <1>1. sense' \in 0 .. SenseWidth - 1 /\ sense' # sense
    BY SenseMoves
  <1>2. BarrierTypeOK'
    BY <1>1 DEF Places
  <1>3. \A d \in members : d # c => at[d] = "spin" /\ seen[d] = sense
    BY DEF OthersWait, Closing
  <1>4. Waiting' = {}
    BY <1>1, <1>3 DEF Waiting
  <1>5. count = 0
    BY DEF CountExact
  <1>6. CountExact'
    BY <1>3, <1>4, <1>5, FS_EmptySet DEF CountExact
  <1>7. \A d \in members : Level(d)' = passed[d] + 1 /\ Level(d) = passed[d]
    BY <1>1, <1>3 DEF Level
  <1>8. SameLevel'
    BY <1>7 DEF SameLevel
  <1>9. SeenCurrent'
    BY <1>3 DEF SeenCurrent
  <1>10. OthersWait'
    BY <1>3 DEF OthersWait, Closing
  <1> QED
    BY <1>2, <1>6, <1>8, <1>9, <1>10

LEMMA ReleasedInv ==
    ASSUME BarrierInv, NEW c \in members, Released(c)
    PROVE  BarrierInv'
  <1> USE DEF BarrierInv, BarrierTypeOK, Released
  <1>1. BarrierTypeOK'
    BY DEF Places
  <1>2. Waiting' = Waiting
    BY DEF Waiting
  <1>3. (\E d \in members : at[d] = "publish")' <=> \E d \in members : at[d] = "publish"
    OBVIOUS
  <1>4. CountExact'
    BY <1>2, <1>3 DEF CountExact
  <1>5. \A d \in members : Level(d)' = Level(d)
    BY DEF Level
  <1>6. SameLevel'
    BY <1>5 DEF SameLevel
  <1>7. SeenCurrent'
    BY DEF SeenCurrent
  <1>8. OthersWait'
    BY DEF OthersWait, Closing
  <1> QED
    BY <1>1, <1>4, <1>6, <1>7, <1>8

LEMMA StepInv ==
    ASSUME BarrierInv, NEW c \in members, BarrierStep(c)
    PROVE  BarrierInv'
  BY EnterInv, AddInv, ResetInv, PublishInv, ReleasedInv DEF BarrierStep

LEMMA NextInv == BarrierInv /\ [BarrierNext]_barrierVars => BarrierInv'
  <1> SUFFICES ASSUME BarrierInv, [BarrierNext]_barrierVars PROVE BarrierInv'
    OBVIOUS
  <1>1. ASSUME NEW S \in (SUBSET CtaIds) \ {{}}, NEW n \in Nat, BarrierLaunch(S, n)
        PROVE  BarrierInv'
    BY <1>1, LaunchInv
  <1>2. CASE BarrierFinish
    BY <1>2, FinishInv
  <1>3. ASSUME NEW c \in members, BarrierStep(c)
        PROVE  BarrierInv'
    BY <1>3, StepInv
  <1>4. CASE UNCHANGED barrierVars
    BY <1>4 DEF barrierVars, BarrierInv, BarrierTypeOK, SameLevel, SeenCurrent, OthersWait,
                CountExact, Level, Closing, Waiting
  <1> QED
    BY <1>1, <1>2, <1>3, <1>4 DEF BarrierNext

\* The barrier's words always mean what the protocol takes them to mean: the
\* counter is the number of CTAs that wait, nobody is more than one
\* rendezvous ahead, and while one CTA closes a rendezvous all others spin.
THEOREM BarrierInvariant == BarrierSpec => []BarrierInv
  BY InitInv, NextInv, PTL DEF BarrierSpec

-----------------------------------------------------------------------------
LEMMA InitImplements == BarrierInit => Phases!Init
  BY DEF BarrierInit, Phases!Init, Phases!Nowhere, ReachedRendezvous, Nothing

LEMMA LaunchImplements ==
    ASSUME BarrierInv, NEW S \in SUBSET CtaIds, NEW n \in Nat, BarrierLaunch(S, n)
    PROVE  Phases!Start(S)
  BY DEF BarrierLaunch, Phases!Start, ReachedRendezvous

LEMMA FinishImplements ==
    ASSUME BarrierInv, BarrierFinish
    PROVE  Phases!Finish
  BY DEF BarrierFinish, Phases!Finish, Phases!Nowhere, ReachedRendezvous, Nothing

LEMMA AddImplements ==
    ASSUME BarrierInv, NEW c \in members, Add(c)
    PROVE  Phases!Reach(c)
  BY DEF BarrierInv, BarrierTypeOK, Add, Phases!Reach, ReachedRendezvous

LEMMA PublishImplements ==
    ASSUME BarrierInv, NEW c \in members, Publish(c)
    PROVE  Phases!Leave(c)
  <1> USE DEF BarrierInv, BarrierTypeOK, Publish
  <1>1. \A d \in members : d # c => at[d] = "spin" /\ seen[d] = sense
    BY DEF OthersWait, Closing
  <1>2. \A d \in members : passed[d] = passed[c]
    BY <1>1 DEF SameLevel, Level
  <1>3. \A d \in members : ReachedRendezvous[d] = passed[c] + 1
    BY <1>1, <1>2 DEF ReachedRendezvous
  <1>4. ReachedRendezvous' = ReachedRendezvous
    BY <1>1 DEF ReachedRendezvous
  <1> QED
    BY <1>3, <1>4 DEF Phases!Leave

LEMMA ReleasedImplements ==
    ASSUME BarrierInv, NEW c \in members, Released(c)
    PROVE  Phases!Leave(c)
  <1> USE DEF BarrierInv, BarrierTypeOK, Released
  <1>1. \A d \in members : Level(d) = passed[c] + 1
    BY DEF SameLevel, Level
  <1>2. \A d \in members : ReachedRendezvous[d] >= Level(d)
    BY DEF ReachedRendezvous, Level
  <1>3. ReachedRendezvous[c] = passed[c] + 1
    BY DEF ReachedRendezvous
  <1>4. ReachedRendezvous' = ReachedRendezvous
    <2>1. \A d \in members : ReachedRendezvous'[d] = ReachedRendezvous[d]
      BY <1>3 DEF ReachedRendezvous
    <2> QED
      BY <2>1 DEF ReachedRendezvous
  <1>5. \A d \in members : ReachedRendezvous[d] >= ReachedRendezvous[c]
    BY <1>1, <1>2, <1>3
  <1> QED
    BY <1>3, <1>4, <1>5 DEF Phases!Leave

\* The steps inside the barrier that neither reach nor leave a rendezvous.
LEMMA InsideStutters ==
    ASSUME BarrierInv, NEW c \in members, Enter(c) \/ Reset(c)
    PROVE  UNCHANGED <<members, ReachedRendezvous, passed>>
  BY DEF BarrierInv, BarrierTypeOK, Enter, Reset, ReachedRendezvous

LEMMA NextImplements ==
    BarrierInv /\ [BarrierNext]_barrierVars => [Phases!Next]_(Phases!vars)
  <1> SUFFICES ASSUME BarrierInv, [BarrierNext]_barrierVars
               PROVE  [Phases!Next]_(Phases!vars)
    OBVIOUS
  <1> USE DEF Phases!Next, Phases!vars
  <1>1. ASSUME NEW S \in (SUBSET CtaIds) \ {{}}, NEW n \in Nat, BarrierLaunch(S, n)
        PROVE  Phases!Next
    BY <1>1, LaunchImplements
  <1>2. CASE BarrierFinish
    BY <1>2, FinishImplements
  <1>3. ASSUME NEW c \in members, BarrierStep(c)
        PROVE  [Phases!Next]_(Phases!vars)
    BY <1>3, AddImplements, PublishImplements, ReleasedImplements, InsideStutters
       DEF BarrierStep
  <1>4. CASE UNCHANGED barrierVars
    BY <1>4 DEF barrierVars, ReachedRendezvous
  <1> QED
    BY <1>1, <1>2, <1>3, <1>4 DEF BarrierNext

\* The sense-reversing barrier implements the abstract barrier: no CTA leaves
\* a rendezvous before every CTA of the launch has reached it, across any
\* number of launches on one workspace and wrap-arounds of the sense word.
THEOREM ImplementsBarrier == BarrierSpec => ImplementsPhases
  <1>1. BarrierSpec => []BarrierInv
    BY BarrierInvariant
  <1> QED
    BY <1>1, InitImplements, NextImplements, PTL
       DEF BarrierSpec, ImplementsPhases, Phases!Spec

-----------------------------------------------------------------------------
(* Numbers *)

LEMMA Division ==
  ASSUME NEW a \in Int, NEW b \in Nat \ {0}
  PROVE  a \div b \in Int /\ b * (a \div b) <= a /\ a < b * (a \div b) + b
OBVIOUS

LEMMA Steps ==
  ASSUME NEW b \in Nat \ {0}, NEW p \in Int, NEW q \in Int, p < q
  PROVE  b * p \in Int /\ b * q \in Int /\ b * p + b <= b * q
<1>1. q - p - 1 \in Nat
  OBVIOUS
<1>2. b * (q - p - 1) >= 0
  BY <1>1
<1> QED
  BY <1>2

\* A product that is less comes from a factor that is less.
LEMMA Ordered ==
  ASSUME NEW b \in Nat \ {0}, NEW p \in Int, NEW q \in Int
  PROVE  /\ b * p < b * q + b => p <= q
         /\ b * p < b * q => p < q
BY Steps

LEMMA Quotient ==
  ASSUME NEW a \in Int, NEW b \in Nat \ {0}, NEW q \in Int, b * q <= a, a < b * q + b
  PROVE  a \div b = q
<1> DEFINE d == a \div b
<1>1. d \in Int /\ b * d <= a /\ a < b * d + b
  BY Division
<1> HIDE DEF d
<1>2. d <= q /\ q <= d
  BY <1>1, Ordered
<1> QED
  BY <1>1, <1>2 DEF d

\* A division rounded up: the least number of b's that reach a.
LEMMA Ceiling ==
  ASSUME NEW a \in Int, NEW b \in Nat \ {0}
  PROVE  /\ CeilDiv(a, b) \in Int
         /\ b * CeilDiv(a, b) >= a
         /\ b * CeilDiv(a, b) < a + b
BY Division DEF CeilDiv

LEMMA CeilingIs ==
  ASSUME NEW a \in Int, NEW b \in Nat \ {0}, NEW q \in Int, b * q >= a, b * q < a + b
  PROVE  CeilDiv(a, b) = q
BY Quotient DEF CeilDiv

LEMMA Remainder ==
  ASSUME NEW a \in Int, NEW b \in Nat \ {0}
  PROVE  a % b \in 0 .. b - 1 /\ a = b * (a \div b) + (a % b)
<1> DEFINE d == a \div b
<1>1. a % b = a - b * d
  OBVIOUS
<1>2. d \in Int /\ b * d <= a /\ a < b * d + b
  BY Division
<1> HIDE DEF d
<1>3. b * d \in Int
  BY <1>2
<1> DEFINE r == a % b
<1>4. r = a - b * d
  BY <1>1
<1> HIDE DEF r
<1>5. r \in 0 .. b - 1 /\ a = b * d + r
  BY <1>2, <1>3, <1>4
<1> QED
  BY <1>5, Zenon DEF d, r

LEMMA MinIn ==
  ASSUME NEW S \in SUBSET Nat, S # {}
  PROVE  Min(S) \in S /\ \A k \in S : Min(S) <= k
<1>1. PICK n \in S : \A k \in S : <<k, n>> \notin OpToRel(<, Nat)
  BY NatLessThanWellFounded, WFMin, Zenon
<1>2. \A k \in S : ~ (k < n)
  BY <1>1, Zenon DEF OpToRel
<1>3. \A k \in S : n <= k
  BY <1>2
<1> QED
  BY <1>3 DEF Min

-----------------------------------------------------------------------------
(* The division of a GEMM over the grid *)

IsGemm(g) == /\ g.grid \in Nat \ {0} /\ g.blocks \in Nat \ {0}
             /\ g.nTiles \in Nat \ {0} /\ g.kTiles \in Nat \ {0}
             /\ g.whole \in BOOLEAN /\ g.m8 \in BOOLEAN

LEMMA MnType ==
  ASSUME NEW g, IsGemm(g)
  PROVE  MnTiles(g) \in Nat \ {0}
<1>1. MnTiles(g) >= g.blocks /\ MnTiles(g) \in Int
  BY Steps DEF IsGemm, MnTiles
<1> QED
  BY <1>1 DEF IsGemm

\* The whole tiles and the tail make up the GEMM, and where there is a tail the
\* waves before it are full.
LEMMA TilesSplit ==
  ASSUME NEW g, IsGemm(g)
  PROVE  /\ TailTiles(g) \in 0 .. MnTiles(g)
         /\ FullWaves(g) \in Nat
         /\ g.grid * FullWaves(g) >= MnTiles(g) - TailTiles(g)
         /\ TailTiles(g) > 0 => g.grid * FullWaves(g) = MnTiles(g) - TailTiles(g)
<1> DEFINE G == g.grid
           mn == MnTiles(g)
<1>1. G \in Nat \ {0} /\ mn \in Nat \ {0}
  BY MnType DEF IsGemm
<1> HIDE DEF G, mn
<1>2. CASE g.whole
  <2>1. TailTiles(g) = 0 /\ FullWaves(g) = CeilDiv(mn, G)
    BY <1>2 DEF TailTiles, FullWaves, mn, G
  <2>2. CeilDiv(mn, G) \in Int /\ G * CeilDiv(mn, G) >= mn
    BY <1>1, Ceiling
  <2>3. CeilDiv(mn, G) >= 0
    BY <1>1, <2>2, Ordered
  <2> QED
    BY <1>1, <2>1, <2>2, <2>3 DEF mn, G
<1>3. CASE ~ g.whole /\ OneTilePerCta(g)
  BY <1>1, <1>3 DEF TailTiles, FullWaves, OneTilePerCta, mn, G
<1>4. CASE ~ g.whole /\ ~ OneTilePerCta(g)
  <2> DEFINE T == TailTiles(g)
  <2>1. FullWaves(g) = (mn - T) \div G
    BY <1>4 DEF FullWaves, mn, G
  <2>2. CASE mn <= G
    <3>1. T = mn
      BY <1>4, <2>2 DEF TailTiles, mn, G
    <3>2. (mn - T) \div G = 0
      BY <1>1, <3>1, Quotient
    <3> QED
      BY <1>1, <2>1, <3>1, <3>2 DEF mn, G
  <2>3. CASE ~ (mn <= G)
    <3> DEFINE rest == mn % G
               q == mn \div G
    <3>1. rest \in 0 .. G - 1 /\ mn = G * q + rest /\ q \in Int
      BY <1>1, Remainder, Division
    <3>2. T = (IF rest * 3 <= G THEN rest + G ELSE rest)
      BY <1>4, <2>3 DEF TailTiles, mn, G
    <3> HIDE DEF rest, q, T
    <3>3. q >= 1
      BY <1>1, <2>3, <3>1, Ordered
    <3>4. PICK n \in {q, q - 1} : mn - T = G * n
      BY <1>1, <3>1, <3>2
    <3>5. (mn - T) \div G = n /\ n \in Nat
      <4>1. n \in Nat /\ G * n \in Int
        BY <1>1, <3>1, <3>3
      <4>2. (G * n) \div G = n
        BY <1>1, <4>1, Quotient
      <4> QED
        BY <3>4, <4>1, <4>2
    <3>6. T \in 0 .. mn
      BY <1>1, <3>1, <3>2, <3>3, Steps
    <3> QED
      BY <1>1, <2>1, <3>4, <3>5, <3>6 DEF mn, G, T
  <2> QED
    BY <2>2, <2>3
<1> QED
  BY <1>2, <1>3, <1>4 DEF IsGemm

\* The first and the last CTA whose stretches touch tail tile w.
FirstCta(g, w) == (g.kTiles * w) \div Iters(g)
LastCta(g, w) == CeilDiv(g.kTiles * (w + 1), Iters(g)) - 1

LEMMA ItersType ==
  ASSUME NEW g, IsGemm(g), TailTiles(g) > 0
  PROVE  /\ Iters(g) \in Nat \ {0}
         /\ Iters(g) * g.grid >= g.kTiles * TailTiles(g)
         /\ TailTiles(g) >= g.grid => Iters(g) >= g.kTiles
<1> DEFINE G == g.grid
           K == g.kTiles
           T == TailTiles(g)
           I == Iters(g)
<1>1. G \in Nat \ {0} /\ K \in Nat \ {0} /\ T \in Nat \ {0}
  BY TilesSplit, MnType DEF IsGemm
<1>2. K * T \in Int /\ K * T >= K
  BY <1>1, Steps
<1>3. I = CeilDiv(K * T, G)
  BY DEF Iters
<1> HIDE DEF G, K, T, I
<1>4. I \in Int /\ G * I >= K * T
  BY <1>1, <1>2, <1>3, Ceiling
<1>5. I > 0
  <2>1. SUFFICES ASSUME ~ (I > 0) PROVE FALSE
    OBVIOUS
  <2>2. G * I <= 0
    BY <1>1, <1>4, <2>1
  <2> QED
    BY <1>1, <1>2, <1>4, <2>2
<1>6. ASSUME T >= G PROVE I >= K
  <2>1. SUFFICES ASSUME I < K PROVE FALSE
    BY <1>1, <1>4
  <2>2. G * I + G <= G * K
    BY <1>1, <1>4, <2>1, Steps
  <2>3. K * T >= K * G
    BY <1>1, <1>6
  <2> QED
    BY <1>1, <1>2, <1>4, <2>2, <2>3
<1>7. I * G >= K * T
  BY <1>1, <1>4
<1> QED
  BY <1>4, <1>5, <1>6, <1>7 DEF G, K, T, I

LEMMA TailCtas ==
  ASSUME NEW g, IsGemm(g), NEW w \in 0 .. TailTiles(g) - 1
  PROVE  LET I == Iters(g)
             K == g.kTiles
             lo == FirstCta(g, w)
             hi == LastCta(g, w)
         IN /\ I \in Nat \ {0} /\ K \in Nat \ {0} /\ K * w \in Nat
            /\ lo \in Nat /\ hi \in 0 .. g.grid - 1 /\ lo <= hi
            /\ I * lo <= K * w /\ K * w < I * lo + I
            /\ I * hi < K * w + K /\ K * w + K <= I * hi + I
<1> DEFINE G == g.grid
           K == g.kTiles
           T == TailTiles(g)
           I == Iters(g)
           lo == FirstCta(g, w)
           hi == LastCta(g, w)
<1>1. /\ G \in Nat \ {0} /\ K \in Nat \ {0} /\ T \in Nat \ {0} /\ w \in 0 .. T - 1
      /\ I \in Nat \ {0} /\ I * G >= K * T
  BY TilesSplit, MnType, ItersType DEF IsGemm
<1>2. lo = (K * w) \div I /\ hi = CeilDiv(K * (w + 1), I) - 1
  BY DEF FirstCta, LastCta
<1> HIDE DEF G, K, T, I, lo, hi
<1>3. K * w \in Nat /\ K * (w + 1) = K * w + K /\ K * w + K <= K * T
  BY <1>1, Steps
<1>4. lo \in Int /\ I * lo <= K * w /\ K * w < I * lo + I
  BY <1>1, <1>2, <1>3, Division
<1>5. hi \in Int /\ I * hi < K * w + K /\ K * w + K <= I * hi + I
  <2> DEFINE a == K * (w + 1)
             n == CeilDiv(a, I)
  <2>1. a \in Int /\ a = K * w + K
    BY <1>1, <1>3
  <2>2. hi = n - 1
    BY <1>2
  <2> HIDE DEF a
  <2>3. n \in Int /\ I * n >= a /\ I * n < a + I
    BY <1>1, <2>1, Ceiling
  <2> HIDE DEF n
  <2>4. hi \in Int /\ I * n = I * hi + I /\ I * hi \in Int
    BY <1>1, <2>2, <2>3
  <2> QED
    BY <1>1, <1>3, <2>1, <2>3, <2>4
<1>6. lo >= 0
  BY <1>1, <1>3, <1>4, Ordered
<1>7. lo <= hi
  BY <1>1, <1>3, <1>4, <1>5, Ordered
<1>8. hi < G
  BY <1>1, <1>3, <1>5, Ordered
<1> QED
  BY <1>1, <1>3, <1>4, <1>5, <1>6, <1>7, <1>8 DEF G, K, T, I, lo, hi

LEMMA TouchedBy ==
  ASSUME NEW g, IsGemm(g), NEW c \in Nat
  PROVE  TailTouched(g, c) =
            {w \in 0 .. TailTiles(g) - 1 : FirstCta(g, w) <= c /\ c <= LastCta(g, w)}
<1>1. ASSUME NEW w \in 0 .. TailTiles(g) - 1
      PROVE  Greater(Iters(g) * c, g.kTiles * w) < Lesser(Iters(g) * (c + 1), g.kTiles * (w + 1))
                 <=> FirstCta(g, w) <= c /\ c <= LastCta(g, w)
  <2> DEFINE K == g.kTiles
             I == Iters(g)
             lo == FirstCta(g, w)
             hi == LastCta(g, w)
  <2>1. /\ I \in Nat \ {0} /\ K \in Nat \ {0} /\ K * w \in Nat /\ w \in Int
        /\ lo \in Int /\ hi \in Int
        /\ I * lo <= K * w /\ K * w < I * lo + I
        /\ I * hi < K * w + K /\ K * w + K <= I * hi + I
    BY TailCtas
  <2> HIDE DEF K, I, lo, hi
  <2>2. I * c \in Int /\ I * (c + 1) = I * c + I /\ K * (w + 1) = K * w + K
    BY <2>1
  <2>3. Greater(I * c, K * w) < Lesser(I * (c + 1), K * (w + 1))
            <=> I * c < K * w + K /\ K * w < I * c + I
    BY <2>1, <2>2 DEF Greater, Lesser
  <2>4. I * c < K * w + K <=> c <= hi
    <3>1. I * c < K * w + K => c <= hi
      BY <2>1, <2>2, Ordered
    <3>2. c <= hi => I * c <= I * hi
      BY <2>1, <2>2, Steps
    <3> QED
      BY <2>1, <2>2, <3>1, <3>2
  <2>5. K * w < I * c + I <=> lo <= c
    <3>1. K * w < I * c + I => lo <= c
      BY <2>1, <2>2, Ordered
    <3>2. lo <= c => I * lo <= I * c
      BY <2>1, <2>2, Steps
    <3> QED
      BY <2>1, <2>2, <3>1, <3>2
  <2> QED
    BY <2>3, <2>4, <2>5 DEF K, I, lo, hi
<1> QED
  BY <1>1 DEF TailTouched

\* A tail tile has one slice for each CTA it is cut over, counted from the last.
LEMMA SlicesAre ==
  ASSUME NEW g, IsGemm(g), NEW w \in 0 .. TailTiles(g) - 1, NEW c \in Nat,
         FirstCta(g, w) <= c, c <= LastCta(g, w)
  PROVE  /\ TailSlices(g, w) = LastCta(g, w) - FirstCta(g, w) + 1
         /\ TailSlice(g, w, c) = LastCta(g, w) - c
<1> DEFINE K == g.kTiles
           I == Iters(g)
           a == K * w
           lo == FirstCta(g, w)
           hi == LastCta(g, w)
           bc == CeilDiv(a, I)
           offset == I * bc - a
           delta == I * c - I * bc
<1>1. /\ I \in Nat \ {0} /\ K \in Nat \ {0} /\ a \in Nat /\ w \in Int
      /\ lo \in Int /\ hi \in Int /\ lo <= hi
      /\ I * lo <= a /\ a < I * lo + I
      /\ I * hi < a + K /\ a + K <= I * hi + I
  BY TailCtas
<1>2. TailSlices(g, w) = IF I * bc > K * (w + 1) THEN 1
                         ELSE CeilDiv(K - offset, I) + (IF offset > 0 THEN 1 ELSE 0)
  BY DEF TailSlices
<1>3. TailSlice(g, w, c) =
         IF I * bc > K * (w + 1) THEN 0
         ELSE IF delta < 0 \/ (offset = 0 /\ delta = 0) THEN TailSlices(g, w) - 1
         ELSE TailSlices(g, w) - 1 - delta \div I - (IF offset > 0 THEN 1 ELSE 0)
  BY DEF TailSlice
<1>4. lo <= c /\ c <= hi /\ c \in Int
  OBVIOUS
<1> HIDE DEF K, I, lo, hi, bc
<1>5. K * (w + 1) = a + K
  BY <1>1
<1> HIDE DEF a
<1>6. bc = (IF a = I * lo THEN lo ELSE lo + 1)
  <2>1. I * (lo + 1) = I * lo + I /\ I * lo \in Int
    BY <1>1
  <2>2. a = I * lo => CeilDiv(a, I) = lo
    BY <1>1, <2>1, CeilingIs
  <2>3. a # I * lo => CeilDiv(a, I) = lo + 1
    BY <1>1, <2>1, CeilingIs
  <2> QED
    BY <2>2, <2>3 DEF bc
<1>7. /\ bc \in Int /\ I * bc \in Int /\ I * lo \in Int /\ I * hi \in Int /\ I * c \in Int
      /\ (offset = 0 /\ bc = lo) \/ (offset > 0 /\ bc = lo + 1)
  BY <1>1, <1>4, <1>6
<1>8. CASE I * bc > a + K
  <2>1. hi < bc
    BY <1>1, <1>7, <1>8, Ordered
  <2>2. hi = lo /\ c = lo
    BY <1>1, <1>4, <1>7, <2>1
  <2>3. TailSlices(g, w) = 1 /\ TailSlice(g, w, c) = 0
    BY <1>2, <1>3, <1>5, <1>8
  <2> QED
    BY <1>1, <2>2, <2>3 DEF lo, hi
<1>9. CASE ~ (I * bc > a + K)
  <2>1. CeilDiv(K - offset, I) = hi + 1 - bc
    <3> DEFINE n == hi + 1 - bc
    <3>1. n \in Int /\ I * n = I * hi + I - I * bc /\ K - offset \in Int
      BY <1>1, <1>7
    <3>2. I * n >= K - offset /\ I * n < (K - offset) + I
      BY <1>1, <1>7, <3>1
    <3> HIDE DEF n
    <3>3. CeilDiv(K - offset, I) = n
      BY <1>1, <3>1, <3>2, CeilingIs
    <3> QED
      BY <3>3 DEF n
  <2>2. TailSlices(g, w) = hi - lo + 1
    BY <1>1, <1>2, <1>5, <1>7, <1>9, <2>1
  <2>3. delta < 0 <=> c < bc
    <3>1. c < bc => I * c + I <= I * bc
      BY <1>1, <1>4, <1>7, Steps
    <3>2. bc <= c => I * bc <= I * c
      BY <1>1, <1>4, <1>7, Steps
    <3> QED
      BY <1>1, <1>4, <1>7, <3>1, <3>2
  <2>4. delta \div I = c - bc
    <3>1. I * (c - bc) = delta /\ c - bc \in Int /\ delta \in Int
      BY <1>1, <1>4, <1>7
    <3> HIDE DEF delta
    <3> QED
      BY <1>1, <3>1, Quotient
  <2>5. CASE delta < 0
    <3>1. c = lo
      BY <1>1, <1>4, <1>7, <2>3, <2>5
    <3>2. TailSlice(g, w, c) = TailSlices(g, w) - 1
      BY <1>3, <1>5, <1>9, <2>5
    <3> QED
      BY <1>1, <2>2, <3>1, <3>2 DEF hi, lo
  <2>6. CASE ~ (delta < 0) /\ offset = 0
    <3>1. delta = 0 => c = bc
      BY <1>1, <1>4, <1>7, <2>3, <2>6, Ordered
    <3> QED
      BY <1>1, <1>3, <1>5, <1>4, <1>7, <1>9, <2>2, <2>4, <2>6, <3>1 DEF lo, hi
  <2>7. CASE ~ (delta < 0) /\ offset > 0
    BY <1>1, <1>3, <1>5, <1>4, <1>7, <1>9, <2>2, <2>4, <2>7 DEF lo, hi
  <2>8. TailSlice(g, w, c) = hi - c
    BY <1>7, <2>5, <2>6, <2>7 DEF hi
  <2> QED
    BY <2>2, <2>8 DEF lo, hi
<1> QED
  BY <1>8, <1>9

\* A tile ends on the CTA the next one begins on, or before it.
LEMMA Neighbours ==
  ASSUME NEW g, IsGemm(g), NEW v \in 0 .. TailTiles(g) - 1, NEW w \in 0 .. TailTiles(g) - 1, v < w
  PROVE  LastCta(g, v) <= FirstCta(g, w)
<1> DEFINE K == g.kTiles
           I == Iters(g)
           hv == LastCta(g, v)
           lw == FirstCta(g, w)
<1>1. /\ I \in Nat \ {0} /\ K \in Nat \ {0} /\ v \in Int /\ w \in Int
      /\ K * v \in Nat /\ K * w \in Nat /\ hv \in Int /\ lw \in Int
      /\ I * hv < K * v + K /\ K * w < I * lw + I
  BY TailCtas
<1> HIDE DEF K, I, hv, lw
<1>2. K * v + K <= K * w
  BY <1>1, Steps
<1>3. I * hv < I * lw + I
  BY <1>1, <1>2
<1>4. hv <= lw
  BY <1>1, <1>3, Ordered
<1> QED
  BY <1>4 DEF hv, lw

\* Where a tile has several slices, they share a slot that is its number or,
\* in a tail that is longer than the grid, its last CTA.
LEMMA SlotIs ==
  ASSUME NEW g, IsGemm(g), NEW w \in 0 .. TailTiles(g) - 1, NEW c \in Nat,
         FirstCta(g, w) <= c, c <= LastCta(g, w), FirstCta(g, w) < LastCta(g, w)
  PROVE  TailSlot(g, w, c) = IF TailTiles(g) < g.grid THEN w ELSE LastCta(g, w)
<1>1. SUFFICES ASSUME ~ (TailTiles(g) < g.grid)
               PROVE  TailSlot(g, w, c) = LastCta(g, w)
  BY DEF TailSlot
<1> DEFINE lo == FirstCta(g, w)
           hi == LastCta(g, w)
           V == {v \in TailTouched(g, c) :
                    /\ v <= w
                    /\ TailSlices(g, v) > 1
                    /\ TailSlice(g, v, c) = TailSlices(g, v) - 1}
<1>2. lo \in Nat /\ hi \in Nat /\ lo <= c /\ c <= hi /\ lo < hi
  BY TailCtas DEF IsGemm
<1>3. hi = lo + 1
  <2> DEFINE K == g.kTiles
             I == Iters(g)
  <2>1. /\ I \in Nat \ {0} /\ K \in Nat \ {0} /\ K * w \in Nat
        /\ K * w < I * lo + I /\ I * hi < K * w + K
    BY TailCtas
  <2>2. K <= I
    <3>1. TailTiles(g) \in Nat /\ g.grid \in Nat
      BY TilesSplit, MnType DEF IsGemm
    <3> QED
      BY <1>1, <3>1, ItersType
  <2> HIDE DEF K, I, lo, hi
  <2>3. I * hi < I * (lo + 1) + I
    <3>1. I * (lo + 1) = I * lo + I /\ I * lo \in Int /\ I * hi \in Int
      BY <1>2, <2>1
    <3> QED
      BY <2>1, <2>2, <3>1
  <2>4. hi <= lo + 1
    BY <1>2, <2>1, <2>3, Ordered
  <2> QED
    BY <1>2, <2>4
<1>4. \A v \in 0 .. TailTiles(g) - 1 : v < w => LastCta(g, v) <= lo
  BY Neighbours
<1>5. \A v \in TailTouched(g, c) :
         /\ v \in 0 .. TailTiles(g) - 1
         /\ FirstCta(g, v) \in Nat /\ LastCta(g, v) \in Nat
         /\ FirstCta(g, v) <= c /\ c <= LastCta(g, v)
         /\ TailSlices(g, v) = LastCta(g, v) - FirstCta(g, v) + 1
         /\ TailSlice(g, v, c) = LastCta(g, v) - c
  BY TouchedBy, TailCtas, SlicesAre DEF IsGemm
<1>6. TailSlot(g, w, c) = c + Cardinality(V)
  BY <1>1 DEF TailSlot
<1>7. \A v \in V : v = w
  <2>1. SUFFICES ASSUME NEW v \in V, v # w PROVE FALSE
    OBVIOUS
  <2>2. v < w /\ v \in 0 .. TailTiles(g) - 1 /\ v \in TailTouched(g, c)
    BY <2>1, <1>5
  <2>3. LastCta(g, v) <= lo /\ c <= LastCta(g, v)
    BY <1>4, <1>5, <2>2
  <2>4. FirstCta(g, v) < LastCta(g, v) /\ FirstCta(g, v) = c
    BY <1>2, <1>5, <2>2
  <2> QED
    BY <1>2, <1>5, <2>2, <2>3, <2>4
<1>8. w \in V <=> c = lo
  <2>1. w \in TailTouched(g, c)
    BY <1>2, TouchedBy
  <2> QED
    BY <1>2, <1>5, <2>1
<1> HIDE DEF V, lo, hi
<1>9. CASE c = lo
  <2>1. V = {w}
    BY <1>7, <1>8, <1>9
  <2> QED
    BY <1>2, <1>3, <1>6, <1>9, <2>1, FS_Singleton DEF hi
<1>10. CASE c # lo
  <2>1. V = {} /\ c = hi
    BY <1>2, <1>3, <1>7, <1>8, <1>10
  <2> QED
    BY <1>2, <1>6, <2>1, FS_EmptySet DEF hi
<1> QED
  BY <1>9, <1>10

\* The K tiles of a slice, from its first to the one after its last.
LEMMA TailPieceIs ==
  ASSUME NEW g, IsGemm(g), NEW w \in 0 .. TailTiles(g) - 1, NEW c \in Nat,
         FirstCta(g, w) <= c, c <= LastCta(g, w)
  PROVE  LET p == TailPiece(g, c, w)
             I == Iters(g)
             a == g.kTiles * w
         IN /\ p.tile = w + MnTiles(g) - TailTiles(g)
            /\ p.slices = LastCta(g, w) - FirstCta(g, w) + 1
            /\ p.slice = LastCta(g, w) - c
            /\ p.slot = TailSlot(g, w, c)
            /\ p.k = IF c = FirstCta(g, w) THEN 0 ELSE I * c - a
            /\ p.k + p.cnt = IF c = LastCta(g, w) THEN g.kTiles ELSE I * c + I - a
            /\ p.k \in Nat /\ p.cnt \in Nat \ {0} /\ p.k + p.cnt <= g.kTiles
<1> DEFINE K == g.kTiles
           I == Iters(g)
           a == K * w
           lo == FirstCta(g, w)
           hi == LastCta(g, w)
           from == Greater(I * c - a, 0)
           upTo == Lesser(I * (c + 1) - a, K)
           p == TailPiece(g, c, w)
<1>1. /\ I \in Nat \ {0} /\ K \in Nat \ {0} /\ a \in Nat
      /\ lo \in Nat /\ hi \in Nat /\ lo <= hi
      /\ I * lo <= a /\ a < I * lo + I
      /\ I * hi < a + K /\ a + K <= I * hi + I
  BY TailCtas DEF IsGemm
<1>2. /\ p.tile = w + MnTiles(g) - TailTiles(g)
      /\ p.slices = TailSlices(g, w) /\ p.slice = TailSlice(g, w, c)
      /\ p.slot = TailSlot(g, w, c)
      /\ p.k = from /\ p.cnt = upTo - from
  BY DEF TailPiece
<1>3. p.slices = hi - lo + 1 /\ p.slice = hi - c
  BY <1>2, SlicesAre
<1>4. lo <= c /\ c <= hi
  OBVIOUS
<1> HIDE DEF K, I, a, lo, hi, p
<1>5. I * c \in Int /\ I * (c + 1) = I * c + I /\ I * lo \in Int /\ I * hi \in Int
  BY <1>1
<1>6. I * lo <= I * c /\ I * c <= I * hi
  BY <1>1, <1>4, <1>5, Steps
<1>7. from = (IF c = lo THEN 0 ELSE I * c - a)
  <2>1. c # lo => I * lo + I <= I * c
    BY <1>1, <1>4, Steps
  <2> QED
    BY <1>1, <1>5, <2>1 DEF Greater
<1>8. upTo = (IF c = hi THEN K ELSE I * c + I - a)
  <2>1. c # hi => I * c + I <= I * hi
    BY <1>1, <1>4, Steps
  <2> QED
    BY <1>1, <1>5, <2>1 DEF Lesser
<1>9. from \in Nat /\ upTo \in Nat /\ from < upTo /\ upTo <= K
  BY <1>1, <1>4, <1>5, <1>6 DEF Greater, Lesser
<1> HIDE DEF from, upTo
<1>10. p.k + p.cnt = upTo /\ p.k \in Nat /\ p.cnt \in Nat \ {0}
  BY <1>2, <1>9
<1> QED
  BY <1>2, <1>3, <1>7, <1>8, <1>9, <1>10 DEF K, I, a, lo, hi, p

\* Piece i of CTA c is a whole tile before the tail, or its slice of a tile of the tail.
IsWhole(g, c, i) ==
    /\ i \in 1 .. FullWaves(g)
    /\ Pieces(g, c)[i] = WholePiece(g, c, i)
    /\ c + (i - 1) * g.grid \in 0 .. MnTiles(g) - TailTiles(g) - 1

IsTail(g, c, i, w) ==
    /\ w \in 0 .. TailTiles(g) - 1
    /\ i = TailTurn(g, w)
    /\ FirstCta(g, w) <= c /\ c <= LastCta(g, w)
    /\ Pieces(g, c)[i] = TailPiece(g, c, w)

LEMMA PieceIs ==
  ASSUME NEW g, IsGemm(g), NEW c \in 0 .. g.grid - 1, NEW i \in DOMAIN Pieces(g, c)
  PROVE  IsWhole(g, c, i) \/ \E w \in 0 .. TailTiles(g) - 1 : IsTail(g, c, i, w)
<1> DEFINE G == g.grid
           W == FullWaves(g)
           mn == MnTiles(g)
           T == TailTiles(g)
<1>1. /\ G \in Nat \ {0} /\ mn \in Nat \ {0} /\ T \in 0 .. mn /\ W \in Nat
      /\ G * W >= mn - T /\ (T > 0 => G * W = mn - T)
  BY TilesSplit, MnType DEF IsGemm
<1>2. c \in Nat /\ c < G
  BY <1>1
<1>3. CASE i \in WholeTurns(g, c)
  <2>1. i \in 1 .. W /\ c + (i - 1) * G < mn
    BY <1>3 DEF WholeTurns
  <2>2. Pieces(g, c)[i] = WholePiece(g, c, i)
    BY <1>1, <2>1 DEF Pieces
  <2> HIDE DEF G, W, mn, T
  <2>3. (i - 1) * G \in Nat /\ G * (i - 1) = (i - 1) * G
    BY <1>1, <2>1
  <2>4. T > 0 => (i - 1) * G + G <= G * W
    BY <1>1, <2>1, <2>3, Steps
  <2>5. c + (i - 1) * G \in 0 .. mn - T - 1
    BY <1>1, <1>2, <2>1, <2>3, <2>4
  <2> QED
    BY <2>1, <2>2, <2>5 DEF IsWhole, G, W, mn, T
<1>4. ASSUME NEW w \in TailTouched(g, c), i = TailTurn(g, w)
      PROVE  IsTail(g, c, i, w)
  <2>1. w \in 0 .. T - 1 /\ FirstCta(g, w) <= c /\ c <= LastCta(g, w)
    BY <1>2, TouchedBy
  <2>2. i = W + 1 + w /\ i - TailTurn(g, 0) = w /\ ~ (i <= W)
    BY <1>1, <1>4, <2>1 DEF TailTurn
  <2>3. Pieces(g, c)[i] = TailPiece(g, c, w)
    BY <2>2 DEF Pieces
  <2> QED
    BY <1>4, <2>1, <2>3 DEF IsTail
<1>5. \A w \in TailTouched(g, c) : w \in 0 .. T - 1
  BY DEF TailTouched
<1> QED
  BY <1>3, <1>4, <1>5 DEF Pieces

\* A piece lies in its tile; the first slice reaches to the end of the tile's K
\* tiles and the last one from their beginning.
LEMMA PieceType ==
  ASSUME NEW g, IsGemm(g), NEW c \in 0 .. g.grid - 1, NEW i \in DOMAIN Pieces(g, c)
  PROVE  LET p == Pieces(g, c)[i]
         IN /\ p.tile \in 0 .. MnTiles(g) - 1
            /\ p.k \in Nat /\ p.cnt \in Nat \ {0} /\ p.k + p.cnt <= g.kTiles
            /\ p.slices \in Nat \ {0} /\ p.slice \in 0 .. p.slices - 1
            /\ p.slices > 1 => p.slot \in 0 .. g.grid - 1
            /\ p.slice = 0 => p.k + p.cnt = g.kTiles
            /\ p.slice = p.slices - 1 => p.k = 0
<1> DEFINE p == Pieces(g, c)[i]
<1>1. /\ g.grid \in Nat \ {0} /\ g.kTiles \in Nat \ {0} /\ MnTiles(g) \in Nat \ {0}
      /\ TailTiles(g) \in 0 .. MnTiles(g)
  BY TilesSplit, MnType DEF IsGemm
<1>2. CASE IsWhole(g, c, i)
  BY <1>1, <1>2 DEF IsWhole, WholePiece
<1>3. ASSUME NEW w \in 0 .. TailTiles(g) - 1, IsTail(g, c, i, w)
      PROVE  /\ p.tile \in 0 .. MnTiles(g) - 1
             /\ p.k \in Nat /\ p.cnt \in Nat \ {0} /\ p.k + p.cnt <= g.kTiles
             /\ p.slices \in Nat \ {0} /\ p.slice \in 0 .. p.slices - 1
             /\ p.slices > 1 => p.slot \in 0 .. g.grid - 1
             /\ p.slice = 0 => p.k + p.cnt = g.kTiles
             /\ p.slice = p.slices - 1 => p.k = 0
  <2> DEFINE lo == FirstCta(g, w)
             hi == LastCta(g, w)
  <2>1. lo \in Nat /\ hi \in 0 .. g.grid - 1 /\ lo <= c /\ c <= hi /\ c \in Nat
    BY <1>1, <1>3, TailCtas DEF IsTail
  <2>2. /\ p.tile = w + MnTiles(g) - TailTiles(g)
        /\ p.slices = hi - lo + 1 /\ p.slice = hi - c /\ p.slot = TailSlot(g, w, c)
        /\ c = lo => p.k = 0
        /\ c = hi => p.k + p.cnt = g.kTiles
        /\ p.k \in Nat /\ p.cnt \in Nat \ {0} /\ p.k + p.cnt <= g.kTiles
    BY <1>3, <2>1, TailPieceIs DEF IsTail
  <2>3. p.slices > 1 => p.slot \in 0 .. g.grid - 1
    <3>1. SUFFICES ASSUME p.slices > 1 PROVE p.slot \in 0 .. g.grid - 1
      OBVIOUS
    <3>2. TailSlot(g, w, c) = IF TailTiles(g) < g.grid THEN w ELSE hi
      BY <2>1, <2>2, <3>1, SlotIs
    <3> QED
      BY <1>1, <2>1, <2>2, <3>2
  <2> HIDE DEF p, lo, hi
  <2> QED
    BY <1>1, <2>1, <2>2, <2>3
<1> QED
  BY <1>2, <1>3, PieceIs

\* Two pieces of a tile agree on its slices and its slot; they have different
\* turns, and each adds the K tiles before those of the turn before.
LEMMA SameTile ==
  ASSUME NEW g, IsGemm(g),
         NEW c \in 0 .. g.grid - 1, NEW i \in DOMAIN Pieces(g, c),
         NEW d \in 0 .. g.grid - 1, NEW j \in DOMAIN Pieces(g, d),
         Pieces(g, c)[i].tile = Pieces(g, d)[j].tile
  PROVE  LET p == Pieces(g, c)[i]
             q == Pieces(g, d)[j]
         IN /\ p.slices = q.slices
            /\ p.slices > 1 => p.slot = q.slot
            /\ p.slice = q.slice => c = d /\ i = j
            /\ q.slice = p.slice + 1 => q.k + q.cnt = p.k
<1> DEFINE p == Pieces(g, c)[i]
           q == Pieces(g, d)[j]
           G == g.grid
           start == MnTiles(g) - TailTiles(g)
<1>1. /\ G \in Nat \ {0} /\ MnTiles(g) \in Nat \ {0}
      /\ TailTiles(g) \in 0 .. MnTiles(g) /\ start \in Nat /\ FullWaves(g) \in Nat
  BY TilesSplit, MnType DEF IsGemm
<1>2. \/ IsWhole(g, c, i) /\ p.tile \in Nat /\ p.tile < start
      \/ \E w \in 0 .. TailTiles(g) - 1 : IsTail(g, c, i, w) /\ p.tile = w + start
  BY <1>1, PieceIs, TailPieceIs DEF IsWhole, IsTail, WholePiece
<1>3. \/ IsWhole(g, d, j) /\ q.tile \in Nat /\ q.tile < start
      \/ \E w \in 0 .. TailTiles(g) - 1 : IsTail(g, d, j, w) /\ q.tile = w + start
  BY <1>1, PieceIs, TailPieceIs DEF IsWhole, IsTail, WholePiece
<1>4. CASE IsWhole(g, c, i) /\ IsWhole(g, d, j)
  <2>1. p = WholePiece(g, c, i) /\ q = WholePiece(g, d, j) /\ i \in Nat /\ j \in Nat
    BY <1>1, <1>4 DEF IsWhole
  <2>2. p.slice = 0 /\ q.slice = 0 /\ p.slices = 1 /\ q.slices = 1
    BY <2>1 DEF WholePiece
  <2>3. c + (i - 1) * G = d + (j - 1) * G
    BY <2>1 DEF WholePiece
  <2> DEFINE t == c + (i - 1) * G
             m == i - 1
             n == j - 1
  <2>4. c \in 0 .. G - 1 /\ d \in 0 .. G - 1 /\ m \in Int /\ n \in Int
    BY <1>1, <2>1
  <2>5. t = c + G * m /\ t = d + G * n
    BY <1>1, <2>1, <2>3, <2>4
  <2> HIDE DEF G, m, n, t, p, q
  <2>6. G * m \in Int /\ G * n \in Int
    BY <1>1, <2>4
  <2>7. m <= n /\ n <= m
    BY <1>1, <2>4, <2>5, <2>6, Ordered
  <2>8. m = n /\ c = d
    BY <1>1, <2>4, <2>5, <2>6, <2>7
  <2>9. i = j
    BY <2>1, <2>8 DEF m, n
  <2> QED
    BY <2>2, <2>8, <2>9 DEF p, q
<1>5. ASSUME NEW v \in 0 .. TailTiles(g) - 1, IsTail(g, c, i, v),
             NEW w \in 0 .. TailTiles(g) - 1, IsTail(g, d, j, w), v = w
      PROVE  /\ p.slices = q.slices
             /\ p.slices > 1 => p.slot = q.slot
             /\ p.slice = q.slice => c = d /\ i = j
             /\ q.slice = p.slice + 1 => q.k + q.cnt = p.k
  <2> DEFINE lo == FirstCta(g, w)
             hi == LastCta(g, w)
             I == Iters(g)
             a == g.kTiles * w
  <2>1. /\ lo \in Nat /\ hi \in Nat /\ c \in Nat /\ d \in Nat
        /\ lo <= c /\ c <= hi /\ lo <= d /\ d <= hi
        /\ I \in Nat \ {0} /\ a \in Nat
    BY <1>1, <1>5, TailCtas DEF IsTail
  <2>2. p = TailPiece(g, c, w) /\ q = TailPiece(g, d, w) /\ i = j
    BY <1>5 DEF IsTail
  <2>3. /\ p.slices = hi - lo + 1 /\ p.slice = hi - c /\ p.slot = TailSlot(g, w, c)
        /\ p.k = IF c = lo THEN 0 ELSE I * c - a
    BY <2>1, <2>2, TailPieceIs
  <2>4. /\ q.slices = hi - lo + 1 /\ q.slice = hi - d /\ q.slot = TailSlot(g, w, d)
        /\ q.k + q.cnt = IF d = hi THEN g.kTiles ELSE I * d + I - a
    BY <2>1, <2>2, TailPieceIs
  <2>5. p.slices > 1 => TailSlot(g, w, c) = TailSlot(g, w, d)
    BY <2>1, <2>3, SlotIs
  <2> HIDE DEF lo, hi, I, a, p, q
  <2>6. q.slice = p.slice + 1 => c = d + 1 /\ I * c = I * d + I
    BY <2>1, <2>3, <2>4
  <2>7. q.slice = p.slice + 1 => q.k + q.cnt = p.k
    BY <2>1, <2>3, <2>4, <2>6
  <2>8. p.slice = q.slice => c = d
    BY <2>1, <2>3, <2>4
  <2> QED
    BY <2>2, <2>3, <2>4, <2>5, <2>7, <2>8
<1>6. p.tile = q.tile
  OBVIOUS
<1> HIDE DEF p, q, start
<1> QED
  BY <1>1, <1>2, <1>3, <1>4, <1>5, <1>6 DEF p, q

\* No slot serves two tiles of one GEMM.
LEMMA SameSlot ==
  ASSUME NEW g, IsGemm(g),
         NEW c \in 0 .. g.grid - 1, NEW i \in DOMAIN Pieces(g, c),
         NEW d \in 0 .. g.grid - 1, NEW j \in DOMAIN Pieces(g, d),
         Pieces(g, c)[i].slices > 1, Pieces(g, d)[j].slices > 1,
         Pieces(g, c)[i].slot = Pieces(g, d)[j].slot
  PROVE  Pieces(g, c)[i].tile = Pieces(g, d)[j].tile
<1> DEFINE p == Pieces(g, c)[i]
           q == Pieces(g, d)[j]
           SlotOf(w) == IF TailTiles(g) < g.grid THEN w ELSE LastCta(g, w)
<1>1. g.grid \in Nat \ {0} /\ c \in Nat /\ d \in Nat /\ TailTiles(g) \in Nat
  BY TilesSplit, MnType DEF IsGemm
<1>2. ~ IsWhole(g, c, i) /\ ~ IsWhole(g, d, j)
  BY DEF IsWhole, WholePiece
<1>3. PICK v \in 0 .. TailTiles(g) - 1 : IsTail(g, c, i, v)
  BY <1>2, PieceIs
<1>4. PICK w \in 0 .. TailTiles(g) - 1 : IsTail(g, d, j, w)
  BY <1>2, PieceIs
<1>5. /\ FirstCta(g, v) \in Nat /\ LastCta(g, v) \in Nat
      /\ FirstCta(g, w) \in Nat /\ LastCta(g, w) \in Nat
  BY TailCtas DEF IsGemm
<1>6. /\ p.tile = v + MnTiles(g) - TailTiles(g)
      /\ FirstCta(g, v) < LastCta(g, v)
  BY <1>1, <1>3, <1>5, TailPieceIs DEF IsTail
<1>7. /\ q.tile = w + MnTiles(g) - TailTiles(g)
      /\ FirstCta(g, w) < LastCta(g, w)
      /\ q.slot = TailSlot(g, w, d)
  BY <1>1, <1>4, <1>5, TailPieceIs DEF IsTail
<1>8. p.slot = SlotOf(v)
  BY <1>1, <1>3, <1>6, SlotIs, TailPieceIs DEF IsTail
<1>9. q.slot = SlotOf(w)
  BY <1>1, <1>4, <1>7, SlotIs DEF IsTail
<1>10. SlotOf(v) = SlotOf(w)
  BY <1>8, <1>9
<1>11. v < w => LastCta(g, v) <= FirstCta(g, w)
  BY Neighbours
<1>12. w < v => LastCta(g, w) <= FirstCta(g, v)
  BY Neighbours
<1>13. v = w
  BY <1>5, <1>6, <1>7, <1>10, <1>11, <1>12
<1> QED
  BY <1>6, <1>7, <1>13

\* Every tile has a last slice: the one that stores it.
LEMMA LastPiece ==
  ASSUME NEW g, IsGemm(g), NEW t \in 0 .. MnTiles(g) - 1
  PROVE  \E c \in 0 .. g.grid - 1 : \E i \in DOMAIN Pieces(g, c) :
            Pieces(g, c)[i].tile = t /\ Pieces(g, c)[i].slice = Pieces(g, c)[i].slices - 1
<1> DEFINE G == g.grid
           mn == MnTiles(g)
           T == TailTiles(g)
           W == FullWaves(g)
<1>1. /\ G \in Nat \ {0} /\ mn \in Nat \ {0} /\ T \in 0 .. mn /\ W \in Nat
      /\ G * W >= mn - T /\ (T > 0 => G * W = mn - T)
  BY TilesSplit, MnType DEF IsGemm
<1>2. CASE t < mn - T
  <2> DEFINE c == t % G
             q == t \div G
             i == q + 1
  <2>0. t \in Int
    BY <1>1
  <2>1. c \in 0 .. G - 1 /\ t = G * q + c /\ q \in Int
    BY <1>1, <2>0, Remainder, Division
  <2>2. /\ i - 1 = q /\ DOMAIN Pieces(g, c) = WholeTurns(g, c) \cup {TailTurn(g, w) : w \in TailTouched(g, c)}
        /\ i \in WholeTurns(g, c) <=> i \in 1 .. W /\ c + (i - 1) * G < mn
        /\ i \in WholeTurns(g, c) /\ i <= W => Pieces(g, c)[i] = WholePiece(g, c, i)
    BY <2>1 DEF Pieces, WholeTurns
  <2> HIDE DEF c, q, G, mn, T, W
  <2>3. q >= 0 /\ q < W
    <3>1. G * q < G * W /\ 0 < G * q + G
      BY <1>1, <1>2, <2>1
    <3> QED
      BY <1>1, <2>1, <3>1, Ordered
  <2>4. i \in 1 .. W /\ c + (i - 1) * G = t /\ t < mn
    BY <1>1, <1>2, <2>1, <2>2, <2>3
  <2>5. i \in DOMAIN Pieces(g, c) /\ Pieces(g, c)[i] = WholePiece(g, c, i)
    BY <2>2, <2>4
  <2>6. WholePiece(g, c, i).tile = t /\ WholePiece(g, c, i).slice = WholePiece(g, c, i).slices - 1
    BY <2>4 DEF WholePiece, G
  <2> HIDE DEF i
  <2> QED
    BY <2>1, <2>5, <2>6 DEF G
<1>3. CASE ~ (t < mn - T)
  <2> DEFINE w == t - (mn - T)
             c == FirstCta(g, w)
             i == TailTurn(g, w)
  <2>1. w \in 0 .. T - 1
    BY <1>1, <1>3
  <2> HIDE DEF w
  <2>2. c \in 0 .. G - 1 /\ c \in Nat /\ c <= LastCta(g, w) /\ LastCta(g, w) \in Nat
    BY <1>1, <2>1, TailCtas
  <2>3. w \in TailTouched(g, c)
    BY <2>1, <2>2, TouchedBy
  <2>4. i \in DOMAIN Pieces(g, c) /\ Pieces(g, c)[i] = TailPiece(g, c, w)
    <3>1. i = W + 1 + w /\ i - TailTurn(g, 0) = w /\ ~ (i <= W)
      BY <1>1, <2>1 DEF TailTurn
    <3> QED
      BY <2>3, <3>1 DEF Pieces
  <2>5. /\ TailPiece(g, c, w).tile = w + mn - T
        /\ TailPiece(g, c, w).slices = LastCta(g, w) - c + 1
        /\ TailPiece(g, c, w).slice = LastCta(g, w) - c
    BY <2>1, <2>2, TailPieceIs
  <2>6. w + mn - T = t
    BY <1>1 DEF w
  <2> HIDE DEF c, i
  <2> QED
    BY <2>2, <2>4, <2>5, <2>6
<1> QED
  BY <1>2, <1>3

\* A CTA has a piece of every tail tile its stretch touches.
LEMMA TailReached ==
  ASSUME NEW g, IsGemm(g), NEW w \in 0 .. TailTiles(g) - 1, NEW c \in Nat,
         FirstCta(g, w) <= c, c <= LastCta(g, w)
  PROVE  /\ c \in 0 .. g.grid - 1
         /\ TailTurn(g, w) \in DOMAIN Pieces(g, c)
         /\ IsTail(g, c, TailTurn(g, w), w)
<1> DEFINE W == FullWaves(g)
           i == TailTurn(g, w)
<1>1. W \in Nat /\ TailTiles(g) \in Nat /\ w \in Nat /\ g.grid \in Nat
  BY TilesSplit, MnType DEF IsGemm
<1>2. c \in 0 .. g.grid - 1
  BY <1>1, TailCtas
<1>3. w \in TailTouched(g, c)
  BY TouchedBy
<1>4. i - TailTurn(g, 0) = w /\ ~ (i <= W)
  BY <1>1 DEF TailTurn
<1>5. i \in DOMAIN Pieces(g, c) /\ Pieces(g, c)[i] = TailPiece(g, c, w)
  BY <1>3, <1>4 DEF Pieces
<1> QED
  BY <1>2, <1>5 DEF IsTail

LEMMA AssignmentIs ==
  ASSUME NEW g, NEW a \in Assignments(g)
  PROVE  /\ a = <<a[1], a[2]>> /\ a[1] \in 0 .. g.grid - 1
         /\ a[2] \in DOMAIN Pieces(g, a[1])
         /\ PieceOf(g, a) = Pieces(g, a[1])[a[2]]
BY DEF Assignments, PieceOf

LEMMA AssignmentOf ==
  ASSUME NEW g, NEW c \in 0 .. g.grid - 1, NEW i \in DOMAIN Pieces(g, c)
  PROVE  <<c, i>> \in Assignments(g) /\ PieceOf(g, <<c, i>>) = Pieces(g, c)[i]
BY DEF Assignments, PieceOf

\* The pieces of a tile are one whole tile, or those of the CTAs that touch it.
LEMMA PiecesOfTile ==
  ASSUME NEW g, IsGemm(g), NEW t \in 0 .. MnTiles(g) - 1
  PROVE  LET mine == {a \in Assignments(g) : PieceOf(g, a).tile = t}
         IN \/ \E a : /\ mine = {a}
                      /\ LET p == PieceOf(g, a)
                         IN p.slices = 1 /\ p.slice = 0 /\ p.k = 0 /\ p.cnt = g.kTiles
            \/ \E w \in 0 .. TailTiles(g) - 1 :
                  /\ mine = {<<c, TailTurn(g, w)>> : c \in FirstCta(g, w) .. LastCta(g, w)}
                  /\ \A c \in FirstCta(g, w) .. LastCta(g, w) :
                        PieceOf(g, <<c, TailTurn(g, w)>>) = TailPiece(g, c, w)
<1> DEFINE mine == {a \in Assignments(g) : PieceOf(g, a).tile = t}
           start == MnTiles(g) - TailTiles(g)
<1>1. /\ g.grid \in Nat \ {0} /\ MnTiles(g) \in Nat \ {0}
      /\ TailTiles(g) \in 0 .. MnTiles(g) /\ start \in Nat /\ FullWaves(g) \in Nat
  BY TilesSplit, MnType DEF IsGemm
<1>2. PICK c \in 0 .. g.grid - 1 : \E i \in DOMAIN Pieces(g, c) : Pieces(g, c)[i].tile = t
  BY LastPiece
<1>3. PICK i \in DOMAIN Pieces(g, c) : Pieces(g, c)[i].tile = t
  BY <1>2
<1>4. CASE IsWhole(g, c, i)
  <2> DEFINE a == <<c, i>>
  <2>1. a \in mine /\ PieceOf(g, a) = WholePiece(g, c, i)
    BY <1>3, <1>4, AssignmentOf DEF IsWhole
  <2>2. ASSUME NEW b \in mine PROVE b = a
    <3>1. /\ b = <<b[1], b[2]>> /\ b[1] \in 0 .. g.grid - 1 /\ b[2] \in DOMAIN Pieces(g, b[1])
          /\ PieceOf(g, b) = Pieces(g, b[1])[b[2]] /\ PieceOf(g, b).tile = t
      BY AssignmentIs
    <3>2. /\ Pieces(g, c)[i].slices = 1 /\ Pieces(g, c)[i].slice = 0
      BY <1>4 DEF IsWhole, WholePiece
    <3>3. Pieces(g, b[1])[b[2]].slices = 1
      BY <1>3, <3>1, <3>2, SameTile
    <3>4. Pieces(g, b[1])[b[2]].slice = 0
      <4>1. Pieces(g, b[1])[b[2]].slice \in 0 .. Pieces(g, b[1])[b[2]].slices - 1
        BY <3>1, PieceType
      <4> QED
        BY <3>3, <4>1
    <3>5. b[1] = c /\ b[2] = i
      BY <1>3, <3>1, <3>2, <3>4, SameTile
    <3> QED
      BY <3>1, <3>5
  <2>3. mine = {a}
    BY <2>1, <2>2
  <2> QED
    BY <2>1, <2>3 DEF WholePiece
<1>5. ASSUME NEW w \in 0 .. TailTiles(g) - 1, IsTail(g, c, i, w)
      PROVE  /\ mine = {<<d, TailTurn(g, w)>> : d \in FirstCta(g, w) .. LastCta(g, w)}
             /\ \A d \in FirstCta(g, w) .. LastCta(g, w) :
                   PieceOf(g, <<d, TailTurn(g, w)>>) = TailPiece(g, d, w)
  <2> DEFINE lo == FirstCta(g, w)
             hi == LastCta(g, w)
  <2>1. lo \in Nat /\ hi \in Nat /\ w \in Int /\ c \in Nat
    BY <1>1, TailCtas
  <2>2. t = w + start
    BY <1>1, <1>3, <1>5, <2>1, TailPieceIs DEF IsTail
  <2>3. ASSUME NEW d \in lo .. hi
        PROVE  <<d, TailTurn(g, w)>> \in mine /\ PieceOf(g, <<d, TailTurn(g, w)>>) = TailPiece(g, d, w)
    <3>1. d \in Nat /\ lo <= d /\ d <= hi
      BY <2>1
    <3>2. /\ d \in 0 .. g.grid - 1 /\ TailTurn(g, w) \in DOMAIN Pieces(g, d)
          /\ Pieces(g, d)[TailTurn(g, w)] = TailPiece(g, d, w)
      BY <3>1, TailReached DEF IsTail
    <3>3. TailPiece(g, d, w).tile = w + MnTiles(g) - TailTiles(g)
      BY <3>1, TailPieceIs
    <3>4. TailPiece(g, d, w).tile = t
      BY <1>1, <2>1, <2>2, <3>3
    <3> QED
      BY <3>2, <3>4, AssignmentOf
  <2>4. ASSUME NEW b \in mine PROVE \E d \in lo .. hi : b = <<d, TailTurn(g, w)>>
    <3>1. /\ b = <<b[1], b[2]>> /\ b[1] \in 0 .. g.grid - 1 /\ b[2] \in DOMAIN Pieces(g, b[1])
          /\ Pieces(g, b[1])[b[2]].tile = t
      BY AssignmentIs
    <3>2. ~ IsWhole(g, b[1], b[2])
      <4>1. SUFFICES ASSUME IsWhole(g, b[1], b[2]) PROVE FALSE
        OBVIOUS
      <4>2. t = b[1] + (b[2] - 1) * g.grid
        BY <3>1, <4>1 DEF IsWhole, WholePiece
      <4>3. t \in 0 .. start - 1
        BY <4>1, <4>2 DEF IsWhole
      <4> QED
        BY <1>1, <2>1, <2>2, <4>3
    <3>3. PICK v \in 0 .. TailTiles(g) - 1 : IsTail(g, b[1], b[2], v)
      BY <3>1, <3>2, PieceIs
    <3>4. b[1] \in Nat /\ v \in Int
      BY <1>1, <3>1
    <3>5. /\ FirstCta(g, v) <= b[1] /\ b[1] <= LastCta(g, v) /\ b[2] = TailTurn(g, v)
          /\ Pieces(g, b[1])[b[2]] = TailPiece(g, b[1], v)
      BY <3>3 DEF IsTail
    <3>6. TailPiece(g, b[1], v).tile = v + MnTiles(g) - TailTiles(g)
      BY <3>4, <3>5, TailPieceIs
    <3>7. v = w
      BY <1>1, <2>1, <2>2, <3>1, <3>4, <3>5, <3>6
    <3>8. b[1] \in lo .. hi
      BY <2>1, <3>4, <3>5, <3>7
    <3> QED
      BY <3>1, <3>5, <3>7, <3>8
  <2> QED
    BY <2>3, <2>4
<1> QED
  BY <1>3, <1>4, <1>5, PieceIs

LEMMA OneToOne ==
  ASSUME NEW lo \in Int, NEW hi \in Int, lo <= hi, NEW i
  PROVE  Cardinality({<<c, i>> : c \in lo .. hi}) = hi - lo + 1
<1> DEFINE S == lo .. hi
           T == {<<c, i>> : c \in S}
           f == [c \in S |-> <<c, i>>]
<1>1. f \in Bijection(S, T)
  BY DEF Bijection, Injection, Surjection, IsInjective
<1>2. ExistsBijection(S, T)
  BY <1>1 DEF ExistsBijection
<1>3. IsFiniteSet(S) /\ Cardinality(S) = hi - lo + 1
  BY FS_Interval
<1> HIDE DEF S, T
<1>4. Cardinality(T) = Cardinality(S)
  BY <1>2, <1>3, FS_Bijection
<1> QED
  BY <1>3, <1>4 DEF S, T

\* Each K tile of a tail tile lies in the stretch of one CTA that touches it.
LEMMA TailCover ==
  ASSUME NEW g, IsGemm(g), NEW w \in 0 .. TailTiles(g) - 1, NEW k \in 0 .. g.kTiles - 1
  PROVE  \E d \in FirstCta(g, w) .. LastCta(g, w) : \A c \in FirstCta(g, w) .. LastCta(g, w) :
            k \in TailPiece(g, c, w).k .. TailPiece(g, c, w).k + TailPiece(g, c, w).cnt - 1 <=> c = d
<1> DEFINE K == g.kTiles
           I == Iters(g)
           a == K * w
           x == a + k
           lo == FirstCta(g, w)
           hi == LastCta(g, w)
           d == x \div I
<1>1. /\ I \in Nat \ {0} /\ K \in Nat \ {0} /\ a \in Nat /\ k \in Nat /\ k < K
      /\ lo \in Nat /\ hi \in Nat /\ lo <= hi
      /\ I * lo <= a /\ a < I * lo + I
      /\ I * hi < a + K /\ a + K <= I * hi + I
  BY TailCtas DEF IsGemm
<1>2. ASSUME NEW c \in lo .. hi
      PROVE  LET p == TailPiece(g, c, w)
             IN /\ p.k = IF c = lo THEN 0 ELSE I * c - a
                /\ p.k + p.cnt = IF c = hi THEN K ELSE I * c + I - a
                /\ p.k \in Nat /\ p.cnt \in Nat
  BY <1>1, TailPieceIs
<1> HIDE DEF K, I, a, lo, hi
<1>3. x \in Nat /\ a <= x /\ x < a + K
  BY <1>1
<1>4. d \in Int /\ I * d <= x /\ x < I * d + I
  <2> HIDE DEF x
  <2> QED
    BY <1>1, <1>3, Division
<1> HIDE DEF d
<1>5. d \in lo .. hi
  <2>1. I * lo \in Int /\ I * hi \in Int /\ I * d \in Int
    BY <1>1, <1>4
  <2>2. I * lo < I * d + I /\ I * d < I * hi + I
    BY <1>1, <1>3, <1>4, <2>1
  <2>3. lo <= d /\ d <= hi
    BY <1>1, <1>4, <2>2, Ordered
  <2> QED
    BY <1>1, <1>4, <2>3
<1>6. ASSUME NEW c \in lo .. hi
      PROVE  k \in TailPiece(g, c, w).k .. TailPiece(g, c, w).k + TailPiece(g, c, w).cnt - 1 <=> c = d
  <2> DEFINE from == TailPiece(g, c, w).k
             n == TailPiece(g, c, w).cnt
  <2>1. /\ from = IF c = lo THEN 0 ELSE I * c - a
        /\ from + n = IF c = hi THEN K ELSE I * c + I - a
        /\ from \in Nat /\ n \in Nat
    BY <1>2
  <2> HIDE DEF from, n
  <2>2. c \in Int /\ lo <= c /\ c <= hi /\ I * c \in Int /\ I * lo \in Int /\ I * hi \in Int /\ I * d \in Int
    BY <1>1, <1>4
  <2>3. ASSUME c = d PROVE from <= k /\ k < from + n
    BY <1>1, <1>3, <1>4, <2>1, <2>2, <2>3
  <2>4. ASSUME from <= k, k < from + n PROVE c = d
    <3>1. I * c <= x
      BY <1>1, <1>3, <2>1, <2>2, <2>4
    <3>2. x < I * c + I
      BY <1>1, <1>3, <2>1, <2>2, <2>4
    <3>3. I * c < I * d + I /\ I * d < I * c + I
      <4> HIDE DEF x
      <4> QED
        BY <1>1, <1>3, <1>4, <2>2, <3>1, <3>2
    <3>4. c <= d /\ d <= c
      BY <1>1, <1>4, <2>2, <3>3, Ordered
    <3> QED
      BY <1>4, <2>2, <3>4
  <2>5. k \in from .. from + n - 1 <=> from <= k /\ k < from + n
    BY <1>1, <2>1
  <2>6. k \in from .. from + n - 1 <=> c = d
    BY <2>3, <2>4, <2>5
  <2> QED
    BY <2>6 DEF from, n
<1>7. \E e \in lo .. hi : \A c \in lo .. hi :
         k \in TailPiece(g, c, w).k .. TailPiece(g, c, w).k + TailPiece(g, c, w).cnt - 1 <=> c = e
  BY <1>5, <1>6
<1> QED
  BY <1>7 DEF lo, hi

\* Whatever the sizes of the GEMM and of the grid, the division computes every
\* K tile of every mn-tile once: _run_persistent_gemm leaves none out between
\* two stretches and gives none to two CTAs.
THEOREM DivisionExact == \A g : IsGemm(g) => ExactCover(g)
<1> SUFFICES ASSUME NEW g, IsGemm(g), NEW t \in 0 .. MnTiles(g) - 1, NEW k \in 0 .. g.kTiles - 1
             PROVE  Cardinality({a \in Assignments(g) :
                        LET p == PieceOf(g, a)
                        IN p.tile = t /\ k \in p.k .. p.k + p.cnt - 1}) = 1
  BY DEF ExactCover
<1> DEFINE mine == {a \in Assignments(g) : PieceOf(g, a).tile = t}
           Has(p) == k \in p.k .. p.k + p.cnt - 1
           cover == {a \in Assignments(g) : PieceOf(g, a).tile = t /\ Has(PieceOf(g, a))}
<1>1. cover = {a \in mine : Has(PieceOf(g, a))}
  OBVIOUS
<1>2. ASSUME NEW a, mine = {a}, PieceOf(g, a).k = 0, PieceOf(g, a).cnt = g.kTiles
      PROVE  cover = {a}
  <2>1. Has(PieceOf(g, a))
    BY <1>2 DEF IsGemm
  <2> HIDE DEF mine, Has, cover
  <2> QED
    BY <1>1, <1>2, <2>1
<1>3. ASSUME NEW w \in 0 .. TailTiles(g) - 1,
             mine = {<<c, TailTurn(g, w)>> : c \in FirstCta(g, w) .. LastCta(g, w)},
             \A c \in FirstCta(g, w) .. LastCta(g, w) :
                PieceOf(g, <<c, TailTurn(g, w)>>) = TailPiece(g, c, w)
      PROVE  \E a : cover = {a}
  <2> DEFINE S == FirstCta(g, w) .. LastCta(g, w)
  <2>1. PICK d \in S : \A c \in S : Has(TailPiece(g, c, w)) <=> c = d
    BY TailCover
  <2> HIDE DEF mine, Has, cover, S
  <2>2. mine = {<<c, TailTurn(g, w)>> : c \in S}
        /\ \A c \in S : PieceOf(g, <<c, TailTurn(g, w)>>) = TailPiece(g, c, w)
    BY <1>3 DEF S
  <2>3. cover = {<<d, TailTurn(g, w)>>}
    BY <1>1, <2>1, <2>2
  <2> QED
    BY <2>3
<1>4. \E a : cover = {a}
  BY <1>2, <1>3, PiecesOfTile
<1>5. Cardinality(cover) = 1
  <2> HIDE DEF cover
  <2> QED
    BY <1>4, FS_Singleton
<1> QED
  BY <1>5

\* The CTAs that share a tile count as many slices of it as there are, take
\* different turns, from the highest CTA to the lowest, and meet at one slot.
THEOREM DivisionAgrees == \A g : IsGemm(g) => SlicesAgree(g)
<1> SUFFICES ASSUME NEW g, IsGemm(g), NEW t \in 0 .. MnTiles(g) - 1,
                    NEW a \in {x \in Assignments(g) : PieceOf(g, x).tile = t}
             PROVE  LET mine == {x \in Assignments(g) : PieceOf(g, x).tile = t}
                    IN /\ PieceOf(g, a).slices = Cardinality(mine)
                       /\ PieceOf(g, a).slice \in 0 .. Cardinality(mine) - 1
                       /\ \A b \in mine \ {a} :
                             /\ PieceOf(g, a).slice # PieceOf(g, b).slice
                             /\ PieceOf(g, a).slot = PieceOf(g, b).slot
                             /\ a[1] < b[1] => PieceOf(g, a).slice > PieceOf(g, b).slice
  BY DEF SlicesAgree
<1> DEFINE mine == {x \in Assignments(g) : PieceOf(g, x).tile = t}
<1>1. ASSUME NEW e, mine = {e}, PieceOf(g, e).slices = 1, PieceOf(g, e).slice = 0
      PROVE  /\ PieceOf(g, a).slices = Cardinality(mine)
             /\ PieceOf(g, a).slice \in 0 .. Cardinality(mine) - 1
             /\ mine \ {a} = {}
  <2>1. a = e
    BY <1>1
  <2>2. Cardinality(mine) = 1
    BY <1>1, FS_Singleton
  <2> QED
    BY <1>1, <2>1, <2>2
<1>2. ASSUME NEW w \in 0 .. TailTiles(g) - 1,
             mine = {<<c, TailTurn(g, w)>> : c \in FirstCta(g, w) .. LastCta(g, w)},
             \A c \in FirstCta(g, w) .. LastCta(g, w) :
                PieceOf(g, <<c, TailTurn(g, w)>>) = TailPiece(g, c, w)
      PROVE  /\ PieceOf(g, a).slices = Cardinality(mine)
             /\ PieceOf(g, a).slice \in 0 .. Cardinality(mine) - 1
             /\ \A b \in mine \ {a} :
                   /\ PieceOf(g, a).slice # PieceOf(g, b).slice
                   /\ PieceOf(g, a).slot = PieceOf(g, b).slot
                   /\ a[1] < b[1] => PieceOf(g, a).slice > PieceOf(g, b).slice
  <2> DEFINE lo == FirstCta(g, w)
             hi == LastCta(g, w)
  <2>1. lo \in Nat /\ hi \in Nat /\ lo <= hi
    BY TailCtas DEF IsGemm
  <2>2. Cardinality(mine) = hi - lo + 1
    <3> DEFINE i == TailTurn(g, w)
    <3>1. mine = {<<c, i>> : c \in lo .. hi}
      BY <1>2
    <3> HIDE DEF mine, lo, hi, i
    <3>2. lo \in Int /\ hi \in Int /\ lo <= hi
      BY <2>1
    <3>3. Cardinality({<<c, i>> : c \in lo .. hi}) = hi - lo + 1
      BY <3>2, OneToOne, Zenon
    <3> QED
      BY <3>1, <3>3
  <2>3. ASSUME NEW x \in mine
        PROVE  /\ x = <<x[1], TailTurn(g, w)>> /\ x[1] \in lo .. hi
               /\ PieceOf(g, x).slices = hi - lo + 1 /\ PieceOf(g, x).slice = hi - x[1]
               /\ PieceOf(g, x).slot = TailSlot(g, w, x[1])
    <3>1. PICK c \in lo .. hi : x = <<c, TailTurn(g, w)>>
      BY <1>2
    <3>2. PieceOf(g, x) = TailPiece(g, c, w) /\ x[1] = c
      BY <1>2, <3>1
    <3>3. c \in Nat /\ FirstCta(g, w) <= c /\ c <= LastCta(g, w)
      BY <2>1
    <3> QED
      BY <3>1, <3>2, <3>3, TailPieceIs
  <2>4. ASSUME NEW b \in mine, b # a
        PROVE  /\ PieceOf(g, a).slice # PieceOf(g, b).slice
               /\ PieceOf(g, a).slot = PieceOf(g, b).slot
               /\ a[1] < b[1] => PieceOf(g, a).slice > PieceOf(g, b).slice
    <3>1. a[1] # b[1] /\ a[1] \in Nat /\ b[1] \in Nat /\ a[1] \in lo .. hi /\ b[1] \in lo .. hi
      BY <2>1, <2>3, <2>4
    <3>2. lo < hi
      BY <2>1, <3>1
    <3>3. TailSlot(g, w, a[1]) = TailSlot(g, w, b[1])
      BY <3>1, <3>2, SlotIs
    <3>4. PieceOf(g, a).slice = hi - a[1] /\ PieceOf(g, b).slice = hi - b[1]
      BY <2>3, <2>4
    <3>5. PieceOf(g, a).slot = PieceOf(g, b).slot
      BY <2>3, <2>4, <3>3
    <3> QED
      BY <2>1, <3>1, <3>4, <3>5
  <2>5. PieceOf(g, a).slices = hi - lo + 1 /\ PieceOf(g, a).slice = hi - a[1] /\ a[1] \in lo .. hi
    BY <2>3
  <2> HIDE DEF lo, hi, mine
  <2>6. PieceOf(g, a).slice \in 0 .. Cardinality(mine) - 1
    BY <2>1, <2>2, <2>5
  <2> QED
    BY <2>2, <2>4, <2>5, <2>6
<1>3. \/ \E e : mine = {e} /\ PieceOf(g, e).slices = 1 /\ PieceOf(g, e).slice = 0
      \/ \E w \in 0 .. TailTiles(g) - 1 :
            /\ mine = {<<c, TailTurn(g, w)>> : c \in FirstCta(g, w) .. LastCta(g, w)}
            /\ \A c \in FirstCta(g, w) .. LastCta(g, w) :
                  PieceOf(g, <<c, TailTurn(g, w)>>) = TailPiece(g, c, w)
  BY PiecesOfTile
<1> HIDE DEF mine
<1>4. /\ PieceOf(g, a).slices = Cardinality(mine)
      /\ PieceOf(g, a).slice \in 0 .. Cardinality(mine) - 1
      /\ \A b \in mine \ {a} :
            /\ PieceOf(g, a).slice # PieceOf(g, b).slice
            /\ PieceOf(g, a).slot = PieceOf(g, b).slot
            /\ a[1] < b[1] => PieceOf(g, a).slice > PieceOf(g, b).slice
  BY <1>1, <1>2, <1>3
<1> QED
  BY <1>4 DEF mine

\* No lock and scratch slot serves two tiles of a GEMM, and none lies beyond
\* the words a launch of this grid has in the workspace.
THEOREM DivisionSlots == \A g : IsGemm(g) => SlotsPrivate(g)
<1> SUFFICES ASSUME NEW g, IsGemm(g),
                    NEW a \in Assignments(g), PieceOf(g, a).slices > 1,
                    NEW b \in Assignments(g), PieceOf(g, b).slices > 1
             PROVE  /\ PieceOf(g, a).slot \in 0 .. g.grid - 1
                    /\ PieceOf(g, a).slot = PieceOf(g, b).slot
                          => PieceOf(g, a).tile = PieceOf(g, b).tile
  BY DEF SlotsPrivate
<1>1. /\ a[1] \in 0 .. g.grid - 1 /\ a[2] \in DOMAIN Pieces(g, a[1])
      /\ PieceOf(g, a) = Pieces(g, a[1])[a[2]]
  BY AssignmentIs
<1>2. /\ b[1] \in 0 .. g.grid - 1 /\ b[2] \in DOMAIN Pieces(g, b[1])
      /\ PieceOf(g, b) = Pieces(g, b[1])[b[2]]
  BY AssignmentIs
<1>3. PieceOf(g, a).slot \in 0 .. g.grid - 1
  BY <1>1, PieceType
<1>4. PieceOf(g, a).slot = PieceOf(g, b).slot => PieceOf(g, a).tile = PieceOf(g, b).tile
  BY <1>1, <1>2, SameSlot
<1> QED
  BY <1>3, <1>4

-----------------------------------------------------------------------------
(* Launches: their grid, their phases and the work of their CTAs *)

LEMMA GridWithinCap ==
  ASSUME NEW cap \in Nat \ {0}, NEW direct, NEW splitK, NEW whole,
         NEW fc1 \in Nat \ {0}, NEW fc2
  PROVE  PersistentGrid(cap, direct, splitK, whole, fc1, fc2) \in 1 .. cap
<1> DEFINE waves == CeilDiv(fc1, cap)
           most == Greater(cap, 1)
           right == Lesser(fc1, cap)
<1>1. most = cap /\ right \in 1 .. cap
  BY DEF Greater, Lesser
<1>2. waves \in Nat \ {0} /\ waves <= fc1 /\ cap * waves >= fc1
  <2>1. waves \in Int /\ cap * waves >= fc1 /\ cap * waves < fc1 + cap
    BY Ceiling
  <2> HIDE DEF waves
  <2>2. waves > 0
    BY <2>1, Ordered
  <2>3. waves <= fc1
    <3>1. SUFFICES ASSUME fc1 < waves PROVE FALSE
      BY <2>1
    <3>2. cap * fc1 + cap <= cap * waves
      BY <2>1, <3>1, Steps
    <3>3. cap * fc1 >= fc1
      OBVIOUS
    <3> QED
      BY <2>1, <3>2, <3>3
  <2> QED
    BY <2>1, <2>2, <2>3
<1>3. ASSUME fc1 % waves = 0 PROVE fc1 \div waves \in 1 .. cap
  <2> DEFINE q == fc1 \div waves
  <2> HIDE DEF waves
  <2>1. q \in Int /\ fc1 = waves * q + (fc1 % waves) /\ fc1 % waves = 0
    BY <1>2, <1>3, Remainder, Division
  <2> HIDE DEF q
  <2>2. fc1 = waves * q
    BY <1>2, <2>1
  <2>3. q > 0
    BY <1>2, <2>1, <2>2, Ordered
  <2>4. waves * q <= waves * cap
    BY <1>2, <2>2
  <2>5. q <= cap
    <3>1. waves * q < waves * cap + waves
      BY <1>2, <2>1, <2>4
    <3> QED
      BY <1>2, <2>1, <3>1, Ordered
  <2> QED
    BY <2>1, <2>3, <2>5 DEF q
<1>4. PersistentGrid(cap, direct, splitK, whole, fc1, fc2) \in {most, right, cap}
         \/ (fc1 % waves = 0 /\ PersistentGrid(cap, direct, splitK, whole, fc1, fc2) = fc1 \div waves)
  BY DEF PersistentGrid
<1> QED
  BY <1>1, <1>3, <1>4

GemmPhases == {"fc1", "fc2"}
NTiles(l, ph) == IF ph = "fc1" THEN l.n1 ELSE l.n2

LEMMA LaunchType ==
  ASSUME NEW l \in Launches
  PROVE  /\ l.routes \in Nat \ {0} /\ l.topk \in Nat \ {0}
         /\ l.n1 \in Nat \ {0} /\ l.k1 \in Nat \ {0}
         /\ l.n2 \in Nat \ {0} /\ l.k2 \in Nat \ {0}
         /\ l.dead \subseteq 0 .. l.routes - 1
         /\ l.direct \in BOOLEAN /\ l.splitK \in BOOLEAN /\ l.whole \in BOOLEAN /\ l.m8 \in BOOLEAN
         /\ l.gated \in BOOLEAN /\ l.rotate \in BOOLEAN /\ l.coupled \in BOOLEAN /\ l.fused \in BOOLEAN
         /\ l.n1 = IF l.gated THEN 2 * l.k2 ELSE l.k2
<1>1. /\ {l.routes, l.topk, l.n1, l.k1, l.n2, l.k2} \subseteq Nat \ {0}
      /\ l.dead \subseteq 0 .. l.routes - 1
      /\ {l.direct, l.splitK, l.whole, l.m8, l.gated, l.rotate, l.coupled, l.fused} \subseteq BOOLEAN
      /\ l.n1 = IF l.gated THEN 2 * l.k2 ELSE l.k2
  BY LaunchesAssumption, Zenon
<1>2. /\ l.routes \in Nat \ {0} /\ l.topk \in Nat \ {0}
      /\ l.n1 \in Nat \ {0} /\ l.k1 \in Nat \ {0}
      /\ l.n2 \in Nat \ {0} /\ l.k2 \in Nat \ {0}
  BY <1>1
<1>3. /\ l.direct \in BOOLEAN /\ l.splitK \in BOOLEAN /\ l.whole \in BOOLEAN /\ l.m8 \in BOOLEAN
      /\ l.gated \in BOOLEAN /\ l.rotate \in BOOLEAN /\ l.coupled \in BOOLEAN /\ l.fused \in BOOLEAN
  BY <1>1, Zenon
<1> QED
  BY <1>1, <1>2, <1>3, Zenon

LEMMA GridType ==
  ASSUME NEW l \in Launches
  PROVE  Grid(l) \in 1 .. Cap /\ Grid(l) \in Nat \ {0} /\ Cap \in Nat \ {0}
<1>1. l.routes * l.n1 \in Nat \ {0}
  BY LaunchType, Steps
<1>2. Grid(l) \in 1 .. Cap
  BY <1>1, GridWithinCap, CapAssumption DEF Grid
<1> QED
  BY <1>2, CapAssumption

LEMMA GemmType ==
  ASSUME NEW l \in Launches, NEW ph \in GemmPhases
  PROVE  /\ IsGemm(Gemm(l, ph))
         /\ Gemm(l, ph).grid = Grid(l)
         /\ Gemm(l, ph).nTiles = NTiles(l, ph) /\ NTiles(l, ph) \in Nat \ {0}
         /\ Gemm(l, ph).kTiles \in Nat \ {0}
         /\ Gemm(l, ph).kTiles = (IF ph = "fc1" THEN l.k1 ELSE l.k2)
         /\ MnTiles(Gemm(l, ph)) = l.routes * NTiles(l, ph)
BY LaunchType, GridType DEF Gemm, IsGemm, NTiles, MnTiles

\* The phases of a launch, in the order they come in.
Rank(ph) == IF ph = "rotate" THEN 1 ELSE IF ph = "fc1" THEN 2 ELSE IF ph = "act" THEN 3
            ELSE IF ph = "zero" THEN 4 ELSE 5

PhaseNames == {"rotate", "fc1", "act", "zero", "fc2"}

HasPhase(l, ph) == \E i \in 1 .. Len(PhasesOf(l)) : PhasesOf(l)[i] = ph

LEMMA PhaseCases ==
  ASSUME NEW l \in Launches
  PROVE  \/ /\ l.rotate /\ l.gated /\ ~ ZeroFc2(l)
            /\ Len(PhasesOf(l)) = 4 /\ PhasesOf(l)[1] = "rotate" /\ PhasesOf(l)[2] = "fc1" /\ PhasesOf(l)[3] = "act" /\ PhasesOf(l)[4] = "fc2"
         \/ /\ l.rotate /\ ~ l.gated /\ ~ ZeroFc2(l)
            /\ Len(PhasesOf(l)) = 3 /\ PhasesOf(l)[1] = "rotate" /\ PhasesOf(l)[2] = "fc1" /\ PhasesOf(l)[3] = "fc2"
         \/ /\ ~ l.rotate /\ l.gated /\ ZeroFc2(l)
            /\ Len(PhasesOf(l)) = 4 /\ PhasesOf(l)[1] = "fc1" /\ PhasesOf(l)[2] = "act" /\ PhasesOf(l)[3] = "zero" /\ PhasesOf(l)[4] = "fc2"
         \/ /\ ~ l.rotate /\ l.gated /\ ~ ZeroFc2(l)
            /\ Len(PhasesOf(l)) = 3 /\ PhasesOf(l)[1] = "fc1" /\ PhasesOf(l)[2] = "act" /\ PhasesOf(l)[3] = "fc2"
         \/ /\ ~ l.rotate /\ ~ l.gated /\ ZeroFc2(l)
            /\ Len(PhasesOf(l)) = 3 /\ PhasesOf(l)[1] = "fc1" /\ PhasesOf(l)[2] = "zero" /\ PhasesOf(l)[3] = "fc2"
         \/ /\ ~ l.rotate /\ ~ l.gated /\ ~ ZeroFc2(l)
            /\ Len(PhasesOf(l)) = 2 /\ PhasesOf(l)[1] = "fc1" /\ PhasesOf(l)[2] = "fc2"
<1>1. l.rotate \in BOOLEAN /\ l.gated \in BOOLEAN /\ (l.rotate => ~ ZeroFc2(l))
  BY LaunchType DEF ZeroFc2
<1>2. ASSUME l.rotate /\ l.gated /\ ~ ZeroFc2(l)
      PROVE  Len(PhasesOf(l)) = 4 /\ PhasesOf(l)[1] = "rotate" /\ PhasesOf(l)[2] = "fc1" /\ PhasesOf(l)[3] = "act" /\ PhasesOf(l)[4] = "fc2"
  BY <1>2 DEF PhasesOf
<1>3. ASSUME l.rotate /\ ~ l.gated /\ ~ ZeroFc2(l)
      PROVE  Len(PhasesOf(l)) = 3 /\ PhasesOf(l)[1] = "rotate" /\ PhasesOf(l)[2] = "fc1" /\ PhasesOf(l)[3] = "fc2"
  BY <1>3 DEF PhasesOf
<1>4. ASSUME ~ l.rotate /\ l.gated /\ ZeroFc2(l)
      PROVE  Len(PhasesOf(l)) = 4 /\ PhasesOf(l)[1] = "fc1" /\ PhasesOf(l)[2] = "act" /\ PhasesOf(l)[3] = "zero" /\ PhasesOf(l)[4] = "fc2"
  BY <1>4 DEF PhasesOf
<1>5. ASSUME ~ l.rotate /\ l.gated /\ ~ ZeroFc2(l)
      PROVE  Len(PhasesOf(l)) = 3 /\ PhasesOf(l)[1] = "fc1" /\ PhasesOf(l)[2] = "act" /\ PhasesOf(l)[3] = "fc2"
  BY <1>5 DEF PhasesOf
<1>6. ASSUME ~ l.rotate /\ ~ l.gated /\ ZeroFc2(l)
      PROVE  Len(PhasesOf(l)) = 3 /\ PhasesOf(l)[1] = "fc1" /\ PhasesOf(l)[2] = "zero" /\ PhasesOf(l)[3] = "fc2"
  BY <1>6 DEF PhasesOf
<1>7. ASSUME ~ l.rotate /\ ~ l.gated /\ ~ ZeroFc2(l)
      PROVE  Len(PhasesOf(l)) = 2 /\ PhasesOf(l)[1] = "fc1" /\ PhasesOf(l)[2] = "fc2"
  BY <1>7 DEF PhasesOf
<1> QED
  BY <1>1, <1>2, <1>3, <1>4, <1>5, <1>6, <1>7, Zenon

LEMMA PhaseOrder ==
  ASSUME NEW l \in Launches
  PROVE  /\ Len(PhasesOf(l)) \in Nat /\ Len(PhasesOf(l)) >= 2
         /\ \A i \in 1 .. Len(PhasesOf(l)) : PhasesOf(l)[i] \in PhaseNames
         /\ \A i, j \in 1 .. Len(PhasesOf(l)) :
               i < j => Rank(PhasesOf(l)[i]) < Rank(PhasesOf(l)[j])
         /\ PhasesOf(l)[Len(PhasesOf(l))] = "fc2"
<1>1. PICK s : s = PhasesOf(l)
  OBVIOUS
<1>2. \/ Len(s) = 4 /\ s[1] = "rotate" /\ s[2] = "fc1" /\ s[3] = "act" /\ s[4] = "fc2"
      \/ Len(s) = 3 /\ s[1] = "rotate" /\ s[2] = "fc1" /\ s[3] = "fc2"
      \/ Len(s) = 4 /\ s[1] = "fc1" /\ s[2] = "act" /\ s[3] = "zero" /\ s[4] = "fc2"
      \/ Len(s) = 3 /\ s[1] = "fc1" /\ s[2] = "act" /\ s[3] = "fc2"
      \/ Len(s) = 3 /\ s[1] = "fc1" /\ s[2] = "zero" /\ s[3] = "fc2"
      \/ Len(s) = 2 /\ s[1] = "fc1" /\ s[2] = "fc2"
  BY <1>1, PhaseCases, Zenon
<1>3. \A i \in 1 .. 2 : i = 1 \/ i = 2
  OBVIOUS
<1>4. \A i \in 1 .. 3 : i = 1 \/ i = 2 \/ i = 3
  OBVIOUS
<1>5. \A i \in 1 .. 4 : i = 1 \/ i = 2 \/ i = 3 \/ i = 4
  OBVIOUS
<1>6. \A i \in 1 .. Len(s) : s[i] \in PhaseNames
  BY <1>2, <1>3, <1>4, <1>5 DEF PhaseNames
<1>7. \A i, j \in 1 .. Len(s) : i < j => Rank(s[i]) < Rank(s[j])
  BY <1>2, <1>3, <1>4, <1>5 DEF Rank
<1>8. Len(s) \in Nat /\ Len(s) >= 2 /\ s[Len(s)] = "fc2"
  BY <1>2
<1> QED
  BY <1>1, <1>6, <1>7, <1>8

LEMMA PhaseOf ==
  ASSUME NEW l \in Launches
  PROVE  /\ HasPhase(l, "fc1") /\ HasPhase(l, "fc2")
         /\ HasPhase(l, "rotate") <=> l.rotate
         /\ HasPhase(l, "act") <=> l.gated
         /\ HasPhase(l, "zero") <=> ZeroFc2(l)
<1>1. \A i \in 1 .. 2 : i = 1 \/ i = 2
  OBVIOUS
<1>2. \A i \in 1 .. 3 : i = 1 \/ i = 2 \/ i = 3
  OBVIOUS
<1>3. \A i \in 1 .. 4 : i = 1 \/ i = 2 \/ i = 3 \/ i = 4
  OBVIOUS
<1>4. HasPhase(l, "fc1") /\ HasPhase(l, "fc2")
  BY <1>1, <1>2, <1>3, PhaseCases DEF HasPhase
<1>5. HasPhase(l, "rotate") <=> l.rotate
  BY <1>1, <1>2, <1>3, PhaseCases DEF HasPhase
<1>6. HasPhase(l, "act") <=> l.gated
  BY <1>1, <1>2, <1>3, PhaseCases DEF HasPhase
<1>7. HasPhase(l, "zero") <=> ZeroFc2(l)
  BY <1>1, <1>2, <1>3, PhaseCases DEF HasPhase
<1> QED
  BY <1>4, <1>5, <1>6, <1>7

LEMMA RankType ==
  /\ \A a \in PhaseNames : Rank(a) \in Nat
  /\ \A a, b \in PhaseNames : Rank(a) = Rank(b) => a = b
BY DEF PhaseNames, Rank

LEMMA StridedIs ==
  ASSUME NEW l \in Launches, NEW n \in Nat, NEW c \in 0 .. Grid(l) - 1
  PROVE  /\ Turns(l, c, n) \in Nat
         /\ \A i \in 1 .. Turns(l, c, n) : c + (i - 1) * Grid(l) \in 0 .. n - 1
<1> DEFINE G == Grid(l)
           m == Turns(l, c, n)
<1>1. G \in Nat \ {0} /\ c \in 0 .. G - 1
  BY GridType
<1>2. m = (n + G - 1 - c) \div G
  BY DEF Turns
<1> HIDE DEF G, m
<1>3. m \in Int /\ G * m <= n + G - 1 - c /\ n + G - 1 - c < G * m + G
  BY <1>1, <1>2, Division
<1>4. m >= 0
  BY <1>1, <1>3, Ordered
<1>5. ASSUME NEW i \in 1 .. m PROVE c + (i - 1) * G \in 0 .. n - 1
  <2>1. (i - 1) * G \in Nat /\ G * i = (i - 1) * G + G
    BY <1>1, <1>3
  <2>2. G * i <= G * m
    BY <1>1, <1>3, <1>5, Steps
  <2> QED
    BY <1>1, <1>3, <2>1, <2>2
<1> QED
  BY <1>3, <1>4, <1>5 DEF G, m

LEMMA StridedCovers ==
  ASSUME NEW l \in Launches, NEW n \in Nat, NEW u \in 0 .. n - 1
  PROVE  \E c \in 0 .. Grid(l) - 1 : \E i \in 1 .. Turns(l, c, n) : c + (i - 1) * Grid(l) = u
<1> DEFINE G == Grid(l)
           c == u % G
           q == u \div G
<1>1. G \in Nat \ {0} /\ u \in Int
  BY GridType
<1> HIDE DEF G
<1>2. c \in 0 .. G - 1 /\ u = G * q + c /\ q \in Int
  BY <1>1, Remainder, Division
<1> HIDE DEF c, q
<1> DEFINE m == Turns(l, c, n)
<1>3. m \in Nat /\ m = (n + G - 1 - c) \div G
  BY <1>2, StridedIs DEF Turns, G
<1> HIDE DEF m
<1>4. n + G - 1 - c < G * m + G
  BY <1>1, <1>2, <1>3, Division
<1>5. q >= 0
  BY <1>1, <1>2, Ordered
<1>6. q + 1 <= m
  <2>1. G * q \in Int /\ G * m \in Int
    BY <1>1, <1>2, <1>3
  <2>2. G * q < G * m
    BY <1>1, <1>2, <1>4, <2>1
  <2> QED
    BY <1>1, <1>2, <1>3, <2>2, Ordered
<1>7. q + 1 \in 1 .. m /\ c + ((q + 1) - 1) * G = u
  BY <1>1, <1>2, <1>3, <1>5, <1>6
<1> QED
  BY <1>2, <1>7 DEF G, m

UnitCells(l, op) == IF op = "rotate" THEN {r \in 0 .. l.routes - 1 : r \notin l.dead}
                    ELSE IF op = "clear" THEN {u \in 0 .. (l.routes \div l.topk) * l.n2 - 1 : l.fused}
                    ELSE IF op = "act" THEN {u \in 0 .. l.routes * l.k2 - 1 :
                                                l.rotate => u \div l.k2 \notin l.dead}
                    ELSE 0 .. l.routes * l.n2 - 1

UnitPhase(op) == IF op = "clear" THEN "fc1" ELSE op

LEMMA Sizes ==
  ASSUME NEW l \in Launches
  PROVE  /\ l.routes \div l.topk \in Nat /\ l.routes \div l.topk <= l.routes
         /\ (l.routes \div l.topk) * l.n2 \in Nat
         /\ (l.routes \div l.topk) * l.n2 <= l.routes * l.n2
         /\ l.routes * l.k2 \in Nat /\ l.routes * l.n2 \in Nat /\ l.routes * l.n1 \in Nat
<1> DEFINE q == l.routes \div l.topk
<1>1. /\ l.routes \in Nat \ {0} /\ l.topk \in Nat \ {0} /\ l.n1 \in Nat \ {0}
      /\ l.n2 \in Nat \ {0} /\ l.k2 \in Nat \ {0} /\ l.routes \in Int
  BY LaunchType
<1>2. q \in Int /\ l.topk * q <= l.routes /\ l.routes < l.topk * q + l.topk
  BY <1>1, Division
<1> HIDE DEF q
<1>3. q >= 0
  BY <1>1, <1>2, Ordered
<1>4. q <= l.routes
  <2>1. q <= l.topk * q
    BY <1>1, <1>2, <1>3
  <2> QED
    BY <1>1, <1>2, <2>1
<1>5. q * l.n2 \in Nat /\ q * l.n2 <= l.routes * l.n2
  BY <1>1, <1>2, <1>3, <1>4
<1>6. l.routes * l.k2 \in Nat /\ l.routes * l.n2 \in Nat /\ l.routes * l.n1 \in Nat
  BY <1>1
<1> QED
  BY <1>2, <1>3, <1>4, <1>5, <1>6 DEF q

\* Where the pieces of a GEMM phase start among the units of a CTA.
Shift(l, ph, c) == IF ph = "fc1" THEN ClearTurns(l, c) ELSE 0

LEMMA ShiftType ==
  ASSUME NEW l \in Launches, NEW ph, NEW c \in 0 .. Grid(l) - 1
  PROVE  Shift(l, ph, c) \in Nat /\ ClearTurns(l, c) \in Nat
BY StridedIs, Sizes DEF Shift, ClearTurns

LEMMA PieceIndex ==
  ASSUME NEW g, IsGemm(g), NEW c \in 0 .. g.grid - 1, NEW j \in DOMAIN Pieces(g, c)
  PROVE  j \in Nat \ {0}
BY PieceIs, TilesSplit DEF IsWhole, IsTail, TailTurn

\* The tile units of a CTA are its pieces of the tiles with a local expert.
LEMMA TilesAre ==
  ASSUME NEW l \in Launches, NEW ph \in GemmPhases, NEW c \in 0 .. Grid(l) - 1
  PROVE  LET g == Gemm(l, ph)
             U == Work(l, ph, c)
         IN /\ \A j \in DOMAIN Pieces(g, c) :
                  Pieces(g, c)[j].tile \div NTiles(l, ph) \notin l.dead =>
                     /\ j + Shift(l, ph, c) \in DOMAIN U
                     /\ U[j + Shift(l, ph, c)].op = "tile"
                     /\ U[j + Shift(l, ph, c)].piece = Pieces(g, c)[j]
            /\ \A i \in DOMAIN U :
                  \/ /\ i \in Nat /\ i - Shift(l, ph, c) \in DOMAIN Pieces(g, c)
                     /\ i \in Nat \ {0}
                     /\ U[i].op = "tile"
                     /\ U[i].piece = Pieces(g, c)[i - Shift(l, ph, c)]
                     /\ U[i].piece.tile \div NTiles(l, ph) \notin l.dead
                  \/ /\ ph = "fc1" /\ i \in 1 .. ClearTurns(l, c)
                     /\ U[i] = UnitOf(l, c, i, "clear")
<1> DEFINE g == Gemm(l, ph)
           U == Work(l, ph, c)
           S == Shift(l, ph, c)
           T == Tiles(l, ph, c)
           P == Pieces(g, c)
<1>1. S \in Nat /\ ClearTurns(l, c) \in Nat
  BY ShiftType
<1>2. /\ DOMAIN T = {j \in DOMAIN P : P[j].tile \div NTiles(l, ph) \notin l.dead}
      /\ \A j \in DOMAIN T : T[j] = [op |-> "tile", piece |-> P[j]]
  BY GemmType DEF Tiles
<1>3. \A j \in DOMAIN P : j \in Nat \ {0}
  BY PieceIndex, GemmType
<1>4. CASE ph = "fc2"
  <2>1. U = T /\ S = 0
    BY <1>4 DEF Work, Shift
  <2> HIDE DEF U, T, S, P, g
  <2> QED
    BY <1>1, <1>2, <1>3, <2>1 DEF U, S, P, g
<1>5. CASE ph = "fc1"
  <2>1. U = Fc1Units(l, c) /\ S = ClearTurns(l, c)
    BY <1>5 DEF Work, Shift
  <2>2. /\ DOMAIN U = 1 .. S \cup {S + j : j \in DOMAIN T}
        /\ \A i \in DOMAIN U : U[i] = IF i <= S THEN UnitOf(l, c, i, "clear") ELSE T[i - S]
    BY <1>5, <2>1 DEF Fc1Units
  <2> HIDE DEF U, T, S, P, g
  <2>3. ASSUME NEW j \in DOMAIN T
        PROVE  j + S \in DOMAIN U /\ U[j + S] = T[j]
    <3>1. j \in Nat \ {0}
      BY <1>2, <1>3
    <3> DEFINE i == S + j
    <3>2. i = j + S /\ ~ (i <= S) /\ i - S = j
      BY <1>1, <3>1
    <3>3. i \in DOMAIN U
      BY <2>2
    <3> HIDE DEF i
    <3>4. U[i] = T[j]
      BY <2>2, <3>2, <3>3
    <3> QED
      BY <3>2, <3>3, <3>4
  <2>4. ASSUME NEW i \in DOMAIN U
        PROVE  \/ i \in 1 .. S /\ U[i] = UnitOf(l, c, i, "clear")
               \/ i \in Nat \ {0} /\ i - S \in DOMAIN T /\ U[i] = T[i - S]
    <3>1. CASE i \in 1 .. S
      BY <1>1, <2>2, <3>1
    <3>2. ASSUME NEW j \in DOMAIN T, i = S + j
          PROVE  i \in Nat \ {0} /\ i - S \in DOMAIN T /\ U[i] = T[i - S]
      <4>1. j \in Nat \ {0}
        BY <1>2, <1>3
      <4>2. i - S = j /\ i \in Nat \ {0} /\ ~ (i <= S)
        BY <1>1, <3>2, <4>1
      <4> QED
        BY <2>2, <4>2
    <3> QED
      BY <2>2, <3>1, <3>2
  <2> QED
    BY <1>1, <1>2, <1>5, <2>1, <2>3, <2>4 DEF U, S, P, g
<1> QED
  BY <1>4, <1>5 DEF GemmPhases

\* A unit that is not a tile belongs to its phase and to a cell of it, and the
\* units of a phase reach every cell.
LEMMA UnitIs ==
  ASSUME NEW l \in Launches, NEW ph \in PhaseNames, NEW c \in 0 .. Grid(l) - 1,
         NEW i \in DOMAIN Work(l, ph, c)
  PROVE  LET u == Work(l, ph, c)[i]
         IN /\ i \in Nat \ {0}
            /\ u.op \in {"rotate", "clear", "act", "zero", "tile"}
            /\ u.op = "tile" => ph \in GemmPhases
            /\ u.op # "tile" => ph = UnitPhase(u.op) /\ u.cell \in UnitCells(l, u.op)
<1> DEFINE U == Work(l, ph, c)
           u == U[i]
<1>1. /\ c \in Nat /\ l.routes \in Nat /\ l.routes * l.k2 \in Nat /\ l.routes * l.n2 \in Nat
      /\ (l.routes \div l.topk) * l.n2 \in Nat /\ l.rotate \in BOOLEAN /\ l.fused \in BOOLEAN
  BY Sizes, LaunchType, GridType
<1>2. CASE ph = "rotate"
  <2>1. U = RotateUnits(l, c)
    BY <1>2 DEF Work
  <2>2. /\ i \in 1 .. Turns(l, c, l.routes) /\ u = UnitOf(l, c, i, "rotate") /\ u.cell \notin l.dead
    BY <2>1 DEF RotateUnits, Strided, Restrict
  <2>3. u.cell \in 0 .. l.routes - 1 /\ u.op = "rotate" /\ Turns(l, c, l.routes) \in Nat
    BY <1>1, <2>2, StridedIs DEF UnitOf
  <2> QED
    BY <1>2, <2>2, <2>3 DEF UnitPhase, UnitCells
<1>3. CASE ph = "act"
  <2>1. U = ActivateUnits(l, c)
    BY <1>3 DEF Work
  <2>2. /\ i \in 1 .. Turns(l, c, l.routes * l.k2) /\ u = UnitOf(l, c, i, "act")
        /\ l.rotate => u.cell \div l.k2 \notin l.dead
    BY <2>1 DEF ActivateUnits, Strided, Restrict
  <2>3. /\ u.cell \in 0 .. l.routes * l.k2 - 1 /\ u.op = "act"
        /\ Turns(l, c, l.routes * l.k2) \in Nat
    BY <1>1, <2>2, StridedIs DEF UnitOf
  <2> QED
    BY <1>3, <2>2, <2>3 DEF UnitPhase, UnitCells
<1>4. CASE ph = "zero"
  <2>1. U = Strided(l, c, l.routes * l.n2, "zero")
    BY <1>4 DEF Work
  <2>2. i \in 1 .. Turns(l, c, l.routes * l.n2) /\ u = UnitOf(l, c, i, "zero")
    BY <2>1 DEF Strided
  <2>3. /\ u.cell \in 0 .. l.routes * l.n2 - 1 /\ u.op = "zero"
        /\ Turns(l, c, l.routes * l.n2) \in Nat
    BY <1>1, <2>2, StridedIs DEF UnitOf
  <2>4. UnitCells(l, "zero") = 0 .. l.routes * l.n2 - 1 /\ UnitPhase("zero") = "zero"
    BY DEF UnitPhase, UnitCells
  <2>5. i \in Nat \ {0}
    BY <2>2, <2>3
  <2> HIDE DEF u, U
  <2> QED
    BY <1>4, <2>3, <2>4, <2>5 DEF u, U
<1>5. ASSUME ph \in GemmPhases
      PROVE  /\ i \in Nat \ {0}
             /\ \/ u.op = "tile"
                \/ ph = "fc1" /\ u.op = "clear" /\ u.cell \in UnitCells(l, "clear")
  <2>1. CASE u.op = "tile" /\ i \in Nat \ {0}
    BY <2>1
  <2>2. CASE ph = "fc1" /\ i \in 1 .. ClearTurns(l, c) /\ u = UnitOf(l, c, i, "clear")
    <3>1. ClearTurns(l, c) \in Nat /\ l.fused /\ i \in Nat \ {0}
      BY <1>1, <2>2, ShiftType DEF ClearTurns
    <3>2. ClearTurns(l, c) = Turns(l, c, (l.routes \div l.topk) * l.n2)
      BY <3>1 DEF ClearTurns
    <3>3. c + (i - 1) * Grid(l) \in 0 .. (l.routes \div l.topk) * l.n2 - 1
      BY <1>1, <2>2, <3>2, StridedIs
    <3> QED
      BY <2>2, <3>1, <3>3 DEF UnitOf, UnitCells
  <2> QED
    BY <1>5, <2>1, <2>2, TilesAre
<1> QED
  BY <1>2, <1>3, <1>4, <1>5 DEF PhaseNames, GemmPhases, UnitPhase

LEMMA UnitReached ==
  ASSUME NEW l \in Launches, NEW op \in {"rotate", "clear", "act", "zero"}, NEW u \in UnitCells(l, op)
  PROVE  \E c \in 0 .. Grid(l) - 1 : \E i \in DOMAIN Work(l, UnitPhase(op), c) :
            /\ Work(l, UnitPhase(op), c)[i].op = op
            /\ Work(l, UnitPhase(op), c)[i].cell = u
<1>1. /\ l.routes \in Nat /\ l.routes * l.k2 \in Nat /\ l.routes * l.n2 \in Nat
      /\ (l.routes \div l.topk) * l.n2 \in Nat /\ l.rotate \in BOOLEAN /\ l.fused \in BOOLEAN
  BY Sizes, LaunchType
<1>2. CASE op = "rotate"
  <2>1. u \in 0 .. l.routes - 1 /\ u \notin l.dead
    BY <1>2 DEF UnitCells
  <2>2a. PICK c \in 0 .. Grid(l) - 1 : \E i \in 1 .. Turns(l, c, l.routes) : c + (i - 1) * Grid(l) = u
    BY <1>1, <2>1, StridedCovers
  <2>2. PICK i \in 1 .. Turns(l, c, l.routes) : c + (i - 1) * Grid(l) = u
    BY <2>2a
  <2>3. Work(l, "rotate", c) = RotateUnits(l, c)
    BY DEF Work
  <2>4. /\ i \in DOMAIN RotateUnits(l, c)
        /\ RotateUnits(l, c)[i] = UnitOf(l, c, i, "rotate")
        /\ UnitOf(l, c, i, "rotate").op = "rotate" /\ UnitOf(l, c, i, "rotate").cell = u
    BY <2>1, <2>2 DEF RotateUnits, Strided, Restrict, UnitOf
  <2> QED
    BY <1>2, <2>3, <2>4 DEF UnitPhase
<1>3. CASE op = "act"
  <2>1. u \in 0 .. l.routes * l.k2 - 1 /\ (l.rotate => u \div l.k2 \notin l.dead)
    BY <1>3 DEF UnitCells
  <2>2a. PICK c \in 0 .. Grid(l) - 1 : \E i \in 1 .. Turns(l, c, l.routes * l.k2) : c + (i - 1) * Grid(l) = u
    BY <1>1, <2>1, StridedCovers
  <2>2. PICK i \in 1 .. Turns(l, c, l.routes * l.k2) : c + (i - 1) * Grid(l) = u
    BY <2>2a
  <2>3. Work(l, "act", c) = ActivateUnits(l, c)
    BY DEF Work
  <2>4. /\ i \in DOMAIN ActivateUnits(l, c)
        /\ ActivateUnits(l, c)[i] = UnitOf(l, c, i, "act")
        /\ UnitOf(l, c, i, "act").op = "act" /\ UnitOf(l, c, i, "act").cell = u
    BY <2>1, <2>2 DEF ActivateUnits, Strided, Restrict, UnitOf
  <2> QED
    BY <1>3, <2>3, <2>4 DEF UnitPhase
<1>4. CASE op = "zero"
  <2>1. u \in 0 .. l.routes * l.n2 - 1
    BY <1>4 DEF UnitCells
  <2>2a. PICK c \in 0 .. Grid(l) - 1 : \E i \in 1 .. Turns(l, c, l.routes * l.n2) : c + (i - 1) * Grid(l) = u
    BY <1>1, <2>1, StridedCovers
  <2>2. PICK i \in 1 .. Turns(l, c, l.routes * l.n2) : c + (i - 1) * Grid(l) = u
    BY <2>2a
  <2>3. Work(l, "zero", c) = Strided(l, c, l.routes * l.n2, "zero")
    BY DEF Work
  <2>4. /\ i \in DOMAIN Strided(l, c, l.routes * l.n2, "zero")
        /\ Strided(l, c, l.routes * l.n2, "zero")[i] = UnitOf(l, c, i, "zero")
        /\ UnitOf(l, c, i, "zero").op = "zero" /\ UnitOf(l, c, i, "zero").cell = u
    BY <2>1, <2>2 DEF Strided, UnitOf
  <2> QED
    BY <1>4, <2>3, <2>4 DEF UnitPhase
<1>5. CASE op = "clear"
  <2>1. u \in 0 .. (l.routes \div l.topk) * l.n2 - 1 /\ l.fused
    BY <1>5 DEF UnitCells
  <2>2a. PICK c \in 0 .. Grid(l) - 1 : \E i \in 1 .. Turns(l, c, (l.routes \div l.topk) * l.n2) : c + (i - 1) * Grid(l) = u
    BY <1>1, <2>1, StridedCovers
  <2>2. PICK i \in 1 .. Turns(l, c, (l.routes \div l.topk) * l.n2) : c + (i - 1) * Grid(l) = u
    BY <2>2a
  <2>3. Work(l, "fc1", c) = Fc1Units(l, c)
    BY DEF Work
  <2>4. ClearTurns(l, c) = Turns(l, c, (l.routes \div l.topk) * l.n2) /\ ClearTurns(l, c) \in Nat
    BY <2>1, ShiftType DEF ClearTurns
  <2>5. i <= ClearTurns(l, c) /\ i \in 1 .. ClearTurns(l, c)
    BY <2>2, <2>4
  <2>6. i \in DOMAIN Fc1Units(l, c) /\ Fc1Units(l, c)[i] = UnitOf(l, c, i, "clear")
    BY <2>5 DEF Fc1Units
  <2>7. UnitOf(l, c, i, "clear").op = "clear" /\ UnitOf(l, c, i, "clear").cell = u
    BY <2>2 DEF UnitOf
  <2> QED
    BY <1>5, <2>3, <2>6, <2>7 DEF UnitPhase
<1> QED
  BY <1>2, <1>3, <1>4, <1>5

IsTile(l, ph, c, i) == /\ ph \in GemmPhases
                       /\ c \in 0 .. Grid(l) - 1
                       /\ i \in DOMAIN Work(l, ph, c)
                       /\ Work(l, ph, c)[i].op = "tile"

PieceAt(l, ph, c, i) == Work(l, ph, c)[i].piece

KTiles(l, ph) == IF ph = "fc1" THEN l.k1 ELSE l.k2

LEMMA TileIs ==
  ASSUME NEW l \in Launches, NEW ph, NEW c, NEW i, IsTile(l, ph, c, i)
  PROVE  LET g == Gemm(l, ph)
             j == i - Shift(l, ph, c)
         IN /\ IsGemm(g) /\ c \in 0 .. g.grid - 1 /\ g.grid = Grid(l)
            /\ i \in Nat \ {0} /\ j \in DOMAIN Pieces(g, c)
            /\ PieceAt(l, ph, c, i) = Pieces(g, c)[j]
            /\ PieceAt(l, ph, c, i).tile \div NTiles(l, ph) \notin l.dead
<1>1. ph \in GemmPhases /\ c \in 0 .. Grid(l) - 1 /\ i \in DOMAIN Work(l, ph, c)
  BY DEF IsTile
<1>2. Work(l, ph, c)[i] # UnitOf(l, c, i, "clear")
  BY DEF IsTile, UnitOf
<1> QED
  BY <1>1, <1>2, TilesAre, GemmType DEF PieceAt

LEMMA TileType ==
  ASSUME NEW l \in Launches, NEW ph, NEW c, NEW i, IsTile(l, ph, c, i)
  PROVE  LET p == PieceAt(l, ph, c, i)
         IN /\ p.tile \in 0 .. l.routes * NTiles(l, ph) - 1
            /\ p.tile \div NTiles(l, ph) \notin l.dead
            /\ p.k \in Nat /\ p.cnt \in Nat \ {0} /\ p.k + p.cnt <= KTiles(l, ph)
            /\ p.slices \in Nat \ {0} /\ p.slice \in 0 .. p.slices - 1
            /\ p.slices > 1 => p.slot \in 0 .. Cap - 1
            /\ p.slice = 0 => p.k + p.cnt = KTiles(l, ph)
            /\ LastSlice(p) => p.k = 0
<1> DEFINE g == Gemm(l, ph)
           j == i - Shift(l, ph, c)
           p == PieceAt(l, ph, c, i)
<1>1. /\ IsGemm(g) /\ c \in 0 .. g.grid - 1 /\ j \in DOMAIN Pieces(g, c)
      /\ p = Pieces(g, c)[j] /\ p.tile \div NTiles(l, ph) \notin l.dead
  BY TileIs
<1>2. /\ g.grid = Grid(l) /\ MnTiles(g) = l.routes * NTiles(l, ph) /\ g.kTiles = KTiles(l, ph)
  BY GemmType DEF IsTile, KTiles
<1>3. Grid(l) \in 1 .. Cap /\ Cap \in Nat
  BY GridType
<1> HIDE DEF g, j, p
<1>4. /\ p.tile \in 0 .. MnTiles(g) - 1
      /\ p.k \in Nat /\ p.cnt \in Nat \ {0} /\ p.k + p.cnt <= g.kTiles
      /\ p.slices \in Nat \ {0} /\ p.slice \in 0 .. p.slices - 1
      /\ p.slices > 1 => p.slot \in 0 .. g.grid - 1
      /\ p.slice = 0 => p.k + p.cnt = g.kTiles
      /\ p.slice = p.slices - 1 => p.k = 0
  BY <1>1, PieceType
<1>5. p.slices > 1 => p.slot \in 0 .. Cap - 1
  BY <1>2, <1>3, <1>4
<1> QED
  BY <1>1, <1>2, <1>4, <1>5 DEF p, LastSlice

LEMMA TilePair ==
  ASSUME NEW l \in Launches, NEW ph, NEW c, NEW i, IsTile(l, ph, c, i),
         NEW d, NEW j, IsTile(l, ph, d, j),
         PieceAt(l, ph, c, i).tile = PieceAt(l, ph, d, j).tile
  PROVE  LET p == PieceAt(l, ph, c, i)
             q == PieceAt(l, ph, d, j)
         IN /\ p.slices = q.slices
            /\ p.slices > 1 => p.slot = q.slot
            /\ p.slice = q.slice => c = d /\ i = j
            /\ q.slice = p.slice + 1 => q.k + q.cnt = p.k
<1> DEFINE g == Gemm(l, ph)
           m == i - Shift(l, ph, c)
           n == j - Shift(l, ph, d)
           p == PieceAt(l, ph, c, i)
           q == PieceAt(l, ph, d, j)
<1>1. /\ IsGemm(g) /\ c \in 0 .. g.grid - 1 /\ m \in DOMAIN Pieces(g, c)
      /\ p = Pieces(g, c)[m]
  BY TileIs
<1>2. /\ d \in 0 .. g.grid - 1 /\ n \in DOMAIN Pieces(g, d)
      /\ q = Pieces(g, d)[n]
  BY TileIs
<1>3. c = d /\ m = n => i = j
  <2>1. i \in Nat /\ j \in Nat /\ Shift(l, ph, c) \in Nat
    BY TileIs, ShiftType DEF IsTile
  <2> QED
    BY <2>1
<1>4. p.tile = q.tile
  OBVIOUS
<1> HIDE DEF g, m, n, p, q
<1>5. /\ p.slices = q.slices
      /\ p.slices > 1 => p.slot = q.slot
      /\ p.slice = q.slice => c = d /\ m = n
      /\ q.slice = p.slice + 1 => q.k + q.cnt = p.k
  BY <1>1, <1>2, <1>4, SameTile
<1> QED
  BY <1>3, <1>5 DEF p, q

LEMMA TileSlots ==
  ASSUME NEW l \in Launches, NEW ph, NEW c, NEW i, IsTile(l, ph, c, i),
         NEW d, NEW j, IsTile(l, ph, d, j),
         PieceAt(l, ph, c, i).slices > 1, PieceAt(l, ph, d, j).slices > 1,
         PieceAt(l, ph, c, i).slot = PieceAt(l, ph, d, j).slot
  PROVE  PieceAt(l, ph, c, i).tile = PieceAt(l, ph, d, j).tile
<1> DEFINE g == Gemm(l, ph)
           m == i - Shift(l, ph, c)
           n == j - Shift(l, ph, d)
<1>1. /\ IsGemm(g) /\ c \in 0 .. g.grid - 1 /\ m \in DOMAIN Pieces(g, c)
      /\ PieceAt(l, ph, c, i) = Pieces(g, c)[m]
  BY TileIs
<1>2. /\ d \in 0 .. g.grid - 1 /\ n \in DOMAIN Pieces(g, d)
      /\ PieceAt(l, ph, d, j) = Pieces(g, d)[n]
  BY TileIs
<1> HIDE DEF g, m, n
<1> QED
  BY <1>1, <1>2, SameSlot

LEMMA TileLast ==
  ASSUME NEW l \in Launches, NEW ph \in GemmPhases, NEW t \in 0 .. l.routes * NTiles(l, ph) - 1,
         t \div NTiles(l, ph) \notin l.dead
  PROVE  \E c \in 0 .. Grid(l) - 1 : \E i \in DOMAIN Work(l, ph, c) :
            /\ IsTile(l, ph, c, i)
            /\ PieceAt(l, ph, c, i).tile = t
            /\ LastSlice(PieceAt(l, ph, c, i))
<1> DEFINE g == Gemm(l, ph)
<1>1. IsGemm(g) /\ g.grid = Grid(l) /\ MnTiles(g) = l.routes * NTiles(l, ph)
  BY GemmType
<1>2a. PICK c \in 0 .. g.grid - 1 : \E j \in DOMAIN Pieces(g, c) : Pieces(g, c)[j].tile = t /\ Pieces(g, c)[j].slice = Pieces(g, c)[j].slices - 1
  BY <1>1, LastPiece
<1>2. PICK j \in DOMAIN Pieces(g, c) : Pieces(g, c)[j].tile = t /\ Pieces(g, c)[j].slice = Pieces(g, c)[j].slices - 1
  BY <1>2a
<1> DEFINE i == j + Shift(l, ph, c)
<1>3. c \in 0 .. Grid(l) - 1
  BY <1>1
<1>4. i \in DOMAIN Work(l, ph, c) /\ Work(l, ph, c)[i].op = "tile" /\ Work(l, ph, c)[i].piece = Pieces(g, c)[j]
  BY <1>2, <1>3, TilesAre
<1> HIDE DEF i, g
<1> QED
  BY <1>2, <1>3, <1>4 DEF IsTile, PieceAt, LastSlice

-----------------------------------------------------------------------------
(* The kernel's invariant.  A unit of work is done when its CTA has passed  *)
(* its phase or, in it, has crossed the unit out of todo.                   *)

Working(c) == DOMAIN todo[c] # {}

Done(c, ph, i) == \/ Rank(ph) < Rank(Phase(c))
                  \/ ph = Phase(c) /\ i \notin DOMAIN todo[c]

Current(c, ph, i) == ph = Phase(c) /\ Working(c) /\ i = Index(c)

\* The slice has passed the turn on.
Published(c, ph, i) == Done(c, ph, i) \/ (Current(c, ph, i) /\ step[c] = "store")

Opened(ph) == \E e \in members : Rank(ph) <= Rank(Phase(e))

Units(ph, c) == DOMAIN Work(launch, ph, c)
Piece(ph, c, i) == PieceAt(launch, ph, c, i)
Tile(ph, c, i) == IsTile(launch, ph, c, i)

\* A slice of a phase that has begun which has not passed the turn on yet.
Awaited(ph, c, i) == /\ Tile(ph, c, i) /\ Piece(ph, c, i).slices > 1
                     /\ Opened(ph) /\ ~ Published(c, ph, i)

\* The last slice of tile t has been stored.
Stored(ph, t) == \E c \in members : \E i \in Units(ph, c) :
                    /\ Tile(ph, c, i)
                    /\ Piece(ph, c, i).tile = t
                    /\ LastSlice(Piece(ph, c, i))
                    /\ Done(c, ph, i)

Terms(ph, t, from, upTo) == {<<number, ph, t, k>> : k \in from .. upTo - 1}

\* The FC2 tiles that add into cell u of the output, and what is there of them.
TilesInto(u) == {r * launch.n2 + (u % launch.n2) : r \in RoutesOf(u \div launch.n2)}
Collected(u) == UNION {Whole(launch, "fc2", t) : t \in {v \in TilesInto(u) : Stored("fc2", v)}}

Buffers ==
    /\ DOMAIN locks = 0 .. Cap - 1 /\ \A s \in 0 .. Cap - 1 : locks[s] \in Nat
    /\ DOMAIN ctmp = GemmPhases /\ \A ph \in GemmPhases : DOMAIN ctmp[ph] = 0 .. Cap - 1
    /\ DOMAIN rotA = Cells /\ DOMAIN cache13 = Cells
    /\ DOMAIN cache2 = Cells /\ DOMAIN output = Cells

Stages == /\ stage \in {"idle", "kernel", "sum"}
          /\ started \subseteq members
          /\ stage = "kernel" <=> members # {}
          /\ launch \in Launches
          /\ number \in Nat
          /\ stage # "idle" => number > 0
          /\ stage = "sum" => ~ launch.fused

\* Each CTA of the launch has left of its phase's work what it has not done,
\* and nothing when it is in the barrier.
Shape ==
    /\ members = 0 .. Grid(launch) - 1
    /\ rounds = Len(PhasesOf(launch)) - 1
    /\ DOMAIN todo = members /\ DOMAIN step = members /\ DOMAIN acc = members
    /\ \A c \in members :
          /\ passed[c] \in 0 .. rounds
          /\ DOMAIN todo[c] \subseteq Units(Phase(c), c)
          /\ \A i \in DOMAIN todo[c] : todo[c][i] = Work(launch, Phase(c), c)[i]
          /\ at[c] # "run" => passed[c] < rounds /\ ~ Working(c)

\* Where a CTA is in its tile says what its accumulator holds.
StepAt(c) ==
    \/ step[c] = "next"
    \/ LET p == Task(c).piece
           ph == Phase(c)
       IN /\ Working(c) /\ Task(c).op = "tile"
          /\ \/ /\ step[c] \in {"turn", "merge"} /\ p.slices > 1
                /\ acc[c] = Terms(ph, p.tile, p.k, p.k + p.cnt)
                /\ step[c] = "merge" => locks[p.slot] = p.slice
             \/ /\ step[c] = "publish" /\ p.slices > 1
                /\ acc[c] = Terms(ph, p.tile, p.k, KTiles(launch, ph))
                /\ locks[p.slot] = p.slice
                /\ ~ LastSlice(p) => ctmp[ph][p.slot] = acc[c]
             \/ /\ step[c] = "store" /\ LastSlice(p)
                /\ acc[c] = Whole(launch, ph, p.tile)

StepExact == \A c \in members : StepAt(c)

\* A lock that is not at zero is waited for, and it is the number of slices of
\* the tile that have passed the turn on.
LocksAwaited ==
    \A s \in 0 .. Cap - 1 :
        locks[s] # 0 => \E ph \in GemmPhases : \E c \in members : \E i \in Units(ph, c) :
                            Awaited(ph, c, i) /\ Piece(ph, c, i).slot = s

LocksExact ==
    \A ph \in GemmPhases : \A c \in members : \A i \in Units(ph, c) :
        Awaited(ph, c, i) =>
            \A d \in members : \A j \in Units(ph, d) :
                Tile(ph, d, j) /\ Piece(ph, d, j).tile = Piece(ph, c, i).tile =>
                    (Published(d, ph, j) <=> Piece(ph, d, j).slice < locks[Piece(ph, c, i).slot])

\* The slice whose turn it is finds in the scratch the sum of those before it.
ScratchExact ==
    \A ph \in GemmPhases : \A c \in members : \A i \in Units(ph, c) :
        LET p == Piece(ph, c, i)
        IN Awaited(ph, c, i) /\ p.slice = locks[p.slot] /\ p.slice > 0
              /\ ~ (Current(c, ph, i) /\ step[c] = "publish")
           => ctmp[ph][p.slot] = Terms(ph, p.tile, p.k + p.cnt, KTiles(launch, ph))

\* What the units that are done have left in the intermediates.
RotatedIn == \A c \in members : \A i \in Units("rotate", c) :
                launch.rotate /\ Done(c, "rotate", i) => rotA[Work(launch, "rotate", c)[i].cell] = number

Fc1Gated == launch.gated /\ (\A c \in members : Rank(Phase(c)) <= Rank("act")) =>
                \A t \in Cells : Stored("fc1", t) => cache13[t] = Whole(launch, "fc1", t)

Fc1Plain == ~ launch.gated => \A t \in Cells : Stored("fc1", t) => cache2[t] = number

Activated == \A c \in members : \A i \in Units("act", c) :
                LET u == Work(launch, "act", c)[i].cell
                IN launch.gated /\ Done(c, "act", i) /\ u \div launch.k2 \notin launch.dead
                      => cache2[u] = number

Zeroed == \A c \in members : \A i \in Units("zero", c) :
             LET u == Work(launch, "zero", c)[i].cell
             IN ZeroFc2(launch) /\ Done(c, "zero", i) /\ u \div launch.n2 \in launch.dead
                   => cache13[u] = {}

Fc2Rows == ~ launch.fused => \A t \in Cells : Stored("fc2", t) => cache13[t] = Whole(launch, "fc2", t)

Cleared == \A c \in members : \A i \in Units("fc1", c) :
              LET u == Work(launch, "fc1", c)[i].cell
              IN Work(launch, "fc1", c)[i].op = "clear" /\ Done(c, "fc1", i)
                    => output[u] = Collected(u)

Data == /\ RotatedIn /\ Fc1Gated /\ Fc1Plain /\ Activated /\ Zeroed /\ Fc2Rows /\ Cleared

Kernel == /\ Shape /\ StepExact /\ LocksAwaited /\ LocksExact /\ ScratchExact /\ Data

\* The rows the top-k sum reads.
RowsReady == \A t \in 0 .. launch.routes * launch.n2 - 1 :
                IF t \div launch.n2 \in launch.dead
                THEN ZeroFc2(launch) => cache13[t] = {}
                ELSE cache13[t] = Whole(launch, "fc2", t)

LocksFree == \A s \in 0 .. Cap - 1 : locks[s] = 0

IInv == /\ BarrierInv /\ Buffers /\ Stages
        /\ IF stage = "kernel" THEN Kernel ELSE LocksFree
        /\ stage = "sum" => RowsReady
        /\ ResultExact

-----------------------------------------------------------------------------
(* Phases and the barrier *)

LEMMA PhaseIn ==
  ASSUME Stages, Shape, NEW c \in members
  PROVE  /\ launch \in Launches /\ c \in 0 .. Grid(launch) - 1
         /\ passed[c] + 1 \in 1 .. Len(PhasesOf(launch))
         /\ Phase(c) \in PhaseNames /\ Rank(Phase(c)) \in Nat
         /\ HasPhase(launch, Phase(c))
<1>1. launch \in Launches /\ passed[c] \in 0 .. rounds /\ rounds = Len(PhasesOf(launch)) - 1
  BY DEF Stages, Shape
<1>2. passed[c] + 1 \in 1 .. Len(PhasesOf(launch))
  BY <1>1, PhaseOrder
<1>3. Phase(c) \in PhaseNames /\ HasPhase(launch, Phase(c))
  BY <1>1, <1>2, PhaseOrder DEF Phase, HasPhase
<1> QED
  BY <1>1, <1>2, <1>3, RankType DEF Shape

LEMMA Ranks ==
  ASSUME Stages, Shape, NEW c \in members, NEW d \in members
  PROVE  /\ passed[c] < passed[d] => Rank(Phase(c)) < Rank(Phase(d))
         /\ passed[c] = passed[d] => Phase(c) = Phase(d)
         /\ passed[c] \in Int /\ passed[d] \in Int
<1> DEFINE s == PhasesOf(launch)
<1>1. /\ passed[c] \in Int /\ passed[d] \in Int
      /\ passed[c] + 1 \in 1 .. Len(s) /\ passed[d] + 1 \in 1 .. Len(s)
      /\ launch \in Launches
  BY PhaseIn DEF Shape
<1>2. \A i, j \in 1 .. Len(s) : i < j => Rank(s[i]) < Rank(s[j])
  BY <1>1, PhaseOrder
<1>3. Phase(c) = s[passed[c] + 1] /\ Phase(d) = s[passed[d] + 1]
  BY DEF Phase
<1> HIDE DEF s
<1> QED
  BY <1>1, <1>2, <1>3

\* A phase comes before, is or comes after the one a CTA is in.
LEMMA PhaseBefore ==
  ASSUME Stages, Shape, NEW c \in members, NEW d \in members, passed[d] = passed[c] + 1,
         NEW ph, HasPhase(launch, ph), Rank(ph) < Rank(Phase(d))
  PROVE  Rank(ph) < Rank(Phase(c)) \/ ph = Phase(c)
<1> DEFINE s == PhasesOf(launch)
<1>1. PICK n \in 1 .. Len(s) : s[n] = ph
  BY DEF HasPhase
<1>2. /\ passed[c] + 1 \in 1 .. Len(s) /\ passed[d] + 1 \in 1 .. Len(s) /\ launch \in Launches
      /\ Phase(c) = s[passed[c] + 1] /\ Phase(d) = s[passed[d] + 1]
      /\ passed[c] \in Int
  BY PhaseIn, Ranks DEF Phase
<1>3. /\ \A i, j \in 1 .. Len(s) : i < j => Rank(s[i]) < Rank(s[j])
      /\ \A i \in 1 .. Len(s) : s[i] \in PhaseNames /\ Rank(s[i]) \in Nat
      /\ Len(s) \in Nat
  BY <1>2, PhaseOrder, RankType
<1> HIDE DEF s
<1>4. n < passed[d] + 1
  <2> DEFINE m == passed[d] + 1
  <2>1. m \in 1 .. Len(s) /\ Rank(s[n]) < Rank(s[m])
    BY <1>1, <1>2
  <2> HIDE DEF m
  <2>2. /\ Rank(s[n]) \in Nat /\ Rank(s[m]) \in Nat /\ n \in Int /\ m \in Int
        /\ m < n => Rank(s[m]) < Rank(s[n])
    BY <1>3, <2>1
  <2>3. n # m /\ ~ (m < n)
    BY <2>1, <2>2
  <2> QED
    BY <2>2, <2>3 DEF m
<1>5. n < passed[c] + 1 \/ n = passed[c] + 1
  BY <1>1, <1>2, <1>3, <1>4
<1> QED
  BY <1>1, <1>2, <1>3, <1>5

\* A CTA that is in a phase finds every earlier phase finished by all, and
\* nobody beyond the phase.
LEMMA Synchronous ==
  ASSUME Stages, Shape, BarrierInv, NEW c \in members, at[c] = "run", NEW d \in members
  PROVE  /\ Rank(Phase(d)) <= Rank(Phase(c))
         /\ \A ph : HasPhase(launch, ph) /\ Rank(ph) < Rank(Phase(c)) =>
               /\ Rank(ph) < Rank(Phase(d)) \/ (ph = Phase(d) /\ ~ Working(d))
               /\ \A i : Done(d, ph, i)
<1>1. Level(d) = Level(c) /\ Level(c) = passed[c]
  BY DEF BarrierInv, SameLevel, Level
<1>2. \/ passed[d] = passed[c]
      \/ passed[c] = passed[d] + 1 /\ at[d] = "spin"
  BY <1>1, Ranks DEF Level
<1>3. CASE passed[d] = passed[c]
  <2>1. Phase(d) = Phase(c) /\ Rank(Phase(c)) \in Nat
    BY <1>3, Ranks, PhaseIn
  <2> QED
    BY <2>1 DEF Done
<1>4. CASE passed[c] = passed[d] + 1 /\ at[d] = "spin"
  <2>1. ~ Working(d)
    BY <1>4 DEF Shape
  <2>2. Rank(Phase(d)) < Rank(Phase(c)) /\ Rank(Phase(c)) \in Nat /\ Rank(Phase(d)) \in Nat
    BY <1>4, Ranks, PhaseIn
  <2>3. \A ph : HasPhase(launch, ph) /\ Rank(ph) < Rank(Phase(c)) =>
           Rank(ph) < Rank(Phase(d)) \/ ph = Phase(d)
    BY <1>4, PhaseBefore
  <2> QED
    BY <2>1, <2>2, <2>3 DEF Done, Working
<1> QED
  BY <1>2, <1>3, <1>4

\* The unit a CTA works on.
LEMMA TaskIs ==
  ASSUME Stages, Shape, NEW c \in members, Working(c)
  PROVE  /\ Index(c) \in DOMAIN todo[c] /\ Index(c) \in Units(Phase(c), c)
         /\ Task(c) = Work(launch, Phase(c), c)[Index(c)]
         /\ at[c] = "run"
         /\ Task(c).op \in {"rotate", "clear", "act", "zero", "tile"}
         /\ Task(c).op = "tile" => /\ Phase(c) \in GemmPhases
                                   /\ Tile(Phase(c), c, Index(c))
                                   /\ Task(c).piece = Piece(Phase(c), c, Index(c))
         /\ Task(c).op # "tile" => /\ Phase(c) = UnitPhase(Task(c).op)
                                   /\ Task(c).cell \in UnitCells(launch, Task(c).op)
<1>1. /\ launch \in Launches /\ c \in 0 .. Grid(launch) - 1 /\ Phase(c) \in PhaseNames
  BY PhaseIn
<1>2. DOMAIN todo[c] \subseteq Units(Phase(c), c) /\ at[c] = "run"
  BY DEF Shape, Working
<1>3. \A i \in Units(Phase(c), c) : i \in Nat
  BY <1>1, UnitIs DEF Units
<1>4. DOMAIN todo[c] \in SUBSET Nat /\ DOMAIN todo[c] # {}
  BY <1>2, <1>3 DEF Working
<1>5. Index(c) \in DOMAIN todo[c]
  BY <1>4, MinIn DEF Index
<1>6. Task(c) = Work(launch, Phase(c), c)[Index(c)] /\ Index(c) \in DOMAIN Work(launch, Phase(c), c)
  BY <1>2, <1>5 DEF Shape, Task, Units
<1>7. LET u == Work(launch, Phase(c), c)[Index(c)]
      IN /\ u.op \in {"rotate", "clear", "act", "zero", "tile"}
         /\ u.op = "tile" => Phase(c) \in GemmPhases
         /\ u.op # "tile" => Phase(c) = UnitPhase(u.op) /\ u.cell \in UnitCells(launch, u.op)
  BY <1>1, <1>6, UnitIs
<1> QED
  BY <1>1, <1>2, <1>5, <1>6, <1>7 DEF Tile, IsTile, Piece, PieceAt, Units

\* Crossing out the unit makes it done, and nothing else.
LEMMA Crossed ==
  ASSUME Stages, Shape, NEW c \in members, Working(c), TaskDone(c),
         UNCHANGED <<barrierVars, launch>>
  PROVE  /\ \A d, ph, i : d \in members =>
               (Done(d, ph, i)' <=> Done(d, ph, i) \/ (d = c /\ Current(c, ph, i)))
         /\ \A d \in members : d # c => todo'[d] = todo[d]
         /\ DOMAIN todo' = members
         /\ DOMAIN todo'[c] = DOMAIN todo[c] \ {Index(c)}
         /\ \A i \in DOMAIN todo'[c] : todo'[c][i] = todo[c][i]
<1>1. DOMAIN todo = members
  BY DEF Shape
<1>2. /\ \A d \in members : d # c => todo'[d] = todo[d]
      /\ DOMAIN todo' = members
      /\ todo'[c] = Restrict(todo[c], DOMAIN todo[c] \ {Index(c)})
  BY <1>1 DEF TaskDone
<1>3. /\ DOMAIN todo'[c] = DOMAIN todo[c] \ {Index(c)}
      /\ \A i \in DOMAIN todo'[c] : todo'[c][i] = todo[c][i]
  BY <1>2 DEF Restrict
<1>4. Index(c) \in DOMAIN todo[c]
  BY TaskIs
<1>5. \A d : Phase(d)' = Phase(d)
  BY DEF Phase, barrierVars
<1>6. ASSUME NEW d \in members, NEW ph, NEW i
      PROVE  Done(d, ph, i)' <=> Done(d, ph, i) \/ (d = c /\ Current(c, ph, i))
  BY <1>2, <1>3, <1>4, <1>5 DEF Done, Current
<1> QED
  BY <1>2, <1>3, <1>6

-----------------------------------------------------------------------------
(* What a step inside a phase leaves as it was *)

LEMMA Frame ==
  ASSUME UNCHANGED <<barrierVars, launch>>
  PROVE  /\ members' = members
         /\ \A c : Phase(c)' = Phase(c)
         /\ \A ph : Opened(ph)' <=> Opened(ph)
         /\ \A ph, c : Units(ph, c)' = Units(ph, c)
         /\ \A ph, c, i : Tile(ph, c, i)' <=> Tile(ph, c, i)
         /\ \A ph, c, i : Piece(ph, c, i)' = Piece(ph, c, i)
         /\ \A u : TilesInto(u)' = TilesInto(u)
<1>1. members' = members /\ passed' = passed /\ launch' = launch
  BY DEF barrierVars
<1>2. \A c : Phase(c)' = Phase(c)
  BY <1>1 DEF Phase
<1>3. \A ph : Opened(ph)' <=> Opened(ph)
  BY <1>1, <1>2 DEF Opened
<1>4. /\ \A ph, c : Units(ph, c)' = Units(ph, c)
      /\ \A ph, c, i : Tile(ph, c, i)' <=> Tile(ph, c, i)
      /\ \A ph, c, i : Piece(ph, c, i)' = Piece(ph, c, i)
  BY <1>1 DEF Units, Tile, Piece
<1>5. \A u : TilesInto(u)' = TilesInto(u)
  BY <1>1 DEF TilesInto, RoutesOf
<1> QED
  BY <1>1, <1>2, <1>3, <1>4, <1>5

LEMMA FrameTerms ==
  ASSUME UNCHANGED <<launch, number>>
  PROVE  /\ \A ph, t, a, b : Terms(ph, t, a, b)' = Terms(ph, t, a, b)
         /\ \A ph, t : Whole(launch, ph, t)' = Whole(launch, ph, t)
         /\ \A ph : KTiles(launch, ph)' = KTiles(launch, ph)
BY DEF Terms, Whole, KTiles

LEMMA FrameDone ==
  ASSUME UNCHANGED <<barrierVars, launch, todo>>
  PROVE  /\ \A d, ph, i : Done(d, ph, i)' <=> Done(d, ph, i)
         /\ \A d, ph, i : Current(d, ph, i)' <=> Current(d, ph, i)
         /\ \A ph, t : Stored(ph, t)' <=> Stored(ph, t)
<1>1. /\ \A d, ph, i : Done(d, ph, i)' <=> Done(d, ph, i)
      /\ \A d, ph, i : Current(d, ph, i)' <=> Current(d, ph, i)
  BY Frame DEF Done, Current, Working, Index
<1> QED
  BY <1>1, Frame DEF Stored

LEMMA ShapeKept ==
  ASSUME Shape, UNCHANGED <<barrierVars, launch>>,
         DOMAIN todo' = members, DOMAIN step' = members, DOMAIN acc' = members,
         \A d \in members : /\ DOMAIN todo'[d] \subseteq DOMAIN todo[d]
                            /\ \A i \in DOMAIN todo'[d] : todo'[d][i] = todo[d][i]
  PROVE  Shape'
<1>1. /\ members' = members /\ rounds' = rounds /\ passed' = passed /\ at' = at /\ launch' = launch
      /\ \A c : Phase(c)' = Phase(c)
      /\ \A ph, c : Units(ph, c)' = Units(ph, c)
  BY Frame DEF barrierVars
<1>2. ASSUME NEW c \in members
      PROVE  /\ passed'[c] \in 0 .. rounds'
             /\ DOMAIN todo'[c] \subseteq Units(Phase(c), c)'
             /\ \A i \in DOMAIN todo'[c] : todo'[c][i] = Work(launch', Phase(c)', c)[i]
             /\ at'[c] # "run" => passed'[c] < rounds' /\ ~ Working(c)'
  BY <1>1 DEF Shape, Working
<1> QED
  BY <1>1, <1>2 DEF Shape

LEMMA StepKept ==
  ASSUME UNCHANGED <<barrierVars, launch, number>>, NEW d \in members, StepAt(d),
         todo'[d] = todo[d], step'[d] = step[d], acc'[d] = acc[d],
         step[d] \in {"merge", "publish"} => locks'[Task(d).piece.slot] = locks[Task(d).piece.slot],
         step[d] = "publish" => ctmp'[Phase(d)][Task(d).piece.slot] = ctmp[Phase(d)][Task(d).piece.slot]
  PROVE  StepAt(d)'
<1>1. /\ Task(d)' = Task(d) /\ Phase(d)' = Phase(d) /\ Working(d)' <=> Working(d)
      /\ launch' = launch
  BY Frame DEF Task, Index, Working
<1> QED
  BY <1>1, FrameTerms DEF StepAt

\* Who has passed the turn on is as before, and so are the locks.
TurnsSame == \A ph \in GemmPhases : \A d \in members : \A j \in Units(ph, d) :
                Tile(ph, d, j) /\ Piece(ph, d, j).slices > 1
                   => (Published(d, ph, j)' <=> Published(d, ph, j))

LEMMA AwaitedSame ==
  ASSUME UNCHANGED <<barrierVars, launch>>, TurnsSame
  PROVE  \A ph \in GemmPhases : \A d \in members : \A j \in Units(ph, d) :
            Awaited(ph, d, j)' <=> Awaited(ph, d, j)
BY Frame DEF Awaited, TurnsSame

LEMMA LocksKept ==
  ASSUME Stages, Shape, LocksAwaited, LocksExact, UNCHANGED <<barrierVars, launch, locks>>, TurnsSame
  PROVE  LocksAwaited' /\ LocksExact'
<1>1. LocksAwaited'
  BY Frame, AwaitedSame DEF LocksAwaited
<1>2. ASSUME NEW ph \in GemmPhases, NEW c \in members, NEW i \in Units(ph, c),
             Awaited(ph, c, i), NEW d \in members, NEW j \in Units(ph, d),
             Tile(ph, d, j), Piece(ph, d, j).tile = Piece(ph, c, i).tile
      PROVE  /\ Published(d, ph, j)' <=> Published(d, ph, j)
             /\ Published(d, ph, j) <=> Piece(ph, d, j).slice < locks[Piece(ph, c, i).slot]
  <2>1. Piece(ph, d, j).slices = Piece(ph, c, i).slices /\ Piece(ph, c, i).slices > 1
    BY <1>2, TilePair DEF Awaited, Tile, Piece, Stages
  <2> QED
    BY <1>2, <2>1 DEF TurnsSame, LocksExact
<1>3. LocksExact'
  BY <1>2, Frame, AwaitedSame DEF LocksExact
<1> QED
  BY <1>1, <1>3

LEMMA ScratchKept ==
  ASSUME Stages, Shape, ScratchExact, UNCHANGED <<barrierVars, launch, number, locks, ctmp>>, TurnsSame,
         \A ph \in GemmPhases : \A d \in members : \A i \in Units(ph, d) :
            Awaited(ph, d, i) /\ Current(d, ph, i) /\ step[d] = "publish"
               => Current(d, ph, i)' /\ step'[d] = "publish"
  PROVE  ScratchExact'
<1>1. ASSUME NEW ph \in GemmPhases, NEW c \in members, NEW i \in Units(ph, c),
             Awaited(ph, c, i), Piece(ph, c, i).slice = locks[Piece(ph, c, i).slot],
             Piece(ph, c, i).slice > 0, ~ (Current(c, ph, i)' /\ step'[c] = "publish")
      PROVE  ctmp[ph][Piece(ph, c, i).slot] =
                Terms(ph, Piece(ph, c, i).tile, Piece(ph, c, i).k + Piece(ph, c, i).cnt, KTiles(launch, ph))
  BY <1>1 DEF ScratchExact
<1> QED
  BY <1>1, Frame, FrameTerms, AwaitedSame DEF ScratchExact

-----------------------------------------------------------------------------
(* The turns the slices of a tile take *)

TurnInv == StepExact /\ LocksAwaited /\ LocksExact /\ ScratchExact

\* Crossing out the unit a CTA has finished.
LEMMA CrossedShape ==
  ASSUME Stages, Shape, NEW c \in members, Working(c), TaskDone(c),
         UNCHANGED <<barrierVars, launch>>, DOMAIN step' = members, DOMAIN acc' = members
  PROVE  Shape'
<1>1. \A d \in members : /\ DOMAIN todo'[d] \subseteq DOMAIN todo[d]
                         /\ \A i \in DOMAIN todo'[d] : todo'[d][i] = todo[d][i]
  BY Crossed
<1> QED
  BY <1>1, Crossed, ShapeKept

\* Only a tile stands between slices: a CTA that crosses out another unit
\* changes nothing about turns.
LEMMA UnitTurns ==
  ASSUME Stages, Shape, TurnInv, NEW c \in members, Working(c), step[c] = "next",
         Task(c).op # "tile", TaskDone(c),
         UNCHANGED <<barrierVars, launch, number, step, acc, locks, ctmp>>
  PROVE  Shape' /\ TurnInv' /\ \A ph \in GemmPhases : \A t : Stored(ph, t)' <=> Stored(ph, t)
<1>1. \A ph, i : Current(c, ph, i) => ~ Tile(ph, c, i)
  BY TaskIs DEF Current, Tile, IsTile
<1>2. \A d \in members : \A ph, i : Tile(ph, d, i) => (Done(d, ph, i)' <=> Done(d, ph, i))
  BY <1>1, Crossed
<1>3. \A d \in members \ {c} : \A ph, i : Current(d, ph, i)' <=> Current(d, ph, i)
  BY Crossed, Frame DEF Current, Working, Index
<1>4. TurnsSame
  BY <1>2, <1>3, Frame DEF TurnsSame, Published
<1>5. Shape'
  BY CrossedShape DEF Shape
<1>6. \A d \in members \ {c} : StepAt(d)'
  BY StepKept, Crossed DEF TurnInv, StepExact
<1>7. StepExact'
  BY <1>6, Frame DEF StepExact, StepAt
<1>8. LocksAwaited' /\ LocksExact'
  BY <1>4, LocksKept DEF TurnInv
<1>9. ScratchExact'
  BY <1>3, <1>4, ScratchKept DEF TurnInv
<1>10. \A ph \in GemmPhases : \A t : Stored(ph, t)' <=> Stored(ph, t)
  BY <1>2, Frame DEF Stored
<1> QED
  BY <1>5, <1>7, <1>8, <1>9, <1>10 DEF TurnInv

LEMMA WholeIs ==
  ASSUME NEW ph, NEW t
  PROVE  Whole(launch, ph, t) = Terms(ph, t, 0, KTiles(launch, ph))
BY DEF Whole, Terms, KTiles, Gemm

LEMMA CellsIn ==
  ASSUME NEW l \in Launches, NEW n \in {l.n1, l.n2, l.k2}, NEW u \in 0 .. l.routes * n - 1
  PROVE  u \in Cells
BY DEF Cells

\* When a CTA is in a phase, the tiles and the units of the earlier ones are
\* done.
LEMMA AllStored ==
  ASSUME Stages, Shape, BarrierInv, NEW c \in members, at[c] = "run", NEW ph \in GemmPhases,
         Rank(ph) < Rank(Phase(c)),
         NEW t \in 0 .. launch.routes * NTiles(launch, ph) - 1, t \div NTiles(launch, ph) \notin launch.dead
  PROVE  Stored(ph, t)
<1>1. launch \in Launches /\ members = 0 .. Grid(launch) - 1
  BY DEF Stages, Shape
<1>2. HasPhase(launch, ph)
  BY <1>1, PhaseOf DEF GemmPhases
<1>3. PICK d \in members : \E i \in Units(ph, d) :
         /\ Tile(ph, d, i) /\ Piece(ph, d, i).tile = t /\ LastSlice(Piece(ph, d, i))
  BY <1>1, TileLast DEF Units, Tile, Piece
<1>4. \A i : Done(d, ph, i)
  BY <1>2, Synchronous
<1> QED
  BY <1>3, <1>4 DEF Stored

LEMMA AllUnits ==
  ASSUME Stages, Shape, BarrierInv, NEW c \in members, at[c] = "run",
         NEW op \in {"rotate", "clear", "act", "zero"}, HasPhase(launch, UnitPhase(op)),
         Rank(UnitPhase(op)) < Rank(Phase(c)), NEW u \in UnitCells(launch, op)
  PROVE  \E d \in members : \E i \in Units(UnitPhase(op), d) :
            /\ Work(launch, UnitPhase(op), d)[i].op = op
            /\ Work(launch, UnitPhase(op), d)[i].cell = u
            /\ Done(d, UnitPhase(op), i)
<1>1. launch \in Launches /\ members = 0 .. Grid(launch) - 1
  BY DEF Stages, Shape
<1>2. \A d \in members : \A i : Done(d, UnitPhase(op), i)
  BY Synchronous
<1> QED
  BY <1>1, <1>2, UnitReached DEF Units

\* Of the phase the working CTA is in are all slices that are waited for.
LEMMA AwaitedHere ==
  ASSUME Stages, Shape, BarrierInv, NEW c \in members, at[c] = "run", NEW ph \in GemmPhases,
         NEW d \in members, NEW i, Awaited(ph, d, i)
  PROVE  ph = Phase(c)
<1>1. HasPhase(launch, ph) /\ ph \in PhaseNames /\ Rank(ph) \in Nat /\ Rank(Phase(c)) \in Nat
      /\ Phase(c) \in PhaseNames
  BY PhaseOf, RankType, PhaseIn DEF Stages, GemmPhases, PhaseNames
<1>2. ~ (Rank(ph) < Rank(Phase(c)))
  BY <1>1, Synchronous DEF Awaited, Published
<1>3. Rank(ph) <= Rank(Phase(c))
  <2>1. PICK e \in members : Rank(ph) <= Rank(Phase(e))
    BY DEF Awaited, Opened
  <2> QED
    BY <2>1, <1>1, Synchronous, PhaseIn
<1> QED
  BY <1>1, <1>2, <1>3, RankType

\* The tile of a CTA that is between two steps of it.
LEMMA OnTile ==
  ASSUME Stages, Shape, BarrierInv, NEW c \in members, Working(c), Task(c).op = "tile"
  PROVE  LET ph == Phase(c)
             i == Index(c)
         IN /\ at[c] = "run" /\ launch \in Launches
            /\ ph \in GemmPhases /\ i \in Units(ph, c) /\ Tile(ph, c, i) /\ Current(c, ph, i)
            /\ IsTile(launch, ph, c, i) /\ Task(c).piece = PieceAt(launch, ph, c, i)
            /\ Task(c).piece = Piece(ph, c, i)
            /\ i \in DOMAIN todo[c] /\ ~ Done(c, ph, i) /\ Opened(ph)
            /\ Rank(ph) \in Nat
            /\ Task(c).piece.slices \in Nat \ {0}
            /\ Task(c).piece.slice \in 0 .. Task(c).piece.slices - 1
            /\ Task(c).piece.k \in Nat /\ Task(c).piece.cnt \in Nat \ {0}
            /\ Task(c).piece.slice = 0
                  => Task(c).piece.k + Task(c).piece.cnt = KTiles(launch, ph)
            /\ LastSlice(Task(c).piece) => Task(c).piece.k = 0
            /\ Task(c).piece.slices > 1 => Task(c).piece.slot \in 0 .. Cap - 1
            /\ Task(c).piece.k + Task(c).piece.cnt <= KTiles(launch, ph)
<1>1. Rank(Phase(c)) \in Nat /\ launch \in Launches
  BY PhaseIn
<1> DEFINE q == PieceAt(launch, Phase(c), c, Index(c))
<1>4. IsTile(launch, Phase(c), c, Index(c)) /\ Task(c).piece = q
  BY TaskIs DEF Tile, Piece
<1>5. /\ q.slices \in Nat \ {0} /\ q.slice \in 0 .. q.slices - 1
      /\ q.k \in Nat /\ q.cnt \in Nat \ {0} /\ q.k + q.cnt <= KTiles(launch, Phase(c))
      /\ q.slice = 0 => q.k + q.cnt = KTiles(launch, Phase(c))
      /\ LastSlice(q) => q.k = 0
      /\ q.slices > 1 => q.slot \in 0 .. Cap - 1
  BY <1>1, <1>4, TileType
<1>2. Opened(Phase(c))
  BY <1>1 DEF Opened
<1>3. ~ Done(c, Phase(c), Index(c))
  BY <1>1, TaskIs DEF Done
<1> HIDE DEF q
<1> QED
  BY <1>1, <1>2, <1>3, <1>4, <1>5, TaskIs DEF Current, Tile, Piece

\* Two slices of one phase that are waited for at one slot are of one tile,
\* and equal when it is their turn.
LEMMA SlotHolder ==
  ASSUME Stages, Shape, NEW ph \in GemmPhases,
         NEW c \in members, NEW i \in Units(ph, c), NEW d \in members, NEW j \in Units(ph, d),
         Tile(ph, c, i), Tile(ph, d, j), Piece(ph, c, i).slices > 1, Piece(ph, d, j).slices > 1,
         Piece(ph, c, i).slot = Piece(ph, d, j).slot
  PROVE  /\ Piece(ph, c, i).tile = Piece(ph, d, j).tile
         /\ Piece(ph, c, i).slices = Piece(ph, d, j).slices
         /\ Piece(ph, c, i).slice = Piece(ph, d, j).slice => c = d /\ i = j
         /\ Piece(ph, d, j).slice = Piece(ph, c, i).slice + 1
               => Piece(ph, d, j).k + Piece(ph, d, j).cnt = Piece(ph, c, i).k
<1>1. /\ launch \in Launches /\ IsTile(launch, ph, c, i) /\ IsTile(launch, ph, d, j)
      /\ Piece(ph, c, i) = PieceAt(launch, ph, c, i) /\ Piece(ph, d, j) = PieceAt(launch, ph, d, j)
  BY DEF Stages, Tile, Piece
<1>2. PieceAt(launch, ph, c, i).tile = PieceAt(launch, ph, d, j).tile
  BY <1>1, TileSlots
<1> QED
  BY <1>1, <1>2, TilePair

\* No two CTAs have the turn at one slot.
LEMMA Alone ==
  ASSUME Stages, Shape, BarrierInv, TurnInv, NEW c \in members, NEW d \in members,
         step[c] \in {"merge", "publish"}, step[d] \in {"merge", "publish"},
         Task(c).piece.slot = Task(d).piece.slot
  PROVE  c = d
<1>1. /\ StepAt(c) /\ StepAt(d)
  BY DEF TurnInv, StepExact
<1>2. /\ Working(c) /\ Task(c).op = "tile" /\ Task(c).piece.slices > 1
      /\ locks[Task(c).piece.slot] = Task(c).piece.slice
      /\ Working(d) /\ Task(d).op = "tile" /\ Task(d).piece.slices > 1
      /\ locks[Task(d).piece.slot] = Task(d).piece.slice
  BY <1>1 DEF StepAt
<1>3. /\ at[c] = "run" /\ at[d] = "run" /\ Phase(c) \in GemmPhases
      /\ Index(c) \in Units(Phase(c), c) /\ Index(d) \in Units(Phase(d), d)
      /\ Tile(Phase(c), c, Index(c)) /\ Task(c).piece = Piece(Phase(c), c, Index(c))
      /\ Tile(Phase(d), d, Index(d)) /\ Task(d).piece = Piece(Phase(d), d, Index(d))
  BY <1>2, OnTile
<1>4. Phase(d) = Phase(c)
  BY <1>3, Synchronous, PhaseIn, RankType
<1> QED
  BY <1>2, <1>3, <1>4, SlotHolder

\* The tile is multiplied: its sum is the one of its K tiles.
LEMMA MultiplyTurns ==
  ASSUME Stages, Shape, BarrierInv, TurnInv, NEW c \in members, Multiply(c),
         acc'[c] = Terms(Phase(c), Task(c).piece.tile, Task(c).piece.k,
                         Task(c).piece.k + Task(c).piece.cnt)
  PROVE  Shape' /\ TurnInv'
<1> DEFINE p == Task(c).piece
<1>1. /\ Working(c) /\ step[c] = "next" /\ Task(c).op = "tile"
      /\ UNCHANGED <<barrierVars, launch, number, todo, locks, ctmp>>
      /\ step' = [step EXCEPT ![c] = IF p.slices > 1 THEN "turn" ELSE "store"]
      /\ \E x : acc' = [acc EXCEPT ![c] = x]
  BY DEF Multiply, Busy, Working
<1>2. /\ DOMAIN step = members /\ DOMAIN acc = members
  BY DEF Shape
<1>3. /\ step'[c] = IF p.slices > 1 THEN "turn" ELSE "store"
      /\ \A d \in members \ {c} : step'[d] = step[d] /\ acc'[d] = acc[d]
      /\ DOMAIN step' = members /\ DOMAIN acc' = members
  BY <1>1, <1>2
<1>4. /\ IsTile(launch, Phase(c), c, Index(c)) /\ p = PieceAt(launch, Phase(c), c, Index(c))
      /\ launch \in Launches /\ p = Piece(Phase(c), c, Index(c))
  BY <1>1, OnTile
<1>5. /\ p.slices \in Nat \ {0} /\ p.slice \in 0 .. p.slices - 1
      /\ p.k \in Nat /\ p.cnt \in Nat
      /\ p.slice = 0 => p.k + p.cnt = KTiles(launch, Phase(c))
      /\ LastSlice(p) => p.k = 0
  BY <1>1, OnTile
<1>6. Shape'
  BY <1>1, <1>3, ShapeKept DEF Shape
<1>7. \A d \in members \ {c} : StepAt(d)'
  BY <1>1, <1>3, StepKept DEF TurnInv, StepExact
<1>8. StepAt(c)'
  <2>1. /\ Task(c)' = Task(c) /\ Working(c)' /\ Phase(c)' = Phase(c)
    BY <1>1, Frame DEF Task, Index, Working
  <2>2. CASE p.slices > 1
    BY <1>1, <1>3, <2>1, <2>2, FrameTerms DEF StepAt
  <2>3. CASE ~ p.slices > 1
    <3>1. p.slices = 1 /\ p.slice = 0 /\ LastSlice(p)
      BY <1>5, <2>3 DEF LastSlice
    <3>2. acc'[c] = Whole(launch, Phase(c), p.tile)
      BY <1>5, <3>1, WholeIs
    <3>3. step'[c] = "store"
      BY <1>3, <2>3
    <3> QED
      BY <1>1, <2>1, <3>1, <3>2, <3>3, FrameTerms DEF StepAt, LastSlice
  <2> QED
    BY <2>2, <2>3
<1>9. \A d, ph, i : Current(d, ph, i)' <=> Current(d, ph, i)
  BY <1>1, FrameDone
<1>10. TurnsSame
  <2>1. ASSUME NEW ph, NEW d \in members, NEW j,
               Tile(ph, d, j), Piece(ph, d, j).slices > 1
        PROVE  Published(d, ph, j)' <=> Published(d, ph, j)
    <3>1. CASE d = c /\ Current(c, ph, j)
      BY <1>1, <1>3, <1>4, <1>9, <2>1, <3>1, FrameDone DEF Published, Current
    <3>2. CASE ~ (d = c /\ Current(c, ph, j))
      BY <1>1, <1>3, <1>9, <3>2, FrameDone DEF Published
    <3> QED
      BY <3>1, <3>2
  <2> QED
    BY <2>1 DEF TurnsSame
<1>11. LocksAwaited' /\ LocksExact'
  BY <1>1, <1>10, LocksKept DEF TurnInv
<1>12. ScratchExact'
  BY <1>1, <1>3, <1>9, <1>10, ScratchKept DEF TurnInv
<1>13. StepExact'
  BY <1>1, <1>7, <1>8, Frame DEF StepExact
<1> QED
  BY <1>6, <1>11, <1>12, <1>13 DEF TurnInv

\* A slice finds its turn at the lock.
LEMMA TurnTurns ==
  ASSUME Stages, Shape, BarrierInv, TurnInv, NEW c \in members, Turn(c)
  PROVE  Shape' /\ TurnInv'
<1> DEFINE p == Task(c).piece
<1>1. /\ Working(c) /\ step[c] = "turn" /\ locks[p.slot] = p.slice
      /\ UNCHANGED <<barrierVars, launch, number, todo, locks, ctmp, acc>>
      /\ step' = [step EXCEPT ![c] = "merge"]
  BY DEF Turn, Busy, Working
<1>2. /\ DOMAIN step = members /\ DOMAIN acc = members
  BY DEF Shape
<1>3. /\ step'[c] = "merge"
      /\ \A d \in members \ {c} : step'[d] = step[d]
      /\ DOMAIN step' = members
  BY <1>1, <1>2
<1>6. Shape'
  BY <1>1, <1>2, <1>3, ShapeKept DEF Shape
<1>7. \A d \in members \ {c} : StepAt(d)'
  BY <1>1, <1>3, StepKept DEF TurnInv, StepExact
<1>8. StepAt(c)'
  <2>1. /\ Task(c)' = Task(c) /\ Working(c)' /\ Phase(c)' = Phase(c)
    BY <1>1, Frame DEF Task, Index, Working
  <2>2. StepAt(c)
    BY DEF TurnInv, StepExact
  <2> QED
    BY <1>1, <1>3, <2>1, <2>2, FrameTerms DEF StepAt
<1>9. \A d, ph, i : Current(d, ph, i)' <=> Current(d, ph, i)
  BY <1>1, FrameDone
<1>10. TurnsSame
  BY <1>1, <1>3, <1>9, FrameDone DEF TurnsSame, Published
<1>11. LocksAwaited' /\ LocksExact'
  BY <1>1, <1>10, LocksKept DEF TurnInv
<1>12. ScratchExact'
  BY <1>1, <1>3, <1>9, <1>10, ScratchKept DEF TurnInv
<1>13. StepExact'
  BY <1>1, <1>7, <1>8, Frame DEF StepExact
<1> QED
  BY <1>6, <1>11, <1>12, <1>13 DEF TurnInv

LEMMA NotJunk ==
  ASSUME number \in Nat, number > 0, NEW ph, NEW t, NEW a, NEW b
  PROVE  Terms(ph, t, a, b) # Junk
<1>1. \A x \in Terms(ph, t, a, b) : x[1] # 0
  BY DEF Terms
<1>2. \E x \in Junk : x[1] = 0
  BY DEF Junk
<1> QED
  BY <1>1, <1>2

\* The terms of two neighbouring stretches of K tiles add up.
LEMMA TermsAdd ==
  ASSUME number \in Nat, number > 0, NEW ph, NEW t, NEW a \in Int, NEW b \in Int, NEW d \in Int,
         a <= b, b <= d
  PROVE  Add2(Terms(ph, t, a, b), Terms(ph, t, b, d)) = Terms(ph, t, a, d)
<1>1. Terms(ph, t, a, b) # Junk /\ Terms(ph, t, b, d) # Junk
  BY NotJunk
<1>2. Terms(ph, t, a, b) \cap Terms(ph, t, b, d) = {}
  BY DEF Terms
<1>3. Terms(ph, t, a, b) \cup Terms(ph, t, b, d) = Terms(ph, t, a, d)
  BY DEF Terms
<1> QED
  BY <1>1, <1>2, <1>3 DEF Add2

\* A slice merges what the scratch holds, and leaves the sum there.
LEMMA MergeTurns ==
  ASSUME Stages, stage = "kernel", Buffers, Shape, BarrierInv, TurnInv, NEW c \in members, MergeSlice(c)
  PROVE  Shape' /\ TurnInv' /\ Buffers'
<1> DEFINE p == Task(c).piece
           here == Phase(c)
           sum == IF p.slice = 0 THEN acc[c] ELSE Add2(acc[c], ctmp[here][p.slot])
<1>1. /\ Working(c) /\ step[c] = "merge"
      /\ UNCHANGED <<barrierVars, launch, number, todo, locks>>
      /\ step' = [step EXCEPT ![c] = "publish"]
      /\ acc' = [acc EXCEPT ![c] = sum]
      /\ ctmp' = IF LastSlice(p) THEN ctmp ELSE [ctmp EXCEPT ![here][p.slot] = sum]
      /\ UNCHANGED <<rotA, cache13, cache2, output>>
  BY DEF MergeSlice, Busy, Working
<1>2. StepAt(c)
  BY DEF TurnInv, StepExact
<1>3. /\ Task(c).op = "tile" /\ p.slices > 1 /\ locks[p.slot] = p.slice
      /\ acc[c] = Terms(here, p.tile, p.k, p.k + p.cnt)
  BY <1>1, <1>2 DEF StepAt
<1>4. /\ here \in GemmPhases /\ Index(c) \in Units(here, c) /\ Tile(here, c, Index(c))
      /\ Current(c, here, Index(c)) /\ p = Piece(here, c, Index(c)) /\ launch \in Launches
      /\ ~ Done(c, here, Index(c)) /\ Opened(here) /\ at[c] = "run"
      /\ p.slices \in Nat /\ p.slice \in Nat /\ p.k \in Nat /\ p.cnt \in Nat
      /\ p.slice = 0 => p.k + p.cnt = KTiles(launch, here)
      /\ p.slot \in 0 .. Cap - 1
      /\ p.k + p.cnt <= KTiles(launch, here)
  BY <1>1, <1>3, OnTile
<1>5. KTiles(launch, here) \in Nat
  BY <1>4, LaunchType DEF KTiles
<1>6. Awaited(here, c, Index(c))
  BY <1>1, <1>3, <1>4 DEF Awaited, Published
<1>7. sum = Terms(here, p.tile, p.k, KTiles(launch, here))
  <2>1. CASE p.slice = 0
    BY <1>3, <1>4, <2>1
  <2>2. CASE p.slice # 0
    <3>1. ctmp[here][p.slot] = Terms(here, p.tile, p.k + p.cnt, KTiles(launch, here))
      BY <1>1, <1>3, <1>4, <1>6, <2>2 DEF TurnInv, ScratchExact
    <3>2. number \in Nat /\ number > 0
      BY DEF Stages
    <3>3. p.k + p.cnt \in Int /\ p.k <= p.k + p.cnt
      BY <1>4
    <3> QED
      BY <1>3, <1>4, <1>5, <2>2, <3>1, <3>2, <3>3, TermsAdd
  <2> QED
    BY <2>1, <2>2
<1> HIDE DEF sum
<1>8. /\ DOMAIN step = members /\ DOMAIN acc = members
  BY DEF Shape
<1>9. /\ step'[c] = "publish" /\ acc'[c] = sum
      /\ \A d \in members \ {c} : step'[d] = step[d] /\ acc'[d] = acc[d]
      /\ DOMAIN step' = members /\ DOMAIN acc' = members
  BY <1>1, <1>8
<1>10. /\ DOMAIN ctmp' = GemmPhases /\ \A ph \in GemmPhases : DOMAIN ctmp'[ph] = 0 .. Cap - 1
       /\ \A ph \in GemmPhases, s \in 0 .. Cap - 1 :
             ~ (ph = here /\ s = p.slot) => ctmp'[ph][s] = ctmp[ph][s]
       /\ ~ LastSlice(p) => ctmp'[here][p.slot] = sum
  BY <1>1, <1>4 DEF Buffers
<1>11. Shape'
  BY <1>1, <1>9, ShapeKept DEF Shape
<1>12. \A d \in members \ {c} : StepAt(d)'
  <2>1. ASSUME NEW d \in members \ {c}
        PROVE  StepAt(d)'
    <3>1. StepAt(d)
      BY DEF TurnInv, StepExact
    <3>2. ASSUME step[d] = "publish"
          PROVE  ctmp'[Phase(d)][Task(d).piece.slot] = ctmp[Phase(d)][Task(d).piece.slot]
      <4>1. Working(d) /\ Task(d).op = "tile" /\ Task(d).piece.slices > 1
        BY <3>1, <3>2 DEF StepAt
      <4>2. Phase(d) \in GemmPhases /\ Task(d).piece.slot \in 0 .. Cap - 1
        BY <4>1, OnTile
      <4>3. Task(d).piece.slot # p.slot
        BY <1>1, <3>2, Alone
      <4> QED
        BY <1>10, <4>2, <4>3
    <3> QED
      BY <1>1, <1>9, <3>1, <3>2, StepKept
  <2> QED
    BY <2>1
<1>13. StepAt(c)'
  <2>1. /\ Task(c)' = Task(c) /\ Working(c)' /\ Phase(c)' = Phase(c)
    BY <1>1, Frame DEF Task, Index, Working
  <2>2. acc'[c] = Terms(here, p.tile, p.k, KTiles(launch, here))
    BY <1>7, <1>9
  <2>3. ~ LastSlice(p) => ctmp'[here][p.slot] = acc'[c]
    BY <1>9, <1>10
  <2>4. LastSlice(p)' <=> LastSlice(p)
    BY <2>1 DEF LastSlice
  <2> QED
    BY <1>1, <1>3, <1>9, <2>1, <2>2, <2>3, <2>4, FrameTerms DEF StepAt
<1>14. \A d, ph, i : Current(d, ph, i)' <=> Current(d, ph, i)
  BY <1>1, FrameDone
<1>15. TurnsSame
  BY <1>1, <1>9, <1>14, FrameDone DEF TurnsSame, Published
<1>16. LocksAwaited' /\ LocksExact'
  BY <1>1, <1>15, LocksKept DEF TurnInv
<1>17. ScratchExact'
  <2>1. ASSUME NEW ph \in GemmPhases, NEW d \in members, NEW i \in Units(ph, d),
               Awaited(ph, d, i), Piece(ph, d, i).slice = locks[Piece(ph, d, i).slot],
               Piece(ph, d, i).slice > 0, ~ (Current(d, ph, i)' /\ step'[d] = "publish")
        PROVE  ctmp'[ph][Piece(ph, d, i).slot] =
                  Terms(ph, Piece(ph, d, i).tile, Piece(ph, d, i).k + Piece(ph, d, i).cnt, KTiles(launch, ph))
    <3>1. ~ (Current(d, ph, i) /\ step[d] = "publish")
      BY <1>9, <1>14, <2>1
    <3>2. ctmp[ph][Piece(ph, d, i).slot] =
             Terms(ph, Piece(ph, d, i).tile, Piece(ph, d, i).k + Piece(ph, d, i).cnt, KTiles(launch, ph))
      BY <2>1, <3>1 DEF TurnInv, ScratchExact
    <3>3. ~ (ph = here /\ Piece(ph, d, i).slot = p.slot)
      BY <1>3, <1>4, <1>9, <1>14, <2>1, SlotHolder DEF Awaited
    <3>4. Piece(ph, d, i).slot \in 0 .. Cap - 1
      <4>1. IsTile(launch, ph, d, i) /\ PieceAt(launch, ph, d, i).slices > 1
        BY <2>1 DEF Awaited, Tile, Piece
      <4> QED
        BY <1>4, <4>1, TileType DEF Piece
    <3> QED
      BY <1>10, <3>2, <3>3, <3>4
  <2> QED
    BY <1>1, <1>15, <2>1, Frame, FrameTerms, AwaitedSame DEF ScratchExact
<1>18. StepExact'
  BY <1>1, <1>12, <1>13, Frame DEF StepExact
<1>19. Buffers'
  BY <1>1, <1>10 DEF Buffers
<1> QED
  BY <1>11, <1>16, <1>17, <1>18, <1>19 DEF TurnInv

\* A slice passes the turn on; the last one sets the lock back and stores.
LEMMA PublishTurns ==
  ASSUME Stages, Buffers, Shape, BarrierInv, TurnInv, NEW c \in members, PublishTurn(c)
  PROVE  /\ Shape' /\ TurnInv' /\ Buffers'
         /\ \A ph \in GemmPhases : \A t : Stored(ph, t)' <=> Stored(ph, t)
         /\ \A d \in members : \A ph, i : ~ Tile(ph, d, i) => (Done(d, ph, i)' <=> Done(d, ph, i))
<1> DEFINE p == Task(c).piece
           here == Phase(c)
           now == Index(c)
<1>1. /\ Working(c) /\ step[c] = "publish"
      /\ UNCHANGED <<barrierVars, launch, number, acc, ctmp>>
      /\ locks' = [locks EXCEPT ![p.slot] = IF LastSlice(p) THEN 0 ELSE @ + 1]
      /\ IF LastSlice(p)
         THEN step' = [step EXCEPT ![c] = "store"] /\ UNCHANGED todo
         ELSE step' = [step EXCEPT ![c] = "next"] /\ TaskDone(c)
      /\ UNCHANGED <<rotA, cache13, cache2, output>>
  BY DEF PublishTurn, Busy, Working
<1>2. StepAt(c)
  BY DEF TurnInv, StepExact
<1>3. /\ Task(c).op = "tile" /\ p.slices > 1 /\ locks[p.slot] = p.slice
      /\ acc[c] = Terms(here, p.tile, p.k, KTiles(launch, here))
      /\ ~ LastSlice(p) => ctmp[here][p.slot] = acc[c]
  BY <1>1, <1>2 DEF StepAt
<1>4. /\ here \in GemmPhases /\ now \in Units(here, c) /\ Tile(here, c, now)
      /\ Current(c, here, now) /\ p = Piece(here, c, now) /\ launch \in Launches
      /\ ~ Done(c, here, now) /\ Opened(here) /\ at[c] = "run"
      /\ p.slices \in Nat /\ p.slice \in Nat /\ p.slice \in 0 .. p.slices - 1
      /\ p.k \in Nat /\ p.cnt \in Nat
      /\ p.slot \in 0 .. Cap - 1
  BY <1>1, <1>3, OnTile
<1>5. Awaited(here, c, now)
  BY <1>1, <1>3, <1>4 DEF Awaited, Published
<1>6. /\ locks'[p.slot] = IF LastSlice(p) THEN 0 ELSE p.slice + 1
      /\ \A s \in 0 .. Cap - 1 : s # p.slot => locks'[s] = locks[s]
      /\ DOMAIN locks' = 0 .. Cap - 1
  BY <1>1, <1>3, <1>4 DEF Buffers
<1>7. /\ DOMAIN step = members /\ DOMAIN acc = members
  BY DEF Shape
<1>8. /\ step'[c] = IF LastSlice(p) THEN "store" ELSE "next"
      /\ \A d \in members \ {c} : step'[d] = step[d] /\ todo'[d] = todo[d]
      /\ DOMAIN step' = members
  <2>1. CASE LastSlice(p)
    BY <1>1, <1>7, <2>1
  <2>2. CASE ~ LastSlice(p)
    BY <1>1, <1>7, <2>2, Crossed
  <2> QED
    BY <2>1, <2>2
<1>9. Shape'
  <2>1. CASE LastSlice(p)
    BY <1>1, <1>7, <1>8, <2>1, ShapeKept DEF Shape
  <2>2. CASE ~ LastSlice(p)
    BY <1>1, <1>7, <1>8, <2>2, CrossedShape
  <2> QED
    BY <2>1, <2>2
<1>10. Buffers'
  BY <1>1, <1>4, <1>6 DEF Buffers
\* who is done, and who has passed the turn on
<1>11. \A d \in members : \A ph, i :
          Done(d, ph, i)' <=> Done(d, ph, i) \/ (~ LastSlice(p) /\ d = c /\ ph = here /\ i = now)
  <2>1. CASE LastSlice(p)
    BY <1>1, <2>1, FrameDone
  <2>2. CASE ~ LastSlice(p)
    BY <1>1, <1>4, <2>2, Crossed DEF Current
  <2> QED
    BY <2>1, <2>2
<1>12. \A d \in members \ {c} : \A ph, i : Current(d, ph, i)' <=> Current(d, ph, i)
  BY <1>1, <1>8, Frame DEF Current, Working, Index
<1>13. ASSUME NEW d \in members, NEW ph, NEW i
       PROVE  Published(d, ph, i)' <=> Published(d, ph, i) \/ (d = c /\ ph = here /\ i = now)
  <2>1. CASE d # c
    BY <1>8, <1>11, <1>12, <2>1 DEF Published
  <2>2. CASE d = c /\ LastSlice(p)
    BY <1>1, <1>4, <1>8, <1>11, <2>2, FrameDone DEF Published, Current
  <2>3. CASE d = c /\ ~ LastSlice(p)
    BY <1>1, <1>4, <1>8, <1>11, <2>3 DEF Published, Current
  <2> QED
    BY <2>1, <2>2, <2>3
<1>14. ASSUME NEW d \in members, NEW ph \in GemmPhases, NEW i \in Units(ph, d)
       PROVE  Awaited(ph, d, i)' <=> Awaited(ph, d, i) /\ ~ (d = c /\ ph = here /\ i = now)
  BY <1>1, <1>13, Frame DEF Awaited
\* a slice that is waited for at another slot, or at this one
<1>15. ASSUME NEW d \in members, NEW ph \in GemmPhases, NEW i \in Units(ph, d), Awaited(ph, d, i)
       PROVE  /\ ph = here /\ Tile(ph, d, i) /\ Piece(ph, d, i).slices > 1
              /\ Piece(ph, d, i).slot \in 0 .. Cap - 1
              /\ Piece(ph, d, i).slice \in 0 .. Piece(ph, d, i).slices - 1
              /\ Piece(ph, d, i).slices \in Nat
  <2>1. ph = here
    BY <1>4, <1>15, AwaitedHere
  <2>2. IsTile(launch, ph, d, i) /\ PieceAt(launch, ph, d, i).slices > 1 /\ Tile(ph, d, i)
    BY <1>15 DEF Awaited, Tile, Piece
  <2>3. /\ PieceAt(launch, ph, d, i).slot \in 0 .. Cap - 1
        /\ PieceAt(launch, ph, d, i).slice \in 0 .. PieceAt(launch, ph, d, i).slices - 1
        /\ PieceAt(launch, ph, d, i).slices \in Nat
    BY <1>4, <2>2, TileType
  <2> QED
    BY <2>1, <2>2, <2>3 DEF Piece
<1>16. LocksAwaited'
  <2>1. ASSUME NEW s \in 0 .. Cap - 1, locks'[s] # 0
        PROVE  \E ph \in GemmPhases : \E d \in members : \E i \in Units(ph, d) :
                  Awaited(ph, d, i)' /\ Piece(ph, d, i).slot = s
    <3>1. CASE s # p.slot
      <4>1. locks[s] # 0
        BY <1>6, <2>1, <3>1
      <4>2. PICK ph \in GemmPhases : \E d \in members : \E i \in Units(ph, d) :
               Awaited(ph, d, i) /\ Piece(ph, d, i).slot = s
        BY <4>1 DEF TurnInv, LocksAwaited
      <4>3. PICK d \in members : \E i \in Units(ph, d) :
               Awaited(ph, d, i) /\ Piece(ph, d, i).slot = s
        BY <4>2
      <4>4. PICK i \in Units(ph, d) : Awaited(ph, d, i) /\ Piece(ph, d, i).slot = s
        BY <4>3
      <4>5. Awaited(ph, d, i)'
        BY <1>4, <1>14, <3>1, <4>4
      <4> QED
        BY <4>4, <4>5
    <3>2. CASE s = p.slot
      <4>1. ~ LastSlice(p)
        BY <1>6, <2>1, <3>2
      <4>2. /\ p.tile \in 0 .. launch.routes * NTiles(launch, here) - 1
            /\ p.tile \div NTiles(launch, here) \notin launch.dead
        <5>1. IsTile(launch, here, c, now) /\ p = PieceAt(launch, here, c, now)
          BY <1>4 DEF Tile, Piece
        <5> QED
          BY <1>4, <5>1, TileType
      <4>3. members = 0 .. Grid(launch) - 1
        BY DEF Shape
      <4>4. PICK d \in members : \E i \in Units(here, d) :
               /\ Tile(here, d, i) /\ Piece(here, d, i).tile = p.tile
               /\ LastSlice(Piece(here, d, i))
        BY <1>4, <4>2, <4>3, TileLast DEF Tile, Piece, Units
      <4>5. PICK i \in Units(here, d) :
               /\ Tile(here, d, i) /\ Piece(here, d, i).tile = p.tile
               /\ LastSlice(Piece(here, d, i))
        BY <4>4
      <4>6. Piece(here, d, i).slices = p.slices /\ Piece(here, d, i).slot = p.slot
        <5>1. IsTile(launch, here, c, now) /\ p = PieceAt(launch, here, c, now)
              /\ IsTile(launch, here, d, i) /\ Piece(here, d, i) = PieceAt(launch, here, d, i)
          BY <1>4, <4>5 DEF Tile, Piece
        <5> QED
          BY <1>3, <1>4, <4>5, <5>1, TilePair
      <4>7. Piece(here, d, i).slice > p.slice /\ Piece(here, d, i).slice \in Int
        BY <1>4, <4>1, <4>5, <4>6 DEF LastSlice
      <4>8. ~ Published(d, here, i)
        <5>1. Published(d, here, i) <=> Piece(here, d, i).slice < p.slice
          BY <1>3, <1>4, <1>5, <4>5 DEF TurnInv, LocksExact
        <5> QED
          BY <1>4, <4>7, <5>1
      <4>9. Awaited(here, d, i)
        BY <1>3, <1>4, <4>5, <4>6, <4>8 DEF Awaited
      <4>10. ~ (d = c /\ i = now)
        BY <1>4, <4>7
      <4>11. \A ph \in GemmPhases : ph = here => Awaited(ph, d, i)'
        BY <1>14, <4>9, <4>10
      <4> QED
        BY <1>4, <3>2, <4>6, <4>11
    <3> QED
      BY <3>1, <3>2
  <2> QED
    BY <1>1, <2>1, Frame DEF LocksAwaited
<1>17. LocksExact'
  <2>1. ASSUME NEW ph \in GemmPhases, NEW d \in members, NEW i \in Units(ph, d), Awaited(ph, d, i)',
               NEW e \in members, NEW j \in Units(ph, e), Tile(ph, e, j),
               Piece(ph, e, j).tile = Piece(ph, d, i).tile
        PROVE  Published(e, ph, j)' <=> Piece(ph, e, j).slice < locks'[Piece(ph, d, i).slot]
    <3>1. Awaited(ph, d, i) /\ ~ (d = c /\ ph = here /\ i = now)
      BY <1>14, <2>1
    <3>2. /\ ph = here /\ Tile(ph, d, i) /\ Piece(ph, d, i).slices > 1
          /\ Piece(ph, d, i).slot \in 0 .. Cap - 1
      BY <1>15, <3>1
    <3>3. Published(e, ph, j) <=> Piece(ph, e, j).slice < locks[Piece(ph, d, i).slot]
      BY <2>1, <3>1 DEF TurnInv, LocksExact
    <3>4. /\ Piece(ph, e, j).slices = Piece(ph, d, i).slices
          /\ Piece(ph, e, j).slot = Piece(ph, d, i).slot
          /\ Piece(ph, e, j).slice \in Int
      <4>1. /\ IsTile(launch, ph, e, j) /\ Piece(ph, e, j) = PieceAt(launch, ph, e, j)
            /\ IsTile(launch, ph, d, i) /\ Piece(ph, d, i) = PieceAt(launch, ph, d, i)
        BY <2>1, <3>2 DEF Tile, Piece
      <4>2. PieceAt(launch, ph, e, j).slice \in Int
        BY <1>4, <4>1, TileType
      <4> QED
        BY <1>4, <2>1, <3>2, <4>1, <4>2, TilePair
    <3>5. CASE Piece(ph, d, i).slot # p.slot
      <4>1. ~ (e = c /\ ph = here /\ j = now)
        BY <1>4, <3>4, <3>5
      <4> QED
        BY <1>6, <1>13, <3>2, <3>3, <3>5, <4>1
    <3>6. CASE Piece(ph, d, i).slot = p.slot
      <4>1. Piece(here, e, j).slice = p.slice => e = c /\ j = now
        BY <1>3, <1>4, <2>1, <3>2, <3>4, <3>6, SlotHolder
      <4>2. e = c /\ j = now => Piece(here, e, j).slice = p.slice
        BY <1>4
      <4>3. Published(e, ph, j) <=> Piece(ph, e, j).slice < p.slice
        BY <1>3, <3>3, <3>6
      <4>4. CASE ~ LastSlice(p)
        BY <1>4, <1>6, <1>13, <3>2, <3>4, <3>6, <4>1, <4>2, <4>3, <4>4
      <4>5. CASE LastSlice(p)
        <5>1. /\ Piece(here, d, i).slices = p.slices
              /\ Piece(here, d, i).slice = p.slice => d = c /\ i = now
          BY <1>3, <1>4, <3>2, <3>6, SlotHolder
        <5>2. /\ Piece(here, d, i).slice \in 0 .. p.slices - 1
          BY <1>15, <3>1, <3>2, <5>1
        <5>3. Piece(here, d, i).slice < p.slice
          BY <1>4, <3>1, <3>2, <4>5, <5>1, <5>2 DEF LastSlice
        <5>4. Published(d, here, i)
          BY <1>3, <3>1, <3>2, <3>6, <5>3 DEF TurnInv, LocksExact
        <5> QED
          BY <3>1, <3>2, <5>4 DEF Awaited
      <4> QED
        BY <4>4, <4>5
    <3> QED
      BY <3>5, <3>6
  <2> QED
    BY <1>1, <2>1, Frame DEF LocksExact
<1>18. ScratchExact'
  <2>1. ASSUME NEW ph \in GemmPhases, NEW d \in members, NEW i \in Units(ph, d), Awaited(ph, d, i)',
               Piece(ph, d, i).slice = locks'[Piece(ph, d, i).slot], Piece(ph, d, i).slice > 0,
               ~ (Current(d, ph, i)' /\ step'[d] = "publish")
        PROVE  ctmp[ph][Piece(ph, d, i).slot] =
                  Terms(ph, Piece(ph, d, i).tile, Piece(ph, d, i).k + Piece(ph, d, i).cnt, KTiles(launch, ph))
    <3>1. Awaited(ph, d, i) /\ ~ (d = c /\ ph = here /\ i = now)
      BY <1>14, <2>1
    <3>2. /\ ph = here /\ Tile(ph, d, i) /\ Piece(ph, d, i).slices > 1
          /\ Piece(ph, d, i).slot \in 0 .. Cap - 1
      BY <1>15, <3>1
    <3>3. CASE Piece(ph, d, i).slot # p.slot
      <4>1. ~ (Current(d, ph, i) /\ step[d] = "publish")
        BY <1>4, <1>8, <1>12, <2>1, <3>1 DEF Current
      <4>2. Piece(ph, d, i).slice = locks[Piece(ph, d, i).slot]
        BY <1>6, <2>1, <3>2, <3>3
      <4> QED
        BY <2>1, <3>1, <4>1, <4>2 DEF TurnInv, ScratchExact
    <3>4. CASE Piece(ph, d, i).slot = p.slot
      <4>1. ~ LastSlice(p) /\ Piece(here, d, i).slice = p.slice + 1
        BY <1>6, <2>1, <3>2, <3>4
      <4>2. Piece(here, d, i).tile = p.tile /\ Piece(here, d, i).k + Piece(here, d, i).cnt = p.k
        BY <1>3, <1>4, <3>2, <3>4, <4>1, SlotHolder
      <4> QED
        BY <1>3, <3>2, <3>4, <4>1, <4>2
    <3> QED
      BY <3>3, <3>4
  <2> QED
    BY <1>1, <2>1, Frame, FrameTerms DEF ScratchExact
\* where the CTAs are
<1>19. \A d \in members \ {c} : StepAt(d)'
  <2>1. ASSUME NEW d \in members \ {c}
        PROVE  StepAt(d)'
    <3>1. StepAt(d)
      BY DEF TurnInv, StepExact
    <3>2. ASSUME step[d] \in {"merge", "publish"}
          PROVE  locks'[Task(d).piece.slot] = locks[Task(d).piece.slot]
      <4>1. Working(d) /\ Task(d).op = "tile" /\ Task(d).piece.slices > 1
        BY <3>1, <3>2 DEF StepAt
      <4>2. Task(d).piece.slot \in 0 .. Cap - 1
        BY <4>1, OnTile
      <4>3. Task(d).piece.slot # p.slot
        BY <1>1, <3>2, Alone
      <4> QED
        BY <1>6, <4>2, <4>3
    <3> QED
      BY <1>1, <1>8, <3>1, <3>2, StepKept
  <2> QED
    BY <2>1
<1>20. StepAt(c)'
  <2>1. CASE LastSlice(p)
    <3>1. /\ Task(c)' = Task(c) /\ Working(c)' /\ Phase(c)' = Phase(c)
      BY <1>1, <2>1, Frame DEF Task, Index, Working
    <3>2. p.k = 0
      BY <1>1, <1>3, <2>1, OnTile
    <3>3. acc'[c] = Whole(launch, here, p.tile)
      BY <1>1, <1>3, <3>2, WholeIs
    <3> QED
      BY <1>1, <1>3, <1>8, <2>1, <3>1, <3>3, FrameTerms DEF StepAt, LastSlice
  <2>2. CASE ~ LastSlice(p)
    BY <1>8, <2>2 DEF StepAt
  <2> QED
    BY <2>1, <2>2
<1>21. StepExact'
  BY <1>1, <1>19, <1>20, Frame DEF StepExact
<1>22. \A ph \in GemmPhases : \A t : Stored(ph, t)' <=> Stored(ph, t)
  <2>1. ASSUME NEW ph \in GemmPhases, NEW d \in members, NEW i \in Units(ph, d),
               LastSlice(Piece(ph, d, i))
        PROVE  Done(d, ph, i)' <=> Done(d, ph, i)
    BY <1>4, <1>11, <2>1
  <2> QED
    BY <1>1, <2>1, Frame DEF Stored
<1>23. \A d \in members : \A ph, i : ~ Tile(ph, d, i) => (Done(d, ph, i)' <=> Done(d, ph, i))
  BY <1>4, <1>11
<1> QED
  BY <1>9, <1>10, <1>16, <1>17, <1>18, <1>21, <1>22, <1>23 DEF TurnInv

\* The finished tile is stored.
LEMMA StoreTurns ==
  ASSUME Stages, Shape, BarrierInv, TurnInv, NEW c \in members, Store(c)
  PROVE  /\ Shape' /\ TurnInv'
         /\ Working(c) /\ Task(c).op = "tile" /\ LastSlice(Task(c).piece)
         /\ acc[c] = Whole(launch, Phase(c), Task(c).piece.tile)
         /\ \A ph \in GemmPhases : \A t :
               Stored(ph, t)' <=> Stored(ph, t) \/ (ph = Phase(c) /\ t = Task(c).piece.tile)
         /\ \A d \in members : \A ph, i : ~ Tile(ph, d, i) => (Done(d, ph, i)' <=> Done(d, ph, i))
<1> DEFINE p == Task(c).piece
           here == Phase(c)
           now == Index(c)
<1>1. /\ Working(c) /\ step[c] = "store"
      /\ UNCHANGED <<barrierVars, launch, number, acc, locks, ctmp>>
      /\ step' = [step EXCEPT ![c] = "next"] /\ TaskDone(c)
  BY DEF Store, Busy, Working
<1>2. StepAt(c)
  BY DEF TurnInv, StepExact
<1>3. Task(c).op = "tile" /\ LastSlice(p) /\ acc[c] = Whole(launch, here, p.tile)
  BY <1>1, <1>2 DEF StepAt
<1>4. /\ here \in GemmPhases /\ now \in Units(here, c) /\ Tile(here, c, now)
      /\ Current(c, here, now) /\ p = Piece(here, c, now) /\ launch \in Launches
  BY <1>1, <1>3, OnTile
<1>5. /\ DOMAIN step = members /\ DOMAIN acc = members
  BY DEF Shape
<1>6. /\ step'[c] = "next"
      /\ \A d \in members \ {c} : step'[d] = step[d] /\ todo'[d] = todo[d]
      /\ DOMAIN step' = members
  BY <1>1, <1>5, Crossed
<1>7. Shape'
  BY <1>1, <1>5, <1>6, CrossedShape DEF Shape
<1>8. \A d \in members : \A ph, i :
          Done(d, ph, i)' <=> Done(d, ph, i) \/ (d = c /\ ph = here /\ i = now)
  BY <1>1, <1>4, Crossed DEF Current
<1>9. \A d \in members \ {c} : \A ph, i : Current(d, ph, i)' <=> Current(d, ph, i)
  BY <1>1, <1>6, Frame DEF Current, Working, Index
<1>10. ASSUME NEW d \in members, NEW ph, NEW i
       PROVE  Published(d, ph, i)' <=> Published(d, ph, i)
  <2>1. CASE d # c
    BY <1>6, <1>8, <1>9, <2>1 DEF Published
  <2>2. CASE d = c
    BY <1>1, <1>4, <1>6, <1>8, <2>2 DEF Published, Current
  <2> QED
    BY <2>1, <2>2
<1>11. TurnsSame
  BY <1>10 DEF TurnsSame
<1>12. LocksAwaited' /\ LocksExact'
  BY <1>1, <1>11, LocksKept DEF TurnInv
<1>13. ScratchExact'
  <2>1. \A ph \in GemmPhases : \A d \in members : \A i \in Units(ph, d) :
           Awaited(ph, d, i) /\ Current(d, ph, i) /\ step[d] = "publish"
              => Current(d, ph, i)' /\ step'[d] = "publish"
    BY <1>1, <1>6, <1>9
  <2> QED
    BY <1>1, <1>11, <2>1, ScratchKept DEF TurnInv
<1>14. \A d \in members \ {c} : StepAt(d)'
  BY <1>1, <1>6, StepKept DEF TurnInv, StepExact
<1>15. StepExact'
  BY <1>1, <1>6, <1>14, Frame DEF StepExact, StepAt
<1>16. ASSUME NEW ph \in GemmPhases, NEW t
       PROVE  Stored(ph, t)' <=> Stored(ph, t) \/ (ph = here /\ t = p.tile)
  <2>1. Stored(ph, t)' <=> \E d \in members : \E i \in Units(ph, d) :
                              /\ Tile(ph, d, i) /\ Piece(ph, d, i).tile = t
                              /\ LastSlice(Piece(ph, d, i)) /\ Done(d, ph, i)'
    BY <1>1, Frame DEF Stored
  <2> QED
    BY <1>3, <1>4, <1>8, <2>1 DEF Stored
<1>17. \A d \in members : \A ph, i : ~ Tile(ph, d, i) => (Done(d, ph, i)' <=> Done(d, ph, i))
  BY <1>4, <1>8
<1> QED
  BY <1>1, <1>3, <1>7, <1>12, <1>13, <1>15, <1>16, <1>17 DEF TurnInv

-----------------------------------------------------------------------------
(* What the units leave in the intermediates and in the output *)

CollectedSame == \A u : Collected(u)' = Collected(u)

LEMMA CollectedKept ==
  ASSUME UNCHANGED <<barrierVars, launch, number>>,
         \A t : Stored("fc2", t)' <=> Stored("fc2", t)
  PROVE  CollectedSame
BY Frame, FrameTerms DEF CollectedSame, Collected

\* Each part of Data speaks of one buffer and of the units that write it.
LEMMA PartsKept ==
  ASSUME Data, UNCHANGED <<barrierVars, launch, number>>
  PROVE  /\ UNCHANGED rotA /\ (\A d \in members : \A i : Done(d, "rotate", i)' => Done(d, "rotate", i))
               => RotatedIn'
         /\ UNCHANGED cache13 /\ (\A t : Stored("fc1", t)' => Stored("fc1", t)) => Fc1Gated'
         /\ UNCHANGED cache2 /\ (\A t : Stored("fc1", t)' => Stored("fc1", t)) => Fc1Plain'
         /\ UNCHANGED cache2 /\ (\A d \in members : \A i : Done(d, "act", i)' => Done(d, "act", i))
               => Activated'
         /\ UNCHANGED cache13 /\ (\A d \in members : \A i : Done(d, "zero", i)' => Done(d, "zero", i))
               => Zeroed'
         /\ UNCHANGED cache13 /\ (\A t : Stored("fc2", t)' => Stored("fc2", t)) => Fc2Rows'
         /\ UNCHANGED output /\ CollectedSame
               /\ (\A d \in members : \A i : ~ Tile("fc1", d, i) /\ Done(d, "fc1", i)' => Done(d, "fc1", i))
               => Cleared'
<1>1. UNCHANGED rotA /\ (\A d \in members : \A i : Done(d, "rotate", i)' => Done(d, "rotate", i))
         => RotatedIn'
  BY Frame DEF Data, RotatedIn
<1>2. UNCHANGED cache13 /\ (\A t : Stored("fc1", t)' => Stored("fc1", t)) => Fc1Gated'
  BY Frame, FrameTerms DEF Data, Fc1Gated
<1>3. UNCHANGED cache2 /\ (\A t : Stored("fc1", t)' => Stored("fc1", t)) => Fc1Plain'
  BY Frame DEF Data, Fc1Plain
<1>4. UNCHANGED cache2 /\ (\A d \in members : \A i : Done(d, "act", i)' => Done(d, "act", i))
         => Activated'
  BY Frame DEF Data, Activated
<1>5. UNCHANGED cache13 /\ (\A d \in members : \A i : Done(d, "zero", i)' => Done(d, "zero", i))
         => Zeroed'
  BY Frame DEF Data, Zeroed, ZeroFc2
<1>6. UNCHANGED cache13 /\ (\A t : Stored("fc2", t)' => Stored("fc2", t)) => Fc2Rows'
  BY Frame, FrameTerms DEF Data, Fc2Rows
<1>7. UNCHANGED output /\ CollectedSame
         /\ (\A d \in members : \A i : ~ Tile("fc1", d, i) /\ Done(d, "fc1", i)' => Done(d, "fc1", i))
         => Cleared'
  BY Frame DEF Data, Cleared, CollectedSame, Tile, IsTile
<1> QED
  BY <1>1, <1>2, <1>3, <1>4, <1>5, <1>6, <1>7

LEMMA DataKept ==
  ASSUME Data, UNCHANGED <<barrierVars, launch, number, rotA, cache13, cache2, output>>,
         \A ph \in GemmPhases : \A t : Stored(ph, t)' <=> Stored(ph, t),
         \A d \in members : \A ph, i : ~ Tile(ph, d, i) => (Done(d, ph, i)' <=> Done(d, ph, i))
  PROVE  Data'
<1>1. CollectedSame
  BY CollectedKept DEF GemmPhases
<1>2. \A d \in members : \A i : /\ Done(d, "rotate", i)' => Done(d, "rotate", i)
                                /\ Done(d, "act", i)' => Done(d, "act", i)
                                /\ Done(d, "zero", i)' => Done(d, "zero", i)
  BY DEF Tile, IsTile, GemmPhases
<1>3. \A t : /\ Stored("fc1", t)' <=> Stored("fc1", t)
             /\ Stored("fc2", t)' <=> Stored("fc2", t)
  BY DEF GemmPhases
<1> QED
  BY <1>1, <1>2, <1>3, PartsKept DEF Data

\* While a CTA is in a phase nobody has begun a later one.
LEMMA NotBegun ==
  ASSUME Stages, Shape, BarrierInv, NEW c \in members, at[c] = "run",
         NEW ph \in PhaseNames, Rank(Phase(c)) < Rank(ph)
  PROVE  /\ \A d \in members : \A i : ~ Done(d, ph, i)
         /\ \A t : ~ Stored(ph, t)
<1>1. \A d \in members : Rank(Phase(d)) <= Rank(Phase(c)) /\ Rank(Phase(d)) \in Nat
  BY Synchronous, PhaseIn
<1>2. Rank(ph) \in Nat
  BY RankType
<1>3. \A d \in members : \A i : ~ Done(d, ph, i)
  BY <1>1, <1>2 DEF Done
<1> QED
  BY <1>3 DEF Stored

LEMMA NoneCollected ==
  ASSUME \A t : ~ Stored("fc2", t), NEW u
  PROVE  Collected(u) = {}
BY DEF Collected

LEMMA RankIs ==
  /\ Rank("rotate") = 1 /\ Rank("fc1") = 2 /\ Rank("act") = 3 /\ Rank("zero") = 4 /\ Rank("fc2") = 5
BY DEF Rank

\* The cells a unit writes are cells of the buffers.
LEMMA UnitCellsIn ==
  ASSUME NEW l \in Launches, NEW op \in {"rotate", "clear", "act", "zero"}, NEW u \in UnitCells(l, op)
  PROVE  u \in Cells
<1>1. l.routes \in Nat \ {0} /\ l.n1 \in Nat \ {0} /\ l.n2 \in Nat \ {0} /\ l.k2 \in Nat \ {0}
  BY LaunchType
<1>2. CASE op = "rotate"
  <2>1. u \in 0 .. l.routes - 1
    BY <1>2 DEF UnitCells
  <2>2. l.routes <= l.routes * l.n1 /\ l.routes * l.n1 \in Int
    BY <1>1
  <2>3. u \in 0 .. l.routes * l.n1 - 1
    BY <1>1, <2>1, <2>2
  <2> QED
    BY <2>3, CellsIn
<1>3. CASE op = "clear"
  <2>1. u \in 0 .. (l.routes \div l.topk) * l.n2 - 1
    BY <1>3 DEF UnitCells
  <2>2. u \in 0 .. l.routes * l.n2 - 1
    BY <2>1, Sizes
  <2> QED
    BY <2>2, CellsIn
<1>4. CASE op = "act"
  BY <1>4, CellsIn DEF UnitCells
<1>5. CASE op = "zero"
  BY <1>5, CellsIn DEF UnitCells
<1> QED
  BY <1>2, <1>3, <1>4, <1>5

\* A unit that is not a tile, of the phase it belongs to.
LEMMA OnUnit ==
  ASSUME Stages, Shape, BarrierInv, NEW c \in members, NEW op \in {"rotate", "clear", "act", "zero"},
         Working(c), Task(c).op = op, TaskDone(c), UNCHANGED <<barrierVars, launch>>
  PROVE  /\ Phase(c) = UnitPhase(op) /\ at[c] = "run" /\ launch \in Launches
         /\ Task(c).cell \in UnitCells(launch, op) /\ Task(c).cell \in Cells
         /\ Index(c) \in Units(Phase(c), c)
         /\ Task(c) = Work(launch, Phase(c), c)[Index(c)]
         /\ HasPhase(launch, Phase(c))
         /\ \A d \in members : \A ph, i :
               Done(d, ph, i)' <=> Done(d, ph, i) \/ (d = c /\ ph = Phase(c) /\ i = Index(c))
<1>1. Phase(c) = UnitPhase(op) /\ at[c] = "run" /\ Task(c).cell \in UnitCells(launch, op)
      /\ Index(c) \in Units(Phase(c), c) /\ Task(c) = Work(launch, Phase(c), c)[Index(c)]
  BY TaskIs
<1>2. launch \in Launches /\ HasPhase(launch, Phase(c))
  BY PhaseIn
<1>3. Task(c).cell \in Cells
  BY <1>1, <1>2, UnitCellsIn
<1> QED
  BY <1>1, <1>2, <1>3, Crossed DEF Current

LEMMA RotateKernel ==
  ASSUME Stages, Buffers, Shape, BarrierInv, TurnInv, Data, NEW c \in members, Rotate(c)
  PROVE  Shape' /\ TurnInv' /\ Data' /\ Buffers'
<1> DEFINE u == Task(c).cell
<1>1. /\ Working(c) /\ step[c] = "next" /\ Task(c).op = "rotate" /\ TaskDone(c)
      /\ rotA' = [rotA EXCEPT ![u] = number]
      /\ UNCHANGED <<barrierVars, launch, number, step, acc, locks, ctmp, cache13, cache2, output>>
  BY DEF Rotate, Unit, Busy, Working
<1>2. Shape' /\ TurnInv' /\ \A ph \in GemmPhases : \A t : Stored(ph, t)' <=> Stored(ph, t)
  BY <1>1, UnitTurns
<1>3. /\ Phase(c) = "rotate" /\ at[c] = "run" /\ u \in Cells
      /\ Index(c) \in Units(Phase(c), c)
      /\ Task(c) = Work(launch, Phase(c), c)[Index(c)]
      /\ \A d \in members : \A ph, i :
            Done(d, ph, i)' <=> Done(d, ph, i) \/ (d = c /\ ph = Phase(c) /\ i = Index(c))
  BY <1>1, OnUnit DEF UnitPhase
<1>4. rotA'[u] = number /\ DOMAIN rotA' = Cells /\ \A v \in Cells : v # u => rotA'[v] = rotA[v]
  BY <1>1, <1>3 DEF Buffers
<1>5. RotatedIn'
  <2>1. ASSUME NEW d \in members, NEW i \in Units("rotate", d), launch.rotate, Done(d, "rotate", i)'
        PROVE  rotA'[Work(launch, "rotate", d)[i].cell] = number
    <3>1. CASE d = c /\ i = Index(c)
      BY <1>3, <1>4, <3>1
    <3>2. CASE ~ (d = c /\ i = Index(c))
      <4>1. rotA[Work(launch, "rotate", d)[i].cell] = number
        BY <1>3, <2>1, <3>2 DEF Data, RotatedIn
      <4>2. Work(launch, "rotate", d)[i].cell # u => Work(launch, "rotate", d)[i].cell \in Cells
        <5>1. d \in 0 .. Grid(launch) - 1 /\ launch \in Launches
          BY PhaseIn
        <5>2. Work(launch, "rotate", d)[i].op = "rotate"
          BY <5>1, UnitIs, <2>1 DEF Units, GemmPhases, UnitPhase, PhaseNames
        <5>3. Work(launch, "rotate", d)[i].cell \in UnitCells(launch, "rotate")
          BY <5>1, <5>2, UnitIs, <2>1 DEF Units, PhaseNames
        <5> QED
          BY <5>1, <5>3, UnitCellsIn
      <4> QED
        BY <1>4, <4>1, <4>2
    <3> QED
      BY <3>1, <3>2
  <2> QED
    BY <1>1, <2>1, Frame DEF RotatedIn
<1>6. CollectedSame
  BY <1>1, <1>2, CollectedKept DEF GemmPhases
<1>7. /\ \A t : (Stored("fc1", t)' <=> Stored("fc1", t)) /\ (Stored("fc2", t)' <=> Stored("fc2", t))
      /\ \A d \in members : \A i : /\ Done(d, "act", i)' <=> Done(d, "act", i)
                                   /\ Done(d, "zero", i)' <=> Done(d, "zero", i)
                                   /\ Done(d, "fc1", i)' <=> Done(d, "fc1", i)
  BY <1>2, <1>3 DEF GemmPhases
<1>8. Data'
  BY <1>1, <1>5, <1>6, <1>7, PartsKept DEF Data
<1>9. Buffers'
  BY <1>1, <1>4 DEF Buffers
<1> QED
  BY <1>2, <1>8, <1>9

LEMMA ClearKernel ==
  ASSUME Stages, Buffers, Shape, BarrierInv, TurnInv, Data, NEW c \in members, Clear(c)
  PROVE  Shape' /\ TurnInv' /\ Data' /\ Buffers'
<1> DEFINE u == Task(c).cell
<1>1. /\ Working(c) /\ step[c] = "next" /\ Task(c).op = "clear" /\ TaskDone(c)
      /\ output' = [output EXCEPT ![u] = {}]
      /\ UNCHANGED <<barrierVars, launch, number, step, acc, locks, ctmp, rotA, cache13, cache2>>
  BY DEF Clear, Unit, Busy, Working
<1>2. Shape' /\ TurnInv' /\ \A ph \in GemmPhases : \A t : Stored(ph, t)' <=> Stored(ph, t)
  BY <1>1, UnitTurns
<1>3. /\ Phase(c) = "fc1" /\ at[c] = "run" /\ u \in Cells
      /\ Index(c) \in Units(Phase(c), c)
      /\ Task(c) = Work(launch, Phase(c), c)[Index(c)]
      /\ \A d \in members : \A ph, i :
            Done(d, ph, i)' <=> Done(d, ph, i) \/ (d = c /\ ph = Phase(c) /\ i = Index(c))
  BY <1>1, OnUnit DEF UnitPhase
<1>4. output'[u] = {} /\ DOMAIN output' = Cells /\ \A v \in Cells : v # u => output'[v] = output[v]
  BY <1>1, <1>3 DEF Buffers
<1>5. \A t : ~ Stored("fc2", t)
  BY <1>3, NotBegun, RankIs DEF PhaseNames
<1>6. CollectedSame
  BY <1>1, <1>2, CollectedKept DEF GemmPhases
<1>7. Cleared'
  <2>1. ASSUME NEW d \in members, NEW i \in Units("fc1", d),
               Work(launch, "fc1", d)[i].op = "clear", Done(d, "fc1", i)'
        PROVE  output'[Work(launch, "fc1", d)[i].cell] = {}
    <3>1. CASE d = c /\ i = Index(c)
      BY <1>3, <1>4, <3>1
    <3>2. CASE ~ (d = c /\ i = Index(c))
      <4>1. output[Work(launch, "fc1", d)[i].cell] = Collected(Work(launch, "fc1", d)[i].cell)
        BY <1>3, <2>1, <3>2 DEF Data, Cleared
      <4>2. output[Work(launch, "fc1", d)[i].cell] = {}
        BY <1>5, <4>1, NoneCollected
      <4>3. Work(launch, "fc1", d)[i].cell \in Cells
        <5>1. d \in 0 .. Grid(launch) - 1 /\ launch \in Launches
          BY PhaseIn
        <5>2. Work(launch, "fc1", d)[i].cell \in UnitCells(launch, "clear")
          BY <5>1, UnitIs, <2>1 DEF Units, PhaseNames
        <5> QED
          BY <5>1, <5>2, UnitCellsIn
      <4> QED
        BY <1>4, <4>2, <4>3
    <3> QED
      BY <3>1, <3>2
  <2>2. \A v : Collected(v)' = {}
    BY <1>5, <1>6, NoneCollected DEF CollectedSame
  <2>3. members' = members /\ launch' = launch /\ \A ph, d : Units(ph, d)' = Units(ph, d)
    BY <1>1, Frame
  <2> QED
    BY <2>1, <2>2, <2>3 DEF Cleared
<1>8. /\ \A t : (Stored("fc1", t)' <=> Stored("fc1", t)) /\ (Stored("fc2", t)' <=> Stored("fc2", t))
      /\ \A d \in members : \A i : /\ Done(d, "act", i)' <=> Done(d, "act", i)
                                   /\ Done(d, "zero", i)' <=> Done(d, "zero", i)
                                   /\ Done(d, "rotate", i)' <=> Done(d, "rotate", i)
  BY <1>2, <1>3 DEF GemmPhases
<1>9. Data'
  BY <1>1, <1>7, <1>8, PartsKept DEF Data
<1>10. Buffers'
  BY <1>1, <1>4 DEF Buffers
<1> QED
  BY <1>2, <1>9, <1>10

\* The rows whose expert is not local apart, the activation finds its sources.
LEMMA SourcesReady ==
  ASSUME Stages, Shape, BarrierInv, Data, NEW c \in members, at[c] = "run", Phase(c) = "act",
         NEW u \in 0 .. launch.routes * launch.k2 - 1, u \div launch.k2 \notin launch.dead,
         NEW t \in Fc1Sources(launch, u)
  PROVE  cache13[t] = Whole(launch, "fc1", t)
<1> DEFINE l == launch
           r == u \div l.k2
           b == u % l.k2
<1>1. /\ l \in Launches /\ HasPhase(l, "act")
  BY PhaseIn
<1>2. /\ l.gated /\ l.n1 = 2 * l.k2 /\ l.k2 \in Nat \ {0} /\ l.n1 \in Nat \ {0} /\ l.routes \in Nat \ {0}
  BY <1>1, PhaseOf, LaunchType
<1>3. PICK x \in (IF l.coupled THEN {2 * b, 2 * b + 1} ELSE {b, b + l.k2}) : t = r * l.n1 + x
  BY DEF Fc1Sources
<1>4. /\ u \in Nat /\ r \in Int /\ l.k2 * r <= u /\ u < l.k2 * r + l.k2 /\ b \in 0 .. l.k2 - 1
  <2>1. u \in Int /\ u \in Nat
    BY <1>2
  <2>2. r \in Int /\ l.k2 * r <= u /\ u < l.k2 * r + l.k2
    BY <1>2, <2>1, Division
  <2>3. b \in 0 .. l.k2 - 1
    BY <1>2, <2>1, Remainder
  <2> QED
    BY <2>1, <2>2, <2>3
<1>5. u < l.routes * l.k2
  BY <1>2
<1>6. x \in 0 .. l.n1 - 1
  <2>1. b \in Int /\ 0 <= b /\ b <= l.k2 - 1
    BY <1>4
  <2> HIDE DEF b, l
  <2> QED
    BY <1>2, <1>3, <2>1
<1>7. r \in 0 .. l.routes - 1
  <2> HIDE DEF r, l
  <2>1. l.k2 * 0 < l.k2 * r + l.k2 /\ l.k2 * r < l.k2 * l.routes
    BY <1>2, <1>4, <1>5
  <2>2. 0 <= r /\ r < l.routes
    BY <1>2, <1>4, <2>1, Ordered
  <2> QED
    BY <1>2, <1>4, <2>2
<1>8. t \in 0 .. l.routes * l.n1 - 1 /\ t \div l.n1 = r
  <2> HIDE DEF r, l
  <2>1. r + 1 <= l.routes /\ r \in Nat
    BY <1>2, <1>7
  <2>2. l.n1 * r \in Nat /\ l.n1 * r + l.n1 <= l.n1 * l.routes
    <3>1. l.n1 * r \in Nat
      BY <1>2, <2>1
    <3>2. r \in Int /\ l.routes \in Int /\ r < l.routes
      BY <1>2, <2>1
    <3> QED
      BY <1>2, <3>1, <3>2, Steps
  <2>3. t \in Int /\ l.n1 * r <= t /\ t < l.n1 * r + l.n1
    BY <1>2, <1>3, <1>6, <2>1, <2>2
  <2>4. t \div l.n1 = r
    <3>1. l.n1 \in Nat \ {0} /\ r \in Int
      BY <1>2, <2>1
    <3> QED
      BY <2>3, <3>1, Quotient
  <2>5. l.n1 * l.routes = l.routes * l.n1 /\ l.n1 * l.routes \in Int
    BY <1>2
  <2>6. 0 <= t /\ t < l.n1 * l.routes
    BY <1>2, <2>2, <2>3, <2>5
  <2> QED
    BY <2>3, <2>4, <2>5, <2>6
<1>9. Stored("fc1", t)
  <2>1. NTiles(l, "fc1") = l.n1
    BY DEF NTiles
  <2>2. Rank("fc1") < Rank(Phase(c))
    BY RankIs
  <2> QED
    BY <1>8, <2>1, <2>2, AllStored DEF GemmPhases
<1>10. t \in Cells
  BY <1>1, <1>8, CellsIn
<1>11. \A d \in members : Rank(Phase(d)) <= Rank("act")
  BY Synchronous
<1> QED
  BY <1>2, <1>9, <1>10, <1>11 DEF Data, Fc1Gated

LEMMA ActivateKernel ==
  ASSUME Stages, Buffers, Shape, BarrierInv, TurnInv, Data, NEW c \in members, Activate(c)
  PROVE  Shape' /\ TurnInv' /\ Data' /\ Buffers'
<1> DEFINE u == Task(c).cell
           good == \A t \in Fc1Sources(launch, u) : cache13[t] = Whole(launch, "fc1", t)
<1>1. /\ Working(c) /\ step[c] = "next" /\ Task(c).op = "act" /\ TaskDone(c)
      /\ cache2' = [cache2 EXCEPT ![u] = IF good THEN number ELSE 0]
      /\ UNCHANGED <<barrierVars, launch, number, step, acc, locks, ctmp, rotA, cache13, output>>
  BY DEF Activate, Unit, Busy, Working
<1>2. Shape' /\ TurnInv' /\ \A ph \in GemmPhases : \A t : Stored(ph, t)' <=> Stored(ph, t)
  BY <1>1, UnitTurns
<1>3. /\ Phase(c) = "act" /\ at[c] = "run" /\ u \in Cells /\ u \in UnitCells(launch, "act")
      /\ Index(c) \in Units(Phase(c), c)
      /\ Task(c) = Work(launch, Phase(c), c)[Index(c)]
      /\ launch \in Launches /\ HasPhase(launch, Phase(c))
      /\ \A d \in members : \A ph, i :
            Done(d, ph, i)' <=> Done(d, ph, i) \/ (d = c /\ ph = Phase(c) /\ i = Index(c))
  BY <1>1, OnUnit DEF UnitPhase
<1>4. u \div launch.k2 \notin launch.dead => good
  <2>1. u \in 0 .. launch.routes * launch.k2 - 1
    BY <1>3 DEF UnitCells
  <2> QED
    BY <1>3, <2>1, SourcesReady
<1> HIDE DEF good
<1>5. /\ cache2'[u] = IF good THEN number ELSE 0
      /\ DOMAIN cache2' = Cells /\ \A v \in Cells : v # u => cache2'[v] = cache2[v]
  BY <1>1, <1>3 DEF Buffers
<1>6. launch.gated
  BY <1>3, PhaseOf
<1>7. Activated'
  <2>1. ASSUME NEW d \in members, NEW i \in Units("act", d), Done(d, "act", i)',
               Work(launch, "act", d)[i].cell \div launch.k2 \notin launch.dead
        PROVE  cache2'[Work(launch, "act", d)[i].cell] = number
    <3>1. CASE Work(launch, "act", d)[i].cell = u
      BY <1>4, <1>5, <2>1, <3>1
    <3>2. CASE Work(launch, "act", d)[i].cell # u
      <4>1. ~ (d = c /\ i = Index(c))
        BY <1>3, <3>2
      <4>2. cache2[Work(launch, "act", d)[i].cell] = number
        BY <1>3, <1>6, <2>1, <4>1 DEF Data, Activated
      <4>3. Work(launch, "act", d)[i].cell \in Cells
        <5>1. d \in 0 .. Grid(launch) - 1 /\ launch \in Launches
          BY PhaseIn
        <5>2. Work(launch, "act", d)[i].op = "act"
          BY <5>1, UnitIs, <2>1 DEF Units, GemmPhases, UnitPhase, PhaseNames
        <5>3. Work(launch, "act", d)[i].cell \in UnitCells(launch, "act")
          BY <5>1, <5>2, UnitIs, <2>1 DEF Units, PhaseNames
        <5> QED
          BY <5>1, <5>3, UnitCellsIn
      <4> QED
        BY <1>5, <3>2, <4>2, <4>3
    <3> QED
      BY <3>1, <3>2
  <2> QED
    BY <1>1, <2>1, Frame DEF Activated
<1>8. CollectedSame
  BY <1>1, <1>2, CollectedKept DEF GemmPhases
<1>9. /\ \A t : (Stored("fc1", t)' <=> Stored("fc1", t)) /\ (Stored("fc2", t)' <=> Stored("fc2", t))
      /\ \A d \in members : \A i : /\ Done(d, "fc1", i)' <=> Done(d, "fc1", i)
                                   /\ Done(d, "zero", i)' <=> Done(d, "zero", i)
                                   /\ Done(d, "rotate", i)' <=> Done(d, "rotate", i)
  BY <1>2, <1>3 DEF GemmPhases
<1>10. Fc1Plain'
  BY <1>1, <1>6 DEF Fc1Plain
<1>11. Data'
  BY <1>1, <1>7, <1>8, <1>9, <1>10, PartsKept DEF Data
<1>12. Buffers'
  BY <1>1, <1>5 DEF Buffers
<1> QED
  BY <1>2, <1>11, <1>12

LEMMA ZeroKernel ==
  ASSUME Stages, Buffers, Shape, BarrierInv, TurnInv, Data, NEW c \in members, Zero(c)
  PROVE  Shape' /\ TurnInv' /\ Data' /\ Buffers'
<1> DEFINE u == Task(c).cell
<1>1. /\ Working(c) /\ step[c] = "next" /\ Task(c).op = "zero" /\ TaskDone(c)
      /\ cache13' = [cache13 EXCEPT ![u] = {}]
      /\ UNCHANGED <<barrierVars, launch, number, step, acc, locks, ctmp, rotA, cache2, output>>
  BY DEF Zero, Unit, Busy, Working
<1>2. Shape' /\ TurnInv' /\ \A ph \in GemmPhases : \A t : Stored(ph, t)' <=> Stored(ph, t)
  BY <1>1, UnitTurns
<1>3. /\ Phase(c) = "zero" /\ at[c] = "run" /\ u \in Cells
      /\ Index(c) \in Units(Phase(c), c)
      /\ Task(c) = Work(launch, Phase(c), c)[Index(c)]
      /\ \A d \in members : \A ph, i :
            Done(d, ph, i)' <=> Done(d, ph, i) \/ (d = c /\ ph = Phase(c) /\ i = Index(c))
  BY <1>1, OnUnit DEF UnitPhase
<1>4. cache13'[u] = {} /\ DOMAIN cache13' = Cells /\ \A v \in Cells : v # u => cache13'[v] = cache13[v]
  BY <1>1, <1>3 DEF Buffers
<1>5. \A t : ~ Stored("fc2", t)
  BY <1>3, NotBegun, RankIs DEF PhaseNames
<1>6. Zeroed'
  <2>1. ASSUME NEW d \in members, NEW i \in Units("zero", d), ZeroFc2(launch), Done(d, "zero", i)',
               Work(launch, "zero", d)[i].cell \div launch.n2 \in launch.dead
        PROVE  cache13'[Work(launch, "zero", d)[i].cell] = {}
    <3>1. CASE d = c /\ i = Index(c)
      BY <1>3, <1>4, <3>1
    <3>2. CASE ~ (d = c /\ i = Index(c))
      <4>1. cache13[Work(launch, "zero", d)[i].cell] = {}
        BY <1>3, <2>1, <3>2 DEF Data, Zeroed
      <4>2. Work(launch, "zero", d)[i].cell \in Cells
        <5>1. d \in 0 .. Grid(launch) - 1 /\ launch \in Launches
          BY PhaseIn
        <5>2. Work(launch, "zero", d)[i].op = "zero"
          BY <5>1, UnitIs, <2>1 DEF Units, GemmPhases, UnitPhase, PhaseNames
        <5>3. Work(launch, "zero", d)[i].cell \in UnitCells(launch, "zero")
          BY <5>1, <5>2, UnitIs, <2>1 DEF Units, PhaseNames
        <5> QED
          BY <5>1, <5>3, UnitCellsIn
      <4> QED
        BY <1>4, <4>1, <4>2
    <3> QED
      BY <3>1, <3>2
  <2> QED
    BY <1>1, <2>1, Frame DEF Zeroed, ZeroFc2
<1>7. CollectedSame
  BY <1>1, <1>2, CollectedKept DEF GemmPhases
<1>8. /\ \A t : (Stored("fc1", t)' <=> Stored("fc1", t)) /\ (Stored("fc2", t)' <=> Stored("fc2", t))
      /\ \A d \in members : \A i : /\ Done(d, "fc1", i)' <=> Done(d, "fc1", i)
                                   /\ Done(d, "act", i)' <=> Done(d, "act", i)
                                   /\ Done(d, "rotate", i)' <=> Done(d, "rotate", i)
  BY <1>2, <1>3 DEF GemmPhases
<1>9. Fc1Gated'
  <2>1. ~ (Rank(Phase(c)) <= Rank("act"))
    BY <1>3, RankIs
  <2>2. members' = members /\ Phase(c)' = Phase(c)
    BY <1>1, Frame
  <2> QED
    BY <2>1, <2>2 DEF Fc1Gated
<1>10. Fc2Rows'
  BY <1>5, <1>8 DEF Fc2Rows
<1>11. Data'
  BY <1>1, <1>6, <1>7, <1>8, <1>9, <1>10, PartsKept DEF Data
<1>12. Buffers'
  BY <1>1, <1>4 DEF Buffers
<1> QED
  BY <1>2, <1>11, <1>12

\* The cell of the output a tile of FC2 adds into, and no other.
SumCell(t) == ((t \div launch.n2) \div launch.topk) * launch.n2 + (t % launch.n2)

LEMMA SumCellIs ==
  ASSUME launch \in Launches, NEW t \in 0 .. launch.routes * launch.n2 - 1, NEW u \in Nat
  PROVE  t \in TilesInto(u) <=> u = SumCell(t)
<1> DEFINE n == launch.n2
           r == t \div n
           m == t % n
           k == r \div launch.topk
<1>1. n \in Nat \ {0} /\ launch.topk \in Nat \ {0} /\ launch.routes \in Nat \ {0} /\ t \in Int /\ u \in Int
      /\ 0 <= t /\ t < launch.routes * n
  BY LaunchType
<1>2. r \in Int /\ n * r <= t /\ t < n * r + n /\ m \in 0 .. n - 1 /\ t = n * r + m
  <2>1. r \in Int /\ n * r <= t /\ t < n * r + n
    BY <1>1, Division
  <2>2. m \in 0 .. n - 1 /\ t = n * r + m
    BY <1>1, Remainder
  <2> QED
    BY <2>1, <2>2
<1>3. r \in 0 .. launch.routes - 1
  <2> HIDE DEF r, m
  <2>1. n * 0 < n * r + n /\ n * r < n * launch.routes
    BY <1>1, <1>2
  <2>2. 0 <= r /\ r < launch.routes
    BY <1>1, <1>2, <2>1, Ordered
  <2> QED
    BY <1>1, <1>2, <2>2
<1>4. k \in Int
  BY <1>1, <1>2, Division
<1>5. SumCell(t) = k * n + m
  BY DEF SumCell
<1>6. ASSUME t \in TilesInto(u)
      PROVE  u = k * n + m
  <2>1. PICK q \in RoutesOf(u \div n) : t = q * n + (u % n)
    BY <1>6 DEF TilesInto
  <2>2. q \in Int /\ q \div launch.topk = u \div n
    BY <2>1 DEF RoutesOf
  <2> DEFINE v == u % n
             w == u \div n
  <2>3. v \in 0 .. n - 1 /\ u = n * w + v /\ w \in Int
    BY <1>1, Remainder, Division
  <2>4. q = r
    <3> HIDE DEF v, r
    <3>1. n * q \in Int /\ n * q <= t /\ t < n * q + n
      BY <1>1, <2>1, <2>2, <2>3
    <3>2. t \div n = q
      BY <1>1, <2>2, <3>1, Quotient
    <3> QED
      BY <3>2 DEF r
  <2>5. v = m
    <3>1. t = q * n + v
      BY <2>1
    <3> HIDE DEF v, r, m
    <3>2. q * n = n * r /\ n * r \in Int
      BY <1>1, <1>2, <2>2, <2>4
    <3> QED
      BY <1>1, <1>2, <2>3, <3>1, <3>2
  <2>6. w = k
    BY <2>2, <2>4
  <2> HIDE DEF v, w, k, m
  <2>7. n * w = k * n
    BY <1>1, <1>4, <2>6
  <2> QED
    BY <2>3, <2>5, <2>7
<1>7. ASSUME u = k * n + m
      PROVE  t \in TilesInto(u)
  <2>1. u \div n = k
    <3> HIDE DEF k, m
    <3>1. n * k \in Int /\ n * k <= u /\ u < n * k + n
      BY <1>1, <1>2, <1>4, <1>7
    <3> QED
      BY <1>1, <1>4, <3>1, Quotient
  <2>2. u % n = m
    <3> DEFINE v == u % n
    <3>1. v \in 0 .. n - 1 /\ u = n * (u \div n) + v
      BY <1>1, Remainder
    <3> HIDE DEF v, k, m
    <3>2. u = n * k + v
      BY <2>1, <3>1
    <3>3. n * k = k * n /\ n * k \in Int
      BY <1>1, <1>4
    <3>4. v = m
      BY <1>1, <1>2, <1>7, <3>1, <3>2, <3>3
    <3> QED
      BY <3>4 DEF v
  <2>3. r \in RoutesOf(u \div n)
    BY <1>3, <2>1 DEF RoutesOf
  <2>4. t = r * n + (u % n)
    <3> HIDE DEF r, m
    <3>1. n * r = r * n
      BY <1>1, <1>2
    <3> QED
      BY <1>2, <2>2, <3>1
  <2> QED
    BY <2>3, <2>4 DEF TilesInto
<1> QED
  BY <1>5, <1>6, <1>7

\* Of one tile there is one last slice.
LEMMA NotYetStored ==
  ASSUME Stages, Shape, BarrierInv, NEW c \in members, Working(c), Task(c).op = "tile",
         LastSlice(Task(c).piece)
  PROVE  ~ Stored(Phase(c), Task(c).piece.tile)
<1> DEFINE ph == Phase(c)
           p == Task(c).piece
<1>1. /\ launch \in Launches /\ IsTile(launch, ph, c, Index(c))
      /\ p = PieceAt(launch, ph, c, Index(c)) /\ ~ Done(c, ph, Index(c))
  BY OnTile
<1>2. ASSUME NEW d \in members, NEW i \in Units(ph, d), Tile(ph, d, i), Piece(ph, d, i).tile = p.tile,
             LastSlice(Piece(ph, d, i)), Done(d, ph, i)
      PROVE  FALSE
  <2>1. IsTile(launch, ph, d, i) /\ Piece(ph, d, i) = PieceAt(launch, ph, d, i)
    BY <1>2 DEF Tile, Piece
  <2>2. Piece(ph, d, i).slices = p.slices
    BY <1>1, <1>2, <2>1, TilePair
  <2>3. Piece(ph, d, i).slice = p.slice
    BY <1>2, <2>2 DEF LastSlice
  <2>4. d = c /\ i = Index(c)
    BY <1>1, <1>2, <2>1, <2>3, TilePair
  <2> QED
    BY <1>1, <1>2, <2>4
<1> QED
  BY <1>2 DEF Stored

LEMMA StoreKernel ==
  ASSUME Stages, stage = "kernel", Buffers, Shape, BarrierInv, TurnInv, Data, NEW c \in members, Store(c)
  PROVE  Shape' /\ TurnInv' /\ Data' /\ Buffers'
<1> DEFINE p == Task(c).piece
           here == Phase(c)
           fc1 == here = "fc1"
<1>1. /\ cache13' = IF (fc1 /\ launch.gated) \/ (~ fc1 /\ ~ launch.fused)
                    THEN [cache13 EXCEPT ![p.tile] = acc[c]] ELSE cache13
      /\ cache2' = IF fc1 /\ ~ launch.gated
                   THEN [cache2 EXCEPT ![p.tile] =
                            IF acc[c] = Whole(launch, "fc1", p.tile) THEN number ELSE 0]
                   ELSE cache2
      /\ output' = IF ~ fc1 /\ launch.fused
                   THEN [output EXCEPT ![SumCell(p.tile)] = Add2(@, acc[c])] ELSE output
      /\ UNCHANGED <<barrierVars, launch, number, acc, locks, ctmp, rotA>>
  BY DEF Store, SumCell
<1>2. /\ Shape' /\ TurnInv'
      /\ Working(c) /\ Task(c).op = "tile" /\ LastSlice(p)
      /\ acc[c] = Whole(launch, here, p.tile)
      /\ \A ph \in GemmPhases : \A t : Stored(ph, t)' <=> Stored(ph, t) \/ (ph = here /\ t = p.tile)
      /\ \A d \in members : \A ph, i : ~ Tile(ph, d, i) => (Done(d, ph, i)' <=> Done(d, ph, i))
  BY StoreTurns
<1>3. /\ at[c] = "run" /\ launch \in Launches /\ here \in GemmPhases
      /\ IsTile(launch, here, c, Index(c)) /\ p = PieceAt(launch, here, c, Index(c))
  BY <1>2, OnTile
<1>4. /\ p.tile \in 0 .. launch.routes * NTiles(launch, here) - 1
      /\ p.tile \div NTiles(launch, here) \notin launch.dead
  BY <1>3, TileType
<1>5. p.tile \in Cells
  BY <1>3, <1>4, CellsIn DEF NTiles
<1>6. \A d \in members : \A i : /\ Done(d, "rotate", i)' <=> Done(d, "rotate", i)
                                /\ Done(d, "act", i)' <=> Done(d, "act", i)
                                /\ Done(d, "zero", i)' <=> Done(d, "zero", i)
                                /\ ~ Tile("fc1", d, i) => (Done(d, "fc1", i)' <=> Done(d, "fc1", i))
  BY <1>2 DEF Tile, IsTile, GemmPhases
<1>7. /\ members' = members /\ launch' = launch /\ number' = number
      /\ \A d : Phase(d)' = Phase(d)
  BY <1>1, Frame
<1>8. /\ \A t : Stored("fc1", t)' <=> Stored("fc1", t) \/ (fc1 /\ t = p.tile)
      /\ \A t : Stored("fc2", t)' <=> Stored("fc2", t) \/ (~ fc1 /\ t = p.tile)
  BY <1>2, <1>3 DEF GemmPhases
<1>9. UNCHANGED <<barrierVars, launch, number>> /\ UNCHANGED rotA
  BY <1>1
<1>10. CASE fc1
  <2>1. \A t : ~ Stored("fc2", t)
    BY <1>3, <1>10, NotBegun, RankIs DEF PhaseNames
  <2>2. \A d \in members : \A i : ~ Done(d, "zero", i)
    BY <1>3, <1>10, NotBegun, RankIs DEF PhaseNames
  <2>3. /\ \A t : ~ Stored("fc2", t)'
        /\ \A d \in members : \A i : ~ Done(d, "zero", i)'
    BY <1>6, <1>8, <1>10, <2>1, <2>2
  <2>4. Fc2Rows' /\ Zeroed'
    BY <1>7, <2>3 DEF Fc2Rows, Zeroed
  <2>5. CollectedSame
    BY <1>8, <1>9, <1>10, CollectedKept
  <2>6. RotatedIn' /\ Cleared'
    BY <1>1, <1>6, <1>9, <1>10, <2>5, PartsKept
  <2>7. CASE launch.gated
    <3>1. /\ cache13'[p.tile] = Whole(launch, "fc1", p.tile) /\ UNCHANGED cache2
          /\ DOMAIN cache13' = Cells /\ \A v \in Cells : v # p.tile => cache13'[v] = cache13[v]
      BY <1>1, <1>2, <1>5, <1>10, <2>7 DEF Buffers
    <3>2. Fc1Gated'
      <4>1. ASSUME \A d \in members : Rank(Phase(d)) <= Rank("act"), NEW t \in Cells, Stored("fc1", t)'
            PROVE  cache13'[t] = Whole(launch, "fc1", t)
        BY <1>8, <2>7, <3>1, <4>1 DEF Data, Fc1Gated
      <4> QED
        BY <1>7, <4>1, FrameTerms DEF Fc1Gated
    <3>3. Fc1Plain'
      BY <1>7, <2>7 DEF Fc1Plain
    <3>4. Activated'
      BY <1>6, <1>9, <3>1, PartsKept
    <3>5. Buffers'
      BY <1>1, <1>10, <2>7, <3>1 DEF Buffers
    <3> QED
      BY <1>2, <2>4, <2>6, <3>2, <3>3, <3>4, <3>5 DEF Data
  <2>8. CASE ~ launch.gated
    <3>1. /\ cache2'[p.tile] = number /\ UNCHANGED cache13
          /\ DOMAIN cache2' = Cells /\ \A v \in Cells : v # p.tile => cache2'[v] = cache2[v]
      BY <1>1, <1>2, <1>5, <1>10, <2>8 DEF Buffers
    <3>2. Fc1Plain'
      BY <1>7, <1>8, <2>8, <3>1 DEF Data, Fc1Plain
    <3>3. Fc1Gated' /\ Activated'
      BY <1>7, <2>8 DEF Fc1Gated, Activated
    <3>4. Buffers'
      BY <1>1, <1>10, <2>8, <3>1 DEF Buffers
    <3> QED
      BY <1>2, <2>4, <2>6, <3>2, <3>3, <3>4 DEF Data
  <2> QED
    BY <2>7, <2>8
<1>11. CASE ~ fc1
  <2>1. here = "fc2" /\ NTiles(launch, here) = launch.n2
    BY <1>3, <1>11 DEF GemmPhases, NTiles
  <2>2. UNCHANGED cache2 /\ \A t : Stored("fc1", t)' <=> Stored("fc1", t)
    BY <1>1, <1>8, <1>11
  <2>3. RotatedIn' /\ Fc1Plain' /\ Activated'
    BY <1>6, <1>9, <2>2, PartsKept
  <2>4. CASE ~ launch.fused
    <3>1. /\ cache13'[p.tile] = Whole(launch, "fc2", p.tile) /\ UNCHANGED output
          /\ DOMAIN cache13' = Cells /\ \A v \in Cells : v # p.tile => cache13'[v] = cache13[v]
      BY <1>1, <1>2, <1>5, <1>11, <2>1, <2>4 DEF Buffers
    <3>2. Fc1Gated'
      <4>1. ~ (Rank(Phase(c)) <= Rank("act"))
        BY <2>1, RankIs
      <4> QED
        BY <1>7, <4>1 DEF Fc1Gated
    <3>3. Fc2Rows'
      BY <1>7, <1>8, <1>11, <2>4, <3>1, FrameTerms DEF Data, Fc2Rows
    <3>4. Zeroed'
      <4>1. ASSUME NEW d \in members, NEW i \in Units("zero", d), ZeroFc2(launch), Done(d, "zero", i)',
                   Work(launch, "zero", d)[i].cell \div launch.n2 \in launch.dead
            PROVE  cache13'[Work(launch, "zero", d)[i].cell] = {}
        <5>1. cache13[Work(launch, "zero", d)[i].cell] = {}
          BY <1>6, <4>1 DEF Data, Zeroed
        <5>2. Work(launch, "zero", d)[i].cell # p.tile
          BY <1>4, <2>1, <4>1
        <5>3. Work(launch, "zero", d)[i].cell \in Cells
          <6>1. d \in 0 .. Grid(launch) - 1
            BY PhaseIn
          <6>2. Work(launch, "zero", d)[i].op = "zero"
            BY <1>3, <6>1, UnitIs, <4>1 DEF Units, GemmPhases, UnitPhase, PhaseNames
          <6>3. Work(launch, "zero", d)[i].cell \in UnitCells(launch, "zero")
            BY <1>3, <6>1, <6>2, UnitIs, <4>1 DEF Units, PhaseNames
          <6> QED
            BY <1>3, <6>3, UnitCellsIn
        <5> QED
          BY <3>1, <5>1, <5>2, <5>3
      <4> QED
        BY <1>9, <4>1, Frame DEF Zeroed, ZeroFc2
    <3>5. Cleared'
      <4>1. ASSUME NEW d \in members, NEW i \in Units("fc1", d), Work(launch, "fc1", d)[i].op = "clear"
            PROVE  FALSE
        <5>1. d \in 0 .. Grid(launch) - 1
          BY PhaseIn
        <5>2. Work(launch, "fc1", d)[i].cell \in UnitCells(launch, "clear")
          BY <1>3, <5>1, UnitIs, <4>1 DEF Units, PhaseNames
        <5> QED
          BY <2>4, <5>2 DEF UnitCells
      <4> QED
        BY <1>9, <4>1, Frame DEF Cleared
    <3>6. Buffers'
      BY <1>1, <2>2, <2>4, <3>1 DEF Buffers
    <3> QED
      BY <1>2, <2>3, <3>2, <3>3, <3>4, <3>5, <3>6 DEF Data
  <2>5. CASE launch.fused
    <3>1. UNCHANGED cache13
      BY <1>1, <1>11, <2>5
    <3>2. Fc1Gated' /\ Zeroed'
      BY <1>6, <1>9, <2>2, <3>1, PartsKept
    <3>3. Fc2Rows'
      BY <1>7, <2>5 DEF Fc2Rows
    <3>4. output' = [output EXCEPT ![SumCell(p.tile)] = Add2(@, Whole(launch, "fc2", p.tile))]
      BY <1>1, <1>2, <1>11, <2>1, <2>5
    <3>5. ~ Stored("fc2", p.tile)
      BY <1>2, <2>1, NotYetStored
    <3>6. ASSUME NEW u \in Nat
          PROVE  /\ u # SumCell(p.tile) => Collected(u)' = Collected(u)
                 /\ u = SumCell(p.tile) => Collected(u)' = Add2(Collected(u), Whole(launch, "fc2", p.tile))
      <4>1. p.tile \in TilesInto(u) <=> u = SumCell(p.tile)
        BY <1>3, <1>4, <2>1, SumCellIs
      <4>2. Collected(u)' = UNION {Whole(launch, "fc2", t) : t \in {v \in TilesInto(u) : Stored("fc2", v)'}}
        BY <1>9, Frame, FrameTerms DEF Collected
      <4>3. ASSUME u # SumCell(p.tile)
            PROVE  Collected(u)' = Collected(u)
        BY <1>8, <4>1, <4>2, <4>3 DEF Collected
      <4>4. ASSUME u = SumCell(p.tile)
            PROVE  Collected(u)' = Add2(Collected(u), Whole(launch, "fc2", p.tile))
        <5>1. Collected(u)' = Collected(u) \cup Whole(launch, "fc2", p.tile)
          <6>1. {v \in TilesInto(u) : Stored("fc2", v)'}
                   = {v \in TilesInto(u) : Stored("fc2", v)} \cup {p.tile}
            BY <1>8, <1>11, <4>1, <4>4
          <6> QED
            BY <4>2, <6>1 DEF Collected
        <5>2. \A x \in Collected(u) : x[1] = number /\ x[3] # p.tile
          BY <3>5 DEF Collected, Whole
        <5>3. \A x \in Whole(launch, "fc2", p.tile) : x[1] = number /\ x[3] = p.tile
          BY DEF Whole
        <5>4. number # 0
          BY DEF Stages
        <5>5. \E x \in Junk : x[1] = 0
          BY DEF Junk
        <5> QED
          BY <5>1, <5>2, <5>3, <5>4, <5>5 DEF Add2
      <4> QED
        BY <4>3, <4>4
    <3>7. DOMAIN output = Cells /\ DOMAIN output' = Cells
      BY <3>4 DEF Buffers
    <3>8. Cleared'
      <4>1. ASSUME NEW d \in members, NEW i \in Units("fc1", d),
                   Work(launch, "fc1", d)[i].op = "clear", Done(d, "fc1", i)',
                   NEW u, u = Work(launch, "fc1", d)[i].cell
            PROVE  output'[u] = Collected(u)'
        <5>1. d \in 0 .. Grid(launch) - 1
          BY PhaseIn
        <5>2. u \in UnitCells(launch, "clear")
          BY <1>3, <5>1, UnitIs, <4>1 DEF Units, PhaseNames
        <5>3. u \in Cells
          BY <1>3, <5>2, UnitCellsIn
        <5>4. u \in Nat
          BY <1>3, <5>2, Sizes DEF UnitCells
        <5>5. output[u] = Collected(u)
          <6>1. ~ Tile("fc1", d, i)
            BY <4>1 DEF Tile, IsTile
          <6> QED
            BY <1>6, <4>1, <6>1 DEF Data, Cleared
        <5> QED
          BY <3>4, <3>6, <3>7, <5>3, <5>4, <5>5
      <4> QED
        BY <1>9, <4>1, Frame DEF Cleared
    <3>9. Buffers'
      BY <1>1, <2>2, <3>1, <3>7 DEF Buffers
    <3> QED
      BY <1>2, <2>3, <3>2, <3>3, <3>8, <3>9 DEF Data
  <2> QED
    BY <2>4, <2>5
<1> QED
  BY <1>10, <1>11

\* What a tile is multiplied with is there: the rotated rows for FC1, the
\* activations of this launch for FC2.
LEMMA RotatedReady ==
  ASSUME Stages, Shape, BarrierInv, Data, NEW c \in members, at[c] = "run", Phase(c) = "fc1",
         NEW r \in 0 .. launch.routes - 1, r \notin launch.dead, launch.rotate
  PROVE  rotA[r] = number
<1>1. launch \in Launches
  BY DEF Stages
<1>2. HasPhase(launch, "rotate")
  BY <1>1, PhaseOf
<1>3. r \in UnitCells(launch, "rotate")
  BY DEF UnitCells
<1>4. Rank("rotate") < Rank(Phase(c))
  BY RankIs
<1>5. \E d \in members : \E i \in Units("rotate", d) :
         Work(launch, "rotate", d)[i].cell = r /\ Done(d, "rotate", i)
  BY <1>2, <1>3, <1>4, AllUnits DEF UnitPhase
<1> QED
  BY <1>5 DEF Data, RotatedIn

LEMMA ActivationReady ==
  ASSUME Stages, Shape, BarrierInv, Data, NEW c \in members, at[c] = "run", Phase(c) = "fc2",
         NEW u \in 0 .. launch.routes * launch.k2 - 1, u \div launch.k2 \notin launch.dead
  PROVE  cache2[u] = number
<1>1. launch \in Launches
  BY DEF Stages
<1>2. CASE launch.gated
  <2>1. HasPhase(launch, "act")
    BY <1>1, <1>2, PhaseOf
  <2>2. u \in UnitCells(launch, "act")
    BY DEF UnitCells
  <2>3. Rank("act") < Rank(Phase(c))
    BY RankIs
  <2>4. PICK d \in members : \E i \in Units("act", d) :
           Work(launch, "act", d)[i].cell = u /\ Done(d, "act", i)
    BY <2>1, <2>2, <2>3, AllUnits DEF UnitPhase
  <2> QED
    BY <1>2, <2>4 DEF Data, Activated
<1>3. CASE ~ launch.gated
  <2>1. NTiles(launch, "fc1") = launch.k2
    BY <1>1, <1>3, LaunchType DEF NTiles
  <2>2. Rank("fc1") < Rank(Phase(c))
    BY RankIs
  <2>3. Stored("fc1", u)
    BY <2>1, <2>2, AllStored DEF GemmPhases
  <2>4. u \in Cells
    BY <1>1, CellsIn
  <2> QED
    BY <1>3, <2>3, <2>4 DEF Data, Fc1Plain
<1> QED
  BY <1>2, <1>3

LEMMA MultiplyKernel ==
  ASSUME Stages, Buffers, Shape, BarrierInv, TurnInv, Data, NEW c \in members, Multiply(c)
  PROVE  Shape' /\ TurnInv' /\ Data' /\ Buffers'
<1> DEFINE p == Task(c).piece
           r == p.tile \div Gemm(launch, Phase(c)).nTiles
           ready(k) == IF Phase(c) = "fc1" THEN launch.rotate => rotA[r] = number
                                           ELSE cache2[r * launch.k2 + k] = number
           ks == p.k .. p.k + p.cnt - 1
           sum == IF \A k \in ks : ready(k) THEN {<<number, Phase(c), p.tile, k>> : k \in ks} ELSE Junk
<1>1. /\ Working(c) /\ Task(c).op = "tile"
      /\ UNCHANGED <<barrierVars, launch, number, todo, locks, ctmp, rotA, cache13, cache2, output>>
      /\ acc' = [acc EXCEPT ![c] = sum]
  BY DEF Multiply, Busy, Working
<1>2. /\ at[c] = "run" /\ launch \in Launches /\ Phase(c) \in GemmPhases
      /\ IsTile(launch, Phase(c), c, Index(c)) /\ p = PieceAt(launch, Phase(c), c, Index(c))
      /\ p.k \in Nat /\ p.cnt \in Nat /\ p.k + p.cnt <= KTiles(launch, Phase(c))
  BY <1>1, OnTile
<1>3. /\ p.tile \in 0 .. launch.routes * NTiles(launch, Phase(c)) - 1
      /\ p.tile \div NTiles(launch, Phase(c)) \notin launch.dead
  BY <1>2, TileType
<1>4. Gemm(launch, Phase(c)).nTiles = NTiles(launch, Phase(c)) /\ NTiles(launch, Phase(c)) \in Nat \ {0}
  BY <1>2, GemmType
<1>5. r \notin launch.dead
  BY <1>3, <1>4
<1>6. r \in 0 .. launch.routes - 1
  <2> DEFINE n == NTiles(launch, Phase(c))
             N == launch.routes
  <2>1. N \in Nat \ {0} /\ p.tile \in Int /\ 0 <= p.tile /\ p.tile < N * n /\ n \in Nat \ {0}
    BY <1>2, <1>3, <1>4, LaunchType
  <2>2. r \in Int /\ n * r <= p.tile /\ p.tile < n * r + n
    BY <1>4, <2>1, Division
  <2> HIDE DEF n, r, N, p
  <2>3. n * 0 < n * r + n /\ n * r < n * N
    BY <2>1, <2>2
  <2>4. 0 <= r /\ r < N
    BY <2>1, <2>2, <2>3, Ordered
  <2> QED
    BY <2>1, <2>2, <2>4 DEF N
<1>7. \A k \in ks : ready(k)
  <2>1. CASE Phase(c) = "fc1"
    BY <1>2, <1>5, <1>6, <2>1, RotatedReady
  <2>2. CASE Phase(c) # "fc1"
    <3>1. Phase(c) = "fc2"
      BY <1>2, <2>2 DEF GemmPhases
    <3>2. KTiles(launch, Phase(c)) = launch.k2 /\ launch.k2 \in Nat \ {0} /\ launch.routes \in Nat \ {0}
      BY <1>2, <3>1, LaunchType DEF KTiles
    <3>3. ASSUME NEW k \in ks
          PROVE  cache2[r * launch.k2 + k] = number
      <4> DEFINE n == launch.k2
                 N == launch.routes
                 u == r * n + k
      <4>1. k \in Int /\ 0 <= k /\ k < n
        BY <1>2, <3>2
      <4>2. r \in Nat /\ N \in Nat \ {0} /\ r < N /\ n \in Nat \ {0}
        BY <1>6, <3>2
      <4>3. u \in 0 .. N * n - 1 /\ u \div n = r
        <5> HIDE DEF n, N, r
        <5>1. n * r \in Nat /\ r * n = n * r /\ n * N = N * n /\ n * N \in Int
          BY <4>2
        <5>2. r \in Int /\ N \in Int
          BY <4>2
        <5>3. n * r + n <= n * N
          BY <4>2, <5>2, Steps
        <5>4. u \in Int /\ n * r <= u /\ u < n * r + n
          BY <4>1, <4>2, <5>1
        <5>5. u \div n = r
          BY <4>2, <5>2, <5>4, Quotient
        <5>6. 0 <= u /\ u < N * n
          BY <4>2, <5>1, <5>3, <5>4
        <5> QED
          BY <5>1, <5>4, <5>5, <5>6
      <4> HIDE DEF u
      <4>4. cache2[u] = number
        BY <1>2, <1>5, <3>1, <4>3, ActivationReady
      <4> QED
        BY <4>4 DEF u
    <3> QED
      BY <2>2, <3>3
  <2> QED
    BY <2>1, <2>2
<1>8. acc'[c] = Terms(Phase(c), p.tile, p.k, p.k + p.cnt)
  <2>1. sum = {<<number, Phase(c), p.tile, k>> : k \in ks}
    BY <1>7
  <2> HIDE DEF sum
  <2>2. sum = Terms(Phase(c), p.tile, p.k, p.k + p.cnt)
    <3> DEFINE to == p.k + p.cnt
    <3>1. ks = p.k .. to - 1
      BY <1>2
    <3> HIDE DEF to, p, ks
    <3>2. Terms(Phase(c), p.tile, p.k, to) = {<<number, Phase(c), p.tile, k>> : k \in ks}
      BY <3>1, Zenon DEF Terms
    <3> QED
      BY <2>1, <3>2 DEF to
  <2>3. acc'[c] = sum
    BY <1>1 DEF Shape
  <2> QED
    BY <2>2, <2>3
<1>9. Shape' /\ TurnInv'
  BY <1>8, MultiplyTurns
<1>10. Data'
  BY <1>1, FrameDone, DataKept
<1>11. Buffers'
  BY <1>1 DEF Buffers
<1> QED
  BY <1>9, <1>10, <1>11

LEMMA TurnKernel ==
  ASSUME Stages, Buffers, Shape, BarrierInv, TurnInv, Data, NEW c \in members, Turn(c)
  PROVE  Shape' /\ TurnInv' /\ Data' /\ Buffers'
<1>1. UNCHANGED <<barrierVars, launch, number, todo, locks, ctmp, rotA, cache13, cache2, output>>
  BY DEF Turn
<1>2. Data'
  BY <1>1, FrameDone, DataKept
<1>3. Buffers'
  BY <1>1 DEF Buffers
<1> QED
  BY <1>2, <1>3, TurnTurns

LEMMA MergeKernel ==
  ASSUME Stages, stage = "kernel", Buffers, Shape, BarrierInv, TurnInv, Data, NEW c \in members, MergeSlice(c)
  PROVE  Shape' /\ TurnInv' /\ Data' /\ Buffers'
<1>1. UNCHANGED <<barrierVars, launch, number, todo, rotA, cache13, cache2, output>>
  BY DEF MergeSlice
<1>2. Data'
  BY <1>1, FrameDone, DataKept
<1> QED
  BY <1>2, MergeTurns

LEMMA PublishKernel ==
  ASSUME Stages, Buffers, Shape, BarrierInv, TurnInv, Data, NEW c \in members, PublishTurn(c)
  PROVE  Shape' /\ TurnInv' /\ Data' /\ Buffers'
<1>1. UNCHANGED <<barrierVars, launch, number, rotA, cache13, cache2, output>>
  BY DEF PublishTurn
<1>2. Data'
  BY <1>1, PublishTurns, DataKept
<1> QED
  BY <1>2, PublishTurns

-----------------------------------------------------------------------------
(* The grid barrier *)

\* Inside the barrier nothing the tiles and the data speak of changes.
LEMMA SameInside ==
  ASSUME UNCHANGED <<members, passed, launch, number, todo, step, acc, locks, ctmp,
                     rotA, cache13, cache2, output>>
  PROVE  (TurnInv => TurnInv') /\ (Data => Data')
<1>1. /\ members' = members /\ passed' = passed /\ launch' = launch /\ number' = number
      /\ todo' = todo /\ step' = step /\ acc' = acc /\ locks' = locks /\ ctmp' = ctmp
      /\ rotA' = rotA /\ cache13' = cache13 /\ cache2' = cache2 /\ output' = output
  OBVIOUS
<1>2. /\ \A c : Phase(c)' = Phase(c)
      /\ \A ph, c : Units(ph, c)' = Units(ph, c)
      /\ \A ph, c, i : Tile(ph, c, i)' <=> Tile(ph, c, i)
      /\ \A ph, c, i : Piece(ph, c, i)' = Piece(ph, c, i)
      /\ \A u : TilesInto(u)' = TilesInto(u)
  BY <1>1 DEF Phase, Units, Tile, Piece, TilesInto, RoutesOf
<1>3. /\ \A ph : Opened(ph)' <=> Opened(ph)
      /\ \A d, ph, i : Done(d, ph, i)' <=> Done(d, ph, i)
      /\ \A d, ph, i : Current(d, ph, i)' <=> Current(d, ph, i)
      /\ \A d : Working(d)' <=> Working(d)
      /\ \A d : Task(d)' = Task(d)
  BY <1>1, <1>2 DEF Opened, Done, Current, Working, Index, Task
<1>4. /\ \A d, ph, i : Published(d, ph, i)' <=> Published(d, ph, i)
      /\ \A ph, t : Stored(ph, t)' <=> Stored(ph, t)
  BY <1>1, <1>2, <1>3 DEF Published, Stored
<1>5. /\ \A d, ph, i : Awaited(ph, d, i)' <=> Awaited(ph, d, i)
      /\ \A u : Collected(u)' = Collected(u)
  BY <1>1, <1>2, <1>3, <1>4, FrameTerms DEF Awaited, Collected
<1>6. StepExact => StepExact'
  BY <1>1, <1>2, <1>3, FrameTerms DEF StepExact, StepAt
<1>7. LocksAwaited => LocksAwaited'
  BY <1>1, <1>2, <1>5 DEF LocksAwaited
<1>8. LocksExact => LocksExact'
  BY <1>1, <1>2, <1>4, <1>5 DEF LocksExact
<1>9. ScratchExact => ScratchExact'
  BY <1>1, <1>2, <1>3, <1>5, FrameTerms DEF ScratchExact
<1>10. (RotatedIn => RotatedIn') /\ (Fc1Plain => Fc1Plain') /\ (Activated => Activated')
  BY <1>1, <1>2, <1>3, <1>4 DEF RotatedIn, Fc1Plain, Activated
<1>11. (Fc1Gated => Fc1Gated') /\ (Zeroed => Zeroed')
  BY <1>1, <1>2, <1>3, <1>4, FrameTerms DEF Fc1Gated, Zeroed, ZeroFc2
<1>12. Fc2Rows => Fc2Rows'
  BY <1>1, <1>4, FrameTerms DEF Fc2Rows
<1>13. Cleared => Cleared'
  BY <1>1, <1>2, <1>3, <1>5 DEF Cleared
<1> QED
  BY <1>6, <1>7, <1>8, <1>9, <1>10, <1>11, <1>12, <1>13 DEF TurnInv, Data

\* A CTA that leaves the barrier into a phase nobody has begun leaves nobody
\* with work in the one before it.
LEMMA AllThrough ==
  ASSUME Stages, Shape, BarrierInv, NEW c \in members,
         at[c] = "publish" \/ (at[c] = "spin" /\ sense # seen[c]),
         \A d \in members : passed[d] # passed[c] + 1,
         NEW d \in members
  PROVE  passed[d] = passed[c] /\ ~ Working(d) /\ Phase(d) = Phase(c)
<1>1. passed[c] \in Int /\ passed[d] \in Int
  BY Ranks
<1>2. CASE at[c] = "publish"
  <2>1. d # c => at[d] = "spin" /\ seen[d] = sense
    BY <1>2 DEF BarrierInv, OthersWait, Closing
  <2>2. Level(d) = Level(c)
    BY DEF BarrierInv, SameLevel
  <2>3. passed[d] = passed[c] /\ at[d] # "run"
    BY <1>2, <2>1, <2>2 DEF Level
  <2> QED
    BY <2>3, Ranks DEF Shape
<1>3. CASE at[c] = "spin" /\ sense # seen[c]
  <2>1. Level(d) = Level(c) /\ Level(c) = passed[c] + 1
    BY <1>3 DEF BarrierInv, SameLevel, Level
  <2>2. passed[d] = passed[c] /\ at[d] = "spin"
    BY <1>1, <2>1 DEF Level
  <2> QED
    BY <2>2, Ranks DEF Shape
<1> QED
  BY <1>2, <1>3

\* Then every lock is at zero.
LEMMA NoneHeld ==
  ASSUME Stages, Shape, LocksAwaited, NEW c \in members,
         \A d \in members : ~ Working(d) /\ Phase(d) = Phase(c),
         NEW s \in 0 .. Cap - 1
  PROVE  locks[s] = 0
<1>1. ASSUME NEW ph \in GemmPhases, NEW d \in members, NEW i \in Units(ph, d), Awaited(ph, d, i)
      PROVE  FALSE
  <2>1. PICK e \in members : Rank(ph) <= Rank(Phase(e))
    BY <1>1 DEF Awaited, Opened
  <2>2. Rank(ph) <= Rank(Phase(d)) /\ Rank(ph) \in Nat /\ Rank(Phase(d)) \in Nat
        /\ ph \in PhaseNames /\ Phase(d) \in PhaseNames
    BY <2>1, RankType, PhaseIn DEF GemmPhases, PhaseNames
  <2>3. Done(d, ph, i)
    BY <2>2, RankType DEF Done, Working
  <2> QED
    BY <1>1, <2>3 DEF Awaited, Published
<1> QED
  BY <1>1 DEF LocksAwaited

Leaves(c) == /\ at[c] = "publish" \/ (at[c] = "spin" /\ sense # seen[c])
             /\ members' = members /\ rounds' = rounds
             /\ at' = [at EXCEPT ![c] = "run"]
             /\ passed' = [passed EXCEPT ![c] = @ + 1]
             /\ todo' = [todo EXCEPT ![c] = Work(launch, PhasesOf(launch)[passed'[c] + 1], c)]
             /\ UNCHANGED <<launch, number, step, acc, locks, ctmp, rotA, cache13, cache2, output>>

\* The CTA is in the next phase, with all of its work before it.
LEMMA LeavesTo ==
  ASSUME Stages, Shape, BarrierInv, TurnInv, NEW c \in members, Leaves(c)
  PROVE  /\ Shape'
         /\ \A d \in members \ {c} : /\ Phase(d)' = Phase(d) /\ todo'[d] = todo[d]
                                     /\ passed'[d] = passed[d]
         /\ passed'[c] = passed[c] + 1 /\ passed[c] \in Int
         /\ \A ph : HasPhase(launch, ph) =>
               /\ Rank(ph) < Rank(Phase(c)') <=> Rank(ph) < Rank(Phase(c)) \/ ph = Phase(c)
               /\ Rank(ph) <= Rank(Phase(c)') <=> Rank(ph) <= Rank(Phase(c)) \/ ph = Phase(c)'
         /\ Phase(c)' # Phase(c) /\ Rank(Phase(c)) < Rank(Phase(c)')
         /\ DOMAIN todo'[c] = Units(Phase(c)', c)
         /\ ~ Working(c) /\ step[c] = "next"
         /\ \A ph, d : Units(ph, d)' = Units(ph, d)
<1> DEFINE s == PhasesOf(launch)
           n == passed[c] + 1
<1>1. /\ DOMAIN todo = members /\ DOMAIN step = members /\ DOMAIN acc = members
      /\ passed[c] \in 0 .. rounds /\ passed[c] < rounds /\ rounds = Len(s) - 1 /\ ~ Working(c)
      /\ DOMAIN passed = members /\ DOMAIN at = members
      /\ members = 0 .. Grid(launch) - 1 /\ launch \in Launches
  BY DEF Shape, Leaves, BarrierInv, BarrierTypeOK, Stages
<1>2. /\ Len(s) \in Nat
      /\ \A i \in 1 .. Len(s) : s[i] \in PhaseNames /\ Rank(s[i]) \in Nat
      /\ \A i, j \in 1 .. Len(s) : i < j => Rank(s[i]) < Rank(s[j])
  BY <1>1, PhaseOrder, RankType
<1>3. /\ n \in 1 .. Len(s) /\ n + 1 \in 1 .. Len(s) /\ passed[c] \in Int
  BY <1>1, <1>2
<1>4. /\ passed'[c] = n
      /\ \A d \in members \ {c} : passed'[d] = passed[d] /\ at'[d] = at[d] /\ todo'[d] = todo[d]
      /\ at'[c] = "run"
      /\ members' = members /\ launch' = launch /\ rounds' = rounds
      /\ step' = step /\ acc' = acc
  BY <1>1 DEF Leaves
<1>5. /\ Phase(c) = s[n] /\ Phase(c)' = s[n + 1]
      /\ \A d \in members \ {c} : Phase(d)' = Phase(d)
  BY <1>4 DEF Phase
<1>6. todo'[c] = Work(launch, Phase(c)', c) /\ DOMAIN todo' = members
  BY <1>1, <1>4, <1>5 DEF Leaves
<1>7. \A ph, d : Units(ph, d)' = Units(ph, d)
  BY <1>4 DEF Units
<1>8. ASSUME NEW ph, HasPhase(launch, ph)
      PROVE  /\ Rank(ph) < Rank(Phase(c)') <=> Rank(ph) < Rank(Phase(c)) \/ ph = Phase(c)
             /\ Rank(ph) <= Rank(Phase(c)') <=> Rank(ph) <= Rank(Phase(c)) \/ ph = Phase(c)'
  <2>1. PICK i \in 1 .. Len(s) : s[i] = ph
    BY <1>8 DEF HasPhase
  <2> DEFINE m == n + 1
             N == Len(s)
  <2>2. n \in Int /\ m \in Int /\ i \in Int /\ m = n + 1
    BY <1>3
  <2>3. n \in 1 .. N /\ m \in 1 .. N /\ i \in 1 .. N
    BY <1>3
  <2>4. /\ \A x \in 1 .. N : Rank(s[x]) \in Nat
        /\ \A x, y \in 1 .. N : x < y => Rank(s[x]) < Rank(s[y])
    BY <1>2
  <2>5. Phase(c) = s[n] /\ Phase(c)' = s[m] /\ s[i] = ph
    BY <1>5, <2>1
  <2> HIDE DEF s, n, m, N
  <2>6. i < n \/ i = n \/ i = m \/ m < i
    BY <2>2
  <2>7. n < m /\ (i < n => i < m)
    BY <2>2
  <2>8. CASE i < n
    <3>1. Rank(ph) < Rank(s[n]) /\ Rank(ph) < Rank(s[m])
      BY <2>3, <2>4, <2>5, <2>7, <2>8
    <3>2. Rank(ph) \in Nat /\ Rank(s[n]) \in Nat /\ Rank(s[m]) \in Nat
      BY <2>3, <2>4, <2>5
    <3> QED
      BY <2>5, <3>1, <3>2
  <2>9. CASE i = n
    <3>1. Rank(ph) < Rank(s[m]) /\ ph = s[n]
      BY <2>3, <2>4, <2>5, <2>7, <2>9
    <3>2. Rank(ph) \in Nat /\ Rank(s[n]) \in Nat /\ Rank(s[m]) \in Nat
      BY <2>3, <2>4, <2>5
    <3> QED
      BY <2>5, <3>1, <3>2
  <2>10. CASE i = m
    <3>1. Rank(s[n]) < Rank(ph) /\ ph = s[m]
      BY <2>3, <2>4, <2>5, <2>7, <2>10
    <3>2. Rank(ph) \in Nat /\ Rank(s[n]) \in Nat /\ Rank(s[m]) \in Nat
      BY <2>3, <2>4, <2>5
    <3> QED
      BY <2>5, <3>1, <3>2
  <2>11. CASE m < i
    <3>1. Rank(s[n]) < Rank(s[m]) /\ Rank(s[m]) < Rank(ph)
      BY <2>3, <2>4, <2>5, <2>7, <2>11
    <3>2. Rank(ph) \in Nat /\ Rank(s[n]) \in Nat /\ Rank(s[m]) \in Nat
      BY <2>3, <2>4, <2>5
    <3> QED
      BY <2>5, <3>1, <3>2
  <2> QED
    BY <2>6, <2>8, <2>9, <2>10, <2>11
<1>9. Phase(c)' # Phase(c) /\ Rank(Phase(c)) < Rank(Phase(c)')
  <2> DEFINE m == n + 1
             N == Len(s)
  <2>1. n < m /\ n \in 1 .. N /\ m \in 1 .. N
    BY <1>3
  <2>2. \A x, y \in 1 .. N : x < y => Rank(s[x]) < Rank(s[y])
    BY <1>2
  <2>3. Phase(c) = s[n] /\ Phase(c)' = s[m] /\ Rank(s[n]) \in Nat
    BY <1>2, <1>3, <1>5
  <2> HIDE DEF s, n, m, N
  <2>4. Rank(s[n]) < Rank(s[m])
    BY <2>1, <2>2
  <2> QED
    BY <2>3, <2>4
<1>10. step[c] = "next"
  BY <1>1 DEF TurnInv, StepExact, StepAt
<1>11. DOMAIN todo'[c] = Units(Phase(c)', c)
  BY <1>6 DEF Units
<1>12. Shape'
  <2>1. ASSUME NEW d \in members
        PROVE  /\ passed'[d] \in 0 .. rounds
               /\ DOMAIN todo'[d] \subseteq Units(Phase(d)', d)
               /\ \A i \in DOMAIN todo'[d] : todo'[d][i] = Work(launch, Phase(d)', d)[i]
               /\ at'[d] # "run" => passed'[d] < rounds /\ DOMAIN todo'[d] = {}
    <3>1. CASE d = c
      BY <1>1, <1>2, <1>4, <1>6, <1>11, <3>1
    <3>2. CASE d # c
      BY <1>4, <1>5, <3>2 DEF Shape, Working
    <3> QED
      BY <3>1, <3>2
  <2> QED
    BY <1>1, <1>4, <1>6, <1>7, <2>1 DEF Shape, Working
<1> QED
  BY <1>1, <1>3, <1>4, <1>5, <1>7, <1>8, <1>9, <1>10, <1>11, <1>12

\* What was done before is done, and nothing else: the work of the new phase
\* is not.
LEMMA LeavesDone ==
  ASSUME Stages, Shape, BarrierInv, TurnInv, NEW c \in members, Leaves(c),
         NEW ph, HasPhase(launch, ph), NEW d \in members, NEW i \in Units(ph, d)
  PROVE  /\ Done(d, ph, i)' <=> Done(d, ph, i)
         /\ Published(d, ph, i)' <=> Published(d, ph, i)
         /\ (Current(d, ph, i) /\ step[d] = "publish") <=> (Current(d, ph, i)' /\ step'[d] = "publish")
<1>1. step' = step
  BY DEF Leaves
<1>2. CASE d # c
  <2>1. Phase(d)' = Phase(d) /\ todo'[d] = todo[d]
    BY <1>2, LeavesTo
  <2>2. (Done(d, ph, i)' <=> Done(d, ph, i)) /\ (Current(d, ph, i)' <=> Current(d, ph, i))
    BY <2>1 DEF Done, Current, Working, Index
  <2> QED
    BY <1>1, <2>2 DEF Published
<1>3. CASE d = c
  <2>1. /\ Rank(ph) < Rank(Phase(c)') <=> Rank(ph) < Rank(Phase(c)) \/ ph = Phase(c)
        /\ Phase(c)' # Phase(c) /\ ~ Working(c) /\ step[c] = "next"
        /\ DOMAIN todo'[c] = Units(Phase(c)', c)
    BY LeavesTo
  <2>2. Done(c, ph, i)' <=> Rank(ph) < Rank(Phase(c)')
    BY <1>3, <2>1 DEF Done
  <2>3. Done(c, ph, i) <=> Rank(ph) < Rank(Phase(c)) \/ ph = Phase(c)
    BY <2>1 DEF Done, Working
  <2> QED
    BY <1>1, <1>3, <2>1, <2>2, <2>3 DEF Published
<1> QED
  BY <1>2, <1>3

LEMMA LeavesTurns ==
  ASSUME Stages, Buffers, Shape, BarrierInv, TurnInv, NEW c \in members, Leaves(c)
  PROVE  TurnInv'
<1>1. /\ members' = members /\ launch' = launch /\ number' = number /\ step' = step /\ acc' = acc
      /\ locks' = locks /\ ctmp' = ctmp
  BY DEF Leaves
<1>2. launch \in Launches
  BY DEF Stages
<1>3. \A ph \in GemmPhases : /\ HasPhase(launch, ph) /\ ph \in PhaseNames /\ Rank(ph) \in Nat
  BY <1>2, PhaseOf, RankType DEF GemmPhases, PhaseNames
<1>4. /\ \A ph, d : Units(ph, d)' = Units(ph, d)
      /\ \A ph, d, i : Tile(ph, d, i)' <=> Tile(ph, d, i)
      /\ \A ph, d, i : Piece(ph, d, i)' = Piece(ph, d, i)
  BY <1>1 DEF Units, Tile, Piece
<1>5. \A ph \in GemmPhases : Opened(ph)' <=> Opened(ph) \/ ph = Phase(c)'
  <2>1. ASSUME NEW ph \in GemmPhases
        PROVE  Opened(ph)' <=> Opened(ph) \/ ph = Phase(c)'
    <3>1. Rank(ph) <= Rank(Phase(c)') <=> Rank(ph) <= Rank(Phase(c)) \/ ph = Phase(c)'
      BY <1>3, LeavesTo
    <3>2. \A d \in members \ {c} : Phase(d)' = Phase(d)
      BY LeavesTo
    <3>3. ph = Phase(c)' => Rank(ph) <= Rank(Phase(c)')
      BY <1>3
    <3>4. Opened(ph)' <=> \E d \in members : Rank(ph) <= Rank(Phase(d)')
      BY <1>1 DEF Opened
    <3> QED
      BY <3>1, <3>2, <3>3, <3>4 DEF Opened
  <2> QED
    BY <2>1
\* a phase that the CTA opens finds every lock at zero
<1>6. ASSUME NEW ph \in GemmPhases, ph = Phase(c)', ~ Opened(ph)
      PROVE  \A s \in 0 .. Cap - 1 : locks[s] = 0
  <2>1. \A d \in members : passed[d] # passed[c] + 1
    <3>1. ASSUME NEW d \in members, passed[d] = passed[c] + 1
          PROVE  FALSE
      <4>1. Phase(c)' = Phase(d)
        BY <1>1, <3>1, LeavesTo DEF Phase
      <4> QED
        BY <1>3, <1>6, <4>1 DEF Opened
    <3> QED
      BY <3>1
  <2>2. \A d \in members : ~ Working(d) /\ Phase(d) = Phase(c)
    BY <2>1, AllThrough DEF Leaves
  <2> QED
    BY <2>2, NoneHeld DEF TurnInv
<1>7. ASSUME NEW ph \in GemmPhases, NEW d \in members, NEW i \in Units(ph, d)
      PROVE  Published(d, ph, i)' <=> Published(d, ph, i)
  BY <1>3, LeavesDone
<1>8. ASSUME NEW ph \in GemmPhases, NEW d \in members, NEW i \in Units(ph, d)
      PROVE  Awaited(ph, d, i)' <=> \/ Awaited(ph, d, i)
                                    \/ /\ Tile(ph, d, i) /\ Piece(ph, d, i).slices > 1
                                       /\ ph = Phase(c)' /\ ~ Published(d, ph, i)
  BY <1>4, <1>5, <1>7 DEF Awaited
<1>9. ASSUME NEW ph \in GemmPhases, ~ Opened(ph), NEW d \in members, NEW i
      PROVE  ~ Published(d, ph, i)
  BY <1>3, <1>9, PhaseIn DEF Opened, Published, Done, Current
<1>10. ASSUME NEW ph \in GemmPhases, NEW d \in members, NEW i \in Units(ph, d),
              Tile(ph, d, i), Piece(ph, d, i).slices > 1
       PROVE  Piece(ph, d, i).slot \in 0 .. Cap - 1
  <2>1. IsTile(launch, ph, d, i) /\ PieceAt(launch, ph, d, i).slices > 1
    BY <1>10 DEF Tile, Piece
  <2> QED
    BY <1>2, <2>1, TileType DEF Piece
<1>11. LocksAwaited'
  BY <1>1, <1>4, <1>8 DEF TurnInv, LocksAwaited
<1>12. LocksExact'
  <2>1. ASSUME NEW ph \in GemmPhases, NEW d \in members, NEW i \in Units(ph, d), Awaited(ph, d, i)',
               NEW e \in members, NEW j \in Units(ph, e), Tile(ph, e, j),
               Piece(ph, e, j).tile = Piece(ph, d, i).tile
        PROVE  Published(e, ph, j)' <=> Piece(ph, e, j).slice < locks[Piece(ph, d, i).slot]
    <3>1. CASE Awaited(ph, d, i)
      BY <1>7, <2>1, <3>1 DEF TurnInv, LocksExact
    <3>2. CASE ~ Awaited(ph, d, i)
      <4>1. /\ Tile(ph, d, i) /\ Piece(ph, d, i).slices > 1 /\ ph = Phase(c)' /\ ~ Opened(ph)
        BY <1>8, <2>1, <3>2 DEF Awaited
      <4>2. locks[Piece(ph, d, i).slot] = 0
        BY <1>6, <1>10, <4>1
      <4>3. ~ Published(e, ph, j)'
        BY <1>7, <1>9, <4>1
      <4>4. Piece(ph, e, j).slice \in Nat
        <5>1. IsTile(launch, ph, e, j)
          BY <2>1 DEF Tile
        <5>2. /\ PieceAt(launch, ph, e, j).slices \in Nat \ {0}
              /\ PieceAt(launch, ph, e, j).slice \in 0 .. PieceAt(launch, ph, e, j).slices - 1
          BY <1>2, <5>1, TileType
        <5> QED
          BY <5>2 DEF Piece
      <4> QED
        BY <4>2, <4>3, <4>4
    <3> QED
      BY <3>1, <3>2
  <2> QED
    BY <1>1, <1>4, <2>1 DEF LocksExact
<1>13. ScratchExact'
  <2>1. ASSUME NEW ph \in GemmPhases, NEW d \in members, NEW i \in Units(ph, d), Awaited(ph, d, i)',
               Piece(ph, d, i).slice = locks[Piece(ph, d, i).slot], Piece(ph, d, i).slice > 0,
               ~ (Current(d, ph, i)' /\ step'[d] = "publish")
        PROVE  ctmp[ph][Piece(ph, d, i).slot] =
                  Terms(ph, Piece(ph, d, i).tile, Piece(ph, d, i).k + Piece(ph, d, i).cnt, KTiles(launch, ph))
    <3>1. CASE Awaited(ph, d, i)
      <4>1. ~ (Current(d, ph, i) /\ step[d] = "publish")
        BY <1>3, <2>1, LeavesDone
      <4> QED
        BY <2>1, <3>1, <4>1 DEF TurnInv, ScratchExact
    <3>2. CASE ~ Awaited(ph, d, i)
      <4>1. /\ Tile(ph, d, i) /\ Piece(ph, d, i).slices > 1 /\ ph = Phase(c)' /\ ~ Opened(ph)
        BY <1>8, <2>1, <3>2 DEF Awaited
      <4>2. locks[Piece(ph, d, i).slot] = 0
        BY <1>6, <1>10, <4>1
      <4> QED
        BY <2>1, <4>2
    <3> QED
      BY <3>1, <3>2
  <2> QED
    BY <1>1, <1>4, <2>1, FrameTerms DEF ScratchExact
<1>14. StepExact'
  <2>1. StepAt(c)'
    BY <1>1, LeavesTo DEF StepAt
  <2>2. ASSUME NEW d \in members \ {c}
        PROVE  StepAt(d)'
    <3>1. StepAt(d) /\ Phase(d)' = Phase(d) /\ todo'[d] = todo[d]
      BY LeavesTo DEF TurnInv, StepExact
    <3>2. Task(d)' = Task(d) /\ Working(d)' <=> Working(d)
      BY <3>1 DEF Task, Index, Working
    <3> QED
      BY <1>1, <3>1, <3>2, FrameTerms DEF StepAt
  <2> QED
    BY <1>1, <2>1, <2>2 DEF StepExact
<1> QED
  BY <1>11, <1>12, <1>13, <1>14 DEF TurnInv

LEMMA LeavesData ==
  ASSUME Stages, Shape, BarrierInv, TurnInv, Data, NEW c \in members, Leaves(c)
  PROVE  Data'
<1>1. /\ members' = members /\ launch' = launch /\ number' = number
      /\ rotA' = rotA /\ cache13' = cache13 /\ cache2' = cache2 /\ output' = output
  BY DEF Leaves
<1>2. launch \in Launches
  BY DEF Stages
<1>3. \A ph : HasPhase(launch, ph) =>
         \A d \in members : \A i \in Units(ph, d) : Done(d, ph, i)' <=> Done(d, ph, i)
  BY LeavesDone
<1>4. /\ HasPhase(launch, "fc1") /\ HasPhase(launch, "fc2")
      /\ launch.rotate => HasPhase(launch, "rotate")
      /\ launch.gated => HasPhase(launch, "act")
      /\ ZeroFc2(launch) => HasPhase(launch, "zero")
  BY <1>2, PhaseOf
<1>5. /\ \A ph, d : Units(ph, d)' = Units(ph, d)
      /\ \A ph, d, i : Tile(ph, d, i)' <=> Tile(ph, d, i)
      /\ \A ph, d, i : Piece(ph, d, i)' = Piece(ph, d, i)
      /\ \A u : TilesInto(u)' = TilesInto(u)
      /\ ZeroFc2(launch)' <=> ZeroFc2(launch)
  BY <1>1 DEF Units, Tile, Piece, TilesInto, RoutesOf
<1>6. \A ph \in GemmPhases : \A t : Stored(ph, t)' <=> Stored(ph, t)
  BY <1>1, <1>3, <1>4, <1>5 DEF Stored, GemmPhases
<1>7. \A u : Collected(u)' = Collected(u)
  BY <1>1, <1>5, <1>6, FrameTerms DEF Collected, GemmPhases
<1>8. \A t : /\ Stored("fc1", t)' <=> Stored("fc1", t)
             /\ Stored("fc2", t)' <=> Stored("fc2", t)
  BY <1>6 DEF GemmPhases
<1>9. RotatedIn'
  BY <1>1, <1>3, <1>4, <1>5 DEF Data, RotatedIn
<1>10. Fc1Gated'
  <2>1. (\A d \in members : Rank(Phase(d)') <= Rank("act"))
           => (\A d \in members : Rank(Phase(d)) <= Rank("act"))
    <3>1. \A d \in members \ {c} : Phase(d)' = Phase(d)
      BY LeavesTo
    <3>2. Rank(Phase(c)) < Rank(Phase(c)') /\ Rank(Phase(c)) \in Int
      BY LeavesTo, PhaseIn
    <3>3. Rank(Phase(c)') \in Int
      BY DEF Rank
    <3>4. Rank("act") \in Int
      BY RankIs
    <3> QED
      BY <3>1, <3>2, <3>3, <3>4
  <2> QED
    BY <1>1, <1>8, <2>1, FrameTerms DEF Data, Fc1Gated
<1>11. Fc1Plain'
  BY <1>1, <1>8 DEF Data, Fc1Plain
<1>12. Activated'
  BY <1>1, <1>3, <1>4, <1>5 DEF Data, Activated
<1>13. Zeroed'
  BY <1>1, <1>3, <1>4, <1>5 DEF Data, Zeroed
<1>14. Fc2Rows'
  BY <1>1, <1>8, FrameTerms DEF Data, Fc2Rows
<1>15. Cleared'
  BY <1>1, <1>3, <1>4, <1>5, <1>7 DEF Data, Cleared
<1> QED
  BY <1>9, <1>10, <1>11, <1>12, <1>13, <1>14, <1>15 DEF Data

LEMMA BarrierKernel ==
  ASSUME Stages, Buffers, Shape, BarrierInv, TurnInv, Data, NEW c \in members, Barrier(c)
  PROVE  Shape' /\ TurnInv' /\ Data' /\ Buffers'
<1>1. /\ BarrierStep(c) /\ DOMAIN todo[c] = {}
      /\ todo' = IF passed'[c] = passed[c] THEN todo
                 ELSE [todo EXCEPT ![c] = Work(launch, PhasesOf(launch)[passed'[c] + 1], c)]
      /\ UNCHANGED <<launch, number, step, acc, locks, ctmp, rotA, cache13, cache2, output>>
  BY DEF Barrier
<1>2. passed[c] \in Int /\ DOMAIN passed = members /\ DOMAIN at = members
  BY Ranks DEF BarrierInv, BarrierTypeOK
<1>3. Buffers'
  BY <1>1 DEF Buffers
<1>4. CASE Enter(c) \/ Add(c) \/ Reset(c)
  <2>1. /\ members' = members /\ passed' = passed /\ rounds' = rounds /\ todo' = todo
        /\ launch' = launch /\ step' = step /\ acc' = acc
    BY <1>1, <1>4 DEF Enter, Add, Reset
  <2>2. TurnInv' /\ Data'
    BY <1>1, <2>1, SameInside
  <2>3. \A d \in members : at'[d] # "run" => passed[d] < rounds /\ ~ Working(d)
    <3>1. passed[c] < rounds
      BY <1>4 DEF Enter, Add, Reset, Shape
    <3>2. \A d \in members \ {c} : at'[d] = at[d]
      BY <1>2, <1>4 DEF Enter, Add, Reset
    <3> QED
      BY <1>1, <3>1, <3>2 DEF Shape, Working
  <2>4. /\ \A d : Phase(d)' = Phase(d) /\ (Working(d)' <=> Working(d))
        /\ \A ph, d : Units(ph, d)' = Units(ph, d)
    BY <2>1 DEF Phase, Working, Units
  <2>5. Shape'
    BY <2>1, <2>3, <2>4 DEF Shape
  <2> QED
    BY <1>3, <2>2, <2>5
<1>5. CASE Publish(c) \/ Released(c)
  <2>1. /\ at[c] = "publish" \/ (at[c] = "spin" /\ sense # seen[c])
        /\ members' = members /\ rounds' = rounds
        /\ at' = [at EXCEPT ![c] = "run"]
        /\ passed' = [passed EXCEPT ![c] = @ + 1]
    BY <1>5 DEF Publish, Released
  <2>2. passed'[c] # passed[c]
    BY <1>2, <2>1
  <2>3. Leaves(c)
    BY <1>1, <2>1, <2>2 DEF Leaves
  <2> QED
    BY <1>3, <2>3, LeavesTo, LeavesTurns, LeavesData
<1> QED
  BY <1>1, <1>4, <1>5 DEF BarrierStep

LEMMA DispatchKernel ==
  ASSUME Buffers, Shape, TurnInv, Data,
         UNCHANGED <<barrierVars, launch, number, todo, step, acc, locks, ctmp,
                     rotA, cache13, cache2, output>>
  PROVE  Shape' /\ TurnInv' /\ Data' /\ Buffers'
<1>1. /\ members' = members /\ passed' = passed /\ rounds' = rounds /\ todo' = todo /\ at' = at
      /\ launch' = launch /\ step' = step /\ acc' = acc
  BY DEF barrierVars
<1>2. TurnInv' /\ Data'
  BY <1>1, SameInside
<1>3. /\ \A d : Phase(d)' = Phase(d) /\ (Working(d)' <=> Working(d))
      /\ \A ph, d : Units(ph, d)' = Units(ph, d)
  BY <1>1 DEF Phase, Working, Units
<1>4. Shape'
  BY <1>1, <1>3 DEF Shape
<1>5. Buffers'
  BY DEF Buffers
<1> QED
  BY <1>2, <1>4, <1>5

\* What a CTA does keeps the invariant of a running kernel.
LEMMA CtaKernel ==
  ASSUME IInv, NEW c \in CtaIds, CtaStep(c)
  PROVE  /\ (stage = "kernel" => Shape' /\ TurnInv' /\ Data') /\ Buffers'
         /\ (stage # "kernel" => UNCHANGED <<locks, rotA, cache13, cache2, output>>)
         /\ started' \subseteq members /\ UNCHANGED <<launch, number, stage>> /\ members' = members
         /\ c \in members /\ [BarrierNext]_barrierVars
<1>1. /\ BarrierInv /\ Buffers /\ Stages /\ started \subseteq members
      /\ stage = "kernel" => Shape /\ TurnInv /\ Data
  BY DEF IInv, Stages, Kernel, TurnInv
<1>2. CASE Dispatch(c)
  <2>1. /\ c \in members /\ started' = started \cup {c}
        /\ UNCHANGED <<barrierVars, launch, number, stage, todo, step, acc, locks, ctmp,
                       rotA, cache13, cache2, output>>
    BY <1>2 DEF Dispatch
  <2>2. members' = members
    BY <2>1 DEF barrierVars
  <2>3. Buffers'
    BY <1>1, <2>1 DEF Buffers
  <2> QED
    BY <1>1, <2>1, <2>2, <2>3, DispatchKernel
<1>3. CASE Poll(c)
  <2>1. /\ c \in members /\ UNCHANGED vars
    BY <1>1, <1>3 DEF Poll
  <2>2. /\ started' = started
        /\ UNCHANGED <<barrierVars, launch, number, stage, todo, step, acc, locks, ctmp,
                       rotA, cache13, cache2, output>>
    BY <2>1 DEF vars, gpuVars
  <2>3. members' = members
    BY <2>2 DEF barrierVars
  <2>4. Buffers'
    BY <1>1, <2>2 DEF Buffers
  <2> QED
    BY <1>1, <2>1, <2>2, <2>3, <2>4, DispatchKernel
<1>4. CASE Barrier(c)
  <2>1. c \in members /\ BarrierStep(c) /\ UNCHANGED <<launch, number, stage, started>>
    BY <1>1, <1>4 DEF Barrier
  <2>2. stage = "kernel"
    BY <1>1, <2>1 DEF Stages
  <2>3. members' = members
    BY <2>1 DEF BarrierStep, Enter, Add, Reset, Publish, Released
  <2> QED
    BY <1>1, <1>4, <2>1, <2>2, <2>3, BarrierKernel DEF BarrierNext
<1>5. CASE Rotate(c) \/ Clear(c) \/ Activate(c) \/ Zero(c) \/ Multiply(c) \/ Turn(c)
              \/ MergeSlice(c) \/ PublishTurn(c) \/ Store(c)
  <2>1. c \in started /\ UNCHANGED <<barrierVars, launch, number, stage, started>>
    BY <1>5 DEF Rotate, Clear, Activate, Zero, Multiply, Turn, MergeSlice, PublishTurn, Store, Unit, Busy
  <2>2. c \in members /\ members' = members
    BY <1>1, <2>1 DEF barrierVars
  <2>3. stage = "kernel"
    BY <1>1, <2>2 DEF Stages
  <2>4. Shape' /\ TurnInv' /\ Data' /\ Buffers'
    BY <1>1, <1>5, <2>2, <2>3, RotateKernel, ClearKernel, ActivateKernel, ZeroKernel, MultiplyKernel,
       TurnKernel, MergeKernel, PublishKernel, StoreKernel
  <2> QED
    BY <1>1, <2>1, <2>2, <2>3, <2>4
<1> QED
  BY <1>2, <1>3, <1>4, <1>5 DEF CtaStep

-----------------------------------------------------------------------------
(* A launch begins, and ends *)

\* The first phase has the lowest rank.
LEMMA FirstPhase ==
  ASSUME NEW l \in Launches, NEW ph, HasPhase(l, ph)
  PROVE  /\ Rank(PhasesOf(l)[1]) <= Rank(ph) /\ Rank(ph) \in Nat /\ Rank(PhasesOf(l)[1]) \in Nat
         /\ ph \in PhaseNames
<1> DEFINE s == PhasesOf(l)
           N == Len(s)
<1>1. /\ N \in Nat /\ N >= 2
      /\ \A x \in 1 .. N : s[x] \in PhaseNames /\ Rank(s[x]) \in Nat
      /\ \A x, y \in 1 .. N : x < y => Rank(s[x]) < Rank(s[y])
  BY PhaseOrder, RankType
<1>2. PICK i \in 1 .. N : s[i] = ph
  BY DEF HasPhase
<1> HIDE DEF s, N
<1>3. 1 \in 1 .. N /\ i \in Int
  BY <1>1
<1>4. i = 1 \/ 1 < i
  BY <1>2
<1>5. Rank(s[1]) <= Rank(s[i]) /\ Rank(s[i]) \in Nat /\ Rank(s[1]) \in Nat /\ s[i] \in PhaseNames
  BY <1>1, <1>2, <1>3, <1>4
<1> QED
  BY <1>2, <1>5 DEF s

LEMMA LaunchKernel ==
  ASSUME IInv, NEW l \in Launches, Launch(l)
  PROVE  IInv' /\ [BarrierNext]_barrierVars
<1> DEFINE S == 0 .. Grid(l) - 1
           first == PhasesOf(l)[1]
           n == Len(PhasesOf(l)) - 1
<1>1. /\ stage = "idle" /\ BarrierLaunch(S, n)
      /\ todo' = [c \in S |-> Work(l, first, c)]
      /\ step' = [c \in S |-> "next"]
      /\ acc' = [c \in S |-> {}]
      /\ launch' = l /\ number' = number + 1 /\ stage' = "kernel" /\ started' = {}
      /\ UNCHANGED <<locks, ctmp, rotA, cache13, cache2, output>>
  BY DEF Launch
<1>2. /\ members' = S /\ rounds' = n /\ at' = [c \in S |-> "run"] /\ passed' = [c \in S |-> 0]
  BY <1>1 DEF BarrierLaunch
<1>3. BarrierInv /\ Buffers /\ Stages /\ LocksFree
  BY <1>1 DEF IInv
<1>4. n \in Nat /\ Len(PhasesOf(l)) \in Nat /\ n = Len(PhasesOf(l)) - 1
  BY PhaseOrder
<1>5. S \in (SUBSET CtaIds) \ {{}} /\ S # {}
  <2>1. Grid(l) \in 1 .. Cap /\ Cap \in Nat
    BY GridType
  <2>2. S \subseteq 0 .. Cap - 1 /\ 0 \in S
    BY <2>1
  <2> HIDE DEF S
  <2>3. S \subseteq CtaIds
    BY <2>2, CapAssumption
  <2>4. S # {}
    BY <2>2
  <2> QED
    BY <2>3, <2>4
<1>6. BarrierNext
  BY <1>1, <1>4, <1>5 DEF BarrierNext
<1>7. BarrierInv'
  BY <1>3, <1>6, NextInv
<1>8. /\ \A c \in S : Phase(c)' = first /\ passed'[c] = 0 /\ at'[c] = "run" /\ step'[c] = "next"
                      /\ todo'[c] = Work(l, first, c)
      /\ \A ph, c : Units(ph, c)' = DOMAIN Work(l, ph, c)
      /\ \A ph, c, i : Tile(ph, c, i)' <=> IsTile(l, ph, c, i)
      /\ \A ph, c, i : Piece(ph, c, i)' = PieceAt(l, ph, c, i)
      /\ ZeroFc2(launch)' <=> ZeroFc2(l)
  BY <1>1, <1>2 DEF Phase, Units, Tile, Piece
<1> HIDE DEF S, first, n
<1>9. Shape'
  <2>1. ASSUME NEW c \in S
        PROVE  /\ passed'[c] \in 0 .. n
               /\ DOMAIN todo'[c] \subseteq Units(Phase(c), c)'
               /\ \A i \in DOMAIN todo'[c] : todo'[c][i] = Work(l, Phase(c)', c)[i]
    <3>1. Units(Phase(c), c)' = DOMAIN Work(l, first, c)
      BY <1>1, <1>8 DEF Units
    <3> QED
      BY <1>4, <1>8, <3>1
  <2> QED
    BY <1>1, <1>2, <1>4, <1>8, <2>1 DEF Shape, S, n
<1>10. Stages'
  <2>1. members' # {} /\ started' \subseteq members' /\ launch' \in Launches
    BY <1>1, <1>2, <1>5
  <2>2. number' \in Nat /\ number' > 0
    BY <1>1, <1>3 DEF Stages
  <2> QED
    BY <1>1, <2>1, <2>2 DEF Stages
<1>11. Buffers'
  BY <1>1, <1>3 DEF Buffers
<1>12. ASSUME NEW ph, HasPhase(l, ph), NEW c \in S, NEW i \in DOMAIN Work(l, ph, c)
       PROVE  ~ Done(c, ph, i)' /\ ~ Published(c, ph, i)'
  <2>1. ~ (Rank(ph) < Rank(first))
    BY <1>12, FirstPhase DEF first
  <2>2. ~ Done(c, ph, i)'
    BY <1>8, <1>12, <2>1 DEF Done
  <2> QED
    BY <1>8, <2>2 DEF Published
<1>13. /\ HasPhase(l, "fc1") /\ HasPhase(l, "fc2") /\ \A ph \in GemmPhases : HasPhase(l, ph)
       /\ l.rotate => HasPhase(l, "rotate")
       /\ l.gated => HasPhase(l, "act")
       /\ ZeroFc2(l) => HasPhase(l, "zero")
  BY PhaseOf DEF GemmPhases
<1>14. \A ph \in GemmPhases : \A t : ~ Stored(ph, t)'
  BY <1>2, <1>8, <1>12, <1>13 DEF Stored
<1>15. StepExact'
  BY <1>2, <1>8 DEF StepExact, StepAt
<1>16. LocksAwaited'
  BY <1>1, <1>3 DEF LocksAwaited, LocksFree
<1>17. ASSUME NEW ph \in GemmPhases, NEW c \in S, NEW i \in DOMAIN Work(l, ph, c), IsTile(l, ph, c, i)
       PROVE  /\ PieceAt(l, ph, c, i).slice \in Nat
              /\ PieceAt(l, ph, c, i).slices > 1 => locks'[PieceAt(l, ph, c, i).slot] = 0
  <2>1. /\ PieceAt(l, ph, c, i).slices \in Nat \ {0}
        /\ PieceAt(l, ph, c, i).slice \in 0 .. PieceAt(l, ph, c, i).slices - 1
        /\ PieceAt(l, ph, c, i).slices > 1 => PieceAt(l, ph, c, i).slot \in 0 .. Cap - 1
    BY <1>17, TileType
  <2> QED
    BY <1>1, <1>3, <2>1 DEF LocksFree
<1>18. LocksExact'
  <2>1. ASSUME NEW ph \in GemmPhases, NEW c \in S, NEW i \in DOMAIN Work(l, ph, c), Awaited(ph, c, i)',
               NEW d \in S, NEW j \in DOMAIN Work(l, ph, d), IsTile(l, ph, d, j)
        PROVE  Published(d, ph, j)' <=> PieceAt(l, ph, d, j).slice < locks'[PieceAt(l, ph, c, i).slot]
    <3>1. IsTile(l, ph, c, i) /\ PieceAt(l, ph, c, i).slices > 1
      BY <1>8, <2>1 DEF Awaited
    <3>2. locks'[PieceAt(l, ph, c, i).slot] = 0 /\ PieceAt(l, ph, d, j).slice \in Nat
      BY <1>17, <2>1, <3>1
    <3> QED
      BY <1>12, <1>13, <2>1, <3>2
  <2> QED
    BY <1>2, <1>8, <2>1 DEF LocksExact
<1>19. ScratchExact'
  <2>1. ASSUME NEW ph \in GemmPhases, NEW c \in S, NEW i \in DOMAIN Work(l, ph, c), Awaited(ph, c, i)',
               PieceAt(l, ph, c, i).slice = locks'[PieceAt(l, ph, c, i).slot],
               PieceAt(l, ph, c, i).slice > 0
        PROVE  FALSE
    <3>1. IsTile(l, ph, c, i) /\ PieceAt(l, ph, c, i).slices > 1
      BY <1>8, <2>1 DEF Awaited
    <3> QED
      BY <1>17, <2>1, <3>1
  <2> QED
    BY <1>2, <1>8, <2>1 DEF ScratchExact
<1>20. Data'
  <2>1. RotatedIn' /\ Activated'
    BY <1>1, <1>2, <1>8, <1>12, <1>13 DEF RotatedIn, Activated
  <2>2. Fc1Gated' /\ Fc1Plain' /\ Fc2Rows'
    BY <1>14 DEF Fc1Gated, Fc1Plain, Fc2Rows, GemmPhases
  <2>3. Zeroed'
    BY <1>1, <1>2, <1>8, <1>12, <1>13 DEF Zeroed
  <2>4. Cleared'
    BY <1>1, <1>2, <1>8, <1>12, <1>13 DEF Cleared
  <2> QED
    BY <2>1, <2>2, <2>3, <2>4 DEF Data
<1>21. ResultExact'
  BY <1>1 DEF ResultExact
<1> QED
  BY <1>1, <1>6, <1>7, <1>9, <1>10, <1>11, <1>15, <1>16, <1>18, <1>19, <1>20, <1>21 DEF IInv, Kernel

\* A cell of the output belongs to one token and one column.
LEMMA CellOf ==
  ASSUME NEW n \in Nat \ {0}, NEW r \in Nat, NEW m \in 0 .. n - 1, NEW N \in Nat, r < N
  PROVE  /\ r * n + m \in 0 .. N * n - 1
         /\ (r * n + m) \div n = r
         /\ (r * n + m) % n = m
<1> DEFINE u == r * n + m
<1>1. r * n \in Nat /\ n * r = r * n /\ N * n = n * N /\ N * n \in Nat /\ r \in Int /\ N \in Int
  OBVIOUS
<1>2. n * r + n <= n * N
  BY <1>1, Steps
<1>3. u \in Int /\ 0 <= u /\ n * r <= u /\ u < n * r + n /\ u < N * n /\ u = n * r + m
  BY <1>1, <1>2
<1>4. u \div n = r
  <2> HIDE DEF u
  <2> QED
    BY <1>1, <1>3, Quotient
<1>5. u % n = m
  <2> DEFINE v == u % n
             q == u \div n
  <2> HIDE DEF u
  <2>1. v \in 0 .. n - 1 /\ u = n * q + v
    BY <1>3, Remainder
  <2>2. n * q = n * r
    BY <1>4
  <2> HIDE DEF v, q
  <2>3. v = m
    BY <1>1, <1>3, <2>1, <2>2
  <2> QED
    BY <2>3 DEF v
<1> QED
  BY <1>1, <1>3, <1>4, <1>5

\* When all CTAs are through their last phase every tile of it is stored.
LEMMA LastStored ==
  ASSUME Stages, Shape, NEW c \in members,
         \A d \in members : Phase(d) = "fc2" /\ ~ Working(d),
         NEW t \in 0 .. launch.routes * launch.n2 - 1
  PROVE  Stored("fc2", t) <=> t \div launch.n2 \notin launch.dead
<1>1. launch \in Launches /\ members = 0 .. Grid(launch) - 1 /\ NTiles(launch, "fc2") = launch.n2
  BY DEF Stages, Shape, NTiles
<1>2. ASSUME t \div launch.n2 \notin launch.dead
      PROVE  Stored("fc2", t)
  <2>1. PICK d \in members : \E i \in Units("fc2", d) :
           /\ Tile("fc2", d, i) /\ Piece("fc2", d, i).tile = t /\ LastSlice(Piece("fc2", d, i))
    BY <1>1, <1>2, TileLast DEF Units, Tile, Piece, GemmPhases
  <2>2. \A i : Done(d, "fc2", i)
    BY DEF Done, Working
  <2> QED
    BY <2>1, <2>2 DEF Stored
<1>3. ASSUME Stored("fc2", t)
      PROVE  t \div launch.n2 \notin launch.dead
  <2>1. PICK d \in members : \E i \in Units("fc2", d) :
           Tile("fc2", d, i) /\ Piece("fc2", d, i).tile = t
    BY <1>3 DEF Stored
  <2>2. PICK i \in Units("fc2", d) : Tile("fc2", d, i) /\ Piece("fc2", d, i).tile = t
    BY <2>1
  <2>3. IsTile(launch, "fc2", d, i) /\ PieceAt(launch, "fc2", d, i).tile = t
    BY <2>2 DEF Tile, Piece
  <2>4. PieceAt(launch, "fc2", d, i).tile \div NTiles(launch, "fc2") \notin launch.dead
    BY <1>1, <2>3, TileType
  <2> QED
    BY <1>1, <2>3, <2>4
<1> QED
  BY <1>2, <1>3

\* The exact result is what the rows of the live routes add up to.
Exact(token, n) == UNION {Whole(launch, "fc2", r * launch.n2 + n) : r \in RoutesOf(token) \ launch.dead}

\* The exact result is a matter of the launch and its number alone.
LEMMA ResultIs ==
  ASSUME UNCHANGED <<launch, number>>,
         \A token \in 0 .. (launch.routes \div launch.topk) - 1, n \in 0 .. launch.n2 - 1 :
             output'[token * launch.n2 + n] = Exact(token, n)
  PROVE  ResultExact'
<1>1. launch' = launch
  OBVIOUS
<1>2. \A token : RoutesOf(token)' = RoutesOf(token)
  BY <1>1 DEF RoutesOf
<1>3. \A t : Whole(launch, "fc2", t)' = Whole(launch, "fc2", t)
  BY FrameTerms
<1>4. ASSUME NEW token, NEW n
      PROVE  UNION {Whole(launch, "fc2", r * launch.n2 + n)' : r \in RoutesOf(token)' \ launch.dead}
                 = Exact(token, n)
  BY <1>2, <1>3 DEF Exact
<1>5. \A token \in 0 .. (launch.routes \div launch.topk) - 1, n \in 0 .. launch.n2 - 1 :
         output'[token * launch.n2 + n]
             = UNION {Whole(launch, "fc2", r * launch.n2 + n)' : r \in RoutesOf(token)' \ launch.dead}
  BY <1>4
<1> QED
  BY <1>1, <1>5 DEF ResultExact

LEMMA EndsKernel ==
  ASSUME IInv, KernelEnds
  PROVE  IInv' /\ [BarrierNext]_barrierVars
<1> DEFINE l == launch
<1>1. /\ stage = "kernel" /\ BarrierFinish
      /\ \A c \in members : c \in started /\ DOMAIN todo[c] = {}
      /\ stage' = IF launch.fused THEN "idle" ELSE "sum"
      /\ started' = {}
      /\ UNCHANGED <<launch, number, locks, ctmp, rotA, cache13, cache2, output>>
  BY DEF KernelEnds
<1>2. /\ BarrierInv /\ Buffers /\ Stages /\ Shape /\ LocksAwaited /\ Data
      /\ launch \in Launches
  BY <1>1 DEF IInv, Kernel, Stages
<1>3. BarrierNext
  BY <1>1 DEF BarrierNext
<1>4. BarrierInv'
  BY <1>2, <1>3, NextInv
<1>5. \A d \in members : Phase(d) = "fc2" /\ ~ Working(d) /\ at[d] = "run"
  <2>1. ASSUME NEW d \in members
        PROVE  Phase(d) = "fc2" /\ ~ Working(d) /\ at[d] = "run"
    <3>1. passed[d] = rounds /\ at[d] = "run"
      BY <1>1 DEF BarrierFinish
    <3>2. passed[d] + 1 = Len(PhasesOf(l))
      BY <1>2, <3>1, PhaseOrder DEF Shape
    <3> QED
      BY <1>1, <1>2, <3>1, <3>2, PhaseOrder DEF Phase, Working
  <2> QED
    BY <2>1
<1>6. PICK c \in members : TRUE
  BY <1>1 DEF BarrierFinish
<1>7. LocksFree
  BY <1>2, <1>5, NoneHeld DEF LocksFree
<1>8. /\ l.routes \in Nat \ {0} /\ l.n2 \in Nat \ {0} /\ l.topk \in Nat \ {0} /\ l.fused \in BOOLEAN
  BY <1>2, LaunchType
<1>9. \A t \in 0 .. l.routes * l.n2 - 1 : Stored("fc2", t) <=> t \div l.n2 \notin l.dead
  BY <1>2, <1>5, LastStored
<1>10. CASE ~ launch.fused
  <2>1. ASSUME NEW t \in 0 .. l.routes * l.n2 - 1
        PROVE  IF t \div l.n2 \in l.dead THEN ZeroFc2(l) => cache13[t] = {}
                                         ELSE cache13[t] = Whole(l, "fc2", t)
    <3>1. CASE t \div l.n2 \notin l.dead
      <4>1. t \in Cells
        BY <1>2, CellsIn
      <4> QED
        BY <1>2, <1>9, <1>10, <3>1, <4>1 DEF Data, Fc2Rows
    <3>2. CASE t \div l.n2 \in l.dead /\ ZeroFc2(l)
      <4>1. HasPhase(l, "zero") /\ t \in UnitCells(l, "zero")
        BY <1>2, <3>2, PhaseOf DEF UnitCells
      <4>2. Rank("zero") < Rank(Phase(c))
        BY <1>5, <1>6, RankIs
      <4>3. PICK d \in members : \E i \in Units("zero", d) :
               Work(l, "zero", d)[i].cell = t /\ Done(d, "zero", i)
        BY <1>2, <1>5, <1>6, <4>1, <4>2, AllUnits DEF UnitPhase
      <4> QED
        BY <1>2, <3>2, <4>3 DEF Data, Zeroed
    <3> QED
      BY <3>1, <3>2
  <2>2. RowsReady'
    BY <1>1, <2>1, FrameTerms DEF RowsReady, ZeroFc2
  <2>3. stage' = "sum"
    BY <1>1, <1>10
  <2>4. ResultExact'
    BY <2>3 DEF ResultExact
  <2>5. Stages'
    BY <1>1, <1>2, <1>10, <2>3 DEF Stages, BarrierFinish
  <2>6. LocksFree' /\ Buffers'
    BY <1>1, <1>2, <1>7 DEF LocksFree, Buffers
  <2> QED
    BY <1>3, <1>4, <2>2, <2>3, <2>4, <2>5, <2>6 DEF IInv
<1>11. CASE launch.fused
  <2>1. ASSUME NEW token \in 0 .. (l.routes \div l.topk) - 1, NEW n \in 0 .. l.n2 - 1
        PROVE  output[token * l.n2 + n] = Exact(token, n)
    <3> DEFINE u == token * l.n2 + n
               N == l.routes \div l.topk
    <3>1. N \in Nat
      BY <1>2, Sizes
    <3>2. u \in 0 .. N * l.n2 - 1 /\ u \div l.n2 = token /\ u % l.n2 = n
      <4>1. token \in 0 .. N - 1 /\ n \in 0 .. l.n2 - 1 /\ l.n2 \in Nat \ {0}
        BY <1>8
      <4> HIDE DEF N, l
      <4>2. token \in Nat /\ token < N
        BY <3>1, <4>1
      <4> QED
        BY <3>1, <4>1, <4>2, CellOf
    <3>3. u \in UnitCells(l, "clear")
      BY <1>11, <3>2 DEF UnitCells
    <3> HIDE DEF u, N
    <3>4. HasPhase(l, "fc1") /\ Rank("fc1") < Rank(Phase(c))
      BY <1>2, <1>5, <1>6, PhaseOf, RankIs
    <3>5. PICK d \in members : \E i \in Units("fc1", d) :
             Work(l, "fc1", d)[i].op = "clear" /\ Work(l, "fc1", d)[i].cell = u /\ Done(d, "fc1", i)
      BY <1>2, <1>5, <1>6, <3>3, <3>4, AllUnits DEF UnitPhase
    <3>6. output[u] = Collected(u)
      BY <1>2, <3>5 DEF Data, Cleared
    <3>7. TilesInto(u) = {r * l.n2 + n : r \in RoutesOf(token)}
      BY <3>2 DEF TilesInto
    <3>8. \A r \in RoutesOf(token) : Stored("fc2", r * l.n2 + n) <=> r \notin l.dead
      <4>1. ASSUME NEW r \in RoutesOf(token)
            PROVE  Stored("fc2", r * l.n2 + n) <=> r \notin l.dead
        <5>1. r \in Nat /\ r < l.routes /\ l.routes \in Nat
          BY <1>8, <4>1 DEF RoutesOf
        <5>2. r * l.n2 + n \in 0 .. l.routes * l.n2 - 1 /\ (r * l.n2 + n) \div l.n2 = r
          BY <1>8, <5>1, CellOf
        <5> QED
          BY <1>9, <5>2
      <4> QED
        BY <4>1
    <3>9. {t \in TilesInto(u) : Stored("fc2", t)} = {r * l.n2 + n : r \in RoutesOf(token) \ l.dead}
      BY <3>7, <3>8
    <3>10. Collected(u) = Exact(token, n)
      BY <3>9 DEF Collected, Exact
    <3> QED
      BY <3>6, <3>10 DEF u
  <2>2. ResultExact'
    BY <1>1, <2>1, ResultIs
  <2>3. stage' = "idle"
    BY <1>1, <1>11
  <2>4. Stages'
    BY <1>1, <1>2, <1>11, <2>3 DEF Stages, BarrierFinish
  <2>5. LocksFree' /\ Buffers'
    BY <1>1, <1>2, <1>7 DEF LocksFree, Buffers
  <2> QED
    BY <1>3, <1>4, <2>2, <2>3, <2>4, <2>5 DEF IInv
<1> QED
  BY <1>8, <1>10, <1>11

LEMMA SumKernel ==
  ASSUME IInv, TopKSum
  PROVE  IInv' /\ [BarrierNext]_barrierVars
<1> DEFINE l == launch
           summed(token) == IF ZeroFc2(launch) THEN RoutesOf(token) ELSE RoutesOf(token) \ launch.dead
           rows == 0 .. (launch.routes \div launch.topk) * launch.n2 - 1
<1>1. /\ stage = "sum" /\ stage' = "idle"
      /\ output' = [c \in Cells |-> IF c \in rows
                        THEN SumRows(summed(c \div launch.n2), c % launch.n2) ELSE output[c]]
      /\ UNCHANGED <<barrierVars, launch, number, started, locks, ctmp, rotA, cache13, cache2>>
  BY DEF TopKSum
<1>2. /\ BarrierInv /\ Buffers /\ Stages /\ LocksFree /\ RowsReady /\ launch \in Launches
  BY <1>1 DEF IInv, Stages
<1>3. /\ l.routes \in Nat \ {0} /\ l.n2 \in Nat \ {0} /\ l.topk \in Nat \ {0}
  BY <1>2, LaunchType
<1>4. number \in Nat /\ number > 0
  BY <1>1, <1>2 DEF Stages
<1>5. ASSUME NEW token \in 0 .. (l.routes \div l.topk) - 1, NEW n \in 0 .. l.n2 - 1
      PROVE  output'[token * l.n2 + n] = Exact(token, n)
  <2> DEFINE u == token * l.n2 + n
             N == l.routes \div l.topk
             row(r) == cache13[r * launch.n2 + n]
             rs == summed(token)
  <2>1. N \in Nat
    BY <1>2, Sizes
  <2>2. u \in 0 .. N * l.n2 - 1 /\ u \div l.n2 = token /\ u % l.n2 = n
    <3>1. token \in 0 .. N - 1 /\ n \in 0 .. l.n2 - 1 /\ l.n2 \in Nat \ {0}
      BY <1>3
    <3> HIDE DEF N, l
    <3>2. token \in Nat /\ token < N
      BY <2>1, <3>1
    <3> QED
      BY <2>1, <3>1, <3>2, CellOf
  <2>3. u \in Cells
    <3>1. N * l.n2 <= l.routes * l.n2 /\ N * l.n2 \in Int /\ l.routes * l.n2 \in Int
      BY <1>2, Sizes
    <3>2. u \in 0 .. l.routes * l.n2 - 1
      <4> HIDE DEF u
      <4> QED
        BY <2>2, <3>1
    <3> QED
      BY <1>2, <3>2, CellsIn
  <2>4. output'[u] = SumRows(rs, n)
    <3> HIDE DEF u
    <3>1. u \in rows
      BY <2>2
    <3> QED
      BY <1>1, <2>2, <2>3, <3>1
  <2>5. ASSUME NEW r \in RoutesOf(token)
        PROVE  /\ r \in Nat
               /\ r \notin l.dead => row(r) = Whole(l, "fc2", r * l.n2 + n)
               /\ r \in l.dead /\ ZeroFc2(l) => row(r) = {}
               /\ (r * l.n2 + n) \div l.n2 = r
    <3>1. r \in Nat /\ r < l.routes /\ l.routes \in Nat
      BY <1>3, <2>5 DEF RoutesOf
    <3>2. r * l.n2 + n \in 0 .. l.routes * l.n2 - 1 /\ (r * l.n2 + n) \div l.n2 = r
      BY <1>3, <3>1, CellOf
    <3> QED
      BY <1>2, <3>1, <3>2 DEF RowsReady
  <2>6. ASSUME NEW r \in rs
        PROVE  /\ r \in RoutesOf(token)
               /\ r \notin l.dead => row(r) = Whole(l, "fc2", r * l.n2 + n)
               /\ r \in l.dead => row(r) = {}
    BY <2>5, <2>6
  <2>7. \A r \in rs : \A x \in row(r) : x[1] = number /\ x[3] = r * l.n2 + n
    <3>1. ASSUME NEW r \in rs, NEW x \in row(r)
          PROVE  x[1] = number /\ x[3] = r * l.n2 + n
      <4>1. row(r) = Whole(l, "fc2", r * l.n2 + n)
        BY <2>6, <3>1
      <4>2. x \in Whole(l, "fc2", r * l.n2 + n)
        BY <3>1, <4>1
      <4> QED
        BY <4>2 DEF Whole
    <3> QED
      BY <3>1
  <2>8. \A r \in rs : row(r) # Junk
    <3>1. \E x \in Junk : x[1] = 0
      BY DEF Junk
    <3> QED
      BY <1>4, <2>7, <3>1
  <2>9. \A r, q \in rs : r # q => row(r) \cap row(q) = {}
    <3>1. \A r, q \in rs : r # q => r * l.n2 + n # q * l.n2 + n
      BY <2>5, <2>6
    <3> QED
      BY <2>7, <3>1
  <2>10. SumRows(rs, n) = UNION {row(r) : r \in rs}
    <3> HIDE DEF rs
    <3> QED
      BY <2>8, <2>9 DEF SumRows
  <2>11. UNION {row(r) : r \in rs} = Exact(token, n)
    <3>1. RoutesOf(token) \ l.dead \subseteq rs /\ rs \subseteq RoutesOf(token)
      OBVIOUS
    <3>2. \A r \in rs : row(r) = IF r \in l.dead THEN {} ELSE Whole(l, "fc2", r * l.n2 + n)
      BY <2>6
    <3> HIDE DEF rs, row
    <3>3. UNION {row(r) : r \in rs} = UNION {Whole(l, "fc2", r * l.n2 + n) : r \in RoutesOf(token) \ l.dead}
      BY <3>1, <3>2
    <3> QED
      BY <3>3 DEF Exact
  <2> QED
    BY <2>4, <2>10, <2>11
<1>6. ResultExact'
  BY <1>1, <1>5, ResultIs
<1>7. BarrierInv'
  BY <1>1, <1>2, NextInv
<1>8. Buffers' /\ LocksFree'
  BY <1>1, <1>2 DEF Buffers, LocksFree
<1>9. Stages'
  BY <1>1, <1>2, <1>4 DEF Stages, barrierVars
<1> QED
  BY <1>1, <1>6, <1>7, <1>8, <1>9 DEF IInv

-----------------------------------------------------------------------------
(* The kernel *)

LEMMA InitIInv == Init => IInv
<1> SUFFICES ASSUME Init PROVE IInv
  OBVIOUS
<1>1. BarrierInv
  BY InitInv DEF Init
<1>2. Buffers
  BY DEF Init, Buffers, GemmPhases
<1>3. Stages
  BY DEF Init, Stages, BarrierInit
<1>4. LocksFree
  BY DEF Init, LocksFree
<1>5. ResultExact
  BY DEF Init, ResultExact
<1> QED
  BY <1>1, <1>2, <1>3, <1>4, <1>5 DEF Init, IInv

LEMMA StutterIInv ==
  ASSUME IInv, UNCHANGED vars
  PROVE  IInv' /\ [BarrierNext]_barrierVars
<1>1. UNCHANGED <<barrierVars, launch, number, stage, started, todo, step, acc, locks, ctmp,
                  rotA, cache13, cache2, output>>
  BY DEF vars, gpuVars
<1>2. BarrierInv /\ Buffers /\ Stages /\ ResultExact
  BY DEF IInv
<1>3. BarrierInv'
  BY <1>1, <1>2, NextInv
<1>4. Buffers' /\ Stages'
  BY <1>1, <1>2 DEF Buffers, Stages, barrierVars
<1>5. ResultExact'
  BY <1>1, <1>2 DEF ResultExact, RoutesOf, Whole, Gemm
<1>6. CASE stage = "kernel"
  <2>1. Shape' /\ TurnInv' /\ Data'
    BY <1>1, <1>2, <1>6, DispatchKernel DEF IInv, Kernel, TurnInv
  <2> QED
    BY <1>1, <1>3, <1>4, <1>5, <1>6, <2>1 DEF IInv, Kernel, TurnInv
<1>7. CASE stage # "kernel"
  <2>1. LocksFree'
    BY <1>1, <1>7 DEF IInv, LocksFree
  <2>2. stage = "sum" => RowsReady'
    BY <1>1, <1>7, FrameTerms DEF IInv, RowsReady, ZeroFc2
  <2> QED
    BY <1>1, <1>3, <1>4, <1>5, <1>7, <2>1, <2>2 DEF IInv
<1> QED
  BY <1>6, <1>7

\* Every step of the kernel, of the host and of the top-k sum keeps the
\* invariant and is a step of the barrier or leaves its words alone.
LEMMA NextIInv ==
  ASSUME IInv, [Next]_vars
  PROVE  IInv' /\ [BarrierNext]_barrierVars
<1>1. ASSUME NEW l \in Launches, Launch(l)
      PROVE  IInv' /\ [BarrierNext]_barrierVars
  BY <1>1, LaunchKernel
<1>2. ASSUME NEW c \in CtaIds, CtaStep(c)
      PROVE  IInv' /\ [BarrierNext]_barrierVars
  <2>1. /\ BarrierInv /\ Stages
        /\ (stage = "kernel" => Shape' /\ TurnInv' /\ Data') /\ Buffers'
        /\ started' \subseteq members /\ UNCHANGED <<launch, number, stage>> /\ members' = members
        /\ c \in members /\ [BarrierNext]_barrierVars
    BY <1>2, CtaKernel DEF IInv
  <2>2. stage = "kernel" /\ stage' = "kernel"
    BY <2>1 DEF Stages
  <2>3. BarrierInv'
    BY <2>1, NextInv
  <2>4. Stages'
    BY <2>1 DEF Stages
  <2>5. ResultExact'
    BY <2>2 DEF ResultExact
  <2> QED
    BY <2>1, <2>2, <2>3, <2>4, <2>5 DEF IInv, Kernel, TurnInv
<1>3. CASE KernelEnds
  BY <1>3, EndsKernel
<1>4. CASE TopKSum
  BY <1>4, SumKernel
<1>5. CASE Finished \/ UNCHANGED vars
  BY <1>5, StutterIInv DEF Finished
<1> QED
  BY <1>1, <1>2, <1>3, <1>4, <1>5 DEF Next

\* At every step of every launch each CTA has left of its phase exactly what
\* it has not done, a lock counts the K slices merged so far, the scratch holds
\* their sum, and the intermediates hold what the phases before have left.
THEOREM KernelInvariant == Spec => []IInv
<1>1. IInv /\ [Next]_vars => IInv'
  BY NextIInv
<1> QED
  BY <1>1, InitIInv, PTL DEF Spec

\* A call returns, for every row of its output, the sum over the token's local
\* routes of one product per K tile of FC2: for every grid size, division of
\* the GEMMs, order of the CTAs and history of launches on the workspace.
THEOREM KernelExact == Spec => []ResultExact
<1>1. IInv => ResultExact
  BY DEF IInv
<1> QED
  BY <1>1, KernelInvariant, PTL

\* A launch hands the workspace on with every lock and the arrival counter at
\* zero, which is what the next launch, of any size, takes for granted.
THEOREM KernelClean == Spec => []WorkspaceClean
<1>1. IInv => WorkspaceClean
  <2> SUFFICES ASSUME IInv, stage # "kernel" PROVE count = 0 /\ \A s \in DOMAIN locks : locks[s] = 0
    BY DEF WorkspaceClean
  <2>1. members = {} /\ BarrierInv
    BY DEF IInv, Stages
  <2>2. count = 0
    BY <2>1, EmptyCount
  <2>3. \A s \in DOMAIN locks : locks[s] = 0
    BY DEF IInv, LocksFree, Buffers
  <2> QED
    BY <2>2, <2>3
<1> QED
  BY <1>1, KernelInvariant, PTL

\* The kernel uses its grid barrier as the abstract one: no CTA begins a phase
\* of the fused kernel before all CTAs of the launch have ended the one before.
THEOREM KernelPhases == Spec => ImplementsPhases
<1>1. Init => BarrierInit
  BY DEF Init
<1>2. IInv /\ [Next]_vars => [BarrierNext]_barrierVars
  BY NextIInv
<1>3. Spec => BarrierSpec
  BY <1>1, <1>2, KernelInvariant, PTL DEF Spec, BarrierSpec
<1> QED
  BY <1>3, ImplementsBarrier
=============================================================================
