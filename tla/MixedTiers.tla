------------------------------ MODULE MixedTiers ------------------------------
(***************************************************************************)
(* Where the weights of an EXL3 MoE layer are kept once it is loaded, and   *)
(* where the mixed-Trellis kernel looks for them.                          *)
(*                                                                         *)
(* A layer gives every expert e of 0 .. E - 1 a bitrate per projection,    *)
(* bits[p][e].  The experts of one bitrate are a tier; loading copies the   *)
(* planes of a tier into two slabs of its own and leaves the record        *)
(*   [tiers, map, desc, rotation]                                          *)
(* behind: per tier [bits, w13, w2, gate, up, slots], the route map, per    *)
(* projection the descriptor row, and the rotation rows.  A plane is named  *)
(* after the payload it holds, <<p, e>>; Zeros is a plane never written.   *)
(***************************************************************************)
EXTENDS Integers, Sequences, FiniteSets, FiniteSetsExt, Functions

CONSTANTS
    MaxTier,        \* _MAX_TIER_EXPERTS: a tier-local index has eight bits
    NativeRates     \* the bitrates the three-tier kernel is compiled for

ASSUME MaxTierAssumption == MaxTier \in Nat \ {0}

Projections == {"gate", "up", "down"}
Zeros == <<"zeros", 0>>
NoEntry == [tier |-> -1, local |-> 0]
Skipped == [plane |-> Zeros, bits |-> 0, rotation |-> -1]

Experts(bits) == DOMAIN bits["gate"]
Assigned(bits) ==
    LET n == Cardinality(Experts(bits))
    IN n \in Nat \ {0} /\ bits \in [Projections -> [0 .. n - 1 -> Nat \ {0}]]
InOrder(bits) == [i \in 1 .. Cardinality(Experts(bits)) |-> i - 1]
Rates(bits) == UNION {Range(bits[p]) : p \in Projections}

\* The members of a set by ascending key, and those of a set of numbers.
SortedBy(S, key) ==
    [i \in 1 .. Cardinality(S) |->
        CHOOSE x \in S : Cardinality({y \in S : key[y] < key[x]}) = i - 1]
Ascending(S) == SortedBy(S, [x \in S |-> x])

TierBits(bits) == Ascending(Rates(bits))
TierOf(bits, k) == Cardinality({b \in Rates(bits) : b < k})

\* gate_ids, up_ids, down_ids: the experts of a tier, in expert order.
Members(bits, p, k) == Ascending({e \in Experts(bits) : bits[p][e] = k})
Planes(bits, p, k) == [i \in DOMAIN Members(bits, p, k) |-> <<p, Members(bits, p, k)[i]>>]
AtLeastOne(planes) == IF planes = <<>> THEN <<Zeros>> ELSE planes
Padded(row, n, with) == row \o [i \in 1 .. n - Len(row) |-> with]

\* The sum of the slots of all tiers.
Stride(tiers) == Cardinality(UNION {{t} \X (1 .. tiers[t].slots) : t \in DOMAIN tiers})

-----------------------------------------------------------------------------
(* One tier per bitrate of any projection.  w13 holds the gate planes and   *)
(* then, with nothing between them, the up planes.                         *)

Tier(bits, k) ==
    LET gate == Planes(bits, "gate", k)
        up == Planes(bits, "up", k)
    IN [bits |-> k, w13 |-> AtLeastOne(gate \o up),
        w2 |-> AtLeastOne(Planes(bits, "down", k)),
        gate |-> Len(gate), up |-> Len(up), slots |-> Max({Len(gate), Len(up), 1})]

Tiers(bits) == [t \in DOMAIN TierBits(bits) |-> Tier(bits, TierBits(bits)[t])]

\* build_projection_tiered_maps: the tier and the place in it, counted in
\* expert order per projection.
Entry(bits, p, e) ==
    [tier |-> TierOf(bits, bits[p][e]),
     local |-> Cardinality({f \in Experts(bits) : f < e /\ bits[p][f] = bits[p][e]})]

\* ... which refuses what its eight bits cannot number.
Oversized(bits) ==
    \/ \E t \in DOMAIN Tiers(bits) : Tiers(bits)[t].slots > MaxTier
    \/ \E p \in Projections : \E e \in Experts(bits) : Entry(bits, p, e).local >= MaxTier

\* _prepare_r7_b12x_weights: routes keep their global number; the descriptor
\* rows and the rotations are padded to one row per slot.
ProjectionTiered(bits) ==
    LET width == Stride(Tiers(bits))
        row(p) == [i \in DOMAIN InOrder(bits) |-> Entry(bits, p, i - 1)]
    IN [tiers |-> Tiers(bits), map |-> [e \in Experts(bits) |-> e],
        desc |-> [p \in Projections |-> Padded(row(p), width, NoEntry)],
        rotation |-> Padded(InOrder(bits), width, -1)]

-----------------------------------------------------------------------------
(* One tier per expert, the three projections alike: the experts are       *)
(* renumbered tier by tier and everything follows that order.              *)

TierOrder(bits) ==
    SortedBy(Experts(bits), [e \in Experts(bits) |->
                                bits["gate"][e] * Cardinality(Experts(bits)) + e])

ExpertTiered(bits) ==
    LET order == TierOrder(bits)
        row == [i \in DOMAIN order |-> Entry(bits, "gate", order[i])]
    IN [tiers |-> Tiers(bits),
        map |-> [e \in Experts(bits) |-> (CHOOSE i \in DOMAIN order : order[i] = e) - 1],
        desc |-> [p \in Projections |-> row],
        rotation |-> order]

-----------------------------------------------------------------------------
(* bind_mixed_trellis, bind_mixed_trellis3: slabs, maps and tables must     *)
(* have the extents the launch gives the kernel.                           *)

TierStored(tier) ==
    /\ tier.gate \in 0 .. tier.slots
    /\ tier.up \in 0 .. tier.slots
    /\ Len(tier.w13) = Max({tier.gate + tier.up, 1})
    /\ Len(tier.w2) \in 1 .. MaxTier

Encoded(a, p, t) == Cardinality({i \in DOMAIN a.desc[p] : a.desc[p][i].tier = t - 1})

Bindable(a, experts) ==
    /\ \A t \in DOMAIN a.tiers :
          /\ TierStored(a.tiers[t])
          /\ Encoded(a, "gate", t) = a.tiers[t].gate
          /\ Encoded(a, "up", t) = a.tiers[t].up
    /\ DOMAIN a.map = experts
    /\ \A p \in Projections : Len(a.desc[p]) = Stride(a.tiers)
    /\ Len(a.rotation) = Stride(a.tiers)

\* The three-tier grid exists for one set of bitrates.
Compilable(a) ==
    Len(a.tiers) = 3 => {a.tiers[t].bits : t \in DOMAIN a.tiers} = NativeRates

-----------------------------------------------------------------------------
(* _emit_tier_tile: the weights an output tile of a route block is computed *)
(* with.  The N tiles of FC1 are split in half: gate, then up.  The base of *)
(* the up half is half the w13 view, which the launch sizes by the gate     *)
(* count.                                                                  *)

DescriptorRow(fc1, n, half) == IF ~fc1 THEN "down" ELSE IF n >= half THEN "up" ELSE "gate"

InTierBounds(tier, p, local) ==
    local < CASE p = "gate" -> tier.gate [] p = "up" -> tier.up [] OTHER -> Len(tier.w2)

\* With the up half behind a padded gate half.
PlaneAtPadded(tier, p, local) ==
    CASE p = "gate" -> tier.w13[local + 1]
      [] p = "up"   -> tier.w13[Min({tier.slots + local + 1, Len(tier.w13)})]
      [] OTHER      -> tier.w2[local + 1]
PlaneAt(tier, p, local) ==
    CASE p = "gate" -> tier.w13[local + 1]
      [] p = "up"   -> tier.w13[tier.gate + local + 1]
      [] OTHER      -> tier.w2[local + 1]

Emitted(a, fc1, n, half, e) ==
    LET combined == a.map[e]
        p == DescriptorRow(fc1, n, half)
        entry == a.desc[p][combined + 1]
        tier == a.tiers[entry.tier + 1]
    IN IF combined \notin 0 .. Stride(a.tiers) - 1 \/ entry = NoEntry THEN Skipped
       ELSE IF ~InTierBounds(tier, p, entry.local) THEN Skipped
       ELSE [plane |-> PlaneAt(tier, p, entry.local), bits |-> tier.bits,
             rotation |-> a.rotation[combined + 1]]
=============================================================================
