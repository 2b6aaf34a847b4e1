-------------------------- MODULE K35StateMachine --------------------------
(***************************************************************************)
(* The sealed campaign state and its public transitions, as the drivers in *)
(* src/encode use them.  The transitions live in                           *)
(* quant_pipeline.campaign.glm53_uniform_k35, which is not part of the     *)
(* repository: they are modelled here from their call sites.               *)
(*                                                                         *)
(* A receipt hash is modelled by what it is a function of.  A state is     *)
(* identified by its plan and its sequence number, hence a claim, which    *)
(* seals plan, parent state, worker and layer, by those four; everything   *)
(* that embeds claim_receipt_sha256 embeds the claim record.               *)
(***************************************************************************)
EXTENDS Naturals, Sequences

CONSTANTS Workers,    \* worker ids the plan accepts (verify_plan_worker)
          NumLayers,  \* routed layers of the plan (3..44 in the campaign)
          NoClaim     \* "no active claim", "not completed", "no receipt"

Layers == 1..NumLayers

Claim == [plan : Nat, parent : Nat, worker : Workers, layer : Layers]

(* A row of completed_layers: the claim it completes and the claim the     *)
(* layer receipt it records was sealed under.                              *)
Completion == [claim : Claim, receipt : Claim]

(* A phase-6 readiness receipt seals the plan it binds and the allocations *)
(* that were on disk.                                                      *)
Readiness == [plan : Nat, alloc : Nat]

ASSUME StateMachineAssumption ==
  /\ NumLayers \in Nat \ {0}
  /\ NoClaim \notin Claim
  /\ NoClaim \notin Completion

Phase == {"planned", "k35_main_encoding", "k35_main_encoded"}

CampaignState ==
  [plan : Nat, seq : Nat, phase : Phase,
   readiness : Readiness \union {NoClaim},
   pending : Seq(Layers),
   active : [Workers -> Claim \union {NoClaim}],
   completed : [Layers -> Completion \union {NoClaim}]]

-----------------------------------------------------------------------------

(* initial_state: every layer of the plan pends, in plan order. *)
InitialState(plan) ==
  [plan |-> plan, seq |-> 0, phase |-> "planned", readiness |-> NoClaim,
   pending |-> [i \in Layers |-> i],
   active |-> [w \in Workers |-> NoClaim],
   completed |-> [l \in Layers |-> NoClaim]]

(* _successor: the next sequence number of the same plan's chain. *)
Successor(s, pending, active, completed) ==
  [plan |-> s.plan, seq |-> s.seq + 1, phase |-> s.phase, readiness |-> s.readiness,
   pending |-> pending, active |-> active, completed |-> completed]

(* A successor that only moves the campaign to another phase. *)
InPhase(s, phase, readiness) ==
  [plan |-> s.plan, seq |-> s.seq + 1, phase |-> phase, readiness |-> readiness,
   pending |-> s.pending, active |-> s.active, completed |-> s.completed]

EnterEncoding(s, readiness) == InPhase(s, "k35_main_encoding", readiness)

SealMain(s) == InPhase(s, "k35_main_encoded", s.readiness)

(* The claim claim_next_layer mints for the first pending layer. *)
NextClaim(s, w) ==
  [plan |-> s.plan, parent |-> s.seq, worker |-> w, layer |-> Head(s.pending)]

ClaimNextLayer(s, w) ==
  Successor(s, Tail(s.pending),
            [s.active EXCEPT ![w] = NextClaim(s, w)], s.completed)

CompleteLayer(s, w, receipt) ==
  LET c == s.active[w]
  IN  Successor(s, s.pending, [s.active EXCEPT ![w] = NoClaim],
                [s.completed EXCEPT ![c.layer] = [claim |-> c, receipt |-> receipt]])

(* Mutants: the layer before the claimed one is requeued; the claim stays. *)
RequeuePredecessor(s, w) ==
  Successor(s, <<s.active[w].layer - 1>> \o s.pending,
            [s.active EXCEPT ![w] = NoClaim], s.completed)

RequeueKeepClaim(s, w) ==
  Successor(s, <<s.active[w].layer>> \o s.pending, s.active, s.completed)

(* recover_worker: the claim is dropped, its layer is requeued at the front. *)
RecoverySuccessor(s, w) ==
  Successor(s, <<s.active[w].layer>> \o s.pending,
            [s.active EXCEPT ![w] = NoClaim], s.completed)

-----------------------------------------------------------------------------
(* Where a layer is in a state: pending, in flight or completed, each layer *)
(* in exactly one of them and at most once.                                *)

Pending(s, l) == \E i \in DOMAIN s.pending : s.pending[i] = l
InFlight(s, l) == \E w \in Workers : s.active[w] # NoClaim /\ s.active[w].layer = l
Completed(s, l) == s.completed[l] # NoClaim

CensusOf(s) ==
  /\ \A l \in Layers : Pending(s, l) \/ InFlight(s, l) \/ Completed(s, l)
  /\ \A l \in Layers : Pending(s, l) => ~InFlight(s, l) /\ ~Completed(s, l)
  /\ \A l \in Layers : InFlight(s, l) => ~Completed(s, l)
  /\ \A i, j \in DOMAIN s.pending : s.pending[i] = s.pending[j] => i = j
  /\ \A v, w \in Workers :
       (/\ s.active[v] # NoClaim /\ s.active[w] # NoClaim
        /\ s.active[v].layer = s.active[w].layer) => v = w
=============================================================================
