------------------------------- MODULE K35Mtp -------------------------------
(***************************************************************************)
(* After the main layers: the MTP45 driver, which seals the main encoding, *)
(* encodes layer 45 under a claim it mints itself, writes the adapter      *)
(* receipt and qualifies it, and the surface phase 8 loads.                *)
(*                                                                         *)
(* The chain of the plan in force is modelled by its newest state, and the *)
(* phase-7 workers by one step that drains the main layers.  A re-plan is  *)
(* one step (K35Replan splits it): new allocations, plan.json and chain.   *)
(* Allocations are identified by the plan built from them.                 *)
(***************************************************************************)
EXTENDS Naturals

CONSTANTS Procs,      \* runs of the driver that may overlap
          Workers,    \* values of --worker
          Codecs,     \* codec identities a container may have
          NumExperts, \* experts of layer 45
          MaxPlan,    \* bound on re-plans
          Usages,     \* ways the operator runs the driver
          None        \* absent

Plans == 1..MaxPlan
Experts == 1..NumExperts

Phase == {"k35_main_encoding", "k35_main_encoded", "k35_mtp_qualified"}

(* The minted claim's hash is a function of plan, parent state and worker; *)
(* the parent states that can be newest at the mint differ by phase.       *)
Claim == [plan : Plans, parent : Phase, worker : Workers]

(* An expert receipt: its claim and the codec that encoded it. *)
ExpertReceipt == [claim : Claim, codec : Codecs]

(* The layer receipt: its claim and the expert receipts it seals. *)
LayerReceipt == [claim : Claim, sealed : [Experts -> ExpertReceipt]]

ASSUME MtpAssumption ==
  /\ NumExperts \in Nat \ {0}
  /\ MaxPlan \in Nat \ {0}
  /\ Usages \subseteq [ids : SUBSET Workers, codecs : SUBSET Codecs, plans : Plans]
  /\ None \notin Phase \union LayerReceipt

VARIABLES
  usage,      \* the --worker ids and the containers of the runs, the
              \* plans there will be
  plan,       \* plan.json
  state,      \* newest state of its chain: phase, the adapter it qualifies
  main,       \* the plan the receipts under layers/L03..L44 were sealed for
  readiness,  \* gss/readiness-receipt.json
  experts,    \* expert receipts of layers/L45
  receipt45,  \* layers/L45/layer-receipt.json
  adapter,    \* gss/mtp45-adapter-receipt.json
  packed,     \* what phase 8 last loaded
  pc, bound,  \* where a run is, what it runs under
  claim,      \* the claim it minted
  at,         \* the expert it is at
  packing     \* the layer receipt it binds into the adapter

campaign == <<usage, plan, state, main, readiness>>
layer45 == <<experts, receipt45>>
driver == <<pc, bound, claim, at, packing>>
vars == <<campaign, layer45, adapter, packed, driver>>

(* What a run holds: seen is the phase it read under the state lock. *)
Run == [plan : Plans, codec : Codecs, worker : Workers, seen : Phase \union {None}]

Adapter == [plan : Plans, codec : Codecs, packed : LayerReceipt]

Init ==
  /\ usage \in Usages
  /\ plan = 1
  /\ state = [phase |-> "k35_main_encoding", qualified |-> None]
  /\ main = 0
  /\ readiness \in [plan : {1}, codec : usage.codecs]
  /\ experts = [e \in Experts |-> None]
  /\ receipt45 = None /\ adapter = None /\ packed = None
  /\ pc = [p \in Procs |-> "down"]
  /\ bound = [p \in Procs |-> None]
  /\ claim = [p \in Procs |-> None]
  /\ at = [p \in Procs |-> 1]
  /\ packing = [p \in Procs |-> None]

-----------------------------------------------------------------------------
(* The driver *)

Go(p, where) == pc' = [pc EXCEPT ![p] = where]

Leave(p, how) ==
  /\ Go(p, how)
  /\ bound' = [bound EXCEPT ![p] = None]
  /\ claim' = [claim EXCEPT ![p] = None]
  /\ at' = [at EXCEPT ![p] = 1]
  /\ packing' = [packing EXCEPT ![p] = None]

Exit(p) == Leave(p, "down")

Die(p) ==
  /\ Exit(p)
  /\ UNCHANGED <<campaign, layer45, adapter, packed>>

Stopped == {"down", "killed"}

Crash(p) ==
  /\ pc[p] \notin Stopped
  /\ Leave(p, "killed")
  /\ UNCHANGED <<campaign, layer45, adapter, packed>>

(* Startup: plan.json, and a readiness receipt that binds it and the codec *)
(* of this container; otherwise the run stops before it changes anything.  *)
Start(p, w, c) ==
  /\ pc[p] \in Stopped /\ w \in usage.ids
  /\ readiness = [plan |-> plan, codec |-> c]
  /\ Go(p, "started")
  /\ bound' = [bound EXCEPT ![p] = [plan |-> plan, codec |-> c, worker |-> w, seen |-> None]]
  /\ UNCHANGED <<campaign, layer45, adapter, packed, claim, at, packing>>

(* newest_state filters by the plan.  Mutant: it does not. *)
HasAnyState(p) == TRUE

HasState(p) == plan = bound[p].plan

Drained == main = plan

(* Under the state lock: the drained main encoding is sealed, unless it is. *)
SealMain(p) ==
  /\ pc[p] = "started" /\ HasState(p)
  /\ \/ /\ state.phase = "k35_main_encoding" /\ Drained
        /\ state' = [state EXCEPT !.phase = "k35_main_encoded"]
     \/ /\ state.phase = "k35_main_encoded"
        /\ UNCHANGED state
  /\ bound' = [bound EXCEPT ![p].seen = state.phase]
  /\ Go(p, "mint")
  /\ UNCHANGED <<usage, plan, main, readiness, layer45, adapter, packed, claim, at, packing>>

RefuseSealMain(p) ==
  /\ pc[p] = "started"
  /\ \/ ~HasState(p)
     \/ state.phase = "k35_mtp_qualified"
     \/ state.phase = "k35_main_encoding" /\ ~Drained
  /\ Die(p)

(* Outside the lock: the claim's parent is the newest state, whatever it   *)
(* is by now.  Mutant: the state the run read before it sealed.            *)
ParentSeen(p) == bound[p].seen

Parent(p) == state.phase

Mint(p) ==
  /\ pc[p] = "mint" /\ HasState(p)
  /\ claim' = [claim EXCEPT ![p] =
       [plan |-> plan, parent |-> Parent(p), worker |-> bound[p].worker]]
  /\ Go(p, "minted")
  /\ UNCHANGED <<campaign, layer45, adapter, packed, bound, at, packing>>

(* The chain is gone, or the allocation of layer 45 is not the plan's. *)
RefusePlan(p) ==
  /\ pc[p] \in {"mint", "minted"} /\ ~HasState(p)
  /\ Die(p)

(* A layer receipt on disk that says complete is taken as it is. *)
Adopt(p) ==
  /\ pc[p] = "minted" /\ HasState(p)
  /\ receipt45 # None
  /\ packing' = [packing EXCEPT ![p] = receipt45]
  /\ Go(p, "adapter")
  /\ UNCHANGED <<campaign, layer45, adapter, packed, bound, claim, at>>

BeginLayer(p) ==
  /\ pc[p] = "minted" /\ HasState(p)
  /\ receipt45 = None
  /\ Go(p, "expert")
  /\ UNCHANGED <<campaign, layer45, adapter, packed, bound, claim, at, packing>>

SkipExpert(p) ==
  /\ pc[p] = "expert" /\ at[p] \in Experts
  /\ experts[at[p]] # None /\ experts[at[p]].claim = claim[p]
  /\ at' = [at EXCEPT ![p] = @ + 1]
  /\ UNCHANGED <<campaign, layer45, adapter, packed, pc, bound, claim, packing>>

RefuseExpert(p) ==
  /\ pc[p] = "expert" /\ at[p] \in Experts
  /\ experts[at[p]] # None /\ experts[at[p]].claim # claim[p]
  /\ Die(p)

(* The receipt was absent when the run looked, and is written minutes later. *)
EncodeExpert(p) ==
  /\ pc[p] = "expert" /\ at[p] \in Experts
  /\ experts[at[p]] = None
  /\ Go(p, "encoding")
  /\ UNCHANGED <<campaign, layer45, adapter, packed, bound, claim, at, packing>>

WriteExpert(p) ==
  /\ pc[p] = "encoding"
  /\ experts' = [experts EXCEPT ![at[p]] = [claim |-> claim[p], codec |-> bound[p].codec]]
  /\ at' = [at EXCEPT ![p] = @ + 1]
  /\ Go(p, "expert")
  /\ UNCHANGED <<campaign, receipt45, adapter, packed, bound, claim, packing>>

(* Mutant: the read-back does not compare claims. *)
AllPresent(p) == \A e \in Experts : experts[e] # None

AllMine(p) == \A e \in Experts : experts[e] # None /\ experts[e].claim = claim[p]

(* Mutant: the receipt is built but not written. *)
SealLayerInMemory(p) ==
  /\ pc[p] = "expert" /\ at[p] > NumExperts /\ AllMine(p)
  /\ packing' = [packing EXCEPT ![p] = [claim |-> claim[p], sealed |-> experts]]
  /\ Go(p, "adapter")
  /\ UNCHANGED <<campaign, layer45, adapter, packed, bound, claim, at>>

(* Every expert receipt is read back and must carry the claim. *)
SealLayer(p) ==
  /\ pc[p] = "expert" /\ at[p] > NumExperts /\ AllMine(p)
  /\ LET r == [claim |-> claim[p], sealed |-> experts]
     IN  /\ receipt45' = r
         /\ packing' = [packing EXCEPT ![p] = r]
  /\ Go(p, "adapter")
  /\ UNCHANGED <<campaign, experts, adapter, packed, bound, claim, at>>

RefuseReadBack(p) ==
  /\ pc[p] = "expert" /\ at[p] > NumExperts /\ ~AllMine(p)
  /\ Die(p)

AdapterOf(p) ==
  [plan |-> bound[p].plan, codec |-> bound[p].codec, packed |-> packing[p]]

WriteAdapter(p) ==
  /\ pc[p] = "adapter"
  /\ adapter' = AdapterOf(p)
  /\ Go(p, "qualify")
  /\ UNCHANGED <<campaign, layer45, packed, bound, claim, at, packing>>

(* qualify_mtp_k35 binds the adapter receipt in memory into the chain. *)
Qualify(p) ==
  /\ pc[p] = "qualify" /\ HasState(p)
  /\ state.phase = "k35_main_encoded"
  /\ state' = [phase |-> "k35_mtp_qualified", qualified |-> AdapterOf(p)]
  /\ Exit(p)
  /\ UNCHANGED <<usage, plan, main, readiness, layer45, adapter, packed>>

RefuseQualify(p) ==
  /\ pc[p] = "qualify"
  /\ ~HasState(p) \/ state.phase # "k35_main_encoded"
  /\ Die(p)

-----------------------------------------------------------------------------
(* The rest of the campaign *)

Rest == UNCHANGED <<layer45, adapter, driver>>

(* The phase-7 workers complete every main layer of the plan. *)
DrainMain ==
  /\ state.phase = "k35_main_encoding" /\ ~Drained
  /\ readiness.plan = plan
  /\ main' = plan
  /\ UNCHANGED <<usage, plan, state, readiness, packed>> /\ Rest

Replan ==
  /\ plan < usage.plans
  /\ plan' = plan + 1
  /\ state' = [phase |-> "k35_main_encoding", qualified |-> None]
  /\ UNCHANGED <<usage, main, readiness, packed>> /\ Rest

(* Phase 6, for the plan in force or with preparations of another codec. *)
SealReadiness ==
  /\ \E c \in usage.codecs : readiness' = [plan |-> plan, codec |-> c]
  /\ readiness' # readiness
  /\ UNCHANGED <<usage, plan, state, main, packed>> /\ Rest

(* load_k35_surface: the main receipts must bind the allocations of the    *)
(* readiness receipt, the receipt of layer 45 must be complete.            *)
Pack ==
  /\ main = readiness.plan
  /\ receipt45 # None
  /\ packed' = [plan |-> readiness.plan, mtp |-> receipt45]
  /\ UNCHANGED campaign /\ Rest

DriverStep(p) ==
  \/ SealMain(p) \/ RefuseSealMain(p) \/ Mint(p) \/ RefusePlan(p)
  \/ Adopt(p) \/ BeginLayer(p)
  \/ SkipExpert(p) \/ RefuseExpert(p) \/ EncodeExpert(p) \/ WriteExpert(p)
  \/ SealLayer(p) \/ RefuseReadBack(p)
  \/ WriteAdapter(p) \/ Qualify(p) \/ RefuseQualify(p)

Next ==
  \/ \E p \in Procs :
       \/ \E w \in Workers, c \in Codecs : Start(p, w, c)
       \/ DriverStep(p)
       \/ Crash(p)
  \/ DrainMain \/ Replan \/ SealReadiness \/ Pack

Spec == Init /\ [][Next]_vars

(* A started run goes on, the driver is run again until it has qualified   *)
(* the layer, and the workers drain the main layers.                       *)
Fairness ==
  /\ WF_vars(DrainMain)
  /\ \A p \in Procs :
       /\ WF_vars(DriverStep(p))
       /\ WF_vars(\E w \in Workers, c \in Codecs : Start(p, w, c))

FairSpec == Spec /\ Fairness

-----------------------------------------------------------------------------
(* Properties *)

Places == {"down", "killed", "started", "mint", "minted", "expert", "encoding", "adapter", "qualify"}

TypeOK ==
  /\ usage \in Usages
  /\ plan \in Plans
  /\ state \in [phase : Phase, qualified : Adapter \union {None}]
  /\ main \in {0} \union Plans
  /\ readiness \in [plan : Plans, codec : Codecs]
  /\ experts \in [Experts -> ExpertReceipt \union {None}]
  /\ receipt45 \in LayerReceipt \union {None}
  /\ adapter \in Adapter \union {None}
  /\ packed \in [plan : Plans, mtp : LayerReceipt] \union {None}
  /\ pc \in [Procs -> Places]
  /\ bound \in [Procs -> Run \union {None}]
  /\ claim \in [Procs -> Claim \union {None}]
  /\ at \in [Procs -> 1..NumExperts + 1]
  /\ packing \in [Procs -> LayerReceipt \union {None}]

(* The operator keeps to one id, one container and one plan. *)
Plain ==
  /\ \E w \in Workers, c \in Codecs : usage.ids = {w} /\ usage.codecs = {c}
  /\ usage.plans = 1

(* The chain and the disk agree: the layer receipt a qualified state binds *)
(* is the file phase 8 will load, and its expert receipts are the ones it  *)
(* sealed, however often the driver died and was started again, twice at   *)
(* once included; what phase 8 loaded before that stays the file.          *)
QualifiedOnDisk ==
  Plain =>
    /\ state.phase = "k35_mtp_qualified" =>
         receipt45 = state.qualified.packed /\ experts = receipt45.sealed
    /\ packed # None => packed.mtp = receipt45

(* A run that is alive across a re-plan does not qualify its own plan's     *)
(* adapter into the new plan's chain.                                       *)
QualifiedForPlan ==
  state.phase = "k35_mtp_qualified" => state.qualified.plan = plan

(* Two drivers under two ids may overwrite each other's expert receipts,    *)
(* but a layer receipt seals the expert receipts of one claim only.         *)
SealedByOneClaim ==
  receipt45 # None => \A e \in Experts : receipt45.sealed[e].claim = receipt45.claim

(* A driver that is run again with the same --worker picks up what it left: *)
(* once it is no longer killed, layer 45 is qualified.                      *)
MtpQualifies ==
  (Plain /\ <>[][\A p \in Procs : ~Crash(p)]_vars) => <>(state.phase = "k35_mtp_qualified")

(* "The adapter receipt's qualified:True asserts exactly what was           *)
(* verified: the sealed packed payload receipt for L45 under the bound      *)
(* codec adapter identity": every expert it binds was encoded for the       *)
(* adapter's plan by the adapter's codec.                                   *)
AdapterAssertsVerified ==
  adapter # None =>
    /\ adapter.packed.claim.plan = adapter.plan
    /\ \A e \in Experts : adapter.packed.sealed[e].codec = adapter.codec
=============================================================================
