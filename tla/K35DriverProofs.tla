--------------------------- MODULE K35DriverProofs ---------------------------
(***************************************************************************)
(* Three of the encode programs.  The layer-45 driver: what the chain      *)
(* qualifies is what is on disk and was made for its plan, for every       *)
(* number of experts, runs, ids, containers and plans.  The allocation of  *)
(* a layer: it meets its budget and never dies, for every census and       *)
(* assignment of gains.  The packing of the checkpoint: a complete one is  *)
(* exactly one plan's, and nothing disturbs it, for every number of        *)
(* shards, every set of packers and of usages, and however often the       *)
(* surface is encoded again.                                               *)
(***************************************************************************)
EXTENDS K35Mtp, LayerDp, McgMaterializer, FiniteSetTheorems, TLAPS

USE MtpAssumption

(* What a run holds where it is. *)
Held(p) ==
  /\ pc[p] \notin Stopped => bound[p] \in Run
  /\ pc[p] \in {"minted", "expert", "encoding"} => claim[p] \in Claim
  /\ pc[p] = "encoding" => at[p] \in Experts
  /\ pc[p] \in {"adapter", "qualify"} => packing[p] \in LayerReceipt

TypeInv ==
  /\ TypeOK
  /\ plan <= usage.plans
  /\ \A p \in Procs : Held(p)

-----------------------------------------------------------------------------
(* A run under one id, one container and one plan can write one claim, one *)
(* expert receipt and one layer receipt only.                              *)

OnlyClaim(w) == [plan |-> 1, parent |-> "k35_main_encoded", worker |-> w]

OnlyExpert(w, c) == [claim |-> OnlyClaim(w), codec |-> c]

OnlyReceipt(w, c) ==
  [claim |-> OnlyClaim(w), sealed |-> [e \in Experts |-> OnlyExpert(w, c)]]

RunOf(p, w, c) ==
  /\ pc[p] \notin Stopped => bound[p].worker = w /\ bound[p].codec = c
  /\ pc[p] \notin Stopped \union {"started"} => state.phase # "k35_main_encoding"
  /\ pc[p] = "minted" => claim[p] = OnlyClaim(w) \/ receipt45 # None
  /\ pc[p] \in {"expert", "encoding"} => claim[p] = OnlyClaim(w)
  /\ pc[p] \in {"adapter", "qualify"} =>
       packing[p] = OnlyReceipt(w, c) /\ receipt45 = OnlyReceipt(w, c)

PlainInv(w, c) ==
  /\ readiness.codec = c
  /\ \A e \in Experts : experts[e] \in {None, OnlyExpert(w, c)}
  /\ receipt45 # None =>
       receipt45 = OnlyReceipt(w, c) /\ experts = OnlyReceipt(w, c).sealed
  /\ state.phase = "k35_mtp_qualified" =>
       receipt45 # None /\ state.qualified.packed = OnlyReceipt(w, c)
  /\ packed # None => receipt45 # None /\ packed.mtp = OnlyReceipt(w, c)
  /\ \A p \in Procs : RunOf(p, w, c)

Inv ==
  /\ TypeInv
  /\ \A w \in Workers, c \in Codecs :
       usage.ids = {w} /\ usage.codecs = {c} /\ usage.plans = 1 => PlainInv(w, c)
  /\ QualifiedForPlan
  /\ SealedByOneClaim

-----------------------------------------------------------------------------
(* Types *)

LEMMA InitType == Init => TypeInv
  BY DEF Init, TypeInv, TypeOK, Held, Stopped, Places, Phase, Plans, Experts

LEMMA DieType ==
  ASSUME TypeInv, NEW p \in Procs, Die(p) \/ Crash(p)
  PROVE  TypeInv'
  BY DEF Die, Crash, Exit, Leave, Go, campaign, layer45, TypeInv, TypeOK, Held, Stopped, Places

LEMMA StepType ==
  ASSUME TypeInv, NEW p \in Procs, DriverStep(p)
  PROVE  TypeInv'
  <1> USE DEF TypeInv, TypeOK, Held, Stopped, Places, Go, campaign, layer45
  <1>1. CASE Die(p)
    BY <1>1, DieType
  <1>2. CASE SealMain(p)
    BY <1>2 DEF SealMain, Run, Phase
  <1>3. CASE Mint(p)
    <2>1. [plan |-> plan, parent |-> Parent(p), worker |-> bound[p].worker] \in Claim
      BY <1>3 DEF Mint, Parent, Claim, Run
    <2> QED
      BY <1>3, <2>1 DEF Mint
  <1>4. CASE Adopt(p)
    BY <1>4 DEF Adopt
  <1>5. CASE BeginLayer(p)
    BY <1>5 DEF BeginLayer
  <1>6. CASE SkipExpert(p)
    BY <1>6 DEF SkipExpert, Experts
  <1>7. CASE EncodeExpert(p)
    BY <1>7 DEF EncodeExpert
  <1>8. CASE WriteExpert(p)
    <2>1. [claim |-> claim[p], codec |-> bound[p].codec] \in ExpertReceipt
      BY <1>8 DEF WriteExpert, Run, ExpertReceipt
    <2> QED
      BY <1>8, <2>1 DEF WriteExpert, Experts
  <1>9. CASE SealLayer(p)
    <2>1. [claim |-> claim[p], sealed |-> experts] \in LayerReceipt
      BY <1>9 DEF SealLayer, AllMine, LayerReceipt
    <2> QED
      BY <1>9, <2>1 DEF SealLayer
  <1>10. CASE WriteAdapter(p)
    <2>1. AdapterOf(p) \in Adapter
      BY <1>10 DEF WriteAdapter, AdapterOf, Adapter, Run
    <2> QED
      BY <1>10, <2>1 DEF WriteAdapter
  <1>11. CASE Qualify(p)
    <2>1. AdapterOf(p) \in Adapter
      BY <1>11 DEF Qualify, AdapterOf, Adapter, Run
    <2> QED
      BY <1>11, <2>1 DEF Qualify, Exit, Leave, Phase
  <1> QED
    BY <1>1, <1>2, <1>3, <1>4, <1>5, <1>6, <1>7, <1>8, <1>9, <1>10, <1>11
    DEF DriverStep, RefuseSealMain, RefusePlan, RefuseExpert, RefuseReadBack, RefuseQualify

LEMMA NextType == TypeInv /\ [Next]_vars => TypeInv'
  <1> SUFFICES ASSUME TypeInv, [Next]_vars PROVE TypeInv'
    OBVIOUS
  <1> USE DEF TypeInv, TypeOK, Held, Stopped, Places, Go, Rest, campaign, layer45, driver
  <1>1. ASSUME NEW p \in Procs, NEW w \in Workers, NEW c \in Codecs, Start(p, w, c)
        PROVE  TypeInv'
    <2>1. [plan |-> plan, codec |-> c, worker |-> w, seen |-> None] \in Run
      BY DEF Run
    <2> QED
      BY <1>1, <2>1 DEF Start
  <1>2. CASE DrainMain
    BY <1>2 DEF DrainMain
  <1>3. CASE Replan
    <2>1. usage.plans \in Plans
      OBVIOUS
    <2> QED
      BY <1>3, <2>1 DEF Replan, Plans, Phase
  <1>4. CASE SealReadiness
    <2>1. usage.codecs \subseteq Codecs
      OBVIOUS
    <2> QED
      BY <1>4, <2>1 DEF SealReadiness
  <1>5. CASE Pack
    BY <1>5 DEF Pack
  <1>6. CASE UNCHANGED vars
    BY <1>6 DEF vars
  <1> QED
    BY <1>1, <1>2, <1>3, <1>4, <1>5, <1>6, StepType, DieType DEF Next

-----------------------------------------------------------------------------
(* One id, one container, one plan *)

PlainUsage(w, c) == usage.ids = {w} /\ usage.codecs = {c} /\ usage.plans = 1

LEMMA PlanIsFirst ==
  ASSUME TypeInv, usage.plans = 1
  PROVE  plan = 1
  BY DEF TypeInv, TypeOK, Plans

LEMMA OnlyReceiptType ==
  ASSUME NEW w \in Workers, NEW c \in Codecs
  PROVE  OnlyReceipt(w, c) \in LayerReceipt /\ OnlyReceipt(w, c) # None
  BY DEF OnlyReceipt, OnlyExpert, OnlyClaim, LayerReceipt, ExpertReceipt, Claim, Plans, Phase

LEMMA InitPlain ==
  ASSUME Init, NEW w \in Workers, NEW c \in Codecs, PlainUsage(w, c)
  PROVE  PlainInv(w, c)
  BY DEF Init, PlainUsage, PlainInv, RunOf, Stopped

LEMMA DiePlain ==
  ASSUME TypeInv, NEW w \in Workers, NEW c \in Codecs, PlainInv(w, c),
         NEW p \in Procs, Die(p) \/ Crash(p)
  PROVE  PlainInv(w, c)'
  BY DEF Die, Crash, Exit, Leave, Go, campaign, layer45, PlainInv, RunOf, Stopped,
         TypeInv, TypeOK

LEMMA StepPlain ==
  ASSUME TypeInv, NEW w \in Workers, NEW c \in Codecs,
         PlainUsage(w, c), PlainInv(w, c), NEW p \in Procs, DriverStep(p)
  PROVE  PlainInv(w, c)'
  <1> USE DEF PlainInv, RunOf, Stopped, Go, campaign, layer45
  <1>1. TypeOK /\ Held(p)
    BY DEF TypeInv
  <1>2. plan = 1
    BY PlanIsFirst DEF PlainUsage
  <1>3. CASE Die(p)
    BY <1>3, DiePlain
  <1>4. CASE SealMain(p)
    <2>1. state'.phase # "k35_main_encoding" /\ state'.phase # "k35_mtp_qualified"
      BY <1>1, <1>4 DEF SealMain, TypeOK
    <2>2. \A q \in Procs : /\ bound'[q] # bound[q] => q = p
                           /\ pc'[q] # pc[q] => q = p
      BY <1>1, <1>4 DEF SealMain, TypeOK
    <2>3. bound'[p].worker = w /\ bound'[p].codec = c /\ pc'[p] = "mint"
      BY <1>1, <1>4 DEF SealMain, TypeOK, Held, Run
    <2> QED
      BY <1>4, <2>1, <2>2, <2>3 DEF SealMain
  <1>5. CASE Mint(p)
    <2>1. state.phase \in {"k35_main_encoded", "k35_mtp_qualified"}
      BY <1>1, <1>5 DEF Mint, TypeOK, Phase
    <2>2. claim'[p] = OnlyClaim(w) \/ receipt45 # None
      BY <1>1, <1>2, <1>5, <2>1 DEF Mint, Parent, OnlyClaim, TypeOK
    <2> QED
      BY <1>1, <1>5, <2>2 DEF Mint, TypeOK
  <1>6. CASE Adopt(p)
    BY <1>1, <1>6 DEF Adopt, TypeOK
  <1>7. CASE BeginLayer(p)
    BY <1>1, <1>7 DEF BeginLayer, TypeOK
  <1>8. CASE SkipExpert(p)
    BY <1>1, <1>8 DEF SkipExpert, TypeOK
  <1>9. CASE EncodeExpert(p)
    BY <1>1, <1>9 DEF EncodeExpert, TypeOK
  <1>10. CASE WriteExpert(p)
    <2>1. [claim |-> claim[p], codec |-> bound[p].codec] = OnlyExpert(w, c)
      BY <1>10 DEF WriteExpert, OnlyExpert
    <2>2. \A e \in Experts : experts'[e] \in {experts[e], OnlyExpert(w, c)}
      BY <1>1, <1>10, <2>1 DEF WriteExpert, TypeOK
    <2>3. receipt45 # None => experts' = experts
      <3> SUFFICES ASSUME receipt45 # None PROVE experts' = experts
        OBVIOUS
      <3>1. \A e \in Experts : experts[e] = OnlyExpert(w, c)
        BY DEF OnlyReceipt
      <3> QED
        BY <1>1, <1>10, <2>1, <3>1 DEF WriteExpert, TypeOK, Held
    <2> QED
      BY <1>1, <1>10, <2>2, <2>3 DEF WriteExpert, TypeOK
  <1>11. CASE SealLayer(p)
    <2>1. \A e \in Experts : experts[e] = OnlyExpert(w, c)
      BY <1>11 DEF SealLayer, AllMine
    <2>2. experts = [e \in Experts |-> OnlyExpert(w, c)]
      BY <1>1, <2>1 DEF TypeOK
    <2>3. [claim |-> claim[p], sealed |-> experts] = OnlyReceipt(w, c)
      BY <1>11, <2>2 DEF SealLayer, OnlyReceipt
    <2> QED
      BY <1>1, <1>11, <2>2, <2>3 DEF SealLayer, TypeOK, OnlyReceipt
  <1>12. CASE WriteAdapter(p)
    BY <1>1, <1>12 DEF WriteAdapter, TypeOK
  <1>13. CASE Qualify(p)
    <2>1. state'.phase = "k35_mtp_qualified" /\ state'.qualified.packed = OnlyReceipt(w, c)
      BY <1>13 DEF Qualify, AdapterOf
    <2>2. receipt45 # None
      BY <1>13, OnlyReceiptType DEF Qualify
    <2> QED
      BY <1>1, <1>13, <2>1, <2>2 DEF Qualify, Exit, Leave, TypeOK
  <1> QED
    BY <1>3, <1>4, <1>5, <1>6, <1>7, <1>8, <1>9, <1>10, <1>11, <1>12, <1>13
    DEF DriverStep, RefuseSealMain, RefusePlan, RefuseExpert, RefuseReadBack, RefuseQualify

LEMMA NextPlain ==
  ASSUME TypeInv, NEW w \in Workers, NEW c \in Codecs,
         PlainUsage(w, c), PlainInv(w, c), [Next]_vars
  PROVE  PlainInv(w, c)'
  <1> USE DEF PlainInv, RunOf, Stopped, Go, Rest, campaign, layer45, driver
  <1>1. TypeOK
    BY DEF TypeInv
  <1>2. ASSUME NEW p \in Procs, NEW v \in Workers, NEW d \in Codecs, Start(p, v, d)
        PROVE  PlainInv(w, c)'
    <2>1. v = w /\ d = c
      BY <1>2 DEF Start, PlainUsage
    <2> QED
      BY <1>1, <1>2, <2>1 DEF Start, TypeOK
  <1>3. CASE DrainMain
    BY <1>3 DEF DrainMain
  <1>4. CASE Replan
    BY <1>4, PlanIsFirst DEF Replan, PlainUsage
  <1>5. CASE SealReadiness
    BY <1>5 DEF SealReadiness, PlainUsage
  <1>6. CASE Pack
    BY <1>6 DEF Pack
  <1>7. CASE UNCHANGED vars
    BY <1>7 DEF vars
  <1> QED
    BY <1>2, <1>3, <1>4, <1>5, <1>6, <1>7, StepPlain, DiePlain DEF Next

-----------------------------------------------------------------------------
(* Any usage: what is qualified is of the plan in force, what is sealed is  *)
(* of one claim.                                                            *)

LEMMA NextSealed == SealedByOneClaim /\ TypeInv /\ [Next]_vars => SealedByOneClaim'
  <1> SUFFICES ASSUME SealedByOneClaim, TypeInv, [Next]_vars PROVE SealedByOneClaim'
    OBVIOUS
  <1>1. receipt45' # receipt45 => \E p \in Procs : SealLayer(p)
    BY DEF Next, DriverStep, Start, SealMain, RefuseSealMain, Mint, RefusePlan, Adopt,
           BeginLayer, SkipExpert, RefuseExpert, EncodeExpert, WriteExpert, RefuseReadBack,
           WriteAdapter, Qualify, RefuseQualify, Crash, Die, DrainMain, Replan,
           SealReadiness, Pack, Rest, layer45, vars
  <1>2. ASSUME NEW p \in Procs, SealLayer(p) PROVE SealedByOneClaim'
    BY <1>2 DEF SealLayer, AllMine, SealedByOneClaim
  <1> QED
    BY <1>1, <1>2 DEF SealedByOneClaim

LEMMA NextQualified == QualifiedForPlan /\ TypeInv /\ [Next]_vars => QualifiedForPlan'
  <1> SUFFICES ASSUME QualifiedForPlan, TypeInv, [Next]_vars PROVE QualifiedForPlan'
    OBVIOUS
  <1>1. \/ UNCHANGED <<plan, state>>
        \/ Replan
        \/ \E p \in Procs : SealMain(p) \/ Qualify(p)
    BY DEF Next, DriverStep, Start, RefuseSealMain, Mint, RefusePlan, Adopt,
           BeginLayer, SkipExpert, RefuseExpert, EncodeExpert, WriteExpert, SealLayer,
           RefuseReadBack, WriteAdapter, RefuseQualify, Crash, Die, DrainMain,
           SealReadiness, Pack, campaign, vars
  <1>2. CASE Replan
    BY <1>2 DEF Replan, QualifiedForPlan
  <1>3. ASSUME NEW p \in Procs, SealMain(p) PROVE QualifiedForPlan'
    BY <1>3 DEF SealMain, QualifiedForPlan, TypeInv, TypeOK
  <1>4. ASSUME NEW p \in Procs, Qualify(p) PROVE QualifiedForPlan'
    BY <1>4 DEF Qualify, HasState, AdapterOf, QualifiedForPlan
  <1> QED
    BY <1>1, <1>2, <1>3, <1>4 DEF QualifiedForPlan

LEMMA UsageFixed == [Next]_vars => usage' = usage
  BY DEF Next, DriverStep, Start, SealMain, RefuseSealMain, Mint, RefusePlan, Adopt,
         BeginLayer, SkipExpert, RefuseExpert, EncodeExpert, WriteExpert, SealLayer,
         RefuseReadBack, WriteAdapter, Qualify, RefuseQualify, Crash, Die, DrainMain,
         Replan, SealReadiness, Pack, campaign, vars

LEMMA InitInv == Init => Inv
  <1> SUFFICES ASSUME Init PROVE Inv
    OBVIOUS
  <1>1. QualifiedForPlan /\ SealedByOneClaim
    BY DEF Init, QualifiedForPlan, SealedByOneClaim
  <1> QED
    BY <1>1, InitType, InitPlain DEF Inv, PlainUsage

LEMMA NextInv == Inv /\ [Next]_vars => Inv'
  <1> SUFFICES ASSUME Inv, [Next]_vars PROVE Inv'
    OBVIOUS
  <1>1. ASSUME NEW w \in Workers, NEW c \in Codecs, PlainUsage(w, c)'
        PROVE  PlainInv(w, c)'
    <2>1. PlainUsage(w, c)
      BY <1>1, UsageFixed DEF PlainUsage
    <2> QED
      BY <2>1, NextPlain DEF Inv, PlainUsage
  <1> QED
    BY <1>1, NextType, NextQualified, NextSealed DEF Inv, PlainUsage

-----------------------------------------------------------------------------
(* Theorems *)

(* Every variable keeps its type. *)
THEOREM TypeCorrect == Spec => []TypeOK
  <1>1. TypeInv => TypeOK
    BY DEF TypeInv
  <1> QED
    BY <1>1, InitType, NextType, PTL DEF Spec

(* No run qualifies its own plan's adapter into another plan's chain. *)
THEOREM QualifiesItsPlan == Spec => []QualifiedForPlan
  <1>1. Inv => QualifiedForPlan
    BY DEF Inv
  <1> QED
    BY <1>1, InitInv, NextInv, PTL DEF Spec

(* A layer receipt never seals the expert receipts of two claims. *)
THEOREM SealsOneClaim == Spec => []SealedByOneClaim
  <1>1. Inv => SealedByOneClaim
    BY DEF Inv
  <1> QED
    BY <1>1, InitInv, NextInv, PTL DEF Spec

(* Under one id, one container and one plan the layer receipt the chain     *)
(* qualifies stays the file on disk, however many runs overlap and wherever *)
(* they are killed.                                                         *)
THEOREM QualifiesWhatIsOnDisk == Spec => []QualifiedOnDisk
  <1>1. Inv => QualifiedOnDisk
    <2> SUFFICES ASSUME Inv, NEW w \in Workers, NEW c \in Codecs,
                        usage.ids = {w}, usage.codecs = {c}, usage.plans = 1
                 PROVE  /\ state.phase = "k35_mtp_qualified" =>
                             receipt45 = state.qualified.packed /\ experts = receipt45.sealed
                        /\ packed # None => packed.mtp = receipt45
      BY DEF QualifiedOnDisk, Plain
    <2>1. PlainInv(w, c)
      BY DEF Inv
    <2> QED
      BY <2>1 DEF PlainInv
  <1> QED
    BY <1>1, InitInv, NextInv, PTL DEF Spec

-----------------------------------------------------------------------------
(* The allocation of a layer, for every census, budget and assignment of   *)
(* gains.                                                                  *)

USE CensusAssumption DEF Tensors, Costs

(***************************************************************************)
(* The strengthening.  A cost is reachable after n tensors exactly when it *)
(* is at most n, so a relaxed tensor t has a backpointer at every cost up  *)
(* to t, and that backpointer leads to a cost the tensors before it can    *)
(* reach.  The walk starts at such a cost and therefore stays among them.  *)
(***************************************************************************)
Leads(t, c, p) ==
    \/ p = [bits |-> 4, prior |-> c - 1] /\ 1 <= c
    \/ p = [bits |-> 3, prior |-> c] /\ c <= t - 1

Reachable == phase = "relax" => \A c \in Costs : scores[c] # Unreached <=> c <= item

Linked ==
    \A t \in Tensors : \A c \in Costs :
        c <= t /\ (phase = "relax" => t <= item) => Leads(t, c, parent[t][c])

Standing ==
    /\ phase = "relax" => cost = Budget /\ bits = [t \in Tensors |-> 0]
    /\ phase = "trace" => cost <= item
    /\ phase = "done" => item = 0 /\ cost = 0

DpInv == DpTypeOK /\ Reachable /\ Linked /\ Standing

-----------------------------------------------------------------------------
(* What one cost holds after a tensor has been relaxed. *)

LEMMA ScoreType ==
  ASSUME DpTypeOK, NEW t \in Tensors, NEW c \in Costs
  PROVE  BestScore(t, c) \in Int \cup {Unreached}
<1>1. gain[t] \in Int /\ scores[c] \in Int \cup {Unreached}
  BY DEF DpTypeOK
<1>2. CASE CanUpgrade(c)
  <2>1. scores[c - 1] \in Int
    BY <1>2 DEF DpTypeOK, CanUpgrade
  <2>2. QED
    BY <1>1, <2>1 DEF BestScore, Upgraded
<1>3. CASE ~CanUpgrade(c)
  BY <1>1, <1>3 DEF BestScore
<1>4. QED
  BY <1>2, <1>3

LEMMA ChoiceType ==
  ASSUME NEW t \in Tensors, NEW c \in Costs
  PROVE  Choice(t, c) \in [bits : {0, 3, 4}, prior : -1..Budget]
BY DEF Choice, CanUpgrade, NoParent

LEMMA ScoreReached ==
  ASSUME DpTypeOK, Reachable, phase = "relax", item < N, NEW c \in Costs
  PROVE  BestScore(item + 1, c) # Unreached <=> c <= item + 1
<1>1. item \in Nat /\ item + 1 \in Tensors /\ gain[item + 1] \in Int
  <2>1. item \in Nat /\ item + 1 \in Tensors
    BY DEF DpTypeOK
  <2>2. gain[item + 1] \in Gains
    BY <2>1 DEF DpTypeOK
  <2>3. QED
    BY <2>1, <2>2
<1>2. CanKeep(c) <=> c <= item
  BY DEF Reachable, CanKeep
<1>3. CanUpgrade(c) <=> 1 <= c /\ c <= item + 1
  <2>1. c > 0 => c - 1 \in Costs
    OBVIOUS
  <2>2. c > 0 => (scores[c - 1] # Unreached <=> c - 1 <= item)
    BY <2>1 DEF Reachable
  <2>3. QED
    BY <1>1, <2>2 DEF CanUpgrade
<1>4. CanUpgrade(c) => Upgraded(item + 1, c) \in Int
  <2>1. CanUpgrade(c) => scores[c - 1] \in Int
    BY DEF DpTypeOK, CanUpgrade
  <2>2. QED
    BY <1>1, <2>1 DEF Upgraded
<1>5. CASE Keeps(item + 1, c)
  BY <1>1, <1>2, <1>5 DEF BestScore, Keeps, CanKeep
<1>6. CASE CanUpgrade(c) /\ ~Keeps(item + 1, c)
  BY <1>1, <1>3, <1>4, <1>6 DEF BestScore
<1>7. CASE ~Keeps(item + 1, c) /\ ~CanUpgrade(c)
  <2>1. ~CanUpgrade(c) /\ ~CanKeep(c)
    BY <1>7 DEF Keeps
  <2>2. ~(c <= item + 1)
    BY <1>1, <1>2, <1>3, <2>1
  <2>3. BestScore(item + 1, c) = Unreached
    BY <1>7 DEF BestScore
  <2>4. QED
    BY <2>2, <2>3
<1>8. QED
  BY <1>5, <1>6, <1>7

LEMMA ChoiceLeads ==
  ASSUME DpTypeOK, Reachable, phase = "relax", item < N,
         NEW c \in Costs, c <= item + 1
  PROVE  Leads(item + 1, c, Choice(item + 1, c))
<1>1. item \in Nat
  BY DEF DpTypeOK
<1>2. BestScore(item + 1, c) # Unreached
  BY ScoreReached
<1>3. CASE Keeps(item + 1, c)
  <2>1. c <= item
    BY <1>3 DEF Keeps, CanKeep, Reachable
  <2>2. QED
    BY <1>1, <1>3, <2>1 DEF Choice, Leads
<1>4. CASE CanUpgrade(c) /\ ~Keeps(item + 1, c)
  <2>1. 1 <= c /\ ~Keeps(item + 1, c)
    BY <1>4 DEF CanUpgrade
  <2>2. QED
    BY <1>4, <2>1 DEF Choice, Leads
<1>5. QED
  BY <1>2, <1>3, <1>4 DEF BestScore

-----------------------------------------------------------------------------
(* The strengthening is inductive. *)

LEMMA DpStarts == DpInit => DpInv
<1> SUFFICES ASSUME DpInit PROVE DpInv
  OBVIOUS
<1>1. DpTypeOK
  BY DEF DpInit, DpTypeOK, NoParent
<1>2. Reachable
  BY DEF DpInit, Reachable
<1>3. Linked
  BY DEF DpInit, Linked
<1>4. Standing
  BY DEF DpInit, Standing
<1>5. QED
  BY <1>1, <1>2, <1>3, <1>4 DEF DpInv

LEMMA RelaxKeeps == DpInv /\ Relax => DpInv'
<1> SUFFICES ASSUME DpInv, Relax PROVE DpInv'
  OBVIOUS
<1> USE DEF DpInv
<1>1. /\ item \in Nat /\ item < N /\ item' = item + 1 /\ item + 1 \in Tensors
      /\ phase = "relax" /\ phase' = "relax"
      /\ scores' = [c \in Costs |-> BestScore(item + 1, c)]
      /\ parent' = [parent EXCEPT ![item + 1] = [c \in Costs |-> Choice(item + 1, c)]]
      /\ gain' = gain /\ cost' = cost /\ bits' = bits
  BY DEF Relax, DpTypeOK
<1>2. DpTypeOK'
  <2>1. scores' \in [Costs -> Int \cup {Unreached}]
    BY <1>1, ScoreType
  <2>2. [c \in Costs |-> Choice(item + 1, c)]
            \in [Costs -> [bits : {0, 3, 4}, prior : -1..Budget]]
    BY <1>1, ChoiceType
  <2>3. parent' \in [Tensors -> [Costs -> [bits : {0, 3, 4}, prior : -1..Budget]]]
    BY <1>1, <2>2 DEF DpTypeOK
  <2>4. QED
    BY <1>1, <2>1, <2>3 DEF DpTypeOK
<1>3. Reachable'
  BY <1>1, ScoreReached DEF Reachable
<1>4. Linked'
  <2>1. SUFFICES ASSUME NEW t \in Tensors, NEW c \in Costs, c <= t, t <= item + 1
                 PROVE  Leads(t, c, parent'[t][c])
    BY <1>1 DEF Linked, Leads
  <2>2. CASE t = item + 1
    <3>1. parent'[t][c] = Choice(item + 1, c)
      BY <1>1, <2>2 DEF DpTypeOK
    <3>2. QED
      BY <1>1, <2>1, <2>2, <3>1, ChoiceLeads
  <2>3. CASE t # item + 1
    <3>1. parent'[t][c] = parent[t][c] /\ t <= item
      BY <1>1, <2>1, <2>3 DEF DpTypeOK
    <3>2. QED
      BY <1>1, <2>1, <3>1 DEF Linked
  <2>4. QED
    BY <2>2, <2>3
<1>5. Standing'
  BY <1>1 DEF Standing
<1>6. QED
  BY <1>2, <1>3, <1>4, <1>5

LEMMA BeginTraceKeeps == DpInv /\ BeginTrace => DpInv'
<1> SUFFICES ASSUME DpInv, BeginTrace PROVE DpInv'
  OBVIOUS
<1>1. /\ phase = "relax" /\ phase' = "trace" /\ item = N /\ item' = item
      /\ gain' = gain /\ scores' = scores /\ parent' = parent
      /\ cost' = cost /\ bits' = bits
  BY DEF BeginTrace
<1>2. DpTypeOK'
  BY <1>1 DEF DpInv, DpTypeOK
<1>3. Reachable'
  BY <1>1 DEF Reachable
<1>4. Linked'
  BY <1>1 DEF DpInv, Linked, Leads
<1>5. Standing'
  BY <1>1 DEF DpInv, Standing
<1>6. QED
  BY <1>2, <1>3, <1>4, <1>5 DEF DpInv

LEMMA TraceKeeps == DpInv /\ Trace => DpInv'
<1> SUFFICES ASSUME DpInv, Trace PROVE DpInv'
  OBVIOUS
<1> DEFINE p == parent[item][cost]
<1>1. /\ phase = "trace" /\ phase' = "trace" /\ item \in Tensors
      /\ item' = item - 1 /\ cost \in Costs /\ cost <= item
      /\ bits' = [bits EXCEPT ![item] = p.bits] /\ cost' = p.prior
      /\ gain' = gain /\ scores' = scores /\ parent' = parent
  BY DEF DpInv, Trace, DpTypeOK, Standing
<1>2. Leads(item, cost, p)
  BY <1>1 DEF DpInv, Linked
<1>3. p.bits \in {3, 4} /\ p.prior \in Costs /\ p.prior <= item - 1
  BY <1>1, <1>2 DEF Leads
<1>4. DpTypeOK'
  <2>1. bits' \in [Tensors -> {0, 3, 4}]
    BY <1>1, <1>3 DEF DpInv, DpTypeOK
  <2>2. cost' \in Costs /\ item' \in 0..N
    BY <1>1, <1>3
  <2>3. QED
    BY <1>1, <2>1, <2>2 DEF DpInv, DpTypeOK
<1>5. Reachable'
  BY <1>1 DEF Reachable
<1>6. Linked'
  BY <1>1 DEF DpInv, Linked, Leads
<1>7. Standing'
  BY <1>1, <1>3 DEF Standing
<1>8. QED
  BY <1>4, <1>5, <1>6, <1>7 DEF DpInv

LEMMA FinishKeeps == DpInv /\ Finish => DpInv'
BY DEF DpInv, Finish, DpTypeOK, Reachable, Linked, Leads, Standing

LEMMA StutterKeeps == DpInv /\ UNCHANGED dpVars => DpInv'
BY DEF DpInv, dpVars, DpTypeOK, Reachable, Linked, Leads, Standing

LEMMA DpNextKeeps == DpInv /\ [DpNext]_dpVars => DpInv'
BY RelaxKeeps, BeginTraceKeeps, TraceKeeps, FinishKeeps, StutterKeeps DEF DpNext

-----------------------------------------------------------------------------
(* The solver never reaches one of its die() branches: the budget is       *)
(* reachable, no backpointer on the walk is corrupt, and it ends at zero.  *)
THEOREM NoCorruption == DpSpec => []NeverCorrupt
<1>1. DpInv => NeverCorrupt
  <2> SUFFICES ASSUME DpInv PROVE NeverCorrupt
    OBVIOUS
  <2>1. phase = "relax" /\ item = N => scores[Budget] # Unreached
    BY DEF DpInv, Reachable
  <2>2. phase = "trace" /\ item > 0 => SoundParent(parent[item][cost])
    <3>1. SUFFICES ASSUME phase = "trace", item > 0
                   PROVE  SoundParent(parent[item][cost])
      OBVIOUS
    <3>2. item \in Tensors /\ cost \in Costs /\ cost <= item
      BY <3>1 DEF DpInv, DpTypeOK, Standing
    <3>3. Leads(item, cost, parent[item][cost])
      BY <3>1, <3>2 DEF DpInv, Linked
    <3>4. QED
      BY <3>2, <3>3 DEF Leads, SoundParent
  <2>3. phase = "trace" /\ item = 0 => cost = 0
    BY DEF DpInv, Standing, DpTypeOK
  <2>4. QED
    BY <2>1, <2>2, <2>3 DEF NeverCorrupt
<1>2. QED
  BY DpStarts, DpNextKeeps, <1>1, PTL DEF DpSpec

(* Every state has its type; in particular no score and no backpointer     *)
(* leaves its range.                                                       *)
THEOREM ScoresTyped == DpSpec => []DpTypeOK
<1>1. DpInv => DpTypeOK
  BY DEF DpInv
<1>2. QED
  BY DpStarts, DpNextKeeps, <1>1, PTL DEF DpSpec

(* The returned allocation upgrades exactly Budget tensors and gives every *)
(* tensor a width, which is what the sealed audit of a layer demands.      *)
THEOREM AuditPasses == DpSpec => []ExactBudget
<1>1. DpInit => ExactBudget
  BY DEF DpInit, ExactBudget
<1>2. DpInv /\ ExactBudget /\ [DpNext]_dpVars => ExactBudget'
  <2> SUFFICES ASSUME DpInv, ExactBudget, [DpNext]_dpVars PROVE ExactBudget'
    OBVIOUS
  <2>1. CASE Relax
    BY <2>1 DEF Relax, ExactBudget
  <2>2. CASE BeginTrace
    <3>1. /\ phase' = "trace" /\ item' = N /\ cost' = Budget
          /\ bits' = [t \in Tensors |-> 0]
      BY <2>2 DEF BeginTrace, DpInv, Standing
    <3>2. Selected' = {}
      BY <3>1 DEF Selected
    <3>3. Cardinality(Selected') = 0
      BY <3>2, FS_EmptySet
    <3>4. \A t \in Tensors : t > item' <=> bits'[t] # 0
      BY <3>1
    <3>5. QED
      BY <3>1, <3>3, <3>4 DEF ExactBudget
  <2>3. CASE Trace
    <3> DEFINE p == parent[item][cost]
    <3>1. /\ phase = "trace" /\ phase' = "trace" /\ item \in Tensors
          /\ item' = item - 1 /\ cost \in Costs /\ cost <= item
          /\ bits \in [Tensors -> {0, 3, 4}]
          /\ bits' = [bits EXCEPT ![item] = p.bits] /\ cost' = p.prior
      BY <2>3 DEF DpInv, Trace, DpTypeOK, Standing
    <3>2. Leads(item, cost, p)
      BY <3>1 DEF DpInv, Linked
    <3>3. /\ \A t \in Tensors : t > item <=> bits[t] # 0
          /\ Cardinality(Selected) + cost = Budget
      BY <3>1 DEF ExactBudget
    <3>4. \A t \in Tensors : t > item' <=> bits'[t] # 0
      BY <3>1, <3>2, <3>3 DEF Leads
    <3>5. item \notin Selected /\ IsFiniteSet(Selected)
      <4>1. item \notin Selected
        BY <3>1, <3>3 DEF Selected
      <4>2. IsFiniteSet(Tensors)
        BY FS_Interval
      <4>3. Selected \in SUBSET Tensors
        BY DEF Selected
      <4>4. QED
        BY <4>1, <4>2, <4>3, FS_Subset
    <3>6. CASE p = [bits |-> 4, prior |-> cost - 1]
      <4>1. Selected' = Selected \cup {item}
        BY <3>1, <3>6 DEF Selected
      <4>2. Cardinality(Selected') = Cardinality(Selected) + 1
        BY <3>5, <4>1, FS_AddElement
      <4>3. Cardinality(Selected) \in Nat
        BY <3>5, FS_CardinalityType
      <4>4. Cardinality(Selected') + cost' = Budget
        BY <3>1, <3>3, <3>6, <4>2, <4>3
      <4>5. QED
        BY <3>4, <4>4 DEF ExactBudget
    <3>7. CASE p = [bits |-> 3, prior |-> cost]
      <4>1. Selected' = Selected
        BY <3>1, <3>5, <3>7 DEF Selected
      <4>2. cost' = cost
        BY <3>1, <3>7
      <4>3. QED
        BY <3>3, <3>4, <4>1, <4>2 DEF ExactBudget
    <3>8. QED
      BY <3>2, <3>6, <3>7 DEF Leads
  <2>4. CASE Finish
    BY <2>4 DEF Finish, ExactBudget, Selected
  <2>5. CASE UNCHANGED dpVars
    BY <2>5 DEF dpVars, ExactBudget, Selected
  <2>6. QED
    BY <2>1, <2>2, <2>3, <2>4, <2>5 DEF DpNext
<1>3. QED
  BY DpStarts, DpNextKeeps, <1>1, <1>2, PTL DEF DpSpec
-----------------------------------------------------------------------------
(* The checkpoint: what a complete one consists of.                        *)

HIDE DEF Tensors, Costs

USE MaterializerAssumption

Running(p) == step[p] \notin {"down", "killed", "complete"}

(* Between finding no receipt of a shard and writing it. *)
AtWork(p) == step[p] \in {"loaded", "writing", "replaced", "verified", "hashed"}

(* Where a pack is says which file it is at, and that the file is there.   *)
Placed(p) ==
  /\ AtWork(p) => atFile[p] \in Shards
  /\ step[p] \in {"replaced", "verified"} => shard[atFile[p]] # NoFile
  /\ step[p] = "hashed" => hashes[p][atFile[p]] # NoFile
  /\ step[p] = "copying" => Document(p) = Auxiliary
  /\ step[p] = "verify" => atFile[p] > NumFiles

PackTypeInv ==
  /\ PackTypeOK
  /\ \A p \in Packers : Placed(p)
  /\ docs[Auxiliary] \in {NoFile, 0}

(* A file that is there and holds the tensors of a plan. *)
Good(file, s, v) == file # NoFile /\ file.payload = Payload(s, v)

ReceiptFor(v, file) == [plan |-> v, file |-> file]

(* What a running pack has behind it is its own plan's and what it hashed. *)
(* Where surfaces follow each other, it wrote no file that has a receipt.  *)
Prefix(p) ==
  /\ p \in packs.packers
  /\ \A s \in Shards :
       s < atFile[p] => /\ Good(shard[s], s, planOf[p])
                        /\ hashes[p][s] = shard[s]
                        /\ receipt[s] = ReceiptFor(planOf[p], shard[s])
  /\ \A d \in DOMAIN Documents : d < Document(p) => docs[d] = DocumentOf(d, planOf[p])
  /\ step[p] \in {"verified", "hashed"} => Good(shard[atFile[p]], atFile[p], planOf[p])
  /\ step[p] = "hashed" => hashes[p][atFile[p]] = shard[atFile[p]]
  /\ AtWork(p) /\ packs.versions # 1 => receipt[atFile[p]] = NoFile

(* Of one surface there is only one file a shard can be. *)
Alike ==
  \A s \in Shards :
    /\ shard[s] \in {NoFile, FileOf(s, 1)}
    /\ receipt[s] \in {NoFile, ReceiptFor(1, FileOf(s, 1))}
    /\ \A p \in Packers : hashes[p][s] \in {NoFile, FileOf(s, 1)}

(* A receipt seals a file that held the tensors of its plan.               *)
Honest == \A s \in Shards : receipt[s] # NoFile => Good(receipt[s].file, s, receipt[s].plan)

(* A pack still running beside a complete checkpoint is of the same plan,  *)
(* or has not looked at a shard yet.                                       *)
Settled(p) == planOf[p] = final.plan \/ (step[p] = "file" /\ atFile[p] = 1)

PlansOfSurface ==
  /\ surface <= packs.versions
  /\ \A p \in Packers : planOf[p] <= surface

PackInv ==
  /\ PackTypeInv
  /\ PlansOfSurface
  /\ packs.versions = 1 => Alike
  /\ OneSurfaceAtATime => Honest /\ (\A p \in Packers : Running(p) => Prefix(p))
  /\ OneSurfaceAtATime /\ final # NoFile =>
       /\ Exact(final.plan, final.files) /\ docs = final.docs
       /\ \A p \in Packers : Running(p) => Settled(p)

LEMMA Files ==
  /\ DOMAIN Documents = 1..5
  /\ NumFiles = NumShards + 5
  /\ Auxiliary = 4 /\ Index = 1 /\ Rehashed = 1..3
  /\ Shards = 1..NumShards
  /\ NumShards \in Nat /\ NumShards > 0
  BY DEF Documents, NumFiles, Auxiliary, Index, Rehashed, Shards

LEMMA Payloads ==
  ASSUME NEW s \in Shards, NEW v \in Versions
  PROVE  /\ FileOf(s, v) \in File /\ FileOf(s, v) # NoFile
         /\ Good(FileOf(s, v), s, v)
  BY DEF Payload, FileOf, File, Good, Versions

LEMMA Receipts ==
  ASSUME NEW v \in Versions, NEW file \in File
  PROVE  /\ ReceiptFor(v, file) \in Receipt /\ ReceiptFor(v, file) # NoFile
         /\ ReceiptFor(v, file).plan = v /\ ReceiptFor(v, file).file = file
  BY DEF ReceiptFor, Receipt

LEMMA PackInitInv == PackInit => PackInv
<1> SUFFICES ASSUME PackInit PROVE PackInv
  OBVIOUS
<1>1. PackTypeOK
  BY Files DEF PackInit, PackTypeOK, Versions, Steps, NoFiles, PlanDocs
<1>2. PlansOfSurface
  BY DEF PackInit, PlansOfSurface, Versions
<1>3. docs[Auxiliary] = NoFile /\ final = NoFile
  BY Files DEF PackInit
<1>4. \A p \in Packers : Placed(p) /\ ~Running(p)
  BY DEF PackInit, Placed, Running, AtWork
<1>5. Alike /\ Honest
  BY DEF PackInit, Alike, Honest, NoFiles
<1> QED
  BY <1>1, <1>2, <1>3, <1>4, <1>5 DEF PackInv, PackTypeInv

-----------------------------------------------------------------------------
(* Types *)

(* The parts of the type invariant a step of p can disturb. *)
LEMMA PackTyped ==
  ASSUME PackTypeInv, NEW p \in Packers
  PROVE  /\ planOf[p] \in Versions /\ atFile[p] \in 1..NumFiles + 1
         /\ hashes[p] \in [Shards -> File \union {NoFile}]
         /\ DOMAIN hashes = Packers /\ DOMAIN step = Packers
         /\ DOMAIN atFile = Packers /\ DOMAIN planOf = Packers
         /\ \A s \in Shards : /\ shard[s] \in File \union {NoFile}
                              /\ receipt[s] \in Receipt \union {NoFile}
                              /\ receipt[s] # NoFile => receipt[s].file \in File
  BY DEF PackTypeInv, PackTypeOK, Receipt

LEMMA PackStepType ==
  ASSUME PackTypeInv, NEW p \in Packers, PackStep(p)
  PROVE  PackTypeInv'
<1> USE Files, PackTyped DEF PackTypeInv, PackTypeOK, GoTo, Placed, AtWork, Document
<1>1. CASE ResumeShard(p)
  BY <1>1 DEF ResumeShard, AtShard, Holds, output, encoding
<1>2. CASE Unwind(p)
  BY <1>2 DEF Unwind, Forget, NoFiles, encoding, Steps, Versions
<1>3. CASE LoadShard(p)
  BY <1>3 DEF LoadShard, AtShard, output, encoding, Steps
<1>4. CASE WriteTemporary(p)
  BY <1>4 DEF WriteTemporary, encoding, Steps
<1>5. CASE ReplaceShard(p)
  <2>1. FileOf(atFile[p], planOf[p]) \in File /\ FileOf(atFile[p], planOf[p]) # NoFile
    BY <1>5, Payloads DEF ReplaceShard
  <2> QED
    BY <1>5, <2>1 DEF ReplaceShard, encoding, Steps
<1>6. CASE VerifyShard(p)
  BY <1>6 DEF VerifyShard, ReadsBack, output, encoding, Steps
<1>7. CASE HashShard(p)
  BY <1>7 DEF HashShard, Holds, output, encoding, Steps
<1>8. CASE WriteReceipt(p)
  <2>1. ReceiptFor(planOf[p], hashes[p][atFile[p]]) \in Receipt
    BY <1>8, Receipts DEF WriteReceipt
  <2> QED
    BY <1>8, <2>1 DEF WriteReceipt, ReceiptFor, encoding, Steps
<1>9. CASE WriteDocument(p)
  <2>1. /\ docs' = [docs EXCEPT ![Document(p)] = planOf[p]]
        /\ Document(p) # Auxiliary /\ Document(p) \in DOMAIN Documents
        /\ docs \in [DOMAIN Documents -> {NoFile, 0} \union Versions]
        /\ planOf[p] \in Versions
    BY <1>9 DEF WriteDocument, AtDocument, PlanDocs
  <2>2. docs' \in [DOMAIN Documents -> {NoFile, 0} \union Versions]
    BY <2>1
  <2>3. docs'[Auxiliary] = docs[Auxiliary]
    BY <2>1
  <2>4. atFile[p] \in 1..NumFiles
    BY <2>1
  <2>5. /\ atFile' = [atFile EXCEPT ![p] = @ + 1] /\ step[p] = "file"
        /\ UNCHANGED <<packs, surface, shard, receipt, temps, final, step, planOf, hashes>>
    BY <1>9 DEF WriteDocument, AtDocument, encoding
  <2>6. docs' \in PlanDocs /\ docs'[Auxiliary] \in {NoFile, 0}
    BY <2>2, <2>3 DEF PlanDocs
  <2> QED
    BY <2>4, <2>5, <2>6
<1>10. CASE KeepAuxiliary(p)
  BY <1>10 DEF KeepAuxiliary, AtDocument, output, encoding
<1>11. CASE CopyAuxiliary(p)
  BY <1>11 DEF CopyAuxiliary, encoding, Steps
<1>12. CASE ReplaceAuxiliary(p)
  <2>1. docs' \in PlanDocs /\ docs'[Auxiliary] = 0
    BY <1>12 DEF ReplaceAuxiliary, PlanDocs
  <2> QED
    BY <1>12, <2>1 DEF ReplaceAuxiliary, encoding, Steps
<1>13. CASE WriteFinal(p)
  <2>1. [d \in DOMAIN Documents |->
           IF d \in Rehashed THEN docs[d] ELSE DocumentOf(d, planOf[p])] \in PlanDocs
    BY DEF PlanDocs, DocumentOf
  <2> QED
    BY <1>13, <2>1 DEF WriteFinal, FinalOf, encoding, Steps
<1>14. CASE Verify(p)
  BY <1>14 DEF Verify, Forget, NoFiles, output, encoding, Steps, Versions
<1> QED
  BY <1>1, <1>2, <1>3, <1>4, <1>5, <1>6, <1>7, <1>8, <1>9, <1>10, <1>11, <1>12, <1>13, <1>14
  DEF PackStep, RefuseResume, RefuseChoice, RefuseFile, RefuseVerify

LEMMA PackNextType ==
  ASSUME PackTypeInv, [PackNext]_packVars
  PROVE  PackTypeInv'
<1> USE Files DEF PackTypeInv, PackTypeOK, GoTo, Placed, AtWork, Document
<1>1. ASSUME NEW p \in Packers, Begin(p) PROVE PackTypeInv'
  BY <1>1 DEF Begin, encoding, output, Steps
<1>2. ASSUME NEW p \in Packers, Kill(p) PROVE PackTypeInv'
  BY <1>2 DEF Kill, Forget, NoFiles, encoding, output, Steps, Versions
<1>3. CASE Reencode
  <2>1. packs.versions \in Versions
    OBVIOUS
  <2> QED
    BY <1>3, <2>1 DEF Reencode, output, packer, Versions
<1>4. CASE UNCHANGED packVars
  BY <1>4 DEF packVars, output, packer, encoding
<1> QED
  BY <1>1, <1>2, <1>3, <1>4, PackStepType DEF PackNext

-----------------------------------------------------------------------------
(* What one step of a pack does to the output root. *)

LEMMA StepRuns ==
  ASSUME NEW p \in Packers, PackStep(p)
  PROVE  Running(p)
BY DEF PackStep, ResumeShard, RefuseResume, LoadShard, RefuseChoice, VerifyShard, RefuseFile,
       ReadsBack, WriteTemporary, ReplaceShard, HashShard, WriteReceipt, WriteDocument,
       KeepAuxiliary, CopyAuxiliary, ReplaceAuxiliary, WriteFinal, Verify, RefuseVerify,
       AtShard, AtDocument, Running

(* What p may have changed, of its own and of the shared. *)
Wrote(p) ==
  /\ UNCHANGED <<packs, surface>>
  /\ \A q \in Packers \ {p} :
       /\ step'[q] = step[q] /\ planOf'[q] = planOf[q]
       /\ atFile'[q] = atFile[q] /\ hashes'[q] = hashes[q]
  /\ planOf'[p] \in {planOf[p], 1}
  /\ Running(p)' => planOf'[p] = planOf[p]
  /\ \A s \in Shards :
       /\ shard'[s] # shard[s] =>
            step[p] = "writing" /\ s = atFile[p] /\ shard'[s] = FileOf(s, planOf[p])
       /\ receipt'[s] # receipt[s] =>
            /\ step[p] = "hashed" /\ s = atFile[p]
            /\ receipt'[s] = ReceiptFor(planOf[p], hashes[p][s])
       /\ hashes'[p][s] \in {hashes[p][s], NoFile, shard[s]}
  /\ \A d \in DOMAIN Documents : docs'[d] \in {docs[d], DocumentOf(d, planOf[p])}
  /\ final' # final => WriteFinal(p)

LEMMA StepWrites ==
  ASSUME PackTypeInv, NEW p \in Packers, PackStep(p)
  PROVE  Wrote(p)
<1> USE Files, PackTyped DEF PackTypeInv, PackTypeOK, GoTo, Placed, AtWork, Document, Wrote
<1>1. CASE ResumeShard(p)
  BY <1>1 DEF ResumeShard, AtShard, Matches, Holds, output, encoding
<1>2. CASE Unwind(p)
  BY <1>2 DEF Unwind, Forget, NoFiles, encoding, Running
<1>3. CASE LoadShard(p) \/ VerifyShard(p) \/ WriteTemporary(p)
  BY <1>3 DEF LoadShard, VerifyShard, WriteTemporary, output, encoding
<1>4. CASE ReplaceShard(p)
  BY <1>4 DEF ReplaceShard, encoding
<1>5. CASE HashShard(p)
  BY <1>5 DEF HashShard, Holds, output, encoding
<1>6. CASE WriteReceipt(p)
  BY <1>6 DEF WriteReceipt, ReceiptFor, encoding
<1>7. CASE WriteDocument(p)
  BY <1>7 DEF WriteDocument, AtDocument, DocumentOf, encoding
<1>8. CASE KeepAuxiliary(p) \/ CopyAuxiliary(p)
  BY <1>8 DEF KeepAuxiliary, CopyAuxiliary, output, encoding
<1>9. CASE ReplaceAuxiliary(p)
  BY <1>9 DEF ReplaceAuxiliary, DocumentOf, encoding
<1>10. CASE WriteFinal(p)
  BY <1>10 DEF WriteFinal, encoding
<1>11. CASE Verify(p)
  BY <1>11 DEF Verify, Forget, NoFiles, output, encoding, Running
<1> QED
  BY <1>1, <1>2, <1>3, <1>4, <1>5, <1>6, <1>7, <1>8, <1>9, <1>10, <1>11
  DEF PackStep, RefuseResume, RefuseChoice, RefuseFile, RefuseVerify

LEMMA OwnPrefix ==
  ASSUME PackTypeInv, NEW p \in Packers, PackStep(p), Prefix(p), Honest
  PROVE  Running(p)' => Prefix(p)'
<1> USE Files, PackTyped
    DEF PackTypeInv, PackTypeOK, GoTo, Placed, AtWork, Document, Prefix, Good, ReceiptFor
<1>1. CASE ResumeShard(p)
  <2>1. receipt[atFile[p]] = ReceiptFor(planOf[p], shard[atFile[p]])
    BY <1>1 DEF ResumeShard, AtShard, Matches, Receipt
  <2>2. Good(shard[atFile[p]], atFile[p], planOf[p])
    BY <1>1, <2>1 DEF ResumeShard, AtShard, Honest
  <2>3. /\ hashes'[p] = [hashes[p] EXCEPT ![atFile[p]] = shard[atFile[p]]]
        /\ atFile'[p] = atFile[p] + 1 /\ atFile[p] \in Shards
        /\ step'[p] = "file" /\ UNCHANGED <<packs, planOf, shard, receipt, docs>>
    BY <1>1, <2>1 DEF ResumeShard, AtShard, Matches, Holds, output, encoding
  <2>4. \A s \in Shards : s < atFile'[p] => s < atFile[p] \/ s = atFile[p]
    BY <2>3
  <2> QED
    BY <2>1, <2>2, <2>3, <2>4
<1>2. CASE Unwind(p)
  BY <1>2 DEF Unwind, Running
<1>3. CASE LoadShard(p)
  BY <1>3 DEF LoadShard, AtShard, output, encoding
<1>4. CASE WriteTemporary(p) \/ CopyAuxiliary(p)
  BY <1>4 DEF WriteTemporary, CopyAuxiliary, output, encoding
<1>5. CASE ReplaceShard(p)
  BY <1>5 DEF ReplaceShard, encoding
<1>6. CASE VerifyShard(p)
  BY <1>6 DEF VerifyShard, ReadsBack, output, encoding
<1>7. CASE HashShard(p)
  BY <1>7 DEF HashShard, Holds, output, encoding
<1>8. CASE WriteReceipt(p)
  BY <1>8 DEF WriteReceipt, encoding
<1>9. CASE WriteDocument(p)
  <2>1. /\ docs' = [docs EXCEPT ![Document(p)] = DocumentOf(Document(p), planOf[p])]
        /\ atFile'[p] = atFile[p] + 1 /\ Document(p) \in DOMAIN Documents
        /\ step'[p] = "file" /\ UNCHANGED <<packs, planOf, shard, receipt, hashes>>
    BY <1>9 DEF WriteDocument, AtDocument, DocumentOf, encoding
  <2>2. \A d \in DOMAIN Documents : d < Document(p) + 1 => docs'[d] = DocumentOf(d, planOf[p])
    BY <2>1 DEF PlanDocs
  <2> QED
    BY <2>1, <2>2 DEF DocumentOf
<1>10. CASE KeepAuxiliary(p)
  BY <1>10 DEF KeepAuxiliary, AtDocument, DocumentOf, output, encoding
<1>11. CASE ReplaceAuxiliary(p)
  <2>1. /\ docs' = [docs EXCEPT ![4] = 0] /\ Document(p) = 4
        /\ atFile'[p] = atFile[p] + 1
        /\ step'[p] = "file" /\ UNCHANGED <<packs, planOf, shard, receipt, hashes>>
    BY <1>11 DEF ReplaceAuxiliary, encoding
  <2>2. DocumentOf(4, planOf[p]) = 0
    BY DEF DocumentOf
  <2>3. \A d \in DOMAIN Documents : d < Document(p) + 1 => docs'[d] = DocumentOf(d, planOf[p])
    <3> TAKE d \in DOMAIN Documents
    <3>1. CASE d = 4
      BY <2>1, <2>2, <3>1 DEF PlanDocs
    <3>2. CASE d # 4
      BY <2>1, <3>2 DEF PlanDocs
    <3> QED
      BY <3>1, <3>2
  <2> QED
    BY <2>1, <2>3 DEF DocumentOf
<1>12. CASE WriteFinal(p)
  BY <1>12 DEF WriteFinal, encoding
<1>13. CASE Verify(p)
  BY <1>13 DEF Verify, Running
<1> QED
  BY <1>1, <1>2, <1>3, <1>4, <1>5, <1>6, <1>7, <1>8, <1>9, <1>10, <1>11, <1>12, <1>13
  DEF PackStep, RefuseResume, RefuseChoice, RefuseFile, RefuseVerify

(* A step keeps receipts honest. *)
LEMMA StepHonest ==
  ASSUME PackTypeInv, NEW p \in Packers, PackStep(p), Prefix(p), Honest
  PROVE  Honest'
<1> SUFFICES ASSUME NEW s \in Shards, receipt'[s] # NoFile
             PROVE  Good(receipt'[s].file, s, receipt'[s].plan)
  BY DEF Honest, Good, Payload
<1>1. CASE receipt'[s] = receipt[s]
  BY <1>1 DEF Honest
<1>2. CASE receipt'[s] # receipt[s]
  <2>1. /\ step[p] = "hashed" /\ s = atFile[p]
        /\ receipt'[s] = ReceiptFor(planOf[p], hashes[p][s])
    BY <1>2, StepWrites DEF Wrote
  <2> QED
    BY <2>1 DEF Prefix, ReceiptFor
<1> QED
  BY <1>1, <1>2

(* Of one surface, a step leaves a file that is there as it is. *)
LEMMA StepAlike ==
  ASSUME PackTypeInv, PlansOfSurface, packs.versions = 1, Alike,
         NEW p \in Packers, PackStep(p)
  PROVE  /\ Alike'
         /\ \A s \in Shards : /\ shard[s] # NoFile => shard'[s] = shard[s]
                              /\ receipt[s] # NoFile => receipt'[s] = receipt[s]
<1>1. planOf[p] = 1
  BY PackTyped DEF PackTypeInv, PackTypeOK, PlansOfSurface, Versions
<1>2. \A s \in Shards : shard'[s] \in {shard[s], FileOf(s, 1)}
  BY <1>1, StepWrites DEF Wrote
<1>3. \A s \in Shards : receipt'[s] \in {receipt[s], ReceiptFor(1, FileOf(s, 1))}
  <2> SUFFICES ASSUME NEW s \in Shards, receipt'[s] # receipt[s]
               PROVE  receipt'[s] = ReceiptFor(1, FileOf(s, 1))
    OBVIOUS
  <2>1. step[p] = "hashed" /\ s = atFile[p] /\ receipt'[s] = ReceiptFor(1, hashes[p][s])
    BY <1>1, StepWrites DEF Wrote
  <2>2. hashes[p][s] = FileOf(s, 1)
    BY <2>1 DEF PackTypeInv, Placed, Alike
  <2> QED
    BY <2>1, <2>2
<1>4. \A s \in Shards, q \in Packers : hashes'[q][s] \in {NoFile, FileOf(s, 1)}
  <2> TAKE s \in Shards, q \in Packers
  <2>1. hashes'[q][s] \in {hashes[q][s], NoFile, shard[s]}
    BY StepWrites DEF Wrote
  <2> QED
    BY <2>1 DEF Alike
<1>5. \A s \in Shards : FileOf(s, 1)' = FileOf(s, 1)
  BY DEF FileOf, Payload
<1> QED
  BY <1>2, <1>3, <1>4 DEF Alike, FileOf, Payload, ReceiptFor

LEMMA OtherPrefix ==
  ASSUME PackTypeInv, PlansOfSurface, packs.versions = 1, Alike,
         NEW p \in Packers, PackStep(p), planOf[p] = 1,
         NEW q \in Packers \ {p}, planOf[q] = 1, Prefix(q)
  PROVE  Prefix(q)'
<1>1. /\ planOf'[q] = 1 /\ step'[q] = step[q] /\ atFile'[q] = atFile[q]
      /\ hashes'[q] = hashes[q] /\ packs' = packs
  BY StepWrites DEF Wrote
<1>2. /\ \A s \in Shards : /\ shard[s] # NoFile => shard'[s] = shard[s]
                           /\ receipt[s] # NoFile => receipt'[s] = receipt[s]
      /\ \A d \in DOMAIN Documents : docs'[d] \in {docs[d], DocumentOf(d, 1)}
  BY StepAlike, StepWrites DEF Wrote
<1>3. \A s \in Shards :
        s < atFile[q] => receipt[s] = ReceiptFor(1, shard[s]) /\ receipt[s] # NoFile
  BY PackTyped, Receipts DEF Prefix, Good, Versions
<1>4. AtWork(q) => atFile[q] \in Shards
  BY DEF PackTypeInv, Placed
<1>5. /\ p \in Packers /\ q \in packs.packers
      /\ \A s \in Shards :
           s < atFile[q] => /\ Good(shard[s], s, 1)
                            /\ hashes[q][s] = shard[s]
                            /\ receipt[s] = ReceiptFor(1, shard[s])
      /\ \A d \in DOMAIN Documents : d < Document(q) => docs[d] = DocumentOf(d, 1)
      /\ step[q] \in {"verified", "hashed"} =>
           Good(shard[atFile[q]], atFile[q], 1) /\ atFile[q] \in Shards
      /\ step[q] = "hashed" => hashes[q][atFile[q]] = shard[atFile[q]]
  BY <1>4 DEF Prefix, AtWork
<1>6. ASSUME NEW s \in Shards, s < atFile[q]
      PROVE  /\ Good(shard'[s], s, 1)
             /\ hashes'[q][s] = shard'[s]
             /\ receipt'[s] = ReceiptFor(1, shard'[s])
  <2>1. shard[s] # NoFile /\ receipt[s] # NoFile
    BY <1>3, <1>5, <1>6 DEF Good
  <2>2. shard'[s] = shard[s] /\ receipt'[s] = receipt[s]
    BY <1>2, <2>1, Zenon
  <2> QED
    BY <1>1, <1>5, <1>6, <2>2
<1>7. \A d \in DOMAIN Documents : d < Document(q) => docs'[d] = DocumentOf(d, 1)
  BY <1>2, <1>5
<1>8. /\ step[q] \in {"verified", "hashed"} => Good(shard'[atFile[q]], atFile[q], 1)
      /\ step[q] = "hashed" => hashes'[q][atFile[q]] = shard'[atFile[q]]
  <2> SUFFICES ASSUME step[q] \in {"verified", "hashed"}
               PROVE  shard'[atFile[q]] = shard[atFile[q]]
    BY <1>1, <1>5
  <2>1. atFile[q] \in Shards /\ shard[atFile[q]] # NoFile
    BY <1>5 DEF Good
  <2> QED
    BY <1>2, <2>1, Zenon
<1> QED
  BY <1>1, <1>5, <1>6, <1>7, <1>8 DEF Prefix, Good, Payload, DocumentOf, Document

(* Packs that may overlap are of one surface, the first. *)
LEMMA OneSurface ==
  ASSUME PackTypeOK, PlansOfSurface, OneSurfaceAtATime,
         NEW p \in packs.packers, NEW q \in packs.packers, p # q
  PROVE  packs.versions = 1 /\ planOf[p] = 1 /\ planOf[q] = 1
<1>1. p \in Packers /\ q \in Packers /\ packs.versions \in Versions
  BY DEF PackTypeOK
<1>2. packs.versions = 1
  BY DEF OneSurfaceAtATime
<1> QED
  BY <1>1, <1>2 DEF PackTypeOK, PlansOfSurface, Versions

(* A pack of the complete plan writes what is there; a pack of any other   *)
(* is refused at the first shard.                                          *)
LEMMA OnPlanLeaves ==
  ASSUME PackTypeInv, PlansOfSurface, packs.versions = 1 => Alike,
         NEW p \in Packers, PackStep(p), Prefix(p),
         final # NoFile, Exact(final.plan, final.files), docs = final.docs,
         planOf[p] = final.plan
  PROVE  UNCHANGED <<shard, receipt, docs, final>>
<1>1. ASSUME NEW s \in Shards
      PROVE  /\ receipt[s] = ReceiptFor(planOf[p], shard[s]) /\ receipt[s] # NoFile
             /\ shard[s] = final.files[s] /\ shard[s] \in File
  <2>1. /\ shard[s] = final.files[s] /\ shard[s] # NoFile
        /\ receipt[s] = ReceiptFor(final.plan, final.files[s])
    BY DEF Exact, ReceiptFor
  <2> QED
    BY <2>1, PackTyped, Receipts
<1>2. \A s \in Shards : shard'[s] = shard[s] /\ receipt'[s] = receipt[s]
  <2>1. CASE packs.versions = 1
    BY <1>1, <2>1, StepAlike
  <2>2. CASE packs.versions # 1
    <3>1. ~AtWork(p)
      BY <1>1, <2>2 DEF Prefix, PackTypeInv, Placed
    <3> QED
      BY <3>1, StepWrites DEF Wrote, AtWork
  <2> QED
    BY <2>1, <2>2
<1>3. \A d \in DOMAIN Documents : docs'[d] = docs[d]
  BY StepWrites DEF Wrote, Exact
<1>4. UNCHANGED <<shard, receipt, docs>>
  BY <1>2, <1>3, PackStepType DEF PackTypeInv, PackTypeOK, PlanDocs
<1>5. CASE final' # final
  <2>1. WriteFinal(p)
    BY <1>5, StepWrites DEF Wrote
  <2>2. \A s \in Shards : hashes[p][s] = final.files[s]
    BY <1>1, <2>1, Files, PackTyped DEF WriteFinal, Prefix
  <2>3. hashes[p] = final.files
    BY <2>2, PackTyped DEF PackTypeInv, PackTypeOK
  <2>4. [d \in DOMAIN Documents |->
           IF d \in Rehashed THEN docs[d] ELSE DocumentOf(d, planOf[p])] = final.docs
    BY DEF Exact, PackTypeInv, PackTypeOK, PlanDocs
  <2>5. final' = [plan |-> planOf[p], files |-> hashes[p], docs |-> final.docs]
    BY <2>1, <2>4 DEF WriteFinal, FinalOf
  <2>6. final = [plan |-> final.plan, files |-> final.files, docs |-> final.docs]
    BY DEF PackTypeInv, PackTypeOK
  <2> QED
    BY <1>4, <2>3, <2>5, <2>6
<1> QED
  BY <1>4, <1>5

LEMMA StepsLeave ==
  ASSUME PackTypeInv, PlansOfSurface, packs.versions = 1 => Alike,
         NEW p \in Packers, PackStep(p), Prefix(p), Settled(p),
         final # NoFile, Exact(final.plan, final.files), docs = final.docs
  PROVE  /\ UNCHANGED <<shard, receipt, docs, final>>
         /\ Running(p)' => Settled(p)'
<1>1. CASE planOf[p] = final.plan
  BY <1>1, OnPlanLeaves, StepWrites DEF Settled, Wrote
<1>2. CASE planOf[p] # final.plan /\ step[p] = "file" /\ atFile[p] = 1
  <2>1. 1 \in Shards
    BY Files
  <2>2. /\ receipt[1] = ReceiptFor(final.plan, final.files[1])
        /\ final.plan \in Versions /\ final.files[1] \in File
    BY <2>1 DEF Exact, ReceiptFor, PackTypeInv, PackTypeOK
  <2>3. receipt[1] # NoFile /\ receipt[1].plan = final.plan
    BY <2>2, Receipts
  <2>4. ~AtDocument(p) /\ ~(atFile[p] > NumFiles)
    BY <1>2, Files DEF AtDocument, Document
  <2>5. RefuseResume(p)
    BY <1>2, <2>1, <2>3, <2>4
    DEF PackStep, ResumeShard, Matches, LoadShard, RefuseChoice, VerifyShard, RefuseFile,
        ReadsBack, WriteTemporary, ReplaceShard, HashShard, WriteReceipt, WriteDocument,
        KeepAuxiliary, CopyAuxiliary, ReplaceAuxiliary, WriteFinal, Verify, RefuseVerify
  <2> QED
    BY <2>5 DEF RefuseResume, Unwind, GoTo, Running, PackTypeInv, PackTypeOK
<1> QED
  BY <1>1, <1>2 DEF Settled

-----------------------------------------------------------------------------
(* The invariant. *)

LEMMA PackStepInv ==
  ASSUME PackInv, NEW p \in Packers, PackStep(p)
  PROVE  PackInv'
<1>1. PackTypeInv'
  BY PackStepType DEF PackInv
<1>2. PlansOfSurface' /\ packs' = packs /\ (OneSurfaceAtATime' <=> OneSurfaceAtATime)
  <2>1. 1 <= surface
    BY DEF PackInv, PackTypeInv, PackTypeOK, Versions
  <2> QED
    BY <2>1, StepWrites DEF PackInv, PlansOfSurface, OneSurfaceAtATime, Wrote
<1>3. Running(p)
  BY StepRuns
<1>4. packs.versions = 1 => Alike'
  BY StepAlike DEF PackInv
<1>5. ASSUME OneSurfaceAtATime PROVE Honest' /\ \A q \in Packers : Running(q)' => Prefix(q)'
  <2>1. Prefix(p) /\ Honest
    BY <1>3, <1>5 DEF PackInv
  <2>2. Honest' /\ (Running(p)' => Prefix(p)')
    BY <2>1, OwnPrefix, StepHonest DEF PackInv
  <2>3. ASSUME NEW q \in Packers \ {p}, Running(q)' PROVE Prefix(q)'
    <3>1. Running(q)
      BY <2>3, StepWrites DEF PackInv, Running, Wrote
    <3>2. Prefix(q)
      BY <1>5, <3>1 DEF PackInv
    <3>3. packs.versions = 1 /\ planOf[p] = 1 /\ planOf[q] = 1
      BY <1>5, <2>1, <3>2, OneSurface DEF PackInv, PackTypeInv, Prefix
    <3> QED
      BY <3>2, <3>3, OtherPrefix DEF PackInv
  <2> QED
    BY <2>2, <2>3
<1>6. ASSUME OneSurfaceAtATime, final' # NoFile
      PROVE  /\ Exact(final.plan, final.files)' /\ docs' = final'.docs
             /\ \A q \in Packers : Running(q)' => Settled(q)'
  <2>1. \A q \in Packers \ {p} : Running(q)' => Running(q)
    BY StepWrites DEF PackInv, Running, Wrote
  <2>2. Prefix(p)
    BY <1>3, <1>6 DEF PackInv
  <2>3. CASE final # NoFile
    <3>1. /\ Exact(final.plan, final.files) /\ docs = final.docs
          /\ \A q \in Packers : Running(q) => Settled(q)
      BY <1>6, <2>3 DEF PackInv
    <3>2. UNCHANGED <<shard, receipt, docs, final>> /\ (Running(p)' => Settled(p)')
      BY <1>3, <2>2, <2>3, <3>1, StepsLeave DEF PackInv
    <3>3. \A q \in Packers \ {p} : Running(q)' => Settled(q)'
      BY <2>1, <3>1, <3>2, StepWrites DEF PackInv, Settled, Wrote
    <3> QED
      BY <3>1, <3>2, <3>3 DEF Exact
  <2>4. CASE final = NoFile
    <3>1. WriteFinal(p) /\ UNCHANGED <<shard, receipt, docs, planOf>>
      BY <1>6, <2>4, StepWrites DEF PackInv, WriteFinal, Wrote
    <3>2. final'.plan = planOf[p] /\ final'.files = hashes[p]
      BY <3>1 DEF WriteFinal, FinalOf
    <3>3. \A d \in DOMAIN Documents : docs[d] = DocumentOf(d, planOf[p])
      BY <2>2, <3>1, Files DEF WriteFinal, Prefix, Document, PackInv, PackTypeInv, PackTypeOK
    <3>4. Exact(planOf[p], hashes[p])
      BY <2>2, <3>1, <3>3, Files
      DEF WriteFinal, Prefix, Exact, Good, ReceiptFor, PackInv, PackTypeInv, PackTypeOK
    <3>5. docs' = final'.docs
      <4>1. docs = [d \in DOMAIN Documents |->
                     IF d \in Rehashed THEN docs[d] ELSE DocumentOf(d, planOf[p])]
        BY <3>3 DEF PackInv, PackTypeInv, PackTypeOK, PlanDocs
      <4> QED
        BY <3>1, <4>1 DEF WriteFinal, FinalOf
    <3>6. \A q \in Packers \ {p} : Running(q) => planOf[q] = planOf[p]
      BY <1>6, <2>2, OneSurface DEF PackInv, PackTypeInv, Prefix
    <3>7. \A q \in Packers : Running(q)' => Settled(q)'
      BY <2>1, <3>1, <3>2, <3>6 DEF Settled
    <3> QED
      BY <3>1, <3>2, <3>4, <3>5, <3>7 DEF Exact
  <2> QED
    BY <2>3, <2>4
<1> QED
  BY <1>1, <1>2, <1>4, <1>5, <1>6 DEF PackInv

LEMMA PackBeginInv ==
  ASSUME PackInv, NEW p \in Packers, Begin(p)
  PROVE  PackInv'
<1> USE DEF PackInv, Begin, GoTo, encoding, output
<1>1. PackTypeInv'
  BY PackNextType DEF PackNext
<1>2. PlansOfSurface'
  BY DEF PlansOfSurface, PackTypeInv, PackTypeOK, Versions
<1>3. /\ step'[p] = "file" /\ atFile'[p] = 1 /\ p \in packs.packers
      /\ \A q \in Packers \ {p} :
           step'[q] = step[q] /\ atFile'[q] = atFile[q] /\ planOf'[q] = planOf[q]
  BY DEF PackTypeInv, PackTypeOK
<1>4. (OneSurfaceAtATime' <=> OneSurfaceAtATime) /\ (Honest => Honest') /\ (Alike => Alike')
  BY DEF OneSurfaceAtATime, Honest, Alike, Good, Payload, FileOf, ReceiptFor
<1>5. Prefix(p)'
  BY <1>3, Files DEF Prefix, Document, AtWork
<1>6. \A q \in Packers \ {p} : (Running(q)' => Running(q)) /\ (Prefix(q) => Prefix(q)')
  BY <1>3 DEF Running, Prefix, Document, AtWork, Good, Payload, DocumentOf, ReceiptFor
<1>7. Settled(p)' /\ \A q \in Packers \ {p} : Settled(q) => Settled(q)'
  BY <1>3 DEF Settled
<1>8. Exact(final.plan, final.files) => Exact(final.plan, final.files)'
  BY DEF Exact
<1> QED
  BY <1>1, <1>2, <1>4, <1>5, <1>6, <1>7, <1>8

(* Killing a pack, encoding the surface again and stuttering leave the     *)
(* output root and every running pack where they are.                      *)
LEMMA PackElseInv ==
  ASSUME PackInv,
         \/ \E p \in Packers : Kill(p)
         \/ Reencode
         \/ UNCHANGED packVars
  PROVE  PackInv'
<1> USE DEF PackInv, encoding, output, packer, packVars
<1>1. PackTypeInv'
  BY PackNextType DEF PackNext
<1>2. UNCHANGED <<packs, output>>
  BY DEF Kill, Reencode
<1>3. \A q \in Packers :
        /\ Running(q)' => /\ Running(q) /\ step'[q] = step[q] /\ planOf'[q] = planOf[q]
                          /\ atFile'[q] = atFile[q] /\ hashes'[q] = hashes[q]
        /\ planOf'[q] \in {planOf[q], 1} /\ hashes'[q] \in {hashes[q], NoFiles}
  BY DEF Kill, Forget, Reencode, GoTo, Running, PackTypeInv, PackTypeOK
<1>4. PlansOfSurface'
  <2>1. \A q \in Packers : planOf[q] \in Nat /\ planOf'[q] \in {planOf[q], 1}
    BY <1>3 DEF PackTypeInv, PackTypeOK, Versions
  <2>2. surface \in Nat \ {0} /\ surface' \in Nat /\ packs.versions \in Nat
    BY <1>1 DEF PackTypeInv, PackTypeOK, Versions
  <2>3. surface <= surface' /\ surface' <= packs.versions
    BY <2>2 DEF Kill, Reencode, PlansOfSurface
  <2> QED
    BY <1>2, <2>1, <2>2, <2>3 DEF PlansOfSurface
<1>5. (Alike => Alike') /\ (Honest => Honest')
  BY <1>2, <1>3 DEF Alike, Honest, Good, Payload, FileOf, ReceiptFor, NoFiles
<1>6. \A q \in Packers : Running(q)' /\ Prefix(q) => Prefix(q)'
  BY <1>2, <1>3 DEF Prefix, Document, AtWork, Good, Payload, DocumentOf, ReceiptFor
<1>7. \A q \in Packers : Running(q)' /\ Settled(q) => Settled(q)'
  BY <1>2, <1>3 DEF Settled
<1>8. /\ Exact(final.plan, final.files) => Exact(final.plan, final.files)'
      /\ OneSurfaceAtATime' <=> OneSurfaceAtATime
  BY <1>2 DEF Exact, OneSurfaceAtATime
<1> QED
  BY <1>1, <1>2, <1>3, <1>4, <1>5, <1>6, <1>7, <1>8

LEMMA PackNextInv == PackInv /\ [PackNext]_packVars => PackInv'
  BY PackStepInv, PackBeginInv, PackElseInv DEF PackNext

(* Every variable of the packs and of the output root keeps its type.      *)
THEOREM PackTypesHold == PackSpec => []PackTypeOK
<1>1. PackInit => PackTypeInv
  BY PackInitInv DEF PackInv
<1>2. PackTypeInv /\ [PackNext]_packVars => PackTypeInv'
  BY PackNextType
<1>3. PackTypeInv => PackTypeOK
  BY DEF PackTypeInv
<1> QED
  BY <1>1, <1>2, <1>3, PTL DEF PackSpec

(* A checkpoint of packs of one surface at a time whose receipt says       *)
(* complete is exactly its plan's, however often its packs were killed and *)
(* whatever was encoded again between them.                                *)
THEOREM CompleteCorrect == PackSpec => []CompleteIsExact
<1>1. PackInv => CompleteIsExact
  BY DEF PackInv, CompleteIsExact
<1> QED
  BY <1>1, PackInitInv, PackNextInv, PTL DEF PackSpec

(* As long as overlapping packs are of one surface, no step disturbs a     *)
(* complete checkpoint.                                                    *)
THEOREM CompleteStays == PackSpec => CompleteIsFinal
<1>1. PackInv /\ [PackNext]_packVars =>
        [OneSurfaceAtATime /\ final # NoFile =>
           UNCHANGED <<shard, receipt, docs, final>>]_packVars
  <2> SUFFICES ASSUME PackInv, PackNext, OneSurfaceAtATime, final # NoFile
               PROVE  UNCHANGED <<shard, receipt, docs, final>>
    OBVIOUS
  <2>1. ASSUME NEW p \in Packers, PackStep(p)
        PROVE  UNCHANGED <<shard, receipt, docs, final>>
    BY <2>1, StepRuns, StepsLeave DEF PackInv
  <2> QED
    BY <2>1 DEF PackNext, Begin, Kill, Reencode, output
<1> QED
  BY <1>1, PackInitInv, PackNextInv, PTL DEF PackSpec, CompleteIsFinal
=============================================================================
