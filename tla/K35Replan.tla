----------------------------- MODULE K35Replan -----------------------------
(***************************************************************************)
(* The campaign across launch plans: the files of the state directory, the *)
(* phase-5b re-plan that moves them to history and restarts the chain, the *)
(* phase-6 and 6b scripts, and workers and recoveries that hold a plan in  *)
(* memory.  Workers and recoveries take the state flock; the operator's    *)
(* scripts do not, so every locked section is split where it reads plan,   *)
(* chain and writes its successor.                                         *)
(*                                                                         *)
(* A launch plan seals the allocations it was built from and is identified *)
(* by their generation: 0 is the provisional plan of phase 4.  What        *)
(* encode_layer does expert by expert is in K35Campaign; here a layer      *)
(* directory is the claim its artifacts embed.  PAUSE is left out.         *)
(***************************************************************************)
EXTENDS K35StateMachine, Functions, FiniteSetsExt

CONSTANTS Procs,         \* worker processes
          WorkerOf,      \* the --worker id of each
          Recoverer,     \* the --recover-worker process
          Free,          \* nobody holds the flock
          Usages,        \* the values of quiet considered
          InOrder,       \* TRUE: phases 5b, 6, 6b run in this order
          MaxPlan,       \* bound on allocation generations
          MaxSeq         \* bound: recoveries start below this sequence,
                         \* unless the layer holds foreign artifacts

ASSUME ReplanAssumption ==
  /\ WorkerOf \in [Procs -> Workers]
  /\ Recoverer \notin Procs /\ Free \notin Procs /\ Recoverer # Free
  /\ Usages \subseteq BOOLEAN /\ InOrder \in BOOLEAN
  /\ MaxPlan \in Nat /\ MaxSeq \in Nat

VARIABLES
  files,      \* state/: sequence -> state
  planDisk,   \* the plan of plan.json
  allocDisk,  \* the generation of allocations/
  readiness,  \* gss/readiness-receipt.json
  layers,     \* layer -> claim the artifacts under layers/L{NN} embed
  lock,       \* who holds state/.lock
  pc, bound,  \* where a process is, the plan it loaded at start
  claim, mem, \* its active_claim, the state it read under the lock
  rpc, rplan, rworker, rmem, \* the same for the recovery
  opc, omem,  \* the operator's script, the successor 6b is about to write
  todo,       \* the sequences phase 5b globbed and has not moved yet
  quiet       \* the operator stops workers and recoveries for phase 5b

inputs == <<planDisk, allocDisk, readiness>>
worker == <<pc, bound, claim, mem>>
recovery == <<rpc, rplan, rworker, rmem>>
operator == <<opc, omem, todo, quiet>>
vars == <<files, inputs, layers, lock, worker, recovery, operator>>

Stopped == {"down", "failed", "killed"}
PC == Stopped \union
      {"starting", "loop", "locked", "claiming", "check", "encode", "readback",
       "sealed", "recording"}

-----------------------------------------------------------------------------
(* The state directory *)

Put(f, k, s) == [j \in DOMAIN f \union {k} |-> IF j = k THEN s ELSE f[j]]

(* newest_state: only states of the caller's plan are candidates. *)
Chain(plan) == {k \in DOMAIN files : files[k].plan = plan}

HasState(plan) == Chain(plan) # {}

NewestState(plan) == files[Max(Chain(plan))]

Append1(s) == files' = Put(files, s.seq, s)

Init ==
  /\ files = [k \in {0} |-> InitialState(0)]
  /\ planDisk = 0 /\ allocDisk = 0
  /\ readiness = NoClaim
  /\ layers = [l \in Layers |-> NoClaim]
  /\ lock = Free
  /\ pc = [p \in Procs |-> "down"]
  /\ bound = [p \in Procs |-> 0]
  /\ claim = [p \in Procs |-> NoClaim]
  /\ mem = [p \in Procs |-> NoClaim]
  /\ rpc = "idle" /\ rplan = 0 /\ rworker = NoClaim /\ rmem = NoClaim
  /\ opc = "idle" /\ omem = NoClaim /\ todo = {}
  /\ quiet \in Usages

-----------------------------------------------------------------------------
(* Workers *)

Go(p, where) == pc' = [pc EXCEPT ![p] = where]

Unlock(a) == lock' = IF lock = a THEN Free ELSE lock

(* A process that stops forgets what it read; its flock is released. *)
Stop(p, how) ==
  /\ Go(p, how)
  /\ claim' = [claim EXCEPT ![p] = NoClaim]
  /\ mem' = [mem EXCEPT ![p] = NoClaim]
  /\ bound' = [bound EXCEPT ![p] = 0]
  /\ Unlock(p)
  /\ UNCHANGED <<files, inputs, layers, recovery, operator>>

Replanning == opc \in {"replan", "restart"}

BesideReplan == quiet => ~Replanning

Crash(p) == pc[p] \notin Stopped /\ Stop(p, "killed")

(* "Never run it while the target worker might still be alive": nobody     *)
(* starts a worker that is being recovered.                                *)
LoadPlan(p) ==
  /\ pc[p] \in Stopped
  /\ BesideReplan
  /\ rpc = "idle" \/ rworker # WorkerOf[p]
  /\ Go(p, "starting")
  /\ bound' = [bound EXCEPT ![p] = planDisk]
  /\ UNCHANGED <<files, inputs, layers, lock, claim, mem, recovery, operator>>

ReadinessBinds(plan) == readiness # NoClaim /\ readiness.plan = plan

BindReadiness(p) ==
  /\ pc[p] = "starting"
  /\ ReadinessBinds(bound[p])
  /\ Go(p, "loop")
  /\ UNCHANGED <<files, inputs, layers, lock, bound, claim, mem, recovery, operator>>

RefuseReadiness(p) ==
  /\ pc[p] = "starting"
  /\ ~ReadinessBinds(bound[p])
  /\ Stop(p, "failed")

(* The head of the loop: the flock, then plan.json once more.  Mutant: the *)
(* section is entered without the flock.                                   *)
EnterLoopUnlocked(p) ==
  /\ pc[p] = "loop"
  /\ planDisk = bound[p]
  /\ Go(p, "locked")
  /\ UNCHANGED <<files, inputs, layers, lock, bound, claim, mem, recovery, operator>>

EnterLoop(p) ==
  /\ pc[p] = "loop" /\ lock = Free
  /\ planDisk = bound[p]
  /\ lock' = p
  /\ Go(p, "locked")
  /\ UNCHANGED <<files, inputs, layers, bound, claim, mem, recovery, operator>>

ExitReplanned(p) ==
  /\ pc[p] = "loop" /\ lock = Free
  /\ planDisk # bound[p]
  /\ Stop(p, "down")

Newest(p) == NewestState(bound[p])
Mine(p, s) == s.active[WorkerOf[p]]

(* No state of the plan, phase still "planned", or a provisional layer. *)
RefuseState(p) ==
  /\ pc[p] = "locked"
  /\ \/ ~HasState(bound[p])
     \/ HasState(bound[p]) /\ Newest(p).phase = "planned"
     \/ /\ HasState(bound[p]) /\ Mine(p, Newest(p)) = NoClaim
        /\ Newest(p).pending # <<>> /\ bound[p] = 0
  /\ Stop(p, "failed")

InEncoding(p) ==
  /\ pc[p] = "locked"
  /\ HasState(bound[p])
  /\ Newest(p).phase = "k35_main_encoding"

Resume(p) ==
  /\ InEncoding(p)
  /\ Mine(p, Newest(p)) # NoClaim
  /\ claim' = [claim EXCEPT ![p] = Mine(p, Newest(p))]
  /\ Unlock(p)
  /\ Go(p, "check")
  /\ UNCHANGED <<files, inputs, layers, bound, mem, recovery, operator>>

ExitDrained(p) ==
  /\ InEncoding(p)
  /\ Mine(p, Newest(p)) = NoClaim
  /\ Newest(p).pending = <<>>
  /\ Stop(p, "down")

ReadForClaim(p) ==
  /\ InEncoding(p)
  /\ Mine(p, Newest(p)) = NoClaim
  /\ Newest(p).pending # <<>> /\ bound[p] # 0
  /\ mem' = [mem EXCEPT ![p] = Newest(p)]
  /\ Go(p, "claiming")
  /\ UNCHANGED <<files, inputs, layers, lock, bound, claim, recovery, operator>>

WriteClaim(p) ==
  /\ pc[p] = "claiming"
  /\ Append1(ClaimNextLayer(mem[p], WorkerOf[p]))
  /\ claim' = [claim EXCEPT ![p] = NextClaim(mem[p], WorkerOf[p])]
  /\ mem' = [mem EXCEPT ![p] = NoClaim]
  /\ Unlock(p)
  /\ Go(p, "check")
  /\ UNCHANGED <<inputs, layers, bound, recovery, operator>>

(* encode_layer: the layer's allocation on disk must be the claim's, and   *)
(* artifacts that exist must be the claim's.  Mutant: none may exist.      *)
LayerFresh(p) ==
  /\ allocDisk = claim[p].plan
  /\ layers[claim[p].layer] = NoClaim

LayerFits(p) ==
  /\ allocDisk = claim[p].plan
  /\ layers[claim[p].layer] \in {NoClaim, claim[p]}

CheckLayer(p) ==
  /\ pc[p] = "check" /\ LayerFits(p)
  /\ Go(p, "encode")
  /\ UNCHANGED <<files, inputs, layers, lock, bound, claim, mem, recovery, operator>>

RefuseLayer(p) ==
  /\ pc[p] = "check" /\ ~LayerFits(p)
  /\ Stop(p, "failed")

(* Mutant: the layer is sealed from memory, nothing is written. *)
SealFromMemory(p) ==
  /\ pc[p] = "encode"
  /\ Go(p, "sealed")
  /\ UNCHANGED <<files, inputs, layers, lock, bound, claim, mem, recovery, operator>>

WriteLayer(p) ==
  /\ pc[p] = "encode"
  /\ layers' = [layers EXCEPT ![claim[p].layer] = claim[p]]
  /\ Go(p, "readback")
  /\ UNCHANGED <<files, inputs, lock, bound, claim, mem, recovery, operator>>

SealLayer(p) ==
  /\ pc[p] = "readback"
  /\ layers[claim[p].layer] = claim[p]
  /\ Go(p, "sealed")
  /\ UNCHANGED <<files, inputs, layers, lock, bound, claim, mem, recovery, operator>>

RefuseReadBack(p) ==
  /\ pc[p] = "readback"
  /\ layers[claim[p].layer] # claim[p]
  /\ Stop(p, "failed")

(* Completion: the flock and the newest state, but not plan.json again. *)
StillClaimed(p) == HasState(bound[p]) /\ Mine(p, Newest(p)) = claim[p]

ReadForComplete(p) ==
  /\ pc[p] = "sealed" /\ lock = Free
  /\ StillClaimed(p)
  /\ lock' = p
  /\ mem' = [mem EXCEPT ![p] = Newest(p)]
  /\ Go(p, "recording")
  /\ UNCHANGED <<files, inputs, layers, bound, claim, recovery, operator>>

ClaimVanished(p) ==
  /\ pc[p] = "sealed" /\ lock = Free
  /\ ~StillClaimed(p)
  /\ Stop(p, "failed")

WriteComplete(p) ==
  /\ pc[p] = "recording"
  /\ Append1(CompleteLayer(mem[p], WorkerOf[p], claim[p]))
  /\ claim' = [claim EXCEPT ![p] = NoClaim]
  /\ mem' = [mem EXCEPT ![p] = NoClaim]
  /\ Unlock(p)
  /\ Go(p, "loop")
  /\ UNCHANGED <<inputs, layers, bound, recovery, operator>>

-----------------------------------------------------------------------------
(* recover_worker: plan.json is loaded before the flock is taken. *)

Alive(w) == \E p \in Procs : WorkerOf[p] = w /\ pc[p] \notin Stopped

(* The worker's layer holds artifacts of another claim. *)
Wedged(w) ==
  /\ HasState(planDisk)
  /\ LET c == NewestState(planDisk).active[w]
     IN  c # NoClaim /\ layers[c.layer] \notin {NoClaim, c}

(* The bound on recoveries. *)
InBudget(w) == HasState(planDisk) => NewestState(planDisk).seq < MaxSeq \/ Wedged(w)

RecoverLoad(w) ==
  /\ rpc = "idle" /\ ~Alive(w)
  /\ BesideReplan
  /\ InBudget(w)
  /\ rworker' = w /\ rplan' = planDisk
  /\ rpc' = "loaded"
  /\ UNCHANGED <<files, inputs, layers, lock, worker, rmem, operator>>

Target == NewestState(rplan).active[rworker]

HasTarget == HasState(rplan) /\ Target # NoClaim

RecoverRead ==
  /\ rpc = "loaded" /\ lock = Free
  /\ HasTarget
  /\ lock' = Recoverer
  /\ rmem' = NewestState(rplan)
  /\ rpc' = "read"
  /\ UNCHANGED <<files, inputs, layers, worker, rplan, rworker, operator>>

Quarantine ==
  /\ rpc = "read"
  /\ layers' = [layers EXCEPT ![rmem.active[rworker].layer] = NoClaim]
  /\ rpc' = "quarantined"
  /\ UNCHANGED <<files, inputs, lock, worker, rplan, rworker, rmem, operator>>

RecoverEnd ==
  /\ rpc' = "idle"
  /\ rplan' = 0 /\ rworker' = NoClaim /\ rmem' = NoClaim
  /\ Unlock(Recoverer)
  /\ UNCHANGED <<inputs, layers, worker, operator>>

WriteRecovery ==
  /\ rpc = "quarantined"
  /\ Append1(RecoverySuccessor(rmem, rworker))
  /\ RecoverEnd

NothingToRecover ==
  /\ rpc = "loaded" /\ lock = Free
  /\ ~HasTarget
  /\ UNCHANGED files
  /\ RecoverEnd

RecoverCrash == rpc # "idle" /\ UNCHANGED files /\ RecoverEnd

-----------------------------------------------------------------------------
(* The operator's scripts; none takes the flock. *)

Idle == opc = "idle"

Untouched == UNCHANGED <<layers, lock, worker, recovery>>

(* Phase 5: the probe driver seals new allocations. *)
Probe ==
  /\ Idle /\ allocDisk < MaxPlan
  /\ allocDisk' = allocDisk + 1
  /\ UNCHANGED <<files, planDisk, readiness, operator>> /\ Untouched

(* Phase 5b, run when there are new allocations or again when it died      *)
(* before it wrote state-0000.json.                                        *)
ReplanGlob ==
  /\ Idle /\ allocDisk # 0
  /\ allocDisk # planDisk \/ 0 \notin DOMAIN files
  /\ quiet => (\A p \in Procs : pc[p] \in Stopped) /\ rpc = "idle"
  /\ todo' = DOMAIN files
  /\ opc' = "replan"
  /\ UNCHANGED <<files, inputs, omem, quiet>> /\ Untouched

(* What is in history/ is never read again. *)
ReplanMove ==
  /\ opc = "replan" /\ todo # {}
  /\ LET k == Min(todo)
     IN  /\ files' = Restrict(files, DOMAIN files \ {k})
         /\ todo' = todo \ {k}
  /\ UNCHANGED <<inputs, opc, omem, quiet>> /\ Untouched

ReplanWritePlan ==
  /\ opc = "replan" /\ todo = {}
  /\ planDisk' = allocDisk
  /\ opc' = "restart"
  /\ UNCHANGED <<files, allocDisk, readiness, omem, todo, quiet>> /\ Untouched

ReplanWriteState ==
  /\ opc = "restart"
  /\ Append1(InitialState(planDisk))
  /\ opc' = "idle"
  /\ UNCHANGED <<inputs, omem, todo, quiet>> /\ Untouched

(* Phase 6 binds plan.json and the allocations on disk as it finds them. *)
SealReadiness ==
  /\ Idle /\ allocDisk # 0
  /\ InOrder => allocDisk = planDisk
  /\ readiness' = [plan |-> planDisk, alloc |-> allocDisk]
  /\ UNCHANGED <<files, planDisk, allocDisk, operator>> /\ Untouched

(* Phase 6b, which may be run again at any time. *)
EnterRead ==
  /\ Idle
  /\ 0 \in DOMAIN files /\ files[0].plan = planDisk
  /\ readiness # NoClaim
  /\ InOrder => readiness.plan = planDisk
  /\ omem' = EnterEncoding(files[0], readiness)
  /\ opc' = "enter"
  /\ UNCHANGED <<files, inputs, todo, quiet>> /\ Untouched

EnterWrite ==
  /\ opc = "enter"
  /\ Append1(omem)
  /\ opc' = "idle" /\ omem' = NoClaim
  /\ UNCHANGED <<inputs, todo, quiet>> /\ Untouched

ScriptDies ==
  /\ ~Idle
  /\ opc' = "idle" /\ omem' = NoClaim /\ todo' = {}
  /\ UNCHANGED <<files, inputs, quiet>> /\ Untouched

-----------------------------------------------------------------------------

WorkerStep(p) ==
  \/ BindReadiness(p) \/ RefuseReadiness(p)
  \/ EnterLoop(p) \/ ExitReplanned(p) \/ RefuseState(p)
  \/ Resume(p) \/ ExitDrained(p) \/ ReadForClaim(p) \/ WriteClaim(p)
  \/ CheckLayer(p) \/ RefuseLayer(p) \/ WriteLayer(p)
  \/ SealLayer(p) \/ RefuseReadBack(p)
  \/ ReadForComplete(p) \/ ClaimVanished(p) \/ WriteComplete(p)

RecoverStep == RecoverRead \/ Quarantine \/ WriteRecovery \/ NothingToRecover

ReplanStep == ReplanMove \/ ReplanWritePlan \/ ReplanWriteState

Next ==
  \/ \E p \in Procs : LoadPlan(p) \/ WorkerStep(p) \/ Crash(p)
  \/ \E w \in Workers : RecoverLoad(w)
  \/ RecoverStep \/ RecoverCrash
  \/ Probe \/ ReplanGlob \/ ReplanStep \/ SealReadiness
  \/ EnterRead \/ EnterWrite \/ ScriptDies

Spec == Init /\ [][Next]_vars

(* A started process goes on, the flock is granted eventually, stopped     *)
(* workers are started again, and the operator recovers a worker whose     *)
(* layer holds artifacts of another claim.                                 *)
Unwedge(w) == RecoverLoad(w) /\ Wedged(w)

Fairness ==
  /\ \A p \in Procs : SF_vars(WorkerStep(p)) /\ WF_vars(LoadPlan(p))
  /\ \A w \in Workers : SF_vars(Unwedge(w))
  /\ SF_vars(RecoverStep)

FairSpec == Spec /\ Fairness
-----------------------------------------------------------------------------
(* Properties *)

TypeOK ==
  /\ DOMAIN files \subseteq Nat
  /\ \A k \in DOMAIN files : files[k] \in CampaignState /\ files[k].seq = k
  /\ planDisk \in 0..MaxPlan /\ allocDisk \in planDisk..MaxPlan
  /\ readiness \in Readiness \union {NoClaim}
  /\ layers \in [Layers -> Claim \union {NoClaim}]
  /\ lock \in Procs \union {Recoverer, Free}
  /\ pc \in [Procs -> PC]
  /\ bound \in [Procs -> 0..MaxPlan]
  /\ claim \in [Procs -> Claim \union {NoClaim}]
  /\ mem \in [Procs -> CampaignState \union {NoClaim}]
  /\ rpc \in {"idle", "loaded", "read", "quarantined"}
  /\ rplan \in 0..MaxPlan /\ rworker \in Workers \union {NoClaim}
  /\ opc \in {"idle", "replan", "restart", "enter"}
  /\ todo \subseteq DOMAIN files
  /\ quiet \in BOOLEAN

(* "the chain is the checkpoint": a state another process wrote is never    *)
(* lost.  A file of the state directory is only rewritten with the same    *)
(* content (6b run twice) or by a newer plan's state: workers and           *)
(* recoveries that still hold the old plan write at sequence 2 or later,    *)
(* under the flock that keeps new-plan workers out, and 5b and 6b write at  *)
(* 0 and 1.                                                                *)
AppendOnly ==
  [][\A k \in DOMAIN files \intersect DOMAIN files' :
       files'[k] = files[k] \/ files'[k].plan > files[k].plan]_vars

(* What workers and recoveries write after s, and what 6b does. *)
Transitions(s) ==
  {ClaimNextLayer(s, w) : w \in {v \in Workers :
     s.phase # "planned" /\ s.pending # <<>> /\ s.active[v] = NoClaim}}
  \union {CompleteLayer(s, w, s.active[w]) : w \in {v \in Workers : s.active[v] # NoClaim}}
  \union {RecoverySuccessor(s, w) : w \in {v \in Workers : s.active[v] # NoClaim}}

Successors(s) ==
  {EnterEncoding(s, r) : r \in {x \in {readiness} : s.phase = "planned" /\ x # NoClaim}}
  \union Transitions(s)

(* Between re-plans the chain of the current plan has no gap, and each     *)
(* state follows from the one before it: what newest_state selects is the  *)
(* outcome of every transition that was written.                           *)
ChainLinked ==
  (0 \in DOMAIN files /\ files[0].plan = planDisk /\ opc # "replan") =>
    \A k \in Chain(planDisk) \ {0} :
      /\ k - 1 \in Chain(planDisk)
      /\ k >= 2 => files[k] \in Successors(files[k - 1])

(* If workers are stopped for a re-plan, what the current plan's chain     *)
(* records as completed is what the layer directory holds.                 *)
CompletedOnDisk ==
  quiet /\ HasState(planDisk) =>
    \A l \in Layers :
      LET row == NewestState(planDisk).completed[l]
      IN  row # NoClaim => layers[l] = row.claim /\ row.receipt = row.claim

AllDone ==
  HasState(planDisk) /\ \A l \in Layers : NewestState(planDisk).completed[l] # NoClaim

Entered ==
  /\ Idle /\ 1 \in Chain(planDisk)
  /\ allocDisk = planDisk /\ ReadinessBinds(planDisk)

Disturbance ==
  \/ \E p \in Procs : Crash(p)
  \/ \E w \in Workers : RecoverLoad(w) /\ ~Unwedge(w)
  \/ RecoverCrash /\ ~NothingToRecover

(* Artifacts an older plan left under layers/ refuse every fresh claim of  *)
(* their layer, but recovery clears them: once the current plan is in its  *)
(* encoding phase and crashes cease, every layer of it is completed.       *)
RecoveryUnwedges ==
  (quiet /\ <>[][~Disturbance]_vars /\ <>[]Entered) => <>AllDone
=============================================================================
