---------------------------- MODULE K35Campaign ----------------------------
(***************************************************************************)
(* Phase 7 of the K35 campaign under one launch plan: encode workers       *)
(* (k35_worker.py) claim whole layers, write a layer's artifacts expert by *)
(* expert, seal the layer and complete the claim; they crash, are started  *)
(* again, and a dead worker's claim is recovered and its layer             *)
(* quarantined.                                                            *)
(*                                                                         *)
(* Every access of this module's actors to the state directory happens     *)
(* under the state flock, so a locked section of a worker is one action on *)
(* the newest state; the chain of files, and the drivers that write it     *)
(* without the lock, are the subject of K35Replan.  Recovery holds the     *)
(* lock across its deletions, which workers that are encoding do not wait  *)
(* for: it is a sequence of actions, and rstep # "idle" is the lock held.  *)
(*                                                                         *)
(* Encoding is deterministic in layer, expert, claim and the sealed        *)
(* inputs, so an artifact is identified by the claim it embeds.            *)
(***************************************************************************)
EXTENDS K35StateMachine

CONSTANTS Plan,            \* the launch plan of this campaign
          NumExperts,      \* experts of a layer (288 in the campaign)
          Procs,           \* worker processes
          WorkerOf,        \* the --worker id each process is started with
          Usages,          \* the values of careful considered
          MaxRecoverySeq   \* bound: recoveries start below this sequence

ASSUME CampaignAssumption ==
  /\ Plan \in Nat
  /\ NumExperts \in Nat \ {0}
  /\ WorkerOf \in [Procs -> Workers]
  /\ Usages \subseteq BOOLEAN
  /\ MaxRecoverySeq \in Nat

Experts == 1..NumExperts

VARIABLES
  state,         \* the newest state of the chain
  receipts,      \* layer -> expert -> claim its expert receipt embeds
  choices,       \* <<claim, expert>>: packed choices in the payload store
  hessians,      \* <<layer, expert>>: Hessian artifacts on disk
  layerReceipt,  \* layer -> claim its layer-receipt.json embeds
  paused,        \* the PAUSE file exists
  pc,            \* where each worker process is
  claim,         \* the process's active_claim
  next,          \* the expert its loop is at
  outcome,       \* how the process last ended
  rstep,         \* the step of --recover-worker, "idle" if none runs
  rworker,       \* the worker id being recovered
  careful        \* the operator recovers a worker only once it is dead

disk == <<receipts, choices, hessians, layerReceipt>>
local == <<pc, claim, next, outcome>>
recovery == <<rstep, rworker, careful>>
vars == <<state, disk, paused, local, recovery>>

Encoding == {"check", "chosen", "saved", "readback", "sealed"}
PC == {"down", "loop"} \union Encoding
Outcome == {"none", "drained", "paused", "closed", "failed", "crashed"}
RStep == {"idle", "receipts", "store", "layer", "write"}

Init ==
  /\ state = EnterEncoding(InitialState(Plan), [plan |-> Plan, alloc |-> Plan])
  /\ receipts = [l \in Layers |-> [e \in Experts |-> NoClaim]]
  /\ choices = {}
  /\ hessians = {}
  /\ layerReceipt = [l \in Layers |-> NoClaim]
  /\ paused = FALSE
  /\ pc = [p \in Procs |-> "down"]
  /\ claim = [p \in Procs |-> NoClaim]
  /\ next = [p \in Procs |-> 1]
  /\ outcome = [p \in Procs |-> "none"]
  /\ rstep = "idle"
  /\ rworker \in Workers
  /\ careful \in Usages

-----------------------------------------------------------------------------
(* Processes *)

Unlocked == rstep = "idle"

Alive(w) == \E p \in Procs : WorkerOf[p] = w /\ pc[p] # "down"

Start(p) ==
  /\ pc[p] = "down"
  /\ pc' = [pc EXCEPT ![p] = "loop"]
  /\ outcome' = [outcome EXCEPT ![p] = "none"]
  /\ UNCHANGED <<state, disk, paused, claim, next, recovery>>

(* The process is gone; its memory is lost and the disk is as it is. *)
Leave(p, how) ==
  /\ pc' = [pc EXCEPT ![p] = "down"]
  /\ outcome' = [outcome EXCEPT ![p] = how]
  /\ claim' = [claim EXCEPT ![p] = NoClaim]
  /\ next' = [next EXCEPT ![p] = 1]

Crash(p) ==
  /\ pc[p] # "down"
  /\ Leave(p, "crashed")
  /\ UNCHANGED <<state, disk, paused, recovery>>

-----------------------------------------------------------------------------
(* The locked section at the head of the worker loop *)

Mine(p) == state.active[WorkerOf[p]]

BeginLayer(p, c) ==
  /\ claim' = [claim EXCEPT ![p] = c]
  /\ next' = [next EXCEPT ![p] = 1]
  /\ pc' = [pc EXCEPT ![p] = "check"]
  /\ UNCHANGED outcome

AtClaimBoundary(p) == pc[p] = "loop" /\ Unlocked

ExitClosed(p) ==
  /\ AtClaimBoundary(p)
  /\ state.phase # "k35_main_encoding"
  /\ Leave(p, "closed")
  /\ UNCHANGED <<state, disk, paused, recovery>>

(* A worker that finds its own claim in the newest state goes on with it,  *)
(* whether or not PAUSE exists.                                            *)
Resume(p) ==
  /\ AtClaimBoundary(p)
  /\ state.phase = "k35_main_encoding"
  /\ Mine(p) # NoClaim
  /\ BeginLayer(p, Mine(p))
  /\ UNCHANGED <<state, disk, paused, recovery>>

ExitPaused(p) ==
  /\ AtClaimBoundary(p)
  /\ state.phase = "k35_main_encoding"
  /\ Mine(p) = NoClaim
  /\ paused
  /\ Leave(p, "paused")
  /\ UNCHANGED <<state, disk, paused, recovery>>

ExitDrained(p) ==
  /\ AtClaimBoundary(p)
  /\ state.phase = "k35_main_encoding"
  /\ Mine(p) = NoClaim
  /\ ~paused
  /\ state.pending = <<>>
  /\ Leave(p, "drained")
  /\ UNCHANGED <<state, disk, paused, recovery>>

(* The claim's successor is on disk before anything of the layer is. *)
ClaimLayer(p) ==
  /\ AtClaimBoundary(p)
  /\ state.phase = "k35_main_encoding"
  /\ Mine(p) = NoClaim
  /\ ~paused
  /\ state.pending # <<>>
  /\ state' = ClaimNextLayer(state, WorkerOf[p])
  /\ BeginLayer(p, NextClaim(state, WorkerOf[p]))
  /\ UNCHANGED <<disk, paused, recovery>>

-----------------------------------------------------------------------------
(* encode_layer, one expert at a time, without the lock *)

AtExpert(p, where) == pc[p] = where /\ next[p] \in Experts

Receipt(p) == receipts[claim[p].layer][next[p]]
Chosen(p) == <<claim[p], next[p]>> \in choices
HessianOf(p) == <<claim[p].layer, next[p]>>

Verified(p) ==
  /\ Receipt(p) = claim[p]
  /\ Chosen(p)
  /\ HessianOf(p) \in hessians

NextExpert(p) ==
  /\ next' = [next EXCEPT ![p] = @ + 1]
  /\ pc' = [pc EXCEPT ![p] = "check"]
  /\ UNCHANGED <<claim, outcome>>

SkipExpert(p) ==
  /\ AtExpert(p, "check")
  /\ Receipt(p) # NoClaim
  /\ Verified(p)
  /\ NextExpert(p)
  /\ UNCHANGED <<state, disk, paused, recovery>>

(* "existing expert receipt binds a foreign claim", a choice or a Hessian  *)
(* that no longer verifies.                                                *)
RefuseExpert(p) ==
  /\ AtExpert(p, "check")
  /\ Receipt(p) # NoClaim
  /\ ~Verified(p)
  /\ Leave(p, "failed")
  /\ UNCHANGED <<state, disk, paused, recovery>>

(* put_choice for gate, up and down: content addressed, so writing a       *)
(* choice again after a crash leaves the store as it was.                  *)
PutChoices(p) ==
  /\ AtExpert(p, "check")
  /\ Receipt(p) = NoClaim
  /\ choices' = choices \union {<<claim[p], next[p]>>}
  /\ pc' = [pc EXCEPT ![p] = "chosen"]
  /\ UNCHANGED <<state, receipts, hessians, layerReceipt, paused,
                 claim, next, outcome, recovery>>

SaveHessian(p) ==
  /\ AtExpert(p, "chosen")
  /\ hessians' = hessians \union {HessianOf(p)}
  /\ pc' = [pc EXCEPT ![p] = "saved"]
  /\ UNCHANGED <<state, receipts, choices, layerReceipt, paused,
                 claim, next, outcome, recovery>>

(* The receipt is written, then its choices are verified in the store. *)
WriteReceipt(p) ==
  /\ AtExpert(p, "saved")
  /\ receipts' = [receipts EXCEPT ![claim[p].layer][next[p]] = claim[p]]
  /\ \/ Chosen(p) /\ NextExpert(p)
     \/ ~Chosen(p) /\ Leave(p, "failed")
  /\ UNCHANGED <<state, choices, hessians, layerReceipt, paused, recovery>>

(* The final pass reads every expert receipt back from disk. *)
BeginReadBack(p) ==
  /\ pc[p] = "check" /\ next[p] = NumExperts + 1
  /\ pc' = [pc EXCEPT ![p] = "readback"]
  /\ next' = [next EXCEPT ![p] = 1]
  /\ UNCHANGED <<state, disk, paused, claim, outcome, recovery>>

ReadBack(p) ==
  /\ AtExpert(p, "readback")
  /\ Receipt(p) = claim[p]
  /\ next' = [next EXCEPT ![p] = @ + 1]
  /\ UNCHANGED <<state, disk, paused, pc, claim, outcome, recovery>>

RefuseReadBack(p) ==
  /\ AtExpert(p, "readback")
  /\ Receipt(p) # claim[p]
  /\ Leave(p, "failed")
  /\ UNCHANGED <<state, disk, paused, recovery>>

(* Mutant: the layer is reported sealed before its receipt is written. *)
SealWithoutReceipt(p) ==
  /\ pc[p] = "readback" /\ next[p] = NumExperts + 1
  /\ pc' = [pc EXCEPT ![p] = "sealed"]
  /\ UNCHANGED <<state, disk, paused, claim, next, outcome, recovery>>

WriteLayerReceipt(p) ==
  /\ pc[p] = "readback" /\ next[p] = NumExperts + 1
  /\ layerReceipt' = [layerReceipt EXCEPT ![claim[p].layer] = claim[p]]
  /\ pc' = [pc EXCEPT ![p] = "sealed"]
  /\ UNCHANGED <<state, receipts, choices, hessians, paused,
                 claim, next, outcome, recovery>>

-----------------------------------------------------------------------------
(* The locked section that completes the layer *)

Complete(p) ==
  /\ pc[p] = "sealed" /\ Unlocked
  /\ Mine(p) = claim[p]
  /\ state' = CompleteLayer(state, WorkerOf[p], claim[p])
  /\ pc' = [pc EXCEPT ![p] = "loop"]
  /\ claim' = [claim EXCEPT ![p] = NoClaim]
  /\ next' = [next EXCEPT ![p] = 1]
  /\ UNCHANGED <<disk, paused, outcome, recovery>>

(* "claim on layer ... vanished from the newest state before completion" *)
ClaimVanished(p) ==
  /\ pc[p] = "sealed" /\ Unlocked
  /\ Mine(p) # claim[p]
  /\ Leave(p, "failed")
  /\ UNCHANGED <<state, disk, paused, recovery>>

-----------------------------------------------------------------------------
(* recover_worker: drop a dead worker's claim, quarantine its layer and    *)
(* requeue the layer at the front, all under the lock.                     *)

RecoveredLayer == state.active[rworker].layer

BeginRecovery(w, step) ==
  /\ Unlocked
  /\ state.active[w] # NoClaim
  /\ careful => ~Alive(w)
  /\ state.seq < MaxRecoverySeq
  /\ rstep' = step
  /\ rworker' = w
  /\ UNCHANGED <<state, disk, paused, local, careful>>

(* Mutants: the worker may be alive; the expert receipts are kept; the     *)
(* store goes before the receipts that need it, which stay.                *)
RecoverAlive(w) ==
  /\ Unlocked
  /\ state.active[w] # NoClaim
  /\ state.seq < MaxRecoverySeq
  /\ rstep' = "receipts"
  /\ rworker' = w
  /\ UNCHANGED <<state, disk, paused, local, careful>>

RecoverKeepReceipts(w) == BeginRecovery(w, "layer")

Recover(w) == BeginRecovery(w, "receipts")

(* rmtree of the expert directory removes one receipt after another. *)
DropReceipt ==
  /\ rstep = "receipts"
  /\ \E e \in Experts :
       /\ receipts[RecoveredLayer][e] # NoClaim
       /\ receipts' = [receipts EXCEPT ![RecoveredLayer][e] = NoClaim]
  /\ UNCHANGED <<state, choices, hessians, layerReceipt, paused, local, recovery>>

ReceiptsDropped ==
  /\ rstep = "receipts"
  /\ \A e \in Experts : receipts[RecoveredLayer][e] = NoClaim
  /\ rstep' = "store"
  /\ UNCHANGED <<state, disk, paused, local, rworker, careful>>

DropStore ==
  /\ rstep = "store"
  /\ choices' = {x \in choices : x[1].layer # RecoveredLayer}
  /\ rstep' = "layer"
  /\ UNCHANGED <<state, receipts, hessians, layerReceipt, paused, local, rworker, careful>>

DropLayerReceipt ==
  /\ rstep = "layer"
  /\ layerReceipt' = [layerReceipt EXCEPT ![RecoveredLayer] = NoClaim]
  /\ rstep' = "write"
  /\ UNCHANGED <<state, receipts, choices, hessians, paused, local, rworker, careful>>

WriteRecovery ==
  /\ rstep = "write"
  /\ state' = RecoverySuccessor(state, rworker)
  /\ rstep' = "idle"
  /\ UNCHANGED <<disk, paused, local, rworker, careful>>

(* The recovery process dies: the kernel releases its lock. *)
RecoveryCrash ==
  /\ rstep # "idle"
  /\ rstep' = "idle"
  /\ UNCHANGED <<state, disk, paused, local, rworker, careful>>

-----------------------------------------------------------------------------
(* The operator's PAUSE file, and the MTP driver sealing a drained chain *)

TogglePause ==
  /\ paused' = ~paused
  /\ UNCHANGED <<state, disk, local, recovery>>

(* Mutant: nothing pending is taken for drained. *)
SealNothingPending ==
  /\ Unlocked
  /\ state.phase = "k35_main_encoding"
  /\ state.pending = <<>>
  /\ state' = SealMain(state)
  /\ UNCHANGED <<disk, paused, local, recovery>>

SealDrained ==
  /\ Unlocked
  /\ state.phase = "k35_main_encoding"
  /\ state.pending = <<>>
  /\ \A w \in Workers : state.active[w] = NoClaim
  /\ \A l \in Layers : state.completed[l] # NoClaim
  /\ state' = SealMain(state)
  /\ UNCHANGED <<disk, paused, local, recovery>>

-----------------------------------------------------------------------------

WorkerStep(p) ==
  \/ ExitClosed(p) \/ Resume(p) \/ ExitPaused(p) \/ ExitDrained(p) \/ ClaimLayer(p)
  \/ SkipExpert(p) \/ RefuseExpert(p)
  \/ PutChoices(p) \/ SaveHessian(p) \/ WriteReceipt(p)
  \/ BeginReadBack(p) \/ ReadBack(p) \/ RefuseReadBack(p) \/ WriteLayerReceipt(p)
  \/ Complete(p) \/ ClaimVanished(p)

RecoveryStep ==
  \/ DropReceipt \/ ReceiptsDropped \/ DropStore \/ DropLayerReceipt \/ WriteRecovery

Next ==
  \/ \E p \in Procs : Start(p) \/ WorkerStep(p) \/ Crash(p)
  \/ \E w \in Workers : Recover(w)
  \/ RecoveryStep \/ RecoveryCrash
  \/ TogglePause \/ SealDrained

Spec == Init /\ [][Next]_vars

(* A process that runs goes on running, a recovery that was started goes   *)
(* on, and the operator starts a worker that is down again (the module     *)
(* docstring of k35_worker.py: restarting the same id resumes its layer).  *)
Fairness ==
  /\ \A p \in Procs : WF_vars(WorkerStep(p)) /\ WF_vars(Start(p))
  /\ WF_vars(RecoveryStep)

FairSpec == Spec /\ Fairness
-----------------------------------------------------------------------------
(* Properties *)

TypeOK ==
  /\ state \in CampaignState
  /\ receipts \in [Layers -> [Experts -> Claim \union {NoClaim}]]
  /\ choices \subseteq Claim \X Experts
  /\ hessians \subseteq Layers \X Experts
  /\ layerReceipt \in [Layers -> Claim \union {NoClaim}]
  /\ paused \in BOOLEAN
  /\ pc \in [Procs -> PC]
  /\ claim \in [Procs -> Claim \union {NoClaim}]
  /\ next \in [Procs -> 1..(NumExperts + 1)]
  /\ outcome \in [Procs -> Outcome]
  /\ rstep \in RStep
  /\ rworker \in Workers
  /\ careful \in BOOLEAN

(* No layer of the plan is lost or encoded twice: it pends once, or one    *)
(* worker claims it, or it is completed, whatever crashes and recoveries   *)
(* (newest state of the chain, claim_next_layer .. recover_worker).        *)
Census == CensusOf(state)

(* Two processes write into the same layer directory only under the same   *)
(* claim, so nothing one writes is foreign to the other (encode_layer runs *)
(* outside the lock; only the claim protects layers/L{NN}).                *)
SameLayerSameClaim ==
  careful => \A p, q \in Procs :
    (/\ pc[p] \in Encoding /\ pc[q] \in Encoding
     /\ claim[p].layer = claim[q].layer) => claim[p] = claim[q]

(* Of two processes that share an id the second to complete a layer is     *)
(* told that its claim vanished.                                           *)
DistinctIds == \A p, q \in Procs : WorkerOf[p] = WorkerOf[q] => p = q

(* A worker is never refused: quarantine leaves no receipt of a dead claim *)
(* to reject, no receipt without its choices and Hessian, and no claim     *)
(* vanishes under a live worker (the fail-closed dies of encode_layer and  *)
(* of the completion section).                                             *)
NeverRefused == careful /\ DistinctIds => \A p \in Procs : outcome[p] # "failed"

(* What the chain records as completed is sealed by the claim that         *)
(* completed it; and, if no live worker is recovered, it is what is on     *)
(* disk, layer receipt, expert receipts and choices, and no later crash,   *)
(* recovery or worker touches them.                                        *)
CompletedIntact ==
  \A l \in Layers :
    Completed(state, l) =>
      /\ state.completed[l].receipt = state.completed[l].claim
      /\ careful => layerReceipt[l] = state.completed[l].receipt
      /\ careful => \A e \in Experts :
           /\ receipts[l][e] = state.completed[l].claim
           /\ <<state.completed[l].claim, e>> \in choices

(* The campaign keeps the ledger's promise about layers and claims.        *)
FinishedBy ==
  [l \in Layers |-> IF Completed(state, l) THEN state.completed[l].claim ELSE NoClaim]

Ledger == INSTANCE LayerLedger WITH
  Nobody <- NoClaim,
  held <- state.active, finished <- FinishedBy, epoch <- state.seq,
  closed <- (state.phase = "k35_main_encoded")

LedgerSpec == Ledger!Spec

(* What the invariants above rest on: claims know their worker, and a      *)
(* recovery that holds the lock has a claim to drop.                       *)
Bound ==
  /\ \A p \in Procs :
       pc[p] \in Encoding => claim[p] \in Claim /\ claim[p].worker = WorkerOf[p]
  /\ \A w \in Workers : state.active[w] # NoClaim => state.active[w].worker = w
  /\ rstep # "idle" => state.active[rworker] # NoClaim
  /\ state.plan = Plan /\ state.phase # "planned"

(* A process encodes under the claim its worker id holds, or under one     *)
(* that a process of the same id has completed meanwhile; a recovery that  *)
(* waited for the worker to be dead still finds it not encoding.           *)
OwnsOrDone ==
  /\ \A p \in Procs :
       pc[p] \in Encoding =>
         \/ state.active[WorkerOf[p]] = claim[p]
         \/ /\ Completed(state, claim[p].layer)
            /\ state.completed[claim[p].layer].claim = claim[p]
  /\ rstep # "idle" =>
       \A p \in Procs : WorkerOf[p] = rworker => pc[p] \notin Encoding

OwnershipInv == Bound /\ OwnsOrDone

Disturbance ==
  \/ \E p \in Procs : Crash(p)
  \/ \E w \in Workers : Recover(w)
  \/ RecoveryCrash

(* Once crashes and recoveries cease and PAUSE is gone, every layer is     *)
(* completed: nothing a crash or a recovery left behind wedges a layer, if *)
(* no live worker was recovered.                                           *)
EveryLayerCompletes ==
  (careful /\ <>[][~Disturbance]_vars /\ <>[](~paused)) => <>(\A l \in Layers : Completed(state, l))
=============================================================================
