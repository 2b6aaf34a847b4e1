-------------------------- MODULE K35ReplanProofs --------------------------
(* Proofs about K35Replan, for every set of workers, layer count and number *)
(* of re-plans, when the operator keeps the order of the phases (InOrder).  *)
EXTENDS K35Replan, SequenceTheorems, WellFoundedInduction, TLAPS

USE StateMachineAssumption, ReplanAssumption

-----------------------------------------------------------------------------
(* The transitions of the state machine stay among the campaign states. *)

LEMMA InitialStateType == ASSUME NEW plan \in Nat
                          PROVE  InitialState(plan) \in CampaignState
<1>1. [i \in Layers |-> i] \in Seq(Layers)
  BY SeqDef DEF Layers
<1>2. QED
  BY <1>1 DEF InitialState, CampaignState, Phase

LEMMA EnterEncodingType ==
  ASSUME NEW s \in CampaignState, NEW r \in Readiness
  PROVE  EnterEncoding(s, r) \in CampaignState
BY DEF EnterEncoding, InPhase, CampaignState, Phase

LEMMA SuccessorType ==
  ASSUME NEW s \in CampaignState, NEW pending \in Seq(Layers),
         NEW active \in [Workers -> Claim \union {NoClaim}],
         NEW completed \in [Layers -> Completion \union {NoClaim}]
  PROVE  /\ Successor(s, pending, active, completed) \in CampaignState
         /\ Successor(s, pending, active, completed).seq = s.seq + 1
         /\ Successor(s, pending, active, completed).plan = s.plan
         /\ Successor(s, pending, active, completed).phase = s.phase
         /\ Successor(s, pending, active, completed).pending = pending
         /\ Successor(s, pending, active, completed).active = active
         /\ Successor(s, pending, active, completed).completed = completed
BY DEF Successor, CampaignState

LEMMA NextClaimType ==
  ASSUME NEW s \in CampaignState, NEW w \in Workers, s.pending # <<>>
  PROVE  NextClaim(s, w) \in Claim
<1>1. Head(s.pending) \in Layers
  BY DEF CampaignState
<1>2. QED
  BY <1>1 DEF NextClaim, Claim, CampaignState

LEMMA ClaimNextLayerType ==
  ASSUME NEW s \in CampaignState, NEW w \in Workers, s.pending # <<>>
  PROVE  ClaimNextLayer(s, w) \in CampaignState
<1>1. Tail(s.pending) \in Seq(Layers)
  BY DEF CampaignState
<1>2. [s.active EXCEPT ![w] = NextClaim(s, w)] \in [Workers -> Claim \union {NoClaim}]
  BY NextClaimType DEF CampaignState
<1>3. s.completed \in [Layers -> Completion \union {NoClaim}]
  BY DEF CampaignState
<1>4. QED
  BY <1>1, <1>2, <1>3, SuccessorType DEF ClaimNextLayer

LEMMA CompleteLayerType ==
  ASSUME NEW s \in CampaignState, NEW w \in Workers, NEW r \in Claim,
         s.active[w] \in Claim
  PROVE  CompleteLayer(s, w, r) \in CampaignState
<1> DEFINE c == s.active[w]
           row == [claim |-> c, receipt |-> r]
<1>1. row \in Completion
  BY DEF Completion
<1>2. [s.completed EXCEPT ![c.layer] = row] \in [Layers -> Completion \union {NoClaim}]
  BY <1>1 DEF CampaignState
<1>3. [s.active EXCEPT ![w] = NoClaim] \in [Workers -> Claim \union {NoClaim}]
  BY DEF CampaignState
<1>4. s.pending \in Seq(Layers)
  BY DEF CampaignState
<1>5. QED
  BY <1>2, <1>3, <1>4, SuccessorType DEF CompleteLayer

LEMMA RecoverySuccessorType ==
  ASSUME NEW s \in CampaignState, NEW w \in Workers, s.active[w] \in Claim
  PROVE  RecoverySuccessor(s, w) \in CampaignState
<1>1. <<s.active[w].layer>> \o s.pending \in Seq(Layers)
  BY DEF CampaignState, Claim
<1>2. [s.active EXCEPT ![w] = NoClaim] \in [Workers -> Claim \union {NoClaim}]
  BY DEF CampaignState
<1>3. s.completed \in [Layers -> Completion \union {NoClaim}]
  BY DEF CampaignState
<1>4. QED
  BY <1>1, <1>2, <1>3, SuccessorType DEF RecoverySuccessor

-----------------------------------------------------------------------------
(* Census: each locked transition moves one layer from one place to        *)
(* another and touches no other.                                           *)

LEMMA ClaimCensus ==
  ASSUME NEW s \in CampaignState, CensusOf(s), NEW w \in Workers,
         s.active[w] = NoClaim, s.pending # <<>>
  PROVE  CensusOf(ClaimNextLayer(s, w))
<1> DEFINE t == ClaimNextLayer(s, w)
           c == NextClaim(s, w)
<1>1. /\ t.pending = Tail(s.pending)
      /\ t.active = [s.active EXCEPT ![w] = c]
      /\ t.completed = s.completed
  BY DEF ClaimNextLayer, Successor
<1>2. /\ s.pending \in Seq(Layers) /\ Len(s.pending) > 0
      /\ s.active \in [Workers -> Claim \union {NoClaim}]
  BY DEF CampaignState
<1>3. c \in Claim /\ c # NoClaim /\ c.layer = s.pending[1]
  BY <1>2, NextClaimType DEF NextClaim
<1>4. /\ DOMAIN t.pending = 1..(Len(s.pending) - 1)
      /\ \A i \in DOMAIN t.pending : t.pending[i] = s.pending[i + 1]
      /\ DOMAIN s.pending = 1..Len(s.pending)
  BY <1>1, <1>2
<1>5. \A l \in Layers : Pending(t, l) <=> Pending(s, l) /\ l # c.layer
  <2>1. ASSUME NEW l \in Layers, Pending(t, l) PROVE Pending(s, l) /\ l # c.layer
    <3>1. PICK i \in DOMAIN t.pending : t.pending[i] = l
      BY <2>1 DEF Pending
    <3>2. i + 1 \in DOMAIN s.pending /\ s.pending[i + 1] = l /\ i + 1 # 1
      BY <3>1, <1>4, <1>2
    <3>3. 1 \in DOMAIN s.pending
      BY <1>2, <1>4
    <3>4. QED
      BY <3>2, <3>3, <1>3 DEF Pending, CensusOf
  <2>2. ASSUME NEW l \in Layers, Pending(s, l), l # c.layer PROVE Pending(t, l)
    <3>1. PICK i \in DOMAIN s.pending : s.pending[i] = l
      BY <2>2 DEF Pending
    <3>2. i # 1
      BY <3>1, <2>2, <1>3
    <3>3. i - 1 \in DOMAIN t.pending /\ t.pending[i - 1] = s.pending[i]
      BY <3>1, <3>2, <1>2, <1>4
    <3>4. QED
      BY <3>1, <3>3 DEF Pending
  <2>3. QED
    BY <2>1, <2>2
<1>6. \A l \in Layers : InFlight(t, l) <=> InFlight(s, l) \/ l = c.layer
  BY <1>1, <1>2, <1>3 DEF InFlight
<1>7. \A l \in Layers : Completed(t, l) <=> Completed(s, l)
  BY <1>1 DEF Completed
<1>8. Pending(s, c.layer) /\ c.layer \in Layers
  BY <1>2, <1>3, <1>4 DEF Pending, Claim
<1>9. \A i, j \in DOMAIN t.pending : t.pending[i] = t.pending[j] => i = j
  <2>1. SUFFICES ASSUME NEW i \in DOMAIN t.pending, NEW j \in DOMAIN t.pending,
                        t.pending[i] = t.pending[j]
                 PROVE  i = j
    OBVIOUS
  <2>2. i + 1 \in DOMAIN s.pending /\ j + 1 \in DOMAIN s.pending
    BY <1>2, <1>4
  <2>3. i + 1 = j + 1
    BY <2>1, <2>2, <1>4 DEF CensusOf
  <2>4. QED
    BY <2>3, <1>2, <1>4
<1>10. \A v, u \in Workers :
        (/\ t.active[v] # NoClaim /\ t.active[u] # NoClaim
         /\ t.active[v].layer = t.active[u].layer) => v = u
  BY <1>1, <1>2, <1>3, <1>8 DEF CensusOf, InFlight
<1>11. QED
  BY <1>5, <1>6, <1>7, <1>8, <1>9, <1>10 DEF CensusOf

LEMMA CompleteCensus ==
  ASSUME NEW s \in CampaignState, CensusOf(s), NEW w \in Workers, NEW r \in Claim,
         s.active[w] # NoClaim
  PROVE  CensusOf(CompleteLayer(s, w, r))
<1> DEFINE t == CompleteLayer(s, w, r)
           c == s.active[w]
           row == [claim |-> c, receipt |-> r]
<1>1. /\ t.pending = s.pending
      /\ t.active = [s.active EXCEPT ![w] = NoClaim]
      /\ t.completed = [s.completed EXCEPT ![c.layer] = row]
  BY DEF CompleteLayer, Successor
<1>2. /\ s.active \in [Workers -> Claim \union {NoClaim}]
      /\ s.completed \in [Layers -> Completion \union {NoClaim}]
  BY DEF CampaignState
<1>3. c \in Claim /\ c.layer \in Layers /\ row \in Completion /\ row # NoClaim
  BY <1>2 DEF Claim, Completion
<1>4. \A l \in Layers : Pending(t, l) <=> Pending(s, l)
  BY <1>1 DEF Pending
<1>5. \A l \in Layers : InFlight(t, l) <=> InFlight(s, l) /\ l # c.layer
  BY <1>1, <1>2 DEF InFlight, CensusOf
<1>6. \A l \in Layers : Completed(t, l) <=> Completed(s, l) \/ l = c.layer
  BY <1>1, <1>2, <1>3 DEF Completed
<1>7. InFlight(s, c.layer)
  BY DEF InFlight
<1>8. \A v, u \in Workers :
        (/\ t.active[v] # NoClaim /\ t.active[u] # NoClaim
         /\ t.active[v].layer = t.active[u].layer) => v = u
  BY <1>1, <1>2 DEF CensusOf
<1>9. \A i, j \in DOMAIN t.pending : t.pending[i] = t.pending[j] => i = j
  BY <1>1 DEF CensusOf
<1>10. QED
  BY <1>3, <1>4, <1>5, <1>6, <1>7, <1>8, <1>9 DEF CensusOf

LEMMA RecoveryCensus ==
  ASSUME NEW s \in CampaignState, CensusOf(s), NEW w \in Workers,
         s.active[w] # NoClaim
  PROVE  CensusOf(RecoverySuccessor(s, w))
<1> DEFINE t == RecoverySuccessor(s, w)
           c == s.active[w]
           n == Len(s.pending)
<1>1. /\ t.pending = <<c.layer>> \o s.pending
      /\ t.active = [s.active EXCEPT ![w] = NoClaim]
      /\ t.completed = s.completed
  BY DEF RecoverySuccessor, Successor
<1>2. /\ s.pending \in Seq(Layers) /\ n \in Nat
      /\ s.active \in [Workers -> Claim \union {NoClaim}]
  BY DEF CampaignState
<1>3. c \in Claim /\ c.layer \in Layers
  BY <1>2 DEF Claim
<1>4. /\ DOMAIN t.pending = 1..(n + 1) /\ DOMAIN s.pending = 1..n
      /\ t.pending[1] = c.layer
      /\ \A i \in 1..n : t.pending[i + 1] = s.pending[i]
      /\ \A i \in 2..(n + 1) : t.pending[i] = s.pending[i - 1]
  BY <1>1, <1>2, <1>3
<1>5. \A l \in Layers : Pending(t, l) <=> Pending(s, l) \/ l = c.layer
  <2>1. ASSUME NEW l \in Layers, Pending(t, l) PROVE Pending(s, l) \/ l = c.layer
    <3>1. PICK i \in DOMAIN t.pending : t.pending[i] = l
      BY <2>1 DEF Pending
    <3>2. i = 1 \/ (i \in 2..(n + 1) /\ i - 1 \in 1..n)
      BY <3>1, <1>2, <1>4
    <3>3. QED
      BY <3>1, <3>2, <1>4 DEF Pending
  <2>2. ASSUME NEW l \in Layers, Pending(s, l) PROVE Pending(t, l)
    <3>1. PICK i \in DOMAIN s.pending : s.pending[i] = l
      BY <2>2 DEF Pending
    <3>2. i + 1 \in DOMAIN t.pending /\ t.pending[i + 1] = l
      BY <3>1, <1>2, <1>4
    <3>3. QED
      BY <3>2 DEF Pending
  <2>3. Pending(t, c.layer)
    <3>1. 1 \in DOMAIN t.pending
      BY <1>2, <1>4
    <3>2. QED
      BY <3>1, <1>4 DEF Pending
  <2>4. QED
    BY <2>1, <2>2, <2>3
<1>6. \A l \in Layers : InFlight(t, l) <=> InFlight(s, l) /\ l # c.layer
  BY <1>1, <1>2 DEF InFlight, CensusOf
<1>7. \A l \in Layers : Completed(t, l) <=> Completed(s, l)
  BY <1>1 DEF Completed
<1>8. InFlight(s, c.layer)
  BY DEF InFlight
<1>9. \A i, j \in DOMAIN t.pending : t.pending[i] = t.pending[j] => i = j
  <2>1. SUFFICES ASSUME NEW i \in 1..(n + 1), NEW j \in 1..(n + 1),
                        t.pending[i] = t.pending[j]
                 PROVE  i = j
    BY <1>4
  <2>2. \A k \in 1..n : s.pending[k] # c.layer
    BY <1>3, <1>4, <1>8 DEF CensusOf, Pending
  <2>3. CASE i = 1 \/ j = 1
    <3>1. \A k \in 2..(n + 1) : k - 1 \in 1..n /\ t.pending[k] # c.layer
      BY <2>2, <1>2, <1>4
    <3>2. QED
      BY <2>1, <2>3, <3>1, <1>2, <1>4
  <2>4. CASE i # 1 /\ j # 1
    <3>1. i - 1 \in DOMAIN s.pending /\ j - 1 \in DOMAIN s.pending
      BY <2>4, <1>2, <1>4
    <3>2. s.pending[i - 1] = s.pending[j - 1]
      BY <2>1, <2>4, <1>2, <1>4
    <3>3. i - 1 = j - 1
      BY <3>1, <3>2 DEF CensusOf
    <3>4. QED
      BY <3>3, <1>2
  <2>5. QED
    BY <2>3, <2>4
<1>10. \A v, u \in Workers :
        (/\ t.active[v] # NoClaim /\ t.active[u] # NoClaim
         /\ t.active[v].layer = t.active[u].layer) => v = u
  BY <1>1, <1>2 DEF CensusOf
<1>11. QED
  BY <1>3, <1>5, <1>6, <1>7, <1>8, <1>9, <1>10 DEF CensusOf

LEMMA PhaseCensus ==
  ASSUME NEW s \in CampaignState, CensusOf(s), NEW phase, NEW r
  PROVE  CensusOf(InPhase(s, phase, r))
BY DEF CensusOf, InPhase, Pending, InFlight, Completed

LEMMA InitialCensus ==
  ASSUME NEW plan \in Nat
  PROVE  CensusOf(InitialState(plan))
<1> DEFINE s == InitialState(plan)
<1>1. /\ s \in CampaignState
      /\ s.pending = [i \in Layers |-> i]
      /\ s.active = [w \in Workers |-> NoClaim]
      /\ s.completed = [l \in Layers |-> NoClaim]
  BY InitialStateType DEF InitialState
<1>2. \A l \in Layers : Pending(s, l) /\ ~InFlight(s, l) /\ ~Completed(s, l)
  BY <1>1 DEF Pending, InFlight, Completed
<1>3. QED
  BY <1>1, <1>2 DEF CensusOf

-----------------------------------------------------------------------------
(* What a claim's process owns: its id holds the claim or has completed it. *)
Owns(s, w, c) ==
  \/ s.active[w] = c
  \/ Completed(s, c.layer) /\ s.completed[c.layer].claim = c

(* Two owners in one layer own it under one claim. *)
LEMMA OwnersAgree ==
  ASSUME NEW s \in CampaignState, CensusOf(s), NEW v \in Workers, NEW w \in Workers,
         NEW c \in Claim, NEW d \in Claim, Owns(s, v, c), Owns(s, w, d), c.layer = d.layer
  PROVE  c = d
<1>1. c # NoClaim /\ d # NoClaim /\ c.layer \in Layers
  BY DEF Claim
<1>2. CASE s.active[v] = c /\ s.active[w] = d
  BY <1>1, <1>2 DEF CensusOf
<1>3. CASE s.active[v] = c /\ Completed(s, d.layer)
  BY <1>1, <1>3 DEF CensusOf, InFlight
<1>4. CASE s.active[w] = d /\ Completed(s, c.layer)
  BY <1>1, <1>4 DEF CensusOf, InFlight
<1>5. QED
  BY <1>2, <1>3, <1>4 DEF Owns

LEMMA ClaimOwns ==
  ASSUME NEW s \in CampaignState, NEW v \in Workers, s.active[v] = NoClaim,
         NEW w \in Workers, NEW c \in Claim, Owns(s, w, c)
  PROVE  Owns(ClaimNextLayer(s, v), w, c)
<1> DEFINE t == ClaimNextLayer(s, v)
<1>1. /\ t.active = [s.active EXCEPT ![v] = NextClaim(s, v)]
      /\ t.completed = s.completed
  BY DEF ClaimNextLayer, Successor
<1>2. c # NoClaim /\ s.active \in [Workers -> Claim \union {NoClaim}]
  BY DEF CampaignState
<1>3. QED
  BY <1>1, <1>2 DEF Owns, Completed

LEMMA CompleteOwns ==
  ASSUME NEW s \in CampaignState, CensusOf(s), NEW v \in Workers, s.active[v] # NoClaim,
         NEW r \in Claim, NEW w \in Workers, NEW c \in Claim, Owns(s, w, c)
  PROVE  Owns(CompleteLayer(s, v, r), w, c)
<1> DEFINE t == CompleteLayer(s, v, r)
           d == s.active[v]
           row == [claim |-> d, receipt |-> r]
<1>1. /\ t.active = [s.active EXCEPT ![v] = NoClaim]
      /\ t.completed = [s.completed EXCEPT ![d.layer] = row]
  BY DEF CompleteLayer, Successor
<1>2. /\ c # NoClaim /\ c.layer \in Layers
      /\ s.active \in [Workers -> Claim \union {NoClaim}]
      /\ s.completed \in [Layers -> Completion \union {NoClaim}]
  BY DEF CampaignState, Claim
<1>3. d \in Claim /\ d.layer \in Layers /\ row \in Completion /\ row # NoClaim
  BY <1>2 DEF Claim, Completion
<1>4. ~Completed(s, d.layer)
  BY <1>3 DEF CensusOf, InFlight
<1>5. CASE s.active[w] = c /\ v = w
  BY <1>1, <1>2, <1>3, <1>5 DEF Owns, Completed
<1>6. CASE s.active[w] = c /\ v # w
  BY <1>1, <1>2, <1>6 DEF Owns
<1>7. CASE Completed(s, c.layer) /\ s.completed[c.layer].claim = c
  <2>1. d.layer # c.layer
    BY <1>4, <1>7
  <2>2. QED
    BY <1>1, <1>2, <1>7, <2>1 DEF Owns, Completed
<1>8. QED
  BY <1>5, <1>6, <1>7 DEF Owns

LEMMA RecoveryOwns ==
  ASSUME NEW s \in CampaignState, NEW v \in Workers,
         NEW w \in Workers, w # v, NEW c \in Claim, Owns(s, w, c)
  PROVE  Owns(RecoverySuccessor(s, v), w, c)
<1> DEFINE t == RecoverySuccessor(s, v)
<1>1. /\ t.active = [s.active EXCEPT ![v] = NoClaim]
      /\ t.completed = s.completed
  BY DEF RecoverySuccessor, Successor
<1>2. s.active \in [Workers -> Claim \union {NoClaim}]
  BY DEF CampaignState
<1>3. QED
  BY <1>1, <1>2 DEF Owns, Completed

LEMMA OthersLayer ==
  ASSUME NEW s \in CampaignState, CensusOf(s), NEW v \in Workers, s.active[v] # NoClaim,
         NEW w \in Workers, w # v, NEW c \in Claim, Owns(s, w, c)
  PROVE  /\ s.active[v].layer \in Layers /\ ~Completed(s, s.active[v].layer)
         /\ c.layer # s.active[v].layer
<1>1. s.active[v] \in Claim /\ s.active[v].layer \in Layers /\ c # NoClaim
  BY DEF CampaignState, Claim
<1>2. ~Completed(s, s.active[v].layer)
  BY <1>1 DEF CensusOf, InFlight
<1>3. c.layer # s.active[v].layer
  BY <1>1, <1>2 DEF CensusOf, Owns
<1>4. QED
  BY <1>1, <1>2, <1>3

-----------------------------------------------------------------------------
(* The inductive invariant *)

(* A set of naturals need not have a maximum; sets of files have one.      *)
HasNewest(S) == \E m \in S : \A k \in S : k <= m

Directory ==
  /\ \A S \in SUBSET DOMAIN files : S # {} => HasNewest(S)
  /\ \A k \in DOMAIN files :
       /\ files[k].plan <= planDisk
       /\ k >= 1 => files[k].phase = "k35_main_encoding"

Encoding == {"check", "encode", "readback", "sealed", "recording"}

(* What 6b writes for a plan. *)
Entry(plan) == EnterEncoding(InitialState(plan), [plan |-> plan, alloc |-> plan])

Mem(p) == pc[p] \in {"claiming", "recording"}
RMem == rpc \in {"read", "quarantined"}

(* Who is in a locked section holds the flock, and what it read there lets *)
(* it write its successor.                                                 *)
Locked ==
  /\ \A p \in Procs :
       /\ pc[p] \in {"locked", "claiming", "recording"} => lock = p
       /\ Mem(p) => mem[p] \in CampaignState
       /\ pc[p] = "claiming" =>
            mem[p].pending # <<>> /\ mem[p].active[WorkerOf[p]] = NoClaim
       /\ pc[p] = "recording" => mem[p].active[WorkerOf[p]] = claim[p]
       /\ pc[p] \in Encoding => claim[p] \in Claim
  /\ rpc # "idle" => rworker \in Workers
  /\ RMem => /\ lock = Recoverer
             /\ rmem \in CampaignState
             /\ rmem.active[rworker] # NoClaim

(* The operator's scripts, run in order. *)
Scripts ==
  /\ readiness # NoClaim => readiness.alloc = readiness.plan
  /\ opc = "replan" => DOMAIN files \intersect {0, 1} \subseteq todo
  /\ opc = "replan" /\ 0 \in DOMAIN files => allocDisk # planDisk
  /\ opc = "restart" => allocDisk = planDisk /\ DOMAIN files \intersect {0, 1} = {}
  /\ opc = "enter" => 0 \in DOMAIN files /\ omem = Entry(planDisk)

(* The first two files are the current plan's. *)
Heads ==
  /\ 0 \in DOMAIN files => files[0] = InitialState(planDisk)
  /\ 1 \in DOMAIN files => files[1] = Entry(planDisk)

(* A plan whose first state is still to be written has no state yet. *)
Unstarted == 0 \notin DOMAIN files /\ allocDisk = planDisk

NotStarted == Unstarted => Chain(planDisk) = {}

(* Behind the files of a newer plan lie those of an older one. *)
Layered ==
  \A i, j \in DOMAIN files : i >= 2 /\ files[i].plan < files[j].plan => i > j

Linked ==
  0 \in DOMAIN files =>
    \A k \in Chain(planDisk) \ {0} :
      /\ k - 1 \in Chain(planDisk)
      /\ k >= 2 => files[k] \in Transitions(files[k - 1])

(* A state s that was read under the flock and is held there: whatever the *)
(* operator writes meanwhile, its successor's file is free or an older     *)
(* plan's, and if its plan is still in force it is still on disk.          *)
Held(s) ==
  /\ s.seq >= 1 /\ s.plan <= planDisk /\ s.phase = "k35_main_encoding"
  /\ \A k \in DOMAIN files :
       /\ files[k].plan >= s.plan => k <= s.seq
       /\ files[k].plan < s.plan /\ k >= 2 => k > s.seq
  /\ s.plan = planDisk =>
       /\ ~Unstarted
       /\ 0 \in DOMAIN files => s.seq \in DOMAIN files /\ files[s.seq] = s

AllHeld ==
  /\ \A p \in Procs : Mem(p) => Held(mem[p])
  /\ RMem => Held(rmem)

ChainInv ==
  /\ TypeOK
  /\ Directory /\ Locked /\ Scripts /\ Heads /\ NotStarted
  /\ Layered /\ Linked /\ AllHeld

-----------------------------------------------------------------------------
(* Files *)

LEMMA EntryType ==
  ASSUME NEW plan \in Nat
  PROVE  /\ InitialState(plan) \in CampaignState /\ Entry(plan) \in CampaignState
         /\ InitialState(plan).plan = plan /\ Entry(plan).plan = plan
         /\ InitialState(plan).seq = 0 /\ Entry(plan).seq = 1
         /\ InitialState(plan).phase = "planned"
         /\ Entry(plan).phase = "k35_main_encoding"
         /\ \A w \in Workers : InitialState(plan).active[w] = NoClaim
<1>1. [plan |-> plan, alloc |-> plan] \in Readiness
  BY DEF Readiness
<1>2. InitialState(plan) \in CampaignState /\ Entry(plan) \in CampaignState
  BY <1>1, InitialStateType, EnterEncodingType DEF Entry
<1>3. QED
  BY <1>2 DEF Entry, EnterEncoding, InPhase, InitialState

(* newest_state returns a state of the plan, and none has a later sequence. *)
LEMMA NewestIn ==
  ASSUME TypeOK, Directory, NEW plan, HasState(plan)
  PROVE  LET m == Max(Chain(plan))
         IN  /\ m \in DOMAIN files /\ m \in Nat
             /\ NewestState(plan) = files[m]
             /\ files[m] \in CampaignState /\ files[m].seq = m /\ files[m].plan = plan
             /\ \A k \in DOMAIN files : files[k].plan = plan => k <= m
<1>1. Chain(plan) \in SUBSET DOMAIN files /\ Chain(plan) # {}
  BY DEF Chain, HasState
<1>2. HasNewest(Chain(plan))
  BY <1>1 DEF Directory
<1>3. PICK n \in Chain(plan) : \A k \in Chain(plan) : k <= n
  BY <1>2 DEF HasNewest
<1>4. \A k \in Chain(plan) : k \in Nat
  BY <1>1 DEF TypeOK
<1>5. \A k \in Chain(plan) : n >= k
  BY <1>3, <1>4
<1>6. /\ Max(Chain(plan)) \in Chain(plan)
      /\ \A k \in Chain(plan) : Max(Chain(plan)) >= k
  BY <1>5 DEF Max
<1>7. \A k \in Chain(plan) : k <= Max(Chain(plan))
  BY <1>4, <1>6
<1>8. QED
  BY <1>4, <1>6, <1>7 DEF Chain, NewestState, TypeOK

(* What is read under the flock can be held: if it is not the first state. *)
LEMMA HoldNewest ==
  ASSUME ChainInv, NEW plan, HasState(plan),
         \/ NewestState(plan).phase = "k35_main_encoding"
         \/ \E w \in Workers : NewestState(plan).active[w] # NoClaim
  PROVE  NewestState(plan) \in CampaignState /\ Held(NewestState(plan))
<1> DEFINE m == Max(Chain(plan))
           s == NewestState(plan)
<1>0. TypeOK /\ Directory /\ Heads /\ NotStarted /\ Layered /\ planDisk \in Nat
  BY DEF ChainInv, TypeOK
<1>1. /\ m \in DOMAIN files /\ m \in Nat
      /\ s = files[m] /\ s \in CampaignState /\ s.seq = m /\ s.plan = plan
      /\ \A k \in DOMAIN files : files[k].plan = plan => k <= m
  BY <1>0, NewestIn
<1>2. m # 0
  BY <1>0, <1>1, EntryType DEF Heads
<1>3. s.seq >= 1 /\ s.plan <= planDisk /\ s.phase = "k35_main_encoding"
  BY <1>0, <1>1, <1>2 DEF Directory
<1>4. ASSUME NEW k \in DOMAIN files, files[k].plan >= plan PROVE k <= m
  <2>1. k \in Nat /\ files[k].plan \in Nat /\ files[k].plan <= planDisk /\ plan \in Nat
    BY <1>0, <1>1 DEF TypeOK, CampaignState, Directory
  <2>2. CASE files[k].plan = plan
    BY <2>2, <1>1
  <2>3. CASE files[k].plan > plan /\ m = 1
    BY <2>1, <2>3, <1>0, <1>1, EntryType DEF Heads
  <2>4. CASE files[k].plan > plan /\ m >= 2
    <3>1. m > k
      BY <2>1, <2>4, <1>0, <1>1 DEF Layered
    <3>2. QED
      BY <3>1, <2>1, <1>1
  <2>5. QED
    BY <2>1, <2>2, <2>3, <2>4, <1>1, <1>2, <1>4
<1>5. ASSUME NEW k \in DOMAIN files, files[k].plan < plan, k >= 2 PROVE k > m
  BY <1>0, <1>1, <1>5 DEF Layered
<1>6. plan = planDisk => ~Unstarted
  BY <1>0, <1>1 DEF NotStarted, Chain
<1>7. QED
  BY <1>1, <1>3, <1>4, <1>5, <1>6 DEF Held

-----------------------------------------------------------------------------
(* Steps *)

(* Every step that touches the files or plan.json. *)
LEMMA FileSteps ==
  ASSUME [Next]_vars
  PROVE  \/ UNCHANGED <<files, planDisk>>
         \/ \E p \in Procs : WriteClaim(p) \/ WriteComplete(p)
         \/ WriteRecovery
         \/ ReplanMove \/ ReplanWritePlan \/ ReplanWriteState \/ EnterWrite
<1>1. CASE UNCHANGED vars
  BY <1>1 DEF vars, inputs
<1>2. CASE \E p \in Procs : LoadPlan(p) \/ WorkerStep(p) \/ Crash(p)
  BY <1>2 DEF WorkerStep, LoadPlan, Crash, Stop, BindReadiness, RefuseReadiness, EnterLoop,
     ExitReplanned, RefuseState, Resume, ExitDrained, ReadForClaim, CheckLayer, RefuseLayer,
     WriteLayer, SealLayer, RefuseReadBack, ReadForComplete, ClaimVanished, inputs
<1>3. CASE (\E w \in Workers : RecoverLoad(w)) \/ RecoverStep \/ RecoverCrash
  BY <1>3 DEF RecoverLoad, RecoverStep, RecoverRead, Quarantine, NothingToRecover,
     RecoverCrash, RecoverEnd, inputs
<1>4. CASE Probe \/ ReplanGlob \/ ReplanStep \/ SealReadiness \/ EnterRead \/ EnterWrite
           \/ ScriptDies
  BY <1>4 DEF Probe, ReplanGlob, ReplanStep, SealReadiness, EnterRead, ScriptDies, inputs
<1>5. QED
  BY <1>1, <1>2, <1>3, <1>4 DEF Next

(* A worker or a recovery writes the successor of the state it holds. *)
Advance(s, t) ==
  /\ Held(s)
  /\ t.seq = s.seq + 1 /\ t.plan = s.plan /\ t.phase = s.phase
  /\ t \in Transitions(s)
  /\ files' = Put(files, t.seq, t)
  /\ UNCHANGED <<inputs, operator>>

LEMMA ClaimAdvances ==
  ASSUME ChainInv, NEW p \in Procs, WriteClaim(p)
  PROVE  /\ mem[p] \in CampaignState /\ Held(mem[p])
         /\ ClaimNextLayer(mem[p], WorkerOf[p]) \in CampaignState
         /\ NextClaim(mem[p], WorkerOf[p]) \in Claim
         /\ Advance(mem[p], ClaimNextLayer(mem[p], WorkerOf[p]))
<1> DEFINE s == mem[p]
           w == WorkerOf[p]
<1>1. /\ s \in CampaignState /\ Held(s) /\ w \in Workers
      /\ s.pending # <<>> /\ s.active[w] = NoClaim
  BY DEF ChainInv, Locked, AllHeld, Mem, WriteClaim
<1>2. ClaimNextLayer(s, w) \in CampaignState /\ NextClaim(s, w) \in Claim
  BY <1>1, ClaimNextLayerType, NextClaimType
<1>3. s.phase # "planned"
  BY <1>1 DEF Held
<1>4. ClaimNextLayer(s, w) \in Transitions(s)
  BY <1>1, <1>3 DEF Transitions
<1>5. QED
  BY <1>1, <1>2, <1>4 DEF Advance, WriteClaim, Append1, ClaimNextLayer, Successor

LEMMA CompleteAdvances ==
  ASSUME ChainInv, NEW p \in Procs, WriteComplete(p)
  PROVE  /\ mem[p] \in CampaignState /\ Held(mem[p])
         /\ claim[p] \in Claim /\ claim[p] # NoClaim
         /\ mem[p].active[WorkerOf[p]] = claim[p]
         /\ CompleteLayer(mem[p], WorkerOf[p], claim[p]) \in CampaignState
         /\ Advance(mem[p], CompleteLayer(mem[p], WorkerOf[p], claim[p]))
<1> DEFINE s == mem[p]
           w == WorkerOf[p]
<1>1. /\ s \in CampaignState /\ Held(s) /\ w \in Workers
      /\ claim[p] \in Claim /\ claim[p] # NoClaim /\ s.active[w] = claim[p]
  BY DEF ChainInv, Locked, AllHeld, Mem, WriteComplete, Encoding
<1>2. CompleteLayer(s, w, claim[p]) \in CampaignState
  BY <1>1, CompleteLayerType
<1>3. CompleteLayer(s, w, claim[p]) \in Transitions(s)
  BY <1>1 DEF Transitions
<1>4. QED
  BY <1>1, <1>2, <1>3 DEF Advance, WriteComplete, Append1, CompleteLayer, Successor

LEMMA RecoveryAdvances ==
  ASSUME ChainInv, WriteRecovery
  PROVE  /\ rmem \in CampaignState /\ Held(rmem) /\ rworker \in Workers
         /\ rmem.active[rworker] # NoClaim
         /\ RecoverySuccessor(rmem, rworker) \in CampaignState
         /\ Advance(rmem, RecoverySuccessor(rmem, rworker))
<1> DEFINE s == rmem
           w == rworker
<1>1. /\ s \in CampaignState /\ Held(s) /\ w \in Workers
      /\ s.active[w] # NoClaim
  BY DEF ChainInv, Locked, AllHeld, RMem, WriteRecovery
<1>2. s.active[w] \in Claim
  BY <1>1 DEF CampaignState
<1>3. RecoverySuccessor(s, w) \in CampaignState
  BY <1>1, <1>2, RecoverySuccessorType
<1>4. RecoverySuccessor(s, w) \in Transitions(s)
  BY <1>1 DEF Transitions
<1>5. QED
  BY <1>1, <1>3, <1>4 DEF Advance, WriteRecovery, RecoverEnd, Append1, RecoverySuccessor,
     Successor

(* The steps on the files, with the states that are written. *)
LEMMA FileChanges ==
  ASSUME ChainInv, [Next]_vars
  PROVE  \/ UNCHANGED <<files, planDisk>>
         \/ \E s, t \in CampaignState : Advance(s, t)
         \/ ReplanMove \/ ReplanWritePlan \/ ReplanWriteState \/ EnterWrite
BY FileSteps, ClaimAdvances, CompleteAdvances, RecoveryAdvances

(* Where the successor of a held state goes, no state of its plan or of a  *)
(* newer one is.                                                           *)
LEMMA AdvanceFree ==
  ASSUME TypeOK, NEW s \in CampaignState, NEW t \in CampaignState, Advance(s, t)
  PROVE  /\ t.seq \in Nat /\ t.seq >= 2 /\ t.plan <= planDisk /\ t.plan \in Nat
         /\ t.phase = "k35_main_encoding"
         /\ DOMAIN files' = DOMAIN files \union {t.seq}
         /\ files'[t.seq] = t
         /\ \A k \in DOMAIN files : k # t.seq => files'[k] = files[k]
         /\ \A k \in DOMAIN files :
              /\ files[k].plan >= t.plan => k < t.seq
              /\ files[k].plan < t.plan /\ k >= 2 => k >= t.seq
<1>1. /\ s.seq \in Nat /\ s.seq >= 1 /\ t.seq = s.seq + 1 /\ t.plan = s.plan
      /\ t.plan \in Nat /\ t.plan <= planDisk
      /\ t.phase = "k35_main_encoding"
  BY DEF Advance, Held, CampaignState
<1>2. ASSUME NEW k \in DOMAIN files
      PROVE  /\ files[k].plan >= t.plan => k < t.seq
             /\ files[k].plan < t.plan /\ k >= 2 => k >= t.seq
  <2>1. k \in Nat
    BY DEF TypeOK
  <2>2. /\ files[k].plan >= s.plan => k <= s.seq
        /\ files[k].plan < s.plan /\ k >= 2 => k > s.seq
    BY DEF Advance, Held
  <2>3. QED
    BY <2>1, <2>2, <1>1
<1>3. files' = Put(files, t.seq, t)
  BY DEF Advance
<1>4. /\ DOMAIN files' = DOMAIN files \union {t.seq}
      /\ files'[t.seq] = t
      /\ \A k \in DOMAIN files : k # t.seq => files'[k] = files[k]
  BY <1>3 DEF Put
<1>5. QED
  BY <1>1, <1>2, <1>4

(* 6b writes what it has already written, or a new file. *)
LEMMA EntryWritten ==
  ASSUME ChainInv, EnterWrite
  PROVE  /\ DOMAIN files' = DOMAIN files \union {1}
         /\ files'[1] = Entry(planDisk)
         /\ \A k \in DOMAIN files : files'[k] = files[k]
         /\ 0 \in DOMAIN files /\ planDisk \in Nat
<1>1. omem = Entry(planDisk) /\ 0 \in DOMAIN files /\ planDisk \in Nat
  BY DEF ChainInv, TypeOK, Scripts, EnterWrite
<1>2. files' = Put(files, 1, Entry(planDisk))
  BY <1>1, EntryType DEF EnterWrite, Append1
<1>3. 1 \in DOMAIN files => files[1] = Entry(planDisk)
  BY DEF ChainInv, Heads
<1>4. /\ DOMAIN files' = DOMAIN files \union {1}
      /\ files'[1] = Entry(planDisk)
      /\ \A k \in DOMAIN files : k # 1 => files'[k] = files[k]
  BY <1>2 DEF Put
<1>5. QED
  BY <1>1, <1>3, <1>4

(* The restart of the chain finds neither of its first two files. *)
LEMMA StateWritten ==
  ASSUME ChainInv, ReplanWriteState
  PROVE  /\ 0 \notin DOMAIN files /\ 1 \notin DOMAIN files
         /\ DOMAIN files' = DOMAIN files \union {0}
         /\ files'[0] = InitialState(planDisk)
         /\ \A k \in DOMAIN files : files'[k] = files[k]
         /\ planDisk \in Nat
         /\ \A k \in DOMAIN files : files[k].plan # planDisk
<1>1. planDisk \in Nat /\ allocDisk = planDisk /\ DOMAIN files \intersect {0, 1} = {}
  BY DEF ChainInv, TypeOK, Scripts, ReplanWriteState
<1>2. files' = Put(files, 0, InitialState(planDisk))
  BY <1>1, EntryType DEF ReplanWriteState, Append1
<1>3. Chain(planDisk) = {}
  BY <1>1 DEF ChainInv, NotStarted, Unstarted
<1>4. /\ DOMAIN files' = DOMAIN files \union {0}
      /\ files'[0] = InitialState(planDisk)
      /\ \A k \in DOMAIN files : k # 0 => files'[k] = files[k]
  BY <1>2 DEF Put
<1>5. QED
  BY <1>1, <1>3, <1>4 DEF Chain

LEMMA FileMoved ==
  ASSUME ReplanMove
  PROVE  /\ DOMAIN files' = DOMAIN files \ {Min(todo)}
         /\ \A k \in DOMAIN files' : files'[k] = files[k]
         /\ opc = "replan" /\ UNCHANGED <<inputs, opc, omem, quiet>>
         /\ todo' = todo \ {Min(todo)}
BY DEF ReplanMove, Restrict

(* The first of the numbers is moved first. *)
LEMMA FirstMoved ==
  ASSUME NEW S \in SUBSET Nat, 0 \in S
  PROVE  Min(S) = 0
<1>1. \A y \in S : 0 <= y
  OBVIOUS
<1>2. Min(S) \in S /\ Min(S) <= 0
  BY <1>1 DEF Min
<1>3. Min(S) \in Nat
  BY <1>2
<1>4. QED
  BY <1>2, <1>3

LEMMA AllocSteps ==
  ASSUME [Next]_vars
  PROVE  allocDisk' = allocDisk \/ Probe
BY DEF Next, WorkerStep, LoadPlan, Crash, Stop, BindReadiness, RefuseReadiness, EnterLoop,
   ExitReplanned, RefuseState, Resume, ExitDrained, ReadForClaim, WriteClaim, CheckLayer,
   RefuseLayer, WriteLayer, SealLayer, RefuseReadBack, ReadForComplete, ClaimVanished,
   WriteComplete, RecoverLoad, RecoverStep, RecoverRead, Quarantine, WriteRecovery,
   NothingToRecover, RecoverCrash, RecoverEnd, ReplanGlob, ReplanStep, ReplanMove,
   ReplanWritePlan, ReplanWriteState, SealReadiness, EnterRead, EnterWrite, ScriptDies,
   inputs, vars

-----------------------------------------------------------------------------
(* The directory, step by step *)

FileType ==
  /\ DOMAIN files \subseteq Nat
  /\ \A k \in DOMAIN files : files[k] \in CampaignState /\ files[k].seq = k

LEMMA NextFileType == ChainInv /\ [Next]_vars => FileType'
<1> SUFFICES ASSUME ChainInv, [Next]_vars PROVE FileType'
  OBVIOUS
<1>0. TypeOK /\ FileType
  BY DEF ChainInv, TypeOK, FileType
<1>1. CASE UNCHANGED files
  BY <1>0, <1>1 DEF FileType
<1>2. ASSUME NEW s \in CampaignState, NEW t \in CampaignState, Advance(s, t)
      PROVE  FileType'
  <2>1. /\ t.seq \in Nat
        /\ DOMAIN files' = DOMAIN files \union {t.seq} /\ files'[t.seq] = t
        /\ \A k \in DOMAIN files : k # t.seq => files'[k] = files[k]
    BY <1>0, <1>2, AdvanceFree
  <2>2. QED
    BY <1>0, <2>1 DEF FileType
<1>3. CASE ReplanMove
  BY <1>0, <1>3, FileMoved DEF FileType
<1>4. CASE ReplanWriteState
  BY <1>0, <1>4, StateWritten, EntryType DEF FileType
<1>5. CASE EnterWrite
  BY <1>0, <1>5, EntryWritten, EntryType DEF FileType
<1>6. QED
  BY <1>1, <1>2, <1>3, <1>4, <1>5, FileChanges DEF ReplanWritePlan

(* A file more or less, and every set of files still has a last one. *)
LEMMA OneMore ==
  ASSUME NEW D \in SUBSET Nat, NEW n \in Nat, \A S \in SUBSET D : S # {} => HasNewest(S),
         NEW S \in SUBSET (D \union {n}), S # {}
  PROVE  HasNewest(S)
<1>1. CASE S \ {n} = {}
  <2>1. S = {n}
    BY <1>1
  <2>2. QED
    BY <2>1 DEF HasNewest
<1>2. CASE S \ {n} # {}
  <2>1. PICK m \in S \ {n} : \A k \in S \ {n} : k <= m
    BY <1>2 DEF HasNewest
  <2>2. CASE n <= m
    BY <2>1, <2>2 DEF HasNewest
  <2>3. CASE ~(n <= m) /\ n \in S
    <3>1. \A k \in S : k <= n
      BY <2>1, <2>3
    <3>2. QED
      BY <3>1, <2>3 DEF HasNewest
  <2>4. CASE n \notin S
    BY <2>1, <2>4 DEF HasNewest
  <2>5. QED
    BY <2>2, <2>3, <2>4
<1>3. QED
  BY <1>1, <1>2

LEMMA DiskTypes ==
  ASSUME ChainInv
  PROVE  /\ DOMAIN files \in SUBSET Nat
         /\ planDisk \in Nat /\ allocDisk \in Nat /\ planDisk <= allocDisk
         /\ \A S \in SUBSET DOMAIN files : S # {} => HasNewest(S)
         /\ \A k \in DOMAIN files :
              /\ files[k] \in CampaignState
              /\ files[k].plan \in Nat /\ files[k].plan <= planDisk
              /\ k >= 1 => files[k].phase = "k35_main_encoding"
<1>1. TypeOK /\ Directory
  BY DEF ChainInv
<1>2. planDisk \in Nat /\ allocDisk \in Nat /\ planDisk <= allocDisk
  BY <1>1 DEF TypeOK
<1>3. /\ DOMAIN files \in SUBSET Nat
      /\ \A k \in DOMAIN files : files[k] \in CampaignState
  BY <1>1 DEF TypeOK
<1>4. \A k \in DOMAIN files : files[k].plan \in Nat
  BY <1>3 DEF CampaignState
<1>5. QED
  BY <1>1, <1>2, <1>3, <1>4 DEF Directory

LEMMA NextDirectory == ChainInv /\ [Next]_vars => Directory'
<1> SUFFICES ASSUME ChainInv, [Next]_vars PROVE Directory'
  OBVIOUS
<1>0. TypeOK /\ Directory
  BY DEF ChainInv
<1>8. /\ DOMAIN files \in SUBSET Nat
      /\ planDisk \in Nat /\ allocDisk \in Nat /\ planDisk <= allocDisk
      /\ \A S \in SUBSET DOMAIN files : S # {} => HasNewest(S)
      /\ \A k \in DOMAIN files : files[k].plan \in Nat /\ files[k].plan <= planDisk
  BY DiskTypes
<1>1. CASE UNCHANGED <<files, planDisk>>
  BY <1>8, <1>0, <1>1 DEF Directory
<1>2. ASSUME NEW s \in CampaignState, NEW t \in CampaignState, Advance(s, t)
      PROVE  Directory'
  <2>1. /\ t.seq \in Nat /\ t.plan <= planDisk /\ t.phase = "k35_main_encoding"
        /\ DOMAIN files' = DOMAIN files \union {t.seq} /\ files'[t.seq] = t
        /\ \A k \in DOMAIN files : k # t.seq => files'[k] = files[k]
        /\ planDisk' = planDisk
    BY <1>0, <1>2, AdvanceFree DEF Advance, inputs
  <2>2. \A S \in SUBSET DOMAIN files' : S # {} => HasNewest(S)
    BY <1>8, <2>1, OneMore
  <2>3. QED
    BY <1>8, <1>0, <2>1, <2>2 DEF Directory
<1>3. CASE ReplanMove
  BY <1>8, <1>0, <1>3, FileMoved DEF Directory, inputs
<1>4. CASE ReplanWritePlan
  BY <1>8, <1>0, <1>4 DEF ReplanWritePlan, Directory
<1>5. CASE ReplanWriteState
  <2>1. /\ DOMAIN files' = DOMAIN files \union {0} /\ files'[0] = InitialState(planDisk)
        /\ \A k \in DOMAIN files : files'[k] = files[k]
        /\ planDisk' = planDisk
    BY <1>5, StateWritten DEF ReplanWriteState, inputs
  <2>2. \A S \in SUBSET DOMAIN files' : S # {} => HasNewest(S)
    BY <1>8, <2>1, OneMore
  <2>3. QED
    BY <1>8, <1>0, <2>1, <2>2, EntryType DEF Directory
<1>6. CASE EnterWrite
  <2>1. /\ DOMAIN files' = DOMAIN files \union {1} /\ files'[1] = Entry(planDisk)
        /\ \A k \in DOMAIN files : files'[k] = files[k]
        /\ planDisk' = planDisk
    BY <1>6, EntryWritten DEF EnterWrite, inputs
  <2>2. \A S \in SUBSET DOMAIN files' : S # {} => HasNewest(S)
    BY <1>8, <2>1, OneMore
  <2>3. QED
    BY <1>8, <1>0, <2>1, <2>2, EntryType DEF Directory
<1>7. QED
  BY <1>1, <1>2, <1>3, <1>4, <1>5, <1>6, FileChanges

LEMMA NextHeads == ChainInv /\ [Next]_vars => Heads'
<1> SUFFICES ASSUME ChainInv, [Next]_vars PROVE Heads'
  OBVIOUS
<1>0. TypeOK /\ Heads /\ Scripts
  BY DEF ChainInv
<1>1. CASE UNCHANGED <<files, planDisk>>
  BY <1>0, <1>1 DEF Heads
<1>2. ASSUME NEW s \in CampaignState, NEW t \in CampaignState, Advance(s, t)
      PROVE  Heads'
  <2>1. /\ t.seq # 0 /\ t.seq # 1
        /\ DOMAIN files' = DOMAIN files \union {t.seq}
        /\ \A k \in DOMAIN files : k # t.seq => files'[k] = files[k]
        /\ planDisk' = planDisk
    BY <1>0, <1>2, AdvanceFree DEF Advance, inputs
  <2>2. QED
    BY <1>0, <2>1 DEF Heads
<1>3. CASE ReplanMove
  BY <1>0, <1>3, FileMoved DEF Heads, inputs
<1>4. CASE ReplanWritePlan
  BY <1>0, <1>4 DEF ReplanWritePlan, Heads, Scripts
<1>5. CASE ReplanWriteState
  BY <1>0, <1>5, StateWritten DEF ReplanWriteState, Heads, inputs
<1>6. CASE EnterWrite
  BY <1>0, <1>6, EntryWritten DEF EnterWrite, Heads, inputs
<1>7. QED
  BY <1>1, <1>2, <1>3, <1>4, <1>5, <1>6, FileChanges

LEMMA NextNotStarted == ChainInv /\ [Next]_vars => NotStarted'
<1> SUFFICES ASSUME ChainInv, [Next]_vars, 0 \notin DOMAIN files', allocDisk' = planDisk',
                    NEW k \in DOMAIN files'
             PROVE  files'[k].plan # planDisk'
  BY DEF NotStarted, Unstarted, Chain
<1>8. /\ DOMAIN files \in SUBSET Nat
      /\ planDisk \in Nat /\ allocDisk \in Nat /\ planDisk <= allocDisk
      /\ \A j \in DOMAIN files : files[j].plan \in Nat /\ files[j].plan <= planDisk
  BY DiskTypes
<1>0. /\ TypeOK /\ Scripts
      /\ Unstarted => \A j \in DOMAIN files : files[j].plan # planDisk
  BY DEF ChainInv, NotStarted, Chain
<1>1. CASE UNCHANGED <<files, planDisk>>
  <2>1. allocDisk' # allocDisk + 1
    BY <1>8, <1>1
  <2>2. Unstarted
    BY <1>1, <2>1, AllocSteps DEF Probe, Unstarted
  <2>3. QED
    BY <1>8, <1>0, <1>1, <2>2
<1>2. ASSUME NEW s \in CampaignState, NEW t \in CampaignState, Advance(s, t)
      PROVE  files'[k].plan # planDisk'
  <2>1. /\ DOMAIN files' = DOMAIN files \union {t.seq} /\ files'[t.seq] = t
        /\ \A j \in DOMAIN files : j # t.seq => files'[j] = files[j]
    BY <1>0, <1>2, AdvanceFree
  <2>5. planDisk' = planDisk /\ allocDisk' = allocDisk
    BY <1>2 DEF Advance, inputs
  <2>2. Unstarted
    BY <2>1, <2>5 DEF Unstarted
  <2>3. t.plan # planDisk
    BY <1>2, <2>2 DEF Advance, Held
  <2>4. QED
    BY <1>0, <2>1, <2>5, <2>2, <2>3
<1>3. CASE ReplanMove
  <2>1. /\ DOMAIN files' = DOMAIN files \ {Min(todo)}
        /\ \A j \in DOMAIN files' : files'[j] = files[j]
        /\ planDisk' = planDisk /\ allocDisk' = allocDisk /\ opc = "replan"
    BY <1>3, FileMoved DEF inputs
  <2>2. Unstarted
    BY <1>8, <1>0, <2>1 DEF Scripts, Unstarted
  <2>3. QED
    BY <1>8, <1>0, <2>1, <2>2
<1>4. CASE ReplanWritePlan
  <2>1. UNCHANGED files /\ planDisk' = allocDisk /\ allocDisk' = allocDisk
    BY <1>4 DEF ReplanWritePlan
  <2>2. CASE allocDisk = planDisk
    BY <1>8, <1>0, <2>1, <2>2 DEF Unstarted
  <2>3. CASE allocDisk > planDisk
    BY <1>8, <2>1, <2>3
  <2>4. QED
    BY <1>8, <2>2, <2>3
<1>5. CASE ReplanWriteState
  BY <1>5, StateWritten
<1>6. CASE EnterWrite
  BY <1>6, EntryWritten
<1>7. QED
  BY <1>1, <1>2, <1>3, <1>4, <1>5, <1>6, FileChanges

LEMMA NextLayered == ChainInv /\ [Next]_vars => Layered'
<1> SUFFICES ASSUME ChainInv, [Next]_vars, NEW i \in DOMAIN files', NEW j \in DOMAIN files',
                    i >= 2, files'[i].plan < files'[j].plan
             PROVE  i > j
  BY DEF Layered
<1>7. /\ DOMAIN files \in SUBSET Nat
      /\ planDisk \in Nat /\ allocDisk \in Nat /\ planDisk <= allocDisk
      /\ \A n \in DOMAIN files : files[n].plan \in Nat /\ files[n].plan <= planDisk
  BY DiskTypes
<1>0. /\ TypeOK
      /\ \A m, n \in DOMAIN files : m >= 2 /\ files[m].plan < files[n].plan => m > n
  BY DEF ChainInv, Layered
<1>1. CASE UNCHANGED files
  BY <1>0, <1>1
<1>2. ASSUME NEW s \in CampaignState, NEW t \in CampaignState, Advance(s, t)
      PROVE  i > j
  <2>1. /\ t.seq \in Nat /\ t.plan \in Nat
        /\ DOMAIN files' = DOMAIN files \union {t.seq} /\ files'[t.seq] = t
        /\ \A k \in DOMAIN files : k # t.seq => files'[k] = files[k]
        /\ \A k \in DOMAIN files :
             /\ files[k].plan >= t.plan => k < t.seq
             /\ files[k].plan < t.plan /\ k >= 2 => k >= t.seq
    BY <1>0, <1>2, AdvanceFree
  <2>2. CASE i = t.seq /\ j = t.seq
    BY <1>7, <2>1, <2>2
  <2>3. CASE i = t.seq /\ j # t.seq
    BY <1>7, <2>1, <2>3
  <2>4. CASE i # t.seq /\ j = t.seq
    BY <1>7, <2>1, <2>4
  <2>5. CASE i # t.seq /\ j # t.seq
    BY <1>7, <1>0, <2>1, <2>5
  <2>6. QED
    BY <2>2, <2>3, <2>4, <2>5
<1>3. CASE ReplanMove
  BY <1>7, <1>0, <1>3, FileMoved
<1>4. CASE ReplanWriteState
  <2>1. /\ DOMAIN files' = DOMAIN files \union {0}
        /\ \A k \in DOMAIN files : files'[k] = files[k]
    BY <1>4, StateWritten
  <2>2. QED
    BY <1>7, <1>0, <2>1
<1>5. CASE EnterWrite
  <2>1. /\ DOMAIN files' = DOMAIN files \union {1}
        /\ \A k \in DOMAIN files : files'[k] = files[k]
    BY <1>5, EntryWritten
  <2>2. QED
    BY <1>7, <1>0, <2>1
<1>6. QED
  BY <1>1, <1>2, <1>3, <1>4, <1>5, FileChanges DEF ReplanWritePlan

LEMMA NoFirstFile ==
  ASSUME ChainInv, ReplanMove
  PROVE  0 \notin DOMAIN files'
<1>1. /\ todo \in SUBSET Nat
      /\ opc = "replan" => DOMAIN files \intersect {0, 1} \subseteq todo
  BY DEF ChainInv, TypeOK, Scripts
<1>2. CASE 0 \in DOMAIN files
  BY <1>1, <1>2, FileMoved, FirstMoved
<1>3. CASE 0 \notin DOMAIN files
  BY <1>3, FileMoved
<1>4. QED
  BY <1>2, <1>3

LEMMA NextLinked == ChainInv /\ [Next]_vars => Linked'
<1> SUFFICES ASSUME ChainInv, [Next]_vars, 0 \in DOMAIN files',
                    NEW k \in DOMAIN files', files'[k].plan = planDisk', k # 0
             PROVE  /\ k - 1 \in DOMAIN files' /\ files'[k - 1].plan = planDisk'
                    /\ k >= 2 => files'[k] \in Transitions(files'[k - 1])
  BY DEF Linked, Chain
<1>8. /\ DOMAIN files \in SUBSET Nat
      /\ planDisk \in Nat /\ allocDisk \in Nat /\ planDisk <= allocDisk
      /\ \A j \in DOMAIN files : files[j].plan \in Nat /\ files[j].plan <= planDisk
  BY DiskTypes
<1>0. /\ TypeOK /\ Heads
      /\ 0 \in DOMAIN files => \A j \in DOMAIN files : files[j].plan = planDisk /\ j # 0 =>
           /\ j - 1 \in DOMAIN files /\ files[j - 1].plan = planDisk
           /\ j >= 2 => files[j] \in Transitions(files[j - 1])
  BY DEF ChainInv, Linked, Chain
<1>1. CASE UNCHANGED <<files, planDisk>>
  BY <1>0, <1>1
<1>2. ASSUME NEW s \in CampaignState, NEW t \in CampaignState, Advance(s, t)
      PROVE  /\ k - 1 \in DOMAIN files' /\ files'[k - 1].plan = planDisk'
             /\ k >= 2 => files'[k] \in Transitions(files'[k - 1])
  <2>1. /\ t.seq \in Nat /\ t.seq >= 2 /\ t.plan \in Nat /\ t.plan <= planDisk
        /\ DOMAIN files' = DOMAIN files \union {t.seq} /\ files'[t.seq] = t
        /\ \A j \in DOMAIN files : j # t.seq => files'[j] = files[j]
        /\ \A j \in DOMAIN files : files[j].plan >= t.plan => j < t.seq
        /\ planDisk' = planDisk
    BY <1>0, <1>2, AdvanceFree DEF Advance, inputs
  <2>2. 0 \in DOMAIN files
    BY <2>1
  <2>3. CASE k = t.seq
    <3>1. /\ t.plan = planDisk /\ s.plan = planDisk /\ s.seq = k - 1
          /\ t \in Transitions(s) /\ s.seq \in Nat
      BY <1>2, <2>1, <2>3 DEF Advance, CampaignState
    <3>2. s.seq \in DOMAIN files /\ files[s.seq] = s
      BY <1>2, <2>2, <3>1 DEF Advance, Held
    <3>3. files'[s.seq] = s
      BY <2>1, <2>3, <3>1, <3>2
    <3>4. QED
      BY <2>1, <2>3, <3>1, <3>2, <3>3
  <2>4. CASE k # t.seq
    <3>1. /\ k \in DOMAIN files /\ files'[k] = files[k]
          /\ k - 1 \in DOMAIN files /\ files[k - 1].plan = planDisk
          /\ k >= 2 => files[k] \in Transitions(files[k - 1])
      BY <1>8, <1>0, <2>1, <2>2, <2>4
    <3>2. k \in DOMAIN files /\ k < t.seq /\ k \in Nat
      BY <1>8, <2>1, <2>4, <3>1
    <3>3. files'[k - 1] = files[k - 1]
      BY <2>1, <3>1, <3>2
    <3>4. QED
      BY <2>1, <3>1, <3>3
  <2>5. QED
    BY <2>3, <2>4
<1>3. CASE ReplanMove
  BY <1>3, NoFirstFile
<1>4. CASE ReplanWritePlan
  <2>1. 0 \notin DOMAIN files
    BY <1>4 DEF ChainInv, Scripts, ReplanWritePlan
  <2>2. QED
    BY <1>4, <2>1 DEF ReplanWritePlan
<1>5. CASE ReplanWriteState
  BY <1>5, StateWritten DEF ReplanWriteState, inputs
<1>6. CASE EnterWrite
  <2>1. /\ DOMAIN files' = DOMAIN files \union {1} /\ 0 \in DOMAIN files
        /\ \A j \in DOMAIN files : files'[j] = files[j]
        /\ planDisk' = planDisk
    BY <1>6, EntryWritten DEF EnterWrite, inputs
  <2>2. CASE k = 1
    <3>1. files[0].plan = planDisk
      BY <1>8, <1>0, <2>1, EntryType DEF Heads
    <3>2. QED
      BY <2>1, <2>2, <3>1
  <2>3. CASE k # 1
    BY <1>8, <1>0, <2>1, <2>3
  <2>4. QED
    BY <2>2, <2>3
<1>7. QED
  BY <1>1, <1>2, <1>3, <1>4, <1>5, <1>6, FileChanges

(* While a state is held, only the operator's scripts write files. *)
LEMMA HeldStays ==
  ASSUME ChainInv, [Next]_vars, NEW s \in CampaignState, Held(s),
         \/ UNCHANGED <<files, planDisk>>
         \/ ReplanMove \/ ReplanWritePlan \/ ReplanWriteState \/ EnterWrite
  PROVE  Held(s)'
<1>7. /\ DOMAIN files \in SUBSET Nat
      /\ planDisk \in Nat /\ allocDisk \in Nat /\ planDisk <= allocDisk
      /\ \A j \in DOMAIN files : files[j].plan \in Nat /\ files[j].plan <= planDisk
  BY DiskTypes
<1>0. /\ TypeOK /\ Scripts
      /\ s.seq \in Nat /\ s.seq >= 1 /\ s.plan \in Nat /\ s.plan <= planDisk
      /\ s.phase = "k35_main_encoding"
      /\ \A k \in DOMAIN files :
           /\ files[k].plan >= s.plan => k <= s.seq
           /\ files[k].plan < s.plan /\ k >= 2 => k > s.seq
      /\ s.plan = planDisk =>
           /\ ~Unstarted
           /\ 0 \in DOMAIN files => s.seq \in DOMAIN files /\ files[s.seq] = s
  BY DEF ChainInv, Held, CampaignState
<1>1. CASE UNCHANGED <<files, planDisk>>
  <2>1. ~Unstarted => ~Unstarted'
    BY <1>7, <1>1, AllocSteps DEF Probe, Unstarted
  <2>2. QED
    BY <1>7, <1>0, <1>1, <2>1 DEF Held
<1>2. CASE ReplanMove
  <2>1. /\ DOMAIN files' \subseteq DOMAIN files /\ 0 \notin DOMAIN files'
        /\ \A j \in DOMAIN files' : files'[j] = files[j]
        /\ planDisk' = planDisk /\ allocDisk' = allocDisk /\ opc = "replan"
    BY <1>2, FileMoved, NoFirstFile DEF inputs
  <2>2. ~Unstarted => ~Unstarted'
    BY <1>7, <1>0, <2>1 DEF Scripts, Unstarted
  <2>3. QED
    BY <1>7, <1>0, <2>1, <2>2 DEF Held
<1>3. CASE ReplanWritePlan
  <2>1. /\ UNCHANGED files /\ planDisk' = allocDisk /\ 0 \notin DOMAIN files
    BY <1>7, <1>0, <1>3 DEF ReplanWritePlan, Scripts
  <2>2. s.plan # planDisk'
    BY <1>7, <1>0, <2>1 DEF Unstarted
  <2>3. QED
    BY <1>7, <1>0, <2>1, <2>2 DEF Held
<1>4. CASE ReplanWriteState
  <2>1. /\ DOMAIN files' = DOMAIN files \union {0} /\ 0 \notin DOMAIN files
        /\ files'[0] = InitialState(planDisk)
        /\ \A k \in DOMAIN files : files'[k] = files[k]
        /\ planDisk' = planDisk /\ allocDisk = planDisk
    BY <1>7, <1>0, <1>4, StateWritten DEF ReplanWriteState, Scripts, inputs
  <2>2. s.plan # planDisk'
    BY <1>7, <1>0, <2>1 DEF Unstarted
  <2>3. QED
    BY <1>7, <1>0, <2>1, <2>2 DEF Held
<1>5. CASE EnterWrite
  <2>1. /\ DOMAIN files' = DOMAIN files \union {1} /\ 0 \in DOMAIN files
        /\ \A j \in DOMAIN files : files'[j] = files[j]
        /\ planDisk' = planDisk
    BY <1>5, EntryWritten DEF EnterWrite, inputs
  <2>2. QED
    BY <1>7, <1>0, <2>1 DEF Held, Unstarted
<1>6. QED
  BY <1>1, <1>2, <1>3, <1>4, <1>5

-----------------------------------------------------------------------------
(* The variables of the processes *)

RestType ==
  /\ planDisk \in 0..MaxPlan /\ allocDisk \in planDisk..MaxPlan
  /\ readiness \in Readiness \union {NoClaim}
  /\ layers \in [Layers -> Claim \union {NoClaim}]
  /\ lock \in Procs \union {Recoverer, Free}
  /\ pc \in [Procs -> PC]
  /\ bound \in [Procs -> 0..MaxPlan]
  /\ claim \in [Procs -> Claim \union {NoClaim}]
  /\ mem \in [Procs -> CampaignState \union {NoClaim}]
  /\ rpc \in {"idle", "loaded", "read", "quarantined"}
  /\ rplan \in 0..MaxPlan /\ rworker \in Workers \union {NoClaim}
  /\ opc \in {"idle", "replan", "restart", "enter"}
  /\ quiet \in BOOLEAN

LEMMA TypeSplit == TypeOK <=> FileType /\ RestType /\ todo \subseteq DOMAIN files
BY DEF TypeOK, FileType, RestType

(* What a worker reads of its plan. *)
LEMMA NewestRead ==
  ASSUME ChainInv, NEW p \in Procs, HasState(bound[p])
  PROVE  /\ Newest(p) \in CampaignState
         /\ WorkerOf[p] \in Workers
         /\ Mine(p, Newest(p)) \in Claim \union {NoClaim}
<1>1. Newest(p) \in CampaignState
  BY NewestIn DEF ChainInv, Newest
<1>2. QED
  BY <1>1 DEF Mine, CampaignState

LEMMA RecoveredRead ==
  ASSUME ChainInv, HasTarget, rpc # "idle"
  PROVE  /\ NewestState(rplan) \in CampaignState
         /\ Held(NewestState(rplan))
         /\ rworker \in Workers
<1>1. HasState(rplan) /\ Target # NoClaim /\ rworker \in Workers
  BY DEF HasTarget, ChainInv, Locked
<1>2. QED
  BY <1>1, HoldNewest DEF Target

LEMMA StopType ==
  ASSUME RestType, NEW p \in Procs, NEW how \in Stopped, Stop(p, how)
  PROVE  RestType'
<1>1. how \in PC
  BY DEF PC
<1>2. /\ pc' \in [Procs -> PC]
      /\ bound' \in [Procs -> 0..MaxPlan]
      /\ claim' \in [Procs -> Claim \union {NoClaim}]
      /\ mem' \in [Procs -> CampaignState \union {NoClaim}]
      /\ lock' \in Procs \union {Recoverer, Free}
  BY <1>1 DEF RestType, Stop, Go, Unlock
<1>3. QED
  BY <1>2 DEF RestType, Stop, inputs, recovery, operator

LEMMA WorkerType ==
  ASSUME ChainInv, NEW p \in Procs, LoadPlan(p) \/ WorkerStep(p) \/ Crash(p)
  PROVE  RestType'
<1> USE DEF Go, Unlock, inputs, recovery, operator
<1>0. /\ RestType
      /\ {"starting", "loop", "locked", "claiming", "check", "encode", "readback",
          "sealed", "recording"} \subseteq PC
      /\ {"down", "failed", "killed"} = Stopped
  BY TypeSplit DEF ChainInv, PC, Stopped
<1>1. CASE \/ Crash(p) \/ RefuseReadiness(p) \/ ExitReplanned(p) \/ RefuseState(p)
           \/ ExitDrained(p) \/ RefuseLayer(p) \/ RefuseReadBack(p) \/ ClaimVanished(p)
  BY <1>0, <1>1, StopType DEF Crash, RefuseReadiness, ExitReplanned, RefuseState,
     ExitDrained, RefuseLayer, RefuseReadBack, ClaimVanished
<1>2. CASE LoadPlan(p)
  BY <1>0, <1>2 DEF LoadPlan, RestType
<1>3. CASE BindReadiness(p) \/ EnterLoop(p)
  BY <1>0, <1>3 DEF BindReadiness, EnterLoop, RestType
<1>4. CASE Resume(p)
  BY <1>0, <1>4, NewestRead DEF Resume, InEncoding, RestType
<1>5. CASE ReadForClaim(p)
  BY <1>0, <1>5, NewestRead DEF ReadForClaim, InEncoding, RestType
<1>6. CASE WriteClaim(p)
  BY <1>0, <1>6, ClaimAdvances DEF WriteClaim, RestType
<1>7. CASE CheckLayer(p) \/ SealLayer(p)
  BY <1>0, <1>7 DEF CheckLayer, SealLayer, RestType
<1>8. CASE WriteLayer(p)
  BY <1>0, <1>8 DEF WriteLayer, RestType
<1>9. CASE ReadForComplete(p)
  BY <1>0, <1>9, NewestRead DEF ReadForComplete, StillClaimed, RestType
<1>10. CASE WriteComplete(p)
  BY <1>0, <1>10 DEF WriteComplete, RestType
<1>11. QED
  BY <1>1, <1>2, <1>3, <1>4, <1>5, <1>6, <1>7, <1>8, <1>9, <1>10 DEF WorkerStep

LEMMA RecoveryType ==
  ASSUME ChainInv, (\E w \in Workers : RecoverLoad(w)) \/ RecoverStep \/ RecoverCrash
  PROVE  RestType'
<1> USE DEF Unlock, inputs, worker, operator
<1>0. RestType
  BY TypeSplit DEF ChainInv
<1>1. CASE \E w \in Workers : RecoverLoad(w)
  BY <1>0, <1>1 DEF RecoverLoad, RestType
<1>2. CASE RecoverRead
  BY <1>0, <1>2 DEF RecoverRead, RestType
<1>3. CASE Quarantine
  BY <1>0, <1>3 DEF Quarantine, RestType
<1>4. CASE WriteRecovery \/ NothingToRecover \/ RecoverCrash
  BY <1>0, <1>4 DEF WriteRecovery, NothingToRecover, RecoverCrash, RecoverEnd, RestType
<1>5. QED
  BY <1>1, <1>2, <1>3, <1>4 DEF RecoverStep

LEMMA OperatorType ==
  ASSUME ChainInv, Probe \/ ReplanGlob \/ ReplanStep \/ SealReadiness \/ EnterRead
                   \/ EnterWrite \/ ScriptDies
  PROVE  RestType'
<1> USE DEF Untouched, inputs, worker, recovery, operator
<1>0. RestType /\ planDisk \in Nat /\ allocDisk \in Nat
  BY TypeSplit, DiskTypes DEF ChainInv
<1>1. CASE Probe
  <2>1. allocDisk' \in planDisk..MaxPlan
    BY <1>0, <1>1 DEF Probe, RestType
  <2>2. QED
    BY <1>0, <1>1, <2>1 DEF Probe, RestType
<1>2. CASE ReplanGlob \/ ReplanMove \/ ReplanWriteState \/ EnterRead \/ EnterWrite
           \/ ScriptDies
  BY <1>0, <1>2 DEF ReplanGlob, ReplanMove, ReplanWriteState, EnterRead, EnterWrite,
     ScriptDies, RestType
<1>3. CASE ReplanWritePlan
  <2>1. planDisk' \in 0..MaxPlan /\ allocDisk' \in planDisk'..MaxPlan
    BY <1>0, <1>3 DEF ReplanWritePlan, RestType
  <2>2. QED
    BY <1>0, <1>3, <2>1 DEF ReplanWritePlan, RestType
<1>4. CASE SealReadiness
  BY <1>0, <1>4 DEF SealReadiness, RestType, Readiness
<1>5. QED
  BY <1>1, <1>2, <1>3, <1>4 DEF ReplanStep

(* Phase 5b has listed only files that are there. *)
LEMMA NextTodo == ChainInv /\ [Next]_vars => (todo \subseteq DOMAIN files)'
<1> SUFFICES ASSUME ChainInv, [Next]_vars PROVE todo' \subseteq DOMAIN files'
  OBVIOUS
<1>0. TypeOK /\ todo \subseteq DOMAIN files
  BY DEF ChainInv, TypeOK
<1>1. todo' = todo \/ ReplanGlob \/ ReplanMove \/ ScriptDies
  BY DEF Next, WorkerStep, LoadPlan, Crash, Stop, BindReadiness, RefuseReadiness, EnterLoop,
   ExitReplanned, RefuseState, Resume, ExitDrained, ReadForClaim, WriteClaim, CheckLayer,
   RefuseLayer, WriteLayer, SealLayer, RefuseReadBack, ReadForComplete, ClaimVanished,
   WriteComplete, RecoverLoad, RecoverStep, RecoverRead, Quarantine, WriteRecovery,
   NothingToRecover, RecoverCrash, RecoverEnd, Probe, ReplanStep, 
   ReplanWritePlan, ReplanWriteState, SealReadiness, EnterRead, EnterWrite,
   operator, vars
<1>2. DOMAIN files \subseteq DOMAIN files' \/ ReplanMove
  <2>1. CASE \E s, t \in CampaignState : Advance(s, t)
    BY <1>0, <2>1, AdvanceFree
  <2>2. CASE ReplanWriteState
    BY <2>2, StateWritten
  <2>3. CASE EnterWrite
    BY <2>3, EntryWritten
  <2>4. QED
    BY <2>1, <2>2, <2>3, FileChanges DEF ReplanWritePlan
<1>3. CASE ReplanMove
  BY <1>0, <1>3, FileMoved
<1>4. CASE ReplanGlob \/ ScriptDies
  BY <1>4 DEF ReplanGlob, ScriptDies
<1>5. QED
  BY <1>0, <1>1, <1>2, <1>3, <1>4

LEMMA NextTypeOK == ChainInv /\ [Next]_vars => TypeOK'
<1> SUFFICES ASSUME ChainInv, [Next]_vars PROVE TypeOK'
  OBVIOUS
<1>1. RestType'
  <2>1. CASE UNCHANGED vars
    BY <2>1, TypeSplit DEF ChainInv, RestType, vars, inputs, worker, recovery, operator
  <2>2. QED
    BY <2>1, WorkerType, RecoveryType, OperatorType DEF Next
<1>2. QED
  BY <1>1, NextFileType, NextTodo DEF TypeOK, FileType, RestType

-----------------------------------------------------------------------------
(* The scripts, the flock and what is held under it *)

LEMMA ScriptSteps ==
  ASSUME [Next]_vars
  PROVE  \/ UNCHANGED <<readiness, allocDisk, planDisk, opc, omem, todo>>
         \/ Probe \/ ReplanGlob \/ ReplanStep \/ SealReadiness \/ EnterRead \/ EnterWrite
         \/ ScriptDies
BY DEF Next, WorkerStep, LoadPlan, Crash, Stop, BindReadiness, RefuseReadiness, EnterLoop,
   ExitReplanned, RefuseState, Resume, ExitDrained, ReadForClaim, WriteClaim, CheckLayer,
   RefuseLayer, WriteLayer, SealLayer, RefuseReadBack, ReadForComplete, ClaimVanished,
   WriteComplete, RecoverLoad, RecoverStep, RecoverRead, Quarantine, WriteRecovery,
   NothingToRecover, RecoverCrash, RecoverEnd, inputs, operator, vars

LEMMA NextScripts == InOrder /\ ChainInv /\ [Next]_vars => Scripts'
<1> SUFFICES ASSUME InOrder, ChainInv, [Next]_vars PROVE Scripts'
  OBVIOUS
<1>0. TypeOK /\ Scripts /\ Heads
  BY DEF ChainInv
<1>1. CASE UNCHANGED <<readiness, allocDisk, planDisk, opc, omem, todo>>
  <2>1. \/ UNCHANGED files
        \/ \E s, t \in CampaignState : Advance(s, t)
        \/ ReplanMove \/ ReplanWritePlan \/ ReplanWriteState \/ EnterWrite
    BY FileChanges
  <2>2. ASSUME NEW s \in CampaignState, NEW t \in CampaignState, Advance(s, t)
        PROVE  \A k \in {0, 1} : k \in DOMAIN files' <=> k \in DOMAIN files
    <3>1. t.seq \in Nat /\ t.seq >= 2 /\ DOMAIN files' = DOMAIN files \union {t.seq}
      BY <1>0, <2>2, AdvanceFree
    <3>2. QED
      BY <3>1
  <2>3. ~ReplanWritePlan /\ ~ReplanWriteState /\ ~EnterWrite
    BY <1>1 DEF ReplanWritePlan, ReplanWriteState, EnterWrite
  <2>4. CASE ReplanMove
    BY <1>0, <1>1, <2>4, FileMoved DEF Scripts
  <2>5. CASE ~ReplanMove
    <3>1. \A k \in {0, 1} : k \in DOMAIN files' <=> k \in DOMAIN files
      BY <2>1, <2>2, <2>3, <2>5
    <3>2. QED
      BY <1>0, <1>1, <3>1 DEF Scripts
  <2>6. QED
    BY <2>4, <2>5
<1>2. CASE Probe
  BY <1>0, <1>2 DEF Probe, Idle, Untouched, operator, Scripts
<1>3. CASE ReplanGlob
  BY <1>0, <1>3 DEF ReplanGlob, inputs, Scripts
<1>4. CASE ReplanMove
  BY <1>0, <1>4, FileMoved DEF Scripts, inputs
<1>5. CASE ReplanWritePlan
  BY <1>0, <1>5 DEF ReplanWritePlan, Scripts
<1>6. CASE ReplanWriteState
  BY <1>0, <1>6 DEF ReplanWriteState, Scripts, inputs
<1>7. CASE SealReadiness
  BY <1>0, <1>7 DEF SealReadiness, Idle, operator, Scripts
<1>8. CASE EnterRead
  <2>1. /\ readiness \in Readiness /\ readiness.plan = planDisk
        /\ readiness.alloc = planDisk
    BY <1>0, <1>8 DEF EnterRead, TypeOK, Scripts
  <2>2. readiness = [plan |-> planDisk, alloc |-> planDisk]
    BY <2>1 DEF Readiness
  <2>3. files[0] = InitialState(planDisk) /\ 0 \in DOMAIN files
    BY <1>0, <1>8 DEF Heads, EnterRead
  <2>4. omem' = Entry(planDisk)
    BY <1>8, <2>2, <2>3 DEF EnterRead, Entry
  <2>5. QED
    BY <1>0, <1>8, <2>3, <2>4 DEF EnterRead, inputs, Scripts
<1>9. CASE EnterWrite
  BY <1>0, <1>9 DEF EnterWrite, inputs, Scripts
<1>10. CASE ScriptDies
  BY <1>0, <1>10 DEF ScriptDies, inputs, Scripts
<1>11. QED
  BY <1>1, <1>2, <1>3, <1>4, <1>5, <1>6, <1>7, <1>8, <1>9, <1>10, ScriptSteps
  DEF ReplanStep

(* A process moves by its own steps; those of others leave its flock.      *)
LEMMA OwnSteps ==
  ASSUME TypeOK, [Next]_vars, NEW p \in Procs
  PROVE  \/ LoadPlan(p) \/ WorkerStep(p) \/ Crash(p)
         \/ /\ pc'[p] = pc[p] /\ claim'[p] = claim[p] /\ mem'[p] = mem[p]
            /\ bound'[p] = bound[p]
            /\ lock = p => lock' = p
<1> DEFINE Same == /\ pc'[p] = pc[p] /\ claim'[p] = claim[p] /\ mem'[p] = mem[p]
                   /\ bound'[p] = bound[p]
                   /\ lock = p => lock' = p
<1>0. /\ p # Recoverer /\ p # Free
      /\ pc \in [Procs -> PC] /\ bound \in [Procs -> 0..MaxPlan]
      /\ claim \in [Procs -> Claim \union {NoClaim}]
      /\ mem \in [Procs -> CampaignState \union {NoClaim}]
  BY DEF TypeOK
<1>1. ASSUME NEW q \in Procs, q # p, LoadPlan(q) \/ WorkerStep(q) \/ Crash(q)
      PROVE  Same
  BY <1>0, <1>1 DEF WorkerStep, LoadPlan, Crash, Stop, BindReadiness, RefuseReadiness,
   EnterLoop, ExitReplanned, RefuseState, Resume, ExitDrained, ReadForClaim, WriteClaim,
   CheckLayer, RefuseLayer, WriteLayer, SealLayer, RefuseReadBack, ReadForComplete,
   ClaimVanished, WriteComplete, Go, Unlock
<1>2. CASE (\E w \in Workers : RecoverLoad(w)) \/ RecoverStep \/ RecoverCrash
  BY <1>0, <1>2 DEF RecoverLoad, RecoverStep, RecoverRead, Quarantine, WriteRecovery,
   NothingToRecover, RecoverCrash, RecoverEnd, Unlock, worker
<1>3. CASE UNCHANGED vars
  BY <1>3 DEF vars, worker
<1>4. CASE Probe \/ ReplanGlob \/ ReplanStep \/ SealReadiness \/ EnterRead \/ EnterWrite
           \/ ScriptDies
  BY <1>4 DEF Probe, ReplanGlob, ReplanStep, ReplanMove, ReplanWritePlan, ReplanWriteState,
   SealReadiness, EnterRead, EnterWrite, ScriptDies, Untouched, worker
<1>5. QED
  BY <1>1, <1>2, <1>3, <1>4 DEF Next

LEMMA RecoverySteps ==
  ASSUME TypeOK, [Next]_vars
  PROVE  \/ \E w \in Workers : RecoverLoad(w)
         \/ RecoverRead \/ Quarantine
         \/ /\ WriteRecovery \/ NothingToRecover \/ RecoverCrash
            /\ rpc' = "idle"
         \/ /\ UNCHANGED <<rpc, rplan, rworker, rmem>>
            /\ lock = Recoverer => lock' = Recoverer
<1> DEFINE Same == /\ UNCHANGED <<rpc, rplan, rworker, rmem>>
                   /\ lock = Recoverer => lock' = Recoverer
<1>1. ASSUME NEW q \in Procs, LoadPlan(q) \/ WorkerStep(q) \/ Crash(q)
      PROVE  Same
  BY <1>1 DEF WorkerStep, LoadPlan, Crash, Stop, BindReadiness, RefuseReadiness,
   EnterLoop, ExitReplanned, RefuseState, Resume, ExitDrained, ReadForClaim, WriteClaim,
   CheckLayer, RefuseLayer, WriteLayer, SealLayer, RefuseReadBack, ReadForComplete,
   ClaimVanished, WriteComplete, Go, Unlock, recovery
<1>2. CASE UNCHANGED vars
  BY <1>2 DEF vars, recovery
<1>3. CASE Probe \/ ReplanGlob \/ ReplanStep \/ SealReadiness \/ EnterRead \/ EnterWrite
           \/ ScriptDies
  BY <1>3 DEF Probe, ReplanGlob, ReplanStep, ReplanMove, ReplanWritePlan, ReplanWriteState,
   SealReadiness, EnterRead, EnterWrite, ScriptDies, Untouched, recovery
<1>4. CASE WriteRecovery \/ NothingToRecover \/ RecoverCrash
  BY <1>4 DEF WriteRecovery, NothingToRecover, RecoverCrash, RecoverEnd
<1>5. QED
  BY <1>1, <1>2, <1>3, <1>4 DEF Next, RecoverStep

(* Who holds a state is not the one who writes a file. *)
LEMMA OneWriter ==
  ASSUME ChainInv, [Next]_vars
  PROVE  /\ \A p \in Procs : lock = p /\ lock' = p =>
              \/ UNCHANGED <<files, planDisk>>
              \/ ReplanMove \/ ReplanWritePlan \/ ReplanWriteState \/ EnterWrite
         /\ lock = Recoverer /\ lock' = Recoverer =>
              \/ UNCHANGED <<files, planDisk>>
              \/ ReplanMove \/ ReplanWritePlan \/ ReplanWriteState \/ EnterWrite
<1>1. \A q \in Procs : q # Free
  OBVIOUS
<1>2. ASSUME NEW q \in Procs, WriteClaim(q) \/ WriteComplete(q)
      PROVE  lock = q /\ lock' = Free
  BY <1>2 DEF ChainInv, Locked, WriteClaim, WriteComplete, Unlock
<1>3. ASSUME WriteRecovery PROVE lock = Recoverer /\ lock' = Free
  BY <1>3 DEF ChainInv, Locked, RMem, WriteRecovery, RecoverEnd, Unlock
<1>4. QED
  BY <1>1, <1>2, <1>3, FileSteps

LockedAt(p) ==
  /\ pc[p] \in {"locked", "claiming", "recording"} => lock = p
  /\ Mem(p) => mem[p] \in CampaignState
  /\ pc[p] = "claiming" => mem[p].pending # <<>> /\ mem[p].active[WorkerOf[p]] = NoClaim
  /\ pc[p] = "recording" => mem[p].active[WorkerOf[p]] = claim[p]
  /\ pc[p] \in Encoding => claim[p] \in Claim

LEMMA NextLockedAt ==
  ASSUME ChainInv, [Next]_vars, NEW p \in Procs
  PROVE  LockedAt(p)'
<1> USE DEF Go, Mem, Encoding, LockedAt
<1>0. /\ TypeOK /\ LockedAt(p) /\ p # Recoverer /\ p # Free
      /\ pc \in [Procs -> PC]
      /\ claim \in [Procs -> Claim \union {NoClaim}]
      /\ mem \in [Procs -> CampaignState \union {NoClaim}]
  BY DEF ChainInv, Locked, TypeOK
<1>1. CASE \/ Crash(p) \/ RefuseReadiness(p) \/ ExitReplanned(p) \/ RefuseState(p)
           \/ ExitDrained(p) \/ RefuseLayer(p) \/ RefuseReadBack(p) \/ ClaimVanished(p)
  BY <1>0, <1>1 DEF Crash, RefuseReadiness, ExitReplanned, RefuseState,
     ExitDrained, RefuseLayer, RefuseReadBack, ClaimVanished, Stop
<1>2. CASE LoadPlan(p) \/ BindReadiness(p) \/ EnterLoop(p)
  BY <1>0, <1>2 DEF LoadPlan, BindReadiness, EnterLoop
<1>3. CASE Resume(p)
  BY <1>0, <1>3, NewestRead DEF Resume, InEncoding
<1>4. CASE ReadForClaim(p)
  <2>1. HasState(bound[p]) /\ pc[p] = "locked"
    BY <1>4 DEF ReadForClaim, InEncoding
  <2>2. Newest(p) \in CampaignState
    BY <2>1, NewestRead
  <2>3. mem'[p] = Newest(p) /\ pc'[p] = "claiming" /\ lock' = lock
    BY <1>0, <1>4 DEF ReadForClaim
  <2>4. Newest(p).pending # <<>> /\ Newest(p).active[WorkerOf[p]] = NoClaim
    BY <1>4 DEF ReadForClaim, Mine
  <2>5. QED
    BY <1>0, <2>1, <2>2, <2>3, <2>4
<1>5. CASE WriteClaim(p)
  BY <1>0, <1>5, ClaimAdvances DEF WriteClaim
<1>6. CASE CheckLayer(p) \/ WriteLayer(p) \/ SealLayer(p)
  BY <1>0, <1>6 DEF CheckLayer, WriteLayer, SealLayer
<1>7. CASE ReadForComplete(p)
  <2>1. HasState(bound[p]) /\ pc[p] = "sealed"
    BY <1>7 DEF ReadForComplete, StillClaimed
  <2>2. Newest(p) \in CampaignState
    BY <2>1, NewestRead
  <2>3. /\ mem'[p] = Newest(p) /\ pc'[p] = "recording" /\ lock' = p
        /\ claim'[p] = claim[p]
    BY <1>0, <1>7 DEF ReadForComplete
  <2>4. Newest(p).active[WorkerOf[p]] = claim[p]
    BY <1>7 DEF ReadForComplete, StillClaimed, Mine
  <2>5. QED
    BY <1>0, <2>1, <2>2, <2>3, <2>4
<1>8. CASE WriteComplete(p)
  BY <1>0, <1>8 DEF WriteComplete
<1>9. CASE /\ pc'[p] = pc[p] /\ claim'[p] = claim[p] /\ mem'[p] = mem[p]
           /\ lock = p => lock' = p
  BY <1>0, <1>9
<1>10. QED
  BY <1>0, <1>1, <1>2, <1>3, <1>4, <1>5, <1>6, <1>7, <1>8, <1>9, OwnSteps DEF WorkerStep

LEMMA NextLocked == ChainInv /\ [Next]_vars => Locked'
<1> SUFFICES ASSUME ChainInv, [Next]_vars PROVE Locked'
  OBVIOUS
<1>0. /\ TypeOK
      /\ rpc # "idle" => rworker \in Workers
      /\ RMem => lock = Recoverer /\ rmem \in CampaignState /\ rmem.active[rworker] # NoClaim
  BY DEF ChainInv, Locked
<1>1. \A p \in Procs : LockedAt(p)'
  BY NextLockedAt
<1>2. /\ rpc' # "idle" => rworker' \in Workers
      /\ RMem' => /\ lock' = Recoverer /\ rmem' \in CampaignState
                  /\ rmem'.active[rworker'] # NoClaim
  <2>1. CASE \E w \in Workers : RecoverLoad(w)
    BY <2>1 DEF RecoverLoad, RMem
  <2>2. CASE RecoverRead
    <3>1. HasTarget /\ rpc = "loaded"
      BY <2>2 DEF RecoverRead
    <3>2. NewestState(rplan) \in CampaignState
      BY <3>1, RecoveredRead
    <3>3. QED
      BY <1>0, <2>2, <3>1, <3>2 DEF RecoverRead, HasTarget, Target, RMem
  <2>3. CASE Quarantine
    BY <1>0, <2>3 DEF Quarantine, RMem
  <2>4. CASE rpc' = "idle"
    BY <2>4 DEF RMem
  <2>5. CASE /\ UNCHANGED <<rpc, rplan, rworker, rmem>>
             /\ lock = Recoverer => lock' = Recoverer
    BY <1>0, <2>5 DEF RMem
  <2>6. QED
    BY <1>0, <2>1, <2>2, <2>3, <2>4, <2>5, RecoverySteps
<1>3. QED
  BY <1>1, <1>2 DEF Locked, LockedAt

LEMMA NextAllHeld == ChainInv /\ [Next]_vars => AllHeld'
<1> SUFFICES ASSUME ChainInv, [Next]_vars PROVE AllHeld'
  OBVIOUS
<1>0. TypeOK /\ AllHeld
  BY DEF ChainInv
<1>1. ASSUME NEW p \in Procs, Mem(p)' PROVE Held(mem[p])'
  <2>0. /\ pc \in [Procs -> PC]
        /\ mem \in [Procs -> CampaignState \union {NoClaim}]
    BY <1>0 DEF TypeOK
  <2>1. CASE ReadForClaim(p) \/ ReadForComplete(p)
    <3>1. /\ HasState(bound[p]) /\ mem'[p] = Newest(p)
          /\ UNCHANGED <<files, inputs>>
          /\ \/ Newest(p).phase = "k35_main_encoding"
             \/ Newest(p).active[WorkerOf[p]] # NoClaim
      BY <2>0, <2>1 DEF ReadForClaim, InEncoding, ReadForComplete, StillClaimed, Mine,
         ChainInv, Locked, Encoding
    <3>2. Held(Newest(p))
      BY <3>1, HoldNewest DEF Newest
    <3>3. QED
      BY <3>1, <3>2 DEF Held, Unstarted, inputs
  <2>2. CASE Mem(p) /\ mem'[p] = mem[p] /\ (lock = p => lock' = p)
    <3>1. lock = p /\ lock' = p /\ mem[p] \in CampaignState /\ Held(mem[p])
      BY <1>0, <2>2 DEF ChainInv, Locked, AllHeld, Mem
    <3>2. PICK s \in CampaignState : s = mem[p]
      BY <3>1
    <3>3. Held(s)'
      BY <3>1, <3>2, OneWriter, HeldStays
    <3>4. QED
      BY <2>2, <3>2, <3>3 DEF Held
  <2>3. QED
    <3>1. CASE LoadPlan(p) \/ WorkerStep(p) \/ Crash(p)
      BY <2>0, <2>1, <3>1, <1>1 DEF WorkerStep, LoadPlan, Crash, Stop, BindReadiness,
       RefuseReadiness, EnterLoop, ExitReplanned, RefuseState, Resume, ExitDrained, WriteClaim,
       CheckLayer, RefuseLayer, WriteLayer, SealLayer, RefuseReadBack, ClaimVanished,
       WriteComplete, Go, Mem, Stopped
    <3>2. QED
      BY <1>0, <1>1, <2>2, <3>1, OwnSteps DEF Mem
<1>2. ASSUME RMem' PROVE Held(rmem)'
  <2>1. CASE RecoverRead
    <3>1. /\ HasTarget /\ rpc = "loaded" /\ rmem' = NewestState(rplan)
          /\ UNCHANGED <<files, inputs>>
      BY <2>1 DEF RecoverRead
    <3>2. Held(NewestState(rplan))
      BY <3>1, RecoveredRead
    <3>3. QED
      BY <3>1, <3>2 DEF Held, Unstarted, inputs
  <2>2. CASE RMem /\ rmem' = rmem /\ (lock = Recoverer => lock' = Recoverer)
    <3>1. lock = Recoverer /\ lock' = Recoverer /\ rmem \in CampaignState /\ Held(rmem)
      BY <1>0, <2>2 DEF ChainInv, Locked, AllHeld
    <3>2. PICK s \in CampaignState : s = rmem
      BY <3>1
    <3>3. Held(s)'
      BY <3>1, <3>2, OneWriter, HeldStays
    <3>4. QED
      BY <2>2, <3>2, <3>3 DEF Held
  <2>3. CASE Quarantine
    BY <2>2, <2>3 DEF Quarantine, RMem
  <2>4. QED
    BY <1>0, <1>2, <2>1, <2>2, <2>3, RecoverySteps DEF RecoverLoad, RMem
<1>3. QED
  BY <1>1, <1>2 DEF AllHeld

LEMMA InitChainInv == Init => ChainInv
<1> SUFFICES ASSUME Init PROVE ChainInv
  OBVIOUS
<1>0. /\ DOMAIN files = {0} /\ files[0] = InitialState(0) /\ planDisk = 0 /\ allocDisk = 0
      /\ readiness = NoClaim /\ pc = [p \in Procs |-> "down"] /\ rpc = "idle"
      /\ opc = "idle"
  BY DEF Init
<1>1. TypeOK
  BY <1>0, EntryType DEF Init, TypeOK, PC, Stopped
<1>2. Directory
  <2>1. ASSUME NEW S \in SUBSET {0}, S # {} PROVE HasNewest(S)
    <3>1. S = {0}
      BY <2>1
    <3>2. QED
      BY <3>1 DEF HasNewest
  <2>2. QED
    BY <1>0, <2>1, EntryType DEF Directory
<1>3. Locked /\ AllHeld
  BY <1>0 DEF Locked, AllHeld, Mem, RMem, Encoding
<1>4. Scripts /\ Heads /\ NotStarted
  BY <1>0 DEF Scripts, Heads, NotStarted, Unstarted
<1>5. Layered /\ Linked
  BY <1>0 DEF Layered, Linked, Chain
<1>6. QED
  BY <1>1, <1>2, <1>3, <1>4, <1>5 DEF ChainInv

LEMMA NextChainInv == InOrder /\ ChainInv /\ [Next]_vars => ChainInv'
BY NextTypeOK, NextDirectory, NextLocked, NextScripts, NextHeads, NextNotStarted,
   NextLayered, NextLinked, NextAllHeld DEF ChainInv

-----------------------------------------------------------------------------
(* With the workers stopped for a re-plan there is one plan at a time: the *)
(* newest state of plan.json's plan is the newest of all files, processes  *)
(* are bound to it, and what they do to layers/ is what they do to it.     *)

Live(p) == pc[p] \notin Stopped
Working(p) == pc[p] \in Encoding

OnePlan ==
  /\ Replanning => (\A p \in Procs : ~Live(p)) /\ rpc = "idle"
  /\ opc = "replan" => todo = DOMAIN files
  /\ \A k \in DOMAIN files : files[k].plan = planDisk
  /\ \A p \in Procs : Live(p) => bound[p] = planDisk
  /\ rpc # "idle" =>
       /\ rplan = planDisk
       /\ \A p \in Procs : WorkerOf[p] = rworker => ~Live(p)

InForce == NewestState(planDisk)

(* Who holds a state holds the newest; who encodes owns its layer in it,   *)
(* and has read its own artifacts back when it is sealed.                  *)
Owners ==
  /\ \A p \in Procs : Mem(p) => HasState(planDisk) /\ mem[p] = InForce
  /\ RMem => HasState(planDisk) /\ rmem = InForce
  /\ \A p \in Procs :
       Working(p) => HasState(planDisk) /\ Owns(InForce, WorkerOf[p], claim[p])
  /\ \A p \in Procs :
       pc[p] \in {"sealed", "recording"} => layers[claim[p].layer] = claim[p]

Work ==
  HasState(planDisk) =>
    /\ CensusOf(InForce)
    /\ \A l \in Layers :
         LET row == InForce.completed[l]
         IN  row # NoClaim => layers[l] = row.claim /\ row.receipt = row.claim

QuietInv == OnePlan /\ Owners /\ Work

LEMMA MinIn ==
  ASSUME NEW S \in SUBSET Nat, S # {}
  PROVE  Min(S) \in S /\ \A k \in S : Min(S) <= k
<1>1. PICK n \in S : \A k \in S : <<k, n>> \notin OpToRel(<, Nat)
  BY NatLessThanWellFounded, WFMin, Zenon
<1>2. \A k \in S : ~(k < n)
  BY <1>1, Zenon DEF OpToRel
<1>3. \A k \in S : n <= k
  BY <1>2
<1>4. QED
  BY <1>3 DEF Min

LEMMA MaxIs ==
  ASSUME NEW S \in SUBSET Nat, NEW m \in S, \A k \in S : k <= m
  PROVE  Max(S) = m
<1>1. \A k \in S : m >= k
  OBVIOUS
<1>2. Max(S) \in S /\ \A k \in S : Max(S) >= k
  BY <1>1 DEF Max
<1>3. Max(S) \in Nat /\ m \in Nat /\ Max(S) >= m /\ Max(S) <= m
  BY <1>2
<1>4. QED
  BY <1>3

(* The state in force is the last file. *)
LEMMA LastFile ==
  ASSUME ChainInv, OnePlan, HasState(planDisk)
  PROVE  \E m \in DOMAIN files :
           /\ m \in Nat /\ InForce = files[m] /\ files[m].seq = m
           /\ files[m] \in CampaignState /\ files[m].plan = planDisk
           /\ \A k \in DOMAIN files : k <= m
<1> DEFINE m == Max(Chain(planDisk))
<1>1. /\ m \in DOMAIN files /\ m \in Nat
      /\ NewestState(planDisk) = files[m]
      /\ files[m] \in CampaignState /\ files[m].seq = m /\ files[m].plan = planDisk
      /\ \A k \in DOMAIN files : files[k].plan = planDisk => k <= m
  BY NewestIn DEF ChainInv
<1>2. QED
  BY <1>1 DEF OnePlan, InForce

(* And so it is after a step. *)
LEMMA LastFileNext ==
  ASSUME OnePlan', DOMAIN files' \in SUBSET Nat, NEW m \in DOMAIN files',
         \A k \in DOMAIN files' : k <= m
  PROVE  HasState(planDisk)' /\ InForce' = files'[m]
<1> DEFINE C == {k \in DOMAIN files' : files'[k].plan = planDisk'}
<1>1. C = DOMAIN files'
  BY DEF OnePlan
<1>2. Max(C) = m
  BY <1>1, MaxIs
<1>3. InForce' = files'[Max(C)]
  BY DEF InForce, NewestState, Chain
<1>4. HasState(planDisk)'
  BY <1>1 DEF HasState, Chain
<1>5. QED
  BY <1>2, <1>3, <1>4

LEMMA StateInForce ==
  ASSUME ChainInv, OnePlan, HasState(planDisk)
  PROVE  /\ InForce \in CampaignState
         /\ InForce.active \in [Workers -> Claim \union {NoClaim}]
         /\ InForce.completed \in [Layers -> Completion \union {NoClaim}]
BY LastFile DEF CampaignState

(* Nobody but the operator moves while the chain is restarted. *)
LEMMA StoppedSteps ==
  ASSUME quiet, ChainInv, OnePlan, [Next]_vars, Replanning
  PROVE  /\ \A p \in Procs : ~(LoadPlan(p) \/ WorkerStep(p) \/ Crash(p))
         /\ ~(\E w \in Workers : RecoverLoad(w)) /\ ~RecoverStep /\ ~RecoverCrash
<1>1. (\A p \in Procs : pc[p] \in Stopped) /\ rpc = "idle"
  BY DEF OnePlan, Live
<1>2. ASSUME NEW p \in Procs PROVE ~(LoadPlan(p) \/ WorkerStep(p) \/ Crash(p))
  <2>1. pc[p] \in {"down", "failed", "killed"}
    BY <1>1 DEF Stopped
  <2>2. ~WorkerStep(p)
    BY <2>1 DEF WorkerStep, BindReadiness, RefuseReadiness, EnterLoop,
     ExitReplanned, RefuseState, Resume, InEncoding, ExitDrained, ReadForClaim, WriteClaim,
     CheckLayer, RefuseLayer, WriteLayer, SealLayer, RefuseReadBack, ReadForComplete,
     ClaimVanished, WriteComplete
  <2>3. QED
    BY <1>1, <2>2 DEF LoadPlan, Crash, BesideReplan
<1>3. QED
  BY <1>1, <1>2 DEF RecoverLoad, BesideReplan, RecoverStep, RecoverRead, Quarantine,
     WriteRecovery, NothingToRecover, RecoverCrash

LEMMA NextOneFilePlan ==
  ASSUME quiet, ChainInv, OnePlan, Owners, [Next]_vars, NEW k \in DOMAIN files'
  PROVE  files'[k].plan = planDisk'
<1>0. TypeOK /\ \A j \in DOMAIN files : files[j].plan = planDisk
  BY DEF ChainInv, OnePlan
<1>1. ASSUME NEW s \in CampaignState, NEW t \in CampaignState, Advance(s, t),
             HasState(planDisk), s = InForce
      PROVE  files'[k].plan = planDisk'
  <2>1. s.plan = planDisk
    BY <1>1, LastFile
  <2>2. t.plan = planDisk /\ planDisk' = planDisk
    BY <1>1, <2>1 DEF Advance, inputs
  <2>3. /\ DOMAIN files' = DOMAIN files \union {t.seq} /\ files'[t.seq] = t
        /\ \A j \in DOMAIN files : j # t.seq => files'[j] = files[j]
    BY <1>0, <1>1, AdvanceFree
  <2>4. QED
    BY <1>0, <2>2, <2>3
<1>2. ASSUME NEW p \in Procs, WriteClaim(p) PROVE files'[k].plan = planDisk'
  <2>1. HasState(planDisk) /\ mem[p] = InForce
    BY <1>2 DEF Owners, Mem, WriteClaim
  <2>2. QED
    BY <1>1, <1>2, <2>1, ClaimAdvances
<1>3. ASSUME NEW p \in Procs, WriteComplete(p) PROVE files'[k].plan = planDisk'
  <2>1. HasState(planDisk) /\ mem[p] = InForce
    BY <1>3 DEF Owners, Mem, WriteComplete
  <2>2. QED
    BY <1>1, <1>3, <2>1, CompleteAdvances
<1>4. CASE WriteRecovery
  <2>1. HasState(planDisk) /\ rmem = InForce
    BY <1>4 DEF Owners, RMem, WriteRecovery
  <2>2. QED
    BY <1>1, <1>4, <2>1, RecoveryAdvances
<1>5. CASE ReplanMove
  BY <1>0, <1>5, FileMoved DEF inputs
<1>6. CASE ReplanWritePlan
  BY <1>6 DEF ReplanWritePlan, OnePlan
<1>7. CASE ReplanWriteState
  BY <1>0, <1>7, StateWritten, EntryType DEF ReplanWriteState, inputs
<1>8. CASE EnterWrite
  BY <1>0, <1>8, EntryWritten, EntryType DEF EnterWrite, inputs
<1>9. QED
  BY <1>0, <1>2, <1>3, <1>4, <1>5, <1>6, <1>7, <1>8, FileSteps

LEMMA NextOnePlan ==
  ASSUME quiet, ChainInv, OnePlan, Owners, [Next]_vars
  PROVE  OnePlan'
<1>0. /\ TypeOK
      /\ pc \in [Procs -> PC] /\ bound \in [Procs -> 0..MaxPlan]
      /\ \A k \in DOMAIN files' : files'[k].plan = planDisk'
  BY NextOneFilePlan DEF ChainInv, TypeOK
<1>1. CASE UNCHANGED vars
  BY <1>0, <1>1 DEF OnePlan, Replanning, Live, vars, inputs, worker, recovery, operator
<1>2. ASSUME NEW p \in Procs, LoadPlan(p) \/ WorkerStep(p) \/ Crash(p)
      PROVE  OnePlan'
  <2>1. ~Replanning
    BY <1>2, StoppedSteps
  <2>2. /\ planDisk' = planDisk /\ opc' = opc
        /\ UNCHANGED <<rpc, rplan, rworker>>
        /\ \A q \in Procs : q # p => pc'[q] = pc[q] /\ bound'[q] = bound[q]
    BY <1>0, <1>2 DEF WorkerStep, LoadPlan, Crash, Stop, BindReadiness, RefuseReadiness,
     EnterLoop, ExitReplanned, RefuseState, Resume, ExitDrained, ReadForClaim, WriteClaim,
     CheckLayer, RefuseLayer, WriteLayer, SealLayer, RefuseReadBack, ReadForComplete,
     ClaimVanished, WriteComplete, Go, inputs, operator, recovery
  <2>3. CASE LoadPlan(p)
    <3>1. pc'[p] = "starting" /\ bound'[p] = planDisk /\ (rpc = "idle" \/ rworker # WorkerOf[p])
      BY <1>0, <2>3 DEF LoadPlan, Go
    <3>2. QED
      BY <1>0, <2>1, <2>2, <3>1 DEF OnePlan, Replanning, Live
  <2>4. CASE WorkerStep(p) \/ Crash(p)
    <3>1. /\ Live(p)
          /\ pc'[p] \in Stopped \/ bound'[p] = bound[p]
      BY <1>0, <2>4 DEF WorkerStep, Crash, Stop, BindReadiness, RefuseReadiness,
       EnterLoop, ExitReplanned, RefuseState, Resume, InEncoding, ExitDrained, ReadForClaim,
       WriteClaim, CheckLayer, RefuseLayer, WriteLayer, SealLayer, RefuseReadBack,
       ReadForComplete, ClaimVanished, WriteComplete, Go, Live, Stopped
    <3>2. QED
      BY <1>0, <2>1, <2>2, <3>1 DEF OnePlan, Replanning, Live
  <2>5. QED
    BY <1>2, <2>3, <2>4
<1>3. CASE (\E w \in Workers : RecoverLoad(w)) \/ RecoverStep \/ RecoverCrash
  <2>1. ~Replanning
    BY <1>3, StoppedSteps
  <2>2. planDisk' = planDisk /\ opc' = opc /\ UNCHANGED <<pc, bound>>
    BY <1>3 DEF RecoverLoad, RecoverStep, RecoverRead, Quarantine, WriteRecovery,
     NothingToRecover, RecoverCrash, RecoverEnd, inputs, operator, worker
  <2>3. rpc' # "idle" =>
          /\ rplan' = planDisk
          /\ \A q \in Procs : WorkerOf[q] = rworker' => ~Live(q)
    BY <1>3 DEF RecoverLoad, Alive, RecoverStep, RecoverRead, Quarantine, WriteRecovery,
     NothingToRecover, RecoverCrash, RecoverEnd, OnePlan, Live
  <2>4. QED
    BY <1>0, <2>1, <2>2, <2>3 DEF OnePlan, Replanning, Live
<1>4. CASE Probe \/ SealReadiness \/ EnterRead \/ EnterWrite \/ ScriptDies \/ ReplanWriteState
  <2>1. planDisk' = planDisk /\ opc' \in {"idle", "enter"} /\ UNCHANGED <<worker, recovery>>
    BY <1>4 DEF Probe, SealReadiness, EnterRead, EnterWrite, ScriptDies, ReplanWriteState,
     Idle, Untouched, inputs, operator
  <2>2. QED
    BY <1>0, <2>1 DEF OnePlan, Replanning, Live, worker, recovery
<1>5. CASE ReplanGlob
  BY <1>0, <1>5 DEF ReplanGlob, Untouched, OnePlan, Replanning, Live, worker, recovery, inputs
<1>6. CASE ReplanMove \/ ReplanWritePlan
  <2>1. /\ Replanning /\ UNCHANGED <<worker, recovery>>
        /\ opc' = "replan" => todo' = DOMAIN files'
    BY <1>6, FileMoved DEF ReplanMove, ReplanWritePlan, Untouched, Replanning, OnePlan
  <2>2. QED
    BY <1>0, <2>1 DEF OnePlan, Live, worker, recovery
<1>7. QED
  BY <1>1, <1>2, <1>3, <1>4, <1>5, <1>6 DEF Next, ReplanStep

(* How a step changes the state in force. *)
Kept == HasState(planDisk) /\ InForce' = InForce

LEMMA WrittenInForce ==
  ASSUME ChainInv, OnePlan, OnePlan', HasState(planDisk), NEW t \in CampaignState,
         Advance(InForce, t)
  PROVE  HasState(planDisk)' /\ InForce' = t
<1> DEFINE n == t.seq
<1>1. /\ TypeOK /\ InForce \in CampaignState /\ InForce.plan = planDisk
      /\ DOMAIN files \in SUBSET Nat /\ planDisk \in Nat
      /\ \A k \in DOMAIN files : files[k].plan = planDisk
  BY LastFile, DiskTypes DEF ChainInv, OnePlan
<1>2. /\ n \in Nat /\ t.plan = planDisk
      /\ DOMAIN files' = DOMAIN files \union {n} /\ files'[n] = t
      /\ \A k \in DOMAIN files : files[k].plan >= t.plan => k < n
  BY <1>1, AdvanceFree DEF Advance
<1>3. \A k \in DOMAIN files' : k <= n
  BY <1>1, <1>2
<1>4. n \in DOMAIN files' /\ DOMAIN files' \in SUBSET Nat
  BY <1>1, <1>2
<1>5. QED
  BY <1>2, <1>3, <1>4, LastFileNext

LEMMA EnteredInForce ==
  ASSUME ChainInv, OnePlan, OnePlan', EnterWrite
  PROVE  \/ Kept
         \/ /\ HasState(planDisk)
            /\ InForce = InitialState(planDisk) /\ InForce' = Entry(planDisk)
<1>0. /\ DOMAIN files \in SUBSET Nat /\ planDisk \in Nat
      /\ \A k \in DOMAIN files : files[k].plan = planDisk
  BY DiskTypes DEF OnePlan
<1>1. /\ DOMAIN files' = DOMAIN files \union {1} /\ files'[1] = Entry(planDisk)
      /\ \A k \in DOMAIN files : files'[k] = files[k]
      /\ 0 \in DOMAIN files
  BY EntryWritten
<1>2. HasState(planDisk)
  BY <1>0, <1>1 DEF HasState, Chain
<1>3. PICK m \in DOMAIN files : /\ m \in Nat /\ InForce = files[m]
                                /\ \A k \in DOMAIN files : k <= m
  BY <1>2, LastFile
<1>4. CASE m = 0
  <2>1. InForce = InitialState(planDisk)
    BY <1>1, <1>3, <1>4 DEF ChainInv, Heads
  <2>2. DOMAIN files = {0}
    <3>1. \A k \in DOMAIN files : k = 0
      BY <1>0, <1>3, <1>4
    <3>2. QED
      BY <1>1, <3>1
  <2>3. /\ 1 \in DOMAIN files' /\ DOMAIN files' \in SUBSET Nat
        /\ \A k \in DOMAIN files' : k <= 1
    BY <1>1, <2>2
  <2>4. InForce' = files'[1]
    BY <2>3, LastFileNext
  <2>5. QED
    BY <1>1, <1>2, <2>1, <2>4
<1>5. CASE m # 0
  <2>1. /\ m \in DOMAIN files' /\ DOMAIN files' \in SUBSET Nat
        /\ \A k \in DOMAIN files' : k <= m
    BY <1>0, <1>1, <1>3, <1>5
  <2>2. InForce' = files'[m]
    BY <2>1, LastFileNext
  <2>3. QED
    BY <1>1, <1>2, <1>3, <2>2 DEF Kept
<1>6. QED
  BY <1>4, <1>5

LEMMA InForceSteps ==
  ASSUME quiet, ChainInv, OnePlan, OnePlan', Owners, [Next]_vars, HasState(planDisk)'
  PROVE  \/ Kept
         \/ \E p \in Procs :
              /\ WriteClaim(p) /\ HasState(planDisk) /\ mem[p] = InForce
              /\ InForce' = ClaimNextLayer(InForce, WorkerOf[p])
         \/ \E p \in Procs :
              /\ WriteComplete(p) /\ HasState(planDisk) /\ mem[p] = InForce
              /\ InForce' = CompleteLayer(InForce, WorkerOf[p], claim[p])
         \/ /\ WriteRecovery /\ HasState(planDisk) /\ rmem = InForce
            /\ InForce' = RecoverySuccessor(InForce, rworker)
         \/ ReplanWriteState /\ InForce' = InitialState(planDisk)
         \/ /\ EnterWrite /\ HasState(planDisk)
            /\ InForce = InitialState(planDisk) /\ InForce' = Entry(planDisk)
<1>0. /\ TypeOK /\ DOMAIN files \in SUBSET Nat /\ planDisk \in Nat
      /\ \A k \in DOMAIN files : files[k].plan = planDisk
  BY DiskTypes DEF ChainInv, OnePlan
<1>1. CASE UNCHANGED <<files, planDisk>>
  BY <1>1 DEF Kept, HasState, InForce, NewestState, Chain
<1>2. ASSUME NEW p \in Procs, WriteClaim(p)
      PROVE  /\ HasState(planDisk) /\ mem[p] = InForce
             /\ InForce' = ClaimNextLayer(InForce, WorkerOf[p])
  <2>1. HasState(planDisk) /\ mem[p] = InForce
    BY <1>2 DEF Owners, Mem, WriteClaim
  <2>2. QED
    BY <1>2, <2>1, ClaimAdvances, WrittenInForce
<1>3. ASSUME NEW p \in Procs, WriteComplete(p)
      PROVE  /\ HasState(planDisk) /\ mem[p] = InForce
             /\ InForce' = CompleteLayer(InForce, WorkerOf[p], claim[p])
  <2>1. HasState(planDisk) /\ mem[p] = InForce
    BY <1>3 DEF Owners, Mem, WriteComplete
  <2>2. QED
    BY <1>3, <2>1, CompleteAdvances, WrittenInForce
<1>4. ASSUME WriteRecovery
      PROVE  /\ HasState(planDisk) /\ rmem = InForce
             /\ InForce' = RecoverySuccessor(InForce, rworker)
  <2>1. HasState(planDisk) /\ rmem = InForce
    BY <1>4 DEF Owners, RMem, WriteRecovery
  <2>2. QED
    BY <1>4, <2>1, RecoveryAdvances, WrittenInForce
<1>5. ASSUME ReplanMove PROVE Kept
  <2>1. /\ DOMAIN files' = DOMAIN files \ {Min(DOMAIN files)}
        /\ \A k \in DOMAIN files' : files'[k] = files[k]
    BY <1>5, FileMoved DEF OnePlan
  <2>2. PICK j \in DOMAIN files' : TRUE
    BY DEF HasState, Chain
  <2>3. j \in DOMAIN files /\ j # Min(DOMAIN files)
    BY <2>1, <2>2
  <2>4. HasState(planDisk)
    BY <1>0, <2>3 DEF HasState, Chain
  <2>5. PICK m \in DOMAIN files : /\ m \in Nat /\ InForce = files[m]
                                  /\ \A k \in DOMAIN files : k <= m
    BY <2>4, LastFile
  <2>6. m # Min(DOMAIN files)
    <3>1. Min(DOMAIN files) \in DOMAIN files /\ \A k \in DOMAIN files : Min(DOMAIN files) <= k
      BY <1>0, <2>3, MinIn
    <3>2. Min(DOMAIN files) <= j /\ j <= m /\ j \in Nat /\ Min(DOMAIN files) \in Nat
      BY <1>0, <2>3, <2>5, <3>1
    <3>3. QED
      BY <2>3, <2>5, <3>2
  <2>7. /\ m \in DOMAIN files' /\ DOMAIN files' \in SUBSET Nat
        /\ \A k \in DOMAIN files' : k <= m
    BY <1>0, <2>1, <2>5, <2>6
  <2>8. InForce' = files'[m]
    BY <2>7, LastFileNext
  <2>9. QED
    BY <2>1, <2>4, <2>5, <2>7, <2>8 DEF Kept
<1>6. ~ReplanWritePlan
  <2>1. ReplanWritePlan => DOMAIN files' = {}
    BY DEF ReplanWritePlan, OnePlan
  <2>2. QED
    BY <2>1 DEF HasState, Chain
<1>7. ASSUME ReplanWriteState PROVE InForce' = InitialState(planDisk)
  <2>1. DOMAIN files' = {0} /\ files'[0] = InitialState(planDisk)
    BY <1>0, <1>7, StateWritten
  <2>2. 0 \in DOMAIN files' /\ DOMAIN files' \in SUBSET Nat /\ \A k \in DOMAIN files' : k <= 0
    BY <2>1
  <2>3. QED
    BY <2>1, <2>2, LastFileNext
<1>8. QED
  BY <1>1, <1>2, <1>3, <1>4, <1>5, <1>6, <1>7, EnteredInForce, FileSteps

LEMMA SameFiles ==
  ASSUME UNCHANGED <<files, planDisk>>
  PROVE  InForce' = InForce /\ HasState(planDisk)' = HasState(planDisk)
BY DEF HasState, InForce, NewestState, Chain

(* Outside a re-plan the plan in force keeps its states. *)
LEMMA StaysBegun ==
  ASSUME quiet, ChainInv, OnePlan, OnePlan', [Next]_vars, HasState(planDisk), ~Replanning
  PROVE  HasState(planDisk)'
<1>0. TypeOK /\ \A k \in DOMAIN files' : files'[k].plan = planDisk'
  BY DEF ChainInv, OnePlan
<1>1. PICK k \in DOMAIN files : TRUE
  BY DEF HasState, Chain
<1>2. k \in DOMAIN files'
  <2>1. CASE \E s, t \in CampaignState : Advance(s, t)
    BY <1>0, <2>1, AdvanceFree
  <2>2. CASE EnterWrite
    BY <2>2, EntryWritten
  <2>3. QED
    BY <2>1, <2>2, FileChanges DEF Replanning, ReplanMove, ReplanWritePlan, ReplanWriteState
<1>3. QED
  BY <1>0, <1>2 DEF HasState, Chain

(* A state that is held stays the state in force. *)
LEMMA HeldInForce ==
  ASSUME quiet, ChainInv, OnePlan, OnePlan', [Next]_vars, HasState(planDisk), ~Replanning,
         Held(InForce),
         \/ UNCHANGED <<files, planDisk>>
         \/ ReplanMove \/ ReplanWritePlan \/ ReplanWriteState \/ EnterWrite
  PROVE  HasState(planDisk)' /\ InForce' = InForce
<1>1. UNCHANGED <<files, planDisk>> \/ EnterWrite
  BY DEF Replanning, ReplanMove, ReplanWritePlan, ReplanWriteState
<1>2. InForce # InitialState(planDisk)
  BY DiskTypes, EntryType DEF Held
<1>3. QED
  BY <1>1, <1>2, SameFiles, EnteredInForce, StaysBegun DEF Kept

LEMMA NextHolds ==
  ASSUME quiet, ChainInv, OnePlan, OnePlan', Owners, [Next]_vars
  PROVE  /\ \A p \in Procs : Mem(p)' => HasState(planDisk)' /\ mem'[p] = InForce'
         /\ RMem' => HasState(planDisk)' /\ rmem' = InForce'
<1>0. /\ TypeOK /\ pc \in [Procs -> PC]
      /\ mem \in [Procs -> CampaignState \union {NoClaim}]
  BY DEF ChainInv, TypeOK
<1>1. ASSUME NEW p \in Procs, Mem(p)' PROVE HasState(planDisk)' /\ mem'[p] = InForce'
  <2>1. CASE ReadForClaim(p) \/ ReadForComplete(p)
    <3>1. pc[p] \in {"locked", "sealed"}
      BY <2>1 DEF ReadForClaim, InEncoding, ReadForComplete
    <3>2. bound[p] = planDisk
      BY <3>1 DEF OnePlan, Live, Stopped
    <3>3. HasState(bound[p]) /\ mem'[p] = Newest(p) /\ UNCHANGED <<files, planDisk>>
      BY <1>0, <2>1 DEF ReadForClaim, InEncoding, ReadForComplete, StillClaimed, inputs
    <3>4. QED
      BY <3>2, <3>3, SameFiles DEF Newest, InForce
  <2>2. CASE Mem(p) /\ mem'[p] = mem[p] /\ (lock = p => lock' = p)
    <3>1. /\ lock = p /\ lock' = p /\ HasState(planDisk) /\ mem[p] = InForce
          /\ Held(InForce) /\ ~Replanning
      BY <2>2 DEF ChainInv, Locked, AllHeld, Mem, Owners, OnePlan, Live, Stopped
    <3>2. QED
      BY <2>2, <3>1, OneWriter, HeldInForce
  <2>3. CASE LoadPlan(p) \/ WorkerStep(p) \/ Crash(p)
    BY <1>0, <2>1, <2>3, <1>1 DEF WorkerStep, LoadPlan, Crash, Stop, BindReadiness,
     RefuseReadiness, EnterLoop, ExitReplanned, RefuseState, Resume, ExitDrained, WriteClaim,
     CheckLayer, RefuseLayer, WriteLayer, SealLayer, RefuseReadBack, ClaimVanished,
     WriteComplete, Go, Mem, Stopped
  <2>4. QED
    BY <1>0, <1>1, <2>2, <2>3, OwnSteps DEF Mem
<1>2. ASSUME RMem' PROVE HasState(planDisk)' /\ rmem' = InForce'
  <2>1. CASE RecoverRead
    <3>1. rplan = planDisk
      BY <2>1 DEF RecoverRead, OnePlan
    <3>2. HasState(rplan) /\ rmem' = NewestState(rplan) /\ UNCHANGED <<files, planDisk>>
      BY <2>1 DEF RecoverRead, HasTarget, inputs
    <3>3. QED
      BY <3>1, <3>2, SameFiles DEF InForce
  <2>2. CASE RMem /\ rmem' = rmem /\ (lock = Recoverer => lock' = Recoverer)
    <3>1. /\ lock = Recoverer /\ lock' = Recoverer /\ HasState(planDisk) /\ rmem = InForce
          /\ Held(InForce) /\ ~Replanning
      BY <2>2 DEF ChainInv, Locked, AllHeld, RMem, Owners, OnePlan
    <3>2. QED
      BY <2>2, <3>1, OneWriter, HeldInForce
  <2>3. CASE Quarantine
    BY <2>2, <2>3 DEF Quarantine, RMem
  <2>4. QED
    BY <1>0, <1>2, <2>1, <2>2, <2>3, RecoverySteps DEF RecoverLoad, RMem
<1>3. QED
  BY <1>1, <1>2

(* Where a process that encodes comes from. *)
LEMMA WorkingSteps ==
  ASSUME ChainInv, [Next]_vars, NEW p \in Procs, Working(p)'
  PROVE  \/ Resume(p) /\ claim'[p] = Mine(p, Newest(p))
         \/ WriteClaim(p) /\ claim'[p] = NextClaim(mem[p], WorkerOf[p])
         \/ /\ Working(p) /\ claim'[p] = claim[p]
            /\ pc'[p] \in {"sealed", "recording"} =>
                 pc[p] \in {"sealed", "recording"} \/ SealLayer(p)
<1>0. /\ TypeOK /\ pc \in [Procs -> PC] /\ claim \in [Procs -> Claim \union {NoClaim}]
  BY DEF ChainInv, TypeOK
<1>1. CASE LoadPlan(p) \/ WorkerStep(p) \/ Crash(p)
  BY <1>0, <1>1 DEF WorkerStep, LoadPlan, Crash, Stop, BindReadiness, RefuseReadiness,
   EnterLoop, ExitReplanned, RefuseState, Resume, ExitDrained, ReadForClaim, WriteClaim,
   CheckLayer, RefuseLayer, WriteLayer, SealLayer, RefuseReadBack, ReadForComplete,
   ClaimVanished, WriteComplete, Go, Working, Encoding, Stopped
<1>2. CASE pc'[p] = pc[p] /\ claim'[p] = claim[p]
  BY <1>2 DEF Working
<1>3. QED
  BY <1>0, <1>1, <1>2, OwnSteps

LEMMA WorkingFacts ==
  ASSUME ChainInv, OnePlan, Owners, NEW p \in Procs, Working(p)
  PROVE  /\ claim[p] \in Claim /\ claim[p] # NoClaim /\ claim[p].layer \in Layers
         /\ WorkerOf[p] \in Workers /\ ~Replanning
         /\ HasState(planDisk) /\ Owns(InForce, WorkerOf[p], claim[p])
         /\ rpc # "idle" => rworker # WorkerOf[p]
<1>1. claim[p] \in Claim
  BY DEF ChainInv, Locked, Working
<1>2. Live(p)
  BY DEF Working, Live, Stopped, Encoding
<1>3. QED
  BY <1>1, <1>2 DEF Claim, OnePlan, Owners

LEMMA NextOwners ==
  ASSUME quiet, ChainInv, OnePlan, OnePlan', Owners, Work, [Next]_vars,
         NEW p \in Procs, Working(p)'
  PROVE  HasState(planDisk)' /\ Owns(InForce', WorkerOf[p], claim'[p])
<1> DEFINE w == WorkerOf[p]
           c == claim[p]
<1>1. CASE Resume(p) /\ claim'[p] = Mine(p, Newest(p))
  <2>1. pc[p] = "locked" /\ HasState(bound[p]) /\ UNCHANGED <<files, planDisk>>
    BY <1>1 DEF Resume, InEncoding, inputs
  <2>2. bound[p] = planDisk
    BY <2>1 DEF OnePlan, Live, Stopped
  <2>3. QED
    BY <1>1, <2>1, <2>2, SameFiles DEF Newest, Mine, InForce, Owns
<1>2. CASE WriteClaim(p) /\ claim'[p] = NextClaim(mem[p], WorkerOf[p])
  <2>1. HasState(planDisk) /\ mem[p] = InForce
    BY <1>2 DEF Owners, Mem, WriteClaim
  <2>2. HasState(planDisk)' /\ InForce' = ClaimNextLayer(InForce, w)
    BY <1>2, <2>1, ClaimAdvances, WrittenInForce
  <2>3. InForce'.active[w] = NextClaim(InForce, w)
    BY <2>1, <2>2, StateInForce DEF ClaimNextLayer, Successor
  <2>4. QED
    BY <1>2, <2>1, <2>2, <2>3 DEF Owns
<1>3. CASE Working(p) /\ claim'[p] = claim[p]
  <2>1. /\ c \in Claim /\ c # NoClaim /\ c.layer \in Layers /\ w \in Workers
        /\ HasState(planDisk) /\ ~Replanning /\ Owns(InForce, w, c)
        /\ rpc # "idle" => rworker # w
    BY <1>3, WorkingFacts
  <2>2. HasState(planDisk)'
    BY <2>1, StaysBegun
  <2>3. InForce \in CampaignState /\ CensusOf(InForce)
    BY <2>1, StateInForce DEF Work
  <2>4. CASE Kept
    BY <1>3, <2>1, <2>2, <2>4 DEF Kept, Owns, Completed
  <2>5. ASSUME NEW q \in Procs, WriteClaim(q), mem[q] = InForce,
               InForce' = ClaimNextLayer(InForce, WorkerOf[q])
        PROVE  Owns(InForce', w, c)
    <3>1. InForce.active[WorkerOf[q]] = NoClaim
      BY <2>5 DEF ChainInv, Locked, WriteClaim
    <3>2. QED
      BY <2>1, <2>3, <2>5, <3>1, ClaimOwns
  <2>6. ASSUME NEW q \in Procs, WriteComplete(q), mem[q] = InForce,
               InForce' = CompleteLayer(InForce, WorkerOf[q], claim[q])
        PROVE  Owns(InForce', w, c)
    <3>1. InForce.active[WorkerOf[q]] # NoClaim /\ claim[q] \in Claim
      BY <2>6, CompleteAdvances
    <3>2. QED
      BY <2>1, <2>3, <2>6, <3>1, CompleteOwns
  <2>7. ASSUME WriteRecovery, InForce' = RecoverySuccessor(InForce, rworker)
        PROVE  Owns(InForce', w, c)
    <3>1. rworker \in Workers /\ w # rworker
      BY <2>1, <2>7, RecoveryAdvances DEF WriteRecovery
    <3>2. QED
      BY <2>1, <2>3, <2>7, <3>1, RecoveryOwns
  <2>8. ~ReplanWriteState
    BY <2>1 DEF Replanning, ReplanWriteState
  <2>9. InForce # InitialState(planDisk)
    BY <2>1 DEF InitialState, Owns, Completed
  <2>10. QED
    BY <1>3, <2>2, <2>4, <2>5, <2>6, <2>7, <2>8, <2>9, InForceSteps
<1>4. QED
  BY <1>1, <1>2, <1>3, WorkingSteps

LEMMA LayerSteps ==
  ASSUME [Next]_vars
  PROVE  \/ UNCHANGED layers
         \/ \E q \in Procs : WriteLayer(q)
         \/ Quarantine
BY DEF Next, WorkerStep, LoadPlan, Crash, Stop, BindReadiness, RefuseReadiness, EnterLoop,
   ExitReplanned, RefuseState, Resume, ExitDrained, ReadForClaim, WriteClaim, CheckLayer,
   RefuseLayer, SealLayer, RefuseReadBack, ReadForComplete, ClaimVanished,
   WriteComplete, RecoverLoad, RecoverStep, RecoverRead, WriteRecovery,
   NothingToRecover, RecoverCrash, RecoverEnd, Probe, ReplanGlob, ReplanStep, ReplanMove,
   ReplanWritePlan, ReplanWriteState, SealReadiness, EnterRead, EnterWrite, ScriptDies,
   Untouched, vars

(* The layer a recovery quarantines is active: it is not completed, and    *)
(* nobody owns it but the worker that is recovered.                        *)
LEMMA QuarantinedLayer ==
  ASSUME ChainInv, OnePlan, Owners, Work, Quarantine
  PROVE  LET d == InForce.active[rworker]
         IN  /\ HasState(planDisk) /\ d.layer \in Layers /\ ~Completed(InForce, d.layer)
             /\ layers' = [layers EXCEPT ![d.layer] = NoClaim]
             /\ \A p \in Procs : Working(p) => claim[p].layer # d.layer
<1>1. /\ HasState(planDisk) /\ rmem = InForce
      /\ rworker \in Workers /\ InForce.active[rworker] # NoClaim
  BY DEF Quarantine, Owners, RMem, ChainInv, Locked
<1>2. InForce \in CampaignState /\ CensusOf(InForce)
  BY <1>1, StateInForce DEF Work
<1>3. /\ InForce.active[rworker].layer \in Layers
      /\ ~Completed(InForce, InForce.active[rworker].layer)
  BY <1>1, <1>2 DEF CampaignState, Claim, CensusOf, InFlight
<1>4. ASSUME NEW p \in Procs, Working(p)
      PROVE  claim[p].layer # InForce.active[rworker].layer
  <2>1. /\ claim[p] \in Claim /\ WorkerOf[p] \in Workers /\ WorkerOf[p] # rworker
        /\ Owns(InForce, WorkerOf[p], claim[p])
    BY <1>4, WorkingFacts DEF Quarantine
  <2>2. QED
    BY <1>1, <1>2, <2>1, OthersLayer
<1>5. QED
  BY <1>1, <1>3, <1>4 DEF Quarantine

LEMMA NextSealed ==
  ASSUME quiet, ChainInv, OnePlan, Owners, Work, [Next]_vars,
         NEW p \in Procs, pc'[p] \in {"sealed", "recording"}
  PROVE  layers'[claim'[p].layer] = claim'[p]
<1> DEFINE c == claim[p]
<1>0. /\ layers \in [Layers -> Claim \union {NoClaim}] /\ pc \in [Procs -> PC]
      /\ claim \in [Procs -> Claim \union {NoClaim}]
  BY DEF ChainInv, TypeOK
<1>1. /\ Working(p) /\ claim'[p] = claim[p]
      /\ pc[p] \in {"sealed", "recording"} \/ SealLayer(p)
  BY <1>0, WorkingSteps DEF Working, Encoding, Resume, WriteClaim, Go
<1>2. /\ c \in Claim /\ c.layer \in Layers /\ WorkerOf[p] \in Workers
      /\ HasState(planDisk) /\ Owns(InForce, WorkerOf[p], c)
  BY <1>1, WorkingFacts
<1>3. layers[c.layer] = c
  BY <1>1 DEF Owners, SealLayer
<1>4. CASE UNCHANGED layers
  BY <1>1, <1>3, <1>4
<1>5. ASSUME NEW q \in Procs, WriteLayer(q) PROVE layers'[c.layer] = c
  <2>1. Working(q)
    BY <1>5 DEF WriteLayer, Working, Encoding
  <2>2. /\ claim[q] \in Claim /\ WorkerOf[q] \in Workers
        /\ Owns(InForce, WorkerOf[q], claim[q])
    BY <2>1, WorkingFacts
  <2>3. claim[q].layer = c.layer => claim[q] = c
    BY <1>2, <2>2, StateInForce, OwnersAgree DEF Work
  <2>4. QED
    BY <1>0, <1>2, <1>3, <1>5, <2>3 DEF WriteLayer
<1>6. CASE Quarantine
  BY <1>0, <1>1, <1>2, <1>3, <1>6, QuarantinedLayer
<1>7. QED
  BY <1>1, <1>4, <1>5, <1>6, LayerSteps

OnDisk(s) ==
  \A l \in Layers :
    LET row == s.completed[l]
    IN  row # NoClaim => layers[l] = row.claim /\ row.receipt = row.claim

LEMMA NextWork ==
  ASSUME quiet, ChainInv, OnePlan, OnePlan', Owners, Work, [Next]_vars
  PROVE  Work'
<1> SUFFICES ASSUME HasState(planDisk)'
             PROVE  /\ CensusOf(InForce')
                    /\ \A l \in Layers :
                         LET row == InForce'.completed[l]
                         IN  row # NoClaim => layers'[l] = row.claim /\ row.receipt = row.claim
  BY DEF Work
<1>0. /\ layers \in [Layers -> Claim \union {NoClaim}] /\ planDisk \in Nat
      /\ HasState(planDisk) =>
           /\ InForce \in CampaignState /\ CensusOf(InForce) /\ OnDisk(InForce)
           /\ InForce.completed \in [Layers -> Completion \union {NoClaim}]
  BY StateInForce, DiskTypes DEF Work, OnDisk, ChainInv, TypeOK
<1>1. CASE UNCHANGED <<files, planDisk>>
  <2>1. HasState(planDisk) /\ InForce' = InForce
    BY <1>1, SameFiles
  <2>2. ASSUME NEW l \in Layers, InForce.completed[l] # NoClaim
        PROVE  layers'[l] = InForce.completed[l].claim
    <3>1. layers[l] = InForce.completed[l].claim
      BY <1>0, <2>1, <2>2 DEF OnDisk
    <3>2. ASSUME NEW q \in Procs, WriteLayer(q) PROVE layers'[l] = InForce.completed[l].claim
      <4>1. Working(q)
        BY <3>2 DEF WriteLayer, Working, Encoding
      <4>2. /\ claim[q] \in Claim /\ claim[q] # NoClaim /\ claim[q].layer \in Layers
            /\ WorkerOf[q] \in Workers /\ Owns(InForce, WorkerOf[q], claim[q])
        BY <4>1, WorkingFacts
      <4>3. claim[q].layer = l => InForce.completed[l].claim = claim[q]
        BY <1>0, <2>1, <2>2, <4>2 DEF Owns, CensusOf, InFlight, Completed
      <4>4. QED
        BY <1>0, <3>1, <3>2, <4>3 DEF WriteLayer
    <3>3. CASE Quarantine
      BY <1>0, <2>2, <3>1, <3>3, QuarantinedLayer DEF Completed
    <3>4. QED
      BY <3>1, <3>2, <3>3, LayerSteps
  <2>3. QED
    BY <1>0, <2>1, <2>2 DEF OnDisk
<1>2. CASE ~UNCHANGED <<files, planDisk>>
  <2>0. UNCHANGED layers
    BY <1>2, LayerSteps DEF WriteLayer, Quarantine, inputs
  <2>1. CASE Kept
    BY <1>0, <2>0, <2>1 DEF Kept, OnDisk
  <2>2. ASSUME NEW p \in Procs, WriteClaim(p), HasState(planDisk), mem[p] = InForce,
               InForce' = ClaimNextLayer(InForce, WorkerOf[p])
        PROVE  CensusOf(InForce') /\ InForce'.completed = InForce.completed
    <3>1. WorkerOf[p] \in Workers /\ InForce.active[WorkerOf[p]] = NoClaim /\ InForce.pending # <<>>
      BY <2>2 DEF ChainInv, Locked, WriteClaim
    <3>2. QED
      BY <1>0, <2>2, <3>1, ClaimCensus DEF ClaimNextLayer, Successor
  <2>3. ASSUME NEW p \in Procs, WriteComplete(p), HasState(planDisk), mem[p] = InForce,
               InForce' = CompleteLayer(InForce, WorkerOf[p], claim[p])
        PROVE  /\ CensusOf(InForce')
               /\ InForce'.completed = [InForce.completed EXCEPT
                    ![claim[p].layer] = [claim |-> claim[p], receipt |-> claim[p]]]
               /\ layers[claim[p].layer] = claim[p]
    <3>1. /\ WorkerOf[p] \in Workers /\ InForce.active[WorkerOf[p]] = claim[p]
          /\ claim[p] \in Claim /\ claim[p] # NoClaim
      BY <2>3, CompleteAdvances
    <3>2. CensusOf(InForce')
      BY <1>0, <2>3, <3>1, CompleteCensus
    <3>3. layers[claim[p].layer] = claim[p]
      BY <2>3 DEF WriteComplete, Owners
    <3>4. QED
      BY <2>3, <3>1, <3>2, <3>3 DEF CompleteLayer, Successor
  <2>4. ASSUME WriteRecovery, HasState(planDisk), rmem = InForce,
               InForce' = RecoverySuccessor(InForce, rworker)
        PROVE  CensusOf(InForce') /\ InForce'.completed = InForce.completed
    <3>1. rworker \in Workers /\ InForce.active[rworker] # NoClaim
      BY <2>4, RecoveryAdvances
    <3>2. QED
      BY <1>0, <2>4, <3>1, RecoveryCensus DEF RecoverySuccessor, Successor
  <2>5. ASSUME InForce' = InitialState(planDisk) \/ InForce' = Entry(planDisk)
        PROVE  CensusOf(InForce') /\ \A l \in Layers : InForce'.completed[l] = NoClaim
    <3>1. InitialState(planDisk) \in CampaignState /\ CensusOf(InitialState(planDisk))
      BY <1>0, EntryType, InitialCensus
    <3>2. CensusOf(Entry(planDisk))
      BY <3>1, PhaseCensus DEF Entry, EnterEncoding
    <3>3. \A l \in Layers : /\ InitialState(planDisk).completed[l] = NoClaim
                            /\ Entry(planDisk).completed[l] = NoClaim
      BY DEF Entry, EnterEncoding, InPhase, InitialState
    <3>4. QED
      BY <2>5, <3>1, <3>2, <3>3
  <2>6. QED
    <3>1. CASE \E p \in Procs :
                 /\ WriteComplete(p) /\ HasState(planDisk) /\ mem[p] = InForce
                 /\ InForce' = CompleteLayer(InForce, WorkerOf[p], claim[p])
      <4>1. PICK p \in Procs :
              /\ WriteComplete(p) /\ HasState(planDisk) /\ mem[p] = InForce
              /\ InForce' = CompleteLayer(InForce, WorkerOf[p], claim[p])
        BY <3>1
      <4> DEFINE c == claim[p]
                 row == [claim |-> c, receipt |-> c]
      <4>2. /\ CensusOf(InForce')
            /\ InForce'.completed = [InForce.completed EXCEPT ![c.layer] = row]
            /\ layers[c.layer] = c
        BY <2>3, <4>1
      <4>3. row.claim = c /\ row.receipt = c
        OBVIOUS
      <4>4. \A l \in Layers :
              InForce'.completed[l] = IF l = c.layer THEN row ELSE InForce.completed[l]
        BY <1>0, <4>1, <4>2
      <4>5. QED
        BY <1>0, <2>0, <4>1, <4>2, <4>3, <4>4 DEF OnDisk
    <3>2. CASE HasState(planDisk) /\ CensusOf(InForce') /\ InForce'.completed = InForce.completed
      BY <1>0, <2>0, <3>2 DEF OnDisk
    <3>3. QED
      BY <2>1, <2>2, <2>4, <2>5, <3>1, <3>2, InForceSteps
<1>3. QED
  BY <1>1, <1>2

-----------------------------------------------------------------------------
(* What a step may do to the files *)

LEMMA StepAppends ==
  ASSUME ChainInv, [Next]_vars, NEW k \in DOMAIN files, k \in DOMAIN files'
  PROVE  files'[k] = files[k] \/ files'[k].plan > files[k].plan
<1>0. /\ TypeOK /\ k \in Nat /\ files[k].plan \in Nat
      /\ \A j \in DOMAIN files : files[j].plan \in Nat
  BY DiskTypes DEF ChainInv
<1>1. CASE UNCHANGED files
  BY <1>1
<1>2. ASSUME NEW s \in CampaignState, NEW t \in CampaignState, Advance(s, t)
      PROVE  files'[k] = files[k] \/ files'[k].plan > files[k].plan
  <2>1. /\ t.plan \in Nat /\ t.seq \in Nat
        /\ files'[t.seq] = t
        /\ k # t.seq => files'[k] = files[k]
        /\ files[k].plan >= t.plan => k < t.seq
    BY <1>0, <1>2, AdvanceFree
  <2>2. QED
    BY <1>0, <2>1
<1>3. CASE ReplanMove
  BY <1>3, FileMoved
<1>4. CASE ReplanWriteState
  BY <1>4, StateWritten
<1>5. CASE EnterWrite
  BY <1>5, EntryWritten
<1>6. QED
  BY <1>1, <1>2, <1>3, <1>4, <1>5, FileChanges DEF ReplanWritePlan

(* The phases run in order; workers and recoveries may be killed anywhere, *)
(* and need not be stopped for a re-plan.  No state another process wrote  *)
(* is overwritten, unless by a state of a newer plan: the successor of a   *)
(* state read under the flock goes to a file that is free or an older      *)
(* plan's, whatever the operator's scripts have done meanwhile.            *)
THEOREM NothingOverwritten == InOrder => (Spec => AppendOnly)
<1> SUFFICES ASSUME InOrder PROVE Spec => AppendOnly
  OBVIOUS
<1>1. ChainInv /\ [Next]_vars => ChainInv'
  BY NextChainInv
<1>2. ChainInv /\ [Next]_vars =>
        [\A k \in DOMAIN files \intersect DOMAIN files' :
           files'[k] = files[k] \/ files'[k].plan > files[k].plan]_vars
  BY StepAppends
<1>3. QED
  BY InitChainInv, <1>1, <1>2, PTL DEF Spec, AppendOnly

(* The same usage: once the chain of the plan in force has begun, it has   *)
(* no gap and each of its states is a transition of the one before it.     *)
THEOREM ChainIsLinked == InOrder => (Spec => []ChainLinked)
<1> SUFFICES ASSUME InOrder PROVE Spec => []ChainLinked
  OBVIOUS
<1>1. ChainInv /\ [Next]_vars => ChainInv'
  BY NextChainInv
<1>2. ChainInv => ChainLinked
  BY DEF ChainInv, Linked, ChainLinked, Successors
<1>3. QED
  BY InitChainInv, <1>1, <1>2, PTL DEF Spec

(* Every variable has its type: a process in a locked section holds a      *)
(* state of the campaign and a recovery names a worker.                    *)
THEOREM TypeCorrect == InOrder => (Spec => []TypeOK)
<1> SUFFICES ASSUME InOrder PROVE Spec => []TypeOK
  OBVIOUS
<1>1. ChainInv /\ [Next]_vars => ChainInv'
  BY NextChainInv
<1>2. ChainInv => TypeOK
  BY DEF ChainInv
<1>3. QED
  BY InitChainInv, <1>1, <1>2, PTL DEF Spec

LEMMA QuietStays == ASSUME [Next]_vars PROVE quiet' = quiet
BY DEF Next, WorkerStep, LoadPlan, Crash, Stop, BindReadiness, RefuseReadiness, EnterLoop,
   ExitReplanned, RefuseState, Resume, ExitDrained, ReadForClaim, WriteClaim, CheckLayer,
   RefuseLayer, WriteLayer, SealLayer, RefuseReadBack, ReadForComplete, ClaimVanished,
   WriteComplete, RecoverLoad, RecoverStep, RecoverRead, Quarantine, WriteRecovery,
   NothingToRecover, RecoverCrash, RecoverEnd, Probe, ReplanGlob, ReplanStep, ReplanMove,
   ReplanWritePlan, ReplanWriteState, SealReadiness, EnterRead, EnterWrite, ScriptDies,
   operator, vars

LEMMA InitQuietInv == Init => QuietInv
<1> SUFFICES ASSUME Init PROVE QuietInv
  OBVIOUS
<1>1. /\ DOMAIN files = {0} /\ files[0] = InitialState(0) /\ planDisk = 0
      /\ pc = [p \in Procs |-> "down"] /\ rpc = "idle" /\ opc = "idle"
  BY DEF Init
<1>2. OnePlan
  BY <1>1, EntryType DEF OnePlan, Replanning, Live, Stopped
<1>3. Owners
  BY <1>1 DEF Owners, Mem, RMem, Working, Encoding
<1>4. InForce = InitialState(0)
  <2>1. Chain(0) = {0}
    BY <1>1, EntryType DEF Chain
  <2>2. Max({0}) = 0
    BY MaxIs
  <2>3. QED
    BY <1>1, <2>1, <2>2 DEF InForce, NewestState
<1>5. Work
  BY <1>4, InitialCensus DEF Work, InitialState
<1>6. QED
  BY <1>2, <1>3, <1>5 DEF QuietInv

LEMMA NextQuietInv ==
  ASSUME InOrder, quiet, ChainInv, QuietInv, [Next]_vars
  PROVE  QuietInv'
<1>1. OnePlan /\ Owners /\ Work
  BY DEF QuietInv
<1>2. OnePlan'
  BY <1>1, NextOnePlan
<1>3. Owners'
  BY <1>1, <1>2, NextHolds, NextOwners, NextSealed DEF Owners, Working
<1>4. Work'
  BY <1>1, <1>2, NextWork
<1>5. QED
  BY <1>2, <1>3, <1>4 DEF QuietInv

(* If moreover workers and recoveries are stopped for a re-plan, a layer   *)
(* the plan in force records as completed is on disk under the claim that  *)
(* completed it, and stays there: stale artifacts of an older plan, crashes*)
(* of any process in the middle of a section and recoveries included.      *)
THEOREM CompletedStaysOnDisk == InOrder => (Spec => []CompletedOnDisk)
<1> SUFFICES ASSUME InOrder PROVE Spec => []CompletedOnDisk
  OBVIOUS
<1> DEFINE IInv == ChainInv /\ (quiet => QuietInv)
<1>1. Init => IInv
  BY InitChainInv, InitQuietInv
<1>2. IInv /\ [Next]_vars => IInv'
  BY NextChainInv, NextQuietInv, QuietStays
<1>3. IInv => CompletedOnDisk
  BY DEF QuietInv, Work, InForce, CompletedOnDisk
<1>4. QED
  BY <1>1, <1>2, <1>3, PTL DEF Spec

=============================================================================
