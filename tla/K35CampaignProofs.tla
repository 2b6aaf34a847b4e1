------------------------- MODULE K35CampaignProofs -------------------------
(* Proofs about K35Campaign, for every plan, worker set and layer count. *)
EXTENDS K35Campaign, SequenceTheorems, TLAPS

USE StateMachineAssumption, CampaignAssumption

-----------------------------------------------------------------------------
(* The transitions of the state machine stay among the campaign states. *)

LEMMA InitialStateType == ASSUME NEW plan \in Nat
                          PROVE  InitialState(plan) \in CampaignState
<1>1. [i \in Layers |-> i] \in Seq(Layers)
  BY SeqDef DEF Layers
<1>2. QED
  BY <1>1 DEF InitialState, CampaignState, Phase

LEMMA EnterEncodingType ==
  ASSUME NEW s \in CampaignState, NEW r \in Readiness
  PROVE  EnterEncoding(s, r) \in CampaignState
BY DEF EnterEncoding, InPhase, CampaignState, Phase

LEMMA SuccessorType ==
  ASSUME NEW s \in CampaignState, NEW pending \in Seq(Layers),
         NEW active \in [Workers -> Claim \union {NoClaim}],
         NEW completed \in [Layers -> Completion \union {NoClaim}]
  PROVE  /\ Successor(s, pending, active, completed) \in CampaignState
         /\ Successor(s, pending, active, completed).seq = s.seq + 1
         /\ Successor(s, pending, active, completed).plan = s.plan
         /\ Successor(s, pending, active, completed).phase = s.phase
         /\ Successor(s, pending, active, completed).pending = pending
         /\ Successor(s, pending, active, completed).active = active
         /\ Successor(s, pending, active, completed).completed = completed
BY DEF Successor, CampaignState

LEMMA NextClaimType ==
  ASSUME NEW s \in CampaignState, NEW w \in Workers, s.pending # <<>>
  PROVE  NextClaim(s, w) \in Claim
<1>1. Head(s.pending) \in Layers
  BY DEF CampaignState
<1>2. QED
  BY <1>1 DEF NextClaim, Claim, CampaignState

LEMMA ClaimNextLayerType ==
  ASSUME NEW s \in CampaignState, NEW w \in Workers, s.pending # <<>>
  PROVE  ClaimNextLayer(s, w) \in CampaignState
<1>1. Tail(s.pending) \in Seq(Layers)
  BY DEF CampaignState
<1>2. [s.active EXCEPT ![w] = NextClaim(s, w)] \in [Workers -> Claim \union {NoClaim}]
  BY NextClaimType DEF CampaignState
<1>3. s.completed \in [Layers -> Completion \union {NoClaim}]
  BY DEF CampaignState
<1>4. QED
  BY <1>1, <1>2, <1>3, SuccessorType DEF ClaimNextLayer

LEMMA CompleteLayerType ==
  ASSUME NEW s \in CampaignState, NEW w \in Workers, NEW r \in Claim,
         s.active[w] \in Claim
  PROVE  CompleteLayer(s, w, r) \in CampaignState
<1> DEFINE c == s.active[w]
           row == [claim |-> c, receipt |-> r]
<1>1. row \in Completion
  BY DEF Completion
<1>2. [s.completed EXCEPT ![c.layer] = row] \in [Layers -> Completion \union {NoClaim}]
  BY <1>1 DEF CampaignState
<1>3. [s.active EXCEPT ![w] = NoClaim] \in [Workers -> Claim \union {NoClaim}]
  BY DEF CampaignState
<1>4. s.pending \in Seq(Layers)
  BY DEF CampaignState
<1>5. QED
  BY <1>2, <1>3, <1>4, SuccessorType DEF CompleteLayer

LEMMA RecoverySuccessorType ==
  ASSUME NEW s \in CampaignState, NEW w \in Workers, s.active[w] \in Claim
  PROVE  RecoverySuccessor(s, w) \in CampaignState
<1>1. <<s.active[w].layer>> \o s.pending \in Seq(Layers)
  BY DEF CampaignState, Claim
<1>2. [s.active EXCEPT ![w] = NoClaim] \in [Workers -> Claim \union {NoClaim}]
  BY DEF CampaignState
<1>3. s.completed \in [Layers -> Completion \union {NoClaim}]
  BY DEF CampaignState
<1>4. QED
  BY <1>1, <1>2, <1>3, SuccessorType DEF RecoverySuccessor

LEMMA SealMainType == ASSUME NEW s \in CampaignState
                      PROVE  SealMain(s) \in CampaignState
BY DEF SealMain, InPhase, CampaignState, Phase

-----------------------------------------------------------------------------
(* Census: each locked transition moves one layer from one place to        *)
(* another and touches no other.                                           *)

LEMMA ClaimCensus ==
  ASSUME NEW s \in CampaignState, CensusOf(s), NEW w \in Workers,
         s.active[w] = NoClaim, s.pending # <<>>
  PROVE  CensusOf(ClaimNextLayer(s, w))
<1> DEFINE t == ClaimNextLayer(s, w)
           c == NextClaim(s, w)
<1>1. /\ t.pending = Tail(s.pending)
      /\ t.active = [s.active EXCEPT ![w] = c]
      /\ t.completed = s.completed
  BY DEF ClaimNextLayer, Successor
<1>2. /\ s.pending \in Seq(Layers) /\ Len(s.pending) > 0
      /\ s.active \in [Workers -> Claim \union {NoClaim}]
  BY DEF CampaignState
<1>3. c \in Claim /\ c # NoClaim /\ c.layer = s.pending[1]
  BY <1>2, NextClaimType DEF NextClaim
<1>4. /\ DOMAIN t.pending = 1..(Len(s.pending) - 1)
      /\ \A i \in DOMAIN t.pending : t.pending[i] = s.pending[i + 1]
      /\ DOMAIN s.pending = 1..Len(s.pending)
  BY <1>1, <1>2
<1>5. \A l \in Layers : Pending(t, l) <=> Pending(s, l) /\ l # c.layer
  <2>1. ASSUME NEW l \in Layers, Pending(t, l) PROVE Pending(s, l) /\ l # c.layer
    <3>1. PICK i \in DOMAIN t.pending : t.pending[i] = l
      BY <2>1 DEF Pending
    <3>2. i + 1 \in DOMAIN s.pending /\ s.pending[i + 1] = l /\ i + 1 # 1
      BY <3>1, <1>4, <1>2
    <3>3. 1 \in DOMAIN s.pending
      BY <1>2, <1>4
    <3>4. QED
      BY <3>2, <3>3, <1>3 DEF Pending, CensusOf
  <2>2. ASSUME NEW l \in Layers, Pending(s, l), l # c.layer PROVE Pending(t, l)
    <3>1. PICK i \in DOMAIN s.pending : s.pending[i] = l
      BY <2>2 DEF Pending
    <3>2. i # 1
      BY <3>1, <2>2, <1>3
    <3>3. i - 1 \in DOMAIN t.pending /\ t.pending[i - 1] = s.pending[i]
      BY <3>1, <3>2, <1>2, <1>4
    <3>4. QED
      BY <3>1, <3>3 DEF Pending
  <2>3. QED
    BY <2>1, <2>2
<1>6. \A l \in Layers : InFlight(t, l) <=> InFlight(s, l) \/ l = c.layer
  BY <1>1, <1>2, <1>3 DEF InFlight
<1>7. \A l \in Layers : Completed(t, l) <=> Completed(s, l)
  BY <1>1 DEF Completed
<1>8. Pending(s, c.layer) /\ c.layer \in Layers
  BY <1>2, <1>3, <1>4 DEF Pending, Claim
<1>9. \A i, j \in DOMAIN t.pending : t.pending[i] = t.pending[j] => i = j
  <2>1. SUFFICES ASSUME NEW i \in DOMAIN t.pending, NEW j \in DOMAIN t.pending,
                        t.pending[i] = t.pending[j]
                 PROVE  i = j
    OBVIOUS
  <2>2. i + 1 \in DOMAIN s.pending /\ j + 1 \in DOMAIN s.pending
    BY <1>2, <1>4
  <2>3. i + 1 = j + 1
    BY <2>1, <2>2, <1>4 DEF CensusOf
  <2>4. QED
    BY <2>3, <1>2, <1>4
<1>10. \A v, u \in Workers :
        (/\ t.active[v] # NoClaim /\ t.active[u] # NoClaim
         /\ t.active[v].layer = t.active[u].layer) => v = u
  BY <1>1, <1>2, <1>3, <1>8 DEF CensusOf, InFlight
<1>11. QED
  BY <1>5, <1>6, <1>7, <1>8, <1>9, <1>10 DEF CensusOf

LEMMA CompleteCensus ==
  ASSUME NEW s \in CampaignState, CensusOf(s), NEW w \in Workers, NEW r \in Claim,
         s.active[w] # NoClaim
  PROVE  CensusOf(CompleteLayer(s, w, r))
<1> DEFINE t == CompleteLayer(s, w, r)
           c == s.active[w]
           row == [claim |-> c, receipt |-> r]
<1>1. /\ t.pending = s.pending
      /\ t.active = [s.active EXCEPT ![w] = NoClaim]
      /\ t.completed = [s.completed EXCEPT ![c.layer] = row]
  BY DEF CompleteLayer, Successor
<1>2. /\ s.active \in [Workers -> Claim \union {NoClaim}]
      /\ s.completed \in [Layers -> Completion \union {NoClaim}]
  BY DEF CampaignState
<1>3. c \in Claim /\ c.layer \in Layers /\ row \in Completion /\ row # NoClaim
  BY <1>2 DEF Claim, Completion
<1>4. \A l \in Layers : Pending(t, l) <=> Pending(s, l)
  BY <1>1 DEF Pending
<1>5. \A l \in Layers : InFlight(t, l) <=> InFlight(s, l) /\ l # c.layer
  BY <1>1, <1>2 DEF InFlight, CensusOf
<1>6. \A l \in Layers : Completed(t, l) <=> Completed(s, l) \/ l = c.layer
  BY <1>1, <1>2, <1>3 DEF Completed
<1>7. InFlight(s, c.layer)
  BY DEF InFlight
<1>8. \A v, u \in Workers :
        (/\ t.active[v] # NoClaim /\ t.active[u] # NoClaim
         /\ t.active[v].layer = t.active[u].layer) => v = u
  BY <1>1, <1>2 DEF CensusOf
<1>9. \A i, j \in DOMAIN t.pending : t.pending[i] = t.pending[j] => i = j
  BY <1>1 DEF CensusOf
<1>10. QED
  BY <1>3, <1>4, <1>5, <1>6, <1>7, <1>8, <1>9 DEF CensusOf

LEMMA RecoveryCensus ==
  ASSUME NEW s \in CampaignState, CensusOf(s), NEW w \in Workers,
         s.active[w] # NoClaim
  PROVE  CensusOf(RecoverySuccessor(s, w))
<1> DEFINE t == RecoverySuccessor(s, w)
           c == s.active[w]
           n == Len(s.pending)
<1>1. /\ t.pending = <<c.layer>> \o s.pending
      /\ t.active = [s.active EXCEPT ![w] = NoClaim]
      /\ t.completed = s.completed
  BY DEF RecoverySuccessor, Successor
<1>2. /\ s.pending \in Seq(Layers) /\ n \in Nat
      /\ s.active \in [Workers -> Claim \union {NoClaim}]
  BY DEF CampaignState
<1>3. c \in Claim /\ c.layer \in Layers
  BY <1>2 DEF Claim
<1>4. /\ DOMAIN t.pending = 1..(n + 1) /\ DOMAIN s.pending = 1..n
      /\ t.pending[1] = c.layer
      /\ \A i \in 1..n : t.pending[i + 1] = s.pending[i]
      /\ \A i \in 2..(n + 1) : t.pending[i] = s.pending[i - 1]
  BY <1>1, <1>2, <1>3
<1>5. \A l \in Layers : Pending(t, l) <=> Pending(s, l) \/ l = c.layer
  <2>1. ASSUME NEW l \in Layers, Pending(t, l) PROVE Pending(s, l) \/ l = c.layer
    <3>1. PICK i \in DOMAIN t.pending : t.pending[i] = l
      BY <2>1 DEF Pending
    <3>2. i = 1 \/ (i \in 2..(n + 1) /\ i - 1 \in 1..n)
      BY <3>1, <1>2, <1>4
    <3>3. QED
      BY <3>1, <3>2, <1>4 DEF Pending
  <2>2. ASSUME NEW l \in Layers, Pending(s, l) PROVE Pending(t, l)
    <3>1. PICK i \in DOMAIN s.pending : s.pending[i] = l
      BY <2>2 DEF Pending
    <3>2. i + 1 \in DOMAIN t.pending /\ t.pending[i + 1] = l
      BY <3>1, <1>2, <1>4
    <3>3. QED
      BY <3>2 DEF Pending
  <2>3. Pending(t, c.layer)
    <3>1. 1 \in DOMAIN t.pending
      BY <1>2, <1>4
    <3>2. QED
      BY <3>1, <1>4 DEF Pending
  <2>4. QED
    BY <2>1, <2>2, <2>3
<1>6. \A l \in Layers : InFlight(t, l) <=> InFlight(s, l) /\ l # c.layer
  BY <1>1, <1>2 DEF InFlight, CensusOf
<1>7. \A l \in Layers : Completed(t, l) <=> Completed(s, l)
  BY <1>1 DEF Completed
<1>8. InFlight(s, c.layer)
  BY DEF InFlight
<1>9. \A i, j \in DOMAIN t.pending : t.pending[i] = t.pending[j] => i = j
  <2>1. SUFFICES ASSUME NEW i \in 1..(n + 1), NEW j \in 1..(n + 1),
                        t.pending[i] = t.pending[j]
                 PROVE  i = j
    BY <1>4
  <2>2. \A k \in 1..n : s.pending[k] # c.layer
    BY <1>3, <1>4, <1>8 DEF CensusOf, Pending
  <2>3. CASE i = 1 \/ j = 1
    <3>1. \A k \in 2..(n + 1) : k - 1 \in 1..n /\ t.pending[k] # c.layer
      BY <2>2, <1>2, <1>4
    <3>2. QED
      BY <2>1, <2>3, <3>1, <1>2, <1>4
  <2>4. CASE i # 1 /\ j # 1
    <3>1. i - 1 \in DOMAIN s.pending /\ j - 1 \in DOMAIN s.pending
      BY <2>4, <1>2, <1>4
    <3>2. s.pending[i - 1] = s.pending[j - 1]
      BY <2>1, <2>4, <1>2, <1>4
    <3>3. i - 1 = j - 1
      BY <3>1, <3>2 DEF CensusOf
    <3>4. QED
      BY <3>3, <1>2
  <2>5. QED
    BY <2>3, <2>4
<1>10. \A v, u \in Workers :
        (/\ t.active[v] # NoClaim /\ t.active[u] # NoClaim
         /\ t.active[v].layer = t.active[u].layer) => v = u
  BY <1>1, <1>2 DEF CensusOf
<1>11. QED
  BY <1>3, <1>5, <1>6, <1>7, <1>8, <1>9, <1>10 DEF CensusOf

LEMMA PhaseCensus ==
  ASSUME NEW s \in CampaignState, CensusOf(s), NEW phase, NEW r
  PROVE  CensusOf(InPhase(s, phase, r))
BY DEF CensusOf, InPhase, Pending, InFlight, Completed

LEMMA InitialCensus ==
  ASSUME NEW plan \in Nat
  PROVE  CensusOf(InitialState(plan))
<1> DEFINE s == InitialState(plan)
<1>1. /\ s \in CampaignState
      /\ s.pending = [i \in Layers |-> i]
      /\ s.active = [w \in Workers |-> NoClaim]
      /\ s.completed = [l \in Layers |-> NoClaim]
  BY InitialStateType DEF InitialState
<1>2. \A l \in Layers : Pending(s, l) /\ ~InFlight(s, l) /\ ~Completed(s, l)
  BY <1>1 DEF Pending, InFlight, Completed
<1>3. QED
  BY <1>1, <1>2 DEF CensusOf

-----------------------------------------------------------------------------
(* What a claim's process owns: its id holds the claim or has completed it. *)
Owns(s, w, c) ==
  \/ s.active[w] = c
  \/ Completed(s, c.layer) /\ s.completed[c.layer].claim = c

LEMMA ClaimOwns ==
  ASSUME NEW s \in CampaignState, NEW v \in Workers, s.active[v] = NoClaim,
         NEW w \in Workers, NEW c \in Claim, Owns(s, w, c)
  PROVE  Owns(ClaimNextLayer(s, v), w, c)
<1> DEFINE t == ClaimNextLayer(s, v)
<1>1. /\ t.active = [s.active EXCEPT ![v] = NextClaim(s, v)]
      /\ t.completed = s.completed
  BY DEF ClaimNextLayer, Successor
<1>2. c # NoClaim /\ s.active \in [Workers -> Claim \union {NoClaim}]
  BY DEF CampaignState
<1>3. QED
  BY <1>1, <1>2 DEF Owns, Completed

LEMMA CompleteOwns ==
  ASSUME NEW s \in CampaignState, CensusOf(s), NEW v \in Workers, s.active[v] # NoClaim,
         NEW r \in Claim, NEW w \in Workers, NEW c \in Claim, Owns(s, w, c)
  PROVE  Owns(CompleteLayer(s, v, r), w, c)
<1> DEFINE t == CompleteLayer(s, v, r)
           d == s.active[v]
           row == [claim |-> d, receipt |-> r]
<1>1. /\ t.active = [s.active EXCEPT ![v] = NoClaim]
      /\ t.completed = [s.completed EXCEPT ![d.layer] = row]
  BY DEF CompleteLayer, Successor
<1>2. /\ c # NoClaim /\ c.layer \in Layers
      /\ s.active \in [Workers -> Claim \union {NoClaim}]
      /\ s.completed \in [Layers -> Completion \union {NoClaim}]
  BY DEF CampaignState, Claim
<1>3. d \in Claim /\ d.layer \in Layers /\ row \in Completion /\ row # NoClaim
  BY <1>2 DEF Claim, Completion
<1>4. ~Completed(s, d.layer)
  BY <1>3 DEF CensusOf, InFlight
<1>5. CASE s.active[w] = c /\ v = w
  BY <1>1, <1>2, <1>3, <1>5 DEF Owns, Completed
<1>6. CASE s.active[w] = c /\ v # w
  BY <1>1, <1>2, <1>6 DEF Owns
<1>7. CASE Completed(s, c.layer) /\ s.completed[c.layer].claim = c
  <2>1. d.layer # c.layer
    BY <1>4, <1>7
  <2>2. QED
    BY <1>1, <1>2, <1>7, <2>1 DEF Owns, Completed
<1>8. QED
  BY <1>5, <1>6, <1>7 DEF Owns

LEMMA RecoveryOwns ==
  ASSUME NEW s \in CampaignState, NEW v \in Workers,
         NEW w \in Workers, w # v, NEW c \in Claim, Owns(s, w, c)
  PROVE  Owns(RecoverySuccessor(s, v), w, c)
<1> DEFINE t == RecoverySuccessor(s, v)
<1>1. /\ t.active = [s.active EXCEPT ![v] = NoClaim]
      /\ t.completed = s.completed
  BY DEF RecoverySuccessor, Successor
<1>2. s.active \in [Workers -> Claim \union {NoClaim}]
  BY DEF CampaignState
<1>3. QED
  BY <1>1, <1>2 DEF Owns, Completed

-----------------------------------------------------------------------------
(* Type correctness, with the bindings a step relies on. *)

TypeInv == TypeOK /\ Bound

LEMMA ActiveType ==
  ASSUME TypeOK, NEW w \in Workers
  PROVE  /\ state.active[w] \in Claim \union {NoClaim}
         /\ state.active[w] # NoClaim => state.active[w] \in Claim
BY DEF TypeOK, CampaignState

LEMMA LeaveType ==
  ASSUME TypeOK, NEW p \in Procs, NEW how \in Outcome, Leave(p, how)
  PROVE  /\ pc' \in [Procs -> PC]
         /\ claim' \in [Procs -> Claim \union {NoClaim}]
         /\ next' \in [Procs -> 1..(NumExperts + 1)]
         /\ outcome' \in [Procs -> Outcome]
         /\ pc'[p] = "down"
         /\ \A q \in Procs \ {p} : pc'[q] = pc[q] /\ claim'[q] = claim[q]
BY DEF Leave, TypeOK, PC

LEMMA InitTypeInv == Init => TypeInv
<1> SUFFICES ASSUME Init PROVE TypeInv
  OBVIOUS
<1>1. InitialState(Plan) \in CampaignState
  BY InitialStateType
<1>2. state \in CampaignState
  BY <1>1, EnterEncodingType DEF Init, Readiness
<1>3. 1 \in 1..(NumExperts + 1)
  OBVIOUS
<1>4. choices \subseteq Claim \X Experts /\ hessians \subseteq Layers \X Experts
  BY DEF Init
<1>5. TypeOK
  BY <1>2, <1>3, <1>4 DEF Init, TypeOK, PC, Outcome, RStep
<1>6. Bound
  BY DEF Init, Bound, Encoding, EnterEncoding, InPhase, InitialState
<1>7. QED
  BY <1>5, <1>6 DEF TypeInv

LEMMA NextTypeOK == TypeInv /\ [Next]_vars => TypeOK'
<1> SUFFICES ASSUME TypeOK, Bound, [Next]_vars PROVE TypeOK'
  BY DEF TypeInv
<1> USE DEF TypeOK
<1>0. "down" \in PC /\ "loop" \in PC /\ Encoding \subseteq PC
  BY DEF PC
<1>1. ASSUME NEW p \in Procs, Start(p) PROVE TypeOK'
  BY <1>0, <1>1 DEF Start, disk, recovery, Outcome
<1>2. ASSUME NEW p \in Procs, WorkerStep(p) PROVE TypeOK'
  <2>0. WorkerOf[p] \in Workers
    OBVIOUS
  <2>1. CASE ExitClosed(p)
    BY <2>1, LeaveType DEF ExitClosed, disk, recovery, Outcome
  <2>2. CASE Resume(p)
    <3>1. Mine(p) \in Claim
      BY <2>0, <2>2, ActiveType DEF Resume, Mine
    <3>2. QED
      BY <2>2, <3>1, <1>0 DEF Resume, BeginLayer, disk, recovery, Encoding
  <2>3. CASE ExitPaused(p)
    BY <2>3, LeaveType DEF ExitPaused, disk, recovery, Outcome
  <2>4. CASE ExitDrained(p)
    BY <2>4, LeaveType DEF ExitDrained, disk, recovery, Outcome
  <2>5. CASE ClaimLayer(p)
    <3>1. state.pending # <<>>
      BY <2>5 DEF ClaimLayer
    <3>2. NextClaim(state, WorkerOf[p]) \in Claim
      BY <2>0, <3>1, NextClaimType
    <3>3. state' \in CampaignState
      BY <2>0, <2>5, <3>1, ClaimNextLayerType DEF ClaimLayer
    <3>4. QED
      BY <2>5, <3>2, <3>3, <1>0 DEF ClaimLayer, BeginLayer, disk, recovery, Encoding
  <2>6. CASE SkipExpert(p)
    BY <2>6, <1>0 DEF SkipExpert, AtExpert, NextExpert, Experts, disk, recovery, Encoding
  <2>7. CASE RefuseExpert(p)
    BY <2>7, LeaveType DEF RefuseExpert, disk, recovery, Outcome
  <2>8. CASE PutChoices(p)
    <3>1. claim[p] \in Claim
      BY <2>8 DEF PutChoices, AtExpert, Bound, Encoding
    <3>2. QED
      BY <2>8, <3>1, <1>0 DEF PutChoices, AtExpert, recovery, Encoding
  <2>9. CASE SaveHessian(p)
    <3>1. claim[p] \in Claim
      BY <2>9 DEF SaveHessian, AtExpert, Bound, Encoding
    <3>2. HessianOf(p) \in Layers \X Experts
      BY <2>9, <3>1 DEF SaveHessian, HessianOf, AtExpert, Claim
    <3>3. QED
      BY <2>9, <3>2, <1>0 DEF SaveHessian, recovery, Encoding
  <2>10. CASE WriteReceipt(p)
    <3>1. claim[p] \in Claim
      BY <2>10 DEF WriteReceipt, AtExpert, Bound, Encoding
    <3>2. receipts' \in [Layers -> [Experts -> Claim \union {NoClaim}]]
      BY <2>10, <3>1 DEF WriteReceipt, AtExpert, Claim
    <3>3. CASE Chosen(p) /\ NextExpert(p)
      BY <2>10, <3>2, <3>3, <1>0
      DEF WriteReceipt, AtExpert, NextExpert, Experts, recovery, Encoding
    <3>4. CASE ~Chosen(p) /\ Leave(p, "failed")
      BY <2>10, <3>2, <3>4, LeaveType DEF WriteReceipt, recovery, Outcome
    <3>5. QED
      BY <2>10, <3>3, <3>4 DEF WriteReceipt
  <2>11. CASE BeginReadBack(p)
    BY <2>11, <1>0 DEF BeginReadBack, disk, recovery, Encoding
  <2>12. CASE ReadBack(p)
    BY <2>12 DEF ReadBack, AtExpert, Experts, disk, recovery
  <2>13. CASE RefuseReadBack(p)
    BY <2>13, LeaveType DEF RefuseReadBack, disk, recovery, Outcome
  <2>14. CASE WriteLayerReceipt(p)
    <3>1. claim[p] \in Claim
      BY <2>14 DEF WriteLayerReceipt, Bound, Encoding
    <3>2. QED
      BY <2>14, <3>1, <1>0 DEF WriteLayerReceipt, recovery, Encoding
  <2>15. CASE Complete(p)
    <3>1. claim[p] \in Claim /\ state.active[WorkerOf[p]] = claim[p]
      BY <2>15 DEF Complete, Mine, Bound, Encoding
    <3>2. state' \in CampaignState
      BY <2>0, <2>15, <3>1, CompleteLayerType DEF Complete
    <3>3. QED
      BY <2>15, <3>2, <1>0 DEF Complete, disk, recovery
  <2>16. CASE ClaimVanished(p)
    BY <2>16, LeaveType DEF ClaimVanished, disk, recovery, Outcome
  <2>17. QED
    BY <1>2, <2>1, <2>2, <2>3, <2>4, <2>5, <2>6, <2>7, <2>8, <2>9, <2>10, <2>11,
       <2>12, <2>13, <2>14, <2>15, <2>16 DEF WorkerStep
<1>3. ASSUME NEW p \in Procs, Crash(p) PROVE TypeOK'
  BY <1>3, LeaveType DEF Crash, disk, recovery, Outcome
<1>4. ASSUME NEW w \in Workers, Recover(w) PROVE TypeOK'
  BY <1>4 DEF Recover, BeginRecovery, disk, local, RStep
<1>5. CASE RecoveryStep
  <2>1. CASE DropReceipt
    <3>1. PICK e \in Experts :
            receipts' = [receipts EXCEPT ![RecoveredLayer][e] = NoClaim]
      BY <2>1 DEF DropReceipt
    <3>2. receipts' \in [Layers -> [Experts -> Claim \union {NoClaim}]]
      BY <3>1
    <3>3. QED
      BY <2>1, <3>2 DEF DropReceipt, local, recovery
  <2>2. CASE ReceiptsDropped
    BY <2>2 DEF ReceiptsDropped, disk, local, RStep
  <2>3. CASE DropStore
    BY <2>3 DEF DropStore, local, RStep
  <2>4. CASE DropLayerReceipt
    BY <2>4 DEF DropLayerReceipt, local, RStep
  <2>5. CASE WriteRecovery
    <3>1. state.active[rworker] \in Claim
      BY <2>5, ActiveType DEF WriteRecovery, Bound
    <3>2. state' \in CampaignState
      BY <2>5, <3>1, RecoverySuccessorType DEF WriteRecovery
    <3>3. QED
      BY <2>5, <3>2 DEF WriteRecovery, disk, local, RStep
  <2>6. QED
    BY <1>5, <2>1, <2>2, <2>3, <2>4, <2>5 DEF RecoveryStep
<1>6. CASE RecoveryCrash
  BY <1>6 DEF RecoveryCrash, disk, local, RStep
<1>7. CASE TogglePause
  BY <1>7 DEF TogglePause, disk, local, recovery
<1>8. CASE SealDrained
  BY <1>8, SealMainType DEF SealDrained, disk, local, recovery
<1>9. CASE UNCHANGED vars
  BY <1>9 DEF vars, disk, local, recovery
<1>10. QED
  BY <1>1, <1>2, <1>3, <1>4, <1>5, <1>6, <1>7, <1>8, <1>9 DEF Next

LEMMA NextBound == TypeInv /\ [Next]_vars => Bound'
<1> SUFFICES ASSUME TypeOK, Bound, [Next]_vars PROVE Bound'
  BY DEF TypeInv
<1> USE DEF Bound
<1>0. /\ \A p \in Procs : WorkerOf[p] \in Workers
      /\ "down" \notin Encoding /\ "loop" \notin Encoding
  BY DEF Encoding
<1>1. ASSUME NEW p \in Procs, Start(p) PROVE Bound'
  BY <1>0, <1>1 DEF Start, disk, recovery, TypeOK
<1>2. ASSUME NEW p \in Procs, NEW how \in Outcome, Leave(p, how),
             UNCHANGED <<state, recovery>>
      PROVE  Bound'
  BY <1>0, <1>2, LeaveType DEF recovery
<1>3. ASSUME NEW p \in Procs, WorkerStep(p) PROVE Bound'
  <2>1. CASE ExitClosed(p) \/ ExitPaused(p) \/ ExitDrained(p)
    BY <2>1, <1>2 DEF ExitClosed, ExitPaused, ExitDrained, Outcome
  <2>2. CASE RefuseExpert(p) \/ RefuseReadBack(p) \/ ClaimVanished(p)
    BY <2>2, <1>2 DEF RefuseExpert, RefuseReadBack, ClaimVanished, Outcome
  <2>3. CASE Resume(p)
    <3>1. Mine(p) \in Claim /\ Mine(p).worker = WorkerOf[p]
      BY <1>0, <2>3, ActiveType DEF Resume, Mine
    <3>2. QED
      BY <2>3, <3>1 DEF Resume, BeginLayer, recovery, TypeOK
  <2>4. CASE ClaimLayer(p)
    <3>1. /\ NextClaim(state, WorkerOf[p]) \in Claim
          /\ NextClaim(state, WorkerOf[p]).worker = WorkerOf[p]
      BY <1>0, <2>4, NextClaimType DEF ClaimLayer, TypeOK, NextClaim
    <3>2. /\ state'.active = [state.active EXCEPT ![WorkerOf[p]] = NextClaim(state, WorkerOf[p])]
          /\ state'.plan = state.plan /\ state'.phase = state.phase
      BY <2>4 DEF ClaimLayer, ClaimNextLayer, Successor
    <3>3. state.active \in [Workers -> Claim \union {NoClaim}]
      BY DEF TypeOK, CampaignState
    <3>4. \A w \in Workers : state'.active[w] # NoClaim => state'.active[w].worker = w
      BY <3>1, <3>2, <3>3
    <3>5. \A q \in Procs :
            pc'[q] \in Encoding => claim'[q] \in Claim /\ claim'[q].worker = WorkerOf[q]
      BY <2>4, <3>1 DEF ClaimLayer, BeginLayer, TypeOK
    <3>6. rstep' = "idle"
      BY <2>4 DEF ClaimLayer, AtClaimBoundary, Unlocked, recovery
    <3>7. QED
      BY <3>2, <3>4, <3>5, <3>6
  <2>5. CASE SkipExpert(p)
    BY <2>5 DEF SkipExpert, AtExpert, NextExpert, recovery, TypeOK, Encoding
  <2>6. CASE PutChoices(p) \/ SaveHessian(p)
    BY <2>6 DEF PutChoices, SaveHessian, AtExpert, recovery, TypeOK, Encoding
  <2>7. CASE WriteReceipt(p)
    <3>1. CASE NextExpert(p)
      BY <2>7, <3>1 DEF WriteReceipt, AtExpert, NextExpert, recovery, TypeOK, Encoding
    <3>2. CASE Leave(p, "failed")
      BY <2>7, <3>2, <1>2 DEF WriteReceipt, Outcome
    <3>3. QED
      BY <2>7, <3>1, <3>2 DEF WriteReceipt
  <2>8. CASE BeginReadBack(p) \/ ReadBack(p) \/ WriteLayerReceipt(p)
    BY <2>8
    DEF BeginReadBack, ReadBack, WriteLayerReceipt, AtExpert, recovery, TypeOK, Encoding
  <2>9. CASE Complete(p)
    <3>1. /\ state'.active = [state.active EXCEPT ![WorkerOf[p]] = NoClaim]
          /\ state'.plan = state.plan /\ state'.phase = state.phase
      BY <2>9 DEF Complete, CompleteLayer, Successor
    <3>2. state.active \in [Workers -> Claim \union {NoClaim}]
      BY DEF TypeOK, CampaignState
    <3>3. \A w \in Workers : state'.active[w] # NoClaim => state'.active[w].worker = w
      BY <3>1, <3>2
    <3>4. \A q \in Procs :
            pc'[q] \in Encoding => claim'[q] \in Claim /\ claim'[q].worker = WorkerOf[q]
      BY <1>0, <2>9 DEF Complete, TypeOK
    <3>5. rstep' = "idle"
      BY <2>9 DEF Complete, Unlocked, recovery
    <3>6. QED
      BY <3>1, <3>3, <3>4, <3>5
  <2>10. QED
    BY <1>3, <2>1, <2>2, <2>3, <2>4, <2>5, <2>6, <2>7, <2>8, <2>9 DEF WorkerStep
<1>4. ASSUME NEW p \in Procs, Crash(p) PROVE Bound'
  BY <1>4, <1>2 DEF Crash, Outcome
<1>5. ASSUME NEW w \in Workers, Recover(w) PROVE Bound'
  BY <1>5 DEF Recover, BeginRecovery, local
<1>6. CASE RecoveryStep
  <2>1. CASE DropReceipt \/ ReceiptsDropped \/ DropStore \/ DropLayerReceipt
    BY <2>1 DEF DropReceipt, ReceiptsDropped, DropStore, DropLayerReceipt, local, recovery
  <2>2. CASE WriteRecovery
    <3>1. /\ state'.active = [state.active EXCEPT ![rworker] = NoClaim]
          /\ state'.plan = state.plan /\ state'.phase = state.phase
      BY <2>2 DEF WriteRecovery, RecoverySuccessor, Successor
    <3>2. state.active \in [Workers -> Claim \union {NoClaim}]
      BY DEF TypeOK, CampaignState
    <3>3. \A w \in Workers : state'.active[w] # NoClaim => state'.active[w].worker = w
      BY <3>1, <3>2
    <3>4. QED
      BY <2>2, <3>1, <3>3 DEF WriteRecovery, local
  <2>3. QED
    BY <1>6, <2>1, <2>2 DEF RecoveryStep
<1>7. CASE RecoveryCrash \/ TogglePause
  BY <1>7 DEF RecoveryCrash, TogglePause, local, recovery
<1>8. CASE SealDrained
  BY <1>8 DEF SealDrained, SealMain, InPhase, local, recovery, Unlocked
<1>9. CASE UNCHANGED vars
  BY <1>9 DEF vars, local, recovery
<1>10. QED
  BY <1>1, <1>3, <1>4, <1>5, <1>6, <1>7, <1>8, <1>9 DEF Next

(* Every reachable state of every instance is well typed. *)
THEOREM TypeCorrect == Spec => []TypeOK
<1>1. TypeInv /\ [Next]_vars => TypeInv'
  BY NextTypeOK, NextBound DEF TypeInv
<1>2. TypeInv => TypeOK
  BY DEF TypeInv
<1>3. QED
  BY InitTypeInv, <1>1, <1>2, PTL DEF Spec

-----------------------------------------------------------------------------
(* Census *)

LEMMA InitCensus == Init => Census
<1>1. InitialState(Plan) \in CampaignState /\ CensusOf(InitialState(Plan))
  BY InitialStateType, InitialCensus
<1>2. QED
  BY <1>1, PhaseCensus DEF Init, EnterEncoding, Census

(* The only steps that write a state are the four locked transitions. *)
LEMMA StateSteps ==
  ASSUME TypeInv, [Next]_vars
  PROVE  \/ UNCHANGED state
         \/ \E p \in Procs : ClaimLayer(p)
         \/ \E p \in Procs : Complete(p)
         \/ WriteRecovery
         \/ SealDrained
BY DEF Next, WorkerStep, RecoveryStep, vars, Start, Crash, ExitClosed, Resume,
   ExitPaused, ExitDrained, SkipExpert, RefuseExpert, PutChoices, SaveHessian,
   WriteReceipt, BeginReadBack, ReadBack, RefuseReadBack, WriteLayerReceipt,
   ClaimVanished, Recover, BeginRecovery, DropReceipt, ReceiptsDropped, DropStore,
   DropLayerReceipt, RecoveryCrash, TogglePause

LEMMA NextCensus == TypeInv /\ Census /\ [Next]_vars => Census'
<1> SUFFICES ASSUME TypeInv, Census, [Next]_vars PROVE Census'
  OBVIOUS
<1>0. state \in CampaignState /\ TypeOK /\ Bound
  BY DEF TypeInv, TypeOK
<1>1. CASE UNCHANGED state
  BY <1>1 DEF Census, CensusOf, Pending, InFlight, Completed
<1>2. ASSUME NEW p \in Procs, ClaimLayer(p) PROVE Census'
  BY <1>0, <1>2, ClaimCensus DEF ClaimLayer, Mine, Census
<1>3. ASSUME NEW p \in Procs, Complete(p) PROVE Census'
  <2>1. claim[p] \in Claim /\ state.active[WorkerOf[p]] = claim[p]
    BY <1>0, <1>3 DEF Complete, Mine, Bound, Encoding
  <2>2. QED
    BY <1>0, <1>3, <2>1, CompleteCensus DEF Complete, Census
<1>4. CASE WriteRecovery
  <2>1. state.active[rworker] # NoClaim /\ rworker \in Workers
    BY <1>0, <1>4 DEF WriteRecovery, Bound, TypeOK
  <2>2. QED
    BY <1>0, <1>4, <2>1, RecoveryCensus DEF WriteRecovery, Census
<1>5. CASE SealDrained
  BY <1>0, <1>5, PhaseCensus DEF SealDrained, SealMain, Census
<1>6. QED
  BY <1>1, <1>2, <1>3, <1>4, <1>5, StateSteps

(* Every layer pends once, is claimed by one worker or is completed, in    *)
(* every reachable state: no crash or recovery loses or doubles a layer.   *)
THEOREM CensusHolds == Spec => []Census
<1>1. TypeInv /\ Census /\ [Next]_vars => TypeInv' /\ Census'
  BY NextTypeOK, NextBound, NextCensus DEF TypeInv
<1>2. QED
  BY InitTypeInv, InitCensus, <1>1, PTL DEF Spec

-----------------------------------------------------------------------------
(* Ownership: what an encoding process may rely on without the lock.       *)

(* A process that encodes after a step encoded before it under the same    *)
(* claim, or took its claim from the newest state in this step.            *)
LEMMA EncodingSteps ==
  ASSUME TypeInv, [Next]_vars, NEW p \in Procs, pc'[p] \in Encoding
  PROVE  \/ pc[p] \in Encoding /\ claim'[p] = claim[p]
         \/ Resume(p) /\ claim'[p] = Mine(p)
         \/ ClaimLayer(p) /\ claim'[p] = NextClaim(state, WorkerOf[p])
<1>0. /\ pc \in [Procs -> PC] /\ claim \in [Procs -> Claim \union {NoClaim}]
      /\ "down" \notin Encoding /\ "loop" \notin Encoding
      /\ {"check", "chosen", "saved", "readback", "sealed"} = Encoding
  BY DEF TypeInv, TypeOK, Encoding
<1>1. ASSUME NEW q \in Procs, NEW how \in Outcome, Leave(q, how)
      PROVE  pc[p] \in Encoding /\ claim'[p] = claim[p]
  BY <1>0, <1>1 DEF Leave
<1>2. CASE \E q \in Procs : Start(q) \/ Crash(q)
  BY <1>0, <1>1, <1>2 DEF Start, Crash, Outcome
<1>3. CASE \E q \in Procs : WorkerStep(q)
  <2>1. PICK q \in Procs : WorkerStep(q)
    BY <1>3
  <2>2. CASE ExitClosed(q) \/ ExitPaused(q) \/ ExitDrained(q)
    BY <1>1, <2>2 DEF ExitClosed, ExitPaused, ExitDrained, Outcome
  <2>3. CASE RefuseExpert(q) \/ RefuseReadBack(q) \/ ClaimVanished(q)
    BY <1>1, <2>3 DEF RefuseExpert, RefuseReadBack, ClaimVanished, Outcome
  <2>4. CASE Resume(q)
    BY <1>0, <2>4 DEF Resume, BeginLayer
  <2>5. CASE ClaimLayer(q)
    BY <1>0, <2>5 DEF ClaimLayer, BeginLayer
  <2>6. CASE SkipExpert(q) \/ PutChoices(q) \/ SaveHessian(q)
    BY <1>0, <2>6 DEF SkipExpert, PutChoices, SaveHessian, AtExpert, NextExpert
  <2>7. CASE WriteReceipt(q)
    <3>1. CASE NextExpert(q)
      BY <1>0, <2>7, <3>1 DEF WriteReceipt, AtExpert, NextExpert
    <3>2. CASE Leave(q, "failed")
      BY <1>1, <3>2 DEF Outcome
    <3>3. QED
      BY <2>7, <3>1, <3>2 DEF WriteReceipt
  <2>8. CASE BeginReadBack(q) \/ ReadBack(q) \/ WriteLayerReceipt(q)
    BY <1>0, <2>8 DEF BeginReadBack, ReadBack, WriteLayerReceipt, AtExpert
  <2>9. CASE Complete(q)
    BY <1>0, <2>9 DEF Complete
  <2>10. QED
    BY <2>1, <2>2, <2>3, <2>4, <2>5, <2>6, <2>7, <2>8, <2>9 DEF WorkerStep
<1>4. CASE \/ \E w \in Workers : Recover(w)
           \/ RecoveryStep \/ RecoveryCrash \/ TogglePause \/ SealDrained
           \/ UNCHANGED vars
  BY <1>4 DEF Recover, BeginRecovery, RecoveryStep, DropReceipt, ReceiptsDropped, DropStore,
     DropLayerReceipt, WriteRecovery, RecoveryCrash, TogglePause, SealDrained,
     vars, local
<1>5. QED
  BY <1>2, <1>3, <1>4 DEF Next

(* The lock is held after a step by the recovery that held it, or by one   *)
(* that this step started.                                                 *)
LEMMA RecoverySteps ==
  ASSUME TypeInv, [Next]_vars, rstep' # "idle"
  PROVE  \/ rstep # "idle" /\ rworker' = rworker
         \/ Recover(rworker')
<1>1. CASE \E p \in Procs : Start(p) \/ Crash(p)
  BY <1>1 DEF Start, Crash, recovery
<1>2. CASE \E p \in Procs : WorkerStep(p)
  BY <1>2 DEF WorkerStep, ExitClosed, Resume, ExitPaused, ExitDrained, ClaimLayer,
     SkipExpert, RefuseExpert, PutChoices, SaveHessian, WriteReceipt, BeginReadBack,
     ReadBack, RefuseReadBack, WriteLayerReceipt, Complete, ClaimVanished, recovery
<1>3. CASE \E w \in Workers : Recover(w)
  BY <1>3 DEF Recover, BeginRecovery
<1>4. CASE RecoveryStep \/ RecoveryCrash
  BY <1>4 DEF RecoveryStep, DropReceipt, ReceiptsDropped, DropStore, DropLayerReceipt,
     WriteRecovery, RecoveryCrash, recovery
<1>5. CASE TogglePause \/ SealDrained \/ UNCHANGED vars
  BY <1>5 DEF TogglePause, SealDrained, vars, recovery
<1>6. QED
  BY <1>1, <1>2, <1>3, <1>4, <1>5 DEF Next

LEMMA NextOwns ==
  ASSUME TypeInv, Census, OwnsOrDone, [Next]_vars, NEW p \in Procs,
         pc[p] \in Encoding, claim'[p] = claim[p]
  PROVE  Owns(state', WorkerOf[p], claim'[p])
<1> DEFINE w == WorkerOf[p]
           c == claim[p]
<1>0. /\ state \in CampaignState /\ w \in Workers /\ c \in Claim /\ c # NoClaim
      /\ c.layer \in Layers /\ c.worker = w
      /\ state.active \in [Workers -> Claim \union {NoClaim}]
      /\ state.completed \in [Layers -> Completion \union {NoClaim}]
      /\ \A q \in Procs : WorkerOf[q] \in Workers
  <2>1. c \in Claim /\ c.worker = w
    BY DEF TypeInv, Bound
  <2>2. state \in CampaignState
    BY DEF TypeInv, TypeOK
  <2>3. QED
    BY <2>1, <2>2 DEF Claim, CampaignState
<1>1. Owns(state, w, c)
  BY DEF OwnsOrDone, Owns
<1>2. CASE UNCHANGED state
  BY <1>1, <1>2 DEF Owns, Completed
<1>3. ASSUME NEW q \in Procs, ClaimLayer(q) PROVE Owns(state', w, c)
  BY <1>0, <1>1, <1>3, ClaimOwns DEF ClaimLayer, Mine
<1>4. ASSUME NEW q \in Procs, Complete(q) PROVE Owns(state', w, c)
  <2>1. claim[q] \in Claim /\ state.active[WorkerOf[q]] = claim[q] /\ CensusOf(state)
    BY <1>4 DEF Complete, Mine, TypeInv, Bound, Encoding, Census
  <2>2. QED
    BY <1>0, <1>1, <1>4, <2>1, CompleteOwns DEF Complete
<1>5. CASE WriteRecovery
  <2>1. rworker # w /\ rworker \in Workers
    BY <1>5 DEF WriteRecovery, OwnsOrDone, TypeInv, TypeOK
  <2>2. QED
    BY <1>0, <1>1, <1>5, <2>1, RecoveryOwns DEF WriteRecovery
<1>6. CASE SealDrained
  BY <1>1, <1>6 DEF SealDrained, SealMain, InPhase, Owns, Completed
<1>7. QED
  BY <1>2, <1>3, <1>4, <1>5, <1>6, StateSteps

LEMMA NextOwnsOrDone ==
  ASSUME careful, TypeInv, Census, OwnsOrDone, [Next]_vars
  PROVE  OwnsOrDone'
<1>0. /\ \A p \in Procs : WorkerOf[p] \in Workers
      /\ state.active \in [Workers -> Claim \union {NoClaim}]
  BY DEF TypeInv, TypeOK, CampaignState
<1>1. ASSUME NEW p \in Procs, pc'[p] \in Encoding
      PROVE  Owns(state', WorkerOf[p], claim'[p])
  <2>1. CASE pc[p] \in Encoding /\ claim'[p] = claim[p]
    BY <2>1, NextOwns
  <2>2. CASE Resume(p) /\ claim'[p] = Mine(p)
    BY <2>2 DEF Resume, Mine, Owns
  <2>3. CASE ClaimLayer(p) /\ claim'[p] = NextClaim(state, WorkerOf[p])
    BY <1>0, <2>3 DEF ClaimLayer, ClaimNextLayer, Successor, Owns
  <2>4. QED
    BY <1>1, <2>1, <2>2, <2>3, EncodingSteps
<1>2. ASSUME rstep' # "idle", NEW p \in Procs, WorkerOf[p] = rworker'
      PROVE  pc'[p] \notin Encoding
  <2>1. CASE rstep # "idle" /\ rworker' = rworker
    <3>1. pc[p] \notin Encoding
      BY <1>2, <2>1 DEF OwnsOrDone
    <3>2. ~Resume(p) /\ ~ClaimLayer(p)
      BY <2>1 DEF Resume, ClaimLayer, AtClaimBoundary, Unlocked
    <3>3. QED
      BY <3>1, <3>2, EncodingSteps
  <2>2. CASE Recover(rworker')
    <3>1. pc[p] = "down" /\ UNCHANGED pc
      BY <1>2, <2>2 DEF Recover, BeginRecovery, Alive, local
    <3>2. QED
      BY <3>1 DEF Encoding
  <2>3. QED
    BY <1>2, <2>1, <2>2, RecoverySteps
<1>3. QED
  BY <1>1, <1>2 DEF OwnsOrDone, Owns, Completed

(* The operator does not change his ways in the middle of a campaign.      *)
LEMMA CarefulStays == ASSUME [Next]_vars PROVE careful' = careful
BY DEF Next, WorkerStep, RecoveryStep, vars, Start, Crash, ExitClosed, Resume,
   ExitPaused, ExitDrained, ClaimLayer, SkipExpert, RefuseExpert, PutChoices,
   SaveHessian, WriteReceipt, BeginReadBack, ReadBack, RefuseReadBack,
   WriteLayerReceipt, Complete, ClaimVanished, Recover, BeginRecovery, DropReceipt,
   ReceiptsDropped, DropStore, DropLayerReceipt, WriteRecovery, RecoveryCrash,
   TogglePause, SealDrained, recovery

LEMMA OneClaim ==
  ASSUME TypeInv, Census, OwnsOrDone
  PROVE  SameLayerSameClaim
<1> SUFFICES ASSUME NEW p \in Procs, NEW q \in Procs,
                    pc[p] \in Encoding, pc[q] \in Encoding,
                    claim[p].layer = claim[q].layer
             PROVE  claim[p] = claim[q]
  BY DEF SameLayerSameClaim
<1>1. \A r \in {p, q} :
        /\ WorkerOf[r] \in Workers /\ claim[r] \in Claim
        /\ claim[r] # NoClaim /\ claim[r].layer \in Layers
  BY DEF TypeInv, Bound, Claim
<1>2. \A r \in {p, q} :
        \/ state.active[WorkerOf[r]] = claim[r] /\ InFlight(state, claim[r].layer)
        \/ /\ Completed(state, claim[r].layer)
           /\ state.completed[claim[r].layer].claim = claim[r]
  BY <1>1 DEF OwnsOrDone, InFlight
<1>3. InFlight(state, claim[p].layer) => ~Completed(state, claim[p].layer)
  BY <1>1 DEF Census, CensusOf
<1>4. CASE Completed(state, claim[p].layer)
  BY <1>2, <1>3, <1>4
<1>5. CASE ~Completed(state, claim[p].layer)
  <2>1. /\ state.active[WorkerOf[p]] = claim[p]
        /\ state.active[WorkerOf[q]] = claim[q]
    BY <1>2, <1>5
  <2>2. WorkerOf[p] = WorkerOf[q]
    BY <1>1, <2>1 DEF Census, CensusOf
  <2>3. QED
    BY <2>1, <2>2
<1>6. QED
  BY <1>4, <1>5

(* As long as recovery waits for the worker to be dead, no two processes   *)
(* write into one layer directory under different claims, however many     *)
(* processes share an id.                                                  *)
THEOREM OneClaimPerLayer == Spec => []SameLayerSameClaim
<1> DEFINE IInv == TypeInv /\ Census /\ (careful => OwnsOrDone)
<1>1. Init => OwnsOrDone
  BY DEF Init, OwnsOrDone, Encoding
<1>2. IInv /\ [Next]_vars => IInv'
  BY NextTypeOK, NextBound, NextCensus, NextOwnsOrDone, CarefulStays DEF TypeInv
<1>3. IInv => SameLayerSameClaim
  BY OneClaim DEF SameLayerSameClaim
<1>4. QED
  BY InitTypeInv, InitCensus, <1>1, <1>2, <1>3, PTL DEF Spec

-----------------------------------------------------------------------------
(* Artifacts: what is on disk, if recovery waits for the worker to be dead. *)

(* A claim the chain knows: one an id holds, or the one layer l is          *)
(* completed under.                                                         *)
Known(s, l, c) ==
  \/ \E w \in Workers : s.active[w] = c
  \/ Completed(s, l) /\ s.completed[l].claim = c

(* An expert receipt on disk embeds a claim the chain knows, and its        *)
(* choices and its Hessian are there.                                       *)
ReceiptsBacked ==
  \A l \in Layers, e \in Experts :
    LET c == receipts[l][e]
    IN  c # NoClaim => /\ c.layer = l /\ Known(state, l, c)
                       /\ <<c, e>> \in choices /\ <<l, e>> \in hessians

(* Recovery drops the choices and the claim after the receipts are gone. *)
Quarantined ==
  rstep \in {"store", "layer", "write"} =>
    \A e \in Experts : receipts[RecoveredLayer][e] = NoClaim

(* What an encoding process has done so far is on disk. *)
Progress(p) ==
  LET written(e) == receipts[claim[p].layer][e] = claim[p]
  IN  /\ pc[p] \in {"check", "chosen", "saved"} => \A e \in Experts : e < next[p] => written(e)
      /\ pc[p] \in {"readback", "sealed"} => \A e \in Experts : written(e)
      /\ pc[p] \in {"chosen", "saved"} => next[p] \in Experts /\ Chosen(p)
      /\ pc[p] = "saved" => HessianOf(p) \in hessians
      /\ pc[p] = "sealed" => layerReceipt[claim[p].layer] = claim[p]

CompletedOnDisk ==
  \A l \in Layers : Completed(state, l) =>
    LET c == state.completed[l].claim
    IN  layerReceipt[l] = c /\ \A e \in Experts : receipts[l][e] = c

Artifacts ==
  /\ ReceiptsBacked
  /\ Quarantined
  /\ \A p \in Procs : Progress(p)
  /\ CompletedOnDisk
  /\ DistinctIds => \A p \in Procs :
       /\ outcome[p] # "failed"
       /\ pc[p] \in Encoding => state.active[WorkerOf[p]] = claim[p]

Owned == TypeInv /\ Census /\ OwnsOrDone

LEMMA EncodingClaim ==
  ASSUME TypeInv, NEW p \in Procs, pc[p] \in Encoding
  PROVE  /\ WorkerOf[p] \in Workers /\ claim[p] \in Claim /\ claim[p] # NoClaim
         /\ claim[p].layer \in Layers
BY DEF TypeInv, Bound, Claim

(* The layer under recovery is nobody's: no process encodes it, and it is   *)
(* not completed.                                                           *)
LEMMA LayerFree ==
  ASSUME Owned, rstep # "idle"
  PROVE  /\ RecoveredLayer \in Layers
         /\ ~Completed(state, RecoveredLayer)
         /\ \A p \in Procs : pc[p] \in Encoding => claim[p].layer # RecoveredLayer
<1>1. /\ rworker \in Workers /\ state.active[rworker] # NoClaim
      /\ state.active[rworker] \in Claim /\ RecoveredLayer \in Layers
  BY DEF Owned, TypeInv, TypeOK, Bound, CampaignState, RecoveredLayer, Claim
<1>2. InFlight(state, RecoveredLayer) /\ ~Completed(state, RecoveredLayer)
  BY <1>1 DEF InFlight, RecoveredLayer, Owned, Census, CensusOf
<1>3. ASSUME NEW p \in Procs, pc[p] \in Encoding, claim[p].layer = RecoveredLayer
      PROVE  FALSE
  <2>1. state.active[WorkerOf[p]] = claim[p] /\ WorkerOf[p] # rworker
    BY <1>2, <1>3 DEF Owned, OwnsOrDone
  <2>2. QED
    BY <1>1, <1>3, <2>1, EncodingClaim DEF Owned, Census, CensusOf, RecoveredLayer
<1>4. QED
  BY <1>1, <1>2, <1>3

(* A process meets no receipt but its own claim's. *)
LEMMA OwnReceipts ==
  ASSUME Owned, ReceiptsBacked, NEW p \in Procs, pc[p] \in Encoding, NEW e \in Experts
  PROVE  receipts[claim[p].layer][e] \in {NoClaim, claim[p]}
<1> DEFINE l == claim[p].layer
           c == receipts[l][e]
<1>1. /\ WorkerOf[p] \in Workers /\ claim[p] # NoClaim /\ l \in Layers
  BY EncodingClaim DEF Owned
<1>2. SUFFICES ASSUME c # NoClaim PROVE c = claim[p]
  OBVIOUS
<1>3. c.layer = l /\ Known(state, l, c)
  BY <1>1, <1>2 DEF ReceiptsBacked
<1>4. CASE Completed(state, l)
  <2>1. ~InFlight(state, l)
    BY <1>1, <1>4 DEF Owned, Census, CensusOf
  <2>2. c = state.completed[l].claim
    BY <1>2, <1>3, <2>1 DEF Known, InFlight
  <2>3. QED
    BY <1>1, <2>1, <2>2 DEF Owned, OwnsOrDone, InFlight
<1>5. CASE ~Completed(state, l)
  <2>1. state.active[WorkerOf[p]] = claim[p]
    BY <1>5 DEF Owned, OwnsOrDone
  <2>2. PICK w \in Workers : state.active[w] = c
    BY <1>3, <1>5 DEF Known
  <2>3. w = WorkerOf[p]
    BY <1>1, <1>2, <1>3, <2>1, <2>2 DEF Owned, Census, CensusOf
  <2>4. QED
    BY <2>1, <2>2, <2>3
<1>6. QED
  BY <1>4, <1>5

(* Only dropping a claim at the end of its recovery makes the chain forget  *)
(* it: completing the layer only moves it.                                  *)
LEMMA KnownStays ==
  ASSUME Owned, [Next]_vars, NEW c \in Claim, NEW l \in Layers,
         c.layer = l, Known(state, l, c), WriteRecovery => l # RecoveredLayer
  PROVE  Known(state', l, c)
<1>0. /\ c # NoClaim
      /\ state.active \in [Workers -> Claim \union {NoClaim}]
      /\ state.completed \in [Layers -> Completion \union {NoClaim}]
      /\ \A q \in Procs : WorkerOf[q] \in Workers
  BY DEF Owned, TypeInv, TypeOK, CampaignState
<1>1. CASE UNCHANGED state
  BY <1>1 DEF Known, Completed
<1>2. ASSUME NEW q \in Procs, ClaimLayer(q) PROVE Known(state', l, c)
  <2>1. /\ state'.active = [state.active EXCEPT ![WorkerOf[q]] = NextClaim(state, WorkerOf[q])]
        /\ state'.completed = state.completed
        /\ state.active[WorkerOf[q]] = NoClaim
    BY <1>2 DEF ClaimLayer, ClaimNextLayer, Successor, Mine
  <2>2. QED
    BY <1>0, <2>1 DEF Known, Completed
<1>3. ASSUME NEW q \in Procs, Complete(q) PROVE Known(state', l, c)
  <2> DEFINE d == state.active[WorkerOf[q]]
             row == [claim |-> d, receipt |-> claim[q]]
  <2>1. /\ state'.active = [state.active EXCEPT ![WorkerOf[q]] = NoClaim]
        /\ state'.completed = [state.completed EXCEPT ![d.layer] = row]
    BY <1>3 DEF Complete, CompleteLayer, Successor
  <2>2. claim[q] \in Claim /\ d = claim[q]
    BY <1>3 DEF Complete, Mine, Owned, TypeInv, Bound, Encoding
  <2>3. d.layer \in Layers /\ row \in Completion /\ row # NoClaim /\ d # NoClaim
    BY <2>2 DEF Claim, Completion
  <2>4. ~Completed(state, d.layer)
    BY <1>0, <2>3 DEF Owned, Census, CensusOf, InFlight
  <2>5. CASE c = d
    BY <1>0, <2>1, <2>3, <2>5 DEF Known, Completed
  <2>6. CASE c # d /\ \E w \in Workers : state.active[w] = c
    BY <1>0, <2>1, <2>6 DEF Known
  <2>7. CASE Completed(state, l) /\ state.completed[l].claim = c
    <3>1. d.layer # l
      BY <2>4, <2>7
    <3>2. QED
      BY <1>0, <2>1, <2>7, <3>1 DEF Known, Completed
  <2>8. QED
    BY <2>5, <2>6, <2>7 DEF Known
<1>4. CASE WriteRecovery
  <2>1. /\ state'.active = [state.active EXCEPT ![rworker] = NoClaim]
        /\ state'.completed = state.completed
    BY <1>4 DEF WriteRecovery, RecoverySuccessor, Successor
  <2>2. state.active[rworker] # c
    BY <1>4 DEF RecoveredLayer
  <2>3. QED
    BY <1>0, <2>1, <2>2 DEF Known, Completed
<1>5. CASE SealDrained
  BY <1>5 DEF SealDrained, SealMain, InPhase, Known, Completed
<1>6. QED
  BY <1>1, <1>2, <1>3, <1>4, <1>5, StateSteps DEF Owned

(* What a step may write. *)
LEMMA DiskSteps ==
  ASSUME [Next]_vars
  PROVE  /\ UNCHANGED receipts \/ DropReceipt \/ \E p \in Procs : WriteReceipt(p)
         /\ UNCHANGED choices \/ DropStore \/ \E p \in Procs : PutChoices(p)
         /\ UNCHANGED hessians \/ \E p \in Procs : SaveHessian(p)
         /\ UNCHANGED layerReceipt \/ DropLayerReceipt \/ \E p \in Procs : WriteLayerReceipt(p)
<1>1. CASE \E p \in Procs : Start(p) \/ Crash(p)
  BY <1>1 DEF Start, Crash, disk
<1>2. CASE \E p \in Procs : WorkerStep(p)
  BY <1>2 DEF WorkerStep, ExitClosed, Resume, ExitPaused, ExitDrained, ClaimLayer,
     SkipExpert, RefuseExpert, PutChoices, SaveHessian, WriteReceipt, BeginReadBack,
     ReadBack, RefuseReadBack, WriteLayerReceipt, Complete, ClaimVanished, disk
<1>3. CASE (\E w \in Workers : Recover(w)) \/ RecoveryStep \/ RecoveryCrash
  BY <1>3 DEF Recover, BeginRecovery, RecoveryStep, DropReceipt, ReceiptsDropped, DropStore,
     DropLayerReceipt, WriteRecovery, RecoveryCrash, disk
<1>4. CASE TogglePause \/ SealDrained \/ UNCHANGED vars
  BY <1>4 DEF TogglePause, SealDrained, vars, disk
<1>5. QED
  BY <1>1, <1>2, <1>3, <1>4 DEF Next

LEMMA NextBacked ==
  ASSUME Owned, Artifacts, [Next]_vars
  PROVE  ReceiptsBacked'
<1> SUFFICES ASSUME NEW l \in Layers, NEW e \in Experts, receipts'[l][e] # NoClaim
             PROVE  LET c == receipts'[l][e]
                    IN  /\ c.layer = l /\ Known(state', l, c)
                        /\ <<c, e>> \in choices' /\ <<l, e>> \in hessians'
  BY DEF ReceiptsBacked
<1> DEFINE c == receipts'[l][e]
<1>0. /\ receipts \in [Layers -> [Experts -> Claim \union {NoClaim}]]
      /\ ReceiptsBacked /\ Quarantined
  BY DEF Owned, TypeInv, TypeOK, Artifacts
<1>1. c \in Claim /\ c.layer = l /\ Known(state, l, c) /\ <<c, e>> \in choices /\ <<l, e>> \in hessians
  <2>1. CASE receipts'[l][e] = receipts[l][e]
    BY <1>0, <2>1 DEF ReceiptsBacked
  <2>2. ASSUME NEW p \in Procs, WriteReceipt(p), receipts'[l][e] # receipts[l][e]
        PROVE  c \in Claim /\ c.layer = l /\ Known(state, l, c) /\ <<c, e>> \in choices /\ <<l, e>> \in hessians
    <3>1. pc[p] = "saved" /\ pc[p] \in Encoding /\ next[p] \in Experts
      BY <2>2 DEF WriteReceipt, AtExpert, Encoding
    <3>2. l = claim[p].layer /\ e = next[p] /\ c = claim[p]
      BY <1>0, <2>2 DEF WriteReceipt
    <3>3. WorkerOf[p] \in Workers /\ claim[p] \in Claim
      BY <3>1, EncodingClaim DEF Owned
    <3>4. Known(state, l, c)
      BY <3>1, <3>2, <3>3 DEF Owned, OwnsOrDone, Known
    <3>5. Progress(p)
      BY DEF Artifacts
    <3>6. <<c, e>> \in choices /\ <<l, e>> \in hessians
      BY <3>1, <3>2, <3>5 DEF Progress, Chosen, HessianOf
    <3>7. QED
      BY <3>2, <3>3, <3>4, <3>6
  <2>3. CASE DropReceipt
    <3>1. receipts'[l][e] \in {receipts[l][e], NoClaim}
      BY <1>0, <2>3 DEF DropReceipt
    <3>2. QED
      BY <2>1, <3>1
  <2>4. QED
    BY <2>1, <2>2, <2>3, DiskSteps
<1>2. ASSUME rstep \in {"store", "write"} PROVE l # RecoveredLayer
  <2>1. \A f \in Experts : receipts[RecoveredLayer][f] = NoClaim
    BY <1>0, <1>2 DEF Quarantined
  <2>2. ~DropReceipt
    BY <1>2 DEF DropReceipt
  <2>3. \A p \in Procs : WriteReceipt(p) => claim[p].layer # RecoveredLayer
    BY <1>2, LayerFree DEF WriteReceipt, AtExpert, Encoding
  <2>4. receipts'[RecoveredLayer][e] = receipts[RecoveredLayer][e]
    BY <1>0, <1>2, <2>2, <2>3, DiskSteps, LayerFree DEF WriteReceipt
  <2>5. QED
    BY <2>1, <2>4
<1>3. Known(state', l, c)
  BY <1>1, <1>2, KnownStays DEF WriteRecovery
<1>4. <<c, e>> \in choices'
  <2>1. ASSUME DropStore PROVE <<c, e>> \in choices'
    BY <1>1, <1>2, <2>1 DEF DropStore
  <2>2. QED
    BY <1>1, <2>1, DiskSteps DEF PutChoices
<1>5. <<l, e>> \in hessians'
  BY <1>1, DiskSteps DEF SaveHessian
<1>6. QED
  BY <1>1, <1>3, <1>4, <1>5

(* While recovery holds the lock it alone moves, step by step. *)
LEMMA LockedSteps ==
  ASSUME TypeInv, [Next]_vars, rstep' # "idle", rstep # "idle"
  PROVE  /\ UNCHANGED <<state, rworker>>
         /\ rstep' \in {"store", "layer", "write"} =>
              rstep \in {"store", "layer", "write"} \/ ReceiptsDropped
<1>1. UNCHANGED state
  BY StateSteps DEF ClaimLayer, Complete, WriteRecovery, SealDrained, AtClaimBoundary, Unlocked
<1>2. rworker' = rworker
  BY RecoverySteps DEF Recover, BeginRecovery, Unlocked
<1>3. CASE rstep' = rstep
  BY <1>1, <1>2, <1>3
<1>4. CASE rstep' # rstep
  <2>1. CASE \E p \in Procs : Start(p) \/ WorkerStep(p) \/ Crash(p)
    BY <1>4, <2>1 DEF Start, Crash, WorkerStep, ExitClosed, Resume, ExitPaused, ExitDrained,
       ClaimLayer, SkipExpert, RefuseExpert, PutChoices, SaveHessian, WriteReceipt,
       BeginReadBack, ReadBack, RefuseReadBack, WriteLayerReceipt, Complete, ClaimVanished,
       recovery
  <2>2. CASE (\E w \in Workers : Recover(w)) \/ RecoveryStep \/ RecoveryCrash
    BY <1>1, <1>2, <2>2 DEF Recover, BeginRecovery, Unlocked, RecoveryStep, DropReceipt,
       DropStore, DropLayerReceipt, WriteRecovery, RecoveryCrash, recovery
  <2>3. CASE TogglePause \/ SealDrained \/ UNCHANGED vars
    BY <1>4, <2>3 DEF TogglePause, SealDrained, vars, recovery
  <2>4. QED
    BY <2>1, <2>2, <2>3 DEF Next
<1>5. QED
  BY <1>3, <1>4

LEMMA NextQuarantined ==
  ASSUME Owned, Artifacts, [Next]_vars
  PROVE  Quarantined'
<1> SUFFICES ASSUME rstep' \in {"store", "layer", "write"}, NEW e \in Experts
             PROVE  receipts'[RecoveredLayer'][e] = NoClaim
  BY DEF Quarantined
<1>1. rstep # "idle"
  BY RecoverySteps DEF Owned, Recover, BeginRecovery
<1>2. RecoveredLayer' = RecoveredLayer
  BY <1>1, LockedSteps DEF Owned, RecoveredLayer
<1>3. receipts[RecoveredLayer][e] = NoClaim
  BY <1>1, LockedSteps DEF Owned, Artifacts, Quarantined, ReceiptsDropped
<1>4. \A p \in Procs : WriteReceipt(p) => claim[p].layer # RecoveredLayer
  BY <1>1, LayerFree DEF WriteReceipt, AtExpert, Encoding
<1>5. receipts'[RecoveredLayer][e] \in {receipts[RecoveredLayer][e], NoClaim}
  <2>1. receipts \in [Layers -> [Experts -> Claim \union {NoClaim}]]
    BY DEF Owned, TypeInv, TypeOK
  <2>2. RecoveredLayer \in Layers
    BY <1>1, LayerFree
  <2>3. QED
    BY <2>1, <2>2, <1>4, DiskSteps DEF WriteReceipt, DropReceipt
<1>6. QED
  BY <1>2, <1>3, <1>5

(* A process moves by its own steps only. *)
LEMMA OwnSteps ==
  ASSUME TypeOK, [Next]_vars, NEW p \in Procs
  PROVE  \/ Start(p) \/ Crash(p) \/ WorkerStep(p)
         \/ /\ pc'[p] = pc[p] /\ claim'[p] = claim[p]
            /\ next'[p] = next[p] /\ outcome'[p] = outcome[p]
<1> USE DEF TypeOK
<1>1. ASSUME NEW q \in Procs \ {p}, NEW how, Leave(q, how)
      PROVE  /\ pc'[p] = pc[p] /\ claim'[p] = claim[p]
             /\ next'[p] = next[p] /\ outcome'[p] = outcome[p]
  BY <1>1 DEF Leave
<1>2. ASSUME NEW q \in Procs \ {p}, Start(q) \/ Crash(q)
      PROVE  /\ pc'[p] = pc[p] /\ claim'[p] = claim[p]
             /\ next'[p] = next[p] /\ outcome'[p] = outcome[p]
  BY <1>1, <1>2 DEF Start, Crash
<1>3. ASSUME NEW q \in Procs \ {p}, WorkerStep(q)
      PROVE  /\ pc'[p] = pc[p] /\ claim'[p] = claim[p]
             /\ next'[p] = next[p] /\ outcome'[p] = outcome[p]
  <2>1. CASE ExitClosed(q) \/ ExitPaused(q) \/ ExitDrained(q)
    BY <1>1, <2>1 DEF ExitClosed, ExitPaused, ExitDrained
  <2>2. CASE RefuseExpert(q) \/ RefuseReadBack(q) \/ ClaimVanished(q)
    BY <1>1, <2>2 DEF RefuseExpert, RefuseReadBack, ClaimVanished
  <2>3. CASE Resume(q) \/ ClaimLayer(q)
    BY <2>3 DEF Resume, ClaimLayer, BeginLayer
  <2>4. CASE SkipExpert(q) \/ PutChoices(q) \/ SaveHessian(q)
    BY <2>4 DEF SkipExpert, PutChoices, SaveHessian, NextExpert
  <2>5. CASE WriteReceipt(q)
    BY <1>1, <2>5 DEF WriteReceipt, NextExpert
  <2>6. CASE BeginReadBack(q) \/ ReadBack(q) \/ WriteLayerReceipt(q) \/ Complete(q)
    BY <2>6 DEF BeginReadBack, ReadBack, WriteLayerReceipt, Complete
  <2>7. QED
    BY <1>3, <2>1, <2>2, <2>3, <2>4, <2>5, <2>6 DEF WorkerStep
<1>4. CASE \/ \E w \in Workers : Recover(w)
           \/ RecoveryStep \/ RecoveryCrash \/ TogglePause \/ SealDrained
           \/ UNCHANGED vars
  BY <1>4 DEF Recover, BeginRecovery, RecoveryStep, DropReceipt, ReceiptsDropped, DropStore,
     DropLayerReceipt, WriteRecovery, RecoveryCrash, TogglePause, SealDrained,
     vars, local
<1>5. QED
  BY <1>2, <1>3, <1>4 DEF Next

(* Nothing anyone does takes back what a process wrote of its layer. *)
LEMMA WorkKept ==
  ASSUME careful, Owned, Artifacts, [Next]_vars, NEW p \in Procs, pc[p] \in Encoding
  PROVE  LET l == claim[p].layer
             c == claim[p]
         IN  /\ \A e \in Experts : receipts[l][e] = c => receipts'[l][e] = c
             /\ \A e \in Experts : <<c, e>> \in choices => <<c, e>> \in choices'
             /\ hessians \subseteq hessians'
             /\ layerReceipt[l] = c => layerReceipt'[l] = c
<1> DEFINE l == claim[p].layer
           c == claim[p]
<1>0. /\ c \in Claim /\ l \in Layers
      /\ receipts \in [Layers -> [Experts -> Claim \union {NoClaim}]]
      /\ layerReceipt \in [Layers -> Claim \union {NoClaim}]
  BY EncodingClaim DEF Owned, TypeInv, TypeOK
<1>1. rstep # "idle" => l # RecoveredLayer /\ RecoveredLayer \in Layers
  BY LayerFree
<1>2. \A q \in Procs : pc[q] \in Encoding /\ claim[q].layer = l =>
        claim[q] = c
  BY OneClaim DEF Owned, SameLayerSameClaim
<1>3. ASSUME NEW e \in Experts, receipts[l][e] = c PROVE receipts'[l][e] = c
  <2>1. ASSUME NEW q \in Procs, WriteReceipt(q) PROVE receipts'[l][e] = c
    <3>1. pc[q] \in Encoding
      BY <2>1 DEF WriteReceipt, AtExpert, Encoding
    <3>2. claim[q].layer = l => claim[q] = c
      BY <1>2, <3>1
    <3>3. QED
      BY <1>0, <1>3, <2>1, <3>2 DEF WriteReceipt
  <2>2. ASSUME DropReceipt PROVE receipts'[l][e] = c
    BY <1>0, <1>1, <1>3, <2>2 DEF DropReceipt
  <2>3. QED
    BY <1>3, <2>1, <2>2, DiskSteps
<1>4. ASSUME NEW e \in Experts, <<c, e>> \in choices PROVE <<c, e>> \in choices'
  <2>1. ASSUME DropStore PROVE <<c, e>> \in choices'
    BY <1>1, <1>4, <2>1 DEF DropStore
  <2>2. QED
    BY <1>4, <2>1, DiskSteps DEF PutChoices
<1>5. hessians \subseteq hessians'
  BY DiskSteps DEF SaveHessian
<1>6. ASSUME layerReceipt[l] = c PROVE layerReceipt'[l] = c
  <2>1. ASSUME NEW q \in Procs, WriteLayerReceipt(q) PROVE layerReceipt'[l] = c
    <3>1. pc[q] \in Encoding
      BY <2>1 DEF WriteLayerReceipt, Encoding
    <3>2. claim[q].layer = l => claim[q] = c
      BY <1>2, <3>1
    <3>3. QED
      BY <1>0, <1>6, <2>1, <3>2 DEF WriteLayerReceipt
  <2>2. ASSUME DropLayerReceipt PROVE layerReceipt'[l] = c
    BY <1>0, <1>1, <1>6, <2>2 DEF DropLayerReceipt
  <2>3. QED
    BY <1>6, <2>1, <2>2, DiskSteps
<1>7. QED
  BY <1>3, <1>4, <1>5, <1>6

LEMMA NextProgress ==
  ASSUME careful, Owned, Artifacts, [Next]_vars, NEW p \in Procs
  PROVE  Progress(p)'
<1> DEFINE l == claim[p].layer
           c == claim[p]
<1>0. /\ TypeOK /\ TypeInv /\ ReceiptsBacked /\ Progress(p)
      /\ pc[p] \in PC /\ next[p] \in 1..(NumExperts + 1) /\ NumExperts \in Nat
  BY DEF Owned, TypeInv, TypeOK, Artifacts
<1>1. CASE pc'[p] \notin Encoding
  BY <1>1 DEF Progress, Encoding
<1>2. CASE Resume(p) \/ ClaimLayer(p)
  <2>1. pc'[p] = "check" /\ next'[p] = 1
    BY <1>0, <1>2 DEF Resume, ClaimLayer, BeginLayer, TypeOK
  <2>2. QED
    BY <2>1 DEF Progress, Experts
<1>3. CASE pc[p] \in Encoding /\ pc'[p] \in Encoding /\ claim'[p] = c
  <2>0. /\ \A e \in Experts : receipts[l][e] = c => receipts'[l][e] = c
        /\ \A e \in Experts : <<c, e>> \in choices => <<c, e>> \in choices'
        /\ hessians \subseteq hessians'
        /\ layerReceipt[l] = c => layerReceipt'[l] = c
    BY <1>3, WorkKept
  <2>1. CASE pc'[p] = pc[p] /\ next'[p] = next[p]
    BY <1>0, <1>3, <2>0, <2>1 DEF Progress, Chosen, HessianOf
  <2>2. CASE SkipExpert(p)
    <3>1. pc[p] = "check" /\ pc'[p] = "check" /\ next'[p] = next[p] + 1 /\ receipts[l][next[p]] = c
      BY <1>0, <2>2 DEF SkipExpert, AtExpert, NextExpert, Verified, Receipt, TypeOK
    <3>2. QED
      BY <1>0, <1>3, <2>0, <3>1 DEF Progress, Experts
  <2>3. CASE PutChoices(p)
    <3>1. /\ pc[p] = "check" /\ pc'[p] = "chosen" /\ next'[p] = next[p] /\ next[p] \in Experts
          /\ <<c, next[p]>> \in choices'
      BY <1>0, <2>3 DEF PutChoices, AtExpert, TypeOK
    <3>2. QED
      BY <1>0, <1>3, <2>0, <3>1 DEF Progress, Chosen
  <2>4. CASE SaveHessian(p)
    <3>1. /\ pc[p] = "chosen" /\ pc'[p] = "saved" /\ next'[p] = next[p] /\ next[p] \in Experts
          /\ <<l, next[p]>> \in hessians'
      BY <1>0, <2>4 DEF SaveHessian, AtExpert, HessianOf, TypeOK
    <3>2. QED
      BY <1>0, <1>3, <2>0, <3>1 DEF Progress, Chosen, HessianOf
  <2>5. CASE WriteReceipt(p)
    <3>1. pc[p] = "saved" /\ pc'[p] = "check" /\ next'[p] = next[p] + 1
      BY <1>0, <1>3, <2>5 DEF WriteReceipt, AtExpert, NextExpert, Leave, Encoding, TypeOK
    <3>2. next[p] \in Experts /\ receipts'[l][next[p]] = c
      <4>1. l \in Layers
        BY <1>0, <1>3, EncodingClaim
      <4>2. QED
        BY <1>0, <2>5, <4>1 DEF WriteReceipt, AtExpert, TypeOK
    <3>3. QED
      BY <1>0, <1>3, <2>0, <3>1, <3>2 DEF Progress, Experts
  <2>6. CASE BeginReadBack(p)
    <3>1. pc[p] = "check" /\ pc'[p] = "readback" /\ next[p] = NumExperts + 1
      BY <1>0, <2>6 DEF BeginReadBack, TypeOK
    <3>2. QED
      BY <1>0, <1>3, <2>0, <3>1 DEF Progress, Experts
  <2>7. CASE ReadBack(p)
    <3>1. pc[p] = "readback" /\ pc'[p] = "readback"
      BY <1>0, <2>7 DEF ReadBack, AtExpert, TypeOK
    <3>2. QED
      BY <1>0, <1>3, <2>0, <3>1 DEF Progress
  <2>8. CASE WriteLayerReceipt(p)
    <3>1. pc[p] = "readback" /\ pc'[p] = "sealed"
      BY <1>0, <2>8 DEF WriteLayerReceipt, TypeOK
    <3>2. layerReceipt'[l] = c
      <4>1. l \in Layers
        BY <1>0, <1>3, EncodingClaim
      <4>2. QED
        BY <1>0, <2>8, <4>1 DEF WriteLayerReceipt, TypeOK
    <3>3. QED
      BY <1>0, <1>3, <2>0, <3>1, <3>2 DEF Progress
  <2>9. CASE \/ Start(p) \/ Crash(p) \/ ExitClosed(p) \/ Resume(p) \/ ExitPaused(p) \/ ExitDrained(p)
             \/ ClaimLayer(p) \/ RefuseExpert(p) \/ RefuseReadBack(p) \/ Complete(p)
             \/ ClaimVanished(p)
    BY <1>0, <1>2, <1>3, <2>9 DEF Start, Crash, ExitClosed, ExitPaused, ExitDrained,
       RefuseExpert, RefuseReadBack, Complete, ClaimVanished, Leave, Encoding, TypeOK
  <2>10. QED
    BY <1>0, <2>1, <2>2, <2>3, <2>4, <2>5, <2>6, <2>7, <2>8, <2>9, OwnSteps DEF WorkerStep
<1>4. QED
  BY <1>0, <1>1, <1>2, <1>3, EncodingSteps

(* A layer is completed by the one step that found everything of it sealed, *)
(* and what it was completed with stays.                                    *)
LEMMA NextCompletedOnDisk ==
  ASSUME Owned, Artifacts, [Next]_vars
  PROVE  CompletedOnDisk'
<1>0. /\ state.active \in [Workers -> Claim \union {NoClaim}]
      /\ state.completed \in [Layers -> Completion \union {NoClaim}]
      /\ receipts \in [Layers -> [Experts -> Claim \union {NoClaim}]]
      /\ layerReceipt \in [Layers -> Claim \union {NoClaim}]
      /\ \A q \in Procs : WorkerOf[q] \in Workers
  BY DEF Owned, TypeInv, TypeOK, CampaignState
<1>1. ASSUME NEW l \in Layers, Completed(state, l)
      PROVE  LET c == state.completed[l].claim
             IN  layerReceipt'[l] = c /\ \A e \in Experts : receipts'[l][e] = c
  <2> DEFINE c == state.completed[l].claim
  <2>1. layerReceipt[l] = c /\ \A e \in Experts : receipts[l][e] = c
    BY <1>1 DEF Artifacts, CompletedOnDisk
  <2>2. rstep # "idle" => l # RecoveredLayer /\ RecoveredLayer \in Layers
    BY <1>1, LayerFree
  <2>3. ASSUME NEW q \in Procs, pc[q] \in Encoding, claim[q].layer = l
        PROVE  claim[q] = c
    <3>1. ~InFlight(state, l)
      BY <1>1 DEF Owned, Census, CensusOf
    <3>2. QED
      BY <2>3, <3>1, EncodingClaim DEF Owned, OwnsOrDone, InFlight
  <2>4. \A e \in Experts : receipts'[l][e] = c
    <3>1. ASSUME NEW q \in Procs, WriteReceipt(q) PROVE \A e \in Experts : receipts'[l][e] = c
      <4>1. claim[q].layer = l => claim[q] = c
        BY <2>3, <3>1 DEF WriteReceipt, AtExpert, Encoding
      <4>2. QED
        BY <1>0, <2>1, <3>1, <4>1 DEF WriteReceipt
    <3>2. ASSUME DropReceipt PROVE \A e \in Experts : receipts'[l][e] = c
      BY <1>0, <2>1, <2>2, <3>2 DEF DropReceipt
    <3>3. QED
      BY <2>1, <3>1, <3>2, DiskSteps
  <2>5. layerReceipt'[l] = c
    <3>1. ASSUME NEW q \in Procs, WriteLayerReceipt(q) PROVE layerReceipt'[l] = c
      <4>1. claim[q].layer = l => claim[q] = c
        BY <2>3, <3>1 DEF WriteLayerReceipt, Encoding
      <4>2. QED
        BY <1>0, <2>1, <3>1, <4>1 DEF WriteLayerReceipt
    <3>2. ASSUME DropLayerReceipt PROVE layerReceipt'[l] = c
      BY <1>0, <2>1, <2>2, <3>2 DEF DropLayerReceipt
    <3>3. QED
      BY <2>1, <3>1, <3>2, DiskSteps
  <2>6. QED
    BY <2>4, <2>5
<1>2. CASE state'.completed = state.completed
  BY <1>1, <1>2 DEF CompletedOnDisk, Completed
<1>3. ASSUME NEW q \in Procs, Complete(q) PROVE CompletedOnDisk'
  <2> DEFINE d == state.active[WorkerOf[q]]
             row == [claim |-> d, receipt |-> claim[q]]
  <2>1. state'.completed = [state.completed EXCEPT ![d.layer] = row]
    BY <1>3 DEF Complete, CompleteLayer, Successor
  <2>2. claim[q] \in Claim /\ d = claim[q]
    BY <1>3 DEF Complete, Mine, Owned, TypeInv, Bound, Encoding
  <2>3. d.layer \in Layers /\ row \in Completion /\ row # NoClaim /\ d # NoClaim
    BY <2>2 DEF Claim, Completion
  <2>4. \A l \in Layers : l # d.layer => state'.completed[l] = state.completed[l]
    BY <1>0, <2>1, <2>3
  <2>5. state'.completed[d.layer].claim = d
    BY <1>0, <2>1, <2>3
  <2>6. layerReceipt'[d.layer] = d /\ \A e \in Experts : receipts'[d.layer][e] = d
    <3>1. Progress(q) /\ pc[q] = "sealed"
      BY <1>3 DEF Artifacts, Complete
    <3>2. QED
      BY <1>3, <2>2, <3>1 DEF Progress, Complete, disk
  <2> HIDE DEF d, row
  <2>7. QED
    BY <1>1, <2>4, <2>5, <2>6 DEF CompletedOnDisk, Completed
<1>4. QED
  <2>1. ASSUME ~(\E q \in Procs : Complete(q)) PROVE state'.completed = state.completed
    BY <2>1, StateSteps DEF Owned, ClaimLayer, ClaimNextLayer, WriteRecovery,
       RecoverySuccessor, Successor, SealDrained, SealMain, InPhase
  <2>2. QED
    BY <1>2, <1>3, <2>1

(* Under ids of their own, processes hold their claims until they complete  *)
(* them, and no check of theirs fails.                                      *)
LEMMA NextOwnIds ==
  ASSUME careful, DistinctIds, Owned, Artifacts, [Next]_vars, NEW p \in Procs
  PROVE  /\ outcome'[p] # "failed"
         /\ pc'[p] \in Encoding => state'.active[WorkerOf[p]] = claim'[p]
<1>0. /\ TypeOK /\ outcome[p] # "failed" /\ Progress(p) /\ ReceiptsBacked
      /\ pc[p] \in Encoding => state.active[WorkerOf[p]] = claim[p]
      /\ WorkerOf[p] \in Workers
      /\ state.active \in [Workers -> Claim \union {NoClaim}]
  BY DEF Artifacts, Owned, TypeInv, TypeOK, CampaignState
<1>1. ~RefuseExpert(p) /\ ~RefuseReadBack(p) /\ ~ClaimVanished(p)
  <2>1. ASSUME RefuseExpert(p) PROVE FALSE
    <3>1. pc[p] \in Encoding /\ next[p] \in Experts /\ Receipt(p) # NoClaim /\ ~Verified(p)
      BY <2>1 DEF RefuseExpert, AtExpert, Encoding
    <3>2. Receipt(p) = claim[p] /\ claim[p].layer \in Layers
      BY <1>0, <3>1, OwnReceipts, EncodingClaim DEF Receipt, Owned
    <3>3. QED
      BY <1>0, <3>1, <3>2 DEF ReceiptsBacked, Verified, Receipt, Chosen, HessianOf
  <2>2. ASSUME RefuseReadBack(p) PROVE FALSE
    BY <1>0, <2>2 DEF RefuseReadBack, AtExpert, Progress, Receipt
  <2>3. ASSUME ClaimVanished(p) PROVE FALSE
    BY <1>0, <2>3 DEF ClaimVanished, Mine, Encoding
  <2>4. QED
    BY <2>1, <2>2, <2>3
<1>2. WriteReceipt(p) => outcome'[p] # "failed"
  BY <1>0 DEF WriteReceipt, AtExpert, Progress, NextExpert
<1>3. outcome'[p] # "failed"
  BY <1>0, <1>1, <1>2, OwnSteps DEF TypeOK, WorkerStep, Start, Crash, Leave, ExitClosed, Resume,
     BeginLayer, ExitPaused, ExitDrained, ClaimLayer, SkipExpert, NextExpert, PutChoices,
     SaveHessian, BeginReadBack, ReadBack, WriteLayerReceipt, Complete
<1>4. ASSUME pc'[p] \in Encoding PROVE state'.active[WorkerOf[p]] = claim'[p]
  <2>1. CASE pc[p] \in Encoding /\ claim'[p] = claim[p]
    <3>1. Owns(state', WorkerOf[p], claim[p])
      BY <2>1, NextOwns DEF Owned
    <3>2. CASE UNCHANGED state
      BY <1>0, <2>1, <3>2
    <3>3. ASSUME NEW q \in Procs, ClaimLayer(q) \/ Complete(q)
          PROVE  state'.active[WorkerOf[p]] = claim[p]
      <4>1. q # p
        <5>1. ~ClaimLayer(p)
          BY <2>1 DEF ClaimLayer, AtClaimBoundary, Encoding
        <5>2. ~Complete(p)
          BY <1>0, <1>4 DEF Complete, Encoding, TypeOK
        <5>3. QED
          BY <3>3, <5>1, <5>2
      <4>2. WorkerOf[q] # WorkerOf[p] /\ WorkerOf[q] \in Workers
        BY <4>1 DEF DistinctIds
      <4>3. QED
        BY <1>0, <2>1, <3>3, <4>2 DEF ClaimLayer, ClaimNextLayer, Complete, CompleteLayer, Successor
    <3>4. CASE WriteRecovery
      <4>1. rworker # WorkerOf[p]
        BY <2>1, <3>4 DEF WriteRecovery, Owned, OwnsOrDone
      <4>2. QED
        BY <1>0, <2>1, <3>4, <4>1 DEF WriteRecovery, RecoverySuccessor, Successor
    <3>5. CASE SealDrained
      BY <1>0, <2>1, <3>5 DEF SealDrained, SealMain, InPhase
    <3>6. QED
      BY <2>1, <3>2, <3>3, <3>4, <3>5, StateSteps DEF Owned
  <2>2. CASE Resume(p) /\ claim'[p] = Mine(p)
    BY <2>2 DEF Resume, Mine
  <2>3. CASE ClaimLayer(p) /\ claim'[p] = NextClaim(state, WorkerOf[p])
    BY <1>0, <2>3 DEF ClaimLayer, ClaimNextLayer, Successor
  <2>4. QED
    BY <1>4, <2>1, <2>2, <2>3, EncodingSteps DEF Owned
<1>5. QED
  BY <1>3, <1>4

LEMMA NextArtifacts ==
  ASSUME careful, Owned, Artifacts, [Next]_vars
  PROVE  Artifacts'
BY NextBacked, NextQuarantined, NextProgress, NextCompletedOnDisk, NextOwnIds
DEF Artifacts, DistinctIds

(* What the chain records of a completed layer is the claim it was sealed   *)
(* under, also when recovery hits a live worker.                            *)
SealedAsClaimed ==
  \A l \in Layers :
    Completed(state, l) => state.completed[l].receipt = state.completed[l].claim

LEMMA NextSealedAsClaimed ==
  ASSUME TypeInv, SealedAsClaimed, [Next]_vars
  PROVE  SealedAsClaimed'
<1>0. state.completed \in [Layers -> Completion \union {NoClaim}]
  BY DEF TypeInv, TypeOK, CampaignState
<1>1. ASSUME NEW q \in Procs, Complete(q) PROVE SealedAsClaimed'
  <2>1. state'.completed = [state.completed EXCEPT ![claim[q].layer] =
                              [claim |-> claim[q], receipt |-> claim[q]]]
    BY <1>1 DEF Complete, CompleteLayer, Successor, Mine
  <2>2. QED
    BY <1>0, <2>1 DEF SealedAsClaimed, Completed
<1>2. ASSUME ~(\E q \in Procs : Complete(q)) PROVE state'.completed = state.completed
  BY <1>2, StateSteps DEF ClaimLayer, ClaimNextLayer, WriteRecovery,
     RecoverySuccessor, Successor, SealDrained, SealMain, InPhase
<1>3. QED
  BY <1>1, <1>2 DEF SealedAsClaimed, Completed

ArtifactInv ==
  /\ TypeInv /\ Census /\ SealedAsClaimed
  /\ careful => OwnsOrDone /\ Artifacts

LEMMA InitArtifacts == Init => ArtifactInv
<1> SUFFICES ASSUME Init PROVE ArtifactInv
  OBVIOUS
<1>1. \A l \in Layers : ~Completed(state, l)
  BY DEF Init, EnterEncoding, InPhase, InitialState, Completed
<1>2. OwnsOrDone /\ Artifacts
  BY <1>1 DEF Init, OwnsOrDone, Artifacts, ReceiptsBacked, Quarantined, Progress,
     CompletedOnDisk, Encoding
<1>3. QED
  BY <1>1, <1>2, InitTypeInv, InitCensus DEF ArtifactInv, SealedAsClaimed

LEMMA NextArtifactInv == ArtifactInv /\ [Next]_vars => ArtifactInv'
BY NextTypeOK, NextBound, NextCensus, NextSealedAsClaimed, NextOwnsOrDone, NextArtifacts,
   CarefulStays
DEF ArtifactInv, Owned, TypeInv

(* If recovery waits for the worker to be dead and no two processes share   *)
(* an id, no worker is ever refused: not by a receipt of a dead claim, not  *)
(* by a receipt whose choices or Hessian are gone, not because its claim    *)
(* vanished; wherever workers and recoveries were killed.                   *)
THEOREM WorkersNeverRefused == Spec => []NeverRefused
<1>1. ArtifactInv => NeverRefused
  BY DEF ArtifactInv, Artifacts, NeverRefused
<1>2. QED
  BY InitArtifacts, NextArtifactInv, <1>1, PTL DEF Spec

(* What the chain says is completed is on disk under that claim, layer      *)
(* receipt, expert receipts and choices, and stays there; also when         *)
(* processes share an id.                                                   *)
THEOREM CompletedStaysIntact == Spec => []CompletedIntact
<1>1. ArtifactInv => CompletedIntact
  <2> SUFFICES ASSUME ArtifactInv, NEW l \in Layers, Completed(state, l)
               PROVE  /\ state.completed[l].receipt = state.completed[l].claim
                      /\ careful => layerReceipt[l] = state.completed[l].receipt
                      /\ careful => \A e \in Experts :
                           /\ receipts[l][e] = state.completed[l].claim
                           /\ <<state.completed[l].claim, e>> \in choices
    BY DEF CompletedIntact
  <2>1. state.completed[l].receipt = state.completed[l].claim
    BY DEF ArtifactInv, SealedAsClaimed
  <2>2. careful => /\ layerReceipt[l] = state.completed[l].claim
                   /\ \A e \in Experts : receipts[l][e] = state.completed[l].claim
    BY DEF ArtifactInv, Artifacts, CompletedOnDisk
  <2>3. state.completed[l].claim # NoClaim
    BY DEF ArtifactInv, TypeInv, TypeOK, CampaignState, Completed, Completion
  <2>4. careful => \A e \in Experts : <<state.completed[l].claim, e>> \in choices
    BY <2>2, <2>3 DEF ArtifactInv, Artifacts, ReceiptsBacked
  <2>5. QED
    BY <2>1, <2>2, <2>4
<1>2. QED
  BY InitArtifacts, NextArtifactInv, <1>1, PTL DEF Spec

-----------------------------------------------------------------------------
(* Refinement: the campaign implements the ledger of layers and claims.    *)

LEMMA InitLedger == Init => Ledger!Init
<1> SUFFICES ASSUME Init PROVE Ledger!Init
  OBVIOUS
<1>1. /\ state.seq = 1 /\ state.phase = "k35_main_encoding"
      /\ state.active = [w \in Workers |-> NoClaim]
      /\ state.completed = [l \in Layers |-> NoClaim]
  BY DEF Init, EnterEncoding, InPhase, InitialState
<1>2. FinishedBy = [l \in Layers |-> NoClaim]
  BY <1>1 DEF FinishedBy, Completed
<1>3. QED
  BY <1>1, <1>2 DEF Ledger!Init

LEMMA NextLedger ==
  ASSUME TypeInv, Census, [Next]_vars
  PROVE  [Ledger!Next]_(Ledger!ledger)
<1>0. /\ state \in CampaignState /\ state.plan = Plan /\ state.seq \in Nat
      /\ state.active \in [Workers -> Claim \union {NoClaim}]
      /\ state.completed \in [Layers -> Completion \union {NoClaim}]
      /\ \A p \in Procs : WorkerOf[p] \in Workers
  BY DEF TypeInv, TypeOK, Bound, CampaignState
<1>1. CASE UNCHANGED state
  BY <1>1 DEF Ledger!ledger, FinishedBy, Completed
<1>2. ASSUME NEW p \in Procs, ClaimLayer(p) PROVE Ledger!Next
  <2> DEFINE w == WorkerOf[p]
             c == NextClaim(state, w)
  <2>1. /\ state'.active = [state.active EXCEPT ![w] = c]
        /\ state'.completed = state.completed
        /\ state'.seq = state.seq + 1 /\ state'.phase = state.phase
        /\ state.active[w] = NoClaim /\ state.pending # <<>>
        /\ state.phase = "k35_main_encoding"
    BY <1>2 DEF ClaimLayer, ClaimNextLayer, Successor, Mine
  <2>2. c.layer \in Layers /\ c = Ledger!Token(w, c.layer)
    BY <1>0, <2>1, NextClaimType DEF NextClaim, Claim, Ledger!Token
  <2>3. Pending(state, c.layer)
    <3>1. 1 \in DOMAIN state.pending /\ state.pending[1] = c.layer
      BY <1>0, <2>1 DEF NextClaim, CampaignState
    <3>2. QED
      BY <3>1 DEF Pending
  <2>4. ~InFlight(state, c.layer) /\ ~Completed(state, c.layer)
    BY <2>2, <2>3 DEF Census, CensusOf
  <2>5. Ledger!Available(c.layer)
    BY <2>2, <2>4 DEF Ledger!Available, FinishedBy, InFlight
  <2>6. FinishedBy' = FinishedBy
    BY <2>1 DEF FinishedBy, Completed
  <2>7. Ledger!Take(w, c.layer)
    BY <2>1, <2>2, <2>5, <2>6 DEF Ledger!Take
  <2>8. QED
    BY <1>0, <2>2, <2>7 DEF Ledger!Next
<1>3. ASSUME NEW p \in Procs, Complete(p) PROVE Ledger!Next
  <2> DEFINE w == WorkerOf[p]
             c == state.active[w]
             row == [claim |-> c, receipt |-> claim[p]]
  <2>1. /\ state'.active = [state.active EXCEPT ![w] = NoClaim]
        /\ state'.completed = [state.completed EXCEPT ![c.layer] = row]
        /\ state'.seq = state.seq + 1 /\ state'.phase = state.phase
    BY <1>3 DEF Complete, CompleteLayer, Successor
  <2>2. c \in Claim /\ c # NoClaim /\ claim[p] \in Claim
    BY <1>3 DEF Complete, Mine, TypeInv, Bound, Encoding
  <2>3. c.layer \in Layers /\ row \in Completion /\ row # NoClaim
    BY <2>2 DEF Claim, Completion
  <2>4. ~Completed(state, c.layer)
    BY <1>0, <2>2, <2>3 DEF Census, CensusOf, InFlight
  <2>5. FinishedBy[c.layer] = NoClaim
    BY <2>3, <2>4 DEF FinishedBy
  <2>6. FinishedBy' = [FinishedBy EXCEPT ![c.layer] = c]
    <3>1. state'.completed[c.layer] = row
      BY <1>0, <2>1, <2>3
    <3>2. \A l \in Layers : l # c.layer => state'.completed[l] = state.completed[l]
      BY <1>0, <2>1, <2>3
    <3>3. row.claim = c
      OBVIOUS
    <3> HIDE DEF row, c
    <3>4. FinishedBy' = [l \in Layers |-> IF l = c.layer THEN c ELSE FinishedBy[l]]
      BY <3>1, <3>2, <3>3, <2>3 DEF FinishedBy, Completed
    <3>5. QED
      BY <3>4, <2>3 DEF FinishedBy
  <2>7. Ledger!Finish(w)
    BY <2>1, <2>2, <2>5, <2>6 DEF Ledger!Finish
  <2>8. QED
    BY <1>0, <2>7 DEF Ledger!Next
<1>4. CASE WriteRecovery
  <2>1. /\ state'.active = [state.active EXCEPT ![rworker] = NoClaim]
        /\ state'.completed = state.completed
        /\ state'.seq = state.seq + 1 /\ state'.phase = state.phase
    BY <1>4 DEF WriteRecovery, RecoverySuccessor, Successor
  <2>2. state.active[rworker] # NoClaim /\ rworker \in Workers
    BY <1>4 DEF WriteRecovery, TypeInv, Bound, TypeOK
  <2>3. FinishedBy' = FinishedBy
    BY <2>1 DEF FinishedBy, Completed
  <2>4. Ledger!Release(rworker)
    BY <2>1, <2>2, <2>3 DEF Ledger!Release
  <2>5. QED
    BY <2>2, <2>4 DEF Ledger!Next
<1>5. CASE SealDrained
  <2>1. /\ state'.active = state.active /\ state'.completed = state.completed
        /\ state'.seq = state.seq + 1 /\ state'.phase = "k35_main_encoded"
        /\ state.phase # "k35_main_encoded"
        /\ \A l \in Layers : Completed(state, l)
    BY <1>5 DEF SealDrained, SealMain, InPhase, Completed
  <2>2. FinishedBy' = FinishedBy
    BY <2>1 DEF FinishedBy, Completed
  <2>3. \A l \in Layers : state.completed[l] \in Completion
    BY <1>0, <2>1 DEF Completed
  <2>4. \A l \in Layers : FinishedBy[l] # NoClaim
    BY <2>1, <2>3 DEF FinishedBy, Completion
  <2>5. Ledger!Close
    BY <2>1, <2>2, <2>4 DEF Ledger!Close
  <2>6. QED
    BY <2>5 DEF Ledger!Next
<1>6. QED
  BY <1>1, <1>2, <1>3, <1>4, <1>5, StateSteps

(* The campaign implements the ledger: every locked transition is a take,  *)
(* a release, a finish or the close, whatever the encoders do meanwhile,   *)
(* even when recovery hits a worker that is alive.                         *)
THEOREM ImplementsLedger == Spec => LedgerSpec
<1>1. TypeInv /\ Census /\ [Next]_vars => TypeInv' /\ Census'
  BY NextTypeOK, NextBound, NextCensus DEF TypeInv
<1>2. TypeInv /\ Census /\ [Next]_vars => [Ledger!Next]_(Ledger!ledger)
  BY NextLedger
<1>3. QED
  BY InitTypeInv, InitCensus, InitLedger, <1>1, <1>2, PTL
  DEF Spec, LedgerSpec, Ledger!Spec
=============================================================================
