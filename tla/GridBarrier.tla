----------------------------- MODULE GridBarrier -----------------------------
(***************************************************************************)
(* The sense-reversing barrier of the persistent W4A16 kernels             *)
(* (W4A16FusedMoeKernel._grid_barrier) over the two words of the           *)
(* workspace it owns, across launches that share that workspace.  A CTA is *)
(* represented by its thread 0: the other threads stand at the             *)
(* sync_threads on either side.                                            *)
(***************************************************************************)
EXTENDS Integers, FiniteSets

CONSTANTS CtaIds,      \* every CTA index any launch may use
          SenseWidth   \* number of values of the sense word (2^32 in the code)

ASSUME CtaIdsAssumption == IsFiniteSet(CtaIds) /\ CtaIds \subseteq Nat
ASSUME SenseWidthAssumption == SenseWidth \in Nat /\ SenseWidth >= 2

VARIABLES members,   \* the CTAs of the running launch; {} when none runs
          rounds,    \* how many barriers its program crosses
          at,        \* where each CTA's thread 0 is
          passed,    \* how many barriers the CTA has crossed
          seen,      \* old_sense, the sense read on entry
          count,     \* workspace[barrier_count_off]
          sense      \* workspace[barrier_sense_off]

barrierVars == <<members, rounds, at, passed, seen, count, sense>>

Nothing == [c \in {} |-> 0]

Places == {"run", "add", "reset", "publish", "spin"}

NextSense(s) == IF s = SenseWidth - 1 THEN 0 ELSE s + 1

BarrierInit == /\ members = {}
               /\ rounds = 0
               /\ at = Nothing
               /\ passed = Nothing
               /\ seen = Nothing
               /\ count = 0
               /\ sense = 0

\* The stream starts the next kernel: all of the last one's CTAs have exited.
BarrierLaunch(S, n) == /\ members = {}
                       /\ members' = S
                       /\ rounds' = n
                       /\ at' = [c \in S |-> "run"]
                       /\ passed' = [c \in S |-> 0]
                       /\ seen' = [c \in S |-> 0]
                       /\ UNCHANGED <<count, sense>>

\* Every CTA has run its last phase: the kernel is over.
BarrierFinish == /\ members # {}
                 /\ \A c \in members : at[c] = "run" /\ passed[c] = rounds
                 /\ members' = {}
                 /\ at' = Nothing
                 /\ passed' = Nothing
                 /\ seen' = Nothing
                 /\ UNCHANGED <<rounds, count, sense>>

\* old_sense = ld_acquire(sense)
Enter(c) == /\ at[c] = "run"
            /\ passed[c] < rounds
            /\ seen' = [seen EXCEPT ![c] = sense]
            /\ at' = [at EXCEPT ![c] = "add"]
            /\ UNCHANGED <<members, rounds, passed, count, sense>>

\* One CTA too few is waited for.
AddClosesEarly(c) ==
    /\ at[c] = "add"
    /\ count' = count + 1
    /\ at' = [at EXCEPT ![c] = IF count >= Cardinality(members) - 2
                               THEN "reset" ELSE "spin"]
    /\ UNCHANGED <<members, rounds, passed, seen, sense>>

\* old_count = atomic_add(count, 1): the last to arrive goes on to reset.
Add(c) == /\ at[c] = "add"
          /\ count' = count + 1
          /\ at' = [at EXCEPT ![c] = IF count = Cardinality(members) - 1
                                     THEN "reset" ELSE "spin"]
          /\ UNCHANGED <<members, rounds, passed, seen, sense>>

\* st(count, 0), ordered before the next step by the threadfence
Reset(c) == /\ at[c] = "reset"
            /\ count' = 0
            /\ at' = [at EXCEPT ![c] = "publish"]
            /\ UNCHANGED <<members, rounds, passed, seen, sense>>

\* red_add_release(sense, 1): the last to arrive lets everyone go.
Publish(c) == /\ at[c] = "publish"
              /\ sense' = NextSense(sense)
              /\ at' = [at EXCEPT ![c] = "run"]
              /\ passed' = [passed EXCEPT ![c] = @ + 1]
              /\ UNCHANGED <<members, rounds, seen, count>>

\* while sense == old_sense: the spinning thread sees another value.
Released(c) == /\ at[c] = "spin"
               /\ sense # seen[c]
               /\ at' = [at EXCEPT ![c] = "run"]
               /\ passed' = [passed EXCEPT ![c] = @ + 1]
               /\ UNCHANGED <<members, rounds, seen, count, sense>>

BarrierStep(c) == Enter(c) \/ Add(c) \/ Reset(c) \/ Publish(c) \/ Released(c)

BarrierNext == \/ \E S \in (SUBSET CtaIds) \ {{}}, n \in Nat : BarrierLaunch(S, n)
               \/ BarrierFinish
               \/ \E c \in members : BarrierStep(c)

BarrierSpec == BarrierInit /\ [][BarrierNext]_barrierVars

-----------------------------------------------------------------------------
\* A CTA that has entered counts as having reached the next rendezvous.
ReachedRendezvous ==
    [c \in members |-> IF at[c] \in {"reset", "publish", "spin"}
                       THEN passed[c] + 1 ELSE passed[c]]

Phases == INSTANCE PhaseBarrier WITH reached <- ReachedRendezvous, left <- passed

\* The words in the workspace implement the barrier: no CTA leaves a
\* rendezvous that another CTA of the launch has not reached, whatever value
\* of the sense word an earlier launch left behind.
ImplementsPhases == Phases!Spec
=============================================================================
