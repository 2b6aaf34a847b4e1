---------------------------- MODULE LayerLedger ----------------------------
(***************************************************************************)
(* What the encode campaign promises about its layers, whatever files and  *)
(* processes realise it: a worker holds at most one layer, a layer is held *)
(* by at most one worker under a token that was never issued before, it is *)
(* finished at most once and by the token that holds it, and the campaign  *)
(* is closed only when every layer is finished.                            *)
(***************************************************************************)
EXTENDS Naturals

CONSTANTS Plan, Workers, Layers, Nobody

VARIABLES held,      \* worker -> the token it holds, or Nobody
          finished,  \* layer -> the token that finished it, or Nobody
          epoch,     \* tokens are stamped with it; it only grows
          closed

ledger == <<held, finished, epoch, closed>>

Token(w, l) == [plan |-> Plan, parent |-> epoch, worker |-> w, layer |-> l]

Available(l) ==
  /\ finished[l] = Nobody
  /\ \A w \in Workers : held[w] # Nobody => held[w].layer # l

Init ==
  /\ held = [w \in Workers |-> Nobody]
  /\ finished = [l \in Layers |-> Nobody]
  /\ epoch = 1
  /\ closed = FALSE

Take(w, l) ==
  /\ ~closed
  /\ held[w] = Nobody
  /\ Available(l)
  /\ held' = [held EXCEPT ![w] = Token(w, l)]
  /\ epoch' = epoch + 1
  /\ UNCHANGED <<finished, closed>>

Release(w) ==
  /\ held[w] # Nobody
  /\ held' = [held EXCEPT ![w] = Nobody]
  /\ epoch' = epoch + 1
  /\ UNCHANGED <<finished, closed>>

Finish(w) ==
  /\ held[w] # Nobody
  /\ finished[held[w].layer] = Nobody
  /\ finished' = [finished EXCEPT ![held[w].layer] = held[w]]
  /\ held' = [held EXCEPT ![w] = Nobody]
  /\ epoch' = epoch + 1
  /\ UNCHANGED closed

Close ==
  /\ ~closed
  /\ \A l \in Layers : finished[l] # Nobody
  /\ closed' = TRUE
  /\ epoch' = epoch + 1
  /\ UNCHANGED <<held, finished>>

Next ==
  \/ \E w \in Workers, l \in Layers : Take(w, l)
  \/ \E w \in Workers : Release(w) \/ Finish(w)
  \/ Close

Spec == Init /\ [][Next]_ledger
=============================================================================
