---------------------------- MODULE MCDFlashDraft ---------------------------
(* Two request slots under three draft configurations: DFlash with two     *)
(* KV-cache groups and a query graph of two requests; a sampling anchor    *)
(* with a rolling window and a context graph; and target blocks of another *)
(* size, which some restored prefixes do not fill.                         *)
EXTENDS DFlashDraft, TLC

CONSTANTS r1, r2

TwoReqs == {r1, r2}

Dflash == [block |-> 2, sizes |-> {2}, maxLen |-> 8, depth |-> 2, anchor |-> FALSE,
           groups |-> 2, window |-> 0, graphs |-> {2}, contexts |-> {}, tokens |-> 10,
           prompts |-> {<<1, 0>>, <<3, 2>>, <<5, 4>>}]

Windowed == [block |-> 2, sizes |-> {2}, maxLen |-> 8, depth |-> 2, anchor |-> TRUE,
             groups |-> 2, window |-> 2, graphs |-> {}, contexts |-> {2, 6}, tokens |-> 10,
             prompts |-> {<<5, 0>>, <<3, 2>>}]

Mixed == [block |-> 2, sizes |-> {2, 4}, maxLen |-> 6, depth |-> 1, anchor |-> FALSE,
          groups |-> 1, window |-> 0, graphs |-> {}, contexts |-> {}, tokens |-> 6,
          prompts |-> {<<1, 0>>, <<3, 2>>}]

DraftConfigs == {Dflash, Windowed, Mixed}

Symmetry == Permutations(TwoReqs)
=============================================================================
