------------------------ MODULE MCMcgMaterializer ---------------------------
(* Small instances of McgMaterializer: the first shard is routed, a native   *)
(* one follows.                                                               *)
EXTENDS McgMaterializer

CONSTANTS p1, p2

FirstRouted == {1}

(* One pack at a time, with re-encodings between its runs; two packs of one *)
(* surface at once; two packs with a re-encoding between or under them.    *)
AloneOrPair ==
  {[packers |-> {p1}, versions |-> MaxVersion],
   [packers |-> {p1, p2}, versions |-> 1],
   [packers |-> {p1, p2}, versions |-> 2]}
=============================================================================
