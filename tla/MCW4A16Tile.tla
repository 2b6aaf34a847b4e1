----------------------------- MODULE MCW4A16Tile -----------------------------
EXTENDS W4A16Tile

\* tile_k 32, 64 and 128.
Wide == [rows |-> 1, cols |-> 2, mBlocks |-> 1]
Square == [rows |-> 2, cols |-> 1, mBlocks |-> 2]
Deep == [rows |-> 4, cols |-> 1, mBlocks |-> 1]

Kinds == {"packed", "direct"}

\* Fewer tiles than stages, and past the ring's end.
Short(kind) == [kind |-> kind, first |-> 0, tiles |-> 1, merge |-> FALSE, store |-> TRUE]
Long(kind) == [kind |-> kind, first |-> 3, tiles |-> 6, merge |-> TRUE, store |-> FALSE]
Final(kind) == [kind |-> kind, first |-> 1, tiles |-> 2, merge |-> TRUE, store |-> TRUE]

MCCases == ({Wide, Square} \X UNION {{<<Short(k), Long(k)>>, <<Long(k), Final(k)>>} : k \in Kinds})
           \cup {<<Deep, <<Final(k), Short(k)>>>> : k \in Kinds}
           \cup {<<Square, <<Short("packed"), Final("direct"), Short("packed")>>>>}
=============================================================================
