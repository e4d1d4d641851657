------------------------------ MODULE MCFiles ------------------------------
(* Two threads, an empty file and one of three bytes, requests of one buffer *)
(* shorter and longer than a DWORD can say, vectors with an empty buffer.    *)
EXTENDS Files

CONSTANTS c1, c2

MCVectors == {<<2, 1>>, <<0, 2>>, <<1, 0>>}
MCInitialFiles == {<<>>, [i \in 1 .. 3 |-> <<c1, 10 + i>>]}

=============================================================================
