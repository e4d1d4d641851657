----------------------------- MODULE MCCBuffer -----------------------------
(* Two buffers of different capacities, so that copies between them meet   *)
(* every wrap of one with every wrap of the other.                         *)
EXTENDS CBuffer, TLC

CONSTANTS b1, b2

MCcap == b1 :> 3 @@ b2 :> 2
Symmetry == Permutations(Bytes)

\* No step looks at out: states that differ only there take the same steps.
RingsOnly == buf
=============================================================================
