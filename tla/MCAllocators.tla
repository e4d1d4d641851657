---------------------------- MODULE MCAllocators ----------------------------
(* The two allocators.  They share nothing, so a behaviour is that of one   *)
(* of them, beside the other in its initial state.                         *)
EXTENDS SlabAlloc, ChunkAlloc

VARIABLE part      \* the allocator in use

allVars == <<slabVars, vars, part>>

AllInit == SlabInit /\ Init /\ part \in {"slab", "chunk"}

\* A process that crashed has stopped for good.
AllNext ==
  \/ part = "slab" /\ SlabNext /\ UNCHANGED <<vars, part>>
  \/ part = "chunk" /\ Next /\ UNCHANGED <<slabVars, part>>
  \/ crashed /\ UNCHANGED allVars

AllSpec == AllInit /\ [][AllNext]_allVars
=============================================================================
