------------------------------ MODULE SlabAlloc ------------------------------
(***************************************************************************)
(* The slab allocator of src/memory/slab_alloc.c.  A slab is a page from   *)
(* the heap with Cap blocks and a LIFO list of its free ones; the slabs    *)
(* form a doubly linked list, newest first, kept here as a sequence, and   *)
(* the allocator remembers one of them in current.  Every operation runs   *)
(* under the allocator's latch from its first access to its last, so each  *)
(* path through an operation is one step.                                  *)
(*                                                                         *)
(* The callers free only blocks that they own, and stop using all of them  *)
(* when they destroy the allocator.                                        *)
(***************************************************************************)
EXTENDS Integers, FiniteSets, SequencesExt

CONSTANTS
  Pages,   \* the pages that the heap can give out, one slab each
  Cap,     \* cap_per_slab
  NoSlab   \* the null pointer

ASSUME SlabAssumption == /\ IsFiniteSet(Pages)
                         /\ NoSlab \notin Pages
                         /\ Cap \in Nat \ {0}

VARIABLES
  slabs,       \* the list from alloc->head
  current,     \* alloc->current
  freelist,    \* s->freelist of each page, next block to hand out first
  usedBlocks,  \* s->used of each page
  heap,        \* the pages that i_malloc gave out and i_free did not take back
  liveBlocks   \* the blocks that the callers own

slabVars == <<slabs, current, freelist, usedBlocks, heap, liveBlocks>>

Slots  == 1..Cap
Blocks == Pages \X Slots
ListedSlabs == {slabs[i] : i \in DOMAIN slabs}
LiveOf(p) == {k \in Slots : <<p, k>> \in liveBlocks}

-----------------------------------------------------------------------------
\* slab_alloc_init; a page that is no slab holds nothing of interest.
SlabInit ==
  /\ slabs = <<>>
  /\ current = NoSlab
  /\ freelist = [p \in Pages |-> <<>>]
  /\ usedBlocks = [p \in Pages |-> 0]
  /\ heap = {}
  /\ liveBlocks = {}

\* The first block of list, the free blocks of p, goes to the caller.
Take(p, list) ==
  /\ freelist' = [freelist EXCEPT ![p] = Tail(list)]
  /\ usedBlocks' = [usedBlocks EXCEPT ![p] = @ + 1]
  /\ liveBlocks' = liveBlocks \cup {<<p, Head(list)>>}

HotPath == current # NoSlab /\ freelist[current] # <<>>

\* slab_alloc_alloc finds a block in the slab it remembers.
AllocHot ==
  /\ HotPath
  /\ Take(current, freelist[current])
  /\ UNCHANGED <<slabs, current, heap>>

\* It walks the list to the first slab with a free block.
AllocWalk(i) ==
  /\ ~HotPath
  /\ i \in DOMAIN slabs
  /\ freelist[slabs[i]] # <<>>
  /\ \A j \in 1..(i - 1) : freelist[slabs[j]] = <<>>
  /\ current' = slabs[i]
  /\ Take(slabs[i], freelist[slabs[i]])
  /\ UNCHANGED <<slabs, heap>>

\* Mutant: a new slab is made as soon as the remembered one is full.
FullCurrent == IF current = NoSlab THEN TRUE ELSE freelist[current] = <<>>

\* No slab has a free block.
Full == \A p \in ListedSlabs : freelist[p] = <<>>

\* slab_alloc_extend: page p becomes a slab with every block free.
AllocExtend(p) ==
  /\ ~HotPath /\ Full
  /\ p \in Pages \ heap
  /\ heap' = heap \cup {p}
  /\ slabs' = <<p>> \o slabs
  /\ current' = p
  /\ freelist' = [freelist EXCEPT ![p] = [i \in 1..(Cap - 1) |-> i + 1]]
  /\ usedBlocks' = [usedBlocks EXCEPT ![p] = 1]
  /\ liveBlocks' = liveBlocks \cup {<<p, 1>>}

\* The heap has no page: the call returns NULL.
AllocFails ==
  /\ ~HotPath /\ Full
  /\ UNCHANGED slabVars

\* The slab at place i of the list is the one that holds slot k of its page.
Give(i, k) ==
  /\ freelist' = [freelist EXCEPT ![slabs[i]] = <<k>> \o @]
  /\ usedBlocks' = [usedBlocks EXCEPT ![slabs[i]] = @ - 1]
  /\ liveBlocks' = liveBlocks \ {<<slabs[i], k>>}

\* current after a block of p was freed, before p is given back to the heap.
Remember(p) ==
  IF current = NoSlab \/ freelist'[current] = <<>> THEN p ELSE current

\* The slab is not empty, or has neither next nor prev.
Stays(i) == usedBlocks'[slabs[i]] # 0 \/ Len(slabs) = 1

\* slab_alloc_free, the slab stays.
FreeBlock(i, k) ==
  /\ i \in DOMAIN slabs /\ <<slabs[i], k>> \in liveBlocks
  /\ Give(i, k)
  /\ Stays(i)
  /\ current' = Remember(slabs[i])
  /\ UNCHANGED <<slabs, heap>>

\* Mutant: the page is given back and current is not cleared.
ForgetKeepsCurrent(p) == Remember(p)

\* current after p was given back to the heap.
Forget(p) == IF Remember(p) = p THEN NoSlab ELSE Remember(p)

\* The list without the slab at place i.
Unlink(i) == RemoveAt(slabs, i)

\* slab_alloc_free, an empty slab goes back to the heap.
FreeSlab(i, k) ==
  /\ i \in DOMAIN slabs /\ <<slabs[i], k>> \in liveBlocks
  /\ Give(i, k)
  /\ ~Stays(i)
  /\ current' = Forget(slabs[i])
  /\ slabs' = Unlink(i)
  /\ heap' = heap \ {slabs[i]}

\* slab_alloc_destroy
Destroy ==
  /\ slabs' = <<>>
  /\ current' = NoSlab
  /\ heap' = heap \ ListedSlabs
  /\ liveBlocks' = {}
  /\ UNCHANGED <<freelist, usedBlocks>>

SlabNext ==
  \/ AllocHot
  \/ \E i \in DOMAIN slabs : AllocWalk(i)
  \/ \E p \in Pages : AllocExtend(p)
  \/ AllocFails
  \/ \E i \in DOMAIN slabs, k \in Slots : FreeBlock(i, k) \/ FreeSlab(i, k)
  \/ Destroy

SlabSpec == SlabInit /\ [][SlabNext]_slabVars

-----------------------------------------------------------------------------
\* Types; a page is in the list once.
SlabTypeOK ==
  /\ slabs \in Seq(Pages)
  /\ \A i, j \in DOMAIN slabs : slabs[i] = slabs[j] => i = j
  /\ current \in Pages \cup {NoSlab}
  /\ freelist \in [Pages -> Seq(Slots)]
  /\ usedBlocks \in [Pages -> Nat]
  /\ heap \subseteq Pages
  /\ liveBlocks \subseteq Blocks

\* A block is owned by one caller or is once on the free list of its slab,
\* and used counts the blocks that are owned (test slab_alloc_no_duplicates).
BlocksAccountedFor ==
  \A p \in ListedSlabs :
    /\ usedBlocks[p] = Cardinality(LiveOf(p))
    /\ \A i, j \in DOMAIN freelist[p] : freelist[p][i] = freelist[p][j] => i = j
    /\ {freelist[p][i] : i \in DOMAIN freelist[p]} = Slots \ LiveOf(p)

\* The pages from the heap are the slabs of the list: none is lost, and none is
\* given back while a caller owns a block of it or alloc->current points to it.
NothingDangles ==
  /\ heap = ListedSlabs
  /\ \A b \in liveBlocks : b[1] \in ListedSlabs
  /\ current # NoSlab => current \in ListedSlabs

\* Empty slabs go back to the heap: one is kept only when there is no other.
EmptySlabIsAlone ==
  \A i \in DOMAIN slabs : usedBlocks[slabs[i]] = 0 => Len(slabs) = 1

\* Blocks, slabs and pages are accounted for, on every path of
\* slab_alloc_alloc and slab_alloc_free.
SlabInv == SlabTypeOK /\ BlocksAccountedFor /\ NothingDangles /\ EmptySlabIsAlone

\* The allocator asks the heap for a page only when every block it has is owned
\* by a caller.
GrowsOnlyWhenFull ==
  [][Len(slabs') > Len(slabs) => \A p \in ListedSlabs : LiveOf(p) = Slots]_slabVars
=============================================================================
