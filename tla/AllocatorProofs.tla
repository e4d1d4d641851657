-------------------------- MODULE AllocatorProofs --------------------------
(***************************************************************************)
(* Proofs about the two allocators, SlabAlloc and ChunkAlloc.              *)
(*                                                                         *)
(* SlabAlloc, for any finite set of pages and any number of blocks per     *)
(* slab: blocks are owned once, slabs are not freed in use, an empty slab  *)
(* is alone, and the allocator grows only when it is full.                 *)
(*                                                                         *)
(* ChunkAlloc, for any settings, any finite set of chunks and any sizes:   *)
(* regions are disjoint and lie in chunks that exist, the limits of the    *)
(* settings hold, and the counters are those of the list.                  *)
(***************************************************************************)
EXTENDS SlabAlloc, ChunkAlloc, FiniteSetTheorems, SequenceTheorems,
        WellFoundedInduction, TLAPS

-----------------------------------------------------------------------------
\* The slab allocator.

\* BlocksAccountedFor for one slab.
Accounted(list, n, owned) ==
  /\ n = Cardinality(owned)
  /\ \A i, j \in DOMAIN list : list[i] = list[j] => i = j
  /\ {list[i] : i \in DOMAIN list} = Slots \ owned

\* The inductive invariant: the accounts of each slab tell when it is empty and
\* when it is full, which the other two parts depend on.
SlabIInv == SlabTypeOK /\ BlocksAccountedFor /\ NothingDangles /\ EmptySlabIsAlone

-----------------------------------------------------------------------------
\* The blocks of a slab can be counted.
LEMMA SlotsFinite == /\ IsFiniteSet(Slots)
                     /\ \A S \in SUBSET Slots : IsFiniteSet(S) /\ Cardinality(S) \in Nat
<1>1. IsFiniteSet(Slots)
  BY SlabAssumption, FS_Interval DEF Slots
<1>2. \A S \in SUBSET Slots : IsFiniteSet(S)
  BY <1>1, FS_Subset
<1>3. QED
  BY <1>1, <1>2, FS_CardinalityType

\* Handing out the first free block keeps the accounts of a slab.
LEMMA TakeAccounted ==
  ASSUME NEW list \in Seq(Slots), NEW n, NEW owned \in SUBSET Slots,
         Accounted(list, n, owned), list # <<>>
  PROVE  /\ Tail(list) \in Seq(Slots) /\ Head(list) \in Slots
         /\ Head(list) \notin owned
         /\ Accounted(Tail(list), n + 1, owned \cup {Head(list)})
<1>1. Len(list) \in Nat \ {0} /\ DOMAIN list = 1..Len(list)
  BY EmptySeq, LenProperties
<1>2. /\ Head(list) = list[1] /\ list[1] \in Slots
      /\ Tail(list) \in Seq(Slots) /\ Len(Tail(list)) = Len(list) - 1
      /\ \A i \in 1..(Len(list) - 1) : Tail(list)[i] = list[i + 1]
  BY <1>1, HeadTailProperties
<1>3. DOMAIN Tail(list) = 1..(Len(list) - 1)
  BY <1>2, LenProperties
<1>4. list[1] \notin owned
  BY <1>1 DEF Accounted
<1>5. Cardinality(owned \cup {Head(list)}) = n + 1
  BY <1>2, <1>4, SlotsFinite, FS_AddElement DEF Accounted
<1>6. \A i, j \in DOMAIN Tail(list) : Tail(list)[i] = Tail(list)[j] => i = j
  <2> SUFFICES ASSUME NEW i \in 1..(Len(list) - 1), NEW j \in 1..(Len(list) - 1),
                      list[i + 1] = list[j + 1]
               PROVE  i = j
    BY <1>2, <1>3
  <2>1. i + 1 \in DOMAIN list /\ j + 1 \in DOMAIN list
    BY <1>1
  <2>2. i + 1 = j + 1
    BY <2>1 DEF Accounted
  <2>3. QED
    BY <2>2
<1>7. ASSUME NEW k
      PROVE  k \in {Tail(list)[i] : i \in DOMAIN Tail(list)}
               <=> k \in {list[i] : i \in DOMAIN list} /\ k # list[1]
  <2>1. ASSUME NEW i \in DOMAIN Tail(list), Tail(list)[i] = k
        PROVE  k \in {list[j] : j \in DOMAIN list} /\ k # list[1]
    <3>1. i + 1 \in DOMAIN list /\ list[i + 1] = k /\ i + 1 # 1 /\ 1 \in DOMAIN list
      BY <1>1, <1>2, <1>3, <2>1
    <3>2. QED
      BY <3>1 DEF Accounted
  <2>2. ASSUME NEW i \in DOMAIN list, list[i] = k, k # list[1]
        PROVE  k \in {Tail(list)[j] : j \in DOMAIN Tail(list)}
    <3>1. i - 1 \in DOMAIN Tail(list) /\ Tail(list)[i - 1] = k
      BY <1>1, <1>2, <1>3, <2>2
    <3>2. QED
      BY <3>1
  <2>3. QED
    BY <2>1, <2>2
<1>8. {Tail(list)[i] : i \in DOMAIN Tail(list)} = Slots \ (owned \cup {Head(list)})
  BY <1>2, <1>7 DEF Accounted
<1>9. QED
  BY <1>2, <1>4, <1>5, <1>6, <1>8 DEF Accounted

\* Taking back an owned block keeps the accounts of a slab.
LEMMA GiveAccounted ==
  ASSUME NEW list \in Seq(Slots), NEW n, NEW owned \in SUBSET Slots,
         Accounted(list, n, owned), NEW k \in owned
  PROVE  /\ <<k>> \o list \in Seq(Slots) /\ <<k>> \o list # <<>>
         /\ n - 1 \in Nat
         /\ Accounted(<<k>> \o list, n - 1, owned \ {k})
<1> DEFINE new == <<k>> \o list
<1>1. Len(list) \in Nat /\ DOMAIN list = 1..Len(list)
  BY LenProperties
<1>2. /\ new \in Seq(Slots) /\ Len(new) = Len(list) + 1
      /\ new[1] = k
      /\ \A i \in 1..Len(list) : new[i + 1] = list[i]
  <2>1. <<k>> \in Seq(Slots) /\ Len(<<k>>) = 1 /\ <<k>>[1] = k
    OBVIOUS
  <2>2. \A i \in 1..(1 + Len(list)) : new[i] = IF i <= 1 THEN <<k>>[i] ELSE list[i - 1]
    BY <2>1, ConcatProperties
  <2>3. QED
    BY <1>1, <2>1, <2>2, ConcatProperties
<1> HIDE DEF new
<1>3. DOMAIN new = 1..(Len(list) + 1)
  BY <1>2, LenProperties
<1>4. k \notin {list[i] : i \in DOMAIN list}
  BY DEF Accounted
<1>5. \A i \in DOMAIN new : i # 1 => i - 1 \in DOMAIN list /\ new[i] = list[i - 1]
  <2> SUFFICES ASSUME NEW i \in DOMAIN new, i # 1
               PROVE  i - 1 \in DOMAIN list /\ new[i] = list[i - 1]
    OBVIOUS
  <2>1. i - 1 \in 1..Len(list) /\ (i - 1) + 1 = i
    BY <1>1, <1>3
  <2>2. QED
    BY <1>1, <1>2, <2>1
<1>6. \A i, j \in DOMAIN new : new[i] = new[j] => i = j
  <2> SUFFICES ASSUME NEW i \in DOMAIN new, NEW j \in DOMAIN new, new[i] = new[j]
               PROVE  i = j
    OBVIOUS
  <2>1. CASE i = 1 \/ j = 1
    BY <1>2, <1>4, <1>5, <2>1
  <2>2. CASE i # 1 /\ j # 1
    <3>1. i - 1 = j - 1
      BY <1>5, <2>2 DEF Accounted
    <3>2. QED
      BY <1>1, <1>3, <3>1
  <2>3. QED
    BY <2>1, <2>2
<1>7. {new[i] : i \in DOMAIN new} = {list[i] : i \in DOMAIN list} \cup {k}
  <2>1. \A i \in DOMAIN new : new[i] \in {list[j] : j \in DOMAIN list} \cup {k}
    BY <1>2, <1>5
  <2>2. \A j \in DOMAIN list : j + 1 \in DOMAIN new /\ new[j + 1] = list[j]
    BY <1>1, <1>2, <1>3
  <2>3. 1 \in DOMAIN new /\ new[1] = k
    BY <1>1, <1>2, <1>3
  <2>4. QED
    BY <2>1, <2>2, <2>3
<1>8. n - 1 \in Nat /\ Cardinality(owned \ {k}) = n - 1
  <2>1. IsFiniteSet(owned) /\ Cardinality(owned) = n /\ n \in Nat
    BY SlotsFinite DEF Accounted
  <2>2. n # 0
    BY <2>1, FS_EmptySet
  <2>3. Cardinality(owned \ {k}) = n - 1
    BY <2>1, FS_RemoveElement
  <2>4. QED
    BY <2>1, <2>2, <2>3
<1>9. {new[i] : i \in DOMAIN new} = Slots \ (owned \ {k})
  BY <1>7 DEF Accounted
<1>10. new # <<>>
  BY <1>1, <1>2
<1>11. QED
  BY <1>2, <1>6, <1>8, <1>9, <1>10 DEF Accounted, new

\* A new slab whose first block went to the caller.
LEMMA FreshAccounted ==
  LET fresh == [i \in 1..(Cap - 1) |-> i + 1] IN
    fresh \in Seq(Slots) /\ Accounted(fresh, 1, {1})
<1> DEFINE fresh == [i \in 1..(Cap - 1) |-> i + 1]
<1>1. fresh \in Seq(Slots)
  <2>1. Cap - 1 \in Nat /\ \A i \in 1..(Cap - 1) : i + 1 \in Slots
    BY SlabAssumption DEF Slots
  <2>2. QED
    BY <2>1
<1>2. {fresh[i] : i \in DOMAIN fresh} = Slots \ {1}
  <2>1. \A k \in Slots \ {1} : k - 1 \in 1..(Cap - 1) /\ fresh[k - 1] = k
    BY SlabAssumption DEF Slots
  <2>2. \A i \in 1..(Cap - 1) : fresh[i] \in Slots \ {1}
    BY SlabAssumption DEF Slots
  <2>3. DOMAIN fresh = 1..(Cap - 1)
    OBVIOUS
  <2> HIDE DEF fresh
  <2>4. QED
    BY <2>1, <2>2, <2>3
<1>3. Cardinality({1}) = 1
  BY FS_EmptySet, FS_AddElement
<1>4. QED
  BY <1>1, <1>2, <1>3 DEF Accounted

\* A sequence without its element at place k, place by place.
LEMMA RemoveAtPlaces ==
  ASSUME NEW S, NEW s \in Seq(S), NEW k \in 1..Len(s)
  PROVE  /\ RemoveAt(s, k) \in Seq(S)
         /\ Len(RemoveAt(s, k)) = Len(s) - 1
         /\ \A j \in 1..(Len(s) - 1) :
              RemoveAt(s, k)[j] = IF j < k THEN s[j] ELSE s[j + 1]
<1> DEFINE before == SubSeq(s, 1, k - 1)
           after  == SubSeq(s, k + 1, Len(s))
<1>1. before \in Seq(S) /\ Len(before) = k - 1 /\ \A j \in 1..(k - 1) : before[j] = s[j]
  BY SubSeqProperties
<1>2. /\ after \in Seq(S) /\ Len(after) = Len(s) - k
      /\ \A j \in 1..(Len(s) - k) : after[j] = s[k + j]
  BY SubSeqProperties
<1>3. RemoveAt(s, k) = before \o after
  BY DEF RemoveAt
<1> HIDE DEF before, after
<1>4. Len(s) \in Nat /\ k \in 1..Len(s)
  BY LenProperties
<1>5. /\ before \o after \in Seq(S)
      /\ Len(before \o after) = Len(before) + Len(after)
      /\ \A j \in 1..(Len(before) + Len(after)) :
           (before \o after)[j] = IF j <= Len(before) THEN before[j] ELSE after[j - Len(before)]
  BY <1>1, <1>2, ConcatProperties
<1>6. Len(RemoveAt(s, k)) = Len(s) - 1 /\ RemoveAt(s, k) \in Seq(S)
  BY <1>1, <1>2, <1>3, <1>4, <1>5
<1>7. ASSUME NEW j \in 1..(Len(s) - 1)
      PROVE  RemoveAt(s, k)[j] = IF j < k THEN s[j] ELSE s[j + 1]
  <2>1. RemoveAt(s, k)[j] = IF j <= k - 1 THEN before[j] ELSE after[j - (k - 1)]
    BY <1>1, <1>2, <1>3, <1>4, <1>5
  <2>2. CASE j < k
    BY <1>1, <1>4, <2>1, <2>2
  <2>3. CASE j >= k
    BY <1>2, <1>4, <2>1, <2>3
  <2>4. QED
    BY <1>4, <2>2, <2>3
<1>8. QED
  BY <1>6, <1>7

\* Unlinking one slab keeps the others, each once.
LEMMA UnlinkProperties ==
  ASSUME NEW S, NEW s \in Seq(S), NEW k \in 1..Len(s),
         \A i, j \in DOMAIN s : s[i] = s[j] => i = j
  PROVE  LET r == RemoveAt(s, k) IN
           /\ r \in Seq(S)
           /\ \A i, j \in DOMAIN r : r[i] = r[j] => i = j
           /\ {r[i] : i \in DOMAIN r} = {s[i] : i \in DOMAIN s} \ {s[k]}
<1> DEFINE r == RemoveAt(s, k)
           old(n) == IF n < k THEN n ELSE n + 1
<1>1. Len(s) \in Nat /\ DOMAIN s = 1..Len(s)
  BY LenProperties
<1>2. /\ r \in Seq(S) /\ Len(r) = Len(s) - 1
      /\ \A j \in 1..(Len(s) - 1) : r[j] = IF j < k THEN s[j] ELSE s[j + 1]
  BY RemoveAtPlaces
<1> HIDE DEF r
<1>5. /\ r \in Seq(S) /\ DOMAIN r = 1..(Len(s) - 1)
      /\ \A j \in 1..(Len(s) - 1) : r[j] = s[old(j)]
  BY <1>2, LenProperties
<1>6. \A n \in DOMAIN r : old(n) \in DOMAIN s /\ old(n) # k
  BY <1>1, <1>5
<1>7. \A i, j \in DOMAIN r : old(i) = old(j) => i = j
  BY <1>1, <1>5
<1>8. \A m \in DOMAIN s : m # k => \E n \in DOMAIN r : old(n) = m
  <2> SUFFICES ASSUME NEW m \in DOMAIN s, m # k
               PROVE  \E n \in DOMAIN r : old(n) = m
    OBVIOUS
  <2>1. CASE m < k
    BY <1>1, <1>5, <2>1
  <2>2. CASE m > k
    <3>1. m - 1 \in DOMAIN r /\ old(m - 1) = m
      BY <1>1, <1>5, <2>2
    <3>2. QED
      BY <3>1
  <2>3. QED
    BY <1>1, <2>1, <2>2
<1> HIDE DEF old
<1>9. \A i, j \in DOMAIN r : r[i] = r[j] => i = j
  BY <1>5, <1>6, <1>7
<1>10. {r[i] : i \in DOMAIN r} = {s[i] : i \in DOMAIN s} \ {s[k]}
  <2>1. \A n \in DOMAIN r : r[n] \in {s[i] : i \in DOMAIN s} \ {s[k]}
    BY <1>1, <1>5, <1>6
  <2>2. \A m \in DOMAIN s : s[m] # s[k] => s[m] \in {r[i] : i \in DOMAIN r}
    BY <1>5, <1>8
  <2>3. QED
    BY <2>1, <2>2
<1>11. QED
  BY <1>5, <1>9, <1>10 DEF r

-----------------------------------------------------------------------------
\* The accounts of every listed slab, in the terms of the lemmas.
LEMMA AccountsOfSlabs ==
  BlocksAccountedFor <=>
    \A p \in ListedSlabs : Accounted(freelist[p], usedBlocks[p], LiveOf(p))
BY DEF BlocksAccountedFor, Accounted

\* slab_alloc_init establishes the invariant.
LEMMA SlabInitIsInvariant == SlabInit => SlabIInv
BY EmptySeq DEF SlabInit, SlabIInv, SlabTypeOK, BlocksAccountedFor, NothingDangles,
                EmptySlabIsAlone, ListedSlabs, Blocks

\* What the caller owns of each page when a block of page q is added or removed.
LEMMA LiveChanges ==
  ASSUME NEW q \in Pages, NEW k \in Slots
  PROVE  /\ liveBlocks' = liveBlocks \cup {<<q, k>>} =>
              \A p \in Pages : LiveOf(p)' = IF p = q THEN LiveOf(p) \cup {k} ELSE LiveOf(p)
         /\ liveBlocks' = liveBlocks \ {<<q, k>>} =>
              \A p \in Pages : LiveOf(p)' = IF p = q THEN LiveOf(p) \ {k} ELSE LiveOf(p)
BY DEF LiveOf

\* A listed slab hands out its first free block, and alloc->current is a listed
\* slab afterwards: AllocHot and AllocWalk.
LEMMA TakePreserves ==
  ASSUME SlabIInv, NEW q \in ListedSlabs, freelist[q] # <<>>, Take(q, freelist[q]),
         UNCHANGED <<slabs, heap>>, current' \in ListedSlabs
  PROVE  SlabIInv'
<1> DEFINE list == freelist[q]
<1>1. ListedSlabs' = ListedSlabs /\ ListedSlabs \subseteq Pages
  BY DEF SlabIInv, SlabTypeOK, ListedSlabs
<1>2. /\ list \in Seq(Slots) /\ LiveOf(q) \in SUBSET Slots
      /\ Accounted(list, usedBlocks[q], LiveOf(q))
  BY <1>1, AccountsOfSlabs DEF SlabIInv, SlabTypeOK, LiveOf
<1> HIDE DEF list
<1>3. /\ Tail(list) \in Seq(Slots) /\ Head(list) \in Slots
      /\ Accounted(Tail(list), usedBlocks[q] + 1, LiveOf(q) \cup {Head(list)})
  BY <1>2, TakeAccounted DEF list
<1>4. /\ freelist' = [freelist EXCEPT ![q] = Tail(list)]
      /\ usedBlocks' = [usedBlocks EXCEPT ![q] = @ + 1]
      /\ liveBlocks' = liveBlocks \cup {<<q, Head(list)>>}
  BY DEF Take, list
<1>5. SlabTypeOK'
  BY <1>1, <1>3, <1>4 DEF SlabIInv, SlabTypeOK, Blocks
<1>6. BlocksAccountedFor'
  <2>1. \A p \in Pages :
          LiveOf(p)' = IF p = q THEN LiveOf(p) \cup {Head(list)} ELSE LiveOf(p)
    BY <1>1, <1>3, <1>4, LiveChanges
  <2>2. \A p \in ListedSlabs : Accounted(freelist'[p], usedBlocks'[p], LiveOf(p)')
    BY <1>1, <1>3, <1>4, <2>1, AccountsOfSlabs DEF SlabIInv, SlabTypeOK
  <2>3. QED
    BY <1>1, <2>2 DEF BlocksAccountedFor, Accounted
<1>7. NothingDangles'
  BY <1>1, <1>4 DEF SlabIInv, NothingDangles
<1>8. EmptySlabIsAlone'
  BY <1>1, <1>4 DEF SlabIInv, SlabTypeOK, EmptySlabIsAlone, ListedSlabs
<1>9. QED
  BY <1>5, <1>6, <1>7, <1>8 DEF SlabIInv

\* alloc->current after a block of a listed slab q was freed: a listed slab,
\* and NoSlab or another one once q is given back.
LEMMA RememberProperties ==
  ASSUME SlabIInv, NEW q \in ListedSlabs
  PROVE  /\ Remember(q) \in ListedSlabs
         /\ Forget(q) \in (ListedSlabs \ {q}) \cup {NoSlab}
BY DEF SlabIInv, NothingDangles, Remember, Forget

\* What Give changes, at any place of the list.
LEMMA GiveProperties ==
  ASSUME SlabIInv, NEW i \in DOMAIN slabs, NEW k \in Slots,
         <<slabs[i], k>> \in liveBlocks, Give(i, k)
  PROVE  /\ freelist' \in [Pages -> Seq(Slots)] /\ usedBlocks' \in [Pages -> Nat]
         /\ liveBlocks' \subseteq liveBlocks
         /\ \A p \in ListedSlabs : Accounted(freelist'[p], usedBlocks'[p], LiveOf(p)')
         /\ \A p \in Pages : p # slabs[i] => usedBlocks'[p] = usedBlocks[p]
<1> DEFINE q == slabs[i]
<1>1. q \in ListedSlabs /\ q \in Pages /\ ListedSlabs \subseteq Pages
  BY DEF SlabIInv, SlabTypeOK, ListedSlabs
<1> HIDE DEF q
<1>2. /\ freelist[q] \in Seq(Slots) /\ LiveOf(q) \in SUBSET Slots
      /\ k \in LiveOf(q) /\ Accounted(freelist[q], usedBlocks[q], LiveOf(q))
  BY <1>1, AccountsOfSlabs DEF SlabIInv, SlabTypeOK, LiveOf, q
<1>3. /\ <<k>> \o freelist[q] \in Seq(Slots) /\ usedBlocks[q] - 1 \in Nat
      /\ Accounted(<<k>> \o freelist[q], usedBlocks[q] - 1, LiveOf(q) \ {k})
  BY <1>2, GiveAccounted
<1>4. /\ freelist' = [freelist EXCEPT ![q] = <<k>> \o @]
      /\ usedBlocks' = [usedBlocks EXCEPT ![q] = @ - 1]
      /\ liveBlocks' = liveBlocks \ {<<q, k>>}
  BY DEF Give, q
<1>5. \A p \in Pages : LiveOf(p)' = IF p = q THEN LiveOf(p) \ {k} ELSE LiveOf(p)
  BY <1>1, <1>4, LiveChanges
<1>6. freelist' \in [Pages -> Seq(Slots)] /\ usedBlocks' \in [Pages -> Nat]
  BY <1>1, <1>3, <1>4 DEF SlabIInv, SlabTypeOK
<1>7. \A p \in ListedSlabs : Accounted(freelist'[p], usedBlocks'[p], LiveOf(p)')
  BY <1>1, <1>3, <1>4, <1>5, AccountsOfSlabs DEF SlabIInv, SlabTypeOK
<1>8. \A p \in Pages : p # q => usedBlocks'[p] = usedBlocks[p]
  BY <1>1, <1>4 DEF SlabIInv, SlabTypeOK
<1>9. QED
  BY <1>4, <1>6, <1>7, <1>8 DEF q

\* A free that keeps its slab.
LEMMA FreeBlockPreserves ==
  ASSUME SlabIInv, NEW i \in DOMAIN slabs, NEW k \in Slots, FreeBlock(i, k)
  PROVE  SlabIInv'
<1>1. /\ Give(i, k) /\ <<slabs[i], k>> \in liveBlocks
      /\ UNCHANGED <<slabs, heap>> /\ ListedSlabs' = ListedSlabs
  BY DEF FreeBlock, ListedSlabs
<1>2. /\ freelist' \in [Pages -> Seq(Slots)] /\ usedBlocks' \in [Pages -> Nat]
      /\ liveBlocks' \subseteq liveBlocks
      /\ \A p \in ListedSlabs : Accounted(freelist'[p], usedBlocks'[p], LiveOf(p)')
      /\ \A p \in Pages : p # slabs[i] => usedBlocks'[p] = usedBlocks[p]
  BY <1>1, GiveProperties
<1>3. slabs[i] \in ListedSlabs /\ ListedSlabs \subseteq Pages
  BY DEF SlabIInv, SlabTypeOK, ListedSlabs
<1>4. current' \in ListedSlabs
  BY <1>3, RememberProperties DEF FreeBlock
<1>5. SlabTypeOK'
  BY <1>1, <1>2, <1>3, <1>4 DEF SlabIInv, SlabTypeOK
<1>6. BlocksAccountedFor'
  BY <1>1, <1>2 DEF BlocksAccountedFor, Accounted
<1>7. NothingDangles'
  BY <1>1, <1>2, <1>4 DEF SlabIInv, NothingDangles
<1>8. EmptySlabIsAlone'
  <2> SUFFICES ASSUME NEW j \in DOMAIN slabs, usedBlocks'[slabs[j]] = 0
               PROVE  Len(slabs) = 1
    BY <1>1 DEF EmptySlabIsAlone
  <2>1. CASE slabs[j] = slabs[i]
    BY <2>1 DEF FreeBlock, Stays
  <2>2. CASE slabs[j] # slabs[i]
    BY <1>2, <1>3, <2>2 DEF SlabIInv, SlabTypeOK, EmptySlabIsAlone
  <2>3. QED
    BY <2>1, <2>2
<1>9. QED
  BY <1>5, <1>6, <1>7, <1>8 DEF SlabIInv

\* The slab that is given back is empty, so no block of it is owned.
LEMMA FreeSlabPreserves ==
  ASSUME SlabIInv, NEW i \in DOMAIN slabs, NEW k \in Slots, FreeSlab(i, k)
  PROVE  SlabIInv'
<1>0. PICK q \in ListedSlabs : q = slabs[i]
  BY DEF ListedSlabs
<1>1. /\ Give(i, k) /\ <<slabs[i], k>> \in liveBlocks
      /\ heap' = heap \ {q} /\ slabs' = RemoveAt(slabs, i)
      /\ usedBlocks'[q] = 0 /\ Len(slabs) # 1
  BY <1>0 DEF FreeSlab, Unlink, Stays
<1>2. /\ freelist' \in [Pages -> Seq(Slots)] /\ usedBlocks' \in [Pages -> Nat]
      /\ liveBlocks' \subseteq liveBlocks
      /\ \A p \in ListedSlabs : Accounted(freelist'[p], usedBlocks'[p], LiveOf(p)')
      /\ \A p \in Pages : p # q => usedBlocks'[p] = usedBlocks[p]
  BY <1>0, <1>1, GiveProperties
<1>3. q \in ListedSlabs /\ ListedSlabs \subseteq Pages
  BY DEF SlabIInv, SlabTypeOK, ListedSlabs
<1>4. /\ slabs' \in Seq(Pages)
      /\ \A m, n \in DOMAIN slabs' : slabs'[m] = slabs'[n] => m = n
      /\ ListedSlabs' = ListedSlabs \ {q}
  <2>1. slabs \in Seq(Pages) /\ i \in 1..Len(slabs)
    BY LenProperties DEF SlabIInv, SlabTypeOK
  <2>2. \A m, n \in DOMAIN slabs : slabs[m] = slabs[n] => m = n
    BY DEF SlabIInv, SlabTypeOK
  <2>3. /\ RemoveAt(slabs, i) \in Seq(Pages)
        /\ \A m, n \in DOMAIN RemoveAt(slabs, i) :
             RemoveAt(slabs, i)[m] = RemoveAt(slabs, i)[n] => m = n
        /\ {RemoveAt(slabs, i)[m] : m \in DOMAIN RemoveAt(slabs, i)} = ListedSlabs \ {q}
    BY <1>0, <2>1, <2>2, UnlinkProperties DEF ListedSlabs
  <2>4. QED
    BY <1>0, <1>1, <2>3 DEF ListedSlabs
<1>5. current' \in (ListedSlabs \ {q}) \cup {NoSlab}
  BY <1>0, <1>3, RememberProperties DEF FreeSlab
<1>6. SlabTypeOK'
  BY <1>1, <1>2, <1>3, <1>4, <1>5 DEF SlabIInv, SlabTypeOK
<1>7. BlocksAccountedFor'
  BY <1>2, <1>4 DEF BlocksAccountedFor, Accounted
<1>8. LiveOf(q)' = {}
  <2>1. LiveOf(q)' \in SUBSET Slots /\ Cardinality(LiveOf(q)') = 0
    BY <1>1, <1>2, <1>3 DEF Accounted, LiveOf
  <2>2. QED
    BY <2>1, SlotsFinite, FS_EmptySet
<1>9. NothingDangles'
  <2>1. \A b \in liveBlocks' : b[1] \in ListedSlabs \ {q}
    <3> SUFFICES ASSUME NEW b \in liveBlocks' PROVE b[1] \in ListedSlabs \ {q}
      OBVIOUS
    <3>1. b[1] \in ListedSlabs /\ b \in Blocks
      BY <1>2 DEF SlabIInv, SlabTypeOK, NothingDangles
    <3>2. PICK p \in Pages, m \in Slots : b = <<p, m>>
      BY <3>1 DEF Blocks
    <3>3. p # q
      BY <1>8, <3>2 DEF LiveOf
    <3>4. QED
      BY <3>1, <3>2, <3>3
  <2>2. heap' = ListedSlabs'
    BY <1>1, <1>4 DEF SlabIInv, NothingDangles
  <2>3. QED
    BY <1>4, <1>5, <2>1, <2>2 DEF NothingDangles
<1>10. EmptySlabIsAlone'
  <2>1. \A p \in ListedSlabs \ {q} : usedBlocks'[p] # 0
    BY <1>1, <1>2, <1>3 DEF SlabIInv, EmptySlabIsAlone, ListedSlabs
  <2>2. \A j \in DOMAIN slabs' : slabs'[j] \in ListedSlabs'
    BY DEF ListedSlabs
  <2>3. QED
    BY <1>4, <2>1, <2>2 DEF EmptySlabIsAlone
<1>11. QED
  BY <1>6, <1>7, <1>9, <1>10 DEF SlabIInv

\* A page from the heap becomes the newest slab; nobody owned a block of it.
LEMMA AllocExtendPreserves ==
  ASSUME SlabIInv, NEW q \in Pages, AllocExtend(q)
  PROVE  SlabIInv'
<1> DEFINE fresh == [i \in 1..(Cap - 1) |-> i + 1]
<1>1. /\ q \notin ListedSlabs /\ ListedSlabs \subseteq Pages /\ slabs \in Seq(Pages)
      /\ \A p \in ListedSlabs : freelist[p] = <<>>
  BY DEF SlabIInv, SlabTypeOK, NothingDangles, AllocExtend, ListedSlabs, Full
<1>2. /\ slabs' = <<q>> \o slabs /\ current' = q /\ heap' = heap \cup {q}
      /\ freelist' = [freelist EXCEPT ![q] = fresh]
      /\ usedBlocks' = [usedBlocks EXCEPT ![q] = 1]
      /\ liveBlocks' = liveBlocks \cup {<<q, 1>>}
  BY DEF AllocExtend
<1>3. fresh \in Seq(Slots) /\ Accounted(fresh, 1, {1})
  BY FreshAccounted
<1> HIDE DEF fresh
<1>4. /\ slabs' \in Seq(Pages) /\ Len(slabs') = Len(slabs) + 1
      /\ slabs'[1] = q /\ \A i \in 1..Len(slabs) : slabs'[i + 1] = slabs[i]
      /\ DOMAIN slabs' = 1..(Len(slabs) + 1)
      /\ DOMAIN slabs = 1..Len(slabs) /\ Len(slabs) \in Nat
  <2>1. <<q>> \in Seq(Pages) /\ Len(<<q>>) = 1 /\ <<q>>[1] = q
    OBVIOUS
  <2>2. Len(slabs) \in Nat /\ DOMAIN slabs = 1..Len(slabs)
    BY <1>1, LenProperties
  <2>3. /\ slabs' \in Seq(Pages) /\ Len(slabs') = 1 + Len(slabs)
        /\ \A i \in 1..(1 + Len(slabs)) : slabs'[i] = IF i <= 1 THEN <<q>>[i] ELSE slabs[i - 1]
    BY <1>1, <1>2, <2>1, <2>2, ConcatProperties
  <2>4. DOMAIN slabs' = 1..Len(slabs')
    BY <2>3, LenProperties
  <2>5. QED
    BY <2>1, <2>2, <2>3, <2>4
<1>5. \A i \in DOMAIN slabs' : i # 1 => i - 1 \in DOMAIN slabs /\ slabs'[i] = slabs[i - 1]
  <2> SUFFICES ASSUME NEW i \in DOMAIN slabs', i # 1
               PROVE  i - 1 \in DOMAIN slabs /\ slabs'[i] = slabs[i - 1]
    OBVIOUS
  <2>1. i - 1 \in 1..Len(slabs) /\ (i - 1) + 1 = i
    BY <1>4
  <2>2. QED
    BY <1>4, <2>1
<1>6. ListedSlabs' = ListedSlabs \cup {q}
  <2>1. \A i \in DOMAIN slabs' : slabs'[i] \in ListedSlabs \cup {q}
    BY <1>4, <1>5 DEF ListedSlabs
  <2>2. \A i \in DOMAIN slabs : i + 1 \in DOMAIN slabs' /\ slabs'[i + 1] = slabs[i]
    BY <1>4
  <2>3. 1 \in DOMAIN slabs'
    BY <1>4
  <2>4. ListedSlabs \cup {q} \subseteq ListedSlabs'
    BY <1>4, <2>2, <2>3 DEF ListedSlabs
  <2>5. ListedSlabs' \subseteq ListedSlabs \cup {q}
    BY <2>1 DEF ListedSlabs
  <2>6. QED
    BY <2>4, <2>5
<1>7. \A i, j \in DOMAIN slabs' : slabs'[i] = slabs'[j] => i = j
  <2> SUFFICES ASSUME NEW i \in DOMAIN slabs', NEW j \in DOMAIN slabs', slabs'[i] = slabs'[j]
               PROVE  i = j
    OBVIOUS
  <2>1. CASE i = 1 \/ j = 1
    BY <1>1, <1>4, <1>5, <2>1 DEF ListedSlabs
  <2>2. CASE i # 1 /\ j # 1
    <3>1. i - 1 = j - 1
      BY <1>5, <2>2 DEF SlabIInv, SlabTypeOK
    <3>2. QED
      BY <1>4, <3>1
  <2>3. QED
    BY <2>1, <2>2
<1>8. 1 \in Slots
  BY SlabAssumption DEF Slots
<1>9. SlabTypeOK'
  BY <1>2, <1>3, <1>4, <1>7, <1>8 DEF SlabIInv, SlabTypeOK, Blocks
<1>10. LiveOf(q) = {}
  BY <1>1 DEF SlabIInv, NothingDangles, LiveOf
<1>11. BlocksAccountedFor'
  <2>1. \A p \in Pages : LiveOf(p)' = IF p = q THEN {1} ELSE LiveOf(p)
    BY <1>2, <1>8, <1>10, LiveChanges
  <2>2. \A p \in ListedSlabs' : Accounted(freelist'[p], usedBlocks'[p], LiveOf(p)')
    BY <1>1, <1>2, <1>3, <1>6, <2>1, AccountsOfSlabs DEF SlabIInv, SlabTypeOK
  <2>3. QED
    BY <2>2 DEF BlocksAccountedFor, Accounted
<1>12. NothingDangles'
  BY <1>2, <1>6 DEF SlabIInv, NothingDangles
<1>13. EmptySlabIsAlone'
  <2>1. \A p \in ListedSlabs : usedBlocks[p] # 0
    <3> SUFFICES ASSUME NEW p \in ListedSlabs, usedBlocks[p] = 0 PROVE FALSE
      OBVIOUS
    <3>1. /\ LiveOf(p) \in SUBSET Slots /\ Cardinality(LiveOf(p)) = 0
          /\ Slots \ LiveOf(p) = {freelist[p][i] : i \in DOMAIN freelist[p]}
      BY AccountsOfSlabs DEF SlabIInv, Accounted, LiveOf
    <3>2. LiveOf(p) = {}
      BY <3>1, SlotsFinite, FS_EmptySet
    <3>3. DOMAIN freelist[p] = {}
      BY <1>1
    <3>4. QED
      BY <1>8, <3>1, <3>2, <3>3
  <2>2. \A p \in ListedSlabs' : usedBlocks'[p] # 0
    BY <1>1, <1>2, <1>6, <2>1 DEF SlabIInv, SlabTypeOK
  <2>3. QED
    BY <2>2 DEF EmptySlabIsAlone, ListedSlabs
<1>14. QED
  BY <1>9, <1>11, <1>12, <1>13 DEF SlabIInv

-----------------------------------------------------------------------------
\* Destroying the allocator gives back every slab and forgets every block.
LEMMA DestroyPreserves == ASSUME SlabIInv, Destroy PROVE SlabIInv'
<1>1. ListedSlabs = heap
  BY DEF SlabIInv, NothingDangles
<1>2. /\ slabs' = <<>> /\ slabs' \in Seq(Pages) /\ DOMAIN slabs' = {} /\ ListedSlabs' = {}
      /\ heap' = {} /\ liveBlocks' = {} /\ current' = NoSlab
      /\ UNCHANGED <<freelist, usedBlocks>>
  BY <1>1, EmptySeq DEF Destroy, ListedSlabs
<1>3. QED
  BY <1>2 DEF SlabIInv, SlabTypeOK, BlocksAccountedFor, NothingDangles, EmptySlabIsAlone

\* An allocation that fails changes nothing.
LEMMA SlabStutterPreserves == ASSUME SlabIInv, UNCHANGED slabVars PROVE SlabIInv'
<1>1. ListedSlabs' = ListedSlabs /\ \A p \in ListedSlabs : LiveOf(p)' = LiveOf(p)
  BY DEF slabVars, ListedSlabs, LiveOf
<1>2. BlocksAccountedFor'
  BY <1>1 DEF slabVars, SlabIInv, BlocksAccountedFor
<1>3. QED
  BY <1>1, <1>2 DEF slabVars, SlabIInv, SlabTypeOK, NothingDangles, EmptySlabIsAlone

\* Every path through every operation keeps the invariant.
LEMMA SlabNextPreserves == SlabIInv /\ [SlabNext]_slabVars => SlabIInv'
<1> SUFFICES ASSUME SlabIInv, [SlabNext]_slabVars PROVE SlabIInv'
  OBVIOUS
<1>1. CASE AllocHot
  <2>1. current \in ListedSlabs
    BY <1>1 DEF SlabIInv, NothingDangles, AllocHot, HotPath
  <2>2. QED
    BY <1>1, <2>1, TakePreserves DEF AllocHot, HotPath
<1>2. ASSUME NEW i \in DOMAIN slabs, AllocWalk(i) PROVE SlabIInv'
  <2>1. slabs[i] \in ListedSlabs
    BY DEF ListedSlabs
  <2>2. QED
    BY <1>2, <2>1, TakePreserves DEF AllocWalk
<1>3. CASE AllocFails \/ UNCHANGED slabVars
  BY <1>3, SlabStutterPreserves DEF AllocFails
<1>4. QED
  BY <1>1, <1>2, <1>3, AllocExtendPreserves, FreeBlockPreserves, FreeSlabPreserves,
     DestroyPreserves DEF SlabNext

\* The inductive invariant holds in every reachable state.
THEOREM SlabInvariance == SlabSpec => []SlabIInv
<1>1. SlabInit => SlabIInv
  BY SlabInitIsInvariant
<1>2. QED
  BY <1>1, SlabNextPreserves, PTL DEF SlabSpec

\* Of any number of slabs of any size: a block has one owner or is once on the
\* free list of its slab, no slab is given back in use, remembered, or lost,
\* and only a slab that is alone is kept empty.
THEOREM SlabSafety ==
  SlabSpec => []SlabInv
BY SlabInvariance, PTL DEF SlabIInv, SlabInv

\* A step that adds a slab finds every block owned.
LEMMA GrowingStepIsFull ==
  SlabIInv /\ [SlabNext]_slabVars =>
    [Len(slabs') > Len(slabs) => \A p \in ListedSlabs : LiveOf(p) = Slots]_slabVars
<1> SUFFICES ASSUME SlabIInv, [SlabNext]_slabVars, Len(slabs') > Len(slabs),
                    NEW p \in ListedSlabs
             PROVE  LiveOf(p) = Slots
  OBVIOUS
<1>1. Len(slabs) \in Nat /\ DOMAIN slabs = 1..Len(slabs)
  BY LenProperties DEF SlabIInv, SlabTypeOK
<1>2. ~ UNCHANGED slabs
  BY <1>1
<1>3. ~ Destroy
  <2>1. Len(<<>>) = 0
    OBVIOUS
  <2>2. QED
    BY <1>1, <2>1 DEF Destroy
<1>4. ASSUME NEW i \in DOMAIN slabs, NEW k \in Slots, FreeSlab(i, k) PROVE FALSE
  <2>1. i \in 1..Len(slabs) /\ slabs \in Seq(Pages) /\ slabs' = RemoveAt(slabs, i)
    BY <1>1, <1>4 DEF SlabIInv, SlabTypeOK, FreeSlab, Unlink
  <2>2. Len(slabs') = Len(slabs) - 1
    BY <2>1, RemoveAtPlaces
  <2>3. QED
    BY <1>1, <2>2
<1>5. PICK q \in Pages : AllocExtend(q)
  BY <1>2, <1>3, <1>4
     DEF SlabNext, slabVars, AllocHot, AllocWalk, AllocFails, FreeBlock
<1>6. freelist[p] = <<>>
  BY <1>5 DEF AllocExtend, Full
<1>7. /\ LiveOf(p) \in SUBSET Slots
      /\ {freelist[p][i] : i \in DOMAIN freelist[p]} = Slots \ LiveOf(p)
  BY AccountsOfSlabs DEF SlabIInv, Accounted, LiveOf
<1>8. DOMAIN freelist[p] = {}
  BY <1>6
<1>9. QED
  BY <1>7, <1>8

\* The heap is asked only when the callers own every block there is.
THEOREM SlabGrowth == SlabSpec => GrowsOnlyWhenFull
BY SlabInvariance, GrowingStepIsFull, PTL DEF SlabSpec, GrowsOnlyWhenFull

-----------------------------------------------------------------------------
\* The chunk allocator.

\* The inductive invariant: what keeps a new region apart from the others is
\* that these lie in the used part of their chunk.
IInv == TypeOK /\ RegionsDisjoint /\ LimitsHold

\* No variable that a failed assertion leaves alone matters to the invariant.
state == <<chunks, limit, used, num_chunks, total_allocated, total_used, live>>

-----------------------------------------------------------------------------
\* A new chunk is big enough for the request it is made for.
LEMMA NewSizeProperties ==
  ASSUME NEW n \in Sizes
  PROVE  n \in Nat \ {0} /\ NewSize(n) \in Nat /\ n <= NewSize(n)
<1>1. n \in Nat \ {0} /\ n * target_chunk_mult \in Nat
  BY ChunkAssumption
<1>2. QED
  BY <1>1, ChunkAssumption DEF NewSize, Exceeds

\* A region behind the used part of a chunk is apart from all the others.
LEMMA CarveProperties ==
  ASSUME RegionsDisjoint, live \subseteq Regions,
         NEW c \in Ids, NEW u \in Nat, NEW n \in Sizes, n \in Nat, Carve(c, u, n),
         \A r \in live : r.chunk = c => r.from + r.size <= u
  PROVE  /\ live' \subseteq Regions
         /\ \A r, s \in live' : r # s /\ r.chunk = s.chunk => Apart(r, s)
<1> DEFINE new == [chunk |-> c, from |-> u, size |-> n]
<1>1. live' = live \cup {new} /\ new \in Regions
  BY DEF Carve, Regions
<1>2. new.chunk = c /\ new.from = u /\ new.size = n
  OBVIOUS
<1> HIDE DEF new
<1>3. \A r \in live : r.chunk = c => Apart(r, new) /\ Apart(new, r)
  BY <1>2 DEF Apart
<1>4. QED
  BY <1>1, <1>2, <1>3 DEF RegionsDisjoint

\* A chunk that was not listed becomes the head.
LEMMA ListGrows ==
  ASSUME TypeOK, NEW c \in Ids, c \notin Listed, chunks' = <<c>> \o chunks
  PROVE  /\ chunks' \in Seq(Ids)
         /\ \A i, j \in DOMAIN chunks' : chunks'[i] = chunks'[j] => i = j
         /\ Listed' = Listed \cup {c}
<1>1. /\ chunks \in Seq(Ids) /\ Len(chunks) \in Nat /\ DOMAIN chunks = 1..Len(chunks)
      /\ \A i, j \in DOMAIN chunks : chunks[i] = chunks[j] => i = j
  BY LenProperties DEF TypeOK
<1>2. <<c>> \in Seq(Ids) /\ Len(<<c>>) = 1 /\ <<c>>[1] = c
  OBVIOUS
<1>3. /\ chunks' \in Seq(Ids) /\ Len(chunks') = 1 + Len(chunks)
      /\ \A i \in 1..(1 + Len(chunks)) : chunks'[i] = IF i <= 1 THEN <<c>>[i] ELSE chunks[i - 1]
  BY <1>1, <1>2, ConcatProperties
<1>4. DOMAIN chunks' = 1..(1 + Len(chunks)) /\ 1 \in DOMAIN chunks' /\ chunks'[1] = c
  BY <1>1, <1>2, <1>3, LenProperties
<1>5. ASSUME NEW i \in DOMAIN chunks', i # 1
      PROVE  i - 1 \in DOMAIN chunks /\ chunks'[i] = chunks[i - 1]
  BY <1>1, <1>3, <1>4, <1>5
<1>6. ASSUME NEW i \in DOMAIN chunks
      PROVE  i + 1 \in DOMAIN chunks' /\ chunks'[i + 1] = chunks[i]
  <2>1. i + 1 \in 1..(1 + Len(chunks)) /\ ~(i + 1 <= 1) /\ (i + 1) - 1 = i
    BY <1>1
  <2>2. QED
    BY <1>3, <1>4, <2>1
<1>7. \A i, j \in DOMAIN chunks' : chunks'[i] = chunks'[j] => i = j
  <2> SUFFICES ASSUME NEW i \in DOMAIN chunks', NEW j \in DOMAIN chunks', chunks'[i] = chunks'[j]
               PROVE  i = j
    OBVIOUS
  <2>1. CASE i = 1 \/ j = 1
    BY <1>4, <1>5, <2>1 DEF Listed
  <2>2. CASE i # 1 /\ j # 1
    <3>1. i - 1 = j - 1
      BY <1>1, <1>5, <2>2
    <3>2. QED
      BY <1>1, <1>4, <3>1
  <2>3. QED
    BY <2>1, <2>2
<1>8. Listed' \subseteq Listed \cup {c}
  BY <1>4, <1>5 DEF Listed
<1>9. Listed \cup {c} \subseteq Listed'
  <2>1. c \in Listed'
    BY <1>4 DEF Listed
  <2>2. ASSUME NEW d \in Listed
        PROVE  d \in Listed'
    <3>1. PICK i \in DOMAIN chunks : d = chunks[i]
      BY <2>2 DEF Listed
    <3>2. i + 1 \in DOMAIN chunks' /\ d = chunks'[i + 1]
      BY <1>6, <3>1
    <3>3. QED
      BY <3>2 DEF Listed
  <2>3. QED
    BY <2>1, <2>2
<1>10. QED
  BY <1>3, <1>7, <1>8, <1>9

-----------------------------------------------------------------------------
\* Sums over the list of chunks.

\* Induction over the numbers, for a set of them.
Lower == {p \in Nat \X Nat : p[1] < p[2]}

LEMMA NumberInduction ==
  ASSUME NEW S \in SUBSET Nat, 0 \in S, \A n \in S : n + 1 \in S
  PROVE  S = Nat
<1> DEFINE T == Nat \ S
<1>1. SUFFICES ASSUME T # {} PROVE FALSE
  OBVIOUS
<1>2. IsWellFoundedOn(Lower, Nat)
  BY NatLessThanWellFounded DEF OpToRel, Lower
<1>3. PICK x \in T : \A y \in T : ~(<<y, x>> \in Lower)
  <2>1. \E x \in T : \A y \in T : ~(<<y, x>> \in Lower)
    BY <1>1, <1>2, WFMin
  <2>2. QED
    BY <2>1
<1>4. x # 0 /\ x - 1 \in Nat /\ <<x - 1, x>> \in Lower
  BY DEF Lower
<1>5. x - 1 \in S
  BY <1>3, <1>4
<1>6. QED
  BY <1>4, <1>5

\* The partial sums that Total goes through, of the first m chunks.
Sums(g, f, list, m) ==
  g = [i \in 0..m |-> IF i = 0 THEN 0 ELSE g[i - 1] + f[list[i]]]

LEMMA SumsExist ==
  ASSUME NEW f, NEW list
  PROVE  \A m \in Nat : \E g : Sums(g, f, list, m)
<1> DEFINE S == {m \in Nat : \E g : Sums(g, f, list, m)}
<1>1. 0 \in S
  <2> DEFINE z == [i \in 0..0 |-> 0]
  <2>1. z = [i \in 0..0 |-> IF i = 0 THEN 0 ELSE z[i - 1] + f[list[i]]]
    OBVIOUS
  <2>2. Sums(z, f, list, 0)
    BY <2>1 DEF Sums
  <2>3. QED
    BY <2>2
<1>2. ASSUME NEW m \in S PROVE m + 1 \in S
  <2>1. PICK g : Sums(g, f, list, m)
    OBVIOUS
  <2> DEFINE h == [i \in 0..(m + 1) |-> IF i = m + 1 THEN g[m] + f[list[m + 1]] ELSE g[i]]
  <2>2. \A i \in 0..m : g[i] = IF i = 0 THEN 0 ELSE g[i - 1] + f[list[i]]
    BY <2>1 DEF Sums
  <2>3. ASSUME NEW i \in 0..(m + 1)
        PROVE  h[i] = IF i = 0 THEN 0 ELSE h[i - 1] + f[list[i]]
    <3>1. CASE i = m + 1
      BY <3>1
    <3>2. CASE i # m + 1
      BY <2>2, <3>2
    <3>3. QED
      BY <3>1, <3>2
  <2>4. h = [i \in 0..(m + 1) |-> IF i = 0 THEN 0 ELSE h[i - 1] + f[list[i]]]
    BY <2>3
  <2>5. Sums(h, f, list, m + 1)
    BY <2>4 DEF Sums
  <2>6. QED
    BY <2>5
<1>3. S = Nat
  <2> HIDE DEF S
  <2>1. S \in SUBSET Nat
    BY DEF S
  <2>2. QED
    BY <1>1, <1>2, <2>1, NumberInduction
<1>4. QED
  BY <1>3

\* A list of chunks as its partial sums add it up.
Adds(g, f, list) ==
  /\ g \in [0..Len(list) -> Nat]
  /\ g[0] = 0
  /\ \A i \in 1..Len(list) : g[i] = g[i - 1] + f[list[i]]
  /\ Total(f, list) = g[Len(list)]

LEMMA TotalAdds ==
  ASSUME NEW f \in [Ids -> Nat], NEW list \in Seq(Ids)
  PROVE  \E g : Adds(g, f, list)
<1>1. PICK m \in Nat : m = Len(list)
  BY LenProperties
<1>2. \A i \in 1..m : f[list[i]] \in Nat
  BY <1>1, ElementOfSeq
<1> DEFINE g == CHOOSE h : h = [i \in 0..m |-> IF i = 0 THEN 0 ELSE h[i - 1] + f[list[i]]]
<1>3. g = [i \in 0..m |-> IF i = 0 THEN 0 ELSE g[i - 1] + f[list[i]]]
  <2>1. \E h : h = [i \in 0..m |-> IF i = 0 THEN 0 ELSE h[i - 1] + f[list[i]]]
    <3>1. \E h : Sums(h, f, list, m)
      BY SumsExist
    <3>2. QED
      BY <3>1 DEF Sums
  <2>2. QED
    BY <2>1
<1>4. Total(f, list) = g[m]
  BY <1>1 DEF Total
<1> HIDE DEF g
<1>5. DOMAIN g = 0..m /\ \A i \in 0..m : g[i] = IF i = 0 THEN 0 ELSE g[i - 1] + f[list[i]]
  <2> DEFINE r == [i \in 0..m |-> IF i = 0 THEN 0 ELSE g[i - 1] + f[list[i]]]
  <2>1. DOMAIN r = 0..m /\ \A i \in 0..m : r[i] = IF i = 0 THEN 0 ELSE g[i - 1] + f[list[i]]
    OBVIOUS
  <2>2. g = r
    BY <1>3
  <2> HIDE DEF r
  <2>3. QED
    BY <2>1, <2>2
<1>6. g[0] = 0 /\ \A i \in 1..m : g[i] = g[i - 1] + f[list[i]]
  BY <1>5
<1> DEFINE S == {i \in Nat : i <= m => g[i] \in Nat}
<1>7. 0 \in S
  BY <1>6
<1>8. ASSUME NEW i \in S PROVE i + 1 \in S
  <2> SUFFICES ASSUME i + 1 <= m PROVE g[i + 1] \in Nat
    OBVIOUS
  <2>1. i \in Nat /\ g[i] \in Nat /\ i + 1 \in 1..m /\ (i + 1) - 1 = i
    OBVIOUS
  <2> HIDE DEF S
  <2>2. g[i + 1] = g[i] + f[list[i + 1]] /\ f[list[i + 1]] \in Nat
    BY <1>2, <1>6, <2>1
  <2>3. QED
    BY <2>1, <2>2
<1>9. S = Nat
  <2> HIDE DEF S
  <2>1. S \in SUBSET Nat
    BY DEF S
  <2>2. QED
    BY <1>7, <1>8, <2>1, NumberInduction
<1>10. \A i \in 0..m : g[i] \in Nat
  BY <1>9
<1>11. g \in [0..m -> Nat]
  <2>1. g = [i \in 0..m |-> g[i]]
    BY <1>3, <1>5
  <2>2. QED
    BY <1>10, <2>1
<1>12. QED
  BY <1>1, <1>4, <1>6, <1>11 DEF Adds

\* Two lists of the same length, the second with d more in every partial sum
\* from position k on.
LEMMA TotalShifts ==
  ASSUME NEW m \in Nat, NEW k \in 0..m, NEW d \in Nat,
         NEW g \in [0..m -> Nat], NEW h \in [0..m -> Nat],
         h[k] = g[k] + d,
         \A i \in 1..m : i > k => h[i] - h[i - 1] = g[i] - g[i - 1]
  PROVE  h[m] = g[m] + d
<1> DEFINE S == {n \in Nat : k + n <= m => h[k + n] = g[k + n] + d}
<1>1. 0 \in S
  OBVIOUS
<1>2. ASSUME NEW n \in S PROVE n + 1 \in S
  <2> SUFFICES ASSUME k + (n + 1) <= m PROVE h[k + (n + 1)] = g[k + (n + 1)] + d
    OBVIOUS
  <2>1. PICK i \in 1..m : i = k + (n + 1)
    OBVIOUS
  <2>2. i > k /\ i - 1 = k + n /\ i - 1 \in 0..m /\ h[i - 1] = g[i - 1] + d
    BY <2>1
  <2>3. h[i] \in Nat /\ g[i] \in Nat /\ h[i - 1] \in Nat /\ g[i - 1] \in Nat
    BY <2>2
  <2>4. h[i] - h[i - 1] = g[i] - g[i - 1]
    BY <2>2
  <2>5. h[i] = g[i] + d
    <3> HIDE DEF S
    <3>1. PICK a \in Nat, b \in Nat, u \in Nat, w \in Nat :
             a = h[i] /\ b = g[i] /\ u = h[i - 1] /\ w = g[i - 1]
      BY <2>3
    <3>2. a - u = b - w /\ u = w + d
      BY <2>2, <2>4, <3>1
    <3>3. a = b + d
      BY <3>2
    <3>4. QED
      BY <3>1, <3>3
  <2>6. QED
    BY <2>1, <2>5
<1>3. S = Nat
  <2> HIDE DEF S
  <2>1. S \in SUBSET Nat
    BY DEF S
  <2>2. QED
    BY <1>1, <1>2, <2>1, NumberInduction
<1>4. m - k \in Nat /\ k + (m - k) = m /\ m <= m
  OBVIOUS
<1>5. m - k \in S
  BY <1>3, <1>4
<1> HIDE DEF S
<1>6. k + (m - k) <= m => h[k + (m - k)] = g[k + (m - k)] + d
  BY <1>5 DEF S
<1>7. QED
  BY <1>4, <1>6

\* A chunk in front of the list adds what it has.
LEMMA TotalOfLonger ==
  ASSUME NEW f \in [Ids -> Nat], NEW f2 \in [Ids -> Nat], NEW list \in Seq(Ids), NEW c \in Ids,
         \A i \in 1..Len(list) : f2[list[i]] = f[list[i]]
  PROVE  Total(f2, <<c>> \o list) = Total(f, list) + f2[c]
<1> DEFINE list2 == <<c>> \o list
<1>1. PICK m \in Nat : m = Len(list)
  BY LenProperties
<1>2. <<c>> \in Seq(Ids) /\ Len(<<c>>) = 1 /\ <<c>>[1] = c
  OBVIOUS
<1>3. /\ list2 \in Seq(Ids) /\ Len(list2) = 1 + m
      /\ \A i \in 1..(1 + m) : list2[i] = IF i <= 1 THEN <<c>>[i] ELSE list[i - 1]
  BY <1>1, <1>2, ConcatProperties
<1>4. list2[1] = c
  BY <1>2, <1>3
<1>5. \A i \in 1..m : list2[i + 1] = list[i]
  <2> SUFFICES ASSUME NEW i \in 1..m PROVE list2[i + 1] = list[i]
    OBVIOUS
  <2>1. i + 1 \in 1..(1 + m) /\ ~(i + 1 <= 1) /\ (i + 1) - 1 = i
    OBVIOUS
  <2>2. QED
    BY <1>3, <2>1
<1> HIDE DEF list2
<1>6. PICK g : Adds(g, f, list)
  BY TotalAdds
<1>7. PICK h : Adds(h, f2, list2)
  BY <1>3, TotalAdds
<1>8. /\ g \in [0..m -> Nat] /\ g[0] = 0 /\ Total(f, list) = g[m]
      /\ \A i \in 1..m : g[i] = g[i - 1] + f[list[i]]
  BY <1>1, <1>6 DEF Adds
<1>9. /\ h \in [0..(1 + m) -> Nat] /\ h[0] = 0 /\ Total(f2, list2) = h[1 + m]
      /\ \A i \in 1..(1 + m) : h[i] = h[i - 1] + f2[list2[i]]
  BY <1>3, <1>7 DEF Adds
<1> DEFINE h2 == [i \in 0..m |-> h[i + 1]]
<1>10. f2[c] \in Nat /\ 0 \in 0..m /\ m \in 0..m
  OBVIOUS
<1>11. h[1] = f2[c]
  BY <1>4, <1>9, <1>10
<1>12. h2 \in [0..m -> Nat] /\ h2[0] = g[0] + f2[c]
  BY <1>8, <1>9, <1>10, <1>11
<1>13. ASSUME NEW i \in 1..m PROVE h2[i] - h2[i - 1] = g[i] - g[i - 1]
  <2>1. /\ i + 1 \in 1..(1 + m) /\ (i + 1) - 1 = i /\ i \in 0..m /\ i - 1 \in 0..m
        /\ (i - 1) + 1 = i /\ i \in 0..(1 + m) /\ i - 1 \in Nat
    OBVIOUS
  <2>2. h2[i] = h[i + 1] /\ h2[i - 1] = h[i]
    BY <2>1
  <2>3. h[i + 1] = h[i] + f2[list2[i + 1]]
    BY <1>9, <2>1
  <2>4. f2[list2[i + 1]] = f[list[i]] /\ f[list[i]] \in Nat
    BY <1>1, <1>5, ElementOfSeq
  <2>5. g[i] = g[i - 1] + f[list[i]] /\ g[i - 1] \in Nat /\ h[i] \in Nat
    BY <1>8, <1>9, <2>1
  <2>6. PICK a \in Nat, b \in Nat, u \in Nat : a = f[list[i]] /\ b = g[i - 1] /\ u = h[i]
    BY <2>4, <2>5
  <2>7. h2[i] = u + a /\ h2[i - 1] = u /\ g[i] = b + a /\ g[i - 1] = b
    BY <2>2, <2>3, <2>4, <2>5, <2>6
  <2>8. (u + a) - u = (b + a) - b
    OBVIOUS
  <2>9. QED
    BY <2>7, <2>8
<1>14. h2[m] = h[1 + m]
  BY <1>10
<1> HIDE DEF h2
<1>15. h2[m] = g[m] + f2[c]
  BY <1>8, <1>10, <1>12, <1>13, TotalShifts
<1>16. QED
  BY <1>8, <1>9, <1>14, <1>15 DEF list2

\* The head of a list without repetition takes n more.
LEMMA TotalOfFuller ==
  ASSUME NEW f \in [Ids -> Nat], NEW list \in Seq(Ids), list # <<>>, NEW n \in Nat,
         \A i, j \in DOMAIN list : list[i] = list[j] => i = j
  PROVE  Total([f EXCEPT ![list[1]] = @ + n], list) = Total(f, list) + n
<1> DEFINE f2 == [f EXCEPT ![list[1]] = @ + n]
<1>1. PICK m \in Nat : m = Len(list)
  BY LenProperties
<1>2. m # 0 /\ DOMAIN list = 1..m /\ 1 \in 1..m
  BY <1>1, EmptySeq, LenProperties
<1>3. \A i \in 1..m : list[i] \in Ids
  BY <1>1, ElementOfSeq
<1>4. /\ f2 \in [Ids -> Nat] /\ f2[list[1]] = f[list[1]] + n
      /\ \A i \in 1..m : i > 1 => f2[list[i]] = f[list[i]]
  BY <1>2, <1>3
<1> HIDE DEF f2
<1>5. PICK g : Adds(g, f, list)
  BY TotalAdds
<1>6. PICK h : Adds(h, f2, list)
  BY <1>4, TotalAdds
<1>7. /\ g \in [0..m -> Nat] /\ g[0] = 0 /\ Total(f, list) = g[m]
      /\ \A i \in 1..m : g[i] = g[i - 1] + f[list[i]]
  BY <1>1, <1>5 DEF Adds
<1>8. /\ h \in [0..m -> Nat] /\ h[0] = 0 /\ Total(f2, list) = h[m]
      /\ \A i \in 1..m : h[i] = h[i - 1] + f2[list[i]]
  BY <1>1, <1>6 DEF Adds
<1>9. h[1] = g[1] + n
  <2>1. f[list[1]] \in Nat /\ f2[list[1]] = f[list[1]] + n
    BY <1>2, <1>3, <1>4
  <2>2. g[1] = 0 + f[list[1]] /\ h[1] = 0 + f2[list[1]]
    BY <1>2, <1>7, <1>8
  <2>3. QED
    BY <2>1, <2>2
<1>10. ASSUME NEW i \in 1..m, i > 1 PROVE h[i] - h[i - 1] = g[i] - g[i - 1]
  <2>1. f2[list[i]] = f[list[i]] /\ f[list[i]] \in Nat
    BY <1>3, <1>4, <1>10
  <2>2. g[i] = g[i - 1] + f[list[i]] /\ h[i] = h[i - 1] + f2[list[i]]
    BY <1>7, <1>8
  <2>3. g[i - 1] \in Nat /\ h[i - 1] \in Nat
    BY <1>7, <1>8
  <2>4. PICK a \in Nat, b \in Nat, u \in Nat : a = f[list[i]] /\ b = g[i - 1] /\ u = h[i - 1]
    BY <2>1, <2>3
  <2>5. h[i] = u + a /\ h[i - 1] = u /\ g[i] = b + a /\ g[i - 1] = b
    BY <2>1, <2>2, <2>4
  <2>6. (u + a) - u = (b + a) - b
    OBVIOUS
  <2>7. QED
    BY <2>5, <2>6
<1>11. 1 \in 0..m
  BY <1>2
<1>12. h[m] = g[m] + n
  <2>1. g \in [0..m -> Nat] /\ h \in [0..m -> Nat]
    BY <1>7, <1>8
  <2>2. \A i \in 1..m : i > 1 => h[i] - h[i - 1] = g[i] - g[i - 1]
    BY <1>10
  <2>3. QED
    BY ONLY m \in Nat, n \in Nat, <1>9, <1>11, <2>1, <2>2, TotalShifts
<1>13. QED
  BY <1>7, <1>8, <1>12 DEF f2

\* Less in every chunk is less in all.
LEMMA TotalOfLess ==
  ASSUME NEW f \in [Ids -> Nat], NEW f2 \in [Ids -> Nat], NEW list \in Seq(Ids),
         \A i \in 1..Len(list) : f[list[i]] <= f2[list[i]]
  PROVE  Total(f, list) <= Total(f2, list)
<1>1. PICK m \in Nat : m = Len(list)
  BY LenProperties
<1>2. \A i \in 1..m : f[list[i]] \in Nat /\ f2[list[i]] \in Nat /\ f[list[i]] <= f2[list[i]]
  BY <1>1, ElementOfSeq
<1>3. PICK g : Adds(g, f, list)
  BY TotalAdds
<1>4. PICK h : Adds(h, f2, list)
  BY TotalAdds
<1>5. /\ g \in [0..m -> Nat] /\ g[0] = 0 /\ Total(f, list) = g[m]
      /\ \A i \in 1..m : g[i] = g[i - 1] + f[list[i]]
  BY <1>1, <1>3 DEF Adds
<1>6. /\ h \in [0..m -> Nat] /\ h[0] = 0 /\ Total(f2, list) = h[m]
      /\ \A i \in 1..m : h[i] = h[i - 1] + f2[list[i]]
  BY <1>1, <1>4 DEF Adds
<1> DEFINE S == {i \in Nat : i <= m => g[i] <= h[i]}
<1>7. 0 \in S
  BY <1>5, <1>6
<1>8. ASSUME NEW i \in S PROVE i + 1 \in S
  <2> SUFFICES ASSUME i + 1 <= m PROVE g[i + 1] <= h[i + 1]
    OBVIOUS
  <2>1. i \in Nat /\ g[i] <= h[i] /\ i + 1 \in 1..m /\ (i + 1) - 1 = i /\ i \in 0..m
    OBVIOUS
  <2> HIDE DEF S
  <2>2. PICK a \in Nat, b \in Nat, u \in Nat, w \in Nat :
           a = g[i] /\ b = h[i] /\ u = f[list[i + 1]] /\ w = f2[list[i + 1]]
    BY <1>2, <1>5, <1>6, <2>1
  <2>3. g[i + 1] = a + u /\ h[i + 1] = b + w
    BY <1>5, <1>6, <2>1, <2>2
  <2>4. a <= b /\ u <= w
    BY <1>2, <2>1, <2>2
  <2>5. a + u <= b + w
    BY <2>4
  <2>6. QED
    BY <2>3, <2>5
<1>9. S = Nat
  <2> HIDE DEF S
  <2>1. S \in SUBSET Nat
    BY DEF S
  <2>2. QED
    BY <1>7, <1>8, <2>1, NumberInduction
<1>10. g[m] <= h[m]
  <2> HIDE DEF S
  <2>1. m \in S
    BY <1>9
  <2>2. m <= m => g[m] <= h[m]
    BY <2>1 DEF S
  <2>3. QED
    BY <2>2
<1>11. QED
  BY <1>5, <1>6, <1>10

\* Nothing in any chunk is nothing in all.
LEMMA TotalOfNone ==
  ASSUME NEW f \in [Ids -> Nat], NEW list \in Seq(Ids),
         \A i \in 1..Len(list) : f[list[i]] = 0
  PROVE  Total(f, list) = 0
<1>1. PICK m \in Nat : m = Len(list)
  BY LenProperties
<1>2. PICK g : Adds(g, f, list)
  BY TotalAdds
<1>3. /\ g \in [0..m -> Nat] /\ g[0] = 0 /\ Total(f, list) = g[m]
      /\ \A i \in 1..m : g[i] = g[i - 1] + 0
  BY <1>1, <1>2 DEF Adds
<1> DEFINE z == [i \in 0..m |-> 0]
<1>4. z \in [0..m -> Nat] /\ \A i \in 0..m : z[i] = 0
  OBVIOUS
<1> HIDE DEF z
<1>5. ASSUME NEW i \in 1..m PROVE g[i] - g[i - 1] = z[i] - z[i - 1]
  <2>1. i \in 0..m /\ i - 1 \in 0..m
    OBVIOUS
  <2>2. g[i] = g[i - 1] /\ z[i] = 0 /\ z[i - 1] = 0 /\ g[i] \in Nat
    BY <1>3, <1>4, <2>1
  <2>3. QED
    BY <2>2
<1>6. 0 \in 0..m /\ m \in 0..m
  OBVIOUS
<1>7. g[0] = z[0] + 0
  BY <1>3, <1>4, <1>6
<1>8. g[m] = z[m] + 0
  BY <1>3, <1>4, <1>5, <1>6, <1>7, TotalShifts
<1>9. QED
  BY <1>3, <1>4, <1>6, <1>8

\* chunk_alloc_create establishes the invariant.
LEMMA InitIsInvariant == Init => IInv
<1> SUFFICES ASSUME Init
             PROVE  IInv
  OBVIOUS
<1>1. chunks \in Seq(Ids) /\ DOMAIN chunks = {} /\ Listed = {}
  <2>1. chunks = <<>> /\ Len(chunks) = 0
    BY EmptySeq DEF Init
  <2>2. chunks \in Seq(Ids) /\ DOMAIN chunks = {}
    BY <2>1, EmptySeq, LenProperties
  <2>3. QED
    BY <2>2 DEF Listed
<1>2. TypeOK
  BY <1>1 DEF Init, TypeOK, Regions
<1>3. RegionsDisjoint
  BY DEF Init, RegionsDisjoint
<1>4. LimitsHold
  BY ChunkAssumption DEF Init, LimitsHold, Exceeds
<1>5. QED
  BY <1>2, <1>3, <1>4 DEF IInv

\* The head serves the request.
LEMMA MallocFromHeadPreserves ==
  ASSUME IInv, NEW n \in Sizes, MallocFromHead(n)
  PROVE  IInv'
<1>1. PICK c \in Listed : c = Head(chunks) /\ c \in Ids
  <2>1. chunks \in Seq(Ids) /\ chunks # <<>>
    BY DEF IInv, TypeOK, MallocFromHead, HeadFits
  <2>2. Head(chunks) = chunks[1] /\ 1 \in DOMAIN chunks
    BY <2>1, EmptySeq, LenProperties, HeadTailProperties
  <2>3. QED
    BY <2>1, <2>2 DEF Listed, IInv, TypeOK
<1>2. /\ Carve(c, used[c], n) /\ n < limit[c] - used[c]
      /\ used' = [used EXCEPT ![c] = @ + n]
      /\ UNCHANGED <<chunks, limit, num_chunks, total_allocated, crashed>>
  BY <1>1 DEF MallocFromHead, HeadFits, Fits
<1>3. n \in Nat /\ used \in [Ids -> Nat] /\ limit \in [Ids -> Nat] /\ live \subseteq Regions
  BY NewSizeProperties DEF IInv, TypeOK
<1>4. /\ live' \subseteq Regions
      /\ \A r, s \in live' : r # s /\ r.chunk = s.chunk => Apart(r, s)
  BY <1>1, <1>2, <1>3, CarveProperties DEF IInv, RegionsDisjoint
<1>5. Listed' = Listed
  BY <1>2 DEF Listed
<1>6. TypeOK'
  <2>1. total_used' \in Nat
    BY <1>2, <1>3 DEF IInv, TypeOK, Carve
  <2>2. used' \in [Ids -> Nat] /\ \A d \in Listed : used'[d] <= limit'[d]
    BY <1>1, <1>2, <1>3 DEF IInv, TypeOK, Listed
  <2>3. QED
    BY <1>2, <1>4, <1>5, <2>1, <2>2 DEF IInv, TypeOK
<1>7. \A r \in live' : r.chunk \in Listed /\ r.from + r.size <= used'[r.chunk]
  <2> SUFFICES ASSUME NEW r \in live'
               PROVE  r.chunk \in Listed /\ r.from + r.size <= used'[r.chunk]
    OBVIOUS
  <2>1. CASE r \in live
    <3>1. r.chunk \in Listed /\ r.from + r.size <= used[r.chunk]
      BY <2>1 DEF IInv, RegionsDisjoint
    <3>2. r.chunk \in Ids /\ r.from + r.size \in Int
      <4>1. r.chunk \in Ids /\ r.from \in Nat /\ r.size \in Sizes
        BY <1>3, <2>1 DEF Regions
      <4>2. Sizes \subseteq Nat
        BY ChunkAssumption
      <4>3. r.size \in Nat
        BY <4>1, <4>2
      <4>4. QED
        BY <4>1, <4>3
    <3>3. used[r.chunk] <= used'[r.chunk] /\ used'[r.chunk] \in Int /\ used[r.chunk] \in Int
      BY <1>1, <1>2, <1>3, <3>2
    <3>4. QED
      BY <3>1, <3>2, <3>3
  <2>2. CASE r = [chunk |-> c, from |-> used[c], size |-> n]
    BY <1>1, <1>2, <1>3, <2>2
  <2>3. QED
    BY <1>2, <2>1, <2>2 DEF Carve
<1>8. QED
  BY <1>2, <1>4, <1>5, <1>6, <1>7 DEF IInv, RegionsDisjoint, LimitsHold, Exceeds

\* Adding a chunk, with or without a region in it.
LEMMA AddChunkProperties ==
  ASSUME IInv, NEW n \in Sizes, NEW c \in Ids, NEW u \in Nat, u <= NewSize(n),
         AddChunk(c, n, u)
  PROVE  /\ chunks' \in Seq(Ids)
         /\ \A i, j \in DOMAIN chunks' : chunks'[i] = chunks'[j] => i = j
         /\ Listed' = Listed \cup {c}
         /\ used' \in [Ids -> Nat] /\ limit' \in [Ids -> Nat]
         /\ \A d \in Listed' : used'[d] <= limit'[d]
         /\ \A d \in Listed : d # c /\ used'[d] = used[d]
         /\ used'[c] = u
         /\ num_chunks' \in Nat /\ total_allocated' \in Nat
         /\ crashed' = crashed
         /\ LimitsHold'
<1>1. NewSize(n) \in Nat
  BY NewSizeProperties
<1>2. /\ chunks' \in Seq(Ids)
      /\ \A i, j \in DOMAIN chunks' : chunks'[i] = chunks'[j] => i = j
      /\ Listed' = Listed \cup {c}
  BY ListGrows DEF IInv, AddChunk
<1>3. /\ used' = [used EXCEPT ![c] = u] /\ limit' = [limit EXCEPT ![c] = NewSize(n)]
      /\ used \in [Ids -> Nat] /\ limit \in [Ids -> Nat]
      /\ c \notin Listed /\ Listed \subseteq Ids
      /\ \A d \in Listed : used[d] <= limit[d]
  BY DEF IInv, TypeOK, AddChunk, Listed
<1>4. \A d \in Listed' : used'[d] <= limit'[d]
  BY <1>1, <1>2, <1>3
<1>5. num_chunks' \in Nat /\ total_allocated' \in Nat /\ LimitsHold'
  <2>1. PICK k \in Nat, a \in Nat, m \in Nat :
          k = num_chunks /\ a = total_allocated /\ m = NewSize(n)
    BY <1>1 DEF IInv, TypeOK
  <2>2. num_chunks' = k + 1 /\ total_allocated' = a + m
    BY <2>1 DEF AddChunk
  <2>3. ~Exceeds(max_chunks, k + 1) /\ ~Exceeds(max_total_size, a + m)
    BY <2>1, ChunkAssumption DEF AddChunk, MayAdd, Exceeds
  <2>4. k + 1 \in Nat /\ a + m \in Nat
    BY ONLY k \in Nat, a \in Nat, m \in Nat
  <2>5. LimitsHold'
    BY <2>2, <2>3, <2>4, ChunkAssumption DEF LimitsHold, Exceeds
  <2>6. QED
    BY <2>2, <2>4, <2>5
<1>6. QED
  BY <1>1, <1>2, <1>3, <1>4, <1>5 DEF AddChunk

\* A new chunk is made and serves the request it was made for.
LEMMA MallocFromNewPreserves ==
  ASSUME IInv, NEW n \in Sizes, NEW c \in Ids, MallocFromNew(n, c)
  PROVE  IInv'
<1>1. n \in Nat /\ n <= NewSize(n) /\ NewSize(n) \in Nat
  BY NewSizeProperties
<1>2. AddChunk(c, n, n) /\ Carve(c, 0, n) /\ c \notin Listed
  BY DEF MallocFromNew, AddChunk
<1>3. /\ live' \subseteq Regions
      /\ \A r, s \in live' : r # s /\ r.chunk = s.chunk => Apart(r, s)
  BY <1>1, <1>2, CarveProperties DEF IInv, TypeOK, RegionsDisjoint
<1>4. total_used' \in Nat
  BY <1>1, <1>2 DEF IInv, TypeOK, Carve
<1>5. \A r \in live' : r.chunk \in Listed' /\ r.from + r.size <= used'[r.chunk]
  <2> SUFFICES ASSUME NEW r \in live'
               PROVE  r.chunk \in Listed' /\ r.from + r.size <= used'[r.chunk]
    OBVIOUS
  <2>1. CASE r \in live
    BY <1>1, <1>2, <2>1, AddChunkProperties DEF IInv, RegionsDisjoint
  <2>2. CASE r = [chunk |-> c, from |-> 0, size |-> n]
    BY <1>1, <1>2, <2>2, AddChunkProperties
  <2>3. QED
    BY <1>2, <2>1, <2>2 DEF Carve
<1>6. TypeOK'
  BY <1>1, <1>2, <1>3, <1>4, AddChunkProperties DEF IInv, TypeOK
<1>7. LimitsHold'
  BY <1>1, <1>2, AddChunkProperties
<1>8. QED
  BY <1>3, <1>5, <1>6, <1>7 DEF IInv, RegionsDisjoint

\* A new chunk is made and cannot serve the request.
LEMMA MallocExactFailsPreserves ==
  ASSUME IInv, NEW n \in Sizes, NEW c \in Ids, MallocExactFails(n, c)
  PROVE  IInv'
<1>1. 0 <= NewSize(n) /\ AddChunk(c, n, 0) /\ UNCHANGED <<total_used, live>>
  BY NewSizeProperties DEF MallocExactFails
<1>2. TypeOK'
  BY <1>1, AddChunkProperties DEF IInv, TypeOK
<1>3. RegionsDisjoint'
  BY <1>1, AddChunkProperties DEF IInv, RegionsDisjoint
<1>4. QED
  BY <1>1, <1>2, <1>3, AddChunkProperties DEF IInv

\* chunk_alloc_reset_all: no region is left, every listed chunk is empty.
LEMMA ResetAllPreserves == ASSUME IInv, ResetAll PROVE IInv'
<1>1. Listed' = Listed /\ Listed \subseteq Ids
  BY DEF ResetAll, Listed, IInv, TypeOK
<1>2. /\ used' = [c \in Ids |-> IF c \in Listed THEN 0 ELSE used[c]]
      /\ total_used' = 0 /\ live' = {}
      /\ UNCHANGED <<chunks, limit, num_chunks, total_allocated, crashed>>
  BY DEF ResetAll, Emptied
<1>3. TypeOK'
  BY <1>1, <1>2 DEF IInv, TypeOK
<1>4. QED
  BY <1>2, <1>3 DEF IInv, RegionsDisjoint, LimitsHold, Exceeds

\* chunk_alloc_free_all: no chunk and no region is left.
LEMMA FreeAllPreserves == ASSUME IInv, FreeAll PROVE IInv'
<1>1. /\ chunks' = <<>> /\ chunks' \in Seq(Ids) /\ DOMAIN chunks' = {} /\ Listed' = {}
      /\ num_chunks' = 0 /\ total_allocated' = 0 /\ total_used' = 0 /\ live' = {}
      /\ UNCHANGED <<limit, used, crashed>>
  BY EmptySeq DEF FreeAll, Listed
<1>2. QED
  BY <1>1, ChunkAssumption DEF IInv, TypeOK, RegionsDisjoint, LimitsHold, Exceeds

\* A step that changes nothing, or only stops the process.
LEMMA StutterPreserves ==
  ASSUME IInv, UNCHANGED state, crashed' \in BOOLEAN
  PROVE  IInv'
<1>1. Listed' = Listed
  BY DEF state, Listed
<1>2. TypeOK'
  BY <1>1 DEF state, IInv, TypeOK
<1>3. RegionsDisjoint'
  BY <1>1 DEF state, IInv, RegionsDisjoint
<1>4. QED
  BY <1>2, <1>3 DEF state, IInv, LimitsHold, Exceeds

\* Every path through every operation keeps the invariant.
LEMMA NextPreserves == IInv /\ [Next]_vars => IInv'
<1> SUFFICES ASSUME IInv, [Next]_vars PROVE IInv'
  OBVIOUS
<1>1. ASSUME NEW n \in Sizes, Malloc(n) PROVE IInv'
  <2>1. ASSUME MallocFails(n) \/ MallocCrashes(n) PROVE IInv'
    BY <2>1, StutterPreserves DEF MallocFails, MallocCrashes, vars, state, IInv, TypeOK
  <2>2. QED
    BY <1>1, <2>1, MallocFromHeadPreserves, MallocFromNewPreserves, MallocExactFailsPreserves
       DEF Malloc
<1>2. CASE Refuse \/ UNCHANGED vars
  BY <1>2, StutterPreserves DEF Refuse, vars, state, IInv, TypeOK
<1>3. QED
  BY <1>1, <1>2, ResetAllPreserves, FreeAllPreserves DEF Next

-----------------------------------------------------------------------------
\* The counters.

\* What is used is no more than what is there, in every chunk and so in all.
LEMMA UsedIsLess ==
  ASSUME TypeOK'
  PROVE  Total(used', chunks') <= Total(limit', chunks')
<1>1. /\ chunks' \in Seq(Ids) /\ used' \in [Ids -> Nat] /\ limit' \in [Ids -> Nat]
      /\ \A c \in {chunks'[i] : i \in DOMAIN chunks'} : used'[c] <= limit'[c]
  BY DEF TypeOK, Listed
<1>2. DOMAIN chunks' = 1..Len(chunks')
  BY <1>1, LenProperties
<1>3. \A i \in 1..Len(chunks') : used'[chunks'[i]] <= limit'[chunks'[i]]
  BY <1>1, <1>2
<1>4. QED
  BY <1>1, <1>3, TotalOfLess

\* The head serves the request: it and total_used grow by the same number.
LEMMA MallocFromHeadCounts ==
  ASSUME IInv, CountersMatch, NEW n \in Sizes, MallocFromHead(n)
  PROVE  CountersMatch'
<1>1. PICK k \in Nat : k = n
  BY NewSizeProperties
<1>2. /\ chunks \in Seq(Ids) /\ chunks # <<>> /\ used \in [Ids -> Nat]
      /\ \A i, j \in DOMAIN chunks : chunks[i] = chunks[j] => i = j
  BY DEF IInv, TypeOK, MallocFromHead, HeadFits
<1>3. Head(chunks) = chunks[1]
  BY <1>2, HeadTailProperties
<1>4. /\ used' = [used EXCEPT ![chunks[1]] = @ + k] /\ total_used' = total_used + k
      /\ chunks' = chunks /\ limit' = limit
      /\ num_chunks' = num_chunks /\ total_allocated' = total_allocated
  BY <1>1, <1>3 DEF MallocFromHead, Carve
<1>5. Total(used', chunks) = Total(used, chunks) + k
  BY <1>2, <1>4, TotalOfFuller
<1>6. total_used' = Total(used', chunks') /\ total_allocated' = Total(limit', chunks')
  BY <1>4, <1>5 DEF CountersMatch
<1>7. TypeOK'
  BY MallocFromHeadPreserves DEF IInv
<1>8. total_used' <= total_allocated'
  BY <1>6, <1>7, UsedIsLess
<1>9. QED
  BY <1>4, <1>6, <1>8 DEF CountersMatch

\* A new chunk: its size and what is used of it are added.
LEMMA AddChunkCounts ==
  ASSUME IInv, CountersMatch, NEW n \in Sizes, NEW c \in Ids, NEW u \in Nat,
         AddChunk(c, n, u), total_used' = total_used + u, TypeOK'
  PROVE  CountersMatch'
<1>1. PICK s \in Nat : s = NewSize(n)
  BY NewSizeProperties
<1>2. chunks \in Seq(Ids) /\ used \in [Ids -> Nat] /\ limit \in [Ids -> Nat]
  BY DEF IInv, TypeOK
<1>3. /\ used' = [used EXCEPT ![c] = u] /\ limit' = [limit EXCEPT ![c] = s]
      /\ chunks' = <<c>> \o chunks /\ c \notin Listed
      /\ num_chunks' = num_chunks + 1 /\ total_allocated' = total_allocated + s
  BY <1>1 DEF AddChunk
<1>4. \A i \in 1..Len(chunks) : chunks[i] \in Ids /\ chunks[i] # c
  <2>1. DOMAIN chunks = 1..Len(chunks)
    BY <1>2, LenProperties
  <2>2. \A i \in 1..Len(chunks) : chunks[i] \in Ids
    BY <1>2, ElementOfSeq
  <2>3. QED
    BY <1>3, <2>1, <2>2 DEF Listed
<1>5. /\ used' \in [Ids -> Nat] /\ limit' \in [Ids -> Nat]
      /\ used'[c] = u /\ limit'[c] = s
      /\ \A i \in 1..Len(chunks) : used'[chunks[i]] = used[chunks[i]]
      /\ \A i \in 1..Len(chunks) : limit'[chunks[i]] = limit[chunks[i]]
  BY <1>2, <1>3, <1>4
<1>6. Total(used', <<c>> \o chunks) = Total(used, chunks) + u
  <2>1. Total(used', <<c>> \o chunks) = Total(used, chunks) + used'[c]
    BY <1>2, <1>5, TotalOfLonger
  <2>2. QED
    BY <1>5, <2>1
<1>7. Total(limit', <<c>> \o chunks) = Total(limit, chunks) + s
  <2>1. Total(limit', <<c>> \o chunks) = Total(limit, chunks) + limit'[c]
    BY <1>2, <1>5, TotalOfLonger
  <2>2. QED
    BY <1>5, <2>1
<1>8. total_used' = Total(used', chunks') /\ total_allocated' = Total(limit', chunks')
  BY <1>3, <1>6, <1>7 DEF CountersMatch
<1>9. num_chunks' = Len(chunks')
  <2>1. Len(<<c>> \o chunks) = 1 + Len(chunks) /\ Len(chunks) \in Nat
    <3>1. <<c>> \in Seq(Ids) /\ Len(<<c>>) = 1
      OBVIOUS
    <3>2. QED
      BY <1>2, <3>1, ConcatProperties, LenProperties
  <2>2. QED
    BY <1>3, <2>1 DEF CountersMatch
<1>10. total_used' <= total_allocated'
  BY <1>8, UsedIsLess
<1>11. QED
  BY <1>8, <1>9, <1>10 DEF CountersMatch

\* chunk_alloc_reset_all empties every chunk that is counted.
LEMMA ResetAllCounts == ASSUME IInv, CountersMatch, ResetAll PROVE CountersMatch'
<1>1. /\ used' = [c \in Ids |-> IF c \in Listed THEN 0 ELSE used[c]]
      /\ total_used' = 0
      /\ UNCHANGED <<chunks, limit, num_chunks, total_allocated>>
  BY DEF ResetAll, Emptied
<1>2. chunks \in Seq(Ids) /\ used \in [Ids -> Nat] /\ total_allocated \in Nat
  BY DEF IInv, TypeOK
<1>3. \A i \in 1..Len(chunks) : chunks[i] \in Ids /\ chunks[i] \in Listed
  <2>1. DOMAIN chunks = 1..Len(chunks)
    BY <1>2, LenProperties
  <2>2. \A i \in 1..Len(chunks) : chunks[i] \in Ids
    BY <1>2, ElementOfSeq
  <2>3. QED
    BY <2>1, <2>2 DEF Listed
<1>4. used' \in [Ids -> Nat] /\ \A i \in 1..Len(chunks) : used'[chunks[i]] = 0
  BY <1>1, <1>2, <1>3
<1>5. Total(used', chunks) = 0
  BY <1>2, <1>4, TotalOfNone
<1>6. QED
  BY <1>1, <1>2, <1>5 DEF CountersMatch

\* chunk_alloc_free_all leaves nothing to count.
LEMMA EmptyCounts ==
  ASSUME IInv, chunks = <<>>, num_chunks = 0, total_allocated = 0, total_used = 0
  PROVE  CountersMatch
<1>1. /\ chunks \in Seq(Ids) /\ Len(chunks) = 0
      /\ used \in [Ids -> Nat] /\ limit \in [Ids -> Nat]
  BY EmptySeq DEF IInv, TypeOK
<1>2. \A i \in 1..Len(chunks) : used[chunks[i]] = 0 /\ limit[chunks[i]] = 0
  BY <1>1
<1>3. Total(used, chunks) = 0 /\ Total(limit, chunks) = 0
  BY <1>1, <1>2, TotalOfNone
<1>4. QED
  BY <1>1, <1>3 DEF CountersMatch

\* Every path through every operation keeps the counters.
LEMMA NextCounts == IInv /\ CountersMatch /\ [Next]_vars => CountersMatch'
<1> SUFFICES ASSUME IInv, CountersMatch, [Next]_vars PROVE CountersMatch'
  OBVIOUS
<1>1. ASSUME UNCHANGED state PROVE CountersMatch'
  BY <1>1 DEF state, CountersMatch
<1>2. ASSUME NEW n \in Sizes, NEW c \in Ids, MallocFromNew(n, c) PROVE CountersMatch'
  <2>1. PICK k \in Nat : k = n
    BY NewSizeProperties
  <2>2. AddChunk(c, n, k) /\ total_used' = total_used + k
    BY <1>2, <2>1 DEF MallocFromNew, Carve
  <2>3. TypeOK'
    BY <1>2, MallocFromNewPreserves DEF IInv
  <2>4. QED
    BY <2>2, <2>3, AddChunkCounts
<1>3. ASSUME NEW n \in Sizes, NEW c \in Ids, MallocExactFails(n, c) PROVE CountersMatch'
  <2>1. AddChunk(c, n, 0) /\ total_used' = total_used + 0
    BY <1>3 DEF MallocExactFails, IInv, TypeOK
  <2>2. TypeOK'
    BY <1>3, MallocExactFailsPreserves DEF IInv
  <2>3. QED
    BY <2>1, <2>2, AddChunkCounts
<1>4. ASSUME NEW n \in Sizes, Malloc(n) PROVE CountersMatch'
  <2>1. ASSUME MallocFails(n) \/ MallocCrashes(n) PROVE CountersMatch'
    BY <1>1, <2>1 DEF MallocFails, MallocCrashes, vars, state
  <2>2. QED
    BY <1>2, <1>3, <1>4, <2>1, MallocFromHeadCounts DEF Malloc
<1>5. CASE Refuse \/ UNCHANGED vars
  BY <1>1, <1>5 DEF Refuse, vars, state
<1>6. CASE FreeAll
  <2>1. IInv'
    BY <1>6, FreeAllPreserves
  <2>2. chunks' = <<>> /\ num_chunks' = 0 /\ total_allocated' = 0 /\ total_used' = 0
    BY <1>6 DEF FreeAll
  <2>3. (IInv /\ chunks = <<>> /\ num_chunks = 0 /\ total_allocated = 0 /\ total_used = 0
         => CountersMatch)'
    BY EmptyCounts, PTL
  <2>4. QED
    BY <2>1, <2>2, <2>3
<1>7. QED
  BY <1>4, <1>5, <1>6, ResetAllCounts DEF Next

\* The inductive invariant holds in every reachable state.
THEOREM Invariance == Spec => []IInv
<1>1. Init => IInv
  BY InitIsInvariant
<1>2. QED
  BY <1>1, NextPreserves, PTL DEF Spec

\* For any settings: no two callers share a byte, every region lies in a chunk
\* that exists, and the limits are kept on every path.
THEOREM ChunkSafety == Spec => []Inv
BY Invariance, PTL DEF IInv, Inv
\* The counters are those of the chunks in the list on every path, so that the
\* assertions that count them again (DBG_ASSERT of chunk_alloc) hold whatever is
\* asked for, in whatever order.
THEOREM ChunkCounters == Spec => []CountersMatch
<1>1. Init => IInv /\ CountersMatch
  BY InitIsInvariant, EmptyCounts DEF Init
<1>2. IInv /\ CountersMatch /\ [Next]_vars => (IInv /\ CountersMatch)'
  BY NextPreserves, NextCounts
<1>3. QED
  BY <1>1, <1>2, PTL DEF Spec
=============================================================================
