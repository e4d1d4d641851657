----------------------------- MODULE ChunkAlloc -----------------------------
(***************************************************************************)
(* The chunk allocator of src/memory/chunk_alloc.c over the linear         *)
(* allocator of src/memory/lalloc.c.  A chunk is a linear allocator with a *)
(* limit; the newest chunk is the head of the list and the only one that   *)
(* chunk_malloc tries before it makes another.  Every operation runs under *)
(* the allocator's latch, so each path through it is one step.             *)
(*                                                                         *)
(* A limit of 0 is no limit.  target_chunk_mult is a whole number here.    *)
(* The callers stop using their memory when they reset or free everything. *)
(***************************************************************************)
EXTENDS Integers, FiniteSets, SequencesExt

CONSTANTS
  Ids,             \* the chunks that the heap can give
  Sizes,           \* the numbers of bytes asked for
  max_alloc_size, max_total_size, target_chunk_mult,
  min_chunk_size, max_chunk_size, max_chunks,
  Checked          \* whether ASSERTs are compiled in (not NDEBUG)

\* The assertions of chunk_alloc_create and lmalloc.
ASSUME ChunkAssumption ==
  /\ IsFiniteSet(Ids)
  /\ Sizes \subseteq Nat \ {0}
  /\ {max_alloc_size, max_total_size, max_chunk_size, max_chunks} \subseteq Nat
  /\ target_chunk_mult \in Nat \ {0} /\ min_chunk_size \in Nat \ {0}
  /\ max_chunk_size = 0 \/ max_chunk_size >= min_chunk_size
  /\ Checked \in BOOLEAN

VARIABLES
  chunks,           \* the list from ca->head
  limit,            \* c->alloc.limit of each chunk
  used,             \* c->alloc.used of each chunk
  num_chunks, total_allocated, total_used,
  live,             \* the regions the callers use: chunk, first byte, size
  crashed           \* an ASSERT failed

vars == <<chunks, limit, used, num_chunks, total_allocated, total_used, live, crashed>>

Listed  == {chunks[i] : i \in DOMAIN chunks}
Regions == [chunk : Ids, from : Nat, size : Sizes]

Exceeds(max, n) == max > 0 /\ n > max

\* lmalloc has room for n bytes: one byte more must be left.
Fits(c, n) == n < limit[c] - used[c]

HeadFits(n) == chunks # <<>> /\ Fits(Head(chunks), n)

\* compute_new_chunk_size
NewSize(n) ==
  LET most(a, b)  == IF a < b THEN b ELSE a
      wanted      == most(n * target_chunk_mult, min_chunk_size)
      clamped     == IF Exceeds(max_chunk_size, wanted) THEN max_chunk_size ELSE wanted
  IN  most(clamped, n)

\* DBG_ASSERT (chunk_alloc, ca) and the ASSERTs on the size of a new chunk.
StateRefused  == Checked /\ max_chunks > 0 /\ num_chunks >= max_chunks
SizeRefused(n) == Checked /\ Exceeds(max_chunk_size, NewSize(n))

-----------------------------------------------------------------------------
\* chunk_alloc_create
Init ==
  /\ chunks = <<>>
  /\ limit = [c \in Ids |-> 0] /\ used = [c \in Ids |-> 0]
  /\ num_chunks = 0 /\ total_allocated = 0 /\ total_used = 0
  /\ live = {}
  /\ crashed = FALSE

\* Any operation on a state that its first assertion refuses.
Refuse ==
  /\ ~crashed /\ StateRefused
  /\ crashed' = TRUE
  /\ UNCHANGED <<chunks, limit, used, num_chunks, total_allocated, total_used, live>>

Entered == ~crashed /\ ~StateRefused

\* Mutant: the region begins after a byte of padding that is not counted.
CarveShifted(c, u, n) ==
  /\ live' = live \cup {[chunk |-> c, from |-> u + 1, size |-> n]}
  /\ total_used' = total_used + n

\* n bytes of chunk c, which has u bytes in use, go to the caller.
Carve(c, u, n) ==
  /\ live' = live \cup {[chunk |-> c, from |-> u, size |-> n]}
  /\ total_used' = total_used + n

\* chunk_malloc is served by the head.
MallocFromHead(n) ==
  /\ Entered
  /\ ~Exceeds(max_alloc_size, n)
  /\ HeadFits(n)
  /\ Carve(Head(chunks), used[Head(chunks)], n)
  /\ used' = [used EXCEPT ![Head(chunks)] = @ + n]
  /\ UNCHANGED <<chunks, limit, num_chunks, total_allocated, crashed>>

\* chunk_malloc needs a new chunk.
NeedsChunk(n) == Entered /\ ~Exceeds(max_alloc_size, n) /\ ~HeadFits(n)

MayAdd(n) ==
  /\ max_chunks = 0 \/ num_chunks < max_chunks
  /\ ~Exceeds(max_total_size, total_allocated + NewSize(n))

\* chunk_alloc_add_new_chunk links chunk c, which is used up to u.
AddChunk(c, n, u) ==
  /\ c \notin Listed
  /\ MayAdd(n) /\ ~SizeRefused(n)
  /\ chunks' = <<c>> \o chunks
  /\ limit' = [limit EXCEPT ![c] = NewSize(n)]
  /\ used' = [used EXCEPT ![c] = u]
  /\ num_chunks' = num_chunks + 1
  /\ total_allocated' = total_allocated + NewSize(n)
  /\ UNCHANGED crashed

\* chunk_malloc is served by a new chunk.
MallocFromNew(n, c) ==
  /\ NeedsChunk(n)
  /\ n < NewSize(n)
  /\ AddChunk(c, n, n)
  /\ Carve(c, 0, n)

\* The new chunk has exactly the size asked for, which lmalloc refuses: the
\* call returns NULL and the chunk stays.
MallocExactFails(n, c) ==
  /\ NeedsChunk(n)
  /\ n >= NewSize(n)
  /\ AddChunk(c, n, 0)
  /\ UNCHANGED <<total_used, live>>

\* chunk_malloc returns NULL for a limit, or because the heap gives no chunk.
MallocFails(n) ==
  /\ Entered
  /\ \/ Exceeds(max_alloc_size, n)
     \/ NeedsChunk(n) /\ (SizeRefused(n) => max_chunks > 0 /\ num_chunks >= max_chunks)
  /\ UNCHANGED vars

\* The assertion on the size of the new chunk fails.
MallocCrashes(n) ==
  /\ NeedsChunk(n)
  /\ max_chunks = 0 \/ num_chunks < max_chunks
  /\ SizeRefused(n)
  /\ crashed' = TRUE
  /\ UNCHANGED <<chunks, limit, used, num_chunks, total_allocated, total_used, live>>

\* Mutant: only the head is reset.
EmptiedHead == [c \in Ids |-> IF chunks # <<>> /\ c = Head(chunks) THEN 0 ELSE used[c]]

\* lalloc_reset of every chunk.
Emptied == [c \in Ids |-> IF c \in Listed THEN 0 ELSE used[c]]

\* chunk_alloc_reset_all
ResetAll ==
  /\ Entered
  /\ used' = Emptied
  /\ total_used' = 0
  /\ live' = {}
  /\ UNCHANGED <<chunks, limit, num_chunks, total_allocated, crashed>>

\* chunk_alloc_free_all
FreeAll ==
  /\ Entered
  /\ chunks' = <<>>
  /\ num_chunks' = 0 /\ total_allocated' = 0 /\ total_used' = 0
  /\ live' = {}
  /\ UNCHANGED <<limit, used, crashed>>

Malloc(n) ==
  \/ MallocFromHead(n)
  \/ \E c \in Ids : MallocFromNew(n, c) \/ MallocExactFails(n, c)
  \/ MallocFails(n)
  \/ MallocCrashes(n)

Next == Refuse \/ (\E n \in Sizes : Malloc(n)) \/ ResetAll \/ FreeAll

Spec == Init /\ [][Next]_vars

-----------------------------------------------------------------------------
\* Types; a chunk is in the list once and uses no more than it has.
TypeOK ==
  /\ chunks \in Seq(Ids)
  /\ \A i, j \in DOMAIN chunks : chunks[i] = chunks[j] => i = j
  /\ limit \in [Ids -> Nat] /\ used \in [Ids -> Nat]
  /\ \A c \in Listed : used[c] <= limit[c]
  /\ num_chunks \in Nat /\ total_allocated \in Nat /\ total_used \in Nat
  /\ live \subseteq Regions
  /\ crashed \in BOOLEAN

Apart(r, s) == r.from + r.size <= s.from \/ s.from + s.size <= r.from

\* Two callers never share a byte, and every region lies in the used part of a
\* chunk that exists (chunk_malloc, lmalloc).
RegionsDisjoint ==
  /\ \A r, s \in live : r # s /\ r.chunk = s.chunk => Apart(r, s)
  /\ \A r \in live : r.chunk \in Listed /\ r.from + r.size <= used[r.chunk]

\* The sum of f over the chunks of a list, taken from its head.
Total(f, list) ==
  LET sum[i \in 0..Len(list)] == IF i = 0 THEN 0 ELSE sum[i - 1] + f[list[i]]
  IN  sum[Len(list)]

\* The counters are those of the chunks in the list: the debug assertion of the
\* allocator counts them in a loop.  No more is used than is allocated.
CountersMatch ==
  /\ num_chunks = Len(chunks)
  /\ total_allocated = Total(limit, chunks)
  /\ total_used = Total(used, chunks)
  /\ total_used <= total_allocated

\* The limits of the settings hold ("Maximum total memory across all chunks",
\* "Maximum number of chunks that may be allocated").
LimitsHold ==
  /\ ~Exceeds(max_total_size, total_allocated)
  /\ ~Exceeds(max_chunks, num_chunks)

\* Regions and limits together (chunk_malloc, chunk_alloc_reset_all).
Inv == TypeOK /\ RegionsDisjoint /\ LimitsHold

\* No assertion fails, whatever is asked for within the settings.  It does not
\* hold with max_chunks set and the assertions compiled in (README, section 6).
NoAssertFails == ~crashed
=============================================================================
