----------------------------- MODULE BlockArray -----------------------------
(***************************************************************************)
(* The block array of src/ds/block_array.c: a doubly linked list of blocks *)
(* of cap_per_node bytes, each filled from its front.  The list is the     *)
(* sequence of the blocks' contents (a block's len is the length of its    *)
(* content), <<>> when there is no head.                                   *)
(*                                                                         *)
(* Reads, writes and removals walk the list with a cursor that takes       *)
(* turns: active for the bytes of an element of the stride, inactive for   *)
(* those between two elements.  A turn ends at a block's end as well, so   *)
(* an element may be cut into pieces that lie in several blocks.           *)
(***************************************************************************)
EXTENDS Integers, SequencesExt

CONSTANT cap_per_node

Smaller(a, b) == IF a < b THEN a ELSE b

block_array_create == <<>>

block_array_getlen(blocks) == FoldLeft(LAMBDA len, cur : len + Len(cur), 0, blocks)

(********************************* Insertion *******************************)

\* Bytes that come before block i.
BytesBefore(blocks, i) == block_array_getlen(SubSeq(blocks, 1, i - 1))

\* The block where an insertion starts: the first that ends at ofst or after.
InsertionBlock(blocks, ofst) ==
  CHOOSE i \in DOMAIN blocks :
    /\ ofst <= BytesBefore(blocks, i) + Len(blocks[i])
    /\ \A j \in 1..(i - 1) : ofst > BytesBefore(blocks, j) + Len(blocks[j])

\* Appending to the block at hand, and to a new one whenever it is full.
InBlocks(bytes) ==
  [i \in 1..((Len(bytes) + cap_per_node - 1) \div cap_per_node) |->
     SubSeq(bytes, (i - 1) * cap_per_node + 1, Smaller(i * cap_per_node, Len(bytes)))]

\* Mutant: the tail that was cut off is lost when new blocks are linked in.
InsertWithoutTail(blocks, ofst, src) ==
  LET list == IF blocks = <<>> THEN <<<<>>>> ELSE blocks
      i    == InsertionBlock(list, ofst)
      cut  == ofst - BytesBefore(list, i)
      full == SubSeq(list[i], 1, cut) \o src
      tail == SubSeq(list[i], cut + 1, Len(list[i]))
  IN  SubSeq(list, 1, i - 1)
        \o InBlocks(IF Len(full) + Len(tail) > cap_per_node THEN full ELSE full \o tail)
        \o SubSeq(list, i + 1, Len(list))

\* The tail of the block is set aside; src and then the tail are appended.
block_array_insert(blocks, ofst, src) ==
  LET list == IF blocks = <<>> THEN <<<<>>>> ELSE blocks
      i    == InsertionBlock(list, ofst)
      cut  == ofst - BytesBefore(list, i)
      tail == SubSeq(list[i], cut + 1, Len(list[i]))
  IN  SubSeq(list, 1, i - 1)
        \o InBlocks(SubSeq(list[i], 1, cut) \o src \o tail)
        \o SubSeq(list, i + 1, Len(list))

\* Whether an insertion takes a block from the slab allocator.
NeedsBlock(blocks, ofst, src) == Len(block_array_insert(blocks, ofst, src)) > Len(blocks)

(******************************** The cursor *******************************)

\* struct stride_state, with the block, the index in it and the elements done.
CursorAt(blk, idx, size) == [blk |-> blk, idx |-> idx, next |-> size, active |-> TRUE, total |-> 0]

\* The block and index of a byte, or 0 when the list ends before it.
SeekBlock(blocks, ofst) ==
  LET ends == {i \in DOMAIN blocks : ofst < BytesBefore(blocks, i) + Len(blocks[i])}
  IN  IF ends = {} THEN 0 ELSE CHOOSE i \in ends : \A j \in ends : i <= j

\* Mutant: the bytes between two elements are counted as a whole stride.
PassedTooFar(c, k, str, size) ==
  IF k < c.next
  THEN [c EXCEPT !.idx = @ + k, !.next = @ - k]
  ELSE [c EXCEPT !.idx    = @ + k,
                 !.total  = IF c.active THEN @ + 1 ELSE @,
                 !.active = ~c.active \/ str.stride = 1,
                 !.next   = IF c.active /\ str.stride > 1 THEN str.stride * size ELSE size]

\* The cursor after it passed k bytes of its turn; the next turn begins when
\* none are left.
Passed(c, k, str, size) ==
  IF k < c.next
  THEN [c EXCEPT !.idx = @ + k, !.next = @ - k]
  ELSE [c EXCEPT !.idx    = @ + k,
                 !.total  = IF c.active THEN @ + 1 ELSE @,
                 !.active = ~c.active \/ str.stride = 1,
                 !.next   = IF c.active /\ str.stride > 1 THEN (str.stride - 1) * size ELSE size]

\* The bytes (block and place) that a read copies or a write overwrites, and
\* the whole elements among them.
RECURSIVE Walk(_, _, _, _, _)
Walk(blocks, c, str, size, path) ==
  IF c.total >= str.nelems THEN [n |-> c.total, path |-> path]
  ELSE LET k      == Smaller(c.next, Len(blocks[c.blk]) - c.idx)
           passed == Passed(c, k, str, size)
           walked == IF c.active THEN path \o [b \in 1..k |-> <<c.blk, c.idx + b>>] ELSE path
       IN  IF passed.idx < Len(blocks[c.blk])
           THEN Walk(blocks, passed, str, size, walked)
           ELSE IF c.blk < Len(blocks)
                THEN Walk(blocks, [passed EXCEPT !.blk = @ + 1, !.idx = 0], str, size, walked)
                ELSE [n |-> passed.total, path |-> walked]

WalkFrom(blocks, str, size) ==
  LET blk == SeekBlock(blocks, str.start * size)
  IN  IF blk = 0 THEN [n |-> 0, path |-> <<>>]
      ELSE Walk(blocks, CursorAt(blk, str.start * size - BytesBefore(blocks, blk), size), str, size, <<>>)

block_array_read(blocks, str, size) ==
  LET w == WalkFrom(blocks, str, size)
  IN  [n |-> w.n, bytes |-> [k \in DOMAIN w.path |-> blocks[w.path[k][1]][w.path[k][2]]]]

block_array_write(blocks, str, size, src) ==
  LET w        == WalkFrom(blocks, str, size)
      at(i, j) == {k \in DOMAIN w.path : w.path[k] = <<i, j>>}
  IN  [n |-> w.n,
       arr |-> [i \in DOMAIN blocks |-> [j \in DOMAIN blocks[i] |->
                  IF at(i, j) = {} THEN blocks[i][j] ELSE src[CHOOSE k \in at(i, j) : TRUE]]]]

(********************************* Removal *********************************)
(* Two cursors: rcur reads, wcur is the block being written, at or before  *)
(* rcur; the blocks between them have been unlinked and freed.  The state  *)
(* of the compaction is                                                    *)
(*   done     the blocks before wcur                                       *)
(*   w        the bytes of wcur below wbidx                                *)
(*   rest     the blocks from rcur on, and idx is rbidx                    *)
(*   apart    rcur is not wcur                                             *)
(*   next, active, total   the turn of the cursor, as for a read           *)
(*   dest     what was removed                                             *)
(*   ok       no ASSERT (wcur == rcur) failed                              *)
(***************************************************************************)
Readable(c) == Len(Head(c.rest)) - c.idx
Chunk(c, k) == SubSeq(Head(c.rest), c.idx + 1, c.idx + k)

\* k bytes move from rcur to wcur; a full wcur is left for the next block,
\* which must be rcur.
Compacted(c, k) ==
  LET w == c.w \o Chunk(c, k)
  IN  IF Len(w) < cap_per_node THEN [c EXCEPT !.w = w]
      ELSE [c EXCEPT !.done = Append(@, w), !.w = <<>>, !.ok = @ /\ c.apart, !.apart = FALSE]

\* rcur is used up: it is unlinked and freed unless it is wcur.
NextBlock(c) == [c EXCEPT !.rest = Tail(@), !.idx = 0, !.apart = TRUE]

\* Mutant: what does not fit into wcur any more is forgotten.
DrainOnce(c) ==
  LET k == Smaller(cap_per_node - Len(c.w), Readable(c))
  IN  [Compacted(c, k) EXCEPT !.rest = Tail(@)]

\* After the last element: what is left of rcur's block is moved as well, and
\* the block is unlinked and freed, unless it has become wcur.
RECURSIVE Drain(_)
Drain(c) ==
  LET k     == Smaller(cap_per_node - Len(c.w), Readable(c))
      moved == [Compacted(c, k) EXCEPT !.idx = @ + k]
  IN  IF Readable(moved) > 0 THEN Drain(moved) ELSE [moved EXCEPT !.rest = Tail(@)]

RECURSIVE Compact(_, _, _)
Compact(c, str, size) ==
  IF c.total >= str.nelems THEN Drain(c)
  ELSE LET k     == IF c.active THEN Smaller(c.next, Readable(c))
                    ELSE Smaller(Smaller(c.next, cap_per_node - Len(c.w)), Readable(c))
           moved == IF c.active THEN [c EXCEPT !.dest = @ \o Chunk(c, k)] ELSE Compacted(c, k)
           after == Passed(moved, k, str, size)
       IN  IF Readable(after) > 0 THEN Compact(after, str, size)
           ELSE IF Len(after.rest) > 1 THEN Compact(NextBlock(after), str, size)
           ELSE NextBlock(after)

block_array_remove(blocks, str, size) ==
  LET blk   == SeekBlock(blocks, str.start * size)
      rbidx == str.start * size - BytesBefore(blocks, blk)
      start == CursorAt(blk, rbidx, size) @@
                 [done |-> SubSeq(blocks, 1, blk - 1), w |-> SubSeq(blocks[blk], 1, rbidx),
                  rest |-> SubSeq(blocks, blk, Len(blocks)), apart |-> FALSE, dest |-> <<>>, ok |-> TRUE]
      end   == Compact(start, str, size)
  IN  IF blk = 0 THEN [n |-> 0, bytes |-> <<>>, arr |-> blocks, ok |-> TRUE]
      ELSE [n |-> end.total, bytes |-> end.dest, arr |-> Append(end.done, end.w) \o end.rest, ok |-> end.ok]

=============================================================================
