------------------------------ MODULE ExtArray ------------------------------
(***************************************************************************)
(* The growing array of src/ds/ext_array.c: one region of memory, its      *)
(* length and its capacity.  An element is size bytes; reads, writes and   *)
(* removals visit the elements of a stride [start, stride, nelems] and     *)
(* stop at the first one that does not lie within the length.              *)
(*                                                                         *)
(* Lengths are multiples of the element size, as they are for a caller who *)
(* keeps to one size (dvalidtr_random_test does).                          *)
(***************************************************************************)
EXTENDS Integers, FiniteSets, SequencesExt

\* data holds the bytes up to len; what lies between len and cap is unused.
ext_array_create == [data |-> <<>>, cap |-> 0]

ext_array_get_len(r) == Len(r.data)

\* ext_array_reserve: twice what is needed, when it is more than there is.
CapFor(r, need) == IF need > r.cap THEN 2 * need ELSE r.cap
Reserved(r, need) == [r EXCEPT !.cap = CapFor(r, need)]

\* ext_array_insert with all the memory it asks for.
ext_array_insert(r, ofst, src) ==
  [data |-> SubSeq(r.data, 1, ofst) \o src \o SubSeq(r.data, ofst + 1, Len(r.data)),
   cap  |-> CapFor(r, Len(r.data) + Len(src))]

\* The elements that a read or a write reaches.
Reached(r, str, size) ==
  {t \in 0..(str.nelems - 1) : (str.start + t * str.stride + 1) * size <= Len(r.data)}

\* The byte of the array that is the k-th byte of the elements reached.
ByteAt(str, size, k) ==
  (str.start + ((k - 1) \div size) * str.stride) * size + 1 + ((k - 1) % size)

ext_array_read(r, str, size) ==
  LET n == Cardinality(Reached(r, str, size))
  IN  [n |-> n, bytes |-> [k \in 1..(n * size) |-> r.data[ByteAt(str, size, k)]]]

ext_array_write(r, str, size, src) ==
  LET n     == Cardinality(Reached(r, str, size))
      by(i) == {k \in 1..(n * size) : ByteAt(str, size, k) = i}
  IN  [n   |-> n,
       arr |-> [r EXCEPT !.data = [i \in DOMAIN r.data |->
                  IF by(i) = {} THEN r.data[i] ELSE src[CHOOSE k \in by(i) : TRUE]]]]

\* One pass over the elements: next_remove moves on by a stride with every
\* element that is taken out, the others move to the front.
ext_array_remove(r, str, size) ==
  LET elem(rpos) == SubSeq(r.data, rpos * size + 1, (rpos + 1) * size)
      Visit(acc, rpos) ==
        IF acc.n < str.nelems /\ rpos = acc.next
        THEN [acc EXCEPT !.n = @ + 1, !.next = @ + str.stride, !.dest = @ \o elem(rpos)]
        ELSE [acc EXCEPT !.kept = @ \o elem(rpos)]
      done == FoldLeft(Visit, [n |-> 0, next |-> str.start, dest |-> <<>>, kept |-> <<>>],
                       [k \in 1..(Len(r.data) \div size) |-> k - 1])
  IN  [n |-> done.n, bytes |-> done.dest, arr |-> [r EXCEPT !.data = done.kept]]

=============================================================================
