----------------------------- MODULE ByteArray -----------------------------
(***************************************************************************)
(* What a data writer (src/include/c_specx/ds/data_writer.h) promises: an  *)
(* array of bytes in which a caller inserts anywhere, and reads, writes or *)
(* removes the elements of a stride.  A call reaches the whole elements    *)
(* that lie within the array and delivers their bytes.                     *)
(***************************************************************************)
EXTENDS Integers, FiniteSets, Sequences

CONSTANTS
  Sizes,      \* the sizes of elements
  Strides,    \* strides [start, stride, nelems] that callers use
  Strings     \* byte strings that callers hand in

VARIABLE bytes

Found(str, size) ==
  Cardinality({t \in 0..(str.nelems - 1) : (str.start + t * str.stride + 1) * size <= Len(bytes)})

\* The place of byte b, from 0, of the elements of a stride.
Place(str, size, b) == (str.start + (b \div size) * str.stride) * size + (b % size) + 1

Reached(str, size) == {Place(str, size, b) : b \in 0..(Found(str, size) * size - 1)}

Delivered(str, size) ==
  [k \in 1..(Found(str, size) * size) |-> bytes[Place(str, size, k - 1)]]

\* The bytes at the places outside of a set, in order.
Without(places) ==
  LET kept   == DOMAIN bytes \ places
      nth(k) == CHOOSE i \in kept : Cardinality({j \in kept : j <= i}) = k
  IN  [k \in 1..Cardinality(kept) |-> bytes[nth(k)]]

Init == bytes = <<>>

Insert(ofst, src) == bytes' = SubSeq(bytes, 1, ofst) \o src \o SubSeq(bytes, ofst + 1, Len(bytes))

Write(str, size, src) ==
  bytes' = [i \in DOMAIN bytes |->
    IF i \in Reached(str, size)
    THEN src[CHOOSE k \in 1..(Found(str, size) * size) : Place(str, size, k - 1) = i] ELSE bytes[i]]

Remove(str, size) == bytes' = Without(Reached(str, size))

\* The array is freed and a new one made.
StartOver == bytes' = <<>>

\* How long the array becomes narrows the calls that a step may be.
Next ==
  \/ /\ Len(bytes') > Len(bytes)
     /\ \E ofst \in 0..Len(bytes), src \in Strings :
          Len(src) = Len(bytes') - Len(bytes) /\ Insert(ofst, src)
  \/ /\ Len(bytes') < Len(bytes)
     /\ \E str \in Strides, size \in Sizes :
          Found(str, size) * size = Len(bytes) - Len(bytes') /\ Remove(str, size)
  \/ /\ Len(bytes') = Len(bytes)
     /\ \E str \in Strides, size \in Sizes, src \in Strings :
          Len(src) = str.nelems * size /\ Write(str, size, src)
  \/ StartOver

Spec == Init /\ [][Next]_bytes
=============================================================================
