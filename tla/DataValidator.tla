--------------------------- MODULE DataValidator ---------------------------
(***************************************************************************)
(* The data validator of src/dev/data_validator.c: it applies the same     *)
(* random operation to a reference data writer, an extensible array, and   *)
(* to the data writer under test, a block array or another extensible      *)
(* array, and compares what they answer.  Next to it, a program that uses  *)
(* the two arrays through slices (src/ds/stride.c) and appends.            *)
(*                                                                         *)
(* Every action is one call.  The error object is a new one for each call  *)
(* of dvalidtr_random_test, and niters and the random choices are any.  An *)
(* allocation may fail, in each place that allocates.                      *)
(***************************************************************************)
EXTENDS ExtArray, Strides

CONSTANTS
  cap_per_node,    \* bytes in a block
  Sizes,           \* element sizes
  max_insert,      \* elements in one insertion
  MaxStep,         \* random strides are 1 .. MaxStep (8 in the code)
  MaxLen,          \* bound: bytes in an array, for each element size
  MaxBlocks,       \* bound: blocks in the list
  Slices           \* the slices that the program asks for

ASSUME ValidatorAssumption ==
  /\ {cap_per_node, max_insert, MaxStep, MaxBlocks} \subseteq Nat \ {0}
  /\ Sizes \subseteq Nat \ {0}
  /\ \A n \in Sizes : MaxLen[n] \in Nat

VARIABLES
  kind,       \* what the writer under test is: "ext" or "block"
  size,       \* the element size of this program
  ref,        \* the reference array
  sut,        \* the array under test
  verdict,    \* the cause of the last call's error object: "ok", "corrupt", "nomem"
  over        \* the test cannot go on: a failed ASSERT, a panic, one array without the bytes

vars == <<kind, size, ref, sut, verdict, over>>

BA == INSTANCE BlockArray

(****************** struct data_writer: two function tables ****************)

Created(k)   == IF k = "ext" THEN ext_array_create ELSE BA!block_array_create
Getlen(k, a) == IF k = "ext" THEN ext_array_get_len(a) ELSE BA!block_array_getlen(a)
Bytes(k, a)  == IF k = "ext" THEN a.data ELSE FlattenSeq(a)

InsertInto(k, a, ofst, src) ==
  IF k = "ext" THEN ext_array_insert(a, ofst, src) ELSE BA!block_array_insert(a, ofst, src)

\* What the insert functions return: the bytes written, or SUCCESS.
InsertResult(k, src) == IF k = "ext" THEN Len(src) ELSE 0

ReadFrom(k, a, str, sz) ==
  IF k = "ext" THEN ext_array_read(a, str, sz) ELSE BA!block_array_read(a, str, sz)

WriteInto(k, a, str, sz, src) ==
  IF k = "ext" THEN ext_array_write(a, str, sz, src) ELSE BA!block_array_write(a, str, sz, src)

RemoveFrom(k, a, str, sz) ==
  IF k = "ext" THEN ext_array_remove(a, str, sz) @@ [ok |-> TRUE]
               ELSE BA!block_array_remove(a, str, sz)

\* Whether an insertion asks for memory.
Allocates(k, a, ofst, src) ==
  IF k = "ext" THEN Len(a.data) + Len(src) > a.cap \/ ofst < Len(a.data)
               ELSE BA!NeedsBlock(a, ofst, src)

(******************************** The checks *******************************)

Alike(x, y) == x.n = y.n /\ x.bytes = y.bytes

\* dvalidtr_light_validate and dvalidtr_read, of the arrays r and s.
SameLength(r, s)         == Getlen("ext", r) = Getlen(kind, s)
ReadsAlike(r, s, str, sz) == Alike(ReadFrom("ext", r, str, sz), ReadFrom(kind, s, str, sz))

Verdict(alike) == verdict' = IF alike THEN "ok" ELSE "corrupt"

\* ptr_range: the bytes that the validator inserts and writes.
Pattern(n) == [i \in 1..n |-> i - 1]

\* Where dvalidtr_random_test inserts, and the strides that it draws.
Elements == Getlen("ext", ref) \div size
RandomOffsets == IF Elements = 0 THEN {0} ELSE {start * size : start \in 0..(Elements - 1)}
RandomStrides ==
  {str \in StridesOf(0..(Elements - 1), 1..MaxStep, 1..max_insert) :
     str.nelems <= (Elements - 1 - str.start) \div str.stride + 1}

Within(r, s) == Len(r.data) <= MaxLen[size] /\ (kind = "block" => Len(s) <= MaxBlocks)

(********************** One iteration of the random test *******************)

\* Both arrays take the bytes; then the counts, the bytes read back and the
\* lengths are compared.
dvalidtr_insert(ofst, n) ==
  LET src == Pattern(n * size)
      r   == InsertInto("ext", ref, ofst, src)
      s   == InsertInto(kind, sut, ofst, src)
      str == [start |-> ofst, stride |-> 1, nelems |-> Len(src)]
  IN  /\ Within(r, s)
      /\ ref' = r /\ sut' = s
      /\ Verdict(/\ InsertResult("ext", src) = InsertResult(kind, src)
                 /\ ReadsAlike(r, s, str, 1) /\ SameLength(r, s))
      /\ UNCHANGED over

\* No memory for the source: the way out frees a NULL pointer, an ASSERT.
InsertNoSource == over' = TRUE /\ verdict' = "nomem" /\ UNCHANGED <<ref, sut>>

\* No memory in the reference: nothing is inserted, though when it is the tail
\* that finds none the array has already been given its new capacity.
InsertNoRef(ofst, n) ==
  LET src == Pattern(n * size) IN
    /\ Allocates("ext", ref, ofst, src)
    /\ Len(ref.data) + Len(src) <= MaxLen[size]
    /\ \/ ref' = ref
       \/ ofst < Len(ref.data) /\ ref' = Reserved(ref, Len(ref.data) + Len(src))
    /\ verdict' = "nomem"
    /\ UNCHANGED <<sut, over>>

\* No memory in the array under test, when the reference has taken the bytes.
InsertNoSut(ofst, n) ==
  LET src == Pattern(n * size) IN
    /\ Allocates(kind, sut, ofst, src)
    /\ Len(ref.data) + Len(src) <= MaxLen[size]
    /\ ref' = InsertInto("ext", ref, ofst, src)
    /\ over' = TRUE /\ verdict' = "nomem"
    /\ UNCHANGED sut

\* No memory for one of the buffers of a read, a write or a removal.
NoBuffers == Elements > 0 /\ verdict' = "nomem" /\ UNCHANGED <<ref, sut, over>>

dvalidtr_read(str) == Verdict(ReadsAlike(ref, sut, str, size)) /\ UNCHANGED <<ref, sut, over>>

\* The array under test first; what was written is read back.
dvalidtr_write(str) ==
  LET src == Pattern(str.nelems * size)
      s   == WriteInto(kind, sut, str, size, src)
      r   == WriteInto("ext", ref, str, size, src)
  IN  /\ ref' = r.arr /\ sut' = s.arr
      /\ Verdict(r.n = s.n /\ ReadsAlike(r.arr, s.arr, str, size))
      /\ UNCHANGED over

dvalidtr_remove(str) ==
  LET r == RemoveFrom("ext", ref, str, size)
      s == RemoveFrom(kind, sut, str, size)
  IN  /\ ref' = r.arr /\ sut' = s.arr
      /\ over' = ~s.ok
      /\ Verdict(Alike(r, s) /\ SameLength(r.arr, s.arr))

\* dvalidtr_validate, after the last iteration: the lengths and all the bytes.
dvalidtr_validate ==
  LET all == [start |-> 0, stride |-> 1, nelems |-> Getlen("ext", ref)] IN
    /\ Elements > 0
    /\ Verdict(SameLength(ref, sut) /\ ReadsAlike(ref, sut, all, 1))
    /\ UNCHANGED <<ref, sut, over>>

(************************ The program's own calls **************************)

\* Both arrays, at their end, where the random test never inserts.
AppendBoth(n) ==
  LET src == Pattern(n * size)
      r   == InsertInto("ext", ref, Len(ref.data), src)
      s   == InsertInto(kind, sut, Len(ref.data), src)
  IN  /\ Within(r, s)
      /\ ref' = r /\ sut' = s
      /\ verdict' = "ok"
      /\ UNCHANGED over

\* What a slice selects, when it selects something.
RemoveSlice(src) ==
  LET str == stride_resolve(src, Elements)
      r   == RemoveFrom("ext", ref, str, size)
      s   == RemoveFrom(kind, sut, str, size)
  IN  /\ Resolvable(src) /\ str.nelems > 0
      /\ ref' = r.arr /\ sut' = s.arr
      /\ over' = ~s.ok
      /\ verdict' = "ok"

\* The arrays are freed, and others created for the next test.
StartOver ==
  /\ ref' = Created("ext") /\ sut' = Created(kind)
  /\ verdict' = "ok" /\ over' = FALSE

(***************************************************************************)

Init ==
  /\ kind \in {"ext", "block"} /\ size \in Sizes
  /\ ref = Created("ext") /\ sut = Created(kind)
  /\ verdict = "ok" /\ over = FALSE

RandomTest ==
  \/ \E ofst \in RandomOffsets, n \in 1..max_insert :
       dvalidtr_insert(ofst, n) \/ InsertNoRef(ofst, n) \/ InsertNoSut(ofst, n)
  \/ \E str \in RandomStrides : dvalidtr_read(str) \/ dvalidtr_write(str) \/ dvalidtr_remove(str)
  \/ InsertNoSource \/ NoBuffers \/ dvalidtr_validate

Program ==
  \/ \E n \in 1..max_insert : AppendBoth(n)
  \/ \E src \in Slices : RemoveSlice(src)

Next ==
  /\ \/ ~over /\ (RandomTest \/ Program)
     \/ StartOver
  /\ UNCHANGED <<kind, size>>

Spec == Init /\ [][Next]_vars

(******************************** Properties *******************************)

\* Every block holds at most cap_per_node bytes, an array what it has room for,
\* and the lengths are those of whole elements.
TypeOK ==
  /\ kind \in {"ext", "block"} /\ size \in Sizes
  /\ verdict \in {"ok", "corrupt", "nomem"} /\ over \in BOOLEAN
  /\ Len(ref.data) <= ref.cap /\ Len(ref.data) % size = 0
  /\ kind = "ext" => Len(sut.data) <= sut.cap
  /\ kind = "block" => \A i \in DOMAIN sut : Len(sut[i]) <= cap_per_node

\* The two arrays hold the same bytes after any sequence of calls: splitting a
\* block, spilling into new ones and compacting over their bounds
\* (block_array_insert, block_array_remove) lose, repeat and move no byte.
SameBytes == ~over => ref.data = Bytes(kind, sut)

Longest == CHOOSE n \in {MaxLen[k] : k \in Sizes} : \A k \in Sizes : MaxLen[k] <= n

Abstract == INSTANCE ByteArray WITH
  bytes <- IF over THEN <<>> ELSE Bytes(kind, sut),
  Strides <- StridesOf(0..Longest, 1..MaxStep, 1..Longest),
  Strings <- {Pattern(n) : n \in 1..Longest}

\* The array under test is an array of bytes: a call changes what the caller
\* asked for, wherever the blocks end.
ImplementsByteArray == Abstract!Spec

\* Reads and removals of any stride, also of one that runs past the end, deliver
\* the whole elements that lie within the array, and a removal never loses the
\* block where it writes: ASSERT (wcur == rcur).
DeliversElements ==
  ~over /\ Elements > 0 =>
    \A str \in StridesOf(0..Elements, 1..MaxStep, 1..max_insert) :
      LET wanted == [n |-> Abstract!Found(str, size), bytes |-> Abstract!Delivered(str, size)] IN
        /\ Alike(ReadFrom("ext", ref, str, size), wanted)
        /\ Alike(ReadFrom(kind, sut, str, size), wanted)
        /\ LET s == RemoveFrom(kind, sut, str, size) IN s.ok /\ Alike(s, wanted)

\* Both arrays hold and deliver the same bytes (ext_array.c, block_array.c).
Inv == TypeOK /\ SameBytes /\ DeliversElements

\* Each slice that the program may ask for selects what Python's slice selects.
SlicesSelect ==
  \A src \in Slices : Resolvable(src) => SelectsTheSlice(src, Elements)

\* An alarm of the validator is about a difference, or about the counts that
\* the two kinds of arrays return for an insertion.
AlarmsAreCounts ==
  [][verdict' = "corrupt" => kind = "block" /\ Len(ref'.data) > Len(ref.data)]_vars

\* The validator raises no alarm when both arrays did what they were asked.
NoFalseAlarm == SameBytes => verdict # "corrupt"

=============================================================================
