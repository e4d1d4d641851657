------------------------------ MODULE CBuffer ------------------------------
(***************************************************************************)
(* The circular buffers of src/ds/cbuffer.c.  Data occupies [tail, head)   *)
(* of a ring of cap bytes; head = tail is an empty buffer or, with isfull, *)
(* a full one.  Bytes are copied in contiguous pieces, at most two of them *)
(* per call.  One thread uses the buffers.                                 *)
(*                                                                         *)
(* Each single-element call has a front and a back.  The code pops and     *)
(* peeks at the tail, the front, whichever is asked for (cbuffer.c:1223,   *)
(* 1468); cbuffer.h:365, 379 say that the back is the head side.  The      *)
(* callers name the end End.  Unless Strays they keep off elements that    *)
(* are there in part, and off places beyond a full ring.                   *)
(***************************************************************************)
EXTENDS Integers, Sequences, FiniteSets

CONSTANTS
  Bufs,      \* the buffers
  Bytes,     \* the values of a byte
  cap,       \* cap[x] is the capacity of buffer x
  Sizes,     \* the element sizes
  End,       \* the end at which callers pop and peek: "front" or "back"
  Strays,    \* callers also ask for elements that are not all there
  MaxLen     \* bound: bytes that one call stores

ASSUME CBufferAssumption ==
  /\ cap \in [Bufs -> Nat \ {0}]
  /\ Sizes \subseteq Nat \ {0} /\ MaxLen \in Nat
  /\ End \in {"front", "back"} /\ Strays \in BOOLEAN

VARIABLES
  buf,       \* each struct cbuffer
  out        \* what the last call returned, and the bytes it delivered

vars == <<buf, out>>

Strings == UNION {[1..n -> Bytes] : n \in 1..MaxLen}

Places(x) == 0..(cap[x] - 1)

Least(a, b) == IF a < b THEN a ELSE b

Out(call, res, bytes) == out' = [call |-> call, res |-> res, bytes |-> bytes]

\* cbuffer_len
cbuffer_len(b) ==
  IF b.isfull THEN b.cap
  ELSE IF b.head >= b.tail THEN b.head - b.tail
  ELSE b.cap - (b.tail - b.head)

cbuffer_avail(b)   == b.cap - cbuffer_len(b)
cbuffer_isempty(b) == ~b.isfull /\ b.head = b.tail

\* cbuffer_create, cbuffer_create_with: an array of cap bytes, of which the
\* first len are data.
Created(data, len) ==
  LET n == Cardinality(DOMAIN data) IN
    [cap |-> n, data |-> data, head |-> len % n, tail |-> 0, isfull |-> len = n]

Fresh(x) == {Created(data, len) : data \in [Places(x) -> Bytes], len \in 0..cap[x]}

Init ==
  /\ buf \in [Bufs -> UNION {Fresh(x) : x \in Bufs}]
  /\ \A x \in Bufs : buf[x].cap = cap[x]
  /\ out = [call |-> "none", res |-> 0, bytes |-> <<>>]

-----------------------------------------------------------------------------
(***************************************************************************)
(* The pieces.  A transfer is the buffer, the bytes moved so far and the   *)
(* number still to move; the loops of the code end after two passes, which *)
(* is what the code asserts after them.                                    *)
(***************************************************************************)

\* The n bytes from place p on.
Piece(b, p, n) == [i \in 1..n |-> b.data[p + i - 1]]

\* The buffer with bytes from place p on.
Stored(b, p, bytes) ==
  [b EXCEPT !.data = [q \in DOMAIN b.data |-> IF q \in p..(p + Len(bytes) - 1)
                                       THEN bytes[q - p + 1] ELSE b.data[q]]]

\* The size of the next piece to read.
ReadNext(b, left) ==
  IF ~b.isfull /\ b.head > b.tail THEN Least(b.head - b.tail, left)
                                  ELSE Least(b.cap - b.tail, left)

ReadPass(t) ==
  LET next == ReadNext(t.b, t.left) IN
    IF t.left = 0 THEN t
    ELSE [b     |-> [t.b EXCEPT !.tail = (@ + next) % t.b.cap, !.isfull = FALSE],
          bytes |-> t.bytes \o Piece(t.b, t.b.tail, next),
          left  |-> t.left - next]

\* The loop of cbuffer_read over n bytes.
ReadLoop(b, n) == ReadPass(ReadPass([b |-> b, bytes |-> <<>>, left |-> n]))

\* The size of the next piece to write.
WriteNext(b, left) ==
  IF b.head >= b.tail THEN Least(b.cap - b.head, left) ELSE Least(b.tail - b.head, left)

WritePass(t) ==
  LET next == WriteNext(t.b, Len(t.bytes))
      head == (t.b.head + next) % t.b.cap
  IN  IF t.bytes = <<>> THEN t
      ELSE [b     |-> [Stored(t.b, t.b.head, SubSeq(t.bytes, 1, next)) EXCEPT
                         !.head = head, !.isfull = @ \/ head = t.b.tail],
            bytes |-> SubSeq(t.bytes, next + 1, Len(t.bytes))]

\* The loop of cbuffer_write over bytes.
WriteLoop(b, bytes) == WritePass(WritePass([b |-> b, bytes |-> bytes]))

\* The ring read or written at place p, over its end if need be: the two
\* memcpy of the single-element calls.
Around(b, p, n) ==
  IF p + n <= b.cap THEN Piece(b, p, n)
  ELSE Piece(b, p, b.cap - p) \o Piece(b, 0, n - (b.cap - p))

StoredAround(b, p, bytes) ==
  IF p + Len(bytes) <= b.cap THEN Stored(b, p, bytes)
  ELSE Stored(Stored(b, p, SubSeq(bytes, 1, b.cap - p)), 0,
              SubSeq(bytes, b.cap - p + 1, Len(bytes)))

-----------------------------------------------------------------------------
\* cbuffer_write: whole elements of src, as many as fit.
Write(x, size, src) ==
  LET n == Least(Len(src) \div size, cbuffer_avail(buf[x]) \div size) IN
    /\ buf' = [buf EXCEPT ![x] = WriteLoop(@, SubSeq(src, 1, n * size)).b]
    /\ Out("write", n, <<>>)

\* cbuffer_read
Read(x, size, n) ==
  LET k == Least(n, cbuffer_len(buf[x]) \div size)
      t == ReadLoop(buf[x], k * size)
  IN  /\ buf' = [buf EXCEPT ![x] = t.b]
      /\ Out("read", k, t.bytes)

\* cbuffer_copy: the same loop over copies of tail and isfull.
Copy(x, size, n) ==
  LET k == Least(n, cbuffer_len(buf[x]) \div size) IN
    /\ Out("copy", k, ReadLoop(buf[x], k * size).bytes)
    /\ UNCHANGED buf

\* The first piece of cbuffer_cbuffer_move and cbuffer_cbuffer_copy.
FirstPiece(b, nbytes) ==
  IF b.isfull \/ b.head <= b.tail THEN Least(b.cap - b.tail, nbytes)
                                  ELSE Least(b.head - b.tail, nbytes)

\* The elements that are there and fit.
Elements(dest, src, size, n) ==
  Least(Least(n, cbuffer_len(buf[src]) \div size), cbuffer_avail(buf[dest]) \div size)

\* dest after both pieces were written into it.
Delivered(dest, src, nbytes) ==
  LET first == FirstPiece(buf[src], nbytes)
      one   == WriteLoop(buf[dest], Piece(buf[src], buf[src].tail, first)).b
  IN  IF nbytes = first THEN one
      ELSE WriteLoop(one, Piece(buf[src], (buf[src].tail + first) % cap[src], nbytes - first)).b

\* cbuffer_cbuffer_move
Move(dest, src, size, n) ==
  LET k == Elements(dest, src, size, n) IN
    /\ dest # src
    /\ Out("move", k, <<>>)
    /\ IF k = 0 THEN UNCHANGED buf
       ELSE buf' = [buf EXCEPT ![dest] = Delivered(dest, src, k * size),
                               ![src].tail = (@ + k * size) % cap[src], ![src].isfull = FALSE]

\* cbuffer_cbuffer_copy
CopyInto(dest, src, size, n) ==
  LET k == Elements(dest, src, size, n) IN
    /\ dest # src
    /\ Out("copy_into", k, <<>>)
    /\ IF k = 0 THEN UNCHANGED buf
       ELSE buf' = [buf EXCEPT ![dest] = Delivered(dest, src, k * size)]

-----------------------------------------------------------------------------
\* Mutant: a buffer that is filled to the end is not marked as full.
FilledUnmarked(b, n) == [b EXCEPT !.head = (@ + n) % b.cap]

\* cbuffer_fakewrite, which is also cbuffer_read_from_file_2
Filled(b, n) ==
  LET head == (b.head + n) % b.cap IN
    [b EXCEPT !.head = head, !.isfull = @ \/ (n > 0 /\ head = b.tail)]

\* Mutant: a full buffer stays marked as full.
ConsumedKeepsFull(b, n) ==
  [b EXCEPT !.tail = (@ + n) % b.cap]

\* cbuffer_fakeread, which is also cbuffer_write_to_file_2
Consumed(b, n) ==
  [b EXCEPT !.tail = (@ + n) % b.cap, !.isfull = @ /\ n = 0]

\* cbuffer_get_next_avail_bytes, the caller's bytes, and cbuffer_fakewrite
FillDirectly(x, bytes) ==
  LET b == buf[x]
      room == IF b.isfull THEN 0 ELSE IF b.head >= b.tail THEN b.cap - b.head ELSE b.tail - b.head
  IN  /\ Len(bytes) <= room
      /\ buf' = [buf EXCEPT ![x] = Filled(Stored(b, b.head, bytes), Len(bytes))]
      /\ Out("fill", Len(bytes), <<>>)

\* cbuffer_get_next_data_bytes, of which the caller takes n, and cbuffer_fakeread
ConsumeDirectly(x, n) ==
  LET b == buf[x]
      there == IF cbuffer_isempty(b) THEN 0 ELSE IF b.head > b.tail THEN b.head - b.tail ELSE b.cap - b.tail
  IN  /\ n <= there
      /\ buf' = [buf EXCEPT ![x] = Consumed(b, n)]
      /\ Out("take", n, Piece(b, b.tail, n))

\* cbuffer_read_from_file: the file gives bytes, fewer than asked for at its end.
ReadFromFile(x, bytes) ==
  LET b == buf[x] IN
    /\ Len(bytes) <= cbuffer_avail(b)
    /\ buf' = [buf EXCEPT ![x] = Filled([WriteLoop(b, bytes).b EXCEPT !.head = b.head,
                                           !.isfull = b.isfull], Len(bytes))]
    /\ Out("fill", Len(bytes), <<>>)

\* The read fails after it stored some bytes, or none, in the free part of the
\* ring.  (With none, also cbuffer_write_to_file that fails.)
ReadFromFileFails(x, bytes) ==
  LET b == buf[x] IN
    /\ Len(bytes) <= cbuffer_avail(b)
    /\ buf' = [buf EXCEPT ![x].data = WriteLoop(b, bytes).b.data]
    /\ Out("fail", 0, <<>>)

\* cbuffer_write_to_file
WriteToFile(x, len) ==
  LET b == buf[x]
      n == Least(cbuffer_len(b), len)
  IN  /\ buf' = [buf EXCEPT ![x] = Consumed(b, n)]
      /\ Out("take", n, ReadLoop(b, n).bytes)

-----------------------------------------------------------------------------
\* cbuffer_push_back
PushBack(x, elem) ==
  LET b == buf[x] IN
    \/ /\ cbuffer_avail(b) < Len(elem)
       /\ Out("push_back", 0, <<>>) /\ UNCHANGED buf
    \/ /\ cbuffer_avail(b) >= Len(elem)
       /\ Out("push_back", 1, <<>>)
       /\ buf' = [buf EXCEPT ![x] = Filled(StoredAround(b, b.head, elem), Len(elem))]

\* cbuffer_push_front
PushFront(x, elem) ==
  LET b == buf[x]
      tail == (b.tail + b.cap - Len(elem)) % b.cap
  IN  \/ /\ cbuffer_avail(b) < Len(elem)
         /\ Out("push_front", 0, <<>>) /\ UNCHANGED buf
      \/ /\ cbuffer_avail(b) >= Len(elem)
         /\ Out("push_front", 1, <<>>)
         /\ buf' = [buf EXCEPT ![x] = [StoredAround(b, tail, elem) EXCEPT
                                         !.tail = tail, !.isfull = @ \/ b.head = tail]]

\* cbuffer_pop_front, and cbuffer_pop_back, which takes at the tail as well.
\* Neither looks whether size bytes are there.
Pop(x, size) ==
  LET b == buf[x] IN
    \/ /\ cbuffer_isempty(b)
       /\ Out("pop", 0, <<>>) /\ UNCHANGED buf
    \/ /\ ~cbuffer_isempty(b)
       /\ cbuffer_len(b) >= size \/ Strays
       /\ Out("pop", 1, Around(b, b.tail, size))
       /\ buf' = [buf EXCEPT ![x].tail = (@ + size) % b.cap, ![x].isfull = FALSE]

\* cbuffer_get.  It counts bytes to find that i is beyond the end, so that it
\* goes on to elements that are there in part, and in a full ring to any; there
\* a build with assertions stops (cbuffer.c:1072, 1075) and one without copies
\* what the ring holds, which is the step under Strays.
GetFor(call, x, size, i) ==
  LET b == buf[x] IN
    /\ \/ ~b.isfull /\ i >= (b.head + b.cap - b.tail) % b.cap /\ Out(call, 0, <<>>)
       \/ /\ b.isfull \/ i < (b.head + b.cap - b.tail) % b.cap
          /\ i < cbuffer_len(b) \div size \/ Strays
          /\ Out(call, 1, Around(b, (b.tail + i * size) % b.cap, size))
    /\ UNCHANGED buf

Get(x, size, i) == GetFor("get", x, size, i)

\* cbuffer_peek_front and cbuffer_peek_back: both get the element at the tail.
Peek(x, size) ==
  \/ cbuffer_isempty(buf[x]) /\ Out("peek", 0, <<>>) /\ UNCHANGED buf
  \/ ~cbuffer_isempty(buf[x]) /\ GetFor("peek", x, size, 0)

\* cbuffer_discard_all
Discard(x) ==
  buf' = [buf EXCEPT ![x].head = 0, ![x].tail = 0, ![x].isfull = FALSE] /\ Out("discard", 0, <<>>)

Next ==
  \E x \in Bufs :
    \/ \E size \in Sizes :
         \/ \E src \in Strings : Write(x, size, src)
         \/ \E n \in 1..cap[x] : Read(x, size, n) \/ Copy(x, size, n)
         \/ \E src \in Bufs : \E n \in 1..cap[src] : Move(x, src, size, n) \/ CopyInto(x, src, size, n)
         \/ Pop(x, size) \/ Peek(x, size)
         \/ \E i \in Places(x) : Get(x, size, i)
    \/ \E bytes \in Strings \cup {<<>>} :
         FillDirectly(x, bytes) \/ ReadFromFile(x, bytes) \/ ReadFromFileFails(x, bytes)
    \/ \E n \in 0..cap[x] : ConsumeDirectly(x, n) \/ WriteToFile(x, n)
    \/ \E elem \in {s \in Strings : Len(s) \in Sizes} : PushBack(x, elem) \/ PushFront(x, elem)
    \/ Discard(x)

Spec == Init /\ [][Next]_vars

-----------------------------------------------------------------------------
\* DBG_ASSERT (cbuffer): isfull only where head and tail meet.
TypeOK ==
  \A x \in Bufs :
    /\ buf[x].data \in [Places(x) -> Bytes]
    /\ buf[x].head \in Places(x) /\ buf[x].tail \in Places(x) /\ buf[x].isfull \in BOOLEAN
    /\ buf[x].isfull => buf[x].head = buf[x].tail

\* The bytes of a buffer, from its tail on.
Contents(b) == [i \in 1..cbuffer_len(b) |-> b.data[(b.tail + i - 1) % b.cap]]

\* Every call does to the rings what it would do to queues, and delivers the
\* same bytes, wherever head and tail are and however a copy is cut in pieces,
\* as long as the callers pop and peek at the front.
Abs == INSTANCE ByteQueues WITH queue <- [x \in Bufs |-> Contents(buf[x])]
ImplementsQueues == Abs!Spec
=============================================================================
