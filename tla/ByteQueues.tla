----------------------------- MODULE ByteQueues -----------------------------
(***************************************************************************)
(* What cbuffer.h promises of circular buffers: each is a queue of at most *)
(* cap bytes, filled at the back or in front, in elements of a size that   *)
(* the caller chooses for each call.  Elements are popped and peeked at    *)
(* the end that the call names, by callers that keep to one end.           *)
(***************************************************************************)
EXTENDS Naturals, Sequences

CONSTANTS Bufs, cap, Sizes, Strings, End

VARIABLES
  queue,    \* the bytes of each buffer, first in first out
  out       \* the last call, what it returned and the bytes it delivered

vars == <<queue, out>>

Least(a, b) == IF a < b THEN a ELSE b
Room(b)     == cap[b] - Len(queue[b])

Out(call, res, bytes) == out' = [call |-> call, res |-> res, bytes |-> bytes]

FirstN(s, n) == SubSeq(s, 1, n)
AfterN(s, n) == SubSeq(s, n + 1, Len(s))

\* The n bytes at the end where the callers pop and peek, and the rest.
AtEnd(s, n) == IF End = "front" THEN FirstN(s, n) ELSE AfterN(s, Len(s) - n)
Rest(s, n)  == IF End = "front" THEN AfterN(s, n) ELSE FirstN(s, Len(s) - n)

Init ==
  /\ \A b \in Bufs : Room(b) >= 0
  /\ out = [call |-> "none", res |-> 0, bytes |-> <<>>]

\* As many whole elements as fit, of those in src.
Write(b, size, src) ==
  LET n == Least(Len(src) \div size, Room(b) \div size) IN
    /\ queue' = [queue EXCEPT ![b] = @ \o FirstN(src, n * size)]
    /\ Out("write", n, <<>>)

\* As many whole elements as there are, at most n.
Read(b, size, n) ==
  LET k == Least(n, Len(queue[b]) \div size) IN
    /\ queue' = [queue EXCEPT ![b] = AfterN(@, k * size)]
    /\ Out("read", k, FirstN(queue[b], k * size))

Copy(b, size, n) ==
  LET k == Least(n, Len(queue[b]) \div size) IN
    /\ Out("copy", k, FirstN(queue[b], k * size))
    /\ UNCHANGED queue

\* What goes from src to dest: as many whole elements as there are and fit.
Moved(dest, src, size, n) ==
  FirstN(queue[src], size * Least(Least(n, Len(queue[src]) \div size), Room(dest) \div size))

Move(dest, src, size, n) ==
  LET s == Moved(dest, src, size, n) IN
    /\ queue' = [queue EXCEPT ![dest] = @ \o s, ![src] = AfterN(@, Len(s))]
    /\ Out("move", Len(s) \div size, <<>>)

CopyInto(dest, src, size, n) ==
  LET s == Moved(dest, src, size, n) IN
    /\ queue' = [queue EXCEPT ![dest] = @ \o s]
    /\ Out("copy_into", Len(s) \div size, <<>>)

PushBack(b, elem) ==
  \/ /\ Room(b) < Len(elem) /\ Out("push_back", 0, <<>>) /\ UNCHANGED queue
  \/ /\ Room(b) >= Len(elem) /\ Out("push_back", 1, <<>>)
     /\ queue' = [queue EXCEPT ![b] = @ \o elem]

PushFront(b, elem) ==
  \/ /\ Room(b) < Len(elem) /\ Out("push_front", 0, <<>>) /\ UNCHANGED queue
  \/ /\ Room(b) >= Len(elem) /\ Out("push_front", 1, <<>>)
     /\ queue' = [queue EXCEPT ![b] = elem \o @]

Pop(b, size) ==
  \/ /\ queue[b] = <<>> /\ Out("pop", 0, <<>>) /\ UNCHANGED queue
  \/ /\ Len(queue[b]) >= size /\ Out("pop", 1, AtEnd(queue[b], size))
     /\ queue' = [queue EXCEPT ![b] = Rest(@, size)]

Peek(b, size) ==
  /\ \/ queue[b] = <<>> /\ Out("peek", 0, <<>>)
     \/ Len(queue[b]) >= size /\ Out("peek", 1, AtEnd(queue[b], size))
  /\ UNCHANGED queue

\* The element at place i, counted from 0, if there is one.
Get(b, size, i) ==
  /\ \/ (i + 1) * size > Len(queue[b]) /\ Out("get", 0, <<>>)
     \/ (i + 1) * size <= Len(queue[b]) /\ Out("get", 1, SubSeq(queue[b], i * size + 1, (i + 1) * size))
  /\ UNCHANGED queue

Discard(b) == queue' = [queue EXCEPT ![b] = <<>>] /\ Out("discard", 0, <<>>)

\* Bytes of the caller's, or of a file, that fit, and bytes for the caller, or
\* for a file: single bytes, whatever the elements are.
Fill(b, bytes) ==
  /\ Len(bytes) <= Room(b)
  /\ queue' = [queue EXCEPT ![b] = @ \o bytes]
  /\ Out("fill", Len(bytes), <<>>)

Take(b, n) ==
  /\ n <= Len(queue[b])
  /\ queue' = [queue EXCEPT ![b] = AfterN(@, n)]
  /\ Out("take", n, FirstN(queue[b], n))

\* A call on a file that fails.
Fail == Out("fail", 0, <<>>) /\ UNCHANGED queue

Next ==
  \/ Fail
  \/ \E b \in Bufs :
       \/ \E size \in Sizes :
            \/ Pop(b, size) \/ Peek(b, size)
            \/ \E n \in 1..cap[b] : Read(b, size, n) \/ Copy(b, size, n)
            \/ \E i \in 0..(cap[b] - 1) : Get(b, size, i)
            \/ \E src \in Strings : Write(b, size, src)
            \/ \E src \in Bufs \ {b} : \E n \in 1..cap[src] : Move(b, src, size, n) \/ CopyInto(b, src, size, n)
       \/ \E bytes \in Strings \cup {<<>>} : Fill(b, bytes)
       \/ \E n \in 0..cap[b] : Take(b, n)
       \/ \E elem \in Strings : PushBack(b, elem) \/ PushFront(b, elem)
       \/ Discard(b)

Spec == Init /\ [][Next]_vars
=============================================================================
