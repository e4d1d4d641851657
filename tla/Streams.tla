------------------------------ MODULE Streams ------------------------------
(* ds/stream.c: a source and a destination behind their tables of            *)
(* operations, a byte limit around either of them, and stream_read, the copy *)
(* from one to the other in batches of a buffer on the stack.                *)
EXTENDS Integers, Sequences

CONSTANTS BatchBytes   \* sizeof (buf) of stream_read: 4096

VARIABLES
  src,    \* a stream_ibuf, or another's stream that delivers its bytes in the same
          \* way but may fail, perhaps in a stream_limit
  dst,    \* a stream_obuf, _sink, _opsink or another's stream, perhaps in a limit
  copy    \* the stream_read under way

streamVars == <<src, dst, copy>>

Least(a, b) == IF a < b THEN a ELSE b

Unlimited == -1
NoCopy    == [at |-> "idle"]

\* The limit's own `done` stands outside, the wrapped stream's inside.
Source(bytes, limit) ==
  [buf |-> bytes, pos |-> 0, inner |-> FALSE,
   limit |-> limit, consumed |-> 0, done |-> FALSE]

\* `out` are the bytes copied into the destination since it was set up, of which
\* an opsink has the last `pos` in its buffer and has applied its op to the rest.
Dest(kind, cap, limit) ==
  [kind |-> kind, cap |-> cap, pos |-> 0, out |-> <<>>, inner |-> FALSE,
   limit |-> limit, consumed |-> 0, done |-> FALSE]

Capped(s, size, n) ==
  IF s.limit = Unlimited THEN n
  ELSE Least(size * n, s.limit - s.consumed) \div size

\* What a limit does with the count the stream inside returned; without one the
\* stream is its own outside.
Count(s, size, moved) ==
  IF s.limit = Unlimited THEN [s EXCEPT !.done = s.inner]
  ELSE LET used == s.consumed + moved * size IN
       [s EXCEPT !.consumed = used, !.done = @ \/ used >= s.limit \/ s.inner]

-----------------------------------------------------------------------------
\* stream_bread: the stream after a pull, the elements, and the bytes.
PullBuffer(s, size, n) ==
  LET avail == Len(s.buf) - s.pos
      next  == Least(avail, size * n)
  IN [to    |-> [s EXCEPT !.pos = @ + next, !.inner = @ \/ avail = 0],
      moved |-> next \div size,
      bytes |-> SubSeq(s.buf, s.pos + 1, s.pos + next)]

\* A limit asks for no more than is left of it, and is done when that is nothing.
Pull(s, size, n) ==
  LET k == Capped(s, size, n)
      p == PullBuffer(s, size, k)
  IN IF k = 0
     THEN [to |-> [s EXCEPT !.done = TRUE], moved |-> 0, bytes |-> <<>>]
     ELSE [p EXCEPT !.to = Count(p.to, size, p.moved)]

\* stream_bwrite into each kind: the possible answers, -1 an error.
PushObuf(d, size, bytes) ==
  LET avail == d.cap - d.pos
      next  == Least(avail, Len(bytes))
  IN {[to |-> [d EXCEPT !.out = @ \o SubSeq(bytes, 1, next), !.pos = @ + next,
                        !.inner = @ \/ avail = 0],
       moved |-> next \div size]}

\* The op is applied to a full buffer, and the buffer begins again.
PushOpsink(d, size, bytes) ==
  LET next == Least(d.cap - d.pos, Len(bytes)) IN
  {[to |-> [d EXCEPT !.out = @ \o SubSeq(bytes, 1, next),
                     !.pos = IF @ + next = d.cap THEN 0 ELSE @ + next],
    moved |-> next \div size]}

PushSink(d, size, bytes) ==
  {[to |-> [d EXCEPT !.out = @ \o bytes], moved |-> Len(bytes) \div size]}

\* A stream of somebody else's: it takes some elements, or none and is done, or
\* fails.
PushOther(d, size, bytes) ==
  {[to |-> [d EXCEPT !.out = @ \o SubSeq(bytes, 1, k * size),
                     !.inner = @ \/ k = 0],
    moved |-> k] : k \in 0 .. IF d.inner THEN 0 ELSE Len(bytes) \div size}
  \cup {[to |-> d, moved |-> -1]}

PushInside(d, size, bytes) ==
  CASE d.kind = "obuf"   -> PushObuf(d, size, bytes)
    [] d.kind = "opsink" -> PushOpsink(d, size, bytes)
    [] d.kind = "sink"   -> PushSink(d, size, bytes)
    [] d.kind = "other"  -> PushOther(d, size, bytes)

\* Mutant: a limit that is used up is not marked done.
PushUnmarked(d, size, bytes) ==
  LET k     == Capped(d, size, Len(bytes) \div size)
      some  == SubSeq(bytes, 1, k * size)
      inner == PushInside(d, size, some)
  IN IF k = 0 THEN {[to |-> d, moved |-> 0]}
     ELSE {IF p.moved < 0 THEN p
           ELSE [p EXCEPT !.to.done = @ \/ p.to.inner,
                          !.to.consumed = @ + p.moved * size] : p \in inner}

\* stream_bwrite, through the limit if there is one.
Push(d, size, bytes) ==
  LET k     == Capped(d, size, Len(bytes) \div size)
      some  == SubSeq(bytes, 1, k * size)
      inner == PushInside(d, size, some)
  IN IF k = 0
     THEN {[to |-> [d EXCEPT !.done = TRUE], moved |-> 0]}
     ELSE {IF p.moved < 0 THEN p ELSE [p EXCEPT !.to = Count(p.to, size, p.moved)] :
             p \in inner}

-----------------------------------------------------------------------------
(* stream_read (dest, size, n, src): pull a batch, push it, piece by piece.  *)

BatchMax(size) == IF BatchBytes \div size = 0 THEN 1 ELSE BatchBytes \div size

StreamRead(size, n) ==
  /\ copy.at \in {"idle", "returned"}
  /\ copy' = [at |-> "pull", size |-> size, n |-> n, remaining |-> n,
              total |-> 0, buf |-> <<>>, pushed |-> 0, ret |-> 0]
  /\ UNCHANGED <<src, dst>>

PullBatch ==
  LET p == Pull(src, copy.size, Least(copy.remaining, BatchMax(copy.size))) IN
  /\ copy.at = "pull" /\ copy.remaining > 0
  /\ src' = p.to
  /\ copy' = IF p.moved = 0
             THEN [copy EXCEPT !.at = "returned", !.ret = copy.total]
             ELSE [copy EXCEPT !.at = "push", !.pushed = 0,
                               !.buf = SubSeq(p.bytes, 1, p.moved * copy.size)]
  /\ UNCHANGED dst

\* A pull that fails ends the call, whatever was delivered before.  A limit that
\* is used up does not ask the stream inside.
PullFails ==
  /\ copy.at = "pull" /\ copy.remaining > 0
  /\ Capped(src, copy.size, Least(copy.remaining, BatchMax(copy.size))) > 0
  /\ copy' = [copy EXCEPT !.at = "returned", !.ret = -1]
  /\ UNCHANGED <<src, dst>>

\* The batch is accounted for once nothing more of it is taken.
Batched(pushed, all) ==
  [copy EXCEPT !.pushed = pushed,
               !.total = @ + pushed, !.remaining = @ - pushed,
               !.at  = IF all THEN "pull" ELSE "returned",
               !.ret = copy.total + pushed]

\* One turn of the inner loop: what the destination did not take is offered again.
PushPart ==
  LET got  == Len(copy.buf) \div copy.size
      left == SubSeq(copy.buf, copy.pushed * copy.size + 1, Len(copy.buf))
  IN /\ copy.at = "push"
     /\ \E p \in Push(dst, copy.size, left) :
          /\ dst' = p.to
          /\ copy' = IF p.moved < 0 THEN [copy EXCEPT !.at = "returned", !.ret = -1]
                     ELSE IF p.moved = 0 THEN Batched(copy.pushed, FALSE)
                     ELSE IF copy.pushed + p.moved = got
                          THEN Batched(got, TRUE)
                     ELSE [copy EXCEPT !.pushed = @ + p.moved]
     /\ UNCHANGED src

Finished ==
  /\ copy.at = "pull" /\ copy.remaining = 0
  /\ copy' = [copy EXCEPT !.at = "returned", !.ret = copy.total]
  /\ UNCHANGED <<src, dst>>

StreamStep == PullBatch \/ PullFails \/ PushPart \/ Finished

=============================================================================
