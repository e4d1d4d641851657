---------------------------- MODULE OsFile ----------------------------
(* One open file of the operating system and the threads that have calls    *)
(* of file_system.h in flight on its handle.  The file, its position and    *)
(* what the system answers to a request are external; the loops of the two  *)
(* backends are PosixFile and WindowsFile.                                  *)
(*                                                                          *)
(* A call moves bytes between the addresses 1..n of its caller's memory and *)
(* the file.  Every visit of the kernel is one step, so calls of several    *)
(* threads interleave at each of them.                                      *)
EXTENDS Integers, Sequences, FiniteSets

CONSTANTS
  Clients,        \* the threads that share the handle
  Lengths,        \* lengths asked of a call with one buffer
  Vectors,        \* pairs of lengths asked of a call with two
  Offsets,        \* where positional calls begin, and sizes and seeks
  InitialFiles,   \* contents found on the disk
  MaxCalls,       \* bound: calls begun
  MaxInterrupts,  \* bound: signals that arrive during one call
  Interruptible,  \* the moments a signal may arrive, see Interrupt below
  Mixed,          \* on Windows, positional beside stream and vector calls
  Word,           \* 2^64 of u64, small
  Dword,          \* 2^32 of DWORD, small
  Zero            \* the byte a gap or an extension reads as

ASSUME OsFileAssumption ==
  /\ Lengths \subseteq Nat \ {0}
  /\ Vectors \subseteq Nat \X Nat /\ \A v \in Vectors : v[1] + v[2] > 0
  /\ Offsets \subseteq Nat
  /\ InitialFiles \subseteq Seq({Zero} \cup (Clients \X Nat))
  /\ {MaxCalls, MaxInterrupts} \subseteq Nat
  /\ Interruptible \subseteq {"vector", "positional", "stream", "start"}
  /\ Mixed \in BOOLEAN
  /\ {Dword, Word} \subseteq Nat \ {0, 1}
  /\ \A n \in Lengths : n < Word - 1 /\ n % Dword # 0
  /\ \A v \in Vectors : v[1] < Dword /\ v[2] < Dword /\ v[1] + v[2] < Word - 1

VARIABLES
  os,      \* the backend that was compiled in
  file,    \* the bytes of the file
  pos,     \* the position of the handle, where stream and vector calls begin
  call,    \* the call each thread is in
  begun    \* calls begun so far

vars == <<os, file, pos, call, begun>>

PositionalReads  == {"pread_some", "pread_all", "pread_all_expect"}
PositionalWrites == {"pwrite_some", "pwrite_all"}
StreamReads      == {"read_some", "read_all", "read_all_expect"}
StreamWrites     == {"write_some", "write_all"}
VectorReads      == {"readv_some", "readv_all"}
VectorWrites     == {"writev_some", "writev_all"}

Positional == PositionalReads \cup PositionalWrites
Vectored   == VectorReads \cup VectorWrites
Streamed   == StreamReads \cup StreamWrites \cup Vectored
Writing    == PositionalWrites \cup StreamWrites \cup VectorWrites
Ops        == Positional \cup Streamed
Partial    == {"pread_some", "pwrite_some", "read_some", "write_some",
               "readv_some", "writev_some"}

Idle       == [op |-> "none"]
Running    == [tag |-> "running"]
Bytes(k)   == [tag |-> "bytes", n |-> k]
Success    == [tag |-> "ok"]
Failed     == [tag |-> "error"]
Corrupt    == [tag |-> "corrupt"]
Asserted   == [tag |-> "assert"]

InCall(w)   == call[w].op # "none"
Pending(w)  == InCall(w) /\ call[w].ret = Running
In(w, op)   == Pending(w) /\ call[w].op = op

Less(a, b)  == IF a < b THEN a ELSE b
More(a, b)  == IF a < b THEN b ELSE a

-----------------------------------------------------------------------------
(* The kernel.                                                              *)

Available(from) == IF from < Len(file) THEN Len(file) - from ELSE 0

\* How many bytes a read, a write of `want` bytes may move.  A write of a
\* regular file that does not fail moves something.
ReadCounts(from, want) ==
  IF want = 0 \/ Available(from) = 0 THEN {0} ELSE 1 .. Less(want, Available(from))

WriteCounts(want) == IF want = 0 THEN {0} ELSE 1 .. want

\* The first k addresses of `to` receive the bytes from `from` on ...
Filled(mem, to, from, k) ==
  [a \in DOMAIN mem |->
     IF \E i \in 1 .. k : to[i] = a
     THEN file[from + (CHOOSE i \in 1 .. k : to[i] = a)] ELSE mem[a]]

\* ... or are written there; a gap before them reads as zeros.
Written(mem, source, from, k) ==
  IF k = 0 THEN file
  ELSE [i \in 1 .. More(Len(file), from + k) |->
          IF i \in from + 1 .. from + k THEN mem[source[i - from]]
          ELSE IF i <= Len(file) THEN file[i] ELSE Zero]

-----------------------------------------------------------------------------
(* The callers.                                                             *)

\* The bytes of the file a call is about.
Region(w) == call[w].at + 1 .. call[w].at + call[w].n

Source(w, n) == [a \in 1 .. n |-> <<w, a>>]
Blank(n)     == [a \in 1 .. n |-> Zero]

\* Callers keep a write off the bytes another call is about, and let one call
\* at a time use the position: the library takes no lock for them.  On Windows
\* positional calls move the position (WindowsFile), so that a call which uses
\* it has the handle to itself, unless Mixed.
Excluded(w, op, at, n) ==
  \A v \in Clients \ {w} :
    InCall(v) =>
      /\ op \in Streamed => call[v].op \notin Streamed
      /\ os = "windows" /\ ~Mixed => op \notin Streamed /\ call[v].op \notin Streamed
      /\ (op \in Writing \/ call[v].op \in Writing) =>
           (at + 1 .. at + n) \cap Region(v) = {}

Call(w, op, at, lengths) ==
  LET n == IF Len(lengths) = 1 THEN lengths[1] ELSE lengths[1] + lengths[2] IN
  [op    |-> op,
   at    |-> at,
   n     |-> n,
   iov   |-> [i \in DOMAIN lengths |->
                [head |-> IF i = 1 THEN 1 ELSE lengths[1] + 1, len |-> lengths[i]]],
   moved |-> 0,        \* nread, nwrite, nwritten, total
   far   |-> 0,        \* the most bytes ever moved
   signals |-> 0,
   mem   |-> IF op \in Writing THEN Source(w, n) ELSE Blank(n),
   ret   |-> Running]

Begin(w) ==
  /\ ~InCall(w) /\ begun < MaxCalls
  /\ \E op \in Ops,
        lengths \in {<<n>> : n \in Lengths} \cup Vectors,
        off \in Offsets :
       /\ (op \in Vectored) = (Len(lengths) = 2)
       /\ op \in Streamed => off = pos
       /\ LET c == Call(w, op, off, lengths) IN
          /\ Excluded(w, op, c.at, c.n)
          /\ call' = [call EXCEPT ![w] = c]
  /\ begun' = begun + 1
  /\ UNCHANGED <<os, file, pos>>

\* The caller takes the result and goes on.
Take(w) ==
  /\ InCall(w) /\ ~Pending(w)
  /\ call' = [call EXCEPT ![w] = Idle]
  /\ UNCHANGED <<os, file, pos, begun>>

\* A signal may interrupt a request that has moved nothing yet; `Interruptible`
\* says of which calls, and whether already before their first byte.
Interrupt(w) ==
  LET c == call[w] IN
  /\ c.signals < MaxInterrupts
  /\ \/ c.op \in Vectored /\ "vector" \in Interruptible
     \/ /\ c.op \notin Vectored
        /\ c.moved = 0 => "start" \in Interruptible
        /\ c.moved > 0 => IF c.op \in Positional THEN "positional" \in Interruptible
                                                 ELSE "stream" \in Interruptible

-----------------------------------------------------------------------------
(* What both backends do with an answer.                                    *)

Advance(c, k)  == [c EXCEPT !.moved = @ + k, !.far = More(@, c.moved + k)]
Return(c, r)   == [c EXCEPT !.ret = r]
Set(w, c)      == call' = [call EXCEPT ![w] = c]
Leave(w, c)    == Set(w, c) /\ UNCHANGED <<file, pos>>
Fail(w)        == Leave(w, Return(call[w], Failed))
ReadOn(w, c, k) ==
  Set(w, c) /\ pos' = pos + k /\ UNCHANGED file
WriteOn(w, c, where, k) ==
  Set(w, c) /\ pos' = pos + k /\ file' = Written(call[w].mem, where, pos, k)

\* The addresses of the request: what is left of the one buffer, or the
\* buffers of the vector one after the other.
Straight(c)    == [i \in 1 .. c.n - c.moved |-> c.moved + i]
Span(v)        == [i \in 1 .. v.len |-> v.head + i - 1]
Gathered(iov)  == CASE Len(iov) = 0 -> <<>>
                    [] Len(iov) = 1 -> Span(iov[1])
                    [] OTHER -> Span(iov[1]) \o Span(iov[2])

\* k bytes more, read into or written from the addresses `where`.
Read(c, where, from, k) ==
  [Advance(c, k) EXCEPT !.mem = Filled(c.mem, where, from, k)]

=============================================================================
