---------------------------- MODULE PosixFile ----------------------------
(* os_posix/file.c: the transfers of an open file as loops over pread,      *)
(* pwrite, readv, writev, read and write.                                   *)
EXTENDS OsFile

-----------------------------------------------------------------------------
(* Positional calls: the handle's position is left alone.                   *)

PWrite(w, c, where, from, k) ==
  Set(w, c) /\ file' = Written(call[w].mem, where, from, k) /\ UNCHANGED pos

PreadSome(w) ==
  LET c == call[w] IN
  /\ In(w, "pread_some")
  /\ \/ \E k \in ReadCounts(c.at, c.n) :
          Leave(w, Return(Read(c, Straight(c), c.at, k), Bytes(k)))
     \/ Fail(w)

PwriteSome(w) ==
  LET c == call[w] IN
  /\ In(w, "pwrite_some")
  /\ \/ \E k \in WriteCounts(c.n) :
          PWrite(w, Return(Advance(c, k), Bytes(k)), Straight(c), c.at, k)
     \/ Fail(w)

\* What i_pread_all returned, as i_pread_all_expect passes it on.
PreadAllExpect(c, r) ==
  IF c.op # "pread_all_expect" THEN r ELSE IF r.n = c.n THEN Success ELSE Corrupt

PreadAll(w) ==
  LET c    == call[w]
      from == c.at + c.moved
  IN /\ In(w, "pread_all") \/ In(w, "pread_all_expect")
     /\ \/ \E k \in ReadCounts(from, c.n - c.moved) :
             LET d == Read(c, Straight(c), from, k) IN
             Leave(w, IF k = 0 \/ d.moved = c.n
                      THEN Return(d, PreadAllExpect(c, Bytes(d.moved))) ELSE d)
        \/ Fail(w)

\* Mutant: the positional write seeks and writes.
PwriteAllSeeks(w) ==
  LET c    == call[w]
      from == c.at + c.moved
  IN /\ In(w, "pwrite_all")
     /\ \/ \E k \in WriteCounts(c.n - c.moved) :
             LET d == Advance(c, k) IN
             /\ file' = Written(c.mem, Straight(c), from, k)
             /\ pos'  = from + k
             /\ Set(w, IF d.moved = c.n THEN Return(d, Success) ELSE d)
        \/ Fail(w)

PwriteAll(w) ==
  LET c    == call[w]
      from == c.at + c.moved
  IN /\ In(w, "pwrite_all")
     /\ \/ \E k \in WriteCounts(c.n - c.moved) :
             LET d == Advance(c, k) IN
             PWrite(w, IF d.moved = c.n THEN Return(d, Success) ELSE d, Straight(c), from, k)
        \/ Fail(w)

-----------------------------------------------------------------------------
(* Vector calls, from the position on.                                      *)

WritevSome(w) ==
  LET c == call[w] IN
  /\ In(w, "writev_some")
  /\ \/ \E k \in WriteCounts(c.n) :
          WriteOn(w, Return(Advance(c, k), Bytes(k)), Gathered(c.iov), k)
     \/ Fail(w)

ReadvSome(w) ==
  LET c == call[w] IN
  /\ In(w, "readv_some")
  /\ \/ \E k \in ReadCounts(pos, c.n) :
          ReadOn(w, Return(Read(c, Gathered(c.iov), pos, k), Bytes(k)), k)
     \/ Fail(w)

\* How many bytes reach to the end of buffer i, and what k bytes leave of it.
EndOf(iov, i) == IF i = 1 THEN iov[1].len ELSE iov[1].len + iov[2].len
Cut(iov, i, k) ==
  LET left == Less(iov[i].len, EndOf(iov, i) - k) IN
  [head |-> iov[i].head + iov[i].len - left, len |-> left]

\* Mutant: the buffer a write ended in begins at its old head again.
SkipKeepsTheHead(iov, k) ==
  LET cut == [i \in DOMAIN iov |-> [iov[i] EXCEPT !.len = Less(@, EndOf(iov, i) - k)]]
  IN IF Len(iov) > 0 /\ k < EndOf(iov, 1) THEN cut
     ELSE IF Len(iov) = 2 /\ k < EndOf(iov, 2) THEN <<cut[2]>>
     ELSE <<>>

\* The vector without the k bytes that were moved: the buffers they filled are
\* passed over, the one they ended in begins later.
Skip(iov, k) ==
  IF Len(iov) > 0 /\ k < EndOf(iov, 1) THEN [i \in DOMAIN iov |-> Cut(iov, i, k)]
  ELSE IF Len(iov) = 2 /\ k < EndOf(iov, 2) THEN <<Cut(iov, 2, k)>>
  ELSE <<>>

WritevAll(w) ==
  LET c == call[w] IN
  /\ In(w, "writev_all")
  /\ \/ \E k \in WriteCounts(c.n - c.moved) :
          LET d == [Advance(c, k) EXCEPT !.iov = Skip(c.iov, k)] IN
          WriteOn(w, IF d.moved = c.n THEN Return(d, Success) ELSE d, Gathered(c.iov), k)
     \/ Fail(w)

\* Mutant: a short read is taken for the end of the file.
ReadvAllStopsShort(w) ==
  LET c == call[w] IN
  /\ In(w, "readv_all")
  /\ \/ \E k \in ReadCounts(pos, c.n - c.moved) :
          LET d == Read(c, Gathered(c.iov), pos, k) IN
          ReadOn(w, Return(d, Bytes(d.moved)), k)
     \/ Fail(w)

ReadvAll(w) ==
  LET c == call[w] IN
  /\ In(w, "readv_all")
  /\ \/ \E k \in ReadCounts(pos, c.n - c.moved) :
          LET d == [Read(c, Gathered(c.iov), pos, k) EXCEPT !.iov = Skip(c.iov, k)] IN
          ReadOn(w, IF k = 0 \/ d.moved = c.n THEN Return(d, Bytes(d.moved)) ELSE d, k)
     \/ Fail(w)

-----------------------------------------------------------------------------
(* Stream calls, from the position on.                                      *)

ReadSome(w) ==
  LET c == call[w] IN
  /\ In(w, "read_some")
  /\ \/ \E k \in ReadCounts(pos, c.n) :
          ReadOn(w, Return(Read(c, Straight(c), pos, k), Bytes(k)), k)
     \/ Fail(w)

ReadAllExpect(c, r) ==
  IF c.op # "read_all_expect" THEN r ELSE IF r.n = c.n THEN Success ELSE Corrupt

ReadAll(w) ==
  LET c == call[w] IN
  /\ In(w, "read_all") \/ In(w, "read_all_expect")
  /\ \/ \E k \in ReadCounts(pos, c.n - c.moved) :
          LET d == Read(c, Straight(c), pos, k) IN
          ReadOn(w, IF k = 0 \/ d.moved = c.n
                    THEN Return(d, ReadAllExpect(c, Bytes(d.moved))) ELSE d, k)
     \/ Fail(w)

WriteSome(w) ==
  LET c == call[w] IN
  /\ In(w, "write_some")
  /\ \/ \E k \in WriteCounts(c.n) :
          WriteOn(w, Return(Advance(c, k), Bytes(k)), Straight(c), k)
     \/ Fail(w)

WriteAll(w) ==
  LET c == call[w] IN
  /\ In(w, "write_all")
  /\ \/ \E k \in WriteCounts(c.n - c.moved) :
          LET d == Advance(c, k) IN
          WriteOn(w, IF d.moved = c.n THEN Return(d, Success) ELSE d, Straight(c), k)
     \/ Fail(w)

-----------------------------------------------------------------------------
(* A request interrupted by a signal returns -1 with EINTR.                 *)

\* The loops over pread, pwrite and write add the -1 to their count: a byte is
\* moved again, or the unsigned count wraps, which ends the loop.
StepBack(c) ==
  LET back == [c EXCEPT !.moved = (@ + Word - 1) % Word] IN
  IF back.moved < c.n THEN back ELSE Return(back, Asserted)

\* read makes of it 0 bytes, as at the end of the file; the calls of one request
\* return it, without an error recorded; readv and writev are tried again.
OnSignal(c) ==
  CASE c.op \in StreamReads -> Return(c, ReadAllExpect(c, Bytes(0)))
    [] c.op \in Partial \ StreamReads -> Return(c, Failed)
    [] c.op \in {"readv_all", "writev_all"} -> c
    [] OTHER -> StepBack(c)

Interrupted(w) ==
  /\ Pending(w) /\ Interrupt(w)
  /\ Leave(w, [OnSignal(call[w]) EXCEPT !.signals = @ + 1])

-----------------------------------------------------------------------------
Step(w) ==
  /\ \/ PreadSome(w)  \/ PreadAll(w)  \/ PwriteSome(w) \/ PwriteAll(w)
     \/ WritevSome(w) \/ WritevAll(w) \/ ReadvSome(w)  \/ ReadvAll(w)
     \/ ReadSome(w)   \/ ReadAll(w)   \/ WriteSome(w)  \/ WriteAll(w)
     \/ Interrupted(w)
  /\ UNCHANGED <<os, begun>>

\* Cut or extended with zeros, the position stays.
Truncate(size) ==
  /\ file' = [i \in 1 .. size |-> IF i <= Len(file) THEN file[i] ELSE Zero]
  /\ UNCHANGED pos

\* posix_fallocate never shortens a file.
Fallocate(size) ==
  /\ file' = [i \in 1 .. More(size, Len(file)) |->
                IF i <= Len(file) THEN file[i] ELSE Zero]
  /\ UNCHANGED pos

\* I_SEEK_SET, I_SEEK_CUR and I_SEEK_END.
Seek(offset) ==
  /\ pos' \in {offset, pos + offset, Len(file) + offset}
  /\ UNCHANGED file

=============================================================================
