---------------------------- MODULE WindowsFile ----------------------------
(* os_windows/file.c: the same transfers as loops over ReadFile and         *)
(* WriteFile, which take a 32-bit length and one buffer.                    *)
EXTENDS OsFile

\* The length one request carries: the loops ask for as much as fits, the
\* calls of one request cut the length to 32 bits.
Want(left)    == Less(left, Dword - 1)
CutLength(n)  == n % Dword

\* Mutant: a read of 0 bytes is tried again.
NeverAtEnd(k) == FALSE

\* The end of the file is an answer of 0 bytes, or ERROR_HANDLE_EOF.
AtEnd(k) == k = 0

-----------------------------------------------------------------------------
(* Positional calls: the offset is in the OVERLAPPED.  The handle was opened *)
(* without FILE_FLAG_OVERLAPPED (file.c:59), so the system sets the position *)
(* behind the bytes that a request moved, although the comment before        *)
(* make_overlapped says it does not (external: ReadFile, WriteFile).         *)

\* Where the position is after a request for k bytes from `from` on; one that
\* moves nothing, or fails, may leave it where it was.
Behind(from, k) == pos' \in IF k = 0 THEN {pos, from} ELSE {from + k}

PRead(w, c, from, k) == Set(w, c) /\ Behind(from, k) /\ UNCHANGED file
PWrite(w, c, where, from, k) ==
  Set(w, c) /\ Behind(from, k) /\ file' = Written(call[w].mem, where, from, k)
PFail(w, from) == PRead(w, Return(call[w], Failed), from, 0)

PreadSome(w) ==
  LET c == call[w] IN
  /\ In(w, "pread_some")
  /\ \/ \E k \in ReadCounts(c.at, CutLength(c.n)) :
          PRead(w, Return(Read(c, Straight(c), c.at, k), Bytes(k)), c.at, k)
     \/ PFail(w, c.at)

PreadAllExpect(c, r) ==
  IF c.op # "pread_all_expect" THEN r ELSE IF r.n = c.n THEN Success ELSE Corrupt

PreadAll(w) ==
  LET c    == call[w]
      from == c.at + c.moved
  IN /\ In(w, "pread_all") \/ In(w, "pread_all_expect")
     /\ \/ \E k \in ReadCounts(from, Want(c.n - c.moved)) :
             LET d == Read(c, Straight(c), from, k) IN
             PRead(w, IF AtEnd(k) \/ d.moved = c.n
                      THEN Return(d, PreadAllExpect(c, Bytes(d.moved))) ELSE d, from, k)
        \/ PFail(w, from)

PwriteSome(w) ==
  LET c == call[w] IN
  /\ In(w, "pwrite_some")
  /\ \/ \E k \in WriteCounts(CutLength(c.n)) :
          PWrite(w, Return(Advance(c, k), Bytes(k)), Straight(c), c.at, k)
     \/ PFail(w, c.at)

PwriteAll(w) ==
  LET c    == call[w]
      from == c.at + c.moved
  IN /\ In(w, "pwrite_all")
     /\ \/ \E k \in WriteCounts(Want(c.n - c.moved)) :
             LET d == Advance(c, k) IN
             PWrite(w, IF d.moved = c.n THEN Return(d, Success) ELSE d,
                    Straight(c), from, k)
        \/ PFail(w, from)

-----------------------------------------------------------------------------
(* Vector calls: one request per buffer, from the position on.              *)

\* The buffer in hand after k bytes of it, left behind when it is used up ...
Rest(iov, k) ==
  IF k = iov[1].len THEN Tail(iov)
  ELSE <<[head |-> iov[1].head + k, len |-> iov[1].len - k]>> \o Tail(iov)

\* ... and empty ones passed over without a request.
NonEmpty(iov) ==
  LET left == {i \in DOMAIN iov : iov[i].len > 0}
  IN  IF left = {} THEN <<>>
      ELSE SubSeq(iov, CHOOSE i \in left : \A j \in left : i <= j, Len(iov))

WritevSome(w) ==
  LET c == call[w] IN
  /\ In(w, "writev_some")
  /\ \/ \E k \in WriteCounts(CutLength(c.iov[1].len)) :
          LET d == [Advance(c, k) EXCEPT !.iov = Rest(c.iov, k)] IN
          WriteOn(w, IF k < c.iov[1].len \/ d.iov = <<>>
                     THEN Return(d, Bytes(d.moved)) ELSE d,
                  Span(c.iov[1]), k)
     \/ Fail(w)

WritevAll(w) ==
  LET c   == call[w]
      iov == NonEmpty(c.iov)
  IN /\ In(w, "writev_all")
     /\ \/ \E k \in WriteCounts(Want(iov[1].len)) :
             LET d == [Advance(c, k) EXCEPT !.iov = NonEmpty(Rest(iov, k))] IN
             WriteOn(w, IF d.iov = <<>> THEN Return(d, Success) ELSE d,
                     Span(iov[1]), k)
        \/ Fail(w)

ReadvSome(w) ==
  LET c == call[w] IN
  /\ In(w, "readv_some")
  /\ \/ \E k \in ReadCounts(pos, CutLength(c.iov[1].len)) :
          LET d == [Read(c, Span(c.iov[1]), pos, k) EXCEPT !.iov = Rest(c.iov, k)] IN
          ReadOn(w, IF k < c.iov[1].len \/ d.iov = <<>>
                    THEN Return(d, Bytes(d.moved)) ELSE d, k)
     \/ Fail(w)

ReadvAll(w) ==
  LET c   == call[w]
      iov == NonEmpty(c.iov)
  IN /\ In(w, "readv_all")
     /\ \/ \E k \in ReadCounts(pos, Want(iov[1].len)) :
             LET d == [Read(c, Span(iov[1]), pos, k)
                         EXCEPT !.iov = NonEmpty(Rest(iov, k))] IN
             ReadOn(w, IF AtEnd(k) \/ d.iov = <<>>
                       THEN Return(d, Bytes(d.moved)) ELSE d, k)
        \/ Fail(w)

-----------------------------------------------------------------------------
(* Stream calls, from the position on.                                      *)

ReadSome(w) ==
  LET c == call[w] IN
  /\ In(w, "read_some")
  /\ \/ \E k \in ReadCounts(pos, CutLength(c.n)) :
          ReadOn(w, Return(Read(c, Straight(c), pos, k), Bytes(k)), k)
     \/ Fail(w)

ReadAllExpect(c, r) ==
  IF c.op # "read_all_expect" THEN r ELSE IF r.n = c.n THEN Success ELSE Corrupt

ReadAll(w) ==
  LET c == call[w] IN
  /\ In(w, "read_all") \/ In(w, "read_all_expect")
  /\ \/ \E k \in ReadCounts(pos, Want(c.n - c.moved)) :
          LET d == Read(c, Straight(c), pos, k) IN
          ReadOn(w, IF AtEnd(k) \/ d.moved = c.n
                    THEN Return(d, ReadAllExpect(c, Bytes(d.moved))) ELSE d, k)
     \/ Fail(w)

WriteSome(w) ==
  LET c == call[w] IN
  /\ In(w, "write_some")
  /\ \/ \E k \in WriteCounts(CutLength(c.n)) :
          WriteOn(w, Return(Advance(c, k), Bytes(k)), Straight(c), k)
     \/ Fail(w)

WriteAll(w) ==
  LET c == call[w] IN
  /\ In(w, "write_all")
  /\ \/ \E k \in WriteCounts(Want(c.n - c.moved)) :
          LET d == Advance(c, k) IN
          WriteOn(w, IF d.moved = c.n THEN Return(d, Success) ELSE d, Straight(c), k)
     \/ Fail(w)

-----------------------------------------------------------------------------
Step(w) ==
  /\ \/ PreadSome(w)  \/ PreadAll(w)  \/ PwriteSome(w) \/ PwriteAll(w)
     \/ WritevSome(w) \/ WritevAll(w) \/ ReadvSome(w)  \/ ReadvAll(w)
     \/ ReadSome(w)   \/ ReadAll(w)   \/ WriteSome(w)  \/ WriteAll(w)
  /\ UNCHANGED <<os, begun>>

\* Both set the position to the size and end the file there, whether that cuts
\* it or extends it.
Truncate(size) ==
  /\ file' = [i \in 1 .. size |-> IF i <= Len(file) THEN file[i] ELSE Zero]
  /\ pos'  = size

Fallocate(size) == Truncate(size)

Seek(offset) ==
  /\ pos' \in {offset, pos + offset, Len(file) + offset}
  /\ UNCHANGED file

=============================================================================
