------------------------------- MODULE Files -------------------------------
(* Threads that share the handle of one file, on either backend: transfers   *)
(* in flight side by side, and between them the file is resized and the      *)
(* position set.                                                             *)
EXTENDS OsFile

P == INSTANCE PosixFile
W == INSTANCE WindowsFile

Init ==
  /\ os \in {"posix", "windows"}
  /\ file \in InitialFiles
  /\ pos = 0
  /\ call = [w \in Clients |-> Idle]
  /\ begun = 0

Step(w) ==
  \/ os = "posix"   /\ P!Step(w)
  \/ os = "windows" /\ W!Step(w)

\* i_truncate, i_fallocate, i_seek: by the one thread that has the file to
\* itself.  Preallocation is asked for the size the file has, or more.
Alone ==
  /\ \A w \in Clients : ~InCall(w)
  /\ begun < MaxCalls /\ begun' = begun + 1
  /\ UNCHANGED <<os, call>>

Truncate ==
  /\ Alone
  /\ \E size \in Offsets : \/ os = "posix"   /\ P!Truncate(size)
                           \/ os = "windows" /\ W!Truncate(size)

Fallocate ==
  /\ Alone
  /\ \E size \in {n \in Offsets : n >= Len(file)} :
       \/ os = "posix"   /\ P!Fallocate(size)
       \/ os = "windows" /\ W!Fallocate(size)

Seek ==
  /\ Alone
  /\ \E offset \in Offsets : \/ os = "posix"   /\ P!Seek(offset)
                             \/ os = "windows" /\ W!Seek(offset)

Next ==
  \/ Truncate \/ Fallocate \/ Seek
  \/ \E w \in Clients : Begin(w) \/ Step(w) \/ Take(w)

\* A thread in a call keeps running and the system answers its requests; that
\* an error may end the call is not what makes it return.
Answered(w) == Step(w) /\ call'[w].ret # Failed

Spec == Init /\ [][Next]_vars /\ \A w \in Clients : WF_vars(Answered(w))

-----------------------------------------------------------------------------
\* The types of the variables (i_file of file_system.h and the callers' state).
TypeOK ==
  /\ os \in {"posix", "windows"}
  /\ \A i \in DOMAIN file : file[i] \in {Zero} \cup (Clients \X Nat)
  /\ pos \in Nat /\ begun \in 0 .. MaxCalls
  /\ \A w \in Clients : InCall(w) =>
       LET c == call[w] IN
       /\ c.op \in Ops /\ c.at \in Nat /\ c.moved \in 0 .. Word - 1
       /\ c.far \in 0 .. c.n /\ c.signals \in 0 .. MaxInterrupts
       /\ DOMAIN c.mem = 1 .. c.n
       /\ \A i \in DOMAIN c.iov : c.iov[i].len \in 0 .. c.n
       /\ c.ret.tag \in {"running", "bytes", "ok", "error", "corrupt", "assert"}

\* However a transfer was split up, interrupted and interleaved with others,
\* when it reports success or a count, these are the bytes: the file holds what
\* a writer handed in, a reader holds what is in the file, at the right places
\* (the loops of i_pwrite_all, i_writev_all, i_readv_all, i_pread_all ...).
TransfersAreExact ==
  \A w \in Clients :
    LET c == call[w] IN
    InCall(w) /\ c.ret.tag \in {"ok", "bytes"} =>
      LET moved == IF c.ret.tag = "ok" THEN c.n ELSE c.ret.n IN
      \A i \in 1 .. moved : c.at + i <= Len(file) /\ file[c.at + i] = c.mem[i]

\* The position accounts for the bytes moved and no others: a stream or vector
\* call leaves it after its last byte, also when it fails half way; on POSIX the
\* positional calls that other threads make meanwhile do not move it, and on
\* Windows, where they do, it is enough that none is made meanwhile.
PositionFollows ==
  \A w \in Clients :
    InCall(w) /\ call[w].op \in Streamed => pos = call[w].at + call[w].far

\* What the calls of both file.c report is what happened to the bytes.
Inv == TypeOK /\ TransfersAreExact

\* Every return value is one the callers of file_system.h can rely on, and
\* no byte outside a call's own region changes.
Contract == INSTANCE FileContract WITH
  job <- [w \in Clients |->
            IF ~InCall(w) THEN [kind |-> "none"]
            ELSE [kind |-> IF call[w].op \in Writing THEN "write" ELSE "read",
                  part |-> call[w].op \in Partial,
                  at   |-> call[w].at,   n    |-> call[w].n,
                  done |-> call[w].far,  mem  |-> call[w].mem,
                  ret  |-> call[w].ret]]
ImplementsContract == Contract!Spec

\* With finitely many signals every call returns: no loop spins at the end of
\* the file or on an empty buffer of a vector.
CallsReturn == \A w \in Clients : Pending(w) ~> ~Pending(w)

\* The loops' ASSERT (nread == n), ASSERT (nwrite == nbytes) hold when they end.  It
\* does not hold with Interruptible = {"start"} (README, section 6).
AssertsHold == \A w \in Clients : InCall(w) => call[w].ret # Asserted

=============================================================================
