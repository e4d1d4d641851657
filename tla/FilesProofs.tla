---------------------------- MODULE FilesProofs ----------------------------
(***************************************************************************)
(* For any threads, requests and vectors on one file, on both backends:    *)
(* transfers are exact, the position follows, and the calls keep the       *)
(* contract.  A step of either backend is brought to one of four moves     *)
(* (k bytes read, k bytes written, an error, a signal), of which           *)
(* everything is proved.                                                   *)
(***************************************************************************)
EXTENDS Files, SequenceTheorems, TLAPS

Content == {Zero} \cup (Clients \X Nat)
Buffers == [head : Nat, len : Nat]
Results == [tag : {"running", "ok", "error", "corrupt", "assert"}]
           \cup [tag : {"bytes"}, n : Nat]

\* The calls of file_system.h, at any point.
CallRecs == [op : Ops, at : Nat, n : Nat, iov : Seq(Buffers), moved : Nat, far : Nat,
             signals : Nat, mem : Seq(Content), ret : Results]

Sizes(c) ==
  /\ c \in CallRecs
  /\ c.n > 0 /\ c.n < Word - 1 /\ Len(c.mem) = c.n
  /\ c.moved \in 0 .. Word - 1 /\ c.far \in 0 .. c.n /\ c.signals \in 0 .. MaxInterrupts
  /\ \A i \in DOMAIN c.iov : c.iov[i].len \in 0 .. c.n

Types ==
  /\ os \in {"posix", "windows"} /\ file \in Seq(Content)
  /\ pos \in Nat /\ begun \in 0 .. MaxCalls
  /\ call \in [Clients -> {Idle} \cup CallRecs]
  /\ \A w \in Clients : InCall(w) => Sizes(call[w])

\* The bytes that have moved are the same on both sides.
Same(c, f) == \A i \in 1 .. c.far : c.at + i <= Len(f) /\ f[c.at + i] = c.mem[i]

\* Two calls that may not be in flight side by side.
Clash(c, d) ==
  \/ c.op \in Streamed /\ d.op \in Streamed
  \/ os = "windows" /\ (c.op \in Streamed \/ d.op \in Streamed)
  \/ /\ c.op \in Writing \/ d.op \in Writing
     /\ \E i \in 1 .. c.n, j \in 1 .. d.n : c.at + i = d.at + j

Apart == \A v, w \in Clients : v # w /\ InCall(v) /\ InCall(w) => ~Clash(call[v], call[w])

\* The buffers of v are the addresses from m + 1 to n.
Covers(v, m, n) ==
  /\ v \in Seq(Buffers)
  /\ \/ v = <<>> /\ m = n
     \/ Len(v) = 1 /\ v[1].head = m + 1 /\ m + v[1].len = n
     \/ /\ Len(v) = 2 /\ v[1].head = m + 1 /\ v[2].head = m + 1 + v[1].len
        /\ m + v[1].len + v[2].len = n
  /\ \A i \in DOMAIN v : v[i].len \in 0 .. n /\ v[i].len < Dword

\* A call that makes one request only.
Single(o, op) == op \in Partial /\ (o = "posix" \/ op \notin Vectored)

\* What is left of a call with the result r, m bytes and the buffers v.
Ahead(o, c, m, v) ==
  /\ Single(o, c.op) => m = 0 /\ v # <<>>
  /\ c.op \notin Partial => m < c.n
  /\ c.op \in Vectored => Covers(v, m, c.n) /\ v # <<>>
  /\ c.op \notin Vectored => c.n % Dword # 0

Underway(o, c) ==
  c.ret = Running =>
    /\ Ahead(o, c, c.moved, c.iov)
    /\ c.moved <= c.far /\ (c.op \notin Positional => c.moved = c.far)
    /\ Single(o, c.op) => c.far = 0

Reported(c) ==
  /\ c.ret = Success => c.far = c.n
  /\ c.ret.tag = "bytes" => c.ret.n <= c.far

IInv ==
  /\ Types /\ PositionFollows /\ Apart
  /\ \A w \in Clients : InCall(w) =>
       Same(call[w], file) /\ Underway(os, call[w]) /\ Reported(call[w])

-----------------------------------------------------------------------------
(* The four moves.                                                          *)

\* Memory and file after k more bytes.
NewMem(c, k) ==
  [a \in 1 .. c.n |-> IF a \in c.moved + 1 .. c.moved + k THEN file[c.at + a] ELSE c.mem[a]]

NewFile(c, k) ==
  IF k = 0 THEN file
  ELSE [i \in 1 .. More(Len(file), c.at + c.moved + k) |->
          IF i \in c.at + c.moved + 1 .. c.at + c.moved + k THEN c.mem[i - c.at]
          ELSE IF i <= Len(file) THEN file[i] ELSE Zero]

After(c, k, v, mem, r) ==
  [op |-> c.op, at |-> c.at, n |-> c.n, iov |-> v, moved |-> c.moved + k,
   far |-> More(c.far, c.moved + k), signals |-> c.signals, mem |-> mem, ret |-> r]

\* The call goes on, or its result is one it may have.
Judged(c, m, v, r) ==
  /\ v \in Seq(Buffers) /\ \A i \in DOMAIN v : v[i].len \in 0 .. c.n
  /\ \/ r = Running /\ Ahead(os, c, m, v) /\ ~Single(os, c.op)
     \/ r = Success /\ m = c.n
     \/ /\ r = Bytes(m)
        /\ c.op \in Writing => m > 0 /\ c.op \in Partial
        /\ c.op \notin Writing /\ c.op \in Partial => (m = 0 => Len(file) <= c.at)
        /\ c.op \notin Writing /\ c.op \notin Partial => (m < c.n => Len(file) <= c.at + m)
     \/ r = Corrupt /\ c.op \notin Writing /\ m < c.n /\ Len(file) <= c.at + m

\* The position after them: behind the bytes of a stream or vector call; a
\* positional call may leave it behind its bytes on Windows.
PosAfter(c, k) ==
  \/ pos' = IF c.op \in Streamed THEN pos + k ELSE pos
  \/ os = "windows" /\ c.op \notin Streamed /\ pos' = c.at + c.moved + k

Moves(w, k, v, mem, r) ==
  LET c == call[w] IN
  /\ Pending(w) /\ k \in Nat /\ c.moved + k <= c.n
  /\ call' = [call EXCEPT ![w] = After(c, k, v, mem, r)]
  /\ PosAfter(c, k)
  /\ UNCHANGED <<os, begun>>
  /\ Judged(c, c.moved + k, v, r)

Reads(w, k, v, r) ==
  LET c == call[w] IN
  /\ c.op \notin Writing /\ (k > 0 => c.at + c.moved + k <= Len(file))
  /\ Moves(w, k, v, NewMem(c, k), r) /\ UNCHANGED file

Writes(w, k, v, r) ==
  LET c == call[w] IN
  /\ c.op \in Writing
  /\ Moves(w, k, v, c.mem, r) /\ file' = NewFile(c, k)

Fails(w) ==
  /\ Pending(w)
  /\ call' = [call EXCEPT ![w] = [call[w] EXCEPT !.ret = Failed]]
  /\ PosAfter(call[w], 0)
  /\ UNCHANGED <<os, file, begun>>

\* A signal: at worst a byte is moved again, or the call ends as it should not.
Signalled(w, m, r) ==
  LET c == call[w] IN
  /\ Pending(w) /\ c.signals < MaxInterrupts
  /\ call' = [call EXCEPT ![w] = [c EXCEPT !.moved = m, !.signals = c.signals + 1, !.ret = r]]
  /\ UNCHANGED <<os, file, pos, begun>>
  /\ \/ r = Running /\ m = c.moved /\ ~Single(os, c.op)
     \/ r = Running /\ m \in Nat /\ m + 1 = c.moved /\ c.op \in Positional \ Partial
     \/ r = Failed /\ m = c.moved
     \/ /\ "start" \in Interruptible /\ c.moved = 0
        /\ \/ r = Asserted /\ m = Word - 1
           \/ r \in {Bytes(0), Corrupt} /\ m = 0

Move(w) ==
  \/ \E k \in Nat, v \in Seq(Buffers), r \in Results : Reads(w, k, v, r) \/ Writes(w, k, v, r)
  \/ Fails(w)
  \/ \E m \in Nat, r \in Results : Signalled(w, m, r)

-----------------------------------------------------------------------------
(* Calls.                                                                   *)

\* How the calls of file_system.h are sorted.
LEMMA Kinds ==
  /\ \A op \in Ops : op # "none"
  /\ Idle.op = "none" /\ Idle \notin CallRecs
  /\ Writing \subseteq Ops /\ Vectored \subseteq Streamed /\ Partial \subseteq Ops
  /\ Positional \cap Streamed = {} /\ \A op \in Ops : op \in Positional \/ op \in Streamed
  /\ Positional \cap Vectored = {}
BY DEF Ops, Idle, CallRecs, Positional, Streamed, PositionalReads, PositionalWrites,
   StreamReads,
       StreamWrites, Vectored, VectorReads, VectorWrites, Writing, Partial

\* The results are apart from each other.
LEMMA ResultTypes ==
  /\ Running \in Results /\ Success \in Results /\ Failed \in Results
  /\ Corrupt \in Results /\ Asserted \in Results
  /\ \A k \in Nat : Bytes(k) \in Results
  /\ Running # Success /\ Running # Failed /\ Running # Corrupt /\ Running # Asserted
  /\ Success # Failed /\ Success # Corrupt /\ Success # Asserted
  /\ \A k \in Nat : Bytes(k) # Running /\ Bytes(k) # Success /\ Bytes(k).tag = "bytes" /\ Bytes(k).n = k
  /\ Running.tag = "running" /\ Success.tag = "ok" /\ Failed.tag = "error"
  /\ Corrupt.tag = "corrupt" /\ Asserted.tag = "assert"
BY DEF Running, Success, Failed, Corrupt, Asserted, Bytes, Results

\* A result is known by its tag.
LEMMA ResultIs ==
  ASSUME NEW r \in Results
  PROVE  /\ r.tag \in {"running", "bytes", "ok", "error", "corrupt", "assert"}
         /\ r.tag = "running" <=> r = Running
         /\ r.tag = "ok" <=> r = Success
         /\ r.tag = "bytes" => r.n \in Nat /\ r = Bytes(r.n)
BY DEF Running, Success, Bytes, Results

\* A thread in a call has a whole record of it.
LEMMA InCallIs ==
  ASSUME Types, NEW w \in Clients
  PROVE  /\ InCall(w) => call[w] \in CallRecs /\ Sizes(call[w])
         /\ ~InCall(w) => call[w] = Idle
         /\ Pending(w) => InCall(w) /\ call[w].ret = Running
BY Kinds DEF Types, InCall, Pending, Idle, Sizes, CallRecs

\* A call, field by field.
LEMMA CallIs ==
  ASSUME NEW c, Sizes(c)
  PROVE  /\ c = [op |-> c.op, at |-> c.at, n |-> c.n, iov |-> c.iov, moved |-> c.moved,
                 far |-> c.far, signals |-> c.signals, mem |-> c.mem, ret |-> c.ret]
         /\ c.op \in Ops /\ c.at \in Nat /\ c.n \in Nat /\ c.iov \in Seq(Buffers)
         /\ c.moved \in Nat /\ c.far \in Nat /\ c.signals \in Nat
         /\ c.mem \in Seq(Content) /\ c.ret \in Results
         /\ c.n > 0 /\ c.n < Word - 1 /\ Len(c.mem) = c.n /\ c.far <= c.n /\ c.moved <= Word - 1
         /\ c.signals <= MaxInterrupts
         /\ \A i \in DOMAIN c.iov : c.iov[i].len \in 0 .. c.n
BY OsFileAssumption DEF Sizes, CallRecs

-----------------------------------------------------------------------------
(* Memory and file.                                                         *)

\* An address behind a is a plus some j.
LEMMA Beyond ==
  ASSUME NEW a \in Nat, NEW n \in Nat, NEW p \in Nat, p > a, p <= a + n
  PROVE  \E j \in 1 .. n : p = a + j
<1>1. p - a \in 1 .. n /\ p = a + (p - a)
  OBVIOUS
<1>2. QED
  BY <1>1

\* A function on 1..n is a sequence of that length.
LEMMA FunIsSeq ==
  ASSUME NEW S, NEW n \in Nat, NEW f \in [1 .. n -> S]
  PROVE  f \in Seq(S) /\ Len(f) = n
OBVIOUS

\* A read stores the bytes of the file in place, and no others.
LEMMA NewMemIs ==
  ASSUME NEW c, Sizes(c), file \in Seq(Content), NEW k \in Nat, c.moved + k <= c.n,
         k > 0 => c.at + c.moved + k <= Len(file)
  PROVE  /\ NewMem(c, k) \in Seq(Content) /\ Len(NewMem(c, k)) = c.n
         /\ \A a \in 1 .. c.n :
              NewMem(c, k)[a] = IF a > c.moved /\ a <= c.moved + k THEN file[c.at + a] ELSE c.mem[a]
<1> USE CallIs
<1>1. \A a \in 1 .. c.n :
        (IF a \in c.moved + 1 .. c.moved + k THEN file[c.at + a] ELSE c.mem[a]) \in Content
  <2> TAKE a \in 1 .. c.n
  <2>1. CASE a \in c.moved + 1 .. c.moved + k
    <3>1. c.at + a \in 1 .. Len(file)
      BY <2>1
    <3>2. QED
      BY <2>1, <3>1
  <2>2. CASE a \notin c.moved + 1 .. c.moved + k
    BY <2>2
  <2>3. QED
    BY <2>1, <2>2
<1>2. NewMem(c, k) \in [1 .. c.n -> Content]
  BY <1>1 DEF NewMem
<1>3. c.n \in Nat
  OBVIOUS
<1>4. NewMem(c, k) \in Seq(Content) /\ Len(NewMem(c, k)) = c.n
  BY ONLY <1>2, <1>3, FunIsSeq
<1>5. QED
  BY <1>4 DEF NewMem

\* A write stores the bytes of the caller in place, and no others.
LEMMA NewFileIs ==
  ASSUME NEW c, Sizes(c), file \in Seq(Content), NEW k \in Nat, c.moved + k <= c.n
  PROVE  /\ NewFile(c, k) \in Seq(Content) /\ Len(NewFile(c, k)) >= Len(file)
         /\ k > 0 => Len(NewFile(c, k)) >= c.at + c.moved + k
         /\ \A i \in 1 .. Len(NewFile(c, k)) :
              NewFile(c, k)[i] = IF i > c.at + c.moved /\ i <= c.at + c.moved + k THEN c.mem[i - c.at]
                                 ELSE IF i <= Len(file) THEN file[i] ELSE Zero
<1> USE CallIs
<1>1. CASE k = 0
  BY <1>1 DEF NewFile
<1>2. CASE k # 0
  <2> DEFINE n == More(Len(file), c.at + c.moved + k)
             g(i) == IF i \in c.at + c.moved + 1 .. c.at + c.moved + k THEN c.mem[i - c.at]
                     ELSE IF i <= Len(file) THEN file[i] ELSE Zero
  <2>1. n \in Nat /\ n >= Len(file) /\ n >= c.at + c.moved + k
    BY DEF More
  <2>2. \A i \in 1 .. n : g(i) \in Content
    <3> TAKE i \in 1 .. n
    <3>1. CASE i \in c.at + c.moved + 1 .. c.at + c.moved + k
      <4>1. i - c.at \in 1 .. Len(c.mem)
        BY <3>1
      <4>2. QED
        BY <3>1, <4>1
    <3>2. CASE i \notin c.at + c.moved + 1 .. c.at + c.moved + k
      BY <3>2 DEF Content
    <3>3. QED
      BY <3>1, <3>2
  <2>3. NewFile(c, k) = [i \in 1 .. n |-> g(i)]
    BY <1>2 DEF NewFile
  <2>4. NewFile(c, k) \in [1 .. n -> Content]
    BY <2>2, <2>3
  <2> HIDE DEF n
  <2>5. NewFile(c, k) \in Seq(Content) /\ Len(NewFile(c, k)) = n
    BY <2>1, <2>4, FunIsSeq
  <2>6. QED
    BY <2>1, <2>3, <2>5
<1>3. QED
  BY <1>1, <1>2

-----------------------------------------------------------------------------
(* What a move does to the call that makes it, and to the others.           *)

\* The call with k bytes more is of the types again.
LEMMA AfterFits ==
  ASSUME NEW c, Sizes(c), NEW k \in Nat, c.moved + k <= c.n,
         NEW v \in Seq(Buffers), \A i \in DOMAIN v : v[i].len \in 0 .. c.n,
         NEW mem \in Seq(Content), Len(mem) = c.n, NEW r \in Results
  PROVE  /\ Sizes(After(c, k, v, mem, r))
         /\ After(c, k, v, mem, r).far = IF c.far < c.moved + k THEN c.moved + k ELSE c.far
<1> DEFINE d == After(c, k, v, mem, r)
<1> USE CallIs
<1>1. d.far = IF c.far < c.moved + k THEN c.moved + k ELSE c.far
  BY DEF After, More
<1>2. d.far \in 0 .. c.n /\ d.far \in Nat
  BY <1>1
<1>3. d \in CallRecs
  BY <1>2 DEF After, CallRecs
<1>4. d.moved = c.moved + k /\ d.n = c.n /\ d.signals = c.signals /\ d.mem = mem /\ d.iov = v
  BY DEF After
<1>5. Sizes(d)
  <2> HIDE DEF d
  <2>1. d.moved \in 0 .. Word - 1
    BY <1>4, OsFileAssumption
  <2>2. c.signals \in 0 .. MaxInterrupts
    BY DEF Sizes
  <2>3. QED
    BY <1>2, <1>3, <1>4, <2>1, <2>2 DEF Sizes
<1>6. QED
  BY <1>1, <1>5

\* What was read is what is in the file.
LEMMA ReadIsSame ==
  ASSUME NEW c, Sizes(c), file \in Seq(Content), NEW k \in Nat, c.moved + k <= c.n,
         k > 0 => c.at + c.moved + k <= Len(file), c.moved <= c.far, Same(c, file),
         NEW v, NEW r
  PROVE  Same(After(c, k, v, NewMem(c, k), r), file)
<1> DEFINE d == After(c, k, v, NewMem(c, k), r)
<1>0. /\ c.at \in Nat /\ c.n \in Nat /\ c.moved \in Nat /\ c.far \in Nat /\ c.far <= c.n
  BY CallIs
<1>f. \A a \in 1 .. c.n :
        NewMem(c, k)[a] = IF a > c.moved /\ a <= c.moved + k THEN file[c.at + a] ELSE c.mem[a]
  BY NewMemIs
<1>1. d.at = c.at /\ d.mem = NewMem(c, k) /\ d.far = IF c.far < c.moved + k THEN c.moved + k ELSE c.far
  BY DEF After, More
<1>2. ASSUME NEW i \in 1 .. d.far PROVE c.at + i <= Len(file) /\ file[c.at + i] = NewMem(c, k)[i]
  <2>1. i \in 1 .. c.n
    BY <1>0, <1>1, <1>2
  <2>2. CASE i > c.moved /\ i <= c.moved + k
    BY <2>1, <2>2, <1>0, <1>f
  <2>3. CASE ~(i > c.moved /\ i <= c.moved + k)
    <3>1. i \in 1 .. c.far
      BY <1>0, <1>1, <1>2, <2>1, <2>3
    <3>2. c.at + i <= Len(file) /\ file[c.at + i] = c.mem[i]
      BY <3>1 DEF Same
    <3>3. QED
      BY <2>1, <2>3, <3>2, <1>0, <1>f
  <2>4. QED
    BY <2>2, <2>3
<1> HIDE DEF d
<1>3. QED
  BY <1>1, <1>2 DEF Same, d

\* What was written is what the caller had.
LEMMA WrittenIsSame ==
  ASSUME NEW c, Sizes(c), file \in Seq(Content), NEW k \in Nat, c.moved + k <= c.n,
         c.moved <= c.far, Same(c, file), NEW v, NEW r
  PROVE  Same(After(c, k, v, c.mem, r), NewFile(c, k))
<1> DEFINE d == After(c, k, v, c.mem, r)
           f == NewFile(c, k)
<1>0. /\ c.at \in Nat /\ c.n \in Nat /\ c.moved \in Nat /\ c.far \in Nat /\ c.far <= c.n
  BY CallIs
<1>f. /\ k > 0 => Len(f) >= c.at + c.moved + k
      /\ Len(f) \in Nat /\ Len(file) \in Nat /\ Len(f) >= Len(file)
      /\ c.moved + k <= c.n
  BY NewFileIs
<1>g. \A i \in 1 .. Len(f) :
        f[i] = IF i > c.at + c.moved /\ i <= c.at + c.moved + k THEN c.mem[i - c.at]
               ELSE IF i <= Len(file) THEN file[i] ELSE Zero
  BY NewFileIs
<1>1. d.at = c.at /\ d.mem = c.mem /\ d.far = IF c.far < c.moved + k THEN c.moved + k ELSE c.far
  BY DEF After, More
<1>3. ASSUME NEW i \in 1 .. d.far PROVE c.at + i <= Len(f) /\ f[c.at + i] = c.mem[i]
  <2>1. i \in 1 .. c.n
    BY <1>0, <1>1, <1>3
  <2>2. CASE i > c.moved /\ i <= c.moved + k
    <3>1. PICK p \in Nat : p = c.at + i
      BY <1>0, <2>1
    <3>2. p \in 1 .. Len(f) /\ p - c.at = i /\ p > c.at + c.moved /\ p <= c.at + c.moved + k
      BY <2>1, <2>2, <3>1, <1>0, <1>f
    <3>3. f[p] = c.mem[p - c.at]
      BY <3>2, <1>g
    <3>4. QED
      BY <1>0, <1>f, <3>1, <3>2, <3>3
  <2>3. CASE ~(i > c.moved /\ i <= c.moved + k)
    <3>1. i \in 1 .. c.far
      BY <1>0, <1>1, <1>3, <2>1, <2>3
    <3>2. c.at + i <= Len(file) /\ file[c.at + i] = c.mem[i]
      BY <3>1 DEF Same
    <3>3. PICK p \in Nat : p = c.at + i
      BY <1>0, <2>1
    <3>4. p \in 1 .. Len(f) /\ p <= Len(file) /\ ~(p > c.at + c.moved /\ p <= c.at + c.moved + k)
      BY <2>1, <2>3, <3>2, <3>3, <1>0, <1>f
    <3>5. f[p] = file[p]
      BY <3>4, <1>g
    <3>6. QED
      BY <1>0, <1>f, <3>2, <3>3, <3>4, <3>5
  <2>4. QED
    BY <2>2, <2>3
<1> HIDE DEF d, f
<1>4. QED
  BY <1>1, <1>3 DEF Same, d, f

\* A write leaves the bytes of the other calls alone.
LEMMA OthersSame ==
  ASSUME NEW c, Sizes(c), file \in Seq(Content), NEW k \in Nat, c.moved + k <= c.n,
         c.op \in Writing, NEW u, Sizes(u), Same(u, file), ~Clash(u, c)
  PROVE  Same(u, NewFile(c, k))
<1> DEFINE f == NewFile(c, k)
<1>0. /\ c.at \in Nat /\ c.n \in Nat /\ c.moved \in Nat /\ c.far \in Nat /\ c.far <= c.n
      /\ u.at \in Nat /\ u.n \in Nat /\ u.moved \in Nat /\ u.far \in Nat /\ u.far <= u.n
  BY CallIs
<1>f. /\ k > 0 => Len(f) >= c.at + c.moved + k
      /\ Len(f) \in Nat /\ Len(file) \in Nat /\ Len(f) >= Len(file)
      /\ c.moved + k <= c.n
  BY NewFileIs
<1>g. \A i \in 1 .. Len(f) :
        f[i] = IF i > c.at + c.moved /\ i <= c.at + c.moved + k THEN c.mem[i - c.at]
               ELSE IF i <= Len(file) THEN file[i] ELSE Zero
  BY NewFileIs
<1>2. ASSUME NEW i \in 1 .. u.far PROVE u.at + i <= Len(f) /\ f[u.at + i] = u.mem[i]
  <2>1. u.at + i <= Len(file) /\ file[u.at + i] = u.mem[i]
    BY <1>2 DEF Same
  <2>2. i \in 1 .. u.n /\ i \in Nat
    BY <1>0, <1>2
  <2>3. u.at + i \in 1 .. Len(f)
    BY <2>1, <2>2, <1>0, <1>f
  <2>4. ~(u.at + i > c.at + c.moved /\ u.at + i <= c.at + c.moved + k)
    <3> SUFFICES ASSUME u.at + i > c.at + c.moved /\ u.at + i <= c.at + c.moved + k PROVE FALSE
      OBVIOUS
    <3>1. PICK p \in Nat : p = u.at + i
      BY <1>0, <2>2
    <3>2. p > c.at /\ p <= c.at + c.n
      <4>1. p > c.at + c.moved /\ p <= c.at + c.moved + k
        BY <3>1
      <4>2. PICK b \in Nat, m \in Nat, d \in Nat : b = c.at /\ m = c.n /\ d = c.moved
        BY ONLY <1>0
      <4>3. p > b + d /\ p <= b + d + k /\ d + k <= m
        BY ONLY <1>f, <4>1, <4>2
      <4>4. p > b /\ p <= b + m
        BY ONLY <4>3, p \in Nat, k \in Nat, b \in Nat, m \in Nat, d \in Nat
      <4>5. QED
        BY ONLY <4>2, <4>4
    <3>3. PICK a \in Nat, n \in Nat : a = c.at /\ n = c.n
      BY ONLY <1>0
    <3>4. \E j \in 1 .. n : p = a + j
      BY ONLY <3>1, <3>2, <3>3, Beyond
    <3>5. QED
      BY <2>2, <3>1, <3>3, <3>4 DEF Clash
  <2>5. QED
    BY <2>1, <2>3, <2>4, <1>0, <1>f, <1>g
<1> HIDE DEF f
<1>3. QED
  BY <1>2 DEF Same, f

-----------------------------------------------------------------------------
(* The invariant is kept by the moves.                                      *)

\* What the invariant says of one call.
LEMMA IInvIs ==
  ASSUME IInv, NEW w \in Clients, InCall(w)
  PROVE  /\ Sizes(call[w]) /\ Same(call[w], file) /\ Underway(os, call[w]) /\ Reported(call[w])
         /\ call[w].op \in Streamed => pos = call[w].at + call[w].far
BY DEF IInv, Types, PositionFollows

\* One call changes, and nothing but its own bytes.
LEMMA OneCall ==
  ASSUME IInv, NEW w \in Clients, InCall(w), NEW d, Sizes(d), 
         d.op = call[w].op, d.at = call[w].at, d.n = call[w].n,
         call' = [call EXCEPT ![w] = d], file' \in Seq(Content), os' = os, begun' = begun, pos' \in Nat,
         Same(d, file'), Underway(os, d), Reported(d),
         \A u \in Clients : u # w /\ InCall(u) => Same(call[u], file'),
         d.op \in Streamed => pos' = d.at + d.far,
         pos' = pos \/ d.op \in Streamed \/ os = "windows"
  PROVE  IInv'
<1>1. Types /\ Apart
  BY DEF IInv
<1>2. d \in CallRecs /\ d.op # "none"
  BY Kinds DEF Sizes, CallRecs
<1>3. call' \in [Clients -> {Idle} \cup CallRecs] /\ call'[w] = d
      /\ \A u \in Clients : u # w => call'[u] = call[u]
  BY <1>1, <1>2 DEF Types
<1>4. \A u \in Clients : InCall(u)' <=> InCall(u)
  BY <1>2, <1>3 DEF InCall
<1>5. \A u \in Clients : InCall(u) => Sizes(call'[u])
  BY <1>1, <1>3 DEF Types
<1>6. Types'
  BY <1>1, <1>3, <1>4, <1>5 DEF Types
<1>7. Apart'
  <2> SUFFICES ASSUME NEW t \in Clients, NEW u \in Clients, t # u, InCall(t), InCall(u)
               PROVE  ~Clash(call'[t], call'[u])
    BY <1>4 DEF Apart, Clash
  <2>1. ~Clash(call[t], call[u])
    BY <1>1 DEF Apart
  <2>2. Clash(call'[t], call'[u]) <=> Clash(call[t], call[u])
    <3>1. /\ call'[t].op = call[t].op /\ call'[t].at = call[t].at /\ call'[t].n = call[t].n
          /\ call'[u].op = call[u].op /\ call'[u].at = call[u].at /\ call'[u].n = call[u].n
      BY <1>3
    <3>2. QED
      BY <3>1 DEF Clash
  <2>3. QED
    BY <2>1, <2>2
<1>8. PositionFollows'
  <2> SUFFICES ASSUME NEW u \in Clients, InCall(u), call'[u].op \in Streamed
               PROVE  pos' = call'[u].at + call'[u].far
    BY <1>4 DEF PositionFollows
  <2>1. CASE u = w
    BY <1>3, <2>1
  <2>2. CASE u # w
    <3>1. call'[u] = call[u] /\ pos = call[u].at + call[u].far
      BY <1>3, <2>2, IInvIs
    <3>2. d.op \notin Streamed /\ os # "windows"
      BY <1>1, <2>2, <3>1 DEF Apart, Clash
    <3>3. QED
      BY <3>1, <3>2
  <2>3. QED
    BY <2>1, <2>2
<1>9. \A u \in Clients : InCall(u) =>
        Same(call'[u], file') /\ Underway(os', call'[u]) /\ Reported(call'[u])
  <2> TAKE u \in Clients
  <2>1. CASE u = w
    BY <1>3, <2>1
  <2>2. CASE u # w
    BY <1>3, <2>2, IInvIs
  <2>3. QED
    BY <2>1, <2>2
<1>10. QED
  BY <1>4, <1>6, <1>7, <1>8, <1>9 DEF IInv

\* The call goes on as it should, or its result is one it may have.
LEMMA AfterGoesOn ==
  ASSUME NEW c, Sizes(c), Underway(os, c), c.ret = Running,
         NEW k \in Nat, c.moved + k <= c.n, NEW v, NEW mem, NEW r \in Results,
         Judged(c, c.moved + k, v, r)
  PROVE  LET d == After(c, k, v, mem, r) IN
         Underway(os, d) /\ Reported(d) /\ (c.op \notin Positional => d.far = c.moved + k)
<1> DEFINE d == After(c, k, v, mem, r)
<1>0. c.moved \in Nat /\ c.far \in Nat /\ c.n \in Nat /\ c.far <= c.n
  BY CallIs
<1>m. PICK m \in Nat : m = c.moved + k
  BY <1>0
<1>j. Judged(c, m, v, r)
  BY <1>m
<1>1. /\ d.op = c.op /\ d.n = c.n /\ d.iov = v /\ d.moved = c.moved + k /\ d.ret = r
      /\ d.far = IF c.far < c.moved + k THEN c.moved + k ELSE c.far
  BY DEF After, More
<1>2. c.moved <= c.far /\ (c.op \notin Positional => c.moved = c.far) /\ Ahead(os, c, c.moved, c.iov)
  BY DEF Underway
<1> HIDE DEF d
<1>3. d.moved <= d.far /\ (c.op \notin Positional => d.far = c.moved + k) /\ d.far <= c.n
  BY <1>0, <1>1, <1>2
<1>4. Underway(os, d)
  <2> SUFFICES ASSUME r = Running PROVE Underway(os, d)
    BY <1>1 DEF Underway
  <2>1. Ahead(os, c, c.moved + k, v) /\ ~Single(os, c.op)
    BY <1>j, <1>m, ResultTypes DEF Judged
  <2>2. Ahead(os, d, d.moved, d.iov)
    BY <1>1, <2>1 DEF Ahead
  <2>3. QED
    BY <1>1, <1>3, <2>1, <2>2 DEF Underway
<1>5. Reported(d)
  <2>1. CASE r = Success
    <3>1. c.moved + k = c.n
      BY <1>j, <1>m, <2>1, ResultTypes DEF Judged
    <3>2. d.far = d.n
      BY <1>0, <1>1, <1>3, <3>1
    <3>3. QED
      BY <1>1, <2>1, <3>2, ResultTypes DEF Reported
  <2>2. CASE r # Success
    <3>1. r.tag = "bytes" => r = Bytes(c.moved + k)
      BY <1>j, <1>m, <2>2, ResultTypes DEF Judged
    <3>3. r.tag = "bytes" => r.n = c.moved + k
      BY <1>m, <3>1, ResultTypes
    <3>4. QED
      BY <1>1, <1>3, <2>2, <3>3 DEF Reported
  <2>3. QED
    BY <2>1, <2>2
<1>6. QED
  BY <1>3, <1>4, <1>5 DEF d

\* A read of k bytes keeps the invariant.
LEMMA ReadsKeep ==
  ASSUME IInv, NEW w \in Clients, NEW k \in Nat, NEW v \in Seq(Buffers), NEW r \in Results,
         Reads(w, k, v, r)
  PROVE  IInv'
<1> PICK c : c = call[w]
  OBVIOUS
<1> PICK d : d = After(c, k, v, NewMem(c, k), r)
  OBVIOUS
<1>1. /\ Pending(w) /\ c.moved + k <= c.n /\ call' = [call EXCEPT ![w] = d]
      /\ PosAfter(c, k)
      /\ os' = os /\ begun' = begun /\ file' = file
      /\ k > 0 => c.at + c.moved + k <= Len(file)
      /\ Judged(c, c.moved + k, v, r)
  BY DEF Reads, Moves
<1>2. InCall(w) /\ c.ret = Running
  BY <1>1 DEF Pending
<1>3. Sizes(c) /\ Same(c, file) /\ Underway(os, c) /\ (c.op \in Streamed => pos = c.at + c.far)
  BY <1>2, IInvIs
<1>4. file \in Seq(Content) /\ pos \in Nat
  BY DEF IInv, Types
<1>5. c.moved <= c.far /\ (c.op \notin Positional => c.moved = c.far)
  BY <1>2, <1>3 DEF Underway
<1>6. NewMem(c, k) \in Seq(Content) /\ Len(NewMem(c, k)) = c.n
  BY <1>1, <1>3, <1>4, NewMemIs
<1>7. \A i \in DOMAIN v : v[i].len \in 0 .. c.n
  BY <1>1 DEF Judged
<1>8. Sizes(d) /\ d.op = c.op /\ d.at = c.at /\ d.n = c.n
  BY <1>1, <1>3, <1>6, <1>7, AfterFits DEF After
<1>9. Same(d, file)
  BY <1>1, <1>3, <1>4, <1>5, ReadIsSame
<1>10. Underway(os, d) /\ Reported(d) /\ (c.op \notin Positional => d.far = c.moved + k)
  BY <1>1, <1>2, <1>3, AfterGoesOn
<1>11. c.op \in Ops /\ c.at \in Nat /\ c.moved \in Nat /\ c.far \in Nat
  BY <1>3, CallIs
<1>12. pos' \in Nat /\ (pos' = pos \/ c.op \in Streamed \/ os = "windows")
  <2>1. PICK a \in Nat, m \in Nat, p \in Nat : a = c.at /\ m = c.moved /\ p = pos
    BY <1>4, <1>11
  <2>2. PosAfter(c, k)
    BY <1>1
  <2>3. k \in Nat
    OBVIOUS
  <2>4. QED
    BY ONLY <2>1, <2>2, <2>3, a \in Nat, m \in Nat, p \in Nat DEF PosAfter
<1>13. c.op \in Streamed => pos' = d.at + d.far
  BY <1>1, <1>3, <1>5, <1>8, <1>10, <1>11, Kinds DEF PosAfter
<1>14. \A u \in Clients : u # w /\ InCall(u) => Same(call[u], file')
  BY <1>1, IInvIs
<1>15. QED
  BY <1>1, <1>2, <1>4, <1>8, <1>9, <1>10, <1>12, <1>13, <1>14, OneCall

\* A write of k bytes keeps the invariant.
LEMMA WritesKeep ==
  ASSUME IInv, NEW w \in Clients, NEW k \in Nat, NEW v \in Seq(Buffers), NEW r \in Results,
         Writes(w, k, v, r)
  PROVE  IInv'
<1> PICK c : c = call[w]
  OBVIOUS
<1> PICK d : d = After(c, k, v, c.mem, r)
  OBVIOUS
<1>1. /\ Pending(w) /\ c.moved + k <= c.n /\ call' = [call EXCEPT ![w] = d]
      /\ PosAfter(c, k)
      /\ os' = os /\ begun' = begun /\ file' = NewFile(c, k)
      /\ c.op \in Writing /\ Judged(c, c.moved + k, v, r)
  BY DEF Writes, Moves
<1>2. InCall(w) /\ c.ret = Running
  BY <1>1 DEF Pending
<1>3. Sizes(c) /\ Same(c, file) /\ Underway(os, c) /\ (c.op \in Streamed => pos = c.at + c.far)
  BY <1>2, IInvIs
<1>4. file \in Seq(Content) /\ pos \in Nat
  BY DEF IInv, Types
<1>5. c.moved <= c.far /\ (c.op \notin Positional => c.moved = c.far)
  BY <1>2, <1>3 DEF Underway
<1>6. file' \in Seq(Content)
  BY <1>1, <1>3, <1>4, NewFileIs
<1>7. \A i \in DOMAIN v : v[i].len \in 0 .. c.n
  BY <1>1 DEF Judged
<1>8. c.op \in Ops /\ c.at \in Nat /\ c.moved \in Nat /\ c.far \in Nat /\ c.mem \in Seq(Content) /\ Len(c.mem) = c.n
  BY <1>3, CallIs
<1>9. Sizes(d) /\ d.op = c.op /\ d.at = c.at /\ d.n = c.n
  BY <1>1, <1>3, <1>7, <1>8, AfterFits DEF After
<1>10. Same(d, file')
  BY <1>1, <1>3, <1>4, <1>5, WrittenIsSame
<1>11. Underway(os, d) /\ Reported(d) /\ (c.op \notin Positional => d.far = c.moved + k)
  BY <1>1, <1>2, <1>3, AfterGoesOn
<1>12. pos' \in Nat /\ (pos' = pos \/ c.op \in Streamed \/ os = "windows")
  <2>1. PICK a \in Nat, m \in Nat, p \in Nat : a = c.at /\ m = c.moved /\ p = pos
    BY <1>4, <1>8
  <2>2. PosAfter(c, k)
    BY <1>1
  <2>3. k \in Nat
    OBVIOUS
  <2>4. QED
    BY ONLY <2>1, <2>2, <2>3, a \in Nat, m \in Nat, p \in Nat DEF PosAfter
<1>13. c.op \in Streamed => pos' = d.at + d.far
  BY <1>1, <1>3, <1>5, <1>8, <1>9, <1>11, Kinds DEF PosAfter
<1>14. \A u \in Clients : u # w /\ InCall(u) => Same(call[u], file')
  <2> TAKE u \in Clients
  <2> HAVE u # w /\ InCall(u)
  <2>1. ~Clash(call[u], c) /\ Sizes(call[u]) /\ Same(call[u], file)
    BY <1>2, IInvIs DEF IInv, Apart
  <2>2. QED
    BY <1>1, <1>3, <1>4, <2>1, OthersSame
<1>15. QED
  BY <1>1, <1>2, <1>6, <1>9, <1>10, <1>11, <1>12, <1>13, <1>14, OneCall

\* An error, a signal: the bytes stay, the result is not a count of more.
Changed(c, m, s, r) == [c EXCEPT !.moved = m, !.signals = s, !.ret = r]

\* The changed call, field by field.
LEMMA ChangedIs ==
  ASSUME NEW c, Sizes(c), NEW m \in Nat, NEW s \in Nat, NEW r \in Results
  PROVE  Changed(c, m, s, r) =
           [op |-> c.op, at |-> c.at, n |-> c.n, iov |-> c.iov, moved |-> m,
            far |-> c.far, signals |-> s, mem |-> c.mem, ret |-> r]
<1>1. c = [op |-> c.op, at |-> c.at, n |-> c.n, iov |-> c.iov, moved |-> c.moved,
           far |-> c.far, signals |-> c.signals, mem |-> c.mem, ret |-> c.ret]
  BY CallIs
<1>2. PICK d : d = [c EXCEPT !.moved = m, !.signals = s, !.ret = r]
  OBVIOUS
<1>3. d = [op |-> c.op, at |-> c.at, n |-> c.n, iov |-> c.iov, moved |-> m,
           far |-> c.far, signals |-> s, mem |-> c.mem, ret |-> r]
  BY <1>1, <1>2
<1>4. QED
  BY <1>2, <1>3 DEF Changed

\* A call that changes without a byte moved keeps the invariant.
LEMMA ResultChanges ==
  ASSUME IInv, NEW w \in Clients, Pending(w),
         NEW m \in 0 .. Word - 1, NEW s \in 0 .. MaxInterrupts, NEW r \in Results,
         NEW c, c = call[w], NEW d, d = Changed(c, m, s, r),
         call' = [call EXCEPT ![w] = d], UNCHANGED <<os, file, begun>>, PosAfter(c, 0),
         Underway(os, d),
         r # Success, r.tag = "bytes" => r.n = 0
  PROVE  IInv'
<1>1. InCall(w)
  BY DEF Pending
<1>2. Sizes(c) /\ Same(c, file) /\ (c.op \in Streamed => pos = c.at + c.far)
  BY <1>1, IInvIs
<1>6. m \in Nat /\ s \in Nat
  BY OsFileAssumption
<1>4. d = [op |-> c.op, at |-> c.at, n |-> c.n, iov |-> c.iov, moved |-> m,
           far |-> c.far, signals |-> s, mem |-> c.mem, ret |-> r]
  BY <1>2, <1>6, ChangedIs
<1>5. /\ d.op = c.op /\ d.at = c.at /\ d.n = c.n /\ d.iov = c.iov /\ d.moved = m /\ d.far = c.far
      /\ d.signals = s /\ d.mem = c.mem /\ d.ret = r
  BY <1>4
<1>7. d \in CallRecs
  BY <1>2, <1>4, <1>6, CallIs DEF CallRecs
<1>8. Sizes(d)
  BY <1>2, <1>5, <1>7 DEF Sizes
<1>9. Same(d, file)
  BY <1>2, <1>5 DEF Same
<1>10. Reported(d)
  BY <1>2, <1>5, CallIs DEF Reported
<1>11. call' = [call EXCEPT ![w] = d]
  OBVIOUS
<1>12. /\ file' \in Seq(Content) /\ pos' \in Nat
       /\ c.op \in Streamed => pos' = pos
       /\ pos' = pos \/ c.op \in Streamed \/ os = "windows"
  BY <1>2, CallIs DEF IInv, Types, PosAfter
<1>13. \A u \in Clients : u # w /\ InCall(u) => Same(call[u], file')
  BY IInvIs
<1>14. Underway(os, d)
  OBVIOUS
<1>15. QED
  BY <1>1, <1>2, <1>5, <1>8, <1>9, <1>10, <1>11, <1>12, <1>13, <1>14, OneCall

\* An error keeps the invariant.
LEMMA FailsKeep ==
  ASSUME IInv, NEW w \in Clients, Fails(w)
  PROVE  IInv'
<1> PICK c : c = call[w]
  OBVIOUS
<1>1. Pending(w) /\ InCall(w)
  BY DEF Fails, Pending
<1>2. Sizes(c)
  BY <1>1, IInvIs
<1>3. PICK d : d = Changed(c, c.moved, c.signals, Failed)
  OBVIOUS
<1>0. c = [op |-> c.op, at |-> c.at, n |-> c.n, iov |-> c.iov, moved |-> c.moved,
           far |-> c.far, signals |-> c.signals, mem |-> c.mem, ret |-> c.ret]
      /\ c.moved \in Nat /\ c.signals \in Nat
  BY <1>2, CallIs
<1>t. d = [op |-> c.op, at |-> c.at, n |-> c.n, iov |-> c.iov, moved |-> c.moved,
           far |-> c.far, signals |-> c.signals, mem |-> c.mem, ret |-> Failed]
  BY <1>0, <1>2, <1>3, ResultTypes, ChangedIs
<1>4. d = [c EXCEPT !.ret = Failed] /\ d.ret = Failed
  BY <1>0, <1>t
<1>5. call' = [call EXCEPT ![w] = d]
  BY <1>4 DEF Fails
<1>6. Underway(os, d)
  BY <1>4, ResultTypes DEF Underway
<1>7. c.moved \in 0 .. Word - 1 /\ c.signals \in 0 .. MaxInterrupts
  BY <1>2 DEF Sizes
<1>8. UNCHANGED <<os, file, begun>> /\ PosAfter(c, 0)
  BY DEF Fails
<1>9. Failed \in Results /\ Failed # Success /\ (Failed.tag = "bytes" => Failed.n = 0)
  BY ResultTypes
<1>10. QED
  BY ONLY IInv, w \in Clients, c = call[w], <1>1, <1>3, <1>5, <1>6, <1>7, <1>8, <1>9,
     ResultChanges

\* A signal keeps the invariant.
LEMMA SignalledKeeps ==
  ASSUME IInv, NEW w \in Clients, NEW m \in Nat, NEW r \in Results, Signalled(w, m, r)
  PROVE  IInv'
<1> PICK c : c = call[w]
  OBVIOUS
<1> PICK s : s = c.signals + 1
  OBVIOUS
<1> PICK d : d = Changed(c, m, s, r)
  OBVIOUS
<1>1. Pending(w) /\ InCall(w) /\ c.ret = Running /\ c.signals < MaxInterrupts
  BY DEF Signalled, Pending
<1>2. Sizes(c) /\ Underway(os, c)
  BY <1>1, IInvIs
<1>3. c.moved \in Nat /\ c.signals \in Nat /\ c.moved <= Word - 1 /\ c.far \in Nat
      /\ Word \in Nat /\ MaxInterrupts \in Nat /\ Word > 0 /\ c.n \in Nat /\ c.n < Word - 1
  <2>1. c.moved \in Nat /\ c.signals \in Nat /\ c.moved <= Word - 1 /\ c.far \in Nat
        /\ c.n \in Nat /\ c.n < Word - 1
    BY <1>2, CallIs
  <2>2. Word \in Nat /\ MaxInterrupts \in Nat /\ Word > 0
    BY OsFileAssumption
  <2>3. QED
    BY ONLY <2>1, <2>2
<1>4. /\ d.op = c.op /\ d.n = c.n /\ d.iov = c.iov /\ d.moved = m /\ d.far = c.far /\ d.ret = r
  <2>1. s \in Nat
    BY <1>3
  <2>2. d = [op |-> c.op, at |-> c.at, n |-> c.n, iov |-> c.iov, moved |-> m,
             far |-> c.far, signals |-> s, mem |-> c.mem, ret |-> r]
    BY <1>2, <2>1, ChangedIs
  <2>3. QED
    BY ONLY <2>2
<1>5. \/ r = Running /\ m = c.moved
      \/ r = Running /\ m + 1 = c.moved /\ c.op \in Positional \ Partial
      \/ r = Failed /\ m = c.moved
      \/ r = Asserted /\ m = Word - 1
      \/ r \in {Bytes(0), Corrupt} /\ m = 0
  BY DEF Signalled
<1>6. m \in 0 .. Word - 1 /\ s \in 0 .. MaxInterrupts
  BY <1>1, <1>3, <1>5
<1>7. r # Success /\ (r.tag = "bytes" => r.n = 0)
  BY <1>5, ResultTypes
<1>8. Underway(os, d)
  <2> SUFFICES ASSUME r = Running PROVE Underway(os, d)
    BY <1>4 DEF Underway
  <2>1. Ahead(os, c, c.moved, c.iov) /\ c.moved <= c.far /\ (c.op \notin Positional => c.moved = c.far)
        /\ (Single(os, c.op) => c.far = 0)
    BY <1>1, <1>2 DEF Underway
  <2>2. CASE m = c.moved
    <3>1. Ahead(os, d, m, d.iov)
      BY <1>4, <2>1, <2>2 DEF Ahead
    <3>2. QED
      BY <1>4, <2>1, <2>2, <3>1 DEF Underway
  <2>3. CASE m # c.moved
    <3>1. m + 1 = c.moved /\ c.op \in Positional /\ c.op \notin Partial /\ c.op \notin Vectored
      BY <1>5, <2>3, ResultTypes, Kinds
    <3>2. Ahead(os, d, m, d.iov)
      BY <1>3, <1>4, <2>1, <3>1 DEF Ahead, Single
    <3>3. m <= c.far
      BY <1>3, <2>1, <3>1
    <3>4. QED
      BY <1>4, <3>1, <3>2, <3>3 DEF Underway, Single
  <2>4. QED
    BY <2>2, <2>3
<1>9. call' = [call EXCEPT ![w] = d]
  BY DEF Signalled, Changed
<1>10. UNCHANGED <<os, file, begun>> /\ PosAfter(c, 0)
  BY DEF Signalled, IInv, Types, PosAfter
<1>11. QED
  BY ONLY IInv, w \in Clients, c = call[w], d = Changed(c, m, s, r),
          r \in Results, <1>1, <1>6, <1>7, <1>8, <1>9, <1>10, ResultChanges

-----------------------------------------------------------------------------
(* The callers, and whoever has the file to itself.                         *)

\* A call that begins is of the types, whatever its buffers.
LEMMA NewCallFits ==
  ASSUME NEW w \in Clients, NEW op \in Ops, NEW at \in Nat,
         NEW ls \in {<<n>> : n \in Lengths} \cup Vectors, (op \in Vectored) = (Len(ls) = 2)
  PROVE  LET c == Call(w, op, at, ls) IN
         /\ Sizes(c) /\ c.op = op /\ c.at = at /\ c.far = 0 /\ c.ret = Running
         /\ \A o : Underway(o, c)
<1> DEFINE c == Call(w, op, at, ls)
           n == IF Len(ls) = 1 THEN ls[1] ELSE ls[1] + ls[2]
           iov == [i \in DOMAIN ls |-> [head |-> IF i = 1 THEN 1 ELSE ls[1] + 1, len |-> ls[i]]]
<1>1. \/ Len(ls) = 1 /\ DOMAIN ls = {1} /\ ls[1] \in Lengths /\ op \notin Vectored
      \/ Len(ls) = 2 /\ DOMAIN ls = {1, 2} /\ ls \in Vectors /\ op \in Vectored
  <2>1. CASE ls \in {<<x>> : x \in Lengths}
    BY <2>1
  <2>2. CASE ls \in Vectors
    <3>1. ls \in Nat \X Nat
      BY <2>2, OsFileAssumption
    <3>2. QED
      BY <2>2, <3>1
  <2>3. QED
    BY <2>1, <2>2
<1>2. /\ Word \in Nat /\ Word > 1 /\ Dword \in Nat /\ MaxInterrupts \in Nat
      /\ \A x \in Lengths : x \in Nat /\ x > 0 /\ x < Word - 1 /\ x % Dword # 0
      /\ \A x \in Vectors : /\ x[1] \in Nat /\ x[2] \in Nat /\ x[1] + x[2] > 0
                            /\ x[1] < Dword /\ x[2] < Dword /\ x[1] + x[2] < Word - 1
  BY OsFileAssumption
<1>3. n \in Nat /\ n > 0 /\ n < Word - 1 /\ (op \notin Vectored => n % Dword # 0)
      /\ \A i \in DOMAIN ls : ls[i] \in Nat /\ ls[i] <= n
  BY <1>1, <1>2
<1>4. /\ Len(iov) = Len(ls) /\ DOMAIN iov = DOMAIN ls
      /\ \A i \in DOMAIN ls : iov[i] = [head |-> IF i = 1 THEN 1 ELSE ls[1] + 1, len |-> ls[i]]
  BY <1>1
<1>5. iov \in Seq(Buffers)
  <2>1. \A i \in DOMAIN ls : [head |-> IF i = 1 THEN 1 ELSE ls[1] + 1, len |-> ls[i]] \in Buffers
    BY <1>1, <1>3 DEF Buffers
  <2>2. DOMAIN ls = 1 .. Len(ls) /\ Len(ls) \in Nat
    BY <1>1
  <2>3. iov \in [1 .. Len(ls) -> Buffers]
    BY <2>1, <2>2
  <2>4. QED
    BY <2>2, <2>3, FunIsSeq
<1>6. Source(w, n) \in Seq(Content) /\ Len(Source(w, n)) = n
  BY <1>3 DEF Source, Content
<1>7. Blank(n) \in Seq(Content) /\ Len(Blank(n)) = n
  BY <1>3 DEF Blank, Content
<1>8. c = [op |-> op, at |-> at, n |-> n, iov |-> iov, moved |-> 0, far |-> 0, signals |-> 0,
           mem |-> IF op \in Writing THEN Source(w, n) ELSE Blank(n), ret |-> Running]
  BY DEF Call
<1> HIDE DEF c, n, iov
<1>9. /\ c.op = op /\ c.at = at /\ c.n = n /\ c.iov = iov /\ c.moved = 0 /\ c.far = 0 /\ c.signals = 0
      /\ c.mem \in Seq(Content) /\ Len(c.mem) = n /\ c.ret = Running
  BY <1>6, <1>7, <1>8
<1>10. c \in CallRecs
  BY <1>3, <1>5, <1>6, <1>7, <1>8, ResultTypes DEF CallRecs
<1>11. \A i \in DOMAIN iov : iov[i].len \in 0 .. n
  BY <1>3, <1>4
<1>12. Sizes(c)
  BY <1>2, <1>3, <1>9, <1>10, <1>11 DEF Sizes
<1>13. \A o : Underway(o, c)
  <2> TAKE o
  <2>1. iov # <<>>
    BY <1>1, <1>4
  <2>2. op \in Vectored => Covers(iov, 0, n)
    <3> HAVE op \in Vectored
    <3>1. Len(iov) = 2 /\ DOMAIN iov = {1, 2} /\ ls \in Vectors
      BY <1>1, <1>4
    <3>2. iov[1] = [head |-> 1, len |-> ls[1]] /\ iov[2] = [head |-> ls[1] + 1, len |-> ls[2]]
      BY <1>1, <1>4
    <3>3. n = ls[1] + ls[2] /\ ls[1] \in Nat /\ ls[2] \in Nat /\ ls[1] < Dword /\ ls[2] < Dword
      BY <1>1, <1>2 DEF n
    <3>4. iov[1].head = 0 + 1 /\ iov[2].head = 0 + 1 + iov[1].len /\ 0 + iov[1].len + iov[2].len = n
      BY <3>2, <3>3
    <3>5. \A i \in DOMAIN iov : iov[i].len \in 0 .. n /\ iov[i].len < Dword
      BY <1>11, <3>1, <3>2, <3>3
    <3>6. QED
      BY <1>5, <3>1, <3>4, <3>5 DEF Covers
  <2>3. Ahead(o, c, 0, iov)
    BY <1>3, <1>9, <2>1, <2>2 DEF Ahead
  <2>4. QED
    BY <1>9, <2>3 DEF Underway
<1>14. QED
  BY <1>9, <1>12, <1>13 DEF c

\* A call begins apart from those in flight.
LEMMA BeginKeeps ==
  ASSUME IInv, NEW w \in Clients, Begin(w), ~Mixed
  PROVE  IInv'
<1>1. PICK op \in Ops, ls \in {<<n>> : n \in Lengths} \cup Vectors, off \in Offsets :
        /\ (op \in Vectored) = (Len(ls) = 2)
        /\ op \in Streamed => off = pos
        /\ Excluded(w, op, Call(w, op, off, ls).at, Call(w, op, off, ls).n)
        /\ call' = [call EXCEPT ![w] = Call(w, op, off, ls)]
  BY DEF Begin
<1> PICK c : c = Call(w, op, off, ls)
  OBVIOUS
<1>2. ~InCall(w) /\ begun < MaxCalls /\ begun' = begun + 1 /\ UNCHANGED <<os, file, pos>>
  BY DEF Begin
<1>3. off \in Nat
  BY OsFileAssumption
<1>4. Sizes(c) /\ c.op = op /\ c.at = off /\ c.far = 0 /\ c.ret = Running /\ \A o : Underway(o, c)
  BY <1>1, <1>3, NewCallFits
<1>5. c.op # "none" /\ c \in CallRecs
  BY <1>4, Kinds DEF Sizes
<1>6. Types /\ Apart
  BY DEF IInv
<1>7. call' \in [Clients -> {Idle} \cup CallRecs] /\ call'[w] = c
      /\ \A u \in Clients : u # w => call'[u] = call[u]
  BY <1>1, <1>5, <1>6 DEF Types
<1>8. InCall(w)' /\ \A u \in Clients : u # w => (InCall(u)' <=> InCall(u))
  BY <1>5, <1>7 DEF InCall
<1>9. \A u \in Clients : InCall(u)' => Sizes(call'[u])
  BY <1>4, <1>6, <1>7, <1>8 DEF Types
<1>10. begun' \in 0 .. MaxCalls
  BY <1>2, <1>6, OsFileAssumption DEF Types
<1>11. Types'
  BY <1>2, <1>6, <1>7, <1>9, <1>10 DEF Types
<1>12. Apart'
  <2>1. ASSUME NEW v \in Clients, v # w, InCall(v) PROVE ~Clash(c, call[v]) /\ ~Clash(call[v], c)
    <3>1. /\ op \in Streamed => call[v].op \notin Streamed
          /\ os = "windows" => op \notin Streamed /\ call[v].op \notin Streamed
          /\ (op \in Writing \/ call[v].op \in Writing) => (c.at + 1 .. c.at + c.n) \cap Region(v) = {}
      BY <1>1, <2>1 DEF Excluded
    <3>2. Sizes(call[v])
      BY <1>6, <2>1 DEF Types
    <3>3. /\ c.at \in Nat /\ c.n \in Nat /\ call[v].at \in Nat /\ call[v].n \in Nat
      BY <1>4, <3>2, CallIs
    <3>4. ASSUME NEW i \in 1 .. c.n, NEW j \in 1 .. call[v].n, c.at + i = call[v].at + j,
                 op \in Writing \/ call[v].op \in Writing
          PROVE  FALSE
      <4>1. c.at + i \in c.at + 1 .. c.at + c.n /\ call[v].at + j \in Region(v)
        BY <3>3 DEF Region
      <4>2. QED
        BY <3>1, <3>4, <4>1
    <3>5. QED
      BY <1>4, <3>1, <3>4 DEF Clash
  <2> SUFFICES ASSUME NEW t \in Clients, NEW u \in Clients, t # u, InCall(t)', InCall(u)'
               PROVE  ~Clash(call'[t], call'[u])
    BY <1>2 DEF Apart, Clash
  <2>2. CASE t # w /\ u # w
    BY <1>6, <1>7, <1>8, <2>2 DEF Apart
  <2>3. CASE t = w \/ u = w
    BY <1>7, <1>8, <2>1, <2>3
  <2>4. QED
    BY <2>2, <2>3
<1>13. PositionFollows'
  <2> SUFFICES ASSUME NEW u \in Clients, InCall(u)', call'[u].op \in Streamed
               PROVE  pos' = call'[u].at + call'[u].far
    BY DEF PositionFollows
  <2>1. CASE u = w
    BY <1>1, <1>2, <1>3, <1>4, <1>7, <2>1
  <2>2. CASE u # w
    BY <1>2, <1>7, <1>8, <2>2, IInvIs
  <2>3. QED
    BY <2>1, <2>2
<1>14. Same(c, file) /\ Reported(c)
  BY <1>4, ResultTypes DEF Same, Reported
<1>15. \A u \in Clients : InCall(u)' =>
        Same(call'[u], file') /\ Underway(os', call'[u]) /\ Reported(call'[u])
  <2> TAKE u \in Clients
  <2>1. CASE u = w
    BY <1>2, <1>4, <1>7, <1>14, <2>1
  <2>2. CASE u # w
    BY <1>2, <1>7, <1>8, <2>2, IInvIs
  <2>3. QED
    BY <2>1, <2>2
<1>16. QED
  BY <1>11, <1>12, <1>13, <1>15 DEF IInv

\* The caller takes the result.
LEMMA TakeKeeps ==
  ASSUME IInv, NEW w \in Clients, Take(w)
  PROVE  IInv'
<1>1. Types /\ Apart /\ call' = [call EXCEPT ![w] = Idle] /\ UNCHANGED <<os, file, pos, begun>>
  BY DEF IInv, Take
<1>2. call' \in [Clients -> {Idle} \cup CallRecs] /\ call'[w] = Idle
      /\ \A u \in Clients : u # w => call'[u] = call[u]
  BY <1>1 DEF Types
<1>3. \A u \in Clients : InCall(u)' => u # w /\ InCall(u) /\ call'[u] = call[u]
  BY <1>2, Kinds DEF InCall
<1>4. Types'
  BY <1>1, <1>2, <1>3 DEF Types
<1>5. Apart'
  BY <1>1, <1>3 DEF Apart, Clash
<1>6. PositionFollows'
  BY <1>1, <1>3, IInvIs DEF PositionFollows
<1>7. QED
  BY <1>1, <1>3, <1>4, <1>5, <1>6, IInvIs DEF IInv

\* A file of another size, a position somewhere else: nobody is in a call.
LEMMA AloneKeeps ==
  ASSUME IInv, Alone, file' \in Seq(Content), pos' \in Nat
  PROVE  IInv'
<1>1. Types /\ (\A u \in Clients : ~InCall(u)) /\ call' = call /\ os' = os
      /\ begun < MaxCalls /\ begun' = begun + 1
  BY DEF IInv, Alone
<1>2. \A u \in Clients : ~InCall(u)'
  BY <1>1 DEF InCall
<1>3. begun' \in 0 .. MaxCalls
  BY <1>1, OsFileAssumption DEF Types
<1>4. Types'
  BY <1>1, <1>2, <1>3 DEF Types
<1>5. QED
  BY <1>2, <1>4 DEF IInv, Apart, PositionFollows

\* The file with another size, and what it keeps of its bytes.
Resized(size) == [i \in 1 .. size |-> IF i <= Len(file) THEN file[i] ELSE Zero]

\* A file of another size is still a file.
LEMMA ResizedIs ==
  ASSUME file \in Seq(Content), NEW size \in Nat
  PROVE  Resized(size) \in Seq(Content) /\ Len(Resized(size)) = size
<1>1. \A i \in 1 .. size : (IF i <= Len(file) THEN file[i] ELSE Zero) \in Content
  BY DEF Content
<1>2. Resized(size) \in [1 .. size -> Content]
  BY <1>1 DEF Resized
<1>3. QED
  BY <1>2, FunIsSeq

\* i_truncate, i_fallocate and i_seek, on both backends.
LEMMA SizeChanges ==
  ASSUME IInv, Truncate \/ Fallocate \/ Seek
  PROVE  /\ Alone /\ pos' \in Nat
         /\ file' = file \/ \E size \in Nat : file' = Resized(size)
<1>1. file \in Seq(Content) /\ Len(file) \in Nat /\ pos \in Nat /\ Offsets \subseteq Nat
  BY OsFileAssumption DEF IInv, Types
<1>2. CASE Truncate
  <2>1. PICK size \in Offsets : (os = "posix" /\ P!Truncate(size)) \/ (os = "windows" /\ W!Truncate(size))
    BY <1>2 DEF Truncate
  <2>2. file' = Resized(size) /\ pos' \in {pos, size}
    BY <2>1 DEF P!Truncate, W!Truncate, Resized
  <2>3. QED
    BY <1>1, <1>2, <2>2 DEF Truncate
<1>3. CASE Fallocate
  <2>1. PICK size \in Offsets : (os = "posix" /\ P!Fallocate(size)) \/ (os = "windows" /\ W!Fallocate(size))
    BY <1>3 DEF Fallocate
  <2>2. P!More(size, Len(file)) \in Nat
    BY <1>1 DEF P!More
  <2>3. (file' = Resized(size) \/ file' = Resized(P!More(size, Len(file)))) /\ pos' \in {pos, size}
    BY <2>1 DEF P!Fallocate, W!Fallocate, W!Truncate, Resized
  <2>4. QED
    BY <1>1, <1>3, <2>2, <2>3 DEF Fallocate
<1>4. CASE Seek
  <2>1. PICK offset \in Offsets : (os = "posix" /\ P!Seek(offset)) \/ (os = "windows" /\ W!Seek(offset))
    BY <1>4 DEF Seek
  <2>2. file' = file /\ pos' \in {offset, pos + offset, Len(file) + offset}
    BY <2>1 DEF P!Seek, W!Seek
  <2>3. QED
    BY <1>1, <1>4, <2>2 DEF Seek
<1>5. QED
  BY <1>2, <1>3, <1>4

\* They keep the invariant, as nobody is in a call.
LEMMA SizeKeeps ==
  ASSUME IInv, Truncate \/ Fallocate \/ Seek
  PROVE  IInv'
<1>1. file \in Seq(Content)
  BY DEF IInv, Types
<1>2. file' \in Seq(Content)
  BY <1>1, SizeChanges, ResizedIs
<1>3. QED
  BY <1>2, SizeChanges, AloneKeeps

\* An open file and nobody in a call.
LEMMA InitKeeps == Init => IInv
<1> SUFFICES ASSUME Init PROVE IInv
  OBVIOUS
<1>1. file \in Seq(Content)
  BY OsFileAssumption DEF Init, Content
<1>2. \A w \in Clients : ~InCall(w)
  BY Kinds DEF Init, InCall
<1>3. call \in [Clients -> {Idle} \cup CallRecs]
  BY DEF Init
<1>4. os \in {"posix", "windows"} /\ pos \in Nat /\ begun \in 0 .. MaxCalls
  BY OsFileAssumption DEF Init
<1>5. Types
  BY <1>1, <1>2, <1>3, <1>4 DEF Types
<1>6. QED
  BY <1>2, <1>5 DEF IInv, Apart, PositionFollows

-----------------------------------------------------------------------------
(* What the backends are built from, in terms of the moves.                 *)

\* What is known of a call before it makes a request.
LEMMA PendingIs ==
  ASSUME IInv, NEW w \in Clients, Pending(w), NEW c, c = call[w]
  PROVE  /\ Sizes(c) /\ c.ret = Running /\ c.moved <= c.n
         /\ Ahead(os, c, c.moved, c.iov)
         /\ c.op \in Streamed => pos = c.at + c.moved
         /\ file \in Seq(Content) /\ pos \in Nat
<1>1. Types /\ InCall(w) /\ c.ret = Running /\ Sizes(c)
  BY InCallIs DEF IInv
<1>2. Underway(os, c)
  BY <1>1 DEF IInv
<1>3. c.moved <= c.far /\ (c.op \notin Positional => c.moved = c.far) /\ Ahead(os, c, c.moved, c.iov)
  BY <1>1, <1>2 DEF Underway
<1>4. c.moved <= c.n
  BY <1>1, <1>3, CallIs
<1>5. c.op \in Streamed => pos = c.at + c.moved
  BY <1>1, <1>3, Kinds DEF IInv, PositionFollows
<1>6. QED
  BY <1>1, <1>3, <1>4, <1>5 DEF Types

\* What the system may answer to a request.
LEMMA CountsAre ==
  ASSUME file \in Seq(Content), NEW from \in Nat, NEW want \in Nat
  PROVE  /\ \A k \in ReadCounts(from, want) :
              /\ k \in Nat /\ k <= want /\ (k > 0 => from + k <= Len(file))
              /\ k = 0 => want = 0 \/ Len(file) <= from
         /\ \A k \in WriteCounts(want) : k \in Nat /\ k <= want /\ (k = 0 => want = 0)
BY DEF ReadCounts, WriteCounts, Available, Less

\* The first k addresses of `where` are the next of the call.
Follow(c, where, k) == \A i \in 1 .. k : where[i] = c.moved + i

\* A read at the right place is the one of the moves.
LEMMA ReadIs ==
  ASSUME NEW c, Sizes(c), NEW k \in Nat, c.moved + k <= c.n, NEW where, Follow(c, where, k)
  PROVE  Read(c, where, c.at + c.moved, k) = After(c, k, c.iov, NewMem(c, k), c.ret)
<1> USE CallIs
<1>1. DOMAIN c.mem = 1 .. c.n
  OBVIOUS
<1>2. \A a \in 1 .. c.n :
        (IF \E i \in 1 .. k : where[i] = a
         THEN file[c.at + c.moved + (CHOOSE i \in 1 .. k : where[i] = a)] ELSE c.mem[a])
        = (IF a \in c.moved + 1 .. c.moved + k THEN file[c.at + a] ELSE c.mem[a])
  <2> TAKE a \in 1 .. c.n
  <2>1. CASE a \in c.moved + 1 .. c.moved + k
    <3>0. a \in Nat /\ c.moved \in Nat /\ a > c.moved /\ a <= c.moved + k
      BY <2>1
    <3>1. PICK j \in 1 .. k : a = c.moved + j
      BY ONLY <3>0, k \in Nat, Beyond
    <3>2. \A i \in 1 .. k : where[i] = a <=> i = j
      <4> TAKE i \in 1 .. k
      <4>1. where[i] = c.moved + i
        BY DEF Follow
      <4>2. QED
        BY ONLY <3>0, <3>1, <4>1, k \in Nat, i \in 1 .. k, j \in 1 .. k
    <3>3. (CHOOSE i \in 1 .. k : where[i] = a) = j
      BY <3>2
    <3>4. c.at + c.moved + j = c.at + a
      BY <3>1
    <3>5. \E i \in 1 .. k : where[i] = a
      BY <3>2
    <3>6. QED
      BY <2>1, <3>3, <3>4, <3>5
  <2>2. CASE a \notin c.moved + 1 .. c.moved + k
    <3>1. ~ \E i \in 1 .. k : where[i] = a
      BY <2>2 DEF Follow
    <3>2. QED
      BY <2>2, <3>1
  <2>3. QED
    BY <2>1, <2>2
<1>3. Filled(c.mem, where, c.at + c.moved, k) = NewMem(c, k)
  BY <1>1, <1>2 DEF Filled, NewMem
<1>4. Read(c, where, c.at + c.moved, k)
        = [[c EXCEPT !.moved = c.moved + k, !.far = More(c.far, c.moved + k)]
             EXCEPT !.mem = NewMem(c, k)]
  BY <1>3 DEF Read, Advance
<1>5. c = [op |-> c.op, at |-> c.at, n |-> c.n, iov |-> c.iov, moved |-> c.moved,
           far |-> c.far, signals |-> c.signals, mem |-> c.mem, ret |-> c.ret]
  OBVIOUS
<1>6. QED
  BY ONLY <1>4, <1>5 DEF After

\* A call that advances has its bytes moved.
LEMMA AdvanceIs ==
  ASSUME NEW c, Sizes(c), NEW k
  PROVE  Advance(c, k) = After(c, k, c.iov, c.mem, c.ret)
<1>1. Advance(c, k) = [c EXCEPT !.moved = c.moved + k, !.far = More(c.far, c.moved + k)]
  BY DEF Advance
<1>2. c = [op |-> c.op, at |-> c.at, n |-> c.n, iov |-> c.iov, moved |-> c.moved,
           far |-> c.far, signals |-> c.signals, mem |-> c.mem, ret |-> c.ret]
  BY CallIs
<1>3. QED
  BY ONLY <1>1, <1>2 DEF After

\* What is set on top of a move.
LEMMA AfterIs ==
  ASSUME NEW c, NEW k, NEW v, NEW mem, NEW r, NEW u, NEW s
  PROVE  /\ Return(After(c, k, v, mem, r), s) = After(c, k, v, mem, s)
         /\ [After(c, k, v, mem, r) EXCEPT !.iov = u] = After(c, k, u, mem, r)
         /\ After(c, k, v, mem, r).moved = c.moved + k
         /\ After(c, k, v, mem, r).iov = v
BY DEF After, Return

\* A write at the right place is the one of the moves.
LEMMA WrittenIs ==
  ASSUME NEW c, Sizes(c), file \in Seq(Content), NEW k \in Nat, c.moved + k <= c.n, NEW where,
         Follow(c, where, k)
  PROVE  Written(c.mem, where, c.at + c.moved, k) = NewFile(c, k)
<1>0. c.at \in Nat /\ c.moved \in Nat
  BY CallIs
<1>1. \A i \in c.at + c.moved + 1 .. c.at + c.moved + k :
        c.mem[where[i - (c.at + c.moved)]] = c.mem[i - c.at]
  <2> TAKE i \in c.at + c.moved + 1 .. c.at + c.moved + k
  <2>0. PICK b \in Nat : b = c.at + c.moved
    BY <1>0
  <2>3. i \in Nat /\ i > b /\ i <= b + k
    BY <1>0, <2>0
  <2>4. PICK j \in 1 .. k : i = b + j
    BY ONLY <2>0, <2>3, k \in Nat, Beyond
  <2>1. i = c.at + c.moved + j
    BY <2>0, <2>4
  <2>2. i - (c.at + c.moved) = j /\ i - c.at = c.moved + j
    <3>1. j \in Nat
      OBVIOUS
    <3>2. QED
      BY ONLY <1>0, <2>1, <3>1
  <2>5. where[j] = c.moved + j
    BY DEF Follow
  <2>6. QED
    BY <2>2, <2>5
<1>2. QED
  BY <1>1 DEF Written, NewFile

\* A request answered: the call with k bytes more is one of the moves.
LEMMA ReadAnswered ==
  ASSUME NEW w \in Clients, Pending(w), NEW c, c = call[w], c.op \notin Writing,
         NEW k \in Nat, c.moved + k <= c.n, k > 0 => c.at + c.moved + k <= Len(file),
         NEW v \in Seq(Buffers), NEW r \in Results, Judged(c, c.moved + k, v, r),
         call' = [call EXCEPT ![w] = After(c, k, v, NewMem(c, k), r)],
         PosAfter(c, k), UNCHANGED <<os, file, begun>>
  PROVE  Move(w)
<1>1. Moves(w, k, v, NewMem(c, k), r)
  BY DEF Moves
<1>2. Reads(w, k, v, r)
  BY <1>1 DEF Reads
<1>3. QED
  BY <1>2 DEF Move

\* A write answered is one of the moves.
LEMMA WriteAnswered ==
  ASSUME NEW w \in Clients, Pending(w), NEW c, c = call[w], c.op \in Writing,
         NEW k \in Nat, c.moved + k <= c.n,
         NEW v \in Seq(Buffers), NEW r \in Results, Judged(c, c.moved + k, v, r),
         call' = [call EXCEPT ![w] = After(c, k, v, c.mem, r)],
         PosAfter(c, k),
         file' = NewFile(c, k), UNCHANGED <<os, begun>>
  PROVE  Move(w)
<1>1. Moves(w, k, v, c.mem, r)
  BY DEF Moves
<1>2. Writes(w, k, v, r)
  BY <1>1 DEF Writes
<1>3. QED
  BY <1>2 DEF Move

\* The result of a call that ends with m bytes moved.
Ended(c, m, r) ==
  \/ r = Bytes(m)
  \/ c.op \notin Partial /\ r = IF m = c.n THEN Success ELSE Corrupt

\* A read may end with fewer bytes only at the end of the file.
LEMMA ReadEnds ==
  ASSUME NEW c, Sizes(c), c.op \notin Writing, NEW m \in Nat, m <= c.n,
         NEW v \in Seq(Buffers), \A i \in DOMAIN v : v[i].len \in 0 .. c.n,
         NEW r, Ended(c, m, r),
         c.op \in Partial => (m = 0 => Len(file) <= c.at),
         c.op \notin Partial => (m < c.n => Len(file) <= c.at + m)
  PROVE  Judged(c, m, v, r)
<1>1. c.n \in Nat
  BY CallIs
<1>2. CASE r = Bytes(m)
  BY <1>2 DEF Judged
<1>3. CASE c.op \notin Partial /\ r = IF m = c.n THEN Success ELSE Corrupt
  BY <1>1, <1>3 DEF Judged
<1>4. QED
  BY <1>2, <1>3 DEF Ended

\* A write ends with all bytes, or with some when it may.
LEMMA WriteEnds ==
  ASSUME NEW c, Sizes(c), c.op \in Writing, NEW m \in Nat, m > 0, m <= c.n,
         NEW v \in Seq(Buffers), \A i \in DOMAIN v : v[i].len \in 0 .. c.n,
         NEW r, IF c.op \in Partial THEN r = Bytes(m) ELSE m = c.n /\ r = Success
  PROVE  Judged(c, m, v, r)
BY DEF Judged

\* Requests for what is left of the one buffer.
LEMMA StraightIs ==
  ASSUME NEW c, Sizes(c), NEW k \in Nat, c.moved + k <= c.n
  PROVE  Follow(c, Straight(c), k)
<1>1. c.n \in Nat /\ c.moved \in Nat
  BY CallIs
<1>2. \A i \in 1 .. k : i \in 1 .. c.n - c.moved
  BY <1>1
<1>3. QED
  BY <1>2 DEF Follow, Straight

\* A loop over one buffer goes on while bytes are left.
LEMMA StraightGoesOn ==
  ASSUME NEW c, Sizes(c), c.op \notin Vectored, c.op \notin Partial, Ahead(os, c, c.moved, c.iov),
         NEW m \in Nat, m < c.n
  PROVE  Judged(c, m, c.iov, Running)
BY CallIs DEF Judged, Ahead, Single

\* A request of a read into one buffer is one of the moves.
LEMMA StraightReads ==
  ASSUME IInv, NEW w \in Clients, Pending(w), NEW c, c = call[w],
         c.op \notin Writing, c.op \notin Vectored,
         NEW want \in Nat, want > 0, c.moved + want <= c.n,
         NEW k \in ReadCounts(c.at + c.moved, want), NEW r \in Results,
         IF c.op \in Partial \/ k = 0 \/ c.moved + k = c.n
           THEN Ended(c, c.moved + k, r) ELSE r = Running,
         call' = [call EXCEPT ![w] = Return(Read(c, Straight(c), c.at + c.moved, k), r)],
         PosAfter(c, k), UNCHANGED <<os, file, begun>>
  PROVE  Move(w)
<1>1. Sizes(c) /\ c.ret = Running /\ c.moved <= c.n /\ Ahead(os, c, c.moved, c.iov)
      /\ file \in Seq(Content)
  BY PendingIs
<1>2. c.at \in Nat /\ c.n \in Nat /\ c.moved \in Nat /\ c.iov \in Seq(Buffers)
  BY <1>1, CallIs
<1>3. \A i \in DOMAIN c.iov : c.iov[i].len \in 0 .. c.n
  BY <1>1, CallIs
<1>4. k \in Nat /\ k <= want /\ (k > 0 => c.at + c.moved + k <= Len(file))
      /\ (k = 0 => Len(file) <= c.at + c.moved)
  <2>1. PICK from \in Nat : from = c.at + c.moved
    BY <1>2
  <2>2. k \in ReadCounts(from, want)
    BY <2>1
  <2>3. k \in Nat /\ k <= want /\ (k > 0 => from + k <= Len(file))
        /\ (k = 0 => want = 0 \/ Len(file) <= from)
    BY ONLY <1>1, <2>2, from \in Nat, want \in Nat, CountsAre
  <2>4. QED
    BY <2>1, <2>3
<1>5. PICK m \in Nat : m = c.moved + k
  BY <1>2, <1>4
<1>6. m <= c.n
  BY ONLY <1>2, <1>4, <1>5, m \in Nat, want \in Nat, c.moved + want <= c.n
<1>7. Judged(c, m, c.iov, r)
  <2>1. CASE c.op \in Partial
    <3>1. c.moved = 0
      BY <1>1, <2>1 DEF Ahead, Single
    <3>2. m = 0 => Len(file) <= c.at
      BY <1>2, <1>4, <1>5, <3>1
    <3>3. Ended(c, m, r)
      BY <1>5, <2>1
    <3>4. QED
      BY <1>1, <1>2, <1>3, <1>6, <2>1, <3>2, <3>3, ReadEnds
  <2>2. CASE c.op \notin Partial /\ (k = 0 \/ m = c.n)
    <3>1. m < c.n => Len(file) <= c.at + m
      BY <1>2, <1>4, <1>5, <2>2
    <3>2. Ended(c, m, r)
      BY <1>5, <2>2
    <3>3. QED
      BY <1>1, <1>2, <1>3, <1>6, <2>2, <3>1, <3>2, ReadEnds
  <2>3. CASE c.op \notin Partial /\ k # 0 /\ m # c.n
    <3>1. m < c.n
      BY ONLY <1>2, <1>6, <2>3, m \in Nat
    <3>2. r = Running
      BY <1>5, <2>3
    <3>3. QED
      BY <1>1, <2>3, <3>1, <3>2, StraightGoesOn
  <2>4. QED
    BY <2>1, <2>2, <2>3
<1>8. Read(c, Straight(c), c.at + c.moved, k) = After(c, k, c.iov, NewMem(c, k), c.ret)
  BY <1>1, <1>4, <1>5, <1>6, StraightIs, ReadIs
<1>9. call' = [call EXCEPT ![w] = After(c, k, c.iov, NewMem(c, k), r)]
  <2>1. Return(After(c, k, c.iov, NewMem(c, k), c.ret), r) = After(c, k, c.iov, NewMem(c, k), r)
    BY ONLY AfterIs
  <2>2. QED
    BY <1>8, <2>1
<1>10. QED
  BY <1>2, <1>4, <1>5, <1>6, <1>7, <1>9, ReadAnswered

\* A request of a write from one buffer is one of the moves.
LEMMA StraightWrites ==
  ASSUME IInv, NEW w \in Clients, Pending(w), NEW c, c = call[w],
         c.op \in Writing, c.op \notin Vectored,
         NEW want \in Nat, want > 0, c.moved + want <= c.n,
         NEW k \in WriteCounts(want), NEW r \in Results,
         IF c.op \in Partial THEN r = Bytes(k)
         ELSE r = IF c.moved + k = c.n THEN Success ELSE Running,
         call' = [call EXCEPT ![w] = Return(Advance(c, k), r)],
         PosAfter(c, k),
         file' = Written(c.mem, Straight(c), c.at + c.moved, k),
         UNCHANGED <<os, begun>>
  PROVE  Move(w)
<1>1. Sizes(c) /\ c.ret = Running /\ c.moved <= c.n /\ Ahead(os, c, c.moved, c.iov)
      /\ file \in Seq(Content)
  BY PendingIs
<1>2. c.at \in Nat /\ c.n \in Nat /\ c.moved \in Nat /\ c.iov \in Seq(Buffers)
  BY <1>1, CallIs
<1>3. \A i \in DOMAIN c.iov : c.iov[i].len \in 0 .. c.n
  BY <1>1, CallIs
<1>4. k \in Nat /\ k <= want /\ k > 0
  BY DEF WriteCounts
<1>5. PICK m \in Nat : m = c.moved + k
  BY <1>2, <1>4
<1>6. m <= c.n /\ m > 0
  BY ONLY <1>2, <1>4, <1>5, m \in Nat, want \in Nat, c.moved + want <= c.n
<1>7. Judged(c, m, c.iov, r)
  <2>1. CASE c.op \in Partial
    <3>1. c.moved = 0
      BY <1>1, <2>1 DEF Ahead, Single
    <3>2. r = Bytes(m)
      BY <1>4, <1>5, <2>1, <3>1
    <3>3. QED
      BY <1>1, <1>2, <1>3, <1>6, <2>1, <3>2, WriteEnds
  <2>2. CASE c.op \notin Partial /\ m = c.n
    BY <1>1, <1>2, <1>3, <1>5, <1>6, <2>2, WriteEnds
  <2>3. CASE c.op \notin Partial /\ m # c.n
    <3>1. m < c.n
      BY ONLY <1>2, <1>6, <2>3, m \in Nat
    <3>2. r = Running
      BY <1>5, <2>3
    <3>3. QED
      BY <1>1, <2>3, <3>1, <3>2, StraightGoesOn
  <2>4. QED
    BY <2>1, <2>2, <2>3
<1>8. Advance(c, k) = After(c, k, c.iov, c.mem, c.ret)
  BY <1>1, AdvanceIs
<1>9. call' = [call EXCEPT ![w] = After(c, k, c.iov, c.mem, r)]
  <2>1. Return(After(c, k, c.iov, c.mem, c.ret), r) = After(c, k, c.iov, c.mem, r)
    BY ONLY AfterIs
  <2>2. QED
    BY <1>8, <2>1
<1>10. file' = NewFile(c, k)
  BY <1>1, <1>4, <1>5, <1>6, StraightIs, WrittenIs
<1>11. QED
  BY <1>2, <1>4, <1>5, <1>6, <1>7, <1>9, <1>10, WriteAnswered

-----------------------------------------------------------------------------
(* The backends use what OsFile defines.                                    *)

\* The operators that PosixFile takes from OsFile.
LEMMA PosixUses ==
  /\ \A w, op : P!In(w, op) <=> Pending(w) /\ call[w].op = op
  /\ \A w : P!Fail(w) <=> Leave(w, Return(call[w], Failed))
  /\ \A w, c : P!Leave(w, c) <=> Leave(w, c)
  /\ \A w, c, where, from, k : P!PWrite(w, c, where, from, k) <=>
       Set(w, c) /\ file' = Written(call[w].mem, where, from, k) /\ UNCHANGED pos
  /\ \A w, c, k : P!ReadOn(w, c, k) <=> ReadOn(w, c, k)
  /\ \A w, c, where, k : P!WriteOn(w, c, where, k) <=> WriteOn(w, c, where, k)
  /\ \A c, r : P!Return(c, r) = Return(c, r)
  /\ \A c, k : P!Advance(c, k) = Advance(c, k)
  /\ \A c : P!Straight(c) = Straight(c)
  /\ \A from, want : P!ReadCounts(from, want) = ReadCounts(from, want)
  /\ \A want : P!WriteCounts(want) = WriteCounts(want)
  /\ \A c, where, from, k : P!Read(c, where, from, k) = Read(c, where, from, k)
  /\ \A k : P!Bytes(k) = Bytes(k)
  /\ P!Success = Success /\ P!Corrupt = Corrupt
<1>1. \A w, op : P!In(w, op) <=> Pending(w) /\ call[w].op = op
  BY DEF P!In, P!Pending, P!InCall, P!Running, Pending, InCall, Running
<1>2. \A c, r : P!Return(c, r) = Return(c, r)
  BY DEF P!Return, Return
<1>3. \A c, k : P!Advance(c, k) = Advance(c, k)
  BY DEF P!Advance, Advance, P!More, More
<1>4. \A mem, where, from, k : P!Written(mem, where, from, k) = Written(mem, where, from, k)
  BY DEF P!Written, Written, P!More, More
<1>5. \A mem, where, from, k : P!Filled(mem, where, from, k) = Filled(mem, where, from, k)
  BY DEF P!Filled, Filled
<1>6. \A c, where, from, k : P!Read(c, where, from, k) = Read(c, where, from, k)
  BY <1>3, <1>5 DEF P!Read, Read
<1>7. \A from, want : P!ReadCounts(from, want) = ReadCounts(from, want)
  BY DEF P!ReadCounts, P!Available, P!Less, ReadCounts, Available, Less
<1>8. (\A w, c : P!Leave(w, c) <=> Leave(w, c)) /\ (\A w, c, k : P!ReadOn(w, c, k) <=> ReadOn(w, c, k))
  BY DEF P!Leave, P!Set, P!ReadOn, Leave, Set, ReadOn
<1>9. \A w, c, where, from, k : P!PWrite(w, c, where, from, k) <=>
        Set(w, c) /\ file' = Written(call[w].mem, where, from, k) /\ UNCHANGED pos
  BY <1>4 DEF P!PWrite, P!Set, Set
<1>10. \A w, c, where, k : P!WriteOn(w, c, where, k) <=> WriteOn(w, c, where, k)
  BY <1>4 DEF P!WriteOn, P!Set, WriteOn, Set
<1>11. \A w : P!Fail(w) <=> Leave(w, Return(call[w], Failed))
  BY <1>2, <1>8 DEF P!Fail, P!Failed, Failed
<1>12. \A c : P!Straight(c) = Straight(c)
  BY DEF P!Straight, Straight
<1>13. \A want : P!WriteCounts(want) = WriteCounts(want)
  BY DEF P!WriteCounts, WriteCounts
<1>14. (\A k : P!Bytes(k) = Bytes(k)) /\ P!Success = Success /\ P!Corrupt = Corrupt
  BY DEF P!Bytes, Bytes, P!Success, Success, P!Corrupt, Corrupt
<1>15. QED
  BY <1>1, <1>2, <1>3, <1>6, <1>7, <1>8, <1>9, <1>10, <1>11, <1>12, <1>13, <1>14

\* The operators that WindowsFile takes from OsFile.
LEMMA WindowsUses ==
  /\ \A w, op : W!In(w, op) <=> Pending(w) /\ call[w].op = op
  /\ \A w : W!Fail(w) <=> Leave(w, Return(call[w], Failed))
  /\ \A w, c : W!Leave(w, c) <=> Leave(w, c)
  /\ \A w, c, where, from, k : W!PWrite(w, c, where, from, k) <=>
       Set(w, c) /\ W!Behind(from, k) /\ file' = Written(call[w].mem, where, from, k)
  /\ \A w, c, from, k : W!PRead(w, c, from, k) <=>
       Set(w, c) /\ W!Behind(from, k) /\ UNCHANGED file
  /\ \A w, from : W!PFail(w, from) <=>
       Set(w, Return(call[w], Failed)) /\ W!Behind(from, 0) /\ UNCHANGED file
  /\ \A w, c, k : W!ReadOn(w, c, k) <=> ReadOn(w, c, k)
  /\ \A w, c, where, k : W!WriteOn(w, c, where, k) <=> WriteOn(w, c, where, k)
  /\ \A c, r : W!Return(c, r) = Return(c, r)
  /\ \A c, k : W!Advance(c, k) = Advance(c, k)
  /\ \A c : W!Straight(c) = Straight(c)
  /\ \A from, want : W!ReadCounts(from, want) = ReadCounts(from, want)
  /\ \A want : W!WriteCounts(want) = WriteCounts(want)
  /\ \A c, where, from, k : W!Read(c, where, from, k) = Read(c, where, from, k)
  /\ \A k : W!Bytes(k) = Bytes(k)
  /\ W!Success = Success /\ W!Corrupt = Corrupt
<1>1. \A w, op : W!In(w, op) <=> Pending(w) /\ call[w].op = op
  BY DEF W!In, W!Pending, W!InCall, W!Running, Pending, InCall, Running
<1>2. \A c, r : W!Return(c, r) = Return(c, r)
  BY DEF W!Return, Return
<1>3. \A c, k : W!Advance(c, k) = Advance(c, k)
  BY DEF W!Advance, Advance, W!More, More
<1>4. \A mem, where, from, k : W!Written(mem, where, from, k) = Written(mem, where, from, k)
  BY DEF W!Written, Written, W!More, More
<1>5. \A mem, where, from, k : W!Filled(mem, where, from, k) = Filled(mem, where, from, k)
  BY DEF W!Filled, Filled
<1>6. \A c, where, from, k : W!Read(c, where, from, k) = Read(c, where, from, k)
  BY <1>3, <1>5 DEF W!Read, Read
<1>7. \A from, want : W!ReadCounts(from, want) = ReadCounts(from, want)
  BY DEF W!ReadCounts, W!Available, W!Less, ReadCounts, Available, Less
<1>8. (\A w, c : W!Leave(w, c) <=> Leave(w, c)) /\ (\A w, c, k : W!ReadOn(w, c, k) <=> ReadOn(w, c, k))
  BY DEF W!Leave, W!Set, W!ReadOn, Leave, Set, ReadOn
<1>9. \A w, c, where, from, k : W!PWrite(w, c, where, from, k) <=>
        Set(w, c) /\ W!Behind(from, k) /\ file' = Written(call[w].mem, where, from, k)
  BY <1>4 DEF W!PWrite, W!Set, Set
<1>p. \A w, c, from, k : W!PRead(w, c, from, k) <=>
        Set(w, c) /\ W!Behind(from, k) /\ UNCHANGED file
  BY DEF W!PRead, W!Set, Set
<1>f. \A w, from : W!PFail(w, from) <=>
        Set(w, Return(call[w], Failed)) /\ W!Behind(from, 0) /\ UNCHANGED file
  BY <1>2, <1>p DEF W!PFail, W!Failed, Failed
<1>10. \A w, c, where, k : W!WriteOn(w, c, where, k) <=> WriteOn(w, c, where, k)
  BY <1>4 DEF W!WriteOn, W!Set, WriteOn, Set
<1>11. \A w : W!Fail(w) <=> Leave(w, Return(call[w], Failed))
  BY <1>2, <1>8 DEF W!Fail, W!Failed, Failed
<1>12. \A c : W!Straight(c) = Straight(c)
  BY DEF W!Straight, Straight
<1>13. \A want : W!WriteCounts(want) = WriteCounts(want)
  BY DEF W!WriteCounts, WriteCounts
<1>14. (\A k : W!Bytes(k) = Bytes(k)) /\ W!Success = Success /\ W!Corrupt = Corrupt
  BY DEF W!Bytes, Bytes, W!Success, Success, W!Corrupt, Corrupt
<1>15. QED
  BY <1>1, <1>2, <1>3, <1>6, <1>7, <1>8, <1>9, <1>10, <1>11, <1>12, <1>13, <1>14,
     <1>p, <1>f

\* A failed request is the move of an error.
LEMMA FailedIs ==
  ASSUME IInv, NEW w \in Clients, Pending(w), Leave(w, Return(call[w], Failed)),
         UNCHANGED <<os, begun>>
  PROVE  Move(w)
<1>1. PosAfter(call[w], 0)
  BY DEF Leave, PosAfter, IInv, Types
<1>2. Fails(w)
  BY <1>1 DEF Fails, Leave, Set, Return
<1>3. QED
  BY <1>2 DEF Move

\* On Windows a positional request leaves the position behind its bytes.
LEMMA BehindIs ==
  ASSUME os = "windows", NEW c, Sizes(c), c.op \notin Streamed, NEW k \in Nat,
         W!Behind(c.at + c.moved, k)
  PROVE  PosAfter(c, k)
<1>1. c.at \in Nat /\ c.moved \in Nat
  BY CallIs
<1>2. QED
  BY <1>1 DEF W!Behind, PosAfter

\* The same of a positional request that fails.
LEMMA BehindFailedIs ==
  ASSUME os = "windows", NEW w \in Clients, Pending(w), Sizes(call[w]),
         call[w].op \notin Streamed, W!PFail(w, call[w].at + call[w].moved),
         UNCHANGED <<os, begun>>
  PROVE  Move(w)
<1>1. Set(w, Return(call[w], Failed)) /\ UNCHANGED file
      /\ W!Behind(call[w].at + call[w].moved, 0)
  BY WindowsUses
<1>2. PosAfter(call[w], 0)
  BY <1>1, BehindIs
<1>3. Fails(w)
  BY <1>1, <1>2 DEF Fails, Set, Return
<1>4. QED
  BY <1>3 DEF Move

\* Which calls are which.
LEMMA Sorts ==
  ASSUME NEW op
  PROVE  /\ op \in PositionalReads => op \notin Writing /\ op \notin Vectored /\ op \notin Streamed
         /\ op \in PositionalWrites => op \in Writing /\ op \notin Vectored /\ op \notin Streamed
         /\ op \in StreamReads => op \notin Writing /\ op \notin Vectored /\ op \in Streamed
         /\ op \in StreamWrites => op \in Writing /\ op \notin Vectored /\ op \in Streamed
         /\ op \in VectorReads => op \notin Writing /\ op \in Vectored /\ op \in Streamed
         /\ op \in VectorWrites => op \in Writing /\ op \in Vectored /\ op \in Streamed
         /\ op \in Partial <=> op \in {"pread_some", "pwrite_some", "read_some", "write_some",
                                       "readv_some", "writev_some"}
BY DEF PositionalReads, PositionalWrites, StreamReads, StreamWrites, VectorReads, VectorWrites,
       Positional, Streamed, Writing, Vectored, Partial

\* Where the next byte of a call is.
From(c) == IF c.op \in Streamed THEN pos ELSE c.at + c.moved

\* The next byte is where the invariant says.
LEMMA FromIs ==
  ASSUME IInv, NEW w \in Clients, Pending(w), NEW c, c = call[w]
  PROVE  From(c) = c.at + c.moved
BY PendingIs DEF From

\* i_pread_some and i_read_some: one request.
LEMMA ReadsSome ==
  ASSUME IInv, NEW w \in Clients, Pending(w), NEW c, c = call[w],
         c.op \in {"pread_some", "read_some"}, NEW want \in Nat, want > 0, want <= c.n,
         NEW k \in ReadCounts(From(c), want),
         call' = [call EXCEPT ![w] = Return(Read(c, Straight(c), From(c), k), Bytes(k))],
         PosAfter(c, k), UNCHANGED <<os, file, begun>>
  PROVE  Move(w)
<1>1. c.op \in Partial /\ c.op \notin Writing /\ c.op \notin Vectored
  BY Sorts DEF PositionalReads, StreamReads
<1>2. Sizes(c) /\ Ahead(os, c, c.moved, c.iov) /\ From(c) = c.at + c.moved
  BY PendingIs, FromIs
<1>3. c.moved = 0 /\ c.n \in Nat
  BY <1>1, <1>2, CallIs DEF Ahead, Single
<1>4. k \in Nat
  BY <1>3 DEF ReadCounts, Less, Available
<1>5. c.moved + k = k /\ c.moved + want = want
  BY <1>3, <1>4
<1>6. Ended(c, c.moved + k, Bytes(k)) /\ Bytes(k) \in Results
  BY <1>4, <1>5, ResultTypes DEF Ended
<1>7. call' = [call EXCEPT ![w] = Return(Read(c, Straight(c), c.at + c.moved, k), Bytes(k))]
  BY <1>2
<1>8. k \in ReadCounts(c.at + c.moved, want) /\ c.moved + want <= c.n
  BY <1>2, <1>5
<1>9. IF c.op \in Partial \/ k = 0 \/ c.moved + k = c.n
        THEN Ended(c, c.moved + k, Bytes(k)) ELSE Bytes(k) = Running
  BY <1>1, <1>6
<1>10. PICK r \in Results : r = Bytes(k)
  BY <1>6
<1>11. QED
  BY ONLY IInv, w \in Clients, Pending(w), c = call[w], want \in Nat, want > 0, r \in Results,
          PosAfter(c, k), UNCHANGED <<os, file, begun>>,
          <1>1, <1>7, <1>8, <1>9, <1>10, StraightReads

\* What a call that was asked for all of its bytes makes of their number.
Expect(c, m) ==
  IF c.op \notin {"pread_all_expect", "read_all_expect"} THEN Bytes(m)
  ELSE IF m = c.n THEN Success ELSE Corrupt

\* i_pread_all, i_read_all and their _expect: until all or the end.
LEMMA ReadsAll ==
  ASSUME IInv, NEW w \in Clients, Pending(w), NEW c, c = call[w],
         c.op \in {"pread_all", "pread_all_expect", "read_all", "read_all_expect"},
         NEW want \in Nat, want > 0, c.moved + want <= c.n,
         NEW k \in ReadCounts(From(c), want), NEW d, d = Read(c, Straight(c), From(c), k),
         call' = [call EXCEPT ![w] = IF k = 0 \/ d.moved = c.n
                                     THEN Return(d, Expect(c, d.moved)) ELSE d],
         PosAfter(c, k), UNCHANGED <<os, file, begun>>
  PROVE  Move(w)
<1>1. c.op \notin Partial /\ c.op \notin Writing /\ c.op \notin Vectored
  BY Sorts DEF PositionalReads, StreamReads
<1>2. Sizes(c) /\ From(c) = c.at + c.moved /\ c.ret = Running
  BY PendingIs, FromIs
<1>3. c.moved \in Nat /\ c.n \in Nat
  BY <1>2, CallIs
<1>4. k \in Nat
  BY DEF ReadCounts, Less, Available
<1>5. c.moved + k \in Nat
  BY <1>3, <1>4
<1>6. d.moved = c.moved + k /\ d.ret = Running /\ Return(d, Running) = d
  <2>1. d.ret = c.ret /\ d.moved = c.moved + k
    BY <1>2, CallIs DEF Read, Advance
  <2>2. Return(d, d.ret) = d
    BY <1>2, CallIs DEF Read, Advance, Return
  <2>3. QED
    BY <1>2, <2>1, <2>2
<1>7. PICK r \in Results :
        r = IF k = 0 \/ c.moved + k = c.n THEN Expect(c, c.moved + k) ELSE Running
  BY <1>5, ResultTypes DEF Expect
<1>8. call' = [call EXCEPT ![w] = Return(Read(c, Straight(c), c.at + c.moved, k), r)]
  <2>1. CASE k = 0 \/ c.moved + k = c.n
    BY <1>2, <1>6, <1>7, <2>1
  <2>2. CASE ~(k = 0 \/ c.moved + k = c.n)
    BY <1>2, <1>6, <1>7, <2>2
  <2>3. QED
    BY <2>1, <2>2
<1>9. IF c.op \in Partial \/ k = 0 \/ c.moved + k = c.n
        THEN Ended(c, c.moved + k, r) ELSE r = Running
  BY <1>1, <1>7 DEF Ended, Expect
<1>10. k \in ReadCounts(c.at + c.moved, want)
  BY <1>2
<1>11. QED
  BY ONLY IInv, w \in Clients, Pending(w), c = call[w], want \in Nat, want > 0, r \in Results,
          c.moved + want <= c.n,
          PosAfter(c, k), UNCHANGED <<os, file, begun>>,
          <1>1, <1>8, <1>9, <1>10, StraightReads

\* i_pwrite_some and i_write_some: one request.
LEMMA WritesSome ==
  ASSUME IInv, NEW w \in Clients, Pending(w), NEW c, c = call[w],
         c.op \in {"pwrite_some", "write_some"}, NEW want \in Nat, want > 0, want <= c.n,
         NEW k \in WriteCounts(want),
         call' = [call EXCEPT ![w] = Return(Advance(c, k), Bytes(k))],
         PosAfter(c, k),
         file' = Written(c.mem, Straight(c), From(c), k),
         UNCHANGED <<os, begun>>
  PROVE  Move(w)
<1>1. c.op \in Partial /\ c.op \in Writing /\ c.op \notin Vectored
  BY Sorts DEF PositionalWrites, StreamWrites
<1>2. Sizes(c) /\ Ahead(os, c, c.moved, c.iov) /\ From(c) = c.at + c.moved
  BY PendingIs, FromIs
<1>3. c.moved = 0 /\ c.n \in Nat
  BY <1>1, <1>2, CallIs DEF Ahead, Single
<1>4. k \in Nat
  BY <1>3 DEF WriteCounts
<1>5. c.moved + want = want
  BY <1>3
<1>6. PICK r \in Results : r = Bytes(k)
  BY <1>4, ResultTypes
<1>7. file' = Written(c.mem, Straight(c), c.at + c.moved, k) /\ c.moved + want <= c.n
  BY <1>2, <1>5
<1>8. IF c.op \in Partial THEN r = Bytes(k) ELSE r = IF c.moved + k = c.n THEN Success ELSE Running
  BY <1>1, <1>6
<1>9. call' = [call EXCEPT ![w] = Return(Advance(c, k), r)]
  BY <1>6
<1>10. QED
  BY ONLY IInv, w \in Clients, Pending(w), c = call[w], want \in Nat, want > 0, r \in Results,
          k \in WriteCounts(want),
          PosAfter(c, k), UNCHANGED <<os, begun>>,
          <1>1, <1>7, <1>8, <1>9, StraightWrites

\* i_pwrite_all and i_write_all: until all is written.
LEMMA WritesAll ==
  ASSUME IInv, NEW w \in Clients, Pending(w), NEW c, c = call[w],
         c.op \in {"pwrite_all", "write_all"}, NEW want \in Nat, want > 0, c.moved + want <= c.n,
         NEW k \in WriteCounts(want), NEW d, d = Advance(c, k),
         call' = [call EXCEPT ![w] = IF d.moved = c.n THEN Return(d, Success) ELSE d],
         PosAfter(c, k),
         file' = Written(c.mem, Straight(c), From(c), k),
         UNCHANGED <<os, begun>>
  PROVE  Move(w)
<1>1. c.op \notin Partial /\ c.op \in Writing /\ c.op \notin Vectored
  BY Sorts DEF PositionalWrites, StreamWrites
<1>2. Sizes(c) /\ From(c) = c.at + c.moved /\ c.ret = Running
  BY PendingIs, FromIs
<1>3. d.moved = c.moved + k /\ d.ret = Running /\ Return(d, Running) = d
  <2>1. d.ret = c.ret /\ d.moved = c.moved + k
    BY <1>2, CallIs DEF Advance
  <2>2. Return(d, d.ret) = d
    BY <1>2, CallIs DEF Advance, Return
  <2>3. QED
    BY <1>2, <2>1, <2>2
<1>4. PICK r \in Results : r = IF c.moved + k = c.n THEN Success ELSE Running
  BY ResultTypes
<1>5. call' = [call EXCEPT ![w] = Return(Advance(c, k), r)]
  <2>1. CASE c.moved + k = c.n
    BY <1>3, <1>4, <2>1
  <2>2. CASE c.moved + k # c.n
    BY <1>3, <1>4, <2>2
  <2>3. QED
    BY <2>1, <2>2
<1>6. file' = Written(c.mem, Straight(c), c.at + c.moved, k)
  BY <1>2
<1>7. IF c.op \in Partial THEN r = Bytes(k) ELSE r = IF c.moved + k = c.n THEN Success ELSE Running
  BY <1>1, <1>4
<1>8. QED
  BY ONLY IInv, w \in Clients, Pending(w), c = call[w], want \in Nat, want > 0, r \in Results,
          k \in WriteCounts(want), c.moved + want <= c.n,
          PosAfter(c, k), UNCHANGED <<os, begun>>,
          <1>1, <1>5, <1>6, <1>7, StraightWrites

\* What is left of a call that is asked for all of its bytes.
LEMMA LeftIs ==
  ASSUME IInv, NEW w \in Clients, Pending(w), NEW c, c = call[w], c.op \notin Partial
  PROVE  c.n - c.moved \in Nat /\ c.n - c.moved > 0 /\ c.moved + (c.n - c.moved) <= c.n
<1>1. c.moved < c.n /\ c.moved \in Nat /\ c.n \in Nat
  BY PendingIs, CallIs DEF Ahead
<1>2. QED
  BY <1>1

\* A remainder is less than the divisor and no more than the number.
LEMMA ModIs ==
  ASSUME NEW n \in Nat, NEW d \in Nat \ {0}
  PROVE  n % d \in Nat /\ n % d < d /\ n % d <= n
OBVIOUS

\* A Windows request asks for some bytes, and not for too many.
LEMMA WantIs ==
  ASSUME NEW left \in Nat, left > 0
  PROVE  W!Want(left) \in Nat /\ W!Want(left) > 0 /\ W!Want(left) <= left
BY OsFileAssumption DEF W!Want, W!Less

\* The same of what a call has left.
LEMMA WantLeftIs ==
  ASSUME IInv, NEW w \in Clients, Pending(w), NEW c, c = call[w], c.op \notin Partial
  PROVE  /\ W!Want(c.n - c.moved) \in Nat /\ W!Want(c.n - c.moved) > 0
         /\ c.moved + W!Want(c.n - c.moved) <= c.n
<1>1. PICK left \in Nat : left = c.n - c.moved
  BY LeftIs
<1>2. left > 0 /\ c.moved + left <= c.n /\ c.moved \in Nat /\ c.n \in Nat
  BY <1>1, LeftIs, PendingIs, CallIs
<1>3. PICK want \in Nat : want = W!Want(left) /\ want > 0 /\ want <= left
  BY <1>2, WantIs
<1>4. c.moved + want <= c.n
  BY ONLY <1>2, <1>3, left \in Nat, want \in Nat
<1>5. QED
  BY <1>1, <1>3, <1>4

\* The _expect wrappers of os_posix/file.c.
LEMMA PosixExpects ==
  /\ \A c, m : c.op \in {"pread_all", "pread_all_expect"} =>
       P!PreadAllExpect(c, P!Bytes(m)) = Expect(c, m)
  /\ \A c, m : c.op \in {"read_all", "read_all_expect"} =>
       P!ReadAllExpect(c, P!Bytes(m)) = Expect(c, m)
BY DEF P!PreadAllExpect, P!ReadAllExpect, P!Bytes, P!Success, P!Corrupt, Expect, Bytes,
   Success, Corrupt

\* The _expect wrappers of os_windows/file.c.
LEMMA WindowsExpects ==
  /\ \A c, m : c.op \in {"pread_all", "pread_all_expect"} =>
       W!PreadAllExpect(c, W!Bytes(m)) = Expect(c, m)
  /\ \A c, m : c.op \in {"read_all", "read_all_expect"} =>
       W!ReadAllExpect(c, W!Bytes(m)) = Expect(c, m)
BY DEF W!PreadAllExpect, W!ReadAllExpect, W!Bytes, W!Success, W!Corrupt, Expect, Bytes,
   Success, Corrupt

\* The reads into one buffer of os_posix/file.c.
LEMMA PosixStraightReads ==
  ASSUME IInv, NEW w \in Clients, UNCHANGED <<os, begun>>,
         P!PreadSome(w) \/ P!ReadSome(w) \/ P!PreadAll(w) \/ P!ReadAll(w)
  PROVE  Move(w)
<1> PICK c : c = call[w]
  OBVIOUS
<1>1. Pending(w)
  BY PosixUses DEF P!PreadSome, P!ReadSome, P!PreadAll, P!ReadAll
<1>2. CASE P!Fail(w)
  BY <1>1, <1>2, PosixUses, FailedIs
<1>3. Sizes(c) /\ c.n \in Nat /\ c.n > 0 /\ c.at \in Nat /\ From(c) = c.at + c.moved
      /\ pos \in Nat /\ Ahead(os, c, c.moved, c.iov)
  BY <1>1, PendingIs, CallIs, FromIs
<1>4. CASE P!PreadSome(w) /\ ~P!Fail(w)
  <2>1. c.op = "pread_some" /\ c.op \in Partial /\ c.op \notin Streamed
        /\ c.op \notin Vectored
    BY <1>4, PosixUses, Sorts DEF P!PreadSome, PositionalReads
  <2>2. From(c) = c.at
    BY <1>3, <2>1 DEF From, Ahead, Single
  <2>3. PICK want \in Nat : want = c.n /\ want > 0
                           /\ want <= c.n
    BY <1>3
  <2>4. PICK k \in P!ReadCounts(c.at, c.n) :
          P!Leave(w, P!Return(P!Read(c, P!Straight(c), c.at, k), P!Bytes(k)))
    BY <1>4 DEF P!PreadSome
  <2>5. k \in ReadCounts(c.at, want)
    BY <2>3, <2>4, PosixUses
  <2>6. PICK d : d = Read(c, Straight(c), c.at, k)
    OBVIOUS
  <2>7. Leave(w, Return(d, Bytes(k)))
    BY <2>1, <2>4, <2>6, PosixUses
  <2>8. call' = [call EXCEPT ![w] = Return(Read(c, Straight(c), From(c), k), Bytes(k))]
        /\ PosAfter(c, k)
        /\ file' = file /\ UNCHANGED <<os, begun>>
    BY <2>1, <2>2, <2>6, <2>7 DEF Leave, Set, PosAfter
  <2>9. k \in ReadCounts(From(c), want) /\ d = Read(c, Straight(c), From(c), k)
    BY <2>2, <2>5, <2>6
  <2>10. QED
    BY ONLY IInv, w \in Clients, c = call[w], want \in Nat, <1>1, <2>1, <2>3, <2>8, <2>9,
       ReadsSome
<1>5. CASE P!ReadSome(w) /\ ~P!Fail(w)
  <2>1. c.op = "read_some" /\ c.op \in Partial /\ c.op \in Streamed
        /\ c.op \notin Vectored
    BY <1>5, PosixUses, Sorts DEF P!ReadSome, StreamReads
  <2>2. From(c) = pos
    BY <1>3, <2>1 DEF From, Ahead, Single
  <2>3. PICK want \in Nat : want = c.n /\ want > 0
                           /\ want <= c.n
    BY <1>3
  <2>4. PICK k \in P!ReadCounts(pos, c.n) :
          P!ReadOn(w, P!Return(P!Read(c, P!Straight(c), pos, k), P!Bytes(k)), k)
    BY <1>5 DEF P!ReadSome
  <2>5. k \in ReadCounts(pos, want)
    BY <2>3, <2>4, PosixUses
  <2>6. PICK d : d = Read(c, Straight(c), pos, k)
    OBVIOUS
  <2>7. ReadOn(w, Return(d, Bytes(k)), k)
    BY <2>1, <2>4, <2>6, PosixUses
  <2>8. call' = [call EXCEPT ![w] = Return(Read(c, Straight(c), From(c), k), Bytes(k))]
        /\ PosAfter(c, k)
        /\ file' = file /\ UNCHANGED <<os, begun>>
    BY <2>1, <2>2, <2>6, <2>7 DEF ReadOn, Set, PosAfter
  <2>9. k \in ReadCounts(From(c), want) /\ d = Read(c, Straight(c), From(c), k)
    BY <2>2, <2>5, <2>6
  <2>10. QED
    BY ONLY IInv, w \in Clients, c = call[w], want \in Nat, <1>1, <2>1, <2>3, <2>8, <2>9,
       ReadsSome
<1>6. CASE P!PreadAll(w) /\ ~P!Fail(w)
  <2>1. c.op \in {"pread_all", "pread_all_expect"} /\ c.op \notin Partial /\ c.op \notin Streamed
        /\ c.op \notin Vectored
    BY <1>6, PosixUses, Sorts DEF P!PreadAll, PositionalReads
  <2>2. From(c) = c.at + c.moved
    BY <1>3, <2>1 DEF From, Ahead, Single
  <2>3. PICK want \in Nat : want = c.n - c.moved /\ want > 0
                           /\ c.moved + want <= c.n
    BY <1>1, <2>1, LeftIs
  <2>4. PICK k \in P!ReadCounts(c.at + c.moved, c.n - c.moved) :
          LET d == P!Read(c, P!Straight(c), c.at + c.moved, k) IN
          P!Leave(w, IF k = 0 \/ d.moved = c.n
                  THEN P!Return(d, P!PreadAllExpect(c, P!Bytes(d.moved))) ELSE d)
    BY <1>6 DEF P!PreadAll
  <2>5. k \in ReadCounts(c.at + c.moved, want)
    BY <2>3, <2>4, PosixUses
  <2>6. PICK d : d = Read(c, Straight(c), c.at + c.moved, k)
    OBVIOUS
  <2>7. Leave(w, IF k = 0 \/ d.moved = c.n THEN Return(d, Expect(c, d.moved)) ELSE d)
    BY <2>1, <2>4, <2>6, PosixUses, PosixExpects
  <2>8. call' = [call EXCEPT ![w] = IF k = 0 \/ d.moved = c.n THEN Return(d, Expect(c, d.moved)) ELSE d]
        /\ PosAfter(c, k)
        /\ file' = file /\ UNCHANGED <<os, begun>>
    BY <2>1, <2>2, <2>6, <2>7 DEF Leave, Set, PosAfter
  <2>9. k \in ReadCounts(From(c), want) /\ d = Read(c, Straight(c), From(c), k)
    BY <2>2, <2>5, <2>6
  <2>10. QED
    BY ONLY IInv, w \in Clients, c = call[w], want \in Nat, <1>1, <2>1, <2>3, <2>8, <2>9,
       ReadsAll
<1>7. CASE P!ReadAll(w) /\ ~P!Fail(w)
  <2>1. c.op \in {"read_all", "read_all_expect"} /\ c.op \notin Partial /\ c.op \in Streamed
        /\ c.op \notin Vectored
    BY <1>7, PosixUses, Sorts DEF P!ReadAll, StreamReads
  <2>2. From(c) = pos
    BY <1>3, <2>1 DEF From, Ahead, Single
  <2>3. PICK want \in Nat : want = c.n - c.moved /\ want > 0
                           /\ c.moved + want <= c.n
    BY <1>1, <2>1, LeftIs
  <2>4. PICK k \in P!ReadCounts(pos, c.n - c.moved) :
          LET d == P!Read(c, P!Straight(c), pos, k) IN
          P!ReadOn(w, IF k = 0 \/ d.moved = c.n
                  THEN P!Return(d, P!ReadAllExpect(c, P!Bytes(d.moved))) ELSE d, k)
    BY <1>7 DEF P!ReadAll
  <2>5. k \in ReadCounts(pos, want)
    BY <2>3, <2>4, PosixUses
  <2>6. PICK d : d = Read(c, Straight(c), pos, k)
    OBVIOUS
  <2>7. ReadOn(w, IF k = 0 \/ d.moved = c.n THEN Return(d, Expect(c, d.moved)) ELSE d, k)
    BY <2>1, <2>4, <2>6, PosixUses, PosixExpects
  <2>8. call' = [call EXCEPT ![w] = IF k = 0 \/ d.moved = c.n THEN Return(d, Expect(c, d.moved)) ELSE d]
        /\ PosAfter(c, k)
        /\ file' = file /\ UNCHANGED <<os, begun>>
    BY <2>1, <2>2, <2>6, <2>7 DEF ReadOn, Set, PosAfter
  <2>9. k \in ReadCounts(From(c), want) /\ d = Read(c, Straight(c), From(c), k)
    BY <2>2, <2>5, <2>6
  <2>10. QED
    BY ONLY IInv, w \in Clients, c = call[w], want \in Nat, <1>1, <2>1, <2>3, <2>8, <2>9,
       ReadsAll
<1>8. QED
  BY <1>2, <1>4, <1>5, <1>6, <1>7

\* The writes from one buffer of os_posix/file.c.
LEMMA PosixStraightWrites ==
  ASSUME IInv, NEW w \in Clients, UNCHANGED <<os, begun>>,
         P!PwriteSome(w) \/ P!WriteSome(w) \/ P!PwriteAll(w) \/ P!WriteAll(w)
  PROVE  Move(w)
<1> PICK c : c = call[w]
  OBVIOUS
<1>1. Pending(w)
  BY PosixUses DEF P!PwriteSome, P!WriteSome, P!PwriteAll, P!WriteAll
<1>2. CASE P!Fail(w)
  BY <1>1, <1>2, PosixUses, FailedIs
<1>3. Sizes(c) /\ c.n \in Nat /\ c.n > 0 /\ c.at \in Nat /\ From(c) = c.at + c.moved
      /\ pos \in Nat /\ Ahead(os, c, c.moved, c.iov)
  BY <1>1, PendingIs, CallIs, FromIs
<1>4. CASE P!PwriteSome(w) /\ ~P!Fail(w)
  <2>1. c.op = "pwrite_some" /\ c.op \in Partial /\ c.op \notin Streamed
        /\ c.op \notin Vectored
    BY <1>4, PosixUses, Sorts DEF P!PwriteSome, PositionalWrites
  <2>2. From(c) = c.at
    BY <1>3, <2>1 DEF From, Ahead, Single
  <2>3. PICK want \in Nat : want = c.n /\ want > 0
                           /\ want <= c.n
    BY <1>3
  <2>4. PICK k \in P!WriteCounts(c.n) :
          P!PWrite(w, P!Return(P!Advance(c, k), P!Bytes(k)), P!Straight(c), c.at, k)
    BY <1>4 DEF P!PwriteSome
  <2>5. k \in WriteCounts(want)
    BY <2>3, <2>4, PosixUses
  <2>6. PICK d : d = Advance(c, k)
    OBVIOUS
  <2>7. /\ Set(w, Return(d, Bytes(k))) /\ UNCHANGED pos
        /\ file' = Written(c.mem, Straight(c), c.at, k)
    BY <2>1, <2>4, <2>6, PosixUses
  <2>8. call' = [call EXCEPT ![w] = Return(Advance(c, k), Bytes(k))]
        /\ PosAfter(c, k)
        /\ file' = Written(c.mem, Straight(c), From(c), k) /\ UNCHANGED <<os, begun>>
    BY <2>1, <2>2, <2>6, <2>7 DEF Set, PosAfter
  <2>9. k \in WriteCounts(want) /\ d = Advance(c, k)
    BY <2>2, <2>5, <2>6
  <2>10. QED
    BY ONLY IInv, w \in Clients, c = call[w], want \in Nat, <1>1, <2>1, <2>3, <2>8, <2>9,
       WritesSome
<1>5. CASE P!WriteSome(w) /\ ~P!Fail(w)
  <2>1. c.op = "write_some" /\ c.op \in Partial /\ c.op \in Streamed
        /\ c.op \notin Vectored
    BY <1>5, PosixUses, Sorts DEF P!WriteSome, StreamWrites
  <2>2. From(c) = pos
    BY <1>3, <2>1 DEF From, Ahead, Single
  <2>3. PICK want \in Nat : want = c.n /\ want > 0
                           /\ want <= c.n
    BY <1>3
  <2>4. PICK k \in P!WriteCounts(c.n) :
          P!WriteOn(w, P!Return(P!Advance(c, k), P!Bytes(k)), P!Straight(c), k)
    BY <1>5 DEF P!WriteSome
  <2>5. k \in WriteCounts(want)
    BY <2>3, <2>4, PosixUses
  <2>6. PICK d : d = Advance(c, k)
    OBVIOUS
  <2>7. WriteOn(w, Return(d, Bytes(k)), Straight(c), k)
    BY <2>1, <2>4, <2>6, PosixUses
  <2>8. call' = [call EXCEPT ![w] = Return(Advance(c, k), Bytes(k))]
        /\ PosAfter(c, k)
        /\ file' = Written(c.mem, Straight(c), From(c), k) /\ UNCHANGED <<os, begun>>
    BY <2>1, <2>2, <2>6, <2>7 DEF WriteOn, Set, PosAfter
  <2>9. k \in WriteCounts(want) /\ d = Advance(c, k)
    BY <2>2, <2>5, <2>6
  <2>10. QED
    BY ONLY IInv, w \in Clients, c = call[w], want \in Nat, <1>1, <2>1, <2>3, <2>8, <2>9,
       WritesSome
<1>6. CASE P!PwriteAll(w) /\ ~P!Fail(w)
  <2>1. c.op = "pwrite_all" /\ c.op \notin Partial /\ c.op \notin Streamed
        /\ c.op \notin Vectored
    BY <1>6, PosixUses, Sorts DEF P!PwriteAll, PositionalWrites
  <2>2. From(c) = c.at + c.moved
    BY <1>3, <2>1 DEF From, Ahead, Single
  <2>3. PICK want \in Nat : want = c.n - c.moved /\ want > 0
                           /\ c.moved + want <= c.n
    BY <1>1, <2>1, LeftIs
  <2>4. PICK k \in P!WriteCounts(c.n - c.moved) :
          LET d == P!Advance(c, k) IN
          P!PWrite(w, IF d.moved = c.n THEN P!Return(d, P!Success) ELSE d, P!Straight(c), c.at + c.moved, k)
    BY <1>6 DEF P!PwriteAll
  <2>5. k \in WriteCounts(want)
    BY <2>3, <2>4, PosixUses
  <2>6. PICK d : d = Advance(c, k)
    OBVIOUS
  <2>7. /\ Set(w, IF d.moved = c.n THEN Return(d, Success) ELSE d) /\ UNCHANGED pos
        /\ file' = Written(c.mem, Straight(c), c.at + c.moved, k)
    BY <2>1, <2>4, <2>6, PosixUses
  <2>8. call' = [call EXCEPT ![w] = IF d.moved = c.n THEN Return(d, Success) ELSE d]
        /\ PosAfter(c, k)
        /\ file' = Written(c.mem, Straight(c), From(c), k) /\ UNCHANGED <<os, begun>>
    BY <2>1, <2>2, <2>6, <2>7 DEF Set, PosAfter
  <2>9. k \in WriteCounts(want) /\ d = Advance(c, k)
    BY <2>2, <2>5, <2>6
  <2>10. QED
    BY ONLY IInv, w \in Clients, c = call[w], want \in Nat, <1>1, <2>1, <2>3, <2>8, <2>9,
       WritesAll
<1>7. CASE P!WriteAll(w) /\ ~P!Fail(w)
  <2>1. c.op = "write_all" /\ c.op \notin Partial /\ c.op \in Streamed
        /\ c.op \notin Vectored
    BY <1>7, PosixUses, Sorts DEF P!WriteAll, StreamWrites
  <2>2. From(c) = pos
    BY <1>3, <2>1 DEF From, Ahead, Single
  <2>3. PICK want \in Nat : want = c.n - c.moved /\ want > 0
                           /\ c.moved + want <= c.n
    BY <1>1, <2>1, LeftIs
  <2>4. PICK k \in P!WriteCounts(c.n - c.moved) :
          LET d == P!Advance(c, k) IN
          P!WriteOn(w, IF d.moved = c.n THEN P!Return(d, P!Success) ELSE d, P!Straight(c), k)
    BY <1>7 DEF P!WriteAll
  <2>5. k \in WriteCounts(want)
    BY <2>3, <2>4, PosixUses
  <2>6. PICK d : d = Advance(c, k)
    OBVIOUS
  <2>7. WriteOn(w, IF d.moved = c.n THEN Return(d, Success) ELSE d, Straight(c), k)
    BY <2>1, <2>4, <2>6, PosixUses
  <2>8. call' = [call EXCEPT ![w] = IF d.moved = c.n THEN Return(d, Success) ELSE d]
        /\ PosAfter(c, k)
        /\ file' = Written(c.mem, Straight(c), From(c), k) /\ UNCHANGED <<os, begun>>
    BY <2>1, <2>2, <2>6, <2>7 DEF WriteOn, Set, PosAfter
  <2>9. k \in WriteCounts(want) /\ d = Advance(c, k)
    BY <2>2, <2>5, <2>6
  <2>10. QED
    BY ONLY IInv, w \in Clients, c = call[w], want \in Nat, <1>1, <2>1, <2>3, <2>8, <2>9,
       WritesAll
<1>8. QED
  BY <1>2, <1>4, <1>5, <1>6, <1>7

\* The reads into one buffer of os_windows/file.c.
LEMMA WindowsStraightReads ==
  ASSUME IInv, NEW w \in Clients, UNCHANGED <<os, begun>>, os = "windows",
         W!PreadSome(w) \/ W!ReadSome(w) \/ W!PreadAll(w) \/ W!ReadAll(w)
  PROVE  Move(w)
<1> PICK c : c = call[w]
  OBVIOUS
<1>1. Pending(w)
  BY WindowsUses DEF W!PreadSome, W!ReadSome, W!PreadAll, W!ReadAll
<1>2. CASE W!Fail(w)
  BY <1>1, <1>2, WindowsUses, FailedIs
<1>3. Sizes(c) /\ c.n \in Nat /\ c.n > 0 /\ c.at \in Nat /\ From(c) = c.at + c.moved
      /\ pos \in Nat /\ Ahead(os, c, c.moved, c.iov)
  BY <1>1, PendingIs, CallIs, FromIs
<1>4. CASE W!PreadSome(w) /\ ~W!PFail(w, c.at + c.moved)
  <2>1. c.op = "pread_some" /\ c.op \in Partial /\ c.op \notin Streamed
        /\ c.op \notin Vectored
    BY <1>4, WindowsUses, Sorts DEF W!PreadSome, PositionalReads
  <2>2. From(c) = c.at /\ c.at = c.at + c.moved
    BY <1>3, <2>1 DEF From, Ahead, Single
  <2>3. PICK want \in Nat : want = W!CutLength(c.n) /\ want > 0
                           /\ want <= c.n
    <3>1. Dword \in Nat \ {0}
      BY OsFileAssumption
    <3>2. c.n % Dword \in Nat /\ c.n % Dword <= c.n
      BY <1>3, <3>1, ModIs
    <3>3. c.n % Dword # 0
      BY <1>3, <2>1, OsFileAssumption DEF Ahead
    <3>4. QED
      BY <3>2, <3>3 DEF W!CutLength
  <2>4. PICK k \in W!ReadCounts(c.at, W!CutLength(c.n)) :
          W!PRead(w, W!Return(W!Read(c, W!Straight(c), c.at, k), W!Bytes(k)), c.at, k)
    BY <1>4, <2>2 DEF W!PreadSome
  <2>5. k \in ReadCounts(c.at, want)
    BY <2>3, <2>4, WindowsUses
  <2>6. PICK d : d = Read(c, Straight(c), c.at, k)
    OBVIOUS
  <2>7. Set(w, Return(d, Bytes(k))) /\ UNCHANGED file /\ W!Behind(c.at, k)
    BY <2>1, <2>4, <2>6, WindowsUses
  <2>p. PosAfter(c, k)
    <3>1. k \in Nat
      BY <2>5 DEF ReadCounts, Less, Available
    <3>2. QED
      BY <1>3, <2>1, <2>2, <2>7, <3>1, BehindIs
  <2>8. call' = [call EXCEPT ![w] = Return(Read(c, Straight(c), From(c), k), Bytes(k))]
        /\ PosAfter(c, k)
        /\ file' = file /\ UNCHANGED <<os, begun>>
    BY <2>2, <2>6, <2>7, <2>p DEF Set
  <2>9. k \in ReadCounts(From(c), want) /\ d = Read(c, Straight(c), From(c), k)
    BY <2>2, <2>5, <2>6
  <2>10. QED
    BY ONLY IInv, w \in Clients, c = call[w], want \in Nat, <1>1, <2>1, <2>3, <2>8, <2>9,
       ReadsSome
<1>5. CASE W!ReadSome(w) /\ ~W!Fail(w)
  <2>1. c.op = "read_some" /\ c.op \in Partial /\ c.op \in Streamed
        /\ c.op \notin Vectored
    BY <1>5, WindowsUses, Sorts DEF W!ReadSome, StreamReads
  <2>2. From(c) = pos
    BY <1>3, <2>1 DEF From, Ahead, Single
  <2>3. PICK want \in Nat : want = W!CutLength(c.n) /\ want > 0
                           /\ want <= c.n
    BY <1>3, <2>1, ModIs, OsFileAssumption DEF W!CutLength, Ahead
  <2>4. PICK k \in W!ReadCounts(pos, W!CutLength(c.n)) :
          W!ReadOn(w, W!Return(W!Read(c, W!Straight(c), pos, k), W!Bytes(k)), k)
    BY <1>5 DEF W!ReadSome
  <2>5. k \in ReadCounts(pos, want)
    BY <2>3, <2>4, WindowsUses
  <2>6. PICK d : d = Read(c, Straight(c), pos, k)
    OBVIOUS
  <2>7. ReadOn(w, Return(d, Bytes(k)), k)
    BY <2>1, <2>4, <2>6, WindowsUses
  <2>8. call' = [call EXCEPT ![w] = Return(Read(c, Straight(c), From(c), k), Bytes(k))]
        /\ PosAfter(c, k)
        /\ file' = file /\ UNCHANGED <<os, begun>>
    BY <2>1, <2>2, <2>6, <2>7 DEF ReadOn, Set, PosAfter
  <2>9. k \in ReadCounts(From(c), want) /\ d = Read(c, Straight(c), From(c), k)
    BY <2>2, <2>5, <2>6
  <2>10. QED
    BY ONLY IInv, w \in Clients, c = call[w], want \in Nat, <1>1, <2>1, <2>3, <2>8, <2>9,
       ReadsSome
<1>6. CASE W!PreadAll(w) /\ ~W!PFail(w, c.at + c.moved)
  <2>1. c.op \in {"pread_all", "pread_all_expect"} /\ c.op \notin Partial /\ c.op \notin Streamed
        /\ c.op \notin Vectored
    BY <1>6, WindowsUses, Sorts DEF W!PreadAll, PositionalReads
  <2>2. From(c) = c.at + c.moved
    BY <1>3, <2>1 DEF From, Ahead, Single
  <2>3. PICK want \in Nat : want = W!Want(c.n - c.moved) /\ want > 0
                           /\ c.moved + want <= c.n
    BY <1>1, <1>3, <2>1, WantLeftIs
  <2>4. PICK k \in W!ReadCounts(c.at + c.moved, W!Want(c.n - c.moved)) :
          LET d == W!Read(c, W!Straight(c), c.at + c.moved, k) IN
          W!PRead(w, IF W!AtEnd(k) \/ d.moved = c.n
                  THEN W!Return(d, W!PreadAllExpect(c, W!Bytes(d.moved))) ELSE d, c.at + c.moved, k)
    BY <1>6 DEF W!PreadAll
  <2>5. k \in ReadCounts(c.at + c.moved, want)
    BY <2>3, <2>4, WindowsUses
  <2>6. PICK d : d = Read(c, Straight(c), c.at + c.moved, k)
    OBVIOUS
  <2>7. /\ Set(w, IF k = 0 \/ d.moved = c.n THEN Return(d, Expect(c, d.moved)) ELSE d)
        /\ UNCHANGED file /\ W!Behind(c.at + c.moved, k)
    BY <2>1, <2>4, <2>6, WindowsUses, WindowsExpects DEF W!AtEnd
  <2>p. PosAfter(c, k)
    <3>1. k \in Nat
      BY <2>5 DEF ReadCounts, Less, Available
    <3>2. QED
      BY <1>3, <2>1, <2>2, <2>7, <3>1, BehindIs
  <2>8. call' = [call EXCEPT ![w] = IF k = 0 \/ d.moved = c.n THEN Return(d, Expect(c, d.moved)) ELSE d]
        /\ PosAfter(c, k)
        /\ file' = file /\ UNCHANGED <<os, begun>>
    BY <2>2, <2>6, <2>7, <2>p DEF Set
  <2>9. k \in ReadCounts(From(c), want) /\ d = Read(c, Straight(c), From(c), k)
    BY <2>2, <2>5, <2>6
  <2>10. QED
    BY ONLY IInv, w \in Clients, c = call[w], want \in Nat, <1>1, <2>1, <2>3, <2>8, <2>9,
       ReadsAll
<1>7. CASE W!ReadAll(w) /\ ~W!Fail(w)
  <2>1. c.op \in {"read_all", "read_all_expect"} /\ c.op \notin Partial /\ c.op \in Streamed
        /\ c.op \notin Vectored
    BY <1>7, WindowsUses, Sorts DEF W!ReadAll, StreamReads
  <2>2. From(c) = pos
    BY <1>3, <2>1 DEF From, Ahead, Single
  <2>3. PICK want \in Nat : want = W!Want(c.n - c.moved) /\ want > 0
                           /\ c.moved + want <= c.n
    BY <1>1, <1>3, <2>1, WantLeftIs
  <2>4. PICK k \in W!ReadCounts(pos, W!Want(c.n - c.moved)) :
          LET d == W!Read(c, W!Straight(c), pos, k) IN
          W!ReadOn(w, IF W!AtEnd(k) \/ d.moved = c.n
                  THEN W!Return(d, W!ReadAllExpect(c, W!Bytes(d.moved))) ELSE d, k)
    BY <1>7 DEF W!ReadAll
  <2>5. k \in ReadCounts(pos, want)
    BY <2>3, <2>4, WindowsUses
  <2>6. PICK d : d = Read(c, Straight(c), pos, k)
    OBVIOUS
  <2>7. ReadOn(w, IF k = 0 \/ d.moved = c.n THEN Return(d, Expect(c, d.moved)) ELSE d, k)
    BY <2>1, <2>4, <2>6, WindowsUses, WindowsExpects DEF W!AtEnd
  <2>8. call' = [call EXCEPT ![w] = IF k = 0 \/ d.moved = c.n THEN Return(d, Expect(c, d.moved)) ELSE d]
        /\ PosAfter(c, k)
        /\ file' = file /\ UNCHANGED <<os, begun>>
    BY <2>1, <2>2, <2>6, <2>7 DEF ReadOn, Set, PosAfter
  <2>9. k \in ReadCounts(From(c), want) /\ d = Read(c, Straight(c), From(c), k)
    BY <2>2, <2>5, <2>6
  <2>10. QED
    BY ONLY IInv, w \in Clients, c = call[w], want \in Nat, <1>1, <2>1, <2>3, <2>8, <2>9,
       ReadsAll
<1>8. CASE (W!PreadSome(w) \/ W!PreadAll(w)) /\ W!PFail(w, c.at + c.moved)
  <2>1. c.op \notin Streamed
    BY <1>8, WindowsUses, Sorts DEF W!PreadSome, W!PreadAll, PositionalReads
  <2>2. QED
    BY <1>1, <1>3, <1>8, <2>1, BehindFailedIs
<1>9. QED
  BY <1>2, <1>4, <1>5, <1>6, <1>7, <1>8

\* The writes from one buffer of os_windows/file.c.
LEMMA WindowsStraightWrites ==
  ASSUME IInv, NEW w \in Clients, UNCHANGED <<os, begun>>, os = "windows",
         W!PwriteSome(w) \/ W!WriteSome(w) \/ W!PwriteAll(w) \/ W!WriteAll(w)
  PROVE  Move(w)
<1> PICK c : c = call[w]
  OBVIOUS
<1>1. Pending(w)
  BY WindowsUses DEF W!PwriteSome, W!WriteSome, W!PwriteAll, W!WriteAll
<1>2. CASE W!Fail(w)
  BY <1>1, <1>2, WindowsUses, FailedIs
<1>3. Sizes(c) /\ c.n \in Nat /\ c.n > 0 /\ c.at \in Nat /\ From(c) = c.at + c.moved
      /\ pos \in Nat /\ Ahead(os, c, c.moved, c.iov)
  BY <1>1, PendingIs, CallIs, FromIs
<1>4. CASE W!PwriteSome(w) /\ ~W!PFail(w, c.at + c.moved)
  <2>1. c.op = "pwrite_some" /\ c.op \in Partial /\ c.op \notin Streamed
        /\ c.op \notin Vectored
    BY <1>4, WindowsUses, Sorts DEF W!PwriteSome, PositionalWrites
  <2>2. From(c) = c.at /\ c.at = c.at + c.moved
    BY <1>3, <2>1 DEF From, Ahead, Single
  <2>3. PICK want \in Nat : want = W!CutLength(c.n) /\ want > 0
                           /\ want <= c.n
    BY <1>3, <2>1, ModIs, OsFileAssumption DEF W!CutLength, Ahead
  <2>4. PICK k \in W!WriteCounts(W!CutLength(c.n)) :
          W!PWrite(w, W!Return(W!Advance(c, k), W!Bytes(k)), W!Straight(c), c.at, k)
    BY <1>4, <2>2 DEF W!PwriteSome
  <2>5. k \in WriteCounts(want)
    BY <2>3, <2>4, WindowsUses
  <2>6. PICK d : d = Advance(c, k)
    OBVIOUS
  <2>7. /\ Set(w, Return(d, Bytes(k))) /\ W!Behind(c.at, k)
        /\ file' = Written(c.mem, Straight(c), c.at, k)
    BY <2>1, <2>4, <2>6, WindowsUses
  <2>p. PosAfter(c, k)
    <3>1. k \in Nat
      BY <2>5 DEF WriteCounts
    <3>2. QED
      BY <1>3, <2>1, <2>2, <2>7, <3>1, BehindIs
  <2>8. call' = [call EXCEPT ![w] = Return(Advance(c, k), Bytes(k))]
        /\ PosAfter(c, k)
        /\ file' = Written(c.mem, Straight(c), From(c), k) /\ UNCHANGED <<os, begun>>
    BY <2>2, <2>6, <2>7, <2>p DEF Set
  <2>9. k \in WriteCounts(want) /\ d = Advance(c, k)
    BY <2>2, <2>5, <2>6
  <2>10. QED
    BY ONLY IInv, w \in Clients, c = call[w], want \in Nat, <1>1, <2>1, <2>3, <2>8, <2>9,
       WritesSome
<1>5. CASE W!WriteSome(w) /\ ~W!Fail(w)
  <2>1. c.op = "write_some" /\ c.op \in Partial /\ c.op \in Streamed
        /\ c.op \notin Vectored
    BY <1>5, WindowsUses, Sorts DEF W!WriteSome, StreamWrites
  <2>2. From(c) = pos
    BY <1>3, <2>1 DEF From, Ahead, Single
  <2>3. PICK want \in Nat : want = W!CutLength(c.n) /\ want > 0
                           /\ want <= c.n
    BY <1>3, <2>1, ModIs, OsFileAssumption DEF W!CutLength, Ahead
  <2>4. PICK k \in W!WriteCounts(W!CutLength(c.n)) :
          W!WriteOn(w, W!Return(W!Advance(c, k), W!Bytes(k)), W!Straight(c), k)
    BY <1>5 DEF W!WriteSome
  <2>5. k \in WriteCounts(want)
    BY <2>3, <2>4, WindowsUses
  <2>6. PICK d : d = Advance(c, k)
    OBVIOUS
  <2>7. WriteOn(w, Return(d, Bytes(k)), Straight(c), k)
    BY <2>1, <2>4, <2>6, WindowsUses
  <2>8. call' = [call EXCEPT ![w] = Return(Advance(c, k), Bytes(k))]
        /\ PosAfter(c, k)
        /\ file' = Written(c.mem, Straight(c), From(c), k) /\ UNCHANGED <<os, begun>>
    BY <2>1, <2>2, <2>6, <2>7 DEF WriteOn, Set, PosAfter
  <2>9. k \in WriteCounts(want) /\ d = Advance(c, k)
    BY <2>2, <2>5, <2>6
  <2>10. QED
    BY ONLY IInv, w \in Clients, c = call[w], want \in Nat, <1>1, <2>1, <2>3, <2>8, <2>9,
       WritesSome
<1>6. CASE W!PwriteAll(w) /\ ~W!PFail(w, c.at + c.moved)
  <2>1. c.op = "pwrite_all" /\ c.op \notin Partial /\ c.op \notin Streamed
        /\ c.op \notin Vectored
    BY <1>6, WindowsUses, Sorts DEF W!PwriteAll, PositionalWrites
  <2>2. From(c) = c.at + c.moved
    BY <1>3, <2>1 DEF From, Ahead, Single
  <2>3. PICK want \in Nat : want = W!Want(c.n - c.moved) /\ want > 0
                           /\ c.moved + want <= c.n
    BY <1>1, <1>3, <2>1, WantLeftIs
  <2>4. PICK k \in W!WriteCounts(W!Want(c.n - c.moved)) :
          LET d == W!Advance(c, k) IN
          W!PWrite(w, IF d.moved = c.n THEN W!Return(d, W!Success) ELSE d, W!Straight(c), c.at + c.moved, k)
    BY <1>6 DEF W!PwriteAll
  <2>5. k \in WriteCounts(want)
    BY <2>3, <2>4, WindowsUses
  <2>6. PICK d : d = Advance(c, k)
    OBVIOUS
  <2>7. /\ Set(w, IF d.moved = c.n THEN Return(d, Success) ELSE d) /\ W!Behind(c.at + c.moved, k)
        /\ file' = Written(c.mem, Straight(c), c.at + c.moved, k)
    BY <2>1, <2>4, <2>6, WindowsUses
  <2>p. PosAfter(c, k)
    <3>1. k \in Nat
      BY <2>5 DEF WriteCounts
    <3>2. QED
      BY <1>3, <2>1, <2>2, <2>7, <3>1, BehindIs
  <2>8. call' = [call EXCEPT ![w] = IF d.moved = c.n THEN Return(d, Success) ELSE d]
        /\ PosAfter(c, k)
        /\ file' = Written(c.mem, Straight(c), From(c), k) /\ UNCHANGED <<os, begun>>
    BY <2>2, <2>6, <2>7, <2>p DEF Set
  <2>9. k \in WriteCounts(want) /\ d = Advance(c, k)
    BY <2>2, <2>5, <2>6
  <2>10. QED
    BY ONLY IInv, w \in Clients, c = call[w], want \in Nat, <1>1, <2>1, <2>3, <2>8, <2>9,
       WritesAll
<1>7. CASE W!WriteAll(w) /\ ~W!Fail(w)
  <2>1. c.op = "write_all" /\ c.op \notin Partial /\ c.op \in Streamed
        /\ c.op \notin Vectored
    BY <1>7, WindowsUses, Sorts DEF W!WriteAll, StreamWrites
  <2>2. From(c) = pos
    BY <1>3, <2>1 DEF From, Ahead, Single
  <2>3. PICK want \in Nat : want = W!Want(c.n - c.moved) /\ want > 0
                           /\ c.moved + want <= c.n
    BY <1>1, <1>3, <2>1, WantLeftIs
  <2>4. PICK k \in W!WriteCounts(W!Want(c.n - c.moved)) :
          LET d == W!Advance(c, k) IN
          W!WriteOn(w, IF d.moved = c.n THEN W!Return(d, W!Success) ELSE d, W!Straight(c), k)
    BY <1>7 DEF W!WriteAll
  <2>5. k \in WriteCounts(want)
    BY <2>3, <2>4, WindowsUses
  <2>6. PICK d : d = Advance(c, k)
    OBVIOUS
  <2>7. WriteOn(w, IF d.moved = c.n THEN Return(d, Success) ELSE d, Straight(c), k)
    BY <2>1, <2>4, <2>6, WindowsUses
  <2>8. call' = [call EXCEPT ![w] = IF d.moved = c.n THEN Return(d, Success) ELSE d]
        /\ PosAfter(c, k)
        /\ file' = Written(c.mem, Straight(c), From(c), k) /\ UNCHANGED <<os, begun>>
    BY <2>1, <2>2, <2>6, <2>7 DEF WriteOn, Set, PosAfter
  <2>9. k \in WriteCounts(want) /\ d = Advance(c, k)
    BY <2>2, <2>5, <2>6
  <2>10. QED
    BY ONLY IInv, w \in Clients, c = call[w], want \in Nat, <1>1, <2>1, <2>3, <2>8, <2>9,
       WritesAll
<1>8. CASE (W!PwriteSome(w) \/ W!PwriteAll(w)) /\ W!PFail(w, c.at + c.moved)
  <2>1. c.op \notin Streamed
    BY <1>8, WindowsUses, Sorts DEF W!PwriteSome, W!PwriteAll, PositionalWrites
  <2>2. QED
    BY <1>1, <1>3, <1>8, <2>1, BehindFailedIs
<1>9. QED
  BY <1>2, <1>4, <1>5, <1>6, <1>7, <1>8

-----------------------------------------------------------------------------
(* Vectors.                                                                 *)

\* The three vectors that can be left of a call.
LEMMA CoversIs ==
  ASSUME NEW v, NEW m \in Nat, NEW n \in Nat, Covers(v, m, n)
  PROVE  \/ v = <<>> /\ m = n
         \/ \E a \in Buffers : v = <<a>> /\ a.head = m + 1 /\ m + a.len = n /\ a.len < Dword
         \/ \E a \in Buffers, b \in Buffers :
              /\ v = <<a, b>> /\ a.head = m + 1 /\ b.head = m + 1 + a.len
              /\ m + a.len + b.len = n /\ a.len < Dword /\ b.len < Dword
<1>1. v \in Seq(Buffers)
  BY DEF Covers
<1>2. CASE v = <<>> /\ m = n
  BY <1>2
<1>3. CASE Len(v) = 1 /\ v[1].head = m + 1 /\ m + v[1].len = n
  <2>0. v \in [1 .. 1 -> Buffers]
    BY <1>1, <1>3
  <2>1. v = <<v[1]>> /\ v[1] \in Buffers /\ 1 \in DOMAIN v
    BY ONLY <2>0
  <2>2. v[1].len < Dword
    BY <2>1 DEF Covers
  <2>3. QED
    BY <1>3, <2>1, <2>2
<1>4. CASE Len(v) = 2 /\ v[1].head = m + 1 /\ v[2].head = m + 1 + v[1].len /\ m + v[1].len + v[2].len = n
  <2>3. Len(v) = 2
    BY <1>4
  <2>0. v \in [1 .. 2 -> Buffers]
    BY ONLY <1>1, <2>3
  <2>1. v = <<v[1], v[2]>> /\ v[1] \in Buffers /\ v[2] \in Buffers /\ {1, 2} \subseteq DOMAIN v
    BY ONLY <2>0
  <2>2. v[1].len < Dword /\ v[2].len < Dword
    BY <2>1 DEF Covers
  <2>4. QED
    BY <1>4, <2>1, <2>2
<1>5. QED
  BY <1>2, <1>3, <1>4 DEF Covers

\* No buffer is left when no byte is.
LEMMA CoversNone ==
  ASSUME NEW n \in Nat
  PROVE  Covers(<<>>, n, n)
BY DEF Covers

\* One buffer with the bytes that are left.
LEMMA CoversOne ==
  ASSUME NEW a \in Buffers, NEW m \in Nat, NEW n \in Nat,
         a.head = m + 1, m + a.len = n, a.len < Dword
  PROVE  Covers(<<a>>, m, n)
<1>1. a.len \in Nat /\ a.len <= n
  BY DEF Buffers
<1>2. <<a>> \in Seq(Buffers) /\ Len(<<a>>) = 1 /\ <<a>>[1] = a /\ DOMAIN <<a>> = {1}
  OBVIOUS
<1>3. QED
  BY <1>1, <1>2 DEF Covers

\* Two buffers with the bytes that are left.
LEMMA CoversTwo ==
  ASSUME NEW a \in Buffers, NEW b \in Buffers, NEW m \in Nat, NEW n \in Nat,
         a.head = m + 1, b.head = m + 1 + a.len, m + a.len + b.len = n,
         a.len < Dword, b.len < Dword
  PROVE  Covers(<<a, b>>, m, n)
<1>1. a.len \in Nat /\ a.len <= n /\ b.len \in Nat /\ b.len <= n
  BY DEF Buffers
<1>2. <<a, b>> \in Seq(Buffers) /\ Len(<<a, b>>) = 2 /\ <<a, b>>[1] = a /\ <<a, b>>[2] = b
      /\ DOMAIN <<a, b>> = {1, 2}
  OBVIOUS
<1>3. QED
  BY <1>1, <1>2 DEF Covers

\* The addresses of the buffers follow each other.
LEMMA SpanIs ==
  ASSUME NEW a \in Buffers
  PROVE  /\ Span(a) \in Seq(Nat \cup Int) /\ Len(Span(a)) = a.len
         /\ \A i \in 1 .. a.len : Span(a)[i] = a.head + i - 1
BY DEF Span, Buffers

\* The addresses of two buffers, those of the second behind those of the first.
LEMMA JoinedSpans ==
  ASSUME NEW a \in Buffers, NEW b \in Buffers
  PROVE  /\ \A i \in 1 .. a.len : (Span(a) \o Span(b))[i] = a.head + i - 1
         /\ \A j \in 1 .. b.len : (Span(a) \o Span(b))[a.len + j] = b.head + j - 1
<1>1. /\ Span(a) \in Seq(Nat \cup Int) /\ Len(Span(a)) = a.len
      /\ Span(b) \in Seq(Nat \cup Int) /\ Len(Span(b)) = b.len
  BY SpanIs
<1>2. PICK p \in Nat, q \in Nat : p = a.len /\ q = b.len
  BY DEF Buffers
<1>3. PICK s : s = Span(a) \o Span(b)
  OBVIOUS
<1>4. \A i \in 1 .. p + q : s[i] = IF i <= p THEN Span(a)[i] ELSE Span(b)[i - p]
  BY <1>1, <1>2, <1>3, ConcatProperties
<1>5. ASSUME NEW i \in 1 .. p PROVE s[i] = a.head + i - 1
  <2>1. i \in 1 .. p + q /\ i <= p
    BY ONLY p \in Nat, q \in Nat, i \in 1 .. p
  <2>2. Span(a)[i] = a.head + i - 1
    BY <1>2, SpanIs
  <2>3. QED
    BY ONLY <1>4, <2>1, <2>2
<1>6. ASSUME NEW j \in 1 .. q PROVE s[p + j] = b.head + j - 1
  <2>1. p + j \in 1 .. p + q /\ ~(p + j <= p) /\ (p + j) - p = j
    BY ONLY p \in Nat, q \in Nat, j \in 1 .. q
  <2>2. s[p + j] = Span(b)[j]
    BY ONLY <1>4, <2>1
  <2>3. Span(b)[j] = b.head + j - 1
    BY <1>2, SpanIs
  <2>4. QED
    BY ONLY <2>2, <2>3
<1>7. QED
  BY ONLY <1>2, <1>3, <1>5, <1>6

\* A request with all buffers goes on where the call is.
LEMMA GatheredIs ==
  ASSUME NEW c, Sizes(c), c.moved <= c.n, Covers(c.iov, c.moved, c.n),
         NEW k \in Nat, c.moved + k <= c.n
  PROVE  Follow(c, Gathered(c.iov), k)
<1>0. PICK m \in Nat, n \in Nat : m = c.moved /\ n = c.n
  BY CallIs
<1>1. CASE c.iov = <<>> /\ m = n
  <2>1. k = 0
    BY <1>0, <1>1
  <2>2. QED
    BY <2>1 DEF Follow
<1>2. ASSUME NEW a \in Buffers, c.iov = <<a>>, a.head = m + 1, m + a.len = n
      PROVE  Follow(c, Gathered(c.iov), k)
  <2>1. Gathered(c.iov) = Span(a)
    BY <1>2 DEF Gathered, P!Gathered
  <2>2. a.len \in Nat /\ k <= a.len
    BY <1>0, <1>2 DEF Buffers
  <2>3. ASSUME NEW i \in 1 .. k PROVE Span(a)[i] = m + i
    <3>1. i \in 1 .. a.len
      BY <2>2
    <3>2. Span(a)[i] = a.head + i - 1
      BY <3>1, SpanIs
    <3>3. QED
      BY <1>2, <3>2
  <2>4. QED
    BY <1>0, <2>1, <2>3 DEF Follow
<1>3. ASSUME NEW a \in Buffers, NEW b \in Buffers, c.iov = <<a, b>>, a.head = m + 1,
             b.head = m + 1 + a.len, m + a.len + b.len = n
      PROVE  Follow(c, Gathered(c.iov), k)
  <2>1. PICK s : s = Span(a) \o Span(b)
    OBVIOUS
  <2>2. Gathered(c.iov) = s
    BY <1>3, <2>1 DEF Gathered
  <2>3. PICK p \in Nat, q \in Nat, g \in Nat : p = a.len /\ q = b.len /\ g = b.head
    BY DEF Buffers
  <2>4. k <= p + q /\ g = m + 1 + p /\ a.head = m + 1
    BY <1>0, <1>3, <2>3
  <2>5. ASSUME NEW i \in Nat, i >= 1, i <= k PROVE s[i] = m + i
    <3>1. CASE i <= p
      <4>1. i \in 1 .. a.len
        BY <2>3, <3>1, <2>5
      <4>2. s[i] = a.head + i - 1
        BY ONLY <2>1, <4>1, a \in Buffers, b \in Buffers, JoinedSpans
      <4>3. QED
        BY <2>4, <4>2
    <3>2. CASE i > p
      <4>1. PICK j \in Nat : i = p + j /\ j >= 1 /\ j <= q
        <5>1. i - p \in Nat /\ i = p + (i - p) /\ i - p >= 1 /\ i - p <= q
          BY ONLY <2>4, <3>2, <2>5, i \in Nat, p \in Nat, q \in Nat, k \in Nat
        <5>2. QED
          BY ONLY <5>1
      <4>2. j \in 1 .. b.len /\ i = a.len + j
        BY <2>3, <4>1
      <4>3. s[i] = g + j - 1
        BY ONLY <2>1, <2>3, <4>2, a \in Buffers, b \in Buffers, JoinedSpans
      <4>4. QED
        BY ONLY <2>4, <4>1, <4>3, i \in Nat, j \in Nat, p \in Nat, g \in Nat, m \in Nat
    <3>3. QED
      BY ONLY <3>1, <3>2, i \in Nat, p \in Nat
  <2>6. QED
    BY <1>0, <2>2, <2>5 DEF Follow
<1>4. QED
  <2>1. Covers(c.iov, m, n)
    BY <1>0
  <2>2. \/ c.iov = <<>> /\ m = n
        \/ \E a \in Buffers : c.iov = <<a>> /\ a.head = m + 1 /\ m + a.len = n /\ a.len < Dword
        \/ \E a \in Buffers, b \in Buffers :
             /\ c.iov = <<a, b>> /\ a.head = m + 1 /\ b.head = m + 1 + a.len
             /\ m + a.len + b.len = n /\ a.len < Dword /\ b.len < Dword
    BY ONLY <2>1, m \in Nat, n \in Nat, CoversIs
  <2>3. QED
    BY ONLY <1>1, <1>2, <1>3, <2>2

\* What the loops over writev and readv leave of a vector.
LEMMA SkipOne ==
  ASSUME NEW a \in Buffers, NEW k \in Nat
  PROVE  P!Skip(<<a>>, k) = IF k < a.len THEN <<[head |-> a.head + k, len |-> a.len - k]>> ELSE <<>>
<1>1. PICK p \in Nat, h \in Nat : p = a.len /\ h = a.head
  BY DEF Buffers
<1>2. Len(<<a>>) = 1 /\ <<a>>[1] = a /\ DOMAIN <<a>> = {1}
  OBVIOUS
<1>3. CASE k < p
  <2>1. P!Less(p, p - k) = p - k
    BY <1>3 DEF P!Less
  <2>2. h + p - (p - k) = h + k
    BY <1>3
  <2>3. P!Skip(<<a>>, k) = [i \in {1} |-> [head |-> h + k, len |-> p - k]]
    BY <1>1, <1>2, <1>3, <2>1, <2>2 DEF P!Skip, P!Cut, P!EndOf
  <2>4. QED
    BY <1>1, <1>3, <2>3
<1>4. CASE ~(k < p)
  BY <1>1, <1>2, <1>4 DEF P!Skip, P!Cut, P!EndOf
<1>5. QED
  BY <1>3, <1>4

\* What the loops leave of two buffers.
LEMMA SkipTwo ==
  ASSUME NEW a \in Buffers, NEW b \in Buffers, NEW k \in Nat
  PROVE  P!Skip(<<a, b>>, k) =
           IF k < a.len THEN <<[head |-> a.head + k, len |-> a.len - k], b>>
           ELSE IF k < a.len + b.len
           THEN <<[head |-> b.head + (k - a.len), len |-> a.len + b.len - k]>> ELSE <<>>
<1>1. PICK p \in Nat, h \in Nat, q \in Nat, g \in Nat :
        p = a.len /\ h = a.head /\ q = b.len /\ g = b.head /\ b = [head |-> g, len |-> q]
  BY DEF Buffers
<1>2. Len(<<a, b>>) = 2 /\ <<a, b>>[1] = a /\ <<a, b>>[2] = b /\ DOMAIN <<a, b>> = {1, 2}
  OBVIOUS
<1>3. CASE k < p
  <2>1. P!Less(p, p - k) = p - k /\ P!Less(q, p + q - k) = q
    BY <1>3 DEF P!Less
  <2>2. h + p - (p - k) = h + k /\ g + q - q = g
    BY <1>3
  <2>3. P!Cut(<<a, b>>, 1, k) = [head |-> h + k, len |-> p - k]
    BY <1>1, <1>2, <2>1, <2>2 DEF P!Cut, P!EndOf
  <2>4. P!Cut(<<a, b>>, 2, k) = [head |-> g, len |-> q]
    BY <1>1, <1>2, <2>1, <2>2 DEF P!Cut, P!EndOf
  <2>5. [i \in {1, 2} |-> P!Cut(<<a, b>>, i, k)] = <<P!Cut(<<a, b>>, 1, k), P!Cut(<<a, b>>, 2, k)>>
    OBVIOUS
  <2>6. P!Skip(<<a, b>>, k) = [i \in {1, 2} |-> P!Cut(<<a, b>>, i, k)]
    <3>1. PICK v : v = <<a, b>>
      OBVIOUS
    <3>2. Len(v) > 0 /\ DOMAIN v = {1, 2} /\ k < P!EndOf(v, 1)
      BY <1>1, <1>2, <1>3, <3>1 DEF P!EndOf
    <3>3. P!Skip(v, k) = [i \in DOMAIN v |-> P!Cut(v, i, k)]
      BY ONLY <3>2 DEF P!Skip
    <3>4. QED
      BY ONLY <3>1, <3>2, <3>3
  <2>7. QED
    BY <1>1, <1>3, <2>3, <2>4, <2>5, <2>6
<1>4. CASE ~(k < p) /\ k < p + q
  <2>1. P!Less(q, p + q - k) = p + q - k
    BY <1>4 DEF P!Less
  <2>2. g + q - (p + q - k) = g + (k - p)
    BY <1>4
  <2>3. P!Skip(<<a, b>>, k) = <<[head |-> g + q - (p + q - k), len |-> p + q - k]>>
    <3>1. PICK v : v = <<a, b>>
      OBVIOUS
    <3>2. P!EndOf(v, 1) = p /\ P!EndOf(v, 2) = p + q /\ Len(v) = 2
      BY <1>1, <1>2, <3>1 DEF P!EndOf
    <3>3. P!Cut(v, 2, k) = [head |-> g + q - (p + q - k), len |-> p + q - k]
      BY <1>1, <1>2, <2>1, <3>1, <3>2 DEF P!Cut
    <3>4. P!Skip(v, k) = <<P!Cut(v, 2, k)>>
      BY <1>4, <3>2 DEF P!Skip
    <3>5. QED
      BY ONLY <3>1, <3>3, <3>4
  <2>4. QED
    BY <1>1, <1>4, <2>2, <2>3
<1>5. CASE ~(k < p) /\ ~(k < p + q)
  BY <1>1, <1>2, <1>5 DEF P!Skip, P!Cut, P!EndOf
<1>6. QED
  BY <1>3, <1>4, <1>5

\* Short sequences.
LEMMA OneIs ==
  ASSUME NEW S, NEW s \in Seq(S), Len(s) = 1
  PROVE  s = <<s[1]>>
<1>1. s \in [1 .. Len(s) -> S]
  BY LenProperties
<1>2. s \in [1 .. 1 -> S]
  BY ONLY <1>1, Len(s) = 1
<1>3. QED
  BY ONLY <1>2

\* A sequence of two elements.
LEMMA TwoIs ==
  ASSUME NEW S, NEW s \in Seq(S), Len(s) = 2
  PROVE  s = <<s[1], s[2]>>
<1>1. s \in [1 .. Len(s) -> S]
  BY LenProperties
<1>2. s \in [1 .. 2 -> S]
  BY ONLY <1>1, Len(s) = 2
<1>3. QED
  BY ONLY <1>2

\* Two sequences of one element.
LEMMA JoinIs ==
  ASSUME NEW d, NEW b
  PROVE  <<d>> \o <<b>> = <<d, b>>
<1>1. PICK s : s = <<d>> \o <<b>>
  OBVIOUS
<1>2. s \in Seq({d, b}) /\ Len(s) = 2 /\ s[1] = d /\ s[2] = b
  BY <1>1
<1>3. QED
  BY <1>1, <1>2, TwoIs

\* The second of two.
LEMMA SecondIs ==
  ASSUME NEW d, NEW b
  PROVE  SubSeq(<<d, b>>, 2, 2) = <<b>>
<1>1. PICK t : t = <<d, b>>
  OBVIOUS
<1>2. PICK s : s = SubSeq(t, 2, 2)
  OBVIOUS
<1>3. t \in Seq({d, b}) /\ Len(t) = 2 /\ t[2] = b
  BY <1>1
<1>4. s \in Seq({d, b}) /\ Len(s) = 1 /\ s[1] = t[2]
  BY <1>2, <1>3, SubSeqProperties
<1>5. QED
  BY <1>1, <1>2, <1>3, <1>4, OneIs

\* A buffer, field by field.
LEMMA BufferIs ==
  ASSUME NEW x \in Nat, NEW y \in Nat
  PROVE  /\ [head |-> x, len |-> y] \in Buffers
         /\ [head |-> x, len |-> y].head = x /\ [head |-> x, len |-> y].len = y
BY DEF Buffers

\* What Skip leaves are the bytes behind the k that moved.
LEMMA SkipCovers ==
  ASSUME NEW v, NEW m \in Nat, NEW n \in Nat, NEW k \in Nat, m + k <= n, Covers(v, m, n)
  PROVE  Covers(P!Skip(v, k), m + k, n) /\ (m + k < n => P!Skip(v, k) # <<>>)
<1>0. PICK j \in Nat : j = m + k
  OBVIOUS
<1>1. CASE v = <<>> /\ m = n
  <2>1. j = n
    BY <1>0, <1>1
  <2>2. P!Skip(v, k) = <<>>
    BY <1>1 DEF P!Skip
  <2>3. QED
    BY <1>0, <2>1, <2>2, CoversNone
<1> Dword \in Nat
  BY OsFileAssumption
<1>2. ASSUME NEW a \in Buffers, v = <<a>>, a.head = m + 1, m + a.len = n, a.len < Dword
      PROVE  Covers(P!Skip(v, k), j, n) /\ (j < n => P!Skip(v, k) # <<>>)
  <2>1. PICK p \in Nat, h \in Nat : p = a.len /\ h = a.head
    BY DEF Buffers
  <2>2. h = m + 1 /\ m + p = n /\ p < Dword
    BY <1>2, <2>1
  <2>3. CASE k < p
    <3>1. PICK x \in Nat, y \in Nat : x = h + k /\ y = p - k
      BY <2>3
    <3>2. x = j + 1 /\ j + y = n /\ y < Dword
      BY <1>0, <2>2, <3>1
    <3>3. P!Skip(v, k) = <<[head |-> x, len |-> y]>>
      BY <1>2, <2>1, <2>3, <3>1, SkipOne
    <3>4. QED
      BY <3>2, <3>3, BufferIs, CoversOne
  <2>4. CASE ~(k < p)
    <3>1. j = n
      BY <1>0, <2>2, <2>4
    <3>2. P!Skip(v, k) = <<>>
      BY <1>2, <2>1, <2>4, SkipOne
    <3>3. QED
      BY <3>1, <3>2, CoversNone
  <2>5. QED
    BY <2>3, <2>4
<1>3. ASSUME NEW a \in Buffers, NEW b \in Buffers, v = <<a, b>>, a.head = m + 1,
             b.head = m + 1 + a.len, m + a.len + b.len = n, a.len < Dword, b.len < Dword
      PROVE  Covers(P!Skip(v, k), j, n) /\ (j < n => P!Skip(v, k) # <<>>)
  <2>1. PICK p \in Nat, h \in Nat, q \in Nat, g \in Nat :
          p = a.len /\ h = a.head /\ q = b.len /\ g = b.head
    BY DEF Buffers
  <2>2. h = m + 1 /\ g = m + 1 + p /\ m + p + q = n /\ p < Dword /\ q < Dword
    BY <1>3, <2>1
  <2>3. CASE k < p
    <3>1. PICK x \in Nat, y \in Nat : x = h + k /\ y = p - k
      BY <2>3
    <3>2. x = j + 1 /\ g = j + 1 + y /\ j + y + q = n /\ y < Dword
      BY <1>0, <2>2, <3>1
    <3>3. P!Skip(v, k) = <<[head |-> x, len |-> y], b>>
      BY <1>3, <2>1, <2>3, <3>1, SkipTwo
    <3>5. PICK d \in Buffers : d = [head |-> x, len |-> y] /\ d.head = x /\ d.len = y
      BY BufferIs
    <3>6. d.head = j + 1 /\ b.head = j + 1 + d.len /\ j + d.len + b.len = n /\ d.len < Dword
          /\ b.len < Dword
      BY <2>1, <2>2, <3>2, <3>5
    <3>7. Covers(<<d, b>>, j, n)
      BY ONLY <3>5, <3>6, j \in Nat, n \in Nat, b \in Buffers, CoversTwo
    <3>8. QED
      BY <3>3, <3>5, <3>7
  <2>4. CASE ~(k < p) /\ k < p + q
    <3>1. PICK x \in Nat, y \in Nat : x = g + (k - p) /\ y = p + q - k
      BY <2>4
    <3>2. x = j + 1 /\ j + y = n /\ y < Dword
      BY <1>0, <2>2, <2>4, <3>1
    <3>3. P!Skip(v, k) = <<[head |-> x, len |-> y]>>
      BY <1>3, <2>1, <2>4, <3>1, SkipTwo
    <3>4. PICK d \in Buffers : d = [head |-> x, len |-> y] /\ d.head = x /\ d.len = y
      BY BufferIs
    <3>5. d.head = j + 1 /\ j + d.len = n /\ d.len < Dword
      BY ONLY <3>2, <3>4
    <3>6. Covers(<<d>>, j, n)
      BY ONLY <3>4, <3>5, j \in Nat, n \in Nat, CoversOne
    <3>7. QED
      BY ONLY <3>3, <3>4, <3>6
  <2>5. CASE ~(k < p) /\ ~(k < p + q)
    <3>1. j = n
      BY <1>0, <2>2, <2>5
    <3>2. P!Skip(v, k) = <<>>
      BY <1>3, <2>1, <2>5, SkipTwo
    <3>3. QED
      BY <3>1, <3>2, CoversNone
  <2>6. QED
    BY <2>3, <2>4, <2>5
<1>4. QED
  BY <1>0, <1>1, <1>2, <1>3, CoversIs

\* The buffer in hand of a Windows call.
LEMMA RestCovers ==
  ASSUME NEW v, NEW m \in Nat, NEW n \in Nat, NEW k \in Nat, v # <<>>, k <= v[1].len, Covers(v, m, n)
  PROVE  Covers(W!Rest(v, k), m + k, n) /\ m + k <= n
<1>0. PICK j \in Nat : j = m + k
  OBVIOUS
<1> Dword \in Nat
  BY OsFileAssumption
<1>1. ASSUME NEW a \in Buffers, v = <<a>>, a.head = m + 1, m + a.len = n, a.len < Dword
      PROVE  Covers(W!Rest(v, k), j, n) /\ j <= n
  <2>1. PICK p \in Nat, h \in Nat : p = a.len /\ h = a.head
    BY DEF Buffers
  <2>2. h = m + 1 /\ m + p = n /\ p < Dword
    BY <1>1, <2>1
  <2>3. v[1] = a /\ Tail(v) = <<>> /\ k <= p
    BY <1>1, <2>1
  <2>4. j <= n
    BY <1>0, <2>2, <2>3
  <2>5. CASE k = p
    <3>1. W!Rest(v, k) = <<>>
      BY <2>1, <2>3, <2>5 DEF W!Rest
    <3>2. j = n
      BY <1>0, <2>2, <2>5
    <3>3. QED
      BY <3>1, <3>2, CoversNone
  <2>6. CASE k # p
    <3>1. PICK x \in Nat, y \in Nat : x = h + k /\ y = p - k
      BY <2>3
    <3>2. x = j + 1 /\ j + y = n /\ y < Dword
      BY <1>0, <2>2, <3>1
    <3>3. W!Rest(v, k) = <<[head |-> x, len |-> y]>> \o <<>>
      BY <2>1, <2>3, <2>6, <3>1 DEF W!Rest
    <3>4. W!Rest(v, k) = <<[head |-> x, len |-> y]>>
      BY <3>3
    <3>5. PICK d \in Buffers : d = [head |-> x, len |-> y] /\ d.head = x /\ d.len = y
      BY BufferIs
    <3>6. d.head = j + 1 /\ j + d.len = n /\ d.len < Dword
      BY <3>2, <3>5
    <3>7. Covers(<<d>>, j, n)
      BY ONLY <3>5, <3>6, j \in Nat, n \in Nat, CoversOne
    <3>8. QED
      BY <2>4, <3>4, <3>5, <3>7
  <2>7. QED
    BY <2>5, <2>6
<1>2. ASSUME NEW a \in Buffers, NEW b \in Buffers, v = <<a, b>>, a.head = m + 1,
             b.head = m + 1 + a.len, m + a.len + b.len = n, a.len < Dword, b.len < Dword
      PROVE  Covers(W!Rest(v, k), j, n) /\ j <= n
  <2>1. PICK p \in Nat, h \in Nat, q \in Nat, g \in Nat :
          p = a.len /\ h = a.head /\ q = b.len /\ g = b.head
    BY DEF Buffers
  <2>2. h = m + 1 /\ g = m + 1 + p /\ m + p + q = n /\ p < Dword /\ q < Dword
    BY <1>2, <2>1
  <2>3. v[1] = a /\ Tail(v) = <<b>> /\ k <= p
    BY <1>2, <2>1
  <2>4. j <= n
    BY <1>0, <2>2, <2>3
  <2>5. CASE k = p
    <3>1. W!Rest(v, k) = <<b>>
      BY <2>1, <2>3, <2>5 DEF W!Rest
    <3>2. g = j + 1 /\ j + q = n
      BY <1>0, <2>2, <2>5
    <3>3. QED
      BY <2>1, <2>2, <2>4, <3>1, <3>2, CoversOne
  <2>6. CASE k # p
    <3>1. PICK x \in Nat, y \in Nat : x = h + k /\ y = p - k
      BY <2>3
    <3>2. x = j + 1 /\ g = j + 1 + y /\ j + y + q = n /\ y < Dword
      BY <1>0, <2>2, <3>1
    <3>3. W!Rest(v, k) = <<[head |-> x, len |-> y]>> \o <<b>>
      BY <2>1, <2>3, <2>6, <3>1 DEF W!Rest
    <3>4. W!Rest(v, k) = <<[head |-> x, len |-> y], b>>
      BY <3>3, JoinIs
    <3>5. PICK d \in Buffers : d = [head |-> x, len |-> y] /\ d.head = x /\ d.len = y
      BY BufferIs
    <3>6. d.head = j + 1 /\ b.head = j + 1 + d.len /\ j + d.len + b.len = n /\ d.len < Dword
          /\ b.len < Dword
      BY <2>1, <2>2, <3>2, <3>5
    <3>7. Covers(<<d, b>>, j, n)
      BY ONLY <3>5, <3>6, j \in Nat, n \in Nat, b \in Buffers, CoversTwo
    <3>8. QED
      BY <2>4, <3>4, <3>5, <3>7
  <2>7. QED
    BY <2>5, <2>6
<1>3. QED
  BY <1>0, <1>1, <1>2, CoversIs

\* Buffers of no bytes are passed over and no byte is lost.
LEMMA NonEmptyCovers ==
  ASSUME NEW v, NEW m \in Nat, NEW n \in Nat, Covers(v, m, n)
  PROVE  Covers(W!NonEmpty(v), m, n)
         /\ (W!NonEmpty(v) # <<>> => W!NonEmpty(v)[1].len > 0)
         /\ (W!NonEmpty(v) = <<>> <=> m = n)
<1>1. CASE v = <<>> /\ m = n
  <2>1. W!NonEmpty(v) = <<>>
    BY <1>1 DEF W!NonEmpty
  <2>2. QED
    BY <1>1, <2>1, CoversNone
<1>2. ASSUME NEW a \in Buffers, v = <<a>>, a.head = m + 1, m + a.len = n, a.len < Dword
      PROVE  Covers(W!NonEmpty(v), m, n)
             /\ (W!NonEmpty(v) # <<>> => W!NonEmpty(v)[1].len > 0)
             /\ (W!NonEmpty(v) = <<>> <=> m = n)
  <2>1. PICK p \in Nat : p = a.len /\ m + p = n
    BY <1>2 DEF Buffers
  <2>2. v[1].len = p /\ DOMAIN v = {1} /\ Len(v) = 1 /\ v \in Seq({a})
    BY <1>2, <2>1
  <2>3. PICK left : left = {i \in DOMAIN v : v[i].len > 0}
    OBVIOUS
  <2>4. CASE p = 0
    <3>1. left = {} /\ m = n
      BY <2>1, <2>2, <2>3, <2>4
    <3>2. W!NonEmpty(v) = <<>>
      BY <2>3, <3>1 DEF W!NonEmpty
    <3>3. QED
      BY <3>1, <3>2, CoversNone
  <2>5. CASE p > 0
    <3>1. left = {1}
      BY <2>2, <2>3, <2>5
    <3>2. (CHOOSE i \in left : \A l \in left : i <= l) = 1
      BY <3>1
    <3>3. W!NonEmpty(v) = SubSeq(v, 1, Len(v))
      BY <2>3, <3>1, <3>2 DEF W!NonEmpty
    <3>4. W!NonEmpty(v) = v
      BY <2>2, <3>3, SubSeqFull
    <3>5. m # n /\ v # <<>>
      BY <1>2, <2>1, <2>5
    <3>6. QED
      BY <2>2, <2>5, <3>4, <3>5
  <2>6. QED
    BY <2>4, <2>5
<1>3. ASSUME NEW a \in Buffers, NEW b \in Buffers, v = <<a, b>>, a.head = m + 1,
             b.head = m + 1 + a.len, m + a.len + b.len = n, a.len < Dword, b.len < Dword
      PROVE  Covers(W!NonEmpty(v), m, n)
             /\ (W!NonEmpty(v) # <<>> => W!NonEmpty(v)[1].len > 0)
             /\ (W!NonEmpty(v) = <<>> <=> m = n)
  <2>1. PICK p \in Nat, q \in Nat, g \in Nat : p = a.len /\ q = b.len /\ g = b.head
    BY DEF Buffers
  <2>2. m + p + q = n /\ g = m + 1 + p
    BY <1>3, <2>1
  <2>3. v[1].len = p /\ v[2].len = q /\ DOMAIN v = {1, 2} /\ Len(v) = 2 /\ v \in Seq({a, b})
    BY <1>3, <2>1
  <2>4. PICK left : left = {i \in DOMAIN v : v[i].len > 0}
    OBVIOUS
  <2>5. CASE p = 0 /\ q = 0
    <3>1. left = {} /\ m = n
      BY <2>2, <2>3, <2>4, <2>5
    <3>2. W!NonEmpty(v) = <<>>
      BY <2>4, <3>1 DEF W!NonEmpty
    <3>3. QED
      BY <3>1, <3>2, CoversNone
  <2>6. CASE p = 0 /\ q > 0
    <3>1. left = {2}
      BY <2>3, <2>4, <2>6
    <3>2. (CHOOSE i \in left : \A l \in left : i <= l) = 2
      BY <3>1
    <3>3. W!NonEmpty(v) = SubSeq(v, 2, 2)
      BY <2>3, <2>4, <3>1, <3>2 DEF W!NonEmpty
    <3>4. W!NonEmpty(v) = <<b>>
      BY <1>3, <3>3, SecondIs
    <3>5. m # n /\ g = m + 1 /\ m + q = n
      BY <2>2, <2>6
    <3>6. QED
      BY <1>3, <2>1, <2>6, <3>4, <3>5, CoversOne
  <2>7. CASE p > 0
    <3>1. 1 \in left /\ left \subseteq {1, 2}
      BY <2>3, <2>4, <2>7
    <3>2. left = {1} \/ left = {1, 2}
      BY <3>1
    <3>3. (CHOOSE i \in left : \A l \in left : i <= l) = 1
      BY <3>2
    <3>4. W!NonEmpty(v) = SubSeq(v, 1, Len(v))
      BY <2>4, <3>1, <3>3 DEF W!NonEmpty
    <3>5. W!NonEmpty(v) = v
      BY <2>3, <3>4, SubSeqFull
    <3>6. m # n /\ v # <<>>
      BY <1>3, <2>2, <2>7
    <3>7. QED
      BY <2>3, <2>7, <3>5, <3>6
  <2>8. QED
    BY <2>5, <2>6, <2>7
<1>4. QED
  BY <1>1, <1>2, <1>3, CoversIs

\* The first buffer begins where the call is.
LEMMA FirstIs ==
  ASSUME NEW v, NEW m \in Nat, NEW n \in Nat, Covers(v, m, n), v # <<>>
  PROVE  v[1] \in Buffers /\ v[1].head = m + 1 /\ v[1].len \in Nat /\ v[1].len < Dword
         /\ m + v[1].len <= n
<1>1. ASSUME NEW a \in Buffers, v = <<a>>, a.head = m + 1, m + a.len = n, a.len < Dword
      PROVE  v[1] = a /\ a.head = m + 1 /\ a.len \in Nat /\ a.len < Dword /\ m + a.len <= n
  BY <1>1 DEF Buffers
<1>2. ASSUME NEW a \in Buffers, NEW b \in Buffers, v = <<a, b>>, a.head = m + 1,
             b.head = m + 1 + a.len, m + a.len + b.len = n, a.len < Dword, b.len < Dword
      PROVE  v[1] = a /\ a.head = m + 1 /\ a.len \in Nat /\ a.len < Dword /\ m + a.len <= n
  <2>1. PICK p \in Nat, q \in Nat : p = a.len /\ q = b.len
    BY DEF Buffers
  <2>2. m + p <= n
    BY <1>2, <2>1
  <2>3. QED
    BY <1>2, <2>1, <2>2
<1>3. \E a \in Buffers :
        v[1] = a /\ a.head = m + 1 /\ a.len \in Nat /\ a.len < Dword /\ m + a.len <= n
  <2>1. \/ v = <<>> /\ m = n
        \/ \E a \in Buffers : v = <<a>> /\ a.head = m + 1 /\ m + a.len = n /\ a.len < Dword
        \/ \E a \in Buffers, b \in Buffers :
             /\ v = <<a, b>> /\ a.head = m + 1 /\ b.head = m + 1 + a.len
             /\ m + a.len + b.len = n /\ a.len < Dword /\ b.len < Dword
    BY CoversIs
  <2>2. CASE \E a \in Buffers : v = <<a>> /\ a.head = m + 1 /\ m + a.len = n /\ a.len < Dword
    BY <1>1, <2>2
  <2>3. CASE \E a \in Buffers, b \in Buffers :
               /\ v = <<a, b>> /\ a.head = m + 1 /\ b.head = m + 1 + a.len
               /\ m + a.len + b.len = n /\ a.len < Dword /\ b.len < Dword
    BY <1>2, <2>3
  <2>4. QED
    BY ONLY v # <<>>, <2>1, <2>2, <2>3
<1>4. QED
  BY <1>3

\* A request for the first buffer goes on where the call is.
LEMMA SpanFollows ==
  ASSUME NEW c, Sizes(c), NEW v, Covers(v, c.moved, c.n), v # <<>>, NEW k \in Nat, k <= v[1].len
  PROVE  Follow(c, Span(v[1]), k)
<1>1. PICK m \in Nat, n \in Nat : m = c.moved /\ n = c.n
  BY CallIs
<1>2. PICK a : a = v[1]
  OBVIOUS
<1>3. a \in Buffers /\ a.head = m + 1 /\ a.len \in Nat
  BY <1>1, <1>2, FirstIs
<1>4. ASSUME NEW i \in 1 .. k PROVE Span(a)[i] = m + i
  <2>1. i \in 1 .. a.len
    BY <1>2, <1>3
  <2>2. Span(a)[i] = a.head + i - 1
    BY <1>3, <2>1, SpanIs
  <2>3. QED
    BY <1>3, <2>2
<1>5. QED
  BY <1>1, <1>2, <1>4 DEF Follow

\* Buffers are no longer than what they cover.
LEMMA LensAre ==
  ASSUME NEW v, NEW m, NEW n, Covers(v, m, n)
  PROVE  v \in Seq(Buffers) /\ (\A i \in DOMAIN v : v[i].len \in 0 .. n)
BY DEF Covers

\* A vector call goes on while buffers are left.
LEMMA VectorGoesOn ==
  ASSUME NEW c, c.op \in Vectored, NEW m, NEW v, Covers(v, m, c.n), v # <<>>,
         ~Single(os, c.op), c.op \notin Partial => m < c.n
  PROVE  Judged(c, m, v, Running)
<1>1. v \in Seq(Buffers) /\ \A i \in DOMAIN v : v[i].len \in 0 .. c.n
  BY LensAre
<1>2. Ahead(os, c, m, v)
  BY DEF Ahead, Single
<1>3. QED
  BY <1>1, <1>2 DEF Judged

\* A call with k bytes more, going on or ended with the result s.
LEMMA OutcomeIs ==
  ASSUME NEW c, NEW k, NEW v, NEW mem, NEW d, d = After(c, k, v, mem, Running),
         NEW end \in BOOLEAN, NEW s
  PROVE  (IF end THEN Return(d, s) ELSE d) = After(c, k, v, mem, IF end THEN s ELSE Running)
BY DEF After, Return

\* A move with other buffers left.
LEMMA WithBuffers ==
  ASSUME NEW c, NEW k, NEW u, NEW mem, NEW r, NEW v
  PROVE  [After(c, k, u, mem, r) EXCEPT !.iov = v] = After(c, k, v, mem, r)
BY DEF After

\* A vector read at the position is the one of the moves.
LEMMA VectorReadIs ==
  ASSUME IInv, NEW w \in Clients, Pending(w), NEW c, c = call[w],
         c.op \in {"readv_some", "readv_all"}, NEW k \in Nat, c.moved + k <= c.n,
         NEW where, Follow(c, where, k)
  PROVE  Read(c, where, pos, k) = After(c, k, c.iov, NewMem(c, k), Running)
<1>1. Sizes(c) /\ c.ret = Running
  BY PendingIs
<1>2. c.op \in Streamed
  BY Sorts DEF VectorReads
<1>3. pos = c.at + c.moved
  BY <1>2, PendingIs
<1>4. QED
  BY <1>1, <1>3, ReadIs

\* A request of a vector read is one of the moves.
LEMMA VectorRead ==
  ASSUME IInv, NEW w \in Clients, Pending(w), NEW c, c = call[w],
         c.op \in {"readv_some", "readv_all"}, NEW k \in Nat, c.moved + k <= c.n,
         k > 0 => pos + k <= Len(file),
         NEW v \in Seq(Buffers), NEW r \in Results, Judged(c, c.moved + k, v, r),
         ReadOn(w, After(c, k, v, NewMem(c, k), r), k), UNCHANGED <<os, begun>>
  PROVE  Move(w)
<1>1. c.op \notin Writing /\ c.op \in Streamed
  BY Sorts DEF VectorReads
<1>2. pos = c.at + c.moved
  BY <1>1, PendingIs
<1>3. (k > 0 => c.at + c.moved + k <= Len(file))
      /\ PosAfter(c, k)
      /\ call' = [call EXCEPT ![w] = After(c, k, v, NewMem(c, k), r)]
      /\ UNCHANGED <<os, file, begun>>
  BY <1>1, <1>2 DEF ReadOn, Set, PosAfter
<1>4. QED
  BY ONLY w \in Clients, Pending(w), c = call[w], k \in Nat, c.moved + k <= c.n,
     v \in Seq(Buffers),
          r \in Results, Judged(c, c.moved + k, v, r), <1>1, <1>3, ReadAnswered

\* A vector write that advances has its bytes moved.
LEMMA VectorWriteIs ==
  ASSUME IInv, NEW w \in Clients, Pending(w), NEW c, c = call[w], NEW k
  PROVE  Advance(c, k) = After(c, k, c.iov, c.mem, Running)
<1>1. Sizes(c) /\ c.ret = Running
  BY PendingIs
<1>2. QED
  BY <1>1, AdvanceIs

\* A request of a vector write is one of the moves.
LEMMA VectorWrite ==
  ASSUME IInv, NEW w \in Clients, Pending(w), NEW c, c = call[w],
         c.op \in {"writev_some", "writev_all"}, NEW k \in Nat, c.moved + k <= c.n,
         NEW where, Follow(c, where, k), NEW v \in Seq(Buffers),
         NEW r \in Results, Judged(c, c.moved + k, v, r),
         WriteOn(w, After(c, k, v, c.mem, r), where, k), UNCHANGED <<os, begun>>
  PROVE  Move(w)
<1>1. Sizes(c) /\ file \in Seq(Content)
  BY PendingIs
<1>2. c.op \in Writing /\ c.op \in Streamed
  BY Sorts DEF VectorWrites
<1>3. pos = c.at + c.moved
  BY <1>2, PendingIs
<1>4. Written(c.mem, where, pos, k) = NewFile(c, k)
  BY <1>1, <1>3, WrittenIs
<1>5. PosAfter(c, k)
      /\ call' = [call EXCEPT ![w] = After(c, k, v, c.mem, r)]
      /\ file' = NewFile(c, k) /\ UNCHANGED <<os, begun>>
  BY <1>2, <1>4 DEF WriteOn, Set, PosAfter
<1>6. QED
  BY ONLY w \in Clients, Pending(w), c = call[w], k \in Nat, c.moved + k <= c.n,
     v \in Seq(Buffers),
          r \in Results, Judged(c, c.moved + k, v, r), <1>2, <1>5, WriteAnswered

\* The operators on buffers that the backends take from OsFile.
LEMMA VectorUses ==
  /\ \A v : P!Gathered(v) = Gathered(v)
  /\ \A a : W!Span(a) = Span(a)
BY DEF P!Gathered, P!Span, W!Span, Gathered, Span

\* A vector call on its way.
LEMMA VectorIs ==
  ASSUME IInv, NEW w \in Clients, Pending(w), NEW c, c = call[w], c.op \in VectorReads \cup VectorWrites
  PROVE  /\ Sizes(c) /\ c.moved \in Nat /\ c.n \in Nat /\ c.n > 0 /\ c.moved <= c.n /\ c.at \in Nat
         /\ pos = c.at + c.moved /\ pos \in Nat /\ file \in Seq(Content)
         /\ Covers(c.iov, c.moved, c.n) /\ c.iov # <<>> /\ c.iov \in Seq(Buffers)
         /\ c.op \in Vectored
         /\ c.op \notin Partial => c.moved < c.n
         /\ Single(os, c.op) => c.moved = 0
<1>1. Sizes(c) /\ c.moved <= c.n /\ Ahead(os, c, c.moved, c.iov) /\ file \in Seq(Content)
  BY PendingIs
<1>2. c.op \in Vectored /\ c.op \in Streamed
  BY Sorts
<1>3. c.moved \in Nat /\ c.n \in Nat /\ c.n > 0 /\ c.iov \in Seq(Buffers) /\ c.at \in Nat
  BY <1>1, CallIs
<1>4. pos = c.at + c.moved /\ pos \in Nat
  BY <1>2, PendingIs
<1>5. QED
  BY <1>1, <1>2, <1>3, <1>4 DEF Ahead

\* i_readv_some of os_posix/file.c: one readv.
LEMMA PosixReadvSome ==
  ASSUME IInv, NEW w \in Clients, UNCHANGED <<os, begun>>, os = "posix", P!ReadvSome(w), ~P!Fail(w)
  PROVE  Move(w)
<1> PICK c : c = call[w]
  OBVIOUS
<1>1. Pending(w) /\ c.op = "readv_some"
  BY PosixUses DEF P!ReadvSome
<1>2. c.op \in VectorReads /\ c.op \in Partial /\ c.op \notin Writing /\ Single(os, c.op)
  BY <1>1, Sorts DEF VectorReads, Single
<1>3. Sizes(c) /\ c.n \in Nat /\ c.n > 0 /\ c.moved = 0 /\ pos = c.at + c.moved /\ pos \in Nat /\ c.at \in Nat
      /\ file \in Seq(Content) /\ Covers(c.iov, c.moved, c.n) /\ c.iov \in Seq(Buffers)
  BY <1>1, <1>2, VectorIs
<1>4. PICK k \in ReadCounts(pos, c.n) :
        ReadOn(w, Return(Read(c, Gathered(c.iov), pos, k), Bytes(k)), k)
  BY PosixUses, VectorUses DEF P!ReadvSome
<1>5. k \in Nat /\ k <= c.n /\ (k > 0 => pos + k <= Len(file)) /\ (k = 0 => Len(file) <= pos)
  BY <1>3, <1>4, CountsAre
<1>6. c.moved + k = k /\ pos = c.at
  BY <1>3, <1>5
<1>7. Follow(c, Gathered(c.iov), k)
  BY <1>3, <1>5, <1>6, GatheredIs
<1>8. PICK r \in Results : r = Bytes(k)
  BY <1>5, ResultTypes
<1>9. Judged(c, c.moved + k, c.iov, r)
  BY <1>2, <1>3, <1>5, <1>6, <1>8, ReadEnds, CallIs DEF Ended
<1>10. c.op \in {"readv_some", "readv_all"} /\ c.moved + k <= c.n
  BY <1>1, <1>5, <1>6
<1>11. Read(c, Gathered(c.iov), pos, k) = After(c, k, c.iov, NewMem(c, k), Running)
  BY ONLY IInv, w \in Clients, c = call[w], <1>1, <1>5, <1>7, <1>10, VectorReadIs
<1>12. ReadOn(w, After(c, k, c.iov, NewMem(c, k), r), k)
  BY <1>4, <1>8, <1>11, AfterIs
<1>13. QED
  BY <1>1, <1>3, <1>5, <1>9, <1>10, <1>12, VectorRead

\* i_readv_all of os_posix/file.c: readv until all or the end.
LEMMA PosixReadvAll ==
  ASSUME IInv, NEW w \in Clients, UNCHANGED <<os, begun>>, os = "posix", P!ReadvAll(w), ~P!Fail(w)
  PROVE  Move(w)
<1> PICK c : c = call[w]
  OBVIOUS
<1>1. Pending(w) /\ c.op = "readv_all"
  BY PosixUses DEF P!ReadvAll
<1>2. c.op \in VectorReads /\ c.op \notin Partial /\ c.op \notin Writing /\ ~Single(os, c.op)
  BY <1>1, Sorts DEF VectorReads, Single
<1>3. Sizes(c) /\ c.moved \in Nat /\ c.n \in Nat /\ c.moved < c.n /\ pos = c.at + c.moved /\ pos \in Nat
      /\ c.at \in Nat /\ file \in Seq(Content) /\ Covers(c.iov, c.moved, c.n) /\ c.op \in Vectored
  BY <1>1, <1>2, VectorIs
<1>4. PICK k \in ReadCounts(pos, c.n - c.moved) :
        LET d == [Read(c, Gathered(c.iov), pos, k) EXCEPT !.iov = P!Skip(c.iov, k)] IN
        ReadOn(w, IF k = 0 \/ d.moved = c.n THEN Return(d, Bytes(d.moved)) ELSE d, k)
  BY PosixUses, VectorUses DEF P!ReadvAll
<1>5. PICK left \in Nat : left = c.n - c.moved /\ left > 0
  BY <1>3
<1>6. k \in Nat /\ k <= left /\ (k > 0 => pos + k <= Len(file)) /\ (k = 0 => Len(file) <= pos)
  BY <1>3, <1>4, <1>5, CountsAre
<1>7. c.moved + k \in Nat /\ c.moved + k <= c.n /\ c.moved <= c.n
  <2>1. c.moved \in Nat /\ c.n \in Nat /\ c.moved < c.n /\ k \in Nat
    BY <1>3, <1>6
  <2>2. k <= c.n - c.moved
    BY <1>5, <1>6
  <2>3. QED
    BY ONLY <2>1, <2>2
<1>8. PICK m \in Nat : m = c.moved + k
  BY <1>7
<1>9. PICK v : v = P!Skip(c.iov, k)
  OBVIOUS
<1>10. Covers(v, m, c.n) /\ (m < c.n => v # <<>>)
  BY <1>3, <1>6, <1>7, <1>8, <1>9, SkipCovers
<1>11. v \in Seq(Buffers) /\ \A i \in DOMAIN v : v[i].len \in 0 .. c.n
  BY <1>10, LensAre
<1>12. PICK d : d = [Read(c, Gathered(c.iov), pos, k) EXCEPT !.iov = v]
  OBVIOUS
<1>13. d = After(c, k, v, NewMem(c, k), Running)
  <2>1. Follow(c, Gathered(c.iov), k)
    BY <1>3, <1>6, <1>7, GatheredIs
  <2>2. c.op \in {"readv_some", "readv_all"}
    BY <1>1
  <2>3. Read(c, Gathered(c.iov), pos, k) = After(c, k, c.iov, NewMem(c, k), Running)
    BY ONLY IInv, w \in Clients, c = call[w], <1>1, <1>6, <1>7, <2>1, <2>2, VectorReadIs
  <2>4. QED
    BY ONLY <1>12, <2>3, WithBuffers
<1>14. d.moved = m
  BY <1>8, <1>13 DEF After
<1>15. PICK end \in BOOLEAN : end <=> k = 0 \/ m = c.n
  OBVIOUS
<1>16. PICK r \in Results : r = IF end THEN Bytes(m) ELSE Running
  BY ResultTypes
<1>17. ReadOn(w, After(c, k, v, NewMem(c, k), r), k)
  <2>1. ReadOn(w, IF k = 0 \/ d.moved = c.n THEN Return(d, Bytes(d.moved)) ELSE d, k)
    BY <1>4, <1>9, <1>12
  <2>2. ReadOn(w, IF end THEN Return(d, Bytes(m)) ELSE d, k)
    BY <1>14, <1>15, <2>1
  <2>3. (IF end THEN Return(d, Bytes(m)) ELSE d)
          = After(c, k, v, NewMem(c, k), IF end THEN Bytes(m) ELSE Running)
    BY ONLY <1>13, end \in BOOLEAN, OutcomeIs
  <2>4. QED
    BY ONLY <1>16, <2>2, <2>3
<1>18. Judged(c, m, v, r)
  <2>1. CASE end
    <3>0. m < c.n => k = 0
      <4>1. k = 0 \/ m = c.n
        BY <1>15, <2>1
      <4>2. c.n \in Nat /\ m \in Nat
        BY <1>3
      <4>3. QED
        BY ONLY <4>1, <4>2
    <3>1. m < c.n => Len(file) <= c.at + m
      <4>1. k = 0 => m = c.moved /\ pos = c.at + m
        BY <1>3, <1>8
      <4>2. QED
        BY <1>6, <3>0, <4>1
    <3>2. Ended(c, m, r)
      BY <1>16, <2>1 DEF Ended
    <3>3. QED
      BY <1>2, <1>3, <1>7, <1>8, <1>11, <3>1, <3>2, ReadEnds
  <2>2. CASE ~end
    <3>1. r = Running /\ m # c.n
      BY <1>15, <1>16, <2>2
    <3>2. m < c.n
      BY <1>3, <1>7, <1>8, <3>1
    <3>3. QED
      BY <1>2, <1>3, <1>10, <3>1, <3>2, VectorGoesOn
  <2>3. QED
    BY <2>1, <2>2
<1>19. c.op \in {"readv_some", "readv_all"} /\ Judged(c, c.moved + k, v, r)
  BY <1>1, <1>8, <1>18
<1>20. QED
  BY ONLY IInv, w \in Clients, c = call[w], r \in Results, UNCHANGED <<os, begun>>,
          <1>1, <1>6, <1>7, <1>11, <1>17, <1>19, VectorRead

\* i_writev_some of os_posix/file.c: one writev.
LEMMA PosixWritevSome ==
  ASSUME IInv, NEW w \in Clients, UNCHANGED <<os, begun>>, os = "posix", P!WritevSome(w), ~P!Fail(w)
  PROVE  Move(w)
<1> PICK c : c = call[w]
  OBVIOUS
<1>1. Pending(w) /\ c.op = "writev_some"
  BY PosixUses DEF P!WritevSome
<1>2. c.op \in VectorWrites /\ c.op \in Partial /\ c.op \in Writing /\ Single(os, c.op)
  BY <1>1, Sorts DEF VectorWrites, Single
<1>3. Sizes(c) /\ c.n \in Nat /\ c.n > 0 /\ c.moved = 0 /\ Covers(c.iov, c.moved, c.n)
      /\ c.iov \in Seq(Buffers)
  BY <1>1, <1>2, VectorIs
<1>4. PICK k \in WriteCounts(c.n) :
        WriteOn(w, Return(Advance(c, k), Bytes(k)), Gathered(c.iov), k)
  BY PosixUses, VectorUses DEF P!WritevSome
<1>5. k \in Nat /\ k <= c.n /\ k > 0
  BY <1>3, <1>4 DEF WriteCounts
<1>6. c.moved + k = k
  BY <1>3, <1>5
<1>7. Follow(c, Gathered(c.iov), k)
  BY <1>3, <1>5, <1>6, GatheredIs
<1>8. PICK r \in Results : r = Bytes(k)
  BY <1>5, ResultTypes
<1>9. Judged(c, c.moved + k, c.iov, r)
  BY <1>2, <1>3, <1>5, <1>6, <1>8, WriteEnds, CallIs
<1>10. c.op \in {"writev_some", "writev_all"} /\ c.moved + k <= c.n
  BY <1>1, <1>5, <1>6
<1>11. Advance(c, k) = After(c, k, c.iov, c.mem, Running)
  BY <1>1, VectorWriteIs
<1>12. WriteOn(w, After(c, k, c.iov, c.mem, r), Gathered(c.iov), k)
  BY <1>4, <1>8, <1>11, AfterIs
<1>13. QED
  BY ONLY IInv, w \in Clients, c = call[w], r \in Results, UNCHANGED <<os, begun>>,
          <1>1, <1>3, <1>5, <1>7, <1>9, <1>10, <1>12, VectorWrite

\* i_writev_all of os_posix/file.c: writev until all is written.
LEMMA PosixWritevAll ==
  ASSUME IInv, NEW w \in Clients, UNCHANGED <<os, begun>>, os = "posix", P!WritevAll(w), ~P!Fail(w)
  PROVE  Move(w)
<1> PICK c : c = call[w]
  OBVIOUS
<1>1. Pending(w) /\ c.op = "writev_all"
  BY PosixUses DEF P!WritevAll
<1>2. c.op \in VectorWrites /\ c.op \notin Partial /\ c.op \in Writing /\ ~Single(os, c.op)
  BY <1>1, Sorts DEF VectorWrites, Single
<1>3. Sizes(c) /\ c.moved \in Nat /\ c.n \in Nat /\ c.moved < c.n
      /\ Covers(c.iov, c.moved, c.n) /\ c.op \in Vectored
  BY <1>1, <1>2, VectorIs
<1>4. PICK k \in WriteCounts(c.n - c.moved) :
        LET d == [Advance(c, k) EXCEPT !.iov = P!Skip(c.iov, k)] IN
        WriteOn(w, IF d.moved = c.n THEN Return(d, Success) ELSE d, Gathered(c.iov), k)
  BY PosixUses, VectorUses DEF P!WritevAll
<1>5. PICK left \in Nat : left = c.n - c.moved /\ left > 0
  BY <1>3
<1>6. k \in Nat /\ k <= left /\ k > 0
  BY <1>4, <1>5 DEF WriteCounts
<1>7. c.moved + k \in Nat /\ c.moved + k <= c.n /\ c.moved <= c.n
  <2>1. c.moved \in Nat /\ c.n \in Nat /\ c.moved < c.n /\ k \in Nat
    BY <1>3, <1>6
  <2>2. k <= c.n - c.moved
    BY <1>5, <1>6
  <2>3. QED
    BY ONLY <2>1, <2>2
<1>8. PICK m \in Nat : m = c.moved + k
  BY <1>7
<1>9. PICK v : v = P!Skip(c.iov, k)
  OBVIOUS
<1>10. Covers(v, m, c.n) /\ (m < c.n => v # <<>>)
  BY <1>3, <1>6, <1>7, <1>8, <1>9, SkipCovers
<1>11. v \in Seq(Buffers) /\ \A i \in DOMAIN v : v[i].len \in 0 .. c.n
  BY <1>10, LensAre
<1>12. PICK d : d = [Advance(c, k) EXCEPT !.iov = v]
  OBVIOUS
<1>13. d = After(c, k, v, c.mem, Running)
  <2>1. Advance(c, k) = After(c, k, c.iov, c.mem, Running)
    BY <1>1, VectorWriteIs
  <2>2. QED
    BY ONLY <1>12, <2>1, WithBuffers
<1>14. d.moved = m
  BY <1>8, <1>13 DEF After
<1>15. PICK end \in BOOLEAN : end <=> m = c.n
  OBVIOUS
<1>16. PICK r \in Results : r = IF end THEN Success ELSE Running
  BY ResultTypes
<1>17. WriteOn(w, After(c, k, v, c.mem, r), Gathered(c.iov), k)
  <2>1. WriteOn(w, IF d.moved = c.n THEN Return(d, Success) ELSE d, Gathered(c.iov), k)
    BY <1>4, <1>9, <1>12
  <2>2. WriteOn(w, IF end THEN Return(d, Success) ELSE d, Gathered(c.iov), k)
    BY <1>14, <1>15, <2>1
  <2>3. (IF end THEN Return(d, Success) ELSE d)
          = After(c, k, v, c.mem, IF end THEN Success ELSE Running)
    BY ONLY <1>13, end \in BOOLEAN, OutcomeIs
  <2>4. QED
    BY ONLY <1>16, <2>2, <2>3
<1>18. Judged(c, m, v, r)
  <2>1. CASE end
    <3>1. m = c.n /\ r = Success /\ m > 0
      BY <1>3, <1>15, <1>16, <2>1
    <3>2. QED
      BY <1>2, <1>3, <1>7, <1>8, <1>11, <3>1, WriteEnds
  <2>2. CASE ~end
    <3>1. r = Running /\ m # c.n
      BY <1>15, <1>16, <2>2
    <3>2. m < c.n
      BY <1>3, <1>7, <1>8, <3>1
    <3>3. QED
      BY <1>2, <1>3, <1>10, <3>1, <3>2, VectorGoesOn
  <2>3. QED
    BY <2>1, <2>2
<1>19. c.op \in {"writev_some", "writev_all"} /\ Judged(c, c.moved + k, v, r)
  BY <1>1, <1>8, <1>18
<1>20. Follow(c, Gathered(c.iov), k)
  BY <1>3, <1>6, <1>7, GatheredIs
<1>21. QED
  BY ONLY IInv, w \in Clients, c = call[w], r \in Results, UNCHANGED <<os, begun>>,
          <1>1, <1>6, <1>7, <1>11, <1>17, <1>19, <1>20, VectorWrite

\* When no buffer is left all bytes have moved.
LEMMA NoneLeft ==
  ASSUME NEW m \in Nat, NEW n \in Nat, NEW v, v = <<>>, Covers(v, m, n)
  PROVE  m = n
BY DEF Covers

\* A remainder of a smaller number.
LEMMA SmallMod ==
  ASSUME NEW n \in Nat, NEW d \in Nat, n < d
  PROVE  n % d = n
OBVIOUS

\* i_readv_some of os_windows/file.c: a request per buffer.
LEMMA WindowsReadvSome ==
  ASSUME IInv, NEW w \in Clients, UNCHANGED <<os, begun>>, os = "windows", W!ReadvSome(w), ~W!Fail(w)
  PROVE  Move(w)
<1> PICK c : c = call[w]
  OBVIOUS
<1>1. Pending(w) /\ c.op = "readv_some"
  BY WindowsUses DEF W!ReadvSome
<1>2. c.op \in VectorReads /\ c.op \in Partial /\ c.op \notin Writing /\ c.op \in Vectored
      /\ ~Single(os, c.op)
  BY <1>1, Sorts DEF VectorReads, Single
<1>3. Sizes(c) /\ c.moved \in Nat /\ c.n \in Nat /\ c.n > 0 /\ pos = c.at + c.moved /\ pos \in Nat
      /\ c.at \in Nat /\ file \in Seq(Content) /\ Covers(c.iov, c.moved, c.n) /\ c.iov # <<>>
  BY <1>1, <1>2, VectorIs
<1>4. PICK len \in Nat : len = c.iov[1].len /\ len < Dword /\ W!CutLength(len) = len
  <2>1. c.iov[1].len \in Nat /\ c.iov[1].len < Dword
    BY <1>3, FirstIs
  <2>2. QED
    BY <2>1, SmallMod, OsFileAssumption DEF W!CutLength
<1>5. PICK k \in ReadCounts(pos, len) :
        LET d == [Read(c, Span(c.iov[1]), pos, k) EXCEPT !.iov = W!Rest(c.iov, k)] IN
        ReadOn(w, IF k < len \/ d.iov = <<>> THEN Return(d, Bytes(d.moved)) ELSE d, k)
  <2>1. PICK k \in W!ReadCounts(pos, W!CutLength(c.iov[1].len)) :
          LET d == [W!Read(c, W!Span(c.iov[1]), pos, k) EXCEPT !.iov = W!Rest(c.iov, k)]
          IN  W!ReadOn(w, IF k < c.iov[1].len \/ d.iov = <<>>
                          THEN W!Return(d, W!Bytes(d.moved)) ELSE d, k)
    BY ONLY W!ReadvSome(w), ~W!Fail(w), c = call[w] DEF W!ReadvSome
  <2>2. k \in ReadCounts(pos, len)
    BY <1>4, <2>1, WindowsUses
  <2>3. W!Span(c.iov[1]) = Span(c.iov[1])
    BY VectorUses
  <2>4. QED
    BY ONLY <1>4, <2>1, <2>2, <2>3, WindowsUses
<1>6. k \in Nat /\ k <= len /\ (k > 0 => pos + k <= Len(file)) /\ (k = 0 => len = 0 \/ Len(file) <= pos)
  BY <1>3, <1>5, CountsAre
<1>7. PICK v : v = W!Rest(c.iov, k)
  OBVIOUS
<1>8. PICK m \in Nat : m = c.moved + k
  <2>1. c.moved \in Nat /\ k \in Nat
    BY <1>3, <1>6
  <2>2. c.moved + k \in Nat
    BY ONLY <2>1
  <2>3. QED
    BY <2>2
<1>9. Covers(v, m, c.n) /\ m <= c.n /\ c.moved + k <= c.n
  BY <1>3, <1>4, <1>6, <1>7, <1>8, RestCovers
<1>10. v \in Seq(Buffers) /\ \A i \in DOMAIN v : v[i].len \in 0 .. c.n
  BY <1>9, LensAre
<1>11. PICK d : d = [Read(c, Span(c.iov[1]), pos, k) EXCEPT !.iov = v]
  OBVIOUS
<1>12. d = After(c, k, v, NewMem(c, k), Running)
  <2>1. Follow(c, Span(c.iov[1]), k)
    BY <1>3, <1>4, <1>6, SpanFollows
  <2>2. c.op \in {"readv_some", "readv_all"}
    BY <1>1
  <2>3. Read(c, Span(c.iov[1]), pos, k) = After(c, k, c.iov, NewMem(c, k), Running)
    BY ONLY IInv, w \in Clients, c = call[w], <1>1, <1>6, <1>9, <2>1, <2>2, VectorReadIs
  <2>4. QED
    BY ONLY <1>11, <2>3, WithBuffers
<1>13. d.moved = m /\ d.iov = v
  BY <1>8, <1>12 DEF After
<1>14. PICK end \in BOOLEAN : end <=> k < len \/ v = <<>>
  OBVIOUS
<1>15. PICK r \in Results : r = IF end THEN Bytes(m) ELSE Running
  BY ResultTypes
<1>16. ReadOn(w, After(c, k, v, NewMem(c, k), r), k)
  <2>1. ReadOn(w, IF k < len \/ d.iov = <<>> THEN Return(d, Bytes(d.moved)) ELSE d, k)
    BY <1>5, <1>7, <1>11
  <2>2. ReadOn(w, IF end THEN Return(d, Bytes(m)) ELSE d, k)
    BY <1>13, <1>14, <2>1
  <2>3. (IF end THEN Return(d, Bytes(m)) ELSE d)
          = After(c, k, v, NewMem(c, k), IF end THEN Bytes(m) ELSE Running)
    BY ONLY <1>12, end \in BOOLEAN, OutcomeIs
  <2>4. QED
    BY ONLY <1>15, <2>2, <2>3
<1>17. Judged(c, m, v, r)
  <2>1. CASE end
    <3>1. m = 0 => Len(file) <= c.at
      <4>1. SUFFICES ASSUME m = 0 PROVE Len(file) <= c.at
        OBVIOUS
      <4>2. k = 0 /\ c.moved = 0
        BY <1>3, <1>6, <1>8, <4>1
      <4>3. v # <<>>
        BY <1>3, <1>9, <4>1, NoneLeft
      <4>4. len # 0
        BY <1>14, <2>1, <4>2, <4>3
      <4>5. QED
        BY <1>3, <1>6, <4>2, <4>4
    <3>2. Ended(c, m, r)
      BY <1>15, <2>1 DEF Ended
    <3>3. QED
      BY <1>2, <1>3, <1>9, <1>10, <3>1, <3>2, ReadEnds
  <2>2. CASE ~end
    BY <1>2, <1>9, <1>14, <1>15, <2>2, VectorGoesOn
  <2>3. QED
    BY <2>1, <2>2
<1>18. c.op \in {"readv_some", "readv_all"} /\ Judged(c, c.moved + k, v, r)
  BY <1>1, <1>8, <1>17
<1>19. QED
  BY ONLY IInv, w \in Clients, c = call[w], r \in Results, UNCHANGED <<os, begun>>,
          <1>1, <1>6, <1>9, <1>10, <1>16, <1>18, VectorRead

\* i_writev_some of os_windows/file.c: a request per buffer.
LEMMA WindowsWritevSome ==
  ASSUME IInv, NEW w \in Clients, UNCHANGED <<os, begun>>, os = "windows", W!WritevSome(w), ~W!Fail(w)
  PROVE  Move(w)
<1> PICK c : c = call[w]
  OBVIOUS
<1>1. Pending(w) /\ c.op = "writev_some"
  BY WindowsUses DEF W!WritevSome
<1>2. c.op \in VectorWrites /\ c.op \in Partial /\ c.op \in Writing /\ c.op \in Vectored
      /\ ~Single(os, c.op)
  BY <1>1, Sorts DEF VectorWrites, Single
<1>3. Sizes(c) /\ c.moved \in Nat /\ c.n \in Nat /\ c.n > 0
      /\ Covers(c.iov, c.moved, c.n) /\ c.iov # <<>>
  BY <1>1, <1>2, VectorIs
<1>4. PICK len \in Nat : len = c.iov[1].len /\ len < Dword /\ W!CutLength(len) = len
  <2>1. c.iov[1].len \in Nat /\ c.iov[1].len < Dword
    BY <1>3, FirstIs
  <2>2. QED
    BY <2>1, SmallMod, OsFileAssumption DEF W!CutLength
<1>5. PICK k \in WriteCounts(len) :
        LET d == [Advance(c, k) EXCEPT !.iov = W!Rest(c.iov, k)] IN
        WriteOn(w, IF k < len \/ d.iov = <<>> THEN Return(d, Bytes(d.moved)) ELSE d,
                Span(c.iov[1]), k)
  <2>1. PICK k \in W!WriteCounts(W!CutLength(c.iov[1].len)) :
          LET d == [W!Advance(c, k) EXCEPT !.iov = W!Rest(c.iov, k)]
          IN  W!WriteOn(w, IF k < c.iov[1].len \/ d.iov = <<>>
                           THEN W!Return(d, W!Bytes(d.moved)) ELSE d,
                        W!Span(c.iov[1]), k)
    BY ONLY W!WritevSome(w), ~W!Fail(w), c = call[w] DEF W!WritevSome
  <2>2. k \in WriteCounts(len)
    BY <1>4, <2>1, WindowsUses
  <2>3. W!Span(c.iov[1]) = Span(c.iov[1])
    BY VectorUses
  <2>4. QED
    BY ONLY <1>4, <2>1, <2>2, <2>3, WindowsUses
<1>6. k \in Nat /\ k <= len /\ (k = 0 => len = 0)
  BY <1>4, <1>5 DEF WriteCounts
<1>7. PICK v : v = W!Rest(c.iov, k)
  OBVIOUS
<1>8. PICK m \in Nat : m = c.moved + k
  <2>1. c.moved \in Nat /\ k \in Nat
    BY <1>3, <1>6
  <2>2. c.moved + k \in Nat
    BY ONLY <2>1
  <2>3. QED
    BY <2>2
<1>9. Covers(v, m, c.n) /\ m <= c.n /\ c.moved + k <= c.n
  BY <1>3, <1>4, <1>6, <1>7, <1>8, RestCovers
<1>10. v \in Seq(Buffers) /\ \A i \in DOMAIN v : v[i].len \in 0 .. c.n
  BY <1>9, LensAre
<1>11. PICK d : d = [Advance(c, k) EXCEPT !.iov = v]
  OBVIOUS
<1>12. d = After(c, k, v, c.mem, Running)
  <2>1. Advance(c, k) = After(c, k, c.iov, c.mem, Running)
    BY <1>1, VectorWriteIs
  <2>2. QED
    BY ONLY <1>11, <2>1, WithBuffers
<1>13. d.moved = m /\ d.iov = v
  BY <1>8, <1>12 DEF After
<1>14. PICK end \in BOOLEAN : end <=> k < len \/ v = <<>>
  OBVIOUS
<1>15. PICK r \in Results : r = IF end THEN Bytes(m) ELSE Running
  BY ResultTypes
<1>16. WriteOn(w, After(c, k, v, c.mem, r), Span(c.iov[1]), k)
  <2>1. WriteOn(w, IF k < len \/ d.iov = <<>> THEN Return(d, Bytes(d.moved)) ELSE d, Span(c.iov[1]), k)
    BY <1>5, <1>7, <1>11
  <2>2. WriteOn(w, IF end THEN Return(d, Bytes(m)) ELSE d, Span(c.iov[1]), k)
    BY <1>13, <1>14, <2>1
  <2>3. (IF end THEN Return(d, Bytes(m)) ELSE d)
          = After(c, k, v, c.mem, IF end THEN Bytes(m) ELSE Running)
    BY ONLY <1>12, end \in BOOLEAN, OutcomeIs
  <2>4. QED
    BY ONLY <1>15, <2>2, <2>3
<1>17. Judged(c, m, v, r)
  <2>1. CASE end
    <3>1. m > 0
      <4>1. CASE k < len
        <5>1. k > 0
          BY <1>6, <4>1
        <5>2. QED
          BY <1>3, <1>6, <1>8, <5>1
      <4>2. CASE v = <<>>
        <5>1. m = c.n
          BY <1>3, <1>9, <4>2, NoneLeft
        <5>2. QED
          BY <1>3, <5>1
      <4>3. QED
        BY <1>14, <2>1, <4>1, <4>2
    <3>2. r = Bytes(m)
      BY <1>15, <2>1
    <3>3. QED
      BY <1>2, <1>3, <1>9, <1>10, <3>1, <3>2, WriteEnds
  <2>2. CASE ~end
    BY <1>2, <1>9, <1>14, <1>15, <2>2, VectorGoesOn
  <2>3. QED
    BY <2>1, <2>2
<1>18. c.op \in {"writev_some", "writev_all"} /\ Judged(c, c.moved + k, v, r)
  BY <1>1, <1>8, <1>17
<1>19. Follow(c, Span(c.iov[1]), k)
  BY <1>3, <1>4, <1>6, SpanFollows
<1>20. QED
  BY ONLY IInv, w \in Clients, c = call[w], r \in Results, UNCHANGED <<os, begun>>,
          <1>1, <1>6, <1>9, <1>10, <1>16, <1>18, <1>19, VectorWrite

\* i_readv_all of os_windows/file.c: requests per buffer.
LEMMA WindowsReadvAll ==
  ASSUME IInv, NEW w \in Clients, UNCHANGED <<os, begun>>, os = "windows", W!ReadvAll(w), ~W!Fail(w)
  PROVE  Move(w)
<1> PICK c : c = call[w]
  OBVIOUS
<1>1. Pending(w) /\ c.op = "readv_all"
  BY WindowsUses DEF W!ReadvAll
<1>2. c.op \in VectorReads /\ c.op \notin Partial /\ c.op \notin Writing /\ ~Single(os, c.op)
  BY <1>1, Sorts DEF VectorReads, Single
<1>3. Sizes(c) /\ c.moved \in Nat /\ c.n \in Nat /\ c.moved < c.n /\ pos = c.at + c.moved /\ pos \in Nat
      /\ c.at \in Nat /\ file \in Seq(Content) /\ Covers(c.iov, c.moved, c.n) /\ c.op \in Vectored
  BY <1>1, <1>2, VectorIs
<1> PICK u : u = W!NonEmpty(c.iov)
  OBVIOUS
<1>4. Covers(u, c.moved, c.n) /\ u # <<>> /\ u[1].len > 0
  BY <1>3, NonEmptyCovers
<1>5. PICK len \in Nat, want \in Nat :
        len = u[1].len /\ want = W!Want(len) /\ want > 0 /\ want <= len /\ len > 0
  <2>1. u[1].len \in Nat
    BY <1>3, <1>4, FirstIs
  <2>2. PICK len \in Nat : len = u[1].len /\ len > 0
    BY <1>4, <2>1
  <2>3. QED
    BY <2>2, WantIs
<1>6. PICK k \in ReadCounts(pos, want) :
        LET d == [Read(c, Span(u[1]), pos, k) EXCEPT !.iov = W!NonEmpty(W!Rest(u, k))] IN
        ReadOn(w, IF k = 0 \/ d.iov = <<>> THEN Return(d, Bytes(d.moved)) ELSE d, k)
  <2>1. PICK k \in W!ReadCounts(pos, W!Want(u[1].len)) :
          LET d == [W!Read(c, W!Span(u[1]), pos, k) EXCEPT !.iov = W!NonEmpty(W!Rest(u, k))]
          IN  W!ReadOn(w, IF W!AtEnd(k) \/ d.iov = <<>>
                          THEN W!Return(d, W!Bytes(d.moved)) ELSE d, k)
    BY ONLY W!ReadvAll(w), ~W!Fail(w), c = call[w], u = W!NonEmpty(c.iov) DEF W!ReadvAll
  <2>2. k \in ReadCounts(pos, want)
    BY <1>5, <2>1, WindowsUses
  <2>3. W!AtEnd(k) <=> k = 0
    BY DEF W!AtEnd
  <2>4. W!Span(u[1]) = Span(u[1])
    BY VectorUses
  <2>5. QED
    BY ONLY <2>1, <2>2, <2>3, <2>4, WindowsUses
<1>7. k \in Nat /\ k <= want /\ (k > 0 => pos + k <= Len(file)) /\ (k = 0 => Len(file) <= pos)
  <2>1. /\ k \in Nat /\ k <= want /\ (k > 0 => pos + k <= Len(file))
        /\ k = 0 => want = 0 \/ Len(file) <= pos
    BY ONLY want \in Nat, k \in ReadCounts(pos, want), <1>3, CountsAre
  <2>2. QED
    BY ONLY <1>5, <2>1
<1>8. k <= len /\ c.moved \in Nat /\ k \in Nat
  <2>1. k <= want /\ want <= len /\ k \in Nat /\ want \in Nat /\ len \in Nat
    BY <1>5, <1>7
  <2>2. QED
    BY <1>3, <2>1
<1>9. PICK m \in Nat : m = c.moved + k
  BY <1>8
<1>10. Covers(W!Rest(u, k), m, c.n) /\ m <= c.n /\ c.moved + k <= c.n
  <2>1. k <= u[1].len
    BY <1>5, <1>8
  <2>2. Covers(W!Rest(u, k), c.moved + k, c.n) /\ c.moved + k <= c.n
    BY ONLY <1>3, <1>4, <1>8, <2>1, RestCovers
  <2>3. QED
    BY <1>9, <2>2
<1>11. PICK v : v = W!NonEmpty(W!Rest(u, k))
  OBVIOUS
<1>12. Covers(v, m, c.n) /\ (v = <<>> <=> m = c.n)
  BY <1>3, <1>10, <1>11, NonEmptyCovers
<1>13. v \in Seq(Buffers) /\ \A i \in DOMAIN v : v[i].len \in 0 .. c.n
  BY <1>12, LensAre
<1>14. PICK d : d = [Read(c, Span(u[1]), pos, k) EXCEPT !.iov = v]
  OBVIOUS
<1>15. d = After(c, k, v, NewMem(c, k), Running)
  <2>1. Follow(c, Span(u[1]), k)
    BY <1>3, <1>4, <1>5, <1>8, SpanFollows
  <2>2. c.op \in {"readv_some", "readv_all"}
    BY <1>1
  <2>3. Read(c, Span(u[1]), pos, k) = After(c, k, c.iov, NewMem(c, k), Running)
    BY ONLY IInv, w \in Clients, c = call[w], <1>1, <1>8, <1>10, <2>1, <2>2, VectorReadIs
  <2>4. QED
    BY ONLY <1>14, <2>3, WithBuffers
<1>16. d.moved = m /\ d.iov = v
  BY <1>9, <1>15 DEF After
<1>17. PICK end \in BOOLEAN : end <=> k = 0 \/ v = <<>>
  OBVIOUS
<1>18. PICK r \in Results : r = IF end THEN Bytes(m) ELSE Running
  BY ResultTypes
<1>19. ReadOn(w, After(c, k, v, NewMem(c, k), r), k)
  <2>1. ReadOn(w, IF k = 0 \/ d.iov = <<>> THEN Return(d, Bytes(d.moved)) ELSE d, k)
    BY <1>6, <1>11, <1>14
  <2>2. ReadOn(w, IF end THEN Return(d, Bytes(m)) ELSE d, k)
    BY <1>16, <1>17, <2>1
  <2>3. (IF end THEN Return(d, Bytes(m)) ELSE d)
          = After(c, k, v, NewMem(c, k), IF end THEN Bytes(m) ELSE Running)
    BY ONLY <1>15, end \in BOOLEAN, OutcomeIs
  <2>4. QED
    BY ONLY <1>18, <2>2, <2>3
<1>20. Judged(c, m, v, r)
  <2>1. CASE end
    <3>1. m < c.n => Len(file) <= c.at + m
      <4>1. m < c.n => k = 0
        <5>1. m = c.n \/ k = 0
          BY <1>12, <1>17, <2>1
        <5>2. m \in Nat /\ c.n \in Nat
          BY <1>3
        <5>3. QED
          BY ONLY <5>1, <5>2
      <4>2. k = 0 => m = c.moved /\ pos = c.at + m
        BY <1>3, <1>9
      <4>3. QED
        BY <1>7, <4>1, <4>2
    <3>2. Ended(c, m, r)
      BY <1>18, <2>1 DEF Ended
    <3>3. QED
      BY <1>2, <1>3, <1>10, <1>13, <3>1, <3>2, ReadEnds
  <2>2. CASE ~end
    <3>1. r = Running /\ v # <<>> /\ m # c.n
      BY <1>12, <1>17, <1>18, <2>2
    <3>2. m < c.n
      BY <1>3, <1>10, <3>1
    <3>3. QED
      BY <1>2, <1>3, <1>12, <3>1, <3>2, VectorGoesOn
  <2>3. QED
    BY <2>1, <2>2
<1>21. c.op \in {"readv_some", "readv_all"} /\ Judged(c, c.moved + k, v, r)
  BY <1>1, <1>9, <1>20
<1>22. QED
  BY ONLY IInv, w \in Clients, c = call[w], r \in Results, UNCHANGED <<os, begun>>,
          <1>1, <1>7, <1>10, <1>13, <1>19, <1>21, VectorRead

\* i_writev_all of os_windows/file.c: requests per buffer.
LEMMA WindowsWritevAll ==
  ASSUME IInv, NEW w \in Clients, UNCHANGED <<os, begun>>, os = "windows", W!WritevAll(w), ~W!Fail(w)
  PROVE  Move(w)
<1> PICK c : c = call[w]
  OBVIOUS
<1>1. Pending(w) /\ c.op = "writev_all"
  BY WindowsUses DEF W!WritevAll
<1>2. c.op \in VectorWrites /\ c.op \notin Partial /\ c.op \in Writing /\ ~Single(os, c.op)
  BY <1>1, Sorts DEF VectorWrites, Single
<1>3. Sizes(c) /\ c.moved \in Nat /\ c.n \in Nat /\ c.moved < c.n
      /\ Covers(c.iov, c.moved, c.n) /\ c.op \in Vectored
  BY <1>1, <1>2, VectorIs
<1> PICK u : u = W!NonEmpty(c.iov)
  OBVIOUS
<1>4. Covers(u, c.moved, c.n) /\ u # <<>> /\ u[1].len > 0
  BY <1>3, NonEmptyCovers
<1>5. PICK len \in Nat, want \in Nat :
        len = u[1].len /\ want = W!Want(len) /\ want > 0 /\ want <= len /\ len > 0
  <2>1. u[1].len \in Nat
    BY <1>3, <1>4, FirstIs
  <2>2. PICK len \in Nat : len = u[1].len /\ len > 0
    BY <1>4, <2>1
  <2>3. QED
    BY <2>2, WantIs
<1>6. PICK k \in WriteCounts(want) :
        LET d == [Advance(c, k) EXCEPT !.iov = W!NonEmpty(W!Rest(u, k))] IN
        WriteOn(w, IF d.iov = <<>> THEN Return(d, Success) ELSE d, Span(u[1]), k)
  <2>1. PICK k \in W!WriteCounts(W!Want(u[1].len)) :
          LET d == [W!Advance(c, k) EXCEPT !.iov = W!NonEmpty(W!Rest(u, k))]
          IN  W!WriteOn(w, IF d.iov = <<>> THEN W!Return(d, W!Success) ELSE d,
                        W!Span(u[1]), k)
    BY ONLY W!WritevAll(w), ~W!Fail(w), c = call[w], u = W!NonEmpty(c.iov) DEF W!WritevAll
  <2>2. k \in WriteCounts(want)
    BY <1>5, <2>1, WindowsUses
  <2>3. W!Span(u[1]) = Span(u[1])
    BY VectorUses
  <2>4. QED
    BY ONLY <2>1, <2>2, <2>3, WindowsUses
<1>7. k \in Nat /\ k <= want /\ k > 0
  BY <1>5, <1>6 DEF WriteCounts
<1>8. k <= len /\ c.moved \in Nat /\ k \in Nat
  <2>1. k <= want /\ want <= len /\ k \in Nat /\ want \in Nat /\ len \in Nat
    BY <1>5, <1>7
  <2>2. QED
    BY <1>3, <2>1
<1>9. PICK m \in Nat : m = c.moved + k
  BY <1>8
<1>10. Covers(W!Rest(u, k), m, c.n) /\ m <= c.n /\ c.moved + k <= c.n
  <2>1. k <= u[1].len
    BY <1>5, <1>8
  <2>2. Covers(W!Rest(u, k), c.moved + k, c.n) /\ c.moved + k <= c.n
    BY ONLY <1>3, <1>4, <1>8, <2>1, RestCovers
  <2>3. QED
    BY <1>9, <2>2
<1>11. PICK v : v = W!NonEmpty(W!Rest(u, k))
  OBVIOUS
<1>12. Covers(v, m, c.n) /\ (v = <<>> <=> m = c.n)
  BY <1>3, <1>10, <1>11, NonEmptyCovers
<1>13. v \in Seq(Buffers) /\ \A i \in DOMAIN v : v[i].len \in 0 .. c.n
  BY <1>12, LensAre
<1>14. PICK d : d = [Advance(c, k) EXCEPT !.iov = v]
  OBVIOUS
<1>15. d = After(c, k, v, c.mem, Running)
  <2>1. Advance(c, k) = After(c, k, c.iov, c.mem, Running)
    BY <1>1, VectorWriteIs
  <2>2. QED
    BY ONLY <1>14, <2>1, WithBuffers
<1>16. d.moved = m /\ d.iov = v
  BY <1>9, <1>15 DEF After
<1>17. PICK end \in BOOLEAN : end <=> v = <<>>
  OBVIOUS
<1>18. PICK r \in Results : r = IF end THEN Success ELSE Running
  BY ResultTypes
<1>19. WriteOn(w, After(c, k, v, c.mem, r), Span(u[1]), k)
  <2>1. WriteOn(w, IF d.iov = <<>> THEN Return(d, Success) ELSE d, Span(u[1]), k)
    BY <1>6, <1>11, <1>14
  <2>2. WriteOn(w, IF end THEN Return(d, Success) ELSE d, Span(u[1]), k)
    BY <1>16, <1>17, <2>1
  <2>3. (IF end THEN Return(d, Success) ELSE d)
          = After(c, k, v, c.mem, IF end THEN Success ELSE Running)
    BY ONLY <1>15, end \in BOOLEAN, OutcomeIs
  <2>4. QED
    BY ONLY <1>18, <2>2, <2>3
<1>20. Judged(c, m, v, r)
  <2>1. CASE end
    <3>1. m = c.n /\ r = Success /\ m > 0
      BY <1>3, <1>12, <1>17, <1>18, <2>1
    <3>2. QED
      BY <1>2, <1>3, <1>10, <1>13, <3>1, WriteEnds
  <2>2. CASE ~end
    <3>1. r = Running /\ v # <<>> /\ m # c.n
      BY <1>12, <1>17, <1>18, <2>2
    <3>2. m < c.n
      BY <1>3, <1>10, <3>1
    <3>3. QED
      BY <1>2, <1>3, <1>12, <3>1, <3>2, VectorGoesOn
  <2>3. QED
    BY <2>1, <2>2
<1>21. c.op \in {"writev_some", "writev_all"} /\ Judged(c, c.moved + k, v, r)
  BY <1>1, <1>9, <1>20
<1>22. Follow(c, Span(u[1]), k)
  BY <1>3, <1>4, <1>5, <1>8, SpanFollows
<1>23. QED
  BY ONLY IInv, w \in Clients, c = call[w], r \in Results, UNCHANGED <<os, begun>>,
          <1>1, <1>7, <1>10, <1>13, <1>19, <1>21, <1>22, VectorWrite

-----------------------------------------------------------------------------
(* Signals.                                                                 *)

\* The calls as the backend sorts them, for a signal.
LEMMA PosixSorts ==
  /\ P!Vectored = Vectored /\ P!Positional = Positional
  /\ P!StreamReads = StreamReads /\ P!Partial = Partial
BY DEF P!Vectored, P!VectorReads, P!VectorWrites, P!Positional, P!PositionalReads,
   P!PositionalWrites,
       P!StreamReads, P!Partial, Vectored, VectorReads, VectorWrites, Positional, PositionalReads,
       PositionalWrites, StreamReads, Partial

\* What each call makes of a request that a signal ended.
LEMMA SignalIs ==
  ASSUME NEW c
  PROVE  /\ c.op \in StreamReads => P!OnSignal(c) = P!Return(c, P!ReadAllExpect(c, P!Bytes(0)))
         /\ c.op \notin StreamReads /\ c.op \in Partial => P!OnSignal(c) = P!Return(c, P!Failed)
         /\ c.op \notin StreamReads \cup Partial /\ c.op \in {"readv_all", "writev_all"} =>
              P!OnSignal(c) = c
         /\ c.op \notin StreamReads \cup Partial /\ c.op \notin {"readv_all", "writev_all"} =>
              P!OnSignal(c) = P!StepBack(c)
<1>1. ASSUME c.op \in P!StreamReads PROVE P!OnSignal(c) = P!Return(c, P!ReadAllExpect(c, P!Bytes(0)))
  BY <1>1 DEF P!OnSignal, P!StreamReads, P!Partial
<1>2. ASSUME c.op \notin P!StreamReads, c.op \in P!Partial PROVE P!OnSignal(c) = P!Return(c, P!Failed)
  BY <1>2 DEF P!OnSignal, P!StreamReads, P!Partial
<1>3. ASSUME c.op \notin P!StreamReads, c.op \notin P!Partial, c.op \in {"readv_all", "writev_all"}
      PROVE  P!OnSignal(c) = c
  BY <1>3 DEF P!OnSignal, P!StreamReads, P!Partial
<1>4. ASSUME c.op \notin P!StreamReads, c.op \notin P!Partial, c.op \notin {"readv_all", "writev_all"}
      PROVE  P!OnSignal(c) = P!StepBack(c)
  BY <1>4 DEF P!OnSignal, P!StreamReads, P!Partial
<1>5. QED
  BY <1>1, <1>2, <1>3, <1>4, PosixSorts

\* The calls that are left for StepBack.
LEMMA OtherSorts ==
  ASSUME NEW op \in Ops, op \notin StreamReads, op \notin Partial, op \notin {"readv_all", "writev_all"}
  PROVE  op \notin Vectored /\ (op \in Positional \/ op \in Streamed) /\ op \notin StreamReads \cup Partial
BY DEF Ops, Positional, Streamed, PositionalReads, PositionalWrites, StreamReads,
   StreamWrites, Vectored,
       VectorReads, VectorWrites, Partial

\* One less, in an unsigned word.
LEMMA BackIs ==
  ASSUME NEW m \in Nat, NEW n \in Nat, n > 1, m < n
  PROVE  (m + n - 1) % n = IF m = 0 THEN n - 1 ELSE m - 1
<1>1. CASE m = 0
  <2>1. m + n - 1 = n - 1 /\ n - 1 \in 0 .. n - 1
    BY <1>1
  <2>2. (n - 1) % n = n - 1
    OBVIOUS
  <2>3. QED
    BY <1>1, <2>1, <2>2
<1>2. CASE m > 0
  <2>1. PICK k \in Nat : k = m - 1 /\ k < n
    BY <1>2
  <2>2. (k + n) % n = k
    BY <2>1
  <2>3. m + n - 1 = k + n
    BY <2>1
  <2>4. QED
    BY <1>2, <2>1, <2>2, <2>3
<1>3. QED
  BY <1>1, <1>2

\* What the backend makes of a signal.
LEMMA PosixInterrupted ==
  ASSUME IInv, NEW w \in Clients, UNCHANGED <<os, begun>>, os = "posix", P!Interrupted(w),
         "stream" \notin Interruptible
  PROVE  Move(w)
<1> PICK c : c = call[w]
  OBVIOUS
<1>1. Pending(w)
  BY DEF P!Interrupted, P!Pending, P!InCall, P!Running, Pending, InCall, Running
<1>2. Sizes(c) /\ c.ret = Running /\ c.moved <= c.n /\ Ahead(os, c, c.moved, c.iov)
  BY <1>1, PendingIs
<1>3. c = [op |-> c.op, at |-> c.at, n |-> c.n, iov |-> c.iov, moved |-> c.moved,
           far |-> c.far, signals |-> c.signals, mem |-> c.mem, ret |-> c.ret]
      /\ c.op \in Ops /\ c.moved \in Nat /\ c.signals \in Nat /\ c.n \in Nat /\ c.n > 0 /\ c.n < Word - 1
  BY <1>2, CallIs
<1>4. /\ c.signals < MaxInterrupts
      /\ \/ c.op \in Vectored
         \/ /\ c.op \notin Vectored /\ (c.moved = 0 => "start" \in Interruptible)
            /\ c.moved > 0 => c.op \in Positional
  BY PosixSorts DEF P!Interrupted, P!Interrupt
<1>5. PICK d : d = P!OnSignal(c)
  OBVIOUS
<1>6. call' = [call EXCEPT ![w] = [d EXCEPT !.signals = @ + 1]] /\ UNCHANGED <<file, pos>>
  BY <1>5, PosixUses DEF P!Interrupted, Leave, Set
<1>7. PICK s : s = c.signals + 1
  OBVIOUS
<1> DEFINE Sig(m, r) ==
             \/ r = Running /\ m = c.moved /\ ~Single(os, c.op)
             \/ r = Running /\ m \in Nat /\ m + 1 = c.moved /\ c.op \in Positional \ Partial
             \/ r = Failed /\ m = c.moved
             \/ /\ "start" \in Interruptible /\ c.moved = 0
                /\ \/ r = Asserted /\ m = Word - 1
                   \/ r \in {Bytes(0), Corrupt} /\ m = 0
           With(m, r) == [c EXCEPT !.moved = m, !.ret = r]
<1> HIDE DEF Sig, With
<1>8. \A m \in Nat, r \in Results : Sig(m, r) /\ d = With(m, r) => Move(w)
  <2> TAKE m \in Nat, r \in Results
  <2> HAVE Sig(m, r) /\ d = With(m, r)
  <2>1. [d EXCEPT !.signals = @ + 1] = [c EXCEPT !.moved = m, !.signals = c.signals + 1, !.ret = r]
    BY <1>3 DEF With
  <2>2. Signalled(w, m, r)
    BY <1>1, <1>4, <1>6, <2>1 DEF Signalled, Sig
  <2>3. QED
    BY <2>2 DEF Move
<1>9. CASE c.op \in StreamReads
  <2>1. c.op \notin Vectored /\ c.op \notin Positional /\ c.moved = 0 /\ "start" \in Interruptible
    <3>1. c.op \notin Vectored /\ c.op \notin Positional
      BY <1>9 DEF StreamReads, Vectored, VectorReads, VectorWrites, Positional,
         PositionalReads, PositionalWrites
    <3>2. QED
      BY <1>3, <1>4, <3>1
  <2>2. d = P!Return(c, P!ReadAllExpect(c, P!Bytes(0)))
    BY <1>5, <1>9, SignalIs
  <2>3. PICK r : r = P!ReadAllExpect(c, P!Bytes(0))
    OBVIOUS
  <2>4. r \in {Bytes(0), Corrupt}
    BY <1>3, <2>3 DEF P!ReadAllExpect, P!Bytes, P!Corrupt, Bytes, Corrupt
  <2>5. r \in Results
    BY <2>4, ResultTypes
  <2>6. d = With(c.moved, r)
    BY <1>3, <2>2, <2>3, PosixUses DEF Return, With
  <2>7. Sig(c.moved, r)
    BY <2>1, <2>4 DEF Sig
  <2>8. c.moved \in Nat
    BY <1>3
  <2>9. QED
    BY ONLY <1>8, <2>5, <2>6, <2>7, <2>8
<1>10. CASE c.op \notin StreamReads /\ c.op \in Partial
  <2>1. d = P!Return(c, P!Failed)
    BY <1>5, <1>10, SignalIs
  <2>2. d = With(c.moved, Failed)
    BY <1>3, <2>1, PosixUses DEF Return, P!Failed, Failed, With
  <2>3. c.moved \in Nat /\ Failed \in Results /\ Sig(c.moved, Failed)
    BY <1>3, ResultTypes DEF Sig
  <2>4. QED
    BY ONLY <1>8, <2>2, <2>3
<1>11. CASE c.op \notin StreamReads /\ c.op \notin Partial /\ c.op \in {"readv_all", "writev_all"}
  <2>1. d = c
    BY <1>5, <1>11, SignalIs
  <2>2. d = With(c.moved, Running)
    BY <1>2, <1>3, <2>1 DEF With
  <2>3. ~Single(os, c.op)
    BY <1>11 DEF Single
  <2>4. c.moved \in Nat /\ Running \in Results /\ Sig(c.moved, Running)
    BY <1>3, <2>3, ResultTypes DEF Sig
  <2>5. QED
    BY ONLY <1>8, <2>2, <2>4
<1>12. CASE c.op \notin StreamReads /\ c.op \notin Partial /\ c.op \notin {"readv_all", "writev_all"}
  <2>1. c.op \notin Vectored /\ (c.op \in Positional \/ c.op \in Streamed)
    BY <1>3, <1>12, OtherSorts
  <2>2. d = P!StepBack(c)
    BY <1>5, <1>12, SignalIs
  <2>3. PICK m : m = (c.moved + Word - 1) % Word
    OBVIOUS
  <2>4. m = IF c.moved = 0 THEN Word - 1 ELSE c.moved - 1
    <3>1. Word \in Nat /\ Word > 1 /\ c.moved < Word
      BY <1>2, <1>3, OsFileAssumption
    <3>2. QED
      BY ONLY <1>3, <2>3, <3>1, BackIs
  <2>5. PICK b : b = [c EXCEPT !.moved = m]
    OBVIOUS
  <2>6. b.moved = m /\ d = IF m < c.n THEN b ELSE P!Return(b, P!Asserted)
    <3>1. b = [c EXCEPT !.moved = (@ + Word - 1) % Word] /\ b.moved = m
      BY <1>3, <2>3, <2>5
    <3>2. QED
      BY <2>2, <3>1 DEF P!StepBack
  <2>7. CASE c.moved = 0
    <3>1. m = Word - 1 /\ ~(m < c.n) /\ m \in Nat /\ "start" \in Interruptible
      BY <1>3, <1>4, <2>1, <2>4, <2>7, OsFileAssumption
    <3>2. d = With(m, Asserted)
      BY <1>3, <2>5, <2>6, <3>1, PosixUses DEF Return, P!Asserted, Asserted, With
    <3>3. m \in Nat /\ Asserted \in Results /\ Sig(m, Asserted)
      BY <2>7, <3>1, ResultTypes DEF Sig
    <3>4. QED
      BY ONLY <1>8, <3>2, <3>3
  <2>8. CASE c.moved # 0
    <3>1. m \in Nat /\ m + 1 = c.moved /\ m < c.n /\ c.op \in Positional
      BY <1>2, <1>3, <1>4, <2>1, <2>4, <2>8
    <3>2. d = With(m, Running)
      BY <1>2, <1>3, <2>5, <2>6, <3>1 DEF With
    <3>3. m \in Nat /\ Running \in Results /\ Sig(m, Running)
      BY <1>12, <3>1, ResultTypes DEF Sig
    <3>4. QED
      BY ONLY <1>8, <3>2, <3>3
  <2>9. QED
    BY <2>7, <2>8
<1>13. QED
  BY <1>9, <1>10, <1>11, <1>12

-----------------------------------------------------------------------------
(* Every step of either backend is a move, and a move keeps the invariant.  *)

\* Every step of os_posix/file.c is one of the moves.
LEMMA PosixMoves ==
  ASSUME IInv, NEW w \in Clients, os = "posix", P!Step(w), "stream" \notin Interruptible
  PROVE  Move(w)
<1>1. UNCHANGED <<os, begun>>
  BY DEF P!Step
<1>2. CASE P!PreadSome(w) \/ P!ReadSome(w) \/ P!PreadAll(w) \/ P!ReadAll(w)
  BY <1>1, <1>2, PosixStraightReads
<1>3. CASE P!PwriteSome(w) \/ P!WriteSome(w) \/ P!PwriteAll(w) \/ P!WriteAll(w)
  BY <1>1, <1>3, PosixStraightWrites
<1>4. CASE P!Interrupted(w)
  BY <1>1, <1>4, PosixInterrupted
<1>5. CASE P!WritevSome(w) \/ P!WritevAll(w) \/ P!ReadvSome(w) \/ P!ReadvAll(w)
  <2>1. Pending(w)
    BY <1>5, PosixUses DEF P!WritevSome, P!WritevAll, P!ReadvSome, P!ReadvAll
  <2>2. CASE P!Fail(w)
    BY <1>1, <2>1, <2>2, PosixUses, FailedIs
  <2>3. CASE ~P!Fail(w)
    BY <1>1, <1>5, <2>3, PosixReadvSome, PosixReadvAll, PosixWritevSome, PosixWritevAll
  <2>4. QED
    BY <2>2, <2>3
<1>6. QED
  BY <1>2, <1>3, <1>4, <1>5 DEF P!Step

\* Every step of os_windows/file.c is one of the moves.
LEMMA WindowsMoves ==
  ASSUME IInv, NEW w \in Clients, os = "windows", W!Step(w)
  PROVE  Move(w)
<1>1. UNCHANGED <<os, begun>>
  BY DEF W!Step
<1>2. CASE W!PreadSome(w) \/ W!ReadSome(w) \/ W!PreadAll(w) \/ W!ReadAll(w)
  BY <1>1, <1>2, WindowsStraightReads
<1>3. CASE W!PwriteSome(w) \/ W!WriteSome(w) \/ W!PwriteAll(w) \/ W!WriteAll(w)
  BY <1>1, <1>3, WindowsStraightWrites
<1>4. CASE W!WritevSome(w) \/ W!WritevAll(w) \/ W!ReadvSome(w) \/ W!ReadvAll(w)
  <2>1. Pending(w)
    BY <1>4, WindowsUses DEF W!WritevSome, W!WritevAll, W!ReadvSome, W!ReadvAll
  <2>2. CASE W!Fail(w)
    BY <1>1, <2>1, <2>2, WindowsUses, FailedIs
  <2>3. CASE ~W!Fail(w)
    BY <1>1, <1>4, <2>3, WindowsReadvSome, WindowsReadvAll, WindowsWritevSome, WindowsWritevAll
  <2>4. QED
    BY <2>2, <2>3
<1>5. QED
  BY <1>2, <1>3, <1>4 DEF W!Step

\* Every step of either backend is one of the moves.
LEMMA StepMoves ==
  ASSUME IInv, NEW w \in Clients, Step(w), "stream" \notin Interruptible
  PROVE  Move(w)
BY PosixMoves, WindowsMoves DEF Step

\* The moves keep the invariant.
LEMMA MoveKeeps ==
  ASSUME IInv, NEW w \in Clients, Move(w)
  PROVE  IInv'
BY ReadsKeep, WritesKeep, FailsKeep, SignalledKeeps DEF Move

\* Every step keeps the invariant.
LEMMA NextKeeps ==
  ASSUME IInv, [Next]_vars, "stream" \notin Interruptible, ~Mixed
  PROVE  IInv'
<1>1. CASE Truncate \/ Fallocate \/ Seek
  BY <1>1, SizeKeeps
<1>2. ASSUME NEW w \in Clients, Begin(w) PROVE IInv'
  BY <1>2, BeginKeeps
<1>3. ASSUME NEW w \in Clients, Step(w) PROVE IInv'
  BY <1>3, StepMoves, MoveKeeps
<1>4. ASSUME NEW w \in Clients, Take(w) PROVE IInv'
  BY <1>4, TakeKeeps
<1>5. CASE UNCHANGED vars
  BY <1>5 DEF vars, IInv, Types, PositionFollows, Apart, Clash, InCall
<1>6. QED
  BY <1>1, <1>2, <1>3, <1>4, <1>5 DEF Next

\* The invariant is what the callers rely on.
LEMMA IInvGives ==
  ASSUME IInv
  PROVE  Inv
<1>1. TypeOK
  <2>1. /\ os \in {"posix", "windows"} /\ pos \in Nat /\ begun \in 0 .. MaxCalls
        /\ \A i \in DOMAIN file : file[i] \in Content
    BY DEF IInv, Types
  <2>2. ASSUME NEW w \in Clients, InCall(w)
        PROVE  LET c == call[w] IN
               /\ c.op \in Ops /\ c.at \in Nat /\ c.moved \in 0 .. Word - 1
               /\ c.far \in 0 .. c.n /\ c.signals \in 0 .. MaxInterrupts
               /\ DOMAIN c.mem = 1 .. c.n
               /\ \A i \in DOMAIN c.iov : c.iov[i].len \in 0 .. c.n
               /\ c.ret.tag \in {"running", "bytes", "ok", "error", "corrupt", "assert"}
    <3> PICK c : c = call[w]
      OBVIOUS
    <3>1. Sizes(c)
      BY <2>2, IInvIs
    <3>2. c.op \in Ops /\ c.at \in Nat /\ c.mem \in Seq(Content) /\ Len(c.mem) = c.n /\ c.ret \in Results
      BY <3>1, CallIs
    <3>3. DOMAIN c.mem = 1 .. c.n
      BY <3>2
    <3>4. QED
      BY <3>1, <3>2, <3>3, ResultIs DEF Sizes
  <2>3. QED
    BY <2>1, <2>2 DEF TypeOK, Content
<1>2. TransfersAreExact
  <2> SUFFICES ASSUME NEW w \in Clients, InCall(w), call[w].ret.tag \in {"ok", "bytes"},
                      NEW i \in 1 .. (IF call[w].ret.tag = "ok" THEN call[w].n ELSE call[w].ret.n)
               PROVE  call[w].at + i <= Len(file) /\ file[call[w].at + i] = call[w].mem[i]
    BY DEF TransfersAreExact
  <2> PICK c : c = call[w]
    OBVIOUS
  <2>1. Sizes(c) /\ Same(c, file) /\ Reported(c)
    BY IInvIs
  <2>2. c.far \in Nat /\ c.n \in Nat /\ c.ret \in Results
    BY <2>1, CallIs
  <2>3. i \in 1 .. c.far
    <3>1. CASE c.ret.tag = "ok"
      BY <2>1, <2>2, <3>1, ResultIs DEF Reported
    <3>2. CASE c.ret.tag = "bytes"
      BY <2>1, <2>2, <3>2, ResultIs DEF Reported
    <3>3. QED
      BY <3>1, <3>2
  <2>4. QED
    BY <2>1, <2>3 DEF Same
<1>3. QED
  BY <1>1, <1>2 DEF Inv

-----------------------------------------------------------------------------
\* The inductive invariant, when no signal finds a stream call under way and,
\* on Windows, calls that use the position have the handle to themselves.
THEOREM Safety ==
  ASSUME "stream" \notin Interruptible, ~Mixed
  PROVE  Spec => []IInv
<1>1. Init => IInv
  BY InitKeeps
<1>2. IInv /\ [Next]_vars => IInv'
  BY NextKeeps
<1>3. QED
  BY <1>1, <1>2, PTL DEF Spec

\* However transfers on a handle are split up, interrupted and interleaved,
\* what a call of file_system.h reports as moved is the same in the file and in
\* the caller's memory (the loops of both file.c).
THEOREM Exact ==
  ASSUME "stream" \notin Interruptible, ~Mixed
  PROVE  Spec => []Inv
BY Safety, IInvGives, PTL

\* Stream and vector calls leave the handle's position after the bytes they
\* moved.  On POSIX the positional calls of other threads do not disturb them;
\* on Windows those move the position (i_pread_all, i_pwrite_all), and callers
\* keep them away from stream and vector calls.
THEOREM Position ==
  ASSUME "stream" \notin Interruptible, ~Mixed
  PROVE  Spec => []PositionFollows
<1>1. IInv => PositionFollows
  BY DEF IInv
<1>2. QED
  BY <1>1, Safety, PTL

-----------------------------------------------------------------------------
(* The contract: what a caller sees of the calls.                           *)

\* The job a call is for its caller, and all of them: the mapping of Contract.
Made(c) ==
  [kind |-> IF c.op \in Writing THEN "write" ELSE "read",
   part |-> c.op \in Partial, at |-> c.at, n |-> c.n, done |-> c.far, mem |-> c.mem,
   ret  |-> c.ret]

Jobs == [w \in Clients |->
            IF ~InCall(w) THEN [kind |-> "none"]
            ELSE [kind |-> IF call[w].op \in Writing THEN "write" ELSE "read",
                  part |-> call[w].op \in Partial,
                  at   |-> call[w].at,   n    |-> call[w].n,
                  done |-> call[w].far,  mem  |-> call[w].mem,
                  ret  |-> call[w].ret]]

\* The jobs, thread by thread.
LEMMA JobsAre ==
  /\ DOMAIN Jobs = Clients
  /\ \A w \in Clients : InCall(w) => Jobs[w] = Made(call[w])
  /\ \A w \in Clients : ~InCall(w) => Jobs[w] = [kind |-> "none"]
BY DEF Jobs, Made

\* The jobs after a step, thread by thread.
LEMMA JobsBecome ==
  /\ DOMAIN Jobs' = Clients /\ Jobs' = [w \in Clients |-> Jobs'[w]]
  /\ \A w \in Clients : InCall(w)' => Jobs'[w] = Made(call'[w])
  /\ \A w \in Clients : ~InCall(w)' => Jobs'[w] = [kind |-> "none"]
BY DEF Jobs, Made

\* A step of one thread changes its job alone.
LEMMA OneJob ==
  ASSUME Types, NEW w \in Clients, NEW d, call' = [call EXCEPT ![w] = d]
  PROVE  /\ Jobs' = [Jobs EXCEPT ![w] = IF d.op = "none" THEN [kind |-> "none"] ELSE Made(d)]
         /\ d.op = "none" => Jobs'[w] = [kind |-> "none"]
         /\ d.op # "none" => Jobs'[w] = Made(d)
<1>1. call \in [Clients -> {Idle} \cup CallRecs]
  BY DEF Types
<1>2. call'[w] = d /\ \A u \in Clients : u # w => call'[u] = call[u]
  BY <1>1
<1>3. \A u \in Clients : u # w => Jobs'[u] = Jobs[u]
  BY <1>2, JobsAre, JobsBecome DEF InCall
<1>4. Jobs'[w] = IF d.op = "none" THEN [kind |-> "none"] ELSE Made(d)
  BY <1>2, JobsBecome DEF InCall
<1>5. Jobs = [u \in Clients |-> Jobs[u]]
  BY DEF Jobs
<1>6. QED
  BY <1>3, <1>4, <1>5, JobsBecome

\* The steps of the contract, told of Jobs.
Placed(i, j)   == [i EXCEPT !.done = j.done]
Put(j, i, k)   == [j EXCEPT !.done = j.done + k, !.mem = i.mem, !.ret = i.ret]
Kept(j, i, k)  == \A a \in 1 .. j.n : a \notin j.done + 1 .. j.done + k => i.mem[a] = j.mem[a]

\* Answer of the contract.
LEMMA AnswerIs ==
  ASSUME NEW w \in Clients, Jobs[w].kind # "none", Jobs[w].ret.tag = "running",
         NEW j, j = Jobs[w], NEW i, i = Jobs'[w], NEW k, k \in 0 .. j.n - j.done,
         Contract!Moved(file', Placed(i, j), k),
         j.kind = "write" => Contract!OnlyThere(j, k) /\ i.mem = j.mem,
         j.kind # "write" => UNCHANGED file /\ Kept(j, i, k),
         Contract!Allowed(j, j.done + k, i.ret),
         Jobs' = [Jobs EXCEPT ![w] = Put(j, i, k)]
  PROVE  Contract!Answer(w)
<1> DEFINE Changes(n) ==
             /\ Contract!Moved(file', [Jobs'[w] EXCEPT !.done = Jobs[w].done], n)
             /\ IF Jobs[w].kind = "write" THEN Contract!OnlyThere(Jobs[w], n) /\ Jobs'[w].mem = Jobs[w].mem
                ELSE /\ UNCHANGED file
                     /\ \A a \in 1 .. Jobs[w].n :
                          a \notin Jobs[w].done + 1 .. Jobs[w].done + n => Jobs'[w].mem[a] = Jobs[w].mem[a]
             /\ Contract!Allowed(Jobs[w], Jobs[w].done + n, Jobs'[w].ret)
             /\ Jobs' = [Jobs EXCEPT ![w] = [Jobs[w] EXCEPT !.done = Jobs[w].done + n,
                                                           !.mem  = Jobs'[w].mem,
                                                           !.ret  = Jobs'[w].ret]]
<1>1. Changes(k)
  BY DEF Placed, Put, Kept
<1> HIDE DEF Changes
<1>2. \E n \in 0 .. Jobs[w].n - Jobs[w].done : Changes(n)
  BY <1>1
<1>3. Jobs[w].kind # "none" /\ Jobs[w].ret.tag = "running"
  OBVIOUS
<1>4. QED
  BY ONLY <1>2, <1>3, Zenon DEF Changes, Contract!Answer, Contract!Active, Jobs

\* Ask of the contract.
LEMMA AskIs ==
  ASSUME NEW w \in Clients, Jobs[w] = Contract!NoJob, Jobs'[w].kind \in {"read", "write"},
         Jobs'[w].done = 0, Jobs'[w].ret.tag = "running",
         Jobs' = [Jobs EXCEPT ![w] = Jobs'[w]], UNCHANGED file
  PROVE  Contract!Ask(w)
BY DEF Contract!Ask, Jobs

\* Collect of the contract.
LEMMA CollectIs ==
  ASSUME NEW w \in Clients, Jobs[w] # Contract!NoJob, Jobs[w].ret.tag # "running",
         Jobs' = [Jobs EXCEPT ![w] = Contract!NoJob], UNCHANGED file
  PROVE  Contract!Collect(w)
BY DEF Contract!Collect, Contract!Active, Jobs

\* Resize of the contract.
LEMMA ResizeIs ==
  ASSUME \A w \in Clients : Jobs[w] = Contract!NoJob, UNCHANGED Jobs,
         \A i \in DOMAIN file' : file'[i] = IF i <= Len(file) THEN file[i] ELSE Zero
  PROVE  Contract!Resize
BY DEF Contract!Resize, Jobs

\* k more bytes of a call, with the call d after them.
LEMMA CallAnswers ==
  ASSUME IInv, NEW w \in Clients, Pending(w), NEW c, c = call[w], NEW d, Sizes(d),
         d.op = c.op, d.at = c.at, d.n = c.n, call' = [call EXCEPT ![w] = d],
         NEW k \in Nat, d.far = c.far + k, file' \in Seq(Content), Same(d, file'),
         c.op \in Writing => Contract!OnlyThere(Made(c), k) /\ d.mem = c.mem,
         c.op \notin Writing =>
           UNCHANGED file /\ \A a \in 1 .. c.n : a \notin c.far + 1 .. c.far + k => d.mem[a] = c.mem[a],
         Contract!Allowed(Made(c), d.far, d.ret)
  PROVE  Contract!Answer(w)
<1>1. Types /\ InCall(w) /\ Sizes(c) /\ c.ret = Running
  BY PendingIs DEF IInv, Pending
<1>2. c.op # "none" /\ d.op # "none"
  BY <1>1 DEF InCall
<1>3. PICK j : j = Made(c)
  OBVIOUS
<1>4. PICK i : i = Made(d)
  OBVIOUS
<1>5. Jobs[w] = j /\ Jobs'[w] = i /\ Jobs' = [Jobs EXCEPT ![w] = i]
  <2>1. Jobs[w] = Made(call[w])
    BY ONLY <1>1, w \in Clients, JobsAre
  <2>2. Jobs' = [Jobs EXCEPT ![w] = IF d.op = "none" THEN [kind |-> "none"] ELSE Made(d)]
    BY ONLY <1>1, w \in Clients, call' = [call EXCEPT ![w] = d], OneJob
  <2>3. Jobs'[w] = Made(d)
    BY ONLY <1>1, <1>2, w \in Clients, call' = [call EXCEPT ![w] = d], OneJob
  <2>4. (IF d.op = "none" THEN [kind |-> "none"] ELSE Made(d)) = Made(d)
    BY <1>2
  <2>5. QED
    BY ONLY <1>3, <1>4, <2>1, <2>2, <2>3, <2>4, c = call[w]
<1>6. /\ j.kind = (IF c.op \in Writing THEN "write" ELSE "read") /\ j.n = c.n /\ j.done = c.far
      /\ j.at = c.at /\ j.mem = c.mem /\ j.ret = c.ret /\ i.mem = d.mem /\ i.ret = d.ret /\ i.at = d.at
  BY <1>3, <1>4 DEF Made
<1>7. j.kind # "none" /\ j.ret.tag = "running"
  BY <1>1, <1>6, ResultTypes
<1>8. k \in 0 .. j.n - j.done /\ j.done + k = d.far
  <2>1. c.n \in Nat /\ c.far \in Nat /\ d.far \in Nat /\ d.far <= d.n
    BY <1>1, CallIs
  <2>2. QED
    BY <1>6, <2>1
<1>9. i = [j EXCEPT !.done = j.done + k, !.mem = i.mem, !.ret = i.ret]
  <2>1. i = [kind |-> IF c.op \in Writing THEN "write" ELSE "read",
             part |-> c.op \in Partial, at |-> c.at, n |-> c.n, done |-> d.far, mem |-> d.mem, ret |-> d.ret]
    BY <1>4 DEF Made
  <2>2. j = [kind |-> IF c.op \in Writing THEN "write" ELSE "read",
             part |-> c.op \in Partial, at |-> c.at, n |-> c.n, done |-> c.far, mem |-> c.mem, ret |-> c.ret]
    BY <1>3 DEF Made
  <2>3. PICK e : e = [j EXCEPT !.done = d.far, !.mem = d.mem, !.ret = d.ret]
    OBVIOUS
  <2>4. e = [kind |-> IF c.op \in Writing THEN "write" ELSE "read",
             part |-> c.op \in Partial, at |-> c.at, n |-> c.n, done |-> d.far, mem |-> d.mem, ret |-> d.ret]
    BY ONLY <2>2, <2>3
  <2>5. QED
    BY <1>6, <1>8, <2>1, <2>3, <2>4
<1>10. Contract!Moved(file', Placed(i, j), k)
  <2>1. PICK e : e = [i EXCEPT !.done = j.done]
    OBVIOUS
  <2>2. e.at = c.at /\ e.done = c.far /\ e.mem = d.mem
    BY <1>4, <1>6, <2>1 DEF Made
  <2>5. e = Placed(i, j)
    BY <2>1 DEF Placed
  <2>3. ASSUME NEW a \in 1 .. k
        PROVE  c.at + c.far + a \in DOMAIN file' /\ file'[c.at + c.far + a] = d.mem[c.far + a]
    <3>1. c.at \in Nat /\ c.far \in Nat
      BY <1>1, CallIs
    <3>2. PICK b \in Nat : b = c.far + a
      BY <3>1
    <3>3. b \in 1 .. d.far
      BY <2>3, <3>1, <3>2
    <3>4. d.at + b <= Len(file') /\ file'[d.at + b] = d.mem[b]
      BY <3>3 DEF Same
    <3>5. c.at + c.far + a = c.at + b /\ c.at + b \in Nat /\ c.at + b > 0
      <4>1. a \in Nat /\ a > 0
        OBVIOUS
      <4>2. QED
        BY ONLY <3>1, <3>2, <4>1
    <3>6. c.at + b \in DOMAIN file'
      BY <3>4, <3>5
    <3>7. QED
      BY <3>2, <3>4, <3>5, <3>6
  <2>4. QED
    BY <2>2, <2>3, <2>5 DEF Contract!Moved
<1>11. j.kind = "write" => Contract!OnlyThere(j, k) /\ i.mem = j.mem
  BY <1>3, <1>6
<1>12. j.kind # "write" => UNCHANGED file /\ Kept(j, i, k)
  BY <1>6 DEF Kept
<1>13. Contract!Allowed(j, j.done + k, i.ret)
  BY <1>3, <1>6, <1>8
<1>14. Jobs' = [Jobs EXCEPT ![w] = Put(j, i, k)]
  BY <1>5, <1>9 DEF Put
<1>15. QED
  <2>1. j = Jobs[w] /\ i = Jobs'[w] /\ Jobs[w].kind # "none" /\ Jobs[w].ret.tag = "running"
    BY <1>5, <1>7
  <2>2. QED
    BY ONLY w \in Clients, <1>8, <1>10, <1>11, <1>12, <1>13, <1>14, <2>1, AnswerIs

\* The results of a call after m bytes are those the contract allows.
LEMMA JudgedIsAllowed ==
  ASSUME NEW c, Sizes(c), Underway(os, c), Same(c, file), file \in Seq(Content), c.ret = Running,
         NEW m \in Nat, c.moved <= m, m <= c.n, NEW v, NEW r, Judged(c, m, v, r),
         NEW far, far = IF c.far < m THEN m ELSE c.far
  PROVE  Contract!Allowed(Made(c), far, r)
<1>0. c.far \in Nat /\ c.n \in Nat /\ c.at \in Nat /\ c.moved \in Nat /\ c.far <= c.n /\ Len(file) \in Nat
  BY CallIs
<1>1. PICK j : j = Made(c)
  OBVIOUS
<1>2. /\ j.kind = (IF c.op \in Writing THEN "write" ELSE "read") /\ j.n = c.n /\ j.at = c.at
      /\ j.part <=> c.op \in Partial
  BY <1>1 DEF Made
<1>3. c.op \in Partial => far = m
  <2>1. c.op \in Partial /\ c.op \in Positional => c.far = 0
    BY Kinds DEF Underway, Single
  <2>2. c.op \notin Positional => c.far = c.moved
    BY DEF Underway
  <2>3. QED
    BY <1>0, <2>1, <2>2
<1>4. Len(file) <= c.at + m => far = m
  <2> SUFFICES ASSUME Len(file) <= c.at + m, c.far > m PROVE FALSE
    BY <1>0
  <2>1. c.far \in 1 .. c.far
    BY <1>0
  <2>2. c.at + c.far <= Len(file)
    BY <2>1 DEF Same
  <2>3. QED
    BY ONLY <1>0, <2>2, Len(file) <= c.at + m, c.far > m, m \in Nat
<1>5. m = c.n => far = m
  BY <1>0
<1>6. CASE r = Running
  BY <1>6, ResultTypes DEF Contract!Allowed
<1>7. CASE r = Success /\ m = c.n
  <2>1. r.tag = "ok" /\ far = j.n
    BY <1>2, <1>5, <1>7, ResultTypes
  <2>2. QED
    BY <1>1, <2>1 DEF Contract!Allowed
<1>8. CASE /\ r = Bytes(m)
           /\ c.op \in Writing => m > 0 /\ c.op \in Partial
           /\ c.op \notin Writing /\ c.op \in Partial => (m = 0 => Len(file) <= c.at)
           /\ c.op \notin Writing /\ c.op \notin Partial => (m < c.n => Len(file) <= c.at + m)
  <2>1. r.tag = "bytes" /\ r.n = m
    BY <1>8, ResultTypes
  <2>2. far = m
    BY <1>0, <1>3, <1>4, <1>5, <1>8
  <2>3. j.kind = "write" => far > 0
    BY <1>2, <1>8, <2>2
  <2>4. j.kind = "read" /\ j.part /\ far = 0 => Contract!EndsAt(file, j.at)
    BY <1>2, <1>8, <2>2 DEF Contract!EndsAt
  <2>5. j.kind = "read" /\ ~j.part /\ far < j.n => Contract!EndsAt(file, j.at + far)
    BY <1>2, <1>8, <2>2 DEF Contract!EndsAt
  <2>6. QED
    BY <1>1, <2>1, <2>2, <2>3, <2>4, <2>5 DEF Contract!Allowed
<1>9. CASE r = Corrupt /\ c.op \notin Writing /\ m < c.n /\ Len(file) <= c.at + m
  <2>1. r.tag = "corrupt" /\ far = m /\ j.kind = "read" /\ far < j.n
    BY <1>2, <1>4, <1>9, ResultTypes
  <2>2. Contract!EndsAt(file, j.at + far)
    BY <1>2, <1>9, <2>1 DEF Contract!EndsAt
  <2>3. QED
    BY <1>1, <2>1, <2>2 DEF Contract!Allowed
<1>10. QED
  BY <1>6, <1>7, <1>8, <1>9 DEF Judged

\* A read of k bytes is an answer of the contract.
LEMMA ReadsAnswer ==
  ASSUME IInv, NEW w \in Clients, NEW k \in Nat, NEW v \in Seq(Buffers), NEW r \in Results,
         Reads(w, k, v, r)
  PROVE  Contract!Answer(w)
<1> PICK c : c = call[w]
  OBVIOUS
<1> PICK d : d = After(c, k, v, NewMem(c, k), r)
  OBVIOUS
<1> PICK m : m = c.moved + k
  OBVIOUS
<1>1. /\ Pending(w) /\ m <= c.n /\ call' = [call EXCEPT ![w] = d]
      /\ os' = os /\ file' = file /\ c.op \notin Writing
      /\ k > 0 => c.at + c.moved + k <= Len(file)
      /\ Judged(c, m, v, r)
  BY DEF Reads, Moves
<1>2. InCall(w) /\ c.ret = Running
  BY <1>1 DEF Pending
<1>3. Sizes(c) /\ Same(c, file) /\ Underway(os, c) /\ file \in Seq(Content)
  BY <1>2, IInvIs DEF IInv, Types
<1>4. c.at \in Nat /\ c.moved \in Nat /\ c.far \in Nat /\ c.n \in Nat /\ m \in Nat /\ c.moved <= m
      /\ c.moved <= c.far /\ c.far <= c.n
  BY <1>2, <1>3, CallIs DEF Underway
<1>5. NewMem(c, k) \in Seq(Content) /\ Len(NewMem(c, k)) = c.n
  BY <1>1, <1>3, NewMemIs
<1>6. \A i \in DOMAIN v : v[i].len \in 0 .. c.n
  BY <1>1 DEF Judged
<1>7. Sizes(d) /\ d.op = c.op /\ d.at = c.at /\ d.n = c.n /\ d.mem = NewMem(c, k) /\ d.ret = r
      /\ d.far = IF c.far < m THEN m ELSE c.far
  BY <1>1, <1>3, <1>5, <1>6, AfterFits DEF After
<1>8. Same(d, file')
  BY <1>1, <1>3, <1>4, ReadIsSame
<1>9. PICK g \in Nat : g = d.far - c.far
  BY <1>4, <1>7
<1>10. d.far = c.far + g /\ m <= c.far + g
  <2>1. PICK f \in Nat, e \in Nat : f = c.far /\ e = d.far
    BY <1>4, <1>7
  <2>2. e = (IF f < m THEN m ELSE f) /\ g = e - f
    BY <1>7, <1>9, <2>1
  <2>3. e = f + g /\ m <= f + g
    BY ONLY <1>4, <2>2, f \in Nat, g \in Nat
  <2>4. QED
    BY <2>1, <2>3
<1>11. ASSUME NEW a \in 1 .. c.n, a \notin c.far + 1 .. c.far + g PROVE d.mem[a] = c.mem[a]
  <2>1. d.mem[a] = IF a > c.moved /\ a <= m THEN file[c.at + a] ELSE c.mem[a]
    BY <1>1, <1>3, <1>7, NewMemIs
  <2>2. a \in Nat /\ ~(a > c.far /\ a <= c.far + g)
    BY <1>4, <1>11
  <2>3. CASE a > c.moved /\ a <= m
    <3>1. a \in 1 .. c.far
      BY ONLY <1>4, <1>10, <1>11, <2>2, <2>3, a \in 1 .. c.n, g \in Nat
    <3>2. QED
      BY <1>3, <2>1, <2>3, <3>1 DEF Same
  <2>4. QED
    BY <2>1, <2>3
<1>12. Contract!Allowed(Made(c), d.far, d.ret)
  BY <1>1, <1>2, <1>3, <1>4, <1>7, JudgedIsAllowed
<1>13. UNCHANGED file /\ \A a \in 1 .. c.n : a \notin c.far + 1 .. c.far + g => d.mem[a] = c.mem[a]
  BY <1>1, <1>11
<1>14. QED
  BY <1>1, <1>3, <1>7, <1>8, <1>10, <1>12, <1>13, CallAnswers

\* A write of k bytes is an answer of the contract.
LEMMA WritesAnswer ==
  ASSUME IInv, NEW w \in Clients, NEW k \in Nat, NEW v \in Seq(Buffers), NEW r \in Results,
         Writes(w, k, v, r)
  PROVE  Contract!Answer(w)
<1> PICK c : c = call[w]
  OBVIOUS
<1> PICK d : d = After(c, k, v, c.mem, r)
  OBVIOUS
<1> PICK m : m = c.moved + k
  OBVIOUS
<1>1. /\ Pending(w) /\ m <= c.n /\ call' = [call EXCEPT ![w] = d]
      /\ os' = os /\ file' = NewFile(c, k) /\ c.op \in Writing
      /\ Judged(c, m, v, r)
  BY DEF Writes, Moves
<1>2. InCall(w) /\ c.ret = Running
  BY <1>1 DEF Pending
<1>3. Sizes(c) /\ Same(c, file) /\ Underway(os, c) /\ file \in Seq(Content)
  BY <1>2, IInvIs DEF IInv, Types
<1>4. c.at \in Nat /\ c.moved \in Nat /\ c.far \in Nat /\ c.n \in Nat /\ m \in Nat /\ c.moved <= m
      /\ c.moved <= c.far /\ c.far <= c.n /\ c.mem \in Seq(Content) /\ Len(c.mem) = c.n
  BY <1>2, <1>3, CallIs DEF Underway
<1>5. \A i \in DOMAIN v : v[i].len \in 0 .. c.n
  BY <1>1 DEF Judged
<1>6. Sizes(d) /\ d.op = c.op /\ d.at = c.at /\ d.n = c.n /\ d.mem = c.mem /\ d.ret = r
      /\ d.far = IF c.far < m THEN m ELSE c.far
  BY <1>1, <1>3, <1>4, <1>5, AfterFits DEF After
<1>7. Same(d, file')
  BY <1>1, <1>3, <1>4, WrittenIsSame
<1>8. PICK g \in Nat : g = d.far - c.far
  BY <1>4, <1>6
<1>9. d.far = c.far + g /\ m <= c.far + g
  <2>1. PICK f \in Nat, e \in Nat : f = c.far /\ e = d.far
    BY <1>4, <1>6
  <2>2. e = (IF f < m THEN m ELSE f) /\ g = e - f
    BY <1>6, <1>8, <2>1
  <2>3. e = f + g /\ m <= f + g
    BY ONLY <1>4, <2>2, f \in Nat, g \in Nat
  <2>4. QED
    BY <2>1, <2>3
<1>10. file' \in Seq(Content) /\ Len(file') >= Len(file)
  BY <1>1, <1>3, NewFileIs
<1>11. PICK j : j = Made(c)
  OBVIOUS
<1>12. j.at = c.at /\ j.done = c.far
  BY <1>11 DEF Made
<1>13. ASSUME NEW i \in DOMAIN file' \ (c.at + c.far + 1 .. c.at + c.far + g)
       PROVE  file'[i] = IF i <= Len(file) THEN file[i] ELSE Zero
  <2>1. i \in 1 .. Len(file') /\ i \in Nat /\ ~(i > c.at + c.far /\ i <= c.at + c.far + g)
    <3>1. DOMAIN file' = 1 .. Len(file')
      BY <1>10
    <3>2. i \in 1 .. Len(file') /\ i \in Nat
      BY <3>1
    <3>3. QED
      BY ONLY <1>4, <3>2, g \in Nat, i \notin c.at + c.far + 1 .. c.at + c.far + g
  <2>2. file'[i] = IF i > c.at + c.moved /\ i <= c.at + c.moved + k THEN c.mem[i - c.at]
                   ELSE IF i <= Len(file) THEN file[i] ELSE Zero
    BY <1>1, <1>3, <2>1, NewFileIs
  <2>3. CASE i > c.at + c.moved /\ i <= c.at + c.moved + k
    <3>1. i - c.at \in 1 .. c.far /\ c.at + (i - c.at) = i
      <4>1. c.moved + k <= c.far + g
        BY <1>9
      <4>2. /\ c.at \in Nat /\ c.moved \in Nat /\ c.far \in Nat /\ i \in Nat
            /\ i > c.at + c.moved /\ i <= c.at + c.moved + k
            /\ ~(i > c.at + c.far /\ i <= c.at + c.far + g)
        BY <1>4, <2>1, <2>3
      <4>3. PICK p \in Nat, b \in Nat, f \in Nat : p = c.at /\ b = c.moved /\ f = c.far
        BY <4>2
      <4>4. /\ b + k <= f + g /\ i \in Nat /\ i > p + b /\ i <= p + b + k
            /\ ~(i > p + f /\ i <= p + f + g)
        BY <4>1, <4>2, <4>3
      <4>5. i - p \in 1 .. f /\ p + (i - p) = i
        BY ONLY <4>4, p \in Nat, b \in Nat, f \in Nat, k \in Nat, g \in Nat
      <4>6. QED
        BY <4>3, <4>5
    <3>2. PICK b \in Nat : b = i - c.at /\ b \in 1 .. c.far /\ c.at + b = i
      BY ONLY <1>4, <3>1
    <3>3. i <= Len(file) /\ file[i] = c.mem[b]
      BY <1>3, <3>2 DEF Same
    <3>4. QED
      BY <2>2, <2>3, <3>2, <3>3
  <2>4. QED
    BY <2>2, <2>3
<1>14. Contract!OnlyThere(j, g)
  BY <1>10, <1>12, <1>13 DEF Contract!OnlyThere
<1>15. Contract!Allowed(Made(c), d.far, d.ret)
  BY <1>1, <1>2, <1>3, <1>4, <1>6, JudgedIsAllowed
<1>16. QED
  BY <1>1, <1>3, <1>6, <1>7, <1>9, <1>10, <1>11, <1>14, <1>15, CallAnswers

\* An error, and a signal that finds a call under way: no byte moves.
LEMMA ChangeAnswers ==
  ASSUME IInv, NEW w \in Clients, Pending(w), NEW c, c = call[w],
         NEW m \in 0 .. Word - 1, NEW s \in 0 .. MaxInterrupts, NEW r \in {Running, Failed},
         NEW d, d = Changed(c, m, s, r), call' = [call EXCEPT ![w] = d], UNCHANGED <<os, file, begun>>
  PROVE  Contract!Answer(w)
<1>1. InCall(w) /\ c.ret = Running
  BY DEF Pending
<1>2. Sizes(c) /\ Same(c, file) /\ file \in Seq(Content)
  BY <1>1, IInvIs DEF IInv, Types
<1>3. m \in Nat /\ s \in Nat /\ r \in Results
  BY OsFileAssumption, ResultTypes
<1>4. d = [op |-> c.op, at |-> c.at, n |-> c.n, iov |-> c.iov, moved |-> m,
           far |-> c.far, signals |-> s, mem |-> c.mem, ret |-> r]
  BY <1>2, <1>3, ChangedIs
<1>5. /\ d.op = c.op /\ d.at = c.at /\ d.n = c.n /\ d.iov = c.iov /\ d.moved = m /\ d.far = c.far
      /\ d.signals = s /\ d.mem = c.mem /\ d.ret = r
  BY <1>4
<1>6. d \in CallRecs
  BY <1>2, <1>3, <1>4, CallIs DEF CallRecs
<1>7. Sizes(d)
  BY <1>2, <1>5, <1>6 DEF Sizes
<1>8. Same(d, file') /\ file' \in Seq(Content)
  BY <1>2, <1>5 DEF Same
<1>9. c.far \in Nat /\ c.at \in Nat /\ d.far = c.far + 0
  BY <1>2, <1>5, CallIs
<1>10. Contract!OnlyThere(Made(c), 0)
  <2>1. \A i \in DOMAIN file : i <= Len(file)
    BY <1>2
  <2>2. Len(file') >= Len(file) /\ file' = file
    BY <1>2
  <2>3. QED
    BY <2>1, <2>2 DEF Contract!OnlyThere
<1>11. Contract!Allowed(Made(c), d.far, d.ret)
  BY <1>5, ResultTypes DEF Contract!Allowed
<1>12. UNCHANGED file /\ \A a \in 1 .. c.n : a \notin c.far + 1 .. c.far + 0 => d.mem[a] = c.mem[a]
  BY <1>5
<1>13. c.op \in Writing => Contract!OnlyThere(Made(c), 0) /\ d.mem = c.mem
  BY <1>5, <1>10
<1>14. QED
  BY ONLY IInv, w \in Clients, Pending(w), c = call[w], call' = [call EXCEPT ![w] = d],
     0 \in Nat,
          <1>5, <1>7, <1>8, <1>9, <1>11, <1>12, <1>13, CallAnswers

\* Each of the moves is an answer of the contract.
LEMMA MoveAnswers ==
  ASSUME IInv, NEW w \in Clients, Move(w), "start" \notin Interruptible
  PROVE  Contract!Answer(w)
<1> PICK c : c = call[w]
  OBVIOUS
<1>1. ASSUME NEW k \in Nat, NEW v \in Seq(Buffers), NEW r \in Results, Reads(w, k, v, r) \/ Writes(w, k, v, r)
      PROVE  Contract!Answer(w)
  BY <1>1, ReadsAnswer, WritesAnswer
<1>2. CASE Fails(w)
  <2>1. Pending(w) /\ InCall(w) /\ UNCHANGED <<os, file, begun>>
    BY <1>2 DEF Fails, Pending
  <2>2. Sizes(c)
    BY <2>1, IInvIs
  <2>3. c.moved \in Nat /\ c.signals \in Nat /\ c.moved \in 0 .. Word - 1 /\ c.signals \in 0 .. MaxInterrupts
        /\ c = [op |-> c.op, at |-> c.at, n |-> c.n, iov |-> c.iov, moved |-> c.moved,
                far |-> c.far, signals |-> c.signals, mem |-> c.mem, ret |-> c.ret]
    <3>1. c.moved \in 0 .. Word - 1 /\ c.signals \in 0 .. MaxInterrupts
      BY <2>2 DEF Sizes
    <3>2. QED
      BY <2>2, <3>1, CallIs
  <2>4. PICK d : d = Changed(c, c.moved, c.signals, Failed)
    OBVIOUS
  <2>5. d = [op |-> c.op, at |-> c.at, n |-> c.n, iov |-> c.iov, moved |-> c.moved,
             far |-> c.far, signals |-> c.signals, mem |-> c.mem, ret |-> Failed]
    BY <2>2, <2>3, <2>4, ResultTypes, ChangedIs
  <2>6. d = [c EXCEPT !.ret = Failed]
    BY <2>3, <2>5
  <2>7. call' = [call EXCEPT ![w] = d]
    BY <1>2, <2>6 DEF Fails
  <2>8. QED
    BY ONLY IInv, w \in Clients, c = call[w], <2>1, <2>3, <2>4, <2>7, Failed \in {Running,
       Failed}, ChangeAnswers
<1>3. ASSUME NEW m \in Nat, NEW r \in Results, Signalled(w, m, r) PROVE Contract!Answer(w)
  <2>1. Pending(w) /\ InCall(w) /\ UNCHANGED <<os, file, begun>> /\ c.signals < MaxInterrupts
    BY <1>3 DEF Signalled, Pending
  <2>2. Sizes(c)
    BY <2>1, IInvIs
  <2>3. c.moved \in 0 .. Word - 1 /\ c.moved \in Nat /\ c.signals \in Nat
    <3>1. c.moved \in 0 .. Word - 1
      BY <2>2 DEF Sizes
    <3>2. QED
      BY <2>2, <3>1, CallIs
  <2>4. r \in {Running, Failed} /\ (m = c.moved \/ m + 1 = c.moved)
    BY <1>3 DEF Signalled
  <2>5. Word \in Nat /\ MaxInterrupts \in Nat
    BY OsFileAssumption
  <2>6. m \in 0 .. Word - 1
    BY ONLY <2>3, <2>4, <2>5, m \in Nat
  <2>7. PICK s \in 0 .. MaxInterrupts : s = c.signals + 1
    BY <2>1, <2>3, <2>5
  <2>8. PICK d : d = Changed(c, m, s, r)
    OBVIOUS
  <2>9. call' = [call EXCEPT ![w] = d]
    BY <1>3, <2>7, <2>8 DEF Signalled, Changed
  <2>10. QED
    BY ONLY IInv, w \in Clients, c = call[w], <2>1, <2>4, <2>6, <2>8, <2>9,
       s \in 0 .. MaxInterrupts, ChangeAnswers
<1>4. QED
  BY <1>1, <1>2, <1>3 DEF Move

\* A call that begins asks.
LEMMA BeginAsks ==
  ASSUME IInv, NEW w \in Clients, Begin(w)
  PROVE  Contract!Ask(w)
<1>1. PICK op \in Ops, ls \in {<<n>> : n \in Lengths} \cup Vectors, off \in Offsets :
        /\ (op \in Vectored) = (Len(ls) = 2)
        /\ call' = [call EXCEPT ![w] = Call(w, op, off, ls)]
  BY DEF Begin
<1> PICK c : c = Call(w, op, off, ls)
  OBVIOUS
<1>2. ~InCall(w) /\ UNCHANGED file /\ Types
  BY DEF Begin, IInv
<1>3. off \in Nat
  BY OsFileAssumption
<1>4. Sizes(c) /\ c.far = 0 /\ c.ret = Running /\ c.op = op
  <2>1. LET b == Call(w, op, off, ls) IN
        Sizes(b) /\ b.op = op /\ b.at = off /\ b.far = 0 /\ b.ret = Running
    BY ONLY w \in Clients, op \in Ops, ls \in {<<n>> : n \in Lengths} \cup Vectors, <1>1, <1>3,
            NewCallFits
  <2>2. QED
    BY <2>1
<1>5. c.op # "none"
  BY <1>4, Kinds
<1>6. Jobs[w] = Contract!NoJob
  BY <1>2, JobsAre DEF Contract!NoJob
<1>7. Jobs'[w] = Made(c) /\ Jobs' = [Jobs EXCEPT ![w] = Made(c)]
  BY <1>1, <1>2, <1>5, OneJob
<1>8. Made(c).kind \in {"read", "write"} /\ Made(c).done = 0 /\ Made(c).ret.tag = "running"
  BY <1>4, ResultTypes DEF Made
<1>9. QED
  BY <1>2, <1>6, <1>7, <1>8, AskIs

\* A caller that takes the result collects.
LEMMA TakeCollects ==
  ASSUME IInv, NEW w \in Clients, Take(w)
  PROVE  Contract!Collect(w)
<1>1. InCall(w) /\ ~Pending(w) /\ call' = [call EXCEPT ![w] = Idle] /\ UNCHANGED file /\ Types
  BY DEF Take, IInv
<1>2. Sizes(call[w])
  BY <1>1, IInvIs
<1>3. Jobs[w] = Made(call[w]) /\ Jobs' = [Jobs EXCEPT ![w] = Contract!NoJob]
  BY <1>1, JobsAre, OneJob, Kinds DEF Contract!NoJob
<1>4. Made(call[w]).kind # "none" /\ Made(call[w]).ret = call[w].ret
  BY DEF Made
<1>5. Jobs[w] # Contract!NoJob
  BY <1>3, <1>4 DEF Contract!NoJob
<1>6. Jobs[w].ret.tag # "running"
  BY <1>1, <1>2, <1>3, <1>4, CallIs, ResultIs DEF Pending
<1>7. QED
  BY <1>1, <1>3, <1>5, <1>6, CollectIs

\* A file of another size, for the contract.
LEMMA SizeResizes ==
  ASSUME IInv, Truncate \/ Fallocate \/ Seek
  PROVE  Contract!Resize
<1>1. Alone /\ (file' = file \/ \E size \in Nat : file' = Resized(size)) /\ file \in Seq(Content)
  BY SizeChanges DEF IInv, Types
<1>2. \A w \in Clients : ~InCall(w) /\ Jobs[w] = Contract!NoJob
  BY <1>1, JobsAre DEF Alone, Contract!NoJob
<1>3. UNCHANGED Jobs
  BY <1>1 DEF Alone, Jobs, InCall
<1>4. \A i \in DOMAIN file' : file'[i] = IF i <= Len(file) THEN file[i] ELSE Zero
  <2>1. CASE file' = file
    <3>1. \A i \in DOMAIN file : i <= Len(file)
      BY <1>1
    <3>2. QED
      BY <2>1, <3>1
  <2>2. ASSUME NEW size \in Nat, file' = Resized(size)
        PROVE  \A i \in DOMAIN file' : file'[i] = IF i <= Len(file) THEN file[i] ELSE Zero
    BY <2>2 DEF Resized
  <2>3. QED
    BY <1>1, <2>1, <2>2
<1>5. QED
  BY <1>2, <1>3, <1>4, ResizeIs

\* Every step is one of the contract, or none.
LEMMA NextImplements ==
  ASSUME IInv, [Next]_vars, Interruptible \cap {"start", "stream"} = {}
  PROVE  [Contract!Next]_<<file, Jobs>>
<1>1. CASE Truncate \/ Fallocate \/ Seek
  BY <1>1, SizeResizes DEF Contract!Next
<1>2. ASSUME NEW w \in Clients, Begin(w) PROVE Contract!Next
  BY <1>2, BeginAsks DEF Contract!Next
<1>3. ASSUME NEW w \in Clients, Step(w) PROVE Contract!Next
  <2>1. Contract!Answer(w)
    BY <1>3, StepMoves, MoveAnswers
  <2>2. QED
    BY <2>1 DEF Contract!Next
<1>4. ASSUME NEW w \in Clients, Take(w) PROVE Contract!Next
  BY <1>4, TakeCollects DEF Contract!Next
<1>5. CASE UNCHANGED vars
  BY <1>5 DEF vars, Jobs, InCall
<1>6. QED
  BY <1>1, <1>2, <1>3, <1>4, <1>5 DEF Next

\* Every call on either backend keeps what file_system.h promises: the next
\* bytes of its region, once; success for all of them; fewer only at the end of
\* the file.  Signals come where the calls can bear them.
THEOREM Implementation ==
  ASSUME Interruptible \cap {"start", "stream"} = {}, ~Mixed
  PROVE  Spec => ImplementsContract
<1>1. Init => Contract!Init
  <2> SUFFICES ASSUME Init PROVE Contract!Init
    OBVIOUS
  <2>1. file \in Seq(Content) /\ \A w \in Clients : ~InCall(w)
    BY InitKeeps, Kinds DEF Init, IInv, Types, InCall
  <2>2. Jobs = [w \in Clients |-> Contract!NoJob]
    BY <2>1 DEF Jobs, Contract!NoJob
  <2>3. QED
    BY <2>1, <2>2 DEF Contract!Init, Jobs, Content
<1>2. IInv /\ [Next]_vars => [Contract!Next]_<<file, Jobs>>
  BY NextImplements
<1>3. Spec => []IInv
  BY Safety
<1>4. QED
  BY <1>1, <1>2, <1>3, PTL DEF Spec, ImplementsContract, Contract!Spec, Jobs

=============================================================================
