--------------------------- MODULE CBufferProofs ---------------------------
(***************************************************************************)
(* For buffers of any capacity, any bytes and elements of any size: every  *)
(* call on the rings is a call on queues.  A read is a move of the tail, a *)
(* write is bytes stored around the ring and a move of the head; the loops *)
(* of the code are shown to be just that.  And for slices of any bounds    *)
(* and steps, in arrays of any length: what stride_resolve finds.          *)
(***************************************************************************)
EXTENDS CBuffer, Strides, SequenceTheorems, FiniteSetTheorems, TLAPS

\* A place that runs over the end of a ring of n bytes.
Wrap(n, p) == IF p < n THEN p ELSE p - n

\* A struct cbuffer of n bytes.
Ring(b, n) ==
  /\ b \in [cap : {n}, data : [0..(n - 1) -> Bytes], head : 0..(n - 1),
            tail : 0..(n - 1), isfull : BOOLEAN]
  /\ b.isfull => b.head = b.tail

\* s are the k bytes of b from place p on, over the end if need be.
Reads(s, n, b, p, k) ==
  /\ s \in Seq(Bytes) /\ Len(s) = k
  /\ \A i \in 1..k : s[i] = b.data[Wrap(n, p + i - 1)]

\* How far place q is from place p, over the end if need be.
Off(n, p, q) == IF q >= p THEN q - p ELSE q + n - p

\* The n bytes e with the bytes s laid over them from place p on.
LaidAt(n, p, q, k, s, old) == IF Off(n, p, q) < k THEN s[Off(n, p, q) + 1] ELSE old
Laid(e, n, p, s) == [q \in 0..(n - 1) |-> LaidAt(n, p, q, Len(s), s, e[q])]

\* u is the k elements of s, then the m elements of t.
Joins(u, s, k, t, m) == \A i \in 1..(k + m) : u[i] = IF i <= k THEN s[i] ELSE t[i - k]

\* b with other bytes, and b with the bytes s behind the ones it has.
WithData(b, e) == [b EXCEPT !.data = e]
Unmoved(c, b)  == [c EXCEPT !.head = b.head, !.isfull = b.isfull]
Emptied(b)     == [b EXCEPT !.head = 0, !.tail = 0, !.isfull = FALSE]
Appended(b, s) == Filled(WithData(b, Laid(b.data, b.cap, b.head, s)), Len(s))

\* b with the bytes s before the ones it has, from the new tail t on.
Prepended(b, t, s) == [StoredAround(b, t, s) EXCEPT !.tail = t, !.isfull = @ \/ b.head = t]

\* The inductive invariant.
Rings ==
  /\ buf = [x \in Bufs |-> buf[x]]
  /\ \A x \in Bufs : Ring(buf[x], cap[x])

-----------------------------------------------------------------------------
LEMMA WrapIs ==
  ASSUME NEW n \in Nat \ {0}, NEW p \in 0..(2 * n - 1)
  PROVE  p % n = Wrap(n, p) /\ Wrap(n, p) \in 0..(n - 1)
BY DEF Wrap

LEMMA WrapTwice ==
  ASSUME NEW n \in Nat \ {0}, NEW p \in 0..(n - 1), NEW k \in Nat, NEW m \in Nat, k + m <= n
  PROVE  Wrap(n, Wrap(n, p + k) + m) = Wrap(n, p + (k + m))
BY DEF Wrap

LEMMA LenType ==
  ASSUME NEW n \in Nat \ {0}, NEW b, Ring(b, n)
  PROVE  cbuffer_len(b) \in 0..n /\ cbuffer_avail(b) = n - cbuffer_len(b)
BY DEF Ring, cbuffer_len, cbuffer_avail


LEMMA FrontIs ==
  ASSUME NEW s \in Seq(Bytes), NEW k \in 0..Len(s)
  PROVE  SubSeq(s, 1, k) \in Seq(Bytes) /\ Len(SubSeq(s, 1, k)) = k
<1>1. Len(s) \in Nat
  BY LenProperties
<1>2. \A i \in 1..k : s[i] \in Bytes
  BY <1>1, ElementOfSeq
<1>3. 1 \in Int /\ k \in Int /\ k >= 0
  BY <1>1
<1>4. QED
  BY <1>2, <1>3, SubSeqProperties

LEMMA BackIs ==
  ASSUME NEW s \in Seq(Bytes), NEW k \in 0..Len(s)
  PROVE  SubSeq(s, k + 1, Len(s)) \in Seq(Bytes) /\ Len(SubSeq(s, k + 1, Len(s))) = Len(s) - k
<1>1. Len(s) \in Nat
  BY LenProperties
<1>2. \A i \in (k + 1)..Len(s) : s[i] \in Bytes
  BY <1>1, ElementOfSeq
<1>3. k + 1 \in Int /\ Len(s) \in Int
  BY <1>1
<1>4. QED
  BY <1>1, <1>2, <1>3, SubSeqProperties

LEMMA CutIs ==
  ASSUME NEW s \in Seq(Bytes), NEW k \in 0..Len(s)
  PROVE  SubSeq(s, 1, k) \o SubSeq(s, k + 1, Len(s)) = s
<1> DEFINE u == SubSeq(s, 1, k)
           v == SubSeq(s, k + 1, Len(s))
<1>1. PICK m \in Nat : m = Len(s)
  BY LenProperties
<1>2. u \in Seq(Bytes) /\ Len(u) = k /\ v \in Seq(Bytes) /\ Len(v) = m - k
  BY <1>1, FrontIs, BackIs
<1> HIDE DEF u, v
<1>3. u \o v \in Seq(Bytes) /\ Len(u \o v) = m
  <2>1. u \o v \in Seq(Bytes) /\ Len(u \o v) = Len(u) + Len(v)
    BY <1>2, ConcatProperties
  <2>2. QED
    BY <1>1, <1>2, <2>1
<1>4. ASSUME NEW i \in 1..m PROVE (u \o v)[i] = s[i]
  <2>1. (u \o v)[i] = IF i <= k THEN u[i] ELSE v[i - k]
    BY <1>1, <1>2, ConcatProperties
  <2>2. i <= k => u[i] = s[i]
    BY <1>1, SubSeqProperties DEF u
  <2>3. ~(i <= k) => v[i - k] = s[i]
    BY <1>1, SubSeqProperties DEF v
  <2>4. QED
    BY <2>1, <2>2, <2>3
<1>5. u \o v = s
  BY <1>1, <1>3, <1>4, SeqEqual
<1>6. QED
  BY <1>5 DEF u, v

LEMMA WholeIs ==
  ASSUME NEW s \in Seq(Bytes)
  PROVE  SubSeq(s, 1, Len(s)) = s
<1>1. Len(s) \in Nat /\ Len(s) \in 0..Len(s)
  BY LenProperties
<1>2. SubSeq(s, 1, Len(s)) \in Seq(Bytes) /\ Len(SubSeq(s, 1, Len(s))) = Len(s)
  BY <1>1, FrontIs
<1>3. \A i \in 1..Len(s) : SubSeq(s, 1, Len(s))[i] = s[i]
  BY <1>1, SubSeqProperties
<1>4. QED
  BY <1>2, <1>3, SeqEqual

LEMMA ReadsUnique ==
  ASSUME NEW n, NEW b, NEW p, NEW k, NEW s, NEW t, Reads(s, n, b, p, k), Reads(t, n, b, p, k)
  PROVE  s = t
<1>1. /\ s \in Seq(Bytes) /\ t \in Seq(Bytes) /\ Len(s) = Len(t)
      /\ \A i \in 1..Len(s) : s[i] = t[i]
  BY DEF Reads
<1>2. QED
  BY <1>1, SeqEqual

LEMMA ReadsConcat ==
  ASSUME NEW n \in Nat \ {0}, NEW b, NEW p \in 0..(n - 1), NEW k \in Nat, NEW m \in Nat, k + m <= n,
         NEW q, q = Wrap(n, p + k), NEW s, NEW t, Reads(s, n, b, p, k), Reads(t, n, b, q, m)
  PROVE  Reads(s \o t, n, b, p, k + m)
<1>1. /\ s \in Seq(Bytes) /\ t \in Seq(Bytes) /\ Len(s) = k /\ Len(t) = m
  BY DEF Reads
<1>2. s \o t \in Seq(Bytes) /\ Len(s \o t) = k + m
  BY <1>1, ConcatProperties
<1>3. ASSUME NEW i \in 1..(k + m) PROVE (s \o t)[i] = IF i <= k THEN s[i] ELSE t[i - k]
  BY <1>1, ConcatProperties
<1>4. ASSUME NEW i \in 1..(k + m) PROVE (s \o t)[i] = b.data[Wrap(n, p + i - 1)]
  <2>1. CASE i <= k
    <3>1. i \in 1..k
      BY <2>1
    <3>2. QED
      BY <1>3, <2>1, <3>1 DEF Reads
  <2>2. CASE ~(i <= k)
    <3>1. i - k \in 1..m /\ Wrap(n, q + (i - k) - 1) = Wrap(n, p + i - 1)
      BY <2>2 DEF Wrap
    <3>2. QED
      BY <1>3, <2>2, <3>1 DEF Reads
  <2>3. QED
    BY <2>1, <2>2
<1>5. QED
  BY <1>2, <1>4 DEF Reads

LEMMA ReadsSub ==
  ASSUME NEW n \in Nat \ {0}, NEW b, NEW p \in 0..(n - 1), NEW k \in 0..n,
         NEW m \in Nat, NEW j \in Nat, m + j <= k, m < n,
         NEW s, Reads(s, n, b, p, k), NEW q, q = Wrap(n, p + m)
  PROVE  Reads(SubSeq(s, m + 1, m + j), n, b, q, j)
<1> DEFINE t == SubSeq(s, m + 1, m + j)
<1>1. s \in Seq(Bytes) /\ Len(s) = k
  BY DEF Reads
<1>2. \A i \in (m + 1)..(m + j) : s[i] \in Bytes
  BY <1>1, ElementOfSeq
<1>3. t \in Seq(Bytes) /\ Len(t) = j
  BY <1>2, SubSeqProperties
<1>4. ASSUME NEW i \in 1..j PROVE t[i] = s[m + i]
  <2>1. i \in 1..(m + j - (m + 1) + 1) /\ m + 1 + i - 1 = m + i
    OBVIOUS
  <2>2. t[i] = s[m + 1 + i - 1]
    BY <1>2, <2>1, SubSeqProperties
  <2>3. QED
    BY <2>1, <2>2
<1>5. ASSUME NEW i \in 1..j PROVE s[m + i] = b.data[Wrap(n, q + i - 1)]
  <2>1. m + i \in 1..k /\ Wrap(n, q + i - 1) = Wrap(n, p + (m + i) - 1)
    BY DEF Wrap
  <2>2. QED
    BY <2>1 DEF Reads
<1>6. \A i \in 1..j : t[i] = b.data[Wrap(n, q + i - 1)]
  BY <1>4, <1>5
<1> HIDE DEF t
<1>7. Reads(t, n, b, q, j)
  BY <1>3, <1>6 DEF Reads
<1>8. QED
  BY <1>7 DEF t

LEMMA ContentsRead ==
  ASSUME NEW n \in Nat \ {0}, NEW b, Ring(b, n)
  PROVE  Reads(Contents(b), n, b, b.tail, cbuffer_len(b))
<1>1. cbuffer_len(b) \in 0..n
  BY LenType
<1>2. /\ b.cap = n /\ b.tail \in 0..(n - 1) /\ b.data \in [0..(n - 1) -> Bytes]
  BY DEF Ring
<1>3. ASSUME NEW i \in 1..cbuffer_len(b)
      PROVE  /\ (b.tail + i - 1) % b.cap = Wrap(n, b.tail + i - 1)
             /\ Wrap(n, b.tail + i - 1) \in 0..(n - 1)
  <2>1. b.tail + i - 1 \in 0..(2 * n - 1)
    BY <1>1, <1>2
  <2>2. QED
    BY <1>2, <2>1, WrapIs
<1>4. Contents(b) \in [1..cbuffer_len(b) -> Bytes]
  BY <1>2, <1>3 DEF Contents
<1>5. Contents(b) \in Seq(Bytes) /\ Len(Contents(b)) = cbuffer_len(b)
  BY <1>1, <1>4, SeqDef, LenProperties
<1>6. \A i \in 1..cbuffer_len(b) : Contents(b)[i] = b.data[Wrap(n, b.tail + i - 1)]
  BY <1>3 DEF Contents
<1>7. QED
  BY <1>5, <1>6 DEF Reads

LEMMA PieceReads ==
  ASSUME NEW n \in Nat \ {0}, NEW b, Ring(b, n), NEW p \in Nat, NEW k \in Nat, p + k <= n
  PROVE  Reads(Piece(b, p, k), n, b, p, k)
<1>1. \A i \in 1..k : p + i - 1 \in 0..(n - 1) /\ Wrap(n, p + i - 1) = p + i - 1
  BY DEF Wrap
<1>2. Piece(b, p, k) \in [1..k -> Bytes]
  BY <1>1 DEF Piece, Ring
<1>3. Piece(b, p, k) \in Seq(Bytes) /\ Len(Piece(b, p, k)) = k
  BY <1>2, SeqDef, LenProperties
<1>4. \A i \in 1..k : Piece(b, p, k)[i] = b.data[Wrap(n, p + i - 1)]
  BY <1>1 DEF Piece
<1>5. QED
  BY <1>3, <1>4 DEF Reads

LEMMA AroundReads ==
  ASSUME NEW n \in Nat \ {0}, NEW b, Ring(b, n), NEW p \in 0..(n - 1), NEW k \in 0..n
  PROVE  Reads(Around(b, p, k), n, b, p, k)
<1>1. b.cap = n
  BY DEF Ring
<1>2. CASE p + k <= n
  <2>1. Around(b, p, k) = Piece(b, p, k)
    BY <1>1, <1>2 DEF Around
  <2>2. QED
    BY <1>2, <2>1, PieceReads
<1>3. CASE ~(p + k <= n)
  <2> DEFINE u == Piece(b, p, n - p)
             v == Piece(b, 0, k - (n - p))
  <2>1. Around(b, p, k) = u \o v
    BY <1>1, <1>3 DEF Around
  <2>2. /\ n - p \in Nat /\ k - (n - p) \in Nat /\ p \in Nat /\ 0 \in Nat
        /\ p + (n - p) <= n /\ 0 + (k - (n - p)) <= n
        /\ n - p + (k - (n - p)) = k /\ 0 = Wrap(n, p + (n - p))
    BY <1>3 DEF Wrap
  <2>3. Reads(u, n, b, p, n - p)
    BY <2>2, PieceReads
  <2>4. Reads(v, n, b, 0, k - (n - p))
    BY <2>2, PieceReads
  <2> HIDE DEF u, v
  <2>5. Reads(u \o v, n, b, p, n - p + (k - (n - p)))
    BY <2>2, <2>3, <2>4, ReadsConcat
  <2>6. QED
    BY <2>1, <2>2, <2>5
<1>4. QED
  BY <1>2, <1>3

-----------------------------------------------------------------------------
(***************************************************************************)
(* Taking from the front.                                                  *)
(***************************************************************************)

\* The tail moves over the first m bytes; the others are what is left.
LEMMA ConsumedIs ==
  ASSUME NEW n \in Nat \ {0}, NEW b, Ring(b, n), NEW m \in 0..cbuffer_len(b)
  PROVE  /\ Ring(Consumed(b, m), n)
         /\ Consumed(b, m).tail = Wrap(n, b.tail + m) /\ Consumed(b, m).data = b.data
         /\ cbuffer_len(Consumed(b, m)) = cbuffer_len(b) - m
<1> DEFINE c == Consumed(b, m)
<1>1. cbuffer_len(b) \in 0..n /\ b.tail \in 0..(n - 1) /\ b.head \in 0..(n - 1) /\ b.cap = n
  BY LenType DEF Ring
<1>2. (b.tail + m) % b.cap = Wrap(n, b.tail + m) /\ Wrap(n, b.tail + m) \in 0..(n - 1)
  <2>1. b.tail + m \in 0..(2 * n - 1)
    BY <1>1
  <2>2. QED
    BY <1>1, <2>1, WrapIs
<1>3. /\ c \in [cap : {n}, data : [0..(n - 1) -> Bytes], head : 0..(n - 1),
                tail : 0..(n - 1), isfull : BOOLEAN]
      /\ c.tail = Wrap(n, b.tail + m) /\ c.data = b.data /\ c.head = b.head
      /\ c.cap = n /\ c.isfull = (b.isfull /\ m = 0)
  BY <1>1, <1>2 DEF Consumed, Ring
<1> HIDE DEF c
<1>4. c.isfull => c.head = c.tail
  BY <1>1, <1>3 DEF Ring, Wrap
<1>5. cbuffer_len(c) = cbuffer_len(b) - m
  <2>1. b.isfull => b.head = b.tail
    BY DEF Ring
  <2>2. CASE b.isfull
    BY <1>1, <1>3, <2>1, <2>2 DEF cbuffer_len, Wrap
  <2>3. CASE ~b.isfull
    <3>1. c.isfull = FALSE
      BY <1>3, <2>3
    <3>2. cbuffer_len(c) = IF c.head >= c.tail THEN c.head - c.tail ELSE c.cap - (c.tail - c.head)
      BY <3>1 DEF cbuffer_len
    <3>3. cbuffer_len(b) = IF b.head >= b.tail THEN b.head - b.tail ELSE b.cap - (b.tail - b.head)
      BY <2>3 DEF cbuffer_len
    <3>4. PICK h \in Nat, t \in Nat, l \in Nat :
            h = b.head /\ t = b.tail /\ l = cbuffer_len(b) /\ h < n /\ t < n /\ m <= l
      BY <1>1
    <3>5. l = IF h >= t THEN h - t ELSE n - (t - h)
      BY <1>1, <3>3, <3>4
    <3>6. c.tail = IF t + m >= n THEN t + m - n ELSE t + m
      BY <1>3, <3>4 DEF Wrap
    <3>7. c.head = h /\ c.cap = n
      BY <1>3, <3>4
    <3>8. PICK u : u = c.tail
      OBVIOUS
    <3>9. (IF h >= u THEN h - u ELSE n - (u - h)) = l - m
      BY ONLY n \in Nat, m \in Nat, h \in Nat, t \in Nat, l \in Nat, <3>4, <3>5, <3>6, <3>8
    <3>10. QED
      BY ONLY <3>2, <3>4, <3>7, <3>8, <3>9
  <2>4. QED
    BY <2>2, <2>3
<1>6. QED
  BY <1>3, <1>4, <1>5 DEF c, Ring

LEMMA ConsumedContents ==
  ASSUME NEW n \in Nat \ {0}, NEW b, Ring(b, n), NEW m \in 0..cbuffer_len(b)
  PROVE  Contents(Consumed(b, m)) = SubSeq(Contents(b), m + 1, Len(Contents(b)))
<1> DEFINE c == Consumed(b, m)
           len == cbuffer_len(b)
           j == len - m
<1>1. Ring(c, n) /\ c.tail = Wrap(n, b.tail + m) /\ c.data = b.data /\ cbuffer_len(c) = j
  BY ConsumedIs
<1>2. Reads(Contents(c), n, c, c.tail, j)
  BY <1>1, ContentsRead
<1>3. Reads(Contents(c), n, b, Wrap(n, b.tail + m), j)
  BY <1>1, <1>2 DEF Reads
<1>4. Reads(Contents(b), n, b, b.tail, len) /\ Len(Contents(b)) = len
  BY ContentsRead DEF Reads
<1>5. len \in 0..n /\ b.tail \in 0..(n - 1) /\ j \in Nat /\ m \in Nat /\ m + j <= len /\ m + j = len
  BY LenType DEF Ring
<1> HIDE DEF c, j, len
<1>6. CASE m < n
  <2>1. Reads(SubSeq(Contents(b), m + 1, m + j), n, b, Wrap(n, b.tail + m), j)
    BY <1>4, <1>5, <1>6, ReadsSub
  <2>2. QED
    BY <1>3, <1>4, <1>5, <2>1, ReadsUnique DEF c
<1>7. CASE ~(m < n)
  <2>1. j = 0 /\ m + 1 \in Int /\ len \in Int /\ len < m + 1
    BY <1>5, <1>7
  <2>2. SubSeq(Contents(b), m + 1, len) = <<>>
    BY <2>1, SubSeqEmpty
  <2>3. Contents(c) = <<>>
    BY <1>3, <2>1, EmptySeq DEF Reads
  <2>4. QED
    BY <1>4, <2>2, <2>3 DEF c
<1>8. QED
  BY <1>6, <1>7

LEMMA FrontReads ==
  ASSUME NEW n \in Nat \ {0}, NEW b, Ring(b, n), NEW m \in 0..cbuffer_len(b)
  PROVE  Reads(SubSeq(Contents(b), 1, m), n, b, b.tail, m)
<1> DEFINE len == cbuffer_len(b)
<1>1. /\ len \in 0..n /\ b.tail \in 0..(n - 1) /\ m \in Nat /\ 0 \in Nat
      /\ 0 + m <= len /\ 0 < n /\ b.tail = Wrap(n, b.tail + 0)
  BY LenType DEF Ring, Wrap
<1>2. Reads(Contents(b), n, b, b.tail, len)
  BY ContentsRead
<1> HIDE DEF len
<1>3. Reads(SubSeq(Contents(b), 0 + 1, 0 + m), n, b, b.tail, m)
  BY <1>1, <1>2, ReadsSub
<1>4. 0 + 1 = 1 /\ 0 + m = m
  BY <1>1
<1>5. QED
  BY <1>3, <1>4

LEMMA RingEqual ==
  ASSUME NEW n \in Nat \ {0}, NEW b, NEW c, Ring(b, n), Ring(c, n),
         b.data = c.data, b.head = c.head, b.tail = c.tail, b.isfull = c.isfull
  PROVE  b = c
BY DEF Ring

LEMMA ConsumedFields ==
  ASSUME NEW n \in Nat \ {0}, NEW b, Ring(b, n), NEW m \in 0..cbuffer_len(b)
  PROVE  /\ Consumed(b, m).head = b.head
         /\ Consumed(b, m).isfull = (b.isfull /\ m = 0)
BY DEF Consumed, Ring

LEMMA ConsumedTwice ==
  ASSUME NEW n \in Nat \ {0}, NEW b, Ring(b, n), NEW k \in Nat, NEW m \in Nat, k + m <= cbuffer_len(b)
  PROVE  Consumed(Consumed(b, k), m) = Consumed(b, k + m)
<1> DEFINE c == Consumed(b, k)
           d == Consumed(c, m)
           e == Consumed(b, k + m)
<1>1. /\ cbuffer_len(b) \in 0..n /\ b.tail \in 0..(n - 1) /\ b.isfull \in BOOLEAN
      /\ k \in 0..cbuffer_len(b) /\ k + m \in 0..cbuffer_len(b)
  BY LenType DEF Ring
<1>2. /\ Ring(c, n) /\ c.tail = Wrap(n, b.tail + k) /\ c.data = b.data /\ c.head = b.head
      /\ c.isfull = (b.isfull /\ k = 0) /\ cbuffer_len(c) = cbuffer_len(b) - k
  BY <1>1, ConsumedIs, ConsumedFields
<1>3. m \in 0..cbuffer_len(c)
  BY <1>1, <1>2
<1> HIDE DEF c
<1>4. /\ Ring(d, n) /\ d.tail = Wrap(n, c.tail + m) /\ d.data = b.data /\ d.head = b.head
      /\ d.isfull = (c.isfull /\ m = 0)
  BY <1>2, <1>3, ConsumedIs, ConsumedFields
<1>5. /\ Ring(e, n) /\ e.tail = Wrap(n, b.tail + (k + m)) /\ e.data = b.data /\ e.head = b.head
      /\ e.isfull = (b.isfull /\ k + m = 0)
  BY <1>1, ConsumedIs, ConsumedFields
<1> HIDE DEF d, e
<1>6. d.tail = e.tail
  BY <1>1, <1>2, <1>4, <1>5 DEF Wrap
<1>7. d.isfull = e.isfull
  <2>1. (k + m = 0) <=> (k = 0 /\ m = 0)
    OBVIOUS
  <2>2. d.isfull <=> e.isfull
    BY <1>2, <1>4, <1>5, <2>1
  <2>3. d.isfull \in BOOLEAN /\ e.isfull \in BOOLEAN
    BY <1>4, <1>5 DEF Ring
  <2>4. QED
    BY <2>2, <2>3
<1>8. d = e
  BY <1>4, <1>5, <1>6, <1>7, RingEqual
<1>9. QED
  BY <1>8 DEF c, d, e

\* One turn of the loop of cbuffer_read takes a piece that lies together, and
\* leaves the turn after it, if any, at the start of the ring.
LEMMA ReadNextIs ==
  ASSUME NEW n \in Nat \ {0}, NEW b, Ring(b, n), NEW m \in 1..cbuffer_len(b)
  PROVE  /\ ReadNext(b, m) \in 1..m /\ b.tail + ReadNext(b, m) <= n
         /\ ReadNext(b, m) < m => ReadNext(b, m) = n - b.tail
         /\ b.tail = 0 => ReadNext(b, m) = m
<1>1. /\ b.tail \in 0..(n - 1) /\ b.head \in 0..(n - 1) /\ b.cap = n /\ b.isfull \in BOOLEAN
      /\ b.isfull => b.head = b.tail
  BY DEF Ring
<1>2. /\ cbuffer_len(b) \in 0..n
      /\ ~b.isfull /\ b.head >= b.tail => cbuffer_len(b) = b.head - b.tail
  BY LenType DEF cbuffer_len
<1>3. CASE ~b.isfull /\ b.head > b.tail
  <2>1. ReadNext(b, m) = IF b.head - b.tail < m THEN b.head - b.tail ELSE m
    BY <1>3 DEF ReadNext, Least
  <2>2. m <= b.head - b.tail
    BY <1>1, <1>2, <1>3
  <2>3. QED
    BY <1>1, <1>2, <2>1, <2>2
<1>4. CASE ~(~b.isfull /\ b.head > b.tail)
  <2>1. ReadNext(b, m) = IF n - b.tail < m THEN n - b.tail ELSE m
    BY <1>1, <1>4 DEF ReadNext, Least
  <2>2. QED
    BY <1>1, <1>2, <2>1
<1>5. QED
  BY <1>3, <1>4

LEMMA ReadTurn ==
  ASSUME NEW n \in Nat \ {0}, NEW b, Ring(b, n), NEW s, NEW m \in 1..cbuffer_len(b),
         NEW next, next = ReadNext(b, m)
  PROVE  ReadPass([b |-> b, bytes |-> s, left |-> m]) =
           [b |-> Consumed(b, next), bytes |-> s \o Piece(b, b.tail, next), left |-> m - next]
<1>1. next # 0
  BY ReadNextIs
<1>2. (b.isfull /\ next = 0) = FALSE
  BY <1>1
<1>3. Consumed(b, next) = [b EXCEPT !.tail = (@ + next) % b.cap, !.isfull = FALSE]
  BY <1>2 DEF Consumed
<1>4. m # 0
  OBVIOUS
<1>5. ReadPass([b |-> b, bytes |-> s, left |-> m]) =
        [b |-> [b EXCEPT !.tail = (@ + next) % b.cap, !.isfull = FALSE],
         bytes |-> s \o Piece(b, b.tail, next), left |-> m - next]
  BY <1>4 DEF ReadPass
<1>6. QED
  BY <1>3, <1>5

\* The two turns of the loop take the first m bytes.
LEMMA ReadLoopIs ==
  ASSUME NEW n \in Nat \ {0}, NEW b, Ring(b, n), NEW m \in 0..cbuffer_len(b)
  PROVE  /\ ReadLoop(b, m).b = Consumed(b, m)
         /\ ReadLoop(b, m).bytes = SubSeq(Contents(b), 1, m)
<1>1. /\ cbuffer_len(b) \in 0..n /\ b.tail \in 0..(n - 1) /\ b.isfull \in BOOLEAN /\ b.cap = n
  BY LenType DEF Ring
<1>2. Reads(SubSeq(Contents(b), 1, m), n, b, b.tail, m)
  BY FrontReads
<1>3. CASE m = 0
  <2>1. ReadPass([b |-> b, bytes |-> <<>>, left |-> m]) = [b |-> b, bytes |-> <<>>, left |-> m]
    BY <1>3 DEF ReadPass
  <2>2. ReadLoop(b, m) = [b |-> b, bytes |-> <<>>, left |-> m]
    BY <2>1 DEF ReadLoop
  <2>3. Consumed(b, m) = b
    <3>1. /\ Ring(Consumed(b, m), n) /\ Consumed(b, m).data = b.data
          /\ Consumed(b, m).tail = b.tail /\ Consumed(b, m).head = b.head
          /\ Consumed(b, m).isfull = b.isfull
      BY <1>1, <1>3, ConsumedIs, ConsumedFields DEF Wrap
    <3>2. QED
      BY <3>1, RingEqual
  <2>4. SubSeq(Contents(b), 1, m) = <<>>
    BY <1>3, SubSeqEmpty
  <2>5. ReadLoop(b, m).b = b /\ ReadLoop(b, m).bytes = <<>>
    BY <2>2
  <2>6. QED
    BY <2>3, <2>4, <2>5
<1>4. CASE m > 0
  <2> DEFINE next == ReadNext(b, m)
             c == Consumed(b, next)
             u == Piece(b, b.tail, next)
             t == [b |-> c, bytes |-> u, left |-> m - next]
  <2>1. m \in 1..cbuffer_len(b)
    BY <1>1, <1>4
  <2>2. /\ next \in 1..m /\ b.tail + next <= n
        /\ next < m => next = n - b.tail
    BY <2>1, ReadNextIs
  <2>3. Reads(u, n, b, b.tail, next)
    <3> HIDE DEF next
    <3>1. b.tail \in Nat /\ next \in Nat
      BY <1>1, <2>1, <2>2
    <3>2. QED
      BY <2>2, <3>1, PieceReads
  <2>4. <<>> \o u = u
    BY <2>3, ConcatEmptySeq DEF Reads
  <2>5. ReadPass([b |-> b, bytes |-> <<>>, left |-> m]) = t
    <3>1. ReadPass([b |-> b, bytes |-> <<>>, left |-> m]) =
            [b |-> c, bytes |-> <<>> \o u, left |-> m - next]
      BY <2>1, ReadTurn
    <3>2. QED
      BY <2>4, <3>1
  <2>6. ReadLoop(b, m) = ReadPass(t)
    BY <2>5 DEF ReadLoop
  <2> HIDE DEF u, next
  <2>7. CASE next = m
    <3>1. ReadPass(t) = t
      BY <2>7 DEF ReadPass
    <3>2. ReadLoop(b, m).b = Consumed(b, m) /\ ReadLoop(b, m).bytes = u
      BY <2>6, <2>7, <3>1
    <3>3. QED
      BY <1>2, <2>3, <2>7, <3>2, ReadsUnique
  <2>8. CASE next < m
    <3> DEFINE k == m - next
               v == Piece(c, 0, k)
    <3>1. next \in 0..cbuffer_len(b) /\ 0 = Wrap(n, b.tail + next)
      BY <1>1, <2>1, <2>2, <2>8 DEF Wrap
    <3>2. Ring(c, n) /\ c.tail = 0 /\ c.data = b.data /\ cbuffer_len(c) = cbuffer_len(b) - next
      BY <3>1, ConsumedIs
    <3> HIDE DEF c
    <3>3. k \in 1..cbuffer_len(c) /\ next + k = m /\ next + k <= cbuffer_len(b) /\ next + k <= n
          /\ next \in Nat /\ k \in Nat /\ 0 \in Nat /\ 0 + k <= n /\ k - k = 0
      BY <1>1, <2>1, <2>2, <2>8, <3>1, <3>2
    <3>4. ReadNext(c, k) = k
      BY <3>2, <3>3, ReadNextIs
    <3>5. t = [b |-> c, bytes |-> u, left |-> k]
      OBVIOUS
    <3> HIDE DEF k, t
    <3>6. ReadPass([b |-> c, bytes |-> u, left |-> k]) =
            [b |-> Consumed(c, k), bytes |-> u \o Piece(c, c.tail, k), left |-> k - k]
      BY <3>2, <3>3, <3>4, ReadTurn
    <3>7. ReadLoop(b, m) = [b |-> Consumed(c, k), bytes |-> u \o v, left |-> k - k]
      BY <2>6, <3>2, <3>5, <3>6
    <3>8. Consumed(c, k) = Consumed(b, next + k)
      BY <3>3, ConsumedTwice DEF c
    <3>9. Reads(u \o v, n, b, b.tail, m)
      <4>1. Reads(v, n, c, 0, k)
        BY <3>2, <3>3, PieceReads
      <4>2. Reads(v, n, b, 0, k)
        BY <3>2, <4>1 DEF Reads
      <4> HIDE DEF v
      <4>3. Reads(u \o v, n, b, b.tail, next + k)
        BY <1>1, <2>3, <3>1, <3>3, <4>2, ReadsConcat
      <4>4. QED
        BY <3>3, <4>3
    <3> HIDE DEF v
    <3>10. u \o v = SubSeq(Contents(b), 1, m)
      BY <1>2, <3>9, ReadsUnique
    <3>11. QED
      BY <3>3, <3>7, <3>8, <3>10
  <2>9. QED
    BY <2>1, <2>2, <2>7, <2>8
<1>5. QED
  BY <1>1, <1>3, <1>4

-----------------------------------------------------------------------------
(***************************************************************************)
(* Storing bytes around the ring.                                          *)
(***************************************************************************)

LEMMA OffIs ==
  ASSUME NEW n \in Nat \ {0}, NEW p \in 0..(n - 1), NEW q \in 0..(n - 1)
  PROVE  Off(n, p, q) \in 0..(n - 1) /\ Wrap(n, p + Off(n, p, q)) = q
BY DEF Off, Wrap

LEMMA OffWrap ==
  ASSUME NEW n \in Nat \ {0}, NEW p \in 0..(n - 1), NEW i \in 0..(n - 1)
  PROVE  Off(n, p, Wrap(n, p + i)) = i /\ Wrap(n, p + i) \in 0..(n - 1)
BY DEF Off, Wrap

LEMMA LaidType ==
  ASSUME NEW n \in Nat \ {0}, NEW p \in 0..(n - 1), NEW e \in [0..(n - 1) -> Bytes], NEW s \in Seq(Bytes)
  PROVE  Laid(e, n, p, s) \in [0..(n - 1) -> Bytes]
<1>1. ASSUME NEW q \in 0..(n - 1)
      PROVE  LaidAt(n, p, q, Len(s), s, e[q]) \in Bytes
  <2>1. Off(n, p, q) \in 0..(n - 1) /\ Len(s) \in Nat
    BY OffIs, LenProperties
  <2>2. Off(n, p, q) < Len(s) => Off(n, p, q) + 1 \in 1..Len(s)
    BY <2>1
  <2>3. QED
    BY <2>2, ElementOfSeq DEF LaidAt
<1>2. QED
  BY <1>1 DEF Laid

\* Bytes that are laid over can be read, and the others are what they were.
LEMMA LaidReads ==
  ASSUME NEW n \in Nat \ {0}, NEW p \in 0..(n - 1), NEW e, NEW s \in Seq(Bytes), Len(s) <= n,
         NEW b, b.data = Laid(e, n, p, s)
  PROVE  Reads(s, n, b, p, Len(s))
<1>1. Len(s) \in 0..n
  BY LenProperties
<1>2. ASSUME NEW i \in 1..Len(s) PROVE s[i] = b.data[Wrap(n, p + i - 1)]
  <2>1. i - 1 \in 0..(n - 1) /\ p + (i - 1) = p + i - 1 /\ i - 1 < Len(s) /\ i - 1 + 1 = i
    BY <1>1
  <2>2. Off(n, p, Wrap(n, p + i - 1)) = i - 1 /\ Wrap(n, p + i - 1) \in 0..(n - 1)
    BY <2>1, OffWrap
  <2>3. QED
    BY <2>1, <2>2 DEF Laid, LaidAt
<1>3. QED
  BY <1>2 DEF Reads

LEMMA LaidKeeps ==
  ASSUME NEW n \in Nat \ {0}, NEW p \in 0..(n - 1), NEW t \in 0..(n - 1), NEW k \in 0..n,
         NEW s \in Seq(Bytes), Len(s) + k <= n, k > 0 => p = Wrap(n, t + k) \/ t = Wrap(n, p + Len(s)),
         NEW b, NEW c, c.data = Laid(b.data, n, p, s), NEW r, Reads(r, n, b, t, k)
  PROVE  Reads(r, n, c, t, k)
<1>1. Len(s) \in Nat
  BY LenProperties
<1>2. ASSUME NEW i \in 1..k PROVE r[i] = c.data[Wrap(n, t + i - 1)]
  <2> DEFINE q == Wrap(n, t + i - 1)
  <2>1. q \in 0..(n - 1) /\ ~(Off(n, p, q) < Len(s))
    BY <1>1 DEF Wrap, Off
  <2>2. r[i] = b.data[q]
    BY DEF Reads
  <2> HIDE DEF q
  <2>3. c.data[q] = b.data[q]
    BY <2>1 DEF Laid, LaidAt
  <2>4. QED
    BY <2>2, <2>3 DEF q
<1>3. QED
  BY <1>2 DEF Reads

LEMMA LaidPoint ==
  ASSUME NEW n \in Nat \ {0}, NEW p \in 0..(n - 1), NEW k \in Nat, NEW m \in Nat, k + m <= n,
         NEW q \in 0..(n - 1), NEW p2, p2 = Wrap(n, p + k), NEW e, NEW s, NEW t, NEW u,
         Joins(u, s, k, t, m)
  PROVE  LaidAt(n, p2, q, m, t, LaidAt(n, p, q, k, s, e[q])) = LaidAt(n, p, q, k + m, u, e[q])
<1> DEFINE i == Off(n, p, q)
           j == Off(n, p2, q)
<1>1. i \in 0..(n - 1)
  BY OffIs
<1>2. j = IF i >= k THEN i - k ELSE i + n - k
  BY DEF Off, Wrap
<1> HIDE DEF i, j, LaidAt
<1>3. CASE i < k
  <2>1. ~(j < m) /\ i + 1 \in 1..(k + m) /\ i + 1 <= k /\ i < k + m
    BY <1>1, <1>2, <1>3
  <2>2. u[i + 1] = s[i + 1]
    BY <2>1 DEF Joins
  <2>3. QED
    BY <1>3, <2>1, <2>2 DEF i, j, LaidAt
<1>4. CASE ~(i < k) /\ i < k + m
  <2>1. j < m /\ i + 1 \in 1..(k + m) /\ ~(i + 1 <= k) /\ i + 1 - k = j + 1
    BY <1>1, <1>2, <1>4
  <2>2. u[i + 1] = IF i + 1 <= k THEN s[i + 1] ELSE t[i + 1 - k]
    BY <1>1, <2>1 DEF Joins
  <2>3. u[i + 1] = t[j + 1]
    BY <2>1, <2>2
  <2>4. QED
    BY <1>4, <2>1, <2>3 DEF i, j, LaidAt
<1>5. CASE ~(i < k + m)
  <2>1. ~(j < m) /\ ~(i < k)
    BY <1>1, <1>2, <1>5
  <2>2. QED
    BY <1>5, <2>1 DEF i, j, LaidAt
<1>6. QED
  BY <1>1, <1>3, <1>4, <1>5

\* Two strings that are laid one behind the other are laid as one.
LEMMA LaidTwice ==
  ASSUME NEW n \in Nat \ {0}, NEW p \in 0..(n - 1), NEW e, NEW s \in Seq(Bytes), NEW t \in Seq(Bytes),
         Len(s) + Len(t) <= n, NEW p2, p2 = Wrap(n, p + Len(s))
  PROVE  Laid(Laid(e, n, p, s), n, p2, t) = Laid(e, n, p, s \o t)
<1>1. PICK k \in Nat, m \in Nat : k = Len(s) /\ m = Len(t) /\ Len(s \o t) = k + m
  BY LenProperties, ConcatProperties
<1>2. Joins(s \o t, s, k, t, m)
  BY <1>1, ConcatProperties DEF Joins
<1>3. \A q \in 0..(n - 1) : LaidAt(n, p2, q, m, t, LaidAt(n, p, q, k, s, e[q])) = LaidAt(n, p, q, k + m, s \o t, e[q])
  <2>1. k + m <= n /\ p2 = Wrap(n, p + k)
    BY <1>1
  <2>2. QED
    BY <1>2, <2>1, LaidPoint
<1>4. Laid(e, n, p, s) = [q \in 0..(n - 1) |-> LaidAt(n, p, q, k, s, e[q])]
  BY <1>1 DEF Laid
<1>5. Laid(Laid(e, n, p, s), n, p2, t) =
        [q \in 0..(n - 1) |-> LaidAt(n, p2, q, m, t, LaidAt(n, p, q, k, s, e[q]))]
  BY <1>1, <1>4 DEF Laid
<1>6. Laid(e, n, p, s \o t) = [q \in 0..(n - 1) |-> LaidAt(n, p, q, k + m, s \o t, e[q])]
  BY <1>1 DEF Laid
<1>7. QED
  BY <1>3, <1>5, <1>6

LEMMA StoredIs ==
  ASSUME NEW n \in Nat \ {0}, NEW b, DOMAIN b.data = 0..(n - 1), NEW p \in 0..(n - 1), NEW s,
         Len(s) \in Nat, p + Len(s) <= n
  PROVE  Stored(b, p, s) = WithData(b, Laid(b.data, n, p, s))
<1> DEFINE k == Len(s)
<1>1. ASSUME NEW q \in 0..(n - 1)
      PROVE  (IF q \in p..(p + k - 1) THEN s[q - p + 1] ELSE b.data[q])
           = (IF Off(n, p, q) < k THEN s[Off(n, p, q) + 1] ELSE b.data[q])
  <2> HIDE DEF k
  <2>1. (q \in p..(p + k - 1)) <=> Off(n, p, q) < k
    BY DEF Off, k
  <2>2. q \in p..(p + k - 1) => q - p = Off(n, p, q)
    BY DEF Off, k
  <2>3. QED
    BY <2>1, <2>2
<1>2. [q \in 0..(n - 1) |-> IF q \in p..(p + k - 1) THEN s[q - p + 1] ELSE b.data[q]]
        = Laid(b.data, n, p, s)
  BY <1>1 DEF Laid, LaidAt
<1>3. QED
  BY <1>2 DEF Stored, WithData

LEMMA AppendedIs ==
  ASSUME NEW n \in Nat \ {0}, NEW b, Ring(b, n), NEW s \in Seq(Bytes), Len(s) <= cbuffer_avail(b)
  PROVE  /\ Ring(Appended(b, s), n)
         /\ Appended(b, s).tail = b.tail /\ Appended(b, s).data = Laid(b.data, n, b.head, s)
         /\ Appended(b, s).head = Wrap(n, b.head + Len(s))
         /\ Appended(b, s).isfull = (b.isfull \/ (Len(s) > 0 /\ Appended(b, s).head = b.tail))
         /\ cbuffer_len(Appended(b, s)) = cbuffer_len(b) + Len(s)
<1> DEFINE c == Appended(b, s)
<1>1. PICK k \in Nat : k = Len(s)
  BY LenProperties
<1>2. PICK len \in 0..n : len = cbuffer_len(b) /\ k <= n - len
  BY <1>1, LenType
<1>3. PICK e \in [0..(n - 1) -> Bytes], h \in 0..(n - 1), t \in 0..(n - 1), f \in BOOLEAN :
        /\ b = [cap |-> n, data |-> e, head |-> h, tail |-> t, isfull |-> f]
        /\ f => h = t
  BY DEF Ring
<1>4. /\ b.cap = n /\ b.data = e /\ b.head = h /\ b.tail = t /\ b.isfull = f
      /\ len = IF f THEN n ELSE IF h >= t THEN h - t ELSE n - (t - h)
  BY <1>2, <1>3 DEF cbuffer_len
<1>5. PICK g \in 0..(n - 1) : g = (h + k) % n /\ g = Wrap(n, h + k)
  <2>1. h + k \in 0..(2 * n - 1)
    BY <1>2
  <2>2. QED
    BY <2>1, WrapIs
<1>6. PICK d \in [0..(n - 1) -> Bytes] : d = Laid(e, n, h, s)
  BY LaidType
<1>7. c = [cap |-> n, data |-> d, head |-> g, tail |-> t, isfull |-> f \/ (k > 0 /\ g = t)]
  <2> DEFINE w == [cap |-> n, data |-> d, head |-> h, tail |-> t, isfull |-> f]
  <2>1. WithData(b, Laid(b.data, b.cap, b.head, s)) = w
    BY <1>3, <1>4, <1>6 DEF WithData
  <2>2. w.cap = n /\ w.head = h /\ w.tail = t /\ w.isfull = f
    OBVIOUS
  <2>3. c = Filled(w, k)
    BY <1>1, <2>1 DEF Appended
  <2>4. Filled(w, k) = [w EXCEPT !.head = g, !.isfull = f \/ (k > 0 /\ g = t)]
    <3> HIDE DEF w
    <3>1. QED
      BY <1>5, <2>2 DEF Filled
  <2>5. QED
    BY <2>3, <2>4
<1>8. c.cap = n /\ c.data = d /\ c.head = g /\ c.tail = t /\ c.isfull = (f \/ (k > 0 /\ g = t))
  BY <1>7
<1> HIDE DEF c
<1>9. cbuffer_len(c) = IF c.isfull THEN n ELSE IF g >= t THEN g - t ELSE n - (t - g)
  BY <1>8 DEF cbuffer_len
<1>10. cbuffer_len(c) = len + k /\ (c.isfull => g = t)
  <2>1. CASE f
    <3>1. c.isfull
      BY <1>8, <2>1
    <3>2. len = n /\ k = 0 /\ h = t
      BY <1>2, <1>3, <1>4, <2>1
    <3>3. g = t
      BY <1>5, <3>2 DEF Wrap
    <3>4. QED
      BY <1>9, <3>1, <3>2, <3>3
  <2>2. CASE ~f /\ k > 0 /\ g = t
    <3>1. c.isfull
      BY <1>8, <2>2
    <3>2. len = IF h >= t THEN h - t ELSE n - (t - h)
      BY <1>4, <2>2
    <3>3. len + k = n
      BY <1>2, <1>5, <2>2, <3>2 DEF Wrap
    <3>4. QED
      BY <1>9, <2>2, <3>1, <3>3
  <2>3. CASE ~f /\ ~(k > 0 /\ g = t)
    <3>1. ~c.isfull
      BY <1>8, <2>3
    <3>2. len = IF h >= t THEN h - t ELSE n - (t - h)
      BY <1>4, <2>3
    <3>3. (IF g >= t THEN g - t ELSE n - (t - g)) = len + k
      BY <1>2, <1>5, <2>3, <3>2 DEF Wrap
    <3>4. QED
      BY <1>9, <3>1, <3>3
  <2>4. QED
    BY <1>3, <2>1, <2>2, <2>3
<1>11. Ring(c, n)
  BY <1>7, <1>8, <1>10 DEF Ring
<1>12. QED
  BY <1>1, <1>2, <1>4, <1>5, <1>6, <1>8, <1>10, <1>11 DEF c

LEMMA HeadIs ==
  ASSUME NEW n \in Nat \ {0}, NEW b, Ring(b, n)
  PROVE  b.head = Wrap(n, b.tail + cbuffer_len(b))
BY DEF Ring, cbuffer_len, Wrap

\* Bytes that are stored at the head are the last ones of the contents.
LEMMA AppendedContents ==
  ASSUME NEW n \in Nat \ {0}, NEW b, Ring(b, n), NEW s \in Seq(Bytes), Len(s) <= cbuffer_avail(b)
  PROVE  Contents(Appended(b, s)) = Contents(b) \o s
<1> DEFINE c == Appended(b, s)
<1>1. PICK k \in Nat : k = Len(s)
  BY LenProperties
<1>2. PICK len \in 0..n : len = cbuffer_len(b)
  BY LenType
<1>3. len \in Nat /\ len + k <= n /\ k <= n /\ b.tail \in 0..(n - 1) /\ b.head \in 0..(n - 1) /\ b.head = Wrap(n, b.tail + len)
  BY <1>1, <1>2, LenType, HeadIs DEF Ring
<1>4. /\ Ring(c, n) /\ c.tail = b.tail /\ c.data = Laid(b.data, n, b.head, s) /\ cbuffer_len(c) = len + k
  BY <1>1, <1>2, AppendedIs
<1> HIDE DEF c
<1>5. Reads(Contents(c), n, c, b.tail, len + k)
  BY <1>4, ContentsRead
<1>6. Reads(Contents(b), n, c, b.tail, len)
  <2>1. Reads(Contents(b), n, b, b.tail, len)
    BY <1>2, ContentsRead
  <2>2. Len(s) + len <= n /\ (len > 0 => b.head = Wrap(n, b.tail + len) \/ b.tail = Wrap(n, b.head + Len(s)))
    BY <1>1, <1>3
  <2>3. QED
    BY <1>3, <1>4, <2>1, <2>2, LaidKeeps
<1>7. Reads(s, n, c, b.head, k)
  BY <1>1, <1>3, <1>4, LaidReads
<1>8. Reads(Contents(b) \o s, n, c, b.tail, len + k)
  BY <1>3, <1>6, <1>7, ReadsConcat
<1>9. QED
  BY <1>5, <1>8, ReadsUnique DEF c

LEMMA AppendedNothing ==
  ASSUME NEW n \in Nat \ {0}, NEW b, Ring(b, n)
  PROVE  Appended(b, <<>>) = b
<1>1. /\ <<>> \in Seq(Bytes) /\ Len(<<>>) = 0 /\ 0 <= cbuffer_avail(b)
  BY LenType, EmptySeq
<1>2. b.head \in 0..(n - 1) /\ b.data \in [0..(n - 1) -> Bytes] /\ b.isfull \in BOOLEAN
  BY DEF Ring
<1>3. Laid(b.data, n, b.head, <<>>) = b.data
  <2>1. \A q \in 0..(n - 1) : Off(n, b.head, q) \in 0..(n - 1)
    BY <1>2, OffIs
  <2>2. \A q \in 0..(n - 1) : LaidAt(n, b.head, q, 0, <<>>, b.data[q]) = b.data[q]
    BY <2>1 DEF LaidAt
  <2>3. QED
    BY <1>1, <1>2, <2>2 DEF Laid
<1>4. /\ Ring(Appended(b, <<>>), n) /\ Appended(b, <<>>).tail = b.tail /\ Appended(b, <<>>).data = b.data
      /\ Appended(b, <<>>).head = b.head /\ Appended(b, <<>>).isfull = b.isfull
  BY <1>1, <1>2, <1>3, AppendedIs DEF Wrap
<1>5. QED
  BY <1>4, RingEqual

LEMMA AppendedTwice ==
  ASSUME NEW n \in Nat \ {0}, NEW b, Ring(b, n), NEW s \in Seq(Bytes), NEW t \in Seq(Bytes),
         Len(s) + Len(t) <= cbuffer_avail(b)
  PROVE  Appended(Appended(b, s), t) = Appended(b, s \o t)
<1> DEFINE c == Appended(b, s)
           d == Appended(c, t)
           e == Appended(b, s \o t)
<1>1. PICK k \in Nat, m \in Nat : k = Len(s) /\ m = Len(t)
  BY LenProperties
<1>2. PICK len \in 0..n : len = cbuffer_len(b)
  BY LenType
<1>3. /\ s \o t \in Seq(Bytes) /\ Len(s \o t) = k + m /\ k + m <= n - len /\ cbuffer_avail(b) = n - len
      /\ b.head \in 0..(n - 1) /\ b.isfull \in BOOLEAN
  BY <1>1, <1>2, LenType, ConcatProperties DEF Ring
<1>4. /\ Ring(c, n) /\ c.tail = b.tail /\ c.data = Laid(b.data, n, b.head, s) /\ c.head = Wrap(n, b.head + k)
      /\ c.isfull = (b.isfull \/ (k > 0 /\ c.head = b.tail)) /\ cbuffer_len(c) = len + k
  BY <1>1, <1>2, <1>3, AppendedIs
<1> HIDE DEF c
<1>5. Len(t) <= cbuffer_avail(c)
  BY <1>1, <1>3, <1>4, LenType
<1>6. /\ Ring(d, n) /\ d.tail = b.tail /\ d.data = Laid(c.data, n, c.head, t) /\ d.head = Wrap(n, c.head + m)
      /\ d.isfull = (c.isfull \/ (m > 0 /\ d.head = b.tail)) /\ cbuffer_len(d) = len + k + m
  <2>1. /\ Ring(d, n) /\ d.tail = c.tail /\ d.data = Laid(c.data, n, c.head, t) /\ d.head = Wrap(n, c.head + Len(t))
        /\ d.isfull = (c.isfull \/ (Len(t) > 0 /\ d.head = c.tail)) /\ cbuffer_len(d) = cbuffer_len(c) + Len(t)
    BY <1>4, <1>5, AppendedIs
  <2> HIDE DEF d
  <2>2. QED
    BY <1>1, <1>4, <2>1
<1>7. /\ Ring(e, n) /\ e.tail = b.tail /\ e.data = Laid(b.data, n, b.head, s \o t) /\ e.head = Wrap(n, b.head + (k + m))
      /\ e.isfull = (b.isfull \/ (k + m > 0 /\ e.head = b.tail)) /\ cbuffer_len(e) = len + (k + m)
  <2>1. Len(s \o t) <= cbuffer_avail(b)
    BY <1>1, <1>2, <1>3
  <2>2. /\ Ring(e, n) /\ e.tail = b.tail /\ e.data = Laid(b.data, n, b.head, s \o t) /\ e.head = Wrap(n, b.head + Len(s \o t))
        /\ e.isfull = (b.isfull \/ (Len(s \o t) > 0 /\ e.head = b.tail)) /\ cbuffer_len(e) = cbuffer_len(b) + Len(s \o t)
    BY <1>3, <2>1, AppendedIs
  <2> HIDE DEF e
  <2>3. QED
    BY <1>2, <1>3, <2>2
<1> HIDE DEF d, e
<1>8. d.data = e.data
  <2>1. Len(s) + Len(t) <= n /\ c.head = Wrap(n, b.head + Len(s))
    BY <1>1, <1>3, <1>4
  <2>2. Laid(Laid(b.data, n, b.head, s), n, c.head, t) = Laid(b.data, n, b.head, s \o t)
    BY ONLY n \in Nat \ {0}, s \in Seq(Bytes), t \in Seq(Bytes), <1>3, <2>1, LaidTwice
  <2>3. QED
    BY ONLY <1>4, <1>6, <1>7, <2>2
<1>9. d.head = e.head
  <2>1. k + m <= n
    BY <1>2, <1>3
  <2>2. Wrap(n, Wrap(n, b.head + k) + m) = Wrap(n, b.head + (k + m))
    BY <1>3, <2>1, WrapTwice
  <2>3. QED
    BY <1>4, <1>6, <1>7, <2>2
<1>10. d.isfull = e.isfull
  <2>1. d.isfull \in BOOLEAN /\ e.isfull \in BOOLEAN /\ d.cap = n /\ e.cap = n
    BY <1>6, <1>7 DEF Ring
  <2>2. cbuffer_len(d) = cbuffer_len(e)
    BY <1>6, <1>7
  <2>3. d.isfull <=> e.isfull
    <3>1. \A r \in {d, e} : r.isfull => cbuffer_len(r) = n
      BY <2>1 DEF cbuffer_len
    <3>2. \A r \in {d, e} : ~r.isfull => cbuffer_len(r) < n
      <4>1. ASSUME NEW r, Ring(r, n), ~r.isfull PROVE cbuffer_len(r) < n
        <5>1. PICK h \in 0..(n - 1), u \in 0..(n - 1) : h = r.head /\ u = r.tail /\ r.cap = n
          BY <4>1 DEF Ring
        <5>2. cbuffer_len(r) = IF h >= u THEN h - u ELSE n - (u - h)
          BY <4>1, <5>1 DEF cbuffer_len
        <5>3. QED
          BY ONLY n \in Nat, h \in 0..(n - 1), u \in 0..(n - 1), <5>2
      <4>2. QED
        BY <1>6, <1>7, <4>1
    <3>3. QED
      BY <2>1, <2>2, <3>1, <3>2
  <2>4. QED
    BY <2>1, <2>3
<1>11. d = e
  BY <1>6, <1>7, <1>8, <1>9, <1>10, RingEqual
<1>12. QED
  BY <1>11 DEF c, d, e

\* One turn of the loop of cbuffer_write stores a piece that lies together, and
\* leaves the turn after it, if any, at the start of the ring.
LEMMA WriteNextIs ==
  ASSUME NEW n \in Nat \ {0}, NEW b, Ring(b, n), NEW m \in 1..cbuffer_avail(b)
  PROVE  /\ WriteNext(b, m) \in 1..m /\ b.head + WriteNext(b, m) <= n
         /\ WriteNext(b, m) < m => WriteNext(b, m) = n - b.head
         /\ b.head = 0 => WriteNext(b, m) = m
<1>1. PICK h \in 0..(n - 1), t \in 0..(n - 1) : b.head = h /\ b.tail = t /\ b.cap = n
  BY DEF Ring
<1>2. PICK a \in 0..n : a = cbuffer_avail(b) /\ m <= a
  BY LenType
<1>3. ~b.isfull
  BY <1>1, <1>2 DEF cbuffer_avail, cbuffer_len
<1>4. a = n - (IF h >= t THEN h - t ELSE n - (t - h))
  BY <1>1, <1>2, <1>3 DEF cbuffer_avail, cbuffer_len
<1>5. WriteNext(b, m) = IF h >= t THEN (IF n - h < m THEN n - h ELSE m)
                                  ELSE (IF t - h < m THEN t - h ELSE m)
  BY <1>1 DEF WriteNext, Least
<1>6. QED
  BY <1>1, <1>2, <1>4, <1>5

LEMMA WriteTurn ==
  ASSUME NEW n \in Nat \ {0}, NEW b, Ring(b, n), NEW s \in Seq(Bytes), Len(s) \in 1..cbuffer_avail(b),
         NEW next, next = WriteNext(b, Len(s))
  PROVE  WritePass([b |-> b, bytes |-> s]) =
           [b |-> Appended(b, SubSeq(s, 1, next)), bytes |-> SubSeq(s, next + 1, Len(s))]
<1>1. PICK m \in 1..cbuffer_avail(b) : m = Len(s)
  OBVIOUS
<1>2. next \in 1..m /\ b.head + next <= n
  BY <1>1, WriteNextIs
<1>3. PICK h \in 0..(n - 1) : b.head = h /\ b.cap = n /\ DOMAIN b.data = 0..(n - 1)
  BY DEF Ring
<1>4. Len(SubSeq(s, 1, next)) = next
  <2>1. m \in Nat
    BY <1>1, LenProperties
  <2>2. next \in 0..Len(s)
    BY <1>1, <1>2, <2>1
  <2>3. SubSeq(s, 1, next) \in Seq(Bytes) /\ Len(SubSeq(s, 1, next)) = next
    BY <1>1, <1>2, <2>1, <2>2, FrontIs
  <2>4. QED
    BY <2>3
<1> DEFINE u == SubSeq(s, 1, next)
           w == WithData(b, Laid(b.data, n, b.head, u))
<1>5. Stored(b, b.head, u) = w
  <2> HIDE DEF u
  <2>1. Len(u) \in Nat /\ b.head + Len(u) <= n
    BY <1>2, <1>4 DEF u
  <2>2. QED
    BY <1>3, <2>1, StoredIs
<1>6. w.head = b.head /\ w.tail = b.tail /\ w.cap = b.cap /\ w.isfull = b.isfull
  BY DEF WithData, Ring
<1>7. s # <<>>
  BY <1>1, EmptySeq
<1>8. Appended(b, u) = Filled(w, next)
  BY <1>3, <1>4 DEF Appended
<1> HIDE DEF u, w
<1>9. Filled(w, next) = [w EXCEPT !.head = (b.head + next) % b.cap,
                                  !.isfull = @ \/ (b.head + next) % b.cap = b.tail]
  <2>1. next > 0
    BY <1>2
  <2>2. QED
    BY <1>6, <2>1 DEF Filled
<1>10. WritePass([b |-> b, bytes |-> s]) =
        [b |-> [Stored(b, b.head, u) EXCEPT !.head = (b.head + next) % b.cap,
                                            !.isfull = @ \/ (b.head + next) % b.cap = b.tail],
         bytes |-> SubSeq(s, next + 1, Len(s))]
  BY <1>7 DEF WritePass, u
<1>11. QED
  BY <1>5, <1>8, <1>9, <1>10 DEF u

\* The two turns of the loop store all the bytes, which fit.
LEMMA WriteLoopIs ==
  ASSUME NEW n \in Nat \ {0}, NEW b, Ring(b, n), NEW s \in Seq(Bytes), Len(s) <= cbuffer_avail(b)
  PROVE  WriteLoop(b, s).b = Appended(b, s)
<1>1. PICK m \in Nat, a \in 0..n : m = Len(s) /\ a = cbuffer_avail(b) /\ m <= a
  BY LenProperties, LenType
<1>2. CASE m = 0
  <2>1. s = <<>>
    BY <1>1, <1>2, EmptySeq
  <2>2. WritePass([b |-> b, bytes |-> s]) = [b |-> b, bytes |-> s]
    BY <2>1 DEF WritePass
  <2>3. WriteLoop(b, s).b = b
    BY <2>2 DEF WriteLoop
  <2>4. QED
    BY <2>1, <2>3, AppendedNothing
<1>3. CASE m > 0
  <2> DEFINE u == SubSeq(s, 1, WriteNext(b, m))
             v == SubSeq(s, WriteNext(b, m) + 1, m)
             c == Appended(b, u)
  <2>1. m \in 1..cbuffer_avail(b)
    BY <1>1, <1>3
  <2>2. PICK next \in 1..m : /\ next = WriteNext(b, m) /\ b.head + next <= n
                             /\ next < m => next = n - b.head
    BY <2>1, WriteNextIs
  <2>3. WriteLoop(b, s) = WritePass([b |-> c, bytes |-> v])
    BY <1>1, <2>1, WriteTurn DEF WriteLoop
  <2>4. /\ u \in Seq(Bytes) /\ v \in Seq(Bytes) /\ Len(u) = next /\ Len(v) = m - next /\ u \o v = s
    <3>1. next \in 0..Len(s)
      BY <1>1, <2>2
    <3>2. u = SubSeq(s, 1, next) /\ v = SubSeq(s, next + 1, Len(s))
      BY <1>1, <2>2
    <3>3. SubSeq(s, 1, next) \in Seq(Bytes) /\ Len(SubSeq(s, 1, next)) = next
      BY <3>1, FrontIs
    <3>4. SubSeq(s, next + 1, Len(s)) \in Seq(Bytes) /\ Len(SubSeq(s, next + 1, Len(s))) = Len(s) - next
      BY <3>1, BackIs
    <3>5. SubSeq(s, 1, next) \o SubSeq(s, next + 1, Len(s)) = s
      BY <3>1, CutIs
    <3> HIDE DEF u, v
    <3>6. QED
      BY <1>1, <3>2, <3>3, <3>4, <3>5
  <2> HIDE DEF u, v
  <2>5. Len(u) <= cbuffer_avail(b) /\ Len(u) + Len(v) <= cbuffer_avail(b)
    BY <1>1, <2>2, <2>4
  <2>6. /\ Ring(c, n) /\ c.tail = b.tail /\ c.head = Wrap(n, b.head + next) /\ cbuffer_avail(c) = a - next
    <3>1. /\ Ring(c, n) /\ c.tail = b.tail /\ c.head = Wrap(n, b.head + Len(u))
          /\ cbuffer_len(c) = cbuffer_len(b) + Len(u)
      BY <2>4, <2>5, AppendedIs
    <3> HIDE DEF c
    <3>2. cbuffer_avail(c) = n - cbuffer_len(c) /\ cbuffer_len(b) \in 0..n /\ cbuffer_avail(b) = n - cbuffer_len(b)
      BY <3>1, LenType
    <3>3. QED
      BY <1>1, <2>2, <2>4, <3>1, <3>2
  <2>7. Appended(c, v) = Appended(b, s)
    <3>1. Appended(Appended(b, u), v) = Appended(b, u \o v)
      <4>1. u \in Seq(Bytes) /\ v \in Seq(Bytes) /\ Len(u) + Len(v) <= cbuffer_avail(b)
        BY <2>4, <2>5
      <4>2. QED
        BY <4>1, AppendedTwice
    <3>2. QED
      BY <2>4, <3>1
  <2> HIDE DEF c
  <2>8. CASE next = m
    <3>1. v = <<>>
      BY <2>4, <2>8, EmptySeq
    <3>2. WritePass([b |-> c, bytes |-> v]) = [b |-> c, bytes |-> v]
      BY <3>1 DEF WritePass
    <3>3. Appended(c, v) = c
      BY <2>6, <3>1, AppendedNothing
    <3>4. QED
      BY <2>3, <2>7, <3>2, <3>3
  <2>9. CASE next < m
    <3>1. PICK k \in 1..cbuffer_avail(c) : k = Len(v)
      BY <1>1, <2>2, <2>4, <2>6, <2>9
    <3>2. c.head = 0
      BY <2>2, <2>6, <2>9 DEF Wrap, Ring
    <3>3. WriteNext(c, k) = k
      BY <2>6, <3>2, WriteNextIs
    <3>4. WritePass([b |-> c, bytes |-> v]) =
            [b |-> Appended(c, SubSeq(v, 1, k)), bytes |-> SubSeq(v, k + 1, Len(v))]
      BY <2>4, <2>6, <3>1, <3>3, WriteTurn
    <3>5. SubSeq(v, 1, k) = v
      BY <2>4, <3>1, WholeIs
    <3>6. QED
      <4>1. WriteLoop(b, s).b = Appended(c, SubSeq(v, 1, k))
        BY <2>3, <3>4
      <4>2. QED
        BY <2>7, <3>5, <4>1
  <2>10. QED
    BY <2>2, <2>8, <2>9
<1>4. QED
  BY <1>1, <1>2, <1>3

\* The two copies of the single-element calls.
LEMMA StoredAroundIs ==
  ASSUME NEW n \in Nat \ {0}, NEW b, Ring(b, n), NEW p \in 0..(n - 1), NEW s \in Seq(Bytes), Len(s) <= n
  PROVE  StoredAround(b, p, s) = WithData(b, Laid(b.data, n, p, s))
<1>1. PICK m \in Nat : m = Len(s)
  BY LenProperties
<1>2. b.cap = n /\ DOMAIN b.data = 0..(n - 1)
  BY DEF Ring
<1>3. CASE p + m <= n
  BY <1>1, <1>2, <1>3, StoredIs DEF StoredAround
<1>4. CASE ~(p + m <= n)
  <2>1. PICK k \in Nat : k = n - p /\ k \in 0..Len(s) /\ p + k <= n /\ 0 + (m - k) <= n
    BY <1>1, <1>4
  <2>2. PICK u \in Seq(Bytes) : u = SubSeq(s, 1, k) /\ Len(u) = k
    BY <2>1, FrontIs
  <2>3. PICK v \in Seq(Bytes) : v = SubSeq(s, k + 1, Len(s)) /\ Len(v) = m - k
    BY <1>1, <2>1, BackIs
  <2>4. u \o v = s
    BY <2>1, <2>2, <2>3, CutIs
  <2>5. StoredAround(b, p, s) = Stored(Stored(b, p, u), 0, v)
    BY <1>1, <1>2, <1>4, <2>1, <2>2, <2>3 DEF StoredAround
  <2>6. Len(u) \in Nat /\ p + Len(u) <= n /\ Len(v) \in Nat /\ 0 + Len(v) <= n /\ 0 \in 0..(n - 1)
    BY <1>1, <2>1, <2>2, <2>3, LenProperties
  <2> DEFINE w == WithData(b, Laid(b.data, n, p, u))
  <2>7. Stored(b, p, u) = w
    BY <1>2, <2>6, StoredIs
  <2>8. w.data = Laid(b.data, n, p, u) /\ DOMAIN w.data = 0..(n - 1)
    BY DEF WithData, Laid, Ring
  <2> HIDE DEF w
  <2>9. Stored(w, 0, v) = WithData(w, Laid(w.data, n, 0, v))
    BY <2>6, <2>8, StoredIs
  <2>10. Laid(Laid(b.data, n, p, u), n, 0, v) = Laid(b.data, n, p, u \o v)
    <3>1. Len(u) + Len(v) <= n /\ 0 = Wrap(n, p + Len(u))
      <4>1. k + (m - k) = m /\ m <= n /\ 0 = Wrap(n, p + k)
        BY <1>1, <2>1 DEF Wrap
      <4>2. QED
        BY <2>2, <2>3, <4>1
    <3>2. QED
      BY <3>1, LaidTwice
  <2>11. WithData(w, Laid(b.data, n, p, s)) = WithData(b, Laid(b.data, n, p, s))
    BY DEF w, WithData, Ring
  <2>12. QED
    BY <2>4, <2>5, <2>7, <2>8, <2>9, <2>10, <2>11
<1>5. QED
  BY <1>1, <1>3, <1>4

LEMMA PushedBack ==
  ASSUME NEW n \in Nat \ {0}, NEW b, Ring(b, n), NEW s \in Seq(Bytes), Len(s) <= cbuffer_avail(b)
  PROVE  Filled(StoredAround(b, b.head, s), Len(s)) = Appended(b, s)
<1>1. PICK h \in 0..(n - 1) : b.head = h /\ b.cap = n
  BY DEF Ring
<1>2. Len(s) <= n
  BY LenProperties, LenType
<1>3. StoredAround(b, h, s) = WithData(b, Laid(b.data, n, h, s))
  BY <1>2, StoredAroundIs
<1>4. QED
  BY <1>1, <1>3 DEF Appended

\* Bytes that are stored in front of the tail are the first ones of the contents.
LEMMA PushedFront ==
  ASSUME NEW n \in Nat \ {0}, NEW b, Ring(b, n), NEW s \in Seq(Bytes), s # <<>>, Len(s) <= cbuffer_avail(b),
         NEW p \in 0..(n - 1), b.tail = Wrap(n, p + Len(s))
  PROVE  Ring(Prepended(b, p, s), n) /\ Contents(Prepended(b, p, s)) = s \o Contents(b)
<1> DEFINE c == Prepended(b, p, s)
<1>1. PICK k \in Nat \ {0} : k = Len(s)
  BY LenProperties, EmptySeq
<1>2. PICK len \in 0..n : len = cbuffer_len(b) /\ k <= n - len
  BY <1>1, LenType
<1>3. PICK e \in [0..(n - 1) -> Bytes], h \in 0..(n - 1), t \in 0..(n - 1), f \in BOOLEAN :
        /\ b = [cap |-> n, data |-> e, head |-> h, tail |-> t, isfull |-> f]
        /\ f => h = t
  BY DEF Ring
<1>4. /\ b.cap = n /\ b.data = e /\ b.head = h /\ b.tail = t /\ b.isfull = f
      /\ len = IF f THEN n ELSE IF h >= t THEN h - t ELSE n - (t - h)
  BY <1>2, <1>3 DEF cbuffer_len
<1>5. ~f
  BY <1>2, <1>4
<1>6. t = Wrap(n, p + k) /\ p \in 0..(n - 1)
  BY <1>1, <1>4
<1>7. PICK d \in [0..(n - 1) -> Bytes] : d = Laid(e, n, p, s)
  BY <1>6, LaidType
<1>8. StoredAround(b, p, s) = [cap |-> n, data |-> d, head |-> h, tail |-> t, isfull |-> f]
  <2>1. Len(s) <= n
    BY <1>1, <1>2
  <2>2. StoredAround(b, p, s) = WithData(b, Laid(b.data, n, p, s))
    BY <1>6, <2>1, StoredAroundIs
  <2>3. QED
    BY <1>3, <1>4, <1>7, <2>2 DEF WithData
<1>9. PICK g \in BOOLEAN : g <=> h = p
  OBVIOUS
<1>10. /\ c = [cap |-> n, data |-> d, head |-> h, tail |-> p, isfull |-> g]
       /\ c.cap = n /\ c.data = d /\ c.head = h /\ c.tail = p /\ c.isfull = g
  <2>1. g = (f \/ b.head = p)
    BY <1>4, <1>5, <1>9
  <2> DEFINE w == [cap |-> n, data |-> d, head |-> h, tail |-> t, isfull |-> f]
  <2>2. c = [w EXCEPT !.tail = p, !.isfull = g]
    <3>1. w.isfull = f
      OBVIOUS
    <3> HIDE DEF w
    <3>2. c = [w EXCEPT !.tail = p, !.isfull = f \/ b.head = p]
      BY <1>8, <3>1 DEF Prepended, w
    <3>3. QED
      BY <2>1, <3>2
  <2>3. c = [cap |-> n, data |-> d, head |-> h, tail |-> p, isfull |-> g]
    BY <2>2
  <2> HIDE DEF c
  <2>4. QED
    BY <2>3
<1> HIDE DEF c
<1>11. Ring(c, n)
  BY <1>6, <1>9, <1>10 DEF Ring
<1>12. cbuffer_len(c) = len + k
  <2>1. cbuffer_len(c) = IF h = p THEN n ELSE IF h >= p THEN h - p ELSE n - (p - h)
    BY <1>9, <1>10 DEF cbuffer_len
  <2>2. len = IF h >= t THEN h - t ELSE n - (t - h)
    BY <1>4, <1>5
  <2>3. QED
    BY <1>2, <1>6, <2>1, <2>2 DEF Wrap
<1>13. Reads(Contents(c), n, c, p, k + len)
  <2>1. Reads(Contents(c), n, c, p, len + k)
    <3>1. Reads(Contents(c), n, c, c.tail, cbuffer_len(c))
      BY <1>11, ContentsRead
    <3>2. QED
      BY <1>10, <1>12, <3>1
  <2>2. len + k = k + len
    OBVIOUS
  <2>3. QED
    BY <2>1, <2>2
<1>14. Reads(s, n, c, p, k)
  <2>1. Len(s) <= n /\ c.data = Laid(e, n, p, s)
    BY <1>1, <1>2, <1>7, <1>10
  <2>2. QED
    BY <1>1, <1>6, <2>1, LaidReads
<1>15. Reads(Contents(b), n, c, t, len)
  <2>1. Reads(Contents(b), n, b, t, len)
    BY <1>2, <1>4, ContentsRead
  <2>2. Len(s) + len <= n /\ t = Wrap(n, p + Len(s))
    <3>1. k + len <= n /\ t = Wrap(n, p + k)
      BY <1>2, <1>6 DEF Wrap
    <3>2. QED
      BY <1>1, <3>1
  <2>3. c.data = Laid(b.data, n, p, s)
    BY <1>4, <1>7, <1>10
  <2>4. QED
    BY <1>6, <2>1, <2>2, <2>3, LaidKeeps
<1>16. Reads(s \o Contents(b), n, c, p, k + len)
  <2>1. k \in Nat /\ len \in Nat /\ k + len <= n /\ t = Wrap(n, p + k)
    BY <1>2, <1>6 DEF Wrap
  <2>2. QED
    BY <1>6, <1>14, <1>15, <2>1, ReadsConcat
<1>17. QED
  BY <1>11, <1>13, <1>16, ReadsUnique DEF c

\* cbuffer_cbuffer_move and cbuffer_cbuffer_copy store the first m bytes of c
\* into b, in the pieces in which they lie in c.
DeliveredInto(b, c, n, m) ==
  LET first == FirstPiece(c, m)
      one   == WriteLoop(b, Piece(c, c.tail, first)).b
  IN  IF m = first THEN one
      ELSE WriteLoop(one, Piece(c, (c.tail + first) % n, m - first)).b

LEMMA FirstPieceIs ==
  ASSUME NEW n \in Nat \ {0}, NEW b, Ring(b, n), NEW m
  PROVE  FirstPiece(b, m) = ReadNext(b, m)
<1>1. PICK h \in 0..(n - 1), t \in 0..(n - 1), f \in BOOLEAN : b.head = h /\ b.tail = t /\ b.isfull = f
  BY DEF Ring
<1>2. (~f /\ h > t) <=> ~(f \/ h <= t)
  OBVIOUS
<1>3. CASE ~f /\ h > t
  BY <1>1, <1>2, <1>3 DEF FirstPiece, ReadNext
<1>4. CASE ~(~f /\ h > t)
  BY <1>1, <1>2, <1>4 DEF FirstPiece, ReadNext
<1>5. QED
  BY <1>3, <1>4

LEMMA DeliveredIs ==
  ASSUME NEW n \in Nat \ {0}, NEW b, Ring(b, n), NEW p \in Nat \ {0}, NEW c, Ring(c, p),
         NEW m \in 1..cbuffer_len(c), m <= cbuffer_avail(b)
  PROVE  DeliveredInto(b, c, p, m) = Appended(b, SubSeq(Contents(c), 1, m))
<1>1. PICK len \in 0..p, t \in 0..(p - 1), a \in 0..n : len = cbuffer_len(c) /\ t = c.tail /\ a = cbuffer_avail(b)
  BY LenType DEF Ring
<1>2. PICK first \in 1..m : /\ first = FirstPiece(c, m) /\ t + first <= p
                            /\ first < m => first = p - t
  BY <1>1, ReadNextIs, FirstPieceIs
<1>3. Reads(SubSeq(Contents(c), 1, m), p, c, t, m)
  BY <1>1, FrontReads
<1>4. PICK u : u = Piece(c, t, first)
  OBVIOUS
<1>5. Reads(u, p, c, t, first)
  <2>1. t \in Nat /\ first \in Nat
    BY <1>1
  <2>2. QED
    BY <1>2, <1>4, <2>1, PieceReads
<1>6. u \in Seq(Bytes) /\ Len(u) = first
  BY <1>5 DEF Reads
<1>7. WriteLoop(b, u).b = Appended(b, u)
  <2>1. Len(u) <= cbuffer_avail(b)
    BY <1>1, <1>6
  <2>2. QED
    BY <1>6, <2>1, WriteLoopIs
<1>8. CASE first = m
  <2>1. DeliveredInto(b, c, p, m) = WriteLoop(b, u).b
    BY <1>1, <1>2, <1>4, <1>8 DEF DeliveredInto
  <2>2. u = SubSeq(Contents(c), 1, m)
    BY <1>3, <1>5, <1>8, ReadsUnique
  <2>3. QED
    BY <1>7, <2>1, <2>2
<1>9. CASE first < m
  <2>1. PICK k \in Nat : k = m - first /\ first + k = m /\ 0 + k <= p /\ first + k <= p
    BY <1>1, <1>9
  <2>2. (t + first) % p = 0 /\ 0 = Wrap(p, t + first)
    BY <1>2, <1>9 DEF Wrap
  <2>3. PICK v : v = Piece(c, 0, k)
    OBVIOUS
  <2>4. Reads(v, p, c, 0, k)
    BY <2>1, <2>3, PieceReads
  <2>5. v \in Seq(Bytes) /\ Len(v) = k
    BY <2>4 DEF Reads
  <2>6. Reads(u \o v, p, c, t, first + k)
    <3>1. first \in Nat
      OBVIOUS
    <3>2. QED
      BY <1>5, <2>1, <2>2, <2>4, <3>1, ReadsConcat
  <2>7. u \o v = SubSeq(Contents(c), 1, m)
    BY <1>3, <2>1, <2>6, ReadsUnique
  <2>8. DeliveredInto(b, c, p, m) = WriteLoop(WriteLoop(b, u).b, v).b
    <3>1. m # first
      BY <1>9
    <3>2. QED
      BY <1>1, <1>2, <1>4, <2>1, <2>2, <2>3, <3>1 DEF DeliveredInto
  <2>9. Len(u) + Len(v) <= cbuffer_avail(b) /\ Len(u) <= cbuffer_avail(b)
    BY <1>1, <1>6, <2>1, <2>5
  <2> DEFINE w == Appended(b, u)
  <2>10. Ring(w, n) /\ cbuffer_len(w) = cbuffer_len(b) + Len(u)
    BY <1>6, <2>9, AppendedIs
  <2> HIDE DEF w
  <2>11. Len(v) <= cbuffer_avail(w)
    <3>1. cbuffer_avail(w) = n - cbuffer_len(w) /\ cbuffer_avail(b) = n - cbuffer_len(b) /\ cbuffer_len(b) \in 0..n
      BY <2>10, LenType
    <3>2. QED
      BY <1>1, <1>6, <2>1, <2>5, <2>10, <3>1
  <2>12. WriteLoop(w, v).b = Appended(w, v)
    BY <2>5, <2>10, <2>11, WriteLoopIs
  <2>13. Appended(Appended(b, u), v) = Appended(b, u \o v)
    BY <1>6, <2>5, <2>9, AppendedTwice
  <2>14. QED
    BY <1>7, <2>7, <2>8, <2>12, <2>13 DEF w
<1>10. QED
  BY <1>2, <1>8, <1>9

LEMMA FilledStored ==
  ASSUME NEW n \in Nat \ {0}, NEW b, Ring(b, n), NEW s \in Seq(Bytes), b.head + Len(s) <= n
  PROVE  Filled(Stored(b, b.head, s), Len(s)) = Appended(b, s)
<1>1. PICK h \in 0..(n - 1) : h = b.head /\ b.cap = n /\ DOMAIN b.data = 0..(n - 1)
  BY DEF Ring
<1>2. Len(s) \in Nat /\ h + Len(s) <= n
  BY <1>1, LenProperties
<1>3. Stored(b, h, s) = WithData(b, Laid(b.data, n, h, s))
  BY <1>1, <1>2, StoredIs
<1>4. QED
  BY <1>1, <1>3 DEF Appended

\* What a read from a file stores, before it is counted as data.
LEMMA WithDataIs ==
  ASSUME NEW n \in Nat \ {0}, NEW b, Ring(b, n), NEW s \in Seq(Bytes), Len(s) <= cbuffer_avail(b),
         NEW w, w = WithData(b, Appended(b, s).data)
  PROVE  /\ Ring(w, n) /\ Contents(w) = Contents(b)
         /\ Filled(w, Len(s)) = Appended(b, s)
         /\ w = Unmoved(Appended(b, s), b)
<1> USE DEF Unmoved
<1>1. PICK k \in Nat : k = Len(s)
  BY LenProperties
<1>2. PICK len \in 0..n : len = cbuffer_len(b) /\ k <= n - len
  BY <1>1, LenType
<1>3. PICK e \in [0..(n - 1) -> Bytes], h \in 0..(n - 1), t \in 0..(n - 1), f \in BOOLEAN :
        /\ b = [cap |-> n, data |-> e, head |-> h, tail |-> t, isfull |-> f]
        /\ f => h = t
  BY DEF Ring
<1>4. b.cap = n /\ b.data = e /\ b.head = h /\ b.tail = t /\ b.isfull = f
  BY <1>3
<1>5. PICK d \in [0..(n - 1) -> Bytes] : d = Laid(e, n, h, s) /\ Appended(b, s).data = d
  <2>1. Appended(b, s).data = Laid(b.data, n, b.head, s)
    BY AppendedIs
  <2>2. Laid(e, n, h, s) \in [0..(n - 1) -> Bytes]
    BY LaidType
  <2>3. QED
    BY <1>4, <2>1, <2>2
<1>6. /\ w = [cap |-> n, data |-> d, head |-> h, tail |-> t, isfull |-> f]
      /\ w.cap = n /\ w.data = d /\ w.head = h /\ w.tail = t /\ w.isfull = f
  BY <1>3, <1>4, <1>5 DEF WithData
<1>7. Ring(w, n)
  BY <1>3, <1>6 DEF Ring
<1>8. cbuffer_len(w) = len
  BY <1>2, <1>4, <1>6 DEF cbuffer_len
<1>9. Contents(w) = Contents(b)
  <2>1. Reads(Contents(w), n, w, t, len)
    BY <1>6, <1>7, <1>8, ContentsRead
  <2>2. Reads(Contents(b), n, b, t, len)
    BY <1>2, <1>4, ContentsRead
  <2>3. Len(s) + len <= n
    BY <1>1, <1>2
  <2>4. h = Wrap(n, t + len)
    BY <1>2, <1>4, HeadIs
  <2>5. w.data = Laid(b.data, n, h, s)
    BY <1>4, <1>5, <1>6
  <2>6. Reads(Contents(b), n, w, t, len)
    BY <2>2, <2>3, <2>4, <2>5, LaidKeeps
  <2>7. QED
    BY <2>1, <2>6, ReadsUnique
<1>10. Filled(w, Len(s)) = Appended(b, s)
  BY <1>4, <1>5 DEF Appended
<1>11. w = [Appended(b, s) EXCEPT !.head = b.head, !.isfull = b.isfull]
  <2> DEFINE c == Appended(b, s)
  <2>1. Ring(c, n) /\ c.tail = t /\ c.data = d
    BY <1>4, <1>5, AppendedIs
  <2> HIDE DEF c
  <2>2. w = [c EXCEPT !.head = h, !.isfull = f]
    BY <1>6, <2>1 DEF Ring
  <2>3. QED
    BY <1>4, <2>2 DEF c
<1>12. QED
  BY <1>7, <1>9, <1>10, <1>11

-----------------------------------------------------------------------------
(***************************************************************************)
(* The calls.  Each is the call of the same name on queues, or one of the  *)
(* calls that reads, writes or fails.                                      *)
(***************************************************************************)

LEMMA BufIs ==
  ASSUME Rings, NEW x \in Bufs
  PROVE  /\ cap[x] \in Nat \ {0} /\ Ring(buf[x], cap[x]) /\ buf[x].cap = cap[x]
         /\ Contents(buf[x]) \in Seq(Bytes) /\ Len(Contents(buf[x])) = cbuffer_len(buf[x])
         /\ cbuffer_len(buf[x]) \in 0..cap[x]
         /\ Abs!Room(x) = cbuffer_avail(buf[x]) /\ cbuffer_avail(buf[x]) \in 0..cap[x]
<1>1. cap[x] \in Nat \ {0} /\ Ring(buf[x], cap[x])
  BY CBufferAssumption DEF Rings
<1>2. PICK n \in Nat \ {0} : n = cap[x]
  BY <1>1
<1>3. buf[x].cap = cap[x]
  BY <1>1 DEF Ring
<1>4. Contents(buf[x]) \in Seq(Bytes) /\ Len(Contents(buf[x])) = cbuffer_len(buf[x])
  BY <1>1, ContentsRead DEF Reads
<1>5. cbuffer_len(buf[x]) \in 0..n /\ cbuffer_avail(buf[x]) = n - cbuffer_len(buf[x])
  BY <1>1, <1>2, LenType
<1>6. Abs!Room(x) = cap[x] - Len(Contents(buf[x]))
  BY DEF Abs!Room
<1>7. QED
  BY <1>1, <1>2, <1>3, <1>4, <1>5, <1>6

\* A call that changes one buffer.
LEMMA OneChanged ==
  ASSUME Rings, NEW x \in Bufs, NEW c, Ring(c, cap[x]), buf' = [buf EXCEPT ![x] = c], NEW s, Contents(c) = s
  PROVE  /\ Rings'
         /\ [y \in Bufs |-> Contents(buf[y])]' = [[y \in Bufs |-> Contents(buf[y])] EXCEPT ![x] = s]
<1>1. \A y \in Bufs : buf'[y] = IF y = x THEN c ELSE buf[y]
  BY DEF Rings
<1>2. buf' = [y \in Bufs |-> buf'[y]]
  BY DEF Rings
<1>3. Rings'
  BY <1>1, <1>2 DEF Rings
<1>4. \A y \in Bufs : Contents(buf'[y]) = IF y = x THEN s ELSE Contents(buf[y])
  BY <1>1
<1>5. [y \in Bufs |-> Contents(buf'[y])] = [[y \in Bufs |-> Contents(buf[y])] EXCEPT ![x] = s]
  BY <1>4
<1>6. QED
  BY <1>3, <1>5

\* A call that changes two buffers.
Queues == [z \in Bufs |-> Contents(buf[z])]
Both(f, x, s, y, r) == [f EXCEPT ![x] = s, ![y] = r]

LEMMA TwoChanged ==
  ASSUME Rings, NEW x \in Bufs, NEW y \in Bufs, x # y, NEW c, Ring(c, cap[x]), NEW d, Ring(d, cap[y]),
         buf' = Both(buf, x, c, y, d), NEW s, Contents(c) = s, NEW r, Contents(d) = r
  PROVE  Rings' /\ Queues' = Both(Queues, x, s, y, r)
<1>1. buf'[x] = c /\ buf'[y] = d /\ \A z \in Bufs \ {x, y} : buf'[z] = buf[z]
  BY DEF Rings, Both
<1>2. buf' = [z \in Bufs |-> buf'[z]]
  BY DEF Rings, Both
<1>3. \A z \in Bufs : Ring(buf'[z], cap[z])
  <2>1. SUFFICES ASSUME NEW z \in Bufs PROVE Ring(buf'[z], cap[z])
    OBVIOUS
  <2>2. CASE z \in {x, y}
    BY <1>1, <2>2
  <2>3. CASE z \notin {x, y}
    BY <1>1, <2>3 DEF Rings
  <2>4. QED
    BY <2>2, <2>3
<1>4. Rings'
  BY <1>2, <1>3 DEF Rings
<1> DEFINE Q == [z \in Bufs |-> Contents(buf[z])]
           R == [Q EXCEPT ![x] = s, ![y] = r]
<1>5. ASSUME NEW z \in Bufs PROVE Contents(buf'[z]) = R[z]
  <2>1. CASE z = y
    BY <1>1, <2>1
  <2>2. CASE z = x
    BY <1>1, <2>2
  <2>3. CASE z \notin {x, y}
    <3>1. buf'[z] = buf[z]
      BY <1>1, <2>3
    <3>2. Q[z] = Contents(buf[z]) /\ Q = [u \in Bufs |-> Q[u]]
      OBVIOUS
    <3> HIDE DEF Q
    <3>3. R[z] = Q[z]
      BY <2>3, <3>2
    <3>4. QED
      BY <3>1, <3>2, <3>3
  <2>4. QED
    BY <2>1, <2>2, <2>3
<1>6. R = [z \in Bufs |-> R[z]]
  OBVIOUS
<1> HIDE DEF R
<1>7. [z \in Bufs |-> Contents(buf'[z])] = R
  BY <1>5, <1>6
<1>8. QED
  BY <1>4, <1>7 DEF R, Queues, Both

LEMMA NoneChanged ==
  ASSUME Rings, UNCHANGED buf
  PROVE  Rings' /\ UNCHANGED [y \in Bufs |-> Contents(buf[y])]
BY DEF Rings

LEMMA WholeElements ==
  ASSUME NEW size \in Nat \ {0}, NEW a \in Nat, NEW k \in Nat, k <= a \div size
  PROVE  k * size \in 0..a /\ (k * size) \div size = k
OBVIOUS

\* A number that is at most another.
LEMMA UpTo ==
  ASSUME NEW l \in Nat, NEW v \in 0..l
  PROVE  \E m \in Nat : m = v /\ m \in 0..l
OBVIOUS

LEMMA DivType ==
  ASSUME NEW size \in Nat \ {0}, NEW a \in Nat
  PROVE  a \div size \in Nat
OBVIOUS

LEMMA LeastIs ==
  ASSUME NEW i \in Nat, NEW j \in Nat
  PROVE  Least(i, j) \in Nat /\ Least(i, j) <= i /\ Least(i, j) <= j
BY DEF Least

LEMMA WriteImplements ==
  ASSUME Rings, NEW x \in Bufs, NEW size \in Nat \ {0}, NEW src \in Seq(Bytes), Write(x, size, src)
  PROVE  Rings' /\ Abs!Write(x, size, src)
<1>1. PICK n \in Nat \ {0} : n = cap[x] /\ Ring(buf[x], n)
  BY BufIs
<1>2. PICK a \in Nat, l \in Nat : a = cbuffer_avail(buf[x]) /\ l = Len(src) /\ a = Abs!Room(x)
  BY BufIs, LenProperties
<1>3. PICK k \in Nat : k = Least(l \div size, a \div size) /\ k <= l \div size /\ k <= a \div size
  BY DivType, LeastIs
<1>4. k * size \in 0..a /\ k * size \in 0..l
  BY <1>3, WholeElements
<1>5. PICK s \in Seq(Bytes) : s = SubSeq(src, 1, k * size) /\ Len(s) = k * size
  BY <1>2, <1>4, FrontIs
<1>6. Len(s) <= cbuffer_avail(buf[x])
  BY <1>2, <1>4, <1>5
<1>7. Ring(Appended(buf[x], s), n) /\ Contents(Appended(buf[x], s)) = Contents(buf[x]) \o s
  BY <1>1, <1>6, AppendedIs, AppendedContents
<1>8. buf' = [buf EXCEPT ![x] = Appended(buf[x], s)] /\ Out("write", k, <<>>)
  <2>1. WriteLoop(buf[x], s).b = Appended(buf[x], s)
    BY <1>1, <1>6, WriteLoopIs
  <2>2. QED
    BY <1>2, <1>3, <1>5, <2>1 DEF Write
<1>9. /\ Rings'
      /\ [y \in Bufs |-> Contents(buf[y])]'
           = [[y \in Bufs |-> Contents(buf[y])] EXCEPT ![x] = Contents(buf[x]) \o s]
  BY <1>1, <1>7, <1>8, OneChanged
<1>10. k = Abs!Least(Len(src) \div size, Abs!Room(x) \div size) /\ s = Abs!FirstN(src, k * size)
  BY <1>2, <1>3, <1>5 DEF Least, Abs!Least, Abs!FirstN
<1>11. QED
  BY <1>8, <1>9, <1>10 DEF Abs!Write, Abs!Out, Out

\* Whole elements that are taken or looked at from the front.
LEMMA ReadImplements ==
  ASSUME Rings, NEW x \in Bufs, NEW size \in Nat \ {0}, NEW n \in Nat
  PROVE  /\ Read(x, size, n) => Rings' /\ Abs!Read(x, size, n)
         /\ Copy(x, size, n) => Rings' /\ Abs!Copy(x, size, n)
<1>1. PICK l \in Nat : l = cbuffer_len(buf[x]) /\ l = Len(Contents(buf[x]))
  BY BufIs
<1>2. PICK k \in Nat : k = Least(n, l \div size) /\ k <= l \div size
  BY DivType, LeastIs
<1>3. PICK m \in Nat : m = k * size /\ m \in 0..l
  <2>1. k * size \in 0..l
    BY ONLY size \in Nat \ {0}, l \in Nat, k \in Nat, <1>2, WholeElements
  <2>2. QED
    BY ONLY l \in Nat, <2>1, UpTo
<1>4. PICK c : c = Consumed(buf[x], m)
  OBVIOUS
<1>5. /\ ReadLoop(buf[x], m).b = c /\ ReadLoop(buf[x], m).bytes = SubSeq(Contents(buf[x]), 1, m)
      /\ Ring(c, cap[x]) /\ Contents(c) = SubSeq(Contents(buf[x]), m + 1, Len(Contents(buf[x])))
  <2>1. cap[x] \in Nat \ {0} /\ Ring(buf[x], cap[x]) /\ m \in 0..cbuffer_len(buf[x])
    BY <1>1, <1>3, BufIs
  <2>2. ReadLoop(buf[x], m).b = c /\ ReadLoop(buf[x], m).bytes = SubSeq(Contents(buf[x]), 1, m)
    BY <1>4, <2>1, ReadLoopIs
  <2>3. Ring(c, cap[x])
    BY <1>4, <2>1, ConsumedIs
  <2>4. Contents(c) = SubSeq(Contents(buf[x]), m + 1, Len(Contents(buf[x])))
    BY <1>4, <2>1, ConsumedContents
  <2>5. QED
    BY <2>2, <2>3, <2>4
<1>6. k = Abs!Least(n, Len(Contents(buf[x])) \div size)
  BY <1>1, <1>2 DEF Least, Abs!Least
<1>7. ASSUME Read(x, size, n) PROVE Rings' /\ Abs!Read(x, size, n)
  <2>1. buf' = [buf EXCEPT ![x] = c] /\ Out("read", k, SubSeq(Contents(buf[x]), 1, m))
    BY <1>1, <1>2, <1>3, <1>5, <1>7 DEF Read
  <2>2. /\ Rings'
        /\ [y \in Bufs |-> Contents(buf[y])]'
             = [[y \in Bufs |-> Contents(buf[y])] EXCEPT ![x] = Contents(c)]
    BY <1>5, <2>1, OneChanged
  <2>3. QED
    BY <1>3, <1>5, <1>6, <2>1, <2>2 DEF Abs!Read, Abs!Out, Abs!FirstN, Abs!AfterN, Out
<1>8. ASSUME Copy(x, size, n) PROVE Rings' /\ Abs!Copy(x, size, n)
  <2>1. UNCHANGED buf /\ Out("copy", k, SubSeq(Contents(buf[x]), 1, m))
    BY <1>1, <1>2, <1>3, <1>5, <1>8 DEF Copy
  <2>2. Rings' /\ UNCHANGED [y \in Bufs |-> Contents(buf[y])]
    BY <2>1, NoneChanged
  <2>3. QED
    BY <1>3, <1>6, <2>1, <2>2 DEF Abs!Copy, Abs!Out, Abs!FirstN, Out
<1>9. QED
  BY <1>7, <1>8

\* cbuffer_fakewrite over bytes that were stored
LEMMA FilledImplements ==
  ASSUME Rings, NEW x \in Bufs, NEW s \in Seq(Bytes), Len(s) <= cbuffer_avail(buf[x]),
         buf' = [buf EXCEPT ![x] = Appended(buf[x], s)], Out("fill", Len(s), <<>>)
  PROVE  Rings' /\ Abs!Fill(x, s)
<1>1. Len(s) <= Abs!Room(x)
  BY BufIs
<1>2. /\ Ring(Appended(buf[x], s), cap[x]) /\ Contents(Appended(buf[x], s)) = Contents(buf[x]) \o s
  BY BufIs, AppendedIs, AppendedContents
<1>3. /\ Rings'
      /\ [y \in Bufs |-> Contents(buf[y])]'
           = [[y \in Bufs |-> Contents(buf[y])] EXCEPT ![x] = Contents(buf[x]) \o s]
  BY <1>2, OneChanged
<1>4. QED
  BY <1>1, <1>3 DEF Abs!Fill, Abs!Out, Out

\* Bytes that are placed into the buffer itself.
LEMMA FillDirectlyImplements ==
  ASSUME Rings, NEW x \in Bufs, NEW s \in Seq(Bytes), FillDirectly(x, s)
  PROVE  Rings' /\ Abs!Fill(x, s)
<1>1. PICK n \in Nat \ {0} : n = cap[x] /\ Ring(buf[x], n) /\ buf[x].cap = n
  BY BufIs
<1>2. PICK k \in Nat : k = Len(s)
  BY LenProperties
<1>3. PICK h \in 0..(n - 1), t \in 0..(n - 1), f \in BOOLEAN :
        buf[x].head = h /\ buf[x].tail = t /\ buf[x].isfull = f /\ (f => h = t)
  BY <1>1 DEF Ring
<1>4. k <= IF f THEN 0 ELSE IF h >= t THEN n - h ELSE t - h
  BY <1>1, <1>2, <1>3 DEF FillDirectly
<1>5. h + k <= n /\ k <= cbuffer_avail(buf[x])
  <2>1. cbuffer_avail(buf[x]) = n - (IF f THEN n ELSE IF h >= t THEN h - t ELSE n - (t - h))
    BY <1>1, <1>3 DEF cbuffer_avail, cbuffer_len
  <2>2. QED
    BY <1>3, <1>4, <2>1
<1>6. buf' = [buf EXCEPT ![x] = Appended(buf[x], s)] /\ Out("fill", k, <<>>)
  <2>1. Filled(Stored(buf[x], buf[x].head, s), Len(s)) = Appended(buf[x], s)
    BY <1>1, <1>2, <1>3, <1>5, FilledStored
  <2>2. QED
    BY <1>2, <2>1 DEF FillDirectly
<1>7. QED
  BY <1>2, <1>5, <1>6, FilledImplements

\* cbuffer_fakeread over the first n bytes, which the caller has
LEMMA ConsumedImplements ==
  ASSUME Rings, NEW x \in Bufs, NEW n \in 0..cbuffer_len(buf[x]),
         buf' = [buf EXCEPT ![x] = Consumed(buf[x], n)], Out("take", n, SubSeq(Contents(buf[x]), 1, n))
  PROVE  Rings' /\ Abs!Take(x, n)
<1>1. PICK l \in Nat : l = cbuffer_len(buf[x]) /\ l = Len(Contents(buf[x])) /\ n \in 0..l
  BY BufIs
<1>2. cap[x] \in Nat \ {0} /\ Ring(buf[x], cap[x])
  BY BufIs
<1>3. PICK s : s = SubSeq(Contents(buf[x]), n + 1, Len(Contents(buf[x])))
  OBVIOUS
<1>4. Ring(Consumed(buf[x], n), cap[x]) /\ Contents(Consumed(buf[x], n)) = s
  BY <1>2, <1>3, ConsumedIs, ConsumedContents
<1>5. /\ Rings'
      /\ [y \in Bufs |-> Contents(buf[y])]' = [[y \in Bufs |-> Contents(buf[y])] EXCEPT ![x] = s]
  BY <1>4, OneChanged
<1>6. QED
  BY <1>1, <1>3, <1>5 DEF Abs!Take, Abs!Out, Abs!FirstN, Abs!AfterN, Out

LEMMA WriteToFileImplements ==
  ASSUME Rings, NEW x \in Bufs, NEW len \in Nat, WriteToFile(x, len)
  PROVE  Rings' /\ \E n \in 0..cap[x] : Abs!Take(x, n)
<1>1. PICK p \in Nat \ {0}, l \in Nat : /\ p = cap[x] /\ l = cbuffer_len(buf[x]) /\ l <= p
                                        /\ Ring(buf[x], p)
  BY BufIs
<1>2. PICK n \in 0..l : n = Least(l, len)
  BY LeastIs
<1>3. ReadLoop(buf[x], n).bytes = SubSeq(Contents(buf[x]), 1, n)
  BY <1>1, <1>2, ReadLoopIs
<1>4. buf' = [buf EXCEPT ![x] = Consumed(buf[x], n)] /\ Out("take", n, SubSeq(Contents(buf[x]), 1, n))
  BY <1>1, <1>2, <1>3 DEF WriteToFile
<1>5. Rings' /\ Abs!Take(x, n)
  BY <1>1, <1>4, ConsumedImplements
<1>6. n \in 0..cap[x]
  BY <1>1
<1>7. QED
  BY <1>5, <1>6

LEMMA ConsumeDirectlyImplements ==
  ASSUME Rings, NEW x \in Bufs, NEW n \in Nat, ConsumeDirectly(x, n)
  PROVE  Rings' /\ n \in 0..cap[x] /\ Abs!Take(x, n)
<1>1. PICK p \in Nat \ {0}, l \in Nat : /\ p = cap[x] /\ l = cbuffer_len(buf[x]) /\ l <= p
                                        /\ Ring(buf[x], p) /\ buf[x].cap = p
  BY BufIs
<1>2. PICK h \in 0..(p - 1), t \in 0..(p - 1), f \in BOOLEAN :
        buf[x].head = h /\ buf[x].tail = t /\ buf[x].isfull = f /\ (f => h = t)
  BY <1>1 DEF Ring
<1>3. n <= IF ~f /\ h = t THEN 0 ELSE IF h > t THEN h - t ELSE p - t
  BY <1>1, <1>2 DEF ConsumeDirectly, cbuffer_isempty
<1>4. n <= l /\ t + n <= p
  <2>1. l = IF f THEN p ELSE IF h >= t THEN h - t ELSE p - (t - h)
    BY <1>1, <1>2 DEF cbuffer_len
  <2>2. QED
    BY <1>2, <1>3, <2>1
<1>5. Piece(buf[x], t, n) = SubSeq(Contents(buf[x]), 1, n)
  <2>1. n \in 0..cbuffer_len(buf[x]) /\ t \in Nat
    BY <1>1, <1>4
  <2>2. Reads(Piece(buf[x], t, n), p, buf[x], t, n)
    BY <1>1, <1>4, <2>1, PieceReads
  <2>3. Reads(SubSeq(Contents(buf[x]), 1, n), p, buf[x], t, n)
    BY <1>1, <1>2, <2>1, FrontReads
  <2>4. QED
    BY <2>2, <2>3, ReadsUnique
<1>6. buf' = [buf EXCEPT ![x] = Consumed(buf[x], n)] /\ Out("take", n, SubSeq(Contents(buf[x]), 1, n))
  BY <1>2, <1>5 DEF ConsumeDirectly
<1>7. n \in 0..cbuffer_len(buf[x])
  BY <1>1, <1>4
<1>8. Rings' /\ Abs!Take(x, n)
  BY <1>6, <1>7, ConsumedImplements
<1>9. n \in 0..cap[x]
  BY <1>1, <1>4
<1>10. QED
  BY <1>8, <1>9

LEMMA ReadFromFileImplements ==
  ASSUME Rings, NEW x \in Bufs, NEW s \in Seq(Bytes)
  PROVE  /\ ReadFromFile(x, s) => Rings' /\ Abs!Fill(x, s)
         /\ ReadFromFileFails(x, s) => Rings' /\ Abs!Fail
<1>1. PICK p \in Nat \ {0} : p = cap[x] /\ Ring(buf[x], p)
  BY BufIs
<1> DEFINE b == buf[x]
<1>2. PICK w : w = WithData(b, Appended(b, s).data)
  OBVIOUS
<1>3. ASSUME Len(s) <= cbuffer_avail(b)
      PROVE  /\ WriteLoop(b, s).b = Appended(b, s)
             /\ Ring(w, p) /\ Contents(w) = Contents(b) /\ Filled(w, Len(s)) = Appended(b, s)
             /\ w = [Appended(b, s) EXCEPT !.head = b.head, !.isfull = b.isfull]
  <2>1. WriteLoop(b, s).b = Appended(b, s)
    BY <1>1, <1>3, WriteLoopIs
  <2>2. PICK e : e = b
    OBVIOUS
  <2>3. Ring(e, p) /\ Len(s) <= cbuffer_avail(e) /\ w = WithData(e, Appended(e, s).data)
    BY <1>1, <1>2, <1>3, <2>2
  <2>4. /\ Ring(w, p) /\ Contents(w) = Contents(e) /\ Filled(w, Len(s)) = Appended(e, s)
        /\ w = Unmoved(Appended(e, s), e)
    <3>1. Ring(w, p) /\ Contents(w) = Contents(e)
      BY ONLY p \in Nat \ {0}, s \in Seq(Bytes), <2>3, WithDataIs
    <3>2. Filled(w, Len(s)) = Appended(e, s)
      BY ONLY p \in Nat \ {0}, s \in Seq(Bytes), <2>3, WithDataIs
    <3>3. w = Unmoved(Appended(e, s), e)
      BY ONLY p \in Nat \ {0}, s \in Seq(Bytes), <2>3, WithDataIs
    <3>4. QED
      BY ONLY <3>1, <3>2, <3>3
  <2>5. QED
    BY ONLY <2>1, <2>2, <2>4 DEF Unmoved
<1>4. ASSUME ReadFromFile(x, s)
      PROVE  Rings' /\ Abs!Fill(x, s)
  <2>1. Len(s) <= cbuffer_avail(b)
    BY <1>4 DEF ReadFromFile
  <2>2. buf' = [buf EXCEPT ![x] = Appended(b, s)] /\ Out("fill", Len(s), <<>>)
    BY <1>3, <1>4, <2>1 DEF ReadFromFile
  <2>3. QED
    BY <2>1, <2>2, FilledImplements
<1>5. ASSUME ReadFromFileFails(x, s) PROVE Rings' /\ Abs!Fail
  <2>1. Len(s) <= cbuffer_avail(b)
    BY <1>5 DEF ReadFromFileFails
  <2>2. buf' = [buf EXCEPT ![x] = w] /\ Out("fail", 0, <<>>)
    <3>1. buf' = [buf EXCEPT ![x].data = Appended(b, s).data] /\ Out("fail", 0, <<>>)
      BY <1>3, <1>5, <2>1 DEF ReadFromFileFails
    <3>2. QED
      BY <1>2, <3>1 DEF WithData
  <2>3. Ring(w, p) /\ Contents(w) = Contents(b)
    BY <1>3, <2>1
  <2>4. /\ Rings'
        /\ [y \in Bufs |-> Contents(buf[y])]'
             = [[y \in Bufs |-> Contents(buf[y])] EXCEPT ![x] = Contents(b)]
    BY <1>1, <2>2, <2>3, OneChanged
  <2>5. UNCHANGED [y \in Bufs |-> Contents(buf[y])]
    BY <2>4
  <2>6. QED
    BY <2>2, <2>4, <2>5 DEF Abs!Fail, Abs!Out, Out
<1>6. QED
  BY <1>4, <1>5

LEMMA PushBackImplements ==
  ASSUME Rings, NEW x \in Bufs, NEW s \in Seq(Bytes), PushBack(x, s)
  PROVE  Rings' /\ Abs!PushBack(x, s)
<1>1. Abs!Room(x) = cbuffer_avail(buf[x]) /\ cap[x] \in Nat \ {0} /\ Ring(buf[x], cap[x])
  BY BufIs
<1>2. CASE cbuffer_avail(buf[x]) < Len(s) /\ Out("push_back", 0, <<>>) /\ UNCHANGED buf
  <2>1. Rings' /\ UNCHANGED [y \in Bufs |-> Contents(buf[y])]
    BY <1>2, NoneChanged
  <2>2. QED
    BY <1>1, <1>2, <2>1 DEF Abs!PushBack, Abs!Out, Out
<1>3. CASE /\ cbuffer_avail(buf[x]) >= Len(s) /\ Out("push_back", 1, <<>>)
           /\ buf' = [buf EXCEPT ![x] = Filled(StoredAround(buf[x], buf[x].head, s), Len(s))]
  <2>1. Len(s) <= cbuffer_avail(buf[x])
    <3>1. Len(s) \in Nat /\ cbuffer_avail(buf[x]) \in Nat
      BY BufIs, LenProperties
    <3>2. QED
      BY <1>3, <3>1
  <2>2. buf' = [buf EXCEPT ![x] = Appended(buf[x], s)]
    BY <1>1, <1>3, <2>1, PushedBack
  <2>3. Ring(Appended(buf[x], s), cap[x]) /\ Contents(Appended(buf[x], s)) = Contents(buf[x]) \o s
    BY <1>1, <2>1, AppendedIs, AppendedContents
  <2>4. /\ Rings'
        /\ [y \in Bufs |-> Contents(buf[y])]'
             = [[y \in Bufs |-> Contents(buf[y])] EXCEPT ![x] = Contents(buf[x]) \o s]
    BY <2>2, <2>3, OneChanged
  <2>5. QED
    BY <1>1, <1>3, <2>4 DEF Abs!PushBack, Abs!Out, Out
<1>4. QED
  BY <1>2, <1>3 DEF PushBack

LEMMA PushFrontImplements ==
  ASSUME Rings, NEW x \in Bufs, NEW s \in Seq(Bytes), s # <<>>, PushFront(x, s)
  PROVE  Rings' /\ Abs!PushFront(x, s)
<1>1. PICK n \in Nat \ {0} : n = cap[x] /\ Ring(buf[x], n) /\ buf[x].cap = n
  BY BufIs
<1>2. PICK a \in 0..n, k \in Nat : a = cbuffer_avail(buf[x]) /\ a = Abs!Room(x) /\ k = Len(s)
  BY <1>1, BufIs, LenProperties
<1>3. PICK p : p = (buf[x].tail + buf[x].cap - Len(s)) % buf[x].cap
  OBVIOUS
<1>4. CASE cbuffer_avail(buf[x]) < Len(s) /\ Out("push_front", 0, <<>>) /\ UNCHANGED buf
  <2>1. Rings' /\ UNCHANGED [y \in Bufs |-> Contents(buf[y])]
    BY <1>4, NoneChanged
  <2>2. QED
    BY <1>2, <1>4, <2>1 DEF Abs!PushFront, Abs!Out, Out
<1>5. CASE /\ cbuffer_avail(buf[x]) >= Len(s) /\ Out("push_front", 1, <<>>)
           /\ buf' = [buf EXCEPT ![x] = [StoredAround(buf[x], p, s) EXCEPT
                                           !.tail = p, !.isfull = @ \/ buf[x].head = p]]
  <2>1. k <= a
    BY <1>2, <1>5
  <2>2. PICK t \in 0..(n - 1) : t = buf[x].tail
    BY <1>1 DEF Ring
  <2>3. p \in 0..(n - 1) /\ t = Wrap(n, p + k)
    <3>1. t + n - k \in 0..(2 * n - 1)
      BY <1>2, <2>1
    <3>2. p = Wrap(n, t + n - k) /\ p \in 0..(n - 1)
      BY <1>1, <1>2, <1>3, <2>2, <3>1, WrapIs
    <3>3. Wrap(n, Wrap(n, t + n - k) + k) = t
      BY <1>2, <2>1 DEF Wrap
    <3>4. QED
      BY <3>2, <3>3
  <2>4. buf' = [buf EXCEPT ![x] = Prepended(buf[x], p, s)]
    BY <1>5 DEF Prepended
  <2>5. Ring(Prepended(buf[x], p, s), n) /\ Contents(Prepended(buf[x], p, s)) = s \o Contents(buf[x])
    <3>1. Len(s) <= cbuffer_avail(buf[x]) /\ buf[x].tail = Wrap(n, p + Len(s))
      BY <1>2, <2>1, <2>2, <2>3
    <3>2. QED
      BY <1>1, <2>3, <3>1, PushedFront
  <2>6. /\ Rings'
        /\ [y \in Bufs |-> Contents(buf[y])]'
             = [[y \in Bufs |-> Contents(buf[y])] EXCEPT ![x] = s \o Contents(buf[x])]
    BY <1>1, <2>4, <2>5, OneChanged
  <2>7. QED
    BY <1>2, <1>5, <2>6 DEF Abs!PushFront, Abs!Out, Out
<1>6. QED
  BY <1>3, <1>4, <1>5 DEF PushFront

\* The callers pop and peek at the front, and elements that are all there.
InTurn == End = "front" /\ ~Strays

LEMMA FirstElement ==
  ASSUME NEW n \in Nat \ {0}, NEW b, Ring(b, n), NEW size \in 0..cbuffer_len(b)
  PROVE  Around(b, b.tail, size) = SubSeq(Contents(b), 1, size)
<1>1. PICK t \in 0..(n - 1) : t = b.tail
  BY DEF Ring
<1>2. size \in 0..n
  BY LenType
<1>3. Reads(Around(b, t, size), n, b, t, size)
  BY <1>2, AroundReads
<1>4. Reads(SubSeq(Contents(b), 1, size), n, b, t, size)
  BY <1>1, FrontReads
<1>5. QED
  BY <1>1, <1>3, <1>4, ReadsUnique

LEMMA PopImplements ==
  ASSUME Rings, NEW x \in Bufs, NEW size \in Nat \ {0}, Pop(x, size)
  PROVE  Rings' /\ (InTurn => Abs!Pop(x, size))
<1>1. PICK n \in Nat \ {0}, l \in Nat :
        /\ n = cap[x] /\ Ring(buf[x], n) /\ buf[x].cap = n /\ l <= n
        /\ l = cbuffer_len(buf[x]) /\ l = Len(Contents(buf[x]))
  BY BufIs
<1>2. CASE cbuffer_isempty(buf[x]) /\ Out("pop", 0, <<>>) /\ UNCHANGED buf
  <2>1. Rings' /\ UNCHANGED [y \in Bufs |-> Contents(buf[y])]
    BY <1>2, NoneChanged
  <2>2. cbuffer_len(buf[x]) = 0
    BY <1>1, <1>2 DEF cbuffer_isempty, cbuffer_len, Ring
  <2>3. Contents(buf[x]) = <<>>
    BY <1>1, <2>2, BufIs, EmptySeq
  <2>4. QED
    BY <1>2, <2>1, <2>3 DEF Abs!Pop, Abs!Out, Out
<1>3. CASE /\ cbuffer_len(buf[x]) >= size \/ Strays
           /\ Out("pop", 1, Around(buf[x], buf[x].tail, size))
           /\ buf' = [buf EXCEPT ![x].tail = (@ + size) % buf[x].cap, ![x].isfull = FALSE]
  <2>1. buf' = [buf EXCEPT ![x] = Consumed(buf[x], size)]
    <3>1. (buf[x].isfull /\ size = 0) = FALSE
      OBVIOUS
    <3>2. Consumed(buf[x], size) = [buf[x] EXCEPT !.tail = (@ + size) % buf[x].cap, !.isfull = FALSE]
      BY <3>1 DEF Consumed
    <3>3. buf' = [buf EXCEPT ![x] = [buf[x] EXCEPT !.tail = (@ + size) % buf[x].cap, !.isfull = FALSE]]
      BY <1>3
    <3>4. QED
      BY <3>2, <3>3
  <2>2. Ring(Consumed(buf[x], size), n)
    <3>1. PICK t \in 0..(n - 1) : t = (buf[x].tail + size) % n
      BY <1>1 DEF Ring
    <3>2. Consumed(buf[x], size) = [buf[x] EXCEPT !.tail = t, !.isfull = FALSE]
      BY <1>1, <3>1 DEF Consumed
    <3>3. QED
      BY <1>1, <3>1, <3>2 DEF Ring
  <2>3. Rings'
    BY <1>1, <2>1, <2>2, OneChanged
  <2>4. ASSUME InTurn PROVE Abs!Pop(x, size)
    <3>1. size \in 0..cbuffer_len(buf[x]) /\ size <= l
      BY <1>1, <1>3, <2>4 DEF InTurn
    <3>2. Around(buf[x], buf[x].tail, size) = SubSeq(Contents(buf[x]), 1, size)
      BY <1>1, <3>1, FirstElement
    <3>3. PICK s : s = SubSeq(Contents(buf[x]), size + 1, Len(Contents(buf[x])))
      OBVIOUS
    <3>4. Contents(Consumed(buf[x], size)) = s
      BY <1>1, <3>1, <3>3, ConsumedContents
    <3>5. [y \in Bufs |-> Contents(buf[y])]' = [[y \in Bufs |-> Contents(buf[y])] EXCEPT ![x] = s]
      BY <1>1, <2>1, <2>2, <3>4, OneChanged
    <3>6. QED
      BY <1>1, <1>3, <2>4, <3>1, <3>2, <3>3, <3>5
         DEF InTurn, Abs!Pop, Abs!AtEnd, Abs!Rest, Abs!Out, Abs!FirstN, Abs!AfterN, Out
  <2>5. QED
    BY <2>3, <2>4
<1>4. QED
  BY <1>2, <1>3 DEF Pop

LEMMA GetImplements ==
  ASSUME Rings, NEW x \in Bufs, NEW size \in Nat \ {0}, NEW i \in Nat, Get(x, size, i)
  PROVE  Rings' /\ (InTurn => Abs!Get(x, size, i))
<1>1. PICK n \in Nat \ {0}, l \in Nat :
        /\ n = cap[x] /\ Ring(buf[x], n) /\ buf[x].cap = n /\ l <= n
        /\ l = cbuffer_len(buf[x]) /\ l = Len(Contents(buf[x]))
  BY BufIs
<1>2. PICK h \in 0..(n - 1), t \in 0..(n - 1), f \in BOOLEAN :
        buf[x].head = h /\ buf[x].tail = t /\ buf[x].isfull = f /\ (f => h = t)
  BY <1>1 DEF Ring
<1>3. l = IF f THEN n ELSE IF h >= t THEN h - t ELSE n - (t - h)
  BY <1>1, <1>2 DEF cbuffer_len
<1>4. UNCHANGED buf
  BY DEF Get, GetFor
<1>5. Rings' /\ UNCHANGED [y \in Bufs |-> Contents(buf[y])]
  BY <1>4, NoneChanged
<1>6. CASE ~f /\ i >= (h + n - t) % n /\ Out("get", 0, <<>>)
  <2>1. (h + n - t) % n = Wrap(n, h + n - t)
    <3>1. h + n - t \in 0..(2 * n - 1)
      OBVIOUS
    <3>2. QED
      BY <3>1, WrapIs
  <2>2. Wrap(n, h + n - t) = l
    BY <1>3, <1>6 DEF Wrap
  <2>3. (i + 1) * size > Len(Contents(buf[x]))
    <3>1. i + 1 > l /\ (i + 1) * size >= i + 1
      BY <1>6, <2>1, <2>2
    <3>2. (i + 1) * size \in Nat
      OBVIOUS
    <3>3. QED
      BY <1>1, <3>1, <3>2
  <2>4. QED
    BY <1>5, <1>6, <2>3 DEF Abs!Get, Abs!Out, Out
<1>7. CASE i < l \div size /\ Out("get", 1, Around(buf[x], (t + i * size) % n, size))
  <2>1. PICK m \in Nat : m = i * size /\ (i + 1) * size = m + size
    OBVIOUS
  <2>2. m + size <= l
    <3>1. i + 1 \in Nat /\ i + 1 <= l \div size
      BY <1>7, DivType
    <3>2. (i + 1) * size \in 0..l
      BY <3>1, WholeElements
    <3>3. QED
      BY <2>1, <3>2
  <2>3. m < n /\ size \in Nat /\ m + size <= cbuffer_len(buf[x])
    BY <1>1, <2>2
  <2>4. (t + m) % n = Wrap(n, t + m)
    <3>1. t + m \in 0..(2 * n - 1)
      BY <2>3
    <3>2. QED
      BY <3>1, WrapIs
  <2>5. Around(buf[x], Wrap(n, t + m), size) = SubSeq(Contents(buf[x]), m + 1, m + size)
    <3>1. PICK w \in 0..(n - 1) : w = Wrap(n, t + m)
      <4>1. t + m \in 0..(2 * n - 1)
        BY <2>3
      <4>2. QED
        BY <4>1, WrapIs
    <3>2. size \in 0..n /\ l \in 0..n /\ m + size <= l
      BY <1>1, <2>2
    <3>3. Reads(Around(buf[x], w, size), n, buf[x], w, size)
      BY <1>1, <3>2, AroundReads
    <3>4. Reads(Contents(buf[x]), n, buf[x], t, l)
      BY <1>1, <1>2, ContentsRead
    <3>5. Reads(SubSeq(Contents(buf[x]), m + 1, m + size), n, buf[x], w, size)
      BY <2>3, <3>1, <3>2, <3>4, ReadsSub
    <3>6. QED
      BY <3>1, <3>3, <3>5, ReadsUnique
  <2>6. Out("get", 1, SubSeq(Contents(buf[x]), i * size + 1, (i + 1) * size)) /\ (i + 1) * size <= Len(Contents(buf[x]))
    BY <1>1, <1>2, <1>7, <2>1, <2>2, <2>4, <2>5
  <2>7. QED
    BY <1>5, <2>6 DEF Abs!Get, Abs!Out, Out
<1>8. QED
  BY <1>1, <1>2, <1>5, <1>6, <1>7 DEF Get, GetFor, InTurn

LEMMA PeekImplements ==
  ASSUME Rings, NEW x \in Bufs, NEW size \in Nat \ {0}, Peek(x, size)
  PROVE  Rings' /\ (InTurn => Abs!Peek(x, size))
<1>1. PICK n \in Nat \ {0}, l \in Nat :
        /\ n = cap[x] /\ Ring(buf[x], n) /\ buf[x].cap = n /\ l <= n
        /\ l = cbuffer_len(buf[x]) /\ l = Len(Contents(buf[x]))
  BY BufIs
<1>2. UNCHANGED buf
  BY DEF Peek, GetFor
<1>3. Rings' /\ UNCHANGED [y \in Bufs |-> Contents(buf[y])]
  BY <1>2, NoneChanged
<1>4. CASE cbuffer_isempty(buf[x]) /\ Out("peek", 0, <<>>)
  <2>1. cbuffer_len(buf[x]) = 0
    BY <1>1, <1>4 DEF cbuffer_isempty, cbuffer_len, Ring
  <2>2. Contents(buf[x]) = <<>>
    BY <1>1, <2>1, BufIs, EmptySeq
  <2>3. QED
    BY <1>3, <1>4, <2>2 DEF Abs!Peek, Abs!Out, Out
<1>5. CASE ~cbuffer_isempty(buf[x]) /\ GetFor("peek", x, size, 0)
  <2>1. SUFFICES ASSUME InTurn PROVE Abs!Peek(x, size)
    BY <1>3
  <2>2. PICK h \in 0..(n - 1), t \in 0..(n - 1), f \in BOOLEAN :
          buf[x].head = h /\ buf[x].tail = t /\ buf[x].isfull = f /\ (f => h = t)
    BY <1>1 DEF Ring
  <2>3. ~(~f /\ 0 >= (h + n - t) % n)
    <3>1. h + n - t \in 0..(2 * n - 1)
      OBVIOUS
    <3>2. (h + n - t) % n = Wrap(n, h + n - t)
      BY <3>1, WrapIs
    <3>3. f \/ h # t
      BY <1>5, <2>2 DEF cbuffer_isempty
    <3>4. QED
      BY <3>2, <3>3 DEF Wrap
  <2>4. 0 < l \div size /\ Out("peek", 1, Around(buf[x], (t + 0 * size) % n, size))
    BY <1>1, <1>5, <2>1, <2>2, <2>3 DEF GetFor, InTurn
  <2>5. size \in 0..l
    <3>1. PICK d \in Nat : d = l \div size
      BY DivType
    <3>2. 1 * size \in 0..l
      BY <2>4, <3>1, WholeElements
    <3>3. QED
      BY <3>2
  <2>6. (t + 0 * size) % n = t
    <3>1. t + 0 * size = t /\ t \in 0..(2 * n - 1)
      OBVIOUS
    <3>2. QED
      BY <3>1, WrapIs DEF Wrap
  <2>7. Out("peek", 1, SubSeq(Contents(buf[x]), 1, size))
    BY <1>1, <2>2, <2>4, <2>5, <2>6, FirstElement
  <2>8. QED
    BY <1>1, <1>3, <2>1, <2>5, <2>7 DEF InTurn, Abs!Peek, Abs!AtEnd, Abs!FirstN, Abs!Out, Out
<1>6. QED
  BY <1>4, <1>5 DEF Peek

LEMMA EmptiedIs ==
  ASSUME NEW n \in Nat \ {0}, NEW b, Ring(b, n)
  PROVE  /\ Ring(Emptied(b), n) /\ Emptied(b).isfull = FALSE
         /\ Emptied(b).head = 0 /\ Emptied(b).tail = 0
<1>1. 0 \in 0..(n - 1)
  OBVIOUS
<1>2. QED
  BY <1>1 DEF Ring, Emptied

LEMMA DiscardImplements ==
  ASSUME Rings, NEW x \in Bufs, Discard(x)
  PROVE  Rings' /\ Abs!Discard(x)
<1>1. PICK n \in Nat \ {0} : n = cap[x] /\ Ring(buf[x], n)
  BY BufIs
<1>2. PICK c : c = Emptied(buf[x])
  OBVIOUS
<1>3. buf' = [buf EXCEPT ![x] = c] /\ Out("discard", 0, <<>>)
  BY <1>2 DEF Discard, Emptied
<1>4. Ring(c, n) /\ c.isfull = FALSE /\ c.head = 0 /\ c.tail = 0
  BY ONLY n \in Nat \ {0}, <1>1, <1>2, EmptiedIs
<1>5. cbuffer_len(c) = 0
  BY <1>4 DEF cbuffer_len
<1>6. Contents(c) = <<>>
  BY <1>4, <1>5, ContentsRead, EmptySeq DEF Reads
<1>7. /\ Rings'
      /\ [y \in Bufs |-> Contents(buf[y])]' = [[y \in Bufs |-> Contents(buf[y])] EXCEPT ![x] = <<>>]
  BY <1>1, <1>3, <1>4, <1>6, OneChanged
<1>8. QED
  BY <1>3, <1>7 DEF Abs!Discard, Abs!Out, Out

\* What goes from one buffer to another.
LEMMA MoveImplements ==
  ASSUME Rings, NEW x \in Bufs, NEW y \in Bufs, NEW size \in Nat \ {0}, NEW n \in Nat
  PROVE  /\ Move(x, y, size, n) => x # y /\ Rings' /\ Abs!Move(x, y, size, n)
         /\ CopyInto(x, y, size, n) => x # y /\ Rings' /\ Abs!CopyInto(x, y, size, n)
<1>1. PICK p \in Nat \ {0}, a \in Nat :
        p = cap[x] /\ Ring(buf[x], p) /\ a = cbuffer_avail(buf[x]) /\ a = Abs!Room(x)
  BY BufIs
<1>2. PICK q \in Nat \ {0}, l \in Nat :
        q = cap[y] /\ Ring(buf[y], q) /\ l = cbuffer_len(buf[y]) /\ l = Len(Contents(buf[y]))
  BY BufIs
<1>3. PICK k \in Nat : /\ k = Least(Least(n, l \div size), a \div size)
                       /\ k <= l \div size /\ k <= a \div size
  <2>1. PICK j \in Nat : j = Least(n, l \div size) /\ j <= l \div size
    BY DivType, LeastIs
  <2>2. PICK i \in Nat : i = Least(j, a \div size) /\ i <= j /\ i <= a \div size
    BY DivType, LeastIs
  <2>3. i <= l \div size
    BY <2>1, <2>2, DivType
  <2>4. QED
    BY <2>1, <2>2, <2>3
<1>4. PICK m \in Nat : m = k * size /\ m \in 0..l /\ m \in 0..a /\ m \div size = k /\ m = size * k
  <2>1. k * size \in 0..l /\ k * size \in 0..a /\ (k * size) \div size = k /\ k * size = size * k
    BY <1>3, WholeElements
  <2>2. QED
    BY <2>1
<1>5. k = Elements(x, y, size, n)
  BY <1>1, <1>2, <1>3 DEF Elements
<1>6. PICK s \in Seq(Bytes) : s = SubSeq(Contents(buf[y]), 1, m) /\ Len(s) = m
  BY <1>2, <1>4, BufIs, FrontIs
<1>7. s = Abs!Moved(x, y, size, n)
  BY <1>1, <1>2, <1>3, <1>4, <1>6 DEF Abs!Moved, Abs!Least, Abs!FirstN, Least
<1>8. PICK r : r = SubSeq(Contents(buf[y]), m + 1, Len(Contents(buf[y]))) /\ r = Abs!AfterN(Contents(buf[y]), Len(s))
  BY <1>6 DEF Abs!AfterN
<1>9. CASE k = 0
  <2>1. m = 0 /\ s = <<>>
    BY <1>4, <1>6, <1>9, EmptySeq
  <2>2. Contents(buf[x]) \o s = Contents(buf[x]) /\ r = Contents(buf[y])
    BY <1>8, <2>1, BufIs, ConcatEmptySeq, WholeIs
  <2>3. Queues = [Queues EXCEPT ![x] = @ \o s, ![y] = r] /\ Queues = [Queues EXCEPT ![x] = @ \o s]
    BY <2>2 DEF Queues
  <2>4. ASSUME Move(x, y, size, n) PROVE x # y /\ Rings' /\ Abs!Move(x, y, size, n)
    <3>1. x # y /\ UNCHANGED buf /\ Out("move", k, <<>>)
      BY <1>5, <1>9, <2>4 DEF Move
    <3>2. Rings' /\ UNCHANGED Queues
      BY <3>1, NoneChanged DEF Queues
    <3>3. QED
      BY <1>4, <1>6, <1>7, <1>8, <2>3, <3>1, <3>2 DEF Abs!Move, Abs!Out, Out, Queues
  <2>5. ASSUME CopyInto(x, y, size, n) PROVE x # y /\ Rings' /\ Abs!CopyInto(x, y, size, n)
    <3>1. x # y /\ UNCHANGED buf /\ Out("copy_into", k, <<>>)
      BY <1>5, <1>9, <2>5 DEF CopyInto
    <3>2. Rings' /\ UNCHANGED Queues
      BY <3>1, NoneChanged DEF Queues
    <3>3. QED
      BY <1>4, <1>6, <1>7, <1>8, <2>3, <3>1, <3>2 DEF Abs!CopyInto, Abs!Out, Out, Queues
  <2>6. QED
    BY <2>4, <2>5
<1>10. CASE k # 0
  <2> DEFINE c == Appended(buf[x], s)
             d == Consumed(buf[y], m)
  <2>1. m \in 1..cbuffer_len(buf[y]) /\ m <= cbuffer_avail(buf[x])
    BY <1>1, <1>2, <1>4, <1>10
  <2>2. Delivered(x, y, m) = c
    <3>1. Delivered(x, y, m) = DeliveredInto(buf[x], buf[y], q, m)
      BY <1>2 DEF Delivered, DeliveredInto
    <3>2. QED
      <4>1. PICK b, e : b = buf[x] /\ e = buf[y]
        OBVIOUS
      <4>2. Ring(b, p) /\ Ring(e, q) /\ m \in 1..cbuffer_len(e) /\ m <= cbuffer_avail(b)
        BY <1>1, <1>2, <2>1, <4>1
      <4>3. DeliveredInto(b, e, q, m) = Appended(b, SubSeq(Contents(e), 1, m))
        BY <4>2, DeliveredIs
      <4>4. QED
        BY <1>6, <3>1, <4>1, <4>3
  <2>3. Len(s) <= cbuffer_avail(buf[x])
    BY <1>6, <2>1
  <2>4. Ring(c, p) /\ Contents(c) = Contents(buf[x]) \o s
    <3>1. PICK b : b = buf[x]
      OBVIOUS
    <3>2. Ring(b, p) /\ Len(s) <= cbuffer_avail(b)
      BY <1>1, <2>3, <3>1
    <3>3. Ring(Appended(b, s), p)
      BY ONLY p \in Nat \ {0}, s \in Seq(Bytes), <3>2, AppendedIs
    <3>4. Contents(Appended(b, s)) = Contents(b) \o s
      BY ONLY p \in Nat \ {0}, s \in Seq(Bytes), <3>2, AppendedContents
    <3>5. QED
      BY <3>1, <3>3, <3>4
  <2>5. m \in 0..cbuffer_len(buf[y])
    BY <2>1
  <2>6. Ring(d, q) /\ Contents(d) = r
    <3>1. PICK e : e = buf[y]
      OBVIOUS
    <3>2. Ring(e, q) /\ m \in 0..cbuffer_len(e)
      BY <1>2, <2>5, <3>1
    <3>3. Ring(Consumed(e, m), q)
      BY ONLY q \in Nat \ {0}, <3>2, ConsumedIs
    <3>4. Contents(Consumed(e, m)) = SubSeq(Contents(e), m + 1, Len(Contents(e)))
      BY ONLY q \in Nat \ {0}, <3>2, ConsumedContents
    <3>5. QED
      BY <1>8, <3>1, <3>3, <3>4
  <2>7. d = [buf[y] EXCEPT !.tail = (@ + m) % q, !.isfull = FALSE]
    <3>1. (buf[y].isfull /\ m = 0) = FALSE /\ buf[y].cap = q
      BY <1>2, <2>1 DEF Ring
    <3>2. QED
      BY <3>1 DEF Consumed
  <2> HIDE DEF c, d
  <2>8. ASSUME CopyInto(x, y, size, n) PROVE x # y /\ Rings' /\ Abs!CopyInto(x, y, size, n)
    <3>1. x # y /\ buf' = [buf EXCEPT ![x] = c] /\ Out("copy_into", k, <<>>)
      BY <1>4, <1>5, <1>10, <2>2, <2>8 DEF CopyInto
    <3>2. Rings' /\ Queues' = [Queues EXCEPT ![x] = Contents(buf[x]) \o s]
      BY <1>1, <2>4, <3>1, OneChanged DEF Queues
    <3>3. QED
      BY <1>4, <1>6, <1>7, <3>1, <3>2 DEF Abs!CopyInto, Abs!Out, Out, Queues
  <2>9. ASSUME Move(x, y, size, n) PROVE x # y /\ Rings' /\ Abs!Move(x, y, size, n)
    <3>1. x # y /\ Out("move", k, <<>>) /\ buf' = [buf EXCEPT ![x] = c, ![y] = d]
      <4>1. /\ x # y /\ Out("move", k, <<>>)
            /\ buf' = [buf EXCEPT ![x] = c, ![y].tail = (@ + m) % q, ![y].isfull = FALSE]
        BY <1>2, <1>4, <1>5, <1>10, <2>2, <2>9 DEF Move
      <4>2. QED
        BY <2>7, <4>1 DEF Rings
    <3>2. Rings' /\ Queues' = [Queues EXCEPT ![x] = Contents(buf[x]) \o s, ![y] = r]
      <4>1. Ring(c, cap[x]) /\ Ring(d, cap[y])
        BY <1>1, <1>2, <2>4, <2>6
      <4>2. buf' = Both(buf, x, c, y, d)
        BY <3>1 DEF Both
      <4>3. PICK u : u = Contents(buf[x]) \o s
        OBVIOUS
      <4>4. Contents(c) = u /\ Contents(d) = r
        BY <2>4, <2>6, <4>3
      <4>5. Rings' /\ Queues' = Both(Queues, x, u, y, r)
        BY <3>1, <4>1, <4>2, <4>4, TwoChanged
      <4>6. QED
        BY <4>3, <4>5 DEF Both
    <3>3. QED
      BY <1>4, <1>6, <1>7, <1>8, <3>1, <3>2 DEF Abs!Move, Abs!Out, Out, Queues
  <2>10. QED
    BY <2>8, <2>9
<1>11. QED
  BY <1>9, <1>10

-----------------------------------------------------------------------------
(***************************************************************************)
(* The theorems.                                                           *)
(***************************************************************************)

LEMMA StringIs ==
  ASSUME NEW s \in Strings
  PROVE  s \in Seq(Bytes) /\ s # <<>>
<1>1. PICK n \in 1..MaxLen : s \in [1..n -> Bytes]
  BY DEF Strings
<1>2. n \in Nat /\ n # 0
  BY CBufferAssumption
<1>3. s \in Seq(Bytes) /\ Len(s) = n
  BY <1>1, <1>2, SeqDef, LenProperties
<1>4. QED
  BY <1>2, <1>3, EmptySeq

LEMMA CreatedRing ==
  ASSUME NEW n \in Nat \ {0}, NEW data \in [0..(n - 1) -> Bytes], NEW len \in 0..n
  PROVE  Ring(Created(data, len), n) /\ Created(data, len).cap = n
<1>1. Cardinality(DOMAIN data) = n
  <2>1. 0 \in Int /\ n - 1 \in Int /\ 0 <= n - 1
    OBVIOUS
  <2>2. Cardinality(0..(n - 1)) = n - 1 - 0 + 1
    BY <2>1, FS_Interval
  <2>3. QED
    BY <2>2
<1>2. PICK h \in 0..(n - 1) : h = len % n /\ (len = n => h = 0)
  <2>1. len % n \in 0..(n - 1) /\ (len = n => len % n = 0)
    OBVIOUS
  <2>2. QED
    BY <2>1
<1>3. PICK f \in BOOLEAN : f <=> len = n
  OBVIOUS
<1>4. Created(data, len) = [cap |-> n, data |-> data, head |-> h, tail |-> 0, isfull |-> f]
  BY <1>1, <1>2, <1>3 DEF Created
<1>5. 0 \in 0..(n - 1)
  OBVIOUS
<1>6. QED
  BY <1>2, <1>3, <1>4, <1>5 DEF Ring

LEMMA InitImplements == Init => Rings /\ Abs!Init
<1>1. SUFFICES ASSUME Init PROVE Rings /\ Abs!Init
  OBVIOUS
<1>2. ASSUME NEW z \in Bufs PROVE Ring(buf[z], cap[z])
  <2>1. PICK y \in Bufs : \E data \in [Places(y) -> Bytes], len \in 0..cap[y] : buf[z] = Created(data, len)
    <3>1. buf \in [Bufs -> UNION {Fresh(x) : x \in Bufs}]
      BY <1>1 DEF Init
    <3>2. PICK y \in Bufs : buf[z] \in Fresh(y)
      BY <3>1
    <3>3. QED
      BY <3>2 DEF Fresh
  <2>2. PICK n \in Nat \ {0} : n = cap[y]
    BY CBufferAssumption
  <2>3. PICK data \in [0..(n - 1) -> Bytes], len \in 0..n : buf[z] = Created(data, len)
    BY <2>1, <2>2 DEF Places
  <2>4. Ring(buf[z], n) /\ buf[z].cap = n
    BY <2>3, CreatedRing
  <2>5. buf[z].cap = cap[z]
    BY <1>1 DEF Init
  <2>6. QED
    BY <2>4, <2>5
<1>3. Rings
  BY <1>1, <1>2 DEF Init, Rings
<1>4. \A x \in Bufs : Abs!Room(x) >= 0
  <2>1. \A x \in Bufs : Abs!Room(x) = cbuffer_avail(buf[x]) /\ cbuffer_avail(buf[x]) \in 0..cap[x] /\ cap[x] \in Nat
    BY <1>3, BufIs
  <2>2. QED
    BY <2>1
<1>5. QED
  BY <1>1, <1>3, <1>4 DEF Init, Abs!Init

LEMMA NextImplements ==
  ASSUME Rings, Next
  PROVE  Rings' /\ (InTurn => Abs!Next)
<1>1. PICK x \in Bufs :
    \/ \E size \in Sizes :
         \/ \E src \in Strings : Write(x, size, src)
         \/ \E n \in 1..cap[x] : Read(x, size, n) \/ Copy(x, size, n)
         \/ \E src \in Bufs : \E n \in 1..cap[src] : Move(x, src, size, n) \/ CopyInto(x, src, size, n)
         \/ Pop(x, size) \/ Peek(x, size)
         \/ \E i \in Places(x) : Get(x, size, i)
    \/ \E bytes \in Strings \cup {<<>>} :
         FillDirectly(x, bytes) \/ ReadFromFile(x, bytes) \/ ReadFromFileFails(x, bytes)
    \/ \E n \in 0..cap[x] : ConsumeDirectly(x, n) \/ WriteToFile(x, n)
    \/ \E elem \in {s \in Strings : Len(s) \in Sizes} : PushBack(x, elem) \/ PushFront(x, elem)
    \/ Discard(x)
  BY DEF Next
<1>2. Sizes \subseteq Nat \ {0} /\ \A y \in Bufs : cap[y] \in Nat
  BY CBufferAssumption
<1>3. \A y \in Bufs : 1..cap[y] \subseteq Nat /\ 0..cap[y] \subseteq Nat /\ Places(y) \subseteq Nat
  BY <1>2 DEF Places
<1>4. ASSUME NEW size \in Sizes, NEW src \in Strings, Write(x, size, src) PROVE Rings' /\ Abs!Next
  BY <1>2, <1>4, StringIs, WriteImplements DEF Abs!Next
<1>5. ASSUME NEW size \in Sizes, NEW n \in 1..cap[x], Read(x, size, n) \/ Copy(x, size, n)
      PROVE  Rings' /\ Abs!Next
  <2>1. Rings' /\ (Abs!Read(x, size, n) \/ Abs!Copy(x, size, n))
    BY <1>2, <1>3, <1>5, ReadImplements
  <2>2. QED
    BY <2>1 DEF Abs!Next
<1>6. ASSUME NEW size \in Sizes, NEW src \in Bufs, NEW n \in 1..cap[src],
             Move(x, src, size, n) \/ CopyInto(x, src, size, n)
      PROVE  Rings' /\ Abs!Next
  <2>1. Rings' /\ src \in Bufs \ {x} /\ (Abs!Move(x, src, size, n) \/ Abs!CopyInto(x, src, size, n))
    BY <1>2, <1>3, <1>6, MoveImplements
  <2>2. QED
    BY <2>1 DEF Abs!Next
<1>7. ASSUME NEW size \in Sizes, Pop(x, size) \/ Peek(x, size) PROVE Rings' /\ (InTurn => Abs!Next)
  <2>1. Rings' /\ (InTurn => Abs!Pop(x, size) \/ Abs!Peek(x, size))
    BY <1>2, <1>7, PopImplements, PeekImplements
  <2>2. QED
    BY <2>1 DEF Abs!Next
<1>8. ASSUME NEW size \in Sizes, NEW i \in Places(x), Get(x, size, i)
      PROVE  Rings' /\ (InTurn => Abs!Next)
  <2>1. Rings' /\ (InTurn => Abs!Get(x, size, i))
    BY <1>2, <1>3, <1>8, GetImplements
  <2>2. QED
    BY <2>1 DEF Abs!Next, Places
<1>9. ASSUME NEW s \in Strings \cup {<<>>},
             FillDirectly(x, s) \/ ReadFromFile(x, s) \/ ReadFromFileFails(x, s)
      PROVE  Rings' /\ Abs!Next
  <2>1. s \in Seq(Bytes)
    BY StringIs, EmptySeq
  <2>2. Rings' /\ (Abs!Fail \/ Abs!Fill(x, s))
    BY <1>9, <2>1, FillDirectlyImplements, ReadFromFileImplements
  <2>3. QED
    BY <2>2 DEF Abs!Next
<1>10. ASSUME NEW n \in 0..cap[x], ConsumeDirectly(x, n) \/ WriteToFile(x, n) PROVE Rings' /\ Abs!Next
  <2>1. Rings' /\ \E k \in 0..cap[x] : Abs!Take(x, k)
    BY <1>3, <1>10, ConsumeDirectlyImplements, WriteToFileImplements
  <2>2. QED
    BY <2>1 DEF Abs!Next
<1>11. ASSUME NEW s \in Strings, PushBack(x, s) \/ PushFront(x, s) PROVE Rings' /\ Abs!Next
  <2>1. Rings' /\ (Abs!PushBack(x, s) \/ Abs!PushFront(x, s))
    BY <1>11, StringIs, PushBackImplements, PushFrontImplements
  <2>2. QED
    BY <2>1 DEF Abs!Next
<1>12. ASSUME Discard(x) PROVE Rings' /\ Abs!Next
  BY <1>12, DiscardImplements DEF Abs!Next
<1>13. QED
  BY <1>1, <1>4, <1>5, <1>6, <1>7, <1>8, <1>9, <1>10, <1>11, <1>12

LEMMA StepImplements ==
  ASSUME Rings, [Next]_vars
  PROVE  Rings' /\ (InTurn => [Abs!Next]_(Abs!vars))
<1>1. CASE Next
  BY <1>1, NextImplements
<1>2. CASE UNCHANGED vars
  <2>1. Rings' /\ UNCHANGED [y \in Bufs |-> Contents(buf[y])]
    BY <1>2, NoneChanged DEF vars
  <2>2. QED
    BY <1>2, <2>1 DEF vars, Abs!vars
<1>3. QED
  BY <1>1, <1>2

\* In a ring of any capacity head and tail stay places of the ring, and isfull
\* is set only where they meet (DBG_ASSERT of cbuffer), whatever is popped.
THEOREM TypeCorrect == Spec => []TypeOK
<1>1. Init => Rings
  BY InitImplements
<1>2. Rings /\ [Next]_vars => Rings'
  BY StepImplements
<1>3. Rings => TypeOK
  BY DEF Rings, Ring, TypeOK, Places
<1>4. QED
  BY <1>1, <1>2, <1>3, PTL DEF Spec

\* Every call on rings of any capacity, cut in pieces as the code cuts it, does
\* and delivers what cbuffer.h says of a queue of bytes, for callers that pop
\* and peek at the front, and elements that are all there.
THEOREM Implementation == InTurn => (Spec => ImplementsQueues)
<1>1. SUFFICES ASSUME InTurn PROVE Spec => ImplementsQueues
  OBVIOUS
<1>2. Init => Rings /\ Abs!Init
  BY InitImplements
<1>3. Rings /\ [Next]_vars => Rings' /\ [Abs!Next]_(Abs!vars)
  BY <1>1, StepImplements
<1>4. QED
  BY <1>2, <1>3, PTL DEF Spec, ImplementsQueues, Abs!Spec

-----------------------------------------------------------------------------
(* Strides: what a slice selects.                                           *)

\* The first k values of an increasing function are k numbers.
LEMMA FirstOnes ==
  ASSUME NEW m \in Nat, NEW g \in [1 .. m -> Int],
         \A i, j \in 1 .. m : i < j => g[i] < g[j],
         NEW k \in 0 .. m
  PROVE  Cardinality({g[j] : j \in 1 .. k}) = k
<1>1. PICK n \in Nat : n = k
  OBVIOUS
<1>2. PICK T : T = {g[j] : j \in 1 .. n}
  OBVIOUS
<1>3. PICK f : f = [j \in 1 .. n |-> g[j]]
  OBVIOUS
<1>4. \A i, j \in 1 .. n : f[i] = f[j] => i = j
  <2>1. ASSUME NEW i \in 1 .. n, NEW j \in 1 .. n, f[i] = f[j] PROVE i = j
    <3>1. i \in 1 .. m /\ j \in 1 .. m /\ g[i] = g[j] /\ g[i] \in Int
      BY <1>1, <1>3, <2>1
    <3>2. ~(i < j) /\ ~(j < i)
      BY <3>1
    <3>3. QED
      BY <3>2
  <2>2. QED
    BY <2>1
<1>5. f \in [1 .. n -> T] /\ \A x \in T : \E j \in 1 .. n : f[j] = x
  BY <1>2, <1>3
<1>6. f \in Bijection(1 .. n, T)
  BY <1>4, <1>5 DEF Bijection, Injection, Surjection, IsInjective
<1>7. ExistsBijection(1 .. n, T)
  BY <1>6 DEF ExistsBijection
<1>8. QED
  BY <1>1, <1>2, <1>7, FS_CountingElements

\* An increasing function lists its values in order.
LEMMA IncreasingIsInOrder ==
  ASSUME NEW m \in Nat, NEW g \in [1 .. m -> Int],
         \A i, j \in 1 .. m : i < j => g[i] < g[j],
         NEW S, S = {g[j] : j \in 1 .. m}
  PROVE  InOrder(S) = g
<1>1. Cardinality(S) = m
  BY FirstOnes
<1>2. ASSUME NEW k \in 1 .. m
      PROVE  {j \in S : j <= g[k]} = {g[j] : j \in 1 .. k}
  <2>1. ASSUME NEW x \in S, x <= g[k] PROVE x \in {g[j] : j \in 1 .. k}
    <3>1. PICK i \in 1 .. m : x = g[i]
      OBVIOUS
    <3>2. ~(k < i)
      BY <2>1, <3>1
    <3>3. i \in 1 .. k
      BY <3>2
    <3>4. QED
      BY <3>1, <3>3
  <2>2. ASSUME NEW i \in 1 .. k PROVE g[i] \in S /\ g[i] <= g[k]
    <3>1. i \in 1 .. m
      OBVIOUS
    <3>2. i = k \/ i < k
      OBVIOUS
    <3>3. g[i] \in Int /\ g[k] \in Int
      BY <3>1
    <3>4. QED
      BY <3>1, <3>2, <3>3
  <2>3. QED
    BY <2>1, <2>2
<1>3. ASSUME NEW k \in 1 .. m
      PROVE  Cardinality({j \in S : j <= g[k]}) = k
  <2>1. k \in 0 .. m
    OBVIOUS
  <2>2. Cardinality({g[j] : j \in 1 .. k}) = k
    BY <2>1, FirstOnes
  <2>3. QED
    BY <1>2, <2>2
<1>4. ASSUME NEW k \in 1 .. m
      PROVE  (CHOOSE i \in S : Cardinality({j \in S : j <= i}) = k) = g[k]
  <2>1. g[k] \in S /\ Cardinality({j \in S : j <= g[k]}) = k
    BY <1>3
  <2>2. PICK x \in S : /\ x = (CHOOSE i \in S : Cardinality({j \in S : j <= i}) = k)
                       /\ Cardinality({j \in S : j <= x}) = k
    BY <2>1
  <2>3. PICK l \in 1 .. m : x = g[l]
    OBVIOUS
  <2>4. l = k
    BY <1>3, <2>2, <2>3
  <2>5. QED
    BY <2>2, <2>3, <2>4
<1>5. [k \in 1 .. m |-> CHOOSE i \in S : Cardinality({j \in S : j <= i}) = k] = g
  BY <1>4
<1>6. QED
  BY <1>1, <1>5 DEF InOrder

\* Division: what is left is less than the divisor ...
LEMMA QuotientIs ==
  ASSUME NEW z \in Nat \ {0}, NEW a \in Nat
  PROVE  a \div z \in Nat /\ (a \div z) * z <= a /\ a < (a \div z) * z + z
OBVIOUS

\* ... and that determines the quotient.
LEMMA QuotientOnly ==
  ASSUME NEW z \in Nat \ {0}, NEW a \in Nat, NEW q \in Nat, q * z <= a, a < q * z + z
  PROVE  a \div z = q
OBVIOUS

\* Products are monotone.
LEMMA ProductGrows ==
  ASSUME NEW z \in Nat, NEW i \in Nat, NEW j \in Nat, i <= j
  PROVE  i * z <= j * z
OBVIOUS

\* A multiple leaves no rest ...
LEMMA MultipleHasNoRest ==
  ASSUME NEW z \in Nat \ {0}, NEW q \in Nat
  PROVE  (q * z) % z = 0
OBVIOUS

\* ... and only a multiple leaves none.
LEMMA NoRestIsMultiple ==
  ASSUME NEW z \in Nat \ {0}, NEW a \in Nat, a % z = 0
  PROVE  \E q \in Nat : a = q * z
OBVIOUS

\* What is rounded up counts the multiples below.
LEMMA RoundedUp ==
  ASSUME NEW z \in Nat \ {0}, NEW d \in Nat \ {0}
  PROVE  \E m \in Nat \ {0} : /\ m = (d + z - 1) \div z
                              /\ m * z - z < d /\ d <= m * z
<1>1. PICK a \in Nat : a = d + z - 1
  OBVIOUS
<1>2. PICK m \in Nat : m = a \div z /\ m * z <= a /\ a < m * z + z
  BY QuotientIs
<1>3. PICK mz \in Nat : mz = m * z /\ mz <= a /\ a < mz + z
  BY <1>2
<1>4. mz - z < d /\ d <= mz
  BY <1>1, <1>3
<1>5. m # 0
  <2>1. ASSUME m = 0 PROVE mz = 0
    BY <1>3, <2>1
  <2>2. QED
    BY <1>4, <2>1
<1>6. QED
  BY <1>1, <1>2, <1>3, <1>4, <1>5

\* The quotient that rounds up is known by its bounds.
LEMMA RoundedUpOnly ==
  ASSUME NEW z \in Nat \ {0}, NEW d \in Nat \ {0}, NEW m \in Nat,
         m * z - z < d, d <= m * z
  PROVE  (d + z - 1) \div z = m
<1>1. PICK a \in Nat, mz \in Nat : a = d + z - 1 /\ mz = m * z
  OBVIOUS
<1>2. mz <= a /\ a < mz + z
  BY <1>1
<1>3. a \div z = m
  BY <1>1, <1>2, QuotientOnly
<1>4. QED
  BY <1>1, <1>3

\* A clamped index lies in the array, or at its end.
LEMMA ClampedIs ==
  ASSUME NEW n \in Nat, NEW i \in Int
  PROVE  Clamped(i, n) \in 0 .. n
BY DEF Clamped

\* Elements of a slice from lo on, before hi.
Steps(lo, hi, z) == {i \in lo .. (hi - 1) : (i - lo) % z = 0}

NumberOfSteps(lo, hi, z) == IF hi <= lo THEN 0 ELSE (hi - lo + z - 1) \div z

\* The stride that stride_resolve finds visits exactly these, in order.
LEMMA StepsInOrder ==
  ASSUME NEW lo \in Nat, NEW hi \in Nat, NEW z \in Nat \ {0}, NEW str,
         str = [start |-> lo, stride |-> z, nelems |-> NumberOfSteps(lo, hi, z)]
  PROVE  InOrder(Steps(lo, hi, z)) = PlacesOf(str)
<1>1. PICK m \in Nat : /\ m = NumberOfSteps(lo, hi, z)
                       /\ \A q \in Nat : q < m <=> lo + q * z < hi
  <2>1. CASE hi <= lo
    <3>1. \A q \in Nat : ~(lo + q * z < hi)
      <4>1. ASSUME NEW q \in Nat PROVE ~(lo + q * z < hi)
        <5>1. q * z \in Nat
          OBVIOUS
        <5>2. QED
          BY <2>1, <5>1
      <4>2. QED
        BY <4>1
    <3>2. QED
      BY <2>1, <3>1 DEF NumberOfSteps
  <2>2. CASE lo < hi
    <3>1. PICK d \in Nat \ {0} : d = hi - lo
      BY <2>2
    <3>2. PICK m \in Nat \ {0} : /\ m = (d + z - 1) \div z
                                 /\ m * z - z < d /\ d <= m * z
      BY RoundedUp
    <3>3. m = NumberOfSteps(lo, hi, z)
      BY <2>2, <3>1, <3>2 DEF NumberOfSteps
    <3>4. PICK mz \in Nat : mz = m * z /\ mz - z < d /\ d <= mz
      BY <3>2
    <3>5. ASSUME NEW q \in Nat PROVE q < m <=> lo + q * z < hi
      <4>1. PICK qz \in Nat : qz = q * z
        OBVIOUS
      <4>2. ASSUME q < m PROVE qz + z <= mz
        <5>1. (q + 1) * z <= m * z
          BY <4>2, ProductGrows
        <5>2. (q + 1) * z = q * z + z
          OBVIOUS
        <5>3. QED
          BY <3>4, <4>1, <5>1, <5>2
      <4>3. ASSUME m <= q PROVE mz <= qz
        BY <3>4, <4>1, <4>3, ProductGrows
      <4>4. q < m <=> lo + qz < hi
        BY <3>1, <3>4, <4>2, <4>3
      <4>5. QED
        BY <4>1, <4>4
    <3>6. QED
      BY <3>3, <3>5
  <2>3. QED
    BY <2>1, <2>2
<1>2. PICK g : g = [k \in 1 .. m |-> lo + (k - 1) * z]
  OBVIOUS
<1>3. PlacesOf(str) = g
  BY <1>1, <1>2 DEF PlacesOf
<1>4. g \in [1 .. m -> Int]
  <2>1. ASSUME NEW k \in 1 .. m PROVE lo + (k - 1) * z \in Int
    OBVIOUS
  <2>2. QED
    BY <1>2, <2>1
<1>5. ASSUME NEW i \in 1 .. m, NEW j \in 1 .. m, i < j PROVE g[i] < g[j]
  <2>1. PICK p \in Nat, q \in Nat : p = i - 1 /\ q = j - 1 /\ p + 1 <= q
    BY <1>5
  <2>2. (p + 1) * z <= q * z
    BY <2>1, ProductGrows
  <2>3. PICK pz \in Nat, qz \in Nat : pz = p * z /\ qz = q * z /\ pz + z <= qz
    <3>1. (p + 1) * z = p * z + z
      OBVIOUS
    <3>2. QED
      BY <2>2, <3>1
  <2>4. g[i] = lo + pz /\ g[j] = lo + qz
    BY <1>2, <2>1, <2>3
  <2>5. QED
    BY <2>3, <2>4
<1>6. ASSUME NEW k \in 1 .. m PROVE g[k] \in Steps(lo, hi, z)
  <2>1. PICK q \in Nat : q = k - 1 /\ q < m
    OBVIOUS
  <2>2. PICK qz \in Nat : qz = q * z /\ qz % z = 0
    BY MultipleHasNoRest
  <2>3. lo + qz < hi
    BY <1>1, <2>1, <2>2
  <2>4. g[k] = lo + qz
    BY <1>2, <2>1, <2>2
  <2>5. lo + qz \in lo .. (hi - 1) /\ (lo + qz) - lo = qz
    BY <2>3
  <2>6. QED
    BY <2>2, <2>4, <2>5 DEF Steps
<1>7. ASSUME NEW i \in Steps(lo, hi, z) PROVE \E k \in 1 .. m : i = g[k]
  <2>1. PICK a \in Nat : a = i - lo /\ a % z = 0 /\ lo + a < hi
    BY DEF Steps
  <2>2. PICK q \in Nat : a = q * z
    BY <2>1, NoRestIsMultiple
  <2>3. q < m
    BY <1>1, <2>1, <2>2
  <2>4. PICK k \in 1 .. m : k = q + 1 /\ k - 1 = q
    BY <2>3
  <2>5. g[k] = lo + a
    BY <1>2, <2>2, <2>4
  <2>6. i = lo + a
    BY <2>1 DEF Steps
  <2>7. QED
    BY <2>5, <2>6
<1>8. Steps(lo, hi, z) = {g[k] : k \in 1 .. m}
  BY <1>6, <1>7
<1>9. QED
  BY <1>3, <1>4, <1>5, <1>8, IncreasingIsInOrder

\* stride_resolve turns a slice into such steps, as Python does.
LEMMA ResolvedIs ==
  ASSUME NEW n \in Nat, NEW src \in UserStrides(Int, Int), Resolvable(src)
  PROVE  \E lo \in 0 .. n, hi \in 0 .. n, z \in Nat \ {0} :
           /\ stride_resolve(src, n) =
                [start |-> lo, stride |-> z, nelems |-> NumberOfSteps(lo, hi, z)]
           /\ Selected(src, n) = Steps(lo, hi, z)
<1>1. PICK z \in Nat \ {0} : z = StepOf(src)
  BY DEF Resolvable, StepOf, UserStrides
<1>2. src.start \in Int \cup {Absent} /\ src.stop \in Int \cup {Absent}
  BY DEF UserStrides
<1>3. CASE n = 0
  <2>1. stride_resolve(src, n) =
          [start |-> 0, stride |-> z, nelems |-> NumberOfSteps(0, 0, z)]
    BY <1>1, <1>3 DEF stride_resolve, stride_resolve_expect, NumberOfSteps
  <2>2. Selected(src, n) = {} /\ Steps(0, 0, z) = {}
    BY <1>3 DEF Selected, Steps
  <2>3. 0 \in 0 .. n
    OBVIOUS
  <2>4. QED
    BY <2>1, <2>2, <2>3
<1>4. CASE n # 0
  <2>1. PICK lo \in 0 .. n : lo = IF src.start = Absent THEN 0 ELSE Clamped(src.start, n)
    BY <1>2, ClampedIs
  <2>2. PICK hi \in 0 .. n : hi = IF src.stop = Absent THEN n ELSE Clamped(src.stop, n)
    <3>1. n \in 0 .. n
      OBVIOUS
    <3>2. src.stop # Absent => Clamped(src.stop, n) \in 0 .. n
      BY <1>2, ClampedIs
    <3>3. QED
      BY <3>1, <3>2
  <2>3. stride_resolve(src, n) =
          [start |-> lo, stride |-> z, nelems |-> NumberOfSteps(lo, hi, z)]
    BY <1>1, <1>4, <2>1, <2>2 DEF stride_resolve, stride_resolve_expect, NumberOfSteps
  <2>4. PICK lower : lower = IF src.start = Absent THEN 0
                             ELSE IF (IF src.start < 0 THEN src.start + n ELSE src.start) < 0 THEN 0
                             ELSE IF src.start < 0 THEN src.start + n ELSE src.start
    OBVIOUS
  <2>5. PICK upper : upper = IF src.stop = Absent THEN n
                             ELSE IF src.stop < 0 THEN src.stop + n ELSE src.stop
    OBVIOUS
  <2>6. lower \in Nat /\ (lower <= n => lo = lower) /\ (n < lower => lo = n)
    BY <1>2, <2>1, <2>4 DEF Clamped
  <2>7. upper \in Int /\ (upper < 0 => hi = 0) /\ (n < upper => hi = n)
        /\ (0 <= upper /\ upper <= n => hi = upper)
    <3>1. CASE src.stop = Absent
      BY <2>2, <2>5, <3>1
    <3>2. CASE src.stop # Absent
      <4>1. src.stop \in Int
        BY <1>2, <3>2
      <4>2. hi = Clamped(src.stop, n)
        BY <2>2, <3>2
      <4>3. upper = IF src.stop < 0 THEN src.stop + n ELSE src.stop
        BY <2>5, <3>2
      <4>4. PICK s \in Int : s = src.stop
        BY <4>1
      <4>5. hi = IF upper < 0 THEN 0 ELSE IF upper > n THEN n ELSE upper
        BY <4>2, <4>3 DEF Clamped
      <4>6. upper \in Int
        BY <4>3, <4>4
      <4>7. QED
        BY <4>5, <4>6
    <3>3. QED
      BY <3>1, <3>2
  <2>8. Selected(src, n) =
          {i \in 0 .. (n - 1) : i >= lower /\ i < upper /\ (i - lower) % z = 0}
    BY <1>1, <2>4, <2>5 DEF Selected
  <2>9. ASSUME NEW i
        PROVE  (i \in 0 .. (n - 1) /\ i >= lower /\ i < upper) <=> i \in lo .. (hi - 1)
    BY <2>6, <2>7
  <2>10. ASSUME NEW i \in lo .. (hi - 1) PROVE lo = lower
    BY <2>6, <2>9
  <2>11. Selected(src, n) = Steps(lo, hi, z)
    BY <2>8, <2>9, <2>10 DEF Steps
  <2>12. QED
    BY <2>3, <2>11
<1>5. QED
  BY <1>3, <1>4

\* For every array length and every slice with a positive step: the stride that
\* stride_resolve finds visits the places that Python's slice selects, in their
\* order, and the slice of the resolved stride (usfrms) visits the same again.
THEOREM SlicesAreSelected ==
  ASSUME NEW arrlen \in Nat, NEW src \in UserStrides(Int, Int), Resolvable(src)
  PROVE  SelectsTheSlice(src, arrlen)
<1>1. PICK n \in Nat : n = arrlen
  OBVIOUS
<1>2. PICK lo \in 0 .. n, hi \in 0 .. n, z \in Nat \ {0} :
        /\ stride_resolve(src, n) =
             [start |-> lo, stride |-> z, nelems |-> NumberOfSteps(lo, hi, z)]
        /\ Selected(src, n) = Steps(lo, hi, z)
  BY ResolvedIs
<1>3. PICK str : str = stride_resolve(src, n)
  OBVIOUS
<1>4. PlacesOf(str) = Sliced(src, n)
  BY <1>2, <1>3, StepsInOrder DEF Sliced
<1>5. PICK m \in Nat : m = NumberOfSteps(lo, hi, z)
  <2>1. hi <= lo \/ hi - lo \in Nat \ {0}
    OBVIOUS
  <2>2. NumberOfSteps(lo, hi, z) \in Nat
    BY <2>1, RoundedUp DEF NumberOfSteps
  <2>3. QED
    BY <2>2
<1>6. str.start = lo /\ str.stride = z /\ str.nelems = m
  BY <1>2, <1>3, <1>5
<1>7. PICK mz \in Nat : mz = m * z /\ mz = z * m
  OBVIOUS
<1>8. PICK again : again = usfrms(str)
  OBVIOUS
<1>9. again = [start |-> lo, step |-> z, stop |-> lo + mz]
  BY <1>6, <1>7, <1>8 DEF usfrms, ustride012
<1>10. /\ again.start = lo /\ again.start # Absent
       /\ again.stop = lo + mz /\ again.stop # Absent /\ StepOf(again) = z
  BY <1>9, AbsentAssumption DEF StepOf
<1>11. stride_resolve(again, n).nelems = m /\ stride_resolve(again, n).stride = z
       /\ (n # 0 => stride_resolve(again, n).start = lo)
  <2>1. CASE n = 0
    <3>1. m = 0
      BY <1>5, <2>1 DEF NumberOfSteps
    <3>2. QED
      BY <1>10, <2>1, <3>1 DEF stride_resolve, stride_resolve_expect
  <2>2. CASE n # 0
    <3>1. Clamped(lo, n) = lo
      BY DEF Clamped
    <3>2. PICK h \in 0 .. n : h = Clamped(lo + mz, n)
      BY ClampedIs
    <3>3. h = IF lo + mz > n THEN n ELSE lo + mz
      BY <3>2 DEF Clamped
    <3>4. stride_resolve(again, n) =
            [start |-> lo, stride |-> z,
             nelems |-> IF h <= lo THEN 0 ELSE (h - lo + z - 1) \div z]
      BY <1>10, <2>2, <3>1, <3>2 DEF stride_resolve, stride_resolve_expect
    <3>5. (IF h <= lo THEN 0 ELSE (h - lo + z - 1) \div z) = m
      <4>1. CASE hi <= lo
        <5>1. m = 0 /\ mz = 0
          BY <1>5, <1>7, <4>1 DEF NumberOfSteps
        <5>2. QED
          BY <3>3, <5>1
      <4>2. CASE lo < hi
        <5>1. PICK d \in Nat \ {0} : d = hi - lo
          BY <4>2
        <5>2. m = (d + z - 1) \div z
          BY <1>5, <4>2, <5>1 DEF NumberOfSteps
        <5>3. mz - z < d /\ d <= mz
          BY <1>7, <5>1, <5>2, RoundedUp
        <5>4. PICK e \in Nat \ {0} : e = h - lo
          BY <3>3, <5>1, <5>3
        <5>5. mz - z < e /\ e <= mz
          BY <3>3, <5>1, <5>3, <5>4
        <5>6. (e + z - 1) \div z = m
          BY <1>7, <5>5, RoundedUpOnly
        <5>7. ~(h <= lo)
          BY <5>4
        <5>8. QED
          BY <5>4, <5>6, <5>7
      <4>3. QED
        BY <4>1, <4>2
    <3>6. QED
      BY <3>4, <3>5
  <2>3. QED
    BY <2>1, <2>2
<1>12. PlacesOf(stride_resolve(again, n)) = PlacesOf(str)
  <2>1. CASE n = 0
    <3>1. m = 0
      BY <1>5, <2>1 DEF NumberOfSteps
    <3>2. QED
      BY <1>6, <1>11, <3>1 DEF PlacesOf
  <2>2. CASE n # 0
    BY <1>6, <1>11, <2>2 DEF PlacesOf
  <2>3. QED
    BY <2>1, <2>2
<1>13. QED
  BY <1>1, <1>3, <1>4, <1>8, <1>12 DEF SelectsTheSlice

=============================================================================
