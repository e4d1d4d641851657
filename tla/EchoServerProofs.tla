-------------------------- MODULE EchoServerProofs --------------------------
(***************************************************************************)
(* For any peers, any messages and any capacity: the arrays of the server  *)
(* stay in step with the open connections while it removes and accepts,    *)
(* and what poll reported of a connection is true when its turn comes; and *)
(* a peer that waits for its answers reads back what it sent.              *)
(***************************************************************************)
EXTENDS EchoServer, SequenceTheorems, FiniteSetTheorems, WellFoundedInduction, TLAPS

Kinds == {"prefix", "body", "context"}
Chunk == Kinds \X Nat
Connection == [rx : Seq(Chunk), rx_cap : Nat, tx : Seq(Chunk), tx_sent : Nat]
Slot == [fd : Peers, events : SUBSET Events, revents : SUBSET Events]

\* A connection between two calls: it has read no more than it asked for, and
\* asked for no more than the prefix and what the prefix said.
Sound(c) ==
  /\ c \in Connection
  /\ Len(c.rx) <= c.rx_cap /\ c.tx_sent <= Len(c.tx)
  /\ c.rx_cap = 0 => c.tx = <<>>
  /\ \/ c.rx_cap \in {0, PrefixLen}
     \/ Len(c.rx) >= PrefixLen /\ c.rx_cap = PrefixLen + Decode(c.rx)

Typed ==
  /\ pc \in {"execute", "poll", "serve", "close", "closed"}
  /\ conns \in Seq(Peers) /\ backlog \in Seq(Peers)
  /\ fds \in Seq(Slot) /\ Len(fds) = Len(conns)
  /\ cap \in Nat /\ (pc # "closed" => Len(conns) + 1 <= cap)
  /\ pc = "serve" => at \in 0..Len(conns)
  /\ link \in [Peers -> {"none", "up", "fin", "reset", "dropped", "gone"}]
  /\ sent \in [Peers -> Seq(Nat)]
  /\ wire \in [Peers -> Seq(Chunk)]
  /\ conn \in [Peers -> Connection]
  /\ \A p \in Peers : Sound(conn[p])

\* The lists without repetition, and apart; whoever is listed has connected, and
\* whoever is open is listed.
Placed ==
  /\ \A i, j \in 1..Len(conns) : conns[i] = conns[j] => i = j
  /\ \A i, j \in 1..Len(backlog) : backlog[i] = backlog[j] => i = j
  /\ \A i \in 1..Len(conns), j \in 1..Len(backlog) : conns[i] # backlog[j]
  /\ \A i \in 1..Len(conns) : fds[i].fd = conns[i] /\ link[conns[i]] # "none"
  /\ \A j \in 1..Len(backlog) : link[backlog[j]] # "none"
  /\ \A p \in Peers : Open(p) =>
       \/ \E i \in 1..Len(conns) : conns[i] = p
       \/ \E j \in 1..Len(backlog) : backlog[j] = p

\* What is asked of poll, and what poll said, is what the connection can do.
Polled ==
  /\ pc = "poll" => \A i \in 1..Len(conns) : fds[i].events \subseteq EventsOf(conn[conns[i]])
  /\ pc = "serve" =>
       /\ \A i \in 1..at : fds[i].revents \cap {"IN", "OUT"} \subseteq EventsOf(conn[conns[i]])
       /\ knock => backlog # <<>>

IInv == Typed /\ Placed /\ Polled

-----------------------------------------------------------------------------
\* The connection function.

LEMMA ChunksType ==
  ASSUME NEW kind \in Kinds, NEW n \in Nat, NEW val \in Nat
  PROVE  Chunks(kind, n, val) \in Seq(Chunk) /\ Len(Chunks(kind, n, val)) = n
<1>1. Chunks(kind, n, val) \in [1..n -> Chunk]
  BY DEF Chunks, Chunk
<1>2. QED
  BY <1>1, SeqDef, LenProperties

LEMMA FrameType ==
  ASSUME NEW k \in Nat, NEW n \in Nat
  PROVE  Frame(k, n) \in Seq(Chunk)
<1>1. /\ Chunks("prefix", PrefixLen, n) \in Seq(Chunk)
      /\ Chunks("body", n, k) \in Seq(Chunk)
  BY ChunksType, EchoServerAssumption DEF Kinds
<1>2. QED
  BY <1>1, ConcatProperties DEF Frame

LEMMA DecodeType ==
  ASSUME NEW c, Sound(c), Len(c.rx) >= PrefixLen
  PROVE  Decode(c.rx) \in Nat
<1>1. c.rx \in Seq(Chunk) /\ 1 \in 1..Len(c.rx)
  BY EchoServerAssumption, LenProperties DEF Sound, Connection
<1>2. c.rx[1] \in Chunk
  BY <1>1, ElementOfSeq
<1>3. QED
  BY <1>2 DEF Decode, Chunk

\* The reply to a whole frame is made of the frame's own chunks.
LEMMA ReplyType ==
  ASSUME NEW c, Sound(c), Replies(c)
  PROVE  Reply(c.rx) \in Seq(Chunk)
<1>1. c.rx \in Seq(Chunk) /\ Len(c.rx) \in Nat /\ PrefixLen \in Nat \ {0}
  BY EchoServerAssumption, LenProperties DEF Sound, Connection
<1>2. Len(c.rx) >= PrefixLen /\ Len(c.rx) = PrefixLen + Decode(c.rx)
  BY <1>1 DEF Sound, Replies, IsWhole, IsNew
<1> DEFINE n == Decode(c.rx)
<1>3. n \in Nat
  BY <1>1, <1>2, DecodeType
<1>4. SubSeq(c.rx, PrefixLen + 1, PrefixLen + n) \in Seq(Chunk)
  <2>1. \A i \in PrefixLen + 1 .. PrefixLen + n : c.rx[i] \in Chunk
    BY <1>1, <1>2, <1>3, ElementOfSeq
  <2>2. QED
    BY <1>1, <1>3, <2>1, SubSeqProperties
<1>5. /\ Chunks("prefix", PrefixLen, n + 2) \in Seq(Chunk)
      /\ Chunks("context", 1, 0) \in Seq(Chunk)
      /\ Chunks("context", 1, 1) \in Seq(Chunk)
  BY <1>1, <1>3, ChunksType DEF Kinds
<1>6. Reply(c.rx) = Chunks("prefix", PrefixLen, n + 2) \o Chunks("context", 1, 0)
                      \o SubSeq(c.rx, PrefixLen + 1, PrefixLen + n) \o Chunks("context", 1, 1)
  BY DEF Reply
<1> HIDE DEF n
<1>7. QED
  BY <1>4, <1>5, <1>6, ConcatProperties

\* echo_conn_func leaves a sound connection.
LEMMA EchoConnIsSound ==
  ASSUME NEW c, Sound(c)
  PROVE  Sound(echo_conn_func(c))
<1>1. /\ c \in Connection /\ PrefixLen \in Nat \ {0}
      /\ <<>> \in Seq(Chunk) /\ Len(<<>>) = 0
      /\ Len(c.rx) \in Nat /\ Len(c.tx) \in Nat
      /\ c.tx # <<>> => Len(c.tx) > 0
  BY EchoServerAssumption, LenProperties, EmptySeq DEF Sound, Connection
<1>2. CASE IsNew(c)
  <2>1. echo_conn_func(c) = [c EXCEPT !.rx_cap = PrefixLen]
    BY <1>2 DEF echo_conn_func, Replies
  <2>2. QED
    BY <1>1, <1>2, <2>1 DEF Sound, Connection, IsNew
<1>3. CASE ~IsNew(c) /\ IsSent(c)
  <2>1. echo_conn_func(c) = [c EXCEPT !.tx = <<>>, !.tx_sent = 0]
    BY <1>3 DEF echo_conn_func, Replies
  <2> DEFINE d == [c EXCEPT !.tx = <<>>, !.tx_sent = 0]
  <2>2. /\ d \in Connection /\ d.rx = c.rx /\ d.rx_cap = c.rx_cap
        /\ d.tx = <<>> /\ d.tx_sent = 0
    BY <1>1 DEF Connection
  <2> HIDE DEF d
  <2>3. Sound(d)
    BY <1>1, <2>2 DEF Sound
  <2>4. QED
    BY <2>1, <2>3 DEF d
<1>4. CASE Replies(c)
  <2>1. echo_conn_func(c) =
          [c EXCEPT !.tx = Reply(c.rx), !.tx_sent = 0, !.rx = <<>>, !.rx_cap = PrefixLen]
    BY <1>4 DEF echo_conn_func, Replies
  <2>2. Reply(c.rx) \in Seq(Chunk) /\ Len(Reply(c.rx)) \in Nat
    BY <1>4, ReplyType, LenProperties
  <2> DEFINE d == [c EXCEPT !.tx = Reply(c.rx), !.tx_sent = 0, !.rx = <<>>, !.rx_cap = PrefixLen]
  <2>3. /\ d \in Connection /\ d.rx = <<>> /\ d.rx_cap = PrefixLen
        /\ d.tx = Reply(c.rx) /\ d.tx_sent = 0
    BY <1>1, <2>2 DEF Connection
  <2> HIDE DEF d
  <2>4. Sound(d)
    BY <1>1, <2>2, <2>3 DEF Sound
  <2>5. QED
    BY <2>1, <2>4 DEF d
<1>5. CASE ~IsNew(c) /\ ~IsSent(c) /\ IsWhole(c) /\ c.rx_cap = PrefixLen
  <2>1. echo_conn_func(c) = IF Decode(c.rx) = 0 THEN [c EXCEPT !.rx = <<>>]
                            ELSE [c EXCEPT !.rx_cap = PrefixLen + Decode(c.rx)]
    BY <1>5 DEF echo_conn_func, Replies
  <2>2. Len(c.rx) = PrefixLen /\ Decode(c.rx) \in Nat
    BY <1>1, <1>5, DecodeType DEF IsWhole
  <2> DEFINE e == [c EXCEPT !.rx = <<>>]
             f == [c EXCEPT !.rx_cap = PrefixLen + Decode(c.rx)]
  <2>3. e \in Connection /\ e.rx = <<>> /\ e.rx_cap = PrefixLen /\ e.tx = c.tx /\ e.tx_sent = c.tx_sent
    BY <1>1, <1>5 DEF Connection
  <2>4. /\ f \in Connection /\ f.rx = c.rx /\ f.rx_cap = PrefixLen + Decode(c.rx)
        /\ f.tx = c.tx /\ f.tx_sent = c.tx_sent
    BY <1>1, <2>2 DEF Connection
  <2> HIDE DEF e, f
  <2>5. Sound(e)
    BY <1>1, <2>3 DEF Sound
  <2>6. Sound(f)
    BY <1>1, <2>2, <2>4 DEF Sound
  <2>7. QED
    BY <2>1, <2>5, <2>6 DEF e, f
<1>6. CASE ~(IsNew(c) \/ IsSent(c) \/ IsWhole(c))
  <2>1. echo_conn_func(c) = c
    BY <1>6 DEF echo_conn_func, Replies
  <2>2. QED
    BY <2>1
<1>7. QED
  BY <1>2, <1>3, <1>4, <1>5, <1>6 DEF Replies

\* Reading leaves the prefix where it is.
LEMMA ReadIsSound ==
  ASSUME NEW c, Sound(c), NEW s \in Seq(Chunk), Len(s) <= c.rx_cap - Len(c.rx)
  PROVE  Sound([c EXCEPT !.rx = @ \o s])
<1>1. /\ c \in Connection /\ PrefixLen \in Nat \ {0}
      /\ c.rx \in Seq(Chunk) /\ Len(c.rx) \in Nat /\ Len(s) \in Nat
  BY EchoServerAssumption, LenProperties DEF Sound, Connection
<1>2. /\ c.rx \o s \in Seq(Chunk) /\ Len(c.rx \o s) = Len(c.rx) + Len(s)
      /\ Len(c.rx) > 0 => (c.rx \o s)[1] = c.rx[1]
  BY <1>1, ConcatProperties
<1> DEFINE d == [c EXCEPT !.rx = @ \o s]
<1>3. /\ d \in Connection /\ d.rx = c.rx \o s /\ d.rx_cap = c.rx_cap
      /\ d.tx = c.tx /\ d.tx_sent = c.tx_sent
  BY <1>1, <1>2 DEF Connection
<1> HIDE DEF d
<1>4. Len(c.rx) >= PrefixLen => Decode(d.rx) = Decode(c.rx)
  BY <1>1, <1>2, <1>3 DEF Decode
<1>5. Len(d.rx) <= d.rx_cap /\ Len(d.rx) >= Len(c.rx)
  BY <1>1, <1>2, <1>3 DEF Connection
<1>6. \/ d.rx_cap \in {0, PrefixLen}
      \/ Len(d.rx) >= PrefixLen /\ d.rx_cap = PrefixLen + Decode(d.rx)
  <2>1. CASE c.rx_cap \in {0, PrefixLen}
    BY <1>3, <2>1
  <2>2. CASE Len(c.rx) >= PrefixLen /\ c.rx_cap = PrefixLen + Decode(c.rx)
    BY <1>1, <1>2, <1>3, <1>4, <2>2
  <2>3. QED
    BY <2>1, <2>2 DEF Sound
<1>7. Sound(d)
  BY <1>3, <1>5, <1>6 DEF Sound
<1>8. QED
  BY <1>7 DEF d

LEMMA WriteIsSound ==
  ASSUME NEW c, Sound(c), NEW n \in 1..(Len(c.tx) - c.tx_sent)
  PROVE  Sound([c EXCEPT !.tx_sent = @ + n])
<1>1. c \in Connection /\ Len(c.tx) \in Nat
  BY LenProperties DEF Sound, Connection
<1>2. QED
  BY <1>1 DEF Sound, Connection

LEMMA NoConnIsSound == Sound(NoConn) /\ NoConn \in Connection
BY EmptySeq DEF Sound, NoConn, Connection

-----------------------------------------------------------------------------
\* The arrays.

\* Two lists without repetition and apart from each other, as one.
LEMMA Joined ==
  ASSUME NEW s \in Seq(Peers), NEW t \in Seq(Peers),
         \A i, j \in 1..Len(s) : s[i] = s[j] => i = j,
         \A i, j \in 1..Len(t) : t[i] = t[j] => i = j,
         \A i \in 1..Len(s), j \in 1..Len(t) : s[i] # t[j]
  PROVE  /\ IsInjective(s \o t)
         /\ \A p \in Peers :
              (\E i \in 1..Len(s) : s[i] = p) \/ (\E j \in 1..Len(t) : t[j] = p)
                => p \in ToSet(s \o t)
<1>1. /\ s \o t \in Seq(Peers) /\ Len(s \o t) = Len(s) + Len(t)
      /\ \A i \in 1 .. Len(s) + Len(t) :
           (s \o t)[i] = IF i <= Len(s) THEN s[i] ELSE t[i - Len(s)]
  BY ConcatProperties
<1>2. /\ Len(s) \in Nat /\ Len(t) \in Nat
      /\ DOMAIN (s \o t) = 1..(Len(s) + Len(t))
  BY <1>1, LenProperties
<1>3. IsInjective(s \o t)
  <2> SUFFICES ASSUME NEW a \in 1..(Len(s) + Len(t)), NEW b \in 1..(Len(s) + Len(t)),
                      (s \o t)[a] = (s \o t)[b]
               PROVE  a = b
    BY <1>2 DEF IsInjective
  <2>1. CASE a <= Len(s) /\ b <= Len(s)
    BY <1>1, <1>2, <2>1
  <2>2. CASE a > Len(s) /\ b > Len(s)
    <3>1. a - Len(s) \in 1..Len(t) /\ b - Len(s) \in 1..Len(t)
      BY <1>2, <2>2
    <3>2. t[a - Len(s)] = t[b - Len(s)]
      BY <1>1, <1>2, <2>2
    <3>3. QED
      BY <1>2, <3>1, <3>2
  <2>3. CASE (a <= Len(s) /\ b > Len(s)) \/ (b <= Len(s) /\ a > Len(s))
    BY <1>1, <1>2, <2>3
  <2>4. QED
    BY <1>2, <2>1, <2>2, <2>3
<1>4. ASSUME NEW i \in 1..Len(s) PROVE s[i] \in ToSet(s \o t)
  BY <1>1, <1>2 DEF ToSet
<1>5. ASSUME NEW j \in 1..Len(t) PROVE t[j] \in ToSet(s \o t)
  <2>1. j + Len(s) \in 1..(Len(s) + Len(t)) /\ (s \o t)[j + Len(s)] = t[j]
    BY <1>1, <1>2
  <2>2. QED
    BY <1>2, <2>1 DEF ToSet
<1>6. QED
  BY <1>3, <1>4, <1>5

\* The invariant implies what the run checks.
LEMMA IInvImpliesInv == IInv => Inv
<1> SUFFICES ASSUME IInv PROVE Inv
  OBVIOUS
<1>1. /\ DOMAIN conns = 1..Len(conns) /\ DOMAIN fds = 1..Len(conns)
      /\ Len(conns) \in Nat
      /\ \A i \in 1..Len(conns) : conns[i] \in Peers /\ fds[i] \in Slot
  BY LenProperties, ElementOfSeq DEF IInv, Typed
<1>2. TypeOK
  <2>1. \A i \in DOMAIN fds : fds[i].events \subseteq Events /\ fds[i].revents \subseteq Events
    BY <1>1 DEF Slot
  <2>2. QED
    BY <1>1, <2>1 DEF TypeOK, IInv, Typed, Sound
<1>3. SlotsAreConnections
  BY <1>1, Joined DEF SlotsAreConnections, IInv, Typed, Placed
<1>4. ReportsAreUsable
  <2> SUFFICES ASSUME pc = "serve", NEW i \in 1..at
               PROVE  LET c == conn[conns[i]] IN
                      /\ "IN" \in fds[i].revents => c.rx_cap > Len(c.rx)
                      /\ "OUT" \in fds[i].revents => Len(c.tx) > c.tx_sent
    BY DEF ReportsAreUsable
  <2> DEFINE c == conn[conns[i]]
  <2>1. i \in 1..Len(conns) /\ Sound(c)
    BY <1>1 DEF IInv, Typed
  <2>2. fds[i].revents \cap {"IN", "OUT"} \subseteq EventsOf(c)
    BY DEF IInv, Polled
  <2>3. c.rx_cap \in Nat /\ Len(c.rx) \in Nat /\ Len(c.tx) \in Nat /\ c.tx_sent \in Nat
    BY <2>1, LenProperties DEF Sound, Connection
  <2> HIDE DEF c
  <2>4. "IN" \in EventsOf(c) => c.rx_cap > Len(c.rx)
    BY <2>1, <2>3 DEF EventsOf, Sound
  <2>5. "OUT" \in EventsOf(c) => Len(c.tx) > c.tx_sent
    BY <2>1, <2>3 DEF EventsOf, Sound
  <2>6. QED
    BY <2>2, <2>4, <2>5 DEF c
<1>5. QED
  BY <1>2, <1>3, <1>4 DEF Inv

\* remove_client on one of the arrays: the last element takes the place of the
\* one removed, those below it stay where they are, and no other is lost.
Without(s, k) == Front([s EXCEPT ![k] = Last(s)])

LEMMA Removed ==
  ASSUME NEW S, NEW s \in Seq(S), NEW k \in 1..Len(s),
         NEW r, r = Without(s, k)
  PROVE  /\ r \in Seq(S) /\ Len(r) = Len(s) - 1
         /\ \A i \in 1..Len(r) : r[i] = IF i = k THEN s[Len(s)] ELSE s[i]
         /\ \A i \in 1..Len(s) : i # k => \E j \in 1..Len(r) : r[j] = s[i]
<1> DEFINE q == [s EXCEPT ![k] = Last(s)]
<1>1. Len(s) \in Nat /\ Len(s) \in 1..Len(s)
  BY LenProperties
<1>2. Last(s) \in S /\ Last(s) = s[Len(s)]
  BY <1>1, ElementOfSeq DEF Last
<1>3. /\ q \in Seq(S) /\ Len(q) = Len(s)
      /\ \A j \in 1..Len(s) : q[j] = IF j = k THEN s[Len(s)] ELSE s[j]
  BY <1>2, ExceptSeq
<1>4. \A j \in 1..Len(s) : q[j] \in S
  BY <1>3, ElementOfSeq
<1> HIDE DEF q
<1> DEFINE m == Len(s) - 1
<1>5. /\ m \in Nat /\ Len(s) = m + 1 /\ k \in 1..(m + 1)
      /\ 1..m \subseteq 1..Len(s)
  BY <1>1
<1>6. r = SubSeq(q, 1, m)
  BY <1>3 DEF Without, Front, q
<1> HIDE DEF m
<1>7. r \in Seq(S) /\ Len(r) = m /\ \A i \in 1..m : r[i] = q[i]
  <2>1. \A i \in 1..m : q[i] \in S
    BY <1>4, <1>5
  <2>2. /\ r \in Seq(S)
        /\ Len(r) = IF 1 <= m THEN m - 1 + 1 ELSE 0
        /\ \A i \in 1 .. m - 1 + 1 : r[i] = q[1 + i - 1]
    <3>1. /\ SubSeq(q, 1, m) \in Seq(S)
          /\ Len(SubSeq(q, 1, m)) = IF 1 <= m THEN m - 1 + 1 ELSE 0
          /\ \A i \in 1 .. m - 1 + 1 : SubSeq(q, 1, m)[i] = q[1 + i - 1]
      <4> HIDE <1>6
      <4>1. m \in Int
        BY <1>5
      <4>2. QED
        BY <2>1, <4>1, SubSeqProperties
    <3> DEFINE u == SubSeq(q, 1, m)
    <3>2. r = u
      BY <1>6
    <3> HIDE DEF u
    <3>3. QED
      BY <3>1, <3>2 DEF u
  <2>3. m - 1 + 1 = m /\ (~(1 <= m) => m = 0) /\ \A i \in 1..m : 1 + i - 1 = i
    BY <1>5
  <2> HIDE <1>6
  <2>4. QED
    BY <2>2, <2>3
<1>8. \A i \in 1..m : r[i] = IF i = k THEN s[m + 1] ELSE s[i]
  BY <1>3, <1>5, <1>7
<1>9. ASSUME NEW i \in 1..(m + 1), i # k
      PROVE  \E j \in 1..m : r[j] = s[i]
  <2>1. CASE i = m + 1
    <3>1. k \in 1..m
      BY <1>5, <1>9, <2>1
    <3>2. r[k] = s[i]
      BY <1>8, <2>1, <3>1
    <3>3. QED
      BY <3>1, <3>2
  <2>2. CASE i # m + 1
    <3>1. i \in 1..m
      BY <1>5, <2>2
    <3>2. r[i] = s[i]
      BY <1>8, <1>9, <3>1
    <3>3. QED
      BY <3>1, <3>2
  <2>3. QED
    BY <2>1, <2>2
<1>10. QED
  BY <1>5, <1>7, <1>8, <1>9 DEF m

\* While no list changes and nobody connects, the places stay as they are.
LEMMA PlacesKept ==
  ASSUME Placed, UNCHANGED <<conns, backlog>>,
         \A i \in 1..Len(conns) : fds'[i].fd = fds[i].fd,
         \A p \in Peers : link[p] # "none" => link'[p] # "none",
         \A p \in Peers : Open(p)' => Open(p),
         Typed
  PROVE  Placed'
<1>1. /\ \A i \in 1..Len(conns) : conns[i] \in Peers
      /\ \A j \in 1..Len(backlog) : backlog[j] \in Peers
  BY ElementOfSeq DEF Typed
<1>2. QED
  BY <1>1 DEF Placed

\* The server begins with nothing in its arrays.
LEMMA InitIInv == Init => IInv
<1> SUFFICES ASSUME Init PROVE IInv
  OBVIOUS
<1>1. /\ <<>> \in Seq(Peers) /\ <<>> \in Seq(Slot) /\ <<>> \in Seq(Nat)
      /\ <<>> \in Seq(Chunk) /\ Len(<<>>) = 0
  BY EmptySeq
<1>2. Typed
  BY <1>1, NoConnIsSound, EchoServerAssumption DEF Init, Typed
<1>3. Placed
  BY <1>1 DEF Init, Placed, Open
<1>4. Polled
  BY DEF Init, Polled
<1>5. QED
  BY <1>2, <1>3, <1>4 DEF IInv

-----------------------------------------------------------------------------
\* The peers.

\* A new connection is behind the others in the backlog.
LEMMA ConnectPreserves ==
  ASSUME IInv, NEW p \in Peers, Connect(p)
  PROVE  IInv'
<1>1. /\ backlog' = Append(backlog, p) /\ link[p] = "none" /\ pc # "closed"
      /\ link' = [link EXCEPT ![p] = "up"]
      /\ UNCHANGED <<pc, at, conns, fds, knock, cap, conn, sent, wire>>
  BY DEF Connect, ps
<1>2. /\ backlog' \in Seq(Peers) /\ backlog' # <<>> /\ Len(backlog) \in Nat
      /\ Len(backlog') = Len(backlog) + 1
      /\ \A j \in 1..Len(backlog) : backlog'[j] = backlog[j]
      /\ backlog'[Len(backlog) + 1] = p
  <2>1. backlog \in Seq(Peers)
    BY DEF IInv, Typed
  <2>2. QED
    BY <1>1, <2>1, AppendProperties, LenProperties
<1>3. /\ link' \in [Peers -> {"none", "up", "fin", "reset", "dropped", "gone"}]
      /\ \A q \in Peers : link'[q] = IF q = p THEN "up" ELSE link[q]
  BY <1>1 DEF IInv, Typed
<1>4. /\ \A i \in 1..Len(conns) : conns[i] \in Peers /\ conns[i] # p
      /\ \A j \in 1..Len(backlog) : backlog[j] \in Peers /\ backlog[j] # p
  BY <1>1, ElementOfSeq DEF IInv, Typed, Placed
<1>5. Typed'
  BY <1>1, <1>2, <1>3 DEF IInv, Typed
<1>6. Placed'
  <2>1. \A j \in 1..Len(backlog') : j \in 1..Len(backlog) \/ j = Len(backlog) + 1
    BY <1>2
  <2>2. \A i, j \in 1..Len(backlog') : backlog'[i] = backlog'[j] => i = j
    BY <1>2, <1>4, <2>1 DEF IInv, Placed
  <2>3. \A i \in 1..Len(conns), j \in 1..Len(backlog') : conns[i] # backlog'[j]
    BY <1>2, <1>4, <2>1 DEF IInv, Placed
  <2>4. \A j \in 1..Len(backlog') : link'[backlog'[j]] # "none"
    BY <1>2, <1>3, <1>4, <2>1 DEF IInv, Placed
  <2>5. ASSUME NEW q \in Peers, Open(q)'
        PROVE  \/ \E i \in 1..Len(conns) : conns[i] = q
               \/ \E j \in 1..Len(backlog') : backlog'[j] = q
    <3>1. CASE q = p
      BY <1>2, <3>1
    <3>2. CASE q # p
      <4>1. Open(q)
        BY <1>3, <2>5, <3>2 DEF Open
      <4>2. CASE \E j \in 1..Len(backlog) : backlog[j] = q
        <5>1. PICK j \in 1..Len(backlog) : backlog[j] = q
          BY <4>2
        <5>2. j \in 1..Len(backlog') /\ backlog'[j] = q
          BY <1>2, <5>1
        <5>3. QED
          BY <5>2
      <4>3. QED
        BY <4>1, <4>2 DEF IInv, Placed
    <3>3. QED
      BY <3>1, <3>2
  <2>6. \A i \in 1..Len(conns) : fds[i].fd = conns[i] /\ link'[conns[i]] # "none"
    BY <1>3, <1>4 DEF IInv, Placed
  <2>7. QED
    BY <1>1, <2>2, <2>3, <2>4, <2>5, <2>6 DEF IInv, Placed
<1>7. Polled'
  BY <1>1, <1>2 DEF IInv, Polled
<1>8. QED
  BY <1>5, <1>6, <1>7 DEF IInv

\* The other steps of the outside leave the arrays of the server alone.
LEMMA OutsidePreserves ==
  ASSUME IInv, Outside
  PROVE  IInv'
<1>1. ASSUME Stop PROVE IInv'
  BY <1>1 DEF Stop, ps, outside, IInv, Typed, Placed, Polled, Open
<1>2. ASSUME NEW p \in Peers, Disconnect(p) \/ Reset(p)
      PROVE  IInv'
  <2>1. /\ UNCHANGED <<pc, at, conns, fds, knock, cap, conn, backlog, sent>>
        /\ \E l \in {"fin", "reset"} : link' = [link EXCEPT ![p] = l]
        /\ link[p] \in {"up", "fin"}
        /\ wire' = wire \/ wire' = [wire EXCEPT ![p] = <<>>]
    BY <1>2 DEF Disconnect, Reset, ps
  <2>2. Typed'
    <3>1. <<>> \in Seq(Chunk)
      BY EmptySeq
    <3>2. Typed
      BY DEF IInv
    <3>3. link' \in [Peers -> {"none", "up", "fin", "reset", "dropped", "gone"}]
      BY <2>1, <3>2 DEF Typed
    <3>4. wire' \in [Peers -> Seq(Chunk)]
      BY <2>1, <3>1, <3>2 DEF Typed
    <3>5. QED
      BY ONLY <2>1, <3>2, <3>3, <3>4 DEF Typed, Sound
  <2>3. Placed'
    <3>1. \A q \in Peers : (link[q] # "none" => link'[q] # "none") /\ (Open(q)' => Open(q))
      BY <2>1 DEF IInv, Typed, Open
    <3>2. QED
      BY <2>1, <3>1, PlacesKept DEF IInv
  <2>4. Polled'
    BY <2>1 DEF IInv, Polled
  <2>5. QED
    BY <2>2, <2>3, <2>4 DEF IInv
<1>3. ASSUME NEW p \in Peers, NEW n \in Sizes, SendFrame(p, n)
      PROVE  IInv'
  <2>1. /\ UNCHANGED <<pc, at, conns, fds, knock, cap, conn, backlog, link>>
        /\ sent' = [sent EXCEPT ![p] = Append(@, n)]
        /\ wire' = [wire EXCEPT ![p] = @ \o Frame(Len(sent[p]) + 1, n)]
    BY <1>3 DEF SendFrame, ps
  <2>2. n \in Nat /\ sent[p] \in Seq(Nat) /\ wire[p] \in Seq(Chunk)
    BY EchoServerAssumption DEF IInv, Typed
  <2>3. Append(sent[p], n) \in Seq(Nat) /\ Len(sent[p]) + 1 \in Nat
    BY <2>2, AppendProperties, LenProperties
  <2>4. wire[p] \o Frame(Len(sent[p]) + 1, n) \in Seq(Chunk)
    BY <2>2, <2>3, FrameType, ConcatProperties
  <2>5. Typed'
    BY <2>1, <2>3, <2>4 DEF IInv, Typed
  <2>6. Placed' /\ Polled'
    BY <2>1 DEF IInv, Placed, Polled, Open
  <2>7. QED
    BY <2>5, <2>6 DEF IInv
<1>4. QED
  BY <1>1, <1>2, <1>3, ConnectPreserves DEF Outside

-----------------------------------------------------------------------------
\* pserv_execute_conns and poll.

\* What the loop over the connections leaves: sound connections, and slots of
\* which at most the events have changed.
LEMMA ConnsServed ==
  ASSUME IInv, NEW S \in SUBSET Peers, NEW e,
         conn' = [p \in Peers |-> IF p \in S THEN echo_conn_func(conn[p]) ELSE conn[p]],
         fds' = [i \in DOMAIN fds |-> IF i < e THEN [fds[i] EXCEPT !.events = EventsOf(conn'[conns[i]])]
                                      ELSE fds[i]],
         UNCHANGED <<conns, backlog, link, sent, wire, cap>>,
         pc = "execute", pc' \in {"poll", "close"}
  PROVE  Typed' /\ Placed'
<1>1. /\ DOMAIN fds = 1..Len(conns) /\ Len(conns) \in Nat
      /\ \A i \in 1..Len(conns) : fds[i] \in Slot
  BY LenProperties, ElementOfSeq DEF IInv, Typed
<1>2. \A p \in Peers : Sound(conn'[p])
  BY EchoConnIsSound DEF IInv, Typed
<1>3. conn' \in [Peers -> Connection]
  BY <1>2 DEF Sound
<1>4. /\ fds' \in [1..Len(conns) -> Slot]
      /\ \A i \in 1..Len(conns) : fds'[i].fd = fds[i].fd
  <2>1. \A i \in 1..Len(conns) : EventsOf(conn'[conns[i]]) \subseteq Events
    BY DEF EventsOf, Events
  <2>2. QED
    BY <1>1, <2>1 DEF Slot
<1>5. fds' \in Seq(Slot) /\ Len(fds') = Len(conns)
  BY <1>1, <1>4, SeqDef, LenProperties
<1>6. Typed'
  BY <1>2, <1>3, <1>5 DEF IInv, Typed
<1>7. Placed'
  BY <1>4, PlacesKept DEF IInv, Open
<1>8. QED
  BY <1>6, <1>7

LEMMA ExecutePreserves ==
  ASSUME IInv,
         ExecuteConns \/ \E j \in 1..Cardinality(Peers) : ExecuteConnsFails(j)
  PROVE  IInv'
<1>1. /\ DOMAIN fds = 1..Len(conns) /\ DOMAIN conns = 1..Len(conns)
      /\ Len(conns) \in Nat /\ conns \in Seq(Peers)
      /\ \A i \in 1..Len(conns) : conns[i] \in Peers /\ fds[i] \in Slot
  BY LenProperties, ElementOfSeq DEF IInv, Typed
<1>2. CASE ExecuteConns
  <2> DEFINE S == {p \in Peers : Contains(conns, p)}
             e == Len(conns) + 1
  <2>1. /\ pc = "execute" /\ pc' = "poll"
        /\ UNCHANGED <<conns, backlog, link, sent, wire, cap>>
    BY <1>2 DEF ExecuteConns, outside
  <2>2. conn' = [p \in Peers |-> IF p \in S THEN echo_conn_func(conn[p]) ELSE conn[p]]
    BY <1>2 DEF ExecuteConns
  <2>3. fds' = [i \in DOMAIN fds |-> IF i < e THEN [fds[i] EXCEPT !.events = EventsOf(conn'[conns[i]])]
                                     ELSE fds[i]]
    BY <1>1, <1>2 DEF ExecuteConns
  <2>4. \A i \in 1..Len(conns) : fds'[i].events = EventsOf(conn'[conns[i]])
    BY <1>1, <1>2 DEF ExecuteConns, Slot
  <2> HIDE DEF S, e
  <2>5. Typed' /\ Placed'
    <3>1. S \in SUBSET Peers
      BY DEF S
    <3>2. QED
      BY <2>1, <2>2, <2>3, <3>1, ConnsServed
  <2>6. Polled'
    BY <2>1, <2>4 DEF Polled
  <2>7. QED
    BY <2>5, <2>6 DEF IInv
<1>3. ASSUME NEW j \in 1..Cardinality(Peers), ExecuteConnsFails(j)
      PROVE  IInv'
  <2> DEFINE S == ToSet(SubSeq(conns, 1, j - 1)) \cap Peers
  <2>1. /\ pc = "execute" /\ pc' = "close"
        /\ UNCHANGED <<conns, backlog, link, sent, wire, cap>>
    BY <1>3 DEF ExecuteConnsFails, outside
  <2>2. conn' = [p \in Peers |-> IF p \in S THEN echo_conn_func(conn[p]) ELSE conn[p]]
    BY <1>3 DEF ExecuteConnsFails
  <2>3. fds' = [i \in DOMAIN fds |-> IF i < j THEN [fds[i] EXCEPT !.events = EventsOf(conn'[conns[i]])]
                                     ELSE fds[i]]
    BY <1>3 DEF ExecuteConnsFails
  <2> HIDE DEF S
  <2>4. Typed' /\ Placed'
    <3>1. S \in SUBSET Peers
      BY DEF S
    <3>2. QED
      BY <2>1, <2>2, <2>3, <3>1, ConnsServed
  <2>5. QED
    BY <2>1, <2>4 DEF IInv, Polled
<1>4. QED
  BY <1>2, <1>3

\* poll reports of a connection only what was asked for, and a hang-up.
LEMMA PollPreserves ==
  ASSUME IInv, PollReady \/ PollTimesOut \/ PollFails
  PROVE  IInv'
<1>1. /\ DOMAIN fds = 1..Len(conns) /\ Len(conns) \in Nat
      /\ \A i \in 1..Len(conns) : fds[i] \in Slot
  BY LenProperties, ElementOfSeq DEF IInv, Typed
<1>2. ASSUME NEW R \in [1..Len(conns) -> SUBSET Events],
             fds' = [i \in DOMAIN fds |-> [fds[i] EXCEPT !.revents = R[i]]],
             UNCHANGED <<conns, backlog, link, sent, wire, cap, conn>>,
             pc = "poll", pc' \in {"serve", "execute", "close"},
             pc' = "serve" => at' = Len(conns)
      PROVE  Typed' /\ Placed'
  <2>1. /\ fds' \in [1..Len(conns) -> Slot]
        /\ \A i \in 1..Len(conns) : fds'[i].fd = fds[i].fd
    BY <1>1, <1>2 DEF Slot
  <2>2. fds' \in Seq(Slot) /\ Len(fds') = Len(conns)
    BY <1>1, <2>1, SeqDef, LenProperties
  <2>3. Typed'
    BY <1>1, <1>2, <2>2 DEF IInv, Typed
  <2>4. QED
    BY <1>2, <2>1, <2>3, PlacesKept DEF IInv, Open
<1>3. CASE PollReady
  <2>1. /\ fds' = [i \in DOMAIN fds |-> [fds[i] EXCEPT !.revents = Ready(fds[i].fd, fds[i].events)]]
        /\ UNCHANGED <<conns, backlog, link, sent, wire, cap, conn>>
        /\ pc = "poll" /\ pc' = "serve" /\ at' = Len(conns) /\ knock' = (backlog # <<>>)
    BY <1>3 DEF PollReady, outside
  <2>2. ASSUME NEW i \in 1..Len(conns)
        PROVE  /\ Ready(fds[i].fd, fds[i].events) \subseteq Events
               /\ Ready(fds[i].fd, fds[i].events) \cap {"IN", "OUT"} \subseteq fds[i].events
    BY <1>1 DEF Ready, Events
  <2>3. Typed' /\ Placed'
    <3> DEFINE R == [i \in 1..Len(conns) |-> Ready(fds[i].fd, fds[i].events)]
    <3>1. R \in [1..Len(conns) -> SUBSET Events]
      BY <2>2
    <3>2. fds' = [i \in DOMAIN fds |-> [fds[i] EXCEPT !.revents = R[i]]]
      BY <1>1, <2>1
    <3> HIDE DEF R
    <3>3. QED
      BY <1>2, <2>1, <3>1, <3>2
  <2>4. Polled'
    <3>1. \A i \in 1..Len(conns) : fds'[i].revents = Ready(fds[i].fd, fds[i].events)
      BY <1>1, <2>1 DEF Slot
    <3>2. QED
      BY <2>1, <2>2, <3>1 DEF IInv, Polled
  <2>5. QED
    BY <2>3, <2>4 DEF IInv
<1>4. CASE PollTimesOut
  <2>1. /\ fds' = [i \in DOMAIN fds |-> [fds[i] EXCEPT !.revents = {}]]
        /\ UNCHANGED <<conns, backlog, link, sent, wire, cap, conn>>
        /\ pc = "poll" /\ pc' \in {"execute", "close"}
    BY <1>4 DEF PollTimesOut, outside, Return
  <2>2. Typed' /\ Placed'
    <3> DEFINE R == [i \in 1..Len(conns) |-> {}]
    <3>1. R \in [1..Len(conns) -> SUBSET Events]
      OBVIOUS
    <3>2. fds' = [i \in DOMAIN fds |-> [fds[i] EXCEPT !.revents = R[i]]]
      BY <1>1, <2>1
    <3> HIDE DEF R
    <3>3. QED
      BY <1>2, <2>1, <3>1, <3>2
  <2>3. QED
    BY <2>1, <2>2 DEF IInv, Polled
<1>5. CASE PollFails
  BY <1>5 DEF PollFails, ps, outside, IInv, Typed, Placed, Polled, Open
<1>6. QED
  BY <1>3, <1>4, <1>5

-----------------------------------------------------------------------------
\* The loop over the descriptors.

\* grow_if_needed makes room for one more and the listener.
LEMMA AcceptPreserves ==
  ASSUME IInv, Accept
  PROVE  IInv'
<1> DEFINE p == Head(backlog)
           new == [fd |-> p, events |-> {}, revents |-> {}]
<1>1. /\ pc = "serve" /\ knock /\ pc' \in {"execute", "close"}
      /\ conns' = Append(conns, p) /\ fds' = Append(fds, new)
      /\ conn' = [conn EXCEPT ![p] = NoConn] /\ backlog' = Tail(backlog)
      /\ cap' = Grown(Len(conns), cap)
      /\ UNCHANGED <<link, sent, wire>>
  BY DEF Accept, Return
<1>2. /\ conns \in Seq(Peers) /\ backlog \in Seq(Peers) /\ fds \in Seq(Slot)
      /\ Len(conns) \in Nat /\ Len(fds) = Len(conns) /\ backlog # <<>>
  BY <1>1, LenProperties DEF IInv, Typed, Polled
<1>3. /\ p \in Peers /\ Len(backlog) \in Nat \ {0} /\ p = backlog[1]
      /\ backlog' \in Seq(Peers) /\ Len(backlog') = Len(backlog) - 1
      /\ \A j \in 1..Len(backlog') : backlog'[j] = backlog[j + 1]
  BY <1>1, <1>2, HeadTailProperties, EmptySeq
<1>4. new \in Slot /\ new.fd = p
  BY <1>3 DEF Slot
<1> HIDE DEF p, new
<1>5. /\ conns' \in Seq(Peers) /\ Len(conns') = Len(conns) + 1
      /\ \A i \in 1..Len(conns) : conns'[i] = conns[i]
      /\ conns'[Len(conns) + 1] = p
  BY <1>1, <1>2, <1>3, AppendProperties
<1>6. /\ fds' \in Seq(Slot) /\ Len(fds') = Len(conns) + 1
      /\ \A i \in 1..Len(conns) : fds'[i] = fds[i]
      /\ fds'[Len(conns) + 1] = new
  BY <1>1, <1>2, <1>4, AppendProperties
<1>7. \A i \in 1..Len(conns') : i \in 1..Len(conns) \/ i = Len(conns) + 1
  BY <1>2, <1>5
<1>8. \A j \in 1..Len(backlog') : j + 1 \in 1..Len(backlog) /\ j + 1 # 1
  BY <1>3
<1>9. Typed'
  <2>1. cap' \in Nat /\ Len(conns') + 1 <= cap'
    <3>1. cap \in Nat /\ Len(conns) + 1 <= cap
      BY <1>1 DEF IInv, Typed
    <3>2. cap' = Grown(Len(conns), cap) /\ Len(conns') = Len(conns) + 1 /\ Len(conns) \in Nat
      BY <1>1, <1>2, <1>5
    <3>3. QED
      BY ONLY <3>1, <3>2 DEF Grown
  <2>2. conn' \in [Peers -> Connection] /\ \A q \in Peers : Sound(conn'[q])
    BY <1>1, NoConnIsSound DEF IInv, Typed
  <2>3. QED
    BY <1>1, <1>3, <1>5, <1>6, <2>1, <2>2 DEF IInv, Typed
<1>10. Placed'
  <2>1. \A i \in 1..Len(conns) : conns[i] # p
    BY <1>3 DEF IInv, Placed
  <2>2. \A i, j \in 1..Len(conns') : conns'[i] = conns'[j] => i = j
    BY <1>5, <1>7, <2>1 DEF IInv, Placed
  <2>3. \A i, j \in 1..Len(backlog') : backlog'[i] = backlog'[j] => i = j
    <3> SUFFICES ASSUME NEW i \in 1..Len(backlog'), NEW j \in 1..Len(backlog'),
                        backlog'[i] = backlog'[j]
                 PROVE  i = j
      OBVIOUS
    <3>1. i + 1 = j + 1
      BY <1>3, <1>8 DEF IInv, Placed
    <3>2. QED
      BY <3>1
  <2>4. ASSUME NEW i \in 1..Len(conns'), NEW j \in 1..Len(backlog')
        PROVE  conns'[i] # backlog'[j]
    <3>1. backlog'[j] = backlog[j + 1] /\ j + 1 \in 1..Len(backlog) /\ backlog[j + 1] # p
      BY <1>3, <1>8 DEF IInv, Placed
    <3>2. QED
      BY <1>5, <1>7, <3>1 DEF IInv, Placed
  <2>5. \A i \in 1..Len(conns') : fds'[i].fd = conns'[i] /\ link'[conns'[i]] # "none"
    BY <1>1, <1>3, <1>4, <1>5, <1>6, <1>7 DEF IInv, Placed
  <2>6. \A j \in 1..Len(backlog') : link'[backlog'[j]] # "none"
    BY <1>1, <1>3, <1>8 DEF IInv, Placed
  <2>7. ASSUME NEW q \in Peers, Open(q)'
        PROVE  \/ \E i \in 1..Len(conns') : conns'[i] = q
               \/ \E j \in 1..Len(backlog') : backlog'[j] = q
    <3>1. Open(q)
      BY <1>1, <2>7 DEF Open
    <3>2. CASE \E i \in 1..Len(conns) : conns[i] = q
      <4>1. PICK i \in 1..Len(conns) : conns[i] = q
        BY <3>2
      <4>2. i \in 1..Len(conns') /\ conns'[i] = q
        BY <1>2, <1>5, <4>1
      <4>3. QED
        BY <4>2
    <3>3. CASE \E j \in 1..Len(backlog) : backlog[j] = q
      <4>1. PICK j \in 1..Len(backlog) : backlog[j] = q
        BY <3>3
      <4>2. CASE j = 1
        BY <1>2, <1>3, <1>5, <4>1, <4>2
      <4>3. CASE j # 1
        <5>1. j - 1 \in 1..Len(backlog') /\ j - 1 + 1 = j
          BY <1>3, <4>3
        <5>2. backlog'[j - 1] = q
          BY <1>3, <4>1, <5>1
        <5>3. QED
          BY <5>1, <5>2
      <4>4. QED
        BY <4>2, <4>3
    <3>4. QED
      BY <3>1, <3>2, <3>3 DEF IInv, Placed
  <2>8. QED
    BY <2>2, <2>3, <2>4, <2>5, <2>6, <2>7 DEF Placed
<1>11. Polled'
  BY <1>1 DEF Polled
<1>12. QED
  BY <1>9, <1>10, <1>11 DEF IInv

\* A connection that is not accepted leaves the backlog closed.
LEMMA AcceptFailsPreserves ==
  ASSUME IInv, AcceptFails
  PROVE  IInv'
<1>1. /\ pc = "serve" /\ knock /\ pc' = "close"
      /\ UNCHANGED <<conns, fds, cap, conn, sent, wire>>
  BY DEF AcceptFails, ps
<1>2. CASE UNCHANGED <<backlog, link>>
  BY <1>1, <1>2 DEF IInv, Typed, Placed, Polled, Open
<1>3. CASE /\ backlog' = Tail(backlog)
           /\ link' = [link EXCEPT ![Head(backlog)] = "gone"]
  <2> DEFINE p == Head(backlog)
  <2>1. backlog \in Seq(Peers) /\ backlog # <<>>
    BY <1>1 DEF IInv, Typed, Polled
  <2>2. /\ p \in Peers /\ Len(backlog) \in Nat \ {0} /\ p = backlog[1]
        /\ backlog' \in Seq(Peers) /\ Len(backlog') = Len(backlog) - 1
        /\ \A j \in 1..Len(backlog') : backlog'[j] = backlog[j + 1]
    BY <1>3, <2>1, HeadTailProperties, EmptySeq
  <2>3. /\ link' \in [Peers -> {"none", "up", "fin", "reset", "dropped", "gone"}]
        /\ \A q \in Peers : link'[q] = IF q = p THEN "gone" ELSE link[q]
    BY <1>3 DEF IInv, Typed
  <2> HIDE DEF p
  <2>4. \A j \in 1..Len(backlog') : j + 1 \in 1..Len(backlog) /\ j + 1 # 1
    BY <2>2
  <2>5. /\ \A i \in 1..Len(conns) : conns[i] \in Peers
        /\ \A j \in 1..Len(backlog) : backlog[j] \in Peers
    BY ElementOfSeq DEF IInv, Typed
  <2>6. Typed'
    BY <1>1, <2>2, <2>3 DEF IInv, Typed
  <2>7. Placed'
    <3>1. \A i, j \in 1..Len(backlog') : backlog'[i] = backlog'[j] => i = j
      <4> SUFFICES ASSUME NEW i \in 1..Len(backlog'), NEW j \in 1..Len(backlog'),
                          backlog'[i] = backlog'[j]
                   PROVE  i = j
        OBVIOUS
      <4>1. i + 1 = j + 1
        BY <2>2, <2>4 DEF IInv, Placed
      <4>2. QED
        BY <4>1
    <3>2. \A i \in 1..Len(conns), j \in 1..Len(backlog') : conns[i] # backlog'[j]
      BY <2>2, <2>4 DEF IInv, Placed
    <3>3. /\ \A i \in 1..Len(conns) : fds[i].fd = conns[i] /\ link'[conns[i]] # "none"
          /\ \A j \in 1..Len(backlog') : link'[backlog'[j]] # "none"
      BY <2>2, <2>3, <2>4, <2>5 DEF IInv, Placed
    <3>4. ASSUME NEW q \in Peers, Open(q)'
          PROVE  \/ \E i \in 1..Len(conns) : conns[i] = q
                 \/ \E j \in 1..Len(backlog') : backlog'[j] = q
      <4>1. Open(q) /\ q # p
        BY <2>3, <3>4 DEF Open
      <4>2. CASE \E j \in 1..Len(backlog) : backlog[j] = q
        <5>1. PICK j \in 1..Len(backlog) : backlog[j] = q
          BY <4>2
        <5>2. j - 1 \in 1..Len(backlog') /\ j - 1 + 1 = j
          BY <2>2, <4>1, <5>1
        <5>3. backlog'[j - 1] = q
          BY <2>2, <5>1, <5>2
        <5>4. QED
          BY <5>2, <5>3
      <4>3. QED
        BY <4>1, <4>2 DEF IInv, Placed
    <3>5. QED
      BY <1>1, <3>1, <3>2, <3>3, <3>4 DEF IInv, Placed
  <2>8. QED
    BY <1>1, <2>6, <2>7 DEF IInv, Polled
<1>4. QED
  BY <1>2, <1>3 DEF AcceptFails

\* remove_client, or a close that fails: the connection is gone, the slots that
\* the loop has still to visit are as they were.
LEMMA RemovalPreserves ==
  ASSUME IInv, pc = "serve", at > 0, NEW l \in {"dropped", "gone"},
         link' = [link EXCEPT ![conns[at]] = l],
         RemoveClient \/ RemoveFails,
         UNCHANGED <<knock, cap, conn, backlog, sent, wire>>
  PROVE  IInv'
<1>1. /\ conns \in Seq(Peers) /\ fds \in Seq(Slot) /\ Len(fds) = Len(conns)
      /\ Len(conns) \in Nat /\ at \in 1..Len(conns)
      /\ \A i \in 1..Len(conns) : conns[i] \in Peers
      /\ \A j \in 1..Len(backlog) : backlog[j] \in Peers
  BY LenProperties, ElementOfSeq DEF IInv, Typed
<1>2. /\ link' \in [Peers -> {"none", "up", "fin", "reset", "dropped", "gone"}]
      /\ \A q \in Peers : link'[q] = IF q = conns[at] THEN l ELSE link[q]
  BY <1>1 DEF IInv, Typed
<1>3. \A q \in Peers : /\ link[q] # "none" => link'[q] # "none"
                       /\ Open(q)' => Open(q) /\ q # conns[at]
  BY <1>2 DEF Open
<1>4. CASE RemoveFails
  <2>1. pc' = "close" /\ UNCHANGED <<at, conns, fds>>
    BY <1>4 DEF RemoveFails
  <2>2. Typed'
    BY <1>2, <2>1 DEF IInv, Typed
  <2>3. Placed'
    BY <1>3, <2>1, PlacesKept DEF IInv
  <2>4. QED
    BY <2>1, <2>2, <2>3 DEF IInv, Polled
<1>5. CASE RemoveClient
  <2>1. /\ conns' = Front([conns EXCEPT ![at] = Last(conns)])
        /\ fds' = Front([fds EXCEPT ![at] = Last(fds)])
        /\ at' = at - 1 /\ pc' = pc
    BY <1>5 DEF RemoveClient, Advance
  <2>2. /\ conns' \in Seq(Peers) /\ Len(conns') = Len(conns) - 1
        /\ \A i \in 1..Len(conns') : conns'[i] = IF i = at THEN conns[Len(conns)] ELSE conns[i]
        /\ \A i \in 1..Len(conns) : i # at => \E j \in 1..Len(conns') : conns'[j] = conns[i]
    <3>1. conns' = Without(conns, at)
      BY <2>1 DEF Without
    <3>2. /\ conns' \in Seq(Peers) /\ Len(conns') = Len(conns) - 1
          /\ \A i \in 1..Len(conns') : conns'[i] = IF i = at THEN conns[Len(conns)] ELSE conns[i]
      BY <1>1, <3>1, Removed
    <3>3. ASSUME NEW i \in 1..Len(conns), i # at
          PROVE  \E j \in 1..Len(conns') : conns'[j] = conns[i]
      BY <1>1, <3>1, <3>3, Removed
    <3>4. QED
      BY <3>2, <3>3
  <2>3. /\ fds' \in Seq(Slot) /\ Len(fds') = Len(conns) - 1
        /\ \A i \in 1..Len(fds') : fds'[i] = IF i = at THEN fds[Len(conns)] ELSE fds[i]
    <3>1. fds' = Without(fds, at) /\ at \in 1..Len(fds)
      BY <1>1, <2>1 DEF Without
    <3>2. QED
      BY <1>1, <3>1, Removed
  <2>4. Typed'
    BY <1>1, <1>2, <2>1, <2>2, <2>3 DEF IInv, Typed
  <2>5. /\ \A i \in 1..Len(conns') : i \in 1..Len(conns) /\ i # Len(conns)
        /\ Len(conns) \in 1..Len(conns)
    BY <1>1, <2>2
  <2>6. Placed'
    <3> DEFINE old(i) == IF i = at THEN Len(conns) ELSE i
    <3>a. /\ \A i \in 1..Len(conns') : /\ old(i) \in 1..Len(conns)
                                       /\ conns'[i] = conns[old(i)]
                                       /\ fds'[i] = fds[old(i)]
          /\ \A i, j \in 1..Len(conns') : old(i) = old(j) => i = j
      BY <2>2, <2>3, <2>5
    <3> HIDE DEF old
    <3>1. \A i, j \in 1..Len(conns') : conns'[i] = conns'[j] => i = j
      BY <3>a DEF IInv, Placed
    <3>2. \A i \in 1..Len(conns'), j \in 1..Len(backlog) : conns'[i] # backlog[j]
      BY <3>a DEF IInv, Placed
    <3>3. \A i \in 1..Len(conns') : fds'[i].fd = conns'[i] /\ link'[conns'[i]] # "none"
      BY <1>1, <1>3, <3>a DEF IInv, Placed
    <3>4. \A j \in 1..Len(backlog) : link'[backlog[j]] # "none"
      BY <1>1, <1>3 DEF IInv, Placed
    <3>5. ASSUME NEW q \in Peers, Open(q)'
          PROVE  \/ \E i \in 1..Len(conns') : conns'[i] = q
                 \/ \E j \in 1..Len(backlog) : backlog[j] = q
      <4>1. Open(q) /\ q # conns[at]
        BY <1>3, <3>5
      <4>2. CASE \E i \in 1..Len(conns) : conns[i] = q
        <5>1. PICK i \in 1..Len(conns) : conns[i] = q /\ i # at
          BY <4>1, <4>2
        <5>2. QED
          BY <2>2, <5>1
      <4>3. QED
        BY <4>1, <4>2 DEF IInv, Placed
    <3>6. QED
      BY <3>1, <3>2, <3>3, <3>4, <3>5 DEF IInv, Placed
  <2>7. Polled'
    <3>1. ASSUME NEW i \in 1..at' PROVE  fds'[i] = fds[i] /\ conns'[i] = conns[i] /\ i \in 1..at
      <4>1. i \in 1..at /\ i # at /\ i \in 1..Len(conns') /\ i \in 1..Len(fds')
        BY <1>1, <2>1, <2>2, <2>3
      <4>2. QED
        BY <2>2, <2>3, <4>1
    <3>2. QED
      BY <2>1, <3>1 DEF IInv, Polled
  <2>8. QED
    BY <2>4, <2>6, <2>7 DEF IInv
<1>6. QED
  BY <1>4, <1>5

LEMMA HangUpPreserves == ASSUME IInv, HangUp PROVE IInv'
BY RemovalPreserves DEF HangUp

LEMMA ReadFailsPreserves == ASSUME IInv, ReadFails PROVE IInv'
<1>1. /\ pc = "serve" /\ at > 0
      /\ RemoveClient \/ RemoveFails
      /\ UNCHANGED <<knock, cap, conn, backlog, sent, wire>>
      /\ link' = [link EXCEPT ![conns[at]] = IF @ = "up" THEN "dropped" ELSE "gone"]
  BY DEF ReadFails, Readable
<1> DEFINE l == IF link[conns[at]] = "up" THEN "dropped" ELSE "gone"
<1>2. l \in {"dropped", "gone"} /\ link' = [link EXCEPT ![conns[at]] = l]
  BY <1>1
<1> HIDE DEF l
<1>3. QED
  BY <1>1, <1>2, RemovalPreserves

\* A slot that was served without a removal: only its own connection changed,
\* and the loop goes on below it.
LEMMA AdvancePreserves ==
  ASSUME IInv, pc = "serve", at > 0, Advance,
         UNCHANGED <<conns, fds, knock, cap, backlog, link, sent>>,
         wire' \in [Peers -> Seq(Chunk)],
         NEW c, Sound(c), conn' = [conn EXCEPT ![conns[at]] = c]
  PROVE  IInv'
<1>1. /\ Len(conns) \in Nat /\ at \in 1..Len(conns)
      /\ \A i \in 1..Len(conns) : conns[i] \in Peers
  BY LenProperties, ElementOfSeq DEF IInv, Typed
<1>2. /\ conn' \in [Peers -> Connection]
      /\ \A p \in Peers : conn'[p] = IF p = conns[at] THEN c ELSE conn[p]
  BY <1>1 DEF IInv, Typed, Sound
<1>3. Typed'
  BY <1>1, <1>2 DEF Advance, IInv, Typed
<1>4. Placed'
  BY PlacesKept DEF IInv, Open
<1>5. Polled'
  <2>1. ASSUME NEW i \in 1..at'
        PROVE  i \in 1..at /\ conn'[conns[i]] = conn[conns[i]]
    BY <1>1, <1>2 DEF Advance, IInv, Placed
  <2>2. QED
    BY <2>1 DEF Advance, IInv, Polled
<1>6. QED
  BY <1>3, <1>4, <1>5 DEF IInv

LEMMA ReadPreserves ==
  ASSUME IInv, NEW n \in Nat, Read(n)
  PROVE  IInv'
<1> DEFINE p == conns[at]
           some == SubSeq(wire[p], 1, n)
           rest == SubSeq(wire[p], n + 1, Len(wire[p]))
           c == [conn[p] EXCEPT !.rx = @ \o some]
<1>1. /\ pc = "serve" /\ at > 0 /\ Advance
      /\ n \in 1..(conn[p].rx_cap - Len(conn[p].rx)) /\ n <= Len(wire[p])
      /\ conn' = [conn EXCEPT ![p].rx = @ \o some]
      /\ wire' = [wire EXCEPT ![p] = rest]
      /\ UNCHANGED <<conns, fds, knock, cap, backlog, link, sent>>
  BY DEF Read, Readable
<1>2. p \in Peers
  BY <1>1, LenProperties, ElementOfSeq DEF IInv, Typed
<1>3. Sound(conn[p]) /\ wire[p] \in Seq(Chunk) /\ Len(wire[p]) \in Nat
  BY <1>2, LenProperties DEF IInv, Typed
<1>4. \A i \in 1..Len(wire[p]) : wire[p][i] \in Chunk
  BY <1>3, ElementOfSeq
<1>5. some \in Seq(Chunk) /\ Len(some) = n
  <2>1. \A i \in 1..n : wire[p][i] \in Chunk
    BY <1>1, <1>3, <1>4
  <2>2. 1 <= n /\ n - 1 + 1 = n
    BY <1>1
  <2>3. QED
    BY <2>1, <2>2, SubSeqProperties
<1>6. rest \in Seq(Chunk)
  <2>1. \A i \in (n + 1)..Len(wire[p]) : wire[p][i] \in Chunk
    BY <1>1, <1>3, <1>4
  <2>2. n + 1 \in Int /\ Len(wire[p]) \in Int
    BY <1>3
  <2>3. QED
    BY <2>1, <2>2, SubSeqProperties
<1>7. conn' = [conn EXCEPT ![p] = c] /\ wire' \in [Peers -> Seq(Chunk)]
  BY <1>1, <1>6 DEF IInv, Typed
<1>8. Sound(c)
  <2>1. Len(some) <= conn[p].rx_cap - Len(conn[p].rx)
    BY <1>1, <1>5
  <2> HIDE DEF some, p
  <2>2. QED
    BY <1>3, <1>5, <2>1, ReadIsSound
<1> HIDE DEF c
<1>9. QED
  BY <1>1, <1>7, <1>8, AdvancePreserves

LEMMA WritePreserves ==
  ASSUME IInv, NEW n \in Nat, Write(n)
  PROVE  IInv'
<1> DEFINE p == conns[at]
           c == [conn[p] EXCEPT !.tx_sent = @ + n]
<1>1. /\ pc = "serve" /\ at > 0 /\ Advance
      /\ n \in 1..(Len(conn[p].tx) - conn[p].tx_sent)
      /\ conn' = [conn EXCEPT ![p].tx_sent = @ + n]
      /\ UNCHANGED <<conns, fds, knock, cap, backlog, link, sent, wire>>
  BY DEF Write, Writable
<1>2. p \in Peers
  BY <1>1, LenProperties, ElementOfSeq DEF IInv, Typed
<1>3. conn' = [conn EXCEPT ![p] = c] /\ wire' \in [Peers -> Seq(Chunk)]
  BY <1>1 DEF IInv, Typed
<1>4. Sound(conn[p])
  BY <1>2 DEF IInv, Typed
<1>5. Sound(c)
  BY <1>1, <1>4, WriteIsSound
<1> HIDE DEF c
<1>6. QED
  BY <1>1, <1>3, <1>5, AdvancePreserves

\* The steps of the loop that leave every connection as it is.
LEMMA PassingPreserves ==
  ASSUME IInv, Skip \/ WriteFails \/ NoAccept
  PROVE  IInv'
<1>1. CASE Skip \/ WriteFails
  <2>1. /\ pc = "serve" /\ at > 0 /\ Advance
        /\ UNCHANGED <<conns, fds, knock, cap, conn, backlog, link, sent, wire>>
    BY <1>1 DEF Skip, WriteFails, Writable, outside
  <2>2. Len(conns) \in Nat
    BY LenProperties DEF IInv, Typed
  <2>3. Typed' /\ Placed'
    BY <2>1, <2>2 DEF Advance, IInv, Typed, Placed, Open
  <2>4. Polled'
    <3>1. \A i \in 1..at' : i \in 1..at
      BY <2>1, <2>2 DEF Advance, IInv, Typed
    <3>2. QED
      BY <2>1, <3>1 DEF Advance, IInv, Polled
  <2>5. QED
    BY <2>3, <2>4 DEF IInv
<1>2. CASE NoAccept
  <2>1. /\ pc' \in {"execute", "close"} /\ pc = "serve"
        /\ UNCHANGED <<conns, fds, knock, cap, conn, backlog, link, sent, wire>>
    BY <1>2 DEF NoAccept, Return, ps, outside
  <2>2. Typed'
    BY ONLY IInv, <2>1 DEF IInv, Typed, Sound
  <2>3. Placed'
    BY ONLY IInv, <2>1 DEF IInv, Placed, Open
  <2>4. Polled'
    BY ONLY IInv, <2>1 DEF Polled
  <2>5. QED
    BY <2>2, <2>3, <2>4 DEF IInv
<1>3. QED
  BY <1>1, <1>2

\* pserv_close leaves nothing open.
LEMMA ClosePreserves == ASSUME IInv, Close PROVE IInv'
<1>1. /\ pc' = "closed" /\ conns' = <<>> /\ fds' = <<>> /\ cap' = 0 /\ backlog' = <<>>
      /\ link' = [p \in Peers |-> IF Contains(conns, p) \/ Contains(backlog, p)
                                  THEN "gone" ELSE link[p]]
      /\ UNCHANGED <<conn, sent, wire>>
  BY DEF Close
<1>2. <<>> \in Seq(Peers) /\ <<>> \in Seq(Slot) /\ Len(<<>>) = 0
  BY EmptySeq
<1>3. Typed'
  BY <1>1, <1>2 DEF IInv, Typed
<1>4. \A p \in Peers : ~Open(p)'
  <2> SUFFICES ASSUME NEW p \in Peers, Open(p)' PROVE FALSE
    OBVIOUS
  <2>1. Open(p) /\ ~Contains(conns, p) /\ ~Contains(backlog, p)
    BY <1>1 DEF Open
  <2>2. QED
    BY <2>1 DEF Contains, IInv, Placed
<1>5. Placed'
  BY <1>1, <1>2, <1>4 DEF Placed
<1>6. QED
  BY <1>1, <1>3, <1>5 DEF IInv, Polled

-----------------------------------------------------------------------------
\* Every step preserves the invariant.
LEMMA NextIInv == IInv /\ [Next]_vars => IInv'
<1> SUFFICES ASSUME IInv, [Next]_vars PROVE IInv'
  OBVIOUS
<1>1. CASE UNCHANGED vars
  BY <1>1 DEF vars, ps, outside, IInv, Typed, Placed, Polled, Open
<1>2. CASE Outside
  BY <1>2, OutsidePreserves
<1>3. CASE Server
  <2>1. ASSUME NEW n \in 1..(PrefixLen + Max(Sizes)), Read(n) PROVE IInv'
    <3>1. n \in Nat
      BY <2>1 DEF Read
    <3>2. QED
      BY <2>1, <3>1, ReadPreserves
  <2>2. ASSUME NEW n \in 1..(PrefixLen + Max(Sizes) + 2), Write(n) PROVE IInv'
    <3>1. n \in Nat
      BY <2>2 DEF Write
    <3>2. QED
      BY <2>2, <3>1, WritePreserves
  <2>3. QED
    BY <1>3, <2>1, <2>2, ExecutePreserves, PollPreserves, PassingPreserves,
       AcceptPreserves, AcceptFailsPreserves, HangUpPreserves, ReadFailsPreserves,
       ClosePreserves DEF Server
<1>4. QED
  BY <1>1, <1>2, <1>3 DEF Next

\* Whatever the peers do and whichever calls fail, of any number of connections:
\* each open one has the one slot with its descriptor, the arrays have room, and
\* the loop never acts on a report that a removal has outdated.
THEOREM Safety == Spec => []Inv
<1>1. Init /\ [][Next]_vars => []IInv
  BY InitIInv, NextIInv, PTL
<1>2. QED
  BY <1>1, IInvImpliesInv, PTL DEF Spec

-----------------------------------------------------------------------------
\* Induction over the numbers, for a set of them.
Below == {p \in Nat \X Nat : p[1] < p[2]}

LEMMA Induction ==
  ASSUME NEW S \in SUBSET Nat, 0 \in S, \A n \in S : n + 1 \in S
  PROVE  S = Nat
<1> DEFINE T == Nat \ S
<1>1. SUFFICES ASSUME T # {} PROVE FALSE
  OBVIOUS
<1>2. IsWellFoundedOn(Below, Nat)
  BY NatLessThanWellFounded DEF OpToRel, Below
<1>3. PICK x \in T : \A y \in T : ~(<<y, x>> \in Below)
  <2>1. \E x \in T : \A y \in T : ~(<<y, x>> \in Below)
    BY <1>1, <1>2, WFMin
  <2>2. QED
    BY <2>1
<1>4. x # 0 /\ x - 1 \in Nat /\ <<x - 1, x>> \in Below
  BY DEF Below
<1>5. x - 1 \in S
  BY <1>3, <1>4
<1>6. QED
  BY <1>4, <1>5

\* The sequences that FlattenSeq goes through.
Partial(f, ss) == f = [i \in 1..Len(ss) |-> IF i = 1 THEN ss[i] ELSE f[i - 1] \o ss[i]]

LEMMA PartialUnique ==
  ASSUME NEW ss, Len(ss) \in Nat, NEW f, NEW g, Partial(f, ss), Partial(g, ss)
  PROVE  f = g
<1> DEFINE S == {m \in Nat : m + 1 <= Len(ss) => f[m + 1] = g[m + 1]}
<1>1. /\ f = [i \in 1..Len(ss) |-> IF i = 1 THEN ss[i] ELSE f[i - 1] \o ss[i]]
      /\ g = [i \in 1..Len(ss) |-> IF i = 1 THEN ss[i] ELSE g[i - 1] \o ss[i]]
  BY DEF Partial
<1>2. PICK n \in Nat : n = Len(ss)
  OBVIOUS
<1>3. \A i \in 1..n : /\ f[i] = IF i = 1 THEN ss[i] ELSE f[i - 1] \o ss[i]
                      /\ g[i] = IF i = 1 THEN ss[i] ELSE g[i - 1] \o ss[i]
  BY <1>1, <1>2
<1>4. 0 \in S
  BY <1>2, <1>3
<1>5. ASSUME NEW m \in S PROVE m + 1 \in S
  <2>1. m \in Nat /\ m + 1 \in Nat
    OBVIOUS
  <2>2. ASSUME (m + 1) + 1 <= n PROVE f[(m + 1) + 1] = g[(m + 1) + 1]
    <3>1. f[m + 1] = g[m + 1]
      BY <1>2, <2>2
    <3>2. (m + 1) + 1 \in 1..n /\ (m + 1) + 1 # 1 /\ (m + 1) + 1 - 1 = m + 1
      BY <2>2
    <3>3. QED
      BY <1>3, <3>1, <3>2
  <2>3. QED
    BY <1>2, <2>1, <2>2
<1>6. S = Nat
  <2>1. S \in SUBSET Nat
    OBVIOUS
  <2> HIDE DEF S
  <2>2. QED
    BY <1>4, <1>5, <2>1, Induction
<1>7. \A i \in 1..n : f[i] = g[i]
  <2> SUFFICES ASSUME NEW i \in 1..n PROVE f[i] = g[i]
    OBVIOUS
  <2>1. i - 1 \in Nat /\ (i - 1) + 1 = i
    OBVIOUS
  <2>2. i - 1 \in S
    BY <1>6, <2>1
  <2>3. QED
    BY <1>2, <2>1, <2>2
<1>8. QED
  BY <1>1, <1>2, <1>7

\* One more.
Longer(f, ss, x) ==
  [i \in 1..(Len(ss) + 1) |-> IF i # Len(ss) + 1 THEN f[i]
                              ELSE IF ss = <<>> THEN x ELSE f[Len(ss)] \o x]

LEMMA PartialLonger ==
  ASSUME NEW T, NEW ss \in Seq(Seq(T)), NEW x \in Seq(T), NEW f, Partial(f, ss)
  PROVE  Partial(Longer(f, ss, x), Append(ss, x))
<1> DEFINE g == Longer(f, ss, x)
           tt == Append(ss, x)
<1>1. PICK n \in Nat : n = Len(ss)
  BY LenProperties
<1>2. /\ tt \in Seq(Seq(T)) /\ Len(tt) = n + 1 /\ tt[n + 1] = x
      /\ \A i \in 1..n : tt[i] = ss[i]
  BY <1>1, AppendProperties
<1>3. /\ g = [i \in 1..(n + 1) |-> IF i # n + 1 THEN f[i]
                                   ELSE IF ss = <<>> THEN x ELSE f[n] \o x]
      /\ \A i \in 1..n : f[i] = IF i = 1 THEN ss[i] ELSE f[i - 1] \o ss[i]
  BY <1>1 DEF Longer, Partial
<1>4. n = 0 <=> ss = <<>>
  BY <1>1, EmptySeq
<1> HIDE DEF g, tt
<1>5. ASSUME NEW i \in 1..(n + 1) PROVE g[i] = IF i = 1 THEN tt[i] ELSE g[i - 1] \o tt[i]
  <2>1. CASE i = n + 1
    <3>1. g[i] = IF ss = <<>> THEN x ELSE f[n] \o x
      BY <1>3, <2>1
    <3>2. n # 0 => i - 1 \in 1..(n + 1) /\ i - 1 # n + 1 /\ g[i - 1] = f[n] /\ i # 1
      BY <1>3, <2>1
    <3>3. QED
      BY <1>2, <1>4, <2>1, <3>1, <3>2
  <2>2. CASE i # n + 1
    <3>1. i \in 1..n /\ g[i] = f[i] /\ tt[i] = ss[i]
      BY <1>2, <1>3, <2>2
    <3>2. i # 1 => i - 1 \in 1..n /\ g[i - 1] = f[i - 1]
      BY <1>3, <2>2
    <3>3. QED
      BY <1>3, <3>1, <3>2
  <2>3. QED
    BY <2>1, <2>2
<1>6. g = [i \in 1..(n + 1) |-> IF i = 1 THEN tt[i] ELSE g[i - 1] \o tt[i]]
  BY <1>3, <1>5
<1>7. Partial(g, tt)
  BY <1>2, <1>6 DEF Partial
<1>8. QED
  BY <1>7 DEF g, tt

LEMMA PartialExists ==
  ASSUME NEW T
  PROVE  \A ss \in Seq(Seq(T)) : \E f : Partial(f, ss)
<1> DEFINE S == {n \in Nat : \A ss \in Seq(Seq(T)) : Len(ss) = n => \E f : Partial(f, ss)}
<1>1. 0 \in S
  <2> SUFFICES ASSUME NEW ss \in Seq(Seq(T)), Len(ss) = 0 PROVE \E f : Partial(f, ss)
    OBVIOUS
  <2>1. Partial(<<>>, ss)
    <3> DEFINE u == [i \in 1..0 |-> IF i = 1 THEN ss[i] ELSE (<<>>)[i - 1] \o ss[i]]
    <3>1. u = <<>>
      <4>1. u \in [1..0 -> Seq(T)] /\ 0 \in Nat
        OBVIOUS
      <4>2. u \in Seq(Seq(T)) /\ DOMAIN u = 1..0
        BY <4>1, SeqDef
      <4>3. Len(u) = 0
        BY <4>2, LenProperties
      <4> HIDE DEF u
      <4>4. QED
        BY <4>2, <4>3, EmptySeq
    <3>2. QED
      BY <3>1 DEF Partial
  <2>2. QED
    BY <2>1
<1>2. ASSUME NEW n \in S PROVE n + 1 \in S
  <2>1. n \in Nat /\ n + 1 \in Nat /\ \A ss \in Seq(Seq(T)) : Len(ss) = n => \E f : Partial(f, ss)
    OBVIOUS
  <2> SUFFICES ASSUME NEW ss \in Seq(Seq(T)), Len(ss) = n + 1 PROVE \E f : Partial(f, ss)
    BY <2>1
  <2>2. ss # <<>>
    BY <2>1, EmptySeq
  <2>3. PICK s \in Seq(Seq(T)), x \in Seq(T) : ss = Append(s, x)
    BY <2>2, SequenceEmptyOrAppend
  <2>4. Len(ss) = Len(s) + 1 /\ Len(s) \in Nat
    BY <2>3, AppendProperties, LenProperties
  <2>5. PICK f : Partial(f, s)
    BY <2>1, <2>4
  <2>6. Partial(Longer(f, s, x), ss)
    BY <2>3, <2>5, PartialLonger
  <2>7. QED
    BY <2>6
<1>3. S = Nat
  <2>1. S \in SUBSET Nat
    OBVIOUS
  <2> HIDE DEF S
  <2>2. QED
    BY <1>1, <1>2, <2>1, Induction
<1>4. QED
  BY <1>3, LenProperties

LEMMA FlattenIs ==
  ASSUME NEW T, NEW ss \in Seq(Seq(T)), NEW f, Partial(f, ss)
  PROVE  FlattenSeq(ss) = IF ss = <<>> THEN <<>> ELSE f[Len(ss)]
<1> DEFINE g == CHOOSE g : g = [i \in 1..Len(ss) |-> IF i = 1 THEN ss[i] ELSE g[i - 1] \o ss[i]]
<1>1. FlattenSeq(ss) = IF Len(ss) = 0 THEN ss ELSE g[Len(ss)]
  BY ZenonT(30) DEF FlattenSeq
<1>2. Partial(g, ss)
  BY DEF Partial
<1> HIDE DEF g
<1>3. Len(ss) \in Nat
  BY LenProperties
<1>4. g = f
  BY <1>2, <1>3, PartialUnique
<1>5. Len(ss) = 0 <=> ss = <<>>
  BY EmptySeq
<1>6. QED
  BY <1>1, <1>4, <1>5

\* FlattenSeq of one more sequence.
LEMMA FlattenAppend ==
  ASSUME NEW T, NEW ss \in Seq(Seq(T)), NEW x \in Seq(T)
  PROVE  FlattenSeq(Append(ss, x)) = FlattenSeq(ss) \o x
<1>1. PICK f : Partial(f, ss)
  BY PartialExists
<1> DEFINE g == Longer(f, ss, x)
<1>2. Partial(g, Append(ss, x))
  BY <1>1, PartialLonger
<1>3. FlattenSeq(ss) = IF ss = <<>> THEN <<>> ELSE f[Len(ss)]
  BY <1>1, FlattenIs
<1>4. PICK n \in Nat : n = Len(ss)
  BY LenProperties
<1>5. /\ Append(ss, x) \in Seq(Seq(T)) /\ Append(ss, x) # <<>> /\ Len(Append(ss, x)) = n + 1
  BY <1>4, AppendProperties
<1>6. g[n + 1] = IF ss = <<>> THEN x ELSE f[n] \o x
  BY <1>4 DEF Longer
<1> HIDE DEF g
<1>7. FlattenSeq(Append(ss, x)) = g[n + 1]
  <2> DEFINE tt == Append(ss, x)
  <2>1. tt \in Seq(Seq(T)) /\ Partial(g, tt) /\ tt # <<>> /\ Len(tt) = n + 1
    BY <1>2, <1>5
  <2> HIDE DEF tt
  <2>2. FlattenSeq(tt) = IF tt = <<>> THEN <<>> ELSE g[Len(tt)]
    BY <2>1, FlattenIs
  <2>3. QED
    BY <2>1, <2>2 DEF tt
<1>8. <<>> \o x = x
  BY ConcatEmptySeq
<1>9. QED
  BY <1>3, <1>4, <1>6, <1>7, <1>8

LEMMA FlattenType ==
  ASSUME NEW T
  PROVE  \A ss \in Seq(Seq(T)) : FlattenSeq(ss) \in Seq(T)
<1> DEFINE S == {n \in Nat : \A ss \in Seq(Seq(T)) : Len(ss) = n => FlattenSeq(ss) \in Seq(T)}
<1>1. 0 \in S
  <2> SUFFICES ASSUME NEW ss \in Seq(Seq(T)), Len(ss) = 0 PROVE FlattenSeq(ss) \in Seq(T)
    OBVIOUS
  <2>1. FlattenSeq(ss) = <<>>
    <3>1. ss = <<>>
      BY EmptySeq
    <3>2. QED
      BY <3>1 DEF FlattenSeq
  <2>2. QED
    BY <2>1, EmptySeq
<1>2. ASSUME NEW n \in S PROVE n + 1 \in S
  <2>1. n \in Nat /\ n + 1 \in Nat /\ \A ss \in Seq(Seq(T)) : Len(ss) = n => FlattenSeq(ss) \in Seq(T)
    OBVIOUS
  <2> SUFFICES ASSUME NEW ss \in Seq(Seq(T)), Len(ss) = n + 1 PROVE FlattenSeq(ss) \in Seq(T)
    BY <2>1
  <2>2. ss # <<>>
    BY <2>1, EmptySeq
  <2>3. PICK s \in Seq(Seq(T)), x \in Seq(T) : ss = Append(s, x)
    BY <2>2, SequenceEmptyOrAppend
  <2>4. Len(ss) = Len(s) + 1 /\ Len(s) \in Nat
    BY <2>3, AppendProperties, LenProperties
  <2>5. FlattenSeq(s) \in Seq(T) /\ FlattenSeq(ss) = FlattenSeq(s) \o x
    BY <2>1, <2>3, <2>4, FlattenAppend
  <2>6. QED
    BY <2>5, ConcatProperties
<1>3. S = Nat
  <2>1. S \in SUBSET Nat
    OBVIOUS
  <2> HIDE DEF S
  <2>2. QED
    BY <1>1, <1>2, <2>1, Induction
<1>4. QED
  BY <1>3, LenProperties

\* Concatenation of any sequences, in the form the steps below use it.
LEMMA SeqAssoc == \A T : \A a, b, c \in Seq(T) : (a \o b) \o c = a \o (b \o c)
BY ConcatAssociative

LEMMA FlattenConcat ==
  ASSUME NEW T, NEW ss \in Seq(Seq(T))
  PROVE  \A tt \in Seq(Seq(T)) : FlattenSeq(ss \o tt) = FlattenSeq(ss) \o FlattenSeq(tt)
<1> DEFINE S == {n \in Nat : \A tt \in Seq(Seq(T)) :
                   Len(tt) = n => FlattenSeq(ss \o tt) = FlattenSeq(ss) \o FlattenSeq(tt)}
<1>1. 0 \in S
  <2> SUFFICES ASSUME NEW tt \in Seq(Seq(T)), Len(tt) = 0
               PROVE  FlattenSeq(ss \o tt) = FlattenSeq(ss) \o FlattenSeq(tt)
    OBVIOUS
  <2>1. tt = <<>>
    BY EmptySeq
  <2>2. FlattenSeq(tt) = <<>>
    BY <2>1 DEF FlattenSeq
  <2>3. ss \o tt = ss
    BY <2>1, ConcatEmptySeq
  <2>4. FlattenSeq(ss) \in Seq(T)
    BY FlattenType
  <2>5. FlattenSeq(ss) \o <<>> = FlattenSeq(ss)
    BY <2>4, ConcatEmptySeq
  <2>6. QED
    BY <2>2, <2>3, <2>5
<1>2. ASSUME NEW n \in S PROVE n + 1 \in S
  <2>1. n \in Nat /\ n + 1 \in Nat
    OBVIOUS
  <2> SUFFICES ASSUME NEW tt \in Seq(Seq(T)), Len(tt) = n + 1
               PROVE  FlattenSeq(ss \o tt) = FlattenSeq(ss) \o FlattenSeq(tt)
    BY <2>1
  <2>2. tt # <<>>
    BY <2>1, EmptySeq
  <2>3. PICK s \in Seq(Seq(T)), x \in Seq(T) : tt = Append(s, x)
    BY <2>2, SequenceEmptyOrAppend
  <2>4. Len(tt) = Len(s) + 1 /\ Len(s) \in Nat
    BY <2>3, AppendProperties, LenProperties
  <2>5. FlattenSeq(ss \o s) = FlattenSeq(ss) \o FlattenSeq(s)
    BY <2>4
  <2>6. ss \o s \in Seq(Seq(T)) /\ ss \o tt = Append(ss \o s, x)
    <3>1. tt = s \o <<x>> /\ <<x>> \in Seq(Seq(T))
      BY <2>3, AppendIsConcat
    <3>2. ss \o s \in Seq(Seq(T))
      BY ConcatProperties
    <3>3. ss \o tt = (ss \o s) \o <<x>>
      <4>1. (ss \o s) \o <<x>> = ss \o (s \o <<x>>)
        BY ONLY ss \in Seq(Seq(T)), s \in Seq(Seq(T)), <3>1, SeqAssoc
      <4>2. QED
        BY ONLY <3>1, <4>1
    <3>4. Append(ss \o s, x) = (ss \o s) \o <<x>>
      BY <3>2, AppendIsConcat
    <3>5. QED
      BY <3>2, <3>3, <3>4
  <2>7. /\ FlattenSeq(ss \o tt) = FlattenSeq(ss \o s) \o x
        /\ FlattenSeq(tt) = FlattenSeq(s) \o x
    BY <2>3, <2>6, FlattenAppend
  <2>8. FlattenSeq(ss) \in Seq(T) /\ FlattenSeq(s) \in Seq(T)
    BY FlattenType
  <2>9. (FlattenSeq(ss) \o FlattenSeq(s)) \o x = FlattenSeq(ss) \o (FlattenSeq(s) \o x)
    <3>1. \A a, b, c \in Seq(T) : (a \o b) \o c = a \o (b \o c)
      BY ONLY SeqAssoc, SMTT(30)
    <3>2. QED
      BY ONLY x \in Seq(T), <2>8, <3>1, Zenon
  <2>10. QED
    BY <2>5, <2>7, <2>9
<1>3. S = Nat
  <2>1. S \in SUBSET Nat
    OBVIOUS
  <2> HIDE DEF S
  <2>2. QED
    BY <1>1, <1>2, <2>1, Induction
<1>4. QED
  BY <1>3, LenProperties

-----------------------------------------------------------------------------
\* Sequences.
LEMMA ConcatCancel ==
  ASSUME NEW T, NEW a \in Seq(T), NEW b \in Seq(T), NEW c \in Seq(T), NEW d \in Seq(T),
         a \o b = c \o d, Len(a) = Len(c)
  PROVE  a = c /\ b = d
<1>1. PICK m \in Nat, n \in Nat, k \in Nat : m = Len(a) /\ n = Len(b) /\ k = Len(d)
  BY LenProperties
<1>2. /\ Len(a \o b) = m + n /\ Len(c \o d) = m + k
      /\ \A i \in 1..(m + n) : (a \o b)[i] = IF i <= m THEN a[i] ELSE b[i - m]
      /\ \A i \in 1..(m + k) : (c \o d)[i] = IF i <= m THEN c[i] ELSE d[i - m]
  <2>1. Len(c) = m
    BY <1>1
  <2>2. /\ Len(a \o b) = m + n
        /\ \A i \in 1..(m + n) : (a \o b)[i] = IF i <= m THEN a[i] ELSE b[i - m]
    BY <1>1, ConcatProperties
  <2>3. /\ Len(c \o d) = m + k
        /\ \A i \in 1..(m + k) : (c \o d)[i] = IF i <= m THEN c[i] ELSE d[i - m]
    BY <1>1, <2>1, ConcatProperties
  <2>4. QED
    BY <2>2, <2>3
<1>3. n = k
  BY <1>2
<1>4. \A i \in 1..m : a[i] = c[i]
  BY <1>2, <1>3
<1>5. \A i \in 1..n : b[i] = d[i]
  <2> SUFFICES ASSUME NEW i \in 1..n PROVE b[i] = d[i]
    OBVIOUS
  <2>1. i + m \in 1..(m + n) /\ ~(i + m <= m) /\ (i + m) - m = i
    OBVIOUS
  <2>2. QED
    BY <1>2, <1>3, <2>1
<1>6. QED
  BY <1>1, <1>3, <1>4, <1>5, SeqEqual

\* A sequence cut in two.
LEMMA Cut ==
  ASSUME NEW T, NEW s \in Seq(T), NEW n \in 0..Len(s)
  PROVE  /\ SubSeq(s, 1, n) \in Seq(T) /\ Len(SubSeq(s, 1, n)) = n
         /\ SubSeq(s, n + 1, Len(s)) \in Seq(T)
         /\ SubSeq(s, 1, n) \o SubSeq(s, n + 1, Len(s)) = s
<1>1. PICK m \in Nat : m = Len(s)
  BY LenProperties
<1>2. \A i \in 1..m : s[i] \in T
  BY <1>1, ElementOfSeq
<1>3. SubSeq(s, 1, n) \in Seq(T) /\ Len(SubSeq(s, 1, n)) = n
  <2>1. \A i \in 1..n : s[i] \in T
    BY <1>1, <1>2
  <2>2. 1 \in Int /\ n \in Int /\ n >= 0
    BY <1>1
  <2>3. QED
    BY <2>1, <2>2, SubSeqProperties
<1>4. SubSeq(s, n + 1, m) \in Seq(T)
  <2>1. \A i \in (n + 1)..m : s[i] \in T
    BY <1>1, <1>2
  <2>2. n + 1 \in Int /\ m \in Int
    BY <1>1
  <2>3. QED
    BY <2>1, <2>2, SubSeqProperties
<1>5. SubSeq(s, 1, n) \o SubSeq(s, n + 1, m) = SubSeq(s, 1, m)
  <2>1. 1 \in 1..(m + 1) /\ n \in 1 - 1 .. m /\ m \in n..m
    BY <1>1
  <2>2. QED
    BY <1>1, <2>1, ConcatAdjacentSubSeq
<1>6. SubSeq(s, 1, m) = s
  BY <1>1, SubSeqFull
<1>7. QED
  BY <1>1, <1>3, <1>4, <1>5, <1>6

LEMMA PrefixOfConcat ==
  ASSUME NEW T, NEW s \in Seq(T), NEW t \in Seq(T)
  PROVE  IsPrefix(s, s \o t)
<1>1. PICK m \in Nat, n \in Nat : m = Len(s) /\ n = Len(t)
  BY LenProperties
<1>2. Len(s \o t) = m + n
  BY <1>1, ConcatProperties
<1>3. SubSeq(s, 1, m) = SubSeq(s \o t, 1, m)
  <2>1. CASE m = 0
    BY <2>1, SubSeqEmpty
  <2>2. CASE m # 0
    <3>1. 1 \in 1..m /\ m \in 1..m
      BY <2>2
    <3>2. QED
      BY <1>1, <3>1, SubSeqOfConcat1
  <2>3. QED
    BY <2>1, <2>2
<1>4. QED
  BY <1>1, <1>2, <1>3 DEF IsPrefix

\* A frame is its prefix and its body, and the prefix says how long the body is.
LEMMA FrameIs ==
  ASSUME NEW k \in Nat, NEW n \in Nat
  PROVE  Frame(k, n) \in Seq(Chunk) /\ Len(Frame(k, n)) = PrefixLen + n /\ Decode(Frame(k, n)) = n
<1> DEFINE a == Chunks("prefix", PrefixLen, n)
           b == Chunks("body", n, k)
<1>1. a \in Seq(Chunk) /\ Len(a) = PrefixLen /\ b \in Seq(Chunk) /\ Len(b) = n
  BY ChunksType, EchoServerAssumption DEF Kinds
<1>2. PrefixLen \in Nat \ {0}
  BY EchoServerAssumption
<1>3. a[1] = <<"prefix", n>>
  BY <1>2 DEF Chunks
<1> HIDE DEF a, b
<1>4. a \o b \in Seq(Chunk) /\ Len(a \o b) = PrefixLen + n
  BY <1>1, ConcatProperties
<1>5. (a \o b)[1] = a[1]
  <2>1. 1 \in 1..(Len(a) + Len(b)) /\ 1 <= Len(a)
    BY <1>1, <1>2
  <2>2. QED
    BY <1>1, <2>1, ConcatProperties
<1>6. Frame(k, n) = a \o b
  BY DEF Frame, a, b
<1>7. Decode(a \o b) = n
  BY <1>3, <1>5 DEF Decode
<1>8. QED
  BY <1>4, <1>6, <1>7

\* What a peer must read back for one message.
Answer(k, n) == IF n = 0 THEN <<>> ELSE Reply(Frame(k, n))

LEMMA AnswerIs ==
  ASSUME NEW k \in Nat, NEW n \in Nat
  PROVE  Answer(k, n) \in Seq(Chunk) /\ (n # 0 => Answer(k, n) # <<>>)
<1>1. CASE n = 0
  BY <1>1, EmptySeq DEF Answer
<1>2. CASE n # 0
  <2> DEFINE f == Frame(k, n)
             c == [rx |-> f, rx_cap |-> PrefixLen + n, tx |-> <<>>, tx_sent |-> 0]
  <2>1. f \in Seq(Chunk) /\ Len(f) = PrefixLen + n /\ Decode(f) = n
    BY FrameIs
  <2>2. PrefixLen \in Nat \ {0} /\ <<>> \in Seq(Chunk) /\ Len(<<>>) = 0
    BY EchoServerAssumption, EmptySeq
  <2> HIDE DEF f
  <2>3. Sound(c)
    BY <2>1, <2>2 DEF Sound, Connection
  <2>4. Replies(c)
    BY <1>2, <2>1, <2>2 DEF Replies, IsNew, IsSent, IsWhole
  <2>5. Reply(c.rx) \in Seq(Chunk)
    BY <2>3, <2>4, ReplyType
  <2>6. Reply(f) # <<>>
    <3> DEFINE x == Chunks("prefix", PrefixLen, n + 2) \o Chunks("context", 1, 0)
                      \o SubSeq(f, PrefixLen + 1, PrefixLen + n)
               y == Chunks("context", 1, 1)
    <3>1. Reply(f) = x \o y
      BY <2>1 DEF Reply
    <3>2. y \in Seq(Chunk) /\ Len(y) = 1
      BY ChunksType DEF Kinds
    <3>3. x \in Seq(Chunk)
      <4>1. /\ Chunks("prefix", PrefixLen, n + 2) \in Seq(Chunk)
            /\ Chunks("context", 1, 0) \in Seq(Chunk)
        BY <2>2, ChunksType DEF Kinds
      <4>2. SubSeq(f, PrefixLen + 1, PrefixLen + n) \in Seq(Chunk)
        <5>1. \A i \in PrefixLen + 1 .. PrefixLen + n : f[i] \in Chunk
          BY <2>1, <2>2, ElementOfSeq
        <5>2. PrefixLen + 1 \in Int /\ PrefixLen + n \in Int
          BY <2>2
        <5>3. QED
          BY <5>1, <5>2, SubSeqProperties
      <4>3. QED
        BY <4>1, <4>2, ConcatProperties
    <3> HIDE DEF x, y
    <3>4. y # <<>>
      BY <3>2, <2>2
    <3>5. QED
      BY <3>1, <3>2, <3>3, <3>4, ConcatEqualIffEmpty
  <2>7. QED
    BY <1>2, <2>5, <2>6 DEF Answer, f
<1>3. QED
  BY <1>1, <1>2

-----------------------------------------------------------------------------
\* The frames of the messages s, when a messages went before them, and the
\* answers to s.
Frames(a, s) == [i \in 1..Len(s) |-> Frame(a + i, s[i])]
Answers(a, s) == [i \in 1..Len(s) |-> Answer(a + i, s[i])]
Ins(a, s) == FlattenSeq(Frames(a, s))
Outs(s) == FlattenSeq(Answers(0, s))

LEMMA FramesType ==
  ASSUME NEW a \in Nat, NEW s \in Seq(Nat)
  PROVE  /\ Frames(a, s) \in Seq(Seq(Chunk)) /\ Len(Frames(a, s)) = Len(s)
         /\ Answers(a, s) \in Seq(Seq(Chunk)) /\ Len(Answers(a, s)) = Len(s)
<1>1. PICK n \in Nat : n = Len(s)
  BY LenProperties
<1>2. \A i \in 1..n : a + i \in Nat /\ s[i] \in Nat
  BY <1>1, ElementOfSeq
<1>3. \A i \in 1..n : Frame(a + i, s[i]) \in Seq(Chunk) /\ Answer(a + i, s[i]) \in Seq(Chunk)
  BY <1>2, FrameIs, AnswerIs
<1>4. Frames(a, s) \in [1..n -> Seq(Chunk)] /\ Answers(a, s) \in [1..n -> Seq(Chunk)]
  BY <1>1, <1>3 DEF Frames, Answers
<1>5. Frames(a, s) \in Seq(Seq(Chunk)) /\ Len(Frames(a, s)) = n
  <2>1. Frames(a, s) \in Seq(Seq(Chunk))
    BY <1>4, SeqDef
  <2>2. DOMAIN Frames(a, s) = 1..n
    BY <1>4
  <2>3. QED
    BY <2>1, <2>2, LenProperties
<1>6. Answers(a, s) \in Seq(Seq(Chunk)) /\ Len(Answers(a, s)) = n
  <2>1. Answers(a, s) \in Seq(Seq(Chunk))
    BY <1>4, SeqDef
  <2>2. DOMAIN Answers(a, s) = 1..n
    BY <1>4
  <2>3. QED
    BY <2>1, <2>2, LenProperties
<1>7. QED
  BY <1>1, <1>5, <1>6

LEMMA InsType ==
  ASSUME NEW a \in Nat, NEW s \in Seq(Nat)
  PROVE  Ins(a, s) \in Seq(Chunk) /\ Outs(s) \in Seq(Chunk)
<1>1. /\ Frames(a, s) \in Seq(Seq(Chunk)) /\ Answers(0, s) \in Seq(Seq(Chunk))
  BY FramesType
<1>2. QED
  BY <1>1, FlattenType DEF Ins, Outs

LEMMA NothingIn ==
  ASSUME NEW a \in Nat
  PROVE  Ins(a, <<>>) = <<>> /\ Outs(<<>>) = <<>>
<1>1. <<>> \in Seq(Nat) /\ Len(<<>>) = 0
  BY EmptySeq
<1>2. /\ Frames(a, <<>>) \in Seq(Seq(Chunk)) /\ Len(Frames(a, <<>>)) = 0
      /\ Answers(0, <<>>) \in Seq(Seq(Chunk)) /\ Len(Answers(0, <<>>)) = 0
  BY <1>1, FramesType
<1>3. Frames(a, <<>>) = <<>> /\ Answers(0, <<>>) = <<>>
  BY <1>2, EmptySeq
<1>4. FlattenSeq(<<>>) = <<>>
  BY <1>1 DEF FlattenSeq
<1>5. QED
  BY <1>3, <1>4 DEF Ins, Outs

\* One message more at the end.
LEMMA InsAppend ==
  ASSUME NEW a \in Nat, NEW s \in Seq(Nat), NEW n \in Nat
  PROVE  /\ Ins(a, Append(s, n)) = Ins(a, s) \o Frame(a + Len(s) + 1, n)
         /\ Outs(Append(s, n)) = Outs(s) \o Answer(Len(s) + 1, n)
<1>1. PICK m \in Nat : m = Len(s)
  BY LenProperties
<1> DEFINE t == Append(s, n)
<1>2. /\ t \in Seq(Nat) /\ Len(t) = m + 1 /\ t[m + 1] = n
      /\ \A i \in 1..m : t[i] = s[i]
  BY <1>1, AppendProperties
<1> HIDE DEF t
<1>3. ASSUME NEW b \in Nat
      PROVE  /\ Frames(b, t) = Append(Frames(b, s), Frame(b + m + 1, n))
             /\ Answers(b, t) = Append(Answers(b, s), Answer(b + m + 1, n))
  <2> DEFINE f == Frame(b + m + 1, n)
             r == Answer(b + m + 1, n)
  <2>1. b + m + 1 \in Nat /\ b + (m + 1) = b + m + 1
    OBVIOUS
  <2>2. f \in Seq(Chunk) /\ r \in Seq(Chunk)
    BY <2>1, FrameIs, AnswerIs
  <2>3. /\ Frames(b, t) \in Seq(Seq(Chunk)) /\ Len(Frames(b, t)) = m + 1
        /\ Answers(b, t) \in Seq(Seq(Chunk)) /\ Len(Answers(b, t)) = m + 1
    BY <1>2, FramesType
  <2>4. /\ Frames(b, s) \in Seq(Seq(Chunk)) /\ Len(Frames(b, s)) = m
        /\ Answers(b, s) \in Seq(Seq(Chunk)) /\ Len(Answers(b, s)) = m
    BY <1>1, FramesType
  <2>5. /\ \A i \in 1..m : Frames(b, t)[i] = Frames(b, s)[i] /\ Answers(b, t)[i] = Answers(b, s)[i]
        /\ Frames(b, t)[m + 1] = f /\ Answers(b, t)[m + 1] = r
    BY <1>1, <1>2, <2>1 DEF Frames, Answers
  <2> HIDE DEF f, r
  <2>6. Frames(b, t) = Append(Frames(b, s), f)
    <3> DEFINE x == Append(Frames(b, s), f)
    <3>1. /\ x \in Seq(Seq(Chunk)) /\ Len(x) = m + 1 /\ x[m + 1] = f
          /\ \A i \in 1..m : x[i] = Frames(b, s)[i]
      BY <2>2, <2>4, AppendProperties
    <3> HIDE DEF x
    <3>2. \A i \in 1..(m + 1) : Frames(b, t)[i] = x[i]
      BY <2>5, <3>1
    <3>3. QED
      BY <2>3, <3>1, <3>2, SeqEqual DEF x
  <2>7. Answers(b, t) = Append(Answers(b, s), r)
    <3> DEFINE x == Append(Answers(b, s), r)
    <3>1. /\ x \in Seq(Seq(Chunk)) /\ Len(x) = m + 1 /\ x[m + 1] = r
          /\ \A i \in 1..m : x[i] = Answers(b, s)[i]
      BY <2>2, <2>4, AppendProperties
    <3> HIDE DEF x
    <3>2. \A i \in 1..(m + 1) : Answers(b, t)[i] = x[i]
      BY <2>5, <3>1
    <3>3. QED
      BY <2>3, <3>1, <3>2, SeqEqual DEF x
  <2>8. QED
    BY <2>6, <2>7 DEF f, r
<1>4. Ins(a, t) = Ins(a, s) \o Frame(a + m + 1, n)
  <2>1. a + m + 1 \in Nat
    OBVIOUS
  <2>2. Frames(a, s) \in Seq(Seq(Chunk)) /\ Frame(a + m + 1, n) \in Seq(Chunk)
    BY <2>1, FramesType, FrameIs
  <2>3. QED
    BY <1>3, <2>2, FlattenAppend DEF Ins
<1>5. Outs(t) = Outs(s) \o Answer(m + 1, n)
  <2>1. Answers(0, s) \in Seq(Seq(Chunk)) /\ Answer(m + 1, n) \in Seq(Chunk)
    BY FramesType, AnswerIs
  <2>2. Answers(0, t) = Append(Answers(0, s), Answer(m + 1, n))
    <3>1. 0 + m + 1 = m + 1
      OBVIOUS
    <3>2. Answers(0, t) = Append(Answers(0, s), Answer(0 + m + 1, n))
      BY <1>3
    <3>3. QED
      BY <3>1, <3>2
  <2>3. QED
    BY <2>1, <2>2, FlattenAppend DEF Outs
<1>6. QED
  BY <1>1, <1>4, <1>5 DEF t

\* The first message, and the others behind it.
LEMMA InsFirst ==
  ASSUME NEW a \in Nat, NEW s \in Seq(Nat), s # <<>>
  PROVE  Ins(a, s) = Frame(a + 1, s[1]) \o Ins(a + 1, Tail(s))
<1>1. PICK m \in Nat : Len(s) = m + 1
  <2>1. Len(s) \in Nat \ {0}
    BY ONLY s \in Seq(Nat), s # <<>>, EmptySeq
  <2>2. Len(s) - 1 \in Nat /\ Len(s) = (Len(s) - 1) + 1
    BY <2>1
  <2>3. QED
    BY <2>2
<1> DEFINE t == Tail(s)
           f == Frame(a + 1, s[1])
<1>2. t \in Seq(Nat) /\ Len(t) = m /\ \A i \in 1..m : t[i] = s[i + 1]
  <2>1. t \in Seq(Nat) /\ Len(t) = Len(s) - 1 /\ \A i \in 1..Len(t) : t[i] = s[i + 1]
    BY HeadTailProperties
  <2>2. Len(t) = m
    BY <1>1, <2>1
  <2>3. QED
    BY <2>1, <2>2
<1>3. a + 1 \in Nat /\ s[1] \in Nat
  BY <1>1, ElementOfSeq
<1>4. f \in Seq(Chunk)
  BY <1>3, FrameIs
<1> HIDE DEF t
<1>5. /\ Frames(a, s) \in Seq(Seq(Chunk)) /\ Len(Frames(a, s)) = m + 1
      /\ Frames(a + 1, t) \in Seq(Seq(Chunk)) /\ Len(Frames(a + 1, t)) = m
  BY <1>1, <1>2, <1>3, FramesType
<1>6. Frames(a, s)[1] = f
  BY <1>1 DEF Frames
<1>7. ASSUME NEW i \in 1..m PROVE Frames(a, s)[i + 1] = Frames(a + 1, t)[i]
  <2>1. i + 1 \in 1..(m + 1) /\ a + (i + 1) = (a + 1) + i
    OBVIOUS
  <2>2. QED
    BY <1>1, <1>2, <2>1 DEF Frames
<1> DEFINE u == <<f>>
<1>8. u \in Seq(Seq(Chunk)) /\ Len(u) = 1 /\ u[1] = f
  BY <1>4
<1> HIDE DEF f, u
<1>9. Frames(a, s) = u \o Frames(a + 1, t)
  <2> DEFINE v == Frames(a + 1, t)
  <2>a. v \in Seq(Seq(Chunk)) /\ Len(v) = m
    BY <1>5
  <2>b. \A i \in 1..m : Frames(a, s)[i + 1] = v[i]
    BY <1>7
  <2> HIDE DEF v
  <2>1. /\ u \o v \in Seq(Seq(Chunk)) /\ Len(u \o v) = 1 + m
        /\ \A i \in 1..(1 + m) : (u \o v)[i] = IF i <= 1 THEN u[i] ELSE v[i - 1]
    <3>1. /\ u \o v \in Seq(Seq(Chunk)) /\ Len(u \o v) = Len(u) + Len(v)
          /\ \A i \in 1..(Len(u) + Len(v)) : (u \o v)[i] = IF i <= Len(u) THEN u[i] ELSE v[i - Len(u)]
      BY <1>8, <2>a, ConcatProperties
    <3>2. QED
      BY <1>8, <2>a, <3>1
  <2>2. ASSUME NEW i \in 1..(m + 1) PROVE Frames(a, s)[i] = (u \o v)[i]
    <3>1. CASE i = 1
      BY <1>6, <1>8, <2>1, <3>1
    <3>2. CASE i # 1
      <4>1. i - 1 \in 1..m /\ (i - 1) + 1 = i /\ ~(i <= 1) /\ i \in 1..(1 + m)
        BY <3>2
      <4>2. Frames(a, s)[i] = v[i - 1]
        BY <2>b, <4>1
      <4>3. QED
        BY <2>1, <4>1, <4>2
    <3>3. QED
      BY <3>1, <3>2
  <2>3. QED
    <3>1. Len(Frames(a, s)) = Len(u \o v) /\ 1..(m + 1) = 1..Len(Frames(a, s))
      BY <1>5, <2>1
    <3>2. Frames(a, s) = u \o v
      BY <1>5, <2>1, <2>2, <3>1, SeqEqual
    <3>3. QED
      BY <3>2 DEF v
<1>10. FlattenSeq(u) = f
  <2>1. <<>> \in Seq(Seq(Chunk)) /\ Len(<<>>) = 0
    BY EmptySeq
  <2>2. u = Append(<<>>, f)
    <3>1. Append(<<>>, f) = <<>> \o <<f>>
      BY <1>4, <2>1, AppendIsConcat
    <3>2. <<>> \o u = u
      BY <1>8, ConcatEmptySeq
    <3>3. QED
      BY <3>1, <3>2 DEF u
  <2>3. FlattenSeq(u) = FlattenSeq(<<>>) \o f
    BY <1>4, <2>1, <2>2, FlattenAppend DEF f
  <2>4. FlattenSeq(<<>>) = <<>>
    BY <2>1 DEF FlattenSeq
  <2>5. <<>> \o f = f
    BY <1>4, ConcatEmptySeq DEF f
  <2>6. QED
    BY <2>3, <2>4, <2>5
<1>11. FlattenSeq(u \o Frames(a + 1, t)) = FlattenSeq(u) \o FlattenSeq(Frames(a + 1, t))
  BY <1>5, <1>8, FlattenConcat
<1>12. Ins(a, s) = f \o Ins(a + 1, t)
  BY <1>9, <1>10, <1>11 DEF Ins
<1>13. QED
  BY <1>12 DEF f, t

\* The answers to the first messages come first.
LEMMA OutsConcat ==
  ASSUME NEW s \in Seq(Nat), NEW t \in Seq(Nat)
  PROVE  \E u \in Seq(Chunk) : Outs(s \o t) = Outs(s) \o u
<1>1. PICK m \in Nat, n \in Nat : m = Len(s) /\ n = Len(t)
  BY LenProperties
<1>2. /\ s \o t \in Seq(Nat) /\ Len(s \o t) = m + n
      /\ \A i \in 1..(m + n) : (s \o t)[i] = IF i <= m THEN s[i] ELSE t[i - m]
  BY <1>1, ConcatProperties
<1> DEFINE x == Answers(0, s)
           y == Answers(m, t)
           z == Answers(0, s \o t)
<1>3. /\ x \in Seq(Seq(Chunk)) /\ Len(x) = m /\ y \in Seq(Seq(Chunk)) /\ Len(y) = n
      /\ z \in Seq(Seq(Chunk)) /\ Len(z) = m + n
  <2>1. x \in Seq(Seq(Chunk)) /\ Len(x) = m
    BY <1>1, FramesType
  <2>2. y \in Seq(Seq(Chunk)) /\ Len(y) = n
    BY <1>1, FramesType
  <2>3. z \in Seq(Seq(Chunk)) /\ Len(z) = m + n
    BY <1>2, FramesType
  <2>4. QED
    BY <2>1, <2>2, <2>3
<1>4. /\ x \o y \in Seq(Seq(Chunk)) /\ Len(x \o y) = m + n
      /\ \A i \in 1..(m + n) : (x \o y)[i] = IF i <= m THEN x[i] ELSE y[i - m]
  <2> HIDE DEF x, y
  <2>1. QED
    BY <1>3, ConcatProperties
<1>5. ASSUME NEW i \in 1..(m + n) PROVE z[i] = (x \o y)[i]
  <2>1. z[i] = Answer(0 + i, (s \o t)[i])
    BY <1>2 DEF Answers
  <2>2. CASE i <= m
    <3>1. i \in 1..m /\ x[i] = Answer(0 + i, s[i])
      BY <1>1, <2>2 DEF Answers
    <3>2. QED
      BY <1>2, <1>4, <2>1, <2>2, <3>1
  <2>3. CASE ~(i <= m)
    <3>1. i - m \in 1..n /\ m + (i - m) = 0 + i
      BY <2>3
    <3>2. y[i - m] = Answer(m + (i - m), t[i - m])
      BY <1>1, <3>1 DEF Answers
    <3>3. QED
      BY <1>2, <1>4, <2>1, <2>3, <3>1, <3>2
  <2>4. QED
    BY <2>2, <2>3
<1>6. z = x \o y
  <2> HIDE DEF x, y, z
  <2>1. QED
    BY <1>3, <1>4, <1>5, SeqEqual
<1>7. FlattenSeq(x \o y) = FlattenSeq(x) \o FlattenSeq(y) /\ FlattenSeq(y) \in Seq(Chunk)
  <2> HIDE DEF x, y
  <2>1. QED
    BY <1>3, FlattenConcat, FlattenType
<1>8. QED
  BY <1>6, <1>7 DEF Outs

-----------------------------------------------------------------------------
\* One connection: of the messages s, those before "left" are answered, up to
\* what is still in tx; those of "left" are on their way or in rx.  Only the
\* last of them is not empty, for its answer is awaited.
Unsent(c) == SubSeq(c.tx, c.tx_sent + 1, Len(c.tx))

Between(c, w, g, done, left) ==
  /\ done \in Seq(Nat) /\ left \in Seq(Nat)
  /\ c.rx \o w = Ins(Len(done), left)
  /\ g \o Unsent(c) = Outs(done)
  /\ \A i \in 1..Len(left) : i # Len(left) => left[i] = 0
  /\ Unsent(c) # <<>> => left = <<>> /\ done # <<>> /\ done[Len(done)] # 0

Flow(c, w, g, s) ==
  \E done, left \in Seq(Nat) : s = done \o left /\ Between(c, w, g, done, left)

LEMMA ChunksAssoc ==
  \A a, b, c \in Seq(Chunk) : (a \o b) \o c = a \o (b \o c)
BY ConcatAssociative

LEMMA SizesAssoc ==
  \A a, b, c \in Seq(Nat) : (a \o b) \o c = a \o (b \o c)
BY ConcatAssociative

LEMMA CutChunks ==
  \A w \in Seq(Chunk) : \A n \in 0..Len(w) :
    \E a, b \in Seq(Chunk) : a = SubSeq(w, 1, n) /\ b = SubSeq(w, n + 1, Len(w)) /\ a \o b = w
<1> SUFFICES ASSUME NEW w \in Seq(Chunk), NEW n \in 0..Len(w)
             PROVE  \E a, b \in Seq(Chunk) :
                      a = SubSeq(w, 1, n) /\ b = SubSeq(w, n + 1, Len(w)) /\ a \o b = w
  OBVIOUS
<1> DEFINE x == SubSeq(w, 1, n)
           y == SubSeq(w, n + 1, Len(w))
<1>1. x \in Seq(Chunk) /\ y \in Seq(Chunk) /\ x \o y = w
  BY Cut
<1>2. QED
  BY <1>1

LEMMA AppendEnds ==
  ASSUME NEW s \in Seq(Nat), NEW n \in Nat
  PROVE  Append(s, n) # <<>> /\ Append(s, n)[Len(Append(s, n))] = n
<1>1. Append(s, n) # <<>> /\ Len(Append(s, n)) = Len(s) + 1
  OBVIOUS
<1>2. Append(s, n)[Len(s) + 1] = n
  OBVIOUS
<1>3. QED
  BY <1>1, <1>2

\* A message more at the end of a list.
LEMMA AppendLast ==
  \A a, b \in Seq(Nat), n \in Nat : Append(a \o b, n) = a \o Append(b, n)
<1> TAKE a \in Seq(Nat), b \in Seq(Nat), n \in Nat
<1>1. <<n>> \in Seq(Nat)
  OBVIOUS
<1>2. a \o b \in Seq(Nat)
  BY ConcatProperties
<1>3. Append(a \o b, n) = (a \o b) \o <<n>> /\ Append(b, n) = b \o <<n>>
  BY <1>2, AppendIsConcat
<1>4. QED
  BY <1>1, <1>3, SizesAssoc

LEMMA UnsentType ==
  ASSUME NEW c, Sound(c)
  PROVE  Unsent(c) \in Seq(Chunk) /\ c.rx \in Seq(Chunk) /\ c.tx \in Seq(Chunk)
<1>1. c.rx \in Seq(Chunk) /\ c.tx \in Seq(Chunk) /\ c.tx_sent \in 0..Len(c.tx)
  BY LenProperties DEF Sound, Connection
<1>2. Unsent(c) \in Seq(Chunk)
  <2> DEFINE t == c.tx
             k == c.tx_sent
  <2>1. t \in Seq(Chunk) /\ k \in 0..Len(t)
    BY <1>1
  <2> HIDE DEF t, k
  <2>2. SubSeq(t, k + 1, Len(t)) \in Seq(Chunk)
    BY <2>1, Cut
  <2>3. QED
    BY <2>2 DEF Unsent, t, k
<1>3. QED
  BY <1>1, <1>2

LEMMA FlowPrefix ==
  ASSUME NEW c, Sound(c), NEW w \in Seq(Chunk), NEW g \in Seq(Chunk), NEW s, Flow(c, w, g, s)
  PROVE  IsPrefix(g, Outs(s))
<1>1. PICK done \in Seq(Nat), left \in Seq(Nat) : s = done \o left /\ Between(c, w, g, done, left)
  BY DEF Flow
<1>2. PICK r \in Seq(Chunk) : r = Unsent(c)
  BY UnsentType
<1>3. PICK u \in Seq(Chunk) : Outs(s) = Outs(done) \o u
  BY <1>1, OutsConcat
<1>4. Outs(s) = (g \o r) \o u
  BY <1>1, <1>2, <1>3 DEF Between
<1>5. (g \o r) \o u = g \o (r \o u) /\ r \o u \in Seq(Chunk)
  <2>1. (g \o r) \o u = g \o (r \o u)
    BY ONLY g \in Seq(Chunk), r \in Seq(Chunk), u \in Seq(Chunk), ChunksAssoc
  <2>2. r \o u \in Seq(Chunk)
    BY ONLY r \in Seq(Chunk), u \in Seq(Chunk), ConcatProperties
  <2>3. QED
    BY <2>1, <2>2
<1>6. IsPrefix(g, g \o (r \o u))
  BY <1>5, PrefixOfConcat
<1>7. QED
  BY <1>4, <1>5, <1>6

\* Nothing has been said yet.
LEMMA FlowStart == Flow(NoConn, <<>>, <<>>, <<>>)
<1>1. <<>> \in Seq(Nat) /\ Len(<<>>) = 0 /\ <<>> \in Seq(Chunk)
  BY EmptySeq
<1>2. Unsent(NoConn) = <<>>
  BY <1>1, SubSeqEmpty DEF Unsent, NoConn
<1>3. NoConn.rx = <<>>
  BY DEF NoConn
<1>4. <<>> \o <<>> = <<>>
  BY <1>1, ConcatEmptySeq
<1>5. Ins(0, <<>>) = <<>> /\ Outs(<<>>) = <<>>
  BY NothingIn
<1>6. Between(NoConn, <<>>, <<>>, <<>>, <<>>)
  BY <1>1, <1>2, <1>3, <1>4, <1>5 DEF Between
<1>7. QED
  BY <1>1, <1>4, <1>6 DEF Flow

\* handle_read moves chunks from the wire into rx.
LEMMA FlowRead ==
  ASSUME NEW c, Sound(c), NEW w \in Seq(Chunk), NEW g \in Seq(Chunk), NEW s, Flow(c, w, g, s),
         NEW n \in 0..Len(w), NEW d, d = [c EXCEPT !.rx = @ \o SubSeq(w, 1, n)]
  PROVE  Flow(d, SubSeq(w, n + 1, Len(w)), g, s)
<1>1. PICK done \in Seq(Nat), left \in Seq(Nat) : s = done \o left /\ Between(c, w, g, done, left)
  BY DEF Flow
<1>2. PICK a \in Seq(Chunk), b \in Seq(Chunk) : /\ a = SubSeq(w, 1, n)
                                                /\ b = SubSeq(w, n + 1, Len(w))
                                                /\ a \o b = w
  BY CutChunks
<1>3. c \in Connection /\ c.rx \in Seq(Chunk)
  BY DEF Sound, Connection
<1>4. d.rx = c.rx \o a /\ d.tx = c.tx /\ d.tx_sent = c.tx_sent
  BY <1>2, <1>3 DEF Connection
<1>5. (c.rx \o a) \o b = c.rx \o w
  <2>1. PICK x \in Seq(Chunk) : x = c.rx
    BY <1>3
  <2>2. (x \o a) \o b = x \o (a \o b)
    BY ChunksAssoc
  <2>3. QED
    BY <1>2, <2>1, <2>2
<1>6. Unsent(d) = Unsent(c)
  BY <1>4 DEF Unsent
<1>7. Between(d, b, g, done, left)
  BY <1>1, <1>4, <1>5, <1>6 DEF Between
<1>8. QED
  BY <1>1, <1>2, <1>7 DEF Flow

\* handle_write moves chunks from tx to the peer.
LEMMA FlowWrite ==
  ASSUME NEW c, Sound(c), NEW w \in Seq(Chunk), NEW g \in Seq(Chunk), NEW s, Flow(c, w, g, s),
         NEW n \in 1..(Len(c.tx) - c.tx_sent), NEW d, d = [c EXCEPT !.tx_sent = @ + n]
  PROVE  Flow(d, w, g \o SubSeq(c.tx, c.tx_sent + 1, c.tx_sent + n), s)
<1>1. PICK done \in Seq(Nat), left \in Seq(Nat) : s = done \o left /\ Between(c, w, g, done, left)
  BY DEF Flow
<1>2. PICK t \in Seq(Chunk), k \in Nat, m \in Nat : t = c.tx /\ k = c.tx_sent /\ m = Len(t)
  BY LenProperties DEF Sound, Connection
<1>3. k <= m /\ n \in 1..(m - k)
  BY <1>2 DEF Sound
<1>4. d.rx = c.rx /\ d.tx = t /\ d.tx_sent = k + n
  BY <1>2 DEF Sound, Connection
<1>5. \A i \in 1..m : t[i] \in Chunk
  BY <1>2, ElementOfSeq
<1>6. PICK a \in Seq(Chunk) : a = SubSeq(t, k + 1, k + n)
  <2>1. ASSUME NEW i \in (k + 1)..(k + n) PROVE t[i] \in Chunk
    <3>1. i \in 1..m
      BY <1>3
    <3>2. QED
      BY <1>5, <3>1
  <2>2. k + 1 \in Int /\ k + n \in Int
    OBVIOUS
  <2>3. QED
    BY <2>1, <2>2, SubSeqProperties
<1>7. PICK b \in Seq(Chunk) : b = SubSeq(t, k + n + 1, m)
  <2>1. ASSUME NEW i \in (k + n + 1)..m PROVE t[i] \in Chunk
    <3>1. i \in 1..m
      BY <1>3
    <3>2. QED
      BY <1>5, <3>1
  <2>2. k + n + 1 \in Int /\ m \in Int
    OBVIOUS
  <2>3. QED
    BY <2>1, <2>2, SubSeqProperties
<1>8. a \o b = SubSeq(t, k + 1, m)
  <2>1. PICK p \in Nat, r \in Nat : p = k + 1 /\ r = k + n
    BY <1>3
  <2>2. p \in 1..(m + 1) /\ r \in p - 1 .. m /\ m \in r..m
    <3>1. n \in 1..m /\ n <= m - k
      BY <1>3
    <3>2. QED
      BY ONLY k \in Nat, m \in Nat, p \in Nat, r \in Nat, <2>1, <3>1
  <2>3. p \in 1..(Len(t) + 1) /\ r \in p - 1 .. Len(t) /\ Len(t) \in r..Len(t)
    BY <1>2, <2>2
  <2>4. SubSeq(t, p, r) \o SubSeq(t, r + 1, Len(t)) = SubSeq(t, p, Len(t))
    BY ONLY t \in Seq(Chunk), <2>3, ConcatAdjacentSubSeq
  <2>5. QED
    BY ONLY <1>2, <1>6, <1>7, <2>1, <2>4
<1>9. Unsent(d) = b /\ Unsent(c) = a \o b
  <2>1. Unsent(d) = SubSeq(d.tx, d.tx_sent + 1, Len(d.tx))
        /\ Unsent(c) = SubSeq(c.tx, c.tx_sent + 1, Len(c.tx))
    BY DEF Unsent
  <2>2. QED
    BY ONLY <1>2, <1>4, <1>7, <1>8, <2>1
<1>10. (g \o a) \o b = g \o (a \o b)
  BY ONLY g \in Seq(Chunk), a \in Seq(Chunk), b \in Seq(Chunk), ChunksAssoc, Zenon
<1>11. b # <<>> => a \o b # <<>>
  BY ConcatEqualIffEmpty
<1>12. Between(d, w, g \o a, done, left)
  BY <1>1, <1>4, <1>9, <1>10, <1>11 DEF Between
<1>13. Flow(d, w, g \o a, s)
  BY <1>1, <1>12 DEF Flow
<1>14. QED
  BY <1>2, <1>6, <1>13

\* The peer sends a frame while it waits for no answer.
LEMMA FlowSend ==
  ASSUME NEW c, Sound(c), NEW w \in Seq(Chunk), NEW g \in Seq(Chunk), NEW s \in Seq(Nat),
         Flow(c, w, g, s), NEW n \in Nat,
         s # <<>> /\ s[Len(s)] # 0 => Len(g) >= Len(Outs(s))
  PROVE  Flow(c, w \o Frame(Len(s) + 1, n), g, Append(s, n))
<1>1. PICK done \in Seq(Nat), left \in Seq(Nat) : s = done \o left /\ Between(c, w, g, done, left)
  BY DEF Flow
<1>2. PICK r \in Seq(Chunk), x \in Seq(Chunk) : r = Unsent(c) /\ x = c.rx
  BY UnsentType
<1>3. PICK k \in Nat, j \in Nat : k = Len(done) /\ j = Len(left) /\ Len(s) = k + j
  <2>1. Len(done) \in Nat /\ Len(left) \in Nat /\ Len(s) = Len(done) + Len(left)
    BY <1>1, LenProperties, ConcatProperties
  <2>2. QED
    BY <2>1
<1>4. /\ x \o w = Ins(k, left) /\ g \o r = Outs(done)
      /\ \A i \in 1..j : i # j => left[i] = 0
      /\ r # <<>> => left = <<>> /\ done # <<>> /\ done[k] # 0
  BY <1>1, <1>2, <1>3 DEF Between
<1>5. PICK lg \in Nat, lr \in Nat : lg = Len(g) /\ lr = Len(r) /\ Len(Outs(done)) = lg + lr
  <2>1. Len(g) \in Nat /\ Len(r) \in Nat /\ Len(g \o r) = Len(g) + Len(r)
    BY LenProperties, ConcatProperties
  <2>2. QED
    BY <1>4, <2>1
<1>6. r = <<>>
  <2>1. SUFFICES ASSUME r # <<>> PROVE FALSE
    OBVIOUS
  <2>2. left = <<>> /\ done # <<>> /\ done[k] # 0
    BY <1>4, <2>1
  <2>3. s = done
    BY <1>1, <2>2, ConcatEmptySeq
  <2>4. lr # 0
    BY <1>5, <2>1, EmptySeq
  <2>5. lg >= lg + lr
    BY <1>3, <1>5, <2>2, <2>3
  <2>6. QED
    BY <2>4, <2>5
<1>7. \A i \in 1..j : left[i] = 0
  <2>1. SUFFICES ASSUME NEW i \in 1..j, left[i] # 0 PROVE FALSE
    OBVIOUS
  <2>2. i = j /\ left # <<>>
    BY <1>3, <1>4, <2>1, EmptySeq
  <2>3. PICK l \in Seq(Nat), e \in Nat : left = Append(l, e)
    BY <2>2, SequenceEmptyOrAppend
  <2>4. Len(l) \in Nat /\ j = Len(l) + 1 /\ left[j] = e
    BY <1>3, <2>3, AppendProperties, LenProperties
  <2>5. e # 0
    BY <2>1, <2>2, <2>4
  <2>6. /\ done \o l \in Seq(Nat) /\ s = Append(done \o l, e)
    <3>1. done \o l \in Seq(Nat)
      BY ConcatProperties
    <3>2. Append(done \o l, e) = done \o Append(l, e)
      BY ONLY done \in Seq(Nat), l \in Seq(Nat), e \in Nat, AppendLast, Zenon
    <3>3. QED
      BY <1>1, <2>3, <3>1, <3>2
  <2>7. PICK u \in Seq(Chunk) : Outs(done \o l) = Outs(done) \o u
    BY OutsConcat
  <2> DEFINE v == Answer(Len(done \o l) + 1, e)
  <2>8. v \in Seq(Chunk) /\ v # <<>>
    <3>1. Len(done \o l) + 1 \in Nat
      BY <2>6, LenProperties
    <3>2. QED
      BY <2>5, <3>1, AnswerIs
  <2>9. Outs(s) = Outs(done \o l) \o v
    BY <2>6, InsAppend
  <2> HIDE DEF v
  <2>10. Outs(done) \in Seq(Chunk) /\ Outs(done \o l) \in Seq(Chunk)
    BY <2>6, InsType
  <2>11. /\ Len(Outs(done \o l)) = Len(Outs(done)) + Len(u)
         /\ Len(Outs(s)) = Len(Outs(done \o l)) + Len(v)
         /\ Len(u) \in Nat /\ Len(v) \in Nat \ {0}
    <3>1. Len(Outs(done) \o u) = Len(Outs(done)) + Len(u)
      BY <2>10, ConcatProperties
    <3>2. Len(Outs(done \o l) \o v) = Len(Outs(done \o l)) + Len(v)
      BY <2>8, <2>10, ConcatProperties
    <3>3. Len(u) \in Nat /\ Len(v) \in Nat \ {0}
      BY <2>8, LenProperties, EmptySeq
    <3>4. QED
      BY <2>7, <2>9, <3>1, <3>2, <3>3
  <2>12. s # <<>> /\ s[Len(s)] = e
    <3>1. PICK z \in Seq(Nat) : s = Append(z, e)
      BY <2>6
    <3>2. Append(z, e) # <<>> /\ Append(z, e)[Len(Append(z, e))] = e
      BY AppendEnds
    <3>3. QED
      BY <3>1, <3>2
  <2>13. lg >= Len(Outs(s))
    BY <1>5, <2>5, <2>12
  <2>14. QED
    BY <1>5, <2>11, <2>13
<1> DEFINE f == Frame(Len(s) + 1, n)
           more == Append(left, n)
<1>8. f \in Seq(Chunk) /\ f = Frame(k + j + 1, n)
  <2>1. k + j + 1 \in Nat
    OBVIOUS
  <2>2. QED
    BY <1>3, <2>1, FrameIs
<1>9. /\ more \in Seq(Nat) /\ Len(more) = j + 1
      /\ \A i \in 1..j : more[i] = left[i]
  BY <1>3, AppendProperties
<1>10. Ins(k, more) = Ins(k, left) \o f
  <2>1. Ins(k, Append(left, n)) = Ins(k, left) \o Frame(k + Len(left) + 1, n)
    BY InsAppend
  <2>2. QED
    BY <1>3, <1>8, <2>1
<1>11. Append(s, n) = done \o more
  <2>1. Append(done \o left, n) = done \o Append(left, n)
    BY AppendLast
  <2>2. QED
    BY <1>1, <2>1
<1> HIDE DEF f, more
<1>12. x \o (w \o f) = Ins(k, more)
  <2>1. x \o (w \o f) = (x \o w) \o f
    BY ONLY x \in Seq(Chunk), w \in Seq(Chunk), <1>8, ChunksAssoc
  <2>2. QED
    BY <1>4, <1>10, <2>1
<1>13. \A i \in 1..Len(more) : i # Len(more) => more[i] = 0
  <2> SUFFICES ASSUME NEW i \in 1..Len(more), i # Len(more) PROVE more[i] = 0
    OBVIOUS
  <2>1. i \in 1..j
    BY <1>9
  <2>2. QED
    BY <1>7, <1>9, <2>1
<1>14. Between(c, w \o f, g, done, more)
  BY <1>2, <1>3, <1>4, <1>6, <1>9, <1>12, <1>13 DEF Between
<1>15. Flow(c, w \o f, g, done \o more)
  BY <1>9, <1>14 DEF Flow
<1>16. QED
  BY <1>11, <1>15 DEF f

\* What has arrived belongs to the frame of the first message that is left.
LEMMA FirstFrame ==
  ASSUME NEW k \in Nat, NEW left \in Seq(Nat), NEW x \in Seq(Chunk), NEW w \in Seq(Chunk),
         x \o w = Ins(k, left), Len(x) >= PrefixLen
  PROVE  /\ left # <<>> /\ Decode(x) = left[1]
         /\ Len(x) = PrefixLen + left[1] => x = Frame(k + 1, left[1]) /\ w = Ins(k + 1, Tail(left))
<1>1. PrefixLen \in Nat \ {0} /\ Len(x) \in Nat /\ Len(w) \in Nat
  BY EchoServerAssumption, LenProperties
<1>2. left # <<>>
  <2>1. SUFFICES ASSUME left = <<>> PROVE FALSE
    OBVIOUS
  <2>2. x \o w = <<>>
    BY <2>1, NothingIn
  <2>3. x = <<>>
    BY <2>2, ConcatEqualIffEmpty
  <2>4. QED
    BY <1>1, <2>3, EmptySeq
<1>3. PICK n \in Nat, t \in Seq(Nat) : n = left[1] /\ t = Tail(left)
  <2>1. 1 \in 1..Len(left) /\ Tail(left) \in Seq(Nat)
    BY <1>2, EmptySeq, HeadTailProperties
  <2>2. left[1] \in Nat
    BY <2>1, ElementOfSeq
  <2>3. QED
    BY <2>1, <2>2
<1>4. PICK f \in Seq(Chunk) : f = Frame(k + 1, n) /\ Len(f) = PrefixLen + n /\ Decode(f) = n
  <2>1. k + 1 \in Nat
    OBVIOUS
  <2>2. QED
    BY <2>1, FrameIs
<1>5. PICK r \in Seq(Chunk) : r = Ins(k + 1, t)
  <2>1. k + 1 \in Nat
    OBVIOUS
  <2>2. QED
    BY <2>1, InsType
<1>6. x \o w = f \o r
  BY <1>2, <1>3, <1>4, <1>5, InsFirst
<1>7. x[1] = f[1]
  <2>1. Len(f) \in Nat /\ Len(r) \in Nat
    BY LenProperties
  <2>2. (x \o w)[1] = x[1]
    <3>1. 1 \in 1..(Len(x) + Len(w)) /\ 1 <= Len(x)
      BY <1>1
    <3>2. QED
      BY <3>1, ConcatProperties
  <2>3. (f \o r)[1] = f[1]
    <3>1. 1 \in 1..(Len(f) + Len(r)) /\ 1 <= Len(f)
      BY <1>1, <1>4, <2>1
    <3>2. QED
      BY <3>1, ConcatProperties
  <2>4. QED
    BY <1>6, <2>2, <2>3
<1>8. Decode(x) = n
  BY <1>4, <1>7 DEF Decode
<1>9. ASSUME Len(x) = PrefixLen + n PROVE x = f /\ w = r
  <2>1. Len(x) = Len(f)
    BY <1>4, <1>9
  <2>2. QED
    BY <1>6, <2>1, ConcatCancel
<1>10. QED
  BY <1>2, <1>3, <1>4, <1>5, <1>8, <1>9

\* It goes over to those that are done.
LEMMA FirstDone ==
  ASSUME NEW done \in Seq(Nat), NEW left \in Seq(Nat), left # <<>>
  PROVE  /\ Append(done, left[1]) \in Seq(Nat) /\ Tail(left) \in Seq(Nat) /\ left[1] \in Nat
         /\ Append(done, left[1]) \o Tail(left) = done \o left
<1>1. PICK n \in Nat, t \in Seq(Nat) : n = left[1] /\ t = Tail(left)
  <2>1. 1 \in 1..Len(left) /\ Tail(left) \in Seq(Nat)
    BY EmptySeq, HeadTailProperties
  <2>2. left[1] \in Nat
    BY <2>1, ElementOfSeq
  <2>3. QED
    BY <2>1, <2>2
<1>2. left = <<n>> \o t
  <2>1. PICK m \in Nat \ {0} : m = Len(left)
    BY EmptySeq
  <2>2. 1 \in 1..m /\ m \in 1..m
    OBVIOUS
  <2>3. SubSeq(left, 1, m) = <<left[1]>> \o SubSeq(left, 1 + 1, m)
    BY <2>1, <2>2, SubSeqRecursiveFirst
  <2>4. SubSeq(left, 1, m) = left
    BY <2>1, SubSeqFull
  <2>5. t = SubSeq(left, 2, m)
    BY <1>1, <2>1, TailIsSubSeq
  <2>6. QED
    BY <1>1, <2>3, <2>4, <2>5
<1>3. <<n>> \in Seq(Nat) /\ Append(done, n) = done \o <<n>> /\ Append(done, n) \in Seq(Nat)
  BY AppendIsConcat, AppendProperties
<1>4. (done \o <<n>>) \o t = done \o (<<n>> \o t)
  BY <1>3, SizesAssoc
<1>5. QED
  BY <1>1, <1>2, <1>3, <1>4

\* echo_conn_func takes a whole frame out of rx and puts its answer into tx; an
\* empty message has none.
LEMMA FlowEcho ==
  ASSUME NEW c, Sound(c), NEW w \in Seq(Chunk), NEW g \in Seq(Chunk), NEW s, Flow(c, w, g, s)
  PROVE  Flow(echo_conn_func(c), w, g, s)
<1>1. PICK done \in Seq(Nat), left \in Seq(Nat) : s = done \o left /\ Between(c, w, g, done, left)
  BY DEF Flow
<1>2. PICK x \in Seq(Chunk), r \in Seq(Chunk), k \in Nat : x = c.rx /\ r = Unsent(c) /\ k = Len(done)
  BY UnsentType, LenProperties
<1>3. /\ x \o w = Ins(k, left) /\ g \o r = Outs(done)
      /\ \A i \in 1..Len(left) : i # Len(left) => left[i] = 0
      /\ r # <<>> => left = <<>>
  BY <1>1, <1>2 DEF Between
<1>4. /\ c \in Connection /\ PrefixLen \in Nat \ {0} /\ Len(x) \in Nat
      /\ Len(c.tx) \in Nat /\ Len(<<>>) = 0 /\ <<>> \in Seq(Chunk)
  BY <1>2, EchoServerAssumption, LenProperties, EmptySeq DEF Sound, Connection
<1>5. ASSUME NEW d, d.rx = x, Unsent(d) = r PROVE Flow(d, w, g, s)
  <2>1. Between(d, w, g, done, left)
    BY <1>1, <1>2, <1>5 DEF Between
  <2>2. QED
    BY <1>1, <2>1 DEF Flow
<1>6. CASE IsNew(c)
  <2>1. echo_conn_func(c) = [c EXCEPT !.rx_cap = PrefixLen]
    BY <1>6 DEF echo_conn_func, Replies
  <2>2. PICK d : d = echo_conn_func(c)
    OBVIOUS
  <2>3. d.rx = x /\ d.tx = c.tx /\ d.tx_sent = c.tx_sent
    BY <1>2, <1>4, <2>1, <2>2 DEF Connection
  <2>4. Unsent(d) = r
    BY <1>2, <2>3 DEF Unsent
  <2>5. QED
    BY <1>5, <2>2, <2>3, <2>4
<1>7. CASE ~IsNew(c) /\ IsSent(c)
  <2>1. echo_conn_func(c) = [c EXCEPT !.tx = <<>>, !.tx_sent = 0]
    BY <1>7 DEF echo_conn_func, Replies
  <2>2. PICK d : d = echo_conn_func(c)
    OBVIOUS
  <2>3. d.rx = x /\ d.tx = <<>> /\ d.tx_sent = 0
    BY <1>2, <1>4, <2>1, <2>2 DEF Connection
  <2>4. Unsent(d) = <<>>
    BY <1>4, <2>3, SubSeqEmpty DEF Unsent
  <2>5. r = <<>>
    <3>1. c.tx_sent = Len(c.tx)
      BY <1>7 DEF IsSent
    <3>2. SubSeq(c.tx, Len(c.tx) + 1, Len(c.tx)) = <<>>
      BY <1>4, SubSeqEmpty
    <3>3. QED
      BY <1>2, <3>1, <3>2 DEF Unsent
  <2>6. QED
    BY <1>5, <2>2, <2>3, <2>4, <2>5
\* The first message that is left is done.
<1>8. ASSUME NEW n, n = left[1], left # <<>>, Len(x) = PrefixLen + n, Len(x) >= PrefixLen,
             NEW d, d.rx = <<>>, Unsent(d) = Answer(k + 1, n), n # 0 => Len(left) = 1
      PROVE  Flow(d, w, g, s)
  <2>1. x = Frame(k + 1, n) /\ w = Ins(k + 1, Tail(left))
    BY <1>3, <1>8, FirstFrame
  <2>2. PICK did \in Seq(Nat), rest \in Seq(Nat) :
           did = Append(done, n) /\ rest = Tail(left) /\ s = did \o rest /\ n \in Nat
    BY <1>1, <1>8, FirstDone
  <2>3. Len(did) = k + 1 /\ did # <<>> /\ did[k + 1] = n
    <3>1. Append(done, n) # <<>> /\ Append(done, n)[Len(Append(done, n))] = n
      BY <2>2, AppendEnds
    <3>2. Len(Append(done, n)) = Len(done) + 1
      BY <2>2, AppendProperties
    <3>3. QED
      BY <1>2, <2>2, <3>1, <3>2
  <2>4. /\ Len(left) \in Nat \ {0} /\ Len(rest) = Len(left) - 1
        /\ \A i \in 1..Len(rest) : rest[i] = left[i + 1]
    BY <1>8, <2>2, EmptySeq, HeadTailProperties
  <2>5. d.rx \o w = Ins(k + 1, rest)
    BY <1>8, <2>1, <2>2, ConcatEmptySeq
  <2>6. r = <<>>
    BY <1>3, <1>8
  <2>7. g \o Unsent(d) = Outs(did)
    <3>1. Outs(did) = Outs(done) \o Answer(k + 1, n)
      BY <1>2, <2>2, InsAppend
    <3>2. g \o r = g
      BY <2>6, ConcatEmptySeq
    <3>3. QED
      BY <1>3, <1>8, <3>1, <3>2
  <2>8. ASSUME NEW i \in 1..Len(rest), i # Len(rest) PROVE rest[i] = 0
    <3>1. i + 1 \in 1..Len(left) /\ i + 1 # Len(left)
      BY <2>4, <2>8
    <3>2. QED
      BY <1>3, <2>4, <3>1
  <2>9. ASSUME Unsent(d) # <<>> PROVE rest = <<>> /\ n # 0
    <3>1. n # 0
      BY <1>8, <2>9 DEF Answer
    <3>2. Len(rest) = 0
      BY <1>8, <2>4, <3>1
    <3>3. QED
      BY <3>1, <3>2, EmptySeq
  <2>10. Between(d, w, g, did, rest)
    BY <2>3, <2>5, <2>7, <2>8, <2>9 DEF Between
  <2>11. QED
    BY <2>2, <2>10 DEF Flow
<1>9. CASE Replies(c)
  <2>1. echo_conn_func(c) =
          [c EXCEPT !.tx = Reply(c.rx), !.tx_sent = 0, !.rx = <<>>, !.rx_cap = PrefixLen]
    BY <1>9 DEF echo_conn_func, Replies
  <2>2. PICK d : d = echo_conn_func(c)
    OBVIOUS
  <2>3. d.rx = <<>> /\ d.tx = Reply(x) /\ d.tx_sent = 0
    BY <1>2, <1>4, <2>1, <2>2 DEF Connection
  <2>4. Len(x) >= PrefixLen /\ Len(x) = PrefixLen + Decode(x) /\ Len(x) # PrefixLen
    BY <1>2, <1>4, <1>9 DEF Sound, Replies, IsWhole, IsNew
  <2>5. left # <<>> /\ Decode(x) = left[1]
    BY <1>3, <2>4, FirstFrame
  <2>6. PICK n \in Nat : n = left[1]
    BY <2>5, FirstDone
  <2>7. n # 0 /\ Len(x) = PrefixLen + n
    BY <1>4, <2>4, <2>5, <2>6
  <2>8. x = Frame(k + 1, n)
    BY <1>3, <2>4, <2>6, <2>7, FirstFrame
  <2>9. Len(left) = 1
    <3>1. Len(left) \in Nat \ {0} /\ 1 \in 1..Len(left)
      BY <2>5, EmptySeq
    <3>2. QED
      BY <1>3, <2>6, <2>7, <3>1
  <2>10. Unsent(d) = Answer(k + 1, n)
    <3>1. PICK a \in Seq(Chunk) : a = Answer(k + 1, n)
      <4>1. k + 1 \in Nat
        OBVIOUS
      <4>2. QED
        BY <4>1, AnswerIs
    <3>2. a = Reply(x)
      BY <2>7, <2>8, <3>1 DEF Answer
    <3>3. SubSeq(a, 0 + 1, Len(a)) = a
      BY SubSeqFull
    <3>4. QED
      BY <2>3, <3>1, <3>2, <3>3 DEF Unsent
  <2>11. QED
    BY <1>8, <2>2, <2>3, <2>4, <2>5, <2>6, <2>7, <2>9, <2>10
<1>10. CASE ~IsNew(c) /\ ~IsSent(c) /\ IsWhole(c) /\ c.rx_cap = PrefixLen
  <2>1. echo_conn_func(c) = IF Decode(c.rx) = 0 THEN [c EXCEPT !.rx = <<>>]
                            ELSE [c EXCEPT !.rx_cap = PrefixLen + Decode(c.rx)]
    BY <1>10 DEF echo_conn_func, Replies
  <2>2. Len(x) = PrefixLen
    BY <1>2, <1>10 DEF IsWhole
  <2>3. left # <<>> /\ Decode(x) = left[1]
    <3>1. Len(x) >= PrefixLen
      BY <1>4, <2>2
    <3>2. QED
      BY <1>3, <3>1, FirstFrame
  <2>4. PICK d : d = echo_conn_func(c)
    OBVIOUS
  <2>5. d.tx = c.tx /\ d.tx_sent = c.tx_sent /\ Unsent(d) = r
    <3>1. d.tx = c.tx /\ d.tx_sent = c.tx_sent
      BY <1>4, <2>1, <2>4 DEF Connection
    <3>2. QED
      BY <1>2, <3>1 DEF Unsent
  <2>6. CASE Decode(x) = 0
    <3>1. d.rx = <<>>
      BY <1>2, <1>4, <2>1, <2>4, <2>6 DEF Connection
    <3>2. Unsent(d) = Answer(k + 1, 0)
      BY <1>3, <2>3, <2>5 DEF Answer
    <3>3. Len(x) = PrefixLen + 0 /\ Len(x) >= PrefixLen
      BY <1>4, <2>2
    <3>4. QED
      BY <1>8, <2>3, <2>4, <2>6, <3>1, <3>2, <3>3
  <2>7. CASE Decode(x) # 0
    <3>1. d.rx = x
      BY <1>2, <1>4, <2>1, <2>4, <2>7 DEF Connection
    <3>2. QED
      BY <1>5, <2>4, <2>5, <3>1
  <2>8. QED
    BY <2>6, <2>7
<1>11. CASE ~(IsNew(c) \/ IsSent(c) \/ IsWhole(c))
  <2>1. echo_conn_func(c) = c
    BY <1>11 DEF echo_conn_func, Replies
  <2>2. QED
    BY <2>1
<1>12. QED
  BY <1>6, <1>7, <1>9, <1>10, <1>11 DEF Replies

-----------------------------------------------------------------------------
\* Every peer: whatever it did, what it has got is the beginning of what it must
\* get; while its connection is up nothing is lost on either way.
Listed(p) == \E i \in 1..Len(conns) : conns[i] = p

Served(p) ==
  /\ link[p] = "none" => sent[p] = <<>> /\ wire[p] = <<>> /\ got[p] = <<>>
  /\ link[p] \in {"none", "up"} /\ ~Listed(p) => conn[p] = NoConn
  /\ link[p] = "up" => Flow(conn[p], wire[p], got[p], sent[p])
  /\ IsPrefix(got[p], Outs(sent[p]))

Streams == got \in [Peers -> Seq(Chunk)] /\ \A p \in Peers : Served(p)

LEMMA ExpectedIs ==
  ASSUME Typed, NEW p \in Peers
  PROVE  /\ Expected(p) = Outs(sent[p])
         /\ Unanswered(p) = {} => \/ sent[p] = <<>>
                                  \/ sent[p][Len(sent[p])] = 0
                                  \/ Len(got[p]) >= Len(Outs(sent[p]))
<1> DEFINE all == [j \in 1..Len(sent[p]) |->
                     IF sent[p][j] = 0 THEN <<>> ELSE Reply(Frame(j, sent[p][j]))]
<1>1. PICK s \in Seq(Nat), m \in Nat : s = sent[p] /\ m = Len(s)
  BY LenProperties DEF Typed
<1>2. all = Answers(0, sent[p])
  <2>1. \A j \in 1..m : 0 + j = j
    OBVIOUS
  <2>2. QED
    BY <1>1, <2>1 DEF Answers, Answer
<1>3. Expected(p) = FlattenSeq(all)
  BY DEF Expected
<1>4. ASSUME Unanswered(p) = {}, s # <<>>, s[m] # 0 PROVE ~(Len(got[p]) < Len(FlattenSeq(all)))
  <2>1. m \in 1..m
    BY <1>1, <1>4, EmptySeq
  <2>2. m \notin Unanswered(p)
    BY <1>4
  <2>3. QED
    BY <1>1, <1>4, <2>1, <2>2 DEF Unanswered
<1> HIDE DEF all
<1>5. FlattenSeq(all) = Outs(sent[p])
  BY <1>2 DEF Outs
<1>6. QED
  BY <1>1, <1>3, <1>4, <1>5

\* The connection of p is as it was, or it is no longer of use to p.
Untouched(p) ==
  /\ got'[p] = got[p] /\ sent'[p] = sent[p]
  /\ \/ link'[p] \notin {"none", "up"}
     \/ /\ link'[p] = link[p] /\ wire'[p] = wire[p] /\ conn'[p] = conn[p]
        /\ Listed(p) => Listed(p)'

LEMMA UntouchedServed ==
  ASSUME NEW p \in Peers, Served(p), Untouched(p)
  PROVE  Served(p)'
BY DEF Served, Untouched

LEMMA NobodyTouched ==
  ASSUME Streams, got' = got, \A p \in Peers : Untouched(p)
  PROVE  Streams'
BY UntouchedServed DEF Streams

\* One connection does something, and what a peer got still begins what it must get.
LEMMA FlowServed ==
  ASSUME Typed', NEW p \in Peers, link'[p] = "up", got' \in [Peers -> Seq(Chunk)],
         ~Listed(p)' => conn'[p] = NoConn,
         Flow(conn'[p], wire'[p], got'[p], sent'[p])
  PROVE  Served(p)'
<1>1. Sound(conn'[p]) /\ wire'[p] \in Seq(Chunk) /\ got'[p] \in Seq(Chunk)
  BY DEF Typed
<1>2. PICK c, s : c = conn'[p] /\ s = sent'[p]
  OBVIOUS
<1>3. PICK w \in Seq(Chunk), g \in Seq(Chunk) : w = wire'[p] /\ g = got'[p]
  BY <1>1
<1>4. IsPrefix(g, Outs(s))
  BY <1>1, <1>2, <1>3, FlowPrefix
<1>5. QED
  BY <1>2, <1>3, <1>4 DEF Served

LEMMA InitStreams == Init => Streams
<1> SUFFICES ASSUME Init PROVE Streams
  OBVIOUS
<1>1. <<>> \in Seq(Chunk) /\ Len(<<>>) = 0
  BY EmptySeq
<1>2. got \in [Peers -> Seq(Chunk)]
  BY <1>1 DEF Init
<1>3. IsPrefix(<<>>, Outs(<<>>))
  <2>1. Outs(<<>>) = <<>>
    BY NothingIn
  <2>2. QED
    BY <2>1 DEF IsPrefix
<1>4. ASSUME NEW p \in Peers PROVE Served(p)
  BY <1>3 DEF Init, Served
<1>5. QED
  BY <1>2, <1>4 DEF Streams

\* What the peers do.
LEMMA OutsideStreams ==
  ASSUME Window <= 1, IInv, IInv', Streams, Outside
  PROVE  Streams'
<1>1. /\ link \in [Peers -> {"none", "up", "fin", "reset", "dropped", "gone"}]
      /\ sent \in [Peers -> Seq(Nat)] /\ wire \in [Peers -> Seq(Chunk)]
      /\ got \in [Peers -> Seq(Chunk)]
  BY DEF IInv, Typed, Streams
<1>2. ASSUME Stop PROVE Streams'
  <2>1. got' = got /\ \A p \in Peers : Untouched(p)
    BY <1>2 DEF Stop, ps, outside, Untouched, Listed
  <2>2. QED
    BY <2>1, NobodyTouched
<1>3. ASSUME NEW q \in Peers, Connect(q) PROVE Streams'
  <2>1. /\ link[q] = "none" /\ link' = [link EXCEPT ![q] = "up"]
        /\ UNCHANGED <<conns, conn, sent, wire, got>>
    BY <1>3 DEF Connect, ps
  <2>2. \A p \in Peers : p # q => Untouched(p)
    BY <1>1, <2>1 DEF Untouched, Listed
  <2>3. Served(q)'
    <3>1. Served(q)
      BY DEF Streams
    <3>2. ~Listed(q)
      BY <2>1 DEF IInv, Placed, Listed
    <3>3. conn[q] = NoConn /\ wire[q] = <<>> /\ got[q] = <<>> /\ sent[q] = <<>>
      BY <2>1, <3>1, <3>2 DEF Served
    <3>4. link'[q] = "up" /\ Flow(conn'[q], wire'[q], got'[q], sent'[q])
      BY <1>1, <2>1, <3>3, FlowStart
    <3>5. IsPrefix(got'[q], Outs(sent'[q]))
      BY <2>1, <3>1 DEF Served
    <3>6. QED
      BY <2>1, <3>3, <3>4, <3>5 DEF Served
  <2>4. QED
    BY <1>1, <2>1, <2>2, <2>3, UntouchedServed DEF Streams
<1>4. ASSUME NEW q \in Peers, Disconnect(q) \/ Reset(q) PROVE Streams'
  <2>1. /\ UNCHANGED <<conns, conn, sent, got>>
        /\ \E l \in {"fin", "reset"} : link' = [link EXCEPT ![q] = l]
        /\ wire' = wire \/ wire' = [wire EXCEPT ![q] = <<>>]
    BY <1>4 DEF Disconnect, Reset, ps
  <2>2. \A p \in Peers : Untouched(p)
    BY <1>1, <2>1 DEF Untouched, Listed
  <2>3. QED
    BY <2>1, <2>2, NobodyTouched
<1>5. ASSUME NEW q \in Peers, NEW n \in Sizes, SendFrame(q, n) PROVE Streams'
  <2>1. /\ UNCHANGED <<conns, conn, link, got>>
        /\ link[q] = "up" /\ Cardinality(Unanswered(q)) < Window
        /\ sent' = [sent EXCEPT ![q] = Append(@, n)]
        /\ wire' = [wire EXCEPT ![q] = @ \o Frame(Len(sent[q]) + 1, n)]
    BY <1>5 DEF SendFrame, ps
  <2>2. \A p \in Peers : p # q => Untouched(p)
    BY <1>1, <2>1 DEF Untouched, Listed
  <2>3. Unanswered(q) = {}
    <3>1. IsFiniteSet(Unanswered(q))
      <4>1. IsFiniteSet(1..Len(sent[q]))
        BY <1>1, LenProperties, FS_Interval
      <4>2. Unanswered(q) \subseteq 1..Len(sent[q])
        BY DEF Unanswered
      <4>3. QED
        BY <4>1, <4>2, FS_Subset
    <3>2. Cardinality(Unanswered(q)) \in Nat
      BY <3>1, FS_CardinalityType
    <3>3. Cardinality(Unanswered(q)) = 0
      BY <2>1, <3>2, EchoServerAssumption
    <3>4. QED
      BY <3>1, <3>3, FS_EmptySet
  <2>4. Served(q)'
    <3>1. Served(q) /\ Sound(conn[q]) /\ n \in Nat
      BY EchoServerAssumption DEF Streams, IInv, Typed
    <3>2. PICK c, w, g, s : c = conn[q] /\ w = wire[q] /\ g = got[q] /\ s = sent[q]
      OBVIOUS
    <3>a. w \in Seq(Chunk) /\ g \in Seq(Chunk) /\ s \in Seq(Nat)
      BY <1>1, <3>2
    <3>3. s = <<>> \/ s[Len(s)] = 0 \/ Len(g) >= Len(Outs(s))
      BY <2>3, <3>2, ExpectedIs DEF IInv
    <3>4. Flow(c, w, g, s)
      BY <2>1, <3>1, <3>2 DEF Served
    <3>5. Flow(c, w \o Frame(Len(s) + 1, n), g, Append(s, n))
      BY <3>1, <3>2, <3>a, <3>3, <3>4, FlowSend
    <3>6. Flow(conn'[q], wire'[q], got'[q], sent'[q]) /\ link'[q] = "up"
      BY <1>1, <2>1, <3>2, <3>5
    <3>7. ~Listed(q)' => conn'[q] = NoConn
      BY <2>1, <3>1 DEF Served, Listed
    <3>8. Typed' /\ got' \in [Peers -> Seq(Chunk)]
      BY <1>1, <2>1 DEF IInv
    <3>9. QED
      BY <3>6, <3>7, <3>8, FlowServed
  <2>5. QED
    BY <1>1, <2>1, <2>2, <2>4, UntouchedServed DEF Streams
<1>6. QED
  BY <1>2, <1>3, <1>4, <1>5 DEF Outside

\* pserv_execute_conns runs echo_conn_func of some of the listed connections.
LEMMA ExecuteStreams ==
  ASSUME IInv, IInv', Streams,
         ExecuteConns \/ \E j \in 1..Cardinality(Peers) : ExecuteConnsFails(j)
  PROVE  Streams'
<1>1. UNCHANGED <<conns, outside>>
  BY DEF ExecuteConns, ExecuteConnsFails
<1>2. PICK S : /\ \A p \in S : Listed(p)
               /\ conn' = [p \in Peers |-> IF p \in S THEN echo_conn_func(conn[p]) ELSE conn[p]]
  <2>1. DOMAIN conns = 1..Len(conns) /\ Len(conns) \in Nat
    BY LenProperties DEF IInv, Typed
  <2>2. CASE ExecuteConns
    <3> DEFINE S == {p \in Peers : Contains(conns, p)}
    <3>1. \A p \in S : Listed(p)
      BY <2>1 DEF Contains, Listed
    <3>2. conn' = [p \in Peers |-> IF p \in S THEN echo_conn_func(conn[p]) ELSE conn[p]]
      BY <2>2 DEF ExecuteConns
    <3>3. QED
      BY <3>1, <3>2
  <2>3. ASSUME NEW j \in 1..Cardinality(Peers), ExecuteConnsFails(j)
        PROVE  \E S : /\ \A p \in S : Listed(p)
                      /\ conn' = [p \in Peers |-> IF p \in S THEN echo_conn_func(conn[p]) ELSE conn[p]]
    <3> DEFINE S == ToSet(SubSeq(conns, 1, j - 1))
    <3>1. conn' = [p \in Peers |-> IF p \in S THEN echo_conn_func(conn[p]) ELSE conn[p]]
      BY <2>3 DEF ExecuteConnsFails
    <3>2. j \in 1..Len(conns)
      BY <2>1, <2>3 DEF ExecuteConnsFails
    <3>3. \A i \in 1..(j - 1) : conns[i] \in Peers
      BY <2>1, <3>2, ElementOfSeq DEF IInv, Typed
    <3>4. PICK t \in Seq(Peers) : /\ t = SubSeq(conns, 1, j - 1)
                                  /\ Len(t) = j - 1
                                  /\ \A i \in 1..(j - 1) : t[i] = conns[i]
      <4> DEFINE t == SubSeq(conns, 1, j - 1)
      <4>1. j - 1 \in Nat /\ 1 \in Int /\ j - 1 \in Int
        BY <3>2
      <4>2. /\ t \in Seq(Peers) /\ Len(t) = IF 1 <= j - 1 THEN (j - 1) - 1 + 1 ELSE 0
            /\ \A i \in 1..(j - 1) - 1 + 1 : t[i] = conns[1 + i - 1]
        BY <3>3, <4>1, SubSeqProperties
      <4> HIDE DEF t
      <4>3. Len(t) = j - 1 /\ \A i \in 1..(j - 1) : t[i] = conns[i]
        BY <4>1, <4>2
      <4>4. QED
        BY <4>2, <4>3 DEF t
    <3>5. ASSUME NEW p \in S PROVE Listed(p)
      <4>1. PICK i \in DOMAIN t : t[i] = p
        BY <3>4 DEF ToSet
      <4>2. DOMAIN t = 1..(j - 1)
        BY <3>4, LenProperties
      <4>3. i \in 1..Len(conns) /\ conns[i] = p
        BY <2>1, <3>2, <3>4, <4>1, <4>2
      <4>4. QED
        BY <4>3 DEF Listed
    <3>6. QED
      BY <3>1, <3>5
  <2>4. QED
    BY <2>2, <2>3
<1>3. got' = got /\ got' \in [Peers -> Seq(Chunk)]
  BY <1>1 DEF outside, Streams
<1>4. ASSUME NEW p \in Peers PROVE Served(p)'
  <2>1. Served(p) /\ UNCHANGED <<conns, link, sent, wire, got>>
    BY <1>1 DEF Streams, outside
  <2>2. CASE p \in S /\ link[p] = "up"
    <3>1. conn'[p] = echo_conn_func(conn[p]) /\ Listed(p)'
      BY <1>2, <2>1, <2>2 DEF Listed
    <3>2. Sound(conn[p]) /\ wire[p] \in Seq(Chunk) /\ got[p] \in Seq(Chunk) /\ Typed'
      BY DEF IInv, Typed, Streams
    <3>3. Flow(conn[p], wire[p], got[p], sent[p])
      BY <2>1, <2>2 DEF Served
    <3>4. Flow(conn'[p], wire'[p], got'[p], sent'[p]) /\ link'[p] = "up"
      BY <2>1, <2>2, <3>1, <3>2, <3>3, FlowEcho
    <3>5. QED
      BY <1>3, <3>1, <3>2, <3>4, FlowServed
  <2>3. CASE p \notin S
    <3>1. Untouched(p)
      BY <1>2, <2>1, <2>3 DEF Untouched, Listed
    <3>2. QED
      BY <2>1, <3>1, UntouchedServed
  <2>4. CASE p \in S /\ link[p] # "up"
    <3>1. link[p] # "none"
      BY <1>2, <2>4 DEF Listed, IInv, Placed
    <3>2. Untouched(p)
      BY <2>1, <2>4, <3>1 DEF Untouched
    <3>3. QED
      BY <2>1, <3>2, UntouchedServed
  <2>5. QED
    BY <2>2, <2>3, <2>4
<1>5. QED
  BY <1>3, <1>4 DEF Streams

\* handle_read and handle_write of the connection whose turn it is.
LEMMA ReadStreams ==
  ASSUME IInv, IInv', Streams, NEW n \in Nat, Read(n)
  PROVE  Streams'
<1>1. PICK q : q = conns[at]
  OBVIOUS
<1>2. /\ pc = "serve" /\ at > 0
      /\ n \in 1..(conn[q].rx_cap - Len(conn[q].rx)) /\ n <= Len(wire[q])
      /\ conn' = [conn EXCEPT ![q].rx = @ \o SubSeq(wire[q], 1, n)]
      /\ wire' = [wire EXCEPT ![q] = SubSeq(@, n + 1, Len(@))]
      /\ UNCHANGED <<conns, link, sent, got>>
  BY <1>1 DEF Read, Readable
<1>3. q \in Peers /\ Listed(q) /\ at \in 1..Len(conns)
  BY <1>1, <1>2, LenProperties, ElementOfSeq DEF IInv, Typed, Listed
<1>4. /\ wire \in [Peers -> Seq(Chunk)] /\ conn \in [Peers -> Connection]
      /\ got \in [Peers -> Seq(Chunk)]
  BY DEF IInv, Typed, Streams
<1>5. \A p \in Peers : p # q => Untouched(p)
  BY <1>2, <1>4 DEF Untouched, Listed
<1>6. Served(q)'
  <2>1. Served(q) /\ Sound(conn[q])
    BY <1>3 DEF Streams, IInv, Typed
  <2>2. CASE link[q] = "up"
    <3>1. PICK c, w, g, s, d : /\ c = conn[q] /\ w = wire[q] /\ g = got[q] /\ s = sent[q]
                               /\ d = [c EXCEPT !.rx = @ \o SubSeq(w, 1, n)]
      OBVIOUS
    <3>2. w \in Seq(Chunk) /\ g \in Seq(Chunk) /\ n \in 0..Len(w) /\ Sound(c)
      BY <1>2, <1>3, <1>4, <2>1, <3>1, LenProperties
    <3>3. Flow(c, w, g, s)
      BY <2>1, <2>2, <3>1 DEF Served
    <3>4. Flow(d, SubSeq(w, n + 1, Len(w)), g, s)
      BY <3>1, <3>2, <3>3, FlowRead
    <3>5. conn'[q] = d /\ wire'[q] = SubSeq(w, n + 1, Len(w)) /\ got'[q] = g /\ sent'[q] = s
      BY <1>2, <1>3, <1>4, <3>1
    <3>6. /\ Flow(conn'[q], wire'[q], got'[q], sent'[q]) /\ link'[q] = "up"
          /\ Listed(q)' /\ Typed' /\ got' \in [Peers -> Seq(Chunk)]
      BY <1>2, <1>3, <1>4, <2>2, <3>4, <3>5 DEF Listed, IInv
    <3>7. QED
      BY <1>3, <3>6, FlowServed
  <2>3. CASE link[q] # "up"
    <3>1. link[q] # "none"
      BY <1>1, <1>3 DEF IInv, Placed
    <3>2. Untouched(q)
      BY <1>2, <2>3, <3>1 DEF Untouched
    <3>3. QED
      BY <1>3, <2>1, <3>2, UntouchedServed
  <2>4. QED
    BY <2>2, <2>3
<1>7. QED
  BY <1>2, <1>4, <1>5, <1>6, UntouchedServed DEF Streams

LEMMA WriteStreams ==
  ASSUME IInv, IInv', Streams, NEW n \in Nat, Write(n)
  PROVE  Streams'
<1>1. PICK q : q = conns[at]
  OBVIOUS
<1>2. /\ pc = "serve" /\ at > 0
      /\ n \in 1..(Len(conn[q].tx) - conn[q].tx_sent)
      /\ conn' = [conn EXCEPT ![q].tx_sent = @ + n]
      /\ got' = [got EXCEPT ![q] =
                   IF link[q] = "up"
                   THEN @ \o SubSeq(conn[q].tx, conn[q].tx_sent + 1, conn[q].tx_sent + n) ELSE @]
      /\ UNCHANGED <<conns, link, sent, wire>>
  BY <1>1 DEF Write, Writable
<1>3. q \in Peers /\ Listed(q) /\ at \in 1..Len(conns)
  BY <1>1, <1>2, LenProperties, ElementOfSeq DEF IInv, Typed, Listed
<1>4. /\ wire \in [Peers -> Seq(Chunk)] /\ conn \in [Peers -> Connection]
      /\ got \in [Peers -> Seq(Chunk)]
  BY DEF IInv, Typed, Streams
<1>5. \A p \in Peers : p # q => Untouched(p)
  BY <1>2, <1>4 DEF Untouched, Listed
<1>6. Served(q) /\ Sound(conn[q])
  BY <1>3 DEF Streams, IInv, Typed
<1>7. CASE link[q] = "up"
  <2>1. PICK c, w, g, s, d, a : /\ c = conn[q] /\ w = wire[q] /\ g = got[q] /\ s = sent[q]
                                /\ d = [c EXCEPT !.tx_sent = @ + n]
                                /\ a = SubSeq(c.tx, c.tx_sent + 1, c.tx_sent + n)
    OBVIOUS
  <2>2. w \in Seq(Chunk) /\ g \in Seq(Chunk) /\ n \in 1..(Len(c.tx) - c.tx_sent) /\ Sound(c)
    BY <1>2, <1>3, <1>4, <1>6, <2>1
  <2>3. Flow(c, w, g, s)
    BY <1>6, <1>7, <2>1 DEF Served
  <2>4. Flow(d, w, g \o a, s)
    BY <2>1, <2>2, <2>3, FlowWrite
  <2>5. a \in Seq(Chunk)
    <3>1. PICK t \in Seq(Chunk), k \in Nat : t = c.tx /\ k = c.tx_sent
      BY <2>2 DEF Sound, Connection
    <3>2. k + n <= Len(t) /\ Len(t) \in Nat
      BY <2>2, <3>1, LenProperties
    <3>3. ASSUME NEW i \in (k + 1)..(k + n) PROVE t[i] \in Chunk
      <4>1. i \in 1..Len(t)
        BY <3>2
      <4>2. QED
        BY <4>1, ElementOfSeq
    <3>4. k + 1 \in Int /\ k + n \in Int
      OBVIOUS
    <3>5. QED
      BY <2>1, <3>1, <3>3, <3>4, SubSeqProperties
  <2>6. got' = [got EXCEPT ![q] = g \o a] /\ g \o a \in Seq(Chunk)
    BY <1>2, <1>7, <2>1, <2>2, <2>5, ConcatProperties
  <2>7. conn'[q] = d /\ wire'[q] = w /\ got'[q] = g \o a /\ sent'[q] = s
    BY <1>2, <1>3, <1>4, <2>1, <2>6
  <2>8. got' \in [Peers -> Seq(Chunk)]
    BY <1>3, <1>4, <2>6
  <2>9. /\ Flow(conn'[q], wire'[q], got'[q], sent'[q]) /\ link'[q] = "up"
        /\ Listed(q)' /\ Typed'
    BY <1>2, <1>3, <1>7, <2>4, <2>7 DEF Listed, IInv
  <2>10. Served(q)'
    BY <1>3, <2>8, <2>9, FlowServed
  <2>11. QED
    BY <1>5, <2>8, <2>10, UntouchedServed DEF Streams
<1>8. CASE link[q] # "up"
  <2>1. got' = got
    BY <1>2, <1>4, <1>8
  <2>2. link[q] # "none"
    BY <1>1, <1>3 DEF IInv, Placed
  <2>3. Untouched(q)
    BY <1>2, <1>8, <2>1, <2>2 DEF Untouched
  <2>4. QED
    BY <1>5, <2>1, <2>3, NobodyTouched
<1>9. QED
  BY <1>7, <1>8

\* A connection that is accepted begins with nothing.
LEMMA AcceptStreams ==
  ASSUME IInv, Streams, Accept
  PROVE  Streams'
<1>1. PICK q : q = Head(backlog)
  OBVIOUS
<1>2. /\ pc = "serve" /\ knock
      /\ conns' = Append(conns, q) /\ conn' = [conn EXCEPT ![q] = NoConn]
      /\ UNCHANGED <<link, sent, wire, got>>
  BY <1>1 DEF Accept
<1>3. /\ conns \in Seq(Peers) /\ backlog \in Seq(Peers) /\ backlog # <<>>
      /\ conn \in [Peers -> Connection]
  BY <1>2 DEF IInv, Typed, Polled
<1>4. q \in Peers /\ 1 \in 1..Len(backlog) /\ q = backlog[1]
  BY <1>1, <1>3, HeadTailProperties, EmptySeq
<1>5. ~Listed(q)
  BY <1>4 DEF Listed, IInv, Placed
<1>6. \A p \in Peers : Listed(p) => Listed(p)'
  <2> SUFFICES ASSUME NEW p \in Peers, NEW i \in 1..Len(conns), conns[i] = p
               PROVE  \E j \in 1..Len(conns') : conns'[j] = p
    BY DEF Listed
  <2>1. /\ Len(conns') = Len(conns) + 1 /\ conns'[i] = conns[i] /\ Len(conns) \in Nat
    BY <1>2, <1>3, <1>4, AppendProperties, LenProperties
  <2>2. i \in 1..Len(conns') /\ conns'[i] = p
    BY <2>1
  <2>3. QED
    BY <2>2
<1>7. \A p \in Peers : Untouched(p)
  <2> SUFFICES ASSUME NEW p \in Peers PROVE Untouched(p)
    OBVIOUS
  <2>1. p # q => conn'[p] = conn[p]
    BY <1>2, <1>3
  <2>2. p = q /\ link[p] \in {"none", "up"} => conn'[p] = conn[p]
    BY <1>2, <1>3, <1>4, <1>5 DEF Streams, Served
  <2>3. QED
    BY <1>2, <1>6, <2>1, <2>2 DEF Untouched
<1>8. QED
  BY <1>2, <1>7, NobodyTouched

\* A connection that is removed is no longer up; the others keep their slots.
LEMMA RemovalStreams ==
  ASSUME IInv, Streams, pc = "serve", at > 0, NEW l \in {"dropped", "gone"},
         link' = [link EXCEPT ![conns[at]] = l],
         RemoveClient \/ RemoveFails,
         UNCHANGED <<conn, sent, wire, got>>
  PROVE  Streams'
<1>1. /\ conns \in Seq(Peers) /\ Len(conns) \in Nat /\ at \in 1..Len(conns)
      /\ link \in [Peers -> {"none", "up", "fin", "reset", "dropped", "gone"}]
  BY LenProperties DEF IInv, Typed
<1>2. \A i \in 1..Len(conns) : i # at => \E j \in 1..Len(conns') : conns'[j] = conns[i]
  <2>1. CASE RemoveFails
    BY <2>1 DEF RemoveFails
  <2>2. CASE RemoveClient
    <3>1. conns' = Without(conns, at)
      BY <2>2 DEF RemoveClient, Without
    <3>2. ASSUME NEW i \in 1..Len(conns), i # at
          PROVE  \E j \in 1..Len(conns') : conns'[j] = conns[i]
      BY <1>1, <3>1, <3>2, Removed
    <3>3. QED
      BY <3>2
  <2>3. QED
    BY <2>1, <2>2
<1>3. \A p \in Peers : Untouched(p)
  <2> SUFFICES ASSUME NEW p \in Peers PROVE Untouched(p)
    OBVIOUS
  <2>1. CASE p = conns[at]
    BY <1>1, <2>1 DEF Untouched
  <2>2. CASE p # conns[at]
    <3>1. link'[p] = link[p]
      BY <1>1, <2>2
    <3>2. Listed(p) => Listed(p)'
      <4> SUFFICES ASSUME NEW i \in 1..Len(conns), conns[i] = p
                   PROVE  \E j \in 1..Len(conns') : conns'[j] = p
        BY DEF Listed
      <4>1. QED
        BY <1>2, <2>2
    <3>3. QED
      BY <3>1, <3>2 DEF Untouched
  <2>3. QED
    BY <2>1, <2>2
<1>4. QED
  BY <1>3, NobodyTouched

\* What the server does.
LEMMA ServerStreams ==
  ASSUME IInv, IInv', Streams, Server
  PROVE  Streams'
<1>1. /\ link \in [Peers -> {"none", "up", "fin", "reset", "dropped", "gone"}]
      /\ \A j \in 1..Len(backlog) : backlog[j] \in Peers
  BY ElementOfSeq DEF IInv, Typed
<1>2. ASSUME UNCHANGED <<conns, link, conn, sent, wire, got>> PROVE Streams'
  BY <1>2, NobodyTouched DEF Untouched, Listed
<1>3. CASE PollReady \/ PollTimesOut \/ PollFails \/ Skip \/ NoAccept \/ WriteFails
  BY <1>2, <1>3 DEF PollReady, PollTimesOut, PollFails, Skip, NoAccept, WriteFails, ps, outside
<1>4. ASSUME NEW n \in 1..(PrefixLen + Max(Sizes)), Read(n) PROVE Streams'
  <2>1. n \in Nat
    BY <1>4 DEF Read
  <2>2. QED
    BY <1>4, <2>1, ReadStreams
<1>5. ASSUME NEW n \in 1..(PrefixLen + Max(Sizes) + 2), Write(n) PROVE Streams'
  <2>1. n \in Nat
    BY <1>5 DEF Write
  <2>2. QED
    BY <1>5, <2>1, WriteStreams
<1>6. CASE AcceptFails
  <2>1. /\ UNCHANGED <<conns, conn, sent, wire, got>>
        /\ link' = link \/ link' = [link EXCEPT ![Head(backlog)] = "gone"]
    BY <1>6 DEF AcceptFails, ps
  <2>2. \A p \in Peers : Untouched(p)
    BY <1>1, <2>1 DEF Untouched, Listed
  <2>3. QED
    BY <2>1, <2>2, NobodyTouched
<1>7. CASE HangUp
  <2>1. /\ pc = "serve" /\ at > 0 /\ (RemoveClient \/ RemoveFails)
        /\ link' = [link EXCEPT ![conns[at]] = "gone"]
        /\ UNCHANGED <<conn, sent, wire, got>>
    BY <1>7 DEF HangUp
  <2>2. QED
    BY <2>1, RemovalStreams
<1>8. CASE ReadFails
  <2> DEFINE l == IF link[conns[at]] = "up" THEN "dropped" ELSE "gone"
  <2>1. /\ pc = "serve" /\ at > 0 /\ (RemoveClient \/ RemoveFails)
        /\ l \in {"dropped", "gone"} /\ link' = [link EXCEPT ![conns[at]] = l]
        /\ UNCHANGED <<conn, sent, wire, got>>
    BY <1>8 DEF ReadFails, Readable
  <2> HIDE DEF l
  <2>2. QED
    BY <2>1, RemovalStreams
<1>9. CASE Close
  <2>1. /\ link' = [p \in Peers |-> IF Contains(conns, p) \/ Contains(backlog, p)
                                    THEN "gone" ELSE link[p]]
        /\ UNCHANGED <<conn, sent, wire, got>>
    BY <1>9 DEF Close
  <2>2. DOMAIN conns = 1..Len(conns)
    BY LenProperties DEF IInv, Typed
  <2>3. \A p \in Peers : Untouched(p)
    <3> SUFFICES ASSUME NEW p \in Peers PROVE Untouched(p)
      OBVIOUS
    <3>1. CASE link'[p] = "gone"
      BY <2>1, <3>1 DEF Untouched
    <3>2. CASE link'[p] # "gone"
      <4>1. ~Contains(conns, p) /\ link'[p] = link[p]
        BY <2>1, <3>2
      <4>2. ~Listed(p)
        BY <2>2, <4>1 DEF Contains, Listed
      <4>3. QED
        BY <2>1, <4>1, <4>2 DEF Untouched
    <3>3. QED
      BY <3>1, <3>2
  <2>4. QED
    BY <2>1, <2>3, NobodyTouched
<1>10. QED
  BY <1>3, <1>4, <1>5, <1>6, <1>7, <1>8, <1>9, ExecuteStreams, AcceptStreams DEF Server

LEMMA NextStreams ==
  ASSUME Window <= 1
  PROVE  IInv /\ IInv' /\ Streams /\ [Next]_vars => Streams'
<1> SUFFICES ASSUME IInv, IInv', Streams, [Next]_vars PROVE Streams'
  OBVIOUS
<1>1. CASE UNCHANGED vars
  <2>1. got' = got /\ \A p \in Peers : Untouched(p)
    BY <1>1 DEF vars, ps, outside, Untouched, Listed
  <2>2. QED
    BY <2>1, NobodyTouched
<1>2. QED
  BY <1>1, OutsideStreams, ServerStreams DEF Next

LEMMA StreamsInOrder == IInv /\ Streams => EchoesInOrder
BY ExpectedIs DEF EchoesInOrder, Streams, Served, IInv

\* However the bytes are split and whichever calls fail, a peer that waits for an
\* answer before it sends another message reads back its messages, each once, whole
\* and in order: echo_conn_func takes them out of rx and puts them into tx.
THEOREM InOrder ==
  ASSUME Window <= 1
  PROVE  Spec => []EchoesInOrder
<1>1. Init /\ [][Next]_vars => []IInv
  BY InitIInv, NextIInv, PTL
<1>2. IInv /\ IInv' /\ Streams /\ [Next]_vars => Streams'
  BY NextStreams
<1>3. Init /\ [][Next]_vars => [](IInv /\ Streams)
  BY <1>1, <1>2, InitStreams, PTL
<1>4. QED
  BY <1>3, StreamsInOrder, PTL DEF Spec
=============================================================================
