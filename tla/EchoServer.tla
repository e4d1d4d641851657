----------------------------- MODULE EchoServer -----------------------------
(***************************************************************************)
(* The polling server of src/net/polling_server.c running the echo         *)
(* connection functions of src/net/echo_server.c.  One thread calls        *)
(* pserv_execute until it returns a value that is not positive, and then   *)
(* pserv_close.  The peers connect, send size-prefixed frames as           *)
(* src/net/client.c does, and close or reset their connections.            *)
(*                                                                         *)
(* Bytes travel as chunks: a length prefix is PrefixLen chunks, a message  *)
(* of size n is n chunks, and the prefix and suffix strings of the echo    *)
(* context are one chunk each.  The server has one error object, which     *)
(* keeps the first failure put into it.  SIGPIPE is ignored, so a write to *)
(* a connection that is gone fails with EPIPE.                             *)
(***************************************************************************)
EXTENDS Naturals, FiniteSets, SequencesExt

CONSTANTS
  Peers,        \* the clients
  Faulty,       \* those that may close or reset their connection
  PrefixLen,    \* chunks of a length prefix (4 bytes)
  Sizes,        \* sizes of the messages
  MaxMsgs,      \* bound: messages sent by one peer
  Window,       \* messages a peer sends before it waits for a reply
  InitCap,      \* capacity of fds and conns after pserv_open (101)
  MayStop,      \* whether someone may clear ps->running
  MayFail       \* whether accept, realloc and close may fail

ASSUME EchoServerAssumption ==
  /\ Faulty \subseteq Peers
  /\ PrefixLen \in Nat \ {0} /\ Sizes \subseteq Nat
  /\ MaxMsgs \in Nat /\ Window \in Nat /\ InitCap \in Nat \ {0}
  /\ MayStop \in BOOLEAN /\ MayFail \in BOOLEAN

VARIABLES
  \* the server
  pc,        \* "execute", "poll", "serve", "close" or "closed"
  at,        \* i of the loop over fds
  conns,     \* ps->conns[1 ..], as the peers they serve
  fds,       \* ps->fds[1 ..], with the peer of the descriptor
  knock,     \* fds[0].revents says POLLIN
  cap,       \* ps->cap
  running,   \* ps->running
  failed,    \* e->cause_code is not SUCCESS
  conn,      \* the struct connection of each accepted peer
  \* the outside
  backlog,   \* connections waiting for accept
  link,      \* what each peer did to its connection
  sent,      \* sizes of the messages each peer sent
  wire,      \* chunks on their way to the server
  got        \* chunks each peer received

ps      == <<at, conns, fds, knock, cap>>
outside == <<backlog, link, sent, wire, got>>
vars    == <<pc, ps, running, failed, conn, outside>>

Events == {"IN", "OUT", "HUP"}
NoConn == [rx |-> <<>>, rx_cap |-> 0, tx |-> <<>>, tx_sent |-> 0]
Chunks(kind, n, val) == [i \in 1..n |-> <<kind, val>>]
Frame(k, n) == Chunks("prefix", PrefixLen, n) \o Chunks("body", n, k)

\* decode_prefix
Decode(buf) == buf[1][2]

\* The reply built from a complete frame.
Reply(buf) ==
  LET n == Decode(buf) IN
    Chunks("prefix", PrefixLen, n + 2)
      \o Chunks("context", 1, 0)
      \o SubSeq(buf, PrefixLen + 1, PrefixLen + n)
      \o Chunks("context", 1, 1)

\* What a peer must read back: no frame for an empty message.
Expected(p) ==
  FlattenSeq([k \in 1..Len(sent[p]) |->
                IF sent[p][k] = 0 THEN <<>> ELSE Reply(Frame(k, sent[p][k]))])

Unanswered(p) ==
  {k \in 1..Len(sent[p]) :
     /\ sent[p][k] # 0
     /\ Len(got[p]) < Len(FlattenSeq([j \in 1..k |->
          IF sent[p][j] = 0 THEN <<>> ELSE Reply(Frame(j, sent[p][j]))]))}

-----------------------------------------------------------------------------
\* pserv_open
Init ==
  /\ pc = "execute" /\ at = 0
  /\ conns = <<>> /\ fds = <<>> /\ knock = FALSE /\ cap = InitCap
  /\ running = TRUE /\ failed = FALSE
  /\ conn = [p \in Peers |-> NoConn]
  /\ backlog = <<>>
  /\ link = [p \in Peers |-> "none"]
  /\ sent = [p \in Peers |-> <<>>]
  /\ wire = [p \in Peers |-> <<>>]
  /\ got = [p \in Peers |-> <<>>]

-----------------------------------------------------------------------------
\* The peers.

Connect(p) ==
  /\ link[p] = "none" /\ pc # "closed"
  /\ link' = [link EXCEPT ![p] = "up"]
  /\ backlog' = Append(backlog, p)
  /\ UNCHANGED <<pc, ps, running, failed, conn, sent, wire, got>>

\* client_write_all_size_prefixed
SendFrame(p, n) ==
  /\ link[p] = "up"
  /\ Len(sent[p]) < MaxMsgs
  /\ Cardinality(Unanswered(p)) < Window
  /\ sent' = [sent EXCEPT ![p] = Append(@, n)]
  /\ wire' = [wire EXCEPT ![p] = @ \o Frame(Len(sent[p]) + 1, n)]
  /\ UNCHANGED <<pc, ps, running, failed, conn, backlog, link, got>>

\* client_disconnect: what was sent still arrives.
Disconnect(p) ==
  /\ p \in Faulty /\ link[p] = "up"
  /\ link' = [link EXCEPT ![p] = "fin"]
  /\ UNCHANGED <<pc, ps, running, failed, conn, backlog, sent, wire, got>>

\* The connection is reset: what was on its way is gone.
Reset(p) ==
  /\ p \in Faulty /\ link[p] \in {"up", "fin"}
  /\ link' = [link EXCEPT ![p] = "reset"]
  /\ wire' = [wire EXCEPT ![p] = <<>>]
  /\ UNCHANGED <<pc, ps, running, failed, conn, backlog, sent, got>>

\* Somebody clears ps->running.
Stop ==
  /\ MayStop /\ running
  /\ running' = FALSE
  /\ UNCHANGED <<pc, ps, failed, conn, outside>>

-----------------------------------------------------------------------------
\* The connection function of the echo server.

IsNew(c)    == c.rx_cap = 0 /\ c.tx = <<>>

IsSent(c)   == c.tx # <<>> /\ c.tx_sent = Len(c.tx)
IsWhole(c)  == Len(c.rx) = c.rx_cap

\* It asks for memory.
Allocates(c) ==
  \/ IsNew(c)
  \/ ~IsSent(c) /\ IsWhole(c) /\ ~(c.rx_cap = PrefixLen /\ Decode(c.rx) = 0)

\* It builds a reply.
Replies(c) ==
  ~IsNew(c) /\ ~IsSent(c) /\ IsWhole(c) /\ c.rx_cap # PrefixLen

echo_conn_func(c) ==
  CASE IsNew(c) -> [c EXCEPT !.rx_cap = PrefixLen]
    [] ~IsNew(c) /\ IsSent(c) -> [c EXCEPT !.tx = <<>>, !.tx_sent = 0]
    [] Replies(c) ->
         [c EXCEPT !.tx = Reply(c.rx), !.tx_sent = 0, !.rx = <<>>, !.rx_cap = PrefixLen]
    [] ~IsNew(c) /\ ~IsSent(c) /\ IsWhole(c) /\ c.rx_cap = PrefixLen ->
         IF Decode(c.rx) = 0
         THEN [c EXCEPT !.rx = <<>>]
         ELSE [c EXCEPT !.rx_cap = PrefixLen + Decode(c.rx)]
    [] OTHER -> c

\* Mutant: output is polled for only when there is nothing to read.
EventsOfEither(c) ==
  IF c.rx_cap > 0 /\ Len(c.rx) # c.rx_cap THEN {"IN"}
  ELSE IF c.tx # <<>> /\ c.tx_sent # Len(c.tx) THEN {"OUT"} ELSE {}

EventsOf(c) ==
  {ev \in {"IN", "OUT"} :
     \/ ev = "IN"  /\ c.rx_cap > 0 /\ Len(c.rx) # c.rx_cap
     \/ ev = "OUT" /\ c.tx # <<>> /\ c.tx_sent # Len(c.tx)}

\* pserv_execute_conns: nothing it touches is shared with the outside.
ExecuteConns ==
  /\ pc = "execute"
  /\ pc' = "poll"
  /\ conn' = [p \in Peers |-> IF Contains(conns, p) THEN echo_conn_func(conn[p]) ELSE conn[p]]
  /\ fds' = [i \in DOMAIN fds |-> [fds[i] EXCEPT !.events = EventsOf(conn'[conns[i]])]]
  /\ UNCHANGED <<at, conns, knock, cap, running, failed, outside>>

\* There is no memory for connection j: those before it were served.
ExecuteConnsFails(j) ==
  /\ MayFail
  /\ pc = "execute" /\ j \in DOMAIN conns
  /\ Allocates(conn[conns[j]])
  /\ LET done == ToSet(SubSeq(conns, 1, j - 1)) IN
       conn' = [p \in Peers |-> IF p \in done THEN echo_conn_func(conn[p]) ELSE conn[p]]
       /\ fds' = [i \in DOMAIN fds |->
               IF i < j THEN [fds[i] EXCEPT !.events = EventsOf(conn'[conns[i]])] ELSE fds[i]]
  /\ failed' = TRUE
  /\ pc' = "close"
  /\ UNCHANGED <<at, conns, knock, cap, running, outside>>

-----------------------------------------------------------------------------
\* poll

Ready(p, events) ==
  (IF link[p] = "reset" THEN {"HUP"} ELSE {})
    \cup (IF "IN" \in events /\ (wire[p] # <<>> \/ link[p] \in {"fin", "reset"})
          THEN {"IN"} ELSE {})
    \cup (events \cap {"OUT"})

NothingReady ==
  /\ backlog = <<>>
  /\ \A i \in DOMAIN fds : Ready(fds[i].fd, fds[i].events) = {}

\* pserv_execute returns ps->running.
Return == pc' = IF running THEN "execute" ELSE "close"

\* Some descriptor is ready: the loop starts at the last one.
PollReady ==
  /\ pc = "poll" /\ ~NothingReady
  /\ knock' = (backlog # <<>>)
  /\ fds' = [i \in DOMAIN fds |-> [fds[i] EXCEPT !.revents = Ready(fds[i].fd, fds[i].events)]]
  /\ at' = Len(conns)
  /\ pc' = "serve"
  /\ UNCHANGED <<conns, cap, running, failed, conn, outside>>

\* The second passes, or a signal interrupts poll.
PollTimesOut ==
  /\ pc = "poll" /\ NothingReady
  /\ Return
  /\ knock' = FALSE
  /\ fds' = [i \in DOMAIN fds |-> [fds[i] EXCEPT !.revents = {}]]
  /\ UNCHANGED <<at, conns, cap, running, failed, conn, outside>>

PollFails ==
  /\ MayFail
  /\ pc = "poll"
  /\ pc' = "close"
  /\ failed' = TRUE
  /\ UNCHANGED <<ps, running, conn, outside>>

-----------------------------------------------------------------------------
\* The loop over the descriptors.

Advance == at' = at - 1 /\ pc' = pc

Skip ==
  /\ pc = "serve" /\ at > 0 /\ fds[at].revents = {}
  /\ Advance
  /\ UNCHANGED <<conns, fds, knock, cap, running, failed, conn, outside>>

\* Index 0 is the last one: nothing to accept.
NoAccept ==
  /\ pc = "serve" /\ at = 0 /\ ~knock
  /\ Return
  /\ UNCHANGED <<ps, running, failed, conn, outside>>

\* grow_if_needed: the capacity that holds n descriptors and the listener.
Grown(n, c) == IF n + 1 < c THEN c ELSE c * 2

\* handle_accept
Accept ==
  /\ pc = "serve" /\ at = 0 /\ knock
  /\ LET p == Head(backlog) IN
       /\ conns' = Append(conns, p)
       /\ fds' = Append(fds, [fd |-> p, events |-> {}, revents |-> {}])
       /\ conn' = [conn EXCEPT ![p] = NoConn]
  /\ cap' = Grown(Len(conns), cap)
  /\ backlog' = Tail(backlog)
  /\ Return
  /\ UNCHANGED <<at, knock, running, failed, link, sent, wire, got>>

\* The connection cannot be accepted, or the arrays cannot grow: it is closed.
AcceptFails ==
  /\ MayFail
  /\ pc = "serve" /\ at = 0 /\ knock
  /\ \/ UNCHANGED <<backlog, link>>
     \/ /\ Len(conns) + 1 = cap
        /\ backlog' = Tail(backlog)
        /\ link' = [link EXCEPT ![Head(backlog)] = "gone"]
  /\ failed' = TRUE
  /\ pc' = "close"
  /\ UNCHANGED <<ps, running, conn, sent, wire, got>>

\* Mutant: the descriptors are not moved with the connections.
RemoveConnOnly ==
  /\ conns' = Front([conns EXCEPT ![at] = Last(conns)])
  /\ fds' = Front(fds)
  /\ Advance

\* remove_client: the last connection takes the place of the one removed.
RemoveClient ==
  /\ conns' = Front([conns EXCEPT ![at] = Last(conns)])
  /\ fds' = Front([fds EXCEPT ![at] = Last(fds)])
  /\ Advance

\* close fails: the connection stays in its slot.  Its buffers, which no property is
\* about, are freed already (polling_server.c:158) and will be again.
RemoveFails ==
  /\ MayFail
  /\ pc' = "close"
  /\ UNCHANGED <<at, conns, fds>>

HangUp ==
  /\ pc = "serve" /\ at > 0 /\ "HUP" \in fds[at].revents
  /\ link' = [link EXCEPT ![conns[at]] = "gone"]
  /\ \/ RemoveClient /\ failed' = failed
     \/ RemoveFails /\ failed' = TRUE
  /\ UNCHANGED <<knock, cap, running, conn, backlog, sent, wire, got>>

Readable ==
  pc = "serve" /\ at > 0 /\ "IN" \in fds[at].revents /\ "HUP" \notin fds[at].revents

\* handle_read gets n chunks and finds no error pending.
Read(n) ==
  /\ Readable
  /\ LET p == conns[at] IN
       /\ n \in 1..(conn[p].rx_cap - Len(conn[p].rx))
       /\ n <= Len(wire[p])
       /\ conn' = [conn EXCEPT ![p].rx = @ \o SubSeq(wire[p], 1, n)]
       /\ wire' = [wire EXCEPT ![p] = SubSeq(@, n + 1, Len(@))]
  /\ ~failed
  /\ Advance
  /\ UNCHANGED <<conns, fds, knock, cap, running, failed, backlog, link, sent, got>>

\* Mutant: the end of the stream is taken for an empty read.
ReadFailsNotAtEnd ==
  /\ Readable
  /\ LET p == conns[at] IN
       IF ~failed /\ link[p] = "fin" /\ wire[p] = <<>>
       THEN /\ Advance
            /\ UNCHANGED <<conns, fds, failed, link>>
       ELSE /\ failed \/ wire[p] = <<>>
            /\ failed' = TRUE
            /\ link' = [link EXCEPT ![p] = IF @ = "up" THEN "dropped" ELSE "gone"]
            /\ RemoveClient
  /\ UNCHANGED <<knock, cap, running, conn, backlog, sent, wire, got>>

\* handle_read reports an error, its own or one pending from before.
ReadFails ==
  /\ Readable
  /\ LET p == conns[at] IN
       /\ failed \/ wire[p] = <<>>
       /\ failed' = TRUE
       /\ link' = [link EXCEPT ![p] = IF @ = "up" THEN "dropped" ELSE "gone"]
  /\ RemoveClient \/ RemoveFails
  /\ UNCHANGED <<knock, cap, running, conn, backlog, sent, wire, got>>

Writable ==
  pc = "serve" /\ at > 0 /\ fds[at].revents = {"OUT"}

\* Mutant: every send begins at the start of the reply.
WriteFromStart(n) ==
  /\ Writable
  /\ LET p == conns[at]
         c == conn[p]
     IN /\ link[p] # "reset"
        /\ n \in 1..(Len(c.tx) - c.tx_sent)
        /\ conn' = [conn EXCEPT ![p].tx_sent = @ + n]
        /\ got' = [got EXCEPT ![p] = IF link[p] = "up" THEN @ \o SubSeq(c.tx, 1, n) ELSE @]
  /\ Advance
  /\ UNCHANGED <<conns, fds, knock, cap, running, failed, backlog, link, sent, wire>>

\* handle_write sends n chunks.
Write(n) ==
  /\ Writable
  /\ LET p == conns[at]
         c == conn[p]
     IN /\ link[p] # "reset"
        /\ n \in 1..(Len(c.tx) - c.tx_sent)
        /\ conn' = [conn EXCEPT ![p].tx_sent = @ + n]
        /\ got' = [got EXCEPT ![p] =
                     IF link[p] = "up" THEN @ \o SubSeq(c.tx, c.tx_sent + 1, c.tx_sent + n) ELSE @]
  /\ Advance
  /\ UNCHANGED <<conns, fds, knock, cap, running, failed, backlog, link, sent, wire>>

\* The send fails: the error is kept, the call succeeds.
WriteFails ==
  /\ Writable
  /\ link[conns[at]] = "reset"
  /\ failed' = TRUE
  /\ Advance
  /\ UNCHANGED <<conns, fds, knock, cap, running, conn, outside>>

\* pserv_close
Close ==
  /\ pc = "close"
  /\ pc' = "closed"
  /\ link' = [p \in Peers |-> IF Contains(conns, p) \/ Contains(backlog, p) THEN "gone" ELSE link[p]]
  /\ conns' = <<>> /\ fds' = <<>> /\ cap' = 0 /\ knock' = FALSE
  /\ backlog' = <<>>
  /\ UNCHANGED <<at, running, failed, conn, sent, wire, got>>

-----------------------------------------------------------------------------
Server ==
  \/ ExecuteConns \/ (\E j \in 1..Cardinality(Peers) : ExecuteConnsFails(j))
  \/ PollReady \/ PollTimesOut \/ PollFails
  \/ Skip \/ NoAccept \/ Accept \/ AcceptFails
  \/ HangUp \/ ReadFails \/ WriteFails
  \/ (\E n \in 1..(PrefixLen + Max(Sizes)) : Read(n))
  \/ (\E n \in 1..(PrefixLen + Max(Sizes) + 2) : Write(n))
  \/ Close

Outside ==
  \/ Stop
  \/ \E p \in Peers :
       \/ Connect(p) \/ Disconnect(p) \/ Reset(p)
       \/ \E n \in Sizes : SendFrame(p, n)

Next == Server \/ Outside

\* The server's thread runs on; the peers do what they like.
Spec == Init /\ [][Next]_vars /\ WF_vars(Server)

-----------------------------------------------------------------------------
\* Open: the connection exists on the server's side.
Open(p) == link[p] \in {"up", "fin", "reset"}

\* Types; the arrays of the server are in step and fit in their capacity,
\* which is what grow_if_needed is for.
TypeOK ==
  /\ pc \in {"execute", "poll", "serve", "close", "closed"}
  /\ conns \in Seq(Peers) /\ backlog \in Seq(Peers)
  /\ DOMAIN fds = DOMAIN conns
  /\ \A i \in DOMAIN fds : fds[i].events \subseteq Events /\ fds[i].revents \subseteq Events
  /\ at \in 0..Len(conns) \/ pc # "serve"
  /\ pc # "closed" => Len(conns) + 1 <= cap
  /\ link \in [Peers -> {"none", "up", "fin", "reset", "dropped", "gone"}]
  /\ \A p \in Peers : conn[p].tx_sent <= Len(conn[p].tx)

\* A connection that the server accepted and did not close has one slot, and
\* the descriptor in that slot is its own: remove_client moves the last slot
\* over the one it removes while pserv_execute walks the array.
SlotsAreConnections ==
  /\ IsInjective(conns \o backlog)
  /\ \A i \in DOMAIN conns : fds[i].fd = conns[i]
  /\ {p \in Peers : Open(p)} \subseteq ToSet(conns \o backlog)

\* What poll reported is still true of the connection when the loop reaches
\* its slot: the ASSERTs of handle_read and handle_write.
ReportsAreUsable ==
  pc = "serve" =>
    \A i \in 1..at :
      /\ "IN" \in fds[i].revents => conn[conns[i]].rx_cap > Len(conn[conns[i]].rx)
      /\ "OUT" \in fds[i].revents => Len(conn[conns[i]].tx) > conn[conns[i]].tx_sent

\* The arrays of the server agree with the open connections, and what poll
\* said with what they can do (pserv_execute, remove_client, grow_if_needed).
Inv == TypeOK /\ SlotsAreConnections /\ ReportsAreUsable

\* A peer reads back its messages, each once, whole and in order, however the
\* bytes are split: echo_conn_func reassembles frames over many calls.
EchoesInOrder == \A p \in Peers : IsPrefix(got[p], Expected(p))

\* A connection that its peer closed leaves the server: POLLHUP or the end of
\* the stream leads to remove_client.
ClosedLeave ==
  \A p \in Peers : (link[p] \in {"fin", "reset"}) ~> (link[p] = "gone")

\* Every message is answered while the server runs, its peer stays and no failure
\* was recorded: the events asked of poll follow the state that echo_conn_func left.
AllAnswered ==
  \A p \in Peers :
    (sent[p] # <<>>) ~> (got[p] = Expected(p) \/ link[p] # "up" \/ failed \/ pc = "closed")

\* A read that succeeds does not cost a healthy peer its connection:
\* "SUCCESS: Operation completed successfully" (error.h).  It does not hold:
\* the server's one error object keeps the first failure (README, section 6).
FailuresStayLocal == \A p \in Peers \ Faulty : link[p] # "dropped"
=============================================================================
