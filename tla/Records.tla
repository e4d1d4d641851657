------------------------------ MODULE Records ------------------------------
(* Records saved and loaded: threads write them with one serializer, one     *)
(* thread copies what was serialized from stream to stream, and threads read *)
(* them back with one deserializer (memory/serializer.c, ds/stream.c,        *)
(* memory/deserializer.c).  Both serializers are guarded by a spin latch.    *)
EXTENDS Streams, FiniteSets

CONSTANTS
  Users,
  RecLen,        \* bytes of a record
  Capacities,    \* bytes of the serializer's buffer
  Sizes,         \* element sizes given to the streams
  Counts,        \* counts asked of stream_read
  Limits,        \* limits put around a stream, Unlimited for none
  Dests,         \* kinds and capacities of destinations
  MaxWrites,     \* bound: records a thread writes
  MaxReads,      \* bound: records a thread reads
  MaxCopies,     \* bound: calls of stream_read
  Word           \* 2^32 of u32, small

ASSUME RecordsAssumption ==
  /\ RecLen \in Nat \ {0} /\ Capacities \subseteq Nat \ {0}
  /\ Sizes \subseteq Nat \ {0} /\ Counts \subseteq Nat \ {0}
  /\ {MaxWrites, MaxReads, MaxCopies, BatchBytes, Word} \subseteq Nat
  /\ Limits \subseteq Nat \cup {Unlimited}
  /\ Dests \subseteq [kind : {"obuf", "opsink", "sink", "other"}, cap : Nat]
  \* Lengths are small beside 2^32, elements fit stream_read's buffer, and an
  \* opsink's buffer holds whole elements, one at least.
  /\ \A c \in Capacities : c + RecLen < Word
  /\ \A s \in Sizes : s <= BatchBytes
  /\ \A d \in Dests, s \in Sizes : d.kind = "opsink" => d.cap % s = 0 /\ d.cap > 0

VARIABLES
  phase,             \* "save", "copy", "load"
  word, at,          \* the latch of the serializer, or of the deserializer
  step,              \* what a thread with the latch does next
  did,               \* writes, or reads, each thread has begun
  data, dlen, dcap,  \* struct serializer
  accepted,          \* the records whose write returned true
  size, copies, carried,  \* the copy: its element size, calls, elements reported
  head, held,        \* struct deserializer, and what each reader has copied out
  loaded             \* the records read, in order

saving  == <<data, dlen, accepted>>
copying == <<size, copies, carried>>
loading == <<head, held, loaded>>
recordsVars == <<phase, word, at, step, did, dcap, saving, copying, loading, streamVars>>

L == INSTANCE Latch WITH Threads <- Users

Record(t, k) == [i \in 1 .. RecLen |-> <<t, k, i>>]

RecordsInit ==
  /\ phase = "save" /\ L!Init
  /\ step = [t \in Users |-> "check"]
  /\ did = [t \in Users |-> 0]
  /\ dcap \in Capacities
  /\ data = [i \in 1 .. dcap |-> <<>>] /\ dlen = 0 /\ accepted = {}
  /\ src = Source(<<>>, Unlimited) /\ dst = Dest("sink", 0, Unlimited)
  /\ copy = NoCopy /\ size = 1 /\ copies = 0 /\ carried = 0
  /\ head = 0 /\ held = [t \in Users |-> <<>>] /\ loaded = <<>>

Then(t, s) == step' = [step EXCEPT ![t] = s]
Inside(t, ph, s) == phase = ph /\ at[t] = "in" /\ step[t] = s

\* The latch is asked for, spun on, and given back.
Enter(t) ==
  /\ phase \in {"save", "load"}
  /\ did[t] < IF phase = "save" THEN MaxWrites ELSE MaxReads
  /\ L!Call(t)
  /\ did' = [did EXCEPT ![t] = @ + 1]
  /\ UNCHANGED <<phase, step, dcap, saving, copying, loading, streamVars>>

Acquire(t) ==
  /\ L!Exchange(t)
  /\ UNCHANGED <<phase, step, did, dcap, saving, copying, loading, streamVars>>

WaitLatch(t) ==
  /\ L!Miss(t) \/ L!SeeFree(t)
  /\ UNCHANGED <<phase, step, did, dcap, saving, copying, loading, streamVars>>

Leave(t) ==
  /\ at[t] = "in" /\ step[t] = "leave"
  /\ L!Unlock(t) /\ Then(t, "check")
  /\ UNCHANGED <<phase, did, dcap, saving, copying, loading, streamVars>>

-----------------------------------------------------------------------------
(* srlizr_write, inside the latch: the check, the memcpy, the new length.    *)

Fits == (dlen + RecLen) % Word <= dcap

\* Mutant: a refused write returns with the latch.
CheckWriteKeepsLatch(t) ==
  /\ Inside(t, "save", "check")
  /\ IF Fits THEN Then(t, "bytes") /\ UNCHANGED at
             ELSE at' = [at EXCEPT ![t] = "out"] /\ UNCHANGED step
  /\ held' = [held EXCEPT ![t] = <<>>]
  /\ UNCHANGED <<phase, word, did, dcap, saving, copying, head, loaded, streamVars>>

CheckWrite(t) ==
  /\ Inside(t, "save", "check")
  /\ Then(t, IF Fits THEN "bytes" ELSE "leave")
  /\ held' = [held EXCEPT ![t] = <<>>]
  /\ UNCHANGED <<phase, word, at, did, dcap, saving, copying, head, loaded, streamVars>>

\* `held` counts the bytes of the record memcpy has moved.
WriteByte(t) ==
  LET byte == Record(t, did[t])[Len(held[t]) + 1] IN
  /\ Inside(t, "save", "bytes")
  /\ data' = [data EXCEPT ![dlen + Len(held[t]) + 1] = byte]
  /\ held' = [held EXCEPT ![t] = Append(@, byte)]
  /\ Then(t, IF Len(held[t]) + 1 = RecLen THEN "length" ELSE "bytes")
  /\ UNCHANGED <<phase, word, at, did, dcap, dlen, accepted, copying, head, loaded, streamVars>>

WriteLength(t) ==
  /\ Inside(t, "save", "length")
  /\ dlen' = dlen + RecLen
  /\ accepted' = accepted \cup {<<t, did[t]>>}
  /\ Then(t, "leave")
  /\ UNCHANGED <<phase, word, at, did, dcap, data, copying, loading, streamVars>>

-----------------------------------------------------------------------------
(* The copy: what was serialized is a stream_ibuf's buffer.                  *)

AllOut == \A t \in Users : at[t] = "out"

BeginCopy ==
  /\ phase = "save" /\ AllOut /\ phase' = "copy"
  /\ \E s \in Sizes, d \in Dests, from, to \in Limits :
       /\ size' = s
       /\ src' = Source(SubSeq(data, 1, dlen), from)
       /\ dst' = Dest(d.kind, d.cap, to)
  /\ UNCHANGED <<word, at, step, did, dcap, saving, copy, copies, carried, loading>>

\* A caller stops at an error.
Carry ==
  /\ phase = "copy" /\ copies < MaxCopies
  /\ copy.at = "returned" => copy.ret >= 0
  /\ \E n \in Counts : StreamRead(size, n)
  /\ copies' = copies + 1
  /\ UNCHANGED <<phase, word, at, step, did, dcap, saving, size, carried, loading>>

StepCopy ==
  /\ phase = "copy" /\ StreamStep
  /\ carried' = carried + IF copy'.at = "returned" /\ copy'.ret > 0 THEN copy'.ret ELSE 0
  /\ UNCHANGED <<phase, word, at, step, did, dcap, saving, size, copies, loading>>

-----------------------------------------------------------------------------
(* dsrlizr_read of what a stream_obuf received, as far as it was reported.   *)

Received == carried * size

BeginLoad ==
  /\ phase = "copy" /\ copy.at = "returned" /\ phase' = "load"
  /\ dst.kind = "obuf" /\ Received > 0
  /\ did'  = [t \in Users |-> 0]
  /\ held' = [t \in Users |-> <<>>]
  /\ UNCHANGED <<word, at, step, dcap, saving, copying, head, loaded, streamVars>>

Holds == (head + RecLen) % Word <= Received

CheckRead(t) ==
  /\ Inside(t, "load", "check")
  /\ Then(t, IF Holds THEN "bytes" ELSE "leave")
  /\ held' = [held EXCEPT ![t] = <<>>]
  /\ UNCHANGED <<phase, word, at, did, dcap, saving, copying, head, loaded, streamVars>>

ReadByte(t) ==
  /\ Inside(t, "load", "bytes")
  /\ held' = [held EXCEPT ![t] = Append(@, dst.out[head + Len(@) + 1])]
  /\ Then(t, IF Len(held[t]) + 1 = RecLen THEN "length" ELSE "bytes")
  /\ UNCHANGED <<phase, word, at, did, dcap, saving, copying, head, loaded, streamVars>>

MoveHead(t) ==
  /\ Inside(t, "load", "length")
  /\ head' = head + RecLen
  /\ loaded' = Append(loaded, held[t])
  /\ Then(t, "leave")
  /\ UNCHANGED <<phase, word, at, did, dcap, saving, copying, held, streamVars>>

-----------------------------------------------------------------------------
Work(t) ==
  \/ Leave(t)
  \/ CheckWrite(t) \/ WriteByte(t) \/ WriteLength(t)
  \/ CheckRead(t)  \/ ReadByte(t)  \/ MoveHead(t)

RecordsNext ==
  \/ \E t \in Users : Enter(t) \/ Acquire(t) \/ WaitLatch(t) \/ Work(t)
  \/ BeginCopy \/ Carry \/ StepCopy \/ BeginLoad

\* Every thread is scheduled, and one that keeps trying a latch that keeps
\* becoming free gets it in the end; nothing else makes the exchange succeed.
RecordsSpec ==
  /\ RecordsInit /\ [][RecordsNext]_recordsVars
  /\ WF_recordsVars(StepCopy)
  /\ \A t \in Users : /\ WF_recordsVars(Work(t))
                       /\ SF_recordsVars(L!SeeFree(t) /\ WaitLatch(t))
                       /\ SF_recordsVars(Acquire(t))

-----------------------------------------------------------------------------
\* The types of the variables (struct serializer, stream and deserializer).
RecordsTypeOK ==
  /\ phase \in {"save", "copy", "load"} /\ L!LatchTypeOK
  /\ step \in [Users -> {"check", "bytes", "length", "leave"}]
  /\ dlen \in 0 .. dcap /\ DOMAIN data = 1 .. dcap
  /\ src.pos \in 0 .. Len(src.buf) /\ src.consumed \in Nat
  /\ dst.consumed \in Nat /\ dst.kind # "sink" => dst.pos \in Nat
  /\ copy.at \in {"idle", "pull", "push", "returned"}
  /\ head \in 0 .. Received \/ phase # "load"
  /\ \A t \in Users : Len(held[t]) <= RecLen

Block(bytes, i) == SubSeq(bytes, (i - 1) * RecLen + 1, i * RecLen)

\* However the writers race for the latch, what is serialized is one whole
\* record after the other: each that was accepted, once, and none that was
\* refused (srlizr_write).
SavedRecordsAreWhole ==
  /\ dlen = Cardinality(accepted) * RecLen
  /\ {Block(data, i) : i \in 1 .. dlen \div RecLen} = {Record(r[1], r[2]) : r \in accepted}

\* What is loaded are the saved records from the first on, in their order, each
\* read once and by one reader, whatever the streams in between cut off.
LoadedIsSaved ==
  /\ Len(loaded) * RecLen <= dlen
  /\ \A i \in DOMAIN loaded : loaded[i] = Block(data, i)

\* The copy keeps the order, doubles and skips nothing, and never reports more
\* elements than have arrived (stream_read and the push of every stream).
CopyIsPrefix ==
  /\ Len(dst.out) <= src.pos
  /\ dst.out = SubSeq(src.buf, 1, Len(dst.out))
  /\ carried * size <= Len(dst.out)

Returned == phase = "copy" /\ copy.at = "returned"

\* Where a buffer ends inside an element, pull and push move the part that fits
\* and return 0, not done.
Torn ==
  \/ Len(src.buf) % size # 0
  \/ dst.kind = "obuf" /\ dst.cap % size # 0

\* Bytes pulled out of the source that did not arrive are lost with the buffer
\* of stream_read: never unless it fails or the destination takes no more.
LossIsReported ==
  Returned /\ Len(dst.out) < src.pos =>
    copy.ret < 0 \/ dst.done \/ Torn

\* A return smaller than n with neither stream done would leave a caller that
\* goes by stream_isdone, as stream.h says, without a way to tell.
ShortMeansDone ==
  Returned /\ copy.ret >= 0 /\ copy.ret < copy.n => src.done \/ dst.done \/ Torn

\* What was written is what is read back: records stay whole, a copy between
\* them is a prefix, and each is loaded once (serializer.c, stream.c,
\* deserializer.c).
RecordsInv ==
  /\ RecordsTypeOK
  /\ SavedRecordsAreWhole /\ LoadedIsSaved
  /\ CopyIsPrefix /\ ShortMeansDone

\* A stream_read returns, and whoever wants the latch gets it and gives it back.
CallsEnd ==
  /\ copy.at \in {"pull", "push"} ~> copy.at = "returned"
  /\ \A t \in Users : at[t] # "out" ~> at[t] = "out"

=============================================================================
