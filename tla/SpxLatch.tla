------------------------------ MODULE SpxLatch ------------------------------
(***************************************************************************)
(* The S/X spin latch of include/c_specx/concurrency/spx_latch.h: one      *)
(* atomic word, 16 bits that count the readers below one bit that says     *)
(* exclusively locked.  Every atomic load, store and read-modify-write is  *)
(* a step of its own; a weak compare-exchange may fail for no reason.      *)
(***************************************************************************)
EXTENDS Naturals, FiniteSets

CONSTANTS
  Threads,   \* the threads that use the latch
  S_MASK     \* the largest reader count the word can hold

ASSUME ThreadsAssumption == IsFiniteSet(Threads)
\* The latch checks nowhere that the readers fit in their 16 bits.
ASSUME ReadersFit == S_MASK \in Nat /\ Cardinality(Threads) <= S_MASK

VARIABLES
  latch,      \* the word: [s |-> bits [15:0], x |-> bit 16]
  pc,         \* where each thread is
  val,        \* each thread's local copy of the word
  upgrading,  \* the threads inside spx_upgrade_s_x
  current,    \* history: the threads whose reading no writer has outdated
  dropped     \* history: the threads that gave their S up in an upgrade

vars == <<latch, pc, val, upgrading, current, dropped>>

Words == [s : 0..S_MASK, x : BOOLEAN]
Zero  == [s |-> 0, x |-> FALSE]

\* Where a thread is counted in the S bits, and where it owns the X bit.
SPlaces == {"read", "upgrade", "promote", "yield"}
XPlaces == {"drain", "write"}
Places  == {"idle", "lock", "cas", "spin", "wait"} \cup SPlaces \cup XPlaces

TypeOK ==
  /\ latch \in Words
  /\ pc \in [Threads -> Places]
  /\ val \in [Threads -> Words]
  /\ upgrading \subseteq Threads
  /\ current \subseteq Threads
  /\ dropped \subseteq Threads

-----------------------------------------------------------------------------
\* spx_latch_init
Init ==
  /\ latch = Zero
  /\ pc = [t \in Threads |-> "idle"]
  /\ val = [t \in Threads |-> Zero]
  /\ upgrading = {}
  /\ current = {}
  /\ dropped = {}

\* val + 1: one reader too many carries into the X bit.
PlusOne(v) == IF v.s < S_MASK THEN [v EXCEPT !.s = @ + 1]
                              ELSE [s |-> 0, x |-> ~v.x]
MinusOne(v) == [v EXCEPT !.s = @ - 1]

Goto(t, from, to) ==
  /\ pc[t] = from
  /\ pc' = [pc EXCEPT ![t] = to]

\* t loads the word into its local copy.
Load(t) == val' = [val EXCEPT ![t] = latch]

LockS(t) ==
  /\ Goto(t, "idle", "lock")
  /\ UNCHANGED <<latch, val, upgrading, current, dropped>>

\* spx_lock_s: the first load, then the load of the spin loop.
LockLoad(t) ==
  /\ Goto(t, "lock", IF latch.x THEN "spin" ELSE "cas")
  /\ Load(t)
  /\ UNCHANGED <<latch, upgrading, current, dropped>>

Spin(t) ==
  /\ Goto(t, "spin", IF latch.x THEN "spin" ELSE "cas")
  /\ Load(t)
  /\ UNCHANGED <<latch, upgrading, current, dropped>>

\* The compare-exchange succeeds: t holds S, and resumes its upgrade if it was
\* in one.  What the caller read before an upgrade stays as old as it was.
CasS(t) ==
  /\ latch = val[t]
  /\ Goto(t, "cas", IF t \in upgrading THEN "upgrade" ELSE "read")
  /\ latch' = PlusOne(val[t])
  /\ current' = IF t \in upgrading THEN current ELSE current \cup {t}
  /\ UNCHANGED <<val, upgrading, dropped>>

CasSFails(t) ==
  /\ Goto(t, "cas", "spin")
  /\ Load(t)
  /\ UNCHANGED <<latch, upgrading, current, dropped>>

UnlockS(t) ==
  /\ Goto(t, "read", "idle")
  /\ latch' = MinusOne(latch)
  /\ current' = current \ {t}
  /\ UNCHANGED <<val, upgrading, dropped>>

UpgradeSX(t) ==
  /\ Goto(t, "read", "upgrade")
  /\ upgrading' = upgrading \cup {t}
  /\ UNCHANGED <<latch, val, current, dropped>>

\* spx_upgrade_s_x loads the word and looks at its X bit.
UpgradeLoad(t) ==
  /\ Goto(t, "upgrade", IF latch.x THEN "yield" ELSE "promote")
  /\ Load(t)
  /\ UNCHANGED <<latch, upgrading, current, dropped>>

\* Mutant: sets X and keeps the own S counted.
CasXKeepsS(t) ==
  /\ latch = val[t]
  /\ Goto(t, "promote", "drain")
  /\ latch' = [val[t] EXCEPT !.x = TRUE]
  /\ UNCHANGED <<val, upgrading, current, dropped>>

\* Sets X and gives up the own S in one compare-exchange ...
CasX(t) ==
  /\ latch = val[t]
  /\ Goto(t, "promote", "drain")
  /\ latch' = [MinusOne(val[t]) EXCEPT !.x = TRUE]
  /\ UNCHANGED <<val, upgrading, current, dropped>>

\* Mutant: does not look at the X bit again.
CasXFailsBlind(t) ==
  /\ Goto(t, "promote", "promote")
  /\ Load(t)
  /\ UNCHANGED <<latch, upgrading, current, dropped>>

\* ... which, when it fails, loads the word and tries again.
CasXFails(t) ==
  /\ Goto(t, "promote", IF latch.x THEN "yield" ELSE "promote")
  /\ Load(t)
  /\ UNCHANGED <<latch, upgrading, current, dropped>>

\* Mutant: waits for X to clear without releasing S.
YieldKeepsS(t) ==
  /\ Goto(t, "yield", "wait")
  /\ dropped' = dropped \cup {t}
  /\ UNCHANGED <<latch, val, upgrading, current>>

\* X is already held: release S so that its owner can drain the readers.
Yield(t) ==
  /\ Goto(t, "yield", "wait")
  /\ latch' = MinusOne(latch)
  /\ dropped' = dropped \cup {t}
  /\ UNCHANGED <<val, upgrading, current>>

\* Wait for X to clear, then start over with spx_lock_s.
Wait(t) ==
  /\ Goto(t, "wait", IF latch.x THEN "wait" ELSE "lock")
  /\ Load(t)
  /\ UNCHANGED <<latch, upgrading, current, dropped>>

\* Mutant: does not wait for the readers.
DrainedAtOnce(t) ==
  /\ Goto(t, "drain", "write")
  /\ upgrading' = upgrading \ {t}
  /\ current' = current \cap {t}
  /\ UNCHANGED <<latch, val, dropped>>

\* The remaining readers are gone: t writes, and outdates what others read.
Drained(t) ==
  /\ latch.s = 0
  /\ Goto(t, "drain", "write")
  /\ upgrading' = upgrading \ {t}
  /\ current' = current \cap {t}
  /\ UNCHANGED <<latch, val, dropped>>

UnlockX(t) ==
  /\ Goto(t, "write", "idle")
  /\ latch' = Zero
  /\ current' = current \ {t}
  /\ dropped' = dropped \ {t}
  /\ UNCHANGED <<val, upgrading>>

\* Everything a thread does once it has called spx_lock_s.
Step(t) == \/ LockLoad(t) \/ Spin(t) \/ CasS(t) \/ CasSFails(t)
           \/ UnlockS(t) \/ UpgradeSX(t) \/ UpgradeLoad(t)
           \/ CasX(t) \/ CasXFails(t) \/ Yield(t) \/ Wait(t)
           \/ Drained(t) \/ UnlockX(t)

Next == \E t \in Threads : LockS(t) \/ Step(t)

Spec == Init /\ [][Next]_vars

\* Every thread inside a call keeps running, and a holder lets go in the end.
FairSpec == Spec /\ \A t \in Threads : WF_vars(Step(t))

-----------------------------------------------------------------------------
\* The S bits count the readers, and the X bit is set exactly while one thread
\* drains them or writes: storing 0 in spx_unlock_x takes nobody's S away.
WordMatchesHolders ==
  /\ latch.s = Cardinality({t \in Threads : pc[t] \in SPlaces})
  /\ latch.x <=> \E t \in Threads : pc[t] \in XPlaces

\* A writer is alone: no reader and no other writer.
WriterIsAlone ==
  \A t, u \in Threads :
    t # u /\ pc[t] = "write" => pc[u] \notin SPlaces \cup {"write"}

\* The word says who is inside, and a writer is alone (spx_latch.h).
Inv == TypeOK /\ WordMatchesHolders /\ WriterIsAlone

\* A writer that never lost its S writes over what it read: nobody wrote
\* between its spx_lock_s and its write.
UpgradeKeepsReading ==
  \A t \in Threads : pc[t] \in SPlaces \cup XPlaces => t \in current \cup dropped

\* The latch does what an S/X lock does; a thread that drains still counts as a
\* reader there.
Abs == INSTANCE SharedExclusiveLock WITH
         readers <- {t \in Threads : pc[t] \in SPlaces \cup {"drain"}},
         writers <- {t \in Threads : pc[t] = "write"}

ImplementsSXLock == Abs!Spec

\* A thread that has set X becomes the writer: the readers leave, those that
\* want to upgrade too, and no new one comes in.
DrainEnds == \A t \in Threads : pc[t] = "drain" ~> pc[t] = "write"

=============================================================================
