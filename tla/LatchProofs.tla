----------------------------- MODULE LatchProofs -----------------------------
(***************************************************************************)
(* Proofs about the two latches, the task that waits on conditions, and    *)
(* the calls a latch makes atomic.                                         *)
(*  - SpxLatch, for any finite set of threads that fit in the reader       *)
(*    count: a writer is alone, an upgrade that kept its S keeps what it   *)
(*    read, and the latch implements SharedExclusiveLock.                  *)
(*  - PeriodicTask, for any number of wakers: nothing freed in use, no     *)
(*    signal lost, no wake forgotten.                                      *)
(*  - Records, for any users, capacities, element sizes, limits and sinks: *)
(*    records written and read under the spin latch stay whole, the copy   *)
(*    between them is a prefix, and what a copy loses it reports.          *)
(***************************************************************************)
EXTENDS SpxLatch, PeriodicTask, Records, SequenceTheorems, FiniteSetTheorems, TLAPS

Readers == {t \in Threads : pc[t] \in SPlaces}

\* At most one thread owns the X bit, and no reader is left beside a writer.
OneOwner ==
  /\ \A t, u \in Threads : pc[t] \in XPlaces /\ pc[u] \in XPlaces => t = u
  /\ (\E t \in Threads : pc[t] = "write") => latch.s = 0

\* A thread that is about to compare-exchange has seen X clear.
LocalCopies == \A t \in Threads : pc[t] \in {"cas", "promote"} => ~val[t].x

\* Only a thread that gave up its S waits or spins inside an upgrade.
UpgradeInv ==
  \A t \in Threads :
    /\ pc[t] \in {"upgrade", "promote", "yield", "wait", "drain"} => t \in upgrading
    /\ pc[t] \in {"idle", "read", "write"} => t \notin upgrading
    /\ t \in upgrading /\ pc[t] \in {"lock", "cas", "spin", "wait"} => t \in dropped

IInv == /\ TypeOK
        /\ WordMatchesHolders
        /\ OneOwner
        /\ LocalCopies
        /\ UpgradeInv
        /\ UpgradeKeepsReading

USE DEF SPlaces, XPlaces

-----------------------------------------------------------------------------
\* Readers is finite, and the count leaves room for a thread not yet in it.
LEMMA ReadersCount ==
  ASSUME IInv
  PROVE  /\ IsFiniteSet(Readers)
         /\ latch.s = Cardinality(Readers)
         /\ latch.s \in Nat
         /\ \A t \in Threads : pc[t] \notin SPlaces => latch.s < S_MASK
<1>1. IsFiniteSet(Readers) /\ Cardinality(Readers) \in Nat
  BY FS_Subset, FS_CardinalityType, ThreadsAssumption DEF Readers
<1>2. latch.s = Cardinality(Readers)
  BY DEF IInv, WordMatchesHolders, Readers
<1>3. ASSUME NEW t \in Threads, pc[t] \notin SPlaces
      PROVE  latch.s < S_MASK
  <2>1. Readers \subseteq Threads \ {t} /\ t \notin Threads \ {t}
    BY <1>3 DEF Readers
  <2>2. IsFiniteSet(Threads \ {t}) /\ Cardinality(Threads \ {t}) = Cardinality(Threads) - 1
    BY FS_RemoveElement, ThreadsAssumption
  <2>3. Cardinality(Readers) <= Cardinality(Threads \ {t})
    BY <2>1, <2>2, FS_Subset
  <2>4. Cardinality(Threads) \in Nat
    BY FS_CardinalityType, ThreadsAssumption
  <2>5. QED
    BY <1>1, <1>2, <2>2, <2>3, <2>4, ReadersFit
<1>4. QED
  BY <1>1, <1>2, <1>3

\* A step that changes neither the word nor any thread's place in the two
\* groups keeps what relates them.
LEMMA PlacesUnchanged ==
  ASSUME IInv, latch' = latch,
         \A u \in Threads : /\ pc'[u] \in SPlaces <=> pc[u] \in SPlaces
                            /\ pc'[u] \in XPlaces <=> pc[u] \in XPlaces
                            /\ pc'[u] = "write" => pc[u] = "write"
  PROVE  WordMatchesHolders' /\ OneOwner'
<1>1. Readers' = Readers
  BY DEF Readers
<1>2. WordMatchesHolders'
  BY <1>1 DEF IInv, WordMatchesHolders, Readers
<1>3. OneOwner'
  BY DEF IInv, OneOwner
<1>4. QED
  BY <1>2, <1>3

\* A thread enters the readers while nobody owns X, or leaves them.
LEMMA ReaderEnters ==
  ASSUME IInv, NEW t \in Threads, pc[t] \notin SPlaces \cup XPlaces, ~latch.x,
         latch' = PlusOne(latch), NEW p \in SPlaces, pc' = [pc EXCEPT ![t] = p]
  PROVE  latch' \in Words /\ WordMatchesHolders' /\ OneOwner'
<1>1. latch \in Words /\ pc \in [Threads -> Places]
  BY DEF IInv, TypeOK
<1>2. latch' = [latch EXCEPT !.s = @ + 1] /\ latch.s < S_MASK
  BY ReadersCount DEF PlusOne
<1>3. latch' \in Words /\ latch'.s = latch.s + 1 /\ latch'.x = latch.x
  BY <1>1, <1>2, ReadersFit DEF Words
<1>4. Readers' = Readers \cup {t} /\ t \notin Readers
  BY <1>1 DEF Readers
<1>5. Cardinality(Readers') = Cardinality(Readers) + 1
  BY <1>4, ReadersCount, FS_AddElement
<1>6. \A u \in Threads : pc'[u] \notin XPlaces
  BY <1>1 DEF IInv, WordMatchesHolders
<1>7. WordMatchesHolders'
  BY <1>3, <1>5, <1>6, ReadersCount DEF WordMatchesHolders, Readers
<1>8. OneOwner'
  BY <1>6 DEF OneOwner
<1>9. QED
  BY <1>3, <1>7, <1>8

\* A thread leaves the readers: the word loses one, whatever X says.
LEMMA ReaderLeaves ==
  ASSUME IInv, NEW t \in Threads, pc[t] \in SPlaces,
         latch' = MinusOne(latch),
         NEW p \in {"idle", "wait"}, pc' = [pc EXCEPT ![t] = p]
  PROVE  latch' \in Words /\ WordMatchesHolders' /\ OneOwner'
<1>1. latch \in Words /\ pc \in [Threads -> Places]
  BY DEF IInv, TypeOK
<1>2. t \in Readers
  BY DEF Readers
<1>3. latch.s # 0
  BY <1>2, ReadersCount, FS_EmptySet
<1>4. latch' \in Words /\ latch'.s = latch.s - 1 /\ latch'.x = latch.x
  BY <1>1, <1>3, ReadersCount, ReadersFit DEF Words, MinusOne
<1>5. Readers' = Readers \ {t}
  BY <1>1 DEF Readers
<1>6. Cardinality(Readers') = Cardinality(Readers) - 1
  BY <1>2, <1>5, ReadersCount, FS_RemoveElement
<1>7. \A u \in Threads : pc'[u] \in XPlaces <=> pc[u] \in XPlaces
  BY <1>1
<1>8. WordMatchesHolders'
  BY <1>4, <1>6, <1>7, ReadersCount DEF IInv, WordMatchesHolders, Readers
<1>9. OneOwner'
  BY <1>1, <1>3 DEF IInv, OneOwner
<1>10. QED
  BY <1>4, <1>8, <1>9

\* spx_latch_init establishes the invariant.
LEMMA InitIInv == Init => IInv
<1> SUFFICES ASSUME Init PROVE IInv
  OBVIOUS
<1>1. Zero \in Words /\ Zero.s = 0 /\ Zero.x = FALSE
  BY ReadersFit DEF Zero, Words
<1>2. Readers = {}
  BY DEF Init, Readers
<1>3. WordMatchesHolders
  BY <1>1, <1>2, FS_EmptySet DEF Init, WordMatchesHolders, Readers
<1>4. TypeOK
  BY <1>1 DEF Init, TypeOK, Places
<1>5. QED
  BY <1>3, <1>4 DEF Init, IInv, OneOwner, LocalCopies, UpgradeInv, UpgradeKeepsReading

\* Steps that leave the word alone: a load moves a thread to a place that fits
\* what it saw of the X bit.
LEMMA LoadStep ==
  ASSUME IInv, NEW t \in Threads,
         \/ LockLoad(t) \/ Spin(t) \/ CasSFails(t) \/ UpgradeLoad(t)
         \/ CasXFails(t) \/ Wait(t)
  PROVE  IInv'
<1> USE DEF LockLoad, Spin, CasSFails, UpgradeLoad, CasXFails, Wait, Goto, Load
<1>1. latch' = latch /\ upgrading' = upgrading /\ current' = current /\ dropped' = dropped
  OBVIOUS
<1>2. pc' \in [Threads -> Places] /\ val' = [val EXCEPT ![t] = latch]
  BY DEF IInv, TypeOK, Places
<1>3. /\ \A u \in Threads : u # t => pc'[u] = pc[u]
      /\ \/ pc[t] \in {"lock", "cas", "spin", "wait"} /\ pc'[t] \in {"lock", "cas", "spin", "wait"}
         \/ pc[t] \in {"upgrade", "promote"} /\ pc'[t] \in {"yield", "promote"}
      /\ pc'[t] \in {"cas", "promote"} => ~latch.x \/ pc'[t] = pc[t]
      /\ pc'[t] = "wait" => pc[t] = "wait"
  BY DEF IInv, TypeOK
<1>4. TypeOK'
  BY <1>1, <1>2 DEF IInv, TypeOK
<1>5. WordMatchesHolders' /\ OneOwner'
  BY <1>1, <1>3, PlacesUnchanged
<1>6. LocalCopies'
  <2>1. pc'[t] \in {"cas", "promote"} => ~latch.x
    BY DEF IInv, TypeOK
  <2>2. QED
    BY <1>2, <1>3, <2>1 DEF IInv, TypeOK, LocalCopies
<1>7. UpgradeInv'
  BY <1>1, <1>3 DEF IInv, UpgradeInv
<1>8. UpgradeKeepsReading'
  BY <1>1, <1>3 DEF IInv, UpgradeKeepsReading
<1>9. QED
  BY <1>4, <1>5, <1>6, <1>7, <1>8 DEF IInv

\* Every atomic step of every thread keeps the invariant.
LEMMA NextIInv == IInv /\ [Next]_vars => IInv'
<1> SUFFICES ASSUME IInv, [Next]_vars PROVE IInv'
  OBVIOUS
<1>1. ASSUME NEW t \in Threads, LockS(t) \/ UpgradeSX(t)
      PROVE  IInv'
  <2> USE DEF LockS, UpgradeSX, Goto
  <2>1. TypeOK'
    BY <1>1 DEF IInv, TypeOK, Places
  <2>2. WordMatchesHolders' /\ OneOwner'
    BY <1>1, PlacesUnchanged DEF IInv, TypeOK
  <2>3. LocalCopies' /\ UpgradeInv'
    BY <1>1 DEF IInv, TypeOK, LocalCopies, UpgradeInv
  <2>4. UpgradeKeepsReading'
    BY <1>1 DEF IInv, TypeOK, UpgradeKeepsReading
  <2>5. QED
    BY <2>1, <2>2, <2>3, <2>4 DEF IInv
<1>2. ASSUME NEW t \in Threads, CasS(t)
      PROVE  IInv'
  <2> USE DEF CasS, Goto
  <2>1. ~latch.x /\ latch' = PlusOne(latch)
    BY <1>2 DEF IInv, LocalCopies
  <2>2. latch' \in Words /\ WordMatchesHolders' /\ OneOwner'
    <3>1. CASE t \in upgrading
      BY <1>2, <2>1, <3>1, ReaderEnters
    <3>2. CASE t \notin upgrading
      BY <1>2, <2>1, <3>2, ReaderEnters
    <3>3. QED
      BY <3>1, <3>2
  <2>3. TypeOK'
    BY <1>2, <2>2 DEF IInv, TypeOK, Places
  <2>4. LocalCopies' /\ UpgradeInv'
    BY <1>2 DEF IInv, TypeOK, LocalCopies, UpgradeInv
  <2>5. UpgradeKeepsReading'
    BY <1>2 DEF IInv, TypeOK, UpgradeKeepsReading, UpgradeInv
  <2>6. QED
    BY <2>2, <2>3, <2>4, <2>5 DEF IInv
<1>3. ASSUME NEW t \in Threads, UnlockS(t) \/ Yield(t)
      PROVE  IInv'
  <2> USE DEF UnlockS, Yield, Goto
  <2>1. latch' \in Words /\ WordMatchesHolders' /\ OneOwner'
    BY <1>3, ReaderLeaves
  <2>2. TypeOK'
    BY <1>3, <2>1 DEF IInv, TypeOK, Places
  <2>3. LocalCopies'
    BY <1>3 DEF IInv, TypeOK, LocalCopies
  <2>4. UpgradeInv'
    BY <1>3 DEF IInv, TypeOK, UpgradeInv
  <2>5. UpgradeKeepsReading'
    BY <1>3 DEF IInv, TypeOK, UpgradeKeepsReading
  <2>6. QED
    BY <2>1, <2>2, <2>3, <2>4, <2>5 DEF IInv
<1>4. ASSUME NEW t \in Threads, CasX(t)
      PROVE  IInv'
  <2> USE DEF CasX, Goto
  <2>1. /\ latch \in Words /\ pc \in [Threads -> Places] /\ ~latch.x
        /\ pc' = [pc EXCEPT ![t] = "drain"] /\ pc[t] = "promote"
    BY <1>4 DEF IInv, TypeOK, LocalCopies
  <2>2. t \in Readers
    BY <2>1 DEF Readers
  <2>3. latch.s # 0
    BY <2>2, ReadersCount, FS_EmptySet
  <2>4. latch' \in Words /\ latch'.s = latch.s - 1 /\ latch'.x
    <3>1. latch' = [[latch EXCEPT !.s = @ - 1] EXCEPT !.x = TRUE]
      BY <1>4 DEF MinusOne
    <3>2. latch.s - 1 \in 0..S_MASK
      BY <2>1, <2>3, ReadersCount, ReadersFit DEF Words
    <3>3. QED
      BY <2>1, <3>1, <3>2 DEF Words
  <2>5. Readers' = Readers \ {t}
    BY <2>1 DEF Readers
  <2>6. Cardinality(Readers') = Cardinality(Readers) - 1
    BY <2>2, <2>5, ReadersCount, FS_RemoveElement
  <2>7. \A u \in Threads : pc[u] \notin XPlaces
    BY <2>1 DEF IInv, WordMatchesHolders
  <2>8. WordMatchesHolders'
    <3>1. pc'[t] \in XPlaces
      BY <2>1
    <3>2. QED
      BY <2>4, <2>6, <3>1, ReadersCount DEF WordMatchesHolders, Readers
  <2>9. OneOwner'
    BY <2>1, <2>7 DEF OneOwner
  <2>10. TypeOK'
    BY <1>4, <2>1, <2>4 DEF IInv, TypeOK, Places
  <2>11. LocalCopies' /\ UpgradeInv'
    BY <1>4 DEF IInv, TypeOK, LocalCopies, UpgradeInv
  <2>12. UpgradeKeepsReading'
    BY <1>4 DEF IInv, TypeOK, UpgradeKeepsReading
  <2>13. QED
    BY <2>8, <2>9, <2>10, <2>11, <2>12 DEF IInv
<1>5. ASSUME NEW t \in Threads, Drained(t)
      PROVE  IInv'
  <2> USE DEF Drained, Goto
  <2>1. /\ latch' = latch /\ latch.s = 0 /\ pc \in [Threads -> Places]
        /\ pc' = [pc EXCEPT ![t] = "write"] /\ pc[t] = "drain"
    BY <1>5 DEF IInv, TypeOK
  <2>2. \A u \in Threads : pc[u] \notin SPlaces /\ (pc[u] \in XPlaces => u = t)
    <3>1. Readers = {}
      BY <2>1, ReadersCount, FS_EmptySet
    <3>2. QED
      BY <2>1, <3>1 DEF IInv, OneOwner, Readers
  <2>3. WordMatchesHolders'
    <3>1. Readers' = Readers
      BY <2>1 DEF Readers
    <3>2. QED
      BY <2>1, <3>1 DEF IInv, WordMatchesHolders, Readers
  <2>4. OneOwner'
    BY <2>1 DEF IInv, OneOwner
  <2>5. TypeOK'
    BY <1>5 DEF IInv, TypeOK, Places
  <2>6. LocalCopies' /\ UpgradeInv'
    BY <1>5 DEF IInv, TypeOK, LocalCopies, UpgradeInv
  <2>7. UpgradeKeepsReading'
    BY <1>5, <2>1, <2>2 DEF IInv, TypeOK, UpgradeKeepsReading
  <2>8. QED
    BY <2>3, <2>4, <2>5, <2>6, <2>7 DEF IInv
<1>6. ASSUME NEW t \in Threads, UnlockX(t)
      PROVE  IInv'
  <2> USE DEF UnlockX, Goto
  <2>1. /\ latch' = Zero /\ Zero.s = 0 /\ ~Zero.x /\ Zero \in Words
        /\ latch.s = 0 /\ pc \in [Threads -> Places]
        /\ pc' = [pc EXCEPT ![t] = "idle"] /\ pc[t] = "write"
    BY <1>6, ReadersFit DEF IInv, TypeOK, OneOwner, Zero, Words
  <2>2. \A u \in Threads : pc'[u] \notin XPlaces
    BY <2>1 DEF IInv, OneOwner
  <2>3. WordMatchesHolders'
    <3>1. Readers' = Readers
      BY <2>1 DEF Readers
    <3>2. QED
      BY <2>1, <2>2, <3>1 DEF IInv, WordMatchesHolders, Readers
  <2>4. OneOwner'
    BY <2>2 DEF OneOwner
  <2>5. TypeOK'
    BY <1>6, <2>1 DEF IInv, TypeOK, Places
  <2>6. LocalCopies'
    BY <1>6 DEF IInv, TypeOK, LocalCopies
  <2>7. UpgradeInv'
    <3>1. t \notin upgrading
      BY <2>1 DEF IInv, UpgradeInv
    <3>2. QED
      BY <1>6, <2>1, <3>1 DEF IInv, TypeOK, UpgradeInv
  <2>8. UpgradeKeepsReading'
    BY <1>6, <2>1 DEF IInv, TypeOK, UpgradeKeepsReading
  <2>9. QED
    BY <2>3, <2>4, <2>5, <2>6, <2>7, <2>8 DEF IInv
<1>7. CASE UNCHANGED vars
  BY <1>7 DEF vars, IInv, TypeOK, WordMatchesHolders, OneOwner, LocalCopies,
              UpgradeInv, UpgradeKeepsReading
<1>8. QED
  BY <1>1, <1>2, <1>3, <1>4, <1>5, <1>6, <1>7, LoadStep DEF Next, Step

-----------------------------------------------------------------------------
\* The inductive invariant holds in every reachable state.
THEOREM Invariance == Spec => []IInv
BY InitIInv, NextIInv, PTL DEF Spec

\* A thread that holds X is alone, and the word counts its holders
\* (spx_latch.h: every lock, unlock and upgrade, step by step).
THEOREM Safety == Spec => []Inv
<1>1. IInv => WriterIsAlone
  <2> SUFFICES ASSUME IInv, NEW t \in Threads, NEW u \in Threads,
                      t # u, pc[t] = "write"
               PROVE  pc[u] \notin SPlaces /\ pc[u] # "write"
    BY DEF WriterIsAlone
  <2>1. Readers = {}
    BY ReadersCount, FS_EmptySet DEF IInv, OneOwner
  <2>2. QED
    BY <2>1 DEF Readers, IInv, OneOwner
<1>2. IInv => Inv
  BY <1>1 DEF IInv, Inv
<1>3. QED
  BY <1>2, Invariance, PTL

\* An upgrade that never gave its S up writes over what it read
\* (spx_upgrade_s_x).
THEOREM Upgrades == Spec => []UpgradeKeepsReading
<1>1. IInv => UpgradeKeepsReading
  BY DEF IInv
<1>2. QED
  BY <1>1, Invariance, PTL

-----------------------------------------------------------------------------
\* Each atomic step is a step of the abstract lock, or one it does not see.
LEMMA StepImplementsSXLock == IInv /\ [Next]_vars => [Abs!Next]_(Abs!vars)
<1> SUFFICES ASSUME IInv, [Next]_vars PROVE [Abs!Next]_(Abs!vars)
  OBVIOUS
<1> USE DEF Goto
<1>0. pc \in [Threads -> Places]
  BY DEF IInv, TypeOK
<1>1. ASSUME NEW t \in Threads, CasS(t)
      PROVE  Abs!AcquireS(t)
  <2>1. \A u \in Threads : pc[u] \notin XPlaces
    BY <1>1 DEF CasS, IInv, LocalCopies, WordMatchesHolders
  <2>2. PICK p \in SPlaces : pc' = [pc EXCEPT ![t] = p] /\ pc[t] = "cas"
    BY <1>1 DEF CasS
  <2>3. QED
    BY <1>0, <2>1, <2>2 DEF Abs!AcquireS
<1>2. ASSUME NEW t \in Threads, UnlockS(t) \/ Yield(t)
      PROVE  Abs!ReleaseS(t)
  <2>1. PICK p \in {"idle", "wait"} : pc' = [pc EXCEPT ![t] = p] /\ pc[t] \in SPlaces
    BY <1>2 DEF UnlockS, Yield
  <2>2. QED
    BY <1>0, <2>1 DEF Abs!ReleaseS
<1>3. ASSUME NEW t \in Threads, Drained(t)
      PROVE  Abs!Promote(t)
  <2>1. pc' = [pc EXCEPT ![t] = "write"] /\ pc[t] = "drain" /\ latch.s = 0
    BY <1>3 DEF Drained
  <2>2. \A u \in Threads : pc[u] \notin SPlaces /\ (pc[u] \in XPlaces => u = t)
    <3>1. Readers = {}
      BY <2>1, ReadersCount, FS_EmptySet
    <3>2. QED
      BY <2>1, <3>1 DEF IInv, OneOwner, Readers
  <2>3. QED
    BY <1>0, <2>1, <2>2 DEF Abs!Promote
<1>4. ASSUME NEW t \in Threads, UnlockX(t)
      PROVE  Abs!ReleaseX(t)
  <2>1. pc' = [pc EXCEPT ![t] = "idle"] /\ pc[t] = "write"
    BY <1>4 DEF UnlockX
  <2>2. QED
    BY <1>0, <2>1 DEF IInv, OneOwner, Abs!ReleaseX
<1>5. ASSUME NEW t \in Threads,
             \/ LockS(t) \/ LockLoad(t) \/ Spin(t) \/ CasSFails(t) \/ UpgradeSX(t)
             \/ UpgradeLoad(t) \/ CasX(t) \/ CasXFails(t) \/ Wait(t)
      PROVE  UNCHANGED Abs!vars
  <2>1. PICK p : /\ pc' = [pc EXCEPT ![t] = p]
                 /\ p \in SPlaces \cup {"drain"} <=> pc[t] \in SPlaces \cup {"drain"}
                 /\ p # "write" /\ pc[t] # "write"
    BY <1>5 DEF LockS, LockLoad, Spin, CasSFails, UpgradeSX, UpgradeLoad, CasX,
                CasXFails, Wait
  <2>2. QED
    BY <1>0, <2>1 DEF Abs!vars
<1>6. CASE UNCHANGED vars
  BY <1>6 DEF vars, Abs!vars
<1>7. QED
  BY <1>1, <1>2, <1>3, <1>4, <1>5, <1>6 DEF Next, Step, Abs!Next

\* The latch of spx_latch.h implements the abstract S/X lock.
THEOREM Implementation == Spec => ImplementsSXLock
<1>1. Init => Abs!Init
  BY DEF Init, Abs!Init
<1>2. QED
  BY <1>1, StepImplementsSXLock, Invariance, PTL DEF Spec, ImplementsSXLock, Abs!Spec
-----------------------------------------------------------------------------
(***************************************************************************)
(* The periodic task of concurrency/periodic_task.h, which has a mutex and *)
(* condition variables of its own.  For any number of wakers it frees      *)
(* nothing that is in use, loses no signal and forgets no wake.  The       *)
(* invariant is inductive as it is checked, because Stages ties the worker *)
(* to the owner's call.                                                    *)
(***************************************************************************)
TaskKept == TaskInv /\ WakeIsKept

USE WakersAssumption
USE DEF TaskKept, TaskInv, TaskTypeOK, Stages, NothingFreedInUse, NoLostWakeup,
        WakeIsKept, WorkerPlaces, OwnerPlaces

LEMMA TaskInitKept == TaskInit => TaskKept
BY DEF TaskInit

\* periodic_task_init and periodic_task_start: the worker has nothing yet that
\* it could have missed.
LEMMA OwnerStarts == ASSUME TaskKept, Initialise \/ Start \/ Started PROVE TaskKept'
<1> USE DEF Owner, Worker, flags
<1>1. CASE Initialise
  BY <1>1 DEF Initialise
<1>2. CASE Start
  BY <1>2 DEF Start
<1>3. CASE Started
  BY <1>3 DEF Started
<1>4. QED
  BY <1>1, <1>2, <1>3

\* periodic_task_stop: the request is made and signalled under the mutex, and
\* what is freed belongs to a worker that has returned.
LEMMA OwnerStops ==
  ASSUME TaskKept,
         \/ StopEnter \/ StopRequest \/ AwaitEnter \/ AwaitDone
         \/ OwnerWakesForNothing \/ Free
  PROVE  TaskKept'
<1> USE DEF Owner, Worker, flags, TakeMutex, GiveMutex
<1>1. CASE StopEnter
  BY <1>1 DEF StopEnter
<1>2. CASE StopRequest
  BY <1>2 DEF StopRequest, SignalWake
<1>3. CASE AwaitEnter
  BY <1>3 DEF AwaitEnter
<1>4. CASE AwaitDone
  BY <1>4 DEF AwaitDone
<1>5. CASE OwnerWakesForNothing
  BY <1>5 DEF OwnerWakesForNothing
<1>6. CASE Free
  BY <1>6 DEF Free
<1>7. QED
  BY <1>1, <1>2, <1>3, <1>4, <1>5, <1>6

\* periodic_task_wake: the request is set before the signal and under the mutex.
LEMMA Wakes ==
  ASSUME TaskKept, NEW w \in Wakers, WakeEnter(w) \/ Wake(w)
  PROVE  TaskKept'
<1> USE DEF flags, TakeMutex, GiveMutex
<1>1. CASE WakeEnter(w)
  BY <1>1 DEF WakeEnter
<1>2. CASE Wake(w)
  BY <1>2 DEF Wake, SignalWake
<1>3. QED
  BY <1>1, <1>2

\* periodic_task_thread, up to the run of the function.
LEMMA WorkerLoops ==
  ASSUME TaskKept,
         WorkerEnter \/ WorkerSleep \/ TimedOut \/ WorkerTake \/ WorkerRun
  PROVE  TaskKept'
<1> USE DEF Worker, flags, TakeMutex, GiveMutex
<1>1. CASE WorkerEnter
  BY <1>1 DEF WorkerEnter
<1>2. CASE WorkerSleep
  BY <1>2 DEF WorkerSleep
<1>3. CASE TimedOut
  BY <1>3 DEF TimedOut
<1>4. CASE WorkerTake
  BY <1>4 DEF WorkerTake
<1>5. CASE WorkerRun
  BY <1>5 DEF WorkerRun
<1>6. QED
  BY <1>1, <1>2, <1>3, <1>4, <1>5

\* The end of periodic_task_thread: done is set and signalled under the mutex.
LEMMA WorkerEnds ==
  ASSUME TaskKept, WorkerFinish \/ WorkerDone \/ WorkerUnlock \/ WorkerExit
  PROVE  TaskKept'
<1> USE DEF Worker, flags, TakeMutex, GiveMutex
<1>1. CASE WorkerFinish
  BY <1>1 DEF WorkerFinish
<1>2. CASE WorkerDone
  BY <1>2 DEF WorkerDone, SignalDone
<1>3. CASE WorkerUnlock
  BY <1>3 DEF WorkerUnlock
<1>4. CASE WorkerExit
  BY <1>4 DEF WorkerExit
<1>5. QED
  BY <1>1, <1>2, <1>3, <1>4

\* Every step preserves the invariant.
LEMMA TaskNextKept == TaskKept /\ [TaskNext]_taskVars => TaskKept'
<1> SUFFICES ASSUME TaskKept, [TaskNext]_taskVars PROVE TaskKept'
  OBVIOUS
<1>1. CASE UNCHANGED taskVars
  BY <1>1 DEF taskVars
<1>2. CASE TaskNext
  BY <1>2, OwnerStarts, OwnerStops, Wakes, WorkerLoops, WorkerEnds DEF TaskNext
<1>3. QED
  BY <1>1, <1>2

HIDE DEF TaskKept, TaskInv, TaskTypeOK, Stages, NothingFreedInUse,
         NoLostWakeup, WakeIsKept, WorkerPlaces, OwnerPlaces

\* Whoever wakes the task and whenever it is stopped: nothing is freed in use, and
\* no thread sleeps on what it should act on (periodic_task_stop,
\* periodic_task_thread).
THEOREM TaskSafety == TaskSpec => []TaskInv
<1>1. TaskKept => TaskInv
  BY DEF TaskKept
<1>2. TaskKept /\ [TaskNext]_taskVars => TaskKept'
  BY TaskNextKept
<1>3. TaskInit => TaskKept
  BY TaskInitKept
<1>4. QED
  BY <1>1, <1>2, <1>3, PTL DEF TaskSpec

\* A wake stands until the function has run after it, or until the task stops:
\* no run that began before it takes the request (periodic_task_wake).
THEOREM WakesStand == TaskSpec => []WakeIsKept
<1>1. TaskKept => WakeIsKept
  BY DEF TaskKept
<1>2. TaskKept /\ [TaskNext]_taskVars => TaskKept'
  BY TaskNextKept
<1>3. TaskInit => TaskKept
  BY TaskInitKept
<1>4. QED
  BY <1>1, <1>2, <1>3, PTL DEF TaskSpec

-----------------------------------------------------------------------------
(* Records: arithmetic on elements and records, and sequences of bytes.      *)

HIDE WakersAssumption
HIDE DEF SPlaces, XPlaces

\* What is saved, copied and loaded: a byte of a record, or one never written.
Byte == {<<>>} \cup (Users \X Nat \X Nat)

\* The quotient and what bounds it.
LEMMA DivIs ==
  ASSUME NEW z \in Nat \ {0}, NEW a \in Nat
  PROVE  a \div z \in Nat /\ (a \div z) * z <= a /\ a < (a \div z) * z + z
OBVIOUS

\* A number given by quotient and rest has that quotient and that rest.
LEMMA ModOf ==
  ASSUME NEW z \in Nat \ {0}, NEW q \in Nat, NEW r \in Nat, r < z
  PROVE  (q * z + r) % z = r /\ (q * z + r) \div z = q
<1>1. (q * z + r) % z = r
  OBVIOUS
<1>2. (q * z + r) \div z = q
  OBVIOUS
<1>3. QED
  BY <1>1, <1>2

\* The rest is what division leaves.
LEMMA ModIsRest ==
  ASSUME NEW z \in Nat \ {0}, NEW a \in Nat
  PROVE  a % z \in Nat /\ a % z < z /\ a = (a \div z) * z + (a % z)
<1>1. PICK q \in Nat : q = a \div z /\ q * z <= a /\ a < q * z + z
  BY DivIs
<1>2. PICK m \in Nat : m = q * z
  OBVIOUS
<1>3. PICK r \in Nat : a = m + r /\ r < z
  <2>1. m <= a /\ a < m + z
    BY <1>1, <1>2
  <2>2. a - m \in Nat /\ a = m + (a - m) /\ a - m < z
    BY <2>1
  <2>3. QED
    BY <2>2
<1>4. (m + r) % z = r
  BY <1>2, <1>3, ModOf
<1>5. (a \div z) * z = m /\ a % z = r
  BY <1>1, <1>2, <1>3, <1>4
<1>6. QED
  BY <1>3, <1>5

\* Products of naturals, for the solver.
LEMMA TimesType ==
  ASSUME NEW i \in Nat, NEW j \in Nat
  PROVE  i * j \in Nat
OBVIOUS

\* A product grows with its factor ...
LEMMA TimesMono ==
  ASSUME NEW z \in Nat, NEW i \in Nat, NEW j \in Nat, i <= j
  PROVE  i * z <= j * z
OBVIOUS

\* ... and only with it ...
LEMMA TimesLess ==
  ASSUME NEW z \in Nat \ {0}, NEW i \in Nat, NEW j \in Nat, i * z < j * z
  PROVE  i < j
OBVIOUS

\* ... by a whole element at least.
LEMMA TimesNext ==
  ASSUME NEW z \in Nat, NEW i \in Nat, NEW j \in Nat, i < j
  PROVE  i * z + z <= j * z
OBVIOUS

\* One element more.
LEMMA Times1 ==
  ASSUME NEW z \in Nat, NEW i \in Int
  PROVE  (i + 1) * z = i * z + z /\ 1 * z = z /\ 0 * z = 0
OBVIOUS

\* Elements add up.
LEMMA TimesPlus ==
  ASSUME NEW z \in Nat, NEW i \in Nat, NEW j \in Nat
  PROVE  (i + j) * z = i * z + j * z
OBVIOUS

\* Whole elements divide without a rest ...
LEMMA DivOfTimes ==
  ASSUME NEW z \in Nat \ {0}, NEW k \in Nat
  PROVE  (k * z) \div z = k /\ (k * z) % z = 0
OBVIOUS

\* ... and nothing else does.
LEMMA ModZero ==
  ASSUME NEW z \in Nat \ {0}, NEW a \in Nat, a % z = 0
  PROVE  \E q \in Nat : a = q * z
<1>1. a = (a \div z) * z /\ a \div z \in Nat
  BY ModIsRest, DivIs
<1>2. QED
  BY <1>1

\* Whole elements do not change the rest.
LEMMA ModPlus ==
  ASSUME NEW z \in Nat \ {0}, NEW a \in Nat, NEW b \in Nat, a % z = 0
  PROVE  (a + b) % z = b % z
<1>1. PICK q \in Nat : a = q * z
  BY ModZero
<1>2. PICK p \in Nat : p = b \div z /\ b = p * z + (b % z) /\ b % z \in Nat /\ b % z < z
  BY ModIsRest, DivIs
<1>3. PICK r \in Nat : r = b % z /\ r < z
  BY <1>2
<1>4. a + b = (q + p) * z + r
  BY <1>1, <1>2, <1>3, TimesPlus
<1>5. ((q + p) * z + r) % z = r
  <2>1. PICK n \in Nat : n = q + p
    OBVIOUS
  <2>2. (n * z + r) % z = r
    BY <1>3, ModOf
  <2>3. QED
    BY <2>1, <2>2
<1>6. QED
  BY <1>3, <1>4, <1>5

\* An element that fits leaves room for one.
LEMMA RoomIsLeft ==
  ASSUME NEW z \in Nat, NEW a \in Nat, NEW c \in Nat, NEW l \in Nat, z <= a, c + a <= l
  PROVE  ~(l - c < z)
OBVIOUS

\* The least of two is one of them.
LEMMA LeastOf ==
  ASSUME NEW i \in Nat, NEW j \in Nat
  PROVE  /\ Least(i, j) \in Nat /\ Least(i, j) <= i /\ Least(i, j) <= j
         /\ Least(i, j) = i \/ Least(i, j) = j
BY DEF Least

\* A part of a sequence.
LEMMA PartIs ==
  ASSUME NEW S, NEW s \in Seq(S), NEW a \in Nat, NEW b \in Nat, a <= b, b <= Len(s)
  PROVE  /\ SubSeq(s, a + 1, b) \in Seq(S)
         /\ Len(SubSeq(s, a + 1, b)) = b - a
         /\ \A i \in 1 .. (b - a) : SubSeq(s, a + 1, b)[i] = s[a + i]
<1>1. Len(s) \in Nat /\ \A i \in (a + 1) .. b : s[i] \in S
  BY LenProperties, ElementOfSeq
<1>2. /\ SubSeq(s, a + 1, b) \in Seq(S)
      /\ Len(SubSeq(s, a + 1, b)) = IF a + 1 <= b THEN b - (a + 1) + 1 ELSE 0
      /\ \A i \in 1 .. (b - (a + 1) + 1) : SubSeq(s, a + 1, b)[i] = s[a + 1 + i - 1]
  BY <1>1, SubSeqProperties
<1>3. QED
  BY <1>2

\* The first bytes of a sequence.
LEMMA FrontOf ==
  ASSUME NEW S, NEW s \in Seq(S), NEW b \in Nat, b <= Len(s)
  PROVE  /\ SubSeq(s, 1, b) \in Seq(S)
         /\ Len(SubSeq(s, 1, b)) = b
         /\ \A i \in 1 .. b : SubSeq(s, 1, b)[i] = s[i]
<1>1. /\ SubSeq(s, 0 + 1, b) \in Seq(S)
      /\ Len(SubSeq(s, 0 + 1, b)) = b - 0
      /\ \A i \in 1 .. (b - 0) : SubSeq(s, 0 + 1, b)[i] = s[0 + i]
  BY PartIs
<1>2. QED
  BY <1>1

-----------------------------------------------------------------------------
(* Records: sources and destinations, and how each kind of sink takes bytes. *)

SourceType ==
  [buf : Seq(Byte), pos : Nat, inner : BOOLEAN,
   limit : Nat \cup {Unlimited}, consumed : Nat, done : BOOLEAN]

DestType ==
  [kind : {"obuf", "opsink", "sink", "other"}, cap : Nat, pos : Nat,
   out : Seq(Byte), inner : BOOLEAN,
   limit : Nat \cup {Unlimited}, consumed : Nat, done : BOOLEAN]

\* A limit is not overdrawn.
Within(s) == s.limit # Unlimited => s.consumed <= s.limit

\* A position is between two elements, or at the end of the buffer.
SourceOK(s, z) ==
  /\ s \in SourceType /\ Within(s)
  /\ s.pos <= Len(s.buf) /\ (s.pos = Len(s.buf) \/ s.pos % z = 0)

Placed(d, z) ==
  /\ d.kind = "obuf" => d.pos <= d.cap /\ (d.pos = d.cap \/ d.pos % z = 0)
  /\ d.kind = "opsink" => d.pos < d.cap /\ d.cap % z = 0 /\ d.pos % z = 0

DestOK(d, z) == d \in DestType /\ Within(d) /\ Placed(d, z)

\* What a limit lets through of n elements.
LEMMA CappedIs ==
  ASSUME NEW z \in Nat \ {0}, NEW n \in Nat, NEW s, s.limit \in Nat \cup {Unlimited},
         s.consumed \in Nat, Within(s)
  PROVE  /\ Capped(s, z, n) \in Nat /\ Capped(s, z, n) <= n
         /\ s.limit # Unlimited => s.consumed + Capped(s, z, n) * z <= s.limit
         /\ Capped(s, z, n) = 0 /\ n > 0 => s.limit # Unlimited /\ s.limit - s.consumed < z
<1>1. CASE s.limit = Unlimited
  BY <1>1 DEF Capped
<1>2. CASE s.limit # Unlimited
  <2>1. PICK l \in Nat : l = s.limit - s.consumed
    BY <1>2 DEF Within
  <2>2. PICK m \in Nat : m = z * n
    OBVIOUS
  <2>3. PICK a \in Nat : a = Least(m, l) /\ a <= m /\ a <= l /\ (a = m \/ a = l)
    BY LeastOf
  <2>4. PICK k \in Nat : k = a \div z /\ k * z <= a /\ a < k * z + z
    BY DivIs
  <2>5. Capped(s, z, n) = k
    BY <1>2, <2>1, <2>2, <2>3, <2>4 DEF Capped
  <2>6. k <= n
    <3>1. CASE n < k
      <4>1. n * z + z <= k * z
        BY <3>1, TimesNext
      <4>2. n * z = m
        BY <2>2
      <4>3. PICK kz \in Nat : kz = k * z
        OBVIOUS
      <4>4. QED
        BY ONLY z \in Nat \ {0}, m \in Nat, a \in Nat, kz \in Nat,
                <4>1, <4>2, <4>3, <2>3, <2>4
    <3>2. QED
      BY <3>1
  <2>7. s.consumed + k * z <= s.limit
    <3>1. PICK kz \in Nat : kz = k * z
      OBVIOUS
    <3>2. kz <= l /\ l = s.limit - s.consumed /\ s.limit \in Nat
      BY <1>2, <2>1, <2>3, <2>4, <3>1
    <3>3. QED
      BY <3>1, <3>2
  <2>8. k = 0 /\ n > 0 => l < z
    <3>1. SUFFICES ASSUME k = 0, n > 0 PROVE l < z
      OBVIOUS
    <3>2. a < z
      BY <2>4, <3>1
    <3>3. z <= m
      <4>1. 0 * z + z <= n * z /\ 0 * z = 0 /\ n * z = m
        BY <2>2, <3>1, TimesNext
      <4>2. QED
        BY <4>1
    <3>4. QED
      BY <2>3, <3>2, <3>3
  <2>9. QED
    BY <1>2, <2>1, <2>5, <2>6, <2>7, <2>8
<1>3. QED
  BY <1>1, <1>2

\* A limit counts what the stream inside moved, and is done when that was all.
LEMMA CountDestIs ==
  ASSUME NEW z \in Nat \ {0}, NEW m \in Nat, NEW d \in DestType,
         d.limit # Unlimited => d.consumed + m * z <= d.limit,
         NEW e, e = Count(d, z, m)
  PROVE  /\ e \in DestType /\ Within(e)
         /\ e.kind = d.kind /\ e.cap = d.cap /\ e.pos = d.pos /\ e.out = d.out
         /\ e.inner = d.inner /\ e.limit = d.limit
         /\ m = 0 => e.consumed = d.consumed
         /\ d.inner => e.done
<1>1. PICK mz \in Nat : mz = m * z /\ (m = 0 => mz = 0)
  OBVIOUS
<1>2. CASE d.limit = Unlimited
  <2>1. e = [d EXCEPT !.done = d.inner]
    BY <1>2 DEF Count
  <2>2. e \in DestType /\ e.limit = Unlimited
    BY <1>2, <2>1 DEF DestType
  <2>3. QED
    BY <1>2, <2>1, <2>2 DEF DestType, Within
<1>3. CASE d.limit # Unlimited
  <2>1. PICK u \in Nat : u = d.consumed + mz /\ u <= d.limit
    BY <1>1, <1>3 DEF DestType
  <2>2. PICK b \in BOOLEAN : b = (d.done \/ u >= d.limit \/ d.inner)
    BY DEF DestType
  <2>3. e = [d EXCEPT !.consumed = u, !.done = b]
    BY <1>1, <1>3, <2>1, <2>2 DEF Count
  <2>4. e \in DestType
    BY <2>3 DEF DestType
  <2>5. QED
    BY <1>1, <2>1, <2>2, <2>3, <2>4 DEF DestType, Within
<1>4. QED
  BY <1>2, <1>3

\* stream_limit's count leaves the inner source where it is.
LEMMA CountSourceIs ==
  ASSUME NEW z \in Nat \ {0}, NEW m \in Nat, NEW d \in SourceType,
         d.limit # Unlimited => d.consumed + m * z <= d.limit,
         NEW e, e = Count(d, z, m)
  PROVE  /\ e \in SourceType /\ Within(e)
         /\ e.buf = d.buf /\ e.pos = d.pos
         /\ d.inner => e.done
<1>1. PICK mz \in Nat : mz = m * z /\ (m = 0 => mz = 0)
  OBVIOUS
<1>2. CASE d.limit = Unlimited
  <2>1. e = [d EXCEPT !.done = d.inner]
    BY <1>2 DEF Count
  <2>2. e \in SourceType /\ e.limit = Unlimited
    BY <1>2, <2>1 DEF SourceType
  <2>3. QED
    BY <1>2, <2>1, <2>2 DEF SourceType, Within
<1>3. CASE d.limit # Unlimited
  <2>1. PICK u \in Nat : u = d.consumed + mz /\ u <= d.limit
    BY <1>1, <1>3 DEF SourceType
  <2>2. PICK b \in BOOLEAN : b = (d.done \/ u >= d.limit \/ d.inner)
    BY DEF SourceType
  <2>3. e = [d EXCEPT !.consumed = u, !.done = b]
    BY <1>1, <1>3, <2>1, <2>2 DEF Count
  <2>4. e \in SourceType
    BY <2>3 DEF SourceType
  <2>5. QED
    BY <1>1, <2>1, <2>2, <2>3, <2>4 DEF SourceType, Within
<1>4. QED
  BY <1>2, <1>3

-----------------------------------------------------------------------------
(* What a push does: some bytes arrive, and if not all of them do the stream *)
(* takes no more, and says so unless its buffer ends inside an element.      *)

TornDest(d, z) == d.kind = "obuf" /\ d.cap % z # 0

Stopped(d) ==
  \/ d.kind = "obuf" /\ d.pos = d.cap
  \/ d.kind = "other" /\ d.inner

\* e is d after k elements and `next` bytes of m elements in s were taken.
Taken(d, e, k, next, s, z, m) ==
  /\ e \in DestType /\ Placed(e, z)
  /\ e.kind = d.kind /\ e.cap = d.cap /\ e.limit = d.limit
  /\ e.consumed = d.consumed /\ e.done = d.done
  /\ k \in Nat /\ k <= m /\ next \in Nat /\ next <= m * z /\ k * z <= next
  /\ e.out = d.out \o SubSeq(s, 1, next)
  /\ \/ k > 0 /\ next = k * z
     \/ k < m /\ Stopped(e) /\ (e.inner \/ TornDest(e, z))
  /\ Stopped(d) => next = 0 /\ k = 0 /\ e.inner

\* What arrived stays a sequence of bytes.
LEMMA OutGrows ==
  ASSUME NEW d \in DestType, NEW s \in Seq(Byte), NEW n \in Nat, n <= Len(s)
  PROVE  d.out \o SubSeq(s, 1, n) \in Seq(Byte)
BY FrontOf, ConcatProperties DEF DestType

\* stream_obuf takes what fits, and ends when it is full.
LEMMA PushObufIs ==
  ASSUME NEW z \in Nat \ {0}, NEW d, DestOK(d, z), d.kind = "obuf",
         NEW m \in Nat \ {0}, NEW s \in Seq(Byte), Len(s) = m * z,
         NEW p \in PushObuf(d, z, s)
  PROVE  \E next \in Nat : Taken(d, p.to, p.moved, next, s, z, m)
<1>1. PICK mz \in Nat : mz = m * z /\ Len(s) = mz
  OBVIOUS
<1>2. PICK avail \in Nat : avail = d.cap - d.pos
  BY DEF DestOK, DestType, Placed
<1>3. PICK next \in Nat : next = Least(avail, mz) /\ next <= avail /\ next <= mz
                          /\ (next = avail \/ next = mz)
  BY LeastOf
<1>4. PICK k \in Nat : k = next \div z /\ k * z <= next /\ next < k * z + z
  BY DivIs
<1>5. PICK o \in Seq(Byte) : o = d.out \o SubSeq(s, 1, next)
  BY <1>1, <1>3, OutGrows DEF DestOK
<1>6. PICK b \in BOOLEAN : b = (d.inner \/ avail = 0)
  BY DEF DestOK, DestType
<1>7. PICK q \in Nat : q = d.pos + next
  BY DEF DestOK, DestType
<1>8. p.to = [d EXCEPT !.out = o, !.pos = q, !.inner = b] /\ p.moved = k
  BY <1>1, <1>2, <1>3, <1>4, <1>5, <1>6, <1>7 DEF PushObuf
<1>9. /\ p.to \in DestType /\ p.to.kind = "obuf" /\ p.to.cap = d.cap /\ p.to.limit = d.limit
      /\ p.to.consumed = d.consumed /\ p.to.done = d.done /\ p.to.pos = q /\ p.to.out = o
      /\ p.to.inner = b
  BY <1>8 DEF DestOK, DestType
<1>10. d.cap \in Nat /\ d.pos \in Nat /\ d.pos <= d.cap /\ (d.pos = d.cap \/ d.pos % z = 0)
  BY DEF DestOK, DestType, Placed
<1>11. k <= m
  <2>1. CASE m < k
    <3>1. m * z + z <= k * z
      BY <2>1, TimesNext
    <3>2. PICK kz \in Nat : kz = k * z
      OBVIOUS
    <3>3. QED
      BY <1>1, <1>3, <1>4, <3>1, <3>2
  <2>2. QED
    BY <2>1
<1>12. q <= d.cap /\ (q = d.cap \/ q % z = 0)
  <2>1. CASE next = avail
    BY <1>2, <1>7, <1>10, <2>1
  <2>2. CASE next = mz /\ next # avail
    <3>1. d.pos % z = 0
      BY <1>2, <1>3, <1>10, <2>2
    <3>2. mz % z = 0
      BY <1>1, DivOfTimes
    <3>3. (d.pos + next) % z = 0
      BY <1>10, <2>2, <3>1, <3>2, ModPlus
    <3>4. QED
      BY <1>2, <1>3, <1>7, <1>10, <3>3
  <2>3. QED
    BY <1>3, <2>1, <2>2
<1>13. \/ k > 0 /\ next = k * z
       \/ k < m /\ q = d.cap /\ (b \/ d.cap % z # 0)
  <2>1. CASE next = mz
    <3>1. k = m
      BY <1>1, <1>4, <2>1, DivOfTimes
    <3>2. QED
      BY <1>1, <2>1, <3>1
  <2>2. CASE next # mz
    <3>1. next = avail /\ q = d.cap
      BY <1>2, <1>3, <1>7, <1>10, <2>2
    <3>2. k < m
      <4>1. CASE k = m
        BY <1>1, <1>3, <1>4, <2>2, <4>1
      <4>2. QED
        BY <1>11, <4>1
    <3>3. CASE avail = 0 \/ d.cap % z # 0
      BY <1>6, <3>1, <3>2, <3>3
    <3>4. CASE avail # 0 /\ d.cap % z = 0
      <4>1. d.pos % z = 0
        BY <1>2, <1>10, <3>4
      <4>2. (d.pos + avail) % z = avail % z
        BY <1>10, <4>1, ModPlus
      <4>3. avail % z = 0
        BY <1>2, <1>10, <3>4, <4>2
      <4>4. PICK j \in Nat : avail = j * z
        BY <4>3, ModZero
      <4>5. k = j
        BY <1>4, <3>1, <4>4, DivOfTimes
      <4>6. next = k * z /\ k # 0
        BY <3>1, <3>4, <4>4, <4>5
      <4>7. QED
        BY <4>6
    <3>5. QED
      BY <3>3, <3>4
  <2>3. QED
    BY <2>1, <2>2
<1>14. d.pos = d.cap => next = 0 /\ k = 0 /\ b
  <2>1. SUFFICES ASSUME d.pos = d.cap PROVE next = 0 /\ k = 0 /\ b
    OBVIOUS
  <2>2. avail = 0 /\ next = 0
    BY <1>2, <1>3, <1>10, <2>1
  <2>3. k = 0
    <3>1. (0 * z) \div z = 0 /\ 0 * z = 0
      BY DivOfTimes
    <3>2. QED
      BY <1>4, <2>2, <3>1
  <2>4. QED
    BY <1>6, <2>2, <2>3
<1>15. QED
  <2>1. Placed(p.to, z)
    BY <1>9, <1>12 DEF Placed
  <2>2. \/ p.moved > 0 /\ next = p.moved * z
        \/ p.moved < m /\ Stopped(p.to) /\ (p.to.inner \/ TornDest(p.to, z))
    BY <1>8, <1>9, <1>13 DEF Stopped, TornDest
  <2>3. Stopped(d) => next = 0 /\ p.moved = 0 /\ p.to.inner
    BY <1>8, <1>9, <1>14 DEF Stopped
  <2>4. p.to.kind = d.kind /\ p.moved \in Nat /\ p.moved <= m /\ p.moved * z <= next
        /\ next <= m * z
    BY <1>1, <1>3, <1>4, <1>8, <1>9, <1>11
  <2>5. QED
    BY <1>5, <1>9, <2>1, <2>2, <2>3, <2>4 DEF Taken

\* stream_opsink takes up to the end of its buffer, and starts it over.
LEMMA PushOpsinkIs ==
  ASSUME NEW z \in Nat \ {0}, NEW d, DestOK(d, z), d.kind = "opsink",
         NEW m \in Nat \ {0}, NEW s \in Seq(Byte), Len(s) = m * z,
         NEW p \in PushOpsink(d, z, s)
  PROVE  \E next \in Nat : Taken(d, p.to, p.moved, next, s, z, m)
<1>1. PICK mz \in Nat : mz = m * z /\ Len(s) = mz
  OBVIOUS
<1>2. /\ d.cap \in Nat /\ d.pos \in Nat /\ d.pos < d.cap
      /\ d.cap % z = 0 /\ d.pos % z = 0
  BY DEF DestOK, DestType, Placed
<1>3. PICK avail \in Nat : avail = d.cap - d.pos /\ avail > 0
  BY <1>2
<1>4. avail % z = 0
  <2>1. (d.pos + avail) % z = avail % z
    BY <1>2, ModPlus
  <2>2. QED
    BY <1>2, <1>3, <2>1
<1>5. PICK next \in Nat : next = Least(avail, mz) /\ next <= avail /\ next <= mz
                          /\ (next = avail \/ next = mz)
  BY LeastOf
<1>6. mz > 0 /\ mz % z = 0
  <2>1. 1 * z <= m * z /\ 1 * z = z
    BY TimesMono, Times1
  <2>2. (m * z) % z = 0
    BY DivOfTimes
  <2>3. mz >= z
    BY <1>1, <2>1
  <2>4. QED
    BY <1>1, <2>2, <2>3
<1>7. next > 0 /\ next % z = 0
  BY <1>3, <1>4, <1>5, <1>6
<1>8. PICK k \in Nat : next = k * z
  BY <1>7, ModZero
<1>9. k > 0 /\ next \div z = k
  BY <1>7, <1>8, DivOfTimes
<1>10. k <= m
  <2>1. CASE m < k
    <3>1. m * z + z <= k * z
      BY <2>1, TimesNext
    <3>2. QED
      BY <1>1, <1>5, <1>8, <3>1
  <2>2. QED
    BY <2>1
<1>11. PICK o \in Seq(Byte) : o = d.out \o SubSeq(s, 1, next)
  BY <1>1, <1>5, OutGrows DEF DestOK
<1>12. PICK q \in Nat : /\ q = IF d.pos + next = d.cap THEN 0 ELSE d.pos + next
                        /\ q < d.cap /\ q % z = 0
  <2>1. CASE d.pos + next = d.cap
    <3>1. (0 * z) % z = 0 /\ 0 * z = 0
      BY DivOfTimes
    <3>2. QED
      BY <1>2, <2>1, <3>1
  <2>2. CASE d.pos + next # d.cap
    <3>1. (d.pos + next) % z = 0
      BY <1>2, <1>7, ModPlus
    <3>2. d.pos + next < d.cap
      BY <1>2, <1>3, <1>5, <2>2
    <3>3. QED
      BY <1>2, <2>2, <3>1, <3>2
  <2>3. QED
    BY <2>1, <2>2
<1>13. p.to = [d EXCEPT !.out = o, !.pos = q] /\ p.moved = k
  BY <1>1, <1>3, <1>5, <1>9, <1>11, <1>12 DEF PushOpsink
<1>14. /\ p.to \in DestType /\ p.to.kind = "opsink" /\ p.to.cap = d.cap /\ p.to.limit = d.limit
       /\ p.to.consumed = d.consumed /\ p.to.done = d.done /\ p.to.pos = q /\ p.to.out = o
       /\ p.to.inner = d.inner
  BY <1>13 DEF DestOK, DestType
<1>15. QED
  <2>1. Placed(p.to, z)
    BY <1>2, <1>12, <1>14 DEF Placed
  <2>2. ~ Stopped(d)
    BY DEF Stopped
  <2>3. /\ p.to.kind = d.kind /\ p.moved \in Nat /\ p.moved <= m /\ p.moved * z <= next
        /\ next <= m * z /\ p.moved > 0 /\ next = p.moved * z
    BY <1>1, <1>5, <1>8, <1>9, <1>10, <1>13, <1>14
  <2>4. QED
    BY <1>11, <1>14, <2>1, <2>2, <2>3 DEF Taken

\* stream_sink takes everything and keeps no place.
LEMMA PushSinkIs ==
  ASSUME NEW z \in Nat \ {0}, NEW d, DestOK(d, z), d.kind = "sink",
         NEW m \in Nat \ {0}, NEW s \in Seq(Byte), Len(s) = m * z,
         NEW p \in PushSink(d, z, s)
  PROVE  \E next \in Nat : Taken(d, p.to, p.moved, next, s, z, m)
<1>1. PICK mz \in Nat : mz = m * z /\ Len(s) = mz /\ mz \div z = m
  BY DivOfTimes
<1>2. PICK o \in Seq(Byte) : o = d.out \o SubSeq(s, 1, mz) /\ o = d.out \o s
  <2>1. SubSeq(s, 1, mz) = s
    BY <1>1, SubSeqFull
  <2>2. d.out \o SubSeq(s, 1, mz) \in Seq(Byte)
    BY <1>1, OutGrows DEF DestOK
  <2>3. QED
    BY <2>1, <2>2
<1>3. p.to = [d EXCEPT !.out = o] /\ p.moved = m
  <2>1. p = [to |-> [d EXCEPT !.out = d.out \o s], moved |-> Len(s) \div z]
    BY DEF PushSink
  <2>2. p = [to |-> [d EXCEPT !.out = o], moved |-> m]
    BY <1>1, <1>2, <2>1
  <2>3. QED
    BY <2>2
<1>4. /\ p.to \in DestType /\ p.to.kind = "sink" /\ p.to.cap = d.cap /\ p.to.limit = d.limit
      /\ p.to.consumed = d.consumed /\ p.to.done = d.done /\ p.to.out = o
      /\ p.to.inner = d.inner
  BY <1>3 DEF DestOK, DestType
<1>5. Placed(p.to, z) /\ ~ Stopped(d)
  BY <1>4 DEF Placed, Stopped
<1>6. /\ p.to.kind = d.kind /\ p.moved \in Nat /\ p.moved <= m /\ p.moved * z <= mz
      /\ mz <= m * z /\ p.moved > 0 /\ mz = p.moved * z
  BY <1>1, <1>3, <1>4
<1>7. Taken(d, p.to, p.moved, mz, s, z, m)
  BY <1>2, <1>4, <1>5, <1>6 DEF Taken
<1>8. QED
  BY <1>1, <1>7

\* Another's stream may take fewer elements, be done, or fail.
LEMMA PushOtherIs ==
  ASSUME NEW z \in Nat \ {0}, NEW d, DestOK(d, z), d.kind = "other",
         NEW m \in Nat \ {0}, NEW s \in Seq(Byte), Len(s) = m * z,
         NEW p \in PushOther(d, z, s)
  PROVE  \/ p.moved = -1 /\ p.to = d
         \/ \E next \in Nat : Taken(d, p.to, p.moved, next, s, z, m)
<1>1. CASE p = [to |-> d, moved |-> -1]
  BY <1>1
<1>2. ASSUME NEW k \in 0 .. (IF d.inner THEN 0 ELSE Len(s) \div z),
             p = [to |-> [d EXCEPT !.out = @ \o SubSeq(s, 1, k * z),
                                   !.inner = @ \/ k = 0],
                  moved |-> k]
      PROVE  \E next \in Nat : Taken(d, p.to, p.moved, next, s, z, m)
  <2>1. Len(s) \div z = m
    BY DivOfTimes
  <2>2. k \in Nat /\ k <= m /\ (d.inner => k = 0)
    BY <2>1
  <2>3. PICK kz \in Nat : kz = k * z /\ kz <= Len(s) /\ kz <= m * z /\ (k = 0 => kz = 0)
    <3>1. k * z <= m * z
      BY <2>2, TimesMono
    <3>2. QED
      BY <2>2, <3>1
  <2>4. PICK o \in Seq(Byte) : o = d.out \o SubSeq(s, 1, kz)
    BY <2>3, OutGrows DEF DestOK
  <2>5. PICK b \in BOOLEAN : b = (d.inner \/ k = 0)
    BY DEF DestOK, DestType
  <2>6. p.to = [d EXCEPT !.out = o, !.inner = b] /\ p.moved = k
    BY <1>2, <2>3, <2>4, <2>5
  <2>7. /\ p.to \in DestType /\ p.to.kind = "other" /\ p.to.cap = d.cap /\ p.to.limit = d.limit
        /\ p.to.consumed = d.consumed /\ p.to.done = d.done /\ p.to.out = o
        /\ p.to.inner = b
    BY <2>6 DEF DestOK, DestType
  <2>8. Placed(p.to, z)
    BY <2>7 DEF Placed
  <2>9. \/ p.moved > 0 /\ kz = p.moved * z
        \/ p.moved < m /\ Stopped(p.to) /\ (p.to.inner \/ TornDest(p.to, z))
    <3>1. CASE k = 0
      <4>1. p.to.inner
        BY <2>5, <2>7, <3>1
      <4>2. p.moved < m
        BY <2>6, <3>1
      <4>3. QED
        BY <2>7, <4>1, <4>2 DEF Stopped
    <3>2. CASE k # 0
      BY <2>2, <2>3, <2>6, <3>2
    <3>3. QED
      BY <3>1, <3>2
  <2>10. Stopped(d) => kz = 0 /\ p.moved = 0 /\ p.to.inner
    <3>1. SUFFICES ASSUME d.inner PROVE kz = 0 /\ p.moved = 0 /\ p.to.inner
      BY DEF Stopped
    <3>2. k = 0
      BY <2>2, <3>1
    <3>3. QED
      BY <2>3, <2>5, <2>6, <2>7, <3>2
  <2>11. p.to.kind = d.kind /\ p.moved \in Nat /\ p.moved <= m /\ p.moved * z <= kz /\ kz <= m * z
    BY <2>2, <2>3, <2>6, <2>7
  <2>12. Taken(d, p.to, p.moved, kz, s, z, m)
    BY <2>4, <2>7, <2>8, <2>9, <2>10, <2>11 DEF Taken
  <2>13. QED
    BY <2>12
<1>3. QED
  BY <1>1, <1>2 DEF PushOther

\* Whatever the kind: a failure that moves nothing, or elements taken.
LEMMA PushInsideIs ==
  ASSUME NEW z \in Nat \ {0}, NEW d, DestOK(d, z),
         NEW m \in Nat \ {0}, NEW s \in Seq(Byte), Len(s) = m * z,
         NEW p \in PushInside(d, z, s)
  PROVE  \/ p.moved = -1 /\ p.to = d
         \/ \E next \in Nat : Taken(d, p.to, p.moved, next, s, z, m)
<1>1. d.kind \in {"obuf", "opsink", "sink", "other"}
  BY DEF DestOK, DestType
<1>2. CASE d.kind = "obuf"
  BY <1>2, PushObufIs DEF PushInside
<1>3. CASE d.kind = "opsink"
  BY <1>3, PushOpsinkIs DEF PushInside
<1>4. CASE d.kind = "sink"
  BY <1>4, PushSinkIs DEF PushInside
<1>5. CASE d.kind = "other"
  BY <1>5, PushOtherIs DEF PushInside
<1>6. QED
  BY <1>1, <1>2, <1>3, <1>4, <1>5

-----------------------------------------------------------------------------
(* Records: a push through a limit.                                          *)

Closed(d, z) ==
  \/ d.limit # Unlimited /\ d.limit - d.consumed < z
  \/ Stopped(d)

\* The same through a limit, which is one more reason to take no more.
Pushed(d, e, k, next, s, z, m) ==
  /\ DestOK(e, z) /\ e.kind = d.kind /\ e.cap = d.cap
  /\ k \in Nat /\ k <= m /\ next \in Nat /\ next <= m * z /\ k * z <= next
  /\ e.out = d.out \o SubSeq(s, 1, next)
  /\ \/ k > 0 /\ next = k * z
     \/ k < m /\ Closed(e, z) /\ (e.done \/ TornDest(e, z))
  /\ Closed(d, z) => next = 0 /\ k = 0

\* The result of a push is a destination and a count.
LEMMA InsideShape ==
  ASSUME NEW z, NEW d, d.kind \in {"obuf", "opsink", "sink", "other"}, NEW s,
         NEW p \in PushInside(d, z, s)
  PROVE  p = [to |-> p.to, moved |-> p.moved]
<1>1. CASE d.kind = "obuf"
  BY <1>1 DEF PushInside, PushObuf
<1>2. CASE d.kind = "opsink"
  BY <1>2 DEF PushInside, PushOpsink
<1>3. CASE d.kind = "sink"
  BY <1>3 DEF PushInside, PushSink
<1>4. CASE d.kind = "other"
  <2>1. p \in PushOther(d, z, s)
    BY <1>4 DEF PushInside
  <2>2. \/ \E k \in 0 .. (IF d.inner THEN 0 ELSE Len(s) \div z) :
             p = [to |-> [d EXCEPT !.out = @ \o SubSeq(s, 1, k * z), !.inner = @ \/ k = 0],
                  moved |-> k]
        \/ p = [to |-> d, moved |-> -1]
    BY <2>1 DEF PushOther
  <2>3. \A x, y : p = [to |-> x, moved |-> y] => p = [to |-> p.to, moved |-> p.moved]
    OBVIOUS
  <2>4. QED
    BY <2>2, <2>3, Zenon
<1>5. QED
  BY <1>1, <1>2, <1>3, <1>4

\* The front of a front is a front.
LEMMA FrontOfFront ==
  ASSUME NEW S, NEW s \in Seq(S), NEW a \in Nat, NEW b \in Nat, a <= b, b <= Len(s)
  PROVE  SubSeq(SubSeq(s, 1, b), 1, a) = SubSeq(s, 1, a)
<1>1. PICK f : f = SubSeq(s, 1, b)
  OBVIOUS
<1>2. f \in Seq(S) /\ Len(f) = b /\ \A i \in 1 .. b : f[i] = s[i]
  BY <1>1, FrontOf
<1>3. PICK g : g = SubSeq(f, 1, a)
  OBVIOUS
<1>4. g \in Seq(S) /\ Len(g) = a /\ \A i \in 1 .. a : g[i] = f[i]
  BY <1>2, <1>3, FrontOf
<1>5. PICK h : h = SubSeq(s, 1, a)
  OBVIOUS
<1>6. h \in Seq(S) /\ Len(h) = a /\ \A i \in 1 .. a : h[i] = s[i]
  <2>1. Len(s) \in Nat
    BY LenProperties
  <2>2. a <= Len(s)
    BY <2>1
  <2>3. QED
    BY <1>5, <2>2, FrontOf
<1>7. Len(g) = Len(h) /\ \A i \in 1 .. Len(g) : g[i] = h[i]
  BY <1>2, <1>4, <1>6
<1>8. g = h
  BY <1>4, <1>6, <1>7, SeqEqual
<1>9. QED
  BY <1>1, <1>3, <1>5, <1>8

\* stream_push, through a limit or not (Pushed).
LEMMA PushIs ==
  ASSUME NEW z \in Nat \ {0}, NEW d, DestOK(d, z),
         NEW m \in Nat \ {0}, NEW s \in Seq(Byte), Len(s) = m * z,
         NEW p \in Push(d, z, s)
  PROVE  \/ p.moved = -1 /\ p.to = d
         \/ \E next \in Nat : Pushed(d, p.to, p.moved, next, s, z, m)
<1>1. Len(s) \div z = m
  BY DivOfTimes
<1>2. PICK a \in Nat : /\ a = Capped(d, z, m) /\ a <= m
                       /\ d.limit # Unlimited => d.consumed + a * z <= d.limit
                       /\ a = 0 => d.limit # Unlimited /\ d.limit - d.consumed < z
  <2>1. d.limit \in Nat \cup {Unlimited} /\ d.consumed \in Nat /\ Within(d)
    BY DEF DestOK, DestType
  <2>2. /\ Capped(d, z, m) \in Nat /\ Capped(d, z, m) <= m
        /\ d.limit # Unlimited => d.consumed + Capped(d, z, m) * z <= d.limit
        /\ Capped(d, z, m) = 0 /\ m > 0 => d.limit # Unlimited /\ d.limit - d.consumed < z
    BY <2>1, CappedIs
  <2>3. m > 0
    OBVIOUS
  <2>4. QED
    BY <2>2, <2>3
<1>3. CASE a = 0
  <2>1. p = [to |-> [d EXCEPT !.done = TRUE], moved |-> 0]
    BY <1>1, <1>2, <1>3 DEF Push
  <2>2. PICK e : e = [d EXCEPT !.done = TRUE] /\ p.to = e /\ p.moved = 0
    BY <2>1
  <2>3. /\ e \in DestType /\ e.kind = d.kind /\ e.cap = d.cap /\ e.limit = d.limit
        /\ e.consumed = d.consumed /\ e.out = d.out /\ e.pos = d.pos /\ e.done
    BY <2>2 DEF DestOK, DestType
  <2>4. DestOK(e, z)
    BY <2>3 DEF DestOK, Within, Placed
  <2>5. Closed(e, z)
    BY <1>2, <1>3, <2>3 DEF Closed
  <2>6. d.out \o SubSeq(s, 1, 0) = d.out
    <3>1. SubSeq(s, 1, 0) = <<>> /\ d.out \in Seq(Byte)
      BY SubSeqEmpty DEF DestOK, DestType
    <3>2. QED
      BY <3>1, ConcatEmptySeq
  <2>7. 0 * z = 0 /\ 0 <= m * z
    BY TimesType
  <2>8. Pushed(d, p.to, p.moved, 0, s, z, m)
    BY <2>2, <2>3, <2>4, <2>5, <2>6, <2>7 DEF Pushed
  <2>9. QED
    BY <2>8
<1>4. CASE a # 0
  <2>1. a * z <= m * z /\ a * z \in Nat
    BY <1>2, TimesMono, TimesType
  <2>2. PICK f \in Seq(Byte) : f = SubSeq(s, 1, a * z) /\ Len(f) = a * z
    BY <2>1, FrontOf
  <2>3. PICK q \in PushInside(d, z, f) :
          p = IF q.moved < 0 THEN q ELSE [q EXCEPT !.to = Count(q.to, z, q.moved)]
    BY <1>1, <1>2, <1>4, <2>2 DEF Push
  <2>4. \/ q.moved = -1 /\ q.to = d
        \/ \E next \in Nat : Taken(d, q.to, q.moved, next, f, z, a)
    BY <1>4, <2>2, PushInsideIs
  <2>5. q = [to |-> q.to, moved |-> q.moved]
    BY InsideShape DEF DestOK, DestType
  <2>6. CASE q.moved = -1 /\ q.to = d
    BY <2>3, <2>6
  <2>7. ASSUME NEW next \in Nat, Taken(d, q.to, q.moved, next, f, z, a)
        PROVE  Pushed(d, p.to, p.moved, next, s, z, m)
    <3>1. PICK k \in Nat : k = q.moved /\ k <= a /\ k * z <= next /\ next <= a * z
      BY <2>7 DEF Taken
    <3>2. PICK g \in DestType : /\ g = q.to /\ Placed(g, z) /\ g.kind = d.kind /\ g.cap = d.cap
                                /\ g.limit = d.limit /\ g.consumed = d.consumed
                                /\ g.out = d.out \o SubSeq(f, 1, next)
      BY <2>7 DEF Taken
    <3>3. g.limit # Unlimited => g.consumed + k * z <= g.limit
      <4>1. k * z <= a * z /\ k * z \in Nat
        BY <3>1, TimesMono, TimesType
      <4>2. PICK kz \in Nat, az \in Nat : kz = k * z /\ az = a * z /\ kz <= az
        BY <2>1, <4>1
      <4>3. d.limit # Unlimited => d.consumed + az <= d.limit
        BY <1>2, <4>2
      <4>4. d.consumed \in Nat /\ d.limit \in Nat \cup {Unlimited}
        BY DEF DestOK, DestType
      <4>5. d.limit # Unlimited => d.consumed + kz <= d.limit
        <5>1. SUFFICES ASSUME d.limit # Unlimited PROVE d.consumed + kz <= d.limit
          OBVIOUS
        <5>2. d.consumed \in Nat /\ d.limit \in Nat /\ d.consumed + az <= d.limit
          BY <4>3, <4>4, <5>1
        <5>3. kz <= az
          BY <4>2
        <5>4. PICK c \in Nat, l \in Nat : c = d.consumed /\ l = d.limit /\ c + az <= l
          BY <5>2
        <5>5. c + kz <= l
          BY ONLY c \in Nat, l \in Nat, kz \in Nat, az \in Nat, <5>3, <5>4
        <5>6. QED
          BY <5>4, <5>5
      <4>6. QED
        BY <3>2, <4>2, <4>5
    <3>4. PICK e : e = Count(g, z, k) /\ p.to = e /\ p.moved = k
      BY <2>3, <2>5, <3>1, <3>2
    <3>5. /\ e \in DestType /\ Within(e)
          /\ e.kind = g.kind /\ e.cap = g.cap /\ e.pos = g.pos /\ e.out = g.out
          /\ e.inner = g.inner /\ e.limit = g.limit
          /\ g.inner => e.done
      BY <3>3, <3>4, CountDestIs
    <3>6. DestOK(e, z)
      BY <3>2, <3>5 DEF DestOK, Placed
    <3>7. SubSeq(f, 1, next) = SubSeq(s, 1, next)
      BY <2>1, <2>2, <3>1, FrontOfFront
    <3>8. \/ k > 0 /\ next = k * z
          \/ k < m /\ Closed(e, z) /\ (e.done \/ TornDest(e, z))
      <4>1. \/ k > 0 /\ next = k * z
            \/ k < a /\ Stopped(g) /\ (g.inner \/ TornDest(g, z))
        BY <2>7, <3>1, <3>2 DEF Taken
      <4>2. Stopped(g) => Closed(e, z)
        BY <3>5 DEF Closed, Stopped
      <4>3. TornDest(g, z) => TornDest(e, z)
        BY <3>5 DEF TornDest
      <4>4. k < a => k < m
        BY <1>2
      <4>5. QED
        BY <3>5, <4>1, <4>2, <4>3, <4>4
    <3>9. Closed(d, z) => next = 0 /\ k = 0
      <4>1. Stopped(d) => next = 0 /\ k = 0
        BY <2>7, <3>1 DEF Taken
      <4>2. d.limit # Unlimited => ~(d.limit - d.consumed < z)
        <5>1. 1 * z <= a * z /\ 1 * z = z
          BY <1>4, TimesMono, Times1
        <5>2. PICK az \in Nat : az = a * z /\ z <= az
          BY <2>1, <5>1
        <5>3. d.limit # Unlimited => /\ d.limit \in Nat /\ d.consumed \in Nat
                                     /\ d.consumed + az <= d.limit
          BY <1>2, <5>2 DEF DestOK, DestType
        <5>4. ASSUME d.limit # Unlimited PROVE ~(d.limit - d.consumed < z)
          <6>1. PICK l \in Nat, c \in Nat : l = d.limit /\ c = d.consumed /\ c + az <= l
            BY <5>3, <5>4
          <6>2. ~(l - c < z)
            BY <5>2, <6>1, RoomIsLeft
          <6>3. QED
            BY <6>1, <6>2
        <5>5. QED
          BY <5>4
      <4>3. QED
        BY <4>1, <4>2 DEF Closed
    <3>10. k <= m /\ next <= m * z
      BY <1>2, <2>1, <3>1, TimesType
    <3>11. e.kind = d.kind /\ e.cap = d.cap /\ e.out = d.out \o SubSeq(s, 1, next)
      BY <3>2, <3>5, <3>7
    <3>12. Pushed(d, e, k, next, s, z, m)
      BY <3>1, <3>6, <3>8, <3>9, <3>10, <3>11 DEF Pushed
    <3>13. QED
      BY <3>4, <3>12
  <2>8. QED
    BY <2>4, <2>6, <2>7, <2>3
<1>5. QED
  BY <1>3, <1>4

-----------------------------------------------------------------------------
(* Records: a pull, with and without a limit.                                *)

\* A pull: t is s after k elements of n, and `next` bytes of them, went out.
Pulled(s, t, k, next, bytes, z, n) ==
  /\ SourceOK(t, z) /\ t.buf = s.buf /\ t.pos = s.pos + next
  /\ k \in Nat /\ k <= n /\ k * z <= next /\ next <= Len(s.buf) - s.pos
  /\ bytes = SubSeq(s.buf, s.pos + 1, s.pos + next)
  /\ next = k * z \/ (t.pos = Len(t.buf) /\ Len(t.buf) % z # 0)
  /\ k = 0 => t.done \/ Len(t.buf) % z # 0

\* stream_pull, through a limit or not (Pulled).
LEMMA PullIs ==
  ASSUME NEW z \in Nat \ {0}, NEW s, SourceOK(s, z), NEW n \in Nat \ {0},
         NEW p, p = Pull(s, z, n)
  PROVE  \E next \in Nat : Pulled(s, p.to, p.moved, next, p.bytes, z, n)
<1>1. PICK pos \in Nat, len \in Nat :
        pos = s.pos /\ len = Len(s.buf) /\ pos <= len /\ (pos = len \/ pos % z = 0)
  <2>1. s.buf \in Seq(Byte) /\ s.pos \in Nat
    BY DEF SourceOK, SourceType
  <2>2. QED
    BY <2>1, LenProperties DEF SourceOK
<1>2. PICK a \in Nat : /\ a = Capped(s, z, n) /\ a <= n
                       /\ s.limit # Unlimited => s.consumed + a * z <= s.limit
  <2>1. s.limit \in Nat \cup {Unlimited} /\ s.consumed \in Nat /\ Within(s)
    BY DEF SourceOK, SourceType
  <2>2. /\ Capped(s, z, n) \in Nat /\ Capped(s, z, n) <= n
        /\ s.limit # Unlimited => s.consumed + Capped(s, z, n) * z <= s.limit
    BY <2>1, CappedIs
  <2>3. QED
    BY <2>2
<1>3. CASE a = 0
  <2>1. PICK t : t = [s EXCEPT !.done = TRUE] /\ p.to = t /\ p.moved = 0 /\ p.bytes = <<>>
    BY <1>2, <1>3 DEF Pull
  <2>2. /\ t \in SourceType /\ t.buf = s.buf /\ t.pos = s.pos /\ t.limit = s.limit
        /\ t.consumed = s.consumed /\ t.done
    BY <2>1 DEF SourceOK, SourceType
  <2>3. SourceOK(t, z)
    BY <2>2 DEF SourceOK, Within
  <2>4. SubSeq(s.buf, s.pos + 1, s.pos + 0) = <<>>
    BY <1>1, SubSeqEmpty
  <2>5. 0 * z = 0 /\ t.pos = s.pos + 0 /\ 0 <= Len(s.buf) - s.pos /\ 0 <= n /\ 0 \in Nat
        /\ 0 * z <= 0
    BY <1>1, <2>2
  <2>6. Pulled(s, t, 0, 0, <<>>, z, n)
    BY ONLY <2>2, <2>3, <2>4, <2>5 DEF Pulled
  <2>7. QED
    BY <2>1, <2>6
<1>4. CASE a # 0
  <2>1. PICK avail \in Nat : avail = len - pos
    BY <1>1
  <2>2. PICK za \in Nat : za = z * a /\ za = a * z /\ za >= z
    <3>1. 1 * z <= a * z /\ 1 * z = z
      BY <1>4, TimesMono, Times1
    <3>2. QED
      BY <3>1
  <2>3. PICK next \in Nat : next = Least(avail, za) /\ next <= avail /\ next <= za
                            /\ (next = avail \/ next = za)
    BY LeastOf
  <2>4. PICK k \in Nat : k = next \div z /\ k * z <= next /\ next < k * z + z
    BY DivIs
  <2>5. PICK b \in BOOLEAN : b = (s.inner \/ avail = 0) /\ (avail = 0 => b)
    BY DEF SourceOK, SourceType
  <2>6. PICK q \in Nat : q = pos + next /\ q <= len
    BY <2>1, <2>3
  <2>7. PICK g : g = [s EXCEPT !.pos = q, !.inner = b]
    OBVIOUS
  <2>8. p.to = Count(g, z, k) /\ p.moved = k /\ p.bytes = SubSeq(s.buf, s.pos + 1, s.pos + next)
    BY <1>1, <1>2, <1>4, <2>1, <2>2, <2>3, <2>4, <2>5, <2>6, <2>7 DEF Pull, PullBuffer
  <2>9. /\ g \in SourceType /\ g.buf = s.buf /\ g.pos = q /\ g.limit = s.limit
        /\ g.consumed = s.consumed /\ g.inner = b
    BY <2>7 DEF SourceOK, SourceType
  <2>10. k <= a
    <3>1. CASE a < k
      <4>1. a * z + z <= k * z
        BY <3>1, TimesNext
      <4>2. QED
        BY <2>2, <2>3, <2>4, <4>1
    <3>2. QED
      BY <3>1
  <2>11. g.limit # Unlimited => g.consumed + k * z <= g.limit
    <3>1. SUFFICES ASSUME g.limit # Unlimited PROVE g.consumed + k * z <= g.limit
      OBVIOUS
    <3>2. PICK c \in Nat, l \in Nat : c = g.consumed /\ l = g.limit /\ c + a * z <= l
      <4>1. g.consumed \in Nat /\ g.limit \in Nat
        BY <2>9, <3>1 DEF SourceType
      <4>2. g.consumed + a * z <= g.limit
        BY <1>2, <2>9, <3>1
      <4>3. QED
        BY <4>1, <4>2
    <3>3. PICK kz \in Nat : kz = k * z /\ kz <= za
      BY <2>2, <2>10, TimesMono
    <3>4. c + kz <= l
      BY ONLY c \in Nat, l \in Nat, kz \in Nat, za \in Nat, <3>2, <3>3, <2>2
    <3>5. QED
      BY <3>2, <3>3, <3>4
  <2>12. PICK t : t = Count(g, z, k) /\ p.to = t
    BY <2>8
  <2>13. t \in SourceType /\ Within(t) /\ t.buf = s.buf /\ t.pos = q /\ (b => t.done)
    BY <2>9, <2>11, <2>12, CountSourceIs
  <2>14. avail # 0 => pos % z = 0
    BY <1>1, <2>1
  <2>15. q = len \/ q % z = 0
    <3>1. CASE next = avail
      BY <2>1, <2>6, <3>1
    <3>2. CASE next = za /\ avail # 0
      <4>1. za % z = 0
        BY <2>2, DivOfTimes
      <4>2. pos % z = 0 /\ next % z = 0
        BY <2>14, <3>2, <4>1
      <4>3. (pos + next) % z = next % z
        BY ONLY z \in Nat \ {0}, pos \in Nat, next \in Nat, <4>2, ModPlus
      <4>4. QED
        BY <2>6, <4>2, <4>3
    <3>3. QED
      BY <2>3, <3>1, <3>2
  <2>16. SourceOK(t, z)
    BY <1>1, <2>6, <2>13, <2>15 DEF SourceOK
  <2>17. next = k * z \/ (q = len /\ len % z # 0)
    <3>1. SUFFICES ASSUME next # k * z PROVE q = len /\ len % z # 0
      OBVIOUS
    <3>2. next # za
      <4>1. CASE next = za
        <5>1. k = a
          BY <2>2, <2>4, <4>1, DivOfTimes
        <5>2. QED
          BY <2>2, <3>1, <4>1, <5>1
      <4>2. QED
        BY <4>1
    <3>3. next = avail /\ q = len
      BY <2>1, <2>3, <2>6, <3>2
    <3>4. next % z # 0
      <4>1. CASE next % z = 0
        <5>1. PICK j \in Nat : next = j * z
          BY <4>1, ModZero
        <5>2. k = j
          BY <2>4, <5>1, DivOfTimes
        <5>3. QED
          BY <3>1, <5>1, <5>2
      <4>2. QED
        BY <4>1
    <3>5. avail # 0
      <4>1. CASE next = 0
        <5>1. (0 * z) % z = 0 /\ 0 * z = 0
          BY DivOfTimes
        <5>2. QED
          BY <3>4, <4>1, <5>1
      <4>2. QED
        BY <3>3, <4>1
    <3>6. (pos + next) % z = next % z
      BY <2>14, <3>5, ModPlus
    <3>7. QED
      BY <2>6, <3>3, <3>4, <3>6
  <2>18. k = 0 => t.done \/ len % z # 0
    <3>1. SUFFICES ASSUME k = 0, len % z = 0 PROVE t.done
      OBVIOUS
    <3>2. next = 0
      BY <2>17, <3>1, Times1
    <3>3. avail = 0
      BY <2>2, <2>3, <3>2
    <3>4. QED
      BY <2>5, <2>13, <3>3
  <2>19. Pulled(s, t, k, next, p.bytes, z, n)
    <3>1. t.pos = s.pos + next /\ next <= Len(s.buf) - s.pos
      BY <1>1, <2>1, <2>3, <2>6, <2>13
    <3>2. k <= n
      BY <1>2, <2>10
    <3>3. k * z <= next
      BY <2>4
    <3>4. t.pos = q /\ t.buf = s.buf /\ len = Len(t.buf)
      BY <1>1, <2>13
    <3>5. next = k * z \/ (t.pos = Len(t.buf) /\ Len(t.buf) % z # 0)
      BY <2>17, <3>4
    <3>6. k = 0 => t.done \/ Len(t.buf) % z # 0
      BY <2>18, <3>4
    <3>7. QED
      BY ONLY k \in Nat, <2>8, <2>16, <3>1, <3>2, <3>3, <3>4, <3>5, <3>6 DEF Pulled
  <2>20. QED
    BY <2>8, <2>12, <2>19
<1>5. QED
  BY <1>3, <1>4

-----------------------------------------------------------------------------
(* Records: what holds of the copy between two batches and inside one.       *)

TornSource == Len(src.buf) % size # 0

\* Nothing more is to be had, but for a piece of an element.
AtEnd == src.pos = Len(src.buf) /\ TornSource

\* Nothing more is taken, and that shows.
Shut == Closed(dst, size) /\ (dst.done \/ TornDest(dst, size))

\* Between two batches everything pulled has arrived, or there is a reason.
Settled == Len(dst.out) = src.pos \/ AtEnd \/ Shut

Prefix ==
  /\ Len(dst.out) <= src.pos
  /\ \A i \in 1 .. Len(dst.out) : dst.out[i] = src.buf[i]

\* The batch of m elements came from b on, and its first elements have arrived.
Aligned(b, m) ==
  /\ Len(dst.out) = b + copy.pushed * size
  /\ b + m * size = src.pos \/ (b + m * size <= src.pos /\ AtEnd)
  /\ \A i \in 1 .. (m * size) : copy.buf[i] = src.buf[b + i]

Pushing(m) ==
  /\ copy.pushed < m /\ m <= copy.remaining /\ Len(copy.buf) = m * size
  /\ (carried + copy.total + copy.pushed) * size <= Len(dst.out)
  /\ (\E b \in Nat : Aligned(b, m)) \/ Shut

Reported == carried * size <= Len(dst.out)

CopyRecords ==
  [at : {"pull", "push", "returned"}, size : {size}, n : Nat, remaining : Nat,
   total : Nat, buf : Seq(Byte), pushed : Nat, ret : Int]

Batch ==
  \/ copy = NoCopy
  \/ /\ copy \in CopyRecords
     /\ copy.total + copy.remaining = copy.n

Progress ==
  /\ copy.at = "idle" => Reported /\ Settled
  /\ copy.at = "pull" => (carried + copy.total) * size <= Len(dst.out) /\ Settled
  /\ copy.at = "push" => \E m \in Nat : Pushing(m)
  /\ copy.at = "returned" =>
       /\ Reported
       /\ copy.ret >= 0 => Settled
       /\ copy.ret >= 0 /\ copy.ret < copy.n => src.done \/ dst.done \/ Torn

CopyInv ==
  /\ size \in Nat \ {0} /\ carried \in Nat
  /\ SourceOK(src, size) /\ DestOK(dst, size)
  /\ Prefix /\ Batch /\ Progress

\* The types of both ends of the copy.
LEMMA EndsAre ==
  ASSUME CopyInv
  PROVE  /\ src.buf \in Seq(Byte) /\ Len(src.buf) \in Nat /\ src.pos \in Nat
         /\ src.pos <= Len(src.buf)
         /\ dst.out \in Seq(Byte) /\ Len(dst.out) \in Nat
         /\ size \in Nat \ {0} /\ carried \in Nat
<1>1. src.buf \in Seq(Byte) /\ src.pos \in Nat /\ src.pos <= Len(src.buf) /\ dst.out \in Seq(Byte)
  BY DEF CopyInv, SourceOK, SourceType, DestOK, DestType
<1>2. QED
  BY <1>1, LenProperties DEF CopyInv

\* The call under way accounts for every element it was asked for.
LEMMA BatchIs ==
  ASSUME CopyInv, copy.at # "idle"
  PROVE  /\ copy \in CopyRecords
         /\ copy.total + copy.remaining = copy.n
<1>1. copy # NoCopy
  BY DEF NoCopy
<1>2. QED
  BY <1>1 DEF CopyInv, Batch

\* stream_read may be called again after a call that did not fail.
LEMMA BeginKeeps ==
  ASSUME CopyInv, NEW n \in Nat, StreamRead(size, n), size' = size, carried' = carried,
         copy.at = "returned" => copy.ret >= 0
  PROVE  CopyInv'
<1>1. src' = src /\ dst' = dst
  BY DEF StreamRead
<1>2. PICK c : /\ c = [at |-> "pull", size |-> size, n |-> n, remaining |-> n,
                       total |-> 0, buf |-> <<>>, pushed |-> 0, ret |-> 0]
               /\ copy' = c
  BY DEF StreamRead
<1>3. Reported /\ Settled
  BY DEF StreamRead, CopyInv, Progress
<1>4. <<>> \in Seq(Byte) /\ 0 \in Nat /\ 0 \in Int /\ 0 + n = n
  BY EmptySeq
<1>5. Batch'
  <2>1. CopyRecords' = CopyRecords
    BY DEF CopyRecords
  <2>2. c \in CopyRecords
    BY <1>2, <1>4 DEF CopyRecords
  <2>3. QED
    BY <1>2, <1>4, <2>1, <2>2 DEF Batch
<1>6. Progress'
  <2>1. copy'.at = "pull" /\ copy'.total = 0
    BY <1>2
  <2>2. Settled'
    BY <1>1, <1>3 DEF Settled, AtEnd, TornSource, Shut
  <2>3. (carried' + copy'.total) * size' <= Len(dst'.out)
    <3>1. carried + 0 = carried
      BY DEF CopyInv
    <3>2. QED
      BY <1>1, <1>3, <2>1, <3>1 DEF Reported
  <2>4. QED
    BY <2>1, <2>2, <2>3 DEF Progress
<1>7. size' \in Nat \ {0} /\ carried' \in Nat /\ SourceOK(src', size') /\ DestOK(dst', size') /\ Prefix'
  BY <1>1 DEF CopyInv, Prefix
<1>8. QED
  BY <1>5, <1>6, <1>7 DEF CopyInv

\* The loop of stream_read ends: everything asked for has moved.
LEMMA FinishedKeeps ==
  ASSUME CopyInv, Finished, size' = size,
         carried' = carried + IF copy'.at = "returned" /\ copy'.ret > 0 THEN copy'.ret ELSE 0
  PROVE  CopyInv'
<1>1. src' = src /\ dst' = dst
  BY DEF Finished
<1>2. copy.at = "pull" /\ copy.remaining = 0
  BY DEF Finished
<1>3. /\ copy \in CopyRecords
      /\ copy.total + copy.remaining = copy.n
  BY <1>2, BatchIs
<1>4. PICK t \in Nat : t = copy.total /\ t = copy.n
  BY <1>2, <1>3 DEF CopyRecords
<1>5. PICK c : c = [copy EXCEPT !.at = "returned", !.ret = t] /\ copy' = c
  BY <1>4 DEF Finished
<1>6. /\ c \in CopyRecords
      /\ c.at = "returned" /\ c.ret = t /\ c.n = t /\ c.total = copy.total
      /\ c.remaining = copy.remaining
  <2>1. t \in Int
    OBVIOUS
  <2>2. c \in CopyRecords
    BY <1>3, <1>5, <2>1 DEF CopyRecords
  <2>3. QED
    BY <1>3, <1>4, <1>5, <2>2 DEF CopyRecords
<1>7. carried' = carried + t /\ carried' \in Nat
  BY <1>5, <1>6 DEF CopyInv
<1>8. Settled /\ (carried + t) * size <= Len(dst.out)
  BY <1>2, <1>4 DEF CopyInv, Progress
<1>9. Batch'
  <2>1. CopyRecords' = CopyRecords
    BY DEF CopyRecords
  <2>2. c.total + c.remaining = c.n
    BY <1>3, <1>4, <1>6
  <2>3. QED
    BY <1>5, <1>6, <2>1, <2>2 DEF Batch
<1>10. Progress'
  <2>1. Settled'
    BY <1>1, <1>8 DEF Settled, AtEnd, TornSource, Shut
  <2>2. Reported'
    BY <1>1, <1>7, <1>8 DEF Reported
  <2>3. copy'.at = "returned" /\ ~(copy'.ret < copy'.n)
    BY <1>5, <1>6
  <2>4. QED
    BY <2>1, <2>2, <2>3 DEF Progress
<1>11. size' \in Nat \ {0} /\ SourceOK(src', size') /\ DestOK(dst', size') /\ Prefix'
  BY <1>1 DEF CopyInv, Prefix
<1>12. QED
  BY <1>7, <1>9, <1>10, <1>11 DEF CopyInv

\* A pull fails between two batches: what arrived before is not reported.
LEMMA PullFailsKeeps ==
  ASSUME CopyInv, PullFails, size' = size,
         carried' = carried + IF copy'.at = "returned" /\ copy'.ret > 0 THEN copy'.ret ELSE 0
  PROVE  CopyInv'
<1>1. src' = src /\ dst' = dst /\ copy.at = "pull"
  BY DEF PullFails
<1>2. /\ copy \in CopyRecords
      /\ copy.total + copy.remaining = copy.n
  BY <1>1, BatchIs
<1>3. PICK c : c = [copy EXCEPT !.at = "returned", !.ret = -1] /\ copy' = c
  BY DEF PullFails
<1>4. /\ c \in CopyRecords /\ c.at = "returned" /\ c.ret = -1
      /\ c.total + c.remaining = c.n
  <2>1. PICK r \in Int : r = -1
    OBVIOUS
  <2>2. c = [copy EXCEPT !.at = "returned", !.ret = r]
    BY <1>3, <2>1
  <2>3. /\ c \in CopyRecords /\ c.at = "returned" /\ c.ret = r
        /\ c.total = copy.total /\ c.remaining = copy.remaining /\ c.n = copy.n
    BY <1>2, <2>2 DEF CopyRecords
  <2>4. QED
    BY <1>2, <2>1, <2>3
<1>5. carried' = carried /\ carried \in Nat
  BY <1>3, <1>4 DEF CopyInv
<1>6. Reported
  <2>1. copy.total \in Nat /\ size \in Nat \ {0} /\ carried \in Nat /\ Len(dst.out) \in Nat
    BY <1>2, EndsAre DEF CopyRecords
  <2>2. carried <= carried + copy.total /\ carried + copy.total \in Nat
    BY <2>1
  <2>3. carried * size <= (carried + copy.total) * size
    BY <2>1, <2>2, TimesMono
  <2>4. carried * size \in Nat /\ (carried + copy.total) * size \in Nat
    BY <2>1, <2>2, TimesType
  <2>5. (carried + copy.total) * size <= Len(dst.out)
    BY <1>1 DEF CopyInv, Progress
  <2>6. QED
    BY <2>1, <2>3, <2>4, <2>5 DEF Reported
<1>7. Batch'
  <2>1. CopyRecords' = CopyRecords
    BY DEF CopyRecords
  <2>2. QED
    BY <1>3, <1>4, <2>1 DEF Batch
<1>8. Progress'
  <2>1. Reported'
    BY <1>1, <1>5, <1>6 DEF Reported
  <2>2. copy'.at = "returned" /\ ~(copy'.ret >= 0)
    BY <1>3, <1>4
  <2>3. QED
    BY <2>1, <2>2 DEF Progress
<1>9. size' \in Nat \ {0} /\ SourceOK(src', size') /\ DestOK(dst', size') /\ Prefix'
  BY <1>1 DEF CopyInv, Prefix
<1>10. QED
  BY <1>5, <1>7, <1>8, <1>9 DEF CopyInv

-----------------------------------------------------------------------------
(* Records: a batch is pulled (stream_read's first call).                    *)

\* A batch holds an element at least.
LEMMA BatchMaxIs ==
  ASSUME NEW z \in Nat \ {0}
  PROVE  BatchMax(z) \in Nat \ {0}
<1>1. BatchBytes \in Nat
  BY RecordsAssumption
<1>2. BatchBytes \div z \in Nat
  BY <1>1, DivIs
<1>3. QED
  BY <1>2 DEF BatchMax

\* A batch comes out of the source, or the call returns because none does.
LEMMA PullKeeps ==
  ASSUME CopyInv, PullBatch, size' = size,
         carried' = carried + IF copy'.at = "returned" /\ copy'.ret > 0 THEN copy'.ret ELSE 0
  PROVE  CopyInv'
<1>1. copy.at = "pull" /\ copy.remaining > 0 /\ dst' = dst
  BY DEF PullBatch
<1>2. copy \in CopyRecords /\ copy.total + copy.remaining = copy.n /\ copy.size = size
  BY <1>1, BatchIs DEF CopyRecords
<1>3. PICK n \in Nat \ {0} : n = Least(copy.remaining, BatchMax(size)) /\ n <= copy.remaining
  <2>1. copy.remaining \in Nat /\ BatchMax(size) \in Nat \ {0}
    BY <1>2, BatchMaxIs DEF CopyRecords, CopyInv
  <2>2. QED
    BY <1>1, <2>1 DEF Least
<1>4. PICK p : p = Pull(src, size, n)
  OBVIOUS
<1>5. /\ src' = p.to
      /\ copy' = IF p.moved = 0
                 THEN [copy EXCEPT !.at = "returned", !.ret = copy.total]
                 ELSE [copy EXCEPT !.at = "push", !.pushed = 0,
                                   !.buf = SubSeq(p.bytes, 1, p.moved * size)]
  BY <1>2, <1>3, <1>4 DEF PullBatch
<1>6. PICK next \in Nat : Pulled(src, p.to, p.moved, next, p.bytes, size, n)
  BY <1>4, PullIs DEF CopyInv
<1>7. PICK k \in Nat : k = p.moved
  BY <1>6 DEF Pulled
<1>8. PICK s : s = p.to /\ src' = s /\ Pulled(src, s, k, next, p.bytes, size, n)
  BY <1>5, <1>6, <1>7
<1>9. PICK o \in Nat : o = Len(dst.out)
  BY EndsAre
<1>10. PICK a \in Nat, l \in Nat : /\ a = src.pos /\ l = Len(src.buf) /\ a + next <= l
                                  /\ s.buf = src.buf /\ s.pos = a + next /\ k <= n
                                  /\ k * size <= next /\ SourceOK(s, size)
  <2>1. src.pos \in Nat /\ Len(src.buf) \in Nat
    BY EndsAre
  <2>2. QED
    BY <1>8, <2>1 DEF Pulled
<1>11. Settled /\ (carried + copy.total) * size <= o
  BY <1>1, <1>9 DEF CopyInv, Progress
<1>12. Prefix'
  <2>1. o <= a /\ \A i \in 1 .. o : dst.out[i] = src.buf[i]
    BY <1>9, <1>10 DEF CopyInv, Prefix
  <2>2. QED
    BY <1>1, <1>8, <1>9, <1>10, <2>1 DEF Prefix
<1>13. AtEnd => AtEnd' /\ next = 0
  <2>1. SUFFICES ASSUME AtEnd PROVE AtEnd' /\ next = 0
    OBVIOUS
  <2>2. next = 0
    BY <1>10, <2>1 DEF AtEnd
  <2>3. QED
    BY <1>8, <1>10, <2>1, <2>2 DEF AtEnd, TornSource
<1>14. Shut => Shut'
  BY <1>1 DEF Shut
<1>15. /\ size' \in Nat \ {0} /\ SourceOK(src', size') /\ DestOK(dst', size')
  BY <1>1, <1>8, <1>10 DEF CopyInv
<1>16. CASE k = 0
  <2>1. PICK t \in Nat : t = copy.total /\ t < copy.n
    BY <1>1, <1>2 DEF CopyRecords
  <2>2. PICK c : c = [copy EXCEPT !.at = "returned", !.ret = t] /\ copy' = c
    BY <1>5, <1>7, <1>16, <2>1
  <2>3. c \in CopyRecords /\ c.at = "returned" /\ c.ret = t /\ c.n = copy.n
        /\ c.total = copy.total /\ c.remaining = copy.remaining
    <3>1. t \in Int
      OBVIOUS
    <3>2. c \in CopyRecords
      BY <1>2, <2>2, <3>1 DEF CopyRecords
    <3>3. QED
      BY <1>2, <2>2, <3>2 DEF CopyRecords
  <2>4. Batch'
    <3>1. CopyRecords' = CopyRecords
      BY DEF CopyRecords
    <3>2. QED
      BY <1>2, <2>2, <2>3, <3>1 DEF Batch
  <2>5. carried' = carried + t /\ carried' \in Nat
    BY <2>2, <2>3 DEF CopyInv
  <2>6. next = 0 \/ AtEnd'
    <3>1. next = k * size \/ (s.pos = Len(s.buf) /\ Len(s.buf) % size # 0)
      BY <1>8 DEF Pulled
    <3>2. k * size = 0
      BY <1>16, <1>15
    <3>3. QED
      BY <1>8, <3>1, <3>2 DEF AtEnd, TornSource
  <2>7. Settled'
    <3>1. CASE o = a
      <4>1. CASE next = 0
        BY <1>1, <1>8, <1>9, <1>10, <3>1, <4>1 DEF Settled
      <4>2. QED
        BY <2>6, <4>1 DEF Settled
    <3>2. CASE AtEnd
      BY <1>13, <3>2 DEF Settled
    <3>3. CASE Shut
      BY <1>14, <3>3 DEF Settled
    <3>4. QED
      BY <1>9, <1>10, <1>11, <3>1, <3>2, <3>3 DEF Settled
  <2>8. src'.done \/ Torn'
    BY <1>8, <1>16 DEF Pulled, Torn
  <2>9. Progress'
    <3>1. Reported'
      BY <1>1, <1>9, <1>11, <2>1, <2>5 DEF Reported
    <3>2. copy'.at = "returned"
      BY <2>2, <2>3
    <3>3. QED
      BY <2>7, <2>8, <3>1, <3>2 DEF Progress
  <2>10. QED
    BY <1>12, <1>15, <2>4, <2>5, <2>9 DEF CopyInv
<1>17. CASE k # 0
  <2>1. PICK g : g = p.bytes
    OBVIOUS
  <2>2. g \in Seq(Byte) /\ Len(g) = next /\ \A i \in 1 .. next : g[i] = src.buf[a + i]
    <3>1. PICK e \in Nat : e = a + next /\ a <= e /\ e <= Len(src.buf) /\ e - a = next
      BY <1>10
    <3>2. g = SubSeq(src.buf, a + 1, e)
      BY <1>8, <1>10, <2>1, <3>1 DEF Pulled
    <3>3. src.buf \in Seq(Byte)
      BY EndsAre
    <3>4. /\ SubSeq(src.buf, a + 1, e) \in Seq(Byte)
          /\ Len(SubSeq(src.buf, a + 1, e)) = e - a
          /\ \A i \in 1 .. (e - a) : SubSeq(src.buf, a + 1, e)[i] = src.buf[a + i]
      BY ONLY a \in Nat, <3>1, <3>3, PartIs
    <3>5. QED
      BY <3>1, <3>2, <3>4
  <2>3. PICK ks \in Nat : ks = k * size /\ ks <= next
    BY <1>10, <1>15, TimesType
  <2>4. PICK b : b = SubSeq(g, 1, ks)
    OBVIOUS
  <2>5. b \in Seq(Byte) /\ Len(b) = ks /\ \A i \in 1 .. ks : b[i] = src.buf[a + i]
    <3>1. b \in Seq(Byte) /\ Len(b) = ks /\ \A i \in 1 .. ks : b[i] = g[i]
      BY <2>2, <2>3, <2>4, FrontOf
    <3>2. QED
      BY <2>2, <2>3, <3>1
  <2>6. PICK c : c = [copy EXCEPT !.at = "push", !.pushed = 0, !.buf = b] /\ copy' = c
    BY <1>5, <1>7, <1>17, <2>1, <2>3, <2>4
  <2>7. c \in CopyRecords /\ c.at = "push" /\ c.buf = b /\ c.pushed = 0
        /\ c.n = copy.n /\ c.total = copy.total /\ c.remaining = copy.remaining
    <3>1. c \in CopyRecords
      BY <1>2, <2>5, <2>6 DEF CopyRecords
    <3>2. QED
      BY <1>2, <2>6, <3>1 DEF CopyRecords
  <2>8. Batch'
    <3>1. CopyRecords' = CopyRecords
      BY DEF CopyRecords
    <3>2. QED
      BY <1>2, <2>6, <2>7, <3>1 DEF Batch
  <2>9. carried' = carried /\ carried' \in Nat
    BY <2>6, <2>7 DEF CopyInv
  <2>10. (\E j \in Nat : Aligned(j, k)') \/ Shut'
    <3>1. CASE o = a
      <4>1. Len(dst'.out) = a + copy'.pushed * size'
        <5>1. 0 * size = 0
          BY <1>15
        <5>2. QED
          BY <1>1, <1>9, <2>6, <2>7, <3>1, <5>1
      <4>2. a + k * size' = src'.pos \/ (a + k * size' <= src'.pos /\ AtEnd')
        <5>1. next = k * size \/ (s.pos = Len(s.buf) /\ Len(s.buf) % size # 0)
          BY <1>8 DEF Pulled
        <5>2. next = ks => a + k * size' = src'.pos
          BY <1>8, <1>10, <2>3
        <5>3. a + k * size' <= src'.pos
          BY <1>8, <1>10, <2>3
        <5>4. s.pos = Len(s.buf) /\ Len(s.buf) % size # 0 => AtEnd'
          BY <1>8 DEF AtEnd, TornSource
        <5>5. QED
          BY <2>3, <5>1, <5>2, <5>3, <5>4
      <4>3. \A i \in 1 .. (k * size') : copy'.buf[i] = src'.buf[a + i]
        BY <1>8, <1>10, <2>3, <2>5, <2>6, <2>7
      <4>4. Aligned(a, k)'
        BY <4>1, <4>2, <4>3 DEF Aligned
      <4>5. QED
        BY <4>4
    <3>2. CASE AtEnd
      <4>1. ks = 0
        BY <1>13, <2>3, <3>2
      <4>2. 1 * size <= k * size /\ 1 * size = size
        BY <1>15, <1>17, TimesMono, Times1
      <4>3. QED
        BY <1>15, <2>3, <4>1, <4>2
    <3>3. CASE Shut
      BY <1>14, <3>3
    <3>4. QED
      BY <1>9, <1>10, <1>11, <3>1, <3>2, <3>3 DEF Settled
  <2>11. Pushing(k)'
    <3>1. copy'.pushed < k /\ k <= copy'.remaining /\ Len(copy'.buf) = k * size'
      <4>1. copy.remaining \in Nat /\ k > 0
        BY <1>2, <1>17 DEF CopyRecords
      <4>2. QED
        BY <1>3, <1>10, <2>3, <2>5, <2>6, <2>7, <4>1
    <3>2. (carried' + copy'.total + copy'.pushed) * size' <= Len(dst'.out)
      <4>1. PICK t \in Nat : t = copy.total
        BY <1>2 DEF CopyRecords
      <4>2. carried + t + 0 = carried + t
        BY DEF CopyInv
      <4>3. QED
        BY <1>1, <1>9, <1>11, <2>6, <2>7, <2>9, <4>1, <4>2
    <3>3. QED
      BY <2>10, <3>1, <3>2 DEF Pushing
  <2>12. Progress'
    <3>1. copy'.at = "push"
      BY <2>6, <2>7
    <3>2. QED
      BY <2>11, <3>1 DEF Progress
  <2>13. QED
    BY <1>12, <1>15, <2>8, <2>9, <2>12 DEF CopyInv
<1>18. QED
  BY <1>16, <1>17

-----------------------------------------------------------------------------
(* Records: a batch is pushed, in one call or more.                          *)

\* Part of a batch is delivered; a push of nothing, or a failed one, ends the call.
LEMMA PushKeeps ==
  ASSUME CopyInv, PushPart, size' = size,
         carried' = carried + IF copy'.at = "returned" /\ copy'.ret > 0 THEN copy'.ret ELSE 0
  PROVE  CopyInv'
<1>1. copy.at = "push" /\ src' = src
  BY DEF PushPart
<1>2. copy \in CopyRecords /\ copy.total + copy.remaining = copy.n /\ copy.size = size
  BY <1>1, BatchIs DEF CopyRecords
<1>3. PICK m \in Nat : Pushing(m)
  BY <1>1 DEF CopyInv, Progress
<1>4. PICK u \in Nat, t \in Nat, r \in Nat :
        u = copy.pushed /\ t = copy.total /\ r = copy.remaining /\ u < m /\ m <= r
  BY <1>2, <1>3 DEF CopyRecords, Pushing
<1>5. PICK z \in Nat \ {0} : z = size
  BY DEF CopyInv
<1>6. PICK o \in Nat : o = Len(dst.out) /\ (carried + t + u) * z <= o
  BY <1>3, <1>4, <1>5, EndsAre DEF Pushing
<1>7. PICK uz \in Nat, mz \in Nat : uz = u * z /\ mz = m * z /\ uz <= mz
  BY <1>4, TimesMono, TimesType
<1>8. PICK b : b = copy.buf /\ b \in Seq(Byte) /\ Len(b) = mz
  BY <1>2, <1>3, <1>5, <1>7 DEF CopyRecords, Pushing
<1>9. PICK v \in Nat \ {0} : v = m - u
  BY <1>4
<1>10. v * z = mz - uz
  <2>1. (u + v) * z = u * z + v * z
    BY TimesPlus
  <2>2. u + v = m
    BY <1>4, <1>9
  <2>3. PICK vz \in Nat : vz = v * z
    BY TimesType
  <2>4. QED
    BY <1>7, <2>1, <2>2, <2>3
<1>11. PICK f : f = SubSeq(b, uz + 1, mz)
  OBVIOUS
<1>12. f \in Seq(Byte) /\ Len(f) = v * z /\ \A i \in 1 .. (mz - uz) : f[i] = b[uz + i]
  <2>1. /\ SubSeq(b, uz + 1, mz) \in Seq(Byte)
        /\ Len(SubSeq(b, uz + 1, mz)) = mz - uz
        /\ \A i \in 1 .. (mz - uz) : SubSeq(b, uz + 1, mz)[i] = b[uz + i]
    BY <1>7, <1>8, PartIs
  <2>2. QED
    BY <1>10, <1>11, <2>1
<1>13. PICK p \in Push(dst, z, f) :
          /\ dst' = p.to
          /\ copy' = IF p.moved < 0 THEN [copy EXCEPT !.at = "returned", !.ret = -1]
                     ELSE IF p.moved = 0 THEN Batched(u, FALSE)
                     ELSE IF u + p.moved = m THEN Batched(m, TRUE)
                     ELSE [copy EXCEPT !.pushed = @ + p.moved]
  <2>1. mz \div z = m
    BY <1>7, DivOfTimes
  <2>2. Len(copy.buf) \div copy.size = m
    BY <1>2, <1>5, <1>8, <2>1
  <2>3. SubSeq(copy.buf, copy.pushed * copy.size + 1, Len(copy.buf)) = f
    BY <1>2, <1>4, <1>5, <1>7, <1>8, <1>11
  <2>4. QED
    BY <1>2, <1>4, <1>5, <2>2, <2>3 DEF PushPart
<1>14. \/ p.moved = -1 /\ p.to = dst
       \/ \E next \in Nat : Pushed(dst, p.to, p.moved, next, f, z, v)
  <2>1. DestOK(dst, z)
    BY <1>5 DEF CopyInv
  <2>2. QED
    BY <1>12, <2>1, PushIs
<1>15. CopyRecords' = CopyRecords
  BY DEF CopyRecords
<1>16. SourceOK(src', size') /\ size' \in Nat \ {0}
  BY <1>1 DEF CopyInv
<1>17. CASE p.moved = -1 /\ p.to = dst
  <2>1. PICK c : c = [copy EXCEPT !.at = "returned", !.ret = -1] /\ copy' = c
    BY <1>13, <1>17
  <2>2. c \in CopyRecords /\ c.at = "returned" /\ c.ret = -1 /\ c.n = copy.n
        /\ c.total = copy.total /\ c.remaining = copy.remaining
    <3>1. -1 \in Int
      OBVIOUS
    <3>2. c \in CopyRecords
      BY <1>2, <2>1, <3>1 DEF CopyRecords
    <3>3. QED
      BY <1>2, <2>1, <3>2 DEF CopyRecords
  <2>3. Batch'
    BY <1>2, <1>15, <2>1, <2>2 DEF Batch
  <2>4. carried' = carried /\ carried' \in Nat
    BY <2>1, <2>2 DEF CopyInv
  <2>5. dst' = dst
    BY <1>13, <1>17
  <2>6. Prefix' /\ DestOK(dst', size')
    BY <1>1, <2>5 DEF CopyInv, Prefix
  <2>7. Reported'
    <3>1. PICK c0 \in Nat : c0 = carried
      BY DEF CopyInv
    <3>2. c0 * z <= (c0 + t + u) * z
      <4>1. PICK x \in Nat : x = c0 + t + u /\ c0 <= x
        OBVIOUS
      <4>2. QED
        BY <4>1, TimesMono
    <3>3. PICK x \in Nat : x = (c0 + t + u) * z /\ x <= o
      BY <1>6, <3>1
    <3>4. PICK y \in Nat : y = c0 * z
      BY TimesType
    <3>5. y <= o
      BY <3>2, <3>3, <3>4
    <3>6. QED
      BY <1>5, <1>6, <2>4, <2>5, <3>1, <3>4, <3>5 DEF Reported
  <2>8. Progress'
    <3>1. copy'.at = "returned" /\ ~(copy'.ret >= 0)
      BY <2>1, <2>2
    <3>2. QED
      BY <2>7, <3>1 DEF Progress
  <2>9. QED
    BY <1>16, <2>3, <2>4, <2>6, <2>8 DEF CopyInv
<1>18. ASSUME NEW next \in Nat, Pushed(dst, p.to, p.moved, next, f, z, v)
       PROVE  CopyInv'
  <2>1. PICK e : e = p.to /\ dst' = e
    BY <1>13
  <2>2. PICK k \in Nat : k = p.moved /\ k <= v
    BY <1>18 DEF Pushed
  <2>3. PICK kz \in Nat : kz = k * z /\ kz <= next /\ next <= mz - uz
    BY <1>10, <1>18, <2>2, TimesType DEF Pushed
  <2>4. /\ DestOK(e, z) /\ e.kind = dst.kind /\ e.cap = dst.cap
        /\ e.out = dst.out \o SubSeq(f, 1, next)
        /\ \/ k > 0 /\ next = kz
           \/ k < v /\ Closed(e, z) /\ (e.done \/ TornDest(e, z))
        /\ Closed(dst, z) => next = 0 /\ k = 0
    BY <1>18, <2>1, <2>2, <2>3 DEF Pushed
  <2>5. /\ Len(e.out) = o + next
        /\ \A i \in 1 .. o : e.out[i] = dst.out[i]
        /\ \A i \in (o + 1) .. (o + next) : e.out[i] = f[i - o]
    <3>1. PICK g : g = SubSeq(f, 1, next)
      OBVIOUS
    <3>2. g \in Seq(Byte) /\ Len(g) = next /\ \A i \in 1 .. next : g[i] = f[i]
      BY <1>10, <1>12, <2>3, <3>1, FrontOf
    <3>3. dst.out \in Seq(Byte)
      BY EndsAre
    <3>4. Len(dst.out \o g) = o + next
      BY <1>6, <3>2, <3>3, ConcatProperties
    <3>5. \A i \in 1 .. (o + next) : (dst.out \o g)[i] = IF i <= o THEN dst.out[i] ELSE g[i - o]
      <4>1. \A i \in 1 .. (Len(dst.out) + Len(g)) :
              (dst.out \o g)[i] = IF i <= Len(dst.out) THEN dst.out[i] ELSE g[i - Len(dst.out)]
        BY ONLY <3>2, <3>3, ConcatProperties
      <4>2. QED
        BY ONLY <1>6, <3>2, <4>1
    <3>6. e.out = dst.out \o g
      BY <2>4, <3>1
    <3>7. ASSUME NEW i \in 1 .. o PROVE e.out[i] = dst.out[i]
      <4>1. i \in 1 .. (o + next) /\ i <= o
        OBVIOUS
      <4>2. QED
        BY <3>5, <3>6, <4>1
    <3>8. ASSUME NEW i \in (o + 1) .. (o + next) PROVE e.out[i] = f[i - o]
      <4>1. i \in 1 .. (o + next) /\ ~(i <= o) /\ i - o \in 1 .. next
        OBVIOUS
      <4>2. e.out[i] = g[i - o]
        BY <3>5, <3>6, <4>1
      <4>3. QED
        BY <3>2, <4>1, <4>2
    <3>9. QED
      BY <3>4, <3>6, <3>7, <3>8
  <2>6. DestOK(dst', size')
    BY <1>5, <2>1, <2>4
  <2>7. Shut => next = 0 /\ k = 0
    BY <1>5, <2>4 DEF Shut
  <2>8. Prefix'
    <3>1. \A i \in 1 .. o : e.out[i] = src.buf[i]
      BY <1>6, <2>5 DEF CopyInv, Prefix
    <3>2. PICK a \in Nat : a = src.pos /\ o <= a
      BY <1>6, EndsAre DEF CopyInv, Prefix
    <3>3. o + next <= a /\ \A i \in (o + 1) .. (o + next) : e.out[i] = src.buf[i]
      <4>1. CASE Shut
        BY <2>7, <3>2, <4>1
      <4>2. ASSUME NEW j \in Nat, Aligned(j, m)
            PROVE  o + next <= a /\ \A i \in (o + 1) .. (o + next) : e.out[i] = src.buf[i]
        <5>1. /\ o = j + uz /\ j + mz <= a
              /\ \A i \in 1 .. mz : b[i] = src.buf[j + i]
          BY <1>4, <1>5, <1>6, <1>7, <1>8, <3>2, <4>2 DEF Aligned
        <5>2. o + next <= a
          BY <1>7, <2>3, <5>1
        <5>3. ASSUME NEW i \in (o + 1) .. (o + next)
              PROVE  e.out[i] = src.buf[i]
          <6>1. PICK h \in Nat : h = i - o /\ h \in 1 .. next
            OBVIOUS
          <6>2. e.out[i] = f[h]
            BY <2>5, <6>1
          <6>3. f[h] = b[uz + h]
            BY <1>12, <2>3, <6>1
          <6>4. uz + h \in 1 .. mz
            BY <1>7, <2>3, <6>1
          <6>5. b[uz + h] = src.buf[j + (uz + h)]
            BY <5>1, <6>4
          <6>6. j + (uz + h) = i
            BY <5>1, <6>1
          <6>7. QED
            BY <6>2, <6>3, <6>5, <6>6
        <5>4. QED
          BY <5>2, <5>3
      <4>3. QED
        BY <1>3, <4>1, <4>2 DEF Pushing
    <3>4. QED
      <4>1. \A i \in 1 .. (o + next) : e.out[i] = src.buf[i]
        BY <3>1, <3>3
      <4>2. QED
        BY <1>1, <2>1, <2>5, <3>2, <3>3, <4>1 DEF Prefix
  <2>9. AtEnd => AtEnd'
    BY <1>1 DEF AtEnd, TornSource
  <2>10. ~(k > 0 /\ next = kz) => Shut'
    <3>1. SUFFICES ASSUME ~(k > 0 /\ next = kz) PROVE Shut'
      OBVIOUS
    <3>2. Closed(e, z) /\ (e.done \/ TornDest(e, z))
      BY <2>4, <3>1
    <3>3. QED
      BY <1>5, <2>1, <3>2 DEF Shut
  <2>11. (carried + t + u + k) * z <= o + next
    <3>1. PICK c \in Nat : c = carried + t + u
      BY DEF CopyInv
    <3>2. (c + k) * z = c * z + k * z
      BY TimesPlus
    <3>3. PICK cz \in Nat : cz = c * z /\ cz <= o
      BY <1>6, <3>1, TimesType
    <3>4. QED
      BY <2>3, <3>1, <3>2, <3>3
  <2>12. CASE k = 0
    <3>1. PICK s \in Nat : s = t + u
      OBVIOUS
    <3>2. PICK c : c = [copy EXCEPT !.pushed = u, !.total = s, !.remaining = r - u,
                                    !.at = "returned", !.ret = s] /\ copy' = c
      BY <1>2, <1>4, <1>13, <2>2, <2>12, <3>1 DEF Batched, CopyRecords
    <3>3. r - u \in Nat /\ s \in Int
      BY <1>4
    <3>4. c \in CopyRecords /\ c.at = "returned" /\ c.ret = s /\ c.n = copy.n
          /\ c.total = s /\ c.remaining = r - u
      <4>1. c \in CopyRecords
        BY <1>2, <3>2, <3>3 DEF CopyRecords
      <4>2. QED
        BY <1>2, <3>2, <4>1 DEF CopyRecords
    <3>5. c.total + c.remaining = c.n
      BY <1>2, <1>4, <3>1, <3>4
    <3>6. Batch'
      BY <1>15, <3>2, <3>4, <3>5 DEF Batch
    <3>7. carried' = carried + s /\ carried' \in Nat
      BY <3>2, <3>4 DEF CopyInv
    <3>8. Shut' /\ Settled'
      BY <2>10, <2>12 DEF Settled
    <3>9. src'.done \/ dst'.done \/ Torn'
      BY <3>8 DEF Shut, Torn, TornDest
    <3>10. Reported'
      <4>1. carried + t + u + k = carried'
        BY <2>12, <3>1, <3>7 DEF CopyInv
      <4>2. QED
        BY <1>5, <2>1, <2>5, <2>11, <4>1 DEF Reported
    <3>11. Progress'
      <4>1. copy'.at = "returned"
        BY <3>2, <3>4
      <4>2. QED
        BY <3>8, <3>9, <3>10, <4>1 DEF Progress
    <3>12. QED
      BY <1>16, <2>6, <2>8, <3>6, <3>7, <3>11 DEF CopyInv
  <2>13. CASE k # 0 /\ u + k = m
    <3>1. PICK s \in Nat : s = t + m
      OBVIOUS
    <3>2. PICK c : c = [copy EXCEPT !.pushed = m, !.total = s, !.remaining = r - m,
                                    !.at = "pull", !.ret = s] /\ copy' = c
      <4>1. copy' = Batched(m, TRUE)
        <5>1. ~(p.moved < 0) /\ p.moved # 0 /\ u + p.moved = m
          BY ONLY <2>2, <2>13, k \in Nat
        <5>2. QED
          BY ONLY <1>13, <5>1
      <4>2. Batched(m, TRUE) =
              [copy EXCEPT !.pushed = m, !.total = copy.total + m,
                           !.remaining = copy.remaining - m,
                           !.at = "pull", !.ret = copy.total + m]
        BY <1>2 DEF Batched, CopyRecords
      <4>3. QED
        BY <1>4, <3>1, <4>1, <4>2
    <3>3. r - m \in Nat /\ s \in Int
      BY <1>4
    <3>4. c \in CopyRecords /\ c.at = "pull" /\ c.n = copy.n
          /\ c.total = s /\ c.remaining = r - m
      <4>1. c \in CopyRecords
        BY <1>2, <3>2, <3>3 DEF CopyRecords
      <4>2. QED
        BY <1>2, <3>2, <4>1 DEF CopyRecords
    <3>5. c.total + c.remaining = c.n
      BY <1>2, <1>4, <3>1, <3>4
    <3>6. Batch'
      BY <1>15, <3>2, <3>4, <3>5 DEF Batch
    <3>7. carried' = carried /\ carried' \in Nat
      BY <3>2, <3>4 DEF CopyInv
    <3>8. next = kz /\ kz = mz - uz
      <4>1. k = v
        BY <1>9, <2>13
      <4>2. kz = mz - uz
        BY <1>10, <2>3, <4>1
      <4>3. QED
        BY <2>3, <4>2
    <3>9. Settled'
      <4>1. ASSUME NEW j \in Nat, Aligned(j, m)
            PROVE  Settled'
        <5>1. o = j + uz /\ (j + mz = src.pos \/ AtEnd)
          BY <1>4, <1>5, <1>6, <1>7, <4>1 DEF Aligned
        <5>2. Len(e.out) = j + mz
          BY <1>7, <2>5, <3>8, <5>1
        <5>3. QED
          BY <1>1, <2>1, <2>9, <5>1, <5>2 DEF Settled
      <4>2. ~Shut
        BY <2>7, <2>13
      <4>3. QED
        BY <1>3, <4>1, <4>2 DEF Pushing
    <3>10. (carried' + copy'.total) * size' <= Len(dst'.out)
      <4>1. carried + t + u + k = carried' + copy'.total
        BY <1>4, <2>13, <3>1, <3>2, <3>4, <3>7 DEF CopyInv
      <4>2. QED
        BY <1>5, <2>1, <2>5, <2>11, <4>1
    <3>11. Progress'
      <4>1. copy'.at = "pull"
        BY <3>2, <3>4
      <4>2. QED
        BY <3>9, <3>10, <4>1 DEF Progress
    <3>12. QED
      BY <1>16, <2>6, <2>8, <3>6, <3>7, <3>11 DEF CopyInv
  <2>14. CASE k # 0 /\ u + k # m
    <3>1. PICK w \in Nat : w = u + k /\ w < m
      BY <1>9, <2>2, <2>14
    <3>2. PICK c : c = [copy EXCEPT !.pushed = w] /\ copy' = c
      <4>1. copy' = [copy EXCEPT !.pushed = @ + p.moved]
        BY <1>13, <2>2, <2>14
      <4>2. [copy EXCEPT !.pushed = @ + p.moved] = [copy EXCEPT !.pushed = w]
        BY <1>4, <2>2, <3>1
      <4>3. QED
        BY <4>1, <4>2
    <3>3. c \in CopyRecords /\ c.at = "push" /\ c.n = copy.n /\ c.pushed = w /\ c.buf = b
          /\ c.total = t /\ c.remaining = r
      <4>1. c \in CopyRecords
        BY <1>2, <3>2 DEF CopyRecords
      <4>2. QED
        BY <1>1, <1>2, <1>4, <1>8, <3>2, <4>1 DEF CopyRecords
    <3>4. c.total + c.remaining = c.n
      BY <1>2, <1>4, <3>3
    <3>5. Batch'
      BY <1>15, <3>2, <3>3, <3>4 DEF Batch
    <3>6. carried' = carried /\ carried' \in Nat
      BY <3>2, <3>3 DEF CopyInv
    <3>7. (\E j \in Nat : Aligned(j, m)') \/ Shut'
      <4>1. CASE next = kz
        <5>1. ASSUME NEW j \in Nat, Aligned(j, m)
              PROVE  Aligned(j, m)'
          <6>1. /\ o = j + uz /\ (j + mz = src.pos \/ (j + mz <= src.pos /\ AtEnd))
                /\ \A i \in 1 .. mz : b[i] = src.buf[j + i]
            BY <1>4, <1>5, <1>6, <1>7, <1>8, <5>1 DEF Aligned
          <6>2. Len(e.out) = j + w * z
            <7>1. w * z = uz + kz
              BY <1>7, <2>3, <3>1, TimesPlus
            <7>2. PICK wz \in Nat : wz = w * z /\ wz = uz + kz
              BY <7>1
            <7>3. Len(e.out) = j + wz
              BY <2>5, <4>1, <6>1, <7>2
            <7>4. QED
              BY <7>2, <7>3
          <6>3. Len(dst'.out) = j + copy'.pushed * size'
            BY <1>5, <2>1, <3>2, <3>3, <6>2
          <6>4. j + m * size' = src'.pos \/ (j + m * size' <= src'.pos /\ AtEnd')
            BY <1>1, <1>5, <1>7, <2>9, <6>1
          <6>5. \A i \in 1 .. (m * size') : copy'.buf[i] = src'.buf[j + i]
            BY <1>1, <1>5, <1>7, <3>2, <3>3, <6>1
          <6>6. QED
            BY <6>3, <6>4, <6>5 DEF Aligned
        <5>2. ~Shut
          BY <2>7, <2>14
        <5>3. QED
          BY <1>3, <5>1, <5>2 DEF Pushing
      <4>2. CASE next # kz
        BY <2>10, <4>2
      <4>3. QED
        BY <4>1, <4>2
    <3>8. (carried' + copy'.total + copy'.pushed) * size' <= Len(dst'.out)
      <4>1. carried + t + u + k = carried' + copy'.total + copy'.pushed
        BY <3>1, <3>2, <3>3, <3>6 DEF CopyInv
      <4>2. QED
        BY <1>5, <2>1, <2>5, <2>11, <4>1
    <3>9. Pushing(m)'
      <4>1. copy'.pushed < m /\ m <= copy'.remaining /\ Len(copy'.buf) = m * size'
        BY <1>4, <1>5, <1>7, <1>8, <3>1, <3>2, <3>3
      <4>2. QED
        BY <3>7, <3>8, <4>1 DEF Pushing
    <3>10. Progress'
      <4>1. copy'.at = "push"
        BY <3>2, <3>3
      <4>2. QED
        BY <3>9, <4>1 DEF Progress
    <3>11. QED
      BY <1>16, <2>6, <2>8, <3>5, <3>6, <3>10 DEF CopyInv
  <2>15. QED
    BY <2>12, <2>13, <2>14
<1>19. QED
  BY <1>14, <1>17, <1>18

\* Every step of stream_read keeps what holds of the copy.
LEMMA CopyStepKeeps ==
  ASSUME CopyInv, StreamStep, size' = size,
         carried' = carried + IF copy'.at = "returned" /\ copy'.ret > 0 THEN copy'.ret ELSE 0
  PROVE  CopyInv'
BY PullKeeps, PullFailsKeeps, PushKeeps, FinishedKeeps DEF StreamStep

-----------------------------------------------------------------------------
(* Records: the inductive invariant.  Beside the copy it relates the latch   *)
(* to what each thread is in the middle of, and the buffer to the records    *)
(* written and read.                                                         *)

\* The latch is 1 while, and only while, one thread is in.
Holders ==
  /\ L!LatchTypeOK /\ L!MutualExclusion
  /\ word = 0 => \A t \in Users : at[t] # "in"

Turns ==
  /\ phase \in {"save", "copy", "load"}
  /\ step \in [Users -> {"check", "bytes", "length", "leave"}]
  /\ \A t \in Users : at[t] # "in" => step[t] = "check"
  /\ phase = "copy" => AllOut
  /\ did \in [Users -> Nat]
  /\ held \in [Users -> Seq(Byte)]
  /\ \A t \in Users : Len(held[t]) <= RecLen

IsRecord(r, i) ==
  \A j \in 1 .. RecLen : data[(i - 1) * RecLen + j] = <<r[1], r[2], j>>

\* The buffer holds the accepted records, each in one place of its own size.
Written ==
  /\ dcap \in Capacities /\ dlen \in Nat /\ dlen <= dcap
  /\ data \in Seq(Byte) /\ Len(data) = dcap
  /\ accepted \subseteq (Users \X Nat) /\ IsFiniteSet(accepted)
  /\ dlen = Cardinality(accepted) * RecLen
  /\ \A i \in 1 .. Cardinality(accepted) : \E r \in accepted : IsRecord(r, i)
  /\ \A r \in accepted : \E i \in 1 .. Cardinality(accepted) : IsRecord(r, i)

\* The record a thread is about to write has not been accepted before.
Pending(t) ==
  at[t] \in {"first", "spin", "again"} \/ (at[t] = "in" /\ step[t] # "leave")

Fresh ==
  phase = "save" =>
    \A r \in accepted : r[2] <= did[r[1]] /\ (Pending(r[1]) => r[2] < did[r[1]])

Busy(t) == at[t] = "in" /\ step[t] \in {"bytes", "length"}

MidRecord(t) ==
  /\ step[t] = "bytes" => Len(held[t]) < RecLen
  /\ step[t] = "length" => Len(held[t]) = RecLen

Writing ==
  phase = "save" =>
    \A t \in Users : Busy(t) =>
      /\ MidRecord(t) /\ dlen + RecLen <= dcap
      /\ \A j \in 1 .. Len(held[t]) : data[dlen + j] = <<t, did[t], j>>

\* What is copied is what was serialized.
Link ==
  /\ src.buf = IF phase = "save" THEN <<>> ELSE SubSeq(data, 1, dlen)
  /\ phase = "save" => copy = NoCopy /\ carried = 0
  /\ phase = "load" => copy.at = "returned"

Reading ==
  phase = "load" =>
    /\ head <= Received
    /\ \A t \in Users : Busy(t) =>
         /\ MidRecord(t) /\ head + RecLen <= Received
         /\ \A j \in 1 .. Len(held[t]) : held[t][j] = data[head + j]

Loaded ==
  /\ loaded \in Seq(Seq(Byte)) /\ head = Len(loaded) * RecLen
  /\ phase # "load" => head = 0
  /\ \A i \in 1 .. Len(loaded) :
       /\ Len(loaded[i]) = RecLen
       /\ \A j \in 1 .. RecLen : loaded[i][j] = data[(i - 1) * RecLen + j]

RecordsKept ==
  /\ Holders /\ Turns /\ Written /\ Fresh /\ Writing
  /\ Link /\ CopyInv /\ Reading /\ Loaded

\* What is assumed of the constants.
LEMMA ConstantsAre ==
  /\ RecLen \in Nat \ {0} /\ Word \in Nat
  /\ \A c \in Capacities : c \in Nat \ {0} /\ c + RecLen < Word
BY RecordsAssumption

\* The bound check of srlizr_write does not wrap.
LEMMA WordIs ==
  ASSUME NEW c \in Capacities, NEW n \in Nat, n <= c
  PROVE  (n + RecLen) % Word = n + RecLen
<1>1. PICK w \in Nat, l \in Nat, e \in Nat : w = Word /\ l = n + RecLen /\ e = c /\ l < w
  <2>1. RecLen \in Nat /\ Word \in Nat /\ c \in Nat /\ c + RecLen < Word
    BY ConstantsAre
  <2>2. QED
    BY <2>1
<1>2. (0 * w + l) % w = l /\ 0 * w = 0
  BY <1>1, ModOf
<1>3. QED
  BY <1>1, <1>2

\* The thread with the latch is the only one in.
LEMMA OthersAreOut ==
  ASSUME Holders, NEW t \in Users, at[t] = "in", NEW u \in Users, u # t
  PROVE  at[u] # "in"
BY DEF Holders, L!MutualExclusion

\* What has arrived is the beginning of what was serialized.
LEMMA ArrivedIs ==
  ASSUME Written, Link, CopyInv, phase # "save"
  PROVE  /\ Len(dst.out) \in Nat /\ Len(dst.out) <= dlen
         /\ dst.out \in Seq(Byte)
         /\ \A i \in 1 .. Len(dst.out) : dst.out[i] = data[i]
<1>1. PICK o \in Nat, a \in Nat :
        o = Len(dst.out) /\ a = src.pos /\ o <= a /\ a <= Len(src.buf)
  BY EndsAre DEF CopyInv, Prefix
<1>2. src.buf = SubSeq(data, 1, dlen)
  BY DEF Link
<1>3. PICK l \in Nat, c \in Nat : l = dlen /\ c = dcap /\ l <= c
  BY ConstantsAre DEF Written
<1>4. Len(src.buf) = l /\ \A i \in 1 .. l : src.buf[i] = data[i]
  BY <1>2, <1>3, FrontOf DEF Written
<1>5. dst.out \in Seq(Byte)
  BY EndsAre
<1>6. \A i \in 1 .. o : dst.out[i] = src.buf[i]
  BY <1>1 DEF CopyInv, Prefix
<1>7. QED
  BY <1>1, <1>3, <1>4, <1>5, <1>6

\* The deserializer is given no more than arrived.
LEMMA ReceivedIs ==
  ASSUME CopyInv, copy.at = "returned"
  PROVE  Received \in Nat /\ Received <= Len(dst.out)
<1>1. carried \in Nat /\ size \in Nat
  BY DEF CopyInv
<1>2. carried * size \in Nat
  BY <1>1, TimesType
<1>3. QED
  BY <1>2 DEF CopyInv, Progress, Reported, Received

-----------------------------------------------------------------------------
(* Records: steps that leave a part alone.                                   *)

\* Steps of the latch and of the users do not touch the copy ...
LEMMA CopyFrame ==
  ASSUME CopyInv, UNCHANGED <<copying, streamVars>>
  PROVE  CopyInv'
<1>1. src' = src /\ dst' = dst /\ copy' = copy /\ size' = size /\ carried' = carried
  BY DEF copying, streamVars
<1>2. Prefix' /\ Batch'
  BY <1>1 DEF CopyInv, Prefix, Batch, CopyRecords
<1>3. (Settled <=> Settled') /\ (Shut <=> Shut') /\ (Reported <=> Reported')
      /\ (Torn <=> Torn') /\ (AtEnd <=> AtEnd')
  BY <1>1 DEF Settled, AtEnd, TornSource, Shut, Reported, Torn
<1>4. ASSUME NEW m \in Nat, Pushing(m)
      PROVE  Pushing(m)'
  <2>1. ASSUME NEW b \in Nat, Aligned(b, m) PROVE Aligned(b, m)'
    BY <1>1, <1>3, <2>1 DEF Aligned
  <2>2. QED
    BY <1>1, <1>3, <1>4, <2>1 DEF Pushing
<1>5. Progress'
  BY <1>1, <1>3, <1>4 DEF CopyInv, Progress
<1>6. QED
  BY <1>1, <1>2, <1>5 DEF CopyInv

\* ... those of the copy not the buffer ...
LEMMA WrittenFrame ==
  ASSUME Written, UNCHANGED <<dcap, saving>>
  PROVE  Written'
BY DEF Written, saving, IsRecord

\* ... nor do they break the link between the two ...
LEMMA LinkFrame ==
  ASSUME Link, UNCHANGED <<phase, copying, streamVars>>,
         phase # "save" => UNCHANGED saving
  PROVE  Link'
BY DEF Link, copying, streamVars, saving, NoCopy

\* ... or what was loaded.
LEMMA LoadedFrame ==
  ASSUME Loaded, UNCHANGED <<phase, loading>>, phase # "save" => UNCHANGED saving,
         phase = "save" => loaded = <<>>
  PROVE  Loaded'
<1>1. phase' = phase /\ head' = head /\ loaded' = loaded
  BY DEF loading
<1>2. CASE phase = "save"
  <2>1. Len(loaded) = 0
    BY <1>2, EmptySeq
  <2>2. QED
    BY <1>1, <1>2, <2>1 DEF Loaded
<1>3. CASE phase # "save"
  BY <1>1, <1>3 DEF Loaded, saving
<1>4. QED
  BY <1>2, <1>3

\* Nothing is loaded before the last phase.
LEMMA NothingLoaded ==
  ASSUME Loaded, phase # "load"
  PROVE  loaded = <<>> /\ head = 0
<1>1. loaded \in Seq(Seq(Byte)) /\ head = Len(loaded) * RecLen /\ head = 0
  BY DEF Loaded
<1>2. PICK n \in Nat : n = Len(loaded)
  BY <1>1, LenProperties
<1>3. n = 0
  <2>1. CASE n # 0
    <3>1. 1 * RecLen <= n * RecLen /\ 1 * RecLen = RecLen
      BY <2>1, ConstantsAre, TimesMono, Times1
    <3>2. QED
      BY <1>1, <1>2, <3>1, ConstantsAre
  <2>2. QED
    BY <2>1
<1>4. loaded = <<>>
  BY <1>1, <1>2, <1>3, EmptySeq
<1>5. QED
  BY <1>1, <1>4

-----------------------------------------------------------------------------
(* The latch.                                                                *)

\* latch_lock is called.
LEMMA EnterKeeps ==
  ASSUME RecordsKept, NEW t \in Users, Enter(t)
  PROVE  RecordsKept'
<1>1. /\ phase \in {"save", "load"} /\ at[t] = "out" /\ at' = [at EXCEPT ![t] = "first"]
      /\ word' = word /\ did' = [did EXCEPT ![t] = @ + 1] /\ phase' = phase /\ step' = step
      /\ UNCHANGED <<dcap, saving, copying, loading, streamVars>>
  BY DEF Enter, L!Call, L!Goto
<1>2. at \in [Users -> {"out", "first", "spin", "again", "in"}] /\ did \in [Users -> Nat]
  BY DEF RecordsKept, Holders, L!LatchTypeOK, Turns
<1>3. at' \in [Users -> {"out", "first", "spin", "again", "in"}] /\ did' \in [Users -> Nat]
  BY <1>1, <1>2
<1>4. \A u \in Users : at'[u] = IF u = t THEN "first" ELSE at[u]
  BY <1>1, <1>2
<1>5. \A u \in Users : did'[u] = IF u = t THEN did[u] + 1 ELSE did[u]
  BY <1>1, <1>2
<1>6. \A u \in Users : at'[u] = "in" => at[u] = "in" /\ u # t
  BY <1>4
<1>7. Holders'
  BY <1>1, <1>3, <1>6 DEF RecordsKept, Holders, L!LatchTypeOK, L!MutualExclusion
<1>8. held' = held /\ head' = head /\ loaded' = loaded
  BY <1>1 DEF loading
<1>9. Turns'
  <2>1. \A u \in Users : at'[u] # "in" => step'[u] = "check"
    BY <1>1, <1>4 DEF RecordsKept, Turns
  <2>2. QED
    BY <1>1, <1>3, <1>8, <2>1 DEF RecordsKept, Turns
<1>10. Written' /\ CopyInv' /\ Link'
  BY <1>1, WrittenFrame, CopyFrame, LinkFrame DEF RecordsKept
<1>11. Loaded'
  BY <1>1, LoadedFrame, NothingLoaded DEF RecordsKept
<1>12. Fresh'
  <2>1. SUFFICES ASSUME phase = "save", NEW r \in accepted
                 PROVE  r[2] <= did'[r[1]] /\ (Pending(r[1])' => r[2] < did'[r[1]])
    BY <1>1 DEF Fresh, saving
  <2>2. r[1] \in Users /\ r[2] \in Nat
    BY DEF RecordsKept, Written
  <2>3. r[2] <= did[r[1]] /\ (Pending(r[1]) => r[2] < did[r[1]]) /\ did[r[1]] \in Nat
    BY <1>2, <2>1, <2>2 DEF RecordsKept, Fresh
  <2>4. CASE r[1] = t
    BY <1>5, <2>2, <2>3, <2>4
  <2>5. CASE r[1] # t
    <3>1. Pending(r[1])' => Pending(r[1])
      BY <1>1, <1>4, <2>2, <2>5 DEF Pending
    <3>2. QED
      BY <1>5, <2>2, <2>3, <2>5, <3>1
  <2>6. QED
    BY <2>4, <2>5
<1>13. \A u \in Users : Busy(u)' => Busy(u) /\ u # t
  BY <1>1, <1>6 DEF Busy
<1>14. \A u \in Users : MidRecord(u) => MidRecord(u)'
  BY <1>1, <1>8 DEF MidRecord
<1>15. Writing'
  BY <1>1, <1>5, <1>8, <1>13, <1>14 DEF RecordsKept, Writing, saving
<1>16. Reading'
  BY <1>1, <1>8, <1>13, <1>14 DEF RecordsKept, Reading, Received, saving, copying, streamVars
<1>17. QED
  BY <1>7, <1>9, <1>10, <1>11, <1>12, <1>15, <1>16 DEF RecordsKept

\* A thread moves inside latch_lock.
LEMMA MovedKeeps ==
  ASSUME RecordsKept, NEW t \in Users, NEW l \in {"spin", "again", "in"},
         at[t] \in {"first", "again", "spin"}, at' = [at EXCEPT ![t] = l], Holders',
         UNCHANGED <<phase, step, did, dcap, saving, copying, loading, streamVars>>
  PROVE  RecordsKept'
<1>1. /\ phase' = phase /\ step' = step /\ did' = did /\ held' = held /\ head' = head
      /\ loaded' = loaded /\ data' = data /\ dlen' = dlen /\ accepted' = accepted
      /\ size' = size /\ carried' = carried /\ dcap' = dcap
  BY DEF saving, copying, loading
<1>2. at \in [Users -> {"out", "first", "spin", "again", "in"}]
  BY DEF RecordsKept, Holders, L!LatchTypeOK
<1>3. \A u \in Users : at'[u] = IF u = t THEN l ELSE at[u]
  BY <1>2
<1>4. step[t] = "check" /\ phase # "copy"
  BY DEF RecordsKept, Turns, AllOut
<1>5. Turns'
  <2>1. \A u \in Users : at'[u] # "in" => step'[u] = "check"
    BY <1>1, <1>3, <1>4 DEF RecordsKept, Turns
  <2>2. QED
    BY <1>1, <1>4, <2>1 DEF RecordsKept, Turns
<1>6. Written' /\ CopyInv' /\ Link'
  BY <1>1, WrittenFrame, CopyFrame, LinkFrame DEF RecordsKept
<1>7. Loaded'
  BY <1>1, LoadedFrame, NothingLoaded DEF RecordsKept
<1>8. \A u \in Users : Pending(u)' => Pending(u)
  BY <1>1, <1>3 DEF Pending
<1>9. Fresh'
  <2>1. SUFFICES ASSUME phase = "save", NEW r \in accepted
                 PROVE  r[2] <= did[r[1]] /\ (Pending(r[1])' => r[2] < did[r[1]])
    BY <1>1 DEF Fresh
  <2>2. r[1] \in Users
    BY DEF RecordsKept, Written
  <2>3. r[2] <= did[r[1]] /\ (Pending(r[1]) => r[2] < did[r[1]])
    BY <2>1 DEF RecordsKept, Fresh
  <2>4. QED
    BY <1>8, <2>2, <2>3
<1>10. \A u \in Users : Busy(u)' => Busy(u)
  BY <1>1, <1>3, <1>4 DEF Busy
<1>11. \A u \in Users : MidRecord(u) => MidRecord(u)'
  BY <1>1 DEF MidRecord
<1>12. Writing'
  BY <1>1, <1>10, <1>11 DEF RecordsKept, Writing
<1>13. Reading'
  BY <1>1, <1>10, <1>11 DEF RecordsKept, Reading, Received
<1>14. QED
  BY <1>5, <1>6, <1>7, <1>9, <1>12, <1>13 DEF RecordsKept

\* The exchange of latch_lock succeeds: the thread begins at the check.
LEMMA AcquireKeeps ==
  ASSUME RecordsKept, NEW t \in Users, Acquire(t)
  PROVE  RecordsKept'
<1>1. /\ at[t] \in {"first", "again"} /\ word = 0 /\ word' = 1 /\ at' = [at EXCEPT ![t] = "in"]
      /\ UNCHANGED <<phase, step, did, dcap, saving, copying, loading, streamVars>>
  BY DEF Acquire, L!Exchange, L!Goto
<1>2. at \in [Users -> {"out", "first", "spin", "again", "in"}] /\ \A u \in Users : at[u] # "in"
  BY <1>1 DEF RecordsKept, Holders, L!LatchTypeOK
<1>3. \A u \in Users : at'[u] = "in" => u = t
  BY <1>1, <1>2
<1>4. at' \in [Users -> {"out", "first", "spin", "again", "in"}]
  BY <1>1, <1>2
<1>5. Holders'
  BY <1>1, <1>3, <1>4 DEF Holders, L!LatchTypeOK, L!MutualExclusion
<1>6. QED
  BY <1>1, <1>5, MovedKeeps

\* The exchange fails, or the spinning ends.
LEMMA WaitKeeps ==
  ASSUME RecordsKept, NEW t \in Users, WaitLatch(t)
  PROVE  RecordsKept'
<1>1. PICK l \in {"spin", "again"} :
        /\ at[t] \in {"first", "again", "spin"} /\ word' = word /\ at' = [at EXCEPT ![t] = l]
        /\ UNCHANGED <<phase, step, did, dcap, saving, copying, loading, streamVars>>
  BY DEF WaitLatch, L!Miss, L!SeeFree, L!Goto
<1>2. at \in [Users -> {"out", "first", "spin", "again", "in"}]
  BY DEF RecordsKept, Holders, L!LatchTypeOK
<1>3. \A u \in Users : at'[u] = "in" => at[u] = "in"
  BY <1>1, <1>2
<1>4. at' \in [Users -> {"out", "first", "spin", "again", "in"}]
  BY <1>1, <1>2
<1>5. Holders'
  BY <1>1, <1>3, <1>4 DEF RecordsKept, Holders, L!LatchTypeOK, L!MutualExclusion
<1>6. QED
  BY <1>1, <1>5, MovedKeeps

\* latch_unlock, with nothing half done behind it.
LEMMA LeaveKeeps ==
  ASSUME RecordsKept, NEW t \in Users, Leave(t)
  PROVE  RecordsKept'
<1>1. /\ at[t] = "in" /\ step[t] = "leave" /\ word' = 0 /\ at' = [at EXCEPT ![t] = "out"]
      /\ step' = [step EXCEPT ![t] = "check"]
      /\ UNCHANGED <<phase, did, dcap, saving, copying, loading, streamVars>>
  BY DEF Leave, L!Unlock, L!Goto, Then
<1>2. /\ phase' = phase /\ did' = did /\ held' = held /\ head' = head
      /\ loaded' = loaded /\ data' = data /\ dlen' = dlen /\ accepted' = accepted
      /\ size' = size /\ carried' = carried /\ dcap' = dcap
  BY <1>1 DEF saving, copying, loading
<1>3. /\ at \in [Users -> {"out", "first", "spin", "again", "in"}]
      /\ step \in [Users -> {"check", "bytes", "length", "leave"}]
  BY DEF RecordsKept, Holders, L!LatchTypeOK, Turns
<1>4. /\ at' \in [Users -> {"out", "first", "spin", "again", "in"}]
      /\ step' \in [Users -> {"check", "bytes", "length", "leave"}]
  BY <1>1, <1>3
<1>5. \A u \in Users : /\ at'[u] = IF u = t THEN "out" ELSE at[u]
                       /\ step'[u] = IF u = t THEN "check" ELSE step[u]
  BY <1>1, <1>3
<1>6. \A u \in Users : at'[u] # "in"
  BY <1>1, <1>5, OthersAreOut DEF RecordsKept
<1>7. Holders'
  BY <1>1, <1>4, <1>6 DEF Holders, L!LatchTypeOK, L!MutualExclusion
<1>8. Turns'
  <2>1. \A u \in Users : step'[u] = "check"
    BY <1>5, <1>1, OthersAreOut DEF RecordsKept, Turns
  <2>2. phase # "copy"
    BY <1>1 DEF RecordsKept, Turns, AllOut
  <2>3. QED
    BY <1>2, <1>4, <2>1, <2>2 DEF RecordsKept, Turns
<1>9. Written' /\ CopyInv' /\ Link'
  BY <1>1, <1>2, WrittenFrame, CopyFrame, LinkFrame DEF RecordsKept
<1>10. Loaded'
  BY <1>1, <1>2, LoadedFrame, NothingLoaded DEF RecordsKept
<1>11. \A u \in Users : Pending(u)' => Pending(u)
  BY <1>5 DEF Pending
<1>12. Fresh'
  <2>1. SUFFICES ASSUME phase = "save", NEW r \in accepted
                 PROVE  r[2] <= did[r[1]] /\ (Pending(r[1])' => r[2] < did[r[1]])
    BY <1>2 DEF Fresh
  <2>2. r[1] \in Users
    BY DEF RecordsKept, Written
  <2>3. r[2] <= did[r[1]] /\ (Pending(r[1]) => r[2] < did[r[1]])
    BY <2>1 DEF RecordsKept, Fresh
  <2>4. QED
    BY <1>11, <2>2, <2>3
<1>13. \A u \in Users : ~Busy(u)'
  BY <1>6 DEF Busy
<1>14. Writing'
  BY <1>13 DEF Writing
<1>15. Reading'
  BY <1>2, <1>13 DEF RecordsKept, Reading, Received
<1>16. QED
  BY <1>7, <1>8, <1>9, <1>10, <1>12, <1>14, <1>15 DEF RecordsKept

-----------------------------------------------------------------------------
(* Saving.                                                                   *)

\* The check of srlizr_write: the record fits, or the call fails.
LEMMA CheckWriteKeeps ==
  ASSUME RecordsKept, NEW t \in Users, CheckWrite(t)
  PROVE  RecordsKept'
<1>1. PICK s \in {"bytes", "leave"} :
        /\ s = (IF Fits THEN "bytes" ELSE "leave")
        /\ phase = "save" /\ at[t] = "in" /\ step[t] = "check"
        /\ step' = [step EXCEPT ![t] = s] /\ held' = [held EXCEPT ![t] = <<>>]
        /\ UNCHANGED <<phase, word, at, did, dcap, saving, copying, head, loaded, streamVars>>
  BY DEF CheckWrite, Inside, Then
<1>2. /\ data' = data /\ dlen' = dlen /\ accepted' = accepted
      /\ size' = size /\ carried' = carried /\ dcap' = dcap /\ phase' = phase /\ at' = at
      /\ word' = word /\ did' = did
  BY <1>1 DEF saving, copying
<1>3. /\ step \in [Users -> {"check", "bytes", "length", "leave"}]
      /\ held \in [Users -> Seq(Byte)] /\ <<>> \in Seq(Byte) /\ Len(<<>>) = 0
  BY EmptySeq DEF RecordsKept, Turns
<1>4. /\ step' \in [Users -> {"check", "bytes", "length", "leave"}]
      /\ held' \in [Users -> Seq(Byte)]
  BY <1>1, <1>3
<1>5. \A u \in Users : /\ step'[u] = IF u = t THEN s ELSE step[u]
                       /\ held'[u] = IF u = t THEN <<>> ELSE held[u]
  BY <1>1, <1>3
<1>6. Holders'
  BY <1>2 DEF RecordsKept, Holders, L!LatchTypeOK, L!MutualExclusion
<1>7. Turns'
  <2>1. \A u \in Users : at'[u] # "in" => step'[u] = "check"
    BY <1>1, <1>2, <1>5 DEF RecordsKept, Turns
  <2>2. \A u \in Users : Len(held'[u]) <= RecLen
    BY <1>3, <1>5, ConstantsAre DEF RecordsKept, Turns
  <2>3. QED
    BY <1>1, <1>2, <1>4, <2>1, <2>2 DEF RecordsKept, Turns
<1>8. Written' /\ CopyInv' /\ Link'
  BY <1>1, <1>2, WrittenFrame, CopyFrame, LinkFrame DEF RecordsKept
<1>9. Loaded'
  <2>1. loaded = <<>> /\ head = 0
    BY <1>1, NothingLoaded DEF RecordsKept
  <2>2. loaded' = loaded /\ head' = head /\ phase' = phase /\ data' = data
    BY <1>1, <1>2
  <2>3. QED
    BY <2>2 DEF RecordsKept, Loaded
<1>10. Fresh'
  <2>1. SUFFICES ASSUME NEW r \in accepted
                 PROVE  r[2] <= did[r[1]] /\ (Pending(r[1])' => r[2] < did[r[1]])
    BY <1>2 DEF Fresh
  <2>2. r[1] \in Users
    BY DEF RecordsKept, Written
  <2>3. r[2] <= did[r[1]] /\ (Pending(r[1]) => r[2] < did[r[1]])
    BY <1>1 DEF RecordsKept, Fresh
  <2>4. Pending(r[1])' => Pending(r[1])
    BY <1>1, <1>2, <1>5, <2>2 DEF Pending
  <2>5. QED
    BY <2>3, <2>4
<1>11. Writing'
  <2>1. SUFFICES ASSUME NEW u \in Users, Busy(u)'
                 PROVE  /\ MidRecord(u)' /\ dlen + RecLen <= dcap
                        /\ \A j \in 1 .. Len(held'[u]) : data[dlen + j] = <<u, did[u], j>>
    BY <1>2 DEF Writing
  <2>2. u = t /\ s = "bytes"
    BY <1>1, <1>2, <1>5, <2>1, OthersAreOut DEF RecordsKept, Busy
  <2>3. Fits
    BY <1>1, <2>2
  <2>4. dlen + RecLen <= dcap
    BY <2>3, WordIs DEF Fits, RecordsKept, Written
  <2>5. held'[u] = <<>> /\ step'[u] = "bytes"
    BY <1>5, <2>2
  <2>6. QED
    BY <1>3, <2>4, <2>5, ConstantsAre DEF MidRecord
<1>12. Reading'
  BY <1>1, <1>2 DEF Reading
<1>13. QED
  BY <1>6, <1>7, <1>8, <1>9, <1>10, <1>11, <1>12 DEF RecordsKept

\* One more byte at the end of a sequence of them.
LEMMA AppendIs ==
  ASSUME NEW S, NEW s \in Seq(S), NEW x \in S
  PROVE  /\ Append(s, x) \in Seq(S) /\ Len(Append(s, x)) = Len(s) + 1
         /\ Append(s, x)[Len(s) + 1] = x
         /\ \A i \in 1 .. Len(s) : Append(s, x)[i] = s[i]
BY AppendProperties

\* The places of whole records are below the length, those of a write above.
LEMMA PlaceIs ==
  ASSUME NEW n \in Nat, NEW i \in 1 .. n, NEW j \in 1 .. RecLen
  PROVE  (i - 1) * RecLen + j \in 1 .. (n * RecLen) /\ i * RecLen <= n * RecLen
<1>1. PICK k \in Nat, l \in Nat : k = i - 1 /\ l = RecLen /\ k < n /\ i = k + 1
  BY ConstantsAre
<1>2. k * l + l <= n * l
  BY <1>1, TimesNext
<1>3. PICK kl \in Nat, nl \in Nat : kl = k * l /\ nl = n * l /\ kl + l <= nl
  BY <1>2, TimesType
<1>4. j \in 1 .. l
  BY <1>1
<1>5. kl + j \in 1 .. nl
  BY <1>3, <1>4
<1>6. i * l = kl + l
  BY <1>1, <1>3, Times1
<1>7. QED
  BY <1>1, <1>3, <1>5, <1>6

\* memcpy's next byte lands past every whole record.
LEMMA WriteByteKeeps ==
  ASSUME RecordsKept, NEW t \in Users, WriteByte(t)
  PROVE  RecordsKept'
<1>1. PICK k \in Nat : k = Len(held[t])
  <2>1. held[t] \in Seq(Byte)
    BY DEF RecordsKept, Turns
  <2>2. QED
    BY <2>1, LenProperties
<1>2. PICK b : b = Record(t, did[t])[k + 1]
  OBVIOUS
<1>3. PICK s \in {"bytes", "length"} :
        /\ k = Len(held[t]) /\ b = Record(t, did[t])[k + 1]
        /\ s = (IF k + 1 = RecLen THEN "length" ELSE "bytes")
        /\ phase = "save" /\ at[t] = "in" /\ step[t] = "bytes"
        /\ step' = [step EXCEPT ![t] = s] /\ held' = [held EXCEPT ![t] = Append(held[t], b)]
        /\ data' = [data EXCEPT ![dlen + k + 1] = b]
        /\ UNCHANGED <<phase, word, at, did, dcap, dlen, accepted, copying, head, loaded, streamVars>>
  BY <1>1, <1>2 DEF WriteByte, Inside, Then
<1>4. /\ size' = size /\ carried' = carried
  BY <1>3 DEF copying
<1>5. /\ step \in [Users -> {"check", "bytes", "length", "leave"}]
      /\ held \in [Users -> Seq(Byte)] /\ held[t] \in Seq(Byte) /\ did[t] \in Nat
  BY DEF RecordsKept, Turns
<1>6. k < RecLen /\ dlen + RecLen <= dcap /\ \A j \in 1 .. k : data[dlen + j] = <<t, did[t], j>>
  BY <1>3 DEF RecordsKept, Writing, Busy, MidRecord
<1>7. b = <<t, did[t], k + 1>> /\ b \in Byte
  <2>1. k + 1 \in 1 .. RecLen
    BY <1>6, ConstantsAre
  <2>2. b = <<t, did[t], k + 1>>
    BY <1>3, <2>1 DEF Record
  <2>3. QED
    BY <1>5, <2>2 DEF Byte
<1>8. PICK g : g = Append(held[t], b)
  OBVIOUS
<1>9. /\ g \in Seq(Byte) /\ Len(g) = k + 1 /\ g[k + 1] = b
      /\ \A i \in 1 .. k : g[i] = held[t][i]
  BY <1>3, <1>5, <1>7, <1>8, AppendIs
<1>10. /\ step' \in [Users -> {"check", "bytes", "length", "leave"}]
      /\ held' \in [Users -> Seq(Byte)]
  BY <1>3, <1>5, <1>8, <1>9
<1>11. \A u \in Users : /\ step'[u] = IF u = t THEN s ELSE step[u]
                       /\ held'[u] = IF u = t THEN g ELSE held[u]
  BY <1>3, <1>5, <1>8
<1>12. Holders'
  BY <1>3 DEF RecordsKept, Holders, L!LatchTypeOK, L!MutualExclusion
<1>13. Turns'
  <2>1. \A u \in Users : at'[u] # "in" => step'[u] = "check"
    BY <1>3, <1>11 DEF RecordsKept, Turns
  <2>2. k + 1 <= RecLen
    BY <1>6, ConstantsAre
  <2>3. \A u \in Users : Len(held'[u]) <= RecLen
    BY <1>9, <1>11, <2>2 DEF RecordsKept, Turns
  <2>4. QED
    BY <1>3, <1>10, <2>1, <2>3 DEF RecordsKept, Turns
<1>14. PICK l \in Nat, c \in Nat, p \in Nat :
         l = dlen /\ c = dcap /\ p = l + k + 1 /\ p <= c /\ l < p /\ data \in Seq(Byte) /\ Len(data) = c
  BY <1>6, ConstantsAre DEF RecordsKept, Written
<1>15. /\ data' \in Seq(Byte) /\ Len(data') = c
       /\ \A j \in 1 .. c : data'[j] = IF j = p THEN b ELSE data[j]
  <2>1. p \in 1 .. Len(data) /\ data' = [data EXCEPT ![p] = b]
    BY <1>3, <1>14
  <2>2. /\ [data EXCEPT ![p] = b] \in Seq(Byte)
        /\ Len([data EXCEPT ![p] = b]) = Len(data)
        /\ \A j \in 1 .. Len(data) : [data EXCEPT ![p] = b][j] = IF j = p THEN b ELSE data[j]
    BY <1>7, <1>14, <2>1, ExceptSeq
  <2>3. QED
    BY <1>14, <2>1, <2>2
<1>16. PICK n \in Nat : n = Cardinality(accepted) /\ l = n * RecLen
  BY <1>14, FS_CardinalityType DEF RecordsKept, Written
<1>17. \A r, i : i \in 1 .. n /\ IsRecord(r, i) => IsRecord(r, i)'
  <2>1. SUFFICES ASSUME NEW r, NEW i \in 1 .. n, IsRecord(r, i), NEW j \in 1 .. RecLen
                 PROVE  data'[(i - 1) * RecLen + j] = <<r[1], r[2], j>>
    BY DEF IsRecord
  <2>2. PICK q : q = (i - 1) * RecLen + j
    OBVIOUS
  <2>3. q \in 1 .. l
    BY <1>16, <2>2, PlaceIs
  <2>4. q \in 1 .. c /\ q # p
    BY <1>14, <2>3
  <2>5. data'[q] = data[q]
    BY <1>15, <2>4
  <2>6. QED
    BY <2>1, <2>2, <2>5 DEF IsRecord
<1>18. Written'
  <2>1. /\ \A i \in 1 .. n : \E r \in accepted : IsRecord(r, i)'
        /\ \A r \in accepted : \E i \in 1 .. n : IsRecord(r, i)'
    BY <1>16, <1>17 DEF RecordsKept, Written
  <2>2. QED
    BY <1>3, <1>14, <1>15, <1>16, <2>1 DEF RecordsKept, Written
<1>19. CopyInv'
  BY <1>3, CopyFrame DEF RecordsKept
<1>20. Link'
  BY <1>3, <1>4 DEF RecordsKept, Link, streamVars
<1>21. Loaded'
  <2>1. loaded = <<>> /\ head = 0 /\ Len(<<>>) = 0
    BY <1>3, NothingLoaded, EmptySeq DEF RecordsKept
  <2>2. loaded' = <<>> /\ head' = 0 /\ phase' = phase /\ <<>> \in Seq(Seq(Byte))
    BY <1>3, <2>1, EmptySeq
  <2>3. 0 * RecLen = 0
    BY ConstantsAre
  <2>4. QED
    BY <2>1, <2>2, <2>3 DEF RecordsKept, Loaded
<1>22. Fresh'
  <2>1. SUFFICES ASSUME NEW r \in accepted
                 PROVE  r[2] <= did[r[1]] /\ (Pending(r[1])' => r[2] < did[r[1]])
    BY <1>3 DEF Fresh
  <2>2. r[1] \in Users
    BY DEF RecordsKept, Written
  <2>3. r[2] <= did[r[1]] /\ (Pending(r[1]) => r[2] < did[r[1]])
    BY <1>3 DEF RecordsKept, Fresh
  <2>4. Pending(r[1])' => Pending(r[1])
    BY <1>3, <1>11, <2>2 DEF Pending
  <2>5. QED
    BY <2>3, <2>4
<1>23. Writing'
  <2>1. SUFFICES ASSUME NEW u \in Users, Busy(u)'
                 PROVE  /\ MidRecord(u)' /\ dlen + RecLen <= dcap
                        /\ \A j \in 1 .. Len(held'[u]) : data'[dlen + j] = <<u, did[u], j>>
    BY <1>3 DEF Writing
  <2>2. u = t
    BY <1>3, <1>11, <2>1, OthersAreOut DEF RecordsKept, Busy
  <2>3. MidRecord(u)'
    <3>1. held'[u] = g /\ step'[u] = s
      BY <1>11, <2>2
    <3>2. RecLen \in Nat
      BY ConstantsAre
    <3>3. QED
      BY <1>3, <1>6, <1>9, <3>1, <3>2 DEF MidRecord
  <2>4. ASSUME NEW j \in 1 .. (k + 1)
        PROVE  data'[dlen + j] = <<t, did[t], j>>
    <3>1. CASE j = k + 1
      BY <1>7, <1>14, <1>15, <3>1
    <3>2. CASE j # k + 1
      <4>1. j \in 1 .. k /\ l + j \in 1 .. c /\ l + j # p
        BY <1>14, <3>2
      <4>2. QED
        BY <1>6, <1>14, <1>15, <4>1
    <3>3. QED
      BY <3>1, <3>2
  <2>5. QED
    BY <1>6, <1>9, <1>11, <2>2, <2>3, <2>4
<1>24. Reading'
  BY <1>3 DEF Reading
<1>25. QED
  BY <1>12, <1>13, <1>18, <1>19, <1>20, <1>21, <1>22, <1>23, <1>24 DEF RecordsKept

\* dlen moves: the record written is a whole one, at a place of its own.
LEMMA WriteLengthKeeps ==
  ASSUME RecordsKept, NEW t \in Users, WriteLength(t)
  PROVE  RecordsKept'
<1>1. /\ phase = "save" /\ at[t] = "in" /\ step[t] = "length"
      /\ step' = [step EXCEPT ![t] = "leave"]
      /\ dlen' = dlen + RecLen /\ accepted' = accepted \cup {<<t, did[t]>>}
      /\ UNCHANGED <<phase, word, at, did, dcap, data, copying, loading, streamVars>>
  BY DEF WriteLength, Inside, Then
<1>2. size' = size /\ carried' = carried /\ held' = held /\ head' = head /\ loaded' = loaded
  BY <1>1 DEF copying, loading
<1>3. /\ step \in [Users -> {"check", "bytes", "length", "leave"}] /\ did[t] \in Nat
      /\ RecLen \in Nat
  BY ConstantsAre DEF RecordsKept, Turns
<1>4. step' \in [Users -> {"check", "bytes", "length", "leave"}]
  BY <1>1, <1>3
<1>5. \A u \in Users : step'[u] = IF u = t THEN "leave" ELSE step[u]
  BY <1>1, <1>3
<1>6. /\ Len(held[t]) = RecLen /\ dlen + RecLen <= dcap
      /\ \A j \in 1 .. RecLen : data[dlen + j] = <<t, did[t], j>>
  BY <1>1 DEF RecordsKept, Writing, Busy, MidRecord
<1>7. PICK r0 : r0 = <<t, did[t]>> /\ r0 \in Users \X Nat /\ r0[1] = t /\ r0[2] = did[t]
  <2>1. <<t, did[t]>> \in Users \X Nat
    BY <1>3
  <2>2. <<t, did[t]>>[1] = t /\ <<t, did[t]>>[2] = did[t]
    OBVIOUS
  <2>3. QED
    BY <2>1, <2>2
<1>8. r0 \notin accepted
  <2>1. \A r \in accepted : r[1] = t => r[2] < did[t]
    BY <1>1 DEF RecordsKept, Fresh, Pending
  <2>2. QED
    BY <1>3, <1>7, <2>1
<1>9. PICK n \in Nat : n = Cardinality(accepted) /\ dlen = n * RecLen
  BY FS_CardinalityType DEF RecordsKept, Written
<1>10. IsFiniteSet(accepted') /\ Cardinality(accepted') = n + 1
  BY <1>1, <1>7, <1>8, <1>9, FS_AddElement DEF RecordsKept, Written
<1>11. IsRecord(r0, n + 1)
  <2>1. (n + 1) - 1 = n
    OBVIOUS
  <2>2. QED
    BY <1>6, <1>7, <1>9, <2>1 DEF IsRecord
<1>12. \A r, i : IsRecord(r, i)' <=> IsRecord(r, i)
  BY <1>1 DEF IsRecord
<1>13. Holders'
  BY <1>1 DEF RecordsKept, Holders, L!LatchTypeOK, L!MutualExclusion
<1>14. Turns'
  <2>1. \A u \in Users : at'[u] # "in" => step'[u] = "check"
    BY <1>1, <1>5 DEF RecordsKept, Turns
  <2>2. QED
    BY <1>1, <1>2, <1>4, <2>1 DEF RecordsKept, Turns
<1>15. Written'
  <2>1. dlen' \in Nat /\ dlen' <= dcap
    BY <1>1, <1>3, <1>6 DEF RecordsKept, Written
  <2>2. dlen' = (n + 1) * RecLen
    <3>1. (n + 1) * RecLen = n * RecLen + RecLen
      BY <1>3, Times1
    <3>2. QED
      BY <1>1, <1>9, <3>1
  <2>3. accepted' \subseteq Users \X Nat
    BY <1>1, <1>7 DEF RecordsKept, Written
  <2>4. \A i \in 1 .. (n + 1) : \E r \in accepted' : IsRecord(r, i)
    <3>1. SUFFICES ASSUME NEW i \in 1 .. (n + 1) PROVE \E r \in accepted' : IsRecord(r, i)
      OBVIOUS
    <3>2. CASE i = n + 1
      BY <1>1, <1>7, <1>11, <3>2
    <3>3. CASE i # n + 1
      <4>1. i \in 1 .. n
        BY <3>3
      <4>2. QED
        BY <1>1, <1>9, <4>1 DEF RecordsKept, Written
    <3>4. QED
      BY <3>2, <3>3
  <2>5. \A r \in accepted' : \E i \in 1 .. (n + 1) : IsRecord(r, i)
    <3>1. SUFFICES ASSUME NEW r \in accepted' PROVE \E i \in 1 .. (n + 1) : IsRecord(r, i)
      OBVIOUS
    <3>2. CASE r = r0
      BY <1>11, <3>2
    <3>3. CASE r # r0
      <4>1. r \in accepted
        BY <1>1, <1>7, <3>3
      <4>2. PICK i \in 1 .. n : IsRecord(r, i)
        BY <1>9, <4>1 DEF RecordsKept, Written
      <4>3. QED
        BY <4>2
    <3>4. QED
      BY <3>2, <3>3
  <2>6. QED
    BY <1>1, <1>10, <1>12, <2>1, <2>2, <2>3, <2>4, <2>5 DEF RecordsKept, Written
<1>16. CopyInv'
  BY <1>1, CopyFrame DEF RecordsKept
<1>17. Link'
  BY <1>1, <1>2 DEF RecordsKept, Link, streamVars
<1>18. Loaded'
  <2>1. phase' = phase /\ data' = data
    BY <1>1
  <2>2. QED
    BY <1>2, <2>1 DEF RecordsKept, Loaded
<1>19. Fresh'
  <2>1. SUFFICES ASSUME NEW r \in accepted'
                 PROVE  r[2] <= did[r[1]] /\ (Pending(r[1])' => r[2] < did[r[1]])
    BY <1>1 DEF Fresh
  <2>2. CASE r = r0
    <3>1. ~Pending(t)'
      BY <1>1, <1>5 DEF Pending
    <3>2. QED
      BY <1>3, <1>7, <2>2, <3>1
  <2>3. CASE r # r0
    <3>1. r \in accepted /\ r[1] \in Users
      BY <1>1, <1>7, <2>3 DEF RecordsKept, Written
    <3>2. r[2] <= did[r[1]] /\ (Pending(r[1]) => r[2] < did[r[1]])
      BY <1>1, <3>1 DEF RecordsKept, Fresh
    <3>3. Pending(r[1])' => Pending(r[1])
      BY <1>1, <1>5, <3>1 DEF Pending
    <3>4. QED
      BY <3>2, <3>3
  <2>4. QED
    BY <2>2, <2>3
<1>20. Writing'
  <2>1. \A u \in Users : ~Busy(u)'
    BY <1>1, <1>5, OthersAreOut DEF RecordsKept, Busy
  <2>2. QED
    BY <2>1 DEF Writing
<1>21. Reading'
  BY <1>1 DEF Reading
<1>22. QED
  BY <1>13, <1>14, <1>15, <1>16, <1>17, <1>18, <1>19, <1>20, <1>21 DEF RecordsKept

-----------------------------------------------------------------------------
(* Loading.                                                                  *)

\* All the deserializer holds was saved.
LEMMA ReceivedFits ==
  ASSUME RecordsKept, phase = "load"
  PROVE  /\ Received \in Nat /\ Received <= Len(dst.out) /\ Received <= dlen
         /\ dlen \in Nat /\ dlen <= dcap /\ dcap \in Capacities /\ head \in Nat /\ head <= Received
<1>1. Received \in Nat /\ Received <= Len(dst.out)
  BY ReceivedIs DEF RecordsKept, Link
<1>2. Len(dst.out) \in Nat /\ Len(dst.out) <= dlen
  BY ArrivedIs DEF RecordsKept
<1>3. dlen \in Nat /\ dlen <= dcap /\ dcap \in Capacities
  BY DEF RecordsKept, Written
<1>4. head \in Nat
  <2>1. Len(loaded) \in Nat /\ RecLen \in Nat
    BY LenProperties, ConstantsAre DEF RecordsKept, Loaded
  <2>2. Len(loaded) * RecLen \in Nat
    BY <2>1, TimesType
  <2>3. QED
    BY <2>2 DEF RecordsKept, Loaded
<1>5. head <= Received
  BY DEF RecordsKept, Reading
<1>6. QED
  BY <1>1, <1>2, <1>3, <1>4, <1>5

\* A step of a reader leaves what was saved and copied alone.
LEMMA ReaderKeeps ==
  ASSUME RecordsKept, phase = "load", NEW t \in Users, at[t] = "in",
         NEW s \in {"bytes", "length", "leave"}, NEW g \in Seq(Byte), Len(g) <= RecLen,
         step' = [step EXCEPT ![t] = s], held' = [held EXCEPT ![t] = g],
         UNCHANGED <<phase, word, at, did, dcap, saving, copying, streamVars>>
  PROVE  /\ Holders' /\ Turns' /\ Written' /\ Fresh' /\ Writing' /\ Link' /\ CopyInv'
         /\ step'[t] = s /\ held'[t] = g /\ \A u \in Users : u # t => ~Busy(u)'
<1>1. /\ data' = data /\ dlen' = dlen /\ accepted' = accepted /\ phase' = phase /\ at' = at
      /\ size' = size /\ carried' = carried /\ dcap' = dcap /\ did' = did /\ word' = word
  BY DEF saving, copying
<1>2. /\ step \in [Users -> {"check", "bytes", "length", "leave"}]
      /\ held \in [Users -> Seq(Byte)]
  BY DEF RecordsKept, Turns
<1>3. /\ step' \in [Users -> {"check", "bytes", "length", "leave"}]
      /\ held' \in [Users -> Seq(Byte)]
  BY <1>2
<1>4. \A u \in Users : /\ step'[u] = IF u = t THEN s ELSE step[u]
                       /\ held'[u] = IF u = t THEN g ELSE held[u]
  BY <1>2
<1>5. Holders'
  BY <1>1 DEF RecordsKept, Holders, L!LatchTypeOK, L!MutualExclusion
<1>6. Turns'
  <2>1. \A u \in Users : at'[u] # "in" => step'[u] = "check"
    BY <1>1, <1>4 DEF RecordsKept, Turns
  <2>2. \A u \in Users : Len(held'[u]) <= RecLen
    BY <1>4 DEF RecordsKept, Turns
  <2>3. QED
    BY <1>1, <1>3, <2>1, <2>2 DEF RecordsKept, Turns
<1>7. Written' /\ CopyInv' /\ Link'
  BY <1>1, WrittenFrame, CopyFrame, LinkFrame DEF RecordsKept
<1>8. Fresh' /\ Writing'
  BY <1>1 DEF Fresh, Writing
<1>9. \A u \in Users : u # t => ~Busy(u)'
  BY <1>1, OthersAreOut DEF RecordsKept, Busy
<1>10. QED
  BY <1>4, <1>5, <1>6, <1>7, <1>8, <1>9

\* The check of dsrlizr_read: a whole record is left, or the call fails.
LEMMA CheckReadKeeps ==
  ASSUME RecordsKept, NEW t \in Users, CheckRead(t)
  PROVE  RecordsKept'
<1>1. PICK s \in {"bytes", "leave"} :
        /\ s = (IF Holds THEN "bytes" ELSE "leave")
        /\ phase = "load" /\ at[t] = "in" /\ step[t] = "check"
        /\ step' = [step EXCEPT ![t] = s] /\ held' = [held EXCEPT ![t] = <<>>]
        /\ UNCHANGED <<phase, word, at, did, dcap, saving, copying, head, loaded, streamVars>>
  BY DEF CheckRead, Inside, Then
<1>2. <<>> \in Seq(Byte) /\ Len(<<>>) = 0 /\ RecLen \in Nat \ {0}
  BY EmptySeq, ConstantsAre
<1>3. /\ Holders' /\ Turns' /\ Written' /\ Fresh' /\ Writing' /\ Link' /\ CopyInv'
      /\ step'[t] = s /\ held'[t] = <<>> /\ \A u \in Users : u # t => ~Busy(u)'
  <2>1. PICK g : g \in Seq(Byte) /\ g = <<>> /\ Len(g) <= RecLen
    <3>1. Len(<<>>) <= RecLen
      BY <1>2
    <3>2. QED
      BY <1>2, <3>1, Zenon
  <2>2. /\ phase = "load" /\ at[t] = "in" /\ s \in {"bytes", "length", "leave"}
        /\ step' = [step EXCEPT ![t] = s] /\ held' = [held EXCEPT ![t] = g]
        /\ UNCHANGED <<phase, word, at, did, dcap, saving, copying, streamVars>>
    BY <1>1, <2>1
  <2>3. QED
    BY <2>1, <2>2, ReaderKeeps
<1>4. size' = size /\ carried' = carried /\ data' = data /\ phase' = phase
  BY <1>1 DEF saving, copying
<1>5. Loaded'
  BY <1>1, <1>4 DEF RecordsKept, Loaded
<1>6. Received' = Received /\ head' = head
  BY <1>1, <1>4 DEF Received
<1>7. Reading'
  <2>1. head' <= Received'
    BY <1>1, <1>6 DEF RecordsKept, Reading
  <2>2. ASSUME NEW u \in Users, Busy(u)'
        PROVE  /\ MidRecord(u)' /\ head + RecLen <= Received
               /\ \A j \in 1 .. Len(held'[u]) : held'[u][j] = data'[head' + j]
    <3>1. u = t /\ s = "bytes"
      BY <1>1, <1>3, <2>2 DEF Busy
    <3>2. head + RecLen <= Received
      <4>1. PICK h \in Nat, c \in Capacities : h = head /\ c = dcap /\ h <= c
        BY <1>1, ReceivedFits, ConstantsAre
      <4>2. (h + RecLen) % Word = h + RecLen
        BY <4>1, WordIs
      <4>3. QED
        BY <1>1, <3>1, <4>1, <4>2 DEF Holds
    <3>3. MidRecord(u)'
      BY <1>2, <1>3, <3>1 DEF MidRecord
    <3>4. QED
      BY <1>2, <1>3, <3>1, <3>2, <3>3
  <2>3. QED
    BY <1>6, <2>1, <2>2 DEF Reading
<1>8. QED
  BY <1>3, <1>5, <1>7 DEF RecordsKept

\* memcpy's next byte comes from the record at the head.
LEMMA ReadByteKeeps ==
  ASSUME RecordsKept, NEW t \in Users, ReadByte(t)
  PROVE  RecordsKept'
<1>1. PICK k \in Nat : k = Len(held[t])
  <2>1. held[t] \in Seq(Byte)
    BY DEF RecordsKept, Turns
  <2>2. QED
    BY <2>1, LenProperties
<1>2. PICK b : b = dst.out[head + k + 1]
  OBVIOUS
<1>3. PICK g : g = Append(held[t], b)
  OBVIOUS
<1>4. PICK s \in {"bytes", "length"} :
        /\ s = (IF k + 1 = RecLen THEN "length" ELSE "bytes")
        /\ phase = "load" /\ at[t] = "in" /\ step[t] = "bytes"
        /\ step' = [step EXCEPT ![t] = s]
        /\ held' = [held EXCEPT ![t] = Append(@, dst.out[head + Len(@) + 1])]
        /\ UNCHANGED <<phase, word, at, did, dcap, saving, copying, head, loaded, streamVars>>
  BY <1>1 DEF ReadByte, Inside, Then
<1>5. held \in [Users -> Seq(Byte)] /\ held[t] \in Seq(Byte) /\ RecLen \in Nat
  BY ConstantsAre DEF RecordsKept, Turns
<1>6. held' = [held EXCEPT ![t] = g]
  BY <1>1, <1>2, <1>3, <1>4, <1>5
<1>7. /\ k < RecLen /\ head + RecLen <= Received
      /\ \A j \in 1 .. k : held[t][j] = data[head + j]
  BY <1>1, <1>4 DEF RecordsKept, Reading, Busy, MidRecord
<1>8. PICK h \in Nat, o \in Nat : h = head /\ o = Len(dst.out) /\ h + k + 1 <= o
  <2>1. head \in Nat /\ Received \in Nat /\ Received <= Len(dst.out)
    BY <1>4, ReceivedFits
  <2>2. Len(dst.out) \in Nat
    BY EndsAre DEF RecordsKept
  <2>3. PICK h \in Nat, o \in Nat, n \in Nat, l \in Nat :
          h = head /\ o = Len(dst.out) /\ n = Received /\ l = RecLen
    BY <1>5, <2>1, <2>2
  <2>4. k < l /\ h + l <= n /\ n <= o
    BY <1>7, <2>1, <2>3
  <2>5. h + k + 1 <= o
    BY ONLY <2>4, h \in Nat, o \in Nat, n \in Nat, l \in Nat, k \in Nat
  <2>6. QED
    BY <2>3, <2>5
<1>9. b \in Byte /\ b = data[h + k + 1]
  <2>1. h + k + 1 \in 1 .. o
    BY <1>8
  <2>2. /\ dst.out \in Seq(Byte)
        /\ \A i \in 1 .. Len(dst.out) : dst.out[i] = data[i]
    BY <1>4, ArrivedIs DEF RecordsKept
  <2>3. dst.out[h + k + 1] \in Byte
    BY <1>8, <2>1, <2>2, ElementOfSeq
  <2>4. QED
    BY <1>2, <1>8, <2>1, <2>2, <2>3
<1>10. /\ g \in Seq(Byte) /\ Len(g) = k + 1 /\ g[k + 1] = b
       /\ \A i \in 1 .. k : g[i] = held[t][i]
  BY <1>1, <1>3, <1>5, <1>9, AppendIs
<1>11. k + 1 <= RecLen
  BY <1>5, <1>7
<1>12. /\ Holders' /\ Turns' /\ Written' /\ Fresh' /\ Writing' /\ Link' /\ CopyInv'
       /\ step'[t] = s /\ held'[t] = g /\ \A u \in Users : u # t => ~Busy(u)'
  <2>1. Len(g) <= RecLen /\ s \in {"bytes", "length", "leave"}
    BY <1>10, <1>11
  <2>2. /\ phase = "load" /\ at[t] = "in" /\ step' = [step EXCEPT ![t] = s]
        /\ UNCHANGED <<phase, word, at, did, dcap, saving, copying, streamVars>>
    BY <1>4
  <2>3. QED
    BY <1>6, <1>10, <2>1, <2>2, ReaderKeeps
<1>13. size' = size /\ carried' = carried /\ data' = data /\ phase' = phase
  BY <1>4 DEF saving, copying
<1>14. Loaded'
  BY <1>4, <1>13 DEF RecordsKept, Loaded
<1>15. Received' = Received /\ head' = head
  BY <1>4, <1>13 DEF Received
<1>16. Reading'
  <2>1. head' <= Received'
    BY <1>4, <1>15 DEF RecordsKept, Reading
  <2>2. ASSUME NEW u \in Users, Busy(u)'
        PROVE  /\ MidRecord(u)' /\ head + RecLen <= Received
               /\ \A j \in 1 .. Len(held'[u]) : held'[u][j] = data'[head' + j]
    <3>1. u = t
      BY <1>12, <2>2
    <3>2. MidRecord(u)'
      BY <1>4, <1>5, <1>10, <1>11, <1>12, <3>1 DEF MidRecord
    <3>3. ASSUME NEW j \in 1 .. (k + 1) PROVE g[j] = data[head + j]
      <4>1. CASE j = k + 1
        BY <1>8, <1>9, <1>10, <4>1
      <4>2. CASE j # k + 1
        <5>1. j \in 1 .. k
          BY <4>2
        <5>2. QED
          BY <1>7, <1>10, <5>1
      <4>3. QED
        BY <4>1, <4>2
    <3>4. QED
      BY <1>7, <1>10, <1>12, <1>13, <1>15, <3>1, <3>2, <3>3
  <2>3. QED
    BY <1>15, <2>1, <2>2 DEF Reading
<1>17. QED
  BY <1>12, <1>14, <1>16 DEF RecordsKept

\* head moves: what was read is the next record.
LEMMA MoveHeadKeeps ==
  ASSUME RecordsKept, NEW t \in Users, MoveHead(t)
  PROVE  RecordsKept'
<1>1. /\ phase = "load" /\ at[t] = "in" /\ step[t] = "length"
      /\ step' = [step EXCEPT ![t] = "leave"] /\ held' = held
      /\ head' = head + RecLen /\ loaded' = Append(loaded, held[t])
      /\ UNCHANGED <<phase, word, at, did, dcap, saving, copying, streamVars>>
  BY DEF MoveHead, Inside, Then
<1>2. held \in [Users -> Seq(Byte)] /\ held[t] \in Seq(Byte) /\ RecLen \in Nat
      /\ Len(held[t]) <= RecLen
  BY ConstantsAre DEF RecordsKept, Turns
<1>3. held' = [held EXCEPT ![t] = held[t]]
  BY <1>1, <1>2
<1>4. /\ Len(held[t]) = RecLen /\ head + RecLen <= Received
      /\ \A j \in 1 .. RecLen : held[t][j] = data[head + j]
  BY <1>1 DEF RecordsKept, Reading, Busy, MidRecord
<1>5. /\ Holders' /\ Turns' /\ Written' /\ Fresh' /\ Writing' /\ Link' /\ CopyInv'
      /\ step'[t] = "leave" /\ \A u \in Users : u # t => ~Busy(u)'
  BY <1>1, <1>2, <1>3, ReaderKeeps
<1>6. size' = size /\ carried' = carried /\ data' = data /\ phase' = phase
  BY <1>1 DEF saving, copying
<1>7. PICK n \in Nat : n = Len(loaded) /\ head = n * RecLen /\ loaded \in Seq(Seq(Byte))
  BY LenProperties DEF RecordsKept, Loaded
<1>8. /\ loaded' \in Seq(Seq(Byte)) /\ Len(loaded') = n + 1 /\ loaded'[n + 1] = held[t]
      /\ \A i \in 1 .. n : loaded'[i] = loaded[i]
  BY <1>1, <1>2, <1>7, AppendIs
<1>9. head' = (n + 1) * RecLen
  <2>1. (n + 1) * RecLen = n * RecLen + RecLen
    BY <1>2, Times1
  <2>2. QED
    BY <1>1, <1>7, <2>1
<1>10. ASSUME NEW i \in 1 .. (n + 1)
       PROVE  /\ Len(loaded'[i]) = RecLen
              /\ \A j \in 1 .. RecLen : loaded'[i][j] = data'[(i - 1) * RecLen + j]
  <2>1. CASE i = n + 1
    <3>1. i - 1 = n
      BY <2>1
    <3>2. loaded'[i] = held[t] /\ (i - 1) * RecLen = head
      BY <1>7, <1>8, <2>1, <3>1
    <3>3. QED
      BY <1>4, <1>6, <3>2
  <2>2. CASE i # n + 1
    <3>1. i \in 1 .. n
      BY <2>2
    <3>2. QED
      BY <1>6, <1>7, <1>8, <3>1 DEF RecordsKept, Loaded
  <2>3. QED
    BY <2>1, <2>2
<1>11. Loaded'
  BY <1>1, <1>6, <1>8, <1>9, <1>10 DEF Loaded
<1>12. Reading'
  <2>1. Received' = Received
    BY <1>6 DEF Received
  <2>2. \A u \in Users : ~Busy(u)'
    BY <1>5 DEF Busy
  <2>3. QED
    BY <1>1, <1>4, <2>1, <2>2 DEF Reading
<1>13. QED
  BY <1>5, <1>11, <1>12 DEF RecordsKept

-----------------------------------------------------------------------------
(* Copying.                                                                  *)

\* A source and a destination that were just set up.
LEMMA SetUpIs ==
  ASSUME NEW z \in Nat \ {0}, NEW bytes \in Seq(Byte), NEW from \in Nat \cup {Unlimited},
         NEW to \in Nat \cup {Unlimited}, NEW cap \in Nat,
         NEW kind \in {"obuf", "opsink", "sink", "other"},
         kind = "opsink" => cap % z = 0 /\ cap > 0,
         src' = Source(bytes, from), dst' = Dest(kind, cap, to),
         size' = z, copy' = NoCopy, carried' = 0
  PROVE  CopyInv' /\ src'.buf = bytes
<1>1. 0 % z = 0 /\ 0 * z = 0
  <2>1. (0 * z) % z = 0 /\ 0 * z = 0
    BY DivOfTimes
  <2>2. QED
    BY <2>1
<1>2. PICK l \in Nat : l = Len(bytes)
  BY LenProperties
<1>3. <<>> \in Seq(Byte) /\ Len(<<>>) = 0
  BY EmptySeq
<1>4. src' \in SourceType /\ src'.buf = bytes /\ src'.pos = 0 /\ src'.consumed = 0
  BY DEF Source, SourceType
<1>5. /\ dst' \in DestType /\ dst'.out = <<>> /\ dst'.pos = 0 /\ dst'.consumed = 0
      /\ dst'.kind = kind /\ dst'.cap = cap
  BY <1>3 DEF Dest, DestType
<1>6. SourceOK(src', size')
  <2>1. Within(src')
    BY <1>4 DEF SourceType, Within
  <2>2. QED
    BY <1>1, <1>2, <1>4, <2>1 DEF SourceOK
<1>7. DestOK(dst', size')
  <2>1. Within(dst')
    BY <1>5 DEF DestType, Within
  <2>2. Placed(dst', z)
    BY <1>1, <1>5 DEF Placed
  <2>3. QED
    BY <1>5, <2>1, <2>2 DEF DestOK
<1>8. Prefix'
  <2>1. Len(dst'.out) = 0 /\ Len(dst'.out) <= src'.pos
    BY <1>3, <1>4, <1>5
  <2>2. QED
    BY <2>1 DEF Prefix
<1>9. Progress' /\ Batch'
  <2>1. copy'.at = "idle"
    BY DEF NoCopy
  <2>2. Reported'
    BY <1>1, <1>3, <1>5 DEF Reported
  <2>3. Settled'
    BY <1>3, <1>4, <1>5 DEF Settled
  <2>4. QED
    BY <2>1, <2>2, <2>3 DEF Progress, Batch
<1>10. QED
  BY <1>4, <1>6, <1>7, <1>8, <1>9 DEF CopyInv

\* The buffer is given to a stream_ibuf; the sink is empty.
LEMMA BeginCopyKeeps ==
  ASSUME RecordsKept, BeginCopy
  PROVE  RecordsKept'
<1>1. /\ phase = "save" /\ AllOut /\ phase' = "copy"
      /\ UNCHANGED <<word, at, step, did, dcap, saving, copy, copies, carried, loading>>
  BY DEF BeginCopy
<1>2. PICK z \in Sizes, d \in Dests, from \in Limits, to \in Limits :
        /\ size' = z /\ src' = Source(SubSeq(data, 1, dlen), from)
        /\ dst' = Dest(d.kind, d.cap, to)
  BY DEF BeginCopy
<1>3. /\ data' = data /\ dlen' = dlen /\ accepted' = accepted /\ held' = held /\ head' = head
      /\ loaded' = loaded /\ at' = at /\ step' = step /\ did' = did /\ dcap' = dcap
  BY <1>1 DEF saving, loading
<1>4. copy' = NoCopy /\ carried' = 0
  BY <1>1 DEF RecordsKept, Link
<1>5. CopyInv' /\ src'.buf = SubSeq(data, 1, dlen)
  <2>1. z \in Nat \ {0} /\ from \in Nat \cup {Unlimited} /\ to \in Nat \cup {Unlimited}
    BY RecordsAssumption
  <2>2. d.kind \in {"obuf", "opsink", "sink", "other"} /\ d.cap \in Nat
    BY RecordsAssumption
  <2>3. d.kind = "opsink" => d.cap % z = 0 /\ d.cap > 0
    BY RecordsAssumption
  <2>4. SubSeq(data, 1, dlen) \in Seq(Byte)
    BY FrontOf DEF RecordsKept, Written
  <2>5. QED
    BY <1>2, <1>4, <2>1, <2>2, <2>3, <2>4, SetUpIs
<1>6. Holders'
  BY <1>1 DEF RecordsKept, Holders, L!LatchTypeOK, L!MutualExclusion
<1>7. Turns'
  BY <1>1, <1>3 DEF RecordsKept, Turns, AllOut
<1>8. Written'
  BY <1>1, WrittenFrame DEF RecordsKept
<1>9. Fresh' /\ Writing' /\ Reading'
  BY <1>1 DEF Fresh, Writing, Reading
<1>10. Link'
  BY <1>1, <1>3, <1>5 DEF Link
<1>11. Loaded'
  <2>1. phase # "load" /\ phase' # "load"
    BY <1>1
  <2>2. QED
    BY <1>3, <2>1 DEF RecordsKept, Loaded
<1>12. QED
  BY <1>5, <1>6, <1>7, <1>8, <1>9, <1>10, <1>11 DEF RecordsKept

\* A step of the copy leaves the buffer it copies from, and all threads, alone.
LEMMA CopierKeeps ==
  ASSUME RecordsKept, phase = "copy", CopyInv', src'.buf = src.buf,
         UNCHANGED <<phase, word, at, step, did, dcap, saving, loading>>
  PROVE  RecordsKept'
<1>1. /\ data' = data /\ dlen' = dlen /\ accepted' = accepted /\ held' = held /\ head' = head
      /\ loaded' = loaded /\ at' = at /\ step' = step /\ did' = did /\ dcap' = dcap /\ phase' = phase
  BY DEF saving, loading
<1>2. Holders'
  BY DEF RecordsKept, Holders, L!LatchTypeOK, L!MutualExclusion
<1>3. Turns'
  BY <1>1 DEF RecordsKept, Turns, AllOut
<1>4. Written'
  BY WrittenFrame DEF RecordsKept
<1>5. Fresh' /\ Writing' /\ Reading'
  BY <1>1 DEF Fresh, Writing, Reading
<1>6. Link'
  BY <1>1 DEF RecordsKept, Link
<1>7. Loaded'
  BY <1>1 DEF RecordsKept, Loaded
<1>8. QED
  BY <1>2, <1>3, <1>4, <1>5, <1>6, <1>7 DEF RecordsKept

\* stream_read is called.
LEMMA CarryKeeps ==
  ASSUME RecordsKept, Carry
  PROVE  RecordsKept'
<1>1. /\ phase = "copy" /\ (copy.at = "returned" => copy.ret >= 0)
      /\ UNCHANGED <<phase, word, at, step, did, dcap, saving, size, carried, loading>>
  BY DEF Carry
<1>2. PICK n \in Counts : StreamRead(size, n)
  BY DEF Carry
<1>3. n \in Nat
  BY RecordsAssumption
<1>4. CopyInv'
  BY <1>1, <1>2, <1>3, BeginKeeps DEF RecordsKept
<1>5. src' = src
  BY <1>2 DEF StreamRead
<1>6. QED
  BY <1>1, <1>4, <1>5, CopierKeeps

\* A step of stream_read, counted.
LEMMA StepCopyKeeps ==
  ASSUME RecordsKept, StepCopy
  PROVE  RecordsKept'
<1>1. /\ phase = "copy" /\ StreamStep
      /\ carried' = carried + IF copy'.at = "returned" /\ copy'.ret > 0 THEN copy'.ret ELSE 0
      /\ UNCHANGED <<phase, word, at, step, did, dcap, saving, size, copies, loading>>
  BY DEF StepCopy
<1>2. CopyInv'
  BY <1>1, CopyStepKeeps DEF RecordsKept
<1>3. src'.buf = src.buf
  <2>1. CASE PullBatch
    <3>1. PICK n \in Nat \ {0} : src' = Pull(src, size, n).to
      <4>1. copy \in CopyRecords /\ copy.size = size /\ copy.remaining > 0
        BY <2>1, BatchIs DEF RecordsKept, PullBatch, CopyRecords
      <4>2. Least(copy.remaining, BatchMax(size)) \in Nat \ {0}
        <5>1. copy.remaining \in Nat /\ BatchMax(size) \in Nat \ {0}
          BY <4>1, BatchMaxIs DEF CopyRecords, RecordsKept, CopyInv
        <5>2. QED
          BY <4>1, <5>1 DEF Least
      <4>3. QED
        BY <2>1, <4>1, <4>2 DEF PullBatch
    <3>2. PICK p : p = Pull(src, size, n)
      OBVIOUS
    <3>3. PICK next \in Nat : Pulled(src, p.to, p.moved, next, p.bytes, size, n)
      BY <3>2, PullIs DEF RecordsKept, CopyInv
    <3>4. QED
      BY <3>1, <3>2, <3>3 DEF Pulled
  <2>2. CASE PushPart \/ PullFails
    BY <2>2 DEF PushPart, PullFails
  <2>3. CASE Finished
    BY <2>3 DEF Finished
  <2>4. QED
    BY <1>1, <2>1, <2>2, <2>3 DEF StreamStep
<1>4. QED
  BY <1>1, <1>2, <1>3, CopierKeeps

\* The deserializer is given what was carried over.
LEMMA BeginLoadKeeps ==
  ASSUME RecordsKept, BeginLoad
  PROVE  RecordsKept'
<1>1. /\ phase = "copy" /\ copy.at = "returned" /\ phase' = "load"
      /\ did' = [t \in Users |-> 0] /\ held' = [t \in Users |-> <<>>]
      /\ UNCHANGED <<word, at, step, dcap, saving, copying, head, loaded, streamVars>>
  BY DEF BeginLoad
<1>2. /\ data' = data /\ dlen' = dlen /\ size' = size /\ carried' = carried
      /\ copy' = copy /\ src' = src
  BY <1>1 DEF saving, copying, streamVars
<1>3. <<>> \in Seq(Byte) /\ Len(<<>>) = 0 /\ RecLen \in Nat
  BY EmptySeq, ConstantsAre
<1>4. Holders'
  BY <1>1 DEF RecordsKept, Holders, L!LatchTypeOK, L!MutualExclusion
<1>5. Turns'
  <2>1. did' \in [Users -> Nat] /\ held' \in [Users -> Seq(Byte)]
    BY <1>1, <1>3
  <2>2. \A t \in Users : Len(held'[t]) <= RecLen
    BY <1>1, <1>3
  <2>3. QED
    BY <1>1, <2>1, <2>2 DEF RecordsKept, Turns
<1>6. Written' /\ CopyInv'
  BY <1>1, WrittenFrame, CopyFrame DEF RecordsKept
<1>7. Fresh' /\ Writing'
  BY <1>1 DEF Fresh, Writing
<1>8. Link'
  BY <1>1, <1>2 DEF RecordsKept, Link
<1>9. Loaded'
  BY <1>1, <1>2 DEF RecordsKept, Loaded
<1>10. Reading'
  <2>1. head = 0 /\ Received \in Nat
    BY <1>1, ReceivedIs, NothingLoaded DEF RecordsKept
  <2>2. head' <= Received'
    BY <1>1, <1>2, <2>1 DEF Received
  <2>3. \A t \in Users : ~Busy(t)'
    BY <1>1 DEF RecordsKept, Turns, AllOut, Busy
  <2>4. QED
    BY <2>2, <2>3 DEF Reading
<1>11. QED
  BY <1>4, <1>5, <1>6, <1>7, <1>8, <1>9, <1>10 DEF RecordsKept

-----------------------------------------------------------------------------
\* The invariant holds at the start ...
LEMMA RecordsStart ==
  ASSUME RecordsInit
  PROVE  RecordsKept
<1>1. /\ phase = "save" /\ word = 0 /\ at = [t \in Users |-> "out"]
      /\ step = [t \in Users |-> "check"] /\ did = [t \in Users |-> 0]
      /\ dcap \in Capacities /\ data = [i \in 1 .. dcap |-> <<>>] /\ dlen = 0 /\ accepted = {}
      /\ src = Source(<<>>, Unlimited) /\ dst = Dest("sink", 0, Unlimited)
      /\ copy = NoCopy /\ size = 1 /\ carried = 0
      /\ head = 0 /\ held = [t \in Users |-> <<>>] /\ loaded = <<>>
  BY DEF RecordsInit, L!Init
<1>2. <<>> \in Seq(Byte) /\ Len(<<>>) = 0 /\ RecLen \in Nat /\ <<>> \in Seq(Seq(Byte))
  BY EmptySeq, ConstantsAre
<1>3. Holders
  BY <1>1 DEF Holders, L!LatchTypeOK, L!MutualExclusion
<1>4. Turns
  <2>1. \A t \in Users : Len(held[t]) <= RecLen
    BY <1>1, <1>2
  <2>2. QED
    BY <1>1, <1>2, <2>1 DEF Turns
<1>5. Written
  <2>1. dcap \in Nat
    BY <1>1, ConstantsAre
  <2>2. data \in Seq(Byte) /\ Len(data) = dcap
    <3>1. <<>> \in Byte
      BY DEF Byte
    <3>2. data \in [1 .. dcap -> Byte]
      BY <1>1, <3>1
    <3>3. QED
      BY <2>1, <3>2
  <2>3. IsFiniteSet(accepted) /\ Cardinality(accepted) = 0
    BY <1>1, FS_EmptySet
  <2>4. 0 * RecLen = 0
    BY <1>2
  <2>5. QED
    BY <1>1, <2>1, <2>2, <2>3, <2>4 DEF Written
<1>6. Fresh /\ Writing /\ Reading
  BY <1>1 DEF Fresh, Writing, Reading, Busy
<1>7. Link
  BY <1>1 DEF Link, Source
<1>8. Loaded
  <2>1. 0 * RecLen = 0
    BY <1>2
  <2>2. QED
    BY <1>1, <1>2, <2>1 DEF Loaded
<1>9. CopyInv
  <2>1. src.buf = <<>> /\ src.pos = 0 /\ src \in SourceType /\ src.limit = Unlimited
    BY <1>1, <1>2 DEF Source, SourceType
  <2>2. dst.out = <<>> /\ dst.kind = "sink" /\ dst \in DestType /\ dst.limit = Unlimited
    BY <1>1, <1>2 DEF Dest, DestType
  <2>3. SourceOK(src, size)
    BY <1>1, <1>2, <2>1 DEF SourceOK, Within
  <2>4. DestOK(dst, size)
    BY <2>2 DEF DestOK, Within, Placed
  <2>5. Prefix
    <3>1. Len(dst.out) = 0 /\ Len(dst.out) <= src.pos
      BY <1>2, <2>1, <2>2
    <3>2. QED
      BY <3>1 DEF Prefix
  <2>6. Progress
    <3>1. copy.at = "idle"
      BY <1>1 DEF NoCopy
    <3>2. Reported /\ Settled
      BY <1>1, <1>2, <2>1, <2>2 DEF Reported, Settled
    <3>3. QED
      BY <3>1, <3>2 DEF Progress
  <2>7. QED
    BY <1>1, <2>3, <2>4, <2>5, <2>6 DEF CopyInv, Batch
<1>10. QED
  BY <1>3, <1>4, <1>5, <1>6, <1>7, <1>8, <1>9 DEF RecordsKept

\* ... of a step that changes nothing ...
LEMMA RecordsStutter ==
  ASSUME RecordsKept, UNCHANGED recordsVars
  PROVE  RecordsKept'
<1>1. UNCHANGED <<phase, word, at, step, did, dcap, saving, copying, loading, streamVars>>
  BY DEF recordsVars
<1>2. /\ phase' = phase /\ data' = data /\ dlen' = dlen /\ accepted' = accepted /\ held' = held
      /\ head' = head /\ loaded' = loaded /\ size' = size /\ carried' = carried /\ at' = at
      /\ step' = step /\ did' = did /\ word' = word /\ dcap' = dcap
  BY <1>1 DEF saving, copying, loading
<1>3. Written' /\ CopyInv' /\ Link'
  BY <1>1, WrittenFrame, CopyFrame, LinkFrame DEF RecordsKept
<1>4. Holders' /\ Turns'
  BY <1>2 DEF RecordsKept, Holders, L!LatchTypeOK, L!MutualExclusion, Turns, AllOut
<1>5. Fresh'
  BY <1>2 DEF RecordsKept, Fresh, Pending
<1>6. Writing'
  BY <1>2 DEF RecordsKept, Writing, Busy, MidRecord
<1>7. Reading'
  BY <1>2 DEF RecordsKept, Reading, Busy, MidRecord, Received
<1>8. Loaded'
  BY <1>2 DEF RecordsKept, Loaded
<1>9. QED
  BY <1>3, <1>4, <1>5, <1>6, <1>7, <1>8 DEF RecordsKept

\* ... and of every step.
LEMMA RecordsStep ==
  ASSUME RecordsKept, [RecordsNext]_recordsVars
  PROVE  RecordsKept'
<1>1. CASE UNCHANGED recordsVars
  BY <1>1, RecordsStutter
<1>2. CASE RecordsNext
  <2>1. ASSUME NEW t \in Users, Enter(t) \/ Acquire(t) \/ WaitLatch(t) \/ Work(t)
        PROVE  RecordsKept'
    <3>1. CASE Enter(t) \/ Acquire(t) \/ WaitLatch(t)
      BY <3>1, EnterKeeps, AcquireKeeps, WaitKeeps
    <3>2. CASE Leave(t) \/ CheckWrite(t) \/ WriteByte(t) \/ WriteLength(t)
      BY <3>2, LeaveKeeps, CheckWriteKeeps, WriteByteKeeps, WriteLengthKeeps
    <3>3. CASE CheckRead(t) \/ ReadByte(t) \/ MoveHead(t)
      BY <3>3, CheckReadKeeps, ReadByteKeeps, MoveHeadKeeps
    <3>4. QED
      BY <2>1, <3>1, <3>2, <3>3 DEF Work
  <2>2. CASE BeginCopy \/ Carry \/ StepCopy \/ BeginLoad
    BY <2>2, BeginCopyKeeps, CarryKeeps, StepCopyKeeps, BeginLoadKeeps
  <2>3. QED
    BY <1>2, <2>1, <2>2 DEF RecordsNext
<1>3. QED
  BY <1>1, <1>2

-----------------------------------------------------------------------------
(* What the invariant says.                                                  *)

\* The i-th block of the buffer, byte by byte.
LEMMA BlockIs ==
  ASSUME Written, NEW n \in Nat, NEW i \in 1 .. n, n * RecLen <= dlen
  PROVE  /\ Block(data, i) \in Seq(Byte) /\ Len(Block(data, i)) = RecLen
         /\ \A j \in 1 .. RecLen : Block(data, i)[j] = data[(i - 1) * RecLen + j]
<1>1. PICK l \in Nat, a \in Nat, b \in Nat, nl \in Nat :
        l = RecLen /\ a = (i - 1) * RecLen /\ b = i * RecLen /\ nl = n * RecLen
  BY ConstantsAre, TimesType
<1>2. b = a + l
  <2>1. PICK k \in Nat : k = i - 1 /\ i = k + 1
    OBVIOUS
  <2>2. (k + 1) * l = k * l + l
    BY Times1
  <2>3. QED
    BY <1>1, <2>1, <2>2
<1>3. b <= nl
  BY <1>1, TimesMono
<1>4. PICK c \in Nat, d \in Nat : c = dcap /\ d = dlen /\ d <= c /\ nl <= d
  BY <1>1, ConstantsAre DEF Written
<1>5. data \in Seq(Byte) /\ a <= b /\ b <= Len(data)
  BY <1>2, <1>3, <1>4 DEF Written
<1>6. /\ SubSeq(data, a + 1, b) \in Seq(Byte)
      /\ Len(SubSeq(data, a + 1, b)) = b - a
      /\ \A j \in 1 .. (b - a) : SubSeq(data, a + 1, b)[j] = data[a + j]
  BY <1>5, PartIs
<1>7. Block(data, i) = SubSeq(data, a + 1, b)
  BY <1>1 DEF Block
<1>8. b - a = l
  BY <1>2
<1>9. QED
  BY <1>1, <1>6, <1>7, <1>8

\* A record, byte by byte.
LEMMA RecordIs ==
  ASSUME NEW t \in Users, NEW k \in Nat
  PROVE  /\ Record(t, k) \in Seq(Byte) /\ Len(Record(t, k)) = RecLen
         /\ \A j \in 1 .. RecLen : Record(t, k)[j] = <<t, k, j>>
<1>1. RecLen \in Nat
  BY ConstantsAre
<1>2. \A j \in 1 .. RecLen : <<t, k, j>> \in Byte
  BY DEF Byte
<1>3. Record(t, k) \in [1 .. RecLen -> Byte]
  BY <1>2 DEF Record
<1>4. Record(t, k) \in Seq(Byte) /\ Len(Record(t, k)) = RecLen
  BY <1>1, <1>3
<1>5. QED
  BY <1>4 DEF Record

\* A record with a place is the block there.
LEMMA PlacedRecordIs ==
  ASSUME Written, NEW i \in 1 .. Cardinality(accepted), NEW r \in accepted, IsRecord(r, i)
  PROVE  Block(data, i) = Record(r[1], r[2])
<1>1. PICK n \in Nat : n = Cardinality(accepted) /\ n * RecLen <= dlen
  BY FS_CardinalityType DEF Written
<1>2. PICK b : b = Block(data, i)
  OBVIOUS
<1>3. /\ b \in Seq(Byte) /\ Len(b) = RecLen
      /\ \A j \in 1 .. RecLen : b[j] = data[(i - 1) * RecLen + j]
  BY <1>1, <1>2, BlockIs
<1>4. r[1] \in Users /\ r[2] \in Nat
  BY DEF Written
<1>5. PICK e : e = Record(r[1], r[2])
  OBVIOUS
<1>6. /\ e \in Seq(Byte) /\ Len(e) = RecLen
      /\ \A j \in 1 .. RecLen : e[j] = <<r[1], r[2], j>>
  BY <1>4, <1>5, RecordIs
<1>7. Len(b) = Len(e) /\ \A j \in 1 .. Len(b) : b[j] = e[j]
  BY <1>3, <1>6 DEF IsRecord
<1>8. b = e
  BY <1>3, <1>6, <1>7, SeqEqual
<1>9. QED
  BY <1>2, <1>5, <1>8

\* What was accepted is in the buffer, whole, once each.
LEMMA SavedFollows ==
  ASSUME RecordsKept
  PROVE  SavedRecordsAreWhole
<1>1. PICK n \in Nat : n = Cardinality(accepted) /\ dlen = n * RecLen
  BY FS_CardinalityType DEF RecordsKept, Written
<1>2. dlen \div RecLen = n
  BY <1>1, ConstantsAre, DivOfTimes
<1>3. \A i \in 1 .. n : \E r \in accepted : Block(data, i) = Record(r[1], r[2])
  <2>1. SUFFICES ASSUME NEW i \in 1 .. n
                 PROVE  \E r \in accepted : Block(data, i) = Record(r[1], r[2])
    OBVIOUS
  <2>2. PICK r \in accepted : IsRecord(r, i)
    BY <1>1 DEF RecordsKept, Written
  <2>3. Block(data, i) = Record(r[1], r[2])
    BY <1>1, <2>2, PlacedRecordIs DEF RecordsKept
  <2>4. QED
    BY <2>3
<1>4. \A r \in accepted : \E i \in 1 .. n : Block(data, i) = Record(r[1], r[2])
  <2>1. SUFFICES ASSUME NEW r \in accepted
                 PROVE  \E i \in 1 .. n : Block(data, i) = Record(r[1], r[2])
    OBVIOUS
  <2>2. PICK i \in 1 .. n : IsRecord(r, i)
    BY <1>1 DEF RecordsKept, Written
  <2>3. Block(data, i) = Record(r[1], r[2])
    BY <1>1, <2>2, PlacedRecordIs DEF RecordsKept
  <2>4. QED
    BY <2>3
<1>5. {Block(data, i) : i \in 1 .. n} = {Record(r[1], r[2]) : r \in accepted}
  BY <1>3, <1>4
<1>6. QED
  BY <1>1, <1>2, <1>5 DEF SavedRecordsAreWhole

\* What a user read is a record that was saved.
LEMMA LoadedFollows ==
  ASSUME RecordsKept
  PROVE  LoadedIsSaved
<1>1. PICK n \in Nat : n = Len(loaded) /\ head = n * RecLen /\ loaded \in Seq(Seq(Byte))
  BY LenProperties DEF RecordsKept, Loaded
<1>2. n * RecLen <= dlen
  <2>1. CASE phase = "load"
    <3>1. PICK h \in Nat, v \in Nat, d \in Nat :
            h = head /\ v = Received /\ d = dlen /\ h <= v /\ v <= d
      BY <2>1, ReceivedFits
    <3>2. h <= d
      BY ONLY h \in Nat, v \in Nat, d \in Nat, <3>1
    <3>3. QED
      BY <1>1, <3>1, <3>2
  <2>2. CASE phase # "load"
    <3>1. head = 0 /\ dlen \in Nat
      BY <2>2, NothingLoaded DEF RecordsKept, Written
    <3>2. QED
      BY <1>1, <3>1
  <2>3. QED
    BY <2>1, <2>2
<1>3. ASSUME NEW i \in 1 .. n
      PROVE  loaded[i] = Block(data, i)
  <2>1. PICK b : b = Block(data, i)
    OBVIOUS
  <2>2. /\ b \in Seq(Byte) /\ Len(b) = RecLen
        /\ \A j \in 1 .. RecLen : b[j] = data[(i - 1) * RecLen + j]
    BY <1>2, <2>1, BlockIs DEF RecordsKept
  <2>3. PICK e : e = loaded[i]
    OBVIOUS
  <2>4. e \in Seq(Byte)
    BY <1>1, <2>3, ElementOfSeq
  <2>5. Len(e) = RecLen /\ \A j \in 1 .. RecLen : e[j] = data[(i - 1) * RecLen + j]
    BY <1>1, <2>3 DEF RecordsKept, Loaded
  <2>6. Len(b) = Len(e) /\ \A j \in 1 .. Len(b) : b[j] = e[j]
    BY <2>2, <2>5
  <2>7. b = e
    BY <2>2, <2>4, <2>6, SeqEqual
  <2>8. QED
    BY <2>1, <2>3, <2>7
<1>4. DOMAIN loaded = 1 .. n
  BY <1>1, LenProperties
<1>5. QED
  BY <1>1, <1>2, <1>3, <1>4 DEF LoadedIsSaved

\* What arrived is the front of what was saved.
LEMMA PrefixFollows ==
  ASSUME RecordsKept
  PROVE  CopyIsPrefix
<1>1. PICK o \in Nat, a \in Nat, l \in Nat :
        o = Len(dst.out) /\ a = src.pos /\ l = Len(src.buf) /\ o <= a /\ a <= l
  BY EndsAre DEF RecordsKept, CopyInv, Prefix
<1>2. src.buf \in Seq(Byte) /\ dst.out \in Seq(Byte)
  BY EndsAre DEF RecordsKept
<1>3. PICK f : f = SubSeq(src.buf, 1, o)
  OBVIOUS
<1>4. f \in Seq(Byte) /\ Len(f) = o /\ \A i \in 1 .. o : f[i] = src.buf[i]
  BY <1>1, <1>2, <1>3, FrontOf
<1>5. \A i \in 1 .. o : dst.out[i] = f[i]
  BY <1>1, <1>4 DEF RecordsKept, CopyInv, Prefix
<1>6. dst.out = f
  BY <1>1, <1>2, <1>4, <1>5, SeqEqual
<1>7. carried * size <= o
  <2>1. PICK c \in Nat, z \in Nat : c = carried /\ z = size
    BY DEF RecordsKept, CopyInv
  <2>2. CASE copy.at \in {"idle", "returned"}
    BY <1>1, <2>2 DEF RecordsKept, CopyInv, Progress, Reported
  <2>3. ASSUME NEW n \in Nat, (carried + n) * size <= o
        PROVE  carried * size <= o
    <3>1. PICK x \in Nat, y \in Nat : x = c * z /\ y = (c + n) * z
      BY TimesType
    <3>2. x <= y
      BY <3>1, TimesMono
    <3>3. QED
      BY <2>1, <2>3, <3>1, <3>2
  <2>4. CASE copy.at = "pull"
    <3>1. copy.total \in Nat
      BY <2>4, BatchIs DEF RecordsKept, CopyRecords
    <3>2. (carried + copy.total) * size <= o
      BY <1>1, <2>4 DEF RecordsKept, CopyInv, Progress
    <3>3. QED
      BY <2>3, <3>1, <3>2
  <2>5. CASE copy.at = "push"
    <3>1. copy.total \in Nat /\ copy.pushed \in Nat
      BY <2>5, BatchIs DEF RecordsKept, CopyRecords
    <3>2. (carried + copy.total + copy.pushed) * size <= o
      BY <1>1, <2>5 DEF RecordsKept, CopyInv, Progress, Pushing
    <3>3. PICK n \in Nat : n = copy.total + copy.pushed
                           /\ carried + n = carried + copy.total + copy.pushed
      BY <2>1, <3>1
    <3>4. QED
      BY <2>3, <3>2, <3>3
  <2>6. copy.at \in {"idle", "pull", "push", "returned"}
    BY DEF RecordsKept, CopyInv, Batch, CopyRecords, NoCopy
  <2>7. QED
    BY <2>2, <2>4, <2>5, <2>6
<1>8. QED
  BY <1>1, <1>3, <1>6, <1>7 DEF CopyIsPrefix

\* A short return shows in the stream's flags, a loss too.
LEMMA ReturnFollows ==
  ASSUME RecordsKept
  PROVE  ShortMeansDone /\ LossIsReported
<1>1. ShortMeansDone
  BY DEF RecordsKept, CopyInv, Progress, ShortMeansDone, Returned
<1>2. LossIsReported
  <2>1. SUFFICES ASSUME copy.at = "returned", Len(dst.out) < src.pos, ~(copy.ret < 0)
                 PROVE  dst.done \/ Torn
    BY DEF LossIsReported, Returned
  <2>2. copy.ret >= 0
    BY <2>1, BatchIs DEF RecordsKept, CopyRecords
  <2>3. Settled
    BY <2>1, <2>2 DEF RecordsKept, CopyInv, Progress
  <2>4. Len(dst.out) # src.pos
    BY <2>1, EndsAre DEF RecordsKept
  <2>5. CASE AtEnd
    BY <2>5 DEF AtEnd, TornSource, Torn
  <2>6. CASE Shut
    BY <2>6 DEF Shut, TornDest, Torn
  <2>7. QED
    BY <2>3, <2>4, <2>5, <2>6 DEF Settled
<1>3. QED
  BY <1>1, <1>2

\* The types of the model.
LEMMA TypesFollow ==
  ASSUME RecordsKept
  PROVE  RecordsTypeOK
<1>1. phase \in {"save", "copy", "load"} /\ L!LatchTypeOK
  BY DEF RecordsKept, Turns, Holders
<1>2. /\ step \in [Users -> {"check", "bytes", "length", "leave"}]
      /\ \A t \in Users : Len(held[t]) <= RecLen
  BY DEF RecordsKept, Turns
<1>3. dlen \in 0 .. dcap /\ DOMAIN data = 1 .. dcap
  <2>1. PICK c \in Nat, d \in Nat : c = dcap /\ d = dlen /\ d <= c
    BY ConstantsAre DEF RecordsKept, Written
  <2>2. data \in Seq(Byte) /\ Len(data) = c
    BY <2>1 DEF RecordsKept, Written
  <2>3. DOMAIN data = 1 .. c
    BY <2>2, LenProperties
  <2>4. QED
    BY <2>1, <2>3
<1>4. src.pos \in 0 .. Len(src.buf) /\ src.consumed \in Nat
  BY EndsAre DEF RecordsKept, CopyInv, SourceOK, SourceType
<1>5. dst.consumed \in Nat /\ (dst.kind # "sink" => dst.pos \in Nat)
  BY DEF RecordsKept, CopyInv, DestOK, DestType
<1>6. copy.at \in {"idle", "pull", "push", "returned"}
  BY DEF RecordsKept, CopyInv, Batch, CopyRecords, NoCopy
<1>7. head \in 0 .. Received \/ phase # "load"
  BY ReceivedFits
<1>8. QED
  BY <1>1, <1>2, <1>3, <1>4, <1>5, <1>6, <1>7 DEF RecordsTypeOK

\* Everything RecordsInv says holds in every state: records stay whole however
\* the writers race (srlizr_write), what is loaded is what was saved
\* (dsrlizr_read), the copy is a prefix and a short one shows (stream_read).
THEOREM RecordsAreKept == RecordsSpec => []RecordsInv
<1>1. RecordsKept => RecordsInv
  BY TypesFollow, SavedFollows, LoadedFollows, PrefixFollows, ReturnFollows DEF RecordsInv
<1>2. RecordsInit => RecordsKept
  BY RecordsStart
<1>3. RecordsKept /\ [RecordsNext]_recordsVars => RecordsKept'
  BY RecordsStep
<1>4. QED
  BY <1>1, <1>2, <1>3, PTL DEF RecordsSpec

\* Bytes stream_read has pulled and not delivered are never lost in silence.
THEOREM LossesAreReported == RecordsSpec => []LossIsReported
<1>1. RecordsKept => LossIsReported
  BY ReturnFollows
<1>2. RecordsInit => RecordsKept
  BY RecordsStart
<1>3. RecordsKept /\ [RecordsNext]_recordsVars => RecordsKept'
  BY RecordsStep
<1>4. QED
  BY <1>1, <1>2, <1>3, PTL DEF RecordsSpec

=============================================================================
