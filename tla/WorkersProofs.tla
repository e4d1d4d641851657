--------------------------- MODULE WorkersProofs ---------------------------
(***************************************************************************)
(* Proofs about Workers and the locks beneath it, for any threads, nodes   *)
(* and jobs.                                                               *)
(*  - OsSync, for threads that keep to its contract (SyncSpec): types, the *)
(*    mutex of the POSIX semaphore, and the flag of the Windows lock,      *)
(*    which always says how the lock is held.                              *)
(*  - The threads of Workers keep to that contract.                        *)
(*  - The table: what a store does to the chains, how the places of all    *)
(*    threads add up to the count of the semaphore, and from both that     *)
(*    semaphore and table agree (TableAgrees).                             *)
(*  - Latch: the spin latch of the table excludes.                         *)
(***************************************************************************)
EXTENDS Workers, SequenceTheorems, FiniteSetTheorems, WellFoundedInduction, TLAPS

\* A thread is between the mutex's lock and unlock exactly while it owns it;
\* who sleeps on the condition variable, or is late, is inside a wait.
OwnerIsInside ==
  /\ \A t \in Threads : sync[t] \in Inside <=> sem.owner = t
  /\ \A t \in sem.asleep : sync[t] \in Waiting
  /\ os = "windows" => sem.owner = Nobody /\ sem.asleep = {}

\* The lock has one writer or some readers.
WriterIsAlone == rw.writer # Nobody => rw.readers = {}

\* Windows: the flag is set from the moment the writer set it to the moment the
\* writer cleared it, and at no other.
FlagIsWriter ==
  rw.flag <=> /\ os = "windows" /\ rw.writer # Nobody
              /\ sync[rw.writer] \notin {"set_flag", "release_exclusive"}

\* Where each thread is says what it has of the lock.
CallsFitLock ==
  \A t \in Threads :
    /\ sync[t] \in Locking => ~Has(t)
    /\ sync[t] = "unlock" => Has(t)
    /\ sync[t] \in {"set_flag", "release_exclusive"} => os = "windows" /\ rw.writer = t
    /\ sync[t] = "release_shared" => os = "windows" /\ t \in rw.readers

LockInv == WriterIsAlone /\ FlagIsWriter /\ CallsFitLock /\ ReleaseMatches

\* The inductive invariant.
IInv == SyncTypeOK /\ OwnerIsInside /\ LockInv

-----------------------------------------------------------------------------
LEMMA InitInvariant == SyncInit => IInv
BY ThreadingAssumption
   DEF SyncInit, IInv, LockInv, SyncTypeOK, Labels, Semaphores, RwLocks, OwnerIsInside,
       WriterIsAlone, FlagIsWriter, CallsFitLock,
       ReleaseMatches, Inside, Waiting, Locking, Has

\* A thread that moves between places outside the lock does not disturb it.
LEMMA LockUntouched ==
  ASSUME LockInv, SyncTypeOK, UNCHANGED <<os, rw>>,
         NEW t \in Threads, NEW label,
         sync' = [sync EXCEPT ![t] = label],
         label \notin Locking \cup {"unlock", "set_flag", "release_exclusive", "release_shared"},
         sync[t] \notin {"set_flag", "release_exclusive", "release_shared"}
  PROVE  LockInv'
<1> USE DEF LockInv, SyncTypeOK, Labels, RwLocks, Has
<1>1. WriterIsAlone' /\ ReleaseMatches'
  BY DEF WriterIsAlone, ReleaseMatches
<1>2. \A u \in Threads : sync'[u] = IF u = t THEN label ELSE sync[u]
  OBVIOUS
<1>3. FlagIsWriter'
  <2>1. CASE rw.writer = Nobody
    BY <2>1 DEF FlagIsWriter
  <2>2. CASE rw.writer # Nobody
    BY <1>2, <2>2 DEF FlagIsWriter
  <2>3. QED
    BY <2>1, <2>2
<1>4. CallsFitLock'
  BY <1>2 DEF CallsFitLock
<1>5. QED
  BY <1>1, <1>3, <1>4

\* A thread that moves between places outside the semaphore does not disturb it.
LEMMA SemaphoreUntouched ==
  ASSUME OwnerIsInside, SyncTypeOK, UNCHANGED <<os, sem>>,
         NEW t \in Threads, NEW label,
         sync' = [sync EXCEPT ![t] = label],
         label \notin Inside, sync[t] \notin Inside \cup Waiting
  PROVE  OwnerIsInside'
BY DEF OwnerIsInside, SyncTypeOK

\* The two ways a wait goes on inside the mutex: it takes a count, or sleeps.
LEMMA TakeStep ==
  ASSUME SyncTypeOK, OwnerIsInside, os' = os,
         NEW t \in Threads, sync[t] \in Inside, sem.count > 0, Take(t)
  PROVE  sem' \in Semaphores /\ OwnerIsInside'
<1> USE DEF SyncTypeOK, Semaphores, Labels, Take, Goto
<1>1. sem' \in Semaphores /\ sem'.owner = sem.owner /\ sem'.asleep = sem.asleep
  OBVIOUS
<1>2. \A u \in Threads : sync'[u] = IF u = t THEN "leave" ELSE sync[u]
  OBVIOUS
<1>3. QED
  BY <1>1, <1>2 DEF OwnerIsInside, Inside, Waiting

LEMMA SleepStep ==
  ASSUME SyncTypeOK, OwnerIsInside, os' = os,
         NEW t \in Threads, sync[t] \in Inside, NEW label \in Waiting, Sleep(t, label)
  PROVE  sem' \in Semaphores /\ OwnerIsInside'
<1> USE DEF SyncTypeOK, Semaphores, Labels, Sleep, Goto
<1>1. /\ sem' \in Semaphores /\ sem'.owner = Nobody
      /\ sem'.asleep = sem.asleep \cup {t}
  OBVIOUS
<1>2. \A u \in Threads : sync'[u] = IF u = t THEN label ELSE sync[u]
  OBVIOUS
<1>3. sem.owner = t /\ os # "windows"
  BY ThreadingAssumption DEF OwnerIsInside
<1>4. QED
  BY <1>1, <1>2, <1>3, ThreadingAssumption DEF OwnerIsInside, Inside, Waiting

\* The steps of the semaphore, and of the time that passes there, keep its mutex
\* right and do not touch the lock.
LEMMA SemaphoreStep ==
  ASSUME SyncTypeOK, OwnerIsInside,
         NEW t \in Threads, Semaphore(t) \/ Spurious(t) \/ Deadline(t)
  PROVE  /\ SyncTypeOK' /\ OwnerIsInside' /\ UNCHANGED <<os, rw>>
         /\ sync' = [sync EXCEPT ![t] = sync'[t]]
         /\ sync'[t] \notin Locking \cup {"unlock", "set_flag", "release_exclusive", "release_shared"}
         /\ sync[t] \notin {"set_flag", "release_exclusive", "release_shared"}
<1> USE ThreadingAssumption
    DEF SyncTypeOK, OwnerIsInside, Labels, Inside, Waiting, Locking, Semaphores, Goto, Returns
<1>1. CASE LockMutex(t)
  <2>1. PICK label \in {"post_in", "wait_in", "try_wait_in", "timed_wait_in"} :
          sync' = [sync EXCEPT ![t] = label] /\ got' = got
    BY <1>1 DEF LockMutex, InWait
  <2>2. /\ os = "posix" /\ sync[t] \in Waiting \cup {"post"} /\ t \notin sem.asleep
        /\ sem' = [sem EXCEPT !.owner = t] /\ sem.owner = Nobody /\ UNCHANGED <<os, rw>>
    BY <1>1 DEF LockMutex
  <2>3. /\ sem' \in Semaphores /\ sem'.owner = t /\ sem'.asleep = sem.asleep
    BY <2>2
  <2>4. /\ sync' \in [Threads -> Labels] /\ sync'[t] = label
        /\ \A u \in Threads : u # t => sync'[u] = sync[u]
    BY <2>1
  <2>5. SyncTypeOK'
    BY <2>1, <2>2, <2>3, <2>4
  <2>6. OwnerIsInside'
    BY <2>2, <2>3, <2>4
  <2>7. QED
    BY <2>1, <2>2, <2>4, <2>5, <2>6
<1>2. CASE UnlockMutex(t)
  BY <1>2 DEF UnlockMutex
<1>3. CASE Post(t)
  <2>1. UNCHANGED <<os, rw>> /\ sem' \in Semaphores
    <3>1. PICK asleep \in Signalled :
            sem' = [sem EXCEPT !.count = @ + 1, !.asleep = asleep, !.lost = @ + Lost(asleep)]
      BY <1>3 DEF Post
    <3>2. asleep \in SUBSET Threads
      BY <3>1 DEF Signalled
    <3>3. /\ sem'.count = sem.count + 1 /\ sem'.owner = sem.owner
          /\ sem'.asleep = asleep /\ sem'.late = sem.late /\ sem'.lost = sem.lost + Lost(asleep)
          /\ sem' = [count |-> sem'.count, owner |-> sem'.owner,
                     asleep |-> sem'.asleep, late |-> sem'.late, lost |-> sem'.lost]
          /\ Lost(asleep) \in Nat
      BY <3>1 DEF Lost
    <3>4. sem' \in Semaphores
      BY <3>2, <3>3
    <3>5. QED
      BY <1>3, <3>4 DEF Post
  <2>2. sync' = [sync EXCEPT ![t] = sync'[t]] /\ sync' \in [Threads -> Labels]
    BY <1>3 DEF Post, Signalled
  <2>3. got' \in [Threads -> BOOLEAN]
    BY <1>3 DEF Post, Signalled
  <2>4. OwnerIsInside'
    BY <1>3 DEF Post, Signalled
  <2>5. /\ sync'[t] \notin Locking \cup {"unlock", "set_flag", "release_exclusive", "release_shared"}
       /\ sync[t] \notin {"set_flag", "release_exclusive", "release_shared"}
    BY <1>3 DEF Post, Signalled
  <2>6. QED
    BY <2>1, <2>2, <2>3, <2>4, <2>5
<1>4. CASE Wait(t)
  <2>1. UNCHANGED <<os, rw>> /\ sem' \in Semaphores
    BY <1>4, TakeStep, SleepStep DEF Wait
  <2>2. sync' = [sync EXCEPT ![t] = sync'[t]] /\ sync' \in [Threads -> Labels]
    BY <1>4 DEF Wait, Take, Sleep
  <2>3. got' \in [Threads -> BOOLEAN]
    BY <1>4 DEF Wait, Take, Sleep
  <2>4. OwnerIsInside'
    BY <1>4, TakeStep, SleepStep DEF Wait
  <2>5. /\ sync'[t] \notin Locking \cup {"unlock", "set_flag", "release_exclusive", "release_shared"}
       /\ sync[t] \notin {"set_flag", "release_exclusive", "release_shared"}
    BY <1>4 DEF Wait, Take, Sleep
  <2>6. QED
    BY <2>1, <2>2, <2>3, <2>4, <2>5
<1>5. CASE TryWait(t)
  BY <1>5 DEF TryWait, Take
<1>6. CASE TimedWait(t)
  <2>1. UNCHANGED <<os, rw>> /\ sem' \in Semaphores
    BY <1>6, TakeStep, SleepStep DEF TimedWait
  <2>2. sync' = [sync EXCEPT ![t] = sync'[t]] /\ sync' \in [Threads -> Labels]
    BY <1>6 DEF TimedWait, Take, Sleep
  <2>3. got' \in [Threads -> BOOLEAN]
    BY <1>6 DEF TimedWait, Take, Sleep
  <2>4. OwnerIsInside'
    BY <1>6, TakeStep, SleepStep DEF TimedWait
  <2>5. /\ sync'[t] \notin Locking \cup {"unlock", "set_flag", "release_exclusive", "release_shared"}
       /\ sync[t] \notin {"set_flag", "release_exclusive", "release_shared"}
    BY <1>6 DEF TimedWait, Take, Sleep
  <2>6. QED
    BY <2>1, <2>2, <2>3, <2>4, <2>5
<1>7. CASE WindowsPost(t)
  BY <1>7 DEF WindowsPost
<1>8. CASE WindowsWait(t)
  <2>1. UNCHANGED <<os, rw>> /\ sem' \in Semaphores
    BY <1>8 DEF WindowsWait
  <2>2. sync' = [sync EXCEPT ![t] = sync'[t]] /\ sync' \in [Threads -> Labels]
    BY <1>8 DEF WindowsWait
  <2>3. got' \in [Threads -> BOOLEAN]
    BY <1>8 DEF WindowsWait
  <2>4. OwnerIsInside'
    BY <1>8 DEF WindowsWait
  <2>5. /\ sync'[t] \notin Locking \cup {"unlock", "set_flag", "release_exclusive", "release_shared"}
       /\ sync[t] \notin {"set_flag", "release_exclusive", "release_shared"}
    BY <1>8 DEF WindowsWait
  <2>6. QED
    BY <2>1, <2>2, <2>3, <2>4, <2>5
<1>9. CASE Spurious(t)
  BY <1>9 DEF Spurious
<1>10. CASE Deadline(t)
  BY <1>10 DEF Deadline
<1>11. QED
  BY <1>1, <1>2, <1>3, <1>4, <1>5, <1>6, <1>7, <1>8, <1>9, <1>10 DEF Semaphore

\* The steps of the lock keep its flag right and do not touch the semaphore.
LEMMA RwLockStep ==
  ASSUME SyncTypeOK, LockInv, NEW t \in Threads, RwLock(t)
  PROVE  /\ SyncTypeOK' /\ LockInv' /\ UNCHANGED <<os, sem>>
         /\ sync' = [sync EXCEPT ![t] = sync'[t]] /\ sync'[t] \notin Inside
         /\ sync[t] \notin Inside \cup Waiting
<1> USE ThreadingAssumption
    DEF LockInv, SyncTypeOK, Labels, RwLocks, WriterIsAlone, FlagIsWriter, CallsFitLock, ReleaseMatches,
        Inside, Waiting, Locking, Has, Goto, Returns
<1>1. CASE RdLock(t)
  BY <1>1 DEF RdLock
<1>2. CASE WrLock(t)
  <2>1. CASE os = "windows"
    BY <1>2, <2>1 DEF WrLock
  <2>2. CASE os = "posix"
    <3>1. /\ rw' \in RwLocks /\ rw'.readers = {} /\ rw'.writer = t
          /\ rw'.flag = rw.flag /\ rw'.mismatch = rw.mismatch
      BY <1>2, <2>2 DEF WrLock
    <3>2. \A u \in Threads : sync'[u] = IF u = t THEN "none" ELSE sync[u]
      BY <1>2, <2>2 DEF WrLock
    <3>3. LockInv'
      BY <1>2, <2>2, <3>1, <3>2 DEF WrLock
    <3>4. /\ UNCHANGED <<os, sem>> /\ got' \in [Threads -> BOOLEAN]
          /\ sync' = [sync EXCEPT ![t] = "none"] /\ sync[t] \in Locking
      BY <1>2, <2>2 DEF WrLock
    <3>5. SyncTypeOK'
      BY <3>1, <3>4
    <3>6. QED
      BY <3>2, <3>3, <3>4, <3>5
  <2>3. QED
    BY <2>1, <2>2
<1>3. CASE SetFlag(t)
  BY <1>3 DEF SetFlag
<1>4. CASE TryFails(t)
  BY <1>4 DEF TryFails
<1>5. CASE Unlock(t)
  BY <1>5 DEF Unlock
<1>6. CASE ReadFlag(t)
  BY <1>6 DEF ReadFlag
<1>7. CASE Release(t)
  <2>1. CASE sync[t] = "release_exclusive"
    <3>1. /\ rw' \in RwLocks /\ rw'.readers = rw.readers /\ rw'.writer = Nobody
          /\ rw'.flag = rw.flag /\ rw'.mismatch = FALSE
      BY <1>7, <2>1 DEF Release
    <3>2. \A u \in Threads : sync'[u] = IF u = t THEN "none" ELSE sync[u]
      BY <1>7, <2>1 DEF Release
    <3>3. LockInv'
      BY <1>7, <2>1, <3>1, <3>2 DEF Release
    <3>4. QED
      BY <1>7, <2>1, <3>1, <3>3 DEF Release
  <2>2. CASE sync[t] = "release_shared"
    <3>1. /\ rw' \in RwLocks /\ rw'.readers = rw.readers \ {t} /\ rw'.writer = rw.writer
          /\ rw'.flag = rw.flag /\ rw'.mismatch = FALSE
      <4>1. rw' = [rw EXCEPT !.readers = @ \ {t}, !.mismatch = @ \/ t \notin rw.readers]
        BY <1>7, <2>2 DEF Release
      <4>2. rw.mismatch = FALSE /\ t \in rw.readers
        BY <2>2
      <4>3. rw' = [rw EXCEPT !.readers = @ \ {t}, !.mismatch = FALSE]
        BY <4>1, <4>2
      <4>4. QED
        BY <4>3
    <3>2. \A u \in Threads : sync'[u] = IF u = t THEN "none" ELSE sync[u]
      BY <1>7, <2>2 DEF Release
    <3>3. LockInv'
      BY <1>7, <2>2, <3>1, <3>2 DEF Release
    <3>4. QED
      BY <1>7, <2>2, <3>1, <3>3 DEF Release
  <2>3. QED
    BY <1>7, <2>1, <2>2 DEF Release
<1>8. QED
  BY <1>1, <1>2, <1>3, <1>4, <1>5, <1>6, <1>7 DEF RwLock

\* A caller that keeps to the contract.
LEMMA CallStep ==
  ASSUME IInv, NEW t \in Threads,
         NEW label \in Waiting \cup Locking \cup {"post", "unlock"}, Call(t, label)
  PROVE  IInv'
BY ThreadingAssumption
   DEF Call, Calling, IInv, LockInv, SyncTypeOK, Labels, Semaphores, RwLocks, OwnerIsInside,
       WriterIsAlone, FlagIsWriter,
       CallsFitLock, ReleaseMatches, Inside, Waiting, Locking, Has

LEMMA StepInvariant == IInv /\ [SyncNext]_syncVars => IInv'
<1> SUFFICES ASSUME IInv, [SyncNext]_syncVars PROVE IInv'
  OBVIOUS
<1>1. CASE UNCHANGED syncVars
  BY <1>1 DEF syncVars, IInv, LockInv, SyncTypeOK, Labels, Semaphores, RwLocks, OwnerIsInside,
       WriterIsAlone, FlagIsWriter, CallsFitLock,
              ReleaseMatches, Has
<1>2. ASSUME NEW t \in Threads, Semaphore(t) \/ Spurious(t) \/ Deadline(t) PROVE IInv'
  BY <1>2, SemaphoreStep, LockUntouched DEF IInv
<1>3. ASSUME NEW t \in Threads, RwLock(t) PROVE IInv'
  BY <1>3, RwLockStep, SemaphoreUntouched DEF IInv
<1>4. QED
  BY <1>1, <1>2, <1>3, CallStep DEF SyncNext

LEMMA Invariance == SyncSpec => []IInv
BY InitInvariant, StepInvariant, PTL DEF SyncSpec

-----------------------------------------------------------------------------
\* Whatever threads do that keep to the contract, the release fits the way the
\* lock is held, on both backends (rwlock.c).
THEOREM ReleasesMatch == SyncSpec => []ReleaseMatches
<1>1. IInv => ReleaseMatches
  BY DEF IInv, LockInv
<1>2. QED
  BY <1>1, Invariance, PTL

\* The count of the semaphore is never below 0, at most one thread is inside its
\* mutex, and the lock has one writer or some readers (semaphore.c, rwlock.c).
THEOREM LocksExclude ==
  SyncSpec => [](/\ SyncTypeOK
                 /\ \A s, t \in Threads : sync[s] \in Inside /\ sync[t] \in Inside => s = t
                 /\ WriterIsAlone)
<1>1. IInv => /\ SyncTypeOK
              /\ \A s, t \in Threads : sync[s] \in Inside /\ sync[t] \in Inside => s = t
              /\ WriterIsAlone
  BY DEF IInv, LockInv, OwnerIsInside
<1>2. QED
  BY <1>1, Invariance, PTL

-----------------------------------------------------------------------------
\* What can be left of a job (Workers.Jobs).
Rests ==
  {<<>>,
   <<"insert", "unlock", "post">>, <<"unlock", "post">>, <<"post">>,
   <<"wrlock", "random", "delete", "unlock">>, <<"random", "delete", "unlock">>,
   <<"delete", "unlock">>, <<"unlock">>,
   <<"lookup", "unlock">>, <<"foreach", "unlock">>}

\* The job has made its lock call, and its unlock is ahead.
Locked(rest) == rest # <<>> /\ Head(rest) \in TableCalls \cup {"unlock"}

\* Between calls a thread has the lock when its job is at such a place and the
\* lock call did not fail; in a call, the call is the one the place asks for.
JobsFit ==
  \A t \in Threads :
    /\ job[t] \in Rests
    /\ sync[t] = "none" => (Has(t) <=> got[t] /\ Locked(job[t]))
    /\ sync[t] \in Locking \cup {"set_flag"} => Locked(job[t])
    /\ sync[t] \in {"unlock", "release_exclusive", "release_shared"} => ~Locked(job[t])
    /\ sync[t] \in Waiting \cup Inside \cup {"post"} => ~Has(t) /\ ~Locked(job[t])

PlansFit == plan \in [Threads -> Seq({"put", "get", "peek"})]

\* The inductive invariant of Workers.
WInv ==
  /\ IInv /\ JobsFit /\ PlansFit
  /\ job \in [Threads -> Rests]

\* The calls that are left go on being left, one after another.
LEMMA RestsGoOn ==
  ASSUME NEW rest \in Rests, rest # <<>>
  PROVE  /\ Tail(rest) \in Rests
         /\ Head(rest) \in TableCalls \cup {"unlock", "wrlock", "post"}
         /\ Head(rest) \in TableCalls \cup {"wrlock"} <=> Locked(Tail(rest))
<1>1. /\ Tail(<<"insert", "unlock", "post">>) = <<"unlock", "post">>
      /\ Tail(<<"unlock", "post">>) = <<"post">>
      /\ Tail(<<"post">>) = <<>>
  OBVIOUS
<1>2. /\ Tail(<<"wrlock", "random", "delete", "unlock">>) = <<"random", "delete", "unlock">>
      /\ Tail(<<"random", "delete", "unlock">>) = <<"delete", "unlock">>
      /\ Tail(<<"delete", "unlock">>) = <<"unlock">>
      /\ Tail(<<"unlock">>) = <<>>
  OBVIOUS
<1>3. /\ Tail(<<"lookup", "unlock">>) = <<"unlock">>
      /\ Tail(<<"foreach", "unlock">>) = <<"unlock">>
  OBVIOUS
<1>4. /\ Locked(<<"unlock", "post">>)
      /\ Locked(<<"delete", "unlock">>)
      /\ Locked(<<"unlock">>)
  BY DEF Locked, TableCalls
<1>5. Locked(<<"random", "delete", "unlock">>)
  BY DEF Locked, TableCalls
<1>6. ~Locked(<<"post">>) /\ ~Locked(<<>>)
  BY DEF Locked, TableCalls
<1>7. CASE rest = <<"insert", "unlock", "post">>
  BY <1>1, <1>2, <1>3, <1>4, <1>5, <1>6, <1>7 DEF Rests, TableCalls
<1>8. CASE rest = <<"unlock", "post">>
  BY <1>1, <1>2, <1>3, <1>4, <1>5, <1>6, <1>8 DEF Rests, TableCalls
<1>9. CASE rest = <<"post">>
  BY <1>1, <1>2, <1>3, <1>4, <1>5, <1>6, <1>9 DEF Rests, TableCalls
<1>10. CASE rest = <<"wrlock", "random", "delete", "unlock">>
  BY <1>1, <1>2, <1>3, <1>4, <1>5, <1>6, <1>10 DEF Rests, TableCalls
<1>11. CASE rest = <<"random", "delete", "unlock">>
  BY <1>1, <1>2, <1>3, <1>4, <1>5, <1>6, <1>11 DEF Rests, TableCalls
<1>12. CASE rest = <<"delete", "unlock">>
  BY <1>1, <1>2, <1>3, <1>4, <1>5, <1>6, <1>12 DEF Rests, TableCalls
<1>13. CASE rest = <<"unlock">>
  BY <1>1, <1>2, <1>3, <1>4, <1>5, <1>6, <1>13 DEF Rests, TableCalls
<1>14. CASE rest = <<"lookup", "unlock">>
  BY <1>1, <1>2, <1>3, <1>4, <1>5, <1>6, <1>14 DEF Rests, TableCalls
<1>15. CASE rest = <<"foreach", "unlock">>
  BY <1>1, <1>2, <1>3, <1>4, <1>5, <1>6, <1>15 DEF Rests, TableCalls
<1>16. QED
  BY <1>7, <1>8, <1>9, <1>10, <1>11, <1>12, <1>13, <1>14, <1>15 DEF Rests

\* A job begins with a lock call, or with a wait and then a lock call.
LEMMA JobsBegin ==
  ASSUME NEW kind \in {"put", "get", "peek"}, NEW calls \in Jobs(kind)
  PROVE  /\ Tail(calls) \in Rests
         /\ Head(calls) \in Waiting \cup Locking
         /\ Head(calls) \in Locking <=> Locked(Tail(calls))
<1>1. /\ Tail(<<"rdlock", "insert", "unlock", "post">>) = <<"insert", "unlock", "post">>
      /\ \A w \in Waiting : Tail(<<w, "wrlock", "random", "delete", "unlock">>)
                               = <<"wrlock", "random", "delete", "unlock">>
      /\ Tail(<<"try_rdlock", "lookup", "unlock">>) = <<"lookup", "unlock">>
      /\ Tail(<<"try_wrlock", "foreach", "unlock">>) = <<"foreach", "unlock">>
  OBVIOUS
<1>2. /\ Locked(<<"insert", "unlock", "post">>)
      /\ Locked(<<"lookup", "unlock">>)
      /\ Locked(<<"foreach", "unlock">>)
      /\ ~Locked(<<"wrlock", "random", "delete", "unlock">>)
  BY DEF Locked, TableCalls
<1>3. CASE kind = "put"
  <2>1. calls = <<"rdlock", "insert", "unlock", "post">>
    BY <1>3 DEF Jobs
  <2>2. QED
    BY <1>1, <1>2, <2>1 DEF Rests, Waiting, Locking
<1>4. CASE kind = "get"
  <2>1. PICK w \in Waiting : calls = <<w, "wrlock", "random", "delete", "unlock">>
    BY <1>4 DEF Jobs
  <2>2. QED
    BY <1>1, <1>2, <2>1 DEF Rests, Waiting, Locking
<1>5. CASE kind = "peek"
  <2>1. \/ calls = <<"try_rdlock", "lookup", "unlock">>
        \/ calls = <<"try_wrlock", "foreach", "unlock">>
    BY <1>5 DEF Jobs
  <2>2. CASE calls = <<"try_rdlock", "lookup", "unlock">>
    BY <1>1, <1>2, <2>2 DEF Rests, Waiting, Locking
  <2>3. CASE calls = <<"try_wrlock", "foreach", "unlock">>
    BY <1>1, <1>2, <2>3 DEF Rests, Waiting, Locking
  <2>4. QED
    BY <2>1, <2>2, <2>3
<1>6. QED
  BY <1>3, <1>4, <1>5

-----------------------------------------------------------------------------
LEMMA WorkersInit == Init => WInv
<1> SUFFICES ASSUME Init PROVE WInv
  OBVIOUS
<1>1. IInv /\ PlansFit
  BY InitInvariant, PlansAssumption DEF Init, PlansFit
<1>2. ~Locked(<<>>) /\ <<>> \in Rests
  BY DEF Locked, Rests
<1>3. JobsFit /\ job \in [Threads -> Rests]
  BY <1>2, ThreadingAssumption DEF Init, SyncInit, JobsFit, Has, Locking, Waiting, Inside
<1>4. QED
  BY <1>1, <1>3 DEF WInv

\* A step of the locks fits the jobs: what a thread has when its call returns is
\* what the next place in its job asks for, and no other thread is concerned.
LEMMA SyncStepFits ==
  ASSUME WInv, NEW t \in Threads,
         Semaphore(t) \/ RwLock(t) \/ Spurious(t) \/ Deadline(t),
         UNCHANGED <<job, plan>>
  PROVE  JobsFit'
<1> USE ThreadingAssumption
    DEF WInv, IInv, LockInv, SyncTypeOK, Labels, RwLocks, WriterIsAlone, CallsFitLock,
        JobsFit, Inside, Waiting, Locking, Has, Goto, Returns
<1> HIDE DEF Locked, Rests
<1>1. CASE LockMutex(t)
  BY <1>1 DEF LockMutex, InWait
<1>2. CASE UnlockMutex(t)
  BY <1>2 DEF UnlockMutex
<1>3. CASE Post(t)
  BY <1>3 DEF Post
<1>4. CASE Wait(t)
  BY <1>4 DEF Wait, Take, Sleep
<1>5. CASE TryWait(t)
  BY <1>5 DEF TryWait, Take
<1>6. CASE TimedWait(t)
  BY <1>6 DEF TimedWait, Take, Sleep
<1>7. CASE WindowsPost(t)
  BY <1>7 DEF WindowsPost
<1>8. CASE WindowsWait(t)
  BY <1>8 DEF WindowsWait
<1>9. CASE Spurious(t)
  BY <1>9 DEF Spurious
<1>10. CASE Deadline(t)
  BY <1>10 DEF Deadline
<1>11. CASE RdLock(t)
  BY <1>11 DEF RdLock
<1>12. CASE WrLock(t)
  BY <1>12 DEF WrLock
<1>13. CASE SetFlag(t)
  BY <1>13 DEF SetFlag
<1>14. CASE TryFails(t)
  BY <1>14 DEF TryFails
<1>15. CASE Unlock(t)
  BY <1>15 DEF Unlock
<1>16. CASE ReadFlag(t)
  BY <1>16 DEF ReadFlag
<1>17. CASE Release(t)
  <2>1. sync' = [sync EXCEPT ![t] = "none"] /\ UNCHANGED <<job, plan>>
    BY <1>17 DEF Release
  <2>2. /\ rw'.readers = rw.readers \ {t}
        /\ rw'.writer = IF rw.writer = t THEN Nobody ELSE rw.writer
    <3>1. CASE sync[t] = "release_exclusive"
      <4>1. rw.writer = t /\ rw.readers = {}
        BY <3>1
      <4>2. rw'.readers = rw.readers /\ rw'.writer = Nobody
        BY <1>17, <3>1 DEF Release
      <4>3. QED
        BY <4>1, <4>2
    <3>2. CASE sync[t] = "release_shared"
      <4>1. rw.writer # t
        BY <3>2
      <4>2. rw'.readers = rw.readers \ {t} /\ rw'.writer = rw.writer
        BY <1>17, <3>2 DEF Release
      <4>3. QED
        BY <4>1, <4>2
    <3>3. QED
      BY <1>17, <3>1, <3>2 DEF Release
  <2>3. ~Locked(job[t]) /\ ~(Has(t))'
    BY <1>17, <2>2 DEF Release
  <2>4. \A u \in Threads \ {t} : (Has(u))' <=> Has(u)
    BY <2>2
  <2>5. \A u \in Threads \ {t} : sync'[u] = sync[u] /\ got'[u] = got[u] /\ job'[u] = job[u]
    BY <1>17 DEF Release
  <2>6. QED
    BY <2>1, <2>3, <2>4, <2>5
<1>18. QED
  BY <1>1, <1>2, <1>3, <1>4, <1>5, <1>6, <1>7, <1>8, <1>9, <1>10, <1>11, <1>12,
     <1>13, <1>14, <1>15, <1>16, <1>17 DEF Semaphore, RwLock

\* A thread that begins a job waits or locks, and has no lock.
LEMMA BeginStep ==
  ASSUME WInv, NEW t \in Threads, Begin(t)
  PROVE  /\ \E label \in Waiting \cup Locking \cup {"post", "unlock"} : Call(t, label)
         /\ JobsFit' /\ PlansFit' /\ job' \in [Threads -> Rests]
<1>1. plan[t] \in Seq({"put", "get", "peek"}) /\ plan[t] # <<>>
  BY DEF WInv, PlansFit, Begin
<1>2. PICK kind \in {"put", "get", "peek"} : kind = Head(plan[t])
  BY <1>1
<1>3. PICK calls \in Jobs(kind) :
        job' = [job EXCEPT ![t] = Tail(calls)] /\ Calling(t, Head(calls))
  BY <1>2 DEF Begin
<1>4. PICK label : label = Head(calls)
  OBVIOUS
<1>5. PICK rest : rest = Tail(calls)
  OBVIOUS
<1>6. rest \in Rests /\ label \in Waiting \cup Locking /\ (label \in Locking <=> Locked(rest))
  BY <1>4, <1>5, JobsBegin
<1>7. sync[t] = "none" /\ ~Has(t)
  BY DEF Begin, Free, WInv, JobsFit, Locked
<1>8. job' = [job EXCEPT ![t] = rest] /\ Calling(t, label)
  BY <1>3, <1>4, <1>5
<1>9. Call(t, label)
  BY <1>6, <1>7, <1>8 DEF Call, Waiting, Locking
<1>10. job' \in [Threads -> Rests]
  BY <1>6, <1>8 DEF WInv
<1>11. JobsFit'
  BY <1>6, <1>7, <1>8
     DEF WInv, IInv, SyncTypeOK, JobsFit, Calling, Has, Waiting, Locking, Inside
<1>12. PlansFit'
  BY <1>1 DEF Begin, WInv, PlansFit
<1>13. QED
  BY <1>6, <1>9, <1>10, <1>11, <1>12

\* A thread that goes on with its job unlocks what it has, and locks, waits for
\* or posts to a semaphore when it has nothing.
LEMMA ProceedStep ==
  ASSUME WInv, NEW t \in Threads, Proceed(t)
  PROVE  /\ \/ UNCHANGED syncVars
            \/ \E label \in Waiting \cup Locking \cup {"post", "unlock"} : Call(t, label)
         /\ JobsFit' /\ PlansFit' /\ job' \in [Threads -> Rests]
<1>1. PICK rest \in Rests : rest = job[t]
  BY DEF WInv, JobsFit
<1>2. rest # <<>> /\ got[t] /\ sync[t] = "none"
  BY <1>1 DEF Proceed, Free
<1>3. PICK label : label = Head(rest)
  OBVIOUS
<1>4. PICK next : next = Tail(rest)
  OBVIOUS
<1>5. /\ next \in Rests
      /\ label \in TableCalls \cup {"unlock", "wrlock", "post"}
      /\ label \in TableCalls \cup {"wrlock"} <=> Locked(next)
  BY <1>2, <1>3, <1>4, RestsGoOn
<1>6. Has(t) <=> label \in TableCalls \cup {"unlock"}
  BY <1>1, <1>2, <1>3 DEF WInv, JobsFit, Locked
<1>7. job' = [job EXCEPT ![t] = next]
  BY <1>1, <1>4 DEF Proceed
<1>8. job' \in [Threads -> Rests] /\ PlansFit'
  BY <1>5, <1>7 DEF WInv, PlansFit, Proceed
<1>9. CASE label \in TableCalls
  <2>1. UNCHANGED syncVars
    BY <1>1, <1>3, <1>9 DEF Proceed
  <2>2. JobsFit'
    BY <1>2, <1>5, <1>6, <1>7, <1>9, <2>1
       DEF WInv, JobsFit, syncVars, Has, Waiting, Locking, Inside
  <2>3. QED
    BY <1>8, <2>1, <2>2
<1>10. CASE label \notin TableCalls
  <2>1. Calling(t, label)
    BY <1>1, <1>3, <1>10 DEF Proceed
  <2>2. label \in {"unlock", "wrlock", "post"}
    BY <1>5, <1>10
  <2>3. label = "unlock" <=> Has(t)
    BY <1>6, <1>10, <2>2
  <2>4. Call(t, label)
    BY <2>1, <2>2, <2>3 DEF Call, Locking
  <2>5. label = "wrlock" <=> Locked(next)
    BY <1>5, <1>10, <2>2
  <2>6. JobsFit'
    BY <1>5, <1>7, <2>1, <2>2, <2>3, <2>5
       DEF WInv, IInv, SyncTypeOK, JobsFit, Calling, Has, Waiting, Locking, Inside
  <2>7. QED
    BY <1>8, <2>2, <2>4, <2>6 DEF Locking
<1>11. QED
  BY <1>9, <1>10

\* Whatever a thread does, the locks see a step of their contract.
LEMMA WorkersStep ==
  ASSUME WInv, [Next]_vars
  PROVE  [SyncNext]_syncVars /\ JobsFit' /\ PlansFit' /\ job' \in [Threads -> Rests]
<1>1. CASE UNCHANGED vars
  <2>1. UNCHANGED <<syncVars, job, plan>>
    BY <1>1 DEF vars
  <2>2. QED
    BY <2>1 DEF syncVars, WInv, JobsFit, PlansFit, Has
<1>2. ASSUME NEW t \in Threads, Begin(t)
      PROVE  [SyncNext]_syncVars /\ JobsFit' /\ PlansFit' /\ job' \in [Threads -> Rests]
  BY <1>2, BeginStep DEF SyncNext
<1>3. ASSUME NEW t \in Threads, Proceed(t)
      PROVE  [SyncNext]_syncVars /\ JobsFit' /\ PlansFit' /\ job' \in [Threads -> Rests]
  BY <1>3, ProceedStep DEF SyncNext
<1>4. ASSUME NEW t \in Threads, GiveUp(t)
      PROVE  [SyncNext]_syncVars /\ JobsFit' /\ PlansFit' /\ job' \in [Threads -> Rests]
  <2>1. UNCHANGED syncVars /\ sync[t] = "none" /\ ~got[t] /\ job' = [job EXCEPT ![t] = <<>>]
    BY <1>4 DEF GiveUp, Free
  <2>2. ~Locked(<<>>) /\ <<>> \in Rests
    BY DEF Locked, Rests
  <2>3. JobsFit' /\ job' \in [Threads -> Rests]
    BY <2>1, <2>2 DEF syncVars, WInv, JobsFit, Has, Waiting, Locking, Inside
  <2>4. QED
    BY <1>4, <2>1, <2>3 DEF GiveUp, WInv, PlansFit
<1>5. ASSUME NEW t \in Threads, InSync(t) \/ Time(t)
      PROVE  [SyncNext]_syncVars /\ JobsFit' /\ PlansFit' /\ job' \in [Threads -> Rests]
  <2>1. /\ Semaphore(t) \/ RwLock(t) \/ Spurious(t) \/ Deadline(t)
        /\ UNCHANGED <<job, plan>>
    BY <1>5 DEF InSync, Time
  <2>2. SyncNext
    BY <2>1 DEF SyncNext
  <2>3. JobsFit'
    BY <2>1, SyncStepFits
  <2>4. QED
    BY <2>1, <2>2, <2>3 DEF WInv, PlansFit
<1>6. ASSUME NEW t \in Threads, InTable(t)
      PROVE  [SyncNext]_syncVars /\ JobsFit' /\ PlansFit' /\ job' \in [Threads -> Rests]
  <2>1. UNCHANGED <<syncVars, job, plan>>
    BY <1>6 DEF InTable
  <2>2. QED
    BY <2>1 DEF syncVars, WInv, JobsFit, PlansFit, Has
<1>7. QED
  BY <1>1, <1>2, <1>3, <1>4, <1>5, <1>6 DEF Next

LEMMA WorkersInvariance == Spec => []WInv
<1>1. WInv /\ [Next]_vars => WInv'
  BY WorkersStep, StepInvariant DEF WInv
<1>2. QED
  BY <1>1, WorkersInit, PTL DEF Spec

\* Threads that put, get and peek keep to the contract of the semaphore and the
\* lock: they unlock what they have, once, and lock only what they do not have,
\* also after a try or a timed wait that failed (hash_table.c, semaphore.c,
\* rwlock.c).
THEOREM KeepContract == Spec => SyncSpec
<1>1. Init => SyncInit
  BY DEF Init
<1>2. WInv /\ [Next]_vars => [SyncNext]_syncVars
  BY WorkersStep
<1>3. QED
  BY <1>1, <1>2, WorkersInvariance, PTL DEF Spec, SyncSpec

\* With the table and its jobs around it, the release still fits the way the
\* lock is held (rwlock.c:89-100).
THEOREM WorkersRelease == Spec => []ReleaseMatches
BY KeepContract, ReleasesMatch, PTL

-----------------------------------------------------------------------------
(***************************************************************************)
(* The chains of the table.  Nothing of this section depends on threads.   *)
(***************************************************************************)
\* Induction over the numbers, for a set of them.
Lower == {p \in Nat \X Nat : p[1] < p[2]}

LEMMA NumberInduction ==
  ASSUME NEW S \in SUBSET Nat, 0 \in S, \A n \in S : n + 1 \in S
  PROVE  S = Nat
<1> DEFINE T == Nat \ S
<1>1. SUFFICES ASSUME T # {} PROVE FALSE
  OBVIOUS
<1>2. IsWellFoundedOn(Lower, Nat)
  BY NatLessThanWellFounded DEF OpToRel, Lower
<1>3. PICK x \in T : \A y \in T : ~(<<y, x>> \in Lower)
  <2>1. \E x \in T : \A y \in T : ~(<<y, x>> \in Lower)
    BY <1>1, <1>2, WFMin
  <2>2. QED
    BY <2>1
<1>4. x # 0 /\ x - 1 \in Nat /\ <<x - 1, x>> \in Lower
  BY DEF Lower
<1>5. x - 1 \in S
  BY <1>3, <1>4
<1>6. QED
  BY <1>4, <1>5

\* The chains of the table: bucket b has k[b] nodes, and q[b] is the walk over
\* its slots, from the bucket itself to the slot that points to none.
Linked(l, k, q) ==
  /\ k \in [1 .. Cap -> Nat] /\ q \in [1 .. Cap -> [Nat -> Slots]]
  /\ \A b \in 1 .. Cap :
       /\ q[b][0] = b /\ l[q[b][k[b]]] = Null
       /\ \A i \in 1 .. k[b] : q[b][i] \in Nodes /\ Hash[q[b][i]] = b /\ l[q[b][i - 1]] = q[b][i]
       /\ \A i, j \in 1 .. k[b] : q[b][i] = q[b][j] => i = j

InChains(k, q) == {n \in Nodes : \E i \in 1 .. k[Hash[n]] : q[Hash[n]][i] = n}
InSlots(k, q)  == {s \in Slots : \E b \in 1 .. Cap : \E i \in 1 .. k[b] : s = q[b][i - 1]}

\* A chain has no node twice, so it is no longer than there are nodes.
LEMMA ChainIsShort ==
  ASSUME NEW k, NEW q, Linked(link, k, q), NEW b \in 1 .. Cap
  PROVE  k[b] <= Cardinality(Nodes)
<1>1. PICK m \in Nat : m = k[b]
  BY DEF Linked
<1> DEFINE f == [i \in 1 .. m |-> q[b][i]]
<1>2. /\ \A i \in 1 .. m : q[b][i] \in Nodes
      /\ \A i, j \in 1 .. m : q[b][i] = q[b][j] => i = j
  BY <1>1 DEF Linked
<1>3. f \in Injection(1 .. m, Nodes)
  BY <1>2 DEF Injection, IsInjective
<1>4. IsFiniteSet(Nodes)
  BY HashTableAssumption
<1>5. Cardinality(1 .. m) <= Cardinality(Nodes)
  <2> HIDE DEF f
  <2>1. QED
    BY <1>3, <1>4, FS_Injection
<1>6. Cardinality(1 .. m) = m
  BY FS_Interval
<1>7. QED
  BY <1>1, <1>5, <1>6

\* The walk of Occupied after i steps.
Least(i, m) == IF i <= m THEN i ELSE m
Walked(k, q, b, i) == [j \in 1 .. (1 + Least(i, k[b])) |-> q[b][j - 1]]

LEMMA WalkedType ==
  ASSUME NEW k, NEW q, Linked(link, k, q), NEW b \in 1 .. Cap, NEW i \in Nat
  PROVE  /\ Walked(k, q, b, i) \in Seq(Slots)
         /\ Len(Walked(k, q, b, i)) = 1 + Least(i, k[b])
         /\ Least(i, k[b]) \in 0 .. k[b]
         /\ Last(Walked(k, q, b, i)) = q[b][Least(i, k[b])]
<1>1. k[b] \in Nat /\ q[b] \in [Nat -> Slots]
  BY DEF Linked
<1>2. PICK m \in Nat : m = Least(i, k[b]) /\ m \in 0 .. k[b]
  BY <1>1 DEF Least
<1> DEFINE w == [j \in 1 .. (1 + m) |-> q[b][j - 1]]
<1>3. w \in [1 .. (1 + m) -> Slots] /\ 1 + m \in Nat
  BY <1>1
<1>4. w \in Seq(Slots) /\ Len(w) = 1 + m
  <2> HIDE DEF w
  <2>1. w \in Seq(Slots) /\ DOMAIN w = 1 .. (1 + m)
    BY <1>3, SeqDef
  <2>2. QED
    BY <1>3, <2>1, LenProperties
<1>5. w[1 + m] = q[b][m]
  BY <1>1
<1>6. w = Walked(k, q, b, i)
  BY <1>2 DEF Walked
<1>7. QED
  BY <1>2, <1>4, <1>5, <1>6 DEF Last

\* A slot of the walk points to no node only at the end.
LEMMA WalkedStep ==
  ASSUME NEW k, NEW q, Linked(link, k, q), NEW b \in 1 .. Cap, NEW i \in Nat
  PROVE  Walked(k, q, b, i + 1) =
           IF link[Last(Walked(k, q, b, i))] = Null THEN Walked(k, q, b, i)
           ELSE Append(Walked(k, q, b, i), link[Last(Walked(k, q, b, i))])
<1>1. k[b] \in Nat /\ q[b] \in [Nat -> Slots]
  BY DEF Linked
<1>2. /\ Walked(k, q, b, i) \in Seq(Slots)
      /\ Len(Walked(k, q, b, i)) = 1 + Least(i, k[b])
      /\ Last(Walked(k, q, b, i)) = q[b][Least(i, k[b])]
  BY WalkedType
<1>3. Walked(k, q, b, i + 1) \in Seq(Slots) /\ Len(Walked(k, q, b, i + 1)) = 1 + Least(i + 1, k[b])
  <2>1. i + 1 \in Nat
    OBVIOUS
  <2>2. QED
    BY <2>1, WalkedType
<1>4. CASE i < k[b]
  <2>1. Least(i, k[b]) = i /\ Least(i + 1, k[b]) = i + 1
    BY <1>1, <1>4 DEF Least
  <2>2. i + 1 \in 1 .. k[b] /\ (i + 1) - 1 = i
    BY <1>1, <1>4
  <2>3. link[q[b][i]] = q[b][i + 1] /\ q[b][i + 1] \in Nodes /\ q[b][i + 1] # Null
    <3>1. link[q[b][(i + 1) - 1]] = q[b][i + 1] /\ q[b][i + 1] \in Nodes
      BY <2>2 DEF Linked
    <3>2. QED
      BY <2>2, <3>1, HashTableAssumption
  <2>4. PICK x : x = q[b][i + 1]
    OBVIOUS
  <2>5. x \in Slots
    BY <2>3, <2>4 DEF Slots
  <2>6. /\ Append(Walked(k, q, b, i), x) \in Seq(Slots)
        /\ Len(Append(Walked(k, q, b, i), x)) = i + 2
        /\ \A j \in 1 .. (i + 1) : Append(Walked(k, q, b, i), x)[j] = Walked(k, q, b, i)[j]
        /\ Append(Walked(k, q, b, i), x)[i + 2] = x
    <3>1. PICK w \in Seq(Slots) : w = Walked(k, q, b, i) /\ Len(w) = i + 1
      BY <1>2, <2>1
    <3>2. /\ Append(w, x) \in Seq(Slots) /\ Len(Append(w, x)) = Len(w) + 1
          /\ \A j \in 1 .. Len(w) : Append(w, x)[j] = w[j]
          /\ Append(w, x)[Len(w) + 1] = x
      BY <2>5, AppendProperties
    <3>3. QED
      BY <3>1, <3>2
  <2>7. \A j \in 1 .. (i + 1) : Walked(k, q, b, i)[j] = q[b][j - 1]
    BY <2>1 DEF Walked
  <2>8. \A j \in 1 .. (i + 2) : Walked(k, q, b, i + 1)[j] = q[b][j - 1]
    BY <2>1 DEF Walked
  <2>9. \A j \in 1 .. (i + 2) : Walked(k, q, b, i + 1)[j] = Append(Walked(k, q, b, i), x)[j]
    <3> SUFFICES ASSUME NEW j \in 1 .. (i + 2)
                 PROVE  Walked(k, q, b, i + 1)[j] = Append(Walked(k, q, b, i), x)[j]
      OBVIOUS
    <3>1. CASE j = i + 2
      <4>1. j - 1 = i + 1
        BY <3>1
      <4>2. QED
        BY <2>4, <2>6, <2>8, <3>1, <4>1
    <3>2. CASE j # i + 2
      <4>1. j \in 1 .. (i + 1)
        BY <3>2
      <4>2. QED
        BY <2>6, <2>7, <2>8, <4>1
    <3>3. QED
      BY <3>1, <3>2
  <2>10. Walked(k, q, b, i + 1) = Append(Walked(k, q, b, i), x)
    <3>1. Len(Walked(k, q, b, i + 1)) = i + 2
      BY <1>3, <2>1
    <3>2. QED
      BY <1>3, <2>6, <2>9, <3>1, SeqEqual
  <2>11. QED
    BY <1>2, <2>1, <2>3, <2>4, <2>10
<1>5. CASE ~(i < k[b])
  <2>1. Least(i, k[b]) = k[b] /\ Least(i + 1, k[b]) = k[b]
    BY <1>1, <1>5 DEF Least
  <2>2. link[q[b][k[b]]] = Null
    BY DEF Linked
  <2>3. Walked(k, q, b, i + 1) = Walked(k, q, b, i)
    BY <2>1 DEF Walked
  <2>4. QED
    BY <1>2, <2>1, <2>2, <2>3
<1>6. QED
  BY <1>4, <1>5

\* What the walk over a bucket finds.
LEMMA OccupiedIs ==
  ASSUME NEW k, NEW q, Linked(link, k, q), NEW b \in 1 .. Cap
  PROVE  /\ Occupied(b) \in Seq(Slots) /\ Len(Occupied(b)) = k[b]
         /\ \A i \in 1 .. k[b] : Occupied(b)[i] = q[b][i - 1]
<1>1. PICK m \in Nat : m = Cardinality(Nodes)
  BY HashTableAssumption, FS_CardinalityType
<1>2. k[b] \in Nat /\ k[b] <= m /\ q[b] \in [Nat -> Slots]
  <2>1. k[b] \in Nat /\ q[b] \in [Nat -> Slots]
    BY DEF Linked
  <2>2. k[b] <= Cardinality(Nodes)
    BY ChainIsShort
  <2>3. QED
    BY <1>1, <2>1, <2>2
<1> DEFINE Goes(g) == g = [i \in 0 .. m |-> IF i = 0 THEN <<b>>
                             ELSE IF link[Last(g[i - 1])] = Null THEN g[i - 1]
                             ELSE Append(g[i - 1], link[Last(g[i - 1])])]
           w == [i \in 0 .. m |-> Walked(k, q, b, i)]
           g == CHOOSE h : Goes(h)
<1>3. Walked(k, q, b, 0) = <<b>>
  <2>1. Least(0, k[b]) = 0 /\ q[b][0] = b
    BY <1>2 DEF Least, Linked
  <2>2. Walked(k, q, b, 0) = [j \in 1 .. (1 + 0) |-> q[b][j - 1]]
    BY <2>1 DEF Walked
  <2>3. [j \in 1 .. (1 + 0) |-> q[b][j - 1]] = <<b>>
    BY <2>1
  <2>4. QED
    BY <2>2, <2>3
<1>4. Goes(w)
  <2>1. ASSUME NEW i \in 0 .. m
        PROVE  w[i] = IF i = 0 THEN <<b>>
                      ELSE IF link[Last(w[i - 1])] = Null THEN w[i - 1]
                      ELSE Append(w[i - 1], link[Last(w[i - 1])])
    <3>1. CASE i = 0
      BY <1>3, <3>1
    <3>2. CASE i # 0
      <4>1. i - 1 \in Nat /\ i - 1 \in 0 .. m /\ (i - 1) + 1 = i
        BY <3>2
      <4>2. w[i] = Walked(k, q, b, (i - 1) + 1) /\ w[i - 1] = Walked(k, q, b, i - 1)
        BY <4>1
      <4> HIDE DEF w
      <4>3. Walked(k, q, b, (i - 1) + 1) =
              IF link[Last(Walked(k, q, b, i - 1))] = Null THEN Walked(k, q, b, i - 1)
              ELSE Append(Walked(k, q, b, i - 1), link[Last(Walked(k, q, b, i - 1))])
        BY <4>1, WalkedStep
      <4>4. QED
        BY <3>2, <4>2, <4>3
    <3>3. QED
      BY <3>1, <3>2
  <2>2. w = [i \in 0 .. m |-> IF i = 0 THEN <<b>>
                      ELSE IF link[Last(w[i - 1])] = Null THEN w[i - 1]
                      ELSE Append(w[i - 1], link[Last(w[i - 1])])]
    BY <2>1
  <2>3. QED
    BY <2>2
<1>5. Goes(g)
  <2> HIDE DEF Goes, w
  <2>1. QED
    BY <1>4
<1>6. Occupied(b) = Front(g[m])
  BY <1>1 DEF Occupied
<1> HIDE DEF g
<1>7. \A i \in 0 .. m : g[i] = IF i = 0 THEN <<b>>
                               ELSE IF link[Last(g[i - 1])] = Null THEN g[i - 1]
                               ELSE Append(g[i - 1], link[Last(g[i - 1])])
  BY <1>5
<1> HIDE DEF Goes, w
<1> DEFINE S == {i \in Nat : i <= m => g[i] = Walked(k, q, b, i)}
<1>8. 0 \in S
  <2>1. g[0] = <<b>>
    <3>1. 0 \in 0 .. m
      OBVIOUS
    <3>2. QED
      BY <1>7, <3>1
  <2>2. QED
    BY <1>3, <2>1
<1>9. ASSUME NEW i \in S PROVE i + 1 \in S
  <2>1. i \in Nat /\ (i <= m => g[i] = Walked(k, q, b, i))
    OBVIOUS
  <2> SUFFICES ASSUME i + 1 <= m PROVE g[i + 1] = Walked(k, q, b, i + 1)
    OBVIOUS
  <2> HIDE DEF S
  <2>2. i <= m /\ i + 1 \in 0 .. m /\ i + 1 # 0 /\ (i + 1) - 1 = i
    BY <2>1
  <2>3. g[i + 1] = IF link[Last(g[i])] = Null THEN g[i] ELSE Append(g[i], link[Last(g[i])])
    BY <1>7, <2>2
  <2>4. QED
    BY <2>1, <2>2, <2>3, WalkedStep
<1>10. S = Nat
  <2> HIDE DEF S
  <2>1. S \in SUBSET Nat
    BY DEF S
  <2>2. QED
    BY <1>8, <1>9, <2>1, NumberInduction
<1>11. g[m] = Walked(k, q, b, m)
  <2> HIDE DEF S
  <2>1. m \in S
    BY <1>10
  <2>2. m <= m => g[m] = Walked(k, q, b, m)
    BY <2>1 DEF S
  <2>3. QED
    BY <2>2
<1>12. Least(m, k[b]) = k[b]
  BY <1>2 DEF Least
<1>13. PICK w2 \in Seq(Slots) : w2 = g[m] /\ Len(w2) = k[b] + 1
  <2>1. Walked(k, q, b, m) \in Seq(Slots) /\ Len(Walked(k, q, b, m)) = 1 + Least(m, k[b])
    BY WalkedType
  <2>2. QED
    BY <1>2, <1>11, <1>12, <2>1
<1>14. \A j \in 1 .. (k[b] + 1) : w2[j] = q[b][j - 1]
  BY <1>2, <1>11, <1>12, <1>13 DEF Walked
<1>15. Front(w2) = SubSeq(w2, 1, k[b])
  BY <1>2, <1>13 DEF Front
<1>16. /\ SubSeq(w2, 1, k[b]) \in Seq(Slots) /\ Len(SubSeq(w2, 1, k[b])) = k[b]
       /\ \A i \in 1 .. k[b] : SubSeq(w2, 1, k[b])[i] = w2[i]
  <2>1. PICK d \in Nat : d = k[b]
    BY <1>2
  <2>2. 1 \in 1 .. (Len(w2) + 1) /\ d \in 0 .. Len(w2)
    BY <1>13, <2>1
  <2>3. /\ SubSeq(w2, 1, d) \in Seq(Slots)
        /\ Len(SubSeq(w2, 1, d)) = IF 1 <= d THEN d - 1 + 1 ELSE 0
        /\ \A i \in 1 .. (d - 1 + 1) : SubSeq(w2, 1, d)[i] = w2[1 + i - 1]
    BY <2>2, SubSeqProperties
  <2>4. (IF 1 <= d THEN d - 1 + 1 ELSE 0) = d /\ d - 1 + 1 = d /\ \A i \in 1 .. d : 1 + i - 1 = i
    OBVIOUS
  <2>5. QED
    BY <2>1, <2>3, <2>4
<1>17. \A i \in 1 .. k[b] : i \in 1 .. (k[b] + 1)
  BY <1>2
<1>18. QED
  BY <1>6, <1>13, <1>14, <1>15, <1>16, <1>17
\* What the walks over the first buckets find, one after the other.
Upto(g, m) == g = [b \in 0 .. m |-> IF b = 0 THEN <<>> ELSE g[b - 1] \o Occupied(b)]

LEMMA UptoExists == \A m \in Nat : \E g : Upto(g, m)
<1> DEFINE S == {m \in Nat : \E g : Upto(g, m)}
<1>1. 0 \in S
  <2> DEFINE z == [b \in 0 .. 0 |-> <<>>]
  <2>1. z = [b \in 0 .. 0 |-> IF b = 0 THEN <<>> ELSE z[b - 1] \o Occupied(b)]
    OBVIOUS
  <2>2. Upto(z, 0)
    BY <2>1 DEF Upto
  <2>3. QED
    BY <2>2
<1>2. ASSUME NEW m \in S PROVE m + 1 \in S
  <2>1. PICK g : Upto(g, m)
    OBVIOUS
  <2> DEFINE h == [b \in 0 .. (m + 1) |-> IF b = m + 1 THEN g[m] \o Occupied(m + 1) ELSE g[b]]
  <2>2. \A b \in 0 .. m : g[b] = IF b = 0 THEN <<>> ELSE g[b - 1] \o Occupied(b)
    BY <2>1 DEF Upto
  <2>3. ASSUME NEW b \in 0 .. (m + 1)
        PROVE  h[b] = IF b = 0 THEN <<>> ELSE h[b - 1] \o Occupied(b)
    <3>1. CASE b = m + 1
      BY <3>1
    <3>2. CASE b # m + 1
      BY <2>2, <3>2
    <3>3. QED
      BY <3>1, <3>2
  <2>4. h = [b \in 0 .. (m + 1) |-> IF b = 0 THEN <<>> ELSE h[b - 1] \o Occupied(b)]
    BY <2>3
  <2>5. Upto(h, m + 1)
    BY <2>4 DEF Upto
  <2>6. QED
    BY <2>5
<1>3. S = Nat
  <2> HIDE DEF S
  <2>1. S \in SUBSET Nat
    BY DEF S
  <2>2. QED
    BY <1>1, <1>2, <2>1, NumberInduction
<1>4. QED
  BY <1>3

\* w is a list of the slots of the first m buckets, each once.
Lists(w, m, k, q) ==
  /\ w \in Seq(Slots)
  /\ \A i, j \in 1 .. Len(w) : w[i] = w[j] => i = j
  /\ \A i \in 1 .. Len(w) : \E b \in 1 .. m : \E j \in 1 .. k[b] : w[i] = q[b][j - 1]
  /\ \A b \in 1 .. m : \A j \in 1 .. k[b] : \E i \in 1 .. Len(w) : w[i] = q[b][j - 1]

\* Slots of different chains, or at different places of one, are different.
LEMMA SlotsDiffer ==
  ASSUME NEW k, NEW q, Linked(link, k, q), NEW b \in 1 .. Cap, NEW c \in 1 .. Cap,
         NEW i \in 1 .. k[b], NEW j \in 1 .. k[c], q[b][i - 1] = q[c][j - 1]
  PROVE  b = c /\ i = j
<1>1. q[b][i] = q[c][j] /\ Hash[q[b][i]] = b /\ Hash[q[c][j]] = c
  BY DEF Linked
<1>2. b = c
  BY <1>1
<1>3. QED
  BY <1>1, <1>2 DEF Linked

LEMMA ListsGrow ==
  ASSUME NEW k, NEW q, Linked(link, k, q), NEW m \in Nat, m + 1 <= Cap, NEW w, Lists(w, m, k, q)
  PROVE  Lists(w \o Occupied(m + 1), m + 1, k, q)
<1> DEFINE b == m + 1
<1>1. b \in 1 .. Cap /\ k[b] \in Nat /\ \A c \in 1 .. m : c \in 1 .. Cap /\ k[c] \in Nat
  BY HashTableAssumption DEF Linked
<1>2. PICK o \in Seq(Slots) : /\ o = Occupied(b) /\ Len(o) = k[b]
                              /\ \A i \in 1 .. k[b] : o[i] = q[b][i - 1]
  <2>1. /\ Occupied(b) \in Seq(Slots) /\ Len(Occupied(b)) = k[b]
        /\ \A i \in 1 .. k[b] : Occupied(b)[i] = q[b][i - 1]
    BY <1>1, OccupiedIs
  <2>2. QED
    BY <2>1
<1>3. w \in Seq(Slots)
  BY DEF Lists
<1>4. PICK n \in Nat : n = Len(w)
  BY <1>3, LenProperties
<1>5. PICK d \in Nat : d = k[b]
  BY <1>1
<1>6. PICK x \in Seq(Slots) : /\ x = w \o o /\ Len(x) = n + d
                              /\ \A i \in 1 .. (n + d) : x[i] = IF i <= n THEN w[i] ELSE o[i - n]
  <2>1. /\ w \o o \in Seq(Slots) /\ Len(w \o o) = Len(w) + Len(o)
        /\ \A i \in 1 .. (Len(w) + Len(o)) : (w \o o)[i] = IF i <= Len(w) THEN w[i] ELSE o[i - Len(w)]
    BY <1>2, <1>3, ConcatProperties
  <2>2. QED
    BY <1>2, <1>4, <1>5, <2>1
<1>7. \A i \in 1 .. n : i \in 1 .. (n + d) /\ x[i] = w[i]
  BY <1>6
<1>8. \A i \in 1 .. d : n + i \in 1 .. (n + d) /\ x[n + i] = q[b][i - 1]
  <2> SUFFICES ASSUME NEW i \in 1 .. d PROVE n + i \in 1 .. (n + d) /\ x[n + i] = q[b][i - 1]
    OBVIOUS
  <2>1. n + i \in 1 .. (n + d) /\ ~(n + i <= n) /\ (n + i) - n = i
    OBVIOUS
  <2>2. QED
    BY <1>2, <1>5, <1>6, <2>1
<1>9. \A i \in 1 .. (n + d) : i \in 1 .. n \/ \E j \in 1 .. d : i = n + j
  <2> SUFFICES ASSUME NEW i \in 1 .. (n + d), i \notin 1 .. n PROVE \E j \in 1 .. d : i = n + j
    OBVIOUS
  <2>1. i - n \in 1 .. d /\ i = n + (i - n)
    OBVIOUS
  <2>2. QED
    BY <2>1
<1>10. /\ \A i, j \in 1 .. n : w[i] = w[j] => i = j
       /\ \A i \in 1 .. n : \E c \in 1 .. m : \E j \in 1 .. k[c] : w[i] = q[c][j - 1]
       /\ \A c \in 1 .. m : \A j \in 1 .. k[c] : \E i \in 1 .. n : w[i] = q[c][j - 1]
  BY <1>4 DEF Lists
<1>11. \A c \in 1 .. b : c \in 1 .. m \/ c = b
  OBVIOUS
<1> HIDE DEF b
<1>12. \A c \in 1 .. m : c # b
  BY DEF b
<1>13. \A i \in 1 .. n, j \in 1 .. d : w[i] # q[b][j - 1]
  <2> SUFFICES ASSUME NEW i \in 1 .. n, NEW j \in 1 .. d, w[i] = q[b][j - 1] PROVE FALSE
    OBVIOUS
  <2>0. PICK c \in 1 .. m : \E a \in 1 .. k[c] : w[i] = q[c][a - 1]
    BY <1>10
  <2>1. PICK a \in 1 .. k[c] : w[i] = q[c][a - 1]
    BY <2>0
  <2>2. c \in 1 .. Cap /\ c # b /\ j \in 1 .. k[b] /\ q[c][a - 1] = q[b][j - 1]
    BY <1>1, <1>5, <1>12, <2>1
  <2>3. c = b
    BY <1>1, <2>2, SlotsDiffer
  <2>4. QED
    BY <2>2, <2>3
<1>14. \A i, j \in 1 .. d : q[b][i - 1] = q[b][j - 1] => i = j
  BY <1>1, <1>5, SlotsDiffer
<1>15. \A i, j \in 1 .. (n + d) : x[i] = x[j] => i = j
  <2> SUFFICES ASSUME NEW i \in 1 .. (n + d), NEW j \in 1 .. (n + d), x[i] = x[j] PROVE i = j
    OBVIOUS
  <2>1. CASE i \in 1 .. n /\ j \in 1 .. n
    BY <1>7, <1>10, <2>1
  <2>2. CASE i \in 1 .. n /\ j \notin 1 .. n
    <3>1. PICK j2 \in 1 .. d : j = n + j2
      BY <1>9, <2>2
    <3>2. w[i] = q[b][j2 - 1]
      BY <1>7, <1>8, <2>2, <3>1
    <3>3. QED
      BY <1>13, <2>2, <3>2
  <2>3. CASE i \notin 1 .. n /\ j \in 1 .. n
    <3>1. PICK i2 \in 1 .. d : i = n + i2
      BY <1>9, <2>3
    <3>2. w[j] = q[b][i2 - 1]
      BY <1>7, <1>8, <2>3, <3>1
    <3>3. QED
      BY <1>13, <2>3, <3>2
  <2>4. CASE i \notin 1 .. n /\ j \notin 1 .. n
    <3>1. PICK i2 \in 1 .. d, j2 \in 1 .. d : i = n + i2 /\ j = n + j2
      BY <1>9, <2>4
    <3>2. QED
      BY <1>8, <1>14, <3>1
  <2>5. QED
    BY <2>1, <2>2, <2>3, <2>4
<1>16. \A i \in 1 .. (n + d) : \E c \in 1 .. b : \E j \in 1 .. k[c] : x[i] = q[c][j - 1]
  <2> SUFFICES ASSUME NEW i \in 1 .. (n + d)
               PROVE  \E c \in 1 .. b : \E j \in 1 .. k[c] : x[i] = q[c][j - 1]
    OBVIOUS
  <2>1. b \in 1 .. b /\ 1 .. m \subseteq 1 .. b
    BY DEF b
  <2>2. CASE i \in 1 .. n
    BY <1>7, <1>10, <2>1, <2>2
  <2>3. CASE i \notin 1 .. n
    <3>1. PICK i2 \in 1 .. d : i = n + i2
      BY <1>9, <2>3
    <3>2. x[i] = q[b][i2 - 1] /\ i2 \in 1 .. k[b]
      BY <1>5, <1>8, <3>1
    <3>3. QED
      BY <2>1, <3>2
  <2>4. QED
    BY <2>2, <2>3
<1>17. \A c \in 1 .. b : \A j \in 1 .. k[c] : \E i \in 1 .. (n + d) : x[i] = q[c][j - 1]
  <2> SUFFICES ASSUME NEW c \in 1 .. b, NEW j \in 1 .. k[c]
               PROVE  \E i \in 1 .. (n + d) : x[i] = q[c][j - 1]
    OBVIOUS
  <2>1. CASE c \in 1 .. m
    <3>1. PICK i \in 1 .. n : w[i] = q[c][j - 1]
      BY <1>10, <2>1
    <3>2. i \in 1 .. (n + d) /\ x[i] = w[i]
      BY <1>7
    <3>3. QED
      BY <3>1, <3>2
  <2>2. CASE c = b
    BY <1>5, <1>8, <2>2
  <2>3. QED
    BY <1>11, <2>1, <2>2
<1>18. Lists(x, b, k, q)
  BY ONLY x \in Seq(Slots), <1>6, <1>15, <1>16, <1>17 DEF Lists
<1>19. QED
  BY ONLY <1>2, <1>6, <1>18 DEF b

\* What the walk over all buckets finds.
LEMMA AllOccupiedIs ==
  ASSUME NEW k, NEW q, Linked(link, k, q)
  PROVE  Lists(AllOccupied, Cap, k, q)
<1>1. Cap \in Nat
  BY HashTableAssumption
<1> DEFINE g == CHOOSE h : h = [b \in 0 .. Cap |-> IF b = 0 THEN <<>> ELSE h[b - 1] \o Occupied(b)]
<1>2. g = [b \in 0 .. Cap |-> IF b = 0 THEN <<>> ELSE g[b - 1] \o Occupied(b)]
  <2>1. \E h : h = [b \in 0 .. Cap |-> IF b = 0 THEN <<>> ELSE h[b - 1] \o Occupied(b)]
    <3>1. \E h : Upto(h, Cap)
      BY <1>1, UptoExists
    <3>2. QED
      BY <3>1 DEF Upto
  <2>2. QED
    BY <2>1
<1>3. AllOccupied = g[Cap]
  BY DEF AllOccupied
<1> HIDE DEF g
<1>4. \A b \in 0 .. Cap : g[b] = IF b = 0 THEN <<>> ELSE g[b - 1] \o Occupied(b)
  BY <1>2
<1> DEFINE S == {b \in Nat : b <= Cap => Lists(g[b], b, k, q)}
<1>5. 0 \in S
  <2>1. g[0] = <<>> /\ g[0] \in Seq(Slots) /\ Len(g[0]) = 0
    <3>1. 0 \in 0 .. Cap
      BY <1>1
    <3>2. g[0] = <<>>
      BY <1>4, <3>1
    <3>3. QED
      BY <3>2, EmptySeq
  <2>2. Lists(g[0], 0, k, q)
    BY <2>1 DEF Lists
  <2>3. QED
    BY <2>2
<1>6. ASSUME NEW b \in S PROVE b + 1 \in S
  <2>1. b \in Nat /\ (b <= Cap => Lists(g[b], b, k, q))
    OBVIOUS
  <2> SUFFICES ASSUME b + 1 <= Cap PROVE Lists(g[b + 1], b + 1, k, q)
    OBVIOUS
  <2> HIDE DEF S
  <2>2. b <= Cap /\ b + 1 \in 0 .. Cap /\ b + 1 # 0 /\ (b + 1) - 1 = b
    BY <1>1, <2>1
  <2>3. g[b + 1] = g[b] \o Occupied(b + 1)
    BY <1>4, <2>2
  <2>4. Lists(g[b] \o Occupied(b + 1), b + 1, k, q)
    BY <2>1, <2>2, ListsGrow
  <2>5. QED
    BY <2>3, <2>4
<1>7. S = Nat
  <2> HIDE DEF S
  <2>1. S \in SUBSET Nat
    BY DEF S
  <2>2. QED
    BY <1>5, <1>6, <2>1, NumberInduction
<1>8. Lists(g[Cap], Cap, k, q)
  <2> HIDE DEF S
  <2>1. Cap \in S
    BY <1>1, <1>7
  <2>2. Cap <= Cap => Lists(g[Cap], Cap, k, q)
    BY <2>1 DEF S
  <2>3. QED
    BY <1>1, <2>2
<1>9. QED
  BY <1>3, <1>8

\* The nodes that a walk over all buckets meets are those in the chains, and it
\* meets each once.
LEMMA ChainedIs ==
  ASSUME NEW k, NEW q, Linked(link, k, q)
  PROVE  /\ Chained = InChains(k, q)
         /\ ToSet(AllOccupied) = InSlots(k, q)
         /\ Len(AllOccupied) = Cardinality(Chained)
         /\ AllOccupied \in Seq(Slots)
<1>1. PICK w \in Seq(Slots) : w = AllOccupied /\ Lists(w, Cap, k, q)
  <2>1. Lists(AllOccupied, Cap, k, q)
    BY AllOccupiedIs
  <2>2. AllOccupied \in Seq(Slots)
    BY <2>1 DEF Lists
  <2>3. QED
    BY <2>1, <2>2
<1>2. PICK n \in Nat : n = Len(w)
  BY <1>1, LenProperties
<1>3. /\ \A i, j \in 1 .. n : w[i] = w[j] => i = j
      /\ \A i \in 1 .. n : \E b \in 1 .. Cap : \E j \in 1 .. k[b] : w[i] = q[b][j - 1]
      /\ \A b \in 1 .. Cap : \A j \in 1 .. k[b] : \E i \in 1 .. n : w[i] = q[b][j - 1]
  BY <1>1, <1>2 DEF Lists
<1>4. DOMAIN w = 1 .. n /\ \A i \in 1 .. n : w[i] \in Slots
  BY <1>1, <1>2, LenProperties, ElementOfSeq
<1>5. ToSet(w) = InSlots(k, q)
  <2>1. ToSet(w) = {w[i] : i \in 1 .. n}
    BY <1>4 DEF ToSet
  <2>2. ASSUME NEW i \in 1 .. n PROVE w[i] \in InSlots(k, q)
    BY <1>3, <1>4 DEF InSlots
  <2>3. ASSUME NEW s \in InSlots(k, q) PROVE \E i \in 1 .. n : s = w[i]
    <3>1. PICK b \in 1 .. Cap : \E j \in 1 .. k[b] : s = q[b][j - 1]
      BY DEF InSlots
    <3>2. PICK j \in 1 .. k[b] : s = q[b][j - 1]
      BY <3>1
    <3>3. \E i \in 1 .. n : w[i] = q[b][j - 1]
      BY <1>3
    <3>4. QED
      BY <3>2, <3>3
  <2>4. QED
    BY <2>1, <2>2, <2>3
<1>6. \A b \in 1 .. Cap : \A j \in 1 .. k[b] :
        /\ link[q[b][j - 1]] = q[b][j] /\ q[b][j] \in Nodes /\ Hash[q[b][j]] = b
  BY DEF Linked
<1>7. \A n2 \in Nodes : Hash[n2] \in 1 .. Cap
  BY HashTableAssumption
<1>8. Chained = {link[w[i]] : i \in 1 .. n}
  BY <1>1, <1>4 DEF Chained, ToSet
<1>9. Chained = InChains(k, q)
  <2>1. ASSUME NEW i \in 1 .. n PROVE link[w[i]] \in InChains(k, q)
    <3>0. PICK b \in 1 .. Cap : \E j \in 1 .. k[b] : w[i] = q[b][j - 1]
      BY <1>3
    <3>1. PICK j \in 1 .. k[b] : w[i] = q[b][j - 1]
      BY <3>0
    <3>2. link[w[i]] = q[b][j] /\ q[b][j] \in Nodes /\ Hash[q[b][j]] = b
      BY <1>6, <3>1
    <3>3. QED
      BY <3>2 DEF InChains
  <2>2. ASSUME NEW n2 \in InChains(k, q) PROVE \E i \in 1 .. n : n2 = link[w[i]]
    <3>1. PICK j \in 1 .. k[Hash[n2]] : q[Hash[n2]][j] = n2
      BY DEF InChains
    <3>2. Hash[n2] \in 1 .. Cap
      BY <1>7 DEF InChains
    <3>3. PICK i \in 1 .. n : w[i] = q[Hash[n2]][j - 1]
      BY <1>3, <3>2
    <3>4. link[w[i]] = n2
      BY <1>6, <3>1, <3>2, <3>3
    <3>5. QED
      BY <3>4
  <2>3. QED
    BY <1>8, <2>1, <2>2
<1>10. Cardinality(Chained) = n
  <2> DEFINE f == [i \in 1 .. n |-> link[w[i]]]
  <2>1. ASSUME NEW i \in 1 .. n, NEW j \in 1 .. n, link[w[i]] = link[w[j]] PROVE i = j
    <3>b. PICK b \in 1 .. Cap : \E i2 \in 1 .. k[b] : w[i] = q[b][i2 - 1]
      BY <1>3
    <3>1. PICK i2 \in 1 .. k[b] : w[i] = q[b][i2 - 1]
      BY <3>b
    <3>c. PICK c \in 1 .. Cap : \E j2 \in 1 .. k[c] : w[j] = q[c][j2 - 1]
      BY <1>3
    <3>2. PICK j2 \in 1 .. k[c] : w[j] = q[c][j2 - 1]
      BY <3>c
    <3>3. q[b][i2] = q[c][j2] /\ b = c
      BY <1>6, <2>1, <3>1, <3>2
    <3>4. i2 = j2
      BY <3>3 DEF Linked
    <3>5. QED
      BY <1>3, <3>1, <3>2, <3>3, <3>4
  <2>2. f \in Bijection(1 .. n, Chained)
    BY <1>8, <2>1 DEF Bijection, Injection, Surjection, IsInjective
  <2>3. IsFiniteSet(1 .. n) /\ Cardinality(1 .. n) = n
    BY FS_Interval
  <2>4. ExistsBijection(1 .. n, Chained)
    <3> HIDE DEF f
    <3>1. QED
      BY <2>2 DEF ExistsBijection
  <2>5. Cardinality(Chained) = Cardinality(1 .. n)
    BY <2>3, <2>4, FS_Bijection
  <2>6. QED
    BY <2>3, <2>5
<1>11. QED
  BY <1>1, <1>2, <1>5, <1>9, <1>10
-----------------------------------------------------------------------------
\* The table is made of chains.
IsWhole == \E k, q : Linked(link, k, q)

LinkType == link \in [Slots -> Nodes \cup {Null}]

LEMMA WholeIs ==
  ASSUME IsWhole
  PROVE  /\ Len(AllOccupied) = Cardinality(Chained)
         /\ AllOccupied \in Seq(Slots)
         /\ Chained \subseteq Nodes
         /\ \A s \in ToSet(AllOccupied) : s \in Slots /\ link[s] \in Chained
         /\ \A b \in 1 .. Cap : Occupied(b) \in Seq(Slots)
         /\ \A b \in 1 .. Cap : \A s \in ToSet(Occupied(b)) : Hash[link[s]] = b
<1>1. PICK k, q : Linked(link, k, q)
  BY DEF IsWhole
<1>2. /\ Chained = InChains(k, q) /\ ToSet(AllOccupied) = InSlots(k, q)
      /\ Len(AllOccupied) = Cardinality(Chained) /\ AllOccupied \in Seq(Slots)
  BY <1>1, ChainedIs
<1>3. Chained \subseteq Nodes
  BY <1>2 DEF InChains
<1>4. \A b \in 1 .. Cap : \A j \in 1 .. k[b] :
        /\ link[q[b][j - 1]] = q[b][j] /\ q[b][j] \in Nodes /\ Hash[q[b][j]] = b
  BY <1>1 DEF Linked
<1>5. ASSUME NEW s \in ToSet(AllOccupied) PROVE s \in Slots /\ link[s] \in Chained
  <2>1. s \in InSlots(k, q)
    BY <1>2
  <2>2. PICK b \in 1 .. Cap : \E j \in 1 .. k[b] : s = q[b][j - 1]
    BY <2>1 DEF InSlots
  <2>3. PICK j \in 1 .. k[b] : s = q[b][j - 1]
    BY <2>2
  <2>4. link[s] = q[b][j] /\ q[b][j] \in Nodes /\ Hash[q[b][j]] = b
    BY <1>4, <2>3
  <2>5. link[s] \in InChains(k, q)
    BY <2>4 DEF InChains
  <2>6. QED
    BY <1>2, <2>1, <2>5 DEF InSlots
<1>6. ASSUME NEW b \in 1 .. Cap
      PROVE  Occupied(b) \in Seq(Slots) /\ \A s \in ToSet(Occupied(b)) : Hash[link[s]] = b
  <2>1. /\ Occupied(b) \in Seq(Slots) /\ Len(Occupied(b)) = k[b]
        /\ \A i \in 1 .. k[b] : Occupied(b)[i] = q[b][i - 1]
    BY <1>1, OccupiedIs
  <2>2. DOMAIN Occupied(b) = 1 .. k[b]
    BY <2>1, LenProperties
  <2>3. \A s \in ToSet(Occupied(b)) : \E i \in 1 .. k[b] : s = q[b][i - 1]
    BY <2>1, <2>2 DEF ToSet
  <2>4. QED
    BY <1>4, <2>1, <2>3
<1>7. QED
  BY <1>2, <1>3, <1>5, <1>6

\* ChainedIs as one formula, of a state and so of the next.
LEMMA ChainsOfState ==
  \A k, q : Linked(link, k, q) =>
    Chained = InChains(k, q) /\ ToSet(AllOccupied) = InSlots(k, q)
BY ChainedIs

LEMMA ChainsOfNextState ==
  \A k, q : Linked(link', k, q) =>
    Chained' = InChains(k, q) /\ ToSet(AllOccupied)' = InSlots(k, q)
<1>1. (\A k, q : Linked(link, k, q) =>
         Chained = InChains(k, q) /\ ToSet(AllOccupied) = InSlots(k, q))'
  BY ChainsOfState, PTL
<1>2. QED
  BY <1>1

\* htable_create: all chains are empty.
LEMMA EmptyTable == TableInit => IsWhole /\ LinkType /\ Chained = {}
<1> SUFFICES ASSUME TableInit PROVE IsWhole /\ LinkType /\ Chained = {}
  OBVIOUS
<1> DEFINE k == [b \in 1 .. Cap |-> 0]
           q == [b \in 1 .. Cap |-> [i \in Nat |-> b]]
<1>1. link = [s \in Slots |-> Null] /\ \A b \in 1 .. Cap : b \in Slots
  BY DEF TableInit, Slots
<1>2. Linked(link, k, q)
  BY <1>1 DEF Linked
<1>3. InChains(k, q) = {}
  BY HashTableAssumption DEF InChains
<1>4. QED
  BY <1>1, <1>2, <1>3, ChainsOfState DEF IsWhole, LinkType

\* The `next` of a node that is in no chain is set.
LEMMA LooseNode ==
  ASSUME IsWhole, LinkType, NEW n \in Nodes, n \notin Chained,
         NEW v \in Nodes \cup {Null}, link' = [link EXCEPT ![n] = v]
  PROVE  /\ IsWhole' /\ LinkType' /\ Chained' = Chained
         /\ ToSet(AllOccupied)' = ToSet(AllOccupied)
<1>1. PICK k, q : Linked(link, k, q)
  BY DEF IsWhole
<1>2. n \notin InChains(k, q)
  BY <1>1, ChainsOfState
<1>3. k \in [1 .. Cap -> Nat] /\ q \in [1 .. Cap -> [Nat -> Slots]]
  BY <1>1 DEF Linked
<1>4. \A s \in Slots : s # n => link'[s] = link[s]
  BY DEF LinkType
<1>5. ASSUME NEW b \in 1 .. Cap, NEW i \in 0 .. k[b] PROVE q[b][i] \in Slots /\ q[b][i] # n
  <2>1. k[b] \in Nat /\ q[b] \in [Nat -> Slots] /\ i \in Nat
    BY <1>3
  <2>2. CASE i = 0
    <3>1. q[b][0] = b
      BY <1>1 DEF Linked
    <3>2. b # n
      BY HashTableAssumption
    <3>3. QED
      BY <2>1, <2>2, <3>1, <3>2
  <2>3. CASE i # 0
    <3>1. i \in 1 .. k[b]
      BY <2>1, <2>3
    <3>2. q[b][i] \in Nodes /\ Hash[q[b][i]] = b
      BY <1>1, <3>1 DEF Linked
    <3>3. QED
      BY <1>2, <2>1, <3>1, <3>2 DEF InChains
  <2>4. QED
    BY <2>2, <2>3
<1>6. \A b \in 1 .. Cap : link'[q[b][k[b]]] = Null
  <2> SUFFICES ASSUME NEW b \in 1 .. Cap PROVE link'[q[b][k[b]]] = Null
    OBVIOUS
  <2>1. k[b] \in 0 .. k[b]
    BY <1>3
  <2>2. QED
    BY <1>1, <1>4, <1>5, <2>1 DEF Linked
<1>7. \A b \in 1 .. Cap : \A i \in 1 .. k[b] : link'[q[b][i - 1]] = q[b][i]
  <2> SUFFICES ASSUME NEW b \in 1 .. Cap, NEW i \in 1 .. k[b] PROVE link'[q[b][i - 1]] = q[b][i]
    OBVIOUS
  <2>1. i - 1 \in 0 .. k[b]
    BY <1>3
  <2>2. link[q[b][i - 1]] = q[b][i]
    BY <1>1 DEF Linked
  <2>3. QED
    BY <1>4, <1>5, <2>1, <2>2
<1>8. Linked(link', k, q)
  BY <1>1, <1>6, <1>7 DEF Linked
<1>9. IsWhole'
  BY <1>8 DEF IsWhole
<1>10. LinkType'
  BY DEF LinkType
<1>11. QED
  BY <1>1, <1>8, <1>9, <1>10, ChainsOfState, ChainsOfNextState

\* A node whose `next` is the first of its bucket becomes the first.
LEMMA NewHead ==
  ASSUME IsWhole, LinkType, NEW n \in Nodes, n \notin Chained,
         link[n] = link[Hash[n]], link' = [link EXCEPT ![Hash[n]] = n]
  PROVE  IsWhole' /\ LinkType' /\ Chained' = Chained \cup {n}
<1>1. PICK k, q : Linked(link, k, q)
  BY DEF IsWhole
<1>2. n \notin InChains(k, q) /\ Chained = InChains(k, q)
  BY <1>1, ChainsOfState
<1>3. k \in [1 .. Cap -> Nat] /\ q \in [1 .. Cap -> [Nat -> Slots]]
  BY <1>1 DEF Linked
<1>4. PICK h \in 1 .. Cap : h = Hash[n]
  BY HashTableAssumption
<1>5. h \in Slots /\ n \in Slots /\ h # n /\ h \notin Nodes
  BY HashTableAssumption DEF Slots
<1>6. link'[h] = n /\ \A s \in Slots : s # h => link'[s] = link[s]
  BY <1>4, <1>5 DEF LinkType
<1> DEFINE k2 == [k EXCEPT ![h] = @ + 1]
           new == [i \in Nat |-> IF i = 0 THEN h ELSE IF i = 1 THEN n ELSE q[h][i - 1]]
           q2 == [q EXCEPT ![h] = new]
<1>7. new \in [Nat -> Slots]
  BY <1>3, <1>5
<1>8. /\ k2 \in [1 .. Cap -> Nat] /\ q2 \in [1 .. Cap -> [Nat -> Slots]]
      /\ k2[h] = k[h] + 1 /\ q2[h] = new
      /\ \A b \in 1 .. Cap : b # h => k2[b] = k[b] /\ q2[b] = q[b]
  <2> HIDE DEF new
  <2>1. QED
    BY <1>3, <1>7
<1>9. /\ new[0] = h /\ new[1] = n /\ \A i \in Nat : i > 1 => new[i] = q[h][i - 1]
  OBVIOUS
<1> HIDE DEF k2, new, q2
<1>10. PICK d \in Nat : d = k[h]
  BY <1>3
\* In the old chains: the nodes, and that none of them is n.
<1>11. \A b \in 1 .. Cap :
         /\ q[b][0] = b /\ link[q[b][k[b]]] = Null
         /\ \A i \in 1 .. k[b] : q[b][i] \in Nodes /\ Hash[q[b][i]] = b /\ link[q[b][i - 1]] = q[b][i]
         /\ \A i, j \in 1 .. k[b] : q[b][i] = q[b][j] => i = j
  BY <1>1 DEF Linked
<1>12. \A b \in 1 .. Cap : \A i \in 1 .. k[b] : q[b][i] # n /\ q[b][i] # h /\ q[b][i] \in Slots
  <2> SUFFICES ASSUME NEW b \in 1 .. Cap, NEW i \in 1 .. k[b]
               PROVE  q[b][i] # n /\ q[b][i] # h /\ q[b][i] \in Slots
    OBVIOUS
  <2>1. q[b][i] \in Nodes /\ Hash[q[b][i]] = b
    BY <1>11
  <2>2. QED
    BY <1>2, <1>5, <2>1 DEF InChains, Slots
<1>13. link[h] = IF d = 0 THEN Null ELSE q[h][1]
  <2>1. CASE d = 0
    <3>1. link[q[h][k[h]]] = Null /\ q[h][0] = h
      BY <1>11
    <3>2. QED
      BY <1>10, <2>1, <3>1
  <2>2. CASE d # 0
    <3>1. 1 \in 1 .. k[h] /\ 1 - 1 = 0
      BY <1>10, <2>2
    <3>2. link[q[h][1 - 1]] = q[h][1] /\ q[h][0] = h
      BY <1>11, <3>1
    <3>3. QED
      BY <2>2, <3>1, <3>2
  <2>3. QED
    BY <2>1, <2>2
<1>14. link'[n] = link[h]
  BY <1>4, <1>5, <1>6
<1>15. \A i \in 1 .. (d + 1) : new[i] = IF i = 1 THEN n ELSE q[h][i - 1]
  BY <1>9
<1>16. \A i \in 1 .. (d + 1) : i # 1 => i - 1 \in 1 .. k[h]
  BY <1>10
\* The new chain.
<1>17. /\ \A i \in 1 .. (d + 1) : new[i] \in Nodes /\ Hash[new[i]] = h
       /\ \A i, j \in 1 .. (d + 1) : new[i] = new[j] => i = j
  <2>1. ASSUME NEW i \in 1 .. (d + 1) PROVE new[i] \in Nodes /\ Hash[new[i]] = h
    BY <1>4, <1>11, <1>15, <1>16
  <2>2. ASSUME NEW i \in 1 .. (d + 1), NEW j \in 1 .. (d + 1), new[i] = new[j] PROVE i = j
    <3>1. CASE i = 1 \/ j = 1
      BY <1>12, <1>15, <1>16, <2>2, <3>1
    <3>2. CASE i # 1 /\ j # 1
      <4>1. q[h][i - 1] = q[h][j - 1] /\ i - 1 \in 1 .. k[h] /\ j - 1 \in 1 .. k[h]
        BY <1>15, <1>16, <2>2, <3>2
      <4>2. i - 1 = j - 1
        BY <1>11, <4>1
      <4>3. QED
        BY <4>2
    <3>3. QED
      BY <3>1, <3>2
  <2>3. QED
    BY <2>1, <2>2
<1>18. ASSUME NEW i \in 1 .. (d + 1) PROVE link'[new[i - 1]] = new[i]
  <2>1. CASE i = 1
    BY <1>6, <1>9, <2>1
  <2>2. CASE i = 2
    <3>1. d # 0 /\ i - 1 = 1
      BY <2>2
    <3>2. QED
      BY <1>9, <1>13, <1>14, <1>15, <2>2, <3>1
  <2>3. CASE i > 2
    <3>1. i - 1 \in 1 .. (d + 1) /\ i - 1 # 1 /\ (i - 1) - 1 \in 1 .. k[h] /\ i - 1 \in 1 .. k[h]
      BY <1>10, <2>3
    <3>2. new[i - 1] = q[h][(i - 1) - 1] /\ new[i] = q[h][i - 1]
      BY <1>15, <2>3, <3>1
    <3>3. link[q[h][(i - 1) - 1]] = q[h][i - 1]
      BY <1>11, <3>1
    <3>4. link'[q[h][(i - 1) - 1]] = link[q[h][(i - 1) - 1]]
      BY <1>6, <1>12, <3>1
    <3>5. QED
      BY <3>2, <3>3, <3>4
  <2>4. QED
    BY <2>1, <2>2, <2>3
<1>19. link'[new[d + 1]] = Null
  <2>1. CASE d = 0
    BY <1>9, <1>13, <1>14, <2>1
  <2>2. CASE d # 0
    <3>1. d + 1 \in 1 .. (d + 1) /\ d + 1 # 1 /\ (d + 1) - 1 = d /\ d \in 1 .. k[h]
      BY <1>10, <2>2
    <3>2. new[d + 1] = q[h][d]
      BY <1>15, <3>1
    <3>3. link'[q[h][d]] = link[q[h][d]] /\ link[q[h][d]] = Null
      BY <1>6, <1>10, <1>11, <1>12, <3>1
    <3>4. QED
      BY <3>2, <3>3
  <2>3. QED
    BY <2>1, <2>2
\* The others.
<1>20. ASSUME NEW b \in 1 .. Cap, b # h
       PROVE  /\ link'[q[b][k[b]]] = Null
              /\ \A i \in 1 .. k[b] : link'[q[b][i - 1]] = q[b][i]
  <2>1. PICK e \in Nat : e = k[b]
    BY <1>3
  <2>2. \A i \in 0 .. e : link'[q[b][i]] = link[q[b][i]]
    <3> SUFFICES ASSUME NEW i \in 0 .. e PROVE link'[q[b][i]] = link[q[b][i]]
      OBVIOUS
    <3>1. CASE i = 0
      <4>1. q[b][0] = b /\ b \in Slots
        BY <1>11 DEF Slots
      <4>2. QED
        BY <1>6, <1>20, <3>1, <4>1
    <3>2. CASE i # 0
      <4>1. i \in 1 .. k[b]
        BY <2>1, <3>2
      <4>2. QED
        BY <1>6, <1>12, <4>1
    <3>3. QED
      BY <3>1, <3>2
  <2>3. e \in 0 .. e /\ \A i \in 1 .. e : i - 1 \in 0 .. e
    BY <2>1
  <2>4. QED
    BY <1>11, <2>1, <2>2, <2>3
<1>21. Linked(link', k2, q2)
  <2>1. ASSUME NEW b \in 1 .. Cap
        PROVE  /\ q2[b][0] = b /\ link'[q2[b][k2[b]]] = Null
               /\ \A i \in 1 .. k2[b] :
                    q2[b][i] \in Nodes /\ Hash[q2[b][i]] = b /\ link'[q2[b][i - 1]] = q2[b][i]
               /\ \A i, j \in 1 .. k2[b] : q2[b][i] = q2[b][j] => i = j
    <3>1. CASE b = h
      BY <1>8, <1>9, <1>10, <1>17, <1>18, <1>19, <3>1
    <3>2. CASE b # h
      BY <1>8, <1>11, <1>20, <3>2
    <3>3. QED
      BY <3>1, <3>2
  <2>2. QED
    BY <1>8, <2>1 DEF Linked
<1>22. InChains(k2, q2) = InChains(k, q) \cup {n}
  <2>1. ASSUME NEW m \in InChains(k2, q2) PROVE m \in InChains(k, q) \cup {n}
    <3>1. m \in Nodes
      BY DEF InChains
    <3>2. PICK i \in 1 .. k2[Hash[m]] : q2[Hash[m]][i] = m
      BY DEF InChains
    <3>3. Hash[m] \in 1 .. Cap
      BY <3>1, HashTableAssumption
    <3>4. CASE Hash[m] = h
      <4>1. i \in 1 .. (d + 1) /\ new[i] = m
        BY <1>8, <1>10, <3>2, <3>4
      <4>2. m = n \/ (i - 1 \in 1 .. k[h] /\ q[h][i - 1] = m)
        BY <1>15, <1>16, <4>1
      <4>3. QED
        BY <3>1, <3>4, <4>2 DEF InChains
    <3>5. CASE Hash[m] # h
      BY <1>8, <3>1, <3>2, <3>3, <3>5 DEF InChains
    <3>6. QED
      BY <3>4, <3>5
  <2>2. n \in InChains(k2, q2)
    <3>1. 1 \in 1 .. k2[h] /\ q2[h][1] = n
      BY <1>8, <1>9, <1>10
    <3>2. QED
      BY <1>4, <3>1 DEF InChains
  <2>3. ASSUME NEW m \in InChains(k, q) PROVE m \in InChains(k2, q2)
    <3>1. m \in Nodes
      BY DEF InChains
    <3>2. PICK i \in 1 .. k[Hash[m]] : q[Hash[m]][i] = m
      BY DEF InChains
    <3>3. Hash[m] \in 1 .. Cap
      BY <3>1, HashTableAssumption
    <3>4. CASE Hash[m] = h
      <4>1. i + 1 \in 1 .. k2[h] /\ i + 1 \in Nat /\ i + 1 > 1 /\ (i + 1) - 1 = i
        BY <1>8, <1>10, <3>2, <3>4
      <4>2. q2[h][i + 1] = m
        BY <1>8, <1>9, <3>2, <3>4, <4>1
      <4>3. QED
        BY <3>1, <3>4, <4>1, <4>2 DEF InChains
    <3>5. CASE Hash[m] # h
      BY <1>8, <3>1, <3>2, <3>3, <3>5 DEF InChains
    <3>6. QED
      BY <3>4, <3>5
  <2>4. QED
    BY <2>1, <2>2, <2>3
<1>23. Chained' = InChains(k2, q2)
  BY <1>21, ChainsOfNextState
<1>24. IsWhole'
  BY <1>21 DEF IsWhole
<1>25. LinkType'
  BY DEF LinkType
<1>26. QED
  BY <1>2, <1>22, <1>23, <1>24, <1>25

\* The node that a slot of a chain points to is taken out: the slot points to
\* what followed.
LEMMA Unlinked ==
  ASSUME IsWhole, LinkType, NEW s \in ToSet(AllOccupied), NEW n, n = link[s],
         link' = [link EXCEPT ![s] = link[n]]
  PROVE  IsWhole' /\ LinkType' /\ n \in Chained /\ Chained' = Chained \ {n}
<1>1. PICK k, q : Linked(link, k, q)
  BY DEF IsWhole
<1>2. s \in InSlots(k, q) /\ Chained = InChains(k, q)
  BY <1>1, ChainsOfState
<1>3. k \in [1 .. Cap -> Nat] /\ q \in [1 .. Cap -> [Nat -> Slots]]
  BY <1>1 DEF Linked
<1>4. PICK h \in 1 .. Cap : \E i \in 1 .. k[h] : s = q[h][i - 1]
  BY <1>2 DEF InSlots
<1>5. PICK i \in 1 .. k[h] : s = q[h][i - 1]
  BY <1>4
<1>6. \A b \in 1 .. Cap :
        /\ q[b][0] = b /\ link[q[b][k[b]]] = Null
        /\ \A j \in 1 .. k[b] : q[b][j] \in Nodes /\ Hash[q[b][j]] = b /\ link[q[b][j - 1]] = q[b][j]
        /\ \A j, j2 \in 1 .. k[b] : q[b][j] = q[b][j2] => j = j2
  BY <1>1 DEF Linked
<1>7. n = q[h][i] /\ n \in Nodes /\ Hash[n] = h /\ n # Null /\ s \in Slots
  <2>1. n = q[h][i] /\ n \in Nodes /\ Hash[n] = h
    BY <1>5, <1>6
  <2>2. QED
    BY <1>2, <2>1, HashTableAssumption DEF InSlots
<1>8. link'[s] = link[n] /\ \A x \in Slots : x # s => link'[x] = link[x]
  BY <1>7 DEF LinkType
<1>9. PICK d \in Nat : d = k[h]
  BY <1>3
<1>10. i \in 1 .. d /\ i \in Nat /\ d - 1 \in Nat
  BY <1>9
<1> DEFINE k2 == [k EXCEPT ![h] = d - 1]
           new == [j \in Nat |-> IF j < i THEN q[h][j] ELSE q[h][j + 1]]
           q2 == [q EXCEPT ![h] = new]
<1>11. new \in [Nat -> Slots]
  BY <1>3
<1>12. /\ k2 \in [1 .. Cap -> Nat] /\ q2 \in [1 .. Cap -> [Nat -> Slots]]
       /\ k2[h] = d - 1 /\ q2[h] = new
       /\ \A b \in 1 .. Cap : b # h => k2[b] = k[b] /\ q2[b] = q[b]
  <2> HIDE DEF new
  <2>1. QED
    BY <1>3, <1>10, <1>11
<1>13. \A j \in Nat : new[j] = IF j < i THEN q[h][j] ELSE q[h][j + 1]
  OBVIOUS
<1> HIDE DEF k2, new, q2
\* Every other slot of the walks keeps what it points to.
<1>14. ASSUME NEW b \in 1 .. Cap, NEW e \in Nat, e = k[b], NEW j \in 0 .. e, b # h \/ j # i - 1
       PROVE  link'[q[b][j]] = link[q[b][j]]
  <2>1. q[b][j] \in Slots /\ q[b] \in [Nat -> Slots]
    BY <1>3
  <2>2. q[b][j] # s
    <3>1. CASE j = e
      <4>1. link[q[b][j]] = Null
        BY <1>6, <1>14, <3>1
      <4>2. QED
        BY <1>7, <4>1
    <3>2. CASE j # e
      <4> SUFFICES ASSUME q[b][j] = s PROVE FALSE
        OBVIOUS
      <4>1. j + 1 \in 1 .. k[b] /\ (j + 1) - 1 = j
        BY <1>14, <3>2
      <4>2. q[b][(j + 1) - 1] = q[h][i - 1]
        BY <1>5, <4>1
      <4>3. b = h /\ j + 1 = i
        BY <1>1, <4>1, <4>2, SlotsDiffer
      <4>4. QED
        BY <1>10, <1>14, <4>3
    <3>3. QED
      BY <3>1, <3>2
  <2>3. QED
    BY <1>8, <2>1, <2>2
\* The chain without n.
<1>15. \A j \in 1 .. (d - 1) : j \in 1 .. d /\ j + 1 \in 1 .. d /\ j \in Nat
  OBVIOUS
<1>16. \A j \in 1 .. d : q[h][j] \in Nodes /\ Hash[q[h][j]] = h /\ link[q[h][j - 1]] = q[h][j]
  BY <1>6, <1>9
<1>17. \A j, j2 \in 1 .. d : q[h][j] = q[h][j2] => j = j2
  BY <1>6, <1>9
<1>18. \A j \in 1 .. (d - 1) : new[j] \in Nodes /\ Hash[new[j]] = h
  BY <1>13, <1>15, <1>16
<1>19. \A j, j2 \in 1 .. (d - 1) : new[j] = new[j2] => j = j2
  <2> SUFFICES ASSUME NEW j \in 1 .. (d - 1), NEW j2 \in 1 .. (d - 1), new[j] = new[j2]
               PROVE  j = j2
    OBVIOUS
  <2>1. PICK a \in 1 .. d : new[j] = q[h][a] /\ a = IF j < i THEN j ELSE j + 1
    BY <1>13, <1>15
  <2>2. PICK a2 \in 1 .. d : new[j2] = q[h][a2] /\ a2 = IF j2 < i THEN j2 ELSE j2 + 1
    BY <1>13, <1>15
  <2>3. a = a2
    BY <1>17, <2>1, <2>2
  <2>4. QED
    BY <1>10, <2>1, <2>2, <2>3
<1>20. ASSUME NEW j \in 1 .. (d - 1) PROVE link'[new[j - 1]] = new[j]
  <2>0. j - 1 \in Nat /\ j \in Nat /\ j - 1 \in 0 .. d /\ j \in 0 .. d /\ j + 1 \in 1 .. d /\ j \in 1 .. d
    BY <1>10
  <2>1. CASE j < i
    <3>1. new[j - 1] = q[h][j - 1] /\ new[j] = q[h][j] /\ j - 1 # i - 1
      BY <1>10, <1>13, <2>0, <2>1
    <3>2. link'[q[h][j - 1]] = link[q[h][j - 1]]
      BY <1>9, <1>14, <2>0, <3>1
    <3>3. QED
      BY <1>16, <2>0, <3>1, <3>2
  <2>2. CASE j = i
    <3>1. new[j - 1] = q[h][i - 1] /\ new[j] = q[h][i + 1]
      BY <1>10, <1>13, <2>0, <2>2
    <3>2. link[q[h][(i + 1) - 1]] = q[h][i + 1] /\ (i + 1) - 1 = i
      BY <1>10, <1>16, <2>0, <2>2
    <3>3. QED
      BY <1>5, <1>7, <1>8, <3>1, <3>2
  <2>3. CASE j > i
    <3>1. ~(j - 1 < i) /\ ~(j < i) /\ (j - 1) + 1 = j /\ (j + 1) - 1 = j /\ j # i - 1
      BY <1>10, <2>0, <2>3
    <3>2. new[j - 1] = q[h][j] /\ new[j] = q[h][j + 1]
      BY <1>13, <2>0, <3>1
    <3>3. link'[q[h][j]] = link[q[h][j]]
      BY <1>9, <1>14, <2>0, <3>1
    <3>4. link[q[h][(j + 1) - 1]] = q[h][j + 1]
      BY <1>16, <2>0
    <3>5. QED
      BY <3>1, <3>2, <3>3, <3>4
  <2>4. QED
    BY <1>10, <2>0, <2>1, <2>2, <2>3
<1>21. link'[new[d - 1]] = Null
  <2>0. link[q[h][d]] = Null
    BY <1>6, <1>9
  <2>1. CASE i = d
    <3>1. new[d - 1] = q[h][i - 1]
      BY <1>10, <1>13, <2>1
    <3>2. QED
      BY <1>5, <1>7, <1>8, <2>0, <2>1, <3>1
  <2>2. CASE i # d
    <3>1. ~(d - 1 < i) /\ (d - 1) + 1 = d /\ d # i - 1 /\ d \in 0 .. d
      BY <1>10, <2>2
    <3>2. new[d - 1] = q[h][d]
      BY <1>10, <1>13, <3>1
    <3>3. link'[q[h][d]] = link[q[h][d]]
      BY <1>9, <1>14, <3>1
    <3>4. QED
      BY <2>0, <3>2, <3>3
  <2>3. QED
    BY <2>1, <2>2
<1>22. new[0] = h
  <2>1. q[h][0] = h /\ 0 < i
    BY <1>6, <1>10
  <2>2. QED
    BY <1>13, <2>1
\* The others.
<1>23. ASSUME NEW b \in 1 .. Cap, b # h
       PROVE  /\ link'[q[b][k[b]]] = Null
              /\ \A j \in 1 .. k[b] : link'[q[b][j - 1]] = q[b][j]
  <2>1. PICK e \in Nat : e = k[b]
    BY <1>3
  <2>2. \A j \in 0 .. e : link'[q[b][j]] = link[q[b][j]]
    BY <1>14, <1>23, <2>1
  <2>3. e \in 0 .. e /\ \A j \in 1 .. e : j - 1 \in 0 .. e
    BY <2>1
  <2>4. QED
    BY <1>6, <2>1, <2>2, <2>3
<1>24. Linked(link', k2, q2)
  <2>1. ASSUME NEW b \in 1 .. Cap
        PROVE  /\ q2[b][0] = b /\ link'[q2[b][k2[b]]] = Null
               /\ \A j \in 1 .. k2[b] :
                    q2[b][j] \in Nodes /\ Hash[q2[b][j]] = b /\ link'[q2[b][j - 1]] = q2[b][j]
               /\ \A j, j2 \in 1 .. k2[b] : q2[b][j] = q2[b][j2] => j = j2
    <3>1. CASE b = h
      BY <1>12, <1>18, <1>19, <1>20, <1>21, <1>22, <3>1
    <3>2. CASE b # h
      <4>1. k2[b] = k[b] /\ q2[b] = q[b]
        BY <1>12, <3>2
      <4>2. PICK e, p : e = k[b] /\ p = q[b]
        OBVIOUS
      <4>3. /\ p[0] = b /\ \A j \in 1 .. e : p[j] \in Nodes /\ Hash[p[j]] = b
            /\ \A j, j2 \in 1 .. e : p[j] = p[j2] => j = j2
        BY ONLY b \in 1 .. Cap, <1>6, <4>2
      <4>4. link'[p[e]] = Null /\ \A j \in 1 .. e : link'[p[j - 1]] = p[j]
        BY ONLY b \in 1 .. Cap, <1>23, <3>2, <4>2
      <4>5. k2[b] = e /\ q2[b] = p
        BY <4>1, <4>2
      <4>6. QED
        BY ONLY <4>3, <4>4, <4>5
    <3>3. QED
      BY <3>1, <3>2
  <2>2. QED
    BY <1>12, <2>1 DEF Linked
<1>25. InChains(k2, q2) = InChains(k, q) \ {n}
  <2>1. ASSUME NEW m \in InChains(k2, q2) PROVE m \in InChains(k, q) \ {n}
    <3>1. m \in Nodes
      BY DEF InChains
    <3>2. PICK j \in 1 .. k2[Hash[m]] : q2[Hash[m]][j] = m
      BY DEF InChains
    <3>3. Hash[m] \in 1 .. Cap
      BY <3>1, HashTableAssumption
    <3>4. CASE Hash[m] = h
      <4>1. j \in 1 .. (d - 1) /\ new[j] = m
        BY <1>12, <3>2, <3>4
      <4>2. PICK a \in 1 .. d : m = q[h][a] /\ a = IF j < i THEN j ELSE j + 1
        BY <1>13, <1>15, <4>1
      <4>3. a # i
        BY <1>10, <4>1, <4>2
      <4>4. m # n
        BY <1>7, <1>10, <1>17, <4>2, <4>3
      <4>5. QED
        BY <1>9, <3>1, <3>4, <4>2, <4>4 DEF InChains
    <3>5. CASE Hash[m] # h
      BY <1>7, <1>12, <3>1, <3>2, <3>3, <3>5 DEF InChains
    <3>6. QED
      BY <3>4, <3>5
  <2>2. ASSUME NEW m \in InChains(k, q) \ {n} PROVE m \in InChains(k2, q2)
    <3>1. m \in Nodes /\ m # n
      BY DEF InChains
    <3>2. PICK j \in 1 .. k[Hash[m]] : q[Hash[m]][j] = m
      BY DEF InChains
    <3>3. Hash[m] \in 1 .. Cap
      BY <3>1, HashTableAssumption
    <3>4. CASE Hash[m] = h
      <4>1. j \in 1 .. d /\ q[h][j] = m /\ j # i
        BY <1>7, <1>9, <3>1, <3>2, <3>4
      <4>2. \E a \in 1 .. (d - 1) : new[a] = m
        <5>1. CASE j < i
          <6>1. j \in 1 .. (d - 1) /\ j \in Nat
            BY <1>10, <4>1, <5>1
          <6>2. new[j] = q[h][j]
            BY <1>13, <5>1, <6>1
          <6>3. QED
            BY <4>1, <6>1, <6>2
        <5>2. CASE ~(j < i)
          <6>1. j - 1 \in 1 .. (d - 1) /\ j - 1 \in Nat /\ ~(j - 1 < i) /\ (j - 1) + 1 = j
            BY <1>10, <4>1, <5>2
          <6>2. new[j - 1] = q[h][j]
            BY <1>13, <6>1
          <6>3. QED
            BY <4>1, <6>1, <6>2
        <5>3. QED
          BY <5>1, <5>2
      <4>3. QED
        BY <1>12, <3>1, <3>4, <4>2 DEF InChains
    <3>5. CASE Hash[m] # h
      BY <1>12, <3>1, <3>2, <3>3, <3>5 DEF InChains
    <3>6. QED
      BY <3>4, <3>5
  <2>3. QED
    BY <2>1, <2>2
<1>26. n \in InChains(k, q)
  BY <1>5, <1>7 DEF InChains
<1>27. Chained' = InChains(k2, q2)
  BY <1>24, ChainsOfNextState
<1>28. IsWhole'
  BY <1>24 DEF IsWhole
<1>29. LinkType'
  <2>1. link[n] \in Nodes \cup {Null}
    BY <1>7 DEF LinkType, Slots
  <2>2. QED
    BY <1>7, <2>1 DEF LinkType
<1>30. QED
  BY <1>2, <1>25, <1>26, <1>27, <1>28, <1>29

-----------------------------------------------------------------------------
(***************************************************************************)
(* Counting: where every thread is, and what its step does to the number   *)
(* of those that draw and of those that still have to post.                *)
(***************************************************************************)
\* What a thread may have left of its job, by the call that is next.
ToInsert  == <<"insert", "unlock", "post">>
ToYield   == <<"unlock", "post">>
ToPost    == <<"post">>
ToLock    == <<"wrlock", "random", "delete", "unlock">>
ToDraw    == <<"random", "delete", "unlock">>
ToDelete  == <<"delete", "unlock">>
ToUnlock  == <<"unlock">>
ToLookup  == <<"lookup", "unlock">>
ToForeach == <<"foreach", "unlock">>

LEMMA RestsDiffer ==
  /\ <<>> \notin {ToInsert, ToYield, ToPost, ToLock, ToDraw, ToDelete, ToUnlock, ToLookup, ToForeach}
  /\ ToInsert \notin {ToYield, ToPost, ToLock, ToDraw, ToDelete, ToUnlock, ToLookup, ToForeach}
  /\ ToYield \notin {ToPost, ToLock, ToDraw, ToDelete, ToUnlock, ToLookup, ToForeach}
  /\ ToPost \notin {ToLock, ToDraw, ToDelete, ToUnlock, ToLookup, ToForeach}
  /\ ToLock \notin {ToDraw, ToDelete, ToUnlock, ToLookup, ToForeach}
  /\ ToDraw \notin {ToDelete, ToUnlock, ToLookup, ToForeach}
  /\ ToDelete \notin {ToUnlock, ToLookup, ToForeach}
  /\ ToUnlock \notin {ToLookup, ToForeach}
  /\ ToLookup # ToForeach
BY DEF ToInsert, ToYield, ToPost, ToLock, ToDraw, ToDelete, ToUnlock, ToLookup, ToForeach

LEMMA RestsRun ==
  /\ Head(ToInsert) = "insert" /\ Tail(ToInsert) = ToYield
  /\ Head(ToYield) = "unlock" /\ Tail(ToYield) = ToPost
  /\ Head(ToPost) = "post" /\ Tail(ToPost) = <<>>
  /\ Head(ToLock) = "wrlock" /\ Tail(ToLock) = ToDraw
  /\ Head(ToDraw) = "random" /\ Tail(ToDraw) = ToDelete
  /\ Head(ToDelete) = "delete" /\ Tail(ToDelete) = ToUnlock
  /\ Head(ToUnlock) = "unlock" /\ Tail(ToUnlock) = <<>>
  /\ Head(ToLookup) = "lookup" /\ Tail(ToLookup) = ToUnlock
  /\ Head(ToForeach) = "foreach" /\ Tail(ToForeach) = ToUnlock
BY DEF ToInsert, ToYield, ToPost, ToLock, ToDraw, ToDelete, ToUnlock, ToLookup, ToForeach

\* A job begins with a lock, or with a wait.
LEMMA JobsAre ==
  ASSUME NEW kind \in {"put", "get", "peek"}, NEW calls \in Jobs(kind)
  PROVE  \/ /\ Head(calls) = "rdlock" /\ Tail(calls) = ToInsert
            /\ "insert" \in ToSet(calls)
         \/ /\ Head(calls) \in Waiting /\ Tail(calls) = ToLock
            /\ "insert" \notin ToSet(calls)
         \/ /\ Head(calls) = "try_rdlock" /\ Tail(calls) = ToLookup
            /\ "insert" \notin ToSet(calls) /\ "lookup" \in ToSet(calls)
         \/ /\ Head(calls) = "try_wrlock" /\ Tail(calls) = ToForeach
            /\ "insert" \notin ToSet(calls)
<1>1. CASE kind = "put"
  <2>1. calls = <<"rdlock", "insert", "unlock", "post">>
    BY <1>1 DEF Jobs
  <2>2. ToSet(<<"rdlock", "insert", "unlock", "post">>) = {"rdlock", "insert", "unlock", "post"}
    BY DEF ToSet
  <2>3. QED
    BY <2>1, <2>2 DEF ToInsert
<1>2. CASE kind = "get"
  <2>1. PICK w \in Waiting : calls = <<w, "wrlock", "random", "delete", "unlock">>
    BY <1>2 DEF Jobs
  <2>2. ToSet(<<w, "wrlock", "random", "delete", "unlock">>) = {w, "wrlock", "random", "delete", "unlock"}
    BY DEF ToSet
  <2>3. Tail(calls) = ToLock /\ Head(calls) = w
    BY <2>1 DEF ToLock
  <2>4. "insert" \notin ToSet(calls)
    BY <2>1, <2>2 DEF Waiting
  <2>5. QED
    BY <2>3, <2>4
<1>3. CASE kind = "peek"
  <2>1. \/ calls = <<"try_rdlock", "lookup", "unlock">>
        \/ calls = <<"try_wrlock", "foreach", "unlock">>
    BY <1>3 DEF Jobs
  <2>2. /\ ToSet(<<"try_rdlock", "lookup", "unlock">>) = {"try_rdlock", "lookup", "unlock"}
        /\ ToSet(<<"try_wrlock", "foreach", "unlock">>) = {"try_wrlock", "foreach", "unlock"}
    BY DEF ToSet
  <2>3. /\ Tail(<<"try_rdlock", "lookup", "unlock">>) = ToLookup
        /\ Tail(<<"try_wrlock", "foreach", "unlock">>) = ToForeach
    BY DEF ToLookup, ToForeach
  <2>4. /\ Head(<<"try_rdlock", "lookup", "unlock">>) = "try_rdlock"
        /\ Head(<<"try_wrlock", "foreach", "unlock">>) = "try_wrlock"
    OBVIOUS
  <2>5. CASE calls = <<"try_rdlock", "lookup", "unlock">>
    BY <2>2, <2>3, <2>4, <2>5
  <2>6. CASE calls = <<"try_wrlock", "foreach", "unlock">>
    BY <2>2, <2>3, <2>4, <2>6
  <2>7. QED
    BY <2>1, <2>5, <2>6
<1>4. QED
  BY <1>1, <1>2, <1>3

LEMMA RestsHave ==
  /\ \A j \in {ToLock, ToDraw, ToDelete} : "delete" \in ToSet(j) /\ "post" \notin ToSet(j)
  /\ \A j \in {ToYield, ToPost} :
       "post" \in ToSet(j) /\ "insert" \notin ToSet(j) /\ "delete" \notin ToSet(j)
  /\ "insert" \in ToSet(ToInsert) /\ "delete" \notin ToSet(ToInsert)
  /\ \A j \in {<<>>, ToUnlock, ToLookup, ToForeach} : "delete" \notin ToSet(j) /\ "post" \notin ToSet(j)
<1>1. /\ ToSet(ToInsert) = {"insert", "unlock", "post"}
      /\ ToSet(ToYield) = {"unlock", "post"}
      /\ ToSet(ToPost) = {"post"}
  BY DEF ToSet, ToInsert, ToYield, ToPost
<1>2. /\ ToSet(ToLock) = {"wrlock", "random", "delete", "unlock"}
      /\ ToSet(ToDraw) = {"random", "delete", "unlock"}
      /\ ToSet(ToDelete) = {"delete", "unlock"}
  BY DEF ToSet, ToLock, ToDraw, ToDelete
<1>3. /\ ToSet(ToUnlock) = {"unlock"} /\ ToSet(<<>>) = {}
      /\ ToSet(ToLookup) = {"lookup", "unlock"}
      /\ ToSet(ToForeach) = {"foreach", "unlock"}
  BY DEF ToSet, ToUnlock, ToLookup, ToForeach
<1>4. QED
  BY <1>1, <1>2, <1>3

-----------------------------------------------------------------------------
Returning == {"unlock", "release_exclusive", "release_shared"}
InWaits   == {"wait_in", "try_wait_in", "timed_wait_in", "leave", "leave_empty"}

\* Where a thread can be: what is left of its job, its place in a call of the
\* locks, its call of the table, what its last call returned, and whether it
\* reads or writes.
InPlace(j, s, op, g, r, w) ==
  \/ j = <<>> /\ op = "none" /\ s \in {"none", "post", "post_in", "leave"} \cup Returning
  \/ j = ToPost /\ op = "none" /\ s \in {"none"} \cup Returning /\ (s = "none" => g)
  \/ j = ToYield /\ op \in {"insert", "none"} /\ s = "none" /\ g /\ r
  \/ j = ToInsert /\ op = "none" /\ s \in {"none", "rdlock"} /\ (s = "none" => g /\ r)
  \/ j = ToLock /\ op = "none" /\ s \in {"none"} \cup Waiting \cup InWaits
  \/ j = ToDraw /\ op = "none" /\ s \in {"none", "wrlock", "set_flag"} /\ (s = "none" => g /\ w)
  \/ j = ToDelete /\ op \in {"random", "none"} /\ s = "none" /\ g /\ w
  \/ /\ j = ToUnlock /\ op \in {"delete", "lookup", "foreach", "none"} /\ s = "none" /\ g
     /\ op = "delete" => w
  \/ j = ToLookup /\ op = "none" /\ s \in {"none", "try_rdlock"}
  \/ j = ToForeach /\ op = "none" /\ s \in {"none", "try_wrlock", "set_flag"}

Place(t) == InPlace(job[t], sync[t], call[t].op, got[t], t \in rw.readers, rw.writer = t)

\* Drawing and Posting, by where the thread is.
DrawsAt(j, s, op, step, g) ==
  \/ op = "delete" /\ step <= 2
  \/ j \in {ToLock, ToDraw, ToDelete} /\ s \in {"none", "leave", "wrlock", "set_flag"} /\ (s = "none" => g)

PostsAt(j, s, op, step) ==
  \/ op = "insert" /\ step = 4
  \/ op # "insert" /\ j \in {ToYield, ToPost}
  \/ s \in {"post", "post_in"}

Draws(t) == DrawsAt(job[t], sync[t], call[t].op, call[t].step, got[t])
Posts(t) == PostsAt(job[t], sync[t], call[t].op, call[t].step)

LEMMA DrawingIs ==
  ASSUME NEW t \in Threads, Place(t)
  PROVE  t \in Drawing <=> Draws(t)
BY RestsHave, RestsDiffer DEF Place, InPlace, Drawing, Draws, DrawsAt

LEMMA PostingIs ==
  ASSUME NEW t \in Threads, Place(t)
  PROVE  t \in Posting <=> Posts(t)
<1>1. "post" \in ToSet(job[t]) /\ "insert" \notin ToSet(job[t]) <=> job[t] \in {ToYield, ToPost}
  BY RestsHave, RestsDiffer DEF Place, InPlace
<1>2. QED
  BY <1>1 DEF Posting, Posts, PostsAt

\* A step of t leaves the others where they are.
OthersStay(t) ==
  \A u \in Threads \ {t} :
    /\ job'[u] = job[u] /\ sync'[u] = sync[u] /\ call'[u] = call[u] /\ got'[u] = got[u]
    /\ cargo'[u] = cargo[u]
    /\ u \in rw'.readers <=> u \in rw.readers
    /\ rw'.writer = u <=> rw.writer = u

LEMMA OthersKeepPlace ==
  ASSUME NEW t \in Threads, OthersStay(t), \A u \in Threads : Place(u), NEW u \in Threads \ {t}
  PROVE  /\ (Place(u))' /\ ((Draws(u))' <=> Draws(u)) /\ ((Posts(u))' <=> Posts(u))
BY DEF OthersStay, Place, Draws, Posts

LEMMA MembersOfState ==
  \A u \in Threads : Place(u) => (u \in Drawing <=> Draws(u)) /\ (u \in Posting <=> Posts(u))
BY DrawingIs, PostingIs

LEMMA MembersOfNextState ==
  \A u \in Threads :
    (Place(u))' => (u \in Drawing' <=> (Draws(u))') /\ (u \in Posting' <=> (Posts(u))')
<1>1. (\A u \in Threads : Place(u) => (u \in Drawing <=> Draws(u)) /\ (u \in Posting <=> Posts(u)))'
  BY MembersOfState, PTL
<1>2. QED
  BY <1>1

LEMMA SumsMatch ==
  ASSUME NEW c \in Nat, NEW c2 \in Nat, NEW d \in Nat, NEW d2 \in Nat, NEW p \in Nat, NEW p2 \in Nat,
         NEW h \in Nat, NEW h2 \in Nat,
         NEW bd \in Nat, NEW bd2 \in Nat, NEW bp \in Nat, NEW bp2 \in Nat,
         d - bd = d2 - bd2, p - bp = p2 - bp2, c + d + p = h,
         c2 + bd2 + bp2 + h = c + bd + bp + h2
  PROVE  c2 + d2 + p2 = h2
OBVIOUS

Bit(b) == IF b THEN 1 ELSE 0

\* Two sets that may differ in one element.
LEMMA CardinalityMoves ==
  ASSUME NEW S, NEW T, IsFiniteSet(S), IsFiniteSet(T), NEW x, S \ {x} = T \ {x}
  PROVE  Cardinality(S) - Bit(x \in S) = Cardinality(T) - Bit(x \in T)
<1>1. IsFiniteSet(S \ {x}) /\ Cardinality(S \ {x}) \in Nat
  BY FS_RemoveElement, FS_CardinalityType
<1>2. Cardinality(S \ {x}) = Cardinality(S) - Bit(x \in S) /\ Cardinality(S) \in Nat
  BY FS_RemoveElement, FS_CardinalityType DEF Bit
<1>3. Cardinality(T \ {x}) = Cardinality(T) - Bit(x \in T) /\ Cardinality(T) \in Nat
  BY FS_RemoveElement, FS_CardinalityType DEF Bit
<1>4. QED
  BY <1>2, <1>3

\* What a step of t does to the count.
Balanced(t) ==
  sem'.count + Bit((Draws(t))') + Bit((Posts(t))') + Cardinality(Chained)
    = sem.count + Bit(Draws(t)) + Bit(Posts(t)) + Cardinality(Chained')

LEMMA CountStays ==
  ASSUME NEW t \in Threads, OthersStay(t), \A u \in Threads : Place(u), (Place(t))',
         CountMatchesNodes, Balanced(t),
         sem.count \in Nat, sem'.count \in Nat, 
         Cardinality(Chained) \in Nat, Cardinality(Chained') \in Nat
  PROVE  CountMatchesNodes'
<1>1. \A u \in Threads : (Place(u))'
  BY OthersKeepPlace
<1>2. \A u \in Threads : (u \in Drawing <=> Draws(u)) /\ (u \in Posting <=> Posts(u))
  BY DrawingIs, PostingIs
<1>3. \A u \in Threads : (u \in Drawing' <=> (Draws(u))') /\ (u \in Posting' <=> (Posts(u))')
  BY <1>1, MembersOfNextState
<1>4. Drawing \subseteq Threads /\ Posting \subseteq Threads /\ Drawing' \subseteq Threads /\ Posting' \subseteq Threads
  BY DEF Drawing, Posting
<1>5. /\ IsFiniteSet(Drawing) /\ IsFiniteSet(Drawing')
      /\ IsFiniteSet(Posting) /\ IsFiniteSet(Posting')
  BY <1>4, PlansAssumption, FS_Subset
<1>6. \A u \in Threads \ {t} : ((Draws(u))' <=> Draws(u)) /\ ((Posts(u))' <=> Posts(u))
  BY OthersKeepPlace
<1>7. Drawing \ {t} = Drawing' \ {t} /\ Posting \ {t} = Posting' \ {t}
  BY <1>2, <1>3, <1>4, <1>6
<1>8. Cardinality(Drawing) - Bit(Draws(t)) = Cardinality(Drawing') - Bit((Draws(t))')
  <2>1. Cardinality(Drawing) - Bit(t \in Drawing) = Cardinality(Drawing') - Bit(t \in Drawing')
    BY <1>5, <1>7, CardinalityMoves
  <2>2. QED
    BY <1>2, <1>3, <2>1 DEF Bit
<1>9. Cardinality(Posting) - Bit(Posts(t)) = Cardinality(Posting') - Bit((Posts(t))')
  <2>1. Cardinality(Posting) - Bit(t \in Posting) = Cardinality(Posting') - Bit(t \in Posting')
    BY <1>5, <1>7, CardinalityMoves
  <2>2. QED
    BY <1>2, <1>3, <2>1 DEF Bit
<1>10. /\ Cardinality(Drawing) \in Nat /\ Cardinality(Drawing') \in Nat
       /\ Cardinality(Posting) \in Nat /\ Cardinality(Posting') \in Nat
  BY <1>5, FS_CardinalityType
<1>11. /\ Bit(Draws(t)) \in Nat /\ Bit((Draws(t))') \in Nat
       /\ Bit(Posts(t)) \in Nat /\ Bit((Posts(t))') \in Nat
  BY DEF Bit
<1>12. sem.count + Cardinality(Drawing) + Cardinality(Posting) = Cardinality(Chained)
  BY DEF CountMatchesNodes
<1>13. sem'.count + Cardinality(Drawing') + Cardinality(Posting') = Cardinality(Chained')
  <2>1. PICK d \in Nat, d2 \in Nat, p \in Nat, p2 \in Nat :
          /\ d = Cardinality(Drawing) /\ d2 = Cardinality(Drawing')
          /\ p = Cardinality(Posting) /\ p2 = Cardinality(Posting')
    BY <1>10
  <2>2. PICK bd \in Nat, bd2 \in Nat, bp \in Nat, bp2 \in Nat :
          /\ bd = Bit(Draws(t)) /\ bd2 = Bit((Draws(t))')
          /\ bp = Bit(Posts(t)) /\ bp2 = Bit((Posts(t))')
    BY <1>11
  <2>3. PICK c \in Nat, c2 \in Nat, h \in Nat, h2 \in Nat :
          /\ c = sem.count /\ c2 = sem'.count
          /\ h = Cardinality(Chained) /\ h2 = Cardinality(Chained')
    OBVIOUS
  <2>4. d - bd = d2 - bd2 /\ p - bp = p2 - bp2 /\ c + d + p = h
    BY <1>8, <1>9, <1>12, <2>1, <2>2, <2>3
  <2>5. c2 + bd2 + bp2 + h = c + bd + bp + h2
    BY <2>2, <2>3 DEF Balanced
  <2>6. c2 + d2 + p2 = h2
    BY ONLY <2>4, <2>5, SumsMatch
  <2>7. QED
    BY <2>1, <2>3, <2>6
<1>14. QED
  BY <1>13 DEF CountMatchesNodes

\* What a step of the locks does to the count, or to who waits for a node.
Moves(t) ==
  \/ sem'.count = sem.count /\ ((Draws(t))' <=> Draws(t)) /\ ((Posts(t))' <=> Posts(t))
  \/ sem'.count = sem.count - 1 /\ ~Draws(t) /\ (Draws(t))' /\ ((Posts(t))' <=> Posts(t))
  \/ sem'.count = sem.count + 1 /\ ((Draws(t))' <=> Draws(t)) /\ Posts(t) /\ ~(Posts(t))'

LEMMA LockMoves ==
  ASSUME WInv, NEW t \in Threads, Place(t),
         Semaphore(t) \/ RwLock(t) \/ Spurious(t) \/ Deadline(t),
         UNCHANGED <<job, call, cargo>>
  PROVE  (Place(t))' /\ Moves(t)
<1> PICK j : j = job[t]
  OBVIOUS
<1> PICK op, step : op = call[t].op /\ step = call[t].step
  OBVIOUS
<1>0. /\ job'[t] = j /\ call'[t].op = op /\ call'[t].step = step
      /\ sync \in [Threads -> Labels] /\ got \in [Threads -> BOOLEAN]
      /\ InPlace(j, sync[t], op, got[t], t \in rw.readers, rw.writer = t)
      /\ sem \in Semaphores /\ rw \in RwLocks
  BY DEF Place, WInv, IInv, SyncTypeOK
<1> DEFINE Goal(s, s2, g, g2, r2, w2) ==
             /\ InPlace(j, s2, op, g2, r2, w2)
             /\ DrawsAt(j, s, op, step, g) <=> DrawsAt(j, s2, op, step, g2)
             /\ PostsAt(j, s, op, step) <=> PostsAt(j, s2, op, step)
<1>1. /\ (Place(t))' <=> InPlace(j, sync'[t], op, got'[t], t \in rw'.readers, rw'.writer = t)
      /\ Draws(t) <=> DrawsAt(j, sync[t], op, step, got[t])
      /\ Posts(t) <=> PostsAt(j, sync[t], op, step)
      /\ (Draws(t))' <=> DrawsAt(j, sync'[t], op, step, got'[t])
      /\ (Posts(t))' <=> PostsAt(j, sync'[t], op, step)
  BY <1>0 DEF Place, Draws, Posts
<1>2. ASSUME Goal(sync[t], sync'[t], got[t], got'[t], t \in rw'.readers, rw'.writer = t),
             sem'.count = sem.count
      PROVE  (Place(t))' /\ Moves(t)
  BY <1>1, <1>2 DEF Moves
<1> USE RestsDiffer DEF InPlace, DrawsAt, PostsAt, Returning, InWaits, Waiting
<1>3. CASE LockMutex(t)
  <2>1. /\ sync[t] \in Waiting \cup {"post"} /\ rw' = rw /\ got'[t] = got[t]
        /\ sync'[t] = IF sync[t] = "post" THEN "post_in" ELSE InWait(sync[t])
        /\ sem'.count = sem.count
    BY <1>0, <1>3 DEF LockMutex, Goto, Semaphores
  <2>2. CASE sync[t] = "post"
    <3>1. Goal("post", "post_in", got[t], got[t], t \in rw.readers, rw.writer = t)
      BY <1>0, <2>2
    <3>2. QED
      BY <1>2, <2>1, <2>2, <3>1
  <2>3. CASE sync[t] # "post"
    <3>1. sync'[t] \in {"wait_in", "try_wait_in", "timed_wait_in"}
      BY <2>1, <2>3 DEF InWait
    <3>2. Goal(sync[t], sync'[t], got[t], got[t], t \in rw.readers, rw.writer = t)
      BY <1>0, <2>1, <2>3, <3>1
    <3>3. QED
      BY <1>2, <2>1, <3>2
  <2>4. QED
    BY <2>2, <2>3
<1>4. CASE UnlockMutex(t)
  <2>1. /\ sync[t] \in {"leave", "leave_empty"} /\ rw' = rw /\ got'[t] = (sync[t] = "leave")
        /\ sync'[t] = "none" /\ sem'.count = sem.count
    BY <1>0, <1>4 DEF UnlockMutex, Returns, Semaphores
  <2>2. Goal(sync[t], "none", got[t], got'[t], t \in rw.readers, rw.writer = t)
    BY <1>0, <2>1
  <2>3. QED
    BY <1>2, <2>1, <2>2
<1>5. CASE Post(t)
  <2>1. /\ sync[t] = "post_in" /\ rw' = rw /\ got'[t] = got[t]
        /\ sync'[t] = "leave" /\ sem'.count = sem.count + 1
    <3>1. PICK asleep \in Signalled :
            sem' = [sem EXCEPT !.count = @ + 1, !.asleep = asleep, !.lost = @ + Lost(asleep)]
      BY <1>5 DEF Post
    <3>2. QED
      BY <1>0, <1>5, <3>1 DEF Post, Goto, Semaphores
  <2>2. /\ InPlace(j, "leave", op, got[t], t \in rw.readers, rw.writer = t)
        /\ DrawsAt(j, "post_in", op, step, got[t]) <=> DrawsAt(j, "leave", op, step, got[t])
        /\ PostsAt(j, "post_in", op, step) /\ ~PostsAt(j, "leave", op, step)
    BY <1>0, <2>1
  <2>3. QED
    BY <1>1, <2>1, <2>2 DEF Moves
<1>6. ASSUME sync[t] \in {"wait_in", "try_wait_in", "timed_wait_in"}, Take(t), rw' = rw
      PROVE  (Place(t))' /\ Moves(t)
  <2>1. sync'[t] = "leave" /\ got'[t] = got[t] /\ sem'.count = sem.count - 1
    BY <1>0, <1>6 DEF Take, Goto, Semaphores
  <2>2. /\ InPlace(j, "leave", op, got[t], t \in rw.readers, rw.writer = t)
        /\ ~DrawsAt(j, sync[t], op, step, got[t]) /\ DrawsAt(j, "leave", op, step, got[t])
        /\ PostsAt(j, sync[t], op, step) <=> PostsAt(j, "leave", op, step)
    BY <1>0, <1>6
  <2>3. QED
    BY <1>1, <1>6, <2>1, <2>2 DEF Moves
<1>7. ASSUME sync[t] \in {"wait_in", "try_wait_in", "timed_wait_in"}, rw' = rw, got'[t] = got[t],
             sync'[t] \in {"wait", "timed_wait", "leave_empty"}, sem'.count = sem.count
      PROVE  (Place(t))' /\ Moves(t)
  <2>1. Goal(sync[t], sync'[t], got[t], got[t], t \in rw.readers, rw.writer = t)
    BY <1>0, <1>7
  <2>2. QED
    BY <1>2, <1>7, <2>1
<1>8. CASE Wait(t)
  <2>1. sync[t] = "wait_in" /\ rw' = rw /\ (Take(t) \/ Sleep(t, "wait"))
    BY <1>8 DEF Wait
  <2>2. CASE Sleep(t, "wait")
    <3>1. got'[t] = got[t] /\ sync'[t] = "wait" /\ sem'.count = sem.count
      BY <1>0, <2>2 DEF Sleep, Goto, Semaphores
    <3>2. QED
      BY <1>7, <2>1, <3>1
  <2>3. QED
    BY <1>6, <2>1, <2>2
<1>9. CASE TryWait(t)
  <2>1. /\ sync[t] = "try_wait_in" /\ rw' = rw
        /\ Take(t) \/ (Goto(t, "leave_empty") /\ UNCHANGED sem)
    BY <1>9 DEF TryWait
  <2>2. CASE Goto(t, "leave_empty") /\ UNCHANGED sem
    <3>1. got'[t] = got[t] /\ sync'[t] = "leave_empty" /\ sem'.count = sem.count
      BY <1>0, <2>2 DEF Goto
    <3>2. QED
      BY <1>7, <2>1, <3>1
  <2>3. QED
    BY <1>6, <2>1, <2>2
<1>10. CASE TimedWait(t)
  <2>1. /\ sync[t] = "timed_wait_in" /\ rw' = rw
        /\ \/ sem' = [sem EXCEPT !.late = @ \ {t}] /\ Goto(t, "leave_empty")
           \/ Take(t)
           \/ Sleep(t, "timed_wait")
    BY <1>10 DEF TimedWait
  <2>2. CASE Sleep(t, "timed_wait")
    <3>1. got'[t] = got[t] /\ sync'[t] = "timed_wait" /\ sem'.count = sem.count
      BY <1>0, <2>2 DEF Sleep, Goto, Semaphores
    <3>2. QED
      BY <1>7, <2>1, <3>1
  <2>3. CASE sem' = [sem EXCEPT !.late = @ \ {t}] /\ Goto(t, "leave_empty")
    <3>1. got'[t] = got[t] /\ sync'[t] = "leave_empty" /\ sem'.count = sem.count
      BY <1>0, <2>3 DEF Goto, Semaphores
    <3>2. QED
      BY <1>7, <2>1, <3>1
  <2>4. QED
    BY <1>6, <2>1, <2>2, <2>3
<1>11. CASE WindowsPost(t)
  <2>1. /\ sync[t] = "post" /\ rw' = rw /\ got'[t] = TRUE
        /\ sync'[t] = "none" /\ sem'.count = sem.count + 1
    BY <1>0, <1>11 DEF WindowsPost, Returns, Semaphores
  <2>2. /\ InPlace(j, "none", op, TRUE, t \in rw.readers, rw.writer = t)
        /\ DrawsAt(j, "post", op, step, got[t]) <=> DrawsAt(j, "none", op, step, TRUE)
        /\ PostsAt(j, "post", op, step) /\ ~PostsAt(j, "none", op, step)
    BY <1>0, <2>1
  <2>3. QED
    BY <1>1, <2>1, <2>2 DEF Moves
<1>12. CASE WindowsWait(t)
  <2>1. /\ sync[t] \in {"wait", "try_wait", "timed_wait"} /\ rw' = rw /\ sync'[t] = "none"
        /\ \/ got'[t] = TRUE /\ sem'.count = sem.count - 1
           \/ got'[t] = FALSE /\ sem'.count = sem.count
    BY <1>0, <1>12 DEF WindowsWait, Returns, Semaphores
  <2>2. CASE got'[t] = TRUE /\ sem'.count = sem.count - 1
    <3>1. /\ InPlace(j, "none", op, TRUE, t \in rw.readers, rw.writer = t)
          /\ ~DrawsAt(j, sync[t], op, step, got[t]) /\ DrawsAt(j, "none", op, step, TRUE)
          /\ PostsAt(j, sync[t], op, step) <=> PostsAt(j, "none", op, step)
      BY <1>0, <2>1
    <3>2. QED
      BY <1>1, <2>1, <2>2, <3>1 DEF Moves
  <2>3. CASE got'[t] = FALSE /\ sem'.count = sem.count
    <3>1. Goal(sync[t], "none", got[t], FALSE, t \in rw.readers, rw.writer = t)
      BY <1>0, <2>1
    <3>2. QED
      BY <1>2, <2>1, <2>3, <3>1
  <2>4. QED
    BY <2>1, <2>2, <2>3
<1>13. CASE Spurious(t) \/ Deadline(t)
  <2>1. /\ rw' = rw /\ sync' = sync /\ got' = got /\ sem'.count = sem.count
    BY <1>0, <1>13 DEF Spurious, Deadline, Semaphores
  <2>2. Goal(sync[t], sync[t], got[t], got[t], t \in rw.readers, rw.writer = t)
    BY <1>0
  <2>3. QED
    BY <1>2, <2>1, <2>2
<1>14. CASE RdLock(t)
  <2>1. /\ sync[t] \in {"rdlock", "try_rdlock"} /\ sync'[t] = "none" /\ got'[t] = TRUE
        /\ t \in rw'.readers /\ rw'.writer = rw.writer /\ sem'.count = sem.count
    BY <1>0, <1>14 DEF RdLock, Returns, RwLocks
  <2>2. Goal(sync[t], "none", got[t], TRUE, TRUE, rw.writer = t)
    BY <1>0, <2>1
  <2>3. QED
    BY <1>2, <2>1, <2>2
<1>15. CASE WrLock(t)
  <2>1. /\ sync[t] \in {"wrlock", "try_wrlock"} /\ rw'.readers = rw.readers /\ rw'.writer = t
        /\ sem'.count = sem.count
        /\ \/ sync'[t] = "set_flag" /\ got'[t] = got[t]
           \/ sync'[t] = "none" /\ got'[t] = TRUE
    BY <1>0, <1>15 DEF WrLock, Goto, Returns, RwLocks
  <2>2. Goal(sync[t], sync'[t], got[t], got'[t], t \in rw.readers, TRUE)
    BY <1>0, <2>1
  <2>3. QED
    BY <1>2, <2>1, <2>2
<1>16. CASE SetFlag(t)
  <2>1. /\ sync[t] = "set_flag" /\ rw'.readers = rw.readers /\ rw'.writer = t
        /\ sem'.count = sem.count /\ sync'[t] = "none" /\ got'[t] = TRUE
    BY <1>0, <1>16 DEF SetFlag, Returns, RwLocks, WInv, IInv, LockInv, CallsFitLock
  <2>2. Goal(sync[t], "none", got[t], TRUE, t \in rw.readers, TRUE)
    BY <1>0, <2>1
  <2>3. QED
    BY <1>2, <2>1, <2>2
<1>17. CASE TryFails(t)
  <2>1. /\ sync[t] \in {"try_rdlock", "try_wrlock"} /\ rw' = rw
        /\ sem'.count = sem.count /\ sync'[t] = "none" /\ got'[t] = FALSE
    BY <1>0, <1>17 DEF TryFails, Returns
  <2>2. Goal(sync[t], "none", got[t], FALSE, t \in rw.readers, rw.writer = t)
    BY <1>0, <2>1
  <2>3. QED
    BY <1>2, <2>1, <2>2
<1>18. CASE Unlock(t) \/ ReadFlag(t) \/ Release(t)
  <2>1. /\ sync[t] \in Returning /\ sem'.count = sem.count
        /\ \/ sync'[t] = "none" /\ got'[t] = TRUE
           \/ sync'[t] \in {"release_exclusive", "release_shared"} /\ got'[t] = got[t]
    BY <1>0, <1>18 DEF Unlock, ReadFlag, Release, Goto, Returns
  <2>2. Goal(sync[t], sync'[t], got[t], got'[t], t \in rw'.readers, rw'.writer = t)
    BY <1>0, <2>1
  <2>3. QED
    BY <1>2, <2>1, <2>2
<1>19. QED
  BY <1>3, <1>4, <1>5, <1>8, <1>9, <1>10, <1>11, <1>12, <1>13, <1>14, <1>15, <1>16, <1>17, <1>18
     DEF Semaphore, RwLock

LEMMA LockOthersStay ==
  ASSUME WInv, NEW t \in Threads,
         Semaphore(t) \/ RwLock(t) \/ Spurious(t) \/ Deadline(t),
         UNCHANGED <<job, call, cargo>>
  PROVE  OthersStay(t)
<1>0. sync \in [Threads -> Labels] /\ got \in [Threads -> BOOLEAN] /\ rw \in RwLocks
  BY DEF WInv, IInv, SyncTypeOK
<1>1. \A u \in Threads \ {t} : sync'[u] = sync[u] /\ got'[u] = got[u]
  <2>1. CASE Semaphore(t)
    BY <1>0, <2>1 DEF Semaphore, LockMutex, UnlockMutex, Post, Wait, TryWait, TimedWait,
         WindowsPost, WindowsWait, Take, Sleep, Goto, Returns
  <2>2. CASE RwLock(t)
    BY <1>0, <2>2 DEF RwLock, RdLock, WrLock, SetFlag, TryFails, Unlock, ReadFlag, Release, Goto, Returns
  <2>3. CASE Spurious(t) \/ Deadline(t)
    BY <2>3 DEF Spurious, Deadline
  <2>4. QED
    BY <2>1, <2>2, <2>3
<1>2. \A u \in Threads \ {t} :
        (u \in rw'.readers <=> u \in rw.readers) /\ (rw'.writer = u <=> rw.writer = u)
  <2>1. CASE Semaphore(t) \/ Spurious(t) \/ Deadline(t)
    <3>1. rw' = rw
      BY <2>1 DEF Semaphore, LockMutex, UnlockMutex, Post, Wait, TryWait, TimedWait,
           WindowsPost, WindowsWait, Spurious, Deadline
    <3>2. QED
      BY <3>1
  <2>2. CASE RdLock(t)
    BY <1>0, <2>2 DEF RdLock, RwLocks
  <2>3. CASE WrLock(t)
    BY <1>0, <2>3, ThreadingAssumption DEF WrLock, RwLocks
  <2>4. CASE SetFlag(t) \/ TryFails(t) \/ ReadFlag(t)
    BY <1>0, <2>4 DEF SetFlag, TryFails, ReadFlag, RwLocks
  <2>5. CASE Unlock(t)
    BY <1>0, <2>5, ThreadingAssumption DEF Unlock, RwLocks
  <2>6. CASE Release(t)
    <3>1. CASE sync[t] = "release_exclusive"
      <4>1. rw.writer = t
        BY <3>1 DEF WInv, IInv, LockInv, CallsFitLock
      <4>2. rw'.readers = rw.readers /\ rw'.writer = Nobody
        BY <1>0, <2>6, <3>1 DEF Release, RwLocks
      <4>3. QED
        BY <4>1, <4>2, ThreadingAssumption
    <3>2. CASE sync[t] # "release_exclusive"
      <4>1. rw'.readers = rw.readers \ {t} /\ rw'.writer = rw.writer
        BY <1>0, <2>6, <3>2 DEF Release, RwLocks
      <4>2. QED
        BY <4>1
    <3>3. QED
      BY <3>1, <3>2
  <2>7. QED
    BY <2>1, <2>2, <2>3, <2>4, <2>5, <2>6 DEF RwLock
<1>3. QED
  BY <1>1, <1>2 DEF OthersStay

-----------------------------------------------------------------------------
(***************************************************************************)
(* The threads in the table: the invariant, and each step.                 *)
(***************************************************************************)
Ops   == {"none", "insert", "lookup", "random", "foreach", "delete"}
Calls == [op : Ops, step : Nat, node : Nodes \cup {Null}, slot : Slots \cup {Null}, index : Nat]

\* A call of the table is at one of its steps, and has the latch from the second.
CallsFit ==
  /\ latch \in Threads \cup {Nobody}
  /\ call \in [Threads -> Calls]
  /\ \A t \in Threads :
       /\ call[t].op = "none" => call[t].step = 0
       /\ call[t].op = "insert" => call[t].step \in 1 .. 4
       /\ call[t].op = "delete" => call[t].step \in 1 .. 3
       /\ call[t].op \in {"lookup", "random", "foreach"} => call[t].step \in 1 .. 2
       /\ call[t].step >= 2 <=> latch = t

\* The size lags behind the chains between a node's link and its count.
Lags(t)  == call[t].op = "insert" /\ call[t].step = 4
Leads(t) == call[t].op = "delete" /\ call[t].step = 3

SizeFits ==
  /\ size \in Int
  /\ (\A t \in Threads : ~Lags(t) /\ ~Leads(t)) => size = Cardinality(Chained)
  /\ \A t \in Threads : Lags(t) => size = Cardinality(Chained) - 1
  /\ \A t \in Threads : Leads(t) => size = Cardinality(Chained) + 1

\* The node to be chained points to the first of its bucket.
NextFits ==
  \A t \in Threads :
    call[t].op = "insert" /\ call[t].step = 3 => link[call[t].node] = link[Hash[call[t].node]]

\* Who holds a node that it will chain holds it alone.
Holds(t) == \/ job[t] = ToInsert
            \/ call[t].op = "insert" /\ call[t].step <= 3

CargoFits ==
  /\ cargo \in [Threads -> Nodes \cup {Null}]
  /\ \A t \in Threads :
       /\ Holds(t) => cargo[t] \in Nodes \ Chained
       /\ call[t].op = "insert" => call[t].node = cargo[t]
       /\ job[t] = ToLookup => cargo[t] \in Nodes
       /\ call[t].op = "lookup" => call[t].node \in Nodes
  /\ \A s, t \in Threads : Holds(s) /\ Holds(t) /\ cargo[s] = cargo[t] => s = t

\* The slot that a draw has found, and the index it looks for, are of the chains.
HasSlot(t) == \/ job[t] = ToDelete /\ call[t].op = "none"
              \/ call[t].op = "delete" /\ call[t].step <= 2

SlotsFit ==
  \A t \in Threads :
    /\ HasSlot(t) => call[t].slot \in ToSet(AllOccupied)
    /\ call[t].op = "random" => call[t].index < Cardinality(Chained)

\* The table and what the threads know of it.
Linkage == IsWhole /\ LinkType /\ CallsFit /\ SizeFits /\ NextFits /\ CargoFits /\ SlotsFit

Places == \A t \in Threads : Place(t)

\* The inductive invariant of the table, with WInv.
HInv == Linkage /\ Places /\ CountMatchesNodes

LEMMA ChainedIsFinite ==
  ASSUME IsWhole
  PROVE  IsFiniteSet(Chained) /\ Cardinality(Chained) \in Nat /\ Chained \subseteq Nodes
<1>1. Chained \subseteq Nodes
  BY WholeIs
<1>2. IsFiniteSet(Chained)
  BY <1>1, HashTableAssumption, FS_Subset
<1>3. QED
  BY <1>1, <1>2, FS_CardinalityType

LEMMA ChainsStay ==
  ASSUME link' = link
  PROVE  Chained' = Chained /\ ToSet(AllOccupied)' = ToSet(AllOccupied) /\ (IsWhole' <=> IsWhole) /\ (LinkType' <=> LinkType)
BY DEF Chained, AllOccupied, Occupied, IsWhole, LinkType, Linked

\* A step of the locks.
LEMMA InSyncStep ==
  ASSUME WInv, HInv, WInv', NEW t \in Threads, InSync(t) \/ Time(t)
  PROVE  HInv'
<1>1. /\ Semaphore(t) \/ RwLock(t) \/ Spurious(t) \/ Deadline(t)
      /\ UNCHANGED <<link, size, latch, call, job, cargo>>
  BY DEF InSync, Time, tableVars
<1>2. Places /\ Place(t)
  BY DEF HInv, Places
<1>3. (Place(t))' /\ Moves(t)
  BY <1>1, <1>2, LockMoves
<1>4. OthersStay(t)
  BY <1>1, LockOthersStay
<1>5. Places'
  BY <1>2, <1>3, <1>4, OthersKeepPlace DEF Places
<1>6. Chained' = Chained /\ ToSet(AllOccupied)' = ToSet(AllOccupied) /\ IsWhole' /\ LinkType'
  BY <1>1, ChainsStay DEF HInv, Linkage
<1>7. Linkage'
  <2>1. CallsFit' /\ SizeFits'
    BY <1>1, <1>6 DEF HInv, Linkage, CallsFit, SizeFits, Lags, Leads
  <2>2. NextFits' /\ CargoFits' /\ SlotsFit'
    BY <1>1, <1>6 DEF HInv, Linkage, NextFits, CargoFits, Holds, SlotsFit, HasSlot
  <2>3. QED
    BY <1>6, <2>1, <2>2 DEF Linkage
<1>8. Cardinality(Chained) \in Nat /\ sem.count \in Nat /\ sem'.count \in Nat
  BY ChainedIsFinite DEF HInv, Linkage, WInv, IInv, SyncTypeOK, Semaphores
<1>9. Balanced(t)
  BY <1>3, <1>6, <1>8 DEF Moves, Balanced, Bit
<1>10. CountMatchesNodes'
  BY <1>2, <1>3, <1>4, <1>6, <1>8, <1>9, CountStays DEF HInv, Places
<1>11. QED
  BY <1>5, <1>7, <1>10 DEF HInv

\* What is the same when only jobs change, with calls of the locks.
LEMMA GiveUpStep ==
  ASSUME WInv, HInv, WInv', NEW t \in Threads, GiveUp(t)
  PROVE  HInv'
<1>0. /\ job \in [Threads -> Rests] /\ job' = [job EXCEPT ![t] = <<>>] /\ job[t] # <<>>
      /\ UNCHANGED <<os, sem, rw, sync, got, link, size, latch, call, cargo>>
      /\ sync[t] = "none" /\ call[t].op = "none" /\ ~got[t]
  BY DEF GiveUp, Free, WInv, syncVars, tableVars
<1>1. Places /\ Place(t)
  BY DEF HInv, Places
<1>2. job'[t] = <<>> /\ \A u \in Threads \ {t} : job'[u] = job[u]
  BY <1>0
<1>3. job[t] \in {ToLock, ToLookup, ToForeach}
  BY <1>0, <1>1, RestsDiffer DEF Place, InPlace
<1>4. (Place(t))' /\ ~Draws(t) /\ ~(Draws(t))' /\ ~Posts(t) /\ ~(Posts(t))'
  BY <1>0, <1>2, <1>3, RestsDiffer DEF Place, InPlace, Draws, DrawsAt, Posts, PostsAt
<1>5. OthersStay(t)
  BY <1>0, <1>2 DEF OthersStay
<1>6. Places'
  BY <1>1, <1>4, <1>5, OthersKeepPlace DEF Places
<1>7. Chained' = Chained /\ ToSet(AllOccupied)' = ToSet(AllOccupied) /\ IsWhole' /\ LinkType'
  BY <1>0, ChainsStay DEF HInv, Linkage
<1>8. Linkage'
  <2>1. CallsFit' /\ SizeFits' /\ NextFits'
    BY <1>0, <1>7 DEF HInv, Linkage, CallsFit, SizeFits, Lags, Leads, NextFits
  <2>2. \A u \in Threads : (Holds(u))' => Holds(u)
    BY <1>0, <1>2, RestsDiffer DEF Holds
  <2>3. \A u \in Threads : (HasSlot(u))' => HasSlot(u)
    BY <1>0, <1>2, RestsDiffer DEF HasSlot
  <2>4. \A u \in Threads : job'[u] = ToLookup => job[u] = ToLookup
    BY <1>2, RestsDiffer
  <2>5. CargoFits'
    BY <1>0, <1>7, <2>2, <2>4 DEF HInv, Linkage, CargoFits
  <2>6. SlotsFit'
    BY <1>0, <1>7, <2>3 DEF HInv, Linkage, SlotsFit
  <2>7. QED
    BY <1>7, <2>1, <2>5, <2>6 DEF Linkage
<1>9. Cardinality(Chained) \in Nat /\ sem.count \in Nat
  BY ChainedIsFinite DEF HInv, Linkage, WInv, IInv, SyncTypeOK, Semaphores
<1>10. Balanced(t)
  BY <1>0, <1>4, <1>7, <1>9 DEF Balanced, Bit
<1>11. CountMatchesNodes'
  BY <1>0, <1>1, <1>4, <1>5, <1>7, <1>9, <1>10, CountStays DEF HInv, Places
<1>12. QED
  BY <1>6, <1>8, <1>11 DEF HInv

LEMMA BeginTable ==
  ASSUME WInv, HInv, WInv', NEW t \in Threads, Begin(t)
  PROVE  HInv'
<1>1. PICK calls : /\ \E kind \in {"put", "get", "peek"} : calls \in Jobs(kind)
                   /\ "insert" \in ToSet(calls) => Unused # {}
                   /\ job' = [job EXCEPT ![t] = Tail(calls)]
                   /\ Calling(t, Head(calls))
                   /\ cargo' = [cargo EXCEPT ![t] = IF "insert" \in ToSet(calls) THEN CHOOSE n \in Unused : TRUE
                                       ELSE IF "lookup" \in ToSet(calls) THEN CHOOSE n \in Nodes : TRUE
                                       ELSE Null]
  <2>1. plan[t] \in Seq({"put", "get", "peek"}) /\ plan[t] # <<>>
    BY DEF WInv, PlansFit, Begin
  <2>2. Head(plan[t]) \in {"put", "get", "peek"}
    BY <2>1
  <2>3. QED
    BY <2>2 DEF Begin
<1> PICK j : j = Tail(calls)
  OBVIOUS
<1> PICK s : s = Head(calls)
  OBVIOUS
<1>2. \/ s = "rdlock" /\ j = ToInsert /\ "insert" \in ToSet(calls)
      \/ s \in Waiting /\ j = ToLock /\ "insert" \notin ToSet(calls)
      \/ s = "try_rdlock" /\ j = ToLookup /\ "insert" \notin ToSet(calls) /\ "lookup" \in ToSet(calls)
      \/ s = "try_wrlock" /\ j = ToForeach /\ "insert" \notin ToSet(calls)
  BY <1>1, JobsAre
<1>3. /\ job \in [Threads -> Rests] /\ sync \in [Threads -> Labels] /\ cargo \in [Threads -> Nodes \cup {Null}]
  BY DEF WInv, IInv, SyncTypeOK, HInv, Linkage, CargoFits
<1>4. /\ job[t] = <<>> /\ sync[t] = "none" /\ call[t].op = "none"
      /\ UNCHANGED <<os, sem, rw, got, link, size, latch, call>>
  BY <1>1 DEF Begin, Free, Calling, tableVars
<1>5. /\ job'[t] = j /\ sync'[t] = s
      /\ \A u \in Threads \ {t} : job'[u] = job[u] /\ sync'[u] = sync[u] /\ cargo'[u] = cargo[u]
  BY <1>1, <1>3 DEF Calling
<1>6. /\ j = ToInsert => cargo'[t] \in Unused
      /\ j = ToLookup => cargo'[t] \in Nodes
      /\ cargo'[t] \in Nodes \cup {Null}
  <2>1. Unused \subseteq Nodes /\ Nodes # {}
    BY HashTableAssumption DEF Unused
  <2>2. cargo'[t] = IF "insert" \in ToSet(calls) THEN CHOOSE n \in Unused : TRUE
                    ELSE IF "lookup" \in ToSet(calls) THEN CHOOSE n \in Nodes : TRUE ELSE Null
    BY <1>1, <1>3
  <2>3. Nodes # {} => (CHOOSE n \in Nodes : TRUE) \in Nodes
    OBVIOUS
  <2>4. Unused # {} => (CHOOSE n \in Unused : TRUE) \in Unused
    OBVIOUS
  <2>5. j = ToInsert => "insert" \in ToSet(calls)
    BY <1>2, RestsDiffer
  <2>6. j = ToLookup => "insert" \notin ToSet(calls) /\ "lookup" \in ToSet(calls)
    BY <1>2, RestsDiffer
  <2>7. j = ToInsert => cargo'[t] \in Unused
    BY <1>1, <2>2, <2>4, <2>5
  <2>8. j = ToLookup => cargo'[t] \in Nodes
    BY <2>1, <2>2, <2>3, <2>6
  <2>9. cargo'[t] \in Nodes \cup {Null}
    BY <1>1, <2>1, <2>2, <2>3, <2>4
  <2>10. QED
    BY <2>7, <2>8, <2>9
<1>7. Places /\ Place(t)
  BY DEF HInv, Places
<1>8. (Place(t))' /\ ~Draws(t) /\ ~(Draws(t))' /\ ~Posts(t) /\ ~(Posts(t))'
  BY <1>2, <1>4, <1>5, RestsDiffer DEF Place, InPlace, Draws, DrawsAt, Posts, PostsAt, Waiting
<1>9. OthersStay(t)
  BY <1>4, <1>5 DEF OthersStay
<1>10. Places'
  BY <1>7, <1>8, <1>9, OthersKeepPlace DEF Places
<1>11. Chained' = Chained /\ ToSet(AllOccupied)' = ToSet(AllOccupied) /\ IsWhole' /\ LinkType'
  BY <1>4, ChainsStay DEF HInv, Linkage
<1>12. CallsFit' /\ SizeFits' /\ NextFits'
  BY <1>4, <1>11 DEF HInv, Linkage, CallsFit, SizeFits, Lags, Leads, NextFits
<1>13. SlotsFit'
  <2>1. \A u \in Threads : (HasSlot(u))' => HasSlot(u)
    BY <1>2, <1>4, <1>5, RestsDiffer DEF HasSlot
  <2>2. QED
    BY <1>4, <1>11, <2>1 DEF HInv, Linkage, SlotsFit
<1>14. CargoFits'
  <2>1. \A u \in Threads \ {t} : ((Holds(u))' <=> Holds(u)) /\ cargo'[u] = cargo[u]
    BY <1>4, <1>5 DEF Holds
  <2>2. (Holds(t))' => cargo'[t] \in Unused
    BY <1>4, <1>5, <1>6 DEF Holds
  <2>3. \A u \in Threads : cargo[u] \notin Unused
    BY DEF Unused
  <2>4. \A n \in Unused : n \in Nodes \ Chained
    BY DEF Unused
  <2>5. cargo' \in [Threads -> Nodes \cup {Null}]
    BY <1>1, <1>3, <1>6
  <2>6. ASSUME NEW u \in Threads
        PROVE  /\ (Holds(u))' => cargo'[u] \in Nodes \ Chained'
               /\ call'[u].op = "insert" => call'[u].node = cargo'[u]
               /\ job'[u] = ToLookup => cargo'[u] \in Nodes
               /\ call'[u].op = "lookup" => call'[u].node \in Nodes
    <3>1. CASE u = t
      BY <1>4, <1>5, <1>6, <1>11, <2>2, <2>4, <3>1 DEF HInv, Linkage, CargoFits
    <3>2. CASE u # t
      BY <1>4, <1>5, <1>11, <2>1, <3>2 DEF HInv, Linkage, CargoFits
    <3>3. QED
      BY <3>1, <3>2
  <2>7. ASSUME NEW u \in Threads, NEW v \in Threads, (Holds(u))', (Holds(v))', cargo'[u] = cargo'[v]
        PROVE  u = v
    BY <2>1, <2>2, <2>3, <2>7 DEF HInv, Linkage, CargoFits
  <2>8. QED
    BY <2>5, <2>6, <2>7 DEF CargoFits
<1>15. Cardinality(Chained) \in Nat /\ sem.count \in Nat
  BY ChainedIsFinite DEF HInv, Linkage, WInv, IInv, SyncTypeOK, Semaphores
<1>16. Balanced(t)
  BY <1>4, <1>8, <1>11, <1>15 DEF Balanced, Bit
<1>17. CountMatchesNodes'
  BY <1>4, <1>7, <1>8, <1>9, <1>11, <1>15, <1>16, CountStays DEF HInv, Places
<1>18. QED
  BY <1>10, <1>11, <1>12, <1>13, <1>14, <1>17 DEF HInv, Linkage

\* While a thread writes, no other reads, and no other has a slot: a node is not
\* chained, and none is taken out but by the writer.
LEMMA WriterIsOnly ==
  ASSUME WInv, HInv, NEW w \in Threads, rw.writer = w, NEW u \in Threads
  PROVE  /\ call[u].op # "insert" /\ job[u] # ToYield
         /\ u # w => call[u].op \notin {"delete", "random"} /\ ~HasSlot(u)
<1>1. rw.readers = {} /\ w # Nobody
  BY ThreadingAssumption DEF WInv, IInv, LockInv, WriterIsAlone
<1>2. Place(u)
  BY DEF HInv, Places
<1>3. QED
  BY <1>1, <1>2, RestsDiffer DEF Place, InPlace, HasSlot

\* A thread that writes, and is not in htable_delete, sees the size of the
\* chains; and while it has a node to draw, there is one.
LEMMA DrawSeesSize ==
  ASSUME WInv, HInv, NEW t \in Threads, Draws(t), rw.writer = t, call[t].op # "delete"
  PROVE  size = Cardinality(Chained) /\ Cardinality(Chained) > 0
<1>1. \A u \in Threads : ~Lags(u) /\ ~Leads(u)
  BY WriterIsOnly DEF Lags, Leads
<1>2. size = Cardinality(Chained)
  BY <1>1 DEF HInv, Linkage, SizeFits
<1>3. t \in Drawing
  BY DrawingIs DEF HInv, Places
<1>4. IsFiniteSet(Drawing) /\ IsFiniteSet(Posting)
  <2>1. Drawing \subseteq Threads /\ Posting \subseteq Threads
    BY DEF Drawing, Posting
  <2>2. QED
    BY <2>1, PlansAssumption, FS_Subset
<1>5. Cardinality(Drawing) \in Nat /\ Cardinality(Drawing) # 0 /\ Cardinality(Posting) \in Nat
  BY <1>3, <1>4, FS_CardinalityType, FS_EmptySet
<1>6. Cardinality(Chained) \in Nat /\ sem.count \in Nat
  BY ChainedIsFinite DEF HInv, Linkage, WInv, IInv, SyncTypeOK, Semaphores
<1>7. sem.count + Cardinality(Drawing) + Cardinality(Posting) = Cardinality(Chained)
  BY DEF HInv, CountMatchesNodes
<1>8. QED
  BY <1>2, <1>5, <1>6, <1>7

\* What a job does next.
LEMMA NextCall ==
  ASSUME Places, NEW t \in Threads, Proceed(t)
  PROVE  /\ \/ job[t] = ToInsert /\ t \in rw.readers
            \/ job[t] = ToYield /\ t \in rw.readers
            \/ job[t] = ToPost \/ job[t] = ToLock
            \/ job[t] = ToDraw /\ rw.writer = t
            \/ job[t] = ToDelete /\ rw.writer = t
            \/ job[t] = ToUnlock \/ job[t] = ToLookup \/ job[t] = ToForeach
         /\ sync[t] = "none" /\ call[t].op = "none" /\ got[t]
BY DEF Places, Place, InPlace, Proceed, Free

LEMMA EnterIs ==
  ASSUME CallsFit, SizeFits, NEW t \in Threads, NEW op \in Ops \ {"none"}, NEW node \in Nodes \cup {Null},
         Enter(t, op, node)
  PROVE  /\ call' \in [Threads -> Calls] /\ call[t].op = "none" /\ call[t].step = 0
         /\ call'[t].op = op /\ call'[t].step = 1 /\ call'[t].node = node /\ call'[t].slot = call[t].slot
         /\ op = "random" /\ size > 0 => call'[t].index < size
         /\ \A u \in Threads \ {t} : call'[u] = call[u]
         /\ UNCHANGED <<link, size, latch>>
<1>1. PICK index \in IF op # "random" THEN {0}
                     ELSE IF size > 0 THEN 0 .. size - 1 ELSE 0 .. Cardinality(Nodes) :
        call' = [call EXCEPT ![t].op = op, ![t].step = 1, ![t].node = node, ![t].index = index]
  BY DEF Enter
<1>2. call \in [Threads -> Calls] /\ size \in Int /\ call[t].op = "none" /\ UNCHANGED <<link, size, latch>>
  BY DEF Enter, CallsFit, SizeFits
<1>3. index \in Nat /\ (op = "random" /\ size > 0 => index < size)
  BY <1>1, <1>2
<1>4. call[t] \in Calls
  BY <1>2
<1>5. PICK slot \in Slots \cup {Null} : slot = call[t].slot
  BY <1>4 DEF Calls
<1>6. call'[t] = [op |-> op, step |-> 1, node |-> node, slot |-> slot, index |-> index]
  BY <1>1, <1>2, <1>5 DEF Calls
<1>7. call'[t] \in Calls
  BY <1>3, <1>6 DEF Calls
<1>8. \A u \in Threads \ {t} : call'[u] = call[u]
  BY <1>1, <1>2
<1>9. call' \in [Threads -> Calls]
  <2>1. DOMAIN call' = Threads /\ call' = [u \in Threads |-> call'[u]]
    BY <1>1, <1>2
  <2>2. \A u \in Threads : call'[u] \in Calls
    BY <1>2, <1>7, <1>8
  <2>3. QED
    BY <2>1, <2>2
<1>10. QED
  BY <1>2, <1>3, <1>5, <1>6, <1>8, <1>9 DEF CallsFit

\* A call of the locks begins.
LEMMA ProceedLocks ==
  ASSUME WInv, HInv, WInv', NEW t \in Threads, Proceed(t), Head(job[t]) \notin TableCalls
  PROVE  HInv'
<1>0. /\ job \in [Threads -> Rests] /\ sync \in [Threads -> Labels]
      /\ job' = [job EXCEPT ![t] = Tail(job[t])] /\ Calling(t, Head(job[t]))
      /\ UNCHANGED <<os, sem, rw, got, link, size, latch, call, cargo>>
  BY DEF Proceed, Calling, tableVars, WInv, IInv, SyncTypeOK
<1>1. Places /\ Place(t)
  BY DEF HInv, Places
<1>2. PICK s, j : /\ s = Head(job[t]) /\ j = Tail(job[t])
                  /\ \/ job[t] = ToYield /\ s = "unlock" /\ j = ToPost
                     \/ job[t] = ToPost /\ s = "post" /\ j = <<>>
                     \/ job[t] = ToLock /\ s = "wrlock" /\ j = ToDraw
                     \/ job[t] = ToUnlock /\ s = "unlock" /\ j = <<>>
  <2>1. job[t] \notin {ToInsert, ToDraw, ToDelete, ToLookup, ToForeach}
    BY RestsRun DEF TableCalls
  <2>2. job[t] \in {ToYield, ToPost, ToLock, ToUnlock}
    BY <1>1, <2>1, NextCall
  <2>3. QED
    BY <2>2, RestsRun
<1>3. /\ sync[t] = "none" /\ call[t].op = "none" /\ got[t]
  BY <1>1, NextCall
<1>4. /\ job'[t] = j /\ sync'[t] = s
      /\ \A u \in Threads \ {t} : job'[u] = job[u] /\ sync'[u] = sync[u]
  BY <1>0, <1>2 DEF Calling
<1>5. (Place(t))' /\ ((Draws(t))' <=> Draws(t)) /\ ((Posts(t))' <=> Posts(t))
  BY <1>0, <1>2, <1>3, <1>4, RestsDiffer
     DEF Place, InPlace, Draws, DrawsAt, Posts, PostsAt, Waiting, Returning
<1>6. OthersStay(t)
  BY <1>0, <1>4 DEF OthersStay
<1>7. Places'
  BY <1>1, <1>5, <1>6, OthersKeepPlace DEF Places
<1>8. Chained' = Chained /\ ToSet(AllOccupied)' = ToSet(AllOccupied) /\ IsWhole' /\ LinkType'
  BY <1>0, ChainsStay DEF HInv, Linkage
<1>9. CallsFit' /\ SizeFits' /\ NextFits'
  BY <1>0, <1>8 DEF HInv, Linkage, CallsFit, SizeFits, Lags, Leads, NextFits
<1>10. \A u \in Threads : /\ (Holds(u))' => Holds(u)
                          /\ (HasSlot(u))' => HasSlot(u)
                          /\ job'[u] = ToLookup => job[u] = ToLookup
  BY <1>0, <1>2, <1>4, RestsDiffer DEF Holds, HasSlot
<1>11. CargoFits' /\ SlotsFit'
  BY <1>0, <1>8, <1>10 DEF HInv, Linkage, CargoFits, SlotsFit
<1>12. Cardinality(Chained) \in Nat /\ sem.count \in Nat
  BY ChainedIsFinite DEF HInv, Linkage, WInv, IInv, SyncTypeOK, Semaphores
<1>13. Balanced(t)
  BY <1>0, <1>5, <1>8, <1>12 DEF Balanced, Bit
<1>14. CountMatchesNodes'
  BY <1>0, <1>1, <1>5, <1>6, <1>8, <1>12, <1>13, CountStays DEF HInv, Places
<1>15. QED
  BY <1>7, <1>8, <1>9, <1>11, <1>14 DEF HInv, Linkage

\* A call of the table begins.
LEMMA ProceedTable ==
  ASSUME WInv, HInv, WInv', NEW t \in Threads, Proceed(t), Head(job[t]) \in TableCalls
  PROVE  HInv'
<1>0. /\ job \in [Threads -> Rests] /\ job' = [job EXCEPT ![t] = Tail(job[t])]
      /\ Enter(t, Head(job[t]), cargo[t])
      /\ UNCHANGED <<os, sem, rw, sync, got, cargo>>
  BY DEF Proceed, syncVars, WInv
<1>1. Places /\ Place(t)
  BY DEF HInv, Places
<1>2. PICK op, j : /\ op = Head(job[t]) /\ j = Tail(job[t])
                  /\ \/ job[t] = ToInsert /\ op = "insert" /\ j = ToYield /\ t \in rw.readers
                     \/ job[t] = ToDraw /\ op = "random" /\ j = ToDelete /\ rw.writer = t
                     \/ job[t] = ToDelete /\ op = "delete" /\ j = ToUnlock /\ rw.writer = t
                     \/ job[t] = ToLookup /\ op = "lookup" /\ j = ToUnlock
                     \/ job[t] = ToForeach /\ op = "foreach" /\ j = ToUnlock
  <2>1. job[t] \notin {ToYield, ToPost, ToLock, ToUnlock}
    BY RestsRun DEF TableCalls
  <2>2. \/ job[t] = ToInsert /\ t \in rw.readers
        \/ job[t] = ToDraw /\ rw.writer = t
        \/ job[t] = ToDelete /\ rw.writer = t
        \/ job[t] = ToLookup \/ job[t] = ToForeach
    BY <1>1, <2>1, NextCall
  <2>3. QED
    BY <2>2, RestsRun
<1>3. /\ sync[t] = "none" /\ call[t].op = "none" /\ got[t]
  BY <1>1, NextCall
<1>a. op \in Ops \ {"none"}
  BY <1>2 DEF Ops
<1>b. CallsFit /\ SizeFits /\ cargo[t] \in Nodes \cup {Null}
  BY DEF HInv, Linkage, CargoFits
<1>c. Enter(t, op, cargo[t])
  BY <1>0, <1>2
<1>d. PICK node \in Nodes \cup {Null} : node = cargo[t]
  BY <1>b
<1>4. /\ call' \in [Threads -> Calls] /\ call[t].op = "none" /\ call[t].step = 0
      /\ call'[t].op = op /\ call'[t].step = 1 /\ call'[t].node = node /\ call'[t].slot = call[t].slot
      /\ op = "random" /\ size > 0 => call'[t].index < size
      /\ \A u \in Threads \ {t} : call'[u] = call[u]
      /\ UNCHANGED <<link, size, latch>>
  BY <1>a, <1>b, <1>c, <1>d, EnterIs
<1>5. job'[t] = j /\ \A u \in Threads \ {t} : job'[u] = job[u]
  BY <1>0, <1>2
<1>6. (Place(t))' /\ ((Draws(t))' <=> Draws(t)) /\ ((Posts(t))' <=> Posts(t))
  <2>1. /\ InPlace(job[t], "none", "none", TRUE, t \in rw.readers, rw.writer = t)
        /\ Draws(t) <=> DrawsAt(job[t], "none", "none", 0, TRUE)
        /\ Posts(t) <=> PostsAt(job[t], "none", "none", 0)
    BY <1>1, <1>3, <1>4 DEF Place, Draws, Posts, InPlace, DrawsAt
  <2>2. /\ (Place(t))' <=> InPlace(j, "none", op, TRUE, t \in rw.readers, rw.writer = t)
        /\ (Draws(t))' <=> DrawsAt(j, "none", op, 1, TRUE)
        /\ (Posts(t))' <=> PostsAt(j, "none", op, 1)
    BY <1>0, <1>3, <1>4, <1>5 DEF Place, Draws, Posts, InPlace, DrawsAt
  <2>3. /\ InPlace(j, "none", op, TRUE, t \in rw.readers, rw.writer = t)
        /\ DrawsAt(job[t], "none", "none", 0, TRUE) <=> DrawsAt(j, "none", op, 1, TRUE)
        /\ PostsAt(job[t], "none", "none", 0) <=> PostsAt(j, "none", op, 1)
    <3>1. CASE op = "insert"
      BY <1>2, <3>1, RestsDiffer DEF InPlace, DrawsAt, PostsAt
    <3>2. CASE op = "random"
      BY <1>2, <3>2, RestsDiffer DEF InPlace, DrawsAt, PostsAt
    <3>3. CASE op = "delete"
      BY <1>2, <3>3, RestsDiffer DEF InPlace, DrawsAt, PostsAt
    <3>4. CASE op \in {"lookup", "foreach"}
      BY <1>2, <3>4, RestsDiffer DEF InPlace, DrawsAt, PostsAt
    <3>5. QED
      BY <1>2, <3>1, <3>2, <3>3, <3>4
  <2>4. QED
    BY <2>1, <2>2, <2>3
<1>7. OthersStay(t)
  BY <1>0, <1>4, <1>5 DEF OthersStay
<1>8. Places'
  BY <1>1, <1>6, <1>7, OthersKeepPlace DEF Places
<1>9. Chained' = Chained /\ ToSet(AllOccupied)' = ToSet(AllOccupied) /\ IsWhole' /\ LinkType'
  BY <1>4, ChainsStay DEF HInv, Linkage
<1>10. \A u \in Threads : /\ (Lags(u))' <=> Lags(u)
                          /\ (Leads(u))' <=> Leads(u)
  BY <1>2, <1>4 DEF Lags, Leads
<1>11. CallsFit'
  <2>1. latch # t
    BY <1>4 DEF HInv, Linkage, CallsFit
  <2>2. ASSUME NEW u \in Threads
        PROVE  /\ call'[u].op = "none" => call'[u].step = 0
               /\ call'[u].op = "insert" => call'[u].step \in 1 .. 4
               /\ call'[u].op = "delete" => call'[u].step \in 1 .. 3
               /\ call'[u].op \in {"lookup", "random", "foreach"} => call'[u].step \in 1 .. 2
               /\ call'[u].step >= 2 <=> latch' = u
    <3>1. CASE u = t
      BY <1>2, <1>4, <2>1, <3>1
    <3>2. CASE u # t
      BY <1>4, <3>2 DEF HInv, Linkage, CallsFit
    <3>3. QED
      BY <3>1, <3>2
  <2>3. QED
    BY <1>4, <1>b, <2>2 DEF CallsFit
<1>12. SizeFits'
  BY <1>4, <1>9, <1>10, <1>b DEF SizeFits
<1>13. NextFits'
  BY <1>4 DEF HInv, Linkage, NextFits
<1>14. CargoFits'
  <2>0. (Holds(t))' => Holds(t)
    BY <1>2, <1>4, <1>5, RestsDiffer DEF Holds
  <2>1. \A u \in Threads : (Holds(u))' => Holds(u)
    BY <1>4, <1>5, <2>0 DEF Holds
  <2>2. \A u \in Threads : job'[u] = ToLookup => job[u] = ToLookup
    BY <1>2, <1>5, RestsDiffer
  <2>3. op = "lookup" => job[t] = ToLookup
    BY <1>2
  <2>4. ASSUME NEW u \in Threads
        PROVE  /\ call'[u].op = "insert" => call'[u].node = cargo[u]
               /\ call'[u].op = "lookup" => call'[u].node \in Nodes
    <3>1. CASE u = t
      BY <1>4, <1>d, <2>3, <3>1 DEF HInv, Linkage, CargoFits
    <3>2. CASE u # t
      BY <1>4, <3>2 DEF HInv, Linkage, CargoFits
    <3>3. QED
      BY <3>1, <3>2
  <2>5. QED
    BY <1>0, <1>9, <2>1, <2>2, <2>4 DEF HInv, Linkage, CargoFits
<1>15. SlotsFit'
  <2>1. \A u \in Threads : (HasSlot(u))' => HasSlot(u)
    BY <1>2, <1>3, <1>4, <1>5, RestsDiffer DEF HasSlot
  <2>2. \A u \in Threads : call'[u].slot = call[u].slot
    BY <1>4
  <2>3. op = "random" => call'[t].index < Cardinality(Chained)
    <3> SUFFICES ASSUME op = "random" PROVE call'[t].index < Cardinality(Chained)
      OBVIOUS
    <3>1. rw.writer = t /\ job[t] = ToDraw
      BY <1>2
    <3>2. Draws(t)
      BY <1>3, <3>1 DEF Draws, DrawsAt
    <3>3. size = Cardinality(Chained) /\ Cardinality(Chained) > 0
      BY <1>3, <3>1, <3>2, DrawSeesSize
    <3>4. QED
      BY <1>4, <3>3
  <2>4. \A u \in Threads : call'[u].op = "random" => call'[u].index < Cardinality(Chained)
    <3> SUFFICES ASSUME NEW u \in Threads, call'[u].op = "random"
                 PROVE  call'[u].index < Cardinality(Chained)
      OBVIOUS
    <3>1. CASE u = t
      BY <1>4, <2>3, <3>1
    <3>2. CASE u # t
      BY <1>4, <3>2 DEF HInv, Linkage, SlotsFit
    <3>3. QED
      BY <3>1, <3>2
  <2>5. QED
    BY <1>9, <2>1, <2>2, <2>4 DEF HInv, Linkage, SlotsFit
<1>16. Cardinality(Chained) \in Nat /\ sem.count \in Nat
  BY ChainedIsFinite DEF HInv, Linkage, WInv, IInv, SyncTypeOK, Semaphores
<1>17. Balanced(t)
  BY <1>0, <1>6, <1>9, <1>16 DEF Balanced, Bit
<1>18. CountMatchesNodes'
  BY <1>0, <1>1, <1>6, <1>7, <1>9, <1>16, <1>17, CountStays DEF HInv, Places
<1>19. QED
  BY <1>8, <1>9, <1>11, <1>12, <1>13, <1>14, <1>15, <1>18 DEF HInv, Linkage

\* The latch is had by one thread: no other is inside a call.
LEMMA LatchIsOnly ==
  ASSUME CallsFit, NEW t \in Threads, call[t].step >= 2, NEW u \in Threads \ {t}
  PROVE  call[u].step < 2 /\ ~Lags(u) /\ ~Leads(u) /\ latch = t /\ latch # u
<1>1. call[t].step >= 2 <=> latch = t
  BY DEF CallsFit
<1>2. call[u].step >= 2 <=> latch = u
  BY DEF CallsFit
<1>3. call[u].step \in Nat
  BY DEF CallsFit, Calls
<1>4. QED
  BY <1>1, <1>2, <1>3 DEF Lags, Leads

LEMMA CallMoves ==
  ASSUME CallsFit, NEW t \in Threads, NEW c \in Calls,
         call' = [u \in Threads |-> call'[u]], call'[t] = c, \A u \in Threads \ {t} : call'[u] = call[u],
         call[t].step >= 2 \/ latch = Nobody,
         \/ c.op = "none" /\ c.step = 0 /\ latch' = Nobody
         \/ c.op = "insert" /\ c.step \in 2 .. 4 /\ latch' = t
         \/ c.op = "delete" /\ c.step \in 2 .. 3 /\ latch' = t
         \/ c.op \in {"lookup", "random", "foreach"} /\ c.step = 2 /\ latch' = t
  PROVE  CallsFit' /\ call'[t] = c /\ \A u \in Threads \ {t} : call'[u] = call[u]
<1>1. call \in [Threads -> Calls]
  BY DEF CallsFit
<1>2. call'[t] = c /\ \A u \in Threads \ {t} : call'[u] = call[u]
  OBVIOUS
<1>3. call' \in [Threads -> Calls]
  <2>1. \A u \in Threads : call'[u] \in Calls
    BY <1>1
  <2>2. QED
    BY <2>1
<1>4. ASSUME NEW u \in Threads \ {t}
      PROVE  /\ call[u].step < 2 /\ latch' # u
  <2>0. call[u].step \in Nat
    BY <1>1 DEF Calls
  <2>1. call[u].step < 2
    <3>1. CASE call[t].step >= 2
      BY <3>1, LatchIsOnly
    <3>2. CASE latch = Nobody
      BY <2>0, <3>2, ThreadingAssumption DEF CallsFit
    <3>3. QED
      BY <3>1, <3>2
  <2>2. latch' # u
    BY ThreadingAssumption
  <2>3. QED
    BY <2>1, <2>2
<1>5. ASSUME NEW u \in Threads
      PROVE  /\ call'[u].op = "none" => call'[u].step = 0
             /\ call'[u].op = "insert" => call'[u].step \in 1 .. 4
             /\ call'[u].op = "delete" => call'[u].step \in 1 .. 3
             /\ call'[u].op \in {"lookup", "random", "foreach"} => call'[u].step \in 1 .. 2
             /\ call'[u].step >= 2 <=> latch' = u
  <2>1. CASE u = t
    BY <1>2, <2>1, ThreadingAssumption
  <2>2. CASE u # t
    <3>1. call'[u] = call[u] /\ call[u].step < 2 /\ latch' # u /\ call[u].step \in Nat
      BY <1>1, <1>2, <1>4, <2>2 DEF Calls
    <3>2. ~(call[u].step >= 2)
      BY <3>1
    <3>3. QED
      BY <3>1, <3>2 DEF CallsFit
  <2>3. QED
    BY <2>1, <2>2
<1>6. latch' \in Threads \cup {Nobody}
  OBVIOUS
<1>7. QED
  BY <1>2, <1>3, <1>5, <1>6 DEF CallsFit

\* The call is over.
LEMMA Leaves ==
  ASSUME CallsFit, NEW t \in Threads, call[t].step >= 2,
         NEW node \in Nodes \cup {Null}, NEW slot \in Slots \cup {Null}, Leave(t, node, slot)
  PROVE  /\ CallsFit' /\ call'[t].op = "none" /\ call'[t].step = 0 /\ call'[t].slot = slot
         /\ \A u \in Threads \ {t} : call'[u] = call[u]
<1>1. PICK c : c = [Idle EXCEPT !.node = node, !.slot = slot]
  OBVIOUS
<1>2. c.op = "none" /\ c.step = 0 /\ c.slot = slot
  BY <1>1 DEF Idle
<1>3. c \in Calls
  <2>1. Idle \in Calls
    BY DEF Idle, Calls, Ops
  <2>2. QED
    BY <1>1, <2>1 DEF Calls
<1>4. call \in [Threads -> Calls] /\ call' = [call EXCEPT ![t] = c] /\ latch' = Nobody
  BY <1>1 DEF Leave, CallsFit
<1>5. /\ call' = [u \in Threads |-> call'[u]] /\ call'[t] = c
      /\ \A u \in Threads \ {t} : call'[u] = call[u]
  BY <1>4
<1>6. CallsFit'
  BY <1>2, <1>3, <1>4, <1>5, CallMoves
<1>7. QED
  BY <1>2, <1>5, <1>6

\* The call goes on.
LEMMA GoesOn ==
  ASSUME CallsFit, NEW t \in Threads, call[t].step >= 2,
         \/ call[t].op = "insert" /\ call[t].step < 4
         \/ call[t].op = "delete" /\ call[t].step < 3,
         NEW node \in Nodes \cup {Null}, NextStep(t, node)
  PROVE  /\ CallsFit' /\ call'[t].op = call[t].op /\ call'[t].step = call[t].step + 1
         /\ call'[t].node = node /\ call'[t].slot = call[t].slot
         /\ \A u \in Threads \ {t} : call'[u] = call[u]
<1>1. call \in [Threads -> Calls] /\ call[t] \in Calls /\ (call[t].step >= 2 <=> latch = t)
  BY DEF CallsFit
<1>2. call' = [call EXCEPT ![t].step = @ + 1, ![t].node = node] /\ latch' = latch
  BY DEF NextStep
<1>3. PICK c : c = call'[t]
  OBVIOUS
<1>4. c = [op |-> call[t].op, step |-> call[t].step + 1, node |-> node,
           slot |-> call[t].slot, index |-> call[t].index]
  BY <1>1, <1>2, <1>3 DEF Calls
<1>5. c \in Calls
  BY <1>1, <1>4 DEF Calls
<1>6. call[t].step \in Nat /\ c.op = call[t].op /\ c.step = call[t].step + 1 /\ c.node = node /\ c.slot = call[t].slot
  BY <1>1, <1>4 DEF Calls
<1>7. call' = [u \in Threads |-> call'[u]] /\ \A u \in Threads \ {t} : call'[u] = call[u]
  BY <1>1, <1>2
<1>8. CallsFit'
  <2>1. call[t].op = "insert" => c.step \in 2 .. 4
    BY <1>6
  <2>2. call[t].op = "delete" => c.step \in 2 .. 3
    BY <1>6
  <2>3. latch' = t
    BY <1>1, <1>2
  <2>4. \/ c.op = "insert" /\ c.step \in 2 .. 4 /\ latch' = t
        \/ c.op = "delete" /\ c.step \in 2 .. 3 /\ latch' = t
    BY <1>6, <2>1, <2>2, <2>3
  <2>5. QED
    BY <1>3, <1>5, <1>7, <2>4, CallMoves
<1>9. QED
  BY <1>3, <1>6, <1>7, <1>8

LEMMA Latches ==
  ASSUME CallsFit, NEW t \in Threads, AcquireLatch(t)
  PROVE  /\ CallsFit' /\ call[t].step = 1 /\ call'[t].op = call[t].op /\ call'[t].step = 2
         /\ call'[t].node = call[t].node /\ call'[t].slot = call[t].slot /\ call'[t].index = call[t].index
         /\ \A u \in Threads \ {t} : call'[u] = call[u]
<1>1. call \in [Threads -> Calls] /\ call[t] \in Calls /\ call[t].step = 1 /\ latch = Nobody /\ latch' = t
  BY DEF CallsFit, AcquireLatch
<1>2. call' = [call EXCEPT ![t].step = 2]
  BY DEF AcquireLatch
<1>3. PICK c : c = call'[t]
  OBVIOUS
<1>4. c = [op |-> call[t].op, step |-> 2, node |-> call[t].node,
           slot |-> call[t].slot, index |-> call[t].index]
  BY <1>1, <1>2, <1>3 DEF Calls
<1>5. c \in Calls
  BY <1>1, <1>4 DEF Calls
<1>6. c.op = call[t].op /\ c.step = 2 /\ c.node = call[t].node /\ c.slot = call[t].slot /\ c.index = call[t].index
  BY <1>4
<1>7. call' = [u \in Threads |-> call'[u]] /\ \A u \in Threads \ {t} : call'[u] = call[u]
  BY <1>1, <1>2
<1>8. call[t].op # "none" /\ call[t].op \in Ops
  BY <1>1 DEF CallsFit, Calls
<1>9. \/ c.op = "insert" /\ c.step \in 2 .. 4 /\ latch' = t
      \/ c.op = "delete" /\ c.step \in 2 .. 3 /\ latch' = t
      \/ c.op \in {"lookup", "random", "foreach"} /\ c.step = 2 /\ latch' = t
  BY <1>1, <1>6, <1>8 DEF Ops
<1>10. CallsFit'
  BY <1>1, <1>3, <1>5, <1>7, <1>9, CallMoves
<1>11. QED
  BY <1>1, <1>3, <1>6, <1>7, <1>10

\* A step of a call of the table leaves everybody where they are in their jobs.
LEMMA TableCommon ==
  ASSUME WInv, HInv, NEW t \in Threads, UNCHANGED <<syncVars, job, cargo>>,
         \A u \in Threads \ {t} : call'[u] = call[u], call'[t].op \in {call[t].op, "none"}
  PROVE  /\ Places' /\ (Place(t))' /\ OthersStay(t)
         /\ sem' = sem /\ rw' = rw /\ sync' = sync /\ got' = got
         /\ Cardinality(Chained) \in Nat /\ sem.count \in Nat /\ Chained \subseteq Nodes
<1>1. sem' = sem /\ rw' = rw /\ sync' = sync /\ got' = got
  BY DEF syncVars
<1>2. Places /\ Place(t)
  BY DEF HInv, Places
<1>3. (Place(t))'
  BY <1>1, <1>2, RestsDiffer DEF Place, InPlace
<1>4. OthersStay(t)
  BY <1>1 DEF OthersStay
<1>5. Places'
  BY <1>2, <1>3, <1>4, OthersKeepPlace DEF Places
<1>6. Cardinality(Chained) \in Nat /\ sem.count \in Nat /\ Chained \subseteq Nodes
  BY ChainedIsFinite DEF HInv, Linkage, WInv, IInv, SyncTypeOK, Semaphores
<1>7. QED
  BY <1>1, <1>3, <1>4, <1>5, <1>6

\* A step that moves no link and no count.
LEMMA StillStep ==
  ASSUME WInv, HInv, NEW t \in Threads, UNCHANGED <<syncVars, job, cargo, link, size>>,
         \A u \in Threads \ {t} : call'[u] = call[u],
         \/ /\ call'[t].op = call[t].op /\ call[t].step = 1 /\ call'[t].step = 2
            /\ call'[t].node = call[t].node /\ call'[t].slot = call[t].slot /\ call'[t].index = call[t].index
         \/ /\ call[t].op \in {"lookup", "random", "foreach"} /\ call'[t].op = "none" /\ call'[t].step = 0
            /\ call[t].op = "random" => call'[t].slot \in ToSet(AllOccupied),
         CallsFit'
  PROVE  HInv'
<1>1. /\ Places' /\ (Place(t))' /\ OthersStay(t)
      /\ sem' = sem /\ rw' = rw /\ sync' = sync /\ got' = got /\ job' = job /\ cargo' = cargo
      /\ Cardinality(Chained) \in Nat /\ sem.count \in Nat
  BY TableCommon
<1>2. Place(t)
  BY DEF HInv, Places
<1>3. Chained' = Chained /\ ToSet(AllOccupied)' = ToSet(AllOccupied) /\ IsWhole' /\ LinkType'
  BY ChainsStay DEF HInv, Linkage
<1>4. ((Draws(t))' <=> Draws(t)) /\ ((Posts(t))' <=> Posts(t))
  <2>1. CASE call'[t].op = call[t].op /\ call[t].step = 1 /\ call'[t].step = 2
    BY <1>1, <2>1 DEF Draws, DrawsAt, Posts, PostsAt
  <2>2. CASE call[t].op \in {"lookup", "random", "foreach"} /\ call'[t].op = "none"
    BY <1>1, <2>2 DEF Draws, DrawsAt, Posts, PostsAt
  <2>3. QED
    BY <2>1, <2>2
<1>5. \A u \in Threads : ((Lags(u))' <=> Lags(u)) /\ ((Leads(u))' <=> Leads(u))
  BY DEF Lags, Leads
<1>6. SizeFits'
  BY <1>3, <1>5 DEF HInv, Linkage, SizeFits
<1>7. NextFits'
  BY DEF HInv, Linkage, NextFits
<1>8. CargoFits'
  <2>0. (Holds(t))' => Holds(t)
    <3>1. call'[t].op = "insert" => call[t].op = "insert" /\ call[t].step <= 3
      OBVIOUS
    <3>2. QED
      BY <1>1, <3>1 DEF Holds
  <2>1. \A u \in Threads : (Holds(u))' => Holds(u)
    BY <1>1, <2>0 DEF Holds
  <2>2. \A u \in Threads :
          /\ call'[u].op = "insert" => call[u].op = "insert" /\ call'[u].node = call[u].node
          /\ call'[u].op = "lookup" => call[u].op = "lookup" /\ call'[u].node = call[u].node
    OBVIOUS
  <2>3. QED
    BY <1>1, <1>3, <2>1, <2>2 DEF HInv, Linkage, CargoFits
<1>9. SlotsFit'
  <2>1. (HasSlot(t))' => call'[t].slot \in ToSet(AllOccupied)
    <3>1. CASE call'[t].op = call[t].op /\ call[t].step = 1 /\ call'[t].step = 2 /\ call'[t].slot = call[t].slot
      BY <1>1, <3>1 DEF HInv, Linkage, SlotsFit, HasSlot
    <3>2. CASE /\ call[t].op \in {"lookup", "random", "foreach"} /\ call'[t].op = "none" /\ call'[t].step = 0
               /\ call[t].op = "random" => call'[t].slot \in ToSet(AllOccupied)
      <4>1. CASE job[t] = ToDelete
        BY <1>2, <3>2, <4>1, RestsDiffer DEF Place, InPlace
      <4>2. CASE job[t] # ToDelete
        BY <1>1, <3>2, <4>2 DEF HasSlot
      <4>3. QED
        BY <4>1, <4>2
    <3>3. QED
      BY <3>1, <3>2
  <2>2. ASSUME NEW u \in Threads \ {t}
        PROVE  /\ (HasSlot(u))' => call'[u].slot \in ToSet(AllOccupied)
               /\ call'[u].op = "random" => call'[u].index < Cardinality(Chained)
    BY <1>1 DEF HInv, Linkage, SlotsFit, HasSlot
  <2>3. call'[t].op = "random" => call'[t].index < Cardinality(Chained)
    BY DEF HInv, Linkage, SlotsFit
  <2>4. QED
    BY <1>3, <2>1, <2>2, <2>3 DEF SlotsFit
<1>10. Balanced(t)
  BY <1>1, <1>3, <1>4 DEF Balanced, Bit
<1>11. CountMatchesNodes'
  BY <1>1, <1>3, <1>4, <1>10, CountStays DEF HInv, Places
<1>12. QED
  BY <1>1, <1>3, <1>6, <1>7, <1>8, <1>9, <1>11 DEF HInv, Linkage

LEMMA AcquireLatchStep ==
  ASSUME WInv, HInv, NEW t \in Threads, AcquireLatch(t), UNCHANGED <<syncVars, job, cargo>>
  PROVE  HInv'
<1>1. CallsFit
  BY DEF HInv, Linkage
<1>2. /\ CallsFit' /\ call[t].step = 1 /\ call'[t].op = call[t].op /\ call'[t].step = 2
      /\ call'[t].node = call[t].node /\ call'[t].slot = call[t].slot /\ call'[t].index = call[t].index
      /\ \A u \in Threads \ {t} : call'[u] = call[u]
  BY <1>1, Latches
<1>3. UNCHANGED <<link, size>>
  BY DEF AcquireLatch
<1>4. QED
  BY <1>2, <1>3, StillStep

LEMMA FindStep ==
  ASSUME WInv, HInv, NEW t \in Threads, Lookup(t) \/ Random(t) \/ Foreach(t), UNCHANGED <<syncVars, job, cargo>>
  PROVE  HInv'
<1>1. CallsFit /\ IsWhole
  BY DEF HInv, Linkage
<1>2. UNCHANGED <<link, size>> /\ call[t].step >= 2 /\ call[t].op \in {"lookup", "random", "foreach"}
  BY DEF Lookup, Random, Foreach
<1>3. PICK node \in Nodes \cup {Null}, slot \in Slots \cup {Null} :
        /\ Leave(t, node, slot)
        /\ call[t].op = "random" => slot \in ToSet(AllOccupied)
  <2>1. CASE Lookup(t)
    <3> PICK key : key = call[t].node
      OBVIOUS
    <3> DEFINE hits == {s \in ToSet(Occupied(Hash[key])) : link[s] = key}
               slot == IF hits = {} THEN Null ELSE CHOOSE s \in hits : TRUE
    <3>1. call[t].op = "lookup" /\ Leave(t, key, slot)
      BY <2>1 DEF Lookup
    <3>2. key \in Nodes /\ Hash[key] \in 1 .. Cap
      BY <3>1, HashTableAssumption DEF HInv, Linkage, CargoFits
    <3>3. Occupied(Hash[key]) \in Seq(Slots)
      BY <1>1, <3>2, WholeIs
    <3>4. ToSet(Occupied(Hash[key])) \subseteq Slots
      BY <3>3 DEF ToSet
    <3>5. slot \in Slots \cup {Null}
      BY <3>4
    <3> HIDE DEF slot
    <3>6. QED
      BY <3>1, <3>2, <3>5
  <2>2. CASE Random(t)
    <3>1. call[t].op = "random" /\ call[t].index \in Nat /\ call[t].index < Cardinality(Chained)
      BY <2>2 DEF Random, HInv, Linkage, SlotsFit, CallsFit, Calls
    <3>2. AllOccupied \in Seq(Slots) /\ Len(AllOccupied) = Cardinality(Chained)
      BY <1>1, WholeIs
    <3>3. PICK target : target = call[t].index + 1
      OBVIOUS
    <3>4. PICK n \in Nat : n = Len(AllOccupied) /\ n = Cardinality(Chained)
      BY <1>1, <3>2, ChainedIsFinite
    <3>5. target \in 1 .. n /\ target <= n
      BY <3>1, <3>3, <3>4
    <3>6. Leave(t, Null, AllOccupied[target])
      BY <2>2, <3>3, <3>4, <3>5 DEF Random
    <3>7. DOMAIN AllOccupied = 1 .. n /\ AllOccupied[target] \in Slots
      BY <3>2, <3>4, <3>5, LenProperties, ElementOfSeq
    <3>8. AllOccupied[target] \in ToSet(AllOccupied)
      BY <3>5, <3>7 DEF ToSet
    <3>9. QED
      BY <3>6, <3>7, <3>8
  <2>3. CASE Foreach(t)
    BY <2>3 DEF Foreach
  <2>4. QED
    BY <2>1, <2>2, <2>3
<1>4. /\ CallsFit' /\ call'[t].op = "none" /\ call'[t].step = 0 /\ call'[t].slot = slot
      /\ \A u \in Threads \ {t} : call'[u] = call[u]
  BY <1>1, <1>2, <1>3, Leaves
<1>5. QED
  BY <1>2, <1>3, <1>4, StillStep

LEMMA CountStep ==
  ASSUME WInv, HInv, NEW t \in Threads, CountIn(t) \/ CountOut(t), UNCHANGED <<syncVars, job, cargo>>
  PROVE  HInv'
<1>1. CallsFit /\ IsWhole
  BY DEF HInv, Linkage
<1>2. /\ link' = link /\ call[t].step >= 2
      /\ \/ call[t].op = "insert" /\ call[t].step = 4 /\ size' = size + 1
         \/ call[t].op = "delete" /\ call[t].step = 3 /\ size' = size - 1
  BY DEF CountIn, CountOut
<1>3. PICK node : node = call[t].node
  OBVIOUS
<1>4. node \in Nodes \cup {Null} /\ Leave(t, node, Null)
  BY <1>1, <1>3 DEF CallsFit, Calls, CountIn, CountOut
<1>5. /\ CallsFit' /\ call'[t].op = "none" /\ call'[t].step = 0
      /\ \A u \in Threads \ {t} : call'[u] = call[u]
  BY <1>1, <1>2, <1>4, Leaves
<1>6. /\ Places' /\ (Place(t))' /\ OthersStay(t)
      /\ sem' = sem /\ rw' = rw /\ sync' = sync /\ got' = got /\ job' = job /\ cargo' = cargo
      /\ Cardinality(Chained) \in Nat /\ sem.count \in Nat
  BY <1>5, TableCommon
<1>7. Place(t)
  BY DEF HInv, Places
<1>8. Chained' = Chained /\ ToSet(AllOccupied)' = ToSet(AllOccupied) /\ IsWhole' /\ LinkType'
  BY <1>2, ChainsStay DEF HInv, Linkage
<1>9. /\ call[t].op = "insert" => job[t] = ToYield /\ sync[t] = "none"
      /\ call[t].op = "delete" => job[t] = ToUnlock /\ sync[t] = "none"
  BY <1>7, RestsDiffer DEF Place, InPlace
<1>10. ((Draws(t))' <=> Draws(t)) /\ ((Posts(t))' <=> Posts(t))
  <2>1. CASE call[t].op = "insert" /\ call[t].step = 4
    BY <1>5, <1>6, <1>9, <2>1, RestsDiffer DEF Draws, DrawsAt, Posts, PostsAt
  <2>2. CASE call[t].op = "delete" /\ call[t].step = 3
    BY <1>5, <1>6, <1>9, <2>2, RestsDiffer DEF Draws, DrawsAt, Posts, PostsAt
  <2>3. QED
    BY <1>2, <2>1, <2>2
<1>11. SizeFits'
  <2>1. \A u \in Threads \ {t} : ~Lags(u) /\ ~Leads(u)
    BY <1>1, <1>2, LatchIsOnly
  <2>2. \A u \in Threads : ~(Lags(u))' /\ ~(Leads(u))'
    BY <1>5, <2>1 DEF Lags, Leads
  <2>3. size \in Int /\ size' = Cardinality(Chained)
    <3>1. size \in Int /\ (Lags(t) => size = Cardinality(Chained) - 1)
                       /\ (Leads(t) => size = Cardinality(Chained) + 1)
      BY DEF HInv, Linkage, SizeFits
    <3>2. QED
      BY <1>2, <1>6, <3>1 DEF Lags, Leads
  <2>4. size' \in Int
    BY <1>2, <2>3
  <2>5. QED
    BY <1>8, <2>2, <2>3, <2>4 DEF SizeFits
<1>12. NextFits'
  BY <1>2, <1>5 DEF HInv, Linkage, NextFits
<1>13. CargoFits'
  <2>1. \A u \in Threads : (Holds(u))' => Holds(u)
    BY <1>5, <1>6 DEF Holds
  <2>2. \A u \in Threads :
          /\ call'[u].op = "insert" => call[u].op = "insert" /\ call'[u].node = call[u].node
          /\ call'[u].op = "lookup" => call[u].op = "lookup" /\ call'[u].node = call[u].node
    BY <1>5
  <2>3. QED
    BY <1>6, <1>8, <2>1, <2>2 DEF HInv, Linkage, CargoFits
<1>14. SlotsFit'
  <2>1. ~(HasSlot(t))'
    BY <1>2, <1>5, <1>6, <1>9, RestsDiffer DEF HasSlot
  <2>2. ASSUME NEW u \in Threads \ {t}
        PROVE  /\ (HasSlot(u))' => call'[u].slot \in ToSet(AllOccupied)
               /\ call'[u].op = "random" => call'[u].index < Cardinality(Chained)
    BY <1>5, <1>6 DEF HInv, Linkage, SlotsFit, HasSlot
  <2>3. call'[t].op # "random"
    BY <1>5
  <2>4. QED
    BY <1>8, <2>1, <2>2, <2>3 DEF SlotsFit
<1>15. Balanced(t)
  BY <1>6, <1>8, <1>10 DEF Balanced, Bit
<1>16. CountMatchesNodes'
  BY <1>6, <1>8, <1>10, <1>15, CountStays DEF HInv, Places
<1>17. QED
  BY <1>5, <1>6, <1>8, <1>11, <1>12, <1>13, <1>14, <1>16 DEF HInv, Linkage

\* While a node is being chained nobody writes, so nobody has a slot.
LEMMA NoSlots ==
  ASSUME WInv, HInv, NEW t \in Threads, call[t].op = "insert", NEW u \in Threads
  PROVE  ~HasSlot(u) /\ call[u].op # "random"
<1>1. Place(u)
  BY DEF HInv, Places
<1>2. HasSlot(u) \/ call[u].op = "random" => rw.writer = u
  BY <1>1, RestsDiffer DEF Place, InPlace, HasSlot
<1>3. rw.writer # u
  BY WriterIsOnly
<1>4. QED
  BY <1>2, <1>3

\* What an insert knows of its node.
LEMMA InsertsLoose ==
  ASSUME WInv, HInv, NEW t \in Threads, call[t].op = "insert", call[t].step \in 2 .. 3
  PROVE  /\ call[t].node \in Nodes /\ call[t].node \notin Chained /\ call[t].node = cargo[t]
         /\ Hash[call[t].node] \in 1 .. Cap
         /\ Holds(t) /\ job[t] = ToYield /\ sync[t] = "none"
         /\ size = Cardinality(Chained)
         /\ \A u \in Threads \ {t} : call[u].step < 2
<1>1. Holds(t)
  BY DEF Holds
<1>2. call[t].node \in Nodes /\ call[t].node \notin Chained /\ call[t].node = cargo[t]
  BY <1>1 DEF HInv, Linkage, CargoFits
<1>3. Hash[call[t].node] \in 1 .. Cap
  BY <1>2, HashTableAssumption
<1>4. CallsFit /\ call[t].step >= 2
  BY DEF HInv, Linkage
<1>5. \A u \in Threads \ {t} : call[u].step < 2 /\ ~Lags(u) /\ ~Leads(u)
  BY <1>4, LatchIsOnly
<1>6. ~Lags(t) /\ ~Leads(t)
  BY DEF Lags, Leads
<1>7. size = Cardinality(Chained)
  BY <1>5, <1>6 DEF HInv, Linkage, SizeFits
<1>8. job[t] = ToYield /\ sync[t] = "none"
  BY RestsDiffer DEF HInv, Places, Place, InPlace
<1>9. QED
  BY <1>1, <1>2, <1>3, <1>5, <1>7, <1>8

LEMMA SetNextStep ==
  ASSUME WInv, HInv, NEW t \in Threads, SetNext(t), UNCHANGED <<syncVars, job, cargo>>
  PROVE  HInv'
<1> PICK n : n = call[t].node
  OBVIOUS
<1>1. CallsFit /\ IsWhole /\ LinkType
  BY DEF HInv, Linkage
<1>2. /\ call[t].op = "insert" /\ call[t].step = 2 /\ size' = size /\ NextStep(t, n)
      /\ link' = [link EXCEPT ![n] = link[Hash[n]]]
  BY DEF SetNext
<1>3. /\ n \in Nodes /\ n \notin Chained /\ n = cargo[t] /\ Hash[n] \in 1 .. Cap
      /\ Holds(t) /\ job[t] = ToYield /\ sync[t] = "none"
      /\ \A u \in Threads \ {t} : call[u].step < 2
  BY <1>2, InsertsLoose
<1>4. /\ CallsFit' /\ call'[t].op = "insert" /\ call'[t].step = 3 /\ call'[t].node = n
      /\ \A u \in Threads \ {t} : call'[u] = call[u]
  <2>1. n \in Nodes \cup {Null}
    BY <1>3
  <2>2. /\ CallsFit' /\ call'[t].op = call[t].op /\ call'[t].step = call[t].step + 1
        /\ call'[t].node = n
        /\ \A u \in Threads \ {t} : call'[u] = call[u]
    BY <1>1, <1>2, <2>1, GoesOn
  <2>3. QED
    BY <1>2, <2>2
<1>5. /\ Places' /\ (Place(t))' /\ OthersStay(t)
      /\ sem' = sem /\ rw' = rw /\ sync' = sync /\ got' = got /\ job' = job /\ cargo' = cargo
      /\ Cardinality(Chained) \in Nat /\ sem.count \in Nat
  BY <1>2, <1>4, TableCommon
<1>6. /\ IsWhole' /\ LinkType' /\ Chained' = Chained
      /\ link'[n] = link'[Hash[n]]
  <2>1. PICK v : v = link[Hash[n]]
    OBVIOUS
  <2>2. v \in Nodes \cup {Null}
    BY <1>1, <1>3, <2>1 DEF LinkType, Slots
  <2>3. link' = [link EXCEPT ![n] = v]
    BY <1>2, <2>1
  <2>4. IsWhole' /\ LinkType' /\ Chained' = Chained
    BY <1>1, <1>3, <2>2, <2>3, LooseNode
  <2>5. n # Hash[n] /\ n \in Slots /\ Hash[n] \in Slots
    BY <1>3, HashTableAssumption DEF Slots
  <2>6. QED
    BY <1>1, <2>1, <2>3, <2>4, <2>5 DEF LinkType
<1>7. ((Draws(t))' <=> Draws(t)) /\ ((Posts(t))' <=> Posts(t))
  BY <1>2, <1>4, <1>5 DEF Draws, DrawsAt, Posts, PostsAt
<1>8. \A u \in Threads : ((Lags(u))' <=> Lags(u)) /\ ((Leads(u))' <=> Leads(u))
  BY <1>2, <1>4 DEF Lags, Leads
<1>9. SizeFits'
  BY <1>2, <1>6, <1>8 DEF HInv, Linkage, SizeFits
<1>10. NextFits'
  <2>1. \A u \in Threads \ {t} : ~(call'[u].step = 3)
    BY <1>3, <1>4
  <2>2. QED
    BY <1>4, <1>6, <2>1 DEF NextFits
<1>11. CargoFits'
  <2>1. \A u \in Threads : (Holds(u))' => Holds(u)
    BY <1>3, <1>4, <1>5 DEF Holds
  <2>2. ASSUME NEW u \in Threads
        PROVE  /\ call'[u].op = "insert" => call'[u].node = cargo'[u]
               /\ call'[u].op = "lookup" => call'[u].node \in Nodes
    <3>1. CASE u = t
      BY <1>3, <1>4, <1>5, <3>1
    <3>2. CASE u # t
      BY <1>4, <1>5, <3>2 DEF HInv, Linkage, CargoFits
    <3>3. QED
      BY <3>1, <3>2
  <2>3. QED
    BY <1>5, <1>6, <2>1, <2>2 DEF HInv, Linkage, CargoFits
<1>12. SlotsFit'
  <2>1. \A u \in Threads : ~HasSlot(u) /\ call[u].op # "random"
    BY <1>2, NoSlots
  <2>2. \A u \in Threads : ~(HasSlot(u))' /\ call'[u].op # "random"
    BY <1>2, <1>4, <1>5, <2>1 DEF HasSlot
  <2>3. QED
    BY <2>2 DEF SlotsFit
<1>13. Balanced(t)
  BY <1>5, <1>6, <1>7 DEF Balanced, Bit
<1>14. CountMatchesNodes'
  BY <1>5, <1>6, <1>13, CountStays DEF HInv, Places
<1>15. QED
  BY <1>4, <1>5, <1>6, <1>9, <1>10, <1>11, <1>12, <1>14 DEF HInv, Linkage

LEMMA SetHeadStep ==
  ASSUME WInv, HInv, NEW t \in Threads, SetHead(t), UNCHANGED <<syncVars, job, cargo>>
  PROVE  HInv'
<1> PICK n : n = call[t].node
  OBVIOUS
<1>1. CallsFit /\ IsWhole /\ LinkType
  BY DEF HInv, Linkage
<1>2. /\ call[t].op = "insert" /\ call[t].step = 3 /\ size' = size /\ NextStep(t, n)
      /\ link' = [link EXCEPT ![Hash[n]] = n]
  BY DEF SetHead
<1>3. /\ n \in Nodes /\ n \notin Chained /\ n = cargo[t] /\ Hash[n] \in 1 .. Cap
      /\ Holds(t) /\ job[t] = ToYield /\ sync[t] = "none" /\ size = Cardinality(Chained)
      /\ \A u \in Threads \ {t} : call[u].step < 2
  BY <1>2, InsertsLoose
<1>4. /\ CallsFit' /\ call'[t].op = "insert" /\ call'[t].step = 4 /\ call'[t].node = n
      /\ \A u \in Threads \ {t} : call'[u] = call[u]
  <2>1. n \in Nodes \cup {Null}
    BY <1>3
  <2>2. /\ CallsFit' /\ call'[t].op = call[t].op /\ call'[t].step = call[t].step + 1
        /\ call'[t].node = n
        /\ \A u \in Threads \ {t} : call'[u] = call[u]
    BY <1>1, <1>2, <2>1, GoesOn
  <2>3. QED
    BY <1>2, <2>2
<1>5. /\ Places' /\ (Place(t))' /\ OthersStay(t)
      /\ sem' = sem /\ rw' = rw /\ sync' = sync /\ got' = got /\ job' = job /\ cargo' = cargo
      /\ Cardinality(Chained) \in Nat /\ sem.count \in Nat
  BY <1>2, <1>4, TableCommon
<1>6. IsWhole' /\ LinkType' /\ Chained' = Chained \cup {n}
  <2>1. link[n] = link[Hash[n]]
    BY <1>2 DEF HInv, Linkage, NextFits
  <2>2. QED
    BY <1>1, <1>2, <1>3, <2>1, NewHead
<1>7. Cardinality(Chained') = Cardinality(Chained) + 1
  <2>1. IsFiniteSet(Chained)
    BY <1>1, ChainedIsFinite
  <2>2. QED
    BY <1>3, <1>6, <2>1, FS_AddElement
<1>8. ((Draws(t))' <=> Draws(t)) /\ ~Posts(t) /\ (Posts(t))'
  BY <1>2, <1>3, <1>4, <1>5 DEF Draws, DrawsAt, Posts, PostsAt
<1>9. SizeFits'
  <2>1. \A u \in Threads \ {t} : ~(Lags(u))'
    BY <1>3, <1>4 DEF Lags
  <2>2. \A u \in Threads : ~(Leads(u))'
    BY <1>3, <1>4 DEF Leads
  <2>3. (Lags(t))'
    BY <1>4 DEF Lags
  <2>4. size' \in Int /\ size' = Cardinality(Chained') - 1
    BY <1>2, <1>3, <1>5, <1>7
  <2>5. QED
    BY <2>1, <2>2, <2>3, <2>4 DEF SizeFits
<1>10. NextFits'
  <2>1. \A u \in Threads : ~(call'[u].step = 3)
    BY <1>3, <1>4
  <2>2. QED
    BY <2>1 DEF NextFits
<1>11. CargoFits'
  <2>1. ~(Holds(t))'
    BY <1>3, <1>4, <1>5, RestsDiffer DEF Holds
  <2>2. \A u \in Threads \ {t} : ((Holds(u))' => Holds(u))
    BY <1>4, <1>5 DEF Holds
  <2>3. ASSUME NEW u \in Threads
        PROVE  /\ call'[u].op = "insert" => call'[u].node = cargo'[u]
               /\ call'[u].op = "lookup" => call'[u].node \in Nodes
    <3>1. CASE u = t
      BY <1>3, <1>4, <1>5, <3>1
    <3>2. CASE u # t
      BY <1>4, <1>5, <3>2 DEF HInv, Linkage, CargoFits
    <3>3. QED
      BY <3>1, <3>2
  <2>4. ASSUME NEW u \in Threads, (Holds(u))' PROVE cargo'[u] \in Nodes \ Chained'
    <3>1. u # t /\ Holds(u)
      BY <2>1, <2>2, <2>4
    <3>2. cargo[u] \in Nodes \ Chained /\ cargo[u] # n
      BY <1>3, <3>1 DEF HInv, Linkage, CargoFits
    <3>3. QED
      BY <1>5, <1>6, <3>2
  <2>5. \A u \in Threads : (Holds(u))' => Holds(u)
    BY <2>1, <2>2
  <2>6. QED
    BY <1>5, <2>3, <2>4, <2>5 DEF HInv, Linkage, CargoFits
<1>12. SlotsFit'
  <2>1. \A u \in Threads : ~HasSlot(u) /\ call[u].op # "random"
    BY <1>2, NoSlots
  <2>2. \A u \in Threads : ~(HasSlot(u))' /\ call'[u].op # "random"
    BY <1>2, <1>4, <1>5, <2>1 DEF HasSlot
  <2>3. QED
    BY <2>2 DEF SlotsFit
<1>13. Balanced(t)
  BY <1>5, <1>7, <1>8 DEF Balanced, Bit
<1>14. CountMatchesNodes'
  BY <1>5, <1>7, <1>13, CountStays DEF HInv, Places
<1>15. QED
  BY <1>4, <1>5, <1>6, <1>9, <1>10, <1>11, <1>12, <1>14 DEF HInv, Linkage

LEMMA UnlinkStep ==
  ASSUME WInv, HInv, NEW t \in Threads, Unlink(t, call[t].slot), UNCHANGED <<syncVars, job, cargo>>
  PROVE  HInv'
<1> PICK s : s = call[t].slot
  OBVIOUS
<1> PICK n : n = link[s]
  OBVIOUS
<1>1. CallsFit /\ IsWhole /\ LinkType
  BY DEF HInv, Linkage
<1>2. /\ call[t].op = "delete" /\ call[t].step = 2 /\ size' = size /\ NextStep(t, n)
      /\ link' = [link EXCEPT ![s] = link[n]]
  BY DEF Unlink
<1>3. HasSlot(t) /\ s \in ToSet(AllOccupied)
  BY <1>2 DEF HasSlot, HInv, Linkage, SlotsFit
<1>4. IsWhole' /\ LinkType' /\ n \in Chained /\ Chained' = Chained \ {n}
  BY <1>1, <1>2, <1>3, Unlinked
<1>5. IsFiniteSet(Chained) /\ Chained \subseteq Nodes
  BY <1>1, ChainedIsFinite
<1>6. Cardinality(Chained') = Cardinality(Chained) - 1
  BY <1>4, <1>5, FS_RemoveElement
<1>7. /\ CallsFit' /\ call'[t].op = "delete" /\ call'[t].step = 3
      /\ \A u \in Threads \ {t} : call'[u] = call[u]
  <2>1. n \in Nodes \cup {Null}
    BY <1>4, <1>5
  <2>2. /\ CallsFit' /\ call'[t].op = call[t].op /\ call'[t].step = call[t].step + 1
        /\ \A u \in Threads \ {t} : call'[u] = call[u]
    BY <1>1, <1>2, <2>1, GoesOn
  <2>3. QED
    BY <1>2, <2>2
<1>8. /\ Places' /\ (Place(t))' /\ OthersStay(t)
      /\ sem' = sem /\ rw' = rw /\ sync' = sync /\ got' = got /\ job' = job /\ cargo' = cargo
      /\ Cardinality(Chained) \in Nat /\ sem.count \in Nat
  BY <1>2, <1>7, TableCommon
<1>9. rw.writer = t /\ job[t] = ToUnlock /\ sync[t] = "none"
  <2>1. Place(t)
    BY DEF HInv, Places
  <2>2. QED
    BY <1>2, <2>1, RestsDiffer DEF Place, InPlace
<1>10. Draws(t) /\ ~(Draws(t))' /\ ((Posts(t))' <=> Posts(t))
  BY <1>2, <1>7, <1>8, <1>9, RestsDiffer DEF Draws, DrawsAt, Posts, PostsAt
<1>11. \A u \in Threads \ {t} : call[u].step < 2 /\ ~Lags(u) /\ ~Leads(u)
  BY <1>1, <1>2, LatchIsOnly
<1>12. SizeFits'
  <2>1. \A u \in Threads : ~Lags(u) /\ ~Leads(u)
    BY <1>2, <1>11 DEF Lags, Leads
  <2>2. size = Cardinality(Chained)
    BY <2>1 DEF HInv, Linkage, SizeFits
  <2>3. \A u \in Threads \ {t} : ~(Lags(u))' /\ ~(Leads(u))'
    BY <1>7, <1>11 DEF Lags, Leads
  <2>4. ~(Lags(t))' /\ (Leads(t))'
    BY <1>7 DEF Lags, Leads
  <2>5. size' \in Int /\ size' = Cardinality(Chained') + 1
    BY <1>2, <1>6, <1>8, <2>2
  <2>6. QED
    BY <2>3, <2>4, <2>5 DEF SizeFits
<1>13. NextFits'
  <2>1. \A u \in Threads \ {t} : ~(call'[u].step = 3)
    BY <1>7, <1>11
  <2>2. QED
    BY <1>7, <2>1 DEF NextFits
<1>14. CargoFits'
  <2>1. \A u \in Threads : (Holds(u))' => Holds(u)
    BY <1>7, <1>8 DEF Holds
  <2>2. \A u \in Threads :
          /\ call'[u].op = "insert" => call[u].op = "insert" /\ call'[u].node = call[u].node
          /\ call'[u].op = "lookup" => call[u].op = "lookup" /\ call'[u].node = call[u].node
    BY <1>7
  <2>3. Chained' \subseteq Chained
    BY <1>4
  <2>4. QED
    BY <1>8, <2>1, <2>2, <2>3 DEF HInv, Linkage, CargoFits
<1>15. SlotsFit'
  <2>1. ASSUME NEW u \in Threads PROVE ~(HasSlot(u))' /\ call'[u].op # "random"
    <3>1. CASE u = t
      BY <1>7, <1>8, <1>9, <3>1, RestsDiffer DEF HasSlot
    <3>2. CASE u # t
      <4>1. ~HasSlot(u) /\ call[u].op # "random"
        BY <1>9, <3>2, WriterIsOnly
      <4>2. QED
        BY <1>7, <1>8, <3>2, <4>1 DEF HasSlot
    <3>3. QED
      BY <3>1, <3>2
  <2>2. QED
    BY <2>1 DEF SlotsFit
<1>16. Cardinality(Chained') \in Nat
  <2>1. Cardinality(Chained) # 0
    BY <1>4, <1>5, FS_EmptySet
  <2>2. QED
    BY <1>6, <1>8, <2>1
<1>17. Balanced(t)
  BY <1>6, <1>8, <1>10 DEF Balanced, Bit
<1>18. CountMatchesNodes'
  BY <1>8, <1>16, <1>17, CountStays DEF HInv, Places
<1>19. QED
  BY <1>4, <1>7, <1>8, <1>12, <1>13, <1>14, <1>15, <1>18 DEF HInv, Linkage

-----------------------------------------------------------------------------
LEMMA HInit == Init => HInv
<1> SUFFICES ASSUME Init PROVE HInv
  OBVIOUS
<1>1. IsWhole /\ LinkType /\ Chained = {}
  BY EmptyTable DEF Init
<1>2. /\ \A t \in Threads : /\ job[t] = <<>> /\ sync[t] = "none" /\ call[t] = Idle
                            /\ cargo[t] = Null /\ got[t] = TRUE
      /\ sem.count = 0 /\ size = 0 /\ latch = Nobody
      /\ cargo \in [Threads -> Nodes \cup {Null}] /\ call = [t \in Threads |-> Idle]
  BY DEF Init, SyncInit, TableInit
<1>3. /\ Idle.op = "none" /\ Idle.step = 0 /\ Idle \in Calls
  BY DEF Idle, Calls, Ops
<1>4. Cardinality(Chained) = 0
  BY <1>1, FS_EmptySet
<1>5. CallsFit
  BY <1>2, <1>3, ThreadingAssumption DEF CallsFit
<1>6. SizeFits /\ NextFits
  BY <1>2, <1>3, <1>4 DEF SizeFits, NextFits, Lags, Leads
<1>7. CargoFits /\ SlotsFit
  BY <1>2, <1>3, RestsDiffer DEF CargoFits, SlotsFit, Holds, HasSlot
<1>8. Places
  BY <1>2, <1>3 DEF Places, Place, InPlace
<1>9. \A t \in Threads : ~Draws(t) /\ ~Posts(t)
  BY <1>2, <1>3, RestsDiffer DEF Draws, DrawsAt, Posts, PostsAt
<1>10. Drawing = {} /\ Posting = {}
  <2>1. \A t \in Threads : t \notin Drawing /\ t \notin Posting
    BY <1>8, <1>9, MembersOfState DEF Places
  <2>2. Drawing \subseteq Threads /\ Posting \subseteq Threads
    BY DEF Drawing, Posting
  <2>3. QED
    BY <2>1, <2>2
<1>11. CountMatchesNodes
  <2>1. Cardinality({}) = 0
    BY FS_EmptySet
  <2>2. QED
    BY <1>2, <1>4, <1>10, <2>1 DEF CountMatchesNodes
<1>12. QED
  BY <1>1, <1>5, <1>6, <1>7, <1>8, <1>11 DEF HInv, Linkage

LEMMA HStep == WInv /\ HInv /\ WInv' /\ [Next]_vars => HInv'
<1> SUFFICES ASSUME WInv, HInv, WInv', [Next]_vars PROVE HInv'
  OBVIOUS
<1>1. CASE UNCHANGED vars
  <2>1. UNCHANGED <<os, sem, rw, sync, got, link, size, latch, call, job, cargo>>
    BY <1>1 DEF vars, syncVars, tableVars
  <2>2. Chained' = Chained /\ ToSet(AllOccupied)' = ToSet(AllOccupied) /\ IsWhole' /\ LinkType'
    BY <2>1, ChainsStay DEF HInv, Linkage
  <2>3. CallsFit' /\ SizeFits' /\ NextFits'
    BY <2>1, <2>2 DEF HInv, Linkage, CallsFit, SizeFits, Lags, Leads, NextFits
  <2>4. CargoFits' /\ SlotsFit'
    BY <2>1, <2>2 DEF HInv, Linkage, CargoFits, SlotsFit, Holds, HasSlot
  <2>5. Places'
    BY <2>1 DEF HInv, Places, Place
  <2>6. CountMatchesNodes'
    BY <2>1, <2>2 DEF HInv, CountMatchesNodes, Drawing, Posting
  <2>7. QED
    BY <2>2, <2>3, <2>4, <2>5, <2>6 DEF HInv, Linkage
<1>2. ASSUME NEW t \in Threads, Begin(t) PROVE HInv'
  BY <1>2, BeginTable
<1>3. ASSUME NEW t \in Threads, Proceed(t) PROVE HInv'
  BY <1>3, ProceedLocks, ProceedTable
<1>4. ASSUME NEW t \in Threads, GiveUp(t) PROVE HInv'
  BY <1>4, GiveUpStep
<1>5. ASSUME NEW t \in Threads, InSync(t) \/ Time(t) PROVE HInv'
  BY <1>5, InSyncStep
<1>6. ASSUME NEW t \in Threads, InTable(t) PROVE HInv'
  <2>1. UNCHANGED <<syncVars, job, cargo>> /\ Table(t)
    BY <1>6 DEF InTable
  <2>2. QED
    BY <2>1, AcquireLatchStep, SetNextStep, SetHeadStep, CountStep, FindStep, UnlinkStep DEF Table
<1>7. QED
  BY <1>1, <1>2, <1>3, <1>4, <1>5, <1>6 DEF Next

\* What the invariant of the table says for a reader of it.
LEMMA HolderDraws ==
  ASSUME WInv, HInv, NEW t \in Threads
  PROVE  /\ Free(t) /\ job[t] # <<>> /\ Head(job[t]) = "delete" => call[t].slot # Null
         /\ call[t].op = "delete" /\ call[t].step <= 2 =>
              call[t].slot # Null /\ link[call[t].slot] # Null
<1>1. IsWhole /\ CallsFit
  BY DEF HInv, Linkage
<1>2. \A s \in ToSet(AllOccupied) : s # Null /\ link[s] # Null
  BY <1>1, WholeIs, HashTableAssumption DEF Slots
<1>3. HasSlot(t) => call[t].slot \in ToSet(AllOccupied)
  BY DEF HInv, Linkage, SlotsFit
<1>4. job[t] # <<>> /\ Head(job[t]) = "delete" => job[t] = ToDelete
  <2>1. Place(t)
    BY DEF HInv, Places
  <2>2. \/ job[t] \in {<<>>, ToInsert, ToYield, ToPost, ToLock}
        \/ job[t] \in {ToDraw, ToDelete, ToUnlock, ToLookup, ToForeach}
    BY <2>1 DEF Place, InPlace
  <2>3. QED
    BY <2>2, RestsRun
<1>5. QED
  BY <1>2, <1>3, <1>4 DEF Free, HasSlot

LEMMA InvFollows == WInv /\ HInv => Inv
<1> SUFFICES ASSUME WInv, HInv PROVE Inv
  OBVIOUS
<1>1. IsWhole /\ LinkType /\ CallsFit /\ SizeFits /\ CargoFits /\ Places /\ CountMatchesNodes
  BY DEF HInv, Linkage
<1>2. Cardinality(Chained) \in Nat
  BY <1>1, ChainedIsFinite
<1>3. size \in Nat
  <2>1. CASE \A t \in Threads : ~Lags(t) /\ ~Leads(t)
    BY <1>1, <1>2, <2>1 DEF SizeFits
  <2>2. ASSUME NEW t \in Threads, Leads(t) PROVE size \in Nat
    BY <1>1, <1>2, <2>2 DEF SizeFits
  <2>3. ASSUME NEW t \in Threads, Lags(t) PROVE size \in Nat
    <3>1. t \in Posting
      BY <2>3 DEF Lags, Posting
    <3>2. IsFiniteSet(Posting) /\ IsFiniteSet(Drawing)
      <4>1. Posting \subseteq Threads /\ Drawing \subseteq Threads
        BY DEF Posting, Drawing
      <4>2. QED
        BY <4>1, PlansAssumption, FS_Subset
    <3>3. Cardinality(Posting) \in Nat /\ Cardinality(Posting) # 0 /\ Cardinality(Drawing) \in Nat
      BY <3>1, <3>2, FS_CardinalityType, FS_EmptySet
    <3>4. sem.count \in Nat
      BY DEF WInv, IInv, SyncTypeOK, Semaphores
    <3>5. sem.count + Cardinality(Drawing) + Cardinality(Posting) = Cardinality(Chained)
      BY <1>1 DEF CountMatchesNodes
    <3>6. Cardinality(Chained) # 0
      BY <3>3, <3>4, <3>5
    <3>7. size = Cardinality(Chained) - 1
      BY <1>1, <2>3 DEF SizeFits
    <3>8. QED
      BY <1>2, <3>6, <3>7
  <2>4. QED
    BY <2>1, <2>2, <2>3
<1>4. TableTypeOK
  BY <1>1, <1>3 DEF TableTypeOK, LinkType, CallsFit, Calls, Ops
<1>5. TypeOK
  BY <1>1, <1>4 DEF TypeOK, WInv, IInv, CargoFits
<1>6. TableIsWhole
  <2> SUFFICES ASSUME latch = Nobody PROVE TableIsWhole
    BY DEF TableIsWhole
  <2>1. \A t \in Threads : ~Lags(t) /\ ~Leads(t)
    BY <1>1, ThreadingAssumption DEF CallsFit, Lags, Leads
  <2>2. size = Cardinality(Chained)
    BY <1>1, <2>1 DEF SizeFits
  <2>3. Len(AllOccupied) = Cardinality(Chained)
    BY <1>1, WholeIs
  <2>4. \A b \in 1 .. Cap : \A s \in ToSet(Occupied(b)) : Hash[link[s]] = b
    BY <1>1, WholeIs
  <2>5. QED
    BY <2>2, <2>3, <2>4 DEF TableIsWhole
<1>7. DrawFindsNode
  BY HolderDraws DEF DrawFindsNode
<1>8. QED
  BY <1>1, <1>5, <1>6, <1>7 DEF Inv

\* Semaphore and table agree at every moment, for any threads, nodes, buckets and
\* jobs: every count is a node of the table that nobody else will draw, the slot
\* that htable_random returned still points to a node when htable_delete reads it
\* (hash_table.c:120, :132), with the latch free the chains are whole, each node
\* in the chain of its own hash code, and the size counts them (:76-78, :120-122;
\* semaphore.c:52-105; rwlock.c:224-254).
THEOREM TableAgrees == Spec => []Inv
<1>1. Init => WInv /\ HInv
  BY WorkersInit, HInit
<1>2. WInv /\ HInv /\ [Next]_vars => (WInv /\ HInv)'
  BY HStep, WorkersStep, StepInvariant DEF WInv
<1>3. QED
  BY <1>1, <1>2, InvFollows, PTL DEF Spec

-----------------------------------------------------------------------------
\* The spin latch of concurrency/latch.h, the word of HashTable's latch.
VARIABLES word, at
Spin == INSTANCE Latch

\* The inductive invariant of the spin latch.  The word is 0 only when nobody
\* has the latch; it is what makes the exchange of a 0 safe however many loads
\* were before it.
SpinInv ==
  /\ Spin!LatchTypeOK
  /\ Spin!MutualExclusion
  /\ word = 0 => \A t \in Threads : at[t] # "in"

LEMMA SpinInit == Spin!Init => SpinInv
BY DEF Spin!Init, SpinInv, Spin!LatchTypeOK, Spin!MutualExclusion

LEMMA SpinStep == SpinInv /\ [Spin!Next]_Spin!vars => SpinInv'
<1> SUFFICES ASSUME SpinInv, [Spin!Next]_Spin!vars PROVE SpinInv'
  OBVIOUS
<1> USE DEF SpinInv, Spin!LatchTypeOK, Spin!MutualExclusion, Spin!Goto
<1>1. CASE UNCHANGED Spin!vars
  BY <1>1 DEF Spin!vars
<1>2. ASSUME NEW t \in Threads, Spin!Call(t) PROVE SpinInv'
  BY <1>2 DEF Spin!Call
<1>3. ASSUME NEW t \in Threads, Spin!Exchange(t) PROVE SpinInv'
  BY <1>3 DEF Spin!Exchange
<1>4. ASSUME NEW t \in Threads, Spin!Miss(t) PROVE SpinInv'
  BY <1>4 DEF Spin!Miss
<1>5. ASSUME NEW t \in Threads, Spin!SeeFree(t) PROVE SpinInv'
  BY <1>5 DEF Spin!SeeFree
<1>6. ASSUME NEW t \in Threads, Spin!Unlock(t) PROVE SpinInv'
  BY <1>6 DEF Spin!Unlock
<1>7. QED
  BY <1>1, <1>2, <1>3, <1>4, <1>5, <1>6 DEF Spin!Next, Spin!Lock

\* At every moment the word and the places of the threads have their types, and
\* at most one thread is between latch_lock and latch_unlock (latch.h:31-58),
\* whatever the weak exchange does and whoever else spins.
THEOREM LatchExcludes == Spin!Spec => [](Spin!LatchTypeOK /\ Spin!MutualExclusion)
<1>1. SpinInv => Spin!LatchTypeOK /\ Spin!MutualExclusion
  BY DEF SpinInv
<1>2. QED
  BY <1>1, SpinInit, SpinStep, PTL DEF Spin!Spec

=============================================================================
