------------------------------- MODULE OsSync -------------------------------
(* The counting semaphore and the read-write lock of intf/os/threading.h.    *)
(* On POSIX the semaphore is a mutex, a condition variable and a count, and  *)
(* the lock the system's own; on Windows the semaphore is the system's, and  *)
(* the lock an SRWLOCK with a flag that tells unlock which of the two        *)
(* releases to call.                                                         *)
EXTENDS Integers, FiniteSets, Threading

VARIABLES
  os,        \* the backend that was compiled in
  sem,       \* struct i_semaphore; who sleeps on its condition variable, and whose
             \* time has run out (late); how many signals were lost on the latter
  rw,        \* struct i_rwlock: who has it, and on Windows its flag
  sync,      \* where each thread is in a call of this module, or "none"
  got        \* what the last call of each thread returned

syncVars == <<os, sem, rw, sync, got>>

SyncInit ==
  /\ os \in {"posix", "windows"}
  /\ sem = [count |-> 0, owner |-> Nobody, asleep |-> {}, late |-> {}, lost |-> 0]
  /\ rw = [readers |-> {}, writer |-> Nobody, flag |-> FALSE, mismatch |-> FALSE]
  /\ sync = [t \in Threads |-> "none"]
  /\ got = [t \in Threads |-> TRUE]

Calling(t, label) ==
  /\ sync[t] = "none" /\ sync' = [sync EXCEPT ![t] = label]
  /\ UNCHANGED <<os, sem, rw, got>>

Goto(t, label)      == sync' = [sync EXCEPT ![t] = label] /\ UNCHANGED got
Returns(t, result)  == sync' = [sync EXCEPT ![t] = "none"] /\ got' = [got EXCEPT ![t] = result]

Waiting == {"wait", "try_wait", "timed_wait"}
InWait(label) == CASE label = "wait" -> "wait_in" [] label = "try_wait" -> "try_wait_in"
                   [] label = "timed_wait" -> "timed_wait_in"

-----------------------------------------------------------------------------
(* The semaphore on POSIX.                                                   *)

\* The mutex is taken; whoever was woken from the condition variable, or came
\* to the end of its time there, needs it too.
LockMutex(t) ==
  /\ os = "posix" /\ sync[t] \in Waiting \cup {"post"}
  /\ sem.owner = Nobody /\ t \notin sem.asleep
  /\ sem' = [sem EXCEPT !.owner = t]
  /\ Goto(t, IF sync[t] = "post" THEN "post_in" ELSE InWait(sync[t]))
  /\ UNCHANGED <<os, rw>>

UnlockMutex(t) ==
  /\ sync[t] \in {"leave", "leave_empty"} /\ sem.owner = t
  /\ sem' = [sem EXCEPT !.owner = Nobody]
  /\ Returns(t, sync[t] = "leave")
  /\ UNCHANGED <<os, rw>>

\* The signal wakes one of those asleep, if there is one; or it goes to one whose
\* time has just run out: POSIX lets a timed wait that ends in ETIMEDOUT consume
\* a signal sent at that moment.
Signalled ==
  {sem.asleep \ {t} : t \in sem.asleep}
    \cup (IF sem.asleep = {} \/ sem.late # {} THEN {sem.asleep} ELSE {})

\* Whether a signal that leaves `asleep` asleep has passed a sleeper by.
Lost(asleep) == IF sem.asleep # {} /\ asleep = sem.asleep THEN 1 ELSE 0

\* Mutant: only the post that finds the count 0 signals.
PostSignalsFirst(t) ==
  /\ sync[t] = "post_in"
  /\ \E asleep \in IF sem.count = 0 THEN Signalled ELSE {sem.asleep} :
       sem' = [sem EXCEPT !.count = @ + 1, !.asleep = asleep]
  /\ Goto(t, "leave")
  /\ UNCHANGED <<os, rw>>

Post(t) ==
  /\ sync[t] = "post_in"
  /\ \E asleep \in Signalled :
       sem' = [sem EXCEPT !.count = @ + 1, !.asleep = asleep, !.lost = @ + Lost(asleep)]
  /\ Goto(t, "leave")
  /\ UNCHANGED <<os, rw>>

Take(t) == sem' = [sem EXCEPT !.count = @ - 1] /\ Goto(t, "leave")

Sleep(t, label) ==
  /\ sem' = [sem EXCEPT !.owner = Nobody, !.asleep = @ \cup {t}]
  /\ Goto(t, label)

Wait(t) ==
  /\ sync[t] = "wait_in"
  /\ IF sem.count > 0 THEN Take(t) ELSE Sleep(t, "wait")
  /\ UNCHANGED <<os, rw>>

TryWait(t) ==
  /\ sync[t] = "try_wait_in"
  /\ IF sem.count > 0 THEN Take(t) ELSE Goto(t, "leave_empty") /\ UNCHANGED sem
  /\ UNCHANGED <<os, rw>>

\* Mutant: the one who is late takes a count that has come, and says it did not.
TimedWaitLoses(t) ==
  /\ sync[t] = "timed_wait_in"
  /\ IF t \in sem.late
     THEN /\ sem' = [sem EXCEPT !.late = @ \ {t}, !.count = IF @ > 0 THEN @ - 1 ELSE 0]
          /\ Goto(t, "leave_empty")
     ELSE IF sem.count > 0 THEN Take(t) ELSE Sleep(t, "timed_wait")
  /\ UNCHANGED <<os, rw>>

\* Mutant: the early return leaves the mutex locked.
TimedWaitKeepsMutex(t) ==
  /\ sync[t] = "timed_wait_in"
  /\ IF t \in sem.late THEN /\ sem' = [sem EXCEPT !.late = @ \ {t}]
                            /\ Returns(t, FALSE)
     ELSE IF sem.count > 0 THEN Take(t) ELSE Sleep(t, "timed_wait")
  /\ UNCHANGED <<os, rw>>

\* After ETIMEDOUT the count is not looked at again.
TimedWait(t) ==
  /\ sync[t] = "timed_wait_in"
  /\ IF t \in sem.late THEN /\ sem' = [sem EXCEPT !.late = @ \ {t}]
                            /\ Goto(t, "leave_empty")
     ELSE IF sem.count > 0 THEN Take(t) ELSE Sleep(t, "timed_wait")
  /\ UNCHANGED <<os, rw>>

\* A sleeper wakes without a signal ...
Spurious(t) ==
  /\ t \in sem.asleep
  /\ sem' = [sem EXCEPT !.asleep = @ \ {t}]
  /\ UNCHANGED <<os, rw, sync, got>>

\* ... or at its deadline.
Deadline(t) ==
  /\ t \in sem.asleep /\ sync[t] = "timed_wait"
  /\ sem' = [sem EXCEPT !.asleep = @ \ {t}, !.late = @ \cup {t}]
  /\ UNCHANGED <<os, rw, sync, got>>

(* The semaphore on Windows: one call of the system each.                    *)

WindowsPost(t) ==
  /\ os = "windows" /\ sync[t] = "post"
  /\ sem' = [sem EXCEPT !.count = @ + 1]
  /\ Returns(t, TRUE)
  /\ UNCHANGED <<os, rw>>

WindowsWait(t) ==
  /\ os = "windows" /\ sync[t] \in Waiting
  /\ \/ /\ sem.count > 0
        /\ sem' = [sem EXCEPT !.count = @ - 1]
        /\ Returns(t, TRUE)
     \/ /\ sem.count = 0 /\ sync[t] # "wait"
        /\ Returns(t, FALSE) /\ UNCHANGED sem
  /\ UNCHANGED <<os, rw>>

Semaphore(t) ==
  \/ LockMutex(t) \/ UnlockMutex(t)
  \/ Post(t) \/ Wait(t) \/ TryWait(t) \/ TimedWait(t)
  \/ WindowsPost(t) \/ WindowsWait(t)

-----------------------------------------------------------------------------
(* The read-write lock.                                                      *)

RdLock(t) ==
  /\ sync[t] \in {"rdlock", "try_rdlock"} /\ rw.writer = Nobody
  /\ rw' = [rw EXCEPT !.readers = @ \cup {t}]
  /\ Returns(t, TRUE)
  /\ UNCHANGED <<os, sem>>

\* On Windows the flag is set once the lock is held.
WrLock(t) ==
  /\ sync[t] \in {"wrlock", "try_wrlock"} /\ rw.writer = Nobody /\ rw.readers = {}
  /\ rw' = [rw EXCEPT !.writer = t]
  /\ IF os = "windows" THEN Goto(t, "set_flag") ELSE Returns(t, TRUE)
  /\ UNCHANGED <<os, sem>>

SetFlag(t) ==
  /\ sync[t] = "set_flag"
  /\ rw' = [rw EXCEPT !.flag = TRUE]
  /\ Returns(t, TRUE)
  /\ UNCHANGED <<os, sem>>

TryFails(t) ==
  /\ \/ sync[t] = "try_rdlock" /\ rw.writer # Nobody
     \/ sync[t] = "try_wrlock" /\ (rw.writer # Nobody \/ rw.readers # {})
  /\ Returns(t, FALSE)
  /\ UNCHANGED <<os, sem, rw>>

\* The system's unlock knows how t has the lock.
Unlock(t) ==
  /\ os = "posix" /\ sync[t] = "unlock"
  /\ rw' = [rw EXCEPT !.readers = @ \ {t}, !.writer = IF @ = t THEN Nobody ELSE @]
  /\ Returns(t, TRUE)
  /\ UNCHANGED <<os, sem>>

\* Mutant: the flag is left set.
ReadFlagOnly(t) ==
  /\ os = "windows" /\ sync[t] = "unlock"
  /\ Goto(t, IF rw.flag THEN "release_exclusive" ELSE "release_shared")
  /\ UNCHANGED <<os, sem, rw>>

\* On Windows the flag decides: read, cleared, and then the one release or the
\* other.  `mismatch`: a release of a mode the thread did not have.
ReadFlag(t) ==
  /\ os = "windows" /\ sync[t] = "unlock"
  /\ rw' = [rw EXCEPT !.flag = FALSE]
  /\ Goto(t, IF rw.flag THEN "release_exclusive" ELSE "release_shared")
  /\ UNCHANGED <<os, sem>>

Release(t) ==
  /\ \/ /\ sync[t] = "release_exclusive"
        /\ rw' = [rw EXCEPT !.writer = Nobody, !.mismatch = @ \/ rw.writer # t]
     \/ /\ sync[t] = "release_shared"
        /\ rw' = [rw EXCEPT !.readers = @ \ {t}, !.mismatch = @ \/ t \notin rw.readers]
  /\ Returns(t, TRUE)
  /\ UNCHANGED <<os, sem>>

RwLock(t) ==
  \/ RdLock(t) \/ WrLock(t) \/ SetFlag(t) \/ TryFails(t)
  \/ Unlock(t) \/ ReadFlag(t) \/ Release(t)

-----------------------------------------------------------------------------
(* A caller unlocks what it has, and locks only what it does not have.       *)

Locking == {"rdlock", "try_rdlock", "wrlock", "try_wrlock"}

Has(t) == t \in rw.readers \/ rw.writer = t

Call(t, label) ==
  /\ label \in Locking => ~Has(t)
  /\ label = "unlock" => Has(t)
  /\ Calling(t, label)

SyncNext ==
  \E t \in Threads :
    \/ \E label \in Waiting \cup Locking \cup {"post", "unlock"} : Call(t, label)
    \/ Semaphore(t) \/ RwLock(t)
    \/ Spurious(t) \/ Deadline(t)

\* What threads do that keep to this, and nothing else: the callers of the two
\* primitives keep to the contract under which the unlock (rwlock.c:224-254, on
\* Windows :86-100) is defined.
SyncSpec == SyncInit /\ [][SyncNext]_syncVars

-----------------------------------------------------------------------------
\* Where a thread has the semaphore's mutex.
Inside == {"wait_in", "try_wait_in", "timed_wait_in", "post_in", "leave", "leave_empty"}

Labels == Waiting \cup Locking \cup Inside
  \cup {"none", "post", "unlock", "set_flag", "release_exclusive", "release_shared"}

Semaphores ==
  [count : Nat, owner : Threads \cup {Nobody},
   asleep : SUBSET Threads, late : SUBSET Threads, lost : Nat]

RwLocks ==
  [readers : SUBSET Threads, writer : Threads \cup {Nobody}, flag : BOOLEAN, mismatch : BOOLEAN]

\* The types of a semaphore and a read-write lock (threading.h).
SyncTypeOK ==
  /\ os \in {"posix", "windows"}
  /\ sem \in Semaphores
  /\ rw \in RwLocks
  /\ sync \in [Threads -> Labels]
  /\ got \in [Threads -> BOOLEAN]

\* The unlock releases the lock the way its holder took it, although only a
\* flag next to the lock says which way that was (rwlock.c:89-100 on Windows).
ReleaseMatches == ~rw.mismatch

=============================================================================
