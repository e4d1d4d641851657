------------------------------- MODULE GrLock -------------------------------
(***************************************************************************)
(* The granularity lock of src/concurrency/gr_lock.c: a mutex, one counter *)
(* of holders per mode and a list of waiters, each with a condition        *)
(* variable on its own stack.  A call is split where the mutex is taken    *)
(* and where i_cond_wait gives it back; what runs between is one step.     *)
(*                                                                         *)
(* A thread uses the lock the way its callers do: it holds at most one     *)
(* mode at a time and unlocks the mode it locked.                          *)
(***************************************************************************)
EXTENDS Naturals, Sequences, FiniteSets, SequencesExt

CONSTANTS
  Threads,     \* the threads that use the lock
  TryThreads,  \* those of them that also call gr_trylock
  Nobody,      \* the owner of a free mutex
  NoMode       \* the mode of a thread that neither asks for nor holds one

ASSUME ThreadsAssumption == /\ IsFiniteSet(Threads)
                            /\ TryThreads \subseteq Threads
                            /\ Nobody \notin Threads

VARIABLES
  mutex,          \* the thread that owns l->mutex, or Nobody
  holder_counts,  \* l->holder_counts
  waiters,        \* the list from l->head, oldest waiter first
  pc,             \* where each thread is
  mode,           \* the mode each thread asks for or holds
  crashed         \* the process ran into UNREACHABLE ()

vars == <<mutex, holder_counts, waiters, pc, mode, crashed>>

\* The threads' requests and holdings, as the abstract lock sees them.
Asking  == {"lock", "asleep", "woken", "recheck", "try"}
Holding == {"hold", "unlock"}

Abs == INSTANCE GranularityLock WITH
         request <- [t \in Threads |-> IF pc[t] \in Asking THEN mode[t] ELSE NoMode],
         held    <- [t \in Threads |-> IF pc[t] \in Holding THEN mode[t] ELSE NoMode]

Modes == Abs!Modes
Compatible(m, n) == Abs!Compatible(m, n)

ASSUME NoModeAssumption == NoMode \notin Modes

\* Where a thread owns the mutex, and where it is in the main wait code.
InCritical == {"lock", "recheck", "try", "unlock"}
Waiting    == {"asleep", "woken", "recheck"}

TypeOK ==
  /\ mutex \in Threads \cup {Nobody}
  /\ holder_counts \in [Modes -> Nat]
  /\ waiters \in Seq(Threads)
  /\ pc \in [Threads -> {"idle"} \cup Asking \cup Holding]
  /\ mode \in [Threads -> Modes \cup {NoMode}]
  /\ \A t \in Threads : mode[t] = NoMode <=> pc[t] = "idle"
  /\ crashed \in BOOLEAN

-----------------------------------------------------------------------------
\* gr_lock_init
Init ==
  /\ mutex = Nobody
  /\ holder_counts = [m \in Modes |-> 0]
  /\ waiters = <<>>
  /\ pc = [t \in Threads |-> "idle"]
  /\ mode = [t \in Threads |-> NoMode]
  /\ crashed = FALSE

\* Mutant: a single holder of a mode is overlooked.
IsCompatibleOffByOne(counts, m) ==
  \A n \in Modes : counts[n] > 1 => Compatible(m, n)

IsCompatible(counts, m) ==
  \A n \in Modes : counts[n] > 0 => Compatible(m, n)

\* i_mutex_lock by t, on its way from one place to another.
TakeMutex(t, from, to) ==
  /\ ~crashed
  /\ pc[t] = from
  /\ mutex = Nobody
  /\ mutex' = t
  /\ pc' = [pc EXCEPT ![t] = to]

\* Entry of gr_lock (l, m).
LockEnter(t, m) ==
  /\ TakeMutex(t, "idle", "lock")
  /\ mode' = [mode EXCEPT ![t] = m]
  /\ UNCHANGED <<holder_counts, waiters, crashed>>

\* The mode is granted and the call returns with the mutex released.
Grant(t) ==
  /\ IsCompatible(holder_counts, mode[t])
  /\ holder_counts' = [holder_counts EXCEPT ![mode[t]] = @ + 1]
  /\ mutex' = Nobody
  /\ pc' = [pc EXCEPT ![t] = "hold"]
  /\ UNCHANGED <<mode, crashed>>

\* The call returns without the lock.
GiveUp(t) ==
  /\ ~IsCompatible(holder_counts, mode[t])
  /\ mutex' = Nobody
  /\ pc' = [pc EXCEPT ![t] = "idle"]
  /\ mode' = [mode EXCEPT ![t] = NoMode]
  /\ UNCHANGED <<holder_counts, waiters, crashed>>

LockFast(t) ==
  /\ ~crashed /\ pc[t] = "lock"
  /\ Grant(t)
  /\ UNCHANGED waiters

\* gr_lock_waiter_init cannot create the condition variable.  i_cond_create looks
\* for the reason in errno, where pthread_cond_init does not put it: if a value
\* from before happens to be EAGAIN or ENOMEM, it returns an error ...
LockWaiterInitFails(t) ==
  /\ ~crashed /\ pc[t] = "lock"
  /\ GiveUp(t)

\* ... and with any other it ends in UNREACHABLE.
LockWaiterInitCrashes(t) ==
  /\ ~crashed /\ pc[t] = "lock"
  /\ ~IsCompatible(holder_counts, mode[t])
  /\ crashed' = TRUE
  /\ UNCHANGED <<mutex, holder_counts, waiters, pc, mode>>

\* i_cond_wait: releases the mutex and sleeps, in one step.
Sleep(t) ==
  /\ ~IsCompatible(holder_counts, mode[t])
  /\ mutex' = Nobody
  /\ pc' = [pc EXCEPT ![t] = "asleep"]
  /\ UNCHANGED <<holder_counts, mode, crashed>>

LockWait(t) ==
  /\ ~crashed /\ pc[t] = "lock"
  /\ Sleep(t)
  /\ waiters' = Append(waiters, t)

\* The operating system may wake a sleeper for no reason.
SpuriousWakeup(t) ==
  /\ ~crashed /\ pc[t] = "asleep"
  /\ pc' = [pc EXCEPT ![t] = "woken"]
  /\ UNCHANGED <<mutex, holder_counts, waiters, mode, crashed>>

\* i_cond_wait returns once it has the mutex again.
Recheck(t) ==
  /\ TakeMutex(t, "woken", "recheck")
  /\ UNCHANGED <<holder_counts, waiters, mode, crashed>>

WaitAgain(t) ==
  /\ ~crashed /\ pc[t] = "recheck"
  /\ Sleep(t)
  /\ UNCHANGED waiters

\* Mutant: removes the oldest waiter instead of t's own.
WaitDonePopsHead(t) ==
  /\ ~crashed /\ pc[t] = "recheck"
  /\ Grant(t)
  /\ waiters' = Tail(waiters)

\* Leaves the loop: removes the waiter from the list and takes the lock.
WaitDone(t) ==
  /\ ~crashed /\ pc[t] = "recheck"
  /\ Grant(t)
  /\ \E i \in DOMAIN waiters : /\ waiters[i] = t
                               /\ waiters' = RemoveAt(waiters, i)

\* gr_trylock with a free mutex ...
TryEnter(t, m) ==
  /\ TakeMutex(t, "idle", "try")
  /\ mode' = [mode EXCEPT ![t] = m]
  /\ UNCHANGED <<holder_counts, waiters, crashed>>

\* ... and with a busy one: pthread_mutex_trylock returns EBUSY and leaves
\* errno at 0, so the switch over errno takes its default branch.
TryBusy(t) ==
  /\ ~crashed /\ pc[t] = "idle"
  /\ mutex # Nobody
  /\ crashed' = TRUE
  /\ UNCHANGED <<mutex, holder_counts, waiters, pc, mode>>

TryGranted(t) ==
  /\ ~crashed /\ pc[t] = "try"
  /\ Grant(t)
  /\ UNCHANGED waiters

TryRefused(t) ==
  /\ ~crashed /\ pc[t] = "try"
  /\ GiveUp(t)

UnlockEnter(t) ==
  /\ TakeMutex(t, "hold", "unlock")
  /\ UNCHANGED <<holder_counts, waiters, mode, crashed>>

\* Mutant: only the oldest waiter is looked at.
WakeWaitersHeadOnly(counts) ==
  {t \in Threads : /\ pc[t] = "asleep"
                   /\ waiters # <<>> /\ waiters[1] = t
                   /\ IsCompatible(counts, mode[t])}

\* wake_waiters: signals every waiter whose mode the holders now admit.  A
\* signal to a waiter that is not asleep has no effect.
WakeWaiters(counts) ==
  {t \in Threads : /\ pc[t] = "asleep"
                   /\ \E i \in DOMAIN waiters : waiters[i] = t
                   /\ IsCompatible(counts, mode[t])}

Unlock(t) ==
  LET counts == [holder_counts EXCEPT ![mode[t]] = @ - 1]
      signalled == WakeWaiters(counts)
  IN  /\ ~crashed /\ pc[t] = "unlock"
      /\ holder_counts' = counts
      /\ mutex' = Nobody
      /\ pc' = [u \in Threads |-> IF u = t THEN "idle"
                                  ELSE IF u \in signalled THEN "woken"
                                  ELSE pc[u]]
      /\ mode' = [mode EXCEPT ![t] = NoMode]
      /\ UNCHANGED <<waiters, crashed>>

Try(t) == \/ \E m \in Modes : TryEnter(t, m)
          \/ TryBusy(t)

Lock(t) == \E m \in Modes : LockEnter(t, m)

\* What a thread inside a call does next when it has the mutex.
Critical(t) == \/ LockFast(t)
               \/ LockWait(t)
               \/ LockWaiterInitFails(t)
               \/ LockWaiterInitCrashes(t)
               \/ WaitAgain(t)
               \/ WaitDone(t)
               \/ TryGranted(t)
               \/ TryRefused(t)
               \/ Unlock(t)

Next == \/ \E t \in Threads : \/ Lock(t)
                              \/ Critical(t)
                              \/ SpuriousWakeup(t)
                              \/ Recheck(t)
                              \/ UnlockEnter(t)
        \/ \E t \in TryThreads : Try(t)

Spec == Init /\ [][Next]_vars

\* A thread that has the mutex goes on, a thread that waits for the mutex gets
\* it in the end, and a holder unlocks in the end.  Nothing makes a thread ask
\* for the lock, and no wakeup comes without a signal.
Fairness == \A t \in Threads : /\ WF_vars(Critical(t))
                               /\ SF_vars(Recheck(t))
                               /\ SF_vars(UnlockEnter(t))

FairSpec == Spec /\ Fairness

-----------------------------------------------------------------------------
\* Two threads never hold incompatible modes at once (is_compatible looks only
\* at the counters, never at the threads).
HoldersCompatible ==
  \A t, u \in Threads :
    t # u /\ pc[t] \in Holding /\ pc[u] \in Holding => Compatible(mode[t], mode[u])

\* Each counter is the number of threads that hold its mode: no grant is lost
\* and none is returned twice, so the ASSERT of gr_unlock holds.
CountsMatchHolders ==
  \A m \in Modes :
    holder_counts[m] = Cardinality({t \in Threads : pc[t] \in Holding /\ mode[t] = m})

\* The list holds exactly the threads inside the main wait code, each once: no
\* waiter is left behind on a stack frame that is gone.
ListIsTheWaiters ==
  /\ \A t \in Threads : pc[t] \in Waiting <=> \E i \in DOMAIN waiters : waiters[i] = t
  /\ \A i, j \in DOMAIN waiters : waiters[i] = waiters[j] => i = j

\* The state of the lock agrees with its threads: what it counts and lists is
\* what they hold and wait for (struct gr_lock).
Inv == TypeOK /\ HoldersCompatible /\ CountsMatchHolders /\ ListIsTheWaiters

\* No lost wakeup: a thread still asleep, with no signal on its way, is one the
\* holders keep out.
NoLostWakeup ==
  \A t \in Threads : pc[t] = "asleep" => ~IsCompatible(holder_counts, mode[t])

\* The thread with the mutex, if any, is the one inside a critical section.
MutexOwner == \A t \in Threads : pc[t] \in InCritical <=> mutex = t

\* The lock does what the abstract lock does (GranularityLock) ...
ImplementsLock == Abs!Spec
\* ... and grants a request that stays grantable, though it never hands the lock
\* over: a woken waiter competes with the threads that arrive meanwhile.
GrantsInTheEnd == [](~crashed) => Abs!Fairness

\* i_mutex_try_lock returns false when the mutex is busy (its case EBUSY).  It
\* does not hold: the case is looked for in errno (README, section 6).
TryLockReturns == ~crashed

=============================================================================
