---------------------------- MODULE GrLockProofs ----------------------------
(***************************************************************************)
(* GrLock, for any finite set of threads: the holders' compatibility, no   *)
(* lost wakeup, and that the lock implements GranularityLock.              *)
(***************************************************************************)
EXTENDS GrLock, FiniteSetTheorems, SequenceTheorems, TLAPS

Holders(m) == {t \in Threads : pc[t] \in Holding /\ mode[t] = m}

InList(s, t) == \E i \in DOMAIN s : s[i] = t

\* The inductive invariant.  MutexOwner is what makes a critical section see
\* the counters and the list it left; the other parts are checked by TLC too.
IInv == /\ TypeOK
        /\ MutexOwner
        /\ HoldersCompatible
        /\ CountsMatchHolders
        /\ ListIsTheWaiters
        /\ NoLostWakeup

-----------------------------------------------------------------------------
\* The table is symmetric, so it does not matter who asks and who holds.
LEMMA CompatibleSymmetric ==
  \A m, n \in Modes : Compatible(m, n) <=> Compatible(n, m)
BY DEF Compatible, Modes, Abs!Compatible, Abs!CompatibleWith, Abs!Modes

\* What RemoveAt does to a sequence, position by position
\* (gr_lock_waiter_remove_unsafe unlinks one waiter and keeps the others).
LEMMA RemoveAtIsSeq ==
  ASSUME NEW S, NEW s \in Seq(S), NEW k \in 1..Len(s)
  PROVE  /\ RemoveAt(s, k) \in Seq(S)
         /\ Len(RemoveAt(s, k)) = Len(s) - 1
         /\ \A j \in 1..(Len(s) - 1) :
              RemoveAt(s, k)[j] = IF j < k THEN s[j] ELSE s[j + 1]
<1> DEFINE a == SubSeq(s, 1, k - 1)
           b == SubSeq(s, k + 1, Len(s))
<1>1. a \in Seq(S) /\ Len(a) = k - 1 /\ \A j \in 1..(k - 1) : a[j] = s[j]
  BY SubSeqProperties
<1>2. b \in Seq(S) /\ Len(b) = Len(s) - k /\ \A j \in 1..(Len(s) - k) : b[j] = s[k + j]
  BY SubSeqProperties
<1>3. RemoveAt(s, k) = a \o b
  BY DEF RemoveAt
<1> HIDE DEF a, b
<1>5. QED
  BY <1>1, <1>2, <1>3, ConcatProperties

\* Appending a thread that is not in the list, and removing one that is, keep
\* every thread in the list at most once.
LEMMA AppendWaiter ==
  ASSUME NEW S, NEW s \in Seq(S), NEW t \in S, ~InList(s, t),
         \A i, j \in DOMAIN s : s[i] = s[j] => i = j
  PROVE  /\ Append(s, t) \in Seq(S)
         /\ \A u \in S : InList(Append(s, t), u) <=> InList(s, u) \/ u = t
         /\ \A i, j \in DOMAIN Append(s, t) :
              Append(s, t)[i] = Append(s, t)[j] => i = j
BY AppendProperties DEF InList

\* Unlinking a waiter keeps every other one, at most once.
LEMMA RemoveWaiter ==
  ASSUME NEW S, NEW s \in Seq(S), NEW k \in 1..Len(s),
         \A i, j \in DOMAIN s : s[i] = s[j] => i = j
  PROVE  /\ RemoveAt(s, k) \in Seq(S)
         /\ \A u \in S : InList(RemoveAt(s, k), u) <=> InList(s, u) /\ u # s[k]
         /\ \A i, j \in DOMAIN RemoveAt(s, k) :
              RemoveAt(s, k)[i] = RemoveAt(s, k)[j] => i = j
<1> DEFINE r == RemoveAt(s, k)
<1>1. Len(s) \in Nat /\ DOMAIN s = 1..Len(s)
  BY LenProperties
<1>2. /\ r \in Seq(S)
      /\ Len(r) = Len(s) - 1
      /\ \A j \in 1..(Len(s) - 1) : r[j] = IF j < k THEN s[j] ELSE s[j + 1]
  BY RemoveAtIsSeq
<1> HIDE DEF r
<1>3. DOMAIN r = 1..(Len(s) - 1)
  BY <1>2, LenProperties
<1> DEFINE old(n) == IF n < k THEN n ELSE n + 1
<1>4. \A n \in DOMAIN r : old(n) \in DOMAIN s /\ old(n) # k /\ r[n] = s[old(n)]
  BY <1>1, <1>2, <1>3
<1>5. \A i, j \in DOMAIN r : r[i] = r[j] => i = j
  <2>1. \A i, j \in DOMAIN r : old(i) = old(j) => i = j
    BY <1>1, <1>3
  <2>2. QED
    BY <1>4, <2>1
<1>6. ASSUME NEW u \in S, InList(r, u)
      PROVE  InList(s, u) /\ u # s[k]
  <2>1. PICK n \in DOMAIN r : r[n] = u
    BY <1>6 DEF InList
  <2>2. old(n) \in DOMAIN s /\ old(n) # k /\ s[old(n)] = u
    BY <1>4, <2>1
  <2> HIDE DEF old
  <2>3. QED
    BY <1>1, <2>2 DEF InList
<1>7. ASSUME NEW u \in S, InList(s, u), u # s[k]
      PROVE  InList(r, u)
  <2>1. PICK i \in 1..Len(s) : s[i] = u
    BY <1>1, <1>7 DEF InList
  <2>2. CASE i < k
    BY <1>1, <1>2, <1>3, <2>1, <2>2 DEF InList
  <2>3. CASE i > k
    <3>1. i - 1 \in 1..(Len(s) - 1) /\ r[i - 1] = u
      BY <1>1, <1>2, <2>1, <2>3
    <3>2. QED
      BY <1>2, <1>3, <3>1 DEF InList
  <2>4. QED
    BY <1>1, <1>7, <2>1, <2>2, <2>3
<1>8. QED
  BY <1>2, <1>5, <1>6, <1>7 DEF r

-----------------------------------------------------------------------------
\* Steps that leave every holding alone keep the two facts about holdings.
LEMMA HoldingsUnchanged ==
  ASSUME IInv, holder_counts' = holder_counts,
         \A u \in Threads : /\ pc'[u] \in Holding <=> pc[u] \in Holding
                            /\ pc[u] \in Holding => mode'[u] = mode[u]
  PROVE  HoldersCompatible' /\ CountsMatchHolders'
<1>1. HoldersCompatible'
  BY DEF IInv, HoldersCompatible
<1>2. \A m \in Modes : Holders(m)' = Holders(m)
  BY DEF Holders
<1>3. QED
  BY <1>1, <1>2 DEF IInv, CountsMatchHolders, Holders

\* Steps that keep the list and who is in the main wait code.
LEMMA ListUnchanged ==
  ASSUME IInv, waiters' = waiters,
         \A u \in Threads : pc'[u] \in Waiting <=> pc[u] \in Waiting
  PROVE  ListIsTheWaiters'
BY DEF IInv, ListIsTheWaiters

\* A thread compatible with the counters is compatible with every holder,
\* because every holder is counted.
LEMMA CompatibleWithHolders ==
  ASSUME IInv, NEW m \in Modes, IsCompatible(holder_counts, m),
         NEW u \in Threads, pc[u] \in Holding
  PROVE  Compatible(m, mode[u])
<1>1. mode[u] \in Modes
  BY DEF IInv, TypeOK, Holding
<1>2. u \in Holders(mode[u]) /\ IsFiniteSet(Holders(mode[u]))
  BY FS_Subset, ThreadsAssumption DEF Holders
<1>3. Cardinality(Holders(mode[u])) \in Nat /\ Cardinality(Holders(mode[u])) # 0
  BY <1>2, FS_CardinalityType, FS_EmptySet
<1>4. holder_counts[mode[u]] = Cardinality(Holders(mode[u]))
  BY <1>1 DEF IInv, CountsMatchHolders, Holders
<1>5. QED
  BY <1>1, <1>3, <1>4 DEF IsCompatible

\* Granting (holder_counts[mode]++) keeps everything but the list, which the
\* caller of the lemma accounts for.
LEMMA GrantStep ==
  ASSUME IInv, NEW t \in Threads, pc[t] \in InCritical \ {"unlock"}, Grant(t)
  PROVE  /\ holder_counts' \in [Modes -> Nat]
         /\ MutexOwner'
         /\ HoldersCompatible'
         /\ CountsMatchHolders'
         /\ NoLostWakeup'
<1> DEFINE m == mode[t]
<1>1. m \in Modes /\ pc[t] \notin Holding
  BY DEF IInv, TypeOK, InCritical, Holding
<1>2. holder_counts' = [holder_counts EXCEPT ![m] = @ + 1] /\ mode' = mode
      /\ pc' = [pc EXCEPT ![t] = "hold"] /\ mutex' = Nobody
      /\ IsCompatible(holder_counts, m)
  BY DEF Grant
<1>3. holder_counts' \in [Modes -> Nat]
  BY <1>1, <1>2 DEF IInv, TypeOK
<1>4. MutexOwner'
  BY <1>2, ThreadsAssumption DEF IInv, TypeOK, MutexOwner, InCritical
<1>5. HoldersCompatible'
  <2> SUFFICES ASSUME NEW u \in Threads, NEW v \in Threads, u # v,
                      pc'[u] \in Holding, pc'[v] \in Holding
               PROVE  Compatible(mode[u], mode[v])
    BY <1>2 DEF HoldersCompatible
  <2>1. \A w \in Threads : w # t => pc'[w] = pc[w]
    BY <1>2 DEF IInv, TypeOK
  <2>2. CASE u = t
    BY <1>1, <1>2, <2>1, <2>2, CompatibleWithHolders
  <2>3. CASE v = t
    <3>1. Compatible(mode[v], mode[u])
      BY <1>1, <1>2, <2>1, <2>3, CompatibleWithHolders
    <3>2. mode[u] \in Modes
      BY <2>1, <2>3 DEF IInv, TypeOK, Holding
    <3>3. QED
      BY <1>1, <2>3, <3>1, <3>2, CompatibleSymmetric
  <2>4. CASE u # t /\ v # t
    BY <2>1, <2>4 DEF IInv, HoldersCompatible
  <2>5. QED
    BY <2>2, <2>3, <2>4
<1>6. CountsMatchHolders'
  <2> SUFFICES ASSUME NEW n \in Modes
               PROVE  holder_counts'[n] = Cardinality(Holders(n)')
    BY DEF CountsMatchHolders, Holders
  <2>1. IsFiniteSet(Holders(n)) /\ holder_counts[n] = Cardinality(Holders(n))
    BY FS_Subset, ThreadsAssumption DEF Holders, IInv, CountsMatchHolders
  <2>2. CASE n = m
    <3>1. Holders(n)' = Holders(n) \cup {t} /\ t \notin Holders(n)
      BY <1>1, <1>2, <2>2 DEF Holders, Holding, IInv, TypeOK
    <3>2. Cardinality(Holders(n)') = Cardinality(Holders(n)) + 1
      BY <2>1, <3>1, FS_AddElement
    <3>3. holder_counts'[n] = holder_counts[n] + 1
      BY <1>2, <2>2 DEF IInv, TypeOK
    <3>4. QED
      BY <2>1, <3>2, <3>3
  <2>3. CASE n # m
    <3>1. Holders(n)' = Holders(n)
      BY <1>1, <1>2, <2>3 DEF Holders, Holding, IInv, TypeOK
    <3>2. QED
      BY <1>2, <2>1, <2>3, <3>1 DEF IInv, TypeOK
  <2>4. QED
    BY <2>2, <2>3
<1>7. NoLostWakeup'
  <2> SUFFICES ASSUME NEW u \in Threads, pc'[u] = "asleep"
               PROVE  ~IsCompatible(holder_counts', mode[u])
    BY <1>2 DEF NoLostWakeup
  <2>1. ~IsCompatible(holder_counts, mode[u])
    BY <1>2 DEF IInv, TypeOK, NoLostWakeup
  <2>2. \A n \in Modes : holder_counts[n] > 0 => holder_counts'[n] > 0
    BY <1>1, <1>2 DEF IInv, TypeOK
  <2>3. QED
    BY <2>1, <2>2 DEF IsCompatible
<1>8. QED
  BY <1>3, <1>4, <1>5, <1>6, <1>7

\* gr_unlock: the counter it decrements is positive, and every sleeper that the
\* remaining holders admit is in the list, so the walk over it signals it.
LEMMA UnlockStep ==
  ASSUME IInv, NEW t \in Threads, Unlock(t)
  PROVE  IInv'
<1> DEFINE m == mode[t]
<1>1. m \in Modes /\ pc[t] = "unlock"
  BY DEF Unlock, IInv, TypeOK
<1>2. /\ holder_counts' = [holder_counts EXCEPT ![m] = @ - 1]
      /\ mutex' = Nobody
      /\ mode' = [mode EXCEPT ![t] = NoMode]
      /\ waiters' = waiters /\ crashed' = crashed
  BY DEF Unlock
<1>3. pc' \in [Threads -> {"idle"} \cup Asking \cup Holding] /\ pc'[t] = "idle"
  BY DEF Unlock, IInv, TypeOK, Asking, Holding
<1>4. ASSUME NEW u \in Threads, u # t
      PROVE  \/ /\ pc'[u] = pc[u]
                /\ ~(u \in WakeWaiters(holder_counts'))
             \/ /\ pc[u] = "asleep" /\ pc'[u] = "woken"
                /\ IsCompatible(holder_counts', mode[u])
  <2>1. pc'[u] = IF u \in WakeWaiters(holder_counts') THEN "woken" ELSE pc[u]
    BY <1>2, <1>4 DEF Unlock
  <2>2. u \in WakeWaiters(holder_counts')
          => pc[u] = "asleep" /\ IsCompatible(holder_counts', mode[u])
    BY DEF WakeWaiters
  <2>3. QED
    BY <2>1, <2>2
<1>5. \A u \in Threads : u # t => mode'[u] = mode[u]
  BY <1>2 DEF IInv, TypeOK
<1>6. t \in Holders(m) /\ IsFiniteSet(Holders(m)) /\ holder_counts[m] = Cardinality(Holders(m))
  BY <1>1, FS_Subset, ThreadsAssumption DEF Holders, Holding, IInv, CountsMatchHolders
<1>7. holder_counts[m] \in Nat \ {0}
  BY <1>6, FS_CardinalityType, FS_EmptySet
<1>8. TypeOK'
  <2>1. holder_counts' \in [Modes -> Nat]
    BY <1>1, <1>2, <1>7 DEF IInv, TypeOK
  <2>2. mode' \in [Threads -> Modes \cup {NoMode}]
    BY <1>2 DEF IInv, TypeOK
  <2>3. \A u \in Threads : mode'[u] = NoMode <=> pc'[u] = "idle"
    BY <1>2, <1>3, <1>4, <1>5 DEF IInv, TypeOK
  <2>4. QED
    BY <1>2, <1>3, <2>1, <2>2, <2>3 DEF IInv, TypeOK
<1>9. MutexOwner'
  BY <1>1, <1>2, <1>3, <1>4, ThreadsAssumption DEF IInv, TypeOK, MutexOwner, InCritical
<1>10. \A u \in Threads : pc'[u] \in Holding <=> pc[u] \in Holding /\ u # t
  BY <1>3, <1>4 DEF Holding
<1>11. HoldersCompatible'
  BY <1>5, <1>10 DEF IInv, HoldersCompatible
<1>12. CountsMatchHolders'
  <2> SUFFICES ASSUME NEW n \in Modes
               PROVE  holder_counts'[n] = Cardinality(Holders(n)')
    BY DEF CountsMatchHolders, Holders
  <2>1. CASE n = m
    <3>1. Holders(n)' = Holders(n) \ {t}
      BY <1>5, <1>10 DEF Holders
    <3>2. Cardinality(Holders(n)') = Cardinality(Holders(n)) - 1
      BY <1>6, <2>1, <3>1, FS_RemoveElement
    <3>3. holder_counts'[n] = holder_counts[n] - 1
      BY <1>2, <2>1 DEF IInv, TypeOK
    <3>4. QED
      BY <1>6, <2>1, <3>2, <3>3
  <2>2. CASE n # m
    <3>1. Holders(n)' = Holders(n)
      BY <1>5, <1>10, <2>2 DEF Holders
    <3>2. QED
      BY <1>2, <2>2, <3>1 DEF IInv, TypeOK, CountsMatchHolders, Holders
  <2>3. QED
    BY <2>1, <2>2
<1>13. ListIsTheWaiters'
  <2>1. \A u \in Threads : pc'[u] \in Waiting <=> pc[u] \in Waiting
    BY <1>1, <1>3, <1>4 DEF Waiting
  <2>2. QED
    BY <1>2, <2>1, ListUnchanged
<1>14. NoLostWakeup'
  <2> SUFFICES ASSUME NEW u \in Threads, pc'[u] = "asleep"
               PROVE  ~IsCompatible(holder_counts', mode'[u])
    BY DEF NoLostWakeup
  <2>1. u # t /\ pc[u] = "asleep" /\ u \notin WakeWaiters(holder_counts')
    BY <1>3, <1>4
  <2>2. \E i \in DOMAIN waiters : waiters[i] = u
    BY <2>1 DEF IInv, ListIsTheWaiters, Waiting
  <2>3. QED
    BY <1>5, <2>1, <2>2 DEF WakeWaiters
<1>15. QED
  BY <1>8, <1>9, <1>11, <1>12, <1>13, <1>14 DEF IInv

\* LockWait and WaitAgain: a thread goes to sleep only when it is kept out.
LEMMA SleepStep ==
  ASSUME IInv, NEW t \in Threads, pc[t] \in {"lock", "recheck"}, Sleep(t)
  PROVE  /\ MutexOwner'
         /\ HoldersCompatible'
         /\ CountsMatchHolders'
         /\ NoLostWakeup'
<1>1. /\ pc' = [pc EXCEPT ![t] = "asleep"] /\ mutex' = Nobody
      /\ holder_counts' = holder_counts /\ mode' = mode
      /\ ~IsCompatible(holder_counts, mode[t])
  BY DEF Sleep
<1>2. MutexOwner'
  BY <1>1, ThreadsAssumption DEF IInv, TypeOK, MutexOwner, InCritical
<1>3. HoldersCompatible' /\ CountsMatchHolders'
  BY <1>1, HoldingsUnchanged DEF IInv, TypeOK, Holding
<1>4. NoLostWakeup'
  BY <1>1 DEF IInv, TypeOK, NoLostWakeup
<1>5. QED
  BY <1>2, <1>3, <1>4

\* gr_lock_init establishes the invariant.
LEMMA InitIInv == Init => IInv
<1> SUFFICES ASSUME Init PROVE IInv
  OBVIOUS
<1>1. \A t \in Threads : pc[t] = "idle"
  BY DEF Init
<1>2. TypeOK
  BY <1>1, NoModeAssumption, EmptySeq DEF Init, TypeOK
<1>3. CountsMatchHolders
  <2>1. \A m \in Modes : Holders(m) = {}
    BY <1>1 DEF Holders, Holding
  <2>2. QED
    BY <2>1, FS_EmptySet DEF Init, CountsMatchHolders, Holders
<1>4. ListIsTheWaiters
  <2>1. DOMAIN waiters = {}
    BY EmptySeq DEF Init
  <2>2. QED
    BY <1>1, <2>1 DEF ListIsTheWaiters, Waiting
<1>5. MutexOwner /\ HoldersCompatible /\ NoLostWakeup
  BY <1>1, ThreadsAssumption
     DEF Init, MutexOwner, InCritical, HoldersCompatible, Holding, NoLostWakeup
<1>6. QED
  BY <1>2, <1>3, <1>4, <1>5 DEF IInv

\* Every step of every thread keeps the invariant.
LEMMA NextIInv == IInv /\ [Next]_vars => IInv'
<1> SUFFICES ASSUME IInv, [Next]_vars PROVE IInv'
  OBVIOUS
<1> USE DEF InCritical
<1>1. ASSUME NEW t \in Threads, NEW m \in Modes, LockEnter(t, m) \/ TryEnter(t, m)
      PROVE  IInv'
  <2>1. TypeOK'
    BY <1>1, NoModeAssumption DEF IInv, TypeOK, LockEnter, TryEnter, TakeMutex, Asking
  <2>2. MutexOwner'
    BY <1>1, ThreadsAssumption DEF IInv, TypeOK, LockEnter, TryEnter, TakeMutex, MutexOwner
  <2>3. NoLostWakeup'
    BY <1>1 DEF IInv, TypeOK, LockEnter, TryEnter, TakeMutex, NoLostWakeup
  <2>4. HoldersCompatible' /\ CountsMatchHolders'
    BY <1>1, HoldingsUnchanged DEF IInv, TypeOK, LockEnter, TryEnter, TakeMutex, Holding
  <2>5. ListIsTheWaiters'
    BY <1>1, ListUnchanged DEF IInv, TypeOK, LockEnter, TryEnter, TakeMutex, Waiting
  <2>6. QED
    BY <2>1, <2>2, <2>3, <2>4, <2>5 DEF IInv
<1>2. ASSUME NEW t \in Threads, LockFast(t) \/ TryGranted(t)
      PROVE  IInv'
  <2>1. pc[t] \in {"lock", "try"} /\ Grant(t) /\ waiters' = waiters
    BY <1>2 DEF LockFast, TryGranted
  <2>2. /\ holder_counts' \in [Modes -> Nat]
        /\ MutexOwner' /\ HoldersCompatible' /\ CountsMatchHolders' /\ NoLostWakeup'
    BY <2>1, GrantStep
  <2>3. TypeOK'
    BY <2>1, <2>2 DEF Grant, IInv, TypeOK, Holding
  <2>4. ListIsTheWaiters'
    BY <2>1, ListUnchanged DEF Grant, IInv, TypeOK, Waiting
  <2>5. QED
    BY <2>2, <2>3, <2>4 DEF IInv
<1>3. ASSUME NEW t \in Threads, WaitDone(t)
      PROVE  IInv'
  <2>1. pc[t] = "recheck" /\ Grant(t)
    BY <1>3 DEF WaitDone
  <2>2. /\ holder_counts' \in [Modes -> Nat]
        /\ MutexOwner' /\ HoldersCompatible' /\ CountsMatchHolders' /\ NoLostWakeup'
    BY <2>1, GrantStep
  <2>3. PICK i \in DOMAIN waiters : waiters[i] = t /\ waiters' = RemoveAt(waiters, i)
    BY <1>3 DEF WaitDone
  <2>4. waiters \in Seq(Threads) /\ i \in 1..Len(waiters)
        /\ \A j, k \in DOMAIN waiters : waiters[j] = waiters[k] => j = k
    BY <2>3, LenProperties DEF IInv, TypeOK, ListIsTheWaiters
  <2>5. /\ waiters' \in Seq(Threads)
        /\ \A u \in Threads : InList(waiters', u) <=> InList(waiters, u) /\ u # t
        /\ \A j, k \in DOMAIN waiters' : waiters'[j] = waiters'[k] => j = k
    BY <2>3, <2>4, RemoveWaiter
  <2>6. TypeOK'
    BY <2>1, <2>2, <2>5 DEF Grant, IInv, TypeOK, Holding
  <2>7. ListIsTheWaiters'
    <3>1. \A u \in Threads : pc'[u] \in Waiting <=> pc[u] \in Waiting /\ u # t
      BY <2>1 DEF Grant, IInv, TypeOK, Waiting
    <3>2. QED
      BY <2>5, <3>1 DEF IInv, ListIsTheWaiters, InList
  <2>8. QED
    BY <2>2, <2>6, <2>7 DEF IInv
<1>4. ASSUME NEW t \in Threads, LockWaiterInitFails(t) \/ TryRefused(t)
      PROVE  IInv'
  <2>1. pc[t] \in {"lock", "try"} /\ GiveUp(t)
    BY <1>4 DEF LockWaiterInitFails, TryRefused
  <2>2. TypeOK'
    BY <2>1 DEF GiveUp, IInv, TypeOK
  <2>3. MutexOwner' /\ NoLostWakeup'
    BY <2>1, ThreadsAssumption DEF GiveUp, IInv, TypeOK, MutexOwner, NoLostWakeup
  <2>4. HoldersCompatible' /\ CountsMatchHolders'
    BY <2>1, HoldingsUnchanged DEF GiveUp, IInv, TypeOK, Holding
  <2>5. ListIsTheWaiters'
    BY <2>1, ListUnchanged DEF GiveUp, IInv, TypeOK, Waiting
  <2>6. QED
    BY <2>2, <2>3, <2>4, <2>5 DEF IInv
<1>5. ASSUME NEW t \in Threads, LockWait(t)
      PROVE  IInv'
  <2>1. pc[t] = "lock" /\ Sleep(t) /\ waiters' = Append(waiters, t)
    BY <1>5 DEF LockWait
  <2>2. /\ waiters \in Seq(Threads) /\ ~InList(waiters, t)
        /\ \A j, k \in DOMAIN waiters : waiters[j] = waiters[k] => j = k
    BY <2>1 DEF IInv, TypeOK, ListIsTheWaiters, InList, Waiting
  <2>3. /\ waiters' \in Seq(Threads)
        /\ \A u \in Threads : InList(waiters', u) <=> InList(waiters, u) \/ u = t
        /\ \A j, k \in DOMAIN waiters' : waiters'[j] = waiters'[k] => j = k
    BY <2>1, <2>2, AppendWaiter
  <2>4. MutexOwner' /\ HoldersCompatible' /\ CountsMatchHolders' /\ NoLostWakeup'
    BY <2>1, SleepStep
  <2>5. TypeOK'
    BY <2>1, <2>3 DEF Sleep, IInv, TypeOK, Asking
  <2>6. ListIsTheWaiters'
    <3>1. \A u \in Threads : pc'[u] \in Waiting <=> pc[u] \in Waiting \/ u = t
      BY <2>1 DEF Sleep, IInv, TypeOK, Waiting
    <3>2. QED
      BY <2>3, <3>1 DEF IInv, ListIsTheWaiters, InList
  <2>7. QED
    BY <2>4, <2>5, <2>6 DEF IInv
<1>6. ASSUME NEW t \in Threads, WaitAgain(t)
      PROVE  IInv'
  <2>1. pc[t] = "recheck" /\ Sleep(t) /\ waiters' = waiters
    BY <1>6 DEF WaitAgain
  <2>2. MutexOwner' /\ HoldersCompatible' /\ CountsMatchHolders' /\ NoLostWakeup'
    BY <2>1, SleepStep
  <2>3. TypeOK'
    BY <2>1 DEF Sleep, IInv, TypeOK, Asking
  <2>4. ListIsTheWaiters'
    BY <2>1, ListUnchanged DEF Sleep, IInv, TypeOK, Waiting
  <2>5. QED
    BY <2>2, <2>3, <2>4 DEF IInv
<1>7. ASSUME NEW t \in Threads, SpuriousWakeup(t) \/ Recheck(t) \/ UnlockEnter(t)
      PROVE  IInv'
  <2> USE DEF SpuriousWakeup, Recheck, UnlockEnter, TakeMutex
  <2>1. TypeOK'
    BY <1>7 DEF IInv, TypeOK, Asking, Holding
  <2>2. MutexOwner'
    BY <1>7, ThreadsAssumption DEF IInv, TypeOK, MutexOwner
  <2>3. NoLostWakeup'
    BY <1>7 DEF IInv, TypeOK, NoLostWakeup
  <2>4. HoldersCompatible' /\ CountsMatchHolders'
    BY <1>7, HoldingsUnchanged DEF IInv, TypeOK, Holding
  <2>5. ListIsTheWaiters'
    BY <1>7, ListUnchanged DEF IInv, TypeOK, Waiting
  <2>6. QED
    BY <2>1, <2>2, <2>3, <2>4, <2>5 DEF IInv
<1>8. ASSUME NEW t \in Threads, TryBusy(t) \/ LockWaiterInitCrashes(t)
      PROVE  IInv'
  <2>1. UNCHANGED <<mutex, holder_counts, waiters, pc, mode>> /\ crashed' = TRUE
    BY <1>8 DEF TryBusy, LockWaiterInitCrashes
  <2>2. QED
    BY <2>1 DEF IInv, TypeOK, MutexOwner, HoldersCompatible, CountsMatchHolders,
                ListIsTheWaiters, NoLostWakeup
<1>9. CASE UNCHANGED vars
  BY <1>9 DEF vars, IInv, TypeOK, MutexOwner, HoldersCompatible,
              CountsMatchHolders, ListIsTheWaiters, NoLostWakeup
<1>10. QED
  BY <1>1, <1>2, <1>3, <1>4, <1>5, <1>6, <1>7, <1>8, <1>9, UnlockStep, ThreadsAssumption
     DEF Next, Lock, Try, Critical

-----------------------------------------------------------------------------
\* The inductive invariant holds in every reachable state.
THEOREM Invariance == Spec => []IInv
BY InitIInv, NextIInv, PTL DEF Spec

\* gr_lock never lets two threads hold incompatible modes, its counters count
\* its holders, and its list is the threads that wait (granularity_lock.c).
THEOREM Safety == Spec => []Inv
<1>1. IInv => Inv
  BY DEF IInv, Inv
<1>2. QED
  BY <1>1, Invariance, PTL

\* However many waiters a signal reaches, and whoever comes in between, no thread
\* that could be granted is left asleep (gr_unlock, gr_lock).
THEOREM Wakeups == Spec => []NoLostWakeup
<1>1. IInv => NoLostWakeup
  BY DEF IInv
<1>2. QED
  BY <1>1, Invariance, PTL

-----------------------------------------------------------------------------
\* The lock implements the abstract lock: granting by the counters is granting
\* by the holders, and every other step is one the abstract lock allows.

\* The counters admit a mode exactly when every thread's holding does.
LEMMA GrantableIsCompatible ==
  ASSUME IInv, NEW t \in Threads, pc[t] \in Asking
  PROVE  Abs!Grantable(t) <=> IsCompatible(holder_counts, mode[t])
<1>1. mode[t] \in Modes
  BY DEF IInv, TypeOK, Asking
<1>2. ASSUME IsCompatible(holder_counts, mode[t])
      PROVE  Abs!Grantable(t)
  BY <1>1, <1>2, CompatibleWithHolders DEF Abs!Grantable, Compatible
<1>3. ASSUME Abs!Grantable(t), NEW n \in Modes, holder_counts[n] > 0
      PROVE  Compatible(mode[t], n)
  <2>1. Cardinality(Holders(n)) # 0
    BY <1>3 DEF IInv, CountsMatchHolders, Holders
  <2>2. PICK u \in Threads : pc[u] \in Holding /\ mode[u] = n
    BY <2>1, FS_EmptySet DEF Holders
  <2>3. QED
    BY <1>1, <1>3, <2>2, NoModeAssumption DEF Abs!Grantable, Compatible
<1>4. QED
  BY <1>2, <1>3 DEF IsCompatible

\* A step that takes a mode finds it grantable, a refused try finds it not.
LEMMA StepImplementsLock == IInv /\ [Next]_vars => [Abs!Next]_(Abs!vars)
<1> SUFFICES ASSUME IInv, [Next]_vars PROVE [Abs!Next]_(Abs!vars)
  OBVIOUS
<1> USE DEF Asking, Holding
<1>1. ASSUME NEW t \in Threads, NEW m \in Modes, LockEnter(t, m) \/ TryEnter(t, m)
      PROVE  Abs!Request(t, m)
  BY <1>1 DEF LockEnter, TryEnter, TakeMutex, IInv, TypeOK, Abs!Request
<1>2. ASSUME NEW t \in Threads, pc[t] \in {"lock", "try", "recheck"}, Grant(t)
      PROVE  Abs!Grant(t)
  <2>1. Abs!Grantable(t)
    BY <1>2, GrantableIsCompatible DEF Grant
  <2>2. QED
    BY <1>2, <2>1, NoModeAssumption DEF Grant, IInv, TypeOK, Abs!Grant
<1>3. ASSUME NEW t \in Threads, pc[t] \in {"lock", "try"}, GiveUp(t)
      PROVE  Abs!Refuse(t)
  <2>1. ~Abs!Grantable(t)
    BY <1>3, GrantableIsCompatible DEF GiveUp
  <2>2. QED
    BY <1>3, <2>1, NoModeAssumption DEF GiveUp, IInv, TypeOK, Abs!Refuse
<1>4. ASSUME NEW t \in Threads, Unlock(t)
      PROVE  Abs!Release(t)
  BY <1>4, NoModeAssumption DEF Unlock, WakeWaiters, IInv, TypeOK, Abs!Release
<1>5. ASSUME NEW t \in Threads,
             \/ LockWait(t) \/ WaitAgain(t) \/ SpuriousWakeup(t)
             \/ Recheck(t) \/ UnlockEnter(t) \/ TryBusy(t) \/ LockWaiterInitCrashes(t)
      PROVE  UNCHANGED Abs!vars
  BY <1>5 DEF LockWait, WaitAgain, Sleep, SpuriousWakeup, Recheck, UnlockEnter,
              TryBusy, LockWaiterInitCrashes, TakeMutex, IInv, TypeOK, Abs!vars
<1>6. CASE UNCHANGED vars
  BY <1>6 DEF vars, Abs!vars
<1>7. QED
  BY <1>1, <1>2, <1>3, <1>4, <1>5, <1>6, ThreadsAssumption
     DEF Next, Lock, Try, Critical, LockFast, TryGranted, WaitDone,
         LockWaiterInitFails, TryRefused, Abs!Next, Modes

\* The lock of gr_lock.c implements the abstract granularity lock.
THEOREM Implementation == Spec => ImplementsLock
<1>1. Init => Abs!Init
  BY DEF Init, Abs!Init, Asking, Holding
<1>2. QED
  BY <1>1, StepImplementsLock, Invariance, PTL DEF Spec, ImplementsLock, Abs!Spec

=============================================================================
