------------------------------ MODULE Workers ------------------------------
(* Threads that hand nodes to each other: the hash table has the nodes, a    *)
(* semaphore counts them, and a read-write lock keeps the slots that         *)
(* htable_random returns from being moved before htable_delete uses them.    *)
(* Who inserts or only looks shares the lock; who deletes has it alone.      *)
EXTENDS OsSync, HashTable

CONSTANT Plans   \* bound: the jobs each thread does

ASSUME PlansAssumption ==
  /\ Plans \subseteq [Threads -> Seq({"put", "get", "peek"})]
  /\ IsFiniteSet(Threads)

VARIABLES
  job,       \* the calls each thread has left to make in its job
  cargo,     \* the node it works with
  plan       \* the jobs each thread has not begun

vars == <<syncVars, tableVars, job, cargo, plan>>

Init ==
  /\ SyncInit /\ TableInit
  /\ job = [t \in Threads |-> <<>>]
  /\ cargo = [t \in Threads |-> Null]
  /\ plan \in Plans

\* Mutant: a put gives back a lock it did not take.
JobsUnlockTwice(kind) ==
  CASE kind = "put" -> {<<"rdlock", "insert", "unlock", "post", "unlock">>}
    [] kind = "get" -> {<<w, "wrlock", "random", "delete", "unlock">> : w \in Waiting}
    [] kind = "peek" -> {<<"try_rdlock", "lookup", "unlock">>}

Jobs(kind) ==
  CASE kind = "put" -> {<<"rdlock", "insert", "unlock", "post">>}
    [] kind = "get" -> {<<w, "wrlock", "random", "delete", "unlock">> : w \in Waiting}
    [] kind = "peek" -> {<<"try_rdlock", "lookup", "unlock">>, <<"try_wrlock", "foreach", "unlock">>}

TableCalls == {"insert", "lookup", "random", "foreach", "delete"}

Free(t) == sync[t] = "none" /\ call[t].op = "none"

Unused == {n \in Nodes : n \notin Chained /\ \A t \in Threads : cargo[t] # n}

\* A put takes a node that nobody has, and begins when there is one; a lookup
\* asks for any node.
Begin(t) ==
  /\ Free(t) /\ job[t] = <<>> /\ plan[t] # <<>>
  /\ \E calls \in Jobs(Head(plan[t])) :
       /\ "insert" \in ToSet(calls) => Unused # {}
       /\ job' = [job EXCEPT ![t] = Tail(calls)]
       /\ Calling(t, Head(calls))
       /\ cargo' = [cargo EXCEPT ![t] = IF "insert" \in ToSet(calls) THEN CHOOSE n \in Unused : TRUE
                                       ELSE IF "lookup" \in ToSet(calls) THEN CHOOSE n \in Nodes : TRUE
                                       ELSE Null]
  /\ plan' = [plan EXCEPT ![t] = Tail(@)]
  /\ UNCHANGED tableVars

\* The next call of the job; the last call, if it was a try, succeeded.
Proceed(t) ==
  /\ Free(t) /\ job[t] # <<>> /\ got[t]
  /\ job' = [job EXCEPT ![t] = Tail(@)]
  /\ IF Head(job[t]) \in TableCalls
     THEN Enter(t, Head(job[t]), cargo[t]) /\ UNCHANGED syncVars
     ELSE Calling(t, Head(job[t])) /\ UNCHANGED tableVars
  /\ UNCHANGED <<cargo, plan>>

\* A try_lock, or a wait that is not for ever, failed: the job is not done.
GiveUp(t) ==
  /\ Free(t) /\ job[t] # <<>> /\ ~got[t]
  /\ job' = [job EXCEPT ![t] = <<>>]
  /\ UNCHANGED <<syncVars, tableVars, cargo, plan>>

InSync(t) == (Semaphore(t) \/ RwLock(t)) /\ UNCHANGED <<tableVars, job, cargo, plan>>

InTable(t) == Table(t) /\ UNCHANGED <<syncVars, job, cargo, plan>>

Time(t) == (Spurious(t) \/ Deadline(t)) /\ UNCHANGED <<tableVars, job, cargo, plan>>

Next == \E t \in Threads :
  Begin(t) \/ Proceed(t) \/ GiveUp(t) \/ InSync(t) \/ InTable(t) \/ Time(t)

\* The threads run; a lock or a mutex that is free again and again is taken in
\* the end; and a deadline passes, whatever woke the sleeper before (it is a
\* point in time, semaphore.c:82-90).
Fairness ==
  \A t \in Threads :
    /\ SF_vars(Begin(t) \/ Proceed(t) \/ GiveUp(t) \/ InSync(t) \/ InTable(t))
    /\ SF_vars(Deadline(t) /\ UNCHANGED <<tableVars, job, cargo, plan>>)

Spec == Init /\ [][Next]_vars /\ Fairness

-----------------------------------------------------------------------------
\* The types of the state (threading.h, hash_table.h).
TypeOK ==
  /\ SyncTypeOK /\ TableTypeOK
  /\ cargo \in [Threads -> Nodes \cup {Null}]

\* Whoever counted a node out of the semaphore draws one from the table: the
\* slot is there, and still points to a node when htable_delete reads it
\* (hash_table.c:132, :120; the size is read outside the latch).
DrawFindsNode ==
  \A t \in Threads :
    /\ Free(t) /\ job[t] # <<>> /\ Head(job[t]) = "delete" => call[t].slot # Null
    /\ call[t].op = "delete" /\ call[t].step <= 2 =>
         call[t].slot # Null /\ link[call[t].slot] # Null

\* Threads that counted a node and have not unlinked it; threads that chained a
\* node and have not counted it.
Drawing == {t \in Threads :
  \/ call[t].op = "delete" /\ call[t].step <= 2
  \/ /\ "delete" \in ToSet(job[t]) /\ sync[t] \in {"none", "leave", "wrlock", "set_flag"}
     /\ sync[t] = "none" => got[t]}

Posting == {t \in Threads :
  \/ call[t].op = "insert" /\ call[t].step = 4
  \/ call[t].op # "insert" /\ "post" \in ToSet(job[t]) /\ "insert" \notin ToSet(job[t])
  \/ sync[t] \in {"post", "post_in"}}

\* The semaphore counts the nodes of the table, less those that a wait has
\* counted out already, or that a post will count: no wake-up, timeout or try
\* takes a count twice, or takes one without having it (semaphore.c:52-105).
CountMatchesNodes ==
  sem.count + Cardinality(Drawing) + Cardinality(Posting) = Cardinality(Chained)

\* Semaphore and table agree: every count is a node, and stays one until its
\* thread has drawn it (HashTable.TableIsWhole for the chains).
Inv == TypeOK /\ TableIsWhole /\ DrawFindsNode /\ CountMatchesNodes

\* Threads do not sleep on the condition variable while there are counts for them
\* (semaphore.c:52-60: one signal for each post, whatever the count was), except
\* on as many as there are signals that a timed wait took with it when its time
\* ran out: it returns without a look at the count and without a signal of its
\* own (:101-105), and the count it was called for finds nobody awake.
NoSleepOnCount ==
  sem.asleep # {} /\ sem.count > sem.lost ~> sem.asleep = {} \/ sem.count <= sem.lost

\* Every thread comes to the end of its jobs, unless it waits for ever for a count
\* of 0, or for counts whose signals timed waits have taken with them.
JobsEnd ==
  \A t \in Threads :
    []<>(\/ Free(t) /\ job[t] = <<>> /\ plan[t] = <<>>
         \/ sync[t] \in {"wait", "wait_in"} /\ sem.count <= sem.lost)

=============================================================================
