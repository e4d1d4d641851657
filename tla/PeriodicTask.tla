---------------------------- MODULE PeriodicTask ----------------------------
(***************************************************************************)
(* The background task of src/concurrency/periodic_task.c: a worker thread *)
(* that runs a function each time it is woken, an owner that starts and    *)
(* stops it, and other threads that wake it.  The three meet at a mutex    *)
(* and two condition variables; what a thread does between taking the      *)
(* mutex and releasing it is one step.                                     *)
(*                                                                         *)
(* The owner initialises the task again before it starts it again, and the *)
(* other threads stop waking it once the owner has called                  *)
(* periodic_task_stop: the code relies on both.                            *)
(***************************************************************************)
EXTENDS Naturals

CONSTANTS
  Wakers,   \* the threads that call periodic_task_wake
  Nobody    \* the owner of a free mutex

ASSUME WakersAssumption ==
  /\ Wakers \cap {"worker", "owner", Nobody} = {}
  /\ Nobody \notin {"worker", "owner"}

VARIABLES
  mutex,           \* the thread that owns t->mutex, or Nobody
  live,            \* the mutex and the condition variables exist
  wake_requested,  \* t->wake_requested
  stop,            \* t->stop
  done,            \* t->done
  running,         \* t->running
  worker,          \* where the worker thread is
  owner,           \* where the owner is
  unserved         \* history: a wake that no run of the function has followed

taskVars == <<mutex, live, wake_requested, stop, done, running, worker, owner, unserved>>
flags == <<wake_requested, stop, done, running>>

WorkerPlaces == {"none", "lock", "check", "asleep", "woken", "run",
                 "finish", "done", "unlock", "leaving", "exited"}
OwnerPlaces  == {"new", "ready", "starting", "up", "request", "await",
                 "wait", "asleep", "woken", "join"}

\* The types, and who may own the mutex where.
TaskTypeOK ==
  /\ mutex = "worker" <=> worker \in {"check", "done", "unlock"}
  /\ mutex = "owner" <=> owner \in {"request", "wait"}
  /\ mutex \in Wakers \cup {"worker", "owner", Nobody}
  /\ live \in BOOLEAN
  /\ wake_requested \in BOOLEAN
  /\ stop \in BOOLEAN
  /\ done \in BOOLEAN
  /\ running \in BOOLEAN
  /\ worker \in WorkerPlaces
  /\ owner \in OwnerPlaces
  /\ unserved \in BOOLEAN

-----------------------------------------------------------------------------
TaskInit ==
  /\ mutex = Nobody
  /\ live = FALSE
  /\ wake_requested = FALSE
  /\ stop = FALSE
  /\ done = FALSE
  /\ running = FALSE
  /\ worker = "none"
  /\ owner = "new"
  /\ unserved = FALSE

TakeMutex(t) == mutex = Nobody /\ mutex' = t
GiveMutex(t) == mutex = t /\ mutex' = Nobody

Worker(from, to) == worker = from /\ worker' = to
Owner(from, to)  == owner = from /\ owner' = to

\* i_cond_signal: the sleeper, if there is one, wakes.
SignalWake == worker' = IF worker = "asleep" THEN "woken" ELSE worker
SignalDone == owner' = IF owner = "asleep" THEN "woken" ELSE owner

\* periodic_task_init.  When a mutex or a condition variable cannot be created,
\* those made before it are freed; the flags are reset either way.
Initialise ==
  /\ Owner("new", "ready")
  /\ live' = TRUE
  /\ wake_requested' = FALSE
  /\ stop' = FALSE
  /\ done' = FALSE
  /\ running' = FALSE
  /\ worker' = "none"
  /\ unserved' = FALSE
  /\ UNCHANGED mutex

\* periodic_task_start.  The worker may run before `running` is set; a thread
\* that cannot be created leaves everything as it was.
Start ==
  /\ Owner("ready", "starting")
  /\ Worker("none", "lock")
  /\ UNCHANGED <<mutex, live, flags, unserved>>

Started ==
  /\ Owner("starting", "up")
  /\ running' = TRUE
  /\ UNCHANGED <<mutex, live, wake_requested, stop, done, worker, unserved>>

\* periodic_task_stop: asks the worker to stop ...
StopEnter ==
  /\ running
  /\ TakeMutex("owner")
  /\ Owner("up", "request")
  /\ UNCHANGED <<live, flags, worker, unserved>>

\* Mutant: the worker is not signalled.
StopRequestSilent ==
  /\ GiveMutex("owner")
  /\ Owner("request", "await")
  /\ stop' = TRUE
  /\ UNCHANGED <<live, wake_requested, done, running, worker, unserved>>

StopRequest ==
  /\ GiveMutex("owner")
  /\ Owner("request", "await")
  /\ stop' = TRUE
  /\ SignalWake
  /\ UNCHANGED <<live, wake_requested, done, running, unserved>>

\* ... waits until it says it is done ...
AwaitEnter ==
  /\ TakeMutex("owner")
  /\ owner \in {"await", "woken"}
  /\ owner' = "wait"
  /\ UNCHANGED <<live, flags, worker, unserved>>

AwaitDone ==
  /\ GiveMutex("owner")
  /\ Owner("wait", IF done THEN "join" ELSE "asleep")
  /\ UNCHANGED <<live, flags, worker, unserved>>

OwnerWakesForNothing ==
  /\ Owner("asleep", "woken")
  /\ UNCHANGED <<mutex, live, flags, worker, unserved>>

\* Mutant: frees without waiting for the thread.
FreeUnjoined ==
  /\ Owner("join", "new")
  /\ live' = FALSE
  /\ running' = FALSE
  /\ UNCHANGED <<mutex, wake_requested, stop, done, worker, unserved>>

\* ... and, once the thread has returned, frees what it shared with it.
Free ==
  /\ worker = "exited"
  /\ Owner("join", "new")
  /\ live' = FALSE
  /\ running' = FALSE
  /\ UNCHANGED <<mutex, wake_requested, stop, done, worker, unserved>>

\* periodic_task_wake
WakeEnter(w) ==
  /\ owner \in {"starting", "up"}
  /\ TakeMutex(w)
  /\ UNCHANGED <<live, flags, worker, owner, unserved>>

\* Mutant: the worker is not signalled.
WakeSilent(w) ==
  /\ GiveMutex(w)
  /\ wake_requested' = TRUE
  /\ unserved' = TRUE
  /\ UNCHANGED <<live, stop, done, running, worker, owner>>

Wake(w) ==
  /\ GiveMutex(w)
  /\ wake_requested' = TRUE
  /\ SignalWake
  /\ unserved' = TRUE
  /\ UNCHANGED <<live, stop, done, running, owner>>

\* periodic_task_thread: takes the mutex at the top of the loop or when
\* i_cond_timed_wait returns ...
WorkerEnter ==
  /\ TakeMutex("worker")
  /\ worker \in {"lock", "woken"}
  /\ worker' = "check"
  /\ UNCHANGED <<live, flags, owner, unserved>>

\* ... sleeps while there is nothing to do ...
WorkerSleep ==
  /\ ~wake_requested /\ ~stop
  /\ GiveMutex("worker")
  /\ Worker("check", "asleep")
  /\ UNCHANGED <<live, flags, owner, unserved>>

\* The period is over, or the system wakes the worker for nothing.
TimedOut ==
  /\ Worker("asleep", "woken")
  /\ UNCHANGED <<mutex, live, flags, owner, unserved>>

\* Mutant: the request is cleared after the run, with what came in meanwhile.
WorkerRunClearsLate ==
  /\ Worker("run", "lock")
  /\ wake_requested' = FALSE
  /\ unserved' = unserved
  /\ UNCHANGED <<mutex, live, stop, done, running, owner>>

\* ... takes the request, and leaves the loop if it is to stop.
WorkerTake ==
  /\ wake_requested \/ stop
  /\ GiveMutex("worker")
  /\ Worker("check", IF stop THEN "finish" ELSE "run")
  /\ wake_requested' = FALSE
  /\ unserved' = IF stop THEN unserved ELSE FALSE
  /\ UNCHANGED <<live, stop, done, running, owner>>

\* t->fn (t->ctx) returns.
WorkerRun ==
  /\ Worker("run", "lock")
  /\ UNCHANGED <<mutex, live, flags, owner, unserved>>

WorkerFinish ==
  /\ TakeMutex("worker")
  /\ Worker("finish", "done")
  /\ UNCHANGED <<live, flags, owner, unserved>>

WorkerDone ==
  /\ Worker("done", "unlock")
  /\ done' = TRUE
  /\ SignalDone
  /\ UNCHANGED <<mutex, live, wake_requested, stop, running, unserved>>

WorkerUnlock ==
  /\ GiveMutex("worker")
  /\ Worker("unlock", "leaving")
  /\ UNCHANGED <<live, flags, owner, unserved>>

\* The last of i_mutex_unlock, and the return from the thread.
WorkerExit ==
  /\ Worker("leaving", "exited")
  /\ UNCHANGED <<mutex, live, flags, owner, unserved>>

TaskNext == \/ Initialise \/ Start \/ Started
        \/ StopEnter \/ StopRequest \/ AwaitEnter \/ AwaitDone
        \/ OwnerWakesForNothing \/ Free
        \/ \E w \in Wakers : WakeEnter(w) \/ Wake(w)
        \/ WorkerEnter \/ WorkerSleep \/ TimedOut \/ WorkerTake \/ WorkerRun
        \/ WorkerFinish \/ WorkerDone \/ WorkerUnlock \/ WorkerExit

TaskSpec == TaskInit /\ [][TaskNext]_taskVars

\* Threads keep running, the function returns, and a thread that waits for the
\* mutex gets it in the end.  The owner need not start or stop anything, nobody
\* has to wake the worker, and no wait has to time out.
Fairness ==
  /\ WF_taskVars(Started) /\ WF_taskVars(StopRequest) /\ SF_taskVars(AwaitEnter)
  /\ WF_taskVars(AwaitDone) /\ WF_taskVars(Free)
  /\ \A w \in Wakers : WF_taskVars(Wake(w))
  /\ SF_taskVars(WorkerEnter) /\ WF_taskVars(WorkerSleep) /\ WF_taskVars(WorkerTake)
  /\ WF_taskVars(WorkerRun) /\ SF_taskVars(WorkerFinish) /\ WF_taskVars(WorkerDone)
  /\ WF_taskVars(WorkerUnlock) /\ WF_taskVars(WorkerExit)

FairTaskSpec == TaskSpec /\ Fairness

-----------------------------------------------------------------------------
\* Nobody touches a mutex or a condition variable that was freed: the worker is
\* gone, and no thread is inside a critical section or asleep.
NothingFreedInUse ==
  ~live => worker \in {"none", "exited"} /\ mutex = Nobody /\ owner = "new"

\* No lost wakeup: a sleeping worker has nothing to do, and an owner asleep in
\* periodic_task_stop has a worker that is not done.
NoLostWakeup == /\ worker = "asleep" => ~wake_requested /\ ~stop
                /\ owner = "asleep" => ~done

\* What the worker may be doing at each stage of the owner's calls.  It has said
\* that it is done, in every stage of periodic_task_stop, exactly when it can no
\* longer sleep; a waker has the mutex only between a start and a stop.
Stages ==
  /\ live <=> owner # "new"
  /\ owner = "new" => worker \in {"none", "exited"} /\ mutex = Nobody
  /\ owner = "ready" => worker = "none" /\ mutex = Nobody /\ ~stop /\ ~done
  /\ owner \in {"starting", "up", "request"} =>
       worker \in {"lock", "check", "asleep", "woken", "run"} /\ ~stop /\ ~done
  /\ owner \in {"await", "wait", "asleep", "woken", "join"} =>
       /\ stop /\ worker # "none"
       /\ done <=> worker \in {"unlock", "leaving", "exited"}
  /\ owner = "join" => done
  /\ mutex \in Wakers => owner \in {"starting", "up"}

\* Freeing and sleeping never overtake the thread that still needs the object
\* or the signal (periodic_task_stop, periodic_task_thread).
TaskInv == TaskTypeOK /\ Stages /\ NothingFreedInUse /\ NoLostWakeup

\* A wake is never forgotten: as long as no run has followed it, the request
\* stands, unless the worker has taken it together with a stop.
WakeIsKept == unserved => wake_requested \/ stop

\* periodic_task_stop returns, whatever the worker was doing when it was called.
StopReturns == owner = "request" ~> owner = "new"

\* Every wake is followed by a run of the function, or by a stop.
WakeRuns == unserved ~> (~unserved \/ stop)
=============================================================================
