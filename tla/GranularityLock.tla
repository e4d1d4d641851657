-------------------------- MODULE GranularityLock --------------------------
(***************************************************************************)
(* What a granularity lock (struct gr_lock) promises its callers, without  *)
(* the mutex, the holder counters, the waiter list or the condition        *)
(* variables that implement it: a thread asks for a mode, is granted it    *)
(* only together with modes it is compatible with, and gives it back.      *)
(***************************************************************************)
CONSTANTS
  Threads,    \* the threads that use the lock
  NoMode      \* stands for "no mode"; not one of the modes

Modes == {"IS", "IX", "S", "SIX", "X"}

\* The rows of the table `compatible`: the modes that may be held beside m.
CompatibleWith == [IS  |-> {"IS", "IX", "S", "SIX"},
                   IX  |-> {"IS", "IX"},
                   S   |-> {"IS", "S"},
                   SIX |-> {"IS"},
                   X   |-> {}]

Compatible(m, n) == n \in CompatibleWith[m]

VARIABLES
  request,    \* the mode each thread is asking for
  held        \* the mode each thread holds

vars == <<request, held>>

TypeOK == /\ request \in [Threads -> Modes \cup {NoMode}]
          /\ held \in [Threads -> Modes \cup {NoMode}]

Init == /\ request = [t \in Threads |-> NoMode]
        /\ held = [t \in Threads |-> NoMode]

\* The mode t asks for may be held beside everything the others hold.
Grantable(t) ==
  \A u \in Threads : held[u] # NoMode => Compatible(request[t], held[u])

Request(t, m) == /\ request[t] = NoMode
                 /\ held[t] = NoMode
                 /\ request' = [request EXCEPT ![t] = m]
                 /\ UNCHANGED held

Grant(t) == /\ request[t] # NoMode
            /\ Grantable(t)
            /\ held' = [held EXCEPT ![t] = request[t]]
            /\ request' = [request EXCEPT ![t] = NoMode]

\* An error or a failed try: only a request that cannot be granted is refused.
Refuse(t) == /\ request[t] # NoMode
             /\ ~Grantable(t)
             /\ request' = [request EXCEPT ![t] = NoMode]
             /\ UNCHANGED held

Release(t) == /\ held[t] # NoMode
              /\ held' = [held EXCEPT ![t] = NoMode]
              /\ UNCHANGED request

Next == \E t \in Threads : \/ \E m \in Modes : Request(t, m)
                           \/ Grant(t)
                           \/ Refuse(t)
                           \/ Release(t)

Spec == Init /\ [][Next]_vars

\* A request that stays grantable is granted.
Fairness == \A t \in Threads : WF_vars(Grant(t))

=============================================================================
