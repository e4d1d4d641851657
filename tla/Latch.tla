------------------------------- MODULE Latch -------------------------------
(* The spin latch of concurrency/latch.h: one word, taken by compare and     *)
(* exchange.  The weak exchange may fail although the word was 0.            *)
EXTENDS Naturals

CONSTANT Threads

VARIABLES
  word,   \* 0 free, 1 taken
  at      \* where each thread is in latch_lock, or "out", or "in" with the latch

vars == <<word, at>>

Init ==
  /\ word = 0
  /\ at = [t \in Threads |-> "out"]

Goto(t, label) == at' = [at EXCEPT ![t] = label]

Call(t) == at[t] = "out" /\ Goto(t, "first") /\ UNCHANGED word

\* Mutant: the latch is stored, not exchanged.
Store(t) ==
  /\ at[t] \in {"first", "again"}
  /\ word' = 1
  /\ Goto(t, "in")

\* The exchange succeeds only on 0 ...
Exchange(t) ==
  /\ at[t] \in {"first", "again"}
  /\ word = 0
  /\ word' = 1
  /\ Goto(t, "in")

\* ... and fails on 1, or for no reason; the thread goes to the loop of loads.
Miss(t) ==
  /\ at[t] \in {"first", "again"}
  /\ Goto(t, "spin")
  /\ UNCHANGED word

\* The loop ends when a load sees 0, but the latch is not taken yet.
SeeFree(t) ==
  /\ at[t] = "spin" /\ word = 0
  /\ Goto(t, "again")
  /\ UNCHANGED word

Unlock(t) ==
  /\ at[t] = "in"
  /\ word' = 0
  /\ Goto(t, "out")

Lock(t) == Call(t) \/ Exchange(t) \/ Miss(t) \/ SeeFree(t)

Next == \E t \in Threads : Lock(t) \/ Unlock(t)

Spec == Init /\ [][Next]_vars

-----------------------------------------------------------------------------
\* The types of the latch (latch.h: a word that holds 0 or 1).
LatchTypeOK ==
  /\ word \in {0, 1}
  /\ at \in [Threads -> {"out", "first", "spin", "again", "in"}]

\* At most one thread is between latch_lock and latch_unlock.
MutualExclusion ==
  \A s, t \in Threads : at[s] = "in" /\ at[t] = "in" => s = t

=============================================================================
