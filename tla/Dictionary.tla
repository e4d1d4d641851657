----------------------------- MODULE Dictionary -----------------------------
(***************************************************************************)
(* What a table of a fixed capacity does for its callers: a set of keys,   *)
(* and an answer to each call that agrees with the set.                    *)
(***************************************************************************)
EXTENDS Naturals, FiniteSets

CONSTANTS Keys, cap

VARIABLES
  stored,      \* the keys in the table
  answer       \* the last call and what it returned

vars == <<stored, answer>>

Answer(op, k, res) == answer' = [op |-> op, key |-> k, res |-> res]

NoAnswer == [op |-> "init", key |-> 0, res |-> "success"]

Init == stored = {} /\ answer = NoAnswer

Insert(k) ==
  \/ /\ k \in stored
     /\ Answer("insert", k, "exists")
     /\ UNCHANGED stored
  \/ /\ k \notin stored /\ Cardinality(stored) < cap
     /\ Answer("insert", k, "success")
     /\ stored' = stored \cup {k}

\* A full table has no room for a key it does not have.  One of all these keys
\* stays out, and it need not be the new one: the caller is not told which.
Refuse(k) ==
  /\ k \notin stored /\ Cardinality(stored) = cap
  /\ Answer("insert", k, "full")
  /\ \E out \in stored \cup {k} : stored' = (stored \cup {k}) \ {out}

Get(k) ==
  /\ Answer("get", k, IF k \in stored THEN "success" ELSE "doesnt_exist")
  /\ UNCHANGED stored

Delete(k) ==
  /\ Answer("delete", k, IF k \in stored THEN "success" ELSE "doesnt_exist")
  /\ stored' = stored \ {k}

Next == \E k \in Keys : Insert(k) \/ Refuse(k) \/ Get(k) \/ Delete(k)

Spec == Init /\ [][Next]_vars
=============================================================================
