----------------------------- MODULE HashTable -----------------------------
(* The chained hash table of ds/hash_table.c.  A place where a pointer to a  *)
(* node is kept is a slot: the head of a bucket, or the `next` of a node.    *)
(* htable_lookup and htable_random return a slot and give the latch back;    *)
(* htable_delete takes a slot.  The latch is taken in one step here (Latch   *)
(* has its word), and every call inside it has the steps another thread      *)
(* could tell apart.                                                         *)
EXTENDS Integers, Sequences, FiniteSets, SequencesExt, Threading

CONSTANTS
  Nodes,     \* struct hnode
  Null,      \* no node, no slot
  Cap,       \* buckets
  Hash       \* hcode % cap of each node

ASSUME HashTableAssumption ==
  /\ Cap \in Nat \ {0}
  /\ Hash \in [Nodes -> 1 .. Cap]
  /\ Null \notin Nodes \cup (1 .. Cap)
  /\ Nodes \cap (1 .. Cap) = {} /\ Nodes # {} /\ IsFiniteSet(Nodes)

VARIABLES
  link,      \* what each slot points to
  size,
  latch,     \* the thread with the latch
  call       \* the call each thread is in: its step, node, slot and index

tableVars == <<link, size, latch, call>>

Slots == 1 .. Cap \cup Nodes

Idle == [op |-> "none", step |-> 0, node |-> Null, slot |-> Null, index |-> 0]

TableInit ==
  /\ link = [s \in Slots |-> Null]
  /\ size = 0
  /\ latch = Nobody
  /\ call = [t \in Threads |-> Idle]

\* The slots of bucket b that point to a node, in the order of the chain: the
\* walk ends at the first slot that points to none.
Occupied(b) ==
  LET walk[i \in 0 .. Cardinality(Nodes)] ==
        IF i = 0 THEN <<b>>
        ELSE IF link[Last(walk[i - 1])] = Null THEN walk[i - 1]
        ELSE Append(walk[i - 1], link[Last(walk[i - 1])])
  IN  Front(walk[Cardinality(Nodes)])

\* The walks over the buckets, one after the other.
AllOccupied ==
  LET upto[b \in 0 .. Cap] == IF b = 0 THEN <<>> ELSE upto[b - 1] \o Occupied(b)
  IN  upto[Cap]

\* The nodes a walk over the buckets meets.
Chained == {link[s] : s \in ToSet(AllOccupied)}

-----------------------------------------------------------------------------
\* The call begins.  htable_random has read the size by then: its target is
\* any index below it, or any number when the size is 0 (size - 1 wraps).
Enter(t, op, node) ==
  /\ call[t].op = "none"
  /\ \E index \in IF op # "random" THEN {0}
                  ELSE IF size > 0 THEN 0 .. size - 1 ELSE 0 .. Cardinality(Nodes) :
       call' = [call EXCEPT ![t].op = op, ![t].step = 1, ![t].node = node, ![t].index = index]
  /\ UNCHANGED <<link, size, latch>>

AcquireLatch(t) ==
  /\ call[t].step = 1 /\ latch = Nobody
  /\ latch' = t
  /\ call' = [call EXCEPT ![t].step = 2]
  /\ UNCHANGED <<link, size>>

\* The latch is given back, and node and slot are what the caller has now.
Leave(t, node, slot) ==
  /\ latch' = Nobody
  /\ call' = [call EXCEPT ![t] = [Idle EXCEPT !.node = node, !.slot = slot]]

NextStep(t, node) == call' = [call EXCEPT ![t].step = @ + 1, ![t].node = node] /\ UNCHANGED latch

SetNext(t) ==
  /\ call[t].op = "insert" /\ call[t].step = 2
  /\ link' = [link EXCEPT ![call[t].node] = link[Hash[call[t].node]]]
  /\ NextStep(t, call[t].node)
  /\ UNCHANGED size

SetHead(t) ==
  /\ call[t].op = "insert" /\ call[t].step = 3
  /\ link' = [link EXCEPT ![Hash[call[t].node]] = call[t].node]
  /\ NextStep(t, call[t].node)
  /\ UNCHANGED size

CountIn(t) ==
  /\ call[t].op = "insert" /\ call[t].step = 4
  /\ size' = size + 1
  /\ Leave(t, call[t].node, Null)
  /\ UNCHANGED link

\* The equality given to htable_lookup holds of one node at most.
Lookup(t) ==
  /\ call[t].op = "lookup" /\ call[t].step = 2
  /\ LET key == call[t].node
         hits == {s \in ToSet(Occupied(Hash[key])) : link[s] = key}
     IN  Leave(t, key, IF hits = {} THEN Null ELSE CHOOSE s \in hits : TRUE)
  /\ UNCHANGED <<link, size>>

Random(t) ==
  /\ call[t].op = "random" /\ call[t].step = 2
  /\ LET target == call[t].index + 1
     IN  Leave(t, Null, IF target <= Len(AllOccupied) THEN AllOccupied[target] ELSE Null)
  /\ UNCHANGED <<link, size>>

\* The action is called on every chained node, inside the latch.
Foreach(t) ==
  /\ call[t].op = "foreach" /\ call[t].step = 2
  /\ Leave(t, Null, Null)
  /\ UNCHANGED <<link, size>>

Unlink(t, slot) ==
  /\ call[t].op = "delete" /\ call[t].step = 2 /\ slot # Null
  /\ LET node == link[slot]
     IN  /\ node # Null
         /\ link' = [link EXCEPT ![slot] = link[node]]
         /\ NextStep(t, node)
  /\ UNCHANGED size

CountOut(t) ==
  /\ call[t].op = "delete" /\ call[t].step = 3
  /\ size' = size - 1
  /\ Leave(t, call[t].node, Null)
  /\ UNCHANGED link

Table(t) ==
  \/ AcquireLatch(t)
  \/ SetNext(t) \/ SetHead(t) \/ CountIn(t)
  \/ Lookup(t) \/ Random(t) \/ Foreach(t)
  \/ Unlink(t, call[t].slot) \/ CountOut(t)

-----------------------------------------------------------------------------
\* The types of the table (struct htable, struct hnode).
TableTypeOK ==
  /\ link \in [Slots -> Nodes \cup {Null}]
  /\ size \in Nat
  /\ latch \in Threads \cup {Nobody}
  /\ \A t \in Threads :
       /\ call[t].op \in {"none", "insert", "lookup", "random", "foreach", "delete"}
       /\ call[t].node \in Nodes \cup {Null} /\ call[t].slot \in Slots \cup {Null}

\* With the latch free the table is whole: every chained node is in the chain
\* of its own hash code, no node twice, and the size counts them
\* (hash_table.c:76-78, :120-122).
TableIsWhole ==
  latch = Nobody =>
    /\ size = Len(AllOccupied) /\ size = Cardinality(Chained)
    /\ \A b \in 1 .. Cap : \A s \in ToSet(Occupied(b)) : Hash[link[s]] = b

=============================================================================
