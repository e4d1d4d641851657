------------------------------ MODULE RobinHood ------------------------------
(***************************************************************************)
(* The open-addressing tables of ds/robin_hood_ht.h (keys with values) and *)
(* ds/robin_hood_manual_ht.h (values with a hash), which are the same      *)
(* algorithm: linear probing in which an entry far from its home takes the *)
(* slot of one that is nearer (Robin Hood), and deletion that shifts the   *)
(* entries behind the hole back by one.  A value travels with its key, so  *)
(* only keys are kept here; a key hashes to itself and is not negative.    *)
(***************************************************************************)
EXTENDS Naturals, FiniteSets

CONSTANTS
  Keys,       \* the keys that are used
  cap,        \* ht->cap
  DeletesUnanchored   \* whether callers, after a key was refused, also delete
                      \* while no slot is free and no entry is at home

ASSUME RobinHoodAssumption ==
  /\ Keys \subseteq Nat /\ IsFiniteSet(Keys) /\ cap \in Nat \ {0}
  /\ DeletesUnanchored \in BOOLEAN

VARIABLES
  elems,    \* ht->elems: the entry in each slot, or Absent (~present)
  answer,   \* the last call and what it returned
  refused   \* history: an insert has returned HTIR_FULL

vars == <<elems, answer, refused>>

Slots  == 0..(cap - 1)
Absent == [key |-> 0, dib |-> cap]

\* The slot that is n steps from the home of key k.
Slot(k, n) == (k + n) % cap

Present == {s \in Slots : elems[s] # Absent}
Stored  == {elems[s].key : s \in Present}

Answer(op, k, res) == answer' = [op |-> op, key |-> k, res |-> res]

-----------------------------------------------------------------------------
\* ht_init
Init ==
  /\ elems = [s \in Slots |-> Absent]
  /\ answer = [op |-> "init", key |-> 0, res |-> "success"]
  /\ refused = FALSE

\* The walk of ht_insert: the table, the key it carries, that key's distance
\* from home, and the result, which is "full" until the loop is left.
Walk(k) == [elems |-> elems, key |-> k, dib |-> 0, res |-> "full"]

\* Mutant: an entry is never displaced.
SwapNever(w) == w

\* The walk takes a slot whose entry is nearer to its home, and carries that
\* entry on.
Swap(w) ==
  LET s == Slot(w.key, w.dib)
      e == w.elems[s]
  IN  IF e.dib < w.dib
      THEN [w EXCEPT !.elems[s] = [key |-> w.key, dib |-> w.dib],
                     !.key = e.key, !.dib = e.dib]
      ELSE w

\* One pass through the loop of ht_insert.
InsertStep(w) ==
  LET s == Slot(w.key, w.dib)
      v == Swap(w)
  IN  CASE w.res # "full" -> w
        [] w.res = "full" /\ w.elems[s] = Absent ->
             [w EXCEPT !.elems[s] = [key |-> w.key, dib |-> w.dib], !.res = "success"]
        [] w.res = "full" /\ w.elems[s] # Absent ->
             IF v.elems[s].key = v.key THEN [v EXCEPT !.res = "exists"]
                                       ELSE [v EXCEPT !.dib = @ + 1]

\* The loop of ht_insert: after n passes it is at walk[n].
Walked(k) ==
  LET walk[n \in 0..cap] == IF n = 0 THEN Walk(k) ELSE InsertStep(walk[n - 1])
  IN  walk[cap]

\* ht_insert; after cap passes without a free slot the table is as the swaps
\* have left it, without the entry that is still carried.
Insert(k) ==
  LET w == Walked(k)
  IN  /\ elems' = w.elems
      /\ Answer("insert", k, w.res)
      /\ refused' = (refused \/ w.res = "full")

-----------------------------------------------------------------------------
\* The distances at which the walk of ht_get and ht_delete would stop.
Stops(k) ==
  {n \in Slots : LET e == elems[Slot(k, n)] IN
     e = Absent \/ e.dib < n \/ e.key = k}

\* The walk stops first at the key.
FoundAt(k, n) ==
  /\ n \in Stops(k) /\ \A m \in Stops(k) : n <= m
  /\ LET e == elems[Slot(k, n)] IN e # Absent /\ e.dib >= n /\ e.key = k

Found(k) == \E n \in Slots : FoundAt(k, n)

\* ht_get
Get(k) ==
  /\ Answer("get", k, IF Found(k) THEN "success" ELSE "doesnt_exist")
  /\ UNCHANGED <<elems, refused>>

\* No entry behind the hole has to move back.
Ends(e) == e = Absent \/ e.dib = 0

\* Mutant: a shifted entry keeps its distance.
ShiftedKeepsDib(e) == e

Shifted(e) == [e EXCEPT !.dib = @ - 1]

\* One pass through the second loop of ht_delete, n steps from the home of k.
ShiftStep(k, w, n) ==
  LET hole == Slot(k, n)
      next == w.elems[Slot(k, n + 1)]
  IN  CASE w.done -> w
        [] ~w.done /\ Ends(next) -> [elems |-> [w.elems EXCEPT ![hole] = Absent], done |-> TRUE]
        [] ~w.done /\ ~Ends(next) ->
             [elems |-> [w.elems EXCEPT ![hole] = Shifted(next)], done |-> FALSE]

\* The second loop of ht_delete, from the slot n steps from the home of k on.
ShiftedFrom(k, n) ==
  LET shift[m \in 0..(cap - n)] ==
        IF m = 0 THEN [elems |-> elems, done |-> FALSE]
                 ELSE ShiftStep(k, shift[m - 1], n + m - 1)
  IN  shift[cap - n]

\* There is a slot at which the second loop of ht_delete can end.
Anchored == \E s \in Slots : Ends(elems[s])

\* ht_delete finds the key n steps from its home.
DeleteFound(k, n) ==
  LET w == ShiftedFrom(k, n)
  IN  /\ refused => Anchored \/ DeletesUnanchored
      /\ FoundAt(k, n)
      /\ elems' = w.elems
      /\ UNCHANGED refused
      /\ Answer("delete", k, IF w.done THEN "success" ELSE "doesnt_exist")

DeleteMissing(k) ==
  /\ ~Found(k)
  /\ Answer("delete", k, "doesnt_exist")
  /\ UNCHANGED <<elems, refused>>

Next ==
  \E k \in Keys :
    \/ Insert(k)
    \/ Get(k)
    \/ \E n \in Slots : DeleteFound(k, n)
    \/ DeleteMissing(k)

Spec == Init /\ [][Next]_vars

-----------------------------------------------------------------------------
\* An entry is present once, as many slots from its home as it says, with no
\* hole on the way, and past no entry nearer to its home: what the walks call
\* the DIB invariant when they give up early.
DibInvariant ==
  /\ \A s \in Present : elems[s].key \in Keys /\ Slot(elems[s].key, elems[s].dib) = s
  /\ \A s, t \in Present : elems[s].key = elems[t].key => s = t
  /\ \A s \in Present : \A n \in 0..elems[s].dib :
       LET e == elems[Slot(elems[s].key, n)] IN e # Absent /\ e.dib >= n

\* Every answer is that of a dictionary of cap keys, whatever was inserted and
\* deleted before: a walk finds what is stored, also in a table whose entries
\* are all displaced.  A full table answers HTIR_FULL to a new key and holds cap
\* of the cap + 1 keys afterwards: the swaps on the way may have put the new one
\* in and a stored one out, but no more than one, and no key is there twice
\* (robin_hood_ht.h:107-117).  A delete finds the end of its shift as long as no
\* key was refused, and after that while the table is Anchored.
Abs == INSTANCE Dictionary WITH stored <- Stored
ImplementsDictionary == Abs!Spec
=============================================================================
