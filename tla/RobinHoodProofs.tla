-------------------------- MODULE RobinHoodProofs --------------------------
(***************************************************************************)
(* For a table of any capacity, and any keys: the DIB invariant holds, and *)
(* every answer is that of a dictionary, also after keys were refused.     *)
(*                                                                         *)
(* The invariant is said of any table (Table), so that it can be carried   *)
(* through the loops: during an insert the table without the entry that is *)
(* carried is in order (Walking), during the shift of a delete the table   *)
(* without the slot that is to be overwritten (Shifting).  That the shift  *)
(* ends needs one thing more, Started: a free slot, or an entry at home.   *)
(* Only a refused key can take that away.                                  *)
(***************************************************************************)
EXTENDS RobinHood, FiniteSetTheorems, WellFoundedInduction, TLAPS

\* Induction over the numbers, for a set of them.
Lower == {p \in Nat \X Nat : p[1] < p[2]}

LEMMA NumberInduction ==
  ASSUME NEW S \in SUBSET Nat, 0 \in S, \A n \in S : n + 1 \in S
  PROVE  S = Nat
<1> DEFINE T == Nat \ S
<1>1. SUFFICES ASSUME T # {} PROVE FALSE
  OBVIOUS
<1>2. IsWellFoundedOn(Lower, Nat)
  BY NatLessThanWellFounded DEF OpToRel, Lower
<1>3. PICK x \in T : \A y \in T : ~(<<y, x>> \in Lower)
  <2>1. \E x \in T : \A y \in T : ~(<<y, x>> \in Lower)
    BY <1>1, <1>2, WFMin
  <2>2. QED
    BY <2>1
<1>4. x # 0 /\ x - 1 \in Nat /\ <<x - 1, x>> \in Lower
  BY DEF Lower
<1>5. x - 1 \in S
  BY <1>3, <1>4
<1>6. QED
  BY <1>4, <1>5

\* The slot behind s.
After(s) == IF s + 1 = cap THEN 0 ELSE s + 1

\* Walks go round the table: facts about the remainder, and then about slots.
LEMMA DivBy ==
  ASSUME NEW n \in Nat \ {0}, NEW a \in Nat
  PROVE  /\ a % n \in 0..(n - 1) /\ a \div n \in Nat
         /\ a = n * (a \div n) + (a % n)
OBVIOUS

LEMMA ModPlusOne ==
  ASSUME NEW n \in Nat \ {0}, NEW a \in Nat
  PROVE  (a + 1) % n = IF (a % n) + 1 = n THEN 0 ELSE (a % n) + 1
<1>1. PICK q \in Nat, r \in 0..(n - 1) : q = a \div n /\ r = a % n /\ a = n * q + r
  BY DivBy
<1>2. PICK p \in Nat, u \in 0..(n - 1) : p = (a + 1) \div n /\ u = (a + 1) % n /\ a + 1 = n * p + u
  BY DivBy
<1>3. n * q + r + 1 = n * p + u
  BY <1>1, <1>2
<1>4. n * (p - q) = r + 1 - u
  BY <1>3
<1>5. p - q <= 1
  <2> SUFFICES ASSUME p - q >= 2 PROVE FALSE
    OBVIOUS
  <2>1. n * (p - q) >= n * 2
    OBVIOUS
  <2>2. QED
    BY <2>1, <1>4
<1>6. p - q >= 0
  <2> SUFFICES ASSUME q - p >= 1 PROVE FALSE
    OBVIOUS
  <2>1. n * (q - p) >= n
    OBVIOUS
  <2>2. n * (q - p) = u - (r + 1)
    BY <1>3
  <2>3. QED
    BY <2>1, <2>2
<1>7. CASE p = q
  BY <1>1, <1>2, <1>3, <1>7
<1>8. CASE p = q + 1
  <2>1. n * p = n * q + n
    BY <1>8
  <2>2. QED
    BY <1>1, <1>2, <1>3, <2>1
<1>9. QED
  BY <1>5, <1>6, <1>7, <1>8

LEMMA CapType == cap \in Nat \ {0} /\ Keys \subseteq Nat /\ IsFiniteSet(Keys)
BY RobinHoodAssumption

LEMMA SlotType ==
  ASSUME NEW k \in Nat, NEW n \in Nat
  PROVE  Slot(k, n) \in Slots
BY CapType, DivBy DEF Slot, Slots

\* The next slot, which after the last is the first.
LEMMA SlotNext ==
  ASSUME NEW k \in Nat, NEW n \in Nat
  PROVE  Slot(k, n + 1) = After(Slot(k, n))
<1>1. k + n \in Nat /\ k + (n + 1) = (k + n) + 1
  OBVIOUS
<1>2. ((k + n) + 1) % cap = IF ((k + n) % cap) + 1 = cap THEN 0 ELSE ((k + n) % cap) + 1
  BY <1>1, CapType, ModPlusOne
<1>3. QED
  BY <1>1, <1>2 DEF Slot, After

\* What the first cap steps from the home of k are.
LEMMA SlotIs ==
  ASSUME NEW k \in Nat, NEW n \in 0..cap
  PROVE  Slot(k, n) = IF Slot(k, 0) + n < cap THEN Slot(k, 0) + n ELSE Slot(k, 0) + n - cap
<1> DEFINE S == {m \in Nat : m <= cap =>
                   Slot(k, m) = IF Slot(k, 0) + m < cap THEN Slot(k, 0) + m
                                                        ELSE Slot(k, 0) + m - cap}
<1>1. PICK h \in Slots : h = Slot(k, 0)
  BY SlotType
<1>2. 0 \in S
  BY <1>1, CapType DEF Slots
<1>3. ASSUME NEW m \in S PROVE m + 1 \in S
  <2>1. SUFFICES ASSUME m + 1 <= cap
                 PROVE  Slot(k, m + 1) = IF h + (m + 1) < cap THEN h + (m + 1) ELSE h + (m + 1) - cap
    BY <1>1
  <2>2. m \in Nat /\ Slot(k, m) = IF h + m < cap THEN h + m ELSE h + m - cap
    BY <1>1, <2>1, CapType
  <2>3. Slot(k, m + 1) = After(Slot(k, m))
    BY <2>2, SlotNext
  <2>4. QED
    BY <1>1, <2>1, <2>2, <2>3, CapType DEF After, Slots
<1>4. S = Nat
  <2>1. S \in SUBSET Nat
    OBVIOUS
  <2> HIDE DEF S
  <2>2. QED
    BY <1>2, <1>3, <2>1, NumberInduction
<1>5. QED
  BY <1>4, CapType

\* A walk of less than cap steps meets no slot twice, and cap steps meet all.
LEMMA SlotOnce ==
  ASSUME NEW k \in Nat, NEW m \in Slots, NEW n \in Slots, Slot(k, m) = Slot(k, n)
  PROVE  m = n
<1>1. PICK h \in Slots : h = Slot(k, 0)
  BY SlotType
<1>2. m \in 0..cap /\ n \in 0..cap
  BY CapType DEF Slots
<1>3. /\ Slot(k, m) = IF h + m < cap THEN h + m ELSE h + m - cap
      /\ Slot(k, n) = IF h + n < cap THEN h + n ELSE h + n - cap
  BY <1>1, <1>2, SlotIs
<1>4. h \in Nat /\ m \in Nat /\ n \in Nat /\ h < cap /\ m < cap /\ n < cap /\ cap \in Nat
  BY CapType DEF Slots
<1>5. QED
  BY ONLY <1>3, <1>4, Slot(k, m) = Slot(k, n)

LEMMA SlotMeets ==
  ASSUME NEW k \in Nat, NEW s \in Slots
  PROVE  \E n \in Slots : Slot(k, n) = s
<1>1. PICK h \in Slots : h = Slot(k, 0)
  BY SlotType
<1>2. PICK n \in Slots : n = IF s >= h THEN s - h ELSE s + cap - h
  <2>1. h \in Nat /\ s \in Nat /\ h < cap /\ s < cap /\ cap \in Nat
    BY CapType DEF Slots
  <2>2. (IF s >= h THEN s - h ELSE s + cap - h) \in 0..(cap - 1)
    BY ONLY <2>1
  <2>3. QED
    BY <2>2 DEF Slots
<1>3. n \in 0..cap
  BY CapType DEF Slots
<1>4. Slot(k, n) = IF h + n < cap THEN h + n ELSE h + n - cap
  BY <1>1, <1>3, SlotIs
<1>5. QED
  BY <1>2, <1>4, CapType DEF Slots

LEMMA SlotTurns ==
  ASSUME NEW k \in Nat
  PROVE  Slot(k, cap) = Slot(k, 0)
<1>1. PICK h \in Slots : h = Slot(k, 0)
  BY SlotType
<1>2. cap \in 0..cap
  BY CapType
<1>3. Slot(k, cap) = IF h + cap < cap THEN h + cap ELSE h + cap - cap
  BY <1>1, <1>2, SlotIs
<1>4. QED
  BY <1>1, <1>3, CapType DEF Slots

\* Two walks that meet go on, and came, side by side.
LEMMA SlotsGoOn ==
  ASSUME NEW k \in Nat, NEW j \in Nat, NEW m \in Nat, NEW n \in Nat, Slot(k, m) = Slot(j, n)
  PROVE  Slot(k, m + 1) = Slot(j, n + 1)
BY SlotNext

LEMMA SlotsCame ==
  ASSUME NEW k \in Nat, NEW j \in Nat, NEW m \in Nat, NEW n \in Nat,
         Slot(k, m + 1) = Slot(j, n + 1)
  PROVE  Slot(k, m) = Slot(j, n)
<1>1. PICK s \in Slots, t \in Slots : s = Slot(k, m) /\ t = Slot(j, n)
  BY SlotType
<1>2. After(s) = After(t)
  BY <1>1, SlotNext
<1>3. QED
  BY <1>1, <1>2, CapType DEF After, Slots

-----------------------------------------------------------------------------
\* A table is an array of entries.  A walk from the home of k does not end at
\* its n-th slot when the slot has an entry at least as far from its own home.
Entries == [key : Keys, dib : Slots] \cup {Absent}

Passable(E, k, n) == E[Slot(k, n)] # Absent /\ E[Slot(k, n)].dib >= n

Has(E, x) == \E s \in Slots : E[s] # Absent /\ E[s].key = x

Placed(E) == \A s \in Slots : E[s] # Absent => Slot(E[s].key, E[s].dib) = s
Once(E)   == \A s, t \in Slots :
               E[s] # Absent /\ E[t] # Absent /\ E[s].key = E[t].key => s = t
Clear(E)  == \A s \in Slots : E[s] # Absent =>
               \A n \in 0..E[s].dib : Passable(E, E[s].key, n)

Table(E) == E \in [Slots -> Entries] /\ Placed(E) /\ Once(E) /\ Clear(E)

\* Somewhere nothing is displaced, so that a shift ends there.
Started(E) == \E s \in Slots : E[s] = Absent \/ E[s].dib = 0

LEMMA EntryType ==
  ASSUME NEW e \in Entries, e # Absent
  PROVE  e = [key |-> e.key, dib |-> e.dib] /\ e.key \in Keys /\ e.key \in Nat
         /\ e.dib \in Slots /\ e.dib \in Nat
<1>1. e \in [key : Keys, dib : Slots]
  BY DEF Entries
<1>2. e = [key |-> e.key, dib |-> e.dib] /\ e.key \in Keys /\ e.dib \in Slots
  BY <1>1
<1>3. QED
  BY <1>2, CapType DEF Slots

LEMMA NewEntry ==
  ASSUME NEW x \in Keys, NEW d \in Slots
  PROVE  [key |-> x, dib |-> d] \in Entries /\ [key |-> x, dib |-> d] # Absent
<1>1. d # cap
  BY CapType DEF Slots
<1>2. [key |-> x, dib |-> d].dib # Absent.dib
  BY <1>1 DEF Absent
<1>3. QED
  BY <1>2 DEF Entries

\* The key x is stored d slots from its home, in a free slot or in that of an
\* entry nearer to its home.
Stores(E, F, x, d) ==
  /\ E[Slot(x, d)] = Absent \/ E[Slot(x, d)].dib < d
  /\ F = [E EXCEPT ![Slot(x, d)] = [key |-> x, dib |-> d]]

LEMMA StoreIs ==
  ASSUME NEW E \in [Slots -> Entries], NEW F, NEW x \in Keys, NEW d \in Slots, Stores(E, F, x, d)
  PROVE  /\ F \in [Slots -> Entries] /\ Slot(x, d) \in Slots
         /\ F[Slot(x, d)] # Absent /\ F[Slot(x, d)].key = x /\ F[Slot(x, d)].dib = d
         /\ \A t \in Slots : t # Slot(x, d) => F[t] = E[t]
<1>1. x \in Nat /\ d \in Nat
  BY CapType DEF Slots
<1>2. Slot(x, d) \in Slots
  BY <1>1, SlotType
<1>3. PICK e \in Entries : e = [key |-> x, dib |-> d] /\ e # Absent /\ e.key = x /\ e.dib = d
  BY NewEntry
<1>4. F = [E EXCEPT ![Slot(x, d)] = e]
  BY <1>3 DEF Stores
<1>5. QED
  BY <1>2, <1>3, <1>4

LEMMA StorePasses ==
  ASSUME NEW E \in [Slots -> Entries], NEW F, NEW x \in Keys, NEW d \in Slots, Stores(E, F, x, d),
         NEW k \in Nat, NEW n \in Nat, Passable(E, k, n)
  PROVE  Passable(F, k, n)
<1>1. Slot(k, n) \in Slots
  BY SlotType
<1>2. CASE Slot(k, n) = Slot(x, d)
  <2>1. E[Slot(x, d)] # Absent /\ E[Slot(x, d)].dib >= n /\ Slot(x, d) \in Slots
    BY <1>1, <1>2 DEF Passable
  <2>2. E[Slot(x, d)].dib \in Nat /\ E[Slot(x, d)].dib < d /\ d \in Nat
    BY <2>1, EntryType, CapType DEF Stores, Slots
  <2>3. F[Slot(x, d)] # Absent /\ F[Slot(x, d)].dib = d
    BY StoreIs
  <2>4. QED
    BY <1>2, <2>1, <2>2, <2>3 DEF Passable
<1>3. CASE Slot(k, n) # Slot(x, d)
  <2>1. F[Slot(k, n)] = E[Slot(k, n)]
    BY <1>1, <1>3, StoreIs
  <2>2. QED
    BY <2>1 DEF Passable
<1>4. QED
  BY <1>2, <1>3

LEMMA StoreTable ==
  ASSUME NEW E, Table(E), NEW F, NEW x \in Keys, NEW d \in Slots, Stores(E, F, x, d), ~Has(E, x),
         \A m \in 0..(d - 1) : Passable(E, x, m)
  PROVE  Table(F)
<1> DEFINE s == Slot(x, d)
<1>1. /\ F \in [Slots -> Entries] /\ s \in Slots
      /\ F[s] # Absent /\ F[s].key = x /\ F[s].dib = d
      /\ \A t \in Slots : t # s => F[t] = E[t]
  BY StoreIs DEF Table
<1>2. x \in Nat /\ d \in Nat
  BY CapType DEF Slots
<1> HIDE DEF s
<1>3. Placed(F)
  BY <1>1 DEF Placed, Table, s
<1>4. Once(F)
  BY <1>1 DEF Once, Table, Has
<1>5. Clear(F)
  <2> SUFFICES ASSUME NEW t \in Slots, F[t] # Absent, NEW n \in 0..F[t].dib
               PROVE  Passable(F, F[t].key, n)
    BY DEF Clear
  <2>1. F[t].key \in Nat /\ F[t].dib \in Nat /\ n \in Nat
    BY <1>1, EntryType
  <2>2. CASE t = s /\ n = d
    BY <1>1, <1>2, <2>2 DEF Passable, s
  <2>3. CASE t = s /\ n # d
    <3>1. n \in 0..(d - 1)
      BY <1>1, <1>2, <2>3
    <3>2. Passable(E, x, n)
      BY <3>1
    <3>3. QED
      BY <1>1, <1>2, <2>1, <2>3, <3>2, StorePasses DEF Table
  <2>4. CASE t # s
    <3>1. F[t] = E[t]
      BY <1>1, <2>4
    <3>2. Passable(E, F[t].key, n)
      BY <3>1 DEF Table, Clear
    <3>3. QED
      BY <2>1, <3>2, StorePasses DEF Table
  <2>5. QED
    BY <2>2, <2>3, <2>4
<1>6. QED
  BY <1>1, <1>3, <1>4, <1>5 DEF Table

\* A key stored in a free slot is added; the table has room left, or the next
\* slot has an entry at its home: no walk comes to it through a free slot.
LEMMA StoreInFree ==
  ASSUME NEW E, Table(E), NEW F, NEW x \in Keys, NEW d \in Slots, Stores(E, F, x, d), ~Has(E, x),
         E[Slot(x, d)] = Absent
  PROVE  /\ \A y : Has(F, y) <=> Has(E, y) \/ y = x
         /\ Started(F)
<1> DEFINE s == Slot(x, d)
           t == Slot(x, d + 1)
<1>1. /\ F \in [Slots -> Entries] /\ s \in Slots /\ E \in [Slots -> Entries]
      /\ F[s] # Absent /\ F[s].key = x /\ F[s].dib = d
      /\ \A u \in Slots : u # s => F[u] = E[u]
  BY StoreIs DEF Table
<1>2. x \in Nat /\ d \in Nat /\ d + 1 \in Nat
  BY CapType DEF Slots
<1>3. t \in Slots /\ E[s] = Absent
  BY <1>2, SlotType
<1>4. \A y : Has(F, y) <=> Has(E, y) \/ y = x
  <2> HIDE DEF s
  <2>1. QED
    BY <1>1, <1>3 DEF Has
<1>5. CASE t = s
  <2>1. t = After(s)
    BY <1>2, SlotNext
  <2>2. cap = 1
    BY <1>1, <1>5, <2>1, CapType DEF After, Slots
  <2>3. d = 0
    BY <2>2 DEF Slots
  <2>4. QED
    BY <1>1, <1>4, <2>3 DEF Started
<1>6. CASE t # s /\ E[t] # Absent
  <2>1. F[t] = E[t] /\ E[t].key \in Nat /\ E[t].dib \in Nat
    BY <1>1, <1>3, <1>6, EntryType
  <2>2. SUFFICES ASSUME E[t].dib # 0 PROVE FALSE
    BY <1>3, <1>4, <2>1 DEF Started
  <2>3. PICK e \in Nat : E[t].dib = e + 1
    <3>1. E[t].dib - 1 \in Nat /\ E[t].dib = (E[t].dib - 1) + 1
      BY <2>1, <2>2
    <3>2. QED
      BY <3>1
  <2>4. Slot(E[t].key, e + 1) = Slot(x, d + 1)
    BY <1>3, <1>6, <2>3 DEF Table, Placed
  <2>5. Slot(E[t].key, e) = s
    BY <1>2, <2>1, <2>4, SlotsCame
  <2>6. e \in 0..E[t].dib
    BY <2>3
  <2>7. Passable(E, E[t].key, e)
    BY <1>3, <1>6, <2>6 DEF Table, Clear
  <2>8. QED
    BY <1>3, <2>5, <2>7 DEF Passable
<1>7. CASE t # s /\ E[t] = Absent
  BY <1>1, <1>3, <1>4, <1>7 DEF Started
<1>8. QED
  BY <1>5, <1>6, <1>7

\* The entry (y, e) that is carried on when x is stored in its slot.
Carries(E, F, x, d, y, e) ==
  /\ y \in Keys /\ e \in Nat /\ e < d /\ y # x /\ ~Has(F, y) /\ Slot(y, e) = Slot(x, d)
  /\ \A z : Has(F, z) \/ z = y <=> Has(E, z) \/ z = x
  /\ \A m \in 0..e : Passable(F, y, m)
  /\ \A t \in Slots : F[t] = Absent <=> E[t] = Absent

\* A key stored in the slot of an entry nearer to its home: the entry that is
\* carried on is out of the table, and its walk has come this far.
LEMMA StoreInTaken ==
  ASSUME NEW E, Table(E), NEW F, NEW x \in Keys, NEW d \in Slots, Stores(E, F, x, d), ~Has(E, x),
         NEW y, NEW e, E[Slot(x, d)] # Absent, y = E[Slot(x, d)].key, e = E[Slot(x, d)].dib
  PROVE  Carries(E, F, x, d, y, e)
<1> DEFINE s == Slot(x, d)
<1>1. /\ F \in [Slots -> Entries] /\ s \in Slots /\ E \in [Slots -> Entries]
      /\ F[s] # Absent /\ F[s].key = x /\ F[s].dib = d
      /\ \A u \in Slots : u # s => F[u] = E[u]
  BY StoreIs DEF Table
<1>2. E[s] # Absent /\ E[s].key = y /\ E[s].dib = e /\ e < d
  BY DEF Stores
<1>3. y \in Keys /\ y \in Nat /\ e \in Nat
  BY <1>1, <1>2, EntryType
<1>4. Slot(y, e) = s
  BY <1>1, <1>2 DEF Table, Placed
<1>5. ASSUME NEW m \in 0..e PROVE Passable(F, y, m)
  <2>1. Passable(E, y, m) /\ m \in Nat
    BY <1>1, <1>2, <1>3 DEF Table, Clear
  <2>2. QED
    BY <1>1, <1>3, <2>1, StorePasses
<1> HIDE DEF s
<1>6. y # x
  BY <1>1, <1>2 DEF Has
<1>7. ~Has(F, y)
  BY <1>1, <1>2, <1>6 DEF Has, Table, Once
<1>8. ASSUME NEW z PROVE Has(F, z) \/ z = y <=> Has(E, z) \/ z = x
  BY <1>1, <1>2 DEF Has
<1>9. \A t \in Slots : F[t] = Absent <=> E[t] = Absent
  BY <1>1, <1>2
<1>10. Slot(y, e) = Slot(x, d)
  BY <1>4 DEF s
<1>11. QED
  BY <1>2, <1>3, <1>5, <1>6, <1>7, <1>8, <1>9, <1>10 DEF Carries

-----------------------------------------------------------------------------
\* One pass of ht_insert at the slot of the key it carries.
LEMMA PassIs ==
  ASSUME NEW E \in [Slots -> Entries], NEW x \in Keys, NEW d \in Slots, NEW w,
         w = [elems |-> E, key |-> x, dib |-> d, res |-> "full"]
  PROVE  /\ E[Slot(x, d)] = Absent =>
              InsertStep(w) = [elems |-> [E EXCEPT ![Slot(x, d)] = [key |-> x, dib |-> d]],
                               key |-> x, dib |-> d, res |-> "success"]
         /\ E[Slot(x, d)] # Absent /\ E[Slot(x, d)].dib >= d /\ E[Slot(x, d)].key # x =>
              InsertStep(w) = [elems |-> E, key |-> x, dib |-> d + 1, res |-> "full"]
         /\ E[Slot(x, d)] # Absent /\ E[Slot(x, d)].dib >= d /\ E[Slot(x, d)].key = x =>
              InsertStep(w) = [elems |-> E, key |-> x, dib |-> d, res |-> "exists"]
         /\ E[Slot(x, d)] # Absent /\ E[Slot(x, d)].dib < d /\ E[Slot(x, d)].key # x =>
              InsertStep(w) = [elems |-> [E EXCEPT ![Slot(x, d)] = [key |-> x, dib |-> d]],
                               key |-> E[Slot(x, d)].key, dib |-> E[Slot(x, d)].dib + 1,
                               res |-> "full"]
<1>1. x \in Nat /\ d \in Nat
  BY CapType DEF Slots
<1>2. PICK s \in Slots : s = Slot(x, d)
  BY <1>1, SlotType
<1>3. w.elems = E /\ w.key = x /\ w.dib = d /\ w.res = "full"
  OBVIOUS
<1>4. CASE E[s] = Absent
  <2>1. InsertStep(w) = [w EXCEPT !.elems[s] = [key |-> x, dib |-> d], !.res = "success"]
    BY <1>2, <1>3, <1>4 DEF InsertStep
  <2>2. QED
    BY <1>2, <1>4, <2>1
<1>5. CASE E[s] # Absent /\ E[s].dib >= d
  <2>1. E[s].dib \in Nat
    BY <1>5, EntryType
  <2>2. Swap(w) = w
    BY <1>1, <1>2, <1>3, <1>5, <2>1 DEF Swap
  <2>3. InsertStep(w) = IF E[s].key = x THEN [w EXCEPT !.res = "exists"]
                                        ELSE [w EXCEPT !.dib = @ + 1]
    BY <1>2, <1>3, <1>5, <2>2 DEF InsertStep
  <2>4. ~(E[s].dib < d)
    BY <1>1, <1>5, <2>1
  <2>5. QED
    BY <1>2, <1>5, <2>3, <2>4
<1>6. CASE E[s] # Absent /\ E[s].dib < d
  <2>1. E[s].dib \in Nat
    BY <1>6, EntryType
  <2> DEFINE v == [elems |-> [E EXCEPT ![s] = [key |-> x, dib |-> d]],
                   key |-> E[s].key, dib |-> E[s].dib, res |-> "full"]
  <2>2. Swap(w) = v
    BY <1>2, <1>3, <1>6 DEF Swap
  <2>3. v.elems[s].key = x /\ v.key = E[s].key /\ v.dib = E[s].dib
    OBVIOUS
  <2>4. InsertStep(w) = IF x = E[s].key THEN [v EXCEPT !.res = "exists"]
                                        ELSE [v EXCEPT !.dib = @ + 1]
    BY <1>2, <1>3, <1>6, <2>2, <2>3 DEF InsertStep
  <2>5. ~(E[s].dib >= d)
    BY <1>1, <1>6, <2>1
  <2>6. QED
    BY <1>2, <1>6, <2>4, <2>5
<1>7. E[s] # Absent => E[s].dib \in Nat
  BY EntryType
<1>8. QED
  BY <1>1, <1>4, <1>5, <1>6, <1>7

\* The same, case by case.
LEMMA PassFree ==
  ASSUME NEW E \in [Slots -> Entries], NEW x \in Keys, NEW d \in Slots, NEW w,
         w = [elems |-> E, key |-> x, dib |-> d, res |-> "full"],
         E[Slot(x, d)] = Absent
  PROVE  InsertStep(w) = [elems |-> [E EXCEPT ![Slot(x, d)] = [key |-> x, dib |-> d]],
                          key |-> x, dib |-> d, res |-> "success"]
BY PassIs

LEMMA PassOn ==
  ASSUME NEW E \in [Slots -> Entries], NEW x \in Keys, NEW d \in Slots, NEW w,
         w = [elems |-> E, key |-> x, dib |-> d, res |-> "full"],
         E[Slot(x, d)] # Absent, E[Slot(x, d)].dib >= d, E[Slot(x, d)].key # x
  PROVE  InsertStep(w) = [elems |-> E, key |-> x, dib |-> d + 1, res |-> "full"]
BY PassIs

LEMMA PassMeets ==
  ASSUME NEW E \in [Slots -> Entries], NEW x \in Keys, NEW d \in Slots, NEW w,
         w = [elems |-> E, key |-> x, dib |-> d, res |-> "full"],
         E[Slot(x, d)] # Absent, E[Slot(x, d)].dib >= d, E[Slot(x, d)].key = x
  PROVE  InsertStep(w) = [elems |-> E, key |-> x, dib |-> d, res |-> "exists"]
BY PassIs

LEMMA PassSwaps ==
  ASSUME NEW E \in [Slots -> Entries], NEW x \in Keys, NEW d \in Slots, NEW w,
         w = [elems |-> E, key |-> x, dib |-> d, res |-> "full"],
         E[Slot(x, d)] # Absent, E[Slot(x, d)].dib < d, E[Slot(x, d)].key # x
  PROVE  InsertStep(w) = [elems |-> [E EXCEPT ![Slot(x, d)] = [key |-> x, dib |-> d]],
                          key |-> E[Slot(x, d)].key, dib |-> E[Slot(x, d)].dib + 1, res |-> "full"]
BY PassIs

\* The walk has ended, and a pass does nothing.
LEMMA PassEnded ==
  ASSUME NEW w, w.res # "full"
  PROVE  InsertStep(w) = w
BY DEF InsertStep

\* The walk of ht_insert (k) in the table T after n passes, when k is not in T:
\* the n slots are taken, and the key it carries could be stored in the next.
Walking(T, k, w, n) ==
  /\ w = [elems |-> w.elems, key |-> w.key, dib |-> w.dib, res |-> "full"]
  /\ Table(w.elems) /\ w.key \in Keys /\ ~Has(w.elems, w.key)
  /\ w.dib \in 0..n /\ Slot(w.key, w.dib) = Slot(k, n)
  /\ \A m \in 0..(w.dib - 1) : Passable(w.elems, w.key, m)
  /\ \A m \in 0..(n - 1) : w.elems[Slot(k, m)] # Absent
  /\ \A s \in Slots : w.elems[s] = Absent <=> T[s] = Absent
  /\ \A z : Has(w.elems, z) \/ z = w.key <=> Has(T, z) \/ z = k

\* It has stored all it carried.
Settled(T, k, w) ==
  /\ w.res = "success" /\ Table(w.elems) /\ Started(w.elems)
  /\ \A z : Has(w.elems, z) <=> Has(T, z) \/ z = k
  /\ \E s \in Slots : T[s] = Absent

LEMMA WalkPass ==
  ASSUME NEW T, NEW k \in Keys, NEW n \in Slots, NEW w, Walking(T, k, w, n)
  PROVE  Walking(T, k, InsertStep(w), n + 1) \/ Settled(T, k, InsertStep(w))
<1> PICK E, x, d : E = w.elems /\ x = w.key /\ d = w.dib
  OBVIOUS
<1>1. w = [elems |-> E, key |-> x, dib |-> d, res |-> "full"] /\ x \in Keys /\ d \in 0..n
  <2>1. w = [elems |-> w.elems, key |-> w.key, dib |-> w.dib, res |-> "full"]
    BY DEF Walking
  <2>2. w.key \in Keys /\ w.dib \in 0..n
    BY DEF Walking
  <2>3. QED
    BY ONLY E = w.elems, x = w.key, d = w.dib, <2>1, <2>2
<1>2. /\ Table(E) /\ ~Has(E, x) /\ E \in [Slots -> Entries]
      /\ Slot(x, d) = Slot(k, n)
      /\ \A m \in 0..(d - 1) : Passable(E, x, m)
      /\ \A m \in 0..(n - 1) : E[Slot(k, m)] # Absent
      /\ \A s \in Slots : E[s] = Absent <=> T[s] = Absent
      /\ \A z : Has(E, z) \/ z = x <=> Has(T, z) \/ z = k
  BY <1>1 DEF Walking, Table
<1>3. n \in Nat /\ d \in Nat /\ d \in Slots /\ x \in Nat /\ k \in Nat /\ d <= n
  <2>1. n \in Nat /\ n < cap /\ cap \in Nat
    BY CapType DEF Slots
  <2>2. d \in Nat /\ d <= n /\ d \in 0..(cap - 1)
    BY <1>1, <2>1
  <2>3. QED
    BY <1>1, <2>1, <2>2, CapType DEF Slots
<1>4. Slot(x, d) \in Slots
  BY <1>3, SlotType
<1>5. PICK F : F = [E EXCEPT ![Slot(x, d)] = [key |-> x, dib |-> d]]
  OBVIOUS
<1>6. CASE E[Slot(x, d)] = Absent
  <2>1. InsertStep(w) = [elems |-> F, key |-> x, dib |-> d, res |-> "success"]
    BY <1>1, <1>2, <1>3, <1>5, <1>6, PassFree
  <2>2. Stores(E, F, x, d)
    BY <1>5, <1>6 DEF Stores
  <2>3. Table(F)
    BY <1>1, <1>2, <1>3, <2>2, StoreTable
  <2>4. Started(F) /\ \A y : Has(F, y) <=> Has(E, y) \/ y = x
    BY <1>1, <1>2, <1>3, <1>6, <2>2, StoreInFree
  <2>5. \A z : Has(F, z) <=> Has(T, z) \/ z = k
    BY <1>2, <2>4
  <2>6. Settled(T, k, InsertStep(w))
    BY <1>2, <1>4, <1>6, <2>1, <2>3, <2>4, <2>5 DEF Settled
  <2>7. QED
    BY <2>6
<1>7. CASE E[Slot(x, d)] # Absent /\ E[Slot(x, d)].dib >= d
  <2>1. E[Slot(x, d)].key # x
    BY <1>2, <1>4, <1>7 DEF Has
  <2>2. InsertStep(w) = [elems |-> E, key |-> x, dib |-> d + 1, res |-> "full"]
    BY <1>1, <1>2, <1>3, <1>7, <2>1, PassOn
  <2>3. Slot(x, d + 1) = Slot(k, n + 1)
    BY <1>2, <1>3, SlotsGoOn
  <2>4. \A m \in 0..((d + 1) - 1) : Passable(E, x, m)
    BY <1>2, <1>3, <1>7 DEF Passable
  <2>5. \A m \in 0..((n + 1) - 1) : E[Slot(k, m)] # Absent
    BY <1>2, <1>3, <1>7
  <2>6. d + 1 \in 0..(n + 1)
    BY <1>3
  <2>7. Walking(T, k, InsertStep(w), n + 1)
    BY <1>2, <2>2, <2>3, <2>4, <2>5, <2>6 DEF Walking
  <2>8. QED
    BY <2>7
<1>8. CASE E[Slot(x, d)] # Absent /\ E[Slot(x, d)].dib < d
  <2>1. PICK y, e : y = E[Slot(x, d)].key /\ e = E[Slot(x, d)].dib
    OBVIOUS
  <2>2. y # x
    BY <1>2, <1>4, <1>8, <2>1 DEF Has
  <2>3. InsertStep(w) = [elems |-> F, key |-> y, dib |-> e + 1, res |-> "full"]
    <3>1. E[Slot(x, d)].key # x
      BY <2>1, <2>2
    <3>2. InsertStep(w) = [elems |-> [E EXCEPT ![Slot(x, d)] = [key |-> x, dib |-> d]],
                           key |-> E[Slot(x, d)].key, dib |-> E[Slot(x, d)].dib + 1, res |-> "full"]
      BY <1>1, <1>2, <1>3, <1>8, <3>1, PassSwaps
    <3>3. QED
      BY <1>5, <2>1, <3>2
  <2>4. Stores(E, F, x, d)
    BY <1>5, <1>8 DEF Stores
  <2>5. Table(F)
    BY <1>1, <1>2, <1>3, <2>4, StoreTable
  <2>6. /\ y \in Keys /\ e \in Nat /\ e < d /\ ~Has(F, y) /\ Slot(y, e) = Slot(x, d)
        /\ \A z : Has(F, z) \/ z = y <=> Has(E, z) \/ z = x
        /\ \A m \in 0..e : Passable(F, y, m)
        /\ \A t \in Slots : F[t] = Absent <=> E[t] = Absent
    <3>1. Carries(E, F, x, d, y, e)
      BY <1>1, <1>2, <1>3, <1>8, <2>1, <2>4, StoreInTaken
    <3>2. QED
      BY <3>1 DEF Carries
  <2>7. y \in Nat
    BY <2>6, CapType
  <2>8. Slot(y, e + 1) = Slot(k, n + 1)
    BY <1>2, <1>3, <2>6, <2>7, SlotsGoOn
  <2>9. \A m \in 0..((e + 1) - 1) : Passable(F, y, m)
    BY <2>6
  <2>10. ASSUME NEW m \in 0..((n + 1) - 1) PROVE F[Slot(k, m)] # Absent
    <3>1. m \in Nat /\ Slot(k, m) \in Slots
      BY <1>3, SlotType
    <3>2. E[Slot(k, m)] # Absent
      BY <1>2, <1>3, <1>8
    <3>3. QED
      BY <2>6, <3>1, <3>2
  <2>11. \A s \in Slots : F[s] = Absent <=> T[s] = Absent
    BY <1>2, <2>6
  <2>12. \A z : Has(F, z) \/ z = y <=> Has(T, z) \/ z = k
    BY <1>2, <2>6
  <2>13. e + 1 \in 0..(n + 1)
    BY <1>3, <2>6
  <2>14. Walking(T, k, InsertStep(w), n + 1)
    BY <2>3, <2>5, <2>6, <2>8, <2>9, <2>10, <2>11, <2>12, <2>13 DEF Walking
  <2>15. QED
    BY <2>14
<1>9. E[Slot(x, d)] # Absent => E[Slot(x, d)].dib \in Nat
  BY <1>2, <1>4, EntryType
<1>10. QED
  BY <1>3, <1>6, <1>7, <1>8, <1>9

-----------------------------------------------------------------------------
\* g is the walk of ht_insert from z on, up to m passes.
Goes(g, z, m) == g = [n \in 0..m |-> IF n = 0 THEN z ELSE InsertStep(g[n - 1])]

LEMMA GoesExists ==
  ASSUME NEW z
  PROVE  \A m \in Nat : \E g : Goes(g, z, m)
<1> DEFINE S == {m \in Nat : \E g : Goes(g, z, m)}
<1>1. 0 \in S
  <2> DEFINE g == [n \in 0..0 |-> z]
  <2>1. g = [n \in 0..0 |-> IF n = 0 THEN z ELSE InsertStep(g[n - 1])]
    OBVIOUS
  <2>2. Goes(g, z, 0)
    BY <2>1 DEF Goes
  <2>3. QED
    BY <2>2
<1>2. ASSUME NEW m \in S PROVE m + 1 \in S
  <2>1. PICK g : Goes(g, z, m)
    OBVIOUS
  <2> DEFINE h == [n \in 0..(m + 1) |-> IF n = m + 1 THEN InsertStep(g[m]) ELSE g[n]]
  <2>2. \A n \in 0..m : g[n] = IF n = 0 THEN z ELSE InsertStep(g[n - 1])
    BY <2>1 DEF Goes
  <2>3. ASSUME NEW n \in 0..(m + 1)
        PROVE  h[n] = IF n = 0 THEN z ELSE InsertStep(h[n - 1])
    <3>1. CASE n = m + 1
      BY <3>1
    <3>2. CASE n # m + 1
      BY <2>2, <3>2
    <3>3. QED
      BY <3>1, <3>2
  <2>4. h = [n \in 0..(m + 1) |-> IF n = 0 THEN z ELSE InsertStep(h[n - 1])]
    BY <2>3
  <2>5. Goes(h, z, m + 1)
    BY <2>4 DEF Goes
  <2>6. QED
    BY <2>5
<1>3. S = Nat
  <2> HIDE DEF S
  <2>1. S \in SUBSET Nat
    BY DEF S
  <2>2. QED
    BY <1>1, <1>2, <2>1, NumberInduction
<1>4. QED
  BY <1>3

LEMMA WalkedIs ==
  ASSUME NEW k
  PROVE  \E g : /\ g[0] = Walk(k) /\ Walked(k) = g[cap]
                /\ \A n \in 0..(cap - 1) : g[n + 1] = InsertStep(g[n])
<1>1. PICK z : z = Walk(k)
  OBVIOUS
<1> DEFINE g == CHOOSE h : h = [n \in 0..cap |-> IF n = 0 THEN z ELSE InsertStep(h[n - 1])]
<1>2. g = [n \in 0..cap |-> IF n = 0 THEN z ELSE InsertStep(g[n - 1])]
  <2>1. \E h : h = [n \in 0..cap |-> IF n = 0 THEN z ELSE InsertStep(h[n - 1])]
    <3>1. \E h : Goes(h, z, cap)
      BY CapType, GoesExists
    <3>2. QED
      BY <3>1 DEF Goes
  <2>2. QED
    BY <2>1
<1>3. Walked(k) = g[cap]
  BY <1>1 DEF Walked
<1> HIDE DEF g
<1>4. \A n \in 0..cap : g[n] = IF n = 0 THEN z ELSE InsertStep(g[n - 1])
  BY <1>2
<1>5. g[0] = z
  <2>1. 0 \in 0..cap
    BY CapType
  <2>2. QED
    BY <1>4, <2>1
<1>6. ASSUME NEW n \in 0..(cap - 1) PROVE g[n + 1] = InsertStep(g[n])
  <2>1. n + 1 \in 0..cap /\ n + 1 # 0 /\ (n + 1) - 1 = n
    BY CapType
  <2>2. QED
    BY <1>4, <2>1
<1>7. QED
  BY <1>1, <1>3, <1>5, <1>6

\* A key that is not in the table is stored, or the walk comes round the table.
LEMMA WalkEnds ==
  ASSUME NEW T, Table(T), NEW k \in Keys, ~Has(T, k), NEW g,
         g[0] = [elems |-> T, key |-> k, dib |-> 0, res |-> "full"],
         \A n \in 0..(cap - 1) : g[n + 1] = InsertStep(g[n])
  PROVE  Walking(T, k, g[cap], cap) \/ Settled(T, k, g[cap])
<1> DEFINE S == {n \in Nat : n <= cap => Walking(T, k, g[n], n) \/ Settled(T, k, g[n])}
<1>1. 0 \in S
  <2>1. Walking(T, k, g[0], 0)
    BY DEF Walking
  <2>2. QED
    BY <2>1
<1>2. ASSUME NEW n \in S PROVE n + 1 \in S
  <2>1. n \in Nat /\ (n <= cap => Walking(T, k, g[n], n) \/ Settled(T, k, g[n]))
    OBVIOUS
  <2> HIDE DEF S
  <2>2. SUFFICES ASSUME n + 1 <= cap
                 PROVE  Walking(T, k, g[n + 1], n + 1) \/ Settled(T, k, g[n + 1])
    BY <2>1 DEF S
  <2>3. n \in Slots /\ n \in 0..(cap - 1) /\ n <= cap /\ g[n + 1] = InsertStep(g[n])
    BY <2>1, <2>2, CapType DEF Slots
  <2>4. CASE Walking(T, k, g[n], n)
    BY <2>3, <2>4, WalkPass
  <2>5. CASE Settled(T, k, g[n])
    <3>1. g[n].res # "full"
      BY <2>5 DEF Settled
    <3>2. g[n + 1] = g[n]
      BY <2>3, <3>1, PassEnded
    <3>3. QED
      BY <2>5, <3>2
  <2>6. QED
    BY <2>1, <2>3, <2>4, <2>5
<1>3. S = Nat
  <2>1. S \in SUBSET Nat
    OBVIOUS
  <2> HIDE DEF S
  <2>2. QED
    BY <1>1, <1>2, <2>1, NumberInduction
<1>4. Walking(T, k, g[cap], cap) \/ Settled(T, k, g[cap])
  <2> HIDE DEF S
  <2>1. cap \in S
    BY <1>3, CapType
  <2>2. cap <= cap => Walking(T, k, g[cap], cap) \/ Settled(T, k, g[cap])
    BY <2>1 DEF S
  <2>3. QED
    BY <2>2, CapType
<1>5. QED
  BY <1>4

\* With room it is stored.
LEMMA WalkStores ==
  ASSUME NEW T, Table(T), NEW k \in Keys, ~Has(T, k), NEW g,
         g[0] = [elems |-> T, key |-> k, dib |-> 0, res |-> "full"],
         \A n \in 0..(cap - 1) : g[n + 1] = InsertStep(g[n]),
         \E s \in Slots : T[s] = Absent
  PROVE  Settled(T, k, g[cap])
<1>4. Walking(T, k, g[cap], cap) \/ Settled(T, k, g[cap])
  BY WalkEnds
<1>5. ~Walking(T, k, g[cap], cap)
  <2> SUFFICES ASSUME Walking(T, k, g[cap], cap) PROVE FALSE
    OBVIOUS
  <2>1. PICK s \in Slots : T[s] = Absent
    OBVIOUS
  <2>2. k \in Nat
    BY CapType
  <2>3. PICK n \in Slots : Slot(k, n) = s
    BY <2>2, SlotMeets
  <2>4. n \in 0..(cap - 1)
    BY DEF Slots
  <2>5. g[cap].elems[Slot(k, n)] # Absent
    BY <2>4 DEF Walking
  <2>6. g[cap].elems[s] = Absent
    BY <2>1 DEF Walking
  <2>7. QED
    BY <2>3, <2>5, <2>6
<1>6. QED
  BY <1>4, <1>5

\* What is left of the table, when there is no room: it is in order, and has the
\* keys it had and the new one, but for the one the walk carries in the end.
Overfilled(T, k, w) ==
  /\ w.res = "full" /\ Table(w.elems) /\ ~Has(w.elems, w.key)
  /\ \A z : Has(w.elems, z) \/ z = w.key <=> Has(T, z) \/ z = k

LEMMA WalkOverfills ==
  ASSUME NEW T, Table(T), NEW k \in Keys, ~Has(T, k), NEW g,
         g[0] = [elems |-> T, key |-> k, dib |-> 0, res |-> "full"],
         \A n \in 0..(cap - 1) : g[n + 1] = InsertStep(g[n]),
         ~ \E s \in Slots : T[s] = Absent
  PROVE  Overfilled(T, k, g[cap])
<1>1. Walking(T, k, g[cap], cap) \/ Settled(T, k, g[cap])
  BY WalkEnds
<1>2. ~Settled(T, k, g[cap])
  BY DEF Settled
<1>3. g[cap] = [elems |-> g[cap].elems, key |-> g[cap].key, dib |-> g[cap].dib, res |-> "full"]
  BY <1>1, <1>2 DEF Walking
<1>4. g[cap].res = "full"
  BY <1>3
<1>5. QED
  BY <1>1, <1>2, <1>4 DEF Walking, Overfilled

\* A key that is in the table is met, and nothing is changed.
LEMMA WalkMeets ==
  ASSUME NEW T, Table(T), NEW k \in Keys, Has(T, k), NEW g,
         g[0] = [elems |-> T, key |-> k, dib |-> 0, res |-> "full"],
         \A n \in 0..(cap - 1) : g[n + 1] = InsertStep(g[n])
  PROVE  g[cap].elems = T /\ g[cap].res = "exists"
<1>1. PICK s \in Slots : T[s] # Absent /\ T[s].key = k
  BY DEF Has
<1>2. PICK d \in Slots : d = T[s].dib
  BY <1>1, EntryType DEF Table
<1>3. k \in Nat /\ T \in [Slots -> Entries] /\ cap \in Nat \ {0} /\ d \in Nat /\ d < cap
  BY CapType DEF Table, Slots
<1>4. Slot(k, d) = s
  BY <1>1, <1>2 DEF Table, Placed
<1>5. \A n \in 0..d : Passable(T, k, n)
  BY <1>1, <1>2 DEF Table, Clear
<1> DEFINE At(n) == [elems |-> T, key |-> k, dib |-> n, res |-> "full"]
           Met   == [elems |-> T, key |-> k, dib |-> d, res |-> "exists"]
           S     == {n \in Nat : n <= cap => g[n] = IF n <= d THEN At(n) ELSE Met}
<1>6. 0 \in S
  BY <1>3
<1>7. ASSUME NEW n \in S PROVE n + 1 \in S
  <2>1. n \in Nat /\ (n <= cap => g[n] = IF n <= d THEN At(n) ELSE Met)
    OBVIOUS
  <2> HIDE DEF S
  <2>2. SUFFICES ASSUME n + 1 <= cap
                 PROVE  g[n + 1] = IF n + 1 <= d THEN At(n + 1) ELSE Met
    BY <2>1 DEF S
  <2>3. n \in Slots /\ n \in 0..(cap - 1) /\ n <= cap /\ g[n + 1] = InsertStep(g[n])
    BY <1>3, <2>1, <2>2 DEF Slots
  <2>4. CASE n < d
    <3>1. g[n] = At(n) /\ n \in 0..d /\ n <= d /\ n + 1 <= d
      BY <1>3, <2>1, <2>3, <2>4
    <3>2. Slot(k, n) \in Slots /\ T[Slot(k, n)] # Absent /\ T[Slot(k, n)].dib >= n
      BY <1>3, <1>5, <2>1, <3>1, SlotType DEF Passable
    <3>3. Slot(k, n) # s
      BY <1>3, <1>4, <2>3, <2>4, SlotOnce
    <3>4. T[Slot(k, n)].key # k
      BY <1>1, <3>2, <3>3 DEF Table, Once
    <3>5. InsertStep(g[n]) = At(n + 1)
      BY <1>3, <2>3, <3>1, <3>2, <3>4, PassOn
    <3>6. QED
      BY <2>3, <3>1, <3>5
  <2>5. CASE n = d
    <3>1. g[n] = At(d) /\ ~(n + 1 <= d)
      BY <1>3, <2>1, <2>3, <2>5
    <3>2. T[Slot(k, d)] # Absent /\ T[Slot(k, d)].dib >= d /\ T[Slot(k, d)].key = k
      BY <1>1, <1>2, <1>3, <1>4
    <3>3. InsertStep(g[n]) = Met
      BY <1>3, <3>1, <3>2, PassMeets
    <3>4. QED
      BY <2>3, <3>1, <3>3
  <2>6. CASE n > d
    <3>1. g[n] = Met /\ ~(n + 1 <= d)
      BY <1>3, <2>1, <2>3, <2>6
    <3>2. g[n].res # "full"
      BY <3>1
    <3>3. g[n + 1] = g[n]
      BY <2>3, <3>2, PassEnded
    <3>4. QED
      BY <3>1, <3>3
  <2>7. QED
    BY <1>3, <2>1, <2>4, <2>5, <2>6
<1>8. S = Nat
  <2>1. S \in SUBSET Nat
    OBVIOUS
  <2> HIDE DEF S
  <2>2. QED
    BY <1>6, <1>7, <2>1, NumberInduction
<1>9. g[cap] = Met
  <2> HIDE DEF S, At, Met
  <2>1. cap \in S
    BY <1>3, <1>8
  <2>2. cap <= cap => g[cap] = IF cap <= d THEN At(cap) ELSE Met
    BY <2>1 DEF S
  <2>3. QED
    BY <1>3, <2>2
<1>10. QED
  BY <1>9

-----------------------------------------------------------------------------
\* Where the walk of ht_get and ht_delete finds its key.
LEMMA FoundHere ==
  ASSUME Table(elems), NEW k \in Keys, NEW n \in Slots, FoundAt(k, n)
  PROVE  elems[Slot(k, n)] # Absent /\ elems[Slot(k, n)].key = k /\ elems[Slot(k, n)].dib = n
<1>1. k \in Nat /\ n \in Nat /\ Slot(k, n) \in Slots
  BY CapType, SlotType DEF Slots
<1>2. elems[Slot(k, n)] # Absent /\ elems[Slot(k, n)].key = k
  BY DEF FoundAt
<1>3. elems[Slot(k, n)].dib \in Slots
  BY <1>1, <1>2, EntryType DEF Table
<1>4. Slot(k, elems[Slot(k, n)].dib) = Slot(k, n)
  BY <1>1, <1>2 DEF Table, Placed
<1>5. PICK d \in Slots : d = elems[Slot(k, n)].dib
  BY <1>3
<1>6. d = n
  BY <1>1, <1>4, <1>5, SlotOnce
<1>7. QED
  BY <1>2, <1>5, <1>6

\* It finds every key that is stored, and no other: it does not give up early.
LEMMA FoundIs ==
  ASSUME Table(elems), NEW k \in Keys
  PROVE  Found(k) <=> Has(elems, k)
<1>1. k \in Nat
  BY CapType
<1>2. ASSUME Found(k) PROVE Has(elems, k)
  <2>1. PICK n \in Slots : FoundAt(k, n)
    BY <1>2 DEF Found
  <2>2. n \in Nat
    BY CapType DEF Slots
  <2>3. Slot(k, n) \in Slots
    BY <1>1, <2>2, SlotType
  <2>4. QED
    BY <2>1, <2>3, FoundHere DEF Has
<1>3. ASSUME Has(elems, k) PROVE Found(k)
  <2>1. PICK s \in Slots : elems[s] # Absent /\ elems[s].key = k
    BY <1>3 DEF Has
  <2>2. PICK d \in Slots : d = elems[s].dib
    BY <2>1, EntryType DEF Table
  <2>3. Slot(k, d) = s /\ d \in Nat
    BY <2>1, <2>2, CapType DEF Table, Placed, Slots
  <2>4. \A n \in 0..d : Passable(elems, k, n)
    BY <2>1, <2>2 DEF Table, Clear
  <2>5. d \in Stops(k)
    BY <2>1, <2>3 DEF Stops
  <2>6. ASSUME NEW m \in Stops(k) PROVE d <= m
    <3> SUFFICES ASSUME m < d PROVE FALSE
      BY <2>3, CapType DEF Stops, Slots
    <3>1. m \in Slots /\ m \in Nat /\ m \in 0..d
      BY <2>3, CapType DEF Stops, Slots
    <3>2. Slot(k, m) \in Slots
      BY <1>1, <3>1, SlotType
    <3>3. elems[Slot(k, m)] # Absent /\ elems[Slot(k, m)].dib >= m
      BY <2>4, <3>1 DEF Passable
    <3>4. elems[Slot(k, m)].dib \in Nat
      BY <3>2, <3>3, EntryType DEF Table
    <3>5. Slot(k, m) = s
      <4>1. elems[Slot(k, m)].key = k
        BY <3>1, <3>3, <3>4 DEF Stops
      <4>2. QED
        BY <2>1, <3>2, <3>3, <4>1 DEF Table, Once
    <3>6. m = d
      BY <1>1, <2>3, <3>1, <3>5, SlotOnce
    <3>7. QED
      BY <2>3, <3>6
  <2>7. FoundAt(k, d)
    BY <2>1, <2>2, <2>3, <2>5, <2>6 DEF FoundAt
  <2>8. QED
    BY <2>7 DEF Found
<1>4. QED
  BY <1>2, <1>3

\* ht_delete (k) has shifted entries back, and Slot(k, m) holds what is to be
\* overwritten: without it the table is in order, and has lost k.  The slots
\* behind are as they were in T; those before had entries to shift.
Shifting(T, k, d, E, m) ==
  LET h == Slot(k, m) IN
  /\ E \in [Slots -> Entries] /\ E[h] # Absent
  /\ \A s \in Slots : s # h /\ E[s] # Absent => Slot(E[s].key, E[s].dib) = s
  /\ \A s, t \in Slots : /\ s # h /\ t # h /\ E[s] # Absent /\ E[t] # Absent
                         /\ E[s].key = E[t].key
                         => s = t
  /\ \A s \in Slots : s # h /\ E[s] # Absent =>
       \A n \in 0..E[s].dib : Passable(E, E[s].key, n)
  /\ \A z : (\E s \in Slots : s # h /\ E[s] # Absent /\ E[s].key = z) <=> Has(T, z) /\ z # k
  /\ \A j \in (m + 1)..(cap - 1) : E[Slot(k, j)] = T[Slot(k, j)]
  /\ d # 0 => E[Slot(k, 0)] = T[Slot(k, 0)]
  /\ d = 0 => E[Slot(k, 0)].dib = 0
  /\ \A j \in (d + 1)..m : ~Ends(T[Slot(k, j)])

\* The entry of k is gone.
Removed(T, k, F) ==
  /\ Table(F) /\ Started(F)
  /\ \A z : Has(F, z) <=> Has(T, z) /\ z # k

\* The last slot of a shift becomes free: no entry has to be reached through it.
LEMMA ShiftEnds ==
  ASSUME NEW T, NEW k \in Keys, NEW d, NEW E, NEW m \in Slots, Shifting(T, k, d, E, m),
         Ends(E[Slot(k, m + 1)]), NEW F, F = [E EXCEPT ![Slot(k, m)] = Absent]
  PROVE  Removed(T, k, F)
<1>1. k \in Nat /\ m \in Nat
  BY CapType DEF Slots
<1>2. PICK h \in Slots : h = Slot(k, m)
  BY <1>1, SlotType
<1>3. E \in [Slots -> Entries]
  BY DEF Shifting
<1>4. F \in [Slots -> Entries] /\ F[h] = Absent /\ \A s \in Slots : s # h => F[s] = E[s]
  BY <1>2, <1>3 DEF Entries
<1>5. Placed(F)
  BY <1>2, <1>4 DEF Placed, Shifting
<1>6. Once(F)
  BY <1>2, <1>4 DEF Once, Shifting
<1>7. Clear(F)
  <2> SUFFICES ASSUME NEW s \in Slots, F[s] # Absent, NEW n \in 0..F[s].dib
               PROVE  Passable(F, F[s].key, n)
    BY DEF Clear
  <2>1. s # h /\ F[s] = E[s] /\ E[s] # Absent
    BY <1>4
  <2>2. E[s].key \in Nat /\ E[s].dib \in Nat /\ n \in Nat /\ n <= E[s].dib /\ n + 1 \in Nat
    BY <1>3, <2>1, EntryType
  <2>3. \A i \in 0..E[s].dib : Passable(E, E[s].key, i)
    BY <1>2, <2>1 DEF Shifting
  <2>4. Slot(E[s].key, n) # h
    <3> SUFFICES ASSUME Slot(E[s].key, n) = h PROVE FALSE
      OBVIOUS
    <3>1. Slot(E[s].key, E[s].dib) = s
      BY <1>2, <2>1 DEF Shifting
    <3>2. n # E[s].dib
      BY <2>1, <3>1
    <3>3. n + 1 \in 0..E[s].dib
      BY <2>2, <3>2
    <3>4. Slot(E[s].key, n + 1) = Slot(k, m + 1)
      BY <1>1, <1>2, <2>2, SlotsGoOn
    <3>5. E[Slot(k, m + 1)] # Absent /\ E[Slot(k, m + 1)].dib >= n + 1
      BY <2>3, <3>3, <3>4 DEF Passable
    <3>6. QED
      BY <2>2, <3>5 DEF Ends
  <2>5. Slot(E[s].key, n) \in Slots
    BY <2>2, SlotType
  <2>6. F[Slot(E[s].key, n)] = E[Slot(E[s].key, n)]
    BY <1>4, <2>4, <2>5
  <2>7. Passable(E, E[s].key, n)
    BY <2>1, <2>3
  <2>8. QED
    BY <2>1, <2>6, <2>7 DEF Passable
<1>8. Started(F)
  BY <1>4 DEF Started
<1>9. ASSUME NEW z PROVE Has(F, z) <=> Has(T, z) /\ z # k
  <2>1. (\E s \in Slots : s # h /\ E[s] # Absent /\ E[s].key = z) <=> Has(T, z) /\ z # k
    BY <1>2 DEF Shifting
  <2>2. QED
    BY <1>4, <2>1 DEF Has
<1>10. QED
  BY <1>4, <1>5, <1>6, <1>7, <1>8, <1>9 DEF Removed, Table

\* The entry behind the hole moves into it, one step nearer to its home.
LEMMA ShiftMoves ==
  ASSUME NEW T, NEW k \in Keys, NEW d \in Slots, NEW E, NEW m \in Slots, Shifting(T, k, d, E, m),
         d <= m, m + 1 \in Slots, ~Ends(E[Slot(k, m + 1)]),
         NEW F, F = [E EXCEPT ![Slot(k, m)] = Shifted(E[Slot(k, m + 1)])]
  PROVE  Shifting(T, k, d, F, m + 1)
<1>1. k \in Nat /\ m \in Nat /\ m + 1 \in Nat /\ d \in Nat /\ cap \in Nat /\ m + 1 < cap
  BY CapType DEF Slots
<1>2. PICK h \in Slots, t \in Slots : h = Slot(k, m) /\ t = Slot(k, m + 1)
  BY <1>1, SlotType
<1>3. h # t
  <2> SUFFICES ASSUME h = t PROVE FALSE
    OBVIOUS
  <2>1. m = m + 1
    BY <1>1, <1>2, SlotOnce
  <2>2. QED
    BY <1>1, <2>1
<1>4. E \in [Slots -> Entries] /\ E[t] # Absent /\ E[t].dib # 0
  BY <1>2 DEF Shifting, Ends
<1>5. PICK x \in Keys, e \in Nat : E[t] = [key |-> x, dib |-> e + 1] /\ E[t].key = x /\ E[t].dib = e + 1
  <2>1. E[t] = [key |-> E[t].key, dib |-> E[t].dib] /\ E[t].key \in Keys /\ E[t].dib \in Nat
    BY <1>4, EntryType
  <2>2. E[t].dib - 1 \in Nat /\ (E[t].dib - 1) + 1 = E[t].dib
    BY <1>4, <2>1
  <2>3. QED
    BY <2>1, <2>2
<1>6. x \in Nat /\ e + 1 \in Slots /\ e \in Slots
  <2>1. e + 1 \in Slots
    BY <1>4, <1>5, EntryType
  <2>2. QED
    BY <1>5, <2>1, CapType DEF Slots
<1>7. Shifted(E[t]) = [key |-> x, dib |-> e]
  BY <1>5 DEF Shifted
<1>8. PICK f \in Entries : f = [key |-> x, dib |-> e] /\ f # Absent /\ f.key = x /\ f.dib = e
  BY <1>5, <1>6, NewEntry
<1>9. /\ F \in [Slots -> Entries] /\ F[h] # Absent /\ F[h].key = x /\ F[h].dib = e
      /\ \A s \in Slots : s # h => F[s] = E[s]
  <2>1. F = [E EXCEPT ![h] = f]
    BY <1>2, <1>7, <1>8
  <2>2. QED
    BY <1>4, <1>8, <2>1
<1>10. F[t] = E[t] /\ F[t] # Absent
  BY <1>3, <1>4, <1>9
<1>11. Slot(x, e) = h
  <2>1. Slot(x, e + 1) = Slot(k, m + 1)
    BY <1>2, <1>3, <1>4, <1>5 DEF Shifting
  <2>2. QED
    BY <1>1, <1>2, <1>5, <1>6, <2>1, SlotsCame
<1>12. ASSUME NEW s \in Slots, s # t, F[s] # Absent
       PROVE  Slot(F[s].key, F[s].dib) = s
  BY <1>2, <1>9, <1>11, <1>12 DEF Shifting
<1>13. ASSUME NEW s \in Slots, NEW u \in Slots, s # t, u # t, F[s] # Absent, F[u] # Absent,
              F[s].key = F[u].key
       PROVE  s = u
  BY <1>2, <1>3, <1>4, <1>5, <1>9, <1>13 DEF Shifting
<1>14. ASSUME NEW s \in Slots, s # t, F[s] # Absent, NEW n \in 0..F[s].dib
       PROVE  Passable(F, F[s].key, n)
  <2>1. F[s].key \in Nat /\ F[s].dib \in Nat /\ n \in Nat /\ n + 1 \in Nat
    BY <1>9, <1>14, EntryType
  <2>2. Slot(F[s].key, n) \in Slots
    BY <2>1, SlotType
  <2>3. CASE s = h
    <3>1. F[s].key = x /\ F[s].dib = e
      BY <1>9, <2>3
    <3>2. CASE n = e
      BY <1>9, <1>11, <3>1, <3>2, <1>5 DEF Passable
    <3>3. CASE n # e
      <4>1. n \in Slots /\ n \in 0..(e + 1)
        BY <1>1, <1>5, <1>6, <2>1, <3>1, <3>3 DEF Slots
      <4>2. Passable(E, x, n)
        BY <1>2, <1>3, <1>4, <1>5, <4>1 DEF Shifting
      <4>3. Slot(x, n) # h
        BY <1>6, <1>11, <3>3, <4>1, SlotOnce
      <4>4. F[Slot(x, n)] = E[Slot(x, n)]
        BY <1>9, <2>2, <3>1, <4>3
      <4>5. QED
        BY <3>1, <4>2, <4>4 DEF Passable
    <3>4. QED
      BY <3>2, <3>3
  <2>4. CASE s # h
    <3>1. F[s] = E[s] /\ E[s] # Absent
      BY <1>9, <1>14, <2>4
    <3>2. \A i \in 0..E[s].dib : Passable(E, E[s].key, i)
      BY <1>2, <2>4, <3>1 DEF Shifting
    <3>3. Passable(E, F[s].key, n)
      BY <3>1, <3>2
    <3>4. CASE Slot(F[s].key, n) # h
      <4>1. F[Slot(F[s].key, n)] = E[Slot(F[s].key, n)]
        BY <1>9, <2>2, <3>4
      <4>2. QED
        BY <3>3, <4>1 DEF Passable
    <3>5. CASE Slot(F[s].key, n) = h
      <4>1. Slot(F[s].key, F[s].dib) = s
        BY <1>12, <1>14
      <4>2. n # F[s].dib
        BY <2>4, <3>5, <4>1
      <4>3. n + 1 \in 0..E[s].dib
        BY <2>1, <3>1, <4>2
      <4>4. Slot(F[s].key, n + 1) = t
        BY <1>1, <1>2, <2>1, <3>5, SlotsGoOn
      <4>5. E[t].dib >= n + 1
        BY <3>1, <3>2, <4>3, <4>4 DEF Passable
      <4>6. e >= n
        BY <1>5, <2>1, <4>5
      <4>7. QED
        BY <1>9, <3>5, <4>6 DEF Passable
    <3>6. QED
      BY <3>4, <3>5
  <2>5. QED
    BY <2>3, <2>4
<1>15. ASSUME NEW z
       PROVE  (\E s \in Slots : s # t /\ F[s] # Absent /\ F[s].key = z) <=> Has(T, z) /\ z # k
  <2>1. (\E s \in Slots : s # h /\ E[s] # Absent /\ E[s].key = z) <=> Has(T, z) /\ z # k
    BY <1>2 DEF Shifting
  <2>2. (\E s \in Slots : s # t /\ F[s] # Absent /\ F[s].key = z)
          <=> (\E s \in Slots : s # h /\ E[s] # Absent /\ E[s].key = z)
    BY <1>3, <1>4, <1>5, <1>9, <1>10
  <2>3. QED
    BY <2>1, <2>2
<1>16. ASSUME NEW j \in ((m + 1) + 1)..(cap - 1) PROVE F[Slot(k, j)] = T[Slot(k, j)]
  <2>1. j \in (m + 1)..(cap - 1) /\ j \in Slots /\ j # m /\ j \in Nat
    BY <1>1 DEF Slots
  <2>2. Slot(k, j) # h /\ Slot(k, j) \in Slots
    BY <1>1, <1>2, <2>1, SlotOnce, SlotType
  <2>3. E[Slot(k, j)] = T[Slot(k, j)]
    BY <2>1 DEF Shifting
  <2>4. QED
    BY <1>9, <2>2, <2>3
<1>17. 0 \in Slots /\ Slot(k, 0) \in Slots
  BY <1>1, SlotType, CapType DEF Slots
<1>18. ASSUME d # 0 PROVE F[Slot(k, 0)] = T[Slot(k, 0)]
  <2>1. m # 0
    BY <1>1, <1>18
  <2>2. Slot(k, 0) # h
    BY <1>1, <1>2, <1>17, <2>1, SlotOnce
  <2>3. QED
    BY <1>9, <1>17, <1>18, <2>2 DEF Shifting
<1>19. ASSUME d = 0 PROVE F[Slot(k, 0)].dib = 0
  <2>1. E[Slot(k, 0)].dib = 0
    BY <1>19 DEF Shifting
  <2>2. CASE Slot(k, 0) # h
    BY <1>9, <1>17, <2>1, <2>2
  <2>3. CASE Slot(k, 0) = h
    <3>1. e \in 0..(e + 1)
      BY <1>5
    <3>2. Passable(E, x, e)
      BY <1>2, <1>3, <1>4, <1>5, <3>1 DEF Shifting
    <3>3. e <= 0
      BY <1>11, <2>1, <2>3, <3>2 DEF Passable
    <3>4. QED
      BY <1>5, <1>9, <2>3, <3>3
  <2>4. QED
    BY <2>2, <2>3
<1>20. ASSUME NEW j \in (d + 1)..(m + 1) PROVE ~Ends(T[Slot(k, j)])
  <2>1. CASE j = m + 1
    <3>1. j \in (m + 1)..(cap - 1)
      BY <1>1, <2>1
    <3>2. E[Slot(k, j)] = T[Slot(k, j)]
      BY <3>1 DEF Shifting
    <3>3. QED
      BY <2>1, <3>2
  <2>2. CASE j # m + 1
    <3>1. j \in (d + 1)..m
      BY <1>1, <2>2
    <3>2. QED
      BY <3>1 DEF Shifting
  <2>3. QED
    BY <2>1, <2>2
<1>21. QED
  <2>1. /\ F \in [Slots -> Entries] /\ F[t] # Absent
        /\ \A s \in Slots : s # t /\ F[s] # Absent => Slot(F[s].key, F[s].dib) = s
        /\ \A s, u \in Slots : /\ s # t /\ u # t /\ F[s] # Absent /\ F[u] # Absent
                               /\ F[s].key = F[u].key
                               => s = u
    BY <1>9, <1>10, <1>12, <1>13
  <2>2. \A s \in Slots : s # t /\ F[s] # Absent =>
          \A n \in 0..F[s].dib : Passable(F, F[s].key, n)
    BY <1>14
  <2>3. \A z : (\E s \in Slots : s # t /\ F[s] # Absent /\ F[s].key = z) <=> Has(T, z) /\ z # k
    BY <1>15
  <2>4. \A j \in ((m + 1) + 1)..(cap - 1) : F[Slot(k, j)] = T[Slot(k, j)]
    BY <1>16
  <2>5. /\ d # 0 => F[Slot(k, 0)] = T[Slot(k, 0)]
        /\ d = 0 => F[Slot(k, 0)].dib = 0
        /\ \A j \in (d + 1)..(m + 1) : ~Ends(T[Slot(k, j)])
    BY <1>18, <1>19, <1>20
  <2>6. t = Slot(k, m + 1)
    BY <1>2
  <2>7. QED
    BY ONLY <2>1, <2>2, <2>3, <2>4, <2>5, <2>6 DEF Shifting

\* Before the first pass the hole is the entry of k itself.
LEMMA ShiftBegins ==
  ASSUME NEW T, Table(T), NEW k \in Keys, NEW d \in Slots,
         T[Slot(k, d)] # Absent, T[Slot(k, d)].key = k, T[Slot(k, d)].dib = d
  PROVE  Shifting(T, k, d, T, d)
<1>1. k \in Nat /\ d \in Nat /\ T \in [Slots -> Entries]
  BY CapType DEF Slots, Table
<1>2. PICK h \in Slots : h = Slot(k, d)
  BY <1>1, SlotType
<1>3. /\ \A s \in Slots : s # h /\ T[s] # Absent => Slot(T[s].key, T[s].dib) = s
      /\ \A s, t \in Slots : /\ s # h /\ t # h /\ T[s] # Absent /\ T[t] # Absent
                             /\ T[s].key = T[t].key
                             => s = t
  BY DEF Table, Placed, Once
<1>4. \A s \in Slots : s # h /\ T[s] # Absent => \A n \in 0..T[s].dib : Passable(T, T[s].key, n)
  BY DEF Table, Clear
<1>5. \A z : (\E s \in Slots : s # h /\ T[s] # Absent /\ T[s].key = z) <=> Has(T, z) /\ z # k
  BY <1>2 DEF Has, Table, Once
<1>6. d = 0 => T[Slot(k, 0)].dib = 0
  OBVIOUS
<1>7. \A j \in (d + 1)..d : ~Ends(T[Slot(k, j)])
  BY <1>1
<1>8. QED
  BY <1>1, <1>2, <1>3, <1>4, <1>5, <1>6, <1>7 DEF Shifting

\* The shift is over when it has come round the table at the latest.
LEMMA ShiftComesToAnEnd ==
  ASSUME NEW T, Table(T), Started(T), NEW k \in Keys, NEW d \in Slots,
         T[Slot(k, d)] # Absent, T[Slot(k, d)].key = k, T[Slot(k, d)].dib = d,
         NEW E, Shifting(T, k, d, E, cap - 1)
  PROVE  Ends(E[Slot(k, cap)])
<1>1. k \in Nat /\ d \in Nat /\ cap \in Nat \ {0} /\ d < cap /\ T \in [Slots -> Entries]
  BY CapType DEF Slots, Table
<1>2. Slot(k, cap) = Slot(k, 0)
  BY <1>1, SlotTurns
<1>3. CASE d = 0
  BY <1>2, <1>3 DEF Shifting, Ends
<1>4. CASE d # 0
  <2>1. SUFFICES ASSUME ~Ends(T[Slot(k, 0)]) PROVE FALSE
    BY <1>2, <1>4 DEF Shifting
  <2>2. Slot(k, d) \in Slots
    BY <1>1, SlotType
  <2>3. \A n \in 0..d : Passable(T, k, n)
    BY <2>2 DEF Table, Clear
  <2>4. ASSUME NEW j \in Slots PROVE ~Ends(T[Slot(k, j)])
    <3>1. j \in Nat /\ j <= cap - 1
      BY <1>1 DEF Slots
    <3>2. CASE j = 0
      BY <2>1, <3>2
    <3>3. CASE j # 0 /\ j <= d
      <4>1. Passable(T, k, j)
        BY <2>3, <3>1, <3>3
      <4>2. QED
        BY <1>1, <3>1, <3>3, <4>1 DEF Passable, Ends
    <3>4. CASE j > d
      <4>1. j \in (d + 1)..(cap - 1)
        BY <1>1, <3>1, <3>4
      <4>2. QED
        BY <4>1 DEF Shifting
    <3>5. QED
      BY <1>1, <3>1, <3>2, <3>3, <3>4
  <2>5. PICK s \in Slots : T[s] = Absent \/ T[s].dib = 0
    BY DEF Started
  <2>6. PICK j \in Slots : Slot(k, j) = s
    BY <1>1, SlotMeets
  <2>7. QED
    BY <2>4, <2>5, <2>6 DEF Ends
<1>5. QED
  BY <1>3, <1>4

\* g is the shift of ht_delete from z on, n steps from the home of k, up to m passes.
Shifts(g, z, k, n, m) ==
  g = [i \in 0..m |-> IF i = 0 THEN z ELSE ShiftStep(k, g[i - 1], n + i - 1)]

LEMMA ShiftsExist ==
  ASSUME NEW z, NEW k, NEW n
  PROVE  \A m \in Nat : \E g : Shifts(g, z, k, n, m)
<1> DEFINE S == {m \in Nat : \E g : Shifts(g, z, k, n, m)}
<1>1. 0 \in S
  <2> DEFINE g == [i \in 0..0 |-> z]
  <2>1. g = [i \in 0..0 |-> IF i = 0 THEN z ELSE ShiftStep(k, g[i - 1], n + i - 1)]
    OBVIOUS
  <2>2. Shifts(g, z, k, n, 0)
    BY <2>1 DEF Shifts
  <2>3. QED
    BY <2>2
<1>2. ASSUME NEW m \in S PROVE m + 1 \in S
  <2>1. PICK g : Shifts(g, z, k, n, m)
    OBVIOUS
  <2> DEFINE h == [i \in 0..(m + 1) |-> IF i = m + 1 THEN ShiftStep(k, g[m], n + (m + 1) - 1)
                                                     ELSE g[i]]
  <2>2. \A i \in 0..m : g[i] = IF i = 0 THEN z ELSE ShiftStep(k, g[i - 1], n + i - 1)
    BY <2>1 DEF Shifts
  <2>3. ASSUME NEW i \in 0..(m + 1)
        PROVE  h[i] = IF i = 0 THEN z ELSE ShiftStep(k, h[i - 1], n + i - 1)
    <3>1. CASE i = m + 1
      BY <3>1
    <3>2. CASE i # m + 1
      BY <2>2, <3>2
    <3>3. QED
      BY <3>1, <3>2
  <2>4. h = [i \in 0..(m + 1) |-> IF i = 0 THEN z ELSE ShiftStep(k, h[i - 1], n + i - 1)]
    BY <2>3
  <2>5. Shifts(h, z, k, n, m + 1)
    BY <2>4 DEF Shifts
  <2>6. QED
    BY <2>5
<1>3. S = Nat
  <2> HIDE DEF S
  <2>1. S \in SUBSET Nat
    BY DEF S
  <2>2. QED
    BY <1>1, <1>2, <2>1, NumberInduction
<1>4. QED
  BY <1>3

LEMMA ShiftedFromIs ==
  ASSUME NEW k, NEW n \in Slots
  PROVE  \E g : /\ g[0] = [elems |-> elems, done |-> FALSE] /\ ShiftedFrom(k, n) = g[cap - n]
                /\ \A i \in 0..(cap - n - 1) : g[i + 1] = ShiftStep(k, g[i], n + i)
<1>1. PICK z : z = [elems |-> elems, done |-> FALSE]
  OBVIOUS
<1>2. PICK m \in Nat : m = cap - n /\ n \in Nat
  BY CapType DEF Slots
<1> DEFINE g == CHOOSE h : h = [i \in 0..m |-> IF i = 0 THEN z ELSE ShiftStep(k, h[i - 1], n + i - 1)]
<1>3. g = [i \in 0..m |-> IF i = 0 THEN z ELSE ShiftStep(k, g[i - 1], n + i - 1)]
  <2>1. \E h : h = [i \in 0..m |-> IF i = 0 THEN z ELSE ShiftStep(k, h[i - 1], n + i - 1)]
    <3>1. \E h : Shifts(h, z, k, n, m)
      BY ShiftsExist
    <3>2. QED
      BY <3>1 DEF Shifts
  <2>2. QED
    BY <2>1
<1>4. ShiftedFrom(k, n) = g[m]
  BY <1>1, <1>2 DEF ShiftedFrom
<1> HIDE DEF g
<1>5. \A i \in 0..m : g[i] = IF i = 0 THEN z ELSE ShiftStep(k, g[i - 1], n + i - 1)
  BY <1>3
<1>6. g[0] = z
  <2>1. 0 \in 0..m
    OBVIOUS
  <2>2. QED
    BY <1>5, <2>1
<1>7. ASSUME NEW i \in 0..(m - 1) PROVE g[i + 1] = ShiftStep(k, g[i], n + i)
  <2>1. i + 1 \in 0..m /\ i + 1 # 0 /\ (i + 1) - 1 = i /\ n + (i + 1) - 1 = n + i
    BY <1>2
  <2>2. QED
    BY <1>5, <2>1
<1>8. QED
  BY <1>1, <1>2, <1>4, <1>6, <1>7

\* The loop of ht_delete takes the entry out, and ends before the slots do.
LEMMA ShiftRemoves ==
  ASSUME NEW T, Table(T), Started(T), NEW k \in Keys, NEW d \in Slots,
         T[Slot(k, d)] # Absent, T[Slot(k, d)].key = k, T[Slot(k, d)].dib = d, NEW g,
         g[0] = [elems |-> T, done |-> FALSE],
         \A i \in 0..(cap - d - 1) : g[i + 1] = ShiftStep(k, g[i], d + i)
  PROVE  g[cap - d].done /\ Removed(T, k, g[cap - d].elems)
<1>1. k \in Nat /\ d \in Nat /\ cap \in Nat \ {0} /\ d < cap /\ d <= cap - 1
  BY CapType DEF Slots
<1> DEFINE Going(i) == /\ d + i <= cap - 1
                       /\ g[i] = [elems |-> g[i].elems, done |-> FALSE]
                       /\ Shifting(T, k, d, g[i].elems, d + i)
           Gone(i)  == g[i].done = TRUE /\ Removed(T, k, g[i].elems)
           S        == {i \in Nat : d + i <= cap => Going(i) \/ Gone(i)}
<1>2. 0 \in S
  <2>1. Shifting(T, k, d, T, d)
    BY ShiftBegins
  <2>2. g[0].elems = T /\ d + 0 = d
    BY <1>1
  <2>3. Going(0)
    BY <1>1, <2>1, <2>2
  <2>4. QED
    BY <2>3
<1>3. ASSUME NEW i \in S PROVE i + 1 \in S
  <2>1. i \in Nat /\ (d + i <= cap => Going(i) \/ Gone(i))
    OBVIOUS
  <2> HIDE DEF S, Going, Gone
  <2>2. SUFFICES ASSUME d + (i + 1) <= cap PROVE Going(i + 1) \/ Gone(i + 1)
    BY <2>1 DEF S
  <2> USE DEF Going, Gone
  <2>3. i \in 0..(cap - d - 1) /\ d + i <= cap /\ d + i \in Slots /\ d <= d + i
        /\ d + (i + 1) = (d + i) + 1
    BY <1>1, <2>1, <2>2 DEF Slots
  <2>4. PICK m \in Slots : m = d + i
    BY <2>3
  <2>5. g[i + 1] = ShiftStep(k, g[i], m)
    BY <2>3, <2>4
  <2>6. CASE Gone(i)
    <3>1. g[i + 1] = g[i]
      BY <2>5, <2>6 DEF ShiftStep
    <3>2. QED
      BY <2>6, <3>1
  <2>7. CASE Going(i)
    <3>1. PICK E : E = g[i].elems
      OBVIOUS
    <3>2. g[i] = [elems |-> E, done |-> FALSE] /\ Shifting(T, k, d, E, m)
      BY <2>4, <2>7, <3>1
    <3>3. CASE Ends(E[Slot(k, m + 1)])
      <4>1. PICK F : F = [E EXCEPT ![Slot(k, m)] = Absent]
        OBVIOUS
      <4>2. g[i + 1] = [elems |-> F, done |-> TRUE]
        BY <2>5, <3>2, <3>3, <4>1 DEF ShiftStep
      <4>3. Removed(T, k, F)
        BY <3>2, <3>3, <4>1, ShiftEnds
      <4>4. Gone(i + 1)
        BY <4>2, <4>3
      <4>5. QED
        BY <4>4
    <3>4. CASE ~Ends(E[Slot(k, m + 1)])
      <4>1. PICK F : F = [E EXCEPT ![Slot(k, m)] = Shifted(E[Slot(k, m + 1)])]
        OBVIOUS
      <4>2. g[i + 1] = [elems |-> F, done |-> FALSE]
        <5>1. g[i].elems = E /\ g[i].done = FALSE
          BY <3>2
        <5>2. QED
          BY <2>5, <3>4, <4>1, <5>1 DEF ShiftStep
      <4>3. m # cap - 1
        <5> SUFFICES ASSUME m = cap - 1 PROVE FALSE
          OBVIOUS
        <5>1. Shifting(T, k, d, E, cap - 1) /\ m + 1 = cap
          BY <1>1, <3>2
        <5>2. Ends(E[Slot(k, cap)])
          BY <5>1, ShiftComesToAnEnd
        <5>3. QED
          BY <3>4, <5>1, <5>2
      <4>4. m + 1 \in Slots /\ d <= m /\ m + 1 <= cap - 1
        BY <1>1, <2>3, <2>4, <4>3 DEF Slots
      <4>5. Shifting(T, k, d, F, m + 1)
        BY <3>2, <3>4, <4>1, <4>4, ShiftMoves
      <4>6. d + (i + 1) = m + 1
        BY <2>3, <2>4
      <4>7. Going(i + 1)
        BY <4>2, <4>4, <4>5, <4>6
      <4>8. QED
        BY <4>7
    <3>5. QED
      BY <3>3, <3>4
  <2>8. QED
    BY <2>1, <2>3, <2>6, <2>7
<1>4. S = Nat
  <2>1. S \in SUBSET Nat
    OBVIOUS
  <2> HIDE DEF S
  <2>2. QED
    BY <1>2, <1>3, <2>1, NumberInduction
<1>5. PICK i \in Nat : i = cap - d
  BY <1>1
<1>6. d + i <= cap => Going(i) \/ Gone(i)
  <2>1. i \in S
    BY <1>4
  <2>2. QED
    BY <2>1
<1>7. ~Going(i) /\ d + i <= cap
  BY <1>1, <1>5
<1>8. QED
  BY <1>5, <1>6, <1>7

-----------------------------------------------------------------------------
\* The inductive invariant.
TableInv ==
  /\ Table(elems) /\ refused \in BOOLEAN
  /\ ~refused => Started(elems)

LEMMA StoredIs ==
  \A z : z \in Stored <=> Has(elems, z)
BY DEF Stored, Present, Has

LEMMA TableIsDib == TableInv => DibInvariant
<1> SUFFICES ASSUME TableInv PROVE DibInvariant
  OBVIOUS
<1>1. elems \in [Slots -> Entries] /\ Placed(elems) /\ Once(elems) /\ Clear(elems)
  BY DEF TableInv, Table
<1>2. \A s \in Present : elems[s].key \in Keys /\ Slot(elems[s].key, elems[s].dib) = s
  BY <1>1, EntryType DEF Present, Placed
<1>3. \A s, t \in Present : elems[s].key = elems[t].key => s = t
  BY <1>1 DEF Present, Once
<1>4. \A s \in Present : \A n \in 0..elems[s].dib :
        LET e == elems[Slot(elems[s].key, n)] IN e # Absent /\ e.dib >= n
  BY <1>1 DEF Present, Clear, Passable
<1>5. QED
  BY <1>2, <1>3, <1>4 DEF DibInvariant

LEMMA InitTable == Init => TableInv
<1> SUFFICES ASSUME Init PROVE TableInv
  OBVIOUS
<1>1. elems \in [Slots -> Entries] /\ \A s \in Slots : elems[s] = Absent
  BY DEF Init, Entries
<1>2. 0 \in Slots
  BY CapType DEF Slots
<1>3. QED
  BY <1>1, <1>2 DEF Init, TableInv, Table, Placed, Once, Clear, Started

LEMMA SlotsCount == IsFiniteSet(Slots) /\ Cardinality(Slots) = cap
<1>1. cap \in Nat \ {0} /\ 0 \in Int /\ cap - 1 \in Int /\ ~(0 > cap - 1) /\ cap - 1 - 0 + 1 = cap
  BY CapType
<1>2. IsFiniteSet(0..(cap - 1)) /\ Cardinality(0..(cap - 1)) = IF 0 > cap - 1 THEN 0 ELSE cap - 1 - 0 + 1
  BY <1>1, FS_Interval
<1>3. QED
  BY <1>1, <1>2 DEF Slots

\* A table with a free slot has fewer keys than slots.
LEMMA FewerKeys ==
  ASSUME NEW T \in [Slots -> Entries], \E s \in Slots : T[s] = Absent
  PROVE  /\ Cardinality({T[s].key : s \in {t \in Slots : T[t] # Absent}}) \in Nat
         /\ Cardinality({T[s].key : s \in {t \in Slots : T[t] # Absent}}) < cap
<1> DEFINE P == {t \in Slots : T[t] # Absent}
           K == {T[s].key : s \in P}
           f == [s \in P |-> T[s].key]
<1>1. IsFiniteSet(Slots) /\ Cardinality(Slots) = cap
  BY SlotsCount
<1>2. P \in SUBSET Slots /\ P # Slots
  OBVIOUS
<1>3. IsFiniteSet(P) /\ Cardinality(P) <= Cardinality(Slots) /\ Cardinality(P) # Cardinality(Slots)
  <2> HIDE DEF P
  <2>1. /\ IsFiniteSet(P) /\ Cardinality(P) <= Cardinality(Slots)
        /\ Cardinality(Slots) = Cardinality(P) => Slots = P
    BY <1>1, <1>2, FS_Subset
  <2>2. QED
    BY <1>2, <2>1
<1>4. f \in Surjection(P, K)
  BY DEF Surjection
<1>5. IsFiniteSet(K) /\ Cardinality(K) <= Cardinality(P)
  <2> HIDE DEF f, P, K
  <2>1. QED
    BY <1>3, <1>4, FS_Surjection
<1>6. Cardinality(K) \in Nat /\ Cardinality(P) \in Nat
  BY <1>3, <1>5, FS_CardinalityType
<1> HIDE DEF P, K
<1>7. Cardinality(K) < cap
  BY <1>1, <1>3, <1>5, <1>6, CapType
<1>8. QED
  BY <1>6, <1>7 DEF K, P

\* ht_insert of a key that is in the table, and of one that is not.
LEMMA InsertMeets ==
  ASSUME TableInv, NEW k \in Keys, k \in Stored, Insert(k)
  PROVE  /\ elems' = elems /\ refused' = refused
         /\ answer' = [op |-> "insert", key |-> k, res |-> "exists"]
<1>1. PICK T : T = elems
  OBVIOUS
<1>2. PICK g : /\ g[0] = Walk(k) /\ Walked(k) = g[cap]
               /\ \A n \in 0..(cap - 1) : g[n + 1] = InsertStep(g[n])
  BY WalkedIs
<1>3. Table(T) /\ Has(T, k)
  BY <1>1, StoredIs DEF TableInv
<1>4. g[0] = [elems |-> T, key |-> k, dib |-> 0, res |-> "full"]
  BY <1>1, <1>2 DEF Walk
<1>5. g[cap].elems = T /\ g[cap].res = "exists"
  BY <1>2, <1>3, <1>4, WalkMeets
<1>6. /\ elems' = g[cap].elems /\ answer' = [op |-> "insert", key |-> k, res |-> g[cap].res]
      /\ refused' = (refused \/ g[cap].res = "full")
  BY <1>2 DEF Insert, Answer
<1>7. refused' = refused
  BY <1>5, <1>6 DEF TableInv
<1>8. QED
  BY <1>1, <1>5, <1>6, <1>7

LEMMA InsertStores ==
  ASSUME TableInv, Present # Slots, NEW k \in Keys, k \notin Stored, Insert(k)
  PROVE  /\ TableInv' /\ Cardinality(Stored) < cap /\ Stored' = Stored \cup {k}
         /\ answer' = [op |-> "insert", key |-> k, res |-> "success"]
<1>1. PICK T, U : T = elems /\ U = elems'
  OBVIOUS
<1>2. PICK g : /\ g[0] = Walk(k) /\ Walked(k) = g[cap]
               /\ \A n \in 0..(cap - 1) : g[n + 1] = InsertStep(g[n])
  BY WalkedIs
<1>3. Table(T) /\ ~Has(T, k)
  BY <1>1, StoredIs DEF TableInv
<1>4. g[0] = [elems |-> T, key |-> k, dib |-> 0, res |-> "full"]
  BY <1>1, <1>2 DEF Walk
<1>5. \E s \in Slots : T[s] = Absent
  BY <1>1 DEF Present
<1>6. Settled(T, k, g[cap])
  BY <1>2, <1>3, <1>4, <1>5, WalkStores
<1>7. /\ elems' = g[cap].elems /\ answer' = [op |-> "insert", key |-> k, res |-> g[cap].res]
      /\ refused' = (refused \/ g[cap].res = "full")
  BY <1>2 DEF Insert, Answer
<1>8. Table(U) /\ Started(U) /\ \A z : Has(U, z) <=> Has(T, z) \/ z = k
  BY <1>1, <1>6, <1>7 DEF Settled
<1>9. TableInv'
  BY <1>1, <1>7, <1>8 DEF TableInv
<1>10. Stored' = Stored \cup {k}
  <2>1. \A z : z \in Stored' <=> Has(U, z)
    BY <1>1 DEF Stored, Present, Has
  <2>2. \A z : z \in Stored <=> Has(T, z)
    BY <1>1, StoredIs
  <2>3. QED
    BY <1>8, <2>1, <2>2
<1>11. Cardinality(Stored) < cap
  <2>1. Stored = {T[s].key : s \in {t \in Slots : T[t] # Absent}}
    BY <1>1 DEF Stored, Present
  <2>2. QED
    BY <1>3, <1>5, <2>1, FewerKeys DEF Table
<1>12. QED
  BY <1>6, <1>7, <1>9, <1>10, <1>11 DEF Settled

\* A full table has as many keys as slots.
LEMMA AsManyKeys ==
  ASSUME NEW T \in [Slots -> Entries], Once(T), \A s \in Slots : T[s] # Absent
  PROVE  Cardinality({T[s].key : s \in {t \in Slots : T[t] # Absent}}) = cap
<1> DEFINE K == {T[s].key : s \in Slots}
           f == [s \in Slots |-> T[s].key]
<1>1. IsFiniteSet(Slots) /\ Cardinality(Slots) = cap
  BY SlotsCount
<1>2. f \in Bijection(Slots, K)
  <2>1. f \in Surjection(Slots, K)
    BY DEF Surjection
  <2>2. f \in Injection(Slots, K)
    BY DEF Injection, IsInjective, Once
  <2>3. QED
    BY <2>1, <2>2 DEF Bijection
<1>3. Cardinality(K) = Cardinality(Slots)
  <2> HIDE DEF f, K
  <2>1. QED
    BY <1>1, <1>2, FS_Bijection DEF ExistsBijection
<1>4. {t \in Slots : T[t] # Absent} = Slots
  OBVIOUS
<1>5. QED
  BY <1>1, <1>3, <1>4

\* ht_insert of a new key into a full table.
LEMMA InsertRefuses ==
  ASSUME TableInv, Present = Slots, NEW k \in Keys, k \notin Stored, Insert(k)
  PROVE  /\ TableInv' /\ Cardinality(Stored) = cap
         /\ \E out \in Stored \cup {k} : Stored' = (Stored \cup {k}) \ {out}
         /\ answer' = [op |-> "insert", key |-> k, res |-> "full"]
<1>1. PICK T, U : T = elems /\ U = elems'
  OBVIOUS
<1>2. PICK g : /\ g[0] = Walk(k) /\ Walked(k) = g[cap]
               /\ \A n \in 0..(cap - 1) : g[n + 1] = InsertStep(g[n])
  BY WalkedIs
<1>3. Table(T) /\ ~Has(T, k)
  BY <1>1, StoredIs DEF TableInv
<1>4. g[0] = [elems |-> T, key |-> k, dib |-> 0, res |-> "full"]
  BY <1>1, <1>2 DEF Walk
<1>5. \A s \in Slots : T[s] # Absent
  BY <1>1 DEF Present
<1>6. Overfilled(T, k, g[cap])
  BY <1>2, <1>3, <1>4, <1>5, WalkOverfills
<1>7. /\ elems' = g[cap].elems /\ answer' = [op |-> "insert", key |-> k, res |-> "full"]
      /\ refused' = TRUE
  BY <1>2, <1>6 DEF Insert, Answer, Overfilled
<1>8. TableInv'
  BY <1>6, <1>7 DEF TableInv, Overfilled
<1>9. PICK out : out = g[cap].key
  OBVIOUS
<1>10. /\ Table(U) /\ ~Has(U, out)
       /\ \A z : Has(U, z) \/ z = out <=> Has(T, z) \/ z = k
  BY <1>1, <1>6, <1>7, <1>9 DEF Overfilled
<1>11. /\ \A z : z \in Stored' <=> Has(U, z)
       /\ \A z : z \in Stored <=> Has(T, z)
  BY <1>1, StoredIs DEF Stored, Present, Has
<1>12. out \in Stored \cup {k} /\ Stored' = (Stored \cup {k}) \ {out}
  BY <1>10, <1>11
<1>13. Cardinality(Stored) = cap
  <2>1. Stored = {T[s].key : s \in {t \in Slots : T[t] # Absent}}
    BY <1>1 DEF Stored, Present
  <2>2. QED
    BY <1>3, <1>5, <2>1, AsManyKeys DEF Table
<1>14. QED
  BY <1>7, <1>8, <1>12, <1>13

\* ht_delete of a key that is in the table, and of one that is not.
LEMMA DeleteRemoves ==
  ASSUME TableInv, ~DeletesUnanchored, NEW k \in Keys, NEW n \in Slots, DeleteFound(k, n)
  PROVE  /\ TableInv' /\ k \in Stored /\ Stored' = Stored \ {k}
         /\ answer' = [op |-> "delete", key |-> k, res |-> "success"]
<1>1. PICK T, U : T = elems /\ U = elems'
  OBVIOUS
<1>2. PICK g : /\ g[0] = [elems |-> elems, done |-> FALSE] /\ ShiftedFrom(k, n) = g[cap - n]
               /\ \A i \in 0..(cap - n - 1) : g[i + 1] = ShiftStep(k, g[i], n + i)
  BY ShiftedFromIs
<1>3. Table(T) /\ Started(T) /\ FoundAt(k, n)
  <2>1. refused => Started(elems)
    BY DEF DeleteFound, Anchored, Ends, Started
  <2>2. QED
    BY <1>1, <2>1 DEF TableInv, DeleteFound
<1>4. T[Slot(k, n)] # Absent /\ T[Slot(k, n)].key = k /\ T[Slot(k, n)].dib = n
  BY <1>1, <1>3, FoundHere
<1>5. g[0] = [elems |-> T, done |-> FALSE]
  BY <1>1, <1>2
<1>6. g[cap - n].done /\ Removed(T, k, g[cap - n].elems)
  BY <1>2, <1>3, <1>4, <1>5, ShiftRemoves
<1>7. /\ elems' = g[cap - n].elems /\ answer' = [op |-> "delete", key |-> k, res |-> "success"]
      /\ refused' = refused
  BY <1>2, <1>6 DEF DeleteFound, Answer
<1>8. Table(U) /\ Started(U) /\ \A z : Has(U, z) <=> Has(T, z) /\ z # k
  BY <1>1, <1>6, <1>7 DEF Removed
<1>9. TableInv'
  BY <1>1, <1>7, <1>8 DEF TableInv
<1>10. Stored' = Stored \ {k}
  <2>1. \A z : z \in Stored' <=> Has(U, z)
    BY <1>1 DEF Stored, Present, Has
  <2>2. \A z : z \in Stored <=> Has(T, z)
    BY <1>1, StoredIs
  <2>3. QED
    BY <1>8, <2>1, <2>2
<1>11. k \in Stored
  <2>1. k \in Nat /\ n \in Nat
    BY CapType DEF Slots
  <2>2. Slot(k, n) \in Slots
    BY <2>1, SlotType
  <2>3. Has(T, k)
    BY <1>4, <2>2 DEF Has
  <2>4. QED
    BY <1>1, <2>3, StoredIs
<1>12. QED
  BY <1>7, <1>9, <1>10, <1>11

LEMMA FoundIsStored ==
  ASSUME TableInv, NEW k \in Keys
  PROVE  Found(k) <=> k \in Stored
BY FoundIs, StoredIs DEF TableInv

LEMMA Unchanged ==
  ASSUME TableInv, UNCHANGED <<elems, refused>>
  PROVE  TableInv' /\ Stored' = Stored
BY DEF TableInv, Stored, Present

\* Every step is one of the dictionary's, or changes nothing.
LEMMA StepImplements ==
  ASSUME ~DeletesUnanchored, TableInv, [Next]_vars
  PROVE  TableInv' /\ [Abs!Next]_(Abs!vars)
<1>1. CASE UNCHANGED vars
  BY <1>1, Unchanged DEF vars, Abs!vars
<1>2. ASSUME NEW k \in Keys, Insert(k) PROVE TableInv' /\ [Abs!Next]_(Abs!vars)
  <2>1. CASE k \in Stored
    <3>1. /\ elems' = elems /\ refused' = refused
          /\ answer' = [op |-> "insert", key |-> k, res |-> "exists"]
      BY <1>2, <2>1, InsertMeets
    <3>2. TableInv' /\ Stored' = Stored
      BY <3>1, Unchanged
    <3>3. Abs!Insert(k)
      BY <2>1, <3>1, <3>2 DEF Abs!Insert, Abs!Answer
    <3>4. QED
      BY <3>2, <3>3 DEF Abs!Next
  <2>2. CASE k \notin Stored /\ Present # Slots
    <3>1. /\ TableInv' /\ Cardinality(Stored) < cap /\ Stored' = Stored \cup {k}
          /\ answer' = [op |-> "insert", key |-> k, res |-> "success"]
      BY <1>2, <2>2, InsertStores
    <3>2. Abs!Insert(k)
      <4>1. Abs!Answer("insert", k, "success")
        BY <3>1 DEF Abs!Answer
      <4>2. QED
        BY <2>2, <3>1, <4>1 DEF Abs!Insert, Abs!Cardinality, Cardinality
    <3>3. QED
      BY <3>1, <3>2 DEF Abs!Next
  <2>3. CASE k \notin Stored /\ Present = Slots
    <3>1. /\ TableInv' /\ Cardinality(Stored) = cap
          /\ \E out \in Stored \cup {k} : Stored' = (Stored \cup {k}) \ {out}
          /\ answer' = [op |-> "insert", key |-> k, res |-> "full"]
      BY <1>2, <2>3, InsertRefuses
    <3>2. Abs!Refuse(k)
      <4>1. Abs!Answer("insert", k, "full")
        BY <3>1 DEF Abs!Answer
      <4>2. QED
        BY <2>3, <3>1, <4>1 DEF Abs!Refuse, Abs!Cardinality, Cardinality
    <3>3. QED
      BY <3>1, <3>2 DEF Abs!Next
  <2>4. QED
    BY <2>1, <2>2, <2>3
<1>3. ASSUME NEW k \in Keys, Get(k) PROVE TableInv' /\ [Abs!Next]_(Abs!vars)
  <2>1. TableInv' /\ Stored' = Stored
    BY <1>3, Unchanged DEF Get
  <2>2. Abs!Get(k)
    BY <1>3, <2>1, FoundIsStored DEF Get, Answer, Abs!Get, Abs!Answer
  <2>3. QED
    BY <2>1, <2>2 DEF Abs!Next
<1>4. ASSUME NEW k \in Keys, NEW n \in Slots, DeleteFound(k, n)
      PROVE  TableInv' /\ [Abs!Next]_(Abs!vars)
  <2>1. /\ TableInv' /\ k \in Stored /\ Stored' = Stored \ {k}
        /\ answer' = [op |-> "delete", key |-> k, res |-> "success"]
    BY <1>4, DeleteRemoves
  <2>2. Abs!Delete(k)
    BY <2>1 DEF Abs!Delete, Abs!Answer
  <2>3. QED
    BY <2>1, <2>2 DEF Abs!Next
<1>5. ASSUME NEW k \in Keys, DeleteMissing(k) PROVE TableInv' /\ [Abs!Next]_(Abs!vars)
  <2>1. TableInv' /\ Stored' = Stored /\ k \notin Stored
    BY <1>5, FoundIsStored, Unchanged DEF DeleteMissing
  <2>2. Stored' = Stored \ {k}
    BY <2>1
  <2>3. answer' = [op |-> "delete", key |-> k, res |-> "doesnt_exist"]
    BY <1>5 DEF DeleteMissing, Answer
  <2>4. Abs!Delete(k)
    BY <2>1, <2>2, <2>3 DEF Abs!Delete, Abs!Answer
  <2>5. QED
    BY <2>1, <2>4 DEF Abs!Next
<1>6. QED
  BY <1>1, <1>2, <1>3, <1>4, <1>5 DEF Next

LEMMA InitImplements == Init => Abs!Init
<1> SUFFICES ASSUME Init PROVE Abs!Init
  OBVIOUS
<1>1. Stored = {}
  BY DEF Init, Stored, Present
<1>2. QED
  BY <1>1 DEF Init, Abs!Init, Abs!NoAnswer

-----------------------------------------------------------------------------
\* In a table of any capacity, whatever was inserted, refused and deleted: every
\* entry is as far from its home as its dib says, with no hole on the way and past
\* no entry nearer to its own home, so that ht_insert, ht_get and ht_delete may
\* give up where they do (robin_hood_ht.h:82-258).  After a refusal this is said
\* of callers that do not delete while every entry is displaced: the shift of such
\* a delete comes round the table and leaves a key there twice.
THEOREM DibsHold == ~DeletesUnanchored => (Spec => []DibInvariant)
<1> SUFFICES ASSUME ~DeletesUnanchored PROVE Spec => []DibInvariant
  OBVIOUS
<1>1. TableInv /\ [Next]_vars => TableInv'
  BY StepImplements
<1>2. QED
  BY <1>1, InitTable, TableIsDib, PTL DEF Spec

\* For any capacity and any keys, every answer of such a table is a dictionary's:
\* no walk gives up before a key it should find, a key that was refused costs the
\* table one key at most, and a shift ends before it comes round the table, always
\* as long as no key was refused (ht_insert, ht_get, ht_delete).
THEOREM Implementation == ~DeletesUnanchored => (Spec => ImplementsDictionary)
<1> SUFFICES ASSUME ~DeletesUnanchored PROVE Spec => ImplementsDictionary
  OBVIOUS
<1>1. TableInv /\ [Next]_vars => TableInv' /\ [Abs!Next]_(Abs!vars)
  BY StepImplements
<1>2. Spec => Abs!Spec
  BY <1>1, InitTable, InitImplements, PTL DEF Spec, Abs!Spec
<1>3. QED
  BY <1>2 DEF ImplementsDictionary

=============================================================================
