--------------------------- MODULE HashMap_proofs ---------------------------
(***************************************************************************)
(* Lemmas about the open-addressing table of HashMap, for every size of    *)
(* the table.                                                              *)
(***************************************************************************)
EXTENDS HashMap, Cycles_proofs

(* The turn a walk stops in. *)
LEMMA FirstOfIsLeast ==
  ASSUME NEW T \in SUBSET Nat, T # {}
  PROVE  FirstOf(T) \in T /\ \A j \in T : FirstOf(T) <= j
BY NatLeast DEF FirstOf

-----------------------------------------------------------------------------
(* The slots a walk looks at. *)
LEMMA SlotType ==
  ASSUME NEW id \in Nat, NEW k \in Nat
  PROVE  Slot(id, k) \in Slots
BY HashMapAssumption DEF Slot, Slots

(* A walk starts at the slot the identifier hashes to. *)
LEMMA HomeSlot ==
  ASSUME NEW id \in Nat
  PROVE  Slot(id, 0) = id % HASHMAP_AMOUNT
BY DEF Slot

(* A walk of HASHMAP_AMOUNT turns looks at every slot ... *)
LEMMA WalkIsOnto ==
  ASSUME NEW id \in Nat, NEW i \in Slots
  PROVE  \E k \in Turns : Slot(id, k) = i
BY HashMapAssumption, CycleIsOnto DEF Turns, Slots, Slot

(* ... once. *)
LEMMA WalkIsOneToOne ==
  ASSUME NEW id \in Nat, NEW j \in Turns, NEW k \in Turns, Slot(id, j) = Slot(id, k)
  PROVE  j = k
BY HashMapAssumption, CycleIsOneToOne DEF Turns, Slot

(* Cutting a counter to a multiple of the table's size keeps its home slot. *)
LEMMA HomeOfTruncated ==
  ASSUME NEW c \in Nat, NEW m \in Nat \ {0}, m % HASHMAP_AMOUNT = 0
  PROVE  c % m \in 0 .. m - 1 /\ (c % m) % HASHMAP_AMOUNT = c % HASHMAP_AMOUNT
<1> DEFINE n == HASHMAP_AMOUNT
           e == m \div n
           q == c \div m
           r == c % m
           p == r \div n
           h == r % n
<1>1. n \in Nat \ {0}
  BY HashMapAssumption
<1>2. e \in Int /\ m = n * e
  BY <1>1
<1>3. q \in Int /\ r \in 0 .. m - 1 /\ c = m * q + r
  OBVIOUS
<1>4. p \in Int /\ h \in 0 .. n - 1 /\ r = n * p + h
  BY <1>1, <1>3
<1> HIDE DEF e, q, r, p, h
<1>5. m * q = n * (e * q)
  BY <1>1, <1>2, <1>3
<1>6. c = n * (e * q + p) + h
  <2>1. n * (e * q + p) = n * (e * q) + n * p
    BY <1>1, <1>2, <1>3, <1>4
  <2>2. n * (e * q) \in Int /\ n * p \in Int
    BY <1>1, <1>2, <1>3, <1>4
  <2>3. QED
    BY <1>3, <1>4, <1>5, <2>1, <2>2
<1>7. c % n = h
  <2>1. e * q + p \in Int
    BY <1>2, <1>3, <1>4
  <2>2. QED
    BY <1>1, <1>4, <1>6, <2>1, Remainder
<1>8. QED
  BY <1>3, <1>7 DEF r, h

-----------------------------------------------------------------------------
Tables(V) == [Slots -> [entry_type : {EMPTY, FILLED, DELETED}, stream_id : Nat, value : V]]

IsHeld(map, id) == \E i \in Slots : Holds(map, i, id)

(* What every operation on a table relies on and keeps: the walk for a     *)
(* filled entry's identifier gets to it, since no slot before it is or     *)
(* becomes empty, and no identifier is filled in twice.                    *)
Reachable(map) ==
    \A i \in Slots : map[i].entry_type = FILLED =>
        \E k \in Turns : Slot(map[i].stream_id, k) = i /\ Reaches(map, map[i].stream_id, k)

Distinct(map) ==
    \A i, j \in Slots :
        map[i].entry_type = FILLED /\ map[j].entry_type = FILLED
        /\ map[i].stream_id = map[j].stream_id => i = j

Consistent(map) == Reachable(map) /\ Distinct(map)

(* The three types of an entry are different. *)
LEMMA TypesDiffer == EMPTY # FILLED /\ EMPTY # DELETED /\ FILLED # DELETED
BY DEF EMPTY, FILLED, DELETED

(* The turns of a walk are numbers from 0 on. *)
LEMMA TurnsAreNat == Turns \subseteq Nat /\ 0 \in Turns
BY HashMapAssumption DEF Turns

(* The empty table, of hashmap_init. *)
LEMMA EmptyMapConsistent ==
  ASSUME NEW V, NoValue \in V
  PROVE  /\ EmptyMap \in Tables(V)
         /\ Consistent(EmptyMap)
         /\ \A i \in Slots : EmptyMap[i].entry_type # FILLED
BY TypesDiffer DEF EmptyMap, Entry, Tables, Consistent, Reachable, Distinct

(* What a walk finds is an entry with the identifier it looks for. *)
LEMMA FoundHolds ==
  ASSUME NEW map, NEW id \in Nat, Found(map, id)
  PROVE  FoundSlot(map, id) \in Slots /\ Holds(map, FoundSlot(map, id), id)
<1>1. Hits(map, id) \in SUBSET Nat /\ Hits(map, id) # {}
  BY TurnsAreNat DEF Found, Hits
<1>2. FirstOf(Hits(map, id)) \in Hits(map, id)
  BY <1>1, FirstOfIsLeast
<1>3. QED
  BY <1>1, <1>2, SlotType DEF FoundSlot, Hits

(* In a consistent table every entry is found, and is what is found. *)
LEMMA HeldIsFound ==
  ASSUME NEW map, NEW id \in Nat, Consistent(map), NEW i \in Slots, Holds(map, i, id)
  PROVE  Found(map, id) /\ FoundSlot(map, id) = i /\ FoundValue(map, id) = map[i].value
<1>1. PICK k \in Turns : Slot(id, k) = i /\ Reaches(map, id, k)
  BY DEF Holds, Consistent, Reachable
<1>2. k \in Hits(map, id)
  BY <1>1 DEF Hits
<1>3. Found(map, id)
  BY <1>2 DEF Found
<1>4. FoundSlot(map, id) = i
  BY <1>3, FoundHolds DEF Holds, Consistent, Distinct
<1>5. QED
  BY <1>3, <1>4 DEF FoundValue

(* In a consistent table find finds exactly the identifiers the table      *)
(* holds.                                                                  *)
LEMMA FoundIsHeld ==
  ASSUME NEW map, NEW id \in Nat, Consistent(map)
  PROVE  Found(map, id) <=> IsHeld(map, id)
BY FoundHolds, HeldIsFound DEF IsHeld

(* The slot insert writes to, and what it passes on its way. *)
InsertSlot(map, id) == Slot(id, FirstOf(FreeTurns(map, id)))

(* insert writes to the first slot of its walk that is not in use: the     *)
(* earlier ones all are.                                                   *)
LEMMA InsertSlotIsFree ==
  ASSUME NEW map, NEW id \in Nat, Insertable(map, id)
  PROVE  /\ InsertSlot(map, id) \in Slots
         /\ map[InsertSlot(map, id)].entry_type # FILLED
         /\ FirstOf(FreeTurns(map, id)) \in Turns
         /\ \A j \in 0 .. FirstOf(FreeTurns(map, id)) - 1 :
                map[Slot(id, j)].entry_type = FILLED
<1> DEFINE T == FreeTurns(map, id)
           f == FirstOf(T)
<1>1. T \in SUBSET Nat /\ T # {} /\ T \subseteq Turns
  BY TurnsAreNat DEF FreeTurns, Insertable
<1>2. f \in T /\ \A j \in T : f <= j
  BY <1>1, FirstOfIsLeast
<1>3. \A j \in 0 .. f - 1 : j \in Turns /\ j \notin T
  BY <1>1, <1>2, HashMapAssumption DEF Turns
<1>4. QED
  BY <1>1, <1>2, <1>3, SlotType DEF FreeTurns, InsertSlot

(* Only a full table refuses an identifier that it does not hold. *)
LEMMA NotFullIsInsertable ==
  ASSUME NEW map, NEW id \in Nat, ~IsHeld(map, id)
  PROVE  Insertable(map, id) <=> ~Full(map)
<1>1. ASSUME ~Full(map) PROVE FreeTurns(map, id) # {}
  BY <1>1, WalkIsOnto DEF Full, FreeTurns
<1>2. ASSUME Full(map) PROVE FreeTurns(map, id) = {}
  BY <1>2, SlotType, TurnsAreNat DEF Full, FreeTurns
<1>3. ASSUME FreeTurns(map, id) # {},
             NEW j \in 0 .. FirstOf(FreeTurns(map, id)) - 1
      PROVE  ~Holds(map, Slot(id, j), id)
  <2>1. j \in Nat
    <3>1. FreeTurns(map, id) \in SUBSET Nat
      BY TurnsAreNat DEF FreeTurns
    <3>2. FirstOf(FreeTurns(map, id)) \in Nat
      BY <1>3, <3>1, FirstOfIsLeast
    <3>3. QED
      BY <3>2
  <2>2. QED
    BY <2>1, SlotType DEF IsHeld
<1>4. QED
  BY <1>1, <1>2, <1>3 DEF Insertable

(* What insert does to the entries. *)
LEMMA InsertEffect ==
  ASSUME NEW V, NEW map \in Tables(V), NEW id \in Nat, NEW v \in V, Insertable(map, id)
  PROVE  LET s == InsertSlot(map, id)
         IN  /\ Insert(map, id, v) \in Tables(V)
             /\ Insert(map, id, v)[s] = Entry(FILLED, id, v)
             /\ \A i \in Slots \ {s} : Insert(map, id, v)[i] = map[i]
BY InsertSlotIsFree DEF Insert, InsertSlot, Tables, Entry

(* What remove does to the entries. *)
LEMMA RemoveEffect ==
  ASSUME NEW V, NoValue \in V, NEW map \in Tables(V), NEW id \in Nat, Found(map, id)
  PROVE  LET s == FoundSlot(map, id)
         IN  /\ Remove(map, id) \in Tables(V)
             /\ Remove(map, id)[s] = Entry(DELETED, 0, NoValue)
             /\ \A i \in Slots \ {s} : Remove(map, id)[i] = map[i]
BY FoundHolds DEF Remove, Tables, Entry

(* A table whose slots change from one consistent state to another without *)
(* becoming empty keeps its walks. *)
LEMMA WalksStay ==
  ASSUME NEW map, NEW new, NEW id \in Nat, NEW k \in Nat, Reaches(map, id, k),
         \A i \in Slots : map[i].entry_type # EMPTY => new[i].entry_type # EMPTY
  PROVE  Reaches(new, id, k)
BY SlotType DEF Reaches

(* insert keeps the walks, even of an identifier that is filled in twice. *)
LEMMA InsertReachable ==
  ASSUME NEW V, NEW map \in Tables(V), NEW id \in Nat, NEW v \in V,
         Reachable(map), Insertable(map, id)
  PROVE  Reachable(Insert(map, id, v))
<1> DEFINE s   == InsertSlot(map, id)
           f   == FirstOf(FreeTurns(map, id))
           new == Insert(map, id, v)
<1>1. /\ new[s] = Entry(FILLED, id, v)
      /\ \A i \in Slots \ {s} : new[i] = map[i]
      /\ s \in Slots
  BY InsertEffect, InsertSlotIsFree
<1>2. /\ f \in Turns
      /\ s = Slot(id, f)
      /\ \A j \in 0 .. f - 1 : map[Slot(id, j)].entry_type = FILLED
  BY InsertSlotIsFree DEF InsertSlot
<1> HIDE DEF s, f, new
<1>3. \A i \in Slots : map[i].entry_type # EMPTY => new[i].entry_type # EMPTY
  BY <1>1, TypesDiffer DEF Entry
<1>4. Reaches(new, id, f)
  <2> SUFFICES ASSUME NEW j \in 0 .. f
               PROVE  new[Slot(id, j)].entry_type # EMPTY
    BY DEF Reaches
  <2>1. f \in Nat /\ j \in Nat
    BY <1>2, TurnsAreNat
  <2>2. CASE j = f
    BY <1>1, <1>2, <2>2, TypesDiffer DEF Entry
  <2>3. CASE j # f
    <3>1. j \in 0 .. f - 1
      BY <2>1, <2>3
    <3>2. map[Slot(id, j)].entry_type # EMPTY
      BY <1>2, <3>1, TypesDiffer
    <3>3. QED
      BY <1>3, <2>1, <3>2, SlotType
  <2>4. QED
    BY <2>2, <2>3
<1>5. Reachable(new)
  <2> SUFFICES ASSUME NEW i \in Slots, new[i].entry_type = FILLED
               PROVE  \E k \in Turns : /\ Slot(new[i].stream_id, k) = i
                                       /\ Reaches(new, new[i].stream_id, k)
    BY DEF Reachable
  <2>1. CASE i = s
    BY <1>1, <1>2, <1>4, <2>1 DEF Entry
  <2>2. CASE i # s
    <3>1. new[i] = map[i] /\ map[i].stream_id \in Nat
      BY <1>1, <2>2 DEF Tables
    <3>2. PICK k \in Turns : Slot(map[i].stream_id, k) = i /\ Reaches(map, map[i].stream_id, k)
      BY <3>1 DEF Reachable
    <3>3. Reaches(new, map[i].stream_id, k)
      BY <1>3, <3>1, <3>2, TurnsAreNat, WalksStay
    <3>4. QED
      BY <3>1, <3>2, <3>3
  <2>3. QED
    BY <2>1, <2>2
<1>6. QED
  BY <1>5 DEF new

(* insert keeps the table consistent and adds the identifier. *)
LEMMA InsertConsistent ==
  ASSUME NEW V, NEW map \in Tables(V), NEW id \in Nat, NEW v \in V,
         Consistent(map), Insertable(map, id), ~IsHeld(map, id)
  PROVE  /\ Consistent(Insert(map, id, v))
         /\ Holds(Insert(map, id, v), InsertSlot(map, id), id)
<1> DEFINE s   == InsertSlot(map, id)
           new == Insert(map, id, v)
<1>1. /\ new[s] = Entry(FILLED, id, v)
      /\ \A i \in Slots \ {s} : new[i] = map[i]
      /\ s \in Slots
  BY InsertEffect, InsertSlotIsFree
<1>2. Reachable(new)
  BY InsertReachable DEF Consistent
<1> HIDE DEF s, new
<1>3. Distinct(new)
  <2>1. \A i \in Slots \ {s} : new[i].entry_type = FILLED => new[i].stream_id # id
    BY <1>1 DEF IsHeld, Holds
  <2>2. QED
    BY <1>1, <2>1 DEF Consistent, Distinct, Entry
<1>4. Holds(new, s, id)
  BY <1>1 DEF Holds, Entry
<1>5. QED
  BY <1>2, <1>3, <1>4 DEF Consistent, s, new

(* remove leaves a tombstone, so it keeps the walks that pass it. *)
LEMMA RemoveReachable ==
  ASSUME NEW V, NoValue \in V, NEW map \in Tables(V), NEW id \in Nat, Reachable(map)
  PROVE  Reachable(Remove(map, id))
<1> DEFINE new == Remove(map, id)
           s   == FoundSlot(map, id)
<1>1. CASE ~Found(map, id)
  BY <1>1 DEF Remove
<1>2. CASE Found(map, id)
  <2>1. /\ new[s] = Entry(DELETED, 0, NoValue)
        /\ \A i \in Slots \ {s} : new[i] = map[i]
        /\ s \in Slots
    BY <1>2, RemoveEffect, FoundHolds
  <2> HIDE DEF new, s
  <2>2. \A i \in Slots : map[i].entry_type # EMPTY => new[i].entry_type # EMPTY
    BY <2>1, TypesDiffer DEF Entry
  <2>3. \A i \in Slots : new[i].entry_type = FILLED => i # s /\ new[i] = map[i]
    BY <2>1, TypesDiffer DEF Entry
  <2> SUFFICES ASSUME NEW i \in Slots, new[i].entry_type = FILLED
               PROVE  \E k \in Turns : /\ Slot(new[i].stream_id, k) = i
                                       /\ Reaches(new, new[i].stream_id, k)
    BY DEF Reachable, new
  <2>4. new[i] = map[i] /\ map[i].stream_id \in Nat
    BY <2>3 DEF Tables
  <2>5. PICK k \in Turns : Slot(map[i].stream_id, k) = i /\ Reaches(map, map[i].stream_id, k)
    BY <2>4 DEF Reachable
  <2>6. Reaches(new, map[i].stream_id, k)
    BY <2>2, <2>4, <2>5, TurnsAreNat, WalksStay
  <2>7. QED
    BY <2>4, <2>5, <2>6
<1>3. QED
  BY <1>1, <1>2

(* remove keeps the table consistent, and the identifier is gone. *)
LEMMA RemoveConsistent ==
  ASSUME NEW V, NoValue \in V, NEW map \in Tables(V), NEW id \in Nat,
         Consistent(map)
  PROVE  /\ Remove(map, id) \in Tables(V)
         /\ Consistent(Remove(map, id))
         /\ \A i \in Slots, x \in Nat :
                Holds(Remove(map, id), i, x) <=> Holds(map, i, x) /\ x # id
         /\ \A i \in Slots : map[i].entry_type = FILLED /\ map[i].stream_id # id =>
                                Remove(map, id)[i] = map[i]
<1> DEFINE new == Remove(map, id)
           s   == FoundSlot(map, id)
<1>1. CASE ~Found(map, id)
  <2>1. new = map
    BY <1>1 DEF Remove
  <2>2. ~IsHeld(map, id)
    BY <1>1, FoundIsHeld
  <2>3. QED
    BY <2>1, <2>2 DEF IsHeld, Holds
<1>2. CASE Found(map, id)
  <2>1. /\ new \in Tables(V)
        /\ new[s] = Entry(DELETED, 0, NoValue)
        /\ \A i \in Slots \ {s} : new[i] = map[i]
        /\ s \in Slots
        /\ Holds(map, s, id)
    BY <1>2, RemoveEffect, FoundHolds
  <2> HIDE DEF new, s
  <2>3. \A i \in Slots : new[i].entry_type = FILLED => i # s /\ new[i] = map[i]
    BY <2>1, TypesDiffer DEF Entry
  <2>4. Reachable(new)
    BY RemoveReachable DEF Consistent, new
  <2>5. Distinct(new)
    BY <2>3 DEF Consistent, Distinct
  <2>6. \A i \in Slots : Holds(map, i, id) <=> i = s
    BY <2>1 DEF Consistent, Distinct, Holds
  <2>7. \A i \in Slots, x \in Nat : Holds(new, i, x) <=> Holds(map, i, x) /\ x # id
    BY <2>1, <2>3, <2>6 DEF Holds
  <2>8. \A i \in Slots : map[i].entry_type = FILLED /\ map[i].stream_id # id => new[i] = map[i]
    BY <2>1 DEF Holds
  <2>9. QED
    BY <2>1, <2>4, <2>5, <2>7, <2>8 DEF Consistent, new
<1>3. QED
  BY <1>1, <1>2
-----------------------------------------------------------------------------
(* The slots in use, and what the operations change of them. *)
Filled(map) == {i \in Slots : map[i].entry_type = FILLED}

LEMMA HeldIsFilled ==
  ASSUME NEW map, NEW id
  PROVE  IsHeld(map, id) <=> \E i \in Filled(map) : map[i].stream_id = id
BY DEF IsHeld, Holds, Filled

(* insert fills one slot that was not. *)
LEMMA InsertFills ==
  ASSUME NEW V, NEW map \in Tables(V), NEW id \in Nat, NEW v \in V, Insertable(map, id)
  PROVE  LET s == InsertSlot(map, id)
             new == Insert(map, id, v)
         IN  /\ new \in Tables(V)
             /\ s \in Slots /\ s \notin Filled(map)
             /\ Filled(new) = Filled(map) \cup {s}
             /\ new[s].stream_id = id /\ new[s].value = v
             /\ \A i \in Filled(map) : new[i] = map[i]
<1> DEFINE s   == InsertSlot(map, id)
           new == Insert(map, id, v)
<1>1. /\ new \in Tables(V)
      /\ new[s] = Entry(FILLED, id, v)
      /\ \A i \in Slots \ {s} : new[i] = map[i]
      /\ s \in Slots /\ map[s].entry_type # FILLED
  BY InsertEffect, InsertSlotIsFree
<1> HIDE DEF s, new
<1>2. new[s].entry_type = FILLED /\ new[s].stream_id = id /\ new[s].value = v
  BY <1>1 DEF Entry
<1>3. Filled(new) = Filled(map) \cup {s}
  BY <1>1, <1>2 DEF Filled
<1>4. QED
  BY <1>1, <1>2, <1>3 DEF Filled, s, new

(* remove frees the slot that find finds. *)
LEMMA RemoveFrees ==
  ASSUME NEW V, NoValue \in V, NEW map \in Tables(V), NEW id \in Nat, Found(map, id)
  PROVE  LET s == FoundSlot(map, id)
             new == Remove(map, id)
         IN  /\ new \in Tables(V)
             /\ s \in Filled(map) /\ map[s].stream_id = id
             /\ Filled(new) = Filled(map) \ {s}
             /\ \A i \in Filled(new) : new[i] = map[i]
<1> DEFINE s   == FoundSlot(map, id)
           new == Remove(map, id)
<1>1. /\ new \in Tables(V)
      /\ new[s] = Entry(DELETED, 0, NoValue)
      /\ \A i \in Slots \ {s} : new[i] = map[i]
      /\ s \in Slots /\ map[s].entry_type = FILLED /\ map[s].stream_id = id
  BY RemoveEffect, FoundHolds DEF Holds
<1> HIDE DEF s, new
<1>2. new[s].entry_type # FILLED
  BY <1>1, TypesDiffer DEF Entry
<1>3. Filled(new) = Filled(map) \ {s}
  BY <1>1, <1>2 DEF Filled
<1>4. QED
  BY <1>1, <1>3 DEF Filled, s, new

(* A changed value leaves the entry where it is. *)
LEMMA SetValueKeeps ==
  ASSUME NEW V, NEW map \in Tables(V), NEW id \in Nat, NEW v \in V, Found(map, id)
  PROVE  LET s == FoundSlot(map, id)
             new == SetValue(map, id, v)
         IN  /\ new \in Tables(V)
             /\ s \in Filled(map) /\ map[s].stream_id = id
             /\ Filled(new) = Filled(map)
             /\ new[s].value = v
             /\ \A i \in Slots : /\ new[i].stream_id = map[i].stream_id
                                 /\ i # s => new[i] = map[i]
<1> DEFINE s   == FoundSlot(map, id)
           new == SetValue(map, id, v)
<1>1. s \in Slots /\ map[s].entry_type = FILLED /\ map[s].stream_id = id
  BY FoundHolds DEF Holds
<1>2. new = [map EXCEPT ![s] = [map[s] EXCEPT !.value = v]]
  BY DEF SetValue
<1> HIDE DEF s, new
<1>3. /\ new[s] = [map[s] EXCEPT !.value = v]
      /\ \A i \in Slots \ {s} : new[i] = map[i]
      /\ new \in Tables(V)
  BY <1>1, <1>2 DEF Tables
<1>4. /\ new[s].value = v
      /\ \A i \in Slots : /\ new[i].stream_id = map[i].stream_id
                          /\ new[i].entry_type = map[i].entry_type
  BY <1>1, <1>3 DEF Tables
<1>5. QED
  BY <1>1, <1>3, <1>4 DEF Filled, s, new

(* A table of which every entry is in its home slot is consistent. *)
HomeOnly(map) == \A i \in Filled(map) : i = map[i].stream_id % HASHMAP_AMOUNT

LEMMA HomeOnlyConsistent ==
  ASSUME NEW V, NEW map \in Tables(V), HomeOnly(map)
  PROVE  Consistent(map)
<1>1. Distinct(map)
  BY DEF Distinct, HomeOnly, Filled
<1>2. ASSUME NEW i \in Slots, map[i].entry_type = FILLED
      PROVE  \E k \in Turns : Slot(map[i].stream_id, k) = i /\ Reaches(map, map[i].stream_id, k)
  <2>1. map[i].stream_id \in Nat
    BY DEF Tables
  <2>2. Slot(map[i].stream_id, 0) = i
    BY <1>2, <2>1, HomeSlot DEF HomeOnly, Filled
  <2>3. Reaches(map, map[i].stream_id, 0)
    BY <1>2, <2>2, TypesDiffer DEF Reaches
  <2>4. QED
    BY <2>2, <2>3, TurnsAreNat
<1>3. QED
  BY <1>1, <1>2 DEF Consistent, Reachable

(* gen_stream_id finds a number unless the table is full, and its home slot *)
(* is free. *)
LEMMA GenStreamId ==
  ASSUME NEW map, ~Full(map), NEW n \in Nat
  PROVE  /\ gen_stream_id(map, n) \in Nat
         /\ map[gen_stream_id(map, n) % HASHMAP_AMOUNT].entry_type # FILLED
<1> DEFINE C == Candidates(map, n)
<1>1. PICK i \in Slots : map[i].entry_type # FILLED
  BY DEF Full
<1>2. PICK k \in Turns : Slot(n, k) = i
  BY WalkIsOnto
<1>3. n + k \in C
  BY <1>1, <1>2, HashMapAssumption DEF Candidates, Slot, Turns
<1>4. C \in SUBSET Nat
  BY HashMapAssumption DEF Candidates
<1>5. FirstOf(C) \in C
  BY <1>3, <1>4, FirstOfIsLeast
<1>6. QED
  BY <1>4, <1>5 DEF gen_stream_id, Candidates

(* An identifier whose home slot is free is in no entry, and goes there. *)
LEMMA FreeHome ==
  ASSUME NEW map, HomeOnly(map), NEW id \in Nat,
         map[id % HASHMAP_AMOUNT].entry_type # FILLED
  PROVE  /\ ~IsHeld(map, id)
         /\ Insertable(map, id)
         /\ InsertSlot(map, id) = id % HASHMAP_AMOUNT
<1>1. ~IsHeld(map, id)
  BY DEF HomeOnly, Filled, IsHeld, Holds
<1>2. 0 \in FreeTurns(map, id)
  BY TurnsAreNat, HomeSlot DEF FreeTurns
<1>3. FirstOf(FreeTurns(map, id)) = 0
  <2>1. FreeTurns(map, id) \in SUBSET Nat
    BY TurnsAreNat DEF FreeTurns
  <2>2. FirstOf(FreeTurns(map, id)) \in Nat /\ FirstOf(FreeTurns(map, id)) <= 0
    BY <1>2, <2>1, FirstOfIsLeast
  <2>3. QED
    BY <2>2
<1>4. Insertable(map, id)
  BY <1>2, <1>3 DEF Insertable
<1>5. QED
  BY <1>1, <1>3, <1>4, HomeSlot DEF InsertSlot
=============================================================================
