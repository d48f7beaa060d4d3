----------------------- MODULE DirectoryServer_proofs -----------------------
(***************************************************************************)
(* Proofs about the directory server: first its table (RelayManager), for  *)
(* every set of addresses and descriptors and every number of              *)
(* registrations, with the maps that clients are sent (ClientHandler),     *)
(* then the sessions of relays (DirectoryServer), for every number of *)
(* relays and addresses, every number of broken connections, crashes and   *)
(* exits of the server.  What is added in the second part is the argument  *)
(* across a session, whose handlers use the table in several steps with    *)
(* other sessions in between.                                              *)
(***************************************************************************)
EXTENDS DirectoryServer, ClientHandler, SequenceTheorems, FiniteSetTheorems, Cycles_proofs

(* The inductive invariant: the types, the partition of the identifiers    *)
(* and the array bounds.  The bounds need the partition (the slot appended *)
(* to is new, the popped identifier lies below max_item_index) and the     *)
(* partition needs the bounds, so neither is inductive alone.  A live      *)
(* table also has at least one slot, or doubling it would not grow it.     *)
TableInv ==
    /\ ManagerTypeOK
    /\ IdsPartitioned
    /\ InsideArrays
    /\ initialized => items_length > 0 /\ stack_length > 0
    /\ max_item_index \in 0 .. items_length

(* init_relay_manager leaves a consistent empty table. *)
LEMMA InitTable == ManagerInit => TableInv
BY DEF ManagerInit, TableInv, ManagerTypeOK, IdsPartitioned, InsideArrays, ItemSlots,
       OnStack, RelayData, RELAY_ITEMS_MIN_LENGTH, RELAY_STACK_MIN_LENGTH

(* free_relay_manager leaves an empty table of length 0. *)
LEMMA FreeTable == TableInv /\ FreeRelayManager => TableInv'
<1> SUFFICES ASSUME TableInv, FreeRelayManager
             PROVE  TableInv'
  OBVIOUS
<1>1. ItemSlots' = {} /\ items_length' = 0 /\ max_item_index' = 0
  BY DEF FreeRelayManager, ItemSlots
<1>2. removed_id_stack' \in Seq(Nat) /\ Len(removed_id_stack') = 0 /\ stack_length' = 0
  BY DEF FreeRelayManager
<1>3. items' \in [ItemSlots' -> Objects \cup {NULL}]
  BY <1>1 DEF FreeRelayManager
<1>4. ManagerTypeOK'
  <2>1. initialized' \in BOOLEAN
    BY Zenon DEF FreeRelayManager
  <2>2. data' \in [Objects -> RelayData]
    BY DEF FreeRelayManager, TableInv, ManagerTypeOK
  <2>3. QED
    BY <1>1, <1>2, <1>3, <2>1, <2>2 DEF ManagerTypeOK
<1>5. QED
  BY <1>1, <1>2, <1>4 DEF FreeRelayManager, TableInv, IdsPartitioned, InsideArrays, OnStack

(* gen_relay's append keeps the table consistent, across a doubling too. *)
LEMMA AppendTable ==
  ASSUME TableInv, initialized, NEW p \in Objects, AppendRelay(p)
  PROVE  TableInv'
<1> USE ObjectsAssumption
<1>1. /\ GrownLength \in Nat
      /\ GrownLength >= items_length
      /\ max_item_index < GrownLength
  BY DEF GrownLength, TableInv, ManagerTypeOK
<1>2. /\ items' \in [0 .. GrownLength - 1 -> Objects \cup {NULL}]
      /\ items'[max_item_index] = p
      /\ \A i \in 0 .. GrownLength - 1 : i # max_item_index =>
            items'[i] = IF i \in ItemSlots THEN items[i] ELSE NULL
  BY <1>1 DEF AppendRelay, GrownItems, TableInv, ManagerTypeOK, ItemSlots
<1>3. ItemSlots' = 0 .. GrownLength - 1
  BY DEF AppendRelay, ItemSlots
<1>4. data' \in [Objects -> RelayData]
  BY DEF AppendRelay, Calloc, RelayData, TableInv, ManagerTypeOK
<1>5. ManagerTypeOK'
  BY <1>1, <1>2, <1>3, <1>4 DEF AppendRelay, TableInv, ManagerTypeOK
<1>6. InsideArrays'
  BY <1>1 DEF AppendRelay, TableInv, ManagerTypeOK, InsideArrays
<1>7. \A i : ~OnStack(i) /\ ~OnStack(i)'
  BY DEF AppendRelay, OnStack
<1>8. \A i \in ItemSlots' : i < max_item_index' <=> items'[i] # NULL
  <2> SUFFICES ASSUME NEW i \in ItemSlots'
               PROVE  i < max_item_index' <=> items'[i] # NULL
    OBVIOUS
  <2>1. CASE i = max_item_index
    BY <1>2, <2>1 DEF AppendRelay, TableInv, ManagerTypeOK
  <2>2. CASE i # max_item_index /\ i \in ItemSlots
    BY <1>1, <1>2, <1>3, <1>7, <2>2
    DEF AppendRelay, TableInv, ManagerTypeOK, IdsPartitioned, ItemSlots
  <2>3. CASE i # max_item_index /\ i \notin ItemSlots
    BY <1>1, <1>2, <1>3, <2>3
    DEF AppendRelay, TableInv, ManagerTypeOK, InsideArrays, ItemSlots
  <2>4. QED
    BY <2>1, <2>2, <2>3
<1>9. IdsPartitioned'
  BY <1>7, <1>8 DEF AppendRelay, IdsPartitioned
<1>10. QED
  BY <1>1, <1>5, <1>6, <1>9 DEF AppendRelay, TableInv, ManagerTypeOK

(* gen_relay's pop takes an identifier that no registered relay has. *)
LEMMA ReuseTable ==
  ASSUME TableInv, NEW p \in Objects, ReuseRelay(p)
  PROVE  TableInv'
<1> DEFINE n  == Len(removed_id_stack)
           id == removed_id_stack[n]
<1> USE ObjectsAssumption
<1>1. /\ n \in Nat \ {0}
      /\ removed_id_stack' \in Seq(Nat)
      /\ Len(removed_id_stack') = n - 1
      /\ \A k \in 1 .. n - 1 : removed_id_stack'[k] = removed_id_stack[k]
  <2>1. removed_id_stack \in Seq(Nat) /\ removed_id_stack # <<>>
    BY DEF ReuseRelay, TableInv, ManagerTypeOK
  <2>2. n \in Nat \ {0}
    BY <2>1, EmptySeq, LenProperties
  <2>3. removed_id_stack' = SubSeq(removed_id_stack, 1, n - 1)
    BY DEF ReuseRelay, max_stack_index
  <2>4. \A k \in 1 .. n - 1 : removed_id_stack[k] \in Nat
    BY <2>1, <2>2, ElementOfSeq
  <2> HIDE DEF n
  <2>5. /\ removed_id_stack' \in Seq(Nat)
        /\ Len(removed_id_stack') = IF 1 <= n - 1 THEN (n - 1) - 1 + 1 ELSE 0
        /\ \A k \in 1 .. (n - 1) - 1 + 1 : removed_id_stack'[k] = removed_id_stack[1 + k - 1]
    <3>1. 1 \in Int /\ n - 1 \in Int
      BY <2>2
    <3>2. QED
      BY ONLY <2>3, <2>4, <3>1, SubSeqProperties
  <2>6. QED
    BY <2>2, <2>5
<1>2. /\ id \in Nat
      /\ id < max_item_index
      /\ id \in ItemSlots
  BY <1>1 DEF TableInv, ManagerTypeOK, InsideArrays, ItemSlots
<1>3. /\ items' = [items EXCEPT ![id] = p]
      /\ items' \in [ItemSlots -> Objects \cup {NULL}]
  BY <1>2 DEF ReuseRelay, max_stack_index, TableInv, ManagerTypeOK
<1>4. data' \in [Objects -> RelayData]
  BY <1>2 DEF ReuseRelay, max_stack_index, Calloc, RelayData, TableInv, ManagerTypeOK
<1>5. ItemSlots' = ItemSlots /\ max_item_index' = max_item_index
  BY DEF ReuseRelay, ItemSlots
<1>6. ManagerTypeOK'
  BY <1>1, <1>3, <1>4, <1>5 DEF ReuseRelay, TableInv, ManagerTypeOK
<1>7. InsideArrays'
  BY <1>1, <1>5 DEF ReuseRelay, TableInv, ManagerTypeOK, InsideArrays
<1>8. \A i : OnStack(i)' <=> OnStack(i) /\ i # id
  BY <1>1 DEF OnStack, TableInv, IdsPartitioned
<1>9. \A i \in ItemSlots : items'[i] # NULL <=> items[i] # NULL \/ i = id
  BY <1>2, <1>3 DEF TableInv, ManagerTypeOK
<1>10. OnStack(id)
  BY <1>1 DEF OnStack
<1>11. IdsPartitioned'
  BY <1>1, <1>2, <1>5, <1>8, <1>9, <1>10 DEF TableInv, IdsPartitioned
<1>12. QED
  BY <1>5, <1>6, <1>7, <1>11 DEF ReuseRelay, TableInv

(* remove_relay pushes an identifier that was not on the stack. *)
LEMMA RemoveTable ==
  ASSUME TableInv, initialized, NEW id \in ItemSlots, RemoveRelay(id)
  PROVE  TableInv'
<1> DEFINE n == Len(removed_id_stack)
<1>1. /\ n \in Nat
      /\ id \in Nat
      /\ removed_id_stack' \in Seq(Nat)
      /\ Len(removed_id_stack') = n + 1
      /\ removed_id_stack'[n + 1] = id
      /\ \A k \in 1 .. n : removed_id_stack'[k] = removed_id_stack[k]
  BY DEF RemoveRelay, TableInv, ManagerTypeOK, ItemSlots
<1>2. /\ items[id] # NULL
      /\ items' = [items EXCEPT ![id] = NULL]
      /\ items' \in [ItemSlots -> Objects \cup {NULL}]
  BY DEF RemoveRelay, Exists, TableInv, ManagerTypeOK
<1>3. ItemSlots' = ItemSlots /\ max_item_index' = max_item_index
  BY DEF RemoveRelay, ItemSlots
<1>4. stack_length' \in Nat /\ n + 1 <= stack_length' /\ stack_length' >= stack_length
  BY <1>1 DEF RemoveRelay, TableInv, ManagerTypeOK, InsideArrays, max_stack_index
<1>5. ManagerTypeOK'
  BY <1>1, <1>2, <1>3, <1>4 DEF RemoveRelay, TableInv, ManagerTypeOK
<1>6. id < max_item_index
  BY <1>2 DEF TableInv, IdsPartitioned
<1>7. InsideArrays'
  BY <1>1, <1>3, <1>4, <1>6 DEF RemoveRelay, TableInv, ManagerTypeOK, InsideArrays
<1>8. \A i : OnStack(i)' <=> OnStack(i) \/ i = id
  BY <1>1 DEF OnStack
<1>9. \A i \in ItemSlots : items'[i] # NULL <=> items[i] # NULL /\ i # id
  BY <1>2 DEF TableInv, ManagerTypeOK
<1>10. ~OnStack(id)
  BY <1>2 DEF TableInv, IdsPartitioned
<1>11. IdsPartitioned'
  <2>1. \A i \in ItemSlots' : i < max_item_index' <=> (items'[i] # NULL \/ OnStack(i)')
    BY <1>2, <1>3, <1>6, <1>8, <1>9 DEF TableInv, IdsPartitioned
  <2>2. \A i \in ItemSlots' : ~(items'[i] # NULL /\ OnStack(i)')
    BY <1>3, <1>8, <1>9 DEF TableInv, IdsPartitioned
  <2>3. \A k \in 1 .. n : removed_id_stack[k] # id
    BY <1>10 DEF OnStack
  <2>4. \A j, k \in 1 .. Len(removed_id_stack') :
            removed_id_stack'[j] = removed_id_stack'[k] => j = k
    BY <1>1, <2>3 DEF TableInv, IdsPartitioned
  <2>5. QED
    BY <2>1, <2>2, <2>4 DEF IdsPartitioned
<1>12. QED
  BY <1>3, <1>4, <1>5, <1>7, <1>11 DEF RemoveRelay, TableInv, ManagerTypeOK

(* Every step of the manager is one of its operations. *)
LEMMA NextTable == TableInv /\ [ManagerNext]_managerVars => TableInv'
<1> SUFFICES ASSUME TableInv, [ManagerNext]_managerVars
             PROVE  TableInv'
  OBVIOUS
<1>1. ASSUME initialized, NEW p \in Objects \ LiveObjects, GenRelay(p)
      PROVE  TableInv'
  BY <1>1, AppendTable, ReuseTable DEF GenRelay
<1>2. ASSUME initialized, NEW id \in ItemSlots, RemoveRelay(id)
      PROVE  TableInv'
  BY <1>2, RemoveTable
<1>3. CASE FreeRelayManager
  BY <1>3, FreeTable
<1>4. CASE UNCHANGED managerVars
  BY <1>4 DEF managerVars, tableVars, TableInv, ManagerTypeOK, IdsPartitioned, InsideArrays,
              ItemSlots, OnStack
<1>5. QED
  BY <1>1, <1>2, <1>3, <1>4 DEF ManagerNext

(* The inductive invariant holds in every reachable state of the table: it *)
(* is what all the other results are drawn from.                           *)
THEOREM TableInvariant == ManagerSpec => []TableInv
<1>1. QED
  BY InitTable, NextTable, PTL DEF ManagerSpec

(* The variables of the manager keep their types in every reachable state  *)
(* of relay_manager.c, whatever the number of relays.                      *)
THEOREM ManagerTypes == ManagerSpec => []ManagerTypeOK
<1>1. TableInv => ManagerTypeOK
  BY DEF TableInv
<1>2. QED
  BY <1>1, TableInvariant, PTL

(* gen_relay never gives out an identifier that is in use and remove_relay *)
(* never loses one.                                                        *)
THEOREM ManagerPartition == ManagerSpec => []IdsPartitioned
<1>1. TableInv => IdsPartitioned
  BY DEF TableInv
<1>2. QED
  BY <1>1, TableInvariant, PTL

(* gen_relay and remove_relay write inside the arrays they index.          *)
THEOREM ManagerBounds == ManagerSpec => []InsideArrays
<1>1. TableInv => InsideArrays
  BY DEF TableInv
<1>2. QED
  BY <1>1, TableInvariant, PTL

-----------------------------------------------------------------------------
(* What gen_relay does to the table, whichever slot it takes: one slot that *)
(* was free points to p, which holds that slot's identifier.                *)
LEMMA GenEffect ==
  ASSUME TableInv, initialized, NEW p \in Objects, GenRelay(p)
  PROVE  \E id \in ItemSlots' :
            /\ ~Exists(id)
            /\ items'[id] = p
            /\ \A i \in ItemSlots' \ {id} : items'[i] = IF i \in ItemSlots THEN items[i] ELSE NULL
            /\ ItemSlots \subseteq ItemSlots'
            /\ data' = [data EXCEPT ![p] = [relay_id |-> id, descriptor |-> ZeroDescriptor]]
<1>1. CASE AppendRelay(p)
  <2>1. /\ GrownLength \in Nat
        /\ GrownLength >= items_length
        /\ max_item_index < GrownLength
        /\ max_item_index \in Nat
        /\ items_length \in Nat
    BY DEF GrownLength, TableInv, ManagerTypeOK
  <2>2. ItemSlots' = 0 .. GrownLength - 1
    BY <1>1 DEF AppendRelay, ItemSlots
  <2>3. max_item_index \in ItemSlots' /\ ItemSlots \subseteq ItemSlots'
    <3>1. 0 .. items_length - 1 \subseteq 0 .. GrownLength - 1
      BY <2>1
    <3>2. ItemSlots = 0 .. items_length - 1
      BY DEF ItemSlots
    <3>3. QED
      BY <2>1, <2>2, <3>1, <3>2
  <2>4. items' = [GrownItems EXCEPT ![max_item_index] = p]
    BY <1>1 DEF AppendRelay
  <2>5. GrownItems = [i \in ItemSlots' |-> IF i \in ItemSlots THEN items[i] ELSE NULL]
    BY <2>2 DEF GrownItems
  <2>6. ~Exists(max_item_index)
    <3>1. ~OnStack(max_item_index)
      BY <1>1 DEF AppendRelay, OnStack
    <3>2. QED
      BY <2>1, <3>1 DEF Exists, TableInv, IdsPartitioned
  <2>7. data' = [data EXCEPT ![p] = [relay_id |-> max_item_index, descriptor |-> ZeroDescriptor]]
    BY <1>1 DEF AppendRelay, Calloc
  <2>8. QED
    BY <2>3, <2>4, <2>5, <2>6, <2>7
<1>2. CASE ReuseRelay(p)
  <2> DEFINE id == removed_id_stack[Len(removed_id_stack)]
  <2>1. Len(removed_id_stack) \in Nat \ {0}
    BY <1>2, EmptySeq, LenProperties DEF ReuseRelay, TableInv, ManagerTypeOK
  <2>2. id \in Nat /\ id < max_item_index /\ id \in ItemSlots
    BY <2>1 DEF TableInv, ManagerTypeOK, InsideArrays, ItemSlots
  <2>3. ItemSlots' = ItemSlots
    BY <1>2 DEF ReuseRelay, ItemSlots
  <2>4. /\ items' = [items EXCEPT ![id] = p]
        /\ data' = [data EXCEPT ![p] = [relay_id |-> id, descriptor |-> ZeroDescriptor]]
    BY <1>2 DEF ReuseRelay, max_stack_index, Calloc
  <2>5. ~Exists(id)
    BY <2>1, <2>2 DEF Exists, OnStack, TableInv, IdsPartitioned
  <2>6. QED
    BY <2>2, <2>3, <2>4, <2>5 DEF TableInv, ManagerTypeOK
<1>3. QED
  BY <1>1, <1>2 DEF GenRelay

(* No operation gives two registered relays one identifier or one          *)
(* relay_data_t. *)
LEMMA NextUnique == TableInv /\ UniqueRelayId /\ [ManagerNext]_managerVars => UniqueRelayId'
<1> SUFFICES ASSUME TableInv, UniqueRelayId, [ManagerNext]_managerVars
             PROVE  UniqueRelayId'
  OBVIOUS
<1>1. ASSUME initialized, NEW p \in Objects \ LiveObjects, GenRelay(p)
      PROVE  UniqueRelayId'
  <2>1. PICK id \in ItemSlots' :
          /\ ~Exists(id)
          /\ items'[id] = p
          /\ \A i \in ItemSlots' \ {id} : items'[i] = IF i \in ItemSlots THEN items[i] ELSE NULL
          /\ data' = [data EXCEPT ![p] = [relay_id |-> id, descriptor |-> ZeroDescriptor]]
    BY <1>1, GenEffect
  <2>2. LiveIds' \subseteq LiveIds \cup {id}
    BY <2>1 DEF LiveIds
  <2>3. \A i \in LiveIds' : i # id => i \in LiveIds /\ items'[i] = items[i] /\ items[i] # p
    BY <1>1, <2>1, <2>2 DEF LiveIds, LiveObjects
  <2>4. data'[p].relay_id = id /\ \A q : q \in Objects /\ q # p => data'[q] = data[q]
    BY <1>1, <2>1 DEF TableInv, ManagerTypeOK
  <2>5. \A i \in LiveIds : items[i] \in Objects
    BY DEF TableInv, ManagerTypeOK, LiveIds
  <2>6. QED
    BY <2>1, <2>3, <2>4, <2>5 DEF UniqueRelayId
<1>2. ASSUME NEW id \in ItemSlots, RemoveRelay(id)
      PROVE  UniqueRelayId'
  <2>1. ItemSlots' = ItemSlots /\ data' = data /\ items' = [items EXCEPT ![id] = NULL]
    BY <1>2 DEF RemoveRelay, ItemSlots
  <2>2. \A i \in LiveIds' : i \in LiveIds /\ items'[i] = items[i]
    BY <2>1 DEF LiveIds, TableInv, ManagerTypeOK
  <2>3. QED
    BY <2>1, <2>2 DEF UniqueRelayId
<1>3. CASE FreeRelayManager
  BY <1>3 DEF FreeRelayManager, UniqueRelayId, LiveIds, ItemSlots
<1>4. CASE UNCHANGED managerVars
  BY <1>4 DEF managerVars, tableVars, UniqueRelayId, LiveIds, ItemSlots
<1>5. QED
  BY <1>1, <1>2, <1>3, <1>4 DEF ManagerNext

(* No two registered relays share an identifier or a relay_data_t.         *)
THEOREM ManagerUniqueIds == ManagerSpec => []UniqueRelayId
<1>1. ManagerInit => UniqueRelayId
  BY DEF ManagerInit, UniqueRelayId, LiveIds, ItemSlots
<1>2. QED
  BY <1>1, NextUnique, TableInvariant, PTL DEF ManagerSpec

-----------------------------------------------------------------------------
(* get_relay_batch's loop: NextState is one turn of it, and f the states   *)
(* it goes through in its items_length turns.                              *)
BatchStates == [out : Seq(ItemSlots), i : ItemSlots]
FirstState(start) == [out |-> <<>>, i |-> StartIndex(start)]
NextState(b, max) ==
    IF Len(b.out) >= max THEN b
    ELSE [out |-> IF items[b.i] # NULL THEN Append(b.out, b.i) ELSE b.out,
          i   |-> NextIndex(b.i)]
BatchTurn(max) == [b \in BatchStates |-> NextState(b, max)]
IsBatch(f, start, max) ==
    Turning(f, FirstState(start), BatchTurn(max), BatchStates, items_length)

(* A turn stays inside the array. *)
LEMMA BatchTypes ==
  ASSUME items_length \in Nat \ {0}, NEW start \in Nat, NEW max \in Nat
  PROVE  FirstState(start) \in BatchStates /\ BatchTurn(max) \in [BatchStates -> BatchStates]
<1>1. \A i \in Nat : StartIndex(i) \in ItemSlots /\ NextIndex(i) \in ItemSlots
  BY DEF StartIndex, NextIndex, ItemSlots
<1>2. ItemSlots \subseteq Nat
  BY DEF ItemSlots
<1>3. FirstState(start) \in BatchStates
  BY <1>1 DEF FirstState, BatchStates
<1>4. ASSUME NEW b \in BatchStates
      PROVE  [out |-> IF items[b.i] # NULL THEN Append(b.out, b.i) ELSE b.out,
              i   |-> NextIndex(b.i)] \in BatchStates
  <2>1. b.out \in Seq(ItemSlots) /\ b.i \in ItemSlots
    BY DEF BatchStates
  <2>2. Append(b.out, b.i) \in Seq(ItemSlots)
    BY <2>1, AppendProperties
  <2>3. QED
    BY <1>1, <1>2, <2>1, <2>2 DEF BatchStates
<1>5. QED
  BY <1>3, <1>4 DEF BatchTurn, NextState

(* get_relay_batch's result is the last state of its loop. *)
LEMMA BatchIs ==
  ASSUME items_length \in Nat \ {0}, NEW start \in Nat, NEW max \in Nat
  PROVE  \E f : IsBatch(f, start, max) /\ GetRelayBatch(start, max) = f[items_length]
<1> DEFINE Loop(g) ==
      [n \in 0 .. items_length |-> IF n = 0 THEN FirstState(start) ELSE NextState(g[n - 1], max)]
           batch == CHOOSE g : g = Loop(g)
<1>1. GetRelayBatch(start, max) = batch[items_length]
  BY DEF GetRelayBatch, FirstState, NextState
<1>2. FirstState(start) \in BatchStates /\ BatchTurn(max) \in [BatchStates -> BatchStates]
  BY BatchTypes
<1>3. \E g : g = Loop(g)
  <2>1. PICK f : IsBatch(f, start, max)
    BY <1>2, LoopHasStates DEF IsBatch
  <2>2. /\ f \in [0 .. items_length -> BatchStates]
        /\ f[0] = FirstState(start)
        /\ \A n \in 1 .. items_length : f[n] = BatchTurn(max)[f[n - 1]]
    BY <2>1 DEF IsBatch, Turning
  <2>3. \A n \in 1 .. items_length : f[n - 1] \in BatchStates
    BY <2>2
  <2>4. \A n \in 0 .. items_length :
           f[n] = IF n = 0 THEN FirstState(start) ELSE NextState(f[n - 1], max)
    <3>1. \A n \in 1 .. items_length : f[n] = NextState(f[n - 1], max)
      BY <2>2, <2>3 DEF BatchTurn
    <3>2. \A n \in 0 .. items_length : n = 0 \/ n \in 1 .. items_length
      OBVIOUS
    <3>3. QED
      BY <2>2, <3>1, <3>2
  <2>5. f = Loop(f)
    BY <2>2, <2>4
  <2>6. QED
    BY <2>5
<1>4. batch = Loop(batch)
  BY <1>3
<1> HIDE DEF batch
<1>5. batch[0] = FirstState(start)
  BY <1>4
<1>6. \A n \in 1 .. items_length : batch[n - 1] \in BatchStates =>
                                     batch[n] = BatchTurn(max)[batch[n - 1]]
  BY <1>4 DEF BatchTurn
<1>7. \A n \in 0 .. items_length : batch[n] \in BatchStates
  <2> DEFINE G == {n \in Nat : batch[n] \in BatchStates}
  <2>1. 0 \in G
    BY <1>2, <1>5
  <2>2. \A n \in 0 .. items_length - 1 : n \in G => n + 1 \in G
    <3> SUFFICES ASSUME NEW n \in 0 .. items_length - 1, n \in G
                 PROVE  batch[n + 1] \in BatchStates
      OBVIOUS
    <3>1. batch[n + 1] = BatchTurn(max)[batch[(n + 1) - 1]]
      BY <1>6
    <3>2. QED
      BY <1>2, <3>1
  <2> HIDE DEF G
  <2>3. \A n \in 0 .. items_length : n \in G
    BY <2>1, <2>2, UpTo
  <2>4. QED
    BY <2>3 DEF G
<1>8. IsBatch(batch, start, max)
  <2>1. batch \in [0 .. items_length -> BatchStates]
    BY <1>4, <1>7
  <2>2. QED
    BY <1>5, <1>6, <1>7, <2>1 DEF IsBatch, Turning
<1>9. QED
  BY <1>1, <1>8

(* The members of a sequence and that it has no member twice. *)
Elements(s) == {s[k] : k \in DOMAIN s}
OneToOne(s) == \A j, k \in DOMAIN s : s[j] = s[k] => j = k

(* Appending an element a sequence does not have yet, as the loop appends  *)
(* each slot it finds a relay in.                                          *)
LEMMA AppendNew ==
  ASSUME NEW S, NEW s \in Seq(S), NEW x \in S, OneToOne(s), x \notin Elements(s)
  PROVE  /\ OneToOne(Append(s, x))
         /\ Elements(Append(s, x)) = Elements(s) \cup {x}
<1> DEFINE n == Len(s)
           u == Append(s, x)
<1>1. n \in Nat /\ DOMAIN s = 1 .. n
  BY LenProperties
<1>2. /\ DOMAIN u = 1 .. n + 1
      /\ \A k \in 1 .. n : u[k] = s[k]
      /\ u[n + 1] = x
  BY <1>1, AppendProperties, LenProperties
<1> HIDE DEF n, u
<1>3. \A k \in 1 .. n : u[k] # x
  BY <1>1, <1>2 DEF Elements
<1>4. OneToOne(u)
  <2> SUFFICES ASSUME NEW j \in 1 .. n + 1, NEW k \in 1 .. n + 1, u[j] = u[k]
               PROVE  j = k
    BY <1>2 DEF OneToOne
  <2>1. CASE j \in 1 .. n /\ k \in 1 .. n
    BY <1>1, <1>2, <2>1 DEF OneToOne
  <2>2. CASE ~(j \in 1 .. n /\ k \in 1 .. n)
    BY <1>1, <1>2, <1>3, <2>2
  <2>3. QED
    BY <2>1, <2>2
<1>5. Elements(u) = Elements(s) \cup {x}
  <2>1. 1 .. n + 1 = (1 .. n) \cup {n + 1}
    BY <1>1
  <2>2. QED
    BY <1>1, <1>2, <2>1 DEF Elements
<1>6. QED
  BY <1>4, <1>5 DEF u

(* A sequence with no element twice is as long as it has elements, so the  *)
(* length of a batch counts relays.                                        *)
LEMMA ElementsCount ==
  ASSUME NEW S, NEW s \in Seq(S), OneToOne(s)
  PROVE  Cardinality(Elements(s)) = Len(s) /\ IsFiniteSet(Elements(s))
<1> DEFINE n == Len(s)
<1>1. n \in Nat /\ DOMAIN s = 1 .. n
  BY LenProperties
<1> HIDE DEF n
<1>2. s \in Bijection(1 .. n, Elements(s))
  <2>1. s = [k \in 1 .. n |-> s[k]]
    BY <1>1 DEF n
  <2>2. s \in [1 .. n -> Elements(s)]
    BY <1>1, <2>1 DEF Elements
  <2>3. QED
    BY <1>1, <2>2 DEF Elements, OneToOne, Bijection, Injection, Surjection, IsInjective
<1>3. IsFiniteSet(1 .. n) /\ Cardinality(1 .. n) = n
  BY <1>1, FS_Interval
<1>4. QED
  BY <1>2, <1>3, FS_Bijection DEF ExistsBijection, n

(* What the loop has copied when it has looked at t slots: the registered  *)
(* relays of those, each once.  It has looked at one slot a turn, unless   *)
(* it stopped with max of them.                                            *)
LookedAt(start, t) == {(start + j) % items_length : j \in 0 .. t - 1}
SoFar(b, start, max, n, t) ==
    /\ b.i = (start + t) % items_length
    /\ Elements(b.out) = LookedAt(start, t) \cap LiveIds
    /\ OneToOne(b.out)
    /\ Len(b.out) <= max
    /\ t = n \/ Len(b.out) = max

(* One turn of get_relay_batch's loop keeps this. *)
LEMMA BatchTurnSoFar ==
  ASSUME items_length \in Nat \ {0}, NEW start \in Nat, NEW max \in Nat \ {0},
         NEW b \in BatchStates, NEW n \in 0 .. items_length - 1, NEW t \in 0 .. n,
         SoFar(b, start, max, n, t)
  PROVE  \E u \in 0 .. n + 1 : SoFar(NextState(b, max), start, max, n + 1, u)
<1> DEFINE i == (start + n) % items_length
<1>1. /\ b.out \in Seq(ItemSlots) /\ Len(b.out) \in Nat
      /\ i \in ItemSlots
  BY LenProperties DEF BatchStates, ItemSlots
<1>2. CASE Len(b.out) >= max
  <2>1. Len(b.out) = max
    BY <1>1, <1>2 DEF SoFar
  <2>2. NextState(b, max) = b
    BY <1>2 DEF NextState
  <2>3. SoFar(NextState(b, max), start, max, n + 1, t)
    BY <2>1, <2>2 DEF SoFar
  <2>4. QED
    BY <2>3
<1>3. CASE ~(Len(b.out) >= max)
  <2> DEFINE c == NextState(b, max)
  <2>1. t = n /\ b.i = i
    BY <1>3 DEF SoFar
  <2>2. /\ c.out = IF items[i] # NULL THEN Append(b.out, i) ELSE b.out
        /\ c.i = NextIndex(i)
    BY <1>3, <2>1 DEF NextState
  <2>3. c.i = (start + (n + 1)) % items_length
    <3>1. PICK m \in Nat : m = start + n
      OBVIOUS
    <3>2. ((m % items_length) + 1) % items_length = (m + 1) % items_length
      BY RemainderMoves
    <3>3. m + 1 = start + (n + 1)
      BY <3>1
    <3>4. QED
      BY <2>2, <3>1, <3>2, <3>3 DEF NextIndex
  <2>4. LookedAt(start, n + 1) = LookedAt(start, n) \cup {i}
    <3>1. 0 .. (n + 1) - 1 = (0 .. n - 1) \cup {n}
      OBVIOUS
    <3>2. QED
      BY <3>1 DEF LookedAt
  <2>5. i \notin LookedAt(start, n)
    <3> SUFFICES ASSUME NEW j \in 0 .. n - 1, (start + j) % items_length = i
                 PROVE  FALSE
      BY DEF LookedAt
    <3>1. j \in 0 .. items_length - 1 /\ n \in 0 .. items_length - 1
      OBVIOUS
    <3>2. j = n
      BY <3>1, CycleIsOneToOne
    <3>3. QED
      BY <3>2
  <2> HIDE DEF c, i
  <2>6. CASE items[i] # NULL
    <3>1. c.out = Append(b.out, i)
      BY <2>2, <2>6
    <3>2. i \notin Elements(b.out) /\ OneToOne(b.out)
      BY <2>1, <2>5 DEF SoFar
    <3>3. OneToOne(c.out) /\ Elements(c.out) = Elements(b.out) \cup {i}
      BY <1>1, <3>1, <3>2, AppendNew
    <3>4. Len(c.out) = Len(b.out) + 1
      BY <1>1, <3>1, AppendProperties
    <3>5. Elements(c.out) = LookedAt(start, n + 1) \cap LiveIds
      BY <1>1, <2>1, <2>4, <2>6, <3>3 DEF SoFar, LiveIds
    <3>6. SoFar(c, start, max, n + 1, n + 1)
      BY <1>1, <1>3, <2>3, <3>3, <3>4, <3>5 DEF SoFar
    <3>7. QED
      BY <3>6 DEF c
  <2>7. CASE items[i] = NULL
    <3>1. c.out = b.out
      BY <2>2, <2>7
    <3>2. Elements(c.out) = LookedAt(start, n + 1) \cap LiveIds
      BY <2>1, <2>4, <2>7, <3>1 DEF SoFar, LiveIds
    <3>3. SoFar(c, start, max, n + 1, n + 1)
      BY <2>3, <3>1, <3>2 DEF SoFar
    <3>4. QED
      BY <3>3 DEF c
  <2>8. QED
    BY <2>6, <2>7
<1>4. QED
  BY <1>2, <1>3

(* The turns of a loop, one by one. *)
LEMMA BatchTurns ==
  ASSUME items_length \in Nat \ {0}, NEW start \in Nat, NEW max \in Nat,
         NEW f, IsBatch(f, start, max)
  PROVE  /\ \A n \in 0 .. items_length : f[n] \in BatchStates
         /\ f[0] = FirstState(start)
         /\ \A n \in 0 .. items_length - 1 : f[n + 1] = NextState(f[n], max)
<1>1. /\ f \in [0 .. items_length -> BatchStates]
      /\ f[0] = FirstState(start)
      /\ \A n \in 1 .. items_length : f[n] = BatchTurn(max)[f[n - 1]]
  BY DEF IsBatch, Turning
<1>2. ASSUME NEW n \in 0 .. items_length - 1
      PROVE  f[n + 1] = NextState(f[n], max)
  <2>1. n + 1 \in 1 .. items_length /\ (n + 1) - 1 = n /\ f[n] \in BatchStates
    BY <1>1
  <2>2. f[n + 1] = BatchTurn(max)[f[n]]
    BY <1>1, <2>1
  <2>3. QED
    BY <2>1, <2>2 DEF BatchTurn
<1>3. QED
  BY <1>1, <1>2

(* get_relay_batch returns distinct registered relays, at most max of      *)
(* them, and fewer only when there are no more.                            *)
LEMMA BatchResult ==
  ASSUME items_length \in Nat \ {0}, NEW start \in Nat, NEW max \in Nat \ {0},
         NEW f, IsBatch(f, start, max)
  PROVE  LET out == f[items_length].out
         IN  /\ out \in Seq(ItemSlots)
             /\ Elements(out) \subseteq LiveIds
             /\ OneToOne(out)
             /\ Len(out) <= max
             /\ Len(out) < max => Elements(out) = LiveIds
<1> DEFINE G == {n \in Nat : \E t \in 0 .. n : SoFar(f[n], start, max, n, t)}
<1>1. /\ \A n \in 0 .. items_length : f[n] \in BatchStates
      /\ f[0] = FirstState(start)
      /\ \A n \in 0 .. items_length - 1 : f[n + 1] = NextState(f[n], max)
  BY BatchTurns
<1>2. 0 \in G
  <2>1. SoFar(f[0], start, max, 0, 0)
    BY <1>1 DEF SoFar, FirstState, StartIndex, LookedAt, Elements, OneToOne
  <2>2. QED
    BY <2>1
<1>3. \A n \in 0 .. items_length - 1 : n \in G => n + 1 \in G
  BY <1>1, BatchTurnSoFar
<1>4. items_length \in G
  <2> HIDE DEF G
  <2>1. \A n \in 0 .. items_length : n \in G
    BY <1>2, <1>3, UpTo
  <2>2. QED
    BY <2>1
<1>5. PICK t \in 0 .. items_length : SoFar(f[items_length], start, max, items_length, t)
  BY <1>4
<1>6. LookedAt(start, items_length) = ItemSlots
  <2>1. \A i \in ItemSlots : \E k \in 0 .. items_length - 1 : (start + k) % items_length = i
    BY CycleIsOnto DEF ItemSlots
  <2>2. \A k \in 0 .. items_length - 1 : (start + k) % items_length \in ItemSlots
    BY DEF ItemSlots
  <2>3. QED
    BY <2>1, <2>2 DEF LookedAt
<1>7. f[items_length].out \in Seq(ItemSlots) /\ Len(f[items_length].out) \in Nat
  BY <1>1, LenProperties DEF BatchStates
<1>8. Len(f[items_length].out) < max => Elements(f[items_length].out) = LiveIds
  BY <1>5, <1>6, <1>7 DEF SoFar, LiveIds
<1>9. QED
  BY <1>5, <1>7, <1>8 DEF SoFar

(* The start a session keeps lies less than a map past the table's end.    *)
ClientHandlerInv ==
    /\ TableInv
    /\ relay_start \in Nat
    /\ initialized => relay_start < items_length + SERVER_RELAYS_MAP_AMOUNT

(* get_relay_batch's result, and the start that handle_get_relay_map makes *)
(* of it.                                                                  *)
LEMMA BatchOfSession ==
  ASSUME ClientHandlerInv, initialized
  PROVE  /\ Elements(RelayMap) \subseteq LiveIds
         /\ Cardinality(Elements(RelayMap)) = Len(RelayMap)
         /\ Len(RelayMap) <= SERVER_RELAYS_MAP_AMOUNT
         /\ Len(RelayMap) < SERVER_RELAYS_MAP_AMOUNT => Elements(RelayMap) = LiveIds
         /\ NextStart \in Nat
         /\ NextStart < items_length + SERVER_RELAYS_MAP_AMOUNT
<1> DEFINE max == SERVER_RELAYS_MAP_AMOUNT
<1>1. items_length \in Nat \ {0} /\ relay_start \in Nat
  BY DEF ClientHandlerInv, TableInv, ManagerTypeOK
<1>2. max \in Nat \ {0} /\ max \in Nat
  BY ClientHandlerAssumption
<1> HIDE DEF max
<1>3. PICK f : IsBatch(f, relay_start, max) /\ GetRelayBatch(relay_start, max) = f[items_length]
  BY <1>1, <1>2, BatchIs
<1>4. Batch = f[items_length] /\ RelayMap = f[items_length].out
  BY <1>3 DEF Batch, RelayMap, max
<1>5. /\ RelayMap \in Seq(ItemSlots)
      /\ Elements(RelayMap) \subseteq LiveIds
      /\ OneToOne(RelayMap)
      /\ Len(RelayMap) <= max
      /\ Len(RelayMap) < max => Elements(RelayMap) = LiveIds
  BY <1>1, <1>2, <1>3, <1>4, BatchResult
<1>6. Cardinality(Elements(RelayMap)) = Len(RelayMap) /\ Len(RelayMap) \in Nat
  BY <1>5, ElementsCount, LenProperties
<1>7. Batch.i \in 0 .. items_length - 1
  <2>1. f[items_length] \in BatchStates
    BY <1>1, <1>2, <1>3, BatchTurns
  <2>2. QED
    BY <1>4, <2>1 DEF BatchStates, ItemSlots
<1>8. NextStart \in Nat /\ NextStart < items_length + max
  BY <1>1, <1>2, <1>5, <1>6, <1>7 DEF NextStart
<1>9. QED
  BY <1>5, <1>6, <1>8 DEF max

(* Every map a client is sent is complete, however often the session asked *)
(* before and whatever relays have done to the table in between; and what  *)
(* the handler keeps between two requests is bounded by the table's size.  *)
THEOREM MapsComplete == ClientHandlerSpec => []MapComplete
<1>1. ClientHandlerInit => ClientHandlerInv
  <2> SUFFICES ASSUME ClientHandlerInit PROVE ClientHandlerInv
    OBVIOUS
  <2>1. TableInv /\ relay_start = 0
    BY InitTable DEF ClientHandlerInit
  <2>2. items_length \in Nat
    BY <2>1 DEF TableInv, ManagerTypeOK
  <2>3. QED
    BY <2>1, <2>2, ClientHandlerAssumption DEF ClientHandlerInv, TableInv
<1>2. ClientHandlerInv /\ [ClientHandlerNext]_clientHandlerVars => ClientHandlerInv'
  <2> SUFFICES ASSUME ClientHandlerInv, [ClientHandlerNext]_clientHandlerVars
               PROVE  ClientHandlerInv'
    OBVIOUS
  <2>1. TableInv'
    <3>1. [ManagerNext]_managerVars
      BY DEF ClientHandlerNext, clientHandlerVars, ClientArrives, HandleGetRelayMap
    <3>2. QED
      BY <3>1, NextTable DEF ClientHandlerInv
  <2>2. CASE ManagerNext /\ UNCHANGED relay_start
    <3>1. initialized' => initialized /\ items_length <= items_length'
      <4>1. items_length \in Nat /\ GrownLength >= items_length
        BY DEF ClientHandlerInv, TableInv, ManagerTypeOK, GrownLength
      <4>2. CASE \E p \in Objects \ LiveObjects : GenRelay(p)
        BY <2>2, <4>1, <4>2 DEF ManagerNext, GenRelay, AppendRelay, ReuseRelay, FreeRelayManager
      <4>3. CASE \E id \in ItemSlots : RemoveRelay(id)
        BY <2>2, <4>1, <4>3 DEF ManagerNext, RemoveRelay, FreeRelayManager
      <4>4. CASE FreeRelayManager
        BY <4>4 DEF FreeRelayManager
      <4>5. QED
        BY <2>2, <4>2, <4>3, <4>4 DEF ManagerNext
    <3>2. items_length \in Nat /\ items_length' \in Nat
      BY <2>1 DEF ClientHandlerInv, TableInv, ManagerTypeOK
    <3>3. relay_start' = relay_start /\ relay_start \in Nat
      BY <2>2 DEF ClientHandlerInv
    <3>4. ASSUME initialized' PROVE relay_start' < items_length' + SERVER_RELAYS_MAP_AMOUNT
      <4>1. relay_start < items_length + SERVER_RELAYS_MAP_AMOUNT /\ items_length <= items_length'
        BY <3>1, <3>4 DEF ClientHandlerInv
      <4>2. SERVER_RELAYS_MAP_AMOUNT \in Nat
        BY ClientHandlerAssumption
      <4>3. PICK n \in Nat, m \in Nat, start \in Nat, amount \in Nat :
               /\ n = items_length /\ m = items_length' /\ start = relay_start
               /\ amount = SERVER_RELAYS_MAP_AMOUNT
        BY <3>2, <3>3, <4>2
      <4>4. start < m + amount
        <5>1. start < n + amount
          BY <4>1, <4>3, Zenon
        <5>2. n <= m
          BY <4>1, <4>3, Zenon
        <5>3. QED
          BY <5>1, <5>2
      <4>5. QED
        BY <3>3, <4>3, <4>4
    <3>5. QED
      BY <2>1, <3>3, <3>4 DEF ClientHandlerInv
  <2>3. CASE ClientArrives
    <3>1. items_length' \in Nat /\ relay_start' = 0
      BY <2>1, <2>3 DEF ClientArrives, TableInv, ManagerTypeOK
    <3>2. relay_start' < items_length' + SERVER_RELAYS_MAP_AMOUNT
      <4>1. PICK n \in Nat : n = items_length'
        BY <3>1
      <4>2. PICK amount \in Nat \ {0} : amount = SERVER_RELAYS_MAP_AMOUNT
        BY ClientHandlerAssumption
      <4>3. 0 < n + amount
        OBVIOUS
      <4>4. QED
        BY <3>1, <4>1, <4>2, <4>3
    <3>3. QED
      BY <2>1, <3>1, <3>2 DEF ClientHandlerInv
  <2>4. CASE HandleGetRelayMap
    <3>1. initialized /\ relay_start' = NextStart /\ items_length' = items_length
      BY <2>4 DEF HandleGetRelayMap, managerVars, tableVars
    <3>2. QED
      BY <2>1, <3>1, BatchOfSession DEF ClientHandlerInv
  <2>5. CASE UNCHANGED clientHandlerVars
    BY <2>1, <2>5 DEF clientHandlerVars, managerVars, tableVars, ClientHandlerInv
  <2>6. QED
    BY <2>2, <2>3, <2>4, <2>5 DEF ClientHandlerNext
<1>3. ClientHandlerInv => MapComplete
  BY BatchOfSession DEF MapComplete, ClientHandlerInv, Elements
<1>4. QED
  BY <1>1, <1>2, <1>3, PTL DEF ClientHandlerSpec
-----------------------------------------------------------------------------
(* A set of slots that holds exactly those below m is 0 .. m - 1. *)
LEMMA InitialSegment ==
  ASSUME NEW m \in Nat, NEW n \in Nat, m <= n, NEW S \in SUBSET (0 .. n - 1),
         \A i \in 0 .. n - 1 : i < m <=> i \in S
  PROVE  S = 0 .. m - 1
<1>1. \A i \in 0 .. m - 1 : i \in 0 .. n - 1 /\ i < m
  OBVIOUS
<1>2. \A i \in 0 .. n - 1 : i < m => i \in 0 .. m - 1
  OBVIOUS
<1>3. QED
  BY <1>1, <1>2, Zenon

(* The table implements RelayRegistry: the registered relays are the       *)
(* identifiers in use and max_item_index is the number ever handed out.    *)
THEOREM ManagerImplementsRegistry == ManagerSpec => RegistrySpec
<1>1. ManagerInit => Registry!Init
  BY DEF ManagerInit, Registry!Init, LiveIds, ItemSlots
<1>2. TableInv /\ [ManagerNext]_managerVars => [Registry!Next]_Registry!vars
  <2> SUFFICES ASSUME TableInv, [ManagerNext]_managerVars
               PROVE  Registry!Next \/ UNCHANGED Registry!vars
    BY DEF Registry!vars
  <2> DEFINE live == LiveIds
             peak == max_item_index
  <2> SUFFICES ASSUME ManagerNext
               PROVE  Registry!Next
    BY DEF managerVars, tableVars, Registry!vars, LiveIds, ItemSlots
  <2>1. ASSUME initialized, NEW p \in Objects \ LiveObjects, AppendRelay(p)
        PROVE  Registry!Extend
    <3>1. TableInv'
      BY <2>1, AppendTable
    <3>2. removed_id_stack = <<>> /\ removed_id_stack' = <<>>
      BY <2>1 DEF AppendRelay
    <3>3. \A i : ~OnStack(i) /\ ~OnStack(i)'
      BY <3>2 DEF OnStack
    <3>4. live = 0 .. peak - 1
      BY <3>3 DEF TableInv, ManagerTypeOK, IdsPartitioned, InsideArrays, LiveIds, ItemSlots
    <3>5. live' = 0 .. peak' - 1
      <4>1. peak' \in Nat /\ items_length' \in Nat /\ peak' <= items_length'
        BY <3>1 DEF TableInv, ManagerTypeOK
      <4>2. \A i \in 0 .. items_length' - 1 : i < peak' <=> i \in LiveIds'
        BY <3>1, <3>3 DEF TableInv, IdsPartitioned, LiveIds, ItemSlots
      <4>3. LiveIds' \in SUBSET (0 .. items_length' - 1)
        BY DEF ItemSlots, LiveIds
      <4>4. QED
        BY <4>1, <4>2, <4>3, InitialSegment
    <3>6. peak' = peak + 1 /\ peak \in Nat
      BY <2>1 DEF AppendRelay, TableInv, ManagerTypeOK
    <3>7. QED
      BY <3>4, <3>5, <3>6 DEF Registry!Extend
  <2>2. ASSUME NEW p \in Objects \ LiveObjects, ReuseRelay(p)
        PROVE  \E id \in 0 .. peak - 1 : Registry!Reuse(id)
    <3> DEFINE id == removed_id_stack[Len(removed_id_stack)]
    <3>1. Len(removed_id_stack) \in Nat \ {0}
      BY <2>2, EmptySeq, LenProperties DEF ReuseRelay, TableInv, ManagerTypeOK
    <3>2. id \in 0 .. peak - 1 /\ id \in ItemSlots /\ id \notin live
      BY <3>1 DEF TableInv, ManagerTypeOK, InsideArrays, IdsPartitioned, OnStack, ItemSlots, LiveIds
    <3>3. items' = [items EXCEPT ![id] = p] /\ ItemSlots' = ItemSlots /\ peak' = peak
      BY <2>2 DEF ReuseRelay, max_stack_index, ItemSlots
    <3>4. live' = live \cup {id}
      BY <2>2, <3>2, <3>3, ObjectsAssumption DEF LiveIds, TableInv, ManagerTypeOK
    <3>5. QED
      BY <3>2, <3>3, <3>4 DEF Registry!Reuse
  <2>3. ASSUME NEW id \in ItemSlots, RemoveRelay(id)
        PROVE  id \in 0 .. peak - 1 /\ Registry!Remove(id)
    <3>1. items' = [items EXCEPT ![id] = NULL] /\ ItemSlots' = ItemSlots /\ peak' = peak /\ items[id] # NULL
      BY <2>3 DEF RemoveRelay, Exists, ItemSlots
    <3>2. live' = live \ {id} /\ id \in live
      <4>1. \A i \in ItemSlots : items'[i] = IF i = id THEN NULL ELSE items[i]
        BY <3>1 DEF TableInv, ManagerTypeOK
      <4>2. QED
        BY <3>1, <4>1 DEF LiveIds
    <3>3. id \in 0 .. peak - 1
      BY <3>1 DEF TableInv, ManagerTypeOK, IdsPartitioned, ItemSlots
    <3>4. QED
      BY <3>1, <3>2, <3>3 DEF Registry!Remove
  <2>4. CASE FreeRelayManager
    BY <2>4 DEF FreeRelayManager, Registry!Next, Registry!Close, LiveIds, ItemSlots
  <2>5. QED
    BY <2>1, <2>2, <2>3, <2>4 DEF ManagerNext, GenRelay, Registry!Next
<1>3. QED
  BY <1>1, <1>2, TableInvariant, PTL DEF ManagerSpec, RegistrySpec, Registry!Spec

-----------------------------------------------------------------------------

In(r) == thread[<<r, "signup">>]
Out(r) == thread[<<r, "signout">>]

(* The table holds relay r under id, and under any identifier at all. *)
HasEntry(r, id) == id \in LiveIds /\ data[items[id]].descriptor = r
Listed(r) == \E id \in LiveIds : HasEntry(r, id)

(* The entry at p is registered and still has no descriptor. *)
Unfilled(p) == p \in LiveObjects /\ data[p].descriptor = ZeroDescriptor
Fills(r, p) == In(r).pc = "fill" /\ In(r).relay_data = p

(* The relay derived its keys with the server process that runs. *)
Current(r) == server = "up" /\ key_epoch[r] = epoch

(* The session's request to sign up (out) is not answered yet. *)
PendingIn(r) == In(r).pc = "fill" \/ (In(r).pc = "recv" /\ In(r).request.cmd = "signup")
PendingOut(r) == Out(r).pc \in {"compare", "remove"}
                 \/ (Out(r).pc = "recv" /\ Out(r).request.cmd = "signout")

Active(t) == t.pc \notin {"none", "ended"}

Messages == [cmd : {"none", "signup", "signout", "exit", "success", "base_error"},
             id : Nat \cup {INVALID_RELAY_ID}]
Threads == [pc : {"none", "recv", "fill", "compare", "remove", "ended"},
            relay_data : Objects \cup {NULL},
            request : Messages, response : Messages, broken : BOOLEAN]

DirectoryTypeOK ==
    /\ server \in {"up", "exiting", "crashed", "down"}
    /\ epoch \in Nat \ {0}
    /\ pc \in [Descriptors -> {"start", "signup", "signup_exit", "running", "signout",
                               "signout_exit", "signed_out", "failed"}]
    /\ register_id \in [Descriptors -> Nat \cup {INVALID_RELAY_ID}]
    /\ key_epoch \in [Descriptors -> Nat]
    /\ thread \in [Sessions -> Threads]

(* The table is consistent, and empty once the process is on its way out. *)
TableOK ==
    /\ TableInv /\ UniqueRelayId
    /\ initialized <=> server = "up"
    /\ server # "up" => LiveIds = {}

(* An entry without a descriptor is just being filled in, by one thread,   *)
(* and no two entries have the same descriptor.                            *)
EntriesOK ==
    /\ \A i \in LiveIds : data[items[i]].descriptor = ZeroDescriptor =>
                             \E r \in Descriptors : Fills(r, items[i])
    /\ \A i, j \in LiveIds : (data[items[i]].descriptor = data[items[j]].descriptor
                              /\ data[items[i]].descriptor # ZeroDescriptor) => i = j
    /\ server = "up" => \A q, r \in Descriptors : \A p \in Objects :
                           Fills(q, p) /\ Fills(r, p) => q = r

(* The two sessions of a relay: each has its own requests, keys of this    *)
(* server process, and nothing happened in one that was never opened.      *)
SessionsOK(r) ==
    /\ In(r).pc \in {"none", "recv", "fill", "ended"}
    /\ Out(r).pc \in {"none", "recv", "compare", "remove", "ended"}
    /\ In(r).request.cmd \in {"none", "signup", "exit"}
    /\ Out(r).request.cmd \in {"none", "signout", "exit"}
    /\ In(r).pc = "none" => In(r).request = None /\ In(r).response = None
    /\ Out(r).pc = "none" => Out(r).request = None /\ Out(r).response = None
    /\ Active(In(r)) \/ Active(Out(r)) => key_epoch[r] = epoch /\ server # "down"
    /\ key_epoch[r] <= epoch
    /\ pc[r] \notin {"start", "failed"} => key_epoch[r] # 0
    /\ pc[r] = "start" => In(r).pc = "none" /\ key_epoch[r] = 0
    /\ pc[r] \in {"start", "signup", "signup_exit", "running"} => Out(r).pc = "none"
    /\ In(r).request.cmd = "exit" => pc[r] \notin {"start", "signup"}

(* What the sign-up promises: while it is pending the relay is not in the  *)
(* table, and once it was answered the relay is, under the identifier of   *)
(* the answer.                                                             *)
SignupOK(r) ==
    /\ pc[r] = "start" => ~Listed(r)
    /\ PendingIn(r) => /\ ~Listed(r) /\ Out(r).pc = "none" /\ In(r).response = None
                       /\ pc[r] \in {"signup", "failed"}
    /\ In(r).pc = "fill" => /\ In(r).relay_data # NULL
                            /\ server = "up" => Unfilled(In(r).relay_data)
    /\ pc[r] = "signup" /\ Current(r) /\ In(r).response # None
          => HasEntry(r, In(r).response.id)
    /\ pc[r] \in {"signup_exit", "running"} /\ Current(r) => HasEntry(r, register_id[r])

(* What the sign-out relies on: the identifier it asks for is the relay's  *)
(* own entry until it is removed, and after the answer there is no entry.  *)
SignoutOK(r) ==
    /\ PendingOut(r) => /\ Out(r).response = None
                        /\ Out(r).request.cmd = "signout"
                        /\ server = "up" => HasEntry(r, Out(r).request.id)
    /\ Out(r).pc \in {"compare", "remove"} =>
          /\ Out(r).relay_data # NULL
          /\ server = "up" => Out(r).relay_data = items[Out(r).request.id]
    /\ Out(r).pc = "recv" /\ Out(r).request.cmd = "signout" => Out(r).relay_data = NULL
    /\ Out(r).response # None \/ Out(r).request.cmd = "exit" => ~Listed(r)
    /\ pc[r] \in {"signout_exit", "signed_out"} => ~Listed(r) /\ Out(r).pc # "none"

RelayOK(r) == SessionsOK(r) /\ SignupOK(r) /\ SignoutOK(r)

DirectoryInv ==
    /\ DirectoryTypeOK
    /\ TableOK
    /\ EntriesOK
    /\ \A r \in Descriptors : RelayOK(r)

-----------------------------------------------------------------------------
(* What a step leaves alone.  SameRelay: the relay d and its two sessions. *)
SameRelay(d) ==
    /\ pc'[d] = pc[d] /\ register_id'[d] = register_id[d] /\ key_epoch'[d] = key_epoch[d]
    /\ In(d)' = In(d) /\ Out(d)' = Out(d)

(* SameEntry: its entry in the table, or the one it is about to fill in.   *)
SameEntry(d) ==
    /\ \A id : HasEntry(d, id) => HasEntry(d, id)' /\ items'[id] = items[id]
    /\ \A id : HasEntry(d, id)' => HasEntry(d, id)
    /\ \A p : Fills(d, p) /\ Unfilled(p) => Unfilled(p)'

(* A step of another relay, or of another relay's session, that leaves the *)
(* relay's own entry alone keeps what is known of the relay.               *)
LEMMA OthersStay ==
  ASSUME NEW d \in Descriptors, RelayOK(d), SameRelay(d), SameEntry(d),
         UNCHANGED <<server, epoch>>
  PROVE  RelayOK(d)'
<1>1. Listed(d)' <=> Listed(d)
  BY DEF Listed, SameEntry, HasEntry
<1>2. SessionsOK(d)'
  BY DEF SameRelay, RelayOK, SessionsOK
<1>3. SignupOK(d)'
  <2>1. \A id : HasEntry(d, id) => HasEntry(d, id)'
    BY DEF SameEntry
  <2>2. In(d)' = In(d) /\ Out(d)' = Out(d)
    BY DEF SameRelay
  <2>3. In(d).pc = "fill" /\ server = "up" => Unfilled(In(d).relay_data)'
    <3> SUFFICES ASSUME In(d).pc = "fill", server = "up"
                 PROVE  Unfilled(In(d).relay_data)'
      OBVIOUS
    <3>1. Fills(d, In(d).relay_data) /\ Unfilled(In(d).relay_data)
      BY DEF Fills, RelayOK, SignupOK
    <3>2. PICK p : p = In(d).relay_data
      OBVIOUS
    <3>3. Unfilled(p)'
      BY <3>1, <3>2 DEF SameEntry
    <3>4. p = (In(d).relay_data)'
      BY <2>2, <3>2
    <3>5. QED
      BY <3>3, <3>4 DEF Unfilled
  <2>4. PendingIn(d)' <=> PendingIn(d)
    BY <2>2 DEF PendingIn
  <2>5. Current(d)' <=> Current(d)
    BY DEF Current, SameRelay
  <2>6. QED
    BY <1>1, <2>1, <2>2, <2>3, <2>4, <2>5 DEF SameRelay, RelayOK, SignupOK
<1>4. SignoutOK(d)'
  <2>1. \A id : HasEntry(d, id) => HasEntry(d, id)' /\ items'[id] = items[id]
    BY DEF SameEntry
  <2>2. Out(d)' = Out(d) /\ pc'[d] = pc[d]
    BY DEF SameRelay
  <2>3. PendingOut(d)' <=> PendingOut(d)
    BY <2>2 DEF PendingOut
  <2>4. QED
    BY <1>1, <2>1, <2>2, <2>3 DEF RelayOK, SignoutOK, PendingOut
<1>5. QED
  BY <1>2, <1>3, <1>4 DEF RelayOK

(* A step that does not touch the table keeps every entry.                 *)
LEMMA TableStays ==
  ASSUME UNCHANGED managerVars
  PROVE  /\ LiveIds' = LiveIds /\ LiveObjects' = LiveObjects
         /\ \A d \in Descriptors : SameEntry(d)
         /\ \A d, id : HasEntry(d, id)' <=> HasEntry(d, id)
         /\ \A d : Listed(d)' <=> Listed(d)
         /\ \A p : Unfilled(p)' <=> Unfilled(p)
         /\ TableInv /\ UniqueRelayId => TableInv' /\ UniqueRelayId'
<1>1. items' = items /\ items_length' = items_length /\ data' = data /\ initialized' = initialized
  BY DEF managerVars, tableVars
<1>2. LiveIds' = LiveIds
  BY <1>1 DEF LiveIds, ItemSlots
<1>3. LiveObjects' = LiveObjects
  BY <1>1, <1>2 DEF LiveObjects
<1>4. \A d, id : HasEntry(d, id)' <=> HasEntry(d, id)
  BY <1>1, <1>2 DEF HasEntry
<1>5. \A d : Listed(d)' <=> Listed(d)
  BY <1>2, <1>4 DEF Listed
<1>6. \A p : Unfilled(p)' <=> Unfilled(p)
  BY <1>1, <1>3 DEF Unfilled
<1>7. TableInv /\ UniqueRelayId => TableInv' /\ UniqueRelayId'
  BY NextTable, NextUnique
<1>8. QED
  BY <1>1, <1>2, <1>3, <1>4, <1>5, <1>6, <1>7 DEF SameEntry

-----------------------------------------------------------------------------
(* handle_signup's gen_relay adds one entry without a descriptor, at an    *)
(* address no other entry has, and keeps all the others.                   *)
LEMMA GenEntries ==
  ASSUME TableOK, server = "up", NEW p \in Objects \ LiveObjects, GenRelay(p)
  PROVE  /\ TableInv' /\ UniqueRelayId' /\ initialized'
         /\ Unfilled(p)'
         /\ \A i \in LiveIds' : \/ items'[i] = p
                                \/ /\ i \in LiveIds /\ items'[i] = items[i]
                                   /\ data'[items[i]] = data[items[i]]
         /\ \A i, j \in LiveIds' : items'[i] = p /\ items'[j] = p => i = j
         /\ \A d \in Descriptors : SameEntry(d)
<1>1. initialized
  BY DEF TableOK
<1>2. ManagerNext
  BY <1>1 DEF ManagerNext
<1>3. TableInv' /\ UniqueRelayId'
  BY <1>2, NextTable, NextUnique DEF TableOK
<1>4. PICK id \in ItemSlots' :
        /\ ~Exists(id)
        /\ items'[id] = p
        /\ \A i \in ItemSlots' \ {id} : items'[i] = IF i \in ItemSlots THEN items[i] ELSE NULL
        /\ ItemSlots \subseteq ItemSlots'
        /\ data' = [data EXCEPT ![p] = [relay_id |-> id, descriptor |-> ZeroDescriptor]]
  BY <1>1, GenEffect DEF TableOK
<1>5. data \in [Objects -> RelayData] /\ p # NULL
  BY ObjectsAssumption DEF TableOK, TableInv, ManagerTypeOK
<1>6. data'[p].descriptor = ZeroDescriptor /\ \A q \in Objects : q # p => data'[q] = data[q]
  BY <1>4, <1>5
<1>7. id \in LiveIds' /\ id \notin LiveIds
  BY <1>4, <1>5 DEF LiveIds, Exists
<1>8. \A i \in LiveIds : /\ i \in LiveIds' /\ i # id /\ items'[i] = items[i]
                         /\ items[i] \in Objects /\ items[i] # p
                         /\ data'[items[i]] = data[items[i]]
  <2> SUFFICES ASSUME NEW i \in LiveIds
               PROVE  /\ i \in LiveIds' /\ i # id /\ items'[i] = items[i]
                      /\ items[i] \in Objects /\ items[i] # p
                      /\ data'[items[i]] = data[items[i]]
    OBVIOUS
  <2>1. i \in ItemSlots /\ items[i] # NULL /\ items[i] \in Objects
    BY DEF LiveIds, TableOK, TableInv, ManagerTypeOK
  <2>2. items[i] # p
    BY DEF LiveObjects
  <2>3. i # id /\ i \in ItemSlots' /\ items'[i] = items[i]
    BY <1>4, <1>7, <2>1
  <2>4. QED
    BY <1>6, <2>1, <2>2, <2>3 DEF LiveIds
<1>9. \A i \in LiveIds' : i = id \/ i \in LiveIds
  BY <1>4 DEF LiveIds
<1>10. Unfilled(p)'
  BY <1>4, <1>6, <1>7 DEF Unfilled, LiveObjects
<1>11. \A d \in Descriptors : SameEntry(d)
  <2> SUFFICES ASSUME NEW d \in Descriptors
               PROVE  SameEntry(d)
    OBVIOUS
  <2>1. \A i : HasEntry(d, i) => HasEntry(d, i)' /\ items'[i] = items[i]
    BY <1>8 DEF HasEntry
  <2>2. ~HasEntry(d, id)'
    BY <1>4, <1>6, DirectoryAssumption DEF HasEntry
  <2>3. \A i : HasEntry(d, i)' => HasEntry(d, i)
    BY <1>8, <1>9, <2>2 DEF HasEntry
  <2>4. \A q : Unfilled(q) => Unfilled(q)'
    BY <1>8 DEF Unfilled, LiveObjects
  <2>5. QED
    BY <2>1, <2>3, <2>4 DEF SameEntry
<1>12. initialized'
  BY <1>1 DEF GenRelay, AppendRelay, ReuseRelay
<1>13. QED
  BY <1>3, <1>4, <1>8, <1>9, <1>10, <1>11, <1>12

(* handle_signup's copy of the descriptor changes the entry of its pointer *)
(* and no other, because no two entries share a relay_data_t.              *)
LEMMA FillEntries ==
  ASSUME TableOK, NEW r \in Descriptors, NEW p \in Objects,
         data' = [data EXCEPT ![p].descriptor = r], UNCHANGED tableVars
  PROVE  /\ TableInv' /\ UniqueRelayId'
         /\ LiveIds' = LiveIds /\ LiveObjects' = LiveObjects /\ items' = items
         /\ data'[p].descriptor = r /\ data'[p].relay_id = data[p].relay_id
         /\ \A q \in Objects : q # p => data'[q] = data[q]
<1>1. data \in [Objects -> RelayData]
  BY DEF TableOK, TableInv, ManagerTypeOK
<1>2. /\ data' \in [Objects -> RelayData]
      /\ data'[p].descriptor = r
      /\ \A q \in Objects : data'[q].relay_id = data[q].relay_id
      /\ \A q \in Objects : q # p => data'[q] = data[q]
  BY <1>1 DEF RelayData
<1>3. TableInv'
  BY <1>2 DEF tableVars, TableOK, TableInv, ManagerTypeOK, IdsPartitioned, InsideArrays, ItemSlots, OnStack
<1>4. items' = items /\ LiveIds' = LiveIds
  BY DEF tableVars, LiveIds, ItemSlots
<1>5. LiveObjects' = LiveObjects
  BY <1>4 DEF LiveObjects
<1>6. \A i \in LiveIds : items[i] \in Objects
  BY DEF LiveIds, TableOK, TableInv, ManagerTypeOK
<1>7. UniqueRelayId'
  BY <1>2, <1>4, <1>6 DEF TableOK, UniqueRelayId
<1>8. QED
  BY <1>2, <1>3, <1>4, <1>5, <1>7

(* handle_signout's remove_relay takes away the one entry.                 *)
LEMMA RemoveEntries ==
  ASSUME TableOK, server = "up", NEW id \in LiveIds, RemoveRelay(id)
  PROVE  /\ TableInv' /\ UniqueRelayId' /\ initialized'
         /\ LiveIds' = LiveIds \ {id}
         /\ \A i \in LiveIds' : items'[i] = items[i]
         /\ data' = data
<1>1. initialized /\ id \in ItemSlots
  BY DEF TableOK, LiveIds
<1>2. ManagerNext
  BY <1>1 DEF ManagerNext
<1>3. TableInv' /\ UniqueRelayId'
  BY <1>2, NextTable, NextUnique DEF TableOK
<1>4. ItemSlots' = ItemSlots /\ items' = [items EXCEPT ![id] = NULL] /\ data' = data /\ initialized'
  BY <1>1 DEF RemoveRelay, ItemSlots
<1>5. \A i \in ItemSlots : items'[i] = IF i = id THEN NULL ELSE items[i]
  BY <1>4 DEF TableOK, TableInv, ManagerTypeOK
<1>6. LiveIds' = LiveIds \ {id}
  BY <1>4, <1>5 DEF LiveIds
<1>7. QED
  BY <1>3, <1>4, <1>5, <1>6 DEF LiveIds

-----------------------------------------------------------------------------
(* A step of relay r or of one of its sessions that leaves the table alone *)
(* and starts or ends no filling in.                                       *)
LEMMA QuietStep ==
  ASSUME DirectoryInv, NEW r \in Descriptors,
         UNCHANGED <<managerVars, server, epoch>>,
         \A d \in Descriptors : d # r => SameRelay(d),
         \A p : Fills(r, p)' <=> Fills(r, p),
         DirectoryTypeOK', RelayOK(r)'
  PROVE  DirectoryInv'
<1>1. \A d \in Descriptors : \A p : Fills(d, p)' <=> Fills(d, p)
  BY DEF SameRelay, Fills
<1>2. TableOK'
  <2>1. initialized' = initialized
    BY DEF managerVars, tableVars
  <2>2. QED
    BY <2>1, TableStays DEF DirectoryInv, TableOK
<1>3. EntriesOK'
  <2>1. LiveIds' = LiveIds /\ items' = items /\ data' = data
    BY TableStays DEF managerVars, tableVars
  <2>2. QED
    BY <1>1, <2>1 DEF DirectoryInv, EntriesOK
<1>4. \A d \in Descriptors : d # r => RelayOK(d)'
  BY TableStays, OthersStay DEF DirectoryInv
<1>5. QED
  BY <1>2, <1>3, <1>4 DEF DirectoryInv

(* One session changes.                                                    *)
LEMMA SessionSet ==
  ASSUME DirectoryTypeOK, NEW r \in Descriptors, NEW v \in Visits, NEW t \in Threads,
         thread' = [thread EXCEPT ![<<r, v>>] = t]
  PROVE  /\ thread' \in [Sessions -> Threads]
         /\ In(r)' = IF v = "signup" THEN t ELSE In(r)
         /\ Out(r)' = IF v = "signout" THEN t ELSE Out(r)
         /\ \A d \in Descriptors : d # r => In(d)' = In(d) /\ Out(d)' = Out(d)
<1>1. <<r, v>> \in Sessions /\ <<r, "signup">> \in Sessions /\ <<r, "signout">> \in Sessions
  BY DEF Sessions, Visits
<1>2. \A d \in Descriptors : <<d, "signup">> \in Sessions /\ <<d, "signout">> \in Sessions
  BY DEF Sessions, Visits
<1>3. thread' \in [Sessions -> Threads]
  BY <1>1 DEF DirectoryTypeOK
<1>4. \A s \in Sessions : thread'[s] = IF s = <<r, v>> THEN t ELSE thread[s]
  BY DEF DirectoryTypeOK
<1>5. QED
  BY <1>2, <1>3, <1>4 DEF In, Out, Visits

(* A relay that fails or crashes, and a connection that breaks, leave the  *)
(* sessions where they are.                                                *)
SameButBroken(r) ==
    /\ In(r).pc' = In(r).pc /\ In(r).relay_data' = In(r).relay_data
    /\ In(r).request' = In(r).request /\ In(r).response' = In(r).response
    /\ Out(r).pc' = Out(r).pc /\ Out(r).relay_data' = Out(r).relay_data
    /\ Out(r).request' = Out(r).request /\ Out(r).response' = Out(r).response

(* The invariant holds on: a thread sees a broken connection only at its   *)
(* next read or write.                                                     *)
LEMMA FailureStep ==
  ASSUME DirectoryInv, NEW r \in Descriptors,
         UNCHANGED <<managerVars, server, epoch, register_id, key_epoch>>,
         \A d \in Descriptors : d # r => SameRelay(d),
         pc' = pc \/ pc' = [pc EXCEPT ![r] = "failed"],
         thread' \in [Sessions -> Threads], SameButBroken(r)
  PROVE  DirectoryInv'
<1>0. DirectoryTypeOK /\ RelayOK(r)
  BY DEF DirectoryInv
<1>1. pc'[r] = pc[r] \/ pc'[r] = "failed"
  BY <1>0 DEF DirectoryTypeOK
<1>2. DirectoryTypeOK'
  BY <1>0 DEF DirectoryTypeOK
<1>3. \A id : HasEntry(r, id)' <=> HasEntry(r, id)
  BY TableStays
<1>4. Listed(r)' <=> Listed(r)
  BY TableStays
<1>5. PendingIn(r)' <=> PendingIn(r)
  BY DEF PendingIn, SameButBroken
<1>6. PendingOut(r)' <=> PendingOut(r)
  BY DEF PendingOut, SameButBroken
<1>7. Current(r)' <=> Current(r)
  BY DEF Current
<1>8. Active(In(r))' <=> Active(In(r))
  BY DEF Active, SameButBroken
<1>9. Active(Out(r))' <=> Active(Out(r))
  BY DEF Active, SameButBroken
<1>10. SessionsOK(r)'
  BY <1>0, <1>1, <1>8, <1>9 DEF SameButBroken, RelayOK, SessionsOK
<1>11. items' = items
  BY DEF managerVars, tableVars
<1>12. SignoutOK(r)'
  BY <1>0, <1>1, <1>3, <1>4, <1>6, <1>11 DEF SameButBroken, RelayOK, SignoutOK
<1>13. SignupOK(r)'
  <2>1. In(r).pc = "fill" /\ server = "up" => Unfilled(In(r).relay_data)'
    <3>1. PICK p : p = In(r).relay_data
      OBVIOUS
    <3>2. p = In(r).relay_data'
      BY <3>1 DEF SameButBroken
    <3>3. In(r).pc = "fill" /\ server = "up" => Unfilled(p)'
      BY <1>0, <3>1, TableStays DEF RelayOK, SignupOK
    <3>4. QED
      BY <3>2, <3>3 DEF Unfilled
  <2>2. QED
    BY <1>0, <1>1, <1>3, <1>4, <1>5, <1>7, <2>1 DEF SameButBroken, RelayOK, SignupOK
<1>14. RelayOK(r)'
  BY <1>10, <1>12, <1>13 DEF RelayOK
<1>15. \A p : Fills(r, p)' <=> Fills(r, p)
  BY DEF Fills, SameButBroken
<1>16. QED
  BY <1>2, <1>14, <1>15, QuietStep

-----------------------------------------------------------------------------
(* signup_server opens the first session, with the keys of the server      *)
(* process that runs, or fails.                                            *)
LEMMA SignsUpStep ==
  ASSUME DirectoryInv, NEW r \in Descriptors, RelaySignsUp(r)
  PROVE  DirectoryInv'
<1> DEFINE t == NewThread(Request("signup", INVALID_RELAY_ID))
<1>0. DirectoryTypeOK /\ RelayOK(r)
  BY DEF DirectoryInv
<1>1. CASE HandshakeSucceeds(r)
  <2>1. /\ t \in Threads /\ t.pc = "recv" /\ t.request.cmd = "signup" /\ t.response = None
    BY DEF NewThread, NoThread, Threads, Messages, Request, None
  <2> HIDE DEF t
  <2>2. /\ thread' \in [Sessions -> Threads]
        /\ In(r)' = t
        /\ Out(r)' = Out(r)
        /\ \A d \in Descriptors : d # r => In(d)' = In(d) /\ Out(d)' = Out(d)
    BY <1>0, <1>1, <2>1, SessionSet DEF RelaySignsUp, Visits, t
  <2>3. /\ pc[r] = "start" /\ server = "up"
        /\ pc' = [pc EXCEPT ![r] = "signup"]
        /\ key_epoch' = [key_epoch EXCEPT ![r] = epoch]
        /\ UNCHANGED <<managerVars, server, epoch, register_id>>
    BY <1>1 DEF RelaySignsUp, RelayAt, HandshakeSucceeds
  <2>4. pc'[r] = "signup" /\ key_epoch'[r] = epoch
    BY <1>0, <2>3 DEF DirectoryTypeOK
  <2>5. DirectoryTypeOK'
    BY <1>0, <2>2, <2>3 DEF DirectoryTypeOK
  <2>6. \A d \in Descriptors : d # r => SameRelay(d)
    BY <1>0, <2>2, <2>3 DEF DirectoryTypeOK, SameRelay
  <2>7. In(r).pc = "none" /\ Out(r).pc = "none" /\ Out(r).request = None /\ Out(r).response = None
    BY <1>0, <2>3 DEF RelayOK, SessionsOK
  <2>8. ~Listed(r)'
    BY <1>0, <2>3, TableStays DEF RelayOK, SignupOK
  <2>9. SessionsOK(r)'
    BY <1>0, <2>1, <2>2, <2>3, <2>4, <2>7 DEF SessionsOK, DirectoryTypeOK, None, Active, RelayOK
  <2>10. SignupOK(r)'
    BY <2>1, <2>2, <2>4, <2>7, <2>8 DEF SignupOK, PendingIn
  <2>11. SignoutOK(r)'
    BY <2>2, <2>4, <2>7 DEF SignoutOK, PendingOut, None
  <2>12. \A p : Fills(r, p)' <=> Fills(r, p)
    BY <2>1, <2>2, <2>7 DEF Fills
  <2>13. QED
    BY <2>3, <2>5, <2>6, <2>9, <2>10, <2>11, <2>12, QuietStep DEF RelayOK
<1>2. CASE ~HandshakeSucceeds(r)
  <2>1. /\ thread' = thread
        /\ pc' = [pc EXCEPT ![r] = "failed"]
        /\ UNCHANGED <<managerVars, server, epoch, register_id, key_epoch>>
    BY <1>2 DEF RelaySignsUp, Ends
  <2>2. thread' \in [Sessions -> Threads] /\ SameButBroken(r)
    BY <1>0, <2>1 DEF DirectoryTypeOK, SameButBroken, In, Out
  <2>3. \A d \in Descriptors : d # r => SameRelay(d)
    BY <1>0, <2>1 DEF DirectoryTypeOK, SameRelay, In, Out
  <2>4. QED
    BY <2>1, <2>2, <2>3, FailureStep
<1>3. QED
  BY <1>1, <1>2

(* recv_server_signup_res: the identifier the relay keeps is the one the   *)
(* server answered with.                                                   *)
LEMMA SignedUpStep ==
  ASSUME DirectoryInv, NEW r \in Descriptors, RelaySignedUp(r)
  PROVE  DirectoryInv'
<1> DEFINE s == <<r, "signup">>
<1>0. DirectoryTypeOK /\ RelayOK(r)
  BY DEF DirectoryInv
<1>1. CASE Answered(s) /\ RelayAt(r, "signup", "signup_exit")
           /\ register_id' = [register_id EXCEPT ![r] = thread[s].response.id]
           /\ Asks(s, Request("exit", INVALID_RELAY_ID))
  <2> DEFINE t == [In(r) EXCEPT !.request = Request("exit", INVALID_RELAY_ID), !.response = None]
  <2>1. In(r) \in Threads
    BY <1>0 DEF DirectoryTypeOK, Sessions, Visits, In
  <2>2. /\ t \in Threads /\ t.pc = In(r).pc /\ t.relay_data = In(r).relay_data
        /\ t.request.cmd = "exit" /\ t.response = None
    BY <2>1 DEF Threads, Messages, Request, None
  <2>3. thread' = [thread EXCEPT ![<<r, "signup">>] = t]
    BY <1>1 DEF Asks, In
  <2> HIDE DEF t
  <2>4. /\ thread' \in [Sessions -> Threads]
        /\ In(r)' = t
        /\ Out(r)' = Out(r)
        /\ \A d \in Descriptors : d # r => In(d)' = In(d) /\ Out(d)' = Out(d)
    BY <1>0, <2>2, <2>3, SessionSet DEF Visits
  <2>5. /\ pc[r] = "signup" /\ In(r).response # None
        /\ pc' = [pc EXCEPT ![r] = "signup_exit"]
        /\ register_id' = [register_id EXCEPT ![r] = In(r).response.id]
        /\ UNCHANGED <<managerVars, server, epoch, key_epoch>>
    BY <1>1 DEF RelaySignedUp, RelayAt, Answered, In
  <2>6. pc'[r] = "signup_exit" /\ register_id'[r] = In(r).response.id
    BY <1>0, <2>5 DEF DirectoryTypeOK
  <2>7. In(r).response.id \in Nat \cup {INVALID_RELAY_ID}
    BY <2>1 DEF Threads, Messages
  <2>8. DirectoryTypeOK'
    BY <1>0, <2>4, <2>5, <2>7 DEF DirectoryTypeOK
  <2>9. \A d \in Descriptors : d # r => SameRelay(d)
    BY <1>0, <2>4, <2>5 DEF DirectoryTypeOK, SameRelay
  <2>10. ~PendingIn(r) /\ In(r).pc # "none" /\ Out(r).pc = "none"
    BY <1>0, <2>5 DEF RelayOK, SignupOK, SessionsOK, PendingIn, None
  <2>11. SessionsOK(r)'
    BY <1>0, <2>2, <2>4, <2>5, <2>6, <2>10 DEF SessionsOK, Active, RelayOK
  <2>12. Current(r)' => HasEntry(r, register_id[r])'
    <3>1. Current(r)' => HasEntry(r, In(r).response.id)
      BY <1>0, <2>5 DEF Current, RelayOK, SignupOK
    <3>2. PICK id : id = In(r).response.id
      OBVIOUS
    <3>3. Current(r)' => HasEntry(r, id)'
      BY <2>5, <3>1, <3>2, TableStays
    <3>4. QED
      BY <2>6, <3>2, <3>3 DEF HasEntry
  <2>13. SignupOK(r)'
    BY <2>2, <2>4, <2>6, <2>10, <2>12 DEF SignupOK, PendingIn
  <2>14. SignoutOK(r)'
    BY <1>0, <2>4, <2>6, <2>10 DEF RelayOK, SignoutOK, SessionsOK, PendingOut, None
  <2>15. \A p : Fills(r, p)' <=> Fills(r, p)
    BY <2>2, <2>4 DEF Fills
  <2>16. QED
    BY <2>5, <2>8, <2>9, <2>11, <2>13, <2>14, <2>15, QuietStep DEF RelayOK
<1>2. CASE Ends(r) /\ UNCHANGED <<register_id, thread>>
  <2>1. thread' \in [Sessions -> Threads] /\ SameButBroken(r)
    BY <1>0, <1>2 DEF DirectoryTypeOK, SameButBroken, In, Out
  <2>2. \A d \in Descriptors : d # r => SameRelay(d)
    BY <1>0, <1>2 DEF DirectoryTypeOK, SameRelay, In, Out, RelaySignedUp, Ends
  <2>3. QED
    BY <1>2, <2>1, <2>2, FailureStep DEF RelaySignedUp, Ends
<1>3. QED
  BY <1>1, <1>2 DEF RelaySignedUp

(* signup_server and signout_server return, with nothing left to change.   *)
LEMMA ReturnStep ==
  ASSUME DirectoryInv, NEW r \in Descriptors, RelayRuns(r) \/ RelayStops(r)
  PROVE  DirectoryInv'
<1>0. DirectoryTypeOK /\ RelayOK(r)
  BY DEF DirectoryInv
<1>1. /\ \/ pc[r] = "signup_exit" /\ pc' = [pc EXCEPT ![r] = "running"]
         \/ pc[r] = "signout_exit" /\ pc' = [pc EXCEPT ![r] = "signed_out"]
      /\ UNCHANGED <<managerVars, server, epoch, register_id, key_epoch, thread>>
  BY DEF RelayRuns, RelayStops, RelayAt
<1>2. \/ pc[r] = "signup_exit" /\ pc'[r] = "running"
      \/ pc[r] = "signout_exit" /\ pc'[r] = "signed_out"
  BY <1>0, <1>1 DEF DirectoryTypeOK
<1>3. DirectoryTypeOK'
  BY <1>0, <1>1 DEF DirectoryTypeOK
<1>4. In(r)' = In(r) /\ Out(r)' = Out(r)
  BY <1>1 DEF In, Out
<1>5. \A d \in Descriptors : d # r => SameRelay(d)
  BY <1>0, <1>1 DEF DirectoryTypeOK, SameRelay, In, Out
<1>6. SessionsOK(r)'
  BY <1>0, <1>1, <1>2, <1>4 DEF SessionsOK, RelayOK
<1>7. /\ \A id : HasEntry(r, id)' <=> HasEntry(r, id)
      /\ Listed(r)' <=> Listed(r)
      /\ Unfilled(In(r).relay_data)' <=> Unfilled(In(r).relay_data)
      /\ items' = items
  <2>1. PICK p : p = In(r).relay_data
    OBVIOUS
  <2>2. Unfilled(p)' <=> Unfilled(p)
    BY <1>1, TableStays
  <2>3. Unfilled(In(r).relay_data)' <=> Unfilled(In(r).relay_data)
    BY <1>4, <2>1, <2>2 DEF Unfilled
  <2>4. QED
    BY <1>1, <2>3, TableStays DEF managerVars, tableVars
<1>8. SignupOK(r)'
  BY <1>0, <1>1, <1>2, <1>4, <1>7 DEF SignupOK, RelayOK, PendingIn, Current
<1>9. SignoutOK(r)'
  BY <1>0, <1>1, <1>2, <1>4, <1>7 DEF SignoutOK, RelayOK, PendingOut
<1>10. \A p : Fills(r, p)' <=> Fills(r, p)
  BY <1>4 DEF Fills
<1>11. QED
  BY <1>1, <1>3, <1>5, <1>6, <1>8, <1>9, <1>10, QuietStep DEF RelayOK

(* signout_server opens the second session, with the identifier of the     *)
(* relay's own entry if the server process is the one it signed up with.   *)
LEMMA SignsOutStep ==
  ASSUME DirectoryInv, NEW r \in Descriptors, RelaySignsOut(r)
  PROVE  DirectoryInv'
<1> DEFINE t == NewThread(Request("signout", register_id[r]))
<1>0. DirectoryTypeOK /\ RelayOK(r)
  BY DEF DirectoryInv
<1>1. CASE HandshakeSucceeds(r)
  <2>1. /\ t \in Threads /\ t.pc = "recv" /\ t.response = None /\ t.relay_data = NULL
        /\ t.request.cmd = "signout" /\ t.request.id = register_id[r]
    BY <1>0 DEF NewThread, NoThread, Threads, Messages, Request, None, DirectoryTypeOK
  <2> HIDE DEF t
  <2>2. /\ thread' \in [Sessions -> Threads]
        /\ In(r)' = In(r)
        /\ Out(r)' = t
        /\ \A d \in Descriptors : d # r => In(d)' = In(d) /\ Out(d)' = Out(d)
    BY <1>0, <1>1, <2>1, SessionSet DEF RelaySignsOut, Visits, t
  <2>3. /\ pc[r] = "running" /\ server = "up" /\ key_epoch[r] \in {0, epoch}
        /\ pc' = [pc EXCEPT ![r] = "signout"]
        /\ UNCHANGED <<managerVars, server, epoch, register_id, key_epoch>>
    BY <1>1 DEF RelaySignsOut, RelayAt, HandshakeSucceeds
  <2>4. pc'[r] = "signout"
    BY <1>0, <2>3 DEF DirectoryTypeOK
  <2>5. DirectoryTypeOK'
    BY <1>0, <2>2, <2>3 DEF DirectoryTypeOK
  <2>6. \A d \in Descriptors : d # r => SameRelay(d)
    BY <1>0, <2>2, <2>3 DEF DirectoryTypeOK, SameRelay
  <2>7. Out(r).pc = "none" /\ key_epoch[r] = epoch /\ ~PendingIn(r)
    BY <1>0, <2>3 DEF RelayOK, SessionsOK, SignupOK
  <2>8. HasEntry(r, register_id[r])
    BY <1>0, <2>3, <2>7 DEF RelayOK, SignupOK, Current
  <2>9. SessionsOK(r)'
    BY <1>0, <2>1, <2>2, <2>3, <2>4, <2>7 DEF SessionsOK, Active, RelayOK
  <2>10. SignupOK(r)'
    BY <2>2, <2>4, <2>7 DEF SignupOK, PendingIn
  <2>11. HasEntry(r, Out(r).request.id)'
    <3>1. PICK id : id = register_id[r]
      OBVIOUS
    <3>2. HasEntry(r, id)'
      BY <2>3, <2>8, <3>1, TableStays
    <3>3. QED
      BY <2>1, <2>2, <3>1, <3>2 DEF HasEntry
  <2>12. SignoutOK(r)'
    BY <2>1, <2>2, <2>4, <2>11 DEF SignoutOK, PendingOut
  <2>13. \A p : Fills(r, p)' <=> Fills(r, p)
    BY <2>2 DEF Fills
  <2>14. QED
    BY <2>3, <2>5, <2>6, <2>9, <2>10, <2>12, <2>13, QuietStep DEF RelayOK
<1>2. CASE ~HandshakeSucceeds(r)
  <2>1. /\ thread' = thread
        /\ pc' = [pc EXCEPT ![r] = "failed"]
        /\ UNCHANGED <<managerVars, server, epoch, register_id, key_epoch>>
    BY <1>2 DEF RelaySignsOut, Ends
  <2>2. thread' \in [Sessions -> Threads] /\ SameButBroken(r)
    BY <1>0, <2>1 DEF DirectoryTypeOK, SameButBroken, In, Out
  <2>3. \A d \in Descriptors : d # r => SameRelay(d)
    BY <1>0, <2>1 DEF DirectoryTypeOK, SameRelay, In, Out
  <2>4. QED
    BY <2>1, <2>2, <2>3, FailureStep
<1>3. QED
  BY <1>1, <1>2

(* recv_server_signout_res forgets the identifier.                         *)
LEMMA SignedOutStep ==
  ASSUME DirectoryInv, NEW r \in Descriptors, RelaySignedOut(r)
  PROVE  DirectoryInv'
<1> DEFINE s == <<r, "signout">>
<1>0. DirectoryTypeOK /\ RelayOK(r)
  BY DEF DirectoryInv
<1>1. CASE Answered(s) /\ RelayAt(r, "signout", "signout_exit")
           /\ register_id' = [register_id EXCEPT ![r] = INVALID_RELAY_ID]
           /\ Asks(s, Request("exit", INVALID_RELAY_ID))
  <2> DEFINE t == [Out(r) EXCEPT !.request = Request("exit", INVALID_RELAY_ID), !.response = None]
  <2>1. Out(r) \in Threads
    BY <1>0 DEF DirectoryTypeOK, Sessions, Visits, Out
  <2>2. /\ t \in Threads /\ t.pc = Out(r).pc /\ t.relay_data = Out(r).relay_data
        /\ t.request.cmd = "exit" /\ t.response = None
    BY <2>1 DEF Threads, Messages, Request, None
  <2>3. thread' = [thread EXCEPT ![<<r, "signout">>] = t]
    BY <1>1 DEF Asks, Out
  <2> HIDE DEF t
  <2>4. /\ thread' \in [Sessions -> Threads]
        /\ In(r)' = In(r)
        /\ Out(r)' = t
        /\ \A d \in Descriptors : d # r => In(d)' = In(d) /\ Out(d)' = Out(d)
    BY <1>0, <2>2, <2>3, SessionSet DEF Visits
  <2>5. /\ pc[r] = "signout" /\ Out(r).response # None
        /\ pc' = [pc EXCEPT ![r] = "signout_exit"]
        /\ register_id' = [register_id EXCEPT ![r] = INVALID_RELAY_ID]
        /\ UNCHANGED <<managerVars, server, epoch, key_epoch>>
    BY <1>1 DEF RelaySignedOut, RelayAt, Answered, Out
  <2>6. pc'[r] = "signout_exit"
    BY <1>0, <2>5 DEF DirectoryTypeOK
  <2>7. DirectoryTypeOK'
    BY <1>0, <2>4, <2>5 DEF DirectoryTypeOK
  <2>8. \A d \in Descriptors : d # r => SameRelay(d)
    BY <1>0, <2>4, <2>5 DEF DirectoryTypeOK, SameRelay
  <2>9. ~PendingIn(r) /\ ~PendingOut(r) /\ ~Listed(r) /\ Out(r).pc # "none"
    BY <1>0, <2>5 DEF RelayOK, SignupOK, SignoutOK, SessionsOK
  <2>10. SessionsOK(r)'
    BY <1>0, <2>2, <2>4, <2>5, <2>6, <2>9 DEF SessionsOK, Active, RelayOK
  <2>11. ~Listed(r)'
    BY <2>5, <2>9, TableStays
  <2>12. SignupOK(r)'
    BY <2>4, <2>6, <2>9 DEF SignupOK, PendingIn
  <2>13. SignoutOK(r)'
    BY <2>2, <2>4, <2>6, <2>9, <2>11 DEF SignoutOK, PendingOut
  <2>14. \A p : Fills(r, p)' <=> Fills(r, p)
    BY <2>4 DEF Fills
  <2>15. QED
    BY <2>5, <2>7, <2>8, <2>10, <2>12, <2>13, <2>14, QuietStep DEF RelayOK
<1>2. CASE Ends(r) /\ UNCHANGED <<register_id, thread>>
  <2>1. thread' \in [Sessions -> Threads] /\ SameButBroken(r)
    BY <1>0, <1>2 DEF DirectoryTypeOK, SameButBroken, In, Out
  <2>2. \A d \in Descriptors : d # r => SameRelay(d)
    BY <1>0, <1>2 DEF DirectoryTypeOK, SameRelay, In, Out, RelaySignedOut, Ends
  <2>3. QED
    BY <1>2, <2>1, <2>2, FailureStep DEF RelaySignedOut, Ends
<1>3. QED
  BY <1>1, <1>2 DEF RelaySignedOut

(* A relay's process dies: both of its connections break.                  *)
LEMMA CrashStep ==
  ASSUME DirectoryInv, NEW r \in Descriptors, RelayCrashes(r)
  PROVE  DirectoryInv'
<1>0. DirectoryTypeOK
  BY DEF DirectoryInv
<1>1. \A d \in Descriptors : <<d, "signup">> \in Sessions /\ <<d, "signout">> \in Sessions
  BY DEF Sessions, Visits
<1>2. \A s \in Sessions : thread[s] \in Threads /\ [thread[s] EXCEPT !.broken = TRUE] \in Threads
  BY <1>0 DEF DirectoryTypeOK, Threads
<1>3. thread' = [s \in Sessions |-> IF s[1] = r THEN [thread[s] EXCEPT !.broken = TRUE]
                                                ELSE thread[s]]
  BY DEF RelayCrashes
<1>4. thread' \in [Sessions -> Threads]
  BY <1>2, <1>3
<1>5. SameButBroken(r)
  <2>1. /\ In(r)' = [In(r) EXCEPT !.broken = TRUE]
        /\ Out(r)' = [Out(r) EXCEPT !.broken = TRUE]
    BY <1>1, <1>3 DEF In, Out
  <2>2. In(r) \in Threads /\ Out(r) \in Threads
    BY <1>1, <1>2 DEF In, Out
  <2>3. QED
    BY <2>1, <2>2 DEF SameButBroken, Threads
<1>6. \A d \in Descriptors : d # r => SameRelay(d)
  BY <1>0, <1>1, <1>3 DEF RelayCrashes, Ends, SameRelay, In, Out, DirectoryTypeOK
<1>7. QED
  BY <1>4, <1>5, <1>6, FailureStep DEF RelayCrashes, Ends

(* One connection breaks.                                                  *)
LEMMA BreakStep ==
  ASSUME DirectoryInv, NEW r \in Descriptors, NEW v \in Visits, Breaks(<<r, v>>)
  PROVE  DirectoryInv'
<1> DEFINE t == [thread[<<r, v>>] EXCEPT !.broken = TRUE]
<1>0. DirectoryTypeOK
  BY DEF DirectoryInv
<1>1. thread[<<r, v>>] \in Threads
  BY <1>0 DEF DirectoryTypeOK, Sessions
<1>2. /\ t \in Threads /\ t.pc = thread[<<r, v>>].pc /\ t.relay_data = thread[<<r, v>>].relay_data
      /\ t.request = thread[<<r, v>>].request /\ t.response = thread[<<r, v>>].response
  BY <1>1 DEF Threads
<1>3. thread' = [thread EXCEPT ![<<r, v>>] = t]
  BY DEF Breaks
<1> HIDE DEF t
<1>4. /\ thread' \in [Sessions -> Threads]
      /\ In(r)' = IF v = "signup" THEN t ELSE In(r)
      /\ Out(r)' = IF v = "signout" THEN t ELSE Out(r)
      /\ \A d \in Descriptors : d # r => In(d)' = In(d) /\ Out(d)' = Out(d)
  BY <1>0, <1>2, <1>3, SessionSet
<1>5. SameButBroken(r)
  BY <1>2, <1>4 DEF SameButBroken, In, Out
<1>6. \A d \in Descriptors : d # r => SameRelay(d)
  BY <1>4 DEF Breaks, SameRelay
<1>7. QED
  BY <1>4, <1>5, <1>6, FailureStep DEF Breaks

-----------------------------------------------------------------------------
(* A thread frees its socket and ends: on the end of its connection, or    *)
(* after its answer to exit.                                               *)
LEMMA EndedStep ==
  ASSUME DirectoryInv, NEW r \in Descriptors, NEW v \in Visits, NEW t \in Threads,
         UNCHANGED <<managerVars, server, epoch, pc, register_id, key_epoch>>,
         thread' = [thread EXCEPT ![<<r, v>>] = t],
         thread[<<r, v>>].pc = "recv", t.pc = "ended",
         \/ t.request = thread[<<r, v>>].request /\ t.response = thread[<<r, v>>].response
         \/ thread[<<r, v>>].request.cmd = "exit" /\ t.request = None
  PROVE  DirectoryInv'
<1>0. DirectoryTypeOK /\ RelayOK(r)
  BY DEF DirectoryInv
<1>1. /\ thread' \in [Sessions -> Threads]
      /\ In(r)' = IF v = "signup" THEN t ELSE In(r)
      /\ Out(r)' = IF v = "signout" THEN t ELSE Out(r)
      /\ \A d \in Descriptors : d # r => In(d)' = In(d) /\ Out(d)' = Out(d)
  BY <1>0, SessionSet
<1>2. DirectoryTypeOK'
  BY <1>0, <1>1 DEF DirectoryTypeOK
<1>3. \A d \in Descriptors : d # r => SameRelay(d)
  BY <1>1 DEF SameRelay
<1>4. /\ \A id : HasEntry(r, id)' <=> HasEntry(r, id)
      /\ Listed(r)' <=> Listed(r)
      /\ items' = items
  BY TableStays DEF managerVars, tableVars
<1>5. CASE v = "signup"
  <2>1. In(r).pc = "recv" /\ In(r)' = t /\ Out(r)' = Out(r)
    BY <1>1, <1>5 DEF In
  <2>2. \/ t.request = In(r).request /\ t.response = In(r).response
        \/ In(r).request.cmd = "exit" /\ t.request = None
    BY <1>5 DEF In
  <2>3. SessionsOK(r)'
    BY <1>0, <2>1, <2>2 DEF RelayOK, SessionsOK, Active, None
  <2>4. SignupOK(r)'
    BY <1>0, <1>4, <2>1, <2>2 DEF RelayOK, SessionsOK, SignupOK, PendingIn, Current
  <2>5. SignoutOK(r)'
    BY <1>0, <1>4, <2>1 DEF RelayOK, SignoutOK, PendingOut
  <2>6. \A p : Fills(r, p)' <=> Fills(r, p)
    BY <2>1 DEF Fills
  <2>7. QED
    BY <1>2, <1>3, <2>3, <2>4, <2>5, <2>6, QuietStep DEF RelayOK
<1>6. CASE v = "signout"
  <2>1. Out(r).pc = "recv" /\ Out(r)' = t /\ In(r)' = In(r)
    BY <1>1, <1>6 DEF Out
  <2>2. \/ t.request = Out(r).request /\ t.response = Out(r).response
        \/ Out(r).request.cmd = "exit" /\ t.request = None
    BY <1>6 DEF Out
  <2>3. SessionsOK(r)'
    BY <1>0, <2>1, <2>2 DEF RelayOK, SessionsOK, Active, None
  <2>4. ~PendingIn(r) /\ In(r).pc # "fill"
    BY <1>0, <2>1 DEF RelayOK, SignupOK, PendingIn
  <2>5. SignupOK(r)'
    BY <1>0, <1>4, <2>1, <2>4 DEF RelayOK, SignupOK, PendingIn, Current
  <2>6. SignoutOK(r)'
    BY <1>0, <1>4, <2>1, <2>2 DEF RelayOK, SignoutOK, PendingOut, None
  <2>7. \A p : Fills(r, p)' <=> Fills(r, p)
    BY <2>1 DEF Fills
  <2>8. QED
    BY <1>2, <1>3, <2>3, <2>5, <2>6, <2>7, QuietStep DEF RelayOK
<1>7. QED
  BY <1>5, <1>6 DEF Visits

(* A thread of the server ends on a broken connection.                     *)
LEMMA ReadsEndStep ==
  ASSUME DirectoryInv, NEW r \in Descriptors, NEW v \in Visits, ThreadReadsEnd(<<r, v>>)
  PROVE  DirectoryInv'
<1> DEFINE t == [thread[<<r, v>>] EXCEPT !.pc = "ended"]
<1>1. thread[<<r, v>>] \in Threads
  BY DEF DirectoryInv, DirectoryTypeOK, Sessions
<1>2. /\ t \in Threads /\ t.pc = "ended"
      /\ t.request = thread[<<r, v>>].request /\ t.response = thread[<<r, v>>].response
  BY <1>1 DEF Threads
<1>3. thread' = [thread EXCEPT ![<<r, v>>] = t]
  BY DEF ThreadReadsEnd
<1> HIDE DEF t
<1>4. QED
  BY <1>2, <1>3, EndedStep DEF ThreadReadsEnd

(* handle_exit.                                                            *)
LEMMA ExitStep ==
  ASSUME DirectoryInv, NEW r \in Descriptors, NEW v \in Visits, HandleExit(<<r, v>>)
  PROVE  DirectoryInv'
<1> DEFINE t == [thread[<<r, v>>] EXCEPT !.pc = "ended", !.relay_data = NULL, !.request = None,
                                         !.response = Request("success", INVALID_RELAY_ID)]
<1>1. thread[<<r, v>>] \in Threads
  BY DEF DirectoryInv, DirectoryTypeOK, Sessions
<1>2. t \in Threads /\ t.pc = "ended" /\ t.request = None
  BY <1>1 DEF Threads, Messages, Request, None
<1>3. thread' = [thread EXCEPT ![<<r, v>>] = t]
  BY DEF HandleExit
<1> HIDE DEF t
<1>4. /\ thread[<<r, v>>].pc = "recv" /\ thread[<<r, v>>].request.cmd = "exit"
      /\ UNCHANGED <<managerVars, server, epoch, pc, register_id, key_epoch>>
  BY Zenon DEF HandleExit, HasRequest
<1>5. QED
  BY ONLY <1>2, <1>3, <1>4, DirectoryInv, r \in Descriptors, v \in Visits, EndedStep

-----------------------------------------------------------------------------
(* The table is gone and so is whatever was promised of it.                *)
LEMMA GoneStep ==
  ASSUME DirectoryInv, server' \in {"exiting", "crashed", "down"},
         TableInv', UniqueRelayId', ~initialized', LiveIds' = {},
         UNCHANGED <<epoch, pc, register_id, key_epoch>>,
         \/ thread' = thread /\ server' # "down" /\ server # "down"
         \/ thread' = [s \in Sessions |->
                          IF thread[s].pc = "none" THEN NoThread
                          ELSE [thread[s] EXCEPT !.pc = "ended", !.relay_data = NULL]]
  PROVE  DirectoryInv'
<1>0. DirectoryTypeOK
  BY DEF DirectoryInv
<1>1. NoThread \in Threads /\ NoThread.pc = "none" /\ NoThread.request = None /\ NoThread.response = None
  BY DEF NoThread, Threads, Messages, None
<1>2. \A s \in Sessions : thread[s] \in Threads
  BY <1>0 DEF DirectoryTypeOK
<1>3. \A s \in Sessions : /\ [thread[s] EXCEPT !.pc = "ended", !.relay_data = NULL] \in Threads
                          /\ [thread[s] EXCEPT !.pc = "ended", !.relay_data = NULL].pc = "ended"
                          /\ [thread[s] EXCEPT !.pc = "ended", !.relay_data = NULL].request = thread[s].request
                          /\ [thread[s] EXCEPT !.pc = "ended", !.relay_data = NULL].response = thread[s].response
  BY <1>2 DEF Threads
<1>4. thread' \in [Sessions -> Threads]
  BY <1>0, <1>1, <1>3 DEF DirectoryTypeOK
<1>5. \A s \in Sessions :
         \/ thread' = thread /\ thread'[s] = thread[s] /\ server' # "down" /\ server # "down"
         \/ /\ thread[s].pc = "none" /\ thread'[s].pc = "none"
            /\ thread'[s].request = None /\ thread'[s].response = None
         \/ /\ thread[s].pc # "none" /\ thread'[s].pc = "ended"
            /\ thread'[s].request = thread[s].request /\ thread'[s].response = thread[s].response
  BY <1>1, <1>3
<1>6. DirectoryTypeOK'
  BY <1>0, <1>4 DEF DirectoryTypeOK
<1>7. TableOK' /\ EntriesOK'
  BY DEF TableOK, EntriesOK
<1>8. ASSUME NEW r \in Descriptors
      PROVE  RelayOK(r)'
  <2>0. RelayOK(r)
    BY DEF DirectoryInv
  <2>1. \/ In(r)' = In(r) /\ server' # "down" /\ server # "down" /\ Out(r)' = Out(r)
        \/ In(r).pc = "none" /\ In(r).pc' = "none" /\ In(r).request' = None /\ In(r).response' = None
        \/ In(r).pc # "none" /\ In(r).pc' = "ended" /\ In(r).request' = In(r).request
           /\ In(r).response' = In(r).response
    BY <1>5 DEF In, Out, Sessions, Visits
  <2>2. \/ Out(r)' = Out(r) /\ server' # "down" /\ server # "down" /\ In(r)' = In(r)
        \/ Out(r).pc = "none" /\ Out(r).pc' = "none" /\ Out(r).request' = None /\ Out(r).response' = None
        \/ Out(r).pc # "none" /\ Out(r).pc' = "ended" /\ Out(r).request' = Out(r).request
           /\ Out(r).response' = Out(r).response
    BY <1>5 DEF In, Out, Sessions, Visits
  <2>3. ~Listed(r)'
    BY DEF Listed
  <2>4. SessionsOK(r)'
    BY <2>0, <2>1, <2>2 DEF RelayOK, SessionsOK, Active, None
  <2>5. SignupOK(r)'
    BY <2>0, <2>1, <2>2, <2>3 DEF RelayOK, SignupOK, PendingIn, Current, None
  <2>6. SignoutOK(r)'
    BY <2>0, <2>1, <2>2, <2>3 DEF RelayOK, SignoutOK, PendingOut, None
  <2>7. QED
    BY <2>4, <2>5, <2>6 DEF RelayOK
<1>9. QED
  BY <1>6, <1>7, <1>8 DEF DirectoryInv

(* run_server's exit frees the tables, and so does the end of the process, *)
(* after a crash or not.                                                   *)
LEMMA ServerStopsStep ==
  ASSUME DirectoryInv, ServerExits \/ (TableGone /\ Crashes) \/ ServerGone
  PROVE  DirectoryInv'
<1>0. DirectoryTypeOK /\ TableOK
  BY DEF DirectoryInv
<1>1. CASE ServerExits
  <2>1. initialized /\ ManagerNext
    BY <1>1 DEF ServerExits, FreeRelayManager, ManagerNext
  <2>2. TableInv' /\ UniqueRelayId'
    BY <1>0, <2>1, NextTable, NextUnique DEF TableOK
  <2>3. ~initialized' /\ LiveIds' = {}
    BY <1>1 DEF ServerExits, FreeRelayManager, LiveIds, ItemSlots
  <2>4. QED
    BY <1>1, <2>2, <2>3, GoneStep DEF ServerExits
<1>2. CASE TableGone /\ Crashes
  <2>1. server = "exiting" /\ server' = "crashed" /\ thread' = thread
        /\ UNCHANGED <<managerVars, epoch, pc, register_id, key_epoch>>
    BY <1>2 DEF TableGone, Crashes
  <2>2. TableInv' /\ UniqueRelayId' /\ LiveIds' = {} /\ ~initialized'
    BY <1>0, <2>1, TableStays DEF TableOK, managerVars, tableVars
  <2>3. QED
    BY <2>1, <2>2, GoneStep
<1>3. CASE ServerGone
  <2>1. TableInv' /\ UniqueRelayId' /\ LiveIds' = {} /\ ~initialized'
    BY <1>0, <1>3, TableStays DEF TableOK, managerVars, tableVars, ServerGone
  <2>2. QED
    BY <1>3, <2>1, GoneStep DEF ServerGone
<1>4. QED
  BY <1>1, <1>2, <1>3

(* A new server process: no session outlived the old one, and no relay has *)
(* keys of the new one.                                                    *)
LEMMA ServerStartsStep ==
  ASSUME DirectoryInv, ServerStarts
  PROVE  DirectoryInv'
<1>0. DirectoryTypeOK /\ TableOK
  BY DEF DirectoryInv
<1>1. server = "down" /\ server' = "up" /\ epoch' = epoch + 1
      /\ UNCHANGED <<pc, register_id, key_epoch, thread>>
  BY DEF ServerStarts
<1>2. ManagerInit'
  BY DEF ServerStarts, ManagerInit
<1>3. TableInv'
  BY <1>2, InitTable, PTL
<1>4. LiveIds' = {} /\ initialized'
  BY DEF ServerStarts, LiveIds, ItemSlots
<1>5. DirectoryTypeOK'
  BY <1>0, <1>1 DEF DirectoryTypeOK
<1>6. \A r \in Descriptors : ~Active(In(r)) /\ ~Active(Out(r))
  BY <1>1 DEF DirectoryInv, RelayOK, SessionsOK
<1>7. TableOK'
  BY <1>1, <1>3, <1>4 DEF TableOK, UniqueRelayId
<1>8. \A r \in Descriptors : In(r)' = In(r) /\ Out(r)' = Out(r)
  BY <1>1 DEF In, Out
<1>9. EntriesOK'
  BY <1>4, <1>6, <1>8 DEF EntriesOK, Fills, Active
<1>10. ASSUME NEW r \in Descriptors
       PROVE  RelayOK(r)'
  <2>1. /\ RelayOK(r)
        /\ key_epoch'[r] = key_epoch[r] /\ pc'[r] = pc[r]
        /\ key_epoch[r] # epoch' /\ key_epoch[r] <= epoch'
    BY <1>0, <1>1 DEF DirectoryInv, DirectoryTypeOK, RelayOK, SessionsOK
  <2>2. In(r)' = In(r) /\ Out(r)' = Out(r) /\ ~Active(In(r)) /\ ~Active(Out(r))
    BY <1>6, <1>8
  <2>3. ~Listed(r)' /\ ~Current(r)'
    BY <1>0, <1>1, <1>4, <2>1 DEF Listed, Current, DirectoryTypeOK
  <2>4. SessionsOK(r)'
    <3>1. ~Active(In(r))' /\ ~Active(Out(r))'
      BY <2>2 DEF Active
    <3>2. QED
      BY <2>1, <2>2, <3>1 DEF RelayOK, SessionsOK
  <2>5. SignupOK(r)'
    BY <2>2, <2>3 DEF SignupOK, PendingIn, Active
  <2>6. SignoutOK(r)'
    BY <1>1, <2>1, <2>2, <2>3 DEF RelayOK, SignoutOK, PendingOut, Active
  <2>7. QED
    BY <2>4, <2>5, <2>6 DEF RelayOK
<1>11. QED
  BY <1>5, <1>7, <1>9, <1>10 DEF DirectoryInv

-----------------------------------------------------------------------------
(* handle_signup's gen_relay: the session points to an entry without a     *)
(* descriptor that no other session points to.                             *)
LEMMA SignupStep ==
  ASSUME DirectoryInv, NEW r \in Descriptors, NEW v \in Visits, HandleSignup(<<r, v>>)
  PROVE  DirectoryInv'
<1>0. DirectoryTypeOK /\ TableOK /\ EntriesOK /\ RelayOK(r)
  BY DEF DirectoryInv
<1>1. CASE TableGone
  BY <1>1, ServerStopsStep DEF HandleSignup
<1>2. CASE ~TableGone
  <2>1. /\ server = "up" /\ thread[<<r, v>>].pc = "recv" /\ thread[<<r, v>>].request.cmd = "signup"
        /\ UNCHANGED <<server, epoch, pc, register_id, key_epoch>>
    BY <1>2 DEF HandleSignup, HasRequest, Running, TableGone
  <2>2. v = "signup"
    BY <1>0, <2>1 DEF Visits, RelayOK, SessionsOK, Out
  <2>3. PICK p \in Objects \ LiveObjects :
           /\ GenRelay(p)
           /\ thread' = [thread EXCEPT ![<<r, v>>].pc = "fill", ![<<r, v>>].relay_data = p]
    BY <1>2 DEF HandleSignup
  <2> DEFINE t == [In(r) EXCEPT !.pc = "fill", !.relay_data = p]
  <2>4. In(r) \in Threads /\ In(r).pc = "recv" /\ In(r).request.cmd = "signup"
    BY <1>0, <2>1, <2>2 DEF DirectoryTypeOK, Sessions, Visits, In
  <2>5. /\ t \in Threads /\ t.pc = "fill" /\ t.relay_data = p
        /\ t.request = In(r).request /\ t.response = In(r).response
    BY <2>4 DEF Threads
  <2>6. thread' = [thread EXCEPT ![<<r, "signup">>] = t]
    BY <2>2, <2>3 DEF In
  <2> HIDE DEF t
  <2>7. /\ thread' \in [Sessions -> Threads]
        /\ In(r)' = t
        /\ Out(r)' = Out(r)
        /\ \A d \in Descriptors : d # r => In(d)' = In(d) /\ Out(d)' = Out(d)
    BY <1>0, <2>5, <2>6, SessionSet DEF Visits
  <2>8. DirectoryTypeOK'
    BY <1>0, <2>1, <2>7 DEF DirectoryTypeOK
  <2>9. /\ TableInv' /\ UniqueRelayId' /\ initialized'
        /\ Unfilled(p)'
        /\ \A i \in LiveIds' : \/ items'[i] = p
                               \/ /\ i \in LiveIds /\ items'[i] = items[i]
                                  /\ data'[items[i]] = data[items[i]]
        /\ \A i, j \in LiveIds' : items'[i] = p /\ items'[j] = p => i = j
        /\ \A d \in Descriptors : SameEntry(d)
    BY <1>0, <2>1, <2>3, GenEntries
  <2>10. TableOK'
    BY <2>1, <2>9 DEF TableOK
  <2>11. /\ ~Listed(r) /\ Out(r).pc = "none" /\ In(r).response = None
         /\ pc[r] \in {"signup", "failed"}
    BY <1>0, <2>4 DEF RelayOK, SignupOK, PendingIn
  <2>12. EntriesOK'
    <3>1. \A d \in Descriptors : \A q : d # r => (Fills(d, q)' <=> Fills(d, q))
      BY <2>7 DEF Fills
    <3>2. Fills(r, p)' /\ \A q : (Fills(r, q)' => q = p) /\ ~Fills(r, q)
      BY <2>4, <2>5, <2>7 DEF Fills
    <3>3. data'[p].descriptor = ZeroDescriptor
      BY <2>9 DEF Unfilled
    <3>4. ASSUME NEW i \in LiveIds', data'[items'[i]].descriptor = ZeroDescriptor
          PROVE  \E q \in Descriptors : Fills(q, items[i])'
      <4>1. CASE items'[i] = p
        BY <3>2, <4>1 DEF Fills
      <4>2. CASE items'[i] # p
        <5>1. i \in LiveIds /\ items'[i] = items[i] /\ data[items[i]].descriptor = ZeroDescriptor
          BY <2>9, <3>4, <4>2
        <5>2. PICK q \in Descriptors : Fills(q, items[i])
          BY <1>0, <5>1 DEF EntriesOK
        <5>3. q # r /\ In(q)' = In(q)
          BY <2>7, <3>2, <5>2
        <5>4. QED
          BY <5>1, <5>2, <5>3 DEF Fills
      <4>3. QED
        BY <4>1, <4>2
    <3>5. \A i, j \in LiveIds' : (data'[items'[i]].descriptor = data'[items'[j]].descriptor
                                  /\ data'[items'[i]].descriptor # ZeroDescriptor) => i = j
      BY <1>0, <2>9, <3>3 DEF EntriesOK
    <3>6. \A d \in Descriptors : d # r => ~Fills(d, p)
      <4> SUFFICES ASSUME NEW d \in Descriptors, Fills(d, p)
                   PROVE  FALSE
        OBVIOUS
      <4>1. RelayOK(d)
        BY DEF DirectoryInv
      <4>2. p \in LiveObjects
        BY <2>1, <4>1 DEF RelayOK, SignupOK, Fills, Unfilled
      <4>3. QED
        BY <4>2
    <3>7. \A c, d \in Descriptors : \A q \in Objects : Fills(c, q)' /\ Fills(d, q)' => c = d
      BY <1>0, <2>1, <3>1, <3>2, <3>6 DEF EntriesOK
    <3>8. QED
      BY <3>4, <3>5, <3>7 DEF EntriesOK
  <2>13. \A d \in Descriptors : d # r => SameRelay(d)
    BY <2>1, <2>7 DEF SameRelay
  <2>14. \A d \in Descriptors : d # r => RelayOK(d)'
    BY <2>1, <2>9, <2>13, OthersStay DEF DirectoryInv
  <2>15. RelayOK(r)'
    <3>1. SessionsOK(r)'
      BY <1>0, <2>1, <2>4, <2>5, <2>7, <2>11 DEF RelayOK, SessionsOK, Active
    <3>2. ~Listed(r)'
      BY <2>9, <2>11 DEF SameEntry, Listed, HasEntry
    <3>3. Unfilled(In(r).relay_data)' /\ p # NULL
      BY <2>5, <2>7, <2>9, ObjectsAssumption DEF Unfilled
    <3>4. SignupOK(r)'
      BY <2>1, <2>5, <2>7, <2>11, <3>2, <3>3 DEF SignupOK
    <3>5. SignoutOK(r)'
      BY <1>0, <2>1, <2>7, <2>11, <3>2 DEF RelayOK, SessionsOK, SignoutOK, PendingOut
    <3>6. QED
      BY <3>1, <3>4, <3>5 DEF RelayOK
  <2>16. QED
    BY <2>8, <2>10, <2>12, <2>14, <2>15 DEF DirectoryInv
<1>3. QED
  BY <1>1, <1>2

(* handle_signup's copy of the descriptor, after the table was unlocked:   *)
(* the pointer is still its own entry's, so the answer is the identifier   *)
(* under which the relay is listed from now on.                            *)
LEMMA SignupFillsStep ==
  ASSUME DirectoryInv, NEW r \in Descriptors, NEW v \in Visits, HandleSignupFills(<<r, v>>)
  PROVE  DirectoryInv'
<1> DEFINE p == In(r).relay_data
           t == [In(r) EXCEPT !.pc = IF In(r).broken THEN "ended" ELSE "recv",
                              !.relay_data = p,
                              !.request = None,
                              !.response = IF In(r).broken THEN @
                                           ELSE Request("success", data[p].relay_id)]
<1>0. DirectoryTypeOK /\ TableOK /\ EntriesOK /\ RelayOK(r)
  BY DEF DirectoryInv
<1>1. v = "signup" /\ In(r).pc = "fill"
  BY <1>0 DEF HandleSignupFills, Visits, RelayOK, SessionsOK, Out, In
<1>2. In(r) \in Threads /\ p \in Objects
  BY <1>0, <1>1 DEF DirectoryTypeOK, Sessions, Visits, In, RelayOK, SignupOK, Threads
<1>3. /\ ~Listed(r) /\ Out(r).pc = "none" /\ In(r).response = None
      /\ pc[r] \in {"signup", "failed"}
      /\ server = "up" => Unfilled(p)
  BY <1>0, <1>1 DEF RelayOK, SignupOK, PendingIn
<1>4. /\ UNCHANGED <<tableVars, server, epoch, pc, register_id, key_epoch>>
      /\ data' = [data EXCEPT ![p].descriptor = r]
      /\ server \in {"up", "exiting"}
  BY <1>1 DEF HandleSignupFills, Filled, In, Running
<1>5. thread' = [thread EXCEPT ![<<r, "signup">>] = t]
  BY <1>1 DEF HandleSignupFills, Responds, In
<1>6. data \in [Objects -> RelayData]
  BY <1>0 DEF TableOK, TableInv, ManagerTypeOK
<1>7. /\ t \in Threads
      /\ t.pc \in {"recv", "ended"}
      /\ t.request = None
      /\ t.response = None \/ t.response.id = data[p].relay_id
  <2>1. data[p].relay_id \in Nat
    BY <1>2, <1>6 DEF RelayData
  <2>2. CASE In(r).broken
    BY <1>2, <1>3, <2>2 DEF Threads, Messages, None
  <2>3. CASE ~In(r).broken
    BY <1>2, <2>1, <2>3 DEF Threads, Messages, None, Request
  <2>4. QED
    BY <2>2, <2>3
<1> HIDE DEF t
<1>8. /\ thread' \in [Sessions -> Threads]
      /\ In(r)' = t
      /\ Out(r)' = Out(r)
      /\ \A d \in Descriptors : d # r => In(d)' = In(d) /\ Out(d)' = Out(d)
  BY <1>0, <1>5, <1>7, SessionSet DEF Visits
<1>9. DirectoryTypeOK'
  BY <1>0, <1>4, <1>8 DEF DirectoryTypeOK
<1>10. PICK q \in Objects : q = p
  BY <1>2
<1>11. /\ TableInv' /\ UniqueRelayId'
       /\ LiveIds' = LiveIds /\ LiveObjects' = LiveObjects /\ items' = items
       /\ data'[q].descriptor = r /\ data'[q].relay_id = data[q].relay_id
       /\ \A o \in Objects : o # q => data'[o] = data[o]
  BY <1>0, <1>4, <1>10, FillEntries
<1>12. TableOK'
  BY <1>0, <1>4, <1>11 DEF TableOK, tableVars
<1>13. \A i \in LiveIds : items[i] \in Objects
  BY <1>0 DEF TableOK, TableInv, ManagerTypeOK, LiveIds
<1>14. \A d \in Descriptors : d # r /\ server = "up" => ~Fills(d, q)
  BY <1>0, <1>1, <1>10 DEF EntriesOK, Fills
<1>15. \A d \in Descriptors : \A o : Fills(d, o)' => Fills(d, o) /\ d # r
  BY <1>7, <1>8 DEF Fills
<1>16. EntriesOK'
  <2>1. ASSUME NEW i \in LiveIds, data'[items[i]].descriptor = ZeroDescriptor
        PROVE  \E d \in Descriptors : Fills(d, items[i])'
    <3>1. items[i] # q /\ data[items[i]].descriptor = ZeroDescriptor
      BY <1>11, <1>13, <2>1, DirectoryAssumption
    <3>2. PICK d \in Descriptors : Fills(d, items[i])
      BY <1>0, <3>1 DEF EntriesOK
    <3>3. d # r
      BY <1>10, <3>1, <3>2 DEF Fills
    <3>4. QED
      BY <1>8, <1>11, <3>2, <3>3 DEF Fills
  <2>2. \A i \in LiveIds : items[i] # q =>
           data'[items[i]] = data[items[i]] /\ data[items[i]].descriptor # r
    BY <1>3, <1>11, <1>13 DEF Listed, HasEntry
  <2>3. \A i, j \in LiveIds : items[i] = q /\ items[j] = q => i = j
    BY <1>0 DEF TableOK, UniqueRelayId
  <2>4. \A i, j \in LiveIds : (data'[items[i]].descriptor = data'[items[j]].descriptor
                               /\ data'[items[i]].descriptor # ZeroDescriptor) => i = j
    BY <1>0, <1>11, <2>2, <2>3 DEF EntriesOK
  <2>5. server' = "up" => \A c, d \in Descriptors : \A o \in Objects :
                              Fills(c, o)' /\ Fills(d, o)' => c = d
    BY <1>0, <1>4, <1>15 DEF EntriesOK
  <2>6. QED
    BY <1>11, <2>1, <2>4, <2>5 DEF EntriesOK
<1>17. \A d \in Descriptors : d # r => SameRelay(d)
  BY <1>4, <1>8 DEF SameRelay
<1>18. ASSUME NEW d \in Descriptors, d # r
       PROVE  SameEntry(d)
  <2>1. \A id : HasEntry(d, id) <=> HasEntry(d, id)'
    <3> SUFFICES ASSUME NEW id \in LiveIds
                 PROVE  HasEntry(d, id) <=> HasEntry(d, id)'
      BY <1>11 DEF HasEntry
    <3>1. CASE items[id] = q
      <4>1. server = "up"
        BY <1>0 DEF TableOK
      <4>2. data[q].descriptor = ZeroDescriptor
        BY <1>3, <1>10, <4>1 DEF Unfilled
      <4>3. QED
        BY <1>11, <1>18, <3>1, <4>2, DirectoryAssumption DEF HasEntry
    <3>2. CASE items[id] # q
      BY <1>11, <1>13, <3>2 DEF HasEntry
    <3>3. QED
      BY <3>1, <3>2
  <2>2. ASSUME NEW o, Fills(d, o), Unfilled(o)
        PROVE  Unfilled(o)'
    <3>1. server = "up"
      BY <1>0, <2>2 DEF TableOK, Unfilled, LiveObjects
    <3>2. o # q
      BY <1>14, <1>18, <2>2, <3>1
    <3>3. o \in Objects
      BY <1>13, <2>2 DEF Unfilled, LiveObjects
    <3>4. QED
      BY <1>11, <2>2, <3>2, <3>3 DEF Unfilled
  <2>3. QED
    BY <1>11, <2>1, <2>2 DEF SameEntry
<1>19. \A d \in Descriptors : d # r => RelayOK(d)'
  BY <1>4, <1>17, <1>18, OthersStay DEF DirectoryInv
<1>20. RelayOK(r)'
  <2>1. SessionsOK(r)'
    BY <1>0, <1>1, <1>3, <1>4, <1>7, <1>8 DEF RelayOK, SessionsOK, Active, None
  <2>2. SignupOK(r)'
    <3>1. PICK id : id = data[p].relay_id
      OBVIOUS
    <3>2. server = "up" => id \in LiveIds /\ data'[items[id]].descriptor = r
      <4> SUFFICES ASSUME server = "up"
                   PROVE  id \in LiveIds /\ data'[items[id]].descriptor = r
        OBVIOUS
      <4>1. PICK i \in LiveIds : items[i] = q
        BY <1>3, <1>10 DEF Unfilled, LiveObjects
      <4>2. id = i
        BY <1>0, <1>10, <3>1, <4>1 DEF TableOK, UniqueRelayId
      <4>3. QED
        BY <1>11, <4>1, <4>2
    <3>3. In(r).response' = None \/ In(r).response'.id = id
      BY <1>7, <1>8, <3>1
    <3>4. server' = "up" /\ In(r).response' # None => HasEntry(r, In(r).response.id)'
      BY <1>4, <1>8, <1>11, <3>2, <3>3 DEF HasEntry
    <3>5. ~PendingIn(r)' /\ In(r).pc' # "fill" /\ pc'[r] \in {"signup", "failed"}
      BY <1>3, <1>4, <1>7, <1>8 DEF PendingIn, None
    <3>6. QED
      BY <3>4, <3>5 DEF SignupOK, Current
  <2>3. SignoutOK(r)'
    BY <1>0, <1>3, <1>4, <1>8 DEF RelayOK, SessionsOK, SignoutOK, PendingOut, None
  <2>4. QED
    BY <2>1, <2>2, <2>3 DEF RelayOK
<1>21. QED
  BY <1>9, <1>12, <1>16, <1>19, <1>20 DEF DirectoryInv

-----------------------------------------------------------------------------
(* A step of a session that is signing out, which leaves the table alone:  *)
(* either it goes on with the relay's own entry, or it has answered and    *)
(* there is no entry.                                                      *)
LEMMA SignoutQuiet ==
  ASSUME DirectoryInv, NEW r \in Descriptors, NEW t \in Threads,
         UNCHANGED <<managerVars, server, epoch, pc, register_id, key_epoch>>,
         thread' = [thread EXCEPT ![<<r, "signout">>] = t],
         PendingOut(r), server # "down",
         \/ /\ t.pc \in {"compare", "remove"}
            /\ t.request = Out(r).request /\ t.response = Out(r).response
            /\ t.relay_data # NULL
            /\ server = "up" => t.relay_data = items[Out(r).request.id]
         \/ /\ t.pc \in {"recv", "ended"} /\ t.request = None
            /\ server # "up"
  PROVE  DirectoryInv'
<1>0. DirectoryTypeOK /\ TableOK /\ RelayOK(r)
  BY DEF DirectoryInv
<1>1. /\ thread' \in [Sessions -> Threads]
      /\ In(r)' = In(r)
      /\ Out(r)' = t
      /\ \A d \in Descriptors : d # r => In(d)' = In(d) /\ Out(d)' = Out(d)
  BY <1>0, SessionSet DEF Visits
<1>2. DirectoryTypeOK'
  BY <1>0, <1>1 DEF DirectoryTypeOK
<1>3. \A d \in Descriptors : d # r => SameRelay(d)
  BY <1>1 DEF SameRelay
<1>4. /\ \A id : HasEntry(r, id)' <=> HasEntry(r, id)
      /\ Listed(r)' <=> Listed(r)
      /\ items' = items
  BY TableStays DEF managerVars, tableVars
<1>5. /\ Out(r).pc # "none" /\ ~PendingIn(r) /\ key_epoch[r] = epoch
      /\ Out(r).response = None /\ Out(r).request.cmd = "signout"
      /\ server = "up" => HasEntry(r, Out(r).request.id)
  BY <1>0 DEF RelayOK, SessionsOK, SignupOK, SignoutOK, PendingOut, Active
<1>6. server # "up" => ~Listed(r)
  BY <1>0 DEF TableOK, Listed
<1>7. SessionsOK(r)'
  BY <1>0, <1>1, <1>5 DEF RelayOK, SessionsOK, Active, None
<1>8. SignupOK(r)'
  BY <1>0, <1>1, <1>4, <1>5 DEF RelayOK, SignupOK, PendingIn, Current
<1>9. SignoutOK(r)'
  <2>1. CASE /\ t.pc \in {"compare", "remove"}
             /\ t.request = Out(r).request /\ t.response = Out(r).response
             /\ t.relay_data # NULL
             /\ server = "up" => t.relay_data = items[Out(r).request.id]
    <3>1. PICK id : id = Out(r).request.id
      OBVIOUS
    <3>2. Out(r).request'.id = id
      BY <1>1, <2>1, <3>1
    <3>3. server = "up" => HasEntry(r, id)'
      BY <1>4, <1>5, <3>1
    <3>4. server' = "up" => HasEntry(r, Out(r).request.id)'
      BY <3>2, <3>3 DEF HasEntry
    <3>5. QED
      BY <1>0, <1>1, <1>4, <1>5, <2>1, <3>4 DEF RelayOK, SignoutOK, PendingOut
  <2>2. CASE t.pc \in {"recv", "ended"} /\ t.request = None /\ server # "up"
    BY <1>1, <1>4, <1>6, <2>2 DEF SignoutOK, PendingOut, None
  <2>3. QED
    BY <2>1, <2>2
<1>10. \A p : Fills(r, p)' <=> Fills(r, p)
  BY <1>1 DEF Fills
<1>11. QED
  BY <1>2, <1>3, <1>7, <1>8, <1>9, <1>10, QuietStep DEF RelayOK

(* A response is a message, and the thread goes on or ends.                *)
LEMMA ResponseType ==
  ASSUME DirectoryInv, NEW r \in Descriptors, NEW v \in Visits,
         NEW code \in {"success", "base_error"}, NEW p \in Objects \cup {NULL},
         Responds(<<r, v>>, code, INVALID_RELAY_ID, p)
  PROVE  \E t \in Threads : /\ thread' = [thread EXCEPT ![<<r, v>>] = t]
                            /\ t.pc \in {"recv", "ended"} /\ t.request = None
<1> DEFINE u == thread[<<r, v>>]
           t == [u EXCEPT !.pc = IF u.broken THEN "ended" ELSE "recv",
                          !.relay_data = p,
                          !.request = None,
                          !.response = IF u.broken THEN @ ELSE Request(code, INVALID_RELAY_ID)]
<1>1. u \in Threads
  BY DEF DirectoryInv, DirectoryTypeOK, Sessions
<1>2. t \in Threads /\ t.pc \in {"recv", "ended"} /\ t.request = None
  <2>1. CASE u.broken
    BY <1>1, <2>1 DEF Threads, Messages, None
  <2>2. CASE ~u.broken
    BY <1>1, <2>2 DEF Threads, Messages, None, Request
  <2>3. QED
    BY <2>1, <2>2
<1>3. thread' = [thread EXCEPT ![<<r, v>>] = t]
  BY DEF Responds
<1>4. QED
  BY <1>2, <1>3

(* handle_signout's get_relay finds the relay's own entry.                 *)
LEMMA SignoutStep ==
  ASSUME DirectoryInv, NEW r \in Descriptors, NEW v \in Visits, HandleSignout(<<r, v>>)
  PROVE  DirectoryInv'
<1>0. DirectoryTypeOK /\ TableOK /\ RelayOK(r)
  BY DEF DirectoryInv
<1>1. /\ thread[<<r, v>>].pc = "recv" /\ thread[<<r, v>>].request.cmd = "signout"
      /\ server \in {"up", "exiting"}
      /\ UNCHANGED <<managerVars, server, epoch, pc, register_id, key_epoch>>
  BY DEF HandleSignout, HasRequest, Running
<1>2. v = "signout"
  BY <1>0, <1>1 DEF Visits, RelayOK, SessionsOK, In
<1>3. Out(r).pc = "recv" /\ PendingOut(r) /\ Out(r).relay_data = NULL
  BY <1>0, <1>1, <1>2 DEF Out, PendingOut, RelayOK, SignoutOK
<1> DEFINE p == GetRelay(Out(r).request.id)
<1>4. IF p = NULL
      THEN Responds(<<r, v>>, "base_error", INVALID_RELAY_ID, NULL)
      ELSE thread' = [thread EXCEPT ![<<r, v>>].pc = "compare", ![<<r, v>>].relay_data = p]
  BY <1>2, <1>3 DEF HandleSignout, Out
<1>5. server = "up" => p = items[Out(r).request.id] /\ p # NULL
  BY <1>0, <1>3 DEF RelayOK, SignoutOK, HasEntry, LiveIds, GetRelay, Exists
<1>6. CASE p = NULL
  <2>1. PICK t \in Threads : /\ thread' = [thread EXCEPT ![<<r, v>>] = t]
                             /\ t.pc \in {"recv", "ended"} /\ t.request = None
    BY <1>4, <1>6, ResponseType
  <2>2. QED
    BY <1>1, <1>2, <1>3, <1>5, <1>6, <2>1, SignoutQuiet
<1>7. CASE p # NULL
  <2> DEFINE t == [Out(r) EXCEPT !.pc = "compare", !.relay_data = p]
  <2>1. p \in Objects
    BY <1>0, <1>7 DEF GetRelay, Exists, TableOK, TableInv, ManagerTypeOK
  <2>2. Out(r) \in Threads
    BY <1>0 DEF DirectoryTypeOK, Sessions, Visits, Out
  <2>3. /\ t \in Threads /\ t.pc = "compare" /\ t.relay_data = p
        /\ t.request = Out(r).request /\ t.response = Out(r).response
    BY <2>1, <2>2 DEF Threads
  <2>4. thread' = [thread EXCEPT ![<<r, "signout">>] = t]
    BY <1>2, <1>4, <1>7 DEF Out
  <2> HIDE DEF t
  <2>5. QED
    BY <1>1, <1>3, <1>5, <1>7, <2>3, <2>4, SignoutQuiet
<1>8. QED
  BY <1>6, <1>7

(* handle_signout's comparison succeeds, while the table is there.         *)
LEMMA SignoutComparesStep ==
  ASSUME DirectoryInv, NEW r \in Descriptors, NEW v \in Visits, HandleSignoutCompares(<<r, v>>)
  PROVE  DirectoryInv'
<1>0. DirectoryTypeOK /\ TableOK /\ RelayOK(r)
  BY DEF DirectoryInv
<1>1. /\ thread[<<r, v>>].pc = "compare"
      /\ server \in {"up", "exiting"}
      /\ UNCHANGED <<managerVars, server, epoch, pc, register_id, key_epoch>>
  BY DEF HandleSignoutCompares, Running
<1>2. v = "signout"
  BY <1>0, <1>1 DEF Visits, RelayOK, SessionsOK, In
<1>3. Out(r).pc = "compare" /\ PendingOut(r)
  BY <1>1, <1>2 DEF Out, PendingOut
<1>4. /\ Out(r).relay_data # NULL
      /\ server = "up" => /\ Out(r).relay_data = items[Out(r).request.id]
                          /\ OwnKey(<<r, v>>)
  BY <1>0, <1>2, <1>3 DEF RelayOK, SignoutOK, HasEntry, OwnKey, Out
<1>5. Out(r) \in Threads
  BY <1>0 DEF DirectoryTypeOK, Sessions, Visits, Out
<1>6. CASE OwnKey(<<r, v>>)
  <2> DEFINE t == [Out(r) EXCEPT !.pc = "remove"]
  <2>1. /\ t \in Threads /\ t.pc = "remove" /\ t.relay_data = Out(r).relay_data
        /\ t.request = Out(r).request /\ t.response = Out(r).response
    BY <1>5 DEF Threads
  <2>2. thread' = [thread EXCEPT ![<<r, "signout">>] = t]
    BY <1>2, <1>6 DEF HandleSignoutCompares, Out
  <2> HIDE DEF t
  <2>3. QED
    BY <1>1, <1>3, <1>4, <2>1, <2>2, SignoutQuiet
<1>7. CASE ~OwnKey(<<r, v>>)
  <2>1. PICK p \in Objects \cup {NULL} : Responds(<<r, v>>, "base_error", INVALID_RELAY_ID, p)
    BY <1>2, <1>5, <1>7 DEF HandleSignoutCompares, Threads, Out
  <2>2. PICK t \in Threads : /\ thread' = [thread EXCEPT ![<<r, v>>] = t]
                             /\ t.pc \in {"recv", "ended"} /\ t.request = None
    BY <2>1, ResponseType
  <2>3. QED
    BY <1>1, <1>2, <1>3, <1>4, <1>7, <2>2, SignoutQuiet
<1>8. QED
  BY <1>6, <1>7

(* handle_signout's remove_relay takes the relay's own entry away, and the *)
(* relay has no other.                                                     *)
LEMMA SignoutRemovesStep ==
  ASSUME DirectoryInv, NEW r \in Descriptors, NEW v \in Visits, HandleSignoutRemoves(<<r, v>>)
  PROVE  DirectoryInv'
<1>0. DirectoryTypeOK /\ TableOK /\ EntriesOK /\ RelayOK(r)
  BY DEF DirectoryInv
<1>1. CASE TableGone
  BY <1>1, ServerStopsStep DEF HandleSignoutRemoves
<1>2. CASE ~TableGone
  <2>1. /\ server = "up" /\ thread[<<r, v>>].pc = "remove"
        /\ UNCHANGED <<server, epoch, pc, register_id, key_epoch>>
    BY <1>2 DEF HandleSignoutRemoves, Running, TableGone
  <2>2. v = "signout"
    BY <1>0, <2>1 DEF Visits, RelayOK, SessionsOK, In
  <2> DEFINE i == Out(r).request.id
  <2>3. /\ Out(r).pc = "remove" /\ PendingOut(r)
        /\ HasEntry(r, i) /\ Out(r).relay_data = items[i]
    BY <1>0, <2>1, <2>2 DEF Out, PendingOut, RelayOK, SignoutOK
  <2>4. /\ i \in LiveIds /\ data[items[i]].descriptor = r
        /\ data[Out(r).relay_data].relay_id = i
    BY <1>0, <2>3 DEF HasEntry, TableOK, UniqueRelayId
  <2>5. Exists(i)
    BY <2>4 DEF LiveIds, Exists
  <2>6. RemoveRelay(i) /\ Responds(<<r, v>>, "success", INVALID_RELAY_ID, NULL)
    BY <1>2, <2>2, <2>4, <2>5 DEF HandleSignoutRemoves, RemoveRelayFails, Out
  <2>7. PICK t \in Threads : /\ thread' = [thread EXCEPT ![<<r, v>>] = t]
                             /\ t.pc \in {"recv", "ended"} /\ t.request = None
    BY <2>6, ResponseType
  <2>8. /\ thread' \in [Sessions -> Threads]
        /\ In(r)' = In(r)
        /\ Out(r)' = t
        /\ \A d \in Descriptors : d # r => In(d)' = In(d) /\ Out(d)' = Out(d)
    BY <1>0, <2>2, <2>7, SessionSet DEF Visits
  <2>9. DirectoryTypeOK'
    BY <1>0, <2>1, <2>8 DEF DirectoryTypeOK
  <2>10. PICK id \in LiveIds : id = i
    BY <2>4
  <2>11. /\ TableInv' /\ UniqueRelayId' /\ initialized'
         /\ LiveIds' = LiveIds \ {id}
         /\ \A j \in LiveIds' : items'[j] = items[j]
         /\ data' = data
    BY <1>0, <2>1, <2>6, <2>10, RemoveEntries
  <2>12. TableOK'
    BY <2>1, <2>11 DEF TableOK
  <2>13. \A d \in Descriptors : \A p : Fills(d, p)' <=> Fills(d, p)
    BY <2>8 DEF Fills
  <2>14. EntriesOK'
    <3>1. ASSUME NEW j \in LiveIds', data'[items'[j]].descriptor = ZeroDescriptor
          PROVE  \E d \in Descriptors : Fills(d, items[j])'
      <4>1. j \in LiveIds /\ items'[j] = items[j] /\ data[items[j]].descriptor = ZeroDescriptor
        BY <2>11, <3>1
      <4>2. PICK d \in Descriptors : Fills(d, items[j])
        BY <1>0, <4>1 DEF EntriesOK
      <4>3. PICK o : o = items[j]
        OBVIOUS
      <4>4. Fills(d, o)'
        BY <2>13, <4>2, <4>3
      <4>5. QED
        BY <4>1, <4>3, <4>4 DEF Fills
    <3>2. \A j, k \in LiveIds' : (data'[items'[j]].descriptor = data'[items'[k]].descriptor
                                  /\ data'[items'[j]].descriptor # ZeroDescriptor) => j = k
      BY <1>0, <2>11 DEF EntriesOK
    <3>3. \A c, d \in Descriptors : \A o \in Objects : Fills(c, o)' /\ Fills(d, o)' => c = d
      BY <1>0, <2>1, <2>13 DEF EntriesOK
    <3>4. QED
      BY <3>1, <3>2, <3>3 DEF EntriesOK
  <2>15. \A d \in Descriptors : d # r => SameRelay(d)
    BY <2>1, <2>8 DEF SameRelay
  <2>16. ASSUME NEW d \in Descriptors, d # r
         PROVE  SameEntry(d)
    <3>1. \A j : HasEntry(d, j) => j \in LiveIds'
      BY <2>4, <2>10, <2>11, <2>16 DEF HasEntry
    <3>2. \A o : Unfilled(o) => Unfilled(o)'
      <4> SUFFICES ASSUME NEW o, Unfilled(o)
                   PROVE  Unfilled(o)'
        OBVIOUS
      <4>1. PICK j \in LiveIds : items[j] = o
        BY DEF Unfilled, LiveObjects
      <4>2. j # id
        BY <2>4, <2>10, <4>1, DirectoryAssumption DEF Unfilled
      <4>3. QED
        BY <2>11, <4>1, <4>2 DEF Unfilled, LiveObjects
    <3>3. QED
      BY <2>11, <3>1, <3>2 DEF SameEntry, HasEntry
  <2>17. \A d \in Descriptors : d # r => RelayOK(d)'
    BY <2>1, <2>15, <2>16, OthersStay DEF DirectoryInv
  <2>18. RelayOK(r)'
    <3>1. ~Listed(r)'
      BY <1>0, <2>4, <2>10, <2>11, DirectoryAssumption DEF Listed, HasEntry, EntriesOK
    <3>2. Out(r).pc # "none" /\ ~PendingIn(r)
      BY <1>0, <2>3 DEF RelayOK, SignupOK
    <3>3. SessionsOK(r)'
      BY <1>0, <2>1, <2>3, <2>7, <2>8 DEF RelayOK, SessionsOK, Active, None
    <3>4. SignupOK(r)'
      BY <1>0, <2>1, <2>8, <3>1, <3>2 DEF RelayOK, SessionsOK, SignupOK, PendingIn
    <3>5. SignoutOK(r)'
      BY <2>7, <2>8, <3>1 DEF SignoutOK, PendingOut, None
    <3>6. QED
      BY <3>3, <3>4, <3>5 DEF RelayOK
  <2>19. QED
    BY <2>9, <2>12, <2>14, <2>17, <2>18 DEF DirectoryInv
<1>3. QED
  BY <1>1, <1>2

-----------------------------------------------------------------------------
(* A server that has just started, with no relay signed up. *)
LEMMA InitDirectory == Init => DirectoryInv
<1> SUFFICES ASSUME Init
             PROVE  DirectoryInv
  OBVIOUS
<1>1. TableInv
  BY InitTable DEF Init
<1>2. LiveIds = {} /\ initialized
  BY DEF Init, ManagerInit, LiveIds, ItemSlots
<1>3. NoThread \in Threads /\ NoThread.pc = "none" /\ NoThread.request = None /\ NoThread.response = None
  BY DEF NoThread, Threads, Messages, None
<1>4. DirectoryTypeOK
  BY <1>3 DEF Init, DirectoryTypeOK
<1>5. \A r \in Descriptors : In(r) = NoThread /\ Out(r) = NoThread /\ ~Listed(r)
  BY <1>2 DEF Init, In, Out, Sessions, Visits, Listed
<1>6. TableOK /\ EntriesOK
  BY <1>1, <1>2, <1>3, <1>5 DEF Init, TableOK, UniqueRelayId, EntriesOK, Fills
<1>7. ASSUME NEW r \in Descriptors
      PROVE  RelayOK(r)
  <2>1. pc[r] = "start" /\ key_epoch[r] = 0 /\ epoch = 1
    BY DEF Init
  <2>2. SessionsOK(r)
    BY <1>3, <1>5, <2>1 DEF SessionsOK, None, Active
  <2>3. SignupOK(r)
    BY <1>3, <1>5, <2>1 DEF SignupOK, PendingIn
  <2>4. SignoutOK(r)
    BY <1>3, <1>5, <2>1 DEF SignoutOK, PendingOut, None
  <2>5. QED
    BY <2>2, <2>3, <2>4 DEF RelayOK
<1>8. QED
  BY <1>4, <1>6, <1>7 DEF DirectoryInv

(* Every step of a relay, of a thread of the server or of the server as a  *)
(* process keeps the invariant.                                            *)
LEMMA NextDirectory == DirectoryInv /\ [Next]_vars => DirectoryInv'
<1> SUFFICES ASSUME DirectoryInv, [Next]_vars
             PROVE  DirectoryInv'
  OBVIOUS
<1>1. ASSUME NEW r \in Descriptors, RelayStep(r) \/ RelaySignsOut(r) \/ RelayCrashes(r)
      PROVE  DirectoryInv'
  BY <1>1, SignsUpStep, SignedUpStep, ReturnStep, SignsOutStep, SignedOutStep, CrashStep
  DEF RelayStep
<1>2. ASSUME NEW s \in Sessions, ThreadStep(s) \/ Breaks(s)
      PROVE  DirectoryInv'
  <2>1. PICK r \in Descriptors, v \in Visits : s = <<r, v>>
    BY DEF Sessions
  <2>2. QED
    BY <1>2, <2>1, ReadsEndStep, SignupStep, SignupFillsStep, SignoutStep, SignoutComparesStep,
       SignoutRemovesStep, ExitStep, BreakStep
    DEF ThreadStep
<1>3. CASE MapOfFreedTable \/ ServerExits \/ ServerGone
  BY <1>3, ServerStopsStep DEF MapOfFreedTable
<1>4. CASE ServerStarts
  BY <1>4, ServerStartsStep
<1>5. CASE UNCHANGED vars
  <2>1. UNCHANGED <<managerVars, server, epoch, pc, register_id, key_epoch, thread>>
    BY <1>5 DEF vars, directoryVars
  <2>2. DirectoryTypeOK'
    BY <2>1 DEF DirectoryInv, DirectoryTypeOK
  <2>3. \A d \in Descriptors : SameRelay(d)
    BY <2>1 DEF SameRelay, In, Out
  <2>4. \A d \in Descriptors : RelayOK(d)'
    BY <2>1, <2>3, TableStays, OthersStay DEF DirectoryInv
  <2>5. TableOK'
    BY <2>1, TableStays DEF DirectoryInv, TableOK, managerVars, tableVars
  <2>6. EntriesOK'
    BY <2>1, TableStays DEF DirectoryInv, EntriesOK, managerVars, tableVars, Fills, In
  <2>7. QED
    BY <2>2, <2>4, <2>5, <2>6 DEF DirectoryInv
<1>6. QED
  BY <1>1, <1>2, <1>3, <1>4, <1>5 DEF Next

(* The inductive invariant of the directory's sessions holds in every      *)
(* reachable state.                                                        *)
THEOREM DirectoryInvariant == Spec => []DirectoryInv
<1>1. QED
  BY InitDirectory, NextDirectory, PTL DEF Spec

(* A relay that was told its identifier keeps its place in the table until *)
(* it signs out, whatever other sessions do and wherever they break off.   *)
THEOREM RegisteredStays == Spec => []RegisteredStaysListed
<1>1. DirectoryInv => RegisteredStaysListed
  <2> SUFFICES ASSUME DirectoryInv, NEW r \in Descriptors, SignedUp(r)
               PROVE  /\ GetRelay(register_id[r]) # NULL
                      /\ data[GetRelay(register_id[r])].descriptor = r
    BY DEF RegisteredStaysListed
  <2>1. HasEntry(r, register_id[r])
    BY DEF DirectoryInv, RelayOK, SignupOK, SignedUp, Current
  <2>2. QED
    BY <2>1 DEF HasEntry, LiveIds, GetRelay, Exists
<1>2. QED
  BY <1>1, DirectoryInvariant, PTL

(* A relay whose sign-out was answered is not in the table, and no relay   *)
(* is there twice.                                                         *)
THEOREM SignedOutGone == Spec => []SignedOutIsGone
<1>1. DirectoryInv => SignedOutIsGone
  BY DEF DirectoryInv, RelayOK, SignoutOK, Listed, HasEntry, EntriesOK, SignedOutIsGone
<1>2. QED
  BY <1>1, DirectoryInvariant, PTL

(* A registered relay without its descriptor is being filled in.           *)
LEMMA TableIsFilled == DirectoryInv => ListedIsFilled
<1> SUFFICES ASSUME DirectoryInv, NEW i \in LiveIds, data[items[i]].descriptor = ZeroDescriptor
             PROVE  \E s \in Sessions : thread[s].pc = "fill" /\ thread[s].relay_data = items[i]
  BY DEF ListedIsFilled
<1>1. PICK r \in Descriptors : Fills(r, items[i])
  BY DEF DirectoryInv, EntriesOK
<1>2. <<r, "signup">> \in Sessions
  BY DEF Sessions, Visits
<1>3. QED
  BY <1>1, <1>2 DEF Fills, In

(* A relay_data_t that a handler uses after the table's unlock is still    *)
(* registered, the one handle_signout removes is its own relay's, and no   *)
(* entry stays without its descriptor when its session breaks.             *)
THEOREM PointersAreLive == Spec => []PointersLive
<1>1. DirectoryInv => PointersLive
  <2> SUFFICES ASSUME DirectoryInv, server = "up"
               PROVE  PointersLive
    BY DEF PointersLive
  <2>1. ASSUME NEW r \in Descriptors
        PROVE  /\ In(r).pc \in {"fill", "compare", "remove"} => In(r).relay_data \in LiveObjects
               /\ In(r).pc # "remove"
    BY DEF DirectoryInv, RelayOK, SessionsOK, SignupOK, Unfilled
  <2>2. ASSUME NEW r \in Descriptors, Out(r).pc \in {"fill", "compare", "remove"}
        PROVE  /\ Out(r).relay_data \in LiveObjects
               /\ data[Out(r).relay_data].descriptor = r
    <3>1. RelayOK(r) /\ Out(r).pc \in {"compare", "remove"}
      BY <2>2 DEF DirectoryInv, RelayOK, SessionsOK
    <3>2. PICK id : HasEntry(r, id) /\ Out(r).relay_data = items[id]
      BY <3>1 DEF RelayOK, SignoutOK, PendingOut
    <3>3. QED
      BY <3>2 DEF HasEntry, LiveObjects
  <2>3. \A s \in Sessions : \E r \in Descriptors :
           s[1] = r /\ (thread[s] = In(r) \/ thread[s] = Out(r))
    BY DEF Sessions, Visits, In, Out
  <2>4. QED
    BY <2>1, <2>2, <2>3, TableIsFilled DEF PointersLive
<1>2. QED
  BY <1>1, DirectoryInvariant, PTL
=============================================================================
