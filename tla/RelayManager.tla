---------------------------- MODULE RelayManager ----------------------------
(***************************************************************************)
(* The table of registered relays of the directory server                  *)
(* (src/server/services/relay_manager.c): an array of items that doubles   *)
(* when it is full and a stack of the identifiers that were given back.    *)
(* Every operation runs under one mutex from its first to its last line,   *)
(* so each is one action.                                                  *)
(*                                                                         *)
(* items[i] is the relay_data_t the item points to, or NULL when the item  *)
(* does not exist; the code always changes the two fields together.        *)
(* Addresses come from Objects, and calloc may return an address that was  *)
(* freed before.  The contents of the free stack above max_stack_index are *)
(* never read, so the stack is the sequence of its first max_stack_index   *)
(* elements and stack_length is its capacity.                              *)
(***************************************************************************)
EXTENDS Integers, Sequences, FiniteSets

CONSTANTS Objects,      \* addresses calloc can return for a relay_data_t
          Descriptors,  \* the descriptors relays sign up with
          NULL,         \* the null pointer
          ZeroDescriptor \* what calloc leaves in a descriptor

ASSUME ObjectsAssumption == NULL \notin Objects

VARIABLES initialized, items_length, items, max_item_index,
          stack_length, removed_id_stack,
          data          \* the heap: what each relay_data_t holds

tableVars == <<initialized, items_length, items, max_item_index,
               stack_length, removed_id_stack>>
managerVars == <<tableVars, data>>

RELAY_ITEMS_MIN_LENGTH == 2
RELAY_STACK_MIN_LENGTH == 1

max_stack_index == Len(removed_id_stack)

ItemSlots == 0 .. items_length - 1
ExistsInArray(i) == i \in ItemSlots   \* slip: "exists" not tested
Exists(i) == i \in ItemSlots /\ items[i] # NULL
LiveIds == {i \in ItemSlots : items[i] # NULL}
LiveObjects == {items[i] : i \in LiveIds}

RelayData == [relay_id : Nat, descriptor : Descriptors \cup {ZeroDescriptor}]

-----------------------------------------------------------------------------
(* init_relay_manager, called once before the server accepts anybody. *)
ManagerInit ==
    /\ initialized = TRUE
    /\ items_length = RELAY_ITEMS_MIN_LENGTH
    /\ items = [i \in 0 .. RELAY_ITEMS_MIN_LENGTH - 1 |-> NULL]
    /\ max_item_index = 0
    /\ stack_length = RELAY_STACK_MIN_LENGTH
    /\ removed_id_stack = <<>>
    /\ data = [p \in Objects |-> [relay_id |-> 0, descriptor |-> ZeroDescriptor]]

(* free_relay_manager: the arrays go, the relay_data_t are not freed. *)
FreeRelayManager ==
    /\ initialized
    /\ initialized' = FALSE
    /\ items_length' = 0
    /\ items' = [i \in {} |-> NULL]
    /\ max_item_index' = 0
    /\ stack_length' = 0
    /\ removed_id_stack' = <<>>
    /\ UNCHANGED data

GetRelay(id) == IF Exists(id) THEN items[id] ELSE NULL

(* realloc to twice the length when every slot has been used. *)
GrownLengthLate == IF items_length < max_item_index THEN 2 * items_length
                                                    ELSE items_length
GrownLength == IF items_length <= max_item_index THEN 2 * items_length
                                                 ELSE items_length
GrownItemsInPlace == [i \in ItemSlots |-> items[i]]   \* slip: no realloc
GrownItemsCleared ==                             \* slip: memset of all of it
    [i \in 0 .. GrownLength - 1 |->
        IF i \in ItemSlots /\ GrownLength = items_length THEN items[i] ELSE NULL]
GrownItems == [i \in 0 .. GrownLength - 1 |-> IF i \in ItemSlots THEN items[i] ELSE NULL]

CallocNoId(p, id) ==   \* slip: relay_id not set
    data' = [data EXCEPT ![p].descriptor = ZeroDescriptor]
Calloc(p, id) ==
    data' = [data EXCEPT ![p] = [relay_id |-> id, descriptor |-> ZeroDescriptor]]

(* gen_relay with no identifier on the stack: the next slot of the array. *)
AppendRelay(p) ==
    /\ removed_id_stack = <<>>
    /\ items_length' = GrownLength
    /\ items' = [GrownItems EXCEPT ![max_item_index] = p]
    /\ max_item_index' = max_item_index + 1
    /\ Calloc(p, max_item_index)
    /\ UNCHANGED <<initialized, stack_length, removed_id_stack>>

(* gen_relay with a stack: the identifier removed last. *)
ReuseRelay(p) ==
    /\ removed_id_stack # <<>>
    /\ LET removed_id == removed_id_stack[max_stack_index]
       IN  /\ items' = [items EXCEPT ![removed_id] = p]
           /\ Calloc(p, removed_id)
    /\ removed_id_stack' = SubSeq(removed_id_stack, 1, max_stack_index - 1)
    /\ UNCHANGED <<initialized, items_length, max_item_index, stack_length>>

GenRelay(p) == AppendRelay(p) \/ ReuseRelay(p)

(* remove_relay of a relay that exists; RemoveRelayFails is its early return. *)
RemoveRelay(id) ==
    /\ Exists(id)
    /\ items' = [items EXCEPT ![id] = NULL]
    /\ stack_length' = IF max_stack_index >= stack_length THEN 2 * stack_length
                                                          ELSE stack_length
    /\ removed_id_stack' = Append(removed_id_stack, id)
    /\ UNCHANGED <<initialized, items_length, max_item_index, data>>

RemoveRelayFails(id) == ~Exists(id) /\ UNCHANGED managerVars

(* get_relay_batch: from *start on, at most once around the array, until   *)
(* max relays are found.  batch[n] is the loop after n turns: the items    *)
(* copied and the next index.                                              *)
StartIndex(start) == start % items_length
NextIndexPast(i) == (i + 2) % items_length
NextIndex(i) == (i + 1) % items_length

GetRelayBatch(start, max) ==
    LET batch[n \in 0 .. items_length] ==
            IF n = 0 THEN [out |-> <<>>, i |-> StartIndex(start)]
            ELSE LET prev == batch[n - 1]
                 IN  IF Len(prev.out) >= max THEN prev
                     ELSE [out |-> IF items[prev.i] # NULL THEN Append(prev.out, prev.i)
                                                           ELSE prev.out,
                           i   |-> NextIndex(prev.i)]
    IN  batch[items_length]

ManagerNext ==
    \/ /\ initialized
       /\ \/ \E p \in Objects \ LiveObjects : GenRelay(p)
          \/ \E id \in ItemSlots : RemoveRelay(id)
    \/ FreeRelayManager

ManagerSpec == ManagerInit /\ [][ManagerNext]_managerVars
-----------------------------------------------------------------------------
(* The variables keep their shapes. *)
ManagerTypeOK ==
    /\ initialized \in BOOLEAN
    /\ items_length \in Nat
    /\ items \in [ItemSlots -> Objects \cup {NULL}]
    /\ max_item_index \in Nat
    /\ stack_length \in Nat
    /\ removed_id_stack \in Seq(Nat)
    /\ data \in [Objects -> RelayData]

OnStack(i) == \E k \in 1 .. Len(removed_id_stack) : removed_id_stack[k] = i

(* Every identifier ever handed out is either a registered relay's or      *)
(* waits on the free stack, never both and never twice: gen_relay can      *)
(* neither give out an identifier that is in use nor lose one.             *)
IdsPartitioned ==
    /\ \A i \in ItemSlots : i < max_item_index <=> (items[i] # NULL \/ OnStack(i))
    /\ \A i \in ItemSlots : ~(items[i] # NULL /\ OnStack(i))
    /\ \A j, k \in 1 .. Len(removed_id_stack) :
           removed_id_stack[j] = removed_id_stack[k] => j = k

(* Both arrays are large enough for what the operations write without      *)
(* another test: the append slot, the popped slot, the pushed identifier.  *)
InsideArrays ==
    /\ max_item_index <= items_length
    /\ Len(removed_id_stack) <= stack_length
    /\ \A k \in 1 .. Len(removed_id_stack) : removed_id_stack[k] < max_item_index

(* Two registered relays never share a relay_data_t and each carries the   *)
(* identifier it is filed under, after any reuse of slots and of memory.   *)
UniqueRelayId ==
    \A i, j \in LiveIds : /\ items[i] = items[j] => i = j
                          /\ data[items[i]].relay_id = i

(* The table implements the registry of identifiers. *)
Registry == INSTANCE RelayRegistry WITH live <- LiveIds, peak <- max_item_index
RegistrySpec == Registry!Spec
=============================================================================
