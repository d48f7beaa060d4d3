------------------------------ MODULE HashMap ------------------------------
(***************************************************************************)
(* The open-addressing table that the client (stream_hashmap.c) and the    *)
(* exit relay (socket_hashmap.c) keep their streams in: linear probing     *)
(* from the home slot id % HASHMAP_AMOUNT, deleted entries left as         *)
(* tombstones.  The two files are the same algorithm; what an entry        *)
(* carries besides its identifier (a receive buffer, a socket) is "value". *)
(*                                                                         *)
(* The loops walk the slots in probe order until a condition holds or the  *)
(* walk is back at the home slot.  The operators say at which turn they    *)
(* stop instead of repeating the walk.                                     *)
(***************************************************************************)
EXTENDS Integers

CONSTANTS HASHMAP_AMOUNT,  \* 2048 in the code
          NoValue          \* what an entry that is not filled carries

ASSUME HashMapAssumption == HASHMAP_AMOUNT \in Nat \ {0}

EMPTY == "empty"
FILLED == "filled"
DELETED == "deleted"

Slots == 0 .. HASHMAP_AMOUNT - 1
Turns == 0 .. HASHMAP_AMOUNT - 1

Entry(state, id, value) == [entry_type |-> state, stream_id |-> id, value |-> value]

EmptyMap == [i \in Slots |-> Entry(EMPTY, 0, NoValue)]

(* The slot looked at in turn k of a walk for id. *)
Slot(id, k) == (id + k) % HASHMAP_AMOUNT

HoldsAnyState(map, i, id) == map[i].stream_id = id   \* slip: state not tested
Holds(map, i, id) == map[i].entry_type = FILLED /\ map[i].stream_id = id

Ids(map) == {map[i].stream_id : i \in {j \in Slots : map[j].entry_type = FILLED}}

Full(map) == \A i \in Slots : map[i].entry_type = FILLED

-----------------------------------------------------------------------------
(* The walk of find and remove gets to turn k: no empty slot before it. *)
Reaches(map, id, k) == \A j \in 0 .. k : map[Slot(id, j)].entry_type # EMPTY

(* The turns in which the walk sees the identifier. *)
Hits(map, id) == {k \in Turns : Reaches(map, id, k) /\ Holds(map, Slot(id, k), id)}

Found(map, id) == Hits(map, id) # {}

FirstOf(turns) == CHOOSE k \in turns : \A j \in turns : k <= j

(* socket_hashmap_find of an identifier that is Found. *)
FoundSlot(map, id) == Slot(id, FirstOf(Hits(map, id)))
FoundValue(map, id) == map[FoundSlot(map, id)].value

(* socket_hashmap_insert stops at the first slot that is not filled, if    *)
(* the identifier was not seen before it; otherwise it returns NULL.       *)
FreeTurns(map, id) == {k \in Turns : map[Slot(id, k)].entry_type # FILLED}

Insertable(map, id) ==
    /\ FreeTurns(map, id) # {}
    /\ \A j \in 0 .. FirstOf(FreeTurns(map, id)) - 1 : ~Holds(map, Slot(id, j), id)

Insert(map, id, value) ==
    [map EXCEPT ![Slot(id, FirstOf(FreeTurns(map, id)))] = Entry(FILLED, id, value)]

(* socket_hashmap_remove leaves a tombstone; nothing if it is not Found. *)
RemoveEmpties(map, id) ==   \* slip: no tombstone
    IF Found(map, id)
    THEN [map EXCEPT ![FoundSlot(map, id)] = Entry(EMPTY, 0, NoValue)]
    ELSE map
Remove(map, id) ==
    IF Found(map, id)
    THEN [map EXCEPT ![FoundSlot(map, id)] = Entry(DELETED, 0, NoValue)]
    ELSE map

(* gen_stream_id: from the counter on, the first number whose home slot is *)
(* not filled; the loop does not end if all are (Full).                     *)
Candidates(map, n) ==
    {c \in n .. n + HASHMAP_AMOUNT - 1 : map[c % HASHMAP_AMOUNT].entry_type # FILLED}

next_stream_id(map, n) == n + 1   \* slip: a counter alone
gen_stream_id(map, n) == FirstOf(Candidates(map, n))

SetValue(map, id, value) == [map EXCEPT ![FoundSlot(map, id)].value = value]
=============================================================================
