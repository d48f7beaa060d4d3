-------------------------- MODULE StreamMap_proofs --------------------------
(***************************************************************************)
(* Proofs about what the two ends of a stream keep: the stream tables      *)
(* (StreamMap), for every size of the tables, every width of the           *)
(* identifiers and every number of streams, and the client's receive       *)
(* buffer (StreamBuffer), for every capacity and all sizes of messages and *)
(* reads.                                                                  *)
(***************************************************************************)
EXTENDS StreamMap, StreamBuffer, HashMap_proofs, SequenceTheorems

(* The client's table and the identifiers its user has open. *)
ClientInv ==
    /\ clientMap \in Maps
    /\ stream_id \in 0 .. MaxCounter
    /\ hung \in BOOLEAN
    /\ opened \subseteq StreamIds
    /\ AtHome
    /\ \A id \in StreamIds : IsHeld(clientMap, id) <=> id \in opened

(* The relay's table and the connections it stands for. *)
RelayInv ==
    /\ relayMap \in Maps
    /\ connected \in UNION {[S -> Tokens] : S \in SUBSET StreamIds}
    /\ Consistent(relayMap)
    /\ \A id \in StreamIds : IsHeld(relayMap, id) <=> id \in DOMAIN connected
    /\ \A i \in Slots : relayMap[i].entry_type = FILLED =>
                            relayMap[i].value = connected[relayMap[i].stream_id]

Values == Tokens \cup {NoValue}

(* The tables of both programs are tables of tokens under 16-bit           *)
(* identifiers.                                                            *)
LEMMA MapsAreTables ==
  /\ StreamIds \subseteq Nat /\ 0 \in StreamIds
  /\ \A map \in Maps : map \in Tables(Values)
BY IdSpaceAssumption DEF StreamIds, Maps, Tables, Values

(* AtHome is what the lemmas about tables call HomeOnly. *)
LEMMA AtHomeConsistent ==
  ASSUME clientMap \in Maps, AtHome
  PROVE  HomeOnly(clientMap) /\ Consistent(clientMap)
<1>1. HomeOnly(clientMap)
  BY DEF AtHome, HomeOnly, Filled
<1>2. QED
  BY <1>1, MapsAreTables, HomeOnlyConsistent

(* The identifier made of a number whose home slot is free goes there, and *)
(* was not open. *)
LEMMA FreshId ==
  ASSUME ClientInv, NEW c \in Nat, clientMap[c % HASHMAP_AMOUNT].entry_type # FILLED
  PROVE  /\ Truncated(c) \in StreamIds
         /\ ~IsHeld(clientMap, Truncated(c))
         /\ Insertable(clientMap, Truncated(c))
         /\ InsertSlot(clientMap, Truncated(c)) = Truncated(c) % HASHMAP_AMOUNT
<1> DEFINE id == Truncated(c)
<1>1. id \in StreamIds /\ id \in Nat /\ id % HASHMAP_AMOUNT = c % HASHMAP_AMOUNT
  BY IdSpaceAssumption, HomeOfTruncated DEF Truncated, StreamIds
<1>2. HomeOnly(clientMap)
  BY AtHomeConsistent DEF ClientInv
<1>3. QED
  BY <1>1, <1>2, FreeHome

(* Both tables are empty at first. *)
LEMMA InitTables == MapInit => ClientInv /\ RelayInv
<1> SUFFICES ASSUME MapInit PROVE ClientInv /\ RelayInv
  OBVIOUS
<1>1. /\ EmptyMap \in Maps
      /\ Consistent(EmptyMap)
      /\ \A i \in Slots : EmptyMap[i].entry_type # FILLED
  <2>1. Consistent(EmptyMap) /\ \A i \in Slots : EmptyMap[i].entry_type # FILLED
    BY EmptyMapConsistent DEF Values
  <2>2. EmptyMap \in Maps
    BY MapsAreTables DEF EmptyMap, Entry, Maps
  <2>3. QED
    BY <2>1, <2>2
<1>2. connected \in [{} -> Tokens] /\ DOMAIN connected = {}
  BY DEF MapInit
<1>3. ClientInv
  <2>1. hung \in BOOLEAN
    BY Zenon DEF MapInit
  <2>2. stream_id \in 0 .. MaxCounter
    BY IdSpaceAssumption DEF MapInit
  <2>3. QED
    BY <1>1, <2>1, <2>2 DEF MapInit, ClientInv, AtHome, IsHeld, Holds
<1>4. RelayInv
  BY <1>1, <1>2 DEF MapInit, RelayInv, IsHeld, Holds
<1>5. QED
  BY <1>3, <1>4

(* The user's connect adds a fresh identifier, in its home slot. *)
LEMMA ConnectTable == ASSUME ClientInv, Connect PROVE ClientInv'
<1> DEFINE c  == stream_id'
           id == Truncated(c)
           s  == id % HASHMAP_AMOUNT
<1>1. /\ c \in Nat /\ c \in 0 .. MaxCounter
      /\ clientMap[c % HASHMAP_AMOUNT].entry_type # FILLED
  BY GenStreamId, IdSpaceAssumption DEF ClientInv, Connect
<1> HIDE DEF c
<1>2. /\ id \in StreamIds /\ id \in Nat
      /\ ~IsHeld(clientMap, id)
      /\ Insertable(clientMap, id)
      /\ InsertSlot(clientMap, id) = s
  BY <1>1, FreshId, MapsAreTables
<1>3. clientMap' = Insert(clientMap, id, NoValue) /\ opened' = opened \cup {id}
  BY <1>2 DEF Connect, c
<1>4. clientMap \in Tables(Values) /\ NoValue \in Values
  BY MapsAreTables DEF ClientInv, Values
<1>5. /\ clientMap'[s] = Entry(FILLED, id, NoValue)
      /\ \A i \in Slots \ {s} : clientMap'[i] = clientMap[i]
      /\ clientMap' \in Tables(Values)
      /\ s \in Slots /\ clientMap[s].entry_type # FILLED
  BY <1>2, <1>3, <1>4, InsertEffect, InsertSlotIsFree
<1>6. clientMap' \in Maps
  BY <1>2, <1>5 DEF ClientInv, Maps, Tables, Entry, Values
<1>7. AtHome'
  BY <1>5 DEF ClientInv, AtHome, Entry
<1>8. \A x \in StreamIds : IsHeld(clientMap', x) <=> x \in opened'
  BY <1>2, <1>3, <1>5, TypesDiffer DEF ClientInv, IsHeld, Holds, Entry
<1>9. QED
  BY <1>1, <1>2, <1>3, <1>6, <1>7, <1>8 DEF ClientInv, Connect, c

(* A close or an END takes away the identifier it names, and no other. *)
LEMMA ClientRemoveTable ==
  ASSUME ClientInv, NEW id \in StreamIds, ClientRemove(id)
  PROVE  ClientInv'
<1>1. id \in Nat /\ clientMap \in Tables(Values) /\ NoValue \in Values
  BY MapsAreTables DEF ClientInv, Values
<1>2. Consistent(clientMap)
  BY AtHomeConsistent DEF ClientInv
<1>3. clientMap' = Remove(clientMap, id) /\ opened' = opened \ {id}
  BY DEF ClientRemove
<1>4. /\ clientMap' \in Tables(Values)
      /\ \A i \in Slots, x \in Nat : Holds(clientMap', i, x) <=> Holds(clientMap, i, x) /\ x # id
  BY <1>1, <1>2, <1>3, RemoveConsistent
<1>5. \A i \in Slots : clientMap'[i].entry_type = FILLED =>
         /\ clientMap[i].entry_type = FILLED
         /\ clientMap'[i].stream_id = clientMap[i].stream_id
  <2> SUFFICES ASSUME NEW i \in Slots, clientMap'[i].entry_type = FILLED
               PROVE  Holds(clientMap, i, clientMap'[i].stream_id)
    BY DEF Holds
  <2>1. clientMap'[i].stream_id \in Nat
    BY <1>4 DEF Tables
  <2>2. QED
    BY <1>4, <2>1 DEF Holds
<1>6. clientMap' \in Maps
  <2>1. ~Found(clientMap, id) \/ \A i \in Slots : clientMap'[i].stream_id \in StreamIds
    BY <1>1, <1>3, RemoveEffect, MapsAreTables DEF ClientInv, Maps, Entry
  <2>2. CASE ~Found(clientMap, id)
    BY <1>3, <2>2 DEF ClientInv, Remove
  <2>3. CASE \A i \in Slots : clientMap'[i].stream_id \in StreamIds
    BY <1>4, <2>3 DEF Maps, Tables, Values
  <2>4. QED
    BY <2>1, <2>2, <2>3
<1>7. AtHome'
  BY <1>5 DEF ClientInv, AtHome
<1>8. \A x \in StreamIds : IsHeld(clientMap', x) <=> x \in opened'
  BY <1>3, <1>4, MapsAreTables DEF ClientInv, IsHeld
<1>9. QED
  BY <1>3, <1>6, <1>7, <1>8 DEF ClientInv, ClientRemove

(* A BEGIN for an identifier that is not open adds its connection. *)
LEMMA RelayInsertTable ==
  ASSUME RelayInv, NEW id \in StreamIds, NEW token \in Tokens, RelayInsert(id, token)
  PROVE  RelayInv'
<1> DEFINE s == InsertSlot(relayMap, id)
<1>1. id \in Nat /\ relayMap \in Tables(Values) /\ token \in Values
  BY MapsAreTables DEF RelayInv, Values
<1>2. /\ relayMap' = Insert(relayMap, id, token)
      /\ connected' = [i \in DOMAIN connected \cup {id} |->
                          IF i = id THEN token ELSE connected[i]]
      /\ ~IsHeld(relayMap, id)
      /\ Insertable(relayMap, id)
  BY DEF RelayInsert, RelayInv
<1>3. /\ relayMap'[s] = Entry(FILLED, id, token)
      /\ \A i \in Slots \ {s} : relayMap'[i] = relayMap[i]
      /\ relayMap' \in Tables(Values)
      /\ s \in Slots /\ relayMap[s].entry_type # FILLED
  BY <1>1, <1>2, InsertEffect, InsertSlotIsFree
<1>4. Consistent(relayMap')
  BY <1>1, <1>2, InsertConsistent DEF RelayInv
<1> HIDE DEF s
<1>5. relayMap' \in Maps
  BY <1>3 DEF RelayInv, Maps, Tables, Entry, Values
<1>6. connected' \in [DOMAIN connected \cup {id} -> Tokens]
  BY <1>2 DEF RelayInv
<1>7. connected' \in UNION {[S -> Tokens] : S \in SUBSET StreamIds}
  <2>1. DOMAIN connected \cup {id} \in SUBSET StreamIds
    BY DEF RelayInv
  <2>2. QED
    BY <1>6, <2>1
<1>8. \A x \in StreamIds : IsHeld(relayMap', x) <=> x \in DOMAIN connected'
  BY <1>2, <1>3, TypesDiffer DEF RelayInv, IsHeld, Holds, Entry
<1>9. \A i \in Slots : relayMap'[i].entry_type = FILLED =>
                          relayMap'[i].value = connected'[relayMap'[i].stream_id]
  <2> SUFFICES ASSUME NEW i \in Slots, relayMap'[i].entry_type = FILLED
               PROVE  relayMap'[i].value = connected'[relayMap'[i].stream_id]
    OBVIOUS
  <2>1. CASE i = s
    BY <1>2, <1>3, <2>1 DEF Entry
  <2>2. CASE i # s
    <3>1. relayMap'[i] = relayMap[i] /\ relayMap[i].stream_id \in StreamIds
      BY <1>3, <2>2 DEF RelayInv, Maps
    <3>2. relayMap[i].stream_id \in DOMAIN connected /\ relayMap[i].stream_id # id
      BY <1>2, <3>1 DEF RelayInv, IsHeld, Holds
    <3>3. QED
      BY <1>2, <3>1, <3>2 DEF RelayInv
  <2>3. QED
    BY <2>1, <2>2
<1>10. QED
  BY <1>4, <1>5, <1>7, <1>8, <1>9 DEF RelayInv

(* An END or a disconnection takes away its connection, and no other. *)
LEMMA RelayRemoveTable ==
  ASSUME RelayInv, NEW id \in StreamIds, RelayRemove(id)
  PROVE  RelayInv'
<1>1. id \in Nat /\ relayMap \in Tables(Values) /\ NoValue \in Values
  BY MapsAreTables DEF RelayInv, Values
<1>2. /\ relayMap' = Remove(relayMap, id)
      /\ connected' = [i \in DOMAIN connected \ {id} |-> connected[i]]
  BY DEF RelayRemove
<1>3. /\ relayMap' \in Tables(Values)
      /\ Consistent(relayMap')
      /\ \A i \in Slots, x \in Nat : Holds(relayMap', i, x) <=> Holds(relayMap, i, x) /\ x # id
      /\ \A i \in Slots : relayMap[i].entry_type = FILLED /\ relayMap[i].stream_id # id =>
                             relayMap'[i] = relayMap[i]
  BY <1>1, <1>2, RemoveConsistent DEF RelayInv
<1>4. relayMap' \in Maps
  <2>1. ~Found(relayMap, id) \/ \A i \in Slots : relayMap'[i].stream_id \in StreamIds
    BY <1>1, <1>2, RemoveEffect, MapsAreTables DEF RelayInv, Maps, Entry
  <2>2. CASE ~Found(relayMap, id)
    BY <1>2, <2>2 DEF RelayInv, Remove
  <2>3. CASE \A i \in Slots : relayMap'[i].stream_id \in StreamIds
    BY <1>3, <2>3 DEF Maps, Tables, Values
  <2>4. QED
    BY <2>1, <2>2, <2>3
<1>5. connected' \in [DOMAIN connected \ {id} -> Tokens]
  BY <1>2 DEF RelayInv
<1>6. connected' \in UNION {[S -> Tokens] : S \in SUBSET StreamIds}
  <2>1. DOMAIN connected \ {id} \in SUBSET StreamIds
    BY DEF RelayInv
  <2>2. QED
    BY <1>5, <2>1
<1>7. \A x \in StreamIds : IsHeld(relayMap', x) <=> x \in DOMAIN connected'
  BY <1>2, <1>3, MapsAreTables DEF RelayInv, IsHeld
<1>8. \A i \in Slots : relayMap'[i].entry_type = FILLED =>
                          relayMap'[i].value = connected'[relayMap'[i].stream_id]
  <2> SUFFICES ASSUME NEW i \in Slots, relayMap'[i].entry_type = FILLED
               PROVE  relayMap'[i].value = connected'[relayMap'[i].stream_id]
    OBVIOUS
  <2>1. relayMap'[i].stream_id \in StreamIds
    BY <1>4 DEF Maps
  <2>2. Holds(relayMap, i, relayMap'[i].stream_id) /\ relayMap'[i].stream_id # id
    BY <1>3, <2>1, MapsAreTables DEF Holds
  <2>3. relayMap'[i] = relayMap[i]
    BY <1>3, <2>2 DEF Holds
  <2>4. relayMap[i].stream_id \in DOMAIN connected
    BY <2>1, <2>2, <2>3 DEF RelayInv, IsHeld
  <2>5. QED
    BY <1>2, <2>2, <2>3, <2>4 DEF RelayInv, Holds
<1>9. QED
  BY <1>3, <1>4, <1>6, <1>7, <1>8 DEF RelayInv

-----------------------------------------------------------------------------
(* Both invariants hold in every reachable state: the tables do not share  *)
(* a variable, and neither needs the other's. *)
THEOREM TablesInvariant == MapSpec => [](ClientInv /\ RelayInv)
<1>1. ClientInv /\ RelayInv /\ [MapNext]_mapVars => (ClientInv /\ RelayInv)'
  <2> SUFFICES ASSUME ClientInv, RelayInv, [MapNext]_mapVars
               PROVE  ClientInv' /\ RelayInv'
    OBVIOUS
  <2>1. ASSUME UNCHANGED <<clientMap, stream_id, hung, opened>>
        PROVE  ClientInv'
    BY <2>1 DEF ClientInv, AtHome, IsHeld, Holds
  <2>2. ASSUME UNCHANGED <<relayMap, connected>>
        PROVE  RelayInv'
    BY <2>2 DEF RelayInv, IsHeld, Holds, Consistent, Reachable, Reaches, Distinct
  <2>3. CASE Connect
    BY <2>2, <2>3, ConnectTable DEF Connect
  <2>4. CASE ConnectHangs
    <3>1. hung' \in BOOLEAN
      BY <2>4, Zenon DEF ConnectHangs
    <3>2. ClientInv'
      BY <2>4, <3>1 DEF ConnectHangs, ClientInv, AtHome, IsHeld, Holds
    <3>3. QED
      BY <2>2, <2>4, <3>2 DEF ConnectHangs
  <2>5. ASSUME NEW id \in StreamIds, ClientRemove(id)
        PROVE  ClientInv' /\ RelayInv'
    BY <2>2, <2>5, ClientRemoveTable DEF ClientRemove
  <2>6. ASSUME NEW id \in StreamIds, NEW token \in Tokens, RelayInsert(id, token)
        PROVE  ClientInv' /\ RelayInv'
    BY <2>1, <2>6, RelayInsertTable DEF RelayInsert
  <2>7. ASSUME NEW id \in StreamIds, RelayRemove(id)
        PROVE  ClientInv' /\ RelayInv'
    BY <2>1, <2>7, RelayRemoveTable DEF RelayRemove
  <2>8. CASE UNCHANGED mapVars
    BY <2>1, <2>2, <2>8 DEF mapVars
  <2>9. QED
    BY <2>3, <2>4, <2>5, <2>6, <2>7, <2>8 DEF MapNext, ClientNext, RelayNext
<1>2. QED
  BY InitTables, <1>1, PTL DEF MapSpec

(* The tables, the counter and what is remembered of the streams keep      *)
(* their types: above all, no identifier is wider than 16 bits. *)
THEOREM StreamMapTypes == MapSpec => []MapTypeOK
<1>1. ClientInv /\ RelayInv => MapTypeOK
  BY DEF ClientInv, RelayInv, MapTypeOK
<1>2. QED
  BY <1>1, TablesInvariant, PTL

(* The client's find, after any sequence of connects, closes and ENDs,     *)
(* finds exactly the open streams, each in its home slot: gen_stream_id    *)
(* never makes an identifier that is open. *)
THEOREM ClientTable == MapSpec => []ClientFindsOpened
<1>1. ClientInv => ClientFindsOpened
  BY AtHomeConsistent, FoundIsHeld, MapsAreTables DEF ClientInv, ClientFindsOpened
<1>2. QED
  BY <1>1, TablesInvariant, PTL

(* The exit relay's find returns the connection that is open under an      *)
(* identifier, and only a full table refuses a BEGIN. *)
THEOREM RelayTable == MapSpec => []RelayFindsConnected
<1>1. RelayInv => RelayFindsConnected
  <2> SUFFICES ASSUME RelayInv, NEW id \in StreamIds
               PROVE  /\ Found(relayMap, id) <=> id \in DOMAIN connected
                      /\ IF id \in DOMAIN connected THEN FoundValue(relayMap, id) = connected[id]
                         ELSE Insertable(relayMap, id) \/ Full(relayMap)
    BY DEF RelayFindsConnected
  <2>1. id \in Nat
    BY MapsAreTables
  <2>2. Found(relayMap, id) <=> id \in DOMAIN connected
    BY <2>1, FoundIsHeld DEF RelayInv
  <2>3. ASSUME id \in DOMAIN connected
        PROVE  FoundValue(relayMap, id) = connected[id]
    <3>1. PICK i \in Slots : Holds(relayMap, i, id)
      BY <2>3 DEF RelayInv, IsHeld
    <3>2. QED
      BY <2>1, <3>1, HeldIsFound DEF RelayInv, Holds
  <2>4. ASSUME id \notin DOMAIN connected
        PROVE  Insertable(relayMap, id) \/ Full(relayMap)
    BY <2>1, <2>4, NotFullIsInsertable DEF RelayInv
  <2>5. QED
    BY <2>2, <2>3, <2>4
<1>2. QED
  BY <1>1, TablesInvariant, PTL

-----------------------------------------------------------------------------
(* The receive buffer.  Where byte k of those held is, and how head lies   *)
(* to the bytes: behind the last one, further on, in the same array or     *)
(* around its end, or at the end of the array when nothing is left.        *)
Stored == 0 .. Bytes - 1
At(tl, k, c) == IF tl + k - 1 < c THEN tl + k - 1 ELSE tl + k - 1 - c
BuffersOf(c) ==
    [buffer : [0 .. c - 1 -> Stored \cup {Junk}], head : 0 .. c, tail : 0 .. c - 1,
     size : 0 .. c, capacity : {c}]
Buffers == UNION {BuffersOf(c) : c \in Nat \ {0}}

Contains(b, q) ==
    /\ Len(q) = b.size
    /\ \A k \in 1 .. b.size : b.buffer[At(b.tail, k, b.capacity)] = q[k]
Straight(b) == b.head = b.tail + b.size
Around(b) == b.head + b.capacity = b.tail + b.size /\ b.head > 0
Spent(b) == b.size = 0 /\ b.tail = 0 /\ b.head = b.capacity
Placed(b) == Straight(b) \/ Around(b) \/ Spent(b)
Growable(b) == Straight(b) \/ (Around(b) /\ b.head < b.tail)

LEMMA BufferParts ==
  ASSUME NEW b \in Buffers
  PROVE  /\ b.capacity \in Nat \ {0} /\ b \in BuffersOf(b.capacity)
         /\ b.buffer \in [0 .. b.capacity - 1 -> Stored \cup {Junk}]
         /\ b.head \in 0 .. b.capacity /\ b.tail \in 0 .. b.capacity - 1
         /\ b.size \in 0 .. b.capacity
<1>1. PICK c \in Nat \ {0} : b \in BuffersOf(c)
  BY DEF Buffers
<1>2. b.capacity = c
  BY <1>1 DEF BuffersOf
<1>3. QED
  BY <1>1, <1>2 DEF BuffersOf

(* The places of the bytes held are in the array, and no two are the same. *)
LEMMA PlacesDiffer ==
  ASSUME NEW c \in Nat \ {0}, NEW tl \in 0 .. c - 1, NEW k \in 1 .. c
  PROVE  /\ At(tl, k, c) \in 0 .. c - 1
         /\ \A j \in 1 .. c : At(tl, j, c) = At(tl, k, c) => j = k
BY DEF At

Buffer(a, h, t, z, c) == [buffer |-> a, head |-> h, tail |-> t, size |-> z, capacity |-> c]

LEMMA BufferFields ==
  ASSUME NEW b \in Buffers
  PROVE  \E c \in Nat \ {0} : \E h, t, z \in Nat : \E a \in [0 .. c - 1 -> Stored \cup {Junk}] :
            b = Buffer(a, h, t, z, c) /\ h <= c /\ t < c /\ z <= c
<1>1. PICK c \in Nat \ {0} : b \in BuffersOf(c)
  BY DEF Buffers
<1>2. b = Buffer(b.buffer, b.head, b.tail, b.size, c)
  BY <1>1 DEF BuffersOf, Buffer
<1>3. /\ b.head \in Nat /\ b.tail \in Nat /\ b.size \in Nat
      /\ b.head <= c /\ b.tail < c /\ b.size <= c
  BY <1>1 DEF BuffersOf
<1>4. b.buffer \in [0 .. c - 1 -> Stored \cup {Junk}]
  BY <1>1 DEF BuffersOf
<1>5. QED
  BY <1>2, <1>3, <1>4

LEMMA BufferType ==
  ASSUME NEW c \in Nat \ {0}, NEW h \in Nat, NEW t \in Nat, NEW z \in Nat,
         NEW a \in [0 .. c - 1 -> Stored \cup {Junk}], h <= c, t < c, z <= c
  PROVE  /\ Buffer(a, h, t, z, c) \in Buffers
         /\ Buffer(a, h, t, z, c).buffer = a /\ Buffer(a, h, t, z, c).head = h
         /\ Buffer(a, h, t, z, c).tail = t /\ Buffer(a, h, t, z, c).size = z
         /\ Buffer(a, h, t, z, c).capacity = c
<1>1. Buffer(a, h, t, z, c) \in BuffersOf(c)
  BY DEF BuffersOf, Buffer
<1>2. QED
  BY <1>1 DEF Buffers, Buffer

(* grow_buffer keeps the bytes when they lie straight or head is before    *)
(* tail. *)
Doubled(a, h, t, c) ==
    [i \in 0 .. 2 * c - 1 |-> IF h < t /\ i >= t + c THEN a[i - c]
                              ELSE IF i < c THEN a[i] ELSE Junk]

LEMMA DoubledType ==
  ASSUME NEW c \in Nat \ {0}, NEW h \in Nat, NEW t \in Nat, t < c,
         NEW a \in [0 .. c - 1 -> Stored \cup {Junk}]
  PROVE  Doubled(a, h, t, c) \in [0 .. 2 * c - 1 -> Stored \cup {Junk}]
<1>1. ASSUME NEW i \in 0 .. 2 * c - 1
      PROVE  (IF h < t /\ i >= t + c THEN a[i - c]
              ELSE IF i < c THEN a[i] ELSE Junk) \in Stored \cup {Junk}
  <2>1. CASE h < t /\ i >= t + c
    <3>1. i - c \in 0 .. c - 1
      BY <2>1
    <3>2. QED
      BY <2>1, <3>1
  <2>2. CASE ~(h < t /\ i >= t + c) /\ i < c
    <3>1. i \in 0 .. c - 1
      BY <2>2
    <3>2. QED
      BY <2>2, <3>1
  <2>3. QED
    BY <2>1, <2>2
<1>2. QED
  BY <1>1 DEF Doubled

LEMMA DoubledHolds ==
  ASSUME NEW c \in Nat \ {0}, NEW h \in Nat, NEW t \in Nat, t < c,
         NEW a \in [0 .. c - 1 -> Stored \cup {Junk}], NEW k \in Nat \ {0}, k <= c,
         h < t \/ t + k <= c,
         NEW new, new = IF h < t THEN t + c ELSE t
  PROVE  Doubled(a, h, t, c)[At(new, k, 2 * c)] = a[At(t, k, c)]
<1>1. CASE h < t /\ t + k - 1 < c
  <2>1. At(t, k, c) = t + k - 1 /\ At(new, k, 2 * c) = t + c + k - 1
    BY <1>1 DEF At
  <2>2. t + c + k - 1 \in 0 .. 2 * c - 1 /\ t + c + k - 1 >= t + c /\ (t + c + k - 1) - c = t + k - 1
    BY <1>1
  <2>3. QED
    BY <1>1, <2>1, <2>2 DEF Doubled
<1>2. CASE h < t /\ t + k - 1 >= c
  <2>1. At(t, k, c) = t + k - 1 - c /\ At(new, k, 2 * c) = t + k - 1 - c
    BY <1>2 DEF At
  <2>2. /\ t + k - 1 - c \in 0 .. 2 * c - 1 /\ t + k - 1 - c < c
        /\ ~(t + k - 1 - c >= t + c)
    BY <1>2
  <2>3. QED
    BY <1>2, <2>1, <2>2 DEF Doubled
<1>3. CASE ~(h < t)
  <2>1. t + k <= c
    BY <1>3
  <2>2. /\ At(t, k, c) = t + k - 1 /\ At(new, k, 2 * c) = t + k - 1
        /\ t + k - 1 \in 0 .. 2 * c - 1 /\ t + k - 1 < c
    BY <1>3, <2>1 DEF At
  <2>3. QED
    BY <1>3, <2>2 DEF Doubled
<1>4. QED
  BY <1>1, <1>2, <1>3

(* Any doubling leaves a buffer, of twice the capacity and as many bytes. *)
LEMMA GrowType ==
  ASSUME NEW b \in Buffers
  PROVE  /\ GrowBuffer(b) \in Buffers /\ GrowBuffer(b).size = b.size
         /\ GrowBuffer(b).head = b.head /\ GrowBuffer(b).capacity = 2 * b.capacity
         /\ GrowBuffer(b).tail = (IF b.head < b.tail THEN b.tail + b.capacity ELSE b.tail)
         /\ GrowBuffer(b).buffer = Doubled(b.buffer, b.head, b.tail, b.capacity)
<1>0. PICK c \in Nat \ {0} : \E h, t, z \in Nat : \E a \in [0 .. c - 1 -> Stored \cup {Junk}] :
         b = Buffer(a, h, t, z, c) /\ h <= c /\ t < c /\ z <= c
  BY BufferFields
<1>0b. PICK h, t, z \in Nat : \E a \in [0 .. c - 1 -> Stored \cup {Junk}] :
         b = Buffer(a, h, t, z, c) /\ h <= c /\ t < c /\ z <= c
  BY <1>0
<1>1. PICK a \in [0 .. c - 1 -> Stored \cup {Junk}] :
         b = Buffer(a, h, t, z, c) /\ h <= c /\ t < c /\ z <= c
  BY <1>0b
<1>2. /\ b.buffer = a /\ b.head = h /\ b.tail = t /\ b.size = z /\ b.capacity = c
  BY <1>1 DEF Buffer
<1>3. PICK new \in Nat, d \in Nat \ {0} : new = (IF h < t THEN t + c ELSE t) /\ d = 2 * c
  OBVIOUS
<1>4. GrowBuffer(b) = Buffer(Doubled(a, h, t, c), h, new, z, d)
  <2>1. Doubled(a, h, t, c) =
          [i \in 0 .. 2 * b.capacity - 1 |->
             IF b.head < b.tail /\ i >= b.tail + b.capacity THEN b.buffer[i - b.capacity]
             ELSE IF i < b.capacity THEN b.buffer[i] ELSE Junk]
    BY <1>2, Zenon DEF Doubled
  <2>2. GrowBuffer(b) = [[[b EXCEPT !.capacity = 2 * b.capacity]
                            EXCEPT !.buffer = Doubled(a, h, t, c)]
                            EXCEPT !.tail = IF b.head < b.tail THEN b.tail + b.capacity ELSE b.tail]
    BY <2>1, Zenon DEF GrowBuffer
  <2>3. GrowBuffer(b) = [[[b EXCEPT !.capacity = d] EXCEPT !.buffer = Doubled(a, h, t, c)]
                            EXCEPT !.tail = new]
    BY <1>2, <1>3, <2>2, Zenon
  <2>4. QED
    BY <1>1, <2>3 DEF Buffer
<1>5. Doubled(a, h, t, c) \in [0 .. d - 1 -> Stored \cup {Junk}]
  BY <1>1, <1>3, DoubledType
<1>6. h <= d /\ new < d /\ z <= d
  BY <1>1, <1>3
<1>7. /\ GrowBuffer(b) \in Buffers
      /\ GrowBuffer(b).buffer = Doubled(a, h, t, c) /\ GrowBuffer(b).head = h
      /\ GrowBuffer(b).tail = new /\ GrowBuffer(b).size = z /\ GrowBuffer(b).capacity = d
  BY <1>4, <1>5, <1>6, BufferType
<1>8. QED
  BY <1>2, <1>3, <1>7

LEMMA GrowKeeps ==
  ASSUME NEW b \in Buffers, NEW q, Contains(b, q), Growable(b)
  PROVE  Contains(GrowBuffer(b), q) /\ Growable(GrowBuffer(b))
<1>0. PICK c \in Nat \ {0} : \E h, t, z \in Nat : \E a \in [0 .. c - 1 -> Stored \cup {Junk}] :
         b = Buffer(a, h, t, z, c) /\ h <= c /\ t < c /\ z <= c
  BY BufferFields
<1>0b. PICK h, t, z \in Nat : \E a \in [0 .. c - 1 -> Stored \cup {Junk}] :
         b = Buffer(a, h, t, z, c) /\ h <= c /\ t < c /\ z <= c
  BY <1>0
<1>1. PICK a \in [0 .. c - 1 -> Stored \cup {Junk}] :
         b = Buffer(a, h, t, z, c) /\ h <= c /\ t < c /\ z <= c
  BY <1>0b
<1>2. /\ b.buffer = a /\ b.head = h /\ b.tail = t /\ b.size = z /\ b.capacity = c
  BY <1>1 DEF Buffer
<1>3. PICK new \in Nat, d \in Nat \ {0} : new = (IF h < t THEN t + c ELSE t) /\ d = 2 * c
  OBVIOUS
<1>7. /\ GrowBuffer(b) \in Buffers
      /\ GrowBuffer(b).buffer = Doubled(a, h, t, c) /\ GrowBuffer(b).head = h
      /\ GrowBuffer(b).tail = new /\ GrowBuffer(b).size = z /\ GrowBuffer(b).capacity = d
  BY <1>2, <1>3, GrowType
<1>8. h = t + z \/ (h + c = t + z /\ h > 0 /\ h < t)
  BY <1>2 DEF Growable, Straight, Around
<1>9. h = new + z \/ (h + d = new + z /\ h > 0 /\ h < new)
  BY <1>1, <1>3, <1>8
<1>10. Growable(GrowBuffer(b))
  BY <1>7, <1>9 DEF Growable, Straight, Around
<1>11. ASSUME NEW k \in 1 .. z
       PROVE  Doubled(a, h, t, c)[At(new, k, d)] = q[k]
  <2>1. a[At(t, k, c)] = q[k]
    BY <1>2 DEF Contains
  <2>2. Doubled(a, h, t, c)[At(new, k, 2 * c)] = a[At(t, k, c)]
    <3>1. k \in Nat \ {0} /\ k <= c /\ (h < t \/ t + k <= c)
      BY <1>1, <1>8
    <3>2. new = IF h < t THEN t + c ELSE t
      BY <1>3
    <3>3. t < c
      BY <1>1
    <3>4. QED
      BY <3>1, <3>2, <3>3, DoubledHolds
  <2>3. QED
    BY <1>3, <2>1, <2>2
<1>12. Contains(GrowBuffer(b), q)
  BY <1>2, <1>7, <1>11 DEF Contains
<1>13. QED
  BY <1>10, <1>12

(* The turns of Reserve's loop. *)
Fitted(x, n) == IF x.size + n > x.capacity THEN GrowBuffer(x) ELSE x
ReserveLoop(turn, b, n) ==
    /\ turn \in [0 .. MaxCapacity -> Buffers]
    /\ turn[0] = b
    /\ \A k \in 1 .. MaxCapacity : turn[k] = Fitted(turn[k - 1], n)

LEMMA ReserveTurns ==
  ASSUME NEW b \in Buffers, NEW n \in Nat, MaxCapacity \in Nat
  PROVE  \E turn : ReserveLoop(turn, b, n) /\ Reserve(b, n) = turn[MaxCapacity]
<1> DEFINE F(f) == [k \in 0 .. MaxCapacity |-> IF k = 0 THEN b
                      ELSE IF f[k - 1].size + n > f[k - 1].capacity THEN GrowBuffer(f[k - 1])
                                                                   ELSE f[k - 1]]
           turn == CHOOSE f : f = F(f)
           step == [x \in Buffers |-> Fitted(x, n)]
<1>1. Reserve(b, n) = turn[MaxCapacity]
  BY DEF Reserve
<1>2. step \in [Buffers -> Buffers]
  BY GrowType DEF Fitted
<1>3. PICK g : Turning(g, b, step, Buffers, MaxCapacity)
  <2> HIDE DEF step
  <2>1. QED
    BY <1>2, LoopHasStates
<1>4. ReserveLoop(g, b, n)
  <2>1. ASSUME NEW k \in 1 .. MaxCapacity
        PROVE  g[k] = Fitted(g[k - 1], n)
    <3>1. k - 1 \in 0 .. MaxCapacity
      OBVIOUS
    <3>2. g[k - 1] \in Buffers
      BY <1>3, <3>1 DEF Turning
    <3>3. step[g[k - 1]] = Fitted(g[k - 1], n)
      BY <3>2
    <3>4. g[k] = step[g[k - 1]]
      <4> HIDE DEF step
      <4>1. QED
        BY <1>3 DEF Turning
    <3>5. QED
      BY <3>3, <3>4
  <2> HIDE DEF step
  <2>2. QED
    BY <1>3, <2>1 DEF Turning, ReserveLoop
<1>5. g = F(g)
  <2>1. ASSUME NEW k \in 0 .. MaxCapacity
        PROVE  g[k] = F(g)[k]
    <3>1. CASE k = 0
      BY <1>4, <3>1 DEF ReserveLoop
    <3>2. CASE k # 0
      <4>1. k \in 1 .. MaxCapacity
        BY <3>2
      <4>2. g[k] = Fitted(g[k - 1], n)
        BY <1>4, <4>1, SMTT(30) DEF ReserveLoop
      <4>3. QED
        BY <3>2, <4>2 DEF Fitted
    <3>3. QED
      BY <3>1, <3>2
  <2>2. QED
    BY <1>4, <2>1 DEF ReserveLoop
<1>6. turn = F(turn)
  <2>1. \E f : f = F(f)
    BY <1>5
  <2>2. QED
    BY <2>1
<1> HIDE DEF turn
<1> DEFINE G == {k \in Nat : turn[k] = g[k]}
<1>7. 0 \in G
  BY <1>4, <1>6 DEF ReserveLoop
<1>8. ASSUME NEW k \in 0 .. MaxCapacity - 1, k \in G
      PROVE  k + 1 \in G
  <2>1. k + 1 \in 0 .. MaxCapacity /\ k + 1 # 0 /\ (k + 1) - 1 = k
    OBVIOUS
  <2>2. turn[k + 1] = F(turn)[k + 1] /\ g[k + 1] = F(g)[k + 1]
    BY <1>5, <1>6
  <2>3. turn[k + 1] = Fitted(turn[k], n) /\ g[k + 1] = Fitted(g[k], n)
    BY <2>1, <2>2 DEF Fitted
  <2>4. QED
    BY <1>8, <2>1, <2>3
<1> HIDE DEF G
<1>9. \A k \in 0 .. MaxCapacity : k \in G
  BY <1>7, <1>8, UpTo
<1>10. turn[MaxCapacity] = g[MaxCapacity]
  BY <1>9 DEF G
<1>11. QED
  BY <1>1, <1>4, <1>10

(* When the bytes fit into MaxCapacity the loop ends with room for them,   *)
(* and with another array exactly when there was none before.              *)
LEMMA ReserveFits ==
  ASSUME NEW b \in Buffers, NEW n \in Nat, MaxCapacity \in Nat, b.size + n <= MaxCapacity
  PROVE  /\ Reserve(b, n) \in Buffers /\ Reserve(b, n).size = b.size
         /\ b.size + n <= Reserve(b, n).capacity
         /\ b.size + n <= b.capacity => Reserve(b, n) = b
         /\ b.size + n > b.capacity => Reserve(b, n) # b
<1> DEFINE Good(x, k) ==
             /\ x \in Buffers /\ x.size = b.size
             /\ b.size + n <= x.capacity \/ x.capacity > k
             /\ b.size + n <= b.capacity => x = b
             /\ x.capacity >= b.capacity
             /\ b.size + n > b.capacity /\ k >= 1 => x.capacity > b.capacity
<1>1. b.size \in Nat /\ b.capacity \in Nat \ {0}
  BY BufferParts
<1>2. ASSUME NEW x, NEW k \in Nat, Good(x, k)
      PROVE  Good(Fitted(x, n), k + 1)
  <2>1. x.capacity \in Nat \ {0}
    BY <1>2, BufferParts
  <2>2. CASE x.size + n > x.capacity
    <3>1. /\ Fitted(x, n) = GrowBuffer(x) /\ GrowBuffer(x) \in Buffers
          /\ GrowBuffer(x).size = b.size /\ GrowBuffer(x).capacity = 2 * x.capacity
      BY <1>2, <2>2, GrowType DEF Fitted
    <3>2. PICK y : y = GrowBuffer(x)
      OBVIOUS
    <3>3. Good(y, k + 1)
      BY <1>1, <1>2, <2>1, <2>2, <3>1, <3>2
    <3>4. QED
      BY <3>1, <3>2, <3>3, Zenon
  <2>3. CASE ~(x.size + n > x.capacity)
    <3>1. Fitted(x, n) = x
      BY <2>3 DEF Fitted
    <3>2. Good(x, k + 1)
      BY <1>1, <1>2, <2>1, <2>3
    <3>3. QED
      BY <3>1, <3>2, Zenon
  <2>4. QED
    BY <2>2, <2>3
<1>3. PICK turn : ReserveLoop(turn, b, n) /\ Reserve(b, n) = turn[MaxCapacity]
  BY ReserveTurns
<1>4. Good(b, 0)
  BY <1>1
<1> HIDE DEF Good
<1> DEFINE G == {k \in Nat : Good(turn[k], k)}
<1>5. 0 \in G
  BY <1>3, <1>4 DEF ReserveLoop
<1>6. ASSUME NEW k \in 0 .. MaxCapacity - 1, k \in G
      PROVE  k + 1 \in G
  <2>1. k + 1 \in 1 .. MaxCapacity /\ (k + 1) - 1 = k /\ k + 1 \in Nat
    OBVIOUS
  <2>2. turn[k + 1] = Fitted(turn[k], n)
    BY <1>3, <2>1 DEF ReserveLoop
  <2>3. Good(Fitted(turn[k], n), k + 1)
    BY <1>2, <1>6
  <2>4. QED
    BY <2>1, <2>2, <2>3
<1> HIDE DEF G
<1>7. \A k \in 0 .. MaxCapacity : k \in G
  BY <1>5, <1>6, UpTo
<1>8. Good(Reserve(b, n), MaxCapacity)
  BY <1>3, <1>7 DEF G
<1> USE DEF Good
<1>9. PICK r : r = Reserve(b, n)
  OBVIOUS
<1>10. Good(r, MaxCapacity) /\ r.capacity \in Nat \ {0}
  BY <1>8, <1>9, BufferParts
<1>11. /\ r \in Buffers /\ r.size = b.size /\ b.size + n <= r.capacity
       /\ b.size + n <= b.capacity => r = b
  BY <1>1, <1>10
<1>12. b.size + n > b.capacity => r.capacity > b.capacity
  BY <1>1, <1>10
<1>13. b.size + n > b.capacity => r # b
  BY <1>1, <1>12
<1>14. QED
  BY <1>9, <1>11, <1>13, Zenon

(* The loop keeps the bytes when each doubling does.                       *)
LEMMA ReserveKeeps ==
  ASSUME NEW b \in Buffers, NEW n \in Nat, MaxCapacity \in Nat,
         NEW q, Contains(b, q), Placed(b), b.size + n > b.capacity => Growable(b)
  PROVE  Contains(Reserve(b, n), q) /\ Placed(Reserve(b, n))
<1> DEFINE Good(x) ==
             /\ x \in Buffers /\ x.size = b.size /\ Contains(x, q)
             /\ x = b \/ Growable(x)
<1>1. ASSUME NEW x, Good(x)
      PROVE  Good(Fitted(x, n))
  <2>1. CASE x.size + n > x.capacity
    <3>1. Growable(x)
      BY <1>1, <2>1
    <3>2. /\ Fitted(x, n) = GrowBuffer(x) /\ GrowBuffer(x) \in Buffers
          /\ GrowBuffer(x).size = b.size
      BY <1>1, <2>1, GrowType DEF Fitted
    <3>3. Contains(GrowBuffer(x), q) /\ Growable(GrowBuffer(x))
      BY <1>1, <3>1, GrowKeeps
    <3>4. QED
      BY <3>2, <3>3
  <2>2. CASE ~(x.size + n > x.capacity)
    <3>1. Fitted(x, n) = x
      BY <2>2 DEF Fitted
    <3>2. QED
      BY <1>1, <3>1
  <2>3. QED
    BY <2>1, <2>2
<1>2. PICK turn : ReserveLoop(turn, b, n) /\ Reserve(b, n) = turn[MaxCapacity]
  BY ReserveTurns
<1>3. Good(b)
  OBVIOUS
<1>4. ASSUME NEW x, Good(x)
      PROVE  Contains(x, q) /\ Placed(x)
  BY <1>4 DEF Growable, Placed
<1> HIDE DEF Good
<1> DEFINE G == {k \in Nat : Good(turn[k])}
<1>5. 0 \in G
  BY <1>2, <1>3 DEF ReserveLoop
<1>6. ASSUME NEW k \in 0 .. MaxCapacity - 1, k \in G
      PROVE  k + 1 \in G
  <2>1. k + 1 \in 1 .. MaxCapacity /\ (k + 1) - 1 = k /\ k + 1 \in Nat
    OBVIOUS
  <2>2. turn[k + 1] = Fitted(turn[k], n)
    BY <1>2, <2>1 DEF ReserveLoop
  <2>3. Good(Fitted(turn[k], n))
    BY <1>1, <1>6
  <2>4. QED
    BY <2>1, <2>2, <2>3
<1> HIDE DEF G
<1>7. \A k \in 0 .. MaxCapacity : k \in G
  BY <1>5, <1>6, UpTo
<1>8. Good(Reserve(b, n))
  BY <1>2, <1>7 DEF G
<1>9. QED
  BY <1>4, <1>8

(* What is stored lies behind the bytes held: the places the copy writes   *)
(* are theirs, and head is again placed behind them.                       *)
Behind(h, t, z, c) ==
    /\ h <= c /\ t < c
    /\ h = t + z \/ (h + c = t + z /\ h > 0) \/ (z = 0 /\ t = 0 /\ h = c)

LEMMA NextPlaces ==
  ASSUME NEW c \in Nat \ {0}, NEW h \in Nat, NEW t \in Nat, NEW z \in Nat, Behind(h, t, z, c)
  PROVE  \A k \in Nat \ {0} : z + k <= c => At(h, k, c) = At(t, z + k, c)
<1> SUFFICES ASSUME NEW k \in Nat \ {0}, z + k <= c
             PROVE  At(h, k, c) = At(t, z + k, c)
  OBVIOUS
<1>1. CASE h = t + z
  BY <1>1 DEF At
<1>2. CASE h + c = t + z
  BY <1>2 DEF At, Behind
<1>3. CASE z = 0 /\ t = 0 /\ h = c
  BY <1>3 DEF At
<1>4. QED
  BY <1>1, <1>2, <1>3 DEF Behind

Written(b, data) ==
    [i \in DOMAIN b.buffer |->
       IF i \in {At(b.head, k, b.capacity) : k \in 1 .. Len(data)}
       THEN data[CHOOSE k \in 1 .. Len(data) : At(b.head, k, b.capacity) = i]
       ELSE b.buffer[i]]

LEMMA StoreFields ==
  ASSUME NEW b \in Buffers, NEW data \in Seq(Stored)
  PROVE  Store(b, data) =
           Buffer(Written(b, data),
                  IF b.head + Len(data) > b.capacity THEN Len(data) - (b.capacity - b.head)
                                                     ELSE b.head + Len(data),
                  b.tail, b.size + Len(data), b.capacity)
<1> DEFINE new == [i \in DOMAIN b.buffer |->
                     IF i \in {IF b.head + k - 1 < b.capacity THEN b.head + k - 1
                               ELSE b.head + k - 1 - b.capacity : k \in 1 .. Len(data)}
                     THEN data[CHOOSE k \in 1 .. Len(data) :
                                 (IF b.head + k - 1 < b.capacity THEN b.head + k - 1
                                  ELSE b.head + k - 1 - b.capacity) = i]
                     ELSE b.buffer[i]]
           x == IF b.head + Len(data) > b.capacity THEN Len(data) - (b.capacity - b.head)
                                                   ELSE b.head + Len(data)
           y == b.size + Len(data)
<1>1. new = Written(b, data)
  BY Zenon DEF Written, At
<1>2. Store(b, data) = [[[b EXCEPT !.buffer = new] EXCEPT !.head = x] EXCEPT !.size = y]
  BY Zenon DEF Store
<1> HIDE DEF new, x, y
<1>3. PICK c \in Nat \ {0} : \E h, t, z \in Nat : \E a \in [0 .. c - 1 -> Stored \cup {Junk}] :
         b = Buffer(a, h, t, z, c)
  BY BufferFields
<1>4. PICK h, t, z \in Nat : \E a \in [0 .. c - 1 -> Stored \cup {Junk}] : b = Buffer(a, h, t, z, c)
  BY <1>3
<1>5. PICK a \in [0 .. c - 1 -> Stored \cup {Junk}] : b = Buffer(a, h, t, z, c)
  BY <1>4
<1>6. b.head = h /\ b.tail = t /\ b.size = z /\ b.capacity = c
  BY <1>5 DEF Buffer
<1>7. PICK nh, nz \in Int : nh = x /\ nz = y
  <2>1. Len(data) \in Nat
    OBVIOUS
  <2>2. x \in Int /\ y \in Int
    BY <1>6, <2>1 DEF x, y
  <2>3. QED
    BY <2>2
<1>8. Store(b, data) = Buffer(new, nh, t, nz, c)
  <2>1. Store(b, data) = [[[b EXCEPT !.buffer = new] EXCEPT !.head = nh] EXCEPT !.size = nz]
    BY <1>2, <1>7, Zenon
  <2>2. QED
    BY <1>5, <2>1 DEF Buffer
<1>9. Store(b, data) = Buffer(Written(b, data), x, b.tail, y, b.capacity)
  BY <1>1, <1>6, <1>7, <1>8, Zenon
<1>10. QED
  BY <1>9, Zenon DEF x, y

(* Whatever the indices are, the copy of bytes there is room for stays in  *)
(* the array.                                                              *)
LEMMA StoreType ==
  ASSUME NEW b \in Buffers, NEW data \in Seq(Stored), b.size + Len(data) <= b.capacity
  PROVE  /\ Store(b, data) \in Buffers /\ Store(b, data).buffer = Written(b, data)
         /\ Store(b, data).head =
              (IF b.head + Len(data) > b.capacity THEN Len(data) - (b.capacity - b.head)
                                                  ELSE b.head + Len(data))
         /\ Store(b, data).tail = b.tail /\ Store(b, data).size = b.size + Len(data)
         /\ Store(b, data).capacity = b.capacity
<1>0. PICK c \in Nat \ {0} : c = b.capacity
  BY BufferParts
<1>1. PICK h, t, z \in Nat : h = b.head /\ t = b.tail /\ z = b.size /\ h <= c /\ t < c /\ z <= c
  BY <1>0, BufferParts
<1>2. PICK n \in Nat : n = Len(data) /\ z + n <= c
  BY <1>0, <1>1
<1>3. PICK nh \in Nat : nh = (IF h + n > c THEN n - (c - h) ELSE h + n) /\ nh <= c
  <2>1. h + n > c => n - (c - h) \in Nat /\ n - (c - h) <= c
    BY <1>1, <1>2
  <2>2. ~(h + n > c) => h + n \in Nat /\ h + n <= c
    BY <1>1, <1>2
  <2>3. QED
    BY <2>1, <2>2, Zenon
<1>4. PICK nz \in Nat : nz = z + n /\ nz <= c
  BY <1>2
<1>5. Written(b, data) \in [0 .. c - 1 -> Stored \cup {Junk}]
  <2>1. DOMAIN b.buffer = 0 .. c - 1 /\ b.buffer \in [0 .. c - 1 -> Stored \cup {Junk}]
    BY <1>0, BufferParts
  <2>2. \A k \in 1 .. Len(data) : data[k] \in Stored
    OBVIOUS
  <2>3. ASSUME NEW i \in 0 .. c - 1
        PROVE  (IF i \in {At(b.head, k, b.capacity) : k \in 1 .. Len(data)}
                THEN data[CHOOSE k \in 1 .. Len(data) : At(b.head, k, b.capacity) = i]
                ELSE b.buffer[i]) \in Stored \cup {Junk}
    <3>1. CASE i \in {At(b.head, k, b.capacity) : k \in 1 .. Len(data)}
      <4>1. \E k \in 1 .. Len(data) : At(b.head, k, b.capacity) = i
        BY <3>1
      <4>2. PICK k \in 1 .. Len(data) :
               k = CHOOSE j \in 1 .. Len(data) : At(b.head, j, b.capacity) = i
        BY <4>1
      <4>3. QED
        BY <2>2, <3>1, <4>2
    <3>2. CASE i \notin {At(b.head, k, b.capacity) : k \in 1 .. Len(data)}
      BY <2>1, <3>2
    <3>3. QED
      BY <3>1, <3>2
  <2>4. QED
    BY <2>1, <2>3 DEF Written
<1>6. Store(b, data) = Buffer(Written(b, data), nh, t, nz, c)
  BY <1>0, <1>1, <1>2, <1>3, <1>4, StoreFields, Zenon
<1>7. PICK w : w = Written(b, data)
  OBVIOUS
<1>8. /\ Buffer(w, nh, t, nz, c) \in Buffers /\ Buffer(w, nh, t, nz, c).buffer = w
      /\ Buffer(w, nh, t, nz, c).head = nh /\ Buffer(w, nh, t, nz, c).tail = t
      /\ Buffer(w, nh, t, nz, c).size = nz /\ Buffer(w, nh, t, nz, c).capacity = c
  <2>1. w \in [0 .. c - 1 -> Stored \cup {Junk}] /\ nz <= c /\ nh <= c /\ t < c
    BY <1>1, <1>3, <1>4, <1>5, <1>7
  <2>2. QED
    BY ONLY c \in Nat \ {0}, nh \in Nat, nz \in Nat, t \in Nat, <2>1, BufferType
<1>9. QED
  BY <1>0, <1>1, <1>2, <1>3, <1>4, <1>6, <1>7, <1>8, Zenon

LEMMA StoreKeeps ==
  ASSUME NEW b \in Buffers, NEW q \in Seq(Stored), NEW data \in Seq(Stored),
         Contains(b, q), Placed(b), b.size + Len(data) <= b.capacity
  PROVE  Contains(Store(b, data), q \o data) /\ Placed(Store(b, data))
<1> DEFINE w == Written(b, data)
<1>0. PICK c \in Nat \ {0} : c = b.capacity
  BY BufferParts
<1>1. PICK h, t, z \in Nat : h = b.head /\ t = b.tail /\ z = b.size /\ h <= c /\ t < c /\ z <= c
  BY <1>0, BufferParts
<1>2. PICK n \in Nat : n = Len(data) /\ z + n <= c
  BY <1>0, <1>1
<1>3. PICK nh \in Int : nh = IF h + n > c THEN n - (c - h) ELSE h + n
  <2>1. (IF h + n > c THEN n - (c - h) ELSE h + n) \in Int
    OBVIOUS
  <2> HIDE DEF w
  <2>2. QED
    BY <2>1
<1>5. h = t + z \/ (h + c = t + z /\ h > 0) \/ (z = 0 /\ t = 0 /\ h = c)
  BY <1>0, <1>1 DEF Placed, Straight, Around, Spent
<1>6. ASSUME NEW k \in 1 .. n
      PROVE  At(h, k, c) = At(t, z + k, c) /\ At(h, k, c) \in 0 .. c - 1
  <2>1. At(h, k, c) = At(t, z + k, c)
    <3>1. k \in Nat \ {0} /\ z + k <= c
      BY <1>2
    <3>2. Behind(h, t, z, c)
      BY <1>1, <1>5 DEF Behind
    <3>3. \A x \in Nat \ {0} : z + x <= c => At(h, x, c) = At(t, z + x, c)
      BY <3>2, NextPlaces
    <3>4. QED
      BY <3>1, <3>3
  <2>2. z + k \in 1 .. c /\ t \in 0 .. c - 1
    BY <1>1, <1>2, SMTT(30)
  <2>3. QED
    BY <2>1, <2>2, PlacesDiffer
<1>7. ASSUME NEW j \in 1 .. z + n, NEW k \in 1 .. n, At(t, j, c) = At(h, k, c)
      PROVE  j = z + k
  <2>1. z + k \in 1 .. c /\ j \in 1 .. c /\ t \in 0 .. c - 1
    BY <1>1, <1>2, SMTT(30)
  <2>2. At(t, j, c) = At(t, z + k, c)
    BY <1>6, <1>7
  <2>3. QED
    BY <2>1, <2>2, PlacesDiffer
<1>8. /\ DOMAIN b.buffer = 0 .. c - 1 /\ b.buffer \in [0 .. c - 1 -> Stored \cup {Junk}]
  BY <1>0, BufferParts
<1>9. w = [i \in 0 .. c - 1 |-> IF i \in {At(h, k, c) : k \in 1 .. n}
                                THEN data[CHOOSE k \in 1 .. n : At(h, k, c) = i]
                                ELSE b.buffer[i]]
  <2>1. w = [i \in 0 .. c - 1 |-> IF i \in {At(b.head, k, b.capacity) : k \in 1 .. Len(data)}
                THEN data[CHOOSE k \in 1 .. Len(data) : At(b.head, k, b.capacity) = i]
                ELSE b.buffer[i]]
    BY <1>8, Zenon DEF Written
  <2>2. b.head = h /\ b.capacity = c /\ Len(data) = n
    BY <1>0, <1>1, <1>2
  <2> HIDE DEF w
  <2>3. QED
    BY <2>1, <2>2
<1> HIDE DEF w
<1>10. ASSUME NEW k \in 1 .. n
       PROVE  w[At(h, k, c)] = data[k]
  <2>1. PICK i \in 0 .. c - 1 : i = At(h, k, c)
    BY <1>6
  <2>2. \A j \in 1 .. n : At(h, j, c) = i => j = k
    <3>1. ASSUME NEW j \in 1 .. n, At(h, j, c) = i
          PROVE  j = k
      <4>1. z + j \in 1 .. z + n
        BY <1>2
      <4>2. At(t, z + j, c) = At(h, k, c)
        BY <1>6, <2>1, <3>1
      <4>3. z + j = z + k
        BY <1>7, <4>1, <4>2
      <4>4. QED
        BY <4>3
    <3>2. QED
      BY <3>1
  <2>3. (CHOOSE j \in 1 .. n : At(h, j, c) = i) = k
    BY <2>1, <2>2
  <2>4. i \in {At(h, j, c) : j \in 1 .. n}
    BY <2>1
  <2>5. w[i] = data[CHOOSE j \in 1 .. n : At(h, j, c) = i]
    BY <1>9, <2>4
  <2>6. QED
    BY <2>1, <2>3, <2>5
<1>11. ASSUME NEW j \in 1 .. z
       PROVE  w[At(t, j, c)] = b.buffer[At(t, j, c)]
  <2>1. PICK i \in 0 .. c - 1 : i = At(t, j, c)
    <3>1. j \in 1 .. c /\ t \in 0 .. c - 1
      BY <1>1
    <3>2. QED
      BY <3>1, PlacesDiffer
  <2>2. i \notin {At(h, k, c) : k \in 1 .. n}
    <3>1. ASSUME NEW k \in 1 .. n, At(h, k, c) = i
          PROVE  FALSE
      <4>1. j \in 1 .. z + n
        BY <1>2
      <4>2. j = z + k
        BY <1>7, <2>1, <3>1, <4>1
      <4>3. QED
        BY <4>2
    <3>2. QED
      BY <3>1
  <2>3. w[i] = b.buffer[i]
    BY <1>9, <2>2
  <2>4. QED
    BY <2>1, <2>3
<1>14. PICK s : s = Store(b, data)
  OBVIOUS
<1>15. PICK nz \in Nat : nz = z + n
  OBVIOUS
<1>16. /\ s.buffer = w /\ s.head = nh /\ s.tail = t
       /\ s.size = nz /\ s.capacity = c
  BY <1>0, <1>1, <1>2, <1>3, <1>14, <1>15, StoreType DEF w
<1>17. Placed(s)
  <2>1. nh = t + nz \/ (nh + c = t + nz /\ nh > 0) \/ (nz = 0 /\ t = 0 /\ nh = c)
    <3>1. h \in Nat /\ t \in Nat /\ z \in Nat /\ h <= c /\ t < c /\ z + n <= c
      BY <1>1, <1>2
    <3>2. nz = z + n
      BY <1>15
    <3>3. CASE h = t + z
      BY ONLY c \in Nat, n \in Nat, nh \in Int, nz \in Nat, <1>3, <3>1, <3>2, <3>3
    <3>4. CASE h + c = t + z /\ h > 0
      BY ONLY c \in Nat, n \in Nat, nh \in Int, nz \in Nat, <1>3, <3>1, <3>2, <3>4
    <3>5. CASE z = 0 /\ t = 0 /\ h = c
      BY ONLY c \in Nat, n \in Nat, nh \in Int, nz \in Nat, <1>3, <3>1, <3>2, <3>5
    <3>6. QED
      BY <1>5, <3>3, <3>4, <3>5
  <2>2. QED
    BY <1>16, <2>1 DEF Placed, Straight, Around, Spent
<1>18. Contains(s, q \o data)
  <2>1. Len(q) = z
    BY <1>1 DEF Contains
  <2>2. Len(q \o data) = nz
    BY <1>2, <1>15, <2>1
  <2>3. ASSUME NEW j \in 1 .. nz
        PROVE  w[At(t, j, c)] = (q \o data)[j]
    <3>1. CASE j \in 1 .. z
      <4>1. (q \o data)[j] = q[j]
        BY <2>1, <3>1
      <4>2. b.buffer[At(t, j, c)] = q[j]
        BY <1>0, <1>1, <3>1 DEF Contains
      <4>3. QED
        BY <1>11, <3>1, <4>1, <4>2
    <3>2. CASE j \notin 1 .. z
      <4>1. PICK k \in 1 .. n : j = z + k
        <5>1. j - z \in 1 .. n /\ j = z + (j - z)
          BY <1>15, <3>2
        <5>2. QED
          BY <5>1
      <4>2. (q \o data)[j] = data[k]
        <5>1. j \in 1 .. Len(q) + Len(data) /\ ~(j <= Len(q)) /\ j - Len(q) = k
          BY <1>2, <2>1, <4>1
        <5>2. QED
          BY <5>1
      <4>3. w[At(t, j, c)] = data[k]
        BY <1>6, <1>10, <4>1
      <4>4. QED
        BY <4>2, <4>3
    <3>3. QED
      BY <3>1, <3>2
  <2>4. QED
    BY <1>16, <2>2, <2>3 DEF Contains
<1>19. QED
  BY <1>14, <1>16, <1>17, <1>18, Zenon

-----------------------------------------------------------------------------
(* stream_pop_data advances tail over the r bytes it copied out.           *)
Advanced(b, r) == Buffer(b.buffer, b.head, (b.tail + r) % b.capacity, b.size - r, b.capacity)

LEMMA TailAdvances ==
  ASSUME NEW c \in Nat \ {0}, NEW t \in Nat, NEW r \in Nat, t < c, r <= c
  PROVE  (t + r) % c = IF t + r < c THEN t + r ELSE t + r - c
<1>1. CASE t + r < c
  <2>1. t + r \in 0 .. c - 1 /\ c * 0 + (t + r) = t + r
    BY <1>1
  <2>2. (c * 0 + (t + r)) % c = t + r
    BY <2>1, Remainder
  <2>3. QED
    BY <1>1, <2>1, <2>2
<1>2. CASE t + r >= c
  <2>1. t + r - c \in 0 .. c - 1 /\ c * 1 + (t + r - c) = t + r
    BY <1>2
  <2>2. (c * 1 + (t + r - c)) % c = t + r - c
    BY <2>1, Remainder
  <2>3. QED
    BY <1>2, <2>1, <2>2
<1>3. QED
  BY <1>1, <1>2

LEMMA PopType ==
  ASSUME NEW b \in Buffers, NEW r \in Nat, r <= b.size
  PROVE  /\ Advanced(b, r) \in Buffers /\ Advanced(b, r).size = b.size - r
         /\ Advanced(b, r).buffer = b.buffer /\ Advanced(b, r).head = b.head
         /\ Advanced(b, r).capacity = b.capacity
         /\ Advanced(b, r).tail =
              IF b.tail + r < b.capacity THEN b.tail + r ELSE b.tail + r - b.capacity
<1>0. PICK c \in Nat \ {0} : c = b.capacity
  BY BufferParts
<1>1. PICK h, t, z \in Nat : h = b.head /\ t = b.tail /\ z = b.size /\ h <= c /\ t < c /\ z <= c
  BY <1>0, BufferParts
<1>2. PICK a \in [0 .. c - 1 -> Stored \cup {Junk}] : a = b.buffer
  BY <1>0, BufferParts
<1>3. PICK nt \in Nat : nt = (IF t + r < c THEN t + r ELSE t + r - c) /\ nt < c
  <2>1. t + r < c => t + r \in Nat
    OBVIOUS
  <2>2. ~(t + r < c) => t + r - c \in Nat /\ t + r - c < c
    BY <1>1
  <2>3. QED
    BY <2>1, <2>2, Zenon
<1>4. PICK nz \in Nat : nz = z - r /\ nz <= c
  BY <1>1
<1>5. (t + r) % c = nt
  <2>1. t < c /\ r <= c
    BY <1>1
  <2>2. (t + r) % c = IF t + r < c THEN t + r ELSE t + r - c
    BY <2>1, TailAdvances
  <2>3. QED
    BY <1>3, <2>2, Zenon
<1>6. Advanced(b, r) = Buffer(a, h, nt, nz, c)
  BY <1>0, <1>1, <1>2, <1>4, <1>5, Zenon DEF Advanced
<1>7. /\ Buffer(a, h, nt, nz, c) \in Buffers /\ Buffer(a, h, nt, nz, c).buffer = a
      /\ Buffer(a, h, nt, nz, c).head = h /\ Buffer(a, h, nt, nz, c).tail = nt
      /\ Buffer(a, h, nt, nz, c).size = nz /\ Buffer(a, h, nt, nz, c).capacity = c
  <2>1. h <= c /\ nt < c /\ nz <= c
    BY <1>1, <1>3, <1>4
  <2>2. QED
    BY <2>1, BufferType
<1>8. QED
  BY <1>0, <1>1, <1>2, <1>3, <1>4, <1>6, <1>7, Zenon

LEMMA PopKeeps ==
  ASSUME NEW b \in Buffers, NEW q \in Seq(Stored), NEW r \in Nat \ {0}, r <= b.size,
         Contains(b, q), Placed(b)
  PROVE  Contains(Advanced(b, r), SubSeq(q, r + 1, Len(q))) /\ Placed(Advanced(b, r))
<1>0. PICK c \in Nat \ {0} : c = b.capacity
  BY BufferParts
<1>1. PICK h, t, z \in Nat : h = b.head /\ t = b.tail /\ z = b.size /\ h <= c /\ t < c /\ z <= c
  BY <1>0, BufferParts
<1>2. r <= z
  BY <1>1
<1>3. PICK nt \in Nat : nt = IF t + r < c THEN t + r ELSE t + r - c
  <2>1. t + r < c => t + r \in Nat
    OBVIOUS
  <2>2. ~(t + r < c) => t + r - c \in Nat
    OBVIOUS
  <2>3. QED
    BY <2>1, <2>2, Zenon
<1>4. PICK nz \in Nat : nz = z - r
  BY <1>2
<1>5. PICK s : s = Advanced(b, r)
  OBVIOUS
<1>6. s.size = nz /\ s.buffer = b.buffer /\ s.head = h /\ s.capacity = c /\ s.tail = nt
  BY <1>0, <1>1, <1>3, <1>4, <1>5, PopType
<1>7. h = t + z \/ (h + c = t + z /\ h > 0)
  BY <1>0, <1>1, <1>2 DEF Placed, Straight, Around, Spent
<1>8. Placed(s)
  <2>1. h = nt + nz \/ (h + c = nt + nz /\ h > 0) \/ (nz = 0 /\ nt = 0 /\ h = c)
    <3>1. h <= c /\ t < c /\ z <= c
      BY <1>1
    <3>2. CASE h = t + z
      BY <1>2, <1>3, <1>4, <3>1, <3>2
    <3>3. CASE h + c = t + z /\ h > 0
      BY <1>2, <1>3, <1>4, <3>1, <3>3
    <3>4. QED
      BY <1>7, <3>2, <3>3
  <2>2. QED
    BY <1>6, <2>1 DEF Placed, Straight, Around, Spent
<1>9. Contains(s, SubSeq(q, r + 1, Len(q)))
  <2>1. Len(q) = z
    BY <1>1 DEF Contains
  <2>2. Len(SubSeq(q, r + 1, Len(q))) = nz
    BY <1>2, <1>4, <2>1
  <2>3. ASSUME NEW k \in 1 .. nz
        PROVE  b.buffer[At(nt, k, c)] = SubSeq(q, r + 1, Len(q))[k]
    <3>1. r + k \in 1 .. z
      BY <1>4
    <3>2. SubSeq(q, r + 1, Len(q))[k] = q[r + k]
      BY <1>2, <1>4, <2>1
    <3>3. At(nt, k, c) = At(t, r + k, c)
      <4>1. t < c /\ z <= c
        BY <1>1
      <4>2. CASE t + r < c
        <5>1. nt = t + r
          BY <1>3, <4>2
        <5>2. QED
          BY <4>1, <5>1, <3>1 DEF At
      <4>3. CASE ~(t + r < c)
        <5>1. nt = t + r - c
          BY <1>3, <4>3
        <5>2. nt + k - 1 < c /\ ~(t + (r + k) - 1 < c)
          BY <4>1, <4>3, <5>1, <3>1
        <5>3. QED
          BY <5>1, <5>2 DEF At
      <4>4. QED
        BY <4>2, <4>3
    <3>4. b.buffer[At(t, r + k, c)] = q[r + k]
      BY <1>0, <1>1, <3>1 DEF Contains
    <3>5. QED
      BY <3>2, <3>3, <3>4
  <2>4. QED
    BY <1>6, <2>2, <2>3 DEF Contains
<1>10. QED
  BY <1>5, <1>8, <1>9, Zenon

-----------------------------------------------------------------------------
(* The buffer of the program is a buffer, whatever has been misplaced, and *)
(* until then it holds what a FIFO would.                                  *)
BufferInv ==
    /\ Current \in Buffers
    /\ queue \in Seq(Stored) /\ Len(queue) = size
    /\ nextByte \in Stored
    /\ misplaced \in BOOLEAN
    /\ ~misplaced => Contains(Current, queue) /\ Placed(Current)

LEMMA BufferBounds ==
  /\ INITIAL_BUFFER_CAPACITY \in Nat \ {0} /\ MaxCapacity \in Nat
  /\ Bytes \in Nat \ {0} /\ Sizes \subseteq Nat
BY BufferAssumption

(* The bytes of a message. *)
LEMMA BytesNumbered ==
  ASSUME NEW n \in Nat, nextByte \in Stored
  PROVE  /\ [k \in 1 .. n |-> (nextByte + k - 1) % Bytes] \in Seq(Stored)
         /\ Len([k \in 1 .. n |-> (nextByte + k - 1) % Bytes]) = n
         /\ (nextByte + n) % Bytes \in Stored
<1>1. \A x \in Nat : x % Bytes \in Stored
  BY BufferBounds DEF Stored
<1>2. nextByte \in Nat
  BY BufferBounds DEF Stored
<1>3. \A k \in 1 .. n : nextByte + k - 1 \in Nat
  BY <1>2
<1>4. \A k \in 1 .. n : (nextByte + k - 1) % Bytes \in Stored
  BY <1>1, <1>3
<1>5. (nextByte + n) % Bytes \in Stored
  BY <1>1, <1>2
<1>6. QED
  BY <1>4, <1>5

LEMMA BufferInvInit == BufferInit => BufferInv
<1> SUFFICES ASSUME BufferInit
             PROVE  BufferInv
  OBVIOUS
<1> DEFINE c == INITIAL_BUFFER_CAPACITY
           a == [i \in 0 .. c - 1 |-> Junk]
<1>1. c \in Nat \ {0}
  BY BufferBounds
<1>2. a \in [0 .. c - 1 -> Stored \cup {Junk}]
  OBVIOUS
<1>3. Current = Buffer(a, 0, 0, 0, c)
  BY DEF BufferInit, Current, Buffer
<1> HIDE DEF a, c
<1>4. /\ Current \in Buffers /\ Current.head = 0 /\ Current.tail = 0 /\ Current.size = 0
  <2>1. /\ Buffer(a, 0, 0, 0, c) \in Buffers /\ Buffer(a, 0, 0, 0, c).head = 0
        /\ Buffer(a, 0, 0, 0, c).tail = 0 /\ Buffer(a, 0, 0, 0, c).size = 0
    BY <1>1, <1>2, BufferType
  <2>2. QED
    BY <1>3, <2>1, Zenon
<1>5. Contains(Current, queue) /\ Placed(Current)
  BY <1>4 DEF BufferInit, Contains, Placed, Straight
<1>6. nextByte \in Stored
  BY BufferBounds DEF BufferInit, Stored
<1>7. queue \in Seq(Stored) /\ Len(queue) = size /\ misplaced \in BOOLEAN
  <2>1. queue = <<>> /\ size = 0 /\ misplaced = FALSE
    BY DEF BufferInit
  <2>2. queue \in Seq(Stored) /\ Len(queue) = 0
    BY <2>1
  <2>3. QED
    BY <2>1, <2>2, Zenon
<1>8. QED
  BY <1>4, <1>5, <1>6, <1>7 DEF BufferInv

(* What the next state's variables are one by one they are as a record. *)
LEMMA CurrentIs ==
  ASSUME NEW x \in Buffers, buffer' = x.buffer, head' = x.head, tail' = x.tail,
         size' = x.size, capacity' = x.capacity
  PROVE  Current' = x
<1>1. PICK c \in Nat \ {0} : \E h, t, z \in Nat : \E a \in [0 .. c - 1 -> Stored \cup {Junk}] :
         x = Buffer(a, h, t, z, c)
  BY BufferFields
<1>2. PICK a, h, t, z : x = Buffer(a, h, t, z, c)
  BY <1>1
<1>3. x.buffer = a /\ x.head = h /\ x.tail = t /\ x.size = z /\ x.capacity = c
  BY <1>2 DEF Buffer
<1>4. Current' = Buffer(a, h, t, z, c)
  BY <1>3 DEF Current, Buffer
<1>5. QED
  BY <1>2, <1>4

LEMMA ArriveKeeps ==
  ASSUME BufferInv, NEW n \in Sizes, Arrive(n)
  PROVE  BufferInv'
<1> DEFINE data == [k \in 1 .. n |-> (nextByte + k - 1) % Bytes]
<1>0. n \in Nat /\ MaxCapacity \in Nat
  BY BufferBounds
<1>1. data \in Seq(Stored) /\ Len(data) = n /\ (nextByte + n) % Bytes \in Stored
  BY <1>0, BytesNumbered DEF BufferInv
<1>2. /\ stream_push_data(data) /\ queue' = queue \o data
      /\ nextByte' = (nextByte + n) % Bytes /\ size + n <= MaxCapacity
  BY DEF Arrive
<1> HIDE DEF data
<1>3. PICK b : b = Current
  OBVIOUS
<1>4. /\ b \in Buffers /\ b.size = size /\ b.head = head /\ b.tail = tail
      /\ b.capacity = capacity
  BY <1>3 DEF BufferInv, Current
<1>5. PICK r : r = Reserve(b, n)
  OBVIOUS
<1>6. PICK s : s = Store(r, data)
  OBVIOUS
<1>7. /\ r \in Buffers /\ r.size = size /\ size + n <= r.capacity
      /\ size + n <= capacity => r = b
      /\ size + n > capacity => r # b
  BY <1>0, <1>2, <1>4, <1>5, ReserveFits
<1>8. s \in Buffers /\ s.size = size + n
  BY <1>1, <1>6, <1>7, StoreType
<1>9. /\ buffer' = s.buffer /\ head' = s.head /\ tail' = s.tail /\ size' = s.size
      /\ capacity' = s.capacity
      /\ misplaced' = (misplaced \/ (r # b /\ GrowMisplaces))
  BY <1>1, <1>2, <1>3, <1>5, <1>6, Zenon DEF stream_push_data
<1>10. Current' = s
  BY <1>8, <1>9, CurrentIs
<1>11. queue' \in Seq(Stored) /\ Len(queue') = size'
  <2>1. queue \in Seq(Stored) /\ Len(queue) = size
    BY DEF BufferInv
  <2>2. queue \o data \in Seq(Stored) /\ Len(queue \o data) = Len(queue) + Len(data)
    BY <1>1, <2>1
  <2>3. QED
    BY <1>1, <1>2, <1>8, <1>9, <2>1, <2>2
<1>12. ASSUME ~misplaced'
       PROVE  Contains(s, queue') /\ Placed(s)
  <2>1. /\ ~misplaced /\ ~(r # b /\ GrowMisplaces)
        /\ Contains(b, queue) /\ Placed(b) /\ queue \in Seq(Stored)
    BY <1>3, <1>9, <1>12 DEF BufferInv
  <2>2. ASSUME b.size + n > b.capacity
        PROVE  Growable(b)
    <3>1. ~GrowMisplaces
      BY <1>4, <1>7, <2>1, <2>2
    <3>2. /\ b.size \in Nat /\ b.head \in Nat /\ b.tail \in Nat /\ b.capacity \in Nat
          /\ b.size <= b.capacity /\ b.head <= b.capacity /\ b.tail < b.capacity
      BY <1>4, BufferParts
    <3>3. ~(b.size > 0 /\ b.head = b.tail /\ b.tail > 0) /\ ~(b.size = 0 /\ b.head # b.tail)
      BY <1>4, <3>1 DEF GrowMisplaces
    <3>4. ~Spent(b)
      BY <3>2, <3>3 DEF Spent
    <3>5. Around(b) => b.head < b.tail
      BY <3>2, <3>3 DEF Around
    <3>6. QED
      BY <2>1, <3>4, <3>5 DEF Placed, Growable
  <2>3. Contains(r, queue) /\ Placed(r)
    BY <1>0, <1>4, <1>5, <2>1, <2>2, ReserveKeeps
  <2>4. Contains(s, queue \o data) /\ Placed(s)
    BY <1>1, <1>6, <1>7, <2>1, <2>3, StoreKeeps
  <2>5. QED
    BY <1>2, <2>4
<1>13. misplaced' \in BOOLEAN
  BY <1>9
<1>14. QED
  BY <1>1, <1>2, <1>8, <1>10, <1>11, <1>12, <1>13 DEF BufferInv

LEMMA ReceiveKeeps ==
  ASSUME BufferInv, NEW n \in Sizes, Receive(n)
  PROVE  BufferInv'
<1> DEFINE r == ReadSize(n)
<1>0. n \in Nat /\ n # 0 /\ size # 0
  BY BufferBounds DEF Receive, stream_pop_data
<1>1. PICK b : b = Current
  OBVIOUS
<1>2. /\ b \in Buffers /\ b.size = size /\ b.head = head /\ b.tail = tail
      /\ b.capacity = capacity /\ b.buffer = buffer
  BY <1>1 DEF BufferInv, Current
<1>3. size \in Nat
  BY <1>2, BufferParts
<1>4. r \in Nat \ {0} /\ r <= b.size
  BY <1>0, <1>2, <1>3 DEF ReadSize
<1>5. /\ tail' = (tail + r) % capacity /\ size' = size - r
      /\ buffer' = buffer /\ head' = head /\ capacity' = capacity
      /\ queue' = SubSeq(queue, r + 1, Len(queue))
      /\ nextByte' = nextByte /\ misplaced' = misplaced
  BY DEF Receive, stream_pop_data
<1> HIDE DEF r
<1>6. PICK s : s = Advanced(b, r)
  OBVIOUS
<1>7. s \in Buffers /\ s.size = size - r
  BY <1>2, <1>4, <1>6, PopType
<1>8. Current' = s
  BY <1>2, <1>5, <1>6 DEF Advanced, Buffer, Current
<1>9. queue' \in Seq(Stored) /\ Len(queue') = size'
  <2>1. queue \in Seq(Stored) /\ Len(queue) = size
    BY DEF BufferInv
  <2>2. QED
    BY <1>2, <1>3, <1>4, <1>5, <2>1
<1>10. ASSUME ~misplaced
       PROVE  Contains(s, queue') /\ Placed(s)
  <2>1. Contains(b, queue) /\ Placed(b) /\ queue \in Seq(Stored)
    BY <1>1, <1>10 DEF BufferInv
  <2>2. Contains(s, SubSeq(queue, r + 1, Len(queue))) /\ Placed(s)
    BY <1>2, <1>4, <1>6, <2>1, PopKeeps
  <2>3. QED
    BY <1>5, <2>2
<1>11. QED
  BY <1>5, <1>7, <1>8, <1>9, <1>10 DEF BufferInv

(* The inductive invariant of the receive buffer: its indices are inside   *)
(* the array whatever grow_buffer did, and until a doubling hit one of the *)
(* two cases it does not distinguish, byte k of a FIFO is at place k.      *)
THEOREM BufferInvariant == BufferSpec => []BufferInv
<1>1. BufferInv /\ [BufferNext]_streamBufferVars => BufferInv'
  <2> SUFFICES ASSUME BufferInv, [BufferNext]_streamBufferVars
               PROVE  BufferInv'
    OBVIOUS
  <2>1. ASSUME NEW n \in Sizes, Arrive(n)
        PROVE  BufferInv'
    BY <2>1, ArriveKeeps
  <2>2. ASSUME NEW n \in Sizes, Receive(n)
        PROVE  BufferInv'
    BY <2>2, ReceiveKeeps
  <2>3. CASE UNCHANGED streamBufferVars
    BY <2>3 DEF streamBufferVars, bufferVars, BufferInv, Current
  <2>4. QED
    BY <2>1, <2>2, <2>3 DEF BufferNext
<1>2. QED
  BY BufferInvInit, <1>1, PTL DEF BufferSpec

(* FifoUnlessMisplaced: as long as no doubling of grow_buffer hit one of   *)
(* the two cases it does not distinguish, what stream_pop_data would copy  *)
(* out is what arrived and was not read, in order, for every capacity and  *)
(* all sizes of messages and reads.                                        *)
THEOREM ReceiveBufferIsFifo == BufferSpec => []FifoUnlessMisplaced
<1>1. BufferInv => FifoUnlessMisplaced
  <2> SUFFICES ASSUME BufferInv, ~misplaced
               PROVE  Popped(size) = queue
    BY DEF FifoUnlessMisplaced
  <2>1. /\ Current.size = size /\ Current.tail = tail
        /\ Current.capacity = capacity /\ Current.buffer = buffer
    BY DEF Current
  <2>2. Len(queue) = size /\ queue \in Seq(Stored)
    BY DEF BufferInv
  <2>3. \A k \in 1 .. size : buffer[At(tail, k, capacity)] = queue[k]
    BY <2>1 DEF BufferInv, Contains
  <2>4. Popped(size) = [k \in 1 .. size |-> buffer[At(tail, k, capacity)]]
    BY Zenon DEF Popped, At
  <2>5. queue = [k \in 1 .. size |-> queue[k]]
    BY <2>2
  <2>6. QED
    BY <2>3, <2>4, <2>5
<1>2. QED
  BY <1>1, BufferInvariant, PTL

=============================================================================
