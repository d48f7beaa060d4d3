----------------------------- MODULE StreamMap -----------------------------
(***************************************************************************)
(* The stream tables in use.  The client's table only ever receives        *)
(* identifiers made by gen_stream_id; the exit relay's table receives the  *)
(* identifiers of RELAY_BEGIN messages in whatever order the circuit and   *)
(* the servers' disconnections produce.  Both lose identifiers through     *)
(* close and END, also ones that are not there.                            *)
(*                                                                         *)
(* Identifiers are uint16_t in the tables and in messages, while           *)
(* gen_stream_id counts in 32 bits: IdSpace stands for 2^16, the counter   *)
(* is only bounded.                                                        *)
(***************************************************************************)
EXTENDS HashMap

CONSTANTS IdSpace,    \* 2^16 in the code
          MaxCounter  \* bound on gen_stream_id's counter

ASSUME IdSpaceAssumption ==
    /\ IdSpace \in Nat \ {0}
    /\ IdSpace % HASHMAP_AMOUNT = 0
    /\ MaxCounter \in Nat

VARIABLES clientMap, relayMap,
          stream_id,   \* gen_stream_id's static counter
          hung,        \* gen_stream_id loops forever
          opened,      \* history: identifiers the client has open
          connected    \* history: identifiers the relay has open, with a
                       \* token of the connection they stand for

mapVars == <<clientMap, relayMap, stream_id, hung, opened, connected>>

StreamIds == 0 .. IdSpace - 1
Tokens == {"a", "b"}   \* successive connections under one identifier

MapInit ==
    /\ clientMap = EmptyMap
    /\ relayMap = EmptyMap
    /\ stream_id = 0
    /\ hung = FALSE
    /\ opened = {}
    /\ connected = [id \in {} |-> "a"]

-----------------------------------------------------------------------------
(* The uint16_t an identifier becomes in the table and in messages. *)
TruncatedNot(n) == n   \* slip: the 32 bits are kept
Truncated(n) == n % IdSpace

(* The user's connect: a fresh identifier goes into the client's table. *)
Connect ==
    /\ ~hung
    /\ ~Full(clientMap)
    /\ gen_stream_id(clientMap, stream_id) <= MaxCounter
    /\ stream_id' = gen_stream_id(clientMap, stream_id)
    /\ LET id == Truncated(stream_id')
       IN  /\ clientMap' = IF Insertable(clientMap, id)
                           THEN Insert(clientMap, id, NoValue) ELSE clientMap
           /\ opened' = opened \cup {id}
    /\ UNCHANGED <<relayMap, hung, connected>>

(* Every home slot is filled: gen_stream_id never leaves its loop. *)
ConnectHangs ==
    /\ ~hung
    /\ Full(clientMap)
    /\ hung' = TRUE
    /\ UNCHANGED <<clientMap, relayMap, stream_id, opened, connected>>

(* The user closes a stream by any number, or an END arrives for it. *)
ClientRemove(id) ==
    /\ ~hung
    /\ clientMap' = Remove(clientMap, id)
    /\ opened' = opened \ {id}
    /\ UNCHANGED <<relayMap, stream_id, hung, connected>>

(* The relay handles BEGIN for an identifier it does not have open. *)
RelayInsert(id, token) ==
    /\ id \notin DOMAIN connected
    /\ Insertable(relayMap, id)
    /\ relayMap' = Insert(relayMap, id, token)
    /\ connected' = [i \in DOMAIN connected \cup {id} |->
                        IF i = id THEN token ELSE connected[i]]
    /\ UNCHANGED <<clientMap, stream_id, hung, opened>>

(* The relay handles END, or the server closed the connection. *)
RelayRemove(id) ==
    /\ relayMap' = Remove(relayMap, id)
    /\ connected' = [i \in DOMAIN connected \ {id} |-> connected[i]]
    /\ UNCHANGED <<clientMap, stream_id, hung, opened>>

ClientNext == Connect \/ ConnectHangs \/ \E id \in StreamIds : ClientRemove(id)

RelayNext == \E id \in StreamIds : \/ \E token \in Tokens : RelayInsert(id, token)
                                   \/ RelayRemove(id)

MapNext == ClientNext \/ RelayNext

MapSpec == MapInit /\ [][MapNext]_mapVars
-----------------------------------------------------------------------------
Maps == [Slots -> [entry_type : {EMPTY, FILLED, DELETED}, stream_id : StreamIds,
                   value : Tokens \cup {NoValue}]]

MapTypeOK ==
    /\ clientMap \in Maps
    /\ relayMap \in Maps
    /\ stream_id \in 0 .. MaxCounter
    /\ hung \in BOOLEAN
    /\ opened \subseteq StreamIds
    /\ connected \in UNION {[S -> Tokens] : S \in SUBSET StreamIds}

(* An open stream of the client sits in its home slot.  This is what makes *)
(* testing only that slot in gen_stream_id enough for a fresh identifier.  *)
AtHome == \A i \in Slots : clientMap[i].entry_type = FILLED =>
                               clientMap[i].stream_id % HASHMAP_AMOUNT = i

(* The client's table finds exactly the streams the user has open, each in *)
(* its home slot: an identifier made by gen_stream_id never collides with  *)
(* an open one, not even after the 32-bit counter has passed the 16 bits   *)
(* it is cut to.                                                           *)
ClientFindsOpened ==
    /\ \A id \in StreamIds : Found(clientMap, id) <=> id \in opened
    /\ AtHome

(* The relay's table finds a stream exactly when its connection is open,   *)
(* and finds that connection and not an earlier one under the same         *)
(* identifier, whatever collisions and tombstones lie on the way; only a   *)
(* full table refuses a BEGIN for a stream that is not open.               *)
RelayFindsConnected ==
    \A id \in StreamIds :
        /\ Found(relayMap, id) <=> id \in DOMAIN connected
        /\ IF id \in DOMAIN connected THEN FoundValue(relayMap, id) = connected[id]
           ELSE Insertable(relayMap, id) \/ Full(relayMap)
=============================================================================
