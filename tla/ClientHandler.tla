--------------------------- MODULE ClientHandler ---------------------------
(***************************************************************************)
(* A client's session with the directory server                            *)
(* (src/server/handlers/client_handler.c) over the table of RelayManager,  *)
(* while relays sign up and out.  The session remembers where its next map *)
(* starts; the other sessions of clients neither see nor change that.      *)
(***************************************************************************)
EXTENDS RelayManager

CONSTANT SERVER_RELAYS_MAP_AMOUNT   \* 14 in the code

ASSUME ClientHandlerAssumption == SERVER_RELAYS_MAP_AMOUNT \in Nat \ {0}

VARIABLE relay_start   \* client_data_t

clientHandlerVars == <<managerVars, relay_start>>

ClientHandlerInit == ManagerInit /\ relay_start = 0

(* process_client, for the next client. *)
ClientArrives == relay_start' = 0 /\ UNCHANGED managerVars

(* What handle_get_relay_map sends: relays by their slots in the table.    *)
Batch == GetRelayBatch(relay_start, SERVER_RELAYS_MAP_AMOUNT)
RelayMap == Batch.out

(* get_relay_batch has moved the start behind the last item it looked at;  *)
(* the handler adds the number of relays to that again.  So the next map   *)
(* of the session leaves items out, and may repeat the map before it.      *)
NextStartOnly == relay_start + Len(RelayMap)   \* slip: *start is not written back
NextStart == Batch.i + Len(RelayMap)

HandleGetRelayMap ==
    /\ initialized
    /\ relay_start' = NextStart
    /\ UNCHANGED managerVars

ClientHandlerNext ==
    \/ ManagerNext /\ UNCHANGED relay_start
    \/ ClientArrives \/ HandleGetRelayMap

ClientHandlerSpec == ClientHandlerInit /\ [][ClientHandlerNext]_clientHandlerVars
-----------------------------------------------------------------------------
(* Wherever the requests before it have left the start, and whatever the   *)
(* table has gone through since then, a map has distinct registered        *)
(* relays, and as many as fit unless there are no more of them.  The start *)
(* does not grow with the number of requests, so that its sum cannot wrap. *)
(* Two maps of a session promise nothing together: each is complete for    *)
(* itself, which is all gather_relay_map asks for.                         *)
MapComplete ==
    initialized =>
    /\ relay_start < items_length + SERVER_RELAYS_MAP_AMOUNT
    /\ LET ids == {RelayMap[k] : k \in DOMAIN RelayMap}
       IN  /\ ids \subseteq LiveIds
           /\ Cardinality(ids) = Len(RelayMap)
           /\ Len(RelayMap) <= SERVER_RELAYS_MAP_AMOUNT
           /\ Len(RelayMap) < SERVER_RELAYS_MAP_AMOUNT => ids = LiveIds
=============================================================================
