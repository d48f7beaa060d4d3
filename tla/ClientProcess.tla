--------------------------- MODULE ClientProcess ---------------------------
(***************************************************************************)
(* One run of the client program up to the end of its circuit: arguments,  *)
(* the query of the directory server (src/client/router/server_query.c)    *)
(* over a byte stream, and run_client with the keys it allocates and frees *)
(* (src/client/core/client.c).                                             *)
(*                                                                         *)
(* A server message has SERVER_MSG_SIZE bytes, here Parts parts.  Both     *)
(* sides read it with one read, which returns what has arrived: a message  *)
(* may be cut, and what is left of it is then read as the next one.  A     *)
(* part that was not read keeps what the buffer held (Old).                *)
(*                                                                         *)
(*   handshake response  1, 2: g and p   3: server_pubkey   4: padding     *)
(*   client key          1, 2: client_pubkey                3, 4: padding  *)
(*   confirmation        1: magic                       2 .. 4: the rest   *)
(*   relay map           1: relay_amount and the guard  2: relays in use   *)
(*                       3: further relays                  4: padding     *)
(*   requests            1: the request                 2 .. 4: padding    *)
(*                                                                         *)
(* Parts encrypted under one key and read under another, or shifted, are   *)
(* noise: as a command or a magic value it is taken to be wrong, as a      *)
(* number it may be anything.                                              *)
(***************************************************************************)
EXTENDS Integers, Sequences

CONSTANTS MAX_RELAYS,          \* 5 in the code
          DEAULT_RELAY_AMOUNT, \* 3 in the code, spelled as there
          Arguments,           \* bound: numbers the user gives with -r
          MaxListed            \* bound: relays the server has

ASSUME ClientAssumption ==
    /\ Arguments \subseteq Int
    /\ MaxListed \in Nat
    /\ MAX_RELAYS \in Nat /\ MAX_RELAYS < 256
    /\ DEAULT_RELAY_AMOUNT \in 1 .. MAX_RELAYS

VARIABLES client,      \* where run_client waits, or how it ended
          relays,      \* config.relays, a uint8_t
          list,        \* relay_list: the place in the server's map, 0 for noise
          cur_relays,
          key,         \* the state of each key_data_t
          misfreed,    \* history: keys freed while not allocated
          clientKey,   \* the symmetric key the client derived for the server
          cut,         \* history: confirmation or map was read in part
          server,      \* where the server's session waits
          serverKey,   \* the symmetric key the server derived
          listed,      \* relays in the server's map
          toServer, toClient

queryVars == <<server, serverKey, listed, toServer, toClient>>
keyVars == <<key, misfreed>>
clientProcessVars == <<client, relays, list, cur_relays, keyVars, clientKey, cut, queryVars>>

Parts == 1 .. 4
Part(msg, i, under) == [msg |-> msg, part |-> i, key |-> under]
Old == Part("old", 0, "none")
Message(msg, under) == [i \in Parts |-> Part(msg, i, under)]

(* What the buffer holds after a read that returned n parts of a stream. *)
Buffer(stream, n) == [i \in Parts |-> IF i <= n THEN stream[i] ELSE Old]
ReadSizes(stream) == {n \in Parts : n <= Len(stream)}
Rest(stream, n) == SubSeq(stream, n + 1, Len(stream))

ServerKey == <<"server", 0>>
TlsKey == <<"tls", 0>>
OnionKeys(n) == {<<"onion", i>> : i \in 1 .. n}
Keys == {ServerKey, TlsKey} \cup OnionKeys(MAX_RELAYS)

ClientProcessInit ==
    /\ client = "arguments"
    /\ relays = 0
    /\ list = <<>>
    /\ cur_relays = 0
    /\ key = [k \in Keys |-> "raw"]
    /\ misfreed = {}
    /\ clientKey = "none"
    /\ cut = FALSE
    /\ server = "listening"
    /\ serverKey = "none"
    /\ listed \in 0 .. MaxListed
    /\ toServer = <<>>
    /\ toClient = <<>>

-----------------------------------------------------------------------------
(* init_key, then for some of them derive_symmetric_key_from_public. *)
InitKeys(ks) == key' = [k \in Keys |-> IF k \in ks THEN "allocated" ELSE key[k]]

(* free_key on each of ks; freeing what is not allocated is undefined and  *)
(* may end the process.                                                    *)
FreeKeys(ks) ==
    /\ misfreed' = misfreed \cup {k \in ks : key[k] # "allocated"}
    /\ key' = [k \in Keys |-> IF k \in ks THEN "freed" ELSE key[k]]

FreeSessionKeys == {TlsKey} \cup OnionKeys(relays)

(* free_session, by a caller that goes on to end with result. *)
EndsFreeing(result) ==
    /\ FreeKeys(FreeSessionKeys)
    /\ client' = result

(* free_session by process_client_session and again by run_client. *)
EndsFreeingTwice ==
    /\ misfreed' = misfreed \cup FreeSessionKeys
    /\ key' = [k \in Keys |-> IF k \in FreeSessionKeys THEN "freed" ELSE key[k]]
    /\ client' \in {"failed", "crashed"}

-----------------------------------------------------------------------------
(* parse_args of the client: a number that is not usable is only warned    *)
(* about, and the default is used.                                         *)
ParseArgs ==
    /\ client = "arguments"
    /\ \/ relays' = DEAULT_RELAY_AMOUNT
       \/ \E n \in Arguments :
            LET given == n % 256
            IN  relays' = IF given <= 0 \/ given > MAX_RELAYS THEN DEAULT_RELAY_AMOUNT ELSE given
    /\ client' = "connect"
    /\ UNCHANGED <<list, cur_relays, keyVars, clientKey, cut, queryVars>>

(* gather_relay_map up to the handshake's first read. *)
ConnectDirectory ==
    /\ client = "connect"
    /\ \/ /\ client' = "failed"
          /\ UNCHANGED <<server, toServer>>
       \/ /\ client' = "hello"
          /\ server' = "hello"
          /\ toServer' = Message("handshake request", "none")
    /\ UNCHANGED <<relays, list, cur_relays, keyVars, clientKey, cut, serverKey, listed, toClient>>

(* The client sends and waits at pc for the answer.  When the server has   *)
(* closed, the data is lost; Breaks has the other outcomes.                *)
Asks(msg, under, pc) ==
    /\ client' = pc
    /\ toServer' = IF server = "closed" THEN toServer ELSE toServer \o Message(msg, under)

(* gather_relay_map closes the connection and frees the server's key. *)
GatherFails ==
    /\ FreeKeys({ServerKey})
    /\ client' \in IF key[ServerKey] = "allocated" THEN {"failed"} ELSE {"failed", "crashed"}

(* recv_server_handshake_res.  With a cut p generate_prime_low_p finds no  *)
(* prime below p and does not end, unless p lacks so little that it does   *)
(* and the client goes on with a key of its own.                           *)
HandshakeResponse ==
    /\ client = "hello"
    /\ \E n \in ReadSizes(toClient) :
          LET got == Buffer(toClient, n)
              derived == IF got[3] = Part("handshake response", 3, "none")
                         THEN "shared" ELSE "client's own"
          IN  /\ toClient' = Rest(toClient, n)
              /\ \/ /\ got[2] # Part("handshake response", 2, "none")
                    /\ client' = "hung"
                    /\ UNCHANGED <<keyVars, clientKey, toServer>>
                 \/ /\ clientKey' = derived
                    /\ InitKeys({ServerKey})
                    /\ Asks("client key", "none", "confirm")
                    /\ UNCHANGED misfreed
    /\ UNCHANGED <<relays, list, cur_relays, cut, server, serverKey, listed>>

(* The magic value of the confirmation, after decryption. *)
MagicUnseen(buffer) == TRUE   \* slip: not compared
Magic(buffer) == buffer[1] = Part("confirmation", 1, clientKey)

HandshakeConfirmation ==
    /\ client = "confirm"
    /\ \E n \in ReadSizes(toClient) :
          /\ toClient' = Rest(toClient, n)
          /\ cut' = (n # 4)
          /\ IF Magic(Buffer(toClient, n))
             THEN Asks("map request", clientKey, "map") /\ UNCHANGED keyVars
             ELSE GatherFails /\ UNCHANGED toServer
    /\ UNCHANGED <<relays, list, cur_relays, clientKey, server, serverKey, listed>>

(* fetch_relay_map: the amount is compared, the descriptors are copied. *)
FetchRelayMap ==
    /\ client = "map"
    /\ \E n \in ReadSizes(toClient) :
          LET got == Buffer(toClient, n)
              Right(i) == got[i] = Part("relay map", i, clientKey)
          IN  /\ toClient' = Rest(toClient, n)
              /\ cut' = (cut \/ n # 4)
              /\ \E amount \in IF Right(1) THEN {listed} ELSE {0, MAX_RELAYS} :
                    IF amount < relays
                    THEN GatherFails /\ UNCHANGED <<list, toServer>>
                    ELSE /\ list' = [i \in 1 .. relays |->
                                        IF Right(IF i = 1 THEN 1 ELSE 2) THEN i ELSE 0]
                         /\ Asks("exit request", clientKey, "exit")
                         /\ UNCHANGED keyVars
    /\ UNCHANGED <<relays, cur_relays, clientKey, server, serverKey, listed>>

(* handle_exit looks at nothing in the answer. *)
HandleExit ==
    /\ client = "exit"
    /\ \E n \in ReadSizes(toClient) : toClient' = Rest(toClient, n)
    /\ FreeKeys({ServerKey})
    /\ client' = "guard"
    /\ UNCHANGED <<relays, list, cur_relays, clientKey, cut, server, serverKey, listed, toServer>>

(* The connection broke: a read returns 0 once the stream is empty, a send *)
(* fails, or it raises SIGPIPE.                                            *)
Breaks ==
    /\ client \in {"hello", "confirm", "map", "exit"}
    /\ server = "closed"
    /\ \/ GatherFails
       \/ client # "hello" /\ client' = "killed" /\ UNCHANGED keyVars
    /\ UNCHANGED <<relays, list, cur_relays, clientKey, cut, queryVars>>

-----------------------------------------------------------------------------
(* The connection to the guard and init_session.  A noise address does not *)
(* answer; without a connection handle_tls_sender fails on descriptor -1.  *)
InitSession ==
    /\ client = "guard"
    /\ InitKeys(FreeSessionKeys)
    /\ client' \in IF list[1] = 0 THEN {"no guard"} ELSE {"tls", "no guard"}
    /\ UNCHANGED <<relays, list, cur_relays, misfreed, clientKey, cut, queryVars>>

TlsFailure ==
    /\ client \in {"no guard", "tls"}
    /\ EndsFreeing("failed")
    /\ UNCHANGED <<relays, list, cur_relays, clientKey, cut, queryVars>>

(* handle_tls_sender, and handle_create_message up to its read. *)
TlsSuccess ==
    /\ client = "tls"
    /\ client' = "create"
    /\ UNCHANGED <<relays, list, cur_relays, keyVars, clientKey, cut, queryVars>>

(* CREATED or EXTENDED; a relay that is noise cannot be extended to. *)
HopAdded ==
    /\ client \in {"create", "extend"}
    /\ list[cur_relays + 1] # 0
    /\ cur_relays' = cur_relays + 1
    /\ client' = IF cur_relays' < relays THEN "extend" ELSE "running"
    /\ UNCHANGED <<relays, list, keyVars, clientKey, cut, queryVars>>

CircuitFails ==
    /\ client \in {"create", "extend"}
    /\ EndsFreeingTwice
    /\ UNCHANGED <<relays, list, cur_relays, clientKey, cut, queryVars>>

(* process_events returns, with an error or without. *)
SessionEndsTwice ==   \* slip: process_client_session frees the session here too
    /\ client = "running"
    /\ EndsFreeingTwice
    /\ UNCHANGED <<relays, list, cur_relays, clientKey, cut, queryVars>>
SessionEnds ==
    /\ client = "running"
    /\ \E result \in {"done", "failed"} : EndsFreeing(result)
    /\ UNCHANGED <<relays, list, cur_relays, clientKey, cut, queryVars>>

-----------------------------------------------------------------------------
(* The server's side: client_callback of server.c and client_handler.c. *)
ServerReads(pc, n) ==
    /\ server = pc
    /\ n \in ReadSizes(toServer)
    /\ toServer' = Rest(toServer, n)

ServerAnswers(msg, under, pc) ==
    /\ toClient' = toClient \o Message(msg, under)
    /\ server' = pc

ServerHandshake ==
    /\ \E n \in Parts : ServerReads("hello", n)
    /\ ServerAnswers("handshake response", "none", "key")
    /\ UNCHANGED <<client, relays, list, cur_relays, keyVars, clientKey, cut, serverKey, listed>>

ServerConfirms ==
    /\ \E n \in Parts :
          /\ ServerReads("key", n)
          /\ serverKey' = IF \A i \in 1 .. 2 : Buffer(toServer, n)[i] = Part("client key", i, "none")
                          THEN "shared" ELSE "server's own"
    /\ ServerAnswers("confirmation", serverKey', "serve")
    /\ UNCHANGED <<client, relays, list, cur_relays, keyVars, clientKey, cut, listed>>

ServerHandles ==
    /\ \E n \in Parts :
          /\ ServerReads("serve", n)
          /\ LET request == Buffer(toServer, n)[1]
             IN  \/ /\ request = Part("map request", 1, serverKey)
                    /\ ServerAnswers("relay map", serverKey, "serve")
                 \/ /\ request = Part("exit request", 1, serverKey)
                    /\ ServerAnswers("exit response", serverKey, "closed")
                 \/ /\ request \notin {Part("map request", 1, serverKey),
                                       Part("exit request", 1, serverKey)}
                    /\ server' = "closed"
                    /\ UNCHANGED toClient
    /\ UNCHANGED <<client, relays, list, cur_relays, keyVars, clientKey, cut, serverKey, listed>>

(* The session breaks; what the client has not read may be lost. *)
ServerBreaks ==
    /\ server \in {"hello", "key", "serve"}
    /\ server' = "closed"
    /\ toClient' \in {toClient, <<>>}
    /\ UNCHANGED <<client, relays, list, cur_relays, keyVars, clientKey, cut, serverKey, listed, toServer>>

ClientStep ==
    \/ ParseArgs \/ ConnectDirectory \/ HandshakeResponse \/ HandshakeConfirmation
    \/ FetchRelayMap \/ HandleExit \/ Breaks
    \/ InitSession \/ TlsFailure \/ TlsSuccess \/ HopAdded \/ CircuitFails \/ SessionEnds

ServerStep == ServerHandshake \/ ServerConfirms \/ ServerHandles \/ ServerBreaks

ClientProcessNext == ClientStep \/ ServerStep

ClientProcessSpec == ClientProcessInit /\ [][ClientProcessNext]_clientProcessVars
-----------------------------------------------------------------------------
Finished == {"done", "failed", "crashed", "killed", "hung"}
QueryPlaces == {"arguments", "connect", "hello", "confirm", "map", "exit"}
CircuitPlaces == {"guard", "no guard", "tls", "create", "extend", "running"}

ClientProcessTypeOK ==
    /\ client \in Finished \cup QueryPlaces \cup CircuitPlaces
    /\ client \notin {"arguments"} => relays \in 1 .. MAX_RELAYS
    /\ list \in Seq(0 .. MAX_RELAYS) /\ Len(list) \in {0, relays}
    /\ cur_relays \in 0 .. relays
    /\ key \in [Keys -> {"raw", "allocated", "freed"}]
    /\ misfreed \subseteq Keys
    /\ server \in {"listening", "hello", "key", "serve", "closed"}
    /\ Len(toServer) <= 16 /\ Len(toClient) <= 16

(* However the messages are cut, on either side: a client that accepted    *)
(* the confirmation shares its key with the server.  And unless the        *)
(* confirmation or the map was cut, which nothing in the code notices, the *)
(* circuit is built from the first relays of the server's map.             *)
QueryIsServers ==
    /\ client \in {"map", "exit"} \cup CircuitPlaces => {clientKey, serverKey} = {"shared"}
    /\ client \in CircuitPlaces /\ ~cut => list = [i \in 1 .. relays |-> i] /\ relays <= listed

(* Every key is freed once, and none is left when the client has ended:    *)
(* apart from a handshake that fails before its key exists, and a circuit  *)
(* that cannot be built, whose session is freed by process_client_session  *)
(* and by run_client.                                                      *)
KeysFreedOnce ==
    /\ misfreed # {} => \/ misfreed = {ServerKey} /\ clientKey = "none"
                        \/ misfreed = FreeSessionKeys /\ 0 < Len(list) /\ cur_relays < relays
    /\ client \in {"done", "failed"} => \A k \in Keys : key[k] # "allocated"
=============================================================================
