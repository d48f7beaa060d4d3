------------------------------ MODULE Streams ------------------------------
(***************************************************************************)
(* The streams of one circuit that is already built: the client            *)
(* (client_session.c) and the exit relay (relay_end.c), each with its      *)
(* stream table, joined by the circuit, which delivers their messages in   *)
(* order (module Circuit), and the servers the exit relay connects to.     *)
(*                                                                         *)
(* Connection k is the one the user's k-th connect asks for: the same      *)
(* stream identifier may stand for several connections, one after the      *)
(* other.  k is also the relay's socket for it.  Byte n of connection k    *)
(* is <<k, n>>, in either direction.  Client and relay are one thread      *)
(* each, so a handler is one step.                                         *)
(***************************************************************************)
EXTENDS HashMap, Sequences, Functions

CONSTANTS RELAY_DATA_MSG_SIZE,  \* 498 in the code
          MaxConns,   \* bound on the user's connects
          MaxSent,    \* bound on the bytes the user sends on a connection
          MaxProduced, \* bound on the bytes all servers send
          Lengths,    \* bound: the lengths the user types
          MaxQueue,   \* the user types nothing while the circuit holds this many
          MaxHasty    \* bound on the connects while something is going on

ASSUME StreamsAssumption ==
    /\ RELAY_DATA_MSG_SIZE \in Nat \ {0}
    /\ MaxConns \in Nat /\ MaxSent \in Nat /\ MaxProduced \in Nat
    /\ MaxQueue \in Nat /\ Lengths \subseteq Nat \ {0}
    /\ MaxHasty \in Nat

VARIABLES client,     \* "running", "ended" (its event loop returned), "hung"
          clientMap,  \* session->hashmap: connection and receive buffer
          stream_id,  \* gen_stream_id's counter
          conns,      \* connects so far
          toRelay, toClient,   \* messages inside the circuit
          relay,      \* "serving" or "ended"
          relayMap,   \* the relay's table of sockets
          epoll,      \* registered sockets, with the identifier they carry
          server,     \* state of each connection's server end
          inbox,      \* bytes at the relay's socket, to be read
          produced,   \* bytes each server sent
          sent,       \* bytes the user sent on each connection
          served,     \* bytes each server got
          got,        \* history: bytes recv returned to the user
          hasty       \* history: connects while something was going on

clientVars == <<client, clientMap, stream_id, conns, sent, got, hasty>>
relayVars == <<relay, relayMap, epoll>>
serverVars == <<server, inbox, produced, served>>
vars == <<clientVars, toRelay, toClient, relayVars, serverVars>>

Conns == 1 .. MaxConns
Issued == 0 .. stream_id   \* the identifiers connect has printed

Bytes(k, first, last) == [i \in 1 .. last - first + 1 |-> <<k, first + i - 1>>]

(* What is in the message buffer where END has its reason. *)
Stale == <<0, 0>>

IsPrefixOf(s, t) == Len(s) <= Len(t) /\ SubSeq(t, 1, Len(s)) = s

(* "conn" is not in the messages: it says which connection is meant. *)
Msg(cmd, id, k) == [cmd |-> cmd, stream_id |-> id, conn |-> k, length |-> 0, data |-> <<>>]

Init ==
    /\ client = "running"
    /\ clientMap = EmptyMap
    /\ stream_id = 0
    /\ conns = 0
    /\ toRelay = <<>>
    /\ toClient = <<>>
    /\ relay = "serving"
    /\ relayMap = EmptyMap
    /\ epoll = {}
    /\ server = [k \in Conns |-> "none"]
    /\ inbox = [k \in Conns |-> <<>>]
    /\ produced = [k \in Conns |-> 0]
    /\ sent = [k \in Conns |-> 0]
    /\ served = [k \in Conns |-> <<>>]
    /\ got = [k \in Conns |-> <<>>]
    /\ hasty = 0

-----------------------------------------------------------------------------
(* The sockets epoll_wait reports at the relay. *)
Ready(k) == inbox[k] # <<>> \/ server[k] \in {"fin", "reset"}
Quiet ==
    /\ toRelay = <<>> /\ toClient = <<>>
    /\ \A entry \in epoll : ~Ready(entry.sock)

UserTypes ==
    /\ client = "running"
    /\ Len(toRelay) + Len(toClient) < MaxQueue

(* handle_input_connect. *)
Connect ==
    /\ UserTypes
    /\ conns < MaxConns
    /\ ~Full(clientMap)
    /\ hasty' = IF Quiet THEN hasty ELSE hasty + 1
    /\ hasty' <= MaxHasty
    /\ conns' = conns + 1
    /\ stream_id' = gen_stream_id(clientMap, stream_id)
    /\ clientMap' = IF Insertable(clientMap, stream_id')
                    THEN Insert(clientMap, stream_id', [conn |-> conns', recv |-> <<>>])
                    ELSE clientMap
    /\ toRelay' = Append(toRelay, Msg("BEGIN", stream_id', conns'))
    /\ UNCHANGED <<client, sent, got, toClient, relayVars, serverVars>>

(* gen_stream_id never leaves its loop. *)
ConnectHangs ==
    /\ UserTypes
    /\ Full(clientMap)
    /\ client' = "hung"
    /\ UNCHANGED <<clientMap, stream_id, conns, sent, got, hasty, toRelay, toClient,
                   relayVars, serverVars>>

(* handle_input_close: the identifier need not be in the table. *)
Close(id) ==
    /\ UserTypes
    /\ conns > 0
    /\ toRelay' = Append(toRelay, Msg("END", id, 0))
    /\ clientMap' = Remove(clientMap, id)
    /\ UNCHANGED <<client, stream_id, conns, sent, got, hasty, toClient, relayVars, serverVars>>

(* What is left of a buffer when n bytes were taken, and the pieces of     *)
(* handle_input_send: at most RELAY_DATA_MSG_SIZE bytes in one message.    *)
RestTwice(s, n) == SubSeq(s, n, Len(s))   \* slip: the last byte stays
Rest(s, n) == SubSeq(s, n + 1, Len(s))

PieceWhole(n) == n   \* slip: no MIN
Piece(n) == IF n < RELAY_DATA_MSG_SIZE THEN n ELSE RELAY_DATA_MSG_SIZE

PieceStartLate(n) == n * RELAY_DATA_MSG_SIZE   \* slip
PieceStart(n) == (n - 1) * RELAY_DATA_MSG_SIZE

(* handle_input_send of length, whose fgets returns one character less:    *)
(* as many DATA messages as the characters need.                           *)
Send(id, length) ==
    /\ UserTypes
    /\ Found(clientMap, id)
    /\ LET k == FoundValue(clientMap, id).conn
           input_length == length - 1
           pieces == (input_length + RELAY_DATA_MSG_SIZE - 1) \div RELAY_DATA_MSG_SIZE
           Message(n) ==
              LET index == sent[k] + PieceStart(n)
                  length_n == Piece(input_length - PieceStart(n))
              IN  [Msg("DATA", id, k) EXCEPT
                     !.data = Bytes(k, index + 1, index + length_n),
                     !.length = length_n]
       IN  /\ sent[k] + input_length <= MaxSent
           /\ sent' = [sent EXCEPT ![k] = @ + input_length]
           /\ toRelay' = toRelay \o [n \in 1 .. pieces |-> Message(n)]
    /\ UNCHANGED <<client, clientMap, stream_id, conns, got, hasty, toClient, relayVars, serverVars>>

(* handle_input_recv: up to length bytes of the stream's buffer (the       *)
(* buffer is a FIFO here; StreamBuffer is what it is made of).             *)
Recv(id, length) ==
    /\ UserTypes
    /\ Found(clientMap, id)
    /\ LET entry == FoundValue(clientMap, id)
           amount == IF Len(entry.recv) < length THEN Len(entry.recv) ELSE length
       IN  /\ amount > 0
           /\ got' = [got EXCEPT ![entry.conn] = @ \o SubSeq(entry.recv, 1, amount)]
           /\ clientMap' = SetValue(clientMap, id,
                 [entry EXCEPT !.recv = Rest(@, amount)])
    /\ UNCHANGED <<client, stream_id, conns, sent, hasty, toRelay, toClient, relayVars, serverVars>>

(* handle_relay_relay_msg; DATA for a stream that is not in the table ends *)
(* the event loop.                                                         *)
ClientReceives ==
    /\ client = "running"
    /\ toClient # <<>>
    /\ toClient' = Tail(toClient)
    /\ LET m == Head(toClient)
           known == Found(clientMap, m.stream_id)
           entry == FoundValue(clientMap, m.stream_id)
       IN  \/ /\ m.cmd = "CONNECTED"
              /\ UNCHANGED <<client, clientMap>>
           \/ /\ m.cmd = "END"
              /\ clientMap' = Remove(clientMap, m.stream_id)
              /\ UNCHANGED client
           \/ /\ m.cmd = "DATA" /\ known
              /\ clientMap' = SetValue(clientMap, m.stream_id,
                    [entry EXCEPT !.recv = @ \o SubSeq(m.data, 1, m.length)])
              /\ UNCHANGED client
           \/ /\ m.cmd = "DATA" /\ ~known
              /\ client' = "ended"
              /\ UNCHANGED clientMap
    /\ UNCHANGED <<stream_id, conns, sent, got, hasty, toRelay, relayVars, serverVars>>

-----------------------------------------------------------------------------
(* The message at the head of the circuit, and the reply to it. *)
RelayReads(cmd) ==
    /\ relay = "serving"
    /\ toRelay # <<>>
    /\ Head(toRelay).cmd = cmd
    /\ toRelay' = Tail(toRelay)

RepliesNoEnd(m) ==   \* slip: the client is not told
    toClient' = IF m.cmd = "END" THEN toClient ELSE Append(toClient, m)
Replies(m) == toClient' = Append(toClient, m)

(* handle_relay_begin: the connection fails, or it is made but the table   *)
(* does not take it, or it is registered.  A socket the table does not     *)
(* take stays open.                                                        *)
RelayBegin ==
    /\ RelayReads("BEGIN")
    /\ LET id == Head(toRelay).stream_id
           k == Head(toRelay).conn
       IN  \/ /\ Replies(Msg("END", id, k))
              /\ UNCHANGED <<relayMap, epoll, server>>
           \/ /\ ~Insertable(relayMap, id)
              /\ server' = [server EXCEPT ![k] = "open"]
              /\ Replies(Msg("END", id, k))
              /\ UNCHANGED <<relayMap, epoll>>
           \/ /\ Insertable(relayMap, id)
              /\ server' = [server EXCEPT ![k] = "open"]
              /\ relayMap' = Insert(relayMap, id, k)
              /\ epoll' = epoll \cup {[sock |-> k, stream_id |-> id]}
              /\ Replies(Msg("CONNECTED", id, k))
    /\ UNCHANGED <<clientVars, relay, inbox, produced, served>>

(* handle_relay_data: to a server that has closed, send may still succeed; *)
(* when it fails END is sent but the entry and the socket stay; or the     *)
(* process gets SIGPIPE.                                                   *)
RelayData ==
    /\ RelayReads("DATA")
    /\ LET m == Head(toRelay)
           k == FoundValue(relayMap, m.stream_id)
       IN  \/ /\ ~Found(relayMap, m.stream_id)
              /\ Replies(Msg("END", m.stream_id, m.conn))
              /\ UNCHANGED <<relay, served>>
           \/ /\ Found(relayMap, m.stream_id)
              /\ server[k] # "reset"
              /\ served' = [served EXCEPT ![k] = IF server[k] = "open"
                               THEN @ \o SubSeq(m.data, 1, m.length) ELSE @]
              /\ UNCHANGED <<relay, toClient>>
           \/ /\ Found(relayMap, m.stream_id)
              /\ server[k] # "open"
              /\ Replies(Msg("END", m.stream_id, m.conn))
              /\ UNCHANGED <<relay, served>>
           \/ /\ Found(relayMap, m.stream_id)
              /\ server[k] # "open"
              /\ relay' = "ended"
              /\ UNCHANGED <<toClient, served>>
    /\ UNCHANGED <<clientVars, relayMap, epoll, server, inbox, produced>>

(* Closing the socket found for a stream takes it out of epoll; the stream *)
(* leaves the table. *)
KeepEntry(id) ==   \* slip: the stream stays in the table
    LET k == FoundValue(relayMap, id)
    IN  /\ epoll' = {entry \in epoll : entry.sock # k}
        /\ server' = [server EXCEPT ![k] = "closed"]
        /\ inbox' = [inbox EXCEPT ![k] = <<>>]
        /\ UNCHANGED relayMap
ForgetSocket(id) ==   \* slip: no close
    LET k == FoundValue(relayMap, id)
    IN  /\ epoll' = {entry \in epoll : entry.sock # k}
        /\ inbox' = [inbox EXCEPT ![k] = <<>>]
        /\ relayMap' = Remove(relayMap, id)
        /\ UNCHANGED server
CloseSocket(id) ==
    LET k == FoundValue(relayMap, id)
    IN  /\ epoll' = {entry \in epoll : entry.sock # k}
        /\ server' = [server EXCEPT ![k] = "closed"]
        /\ inbox' = [inbox EXCEPT ![k] = <<>>]
        /\ relayMap' = Remove(relayMap, id)

(* handle_relay_end. *)
RelayEnd ==
    /\ RelayReads("END")
    /\ LET id == Head(toRelay).stream_id
       IN  /\ \/ Found(relayMap, id) /\ CloseSocket(id)
              \/ ~Found(relayMap, id) /\ UNCHANGED <<epoll, server, inbox, relayMap>>
           /\ Replies(Msg("END", id, 0))
    /\ UNCHANGED <<clientVars, relay, produced, served>>

(* handle_event for a server's socket: the entry is looked up by the       *)
(* identifier of the event and its socket read.  tor_send_end_relay_data   *)
(* fills the message through msg_tor_relay_end_t, whose data begins one    *)
(* byte later than where the client reads.                                 *)
RelayInternet(event) ==
    /\ relay = "serving"
    /\ Ready(event.sock)
    /\ LET id == event.stream_id
           k == FoundValue(relayMap, id)
           size == Piece(Len(inbox[k]))
       IN  \/ /\ ~Found(relayMap, id)
              /\ relay' = "ended"
              /\ UNCHANGED <<toClient, relayMap, epoll, server, inbox>>
           \/ /\ Found(relayMap, id)
              /\ inbox[k] # <<>>
              /\ inbox' = [inbox EXCEPT ![k] = Rest(@, size)]
              /\ Replies([Msg("DATA", id, k) EXCEPT
                            !.data = <<Stale>> \o SubSeq(inbox[k], 1, size),
                            !.length = size])
              /\ UNCHANGED <<relay, relayMap, epoll, server>>
           \/ /\ Found(relayMap, id)
              /\ inbox[k] = <<>>
              /\ CloseSocket(id)
              /\ Replies(Msg("END", id, k))
              /\ UNCHANGED relay
    /\ UNCHANGED <<clientVars, toRelay, produced, served>>

-----------------------------------------------------------------------------
(* The server of connection k sends its next byte, closes the connection,  *)
(* or resets it (what the relay has not read is lost).                     *)
ServerSends(k) ==
    /\ server[k] = "open"
    /\ FoldFunction(+, 0, produced) < MaxProduced
    /\ produced' = [produced EXCEPT ![k] = @ + 1]
    /\ inbox' = [inbox EXCEPT ![k] = Append(@, <<k, produced'[k]>>)]
    /\ UNCHANGED <<clientVars, toRelay, toClient, relayVars, server, served>>

ServerCloses(k) ==
    /\ server[k] = "open"
    /\ \/ server' = [server EXCEPT ![k] = "fin"] /\ UNCHANGED inbox
       \/ /\ server' = [server EXCEPT ![k] = "reset"]
          /\ inbox' = [inbox EXCEPT ![k] = <<>>]
    /\ UNCHANGED <<clientVars, toRelay, toClient, relayVars, produced, served>>

ClientStep == ClientReceives
UserStep ==
    \/ Connect \/ ConnectHangs
    \/ \E id \in Issued :
          \/ Close(id)
          \/ \E length \in Lengths : Send(id, length) \/ Recv(id, length)
RelayStep ==
    \/ RelayBegin \/ RelayData \/ RelayEnd
    \/ \E event \in epoll : RelayInternet(event)
ServerStep == \E k \in Conns : ServerSends(k) \/ ServerCloses(k)

Next == ClientStep \/ UserStep \/ RelayStep \/ ServerStep

(* The two event loops go on; epoll reports the circuit's socket of the    *)
(* relay and those of the servers in turn.  Nothing is assumed of the user *)
(* and of the servers.                                                     *)
Fairness ==
    /\ WF_vars(ClientStep)
    /\ WF_vars(RelayBegin \/ RelayData \/ RelayEnd)
    /\ \A k \in Conns :
          WF_vars(\E event \in epoll : event.sock = k /\ RelayInternet(event))

Spec == Init /\ [][Next]_vars /\ Fairness
-----------------------------------------------------------------------------
(* The identifiers are not cut to 16 bits here (module StreamMap). *)
ByteSeqs == Seq((Conns \X Nat) \cup {Stale})
Messages == [cmd : {"BEGIN", "CONNECTED", "DATA", "END"}, stream_id : Nat,
             conn : 0 .. MaxConns, length : 0 .. RELAY_DATA_MSG_SIZE, data : ByteSeqs]
EntriesOf(values) == [entry_type : {EMPTY, FILLED, DELETED}, stream_id : Nat,
                      value : values \cup {NoValue}]

TypeOK ==
    /\ client \in {"running", "ended", "hung"}
    /\ clientMap \in [Slots -> EntriesOf([conn : Conns, recv : ByteSeqs])]
    /\ stream_id \in Nat
    /\ conns \in 0 .. MaxConns
    /\ toRelay \in Seq(Messages) /\ toClient \in Seq(Messages)
    /\ relay \in {"serving", "ended"}
    /\ relayMap \in [Slots -> EntriesOf(Conns)]
    /\ epoll \subseteq [sock : Conns, stream_id : Nat]
    /\ server \in [Conns -> {"none", "open", "fin", "reset", "closed"}]
    /\ inbox \in [Conns -> ByteSeqs]
    /\ sent \in [Conns -> 0 .. MaxSent] /\ produced \in [Conns -> Nat]
    /\ served \in [Conns -> ByteSeqs] /\ got \in [Conns -> ByteSeqs]
    /\ hasty \in 0 .. MaxHasty

(* Every socket the exit relay waits for is open and its identifier is in  *)
(* the table, so handle_event never ends the session; what an identifier   *)
(* finds is a socket that is waited for; and, as long as the user never    *)
(* connected while messages were under way, it is the event's own socket.  *)
EventsHaveEntry ==
    /\ \A event \in epoll :
          /\ server[event.sock] \in {"open", "fin", "reset"}
          /\ Found(relayMap, event.stream_id)
          /\ hasty = 0 => FoundValue(relayMap, event.stream_id) = event.sock
    /\ \A id \in Ids(relayMap) : [sock |-> FoundValue(relayMap, id), stream_id |-> id] \in epoll

(* Bytes reach the server of the connection the user sent them on, in the  *)
(* order they were sent, as long as the user never connected while         *)
(* messages were under way: gen_stream_id gives an identifier out again at *)
(* once, and an END for the earlier connection then removes the later one. *)
BytesReachTheirServer ==
    hasty = 0 => \A k \in Conns : IsPrefixOf(served[k], Bytes(k, 1, sent[k]))

(* What the client holds or returned for a connection are bytes of that    *)
(* connection, in order and none twice, whatever is between them.          *)
InOrder(k, bytes) ==
    \A i \in DOMAIN bytes : bytes[i] # Stale =>
        /\ bytes[i][1] = k
        /\ \A j \in 1 .. i - 1 : bytes[j] # Stale => bytes[j][2] < bytes[i][2]
ReceivedInOrder ==
    hasty = 0 =>
        /\ \A k \in Conns : InOrder(k, got[k])
        /\ \A id \in Ids(clientMap) :
              LET entry == FoundValue(clientMap, id)
              IN  InOrder(entry.conn, got[entry.conn] \o entry.recv)

(* When nothing is going on, client and exit relay agree on which streams  *)
(* there are and which connection each one is.                             *)
TablesAgreeWhenQuiet ==
    (hasty = 0 /\ Quiet /\ client = "running" /\ relay = "serving") =>
       /\ Ids(clientMap) = Ids(relayMap)
       /\ \A id \in Ids(clientMap) :
             FoundValue(clientMap, id).conn = FoundValue(relayMap, id)

(* A closed stream's connection to the server is closed: no server stays   *)
(* connected for a connection the client no longer has.                    *)
ClientHas(k) == \E id \in Ids(clientMap) : FoundValue(clientMap, id).conn = k
CloseReachesServer ==
    \A k \in Conns :
       (server[k] = "open" /\ ~ClientHas(k)) ~>
          (server[k] = "closed" \/ client # "running" \/ relay # "serving" \/ hasty > 0)

(* recv returns what the server sent, from the first byte on (README).     *)
RecvReturnsServerBytes == \A k \in Conns : IsPrefixOf(got[k], Bytes(k, 1, produced[k]))

(* "connect ... generates a stream ID (Identifier for that connection)":   *)
(* no two sockets of the exit relay have one identifier (README).          *)
IdentifiesOneConnection ==
    \A event, other \in epoll : event.stream_id = other.stream_id => event = other
=============================================================================
