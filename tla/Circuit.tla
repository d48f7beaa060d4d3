------------------------------ MODULE Circuit ------------------------------
(***************************************************************************)
(* One circuit: the client builds it hop by hop through the relays         *)
(* 1 .. N (TLS key exchange, CREATE/CREATED with the guard, EXTEND/        *)
(* EXTENDED for the others), uses it (ping, stream cells), and leaves it   *)
(* (destroy, exit, an error).  Every relay serves the circuit in a thread  *)
(* of its own; links are TCP connections.                                  *)
(*                                                                         *)
(* Link i joins node i (0 is the client) to relay i + 1.  down[i] and      *)
(* up[i] are the messages on their way; near[i] and far[i] are the two     *)
(* descriptors.  A message is read whole.  The hop-by-hop TLS encryption   *)
(* is undone by the reader of the same link and is left out; the onion     *)
(* encryption of the part after the header is the sequence of keys it is   *)
(* encrypted with, outermost first.  What the streams do with stream cells *)
(* is module Streams; here a cell is answered or not.                      *)
(***************************************************************************)
EXTENDS Integers, Sequences, SequencesExt

CONSTANTS N,          \* relays asked for (client_config: at most 5)
          MaxCells,   \* bound on the user's stream cells and pings
          MaxEvents,  \* bound on the messages the exit's servers cause
          MaxCrashes  \* bound on the relay processes that stop

ASSUME CircuitAssumption ==
    /\ N \in Nat \ {0}
    /\ MaxCells \in Nat /\ MaxEvents \in Nat /\ MaxCrashes \in Nat

VARIABLES client,     \* where the client's thread is
          cur_relays, \* client_session_t: relays whose key is in use
          relay,      \* where each relay's thread is
          near, far,  \* descriptors of the two ends of each link
          down, up,   \* messages on each link, away from and to the client
          streams,    \* the exit relay has connections to servers
          pings,      \* pings the user sent and has not seen come back
          cells, events, crashes   \* spent budgets

links == <<near, far, down, up>>
budgets == <<cells, events, crashes>>
vars == <<client, cur_relays, relay, links, streams, pings, budgets>>

Relays == 1 .. N
Links == 0 .. N - 1

-----------------------------------------------------------------------------
(* Messages.  "key" is the public key of handle_tls. *)
RelayCommands == {"EXTEND", "EXTENDED", "CELL"}
Key == [cmd |-> "key", relay |-> "-", layers |-> <<>>]
Create == [cmd |-> "CREATE", relay |-> "-", layers |-> <<>>]
Created == [cmd |-> "CREATED", relay |-> "-", layers |-> <<>>]
Relayed(command) == [cmd |-> "RELAY", relay |-> command, layers |-> <<>>]
Padding == [cmd |-> "PADDING", relay |-> "-", layers |-> <<>>]
Destroy == [cmd |-> "DESTROY", relay |-> "-", layers |-> <<>>]

(* Encryption and decryption with one key undo each other, in either order; *)
(* -k on the sequence stands for a decryption that undid nothing.           *)
Encrypt(m, k) ==
    [m EXCEPT !.layers = IF @ # <<>> /\ Head(@) = -k THEN Tail(@) ELSE <<k>> \o @]
Decrypt(m, k) ==
    [m EXCEPT !.layers = IF @ # <<>> /\ Head(@) = k THEN Tail(@) ELSE <<-k>> \o @]

(* The client's loops over onion_keys: from the last key to the first when *)
(* sending, from the first to the last when receiving.                     *)
ClientEncryptForwards(m, amount) ==   \* slip: the same order as receiving
    LET after[i \in 0 .. amount] == IF i = 0 THEN m ELSE Encrypt(after[i - 1], i)
    IN  after[amount]
ClientEncryptPast(m, amount) ==   \* slip: the key after each
    LET after[i \in 0 .. amount] == IF i = 0 THEN m ELSE Encrypt(after[i - 1], amount + 2 - i)
    IN  after[amount]
ClientEncrypt(m, amount) ==
    LET after[i \in 0 .. amount] == IF i = 0 THEN m ELSE Encrypt(after[i - 1], amount + 1 - i)
    IN  after[amount]
ClientDecryptBackwards(m, amount) ==   \* slip
    LET after[i \in 0 .. amount] == IF i = 0 THEN m ELSE Decrypt(after[i - 1], amount + 1 - i)
    IN  after[amount]
ClientDecrypt(m, amount) ==
    LET after[i \in 0 .. amount] == IF i = 0 THEN m ELSE Decrypt(after[i - 1], i)
    IN  after[amount]

(* The relay command a reader sees: any, if layers are left. *)
SeenCommands(m) == IF m.layers = <<>> THEN {m.relay} ELSE RelayCommands

-----------------------------------------------------------------------------
(* send on link i, away from the client.  When the other end is closed the *)
(* data may still be accepted and lost, the call may fail, or the process  *)
(* gets SIGPIPE, which nobody handles.                                     *)
Outcomes(end) == IF end = "open" THEN {"sent"} ELSE {"lost", "error", "killed"}

Sent(channel, i, outcome, m) ==
    IF outcome = "sent" THEN [channel EXCEPT ![i] = Append(@, m)] ELSE channel

Received(channel, i) == [channel EXCEPT ![i] = Tail(@)]

(* read returns the next message, or 0 once the other end is closed. *)
Readable(channel, i) == channel[i] # <<>>
EndOfFileIgnored(channel, i, end) == FALSE   \* slip: 0 taken for "try again"
EndOfFile(channel, i, end) == channel[i] = <<>> /\ end # "open"

(* The descriptors after relay r's thread has ended: free_relay_session    *)
(* and the death of the process close them, an abandoned session keeps     *)
(* them (client_callback returns without free_relay_session on an error).  *)
Stopped == {"freed", "abandoned", "dead"}
Closed(end) == IF end = "open" THEN "closed" ELSE end
FarAfter(r, pc) == IF pc \in {"freed", "dead"}
                   THEN [far EXCEPT ![r - 1] = Closed(@)] ELSE far
NearAfter(r, pc) == IF pc \in {"freed", "dead"} /\ r \in Links
                    THEN [near EXCEPT ![r] = Closed(@)] ELSE near

(* Where relay r goes when its handler would continue at pc. *)
After(outcome, pc) == CASE outcome = "error" -> "abandoned"
                        [] outcome = "killed" -> "dead"
                        [] OTHER -> pc

RelayGoes(r, pc) ==
    /\ relay' = [relay EXCEPT ![r] = pc]
    /\ near' = NearAfter(r, pc)
    /\ far' = FarAfter(r, pc)

-----------------------------------------------------------------------------
Init ==
    /\ client = "connect"
    /\ cur_relays = 0
    /\ relay = [r \in Relays |-> "listening"]
    /\ near = [i \in Links |-> "none"]
    /\ far = [i \in Links |-> "none"]
    /\ down = [i \in Links |-> <<>>]
    /\ up = [i \in Links |-> <<>>]
    /\ streams = FALSE
    /\ pings = 0
    /\ cells = 0
    /\ events = 0
    /\ crashes = 0

(* The client gives up: run_client closes the socket and the program ends. *)
ClientEndsOpen(result) == client' = result /\ UNCHANGED near   \* slip: no close
ClientEnds(result) ==
    /\ client' = result
    /\ near' = [near EXCEPT ![0] = Closed(@)]

ClientLeaves(outcome, pc) ==
    IF outcome \in {"error", "killed"}
    THEN ClientEnds("failed")
    ELSE client' = pc /\ UNCHANGED near

(* connect_server_by_sockaddr to the guard; without a connection           *)
(* handle_tls_sender fails on descriptor -1.                               *)
ClientConnect ==
    /\ client = "connect"
    /\ IF relay[1] = "listening"
       THEN /\ client' = "tls"
            /\ near' = [near EXCEPT ![0] = "open"]
            /\ far' = [far EXCEPT ![0] = "open"]
            /\ relay' = [relay EXCEPT ![1] = "accepted"]
       ELSE client' = "failed" /\ UNCHANGED <<near, far, relay>>
    /\ UNCHANGED <<cur_relays, down, up, streams, pings, budgets>>

(* handle_tls_sender, then handle_create_message up to its read. *)
ClientTls ==
    /\ client = "tls"
    /\ \/ /\ Readable(up, 0)
          /\ up' = Received(up, 0)
          /\ \E outcome \in Outcomes(far[0]) :
                /\ down' = Sent(Sent(down, 0, outcome, Key), 0, outcome, Create)
                /\ ClientLeaves(outcome, "create")
       \/ /\ EndOfFile(up, 0, far[0])
          /\ ClientEnds("failed")
          /\ UNCHANGED <<up, down>>
    /\ UNCHANGED <<cur_relays, relay, far, streams, pings, budgets>>

(* One turn of create_relay_circuit, up to its read, with n keys in use. *)
NextHopEarly(n) ==   \* slip: the key is used before EXTENDED came
    /\ cur_relays' = IF n < N THEN n + 1 ELSE n
    /\ IF n < N
       THEN \E outcome \in Outcomes(far[0]) :
              /\ down' = Sent(down, 0, outcome, ClientEncrypt(Relayed("EXTEND"), n))
              /\ ClientLeaves(outcome, "extend")
       ELSE client' = "ready" /\ UNCHANGED <<down, near>>
NextHop(n) ==
    /\ cur_relays' = n
    /\ IF n < N
       THEN \E outcome \in Outcomes(far[0]) :
              /\ down' = Sent(down, 0, outcome, ClientEncrypt(Relayed("EXTEND"), n))
              /\ ClientLeaves(outcome, "extend")
       ELSE client' = "ready" /\ UNCHANGED <<down, near>>

(* handle_create_message: the result of the read is not looked at, so at   *)
(* the end of the stream the command compared with TOR_CREATED is a byte   *)
(* of the encrypted CREATE.                                                *)
ClientCreated ==
    /\ client = "create"
    /\ \/ /\ Readable(up, 0)
          /\ up' = Received(up, 0)
          /\ IF Head(up[0]).cmd = "CREATED"
             THEN NextHop(1)
             ELSE ClientEnds("failed") /\ UNCHANGED <<cur_relays, down>>
       \/ /\ EndOfFile(up, 0, far[0])
          /\ UNCHANGED up
          /\ \/ NextHop(1)
             \/ ClientEnds("failed") /\ UNCHANGED <<cur_relays, down>>
    /\ UNCHANGED <<relay, far, streams, pings, budgets>>

(* create_relay_circuit after its read. *)
ClientExtended ==
    /\ client = "extend"
    /\ \/ /\ Readable(up, 0)
          /\ up' = Received(up, 0)
          /\ \E command \in SeenCommands(ClientDecrypt(Head(up[0]), cur_relays)) :
                IF command = "EXTENDED"
                THEN NextHop(cur_relays + 1)
                ELSE ClientEnds("failed") /\ UNCHANGED <<cur_relays, down>>
       \/ /\ EndOfFile(up, 0, far[0])
          /\ ClientEnds("failed")
          /\ UNCHANGED <<up, cur_relays, down>>
    /\ UNCHANGED <<relay, far, streams, pings, budgets>>

(* The user's ping, connect, send and close put one message on the way. *)
UserSends ==
    /\ client = "ready"
    /\ cells < MaxCells
    /\ cells' = cells + 1
    /\ \E m \in {Padding, Relayed("CELL")}, outcome \in Outcomes(far[0]) :
          /\ down' = Sent(down, 0, outcome, ClientEncrypt(m, cur_relays))
          /\ ClientLeaves(outcome, "ready")
          /\ pings' = IF m.cmd = "PADDING" THEN pings + 1 ELSE pings
    /\ UNCHANGED <<cur_relays, relay, far, up, streams, events, crashes>>

(* The user's destroy: TOR_DESTROY, then the session ends. *)
UserDestroys ==
    /\ client = "ready"
    /\ \E outcome \in Outcomes(far[0]) :
          /\ down' = Sent(down, 0, outcome, ClientEncrypt(Destroy, cur_relays))
          /\ ClientEnds(IF outcome = "sent" THEN "destroyed" ELSE "failed")
    /\ UNCHANGED <<cur_relays, relay, far, up, streams, pings, budgets>>

(* The user's exit: the session ends without a message. *)
UserExits ==
    /\ client = "ready"
    /\ ClientEnds("exited")
    /\ UNCHANGED <<cur_relays, relay, far, down, up, streams, pings, budgets>>

(* handle_event for the guard's socket. *)
ClientReceives ==
    /\ client = "ready"
    /\ \/ /\ Readable(up, 0)
          /\ up' = Received(up, 0)
          /\ pings' = IF ClientDecrypt(Head(up[0]), cur_relays) = Padding
                      THEN pings - 1 ELSE pings
          /\ UNCHANGED <<client, near>>
       \/ /\ EndOfFile(up, 0, far[0])
          /\ ClientEnds("failed")
          /\ UNCHANGED <<up, pings>>
    /\ UNCHANGED <<cur_relays, relay, far, down, streams, budgets>>

ClientStep == ClientConnect \/ ClientTls \/ ClientCreated \/ ClientExtended \/ ClientReceives
UserStep == UserSends \/ UserDestroys \/ UserExits
-----------------------------------------------------------------------------
(* handle_tls_recviever of relay r up to its read; if it fails the         *)
(* descriptor is closed and the session freed.                             *)
RelayAccepts(r) ==
    /\ relay[r] = "accepted"
    /\ \E outcome \in Outcomes(near[r - 1]) :
          /\ up' = Sent(up, r - 1, outcome, Key)
          /\ RelayGoes(r, CASE outcome = "error" -> "freed"
                            [] outcome = "killed" -> "dead"
                            [] OTHER -> "tls")
    /\ UNCHANGED <<client, cur_relays, down, streams, pings, budgets>>

RelayTls(r) ==
    /\ relay[r] = "tls"
    /\ \/ /\ Readable(down, r - 1)
          /\ down' = Received(down, r - 1)
          /\ RelayGoes(r, "create")
       \/ /\ EndOfFile(down, r - 1, near[r - 1])
          /\ RelayGoes(r, "freed")
          /\ UNCHANGED down
    /\ UNCHANGED <<client, cur_relays, up, streams, pings, budgets>>

(* handle_create_message; whether CREATED could be sent is not looked at. *)
RelayCreate(r) ==
    /\ relay[r] = "create"
    /\ \/ /\ Readable(down, r - 1)
          /\ down' = Received(down, r - 1)
          /\ IF Head(down[r - 1]).cmd = "CREATE"
             THEN \E outcome \in Outcomes(near[r - 1]) :
                    /\ up' = Sent(up, r - 1, outcome, Created)
                    /\ RelayGoes(r, IF outcome = "killed" THEN "dead" ELSE "second")
             ELSE RelayGoes(r, "abandoned") /\ UNCHANGED up
       \/ /\ EndOfFile(down, r - 1, near[r - 1])
          /\ RelayGoes(r, "abandoned")
          /\ UNCHANGED <<down, up>>
    /\ UNCHANGED <<client, cur_relays, streams, pings, budgets>>

(* extend_relay up to its first read: the connection to the next relay. *)
RelayConnects(r) ==
    /\ UNCHANGED <<up, streams>>
    /\ IF r \in Links /\ relay[r + 1] = "listening"
       THEN /\ relay' = [relay EXCEPT ![r] = "exttls", ![r + 1] = "accepted"]
            /\ near' = [near EXCEPT ![r] = "open"]
            /\ far' = [far EXCEPT ![r] = "open"]
       ELSE RelayGoes(r, "abandoned")

(* A ping goes back as it came, under the relay's own layer. *)
EchoBare(r, m) == m   \* slip: sent without the onion key
Echo(r, m) == Encrypt(m, r)

(* handle_client_msg of an exit relay, for the decrypted message m. *)
ExitHandles(r, m) ==
    CASE m.cmd = "DESTROY" -> RelayGoes(r, "freed") /\ UNCHANGED <<up, streams>>
      [] m.cmd = "PADDING" ->
           \E outcome \in Outcomes(near[r - 1]) :
              /\ up' = Sent(up, r - 1, outcome, Echo(r, m))
              /\ RelayGoes(r, After(outcome, "exit"))
              /\ UNCHANGED streams
      [] m.cmd = "RELAY" ->
           \/ \E outcome \in Outcomes(near[r - 1]) :    \* BEGIN, END, failed DATA
                /\ up' = Sent(up, r - 1, outcome, Encrypt(Relayed("CELL"), r))
                /\ RelayGoes(r, After(outcome, "exit"))
                /\ streams' \in BOOLEAN
           \/ RelayGoes(r, "exit") /\ UNCHANGED <<up, streams>>   \* DATA
      [] OTHER -> RelayGoes(r, "exit") /\ UNCHANGED <<up, streams>>

(* process_relay_session: the second message decides what relay r is.  The *)
(* end of the stream is not an error here.                                 *)
RelaySecond(r) ==
    /\ relay[r] = "second"
    /\ \/ /\ Readable(down, r - 1)
          /\ down' = Received(down, r - 1)
          /\ LET m == Decrypt(Head(down[r - 1]), r)
             IN  \E command \in SeenCommands(m) :
                    IF m.cmd = "RELAY" /\ command = "EXTEND"
                    THEN RelayConnects(r)
                    ELSE ExitHandles(r, m)
       \/ /\ EndOfFile(down, r - 1, near[r - 1])
          /\ RelayGoes(r, "freed")
          /\ UNCHANGED <<down, up, streams>>
    /\ UNCHANGED <<client, cur_relays, pings, budgets>>

(* extend_relay: handle_tls_sender, CREATE.  A failure closes next_fd only *)
(* if it was the key exchange that failed.                                 *)
RelayExtendTls(r) ==
    /\ relay[r] = "exttls"
    /\ \/ /\ Readable(up, r)
          /\ up' = Received(up, r)
          /\ \E outcome \in Outcomes(far[r]) :
                /\ down' = Sent(Sent(down, r, outcome, Key), r, outcome, Create)
                /\ RelayGoes(r, After(outcome, "extending"))
       \/ /\ EndOfFile(up, r, far[r])
          /\ relay' = [relay EXCEPT ![r] = "abandoned"]
          /\ near' = [near EXCEPT ![r] = "closed"]
          /\ UNCHANGED <<up, down, far>>
    /\ UNCHANGED <<client, cur_relays, streams, pings, budgets>>

(* extend_relay: CREATED comes back, EXTENDED goes to the client. *)
RelayExtended(r) ==
    /\ relay[r] = "extending"
    /\ \/ /\ Readable(up, r)
          /\ IF Head(up[r]).cmd = "CREATED"
             THEN \E outcome \in Outcomes(near[r - 1]) :
                    /\ up' = Sent(Received(up, r), r - 1, outcome,
                                  Encrypt(Relayed("EXTENDED"), r))
                    /\ RelayGoes(r, After(outcome, "middle"))
             ELSE up' = Received(up, r) /\ RelayGoes(r, "abandoned")
       \/ /\ EndOfFile(up, r, far[r])
          /\ RelayGoes(r, "abandoned")
          /\ UNCHANGED up
    /\ UNCHANGED <<client, cur_relays, down, streams, pings, budgets>>

(* handle_last_fd: one layer comes off, the message goes on, and only then *)
(* is TOR_DESTROY looked for.                                              *)
KeptDestroy(r, outcome, m) ==   \* slip: TOR_DESTROY looked for first
    IF m.cmd = "DESTROY" THEN Received(down, r - 1)
                         ELSE Sent(Received(down, r - 1), r, outcome, m)
Forwarded(r, outcome, m) == Sent(Received(down, r - 1), r, outcome, m)

MiddleForwardsDown(r) ==
    /\ relay[r] = "middle"
    /\ \/ /\ Readable(down, r - 1)
          /\ LET m == Decrypt(Head(down[r - 1]), r)
             IN  \E outcome \in Outcomes(far[r]) :
                    /\ down' = Forwarded(r, outcome, m)
                    /\ RelayGoes(r, After(outcome, IF m.cmd = "DESTROY" THEN "freed"
                                                                        ELSE "middle"))
       \/ /\ EndOfFile(down, r - 1, near[r - 1])
          /\ RelayGoes(r, "abandoned")
          /\ UNCHANGED down
    /\ UNCHANGED <<client, cur_relays, up, streams, pings, budgets>>

(* handle_next_fd: one layer goes on. *)
MiddleForwardsUp(r) ==
    /\ relay[r] = "middle"
    /\ \/ /\ Readable(up, r)
          /\ \E outcome \in Outcomes(near[r - 1]) :
                /\ up' = Sent(Received(up, r), r - 1, outcome, Encrypt(Head(up[r]), r))
                /\ RelayGoes(r, After(outcome, "middle"))
       \/ /\ EndOfFile(up, r, far[r])
          /\ RelayGoes(r, "abandoned")
          /\ UNCHANGED up
    /\ UNCHANGED <<client, cur_relays, down, streams, pings, budgets>>

(* handle_event of the exit relay: a message from the circuit. *)
ExitReceives(r) ==
    /\ relay[r] = "exit"
    /\ \/ /\ Readable(down, r - 1)
          /\ down' = Received(down, r - 1)
          /\ ExitHandles(r, Decrypt(Head(down[r - 1]), r))
       \/ /\ EndOfFile(down, r - 1, near[r - 1])
          /\ RelayGoes(r, "abandoned")
          /\ UNCHANGED <<down, up, streams>>
    /\ UNCHANGED <<client, cur_relays, pings, budgets>>

(* handle_internet_event: DATA, or END at the end of a server's stream. *)
ExitInternet(r) ==
    /\ relay[r] = "exit"
    /\ streams
    /\ events < MaxEvents
    /\ events' = events + 1
    /\ \E outcome \in Outcomes(near[r - 1]) :
          /\ up' = Sent(up, r - 1, outcome, Encrypt(Relayed("CELL"), r))
          /\ RelayGoes(r, After(outcome, "exit"))
    /\ streams' \in BOOLEAN
    /\ UNCHANGED <<client, cur_relays, down, pings, cells, crashes>>

RelayStep(r) ==
    \/ RelayAccepts(r) \/ RelayTls(r) \/ RelayCreate(r) \/ RelaySecond(r)
    \/ RelayExtendTls(r) \/ RelayExtended(r)

(* A relay process stops: killed, or its operator typed exit. *)
RelayCrashes(r) ==
    /\ relay[r] # "dead"
    /\ crashes < MaxCrashes
    /\ crashes' = crashes + 1
    /\ RelayGoes(r, "dead")
    /\ UNCHANGED <<client, cur_relays, down, up, streams, pings, cells, events>>

Next ==
    \/ ClientStep
    \/ UserStep
    \/ \E r \in Relays :
          \/ RelayStep(r)
          \/ MiddleForwardsDown(r) \/ MiddleForwardsUp(r)
          \/ ExitReceives(r) \/ ExitInternet(r)
          \/ RelayCrashes(r)

(* Threads are scheduled and TCP delivers; epoll serves every ready        *)
(* descriptor in turn.  Nothing is assumed of the user, of the servers     *)
(* behind the exit relay or of crashes.                                    *)
Fairness ==
    /\ WF_vars(ClientStep)
    /\ \A r \in Relays : /\ WF_vars(RelayStep(r))
                         /\ WF_vars(MiddleForwardsDown(r))
                         /\ WF_vars(MiddleForwardsUp(r))
                         /\ WF_vars(ExitReceives(r))

Spec == Init /\ [][Next]_vars /\ Fairness
-----------------------------------------------------------------------------
ClientStates == {"connect", "tls", "create", "extend", "ready",
                 "failed", "destroyed", "exited"}
RelayStates == {"listening", "accepted", "tls", "create", "second", "exttls",
                "extending", "middle", "exit"} \cup Stopped
Messages == [cmd : {"key", "CREATE", "CREATED", "RELAY", "PADDING", "DESTROY"},
             relay : RelayCommands \cup {"-"}, layers : Seq(-N .. N)]

TypeOK ==
    /\ client \in ClientStates
    /\ cur_relays \in 0 .. N
    /\ relay \in [Relays -> RelayStates]
    /\ near \in [Links -> {"none", "open", "closed"}]
    /\ far \in [Links -> {"none", "open", "closed"}]
    /\ down \in [Links -> Seq(Messages)]
    /\ up \in [Links -> Seq(Messages)]
    /\ streams \in BOOLEAN
    /\ pings \in 0 .. MaxCells
    /\ cells \in 0 .. MaxCells
    /\ events \in 0 .. MaxEvents
    /\ crashes \in 0 .. MaxCrashes

(* Every message on link i carries one layer for each keyed relay from     *)
(* i + 1 on, outermost first, in both directions: a relay takes off or     *)
(* puts on exactly one, so the last keyed relay and the client find the    *)
(* bare message and nobody between them does.                              *)
OneLayerPerHop ==
    \A i \in Links :
       \A m \in ToSet(down[i]) \cup ToSet(up[i]) :
          m.cmd \in {"RELAY", "PADDING", "DESTROY"} =>
             m.layers = [k \in 1 .. cur_relays - i |-> i + k]

(* The client counts a relay as part of the circuit only when that relay   *)
(* holds the shared key and every relay before it forwards (or has stopped *)
(* meanwhile); the guard's CREATED read at the end of the stream is the    *)
(* exception the code allows.                                              *)
KeyedRelays == {"second", "exttls", "extending", "middle", "exit"} \cup Stopped
CircuitIsChain ==
    /\ \A r \in 1 .. cur_relays : relay[r] \in KeyedRelays
    /\ \A r \in 1 .. cur_relays - 1 : relay[r] \in {"middle"} \cup Stopped
    /\ \A r \in cur_relays + 2 .. N : relay[r] \in {"listening", "dead"}
    /\ client = "ready" => cur_relays = N /\ relay[N] \in {"second", "exit"} \cup Stopped

(* With relays that stay up, building the circuit succeeds: every wait of  *)
(* the client and of a relay that extends is answered.                     *)
BuildCompletes == <>(client = "ready" \/ crashes > 0)

(* Whatever relays stop, the client's build ends, unless a relay abandoned *)
(* its session and left its descriptors open: then the client waits for    *)
(* ever (create_relay_circuit has no timeout).                             *)
BuildSettled == client \in {"ready", "failed"}
BuildEndsUnlessAbandoned == <>(BuildSettled \/ \E r \in Relays : relay[r] = "abandoned")

(* A ping comes back with every layer taken off, or the client is gone     *)
(* (README: it "traverses the circuit"), if no process crashes.            *)
ClientGone == client \in {"failed", "destroyed", "exited"}
PingReturns == pings > 0 ~> (pings = 0 \/ ClientGone \/ crashes > 0)

(* destroy makes every relay leave the circuit (README: "Destroys the      *)
(* circuit and exists from all relays").  It does not: a message on its    *)
(* way up can meet a relay that has already gone.                          *)
DestroyReachesAll ==
    client = "destroyed" ~> \A r \in Relays : relay[r] \in Stopped

(* destroy on a circuit with nothing else in flight and no connections     *)
(* frees every relay's session if none crashes: a middle relay hands it on *)
(* before it leaves, and the next one reads it before the end of stream.   *)
OnlyDestroyInFlight ==
    /\ ~streams
    /\ \A r \in Relays : relay[r] \notin Stopped
    /\ \A i \in Links : up[i] = <<>> /\ down[i] = IF i = 0 THEN <<ClientEncrypt(Destroy, N)>>
                                                           ELSE <<>>
QuietDestroyFreesAll ==
    (client = "destroyed" /\ OnlyDestroyInFlight) ~>
       (crashes > 0 \/ \A r \in Relays : relay[r] = "freed")

(* Once the client is gone, however it went, every relay's session ends,   *)
(* up to the first relay that abandoned its session without closing the    *)
(* link to the next one.                                                   *)
TeardownUpToAbandoned ==
    \A r \in Relays :
       (ClientGone /\ relay[r] # "listening") ~>
          (relay[r] \in Stopped \/ \E q \in 1 .. r - 1 : relay[q] = "abandoned")
=============================================================================
