---------------------------- MODULE RelayProcess ----------------------------
(***************************************************************************)
(* The descriptors of one relay process: its listening socket, and what    *)
(* the threads that serve circuits open and close (src/relay/core/relay.c, *)
(* relay_session.c, relay_middle.c, relay_end.c).  The kernel gives out    *)
(* the smallest number that is not in use, so a number closed twice may by *)
(* then belong to another thread.  file[f] is what number f refers to;     *)
(* the threads only know numbers.                                          *)
(*                                                                         *)
(* Module Circuit has the messages of one circuit; here a read or a send   *)
(* that fails is a choice, and what matters is what is closed after it.    *)
(***************************************************************************)
EXTENDS HashMap

CONSTANTS Circuits,       \* connections made to the relay, one session each
          MaxFd,          \* descriptors 1 .. MaxFd, of RLIMIT_NOFILE
          StreamNumbers,  \* bound: stream identifiers in RELAY_BEGIN and END
          Main            \* the process itself, as the owner of the listener

ASSUME RelayProcessAssumption ==
    MaxFd \in Nat \ {0} /\ StreamNumbers \subseteq Nat /\ Main \notin Circuits

VARIABLES main,         \* where the main thread is
          sock_fd,      \* signout_server's connection to the directory server
          file,         \* the kernel's table of descriptors
          session,      \* relay_session_t, epoll_fd, hashmap and where its thread is
          closedOthers  \* history: a number closed a second time was another's by then

mainVars == <<main, sock_fd>>
relayProcessVars == <<mainVars, file, session, closedOthers>>

Fds == 1 .. MaxFd
File(owner, what) == [owner |-> owner, what |-> what]
Unused == File(Main, "unused")

Opened(files, fd, owner, what) ==
    [f \in Fds |-> IF f = fd THEN File(owner, what) ELSE files[f]]
Closed(files, fds) == [f \in Fds |-> IF f \in fds THEN Unused ELSE files[f]]

(* One of the numbers fds, which owner has closed before, was given out again. *)
GivenToOthers(fds, owner) == \E f \in fds : file[f] # Unused /\ file[f].owner # owner

FreeFds == {f \in Fds : file[f] = Unused}
(* What socket, accept and epoll_create1 return. *)
NewFd == IF FreeFds = {} THEN -1 ELSE CHOOSE f \in FreeFds : \A g \in FreeFds : f <= g

NoSession == [at |-> "away", last_fd |-> -1, next_fd |-> -1, epoll_fd |-> -1, map |-> EmptyMap]

(* run_relay does not look at what create_and_bind returns: without a      *)
(* listener (the port is taken) the relay signs up all the same.           *)
RelayProcessInit ==
    /\ main = "running"
    /\ sock_fd = -1
    /\ \E listens \in BOOLEAN :
          file = [f \in Fds |-> IF f = 1 /\ listens THEN File(Main, "listener") ELSE Unused]
    /\ session = [c \in Circuits |-> NoSession]
    /\ closedOthers = FALSE

-----------------------------------------------------------------------------
(* A thread of circuit c is at one of the given places. *)
At(c, places) == main # "gone" /\ session[c].at \in places

Goes(c, s, place) == session' = [session EXCEPT ![c] = [s EXCEPT !.at = place]]

(* The thread ends, and with it what it knew. *)
Ends(c, place) == session' = [session EXCEPT ![c] = [NoSession EXCEPT !.at = place]]

(* free_relay_session, with what is left open before it in files. *)
FreeSession(c, files, s) ==
    /\ file' = Closed(files, {s.last_fd, s.next_fd})
    /\ Ends(c, "freed")

(* client_callback after process_relay_session: the session is freed only  *)
(* if it ended without an error.                                           *)
CallbackEndsLast(c, files, s, error) ==   \* slip: the link to the next relay is left open
    IF error
    THEN file' = files /\ Ends(c, "abandoned")
    ELSE FreeSession(c, files, [s EXCEPT !.next_fd = -1])
CallbackEnds(c, files, s, error) ==
    IF error
    THEN file' = files /\ Ends(c, "abandoned")
    ELSE FreeSession(c, files, s)

-----------------------------------------------------------------------------
(* A client or the relay before this one connects. *)
Connects(c) ==
    /\ At(c, {"away"})
    /\ file[1] = File(Main, "listener")
    /\ Goes(c, session[c], "backlog")
    /\ UNCHANGED <<mainVars, file, closedOthers>>

(* accept, and a thread for the connection.  Without a free descriptor     *)
(* accept fails and the loop tries again.                                  *)
Accepts(c) ==
    /\ At(c, {"backlog"})
    /\ file[1] = File(Main, "listener")
    /\ NewFd # -1
    /\ file' = Opened(file, NewFd, c, "last")
    /\ Goes(c, [session[c] EXCEPT !.last_fd = NewFd], "tls")
    /\ UNCHANGED <<mainVars, closedOthers>>

(* pthread_create fails: the connection is closed again. *)
AcceptsNoThread(c) ==
    /\ At(c, {"backlog"})
    /\ file[1] = File(Main, "listener")
    /\ NewFd # -1
    /\ Ends(c, "refused")
    /\ UNCHANGED <<mainVars, file, closedOthers>>

(* handle_tls_recviever closes the descriptor when it fails. *)
TlsFails(c) ==
    /\ At(c, {"tls"})
    /\ file' = Closed(file, {session[c].last_fd})
    /\ Goes(c, session[c], "tls failed")
    /\ UNCHANGED <<mainVars, closedOthers>>

(* client_callback then forgets the descriptor before it frees the session. *)
TlsFailedKeepsFd(c) ==   \* slip: last_fd is not set to -1
    /\ At(c, {"tls failed"})
    /\ FreeSession(c, file, session[c])
    /\ UNCHANGED <<mainVars, closedOthers>>
TlsFailed(c) ==
    /\ At(c, {"tls failed"})
    /\ FreeSession(c, file, [session[c] EXCEPT !.last_fd = -1])
    /\ UNCHANGED <<mainVars, closedOthers>>

TlsDone(c) ==
    /\ At(c, {"tls"})
    /\ Goes(c, session[c], "create")
    /\ UNCHANGED <<mainVars, file, closedOthers>>

(* handle_create_message *)
CreateFails(c) ==
    /\ At(c, {"create"})
    /\ CallbackEnds(c, file, session[c], TRUE)
    /\ UNCHANGED <<mainVars, closedOthers>>

CreateDone(c) ==
    /\ At(c, {"create"})
    /\ Goes(c, session[c], "first")
    /\ UNCHANGED <<mainVars, file, closedOthers>>

(* The second message does not come; process_relay_session returns the     *)
(* success of the first.                                                   *)
FirstLost(c) ==
    /\ At(c, {"first"})
    /\ CallbackEnds(c, file, session[c], FALSE)
    /\ UNCHANGED <<mainVars, closedOthers>>

-----------------------------------------------------------------------------
(* RELAY_EXTEND: extend_relay connects to the next relay, or fails to. *)
ExtendConnects(c) ==
    /\ At(c, {"first"})
    /\ \E fd \in {NewFd, -1} :
          /\ file' = Opened(file, fd, c, "next")
          /\ Goes(c, [session[c] EXCEPT !.next_fd = fd], "extend")
    /\ UNCHANGED <<mainVars, closedOthers>>

(* handle_tls_sender fails and closes next_fd, whose number stays in the   *)
(* session.  It always fails without a connection.                         *)
ExtendTlsFails(c) ==
    /\ At(c, {"extend"})
    /\ CallbackEnds(c, Closed(file, {session[c].next_fd}), session[c], TRUE)
    /\ UNCHANGED <<mainVars, closedOthers>>

(* CREATE, CREATED or EXTENDED fails. *)
ExtendFails(c) ==
    /\ At(c, {"extend"})
    /\ session[c].next_fd # -1
    /\ CallbackEnds(c, file, session[c], TRUE)
    /\ UNCHANGED <<mainVars, closedOthers>>

(* The circuit is extended; epoll_create1 and epoll_ctl succeed, or the    *)
(* session ends with an error and what they made closed.                   *)
MiddleStarts(c) ==
    /\ At(c, {"extend"})
    /\ session[c].next_fd # -1
    /\ LET s == session[c]
           open == \A fd \in {s.last_fd, s.next_fd} : file[fd] # Unused
       IN  IF NewFd # -1 /\ open
           THEN /\ file' = Opened(file, NewFd, c, "epoll")
                /\ Goes(c, [s EXCEPT !.epoll_fd = NewFd], "middle")
           ELSE CallbackEnds(c, file, s, TRUE)
    /\ UNCHANGED <<mainVars, closedOthers>>

(* The loop of process_middle_relay_session returns what its handlers say: *)
(* success after TOR_DESTROY, an error when a read or a send fails.  The   *)
(* statement that closes the epoll set is behind it.                       *)
MiddleEnds(c) ==
    /\ At(c, {"middle"})
    /\ \E error \in BOOLEAN : CallbackEnds(c, file, session[c], error)
    /\ UNCHANGED <<mainVars, closedOthers>>

(* epoll_wait fails: its descriptor is no epoll set any more. *)
MiddleWaitFails(c) ==
    /\ At(c, {"middle"})
    /\ file[session[c].epoll_fd].what # "epoll"
    /\ CallbackEnds(c, Closed(file, {session[c].epoll_fd}), session[c], TRUE)
    /\ UNCHANGED <<mainVars, closedOthers>>

-----------------------------------------------------------------------------
(* Any other second message: process_end_relay_session, which handles that *)
(* message before its loop. *)
ExitStarts(c) ==
    /\ At(c, {"first"})
    /\ file' = Opened(file, NewFd, c, "epoll")
    /\ Goes(c, [session[c] EXCEPT !.epoll_fd = NewFd], "exit first")
    /\ UNCHANGED <<mainVars, closedOthers>>

(* A message is at hand; the loop cannot wait without its epoll set. *)
Handles(c) == At(c, {"exit first"}) \/ (At(c, {"exit"}) /\ session[c].epoll_fd # -1)

Sockets(map) == {map[i].value : i \in {j \in Slots : map[j].entry_type = FILLED}}

(* A handler returned false.  The loop closes its epoll set and the        *)
(* sockets of its table; before the loop nothing is closed.                *)
ExitEnds(c, files, s, error) ==
    CallbackEnds(c, IF s.at = "exit" THEN Closed(files, {s.epoll_fd} \cup Sockets(s.map)) ELSE files,
                 s, error)

(* A handler has done its work; its answer, if any, is sent or not. *)
ExitAnswers(c, files, s) ==
    \/ file' = files /\ Goes(c, s, "exit")
    \/ ExitEnds(c, files, s, TRUE)

ExitDestroyed(c) ==
    /\ Handles(c)
    /\ ExitEnds(c, file, session[c], FALSE)
    /\ UNCHANGED <<mainVars, closedOthers>>

(* TOR_PADDING, RELAY_DATA or data of a server. *)
ExitForwards(c) ==
    /\ Handles(c)
    /\ ExitAnswers(c, file, session[c])
    /\ UNCHANGED <<mainVars, closedOthers>>

(* What connect_server_by_sockaddr returned to handle_relay_begin. *)
ConnectedOrNot == TRUE   \* slip: its result is not looked at
Connected == NewFd # -1

(* handle_relay_begin: a socket the table does not take stays open. *)
ExitBegins(c, id) ==
    /\ Handles(c)
    /\ LET s == session[c]
       IN  \/ ExitAnswers(c, file, s)   \* no connection
           \/ /\ Connected
              /\ IF Insertable(s.map, id)
                 THEN ExitAnswers(c, Opened(file, NewFd, c, "server"),
                                  [s EXCEPT !.map = Insert(s.map, id, NewFd)])
                 ELSE ExitAnswers(c, Opened(file, NewFd, c, "refused"), s)
    /\ UNCHANGED <<mainVars, closedOthers>>

(* RELAY_END for a stream of the table, or the server closed its end. *)
ExitCloses(c, id) ==
    /\ Handles(c)
    /\ LET s == session[c]
       IN  /\ Found(s.map, id)
           /\ ExitAnswers(c, Closed(file, {FoundValue(s.map, id)}),
                          [s EXCEPT !.map = Remove(s.map, id)])
    /\ UNCHANGED <<mainVars, closedOthers>>

(* RELAY_END for a stream that is not in the table: when the answer cannot *)
(* be sent the handler frees the table, its entries stay.                  *)
ExitEndsAbsent(c, id) ==
    /\ Handles(c)
    /\ ~Found(session[c].map, id)
    /\ LET s == session[c]
       IN  \/ Goes(c, s, "exit") /\ UNCHANGED <<file, closedOthers>>
           \/ /\ s.at = "exit first"
              /\ CallbackEnds(c, file, s, TRUE)
              /\ UNCHANGED closedOthers
           \/ /\ s.at = "exit"
              /\ file' = Closed(file, Sockets(s.map))
              /\ Goes(c, s, "exit freeing")
              /\ UNCHANGED closedOthers
    /\ UNCHANGED mainVars

(* The loop then closes the epoll set and frees the table again, by number. *)
ExitFreesAgain(c) ==
    /\ At(c, {"exit freeing"})
    /\ LET s == session[c]
       IN  /\ CallbackEnds(c, Closed(file, {s.epoll_fd} \cup Sockets(s.map)), s, TRUE)
           /\ closedOthers' = (closedOthers \/ GivenToOthers(Sockets(s.map), c))
    /\ UNCHANGED mainVars

(* The previous node is gone, an event has no entry, or epoll_wait fails. *)
ExitBreaks(c) ==
    /\ At(c, {"exit"})
    /\ ExitEnds(c, file, session[c], TRUE)
    /\ UNCHANGED <<mainVars, closedOthers>>

-----------------------------------------------------------------------------
(* The operator's exit.  signout_server connects to the directory server.  *)
MainConnects ==
    /\ main = "running"
    /\ NewFd # -1
    /\ main' = "signing out" /\ sock_fd' = NewFd
    /\ file' = Opened(file, NewFd, Main, "directory")
    /\ UNCHANGED <<session, closedOthers>>

(* It has no connection, or the handshake or the sign-out fails and closes *)
(* it; run_relay then returns with its listener open.                      *)
MainSignOutFails ==
    /\ main \in {"running", "signing out"}
    /\ main' = "exiting" /\ sock_fd' = -1
    /\ file' = Closed(file, {sock_fd})
    /\ UNCHANGED <<session, closedOthers>>

(* The relay has signed out.  handle_exit closes the connection when it    *)
(* fails ...                                                               *)
MainExits ==
    /\ main = "signing out"
    /\ main' = "closing"
    /\ file' \in {file, Closed(file, {sock_fd})}
    /\ UNCHANGED <<sock_fd, session, closedOthers>>

(* ... and signout_server closes that number whatever handle_exit did. *)
MainCloses ==
    /\ main = "closing"
    /\ main' = "signed out" /\ sock_fd' = -1
    /\ file' = Closed(file, {sock_fd})
    /\ closedOthers' = (closedOthers \/ GivenToOthers({sock_fd}, Main))
    /\ UNCHANGED session

MainClosesListener ==
    /\ main = "signed out"
    /\ main' = "exiting"
    /\ file' = Closed(file, {f \in Fds : file[f] = File(Main, "listener")})
    /\ UNCHANGED <<sock_fd, session, closedOthers>>

(* The process ends, after main returned or by SIGPIPE, which any thread   *)
(* that sends on a broken connection may raise; the kernel closes all.     *)
MainGone ==
    /\ main # "gone"
    /\ main' = "gone" /\ sock_fd' = -1
    /\ file' = [f \in Fds |-> Unused]
    /\ session' = [c \in Circuits |-> NoSession]
    /\ UNCHANGED closedOthers

RelayStep(c) ==
    \/ Connects(c) \/ Accepts(c) \/ AcceptsNoThread(c)
    \/ TlsFails(c) \/ TlsFailed(c) \/ TlsDone(c)
    \/ CreateFails(c) \/ CreateDone(c) \/ FirstLost(c)
    \/ ExtendConnects(c) \/ ExtendTlsFails(c) \/ ExtendFails(c)
    \/ MiddleStarts(c) \/ MiddleEnds(c) \/ MiddleWaitFails(c)
    \/ ExitStarts(c) \/ ExitDestroyed(c) \/ ExitForwards(c)
    \/ \E id \in StreamNumbers : ExitBegins(c, id) \/ ExitCloses(c, id) \/ ExitEndsAbsent(c, id)
    \/ ExitFreesAgain(c) \/ ExitBreaks(c)

MainStep == MainConnects \/ MainSignOutFails \/ MainExits \/ MainCloses \/ MainClosesListener

RelayProcessNext == MainStep \/ MainGone \/ \E c \in Circuits : RelayStep(c)

RelayProcessSpec == RelayProcessInit /\ [][RelayProcessNext]_relayProcessVars
-----------------------------------------------------------------------------
Ended == {"refused", "freed", "abandoned"}
Places == Ended \cup {"away", "backlog", "tls", "tls failed", "create", "first", "extend",
                      "middle", "exit first", "exit", "exit freeing"}
Whats == {"unused", "listener", "directory", "last", "next", "epoll", "server", "refused"}

RelayProcessTypeOK ==
    /\ main \in {"running", "signing out", "closing", "signed out", "exiting", "gone"}
    /\ sock_fd \in Fds \cup {-1}
    /\ file \in [Fds -> [owner : Circuits \cup {Main}, what : Whats]]
    /\ \A c \in Circuits :
          /\ session[c].at \in Places
          /\ {session[c].last_fd, session[c].next_fd, session[c].epoll_fd} \subseteq Fds \cup {-1}
          /\ Sockets(session[c].map) \subseteq Fds
    /\ closedOthers \in BOOLEAN

(* What a session takes its numbers for; two of the thread's steps have    *)
(* closed a number they still know.                                        *)
Held(s) ==
    {<<s.next_fd, "next">>, <<s.epoll_fd, "epoll">>}
    \cup (IF s.at = "tls failed" THEN {} ELSE {<<s.last_fd, "last">>})
    \cup (IF s.at = "exit freeing" THEN {} ELSE {<<fd, "server">> : fd \in Sockets(s.map)})

(* No thread closes a descriptor of another: whatever ends when, and in    *)
(* whatever order numbers are given out again, every number a running      *)
(* session holds refers to what that session opened, and the main thread's *)
(* to its connection to the directory server.  This is so until one of the *)
(* two closes that the code does twice hits a number that was given out    *)
(* again: the table of sockets relay_end.c frees twice, and the connection *)
(* handle_exit has closed and signout_server closes again.                 *)
OwnDescriptors ==
    ~closedOthers /\ main # "gone" =>
    /\ main = "signing out" => file[sock_fd] = File(Main, "directory")
    /\ \A c \in Circuits : session[c].at \notin Ended =>
          \A h \in Held(session[c]) : h[1] # -1 => file[h[1]] = File(c, h[2])

(* What a session that was freed may leave open: a middle relay its epoll  *)
(* set, the exit relay what was opened before its loop, and both sockets a *)
(* full table refused.  The links are closed, and a session that went      *)
(* through the exit relay's loop leaves none of its servers' sockets.      *)
FreedLeavesOpen ==
    \A c \in Circuits : session[c].at = "freed" =>
        \A f \in Fds : file[f].owner = c => file[f].what \in {"epoll", "refused"}
=============================================================================
