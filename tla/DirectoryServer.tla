-------------------------- MODULE DirectoryServer --------------------------
(***************************************************************************)
(* The directory server's sessions (src/server/handlers, server.c) and the *)
(* relay processes that sign up and out (src/relay/router/server_register) *)
(* over the relay table of RelayManager.                                   *)
(*                                                                         *)
(* Each element of Descriptors is one life of a relay process, with its    *)
(* own identity key: it signs up in one session with the server, exits     *)
(* that session, and when its operator types exit it signs out in another. *)
(* Requests and responses alternate, so a session has at most one of each. *)
(* The server serves every session in a thread.  A table operation is one  *)
(* action (RelayManager), but a handler that calls two of them, or uses a  *)
(* relay_data_t outside of them, takes several.  The handshake succeeds as *)
(* a whole or fails; the threads' sockets and keys are SocketContext.      *)
(***************************************************************************)
EXTENDS RelayManager

CONSTANTS INVALID_RELAY_ID,
          MaxFailures,   \* bound on broken connections and relay crashes
          MaxExits       \* bound on the exits of the server process

ASSUME DirectoryAssumption ==
    /\ INVALID_RELAY_ID \notin Nat
    /\ ZeroDescriptor \notin Descriptors
    /\ MaxFailures \in Nat /\ MaxExits \in Nat

VARIABLES server,       \* "up", "exiting" (tables freed), "crashed", "down"
          epoch,        \* which server process this is
          pc,           \* where each relay process is
          register_id,  \* relay_vars.register_id
          key_epoch,    \* the server process whose key the relay derived
          thread,       \* the session of each relay in each of its two visits
          failures

directoryVars == <<server, epoch, pc, register_id, key_epoch, thread, failures>>
vars == <<managerVars, directoryVars>>

Visits == {"signup", "signout"}
Sessions == Descriptors \X Visits
None == [cmd |-> "none", id |-> INVALID_RELAY_ID]
Request(cmd, id) == [cmd |-> cmd, id |-> id]

NoThread == [pc |-> "none", relay_data |-> NULL, request |-> None, response |-> None,
             broken |-> FALSE]
NewThread(request) == [NoThread EXCEPT !.pc = "recv", !.request = request]

Init ==
    /\ ManagerInit
    /\ server = "up"
    /\ epoch = 1
    /\ pc = [r \in Descriptors |-> "start"]
    /\ register_id = [r \in Descriptors |-> INVALID_RELAY_ID]
    /\ key_epoch = [r \in Descriptors |-> 0]
    /\ thread = [s \in Sessions |-> NoThread]
    /\ failures = 0

-----------------------------------------------------------------------------
(* A relay process. *)
RelayAt(r, from, to) == pc[r] = from /\ pc' = [pc EXCEPT ![r] = to]
Ends(r) == pc' = [pc EXCEPT ![r] = "failed"]

Asks(s, request) == thread' = [thread EXCEPT ![s].request = request, ![s].response = None]

(* connect_server and handle_handshake.  The keys are derived once, at the *)
(* first handshake (is_key_init); a confirmation encrypted with another    *)
(* server's key does not match.                                            *)
HandshakeSucceeds(r) == server = "up" /\ key_epoch[r] \in {0, epoch}

(* signup_server up to its read of the response. *)
RelaySignsUp(r) ==
    /\ pc[r] = "start"
    /\ IF HandshakeSucceeds(r)
       THEN /\ RelayAt(r, "start", "signup")
            /\ key_epoch' = [key_epoch EXCEPT ![r] = epoch]
            /\ thread' = [thread EXCEPT ![<<r, "signup">>] =
                             NewThread(Request("signup", INVALID_RELAY_ID))]
       ELSE Ends(r) /\ UNCHANGED <<key_epoch, thread>>
    /\ UNCHANGED <<managerVars, server, epoch, register_id, failures>>

Answered(s) == thread[s].response # None
LostOnReset(s) == ~Answered(s) /\ thread[s].broken   \* slip: recv's 0 taken for data
Lost(s) == ~Answered(s) /\ (thread[s].broken \/ thread[s].pc = "ended")

(* recv_server_signup_res, then handle_exit up to its read. *)
RelaySignedUp(r) ==
    LET s == <<r, "signup">>
    IN  /\ pc[r] = "signup"
        /\ \/ /\ Answered(s)
              /\ RelayAt(r, "signup", "signup_exit")
              /\ register_id' = [register_id EXCEPT ![r] = thread[s].response.id]
              /\ Asks(s, Request("exit", INVALID_RELAY_ID))
           \/ Lost(s) /\ Ends(r) /\ UNCHANGED <<register_id, thread>>
        /\ UNCHANGED <<managerVars, server, epoch, key_epoch, failures>>

(* signup_server returns relay_success whatever handle_exit did. *)
RelayRuns(r) ==
    /\ RelayAt(r, "signup_exit", "running")
    /\ Answered(<<r, "signup">>) \/ Lost(<<r, "signup">>)
    /\ UNCHANGED <<managerVars, server, epoch, register_id, key_epoch, thread,
                   failures>>

(* The operator's exit: signout_server up to its read of the response. *)
RelaySignsOut(r) ==
    /\ pc[r] = "running"
    /\ IF HandshakeSucceeds(r)
       THEN /\ RelayAt(r, "running", "signout")
            /\ thread' = [thread EXCEPT ![<<r, "signout">>] =
                             NewThread(Request("signout", register_id[r]))]
       ELSE Ends(r) /\ UNCHANGED thread
    /\ UNCHANGED <<managerVars, server, epoch, register_id, key_epoch, failures>>

(* recv_server_signout_res does not look at the response code. *)
RelaySignedOut(r) ==
    LET s == <<r, "signout">>
    IN  /\ pc[r] = "signout"
        /\ \/ /\ Answered(s)
              /\ RelayAt(r, "signout", "signout_exit")
              /\ register_id' = [register_id EXCEPT ![r] = INVALID_RELAY_ID]
              /\ Asks(s, Request("exit", INVALID_RELAY_ID))
           \/ Lost(s) /\ Ends(r) /\ UNCHANGED <<register_id, thread>>
        /\ UNCHANGED <<managerVars, server, epoch, key_epoch, failures>>

RelayStops(r) ==
    /\ RelayAt(r, "signout_exit", "signed_out")
    /\ Answered(<<r, "signout">>) \/ Lost(<<r, "signout">>)
    /\ UNCHANGED <<managerVars, server, epoch, register_id, key_epoch, thread,
                   failures>>

RelayStep(r) == RelaySignsUp(r) \/ RelaySignedUp(r) \/ RelayRuns(r)
                \/ RelaySignedOut(r) \/ RelayStops(r)

-----------------------------------------------------------------------------
(* A thread of the server.  It may run while the main thread is exiting:   *)
(* the table is gone then, and every use of it but get_relay is a crash    *)
(* (items is NULL, items_length is 0).  Of gen_relay that is one outcome:  *)
(* its first call may write past the array of no items and return, and its *)
(* relay is in no table then; the process is about to end either way.      *)
TableGone == server = "exiting"
Running(s) == server \in {"up", "exiting"} /\ thread[s].pc # "none"

Crashes ==
    /\ server' = "crashed"
    /\ UNCHANGED <<managerVars, epoch, pc, register_id, key_epoch, thread, failures>>

(* A thread reads its next request: recv_enc_server_msg. *)
HasRequest(s, cmd) ==
    Running(s) /\ thread[s].pc = "recv" /\ ~thread[s].broken /\ thread[s].request.cmd = cmd

(* The response is sent and the thread goes on with the next request; on a *)
(* broken connection it frees its socket and ends.                         *)
Responds(s, code, id, p) ==
    thread' = [thread EXCEPT
                 ![s].pc = IF thread[s].broken THEN "ended" ELSE "recv",
                 ![s].relay_data = p,
                 ![s].request = None,
                 ![s].response = IF thread[s].broken THEN @ ELSE Request(code, id)]

ThreadReadsEnd(s) ==
    /\ Running(s) /\ thread[s].pc = "recv" /\ thread[s].broken
    /\ thread' = [thread EXCEPT ![s].pc = "ended"]
    /\ UNCHANGED <<managerVars, server, epoch, pc, register_id, key_epoch, failures>>

(* handle_signup: gen_relay ... *)
HandleSignup(s) ==
    /\ HasRequest(s, "signup")
    /\ IF TableGone THEN Crashes
       ELSE /\ \E p \in Objects \ LiveObjects :
                  /\ GenRelay(p)
                  /\ thread' = [thread EXCEPT ![s].pc = "fill", ![s].relay_data = p]
            /\ UNCHANGED <<server, epoch, pc, register_id, key_epoch, failures>>

(* slip: only after the response was sent *)
FilledIfSent(s) ==
    data' = IF thread[s].broken THEN data
            ELSE [data EXCEPT ![thread[s].relay_data].descriptor = s[1]]
Filled(s) == data' = [data EXCEPT ![thread[s].relay_data].descriptor = s[1]]

(* ... and after its unlock the descriptor is filled in through the        *)
(* pointer it returned, and the identifier read for the response.          *)
HandleSignupFills(s) ==
    /\ Running(s) /\ thread[s].pc = "fill"
    /\ Filled(s)
    /\ Responds(s, "success", data[thread[s].relay_data].relay_id, thread[s].relay_data)
    /\ UNCHANGED <<tableVars, server, epoch, pc, register_id, key_epoch, failures>>

(* handle_signout in a session that did not sign up: get_relay ... *)
HandleSignout(s) ==
    /\ HasRequest(s, "signout")
    /\ LET p == IF thread[s].relay_data # NULL THEN thread[s].relay_data
                                               ELSE GetRelay(thread[s].request.id)
       IN  IF p = NULL
           THEN Responds(s, "base_error", INVALID_RELAY_ID, NULL)
           ELSE thread' = [thread EXCEPT
                             ![s].pc = IF thread[s].relay_data # NULL THEN "remove"
                                                                      ELSE "compare",
                             ![s].relay_data = p]
    /\ UNCHANGED <<managerVars, server, epoch, pc, register_id, key_epoch, failures>>

OtherKey(s) == data[thread[s].relay_data].descriptor # s[1]   \* slip: memcmp == 0
OwnKey(s) == data[thread[s].relay_data].descriptor = s[1]

(* ... the keys are compared; after a mismatch relay_data stays set ... *)
HandleSignoutCompares(s) ==
    /\ Running(s) /\ thread[s].pc = "compare"
    /\ IF OwnKey(s)
       THEN thread' = [thread EXCEPT ![s].pc = "remove"]
       ELSE Responds(s, "base_error", INVALID_RELAY_ID, thread[s].relay_data)
    /\ UNCHANGED <<managerVars, server, epoch, pc, register_id, key_epoch, failures>>

(* ... and remove_relay of the identifier found through the pointer. *)
HandleSignoutRemoves(s) ==
    /\ Running(s) /\ thread[s].pc = "remove"
    /\ IF TableGone THEN Crashes
       ELSE /\ LET id == data[thread[s].relay_data].relay_id
               IN  RemoveRelay(id) \/ RemoveRelayFails(id)
            /\ Responds(s, "success", INVALID_RELAY_ID, NULL)
            /\ UNCHANGED <<server, epoch, pc, register_id, key_epoch, failures>>

(* handle_exit: the response, then the session is over. *)
HandleExit(s) ==
    /\ HasRequest(s, "exit")
    /\ thread' = [thread EXCEPT ![s].pc = "ended", ![s].relay_data = NULL,
                                ![s].request = None,
                                ![s].response = Request("success", INVALID_RELAY_ID)]
    /\ UNCHANGED <<managerVars, server, epoch, pc, register_id, key_epoch, failures>>

(* handle_get_relay_map in a client's session (ClientHandler) reads the    *)
(* table and changes what is the session's alone; on a freed table it      *)
(* divides by the length 0.                                                *)
MapOfFreedTable == TableGone /\ Crashes

ThreadStep(s) ==
    \/ ThreadReadsEnd(s) \/ HandleSignup(s) \/ HandleSignupFills(s)
    \/ HandleSignout(s) \/ HandleSignoutCompares(s) \/ HandleSignoutRemoves(s) \/ HandleExit(s)

-----------------------------------------------------------------------------
(* A connection breaks; the relay and the thread notice at their next read *)
(* or write.                                                               *)
Breaks(s) ==
    /\ failures < MaxFailures
    /\ thread[s].pc \notin {"none", "ended"} /\ ~thread[s].broken
    /\ failures' = failures + 1
    /\ thread' = [thread EXCEPT ![s].broken = TRUE]
    /\ UNCHANGED <<managerVars, server, epoch, pc, register_id, key_epoch>>

(* The relay's process dies, without signing out. *)
RelayCrashes(r) ==
    /\ failures < MaxFailures
    /\ pc[r] \notin {"failed", "signed_out"}
    /\ failures' = failures + 1
    /\ Ends(r)
    /\ thread' = [s \in Sessions |-> IF s[1] = r THEN [thread[s] EXCEPT !.broken = TRUE]
                                                 ELSE thread[s]]
    /\ UNCHANGED <<managerVars, server, epoch, register_id, key_epoch>>

(* The operator's exit: run_server frees the tables while the accept loop  *)
(* and the sessions' threads run on, until the process returns from main.  *)
ServerExits ==
    /\ server = "up"
    /\ epoch <= MaxExits
    /\ FreeRelayManager
    /\ server' = "exiting"
    /\ UNCHANGED <<epoch, pc, register_id, key_epoch, thread, failures>>

ServerGone ==
    /\ server \in {"exiting", "crashed"}
    /\ server' = "down"
    /\ thread' = [s \in Sessions |-> IF thread[s].pc = "none" THEN NoThread
                                     ELSE [thread[s] EXCEPT !.pc = "ended", !.relay_data = NULL]]
    /\ UNCHANGED <<managerVars, epoch, pc, register_id, key_epoch, failures>>

(* A new server process, with an empty table and a new key. *)
ServerStarts ==
    /\ server = "down"
    /\ server' = "up"
    /\ epoch' = epoch + 1
    /\ initialized' = TRUE
    /\ items_length' = RELAY_ITEMS_MIN_LENGTH
    /\ items' = [i \in 0 .. RELAY_ITEMS_MIN_LENGTH - 1 |-> NULL]
    /\ max_item_index' = 0
    /\ stack_length' = RELAY_STACK_MIN_LENGTH
    /\ removed_id_stack' = <<>>
    /\ data' = [p \in Objects |-> [relay_id |-> 0, descriptor |-> ZeroDescriptor]]
    /\ UNCHANGED <<pc, register_id, key_epoch, thread, failures>>

Next ==
    \/ \E r \in Descriptors : RelayStep(r) \/ RelaySignsOut(r) \/ RelayCrashes(r)
    \/ \E s \in Sessions : ThreadStep(s) \/ Breaks(s)
    \/ MapOfFreedTable
    \/ ServerExits \/ ServerGone \/ ServerStarts

(* The relays' and the server's threads run; nothing is assumed of the     *)
(* operators, of clients or of failures.                                   *)
Fairness ==
    /\ \A r \in Descriptors : WF_vars(RelayStep(r))
    /\ \A s \in Sessions : WF_vars(ThreadStep(s))
    /\ WF_vars(ServerGone)

Spec == Init /\ [][Next]_vars /\ Fairness
-----------------------------------------------------------------------------
SignedUp(r) == pc[r] \in {"signup_exit", "running"} /\ server = "up" /\ key_epoch[r] = epoch

(* A relay that was told its identifier stays in the table under it, with  *)
(* its own descriptor, until it signs out: no other relay's signup or      *)
(* signout, finished or cut short anywhere, takes the entry away.          *)
RegisteredStaysListed ==
    \A r \in Descriptors :
       SignedUp(r) => /\ GetRelay(register_id[r]) # NULL
                      /\ data[GetRelay(register_id[r])].descriptor = r

(* A registered relay, which the map of a client may have, has its         *)
(* descriptor unless its sign-up is just between gen_relay and the lines   *)
(* that fill the descriptor in: a session that breaks never leaves an      *)
(* entry with the zero address.                                            *)
ListedIsFilled ==
    \A i \in LiveIds :
       data[items[i]].descriptor = ZeroDescriptor =>
          \E s \in Sessions : thread[s].pc = "fill" /\ thread[s].relay_data = items[i]

(* The relay_data_t a thread reads or writes after the table was unlocked  *)
(* is still a registered one, one it removes is its own relay's, and no    *)
(* entry is left without its descriptor.                                   *)
PointersLive ==
    server = "up" =>
    /\ \A s \in Sessions :
          LET p == thread[s].relay_data
          IN  /\ thread[s].pc \in {"fill", "compare", "remove"} => p \in LiveObjects
              /\ thread[s].pc = "remove" => data[p].descriptor = s[1]
    /\ ListedIsFilled

(* A relay that ended its sign-out is not listed any more: the response    *)
(* whose code nobody looks at was a success.  No relay is listed twice.    *)
SignedOutIsGone ==
    /\ \A r \in Descriptors, i \in LiveIds :
          pc[r] \in {"signout_exit", "signed_out"} => data[items[i]].descriptor # r
    /\ \A i, j \in LiveIds :
          (data[items[i]].descriptor = data[items[j]].descriptor
           /\ data[items[i]].descriptor # ZeroDescriptor) => i = j

(* A relay process never waits for ever on the server, whatever breaks. *)
RelayNeverStuck ==
    \A r \in Descriptors :
       pc[r] \in {"signup", "signup_exit", "signout", "signout_exit"} ~>
          pc[r] \in {"running", "signed_out", "failed"}
=============================================================================
