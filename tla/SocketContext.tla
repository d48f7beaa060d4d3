--------------------------- MODULE SocketContext ---------------------------
(***************************************************************************)
(* The sockets of the directory server: descriptors the kernel gives out   *)
(* again once they are closed, the array of session keys indexed by        *)
(* descriptor (src/server/services/socket_context.c), and the thread that  *)
(* serves each connection (client_callback, process_client and             *)
(* process_relay as far as they touch the array).  What the sessions ask   *)
(* for is module DirectoryServer.                                          *)
(*                                                                         *)
(* Every function of socket_context.c holds key_list_mutex from its first  *)
(* to its last line.  get_sock_key returns a pointer into the array, which *)
(* the thread keeps: it is the index and the array the pointer was taken   *)
(* from, a number that changes when realloc moves the array.               *)
(***************************************************************************)
EXTENDS Integers, FiniteSets

CONSTANTS Threads,              \* one connection each
          KEY_LIST_START_SIZE,  \* 4 in the code
          FirstFd,              \* 4: standard streams and server_fd come first
          NoFd, NoKey

ASSUME SocketAssumption ==
    /\ IsFiniteSet(Threads)
    /\ KEY_LIST_START_SIZE \in Nat \ {0}
    /\ FirstFd \in Nat
    /\ NoFd \notin Nat
    /\ NoKey \notin Threads

VARIABLES pc,         \* where each connection's thread is
          fd,         \* its descriptor
          pointer,    \* the array its key pointer points into
          exists,     \* key_list.arr[i].exists
          key,        \* key_list.arr[i].key_data: whose connection's key
          length, array,        \* key_list.length, and which array it is
          socks_used,
          hung        \* a thread that loops with the mutex held

vars == <<pc, fd, pointer, exists, key, length, array, socks_used, hung>>

OpenFdsClosedFirst ==   \* slip: close comes before free_socket
    {fd[t] : t \in {u \in Threads : pc[u] \notin {"waiting", "done", "serving", "close"}}}
OpenFds == {fd[t] : t \in {u \in Threads : pc[u] \notin {"waiting", "done"}}}
Indices == 0 .. length - 1
MutexFree == hung = FALSE

Init ==
    /\ pc = [t \in Threads |-> "waiting"]
    /\ fd = [t \in Threads |-> NoFd]
    /\ pointer = [t \in Threads |-> 0]
    /\ exists = [i \in 0 .. KEY_LIST_START_SIZE - 1 |-> FALSE]
    /\ key = [i \in 0 .. KEY_LIST_START_SIZE - 1 |-> NoKey]
    /\ length = KEY_LIST_START_SIZE
    /\ array = 1
    /\ socks_used = 0
    /\ hung = FALSE

-----------------------------------------------------------------------------
Moves(t, from, to) == pc[t] = from /\ pc' = [pc EXCEPT ![t] = to]

(* accept: the smallest descriptor that is not open. *)
Accept(t, n) ==
    /\ Moves(t, "waiting", "handshake")
    /\ n >= FirstFd /\ n \notin OpenFds
    /\ \A m \in FirstFd .. n - 1 : m \in OpenFds
    /\ fd' = [fd EXCEPT ![t] = n]
    /\ UNCHANGED <<pointer, exists, key, length, array, socks_used, hung>>

(* The handshake, with the thread's own copy of the key: it ends with the  *)
(* confirmation sent, or the descriptor is closed.                         *)
Handshake(t) ==
    /\ \/ Moves(t, "handshake", "add")
       \/ Moves(t, "handshake", "done")
    /\ UNCHANGED <<fd, pointer, exists, key, length, array, socks_used, hung>>

(* The length add_socket goes on with: resize_key_list doubles it until n  *)
(* is an index, and the last doubling was needed.                          *)
NewLengthsOnce(n) == IF n < length THEN {length} ELSE {2 * length}   \* slip: no loop
NewLengths(n) ==
    IF n < length THEN {length}
    ELSE {len \in n + 1 .. 2 * n : \E k \in 1 .. n : len = length * 2 ^ k}

(* add_socket when there is an array; realloc may move it when it grows.   *)
(* Nothing happens if the entry exists.                                    *)
AddSocket(t) ==
    LET n == fd[t]
        taken == n \in Indices /\ exists[n]
    IN  /\ MutexFree /\ length > 0
        /\ Moves(t, "add", "get_key")
        /\ length' \in NewLengths(n)
        /\ array' \in IF n < length THEN {array} ELSE {array, array + 1}
        /\ exists' = [i \in 0 .. length' - 1 |-> i = n \/ (i \in Indices /\ exists[i])]
        /\ key' = [i \in 0 .. length' - 1 |->
                      IF i = n /\ ~taken THEN t ELSE IF i \in Indices THEN key[i] ELSE NoKey]
        /\ socks_used' = IF taken THEN socks_used ELSE socks_used + 1
        /\ UNCHANGED <<fd, pointer, hung>>

(* After free_socket_context the length is 0, and doubling it never ends.  *)
AddSocketHangs(t) ==
    /\ MutexFree /\ length = 0
    /\ Moves(t, "add", "hung")
    /\ hung' = TRUE
    /\ UNCHANGED <<fd, pointer, exists, key, length, array, socks_used>>

(* get_sock_key; without a key process_client returns and leaves the       *)
(* descriptor open.                                                        *)
GetSockKey(t) ==
    /\ MutexFree
    /\ IF fd[t] \in Indices /\ exists[fd[t]]
       THEN /\ Moves(t, "get_key", "serving")
            /\ pointer' = [pointer EXCEPT ![t] = array]
       ELSE Moves(t, "get_key", "leaked") /\ UNCHANGED pointer
    /\ UNCHANGED <<fd, exists, key, length, array, socks_used, hung>>

(* The session is over: free_socket, then close. *)
FreeSocketUncounted(t) ==   \* slip: socks_used stays
    /\ MutexFree
    /\ Moves(t, "serving", "close")
    /\ exists' = [exists EXCEPT ![fd[t]] = FALSE]
    /\ key' = [key EXCEPT ![fd[t]] = NoKey]
    /\ UNCHANGED <<fd, pointer, length, array, socks_used, hung>>
FreeSocket(t) ==
    /\ MutexFree
    /\ Moves(t, "serving", "close")
    /\ IF fd[t] \in Indices /\ exists[fd[t]]
       THEN /\ exists' = [exists EXCEPT ![fd[t]] = FALSE]
            /\ key' = [key EXCEPT ![fd[t]] = NoKey]
            /\ socks_used' = socks_used - 1
       ELSE UNCHANGED <<exists, key, socks_used>>
    /\ UNCHANGED <<fd, pointer, length, array, hung>>

Close(t) ==
    /\ Moves(t, "close", "done")
    /\ UNCHANGED <<fd, pointer, exists, key, length, array, socks_used, hung>>

(* free_socket_context, when the operator typed exit: only without users. *)
FreeContextKept ==   \* slip: only the length is reset
    /\ MutexFree /\ socks_used = 0 /\ length > 0
    /\ length' = 0
    /\ UNCHANGED <<pc, fd, pointer, exists, key, array, socks_used, hung>>
FreeContext ==
    /\ MutexFree /\ socks_used = 0 /\ length > 0
    /\ length' = 0
    /\ exists' = [i \in {} |-> FALSE]
    /\ key' = [i \in {} |-> NoKey]
    /\ UNCHANGED <<pc, fd, pointer, array, socks_used, hung>>

Next ==
    \/ \E t \in Threads :
          \/ \E n \in FirstFd .. FirstFd + Cardinality(Threads) : Accept(t, n)
          \/ Handshake(t) \/ AddSocket(t) \/ AddSocketHangs(t)
          \/ GetSockKey(t) \/ FreeSocket(t) \/ Close(t)
    \/ FreeContext

Spec == Init /\ [][Next]_vars
-----------------------------------------------------------------------------
ThreadStates == {"waiting", "handshake", "add", "get_key", "serving", "close",
                 "done", "hung", "leaked"}

TypeOK ==
    /\ pc \in [Threads -> ThreadStates]
    /\ fd \in [Threads -> Nat \cup {NoFd}]
    /\ pointer \in [Threads -> Nat]
    /\ length \in Nat
    /\ exists \in [Indices -> BOOLEAN]
    /\ key \in [Indices -> Threads \cup {NoKey}]
    /\ array \in Nat
    /\ socks_used \in Int
    /\ hung \in BOOLEAN

Using(t) == pc[t] \in {"get_key", "serving"}

(* An entry exists exactly while the one connection that owns its          *)
(* descriptor is in session, and holds that connection's key; so           *)
(* add_socket, whose result client_callback ignores, is never refused and  *)
(* free_socket never frees the key of the descriptor's next user, although *)
(* descriptors are given out again at once.                                *)
EntryPerSession ==
    /\ \A t \in Threads : Using(t) => fd[t] \in Indices /\ exists[fd[t]] /\ key[fd[t]] = t
    /\ \A i \in Indices : exists[i] => \E t \in Threads : Using(t) /\ fd[t] = i

(* socks_used counts the sessions, so free_socket_context frees the array  *)
(* only when nobody is in one.                                             *)
SocksUsedCounts == socks_used = Cardinality({t \in Threads : Using(t)})

(* The key a session reads and writes with is the connection's own         *)
(* ("Unique per connection", encryptions.h).  It is not once another       *)
(* connection made realloc move the array.                                 *)
KeyIsOwn == \A t \in Threads : pc[t] = "serving" => pointer[t] = array

(* No session is left behind with its descriptor open (get_sock_key        *)
(* returned NULL), whatever is freed and given out again around it.        *)
NoneLeaked == \A t \in Threads : pc[t] # "leaked"
=============================================================================
