------------------------ MODULE SocketContext_proofs ------------------------
(***************************************************************************)
(* Proofs about SocketContext, for any number of connections and any first *)
(* length of the key array.                                                *)
(***************************************************************************)
EXTENDS SocketContext, FiniteSetTheorems, TLAPS

(* Connections whose descriptor is open, and those in session. *)
IsOpen(t) == pc[t] \notin {"waiting", "done"}
Sessions == {t \in Threads : Using(t)}

(* Open connections have descriptors of their own: accept gives out one    *)
(* that is not open, and close comes after free_socket. *)
FdsDistinct ==
    /\ \A t \in Threads : IsOpen(t) => fd[t] \in Nat
    /\ \A t, u \in Threads : IsOpen(t) /\ IsOpen(u) /\ t # u => fd[t] # fd[u]

(* The inductive invariant.  EntryPerSession alone is not one: that        *)
(* add_socket finds no entry under its descriptor follows from the         *)
(* descriptors being distinct, that get_sock_key finds one is what keeps   *)
(* NoneLeaked, and that free_socket_context frees no entry in use follows  *)
(* from the count. *)
SocketInv ==
    /\ TypeOK
    /\ FdsDistinct
    /\ EntryPerSession
    /\ SocksUsedCounts
    /\ NoneLeaked

(* The sessions are finitely many, and Sessions is what SocksUsedCounts    *)
(* counts.                                                                 *)
LEMMA SessionsFinite == IsFiniteSet(Sessions)
<1>1. Sessions \subseteq Threads
  BY DEF Sessions
<1>2. QED
  BY <1>1, SocketAssumption, FS_Subset DEF SocketAssumption

(* resize_key_list leaves the descriptor inside the array and drops no     *)
(* entry.                                                                  *)
LEMMA ResizedFits ==
  ASSUME NEW n \in Nat, length \in Nat \ {0}, NEW len \in NewLengths(n)
  PROVE  len \in Nat /\ len > n /\ len >= length
<1>1. CASE n < length
  BY <1>1 DEF NewLengths
<1>2. CASE ~(n < length)
  <2>1. len \in n + 1 .. 2 * n
    BY <1>2, Zenon DEF NewLengths
  <2>2. QED
    BY <1>2, <2>1
<1>3. QED
  BY <1>1, <1>2

(* A longer array has every index of a shorter one.                        *)
LEMMA LongerArray ==
  ASSUME NEW m \in Nat, NEW len \in Nat, len >= m
  PROVE  0 .. m - 1 \subseteq 0 .. len - 1
OBVIOUS

(* init_socket_context leaves an empty array and no session. *)
LEMMA InitSockets == Init => SocketInv
<1> SUFFICES ASSUME Init
             PROVE  SocketInv
  OBVIOUS
<1> USE SocketAssumption DEF SocketAssumption
<1>1. \A t \in Threads : pc[t] = "waiting"
  BY DEF Init
<1>2. TypeOK
  <2>1. Indices = 0 .. KEY_LIST_START_SIZE - 1
    BY DEF Init, Indices
  <2>2. exists \in [Indices -> BOOLEAN] /\ hung \in BOOLEAN
    BY <2>1, Zenon DEF Init
  <2>3. QED
    BY <2>1, <2>2 DEF Init, TypeOK, ThreadStates
<1>3. Sessions = {}
  BY <1>1 DEF Sessions, Using
<1>4. SocksUsedCounts
  BY <1>3, FS_EmptySet, Zenon DEF Init, SocksUsedCounts, Sessions
<1>5. EntryPerSession
  BY <1>1 DEF Init, EntryPerSession, Using, Indices
<1>6. QED
  BY <1>1, <1>2, <1>4, <1>5 DEF SocketInv, FdsDistinct, IsOpen, NoneLeaked

(* A step that moves one thread without a session in and leaves the array  *)
(* alone keeps the invariant if the thread's descriptor stays its own.     *)
LEMMA MoveKeeps ==
  ASSUME SocketInv, NEW t \in Threads,
         NEW from, NEW to, Moves(t, from, to),
         to \in {"handshake", "add", "get_key", "serving", "close", "done", "hung"},
         from \in {"get_key", "serving"} <=> to \in {"get_key", "serving"},
         fd' \in [Threads -> Nat \cup {NoFd}],
         \A u \in Threads \ {t} : fd'[u] = fd[u],
         Using(t) => fd'[t] = fd[t],
         to # "done" => fd'[t] \in Nat,
         to # "done" => \A u \in Threads \ {t} : IsOpen(u) => fd[u] # fd'[t],
         pointer' \in [Threads -> Nat], hung' \in BOOLEAN,
         UNCHANGED <<exists, key, length, array, socks_used>>
  PROVE  SocketInv'
<1>1. /\ pc' \in [Threads -> ThreadStates]
      /\ pc[t] = from /\ pc'[t] = to
      /\ \A u \in Threads \ {t} : pc'[u] = pc[u]
  BY DEF SocketInv, TypeOK, Moves, ThreadStates
<1>2. TypeOK'
  BY <1>1, Zenon DEF SocketInv, TypeOK, Indices
<1>3. \A u \in Threads : Using(u)' <=> Using(u)
  BY <1>1 DEF Using
<1>4. \A u \in Threads : Using(u) => fd'[u] = fd[u]
  OBVIOUS
<1>5. FdsDistinct'
  <2>1. \A u \in Threads \ {t} : IsOpen(u)' <=> IsOpen(u)
    BY <1>1 DEF IsOpen
  <2>2. IsOpen(t)' => to # "done"
    BY <1>1 DEF IsOpen
  <2>3. QED
    BY <2>1, <2>2 DEF SocketInv, FdsDistinct
<1>6. EntryPerSession'
  BY <1>3, <1>4 DEF SocketInv, EntryPerSession, Indices
<1>7. SocksUsedCounts'
  BY <1>3 DEF SocketInv, SocksUsedCounts
<1>8. NoneLeaked'
  BY <1>1 DEF SocketInv, NoneLeaked
<1>9. QED
  BY <1>2, <1>5, <1>6, <1>7, <1>8 DEF SocketInv

(* add_socket: no entry is in the way, and the new session's key gets one. *)
LEMMA AddKeeps ==
  ASSUME SocketInv, NEW t \in Threads, AddSocket(t)
  PROVE  SocketInv'
<1> DEFINE n == fd[t]
<1> USE SocketAssumption DEF SocketAssumption
<1>1. /\ pc[t] = "add" /\ pc' = [pc EXCEPT ![t] = "get_key"]
      /\ fd' = fd /\ pointer' = pointer /\ hung' = hung
      /\ pc \in [Threads -> ThreadStates] /\ n \in Nat
  <2>1. pc[t] = "add" /\ pc' = [pc EXCEPT ![t] = "get_key"] /\ fd' = fd /\ pointer' = pointer
    BY DEF AddSocket, Moves
  <2>2. hung' = hung
    BY Zenon DEF AddSocket
  <2>3. pc \in [Threads -> ThreadStates] /\ n \in Nat
    BY <2>1 DEF SocketInv, TypeOK, FdsDistinct, IsOpen
  <2>4. QED
    BY <2>1, <2>2, <2>3
<1>2. /\ \A u \in Threads : Using(u)' <=> Using(u) \/ u = t
      /\ ~Using(t)
      /\ \A u \in Threads : IsOpen(u)' <=> IsOpen(u)
  BY <1>1 DEF Using, IsOpen
<1>3. ~(n \in Indices /\ exists[n])
  BY <1>1, <1>2 DEF SocketInv, EntryPerSession, FdsDistinct, IsOpen, Using
<1>4. length' \in Nat /\ length' > n /\ length' >= length
  <2>1. length \in Nat \ {0} /\ length' \in NewLengths(n)
    BY DEF AddSocket, SocketInv, TypeOK
  <2>2. QED
    BY <1>1, <2>1, ResizedFits
<1>5. /\ Indices' = 0 .. length' - 1
      /\ exists' = [i \in 0 .. length' - 1 |-> i = n \/ (i \in Indices /\ exists[i])]
      /\ key' = [i \in 0 .. length' - 1 |->
                    IF i = n THEN t ELSE IF i \in Indices THEN key[i] ELSE NoKey]
      /\ socks_used' = socks_used + 1
  BY <1>3 DEF AddSocket, Indices
<1>6. n \in Indices' /\ Indices \subseteq Indices'
  <2>1. length \in Nat /\ Indices' = 0 .. length' - 1
    BY <1>5 DEF SocketInv, TypeOK
  <2>2. n \in Indices'
    BY <1>1, <1>4, <2>1
  <2>3. 0 .. length - 1 \subseteq 0 .. length' - 1
    BY <1>4, <2>1, LongerArray
  <2>4. QED
    BY <2>1, <2>2, <2>3 DEF Indices
<1>7. TypeOK'
  <2>1. pc' \in [Threads -> ThreadStates]
    BY <1>1 DEF SocketInv, TypeOK, ThreadStates
  <2>2. exists' \in [Indices' -> BOOLEAN]
    BY <1>5, Zenon
  <2>3. key' \in [Indices' -> Threads \cup {NoKey}]
    BY <1>5 DEF SocketInv, TypeOK
  <2>4. array' \in Nat
    BY DEF AddSocket, SocketInv, TypeOK
  <2>5. hung' \in BOOLEAN
    BY <1>1, Zenon DEF SocketInv, TypeOK
  <2>6. /\ fd' \in [Threads -> Nat \cup {NoFd}]
        /\ pointer' \in [Threads -> Nat]
        /\ socks_used' \in Int
    BY <1>1, <1>5 DEF SocketInv, TypeOK
  <2>7. QED
    BY <1>4, <2>1, <2>2, <2>3, <2>4, <2>5, <2>6, Zenon DEF TypeOK
<1>8. FdsDistinct'
  BY <1>1, <1>2 DEF SocketInv, FdsDistinct
<1>9. EntryPerSession'
  <2>1. \A u \in Threads : Using(u)' =>
           fd'[u] \in Indices' /\ exists'[fd'[u]] /\ key'[fd'[u]] = u
    <3> SUFFICES ASSUME NEW u \in Threads, Using(u)'
                 PROVE  fd'[u] \in Indices' /\ exists'[fd'[u]] /\ key'[fd'[u]] = u
      OBVIOUS
    <3>1. CASE u = t
      BY <1>1, <1>5, <1>6, <3>1
    <3>2. CASE u # t
      <4>1. fd[u] \in Indices /\ exists[fd[u]] /\ key[fd[u]] = u /\ fd[u] # n
        BY <1>2, <1>3, <3>2 DEF SocketInv, EntryPerSession
      <4>2. QED
        BY <1>1, <1>5, <1>6, <4>1
    <3>3. QED
      BY <3>1, <3>2
  <2>2. \A i \in Indices' : exists'[i] => \E u \in Threads : Using(u)' /\ fd'[u] = i
    BY <1>1, <1>2, <1>5 DEF SocketInv, EntryPerSession
  <2>3. QED
    BY <2>1, <2>2 DEF EntryPerSession
<1>10. SocksUsedCounts'
  <2>1. Sessions' = Sessions \cup {t} /\ t \notin Sessions
    BY <1>2 DEF Sessions
  <2>2. Cardinality(Sessions') = Cardinality(Sessions) + 1
    BY <2>1, SessionsFinite, FS_AddElement
  <2>3. QED
    BY <1>5, <2>2 DEF SocketInv, SocksUsedCounts, Sessions
<1>11. NoneLeaked'
  BY <1>1 DEF SocketInv, NoneLeaked
<1>12. QED
  BY <1>7, <1>8, <1>9, <1>10, <1>11 DEF SocketInv

(* free_socket: the entry under the descriptor is the session's own. *)
LEMMA FreeKeeps ==
  ASSUME SocketInv, NEW t \in Threads, FreeSocket(t)
  PROVE  SocketInv'
<1> DEFINE n == fd[t]
<1> USE SocketAssumption DEF SocketAssumption
<1>1. /\ pc[t] = "serving" /\ pc' = [pc EXCEPT ![t] = "close"]
      /\ fd' = fd /\ pointer' = pointer /\ hung' = hung /\ length' = length /\ array' = array
      /\ pc \in [Threads -> ThreadStates]
  <2>1. pc[t] = "serving" /\ pc' = [pc EXCEPT ![t] = "close"]
    BY Zenon DEF FreeSocket, Moves
  <2>2. fd' = fd /\ pointer' = pointer /\ length' = length /\ array' = array
    BY DEF FreeSocket
  <2>3. hung' = hung
    BY Zenon DEF FreeSocket
  <2>4. pc \in [Threads -> ThreadStates]
    BY DEF SocketInv, TypeOK
  <2>5. QED
    BY <2>1, <2>2, <2>3, <2>4
<1>2. /\ \A u \in Threads : Using(u)' <=> Using(u) /\ u # t
      /\ Using(t)
      /\ \A u \in Threads : IsOpen(u)' <=> IsOpen(u)
      /\ \A u \in Threads : Using(u) => IsOpen(u)
  BY <1>1 DEF Using, IsOpen
<1>3. n \in Indices /\ exists[n]
  BY <1>2 DEF SocketInv, EntryPerSession
<1>4. /\ Indices' = Indices
      /\ exists' = [exists EXCEPT ![n] = FALSE]
      /\ key' = [key EXCEPT ![n] = NoKey]
      /\ socks_used' = socks_used - 1
  BY <1>1, <1>3 DEF FreeSocket, Indices
<1>5. TypeOK'
  <2>1. pc' \in [Threads -> ThreadStates]
    BY <1>1 DEF SocketInv, TypeOK, ThreadStates
  <2>2. exists' \in [Indices' -> BOOLEAN]
    BY <1>4, Zenon DEF SocketInv, TypeOK
  <2>3. key' \in [Indices' -> Threads \cup {NoKey}]
    <3>1. key \in [Indices -> Threads \cup {NoKey}]
      BY DEF SocketInv, TypeOK
    <3>2. QED
      BY ONLY <1>4, <3>1, Zenon
  <2>4. hung' \in BOOLEAN
    BY <1>1, Zenon DEF SocketInv, TypeOK
  <2>5. socks_used' \in Int
    BY <1>4 DEF SocketInv, TypeOK
  <2>6. /\ fd' \in [Threads -> Nat \cup {NoFd}]
        /\ pointer' \in [Threads -> Nat]
        /\ length' \in Nat /\ array' \in Nat
    BY <1>1 DEF SocketInv, TypeOK
  <2>7. QED
    BY <2>1, <2>2, <2>3, <2>4, <2>5, <2>6, Zenon DEF TypeOK
<1>6. FdsDistinct'
  BY <1>1, <1>2 DEF SocketInv, FdsDistinct
<1>7. \A u \in Threads : u # t /\ Using(u) => fd[u] # n
  BY <1>2 DEF SocketInv, FdsDistinct
<1>8. EntryPerSession'
  <2>1. \A u \in Threads : Using(u)' =>
           fd'[u] \in Indices' /\ exists'[fd'[u]] /\ key'[fd'[u]] = u
    BY <1>1, <1>2, <1>4, <1>7 DEF SocketInv, EntryPerSession, TypeOK
  <2>2. \A i \in Indices' : exists'[i] => \E u \in Threads : Using(u)' /\ fd'[u] = i
    BY <1>1, <1>2, <1>4 DEF SocketInv, EntryPerSession, TypeOK
  <2>3. QED
    BY <2>1, <2>2 DEF EntryPerSession
<1>9. SocksUsedCounts'
  <2>1. Sessions' = Sessions \ {t} /\ t \in Sessions
    BY <1>2 DEF Sessions
  <2>2. Cardinality(Sessions') = Cardinality(Sessions) - 1
    BY <2>1, SessionsFinite, FS_RemoveElement
  <2>3. QED
    BY <1>4, <2>2 DEF SocketInv, SocksUsedCounts, Sessions
<1>10. NoneLeaked'
  BY <1>1 DEF SocketInv, NoneLeaked
<1>11. QED
  BY <1>5, <1>6, <1>8, <1>9, <1>10 DEF SocketInv

(* free_socket_context: a count of 0 means that nobody is in session, so   *)
(* no entry in use is lost. *)
LEMMA FreeContextKeeps == SocketInv /\ FreeContext => SocketInv'
<1> SUFFICES ASSUME SocketInv, FreeContext
             PROVE  SocketInv'
  OBVIOUS
<1>1. Sessions = {}
  <2>1. Cardinality(Sessions) = 0
    BY DEF FreeContext, SocketInv, SocksUsedCounts, Sessions
  <2>2. QED
    BY <2>1, SessionsFinite, FS_EmptySet
<1>2. \A t \in Threads : ~Using(t) /\ ~Using(t)'
  BY <1>1 DEF Sessions, Using, FreeContext
<1>3. Indices' = {}
  BY DEF FreeContext, Indices
<1>4. TypeOK'
  <2>1. hung' \in BOOLEAN
    BY Zenon DEF FreeContext, SocketInv, TypeOK
  <2>2. exists' \in [Indices' -> BOOLEAN] /\ key' \in [Indices' -> Threads \cup {NoKey}]
    BY <1>3 DEF FreeContext
  <2>3. QED
    BY <2>1, <2>2 DEF FreeContext, SocketInv, TypeOK
<1>5. FdsDistinct' /\ NoneLeaked'
  BY DEF FreeContext, SocketInv, FdsDistinct, IsOpen, NoneLeaked
<1>6. EntryPerSession'
  BY <1>2, <1>3 DEF EntryPerSession
<1>7. SocksUsedCounts'
  <2>1. Sessions' = Sessions
    BY <1>2 DEF Sessions
  <2>2. QED
    BY <2>1 DEF FreeContext, SocketInv, SocksUsedCounts, Sessions
<1>8. QED
  BY <1>4, <1>5, <1>6, <1>7 DEF SocketInv

(* Every operation of the server's threads, and the exit of the server,    *)
(* keeps the invariant.                                                    *)
LEMMA NextKeeps == SocketInv /\ [Next]_vars => SocketInv'
<1> SUFFICES ASSUME SocketInv, [Next]_vars
             PROVE  SocketInv'
  OBVIOUS
<1> USE SocketAssumption DEF SocketAssumption
<1>1. TypeOK /\ FdsDistinct /\ EntryPerSession
  BY DEF SocketInv
<1>2. /\ fd \in [Threads -> Nat \cup {NoFd}]
      /\ pointer \in [Threads -> Nat]
      /\ hung \in BOOLEAN
  BY <1>1, Zenon DEF TypeOK
<1>3. \A t \in Threads : IsOpen(t) =>
         fd[t] \in Nat /\ \A u \in Threads \ {t} : IsOpen(u) => fd[u] # fd[t]
  BY <1>1 DEF FdsDistinct
<1>4. ASSUME NEW t \in Threads, NEW n \in FirstFd .. FirstFd + Cardinality(Threads), Accept(t, n)
      PROVE  SocketInv'
  <2>1. /\ Moves(t, "waiting", "handshake") /\ n \in Nat /\ n \notin OpenFds
        /\ fd' = [fd EXCEPT ![t] = n] /\ pointer' = pointer
        /\ UNCHANGED <<exists, key, length, array, socks_used>>
    BY <1>4 DEF Accept
  <2>2. hung' \in BOOLEAN
    BY <1>2, <1>4, Zenon DEF Accept
  <2>3. \A u \in Threads \ {t} : IsOpen(u) => fd[u] # n
    BY <2>1 DEF OpenFds, IsOpen
  <2>4. ~Using(t)
    BY <2>1 DEF Using, Moves
  <2>5. QED
    BY <1>2, <2>1, <2>2, <2>3, <2>4, MoveKeeps
<1>5. ASSUME NEW t \in Threads, Handshake(t)
      PROVE  SocketInv'
  <2>1. /\ fd' = fd /\ pointer' = pointer /\ UNCHANGED <<exists, key, length, array, socks_used>>
        /\ pc[t] = "handshake"
    BY <1>5 DEF Handshake, Moves
  <2>2. hung' \in BOOLEAN
    BY <1>2, <1>5, Zenon DEF Handshake
  <2>3. IsOpen(t)
    BY <2>1 DEF IsOpen
  <2>4. CASE Moves(t, "handshake", "add")
    BY <1>2, <1>3, <2>1, <2>2, <2>3, <2>4, MoveKeeps
  <2>5. CASE Moves(t, "handshake", "done")
    BY <1>2, <1>3, <2>1, <2>2, <2>3, <2>5, MoveKeeps
  <2>6. QED
    BY <1>5, <2>4, <2>5 DEF Handshake
<1>6. ASSUME NEW t \in Threads, AddSocketHangs(t)
      PROVE  SocketInv'
  <2>1. /\ Moves(t, "add", "hung") /\ fd' = fd /\ pointer' = pointer
        /\ UNCHANGED <<exists, key, length, array, socks_used>>
    BY <1>6 DEF AddSocketHangs
  <2>2. hung' \in BOOLEAN
    BY <1>6, Zenon DEF AddSocketHangs
  <2>3. IsOpen(t)
    BY <2>1 DEF IsOpen, Moves
  <2>4. QED
    BY <1>2, <1>3, <2>1, <2>2, <2>3, MoveKeeps
<1>7. ASSUME NEW t \in Threads, GetSockKey(t)
      PROVE  SocketInv'
  <2>1. Using(t) /\ IsOpen(t)
    BY <1>7 DEF GetSockKey, Moves, Using, IsOpen
  <2>2. fd[t] \in Indices /\ exists[fd[t]]
    BY <1>1, <2>1 DEF EntryPerSession
  <2>3. /\ Moves(t, "get_key", "serving") /\ fd' = fd
        /\ pointer' = [pointer EXCEPT ![t] = array]
        /\ UNCHANGED <<exists, key, length, array, socks_used>>
    BY <1>7, <2>2 DEF GetSockKey
  <2>4. hung' \in BOOLEAN
    BY <1>2, <1>7, Zenon DEF GetSockKey
  <2>5. pointer' \in [Threads -> Nat]
    BY <1>1, <1>2, <2>3 DEF TypeOK
  <2>6. QED
    BY <1>2, <1>3, <2>1, <2>3, <2>4, <2>5, MoveKeeps
<1>8. ASSUME NEW t \in Threads, Close(t)
      PROVE  SocketInv'
  <2>1. /\ Moves(t, "close", "done") /\ fd' = fd /\ pointer' = pointer
        /\ UNCHANGED <<exists, key, length, array, socks_used>>
    BY <1>8 DEF Close
  <2>2. hung' \in BOOLEAN
    BY <1>2, <1>8, Zenon DEF Close
  <2>3. QED
    BY <1>2, <2>1, <2>2, MoveKeeps
<1>9. CASE UNCHANGED vars
  <2>1. UNCHANGED <<pc, fd, pointer, exists, key, length, array, socks_used, hung>>
    BY <1>9 DEF vars
  <2>2. TypeOK'
    BY <1>1, <2>1, Zenon DEF TypeOK, Indices
  <2>3. QED
    BY <2>1, <2>2 DEF SocketInv, FdsDistinct, IsOpen, EntryPerSession, SocksUsedCounts,
                      NoneLeaked, Using, Indices
<1>10. QED
  BY <1>4, <1>5, <1>6, <1>7, <1>8, <1>9, AddKeeps, FreeKeeps, FreeContextKeeps, Zenon DEF Next

(* The invariant holds in every state. *)
LEMMA SocketInvariant == Spec => []SocketInv
<1>1. QED
  BY InitSockets, NextKeeps, PTL DEF Spec

(* The socket context's variables keep their types: the key array always   *)
(* has the length recorded for it.                                         *)
THEOREM SocketTypes == Spec => []TypeOK
<1>1. SocketInv => TypeOK
  BY DEF SocketInv
<1>2. QED
  BY <1>1, SocketInvariant, PTL

(* For any number of connections, add_socket always finds its entry free   *)
(* and free_socket frees only the entry of its own session, although the   *)
(* kernel gives descriptors out again at once.                             *)
THEOREM SocketEntries == Spec => []EntryPerSession
<1>1. SocketInv => EntryPerSession
  BY DEF SocketInv
<1>2. QED
  BY <1>1, SocketInvariant, PTL

(* socks_used counts the sessions, so free_socket_context never frees the  *)
(* array under one.                                                        *)
THEOREM SocketCount == Spec => []SocksUsedCounts
<1>1. SocketInv => SocksUsedCounts
  BY DEF SocketInv
<1>2. QED
  BY <1>1, SocketInvariant, PTL

(* get_sock_key never returns NULL to process_client, so no session ends   *)
(* with its descriptor left open.                                          *)
THEOREM SocketNoneLeaked == Spec => []NoneLeaked
<1>1. SocketInv => NoneLeaked
  BY DEF SocketInv
<1>2. QED
  BY <1>1, SocketInvariant, PTL
=============================================================================
