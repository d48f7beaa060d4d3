-------------------------- MODULE Processes_proofs --------------------------
(***************************************************************************)
(* Proofs about the runs of the two programs: the relay's process          *)
(* (RelayProcess), for every number of sessions, descriptors and streams   *)
(* and every size of the stream table, and the client's process            *)
(* (ClientProcess), for every number of relays and all arguments.          *)
(***************************************************************************)
EXTENDS RelayProcess, ClientProcess, HashMap_proofs, SequenceTheorems

(* The relay's process. *)
Numbers == Fds \cup {-1}
Files == [Fds -> [owner : Circuits \cup {Main}, what : Whats]]
SessionType == [at : Places, last_fd : Numbers, next_fd : Numbers, epoll_fd : Numbers,
                map : Tables(Fds \cup {NoValue})]

(* Every descriptor a session has opened is known to it, or is one of      *)
(* those it forgets. *)
Accounted(c, files, s) ==
    \A f \in Fds : files[f].owner = c =>
        \/ files[f].what \in {"epoll", "refused"}
        \/ files[f].what = "last" /\ f = s.last_fd /\ s.at # "tls failed"
        \/ files[f].what = "next" /\ f = s.next_fd
        \/ files[f].what = "server" /\ f \in Sockets(s.map)

Opener(c, files, fd, what) == fd # -1 => files[fd] = File(c, what)

(* Every number a session holds is its own, but for a table that was freed *)
(* once already, and the table has each number once: closing one of two    *)
(* equal numbers would leave the other dangling.                           *)
Owned(c, files, s) ==
    /\ Opener(c, files, s.next_fd, "next")
    /\ Opener(c, files, s.epoll_fd, "epoll")
    /\ s.at # "tls failed" => Opener(c, files, s.last_fd, "last")
    /\ s.at # "exit freeing" => \A fd \in Sockets(s.map) : Opener(c, files, fd, "server")
    /\ \A i, j \in Slots :
          s.map[i].entry_type = FILLED /\ s.map[j].entry_type = FILLED
          /\ s.map[i].value = s.map[j].value => i = j

(* What holds of one session: where its thread is says which numbers it    *)
(* can have. *)
SessionOK(c, files, s, twice) ==
    /\ s \in SessionType
    /\ Sockets(s.map) \subseteq Fds
    /\ s.at \notin {"exit", "exit freeing"} => Sockets(s.map) = {}
    /\ s.at \in Ended \cup {"away", "backlog"} => s.last_fd = -1
    /\ s.at \in Ended \cup {"away", "backlog", "tls", "tls failed", "create", "first"} =>
          s.next_fd = -1 /\ s.epoll_fd = -1
    /\ s.at # "abandoned" => Accounted(c, files, s)
    /\ ~twice => Owned(c, files, s)

(* The main thread has its connection while it signs out.  After that the  *)
(* number may be its connection's still, nobody's, or another's.           *)
MainOK(files, twice) ==
    /\ main \in {"running", "signing out", "closing", "signed out", "exiting", "gone"}
    /\ sock_fd \in Numbers
    /\ main \notin {"signing out", "closing"} => sock_fd = -1
    /\ main = "signing out" => sock_fd \in Fds
    /\ main = "signing out" /\ ~twice => files[sock_fd] = File(Main, "directory")

(* The inductive invariant. *)
RelayInv ==
    /\ MainOK(file, closedOthers)
    /\ file \in Files
    /\ session \in [Circuits -> SessionType]
    /\ closedOthers \in BOOLEAN
    /\ \A c \in Circuits : SessionOK(c, file, session[c], closedOthers)

(* What a thread may do to the descriptors: close its own, or any at all   *)
(* once a second close has hit another's, and open what was not in use.    *)
Changed(c, files, new, twice) ==
    \A f \in Fds : \/ new[f] = files[f]
                   \/ /\ twice \/ files[f] = Unused \/ files[f].owner = c
                      /\ new[f] = Unused \/ new[f].owner = c

(* What a step of the thread of c must do to keep the invariant. *)
StepOK(c) ==
    /\ session' = [session EXCEPT ![c] = session'[c]]
    /\ file' \in Files
    /\ UNCHANGED mainVars
    /\ closedOthers' \in BOOLEAN
    /\ closedOthers => closedOthers'
    /\ Changed(c, file, file', closedOthers')
    /\ SessionOK(c, file', session'[c], closedOthers')

-----------------------------------------------------------------------------
(* The code uses -1 for no descriptor; it is none. *)
LEMMA FdsAreNat == Fds \subseteq Nat /\ -1 \notin Fds
BY RelayProcessAssumption DEF Fds

(* socket, accept and epoll_create1 return a number that is not in use. *)
LEMMA NewFdIsFree ==
  NewFd \in Numbers /\ (NewFd # -1 => NewFd \in Fds /\ file[NewFd] = Unused)
<1>1. CASE FreeFds = {}
  BY <1>1, FdsAreNat DEF NewFd, Numbers
<1>2. CASE FreeFds # {}
  <2>1. FreeFds \in SUBSET Nat
    BY FdsAreNat DEF FreeFds
  <2>2. PICK f \in FreeFds : \A g \in FreeFds : f <= g
    BY <1>2, <2>1, NatLeast
  <2>3. NewFd \in FreeFds
    BY <1>2, <2>2 DEF NewFd
  <2>4. QED
    BY <2>3 DEF FreeFds, Numbers
<1>3. QED
  BY <1>1, <1>2

(* A number that is not in use belongs to no session. *)
LEMMA UnusedIsMains ==
  /\ Unused.owner = Main /\ Unused.what = "unused"
  /\ \A c \in Circuits : c # Main
BY RelayProcessAssumption DEF Unused, File

(* close leaves a table of descriptors ... *)
LEMMA ClosedType ==
  ASSUME NEW files \in Files, NEW fds
  PROVE  Closed(files, fds) \in Files
BY DEF Closed, Files, Unused, File, Whats

(* ... and so does opening one. *)
LEMMA OpenedType ==
  ASSUME NEW files \in Files, NEW fd, NEW c \in Circuits, NEW what \in Whats
  PROVE  Opened(files, fd, c, what) \in Files
BY DEF Opened, Files, File

(* The sockets of a table after insert and remove. *)
LEMMA SocketsInsert ==
  ASSUME NEW V, NEW map \in Tables(V), NEW id \in Nat, NEW v \in V, Insertable(map, id)
  PROVE  Sockets(Insert(map, id, v)) = Sockets(map) \cup {v}
<1>1. LET s == InsertSlot(map, id)
      IN  /\ Insert(map, id, v)[s] = Entry(FILLED, id, v)
          /\ \A i \in Slots \ {s} : Insert(map, id, v)[i] = map[i]
          /\ s \in Slots /\ map[s].entry_type # FILLED
  BY InsertEffect, InsertSlotIsFree
<1>2. QED
  BY <1>1 DEF Sockets, Entry

(* What the table no longer holds after remove is at most the one socket   *)
(* it found.                                                               *)
LEMMA SocketsRemove ==
  ASSUME NEW V, NoValue \in V, NEW map \in Tables(V), NEW id \in Nat, Found(map, id)
  PROVE  /\ Sockets(map) = Sockets(Remove(map, id)) \cup {FoundValue(map, id)}
         /\ \A i \in Slots : Remove(map, id)[i].entry_type = FILLED =>
               Remove(map, id)[i] = map[i] /\ i # FoundSlot(map, id)
<1>1. LET s == FoundSlot(map, id)
      IN  /\ Remove(map, id)[s] = Entry(DELETED, 0, NoValue)
          /\ \A i \in Slots \ {s} : Remove(map, id)[i] = map[i]
          /\ s \in Slots /\ map[s].entry_type = FILLED
  BY RemoveEffect, FoundHolds DEF Holds
<1>2. \A i \in Slots : Remove(map, id)[i].entry_type = FILLED =>
         Remove(map, id)[i] = map[i] /\ i # FoundSlot(map, id)
  BY <1>1, TypesDiffer DEF Entry
<1>3. \A i \in Slots : map[i].entry_type = FILLED /\ i # FoundSlot(map, id) =>
         Remove(map, id)[i] = map[i]
  BY <1>1
<1>4. QED
  BY <1>1, <1>2, <1>3 DEF Sockets, FoundValue

(* A session that ended knows no numbers and leaves what it left. *)
LEMMA NoSessionOK ==
  ASSUME NEW c \in Circuits, NEW files \in Files, NEW twice \in BOOLEAN,
         NEW place \in Ended \cup {"away"},
         place # "abandoned" => \A f \in Fds : files[f].owner = c =>
                                   files[f].what \in {"epoll", "refused"}
  PROVE  SessionOK(c, files, [NoSession EXCEPT !.at = place], twice)
<1> DEFINE s == [NoSession EXCEPT !.at = place]
<1>1. EmptyMap \in Tables(Fds \cup {NoValue}) /\ \A i \in Slots : EmptyMap[i].entry_type # FILLED
  BY EmptyMapConsistent
<1>2. s = [at |-> place, last_fd |-> -1, next_fd |-> -1, epoll_fd |-> -1, map |-> EmptyMap]
  BY DEF NoSession
<1>3. s \in SessionType
  BY <1>1, <1>2 DEF SessionType, Places, Numbers, Ended
<1>4. Sockets(s.map) = {}
  BY <1>1, <1>2 DEF Sockets
<1>5. Accounted(c, files, s) \/ place = "abandoned"
  BY DEF Accounted
<1>6. \A i \in Slots : s.map[i].entry_type # FILLED
  BY <1>1, <1>2
<1>7. Owned(c, files, s)
  BY <1>2, <1>4, <1>6 DEF Owned, Opener
<1> HIDE DEF s
<1>8. s.at = place /\ s.last_fd = -1 /\ s.next_fd = -1 /\ s.epoll_fd = -1
  BY <1>2
<1>9. SessionOK(c, files, s, twice)
  BY <1>3, <1>4, <1>5, <1>7, <1>8 DEF SessionOK
<1>10. QED
  BY <1>9 DEF s

(* What a thread does to the descriptors does not disturb another session. *)
LEMMA OthersKeep ==
  ASSUME NEW c \in Circuits \cup {Main}, NEW d \in Circuits \ {c},
         NEW files \in Files, NEW new \in Files,
         NEW s, NEW twice \in BOOLEAN, NEW twice2 \in BOOLEAN, twice => twice2,
         SessionOK(d, files, s, twice), Changed(c, files, new, twice2)
  PROVE  SessionOK(d, new, s, twice2)
<1>1. \A f \in Fds : new[f].owner = d => new[f] = files[f]
  BY UnusedIsMains DEF Changed
<1>2. Accounted(d, files, s) => Accounted(d, new, s)
  BY <1>1 DEF Accounted
<1>3. ASSUME ~twice2, NEW f \in Fds, files[f].owner = d
      PROVE  new[f] = files[f]
  BY <1>3, UnusedIsMains DEF Changed
<1>4. ASSUME ~twice2 PROVE Owned(d, new, s)
  <2>1. Owned(d, files, s)
    BY <1>4 DEF SessionOK
  <2>2. ASSUME NEW fd \in Numbers, NEW what, Opener(d, files, fd, what)
        PROVE  Opener(d, new, fd, what)
    BY <1>3, <1>4, <2>2 DEF Opener, Numbers, File
  <2>3. s.last_fd \in Numbers /\ s.next_fd \in Numbers /\ s.epoll_fd \in Numbers
    BY DEF SessionOK, SessionType
  <2>4. Sockets(s.map) \subseteq Numbers
    BY DEF SessionOK, Numbers
  <2>5. QED
    BY <2>1, <2>2, <2>3, <2>4 DEF Owned
<1>5. QED
  BY <1>2, <1>4 DEF SessionOK

(* A step of one thread that does what it must keeps the invariant for all *)
(* of them.                                                                *)
LEMMA StepKeeps ==
  ASSUME RelayInv, NEW c \in Circuits, StepOK(c)
  PROVE  RelayInv'
<1>1. session'[c] \in SessionType
  BY DEF StepOK, SessionOK
<1>2. session' \in [Circuits -> SessionType] /\ \A d \in Circuits \ {c} : session'[d] = session[d]
  BY <1>1 DEF StepOK, RelayInv
<1>3. ASSUME NEW d \in Circuits \ {c}
      PROVE  SessionOK(d, file', session'[d], closedOthers')
  BY <1>2, <1>3, OthersKeep DEF RelayInv, StepOK
<1>4. MainOK(file, closedOthers)'
  <2>1. ASSUME main = "signing out", ~closedOthers' PROVE file'[sock_fd] = File(Main, "directory")
    <3>1. sock_fd \in Fds /\ file[sock_fd] = File(Main, "directory")
      BY <2>1 DEF RelayInv, MainOK, StepOK
    <3>2. file[sock_fd] # Unused /\ file[sock_fd].owner # c
      BY <3>1, UnusedIsMains DEF File
    <3>3. QED
      BY <2>1, <3>1, <3>2 DEF StepOK, Changed
  <2>2. main' = main /\ sock_fd' = sock_fd
    BY DEF StepOK, mainVars
  <2>3. QED
    BY <2>1, <2>2 DEF RelayInv, MainOK
<1>5. QED
  BY <1>2, <1>3, <1>4 DEF RelayInv, StepOK

(* A handler that closes and opens several descriptors does each in turn. *)
LEMMA ChangesCompose ==
  ASSUME NEW c, NEW files, NEW mid, NEW new, NEW twice,
         Changed(c, files, mid, twice), Changed(c, mid, new, twice)
  PROVE  Changed(c, files, new, twice)
BY DEF Changed

(* Closing the numbers a session holds changes nothing of others ... *)
LEMMA CloseChanges ==
  ASSUME NEW c \in Circuits, NEW files \in Files, NEW fds, NEW twice,
         \A fd \in fds : twice \/ Opener(c, files, fd, "last") \/ Opener(c, files, fd, "next")
                               \/ Opener(c, files, fd, "epoll") \/ Opener(c, files, fd, "server")
  PROVE  Changed(c, files, Closed(files, fds), twice)
BY FdsAreNat DEF Changed, Closed, Opener, File

(* ... and neither does opening: what is opened was not in use. *)
LEMMA OpenChanges ==
  ASSUME NEW c \in Circuits, NEW fd \in {NewFd, -1}, NEW what, NEW twice
  PROVE  Changed(c, file, Opened(file, fd, c, what), twice)
BY NewFdIsFree, FdsAreNat DEF Changed, Opened, File

(* A thread that ends, with or without freeing its session. *)
LEMMA EndStep ==
  ASSUME RelayInv, NEW c \in Circuits, NEW place \in Ended, Ends(c, place),
         file' \in Files, Changed(c, file, file', closedOthers), UNCHANGED <<mainVars, closedOthers>>,
         place # "abandoned" => \A f \in Fds : file'[f].owner = c =>
                                   file'[f].what \in {"epoll", "refused"}
  PROVE  StepOK(c)
<1>1. SessionOK(c, file', [NoSession EXCEPT !.at = place], closedOthers)
  BY NoSessionOK DEF RelayInv
<1>2. /\ session' = [session EXCEPT ![c] = [NoSession EXCEPT !.at = place]]
      /\ session'[c] = [NoSession EXCEPT !.at = place]
  BY DEF Ends, RelayInv
<1>3. QED
  BY <1>1, <1>2 DEF StepOK, RelayInv

(* client_callback's end. *)
LEMMA CallbackStep ==
  ASSUME RelayInv, NEW c \in Circuits, NEW files \in Files, NEW s, NEW error \in BOOLEAN,
         CallbackEnds(c, files, s, error), UNCHANGED <<mainVars, closedOthers>>,
         Changed(c, file, files, closedOthers),
         error \/ /\ closedOthers \/ Opener(c, files, s.last_fd, "last")
                  /\ closedOthers \/ Opener(c, files, s.next_fd, "next")
                  /\ Accounted(c, files, s)
                  /\ \A f \in Fds : files[f].owner = c => files[f].what # "server"
  PROVE  StepOK(c)
<1>1. CASE error
  <2>1. file' = files /\ Ends(c, "abandoned")
    BY <1>1 DEF CallbackEnds
  <2>2. QED
    BY <2>1, EndStep DEF Ended
<1>2. CASE ~error
  <2>1. file' = Closed(files, {s.last_fd, s.next_fd}) /\ Ends(c, "freed")
    BY <1>2 DEF CallbackEnds, FreeSession
  <2>2. file' \in Files
    BY <2>1, ClosedType
  <2>3. Changed(c, files, file', closedOthers)
    BY <1>2, <2>1, CloseChanges
  <2>4. ASSUME NEW f \in Fds, file'[f].owner = c
        PROVE  file'[f].what \in {"epoll", "refused"}
    BY <1>2, <2>1, <2>4, UnusedIsMains DEF Closed, Accounted
  <2>5. QED
    BY <2>1, <2>2, <2>3, <2>4, EndStep, ChangesCompose DEF Ended
<1>3. QED
  BY <1>1, <1>2

(* A step that opens and closes nothing and moves the thread on. *)
LEMMA MoveStep ==
  ASSUME RelayInv, NEW c \in Circuits, NEW place \in Places,
         Goes(c, session[c], place), UNCHANGED <<mainVars, file, closedOthers>>,
         place \notin Ended \cup {"away", "tls failed", "exit freeing"},
         session[c].at \notin {"tls failed", "exit freeing", "abandoned"},
         place = "backlog" => session[c].at = "away",
         place \in {"tls", "create", "first"} =>
            session[c].at \in {"tls", "create", "first"},
         place # "exit" => session[c].at \notin {"exit", "exit freeing"}
  PROVE  StepOK(c)
<1> DEFINE s == session[c]
           t == [s EXCEPT !.at = place]
<1>1. s \in SessionType /\ SessionOK(c, file, s, closedOthers)
  BY DEF RelayInv
<1>2. session' = [session EXCEPT ![c] = t] /\ session'[c] = t
  BY DEF Goes, RelayInv
<1>3. /\ t \in SessionType /\ t.at = place /\ t.map = s.map
      /\ t.last_fd = s.last_fd /\ t.next_fd = s.next_fd /\ t.epoll_fd = s.epoll_fd
  BY <1>1 DEF SessionType
<1> HIDE DEF s, t
<1>4. Accounted(c, file, s) /\ (~closedOthers => Owned(c, file, s))
  BY <1>1 DEF SessionOK, s
<1>5. Accounted(c, file, t)
  BY <1>3, <1>4 DEF Accounted
<1>6. ~closedOthers => Owned(c, file, t)
  BY <1>3, <1>4 DEF Owned, s
<1>7. SessionOK(c, file, t, closedOthers)
  BY <1>1, <1>3, <1>5, <1>6 DEF SessionOK, s, Ended
<1>8. QED
  BY <1>2, <1>7 DEF StepOK, RelayInv, Changed

(* A step that changes the session to t. *)
LEMMA GoStep ==
  ASSUME RelayInv, NEW c \in Circuits, NEW t, session' = [session EXCEPT ![c] = t],
         file' \in Files, UNCHANGED <<mainVars, closedOthers>>,
         Changed(c, file, file', closedOthers), SessionOK(c, file', t, closedOthers)
  PROVE  StepOK(c)
BY DEF StepOK, RelayInv

(* A descriptor was opened as one thing. *)
LEMMA OneOpener ==
  ASSUME NEW c, NEW files, NEW fd, fd # -1, NEW what, NEW other,
         Opener(c, files, fd, what), Opener(c, files, fd, other)
  PROVE  what = other
<1>1. File(c, what).what = what /\ File(c, other).what = other
  BY DEF File
<1>2. QED
  BY <1>1 DEF Opener

(* What a session holds is not what a call returns as new. *)
LEMMA OpenKeeps ==
  ASSUME NEW c \in Circuits, NEW fd \in {NewFd, -1}, NEW what, NEW x, NEW w, x \in Numbers,
         Opener(c, file, x, w)
  PROVE  Opener(c, Opened(file, fd, c, what), x, w)
BY NewFdIsFree, FdsAreNat, UnusedIsMains DEF Opener, Opened, File, Numbers

-----------------------------------------------------------------------------
(* accept_clients accepts a connection and starts its thread. *)
LEMMA AcceptsStep == ASSUME RelayInv, NEW c \in Circuits, Accepts(c) PROVE StepOK(c)
<1> DEFINE s == session[c]
           t == [s EXCEPT !.last_fd = NewFd, !.at = "tls"]
<1>1. s \in SessionType /\ SessionOK(c, file, s, closedOthers) /\ s.at = "backlog"
  BY DEF RelayInv, Accepts, At
<1>2. NewFd # -1 /\ NewFd \in Fds /\ file[NewFd] = Unused
  BY NewFdIsFree DEF Accepts
<1>3. file' = Opened(file, NewFd, c, "last") /\ UNCHANGED <<mainVars, closedOthers>>
  BY DEF Accepts
<1>4. session' = [session EXCEPT ![c] = t]
  BY <1>1 DEF Accepts, Goes, SessionType
<1>5. file' \in Files
  BY <1>3, OpenedType DEF RelayInv, Whats
<1>6. Changed(c, file, file', closedOthers)
  BY <1>3, OpenChanges
<1>7. /\ t \in SessionType /\ t.at = "tls" /\ t.map = s.map /\ t.last_fd = NewFd
      /\ t.next_fd = -1 /\ t.epoll_fd = -1 /\ s.last_fd = -1 /\ s.next_fd = -1
      /\ Sockets(s.map) = {}
  BY <1>1, <1>2 DEF SessionType, SessionOK, Places, Numbers
<1> HIDE DEF s, t
<1>8. Accounted(c, file', t)
  BY <1>1, <1>2, <1>3, <1>7, FdsAreNat DEF SessionOK, Accounted, Opened, File
<1>9. ~closedOthers => Owned(c, file', t)
  BY <1>1, <1>2, <1>3, <1>7 DEF SessionOK, Owned, Opener, Opened
<1>10. SessionOK(c, file', t, closedOthers)
  BY <1>7, <1>8, <1>9 DEF SessionOK, Ended
<1>11. QED
  BY <1>3, <1>4, <1>5, <1>6, <1>10, GoStep

(* pthread_create fails and the connection is closed again. *)
LEMMA AcceptsNoThreadStep == ASSUME RelayInv, NEW c \in Circuits, AcceptsNoThread(c) PROVE StepOK(c)
<1> DEFINE s == session[c]
<1>1. s \in SessionType /\ SessionOK(c, file, s, closedOthers) /\ s.at = "backlog"
  BY DEF RelayInv, AcceptsNoThread, At
<1>2. \A f \in Fds : file[f].owner = c => file[f].what \in {"epoll", "refused"}
  BY <1>1, FdsAreNat DEF SessionOK, Accounted
<1>3. file' = file /\ file' \in Files /\ Changed(c, file, file', closedOthers)
  BY DEF AcceptsNoThread, RelayInv, Changed
<1>4. QED
  BY <1>2, <1>3, EndStep DEF AcceptsNoThread, Ended

(* handle_tls_recviever closes last_fd and keeps its number ... *)
LEMMA TlsFailsStep == ASSUME RelayInv, NEW c \in Circuits, TlsFails(c) PROVE StepOK(c)
<1> DEFINE s == session[c]
           t == [s EXCEPT !.at = "tls failed"]
<1>1. s \in SessionType /\ SessionOK(c, file, s, closedOthers) /\ s.at = "tls"
  BY DEF RelayInv, TlsFails, At
<1>2. file' = Closed(file, {s.last_fd}) /\ UNCHANGED <<mainVars, closedOthers>>
  BY DEF TlsFails
<1>3. session' = [session EXCEPT ![c] = t]
  BY DEF TlsFails, Goes
<1>4. file' \in Files
  BY <1>2, ClosedType DEF RelayInv
<1>5. closedOthers \/ Opener(c, file, s.last_fd, "last")
  BY <1>1 DEF SessionOK, Owned
<1>6. Changed(c, file, file', closedOthers)
  BY <1>2, <1>5, CloseChanges DEF RelayInv
<1>7. /\ t \in SessionType /\ t.at = "tls failed" /\ t.map = s.map /\ t.last_fd = s.last_fd
      /\ t.next_fd = -1 /\ t.epoll_fd = -1 /\ s.next_fd = -1
      /\ Sockets(s.map) = {}
  BY <1>1 DEF SessionType, SessionOK, Places, Ended
<1> HIDE DEF s, t
<1>8. Accounted(c, file', t)
  BY <1>1, <1>2, <1>7, FdsAreNat, UnusedIsMains DEF SessionOK, Accounted, Closed
<1>9. ~closedOthers => Owned(c, file', t)
  BY <1>1, <1>7 DEF SessionOK, Owned, Opener
<1>10. SessionOK(c, file', t, closedOthers)
  BY <1>7, <1>8, <1>9 DEF SessionOK, Ended
<1>11. QED
  BY <1>2, <1>3, <1>4, <1>6, <1>10, GoStep

(* ... which client_callback then forgets, before it frees the session. *)
LEMMA TlsFailedStep == ASSUME RelayInv, NEW c \in Circuits, TlsFailed(c) PROVE StepOK(c)
<1> DEFINE s == session[c]
           t == [s EXCEPT !.last_fd = -1]
<1>1. s \in SessionType /\ SessionOK(c, file, s, closedOthers) /\ s.at = "tls failed"
  BY DEF RelayInv, TlsFailed, At
<1>2. t.last_fd = -1 /\ t.next_fd = s.next_fd /\ s.next_fd = -1 /\ Sockets(s.map) = {}
  BY <1>1 DEF SessionType, SessionOK
<1>3. file' = Closed(file, {-1}) /\ Ends(c, "freed") /\ UNCHANGED <<mainVars, closedOthers>>
  BY <1>2 DEF TlsFailed, FreeSession
<1>4. file' = file /\ file \in Files
  BY <1>3, FdsAreNat DEF RelayInv, Files, Closed
<1>5. \A f \in Fds : file[f].owner = c => file[f].what \in {"epoll", "refused"}
  BY <1>1, <1>2, FdsAreNat DEF SessionOK, Accounted
<1>6. Changed(c, file, file', closedOthers)
  BY <1>4 DEF Changed
<1>7. QED
  BY <1>3, <1>4, <1>5, <1>6, EndStep DEF Ended

(* The previous node is gone before its first message. *)
LEMMA FirstLostStep == ASSUME RelayInv, NEW c \in Circuits, FirstLost(c) PROVE StepOK(c)
<1> DEFINE s == session[c]
<1>1. s \in SessionType /\ SessionOK(c, file, s, closedOthers) /\ s.at = "first"
  BY DEF RelayInv, FirstLost, At
<1>2. Accounted(c, file, s) /\ (~closedOthers => Owned(c, file, s)) /\ Sockets(s.map) = {}
  BY <1>1 DEF SessionOK
<1>3. \A f \in Fds : file[f].owner = c => file[f].what # "server"
  BY <1>2 DEF Accounted
<1>4. closedOthers \/ (Opener(c, file, s.last_fd, "last") /\ Opener(c, file, s.next_fd, "next"))
  BY <1>1, <1>2 DEF Owned
<1>5. CallbackEnds(c, file, s, FALSE) /\ UNCHANGED <<mainVars, closedOthers>>
  BY DEF FirstLost
<1>6. file \in Files /\ Changed(c, file, file, closedOthers)
  BY DEF RelayInv, Changed
<1> HIDE DEF s
<1>7. QED
  BY <1>2, <1>3, <1>4, <1>5, <1>6, CallbackStep

(* A session that ends with an error and leaves everything open ... *)
LEMMA FailStep ==
  ASSUME RelayInv, NEW c \in Circuits, UNCHANGED <<mainVars, closedOthers>>,
         CallbackEnds(c, file, session[c], TRUE)
  PROVE  StepOK(c)
<1>1. file \in Files /\ Changed(c, file, file, closedOthers)
  BY DEF RelayInv, Changed
<1>2. QED
  BY <1>1, CallbackStep

(* ... or has closed descriptors of its own. *)
LEMMA CloseFailStep ==
  ASSUME RelayInv, NEW c \in Circuits, NEW fds, UNCHANGED <<mainVars, closedOthers>>,
         CallbackEnds(c, Closed(file, fds), session[c], TRUE),
         \A fd \in fds : closedOthers \/ Opener(c, file, fd, "next") \/ Opener(c, file, fd, "epoll")
                         \/ Opener(c, file, fd, "server")
  PROVE  StepOK(c)
<1>1. file \in Files
  BY DEF RelayInv
<1>2. Closed(file, fds) \in Files /\ Changed(c, file, Closed(file, fds), closedOthers)
  BY <1>1, ClosedType, CloseChanges
<1>3. QED
  BY <1>2, CallbackStep

(* A relay connects to the next one, which answers, or the attempt fails   *)
(* at some point.                                                          *)
LEMMA ExtendStep ==
  ASSUME RelayInv, NEW c \in Circuits,
         ExtendConnects(c) \/ ExtendTlsFails(c) \/ ExtendFails(c)
  PROVE  StepOK(c)
<1> DEFINE s == session[c]
<1>1. s \in SessionType /\ SessionOK(c, file, s, closedOthers)
  BY DEF RelayInv
<1>2. ASSUME ExtendConnects(c) PROVE StepOK(c)
  <2>1. PICK fd \in {NewFd, -1} : /\ file' = Opened(file, fd, c, "next")
                                  /\ Goes(c, [s EXCEPT !.next_fd = fd], "extend")
    BY <1>2 DEF ExtendConnects
  <2> DEFINE t == [s EXCEPT !.next_fd = fd, !.at = "extend"]
  <2>2. s.at = "first" /\ UNCHANGED <<mainVars, closedOthers>>
    BY <1>2 DEF ExtendConnects, At
  <2>3. session' = [session EXCEPT ![c] = t]
    BY <1>1, <2>1 DEF Goes, SessionType
  <2>4. file' \in Files /\ Changed(c, file, file', closedOthers)
    BY <2>1, OpenedType, OpenChanges DEF RelayInv, Whats
  <2>5. fd \in Numbers /\ (fd # -1 => fd \in Fds /\ file[fd] = Unused)
    BY NewFdIsFree DEF Numbers
  <2>6. /\ t \in SessionType /\ t.at = "extend" /\ t.map = s.map /\ t.last_fd = s.last_fd
        /\ t.next_fd = fd /\ t.epoll_fd = -1 /\ s.next_fd = -1
        /\ Sockets(s.map) = {}
    BY <1>1, <2>2, <2>5 DEF SessionType, SessionOK, Places
  <2>7. s.last_fd \in Numbers
    BY <1>1 DEF SessionType
  <2> HIDE DEF s, t
  <2>8. Accounted(c, file', t)
    BY <1>1, <2>1, <2>2, <2>5, <2>6, FdsAreNat DEF SessionOK, Accounted, Opened, File
  <2>9. ~closedOthers => Owned(c, file', t)
    <3>1. Opener(c, file', fd, "next")
      BY <2>1, <2>5 DEF Opener, Opened
    <3>2. ~closedOthers => Opener(c, file', s.last_fd, "last")
      BY <1>1, <2>1, <2>2, <2>7, OpenKeeps DEF SessionOK, Owned
    <3>3. Opener(c, file', -1, "epoll")
      BY DEF Opener
    <3>4. QED
      BY <1>1, <2>6, <3>1, <3>2, <3>3 DEF SessionOK, Owned
  <2>10. SessionOK(c, file', t, closedOthers)
    BY <2>6, <2>8, <2>9 DEF SessionOK, Ended
  <2>11. QED
    BY <2>2, <2>3, <2>4, <2>10, GoStep
<1>3. ASSUME ExtendTlsFails(c) PROVE StepOK(c)
  <2> DEFINE fds == {s.next_fd}
  <2>1. \A fd \in fds : closedOthers \/ Opener(c, file, fd, "next")
    BY <1>1 DEF SessionOK, Owned
  <2>2. CallbackEnds(c, Closed(file, fds), s, TRUE) /\ UNCHANGED <<mainVars, closedOthers>>
    BY <1>3 DEF ExtendTlsFails
  <2> HIDE DEF fds
  <2>3. QED
    BY <2>1, <2>2, CloseFailStep
<1>4. ASSUME ExtendFails(c) PROVE StepOK(c)
  BY <1>4, FailStep DEF ExtendFails
<1>5. QED
  BY <1>2, <1>3, <1>4

(* A relay makes its epoll set and goes on as a middle relay or as the     *)
(* exit.                                                                   *)
LEMMA EpollStep ==
  ASSUME RelayInv, NEW c \in Circuits, NEW place,
         \/ place = "middle" /\ session[c].at = "extend"
         \/ place = "exit first" /\ session[c].at = "first",
         file' = Opened(file, NewFd, c, "epoll"), UNCHANGED <<mainVars, closedOthers>>,
         Goes(c, [session[c] EXCEPT !.epoll_fd = NewFd], place)
  PROVE  StepOK(c)
<1> DEFINE s == session[c]
           t == [s EXCEPT !.epoll_fd = NewFd, !.at = place]
<1>1. s \in SessionType /\ SessionOK(c, file, s, closedOthers)
  BY DEF RelayInv
<1>2. session' = [session EXCEPT ![c] = t]
  BY <1>1 DEF Goes, SessionType
<1>3. file' \in Files /\ Changed(c, file, file', closedOthers)
  BY OpenedType, OpenChanges DEF RelayInv, Whats
<1>4. NewFd \in Numbers /\ (NewFd # -1 => NewFd \in Fds /\ file[NewFd] = Unused)
  BY NewFdIsFree
<1>5. /\ t \in SessionType /\ t.at = place /\ t.map = s.map /\ t.last_fd = s.last_fd
      /\ t.next_fd = s.next_fd /\ t.epoll_fd = NewFd
      /\ Sockets(s.map) = {}
      /\ s.last_fd \in Numbers /\ s.next_fd \in Numbers
      /\ s.at \in {"extend", "first"}
  BY <1>1, <1>4 DEF SessionType, SessionOK, Places
<1> HIDE DEF s, t
<1>6. Accounted(c, file', t)
  BY <1>1, <1>5, FdsAreNat DEF SessionOK, Accounted, Opened, File
<1>7. ~closedOthers => Owned(c, file', t)
  <2>1. Opener(c, file', NewFd, "epoll")
    BY <1>4 DEF Opener, Opened
  <2>2. ~closedOthers => Opener(c, file', s.last_fd, "last") /\ Opener(c, file', s.next_fd, "next")
    BY <1>1, <1>5, OpenKeeps DEF SessionOK, Owned
  <2>3. QED
    BY <1>1, <1>5, <2>1, <2>2 DEF SessionOK, Owned
<1>8. SessionOK(c, file', t, closedOthers)
  BY <1>5, <1>6, <1>7 DEF SessionOK, Ended
<1>9. QED
  BY <1>2, <1>3, <1>8, GoStep

(* The loop of a middle relay starts, and ends in one of its ways. *)
LEMMA MiddleStep ==
  ASSUME RelayInv, NEW c \in Circuits,
         MiddleStarts(c) \/ MiddleEnds(c) \/ MiddleWaitFails(c)
  PROVE  StepOK(c)
<1> DEFINE s == session[c]
<1>1. s \in SessionType /\ SessionOK(c, file, s, closedOthers)
  BY DEF RelayInv
<1>2. ASSUME MiddleStarts(c) PROVE StepOK(c)
  <2>1. s.at = "extend" /\ UNCHANGED <<mainVars, closedOthers>>
    BY <1>2 DEF MiddleStarts, At
  <2>2. CASE /\ file' = Opened(file, NewFd, c, "epoll")
             /\ Goes(c, [s EXCEPT !.epoll_fd = NewFd], "middle")
    BY <2>1, <2>2, EpollStep
  <2>3. CASE CallbackEnds(c, file, s, TRUE)
    BY <2>1, <2>3, FailStep
  <2>4. QED
    BY <1>2, <2>2, <2>3 DEF MiddleStarts
<1>3. ASSUME MiddleEnds(c) PROVE StepOK(c)
  <2>1. PICK error \in BOOLEAN : CallbackEnds(c, file, s, error)
    BY <1>3 DEF MiddleEnds
  <2>2. s.at = "middle" /\ UNCHANGED <<mainVars, closedOthers>>
    BY <1>3 DEF MiddleEnds, At
  <2>3. Accounted(c, file, s) /\ (~closedOthers => Owned(c, file, s)) /\ Sockets(s.map) = {}
    BY <1>1, <2>2 DEF SessionOK
  <2>4. \A f \in Fds : file[f].owner = c => file[f].what # "server"
    BY <2>3 DEF Accounted
  <2>5. closedOthers \/ (Opener(c, file, s.last_fd, "last") /\ Opener(c, file, s.next_fd, "next"))
    BY <2>2, <2>3 DEF Owned
  <2>6. file \in Files /\ Changed(c, file, file, closedOthers)
    BY DEF RelayInv, Changed
  <2> HIDE DEF s
  <2>7. QED
    BY <2>1, <2>2, <2>3, <2>4, <2>5, <2>6, CallbackStep
<1>4. ASSUME MiddleWaitFails(c) PROVE StepOK(c)
  <2> DEFINE fds == {s.epoll_fd}
  <2>1. \A fd \in fds : closedOthers \/ Opener(c, file, fd, "epoll")
    BY <1>1 DEF SessionOK, Owned
  <2>2. CallbackEnds(c, Closed(file, fds), s, TRUE) /\ UNCHANGED <<mainVars, closedOthers>>
    BY <1>4 DEF MiddleWaitFails
  <2> HIDE DEF fds
  <2>3. QED
    BY <2>1, <2>2, CloseFailStep
<1>5. QED
  BY <1>2, <1>3, <1>4

-----------------------------------------------------------------------------
(* The exit relay's loop, or the message before it, has opened or closed   *)
(* what it did (files) and goes on with s. *)
LEMMA AnswerStep ==
  ASSUME RelayInv, NEW c \in Circuits, NEW files \in Files, NEW s \in SessionType,
         Changed(c, file, files, closedOthers), UNCHANGED <<mainVars, closedOthers>>,
         SessionOK(c, files, [s EXCEPT !.at = "exit"], closedOthers),
         ExitAnswers(c, files, s)
  PROVE  StepOK(c)
<1> DEFINE t == [s EXCEPT !.at = "exit"]
<1>1. CASE file' = files /\ Goes(c, s, "exit")
  BY <1>1, GoStep DEF Goes
<1>2. CASE ExitEnds(c, files, s, TRUE)
  <2> DEFINE fds == {s.epoll_fd} \cup Sockets(s.map)
  <2>1. t.epoll_fd = s.epoll_fd /\ t.map = s.map /\ t.at = "exit"
    BY DEF SessionType
  <2>2. closedOthers \/ Owned(c, files, t)
    BY DEF SessionOK
  <2> HIDE DEF t
  <2>3. \A fd \in fds : closedOthers \/ Opener(c, files, fd, "epoll") \/ Opener(c, files, fd, "server")
    BY <2>1, <2>2 DEF Owned
  <2>4. Closed(files, fds) \in Files /\ Changed(c, file, Closed(files, fds), closedOthers)
    BY <2>3, ClosedType, CloseChanges, ChangesCompose
  <2>5. CASE CallbackEnds(c, Closed(files, fds), s, TRUE)
    BY <2>4, <2>5, CallbackStep
  <2>6. CASE CallbackEnds(c, files, s, TRUE)
    BY <2>6, CallbackStep
  <2>7. QED
    BY <1>2, <2>5, <2>6 DEF ExitEnds
<1>3. QED
  BY <1>1, <1>2 DEF ExitAnswers

(* Between two events the exit loop holds what it held before the first    *)
(* message.                                                                *)
LEMMA AtExit ==
  ASSUME RelayInv, NEW c \in Circuits, session[c].at \in {"exit first", "exit"}
  PROVE  /\ session[c] \in SessionType
         /\ SessionOK(c, file, [session[c] EXCEPT !.at = "exit"], closedOthers)
<1> DEFINE s == session[c]
           t == [s EXCEPT !.at = "exit"]
<1>1. s \in SessionType /\ SessionOK(c, file, s, closedOthers)
  BY DEF RelayInv
<1>2. /\ t \in SessionType /\ t.at = "exit" /\ t.map = s.map /\ t.last_fd = s.last_fd
      /\ t.next_fd = s.next_fd /\ t.epoll_fd = s.epoll_fd
  BY <1>1 DEF SessionType, Places
<1> HIDE DEF s, t
<1>3. Accounted(c, file, t)
  BY <1>1, <1>2 DEF SessionOK, Accounted, s
<1>4. ~closedOthers => Owned(c, file, t)
  BY <1>1, <1>2 DEF SessionOK, Owned, s
<1>5. SessionOK(c, file, t, closedOthers)
  BY <1>1, <1>2, <1>3, <1>4 DEF SessionOK, Ended
<1>6. QED
  BY <1>1, <1>5 DEF s, t

(* The exit loop goes on, or ends: destroyed or broken. *)
LEMMA ExitStep ==
  ASSUME RelayInv, NEW c \in Circuits,
         ExitDestroyed(c) \/ ExitForwards(c) \/ ExitBreaks(c)
  PROVE  StepOK(c)
<1> DEFINE s == session[c]
           fds == {s.epoll_fd} \cup Sockets(s.map)
<1>1. s \in SessionType /\ SessionOK(c, file, s, closedOthers) /\ UNCHANGED <<mainVars, closedOthers>>
  BY DEF RelayInv, ExitDestroyed, ExitForwards, ExitBreaks
<1>2. file \in Files /\ Changed(c, file, file, closedOthers)
  BY DEF RelayInv, Changed
<1>3. \A fd \in fds : \/ closedOthers
                      \/ Opener(c, file, fd, "epoll")
                      \/ s.at # "exit freeing" /\ Opener(c, file, fd, "server")
  <2>1. s.at # "exit freeing"
    BY DEF ExitDestroyed, ExitForwards, ExitBreaks, Handles, At
  <2>2. QED
    BY <1>1, <2>1 DEF SessionOK, Owned
<1>4. ASSUME ExitDestroyed(c) PROVE StepOK(c)
  <2> DEFINE files == IF s.at = "exit" THEN Closed(file, fds) ELSE file
  <2>1. s.at \in {"exit first", "exit"}
    BY <1>4 DEF ExitDestroyed, Handles, At
  <2>2. CallbackEnds(c, files, s, FALSE)
    BY <1>4 DEF ExitDestroyed, ExitEnds
  <2>3. files \in Files /\ Changed(c, file, files, closedOthers)
    BY <1>2, <1>3, ClosedType, CloseChanges
  <2>4. Accounted(c, file, s) /\ (~closedOthers => Owned(c, file, s))
    BY <1>1, <2>1 DEF SessionOK
  <2>5. Accounted(c, files, s)
    BY <2>4, UnusedIsMains DEF Accounted, Closed
  <2>6. \A f \in Fds : files[f].owner = c => files[f].what # "server"
    BY <1>1, <2>1, <2>4, UnusedIsMains DEF Accounted, Closed, SessionOK
  <2>7. ASSUME ~closedOthers, NEW fd \in Numbers, NEW what \in {"last", "next"},
               Opener(c, file, fd, what)
        PROVE  Opener(c, files, fd, what)
    <3> HIDE DEF fds
    <3>1. fd \notin fds \/ fd = -1
      BY <1>3, <2>7, OneOpener
    <3>2. QED
      BY <2>7, <3>1 DEF Opener, Closed, Numbers
  <2>8. closedOthers \/ (Opener(c, files, s.last_fd, "last") /\ Opener(c, files, s.next_fd, "next"))
    <3>1. s.last_fd \in Numbers /\ s.next_fd \in Numbers
      BY <1>1 DEF SessionType
    <3>2. QED
      BY <2>1, <2>4, <2>7, <3>1 DEF Owned
  <2> HIDE DEF files, s
  <2>9. QED
    BY <1>1, <2>2, <2>3, <2>5, <2>6, <2>8, CallbackStep
<1>5. ASSUME ExitForwards(c) PROVE StepOK(c)
  <2>1. s.at \in {"exit first", "exit"} /\ ExitAnswers(c, file, s)
    BY <1>5 DEF ExitForwards, Handles, At
  <2>2. QED
    BY <1>1, <1>2, <2>1, AtExit, AnswerStep
<1>6. ASSUME ExitBreaks(c) PROVE StepOK(c)
  <2>1. CallbackEnds(c, Closed(file, fds), s, TRUE)
    BY <1>6 DEF ExitBreaks, ExitEnds, At
  <2> HIDE DEF fds
  <2>2. QED
    BY <1>1, <1>3, <2>1, CloseFailStep
<1>7. QED
  BY <1>4, <1>5, <1>6

(* The loop frees a table that was freed before: what it closes is the     *)
(* thread's own or nobody's, unless a number was given out in between.     *)
LEMMA FreesAgainStep ==
  ASSUME RelayInv, NEW c \in Circuits, ExitFreesAgain(c)
  PROVE  StepOK(c)
<1> DEFINE s   == session[c]
           fds == {s.epoll_fd} \cup Sockets(s.map)
           t   == [NoSession EXCEPT !.at = "abandoned"]
<1>1. /\ SessionOK(c, file, s, closedOthers) /\ file \in Files /\ closedOthers \in BOOLEAN
      /\ session \in [Circuits -> SessionType]
  BY DEF RelayInv
<1>2. /\ file' = Closed(file, fds) /\ session' = [session EXCEPT ![c] = t]
      /\ closedOthers' = (closedOthers \/ GivenToOthers(Sockets(s.map), c)) /\ UNCHANGED mainVars
  BY DEF ExitFreesAgain, CallbackEnds, Ends
<1>3. /\ closedOthers' \in BOOLEAN /\ (closedOthers => closedOthers')
      /\ (GivenToOthers(Sockets(s.map), c) => closedOthers')
  BY <1>1, <1>2, Zenon
<1>4. closedOthers' \/ Opener(c, file, s.epoll_fd, "epoll")
  BY <1>1, <1>3 DEF SessionOK, Owned
<1> HIDE DEF s, t
<1>5. ASSUME NEW f \in Fds, f \in fds
      PROVE  closedOthers' \/ file[f] = Unused \/ file[f].owner = c
  <2>1. CASE f = s.epoll_fd
    BY <1>4, <2>1, FdsAreNat DEF Opener, File
  <2>2. CASE f \in Sockets(s.map)
    BY <1>3, <2>2 DEF GivenToOthers
  <2>3. QED
    BY <1>5, <2>1, <2>2
<1> HIDE DEF fds
<1>6. file' \in Files /\ Changed(c, file, file', closedOthers')
  <2>1. file' \in Files
    BY <1>1, <1>2, ClosedType
  <2>2. Changed(c, file, file', closedOthers')
    BY <1>2, <1>5 DEF Changed, Closed
  <2>3. QED
    BY <2>1, <2>2
<1>7. SessionOK(c, file', t, closedOthers')
  BY <1>3, <1>6, NoSessionOK DEF Ended, t
<1>8. session'[c] = t
  BY <1>1, <1>2
<1>9. QED
  BY <1>2, <1>3, <1>6, <1>7, <1>8 DEF StepOK

(* RELAY_BEGIN: a new socket goes into the table, or stays open beside it. *)
LEMMA BeginStep ==
  ASSUME RelayInv, NEW c \in Circuits, NEW id \in Nat, ExitBegins(c, id)
  PROVE  StepOK(c)
<1> DEFINE s == session[c]
           e == [s EXCEPT !.at = "exit"]
<1>1. s.at \in {"exit first", "exit"} /\ UNCHANGED <<mainVars, closedOthers>>
  BY DEF ExitBegins, Handles, At
<1>2. s \in SessionType /\ SessionOK(c, file, e, closedOthers)
  BY <1>1, AtExit
<1>3. file \in Files /\ Changed(c, file, file, closedOthers)
  BY DEF RelayInv, Changed
<1>4. /\ e \in SessionType /\ e.at = "exit" /\ e.map = s.map /\ e.last_fd = s.last_fd
      /\ e.next_fd = s.next_fd /\ e.epoll_fd = s.epoll_fd
  BY <1>2 DEF SessionType, Places
<1>5. /\ Accounted(c, file, e) /\ (~closedOthers => Owned(c, file, e))
      /\ Sockets(e.map) \subseteq Fds /\ e.map \in Tables(Fds \cup {NoValue})
      /\ e.last_fd \in Numbers /\ e.next_fd \in Numbers /\ e.epoll_fd \in Numbers
  BY <1>2, <1>4 DEF SessionOK, SessionType
<1>6. CASE ExitAnswers(c, file, s)
  BY <1>1, <1>2, <1>3, <1>6, AnswerStep
<1>7. ASSUME NewFd # -1, Insertable(s.map, id),
             ExitAnswers(c, Opened(file, NewFd, c, "server"),
                         [s EXCEPT !.map = Insert(s.map, id, NewFd)])
      PROVE  StepOK(c)
  <2> DEFINE files == Opened(file, NewFd, c, "server")
             m     == Insert(s.map, id, NewFd)
             t     == [s EXCEPT !.map = m]
             x     == [t EXCEPT !.at = "exit"]
             slot  == InsertSlot(s.map, id)
  <2>1. files \in Files /\ Changed(c, file, files, closedOthers)
    BY <1>3, OpenedType, OpenChanges DEF Whats
  <2>2. NewFd \in Fds /\ file[NewFd] = Unused
    BY <1>7, NewFdIsFree
  <2>3. /\ m \in Tables(Fds \cup {NoValue})
        /\ Sockets(m) = Sockets(s.map) \cup {NewFd}
        /\ m[slot] = Entry(FILLED, id, NewFd)
        /\ \A i \in Slots \ {slot} : m[i] = s.map[i]
    <3>1. s.map \in Tables(Fds \cup {NoValue}) /\ NewFd \in Fds \cup {NoValue}
      BY <1>4, <1>5, <2>2
    <3>2. QED
      BY <1>7, <3>1, InsertEffect, SocketsInsert
  <2> HIDE DEF m
  <2>4. /\ t \in SessionType /\ x \in SessionType /\ x.at = "exit" /\ x.map = m
        /\ x.last_fd = e.last_fd /\ x.next_fd = e.next_fd /\ x.epoll_fd = e.epoll_fd
    BY <1>2, <2>3, <1>4 DEF SessionType, Places
  <2> HIDE DEF s, e, t, x
  <2>5. files[NewFd] = File(c, "server") /\ \A f \in Fds \ {NewFd} : files[f] = file[f]
    BY <2>2 DEF Opened
  <2>6. Accounted(c, files, x)
    BY <1>4, <1>5, <2>3, <2>4, <2>5 DEF Accounted, File
  <2>7. ASSUME ~closedOthers PROVE Owned(c, files, x)
    <3>1. /\ Opener(c, files, x.next_fd, "next") /\ Opener(c, files, x.epoll_fd, "epoll")
          /\ Opener(c, files, x.last_fd, "last")
      BY <1>4, <1>5, <2>4, <2>7, OpenKeeps DEF Owned
    <3>2. \A fd \in Sockets(e.map) : Opener(c, files, fd, "server") /\ fd # NewFd
      <4>1. \A fd \in Sockets(e.map) : fd \in Fds /\ fd # -1 /\ file[fd] = File(c, "server")
        BY <1>4, <1>5, <2>7, FdsAreNat DEF Owned, Opener
      <4>2. File(c, "server") # Unused
        BY UnusedIsMains DEF File
      <4>3. QED
        BY <2>2, <2>5, <4>1, <4>2 DEF Opener
    <3>3. \A fd \in Sockets(x.map) : Opener(c, files, fd, "server")
      BY <1>4, <2>3, <2>4, <2>5, <3>2 DEF Opener
    <3>4. \A i, j \in Slots : m[i].entry_type = FILLED /\ m[j].entry_type = FILLED
                              /\ m[i].value = m[j].value => i = j
      <4>1. \A i \in Slots \ {slot} : m[i].entry_type = FILLED =>
               m[i].value \in Sockets(e.map) /\ m[i] = e.map[i]
        BY <1>4, <2>3 DEF Sockets
      <4>2. m[slot].value = NewFd
        BY <2>3 DEF Entry
      <4>3. \A i, j \in Slots : e.map[i].entry_type = FILLED /\ e.map[j].entry_type = FILLED
                                /\ e.map[i].value = e.map[j].value => i = j
        BY <1>5, <2>7 DEF Owned
      <4>4. QED
        BY <3>2, <4>1, <4>2, <4>3
    <3>5. QED
      BY <2>4, <3>1, <3>3, <3>4 DEF Owned
  <2>8. Sockets(x.map) \subseteq Fds
    BY <1>4, <1>5, <2>2, <2>3, <2>4
  <2>9. SessionOK(c, files, x, closedOthers)
    BY <2>4, <2>6, <2>7, <2>8 DEF SessionOK, Ended
  <2>10. ExitAnswers(c, files, t)
    BY <1>7 DEF t, m, s
  <2>11. QED
    BY <1>1, <2>1, <2>4, <2>9, <2>10, AnswerStep DEF x
<1>8. ASSUME NewFd # -1, ExitAnswers(c, Opened(file, NewFd, c, "refused"), s)
      PROVE  StepOK(c)
  <2> DEFINE files == Opened(file, NewFd, c, "refused")
  <2>1. files \in Files /\ Changed(c, file, files, closedOthers)
    BY <1>3, OpenedType, OpenChanges DEF Whats
  <2>2. NewFd \in Fds /\ file[NewFd] = Unused
    BY <1>8, NewFdIsFree
  <2> HIDE DEF s, e
  <2>3. Accounted(c, files, e)
    BY <1>5, <2>2 DEF Accounted, Opened, File
  <2>4. ASSUME ~closedOthers PROVE Owned(c, files, e)
    <3>1. \A fd \in Sockets(e.map) : fd \in Numbers
      BY <1>5 DEF Numbers
    <3>2. QED
      BY <1>5, <2>4, <3>1, OpenKeeps DEF Owned
  <2>5. SessionOK(c, files, e, closedOthers)
    BY <1>2, <1>4, <2>3, <2>4 DEF SessionOK
  <2>6. QED
    BY <1>1, <1>2, <1>8, <2>1, <2>5, AnswerStep DEF e
<1>9. QED
  BY <1>6, <1>7, <1>8 DEF ExitBegins, Connected

(* RELAY_END or the server's disconnection: the socket is closed and its   *)
(* number leaves the table. *)
LEMMA CloseStep ==
  ASSUME RelayInv, NEW c \in Circuits, NEW id \in Nat, ExitCloses(c, id)
  PROVE  StepOK(c)
<1> DEFINE s     == session[c]
           e     == [s EXCEPT !.at = "exit"]
           fd    == FoundValue(s.map, id)
           files == Closed(file, {fd})
           m     == Remove(s.map, id)
           t     == [s EXCEPT !.map = m]
           x     == [t EXCEPT !.at = "exit"]
<1>1. /\ s.at \in {"exit first", "exit"} /\ UNCHANGED <<mainVars, closedOthers>>
      /\ Found(s.map, id)
      /\ ExitAnswers(c, files, t)
  BY DEF ExitCloses, Handles, At
<1>2. s \in SessionType /\ SessionOK(c, file, e, closedOthers)
  BY <1>1, AtExit
<1>3. file \in Files
  BY DEF RelayInv
<1>4. /\ e \in SessionType /\ e.at = "exit" /\ e.map = s.map /\ e.last_fd = s.last_fd
      /\ e.next_fd = s.next_fd /\ e.epoll_fd = s.epoll_fd
      /\ s.map \in Tables(Fds \cup {NoValue})
  BY <1>2 DEF SessionType, Places
<1>5. /\ m \in Tables(Fds \cup {NoValue})
      /\ Sockets(s.map) = Sockets(m) \cup {fd}
      /\ \A i \in Slots : m[i].entry_type = FILLED =>
            m[i] = s.map[i] /\ i # FoundSlot(s.map, id)
  <2>1. NoValue \in Fds \cup {NoValue}
    OBVIOUS
  <2>2. QED
    BY <1>1, <1>4, <2>1, RemoveEffect, SocketsRemove
<1>6. /\ t \in SessionType /\ x \in SessionType /\ x.at = "exit" /\ x.map = m
      /\ x.last_fd = e.last_fd /\ x.next_fd = e.next_fd /\ x.epoll_fd = e.epoll_fd
  <2> HIDE DEF m
  <2>1. QED
    BY <1>2, <1>4, <1>5 DEF SessionType, Places
<1>7. FoundSlot(s.map, id) \in Slots /\ s.map[FoundSlot(s.map, id)].entry_type = FILLED
      /\ fd = s.map[FoundSlot(s.map, id)].value
  BY <1>1, FoundHolds DEF FoundValue, Holds
<1> HIDE DEF s, e, m, t, x, fd
<1>8. /\ Accounted(c, file, e) /\ (~closedOthers => Owned(c, file, e))
      /\ Sockets(e.map) \subseteq Fds
      /\ e.last_fd \in Numbers /\ e.next_fd \in Numbers /\ e.epoll_fd \in Numbers
  BY <1>2, <1>4 DEF SessionOK, SessionType
<1>9. fd \in Fds /\ fd # -1 /\ (~closedOthers => Opener(c, file, fd, "server"))
  BY <1>4, <1>5, <1>8, FdsAreNat DEF Owned
<1>10. files \in Files /\ Changed(c, file, files, closedOthers)
  BY <1>3, <1>9, ClosedType, CloseChanges
<1>11. Accounted(c, files, x)
  BY <1>4, <1>5, <1>6, <1>8, UnusedIsMains DEF Accounted, Closed
<1>12. ASSUME ~closedOthers PROVE Owned(c, files, x)
  <2>1. \A i, j \in Slots : e.map[i].entry_type = FILLED /\ e.map[j].entry_type = FILLED
                            /\ e.map[i].value = e.map[j].value => i = j
    BY <1>8, <1>12 DEF Owned
  <2>2. fd \notin Sockets(m)
    BY <1>4, <1>5, <1>7, <2>1 DEF Sockets
  <2>3. ASSUME NEW n \in Numbers, NEW what, n # fd, Opener(c, file, n, what)
        PROVE  Opener(c, files, n, what)
    BY <2>3 DEF Opener, Closed, Numbers
  <2>4. /\ Opener(c, file, e.next_fd, "next") /\ e.next_fd # fd
        /\ Opener(c, file, e.epoll_fd, "epoll") /\ e.epoll_fd # fd
        /\ Opener(c, file, e.last_fd, "last") /\ e.last_fd # fd
    BY <1>4, <1>8, <1>9, <1>12, OneOpener DEF Owned
  <2>5. \A n \in Sockets(m) : n \in Numbers /\ n # fd /\ Opener(c, file, n, "server")
    BY <1>4, <1>5, <1>8, <1>12, <2>2 DEF Owned, Numbers
  <2>6. \A i, j \in Slots : m[i].entry_type = FILLED /\ m[j].entry_type = FILLED
                            /\ m[i].value = m[j].value => i = j
    BY <1>4, <1>5, <2>1
  <2>7. QED
    BY <1>6, <1>8, <2>3, <2>4, <2>5, <2>6 DEF Owned
<1>13. Sockets(x.map) \subseteq Fds
  BY <1>4, <1>5, <1>6, <1>8
<1>14. SessionOK(c, files, x, closedOthers)
  BY <1>6, <1>11, <1>12, <1>13 DEF SessionOK, Ended
<1>15. QED
  BY <1>1, <1>6, <1>10, <1>14, AnswerStep DEF x

(* RELAY_END for a stream that is not there: the handler may free the      *)
(* whole table, whose entries then do not count as held any more.          *)
LEMMA AbsentStep ==
  ASSUME RelayInv, NEW c \in Circuits, NEW id \in Nat, ExitEndsAbsent(c, id)
  PROVE  StepOK(c)
<1> DEFINE s   == session[c]
           t   == [s EXCEPT !.at = "exit freeing"]
           fds == Sockets(s.map)
<1>1. s.at \in {"exit first", "exit"} /\ UNCHANGED mainVars
  BY DEF ExitEndsAbsent, Handles, At
<1>2. s \in SessionType /\ SessionOK(c, file, s, closedOthers) /\ file \in Files
  BY DEF RelayInv
<1>3. CASE Goes(c, s, "exit") /\ UNCHANGED <<file, closedOthers>>
  <2>1. Changed(c, file, file, closedOthers)
    BY DEF Changed
  <2>2. ExitAnswers(c, file, s)
    BY <1>3 DEF ExitAnswers
  <2>3. QED
    BY <1>1, <1>2, <1>3, <2>1, <2>2, AtExit, AnswerStep
<1>4. CASE CallbackEnds(c, file, s, TRUE) /\ UNCHANGED closedOthers
  BY <1>1, <1>4, FailStep
<1>5. CASE /\ s.at = "exit"
           /\ file' = Closed(file, fds)
           /\ Goes(c, s, "exit freeing")
           /\ UNCHANGED closedOthers
  <2>1. session' = [session EXCEPT ![c] = t] /\ session'[c] = t
    BY <1>5 DEF Goes, RelayInv
  <2>2. /\ t \in SessionType /\ t.at = "exit freeing" /\ t.map = s.map /\ t.last_fd = s.last_fd
        /\ t.next_fd = s.next_fd /\ t.epoll_fd = s.epoll_fd
    BY <1>2 DEF SessionType, Places
  <2> HIDE DEF s, t
  <2>3. \A fd \in fds : closedOthers \/ Opener(c, file, fd, "server")
    BY <1>2, <1>5 DEF SessionOK, Owned
  <2>4. Accounted(c, file, s)
    BY <1>2, <1>5 DEF SessionOK
  <2>5. Accounted(c, file', t)
    BY <1>5, <2>2, <2>4, UnusedIsMains DEF Accounted, Closed
  <2>6. ASSUME ~closedOthers, NEW fd \in Numbers, NEW what \in {"last", "next", "epoll"},
               Opener(c, file, fd, what)
        PROVE  Opener(c, file', fd, what)
    <3> HIDE DEF fds
    <3>1. fd \notin fds \/ fd = -1
      BY <2>3, <2>6, OneOpener
    <3>2. QED
      BY <1>5, <2>6, <3>1 DEF Opener, Closed, Numbers
  <2>7. ASSUME ~closedOthers PROVE Owned(c, file', t)
    <3>1. Owned(c, file, s)
      BY <1>2, <2>7 DEF SessionOK
    <3>2. s.last_fd \in Numbers /\ s.next_fd \in Numbers /\ s.epoll_fd \in Numbers
      BY <1>2 DEF SessionType
    <3>3. /\ Opener(c, file', s.next_fd, "next") /\ Opener(c, file', s.epoll_fd, "epoll")
          /\ Opener(c, file', s.last_fd, "last")
      BY <1>5, <2>6, <2>7, <3>1, <3>2 DEF Owned
    <3>4. QED
      BY <2>2, <3>1, <3>3 DEF Owned
  <2> HIDE DEF fds
  <2>8. file' \in Files /\ Changed(c, file, file', closedOthers)
    BY <1>2, <1>5, <2>3, ClosedType, CloseChanges
  <2>9. SessionOK(c, file', t, closedOthers)
    BY <1>2, <2>2, <2>5, <2>7 DEF SessionOK, Ended
  <2>10. QED
    BY <1>1, <1>5, <2>1, <2>8, <2>9, GoStep
<1>6. QED
  BY <1>3, <1>4, <1>5 DEF ExitEndsAbsent

-----------------------------------------------------------------------------
(* The process starts with its listener, or without. *)
LEMMA InitRelay == RelayProcessInit => RelayInv
<1> SUFFICES ASSUME RelayProcessInit PROVE RelayInv
  OBVIOUS
<1>1. file \in Files /\ \A f \in Fds : file[f].owner = Main
  BY DEF RelayProcessInit, Files, File, Unused, Whats
<1>2. closedOthers \in BOOLEAN
  BY Zenon DEF RelayProcessInit
<1>3. ASSUME NEW c \in Circuits
      PROVE  session[c] \in SessionType /\ SessionOK(c, file, session[c], closedOthers)
  <2>1. session[c] = [NoSession EXCEPT !.at = "away"]
    BY DEF RelayProcessInit, NoSession
  <2>2. \A f \in Fds : file[f].owner # c
    BY <1>1, UnusedIsMains
  <2>3. SessionOK(c, file, [NoSession EXCEPT !.at = "away"], closedOthers)
    BY <1>1, <1>2, <2>2, NoSessionOK DEF Ended
  <2>4. QED
    BY <2>1, <2>3 DEF SessionOK
<1>4. session \in [Circuits -> SessionType]
  <2>1. session = [c \in Circuits |-> NoSession]
    BY DEF RelayProcessInit
  <2>2. QED
    BY <1>3, <2>1
<1>5. MainOK(file, closedOthers)
  BY DEF RelayProcessInit, MainOK, Numbers
<1>6. QED
  BY <1>1, <1>2, <1>3, <1>4, <1>5 DEF RelayInv

(* What the main thread does to its own descriptors disturbs no session.   *)
LEMMA MainLeavesSessions ==
  ASSUME RelayInv, file' \in Files, UNCHANGED session, closedOthers' \in BOOLEAN,
         closedOthers => closedOthers', Changed(Main, file, file', closedOthers'),
         MainOK(file, closedOthers)'
  PROVE  RelayInv'
<1>1. ASSUME NEW c \in Circuits
      PROVE  SessionOK(c, file', session'[c], closedOthers')
  <2>1. c \in Circuits \ {Main}
    BY UnusedIsMains
  <2>2. SessionOK(c, file, session[c], closedOthers) /\ file \in Files /\ closedOthers \in BOOLEAN
    BY DEF RelayInv
  <2>3. SessionOK(c, file', session[c], closedOthers')
    BY <2>1, <2>2, OthersKeep
  <2>4. QED
    BY <2>3
<1>2. QED
  BY <1>1 DEF RelayInv

(* Closing its own connection, or a number that is nobody's, changes only  *)
(* what is the main thread's.                                              *)
LEMMA MainCloseChanges ==
  ASSUME NEW files \in Files, NEW fds, NEW twice,
         \A f \in Fds : f \in fds => twice \/ files[f] = Unused \/ files[f].owner = Main
  PROVE  Changed(Main, files, Closed(files, fds), twice)
BY DEF Changed, Closed

(* signout_server closes its own connection, and again what may be         *)
(* another's by then; run_relay its listener.  The end of the process      *)
(* closes all.                                                             *)
LEMMA MainKeeps == RelayInv /\ (MainStep \/ MainGone) => RelayInv'
<1> SUFFICES ASSUME RelayInv, MainStep \/ MainGone PROVE RelayInv'
  OBVIOUS
<1>0. /\ file \in Files /\ closedOthers \in BOOLEAN /\ MainOK(file, closedOthers)
      /\ Unused.owner = Main
  BY UnusedIsMains DEF RelayInv
<1>1. CASE MainConnects
  <2>1. /\ NewFd \in Fds /\ file[NewFd] = Unused /\ sock_fd' = NewFd /\ main' = "signing out"
        /\ file' = Opened(file, NewFd, Main, "directory") /\ UNCHANGED <<session, closedOthers>>
    BY <1>1, NewFdIsFree DEF MainConnects
  <2>2. file' \in Files /\ file'[NewFd] = File(Main, "directory")
    BY <1>0, <2>1 DEF Opened, Files, File, Whats
  <2>3. Changed(Main, file, file', closedOthers')
    BY <2>1 DEF Changed, Opened, File
  <2>4. MainOK(file, closedOthers)'
    BY <2>1, <2>2 DEF MainOK, Numbers
  <2>5. QED
    BY <1>0, <2>1, <2>2, <2>3, <2>4, MainLeavesSessions
<1>2. CASE MainSignOutFails
  <2>1. /\ main' = "exiting" /\ sock_fd' = -1 /\ file' = Closed(file, {sock_fd})
        /\ UNCHANGED <<session, closedOthers>>
    BY <1>2 DEF MainSignOutFails
  <2>2. \A f \in Fds : f \in {sock_fd} => closedOthers \/ file[f] = Unused \/ file[f].owner = Main
    <3>1. ASSUME ~closedOthers, sock_fd \in Fds
          PROVE  file[sock_fd] = File(Main, "directory")
      BY <1>0, <1>2, <3>1, FdsAreNat DEF MainSignOutFails, MainOK
    <3>2. File(Main, "directory").owner = Main
      BY DEF File
    <3>3. QED
      BY <3>1, <3>2
  <2>3. file' \in Files /\ Changed(Main, file, file', closedOthers')
    BY <1>0, <2>1, <2>2, ClosedType, MainCloseChanges
  <2>4. MainOK(file, closedOthers)'
    BY <2>1 DEF MainOK, Numbers
  <2>5. QED
    BY <1>0, <2>1, <2>3, <2>4, MainLeavesSessions
<1>3. CASE MainExits
  <2>1. /\ main = "signing out" /\ main' = "closing" /\ sock_fd' = sock_fd
        /\ file' \in {file, Closed(file, {sock_fd})} /\ UNCHANGED <<session, closedOthers>>
    BY <1>3 DEF MainExits
  <2>2. \A f \in Fds : f \in {sock_fd} => closedOthers \/ file[f] = Unused \/ file[f].owner = Main
    <3>1. ~closedOthers => file[sock_fd] = File(Main, "directory")
      BY <1>0, <2>1 DEF MainOK
    <3>2. File(Main, "directory").owner = Main
      BY DEF File
    <3>3. QED
      BY <3>1, <3>2
  <2>3. Changed(Main, file, file, closedOthers)
    BY DEF Changed
  <2>4. file' \in Files /\ Changed(Main, file, file', closedOthers')
    BY <1>0, <2>1, <2>2, <2>3, ClosedType, MainCloseChanges
  <2>5. MainOK(file, closedOthers)'
    BY <1>0, <2>1 DEF MainOK
  <2>6. QED
    BY <1>0, <2>1, <2>4, <2>5, MainLeavesSessions
<1>4. CASE MainCloses
  <2>1. /\ main' = "signed out" /\ sock_fd' = -1 /\ file' = Closed(file, {sock_fd})
        /\ closedOthers' = (closedOthers \/ GivenToOthers({sock_fd}, Main)) /\ UNCHANGED session
    BY <1>4 DEF MainCloses
  <2>2. closedOthers' \in BOOLEAN /\ (closedOthers => closedOthers')
        /\ (GivenToOthers({sock_fd}, Main) => closedOthers')
    BY <1>0, <2>1, Zenon
  <2>3. \A f \in Fds : f \in {sock_fd} => closedOthers' \/ file[f] = Unused \/ file[f].owner = Main
    BY <2>2 DEF GivenToOthers
  <2>4. file' \in Files /\ Changed(Main, file, file', closedOthers')
    BY <1>0, <2>1, <2>3, ClosedType, MainCloseChanges
  <2>5. MainOK(file, closedOthers)'
    BY <2>1 DEF MainOK, Numbers
  <2>6. QED
    BY <1>0, <2>1, <2>2, <2>4, <2>5, MainLeavesSessions
<1>5. CASE MainClosesListener
  <2> DEFINE fds == {f \in Fds : file[f] = File(Main, "listener")}
  <2>1. /\ main = "signed out" /\ main' = "exiting" /\ sock_fd' = sock_fd
        /\ file' = Closed(file, fds) /\ UNCHANGED <<session, closedOthers>>
    BY <1>5 DEF MainClosesListener
  <2>2. \A f \in Fds : f \in fds => closedOthers \/ file[f] = Unused \/ file[f].owner = Main
    BY DEF File
  <2> HIDE DEF fds
  <2>3. file' \in Files /\ Changed(Main, file, file', closedOthers')
    BY <1>0, <2>1, <2>2, ClosedType, MainCloseChanges
  <2>4. MainOK(file, closedOthers)'
    BY <1>0, <2>1 DEF MainOK
  <2>5. QED
    BY <1>0, <2>1, <2>3, <2>4, MainLeavesSessions
<1>6. CASE MainGone
  <2>1. /\ session' = [c \in Circuits |-> NoSession] /\ closedOthers' = closedOthers
        /\ main' = "gone" /\ sock_fd' = -1
    BY <1>6 DEF MainGone
  <2>2. file' \in Files /\ \A f \in Fds : file'[f].owner = Main
    BY <1>6 DEF MainGone, Files, File, Unused, Whats
  <2>3. ASSUME NEW c \in Circuits
        PROVE  session'[c] \in SessionType /\ SessionOK(c, file', session'[c], closedOthers')
    <3>1. session'[c] = [NoSession EXCEPT !.at = "away"]
      BY <2>1 DEF NoSession
    <3>2. \A f \in Fds : file'[f].owner # c
      BY <2>2, UnusedIsMains
    <3>3. SessionOK(c, file', [NoSession EXCEPT !.at = "away"], closedOthers)
      BY <1>0, <2>2, <3>2, NoSessionOK DEF Ended
    <3>4. QED
      BY <2>1, <3>1, <3>3 DEF SessionOK
  <2>4. session' \in [Circuits -> SessionType]
    BY <2>1, <2>3
  <2>5. MainOK(file, closedOthers)'
    BY <2>1 DEF MainOK, Numbers
  <2>6. QED
    BY <1>0, <2>1, <2>2, <2>3, <2>4, <2>5 DEF RelayInv
<1>7. QED
  BY <1>1, <1>2, <1>3, <1>4, <1>5, <1>6 DEF MainStep

(* The inductive invariant holds in every reachable state of the process.  *)
THEOREM RelayInvariant == RelayProcessSpec => []RelayInv
<1>1. RelayInv /\ [RelayProcessNext]_relayProcessVars => RelayInv'
  <2> SUFFICES ASSUME RelayInv, [RelayProcessNext]_relayProcessVars
               PROVE  RelayInv'
    OBVIOUS
  <2>1. ASSUME NEW c \in Circuits, RelayStep(c)
        PROVE  StepOK(c)
    <3>1. CASE Connects(c)
      BY <3>1, MoveStep DEF Connects, At, Places, Ended
    <3>2. CASE TlsDone(c) \/ CreateDone(c)
      BY <3>2, MoveStep DEF TlsDone, CreateDone, At, Places, Ended
    <3>3. CASE CreateFails(c)
      BY <3>3, FailStep DEF CreateFails
    <3>4. CASE Accepts(c) \/ AcceptsNoThread(c) \/ TlsFails(c) \/ TlsFailed(c) \/ FirstLost(c)
      BY <3>4, AcceptsStep, AcceptsNoThreadStep, TlsFailsStep, TlsFailedStep, FirstLostStep
    <3>5. CASE ExtendConnects(c) \/ ExtendTlsFails(c) \/ ExtendFails(c)
      BY <3>5, ExtendStep
    <3>6. CASE MiddleStarts(c) \/ MiddleEnds(c) \/ MiddleWaitFails(c)
      BY <3>6, MiddleStep
    <3>7. CASE ExitStarts(c)
      BY <3>7, EpollStep DEF ExitStarts, At
    <3>8. CASE ExitDestroyed(c) \/ ExitForwards(c) \/ ExitFreesAgain(c) \/ ExitBreaks(c)
      BY <3>8, ExitStep, FreesAgainStep
    <3>9. ASSUME NEW id \in StreamNumbers,
                 ExitBegins(c, id) \/ ExitCloses(c, id) \/ ExitEndsAbsent(c, id)
          PROVE  StepOK(c)
      BY <3>9, RelayProcessAssumption, BeginStep, CloseStep, AbsentStep
    <3>10. QED
      BY <2>1, <3>1, <3>2, <3>3, <3>4, <3>5, <3>6, <3>7, <3>8, <3>9 DEF RelayStep
  <2>2. CASE UNCHANGED relayProcessVars
    <3>1. /\ file' = file /\ session' = session /\ main' = main /\ sock_fd' = sock_fd
          /\ closedOthers' = closedOthers
      BY <2>2 DEF relayProcessVars, mainVars
    <3>2. QED
      BY <3>1 DEF RelayInv, MainOK
  <2>3. QED
    BY <2>1, <2>2, StepKeeps, MainKeeps DEF RelayProcessNext
<1>2. QED
  BY InitRelay, <1>1, PTL DEF RelayProcessSpec

(* The descriptors, the sessions and their tables keep their types. *)
THEOREM RelayProcessTypes == RelayProcessSpec => []RelayProcessTypeOK
<1>1. RelayInv => RelayProcessTypeOK
  BY DEF RelayInv, RelayProcessTypeOK, Files, SessionOK, SessionType, Numbers, MainOK
<1>2. QED
  BY <1>1, RelayInvariant, PTL

(* Every number a running session holds refers to what that session        *)
(* opened, and the main thread's to its connection, so that no close hits  *)
(* another's - until the second close of a table's sockets, or of the      *)
(* connection signout_server has used, does.                               *)
THEOREM DescriptorsAreOwn == RelayProcessSpec => []OwnDescriptors
<1>1. RelayInv => OwnDescriptors
  <2>1. ASSUME RelayInv, ~closedOthers, main = "signing out"
        PROVE  file[sock_fd] = File(Main, "directory")
    BY <2>1 DEF RelayInv, MainOK
  <2>2. ASSUME RelayInv, ~closedOthers, NEW c \in Circuits, NEW h \in Held(session[c]), h[1] # -1
        PROVE  file[h[1]] = File(c, h[2])
    <3>1. Owned(c, file, session[c])
      BY <2>2 DEF RelayInv, SessionOK
    <3> DEFINE s == session[c]
    <3>2. \/ h = <<s.next_fd, "next">> \/ h = <<s.epoll_fd, "epoll">>
          \/ s.at # "tls failed" /\ h = <<s.last_fd, "last">>
          \/ s.at # "exit freeing" /\ \E fd \in Sockets(s.map) : h = <<fd, "server">>
      BY DEF Held
    <3> HIDE DEF s
    <3>3. Opener(c, file, h[1], h[2])
      <4>1. Owned(c, file, s)
        BY <3>1 DEF s
      <4>2. CASE h = <<s.next_fd, "next">>
        BY <4>1, <4>2 DEF Owned
      <4>3. CASE h = <<s.epoll_fd, "epoll">>
        BY <4>1, <4>3 DEF Owned
      <4>4. CASE s.at # "tls failed" /\ h = <<s.last_fd, "last">>
        BY <4>1, <4>4 DEF Owned
      <4>5. ASSUME s.at # "exit freeing", NEW fd \in Sockets(s.map), h = <<fd, "server">>
            PROVE  Opener(c, file, h[1], h[2])
        BY <4>1, <4>5 DEF Owned
      <4>6. QED
        BY <3>2, <4>2, <4>3, <4>4, <4>5
    <3>4. QED
      BY <2>2, <3>3 DEF Opener
  <2>3. QED
    BY <2>1, <2>2 DEF OwnDescriptors
<1>2. QED
  BY <1>1, RelayInvariant, PTL

(* A session that free_relay_session freed has closed both links, and its  *)
(* streams' sockets but those a full table refused. *)
THEOREM FreedSessionsClosed == RelayProcessSpec => []FreedLeavesOpen
<1>1. RelayInv => FreedLeavesOpen
  <2> SUFFICES ASSUME RelayInv, NEW c \in Circuits, session[c].at = "freed",
                      NEW f \in Fds, file[f].owner = c
               PROVE  file[f].what \in {"epoll", "refused"}
    BY DEF FreedLeavesOpen
  <2> DEFINE s == session[c]
  <2>1. SessionOK(c, file, s, closedOthers)
    BY DEF RelayInv
  <2>2. s.last_fd = -1 /\ s.next_fd = -1 /\ Sockets(s.map) = {} /\ Accounted(c, file, s)
    BY <2>1 DEF SessionOK, Ended
  <2> HIDE DEF s
  <2>3. QED
    BY <2>2, FdsAreNat DEF Accounted
<1>2. QED
  BY <1>1, RelayInvariant, PTL

-----------------------------------------------------------------------------
(* The client's process. *)
Clients == {"none", "shared", "client's own"}
Servers == {"none", "shared", "server's own"}
Names == {"handshake request", "client key", "map request", "exit request",
          "handshake response", "confirmation", "relay map", "exit response"}
AnyPart == [msg : Names, part : 1 .. 4, key : Clients \cup Servers]
Stream == Seq(AnyPart)

(* The parts of all messages in the order they are sent: what the client   *)
(* asks under a key, and what the server answers under a key. *)
InAll == 1 .. 16
Asked(under) ==
    [i \in InAll |-> IF i <= 4 THEN Part("handshake request", i, "none")
                    ELSE IF i <= 8 THEN Part("client key", i - 4, "none")
                    ELSE IF i <= 12 THEN Part("map request", i - 8, under)
                    ELSE Part("exit request", i - 12, under)]
Answered(under) ==
    [i \in InAll |-> IF i <= 4 THEN Part("handshake response", i, "none")
                    ELSE IF i <= 8 THEN Part("confirmation", i - 4, under)
                    ELSE IF i <= 12 THEN Part("relay map", i - 8, under)
                    ELSE Part("exit response", i - 12, under)]

(* How many parts the client has sent where it waits, while the server     *)
(* takes them. *)
SentBy(pc) == CASE pc \in {"arguments", "connect"} -> 0
                [] pc = "hello" -> 4
                [] pc = "confirm" -> 8
                [] pc = "map" -> 12
                [] OTHER -> 16

(* A stream that goes on after the first n parts of all. *)
GoesOn(stream, n, all) ==
    /\ stream \in Stream
    /\ n + Len(stream) <= 16
    /\ \A i \in 1 .. Len(stream) : stream[i] = all[n + i]

(* Where client and server wait says how much of the answers the client    *)
(* has read (c), how much of the questions the server has read (s), and    *)
(* how many parts of both have been sent. *)
ClientAt(c) ==
    /\ client \in {"arguments", "connect"} =>
          server = "listening" /\ toServer = <<>> /\ toClient = <<>>
    /\ client \in {"arguments", "connect", "hello"} => c = 0
    /\ client = "confirm" => \/ c \in 1 .. 4
                             \/ server = "closed" /\ toClient = <<>>
    /\ client = "map" => \/ c \in 5 .. 8 /\ (~cut => c = 8)
                         \/ server = "closed" /\ toClient = <<>>
ServerAt(s, answered, asked) ==
    /\ server \in {"hello", "key", "serve"} /\ client \in QueryPlaces => asked = SentBy(client)
    /\ client = "hello" => asked <= 4
    /\ server \in {"listening", "hello"} => answered = 0 /\ s = 0
    /\ server = "key" => answered = 4 /\ s \in 1 .. 4
    /\ server = "serve" => \/ answered = 8 /\ s \in 2 .. 8
                           \/ answered = 12 /\ s \in 9 .. 12
InFlight(c, s) ==
    /\ GoesOn(toClient, c, Answered(serverKey))
    /\ GoesOn(toServer, s, Asked(clientKey))
    /\ ClientAt(c)
    /\ ServerAt(s, c + Len(toClient), s + Len(toServer))

Trusting == {"map", "exit"} \cup CircuitPlaces

(* The keys the two sides derive. *)
Derived ==
    /\ clientKey \in Clients /\ serverKey \in Servers
    /\ cut \in BOOLEAN
    /\ client \in {"arguments", "connect", "hello"} => clientKey = "none"
    /\ client = "confirm" => clientKey # "none"
    /\ client \in Trusting => clientKey = "shared" /\ serverKey = "shared"
    /\ server \in {"listening", "hello", "key"} => serverKey = "none"

InOrder == [i \in 1 .. relays |-> i]

(* What the client knows of relays where it waits. *)
Progress ==
    /\ relays \in 0 .. MAX_RELAYS /\ listed \in 0 .. MaxListed
    /\ client # "arguments" => relays \in 1 .. MAX_RELAYS
    /\ list \in Seq(0 .. MAX_RELAYS)
    /\ client \in QueryPlaces \ {"exit"} => list = <<>>
    /\ client \in {"exit"} \cup CircuitPlaces =>
          /\ Len(list) = relays
          /\ ~cut => list = InOrder /\ relays <= listed
    /\ Len(list) \in {0, relays}
    /\ cur_relays \in 0 .. relays
    /\ client \in {"create", "extend"} => cur_relays < relays
    /\ client \in QueryPlaces \cup {"guard", "no guard", "tls"} => cur_relays = 0

(* The keys that are allocated and freed where the client waits. *)
KeysAre(allocated, freed) ==
    /\ misfreed = {}
    /\ key = [k \in Keys |-> IF k \in allocated THEN "allocated"
                             ELSE IF k \in freed THEN "freed" ELSE "raw"]
KeyPlaces ==
    /\ key \in [Keys -> {"raw", "allocated", "freed"}]
    /\ misfreed \subseteq Keys
    /\ client \in {"arguments", "connect", "hello"} => KeysAre({}, {})
    /\ client \in {"confirm", "map", "exit"} => KeysAre({ServerKey}, {})
    /\ client = "guard" => KeysAre({}, {ServerKey})
    /\ client \in CircuitPlaces \ {"guard"} => KeysAre(FreeSessionKeys, {ServerKey})

ClientInv ==
    /\ client \in Finished \cup QueryPlaces \cup CircuitPlaces
    /\ server \in {"listening", "hello", "key", "serve", "closed"}
    /\ Derived
    /\ Progress
    /\ KeyPlaces
    /\ KeysFreedOnce
    /\ \E c, s \in 0 .. 16 : InFlight(c, s)

-----------------------------------------------------------------------------
(* A message is a stream of four parts. *)
LEMMA MessageParts ==
  ASSUME NEW msg \in Names, NEW under \in Clients \cup Servers
  PROVE  /\ Message(msg, under) \in Stream
         /\ Len(Message(msg, under)) = 4
         /\ \A i \in 1 .. 4 : Message(msg, under)[i] = Part(msg, i, under)
<1>1. Message(msg, under) \in [1 .. 4 -> AnyPart]
  BY DEF Message, Parts, Part, AnyPart
<1>2. Message(msg, under) \in Seq(AnyPart)
  <2>1. \A T : [1 .. 4 -> T] \subseteq Seq(T)
    BY SeqDef
  <2>2. QED
    BY <1>1, <2>1
<1>3. Len(Message(msg, under)) = 4
  BY <1>1, <1>2, LenProperties
<1>4. QED
  BY <1>2, <1>3 DEF Stream, Message, Parts

(* A read takes the first parts and leaves the others. *)
LEMMA ReadTakes ==
  ASSUME NEW stream \in Stream, NEW n \in ReadSizes(stream)
  PROVE  /\ n \in 1 .. 4 /\ n <= Len(stream)
         /\ Rest(stream, n) \in Stream
         /\ Len(Rest(stream, n)) = Len(stream) - n
         /\ \A i \in 1 .. Len(Rest(stream, n)) : Rest(stream, n)[i] = stream[n + i]
         /\ \A i \in 1 .. n : Buffer(stream, n)[i] = stream[i]
         /\ \A i \in n + 1 .. 4 : Buffer(stream, n)[i] = Old
<1>1. n \in 1 .. 4 /\ n <= Len(stream)
  BY DEF ReadSizes, Parts
<1>2. /\ \A i \in 1 .. n : Buffer(stream, n)[i] = stream[i]
      /\ \A i \in n + 1 .. 4 : Buffer(stream, n)[i] = Old
  BY <1>1 DEF Buffer, Parts
<1>3. PICK m \in Int : m = n + 1
  BY <1>1
<1>4. PICK l \in Nat : l = Len(stream)
  BY DEF Stream
<1>5. \A i \in m .. l : stream[i] \in AnyPart
  BY <1>1, <1>3, <1>4 DEF Stream
<1>6. /\ SubSeq(stream, m, l) \in Seq(AnyPart)
      /\ Len(SubSeq(stream, m, l)) = IF m <= l THEN l - m + 1 ELSE 0
      /\ \A i \in 1 .. l - m + 1 : SubSeq(stream, m, l)[i] = stream[m + i - 1]
  BY ONLY m \in Int, l \in Nat, <1>5, SubSeqProperties
<1>7. Rest(stream, n) = SubSeq(stream, m, l)
  BY <1>3, <1>4 DEF Rest
<1>8. QED
  BY <1>1, <1>2, <1>3, <1>4, <1>6, <1>7 DEF Stream

(* Reading a stream moves on in what was sent: the buffer holds the next   *)
(* parts and the stream goes on after them. *)
LEMMA GoesOnRead ==
  ASSUME NEW stream, NEW c \in 0 .. 16, NEW all, GoesOn(stream, c, all),
         NEW n \in ReadSizes(stream)
  PROVE  /\ n \in 1 .. 4 /\ n <= Len(stream) /\ c + n \in 0 .. 16
         /\ GoesOn(Rest(stream, n), c + n, all)
         /\ Len(stream) \in Nat
         /\ Len(Rest(stream, n)) = Len(stream) - n
         /\ \A i \in 1 .. n : Buffer(stream, n)[i] = all[c + i]
         /\ \A i \in n + 1 .. 4 : Buffer(stream, n)[i] = Old
<1>1. stream \in Stream /\ Len(stream) \in Nat
  BY DEF GoesOn, Stream
<1>2. /\ n \in 1 .. 4 /\ n <= Len(stream)
      /\ Rest(stream, n) \in Stream
      /\ Len(Rest(stream, n)) = Len(stream) - n
      /\ \A i \in 1 .. Len(Rest(stream, n)) : Rest(stream, n)[i] = stream[n + i]
      /\ \A i \in 1 .. n : Buffer(stream, n)[i] = stream[i]
      /\ \A i \in n + 1 .. 4 : Buffer(stream, n)[i] = Old
  BY <1>1, ReadTakes
<1>3. \A i \in 1 .. Len(stream) : stream[i] = all[c + i]
  BY DEF GoesOn
<1>4. \A i \in 1 .. Len(stream) - n : stream[n + i] = all[(c + n) + i]
  <2>1. TAKE i \in 1 .. Len(stream) - n
  <2>2. n + i \in 1 .. Len(stream) /\ c + (n + i) = (c + n) + i
    BY <1>1, <1>2
  <2>3. stream[n + i] = all[c + (n + i)]
    BY <1>3, <2>2
  <2>4. QED
    BY <2>2, <2>3
<1>5. c + n \in 0 .. 16 /\ c + n + (Len(stream) - n) <= 16
  <2>1. PICK l \in Nat : l = Len(stream)
    BY <1>1
  <2>2. n \in 1 .. 4 /\ n <= l /\ c + l <= 16
    BY <1>2, <2>1 DEF GoesOn
  <2>3. c + n \in 0 .. 16 /\ c + n + (l - n) <= 16
    BY <2>2
  <2>4. QED
    BY <2>1, <2>3
<1>6. \A i \in 1 .. n : Buffer(stream, n)[i] = all[c + i]
  BY <1>1, <1>2, <1>3
<1>7. GoesOn(Rest(stream, n), c + n, all)
  BY <1>2, <1>4, <1>5 DEF GoesOn
<1>8. QED
  BY <1>1, <1>2, <1>5, <1>6, <1>7

(* A message has four parts. *)
LEMMA AppendedLength ==
  ASSUME NEW stream \in Stream, NEW msg \in Names, NEW k \in Clients \cup Servers,
         NEW new, new = stream \o Message(msg, k)
  PROVE  Len(new) = Len(stream) + 4
<1>1. PICK m : m = Message(msg, k)
  OBVIOUS
<1>2. m \in Seq(AnyPart) /\ Len(m) = 4 /\ stream \in Seq(AnyPart)
  BY <1>1, MessageParts DEF Stream
<1>3. Len(stream \o m) = Len(stream) + Len(m)
  BY ONLY <1>2, ConcatProperties
<1>4. QED
  BY <1>1, <1>2, <1>3

(* A message that comes next in what is sent is appended. *)
LEMMA GoesOnSent ==
  ASSUME NEW stream, NEW c \in 0 .. 16, NEW all, GoesOn(stream, c, all),
         NEW sent \in 0 .. 12, c + Len(stream) = sent,
         NEW msg \in Names, NEW k \in Clients \cup Servers,
         \A i \in 1 .. 4 : Part(msg, i, k) = all[sent + i],
         NEW new, new = stream \o Message(msg, k)
  PROVE  GoesOn(new, c, all)
<1>1. PICK l \in Nat : l = Len(stream)
  BY DEF GoesOn, Stream
<1>2. PICK m : m = Message(msg, k)
  OBVIOUS
<1>3. /\ m \in Stream /\ Len(m) = 4
      /\ \A i \in 1 .. 4 : m[i] = Part(msg, i, k)
  BY <1>2, MessageParts
<1>4. stream \in Seq(AnyPart) /\ m \in Seq(AnyPart)
  BY <1>3 DEF GoesOn, Stream
<1>5. /\ stream \o m \in Seq(AnyPart)
      /\ Len(stream \o m) = Len(stream) + Len(m)
      /\ \A i \in 1 .. Len(stream) + Len(m) :
            (stream \o m)[i] = IF i <= Len(stream) THEN stream[i] ELSE m[i - Len(stream)]
  BY ONLY <1>4, ConcatProperties
<1>6. /\ Len(stream \o m) = l + 4
      /\ \A i \in 1 .. l + 4 : (stream \o m)[i] = IF i <= l THEN stream[i] ELSE m[i - l]
  BY <1>1, <1>3, <1>5
<1>7. \A i \in 1 .. l + 4 : (stream \o m)[i] = all[c + i]
  <2>1. TAKE i \in 1 .. l + 4
  <2>2. CASE i <= l
    BY <1>1, <1>6, <2>2 DEF GoesOn
  <2>3. CASE i > l
    <3>1. PICK j \in 1 .. 4 : j = i - l
      BY <2>3
    <3>2. l + j = i /\ c + l + j = c + i
      BY <3>1
    <3>3. (stream \o m)[i] = m[j]
      BY <1>6, <2>3, <3>1
    <3>4. m[j] = all[sent + j] /\ sent = c + l
      BY <1>1, <1>3
    <3>5. QED
      BY <3>2, <3>3, <3>4
  <2>4. i <= l \/ i > l
    OBVIOUS
  <2>5. QED
    BY <2>2, <2>3, <2>4
<1>8. c + (l + 4) <= 16
  BY <1>1, SMTT(30)
<1>9. QED
  BY <1>1, <1>2, <1>5, <1>6, <1>7, <1>8 DEF GoesOn, Stream

(* An empty stream is any part of what was sent. *)
LEMMA EmptyStream ==
  ASSUME NEW n \in 0 .. 16, NEW all
  PROVE  GoesOn(<<>>, n, all) /\ Len(<<>>) = 0
BY DEF GoesOn, Stream

(* The messages in all that is sent. *)
LEMMA AllAsked ==
  ASSUME NEW k, NEW i \in 1 .. 4
  PROVE  /\ Asked(k)[i] = Part("handshake request", i, "none")
         /\ Asked(k)[4 + i] = Part("client key", i, "none")
         /\ Asked(k)[8 + i] = Part("map request", i, k)
         /\ Asked(k)[12 + i] = Part("exit request", i, k)
<1>1. Asked(k)[i] = Part("handshake request", i, "none")
  <2>1. i \in InAll /\ i <= 4
    BY DEF InAll
  <2>2. QED
    BY <2>1 DEF Asked
<1>2. Asked(k)[4 + i] = Part("client key", i, "none")
  <2>1. PICK j \in InAll : j = 4 + i
    BY DEF InAll
  <2>2. ~(j <= 4) /\ j <= 8 /\ j - 4 = i
    BY <2>1
  <2>3. QED
    BY <2>1, <2>2 DEF Asked
<1>3. Asked(k)[8 + i] = Part("map request", i, k)
  <2>1. PICK j \in InAll : j = 8 + i
    BY DEF InAll
  <2>2. ~(j <= 4) /\ ~(j <= 8) /\ j <= 12 /\ j - 8 = i
    BY <2>1
  <2>3. QED
    BY <2>1, <2>2 DEF Asked
<1>4. Asked(k)[12 + i] = Part("exit request", i, k)
  <2>1. PICK j \in InAll : j = 12 + i
    BY DEF InAll
  <2>2. ~(j <= 4) /\ ~(j <= 8) /\ ~(j <= 12) /\ j - 12 = i
    BY <2>1
  <2>3. QED
    BY <2>1, <2>2 DEF Asked
<1>5. QED
  BY <1>1, <1>2, <1>3, <1>4

(* The same of what is answered. *)
LEMMA AllAnswered ==
  ASSUME NEW k, NEW i \in 1 .. 4
  PROVE  /\ Answered(k)[i] = Part("handshake response", i, "none")
         /\ Answered(k)[4 + i] = Part("confirmation", i, k)
         /\ Answered(k)[8 + i] = Part("relay map", i, k)
         /\ Answered(k)[12 + i] = Part("exit response", i, k)
<1>1. Answered(k)[i] = Part("handshake response", i, "none")
  <2>1. i \in InAll /\ i <= 4
    BY DEF InAll
  <2>2. QED
    BY <2>1 DEF Answered
<1>2. Answered(k)[4 + i] = Part("confirmation", i, k)
  <2>1. PICK j \in InAll : j = 4 + i
    BY DEF InAll
  <2>2. ~(j <= 4) /\ j <= 8 /\ j - 4 = i
    BY <2>1
  <2>3. QED
    BY <2>1, <2>2 DEF Answered
<1>3. Answered(k)[8 + i] = Part("relay map", i, k)
  <2>1. PICK j \in InAll : j = 8 + i
    BY DEF InAll
  <2>2. ~(j <= 4) /\ ~(j <= 8) /\ j <= 12 /\ j - 8 = i
    BY <2>1
  <2>3. QED
    BY <2>1, <2>2 DEF Answered
<1>4. Answered(k)[12 + i] = Part("exit response", i, k)
  <2>1. PICK j \in InAll : j = 12 + i
    BY DEF InAll
  <2>2. ~(j <= 4) /\ ~(j <= 8) /\ ~(j <= 12) /\ j - 12 = i
    BY <2>1
  <2>3. QED
    BY <2>1, <2>2 DEF Answered
<1>5. QED
  BY <1>1, <1>2, <1>3, <1>4

(* How much the client has sent where it waits. *)
LEMMA SentByIs ==
  /\ SentBy("arguments") = 0 /\ SentBy("connect") = 0 /\ SentBy("hello") = 4
  /\ SentBy("confirm") = 8 /\ SentBy("map") = 12 /\ SentBy("exit") = 16
<1>1. "hello" \notin {"arguments", "connect"} /\ "confirm" \notin {"arguments", "connect", "hello"}
  OBVIOUS
<1>2. "map" \notin {"arguments", "connect", "hello", "confirm"}
  OBVIOUS
<1>3. "exit" \notin {"arguments", "connect", "hello", "confirm", "map"}
  OBVIOUS
<1>4. QED
  BY <1>1, <1>2, <1>3 DEF SentBy

-----------------------------------------------------------------------------
(* The places are different. *)
LEMMA PlacesDiffer ==
  /\ \A pc \in Finished : pc \notin QueryPlaces /\ pc \notin CircuitPlaces /\ pc \notin Trusting
  /\ \A pc \in CircuitPlaces : pc \notin QueryPlaces /\ pc \notin Finished /\ pc \in Trusting
  /\ \A pc \in QueryPlaces : pc \notin Finished /\ pc \notin CircuitPlaces
BY DEF Finished, QueryPlaces, CircuitPlaces, Trusting

(* What is in the streams is as good when the client leaves the query,     *)
(* having read some more. *)
LEMMA AfterQuery ==
  ASSUME NEW c \in 0 .. 16, NEW d \in 0 .. 16, NEW s \in 0 .. 16, InFlight(c, s),
         client' \notin QueryPlaces,
         GoesOn(toClient', d, Answered(serverKey)),
         d + Len(toClient') = c + Len(toClient),
         UNCHANGED <<server, serverKey, clientKey, toServer>>
  PROVE  InFlight(d, s)'
<1>1. ClientAt(d)'
  BY DEF ClientAt, QueryPlaces
<1>2. ServerAt(s, d + Len(toClient), s + Len(toServer))'
  BY DEF ServerAt, InFlight, QueryPlaces
<1>3. QED
  BY <1>1, <1>2 DEF InFlight

(* A client that ends in the middle of the query. *)
LEMMA EndsInQuery ==
  ASSUME ClientInv, GatherFails, client \in {"hello", "confirm", "map", "exit"},
         UNCHANGED <<clientKey, relays, list, cur_relays>>
  PROVE  client' \in Finished /\ KeyPlaces' /\ KeysFreedOnce'
<1>1. client' \in {"failed", "crashed"}
  BY DEF GatherFails
<1>2. KeyPlaces
  BY DEF ClientInv
<1>3. ServerKey \in Keys
  BY DEF Keys
<1>4. CASE client = "hello"
  <2>1. KeysAre({}, {}) /\ clientKey = "none"
    BY <1>2, <1>4 DEF KeyPlaces, ClientInv, Derived
  <2>2. misfreed' = {ServerKey} /\ key' = [k \in Keys |-> IF k \in {ServerKey} THEN "freed" ELSE "raw"]
    BY <1>3, <2>1 DEF GatherFails, FreeKeys, KeysAre
  <2>3. QED
    BY <1>1, <1>3, <2>1, <2>2, PlacesDiffer DEF KeyPlaces, KeysFreedOnce, Finished
<1>5. CASE client # "hello"
  <2>1. KeysAre({ServerKey}, {})
    BY <1>2, <1>5 DEF KeyPlaces
  <2>2. misfreed' = {} /\ key' = [k \in Keys |-> IF k \in {ServerKey} THEN "freed" ELSE "raw"]
    BY <1>3, <2>1 DEF GatherFails, FreeKeys, KeysAre
  <2>3. QED
    BY <1>1, <1>3, <2>1, <2>2, PlacesDiffer DEF KeyPlaces, KeysFreedOnce, Finished
<1>6. QED
  BY <1>4, <1>5

(* parse_args leaves a number of relays between 1 and MAX_RELAYS. *)
LEMMA ParseArgsKeeps == ClientInv /\ ParseArgs => ClientInv'
<1> SUFFICES ASSUME ClientInv, ParseArgs PROVE ClientInv'
  OBVIOUS
<1>1. relays' \in 1 .. MAX_RELAYS
  BY ClientAssumption DEF ParseArgs
<1>2. client = "arguments" /\ client' = "connect"
  BY DEF ParseArgs
<1>3. UNCHANGED <<list, cur_relays, key, misfreed, clientKey, cut, server, serverKey, listed,
                  toServer, toClient>>
  BY DEF ParseArgs, keyVars, queryVars
<1>4. PICK c, s \in 0 .. 16 : InFlight(c, s)
  BY DEF ClientInv
<1>5. InFlight(c, s)'
  <2>1. ClientAt(c)'
    BY <1>2, <1>3, <1>4 DEF ClientAt, InFlight
  <2>2. ServerAt(s, c + Len(toClient), s + Len(toServer))'
    BY <1>2, <1>3, <1>4 DEF ServerAt, ClientAt, InFlight, QueryPlaces
  <2>3. QED
    BY <1>3, <1>4, <2>1, <2>2 DEF InFlight
<1>6. Derived'
  BY <1>2, <1>3 DEF ClientInv, Derived, Trusting, CircuitPlaces
<1>7. Progress'
  <2>1. list = <<>> /\ cur_relays = 0
    BY <1>2 DEF ClientInv, Progress, QueryPlaces
  <2>2. QED
    BY <1>1, <1>2, <1>3, <2>1 DEF ClientInv, Progress, QueryPlaces, CircuitPlaces
<1>8. KeysAre({}, {})
  BY <1>2 DEF ClientInv, KeyPlaces
<1>9. KeyPlaces' /\ KeysFreedOnce'
  BY <1>2, <1>3, <1>8 DEF ClientInv, KeyPlaces, KeysAre, KeysFreedOnce, CircuitPlaces
<1>10. QED
  BY <1>2, <1>3, <1>5, <1>6, <1>7, <1>9 DEF ClientInv, QueryPlaces

(* The connection to the directory server, and the request. *)
LEMMA ConnectDirectoryKeeps == ClientInv /\ ConnectDirectory => ClientInv'
<1> SUFFICES ASSUME ClientInv, ConnectDirectory PROVE ClientInv'
  OBVIOUS
<1>1. client = "connect" /\ client' \in {"failed", "hello"}
  BY DEF ConnectDirectory
<1>2. UNCHANGED <<relays, list, cur_relays, key, misfreed, clientKey, cut, serverKey, listed,
                  toClient>>
  BY DEF ConnectDirectory, keyVars
<1>3. PICK c, s \in 0 .. 16 : InFlight(c, s)
  BY DEF ClientInv
<1>4. server = "listening" /\ toServer = <<>> /\ toClient = <<>> /\ c = 0 /\ s = 0
  BY <1>1, <1>3 DEF InFlight, ClientAt, ServerAt
<1>5. server' \in {"listening", "hello", "key", "serve", "closed"}
  BY <1>4 DEF ConnectDirectory
<1>6. InFlight(c, s)'
  <2>1. CASE client' = "failed"
    <3>1. UNCHANGED <<server, toServer>>
      BY <2>1 DEF ConnectDirectory
    <3>2. QED
      BY <1>2, <1>3, <2>1, <3>1, AfterQuery DEF QueryPlaces, InFlight
  <2>2. CASE client' = "hello"
    <3>1. server' = "hello" /\ toServer' = Message("handshake request", "none")
      BY <2>2 DEF ConnectDirectory
    <3>3. /\ toServer' \in Stream /\ Len(toServer') = 4
          /\ \A i \in 1 .. 4 : toServer'[i] = Part("handshake request", i, "none")
      BY <3>1, MessageParts DEF Names, Clients
    <3>4. \A i \in 1 .. 4 : toServer'[i] = Asked(clientKey')[s + i]
      <4>1. TAKE i \in 1 .. 4
      <4>2. s + i = i
        BY <1>4
      <4>3. QED
        BY <3>3, <4>2, AllAsked
    <3>5. GoesOn(toServer', s, Asked(clientKey'))
      <4>1. s + 4 <= 16
        BY <1>4
      <4>2. QED
        BY <3>3, <3>4, <4>1 DEF GoesOn
    <3>6. GoesOn(toClient', c, Answered(serverKey')) /\ Len(toClient') = 0
      BY <1>2, <1>4, EmptyStream
    <3>7. ClientAt(c)'
      BY <1>4, <2>2 DEF ClientAt
    <3>8. ServerAt(s, c + Len(toClient), s + Len(toServer))'
      <4>0. c = 0 /\ s = 0 /\ Len(toClient') = 0 /\ Len(toServer') = 4
        BY <1>4, <3>3, <3>6
      <4>1. c + Len(toClient') = 0 /\ s + Len(toServer') = 4
        BY <4>0
      <4>2. SentBy(client') = 4
        BY <2>2, SentByIs
      <4>3. s + Len(toServer') <= 4
        BY <4>1
      <4>4. QED
        BY <1>4, <3>1, <4>1, <4>2, <4>3 DEF ServerAt
    <3>9. QED
      BY <3>5, <3>6, <3>7, <3>8 DEF InFlight
  <2>3. QED
    BY <1>1, <2>1, <2>2, SMTT(30)
<1>7. Derived'
  <2>1. clientKey = "none" /\ serverKey = "none"
    BY <1>1, <1>4 DEF ClientInv, Derived
  <2>2. QED
    BY <1>1, <1>2, <2>1 DEF ClientInv, Derived, Trusting, CircuitPlaces, Clients, Servers
<1>8. Progress'
  BY <1>1, <1>2 DEF ClientInv, Progress, QueryPlaces, CircuitPlaces
<1>9. KeysAre({}, {})
  BY <1>1 DEF ClientInv, KeyPlaces
<1>10. KeyPlaces' /\ KeysFreedOnce'
  BY <1>1, <1>2, <1>9 DEF ClientInv, KeyPlaces, KeysAre, KeysFreedOnce, CircuitPlaces
<1>11. QED
  BY <1>1, <1>3, <1>5, <1>6, <1>7, <1>8, <1>10 DEF ClientInv, QueryPlaces, Finished

(* The client asks for something more. *)
LEMMA AskedMore ==
  ASSUME NEW s \in 0 .. 16, NEW k \in Clients, GoesOn(toServer, s, Asked(k)),
         NEW sent \in 4 .. 12, server = "closed" \/ s + Len(toServer) = sent,
         NEW msg \in Names, NEW under \in Clients,
         \A i \in 1 .. 4 : Part(msg, i, under) = Asked(k)[sent + i],
         NEW pc, Asks(msg, under, pc)
  PROVE  /\ GoesOn(toServer', s, Asked(k))
         /\ server # "closed" => s + Len(toServer') = sent + 4
<1>1. CASE server = "closed"
  BY <1>1 DEF Asks
<1>2. CASE server # "closed"
  <2>1. toServer' = toServer \o Message(msg, under)
    BY <1>2 DEF Asks
  <2>2. s + Len(toServer) = sent /\ Len(toServer) \in Nat
    BY <1>2 DEF GoesOn, Stream
  <2>3. under \in Clients \cup Servers /\ sent \in 0 .. 12
    OBVIOUS
  <2>5. GoesOn(toServer', s, Asked(k)) /\ Len(toServer') = Len(toServer) + 4
    <3>1. PICK all : all = Asked(k)
      OBVIOUS
    <3>2. GoesOn(toServer, s, all) /\ \A i \in 1 .. 4 : Part(msg, i, under) = all[sent + i]
      BY <3>1
    <3>3. PICK new : new = toServer'
      OBVIOUS
    <3>4. new = toServer \o Message(msg, under)
      BY <2>1, <3>3
    <3>5. GoesOn(new, s, all)
      BY ONLY <2>2, <2>3, <3>2, <3>4, s \in 0 .. 16, msg \in Names, GoesOnSent
    <3>6. Len(new) = Len(toServer) + 4
      BY <2>3, <3>4, AppendedLength DEF GoesOn
    <3>7. QED
      BY <3>1, <3>3, <3>5, <3>6
  <2>6. s + (Len(toServer) + 4) = sent + 4
    BY ONLY <2>2, s \in 0 .. 16, sent \in 4 .. 12
  <2>7. QED
    BY <2>1, <2>5, <2>6
<1>3. QED
  BY <1>1, <1>2

(* The first message each side sends is not encrypted. *)
LEMMA FirstIsPlain ==
  ASSUME NEW stream, NEW n \in 0 .. 16, NEW k, NEW l, n + Len(stream) <= 4
  PROVE  /\ GoesOn(stream, n, Asked(k)) => GoesOn(stream, n, Asked(l))
         /\ GoesOn(stream, n, Answered(k)) => GoesOn(stream, n, Answered(l))
<1>1. ASSUME stream \in Stream, NEW i \in 1 .. Len(stream)
      PROVE  Asked(k)[n + i] = Asked(l)[n + i] /\ Answered(k)[n + i] = Answered(l)[n + i]
  <2>1. PICK j \in 1 .. 4 : j = n + i
    BY <1>1 DEF Stream
  <2>2. Asked(k)[j] = Asked(l)[j] /\ Answered(k)[j] = Answered(l)[j]
    BY AllAsked, AllAnswered, ZenonT(30)
  <2>3. QED
    BY <2>1, <2>2
<1>2. QED
  BY <1>1 DEF GoesOn

(* The server's answer to the handshake, in however many parts it comes. *)
LEMMA HandshakeResponseKeeps == ClientInv /\ HandshakeResponse => ClientInv'
<1> SUFFICES ASSUME ClientInv, HandshakeResponse PROVE ClientInv'
  OBVIOUS
<1> DEFINE got(n) == Buffer(toClient, n)
<1>1. client = "hello"
  BY DEF HandshakeResponse
<1>2. UNCHANGED <<relays, list, cur_relays, cut, server, serverKey, listed>>
  BY DEF HandshakeResponse
<1>3. PICK c, s \in 0 .. 16 : InFlight(c, s)
  BY DEF ClientInv
<1>4. PICK n \in ReadSizes(toClient) :
         /\ toClient' = Rest(toClient, n)
         /\ \/ client' = "hung" /\ UNCHANGED <<keyVars, clientKey, toServer>>
            \/ /\ clientKey' = IF got(n)[3] = Part("handshake response", 3, "none")
                               THEN "shared" ELSE "client's own"
               /\ InitKeys({ServerKey})
               /\ Asks("client key", "none", "confirm")
               /\ UNCHANGED misfreed
  BY DEF HandshakeResponse
<1>5. /\ n \in 1 .. 4 /\ n <= Len(toClient) /\ c + n \in 0 .. 16
      /\ GoesOn(toClient', c + n, Answered(serverKey))
      /\ Len(toClient) \in Nat
      /\ Len(toClient') = Len(toClient) - n
      /\ \A i \in n + 1 .. 4 : got(n)[i] = Old
  BY <1>3, <1>4, GoesOnRead DEF InFlight
<1>6. PICK d \in 0 .. 16 : d = c + n
  BY <1>5
<1>7. d + Len(toClient') = c + Len(toClient) /\ GoesOn(toClient', d, Answered(serverKey))
  <2>1. GoesOn(toClient', d, Answered(serverKey))
    BY ONLY <1>5, <1>6
  <2>2. d + Len(toClient') = c + Len(toClient)
    BY ONLY <1>5, <1>6, c \in 0 .. 16
  <2>3. QED
    BY <2>1, <2>2
<1>8. c = 0
  BY <1>1, <1>3 DEF InFlight, ClientAt
<1>9. KeysAre({}, {}) /\ clientKey = "none" /\ list = <<>>
  BY <1>1 DEF ClientInv, KeyPlaces, Derived, Progress, QueryPlaces
<1>10. CASE client' = "hung" /\ UNCHANGED <<keyVars, clientKey, toServer>>
  <2>1. client' = "hung" /\ UNCHANGED <<key, misfreed, clientKey, toServer>>
    BY <1>10 DEF keyVars
  <2>2. client' \notin QueryPlaces \cup CircuitPlaces \cup Trusting /\ client' \in Finished
    BY <2>1, PlacesDiffer DEF Finished
  <2>3. InFlight(d, s)'
    BY <1>2, <1>3, <1>7, <2>1, <2>2, AfterQuery
  <2>4. Derived' /\ Progress'
    BY <1>1, <1>2, <2>1, <2>2 DEF ClientInv, Derived, Progress, QueryPlaces
  <2>5. KeyPlaces' /\ KeysFreedOnce'
    BY <1>9, <2>1, <2>2 DEF ClientInv, KeyPlaces, KeysAre, KeysFreedOnce
  <2>6. QED
    BY <1>2, <2>2, <2>3, <2>4, <2>5 DEF ClientInv
<1>11. CASE /\ clientKey' = IF got(n)[3] = Part("handshake response", 3, "none")
                             THEN "shared" ELSE "client's own"
            /\ InitKeys({ServerKey})
            /\ Asks("client key", "none", "confirm")
            /\ UNCHANGED misfreed
  <2>1. /\ clientKey' \in {"shared", "client's own"}
        /\ InitKeys({ServerKey})
        /\ Asks("client key", "none", "confirm")
        /\ UNCHANGED misfreed
    BY <1>11
  <2>2. client' = "confirm"
    BY <2>1 DEF Asks
  <2>3. n \in 1 .. 4
    BY <1>5
  <2>4. /\ server # "listening" /\ server # "hello"
        /\ s + Len(toServer) <= 4
        /\ server = "closed" \/ s + Len(toServer) = 4
    <3>1. ServerAt(s, c + Len(toClient), s + Len(toServer))
      BY <1>3 DEF InFlight
    <3>2. c + Len(toClient) # 0
      BY <1>5
    <3>3. server \in {"hello", "key", "serve"} => s + Len(toServer) = 4
      BY <1>1, <3>1, SentByIs DEF ServerAt, QueryPlaces
    <3>4. QED
      BY <1>1, <3>1, <3>2, <3>3 DEF ServerAt, ClientInv
  <2>5. GoesOn(toServer, s, Asked(clientKey'))
    BY <1>3, <2>4, FirstIsPlain DEF InFlight
  <2>6. \A i \in 1 .. 4 : Part("client key", i, "none") = Asked(clientKey')[4 + i]
    BY AllAsked
  <2>7. /\ GoesOn(toServer', s, Asked(clientKey'))
        /\ server # "closed" => s + Len(toServer') = 8
    <3>1. PICK k \in Clients : k = clientKey'
      BY <2>1 DEF Clients
    <3>2. PICK sent \in 4 .. 12 : sent = 4
      OBVIOUS
    <3>3. "client key" \in Names /\ "none" \in Clients
      BY DEF Names, Clients
    <3>4. /\ GoesOn(toServer', s, Asked(k))
          /\ server # "closed" => s + Len(toServer') = sent + 4
      BY <2>1, <2>4, <2>5, <2>6, <3>1, <3>2, <3>3, AskedMore, ZenonT(30)
    <3>5. QED
      BY <3>1, <3>2, <3>4
  <2>8. InFlight(d, s)'
    <3>1. d \in 1 .. 4
      BY <1>6, <1>8, <2>3
    <3>2. ClientAt(d)'
      BY <2>2, <3>1 DEF ClientAt
    <3>3. ServerAt(s, d + Len(toClient), s + Len(toServer))'
      BY <1>2, <1>3, <1>7, <2>2, <2>4, <2>7, SentByIs DEF ServerAt, InFlight
    <3>4. QED
      BY <1>2, <1>7, <2>7, <3>2, <3>3 DEF InFlight
  <2>9. Derived'
    BY <1>1, <1>2, <2>1, <2>2 DEF ClientInv, Derived, Clients, Trusting, CircuitPlaces
  <2>10. Progress'
    BY <1>1, <1>2, <2>2 DEF ClientInv, Progress, QueryPlaces, CircuitPlaces
  <2>11. KeysAre({ServerKey}, {})'
    BY <1>9, <2>1 DEF KeysAre, InitKeys
  <2>12. KeyPlaces' /\ KeysFreedOnce'
    BY <2>2, <2>11 DEF KeyPlaces, KeysAre, KeysFreedOnce, CircuitPlaces
  <2>13. QED
    BY <1>2, <2>2, <2>8, <2>9, <2>10, <2>12 DEF ClientInv, QueryPlaces
<1>12. QED
  BY <1>4, <1>10, <1>11

(* As long as the client waits for an answer and the server is there, all  *)
(* the client asked is under way or was read. *)
LEMMA SentSoFar ==
  ASSUME ClientInv, NEW c \in 0 .. 16, NEW s \in 0 .. 16, InFlight(c, s),
         c + Len(toClient) # 0, client \in QueryPlaces
  PROVE  /\ server \in {"key", "serve", "closed"}
         /\ server = "closed" \/ s + Len(toServer) = SentBy(client)
BY DEF InFlight, ServerAt, ClientInv

(* The fields of a part. *)
LEMMA PartFields ==
  ASSUME NEW msg, NEW i, NEW k
  PROVE  Part(msg, i, k).msg = msg /\ Part(msg, i, k).part = i /\ Part(msg, i, k).key = k
BY DEF Part

(* What the magic value proves to the client, and what it does not. *)
LEMMA MagicMeansShared ==
  ASSUME NEW c \in 1 .. 4, clientKey \in Clients \ {"none"}, serverKey \in Servers,
         Answered(serverKey)[c + 1] = Part("confirmation", 1, clientKey)
  PROVE  c = 4 /\ clientKey = "shared" /\ serverKey = "shared"
<1>1. ASSUME c # 4 PROVE FALSE
  <2>1. PICK j \in 1 .. 4 : j = c + 1
    BY <1>1
  <2>2. Answered(serverKey)[j] = Part("handshake response", j, "none")
    BY AllAnswered
  <2>3. Part("handshake response", j, "none").msg = "handshake response"
    BY DEF Part
  <2>4. Part("confirmation", 1, clientKey).msg = "confirmation"
    BY DEF Part
  <2>5. QED
    BY <2>1, <2>2, <2>3, <2>4
<1>2. c = 4
  BY <1>1
<1>3. Answered(serverKey)[4 + 1] = Part("confirmation", 1, serverKey)
  <2>1. 1 \in 1 .. 4
    OBVIOUS
  <2>2. QED
    BY ONLY <2>1, AllAnswered
<1>4. serverKey = clientKey
  <2>1. Part("confirmation", 1, serverKey) = Part("confirmation", 1, clientKey)
    BY <1>2, <1>3
  <2>2. QED
    BY <2>1, PartFields
<1>5. QED
  BY <1>2, <1>4 DEF Clients, Servers

(* The confirmation: a client that goes on knows the server's key. *)
LEMMA HandshakeConfirmationKeeps == ClientInv /\ HandshakeConfirmation => ClientInv'
<1> SUFFICES ASSUME ClientInv, HandshakeConfirmation PROVE ClientInv'
  OBVIOUS
<1>1. client = "confirm"
  BY DEF HandshakeConfirmation
<1>2. UNCHANGED <<relays, list, cur_relays, clientKey, server, serverKey, listed>>
  BY DEF HandshakeConfirmation
<1>3. PICK c, s \in 0 .. 16 : InFlight(c, s)
  BY DEF ClientInv
<1>4. PICK n \in ReadSizes(toClient) :
         /\ toClient' = Rest(toClient, n)
         /\ cut' = (n # 4)
         /\ IF Magic(Buffer(toClient, n))
            THEN Asks("map request", clientKey, "map") /\ UNCHANGED keyVars
            ELSE GatherFails /\ UNCHANGED toServer
  BY DEF HandshakeConfirmation
<1>5. /\ n \in 1 .. 4 /\ n <= Len(toClient) /\ c + n \in 0 .. 16
      /\ GoesOn(toClient', c + n, Answered(serverKey))
      /\ Len(toClient) \in Nat
      /\ Len(toClient') = Len(toClient) - n
      /\ \A i \in 1 .. n : Buffer(toClient, n)[i] = Answered(serverKey)[c + i]
  <2>1. GoesOn(toClient, c, Answered(serverKey))
    BY <1>3 DEF InFlight
  <2>2. /\ n \in 1 .. 4 /\ n <= Len(toClient) /\ c + n \in 0 .. 16
        /\ GoesOn(Rest(toClient, n), c + n, Answered(serverKey))
        /\ Len(toClient) \in Nat
        /\ Len(Rest(toClient, n)) = Len(toClient) - n
        /\ \A i \in 1 .. n : Buffer(toClient, n)[i] = Answered(serverKey)[c + i]
    <3>1. PICK all : all = Answered(serverKey)
      OBVIOUS
    <3>2. GoesOn(toClient, c, all)
      BY <2>1, <3>1
    <3>3. /\ n \in 1 .. 4 /\ n <= Len(toClient) /\ c + n \in 0 .. 16
          /\ GoesOn(Rest(toClient, n), c + n, all)
          /\ Len(toClient) \in Nat
          /\ Len(Rest(toClient, n)) = Len(toClient) - n
      BY ONLY <3>2, n \in ReadSizes(toClient), c \in 0 .. 16, GoesOnRead
    <3>4. \A i \in 1 .. n : Buffer(toClient, n)[i] = all[c + i]
      BY ONLY <3>2, n \in ReadSizes(toClient), c \in 0 .. 16, GoesOnRead
    <3>5. QED
      BY <3>1, <3>3, <3>4
  <2>3. QED
    BY <1>4, <2>2
<1>6. PICK d \in 0 .. 16 : d = c + n
  BY <1>5
<1>7. d + Len(toClient') = c + Len(toClient) /\ GoesOn(toClient', d, Answered(serverKey))
  <2>1. GoesOn(toClient', d, Answered(serverKey))
    BY ONLY <1>5, <1>6
  <2>2. d + Len(toClient') = c + Len(toClient)
    BY ONLY <1>5, <1>6, c \in 0 .. 16
  <2>3. QED
    BY <2>1, <2>2
<1>8. c \in 1 .. 4
  BY <1>1, <1>3, <1>5 DEF InFlight, ClientAt
<1>9. /\ KeysAre({ServerKey}, {}) /\ list = <<>> /\ relays \in 1 .. MAX_RELAYS
      /\ clientKey \in Clients \ {"none"} /\ serverKey \in Servers
  BY <1>1 DEF ClientInv, KeyPlaces, Derived, Progress, QueryPlaces
<1>10. cut' \in BOOLEAN
  BY <1>4
<1>11. CASE ~Magic(Buffer(toClient, n))
  <2>1. GatherFails /\ UNCHANGED toServer
    BY <1>4, <1>11
  <2>2. client' \in Finished /\ KeyPlaces' /\ KeysFreedOnce'
    BY <1>1, <1>2, <2>1, EndsInQuery
  <2>3. client' \notin QueryPlaces \cup CircuitPlaces \cup Trusting
    BY ONLY <2>2, PlacesDiffer, Zenon
  <2>4. InFlight(d, s)'
    BY <1>2, <1>3, <1>7, <2>1, <2>3, AfterQuery
  <2>5. Derived' /\ Progress'
    BY <1>1, <1>2, <1>9, <1>10, <2>3 DEF ClientInv, Derived, Progress, QueryPlaces
  <2>6. QED
    BY <1>2, <2>2, <2>4, <2>5 DEF ClientInv
<1>12. CASE Magic(Buffer(toClient, n))
  <2>1. Asks("map request", clientKey, "map") /\ UNCHANGED <<key, misfreed>>
    BY <1>4, <1>12 DEF keyVars
  <2>2. client' = "map"
    BY <2>1 DEF Asks
  <2>3. c = 4 /\ clientKey = "shared" /\ serverKey = "shared"
    <3>1. Buffer(toClient, n)[1] = Answered(serverKey)[c + 1]
      BY <1>5
    <3>2. Answered(serverKey)[c + 1] = Part("confirmation", 1, clientKey)
      BY <1>12, <3>1 DEF Magic
    <3>3. QED
      BY <1>8, <1>9, <3>2, MagicMeansShared
  <2>4. /\ server \in {"key", "serve", "closed"}
        /\ server = "closed" \/ s + Len(toServer) = 8
    <3>1. c + Len(toClient) # 0
      BY <1>5
    <3>2. QED
      BY <1>1, <1>3, <3>1, SentSoFar, SentByIs DEF QueryPlaces
  <2>5. /\ GoesOn(toServer', s, Asked(clientKey))
        /\ server # "closed" => s + Len(toServer') = 12
    <3>1. \A i \in 1 .. 4 : Part("map request", i, clientKey) = Asked(clientKey)[8 + i]
      BY AllAsked
    <3>2. PICK sent \in 4 .. 12 : sent = 8
      OBVIOUS
    <3>3. "map request" \in Names /\ clientKey \in Clients
      BY <1>9 DEF Names
    <3>4. GoesOn(toServer, s, Asked(clientKey))
      BY <1>3 DEF InFlight
    <3>5. /\ GoesOn(toServer', s, Asked(clientKey))
          /\ server # "closed" => s + Len(toServer') = sent + 4
      BY <2>1, <2>4, <3>1, <3>2, <3>3, <3>4, AskedMore
    <3>6. QED
      BY <3>2, <3>5
  <2>6. InFlight(d, s)'
    <3>1. d \in 5 .. 8 /\ (~cut' => d = 8)
      <4>1. ~cut' => n = 4
        BY <1>4
      <4>2. d = 4 + n
        BY <1>6, <2>3
      <4>3. QED
        BY <1>5, <4>1, <4>2
    <3>2. ClientAt(d)'
      BY <2>2, <3>1 DEF ClientAt
    <3>3. ServerAt(s, d + Len(toClient), s + Len(toServer))'
      BY <1>2, <1>3, <1>7, <2>2, <2>4, <2>5, SentByIs DEF ServerAt, InFlight
    <3>4. QED
      BY <1>2, <1>7, <2>5, <3>2, <3>3 DEF InFlight
  <2>7. Derived'
    BY <1>1, <1>2, <1>10, <2>2, <2>3, <2>4 DEF ClientInv, Derived, Clients, Servers
  <2>8. Progress'
    BY <1>1, <1>2, <1>9, <2>2 DEF ClientInv, Progress, QueryPlaces, CircuitPlaces
  <2>9. KeysAre({ServerKey}, {})'
    BY <1>9, <2>1 DEF KeysAre
  <2>10. KeyPlaces' /\ KeysFreedOnce'
    BY <2>1, <2>2, <2>9 DEF ClientInv, KeyPlaces, KeysAre, KeysFreedOnce, CircuitPlaces
  <2>11. QED
    BY <1>2, <2>2, <2>6, <2>7, <2>8, <2>10 DEF ClientInv, QueryPlaces
<1>13. QED
  BY <1>11, <1>12

(* The relay map: unless something was cut, the list is that of the map. *)
LEMMA FetchRelayMapKeeps == ClientInv /\ FetchRelayMap => ClientInv'
<1> SUFFICES ASSUME ClientInv, FetchRelayMap PROVE ClientInv'
  OBVIOUS
<1> DEFINE Right(n, i) == Buffer(toClient, n)[i] = Part("relay map", i, clientKey)
<1>1. client = "map"
  BY DEF FetchRelayMap
<1>2. UNCHANGED <<relays, cur_relays, clientKey, server, serverKey, listed>>
  BY DEF FetchRelayMap
<1>3. PICK c, s \in 0 .. 16 : InFlight(c, s)
  BY DEF ClientInv
<1>4. PICK n \in ReadSizes(toClient) :
         /\ toClient' = Rest(toClient, n)
         /\ cut' = (cut \/ n # 4)
         /\ \E amount \in IF Right(n, 1) THEN {listed} ELSE {0, MAX_RELAYS} :
               IF amount < relays
               THEN GatherFails /\ UNCHANGED <<list, toServer>>
               ELSE /\ list' = [i \in 1 .. relays |->
                                   IF Right(n, IF i = 1 THEN 1 ELSE 2) THEN i ELSE 0]
                    /\ Asks("exit request", clientKey, "exit")
                    /\ UNCHANGED keyVars
  BY DEF FetchRelayMap
<1>5. /\ n \in 1 .. 4 /\ n <= Len(toClient) /\ c + n \in 0 .. 16
      /\ GoesOn(toClient', c + n, Answered(serverKey))
      /\ Len(toClient) \in Nat
      /\ Len(toClient') = Len(toClient) - n
      /\ \A i \in 1 .. n : Buffer(toClient, n)[i] = Answered(serverKey)[c + i]
  <2>1. PICK all : all = Answered(serverKey)
    OBVIOUS
  <2>2. GoesOn(toClient, c, all)
    BY <1>3, <2>1 DEF InFlight
  <2>3. /\ n \in 1 .. 4 /\ n <= Len(toClient) /\ c + n \in 0 .. 16
        /\ GoesOn(Rest(toClient, n), c + n, all)
        /\ Len(toClient) \in Nat
        /\ Len(Rest(toClient, n)) = Len(toClient) - n
    BY ONLY <2>2, n \in ReadSizes(toClient), c \in 0 .. 16, GoesOnRead
  <2>4. \A i \in 1 .. n : Buffer(toClient, n)[i] = all[c + i]
    BY ONLY <2>2, n \in ReadSizes(toClient), c \in 0 .. 16, GoesOnRead
  <2>5. QED
    BY <1>4, <2>1, <2>3, <2>4
<1>6. PICK d \in 0 .. 16 : d = c + n
  BY <1>5
<1>7. d + Len(toClient') = c + Len(toClient) /\ GoesOn(toClient', d, Answered(serverKey))
  <2>1. GoesOn(toClient', d, Answered(serverKey))
    BY ONLY <1>5, <1>6
  <2>2. d + Len(toClient') = c + Len(toClient)
    BY ONLY <1>5, <1>6, c \in 0 .. 16
  <2>3. QED
    BY <2>1, <2>2
<1>8. c \in 5 .. 8 /\ (~cut => c = 8)
  BY <1>1, <1>3, <1>5 DEF InFlight, ClientAt
<1>9. /\ KeysAre({ServerKey}, {}) /\ list = <<>> /\ relays \in 1 .. MAX_RELAYS
      /\ clientKey = "shared" /\ serverKey = "shared" /\ listed \in 0 .. MaxListed
      /\ cur_relays = 0
  BY <1>1 DEF ClientInv, KeyPlaces, Derived, Progress, QueryPlaces, Trusting
<1>10. cut' \in BOOLEAN
  BY <1>4
<1>11. PICK amount :
            /\ amount \in IF Right(n, 1) THEN {listed} ELSE {0, MAX_RELAYS}
            /\ IF amount < relays
               THEN GatherFails /\ UNCHANGED <<list, toServer>>
               ELSE /\ list' = [i \in 1 .. relays |->
                                   IF Right(n, IF i = 1 THEN 1 ELSE 2) THEN i ELSE 0]
                    /\ Asks("exit request", clientKey, "exit")
                    /\ UNCHANGED keyVars
  BY <1>4
<1>12. CASE amount < relays
  <2>1. GatherFails /\ UNCHANGED <<list, toServer>>
    BY <1>11, <1>12
  <2>2. client' \in Finished /\ KeyPlaces' /\ KeysFreedOnce'
    BY <1>1, <1>2, <2>1, EndsInQuery, SMTT(30)
  <2>3. client' \notin QueryPlaces \cup CircuitPlaces \cup Trusting
    BY ONLY <2>2, PlacesDiffer, Zenon
  <2>4. InFlight(d, s)'
    BY <1>2, <1>3, <1>7, <2>1, <2>3, AfterQuery
  <2>5. Derived' /\ Progress'
    BY <1>1, <1>2, <1>9, <1>10, <2>1, <2>3 DEF ClientInv, Derived, Progress, QueryPlaces
  <2>6. QED
    BY <1>2, <2>2, <2>4, <2>5 DEF ClientInv
<1>13. CASE ~(amount < relays)
  <2>1. /\ list' = [i \in 1 .. relays |-> IF Right(n, IF i = 1 THEN 1 ELSE 2) THEN i ELSE 0]
        /\ Asks("exit request", clientKey, "exit")
        /\ UNCHANGED <<key, misfreed>>
    BY <1>11, <1>13 DEF keyVars
  <2>2. client' = "exit"
    BY <2>1 DEF Asks
  <2>3. /\ list' \in Seq(0 .. MAX_RELAYS) /\ Len(list') = relays
        /\ Right(n, 1) /\ Right(n, 2) => list' = InOrder
    <3>1. list' \in [1 .. relays -> 0 .. MAX_RELAYS]
      <4>1. \A i \in 1 .. relays : i \in 0 .. MAX_RELAYS /\ 0 \in 0 .. MAX_RELAYS
        BY <1>9, ClientAssumption
      <4>2. \A i \in 1 .. relays :
               (IF Right(n, IF i = 1 THEN 1 ELSE 2) THEN i ELSE 0) \in 0 .. MAX_RELAYS
        BY <4>1
      <4>3. QED
        BY <2>1, <4>2
    <3>2. relays \in Nat
      BY <1>9, ClientAssumption
    <3>3. \A S : \A m \in Nat : [1 .. m -> S] \subseteq Seq(S)
      BY SeqDef
    <3>4. list' \in Seq(0 .. MAX_RELAYS)
      BY <3>1, <3>2, <3>3
    <3>5. DOMAIN list' = 1 .. relays /\ DOMAIN list' = 1 .. Len(list') /\ Len(list') \in Nat
      BY <3>1, <3>4, LenProperties
    <3>6. Len(list') = relays
      BY <3>2, <3>5
    <3>7. ASSUME Right(n, 1), Right(n, 2) PROVE list' = InOrder
      <4>1. \A i \in 1 .. relays : Right(n, IF i = 1 THEN 1 ELSE 2)
        BY <3>7
      <4>2. QED
        BY <2>1, <4>1 DEF InOrder
    <3>8. QED
      BY <3>4, <3>6, <3>7
  <2>4. ASSUME ~cut' PROVE list' = InOrder /\ relays <= listed
    <3>1. c = 8 /\ n = 4
      BY <1>4, <1>8, <2>4
    <3>2. \A i \in 1 .. 4 : Buffer(toClient, n)[i] = Answered(serverKey)[8 + i]
      BY <1>5, <3>1
    <3>3. Right(n, 1) /\ Right(n, 2)
      <4>1. \A i \in 1 .. 4 : Right(n, i)
        BY <1>9, <3>2, AllAnswered
      <4>2. 1 \in 1 .. 4 /\ 2 \in 1 .. 4
        OBVIOUS
      <4>3. QED
        BY <4>1, <4>2
    <3>4. amount = listed
      BY <1>11, <3>3
    <3>5. QED
      <4>1. relays <= listed
        BY <1>9, <1>13, <3>4, ClientAssumption
      <4>2. QED
        BY <2>3, <3>3, <4>1
  <2>5. /\ server \in {"key", "serve", "closed"}
        /\ server = "closed" \/ s + Len(toServer) = 12
    <3>1. c + Len(toClient) # 0
      BY <1>5
    <3>2. QED
      BY <1>1, <1>3, <3>1, SentSoFar, SentByIs DEF QueryPlaces
  <2>6. /\ GoesOn(toServer', s, Asked(clientKey))
        /\ server # "closed" => s + Len(toServer') = 16
    <3>1. \A i \in 1 .. 4 : Part("exit request", i, clientKey) = Asked(clientKey)[12 + i]
      BY AllAsked
    <3>2. PICK sent \in 4 .. 12 : sent = 12
      OBVIOUS
    <3>3. "exit request" \in Names /\ clientKey \in Clients
      BY <1>9 DEF Names, Clients
    <3>4. GoesOn(toServer, s, Asked(clientKey))
      BY <1>3 DEF InFlight
    <3>5. /\ GoesOn(toServer', s, Asked(clientKey))
          /\ server # "closed" => s + Len(toServer') = sent + 4
      BY <2>1, <2>5, <3>1, <3>2, <3>3, <3>4, AskedMore
    <3>6. QED
      BY <3>2, <3>5
  <2>7. InFlight(d, s)'
    <3>1. ClientAt(d)'
      BY <2>2 DEF ClientAt
    <3>2. ServerAt(s, d + Len(toClient), s + Len(toServer))'
      BY <1>2, <1>3, <1>7, <2>2, <2>5, <2>6, SentByIs DEF ServerAt, InFlight
    <3>3. QED
      BY <1>2, <1>7, <2>6, <3>1, <3>2 DEF InFlight
  <2>8. Derived'
    BY <1>1, <1>2, <1>9, <1>10, <2>2, <2>5 DEF ClientInv, Derived, Clients, Servers
  <2>9. Progress'
    BY <1>1, <1>2, <1>9, <2>2, <2>3, <2>4 DEF ClientInv, Progress, QueryPlaces, CircuitPlaces, InOrder
  <2>10. KeysAre({ServerKey}, {})'
    BY <1>9, <2>1 DEF KeysAre
  <2>11. KeyPlaces' /\ KeysFreedOnce'
    BY <2>1, <2>2, <2>10 DEF ClientInv, KeyPlaces, KeysAre, KeysFreedOnce, CircuitPlaces
  <2>12. QED
    BY <1>2, <2>2, <2>7, <2>8, <2>9, <2>11 DEF ClientInv, QueryPlaces
<1>14. QED
  BY <1>12, <1>13

(* The answer to the exit request is not looked at. *)
LEMMA HandleExitKeeps == ClientInv /\ HandleExit => ClientInv'
<1> SUFFICES ASSUME ClientInv, HandleExit PROVE ClientInv'
  OBVIOUS
<1>1. client = "exit" /\ client' = "guard"
  BY DEF HandleExit
<1>2. UNCHANGED <<relays, list, cur_relays, clientKey, cut, server, serverKey, listed, toServer>>
  BY DEF HandleExit
<1>3. PICK c, s \in 0 .. 16 : InFlight(c, s)
  BY DEF ClientInv
<1>4. PICK n \in ReadSizes(toClient) : toClient' = Rest(toClient, n)
  BY DEF HandleExit
<1>5. PICK d \in 0 .. 16 : /\ d + Len(toClient') = c + Len(toClient)
                           /\ GoesOn(toClient', d, Answered(serverKey))
  <2>1. GoesOn(toClient, c, Answered(serverKey))
    BY <1>3 DEF InFlight
  <2>2. /\ n \in 1 .. 4 /\ n <= Len(toClient) /\ c + n \in 0 .. 16
        /\ GoesOn(toClient', c + n, Answered(serverKey))
        /\ Len(toClient) \in Nat
        /\ Len(toClient') = Len(toClient) - n
    BY <1>4, <2>1, GoesOnRead
  <2>3. c + n + Len(toClient') = c + Len(toClient)
    BY <2>2
  <2>4. QED
    BY <2>2, <2>3
<1>6. InFlight(d, s)'
  BY <1>1, <1>2, <1>3, <1>5, AfterQuery DEF QueryPlaces
<1>7. Derived' /\ Progress'
  BY <1>1, <1>2 DEF ClientInv, Derived, Progress, QueryPlaces, CircuitPlaces, Trusting, InOrder
<1>8. KeysAre({}, {ServerKey})'
  <2>1. KeysAre({ServerKey}, {}) /\ ServerKey \in Keys
    BY <1>1 DEF ClientInv, KeyPlaces, Keys
  <2>2. FreeKeys({ServerKey})
    BY DEF HandleExit
  <2>3. QED
    BY <2>1, <2>2 DEF FreeKeys, KeysAre
<1>9. KeyPlaces' /\ KeysFreedOnce'
  BY <1>1, <1>8 DEF KeyPlaces, KeysAre, KeysFreedOnce, CircuitPlaces
<1>10. QED
  BY <1>1, <1>2, <1>6, <1>7, <1>9 DEF ClientInv, CircuitPlaces

(* The connection breaks. *)
LEMMA BreaksKeeps == ClientInv /\ Breaks => ClientInv'
<1> SUFFICES ASSUME ClientInv, Breaks PROVE ClientInv'
  OBVIOUS
<1>1. UNCHANGED <<relays, list, cur_relays, clientKey, cut, server, serverKey, listed, toServer,
                  toClient>>
  BY DEF Breaks, queryVars
<1>2. client \in {"hello", "confirm", "map", "exit"}
  BY DEF Breaks
<1>3. client' \in Finished /\ KeyPlaces' /\ KeysFreedOnce'
  <2>1. CASE GatherFails
    BY <1>1, <1>2, <2>1, EndsInQuery
  <2>2. CASE client # "hello" /\ client' = "killed" /\ UNCHANGED keyVars
    <3>1. KeysAre({ServerKey}, {})
      BY <1>2, <2>2 DEF ClientInv, KeyPlaces
    <3>2. client' \in Finished /\ client' \notin QueryPlaces /\ client' \notin CircuitPlaces
      BY <2>2, PlacesDiffer DEF Finished
    <3>3. QED
      BY <2>2, <3>1, <3>2 DEF ClientInv, KeyPlaces, KeysAre, KeysFreedOnce, keyVars, QueryPlaces
  <2>3. QED
    BY <2>1, <2>2 DEF Breaks
<1>4. client' \notin QueryPlaces \cup CircuitPlaces \cup Trusting
  BY ONLY <1>3, PlacesDiffer, Zenon
<1>5. PICK c, s \in 0 .. 16 : InFlight(c, s)
  BY DEF ClientInv
<1>6. InFlight(c, s)'
  BY <1>1, <1>4, <1>5, AfterQuery DEF InFlight
<1>7. Derived' /\ Progress'
  <2>1. Derived'
    BY <1>1, <1>2, <1>4 DEF ClientInv, Derived, QueryPlaces, Trusting
  <2>2. Progress'
    BY <1>1, <1>2, <1>4 DEF ClientInv, Progress, QueryPlaces, CircuitPlaces
  <2>3. QED
    BY <2>1, <2>2
<1>8. QED
  BY <1>1, <1>3, <1>6, <1>7 DEF ClientInv

-----------------------------------------------------------------------------
(* A step of the circuit's part: only the place, the number of hops and    *)
(* the keys change. *)
LEMMA CircuitStep ==
  ASSUME ClientInv, client \in CircuitPlaces, client' \in CircuitPlaces \cup Finished,
         UNCHANGED <<relays, list, clientKey, cut, server, serverKey, listed, toServer, toClient>>
  PROVE  /\ Derived'
         /\ \E c, s \in 0 .. 16 : InFlight(c, s)'
         /\ /\ relays \in 1 .. MAX_RELAYS /\ listed \in 0 .. MaxListed
            /\ list \in Seq(0 .. MAX_RELAYS) /\ Len(list) = relays
            /\ ~cut => list = InOrder /\ relays <= listed
            /\ cur_relays \in 0 .. relays
<1>1. PICK c, s \in 0 .. 16 : InFlight(c, s)
  BY DEF ClientInv
<1>2. client' \notin QueryPlaces /\ client \in Trusting /\ client \notin QueryPlaces
  BY PlacesDiffer
<1>3. InFlight(c, s)'
  BY <1>1, <1>2, AfterQuery DEF InFlight
<1>4. Derived'
  BY <1>2 DEF ClientInv, Derived, QueryPlaces
<1>5. /\ relays \in 1 .. MAX_RELAYS /\ listed \in 0 .. MaxListed
      /\ list \in Seq(0 .. MAX_RELAYS) /\ Len(list) = relays
      /\ ~cut => list = InOrder /\ relays <= listed
      /\ cur_relays \in 0 .. relays
  BY <1>2 DEF ClientInv, Progress, QueryPlaces
<1>6. QED
  BY <1>3, <1>4, <1>5, SMTT(30)

(* The progress of a client that is done with the query. *)
LEMMA CircuitProgress ==
  ASSUME relays \in 1 .. MAX_RELAYS, listed \in 0 .. MaxListed,
         list \in Seq(0 .. MAX_RELAYS), Len(list) = relays,
         ~cut => list = InOrder /\ relays <= listed,
         UNCHANGED <<relays, list, cut, listed>>,
         client' \in CircuitPlaces \cup Finished, cur_relays' \in 0 .. relays,
         client' \in {"create", "extend"} => cur_relays' < relays,
         client' \in {"guard", "no guard", "tls"} => cur_relays' = 0
  PROVE  Progress'
<1>1. client' \notin QueryPlaces
  BY PlacesDiffer
<1>2. relays \in 0 .. MAX_RELAYS
  BY ONLY relays \in 1 .. MAX_RELAYS, ClientAssumption
<1>3. QED
  BY <1>1, <1>2 DEF Progress, QueryPlaces, InOrder

(* The keys of a session that waits for its circuit, and of one that ends. *)
LEMMA FreesSession ==
  ASSUME ClientInv, client \in CircuitPlaces \ {"guard"}, FreeKeys(FreeSessionKeys),
         client' \in Finished, UNCHANGED <<clientKey, relays, list, cur_relays>>
  PROVE  KeyPlaces' /\ KeysFreedOnce'
<1>1. KeysAre(FreeSessionKeys, {ServerKey})
  BY DEF ClientInv, KeyPlaces
<1>2. FreeSessionKeys \subseteq Keys
  <2>1. relays \in 1 .. MAX_RELAYS
    BY DEF ClientInv, Progress, CircuitPlaces
  <2>2. QED
    BY <2>1, ClientAssumption DEF FreeSessionKeys, OnionKeys, Keys
<1>3. misfreed' = {} /\ key' \in [Keys -> {"raw", "freed"}]
  BY <1>1, <1>2 DEF FreeKeys, KeysAre
<1>4. client' \notin QueryPlaces /\ client' \notin CircuitPlaces
  BY PlacesDiffer
<1>5. KeyPlaces'
  BY <1>3, <1>4 DEF KeyPlaces, QueryPlaces, CircuitPlaces
<1>6. \A k \in Keys : key'[k] # "allocated"
  BY <1>3
<1>7. QED
  BY <1>3, <1>5, <1>6 DEF KeysFreedOnce

(* init_session *)
LEMMA InitSessionKeeps == ClientInv /\ InitSession => ClientInv'
<1> SUFFICES ASSUME ClientInv, InitSession PROVE ClientInv'
  OBVIOUS
<1>1. client = "guard" /\ client' \in {"no guard", "tls"}
  BY DEF InitSession
<1>2. UNCHANGED <<relays, list, cur_relays, misfreed, clientKey, cut, server, serverKey, listed,
                  toServer, toClient>>
  BY DEF InitSession, queryVars
<1>3. client \in CircuitPlaces /\ client' \in CircuitPlaces
  BY <1>1 DEF CircuitPlaces
<1>4. /\ Derived'
      /\ \E c, s \in 0 .. 16 : InFlight(c, s)'
      /\ /\ relays \in 1 .. MAX_RELAYS /\ listed \in 0 .. MaxListed
         /\ list \in Seq(0 .. MAX_RELAYS) /\ Len(list) = relays
         /\ ~cut => list = InOrder /\ relays <= listed
         /\ cur_relays \in 0 .. relays
  BY <1>2, <1>3, CircuitStep
<1>5. cur_relays = 0
  BY <1>1 DEF ClientInv, Progress
<1>6. Progress'
  BY <1>1, <1>2, <1>3, <1>4, <1>5, CircuitProgress
<1>7. KeysAre(FreeSessionKeys, {ServerKey})'
  <2>1. KeysAre({}, {ServerKey})
    BY <1>1 DEF ClientInv, KeyPlaces
  <2>2. QED
    BY <1>2, <2>1 DEF InitSession, InitKeys, KeysAre, FreeSessionKeys
<1>8. KeyPlaces' /\ KeysFreedOnce'
  BY <1>1, <1>7 DEF KeyPlaces, KeysAre, KeysFreedOnce
<1>9. QED
  BY <1>2, <1>3, <1>4, <1>6, <1>8 DEF ClientInv

(* The circuit's part ends with the session freed, once ... *)
LEMMA EndsKeeps ==
  ASSUME ClientInv, client \in CircuitPlaces \ {"guard"},
         NEW result \in Finished, EndsFreeing(result),
         UNCHANGED <<relays, list, cur_relays, clientKey, cut, queryVars>>
  PROVE  ClientInv'
<1>1. client' \in Finished /\ FreeKeys(FreeSessionKeys)
  BY DEF EndsFreeing
<1>2. UNCHANGED <<server, serverKey, listed, toServer, toClient>>
  BY DEF queryVars
<1>3. /\ Derived'
      /\ \E c, s \in 0 .. 16 : InFlight(c, s)'
      /\ /\ relays \in 1 .. MAX_RELAYS /\ listed \in 0 .. MaxListed
         /\ list \in Seq(0 .. MAX_RELAYS) /\ Len(list) = relays
         /\ ~cut => list = InOrder /\ relays <= listed
         /\ cur_relays \in 0 .. relays
  BY <1>1, <1>2, CircuitStep
<1>4. client' \notin CircuitPlaces
  BY <1>1, PlacesDiffer
<1>5. Progress'
  BY <1>1, <1>2, <1>3, <1>4, CircuitProgress DEF CircuitPlaces
<1>6. KeyPlaces' /\ KeysFreedOnce'
  BY <1>1, FreesSession
<1>7. QED
  BY <1>1, <1>2, <1>3, <1>5, <1>6 DEF ClientInv

(* ... or twice, when the circuit could not be built. *)
LEMMA CircuitFailsKeeps == ClientInv /\ CircuitFails => ClientInv'
<1> SUFFICES ASSUME ClientInv, CircuitFails PROVE ClientInv'
  OBVIOUS
<1>1. client \in {"create", "extend"} /\ client' \in {"failed", "crashed"}
  BY DEF CircuitFails, EndsFreeingTwice
<1>2. client \in CircuitPlaces /\ client' \in Finished
  BY <1>1 DEF CircuitPlaces, Finished
<1>3. UNCHANGED <<relays, list, cur_relays, clientKey, cut, server, serverKey, listed, toServer,
                  toClient>>
  BY DEF CircuitFails, queryVars
<1>4. /\ Derived'
      /\ \E c, s \in 0 .. 16 : InFlight(c, s)'
      /\ /\ relays \in 1 .. MAX_RELAYS /\ listed \in 0 .. MaxListed
         /\ list \in Seq(0 .. MAX_RELAYS) /\ Len(list) = relays
         /\ ~cut => list = InOrder /\ relays <= listed
         /\ cur_relays \in 0 .. relays
  BY <1>2, <1>3, CircuitStep
<1>5. Progress'
  BY <1>1, <1>2, <1>3, <1>4, CircuitProgress
<1>6. KeysAre(FreeSessionKeys, {ServerKey}) /\ cur_relays < relays
  BY <1>1 DEF ClientInv, KeyPlaces, Progress, CircuitPlaces
<1>7. /\ misfreed' = FreeSessionKeys
      /\ key' \in [Keys -> {"raw", "freed"}]
      /\ FreeSessionKeys \subseteq Keys
  <2>1. FreeSessionKeys \subseteq Keys
    BY <1>4, ClientAssumption DEF FreeSessionKeys, OnionKeys, Keys
  <2>2. QED
    BY <1>6, <2>1 DEF CircuitFails, EndsFreeingTwice, KeysAre
<1>8. KeyPlaces'
  BY <1>1, <1>7 DEF KeyPlaces, CircuitPlaces
<1>9. KeysFreedOnce'
  <2>1. misfreed' = FreeSessionKeys' /\ 0 < Len(list') /\ cur_relays' < relays'
    BY <1>3, <1>4, <1>6, <1>7 DEF FreeSessionKeys
  <2>2. \A k \in Keys : key'[k] # "allocated"
    BY <1>7
  <2>3. QED
    BY <2>1, <2>2 DEF KeysFreedOnce
<1>10. QED
  BY <1>2, <1>3, <1>4, <1>5, <1>8, <1>9 DEF ClientInv

(* The steps that only go on. *)
LEMMA CircuitGoesOn == ClientInv /\ (TlsSuccess \/ HopAdded) => ClientInv'
<1> SUFFICES ASSUME ClientInv, TlsSuccess \/ HopAdded PROVE ClientInv'
  OBVIOUS
<1>1. /\ client \in {"tls", "create", "extend"}
      /\ client' \in {"create", "extend", "running"}
  BY DEF TlsSuccess, HopAdded
<1>2. client \in CircuitPlaces /\ client' \in CircuitPlaces
  BY <1>1 DEF CircuitPlaces
<1>3. UNCHANGED <<relays, list, key, misfreed, clientKey, cut, server, serverKey, listed, toServer,
                  toClient>>
  BY DEF TlsSuccess, HopAdded, keyVars, queryVars
<1>4. /\ Derived'
      /\ \E c, s \in 0 .. 16 : InFlight(c, s)'
      /\ /\ relays \in 1 .. MAX_RELAYS /\ listed \in 0 .. MaxListed
         /\ list \in Seq(0 .. MAX_RELAYS) /\ Len(list) = relays
         /\ ~cut => list = InOrder /\ relays <= listed
         /\ cur_relays \in 0 .. relays
  BY <1>2, <1>3, CircuitStep
<1>5. /\ cur_relays' \in 0 .. relays
      /\ client' \in {"create", "extend"} => cur_relays' < relays
  <2>1. CASE TlsSuccess
    BY <1>4, <2>1, ClientAssumption DEF TlsSuccess, ClientInv, Progress
  <2>2. CASE HopAdded
    <3>1. cur_relays < relays /\ cur_relays' = cur_relays + 1
      BY <2>2 DEF HopAdded, ClientInv, Progress
    <3>2. cur_relays' \in 0 .. relays
      BY <1>4, <3>1, ClientAssumption
    <3>3. client' = IF cur_relays' < relays THEN "extend" ELSE "running"
      BY <2>2 DEF HopAdded
    <3>4. QED
      BY <3>2, <3>3
  <2>3. QED
    BY <2>1, <2>2
<1>6. Progress'
  BY <1>1, <1>2, <1>3, <1>4, <1>5, CircuitProgress
<1>7. KeysAre(FreeSessionKeys, {ServerKey})'
  BY <1>1, <1>2, <1>3 DEF ClientInv, KeyPlaces, KeysAre, FreeSessionKeys
<1>8. KeyPlaces' /\ KeysFreedOnce'
  BY <1>1, <1>3, <1>7 DEF ClientInv, KeyPlaces, KeysAre, KeysFreedOnce
<1>9. QED
  BY <1>2, <1>3, <1>4, <1>6, <1>8 DEF ClientInv

-----------------------------------------------------------------------------
(* A step of the server leaves the client's own state alone. *)
LEMMA ServerLeavesClient ==
  ASSUME ClientInv,
         UNCHANGED <<client, relays, list, cur_relays, keyVars, clientKey, cut, listed>>,
         server' \in {"listening", "hello", "key", "serve", "closed"},
         Derived', NEW c \in 0 .. 16, NEW s \in 0 .. 16, InFlight(c, s)'
  PROVE  ClientInv'
<1>1. UNCHANGED <<client, relays, list, cur_relays, key, misfreed, clientKey, cut, listed>>
  BY DEF keyVars
<1>2. Progress'
  <2>1. Progress
    BY DEF ClientInv
  <2>2. QED
    BY ONLY <1>1, <2>1 DEF Progress, InOrder
<1>3. KeyPlaces'
  BY <1>1 DEF ClientInv, KeyPlaces, KeysAre, FreeSessionKeys
<1>4. KeysFreedOnce'
  BY <1>1 DEF ClientInv, KeysFreedOnce, FreeSessionKeys
<1>5. QED
  BY <1>1, <1>2, <1>3, <1>4 DEF ClientInv

(* What a read of the server does to what was asked. *)
LEMMA ServerTakes ==
  ASSUME NEW c \in 0 .. 16, NEW s \in 0 .. 16, InFlight(c, s),
         NEW pc, NEW n \in Parts, ServerReads(pc, n), UNCHANGED clientKey
  PROVE  /\ server = pc /\ n \in 1 .. 4 /\ s + n \in 0 .. 16
         /\ GoesOn(toServer', s + n, Asked(clientKey'))
         /\ s + n + Len(toServer') = s + Len(toServer)
         /\ \A i \in 1 .. n : Buffer(toServer, n)[i] = Asked(clientKey)[s + i]
<1>1. PICK all : all = Asked(clientKey)
  OBVIOUS
<1>2. GoesOn(toServer, s, all)
  BY <1>1 DEF InFlight
<1>3. server = pc /\ n \in ReadSizes(toServer) /\ toServer' = Rest(toServer, n)
  BY DEF ServerReads
<1>4. /\ n \in 1 .. 4 /\ n <= Len(toServer) /\ s + n \in 0 .. 16
      /\ GoesOn(Rest(toServer, n), s + n, all)
      /\ Len(toServer) \in Nat
      /\ Len(Rest(toServer, n)) = Len(toServer) - n
  BY ONLY <1>2, <1>3, s \in 0 .. 16, GoesOnRead
<1>5. \A i \in 1 .. n : Buffer(toServer, n)[i] = all[s + i]
  BY ONLY <1>2, <1>3, s \in 0 .. 16, GoesOnRead
<1>6. s + n + Len(toServer') = s + Len(toServer)
  BY <1>3, <1>4
<1>7. QED
  BY <1>1, <1>3, <1>4, <1>5, <1>6

(* The server appends the answer that comes next. *)
LEMMA AnsweredMore ==
  ASSUME NEW c \in 0 .. 16, NEW k \in Servers, GoesOn(toClient, c, Answered(k)),
         NEW sent \in 0 .. 12, c + Len(toClient) = sent,
         NEW msg \in Names, NEW under \in Servers,
         \A i \in 1 .. 4 : Part(msg, i, under) = Answered(k)[sent + i],
         NEW pc, ServerAnswers(msg, under, pc)
  PROVE  /\ GoesOn(toClient', c, Answered(k))
         /\ c + Len(toClient') = sent + 4
         /\ server' = pc
<1>1. toClient' = toClient \o Message(msg, under) /\ server' = pc
  BY DEF ServerAnswers
<1>2. under \in Clients \cup Servers /\ Len(toClient) \in Nat
  BY DEF GoesOn, Stream
<1>3. sent \in 0 .. 12 /\ c + Len(toClient) = sent
  OBVIOUS
<1>4. GoesOn(toClient', c, Answered(k)) /\ Len(toClient') = Len(toClient) + 4
  <2>1. PICK all : all = Answered(k)
    OBVIOUS
  <2>2. GoesOn(toClient, c, all) /\ \A i \in 1 .. 4 : Part(msg, i, under) = all[sent + i]
    BY <2>1
  <2>3. PICK new : new = toClient'
    OBVIOUS
  <2>4. new = toClient \o Message(msg, under)
    BY <1>1, <2>3, SMTT(30)
  <2>5. GoesOn(new, c, all)
    BY ONLY <1>2, <1>3, <2>2, <2>4, c \in 0 .. 16, msg \in Names, GoesOnSent
  <2>6. Len(new) = Len(toClient) + 4
    BY <1>2, <2>4, AppendedLength DEF GoesOn
  <2>7. QED
    BY <2>1, <2>3, <2>5, <2>6
<1>5. c + (Len(toClient) + 4) = sent + 4
  BY ONLY <1>2, <1>3, c \in 0 .. 16
<1>6. QED
  BY <1>1, <1>4, <1>5

(* The server's handshake. *)
LEMMA ServerHandshakeKeeps == ClientInv /\ ServerHandshake => ClientInv'
<1> SUFFICES ASSUME ClientInv, ServerHandshake PROVE ClientInv'
  OBVIOUS
<1>1. UNCHANGED <<client, relays, list, cur_relays, keyVars, clientKey, cut, serverKey, listed>>
  BY DEF ServerHandshake
<1>2. PICK c, s \in 0 .. 16 : InFlight(c, s)
  BY DEF ClientInv
<1>3. PICK n \in Parts : ServerReads("hello", n)
  BY DEF ServerHandshake
<1>4. /\ server = "hello" /\ n \in 1 .. 4 /\ s + n \in 0 .. 16
      /\ GoesOn(toServer', s + n, Asked(clientKey'))
      /\ s + n + Len(toServer') = s + Len(toServer)
  BY <1>1, <1>2, <1>3, ServerTakes
<1>5. PICK t \in 0 .. 16 : t = s + n
  BY <1>4
<1>6. c + Len(toClient) = 0 /\ s = 0
  BY <1>2, <1>4 DEF InFlight, ServerAt
<1>7. c = 0
  BY <1>2, <1>6 DEF InFlight, GoesOn, Stream
<1>8. serverKey = "none" /\ serverKey \in Servers
  BY <1>4 DEF ClientInv, Derived, Servers
<1>9. /\ GoesOn(toClient', c, Answered(serverKey'))
      /\ c + Len(toClient') = 4
      /\ server' = "key"
  <2>1. PICK sent \in 0 .. 12 : sent = 0
    OBVIOUS
  <2>2. \A i \in 1 .. 4 : Part("handshake response", i, "none") = Answered(serverKey)[sent + i]
    <3>1. TAKE i \in 1 .. 4
    <3>2. sent + i = i
      BY ONLY <2>1, i \in 1 .. 4
    <3>3. QED
      BY <3>2, AllAnswered
  <2>3. "handshake response" \in Names /\ "none" \in Servers
    BY DEF Names, Servers
  <2>4. GoesOn(toClient, c, Answered(serverKey)) /\ c + Len(toClient) = sent
    BY <1>2, <1>6, <2>1 DEF InFlight
  <2>5. ServerAnswers("handshake response", "none", "key")
    BY DEF ServerHandshake
  <2>6. /\ GoesOn(toClient', c, Answered(serverKey))
        /\ c + Len(toClient') = sent + 4
        /\ server' = "key"
    <3>1. GoesOn(toClient', c, Answered(serverKey))
      BY ONLY <1>8, <2>2, <2>3, <2>4, <2>5, c \in 0 .. 16, sent \in 0 .. 12, AnsweredMore
    <3>2. c + Len(toClient') = sent + 4
      BY ONLY <1>8, <2>2, <2>3, <2>4, <2>5, c \in 0 .. 16, sent \in 0 .. 12, AnsweredMore
    <3>3. server' = "key"
      BY DEF ServerHandshake, ServerAnswers
    <3>4. QED
      BY <3>1, <3>2, <3>3
  <2>7. sent + 4 = 4
    BY ONLY <2>1
  <2>8. QED
    BY <1>1, <2>6, <2>7
<1>10. ClientAt(c)'
  BY <1>1, <1>2, <1>4, <1>7 DEF InFlight, ClientAt
<1>11. ServerAt(t, c + Len(toClient), t + Len(toServer))'
  <2>1. t \in 1 .. 4 /\ t + Len(toServer') = s + Len(toServer)
    BY <1>4, <1>5, <1>6
  <2>2. QED
    BY <1>1, <1>2, <1>4, <1>9, <2>1 DEF InFlight, ServerAt
<1>13. InFlight(c, t)'
  BY <1>4, <1>5, <1>9, <1>10, <1>11 DEF InFlight
<1>14. Derived'
  BY <1>1, <1>8, <1>9 DEF ClientInv, Derived
<1>15. QED
  BY <1>1, <1>9, <1>13, <1>14, ServerLeavesClient

(* The server's confirmation. *)
LEMMA ServerConfirmsKeeps == ClientInv /\ ServerConfirms => ClientInv'
<1> SUFFICES ASSUME ClientInv, ServerConfirms PROVE ClientInv'
  OBVIOUS
<1>1. UNCHANGED <<client, relays, list, cur_relays, keyVars, clientKey, cut, listed>>
  BY DEF ServerConfirms
<1>2. PICK c, s \in 0 .. 16 : InFlight(c, s)
  BY DEF ClientInv
<1>3. PICK n \in Parts : /\ ServerReads("key", n)
                         /\ serverKey' \in {"shared", "server's own"}
  BY DEF ServerConfirms
<1>4. /\ server = "key" /\ n \in 1 .. 4 /\ s + n \in 0 .. 16
      /\ GoesOn(toServer', s + n, Asked(clientKey'))
      /\ s + n + Len(toServer') = s + Len(toServer)
  BY <1>1, <1>2, <1>3, ServerTakes
<1>5. PICK t \in 0 .. 16 : t = s + n
  BY <1>4
<1>6. c + Len(toClient) = 4 /\ s \in 1 .. 4
  BY <1>2, <1>4 DEF InFlight, ServerAt
<1>7. serverKey' \in Servers /\ serverKey = "none"
  BY <1>3, <1>4 DEF ClientInv, Derived, Servers
<1>8. /\ GoesOn(toClient', c, Answered(serverKey'))
      /\ c + Len(toClient') = 8
      /\ server' = "serve"
  <2>1. PICK sent \in 0 .. 12 : sent = 4
    OBVIOUS
  <2>2. PICK k \in Servers : k = serverKey'
    BY <1>7
  <2>3. \A i \in 1 .. 4 : Part("confirmation", i, k) = Answered(k)[sent + i]
    BY <2>1, AllAnswered
  <2>4. "confirmation" \in Names
    BY DEF Names
  <2>5. GoesOn(toClient, c, Answered(k)) /\ c + Len(toClient) = sent
    <3>1. GoesOn(toClient, c, Answered(serverKey)) /\ c + Len(toClient) <= 4
      BY <1>2, <1>6 DEF InFlight
    <3>2. QED
      BY <1>6, <2>1, <3>1, FirstIsPlain
  <2>6. ServerAnswers("confirmation", k, "serve")
    BY <2>2 DEF ServerConfirms
  <2>7. /\ GoesOn(toClient', c, Answered(k))
        /\ c + Len(toClient') = sent + 4
        /\ server' = "serve"
    BY <2>3, <2>4, <2>5, <2>6, AnsweredMore
  <2>8. QED
    BY <2>1, <2>2, <2>7
<1>9. ClientAt(c)'
  BY <1>1, <1>2, <1>4 DEF InFlight, ClientAt
<1>10. ServerAt(t, c + Len(toClient), t + Len(toServer))'
  <2>1. t \in 2 .. 8 /\ t + Len(toServer') = s + Len(toServer)
    BY <1>4, <1>5, <1>6
  <2>2. QED
    BY <1>1, <1>2, <1>4, <1>8, <2>1 DEF InFlight, ServerAt
<1>11. InFlight(c, t)'
  BY <1>4, <1>5, <1>8, <1>9, <1>10 DEF InFlight
<1>12. Derived'
  BY <1>1, <1>7, <1>8 DEF ClientInv, Derived
<1>13. QED
  BY <1>1, <1>8, <1>11, <1>12, ServerLeavesClient

(* Which requests the server can take for the right one. *)
LEMMA RequestsAre ==
  ASSUME NEW s \in 2 .. 12, NEW k, NEW l
  PROVE  /\ Asked(k)[s + 1] = Part("map request", 1, l) => s = 8
         /\ Asked(k)[s + 1] = Part("exit request", 1, l) => s = 12
<1> DEFINE asked == Asked(k)[s + 1]
<1>1. /\ Part("map request", 1, l).msg = "map request" /\ Part("map request", 1, l).part = 1
      /\ Part("exit request", 1, l).msg = "exit request" /\ Part("exit request", 1, l).part = 1
  BY DEF Part
<1>2. SUFFICES /\ asked.msg = "map request" /\ asked.part = 1 => s = 8
               /\ asked.msg = "exit request" /\ asked.part = 1 => s = 12
  BY <1>1
<1>3. CASE s \in 2 .. 3
  <2>1. PICK j \in 1 .. 4 : j = s + 1
    BY <1>3
  <2>2. asked = Part("handshake request", j, "none")
    BY <2>1, AllAsked
  <2>3. asked.msg = "handshake request"
    <3>1. Part("handshake request", j, "none").msg = "handshake request"
      BY DEF Part
    <3>2. QED
      BY <2>2, <3>1
  <2>4. QED
    BY <2>3
<1>4. CASE s \in 4 .. 7
  <2>1. s - 3 \in 1 .. 4 /\ 4 + (s - 3) = s + 1
    BY <1>4
  <2>2. PICK j \in 1 .. 4 : 4 + j = s + 1
    BY <2>1
  <2>3. asked = Part("client key", j, "none")
    BY <2>2, AllAsked
  <2>4. asked.msg = "client key"
    <3>1. Part("client key", j, "none").msg = "client key"
      BY DEF Part
    <3>2. QED
      BY <2>3, <3>1
  <2>5. QED
    BY <2>4
<1>5. CASE s \in 8 .. 11
  <2>1. s - 7 \in 1 .. 4 /\ 8 + (s - 7) = s + 1
    BY <1>5
  <2>2. PICK j \in 1 .. 4 : 8 + j = s + 1 /\ j = s - 7
    BY <2>1
  <2>3. asked = Part("map request", j, k)
    BY <2>2, AllAsked
  <2>4. asked.msg = "map request" /\ asked.part = j
    <3>1. Part("map request", j, k).msg = "map request" /\ Part("map request", j, k).part = j
      BY DEF Part
    <3>2. QED
      BY <2>3, <3>1
  <2>5. j = 1 => s = 8
    BY <2>2
  <2>6. QED
    BY <2>4, <2>5
<1>6. s \in 2 .. 3 \/ s \in 4 .. 7 \/ s \in 8 .. 11 \/ s = 12
  OBVIOUS
<1>7. CASE s = 12
  <2>1. 12 + 1 = s + 1 /\ 1 \in 1 .. 4
    BY <1>7
  <2>2. Asked(k)[12 + 1] = Part("exit request", 1, k)
    BY <2>1, AllAsked
  <2>3. asked = Part("exit request", 1, k)
    BY <2>1, <2>2
  <2>4. asked.msg = "exit request"
    <3>1. Part("exit request", 1, k).msg = "exit request"
      BY DEF Part
    <3>2. QED
      BY <2>3, <3>1
  <2>5. QED
    BY <1>7, <2>4
<1>8. QED
  BY <1>3, <1>4, <1>5, <1>6, <1>7

(* A request, or noise. *)
LEMMA ServerHandlesKeeps == ClientInv /\ ServerHandles => ClientInv'
<1> SUFFICES ASSUME ClientInv, ServerHandles PROVE ClientInv'
  OBVIOUS
<1> DEFINE request(n) == Buffer(toServer, n)[1]
<1>1. UNCHANGED <<client, relays, list, cur_relays, keyVars, clientKey, cut, serverKey, listed>>
  BY DEF ServerHandles
<1>2. PICK c, s \in 0 .. 16 : InFlight(c, s)
  BY DEF ClientInv
<1>3. PICK n \in Parts :
         /\ ServerReads("serve", n)
         /\ \/ /\ request(n) = Part("map request", 1, serverKey)
               /\ ServerAnswers("relay map", serverKey, "serve")
            \/ /\ request(n) = Part("exit request", 1, serverKey)
               /\ ServerAnswers("exit response", serverKey, "closed")
            \/ server' = "closed" /\ UNCHANGED toClient
  BY DEF ServerHandles
<1>4. /\ server = "serve" /\ n \in 1 .. 4 /\ s + n \in 0 .. 16
      /\ GoesOn(toServer', s + n, Asked(clientKey'))
      /\ s + n + Len(toServer') = s + Len(toServer)
      /\ \A i \in 1 .. n : Buffer(toServer, n)[i] = Asked(clientKey)[s + i]
  BY <1>1, <1>2, <1>3, ServerTakes
<1>5. PICK t \in 0 .. 16 : t = s + n
  BY <1>4
<1>6. \/ c + Len(toClient) = 8 /\ s \in 2 .. 8
      \/ c + Len(toClient) = 12 /\ s \in 9 .. 12
  BY <1>2, <1>4 DEF InFlight, ServerAt
<1>7. serverKey \in Servers
  BY DEF ClientInv, Derived
<1>8. request(n) = Asked(clientKey)[s + 1] /\ s \in 2 .. 12
  BY <1>4, <1>6
<1>9. GoesOn(toServer', t, Asked(clientKey')) /\ t + Len(toServer') = s + Len(toServer)
  BY <1>4, <1>5
<1>10. server' \in {"serve", "closed"} => ClientAt(c)'
  <2>1. SUFFICES ASSUME server' \in {"serve", "closed"} PROVE ClientAt(c)'
    OBVIOUS
  <2>2. ClientAt(c) /\ server = "serve"
    BY <1>2, <1>4 DEF InFlight
  <2>3. QED
    BY <1>1, <2>1, <2>2 DEF ClientAt
<1>11. CASE /\ request(n) = Part("map request", 1, serverKey)
            /\ ServerAnswers("relay map", serverKey, "serve")
  <2>1. s = 8
    BY <1>8, <1>11, RequestsAre
  <2>2. c + Len(toClient) = 8
    BY <1>6, <2>1
  <2>3. /\ GoesOn(toClient', c, Answered(serverKey))
        /\ c + Len(toClient') = 12
        /\ server' = "serve"
    <3>1. PICK sent \in 0 .. 12 : sent = 8
      OBVIOUS
    <3>2. PICK k \in Servers : k = serverKey
      BY <1>7
    <3>3. \A i \in 1 .. 4 : Part("relay map", i, k) = Answered(k)[sent + i]
      BY <3>1, AllAnswered
    <3>4. "relay map" \in Names
      BY DEF Names
    <3>5. GoesOn(toClient, c, Answered(k)) /\ c + Len(toClient) = sent
      BY <1>2, <2>2, <3>1, <3>2 DEF InFlight
    <3>6. ServerAnswers("relay map", k, "serve")
      BY <1>11, <3>2
    <3>7. /\ GoesOn(toClient', c, Answered(k))
          /\ c + Len(toClient') = sent + 4
          /\ server' = "serve"
      BY <3>3, <3>4, <3>5, <3>6, AnsweredMore
    <3>8. QED
      BY <3>1, <3>2, <3>7
  <2>4. ServerAt(t, c + Len(toClient), t + Len(toServer))'
    <3>1. t \in 9 .. 12
      BY <1>4, <1>5, <2>1
    <3>2. QED
      BY <1>1, <1>2, <1>4, <1>9, <2>3, <3>1 DEF InFlight, ServerAt
  <2>5. InFlight(c, t)'
    BY <1>1, <1>9, <1>10, <2>3, <2>4 DEF InFlight
  <2>6. Derived'
    BY <1>1, <2>3 DEF ClientInv, Derived
  <2>7. QED
    BY <1>1, <2>3, <2>5, <2>6, ServerLeavesClient
<1>12. CASE server' = "closed" /\ GoesOn(toClient', c, Answered(serverKey))
  <2>1. ServerAt(t, c + Len(toClient), t + Len(toServer))'
    BY <1>1, <1>2, <1>9, <1>12 DEF InFlight, ServerAt
  <2>2. InFlight(c, t)'
    BY <1>1, <1>9, <1>10, <1>12, <2>1 DEF InFlight
  <2>3. Derived'
    BY <1>1, <1>12 DEF ClientInv, Derived
  <2>4. QED
    BY <1>1, <1>12, <2>2, <2>3, ServerLeavesClient
<1>13. CASE /\ request(n) = Part("exit request", 1, serverKey)
            /\ ServerAnswers("exit response", serverKey, "closed")
  <2>1. s = 12
    BY <1>8, <1>13, RequestsAre
  <2>2. c + Len(toClient) = 12
    BY <1>6, <2>1
  <2>3. PICK sent \in 0 .. 12 : sent = 12
    OBVIOUS
  <2>4. PICK k \in Servers : k = serverKey
    BY <1>7
  <2>5. \A i \in 1 .. 4 : Part("exit response", i, k) = Answered(k)[sent + i]
    BY <2>3, AllAnswered
  <2>6. "exit response" \in Names
    BY DEF Names
  <2>7. GoesOn(toClient, c, Answered(k)) /\ c + Len(toClient) = sent
    BY <1>2, <2>2, <2>3, <2>4 DEF InFlight
  <2>8. ServerAnswers("exit response", k, "closed")
    BY <1>13, <2>4
  <2>9. GoesOn(toClient', c, Answered(k)) /\ server' = "closed"
    BY <2>5, <2>6, <2>7, <2>8, AnsweredMore
  <2>10. QED
    BY <1>12, <2>4, <2>9
<1>14. CASE server' = "closed" /\ UNCHANGED toClient
  BY <1>2, <1>12, <1>14 DEF InFlight
<1>15. QED
  BY <1>3, <1>11, <1>13, <1>14

(* The server's session breaks. *)
LEMMA ServerBreaksKeeps == ClientInv /\ ServerBreaks => ClientInv'
<1> SUFFICES ASSUME ClientInv, ServerBreaks PROVE ClientInv'
  OBVIOUS
<1>1. UNCHANGED <<client, relays, list, cur_relays, keyVars, clientKey, cut, serverKey, listed,
                  toServer>>
  BY DEF ServerBreaks
<1>2. PICK c, s \in 0 .. 16 : InFlight(c, s)
  BY DEF ClientInv
<1>3. /\ server \in {"hello", "key", "serve"} /\ server' = "closed"
      /\ toClient' = toClient \/ toClient' = <<>>
  BY DEF ServerBreaks
<1>4. GoesOn(toClient', c, Answered(serverKey'))
  BY <1>1, <1>2, <1>3, EmptyStream DEF InFlight
<1>5. ClientAt(c)'
  BY <1>1, <1>2, <1>3 DEF InFlight, ClientAt
<1>6. ServerAt(s, c + Len(toClient), s + Len(toServer))'
  BY <1>1, <1>2, <1>3 DEF InFlight, ServerAt
<1>7. InFlight(c, s)'
  BY <1>1, <1>2, <1>4, <1>5, <1>6 DEF InFlight
<1>8. Derived'
  BY <1>1, <1>3 DEF ClientInv, Derived
<1>9. QED
  BY <1>1, <1>3, <1>7, <1>8, ServerLeavesClient

-----------------------------------------------------------------------------
(* The invariant holds at the start ... *)
LEMMA ClientInvInit == ClientProcessInit => ClientInv
<1> SUFFICES ASSUME ClientProcessInit PROVE ClientInv
  OBVIOUS
<1> USE DEF ClientProcessInit
<1>1. Derived
  BY DEF Derived, Clients, Servers, Trusting, CircuitPlaces
<1>2. Progress
  BY ClientAssumption, EmptySeq DEF Progress, QueryPlaces, CircuitPlaces
<1>3. KeyPlaces /\ KeysFreedOnce
  BY DEF KeyPlaces, KeysAre, KeysFreedOnce, CircuitPlaces
<1>4. InFlight(0, 0)
  <2>1. GoesOn(toClient, 0, Answered(serverKey)) /\ GoesOn(toServer, 0, Asked(clientKey))
    BY EmptyStream
  <2>2. Len(toClient) = 0 /\ Len(toServer) = 0
    BY EmptyStream
  <2>3. QED
    BY <2>1, <2>2 DEF InFlight, ClientAt, ServerAt
<1>5. QED
  BY <1>1, <1>2, <1>3, <1>4 DEF ClientInv, QueryPlaces

(* ... and after every step. *)
LEMMA ClientInvNext == ClientInv /\ [ClientProcessNext]_clientProcessVars => ClientInv'
<1> SUFFICES ASSUME ClientInv, [ClientProcessNext]_clientProcessVars PROVE ClientInv'
  OBVIOUS
<1>1. CASE ClientStep
  <2>1. CASE TlsFailure
    <3>1. client \in CircuitPlaces \ {"guard"} /\ "failed" \in Finished
      BY <2>1 DEF TlsFailure, CircuitPlaces, Finished
    <3>2. QED
      BY <2>1, <3>1, EndsKeeps DEF TlsFailure
  <2>2. CASE SessionEnds
    <3>1. client \in CircuitPlaces \ {"guard"} /\ "failed" \in Finished /\ "done" \in Finished
      BY <2>2 DEF SessionEnds, CircuitPlaces, Finished
    <3>2. QED
      BY <2>2, <3>1, EndsKeeps DEF SessionEnds
  <2>3. QED
    BY <1>1, <2>1, <2>2, ParseArgsKeeps, ConnectDirectoryKeeps, HandshakeResponseKeeps,
       HandshakeConfirmationKeeps, FetchRelayMapKeeps, HandleExitKeeps, BreaksKeeps,
       InitSessionKeeps, CircuitGoesOn, CircuitFailsKeeps DEF ClientStep
<1>2. CASE ServerStep
  BY <1>2, ServerHandshakeKeeps, ServerConfirmsKeeps, ServerHandlesKeeps, ServerBreaksKeeps
  DEF ServerStep
<1>3. CASE UNCHANGED clientProcessVars
  <2>1. UNCHANGED <<client, relays, list, cur_relays, keyVars, clientKey, cut, listed>>
    BY <1>3 DEF clientProcessVars, keyVars, queryVars
  <2>2. UNCHANGED <<server, serverKey, toServer, toClient>>
    BY <1>3 DEF clientProcessVars, queryVars
  <2>3. PICK c, s \in 0 .. 16 : InFlight(c, s)
    BY DEF ClientInv
  <2>4. InFlight(c, s)'
    BY <2>1, <2>2, <2>3 DEF InFlight, ClientAt, ServerAt
  <2>5. Derived' /\ server' \in {"listening", "hello", "key", "serve", "closed"}
    BY <2>1, <2>2 DEF ClientInv, Derived
  <2>6. QED
    BY <2>1, <2>4, <2>5, ServerLeavesClient
<1>4. QED
  BY <1>1, <1>2, <1>3 DEF ClientProcessNext

(* The inductive invariant of the client's run: how many parts each side   *)
(* has read and sent where the two wait, and the keys that are allocated.  *)
THEOREM ClientInvariant == ClientProcessSpec => []ClientInv
BY ClientInvInit, ClientInvNext, PTL DEF ClientProcessSpec

(* The types, with at most four messages in a stream. *)
THEOREM ClientProcessTypes == ClientProcessSpec => []ClientProcessTypeOK
<1>1. ClientInv => ClientProcessTypeOK
  <2> SUFFICES ASSUME ClientInv PROVE ClientProcessTypeOK
    OBVIOUS
  <2>1. Len(toServer) <= 16 /\ Len(toClient) <= 16
    <3>1. PICK c, s \in 0 .. 16 : InFlight(c, s)
      BY DEF ClientInv
    <3>2. /\ c + Len(toClient) <= 16 /\ Len(toClient) \in Nat
          /\ s + Len(toServer) <= 16 /\ Len(toServer) \in Nat
      BY <3>1 DEF InFlight, GoesOn, Stream
    <3>3. QED
      BY <3>2
  <2>2. QED
    BY <2>1 DEF ClientInv, Progress, KeyPlaces, ClientProcessTypeOK
<1>2. QED
  BY <1>1, ClientInvariant, PTL

(* QueryIsServers: a client that accepted the confirmation shares its key  *)
(* with the server, and builds its circuit from the first relays of the    *)
(* server's map unless a message was cut. *)
THEOREM QueryAnswered == ClientProcessSpec => []QueryIsServers
<1>1. ClientInv => QueryIsServers
  BY PlacesDiffer DEF ClientInv, Derived, Progress, Trusting, QueryIsServers, InOrder
<1>2. QED
  BY <1>1, ClientInvariant, PTL

(* KeysFreedOnce: every key is freed once, but for the two ways named      *)
(* there, and none is left. *)
THEOREM KeysFreed == ClientProcessSpec => []KeysFreedOnce
<1>1. ClientInv => KeysFreedOnce
  BY DEF ClientInv
<1>2. QED
  BY <1>1, ClientInvariant, PTL
=============================================================================
