# MyOnionRouter in TLA+

TLA+ models of MyOnionRouter (`src/`), the TLC runs that check them and the
theorems about them that TLAPS checks.

## The system

Three programs and a set of shared libraries:

* the **directory server** (`server/`) keeps the relays that signed up and
  gives clients a map of them; one thread per connection;
* a **relay** (`relay/`) signs up with the server, then serves circuits, one
  thread per circuit: as a *middle* relay it forwards cells between two
  links, as the *exit* relay it holds the connections to servers;
* the **client** (`client/`) asks the server for relays, builds a circuit hop
  by hop and multiplexes streams over it; one thread with an event loop over
  the terminal and the guard's socket.

### Inventory

| Component | State | Operations | Interacts with |
|---|---|---|---|
| relay table (`server/services/relay_manager.c`) | array of items that doubles, free stack of identifiers that doubles, heap of `relay_data_t` | `gen_relay`, `remove_relay`, `get_relay`, `get_relay_batch`, init, free | called by the sessions' threads under one mutex; hands out pointers used after the unlock |
| socket context (`server/services/socket_context.c`) | array of keys indexed by descriptor, `socks_used` | `add_socket`, `get_sock_key`, `free_socket`, resize, free | called by every connection's thread under one mutex; hands out pointers into an array that `realloc` moves |
| server sessions (`server/handlers`, `server/core`) | per thread: `relay_data` or `relay_start`, the current request; process up, exiting or gone | sign up, sign out, exit, relay map; handshake; the operator's `exit` | relay table, socket context, relays and clients over TCP |
| relay registration (`relay/router/server_register.c`) | `register_id`, the server key derived once | `signup_server`, `signout_server` | server sessions |
| circuit, client side (`client/router`, `client/core`, `client/net`) | `cur_relays`, onion keys, descriptor | key exchange, CREATE, EXTEND per hop, ping, destroy, exit | guard relay |
| circuit, relay side (`relay/router`, `relay/net`) | per session: two descriptors, three keys, its role | key exchange, CREATED, EXTENDED, forwarding, end of stream | its two neighbours |
| exit relay (`relay/router/relay_end.c`) | table of sockets, epoll set | BEGIN, DATA, END, padding, destroy; data and end of stream from servers | the circuit, servers |
| stream tables (`stream_hashmap.c`, `socket_hashmap.c`) | open addressing with tombstones; `gen_stream_id`'s counter | insert, find, remove | client session, exit relay |
| receive buffer (`client/services/stream_buffers.c`) | circular buffer that doubles | push, pop | client session: RELAY_DATA pushes, `recv` pops |
| client's query (`client/router/server_query.c`) | the server's key, the relay list | handshake, relay map, exit | server sessions; `run_client`, which builds a circuit from the list |
| relay process (`relay/core/relay.c`) | listener, one thread and up to three descriptors per circuit, the exit's sockets | accept, serve, sign out and exit | the kernel's table of descriptors, shared by all threads |
| encryption (`encryptions/`) | p and g of the network; per key the other's public key, the common and the symmetric key | AES-128 per block, SHA-256, Diffie-Hellman, `init_key`, `free_key` | everything that sends |
| configuration, sockets, strings (`utils/`, `*_config.c`, `ip_fetch.c`) | none | parsing, wrappers of system calls | start of each program |

### What is hard about it, and what makes each component correct

* Relay table: identifiers are given back and given out again, two arrays
  grow at different moments. Correct: identifiers partitioned between users
  and the free stack, every write inside an array, a batch from any start
  complete.
* Server sessions: handlers use a `relay_data_t` after the table's unlock,
  sessions break anywhere, the process exits under its threads and may be
  restarted with a new key. Correct: a relay that was told its identifier
  stays listed until it signs out, pointers stay live, nobody waits for ever.
* Socket context: the kernel gives a descriptor out again the moment it is
  closed, while the entry under it is freed in another step. Correct: an
  entry exists exactly during the session that owns the descriptor.
* Circuit: five processes act at once, errors close or abandon links at
  different places, and layers of encryption are put on and taken off by
  different code on the two sides. Correct: exactly one layer per hop, the
  client counts only relays that forward, builds and teardowns end.
* Streams: client and exit relay keep one table each and learn of changes
  only through messages in flight; identifiers are reused. Correct: bytes
  reach the server they were meant for in order, tables agree once nothing is
  going on, every event finds its entry.
* Tables and buffer: probing with tombstones, doubling of a circular buffer.
* Relay process: threads close descriptors by number, and the kernel gives a
  closed number to whoever asks next; errors leave a session by ten different
  ways. Correct: a number a session holds refers to what that session opened,
  and a session that was freed leaves its links and sockets closed.
* Client: one `read` per message, keys freed by two functions. Correct: a client
  that goes on shares its key with the server and builds its circuit from the
  server's list; every key is freed once.
* Encryption: layers that leave out a header and end in a block that is not
  full, numbers that need fewer bytes than their buffer, tables and bit
  operations typed by hand. Correct: what was sent arrives, both ends derive
  the same key, and AES and SHA-256 are those of the standards.

`PROJECT.json` lists every hazard at its line with the properties that cover it.

## Modules

| Module | Models | Notes |
|---|---|---|
| `RelayRegistry` | what the relay table promises | abstract: a set of live identifiers and the number ever handed out |
| `RelayManager` | `relay_manager.c` | implements `RelayRegistry` (`RegistrySpec`) |
| `DirectoryServer` | `relay_handler.c`, `server.c`, `server_register.c` | EXTENDS `RelayManager` and composes its operations into handlers |
| `ClientHandler` | `client_handler.c`: a client's session and its maps | EXTENDS `RelayManager` |
| `DirectoryServer_proofs` | theorems about `RelayManager`, `ClientHandler` and `DirectoryServer` | TLAPS; EXTENDS `Cycles_proofs` |
| `SocketContext` | `socket_context.c`, `accept_loop.c`, the threads of `server.c` | |
| `SocketContext_proofs` | theorems about `SocketContext` | TLAPS |
| `Circuit` | one circuit: `client_session.c` (build, ping, destroy), `relay_session.c`, `relay_middle.c`, the exit's loop | liveness |
| `Circuit_proofs` | theorems about `Circuit` and `Cipher` | TLAPS; EXTENDS `Cycles_proofs` |
| `HashMap` | `stream_hashmap.c`, `socket_hashmap.c` as operators | |
| `HashMap_proofs` | lemmas about `HashMap` | TLAPS |
| `StreamMap` | the two tables in use, each alone | EXTENDS `HashMap` |
| `Streams` | `client_session.c` and `relay_end.c` joined by a built circuit | EXTENDS `HashMap` |
| `Streams_proofs` | theorems about `Streams` | TLAPS; EXTENDS `HashMap_proofs` |
| `StreamBuffer` | `stream_buffers.c` | history variable `queue` is the FIFO it should be |
| `StreamMap_proofs` | theorems about `StreamMap` and `StreamBuffer` | TLAPS; EXTENDS `HashMap_proofs` |
| `RelayProcess` | descriptors of a relay: `relay.c`, `relay_session.c`, `relay_middle.c`, `relay_end.c`, `accept_loop.c`, `signout_server` | EXTENDS `HashMap` |
| `ClientProcess` | `server_query.c`, `client.c`, `parse_args` of the client, the server's side of a client's session | byte stream, keys |
| `Processes_proofs` | theorems about `RelayProcess` and `ClientProcess` | TLAPS; EXTENDS `HashMap_proofs` |
| `Cipher` | `symmetric_encrypt`, `symmetric_decrypt` and both programs' `send_tor_buffer` and `recv_tor_buffer`, byte by byte | AES is a term with an inverse |
| `Aes` | `encryptions/aes` | against FIPS-197 |
| `Sha256` | `encryptions/sha` | against FIPS 180-4 |
| `Dh` | `encryptions/dh`, with GMP as external operators | |
| `MCParts` | `ClientHandler` with `RelayManager`, `StreamMap`, `StreamBuffer`, `ClientProcess`, `Cipher`, `Aes`, `Sha256` and `Dh` side by side | a behaviour is one of the part it chose first |
| `Cycles_proofs` | lemmas about loops and remainders | TLAPS; nothing of the code |
| `MCDescriptors` | `SocketContext` and `RelayProcess` side by side | a behaviour is one of the program it chose; symmetry for TLC |
| `MCDirectoryServer` | | symmetry for TLC |

Definitions keep the names of the source where they can; `map` in
`PROJECT.json` says which lines each stands for. A definition marked `slip:`
is a faulty variant of the one after it. No specification uses it: it is there
to show that a property notices the fault.

### Correspondence with the code

*RelayManager.* A function holds one mutex from its first to its last line, so
each is one action. `items[i]` is the pointer of an item that exists, `NULL`
otherwise; the free stack is the sequence below `max_stack_index`. `data` is
the heap, whose addresses are reused.

*DirectoryServer.* A session is a relay process and one of its two visits, to
sign up and to sign out. `HandleSignup` ends where `gen_relay` unlocks,
`HandleSignupFills` is the rest of the handler; `HandleSignout`,
`HandleSignoutCompares` and `HandleSignoutRemoves` are the three stretches of
`handle_signout`. A broken connection is noticed by either side at its next
read or write. The operator's exit frees the table (`ServerExits`) while
sessions run on until the process is gone (`ServerGone`); `ServerStarts` is a
new process with a new key, which the relays' keys do not fit. After the table
was freed, the first `gen_relay` and every map end the process
(`MapOfFreedTable` divides by `items_length`). For `gen_relay` that is one of the
outcomes: `realloc` of nothing may return memory, and then the process goes on
until it ends anyway.

*ClientHandler.* `relay_start` is the member of `client_data_t`. `get_relay_batch`
has moved it behind the last item it looked at when it returns, and
`handle_get_relay_map` adds the number of relays to it once more (its comment
says "Not correct calculation"), so the second map of a session starts further
on: the maps of one session leave relays out and repeat others. The client of
this repository asks once. Clients arrive, and ask, at any time while relays
sign up and out.

*SocketContext.* A descriptor is the smallest that is not open. A thread's
pointer into the key array is the number of the array it was taken from.

*Circuit.* Link `i` joins node `i` and relay `i + 1`. A relay's `relay[r]` is
the place its thread waits at. A handler runs from one read to the next. The
onion encryption of a message is the sequence of the keys on it; an inverse
operation with the wrong key leaves a mark. A peer that has closed makes
`send` succeed and lose the data, fail, or raise SIGPIPE, which ends the process
(no program ignores it). `client_callback` in `relay.c` returns without
`free_relay_session` after an error: the session is then `abandoned`, its
descriptors stay open. `freed` sessions and dead processes close theirs.

*Streams.* The circuit is two FIFO queues, which `Circuit` justifies for a
circuit whose relays stay. Each handler of the two single-threaded event loops
is an action. Connection `k` stands for the `k`-th connect of the user, so that
a reused stream identifier and the connection it means can be told apart.
`tor_send_end_relay_data` is modelled with its one byte of offset.

*RelayProcess.* `file` is the kernel's table; `session[c]` has the numbers
`relay_session_t` and the loops keep, and the place the thread is at. A read or
send that may fail is a choice; what is closed after it follows the code.
`handle_tls_sender` closes `next_fd` but its caller keeps the number, which is
harmless only because `client_callback` does not free a session that ended with
an error. `MainGone` is the end of the process, by its operator or by SIGPIPE.
The main thread's `sock_fd` is `signout_server`'s connection, with one action
for each stretch between two closes: `MainConnects`, `MainSignOutFails` (the
handshake or the sign-out fails and closes it), `MainExits` (`handle_exit`, which
closes it when it fails), `MainCloses` (`signout_server`'s own `close`, whatever
`handle_exit` did) and `MainClosesListener`; the other threads run between any
two of them. `closedOthers` is a history variable: a number the code closed a
second time belonged to somebody else by then.

*ClientProcess.* A server message has four parts, and `read` returns any prefix
of what has arrived, so that a message may be cut and its rest be read as the
next one, by the client and by the server. What was not read keeps what the
buffer held. A prime p that was cut makes `generate_prime_low_p` search for ever
(`"hung"`), unless so little of it is missing that there is one to find: the
client then goes on with a key of its own, and ends at the magic. `key` is the state of each `key_data_t`; freeing one that is not
allocated is undefined in C and may end the program (`"crashed"`).

*Cipher.* A byte is a term, of a plain message or of what AES makes of a block.
`Symmetric` is the loop of both functions: blocks while more than one is left,
then a last one filled up with zeros and cut. The client's and the relays'
`send_tor_buffer` and `recv_tor_buffer` apply it to the bytes behind the header
for each onion layer and to all bytes for the link.

*Aes, Sha256, Dh.* The tables are the code's. A step is one round key, one
round of AES, one word of the schedule, one round of SHA-256, or one function
of `dh.c`. In `Dh` every buffer holds junk before it is written, which
`mpz_export` only overwrites as far as the number needs.

*HashMap.* The loops walk the table in probe order and stop at a condition; the
operators say at which turn they stop. `StreamMap`'s `RelayInsert` is guarded: it
inserts identifiers that are not connected. That the exit relay inserts one that
is, and what comes of it, is in `Streams` (`StreamsTwice`).

## Runs

| Run | Instance | What it shows |
|---|---|---|
| `Descriptors` | `SocketContext`: 3 connections, array of 1 | entries follow sessions, nothing leaked |
| | `RelayProcess`: 2 sessions, 5 descriptors | no thread closes another's descriptor, with two exceptions; what a freed session leaves open |
| `DirectoryServer` | 3 relays, 1 failure, 1 exit and restart of the server | registered relays stay listed and pointers live through a growth of the table; stale identifiers and keys harm nobody |
| `DirectoryLive` | 2 relays, 1 failure, 1 exit and restart | no relay waits for ever |
| `Circuit` | 3 relays, 2 cells, 1 event of a server, 1 crash | layers, chain, build completes, pings return, a quiet destroy frees every session, build and teardown end up to a relay that abandoned its session |
| `Streams` | 2 connections, messages of 2 bytes, connects only when all is quiet | bytes arrive in order and where they should, the two tables agree |
| `StreamsLive` | 3 connections, 2 of them opened at any time, servers that send nothing | events and entries of the exit relay, closed streams are closed at the server |
| `Parts` | `RelayManager`, `ClientHandler`: 4 addresses, maps of 2 relays | identifiers, bounds, refinement of the registry; every map of a client's session is complete, wherever it starts |
| | `StreamMap`: tables of 3 slots, 6 identifiers | lookups with collisions, tombstones and wrapped identifiers |
| | `StreamBuffer`: capacities 2, 4, 8 | FIFO, apart from two cases |
| | `ClientProcess`: 3 relays, messages cut anywhere on both sides | key and list are the server's; every key freed once, with two exceptions |
| | `Cipher`: 3 relays, blocks of 4, messages of 16 | header and full blocks arrive both ways |
| | `Aes`, `Sha256` | known answers of the standards, the S-box by its definition, decryption undoes encryption, padding about every edge of a block |
| | `Dh`: keys of 2 bytes | both ends make their key of the same bytes |

Five runs end in a violation. Each shows a disagreement of the code with its
README or comments and has a finding in `PROJECT.json`:

| Run | Property | What happens |
|---|---|---|
| `CircuitDestroy` | `DestroyReachesAll` | a cell on its way up meets the closed client, the middle relay gives up before it has read TOR_DESTROY |
| `StreamsRecv` | `RecvReturnsServerBytes` | the payload is shifted by one byte |
| `CipherTail` | `WholeMessageArrives` | the onion layers cover 509 bytes; the 13 after the last full block arrive as noise |
| `SocketContextKey` | `KeyIsOwn` | `realloc` under a pointer that is in use |
| `StreamsTwice` | `IdentifiesOneConnection` | the exit relay's insert stops at a tombstone and enters an identifier that lies behind it a second time |

### Where the properties stop

The code breaks some promises one would like to state without a condition. The
properties name the condition, and the models reach the states beyond it:

* A stream identifier can be given out again while END for the earlier stream
  is under way, which then removes the later one. The history variable `hasty`
  counts the connects made while something was going on; `BytesReachTheirServer`,
  `ReceivedInOrder`, `TablesAgreeWhenQuiet` and `CloseReachesServer` speak of
  sessions where it is 0. Of `EventsHaveEntry` only one part does: after a hasty
  connect the exit relay's table may hold an identifier twice (`StreamsTwice`),
  and an event then finds the other connection's socket. That it finds one, and
  that this one is open, holds without a condition. So no property covers that
  hazard itself (END removing the later stream): it is what the code does, and
  the properties say what holds as long as it has not happened.
* The maps of one session with the directory server are each complete, but
  together they leave relays out and repeat others. `MapComplete` says the former
  for every start a session can reach.
* After a refused sign-out the server's session keeps the relay it found, and a
  second sign-out in the session would remove that relay without comparing
  keys. `signout_server` sends one in a session, and so do the modelled relays.
* Data that arrives for a stream the user has just closed ends the client's
  event loop (`client` is then not `"running"`).
* The receive buffer that doubles while `head = tail`, or whose head stands at
  the end of the array, puts later bytes in the wrong place: `misplaced` in
  `StreamBuffer`, on which `FifoUnlessMisplaced` is conditioned.
* A relay is in the table, with an empty descriptor, from `gen_relay`'s unlock
  to the next lines of its handler. `ListedIsFilled`, a part of
  `PointersLive`, states that this is the only time.
* The operator's exit frees the tables under running sessions; one that signs
  up then writes through NULL or divides by zero (`server = "crashed"`).
* A relay that fails to extend, or to hand a message back, keeps its links
  open for ever (`"abandoned"`), and the client waits without a timeout:
  `BuildEndsUnlessAbandoned` and `TeardownUpToAbandoned` say exactly this.
* Two closes of a relay are done twice. `handle_relay_end` of the exit relay frees
  its table when the answer cannot be sent, and the loop frees it again.
  `handle_exit` closes the connection to the directory server when it fails, and
  `signout_server` closes it again. By then the numbers may be another session's,
  or what was just accepted. `OwnDescriptors` holds until one of the two has hit
  such a number (`closedOthers`); the run goes on beyond either. A second close of
  a number that is still free, or is the closer's own again, is no exception.
* A middle relay's epoll set is never closed, nor what an exit relay opened for
  a first message that ends its session, nor a socket the table had no room for.
  `FreedLeavesOpen` says that a freed session leaves nothing else open: neither
  of its links and none of the sockets its table has held.
* A relay map or a confirmation that was cut goes unnoticed (`cut`): the circuit
  may then be built from noise. That the key is shared has no such condition.
* A handshake that fails before the key exists frees it all the same, and a
  circuit that cannot be built has its session freed twice: the two exceptions
  in `KeysFreedOnce`.
* The last 13 bytes of every message through a circuit are noise
  (`CipherTail`). `Circuit` and `Streams` have messages whose contents lie in
  the full blocks before them.

### Bounds

* `RelayManager` (in `Parts`): 4 addresses make the array double once and the stack twice;
  identifiers never pass the number of live relays, so the state space is
  finite without another bound. `RELAY_ITEMS_MIN_LENGTH` and
  `RELAY_STACK_MIN_LENGTH` are the code's own.
* `ClientHandler` (in `Parts`): `SERVER_RELAYS_MAP_AMOUNT` 2 (14 in the code) makes
  a map smaller than the table and, with fewer relays, larger. The start has no
  bound of its own; that it stays below the sum of both is part of `MapComplete`.
* `DirectoryServer`: 3 relays are one more than the first array holds.
  `MaxFailures`, `MaxExits`: one failure and one exit each meet every
  intermediate state of every handler. Relays and addresses are symmetric in the safety run; the liveness run uses no symmetry.
* `SocketContext`: `KEY_LIST_START_SIZE` 1 with 3 connections grows the array
  twice; descriptors start at `FirstFd`.
* `Circuit`: `N` = 3 has a first, an inner and a last relay; `MaxCells`,
  `MaxEvents`, `MaxCrashes` bound what users, servers and operators do. The
  properties about circuits without failures are conditioned on no crash.
* `Streams`: `HASHMAP_AMOUNT`, `MaxConns`, `MaxSent` (bytes per connection),
  `MaxProduced` (bytes of all servers together), `Lengths`, `MaxQueue` (the user
  types nothing while that many messages are under way), `MaxHasty` (connects
  while something is going on). In `Streams` the servers' 2 bytes may come one
  by one, from both servers or after a close; `StreamsLive` has none, because a
  byte the user has not read neither opens nor closes a stream.
* `StreamsTwice`: two streams whose home slots collide, a tombstone between them
  and an END under way take 6 connections and tables of 2 slots.
* `Parts` has one cfg for eight modules that do not interact; each keeps its own
  constants, and a module that is not chosen stays in one initial state. The
  client's and the exit relay's table of `StreamMap` are two parts.
* `RelayProcess`: 2 sessions are enough for one to be given the number another
  has closed; `MaxFd` 5 is too few for both, so that calls fail for want of a
  descriptor; `StreamNumbers` 1 and 4 share a home slot. The
  sessions are symmetric.
* `ClientProcess`: `MAX_RELAYS` 3, `DEAULT_RELAY_AMOUNT` 2 (5 and 3 in the code);
  `Arguments` has 257, which wraps to 1 in a `uint8_t`; with
  `MaxListed` 3 the server's map has too few relays or enough.
* `Cipher`: `AES_BYTES` 4 and `TOR_MSG_SIZE` 16 leave 1 byte behind the full
  blocks of the 13 after the header, as 16 and 512 leave 13 of 509.
* `Aes`, `Sha256`: full size, a fixed set of samples.
* `Dh`: `DH_KEY_BYTES` 2, the largest for which TLC can multiply residues;
  `Randoms` has values that make a prime of one byte, of two, and one that is
  not below p; `Garbage` is what buffers hold.
* `StreamMap`: `IdSpace` stands for 2^16 and is a multiple of the table size, as
  in the code; `MaxCounter` lets the 32-bit counter pass it by half.
* `StreamBuffer`: `MaxCapacity`, `Sizes`; bytes are numbered modulo `Bytes`.

### Fairness

Weak fairness of the threads' steps only: a thread that can go on does, TCP
delivers what was accepted, `epoll_wait` (level-triggered) reports every ready
descriptor again. The client's thread blocks in `fgets` at its prompts, so
fairness of its steps assumes a user who answers the prompts of a command once
begun; `PingReturns` needs that. Nothing else is assumed of users, and nothing
of operators, servers behind the exit relay or crashes. In `DirectoryServer` the
process that is exiting does end. `Fairness` in each module says which actions it is about.

## Proofs

Every theorem holds for all values of the constants its module's assumptions
allow. Temporal steps use only invariance: each invariant is shown to hold
initially and to be kept by every step, with one lemma per operation.

**Relay table** (`DirectoryServer_proofs`), for every set of addresses and
descriptors and so for tables of any size:

* `ManagerTypes`, `ManagerPartition`, `ManagerBounds`: the type invariant,
  `IdsPartitioned` and `InsideArrays`. None of the last two is inductive alone:
  the append slot lies inside the array only because no identifier on the
  stack or in use reaches `max_item_index`, and the partition survives a pop
  only because the stack has no duplicates and points inside the array. The
  inductive invariant `TableInv` is their conjunction with the lengths being
  positive while the table is initialised. One lemma per operation
  (`AppendTable`, `ReuseTable`, `RemoveTable`, `FreeTable`) shows it is kept.
* `ManagerUniqueIds`: `UniqueRelayId`, from `TableInv` and `GenEffect`, which
  says what both branches of `gen_relay` have in common: one free slot now
  points to a fresh object that holds that slot's identifier.
* `ManagerImplementsRegistry`: `ManagerSpec => RegistrySpec`, with `live` the
  identifiers in use and `peak` the number ever handed out.
* `MapsComplete`: `MapComplete`, for every history of requests. `SoFar` is the
  invariant of `get_relay_batch`'s loop: after each turn it holds each registered
  relay of the slots looked at once, in order, and has looked at one slot a turn
  unless it is full (`BatchTurnSoFar`, `BatchResult`). That `items_length` turns
  look at every slot, wherever they start, is `CycleIsOnto`. `ClientHandlerInv`
  adds to `TableInv` that the start lies below `items_length +
  SERVER_RELAYS_MAP_AMOUNT`: a batch ends below `items_length`, the handler adds at
  most one map, and the table never shrinks while it is initialised.

**Server sessions** (`DirectoryServer_proofs`), for any number of relays,
failures and restarts of the server:

* `RegisteredStays`, `SignedOutGone`, `PointersAreLive`: `RegisteredStaysListed`,
  `SignedOutIsGone` and `PointersLive`. None is inductive. That an entry stays
  while another relay signs out needs that the identifier of every sign-out
  that is under way is that relay's own entry (`SignoutOK`). That needs that
  the sign-out's request was sent with the keys of the server process that now
  runs, since a restarted server gives the same identifiers to others
  (`SessionsOK`). And the identifier a relay is told is its entry only because
  nothing of it was listed while its sign-up was under way and its descriptor
  is filled in by one thread (`SignupOK`, `EntriesOK`). `DirectoryInv` is the
  conjunction of these with `TableInv` and `UniqueRelayId`; `DirectoryInvariant`
  states it. `OthersStay` is the argument that the steps of one relay leave what
  is known of all others as it was. That a listed relay without a descriptor
  is just being filled in is `TableIsFilled`.

**Socket context** (`SocketContext_proofs`), for any number of connections and
any first length of the key array:

* `SocketTypes`, `SocketEntries`, `SocketCount`, `SocketNoneLeaked`: `TypeOK`,
  `EntryPerSession`, `SocksUsedCounts` and `NoneLeaked`. `SocketInv` is their
  conjunction with `FdsDistinct` (open connections have descriptors of their
  own). That is what makes `EntryPerSession` inductive: an entry found under a
  new connection's descriptor would belong to a session with the same
  descriptor. `NoneLeaked` needs the entry in turn, and the count needs that
  `add_socket` never finds one. One lemma for the steps that leave the array
  alone (`MoveKeeps`), one each for `add_socket`, `free_socket` and
  `free_socket_context`; `ResizedFits` says what `resize_key_list` guarantees.

**Stream tables** (`HashMap_proofs`, `StreamMap_proofs`), for tables of any size,
identifiers of any width that is a multiple of it, and any number of streams:

* `HashMap_proofs` has what insert, find and remove do. A table is `Consistent`
  when no identifier is filled in twice (`Distinct`) and the walk from the home
  slot of every identifier it holds meets no empty slot before it
  (`Reachable`). `InsertConsistent` and `RemoveConsistent` say that this is kept;
  removal keeps it only because it leaves a tombstone. Then find finds exactly
  what the table holds (`HeldIsFound`, `FoundIsHeld`) and only a full table
  refuses an identifier (`NotFullIsInsertable`).
* `ClientTable`, `RelayTable`: `ClientFindsOpened` and `RelayFindsConnected`. The
  exit relay's table is consistent and holds the identifiers that are connected.
  The client's has every entry in its home slot, because `gen_stream_id` passes
  over identifiers whose home slot is taken; that a counter cut to 16 bits keeps
  its home slot is `HomeOfTruncated`. `StreamMapTypes`: `MapTypeOK`.

**Relay process** (`Processes_proofs`), for any number of sessions,
descriptors and streams:

* `DescriptorsAreOwn`, `FreedSessionsClosed`, `RelayProcessTypes`:
  `OwnDescriptors`, `FreedLeavesOpen` and the types. `RelayInv` says of each
  session (`SessionOK`) that what it has opened is known to it or is of the kinds
  it forgets (`Accounted`), and, as long as `closedOthers` is false, that the
  numbers it holds are its own and no two entries of its table have the same
  (`Owned`: closing one of two equal numbers would leave the other dangling).
  `StepOK` is what a thread's step has to do: change no descriptor of another
  session that it did not open. `StepKeeps` derives the invariant from it, once
  for all steps, `MainKeeps` for those of the main thread: the number it holds
  is its own connection while it signs out (`MainOK`), so that the first close
  harms nobody (`MainLeavesSessions`), and a second close either hits a free
  number, or sets `closedOthers` (`MainCloseChanges`). `FreesAgainStep` is the
  same argument for the table that is freed twice.

**Client process** (`Processes_proofs`), for any limit on the relays and any length
of the server's list:

* `QueryAnswered`, `KeysFreed`, `ClientProcessTypes`: `QueryIsServers`,
  `KeysFreedOnce` and the types. `ClientInvariant` states the invariant they
  rest on, `ClientInv`. The two programs may be out of step with the messages,
  since each reads what has arrived of one as if it were all. What keeps them
  together is that the parts sent in each direction are one sequence
  (`Asked`, `Answered`), of which the other has read the first `c` or `s` parts
  and the rest is on its way (`InFlight`); where each waits bounds these numbers
  (`ClientAt`, `ServerAt`). `Derived` says which keys follow from what was read,
  `Progress` how far the list and the circuit are, and `KeyPlaces` which keys are
  allocated and freed where the client waits.

**Streams** (`Streams_proofs`), for any number of connections, tables and messages
of any size, any lengths of the user's data and any behaviour of the servers:

* `EventsHaveEntries`, `BytesArrive`, `BytesReturnInOrder`, `TablesAgree`,
  `StreamsTypes`: the safety properties of the runs `Streams` and `StreamsLive`.
  They share one inductive invariant, `StreamsInv`, which `StreamsInvariant`
  states. Its first part (`TablesOK`) needs no condition: every entry of the exit
  relay's table can be reached and has an open socket of its own, the epoll set
  is exactly these sockets, and a BEGIN brings a connection that is new. The
  other three hold while no connect was hasty. `Agree` says which streams are
  where: one that only the exit relay knows has its END on the way or its server
  ended it, one that only the client knows has its BEGIN or END on the way, and
  every message that names a stream both know means the same connection. `Up`
  says that the bytes a server has and those in the messages under way are,
  in order and without a gap as long as the connection takes bytes, those the
  user sent; `Down` the same, without the completeness, of what is in a server's
  socket, on the circuit, in the client's buffer and with the user.
* A connect while all is quiet is what makes `Agree` inductive: only then does an
  identifier that the client finds free belong to nobody at the exit relay.

**Receive buffer** (`StreamMap_proofs`), for any capacity and all sizes of
messages and reads:

* `ReceiveBufferIsFifo`: `FifoUnlessMisplaced`, from `BufferInvariant`. The
  invariant `BufferInv` says that byte `k` of the FIFO is at place `At(tail, k,
  capacity)` and how `head` lies to the bytes (`Placed`): straight behind them,
  around the end of the array, or at its end with nothing left. `GrowKeeps` shows
  that a doubling keeps the bytes from the first two but with `head = tail`, and
  the two cases that are missing are those of `GrowMisplaces`. `ReserveFits` says
  that the loop ends with room for the bytes, `StoreKeeps` and `PopKeeps` what the
  copies do. Without any condition the indices stay inside the array
  (`Current \in Buffers`).

**Circuit** (`Circuit_proofs`), for any number of relays, messages under way,
events of servers and crashes:

* `LayersPerHop`, `CircuitChain`: `OneLayerPerHop` and `CircuitIsChain`. Neither is
  inductive. `OneLayerPerHop` counts layers from `cur_relays`, so nothing may be
  under way when the client adds one to it but the message that makes it do so
  (`OneMessage`): while the circuit grows there is EXTEND on its way to the
  last relay, or one answer on its way back, and the answer means that the new
  relay is there. `AddingOK` relates the place of the relay that adds another,
  the place of the new one, and what can be on the link between them, for the
  client and the guard as for two relays. A relay forwards only if it is not
  the last one counted, and the exit relay never sees EXTEND (`DownCells`). The
  guard that is counted at the end of its stream is the exception (`CutOff`): it
  has stopped, its connection is closed, and no send arrives there.
  `CircuitSound` states the conjunction, `CircuitInv`.
* `ClientWraps` says what the client's loop over its keys does, for any number of
  them; `Unwraps` and `Wraps` are a relay's one layer off and on. `TakeDown`,
  `TakeUp`, `PutDown` and `PutUp` say when a message may leave or enter a link,
  `AddSound` what a step of the key exchange may change, `CountSound` what has
  to hold when the client counts a relay, and `StopSound` that a relay may stop
  anywhere. Each action's lemma puts these together.
* `CircuitTypes`: `TypeOK`. All of it but one conjunct is in `CircuitInv` or in a
  guard. That `pings` stays a natural number is not: `ClientReceives` takes one off
  for each padding message it reads, with nothing to stop it at 0. `PingInv`
  (`PingsCounted`) says that the pings under way, on all links and in both
  directions, can be numbered within `1 .. pings` with no number twice
  (`Numbers`). A step that forwards, echoes or loses a message moves its number
  along or frees it (`ReadPing`, `SendPing`); the one the client reads frees the
  number that is taken off.

**Encryption of messages** (`Circuit_proofs`), for any number of relays, any size of
a block and messages of any whole number of blocks:

* `FullBlocksAreKept`: `FullBlocksArrive`. The invariant `CipherInv` compares the
  bytes on a link with the layers the sender puts on a plain message one after
  the other (`LayersOf`): an answer on link r is, byte for byte, the one with the
  layers of relays r to `hops`; a request agrees with its counterpart only as far
  as the full blocks go (`Agree`), since decrypting wraps the tail once more. The
  layer of a link comes off whole (`LinkRoundTrip`), because all its blocks are
  full and no byte of the message comes from decrypting under a link's key
  (`Fine`); a relay's tail does, under its onion key. An onion layer comes off up
  to `FullEnd` (`OnionUnwraps`) because nothing a sender wrapped comes from
  decrypting (`Clear`). That AES is undone by its inverse under the same key is
  `Aes128`'s definition. `FullBlock` and `TailWraps` say what the loop of
  `symmetric_encrypt` does to a block, `Unlayered` what the client's loop over its
  keys does.

`Cycles_proofs` has the arithmetic: a walk of n turns around n slots meets each
once, and a loop of a bounded number of turns has its sequence of states. What
would be an induction is an argument about a least counterexample (`NatLeast`,
`UpTo`), since the library's induction theorems take an operator, which the
provers cannot instantiate.

Assumptions, each named in the module that declares the constants:
`ObjectsAssumption` (the null pointer is not an address), `DirectoryAssumption`
(the code for no identifier is no identifier), `ClientHandlerAssumption` (a map has room for a relay),
`SocketAssumption` (finitely many connections, a first length that is not 0),
`HashMapAssumption` (a table has slots), `IdSpaceAssumption` (the width of
identifiers is a multiple of the table's size, as 2^16 is of the code's),
`RelayProcessAssumption` (there is a descriptor, stream identifiers are
numbers, the main thread is no session), `CircuitAssumption` (there is a relay;
that the code asks for at most 5 is not needed), `ClientAssumption` (at most 255
relays, a default within the limit), `StreamsAssumption` (bounds that are numbers, messages with room
for a byte), `CipherAssumption` (a message is a whole number of blocks, as 512
bytes are of 16, and longer than its header), `BufferAssumption` (capacities are powers of two, bytes are numbered
beyond the largest).

Only model-checked: the properties of `Aes`, `Sha256` and `Dh`, which are about
what fixed computations yield on given inputs, TLC's to evaluate. All liveness is
only model-checked as well: fairness and ENABLED are outside what the provers
reason about.

## Not modelled

* The relay's arguments and the configuration file (`relay_config.c`,
  `fetch_server_config.c`): read once, before anything else runs, into values
  nothing changes afterwards.
* The console loops of the three programs and the terminal's line editing: the
  commands they recognise are actions, their text is not.
* Wrappers of system calls (`connect_server*.c`, `create_and_bind.c`,
  `set_socket_nonblock.c`, `ip_fetch.c`), strings, files, debug output.
* The layout of messages, except where a payload is read at another place than
  it was written.
* Partial reads of Tor messages: `Circuit` and `Streams` read messages whole;
  the query of the client has partial reads.
* Memory, apart from the relay table's objects and the client's keys.

## Plan

1. (done) Relay table with proofs; circuit; streams, tables and buffer; socket
   context with proofs; server sessions.
2. (done) Encryption of buffers, AES, SHA-256, the exchange of keys; the
   client's query and the client's keys; the descriptors of a relay.
3. (done) Proofs about the relay table, the server's sessions, the socket
   context, the stream tables, the two processes, the circuit and its types, the
   streams and the receive buffer.
4. Partial reads of Tor messages in `Circuit`.

## Running

    tlc -workers 2 -config Circuit.cfg Circuit
    tlc -workers 2 -config Parts.cfg MCParts
    tlc -workers 2 -config Descriptors.cfg MCDescriptors
    tlapm DirectoryServer_proofs.tla

and `tlapm` on the other modules named `_proofs` in the same way.
