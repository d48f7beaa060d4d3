------------------------------- MODULE Cipher -------------------------------
(***************************************************************************)
(* What the encryption of buffers (src/encryptions/source/encryptions.c)   *)
(* does to the bytes of a Tor message that goes down a circuit and of one  *)
(* that comes back: the onion layers, which leave out the header, and the  *)
(* layer of each link.                                                     *)
(*                                                                         *)
(* A byte is a term <<op, key, block, at>>: byte number `at` of a plain    *)
(* message (op "plain"), or of what AES makes of a block under a key.  AES *)
(* itself is only known to be undone by its inverse under the same key     *)
(* (module Aes).                                                           *)
(***************************************************************************)
EXTENDS Integers, Sequences

CONSTANTS AES_BYTES,     \* 16 in the code
          TOR_MSG_SIZE,  \* 512 in the code
          MaxHops        \* MAX_RELAYS, 5 in the code

ASSUME CipherAssumption ==
    /\ AES_BYTES \in Nat \ {0} /\ TOR_MSG_SIZE \in Nat /\ TOR_MSG_SIZE > 3
    /\ TOR_MSG_SIZE % AES_BYTES = 0
    /\ MaxHops \in Nat

VARIABLES hops,   \* relays of the circuit
          place,  \* who has the message: "client", "link", "exit", "home"
          link,   \* the link it is on: link r ends at relay r
          upward,
          bytes

cipherVars == <<hops, place, link, upward, bytes>>

Positions == 1 .. TOR_MSG_SIZE
Zero == <<"zero", 0, <<>>, 0>>
PlainMessage(name) == [i \in Positions |-> <<"plain", name, <<>>, i>>]
Blank == [i \in Positions |-> Zero]

OnionKey(r) == r
LinkKey(r) == -r

(* One block through AES (op) or its inverse (undo). *)
Aes128(op, undo, k, block) ==
    LET inner == block[1][3]
    IN  IF block = [j \in 1 .. AES_BYTES |-> <<undo, k, inner, j>>]
        THEN inner
        ELSE [j \in 1 .. AES_BYTES |-> <<op, k, block, j>>]

(* The loop of symmetric_encrypt and symmetric_decrypt over length bytes   *)
(* from position first on: full blocks while more than a block is left,    *)
(* then the rest, filled up with zeros and cut to its length.              *)
Symmetric(op, undo, k, data, first, length) ==
    LET turns == IF length = 0 THEN 0 ELSE (length - 1) \div AES_BYTES
        remainder == length - turns * AES_BYTES
        Block(t) == [j \in 1 .. AES_BYTES |->
                        IF t < turns \/ j <= remainder
                        THEN data[first + t * AES_BYTES + j - 1] ELSE Zero]
        result == [t \in 0 .. turns |-> Aes128(op, undo, k, Block(t))]
    IN  [i \in Positions |->
            IF i \in first .. first + length - 1
            THEN result[(i - first) \div AES_BYTES][1 + ((i - first) % AES_BYTES)]
            ELSE data[i]]

symmetric_encrypt(k, data, first, length) == Symmetric("enc", "dec", k, data, first, length)
symmetric_decrypt(k, data, first, length) == Symmetric("dec", "enc", k, data, first, length)

(* circ_id and cmd are left out by the onion layers. *)
Header == 3
OnionEncrypt(data, r) == symmetric_encrypt(OnionKey(r), data, Header + 1, TOR_MSG_SIZE - Header)
OnionDecrypt(data, r) == symmetric_decrypt(OnionKey(r), data, Header + 1, TOR_MSG_SIZE - Header)
LinkEncrypt(data, r) == symmetric_encrypt(LinkKey(r), data, 1, TOR_MSG_SIZE)
LinkDecrypt(data, r) == symmetric_decrypt(LinkKey(r), data, 1, TOR_MSG_SIZE)

-----------------------------------------------------------------------------
CipherInit ==
    /\ hops \in 1 .. MaxHops
    /\ place = "client"
    /\ link = 0
    /\ upward = FALSE
    /\ bytes = Blank

(* The client's loops over its onion keys, from the last to the first when *)
(* sending and from the first to the last when receiving.                  *)
OnionEncryptAll(data, amount) ==
    LET after[i \in 0 .. amount] ==
            IF i = 0 THEN data ELSE OnionEncrypt(after[i - 1], amount + 1 - i)
    IN  after[amount]
OnionDecryptAll(data, amount) ==
    LET after[i \in 0 .. amount] ==
            IF i = 0 THEN data ELSE OnionDecrypt(after[i - 1], i)
    IN  after[amount]

(* The client's send_tor_buffer. *)
ClientSends ==
    /\ place = "client"
    /\ bytes' = LinkEncrypt(OnionEncryptAll(PlainMessage("request"), hops), 1)
    /\ place' = "link" /\ link' = 1 /\ upward' = FALSE
    /\ UNCHANGED hops

(* The relay's recv_tor_buffer from the side of the client. *)
RelayPeelsAll(data, r) ==   \* slip: the header is taken for encrypted
    symmetric_decrypt(OnionKey(r), LinkDecrypt(data, r), 1, TOR_MSG_SIZE)
RelayPeels(data, r) == OnionDecrypt(LinkDecrypt(data, r), r)

RelayForwardsDown ==
    /\ place = "link" /\ ~upward /\ link < hops
    /\ bytes' = LinkEncrypt(RelayPeels(bytes, link), link + 1)
    /\ link' = link + 1
    /\ UNCHANGED <<hops, place, upward>>

ExitOpens ==
    /\ place = "link" /\ ~upward /\ link = hops
    /\ bytes' = RelayPeels(bytes, link)
    /\ place' = "exit"
    /\ UNCHANGED <<hops, link, upward>>

(* The relay's send_tor_buffer to the side of the client. *)
RelayWraps(data, r) == LinkEncrypt(OnionEncrypt(data, r), r)

ExitSends ==
    /\ place = "exit"
    /\ bytes' = RelayWraps(PlainMessage("answer"), hops)
    /\ place' = "link" /\ upward' = TRUE
    /\ UNCHANGED <<hops, link>>

RelayForwardsUp ==
    /\ place = "link" /\ upward /\ link > 1
    /\ bytes' = RelayWraps(LinkDecrypt(bytes, link), link - 1)
    /\ link' = link - 1
    /\ UNCHANGED <<hops, place, upward>>

(* The client's recv_tor_buffer. *)
ClientOpens ==
    /\ place = "link" /\ upward /\ link = 1
    /\ bytes' = OnionDecryptAll(LinkDecrypt(bytes, 1), hops)
    /\ place' = "home"
    /\ UNCHANGED <<hops, link, upward>>

CipherNext == ClientSends \/ RelayForwardsDown \/ ExitOpens
              \/ ExitSends \/ RelayForwardsUp \/ ClientOpens

CipherSpec == CipherInit /\ [][CipherNext]_cipherVars
-----------------------------------------------------------------------------
(* The end of the last block of the onion layers that is full. *)
FullEnd == Header + AES_BYTES * ((TOR_MSG_SIZE - Header) \div AES_BYTES)

Arrived == CASE place = "exit" -> {"request"}
             [] place = "home" -> {"answer"}
             [] OTHER -> {}

(* Both ways, over any number of relays, the header and the full blocks of *)
(* a message arrive as they were sent.                                     *)
FullBlocksArrive ==
    \A name \in Arrived : \A i \in 1 .. FullEnd : bytes[i] = PlainMessage(name)[i]

(* The whole message arrives, as encryptions.h says of symmetric_decrypt.  *)
WholeMessageArrives ==
    \A name \in Arrived : bytes = PlainMessage(name)
=============================================================================
