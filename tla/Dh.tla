--------------------------------- MODULE Dh ---------------------------------
(***************************************************************************)
(* The Diffie-Hellman exchange of src/encryptions/dh between the parties   *)
(* of a network that have their prime and generator from the server.       *)
(* Numbers go over the wire, and into the hash a symmetric key is made of, *)
(* as DH_KEY_BYTES bytes, the lowest first, in buffers that hold whatever  *)
(* was there before.                                                       *)
(***************************************************************************)
EXTENDS Integers, Sequences

LOCAL INSTANCE Folds

CONSTANTS DH_KEY_BYTES,  \* 256 in the code
          G_GLOBAL,      \* 5 in the code
          Randoms,       \* what /dev/urandom may give
          Garbage        \* bytes a buffer may hold before it is written

(* Products of two residues fit TLC's integers for two bytes. *)
ASSUME DhAssumption ==
    /\ DH_KEY_BYTES \in Nat \ {0} /\ G_GLOBAL \in Nat
    /\ Randoms \subseteq 0 .. 256 ^ DH_KEY_BYTES - 1
    /\ Garbage \subseteq 0 .. 255

Parties == {"client", "relay"}
Peer == [client |-> "relay", relay |-> "client"]
None == -1

VARIABLES dhServerP,  \* the server's p
          dhP,        \* the p a party was given
          dhPrivate, dhPublic,
          dhWire,     \* the public key a party has sent
          dhCommon    \* the bytes a party makes its symmetric key of

dhVars == <<dhServerP, dhP, dhPrivate, dhPublic, dhWire, dhCommon>>

-----------------------------------------------------------------------------
(* A divisor of a number of this size, if there is one, is below its root. *)
IsPrime(n) == n > 1 /\ \A d \in 2 .. 16 ^ DH_KEY_BYTES + 1 : d < n => n % d # 0
mpz_nextprime(n) ==
    LET from[m \in Nat] == IF IsPrime(m) THEN m ELSE from[m + 1]
    IN  from[n + 1]

(* base ^ e modulo p, by the bits of e from the highest on. *)
mpz_powm(base, e, p) ==
    LET power[n \in Nat] ==
            IF n = 0 THEN 1 % p
            ELSE LET half == power[n \div 2]
                 IN  (((half * half) % p) * (IF n % 2 = 1 THEN base % p ELSE 1)) % p
    IN  power[e]

Digit(n, k) == (n \div 256 ^ (k - 1)) % 256
ByteCount(n) == CHOOSE c \in 0 .. DH_KEY_BYTES : n < 256 ^ c /\ \A b \in 0 .. c - 1 : n >= 256 ^ b

mpz_import(bytes) ==
    LET value[k \in 0 .. Len(bytes)] ==
            IF k = 0 THEN 0 ELSE value[k - 1] + bytes[k] * 256 ^ (k - 1)
    IN  value[Len(bytes)]

(* mpz_export writes the bytes a number needs; the rest is zeroed. *)
export_mpz_fixedShort(out, n) ==   \* slip: the rest of the buffer is left as it was
    [k \in 1 .. DH_KEY_BYTES |-> IF k <= ByteCount(n) THEN Digit(n, k) ELSE out[k]]
export_mpz_fixed(out, n) ==
    [k \in 1 .. DH_KEY_BYTES |-> IF k <= ByteCount(n) THEN Digit(n, k) ELSE 0]

Buffers == {[k \in 1 .. DH_KEY_BYTES |-> junk] : junk \in Garbage}

-----------------------------------------------------------------------------
DhInit ==
    /\ dhServerP = None
    /\ dhP = [a \in Parties |-> None]
    /\ dhPrivate = [a \in Parties |-> None] /\ dhPublic = [a \in Parties |-> None]
    /\ dhWire = [a \in Parties |-> <<>>] /\ dhCommon = [a \in Parties |-> <<>>]

(* The server: a random number of one byte less, with the highest and the  *)
(* lowest bit set, and the next prime.                                     *)
init_dh ==
    /\ dhServerP = None
    /\ \E r \in Randoms :
           LET low == r % 256 ^ (DH_KEY_BYTES - 1)
               odd == low + (1 - (low % 2))
           IN  dhServerP' = mpz_nextprime(odd + 128 * 256 ^ (DH_KEY_BYTES - 1))
    /\ UNCHANGED <<dhP, dhPrivate, dhPublic, dhWire, dhCommon>>

(* A party's handshake with the server: get_prime_dh, then set_prime_dh. *)
set_prime_dh(a) ==
    /\ dhServerP # None /\ dhP[a] = None
    /\ \E out \in Buffers :
           dhP' = [dhP EXCEPT ![a] = mpz_import(export_mpz_fixed(out, dhServerP))]
    /\ UNCHANGED <<dhServerP, dhPrivate, dhPublic, dhWire, dhCommon>>

(* A prime below p, drawn again until there is one. *)
generate_prime_low_p(p) == {prime \in {mpz_nextprime(r) : r \in Randoms} : prime < p}

gen_dh_prime_identity_key(a) ==
    /\ dhP[a] # None /\ dhPrivate[a] = None
    /\ \E prime \in generate_prime_low_p(dhP[a]) :
           /\ dhPrivate' = [dhPrivate EXCEPT ![a] = prime]
           /\ dhPublic' = [dhPublic EXCEPT ![a] = mpz_powm(G_GLOBAL, prime, dhP[a])]
    /\ UNCHANGED <<dhServerP, dhP, dhWire, dhCommon>>

get_dh_public_identity_key(a) ==
    /\ dhPublic[a] # None /\ dhWire[a] = <<>>
    /\ \E out \in Buffers : dhWire' = [dhWire EXCEPT ![a] = export_mpz_fixed(out, dhPublic[a])]
    /\ UNCHANGED <<dhServerP, dhP, dhPrivate, dhPublic, dhCommon>>

(* The common key of a and the party whose public key came as val. *)
set_dh_key_other_public(a, val) == mpz_powm(mpz_import(val), dhPrivate[a], dhP[a])

(* derive_symmetric_key_from_public up to its hash (module Sha256): the    *)
(* other's public key comes in and the common key goes to a buffer.        *)
derive_symmetric_key_from_public(a) ==
    /\ dhPrivate[a] # None /\ dhWire[Peer[a]] # <<>> /\ dhCommon[a] = <<>>
    /\ \E out \in Buffers :
           dhCommon' = [dhCommon EXCEPT ![a] =
                            export_mpz_fixed(out, set_dh_key_other_public(a, dhWire[Peer[a]]))]
    /\ UNCHANGED <<dhServerP, dhP, dhPrivate, dhPublic, dhWire>>

DhNext ==
    \/ init_dh
    \/ \E a \in Parties :
           \/ set_prime_dh(a)
           \/ gen_dh_prime_identity_key(a)
           \/ get_dh_public_identity_key(a)
           \/ derive_symmetric_key_from_public(a)
-----------------------------------------------------------------------------
(* Two parties that have exchanged their public keys make their symmetric  *)
(* key of the same bytes, whatever their buffers held, and those stand for *)
(* g^(x*y) modulo the server's prime; a number that needs fewer bytes (one *)
(* in 256 does) makes no difference.                                       *)
DhKeysAgree ==
    \A a, b \in Parties :
        dhCommon[a] # <<>> /\ dhCommon[b] # <<>> =>
            /\ dhCommon[a] = dhCommon[b]
            /\ mpz_import(dhCommon[a]) =
                   mpz_powm(G_GLOBAL, (dhPrivate["client"] * dhPrivate["relay"]) % (dhServerP - 1),
                            dhServerP)
=============================================================================
