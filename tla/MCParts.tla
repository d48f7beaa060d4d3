------------------------------ MODULE MCParts ------------------------------
(***************************************************************************)
(* The parts of the system that are modelled each for itself, checked in   *)
(* one run: a behaviour is one of the part it has chosen, and the others   *)
(* stay in one of their initial states.                                    *)
(***************************************************************************)
EXTENDS ClientHandler, StreamMap, StreamBuffer, ClientProcess, Cipher, Aes, Sha256, Dh

VARIABLE part

PartNames == {"relays", "client table", "relay table", "stream buffer", "client",
              "cipher", "aes", "sha", "dh"}

(* A part that is not chosen starts in one state only. *)
Fixed(name, value, values) == part = name \/ value = CHOOSE v \in values : TRUE

PartsInit ==
    /\ part \in PartNames
    /\ ClientHandlerInit
    /\ MapInit
    /\ BufferInit
    /\ ClientProcessInit /\ Fixed("client", listed, 0 .. MaxListed)
    /\ CipherInit /\ Fixed("cipher", hops, 1 .. MaxHops)
    /\ AesInit /\ Fixed("aes", aesSample, AesSamples)
    /\ ShaInit /\ Fixed("sha", shaSample, ShaSamples)
    /\ DhInit

PartsNext ==
    /\ \/ part = "relays" /\ ClientHandlerNext
       \/ part # "relays" /\ UNCHANGED clientHandlerVars
    /\ \/ part = "client table" /\ ClientNext
       \/ part = "relay table" /\ RelayNext
       \/ part \notin {"client table", "relay table"} /\ UNCHANGED mapVars
    /\ \/ part = "stream buffer" /\ BufferNext
       \/ part # "stream buffer" /\ UNCHANGED streamBufferVars
    /\ \/ part = "client" /\ ClientProcessNext
       \/ part # "client" /\ UNCHANGED clientProcessVars
    /\ \/ part = "cipher" /\ CipherNext
       \/ part # "cipher" /\ UNCHANGED cipherVars
    /\ \/ part = "aes" /\ AesNext
       \/ part # "aes" /\ UNCHANGED aesVars
    /\ \/ part = "sha" /\ ShaNext
       \/ part # "sha" /\ UNCHANGED shaVars
    /\ \/ part = "dh" /\ DhNext
       \/ part # "dh" /\ UNCHANGED dhVars
    /\ UNCHANGED part

partsVars == <<part, clientHandlerVars, mapVars, streamBufferVars, clientProcessVars, cipherVars,
               aesVars, shaVars, dhVars>>

PartsSpec == PartsInit /\ [][PartsNext]_partsVars
-----------------------------------------------------------------------------
(* The types of the parts that keep state: the table of relays, the        *)
(* stream tables and their identifiers, the indices of a receive buffer,   *)
(* and the keys and streams of a client.                                   *)
PartsTypeOK ==
    /\ part \in PartNames
    /\ ManagerTypeOK /\ relay_start \in Nat
    /\ MapTypeOK
    /\ BufferTypeOK
    /\ ClientProcessTypeOK
=============================================================================
