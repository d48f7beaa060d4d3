--------------------------- MODULE MCDescriptors ---------------------------
(***************************************************************************)
(* The two programs whose threads share a table of descriptors, the        *)
(* directory server (SocketContext) and a relay (RelayProcess), checked in *)
(* one run: a behaviour is one of the program it has chosen.               *)
(***************************************************************************)
EXTENDS SocketContext, RelayProcess, TLC

VARIABLE program

DescriptorsInit ==
    /\ Init
    /\ RelayProcessInit
    /\ program \in {"server", "relay"}
    /\ program = "server" => file[1] = File(Main, "listener")

DescriptorsNext ==
    /\ \/ program = "server" /\ Next /\ UNCHANGED relayProcessVars
       \/ program = "relay" /\ RelayProcessNext /\ UNCHANGED vars
    /\ UNCHANGED program

DescriptorsSpec == DescriptorsInit /\ [][DescriptorsNext]_<<program, vars, relayProcessVars>>

(* The sessions of a relay are interchangeable.                            *)
CircuitSymmetry == Permutations(Circuits)
=============================================================================
