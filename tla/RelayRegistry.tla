--------------------------- MODULE RelayRegistry ---------------------------
(***************************************************************************)
(* What the directory server promises of relay identifiers, whatever table *)
(* keeps them: an identifier is given to one relay at a time, it is reused *)
(* only after that relay was removed, and a number that was never used is  *)
(* taken only when every smaller one is taken, so the largest identifier   *)
(* stays below the largest number of relays that were registered at once.  *)
(***************************************************************************)
EXTENDS Naturals

VARIABLES live,   \* the identifiers of the registered relays
          peak    \* how many identifiers were ever handed out

vars == <<live, peak>>

Init == live = {} /\ peak = 0

(* An identifier that was given back is handed out again. *)
Reuse(id) ==
    /\ id \in (0 .. peak - 1) \ live
    /\ live' = live \cup {id}
    /\ UNCHANGED peak

(* No identifier is free: the next number is handed out. *)
Extend ==
    /\ live = 0 .. peak - 1
    /\ live' = live \cup {peak}
    /\ peak' = peak + 1

Remove(id) ==
    /\ id \in live
    /\ live' = live \ {id}
    /\ UNCHANGED peak

(* The server shuts down and forgets every relay. *)
Close == live' = {} /\ peak' = 0

Next == \/ Extend
        \/ \E id \in 0 .. peak - 1 : Reuse(id) \/ Remove(id)
        \/ Close

Spec == Init /\ [][Next]_vars
=============================================================================
