------------------------- MODULE MCDirectoryServer -------------------------
(* Instance of DirectoryServer for TLC.  The addresses calloc returns and  *)
(* the relays are interchangeable; runs that check liveness do without.    *)
EXTENDS DirectoryServer, TLC
Symmetry == Permutations(Objects) \cup Permutations(Descriptors)
=============================================================================
