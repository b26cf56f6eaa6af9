-------------------------------- MODULE Scan --------------------------------
(***************************************************************************)
(* The linear searches of the C code: for (i = 0; i < count; i++) over an    *)
(* array, returning at the first entry that matches.                        *)
(***************************************************************************)
EXTENDS Naturals

\* The index a search stops at, S being the set of the indices that match.
First(S) == CHOOSE i \in S : \A j \in S : i <= j
=============================================================================
