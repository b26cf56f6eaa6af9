--------------------------- MODULE MCEnforcement ---------------------------
(***************************************************************************)
(* Two enforcers, one operated and one that only hears; an agent that may    *)
(* be quarantined and a sentient that may not.                               *)
(***************************************************************************)
EXTENDS Enforcement
=============================================================================
