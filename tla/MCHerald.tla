------------------------------ MODULE MCHerald ------------------------------
(***************************************************************************)
(* Four names of which two agree in what cred_find() compares, room for two  *)
(* records, and a broker that may be started twice.                          *)
(***************************************************************************)
EXTENDS Herald

CONSTANTS worker, oracle, longName, longerName

MCPrefix == [n \in {worker, oracle, longName, longerName} |->
              IF n = longerName THEN longName ELSE n]
=============================================================================
