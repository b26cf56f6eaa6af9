----------------------------- MODULE MCRequest -----------------------------
(***************************************************************************)
(* Three addresses on two rate slots; three programs of the oracle on two    *)
(* result slots; two webhooks of which one answers promptly; intents with a  *)
(* template, with a broken template and with none, on a catalog of two.      *)
(*                                                                         *)
(* The gate, the results and the catalog share no state but the specs under  *)
(* way, so they are taken through their states in turn, not all at once.     *)
(***************************************************************************)
EXTENDS Request

MCTemplateFor == [i \in {"classify", "rank"} |->
                    IF i = "classify" THEN "classifier" ELSE "broken"]

GateAtRest == slot = 1 /\ \A i \in DOMAIN rate : i = 1 /\ rate[i].ip = "a"
                                               /\ rate[i].count = 1

ResultsAtRest == results = Results!EmptyRing /\ Idle

CatalogAtRest == catalog = EmptyRing /\ answer = NoAnswer

OneAtATime ==
  \/ ResultsAtRest /\ CatalogAtRest
  \/ GateAtRest /\ CatalogAtRest /\ specs = <<>>
  \/ GateAtRest /\ ResultsAtRest /\ hooks = <<>>
=============================================================================
