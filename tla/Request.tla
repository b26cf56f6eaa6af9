------------------------------ MODULE Request ------------------------------
(***************************************************************************)
(* From a client's request to a program: the emissary and the architect, and *)
(* the topic nml/spec between them.  The broker delivers a spec at least     *)
(* once, and may lose it with the architect's connection.                    *)
(***************************************************************************)
EXTENDS Architect, Emissary

ASSUME RequestAssumption == Specs \subseteq Intents

vars == <<architectVars, emissaryVars>>

Init == ArchitectInit /\ EmissaryInit

\* The first of the specs under way is handled; its delivery may be repeated.
Deliver(build, sent) ==
  /\ specs # <<>>
  /\ specs' \in {Tail(specs), specs}
  /\ HearSpec(Head(specs), build, sent)
  /\ UNCHANGED <<gateVars, resultVars, hooks>>

Lose == /\ specs # <<>>
        /\ specs' = Tail(specs)
        /\ UNCHANGED <<architectVars, gateVars, resultVars, hooks>>

PostGenerate(intent, build, sent) ==
  Generate(intent, build, sent) /\ UNCHANGED emissaryVars

Next ==
  \/ \E intent \in Intents : \E build \in Builds(intent), sent \in BOOLEAN :
       PostGenerate(intent, build, sent)
  \/ \E build \in UNION {Builds(i) : i \in Intents}, sent \in BOOLEAN :
       Deliver(build, sent)
  \/ Lose
  \/ EmissaryNext /\ UNCHANGED architectVars

Spec == Init /\ [][Next]_vars
=============================================================================
