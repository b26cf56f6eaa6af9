---------------------------- MODULE MCDetection ----------------------------
(***************************************************************************)
(* A worker, a sentient and another enforcer on three machines, with room    *)
(* for two bindings and for what is held of one agent.                       *)
(*                                                                         *)
(* Identities are bound while nobody has sent anything that is counted, so   *)
(* that the bindings and the counts are not all taken through their states   *)
(* at once; forged and malformed identities come at any time.                *)
(***************************************************************************)
EXTENDS Detection

CountsAtRest == \A a \in Agents : /\ sent[a] = Never
                                  /\ threats[a].rate = Times!EmptyRing

ScoresAtRest == \A a \in Agents : threats[a].scores = NoScores

OneAtATime == \/ CountsAtRest /\ ScoresAtRest
              \/ bound = {} /\ ScoresAtRest
              \/ bound = {} /\ \A a \in Agents :
                                  \A i \in DOMAIN threats[a].evidence :
                                    threats[a].evidence[i].kind \in {"rate", "outlier"}
=============================================================================
