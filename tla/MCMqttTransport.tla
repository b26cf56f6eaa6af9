-------------------------- MODULE MCMqttTransport --------------------------
(***************************************************************************)
(* Two slots and four messages of the broker, one of them too long for the  *)
(* agent and the last for the client; an agent that publishes twice after    *)
(* its announcement, in a send buffer that holds three packets, so that it   *)
(* is cleaned and overflows.                                                 *)
(***************************************************************************)
EXTENDS MqttTransport

FourOffers == <<[kind |-> "kept", qos |-> 1], [kind |-> "long", qos |-> 0],
                [kind |-> "kept", qos |-> 0], [kind |-> "TOO_LARGE", qos |-> 0]>>

\* Bounds the agent's traffic and the client's own, which is what has been
\* answered twice, and ends with a client or a connection that has failed, as it
\* stays so.
Bounded == /\ Len(accepted) * offered <= 4
           /\ Len(on_the_way) <= MaxOnTheWay
           /\ client.error = "OK"
           /\ link \/ stage = "connecting" \/ offered = 0
=============================================================================
