---------------------------- MODULE Enforcement ----------------------------
(***************************************************************************)
(* Several enforcers keeping their threat tables in step by gossip:         *)
(* roles/enforcer/enforcer_agent.c, its HTTP management calls, its          *)
(* MSG_ENFORCE handler and its periodic monitor.                            *)
(*                                                                         *)
(* pending[e] is what others published on nml/enforce and e has not yet     *)
(* handled, in any order (a QoS 1 retry overtakes nothing but is late).     *)
(* A message may never get there: the publisher does not look at what       *)
(* publishing answers, and the receiver's transport drops what finds its    *)
(* ring full (edge/mqtt_transport.c, in detail in MqttTransport).           *)
(* Detection (rates, outliers, identity clashes) ends in do_quarantine()    *)
(* with the default duration, as an operator's call does; both are          *)
(* Quarantine here.                                                         *)
(*                                                                         *)
(* Abstracted: reasons, evidence, and "W" messages, which are only printed. *)
(***************************************************************************)
EXTENDS Naturals, Sequences, FiniteSets

CONSTANTS
  Enforcers,
  Operated,    \* the enforcers an operator or a detector acts on
  Targets,     \* agents somebody may want to quarantine
  Protected,   \* those named "sentient..."
  Durations,   \* what an operator may ask for; 0 is for ever
  Duration,    \* QUARANTINE_DURATION_SEC
  MaxThreats,  \* MAX_THREAT_ENTRIES
  Approved,    \* what an enforcer's --approve may name
  Announcers,  \* the targets that send heartbeats
  MaxPeers, StaleAfter,  \* of every agent's peer table
  Redelivery,  \* whether QoS 1 may deliver a message again
  QueueSize,   \* slots of the receive ring other traffic leaves free
  MaxTime, MaxFailures   \* bounds, for model checking only

ASSUME EnforcementAssumption ==
  /\ Operated \subseteq Enforcers
  /\ Protected \subseteq Targets
  /\ Announcers \subseteq Targets /\ Approved \subseteq Targets
  /\ Duration \in Nat \ {0} /\ Durations \subseteq Nat
  /\ {MaxThreats, MaxPeers} \subseteq Nat \ {0}
  /\ Redelivery \in BOOLEAN
  /\ QueueSize \in Nat

VARIABLES
  threats,   \* per enforcer, g_threats
  peers,     \* per enforcer, g_peers
  pending,   \* per enforcer, the messages it has yet to handle
  cut,       \* the enforcers whose MQTT client has failed
  now,
  restarts,
  freed,     \* ghost: the targets an operator lifted or a timer freed, anywhere
  missed     \* ghost: per enforcer, the targets of the "Q"s lost on their way to it

vars == <<threats, peers, pending, cut, now, restarts, freed, missed>>

Table == INSTANCE PeerSlots WITH Names <- Targets

\* A slot of g_threats, or what threat_get() finds nothing for.
Unknown == [known |-> FALSE, quarantined |-> FALSE, expires |-> 0,
            blacklisted |-> FALSE]

Notice(type, n, from) == [type |-> type, target |-> n, from |-> from]

Init == /\ threats = [e \in Enforcers |-> [n \in Targets |-> Unknown]]
        /\ peers = [e \in Enforcers |-> <<>>]
        /\ pending = [e \in Enforcers |-> {}]
        /\ cut = {}
        /\ now = 0
        /\ restarts = 0
        /\ freed = {}
        /\ missed = [e \in Enforcers |-> {}]

----------------------------------------------------------------------------
(* The helpers the handlers share, as what they do to one enforcer's tables *)

IsSentient(n) == n \in Protected

Known(e) == {n \in Targets : threats[e][n].known}

\* threat_get_or_create() returns a slot.
HasSlot(e, n) == n \in Known(e) \/ Cardinality(Known(e)) < MaxThreats

\* The gossip that e's own broadcasts add, given what stays pending: none if
\* publishing fails, which broadcast_enforce() does not look at.
Gossip(net, e, notices) ==
  [f \in Enforcers |-> IF f = e \/ e \in cut THEN net[f]
                                             ELSE net[f] \cup notices]

\* Those who will not hear that e has quarantined n.
Deprived(e, n) ==
  [f \in Enforcers |-> IF f # e /\ e \in cut THEN missed[f] \cup {n} ELSE missed[f]]

\* do_quarantine() gets past its early returns.
Quarantines(e, n) == /\ ~IsSentient(n)
                     /\ HasSlot(e, n)
                     /\ ~threats[e][n].quarantined

Quarantined(t, n, d) ==
  [t EXCEPT ![n].known = TRUE, ![n].quarantined = TRUE,
            ![n].expires = IF d = 0 THEN 0 ELSE now + d]

BugFreedOnlyTimer(t, ns) ==
  [n \in Targets |-> IF n \in ns /\ t[n].known
                     THEN [t[n] EXCEPT !.expires = 0] ELSE t[n]]

\* do_unquarantine() on the threat table; on the peer table it is PeerLift.
Freed(t, ns) ==
  [n \in Targets |-> IF n \in ns /\ t[n].known
                     THEN [t[n] EXCEPT !.quarantined = FALSE, !.expires = 0]
                     ELSE t[n]]

\* do_quarantine() as a step of e, on tables t, with messages net left pending.
BugQuarantineIsSilent(e, t, n, d, net, notices) ==
  /\ threats' = [threats EXCEPT ![e] = Quarantined(t, n, d)]
  /\ peers' = [peers EXCEPT ![e] = Table!PeerQuarantine(@, n)]
  /\ pending' = Gossip(net, e, notices)
  /\ missed' = Deprived(e, n)

DoQuarantine(e, t, n, d, net, notices) ==
  /\ threats' = [threats EXCEPT ![e] = Quarantined(t, n, d)]
  /\ peers' = [peers EXCEPT ![e] = Table!PeerQuarantine(@, n)]
  /\ pending' = Gossip(net, e, notices \cup {Notice("Q", n, e)})
  /\ missed' = Deprived(e, n)

\* do_unquarantine(), which broadcasts whether or not anything changed.
DoUnquarantine(e, n, net) ==
  /\ threats' = [threats EXCEPT ![e] = Freed(@, {n})]
  /\ peers' = [peers EXCEPT ![e] = Table!PeerLift(@, n)]
  /\ pending' = Gossip(net, e, {Notice("U", n, e)})

----------------------------------------------------------------------------
(* Management calls and detection *)

\* POST /quarantine/node, or a detector with the default duration.
Quarantine(e, n, d) ==
  /\ Quarantines(e, n)
  /\ DoQuarantine(e, threats[e], n, d, pending, {})
  /\ UNCHANGED <<cut, now, restarts, freed>>

\* POST /quarantine/lift: 404 unless quarantined here.  (It publishes "U" twice.)
Lift(e, n) ==
  /\ threats[e][n].quarantined
  /\ DoUnquarantine(e, n, pending)
  /\ freed' = freed \cup {n}
  /\ UNCHANGED <<cut, now, restarts, missed>>

\* POST /blacklist: 403 for a sentient, 500 when the table is full.  On an agent
\* already quarantined do_quarantine() returns early: only "B" goes out, and a
\* quarantine that was timed stays timed.
Blacklist(e, n) ==
  LET t == [threats[e] EXCEPT ![n].known = TRUE, ![n].blacklisted = TRUE]
      b == {Notice("B", n, e)}
  IN  /\ ~IsSentient(n)
      /\ HasSlot(e, n)
      /\ IF threats[e][n].quarantined
         THEN /\ threats' = [threats EXCEPT ![e] = t]
              /\ pending' = Gossip(pending, e, b)
              /\ UNCHANGED <<peers, missed>>
         ELSE DoQuarantine(e, t, n, 0, pending, b)
      /\ UNCHANGED <<cut, now, restarts, freed>>

\* Started with --approve: a blacklist approval for n goes out before the loop.
Approve(e, n) ==
  /\ n \in Approved
  /\ Known(e) = {} /\ peers[e] = <<>>
  /\ pending' = Gossip(pending, e, {Notice("B", n, e)})
  /\ UNCHANGED <<threats, peers, cut, now, restarts, freed, missed>>

----------------------------------------------------------------------------
(* handle_enforce_msg() *)

Left(e, m, again) ==
  IF again THEN pending ELSE [pending EXCEPT ![e] = @ \ {m}]

\* "Q": quarantined for the default duration, whoever asked for how long; even
\* a target that is not quarantined gets a slot, for the evidence.
HearQuarantine(e, m, again) ==
  /\ m.type = "Q"
  /\ IF Quarantines(e, m.target)
     THEN DoQuarantine(e, threats[e], m.target, Duration, Left(e, m, again), {})
     ELSE /\ threats' = [threats EXCEPT ![e][m.target].known =
                           HasSlot(e, m.target)]
          /\ pending' = Left(e, m, again)
          /\ UNCHANGED <<peers, missed>>
  /\ UNCHANGED <<cut, now, restarts, freed>>

\* "U": do_unquarantine(), hence published again by every enforcer that hears it.
HearLift(e, m, again) ==
  /\ m.type = "U"
  /\ DoUnquarantine(e, m.target, Left(e, m, again))
  /\ UNCHANGED <<cut, now, restarts, freed, missed>>

BugElseLifts(e, m, again) ==
  /\ m.type = "B"
  /\ DoUnquarantine(e, m.target, Left(e, m, again))
  /\ UNCHANGED <<cut, now, restarts, freed, missed>>

\* "B" is no case of handle_enforce_msg().
HearOther(e, m, again) ==
  /\ m.type = "B"
  /\ pending' = Left(e, m, again)
  /\ UNCHANGED <<threats, peers, cut, now, restarts, freed, missed>>

Handle(e, m, again) ==
  /\ m \in pending[e]
  /\ \/ HearQuarantine(e, m, again)
     \/ HearLift(e, m, again)
     \/ HearOther(e, m, again)

Hear(e, m) ==
  \E again \in IF Redelivery THEN BOOLEAN ELSE {FALSE} : Handle(e, m, again)

----------------------------------------------------------------------------
(* What goes wrong on the way *)

\* gone[f] does not get to f; of the "Q"s among it f will not hear.
Vanish(gone) ==
  /\ pending' = [f \in Enforcers |-> pending[f] \ gone[f]]
  /\ missed' = [f \in Enforcers |-> missed[f] \cup
                  {m.target : m \in {o \in pending[f] \cap gone[f] : o.type = "Q"}}]

\* on_publish() drops what finds the ring full, and the client acknowledges it.
Lose(e, m) ==
  /\ Cardinality(pending[e]) > QueueSize
  /\ Vanish([f \in Enforcers |-> IF f = e THEN {m} ELSE {}])
  /\ UNCHANGED <<threats, peers, cut, now, restarts, freed>>

\* What e's send buffer may still hold: nobody has heard it yet.
StillToSend(e) == {m \in UNION {pending[f] : f \in Enforcers} :
                m.from = e /\ \A f \in Enforcers \ {e} : m \in pending[f]}

\* The link breaks or the client fails, and with it goes what was not yet sent.
\* The loop does not look at what mqtt_transport_sync() answers: it goes on, deaf
\* once the ring is empty, and mute.
CutOff(e) ==
  /\ e \notin cut /\ restarts + Cardinality(cut) < MaxFailures
  /\ cut' = cut \cup {e}
  /\ \E unsent \in SUBSET StillToSend(e) :
       Vanish([f \in Enforcers |-> IF f = e THEN {} ELSE unsent])
  /\ UNCHANGED <<threats, peers, now, restarts, freed>>

\* Nothing of an enforcer is on disk.  What its ring and its send buffer held is
\* gone; the broker keeps what it had not yet sent.
Restart(e) ==
  /\ restarts < MaxFailures
  /\ restarts' = restarts + 1
  /\ threats' = [threats EXCEPT ![e] = [n \in Targets |-> Unknown]]
  /\ peers' = [peers EXCEPT ![e] = <<>>]
  /\ cut' = cut \ {e}
  /\ \E held \in SUBSET pending[e], unsent \in SUBSET StillToSend(e) :
       /\ Cardinality(held) <= QueueSize
       /\ Vanish([f \in Enforcers |-> IF f = e THEN held ELSE unsent])
  /\ UNCHANGED <<now, freed>>

----------------------------------------------------------------------------
(* Time *)

Expired(e, n) == /\ threats[e][n].quarantined
                 /\ threats[e][n].expires > 0
                 /\ now >= threats[e][n].expires

\* PeerLift for each of a set of names: they are different slots.
PeersLifted(t, ns) ==
  [i \in DOMAIN t |->
     IF t[i].name \in ns /\ t[i].active
     THEN [t[i] EXCEPT !.quarantined = FALSE] ELSE t[i]]

\* monitor_pass()
Monitor(e) ==
  LET out == {n \in Targets : Expired(e, n)}
  IN  /\ UNCHANGED <<cut, now, restarts, missed>>
      /\ threats' = [threats EXCEPT ![e] = Freed(@, out)]
      /\ peers' = [peers EXCEPT ![e] = Table!PeerSweep(PeersLifted(@, out), now)]
      /\ pending' = Gossip(pending, e, {Notice("U", n, e) : n \in out})
      /\ freed' = freed \cup out

\* MSG_ANNOUNCE and MSG_HEARTBEAT.
Heard(e, n) ==
  /\ peers' = [peers EXCEPT ![e] = Table!PeerUpsert(@, n, now)]
  /\ UNCHANGED <<threats, pending, cut, now, restarts, freed, missed>>

Tick == /\ now < MaxTime
        /\ now' = now + 1
        /\ UNCHANGED <<threats, peers, pending, cut, restarts, freed, missed>>

Next == \/ \E e \in Operated, n \in Targets :
             \/ \E d \in Durations : Quarantine(e, n, d)
             \/ Lift(e, n)
             \/ Blacklist(e, n)
             \/ Approve(e, n)
        \/ \E e \in Enforcers :
             \/ \E m \in pending[e] : Hear(e, m) \/ Lose(e, m)
             \/ Monitor(e)
             \/ \E n \in Announcers : Heard(e, n)
             \/ CutOff(e)
             \/ Restart(e)
        \/ Tick

Spec == Init /\ [][Next]_vars

Notices == {Notice(t, n, e) : t \in {"Q", "U", "B"}, n \in Targets,
                              e \in Enforcers}

\* Every pass of an enforcer's loop drains its ring and runs the monitor when that
\* is due, and the clock does not stop.  So a "Q" that waits at an enforcer whose
\* client works is handled in the end, or lost (Lose); of one whose client has
\* failed nothing is assumed but the timer.
FairSpec == /\ Spec
            /\ WF_vars(Tick)
            /\ \A e \in Enforcers :
                 /\ WF_vars(Monitor(e))
                 /\ \A m \in Notices :
                      m.type = "Q" /\ m.from # e /\ ~IsSentient(m.target)
                      => WF_vars(e \notin cut /\ Handle(e, m, FALSE))

----------------------------------------------------------------------------
Entry == [known : BOOLEAN, quarantined : BOOLEAN, expires : Nat,
          blacklisted : BOOLEAN]

TypeOK ==
  /\ threats \in [Enforcers -> [Targets -> Entry]]
  /\ \A e \in Enforcers : /\ Cardinality(Known(e)) <= MaxThreats
                          /\ Table!WellTyped(peers[e])
  /\ pending \in [Enforcers -> SUBSET Notices]
  /\ cut \subseteq Enforcers
  /\ now \in Nat /\ restarts \in Nat
  /\ freed \subseteq Targets
  /\ missed \in [Enforcers -> SUBSET Targets]

\* "This prevents coups": no enforcer ever holds a sentient quarantined, in
\* either of its tables, whatever the others gossip.
SentientsNeverQuarantined ==
  \A e \in Enforcers, n \in Protected :
    /\ ~threats[e][n].quarantined /\ ~threats[e][n].blacklisted
    /\ \A i \in DOMAIN peers[e] :
         peers[e][i].name = n => ~peers[e][i].quarantined

\* The gossip makes nothing up: a lift goes round only if an operator lifted
\* that target somewhere, or a timed quarantine of it ran out somewhere.
LiftsHaveACause ==
  \A e \in Enforcers : \A m \in pending[e] : m.type = "U" => m.target \in freed

\* do_quarantine(), do_unquarantine() and the MSG_ENFORCE handler keep the
\* exception for sentients and the causes of what is gossiped.
GossipIsSound == TypeOK /\ SentientsNeverQuarantined /\ LiftsHaveACause

\* Who quarantined an agent need not ask whether the others know: a target
\* quarantined at one enforcer is in the end quarantined at every other at least
\* once, or set free in the meantime, unless the other has no slot for it, its
\* client has failed or its process died, or just that "Q" was lost: the sender's
\* client had failed, or the receiver's ring was full (do_quarantine(),
\* broadcast_enforce(), on_publish()).
QuarantineSpreads ==
  \A e \in Enforcers, n \in Targets \ Protected :
    \A f \in Enforcers \ {e} :
      threats[e][n].quarantined
      ~> \/ threats[f][n].quarantined
         \/ n \in freed \/ ~HasSlot(f, n) \/ restarts > 0
         \/ f \in cut \/ n \in missed[f]

\* A timed quarantine ends, also at an enforcer that is cut off.  Blacklistings
\* are left out: theirs is to be permanent, but one of an agent that is in timed
\* quarantine keeps the timer (do_quarantine(), monitor_pass()).
QuarantineEnds ==
  \A e \in Enforcers, n \in Targets \ Protected :
    (/\ threats[e][n].quarantined /\ ~threats[e][n].blacklisted
     /\ threats[e][n].expires \in 1 .. MaxTime)
    ~> ~threats[e][n].quarantined \/ threats[e][n].blacklisted

=============================================================================
