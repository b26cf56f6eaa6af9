------------------------- MODULE MessagingProofs -------------------------
(***************************************************************************)
(* What passes between the agents.                                         *)
(*                                                                         *)
(* What the gossip of the enforcers never does, for any enforcers, targets   *)
(* and durations, tables of any size, messages repeated and reordered, and   *)
(* restarts for ever: quarantine a sentient, or lift what nobody lifted.     *)
(*                                                                         *)
(* And of the transport that carries all messages, for any sizes of buffer,  *)
(* header and packets, any offers of the broker and any timing: the send     *)
(* buffer is never overrun, the ring is a first-in first-out queue, and what *)
(* was published and not received by the broker is not forgotten, and the    *)
(* broker gets it once and in order as long as no answer is late.            *)
(***************************************************************************)
EXTENDS Enforcement, MqttTransport, ScanProofs, SequenceTheorems, FiniteSetTheorems

-----------------------------------------------------------------------------
(* The gossip of the enforcers (Enforcement) *)

(* The invariant, by what it says of the two tables of one enforcer. *)

KnownIn(t) == {n \in Targets : t[n].known}

HasSlotIn(t, n) == n \in KnownIn(t) \/ Cardinality(KnownIn(t)) < MaxThreats

ThreatsOK(t) == /\ t \in [Targets -> Entry]
                /\ IsFiniteSet(KnownIn(t))
                /\ Cardinality(KnownIn(t)) <= MaxThreats
                /\ \A n \in Protected : ~t[n].quarantined /\ ~t[n].blacklisted

PeersOK(q) == /\ Table!WellTyped(q)
              /\ \A i \in DOMAIN q :
                   q[i].name \in Protected => ~q[i].quarantined

RemainderOK == /\ cut \subseteq Enforcers
          /\ now \in Nat /\ restarts \in Nat
          /\ freed \subseteq Targets
          /\ missed \in [Enforcers -> SUBSET Targets]

GossipInv == /\ threats \in [Enforcers -> [Targets -> Entry]]
             /\ peers = [e \in Enforcers |-> peers[e]]
             /\ \A e \in Enforcers : ThreatsOK(threats[e]) /\ PeersOK(peers[e])
             /\ pending \in [Enforcers -> SUBSET Notices]
             /\ LiftsHaveACause
             /\ RemainderOK

----------------------------------------------------------------------------
(* The threat table *)

\* A slot that is taken or was there, and a sentient's neither marked.
LEMMA RewriteKeepsThreats ==
  ASSUME NEW t, ThreatsOK(t), NEW n \in Targets, NEW x \in Entry,
         x.known => HasSlotIn(t, n),
         n \in Protected => ~x.quarantined /\ ~x.blacklisted
  PROVE  ThreatsOK([t EXCEPT ![n] = x])
<1> DEFINE u == [t EXCEPT ![n] = x]
           K == KnownIn(t)
<1>1. /\ u \in [Targets -> Entry]
      /\ u[n] = x
      /\ \A o \in Targets : o # n => u[o] = t[o]
  BY DEF ThreatsOK
<1> HIDE DEF u
<1>2. MaxThreats \in Nat
  BY EnforcementAssumption
<1>3. IsFiniteSet(K) /\ Cardinality(K) \in Nat /\ Cardinality(K) <= MaxThreats
  BY FS_CardinalityType DEF ThreatsOK
<1>4. IsFiniteSet(KnownIn(u)) /\ Cardinality(KnownIn(u)) <= MaxThreats
  <2>1. CASE x.known
    <3>1. KnownIn(u) = K \cup {n}
      BY <1>1, <2>1 DEF KnownIn
    <3>2. /\ IsFiniteSet(K \cup {n})
          /\ Cardinality(K \cup {n}) =
               IF n \in K THEN Cardinality(K) ELSE Cardinality(K) + 1
      BY <1>3, FS_AddElement
    <3> QED
      BY <1>2, <1>3, <2>1, <3>1, <3>2 DEF HasSlotIn
  <2>2. CASE ~x.known
    <3>1. KnownIn(u) = K \ {n}
      BY <1>1, <2>2 DEF KnownIn
    <3>2. /\ IsFiniteSet(K \ {n})
          /\ Cardinality(K \ {n}) =
               IF n \in K THEN Cardinality(K) - 1 ELSE Cardinality(K)
      BY <1>3, FS_RemoveElement
    <3> QED
      BY <1>2, <1>3, <3>1, <3>2
  <2> QED
    BY <2>1, <2>2
<1>5. \A o \in Protected : ~u[o].quarantined /\ ~u[o].blacklisted
  BY <1>1, EnforcementAssumption DEF ThreatsOK
<1> QED
  BY <1>1, <1>4, <1>5 DEF ThreatsOK, u

LEMMA QuarantinedKeepsThreats ==
  ASSUME NEW t, ThreatsOK(t), NEW n \in Targets, n \notin Protected,
         HasSlotIn(t, n), NEW d \in Nat, now \in Nat
  PROVE  ThreatsOK(Quarantined(t, n, d))
<1> DEFINE x == [t[n] EXCEPT !.known = TRUE, !.quarantined = TRUE,
                             !.expires = IF d = 0 THEN 0 ELSE now + d]
<1>1. t[n] \in Entry /\ t \in [Targets -> Entry]
  BY DEF ThreatsOK
<1>2. (IF d = 0 THEN 0 ELSE now + d) \in Nat
  OBVIOUS
<1>3. x \in Entry
  BY <1>1, <1>2 DEF Entry
<1>4. Quarantined(t, n, d) = [t EXCEPT ![n] = x]
  BY <1>1 DEF Quarantined, Entry
<1> HIDE DEF x
<1>5. ThreatsOK([t EXCEPT ![n] = x])
  BY <1>3, RewriteKeepsThreats
<1> QED
  BY <1>4, <1>5

LEMMA FreedKeepsThreats ==
  ASSUME NEW t, ThreatsOK(t), NEW ns
  PROVE  ThreatsOK(Freed(t, ns))
<1> DEFINE u == Freed(t, ns)
<1>1. t \in [Targets -> Entry]
  BY DEF ThreatsOK
<1>2. ASSUME NEW n \in Targets
      PROVE  /\ u[n] \in Entry /\ u[n].known = t[n].known
             /\ u[n].quarantined => t[n].quarantined
             /\ u[n].blacklisted = t[n].blacklisted
  <2>1. PICK y \in Entry : y = t[n]
    BY <1>1
  <2> DEFINE z == [y EXCEPT !.quarantined = FALSE, !.expires = 0]
  <2>2. /\ z \in Entry /\ z.quarantined = FALSE
        /\ z.known = y.known /\ z.blacklisted = y.blacklisted
    BY DEF Entry
  <2>3. u[n] = z \/ u[n] = y
    BY <2>1 DEF Freed
  <2> HIDE DEF u, z
  <2> QED
    BY <2>1, <2>2, <2>3
<1>3. u \in [Targets -> Entry]
  BY <1>2 DEF Freed
<1> HIDE DEF u
<1>4. KnownIn(u) = KnownIn(t)
  BY <1>2 DEF KnownIn
<1>5. \A n \in Protected : ~u[n].quarantined /\ ~u[n].blacklisted
  BY <1>2, EnforcementAssumption DEF ThreatsOK
<1> QED
  BY <1>3, <1>4, <1>5 DEF ThreatsOK, u

----------------------------------------------------------------------------
(* The peer table *)

LEMMA WriteKeepsPeers ==
  ASSUME NEW q, PeersOK(q), NEW k \in 1 .. Len(q), NEW x \in Table!PeerEntry,
         x.name \in Protected => ~x.quarantined
  PROVE  PeersOK([q EXCEPT ![k] = x])
<1> DEFINE u == [q EXCEPT ![k] = x]
<1>1. q \in Seq(Table!PeerEntry) /\ Len(q) <= MaxPeers
  BY DEF PeersOK, Table!WellTyped
<1>2. /\ u \in Seq(Table!PeerEntry) /\ Len(u) = Len(q)
      /\ DOMAIN u = 1 .. Len(q) /\ DOMAIN q = 1 .. Len(q)
      /\ \A j \in 1 .. Len(q) : u[j] = IF j = k THEN x ELSE q[j]
  BY <1>1, ExceptSeq, LenProperties
<1> HIDE DEF u
<1> QED
  BY <1>1, <1>2 DEF PeersOK, Table!WellTyped, u

LEMMA AppendKeepsPeers ==
  ASSUME NEW q, PeersOK(q), ~Table!IsFull(q), NEW x \in Table!PeerEntry,
         x.name \in Protected => ~x.quarantined
  PROVE  PeersOK(Append(q, x))
<1> DEFINE u == Append(q, x)
<1>1. q \in Seq(Table!PeerEntry) /\ MaxPeers \in Nat
  BY EnforcementAssumption DEF PeersOK, Table!WellTyped
<1>2. /\ u \in Seq(Table!PeerEntry) /\ Len(u) = Len(q) + 1 /\ Len(q) \in Nat
      /\ DOMAIN u = 1 .. Len(q) + 1 /\ DOMAIN q = 1 .. Len(q)
      /\ \A j \in 1 .. Len(q) : u[j] = q[j]
      /\ u[Len(q) + 1] = x
  BY <1>1, AppendProperties, LenProperties
<1> HIDE DEF u
<1> QED
  BY <1>1, <1>2 DEF PeersOK, Table!WellTyped, Table!IsFull, u

\* What the linear searches of peer_table.c find.
LEMMA SearchFacts ==
  ASSUME NEW q, PeersOK(q), NEW n
  PROVE  /\ Table!SlotsOf(q, n) # {} =>
              LET k == Table!First(Table!SlotsOf(q, n))
              IN  k \in 1 .. Len(q) /\ q[k] \in Table!PeerEntry /\ q[k].name = n
         /\ Table!PeerKnown(q, n) =>
              LET k == Table!PeerSlotGot(q, n)
              IN  k \in 1 .. Len(q) /\ q[k] \in Table!PeerEntry /\ q[k].name = n
<1>1. q \in Seq(Table!PeerEntry) /\ DOMAIN q = 1 .. Len(q)
  BY LenProperties DEF PeersOK, Table!WellTyped
<1>2. \A S : Table!First(S) = First(S)
  BY DEF Table!First, First
<1>3. /\ Table!SlotsOf(q, n) \in SUBSET Nat
      /\ Table!ActiveSlotsOf(q, n) \in SUBSET Table!SlotsOf(q, n)
      /\ \A k \in Table!SlotsOf(q, n) : k \in 1 .. Len(q) /\ q[k].name = n
  BY <1>1 DEF Table!SlotsOf, Table!ActiveSlotsOf
<1>4. \A k \in 1 .. Len(q) : q[k] \in Table!PeerEntry
  BY <1>1, ElementOfSeq
<1>5. Table!SlotsOf(q, n) # {} =>
        First(Table!SlotsOf(q, n)) \in Table!SlotsOf(q, n)
  BY <1>3, FirstIsMember
<1>6. Table!ActiveSlotsOf(q, n) # {} =>
        First(Table!ActiveSlotsOf(q, n)) \in Table!ActiveSlotsOf(q, n)
  BY <1>3, FirstIsMember
<1> QED
  BY <1>2, <1>3, <1>4, <1>5, <1>6 DEF Table!PeerKnown, Table!PeerSlotGot

LEMMA UpsertKeepsPeers ==
  ASSUME NEW q, PeersOK(q), NEW n \in Targets, NEW t \in Nat
  PROVE  PeersOK(Table!PeerUpsert(q, n, t))
<1>1. CASE Table!PeerKnown(q, n)
  <2> DEFINE k == Table!PeerSlotGot(q, n)
             x == [q[k] EXCEPT !.last_seen = t]
  <2>1. k \in 1 .. Len(q) /\ q[k] \in Table!PeerEntry
    BY <1>1, SearchFacts
  <2>2. q[k].name \in Protected => ~q[k].quarantined
    BY <2>1, LenProperties DEF PeersOK, Table!WellTyped
  <2>3. /\ x \in Table!PeerEntry
        /\ x.name = q[k].name /\ x.quarantined = q[k].quarantined
    BY <2>1 DEF Table!PeerEntry
  <2>4. Table!PeerUpsert(q, n, t) = [q EXCEPT ![k] = x]
    BY <1>1 DEF Table!PeerUpsert
  <2>5. x.name \in Protected => ~x.quarantined
    BY <2>2, <2>3
  <2> HIDE DEF k, x
  <2> QED
    <3>1. PeersOK([q EXCEPT ![k] = x])
      BY <2>1, <2>3, <2>5, WriteKeepsPeers
    <3> QED
      BY <2>4, <3>1
<1>2. CASE ~Table!PeerKnown(q, n) /\ Table!IsFull(q)
  BY <1>2 DEF Table!PeerUpsert
<1>3. CASE ~Table!PeerKnown(q, n) /\ ~Table!IsFull(q)
  <2> DEFINE x == [name |-> n, active |-> TRUE, quarantined |-> FALSE,
                   last_seen |-> t]
  <2>1. x \in Table!PeerEntry /\ ~x.quarantined
    BY DEF Table!PeerEntry
  <2>2. Table!PeerUpsert(q, n, t) = Append(q, x)
    BY <1>3 DEF Table!PeerUpsert
  <2> HIDE DEF x
  <2> QED
    BY <1>3, <2>1, <2>2, AppendKeepsPeers
<1> QED
  BY <1>1, <1>2, <1>3

LEMMA QuarantineKeepsPeers ==
  ASSUME NEW q, PeersOK(q), NEW n \in Targets, n \notin Protected
  PROVE  PeersOK(Table!PeerQuarantine(q, n))
<1>1. CASE Table!SlotsOf(q, n) # {}
  <2> DEFINE k == Table!First(Table!SlotsOf(q, n))
             x == [q[k] EXCEPT !.quarantined = TRUE, !.active = FALSE]
  <2>1. k \in 1 .. Len(q) /\ q[k] \in Table!PeerEntry /\ q[k].name = n
    BY <1>1, SearchFacts
  <2>2. x \in Table!PeerEntry /\ x.name = n
    BY <2>1 DEF Table!PeerEntry
  <2>3. q \in Seq(Table!PeerEntry) /\ DOMAIN q = 1 .. Len(q)
    BY LenProperties DEF PeersOK, Table!WellTyped
  <2>4. Table!PeerQuarantine(q, n) = [q EXCEPT ![k] = x]
    BY <1>1, <2>1, <2>3 DEF Table!PeerQuarantine, Table!PeerEntry
  <2>5. x.name \notin Protected
    BY <2>2
  <2> HIDE DEF k, x
  <2> QED
    <3>1. PeersOK([q EXCEPT ![k] = x])
      BY <2>1, <2>2, <2>5, WriteKeepsPeers
    <3> QED
      BY <2>4, <3>1
<1>2. CASE Table!SlotsOf(q, n) = {} /\ Table!IsFull(q)
  BY <1>2 DEF Table!PeerQuarantine
<1>3. CASE Table!SlotsOf(q, n) = {} /\ ~Table!IsFull(q)
  <2> DEFINE x == [name |-> n, active |-> FALSE, quarantined |-> TRUE,
                   last_seen |-> 0]
  <2>1. x \in Table!PeerEntry /\ x.name = n
    BY DEF Table!PeerEntry
  <2>2. Table!PeerQuarantine(q, n) = Append(q, x)
    BY <1>3 DEF Table!PeerQuarantine
  <2> HIDE DEF x
  <2> QED
    BY <1>3, <2>1, <2>2, AppendKeepsPeers
<1> QED
  BY <1>1, <1>2, <1>3

LEMMA LiftKeepsPeers ==
  ASSUME NEW q, PeersOK(q), NEW n \in Targets
  PROVE  PeersOK(Table!PeerLift(q, n))
<1>1. CASE Table!PeerKnown(q, n)
  <2> DEFINE k == Table!PeerSlotGot(q, n)
             x == [q[k] EXCEPT !.quarantined = FALSE, !.active = TRUE]
  <2>1. k \in 1 .. Len(q) /\ q[k] \in Table!PeerEntry
    BY <1>1, SearchFacts
  <2>2. x \in Table!PeerEntry /\ ~x.quarantined
    BY <2>1 DEF Table!PeerEntry
  <2>3. q \in Seq(Table!PeerEntry) /\ DOMAIN q = 1 .. Len(q)
    BY LenProperties DEF PeersOK, Table!WellTyped
  <2>4. Table!PeerLift(q, n) = [q EXCEPT ![k] = x]
    BY <1>1, <2>1, <2>3 DEF Table!PeerLift, Table!PeerEntry
  <2> HIDE DEF k, x
  <2> QED
    BY <2>1, <2>2, <2>4, WriteKeepsPeers
<1>2. CASE ~Table!PeerKnown(q, n)
  BY <1>2 DEF Table!PeerLift
<1> QED
  BY <1>1, <1>2

\* A loop over the table that only clears marks.
LEMMA PassKeepsPeers ==
  ASSUME NEW q, PeersOK(q), NEW u, DOMAIN u = DOMAIN q,
         u = [i \in DOMAIN q |-> u[i]],
         \A i \in DOMAIN q : /\ u[i] \in Table!PeerEntry
                             /\ u[i].name = q[i].name
                             /\ u[i].quarantined => q[i].quarantined
  PROVE  PeersOK(u)
<1>1. /\ q \in Seq(Table!PeerEntry) /\ Len(q) \in Nat
      /\ DOMAIN q = 1 .. Len(q) /\ Len(q) <= MaxPeers
  BY LenProperties DEF PeersOK, Table!WellTyped
<1>2. u \in [1 .. Len(q) -> Table!PeerEntry]
  BY <1>1
<1>3. u \in Seq(Table!PeerEntry)
  BY <1>1, <1>2
<1>4. Len(u) = Len(q)
  BY <1>1, <1>3, LenProperties
<1> QED
  BY <1>1, <1>3, <1>4 DEF PeersOK, Table!WellTyped

LEMMA MonitorKeepsPeers ==
  ASSUME NEW q, PeersOK(q), NEW ns, NEW t
  PROVE  PeersOK(Table!PeerSweep(PeersLifted(q, ns), t))
<1> DEFINE u == PeersLifted(q, ns)
           v == Table!PeerSweep(u, t)
<1>1. DOMAIN q = 1 .. Len(q) /\ \A i \in DOMAIN q : q[i] \in Table!PeerEntry
  BY LenProperties, ElementOfSeq DEF PeersOK, Table!WellTyped
<1>2. ASSUME NEW i \in DOMAIN q
      PROVE  /\ u[i] \in Table!PeerEntry
             /\ u[i].name = q[i].name
             /\ u[i].quarantined => q[i].quarantined
  <2>1. u[i] = IF q[i].name \in ns /\ q[i].active
               THEN [q[i] EXCEPT !.quarantined = FALSE] ELSE q[i]
    BY DEF PeersLifted
  <2>2. q[i] \in Table!PeerEntry
    BY <1>1
  <2> QED
    BY <2>1, <2>2 DEF Table!PeerEntry
<1>3. DOMAIN u = DOMAIN q
  BY DEF PeersLifted
<1> HIDE DEF u
<1>4. ASSUME NEW i \in DOMAIN q
      PROVE  /\ v[i] \in Table!PeerEntry
             /\ v[i].name = q[i].name
             /\ v[i].quarantined => q[i].quarantined
  <2>1. v[i] = [u[i] EXCEPT !.active = @ /\ ~Table!IsStale(u[i], t)]
    BY <1>3 DEF Table!PeerSweep
  <2>2. (u[i].active /\ ~Table!IsStale(u[i], t)) \in BOOLEAN
    OBVIOUS
  <2> HIDE DEF v
  <2>3. v[i] \in Table!PeerEntry
    BY <1>2, <2>1, <2>2 DEF Table!PeerEntry
  <2>4. v[i].name = u[i].name /\ v[i].quarantined = u[i].quarantined
    BY <1>2, <2>1 DEF Table!PeerEntry
  <2> QED
    BY <1>2, <2>3, <2>4
<1>5. DOMAIN v = DOMAIN q /\ v = [i \in DOMAIN q |-> v[i]]
  BY <1>3 DEF Table!PeerSweep
<1> HIDE DEF v
<1>6. PeersOK(v)
  BY <1>4, <1>5, PassKeepsPeers
<1> QED
  BY <1>6 DEF u, v

----------------------------------------------------------------------------
(* Messages, and what a step is *)

LEMMA NoticeFacts ==
  ASSUME NEW m \in Notices
  PROVE  m.type \in {"Q", "U", "B"} /\ m.target \in Targets
BY DEF Notices, Notice

LEMMA NoticeIsOne ==
  ASSUME NEW t \in {"Q", "U", "B"}, NEW n \in Targets, NEW e \in Enforcers
  PROVE  /\ Notice(t, n, e) \in Notices
         /\ Notice(t, n, e).type = t /\ Notice(t, n, e).target = n
BY DEF Notices, Notice

LEMMA GossipAdds ==
  ASSUME NEW net \in [Enforcers -> SUBSET Notices], NEW e \in Enforcers,
         NEW S \in SUBSET Notices
  PROVE  /\ Gossip(net, e, S) \in [Enforcers -> SUBSET Notices]
         /\ \A f \in Enforcers : Gossip(net, e, S)[f] \subseteq net[f] \cup S
BY DEF Gossip

LEMMA LeftIsFewer ==
  ASSUME GossipInv, NEW e \in Enforcers, NEW m, NEW again
  PROVE  /\ Left(e, m, again) \in [Enforcers -> SUBSET Notices]
         /\ \A f \in Enforcers : Left(e, m, again)[f] \subseteq pending[f]
BY DEF GossipInv, Left

LEMMA DeprivedIsMissed ==
  ASSUME GossipInv, NEW e \in Enforcers, NEW n \in Targets
  PROVE  Deprived(e, n) \in [Enforcers -> SUBSET Targets]
BY DEF GossipInv, RemainderOK, Deprived

\* What gets lost adds nothing.
LEMMA VanishIsFewer ==
  ASSUME GossipInv, NEW gone, Vanish(gone)
  PROVE  /\ pending' \in [Enforcers -> SUBSET Notices]
         /\ \A f \in Enforcers : pending'[f] \subseteq pending[f]
         /\ missed' \in [Enforcers -> SUBSET Targets]
<1>1. \A f \in Enforcers : \A m \in pending[f] : m.target \in Targets
  BY NoticeFacts DEF GossipInv
<1>2. \A f \in Enforcers :
        {m.target : m \in {o \in pending[f] \cap gone[f] : o.type = "Q"}}
          \subseteq Targets
  BY <1>1
<1> QED
  BY <1>2 DEF Vanish, GossipInv, RemainderOK

\* A step of one enforcer leaves its tables in order, and publishes no lift
\* without a cause.
LEMMA StepKeepsInv ==
  ASSUME GossipInv, NEW e \in Enforcers, NEW t, NEW q,
         threats' = [threats EXCEPT ![e] = t], ThreatsOK(t),
         peers' = [peers EXCEPT ![e] = q], PeersOK(q),
         pending' \in [Enforcers -> SUBSET Notices],
         LiftsHaveACause', RemainderOK'
  PROVE  GossipInv'
<1>1. /\ threats'[e] = t /\ peers'[e] = q
      /\ \A f \in Enforcers :
           f # e => threats'[f] = threats[f] /\ peers'[f] = peers[f]
      /\ DOMAIN peers' = Enforcers
  BY DEF GossipInv
<1>2. threats' \in [Enforcers -> [Targets -> Entry]]
  BY DEF GossipInv, ThreatsOK
<1>3. \A f \in Enforcers : ThreatsOK(threats'[f]) /\ PeersOK(peers'[f])
  BY <1>1 DEF GossipInv
<1> QED
  BY <1>1, <1>2, <1>3 DEF GossipInv

\* What is known of an enforcer's tables before a step.
LEMMA TablesOf ==
  ASSUME GossipInv, NEW e \in Enforcers
  PROVE  /\ ThreatsOK(threats[e]) /\ PeersOK(peers[e])
         /\ threats[e] \in [Targets -> Entry]
         /\ \A n \in Targets : HasSlot(e, n) <=> HasSlotIn(threats[e], n)
         /\ threats = [threats EXCEPT ![e] = threats[e]]
         /\ peers = [peers EXCEPT ![e] = peers[e]]
         /\ now \in Nat /\ restarts \in Nat
<1>1. Known(e) = KnownIn(threats[e])
  BY DEF Known, KnownIn
<1>2. /\ threats = [threats EXCEPT ![e] = threats[e]]
      /\ peers = [peers EXCEPT ![e] = peers[e]]
  BY DEF GossipInv
<1> QED
  BY <1>1, <1>2 DEF GossipInv, HasSlot, HasSlotIn, RemainderOK

\* do_quarantine() of an agent that is no sentient, and what goes out with it.
LEMMA DoQuarantineKeeps ==
  ASSUME GossipInv, NEW e \in Enforcers, NEW t, ThreatsOK(t),
         NEW n \in Targets, n \notin Protected, HasSlotIn(t, n), NEW d \in Nat,
         NEW net \in [Enforcers -> SUBSET Notices],
         \A f \in Enforcers : net[f] \subseteq pending[f],
         NEW S \in SUBSET Notices, \A m \in S : m.type # "U",
         DoQuarantine(e, t, n, d, net, S), UNCHANGED <<cut, now, restarts, freed>>
  PROVE  GossipInv'
<1>1. /\ ThreatsOK(Quarantined(t, n, d))
      /\ PeersOK(Table!PeerQuarantine(peers[e], n))
  BY TablesOf, QuarantinedKeepsThreats, QuarantineKeepsPeers
<1>2. /\ threats' = [threats EXCEPT ![e] = Quarantined(t, n, d)]
      /\ peers' = [peers EXCEPT ![e] = Table!PeerQuarantine(peers[e], n)]
      /\ pending' = Gossip(net, e, S \cup {Notice("Q", n, e)})
      /\ missed' = Deprived(e, n)
  BY DEF DoQuarantine
<1>3. /\ S \cup {Notice("Q", n, e)} \in SUBSET Notices
      /\ \A m \in S \cup {Notice("Q", n, e)} : m.type # "U"
  BY NoticeIsOne
<1>4. \A f \in Enforcers : \A m \in net[f] :
        m.type = "U" => m.target \in freed
  BY DEF GossipInv, LiftsHaveACause
<1>5. pending' \in [Enforcers -> SUBSET Notices] /\ LiftsHaveACause'
  <2>1. /\ pending' \in [Enforcers -> SUBSET Notices]
        /\ \A f \in Enforcers :
             pending'[f] \subseteq net[f] \cup S \cup {Notice("Q", n, e)}
    BY <1>2, <1>3, GossipAdds
  <2> QED
    BY <1>3, <1>4, <2>1 DEF LiftsHaveACause
<1>6. RemainderOK'
  BY <1>2, DeprivedIsMissed DEF GossipInv, RemainderOK
<1> QED
  BY <1>1, <1>2, <1>5, <1>6, StepKeepsInv

\* do_unquarantine() of an agent whose lift has a cause.
LEMMA DoUnquarantineKeeps ==
  ASSUME GossipInv, NEW e \in Enforcers, NEW n \in Targets,
         NEW net \in [Enforcers -> SUBSET Notices],
         \A f \in Enforcers : net[f] \subseteq pending[f],
         DoUnquarantine(e, n, net), RemainderOK', n \in freed',
         freed \subseteq freed'
  PROVE  GossipInv'
<1>1. /\ ThreatsOK(Freed(threats[e], {n}))
      /\ PeersOK(Table!PeerLift(peers[e], n))
  BY TablesOf, FreedKeepsThreats, LiftKeepsPeers
<1>2. /\ threats' = [threats EXCEPT ![e] = Freed(threats[e], {n})]
      /\ peers' = [peers EXCEPT ![e] = Table!PeerLift(peers[e], n)]
      /\ pending' = Gossip(net, e, {Notice("U", n, e)})
  BY DEF DoUnquarantine
<1>3. Notice("U", n, e) \in Notices /\ Notice("U", n, e).target \in freed'
  <2>1. Notice("U", n, e) \in Notices /\ Notice("U", n, e).target = n
    BY NoticeIsOne
  <2> QED
    BY <2>1
<1>4. \A f \in Enforcers : \A m \in net[f] :
        m.type = "U" => m.target \in freed'
  BY NoticeFacts DEF GossipInv, LiftsHaveACause
<1>5. pending' \in [Enforcers -> SUBSET Notices] /\ LiftsHaveACause'
  <2>1. /\ pending' \in [Enforcers -> SUBSET Notices]
        /\ \A f \in Enforcers :
             pending'[f] \subseteq net[f] \cup {Notice("U", n, e)}
    BY <1>2, <1>3, GossipAdds
  <2> QED
    BY <1>3, <1>4, <2>1 DEF LiftsHaveACause
<1> QED
  BY <1>1, <1>2, <1>5, StepKeepsInv

----------------------------------------------------------------------------
(* The steps *)

LEMMA OperatorKeeps ==
  ASSUME GossipInv, NEW e \in Enforcers, NEW n \in Targets,
         \/ \E d \in Durations : Quarantine(e, n, d)
         \/ Lift(e, n) \/ Blacklist(e, n) \/ Approve(e, n)
  PROVE  GossipInv'
<1> USE TablesOf
<1>0. /\ pending \in [Enforcers -> SUBSET Notices]
      /\ \A f \in Enforcers : \A m \in pending[f] :
           m.type = "U" => m.target \in freed
      /\ RemainderOK
  BY DEF GossipInv, LiftsHaveACause
<1>1. ASSUME NEW d \in Durations, Quarantine(e, n, d) PROVE GossipInv'
  <2>1. d \in Nat /\ n \notin Protected /\ HasSlotIn(threats[e], n)
    BY <1>1, EnforcementAssumption DEF Quarantine, Quarantines, IsSentient
  <2>2. /\ DoQuarantine(e, threats[e], n, d, pending, {})
        /\ UNCHANGED <<cut, now, restarts, freed>>
    BY <1>1 DEF Quarantine
  <2> QED
    BY <1>0, <2>1, <2>2, DoQuarantineKeeps
<1>2. ASSUME Lift(e, n) PROVE GossipInv'
  <2>1. freed' = freed \cup {n}
    BY <1>2 DEF Lift
  <2>2. RemainderOK' /\ n \in freed'
    BY <1>0, <1>2, <2>1 DEF RemainderOK, Lift
  <2>3. freed \subseteq freed'
    BY <1>0, <2>1 DEF RemainderOK
  <2> QED
    BY <1>0, <1>2, <2>2, <2>3, DoUnquarantineKeeps DEF Lift
<1>3. ASSUME Blacklist(e, n) PROVE GossipInv'
  <2> DEFINE x == [threats[e][n] EXCEPT !.known = TRUE, !.blacklisted = TRUE]
             t == [threats[e] EXCEPT ![n].known = TRUE, ![n].blacklisted = TRUE]
             b == {Notice("B", n, e)}
  <2>1. /\ n \notin Protected /\ HasSlotIn(threats[e], n)
        /\ UNCHANGED <<cut, now, restarts, freed>>
        /\ IF threats[e][n].quarantined
           THEN /\ threats' = [threats EXCEPT ![e] = t]
                /\ pending' = Gossip(pending, e, b)
                /\ UNCHANGED <<peers, missed>>
           ELSE DoQuarantine(e, t, n, 0, pending, b)
    BY <1>3 DEF Blacklist, IsSentient
  <2>2. /\ t = [threats[e] EXCEPT ![n] = x] /\ x \in Entry
        /\ x.known /\ n \notin Protected
    <3>1. threats[e][n] \in Entry
      OBVIOUS
    <3>2. t = [threats[e] EXCEPT ![n] = x]
      OBVIOUS
    <3> QED
      BY <2>1, <3>1, <3>2 DEF Entry
  <2>3. b \in SUBSET Notices /\ \A m \in b : m.type # "U"
    BY NoticeIsOne
  <2>4. t \in [Targets -> Entry] /\ t[n].known
    BY <2>2
  <2> HIDE DEF t, x, b
  <2>5. ThreatsOK(t)
    BY <2>1, <2>2, RewriteKeepsThreats
  <2>6. CASE threats[e][n].quarantined
    <3>1. pending' \in [Enforcers -> SUBSET Notices] /\ LiftsHaveACause'
      <4>1. /\ pending' \in [Enforcers -> SUBSET Notices]
            /\ \A f \in Enforcers : pending'[f] \subseteq pending[f] \cup b
        BY <1>0, <2>1, <2>3, <2>6, GossipAdds
      <4> QED
        BY <1>0, <2>1, <2>3, <4>1 DEF LiftsHaveACause
    <3>2. RemainderOK'
      BY <1>0, <2>1, <2>6 DEF RemainderOK
    <3> QED
      BY <2>1, <2>5, <2>6, <3>1, <3>2, StepKeepsInv
  <2>7. CASE ~threats[e][n].quarantined
    <3>1. HasSlotIn(t, n)
      BY <2>4 DEF HasSlotIn, KnownIn
    <3> QED
      BY <1>0, <2>1, <2>3, <2>5, <2>7, <3>1, DoQuarantineKeeps
  <2> QED
    BY <2>6, <2>7
<1>4. ASSUME Approve(e, n) PROVE GossipInv'
  <2>1. {Notice("B", n, e)} \in SUBSET Notices
        /\ \A m \in {Notice("B", n, e)} : m.type # "U"
    BY NoticeIsOne
  <2>2. pending' \in [Enforcers -> SUBSET Notices] /\ LiftsHaveACause'
    <3>1. /\ pending' \in [Enforcers -> SUBSET Notices]
          /\ \A f \in Enforcers :
               pending'[f] \subseteq pending[f] \cup {Notice("B", n, e)}
          /\ freed' = freed
      BY <1>0, <1>4, <2>1, GossipAdds DEF Approve
    <3> QED
      BY <1>0, <2>1, <3>1 DEF LiftsHaveACause
  <2>3. RemainderOK'
    BY <1>0, <1>4 DEF Approve, RemainderOK
  <2> QED
    BY <1>4, <2>2, <2>3, StepKeepsInv DEF Approve
<1> QED
  BY <1>1, <1>2, <1>3, <1>4

LEMMA HearKeeps ==
  ASSUME GossipInv, NEW e \in Enforcers, NEW m \in pending[e], Hear(e, m)
  PROVE  GossipInv'
<1>0. /\ m \in Notices /\ m.target \in Targets
      /\ m.type = "U" => m.target \in freed
      /\ RemainderOK
  BY NoticeFacts DEF GossipInv, LiftsHaveACause
<1>1. PICK again : Handle(e, m, again)
  BY DEF Hear
<1> DEFINE net == Left(e, m, again)
           n == m.target
<1>2. /\ net \in [Enforcers -> SUBSET Notices]
      /\ \A f \in Enforcers : net[f] \subseteq pending[f]
  BY LeftIsFewer
<1>3. \A f \in Enforcers : \A o \in net[f] :
        o.type = "U" => o.target \in freed
  BY <1>2 DEF GossipInv, LiftsHaveACause
<1> HIDE DEF net, n
<1>4. CASE HearQuarantine(e, m, again)
  <2>1. CASE Quarantines(e, n)
    <3>1. /\ DoQuarantine(e, threats[e], n, Duration, net, {})
          /\ UNCHANGED <<cut, now, restarts, freed>>
      BY <1>4, <2>1 DEF HearQuarantine, net, n
    <3>2. /\ n \in Targets /\ n \notin Protected
          /\ HasSlotIn(threats[e], n) /\ Duration \in Nat
      BY <1>0, <2>1, TablesOf, EnforcementAssumption
         DEF Quarantines, IsSentient, n
    <3> QED
      BY <1>2, <3>1, <3>2, TablesOf, DoQuarantineKeeps
  <2>2. CASE ~Quarantines(e, n)
    <3> DEFINE x == [threats[e][n] EXCEPT !.known = HasSlot(e, n)]
               t == [threats[e] EXCEPT ![n] = x]
    <3>1. n \in Targets /\ threats[e] \in [Targets -> Entry]
      BY <1>0, TablesOf DEF n
    <3>2. HasSlot(e, n) \in BOOLEAN
      BY DEF HasSlot
    <3>3. /\ threats' = [threats EXCEPT ![e][n].known = HasSlot(e, n)]
          /\ pending' = net /\ UNCHANGED <<peers, cut, now, restarts, freed, missed>>
      BY <1>4, <2>2 DEF HearQuarantine, net, n
    <3>4. threats[e][n] \in Entry
      BY <3>1
    <3>5. /\ x \in Entry /\ x.known = HasSlot(e, n)
          /\ x.quarantined = threats[e][n].quarantined
          /\ x.blacklisted = threats[e][n].blacklisted
      BY <3>2, <3>4 DEF Entry
    <3>6. threats' = [threats EXCEPT ![e] = t]
      BY <3>3
    <3> HIDE DEF x
    <3>7. ThreatsOK(t)
      BY <3>1, <3>5, TablesOf, RewriteKeepsThreats DEF ThreatsOK
    <3> HIDE DEF t
    <3>8. LiftsHaveACause' /\ RemainderOK'
      BY <1>0, <1>3, <3>3 DEF LiftsHaveACause, RemainderOK
    <3> QED
      BY <1>2, <3>3, <3>6, <3>7, <3>8, TablesOf, StepKeepsInv
  <2> QED
    BY <2>1, <2>2
<1>5. CASE HearLift(e, m, again)
  <2>1. /\ DoUnquarantine(e, n, net)
        /\ UNCHANGED <<cut, now, restarts, freed, missed>>
        /\ m.type = "U"
    BY <1>5 DEF HearLift, net, n
  <2>2. n \in Targets /\ n \in freed' /\ RemainderOK'
    BY <1>0, <2>1 DEF RemainderOK, n
  <2> QED
    BY <1>2, <2>1, <2>2, DoUnquarantineKeeps
<1>6. CASE HearOther(e, m, again)
  <2>1. pending' = net /\ UNCHANGED <<threats, peers, cut, now, restarts, freed, missed>>
    BY <1>6 DEF HearOther, net
  <2>2. LiftsHaveACause' /\ RemainderOK'
    BY <1>0, <1>3, <2>1 DEF LiftsHaveACause, RemainderOK
  <2> QED
    BY <1>2, <2>1, <2>2, TablesOf, StepKeepsInv
<1> QED
  BY <1>1, <1>4, <1>5, <1>6 DEF Handle

LEMMA MonitorKeeps ==
  ASSUME GossipInv, NEW e \in Enforcers, Monitor(e)
  PROVE  GossipInv'
<1> DEFINE out == {n \in Targets : Expired(e, n)}
           S == {Notice("U", n, e) : n \in out}
<1>1. /\ threats' = [threats EXCEPT ![e] = Freed(threats[e], out)]
      /\ peers' = [peers EXCEPT ![e] =
                     Table!PeerSweep(PeersLifted(peers[e], out), now)]
      /\ pending' = Gossip(pending, e, S)
      /\ freed' = freed \cup out
      /\ UNCHANGED <<cut, now, restarts, missed>>
  BY DEF Monitor
<1>2. S \in SUBSET Notices /\ \A m \in S : m.target \in out
  BY NoticeIsOne
<1>3. out \subseteq Targets
  OBVIOUS
<1> HIDE DEF out, S
<1>4. /\ ThreatsOK(Freed(threats[e], out))
      /\ PeersOK(Table!PeerSweep(PeersLifted(peers[e], out), now))
  BY TablesOf, FreedKeepsThreats, MonitorKeepsPeers
<1>5. freed \subseteq freed' /\ out \subseteq freed'
  BY <1>1
<1>6. RemainderOK'
  BY <1>1, <1>3 DEF GossipInv, RemainderOK
<1>7. \A f \in Enforcers : \A m \in pending[f] :
        m.type = "U" => m.target \in freed'
  BY <1>5, NoticeFacts DEF GossipInv, LiftsHaveACause
<1>8. pending' \in [Enforcers -> SUBSET Notices] /\ LiftsHaveACause'
  <2>1. pending \in [Enforcers -> SUBSET Notices]
    BY DEF GossipInv
  <2>2. /\ pending' \in [Enforcers -> SUBSET Notices]
        /\ \A f \in Enforcers : pending'[f] \subseteq pending[f] \cup S
    BY <1>1, <1>2, <2>1, GossipAdds
  <2> QED
    BY <1>2, <1>5, <1>7, <2>2 DEF LiftsHaveACause
<1> QED
  BY <1>1, <1>4, <1>6, <1>8, StepKeepsInv

\* The tables of an enforcer that has just started.
LEMMA FreshTables == ThreatsOK([n \in Targets |-> Unknown]) /\ PeersOK(<<>>)
<1> DEFINE t == [n \in Targets |-> Unknown]
<1>1. /\ Unknown \in Entry /\ ~Unknown.known
      /\ ~Unknown.quarantined /\ ~Unknown.blacklisted
  BY DEF Unknown, Entry
<1>2. t \in [Targets -> Entry] /\ \A n \in Targets : t[n] = Unknown
  BY <1>1
<1> HIDE DEF t
<1>3. KnownIn(t) = {}
  BY <1>1, <1>2 DEF KnownIn
<1>4. IsFiniteSet(KnownIn(t)) /\ Cardinality(KnownIn(t)) <= MaxThreats
  BY <1>3, FS_EmptySet, EnforcementAssumption
<1>5. \A n \in Protected : ~t[n].quarantined /\ ~t[n].blacklisted
  BY <1>1, <1>2, EnforcementAssumption
<1>6. ThreatsOK(t)
  BY <1>2, <1>4, <1>5 DEF ThreatsOK
<1>7. PeersOK(<<>>)
  BY EmptySeq, EnforcementAssumption DEF PeersOK, Table!WellTyped
<1> QED
  BY <1>6, <1>7 DEF t

LEMMA QuietKeeps ==
  ASSUME GossipInv,
         \/ \E e \in Enforcers : \/ \E n \in Announcers : Heard(e, n)
                                 \/ \E m \in pending[e] : Lose(e, m)
                                 \/ CutOff(e)
                                 \/ Restart(e)
         \/ Tick
         \/ UNCHANGED vars
  PROVE  GossipInv'
<1>0. pending \in [Enforcers -> SUBSET Notices] /\ LiftsHaveACause /\ RemainderOK
  BY DEF GossipInv
<1>1. ASSUME NEW e \in Enforcers, NEW n \in Announcers, Heard(e, n)
      PROVE  GossipInv'
  <2>1. PeersOK(Table!PeerUpsert(peers[e], n, now))
    BY TablesOf, UpsertKeepsPeers, EnforcementAssumption
  <2>2. LiftsHaveACause' /\ RemainderOK'
    BY <1>0, <1>1 DEF Heard, LiftsHaveACause, RemainderOK
  <2> QED
    BY <1>0, <1>1, <2>1, <2>2, TablesOf, StepKeepsInv DEF Heard
<1>2. ASSUME NEW e \in Enforcers, Restart(e) PROVE GossipInv'
  <2>1. PICK gone : Vanish(gone)
    BY <1>2 DEF Restart
  <2>2. LiftsHaveACause' /\ RemainderOK'
    BY <1>0, <1>2, <2>1, VanishIsFewer DEF Restart, LiftsHaveACause, RemainderOK
  <2> QED
    BY <1>2, <2>1, <2>2, FreshTables, VanishIsFewer, StepKeepsInv DEF Restart
<1>3. ASSUME NEW e \in Enforcers, NEW m \in pending[e], Lose(e, m)
      PROVE  GossipInv'
  <2>1. PICK gone : Vanish(gone)
    BY <1>3 DEF Lose
  <2>2. LiftsHaveACause' /\ RemainderOK'
    BY <1>0, <1>3, <2>1, VanishIsFewer DEF Lose, LiftsHaveACause, RemainderOK
  <2> QED
    BY <1>3, <2>1, <2>2, TablesOf, VanishIsFewer, StepKeepsInv DEF Lose
<1>4. ASSUME NEW e \in Enforcers, CutOff(e) PROVE GossipInv'
  <2>1. PICK gone : Vanish(gone)
    BY <1>4 DEF CutOff
  <2>2. LiftsHaveACause' /\ RemainderOK'
    BY <1>0, <1>4, <2>1, VanishIsFewer DEF CutOff, LiftsHaveACause, RemainderOK
  <2> QED
    BY <1>4, <2>1, <2>2, TablesOf, VanishIsFewer, StepKeepsInv DEF CutOff
<1>5. ASSUME Tick PROVE GossipInv'
  BY <1>5 DEF Tick, GossipInv, LiftsHaveACause, RemainderOK
<1>6. ASSUME UNCHANGED vars PROVE GossipInv'
  BY <1>6 DEF vars, GossipInv, LiftsHaveACause, RemainderOK
<1> QED
  BY <1>1, <1>2, <1>3, <1>4, <1>5, <1>6

LEMMA InitEstablishes == Init => GossipInv
<1> SUFFICES ASSUME Init PROVE GossipInv
  OBVIOUS
<1> DEFINE t == [n \in Targets |-> Unknown]
<1>1. ThreatsOK(t) /\ PeersOK(<<>>)
  BY FreshTables
<1>2. t \in [Targets -> Entry]
  BY <1>1 DEF ThreatsOK
<1> HIDE DEF t
<1>3. \A e \in Enforcers : threats[e] = t /\ peers[e] = <<>> /\ pending[e] = {}
  BY DEF Init, t
<1> QED
  BY <1>1, <1>2, <1>3 DEF Init, GossipInv, LiftsHaveACause, RemainderOK, t

LEMMA NextKeeps ==
  ASSUME GossipInv, [Next]_vars
  PROVE  GossipInv'
<1>1. Operated \subseteq Enforcers
  BY EnforcementAssumption
<1> QED
  BY <1>1, OperatorKeeps, HearKeeps, MonitorKeeps, QuietKeeps DEF Next

LEMMA InvIsSound == GossipInv => GossipIsSound
<1> SUFFICES ASSUME GossipInv PROVE GossipIsSound
  OBVIOUS
<1>1. \A e \in Enforcers : Known(e) = KnownIn(threats[e])
  BY DEF Known, KnownIn
<1>2. TypeOK
  BY <1>1 DEF TypeOK, GossipInv, ThreatsOK, PeersOK, RemainderOK
<1>3. SentientsNeverQuarantined
  BY DEF SentientsNeverQuarantined, GossipInv, ThreatsOK, PeersOK
<1>4. LiftsHaveACause
  BY DEF GossipInv
<1> QED
  BY <1>2, <1>3, <1>4 DEF GossipIsSound

----------------------------------------------------------------------------
\* Whatever the enforcers gossip, detect and are told, do_quarantine() keeps
\* every sentient out of quarantine in both tables, and every lift that is
\* published comes from an operator's or a timer's (handle_enforce_msg(),
\* monitor_pass()).
THEOREM GossipStaysSound == Spec => []GossipIsSound
<1>1. Spec => []GossipInv
  <2>1. GossipInv /\ [Next]_vars => GossipInv'
    BY NextKeeps
  <2> QED
    BY <2>1, InitEstablishes, PTL DEF Spec
<1> QED
  BY <1>1, InvIsSound, PTL

-----------------------------------------------------------------------------
(* The transport (MqttTransport) *)

(* The folds of the model, as what they have come to after each element: at   *)
(* is the trace, in a set T that the operation does not leave.               *)

FoldsTo(at, n, base, value) == at[0] = base /\ at[n] = value

LEMMA OnPublishTrace ==
  ASSUME NEW T, NEW E, NEW base \in T, NEW seq \in Seq(E),
         \A r \in T, p \in E : OnPublish(r, p) \in T
  PROVE  \E at \in [0..Len(seq) -> T] :
           /\ FoldsTo(at, Len(seq), base, FoldLeft(OnPublish, base, seq))
           /\ \A k \in 1..Len(seq) : at[k] = OnPublish(at[k - 1], seq[k])
<1> DEFINE n == Len(seq)
           step == [x \in T \X E |-> OnPublish(x[1], x[2])]
           Is(g) == g = [s \in SUBSET (1..n) |-> IF s = {} THEN base
                           ELSE OnPublish(g[s \ {Greatest(s)}], seq[Greatest(s)])]
           g == CHOOSE f : Is(f)
<1>1. n \in Nat /\ DOMAIN seq = 1..n /\ seq \in [1..n -> E]
  OBVIOUS
<1>2. FoldLeft(OnPublish, base, seq) = g[1..n]
  BY <1>1 DEF FoldLeft, MapThenFoldSet, Max, Greatest
<1>3. /\ step \in [T \X E -> T]
      /\ \A r \in T, p \in E : step[<<r, p>>] = OnPublish(r, p)
  OBVIOUS
<1> HIDE DEF step, n
<1>4. PICK f \in [SUBSET (1..n) -> T] : Unwinds(f, n, base, step, seq)
  BY <1>1, <1>3, FoldExists
<1>5. \A s \in SUBSET (1..n) : s # {} => seq[Greatest(s)] \in E
  BY <1>1, GreatestOf
<1>6. Is(f)
  BY <1>3, <1>4, <1>5 DEF Unwinds
<1>7. Is(g)
  <2> HIDE DEF Is
  <2> QED
    BY <1>6
<1> HIDE DEF g
<1>8. Unfolded(g, n, T, base, step, seq)
  BY <1>3, <1>5, <1>7 DEF Unfolded
<1>9. PICK at \in [0..n -> T] : at[n] = g[1..n] /\ Trace(at, n, base, step, seq)
  BY <1>1, <1>3, <1>8, TraceOf
<1>10. ASSUME NEW k \in 1..n PROVE at[k] = OnPublish(at[k - 1], seq[k])
  <2>1. k - 1 \in 0..n
    BY <1>1
  <2>2. at[k - 1] \in T /\ seq[k] \in E
    BY <1>1, <1>9, <2>1
  <2> QED
    BY <1>3, <1>9, <2>2 DEF Trace
<1> QED
  BY <1>2, <1>9, <1>10 DEF FoldsTo, Trace, n
\* A trace of __mqtt_recv().
HandlesAll(at, seq) == \A k \in 1..Len(seq) : at[k] = HandlePacket(at[k - 1], seq[k])

LEMMA HandlePacketTrace ==
  ASSUME NEW T, NEW E, NEW base \in T, NEW seq \in Seq(E),
         \A r \in T, p \in E : HandlePacket(r, p) \in T
  PROVE  \E at \in [0..Len(seq) -> T] :
           /\ FoldsTo(at, Len(seq), base, FoldLeft(HandlePacket, base, seq))
           /\ HandlesAll(at, seq)
<1> DEFINE n == Len(seq)
           step == [x \in T \X E |-> HandlePacket(x[1], x[2])]
           Is(g) == g = [s \in SUBSET (1..n) |-> IF s = {} THEN base
                           ELSE HandlePacket(g[s \ {Greatest(s)}], seq[Greatest(s)])]
           g == CHOOSE f : Is(f)
<1>1. n \in Nat /\ DOMAIN seq = 1..n /\ seq \in [1..n -> E]
  OBVIOUS
<1>2. FoldLeft(HandlePacket, base, seq) = g[1..n]
  BY <1>1 DEF FoldLeft, MapThenFoldSet, Max, Greatest
<1>3. /\ step \in [T \X E -> T]
      /\ \A r \in T, p \in E : step[<<r, p>>] = HandlePacket(r, p)
  OBVIOUS
<1> HIDE DEF step, n
<1>4. PICK f \in [SUBSET (1..n) -> T] : Unwinds(f, n, base, step, seq)
  BY <1>1, <1>3, FoldExists
<1>5. \A s \in SUBSET (1..n) : s # {} => seq[Greatest(s)] \in E
  BY <1>1, GreatestOf
<1>6. Is(f)
  BY <1>3, <1>4, <1>5 DEF Unwinds
<1>7. Is(g)
  <2> HIDE DEF Is
  <2> QED
    BY <1>6
<1> HIDE DEF g
<1>8. Unfolded(g, n, T, base, step, seq)
  BY <1>3, <1>5, <1>7 DEF Unfolded
<1>9. PICK at \in [0..n -> T] : at[n] = g[1..n] /\ Trace(at, n, base, step, seq)
  BY <1>1, <1>3, <1>8, TraceOf
<1>10. ASSUME NEW k \in 1..n PROVE at[k] = HandlePacket(at[k - 1], seq[k])
  <2>1. k - 1 \in 0..n
    BY <1>1
  <2>2. at[k - 1] \in T /\ seq[k] \in E
    BY <1>1, <1>9, <2>1
  <2> QED
    BY <1>3, <1>9, <2>2 DEF Trace
<1>11. HandlesAll(at, seq)
  BY <1>10 DEF HandlesAll, n
<1> QED
  BY <1>2, <1>9, <1>11 DEF FoldsTo, Trace, n

SendsThrough(at, n, T, base, q) ==
  /\ at \in [0..n -> T]
  /\ at[0] = base /\ at[n] = FoldLeftDomain(SendPacket, base, q)
  /\ \A k \in 1..n : at[k] = SendPacket(at[k - 1], k)

LEMMA SendPacketTrace ==
  ASSUME NEW T, NEW q, NEW n \in Nat, DOMAIN q = 1..n, NEW base \in T,
         \A s \in T, i \in 1..n : SendPacket(s, i) \in T
  PROVE  \E at : SendsThrough(at, n, T, base, q)
<1> DEFINE E == 1..n
           seq == [i \in 1..n |-> i]
           step == [x \in T \X E |-> SendPacket(x[1], x[2])]
           Is(g) == g = [s \in SUBSET (1..n) |-> IF s = {} THEN base
                           ELSE SendPacket(g[s \ {Greatest(s)}], seq[Greatest(s)])]
           g == CHOOSE f : Is(f)
<1>1. DOMAIN seq = 1..n /\ seq \in [1..n -> E]
  OBVIOUS
<1>2. FoldLeftDomain(SendPacket, base, q) = g[1..n]
  BY DEF FoldLeftDomain, FoldLeft, MapThenFoldSet, Max, Greatest
<1>3. /\ step \in [T \X E -> T]
      /\ \A r \in T, p \in E : step[<<r, p>>] = SendPacket(r, p)
  OBVIOUS
<1> HIDE DEF step, seq, E
<1>4. PICK f \in [SUBSET (1..n) -> T] : Unwinds(f, n, base, step, seq)
  BY <1>1, <1>3, FoldExists
<1>5. \A s \in SUBSET (1..n) : s # {} => seq[Greatest(s)] \in E
  BY <1>1, GreatestOf
<1>6. Is(f)
  BY <1>3, <1>4, <1>5 DEF Unwinds
<1>7. Is(g)
  <2> HIDE DEF Is
  <2> QED
    BY <1>6
<1> HIDE DEF g
<1>8. Unfolded(g, n, T, base, step, seq)
  BY <1>3, <1>5, <1>7 DEF Unfolded
<1>9. PICK at \in [0..n -> T] : at[n] = g[1..n] /\ Trace(at, n, base, step, seq)
  BY <1>1, <1>3, <1>8, TraceOf
<1>10. ASSUME NEW k \in 1..n PROVE at[k] = SendPacket(at[k - 1], k)
  <2>1. k - 1 \in 0..n
    BY <1>1
  <2>2. at[k - 1] \in T /\ seq[k] \in E
    BY <1>1, <1>9, <2>1
  <2>3. seq[k] = k
    BY DEF seq
  <2> QED
    BY <1>3, <1>9, <2>2, <2>3 DEF Trace
<1> QED
  BY <1>2, <1>9, <1>10 DEF SendsThrough, Trace

(* The ring: the slots from the tail on, count of them, are messages *)

\* The broker's messages that fit into recvbuf.
Given == {i \in DOMAIN Offers : Offers[i].kind # "TOO_LARGE"}

Deliveries == [type : {"PUBLISH"}, pid : 0..Len(Offers), qos : {0, 1}, number : Given]

Replies == [type : {"CONNACK", "REFUSED", "SUBACK", "PUBACK", "PINGRESP",
                    "TOO_LARGE"}, pid : Nat]

Incoming == Deliveries \union Replies

RingRecord == [queue : [Index -> Slot \union {Nothing}], head : Index,
               count : 0..Slots]

SlotAt(r, tail, i) == r.queue[(tail + i - 1) % Slots]

RingOK(r, tail) ==
  /\ r \in RingRecord /\ tail \in Index
  /\ r.head = (tail + r.count) % Slots
  /\ \A i \in 1..r.count : SlotAt(r, tail, i) \in Slot

\* What was there stays, where it was.
Extends(s, r, tail) ==
  /\ s.count >= r.count
  /\ \A i \in 1..r.count : SlotAt(s, tail, i) = SlotAt(r, tail, i)

OfferRecord == [kind : {"kept", "bad", "long", "TOO_LARGE"}, qos : {0, 1}]

LEMMA SlotsFacts ==
  /\ Slots \in Nat /\ Slots > 0 /\ Index = 0..(Slots - 1)
  /\ Offers \in Seq(OfferRecord)
  /\ \A i \in DOMAIN Offers : Offers[i] \in OfferRecord
<1>1. /\ Slots \in Nat /\ Slots > 0 /\ Index = 0..(Slots - 1)
  BY MqttTransportAssumption DEF Index
<1>2. Offers \in Seq(OfferRecord)
  BY MqttTransportAssumption DEF OfferRecord
<1>3. \A i \in DOMAIN Offers : Offers[i] \in OfferRecord
  BY <1>2, ElementOfSeq
<1> QED
  BY <1>1, <1>2, <1>3

\* The slot after the last of c in use is the next one, and none of these.
LEMMA NextSlot ==
  ASSUME NEW tail \in Index, NEW c \in 0..Slots, c < Slots
  PROVE  /\ (((tail + c) % Slots) + 1) % Slots = (tail + (c + 1)) % Slots
         /\ (tail + (c + 1)) % Slots \in Index /\ (tail + c) % Slots \in Index
         /\ \A i \in 1..c : /\ (tail + i - 1) % Slots \in Index
                            /\ (tail + i - 1) % Slots # (tail + c) % Slots
<1> DEFINE S == Slots
<1>1. S \in Nat /\ S > 0 /\ tail \in 0..(S - 1) /\ c \in 0..S /\ c < S
  BY SlotsFacts
<1> HIDE DEF S
<1>2. (((tail + c) % S) + 1) % S = (tail + (c + 1)) % S
  BY <1>1
<1>3. (tail + (c + 1)) % S \in 0..(S - 1) /\ (tail + c) % S \in 0..(S - 1)
  BY <1>1
<1>4. ASSUME NEW i \in 1..c
      PROVE  /\ (tail + i - 1) % S \in 0..(S - 1)
             /\ (tail + i - 1) % S # (tail + c) % S
  BY <1>1
<1> QED
  BY <1>2, <1>3, <1>4, SlotsFacts DEF S

LEMMA OnPublishKeeps ==
  ASSUME NEW tail, NEW r, RingOK(r, tail), NEW p \in Deliveries
  PROVE  RingOK(OnPublish(r, p), tail) /\ Extends(OnPublish(r, p), r, tail)
<1> DEFINE kind == Offers[p.number].kind
           slot == [number |-> p.number, kind |-> kind]
<1>1. /\ r.queue \in [Index -> Slot \union {Nothing}] /\ r.head \in Index
      /\ r.count \in 0..Slots /\ tail \in Index
      /\ r.head = (tail + r.count) % Slots
      /\ \A i \in 1..r.count : SlotAt(r, tail, i) \in Slot
  BY DEF RingOK, RingRecord
<1>2. CASE kind = "bad" \/ IsFull(r.count)
  <2>1. OnPublish(r, p) = r
    BY <1>2 DEF OnPublish
  <2> QED
    BY <1>1, <2>1 DEF Extends
<1>3. CASE ~(kind = "bad" \/ IsFull(r.count))
  <2>1. p.number \in Given
    BY DEF Deliveries
  <2>2. kind \in {"kept", "long"} /\ p.number \in DOMAIN Offers
    <3>1. p.number \in DOMAIN Offers /\ kind # "TOO_LARGE" /\ kind # "bad"
      BY <1>3, <2>1 DEF Given
    <3>2. Offers[p.number] \in OfferRecord
      BY <3>1, SlotsFacts
    <3>3. kind \in {"kept", "bad", "long", "TOO_LARGE"}
      BY <3>2 DEF OfferRecord
    <3> QED
      BY <3>1, <3>3
  <2>3. slot \in Slot
    BY <2>2 DEF Slot
  <2>4. r.count < Slots /\ r.count \in Nat
    BY <1>1, <1>3, SlotsFacts DEF IsFull
  <2> DEFINE s == OnPublish(r, p)
  <2>5. s = [queue |-> [r.queue EXCEPT ![r.head] = slot],
             head |-> (r.head + 1) % Slots, count |-> r.count + 1]
    BY <1>3 DEF OnPublish
  <2> HIDE DEF slot, s
  <2>6. /\ s.queue = [r.queue EXCEPT ![r.head] = slot]
        /\ s.head = (r.head + 1) % Slots /\ s.count = r.count + 1
    BY <2>5
  <2>7. s.queue \in [Index -> Slot \union {Nothing}]
    BY <1>1, <2>3, <2>6
  <2> DEFINE c == r.count
  <2>15. /\ (((tail + c) % Slots) + 1) % Slots = (tail + (c + 1)) % Slots
         /\ (tail + (c + 1)) % Slots \in Index
         /\ \A i \in 1..c : /\ (tail + i - 1) % Slots \in Index
                            /\ (tail + i - 1) % Slots # (tail + c) % Slots
    <3>1. c \in 0..Slots /\ c < Slots /\ tail \in Index
      BY <1>1, <2>4
    <3> HIDE DEF c
    <3> QED
      BY <3>1, NextSlot
  <2>8. s.head = (tail + s.count) % Slots /\ s.head \in Index
    BY <1>1, <2>6, <2>15
  <2>9. ASSUME NEW i \in 1..r.count PROVE SlotAt(s, tail, i) = SlotAt(r, tail, i)
    BY <1>1, <2>6, <2>15 DEF SlotAt
  <2>10. SlotAt(s, tail, r.count + 1) = slot
    <3>1. tail + (r.count + 1) - 1 = tail + r.count
      BY <1>1, <2>4, SlotsFacts
    <3> QED
      BY <1>1, <2>6, <3>1 DEF SlotAt
  <2>11. \A i \in 1..s.count : SlotAt(s, tail, i) \in Slot
    <3> SUFFICES ASSUME NEW i \in 1..s.count PROVE SlotAt(s, tail, i) \in Slot
      OBVIOUS
    <3>1. i \in 1..r.count \/ i = r.count + 1
      BY <2>4, <2>6
    <3> QED
      BY <1>1, <2>3, <2>9, <2>10, <3>1
  <2>12. s.count \in 0..Slots
    BY <2>4, <2>6, SlotsFacts
  <2>13. s \in RingRecord
    BY <2>5, <2>6, <2>7, <2>8, <2>12 DEF RingRecord
  <2>14. Extends(s, r, tail)
    BY <2>4, <2>6, <2>9 DEF Extends
  <2> QED
    BY <1>1, <2>8, <2>11, <2>13, <2>14 DEF RingOK, s
<1> QED
  BY <1>2, <1>3

\* The ring's variables as a record.
TheRing == [queue |-> queue, head |-> queue_head, count |-> queue_count]

\* After a sync the ring is in order, and what waited waits at its place.
LEMMA FilledKeeps ==
  ASSUME RingOK(TheRing, queue_tail), NEW out \in Seq(Deliveries), Filled(out)
  PROVE  /\ RingOK(TheRing', queue_tail') /\ queue_tail' = queue_tail
         /\ Extends(TheRing', TheRing, queue_tail)
<1> DEFINE T == {r \in RingRecord : RingOK(r, queue_tail)
                                      /\ Extends(r, TheRing, queue_tail)}
           last == FoldLeft(OnPublish, TheRing, out)
<1>1. TheRing \in T
  BY DEF RingOK, Extends, TheRing, RingRecord
<1>2. ASSUME NEW r \in T, NEW p \in Deliveries PROVE OnPublish(r, p) \in T
  <2>1. RingOK(r, queue_tail) /\ Extends(r, TheRing, queue_tail)
    OBVIOUS
  <2> DEFINE s == OnPublish(r, p)
  <2>2. RingOK(s, queue_tail) /\ Extends(s, r, queue_tail)
    BY <2>1, OnPublishKeeps
  <2>3. /\ r.count \in Nat /\ s.count \in Nat /\ TheRing.count \in Nat
        /\ s \in RingRecord
    BY <2>1, <2>2 DEF RingOK, RingRecord
  <2> HIDE DEF s
  <2>4. Extends(s, TheRing, queue_tail)
    BY <2>1, <2>2, <2>3 DEF Extends
  <2> QED
    BY <2>2, <2>3, <2>4 DEF s
<1>3. last \in T
  <2> HIDE DEF T
  <2>1. PICK at \in [0..Len(out) -> T] : FoldsTo(at, Len(out), TheRing, last)
    BY <1>1, <1>2, OnPublishTrace
  <2>2. Len(out) \in 0..Len(out)
    OBVIOUS
  <2> QED
    BY <2>1, <2>2 DEF FoldsTo
<1>4. /\ queue' = last.queue /\ queue_head' = last.head
      /\ queue_count' = last.count /\ queue_tail' = queue_tail
  BY DEF Filled, TheRing
<1>5. RingOK(last, queue_tail) /\ Extends(last, TheRing, queue_tail)
  BY <1>3
<1> HIDE DEF last
<1>6. TheRing' = last
  BY <1>4, <1>5 DEF TheRing, RingOK, RingRecord
<1> QED
  BY <1>4, <1>5, <1>6

(* The client: its packets lie one behind the other *)

PacketTypes == {"CONNECT", "SUBSCRIBE", "PUBLISH", "PUBACK", "PINGREQ", "DISCONNECT"}

Errors == {"OK", "SEND_BUFFER_IS_FULL", "ACK_OF_UNKNOWN", "CONNECTION_REFUSED",
           "RECV_BUFFER_TOO_SMALL", "SOCKET_ERROR"}

States == {"unsent", "awaiting", "complete"}

Queued == [type : PacketTypes, pid : Nat, qos : {0, 1}, size : Nat \ {0},
           number : Nat, start : Nat, state : States, age : Nat, written : Nat]

ClientRecord == [queue : Seq(Queued), curr : Nat, offset : Nat, pid : 0..Pids,
                 error : Errors, timeouts : BOOLEAN, idle : Nat, torn : BOOLEAN]

Ends(q, n) == IF n = 0 THEN 0 ELSE q[n].start + q[n].size

Packed(q) == \A i \in 1..Len(q) : q[i].start = Ends(q, i - 1)

Fits(c) == /\ c.curr = Ends(c.queue, Len(c.queue))
           /\ c.curr + Len(c.queue) * Header <= Memory

ClientOK(c) == c \in ClientRecord /\ Packed(c.queue) /\ Fits(c)

LEMMA ClientNumbers ==
  /\ Memory \in Nat /\ Memory > 0 /\ Header \in Nat /\ Header > 0
  /\ Pids \in Nat /\ Pids > 0 /\ ResponseTimeout \in Nat /\ KeepAlive \in Nat
BY MqttClientAssumption

\* What lies further back starts further back.
LEMMA StartsGrow ==
  ASSUME NEW q \in Seq(Queued), Packed(q)
  PROVE  /\ \A i \in 1..Len(q) : \A j \in i..Len(q) : q[i].start <= q[j].start
         /\ Len(q) <= Ends(q, Len(q)) /\ Ends(q, Len(q)) \in Nat
<1> DEFINE n == Len(q)
           P == {k \in 0..n : /\ k <= Ends(q, k) /\ Ends(q, k) \in Nat
                              /\ \A i \in 1..k : q[i].start <= Ends(q, k)
                              /\ \A i \in 1..k : \A j \in i..k : q[i].start <= q[j].start}
<1>1. n \in Nat /\ \A i \in 1..n : q[i] \in Queued
  BY ElementOfSeq
<1>2. \A i \in 1..n : q[i].start \in Nat /\ q[i].size \in Nat /\ q[i].size > 0
  <2> SUFFICES ASSUME NEW i \in 1..n
               PROVE  q[i].start \in Nat /\ q[i].size \in Nat /\ q[i].size > 0
    OBVIOUS
  <2>1. q[i].start \in Nat /\ q[i].size \in Nat \ {0}
    BY <1>1 DEF Queued
  <2> QED
    BY <2>1
<1>3. 0 \in P
  BY <1>1 DEF Ends
<1>4. ASSUME NEW k \in 1..n, k - 1 \in P PROVE k \in P
  <2>1. /\ k - 1 <= Ends(q, k - 1) /\ Ends(q, k - 1) \in Nat
        /\ \A i \in 1..(k - 1) : q[i].start <= Ends(q, k - 1)
        /\ \A i \in 1..(k - 1) : \A j \in i..(k - 1) : q[i].start <= q[j].start
    BY <1>4
  <2>2. q[k].start = Ends(q, k - 1) /\ Ends(q, k) = q[k].start + q[k].size
    BY <1>1 DEF Packed, Ends
  <2>3. q[k].start \in Nat /\ q[k].size \in Nat /\ q[k].size > 0 /\ k \in Nat
    BY <1>2
  <2>4. k <= Ends(q, k) /\ Ends(q, k) \in Nat /\ q[k].start <= Ends(q, k)
    BY <2>1, <2>2, <2>3
  <2>5. ASSUME NEW i \in 1..k PROVE q[i].start <= q[k].start
    <3>1. i \in 1..(k - 1) \/ i = k
      BY <2>3
    <3> QED
      BY <2>1, <2>2, <2>3, <3>1
  <2>6. ASSUME NEW i \in 1..k PROVE q[i].start <= Ends(q, k)
    BY <1>1, <1>2, <2>2, <2>3, <2>4, <2>5
  <2>7. ASSUME NEW i \in 1..k, NEW j \in i..k PROVE q[i].start <= q[j].start
    <3>1. j = k \/ (i \in 1..(k - 1) /\ j \in i..(k - 1))
      BY <2>3
    <3> QED
      BY <2>1, <2>5, <3>1
  <2> QED
    BY <1>1, <2>4, <2>6, <2>7
<1>5. P = 0..n
  <2> HIDE DEF P
  <2>1. P \in SUBSET (0..n)
    BY DEF P
  <2> QED
    BY <1>1, <1>3, <1>4, <2>1, AllUpTo
<1>6. n \in P
  BY <1>1, <1>5
<1> QED
  BY <1>6

\* Fewer headers take less room.
LEMMA FewerHeaders ==
  ASSUME NEW m \in Nat, NEW n \in Nat, m <= n
  PROVE  m * Header <= n * Header /\ m * Header \in Nat /\ n * Header \in Nat
         /\ (n + 1) * Header = n * Header + Header
BY ClientNumbers

\* A change of what is known of the packets moves none of them.
LEMMA NothingMoved ==
  ASSUME NEW c, ClientOK(c), NEW d \in ClientRecord,
         d.curr = c.curr, Len(d.queue) = Len(c.queue),
         \A i \in 1..Len(c.queue) : /\ d.queue[i].start = c.queue[i].start
                                    /\ d.queue[i].size = c.queue[i].size
  PROVE  ClientOK(d)
<1> DEFINE n == Len(c.queue)
<1>1. n \in Nat
  BY DEF ClientOK, ClientRecord
<1>2. \A k \in 0..n : Ends(d.queue, k) = Ends(c.queue, k)
  BY DEF Ends
<1>3. Packed(d.queue)
  BY <1>1, <1>2 DEF Packed, ClientOK
<1> QED
  BY <1>1, <1>2, <1>3 DEF ClientOK, Fits

----------------------------------------------------------------------------
(* The queue *)

\* The first packet that is not complete, or 0.
LEMMA FirstStays ==
  ASSUME NEW q, NEW n \in Nat, Len(q) = n
  PROVE  \/ /\ SelectInSeq(q, Stays) = 0
            /\ \A i \in 1..n : ~Stays(q[i])
         \/ /\ SelectInSeq(q, Stays) \in 1..n
            /\ Stays(q[SelectInSeq(q, Stays)])
            /\ \A i \in 1..(SelectInSeq(q, Stays) - 1) : ~Stays(q[i])
<1> DEFINE I == {i \in 1..n : Stays(q[i])}
<1>1. SelectInSeq(q, Stays) = IF I # {} THEN First(I) ELSE 0
  BY DEF SelectInSeq, Min, First
<1>2. I \in SUBSET Nat
  OBVIOUS
<1>3. CASE I = {}
  BY <1>1, <1>3
<1>4. CASE I # {}
  <2> DEFINE f == First(I)
  <2>1. f \in I /\ \A i \in I : f <= i
    <3> HIDE DEF I
    <3> QED
      BY <1>2, <1>4, FirstIsMember, FirstIsLeast
  <2>2. SelectInSeq(q, Stays) = f
    BY <1>1, <1>4
  <2> HIDE DEF f
  <2>3. f \in 1..n /\ Stays(q[f]) /\ f \in Nat
    BY <2>1
  <2>4. ASSUME NEW i \in 1..(f - 1) PROVE ~Stays(q[i])
    <3>1. i \in 1..n /\ i < f
      BY <2>3
    <3> QED
      BY <2>1, <3>1
  <2> QED
    BY <2>2, <2>3, <2>4
<1> QED
  BY <1>3, <1>4

\* mqtt_mq_clean() as a suffix: what it drops, and where the rest lies.
Dropped(c) == LET first == SelectInSeq(c.queue, Stays)
              IN IF first = 0 THEN Len(c.queue) ELSE first - 1

LEMMA CleanFacts ==
  ASSUME NEW c, ClientOK(c)
  PROVE  /\ Dropped(c) \in 0..Len(c.queue)
         /\ \A i \in 1..Dropped(c) : c.queue[i].state = "complete"
         /\ Clean(c).queue \in Seq(Queued)
         /\ Len(Clean(c).queue) = Len(c.queue) - Dropped(c)
         /\ \A i \in 1..(Len(c.queue) - Dropped(c)) :
              Clean(c).queue[i]
                = Moved(c.queue[i + Dropped(c)], Ends(c.queue, Dropped(c)))
         /\ Clean(c) = [c EXCEPT !.queue = Clean(c).queue,
                                 !.curr = c.curr - Ends(c.queue, Dropped(c))]
<1> DEFINE q == c.queue
           n == Len(q)
           first == SelectInSeq(q, Stays)
           d == Dropped(c)
<1>1. /\ c \in ClientRecord /\ q \in Seq(Queued) /\ n \in Nat /\ Packed(q) /\ Fits(c)
      /\ \A i \in 1..n : q[i] \in Queued
  BY ElementOfSeq DEF ClientOK, ClientRecord
<1>2. \/ first = 0 /\ \A i \in 1..n : ~Stays(q[i])
      \/ /\ first \in 1..n /\ Stays(q[first])
         /\ \A i \in 1..(first - 1) : ~Stays(q[i])
  BY <1>1, FirstStays
<1>3. /\ d \in 0..n /\ \A i \in 1..d : q[i].state = "complete"
      /\ first # 0 => d = first - 1 /\ first \in 1..n
      /\ first = 0 => d = n
  BY <1>1, <1>2 DEF Dropped, Stays
<1>4. CASE first = 0
  <2>1. Clean(c) = [c EXCEPT !.queue = <<>>, !.curr = 0]
    BY <1>4 DEF Clean
  <2>2. c.curr - Ends(q, d) = 0
    BY <1>1, <1>3, <1>4, StartsGrow DEF Fits, ClientRecord
  <2>3. Clean(c).queue = <<>> /\ Clean(c).curr = 0
    BY <1>1, <2>1 DEF ClientRecord
  <2>4. Clean(c) = [c EXCEPT !.queue = Clean(c).queue, !.curr = c.curr - Ends(q, d)]
    BY <2>1, <2>2, <2>3
  <2>5. n - d = 0
    BY <1>1, <1>3, <1>4
  <2> QED
    BY <1>3, <2>3, <2>4, <2>5
<1>5. CASE first # 0
  <2> DEFINE removing == q[first].start
             rest == [i \in 1..(n - first + 1) |-> Moved(q[i + first - 1], removing)]
  <2>1. removing = Ends(q, d) /\ removing \in Nat
    BY <1>1, <1>3, <1>5 DEF Packed, Queued
  <2>2. Clean(c) = [c EXCEPT !.queue = rest, !.curr = c.curr - removing]
    BY <1>5 DEF Clean
  <2>3. n - first + 1 = n - d /\ n - d \in Nat
    BY <1>1, <1>3, <1>5
  <2>4. ASSUME NEW i \in 1..(n - d)
        PROVE  /\ i + first - 1 = i + d /\ i + d \in 1..n
               /\ Moved(q[i + d], removing) \in Queued
    <3>1. i + first - 1 = i + d /\ i + d \in 1..n /\ first \in 1..n
          /\ i + d \in first..n
      BY <1>1, <1>3, <1>5
    <3>2. removing <= q[i + d].start /\ q[i + d] \in Queued
      BY <1>1, <3>1, StartsGrow
    <3>3. q[i + d].start - removing \in Nat
      BY <2>1, <3>2 DEF Queued
    <3> QED
      BY <3>1, <3>2, <3>3 DEF Moved, Queued
  <2>5. rest \in Seq(Queued) /\ Len(rest) = n - d
        /\ \A i \in 1..(n - d) : rest[i] = Moved(q[i + d], removing)
    <3>1. rest = [i \in 1..(n - d) |-> Moved(q[i + d], removing)]
      BY <2>3, <2>4
    <3> DEFINE m == n - d
    <3>2. rest \in [1..m -> Queued] /\ m \in Nat
      BY <2>3, <2>4, <3>1
    <3>3. \A i \in 1..m : rest[i] = Moved(q[i + d], removing)
      BY <3>1
    <3> HIDE DEF rest, m
    <3>4. rest \in Seq(Queued) /\ Len(rest) = m
      BY <3>2
    <3> QED
      BY <3>3, <3>4 DEF m
  <2> HIDE DEF rest, removing
  <2>6. Clean(c).queue = rest
    BY <1>1, <2>2 DEF ClientRecord
  <2>7. Clean(c) = [c EXCEPT !.queue = Clean(c).queue, !.curr = c.curr - Ends(q, d)]
    BY <2>1, <2>2, <2>6
  <2> QED
    BY <1>3, <2>1, <2>5, <2>6, <2>7
<1> QED
  BY <1>4, <1>5

LEMMA CleanOK ==
  ASSUME NEW c, ClientOK(c)
  PROVE  ClientOK(Clean(c))
<1> DEFINE q == c.queue
           n == Len(q)
           d == Dropped(c)
           e == Clean(c)
           r == e.queue
           m == n - d
           removing == Ends(q, d)
<1>1. /\ c \in ClientRecord /\ q \in Seq(Queued) /\ n \in Nat /\ Packed(q) /\ Fits(c)
      /\ \A i \in 1..n : q[i] \in Queued
  BY ElementOfSeq DEF ClientOK, ClientRecord
<1>2. /\ d \in 0..n /\ r \in Seq(Queued) /\ Len(r) = n - d
      /\ \A i \in 1..(n - d) : r[i] = Moved(q[i + d], removing)
      /\ e = [c EXCEPT !.queue = r, !.curr = c.curr - removing]
  BY CleanFacts
<1> HIDE DEF d, e
<1>3. m \in Nat /\ m <= n /\ \A i \in 1..m : i + d \in 1..n /\ i + d - 1 = (i - 1) + d
  BY <1>1, <1>2
<1>4. \A i \in 1..n : /\ q[i].start = Ends(q, i - 1) /\ q[i].start \in Nat
                      /\ q[i].size \in Nat
  BY <1>1 DEF Packed, Queued
<1>5. \A i \in 1..m : /\ r[i].start = q[i + d].start - removing
                      /\ r[i].size = q[i + d].size
  <2> SUFFICES ASSUME NEW i \in 1..m
               PROVE  /\ r[i].start = q[i + d].start - removing
                      /\ r[i].size = q[i + d].size
    OBVIOUS
  <2> DEFINE x == q[i + d]
  <2>1. x \in Queued /\ r[i] = Moved(x, removing)
    BY <1>1, <1>2, <1>3
  <2> HIDE DEF x, removing
  <2>2. r[i].start = x.start - removing /\ r[i].size = x.size
    BY <2>1 DEF Moved, Queued
  <2> QED
    BY <2>2 DEF x
<1>6. ASSUME NEW k \in 0..m PROVE Ends(r, k) = Ends(q, k + d) - removing
  <2>1. CASE k = 0
    <3>1. Ends(q, d) \in Nat
      BY <1>1, <1>2, <1>4 DEF Ends
    <3>2. Ends(r, k) = 0 /\ k + d = d
      BY <1>2, <2>1 DEF Ends
    <3> QED
      BY <3>1, <3>2
  <2>2. CASE k # 0
    <3>1. k \in 1..m /\ k + d \in 1..n /\ k + d # 0
      BY <1>1, <1>2, <1>3, <2>2
    <3>2. /\ Ends(r, k) = r[k].start + r[k].size
          /\ Ends(q, k + d) = q[k + d].start + q[k + d].size
      BY <3>1, <2>2 DEF Ends
    <3>3. removing \in Nat
      BY <1>1, <1>2, <1>4 DEF Ends
    <3>4. q[k + d].start \in Nat /\ q[k + d].size \in Nat
      BY <1>4, <3>1
    <3> QED
      BY <1>5, <3>1, <3>2, <3>3, <3>4
  <2> QED
    BY <2>1, <2>2
<1>7. Packed(r)
  <2> SUFFICES ASSUME NEW i \in 1..m PROVE r[i].start = Ends(r, i - 1)
    BY <1>2 DEF Packed
  <2>1. i - 1 \in 0..m /\ i + d \in 1..n /\ i + d - 1 = (i - 1) + d
    BY <1>3
  <2>2. q[i + d].start = Ends(q, (i + d) - 1)
    BY <1>4, <2>1
  <2>3. Ends(q, (i + d) - 1) = Ends(q, (i - 1) + d)
    <3>1. (i + d) - 1 = (i - 1) + d
      BY <1>1, <1>2
    <3> HIDE DEF q
    <3> QED
      BY <3>1
  <2>4. r[i].start = q[i + d].start - removing
    BY <1>5
  <2>5. Ends(r, i - 1) = Ends(q, (i - 1) + d) - removing
    BY <1>6, <2>1
  <2> QED
    BY <2>2, <2>3, <2>4, <2>5
<1> HIDE DEF removing
<1>8. e.queue = r /\ e.curr = c.curr - removing
  BY <1>1, <1>2 DEF ClientRecord
<1>9. removing \in Nat /\ c.curr = Ends(q, n) /\ removing <= Ends(q, n)
      /\ c.curr \in Nat
  <2>1. removing \in Nat
    BY <1>1, <1>2, <1>4 DEF Ends, removing
  <2>2. c.curr = Ends(q, n) /\ c.curr \in Nat
    BY <1>1 DEF Fits, ClientRecord
  <2>3. CASE d = n
    BY <2>1, <2>2, <2>3 DEF removing
  <2>4. CASE d # n
    <3>1. d + 1 \in 1..n /\ d + 1 - 1 = d /\ n \in (d + 1)..n /\ n # 0 /\ n \in 1..n
      BY <1>1, <1>2, <2>4
    <3> DEFINE f == d + 1
    <3>2. q[f].start = Ends(q, f - 1) /\ f \in 1..n
      BY <1>4, <3>1
    <3>7. f - 1 = d
      BY <1>1, <1>2
    <3>3. removing = q[f].start
      BY <3>2, <3>7 DEF removing
    <3>4. q[f].start <= q[n].start
      BY <1>1, <3>1, StartsGrow
    <3>5. Ends(q, n) = q[n].start + q[n].size
      BY <3>1 DEF Ends
    <3>6. q[n].start \in Nat /\ q[n].size \in Nat
      BY <1>4, <3>1
    <3> HIDE DEF f, n
    <3> QED
      BY <2>1, <2>2, <3>3, <3>4, <3>5, <3>6
  <2> QED
    BY <2>3, <2>4
<1>10. e.curr = Ends(r, Len(r)) /\ e.curr \in Nat /\ e.curr <= c.curr
  <2>1. m \in 0..m /\ m + d = n
    BY <1>1, <1>2, <1>3
  <2>2. Ends(r, m) = Ends(q, n) - removing
    BY <1>6, <2>1 DEF removing
  <2> QED
    BY <1>2, <1>8, <1>9, <2>2
<1>11. e.curr + Len(r) * Header <= Memory
  <2>1. m * Header <= n * Header /\ m * Header \in Nat /\ n * Header \in Nat
    BY <1>1, <1>3, FewerHeaders
  <2>2. c.curr + n * Header <= Memory
    BY <1>1 DEF Fits
  <2>3. Len(r) = m
    BY <1>2
  <2> HIDE DEF m, n, e, r
  <2> QED
    BY <1>9, <1>10, <2>1, <2>2, <2>3, ClientNumbers
<1>12. e \in ClientRecord
  <2> DEFINE k == c.curr - removing
  <2>1. k \in Nat
    BY <1>8, <1>10
  <2> HIDE DEF k, r
  <2>2. [c EXCEPT !.queue = r, !.curr = k] \in ClientRecord
    BY <1>1, <1>2, <2>1 DEF ClientRecord
  <2> QED
    BY <1>2, <2>2 DEF k
<1> HIDE DEF r
<1>13. Packed(e.queue) /\ Fits(e)
  BY <1>7, <1>8, <1>10, <1>11 DEF Fits
<1> QED
  BY <1>12, <1>13 DEF ClientOK, e

\* What is packed now, and where.
Placed(p, c) == [p EXCEPT !.start = c.curr]

LEMMA RegisteredOK ==
  ASSUME NEW c, ClientOK(c), NEW p \in Queued, p.size <= Room(c)
  PROVE  /\ ClientOK(Registered(c, p))
         /\ Placed(p, c) \in Queued
         /\ Registered(c, p).queue = Append(c.queue, Placed(p, c))
         /\ Registered(c, p) = [c EXCEPT !.queue = Append(c.queue, Placed(p, c)),
                                         !.curr = c.curr + p.size]
<1> DEFINE q == c.queue
           n == Len(q)
           new == Placed(p, c)
           r == Append(q, new)
           e == Registered(c, p)
<1>1. /\ c \in ClientRecord /\ q \in Seq(Queued) /\ n \in Nat /\ Packed(q) /\ Fits(c)
      /\ c.curr \in Nat
  BY DEF ClientOK, ClientRecord
<1>2. /\ new \in Queued /\ new.start = c.curr /\ new.size = p.size
      /\ p.size \in Nat /\ p.size # 0
  <2>1. p.size \in Nat \ {0}
    BY DEF Queued
  <2> QED
    BY <1>1, <2>1 DEF Queued, Placed
<1>3. e = [c EXCEPT !.queue = r, !.curr = c.curr + p.size]
  BY <1>1 DEF Registered, ClientRecord, Placed
<1> HIDE DEF new
<1>4. /\ r \in Seq(Queued) /\ Len(r) = n + 1 /\ r[n + 1] = new
      /\ \A i \in 1..n : r[i] = q[i]
  BY <1>1, <1>2
<1> HIDE DEF r, e
<1>5. e \in ClientRecord /\ e.queue = r /\ e.curr = c.curr + p.size
  <2> DEFINE k == c.curr + p.size
  <2>1. k \in Nat
    BY <1>1, <1>2
  <2> HIDE DEF k
  <2> QED
    BY <1>1, <1>3, <1>4, <2>1 DEF ClientRecord, k
<1>6. \A k \in 0..n : Ends(r, k) = Ends(q, k)
  BY <1>1, <1>4 DEF Ends
<1>7. Packed(r)
  <2> SUFFICES ASSUME NEW i \in 1..(n + 1) PROVE r[i].start = Ends(r, i - 1)
    BY <1>4 DEF Packed
  <2>1. CASE i = n + 1
    <3>1. i - 1 = n /\ n \in 0..n
      BY <1>1, <2>1
    <3> QED
      BY <1>1, <1>2, <1>4, <1>6, <2>1, <3>1 DEF Fits
  <2>2. CASE i # n + 1
    <3>1. i \in 1..n /\ i - 1 \in 0..n
      BY <1>1, <2>2
    <3> QED
      BY <1>1, <1>4, <1>6, <3>1 DEF Packed
  <2> QED
    BY <2>1, <2>2
<1>8. e.curr = Ends(r, n + 1)
  <2>1. n + 1 # 0
    BY <1>1
  <2> QED
    BY <1>2, <1>4, <1>5, <2>1 DEF Ends
<1>9. e.curr + (n + 1) * Header <= Memory
  <2> DEFINE h == (n + 1) * Header
  <2>1. Room(c) = IF c.curr + h < Memory THEN Memory - (c.curr + h) ELSE 0
    BY DEF Room
  <2>2. h \in Nat
    BY <1>1, ClientNumbers
  <2> HIDE DEF h
  <2>3. p.size \in Nat /\ p.size # 0 /\ p.size <= Room(c)
    BY <1>2
  <2>4. c.curr + p.size + h <= Memory
    BY <1>1, <2>1, <2>2, <2>3, ClientNumbers
  <2>5. e.curr + h <= Memory
    BY <1>1, <1>5, <2>2, <2>3, <2>4
  <2> QED
    BY <2>5 DEF h
<1> QED
  BY <1>2, <1>3, <1>4, <1>5, <1>7, <1>8, <1>9 DEF ClientOK, Fits, r, e, new

\* MQTT_CLIENT_TRY_PACK
LEMMA TryPackOK ==
  ASSUME NEW c, ClientOK(c), NEW p \in Queued
  PROVE  ClientOK(TryPack(c, p))
<1>1. ClientOK(Clean(c))
  BY CleanOK
<1>2. ClientOK([Clean(c) EXCEPT !.error = "SEND_BUFFER_IS_FULL"])
  <2> DEFINE d == Clean(c)
             e == [d EXCEPT !.error = "SEND_BUFFER_IS_FULL"]
  <2>1. d \in ClientRecord
    BY <1>1 DEF ClientOK
  <2> HIDE DEF d
  <2>2. e \in ClientRecord /\ e.queue = d.queue /\ e.curr = d.curr
    BY <2>1 DEF ClientRecord, Errors
  <2> QED
    BY <1>1, <2>2 DEF ClientOK, Fits, d
<1>3. p.size <= Room(c) => ClientOK(Registered(c, p))
  BY RegisteredOK
<1>4. p.size <= Room(Clean(c)) => ClientOK(Registered(Clean(c), p))
  BY <1>1, RegisteredOK
<1> QED
  BY <1>2, <1>3, <1>4 DEF TryPack

LEMMA PacketQueued ==
  ASSUME NEW type \in PacketTypes, NEW pid \in Nat, NEW size \in Nat \ {0}
  PROVE  Packet(type, pid, size) \in Queued
BY DEF Packet, Queued, States

LEMMA PacketsQueued ==
  /\ ConnectPacket \in Queued /\ PingPacket \in Queued /\ DisconnectPacket \in Queued
  /\ \A pid \in Nat : SubscribePacket(pid) \in Queued /\ PubackPacket(pid) \in Queued
  /\ \A pid \in Nat, qos \in {0, 1}, size \in Nat \ {0}, number \in Nat :
       PublishPacket(pid, qos, size, number) \in Queued
<1>1. NoPid \in Nat /\ 1 \in Nat \ {0}
  BY DEF NoPid
<1>2. ConnectPacket \in Queued /\ PingPacket \in Queued /\ DisconnectPacket \in Queued
  BY <1>1, PacketQueued DEF ConnectPacket, PingPacket, DisconnectPacket, PacketTypes
<1>3. ASSUME NEW pid \in Nat
      PROVE  SubscribePacket(pid) \in Queued /\ PubackPacket(pid) \in Queued
  BY <1>1, PacketQueued DEF SubscribePacket, PubackPacket, PacketTypes
<1>4. ASSUME NEW pid \in Nat, NEW qos \in {0, 1}, NEW size \in Nat \ {0},
             NEW number \in Nat
      PROVE  PublishPacket(pid, qos, size, number) \in Queued
  <2>1. Packet("PUBLISH", pid, size) \in Queued
    BY PacketQueued DEF PacketTypes
  <2> QED
    BY <2>1 DEF PublishPacket, Queued
<1> QED
  BY <1>2, <1>3, <1>4

(* __mqtt_next_pid() *)

\* The identifiers that are taken are fewer than there are.
LEMMA FewInUse ==
  ASSUME NEW c, ClientOK(c), NEW stale
  PROVE  \E x \in 1..Pids : x \notin InUse(c) \union {stale}
<1> DEFINE q == c.queue
           n == Len(q)
           used == InUse(c)
           f == [i \in 1..n |-> q[i].pid]
<1>1. q \in Seq(Queued) /\ n \in Nat /\ DOMAIN q = 1..n /\ Packed(q) /\ Fits(c)
  BY DEF ClientOK, ClientRecord
<1>2. n < Pids - 1
  <2> DEFINE h == n * Header
  <2>1. n <= c.curr /\ c.curr \in Nat /\ c.curr + h <= Memory
    BY <1>1, StartsGrow DEF Fits
  <2>2. h \in Nat /\ n * (Header + 1) = h + n
    <3> HIDE DEF n
    <3> QED
      BY <1>1, ClientNumbers
  <2>3. n * (Header + 1) <= Memory
    <3> HIDE DEF h, n
    <3> QED
      BY <1>1, <2>1, <2>2, ClientNumbers
  <2>4. n * (Header + 1) < (Pids - 1) * (Header + 1)
    <3>1. Memory < (Pids - 1) * (Header + 1)
      BY PidsAssumption, ClientNumbers
    <3> DEFINE a == n * (Header + 1)
               b == (Pids - 1) * (Header + 1)
    <3>2. a \in Int /\ b \in Int /\ Memory \in Int
      BY <1>1, ClientNumbers
    <3> HIDE DEF a, b
    <3>3. a <= Memory /\ Memory < b
      BY <2>3, <3>1 DEF a, b
    <3>4. a < b
      BY <3>2, <3>3
    <3> QED
      BY <3>4 DEF a, b
  <2> DEFINE p == Pids - 1
             w == Header + 1
  <2>5. w \in Nat /\ w > 0 /\ p \in Int /\ n * w < p * w
    <3>1. w \in Nat /\ w > 0 /\ p \in Int
      BY ClientNumbers
    <3> HIDE DEF n
    <3> QED
      BY <2>4, <3>1
  <2> HIDE DEF p, w, n
  <2>6. n < p
    BY <1>1, <2>5
  <2> QED
    BY <2>6 DEF p
<1>3. f \in Surjection(1..n, used)
  BY <1>1 DEF InUse, Surjection
<1>4. IsFiniteSet(1..n) /\ Cardinality(1..n) = n
  BY <1>1, FS_Interval
<1>5. IsFiniteSet(used) /\ Cardinality(used) <= n /\ Cardinality(used) \in Nat
  <2> HIDE DEF f, n
  <2> QED
    BY <1>3, <1>4, FS_Surjection, FS_CardinalityType
<1>6. /\ IsFiniteSet(used \union {stale}) /\ Cardinality(used \union {stale}) \in Nat
      /\ Cardinality(used \union {stale}) <= n + 1
  <2>1. /\ IsFiniteSet(used \union {stale})
        /\ \/ Cardinality(used \union {stale}) = Cardinality(used)
           \/ Cardinality(used \union {stale}) = Cardinality(used) + 1
    BY <1>5, FS_AddElement
  <2> HIDE DEF used, n
  <2> QED
    BY <1>1, <1>5, <2>1
<1>7. SUFFICES ASSUME 1..Pids \subseteq used \union {stale} PROVE FALSE
  OBVIOUS
<1>8. IsFiniteSet(1..Pids) /\ Cardinality(1..Pids) = Pids
  BY FS_Interval, ClientNumbers
<1>9. Cardinality(1..Pids) <= Cardinality(used \union {stale})
  BY <1>6, <1>7, FS_Subset
<1> QED
  BY <1>1, <1>2, <1>6, <1>8, <1>9, ClientNumbers

\* Every identifier is reached.
LEMMA AllReached ==
  ASSUME NEW pid \in 0..Pids, NEW x \in 1..Pids
  PROVE  \E k \in 1..Pids : KthAfter(pid, k) = x
<1> DEFINE P == Pids
<1>1. P \in Nat /\ P > 0 /\ pid \in 0..P /\ x \in 1..P
  BY ClientNumbers
<1> HIDE DEF P
<1>2. CASE x > pid
  <2>1. x - pid \in 1..P /\ pid + (x - pid) - 1 = x - 1 /\ (x - 1) % P = x - 1
    BY <1>1, <1>2
  <2>2. ((pid + (x - pid) - 1) % P) + 1 = x
    BY <1>1, <2>1
  <2> QED
    BY <2>1, <2>2 DEF KthAfter, P
<1>3. CASE x <= pid
  <2>1. x - pid + P \in 1..P /\ pid + (x - pid + P) - 1 = (x - 1) + P
        /\ ((x - 1) + P) % P = x - 1
    BY <1>1, <1>3
  <2>2. ((pid + (x - pid + P) - 1) % P) + 1 = x
    BY <1>1, <2>1
  <2> QED
    BY <2>1, <2>2 DEF KthAfter, P
<1> QED
  BY <1>1, <1>2, <1>3

\* The identifier is free, and all that the search went over are not.
LEMMA NextPidIsFree ==
  ASSUME NEW c, ClientOK(c), NEW stale
  PROVE  /\ NextPid(c, stale) \in 1..Pids
         /\ NextPid(c, stale) \notin InUse(c) \union {stale}
         /\ \E k \in 1..Pids :
              /\ NextPid(c, stale) = KthAfter(c.pid, k)
              /\ \A j \in 1..(k - 1) : KthAfter(c.pid, j) \in InUse(c) \union {stale}
<1> DEFINE IsFree(k) == KthAfter(c.pid, k) \notin InUse(c) \union {stale}
           IsNext(k) == IsFree(k) /\ \A j \in 1..(k - 1) : ~IsFree(j)
           K == {k \in 1..Pids : IsFree(k)}
           next == CHOOSE k \in 1..Pids : IsNext(k)
<1>1. c.pid \in 0..Pids
  BY DEF ClientOK, ClientRecord
<1>2. K # {}
  <2>1. PICK x \in 1..Pids : x \notin InUse(c) \union {stale}
    BY FewInUse
  <2>2. PICK k \in 1..Pids : KthAfter(c.pid, k) = x
    BY <1>1, AllReached
  <2> QED
    BY <2>1, <2>2
<1>3. K \in SUBSET Nat
  OBVIOUS
<1>4. PICK k \in K : \A j \in K : k <= j
  <2> HIDE DEF K
  <2> QED
    BY <1>2, <1>3, LeastIndex
<1>5. k \in 1..Pids /\ IsNext(k)
  <2>1. \A j \in 1..(k - 1) : j \in 1..Pids /\ ~(k <= j)
    BY <1>4, ClientNumbers
  <2> QED
    BY <1>4, <2>1
<1>6. next \in 1..Pids /\ IsNext(next)
  <2> HIDE DEF IsNext
  <2> QED
    BY <1>5
<1>7. NextPid(c, stale) = KthAfter(c.pid, next)
  BY DEF NextPid
<1> HIDE DEF next
<1>8. KthAfter(c.pid, next) \in 1..Pids
  BY <1>1, <1>6, ClientNumbers DEF KthAfter
<1> QED
  BY <1>6, <1>7, <1>8

\* mqtt_publish() and mqtt_subscribe()
LEMMA PidTaken ==
  ASSUME NEW c, ClientOK(c), NEW pid \in 0..Pids
  PROVE  ClientOK([c EXCEPT !.pid = pid])
<1> DEFINE d == [c EXCEPT !.pid = pid]
<1>1. /\ d \in ClientRecord /\ d.queue = c.queue /\ d.curr = c.curr
  BY DEF ClientOK, ClientRecord
<1> HIDE DEF d
<1> QED
  BY <1>1 DEF ClientOK, Fits, d

LEMMA CallsOK ==
  ASSUME NEW c, ClientOK(c)
  PROVE  /\ ClientOK(Connect(c)) /\ ClientOK(Disconnect(c)) /\ ClientOK(KeptAlive(c))
         /\ \A stale \in Nat : ClientOK(Subscribe(c, stale))
         /\ \A stale \in Nat, qos \in {0, 1}, size \in Nat \ {0}, number \in Nat :
              ClientOK(Publish(c, stale, qos, size, number))
<1>1. /\ ClientOK(Connect(c)) /\ ClientOK(Disconnect(c)) /\ ClientOK(KeptAlive(c))
  BY PacketsQueued, TryPackOK DEF Connect, Disconnect, KeptAlive
<1>2. \A stale : NextPid(c, stale) \in Nat
                 /\ ClientOK([c EXCEPT !.pid = NextPid(c, stale)])
  <2> SUFFICES ASSUME NEW stale
               PROVE  NextPid(c, stale) \in Nat
                      /\ ClientOK([c EXCEPT !.pid = NextPid(c, stale)])
    OBVIOUS
  <2> DEFINE pid == NextPid(c, stale)
  <2>1. pid \in 1..Pids
    BY NextPidIsFree
  <2>2. pid \in 0..Pids /\ pid \in Nat
    BY <2>1, ClientNumbers
  <2> HIDE DEF pid
  <2> QED
    BY <2>2, PidTaken DEF pid
<1>3. \A stale : ClientOK(Subscribe(c, stale))
  BY <1>2, PacketsQueued, TryPackOK DEF Subscribe
<1>4. \A stale \in Nat, qos \in {0, 1}, size \in Nat \ {0}, number \in Nat :
              ClientOK(Publish(c, stale, qos, size, number))
  BY <1>2, PacketsQueued, TryPackOK DEF Publish
<1> QED
  BY <1>1, <1>3, <1>4

(* __mqtt_recv() *)

\* Which packet an answer is for.
IsAnswered(m, type, pid) ==
  m.type = type /\ IF pid = NoPid THEN m.state # "complete" ELSE m.pid = pid

LEMMA FindFacts ==
  ASSUME NEW c, ClientOK(c), NEW type, NEW pid
  PROVE  \/ /\ Find(c, type, pid) = 0
            /\ \A i \in 1..Len(c.queue) : ~IsAnswered(c.queue[i], type, pid)
         \/ /\ Find(c, type, pid) \in 1..Len(c.queue)
            /\ IsAnswered(c.queue[Find(c, type, pid)], type, pid)
            /\ \A i \in 1..(Find(c, type, pid) - 1) :
                 ~IsAnswered(c.queue[i], type, pid)
<1> DEFINE q == c.queue
           n == Len(q)
           I == {i \in 1..n : IsAnswered(q[i], type, pid)}
<1>1. Find(c, type, pid) = IF I # {} THEN First(I) ELSE 0
  BY DEF Find, SelectInSeq, Min, First, IsAnswered
<1>2. I \in SUBSET Nat /\ n \in Nat
  BY DEF ClientOK, ClientRecord
<1>3. CASE I = {}
  BY <1>1, <1>3
<1>4. CASE I # {}
  <2> DEFINE f == First(I)
  <2>1. f \in I /\ \A i \in I : f <= i
    <3> HIDE DEF I
    <3> QED
      BY <1>2, <1>4, FirstIsMember, FirstIsLeast
  <2>2. Find(c, type, pid) = f
    BY <1>1, <1>4
  <2> HIDE DEF f
  <2>3. f \in 1..n /\ IsAnswered(q[f], type, pid) /\ f \in Nat
    BY <2>1
  <2>4. ASSUME NEW i \in 1..(f - 1) PROVE ~IsAnswered(q[i], type, pid)
    <3>1. i \in 1..n /\ i < f
      BY <1>2, <2>3
    <3> QED
      BY <2>1, <3>1
  <2> QED
    BY <2>2, <2>3, <2>4
<1> QED
  BY <1>3, <1>4

\* A client with one packet replaced.
Put(c, i, m) == [c EXCEPT !.queue = [c.queue EXCEPT ![i] = m]]

LEMMA PutFacts ==
  ASSUME NEW c, ClientOK(c), NEW i \in 1..Len(c.queue), NEW m \in Queued,
         m.start = c.queue[i].start, m.size = c.queue[i].size
  PROVE  /\ ClientOK(Put(c, i, m))
         /\ Len(Put(c, i, m).queue) = Len(c.queue)
         /\ Put(c, i, m).queue = [c.queue EXCEPT ![i] = m]
         /\ \A j \in 1..Len(c.queue) :
              Put(c, i, m).queue[j] = IF j = i THEN m ELSE c.queue[j]
         /\ Put(c, i, m) = [c EXCEPT !.queue = Put(c, i, m).queue]
<1> DEFINE q == c.queue
           r == [q EXCEPT ![i] = m]
           d == Put(c, i, m)
<1>1. c \in ClientRecord /\ q \in Seq(Queued)
  BY DEF ClientOK, ClientRecord
<1>2. /\ r \in Seq(Queued) /\ Len(r) = Len(q)
      /\ \A j \in 1..Len(q) : r[j] = IF j = i THEN m ELSE q[j]
  BY <1>1
<1> HIDE DEF r
<1>3. d = [c EXCEPT !.queue = r]
  BY DEF Put, r
<1> HIDE DEF d
<1>4. d \in ClientRecord /\ d.queue = r /\ d.curr = c.curr
  BY <1>1, <1>2, <1>3 DEF ClientRecord
<1>5. \A j \in 1..Len(q) : d.queue[j].start = q[j].start /\ d.queue[j].size = q[j].size
  BY <1>2, <1>4
<1>6. ClientOK(d)
  BY <1>2, <1>4, <1>5, NothingMoved
<1> QED
  BY <1>2, <1>3, <1>4, <1>6 DEF d, r

Received == [client : ClientRecord, read : Nat, out : Seq(Deliveries), failed : BOOLEAN]

ReceivedOK(s) == s \in Received /\ ClientOK(s.client)

WithError(c, error) == [c EXCEPT !.error = error]

LEMMA ErrorOK ==
  ASSUME NEW c, ClientOK(c), NEW error \in Errors
  PROVE  ClientOK(WithError(c, error)) /\ WithError(c, error).queue = c.queue
<1> DEFINE d == WithError(c, error)
<1>1. /\ d \in ClientRecord /\ d.queue = c.queue /\ d.curr = c.curr
  BY DEF ClientOK, ClientRecord, WithError
<1> HIDE DEF d
<1> QED
  BY <1>1 DEF ClientOK, Fits, d

LEMMA FailedOK ==
  ASSUME NEW s, ReceivedOK(s), NEW error \in Errors
  PROVE  /\ ReceivedOK(Failed(s, error)) /\ Failed(s, error).failed
         /\ Failed(s, error).client = WithError(s.client, error)
         /\ Failed(s, error).out = s.out /\ Failed(s, error).read = s.read
<1>1. ClientOK(WithError(s.client, error))
  BY ErrorOK DEF ReceivedOK
<1>2. WithError(s.client, error) \in ClientRecord
  BY <1>1 DEF ClientOK
<1>3. Failed(s, error) = [s EXCEPT !.client = WithError(s.client, error), !.failed = TRUE]
  BY DEF Failed, WithError, ReceivedOK, Received
<1>4. /\ Failed(s, error) \in Received
      /\ Failed(s, error).client = WithError(s.client, error)
      /\ Failed(s, error).failed
      /\ Failed(s, error).out = s.out /\ Failed(s, error).read = s.read
  BY <1>2, <1>3 DEF ReceivedOK, Received
<1> QED
  BY <1>1, <1>4 DEF ReceivedOK

Done(m) == [m EXCEPT !.state = "complete"]

LEMMA AnsweredOK ==
  ASSUME NEW s, ReceivedOK(s), NEW i \in 1..Len(s.client.queue)
  PROVE  /\ ReceivedOK(Answered(s, i))
         /\ Answered(s, i).client = Put(s.client, i, Done(s.client.queue[i]))
         /\ Answered(s, i).failed = s.failed
         /\ Answered(s, i).out = s.out /\ Answered(s, i).read = s.read
         /\ ClientOK(Put(s.client, i, Done(s.client.queue[i])))
<1> DEFINE c == s.client
           m == c.queue[i]
           d == Put(c, i, Done(m))
<1>1. ClientOK(c) /\ c \in ClientRecord /\ c.queue \in Seq(Queued) /\ m \in Queued
      /\ s \in Received
  BY ElementOfSeq DEF ReceivedOK, ClientOK, ClientRecord
<1>2. /\ Done(m) \in Queued /\ Done(m).start = m.start /\ Done(m).size = m.size
  BY <1>1 DEF Done, Queued, States
<1>3. ClientOK(d) /\ d \in ClientRecord
  BY <1>1, <1>2, PutFacts DEF ClientOK
<1>4. Answered(s, i) = [s EXCEPT !.client = d]
  <2>1. i # 0
    OBVIOUS
  <2> QED
    BY <1>1, <2>1 DEF Answered, Put, Done, Received, ClientRecord
<1> HIDE DEF d
<1>5. /\ Answered(s, i) \in Received /\ Answered(s, i).client = d
      /\ Answered(s, i).failed = s.failed
      /\ Answered(s, i).out = s.out /\ Answered(s, i).read = s.read
  BY <1>1, <1>3, <1>4 DEF Received
<1> QED
  BY <1>3, <1>5 DEF ReceivedOK, d

\* What a packet of the broker makes of the client.
Handled(c, d, p) ==
  \/ d = c
  \/ \E error \in Errors \ {"OK"} : d = WithError(c, error)
  \/ p \in Deliveries /\ p.qos = 1 /\ d = TryPack(c, PubackPacket(p.pid))
  \/ /\ p \in Replies /\ p.type \in DOMAIN AnswerTo
     /\ \E i \in 1..Len(c.queue) :
          /\ IsAnswered(c.queue[i], AnswerTo[p.type], p.pid)
          /\ \/ d = Put(c, i, Done(c.queue[i]))
             \/ \E error \in Errors \ {"OK"} :
                  d = WithError(Put(c, i, Done(c.queue[i])), error)

LEMMA ReadOn ==
  ASSUME NEW s, ReceivedOK(s)
  PROVE  /\ ReceivedOK([s EXCEPT !.read = @ + 1])
         /\ [s EXCEPT !.read = @ + 1].client = s.client
BY DEF ReceivedOK, Received

LEMMA HandleAnswerOK ==
  ASSUME NEW s, ReceivedOK(s), NEW p \in Replies, p.type \in DOMAIN AnswerTo
  PROVE  /\ ReceivedOK(HandleAnswer(s, p))
         /\ Handled(s.client, HandleAnswer(s, p).client, p)
<1> DEFINE c == s.client
           i == Find(c, AnswerTo[p.type], p.pid)
           t == Answered(s, i)
<1>1. ClientOK(c)
  BY DEF ReceivedOK
<1>2. CASE i = 0
  <2>1. t = Failed(s, "ACK_OF_UNKNOWN")
    BY <1>2 DEF Answered
  <2>2. "ACK_OF_UNKNOWN" \in Errors \ {"OK"}
    BY DEF Errors
  <2>3. ReceivedOK(t) /\ t.failed /\ t.client = WithError(c, "ACK_OF_UNKNOWN")
    BY <2>1, <2>2, FailedOK
  <2>4. HandleAnswer(s, p) = t
    BY <2>3 DEF HandleAnswer
  <2> QED
    BY <2>2, <2>3, <2>4 DEF Handled
<1>3. CASE i # 0
  <2>1. i \in 1..Len(c.queue) /\ IsAnswered(c.queue[i], AnswerTo[p.type], p.pid)
    BY <1>1, <1>3, FindFacts
  <2> DEFINE d == Put(c, i, Done(c.queue[i]))
  <2>2. ReceivedOK(t) /\ t.client = d
    BY <2>1, AnsweredOK
  <2>3. HandleAnswer(s, p) \in {t, Failed(t, "CONNECTION_REFUSED")}
    BY DEF HandleAnswer
  <2>4. "CONNECTION_REFUSED" \in Errors \ {"OK"}
    BY DEF Errors
  <2>5. /\ ReceivedOK(Failed(t, "CONNECTION_REFUSED"))
        /\ Failed(t, "CONNECTION_REFUSED").client = WithError(d, "CONNECTION_REFUSED")
    BY <2>2, <2>4, FailedOK
  <2> HIDE DEF i, t
  <2> QED
    BY <2>1, <2>2, <2>3, <2>4, <2>5 DEF Handled
<1> QED
  BY <1>2, <1>3

LEMMA HandlePublishOK ==
  ASSUME NEW s, ReceivedOK(s), NEW p \in Deliveries
  PROVE  /\ ReceivedOK(HandlePublish(s, p))
         /\ Handled(s.client, HandlePublish(s, p).client, p)
<1> DEFINE c == s.client
           d == IF p.qos = 0 THEN c ELSE TryPack(c, PubackPacket(p.pid))
           a == IF p.qos = 0 THEN s
                ELSE [s EXCEPT !.client = TryPack(@, PubackPacket(p.pid))]
<1>1. s \in Received /\ ClientOK(c) /\ p.qos \in {0, 1} /\ p.pid \in Nat
  BY SlotsFacts DEF ReceivedOK, Deliveries
<1>2. ClientOK(d) /\ Handled(c, d, p)
  BY <1>1, PacketsQueued, TryPackOK DEF Handled
<1>3. a = [s EXCEPT !.client = d]
  BY <1>1 DEF Received
<1> DEFINE t == HandlePublish(s, p)
<1>4. t \in {Failed(a, a.client.error), [a EXCEPT !.out = Append(@, p)]}
  BY DEF HandlePublish
<1> HIDE DEF a, d, t
<1>5. a \in Received /\ a.client = d /\ a.out = s.out
  BY <1>1, <1>2, <1>3 DEF Received, ClientOK
<1>6. CASE t = Failed(a, a.client.error)
  <2>1. d.error \in Errors /\ WithError(d, d.error) = d
    BY <1>2 DEF ClientOK, ClientRecord, WithError
  <2>2. ReceivedOK(a)
    BY <1>2, <1>5 DEF ReceivedOK
  <2>3. ReceivedOK(t) /\ t.client = d
    BY <1>5, <1>6, <2>1, <2>2, FailedOK
  <2> QED
    BY <1>2, <2>3 DEF t
<1>7. CASE t = [a EXCEPT !.out = Append(@, p)]
  <2>1. Append(a.out, p) \in Seq(Deliveries)
    BY <1>5 DEF Received
  <2>2. t \in Received /\ t.client = d
    BY <1>5, <1>7, <2>1 DEF Received
  <2> QED
    BY <1>2, <2>2 DEF ReceivedOK, t
<1> QED
  BY <1>4, <1>6, <1>7

LEMMA HandlePacketOK ==
  ASSUME NEW s, ReceivedOK(s), NEW p \in Incoming
  PROVE  /\ ReceivedOK(HandlePacket(s, p))
         /\ Handled(s.client, HandlePacket(s, p).client, p)
<1> DEFINE u == [s EXCEPT !.read = @ + 1]
<1>1. ReceivedOK(u) /\ u.client = s.client
  BY ReadOn
<1>2. CASE s.failed
  BY <1>2 DEF HandlePacket, Handled
<1>3. CASE ~s.failed /\ p \in Deliveries
  <2>1. p.type = "PUBLISH"
    BY <1>3 DEF Deliveries
  <2>2. HandlePacket(s, p) = HandlePublish(u, p)
    BY <1>3, <2>1 DEF HandlePacket, AnswerTo
  <2> HIDE DEF u
  <2> QED
    BY <1>1, <1>3, <2>2, HandlePublishOK
<1>4. CASE ~s.failed /\ p \in Replies
  <2>1. p.type = "TOO_LARGE" \/ (p.type \in DOMAIN AnswerTo
                                 /\ p.type # "TOO_LARGE" /\ p.type # "PUBLISH")
    BY <1>4 DEF Replies, AnswerTo
  <2>2. CASE p.type = "TOO_LARGE"
    <3>1. HandlePacket(s, p) = Failed(s, "RECV_BUFFER_TOO_SMALL")
      BY <1>4, <2>2 DEF HandlePacket, AnswerTo
    <3>2. "RECV_BUFFER_TOO_SMALL" \in Errors \ {"OK"}
      BY DEF Errors
    <3> QED
      BY <3>1, <3>2, FailedOK DEF Handled
  <2>3. CASE p.type \in DOMAIN AnswerTo /\ p.type # "TOO_LARGE" /\ p.type # "PUBLISH"
    <3>1. HandlePacket(s, p) = HandleAnswer(u, p)
      BY <1>4, <2>3 DEF HandlePacket, AnswerTo
    <3> HIDE DEF u
    <3> QED
      BY <1>1, <1>4, <2>3, <3>1, HandleAnswerOK
  <2> QED
    BY <2>1, <2>2, <2>3
<1> QED
  BY <1>2, <1>3, <1>4 DEF Incoming

\* __mqtt_recv(): what the client may become, one packet after the other.  K is
\* any set of clients that no packet leads out of.
LEMMA ReceiveOK ==
  ASSUME NEW c, ClientOK(c), NEW E \in SUBSET Incoming, NEW packets \in Seq(E),
         NEW K, c \in K,
         \A d \in K, e \in ClientRecord, p \in E :
           ClientOK(d) /\ ClientOK(e) /\ Handled(d, e, p) => e \in K
  PROVE  ReceivedOK(Receive(c, packets)) /\ Receive(c, packets).client \in K
<1> DEFINE T == {s \in Received : ReceivedOK(s) /\ s.client \in K}
<1>1. Started(c) \in T
  <2>1. Started(c) \in Received /\ Started(c).client = c
    BY DEF Started, Received, ClientOK
  <2> QED
    BY <2>1 DEF ReceivedOK
<1>2. ASSUME NEW s \in T, NEW p \in E PROVE HandlePacket(s, p) \in T
  <2>1. ReceivedOK(s) /\ s.client \in K /\ p \in Incoming
    OBVIOUS
  <2> DEFINE t == HandlePacket(s, p)
  <2>2. ReceivedOK(t) /\ Handled(s.client, t.client, p)
    BY <2>1, HandlePacketOK
  <2> HIDE DEF t
  <2>3. /\ t \in Received /\ t.client \in ClientRecord
        /\ ClientOK(t.client) /\ ClientOK(s.client)
    BY <2>1, <2>2 DEF ReceivedOK, ClientOK
  <2>4. t.client \in K
    BY <2>1, <2>2, <2>3
  <2> QED
    BY <2>2, <2>3, <2>4 DEF t
<1> DEFINE last == FoldLeft(HandlePacket, Started(c), packets)
<1>3. last \in T
  <2> HIDE DEF T
  <2>1. PICK at \in [0..Len(packets) -> T] :
          FoldsTo(at, Len(packets), Started(c), last)
    BY <1>1, <1>2, HandlePacketTrace
  <2>2. Len(packets) \in 0..Len(packets)
    OBVIOUS
  <2> QED
    BY <2>1, <2>2 DEF FoldsTo
<1>4. last = Receive(c, packets)
  BY DEF Receive
<1> HIDE DEF last
<1> QED
  BY <1>3, <1>4

(* __mqtt_send() *)

SendState == [client : ClientRecord, budget : Nat, stopped : BOOLEAN,
              sent : Seq(Queued)]

SendOK(s, n) == s \in SendState /\ ClientOK(s.client) /\ Len(s.client.queue) = n

\* Where the socket goes on with the i-th packet, how far it gets, and what is
\* known of the packet then.
Offset(s, i) == IF IsLate(s.client.queue[i]) THEN 0 ELSE s.client.offset

Bytes(s, i) == LET left == s.client.queue[i].size - Offset(s, i)
               IN IF s.budget < left THEN s.budget ELSE left

IsWhole(s, i) == Offset(s, i) + Bytes(s, i) = s.client.queue[i].size

After(s, i) == AfterSending(s.client.queue[i], Offset(s, i), Bytes(s, i), IsWhole(s, i))

\* What a pass of the loop does with it.
Passes(s, t, i) ==
  LET c == s.client
      d == t.client
      m == c.queue[i]
  IN \/ t = s /\ (s.stopped \/ ~IsDue(m))
     \/ /\ ~s.stopped /\ IsDue(m)
        /\ d.queue = [c.queue EXCEPT ![i] = After(s, i)]
        /\ d.offset = IF IsWhole(s, i) THEN 0 ELSE Offset(s, i) + Bytes(s, i)
        /\ d.timeouts = (c.timeouts \/ IsLate(m))
        /\ d.torn = (c.torn \/ (Bytes(s, i) > 0 /\ Tears(c, m, Offset(s, i))))
        /\ d.curr = c.curr /\ d.pid = c.pid /\ d.error = c.error
        /\ t.stopped = ~IsWhole(s, i)
        /\ t.sent = IF IsWhole(s, i) THEN Append(s.sent, m) ELSE s.sent

\* A packet stays the same one.
SamePacket(m, r) ==
  /\ r.type = m.type /\ r.pid = m.pid /\ r.qos = m.qos /\ r.size = m.size
  /\ r.number = m.number /\ r.start = m.start

LEMMA AfterFacts ==
  ASSUME NEW n \in Nat, NEW s, SendOK(s, n), NEW i \in 1..n
  PROVE  /\ After(s, i) \in Queued /\ SamePacket(s.client.queue[i], After(s, i))
         /\ Offset(s, i) \in Nat /\ Bytes(s, i) \in Int
         /\ s.budget - Bytes(s, i) \in Nat
         /\ ~IsWhole(s, i) => Bytes(s, i) = s.budget
<1> DEFINE c == s.client
           m == c.queue[i]
           offset == Offset(s, i)
           bytes == Bytes(s, i)
<1>1. c \in ClientRecord /\ m \in Queued /\ s.budget \in Nat
  BY ElementOfSeq DEF SendOK, SendState, ClientRecord
<1>2. offset \in Nat /\ m.size \in Nat
  BY <1>1 DEF Offset, ClientRecord, Queued
<1>3. bytes = IF s.budget < m.size - offset THEN s.budget ELSE m.size - offset
  BY DEF Bytes
<1>4. IsWhole(s, i) <=> offset + bytes = m.size
  BY DEF IsWhole
<1>5. /\ bytes \in Int /\ s.budget - bytes \in Nat
      /\ ~IsWhole(s, i) => bytes = s.budget
  <2> HIDE DEF offset, bytes, m
  <2> QED
    BY <1>1, <1>2, <1>3, <1>4
<1>6. After(s, i) \in {[m EXCEPT !.state = StateAfter(m), !.age = 0, !.written = 0],
                       m, [m EXCEPT !.written = offset + bytes]}
      /\ (~IsWhole(s, i) \/ After(s, i) = [m EXCEPT !.state = StateAfter(m), !.age = 0,
                                                    !.written = 0])
  BY DEF After, AfterSending
<1>7. StateAfter(m) \in States
  BY DEF StateAfter, States
<1> HIDE DEF m, c
<1>8. [m EXCEPT !.state = StateAfter(m), !.age = 0, !.written = 0] \in Queued
      /\ SamePacket(m, [m EXCEPT !.state = StateAfter(m), !.age = 0, !.written = 0])
  BY <1>1, <1>7 DEF Queued, SamePacket
<1>9. ASSUME ~IsWhole(s, i)
      PROVE  [m EXCEPT !.written = offset + bytes] \in Queued
             /\ SamePacket(m, [m EXCEPT !.written = offset + bytes])
  <2>1. offset + bytes \in Nat
    <3> HIDE DEF offset, bytes
    <3> QED
      BY <1>1, <1>2, <1>5, <1>9
  <2> QED
    BY <1>1, <2>1 DEF Queued, SamePacket
<1>10. SamePacket(m, m)
  BY DEF SamePacket
<1>11. After(s, i) \in Queued /\ SamePacket(m, After(s, i))
  BY <1>1, <1>6, <1>8, <1>9, <1>10
<1> QED
  BY <1>2, <1>5, <1>11 DEF m, c

LEMMA SendPacketOK ==
  ASSUME NEW n \in Nat, NEW s, SendOK(s, n), NEW i \in 1..n
  PROVE  SendOK(SendPacket(s, i), n) /\ Passes(s, SendPacket(s, i), i)
<1> DEFINE c == s.client
           q == c.queue
           m == q[i]
           t == SendPacket(s, i)
           r == [q EXCEPT ![i] = After(s, i)]
<1>1. s \in SendState /\ c \in ClientRecord /\ q \in Seq(Queued) /\ Len(q) = n
      /\ m \in Queued
  BY ElementOfSeq DEF SendOK, SendState, ClientRecord
<1>2. CASE s.stopped \/ ~IsDue(m)
  <2>1. t = s
    BY <1>2 DEF SendPacket
  <2> HIDE DEF t
  <2> QED
    BY <1>2, <2>1 DEF Passes, t
<1>3. CASE ~s.stopped /\ IsDue(m)
  <2> DEFINE offset == IF IsWhole(s, i) THEN 0 ELSE Offset(s, i) + Bytes(s, i)
             timeouts == c.timeouts \/ IsLate(m)
             torn == c.torn \/ (Bytes(s, i) > 0 /\ Tears(c, m, Offset(s, i)))
             idle == IF IsWhole(s, i) THEN 0 ELSE c.idle
             d == [c EXCEPT !.offset = offset, !.timeouts = timeouts, !.torn = torn,
                            !.idle = idle, !.queue = r]
             sent == IF IsWhole(s, i) THEN Append(s.sent, m) ELSE s.sent
  <2>1. t = [client |-> d, budget |-> s.budget - Bytes(s, i),
             stopped |-> ~IsWhole(s, i), sent |-> sent]
    BY <1>1, <1>3 DEF SendPacket, Offset, Bytes, IsWhole, After, Stops, SendState,
                      ClientRecord
  <2>2. /\ After(s, i) \in Queued /\ SamePacket(m, After(s, i))
        /\ Offset(s, i) \in Nat /\ Bytes(s, i) \in Int
        /\ s.budget - Bytes(s, i) \in Nat
        /\ ~IsWhole(s, i) => Bytes(s, i) = s.budget
    BY AfterFacts
  <2>3. r \in Seq(Queued) /\ Len(r) = n
        /\ \A j \in 1..n : r[j] = IF j = i THEN After(s, i) ELSE q[j]
    BY <1>1, <2>2
  <2>4. offset \in Nat
    <3> HIDE DEF c
    <3>1. s.budget \in Nat
      BY <1>1 DEF SendState
    <3> DEFINE o == Offset(s, i)
    <3>2. o \in Nat
      BY <2>2
    <3> HIDE DEF o
    <3>3. ~IsWhole(s, i) => o + Bytes(s, i) \in Nat
      BY <2>2, <3>1, <3>2
    <3> QED
      BY <3>3 DEF o
  <2>5. timeouts \in BOOLEAN /\ torn \in BOOLEAN /\ idle \in Nat
    BY <1>1 DEF ClientRecord
  <2>6. sent \in Seq(Queued)
    BY <1>1 DEF SendState
  <2> HIDE DEF offset, timeouts, torn, idle, r
  <2>7. /\ d \in ClientRecord /\ d.queue = r /\ d.offset = offset
        /\ d.timeouts = timeouts /\ d.torn = torn /\ d.curr = c.curr
        /\ d.pid = c.pid /\ d.error = c.error
    BY <1>1, <2>3, <2>4, <2>5 DEF ClientRecord
  <2> HIDE DEF d, sent, t
  <2>8. ClientOK(d)
    <3>1. \A j \in 1..Len(q) : d.queue[j].start = q[j].start /\ d.queue[j].size = q[j].size
      BY <1>1, <2>2, <2>3, <2>7 DEF SamePacket
    <3> QED
      BY <1>1, <2>3, <2>7, <3>1, NothingMoved DEF SendOK
  <2>9. IsWhole(s, i) \in BOOLEAN
    BY DEF IsWhole
  <2>10. /\ t \in SendState /\ t.client = d /\ t.stopped = ~IsWhole(s, i)
         /\ t.sent = sent
    BY <2>1, <2>2, <2>6, <2>7, <2>9 DEF SendState
  <2>11. SendOK(t, n)
    BY <2>3, <2>7, <2>8, <2>10 DEF SendOK
  <2>12. Passes(s, t, i)
    BY <1>3, <2>7, <2>10 DEF Passes, r, offset, timeouts, torn, sent
  <2> QED
    BY <2>11, <2>12 DEF t
<1> QED
  BY <1>2, <1>3

\* The loop, pass by pass.
SendStart(c, budget) ==
  [client |-> c, budget |-> budget, stopped |-> FALSE, sent |-> <<>>]

SendLoop(c, budget) == FoldLeftDomain(SendPacket, SendStart(c, budget), c.queue)

IsSendTrace(at, n, c, budget) ==
  /\ at[0] = SendStart(c, budget) /\ at[n] = SendLoop(c, budget)
  /\ \A k \in 0..n : SendOK(at[k], n)
  /\ \A k \in 1..n : Passes(at[k - 1], at[k], k)

LEMMA SendLoopTrace ==
  ASSUME NEW c, ClientOK(c), NEW budget \in Nat, NEW n, n = Len(c.queue)
  PROVE  \E at : IsSendTrace(at, n, c, budget)
<1> DEFINE T == {s \in SendState : SendOK(s, n)}
           base == SendStart(c, budget)
           q == c.queue
<1>1. n \in Nat /\ DOMAIN q = 1..n /\ c \in ClientRecord
  BY DEF ClientOK, ClientRecord
<1>2. base \in T
  <2>1. base \in SendState /\ base.client = c
    BY <1>1 DEF SendStart, SendState
  <2> HIDE DEF base
  <2> QED
    BY <2>1 DEF SendOK
<1>3. ASSUME NEW s \in T, NEW i \in 1..n
      PROVE  SendPacket(s, i) \in T /\ Passes(s, SendPacket(s, i), i)
  <2>1. SendOK(s, n)
    OBVIOUS
  <2>2. SendOK(SendPacket(s, i), n) /\ Passes(s, SendPacket(s, i), i)
    BY <1>1, <2>1, SendPacketOK
  <2> QED
    BY <2>2 DEF SendOK
<1>8. \A s \in T, i \in 1..n : SendPacket(s, i) \in T
  <2> HIDE DEF T
  <2> QED
    BY <1>3
<1> HIDE DEF T, base, q
<1>4. PICK at : SendsThrough(at, n, T, base, q)
  BY <1>1, <1>2, <1>8, SendPacketTrace
<1>5. \A k \in 0..n : SendOK(at[k], n)
  BY <1>4 DEF T, SendsThrough
<1>6. ASSUME NEW k \in 1..n PROVE Passes(at[k - 1], at[k], k)
  <2>1. k - 1 \in 0..n
    BY <1>1
  <2>2. at[k - 1] \in T
    BY <1>4, <2>1 DEF SendsThrough
  <2> QED
    BY <1>3, <1>4, <2>2 DEF SendsThrough
<1>7. IsSendTrace(at, n, c, budget)
  BY <1>4, <1>5, <1>6 DEF IsSendTrace, SendsThrough, SendLoop, base, q
<1> QED
  BY <1>7

\* What the loop leaves, and what it may have sent.
LEMMA SendOutcome ==
  ASSUME NEW c, ClientOK(c), NEW budget \in Nat
  PROVE  /\ SendOK(SendLoop(c, budget), Len(c.queue))
         /\ ClientOK(Send(c, budget).client) /\ Send(c, budget).sent \in Seq(Queued)
<1> DEFINE n == Len(c.queue)
           s == SendLoop(c, budget)
           r == Send(c, budget)
<1>1. n \in Nat
  BY DEF ClientOK, ClientRecord
<1>2. SendOK(s, n)
  <2> HIDE DEF s
  <2>1. PICK at : IsSendTrace(at, n, c, budget)
    BY SendLoopTrace
  <2>2. n \in 0..n
    BY <1>1
  <2> QED
    BY <2>1, <2>2 DEF IsSendTrace, s
<1>3. ClientOK(s.client) /\ s.sent \in Seq(Queued)
  BY <1>2 DEF SendOK, SendState
<1>4. r = [client |-> c, sent |-> <<>>] \/ r = [client |-> KeptAlive(s.client), sent |-> s.sent]
  BY DEF Send, SendLoop, SendStart
<1>5. ClientOK(KeptAlive(s.client))
  <2> HIDE DEF s
  <2> QED
    BY <1>3, CallsOK
<1> HIDE DEF s, r
<1>6. ClientOK(r.client) /\ r.sent \in Seq(Queued)
  <2>1. CASE r = [client |-> c, sent |-> <<>>]
    BY <2>1
  <2>2. CASE r = [client |-> KeptAlive(s.client), sent |-> s.sent]
    BY <1>3, <1>5, <2>2
  <2> QED
    BY <1>4, <2>1, <2>2
<1> QED
  BY <1>2, <1>6 DEF s, r

\* A second passes.
LEMMA AgedOK ==
  ASSUME NEW c, ClientOK(c)
  PROVE  /\ ClientOK(Aged(c)) /\ Len(Aged(c).queue) = Len(c.queue)
         /\ \A i \in 1..Len(c.queue) :
              \/ Aged(c).queue[i] = c.queue[i]
              \/ /\ c.queue[i].state = "awaiting"
                 /\ Aged(c).queue[i] = [c.queue[i] EXCEPT !.age = @ + 1]
         /\ Aged(c) = [c EXCEPT !.queue = Aged(c).queue, !.idle = Aged(c).idle]
<1> DEFINE q == c.queue
           n == Len(q)
           Older(m) == IF m.state = "awaiting" /\ ~IsLate(m)
                       THEN [m EXCEPT !.age = @ + 1] ELSE m
           r == [i \in 1..n |-> Older(q[i])]
           idle == IF c.idle > KeepAlive THEN c.idle ELSE c.idle + 1
           d == Aged(c)
<1>1. c \in ClientRecord /\ q \in Seq(Queued) /\ n \in Nat /\ DOMAIN q = 1..n
      /\ \A i \in 1..n : q[i] \in Queued
  BY ElementOfSeq DEF ClientOK, ClientRecord
<1>2. d = [c EXCEPT !.idle = idle, !.queue = r]
  BY <1>1 DEF Aged, ClientRecord
<1>3. ASSUME NEW i \in 1..n
      PROVE  /\ r[i] \in Queued /\ r[i].start = q[i].start /\ r[i].size = q[i].size
             /\ \/ r[i] = q[i]
                \/ q[i].state = "awaiting" /\ r[i] = [q[i] EXCEPT !.age = @ + 1]
  <2> DEFINE m == q[i]
  <2>1. m \in Queued /\ r[i] = Older(m)
    BY <1>1
  <2> HIDE DEF m
  <2>2. /\ Older(m) \in Queued /\ Older(m).start = m.start /\ Older(m).size = m.size
        /\ \/ Older(m) = m
           \/ m.state = "awaiting" /\ Older(m) = [m EXCEPT !.age = @ + 1]
    <3>1. m.age + 1 \in Nat
      BY <2>1 DEF Queued
    <3>2. CASE m.state = "awaiting" /\ ~IsLate(m)
      <4>1. Older(m) = [m EXCEPT !.age = m.age + 1]
        BY <2>1, <3>2
      <4> QED
        BY <2>1, <3>1, <3>2, <4>1 DEF Queued
    <3>3. CASE ~(m.state = "awaiting" /\ ~IsLate(m))
      BY <2>1, <3>3
    <3> QED
      BY <3>2, <3>3
  <2> HIDE DEF Older
  <2> QED
    BY <2>1, <2>2 DEF m
<1> HIDE DEF d
<1>4. r \in [1..n -> Queued]
  <2> HIDE DEF r
  <2>1. r = [i \in 1..n |-> r[i]]
    BY DEF r
  <2> QED
    BY <1>3, <2>1
<1>5. r \in Seq(Queued) /\ Len(r) = n
  <2> HIDE DEF r, n
  <2> QED
    BY <1>1, <1>4
<1>6. idle \in Nat
  BY <1>1 DEF ClientRecord
<1> HIDE DEF idle, r, q
<1>7. d \in ClientRecord /\ d.queue = r /\ d.idle = idle /\ d.curr = c.curr
  BY <1>1, <1>2, <1>5, <1>6 DEF ClientRecord
<1>8. \A i \in 1..Len(c.queue) : /\ d.queue[i].start = c.queue[i].start
                                 /\ d.queue[i].size = c.queue[i].size
  BY <1>3, <1>7 DEF q, n
<1>9. ClientOK(d)
  BY <1>5, <1>7, <1>8, NothingMoved DEF q, n
<1>10. d = [c EXCEPT !.queue = d.queue, !.idle = d.idle]
  BY <1>2, <1>7, <1>1 DEF ClientRecord
<1> QED
  BY <1>3, <1>5, <1>7, <1>9, <1>10 DEF d, q, n

(* What the broker sends back *)

\* A sequence of sequences put together one after the other.
Joins(at, n, seqs, S) ==
  /\ at[0] = <<>> /\ at[n] = FlattenSeq(seqs)
  /\ \A k \in 0..n : at[k] \in Seq(S)
  /\ \A k \in 1..n : at[k] = at[k - 1] \o seqs[k]

LEMMA FlattenTrace ==
  ASSUME NEW S, NEW n \in Nat, NEW seqs \in [1..n -> Seq(S)]
  PROVE  \E at : Joins(at, n, seqs, S)
<1> DEFINE T == Seq(S)
           step == [x \in T \X T |-> x[1] \o x[2]]
<1>1. step \in [T \X T -> T] /\ \A x \in T, y \in T : step[<<x, y>>] = x \o y
  <2>1. \A x \in T, y \in T : x \o y \in T
    BY ConcatProperties
  <2> QED
    BY <2>1
<1>2. <<>> \in T /\ Len(seqs) = n
  OBVIOUS
<1> HIDE DEF T, step
<1>3. seqs \in [1..n -> T]
  BY DEF T
<1>4. PICK g \in [SUBSET (1..n) -> T] : Unwinds(g, n, <<>>, step, seqs)
  BY <1>1, <1>2, <1>3, FoldExists
<1>5. Unfolded(g, n, T, <<>>, step, seqs)
  BY <1>4 DEF Unwinds, Unfolded
<1>6. PICK at \in [0..n -> T] : at[n] = g[1..n] /\ Trace(at, n, <<>>, step, seqs)
  BY <1>1, <1>2, <1>3, <1>5, TraceOf
<1>7. ASSUME NEW k \in 1..n PROVE at[k] = at[k - 1] \o seqs[k]
  <2>1. k - 1 \in 0..n
    OBVIOUS
  <2>2. at[k - 1] \in T /\ seqs[k] \in T
    BY <1>3, <2>1
  <2> QED
    BY <1>1, <1>6, <2>2 DEF Trace
<1>8. at[0] = <<>>
  BY <1>6 DEF Trace
<1>9. FlattenSeq(seqs) = at[n]
  <2>1. CASE n = 0
    <3>1. seqs = <<>>
      BY <2>1
    <3> QED
      BY <1>2, <1>8, <2>1, <3>1 DEF FlattenSeq
  <2>2. CASE n # 0
    <3> DEFINE Is(f) == f = [i \in 1..n |-> IF i = 1 THEN seqs[i] ELSE f[i - 1] \o seqs[i]]
               h == [i \in 1..n |-> at[i]]
               flatten == CHOOSE f : Is(f)
    <3>1. Is(h)
      <4>1. ASSUME NEW i \in 1..n
            PROVE  h[i] = IF i = 1 THEN seqs[i] ELSE h[i - 1] \o seqs[i]
        <5>1. CASE i = 1
          <6>1. at[1] = at[0] \o seqs[1] /\ seqs[1] \in T
            BY <1>3, <1>7, <5>1
          <6>2. at[1] = seqs[1]
            BY <1>8, <6>1, ConcatEmptySeq DEF T
          <6> QED
            BY <5>1, <6>2
        <5>2. CASE i # 1
          <6>1. i - 1 \in 1..n
            BY <5>2
          <6> QED
            BY <1>7, <5>2, <6>1
        <5> QED
          BY <5>1, <5>2
      <4> QED
        BY <4>1
    <3>2. Is(flatten)
      <4> HIDE DEF Is
      <4> QED
        BY <3>1
    <3>3. FlattenSeq(seqs) = flatten[n]
      BY <1>2, <2>2 DEF FlattenSeq
    <3> HIDE DEF flatten
    <3> DEFINE P == {k \in 0..n : k = 0 \/ flatten[k] = at[k]}
    <3>4. \A k \in 1..n : k - 1 \in P => k \in P
      <4> SUFFICES ASSUME NEW k \in 1..n, k - 1 \in P PROVE flatten[k] = at[k]
        OBVIOUS
      <4>1. flatten[k] = IF k = 1 THEN seqs[k] ELSE flatten[k - 1] \o seqs[k]
        BY <3>2
      <4>2. CASE k = 1
        <5>1. at[1] = at[0] \o seqs[1] /\ seqs[1] \in T
          BY <1>3, <1>7, <4>2
        <5>2. at[1] = seqs[1]
          BY <1>8, <5>1, ConcatEmptySeq DEF T
        <5> QED
          BY <4>1, <4>2, <5>2
      <4>3. CASE k # 1
        <5>1. flatten[k - 1] = at[k - 1]
          BY <4>3
        <5> QED
          BY <1>7, <4>1, <4>3, <5>1
      <4> QED
        BY <4>2, <4>3
    <3>5. 0 \in P /\ P \in SUBSET (0..n)
      OBVIOUS
    <3>6. n \in P
      <4> HIDE DEF P
      <4>1. P = 0..n
        BY <3>4, <3>5, AllUpTo
      <4> QED
        BY <4>1
    <3> QED
      BY <2>2, <3>3, <3>6
  <2> QED
    BY <2>1, <2>2
<1>10. \A k \in 0..n : at[k] \in Seq(S)
  BY <1>6 DEF T
<1>11. Joins(at, n, seqs, S)
  BY <1>7, <1>8, <1>9, <1>10 DEF Joins
<1> QED
  BY <1>11

\* The answers are made of those to each packet.
LEMMA AnswersJoin ==
  ASSUME NEW S, NEW sent \in Seq(Queued), NEW refuses, NEW n, n = Len(sent),
         \A i \in 1..n : Answer(sent[i], refuses) \in Seq(S)
  PROVE  /\ n \in Nat
         /\ \E at : Joins(at, n, [i \in 1..n |-> Answer(sent[i], refuses)], S)
         /\ Answers(sent, refuses) = FlattenSeq([i \in 1..n |-> Answer(sent[i], refuses)])
<1> DEFINE seqs == [i \in 1..n |-> Answer(sent[i], refuses)]
<1>1. n \in Nat /\ DOMAIN sent = 1..n
  OBVIOUS
<1>2. seqs \in [1..n -> Seq(S)]
  OBVIOUS
<1>3. Answers(sent, refuses) = FlattenSeq(seqs)
  BY <1>1 DEF Answers
<1> HIDE DEF seqs
<1>4. \E at : Joins(at, n, seqs, S)
  BY <1>1, <1>2, FlattenTrace
<1> QED
  BY <1>1, <1>3, <1>4 DEF seqs

LEMMA AnswersIn ==
  ASSUME NEW S, NEW sent \in Seq(Queued), NEW refuses,
         \A i \in 1..Len(sent) : Answer(sent[i], refuses) \in Seq(S)
  PROVE  Answers(sent, refuses) \in Seq(S)
<1> DEFINE n == Len(sent)
           seqs == [i \in 1..n |-> Answer(sent[i], refuses)]
<1>1. n \in Nat /\ (\E at : Joins(at, n, seqs, S)) /\ Answers(sent, refuses) = FlattenSeq(seqs)
  BY AnswersJoin
<1> HIDE DEF n, seqs
<1>2. PICK at : Joins(at, n, seqs, S)
  BY <1>1
<1>3. n \in 0..n
  BY <1>1
<1> QED
  BY <1>1, <1>2, <1>3 DEF Joins

LEMMA AnswerIsReply ==
  ASSUME NEW m \in Queued, NEW refuses
  PROVE  /\ Answer(m, refuses) \in Seq(Replies)
         /\ \/ Answer(m, refuses) = <<>>
            \/ \E r \in Replies : /\ Answer(m, refuses) = <<r>>
                                  /\ r.type \in DOMAIN AnswerTo
                                  /\ AnswerTo[r.type] = m.type
                                  /\ \/ r.pid = NoPid /\ m.type \in {"CONNECT", "PINGREQ"}
                                     \/ r.pid = m.pid /\ m.type = "SUBSCRIBE"
                                     \/ /\ r.pid = m.pid
                                        /\ m.type = "PUBLISH" /\ m.qos = 1
<1>1. m.pid \in Nat /\ m.type \in PacketTypes /\ m.qos \in {0, 1} /\ NoPid \in Nat
  BY DEF Queued, NoPid
<1>2. CASE m.type = "CONNECT"
  <2>1. Answer(m, refuses) = <<Connack(refuses)>>
    BY <1>2 DEF Answer
  <2>2. /\ Connack(refuses) \in Replies /\ Connack(refuses).pid = NoPid
        /\ Connack(refuses).type \in DOMAIN AnswerTo
        /\ AnswerTo[Connack(refuses).type] = m.type
    BY <1>1, <1>2 DEF Connack, Answering, Replies, AnswerTo
  <2> QED
    BY <1>2, <2>1, <2>2
<1>3. CASE m.type = "SUBSCRIBE"
  <2>1. Answer(m, refuses) = <<Suback(m.pid)>>
    BY <1>3 DEF Answer
  <2>2. /\ Suback(m.pid) \in Replies /\ Suback(m.pid).pid = m.pid
        /\ Suback(m.pid).type \in DOMAIN AnswerTo
        /\ AnswerTo[Suback(m.pid).type] = m.type
    BY <1>1, <1>3 DEF Suback, Answering, Replies, AnswerTo
  <2> QED
    BY <1>3, <2>1, <2>2
<1>4. CASE m.type = "PUBLISH" /\ m.qos = 1
  <2>1. Answer(m, refuses) = <<Puback(m.pid)>>
    BY <1>4 DEF Answer
  <2>2. /\ Puback(m.pid) \in Replies /\ Puback(m.pid).pid = m.pid
        /\ Puback(m.pid).type \in DOMAIN AnswerTo
        /\ AnswerTo[Puback(m.pid).type] = m.type
    BY <1>1, <1>4 DEF Puback, Answering, Replies, AnswerTo
  <2> QED
    BY <1>4, <2>1, <2>2
<1>5. CASE m.type = "PINGREQ"
  <2>1. Answer(m, refuses) = <<Pingresp>>
    BY <1>5 DEF Answer
  <2>2. /\ Pingresp \in Replies /\ Pingresp.pid = NoPid
        /\ Pingresp.type \in DOMAIN AnswerTo
        /\ AnswerTo[Pingresp.type] = m.type
    BY <1>1, <1>5 DEF Pingresp, Answering, Replies, AnswerTo
  <2> QED
    BY <1>5, <2>1, <2>2
<1>6. CASE /\ m.type \notin {"CONNECT", "SUBSCRIBE", "PINGREQ"}
           /\ ~(m.type = "PUBLISH" /\ m.qos = 1)
  <2>1. Answer(m, refuses) = <<>>
    BY <1>6 DEF Answer
  <2> QED
    BY <2>1
<1> QED
  BY <1>2, <1>3, <1>4, <1>5, <1>6

LEMMA AnswersAreReplies ==
  ASSUME NEW sent \in Seq(Queued), NEW refuses
  PROVE  Answers(sent, refuses) \in Seq(Incoming)
<1>1. ASSUME NEW i \in 1..Len(sent) PROVE Answer(sent[i], refuses) \in Seq(Incoming)
  <2>1. Answer(sent[i], refuses) \in Seq(Replies)
    BY AnswerIsReply, ElementOfSeq
  <2> QED
    BY <2>1 DEF Incoming
<1> QED
  BY <1>1, AnswersIn

(* The transport: what its variables may be *)

TransportOK ==
  /\ stage \in {"connecting", "up", "failed", "closed"} /\ tries \in 0..3
  /\ link \in BOOLEAN /\ offered \in 0..Len(Offers)
  /\ accepted \in Seq({0, 1})
  /\ on_the_way \in Seq(Incoming)
  /\ ClientOK(client)
  /\ RingOK(TheRing, queue_tail)

LEMMA TransportNumbers ==
  /\ Budgets \subseteq Nat /\ Memory \in Nat /\ Sizes \subseteq Nat \ {0}
  /\ Garbage \subseteq Nat
BY MqttTransportAssumption, ClientNumbers

LEMMA NewClientOK ==
  ASSUME NEW idle \in Nat
  PROVE  ClientOK(NewClient(idle)) /\ ClientOK(Connect(NewClient(idle)))
<1> DEFINE c == NewClient(idle)
<1>1. /\ c \in ClientRecord /\ c.queue = <<>> /\ c.curr = 0
  BY ClientNumbers DEF NewClient, ClientRecord, Errors
<1> HIDE DEF c
<1>2. Len(c.queue) = 0 /\ 0 * Header = 0
  BY <1>1, ClientNumbers
<1>3. ClientOK(c)
  BY <1>1, <1>2, ClientNumbers DEF ClientOK, Packed, Fits, Ends
<1> QED
  BY <1>3, CallsOK DEF c

LEMMA TransportInitOK == ASSUME TransportInit PROVE TransportOK
<1>1. KeepAlive + 1 \in Nat
  BY ClientNumbers
<1>2. ClientOK(client)
  BY <1>1, NewClientOK DEF TransportInit
<1>3. RingOK(TheRing, queue_tail)
  <2>1. /\ queue = [i \in Index |-> Nothing] /\ queue_head = 0 /\ queue_tail = 0
        /\ queue_count = 0
    BY DEF TransportInit
  <2>2. 0 \in Index /\ 0 \in 0..Slots /\ (0 + 0) % Slots = 0
    BY SlotsFacts
  <2>3. TheRing \in RingRecord
    BY <2>1, <2>2 DEF TheRing, RingRecord
  <2> QED
    BY <2>1, <2>2, <2>3 DEF RingOK, TheRing
<1>4. 0 \in 0..Len(Offers)
  BY SlotsFacts
<1> QED
  BY <1>2, <1>3, <1>4 DEF TransportInit, TransportOK

\* mqtt_sync(): a step of the loop that receives and sends.
LEMMA ReceivedAndSent ==
  ASSUME NEW c, ClientOK(c), on_the_way \in Seq(Incoming), NEW k \in 0..Len(on_the_way),
         NEW budget \in Budgets, NEW stops \in BOOLEAN,
         NEW r, r = Receive(c, Whole(on_the_way, k)),
         NEW s, s = IF r.failed \/ stops THEN [client |-> r.client, sent |-> <<>>]
                    ELSE Send(r.client, budget)
  PROVE  ReceivedOK(r) /\ ClientOK(s.client) /\ s.sent \in Seq(Queued)
<1>1. Whole(on_the_way, k) \in Seq(Incoming)
  <2>1. \A i \in 1..k : on_the_way[i] \in Incoming
    BY ElementOfSeq
  <2> QED
    BY <2>1, SubSeqProperties DEF Whole
<1>2. ReceivedOK(r)
  <2> DEFINE packets == Whole(on_the_way, k)
             K == ClientRecord
  <2>1. c \in K /\ packets \in Seq(Incoming) /\ Incoming \in SUBSET Incoming
    BY <1>1 DEF ClientOK
  <2>2. \A d \in K, e \in ClientRecord, p \in Incoming :
          ClientOK(d) /\ ClientOK(e) /\ Handled(d, e, p) => e \in K
    OBVIOUS
  <2> HIDE DEF packets, K
  <2>3. ReceivedOK(Receive(c, packets))
    BY <2>1, <2>2, ReceiveOK
  <2> QED
    BY <2>3 DEF packets
<1>3. ClientOK(r.client) /\ budget \in Nat
  BY <1>2, TransportNumbers DEF ReceivedOK
<1>4. ClientOK(Send(r.client, budget).client) /\ Send(r.client, budget).sent \in Seq(Queued)
  BY <1>3, SendOutcome
<1>5. CASE r.failed \/ stops
  <2>1. s = [client |-> r.client, sent |-> <<>>]
    BY <1>5
  <2>2. s.client = r.client /\ s.sent = <<>>
    BY <2>1
  <2>3. <<>> \in Seq(Queued)
    OBVIOUS
  <2>4. ClientOK(s.client)
    BY <1>3, <2>2
  <2> QED
    BY <1>2, <2>2, <2>3, <2>4
<1>6. CASE ~(r.failed \/ stops)
  <2>1. s = Send(r.client, budget)
    BY <1>6
  <2> QED
    BY <1>2, <1>4, <2>1
<1> QED
  BY <1>5, <1>6

LEMMA ReachOK ==
  ASSUME NEW s, s.sent \in Seq(Queued), NEW rest \in Seq(Incoming), NEW refuses,
         Reach(s, rest, refuses)
  PROVE  on_the_way' \in Seq(Incoming)
<1> DEFINE arrived == IF s.client.torn THEN <<>> ELSE s.sent
<1>1. arrived \in Seq(Queued)
  <2>1. <<>> \in Seq(Queued)
    OBVIOUS
  <2> QED
    BY <2>1
<1>2. on_the_way' = rest \o Answers(arrived, refuses)
  BY DEF Reach
<1> HIDE DEF arrived
<1>3. Answers(arrived, refuses) \in Seq(Incoming)
  BY <1>1, AnswersAreReplies
<1> QED
  BY <1>2, <1>3, ConcatProperties

LEMMA RestOK ==
  ASSUME on_the_way \in Seq(Incoming), NEW n \in Nat
  PROVE  Rest(n) \in Seq(Incoming)
<1>1. \A i \in (n + 1)..Len(on_the_way) : on_the_way[i] \in Incoming
  BY ElementOfSeq
<1>2. n + 1 \in Int /\ Len(on_the_way) \in Int
  OBVIOUS
<1> QED
  BY <1>1, <1>2, SubSeqProperties DEF Rest

LEMMA ConnectionStepOK ==
  ASSUME TransportOK
  PROVE  /\ Offer => TransportOK' /\ UNCHANGED ring
         /\ Break => TransportOK' /\ UNCHANGED ring
         /\ TransportTick => TransportOK' /\ UNCHANGED ring
         /\ Reopen => TransportOK' /\ UNCHANGED ring
         /\ SyncFails => TransportOK' /\ UNCHANGED ring
<1>0. /\ UNCHANGED ring => (RingOK(TheRing, queue_tail))'
      /\ ClientOK(client) /\ on_the_way \in Seq(Incoming)
  BY DEF TransportOK, ring, RingOK, TheRing, SlotAt
<1>1. ASSUME Offer PROVE TransportOK' /\ UNCHANGED ring
  <2> DEFINE o == Offers[offered']
             p == IF o.kind = "TOO_LARGE" THEN TooLarge
                  ELSE Message(offered', o.qos, offered')
  <2>1. offered' \in 1..Len(Offers) /\ offered' \in DOMAIN Offers
    BY <1>1, SlotsFacts DEF TransportOK, Offer
  <2>2. o \in OfferRecord
    BY <2>1, SlotsFacts
  <2>3. p \in Incoming
    <3>1. CASE o.kind = "TOO_LARGE"
      BY <3>1 DEF Incoming, Replies, TooLarge, Answering, NoPid
    <3>2. CASE o.kind # "TOO_LARGE"
      <4>1. offered' \in Given /\ offered' \in 0..Len(Offers) /\ o.qos \in {0, 1}
            /\ 0 \in 0..Len(Offers)
        BY <2>1, <2>2, <3>2, SlotsFacts DEF Given, OfferRecord
      <4>2. Message(offered', o.qos, offered') \in Deliveries
        BY <4>1 DEF Message, Deliveries, NoPid
      <4> QED
        BY <3>2, <4>2 DEF Incoming
    <3> QED
      BY <3>1, <3>2
  <2>4. on_the_way' = Append(on_the_way, p)
    BY <1>1 DEF Offer
  <2> HIDE DEF p
  <2>5. on_the_way' \in Seq(Incoming)
    BY <1>0, <2>3, <2>4, AppendProperties
  <2>6. offered' \in 0..Len(Offers)
    BY <2>1
  <2> QED
    BY <1>0, <1>1, <2>5, <2>6 DEF Offer, TransportOK
<1>2. ASSUME Break PROVE TransportOK' /\ UNCHANGED ring
  <2>1. <<>> \in Seq(Incoming)
    OBVIOUS
  <2> QED
    BY <1>0, <1>2, <2>1 DEF Break, TransportOK
<1>3. ASSUME TransportTick PROVE TransportOK' /\ UNCHANGED ring
  <2>1. ClientOK(client')
    BY <1>0, <1>3, AgedOK DEF TransportTick
  <2>2. UNCHANGED <<stage, tries, link, on_the_way, offered, accepted, ring>>
    BY <1>3 DEF TransportTick
  <2>3. UNCHANGED ring /\ RingOK(TheRing, queue_tail)'
    BY <1>0, <2>2
  <2> QED
    BY <2>1, <2>2, <2>3 DEF TransportOK
<1>4. ASSUME Reopen PROVE TransportOK' /\ UNCHANGED ring
  <2>1. client.idle \in Nat
    BY <1>0 DEF ClientOK, ClientRecord
  <2>2. ClientOK(client')
    BY <1>0, <1>4, <2>1, NewClientOK DEF Reopen
  <2>3. tries' \in 0..3
    BY <1>4 DEF Reopen, TransportOK
  <2> QED
    BY <1>0, <1>4, <2>2, <2>3 DEF Reopen, TransportOK
<1>5. ASSUME SyncFails PROVE TransportOK' /\ UNCHANGED ring
  <2>1. client' = WithError(client, "SOCKET_ERROR")
    BY <1>5 DEF SyncFails, WithError
  <2>2. ClientOK(client')
    BY <1>0, <2>1, ErrorOK DEF Errors
  <2> QED
    BY <1>0, <1>5, <2>2 DEF SyncFails, TransportOK
<1> QED
  BY <1>1, <1>2, <1>3, <1>4, <1>5

LEMMA OpenOK ==
  ASSUME TransportOK, NEW budget \in Budgets, NEW refuses \in BOOLEAN,
         Open(budget, refuses)
  PROVE  TransportOK' /\ UNCHANGED ring
<1> DEFINE s == Send(client, budget)
<1>1. ClientOK(client) /\ on_the_way \in Seq(Incoming) /\ budget \in Nat
  BY TransportNumbers DEF TransportOK
<1>2. ClientOK(s.client) /\ s.sent \in Seq(Queued)
  BY <1>1, SendOutcome
<1>3. PICK stale \in Garbage :
        /\ client' = Publish(Subscribe(s.client, stale), stale, 1, 1, 1)
        /\ Reach(s, on_the_way, refuses)
  BY DEF Open
<1> HIDE DEF s
<1>4. ClientOK(client')
  <2>1. stale \in Nat /\ 1 \in {0, 1} /\ 1 \in Nat \ {0} /\ 1 \in Nat
    BY TransportNumbers
  <2>2. ClientOK(Subscribe(s.client, stale))
    BY <1>2, <2>1, CallsOK
  <2> QED
    BY <1>3, <2>1, <2>2, CallsOK
<1>5. on_the_way' \in Seq(Incoming)
  BY <1>1, <1>2, <1>3, ReachOK
<1>6. (RingOK(TheRing, queue_tail))' /\ UNCHANGED ring
  BY DEF TransportOK, Open, ring, RingOK, TheRing, SlotAt
<1>7. accepted' \in Seq({0, 1})
  BY DEF Open
<1> QED
  BY <1>4, <1>5, <1>6, <1>7 DEF Open, TransportOK

LEMMA PublishMessageOK ==
  ASSUME TransportOK, NEW qos \in {0, 1}, NEW size \in Sizes, NEW stale \in Garbage,
         PublishMessage(qos, size, stale)
  PROVE  TransportOK' /\ UNCHANGED ring
<1>1. ClientOK(client) /\ accepted \in Seq({0, 1})
  BY DEF TransportOK
<1>2. stale \in Nat /\ size \in Nat \ {0} /\ Len(accepted) + 1 \in Nat
  BY <1>1, TransportNumbers
<1>3. ClientOK(client')
  BY <1>1, <1>2, CallsOK DEF PublishMessage
<1>4. accepted' \in Seq({0, 1})
  BY <1>1 DEF PublishMessage
<1>5. (RingOK(TheRing, queue_tail))' /\ UNCHANGED ring
  BY DEF TransportOK, PublishMessage, ring, RingOK, TheRing, SlotAt
<1> QED
  BY <1>3, <1>4, <1>5 DEF PublishMessage, TransportOK

LEMMA SyncOK ==
  ASSUME TransportOK, NEW k \in 0..Len(on_the_way), NEW budget \in Budgets,
         NEW refuses \in BOOLEAN, Sync(k, budget, refuses)
  PROVE  /\ TransportOK'
         /\ queue_tail' = queue_tail /\ Extends(TheRing', TheRing, queue_tail)
<1> DEFINE r == Receive(client, Whole(on_the_way, k))
           s == IF r.failed THEN [client |-> r.client, sent |-> <<>>]
                ELSE Send(r.client, budget)
<1>1. ClientOK(client) /\ on_the_way \in Seq(Incoming) /\ RingOK(TheRing, queue_tail)
  BY DEF TransportOK
<1>2. ReceivedOK(r) /\ ClientOK(s.client) /\ s.sent \in Seq(Queued)
  <2>1. s = IF r.failed \/ FALSE THEN [client |-> r.client, sent |-> <<>>]
            ELSE Send(r.client, budget)
    OBVIOUS
  <2>2. r = Receive(client, Whole(on_the_way, k)) /\ FALSE \in BOOLEAN
    OBVIOUS
  <2> HIDE DEF s, r
  <2> QED
    BY <1>1, <2>1, <2>2, ReceivedAndSent
<1>3. client' = s.client /\ Reach(s, Rest(r.read), refuses) /\ Filled(r.out)
  BY DEF Sync
<1> HIDE DEF s, r
<1>4. r.read \in Nat /\ r.out \in Seq(Deliveries)
  BY <1>2 DEF ReceivedOK, Received
<1>5. on_the_way' \in Seq(Incoming)
  BY <1>1, <1>2, <1>3, <1>4, RestOK, ReachOK
<1>6. /\ RingOK(TheRing', queue_tail') /\ queue_tail' = queue_tail
      /\ Extends(TheRing', TheRing, queue_tail)
  BY <1>1, <1>3, <1>4, FilledKeeps
<1>7. RingOK(TheRing, queue_tail)'
  BY <1>6 DEF RingOK, SlotAt, RingRecord, Index
<1> QED
  BY <1>2, <1>3, <1>5, <1>6, <1>7 DEF Sync, TransportOK

LEMMA CloseOK ==
  ASSUME TransportOK, NEW k \in 0..Len(on_the_way), NEW budget \in Budgets,
         Close(k, budget)
  PROVE  /\ TransportOK'
         /\ queue_tail' = queue_tail /\ Extends(TheRing', TheRing, queue_tail)
<1> DEFINE r == Receive(Disconnect(client), Whole(on_the_way, k))
           s == IF r.failed \/ ~link THEN [client |-> r.client, sent |-> <<>>]
                ELSE Send(r.client, budget)
<1>1. ClientOK(Disconnect(client)) /\ on_the_way \in Seq(Incoming)
      /\ RingOK(TheRing, queue_tail)
  BY CallsOK DEF TransportOK
<1>2. ReceivedOK(r) /\ ClientOK(s.client) /\ s.sent \in Seq(Queued)
  <2>1. s = IF r.failed \/ ~link THEN [client |-> r.client, sent |-> <<>>]
            ELSE Send(r.client, budget)
    OBVIOUS
  <2>2. r = Receive(Disconnect(client), Whole(on_the_way, k)) /\ (~link) \in BOOLEAN
    OBVIOUS
  <2> HIDE DEF s, r
  <2> QED
    BY <1>1, <2>1, <2>2, ReceivedAndSent
<1>3. client' = s.client /\ Reach(s, Rest(r.read), FALSE) /\ Filled(r.out)
  BY DEF Close
<1> HIDE DEF s, r
<1>4. r.read \in Nat /\ r.out \in Seq(Deliveries)
  BY <1>2 DEF ReceivedOK, Received
<1>5. on_the_way' \in Seq(Incoming)
  BY <1>1, <1>2, <1>3, <1>4, RestOK, ReachOK
<1>6. /\ RingOK(TheRing', queue_tail') /\ queue_tail' = queue_tail
      /\ Extends(TheRing', TheRing, queue_tail)
  BY <1>1, <1>3, <1>4, FilledKeeps
<1>7. RingOK(TheRing, queue_tail)'
  BY <1>6 DEF RingOK, SlotAt, RingRecord, Index
<1> QED
  BY <1>2, <1>3, <1>5, <1>6, <1>7 DEF Close, TransportOK

LEMMA AdvanceOK ==
  ASSUME TransportOK, queue_count > 0, Advance
  PROVE  /\ TransportOK' /\ UNCHANGED connVars
         /\ queue_count' = queue_count - 1
         /\ \A i \in 1..queue_count' :
              SlotAt(TheRing', queue_tail', i) = SlotAt(TheRing, queue_tail, i + 1)
<1> DEFINE S == Slots
           tail == queue_tail
           c == queue_count
<1>1. RingOK(TheRing, tail)
  BY DEF TransportOK
<1>2. /\ S \in Nat /\ S > 0 /\ tail \in 0..(S - 1) /\ c \in 0..S /\ c > 0
      /\ queue_head = (tail + c) % S /\ queue_head \in Index
      /\ queue \in [Index -> Slot \union {Nothing}]
      /\ \A i \in 1..c : queue[(tail + i - 1) % S] \in Slot
  BY <1>1, SlotsFacts DEF RingOK, RingRecord, TheRing, SlotAt
<1>3. tail' = (tail + 1) % S /\ c' = c - 1 /\ UNCHANGED <<queue, queue_head, connVars>>
  BY DEF Advance
<1> DEFINE t == (tail + 1) % S
<1>4. /\ t \in 0..(S - 1) /\ (tail + c) % S = (t + (c - 1)) % S
      /\ c - 1 \in 0..S
  <2> HIDE DEF S, tail, c
  <2> QED
    BY <1>2
<1>5. ASSUME NEW i \in 1..(c - 1)
      PROVE  (t + i - 1) % S = (tail + (i + 1) - 1) % S /\ i + 1 \in 1..c
  <2> HIDE DEF S, tail, c
  <2> QED
    BY <1>2
<1>6. \A i \in 1..(c - 1) : queue[(t + i - 1) % S] = queue[(tail + (i + 1) - 1) % S]
  BY <1>5
<1>7. \A i \in 1..(c - 1) : queue[(t + i - 1) % S] \in Slot
  BY <1>2, <1>5
<1>8. TheRing' = [queue |-> queue, head |-> queue_head, count |-> c - 1]
  BY <1>3 DEF TheRing
<1>9. RingOK(TheRing', tail')
  BY <1>2, <1>3, <1>4, <1>7, <1>8 DEF RingOK, RingRecord, SlotAt, Index
<1>10. RingOK(TheRing, queue_tail)'
  BY <1>9 DEF RingOK, SlotAt, RingRecord, Index
<1>11. \A i \in 1..c' : SlotAt(TheRing', tail', i) = SlotAt(TheRing, tail, i + 1)
  BY <1>3, <1>6, <1>8 DEF SlotAt, TheRing
<1> QED
  BY <1>3, <1>10, <1>11 DEF TransportOK, connVars

LEMMA TransportStepOK ==
  ASSUME TransportOK, [TransportNext]_transportVars
  PROVE  TransportOK'
<1>1. CASE UNCHANGED transportVars
  BY <1>1 DEF transportVars, connVars, ring, TransportOK, RingOK, TheRing, SlotAt
<1>2. CASE TransportNext
  <2>1. CASE Offer \/ Break \/ TransportTick \/ Reopen \/ SyncFails
    BY <2>1, ConnectionStepOK
  <2>2. CASE \E budget \in Budgets, refuses \in BOOLEAN : Open(budget, refuses)
    BY <2>2, OpenOK
  <2>3. CASE \E k \in 0..Len(on_the_way), budget \in Budgets, refuses \in BOOLEAN :
               Sync(k, budget, refuses)
    BY <2>3, SyncOK
  <2>4. CASE \E qos \in {0, 1}, size \in Sizes, stale \in Garbage :
               PublishMessage(qos, size, stale)
    BY <2>4, PublishMessageOK
  <2>5. CASE \E k \in 0..Len(on_the_way), budget \in Budgets : Close(k, budget)
    BY <2>5, CloseOK
  <2>6. CASE Recv \/ RecvTooLong
    BY <2>6, AdvanceOK DEF Recv, RecvTooLong
  <2> QED
    BY <1>2, <2>1, <2>2, <2>3, <2>4, <2>5, <2>6 DEF TransportNext
<1> QED
  BY <1>1, <1>2

\* The variables of the transport are what they may be.
THEOREM TransportStaysOK == TransportSpec => []TransportOK
<1>1. TransportInit => TransportOK
  BY TransportInitOK
<1>2. TransportOK /\ [TransportNext]_transportVars => TransportOK'
  BY TransportStepOK
<1> QED
  BY <1>1, <1>2, PTL DEF TransportSpec

\* The packets in the send buffer lie one behind the other and never reach
\* their headers (mqtt_mq_register(), mqtt_mq_clean()).
THEOREM BufferStaysSound == TransportSpec => []BufferIsSound
<1>1. ASSUME TransportOK PROVE BufferIsSound
  <2>1. /\ ClientOK(client) /\ RingOK(TheRing, queue_tail)
    BY <1>1 DEF TransportOK
  <2>2. TransportTypeOK
    BY <1>1, <2>1 DEF TransportOK, TransportTypeOK, RingOK, RingRecord, TheRing
  <2>3. /\ client.queue \in Seq(Queued) /\ DOMAIN client.queue = 1..Len(client.queue)
    BY <2>1 DEF ClientOK, ClientRecord
  <2>4. \A n : EndOf(n) = Ends(client.queue, n)
    BY DEF EndOf, Ends
  <2> QED
    BY <2>1, <2>2, <2>3, <2>4 DEF BufferIsSound, ClientOK, Packed, Fits
<1> QED
  BY <1>1, TransportStaysOK, PTL

(* The ring is an inbox *)

LEMMA WaitingFacts ==
  ASSUME NEW r, NEW tail, RingOK(r, tail)
  PROVE  LET w == [i \in 1..r.count |-> SlotAt(r, tail, i)]
         IN /\ w \in Seq(Slot) /\ Len(w) = r.count /\ r.count \in 0..Slots
            /\ \A i \in 1..r.count : w[i] = SlotAt(r, tail, i)
<1> DEFINE n == r.count
           w == [i \in 1..n |-> SlotAt(r, tail, i)]
<1>1. n \in 0..Slots /\ \A i \in 1..n : SlotAt(r, tail, i) \in Slot
  BY DEF RingOK, RingRecord
<1>2. n \in Nat /\ w \in [1..n -> Slot]
  BY <1>1, SlotsFacts
<1>3. w \in Seq(Slot) /\ Len(w) = n
  <2> HIDE DEF w, n
  <2> QED
    BY <1>2
<1> QED
  BY <1>1, <1>3

LEMMA WaitingIs ==
  /\ Waiting = [i \in 1..TheRing.count |-> SlotAt(TheRing, queue_tail, i)]
  /\ Waiting' = [i \in 1..TheRing'.count |-> SlotAt(TheRing', queue_tail', i)]
BY DEF Waiting, TheRing, SlotAt

LEMMA ExtendsIsArrival ==
  ASSUME RingOK(TheRing, queue_tail), RingOK(TheRing', queue_tail'),
         queue_tail' = queue_tail, Extends(TheRing', TheRing, queue_tail)
  PROVE  Waiting' = Waiting \/ \E n \in 1..Slots : Box!Arrive(n)
<1> DEFINE r == TheRing
           s == TheRing'
           tail == queue_tail
           w == [i \in 1..r.count |-> SlotAt(r, tail, i)]
           v == [i \in 1..s.count |-> SlotAt(s, tail, i)]
<1>1. Waiting = w /\ Waiting' = v
  BY WaitingIs
<1>2. /\ w \in Seq(Slot) /\ Len(w) = r.count /\ r.count \in 0..Slots
      /\ \A i \in 1..r.count : w[i] = SlotAt(r, tail, i)
  BY WaitingFacts
<1>3. /\ v \in Seq(Slot) /\ Len(v) = s.count /\ s.count \in 0..Slots
      /\ \A i \in 1..s.count : v[i] = SlotAt(s, tail, i)
  BY WaitingFacts
<1>4. /\ s.count >= r.count
      /\ \A i \in 1..r.count : SlotAt(s, tail, i) = SlotAt(r, tail, i)
  BY DEF Extends
<1>5. CASE s.count = r.count
  <2>1. v = w
    BY <1>4, <1>5
  <2> QED
    BY <1>1, <2>1
<1>6. CASE s.count # r.count
  <2> HIDE DEF r, s, v, w
  <2> DEFINE n == s.count - r.count
  <2>1. n \in 1..Slots /\ Len(w) + n <= Slots /\ Len(v) = Len(w) + n
        /\ Len(w) \in Nat
    BY <1>2, <1>3, <1>4, <1>6, SlotsFacts
  <2>2. \A i \in 1..Len(w) : v[i] = w[i]
    <3>1. \A i \in 1..r.count : i \in 1..s.count
      BY <1>2, <1>3, <1>4, SlotsFacts
    <3> QED
      BY <1>2, <1>3, <1>4, <3>1
  <2>3. \A i \in 1..n : v[Len(w) + i] \in Slot
    <3>1. \A i \in 1..n : Len(w) + i \in 1..Len(v)
      BY <2>1
    <3> QED
      BY <1>3, <3>1, ElementOfSeq
  <2> HIDE DEF n
  <2>4. Box!Arrive(n)
    BY <1>1, <2>1, <2>2, <2>3 DEF Box!Arrive
  <2> QED
    BY <2>1, <2>4
<1> QED
  BY <1>5, <1>6

LEMMA AdvanceIsTake ==
  ASSUME TransportOK, queue_count > 0, Advance
  PROVE  Box!Take
<1> DEFINE r == TheRing
           s == TheRing'
           w == [i \in 1..r.count |-> SlotAt(r, queue_tail, i)]
           v == [i \in 1..s.count |-> SlotAt(s, queue_tail', i)]
<1>1. /\ TransportOK' /\ queue_count' = queue_count - 1
      /\ \A i \in 1..queue_count' : SlotAt(s, queue_tail', i) = SlotAt(r, queue_tail, i + 1)
  BY AdvanceOK
<1>2. RingOK(r, queue_tail) /\ RingOK(s, queue_tail')
  BY <1>1 DEF TransportOK, RingOK, RingRecord, SlotAt, Index
<1>3. Waiting = w /\ Waiting' = v /\ r.count = queue_count /\ s.count = queue_count'
  BY WaitingIs DEF TheRing
<1>4. /\ w \in Seq(Slot) /\ Len(w) = r.count /\ r.count \in 0..Slots
      /\ \A i \in 1..r.count : w[i] = SlotAt(r, queue_tail, i)
  BY <1>2, WaitingFacts
<1>5. /\ v \in Seq(Slot) /\ Len(v) = s.count /\ s.count \in 0..Slots
      /\ \A i \in 1..s.count : v[i] = SlotAt(s, queue_tail', i)
  BY <1>2, WaitingFacts
<1> HIDE DEF r, s, v, w
<1>6. w # <<>> /\ r.count \in Nat /\ s.count = r.count - 1
  BY <1>1, <1>3, <1>4, SlotsFacts
<1>7. Tail(w) \in Seq(Slot) /\ Len(Tail(w)) = s.count
      /\ \A i \in 1..Len(Tail(w)) : Tail(w)[i] = w[i + 1]
  BY <1>4, <1>6, HeadTailProperties
<1>8. \A i \in 1..s.count : v[i] = w[i + 1]
  <2>1. \A i \in 1..s.count : i + 1 \in 1..r.count
    BY <1>6
  <2> QED
    BY <1>1, <1>3, <1>4, <1>5, <2>1
<1>9. v = Tail(w)
  BY <1>5, <1>7, <1>8
<1> QED
  BY <1>3, <1>6, <1>9 DEF Box!Take

\* The messages that wait in the ring are a first-in first-out queue: on_publish()
\* adds to its end and recv takes its head, and nothing else changes it.
THEOREM RingIsInbox == TransportSpec => ImplementsInbox
<1>1. TransportInit => Box!Init
  <2>1. ASSUME TransportInit PROVE Waiting = <<>>
    BY <2>1 DEF TransportInit, Waiting
  <2> QED
    BY <2>1 DEF Box!Init
<1>2. ASSUME TransportOK, TransportOK', [TransportNext]_transportVars
      PROVE  [Box!Next]_Waiting
  <2>0. RingOK(TheRing, queue_tail) /\ RingOK(TheRing', queue_tail')
    BY <1>2 DEF TransportOK, RingOK, RingRecord, SlotAt, Index
  <2>1. CASE UNCHANGED ring
    BY <2>1 DEF ring, Waiting
  <2>2. CASE queue_tail' = queue_tail /\ Extends(TheRing', TheRing, queue_tail)
    BY <2>0, <2>2, ExtendsIsArrival DEF Box!Next
  <2>3. CASE Recv \/ RecvTooLong
    BY <1>2, <2>3, AdvanceIsTake DEF Recv, RecvTooLong, Box!Next
  <2>4. CASE UNCHANGED transportVars
    BY <2>1, <2>4 DEF transportVars
  <2>5. CASE TransportNext
    <3>1. CASE Offer \/ Break \/ TransportTick \/ Reopen \/ SyncFails
      BY <1>2, <2>1, <3>1, ConnectionStepOK
    <3>2. CASE \E budget \in Budgets, refuses \in BOOLEAN : Open(budget, refuses)
      BY <1>2, <2>1, <3>2, OpenOK
    <3>3. CASE \E k \in 0..Len(on_the_way), budget \in Budgets, refuses \in BOOLEAN :
                 Sync(k, budget, refuses)
      BY <1>2, <2>2, <3>3, SyncOK
    <3>4. CASE \E qos \in {0, 1}, size \in Sizes, stale \in Garbage :
                 PublishMessage(qos, size, stale)
      BY <1>2, <2>1, <3>4, PublishMessageOK
    <3>5. CASE \E k \in 0..Len(on_the_way), budget \in Budgets : Close(k, budget)
      BY <1>2, <2>2, <3>5, CloseOK
    <3> QED
      BY <2>3, <2>5, <3>1, <3>2, <3>3, <3>4, <3>5 DEF TransportNext
  <2> QED
    BY <1>2, <2>4, <2>5
<1> QED
  BY <1>1, <1>2, TransportStaysOK, PTL DEF TransportSpec, ImplementsInbox, Box!Spec

(* What was published and is not with the broker is in the queue *)

\* The identifiers that are acknowledged by what is on the way.
AcksOf(packets) == {packets[i].pid : i \in {j \in 1..Len(packets) : packets[j].type = "PUBACK"}}

\* What is known of a packet of the queue, and the client's message numbers:
\* acc is what was accepted, at what is with the broker, acks what is
\* acknowledged, big no less than any identifier that is not the client's own.
PacketKept(m, acks, acc, at, big) ==
  /\ m.type # "PUBLISH" => m.number = 0
  /\ m.type = "PUBLISH" =>
       /\ m.pid # NoPid /\ m.number \in 1..Len(acc) /\ acc[m.number] = m.qos
       /\ m.pid \in acks => m.number \in at
  /\ m.type \notin {"PUBLISH", "SUBSCRIBE"} => m.pid <= big

Held(c, acc, at) ==
  \A n \in 1..Len(acc) :
    acc[n] = 1 => \/ n \in at
                  \/ \E i \in 1..Len(c.queue) :
                       c.queue[i].number = n /\ c.queue[i].state # "complete"

Kept(c, acks, acc, at, big, top) ==
  /\ \A i \in 1..Len(c.queue) : PacketKept(c.queue[i], acks, acc, at, big)
  /\ \A i, j \in 1..Len(c.queue) :
       c.queue[i].type = "PUBLISH" /\ c.queue[j].type = "PUBLISH"
         /\ c.queue[i].pid = c.queue[j].pid => c.queue[i].number = c.queue[j].number
  /\ c.error = "OK" =>
       /\ c.pid <= top /\ acks \subseteq 0..c.pid
       /\ \A i \in 1..Len(c.queue) :
            c.queue[i].type \in {"PUBLISH", "SUBSCRIBE"} => c.queue[i].pid <= c.pid
  /\ NoPid \notin acks
  /\ Held(c, acc, at)

SameMessage(m, r) == /\ r.type = m.type /\ r.pid = m.pid /\ r.qos = m.qos
                     /\ r.number = m.number

LEMMA KeptBy ==
  ASSUME NEW c, NEW d, NEW acks, NEW acc, NEW at, NEW big, NEW top,
         Kept(c, acks, acc, at, big, top),
         \A j \in 1..Len(d.queue) : \E i \in 1..Len(c.queue) :
           SameMessage(c.queue[i], d.queue[j]),
         d.pid = c.pid, d.error = "OK" => c.error = "OK",
         Held(d, acc, at)
  PROVE  Kept(d, acks, acc, at, big, top)
<1>0. /\ \A i \in 1..Len(c.queue) : PacketKept(c.queue[i], acks, acc, at, big)
      /\ \A i, j \in 1..Len(c.queue) :
           c.queue[i].type = "PUBLISH" /\ c.queue[j].type = "PUBLISH"
             /\ c.queue[i].pid = c.queue[j].pid => c.queue[i].number = c.queue[j].number
      /\ c.error = "OK" =>
           /\ c.pid <= top /\ acks \subseteq 0..c.pid
           /\ \A i \in 1..Len(c.queue) :
                c.queue[i].type \in {"PUBLISH", "SUBSCRIBE"} => c.queue[i].pid <= c.pid
      /\ NoPid \notin acks
  BY DEF Kept
<1>1. ASSUME NEW j \in 1..Len(d.queue) PROVE PacketKept(d.queue[j], acks, acc, at, big)
  <2>1. PICK i \in 1..Len(c.queue) : SameMessage(c.queue[i], d.queue[j])
    OBVIOUS
  <2>2. PacketKept(c.queue[i], acks, acc, at, big)
    BY <1>0
  <2> QED
    BY <2>1, <2>2 DEF PacketKept, SameMessage
<1>2. ASSUME NEW i \in 1..Len(d.queue), NEW j \in 1..Len(d.queue),
             d.queue[i].type = "PUBLISH", d.queue[j].type = "PUBLISH",
             d.queue[i].pid = d.queue[j].pid
      PROVE  d.queue[i].number = d.queue[j].number
  <2>1. PICK k \in 1..Len(c.queue) : SameMessage(c.queue[k], d.queue[i])
    OBVIOUS
  <2>2. PICK l \in 1..Len(c.queue) : SameMessage(c.queue[l], d.queue[j])
    OBVIOUS
  <2>3. /\ c.queue[k].type = "PUBLISH" /\ c.queue[l].type = "PUBLISH"
        /\ c.queue[k].pid = c.queue[l].pid
        /\ c.queue[k].number = d.queue[i].number /\ c.queue[l].number = d.queue[j].number
    BY <1>2, <2>1, <2>2 DEF SameMessage
  <2>4. c.queue[k].number = c.queue[l].number
    BY <1>0, <2>3
  <2> QED
    BY <2>3, <2>4
<1>3. ASSUME d.error = "OK"
      PROVE  /\ d.pid <= top /\ acks \subseteq 0..d.pid
             /\ \A j \in 1..Len(d.queue) :
                  d.queue[j].type \in {"PUBLISH", "SUBSCRIBE"} => d.queue[j].pid <= d.pid
  <2>1. /\ c.pid <= top /\ acks \subseteq 0..c.pid
        /\ \A i \in 1..Len(c.queue) :
             c.queue[i].type \in {"PUBLISH", "SUBSCRIBE"} => c.queue[i].pid <= c.pid
    BY <1>0, <1>3
  <2>2. ASSUME NEW j \in 1..Len(d.queue), d.queue[j].type \in {"PUBLISH", "SUBSCRIBE"}
        PROVE  d.queue[j].pid <= d.pid
    <3>1. PICK i \in 1..Len(c.queue) : SameMessage(c.queue[i], d.queue[j])
      OBVIOUS
    <3>2. c.queue[i].type = d.queue[j].type /\ c.queue[i].pid = d.queue[j].pid
      BY <3>1 DEF SameMessage
    <3>3. c.queue[i].pid <= c.pid
      BY <2>1, <2>2, <3>2
    <3> QED
      BY <3>2, <3>3
  <2> QED
    BY <2>1, <2>2
<1>4. \A i, j \in 1..Len(d.queue) :
        d.queue[i].type = "PUBLISH" /\ d.queue[j].type = "PUBLISH"
          /\ d.queue[i].pid = d.queue[j].pid => d.queue[i].number = d.queue[j].number
  BY <1>2
<1> QED
  BY <1>0, <1>1, <1>3, <1>4 DEF Kept

\* mqtt_mq_clean() takes complete packets away, and no others.
LEMMA CleanCarries ==
  ASSUME NEW c, ClientOK(c)
  PROVE  /\ \A j \in 1..Len(Clean(c).queue) : \E i \in 1..Len(c.queue) :
              /\ SameMessage(c.queue[i], Clean(c).queue[j])
              /\ Clean(c).queue[j].state = c.queue[i].state
         /\ \A i \in 1..Len(c.queue) : c.queue[i].state # "complete" =>
              \E j \in 1..Len(Clean(c).queue) :
                /\ SameMessage(c.queue[i], Clean(c).queue[j])
                /\ Clean(c).queue[j].state = c.queue[i].state
         /\ Clean(c).pid = c.pid /\ Clean(c).error = c.error
<1> DEFINE q == c.queue
           n == Len(q)
           d == Dropped(c)
           r == Clean(c).queue
           removing == Ends(q, d)
<1>1. /\ c \in ClientRecord /\ q \in Seq(Queued) /\ n \in Nat
      /\ \A i \in 1..n : q[i] \in Queued
  BY ElementOfSeq DEF ClientOK, ClientRecord
<1>2. /\ d \in 0..n /\ Len(r) = n - d
      /\ \A i \in 1..d : q[i].state = "complete"
      /\ \A j \in 1..(n - d) : r[j] = Moved(q[j + d], removing)
      /\ Clean(c) = [c EXCEPT !.queue = r, !.curr = c.curr - removing]
  BY CleanFacts
<1>3. ASSUME NEW m \in Queued
      PROVE  SameMessage(m, Moved(m, removing)) /\ Moved(m, removing).state = m.state
  BY DEF Moved, SameMessage, Queued
<1> HIDE DEF removing, r, d, q
<1>4. ASSUME NEW j \in 1..(n - d)
      PROVE  \E i \in 1..n : SameMessage(q[i], r[j]) /\ r[j].state = q[i].state
  <2>1. j + d \in 1..n
    BY <1>1, <1>2
  <2> QED
    BY <1>1, <1>2, <1>3, <2>1
<1>5. ASSUME NEW i \in 1..n, q[i].state # "complete"
      PROVE  \E j \in 1..(n - d) : SameMessage(q[i], r[j]) /\ r[j].state = q[i].state
  <2>1. i \notin 1..d
    BY <1>2, <1>5
  <2>2. i - d \in 1..(n - d) /\ (i - d) + d = i
    BY <1>1, <1>2, <2>1
  <2>3. q[i] \in Queued /\ r[i - d] = Moved(q[i], removing)
    BY <1>1, <1>2, <2>2
  <2>4. SameMessage(q[i], r[i - d]) /\ r[i - d].state = q[i].state
    BY <1>3, <2>3
  <2> QED
    BY <2>2, <2>4
<1>6. Clean(c).pid = c.pid /\ Clean(c).error = c.error
  BY <1>1, <1>2 DEF ClientRecord
<1> QED
  BY <1>2, <1>4, <1>5, <1>6 DEF q, r

LEMMA KeptClean ==
  ASSUME NEW c, ClientOK(c), NEW acks, NEW acc, NEW at, NEW big, NEW top,
         Kept(c, acks, acc, at, big, top)
  PROVE  Kept(Clean(c), acks, acc, at, big, top)
<1> DEFINE d == Clean(c)
<1>1. /\ \A j \in 1..Len(d.queue) : \E i \in 1..Len(c.queue) :
           SameMessage(c.queue[i], d.queue[j])
      /\ \A i \in 1..Len(c.queue) : c.queue[i].state # "complete" =>
           \E j \in 1..Len(d.queue) : /\ SameMessage(c.queue[i], d.queue[j])
                                      /\ d.queue[j].state = c.queue[i].state
      /\ d.pid = c.pid /\ d.error = c.error
  BY CleanCarries
<1> HIDE DEF d
<1>2. Held(c, acc, at)
  BY DEF Kept
<1>3. Held(d, acc, at)
  <2> SUFFICES ASSUME NEW x \in 1..Len(acc), acc[x] = 1, x \notin at
               PROVE  \E j \in 1..Len(d.queue) : d.queue[j].number = x
                                                 /\ d.queue[j].state # "complete"
    BY DEF Held
  <2>1. PICK i \in 1..Len(c.queue) : c.queue[i].number = x /\ c.queue[i].state # "complete"
    BY <1>2 DEF Held
  <2>2. PICK j \in 1..Len(d.queue) : /\ SameMessage(c.queue[i], d.queue[j])
                                     /\ d.queue[j].state = c.queue[i].state
    BY <1>1, <2>1
  <2> QED
    BY <2>1, <2>2 DEF SameMessage
<1>4. Kept(d, acks, acc, at, big, top)
  BY <1>1, <1>3, KeptBy
<1> QED
  BY <1>4 DEF d

\* mqtt_mq_register(), of a packet of the client's own or of the next message.
NoTwin(c, p) == \A i \in 1..Len(c.queue) :
                 c.queue[i].type = "PUBLISH" /\ p.type = "PUBLISH" => c.queue[i].pid # p.pid

Continues(acc, more, p) ==
  /\ Len(acc) <= Len(more) /\ \A n \in 1..Len(acc) : more[n] = acc[n]
  /\ \A n \in 1..Len(more) : n \in 1..Len(acc) \/ n = p.number

LEMMA KeptRegistered ==
  ASSUME NEW c, ClientOK(c), NEW p \in Queued, p.size <= Room(c), p.state = "unsent",
         NEW acks, NEW acc \in Seq({0, 1}), NEW more \in Seq({0, 1}), NEW at,
         NEW big, NEW top,
         Kept(c, acks, acc, at, big, top), NoTwin(c, p), Continues(acc, more, p),
         PacketKept(p, acks, more, at, big),
         p.type \in {"PUBLISH", "SUBSCRIBE"} => p.pid <= c.pid
  PROVE  Kept(Registered(c, p), acks, more, at, big, top)
<1> DEFINE q == c.queue
           n == Len(q)
           new == Placed(p, c)
           d == Registered(c, p)
<1>1. /\ q \in Seq(Queued) /\ n \in Nat /\ c \in ClientRecord
  BY DEF ClientOK, ClientRecord
<1>2. /\ new \in Queued /\ d.queue = Append(q, new)
      /\ d = [c EXCEPT !.queue = Append(q, new), !.curr = c.curr + p.size]
  BY RegisteredOK
<1>3. SameMessage(p, new) /\ new.state = p.state
  BY DEF Placed, SameMessage, Queued
<1>4. d.pid = c.pid /\ d.error = c.error
  BY <1>1, <1>2 DEF ClientRecord
<1> HIDE DEF d, new, q
<1>5. /\ Len(d.queue) = n + 1 /\ d.queue[n + 1] = new
      /\ \A i \in 1..n : d.queue[i] = q[i]
      /\ \A i \in 1..(n + 1) : i \in 1..n \/ i = n + 1
      /\ n + 1 \in 1..(n + 1) /\ \A i \in 1..n : i \in 1..(n + 1)
  BY <1>1, <1>2
<1> HIDE DEF n
<1>6. \A i \in 1..n : PacketKept(q[i], acks, acc, at, big)
  BY DEF Kept, q, n
<1>7. Len(acc) \in Nat /\ Len(more) \in Nat /\ 1..Len(acc) \subseteq 1..Len(more)
  BY DEF Continues
<1>8. \A i \in 1..n : PacketKept(q[i], acks, more, at, big)
  BY <1>6, <1>7 DEF PacketKept, Continues
<1>9. PacketKept(new, acks, more, at, big)
  BY <1>3 DEF PacketKept, SameMessage
<1>10. \A i \in 1..(n + 1) : PacketKept(d.queue[i], acks, more, at, big)
  BY <1>5, <1>8, <1>9
<1>11. \A i, j \in 1..(n + 1) :
         d.queue[i].type = "PUBLISH" /\ d.queue[j].type = "PUBLISH"
           /\ d.queue[i].pid = d.queue[j].pid => d.queue[i].number = d.queue[j].number
  <2>1. \A i, j \in 1..n :
          q[i].type = "PUBLISH" /\ q[j].type = "PUBLISH"
            /\ q[i].pid = q[j].pid => q[i].number = q[j].number
    BY DEF Kept, q, n
  <2>2. \A i \in 1..n : q[i].type = "PUBLISH" /\ new.type = "PUBLISH" => q[i].pid # new.pid
    BY <1>3 DEF NoTwin, SameMessage, q, n
  <2> QED
    BY <1>5, <2>1, <2>2
<1>12. ASSUME d.error = "OK"
       PROVE  /\ d.pid <= top /\ acks \subseteq 0..d.pid
              /\ \A i \in 1..(n + 1) :
                   d.queue[i].type \in {"PUBLISH", "SUBSCRIBE"} => d.queue[i].pid <= d.pid
  <2>1. /\ c.pid <= top /\ acks \subseteq 0..c.pid
        /\ \A i \in 1..n : q[i].type \in {"PUBLISH", "SUBSCRIBE"} => q[i].pid <= c.pid
    BY <1>4, <1>12 DEF Kept, q, n
  <2>2. new.type \in {"PUBLISH", "SUBSCRIBE"} => new.pid <= c.pid
    BY <1>3 DEF SameMessage
  <2> QED
    BY <1>4, <1>5, <2>1, <2>2
<1>13. Held(d, more, at)
  <2>1. Held(c, acc, at)
    BY DEF Kept
  <2> SUFFICES ASSUME NEW x \in 1..Len(more), more[x] = 1, x \notin at
               PROVE  \E i \in 1..(n + 1) : d.queue[i].number = x
                                            /\ d.queue[i].state # "complete"
    BY <1>5 DEF Held
  <2>2. CASE x \in 1..Len(acc)
    <3>1. acc[x] = 1
      BY <2>2 DEF Continues
    <3>2. PICK i \in 1..n : q[i].number = x /\ q[i].state # "complete"
      BY <2>1, <2>2, <3>1 DEF Held, q, n
    <3> QED
      BY <1>5, <3>2
  <2>3. CASE x = p.number
    BY <1>3, <1>5, <2>3 DEF SameMessage
  <2> QED
    BY <2>2, <2>3 DEF Continues
<1>14. Len(d.queue) = n + 1
  BY <1>5
<1>15. \A i \in 1..Len(d.queue) : PacketKept(d.queue[i], acks, more, at, big)
  BY <1>10, <1>14
<1>16. \A i, j \in 1..Len(d.queue) :
         d.queue[i].type = "PUBLISH" /\ d.queue[j].type = "PUBLISH"
           /\ d.queue[i].pid = d.queue[j].pid => d.queue[i].number = d.queue[j].number
  BY <1>11, <1>14
<1>17. d.error = "OK" =>
         /\ d.pid <= top /\ acks \subseteq 0..d.pid
         /\ \A i \in 1..Len(d.queue) :
              d.queue[i].type \in {"PUBLISH", "SUBSCRIBE"} => d.queue[i].pid <= d.pid
  BY <1>12, <1>14
<1>18. Kept(d, acks, more, at, big, top)
  BY <1>13, <1>15, <1>16, <1>17 DEF Kept
<1> QED
  BY <1>18 DEF d

LEMMA KeptTryPack ==
  ASSUME NEW c, ClientOK(c), NEW p \in Queued, p.state = "unsent",
         NEW acks, NEW acc \in Seq({0, 1}), NEW more \in Seq({0, 1}), NEW at,
         NEW big, NEW top,
         Kept(c, acks, acc, at, big, top), NoTwin(c, p), Continues(acc, more, p),
         PacketKept(p, acks, more, at, big),
         p.type \in {"PUBLISH", "SUBSCRIBE"} => p.pid <= c.pid
  PROVE  /\ TryPack(c, p).error = "OK" =>
              c.error = "OK" /\ Kept(TryPack(c, p), acks, more, at, big, top)
         /\ TryPack(c, p).error # "OK" => Kept(TryPack(c, p), acks, acc, at, big, top)
         /\ TryPack(c, p).pid = c.pid /\ TryPack(c, p).torn = c.torn
<1> DEFINE e == Clean(c)
           d == TryPack(c, p)
<1>1. ClientOK(e) /\ Kept(e, acks, acc, at, big, top) /\ e.pid = c.pid /\ e.error = c.error
      /\ e.torn = c.torn
  <2>1. e.torn = c.torn
    <3>1. c \in ClientRecord
      BY DEF ClientOK
    <3> QED
      BY <3>1, CleanFacts DEF ClientRecord
  <2> QED
    BY <2>1, CleanOK, KeptClean, CleanCarries
<1>2. NoTwin(e, p)
  <2> SUFFICES ASSUME NEW j \in 1..Len(e.queue),
                      e.queue[j].type = "PUBLISH", p.type = "PUBLISH"
               PROVE  e.queue[j].pid # p.pid
    BY DEF NoTwin
  <2>1. PICK i \in 1..Len(c.queue) : SameMessage(c.queue[i], e.queue[j])
    BY CleanCarries
  <2> HIDE DEF e
  <2> QED
    BY <2>1 DEF NoTwin, SameMessage
<1>3. c \in ClientRecord /\ e \in ClientRecord
  BY <1>1 DEF ClientOK
<1>4. CASE c.error # "OK"
  <2>1. d = c
    BY <1>4 DEF TryPack
  <2> HIDE DEF d
  <2> QED
    BY <1>4, <2>1 DEF d
<1>5. CASE c.error = "OK" /\ p.size <= Room(c)
  <2>1. d = Registered(c, p)
    BY <1>5 DEF TryPack
  <2>2. d.error = "OK" /\ d.pid = c.pid /\ d.torn = c.torn
    BY <1>3, <1>5, <2>1 DEF Registered, ClientRecord
  <2>3. Kept(Registered(c, p), acks, more, at, big, top)
    BY <1>5, KeptRegistered
  <2> HIDE DEF d
  <2> QED
    BY <1>5, <2>1, <2>2, <2>3 DEF d
<1>6. CASE c.error = "OK" /\ ~(p.size <= Room(c)) /\ p.size <= Room(e)
  <2>1. d = Registered(e, p)
    BY <1>6 DEF TryPack
  <2> HIDE DEF d
  <2>5. p.size <= Room(e)
    BY <1>6
  <2> HIDE DEF e
  <2>2. d.error = "OK" /\ d.pid = c.pid /\ d.torn = c.torn
    BY <1>1, <1>3, <1>6, <2>1 DEF Registered, ClientRecord
  <2>4. p.type \in {"PUBLISH", "SUBSCRIBE"} => p.pid <= e.pid
    BY <1>1
  <2>3. Kept(Registered(e, p), acks, more, at, big, top)
    BY <1>1, <1>2, <2>4, <2>5, KeptRegistered
  <2> QED
    BY <1>6, <2>1, <2>2, <2>3 DEF d
<1>7. CASE c.error = "OK" /\ ~(p.size <= Room(c)) /\ ~(p.size <= Room(e))
  <2> HIDE DEF e
  <2>1. d = WithError(e, "SEND_BUFFER_IS_FULL")
    BY <1>7 DEF TryPack, WithError, e
  <2> HIDE DEF d
  <2>2. /\ d.error # "OK" /\ d.pid = c.pid /\ d.torn = c.torn /\ d.queue = e.queue
        /\ d.pid = e.pid
    BY <1>1, <1>3, <2>1 DEF WithError, ClientRecord
  <2>3. Held(e, acc, at)
    BY <1>1 DEF Kept
  <2>4. Held(d, acc, at)
    BY <2>2, <2>3 DEF Held
  <2>5. \A j \in 1..Len(d.queue) : SameMessage(e.queue[j], d.queue[j])
    BY <2>2 DEF SameMessage
  <2>6. \A j \in 1..Len(d.queue) : \E i \in 1..Len(e.queue) :
          SameMessage(e.queue[i], d.queue[j])
    BY <2>2, <2>5
  <2>7. Kept(d, acks, acc, at, big, top)
    BY <1>1, <2>2, <2>4, <2>6, KeptBy
  <2> QED
    BY <2>2, <2>7 DEF d
<1> QED
  BY <1>4, <1>5, <1>6, <1>7

\* The client's packets that carry no message.
IsPlain(p, big) == /\ p \in Queued /\ p.state = "unsent" /\ p.number = 0
                   /\ p.type \notin {"PUBLISH", "SUBSCRIBE"} /\ p.pid <= big

LEMMA PlainPackets ==
  ASSUME NEW big \in Nat
  PROVE  /\ IsPlain(ConnectPacket, big) /\ IsPlain(PingPacket, big)
         /\ IsPlain(DisconnectPacket, big)
         /\ \A pid \in Nat : pid <= big => IsPlain(PubackPacket(pid), big)
BY PacketsQueued DEF IsPlain, ConnectPacket, PingPacket, DisconnectPacket, PubackPacket,
                     Packet, NoPid

LEMMA KeptPlain ==
  ASSUME NEW c, ClientOK(c), NEW acks, NEW acc \in Seq({0, 1}), NEW at,
         NEW big, NEW top, NEW p, IsPlain(p, big),
         Kept(c, acks, acc, at, big, top)
  PROVE  /\ Kept(TryPack(c, p), acks, acc, at, big, top)
         /\ TryPack(c, p).pid = c.pid /\ TryPack(c, p).torn = c.torn
         /\ TryPack(c, p).error = "OK" => c.error = "OK"
<1>1. NoTwin(c, p) /\ Continues(acc, acc, p) /\ PacketKept(p, acks, acc, at, big)
  BY DEF NoTwin, Continues, PacketKept, IsPlain
<1> QED
  BY <1>1, KeptTryPack DEF IsPlain

\* A change of state of one packet, or of what else is known of it.
LEMMA KeptPut ==
  ASSUME NEW c, ClientOK(c), NEW d, NEW i \in 1..Len(c.queue), NEW m,
         Len(d.queue) = Len(c.queue),
         \A j \in 1..Len(c.queue) : d.queue[j] = IF j = i THEN m ELSE c.queue[j],
         d.pid = c.pid, d.error = "OK" => c.error = "OK",
         SameMessage(c.queue[i], m),
         NEW acks, NEW acc, NEW at, NEW big, NEW top,
         Kept(c, acks, acc, at, big, top),
         \/ m.state = c.queue[i].state
         \/ m.state # "complete"
         \/ ~(c.queue[i].number \in 1..Len(acc) /\ acc[c.queue[i].number] = 1)
         \/ c.queue[i].number \in at
  PROVE  Kept(d, acks, acc, at, big, top)
<1>1. \A j \in 1..Len(d.queue) : \E k \in 1..Len(c.queue) :
        SameMessage(c.queue[k], d.queue[j])
  <2> SUFFICES ASSUME NEW j \in 1..Len(d.queue)
               PROVE  SameMessage(c.queue[j], d.queue[j]) /\ j \in 1..Len(c.queue)
    OBVIOUS
  <2>1. CASE j = i
    BY <2>1
  <2>2. CASE j # i
    BY <2>2 DEF SameMessage
  <2> QED
    BY <2>1, <2>2
<1>2. Held(d, acc, at)
  <2> SUFFICES ASSUME NEW x \in 1..Len(acc), acc[x] = 1, x \notin at
               PROVE  \E j \in 1..Len(d.queue) : d.queue[j].number = x
                                                 /\ d.queue[j].state # "complete"
    BY DEF Held
  <2>1. PICK j \in 1..Len(c.queue) : c.queue[j].number = x /\ c.queue[j].state # "complete"
    BY DEF Kept, Held
  <2>2. CASE j = i
    <3>1. m.state # "complete" /\ m.number = x
      BY <2>1, <2>2 DEF SameMessage
    <3> QED
      BY <2>2, <3>1
  <2>3. CASE j # i
    BY <2>1, <2>3
  <2> QED
    BY <2>2, <2>3
<1> QED
  BY <1>1, <1>2, KeptBy

LEMMA KeptError ==
  ASSUME NEW c, ClientOK(c), NEW error \in Errors \ {"OK"},
         NEW acks, NEW acc, NEW at, NEW big, NEW top,
         Kept(c, acks, acc, at, big, top)
  PROVE  Kept(WithError(c, error), acks, acc, at, big, top)
<1> DEFINE d == WithError(c, error)
<1>1. d.queue = c.queue /\ d.pid = c.pid /\ d.error # "OK"
  BY DEF WithError, ClientOK, ClientRecord
<1> HIDE DEF d
<1>2. \A j \in 1..Len(d.queue) : \E i \in 1..Len(c.queue) :
        SameMessage(c.queue[i], d.queue[j])
  BY <1>1 DEF SameMessage
<1>3. Held(d, acc, at)
  BY <1>1 DEF Kept, Held
<1>4. Kept(d, acks, acc, at, big, top)
  BY <1>1, <1>2, <1>3, KeptBy
<1> QED
  BY <1>4 DEF d

\* The packets of the broker that may come.
Expected(acks) == {p \in Incoming : p.type = "PUBACK" => p.pid \in acks}

LEMMA PutDone ==
  ASSUME NEW c, ClientOK(c), NEW i \in 1..Len(c.queue)
  PROVE  LET e == Put(c, i, Done(c.queue[i]))
         IN /\ ClientOK(e) /\ Len(e.queue) = Len(c.queue)
            /\ \A j \in 1..Len(c.queue) :
                 e.queue[j] = IF j = i THEN Done(c.queue[i]) ELSE c.queue[j]
            /\ e.pid = c.pid /\ e.error = c.error
<1> DEFINE q == c.queue
           m == q[i]
           e == Put(c, i, Done(m))
<1>1. c \in ClientRecord /\ q \in Seq(Queued) /\ m \in Queued
  BY ElementOfSeq DEF ClientOK, ClientRecord
<1>2. /\ Done(m) \in Queued /\ Done(m).start = m.start /\ Done(m).size = m.size
  BY <1>1 DEF Done, Queued, States
<1>3. ClientOK(e)
  BY <1>1, <1>2, PutFacts
<1>4. e = [c EXCEPT !.queue = [q EXCEPT ![i] = Done(m)]]
  BY DEF Put
<1>5. /\ Len([q EXCEPT ![i] = Done(m)]) = Len(q)
      /\ \A j \in 1..Len(q) : [q EXCEPT ![i] = Done(m)][j] = IF j = i THEN Done(m) ELSE q[j]
  BY <1>1, <1>2
<1> DEFINE r == [q EXCEPT ![i] = Done(m)]
<1> HIDE DEF r, e
<1>6. e.queue = r /\ e.pid = c.pid /\ e.error = c.error
  BY <1>1, <1>4 DEF ClientRecord, r
<1>7. Len(r) = Len(q) /\ \A j \in 1..Len(q) : r[j] = IF j = i THEN Done(m) ELSE q[j]
  BY <1>5 DEF r
<1> QED
  BY <1>3, <1>6, <1>7 DEF e

LEMMA KeptHandled ==
  ASSUME NEW c, ClientOK(c), NEW d, NEW acks, NEW acc \in Seq({0, 1}), NEW at,
         NEW big \in Nat, NEW top, Len(Offers) <= big,
         NEW p \in Expected(acks), Handled(c, d, p), Kept(c, acks, acc, at, big, top)
  PROVE  Kept(d, acks, acc, at, big, top)
<1>1. CASE d = c
  BY <1>1
<1>2. CASE \E error \in Errors \ {"OK"} : d = WithError(c, error)
  BY <1>2, KeptError
<1>3. CASE p \in Deliveries /\ p.qos = 1 /\ d = TryPack(c, PubackPacket(p.pid))
  <2>1. p.pid \in Nat /\ p.pid <= big
    BY <1>3, SlotsFacts DEF Deliveries
  <2>2. IsPlain(PubackPacket(p.pid), big)
    BY <2>1, PlainPackets
  <2>3. Kept(TryPack(c, PubackPacket(p.pid)), acks, acc, at, big, top)
    BY <2>2, KeptPlain
  <2> QED
    BY <1>3, <2>3
<1>4. CASE /\ p \in Replies /\ p.type \in DOMAIN AnswerTo
           /\ \E i \in 1..Len(c.queue) :
                /\ IsAnswered(c.queue[i], AnswerTo[p.type], p.pid)
                /\ \/ d = Put(c, i, Done(c.queue[i]))
                   \/ \E error \in Errors \ {"OK"} :
                        d = WithError(Put(c, i, Done(c.queue[i])), error)
  <2>1. PICK i \in 1..Len(c.queue) :
          /\ IsAnswered(c.queue[i], AnswerTo[p.type], p.pid)
          /\ \/ d = Put(c, i, Done(c.queue[i]))
             \/ \E error \in Errors \ {"OK"} :
                  d = WithError(Put(c, i, Done(c.queue[i])), error)
    BY <1>4
  <2> DEFINE m == c.queue[i]
             e == Put(c, i, Done(m))
  <2>2. m \in Queued /\ c \in ClientRecord
    BY ElementOfSeq DEF ClientOK, ClientRecord
  <2>3. SameMessage(m, Done(m))
    BY <2>2 DEF Done, Queued, SameMessage
  <2>4. /\ ClientOK(e) /\ Len(e.queue) = Len(c.queue)
        /\ \A j \in 1..Len(c.queue) : e.queue[j] = IF j = i THEN Done(m) ELSE c.queue[j]
        /\ e.pid = c.pid /\ e.error = c.error
    BY PutDone
  <2> HIDE DEF e
  <2>6. \/ ~(m.number \in 1..Len(acc) /\ acc[m.number] = 1)
        \/ m.number \in at
    <3>1. PacketKept(m, acks, acc, at, big) /\ NoPid \notin acks
      BY DEF Kept
    <3>2. CASE m.type # "PUBLISH"
      BY <3>1, <3>2 DEF PacketKept
    <3>3. CASE m.type = "PUBLISH"
      <4>1. p.type = "PUBACK"
        BY <1>4, <2>1, <3>3 DEF IsAnswered, AnswerTo
      <4>2. p.pid \in acks /\ p.pid # NoPid
        BY <3>1, <4>1 DEF Expected
      <4>3. m.pid \in acks
        BY <2>1, <4>2 DEF IsAnswered
      <4> QED
        BY <3>1, <3>3, <4>3 DEF PacketKept
    <3> QED
      BY <3>2, <3>3
  <2>7. Kept(e, acks, acc, at, big, top)
    <3> HIDE DEF m
    <3>1. SameMessage(c.queue[i], Done(m))
      BY <2>3 DEF m
    <3>2. \/ ~(c.queue[i].number \in 1..Len(acc) /\ acc[c.queue[i].number] = 1)
          \/ c.queue[i].number \in at
      BY <2>6 DEF m
    <3> QED
      BY <2>4, <3>1, <3>2, KeptPut
  <2>8. \A error \in Errors \ {"OK"} : Kept(WithError(e, error), acks, acc, at, big, top)
    BY <2>4, <2>7, KeptError
  <2> QED
    BY <2>1, <2>7, <2>8 DEF e
<1> QED
  BY <1>1, <1>2, <1>3, <1>4 DEF Handled

LEMMA KeptReceived ==
  ASSUME NEW c, ClientOK(c), NEW acks, NEW acc \in Seq({0, 1}), NEW at,
         NEW big \in Nat, NEW top, Len(Offers) <= big,
         NEW packets \in Seq(Expected(acks)), Kept(c, acks, acc, at, big, top)
  PROVE  /\ ReceivedOK(Receive(c, packets))
         /\ Kept(Receive(c, packets).client, acks, acc, at, big, top)
<1> DEFINE E == Expected(acks)
           K == {d \in ClientRecord : Kept(d, acks, acc, at, big, top)}
<1>1. c \in K
  BY DEF ClientOK
<1>2. E \in SUBSET Incoming
  BY DEF Expected
<1>3. \A d \in K, e \in ClientRecord, p \in E :
        ClientOK(d) /\ ClientOK(e) /\ Handled(d, e, p) => e \in K
  BY KeptHandled
<1> HIDE DEF K, E
<1>4. ReceivedOK(Receive(c, packets)) /\ Receive(c, packets).client \in K
  <2>1. packets \in Seq(E)
    BY DEF E
  <2> QED
    BY <1>1, <1>2, <1>3, <2>1, ReceiveOK
<1> QED
  BY <1>4 DEF K

\* A pass of the loop that sends.
LEMMA KeptPasses ==
  ASSUME NEW n \in Nat, NEW s, SendOK(s, n), NEW t, NEW i \in 1..n, Passes(s, t, i),
         NEW acks, NEW acc \in Seq({0, 1}), NEW at, NEW big, NEW top,
         Kept(s.client, acks, acc, at, big, top)
  PROVE  Kept(t.client, acks, acc, at, big, top)
<1> DEFINE c == s.client
           d == t.client
           m == c.queue[i]
           r == After(s, i)
<1>1. /\ ClientOK(c) /\ Len(c.queue) = n /\ c \in ClientRecord /\ m \in Queued
      /\ c.queue \in Seq(Queued)
  BY ElementOfSeq DEF SendOK, ClientOK, ClientRecord
<1>2. CASE t = s
  BY <1>2
<1>3. CASE t # s
  <2>1. /\ d.queue = [c.queue EXCEPT ![i] = r]
        /\ d.pid = c.pid /\ d.error = c.error
    BY <1>3 DEF Passes
  <2>2. r \in Queued /\ SameMessage(m, r)
    BY AfterFacts DEF SamePacket, SameMessage
  <2>3. Len(d.queue) = n /\ \A j \in 1..n : d.queue[j] = IF j = i THEN r ELSE c.queue[j]
    BY <1>1, <2>1, <2>2
  <2>4. r.state = m.state \/ r.state = StateAfter(m)
    BY <1>1 DEF After, AfterSending, Queued
  <2>5. \/ r.state = m.state \/ r.state # "complete"
        \/ ~(m.number \in 1..Len(acc) /\ acc[m.number] = 1)
    <3>1. PacketKept(m, acks, acc, at, big)
      BY <1>1 DEF Kept
    <3>2. CASE StateAfter(m) = "complete"
      <4>1. m.type # "PUBLISH" \/ m.qos = 0
        BY <3>2 DEF StateAfter
      <4> QED
        BY <3>1, <4>1 DEF PacketKept
    <3>3. CASE StateAfter(m) # "complete"
      BY <2>4, <3>3
    <3> QED
      BY <3>2, <3>3
  <2>6. /\ ClientOK(c) /\ i \in 1..Len(c.queue) /\ Len(d.queue) = Len(c.queue)
        /\ \A j \in 1..Len(c.queue) : d.queue[j] = IF j = i THEN r ELSE c.queue[j]
        /\ d.pid = c.pid /\ (d.error = "OK" => c.error = "OK")
        /\ SameMessage(c.queue[i], r)
        /\ Kept(c, acks, acc, at, big, top)
    BY <1>1, <2>1, <2>2, <2>3
  <2>7. \/ r.state = c.queue[i].state
        \/ r.state # "complete"
        \/ ~(c.queue[i].number \in 1..Len(acc) /\ acc[c.queue[i].number] = 1)
    BY <2>5
  <2> HIDE DEF m, r, d, c
  <2>8. Kept(d, acks, acc, at, big, top)
    BY <2>6, <2>7, KeptPut
  <2> QED
    BY <2>8 DEF d
<1> QED
  BY <1>2, <1>3

\* The messages that were sent are those of the queue.
SentFrom(sent, q) ==
  \A j \in 1..Len(sent) : \E i \in 1..Len(q) : SameMessage(sent[j], q[i])

LEMMA SentPasses ==
  ASSUME NEW n \in Nat, NEW s, SendOK(s, n), NEW t, SendOK(t, n), NEW i \in 1..n,
         Passes(s, t, i), SentFrom(s.sent, s.client.queue)
  PROVE  SentFrom(t.sent, t.client.queue)
<1> DEFINE q == s.client.queue
           r == t.client.queue
           m == q[i]
<1>1. /\ q \in Seq(Queued) /\ Len(q) = n /\ Len(r) = n /\ m \in Queued
      /\ s.sent \in Seq(Queued)
  BY ElementOfSeq DEF SendOK, SendState, ClientRecord
<1>2. CASE t = s
  BY <1>2
<1>3. CASE t # s
  <2>1. /\ r = [q EXCEPT ![i] = After(s, i)]
        /\ t.sent = s.sent \/ t.sent = Append(s.sent, m)
    BY <1>3 DEF Passes
  <2>2. SameMessage(m, After(s, i))
    BY AfterFacts DEF SamePacket, SameMessage
  <2>3. \A k \in 1..n : SameMessage(q[k], r[k])
    <3> SUFFICES ASSUME NEW k \in 1..n PROVE SameMessage(q[k], r[k])
      OBVIOUS
    <3>1. CASE k = i
      BY <1>1, <2>1, <2>2, <3>1
    <3>2. CASE k # i
      <4>1. r[k] = q[k]
        BY <1>1, <2>1, <3>2
      <4> QED
        BY <4>1 DEF SameMessage
    <3> QED
      BY <3>1, <3>2
  <2> HIDE DEF r, q
  <2>4. ASSUME NEW x, NEW k \in 1..n, SameMessage(x, q[k])
        PROVE  SameMessage(x, r[k])
    BY <2>3, <2>4 DEF SameMessage
  <2>5. \A j \in 1..Len(s.sent) : \E k \in 1..n : SameMessage(s.sent[j], r[k])
    <3> SUFFICES ASSUME NEW j \in 1..Len(s.sent)
                 PROVE  \E k \in 1..n : SameMessage(s.sent[j], r[k])
      OBVIOUS
    <3>1. PICK k \in 1..n : SameMessage(s.sent[j], q[k])
      BY <1>1 DEF SentFrom, q
    <3> QED
      BY <2>4, <3>1
  <2>6. CASE t.sent = s.sent
    BY <1>1, <2>5, <2>6 DEF SentFrom, r
  <2>7. CASE t.sent = Append(s.sent, m)
    <3> DEFINE l == Len(s.sent)
    <3>1. /\ l \in Nat /\ Len(t.sent) = l + 1 /\ t.sent[l + 1] = m
          /\ \A j \in 1..l : t.sent[j] = s.sent[j]
      BY <1>1, <2>7, AppendProperties
    <3>2. SameMessage(m, r[i])
      BY <2>3
    <3> HIDE DEF m
    <3>3. ASSUME NEW j \in 1..(l + 1) PROVE \E k \in 1..n : SameMessage(t.sent[j], r[k])
      <4>1. CASE j \in 1..l
        BY <2>5, <3>1, <4>1
      <4>2. CASE j = l + 1
        BY <3>1, <3>2, <4>2
      <4> QED
        BY <3>1, <4>1, <4>2
    <3>4. \A j \in 1..Len(t.sent) : \E k \in 1..Len(r) : SameMessage(t.sent[j], r[k])
      BY <1>1, <3>1, <3>3
    <3> QED
      BY <3>4 DEF SentFrom, r
  <2> QED
    BY <2>1, <2>6, <2>7
<1> QED
  BY <1>2, <1>3

LEMMA KeptLoop ==
  ASSUME NEW c, ClientOK(c), NEW budget \in Nat,
         NEW acks, NEW acc \in Seq({0, 1}), NEW at, NEW big, NEW top,
         Kept(c, acks, acc, at, big, top)
  PROVE  LET s == SendLoop(c, budget)
         IN /\ SendOK(s, Len(c.queue)) /\ Kept(s.client, acks, acc, at, big, top)
            /\ SentFrom(s.sent, s.client.queue)
<1> DEFINE n == Len(c.queue)
           Good(s) == /\ Kept(s.client, acks, acc, at, big, top)
                      /\ SentFrom(s.sent, s.client.queue)
<1>1. n \in Nat
  BY DEF ClientOK, ClientRecord
<1> HIDE DEF n
<1>2. PICK tr : IsSendTrace(tr, n, c, budget)
  BY SendLoopTrace DEF n
<1> DEFINE P == {k \in 0..n : Good(tr[k])}
<1>3. 0 \in P
  <2>1. tr[0] = SendStart(c, budget)
    BY <1>2 DEF IsSendTrace
  <2>2. tr[0].client = c /\ tr[0].sent = <<>>
    BY <2>1 DEF SendStart
  <2>3. SentFrom(tr[0].sent, tr[0].client.queue)
    BY <2>2 DEF SentFrom
  <2> QED
    BY <1>1, <2>2, <2>3
<1>4. ASSUME NEW k \in 1..n, k - 1 \in P PROVE k \in P
  <2>1. k - 1 \in 0..n /\ k \in 0..n
    BY <1>1
  <2>2. SendOK(tr[k - 1], n) /\ SendOK(tr[k], n) /\ Passes(tr[k - 1], tr[k], k)
    BY <1>2, <2>1 DEF IsSendTrace
  <2>3. Good(tr[k - 1])
    BY <1>4
  <2>4. Good(tr[k])
    BY <1>1, <2>2, <2>3, KeptPasses, SentPasses
  <2> QED
    BY <2>1, <2>4
<1>5. P = 0..n
  <2> HIDE DEF P
  <2>1. P \in SUBSET (0..n)
    BY DEF P
  <2> QED
    BY <1>1, <1>3, <1>4, <2>1, AllUpTo
<1>6. Good(tr[n]) /\ SendOK(tr[n], n) /\ tr[n] = SendLoop(c, budget)
  BY <1>1, <1>2, <1>5 DEF IsSendTrace
<1> QED
  BY <1>6 DEF n

LEMMA KeptMore ==
  ASSUME NEW c, ClientOK(c), NEW acks, NEW acc, NEW at, NEW big, NEW top,
         Kept(c, acks, acc, at, big, top), NEW acked, NEW arrived, at \subseteq arrived,
         NoPid \notin acked,
         \A x \in acked : x \in acks \/ \E i \in 1..Len(c.queue) :
           /\ c.queue[i].type = "PUBLISH" /\ c.queue[i].pid = x
           /\ c.queue[i].number \in arrived
  PROVE  Kept(c, acked, acc, arrived, big, top)
<1>1. ASSUME NEW j \in 1..Len(c.queue) PROVE PacketKept(c.queue[j], acked, acc, arrived, big)
  <2>1. PacketKept(c.queue[j], acks, acc, at, big)
    BY DEF Kept
  <2>2. ASSUME c.queue[j].type = "PUBLISH", c.queue[j].pid \in acked
        PROVE  c.queue[j].number \in arrived
    <3>1. CASE c.queue[j].pid \in acks
      BY <2>1, <2>2, <3>1 DEF PacketKept
    <3>2. CASE c.queue[j].pid \notin acks
      <4>1. PICK i \in 1..Len(c.queue) :
              /\ c.queue[i].type = "PUBLISH" /\ c.queue[i].pid = c.queue[j].pid
              /\ c.queue[i].number \in arrived
        BY <2>2, <3>2
      <4>2. c.queue[i].number = c.queue[j].number
        BY <2>2, <4>1 DEF Kept
      <4> QED
        BY <4>1, <4>2
    <3> QED
      BY <3>1, <3>2
  <2> QED
    BY <2>1, <2>2 DEF PacketKept
<1>2. ASSUME c.error = "OK", NEW x \in acked PROVE x \in 0..c.pid
  <2>1. CASE x \in acks
    BY <1>2, <2>1 DEF Kept
  <2>2. CASE x \notin acks
    <3>1. PICK i \in 1..Len(c.queue) : c.queue[i].type = "PUBLISH" /\ c.queue[i].pid = x
      BY <2>2
    <3>2. c.queue[i].pid <= c.pid
      BY <1>2, <3>1 DEF Kept
    <3>3. c.queue[i] \in Queued /\ c.pid \in 0..Pids
      BY ElementOfSeq DEF ClientOK, ClientRecord
    <3>4. x \in Nat /\ c.pid \in Nat
      BY <3>1, <3>3, ClientNumbers DEF Queued
    <3> QED
      BY <3>1, <3>2, <3>4
  <2> QED
    BY <2>1, <2>2
<1>3. Held(c, acc, arrived)
  BY DEF Kept, Held
<1> QED
  BY <1>1, <1>2, <1>3 DEF Kept

\* What is acknowledged was so before, or is a message that was sent and has come.
Accounted(acked, acks, sent, arrived) ==
  \A x \in acked : x \in acks \/ \E j \in 1..Len(sent) :
    /\ sent[j].type = "PUBLISH" /\ sent[j].pid = x /\ sent[j].number \in arrived

\* __mqtt_send(), and what the broker makes of it.
LEMMA KeptSend ==
  ASSUME NEW c, ClientOK(c), NEW budget \in Nat,
         NEW acks, NEW acc \in Seq({0, 1}), NEW at, NEW big \in Nat, NEW top,
         Kept(c, acks, acc, at, big, top), NEW acked, NEW arrived, at \subseteq arrived,
         NoPid \notin acked,
         Accounted(acked, acks, Send(c, budget).sent, arrived)
  PROVE  Kept(Send(c, budget).client, acked, acc, arrived, big, top)
<1> DEFINE s == SendLoop(c, budget)
           r == Send(c, budget)
<1>1. /\ SendOK(s, Len(c.queue)) /\ Kept(s.client, acks, acc, at, big, top)
      /\ SentFrom(s.sent, s.client.queue)
  BY KeptLoop
<1>2. \/ r = [client |-> c, sent |-> <<>>]
      \/ r = [client |-> KeptAlive(s.client), sent |-> s.sent]
  BY DEF Send, SendLoop, SendStart
<1> HIDE DEF r, s
<1>3. CASE r = [client |-> c, sent |-> <<>>]
  <2>1. r.client = c /\ r.sent = <<>>
    BY <1>3
  <2>2. \A x \in acked : x \in acks
    <3>1. Accounted(acked, acks, r.sent, arrived) /\ Len(r.sent) = 0
      BY <2>1 DEF r
    <3> QED
      BY <3>1 DEF Accounted
  <2>3. Kept(c, acked, acc, arrived, big, top)
    BY <2>2, KeptMore
  <2> QED
    BY <2>1, <2>3 DEF r
<1>4. CASE r = [client |-> KeptAlive(s.client), sent |-> s.sent]
  <2>1. r.client = KeptAlive(s.client) /\ r.sent = s.sent
    BY <1>4
  <2> DEFINE e == s.client
  <2>2. ClientOK(e)
    BY <1>1 DEF SendOK
  <2>3. ASSUME NEW x \in acked
        PROVE  x \in acks \/ \E i \in 1..Len(e.queue) :
                 /\ e.queue[i].type = "PUBLISH" /\ e.queue[i].pid = x
                 /\ e.queue[i].number \in arrived
    <3>1. CASE x \in acks
      BY <3>1
    <3>2. CASE x \notin acks
      <4>1. PICK j \in 1..Len(s.sent) : /\ s.sent[j].type = "PUBLISH" /\ s.sent[j].pid = x
                                        /\ s.sent[j].number \in arrived
        <5>1. Accounted(acked, acks, r.sent, arrived)
          BY DEF r
        <5> QED
          BY <2>1, <3>2, <5>1 DEF Accounted
      <4>2. PICK i \in 1..Len(e.queue) : SameMessage(s.sent[j], e.queue[i])
        BY <1>1 DEF SentFrom
      <4>3. /\ e.queue[i].type = "PUBLISH" /\ e.queue[i].pid = x
            /\ e.queue[i].number \in arrived
        BY <4>1, <4>2 DEF SameMessage
      <4> QED
        BY <4>3
    <3> QED
      BY <3>1, <3>2
  <2>8. Kept(e, acks, acc, at, big, top)
    BY <1>1
  <2> HIDE DEF e
  <2>4. Kept(e, acked, acc, arrived, big, top)
    BY <2>2, <2>3, <2>8, KeptMore
  <2>5. IsPlain(PingPacket, big)
    BY PlainPackets
  <2>6. Kept(TryPack(e, PingPacket), acked, acc, arrived, big, top)
    BY <2>2, <2>4, <2>5, KeptPlain
  <2>7. Kept(KeptAlive(e), acked, acc, arrived, big, top)
    BY <2>4, <2>6 DEF KeptAlive
  <2> QED
    BY <2>1, <2>7 DEF r, e
<1> QED
  BY <1>2, <1>3, <1>4

\* No packet of the queue has the identifier.
IsNew(q, pid) == \A i \in 1..Len(q) : q[i].pid # pid

\* As long as the identifiers do not come round, the next is a new one.
LEMMA NextPidIsNew ==
  ASSUME NEW c, ClientOK(c), NEW acks, NEW acc, NEW at, NEW big \in Nat, NEW top \in Nat,
         Kept(c, acks, acc, at, big, top), NEW stale \in 0..big,
         NEW t \in Nat, top <= t, big <= t, t + 1 <= Pids, c.error = "OK"
  PROVE  /\ NextPid(c, stale) \in 1..(t + 1) /\ c.pid < NextPid(c, stale)
         /\ IsNew(c.queue, NextPid(c, stale))
<1> DEFINE p == c.pid
           new == NextPid(c, stale)
           used == InUse(c) \union {stale}
           q == c.queue
<1>1. /\ c \in ClientRecord /\ q \in Seq(Queued) /\ p \in 0..Pids /\ p <= top
      /\ Pids \in Nat /\ Pids > 0
  BY ClientNumbers DEF ClientOK, ClientRecord, Kept
<1>2. \A i \in 1..Len(q) : q[i].pid \in Nat /\ (q[i].pid <= p \/ q[i].pid <= big)
  <2> SUFFICES ASSUME NEW i \in 1..Len(q)
               PROVE  q[i].pid \in Nat /\ (q[i].pid <= p \/ q[i].pid <= big)
    OBVIOUS
  <2>1. q[i] \in Queued
    BY <1>1, ElementOfSeq
  <2>2. /\ PacketKept(q[i], acks, acc, at, big)
        /\ q[i].type \in {"PUBLISH", "SUBSCRIBE"} => q[i].pid <= p
    BY DEF Kept
  <2> QED
    BY <2>1, <2>2 DEF PacketKept, Queued
<1> DEFINE u == IF p <= big THEN big ELSE p
<1>3. u \in Nat /\ p <= u /\ big <= u /\ u <= t /\ u + 1 <= Pids
  BY <1>1
<1>4. \A x \in used : x \in Nat /\ x <= u
  <2> SUFFICES ASSUME NEW x \in used PROVE x \in Nat /\ x <= u
    OBVIOUS
  <2>1. CASE x = stale
    BY <1>3, <2>1
  <2>2. CASE x \in InUse(c)
    <3>1. PICK i \in 1..Len(q) : x = q[i].pid
      BY <1>1, <2>2 DEF InUse
    <3>2. q[i].pid \in Nat /\ (q[i].pid <= p \/ q[i].pid <= big)
      BY <1>2
    <3> HIDE DEF u
    <3> QED
      BY <1>1, <1>3, <3>1, <3>2
  <2> QED
    BY <2>1, <2>2
<1>5. PICK k \in 1..Pids : /\ new = KthAfter(p, k)
                           /\ \A j \in 1..(k - 1) : KthAfter(p, j) \in used
  BY NextPidIsFree
<1>6. new \notin used
  BY NextPidIsFree
<1> HIDE DEF u, used, new, p
<1>7. \A j \in Nat : 1 <= j /\ p + j <= Pids => KthAfter(p, j) = p + j
  <2> SUFFICES ASSUME NEW j \in Nat, 1 <= j, p + j <= Pids PROVE KthAfter(p, j) = p + j
    OBVIOUS
  <2>1. p + j - 1 \in 0..(Pids - 1)
    BY <1>1
  <2>2. (p + j - 1) % Pids = p + j - 1
    BY <1>1, <2>1
  <2> QED
    BY <1>1, <2>2 DEF KthAfter
<1>8. k <= u + 1 - p
  <2> SUFFICES ASSUME ~(k <= u + 1 - p) PROVE FALSE
    OBVIOUS
  <2> DEFINE j == u + 1 - p
  <2>1. j \in Nat /\ 1 <= j /\ p + j = u + 1 /\ j \in 1..(k - 1)
    BY <1>1, <1>3
  <2> HIDE DEF j
  <2>2. KthAfter(p, j) = u + 1
    BY <1>3, <1>7, <2>1
  <2>3. u + 1 \in used
    BY <1>5, <2>1, <2>2
  <2> QED
    BY <1>3, <1>4, <2>3
<1>9. new = p + k
  BY <1>1, <1>3, <1>5, <1>7, <1>8
<1>10. new \in 1..(t + 1) /\ p < new
  BY <1>1, <1>3, <1>8, <1>9
<1>11. IsNew(q, new)
  BY <1>1, <1>6 DEF used, InUse, IsNew
<1> QED
  BY <1>10, <1>11 DEF new, p

\* __mqtt_next_pid()
LEMMA KeptRaised ==
  ASSUME NEW c, ClientOK(c), NEW acks, NEW acc, NEW at, NEW big \in Nat, NEW top \in Nat,
         Kept(c, acks, acc, at, big, top), NEW stale \in 0..big,
         NEW t \in Nat, top <= t, big <= t, t + 1 <= Pids
  PROVE  LET d == [c EXCEPT !.pid = NextPid(c, stale)]
         IN /\ ClientOK(d) /\ Kept(d, acks, acc, at, big, t + 1)
            /\ d.pid = NextPid(c, stale) /\ d.pid \in 1..Pids /\ d.error = c.error
            /\ d.error = "OK" => d.pid \notin acks
            /\ d.error = "OK" => IsNew(d.queue, d.pid)
<1> DEFINE new == NextPid(c, stale)
           d == [c EXCEPT !.pid = new]
<1>1. new \in 1..Pids
  BY NextPidIsFree
<1>2. c \in ClientRecord /\ new \in 0..Pids /\ c.queue \in Seq(Queued) /\ c.pid \in Nat
  BY <1>1, ClientNumbers DEF ClientOK, ClientRecord
<1>3. ClientOK(d)
  BY <1>2, PidTaken
<1>4. d.queue = c.queue /\ d.pid = new /\ d.error = c.error
  BY <1>2 DEF ClientRecord
<1>5. c.error = "OK" =>
        /\ new \in 1..(t + 1) /\ c.pid < new
        /\ IsNew(c.queue, new)
  BY NextPidIsNew
<1> HIDE DEF d, new
<1>6. ASSUME c.error = "OK"
      PROVE  /\ d.pid <= t + 1 /\ acks \subseteq 0..d.pid /\ d.pid \notin acks
             /\ \A i \in 1..Len(d.queue) :
                  d.queue[i].type \in {"PUBLISH", "SUBSCRIBE"} => d.queue[i].pid <= d.pid
  <2>1. /\ acks \subseteq 0..c.pid
        /\ \A i \in 1..Len(c.queue) :
             c.queue[i].type \in {"PUBLISH", "SUBSCRIBE"} => c.queue[i].pid <= c.pid
    BY <1>6 DEF Kept
  <2>2. new \in Nat /\ new <= t + 1 /\ c.pid < new
    BY <1>5, <1>6
  <2>3. acks \subseteq 0..new /\ new \notin acks
    BY <1>2, <2>1, <2>2
  <2>4. ASSUME NEW i \in 1..Len(c.queue), c.queue[i].type \in {"PUBLISH", "SUBSCRIBE"}
        PROVE  c.queue[i].pid <= new
    <3>1. c.queue[i].pid \in Nat
      <4>1. c.queue[i] \in Queued
        BY <1>2, ElementOfSeq
      <4> QED
        BY <4>1 DEF Queued
    <3>2. c.queue[i].pid <= c.pid
      BY <2>1, <2>4
    <3> QED
      BY <1>2, <2>2, <3>1, <3>2
  <2> QED
    BY <1>4, <2>2, <2>3, <2>4
<1>7. Kept(d, acks, acc, at, big, t + 1)
  BY <1>4, <1>6 DEF Kept, Held
<1> QED
  BY <1>1, <1>3, <1>4, <1>5, <1>6, <1>7 DEF d, new

LEMMA KeptHigher ==
  ASSUME NEW c, ClientOK(c), NEW acks, NEW acc, NEW at, NEW big, NEW top \in Nat, NEW t \in Nat,
         Kept(c, acks, acc, at, big, top), top <= t
  PROVE  Kept(c, acks, acc, at, big, t)
<1>1. c.pid \in Nat
  BY ClientNumbers DEF ClientOK, ClientRecord
<1> QED
  BY <1>1 DEF Kept

\* mqtt_subscribe()
LEMMA KeptSubscribe ==
  ASSUME NEW c, ClientOK(c), NEW acks, NEW acc \in Seq({0, 1}), NEW at, NEW big \in Nat,
         NEW top \in Nat, Kept(c, acks, acc, at, big, top), NEW stale \in 0..big,
         NEW t \in Nat, top <= t, big <= t, t + 1 <= Pids
  PROVE  Kept(Subscribe(c, stale), acks, acc, at, big, t + 1)
<1> DEFINE d == [c EXCEPT !.pid = NextPid(c, stale)]
           p == SubscribePacket(d.pid)
<1>1. /\ ClientOK(d) /\ Kept(d, acks, acc, at, big, t + 1)
      /\ d.pid = NextPid(c, stale) /\ d.pid \in 1..Pids /\ d.error = c.error
      /\ d.error = "OK" => d.pid \notin acks
      /\ d.error = "OK" => IsNew(d.queue, d.pid)
  BY KeptRaised
<1>2. Subscribe(c, stale) = TryPack(d, p)
  BY <1>1 DEF Subscribe
<1> HIDE DEF d
<1>3. d.pid \in Nat
  BY <1>1
<1>4. /\ p \in Queued /\ p.state = "unsent" /\ p.type = "SUBSCRIBE" /\ p.pid = d.pid
      /\ p.number = 0
  BY <1>3, PacketsQueued DEF SubscribePacket, Packet
<1> HIDE DEF p
<1>5. NoTwin(d, p) /\ Continues(acc, acc, p) /\ PacketKept(p, acks, acc, at, big)
  BY <1>4 DEF NoTwin, Continues, PacketKept
<1>6. p.pid <= d.pid
  BY <1>3, <1>4
<1>7. Kept(TryPack(d, p), acks, acc, at, big, t + 1)
  BY <1>1, <1>4, <1>5, <1>6, KeptTryPack
<1> QED
  BY <1>2, <1>7

\* mqtt_publish()
LEMMA KeptPublish ==
  ASSUME NEW c, ClientOK(c), NEW acks, NEW acc \in Seq({0, 1}), NEW at, NEW big \in Nat,
         NEW top \in Nat, Kept(c, acks, acc, at, big, top), NEW stale \in 0..big,
         NEW t \in Nat, top <= t, big <= t, t + 1 <= Pids,
         NEW qos \in {0, 1}, NEW size \in Nat \ {0}, NEW number, number = Len(acc) + 1
  PROVE  LET r == Publish(c, stale, qos, size, number)
         IN /\ r.error = "OK" => Kept(r, acks, Append(acc, qos), at, big, t + 1)
            /\ r.error # "OK" => Kept(r, acks, acc, at, big, t + 1)
<1> DEFINE d == [c EXCEPT !.pid = NextPid(c, stale)]
           p == PublishPacket(d.pid, qos, size, number)
           more == Append(acc, qos)
<1>1. /\ ClientOK(d) /\ Kept(d, acks, acc, at, big, t + 1)
      /\ d.pid = NextPid(c, stale) /\ d.pid \in 1..Pids
      /\ d.error = "OK" => d.pid \notin acks
      /\ d.error = "OK" => IsNew(d.queue, d.pid)
  BY KeptRaised
<1>2. Publish(c, stale, qos, size, number) = TryPack(d, p)
  BY <1>1 DEF Publish
<1> HIDE DEF d
<1>3. d.pid \in Nat /\ d.pid # NoPid /\ number \in Nat /\ number >= 1
  BY <1>1 DEF NoPid
<1>4. /\ p \in Queued /\ p.state = "unsent" /\ p.type = "PUBLISH" /\ p.pid = d.pid
      /\ p.number = number /\ p.qos = qos
  BY <1>3, PacketsQueued DEF PublishPacket, Packet
<1> HIDE DEF p
<1>5. /\ more \in Seq({0, 1}) /\ Len(more) = number /\ more[number] = qos
      /\ \A n \in 1..Len(acc) : more[n] = acc[n]
  BY AppendProperties
<1> HIDE DEF more
<1>6. Continues(acc, more, p)
  BY <1>3, <1>4, <1>5 DEF Continues
<1>7. CASE d.error = "OK"
  <2>1. NoTwin(d, p) /\ PacketKept(p, acks, more, at, big)
    BY <1>1, <1>3, <1>4, <1>5, <1>7 DEF NoTwin, PacketKept, IsNew
  <2>2. p.pid <= d.pid
    BY <1>3, <1>4
  <2>3. /\ TryPack(d, p).error = "OK" => Kept(TryPack(d, p), acks, more, at, big, t + 1)
        /\ TryPack(d, p).error # "OK" => Kept(TryPack(d, p), acks, acc, at, big, t + 1)
    BY <1>1, <1>4, <1>5, <1>6, <2>1, <2>2, KeptTryPack
  <2> QED
    BY <1>2, <2>3 DEF more
<1>8. CASE d.error # "OK"
  <2>1. TryPack(d, p) = d
    BY <1>8 DEF TryPack
  <2>2. Publish(c, stale, qos, size, number) = d
    BY <1>2, <2>1
  <2>3. Kept(d, acks, acc, at, big, t + 1)
    BY <1>1
  <2> QED
    BY <1>8, <2>2, <2>3
<1> QED
  BY <1>7, <1>8

\* A second passes.
LEMMA KeptAged ==
  ASSUME NEW c, ClientOK(c), NEW acks, NEW acc, NEW at, NEW big, NEW top,
         Kept(c, acks, acc, at, big, top)
  PROVE  Kept(Aged(c), acks, acc, at, big, top)
<1> DEFINE d == Aged(c)
           n == Len(c.queue)
<1>0. c \in ClientRecord /\ c.queue \in Seq(Queued)
  BY DEF ClientOK, ClientRecord
<1>1. /\ ClientOK(d) /\ Len(d.queue) = n
      /\ \A i \in 1..n : \/ d.queue[i] = c.queue[i]
                         \/ d.queue[i] = [c.queue[i] EXCEPT !.age = @ + 1]
      /\ d = [c EXCEPT !.queue = d.queue, !.idle = d.idle]
  BY AgedOK
<1>2. d.pid = c.pid /\ d.error = c.error
  <2> HIDE DEF d
  <2> QED
    BY <1>0, <1>1 DEF ClientRecord
<1> HIDE DEF d
<1>3. ASSUME NEW i \in 1..n
      PROVE  SameMessage(c.queue[i], d.queue[i]) /\ d.queue[i].state = c.queue[i].state
  <2> DEFINE m == c.queue[i]
             r == d.queue[i]
  <2>1. m \in Queued /\ (r = m \/ r = [m EXCEPT !.age = @ + 1])
    BY <1>0, <1>1, ElementOfSeq
  <2> HIDE DEF m, r
  <2>2. SameMessage(m, r) /\ r.state = m.state
    BY <2>1 DEF SameMessage, Queued
  <2> QED
    BY <2>2 DEF m, r
<1>4. \A j \in 1..Len(d.queue) : \E i \in 1..Len(c.queue) :
        SameMessage(c.queue[i], d.queue[j])
  BY <1>1, <1>3
<1>5. Held(d, acc, at)
  <2> SUFFICES ASSUME NEW x \in 1..Len(acc), acc[x] = 1, x \notin at
               PROVE  \E j \in 1..Len(d.queue) : d.queue[j].number = x
                                                 /\ d.queue[j].state # "complete"
    BY DEF Held
  <2>1. PICK j \in 1..Len(c.queue) : c.queue[j].number = x /\ c.queue[j].state # "complete"
    BY DEF Kept, Held
  <2> QED
    BY <1>1, <1>3, <2>1 DEF SameMessage
<1>6. Kept(d, acks, acc, at, big, top)
  BY <1>2, <1>4, <1>5, KeptBy
<1> QED
  BY <1>6 DEF d

\* Fewer acknowledgements are on the way.
LEMMA KeptFewer ==
  ASSUME NEW c, ClientOK(c), NEW acks, NEW acc, NEW at, NEW big, NEW top,
         Kept(c, acks, acc, at, big, top), NEW fewer, fewer \subseteq acks
  PROVE  Kept(c, fewer, acc, at, big, top)
<1>1. NoPid \notin fewer /\ at \subseteq at
  BY DEF Kept
<1>2. \A x \in fewer : x \in acks
  OBVIOUS
<1> QED
  BY <1>1, <1>2, KeptMore

LEMMA AcksOfSome ==
  ASSUME NEW packets \in Seq(Incoming)
  PROVE  /\ \A n \in Nat : AcksOf(SubSeq(packets, n + 1, Len(packets))) \subseteq AcksOf(packets)
         /\ \A p \in Incoming : p.type # "PUBACK" =>
              AcksOf(Append(packets, p)) \subseteq AcksOf(packets)
         /\ packets \in Seq(Expected(AcksOf(packets)))
<1> DEFINE l == Len(packets)
<1>1. l \in Nat /\ \A i \in 1..l : packets[i] \in Incoming
  BY ElementOfSeq
<1>2. ASSUME NEW n \in Nat
      PROVE  AcksOf(SubSeq(packets, n + 1, l)) \subseteq AcksOf(packets)
  <2> DEFINE r == SubSeq(packets, n + 1, l)
  <2>1. \A i \in 1..Len(r) : n + i \in 1..l /\ r[i] = packets[n + i]
    <3>1. /\ Len(r) = IF n + 1 <= l THEN l - (n + 1) + 1 ELSE 0
          /\ \A i \in 1..(l - (n + 1) + 1) : r[i] = packets[(n + 1) + i - 1]
      <4>1. \A i \in (n + 1)..l : packets[i] \in Incoming
        BY <1>1
      <4>2. n + 1 \in Int /\ l \in Int
        BY <1>1
      <4> QED
        BY <4>1, <4>2, SubSeqProperties
    <3> HIDE DEF r
    <3> SUFFICES ASSUME NEW i \in 1..Len(r) PROVE n + i \in 1..l /\ r[i] = packets[n + i]
      OBVIOUS
    <3>2. n + 1 <= l /\ Len(r) = l - n /\ i \in 1..(l - (n + 1) + 1)
      BY <1>1, <3>1
    <3>3. n + i \in 1..l /\ (n + 1) + i - 1 = n + i
      BY <1>1, <3>2
    <3> QED
      BY <3>1, <3>2, <3>3
  <2> HIDE DEF r
  <2>2. AcksOf(r) \subseteq AcksOf(packets)
    BY <2>1 DEF AcksOf
  <2> QED
    BY <2>2 DEF r
<1>3. ASSUME NEW p \in Incoming, p.type # "PUBACK"
      PROVE  AcksOf(Append(packets, p)) \subseteq AcksOf(packets)
  <2> DEFINE r == Append(packets, p)
  <2>1. /\ Len(r) = l + 1 /\ r[l + 1] = p /\ \A i \in 1..l : r[i] = packets[i]
        /\ \A i \in 1..(l + 1) : i \in 1..l \/ i = l + 1
    BY <1>1, AppendProperties
  <2> HIDE DEF r
  <2>2. \A i \in 1..Len(r) : r[i].type = "PUBACK" => i \in 1..l /\ r[i] = packets[i]
    BY <1>3, <2>1
  <2>3. AcksOf(r) \subseteq AcksOf(packets)
    BY <2>2 DEF AcksOf
  <2> QED
    BY <2>3 DEF r
<1>4. packets \in Seq(Expected(AcksOf(packets)))
  <2>1. \A i \in 1..l : packets[i] \in Expected(AcksOf(packets))
    BY <1>1 DEF Expected, AcksOf
  <2> QED
    BY <1>1, <2>1, SeqDef
<1> QED
  BY <1>2, <1>3, <1>4

\* The messages that were sent have identifiers.
LEMMA SentHavePids ==
  ASSUME NEW c, ClientOK(c), NEW budget \in Nat,
         NEW acks, NEW acc \in Seq({0, 1}), NEW at, NEW big, NEW top,
         Kept(c, acks, acc, at, big, top), NEW j \in 1..Len(Send(c, budget).sent),
         Send(c, budget).sent[j].type = "PUBLISH"
  PROVE  Send(c, budget).sent[j].pid # NoPid
<1> DEFINE s == SendLoop(c, budget)
           r == Send(c, budget)
<1>1. Kept(s.client, acks, acc, at, big, top) /\ SentFrom(s.sent, s.client.queue)
  BY KeptLoop
<1>2. \/ r = [client |-> c, sent |-> <<>>]
      \/ r = [client |-> KeptAlive(s.client), sent |-> s.sent]
  BY DEF Send, SendLoop, SendStart
<1>3. j \in 1..Len(r.sent) /\ r.sent[j].type = "PUBLISH"
  OBVIOUS
<1> HIDE DEF r, s
<1>4. r.sent = s.sent
  <2>1. r.sent = <<>> => FALSE
    BY <1>3
  <2> QED
    BY <1>2, <2>1
<1>5. PICK i \in 1..Len(s.client.queue) : SameMessage(s.sent[j], s.client.queue[i])
  BY <1>1, <1>3, <1>4 DEF SentFrom
<1>6. PacketKept(s.client.queue[i], acks, acc, at, big)
  BY <1>1 DEF Kept
<1>7. r.sent[j].pid # NoPid
  BY <1>3, <1>4, <1>5, <1>6 DEF PacketKept, SameMessage
<1> QED
  BY <1>7 DEF r

\* What the broker sends back acknowledges what has come.
Acknowledging(sent, arrived) ==
  {r \in Replies : r.type = "PUBACK" =>
     \E j \in 1..Len(sent) : /\ sent[j].type = "PUBLISH" /\ sent[j].pid = r.pid
                             /\ sent[j].number \in arrived}

LEMMA AnswersAcknowledge ==
  ASSUME NEW sent \in Seq(Queued), NEW refuses, NEW arrived,
         \A j \in 1..Len(sent) : sent[j].type = "PUBLISH" => sent[j].number \in arrived
  PROVE  Answers(sent, refuses) \in Seq(Acknowledging(sent, arrived))
<1> DEFINE S == Acknowledging(sent, arrived)
<1>1. ASSUME NEW i \in 1..Len(sent) PROVE Answer(sent[i], refuses) \in Seq(S)
  <2> DEFINE m == sent[i]
             a == Answer(m, refuses)
  <2>1. m \in Queued
    BY ElementOfSeq
  <2>2. \/ a = <<>>
        \/ \E r \in Replies : /\ a = <<r>>
                              /\ r.type \in DOMAIN AnswerTo
                              /\ AnswerTo[r.type] = m.type
                              /\ \/ r.pid = NoPid /\ m.type \in {"CONNECT", "PINGREQ"}
                                 \/ r.pid = m.pid /\ m.type = "SUBSCRIBE"
                                 \/ r.pid = m.pid /\ m.type = "PUBLISH" /\ m.qos = 1
    BY <2>1, AnswerIsReply
  <2> HIDE DEF a, S
  <2>3. CASE a = <<>>
    <3>1. <<>> \in Seq(S)
      OBVIOUS
    <3> QED
      BY <2>3, <3>1 DEF a
  <2>4. CASE a # <<>>
    <3>1. PICK r \in Replies : /\ a = <<r>> /\ r.type \in DOMAIN AnswerTo
                               /\ AnswerTo[r.type] = m.type
                               /\ \/ r.pid = NoPid /\ m.type \in {"CONNECT", "PINGREQ"}
                                  \/ r.pid = m.pid /\ m.type = "SUBSCRIBE"
                                  \/ r.pid = m.pid /\ m.type = "PUBLISH" /\ m.qos = 1
      BY <2>2, <2>4
    <3>2. r.type = "PUBACK" => m.type = "PUBLISH" /\ r.pid = m.pid
      BY <3>1 DEF AnswerTo
    <3>3. r \in S
      BY <3>1, <3>2 DEF S, Acknowledging
    <3>4. <<r>> \in Seq(S)
      BY <3>3
    <3> QED
      BY <3>1, <3>4 DEF a
  <2> QED
    BY <2>3, <2>4
<1> QED
  BY <1>1, AnswersIn

\* What the broker gets, and what comes back for it.
LEMMA ReachAcks ==
  ASSUME NEW s, s.sent \in Seq(Queued), NEW rest \in Seq(Incoming), NEW refuses,
         Reach(s, rest, refuses)
  PROVE  /\ at_broker \subseteq at_broker'
         /\ Accounted(AcksOf(on_the_way'), AcksOf(rest), s.sent, at_broker')
<1> DEFINE arrived == IF s.client.torn THEN <<>> ELSE s.sent
           a == Answers(arrived, refuses)
           S == Acknowledging(arrived, at_broker')
<1>1. /\ on_the_way' = rest \o a
      /\ at_broker' = at_broker \union
           {arrived[i].number : i \in {j \in DOMAIN arrived : arrived[j].type = "PUBLISH"}}
  BY DEF Reach
<1>2. arrived \in Seq(Queued)
  <2>1. <<>> \in Seq(Queued)
    OBVIOUS
  <2> QED
    BY <2>1
<1>3. \A j \in 1..Len(arrived) : arrived[j].type = "PUBLISH" =>
        arrived[j].number \in at_broker'
  <2> HIDE DEF arrived
  <2>1. DOMAIN arrived = 1..Len(arrived)
    BY <1>2
  <2> QED
    BY <1>1, <2>1
<1>4. a \in Seq(S)
  <2> HIDE DEF arrived
  <2> QED
    BY <1>2, <1>3, AnswersAcknowledge
<1>5. /\ Len(rest \o a) = Len(rest) + Len(a) /\ Len(rest) \in Nat /\ Len(a) \in Nat
      /\ \A i \in 1..Len(rest) : (rest \o a)[i] = rest[i]
      /\ \A i \in 1..Len(a) : (rest \o a)[Len(rest) + i] = a[i]
  <2> HIDE DEF a, S
  <2> QED
    BY <1>4
<1>6. ASSUME NEW x \in AcksOf(on_the_way')
      PROVE  x \in AcksOf(rest) \/ \E j \in 1..Len(arrived) :
               /\ arrived[j].type = "PUBLISH" /\ arrived[j].pid = x
               /\ arrived[j].number \in at_broker'
  <2> HIDE DEF a, S, arrived
  <2> DEFINE w == rest \o a
  <2>1. PICK i \in 1..Len(w) : w[i].type = "PUBACK" /\ x = w[i].pid
    BY <1>1 DEF AcksOf
  <2>2. CASE i \in 1..Len(rest)
    BY <1>5, <2>1, <2>2 DEF AcksOf
  <2>3. CASE i \notin 1..Len(rest)
    <3> DEFINE k == i - Len(rest)
    <3>1. k \in 1..Len(a) /\ i = Len(rest) + k
      BY <1>5, <2>3
    <3>2. w[i] = a[k] /\ a[k] \in S
      <4>1. a[k] \in S
        BY <1>4, <3>1, ElementOfSeq
      <4> QED
        BY <1>5, <3>1, <4>1
    <3> HIDE DEF k, w
    <3> QED
      BY <2>1, <3>2 DEF S, Acknowledging
  <2> QED
    BY <2>2, <2>3
<1>7. CASE s.client.torn
  <2>1. arrived = <<>>
    BY <1>7
  <2> HIDE DEF arrived
  <2>2. Len(arrived) = 0
    BY <2>1
  <2>3. \A x \in AcksOf(on_the_way') : x \in AcksOf(rest)
    BY <1>6, <2>2
  <2> QED
    BY <1>1, <2>3 DEF Accounted
<1>8. CASE ~s.client.torn
  <2>1. arrived = s.sent
    BY <1>8
  <2> HIDE DEF arrived, a, S
  <2> QED
    BY <1>1, <1>6, <2>1 DEF Accounted
<1> QED
  BY <1>7, <1>8

\* The client and what is on the way to it; before the CONNECT nothing is.
Remembers(big) ==
  /\ stage = "connecting" => accepted = <<>> /\ on_the_way = <<>>
  /\ Kept(client, AcksOf(on_the_way), accepted, at_broker, big,
          IF stage = "connecting" THEN 0 ELSE big + Len(accepted) + 1)

\* A client that was made anew has nothing to remember.
LEMMA KeptNew ==
  ASSUME NEW idle \in Nat, NEW at, NEW big \in Nat
  PROVE  Kept(Connect(NewClient(idle)), AcksOf(<<>>), <<>>, at, big, 0)
<1> DEFINE c == NewClient(idle)
<1>1. c.queue = <<>> /\ c.pid = 0 /\ ClientOK(c)
  BY NewClientOK DEF NewClient
<1>2. AcksOf(<<>>) = {} /\ Len(<<>>) = 0
  BY DEF AcksOf
<1> HIDE DEF c
<1>3. Kept(c, {}, <<>>, at, big, 0)
  BY <1>1 DEF Kept, Held
<1>4. IsPlain(ConnectPacket, big) /\ <<>> \in Seq({0, 1})
  BY PlainPackets
<1>5. Kept(TryPack(c, ConnectPacket), {}, <<>>, at, big, 0)
  BY <1>1, <1>3, <1>4, KeptPlain
<1> QED
  BY <1>2, <1>5 DEF Connect, c

\* mqtt_sync(), as far as the client and the broker are concerned.
LEMMA KeptExchange ==
  ASSUME NEW c, ClientOK(c), on_the_way \in Seq(Incoming), NEW k \in 0..Len(on_the_way),
         NEW budget \in Budgets, NEW stops \in BOOLEAN, NEW refuses,
         NEW r, r = Receive(c, Whole(on_the_way, k)),
         NEW s, s = IF r.failed \/ stops THEN [client |-> r.client, sent |-> <<>>]
                    ELSE Send(r.client, budget),
         Reach(s, Rest(r.read), refuses),
         NEW acc \in Seq({0, 1}), NEW big \in Nat, Len(Offers) <= big, NEW top,
         Kept(c, AcksOf(on_the_way), acc, at_broker, big, top)
  PROVE  Kept(s.client, AcksOf(on_the_way'), acc, at_broker', big, top)
<1> DEFINE acks == AcksOf(on_the_way)
           rest == Rest(r.read)
           acked == AcksOf(on_the_way')
<1>1. ReceivedOK(r) /\ s.sent \in Seq(Queued)
  BY ReceivedAndSent
<1>2. ClientOK(r.client) /\ r.read \in Nat /\ budget \in Nat
  BY <1>1, TransportNumbers DEF ReceivedOK, Received
<1>3. Whole(on_the_way, k) \in Seq(Expected(acks))
  <2>1. on_the_way \in Seq(Expected(acks))
    BY AcksOfSome
  <2>2. \A i \in 1..k : on_the_way[i] \in Expected(acks)
    <3> HIDE DEF acks
    <3> QED
      BY <2>1, ElementOfSeq
  <2> HIDE DEF acks
  <2> QED
    BY <2>1, <2>2, SubSeqProperties DEF Whole
<1>4. Kept(r.client, acks, acc, at_broker, big, top)
  <2> HIDE DEF acks
  <2> DEFINE packets == Whole(on_the_way, k)
  <2>1. Kept(c, acks, acc, at_broker, big, top) /\ packets \in Seq(Expected(acks))
    BY <1>3 DEF acks
  <2> HIDE DEF packets
  <2>2. Kept(Receive(c, packets).client, acks, acc, at_broker, big, top)
    BY <2>1, KeptReceived
  <2> QED
    BY <2>2 DEF packets
<1>5. rest \in Seq(Incoming) /\ AcksOf(rest) \subseteq acks
  <2>1. rest \in Seq(Incoming)
    BY <1>2, RestOK
  <2>2. AcksOf(SubSeq(on_the_way, r.read + 1, Len(on_the_way))) \subseteq acks
    BY <1>2, AcksOfSome
  <2> QED
    BY <2>1, <2>2 DEF Rest
<1>6. /\ at_broker \subseteq at_broker'
      /\ Accounted(acked, AcksOf(rest), s.sent, at_broker')
  BY <1>1, <1>5, ReachAcks
<1>7. NoPid \notin acks
  BY <1>4 DEF Kept
<1> HIDE DEF acks, rest, acked
<1>8. CASE r.failed \/ stops
  <2>1. s.client = r.client /\ s.sent = <<>>
    BY <1>8
  <2>2. Len(s.sent) = 0
    BY <2>1
  <2>3. \A x \in acked : x \in acks
    BY <1>5, <1>6, <2>2 DEF Accounted
  <2>4. Kept(r.client, acked, acc, at_broker', big, top)
    BY <1>2, <1>4, <1>6, <1>7, <2>3, KeptMore
  <2> QED
    BY <2>1, <2>4 DEF acked
<1>9. CASE ~(r.failed \/ stops)
  <2> DEFINE t == Send(r.client, budget)
  <2>1. s = t
    BY <1>9
  <2>2. \A j \in 1..Len(t.sent) : t.sent[j].type = "PUBLISH" => t.sent[j].pid # NoPid
    BY <1>2, <1>4, SentHavePids
  <2>3. Accounted(acked, acks, t.sent, at_broker')
    BY <1>5, <1>6, <2>1 DEF Accounted
  <2>4. NoPid \notin acked
    <3> HIDE DEF t
    <3> QED
      BY <1>7, <2>2, <2>3 DEF Accounted
  <2>5. Kept(t.client, acked, acc, at_broker', big, top)
    BY <1>2, <1>4, <1>6, <2>3, <2>4, KeptSend
  <2> QED
    BY <2>1, <2>5 DEF acked
<1> QED
  BY <1>8, <1>9

\* A first publication that did not fit is one of QoS 0 from then on.
LEMMA KeptNothing ==
  ASSUME NEW c, NEW acks, NEW at, NEW big, NEW top, Kept(c, acks, <<>>, at, big, top)
  PROVE  Kept(c, acks, <<0>>, at, big, top)
<1>1. Len(<<>>) = 0 /\ Len(<<0>>) = 1 /\ <<0>>[1] = 0
  OBVIOUS
<1>2. \A i \in 1..Len(c.queue) : PacketKept(c.queue[i], acks, <<0>>, at, big)
  BY <1>1 DEF Kept, PacketKept
<1>3. Held(c, <<0>>, at)
  BY <1>1 DEF Held
<1> QED
  BY <1>2, <1>3 DEF Kept

\* The CONNECT is sent, SUBSCRIBE and the announcement are queued.
LEMMA OpenRemembers ==
  ASSUME TransportOK, NEW big \in Nat, Len(Offers) <= big, \A g \in Garbage : g <= big,
         big + 2 <= Pids, Remembers(big), NEW budget \in Budgets, NEW refuses \in BOOLEAN,
         Open(budget, refuses)
  PROVE  Remembers(big)'
<1> DEFINE s == Send(client, budget)
           acks == AcksOf(on_the_way)
           acked == AcksOf(on_the_way')
<1>1. /\ ClientOK(client) /\ on_the_way \in Seq(Incoming) /\ budget \in Nat
      /\ stage = "connecting" /\ accepted = <<>> /\ stage' = "up"
      /\ Kept(client, acks, <<>>, at_broker, big, 0)
  BY TransportNumbers DEF TransportOK, Open, Remembers
<1>2. PICK stale \in Garbage :
        /\ client' = Publish(Subscribe(s.client, stale), stale, 1, 1, 1)
        /\ Reach(s, on_the_way, refuses)
  BY DEF Open
<1>3. ClientOK(s.client) /\ s.sent \in Seq(Queued)
  BY <1>1, SendOutcome
<1>4. /\ at_broker \subseteq at_broker'
      /\ Accounted(acked, acks, s.sent, at_broker')
  <2> HIDE DEF s
  <2> QED
    BY <1>1, <1>2, <1>3, ReachAcks
<1>0. <<>> \in Seq({0, 1}) /\ Len(<<>>) = 0
  OBVIOUS
<1>5. \A j \in 1..Len(s.sent) : s.sent[j].type = "PUBLISH" => s.sent[j].pid # NoPid
  BY <1>0, <1>1, SentHavePids
<1>6. NoPid \notin acks
  BY <1>1 DEF Kept
<1>7. NoPid \notin acked
  <2> HIDE DEF s, acks, acked
  <2> QED
    BY <1>4, <1>5, <1>6 DEF Accounted
<1>8. Kept(s.client, acked, <<>>, at_broker', big, 0)
  <2> HIDE DEF acks, acked
  <2> QED
    BY <1>0, <1>1, <1>4, <1>7, KeptSend
<1> HIDE DEF s, acks, acked
<1> DEFINE d == Subscribe(s.client, stale)
<1>9. stale \in 0..big /\ stale \in Nat /\ 0 \in Nat /\ big + 1 \in Nat /\ 0 <= big /\ big <= big
      /\ big <= big + 1 /\ big + 1 <= big + 1 /\ big + 1 <= Pids /\ (big + 1) + 1 <= Pids
      /\ Pids \in Nat
  BY TransportNumbers, ClientNumbers
<1>10. Kept(d, acked, <<>>, at_broker', big, big + 1)
  BY <1>0, <1>3, <1>8, <1>9, KeptSubscribe
<1>11. ClientOK(d)
  BY <1>3, <1>9, CallsOK
<1> HIDE DEF d
<1> DEFINE r == Publish(d, stale, 1, 1, 1)
<1>12. /\ r.error = "OK" => Kept(r, acked, Append(<<>>, 1), at_broker', big, (big + 1) + 1)
       /\ r.error # "OK" => Kept(r, acked, <<>>, at_broker', big, (big + 1) + 1)
  <2>1. 1 \in {0, 1} /\ 1 \in Nat \ {0} /\ 1 = Len(<<>>) + 1
    OBVIOUS
  <2> QED
    BY <1>0, <1>9, <1>10, <1>11, <2>1, KeptPublish
<1>13. /\ client' = r /\ accepted' = IF r.error = "OK" THEN <<1>> ELSE <<0>>
  BY <1>2 DEF d, Open
<1> HIDE DEF r
<1>14. Kept(r, acked, accepted', at_broker', big, (big + 1) + 1)
  <2>1. Append(<<>>, 1) = <<1>>
    OBVIOUS
  <2> QED
    BY <1>12, <1>13, <2>1, KeptNothing
<1>15. Len(accepted') = 1 /\ (big + 1) + 1 = big + Len(accepted') + 1
  BY <1>13
<1> QED
  BY <1>1, <1>13, <1>14, <1>15 DEF Remembers, acked

LEMMA StartRemembers ==
  ASSUME NEW big \in Nat, TransportInit
  PROVE  Remembers(big)
<1>1. KeepAlive + 1 \in Nat
  BY ClientNumbers
<1>2. Kept(Connect(NewClient(KeepAlive + 1)), AcksOf(<<>>), <<>>, at_broker, big, 0)
  BY <1>1, KeptNew
<1> QED
  BY <1>2 DEF TransportInit, Remembers

\* All but what goes through the client's queue.
LEMMA RestRemembers ==
  ASSUME TransportOK, NEW big \in Nat, Remembers(big),
         Offer \/ Break \/ TransportTick \/ Reopen \/ SyncFails
  PROVE  Remembers(big)'
<1> DEFINE acks == AcksOf(on_the_way)
           top == IF stage = "connecting" THEN 0 ELSE big + Len(accepted) + 1
<1>1. /\ ClientOK(client) /\ on_the_way \in Seq(Incoming) /\ accepted \in Seq({0, 1})
      /\ Kept(client, acks, accepted, at_broker, big, top)
  BY DEF TransportOK, Remembers
<1> HIDE DEF acks, top
<1>2. CASE Offer
  <2> DEFINE o == Offers[offered']
             p == IF o.kind = "TOO_LARGE" THEN TooLarge
                  ELSE Message(offered', o.qos, offered')
  <2>1. on_the_way' = Append(on_the_way, p) /\ p.type # "PUBACK"
    BY <1>2 DEF Offer, TooLarge, Message, Answering
  <2>2. p \in Incoming
    <3>1. TransportOK' /\ on_the_way' \in Seq(Incoming)
      BY <1>2, ConnectionStepOK DEF TransportOK
    <3> DEFINE l == Len(on_the_way)
    <3>2. /\ l \in Nat /\ Len(on_the_way') = l + 1 /\ on_the_way'[l + 1] = p
      <4> HIDE DEF p
      <4> QED
        BY <1>1, <2>1, AppendProperties
    <3>3. l + 1 \in 1..Len(on_the_way')
      BY <3>2
    <3> HIDE DEF p, l
    <3> QED
      BY <3>1, <3>2, <3>3, ElementOfSeq
  <2> HIDE DEF p
  <2>3. AcksOf(on_the_way') \subseteq acks
    BY <1>1, <2>1, <2>2, AcksOfSome DEF acks
  <2>4. Kept(client, AcksOf(on_the_way'), accepted, at_broker, big, top)
    BY <1>1, <2>3, KeptFewer
  <2> QED
    BY <1>2, <2>4 DEF Offer, Remembers, top
<1>3. CASE Break
  <2>1. AcksOf(on_the_way') \subseteq acks
    <3>1. Len(<<>>) = 0 /\ on_the_way' = <<>>
      BY <1>3 DEF Break
    <3> QED
      BY <3>1 DEF AcksOf
  <2>2. Kept(client, AcksOf(on_the_way'), accepted, at_broker, big, top)
    BY <1>1, <2>1, KeptFewer
  <2> QED
    BY <1>3, <2>2 DEF Break, Remembers, top
<1>4. CASE TransportTick
  <2>1. Kept(Aged(client), acks, accepted, at_broker, big, top)
    BY <1>1, KeptAged
  <2> QED
    BY <1>4, <2>1 DEF TransportTick, Remembers, top, acks
<1>5. CASE Reopen
  <2>1. stage = "connecting" /\ accepted = <<>> /\ on_the_way = <<>>
        /\ UNCHANGED <<accepted, on_the_way, at_broker>>
    BY <1>5 DEF Reopen, Remembers
  <2>2. CASE stage' = "failed" /\ UNCHANGED client
    <3>1. top = 0 /\ big + Len(accepted) + 1 \in Nat /\ 0 \in Nat
          /\ 0 <= big + Len(accepted) + 1
      BY <2>1 DEF top
    <3>2. Kept(client, acks, accepted, at_broker, big, big + Len(accepted) + 1)
      BY <1>1, <3>1, KeptHigher
    <3> QED
      BY <2>1, <2>2, <3>2 DEF Remembers, acks
  <2>3. CASE client' = Connect(NewClient(client.idle)) /\ UNCHANGED stage
    <3>1. client.idle \in Nat
      BY <1>1 DEF ClientOK, ClientRecord
    <3>2. Kept(client', AcksOf(<<>>), <<>>, at_broker, big, 0)
      BY <2>3, <3>1, KeptNew
    <3> QED
      BY <2>1, <2>3, <3>2 DEF Remembers
  <2> QED
    BY <1>5, <2>2, <2>3 DEF Reopen
<1>6. CASE SyncFails
  <2>1. client' = WithError(client, "SOCKET_ERROR")
    BY <1>6 DEF SyncFails, WithError
  <2>2. Kept(client', acks, accepted, at_broker, big, top)
    BY <1>1, <2>1, KeptError DEF Errors
  <2> QED
    BY <1>6, <2>2 DEF SyncFails, Remembers, top, acks
<1> QED
  BY <1>2, <1>3, <1>4, <1>5, <1>6

LEMMA PublishRemembers ==
  ASSUME TransportOK, NEW big \in Nat, \A g \in Garbage : g <= big,
         big + MaxPublishes + 1 <= Pids, Remembers(big),
         NEW qos \in {0, 1}, NEW size \in Sizes, NEW stale \in Garbage,
         PublishMessage(qos, size, stale)
  PROVE  Remembers(big)'
<1> DEFINE acks == AcksOf(on_the_way)
           l == Len(accepted)
           t == big + l + 1
           r == Publish(client, stale, qos, size, l + 1)
<1>1. /\ ClientOK(client) /\ accepted \in Seq({0, 1}) /\ stage = "up" /\ l < MaxPublishes
      /\ client' = r
      /\ accepted' = IF r.error = "OK" THEN Append(accepted, qos) ELSE accepted
      /\ UNCHANGED <<stage, on_the_way, at_broker>>
  BY DEF TransportOK, PublishMessage
<1>2. Kept(client, acks, accepted, at_broker, big, t)
  BY <1>1 DEF Remembers
<1>3. /\ l \in Nat /\ t \in Nat /\ t <= t /\ big <= t /\ t + 1 <= Pids
      /\ stale \in 0..big /\ size \in Nat \ {0}
  BY <1>1, TransportNumbers, ClientNumbers, MqttTransportAssumption
<1> HIDE DEF r
<1>4. /\ r.error = "OK" => Kept(r, acks, Append(accepted, qos), at_broker, big, t + 1)
      /\ r.error # "OK" => Kept(r, acks, accepted, at_broker, big, t + 1)
  <2> HIDE DEF acks, t
  <2>1. l + 1 = Len(accepted) + 1
    OBVIOUS
  <2> DEFINE number == l + 1
  <2> HIDE DEF number
  <2>2. LET x == Publish(client, stale, qos, size, number)
        IN /\ x.error = "OK" => Kept(x, acks, Append(accepted, qos), at_broker, big, t + 1)
           /\ x.error # "OK" => Kept(x, acks, accepted, at_broker, big, t + 1)
    <3>1. number = Len(accepted) + 1
      BY DEF number
    <3> QED
      BY <1>1, <1>2, <1>3, <3>1, KeptPublish
  <2> QED
    BY <2>2 DEF r, number
<1>5. CASE r.error = "OK"
  <2>1. Len(Append(accepted, qos)) = l + 1
    BY <1>1
  <2>2. big + (l + 1) + 1 = t + 1
    BY <1>3
  <2> HIDE DEF t, l
  <2> QED
    BY <1>1, <1>4, <1>5, <2>1, <2>2 DEF Remembers
<1>6. CASE r.error # "OK"
  <2>1. Kept(r, acks, accepted, at_broker, big, t + 1)
    BY <1>4, <1>6
  <2>2. Kept(r, acks, accepted, at_broker, big, t)
    BY <1>6, <2>1 DEF Kept
  <2> QED
    BY <1>1, <1>6, <2>2 DEF Remembers
<1> QED
  BY <1>5, <1>6

LEMMA SyncRemembers ==
  ASSUME TransportOK, NEW big \in Nat, Len(Offers) <= big, Remembers(big),
         NEW k \in 0..Len(on_the_way), NEW budget \in Budgets, NEW refuses \in BOOLEAN,
         Sync(k, budget, refuses)
  PROVE  Remembers(big)'
<1> DEFINE r == Receive(client, Whole(on_the_way, k))
           s == IF r.failed THEN [client |-> r.client, sent |-> <<>>]
                ELSE Send(r.client, budget)
           top == big + Len(accepted) + 1
<1>1. /\ ClientOK(client) /\ on_the_way \in Seq(Incoming) /\ accepted \in Seq({0, 1})
      /\ stage = "up" /\ UNCHANGED <<stage, accepted>>
      /\ client' = s.client /\ Reach(s, Rest(r.read), refuses)
      /\ Kept(client, AcksOf(on_the_way), accepted, at_broker, big, top)
  BY DEF TransportOK, Sync, Remembers
<1>2. s = IF r.failed \/ FALSE THEN [client |-> r.client, sent |-> <<>>]
          ELSE Send(r.client, budget)
  OBVIOUS
<1>3. r = Receive(client, Whole(on_the_way, k)) /\ FALSE \in BOOLEAN
  OBVIOUS
<1> HIDE DEF r, s, top
<1>4. Kept(s.client, AcksOf(on_the_way'), accepted, at_broker', big, top)
  BY <1>1, <1>2, <1>3, KeptExchange
<1> QED
  BY <1>1, <1>4 DEF Remembers, top

LEMMA CloseRemembers ==
  ASSUME TransportOK, NEW big \in Nat, Len(Offers) <= big, Remembers(big),
         NEW k \in 0..Len(on_the_way), NEW budget \in Budgets, Close(k, budget)
  PROVE  Remembers(big)'
<1> DEFINE c == Disconnect(client)
           r == Receive(c, Whole(on_the_way, k))
           s == IF r.failed \/ ~link THEN [client |-> r.client, sent |-> <<>>]
                ELSE Send(r.client, budget)
           top == big + Len(accepted) + 1
<1>1. /\ ClientOK(client) /\ on_the_way \in Seq(Incoming) /\ accepted \in Seq({0, 1})
      /\ stage = "up" /\ stage' = "closed" /\ UNCHANGED accepted
      /\ client' = s.client /\ Reach(s, Rest(r.read), FALSE)
      /\ Kept(client, AcksOf(on_the_way), accepted, at_broker, big, top)
  BY DEF TransportOK, Close, Remembers
<1>2. ClientOK(c) /\ Kept(c, AcksOf(on_the_way), accepted, at_broker, big, top)
  <2> HIDE DEF top
  <2>1. ClientOK(Disconnect(client))
    BY <1>1, CallsOK
  <2>2. IsPlain(DisconnectPacket, big)
    BY PlainPackets
  <2>3. Kept(TryPack(client, DisconnectPacket), AcksOf(on_the_way), accepted, at_broker,
             big, top)
    BY <1>1, <2>2, KeptPlain
  <2> QED
    BY <2>1, <2>3 DEF Disconnect
<1>3. r = Receive(c, Whole(on_the_way, k)) /\ (~link) \in BOOLEAN
      /\ s = IF r.failed \/ ~link THEN [client |-> r.client, sent |-> <<>>]
             ELSE Send(r.client, budget)
  OBVIOUS
<1> HIDE DEF c, r, s, top
<1>4. Kept(s.client, AcksOf(on_the_way'), accepted, at_broker', big, top)
  BY <1>1, <1>2, <1>3, KeptExchange
<1> QED
  BY <1>1, <1>4 DEF Remembers, top

\* What was published with QoS 1 is with the broker or still in the queue: the
\* client takes no answer for that of another packet (mqtt_mq_find()), and cleans
\* nothing away that has none (mqtt_mq_clean()).  It is so as long as the client's
\* identifiers do not come round: there is a number such that no identifier of the
\* broker's, and none that memory held before, is greater, and so many more are
\* there as messages are published.
THEOREM NothingGetsLost ==
  ASSUME NEW big \in Nat, Len(Offers) <= big, \A g \in Garbage : g <= big,
         1 <= MaxPublishes, big + MaxPublishes + 1 <= Pids
  PROVE  TransportSpec => []NothingIsForgotten
<1>0. big + 2 <= Pids
  BY ClientNumbers, MqttTransportAssumption
<1>1. TransportInit => Remembers(big)
  BY StartRemembers
<1>2. ASSUME TransportOK, Remembers(big), [TransportNext]_transportVars
      PROVE  Remembers(big)'
  <2>1. CASE UNCHANGED transportVars
    BY <1>2, <2>1 DEF transportVars, connVars, Remembers
  <2>2. CASE Offer \/ Break \/ TransportTick \/ Reopen \/ SyncFails
    BY <1>2, <2>2, RestRemembers
  <2>3. CASE \E budget \in Budgets, refuses \in BOOLEAN : Open(budget, refuses)
    BY <1>0, <1>2, <2>3, OpenRemembers
  <2>4. CASE \E k \in 0..Len(on_the_way), budget \in Budgets, refuses \in BOOLEAN :
               Sync(k, budget, refuses)
    BY <1>2, <2>4, SyncRemembers
  <2>5. CASE \E qos \in {0, 1}, size \in Sizes, stale \in Garbage :
               PublishMessage(qos, size, stale)
    BY <1>2, <2>5, PublishRemembers
  <2>6. CASE \E k \in 0..Len(on_the_way), budget \in Budgets : Close(k, budget)
    BY <1>2, <2>6, CloseRemembers
  <2>7. CASE Recv \/ RecvTooLong
    BY <1>2, <2>7 DEF Recv, RecvTooLong, Advance, connVars, Remembers
  <2> QED
    BY <1>2, <2>1, <2>2, <2>3, <2>4, <2>5, <2>6, <2>7 DEF TransportNext
<1>3. ASSUME TransportOK, Remembers(big) PROVE NothingIsForgotten
  <2>1. Held(client, accepted, at_broker) /\ client.queue \in Seq(Queued)
        /\ accepted \in Seq({0, 1})
    BY <1>3 DEF Remembers, Kept, TransportOK, ClientOK, ClientRecord
  <2>2. DOMAIN accepted = 1..Len(accepted) /\ DOMAIN client.queue = 1..Len(client.queue)
    BY <2>1
  <2> QED
    BY <2>1, <2>2 DEF Held, NothingIsForgotten
<1>4. TransportSpec => []TransportOK
  BY TransportStaysOK
<1>5. TransportOK /\ Remembers(big) /\ [TransportNext]_transportVars => Remembers(big)'
  BY <1>2
<1>6. TransportOK /\ Remembers(big) => NothingIsForgotten
  BY <1>3
<1> HIDE DEF Remembers
<1> QED
  BY <1>1, <1>4, <1>5, <1>6, PTL DEF TransportSpec

(* As long as no answer is late *)

\* The packet that goes out next.
IsFirst(q, i) == /\ q[i].state = "unsent"
                 /\ \A j \in 1..(i - 1) : q[j].state # "unsent"

\* What is not sent lies behind all else, and only the first of it in part.
InOrder(c) ==
  /\ \A i \in 1..Len(c.queue) : \A j \in i..Len(c.queue) :
       c.queue[i].state = "unsent" => c.queue[j].state = "unsent"
  /\ \A i \in 1..Len(c.queue) :
       /\ IsFirst(c.queue, i) => c.queue[i].written = c.offset /\ c.offset < c.queue[i].size
       /\ ~IsFirst(c.queue, i) => c.queue[i].written = 0
  /\ (\A i \in 1..Len(c.queue) : c.queue[i].state # "unsent") => c.offset = 0

\* An answer is for one packet.
IsTelling(q) ==
  /\ \A i \in 1..Len(q) : /\ q[i].type \in {"CONNECT", "PINGREQ"} => q[i].pid = NoPid
                          /\ q[i].type \in {"SUBSCRIBE", "PUBLISH"} => q[i].pid # NoPid
  /\ \A i, j \in 1..Len(q) :
       /\ q[i].type = q[j].type /\ q[i].type # "PUBACK"
       /\ q[i].pid = q[j].pid /\ q[i].pid # NoPid
       => i = j

IsUnsent(m) == m.type = "PUBLISH" /\ m.state = "unsent"

\* What is not sent was published after all that the broker has, in its order.
IsAhead(q, at, high) ==
  /\ \A n \in at : n <= high
  /\ \A i \in 1..Len(q) : IsUnsent(q[i]) =>
       q[i].number <= high /\ \A n \in at : n < q[i].number
  /\ \A i \in 1..Len(q) : \A j \in (i + 1)..Len(q) :
       IsUnsent(q[i]) /\ IsUnsent(q[j]) => q[i].number < q[j].number

Clear(c, at, high) ==
  /\ InOrder(c) /\ IsTelling(c.queue) /\ IsAhead(c.queue, at, high)
  /\ ~c.torn /\ c.error # "ACK_OF_UNKNOWN"

Suits(m, p) == m.type = AnswerTo[p.type] /\ m.pid = p.pid

IsAnswer(p) == p.type \in DOMAIN AnswerTo

\* Every answer in w from the n-th on is for a packet of its own.
Matches(f, q, w, n) ==
  /\ \A i \in (n + 1)..Len(w) : IsAnswer(w[i]) =>
       f[i] \in 1..Len(q) /\ q[f[i]].state = "awaiting" /\ Suits(q[f[i]], w[i])
  /\ \A i, j \in (n + 1)..Len(w) :
       IsAnswer(w[i]) /\ IsAnswer(w[j]) /\ f[i] = f[j] => i = j

Matched(q, w, n) == \E f : Matches(f, q, w, n)

\* A packet may follow those of the queue.
MayFollow(q, p) ==
  /\ p \in Queued /\ p.state = "unsent" /\ p.written = 0
  /\ p.type \in {"CONNECT", "PINGREQ"} => p.pid = NoPid
  /\ p.type \in {"SUBSCRIBE", "PUBLISH"} => p.pid # NoPid
  /\ p.type = "PUBACK" \/ p.pid = NoPid \/ IsNew(q, p.pid)

\* mqtt_mq_register()
LEMMA InOrderRegistered ==
  ASSUME NEW c, ClientOK(c), InOrder(c), NEW p, MayFollow(c.queue, p), p.size <= Room(c)
  PROVE  InOrder(Registered(c, p))
<1> DEFINE q == c.queue
           n == Len(q)
           new == Placed(p, c)
           d == Registered(c, p)
<1>1. q \in Seq(Queued) /\ n \in Nat /\ c \in ClientRecord /\ p \in Queued
  BY DEF ClientOK, ClientRecord, MayFollow
<1>2. /\ new \in Queued /\ d.queue = Append(q, new)
      /\ d = [c EXCEPT !.queue = Append(q, new), !.curr = c.curr + p.size]
  BY <1>1, RegisteredOK DEF MayFollow
<1>3. new.state = "unsent" /\ new.written = 0 /\ new.size \in Nat /\ new.size > 0
  <2>1. new.state = p.state /\ new.written = p.written /\ new.size = p.size
    BY <1>1 DEF Placed, Queued
  <2>2. p.size \in Nat \ {0}
    BY <1>1 DEF Queued
  <2> QED
    BY <2>1, <2>2 DEF MayFollow
<1>4. d.offset = c.offset /\ c.offset \in Nat
  BY <1>1, <1>2 DEF ClientRecord
<1> HIDE DEF d, new
<1>5. /\ Len(d.queue) = n + 1 /\ d.queue[n + 1] = new
      /\ \A i \in 1..n : d.queue[i] = q[i]
      /\ \A i \in 1..(n + 1) : i \in 1..n \/ i = n + 1
  BY <1>1, <1>2, AppendProperties
<1>6. /\ \A i \in 1..n : \A j \in i..n : q[i].state = "unsent" => q[j].state = "unsent"
      /\ \A i \in 1..n : /\ IsFirst(q, i) => q[i].written = c.offset /\ c.offset < q[i].size
                         /\ ~IsFirst(q, i) => q[i].written = 0
      /\ (\A i \in 1..n : q[i].state # "unsent") => c.offset = 0
  BY DEF InOrder
<1> HIDE DEF n, q
<1> DEFINE r == d.queue
<1>7. \A i \in 1..n : IsFirst(r, i) <=> IsFirst(q, i)
  <2> SUFFICES ASSUME NEW i \in 1..n PROVE IsFirst(r, i) <=> IsFirst(q, i)
    OBVIOUS
  <2>1. \A j \in 1..(i - 1) : j \in 1..n
    BY <1>1
  <2> QED
    BY <1>5, <2>1 DEF IsFirst
<1>8. IsFirst(r, n + 1) <=> \A i \in 1..n : q[i].state # "unsent"
  <2>1. (n + 1) - 1 = n
    BY <1>1
  <2> QED
    BY <1>3, <1>5, <2>1 DEF IsFirst
<1>9. \A i \in 1..(n + 1) : \A j \in i..(n + 1) : r[i].state = "unsent" => r[j].state = "unsent"
  <2> SUFFICES ASSUME NEW i \in 1..(n + 1), NEW j \in i..(n + 1), r[i].state = "unsent"
               PROVE  r[j].state = "unsent"
    OBVIOUS
  <2>1. CASE j = n + 1
    BY <1>3, <1>5, <2>1
  <2>2. CASE j # n + 1
    <3>1. i \in 1..n /\ j \in i..n /\ j \in 1..n
      BY <1>1, <2>2
    <3> QED
      BY <1>5, <1>6, <3>1
  <2> QED
    BY <2>1, <2>2
<1>10. ASSUME NEW i \in 1..(n + 1)
       PROVE  /\ IsFirst(r, i) => r[i].written = c.offset /\ c.offset < r[i].size
              /\ ~IsFirst(r, i) => r[i].written = 0
  <2>1. CASE i \in 1..n
    BY <1>5, <1>6, <1>7, <2>1
  <2>2. CASE i = n + 1
    <3>1. r[i] = new
      BY <1>5, <2>2
    <3>2. IsFirst(r, i) => c.offset = 0
      BY <1>6, <1>8, <2>2
    <3> QED
      BY <1>3, <1>4, <3>1, <3>2
  <2> QED
    BY <1>5, <2>1, <2>2
<1>11. ~\A i \in 1..(n + 1) : r[i].state # "unsent"
  <2>1. n + 1 \in 1..(n + 1)
    BY <1>1
  <2> QED
    BY <1>3, <1>5, <2>1
<1>12. Len(r) = n + 1
  BY <1>5
<1>13. InOrder(d)
  <2> HIDE DEF r
  <2>1. \A i \in 1..Len(r) : \A j \in i..Len(r) :
          r[i].state = "unsent" => r[j].state = "unsent"
    BY <1>9, <1>12
  <2>2. \A i \in 1..Len(r) :
          /\ IsFirst(r, i) => r[i].written = c.offset /\ c.offset < r[i].size
          /\ ~IsFirst(r, i) => r[i].written = 0
    BY <1>10, <1>12
  <2>3. ~\A i \in 1..Len(r) : r[i].state # "unsent"
    BY <1>11, <1>12
  <2> QED
    BY <1>4, <2>1, <2>2, <2>3 DEF InOrder, r
<1> QED
  BY <1>13 DEF d

LEMMA TellingRegistered ==
  ASSUME NEW c, ClientOK(c), IsTelling(c.queue), NEW p, MayFollow(c.queue, p),
         p.size <= Room(c)
  PROVE  IsTelling(Registered(c, p).queue)
<1> DEFINE q == c.queue
           n == Len(q)
           new == Placed(p, c)
           r == Registered(c, p).queue
<1>1. q \in Seq(Queued) /\ n \in Nat /\ p \in Queued
  BY DEF ClientOK, ClientRecord, MayFollow
<1>2. new \in Queued /\ r = Append(q, new)
  BY <1>1, RegisteredOK DEF MayFollow
<1>3. new.type = p.type /\ new.pid = p.pid
  BY <1>1 DEF Placed, Queued
<1> HIDE DEF r, new
<1>5. /\ Len(r) = n + 1 /\ r[n + 1] = new
      /\ \A i \in 1..n : r[i] = q[i]
      /\ \A i \in 1..(n + 1) : i \in 1..n \/ i = n + 1
  BY <1>1, <1>2, AppendProperties
<1>6. /\ \A i \in 1..n : /\ q[i].type \in {"CONNECT", "PINGREQ"} => q[i].pid = NoPid
                         /\ q[i].type \in {"SUBSCRIBE", "PUBLISH"} => q[i].pid # NoPid
      /\ \A i, j \in 1..n : /\ q[i].type = q[j].type /\ q[i].type # "PUBACK"
                            /\ q[i].pid = q[j].pid /\ q[i].pid # NoPid
                            => i = j
  BY DEF IsTelling
<1>7. \A i \in 1..n : p.type = "PUBACK" \/ p.pid = NoPid \/ q[i].pid # p.pid
  BY DEF MayFollow, IsNew
<1>8. /\ p.type \in {"CONNECT", "PINGREQ"} => p.pid = NoPid
      /\ p.type \in {"SUBSCRIBE", "PUBLISH"} => p.pid # NoPid
  BY DEF MayFollow
<1> HIDE DEF n, q
<1>9. \A i \in 1..(n + 1) : /\ r[i].type \in {"CONNECT", "PINGREQ"} => r[i].pid = NoPid
                            /\ r[i].type \in {"SUBSCRIBE", "PUBLISH"} => r[i].pid # NoPid
  BY <1>3, <1>5, <1>6, <1>8
<1>10. \A i, j \in 1..(n + 1) : /\ r[i].type = r[j].type /\ r[i].type # "PUBACK"
                                /\ r[i].pid = r[j].pid /\ r[i].pid # NoPid
                                => i = j
  <2> SUFFICES ASSUME NEW i \in 1..(n + 1), NEW j \in 1..(n + 1),
                      r[i].type = r[j].type, r[i].type # "PUBACK",
                      r[i].pid = r[j].pid, r[i].pid # NoPid
               PROVE  i = j
    OBVIOUS
  <2>1. CASE i \in 1..n /\ j \in 1..n
    BY <1>5, <1>6, <2>1
  <2>2. CASE i \in 1..n /\ j = n + 1
    BY <1>3, <1>5, <1>7, <2>2
  <2>3. CASE i = n + 1 /\ j \in 1..n
    BY <1>3, <1>5, <1>7, <2>3
  <2> QED
    BY <1>5, <2>1, <2>2, <2>3
<1>11. IsTelling(r)
  BY <1>5, <1>9, <1>10 DEF IsTelling
<1> QED
  BY <1>11 DEF r

LEMMA AheadRegistered ==
  ASSUME NEW c, ClientOK(c), NEW at, NEW high \in Nat, NEW more \in Nat, high <= more,
         at \subseteq Nat, IsAhead(c.queue, at, high), NEW p \in Queued, p.size <= Room(c),
         IsUnsent(p) => p.number = high + 1 /\ high + 1 <= more
  PROVE  IsAhead(Registered(c, p).queue, at, more)
<1> DEFINE q == c.queue
           n == Len(q)
           new == Placed(p, c)
           r == Registered(c, p).queue
<1>1. q \in Seq(Queued) /\ n \in Nat /\ \A i \in 1..n : q[i].number \in Nat
  <2>1. q \in Seq(Queued) /\ n \in Nat
    BY DEF ClientOK, ClientRecord
  <2>2. \A i \in 1..n : q[i] \in Queued
    BY <2>1, ElementOfSeq
  <2> QED
    BY <2>1, <2>2 DEF Queued
<1>2. new \in Queued /\ r = Append(q, new)
  BY RegisteredOK
<1>3. new.type = p.type /\ new.state = p.state /\ new.number = p.number
  BY DEF Placed, Queued
<1> HIDE DEF r, new
<1>5. /\ Len(r) = n + 1 /\ r[n + 1] = new
      /\ \A i \in 1..n : r[i] = q[i]
      /\ \A i \in 1..(n + 1) : i \in 1..n \/ i = n + 1
  BY <1>1, <1>2, AppendProperties
<1>6. /\ \A x \in at : x <= high
      /\ \A i \in 1..n : IsUnsent(q[i]) => q[i].number <= high /\ \A x \in at : x < q[i].number
      /\ \A i \in 1..n : \A j \in (i + 1)..n :
           IsUnsent(q[i]) /\ IsUnsent(q[j]) => q[i].number < q[j].number
  BY DEF IsAhead
<1>7. IsUnsent(new) => new.number = high + 1 /\ high + 1 <= more
  BY <1>3 DEF IsUnsent
<1> HIDE DEF n, q
<1>8. \A x \in at : x <= more
  BY <1>6
<1>9. ASSUME NEW i \in 1..(n + 1), IsUnsent(r[i])
      PROVE  r[i].number <= more /\ \A x \in at : x < r[i].number
  <2>1. CASE i \in 1..n
    BY <1>1, <1>5, <1>6, <1>9, <2>1
  <2>2. CASE i = n + 1
    <3>1. new.number = high + 1 /\ high + 1 <= more /\ r[i] = new
      BY <1>5, <1>7, <1>9, <2>2
    <3>2. \A x \in at : x < high + 1
      BY <1>6
    <3> QED
      BY <3>1, <3>2
  <2> QED
    BY <1>5, <2>1, <2>2
<1>10. ASSUME NEW i \in 1..(n + 1), NEW j \in (i + 1)..(n + 1), IsUnsent(r[i]), IsUnsent(r[j])
       PROVE  r[i].number < r[j].number
  <2>0. i \in 1..n
    BY <1>1
  <2>1. CASE j = n + 1
    <3>1. r[j] = new /\ new.number = high + 1 /\ r[i] = q[i]
      BY <1>5, <1>7, <1>10, <2>0, <2>1
    <3>2. q[i].number \in Nat /\ q[i].number <= high
      BY <1>1, <1>6, <1>10, <2>0, <3>1
    <3> QED
      BY <3>1, <3>2
  <2>2. CASE j # n + 1
    <3>1. j \in (i + 1)..n /\ j \in 1..n
      BY <1>1, <2>0, <2>2
    <3>2. r[i] = q[i] /\ r[j] = q[j]
      BY <1>5, <2>0, <3>1
    <3> QED
      BY <1>6, <1>10, <2>0, <3>1, <3>2
  <2> QED
    BY <2>1, <2>2
<1>11. /\ \A i \in 1..Len(r) : IsUnsent(r[i]) =>
            r[i].number <= more /\ \A x \in at : x < r[i].number
       /\ \A i \in 1..Len(r) : \A j \in (i + 1)..Len(r) :
            IsUnsent(r[i]) /\ IsUnsent(r[j]) => r[i].number < r[j].number
  BY <1>5, <1>9, <1>10
<1>12. IsAhead(r, at, more)
  BY <1>8, <1>11 DEF IsAhead
<1> QED
  BY <1>12 DEF r

LEMMA MatchedRegistered ==
  ASSUME NEW c, ClientOK(c), NEW w, NEW n, Matched(c.queue, w, n),
         NEW p \in Queued, p.size <= Room(c)
  PROVE  Matched(Registered(c, p).queue, w, n)
<1> DEFINE q == c.queue
           new == Placed(p, c)
           r == Registered(c, p).queue
<1>1. q \in Seq(Queued) /\ Len(q) \in Nat
  BY DEF ClientOK, ClientRecord
<1>2. new \in Queued /\ r = Append(q, new)
  BY RegisteredOK
<1> HIDE DEF r, new
<1>5. Len(r) = Len(q) + 1 /\ \A i \in 1..Len(q) : r[i] = q[i] /\ i \in 1..Len(r)
  BY <1>1, <1>2, AppendProperties
<1>6. PICK f : Matches(f, q, w, n)
  BY DEF Matched
<1> HIDE DEF q
<1>7. Matches(f, r, w, n)
  BY <1>5, <1>6 DEF Matches
<1> QED
  BY <1>7 DEF Matched, r

\* A queue without the first of its packets, which were complete.
Same(m, r) == /\ r.type = m.type /\ r.pid = m.pid /\ r.number = m.number
              /\ r.state = m.state /\ r.written = m.written /\ r.size = m.size

Shifted(q, r, d) ==
  /\ d \in 0..Len(q) /\ Len(r) = Len(q) - d
  /\ \A i \in 1..d : q[i].state = "complete"
  /\ \A j \in 1..Len(r) : j + d \in 1..Len(q) /\ Same(q[j + d], r[j])

\* mqtt_mq_clean()
LEMMA CleanShifts ==
  ASSUME NEW c, ClientOK(c)
  PROVE  /\ Shifted(c.queue, Clean(c).queue, Dropped(c))
         /\ Clean(c).offset = c.offset /\ Clean(c).torn = c.torn
         /\ Clean(c).error = c.error /\ Clean(c).timeouts = c.timeouts
<1> DEFINE q == c.queue
           n == Len(q)
           d == Dropped(c)
           e == Clean(c)
           r == e.queue
           removing == Ends(q, d)
<1>1. /\ c \in ClientRecord /\ q \in Seq(Queued) /\ n \in Nat
      /\ \A i \in 1..n : q[i] \in Queued
  BY ElementOfSeq DEF ClientOK, ClientRecord
<1>2. /\ d \in 0..n /\ Len(r) = n - d
      /\ \A i \in 1..d : q[i].state = "complete"
      /\ \A j \in 1..(n - d) : r[j] = Moved(q[j + d], removing)
      /\ e = [c EXCEPT !.queue = r, !.curr = c.curr - removing]
  BY CleanFacts
<1>3. ASSUME NEW m \in Queued PROVE Same(m, Moved(m, removing))
  BY DEF Moved, Same, Queued
<1> HIDE DEF removing, r, e, d, q
<1>4. ASSUME NEW j \in 1..Len(r) PROVE j + d \in 1..n /\ Same(q[j + d], r[j])
  <2>1. j \in 1..(n - d) /\ j + d \in 1..n
    BY <1>1, <1>2
  <2> QED
    BY <1>1, <1>2, <1>3, <2>1
<1>5. Shifted(q, r, d)
  BY <1>2, <1>4 DEF Shifted
<1>6. e.offset = c.offset /\ e.torn = c.torn /\ e.error = c.error /\ e.timeouts = c.timeouts
  BY <1>1, <1>2 DEF ClientRecord
<1> QED
  BY <1>5, <1>6 DEF q, r, d, e

LEMMA FirstShifted ==
  ASSUME NEW q, Len(q) \in Nat, NEW r, NEW d, Shifted(q, r, d), NEW j \in 1..Len(r)
  PROVE  IsFirst(r, j) <=> IsFirst(q, j + d)
<1>1. /\ d \in Nat /\ j \in Nat /\ j + d \in Nat /\ \A i \in 1..d : q[i].state # "unsent"
      /\ \A i \in 1..Len(r) : r[i].state = q[i + d].state
  BY DEF Shifted, Same
<1>2. ASSUME \A i \in 1..(j - 1) : r[i].state # "unsent", NEW i \in 1..(j + d - 1)
      PROVE  q[i].state # "unsent"
  <2>1. CASE i \in 1..d
    BY <1>1, <2>1
  <2>2. CASE i \notin 1..d
    <3>1. i - d \in 1..(j - 1) /\ i - d \in 1..Len(r) /\ (i - d) + d = i
      BY <1>1, <2>2 DEF Shifted
    <3> QED
      BY <1>1, <1>2, <3>1
  <2> QED
    BY <2>1, <2>2
<1>3. ASSUME \A i \in 1..(j + d - 1) : q[i].state # "unsent", NEW i \in 1..(j - 1)
      PROVE  r[i].state # "unsent"
  <2>1. i + d \in 1..(j + d - 1) /\ i \in 1..Len(r)
    BY <1>1 DEF Shifted
  <2> QED
    BY <1>1, <1>3, <2>1
<1> QED
  BY <1>1, <1>2, <1>3 DEF IsFirst

LEMMA InOrderClean ==
  ASSUME NEW c, ClientOK(c), InOrder(c)
  PROVE  InOrder(Clean(c))
<1> DEFINE q == c.queue
           n == Len(q)
           d == Dropped(c)
           e == Clean(c)
           r == e.queue
<1>1. n \in Nat
  BY DEF ClientOK, ClientRecord
<1>2. Shifted(q, r, d) /\ e.offset = c.offset
  BY CleanShifts
<1>3. /\ \A i \in 1..n : \A j \in i..n : q[i].state = "unsent" => q[j].state = "unsent"
      /\ \A i \in 1..n : /\ IsFirst(q, i) => q[i].written = c.offset /\ c.offset < q[i].size
                         /\ ~IsFirst(q, i) => q[i].written = 0
      /\ (\A i \in 1..n : q[i].state # "unsent") => c.offset = 0
  BY DEF InOrder
<1> HIDE DEF r, e, d, q
<1>4. /\ d \in Nat
      /\ \A j \in 1..Len(r) : /\ j + d \in 1..n /\ r[j].state = q[j + d].state
                              /\ r[j].written = q[j + d].written
                              /\ r[j].size = q[j + d].size
      /\ \A i \in 1..d : q[i].state # "unsent"
      /\ Len(r) = n - d
  BY <1>1, <1>2 DEF Shifted, Same
<1>5. \A j \in 1..Len(r) : IsFirst(r, j) <=> IsFirst(q, j + d)
  BY <1>1, <1>2, FirstShifted
<1>6. ASSUME NEW i \in 1..Len(r), NEW j \in i..Len(r), r[i].state = "unsent"
      PROVE  r[j].state = "unsent"
  <2>1. i + d \in 1..n /\ j \in 1..Len(r) /\ j + d \in (i + d)..n
    BY <1>1, <1>4
  <2> QED
    BY <1>3, <1>4, <1>6, <2>1
<1>7. ASSUME NEW j \in 1..Len(r)
      PROVE  /\ IsFirst(r, j) => r[j].written = e.offset /\ e.offset < r[j].size
             /\ ~IsFirst(r, j) => r[j].written = 0
  BY <1>2, <1>3, <1>4, <1>5
<1>8. ASSUME \A j \in 1..Len(r) : r[j].state # "unsent" PROVE e.offset = 0
  <2>1. ASSUME NEW i \in 1..n PROVE q[i].state # "unsent"
    <3>1. CASE i \in 1..d
      BY <1>4, <3>1
    <3>2. CASE i \notin 1..d
      <4>1. i - d \in 1..Len(r) /\ (i - d) + d = i
        BY <1>1, <1>4, <3>2
      <4> QED
        BY <1>4, <1>8, <4>1
    <3> QED
      BY <3>1, <3>2
  <2> QED
    BY <1>2, <1>3, <2>1
<1>9. InOrder(e)
  BY <1>6, <1>7, <1>8 DEF InOrder, r
<1> QED
  BY <1>9 DEF e

LEMMA TellingClean ==
  ASSUME NEW c, ClientOK(c), IsTelling(c.queue)
  PROVE  IsTelling(Clean(c).queue)
<1> DEFINE q == c.queue
           d == Dropped(c)
           r == Clean(c).queue
<1>1. Len(q) \in Nat
  BY DEF ClientOK, ClientRecord
<1>2. Shifted(q, r, d)
  BY CleanShifts
<1>3. IsTelling(q)
  OBVIOUS
<1> HIDE DEF r, d, q
<1>4. /\ d \in Nat
      /\ \A j \in 1..Len(r) : /\ j + d \in 1..Len(q) /\ r[j].type = q[j + d].type
                              /\ r[j].pid = q[j + d].pid
      /\ Len(r) \in Nat
  BY <1>1, <1>2 DEF Shifted, Same
<1>5. ASSUME NEW j \in 1..Len(r)
      PROVE  /\ r[j].type \in {"CONNECT", "PINGREQ"} => r[j].pid = NoPid
             /\ r[j].type \in {"SUBSCRIBE", "PUBLISH"} => r[j].pid # NoPid
  <2>1. \A i \in 1..Len(q) :
          /\ q[i].type \in {"CONNECT", "PINGREQ"} => q[i].pid = NoPid
          /\ q[i].type \in {"SUBSCRIBE", "PUBLISH"} => q[i].pid # NoPid
    BY <1>3 DEF IsTelling
  <2>2. j + d \in 1..Len(q) /\ r[j].type = q[j + d].type /\ r[j].pid = q[j + d].pid
    BY <1>4
  <2> QED
    BY <2>1, <2>2
<1>6. ASSUME NEW i \in 1..Len(r), NEW j \in 1..Len(r),
             r[i].type = r[j].type, r[i].type # "PUBACK",
             r[i].pid = r[j].pid, r[i].pid # NoPid
      PROVE  i = j
  <2>1. i + d = j + d
    BY <1>3, <1>4, <1>6 DEF IsTelling
  <2> QED
    BY <1>4, <2>1
<1>7. IsTelling(r)
  BY <1>5, <1>6 DEF IsTelling
<1> QED
  BY <1>7 DEF r

LEMMA AheadClean ==
  ASSUME NEW c, ClientOK(c), NEW at, NEW high, IsAhead(c.queue, at, high)
  PROVE  IsAhead(Clean(c).queue, at, high)
<1> DEFINE q == c.queue
           d == Dropped(c)
           r == Clean(c).queue
<1>1. Len(q) \in Nat
  BY DEF ClientOK, ClientRecord
<1>2. Shifted(q, r, d)
  BY CleanShifts
<1>3. IsAhead(q, at, high)
  OBVIOUS
<1> HIDE DEF r, d, q
<1>4. /\ d \in Nat /\ Len(r) \in Nat /\ Len(r) + d = Len(q)
      /\ \A j \in 1..Len(r) : /\ j + d \in 1..Len(q) /\ r[j].number = q[j + d].number
                              /\ IsUnsent(r[j]) <=> IsUnsent(q[j + d])
  BY <1>1, <1>2 DEF Shifted, Same, IsUnsent
<1>5. \A j \in 1..Len(r) : IsUnsent(r[j]) =>
        r[j].number <= high /\ \A x \in at : x < r[j].number
  BY <1>3, <1>4 DEF IsAhead
<1>6. ASSUME NEW i \in 1..Len(r), NEW j \in (i + 1)..Len(r), IsUnsent(r[i]), IsUnsent(r[j])
      PROVE  r[i].number < r[j].number
  <2>1. i + d \in 1..Len(q) /\ j + d \in ((i + d) + 1)..Len(q) /\ j \in 1..Len(r)
    BY <1>1, <1>4
  <2> QED
    BY <1>3, <1>4, <1>6, <2>1 DEF IsAhead
<1>7. IsAhead(r, at, high)
  BY <1>3, <1>5, <1>6 DEF IsAhead
<1> QED
  BY <1>7 DEF r

LEMMA MatchedClean ==
  ASSUME NEW c, ClientOK(c), NEW w, NEW n, Matched(c.queue, w, n)
  PROVE  Matched(Clean(c).queue, w, n)
<1> DEFINE q == c.queue
           d == Dropped(c)
           r == Clean(c).queue
           I == (n + 1)..Len(w)
<1>1. Len(q) \in Nat
  BY DEF ClientOK, ClientRecord
<1>2. Shifted(q, r, d)
  BY CleanShifts
<1>3. PICK f : Matches(f, q, w, n)
  BY DEF Matched
<1> HIDE DEF r, d, q
<1>4. /\ d \in Nat /\ Len(r) \in Nat /\ Len(r) + d = Len(q)
      /\ \A i \in 1..d : q[i].state = "complete"
      /\ \A j \in 1..Len(r) : Same(q[j + d], r[j])
  BY <1>1, <1>2 DEF Shifted
<1> DEFINE g == [i \in I |-> f[i] - d]
<1>5. ASSUME NEW i \in I, IsAnswer(w[i])
      PROVE  /\ g[i] \in 1..Len(r) /\ r[g[i]].state = "awaiting" /\ Suits(r[g[i]], w[i])
             /\ g[i] + d = f[i]
  <2>1. f[i] \in 1..Len(q) /\ q[f[i]].state = "awaiting" /\ Suits(q[f[i]], w[i])
    BY <1>3, <1>5 DEF Matches
  <2>2. f[i] \notin 1..d
    BY <1>4, <2>1
  <2>3. g[i] = f[i] - d /\ f[i] - d \in 1..Len(r) /\ (f[i] - d) + d = f[i]
    BY <1>1, <1>4, <2>1, <2>2
  <2>4. Same(q[f[i]], r[g[i]])
    BY <1>4, <2>3
  <2> HIDE DEF g
  <2> QED
    BY <2>1, <2>3, <2>4 DEF Same, Suits
<1>6. ASSUME NEW i \in I, NEW j \in I, IsAnswer(w[i]), IsAnswer(w[j]), g[i] = g[j]
      PROVE  i = j
  <2>1. f[i] = f[j]
    <3> HIDE DEF g
    <3> QED
      BY <1>5, <1>6
  <2> QED
    BY <1>3, <1>6, <2>1 DEF Matches
<1> HIDE DEF g
<1>7. Matches(g, r, w, n)
  BY <1>5, <1>6 DEF Matches
<1> QED
  BY <1>7 DEF Matched, r

\* MQTT_CLIENT_TRY_PACK
LEMMA ClearTryPack ==
  ASSUME NEW c, ClientOK(c), NEW at, NEW high \in Nat, NEW more \in Nat, high <= more,
         at \subseteq Nat, Clear(c, at, high), NEW p, MayFollow(c.queue, p),
         IsUnsent(p) => p.number = high + 1 /\ high + 1 <= more,
         NEW w, NEW n, Matched(c.queue, w, n)
  PROVE  LET d == TryPack(c, p)
         IN /\ Clear(d, at, more) /\ Matched(d.queue, w, n) /\ d.timeouts = c.timeouts
            /\ d.error # "OK" => Clear(d, at, high)
<1> DEFINE e == Clean(c)
           d == TryPack(c, p)
<1>1. c \in ClientRecord /\ p \in Queued
  BY DEF ClientOK, MayFollow
<1>2. /\ ClientOK(e) /\ e \in ClientRecord /\ Shifted(c.queue, e.queue, Dropped(c))
      /\ e.torn = c.torn /\ e.error = c.error /\ e.timeouts = c.timeouts
  BY CleanOK, CleanShifts DEF ClientOK
<1>3. Clear(e, at, high) /\ Matched(e.queue, w, n)
  BY <1>2, InOrderClean, TellingClean, AheadClean, MatchedClean DEF Clear
<1> HIDE DEF e
<1>4. MayFollow(e.queue, p)
  <2>1. ASSUME IsNew(c.queue, p.pid), NEW j \in 1..Len(e.queue)
        PROVE  e.queue[j].pid # p.pid
    BY <1>2, <2>1 DEF IsNew, Shifted, Same
  <2> QED
    BY <2>1 DEF MayFollow, IsNew
<1>5. ASSUME NEW b, ClientOK(b), Clear(b, at, high), MayFollow(b.queue, p), p.size <= Room(b),
             Matched(b.queue, w, n)
      PROVE  /\ Clear(Registered(b, p), at, more) /\ Matched(Registered(b, p).queue, w, n)
             /\ Registered(b, p).timeouts = b.timeouts /\ Registered(b, p).error = b.error
  <2>1. /\ InOrder(Registered(b, p)) /\ IsTelling(Registered(b, p).queue)
        /\ IsAhead(Registered(b, p).queue, at, more) /\ Matched(Registered(b, p).queue, w, n)
    BY <1>1, <1>5, InOrderRegistered, TellingRegistered, AheadRegistered, MatchedRegistered
       DEF Clear
  <2>2. /\ Registered(b, p).timeouts = b.timeouts /\ Registered(b, p).error = b.error
        /\ Registered(b, p).torn = b.torn
    BY <1>5 DEF Registered, ClientOK, ClientRecord
  <2> QED
    BY <1>5, <2>1, <2>2 DEF Clear
<1>6. ASSUME NEW b, ClientOK(b), Clear(b, at, high) PROVE Clear(b, at, more)
  <2>1. IsAhead(b.queue, at, high)
    BY <1>6 DEF Clear
  <2>2. \A i \in 1..Len(b.queue) : b.queue[i].number \in Nat
    <3>1. b.queue \in Seq(Queued)
      BY <1>6 DEF ClientOK, ClientRecord
    <3>2. \A i \in 1..Len(b.queue) : b.queue[i] \in Queued
      BY <3>1, ElementOfSeq
    <3> QED
      BY <3>2 DEF Queued
  <2>3. \A x \in at : x \in Nat
    OBVIOUS
  <2>4. IsAhead(b.queue, at, more)
    BY <2>1, <2>2, <2>3 DEF IsAhead
  <2> QED
    BY <1>6, <2>4 DEF Clear
<1>7. CASE c.error # "OK"
  <2>1. d = c
    BY <1>7 DEF TryPack
  <2> HIDE DEF d
  <2> QED
    BY <1>6, <2>1 DEF d
<1>8. CASE c.error = "OK" /\ p.size <= Room(c)
  <2>1. d = Registered(c, p)
    BY <1>8 DEF TryPack
  <2> HIDE DEF d
  <2> QED
    BY <1>5, <1>8, <2>1 DEF d
<1>9. CASE c.error = "OK" /\ ~(p.size <= Room(c)) /\ p.size <= Room(e)
  <2>1. d = Registered(e, p)
    BY <1>9 DEF TryPack, e
  <2> HIDE DEF d
  <2>2. /\ Clear(d, at, more) /\ Matched(d.queue, w, n)
        /\ d.timeouts = e.timeouts /\ d.error = e.error
    BY <1>2, <1>3, <1>4, <1>5, <1>9, <2>1
  <2> QED
    BY <1>2, <1>9, <2>2 DEF d
<1>10. CASE c.error = "OK" /\ ~(p.size <= Room(c)) /\ ~(p.size <= Room(e))
  <2>1. d = [e EXCEPT !.error = "SEND_BUFFER_IS_FULL"]
    BY <1>10 DEF TryPack, e
  <2> HIDE DEF d
  <2>2. /\ d.error = "SEND_BUFFER_IS_FULL" /\ d.queue = e.queue /\ d.offset = e.offset
        /\ d.torn = e.torn /\ d.timeouts = e.timeouts
    BY <1>2, <2>1 DEF ClientRecord
  <2>3. InOrder(d)
    BY <1>3, <2>2 DEF InOrder, Clear
  <2>4. Clear(d, at, high)
    BY <1>3, <2>2, <2>3 DEF Clear
  <2>5. Clear(d, at, more)
    <3>1. Clear(e, at, more)
      BY <1>2, <1>3, <1>6
    <3> QED
      BY <2>2, <2>3, <3>1 DEF Clear
  <2>6. Matched(d.queue, w, n) /\ d.timeouts = c.timeouts
    BY <1>2, <1>3, <2>2
  <2> QED
    BY <2>4, <2>5, <2>6 DEF d
<1> QED
  BY <1>7, <1>8, <1>9, <1>10

\* Packets of which only the state, the place and the age may differ, and are sent or not as before.
Alike(q, r) ==
  /\ Len(r) = Len(q)
  /\ \A i \in 1..Len(q) :
       /\ r[i].type = q[i].type /\ r[i].pid = q[i].pid /\ r[i].number = q[i].number
       /\ r[i].written = q[i].written /\ r[i].size = q[i].size
       /\ (r[i].state = "unsent") <=> (q[i].state = "unsent")

LEMMA ClearAlike ==
  ASSUME NEW c, ClientOK(c), NEW d, Alike(c.queue, d.queue), d.offset = c.offset,
         d.torn = c.torn, d.error # "ACK_OF_UNKNOWN", NEW at, NEW high, Clear(c, at, high)
  PROVE  Clear(d, at, high)
<1> DEFINE q == c.queue
           r == d.queue
           n == Len(q)
<1>1. /\ n \in Nat /\ Len(r) = n
      /\ \A i \in 1..n :
           /\ r[i].type = q[i].type /\ r[i].pid = q[i].pid /\ r[i].number = q[i].number
           /\ r[i].written = q[i].written /\ r[i].size = q[i].size
           /\ (r[i].state = "unsent") <=> (q[i].state = "unsent")
  BY DEF Alike, ClientOK, ClientRecord
<1>2. InOrder(c) /\ IsTelling(q) /\ IsAhead(q, at, high) /\ ~c.torn
  BY DEF Clear
<1>3. InOrder(d)
  <2>1. \A i \in 1..n : IsFirst(r, i) <=> IsFirst(q, i)
    BY <1>1 DEF IsFirst
  <2>2. /\ \A i \in 1..n : \A j \in i..n : q[i].state = "unsent" => q[j].state = "unsent"
        /\ \A i \in 1..n : /\ IsFirst(q, i) => q[i].written = c.offset /\ c.offset < q[i].size
                           /\ ~IsFirst(q, i) => q[i].written = 0
        /\ (\A i \in 1..n : q[i].state # "unsent") => c.offset = 0
    BY <1>2 DEF InOrder
  <2> HIDE DEF q, r, n
  <2>3. \A i \in 1..n : \A j \in i..n : r[i].state = "unsent" => r[j].state = "unsent"
    <3> SUFFICES ASSUME NEW i \in 1..n, NEW j \in i..n, r[i].state = "unsent"
                 PROVE  r[j].state = "unsent"
      OBVIOUS
    <3>1. j \in 1..n
      BY <1>1
    <3> QED
      BY <1>1, <2>2, <3>1
  <2>4. \A i \in 1..n : /\ IsFirst(r, i) => r[i].written = d.offset /\ d.offset < r[i].size
                        /\ ~IsFirst(r, i) => r[i].written = 0
    BY <1>1, <2>1, <2>2
  <2>5. (\A i \in 1..n : r[i].state # "unsent") => d.offset = 0
    BY <1>1, <2>2
  <2> QED
    BY <1>1, <2>3, <2>4, <2>5 DEF InOrder, r
<1>4. IsTelling(r)
  <2>1. \A i \in 1..n : /\ r[i].type \in {"CONNECT", "PINGREQ"} => r[i].pid = NoPid
                        /\ r[i].type \in {"SUBSCRIBE", "PUBLISH"} => r[i].pid # NoPid
    BY <1>1, <1>2 DEF IsTelling
  <2>2. \A i, j \in 1..n :
          /\ r[i].type = r[j].type /\ r[i].type # "PUBACK"
          /\ r[i].pid = r[j].pid /\ r[i].pid # NoPid
          => i = j
    BY <1>1, <1>2 DEF IsTelling
  <2> QED
    BY <1>1, <2>1, <2>2 DEF IsTelling
<1>5. IsAhead(r, at, high)
  <2>1. \A i \in 1..n : (IsUnsent(r[i]) <=> IsUnsent(q[i])) /\ r[i].number = q[i].number
    BY <1>1 DEF IsUnsent
  <2>2. \A i \in 1..n : \A j \in (i + 1)..n : j \in 1..n
    BY <1>1
  <2> HIDE DEF q, r
  <2> QED
    BY <1>1, <1>2, <2>1, <2>2 DEF IsAhead, n
<1> QED
  BY <1>2, <1>3, <1>4, <1>5 DEF Clear

\* What waits for an answer still does.
LEMMA MatchedAlike ==
  ASSUME NEW q, NEW r, Alike(q, r),
         \A i \in 1..Len(q) : q[i].state = "awaiting" => r[i].state = "awaiting",
         NEW w, NEW n, Matched(q, w, n)
  PROVE  Matched(r, w, n)
<1>1. PICK f : Matches(f, q, w, n)
  BY DEF Matched
<1>2. Matches(f, r, w, n)
  BY <1>1 DEF Matches, Suits, Alike
<1> QED
  BY <1>2 DEF Matched

LEMMA MatchedOn ==
  ASSUME NEW q, NEW w, Len(w) \in Nat, NEW n \in Nat, Matched(q, w, n),
         n + 1 \in 1..Len(w) => ~IsAnswer(w[n + 1])
  PROVE  Matched(q, w, n + 1)
<1>1. PICK f : Matches(f, q, w, n)
  BY DEF Matched
<1>2. \A i \in ((n + 1) + 1)..Len(w) : i \in (n + 1)..Len(w)
  OBVIOUS
<1>3. Matches(f, q, w, n + 1)
  BY <1>1, <1>2 DEF Matches
<1> QED
  BY <1>3 DEF Matched

\* mqtt_mq_find() gives a packet that waits for this answer.
LEMMA AnswerFound ==
  ASSUME NEW c, ClientOK(c), InOrder(c), IsTelling(c.queue), NEW p, IsAnswer(p),
         NEW i \in 1..Len(c.queue), c.queue[i].state = "awaiting", Suits(c.queue[i], p)
  PROVE  LET k == Find(c, AnswerTo[p.type], p.pid)
         IN /\ k \in 1..Len(c.queue) /\ c.queue[k].state = "awaiting"
            /\ Suits(c.queue[k], p)
<1> DEFINE q == c.queue
           n == Len(q)
           type == AnswerTo[p.type]
           k == Find(c, type, p.pid)
<1>1. n \in Nat /\ \A j \in 1..n : q[j].state \in States
  <2>1. q \in Seq(Queued)
    BY DEF ClientOK, ClientRecord
  <2>2. n \in Nat /\ \A j \in 1..n : q[j] \in Queued
    BY <2>1, ElementOfSeq
  <2>3. ASSUME NEW j \in 1..n PROVE q[j].state \in States
    <3>1. q[j] \in Queued
      BY <2>2
    <3> QED
      BY <3>1 DEF Queued
  <2> QED
    BY <2>2, <2>3
<1>2. q[i].type = type /\ q[i].pid = p.pid
  BY DEF Suits
<1>3. type # "PUBACK"
  BY DEF IsAnswer, AnswerTo
<1>4. IsAnswered(q[i], type, p.pid)
  BY <1>2 DEF IsAnswered
<1>5. /\ k \in 1..n /\ IsAnswered(q[k], type, p.pid)
      /\ \A j \in 1..(k - 1) : ~IsAnswered(q[j], type, p.pid)
  BY <1>4, FindFacts
<1> HIDE DEF k, type
<1>6. k <= i
  BY <1>1, <1>4, <1>5
<1>7. CASE p.pid = NoPid
  <2>1. q[k].type = type /\ q[k].state # "complete"
    BY <1>5, <1>7 DEF IsAnswered
  <2>2. q[k].state # "unsent"
    <3>1. i \in k..n
      BY <1>1, <1>5, <1>6
    <3> QED
      BY <1>5, <3>1 DEF InOrder
  <2>3. q[k].state = "awaiting"
    BY <1>1, <1>5, <2>1, <2>2 DEF States
  <2>4. q[k].pid = NoPid
    <3>1. type \in {"CONNECT", "PINGREQ"}
      <4>1. type \in {"CONNECT", "PINGREQ", "SUBSCRIBE", "PUBLISH"}
        BY DEF IsAnswer, AnswerTo, type
      <4> QED
        BY <1>2, <1>7, <4>1 DEF IsTelling
    <3> QED
      BY <1>5, <2>1, <3>1 DEF IsTelling
  <2> QED
    BY <1>5, <1>7, <2>1, <2>3, <2>4 DEF Suits, k, type
<1>8. CASE p.pid # NoPid
  <2>1. q[k].type = type /\ q[k].pid = p.pid
    BY <1>5, <1>8 DEF IsAnswered
  <2>2. k = i
    BY <1>2, <1>3, <1>5, <1>8, <2>1 DEF IsTelling
  <2> QED
    BY <1>5, <2>1, <2>2 DEF Suits, k, type
<1> QED
  BY <1>7, <1>8

\* The packet is complete, and each answer after this one has one of its own.
LEMMA ClearDone ==
  ASSUME NEW c, ClientOK(c), NEW k \in 1..Len(c.queue), c.queue[k].state = "awaiting",
         NEW w, Len(w) \in Nat, NEW n \in Nat, n + 1 \in 1..Len(w), IsAnswer(w[n + 1]),
         Suits(c.queue[k], w[n + 1]), Matched(c.queue, w, n),
         NEW at, NEW high, Clear(c, at, high)
  PROVE  LET e == Put(c, k, Done(c.queue[k]))
         IN Clear(e, at, high) /\ Matched(e.queue, w, n + 1) /\ e.timeouts = c.timeouts
<1> DEFINE q == c.queue
           m == Done(q[k])
           e == Put(c, k, m)
           r == e.queue
<1>1. /\ c \in ClientRecord /\ q \in Seq(Queued) /\ Len(q) \in Nat /\ q[k] \in Queued
  BY ElementOfSeq DEF ClientOK, ClientRecord
<1>2. /\ m \in Queued /\ m.state = "complete" /\ m.start = q[k].start /\ m.size = q[k].size
      /\ m.type = q[k].type /\ m.pid = q[k].pid /\ m.number = q[k].number
      /\ m.written = q[k].written
  BY <1>1 DEF Done, Queued, States
<1> HIDE DEF m
<1>3. /\ Len(r) = Len(q) /\ e = [c EXCEPT !.queue = r]
      /\ \A j \in 1..Len(q) : r[j] = IF j = k THEN m ELSE q[j]
  <2> DEFINE new == [q EXCEPT ![k] = m]
  <2>1. Len(new) = Len(q) /\ \A j \in 1..Len(q) : new[j] = IF j = k THEN m ELSE q[j]
    BY <1>1, <1>2
  <2>2. e = [c EXCEPT !.queue = new]
    BY DEF Put
  <2> HIDE DEF new, e
  <2>3. e.queue = new /\ e = [c EXCEPT !.queue = e.queue]
    BY <1>1, <2>2 DEF ClientRecord
  <2> QED
    BY <2>1, <2>3
<1> HIDE DEF e, r, q
<1>4. /\ e.offset = c.offset /\ e.torn = c.torn /\ e.error = c.error
      /\ e.timeouts = c.timeouts
  BY <1>1, <1>3 DEF ClientRecord
<1>5. Alike(q, r)
  BY <1>2, <1>3 DEF Alike, q
<1>6. Clear(e, at, high)
  <2>1. e.error # "ACK_OF_UNKNOWN"
    BY <1>4 DEF Clear
  <2> QED
    BY <1>4, <1>5, <2>1, ClearAlike DEF q, r
<1>7. PICK f : Matches(f, q, w, n)
  BY DEF Matched, q
<1> DEFINE I == (n + 1)..Len(w)
           J == ((n + 1) + 1)..Len(w)
           g == [i \in J |-> IF f[i] = k THEN f[n + 1] ELSE f[i]]
<1>8. /\ n + 1 \in I /\ \A i \in J : i \in I /\ i # n + 1
  OBVIOUS
<1>9. /\ \A i \in I : IsAnswer(w[i]) =>
           f[i] \in 1..Len(q) /\ q[f[i]].state = "awaiting" /\ Suits(q[f[i]], w[i])
      /\ \A i, j \in I : IsAnswer(w[i]) /\ IsAnswer(w[j]) /\ f[i] = f[j] => i = j
  BY <1>7 DEF Matches
<1>10. ASSUME NEW i \in J, IsAnswer(w[i])
       PROVE  /\ g[i] \in 1..Len(r) /\ r[g[i]].state = "awaiting" /\ Suits(r[g[i]], w[i])
  <2>1. CASE f[i] = k
    <3>1. g[i] = f[n + 1] /\ f[n + 1] # k /\ f[n + 1] \in 1..Len(q)
      BY <1>8, <1>9, <1>10, <2>1
    <3>2. r[g[i]] = q[f[n + 1]] /\ q[f[n + 1]].state = "awaiting"
      BY <1>3, <1>8, <1>9, <3>1
    <3>3. Suits(q[k], w[i]) /\ Suits(q[k], w[n + 1]) /\ Suits(q[f[n + 1]], w[n + 1])
      BY <1>8, <1>9, <1>10, <2>1 DEF q
    <3>4. Suits(q[f[n + 1]], w[i])
      BY <3>3 DEF Suits
    <3> QED
      BY <1>3, <3>1, <3>2, <3>4
  <2>2. CASE f[i] # k
    <3>1. g[i] = f[i] /\ f[i] \in 1..Len(q)
      BY <1>8, <1>9, <1>10, <2>2
    <3>2. r[g[i]] = q[f[i]]
      BY <1>3, <2>2, <3>1
    <3> QED
      BY <1>3, <1>8, <1>9, <1>10, <3>1, <3>2
  <2> QED
    BY <2>1, <2>2
<1>11. ASSUME NEW i \in J, NEW j \in J, IsAnswer(w[i]), IsAnswer(w[j]), g[i] = g[j]
       PROVE  i = j
  <2>1. /\ g[i] = IF f[i] = k THEN f[n + 1] ELSE f[i]
        /\ g[j] = IF f[j] = k THEN f[n + 1] ELSE f[j]
    OBVIOUS
  <2> HIDE DEF g
  <2> QED
    BY <1>8, <1>9, <1>11, <2>1
<1> HIDE DEF g
<1>12. Matches(g, r, w, n + 1)
  BY <1>10, <1>11 DEF Matches
<1> QED
  BY <1>4, <1>6, <1>12 DEF Matched, e, r, m, q

LEMMA ClearError ==
  ASSUME NEW c, ClientOK(c), NEW error \in Errors \ {"ACK_OF_UNKNOWN"}, NEW at, NEW high,
         Clear(c, at, high), NEW w, NEW n, Matched(c.queue, w, n)
  PROVE  LET d == WithError(c, error)
         IN /\ ClientOK(d) /\ Clear(d, at, high) /\ Matched(d.queue, w, n)
            /\ d.timeouts = c.timeouts
<1> DEFINE d == WithError(c, error)
<1>1. ClientOK(d) /\ d.queue = c.queue
  BY ErrorOK
<1>2. d.offset = c.offset /\ d.torn = c.torn /\ d.error = error /\ d.timeouts = c.timeouts
  BY DEF WithError, ClientOK, ClientRecord
<1> HIDE DEF d
<1>3. Alike(c.queue, d.queue)
  BY <1>1 DEF Alike
<1>4. Clear(d, at, high)
  BY <1>2, <1>3, ClearAlike
<1> QED
  BY <1>1, <1>2, <1>4 DEF d

\* What has come of the first k packets of w.
IsReading(s, w, k, at, high) ==
  /\ ReceivedOK(s)
  /\ s.read <= k /\ (~s.failed => s.read = k)
  /\ ~s.client.timeouts
  /\ Clear(s.client, at, high) /\ Matched(s.client.queue, w, s.read)

LEMMA ReadsMessage ==
  ASSUME NEW s, NEW w \in Seq(Incoming), NEW k \in 1..Len(w), NEW at \in SUBSET Nat,
         NEW high \in Nat, IsReading(s, w, k, at, high), s.read = k, ~s.failed,
         NEW p \in Deliveries
  PROVE  IsReading(HandlePublish(s, p), w, k, at, high)
<1> DEFINE c == s.client
           d == IF p.qos = 0 THEN c ELSE TryPack(c, PubackPacket(p.pid))
           a == IF p.qos = 0 THEN s
                ELSE [s EXCEPT !.client = TryPack(@, PubackPacket(p.pid))]
           t == HandlePublish(s, p)
<1>1. /\ s \in Received /\ ClientOK(c) /\ p.qos \in {0, 1} /\ p.pid \in Nat
      /\ ~c.timeouts /\ Clear(c, at, high) /\ Matched(c.queue, w, k)
  BY SlotsFacts DEF IsReading, ReceivedOK, Deliveries
<1>2. ClientOK(d) /\ ~d.timeouts /\ Clear(d, at, high) /\ Matched(d.queue, w, k)
  <2> DEFINE m == PubackPacket(p.pid)
             e == TryPack(c, m)
  <2>1. m \in Queued
    BY <1>1, PacketsQueued
  <2>2. m.type = "PUBACK" /\ m.state = "unsent" /\ m.written = 0
    BY DEF PubackPacket, Packet
  <2> HIDE DEF m
  <2>3. MayFollow(c.queue, m) /\ ~IsUnsent(m)
    BY <2>1, <2>2 DEF MayFollow, IsUnsent
  <2>4. ClientOK(e) /\ Clear(e, at, high) /\ Matched(e.queue, w, k) /\ e.timeouts = c.timeouts
    <3>1. high <= high
      OBVIOUS
    <3> QED
      BY <1>1, <2>1, <2>3, <3>1, TryPackOK, ClearTryPack
  <2> QED
    BY <1>1, <2>4 DEF m
<1>3. a = [s EXCEPT !.client = d]
  BY <1>1 DEF Received
<1>4. /\ ReceivedOK(t)
      /\ t \in {Failed(a, a.client.error), [a EXCEPT !.out = Append(@, p)]}
  BY HandlePublishOK DEF HandlePublish, IsReading
<1> HIDE DEF a, d, t
<1>5. a \in Received /\ a.client = d /\ a.read = k /\ a.failed = s.failed
  BY <1>1, <1>2, <1>3 DEF Received, ClientOK
<1>6. t.client = d /\ t.read = k
  <2>1. CASE t = Failed(a, a.client.error)
    <3>1. d.error \in Errors /\ WithError(d, d.error) = d
      BY <1>2 DEF ClientOK, ClientRecord, WithError
    <3>2. ReceivedOK(a)
      BY <1>2, <1>5 DEF ReceivedOK
    <3> QED
      BY <1>5, <2>1, <3>1, <3>2, FailedOK
  <2>2. CASE t = [a EXCEPT !.out = Append(@, p)]
    BY <1>5, <2>2 DEF Received
  <2> QED
    BY <1>4, <2>1, <2>2
<1>7. IsReading(t, w, k, at, high)
  BY <1>2, <1>4, <1>6 DEF IsReading
<1> QED
  BY <1>7 DEF t

LEMMA ReadsAnswer ==
  ASSUME NEW s, NEW w \in Seq(Incoming), NEW k \in 1..Len(w), NEW at \in SUBSET Nat,
         NEW high \in Nat, ReceivedOK(s), s.read = k, ~s.failed, ~s.client.timeouts,
         Clear(s.client, at, high), Matched(s.client.queue, w, k - 1),
         w[k] \in Replies, IsAnswer(w[k])
  PROVE  IsReading(HandleAnswer(s, w[k]), w, k, at, high)
<1> DEFINE c == s.client
           q == c.queue
           p == w[k]
           i == Find(c, AnswerTo[p.type], p.pid)
           t == Answered(s, i)
<1>1. /\ s \in Received /\ ClientOK(c) /\ InOrder(c) /\ IsTelling(q)
  BY DEF ReceivedOK, Clear
<1>2. PICK f : Matches(f, q, w, k - 1)
  BY DEF Matched
<1>3. k \in (k - 1 + 1)..Len(w) /\ k - 1 \in Nat /\ Len(w) \in Nat /\ (k - 1) + 1 = k
  OBVIOUS
<1>4. f[k] \in 1..Len(q) /\ q[f[k]].state = "awaiting" /\ Suits(q[f[k]], p)
  BY <1>2, <1>3 DEF Matches
<1>5. i \in 1..Len(q) /\ q[i].state = "awaiting" /\ Suits(q[i], p)
  <2> HIDE DEF p
  <2>1. IsAnswer(p)
    BY DEF p
  <2> QED
    BY <1>1, <1>4, <2>1, AnswerFound
<1> DEFINE e == Put(c, i, Done(q[i]))
<1>6. ReceivedOK(t) /\ t.client = e /\ t.failed = s.failed /\ t.read = k /\ ClientOK(e)
  BY <1>5, AnsweredOK
<1> HIDE DEF i
<1>7. Clear(e, at, high) /\ Matched(e.queue, w, k) /\ e.timeouts = c.timeouts
  BY <1>1, <1>3, <1>5, ClearDone
<1> HIDE DEF e, t
<1>8. IsReading(t, w, k, at, high)
  BY <1>6, <1>7 DEF IsReading
<1>9. CASE HandleAnswer(s, p) = t
  BY <1>8, <1>9
<1>10. CASE HandleAnswer(s, p) = Failed(t, "CONNECTION_REFUSED")
  <2> DEFINE u == Failed(t, "CONNECTION_REFUSED")
  <2>1. "CONNECTION_REFUSED" \in Errors \ {"ACK_OF_UNKNOWN"}
    BY DEF Errors
  <2>2. /\ ReceivedOK(u) /\ u.failed /\ u.read = k
        /\ u.client = WithError(e, "CONNECTION_REFUSED")
    BY <1>6, <2>1, FailedOK
  <2> HIDE DEF u
  <2>3. /\ Clear(u.client, at, high) /\ Matched(u.client.queue, w, k)
        /\ u.client.timeouts = e.timeouts
    BY <1>6, <1>7, <2>1, <2>2, ClearError
  <2>4. IsReading(u, w, k, at, high)
    BY <1>7, <2>2, <2>3 DEF IsReading
  <2> QED
    BY <1>10, <2>4 DEF u
<1>11. HandleAnswer(s, p) \in {t, Failed(t, "CONNECTION_REFUSED")}
  BY DEF HandleAnswer, t, i
<1> HIDE DEF p
<1> QED
  BY <1>9, <1>10, <1>11 DEF p

LEMMA ReadsOn ==
  ASSUME NEW s, NEW w \in Seq(Incoming), NEW k \in 1..Len(w), NEW at \in SUBSET Nat,
         NEW high \in Nat, IsReading(s, w, k - 1, at, high)
  PROVE  IsReading(HandlePacket(s, w[k]), w, k, at, high)
<1> DEFINE p == w[k]
           u == [s EXCEPT !.read = @ + 1]
<1>1. p \in Incoming /\ s \in Received /\ ReceivedOK(s) /\ ClientOK(s.client) /\ s.read \in Nat
  BY ElementOfSeq DEF IsReading, ReceivedOK, Received
<1>2. CASE s.failed
  <2>1. HandlePacket(s, p) = s
    BY <1>2 DEF HandlePacket
  <2> QED
    BY <1>1, <1>2, <2>1 DEF IsReading
<1>3. ASSUME ~s.failed
      PROVE  /\ ReceivedOK(u) /\ u.client = s.client /\ u.read = k /\ ~u.failed
             /\ (k - 1) + 1 = k /\ s.read = k - 1
  <2>1. s.read = k - 1
    BY <1>3 DEF IsReading
  <2> QED
    BY <1>1, <1>3, <2>1, ReadOn DEF Received
<1> HIDE DEF u
<1>4. ASSUME ~s.failed, ~IsAnswer(p) PROVE IsReading(u, w, k, at, high)
  <2>1. Matched(u.client.queue, w, k)
    <3>1. Matched(s.client.queue, w, k - 1) /\ k - 1 \in Nat /\ Len(w) \in Nat
      BY <1>3, <1>4 DEF IsReading
    <3> QED
      BY <1>3, <1>4, <3>1, MatchedOn
  <2> QED
    BY <1>3, <1>4, <2>1 DEF IsReading
<1>5. CASE ~s.failed /\ p \in Deliveries
  <2>1. p.type = "PUBLISH" /\ ~IsAnswer(p)
    BY <1>5 DEF Deliveries, IsAnswer, AnswerTo
  <2>2. HandlePacket(s, p) = HandlePublish(u, p)
    BY <1>5, <2>1 DEF HandlePacket, AnswerTo, u
  <2> HIDE DEF p
  <2>3. IsReading(HandlePublish(u, p), w, k, at, high)
    BY <1>3, <1>4, <1>5, <2>1, ReadsMessage
  <2> QED
    BY <2>2, <2>3 DEF p
<1>6. CASE ~s.failed /\ p \in Replies /\ p.type = "TOO_LARGE"
  <2>1. HandlePacket(s, p) = Failed(s, "RECV_BUFFER_TOO_SMALL")
    BY <1>6 DEF HandlePacket, AnswerTo
  <2>2. "RECV_BUFFER_TOO_SMALL" \in Errors \ {"ACK_OF_UNKNOWN"}
    BY DEF Errors
  <2> DEFINE t == Failed(s, "RECV_BUFFER_TOO_SMALL")
  <2>3. /\ ReceivedOK(t) /\ t.failed /\ t.read = s.read
        /\ t.client = WithError(s.client, "RECV_BUFFER_TOO_SMALL")
    BY <1>1, <2>2, FailedOK
  <2> HIDE DEF t
  <2>4. /\ Clear(t.client, at, high) /\ Matched(t.client.queue, w, s.read)
        /\ t.client.timeouts = s.client.timeouts
    BY <1>1, <2>2, <2>3, ClearError DEF IsReading
  <2>5. IsReading(t, w, k, at, high)
    BY <1>1, <2>3, <2>4 DEF IsReading
  <2> QED
    BY <2>1, <2>5 DEF t
<1>7. CASE ~s.failed /\ p \in Replies /\ p.type # "TOO_LARGE"
  <2>1. IsAnswer(p) /\ p.type # "PUBLISH"
    BY <1>7 DEF Replies, IsAnswer, AnswerTo
  <2>2. HandlePacket(s, p) = HandleAnswer(u, p)
    BY <1>7, <2>1 DEF HandlePacket, IsAnswer, u
  <2>3. IsReading(HandleAnswer(u, w[k]), w, k, at, high)
    <3>1. /\ ~u.client.timeouts /\ Clear(u.client, at, high)
          /\ Matched(u.client.queue, w, k - 1)
      BY <1>3, <1>7 DEF IsReading
    <3> QED
      BY <1>3, <1>7, <2>1, <3>1, ReadsAnswer
  <2> QED
    BY <2>2, <2>3
<1> QED
  BY <1>1, <1>2, <1>5, <1>6, <1>7 DEF Incoming

\* __mqtt_recv(), of what is on the way.
LEMMA ClearReceived ==
  ASSUME NEW c, ClientOK(c), ~c.timeouts, NEW w \in Seq(Incoming), NEW k \in 0..Len(w),
         NEW at \in SUBSET Nat, NEW high \in Nat, Clear(c, at, high), Matched(c.queue, w, 0)
  PROVE  LET r == Receive(c, Whole(w, k))
         IN IsReading(r, w, r.read, at, high)
<1> DEFINE packets == Whole(w, k)
           last == FoldLeft(HandlePacket, Started(c), packets)
           T == {s \in Received : ReceivedOK(s)}
<1>1. /\ packets \in Seq(Incoming) /\ Len(packets) = k /\ k \in Nat /\ Len(w) \in Nat
      /\ \A i \in 1..k : packets[i] = w[i]
  <2>1. packets = SubSeq(w, 1, k) /\ k \in Nat
    BY DEF Whole
  <2> HIDE DEF packets
  <2>2. /\ SubSeq(w, 1, k) \in Seq(Incoming) /\ Len(SubSeq(w, 1, k)) = k
        /\ \A i \in 1..k : SubSeq(w, 1, k)[i] = w[i]
    OBVIOUS
  <2> QED
    BY <2>1, <2>2
<1>2. Started(c) \in T /\ Started(c).client = c /\ Started(c).read = 0 /\ ~Started(c).failed
  <2>1. Started(c) \in Received /\ Started(c).client = c
    BY DEF Started, Received, ClientOK
  <2>2. Started(c).read = 0 /\ ~Started(c).failed
    BY DEF Started
  <2> QED
    BY <2>1, <2>2 DEF ReceivedOK
<1>3. \A s \in T, p \in Incoming : HandlePacket(s, p) \in T
  BY HandlePacketOK DEF ReceivedOK
<1> HIDE DEF packets, T
<1>4. PICK tr \in [0..Len(packets) -> T] :
        /\ FoldsTo(tr, Len(packets), Started(c), last)
        /\ HandlesAll(tr, packets)
  BY <1>1, <1>2, <1>3, HandlePacketTrace
<1> HIDE DEF last
<1> DEFINE P == {i \in 0..k : IsReading(tr[i], w, i, at, high)}
<1>5. 0 \in P
  <2>1. tr[0] = Started(c)
    BY <1>4 DEF FoldsTo
  <2>2. IsReading(tr[0], w, 0, at, high)
    BY <1>2, <2>1 DEF IsReading, T
  <2> QED
    BY <1>1, <2>2
<1>6. ASSUME NEW i \in 1..k, i - 1 \in P PROVE i \in P
  <2>1. tr[i] = HandlePacket(tr[i - 1], w[i]) /\ i \in 1..Len(w)
    BY <1>1, <1>4 DEF HandlesAll
  <2>2. IsReading(tr[i - 1], w, i - 1, at, high)
    BY <1>6
  <2>3. IsReading(tr[i], w, i, at, high)
    BY <2>1, <2>2, ReadsOn
  <2> QED
    BY <1>1, <2>3
<1>7. k \in P
  <2>1. P \in SUBSET (0..k)
    OBVIOUS
  <2> HIDE DEF P
  <2>2. P = 0..k
    BY <1>1, <1>5, <1>6, <2>1, AllUpTo
  <2> QED
    BY <1>1, <2>2
<1>8. last = Receive(c, packets)
  BY DEF Receive, last
<1>9. IsReading(last, w, k, at, high)
  BY <1>1, <1>4, <1>7 DEF FoldsTo
<1>10. IsReading(last, w, last.read, at, high)
  BY <1>9 DEF IsReading, ReceivedOK, Received
<1> QED
  BY <1>8, <1>10 DEF packets

\* What was not read stays on the way.
LEMMA MatchedRest ==
  ASSUME NEW q, NEW w \in Seq(Incoming), NEW n \in Nat, Matched(q, w, n)
  PROVE  Matched(q, SubSeq(w, n + 1, Len(w)), 0)
<1> DEFINE v == SubSeq(w, n + 1, Len(w))
           l == Len(v)
<1>1. /\ l \in Nat /\ \A i \in 1..l : i + n \in (n + 1)..Len(w) /\ v[i] = w[i + n]
  <2>1. Len(w) \in Nat
    OBVIOUS
  <2>2. CASE n + 1 <= Len(w)
    <3>1. /\ l = Len(w) - n /\ \A i \in 1..(Len(w) - n) : v[i] = w[n + 1 + i - 1]
      BY <2>1, <2>2
    <3> HIDE DEF v
    <3>2. \A i \in 1..(Len(w) - n) : n + 1 + i - 1 = i + n
      BY <2>1
    <3>3. \A i \in 1..(Len(w) - n) : v[i] = w[i + n] /\ i + n \in (n + 1)..Len(w)
      BY <2>1, <3>1, <3>2
    <3> QED
      BY <2>1, <2>2, <3>1, <3>3
  <2>3. CASE ~(n + 1 <= Len(w))
    <3>1. v = <<>>
      BY <2>1, <2>3
    <3> HIDE DEF v
    <3> QED
      BY <3>1
  <2> QED
    BY <2>2, <2>3
<1>2. PICK f : Matches(f, q, w, n)
  BY DEF Matched
<1> HIDE DEF v, l
<1> DEFINE g == [i \in 1..l |-> f[i + n]]
<1>3. \A i \in 1..l : g[i] = f[i + n]
  OBVIOUS
<1> HIDE DEF g
<1>4. /\ \A i \in (n + 1)..Len(w) : IsAnswer(w[i]) =>
           f[i] \in 1..Len(q) /\ q[f[i]].state = "awaiting" /\ Suits(q[f[i]], w[i])
      /\ \A i, j \in (n + 1)..Len(w) :
           IsAnswer(w[i]) /\ IsAnswer(w[j]) /\ f[i] = f[j] => i = j
  BY <1>2 DEF Matches
<1>5. \A i \in 1..l : IsAnswer(v[i]) =>
        g[i] \in 1..Len(q) /\ q[g[i]].state = "awaiting" /\ Suits(q[g[i]], v[i])
  BY <1>1, <1>3, <1>4
<1>6. \A i, j \in 1..l : IsAnswer(v[i]) /\ IsAnswer(v[j]) /\ g[i] = g[j] => i = j
  <2> SUFFICES ASSUME NEW i \in 1..l, NEW j \in 1..l, IsAnswer(v[i]), IsAnswer(v[j]),
                      g[i] = g[j]
               PROVE  i = j
    OBVIOUS
  <2>1. i + n = j + n
    BY <1>1, <1>3, <1>4
  <2> QED
    BY <1>1, <2>1
<1>7. (0 + 1)..Len(v) = 1..l
  BY DEF l
<1>8. Matches(g, q, v, 0)
  BY <1>5, <1>6, <1>7 DEF Matches
<1> QED
  BY <1>8 DEF Matched, v

\* The answer to one more packet comes last.
LEMMA AnswersAppend ==
  ASSUME NEW sent \in Seq(Queued), NEW m \in Queued, NEW refuses
  PROVE  Answers(Append(sent, m), refuses) = Answers(sent, refuses) \o Answer(m, refuses)
<1> DEFINE n == Len(sent)
           more == Append(sent, m)
           seqs == [i \in 1..n |-> Answer(sent[i], refuses)]
           l == Len(more)
           all == [i \in 1..l |-> Answer(more[i], refuses)]
<1>1. /\ n \in Nat /\ more \in Seq(Queued) /\ l = n + 1 /\ more[n + 1] = m
      /\ \A i \in 1..n : more[i] = sent[i]
      /\ \A i \in 1..(n + 1) : i \in 1..n \/ i = n + 1
  BY AppendProperties
<1>2. /\ \A i \in 1..n : sent[i] \in Queued
      /\ \A i \in 1..(n + 1) : more[i] \in Queued
  <2> HIDE DEF more
  <2> QED
    BY <1>1, ElementOfSeq
<1> HIDE DEF more
<1>3. \A i \in 1..n : Answer(sent[i], refuses) \in Seq(Replies)
  BY <1>2, AnswerIsReply
<1>13. \A i \in 1..l : Answer(more[i], refuses) \in Seq(Replies)
  BY <1>1, <1>2, AnswerIsReply
<1>4. (\E a : Joins(a, n, seqs, Replies)) /\ Answers(sent, refuses) = FlattenSeq(seqs)
  BY <1>3, AnswersJoin
<1>5. (\E b : Joins(b, l, all, Replies)) /\ Answers(more, refuses) = FlattenSeq(all)
  <2>1. more \in Seq(Queued)
    BY <1>1
  <2> QED
    BY <1>13, <2>1, AnswersJoin
<1>6. /\ \A i \in 1..n : all[i] = seqs[i]
      /\ all[n + 1] = Answer(m, refuses)
  BY <1>1
<1> HIDE DEF n, l, seqs, all
<1>7. PICK a : Joins(a, n, seqs, Replies)
  BY <1>4
<1>8. PICK b : Joins(b, l, all, Replies)
  BY <1>5
<1>15. /\ a[0] = <<>> /\ b[0] = <<>>
       /\ \A k \in 1..n : a[k] = a[k - 1] \o seqs[k]
       /\ \A k \in 1..l : b[k] = b[k - 1] \o all[k]
  BY <1>7, <1>8 DEF Joins
<1> DEFINE P == {k \in 0..n : a[k] = b[k]}
<1>9. 0 \in P
  BY <1>1, <1>15
<1>10. ASSUME NEW k \in 1..n, k - 1 \in P PROVE k \in P
  <2>1. k \in 1..l /\ k \in 0..n
    BY <1>1
  <2>2. a[k] = a[k - 1] \o seqs[k] /\ b[k] = b[k - 1] \o all[k] /\ all[k] = seqs[k]
    BY <1>6, <1>15, <2>1
  <2>3. a[k - 1] = b[k - 1]
    BY <1>10
  <2> QED
    BY <2>1, <2>2, <2>3
<1>11. a[n] = b[n]
  <2>1. P \in SUBSET (0..n)
    OBVIOUS
  <2>2. P = 0..n
    <3> HIDE DEF P
    <3> QED
      BY <1>1, <1>9, <1>10, <2>1, AllUpTo
  <2>3. n \in 0..n
    BY <1>1
  <2> QED
    BY <2>2, <2>3
<1>12. b[n + 1] = b[n] \o all[n + 1]
  <2>1. n + 1 \in 1..l /\ (n + 1) - 1 = n
    BY <1>1
  <2> QED
    BY <1>15, <2>1
<1>14. a[n] = FlattenSeq(seqs) /\ b[n + 1] = FlattenSeq(all)
  BY <1>1, <1>7, <1>8 DEF Joins
<1> QED
  BY <1>4, <1>5, <1>6, <1>11, <1>12, <1>14 DEF more

LEMMA AnswersOfNone ==
  ASSUME NEW refuses
  PROVE  Answers(<<>>, refuses) = <<>>
<1> DEFINE none == <<>>
<1>1. none \in Seq(Queued) /\ Len(none) = 0 /\ none \in Seq(Replies)
  OBVIOUS
<1>2. \A i \in 1..0 : Answer(none[i], refuses) \in Seq(Replies)
  OBVIOUS
<1>3. /\ \E at : Joins(at, 0, [i \in 1..0 |-> Answer(none[i], refuses)], Replies)
      /\ Answers(none, refuses) = FlattenSeq([i \in 1..0 |-> Answer(none[i], refuses)])
  BY <1>1, <1>2, AnswersJoin
<1> QED
  BY <1>3 DEF Joins

\* The next packet goes on where it stopped, and no other has begun.
LEMMA FirstGoesOn ==
  ASSUME NEW c, ClientOK(c), InOrder(c), NEW i \in 1..Len(c.queue),
         c.queue[i].state = "unsent", \A j \in 1..(i - 1) : c.queue[j].state # "unsent"
  PROVE  /\ c.queue[i].written = c.offset /\ c.offset < c.queue[i].size
         /\ ~Tears(c, c.queue[i], c.offset)
         /\ \A j \in 1..Len(c.queue) : j # i => c.queue[j].written = 0
         /\ \A j \in i..Len(c.queue) : c.queue[j].state = "unsent"
<1> DEFINE q == c.queue
           n == Len(q)
<1>1. n \in Nat /\ DOMAIN q = 1..n
  BY DEF ClientOK, ClientRecord
<1>2. IsFirst(q, i)
  BY DEF IsFirst
<1>3. \A j \in 1..n : j # i => ~IsFirst(q, j)
  <2> SUFFICES ASSUME NEW j \in 1..n, j # i PROVE ~IsFirst(q, j)
    OBVIOUS
  <2>1. CASE j < i
    <3>1. j \in 1..(i - 1)
      BY <1>1, <2>1
    <3> QED
      BY <3>1 DEF IsFirst
  <2>2. CASE i < j
    <3>1. i \in 1..(j - 1)
      BY <1>1, <2>2
    <3> QED
      BY <3>1 DEF IsFirst
  <2> QED
    BY <1>1, <2>1, <2>2
<1>4. q[i].written = c.offset /\ c.offset < q[i].size
  BY <1>2 DEF InOrder
<1>5. \A j \in 1..n : j # i => q[j].written = 0
  BY <1>3 DEF InOrder
<1>6. \A j \in i..n : q[j].state = "unsent"
  BY DEF InOrder
<1>7. ~Tears(c, q[i], c.offset)
  BY <1>1, <1>4, <1>5 DEF Tears
<1> QED
  BY <1>4, <1>5, <1>6, <1>7

SameAddressees(q, r) ==
  /\ Len(r) = Len(q)
  /\ \A j \in 1..Len(q) : r[j].type = q[j].type /\ r[j].pid = q[j].pid

LEMMA TellingSame ==
  ASSUME NEW q, NEW r, Len(q) \in Nat, IsTelling(q), SameAddressees(q, r)
  PROVE  IsTelling(r)
<1>1. Len(r) = Len(q) /\ \A j \in 1..Len(q) : r[j].type = q[j].type /\ r[j].pid = q[j].pid
  BY DEF SameAddressees
<1>2. \A j \in 1..Len(q) : /\ r[j].type \in {"CONNECT", "PINGREQ"} => r[j].pid = NoPid
                           /\ r[j].type \in {"SUBSCRIBE", "PUBLISH"} => r[j].pid # NoPid
  BY <1>1 DEF IsTelling
<1>3. \A j, k \in 1..Len(q) :
        /\ r[j].type = r[k].type /\ r[j].type # "PUBACK"
        /\ r[j].pid = r[k].pid /\ r[j].pid # NoPid
        => j = k
  BY <1>1 DEF IsTelling
<1> QED
  BY <1>1, <1>2, <1>3 DEF IsTelling

\* The socket has taken some of a packet.
LEMMA ClearPart ==
  ASSUME NEW c, ClientOK(c), NEW at, NEW high, Clear(c, at, high), NEW i \in 1..Len(c.queue),
         c.queue[i].state = "unsent", \A j \in 1..(i - 1) : c.queue[j].state # "unsent",
         NEW m, SamePacket(c.queue[i], m), m.state = "unsent",
         NEW d, Len(d.queue) = Len(c.queue),
         \A j \in 1..Len(c.queue) : d.queue[j] = IF j = i THEN m ELSE c.queue[j],
         d.offset = m.written, m.written < m.size, d.torn = c.torn, d.error = c.error
  PROVE  Clear(d, at, high)
<1> DEFINE q == c.queue
           r == d.queue
           n == Len(q)
<1>1. /\ n \in Nat /\ Len(r) = n /\ i \in 1..n
      /\ \A j \in 1..n : r[j] = IF j = i THEN m ELSE q[j]
  BY DEF ClientOK, ClientRecord
<1>2. InOrder(c) /\ IsTelling(q) /\ IsAhead(q, at, high) /\ ~c.torn /\ c.error # "ACK_OF_UNKNOWN"
  BY DEF Clear
<1>3. /\ \A j \in 1..n : j # i => q[j].written = 0
      /\ \A j \in i..n : q[j].state = "unsent"
  BY <1>2, FirstGoesOn
<1>4. IsTelling(r)
  <2>1. SameAddressees(q, r)
    BY <1>1 DEF SameAddressees, SamePacket
  <2> HIDE DEF q, r
  <2> QED
    BY <1>1, <1>2, <2>1, TellingSame DEF n
<1>5. \A j \in 1..n : r[j].state = q[j].state /\ r[j].type = q[j].type /\ r[j].number = q[j].number
  BY <1>1 DEF SamePacket
<1>6. IsAhead(r, at, high)
  <2>1. \A j \in 1..n : (IsUnsent(r[j]) <=> IsUnsent(q[j])) /\ r[j].number = q[j].number
    BY <1>5 DEF IsUnsent
  <2>2. \A j \in 1..n : \A k \in (j + 1)..n : k \in 1..n
    BY <1>1
  <2> HIDE DEF q, r
  <2> QED
    BY <1>1, <1>2, <2>1, <2>2 DEF IsAhead, n
<1>7. InOrder(d)
  <2>1. \A j \in 1..n : \A k \in j..n : q[j].state = "unsent" => q[k].state = "unsent"
    BY <1>2 DEF InOrder
  <2>2. \A j \in 1..n : \A k \in j..n : r[j].state = "unsent" => r[k].state = "unsent"
    <3> SUFFICES ASSUME NEW j \in 1..n, NEW k \in j..n, r[j].state = "unsent"
                 PROVE  r[k].state = "unsent"
      OBVIOUS
    <3>1. k \in 1..n
      BY <1>1
    <3> QED
      BY <1>5, <2>1, <3>1
  <2>3. ASSUME NEW j \in 1..n
        PROVE  /\ IsFirst(r, j) => r[j].written = d.offset /\ d.offset < r[j].size
               /\ ~IsFirst(r, j) => r[j].written = 0
    <3>1. CASE j = i
      <4>1. IsFirst(r, i)
        <5>1. \A k \in 1..(i - 1) : r[k].state # "unsent"
          BY <1>1, <1>5
        <5> QED
          BY <1>5, <5>1 DEF IsFirst
      <4>2. r[i] = m
        BY <1>1
      <4> QED
        BY <3>1, <4>1, <4>2
    <3>2. CASE j # i
      <4>1. r[j].written = 0
        BY <1>1, <1>3, <3>2
      <4>2. ~IsFirst(r, j)
        <5>1. CASE j < i
          <6>1. j \in 1..(i - 1) /\ q[j].state # "unsent"
            BY <1>1, <5>1
          <6> QED
            BY <1>5, <6>1 DEF IsFirst
        <5>2. CASE i < j
          <6>1. i \in 1..(j - 1) /\ r[i].state = "unsent"
            BY <1>1, <1>5, <5>2
          <6> QED
            BY <6>1 DEF IsFirst
        <5> QED
          BY <1>1, <3>2, <5>1, <5>2
      <4> QED
        BY <4>1, <4>2
    <3> QED
      BY <3>1, <3>2
  <2>4. r[i].state = "unsent"
    BY <1>1
  <2> HIDE DEF q, n
  <2> QED
    BY <1>1, <2>2, <2>3, <2>4 DEF InOrder
<1> QED
  BY <1>2, <1>4, <1>6, <1>7 DEF Clear

\* It has taken the whole of it.
GrowsBy(more, at, m) ==
  \A x \in more : x \in at \/ (m.type = "PUBLISH" /\ x = m.number)

LEMMA ClearWhole ==
  ASSUME NEW c, ClientOK(c), NEW at, NEW high, Clear(c, at, high), NEW i \in 1..Len(c.queue),
         c.queue[i].state = "unsent", \A j \in 1..(i - 1) : c.queue[j].state # "unsent",
         NEW m, SamePacket(c.queue[i], m), m.state # "unsent", m.written = 0,
         NEW d, Len(d.queue) = Len(c.queue),
         \A j \in 1..Len(c.queue) : d.queue[j] = IF j = i THEN m ELSE c.queue[j],
         d.offset = 0, d.torn = c.torn, d.error = c.error,
         NEW more, GrowsBy(more, at, m)
  PROVE  Clear(d, more, high)
<1> DEFINE q == c.queue
           r == d.queue
           n == Len(q)
<1>1. /\ n \in Nat /\ Len(r) = n /\ i \in 1..n
      /\ \A j \in 1..n : r[j] = IF j = i THEN m ELSE q[j]
      /\ \A j \in 1..n : q[j].size > 0
  <2>1. q \in Seq(Queued)
    BY DEF ClientOK, ClientRecord
  <2>2. ASSUME NEW j \in 1..n PROVE q[j].size > 0
    <3>1. q[j] \in Queued
      BY <2>1, ElementOfSeq
    <3>2. q[j].size \in Nat \ {0}
      BY <3>1 DEF Queued
    <3> QED
      BY <3>2
  <2> QED
    BY <2>1, <2>2
<1>2. InOrder(c) /\ IsTelling(q) /\ IsAhead(q, at, high) /\ ~c.torn /\ c.error # "ACK_OF_UNKNOWN"
  BY DEF Clear
<1>3. /\ \A j \in 1..n : j # i => q[j].written = 0
      /\ \A j \in i..n : q[j].state = "unsent"
  BY <1>2, FirstGoesOn
<1>4. IsTelling(r)
  <2>1. SameAddressees(q, r)
    BY <1>1 DEF SameAddressees, SamePacket
  <2> HIDE DEF q, r
  <2> QED
    BY <1>1, <1>2, <2>1, TellingSame DEF n
<1>5. /\ r[i] = m /\ m.type = q[i].type /\ m.number = q[i].number
      /\ \A j \in 1..n : j # i => r[j] = q[j]
  BY <1>1 DEF SamePacket
<1>6. \A j \in 1..n : r[j].state = "unsent" => i < j
  <2> SUFFICES ASSUME NEW j \in 1..n, r[j].state = "unsent" PROVE i < j
    OBVIOUS
  <2>1. j # i
    BY <1>5
  <2>2. ~(j < i)
    <3>1. j < i => j \in 1..(i - 1)
      BY <1>1
    <3> QED
      BY <1>5, <2>1, <3>1
  <2> QED
    BY <1>1, <2>1, <2>2
<1>7. IsAhead(r, more, high)
  <2>1. /\ \A x \in at : x <= high
        /\ \A j \in 1..n : IsUnsent(q[j]) =>
             q[j].number <= high /\ \A x \in at : x < q[j].number
        /\ \A j \in 1..n : \A k \in (j + 1)..n :
             IsUnsent(q[j]) /\ IsUnsent(q[k]) => q[j].number < q[k].number
    BY <1>2 DEF IsAhead
  <2>2. \A j \in 1..n : IsUnsent(r[j]) => i < j /\ j \in (i + 1)..n /\ r[j] = q[j] /\ IsUnsent(q[j])
    BY <1>1, <1>5, <1>6 DEF IsUnsent
  <2>3. m.type = "PUBLISH" => IsUnsent(q[i])
    BY <1>5 DEF IsUnsent
  <2> HIDE DEF q, r, n
  <2>4. \A x \in more : x <= high
    BY <1>1, <1>5, <2>1, <2>3 DEF GrowsBy
  <2>5. \A j \in 1..n : IsUnsent(r[j]) =>
          r[j].number <= high /\ \A x \in more : x < r[j].number
    BY <1>1, <1>5, <2>1, <2>2, <2>3 DEF GrowsBy
  <2>6. ASSUME NEW j \in 1..n, NEW k \in (j + 1)..n, IsUnsent(r[j]), IsUnsent(r[k])
        PROVE  r[j].number < r[k].number
    <3>1. k \in 1..n
      BY <1>1
    <3> QED
      BY <2>1, <2>2, <2>6, <3>1
  <2> QED
    BY <1>1, <2>4, <2>5, <2>6 DEF IsAhead, r
<1>8. InOrder(d)
  <2>1. \A j \in 1..n : \A k \in j..n : r[j].state = "unsent" => r[k].state = "unsent"
    <3> SUFFICES ASSUME NEW j \in 1..n, NEW k \in j..n, r[j].state = "unsent"
                 PROVE  r[k].state = "unsent"
      OBVIOUS
    <3>1. i < j
      BY <1>6
    <3>2. k \in 1..n /\ k \in i..n /\ k # i
      BY <1>1, <3>1
    <3> QED
      BY <1>3, <1>5, <3>2
  <2>2. \A j \in 1..n : r[j].written = 0
    BY <1>3, <1>5
  <2>3. ASSUME NEW j \in 1..n, IsFirst(r, j) PROVE d.offset < r[j].size
    <3>1. r[j].state = "unsent"
      BY <2>3 DEF IsFirst
    <3>2. r[j] = q[j]
      BY <1>5, <3>1
    <3> QED
      BY <1>1, <3>2
  <2> HIDE DEF r, n
  <2> QED
    BY <1>1, <2>1, <2>2, <2>3 DEF InOrder, r
<1> QED
  BY <1>2, <1>4, <1>7, <1>8 DEF Clear

\* The answer to a packet that was sent is for that packet.
LEMMA MatchedWhole ==
  ASSUME NEW q \in Seq(Queued), IsTelling(q), NEW i \in 1..Len(q), q[i].state = "unsent",
         NEW m, SamePacket(q[i], m), m.state = StateAfter(q[i]),
         NEW r, Len(r) = Len(q), \A j \in 1..Len(q) : r[j] = IF j = i THEN m ELSE q[j],
         NEW w \in Seq(Incoming), Matched(q, w, 0), NEW refuses
  PROVE  Matched(r, w \o Answer(q[i], refuses), 0)
<1> DEFINE l == Len(w)
           a == Answer(q[i], refuses)
<1>1. /\ l \in Nat /\ Len(q) \in Nat /\ q[i] \in Queued
      /\ (0 + 1)..Len(w) = 1..l
  BY ElementOfSeq
<1>2. PICK f : Matches(f, q, w, 0)
  BY DEF Matched
<1>3. /\ \A j \in 1..l : IsAnswer(w[j]) =>
           f[j] \in 1..Len(q) /\ q[f[j]].state = "awaiting" /\ Suits(q[f[j]], w[j])
      /\ \A j, k \in 1..l :
           IsAnswer(w[j]) /\ IsAnswer(w[k]) /\ f[j] = f[k] => j = k
  BY <1>1, <1>2 DEF Matches
<1>4. \A j \in 1..l : IsAnswer(w[j]) =>
        /\ f[j] \in 1..Len(r) /\ f[j] # i
        /\ r[f[j]].state = "awaiting" /\ Suits(r[f[j]], w[j])
  BY <1>3
<1>5. /\ a \in Seq(Replies)
      /\ \/ a = <<>>
         \/ \E p \in Replies : /\ a = <<p>>
                               /\ p.type \in DOMAIN AnswerTo
                               /\ AnswerTo[p.type] = q[i].type
                               /\ \/ p.pid = NoPid /\ q[i].type \in {"CONNECT", "PINGREQ"}
                                  \/ p.pid = q[i].pid /\ q[i].type = "SUBSCRIBE"
                                  \/ /\ p.pid = q[i].pid
                                     /\ q[i].type = "PUBLISH" /\ q[i].qos = 1
  BY <1>1, AnswerIsReply
<1> HIDE DEF a
<1>6. CASE a = <<>>
  <2>1. w \o a = w
    BY <1>6
  <2>2. Matches(f, r, w, 0)
    BY <1>1, <1>3, <1>4 DEF Matches
  <2> QED
    BY <2>1, <2>2 DEF Matched, a
<1>7. CASE a # <<>>
  <2>1. PICK p \in Replies : /\ a = <<p>>
                             /\ p.type \in DOMAIN AnswerTo
                             /\ AnswerTo[p.type] = q[i].type
                             /\ \/ p.pid = NoPid /\ q[i].type \in {"CONNECT", "PINGREQ"}
                                \/ p.pid = q[i].pid /\ q[i].type = "SUBSCRIBE"
                                \/ /\ p.pid = q[i].pid
                                   /\ q[i].type = "PUBLISH" /\ q[i].qos = 1
    BY <1>5, <1>7
  <2>2. q[i].pid = p.pid
    BY <1>1, <2>1 DEF IsTelling
  <2>3. m.type = q[i].type /\ m.pid = p.pid
    BY <2>2 DEF SamePacket
  <2>4. Suits(m, p) /\ m.state = "awaiting"
    BY <2>1, <2>3 DEF Suits, StateAfter
  <2> DEFINE v == w \o a
  <2>5. /\ Len(v) = l + 1 /\ v[l + 1] = p /\ \A j \in 1..l : v[j] = w[j]
        /\ \A j \in 1..(l + 1) : j \in 1..l \/ j = l + 1
    BY <1>1, <2>1, ConcatProperties
  <2> DEFINE g == [j \in 1..(l + 1) |-> IF j = l + 1 THEN i ELSE f[j]]
  <2>6. g[l + 1] = i /\ \A j \in 1..l : g[j] = f[j]
    BY <1>1
  <2> HIDE DEF v, g, l
  <2>7. \A j \in 1..(l + 1) : IsAnswer(v[j]) =>
          g[j] \in 1..Len(r) /\ r[g[j]].state = "awaiting" /\ Suits(r[g[j]], v[j])
    <3> SUFFICES ASSUME NEW j \in 1..(l + 1), IsAnswer(v[j])
                 PROVE  g[j] \in 1..Len(r) /\ r[g[j]].state = "awaiting" /\ Suits(r[g[j]], v[j])
      OBVIOUS
    <3>1. CASE j \in 1..l
      BY <1>4, <2>5, <2>6, <3>1
    <3>2. CASE j = l + 1
      <4>1. r[i] = m
        OBVIOUS
      <4> QED
        BY <2>4, <2>5, <2>6, <3>2, <4>1
    <3> QED
      BY <2>5, <3>1, <3>2
  <2>8. \A j, k \in 1..(l + 1) : IsAnswer(v[j]) /\ IsAnswer(v[k]) /\ g[j] = g[k] => j = k
    BY <1>3, <1>4, <2>5, <2>6
  <2>9. (0 + 1)..Len(v) = 1..(l + 1)
    BY <2>5
  <2>10. Matches(g, r, v, 0)
    BY <2>7, <2>8, <2>9 DEF Matches
  <2> QED
    BY <2>10 DEF Matched, v, a
<1> QED
  BY <1>6, <1>7

\* The messages among what was sent.
SentNumbers(sent) ==
  {sent[i].number : i \in {j \in 1..Len(sent) : sent[j].type = "PUBLISH"}}

Rising(sent, at) ==
  \A i \in 1..Len(sent) : sent[i].type = "PUBLISH" =>
    /\ \A x \in at : x < sent[i].number
    /\ \A j \in 1..(i - 1) : sent[j].type = "PUBLISH" => sent[j].number < sent[i].number

\* The loop has gone through the first k packets.
IsSending(s, k, at, high, rest, refuses) ==
  ~s.client.timeouts =>
    /\ s.stopped \/ \A i \in 1..k : s.client.queue[i].state # "unsent"
    /\ Clear(s.client, at \union SentNumbers(s.sent), high)
    /\ Rising(s.sent, at)
    /\ Matched(s.client.queue, rest \o Answers(s.sent, refuses), 0)

LEMMA SentOneMore ==
  ASSUME NEW sent \in Seq(Queued), NEW m \in Queued, NEW at, Rising(sent, at),
         m.type = "PUBLISH" => \A x \in at \union SentNumbers(sent) : x < m.number
  PROVE  /\ Rising(Append(sent, m), at)
         /\ \A x \in SentNumbers(Append(sent, m)) :
              x \in SentNumbers(sent) \/ (m.type = "PUBLISH" /\ x = m.number)
<1> DEFINE n == Len(sent)
           more == Append(sent, m)
<1>1. /\ n \in Nat /\ Len(more) = n + 1 /\ more[n + 1] = m
      /\ \A i \in 1..n : more[i] = sent[i]
      /\ \A i \in 1..(n + 1) : i \in 1..n \/ i = n + 1
  BY AppendProperties
<1>2. \A j \in 1..n : sent[j].type = "PUBLISH" => sent[j].number \in SentNumbers(sent)
  BY DEF SentNumbers
<1> HIDE DEF more
<1>3. ASSUME NEW i \in 1..(n + 1), more[i].type = "PUBLISH"
      PROVE  /\ \A x \in at : x < more[i].number
             /\ \A j \in 1..(i - 1) : more[j].type = "PUBLISH" => more[j].number < more[i].number
  <2>1. CASE i \in 1..n
    <3>1. more[i] = sent[i] /\ \A j \in 1..(i - 1) : more[j] = sent[j]
      BY <1>1, <2>1
    <3> QED
      BY <1>3, <2>1, <3>1 DEF Rising
  <2>2. CASE i = n + 1
    <3>1. \A j \in 1..(i - 1) : j \in 1..n /\ more[j] = sent[j]
      BY <1>1, <2>2
    <3> QED
      BY <1>1, <1>2, <1>3, <2>2, <3>1
  <2> QED
    BY <1>1, <2>1, <2>2
<1>4. Rising(more, at)
  BY <1>1, <1>3 DEF Rising
<1>5. ASSUME NEW x \in SentNumbers(more)
      PROVE  x \in SentNumbers(sent) \/ (m.type = "PUBLISH" /\ x = m.number)
  <2>1. PICK i \in 1..(n + 1) : more[i].type = "PUBLISH" /\ x = more[i].number
    BY <1>1 DEF SentNumbers
  <2> QED
    BY <1>1, <1>2, <2>1
<1> QED
  BY <1>4, <1>5 DEF more

LEMMA SendsOn ==
  ASSUME NEW n \in Nat, NEW s, SendOK(s, n), NEW t, SendOK(t, n), NEW i \in 1..n,
         Passes(s, t, i), NEW at, NEW high, NEW rest \in Seq(Incoming), NEW refuses,
         IsSending(s, i - 1, at, high, rest, refuses)
  PROVE  IsSending(t, i, at, high, rest, refuses)
<1> DEFINE c == s.client
           q == c.queue
           d == t.client
           m == q[i]
           r == After(s, i)
           was == at \union SentNumbers(s.sent)
<1> SUFFICES ASSUME ~d.timeouts
             PROVE  /\ t.stopped \/ \A j \in 1..i : d.queue[j].state # "unsent"
                    /\ Clear(d, at \union SentNumbers(t.sent), high)
                    /\ Rising(t.sent, at)
                    /\ Matched(d.queue, rest \o Answers(t.sent, refuses), 0)
  BY DEF IsSending
<1>1. /\ ClientOK(c) /\ c \in ClientRecord /\ Len(q) = n /\ q \in Seq(Queued) /\ m \in Queued
      /\ s.sent \in Seq(Queued) /\ Len(d.queue) = n /\ c.timeouts \in BOOLEAN
  BY ElementOfSeq DEF SendOK, SendState, ClientOK, ClientRecord
<1>2. ~c.timeouts
  BY DEF Passes
<1>3. /\ s.stopped \/ \A j \in 1..(i - 1) : q[j].state # "unsent"
      /\ Clear(c, was, high) /\ Rising(s.sent, at)
      /\ Matched(q, rest \o Answers(s.sent, refuses), 0)
  BY <1>2 DEF IsSending
<1>4. CASE t = s /\ (s.stopped \/ ~IsDue(m))
  <2>1. s.stopped \/ \A j \in 1..i : q[j].state # "unsent"
    <3>1. \A j \in 1..i : j \in 1..(i - 1) \/ j = i
      OBVIOUS
    <3> QED
      BY <1>3, <1>4, <3>1 DEF IsDue
  <2> QED
    BY <1>3, <1>4, <2>1
<1>5. CASE ~(t = s /\ (s.stopped \/ ~IsDue(m)))
  <2>1. /\ ~s.stopped /\ IsDue(m)
        /\ d.queue = [q EXCEPT ![i] = r]
        /\ d.offset = IF IsWhole(s, i) THEN 0 ELSE Offset(s, i) + Bytes(s, i)
        /\ d.timeouts = (c.timeouts \/ IsLate(m))
        /\ d.torn = (c.torn \/ (Bytes(s, i) > 0 /\ Tears(c, m, Offset(s, i))))
        /\ d.error = c.error
        /\ t.stopped = ~IsWhole(s, i)
        /\ t.sent = IF IsWhole(s, i) THEN Append(s.sent, m) ELSE s.sent
    BY <1>5 DEF Passes
  <2>2. ~IsLate(m) /\ m.state = "unsent" /\ \A j \in 1..(i - 1) : q[j].state # "unsent"
    BY <1>3, <2>1 DEF IsDue
  <2>3. Offset(s, i) = c.offset
    BY <2>2 DEF Offset
  <2>4. /\ m.written = c.offset /\ c.offset < m.size /\ ~Tears(c, m, c.offset)
        /\ c.offset \in Nat /\ m.size \in Nat
    <3>1. InOrder(c) /\ i \in 1..Len(c.queue)
      BY <1>1, <1>3 DEF Clear
    <3>2. c.offset \in Nat /\ m.size \in Nat
      BY <1>1 DEF ClientRecord, Queued
    <3> QED
      BY <1>1, <2>2, <3>1, <3>2, FirstGoesOn
  <2>5. d.torn = c.torn
    <3>1. c.torn \in BOOLEAN /\ ~c.torn
      BY <1>1, <1>3 DEF Clear, ClientRecord
    <3>2. ~Tears(c, m, Offset(s, i))
      BY <2>3, <2>4
    <3> HIDE DEF c, d, m
    <3> QED
      BY <2>1, <3>1, <3>2
  <2>6. /\ r \in Queued /\ SamePacket(m, r) /\ Bytes(s, i) \in Int
        /\ ~IsWhole(s, i) => Bytes(s, i) = s.budget
    BY AfterFacts
  <2>7. \A j \in 1..n : d.queue[j] = IF j = i THEN r ELSE q[j]
    BY <1>1, <2>1, <2>6
  <2>8. CASE ~IsWhole(s, i)
    <3>1. t.stopped /\ t.sent = s.sent /\ d.offset = c.offset + Bytes(s, i)
      BY <2>1, <2>3, <2>8
    <3>2. r.state = "unsent" /\ r.written = d.offset
      <4>1. CASE Bytes(s, i) = 0
        <5>1. r = m
          BY <2>8, <4>1 DEF After, AfterSending
        <5> QED
          BY <2>2, <2>4, <3>1, <4>1, <5>1
      <4>2. CASE Bytes(s, i) # 0
        <5>1. r = [m EXCEPT !.written = c.offset + Bytes(s, i)]
          BY <2>3, <2>8, <4>2 DEF After, AfterSending
        <5> QED
          BY <1>1, <2>2, <3>1, <5>1 DEF Queued
      <4> QED
        BY <4>1, <4>2
    <3>3. r.written < r.size
      <4>1. s.budget \in Nat
        BY DEF SendOK, SendState
      <4>2. /\ Bytes(s, i) = s.budget /\ c.offset + Bytes(s, i) # m.size
            /\ Bytes(s, i) = IF s.budget < m.size - c.offset THEN s.budget ELSE m.size - c.offset
        BY <2>3, <2>6, <2>8 DEF IsWhole, Bytes
      <4>3. r.size = m.size /\ r.written = c.offset + Bytes(s, i)
        BY <2>6, <3>1, <3>2 DEF SamePacket
      <4> HIDE DEF r, m, c
      <4>4. c.offset + s.budget < m.size
        BY <2>4, <4>1, <4>2
      <4> QED
        BY <4>2, <4>3, <4>4
    <3>4. Clear(d, was, high)
      <4>1. /\ i \in 1..Len(c.queue) /\ c.queue[i].state = "unsent"
            /\ \A j \in 1..(i - 1) : c.queue[j].state # "unsent"
            /\ SamePacket(c.queue[i], r) /\ r.state = "unsent"
            /\ Len(d.queue) = Len(c.queue)
            /\ \A j \in 1..Len(c.queue) : d.queue[j] = IF j = i THEN r ELSE c.queue[j]
            /\ d.offset = r.written /\ r.written < r.size
            /\ d.torn = c.torn /\ d.error = c.error
        BY <1>1, <2>1, <2>2, <2>5, <2>6, <2>7, <3>2, <3>3
      <4> HIDE DEF m, r, d, c, was
      <4> QED
        BY <1>1, <1>3, <4>1, ClearPart
    <3>5. Matched(d.queue, rest \o Answers(s.sent, refuses), 0)
      <4>1. \A j \in 1..n : /\ d.queue[j].state = q[j].state
                            /\ d.queue[j].type = q[j].type /\ d.queue[j].pid = q[j].pid
        BY <2>2, <2>6, <2>7, <3>2 DEF SamePacket
      <4>2. PICK f : Matches(f, q, rest \o Answers(s.sent, refuses), 0)
        BY <1>3 DEF Matched
      <4>3. Matches(f, d.queue, rest \o Answers(s.sent, refuses), 0)
        <5> HIDE DEF d, q
        <5> QED
          BY <1>1, <4>1, <4>2 DEF Matches, Suits
      <4> QED
        BY <4>3 DEF Matched
    <3> QED
      BY <1>3, <3>1, <3>4, <3>5
  <2>9. CASE IsWhole(s, i)
    <3>1. ~t.stopped /\ t.sent = Append(s.sent, m) /\ d.offset = 0
      BY <2>1, <2>9
    <3>2. r.state = StateAfter(m) /\ r.written = 0 /\ r.state # "unsent"
      <4>1. r = [m EXCEPT !.state = StateAfter(m), !.age = 0, !.written = 0]
        BY <2>9 DEF After, AfterSending
      <4>2. StateAfter(m) \in {"complete", "awaiting"}
        BY DEF StateAfter
      <4> QED
        BY <1>1, <4>1, <4>2 DEF Queued
    <3>3. \A j \in 1..i : d.queue[j].state # "unsent"
      <4>1. \A j \in 1..i : j \in 1..n /\ (j \in 1..(i - 1) \/ j = i)
        OBVIOUS
      <4> QED
        BY <2>2, <2>7, <3>2, <4>1
    <3>4. m.type = "PUBLISH" => \A x \in was : x < m.number
      BY <1>1, <1>3, <2>2 DEF Clear, IsAhead, IsUnsent
    <3>5. /\ Rising(t.sent, at)
          /\ \A x \in at \union SentNumbers(t.sent) :
               x \in was \/ (m.type = "PUBLISH" /\ x = m.number)
      <4> HIDE DEF m
      <4>1. m \in Queued
        BY <1>1
      <4>2. /\ Rising(Append(s.sent, m), at)
            /\ \A x \in SentNumbers(Append(s.sent, m)) :
                 x \in SentNumbers(s.sent) \/ (m.type = "PUBLISH" /\ x = m.number)
        BY <1>1, <1>3, <3>4, <4>1, SentOneMore
      <4> QED
        BY <3>1, <4>2
    <3>6. Clear(d, at \union SentNumbers(t.sent), high)
      <4> DEFINE more == at \union SentNumbers(t.sent)
      <4>1. GrowsBy(more, was, r)
        BY <2>6, <3>5 DEF SamePacket, GrowsBy
      <4>3. /\ i \in 1..Len(c.queue) /\ c.queue[i].state = "unsent"
            /\ \A j \in 1..(i - 1) : c.queue[j].state # "unsent"
            /\ SamePacket(c.queue[i], r) /\ r.state # "unsent" /\ r.written = 0
            /\ Len(d.queue) = Len(c.queue)
            /\ \A j \in 1..Len(c.queue) : d.queue[j] = IF j = i THEN r ELSE c.queue[j]
            /\ d.offset = 0 /\ d.torn = c.torn /\ d.error = c.error
        BY <1>1, <2>1, <2>2, <2>5, <2>6, <2>7, <3>1, <3>2
      <4> HIDE DEF m, r, d, c, was, more
      <4>2. Clear(d, more, high)
        BY <1>1, <1>3, <4>1, <4>3, ClearWhole
      <4> QED
        BY <4>2 DEF more
    <3>7. Matched(d.queue, rest \o Answers(t.sent, refuses), 0)
      <4> DEFINE w == rest \o Answers(s.sent, refuses)
      <4>1. /\ Answers(s.sent, refuses) \in Seq(Incoming) /\ Answer(m, refuses) \in Seq(Incoming)
            /\ Answers(t.sent, refuses) = Answers(s.sent, refuses) \o Answer(m, refuses)
        <5>1. Answer(m, refuses) \in Seq(Replies)
          BY <1>1, AnswerIsReply
        <5>2. Answer(m, refuses) \in Seq(Incoming)
          BY <5>1 DEF Incoming
        <5> HIDE DEF m
        <5> QED
          BY <1>1, <3>1, <5>2, AnswersAreReplies, AnswersAppend
      <4>2. rest \o Answers(t.sent, refuses) = w \o Answer(m, refuses) /\ w \in Seq(Incoming)
        <5> DEFINE a == Answers(s.sent, refuses)
                   b == Answer(m, refuses)
        <5>1. a \in Seq(Incoming) /\ b \in Seq(Incoming) /\ Answers(t.sent, refuses) = a \o b
          BY <4>1
        <5> HIDE DEF a, b
        <5>2. (rest \o a) \o b = rest \o (a \o b) /\ rest \o a \in Seq(Incoming)
          BY <5>1, ConcatAssociative, ConcatProperties
        <5> QED
          BY <5>1, <5>2 DEF a, b
      <4> HIDE DEF w, r, d, q
      <4>3. /\ q \in Seq(Queued) /\ IsTelling(q) /\ i \in 1..Len(q) /\ q[i].state = "unsent"
            /\ SamePacket(q[i], r) /\ r.state = StateAfter(q[i])
            /\ Len(d.queue) = Len(q)
            /\ \A j \in 1..Len(q) : d.queue[j] = IF j = i THEN r ELSE q[j]
            /\ Matched(q, w, 0)
        BY <1>1, <1>3, <2>2, <2>6, <2>7, <3>2 DEF Clear, w, q
      <4>4. Matched(d.queue, w \o Answer(q[i], refuses), 0)
        BY <4>2, <4>3, MatchedWhole
      <4> QED
        BY <4>2, <4>4
    <3> QED
      BY <3>3, <3>5, <3>6, <3>7
  <2> QED
    BY <2>8, <2>9
<1> QED
  BY <1>4, <1>5

\* Only sending finds that an answer is late.
LEMMA TryPackTimeouts ==
  ASSUME NEW c, ClientOK(c), NEW p
  PROVE  TryPack(c, p).timeouts = c.timeouts
<1> DEFINE d == TryPack(c, p)
<1>1. \/ d = c \/ d = Registered(c, p) \/ d = Registered(Clean(c), p)
      \/ d = [Clean(c) EXCEPT !.error = "SEND_BUFFER_IS_FULL"]
  BY DEF TryPack
<1>2. c \in ClientRecord /\ Clean(c) \in ClientRecord /\ Clean(c).timeouts = c.timeouts
  BY CleanOK, CleanShifts DEF ClientOK
<1>3. \A b \in ClientRecord : Registered(b, p).timeouts = b.timeouts
  BY DEF Registered, ClientRecord
<1>4. [Clean(c) EXCEPT !.error = "SEND_BUFFER_IS_FULL"].timeouts = Clean(c).timeouts
  BY <1>2 DEF ClientRecord
<1> HIDE DEF d
<1>5. d.timeouts = c.timeouts
  BY <1>1, <1>2, <1>3, <1>4
<1> QED
  BY <1>5 DEF d

\* PINGREQ, CONNECT and DISCONNECT, and what acknowledges a message.
LEMMA ClearPlain ==
  ASSUME NEW c, ClientOK(c), NEW at \in SUBSET Nat, NEW high \in Nat, Clear(c, at, high),
         NEW p \in {ConnectPacket, PingPacket, DisconnectPacket},
         NEW w, NEW n, Matched(c.queue, w, n)
  PROVE  LET d == TryPack(c, p)
         IN /\ ClientOK(d) /\ Clear(d, at, high) /\ Matched(d.queue, w, n)
            /\ d.timeouts = c.timeouts
<1>1. p \in Queued
  BY PacketsQueued
<1>2. /\ p.state = "unsent" /\ p.written = 0 /\ p.pid = NoPid
      /\ p.type \in {"CONNECT", "PINGREQ", "DISCONNECT"}
  BY DEF ConnectPacket, PingPacket, DisconnectPacket, Packet
<1>3. MayFollow(c.queue, p) /\ ~IsUnsent(p)
  BY <1>1, <1>2 DEF MayFollow, IsUnsent
<1>4. high <= high
  OBVIOUS
<1> QED
  BY <1>1, <1>3, <1>4, TryPackOK, ClearTryPack

\* __mqtt_send()
LEMMA ClearLoop ==
  ASSUME NEW c, ClientOK(c), NEW budget \in Nat, NEW at, NEW high,
         NEW rest \in Seq(Incoming), NEW refuses,
         Clear(c, at, high), Matched(c.queue, rest, 0)
  PROVE  IsSending(SendLoop(c, budget), Len(c.queue), at, high, rest, refuses)
<1> DEFINE n == Len(c.queue)
<1>1. n \in Nat
  BY DEF ClientOK, ClientRecord
<1> HIDE DEF n
<1>2. PICK tr : IsSendTrace(tr, n, c, budget)
  BY SendLoopTrace DEF n
<1> DEFINE P == {k \in 0..n : IsSending(tr[k], k, at, high, rest, refuses)}
<1>3. 0 \in P
  <2>1. tr[0] = SendStart(c, budget)
    BY <1>2 DEF IsSendTrace
  <2>2. tr[0].client = c /\ tr[0].sent = <<>>
    BY <2>1 DEF SendStart
  <2>3. SentNumbers(<<>>) = {} /\ Rising(<<>>, at) /\ at \union {} = at
    BY DEF SentNumbers, Rising
  <2>4. rest \o Answers(<<>>, refuses) = rest
    BY AnswersOfNone, ConcatEmptySeq
  <2>5. IsSending(tr[0], 0, at, high, rest, refuses)
    <3> DEFINE s == tr[0]
    <3>1. s.client = c /\ s.sent = <<>>
      BY <2>2
    <3> HIDE DEF s
    <3>2. /\ Clear(s.client, at \union SentNumbers(s.sent), high) /\ Rising(s.sent, at)
          /\ Matched(s.client.queue, rest \o Answers(s.sent, refuses), 0)
      BY <2>3, <2>4, <3>1
    <3>3. \A i \in 1..0 : s.client.queue[i].state # "unsent"
      OBVIOUS
    <3>4. IsSending(s, 0, at, high, rest, refuses)
      BY <3>2, <3>3 DEF IsSending
    <3> QED
      BY <3>4 DEF s
  <2> QED
    BY <1>1, <2>5
<1>4. ASSUME NEW k \in 1..n, k - 1 \in P PROVE k \in P
  <2>1. k - 1 \in 0..n /\ k \in 0..n
    BY <1>1
  <2>2. SendOK(tr[k - 1], n) /\ SendOK(tr[k], n) /\ Passes(tr[k - 1], tr[k], k)
    BY <1>2, <2>1 DEF IsSendTrace
  <2>3. IsSending(tr[k - 1], k - 1, at, high, rest, refuses)
    BY <1>4
  <2>4. IsSending(tr[k], k, at, high, rest, refuses)
    BY <1>1, <2>2, <2>3, SendsOn
  <2> QED
    BY <2>1, <2>4
<1>5. n \in P
  <2>1. P \in SUBSET (0..n)
    OBVIOUS
  <2> HIDE DEF P
  <2>2. P = 0..n
    BY <1>1, <1>3, <1>4, <2>1, AllUpTo
  <2> QED
    BY <1>1, <2>2
<1>6. tr[n] = SendLoop(c, budget)
  BY <1>2 DEF IsSendTrace
<1> QED
  BY <1>5, <1>6 DEF n

\* What a sync may end in: s is the client and what it has sent.
IsSent(s, at, high, rest, refuses) ==
  ~s.client.timeouts =>
    /\ Clear(s.client, at \union SentNumbers(s.sent), high)
    /\ Rising(s.sent, at)
    /\ Matched(s.client.queue, rest \o Answers(s.sent, refuses), 0)

LEMMA NothingSent ==
  ASSUME NEW c, NEW at, NEW high, NEW rest \in Seq(Incoming), NEW refuses,
         Clear(c, at, high), Matched(c.queue, rest, 0), NEW s,
         s = [client |-> c, sent |-> <<>>]
  PROVE  IsSent(s, at, high, rest, refuses)
<1>1. s.client = c /\ s.sent = <<>>
  OBVIOUS
<1>2. SentNumbers(<<>>) = {} /\ Rising(<<>>, at) /\ at \union {} = at
  BY DEF SentNumbers, Rising
<1>3. rest \o Answers(<<>>, refuses) = rest
  BY AnswersOfNone, ConcatEmptySeq
<1> QED
  BY <1>1, <1>2, <1>3 DEF IsSent

LEMMA SentAreNumbers ==
  ASSUME NEW sent \in Seq(Queued)
  PROVE  SentNumbers(sent) \subseteq Nat
<1> SUFFICES ASSUME NEW i \in 1..Len(sent) PROVE sent[i].number \in Nat
  BY DEF SentNumbers
<1>1. sent[i] \in Queued
  BY ElementOfSeq
<1> QED
  BY <1>1 DEF Queued

LEMMA ClearSend ==
  ASSUME NEW c, ClientOK(c), NEW budget \in Nat, NEW at \in SUBSET Nat, NEW high \in Nat,
         NEW rest \in Seq(Incoming), NEW refuses,
         Clear(c, at, high), Matched(c.queue, rest, 0)
  PROVE  IsSent(Send(c, budget), at, high, rest, refuses)
<1> DEFINE l == SendLoop(c, budget)
           s == Send(c, budget)
           k == KeptAlive(l.client)
<1>1. IsSending(l, Len(c.queue), at, high, rest, refuses)
  BY ClearLoop
<1>2. s = IF c.error \notin {"OK", "SEND_BUFFER_IS_FULL"} THEN [client |-> c, sent |-> <<>>]
          ELSE [client |-> k, sent |-> l.sent]
  BY DEF Send, SendLoop, SendStart
<1>3. ClientOK(l.client) /\ l.sent \in Seq(Queued)
  BY SendOutcome DEF SendOK, SendState
<1> HIDE DEF l
<1>4. CASE c.error \notin {"OK", "SEND_BUFFER_IS_FULL"}
  <2>1. s = [client |-> c, sent |-> <<>>]
    BY <1>2, <1>4
  <2> HIDE DEF s
  <2> QED
    BY <2>1, NothingSent DEF s
<1>5. CASE ~(c.error \notin {"OK", "SEND_BUFFER_IS_FULL"})
  <2>1. s.client = k /\ s.sent = l.sent
    BY <1>2, <1>5
  <2> DEFINE more == at \union SentNumbers(l.sent)
             w == rest \o Answers(l.sent, refuses)
  <2>2. more \in SUBSET Nat
    BY <1>3, SentAreNumbers
  <2>3. /\ k.timeouts = l.client.timeouts
        /\ ~l.client.timeouts =>
             Clear(k, more, high) /\ Matched(k.queue, w, 0) /\ Rising(l.sent, at)
    <3>1. ~l.client.timeouts => /\ Clear(l.client, more, high) /\ Matched(l.client.queue, w, 0)
                                /\ Rising(l.sent, at)
      BY <1>1 DEF IsSending
    <3>2. CASE k = l.client
      BY <3>1, <3>2
    <3>3. CASE k = TryPack(l.client, PingPacket)
      <4> HIDE DEF more, w, k
      <4>1. k.timeouts = l.client.timeouts
        BY <1>3, <3>3, TryPackTimeouts
      <4>2. ASSUME ~l.client.timeouts
            PROVE  Clear(k, more, high) /\ Matched(k.queue, w, 0) /\ Rising(l.sent, at)
        <5>1. PingPacket \in {ConnectPacket, PingPacket, DisconnectPacket}
          OBVIOUS
        <5> QED
          BY <1>3, <2>2, <3>1, <3>3, <4>2, <5>1, ClearPlain
      <4> QED
        BY <4>1, <4>2
    <3> QED
      BY <3>2, <3>3 DEF KeptAlive
  <2> HIDE DEF s, k
  <2>4. IsSent(s, at, high, rest, refuses)
    BY <2>1, <2>3 DEF IsSent
  <2> QED
    BY <2>4 DEF s
<1> QED
  BY <1>4, <1>5

\* What the broker makes of it.
LEMMA ReachClear ==
  ASSUME NEW s, s.sent \in Seq(Queued), NEW rest \in Seq(Incoming), NEW refuses, NEW high,
         at_broker \in SUBSET Nat, ~s.client.timeouts => regular,
         IsSent(s, at_broker, high, rest, refuses),
         Reach(s, rest, refuses)
  PROVE  /\ at_broker' \in SUBSET Nat
         /\ ~s.client.timeouts =>
              regular' /\ Clear(s.client, at_broker', high)
              /\ Matched(s.client.queue, on_the_way', 0)
<1> DEFINE arrived == IF s.client.torn THEN <<>> ELSE s.sent
           published == {i \in DOMAIN arrived : arrived[i].type = "PUBLISH"}
           Numbers(I) == {arrived[i].number : i \in I}
<1>1. /\ on_the_way' = rest \o Answers(arrived, refuses)
      /\ at_broker' = at_broker \union Numbers(published)
      /\ regular' = (/\ regular
                     /\ \A i \in published :
                          LET before == at_broker \union Numbers({j \in published : j < i})
                          IN \A n \in before : n < arrived[i].number)
  BY DEF Reach
<1>2. arrived \in Seq(Queued)
  OBVIOUS
<1> HIDE DEF arrived
<1>3. /\ DOMAIN arrived = 1..Len(arrived) /\ Len(arrived) \in Nat
      /\ published = {j \in 1..Len(arrived) : arrived[j].type = "PUBLISH"}
  BY <1>2
<1>4. Numbers(published) = SentNumbers(arrived)
  BY <1>3 DEF SentNumbers
<1>5. at_broker' \in SUBSET Nat
  BY <1>1, <1>2, <1>4, SentAreNumbers
<1>6. ASSUME ~s.client.timeouts
      PROVE  regular' /\ Clear(s.client, at_broker', high)
             /\ Matched(s.client.queue, on_the_way', 0)
  <2>1. /\ Clear(s.client, at_broker \union SentNumbers(s.sent), high)
        /\ Rising(s.sent, at_broker)
        /\ Matched(s.client.queue, rest \o Answers(s.sent, refuses), 0)
    BY <1>6 DEF IsSent
  <2>2. arrived = s.sent
    BY <2>1 DEF Clear, arrived
  <2>3. Clear(s.client, at_broker', high) /\ Matched(s.client.queue, on_the_way', 0)
    BY <1>1, <1>4, <2>1, <2>2
  <2>4. ASSUME NEW i \in published,
               NEW n \in at_broker \union Numbers({j \in published : j < i})
        PROVE  n < arrived[i].number
    <3>1. i \in 1..Len(arrived) /\ arrived[i].type = "PUBLISH"
      BY <1>3
    <3>2. /\ \A x \in at_broker : x < arrived[i].number
          /\ \A j \in 1..(i - 1) :
               arrived[j].type = "PUBLISH" => arrived[j].number < arrived[i].number
      BY <2>1, <2>2, <3>1 DEF Rising
    <3>3. CASE n \in at_broker
      BY <3>2, <3>3
    <3>4. CASE n \notin at_broker
      <4>1. PICK j \in published : j < i /\ n = arrived[j].number
        BY <2>4, <3>4
      <4>2. j \in 1..(i - 1) /\ arrived[j].type = "PUBLISH"
        BY <1>3, <3>1, <4>1
      <4> QED
        BY <3>2, <4>1, <4>2
    <3> QED
      BY <3>3, <3>4
  <2>5. regular'
    BY <1>1, <1>6, <2>4
  <2> QED
    BY <2>3, <2>5
<1> QED
  BY <1>5, <1>6

\* What was late stays so.
LEMMA LateStays ==
  ASSUME NEW c, ClientOK(c), c.timeouts
  PROVE  /\ \A E \in SUBSET Incoming : \A packets \in Seq(E) :
              ReceivedOK(Receive(c, packets)) /\ Receive(c, packets).client.timeouts
         /\ \A budget \in Nat : Send(c, budget).client.timeouts
<1>1. ASSUME NEW E \in SUBSET Incoming, NEW packets \in Seq(E)
      PROVE  ReceivedOK(Receive(c, packets)) /\ Receive(c, packets).client.timeouts
  <2> DEFINE K == {d \in ClientRecord : d.timeouts}
  <2>1. c \in K
    BY DEF ClientOK
  <2>2. ASSUME NEW d \in K, NEW e \in ClientRecord, NEW p \in E,
               ClientOK(d), ClientOK(e), Handled(d, e, p)
        PROVE  e \in K
    <3>1. d \in ClientRecord /\ d.timeouts
      OBVIOUS
    <3>2. \A b \in ClientRecord : \A error : WithError(b, error).timeouts = b.timeouts
      BY DEF WithError, ClientRecord
    <3>3. ASSUME NEW i \in 1..Len(d.queue)
          PROVE  /\ Put(d, i, Done(d.queue[i])) \in ClientRecord
                 /\ Put(d, i, Done(d.queue[i])).timeouts = d.timeouts
      <4>1. Put(d, i, Done(d.queue[i])) \in ClientRecord
        BY <2>2, PutDone DEF ClientOK
      <4>2. Put(d, i, Done(d.queue[i])).timeouts = d.timeouts
        BY <3>1 DEF Put, ClientRecord
      <4> QED
        BY <4>1, <4>2
    <3>4. TryPack(d, PubackPacket(p.pid)).timeouts = d.timeouts
      BY <2>2, TryPackTimeouts
    <3>5. e.timeouts
      BY <2>2, <3>1, <3>2, <3>3, <3>4 DEF Handled
    <3> QED
      BY <2>2, <3>5
  <2> HIDE DEF K
  <2>3. Receive(c, packets).client \in K /\ ReceivedOK(Receive(c, packets))
    <3>1. \A d \in K, e \in ClientRecord, p \in E :
            ClientOK(d) /\ ClientOK(e) /\ Handled(d, e, p) => e \in K
      BY <2>2
    <3> QED
      BY <2>1, <3>1, ReceiveOK
  <2> QED
    BY <2>3 DEF K
<1>2. ASSUME NEW budget \in Nat PROVE Send(c, budget).client.timeouts
  <2> DEFINE n == Len(c.queue)
             l == SendLoop(c, budget)
             s == Send(c, budget)
  <2>1. n \in Nat
    BY DEF ClientOK, ClientRecord
  <2>2. PICK tr : IsSendTrace(tr, n, c, budget)
    BY SendLoopTrace
  <2> HIDE DEF n
  <2> DEFINE P == {k \in 0..n : tr[k].client.timeouts}
  <2>3. 0 \in P
    <3>1. tr[0] = SendStart(c, budget)
      BY <2>2 DEF IsSendTrace
    <3>2. tr[0].client = c
      BY <3>1 DEF SendStart
    <3> QED
      BY <2>1, <3>2
  <2>4. ASSUME NEW k \in 1..n, k - 1 \in P PROVE k \in P
    <3>1. tr[k - 1].client.timeouts /\ k \in 0..n
      BY <2>1, <2>4
    <3>2. Passes(tr[k - 1], tr[k], k)
      BY <2>2 DEF IsSendTrace
    <3>3. tr[k].client.timeouts
      BY <3>1, <3>2 DEF Passes
    <3> QED
      BY <3>1, <3>3
  <2>5. n \in P
    <3>1. P \in SUBSET (0..n)
      OBVIOUS
    <3> HIDE DEF P
    <3>2. P = 0..n
      BY <2>1, <2>3, <2>4, <3>1, AllUpTo
    <3> QED
      BY <2>1, <3>2
  <2>6. l.client.timeouts
    BY <2>2, <2>5 DEF IsSendTrace
  <2>7. s = IF c.error \notin {"OK", "SEND_BUFFER_IS_FULL"} THEN [client |-> c, sent |-> <<>>]
            ELSE [client |-> KeptAlive(l.client), sent |-> l.sent]
    BY DEF Send, SendLoop, SendStart
  <2>8. ClientOK(l.client)
    BY SendOutcome DEF SendOK
  <2>9. KeptAlive(l.client).timeouts
    <3> HIDE DEF l
    <3> QED
      BY <2>6, <2>8, TryPackTimeouts DEF KeptAlive
  <2> HIDE DEF l, s
  <2>10. s.client = c \/ s.client = KeptAlive(l.client)
    BY <2>7
  <2> QED
    BY <2>9, <2>10 DEF s
<1> QED
  BY <1>1, <1>2

\* What holds as long as no answer is late.
Prompt(c, at, high, w) ==
  ~c.timeouts => Clear(c, at, high) /\ Matched(c.queue, w, 0)

\* mqtt_sync(), as far as the client and the broker are concerned.
LEMMA ClearExchange ==
  ASSUME NEW c, ClientOK(c), on_the_way \in Seq(Incoming), NEW k \in 0..Len(on_the_way),
         NEW budget \in Budgets, NEW stops \in BOOLEAN, NEW refuses,
         NEW r, r = Receive(c, Whole(on_the_way, k)),
         NEW s, s = IF r.failed \/ stops THEN [client |-> r.client, sent |-> <<>>]
                    ELSE Send(r.client, budget),
         Reach(s, Rest(r.read), refuses),
         at_broker \in SUBSET Nat, NEW high \in Nat,
         ~c.timeouts => regular, Prompt(c, at_broker, high, on_the_way)
  PROVE  /\ at_broker' \in SUBSET Nat /\ (~s.client.timeouts => regular')
         /\ Prompt(s.client, at_broker', high, on_the_way')
<1>1. ReceivedOK(r) /\ ClientOK(s.client) /\ s.sent \in Seq(Queued)
  BY ReceivedAndSent
<1>2. budget \in Nat /\ ClientOK(r.client) /\ r.read \in Nat
  BY <1>1, TransportNumbers DEF ReceivedOK, Received
<1>3. Rest(r.read) \in Seq(Incoming)
  BY <1>2, RestOK
<1>4. CASE c.timeouts
  <2>1. Whole(on_the_way, k) \in Seq(Incoming) /\ Incoming \in SUBSET Incoming
    BY DEF Whole
  <2>2. r.client.timeouts
    BY <1>4, <2>1, LateStays
  <2>3. Send(r.client, budget).client.timeouts
    BY <1>2, <2>2, LateStays
  <2>4. s.client = r.client \/ s.client = Send(r.client, budget).client
    OBVIOUS
  <2>5. s.client.timeouts
    BY <2>2, <2>3, <2>4
  <2>6. IsSent(s, at_broker, high, Rest(r.read), refuses)
    BY <2>5 DEF IsSent
  <2> QED
    BY <1>1, <1>3, <2>5, <2>6, ReachClear DEF Prompt
<1>5. CASE ~c.timeouts
  <2>1. regular /\ Clear(c, at_broker, high) /\ Matched(c.queue, on_the_way, 0)
    BY <1>5 DEF Prompt
  <2>2. IsReading(r, on_the_way, r.read, at_broker, high)
    BY <1>5, <2>1, ClearReceived
  <2>3. Clear(r.client, at_broker, high) /\ Matched(r.client.queue, Rest(r.read), 0)
    <3>1. Matched(r.client.queue, on_the_way, r.read) /\ Clear(r.client, at_broker, high)
      BY <2>2 DEF IsReading
    <3>2. Matched(r.client.queue, SubSeq(on_the_way, r.read + 1, Len(on_the_way)), 0)
      BY <1>2, <3>1, MatchedRest
    <3> QED
      BY <3>1, <3>2 DEF Rest
  <2>4. IsSent(s, at_broker, high, Rest(r.read), refuses)
    <3>1. CASE r.failed \/ stops
      <4>1. s = [client |-> r.client, sent |-> <<>>]
        BY <3>1
      <4> QED
        BY <1>3, <2>3, <4>1, NothingSent
    <3>2. CASE ~(r.failed \/ stops)
      <4>1. s = Send(r.client, budget)
        BY <3>2
      <4>2. IsSent(Send(r.client, budget), at_broker, high, Rest(r.read), refuses)
        BY <1>2, <1>3, <2>3, ClearSend
      <4> QED
        BY <4>1, <4>2
    <3> QED
      BY <3>1, <3>2
  <2> QED
    BY <1>1, <1>3, <2>1, <2>4, ReachClear DEF Prompt
<1> QED
  BY <1>4, <1>5

\* mqtt_publish() and mqtt_subscribe()
LEMMA ClearRaised ==
  ASSUME NEW c, ClientOK(c), NEW stale, NEW at, NEW high, Clear(c, at, high),
         NEW w, NEW n, Matched(c.queue, w, n)
  PROVE  LET pid == NextPid(c, stale)
             d == [c EXCEPT !.pid = pid]
         IN /\ ClientOK(d) /\ Clear(d, at, high) /\ Matched(d.queue, w, n)
            /\ d.timeouts = c.timeouts
            /\ pid \in Nat /\ pid # NoPid /\ IsNew(d.queue, pid)
<1> DEFINE pid == NextPid(c, stale)
           d == [c EXCEPT !.pid = pid]
<1>1. pid \in 1..Pids /\ pid \notin InUse(c)
  BY NextPidIsFree
<1> HIDE DEF pid
<1>2. pid \in 0..Pids /\ pid \in Nat /\ pid # NoPid
  BY <1>1, ClientNumbers DEF NoPid
<1>3. ClientOK(d)
  BY <1>2, PidTaken
<1>4. /\ d.queue = c.queue /\ d.offset = c.offset /\ d.torn = c.torn /\ d.error = c.error
      /\ d.timeouts = c.timeouts
  BY DEF ClientOK, ClientRecord
<1>5. IsNew(d.queue, pid)
  <2>1. DOMAIN c.queue = 1..Len(c.queue)
    BY DEF ClientOK, ClientRecord
  <2> QED
    BY <1>1, <1>4, <2>1 DEF InUse, IsNew
<1> HIDE DEF d
<1>6. Clear(d, at, high)
  <2>1. Alike(c.queue, d.queue) /\ c.error # "ACK_OF_UNKNOWN"
    BY <1>4 DEF Alike, Clear
  <2> QED
    BY <1>4, <2>1, ClearAlike
<1> QED
  BY <1>2, <1>3, <1>4, <1>5, <1>6 DEF pid, d

LEMMA ClearPublish ==
  ASSUME NEW c, ClientOK(c), NEW stale, NEW qos \in {0, 1}, NEW size \in Nat \ {0},
         NEW at \in SUBSET Nat, NEW high \in Nat, Clear(c, at, high),
         NEW w, NEW n, Matched(c.queue, w, n)
  PROVE  LET r == Publish(c, stale, qos, size, high + 1)
         IN /\ Clear(r, at, high + 1) /\ Matched(r.queue, w, n)
            /\ r.error # "OK" => Clear(r, at, high)
<1> DEFINE pid == NextPid(c, stale)
           d == [c EXCEPT !.pid = pid]
           p == PublishPacket(pid, qos, size, high + 1)
<1>1. /\ ClientOK(d) /\ Clear(d, at, high) /\ Matched(d.queue, w, n)
      /\ pid \in Nat /\ pid # NoPid /\ IsNew(d.queue, pid)
  BY ClearRaised
<1> HIDE DEF pid, d
<1>2. p \in Queued
  BY <1>1, PacketsQueued
<1>3. /\ p.type = "PUBLISH" /\ p.pid = pid /\ p.number = high + 1 /\ p.state = "unsent"
      /\ p.written = 0
  BY DEF PublishPacket, Packet
<1> HIDE DEF p
<1>4. MayFollow(d.queue, p)
  BY <1>1, <1>2, <1>3 DEF MayFollow
<1>5. high + 1 \in Nat /\ high <= high + 1 /\ high + 1 <= high + 1
  OBVIOUS
<1>6. /\ Clear(TryPack(d, p), at, high + 1) /\ Matched(TryPack(d, p).queue, w, n)
      /\ TryPack(d, p).error # "OK" => Clear(TryPack(d, p), at, high)
  BY <1>1, <1>3, <1>4, <1>5, ClearTryPack
<1>7. Publish(c, stale, qos, size, high + 1) = TryPack(d, p)
  BY DEF Publish, d, p, pid
<1> QED
  BY <1>6, <1>7

LEMMA ClearSubscribe ==
  ASSUME NEW c, ClientOK(c), NEW stale, NEW at \in SUBSET Nat, NEW high \in Nat,
         Clear(c, at, high), NEW w, NEW n, Matched(c.queue, w, n)
  PROVE  LET r == Subscribe(c, stale)
         IN Clear(r, at, high) /\ Matched(r.queue, w, n)
<1> DEFINE pid == NextPid(c, stale)
           d == [c EXCEPT !.pid = pid]
           p == SubscribePacket(pid)
<1>1. /\ ClientOK(d) /\ Clear(d, at, high) /\ Matched(d.queue, w, n)
      /\ pid \in Nat /\ pid # NoPid /\ IsNew(d.queue, pid)
  BY ClearRaised
<1> HIDE DEF pid, d
<1>2. p \in Queued
  BY <1>1, PacketsQueued
<1>3. p.type = "SUBSCRIBE" /\ p.pid = pid /\ p.state = "unsent" /\ p.written = 0
  BY DEF SubscribePacket, Packet
<1> HIDE DEF p
<1>4. MayFollow(d.queue, p) /\ ~IsUnsent(p)
  BY <1>1, <1>2, <1>3 DEF MayFollow, IsUnsent
<1>5. high <= high
  OBVIOUS
<1>6. Clear(TryPack(d, p), at, high) /\ Matched(TryPack(d, p).queue, w, n)
  BY <1>1, <1>4, <1>5, ClearTryPack
<1>7. Subscribe(c, stale) = TryPack(d, p)
  BY DEF Subscribe, d, p, pid
<1> QED
  BY <1>6, <1>7

\* A publication or a subscription finds nothing late.
LEMMA CallTimeouts ==
  ASSUME NEW c, ClientOK(c), NEW stale
  PROVE  /\ Subscribe(c, stale).timeouts = c.timeouts
         /\ \A qos, size, number : Publish(c, stale, qos, size, number).timeouts = c.timeouts
<1> DEFINE pid == NextPid(c, stale)
           d == [c EXCEPT !.pid = pid]
<1>1. pid \in 0..Pids
  BY NextPidIsFree, ClientNumbers
<1> HIDE DEF pid
<1>2. ClientOK(d) /\ d.timeouts = c.timeouts
  BY <1>1, PidTaken DEF ClientOK, ClientRecord
<1> HIDE DEF d
<1>3. \A p : TryPack(d, p).timeouts = c.timeouts
  BY <1>2, TryPackTimeouts
<1> QED
  BY <1>3 DEF Subscribe, Publish, d, pid

\* A second passes.
LEMMA ClearAged ==
  ASSUME NEW c, ClientOK(c), NEW at, NEW high, Clear(c, at, high),
         NEW w, NEW n, Matched(c.queue, w, n)
  PROVE  Clear(Aged(c), at, high) /\ Matched(Aged(c).queue, w, n)
<1> DEFINE d == Aged(c)
           q == c.queue
<1>1. /\ c \in ClientRecord /\ \A i \in 1..Len(q) : q[i] \in Queued
  BY ElementOfSeq DEF ClientOK, ClientRecord
<1>2. /\ Len(d.queue) = Len(q)
      /\ \A i \in 1..Len(q) : \/ d.queue[i] = q[i]
                              \/ d.queue[i] = [q[i] EXCEPT !.age = @ + 1]
      /\ d = [c EXCEPT !.queue = d.queue, !.idle = d.idle]
  BY AgedOK
<1> HIDE DEF d
<1>3. d.offset = c.offset /\ d.torn = c.torn /\ d.error = c.error
  BY <1>1, <1>2 DEF ClientRecord
<1>4. ASSUME NEW i \in 1..Len(q)
      PROVE  /\ d.queue[i].type = q[i].type /\ d.queue[i].pid = q[i].pid
             /\ d.queue[i].number = q[i].number /\ d.queue[i].written = q[i].written
             /\ d.queue[i].size = q[i].size /\ d.queue[i].state = q[i].state
  BY <1>1, <1>2 DEF Queued
<1>5. Alike(q, d.queue)
  BY <1>2, <1>4 DEF Alike
<1>6. c.error # "ACK_OF_UNKNOWN"
  BY DEF Clear
<1>7. Clear(d, at, high)
  BY <1>3, <1>5, <1>6, ClearAlike
<1>8. Matched(d.queue, w, n)
  BY <1>4, <1>5, MatchedAlike
<1> QED
  BY <1>7, <1>8 DEF d

LEMMA ClearNew ==
  ASSUME NEW idle \in Nat
  PROVE  /\ Clear(Connect(NewClient(idle)), {}, 0)
         /\ Matched(Connect(NewClient(idle)).queue, <<>>, 0)
         /\ ~Connect(NewClient(idle)).timeouts
<1> DEFINE c == NewClient(idle)
<1>1. /\ ClientOK(c) /\ c.queue = <<>> /\ c.offset = 0 /\ ~c.torn /\ c.error = "OK"
      /\ ~c.timeouts
  BY NewClientOK DEF NewClient
<1> HIDE DEF c
<1>2. Clear(c, {}, 0)
  BY <1>1 DEF Clear, InOrder, IsTelling, IsAhead
<1>3. Matched(c.queue, <<>>, 0)
  BY DEF Matched, Matches
<1>4. /\ {} \in SUBSET Nat /\ 0 \in Nat
      /\ ConnectPacket \in {ConnectPacket, PingPacket, DisconnectPacket}
  OBVIOUS
<1>5. /\ Clear(TryPack(c, ConnectPacket), {}, 0)
      /\ Matched(TryPack(c, ConnectPacket).queue, <<>>, 0)
      /\ TryPack(c, ConnectPacket).timeouts = c.timeouts
  BY <1>1, <1>2, <1>3, <1>4, ClearPlain
<1> QED
  BY <1>1, <1>5 DEF Connect, c

\* As long as no answer is late, and before the CONNECT none can be.
IsClear ==
  /\ stage = "connecting" => /\ ~client.timeouts /\ on_the_way = <<>> /\ at_broker = {}
                             /\ accepted = <<>>
  /\ at_broker \in SUBSET Nat
  /\ ~client.timeouts => /\ regular /\ Clear(client, at_broker, Len(accepted))
                         /\ Matched(client.queue, on_the_way, 0)

LEMMA StartIsClear ==
  ASSUME TransportInit
  PROVE  IsClear
<1>1. /\ client = Connect(NewClient(KeepAlive + 1)) /\ on_the_way = <<>> /\ at_broker = {}
      /\ accepted = <<>> /\ regular /\ KeepAlive + 1 \in Nat
  BY ClientNumbers DEF TransportInit
<1>2. /\ Clear(client, {}, 0) /\ Matched(client.queue, <<>>, 0) /\ ~client.timeouts
  BY <1>1, ClearNew
<1>3. Len(<<>>) = 0 /\ {} \in SUBSET Nat
  OBVIOUS
<1> QED
  BY <1>1, <1>2, <1>3 DEF IsClear

\* All but what goes through the client's queue.
LEMMA RestIsClear ==
  ASSUME TransportOK, IsClear, Offer \/ Break \/ TransportTick \/ Reopen \/ SyncFails
  PROVE  IsClear'
<1>1. /\ ClientOK(client) /\ on_the_way \in Seq(Incoming) /\ accepted \in Seq({0, 1})
      /\ client \in ClientRecord /\ client.idle \in Nat
  BY DEF TransportOK, ClientOK, ClientRecord
<1>2. CASE Offer
  <2>1. /\ stage = "up" /\ UNCHANGED <<stage, client, accepted, at_broker, regular>>
        /\ on_the_way' = Append(on_the_way, IF Offers[offered'].kind = "TOO_LARGE" THEN TooLarge
                                            ELSE Message(offered', Offers[offered'].qos, offered'))
    BY <1>2 DEF Offer
  <2> DEFINE p == IF Offers[offered'].kind = "TOO_LARGE" THEN TooLarge
                  ELSE Message(offered', Offers[offered'].qos, offered')
  <2>2. ~IsAnswer(p)
    BY DEF IsAnswer, AnswerTo, TooLarge, Message, Answering
  <2> HIDE DEF p
  <2>3. ASSUME Matched(client.queue, on_the_way, 0) PROVE Matched(client.queue, on_the_way', 0)
    <3>1. PICK f : Matches(f, client.queue, on_the_way, 0)
      BY <2>3 DEF Matched
    <3> DEFINE n == Len(on_the_way)
    <3>2. /\ n \in Nat /\ Len(on_the_way') = n + 1 /\ on_the_way'[n + 1] = p
          /\ \A i \in 1..n : on_the_way'[i] = on_the_way[i]
      BY <1>1, <2>1 DEF p
    <3>3. \A i \in (0 + 1)..Len(on_the_way') : IsAnswer(on_the_way'[i]) =>
            i \in (0 + 1)..n /\ on_the_way'[i] = on_the_way[i]
      <4> SUFFICES ASSUME NEW i \in (0 + 1)..Len(on_the_way'), IsAnswer(on_the_way'[i])
                   PROVE  i \in (0 + 1)..n /\ on_the_way'[i] = on_the_way[i]
        OBVIOUS
      <4>1. i # n + 1
        BY <2>2, <3>2
      <4> QED
        BY <3>2, <4>1
    <3>4. Matches(f, client.queue, on_the_way', 0)
      BY <3>1, <3>3 DEF Matches
    <3> QED
      BY <3>4 DEF Matched
  <2> QED
    BY <2>1, <2>3 DEF IsClear
<1>3. CASE Break
  <2>1. on_the_way' = <<>> /\ UNCHANGED <<stage, client, accepted, at_broker, regular>>
    BY <1>3 DEF Break
  <2>2. Matched(client.queue, <<>>, 0)
    BY DEF Matched, Matches
  <2> QED
    BY <2>1, <2>2 DEF IsClear
<1>4. CASE TransportTick
  <2>1. client' = Aged(client) /\ UNCHANGED <<stage, on_the_way, accepted, at_broker, regular>>
    BY <1>4 DEF TransportTick
  <2> DEFINE d == Aged(client)
  <2>2. d = [client EXCEPT !.queue = d.queue, !.idle = d.idle]
    BY <1>1, AgedOK
  <2> HIDE DEF d
  <2>3. d.timeouts = client.timeouts
    BY <1>1, <2>2 DEF ClientRecord
  <2>4. Clear(client, at_broker, Len(accepted)) /\ Matched(client.queue, on_the_way, 0) =>
          Clear(d, at_broker, Len(accepted)) /\ Matched(d.queue, on_the_way, 0)
    BY <1>1, ClearAged DEF d
  <2> QED
    BY <2>1, <2>3, <2>4 DEF IsClear, d
<1>5. CASE Reopen
  <2>1. /\ stage = "connecting" /\ UNCHANGED <<on_the_way, accepted, at_broker, regular>>
        /\ \/ UNCHANGED client
           \/ client' = Connect(NewClient(client.idle))
    BY <1>5 DEF Reopen
  <2>2. CASE UNCHANGED client
    BY <2>1, <2>2 DEF IsClear
  <2>3. CASE client' = Connect(NewClient(client.idle))
    <3>1. /\ Clear(client', {}, 0) /\ Matched(client'.queue, <<>>, 0) /\ ~client'.timeouts
      BY <1>1, <2>3, ClearNew
    <3>2. /\ on_the_way' = <<>> /\ at_broker' = {} /\ accepted' = <<>> /\ regular'
          /\ Len(<<>>) = 0
      BY <2>1 DEF IsClear
    <3> QED
      BY <3>1, <3>2 DEF IsClear
  <2> QED
    BY <2>1, <2>2, <2>3
<1>6. CASE SyncFails
  <2>1. /\ stage = "up" /\ client' = WithError(client, "SOCKET_ERROR")
        /\ UNCHANGED <<stage, on_the_way, accepted, at_broker, regular>>
    BY <1>6 DEF SyncFails, WithError
  <2>2. "SOCKET_ERROR" \in Errors \ {"ACK_OF_UNKNOWN"}
    BY DEF Errors
  <2>3. WithError(client, "SOCKET_ERROR").timeouts = client.timeouts
    BY <1>1 DEF WithError, ClientRecord
  <2>4. Clear(client, at_broker, Len(accepted)) /\ Matched(client.queue, on_the_way, 0) =>
          /\ Clear(WithError(client, "SOCKET_ERROR"), at_broker, Len(accepted))
          /\ Matched(WithError(client, "SOCKET_ERROR").queue, on_the_way, 0)
    BY <1>1, <2>2, ClearError
  <2> QED
    BY <2>1, <2>3, <2>4 DEF IsClear
<1> QED
  BY <1>2, <1>3, <1>4, <1>5, <1>6

LEMMA OpenIsClear ==
  ASSUME TransportOK, IsClear, NEW budget \in Budgets, NEW refuses \in BOOLEAN,
         Open(budget, refuses)
  PROVE  IsClear'
<1> DEFINE s == Send(client, budget)
<1>1. /\ ClientOK(client) /\ on_the_way \in Seq(Incoming) /\ budget \in Nat
      /\ stage = "connecting" /\ stage' = "up" /\ ~client.timeouts /\ at_broker \in SUBSET Nat
      /\ regular /\ Clear(client, at_broker, 0) /\ Matched(client.queue, on_the_way, 0)
  <2>1. stage = "connecting" /\ stage' = "up"
    BY DEF Open
  <2>2. accepted = <<>> /\ Len(<<>>) = 0
    BY <2>1 DEF IsClear
  <2> QED
    BY <2>1, <2>2, TransportNumbers DEF TransportOK, IsClear
<1>2. PICK stale \in Garbage :
        /\ client' = Publish(Subscribe(s.client, stale), stale, 1, 1, 1)
        /\ Reach(s, on_the_way, refuses)
  BY DEF Open
<1>3. ClientOK(s.client) /\ s.sent \in Seq(Queued)
  BY <1>1, SendOutcome
<1>4. IsSent(s, at_broker, 0, on_the_way, refuses)
  BY <1>1, ClearSend
<1> HIDE DEF s
<1>5. /\ at_broker' \in SUBSET Nat
      /\ ~s.client.timeouts => /\ regular' /\ Clear(s.client, at_broker', 0)
                               /\ Matched(s.client.queue, on_the_way', 0)
  BY <1>1, <1>2, <1>3, <1>4, ReachClear
<1> DEFINE d == Subscribe(s.client, stale)
           r == Publish(d, stale, 1, 1, 1)
<1>6. stale \in Nat
  BY TransportNumbers
<1>7. ClientOK(d) /\ d.timeouts = s.client.timeouts
  BY <1>3, <1>6, CallsOK, CallTimeouts
<1>8. ~s.client.timeouts => Clear(d, at_broker', 0) /\ Matched(d.queue, on_the_way', 0)
  BY <1>3, <1>5, ClearSubscribe
<1> HIDE DEF d
<1>9. r.timeouts = d.timeouts
  BY <1>7, CallTimeouts
<1>10. ~s.client.timeouts => Clear(r, at_broker', 1) /\ Matched(r.queue, on_the_way', 0)
  <2>1. 1 \in {0, 1} /\ 1 \in Nat \ {0} /\ 0 \in Nat /\ 0 + 1 = 1
    OBVIOUS
  <2>2. ~s.client.timeouts => /\ Clear(Publish(d, stale, 1, 1, 0 + 1), at_broker', 0 + 1)
                              /\ Matched(Publish(d, stale, 1, 1, 0 + 1).queue, on_the_way', 0)
    BY <1>5, <1>7, <1>8, <2>1, ClearPublish
  <2> HIDE DEF r
  <2> QED
    BY <2>1, <2>2 DEF r
<1>11. client' = r /\ Len(accepted') = 1
  <2>1. client' = r
    BY <1>2 DEF d
  <2>2. accepted' = <<1>> \/ accepted' = <<0>>
    BY DEF Open
  <2> QED
    BY <2>1, <2>2
<1> HIDE DEF r
<1> QED
  BY <1>1, <1>5, <1>7, <1>9, <1>10, <1>11 DEF IsClear

LEMMA PublishIsClear ==
  ASSUME TransportOK, IsClear,
         NEW qos \in {0, 1}, NEW size \in Sizes, NEW stale \in Garbage,
         PublishMessage(qos, size, stale)
  PROVE  IsClear'
<1> DEFINE high == Len(accepted)
           r == Publish(client, stale, qos, size, high + 1)
<1>1. /\ ClientOK(client) /\ size \in Nat \ {0} /\ accepted \in Seq({0, 1}) /\ high \in Nat
      /\ at_broker \in SUBSET Nat /\ stage = "up"
      /\ client' = r /\ UNCHANGED <<stage, on_the_way, at_broker, regular>>
      /\ accepted' = IF r.error = "OK" THEN Append(accepted, qos) ELSE accepted
  BY TransportNumbers DEF TransportOK, IsClear, PublishMessage
<1>2. r.timeouts = client.timeouts
  <2>1. \A q, z, number : Publish(client, stale, q, z, number).timeouts = client.timeouts
    BY <1>1, CallTimeouts
  <2> QED
    BY <2>1
<1>3. Clear(client, at_broker, high) /\ Matched(client.queue, on_the_way, 0) =>
        /\ Clear(r, at_broker, high + 1) /\ Matched(r.queue, on_the_way, 0)
        /\ r.error # "OK" => Clear(r, at_broker, high)
  BY <1>1, ClearPublish
<1> HIDE DEF r
<1>4. Len(accepted') = IF r.error = "OK" THEN high + 1 ELSE high
  BY <1>1
<1> QED
  BY <1>1, <1>2, <1>3, <1>4 DEF IsClear

LEMMA SyncIsClear ==
  ASSUME TransportOK, IsClear, NEW k \in 0..Len(on_the_way), NEW budget \in Budgets,
         NEW refuses \in BOOLEAN, Sync(k, budget, refuses)
  PROVE  IsClear'
<1> DEFINE r == Receive(client, Whole(on_the_way, k))
           s == IF r.failed THEN [client |-> r.client, sent |-> <<>>]
                ELSE Send(r.client, budget)
           high == Len(accepted)
<1>1. /\ ClientOK(client) /\ on_the_way \in Seq(Incoming) /\ high \in Nat
      /\ at_broker \in SUBSET Nat /\ stage = "up"
      /\ client' = s.client /\ Reach(s, Rest(r.read), refuses)
      /\ UNCHANGED <<stage, accepted>>
  BY DEF TransportOK, IsClear, Sync
<1>2. (~client.timeouts => regular) /\ Prompt(client, at_broker, high, on_the_way)
  BY DEF IsClear, Prompt
<1>3. r = Receive(client, Whole(on_the_way, k)) /\ FALSE \in BOOLEAN
      /\ s = IF r.failed \/ FALSE THEN [client |-> r.client, sent |-> <<>>]
             ELSE Send(r.client, budget)
  OBVIOUS
<1> HIDE DEF s, r, high
<1>4. /\ at_broker' \in SUBSET Nat /\ (~s.client.timeouts => regular')
      /\ Prompt(s.client, at_broker', high, on_the_way')
  BY <1>1, <1>2, <1>3, ClearExchange
<1>5. stage' # "connecting" /\ Len(accepted') = high
  BY <1>1 DEF high
<1>6. (~client'.timeouts => regular') /\ Prompt(client', at_broker', Len(accepted'), on_the_way')
  BY <1>1, <1>4, <1>5
<1> QED
  BY <1>4, <1>5, <1>6 DEF IsClear, Prompt

LEMMA CloseIsClear ==
  ASSUME TransportOK, IsClear, NEW k \in 0..Len(on_the_way), NEW budget \in Budgets,
         Close(k, budget)
  PROVE  IsClear'
<1> DEFINE c == Disconnect(client)
           r == Receive(c, Whole(on_the_way, k))
           s == IF r.failed \/ ~link THEN [client |-> r.client, sent |-> <<>>]
                ELSE Send(r.client, budget)
           high == Len(accepted)
<1>1. /\ ClientOK(client) /\ on_the_way \in Seq(Incoming) /\ high \in Nat
      /\ at_broker \in SUBSET Nat /\ stage = "up" /\ stage' = "closed"
      /\ client' = s.client /\ Reach(s, Rest(r.read), FALSE) /\ UNCHANGED accepted
  <2>1. ClientOK(client) /\ on_the_way \in Seq(Incoming) /\ high \in Nat
    BY DEF TransportOK
  <2>2. at_broker \in SUBSET Nat
    BY DEF IsClear
  <2>3. /\ stage = "up" /\ stage' = "closed"
        /\ client' = s.client /\ Reach(s, Rest(r.read), FALSE) /\ UNCHANGED accepted
    BY DEF Close
  <2> QED
    BY <2>1, <2>2, <2>3
<1>2. ClientOK(c) /\ c.timeouts = client.timeouts
  BY <1>1, CallsOK, TryPackTimeouts DEF Disconnect
<1>3. (~c.timeouts => regular) /\ Prompt(c, at_broker, high, on_the_way)
  <2>1. DisconnectPacket \in {ConnectPacket, PingPacket, DisconnectPacket}
    OBVIOUS
  <2>2. ~client.timeouts => /\ regular /\ Clear(client, at_broker, high)
                            /\ Matched(client.queue, on_the_way, 0)
    BY DEF IsClear
  <2> HIDE DEF high
  <2>3. ~client.timeouts =>
          /\ Clear(TryPack(client, DisconnectPacket), at_broker, high)
          /\ Matched(TryPack(client, DisconnectPacket).queue, on_the_way, 0)
    BY <1>1, <2>1, <2>2, ClearPlain
  <2> QED
    BY <1>2, <2>2, <2>3 DEF Disconnect, Prompt
<1>4. r = Receive(c, Whole(on_the_way, k)) /\ (~link) \in BOOLEAN
      /\ s = IF r.failed \/ ~link THEN [client |-> r.client, sent |-> <<>>]
             ELSE Send(r.client, budget)
  OBVIOUS
<1> HIDE DEF c, r, s, high
<1>5. /\ at_broker' \in SUBSET Nat /\ (~s.client.timeouts => regular')
      /\ Prompt(s.client, at_broker', high, on_the_way')
  BY <1>1, <1>2, <1>3, <1>4, ClearExchange
<1>6. stage' # "connecting" /\ Len(accepted') = high
  BY <1>1 DEF high
<1>7. (~client'.timeouts => regular') /\ Prompt(client', at_broker', Len(accepted'), on_the_way')
  BY <1>1, <1>5, <1>6
<1> QED
  BY <1>5, <1>6, <1>7 DEF IsClear, Prompt

\* As long as no answer is late, the broker gets every message once and in the
\* order of publishing, each packet in one piece, and every answer it sends is for
\* a packet that waits for it (mqtt_mq_find(), __mqtt_send()).  What is not sent
\* lies behind all else in the queue, and the answers on the way are for different
\* packets of it that have been sent.
THEOREM PromptStaysClean == TransportSpec => []PromptIsClean
<1>1. TransportInit => IsClear
  BY StartIsClear
<1>2. TransportOK /\ IsClear /\ [TransportNext]_transportVars => IsClear'
  <2> SUFFICES ASSUME TransportOK, IsClear, [TransportNext]_transportVars
               PROVE  IsClear'
    OBVIOUS
  <2>1. CASE Offer \/ Break \/ TransportTick \/ Reopen \/ SyncFails
    BY <2>1, RestIsClear
  <2>2. CASE \E budget \in Budgets, refuses \in BOOLEAN : Open(budget, refuses)
    BY <2>2, OpenIsClear
  <2>3. CASE \E k \in 0..Len(on_the_way), budget \in Budgets, refuses \in BOOLEAN :
               Sync(k, budget, refuses)
    BY <2>3, SyncIsClear
  <2>4. CASE \E qos \in {0, 1}, size \in Sizes, stale \in Garbage :
               PublishMessage(qos, size, stale)
    BY <2>4, PublishIsClear
  <2>5. CASE \E k \in 0..Len(on_the_way), budget \in Budgets : Close(k, budget)
    BY <2>5, CloseIsClear
  <2>6. CASE Recv \/ RecvTooLong \/ UNCHANGED transportVars
    <3>1. UNCHANGED <<stage, client, on_the_way, at_broker, accepted, regular>>
      BY <2>6 DEF Recv, RecvTooLong, Advance, connVars, transportVars
    <3> QED
      BY <3>1 DEF IsClear
  <2> QED
    BY <2>1, <2>2, <2>3, <2>4, <2>5, <2>6 DEF TransportNext
<1>3. IsClear => PromptIsClean
  BY DEF IsClear, PromptIsClean, Clear
<1> QED
  BY <1>1, <1>2, <1>3, TransportStaysOK, PTL DEF TransportSpec
=============================================================================
