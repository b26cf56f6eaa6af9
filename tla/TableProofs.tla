---------------------------- MODULE TableProofs ----------------------------
(***************************************************************************)
(* The two tables that most agents keep, for any capacities and clocks that  *)
(* run for ever: the peer registry, for any names and any staleness bound,   *)
(* and the vote table, for any agents, programs, scores and quorum.          *)
(***************************************************************************)
EXTENDS PeerTable, VoteTable, ScanProofs, SequenceTheorems, FiniteSetTheorems

(* The functions of peer_table.c: what one call does to a well-formed table. *)

TableOK(t) == WellTyped(t) /\ OneActive(t) /\ NeverBoth(t)

LEMMA SlotGotIsActive ==
  ASSUME NEW t \in Seq(PeerEntry), NEW n \in Names, PeerKnown(t, n)
  PROVE  /\ PeerSlotGot(t, n) \in 1 .. Len(t)
         /\ t[PeerSlotGot(t, n)].name = n
         /\ t[PeerSlotGot(t, n)].active
<1>1. ActiveSlotsOf(t, n) \in SUBSET Nat
  BY LenProperties DEF ActiveSlotsOf, SlotsOf
<1>2. PeerSlotGot(t, n) \in ActiveSlotsOf(t, n)
  BY <1>1, FirstIsMember DEF PeerKnown, PeerSlotGot
<1> QED
  BY <1>2, LenProperties DEF ActiveSlotsOf, SlotsOf

LEMMA FirstSlotHasName ==
  ASSUME NEW t \in Seq(PeerEntry), NEW n \in Names, SlotsOf(t, n) # {}
  PROVE  /\ First(SlotsOf(t, n)) \in 1 .. Len(t)
         /\ t[First(SlotsOf(t, n))].name = n
<1>1. SlotsOf(t, n) \in SUBSET Nat
  BY LenProperties DEF SlotsOf
<1>2. First(SlotsOf(t, n)) \in SlotsOf(t, n)
  BY <1>1, FirstIsMember
<1> QED
  BY <1>2, LenProperties DEF SlotsOf

\* Rewriting one slot without activating it or marking an active one keeps a
\* table well formed.
LEMMA RewriteKeepsTable ==
  ASSUME NEW t \in Seq(PeerEntry), TableOK(t),
         NEW k \in 1 .. Len(t), NEW e \in PeerEntry,
         e.name = t[k].name,
         e.active => t[k].active,
         ~(e.active /\ e.quarantined)
  PROVE  /\ TableOK([t EXCEPT ![k] = e])
         /\ SameNames(t, [t EXCEPT ![k] = e])
<1> DEFINE u == [t EXCEPT ![k] = e]
<1>1. /\ u \in Seq(PeerEntry)
      /\ Len(u) = Len(t)
      /\ \A j \in 1 .. Len(t) : u[j] = IF j = k THEN e ELSE t[j]
      /\ DOMAIN u = 1 .. Len(t) /\ DOMAIN t = 1 .. Len(t)
  BY ExceptSeq, LenProperties
<1> HIDE DEF u
<1>2. WellTyped(u)
  BY <1>1 DEF TableOK, WellTyped
<1>3. OneActive(u)
  BY <1>1 DEF TableOK, OneActive
<1>4. NeverBoth(u)
  BY <1>1 DEF TableOK, NeverBoth
<1>5. SameNames(t, u)
  BY <1>1, LenProperties DEF SameNames
<1> QED
  BY <1>2, <1>3, <1>4, <1>5 DEF TableOK, u

LEMMA AppendKeepsTable ==
  ASSUME NEW t \in Seq(PeerEntry), TableOK(t), ~IsFull(t),
         NEW e \in PeerEntry,
         e.active => ~PeerKnown(t, e.name),
         ~(e.active /\ e.quarantined)
  PROVE  /\ TableOK(Append(t, e))
         /\ SameNames(t, Append(t, e))
<1> DEFINE u == Append(t, e)
<1>1. /\ u \in Seq(PeerEntry)
      /\ Len(u) = Len(t) + 1
      /\ \A j \in 1 .. Len(t) : u[j] = t[j]
      /\ u[Len(t) + 1] = e
      /\ DOMAIN u = 1 .. Len(t) + 1 /\ DOMAIN t = 1 .. Len(t)
      /\ Len(t) \in Nat
  BY AppendProperties, LenProperties
<1> HIDE DEF u
<1>2. WellTyped(u)
  BY <1>1, MaxPeersAssumption DEF TableOK, WellTyped, IsFull
<1>3. OneActive(u)
  <2> SUFFICES ASSUME NEW i \in DOMAIN u, NEW j \in DOMAIN u,
                      u[i].active, u[j].active, u[i].name = u[j].name
               PROVE  i = j
    BY DEF OneActive
  <2>1. CASE i \in DOMAIN t /\ j \in DOMAIN t
    BY <2>1, <1>1 DEF TableOK, OneActive
  <2>2. CASE i = Len(t) + 1 /\ j \in DOMAIN t
    BY <2>2, <1>1 DEF PeerKnown, ActiveSlotsOf, SlotsOf
  <2>3. CASE i \in DOMAIN t /\ j = Len(t) + 1
    BY <2>3, <1>1 DEF PeerKnown, ActiveSlotsOf, SlotsOf
  <2>4. CASE i = Len(t) + 1 /\ j = Len(t) + 1
    BY <2>4
  <2> QED
    BY <1>1, <2>1, <2>2, <2>3, <2>4
<1>4. NeverBoth(u)
  BY <1>1 DEF TableOK, NeverBoth
<1>5. SameNames(t, u)
  BY <1>1 DEF SameNames
<1> QED
  BY <1>2, <1>3, <1>4, <1>5 DEF TableOK, u

LEMMA UnchangedKeepsTable ==
  ASSUME NEW t \in Seq(PeerEntry)
  PROVE  SameNames(t, t)
BY LenProperties DEF SameNames

----------------------------------------------------------------------------
(* The four functions. *)

LEMMA UpsertKeepsTable ==
  ASSUME NEW t, TableOK(t), NEW n \in Names, NEW t0 \in Nat
  PROVE  TableOK(PeerUpsert(t, n, t0)) /\ SameNames(t, PeerUpsert(t, n, t0))
<1>0. t \in Seq(PeerEntry)
  BY DEF TableOK, WellTyped
<1>1. CASE PeerKnown(t, n)
  <2> DEFINE k == PeerSlotGot(t, n)
             e == [t[k] EXCEPT !.last_seen = t0]
  <2>1. k \in 1 .. Len(t) /\ t[k].active
    BY <1>0, <1>1, SlotGotIsActive
  <2>2. t[k] \in PeerEntry
    BY <1>0, <2>1, ElementOfSeq
  <2>3. /\ e \in PeerEntry
        /\ e.name = t[k].name
        /\ e.active = t[k].active
        /\ e.quarantined = t[k].quarantined
    BY <2>2 DEF PeerEntry
  <2>4. ~(e.active /\ e.quarantined)
    BY <1>0, <2>1, <2>3, LenProperties DEF TableOK, NeverBoth
  <2>5. PeerUpsert(t, n, t0) = [t EXCEPT ![k] = e]
    BY <1>1 DEF PeerUpsert
  <2> HIDE DEF k, e
  <2> QED
    BY <1>0, <2>1, <2>3, <2>4, <2>5, RewriteKeepsTable
<1>2. CASE ~PeerKnown(t, n) /\ IsFull(t)
  BY <1>0, <1>2, UnchangedKeepsTable DEF PeerUpsert
<1>3. CASE ~PeerKnown(t, n) /\ ~IsFull(t)
  <2> DEFINE e == [name |-> n, active |-> TRUE, quarantined |-> FALSE,
                   last_seen |-> t0]
  <2>1. e \in PeerEntry /\ e.name = n /\ ~e.quarantined
    BY DEF PeerEntry
  <2>2. PeerUpsert(t, n, t0) = Append(t, e)
    BY <1>3 DEF PeerUpsert
  <2> HIDE DEF e
  <2> QED
    BY <1>0, <1>3, <2>1, <2>2, AppendKeepsTable
<1> QED
  BY <1>1, <1>2, <1>3

LEMMA QuarantineKeepsTable ==
  ASSUME NEW t, TableOK(t), NEW n \in Names
  PROVE  TableOK(PeerQuarantine(t, n)) /\ SameNames(t, PeerQuarantine(t, n))
<1>0. t \in Seq(PeerEntry)
  BY DEF TableOK, WellTyped
<1>1. CASE SlotsOf(t, n) # {}
  <2> DEFINE k == First(SlotsOf(t, n))
             e == [t[k] EXCEPT !.quarantined = TRUE, !.active = FALSE]
  <2>1. k \in 1 .. Len(t)
    BY <1>0, <1>1, FirstSlotHasName
  <2>2. t[k] \in PeerEntry
    BY <1>0, <2>1, ElementOfSeq
  <2>3. e \in PeerEntry /\ e.name = t[k].name /\ ~e.active
    BY <2>2 DEF PeerEntry
  <2>4. PeerQuarantine(t, n) = [t EXCEPT ![k] = e]
    BY <1>0, <1>1, <2>1, <2>2, LenProperties DEF PeerQuarantine, PeerEntry
  <2> HIDE DEF k, e
  <2> QED
    BY <1>0, <2>1, <2>3, <2>4, RewriteKeepsTable
<1>2. CASE SlotsOf(t, n) = {} /\ IsFull(t)
  BY <1>0, <1>2, UnchangedKeepsTable DEF PeerQuarantine
<1>3. CASE SlotsOf(t, n) = {} /\ ~IsFull(t)
  <2> DEFINE e == [name |-> n, active |-> FALSE, quarantined |-> TRUE,
                   last_seen |-> 0]
  <2>1. e \in PeerEntry /\ e.name = n /\ ~e.active
    BY DEF PeerEntry
  <2>2. PeerQuarantine(t, n) = Append(t, e)
    BY <1>3 DEF PeerQuarantine
  <2> HIDE DEF e
  <2> QED
    BY <1>0, <1>3, <2>1, <2>2, AppendKeepsTable
<1> QED
  BY <1>1, <1>2, <1>3

LEMMA LiftKeepsTable ==
  ASSUME NEW t, TableOK(t), NEW n \in Names
  PROVE  TableOK(PeerLift(t, n)) /\ SameNames(t, PeerLift(t, n))
<1>0. t \in Seq(PeerEntry)
  BY DEF TableOK, WellTyped
<1>1. CASE PeerKnown(t, n)
  <2> DEFINE k == PeerSlotGot(t, n)
             e == [t[k] EXCEPT !.quarantined = FALSE, !.active = TRUE]
  <2>1. k \in 1 .. Len(t) /\ t[k].active
    BY <1>0, <1>1, SlotGotIsActive
  <2>2. t[k] \in PeerEntry
    BY <1>0, <2>1, ElementOfSeq
  <2>3. e \in PeerEntry /\ e.name = t[k].name /\ ~e.quarantined
    BY <2>2 DEF PeerEntry
  <2>4. PeerLift(t, n) = [t EXCEPT ![k] = e]
    BY <1>0, <1>1, <2>1, <2>2, LenProperties DEF PeerLift, PeerEntry
  <2> HIDE DEF k, e
  <2> QED
    BY <1>0, <2>1, <2>3, <2>4, RewriteKeepsTable
<1>2. CASE ~PeerKnown(t, n)
  BY <1>0, <1>2, UnchangedKeepsTable DEF PeerLift
<1> QED
  BY <1>1, <1>2

LEMMA SweepKeepsTable ==
  ASSUME NEW t, TableOK(t), NEW t0 \in Nat
  PROVE  TableOK(PeerSweep(t, t0)) /\ SameNames(t, PeerSweep(t, t0))
<1> DEFINE u == PeerSweep(t, t0)
<1>0. /\ t \in Seq(PeerEntry)
      /\ Len(t) \in Nat
      /\ DOMAIN t = 1 .. Len(t)
      /\ \A i \in 1 .. Len(t) : t[i] \in PeerEntry
  BY LenProperties, ElementOfSeq DEF TableOK, WellTyped
<1>1. ASSUME NEW i \in 1 .. Len(t)
      PROVE  /\ u[i] = [t[i] EXCEPT !.active = @ /\ ~IsStale(t[i], t0)]
             /\ u[i] \in PeerEntry
             /\ u[i].name = t[i].name
             /\ u[i].active => t[i].active
             /\ u[i].quarantined = t[i].quarantined
  <2>1. u[i] = [t[i] EXCEPT !.active = @ /\ ~IsStale(t[i], t0)]
    BY <1>0 DEF PeerSweep
  <2>2. (t[i].active /\ ~IsStale(t[i], t0)) \in BOOLEAN
    OBVIOUS
  <2>3. t[i] \in PeerEntry
    BY <1>0
  <2> HIDE DEF u
  <2>4. u[i] \in PeerEntry
    BY <2>1, <2>2, <2>3 DEF PeerEntry
  <2>5. /\ u[i].name = t[i].name
        /\ u[i].active = (t[i].active /\ ~IsStale(t[i], t0))
        /\ u[i].quarantined = t[i].quarantined
    BY <2>1, <2>3 DEF PeerEntry
  <2> QED
    BY <2>1, <2>4, <2>5
<1>2. /\ u \in Seq(PeerEntry)
      /\ Len(u) = Len(t)
      /\ DOMAIN u = 1 .. Len(t)
  <2>1. u \in [1 .. Len(t) -> PeerEntry]
    BY <1>0, <1>1 DEF PeerSweep
  <2> HIDE DEF u
  <2>2. u \in Seq(PeerEntry)
    BY <1>0, <2>1
  <2> QED
    BY <1>0, <2>1, <2>2, LenProperties
<1> HIDE DEF u
<1>3. WellTyped(u)
  BY <1>2 DEF TableOK, WellTyped
<1>4. OneActive(u)
  BY <1>0, <1>1, <1>2 DEF TableOK, OneActive
<1>5. NeverBoth(u)
  BY <1>0, <1>1, <1>2 DEF TableOK, NeverBoth
<1>6. SameNames(t, u)
  BY <1>0, <1>1, <1>2 DEF SameNames
<1> QED
  BY <1>3, <1>4, <1>5, <1>6 DEF TableOK, u

----------------------------------------------------------------------------
(* The registry of one agent. *)

LEMMA InvIsTableOK == TableInv => TableOK(table)
BY DEF TableInv, PeerTypeOK, OneActiveSlot, ActiveNotQuarantined, TableOK

LEMMA InitEstablishes == PeerInit => TableInv
<1> SUFFICES ASSUME PeerInit PROVE TableInv
  OBVIOUS
<1>1. PeerTypeOK
  BY EmptySeq, MaxPeersAssumption DEF PeerInit, PeerTypeOK, WellTyped, Happening
<1>2. DOMAIN table = {}
  BY DEF PeerInit
<1> QED
  BY <1>1, <1>2 DEF TableInv, OneActiveSlot, OneActive,
                    ActiveNotQuarantined, NeverBoth

\* One step keeps the table well formed and renames no slot.
LEMMA StepKeeps ==
  ASSUME TableInv, [PeerNext]_peerVars
  PROVE  TableInv' /\ SameNames(table, table')
<1>0. /\ TableOK(table)
      /\ table \in Seq(PeerEntry)
      /\ clock \in Nat
      /\ handled \in [what : Happening, about : SUBSET Names]
  BY InvIsTableOK DEF TableInv, PeerTypeOK, WellTyped
<1> DEFINE Good == /\ TableOK(table')
                   /\ SameNames(table, table')
                   /\ clock' \in Nat
                   /\ handled' \in [what : Happening, about : SUBSET Names]
<1>1. ASSUME NEW n \in Names, Heartbeat(n) PROVE Good
  BY <1>0, <1>1, UpsertKeepsTable DEF Heartbeat, Did, Happening
<1>2. ASSUME NEW n \in Names, Enforce(n) PROVE Good
  BY <1>0, <1>2, QuarantineKeepsTable DEF Enforce, Did, Happening
<1>3. ASSUME NEW n \in Names, Lift(n) PROVE Good
  BY <1>0, <1>3, LiftKeepsTable DEF Lift, Did, Happening
<1>4. ASSUME Sweep PROVE Good
  BY <1>0, <1>4, SweepKeepsTable DEF Sweep, Did, Happening
<1>5. ASSUME PeerTick PROVE Good
  BY <1>0, <1>5, UnchangedKeepsTable DEF PeerTick, Did, Happening
<1>6. ASSUME UNCHANGED peerVars PROVE Good
  BY <1>0, <1>6, UnchangedKeepsTable DEF peerVars
<1>7. Good => TableInv' /\ SameNames(table, table')
  BY DEF TableInv, PeerTypeOK, OneActiveSlot, ActiveNotQuarantined, TableOK
<1> QED
  BY <1>1, <1>2, <1>3, <1>4, <1>5, <1>6, <1>7 DEF PeerNext

----------------------------------------------------------------------------
\* peer_upsert(), peer_quarantine(), peer_sweep() and the lifts keep the table
\* well formed as a whole: one active slot per name, never one in quarantine.
THEOREM PeersInvariant == PeerSpec => []TableInv
<1>1. TableInv /\ [PeerNext]_peerVars => TableInv'
  BY StepKeeps
<1> QED
  BY <1>1, InitEstablishes, PTL DEF PeerSpec

\* The registry stays inside its array and well typed (edge/peer_table.c never
\* writes entries[] beyond COLLECTIVE_MAX_PEERS).
THEOREM PeersTyped == PeerSpec => []PeerTypeOK
<1>1. TableInv => PeerTypeOK
  BY DEF TableInv
<1> QED
  BY <1>1, PeersInvariant, PTL

\* peer_get() is unambiguous: no history of sweeps, quarantines and returns
\* leaves two active slots for one name.
THEOREM OneActiveSlotPerName == PeerSpec => []OneActiveSlot
<1>1. TableInv => OneActiveSlot
  BY DEF TableInv
<1> QED
  BY <1>1, PeersInvariant, PTL

\* An entry that peer_get() can return is never marked quarantined, so the
\* "known and quarantined" test a worker makes on a program's sender is always
\* false.
THEOREM KnownNeverQuarantined == PeerSpec => []ActiveNotQuarantined
<1>1. TableInv => ActiveNotQuarantined
  BY DEF TableInv
<1> QED
  BY <1>1, PeersInvariant, PTL

\* A used slot keeps its name for ever.
THEOREM SlotsNeverRenamed == PeerSpec => SlotsStable
<1>1. TableInv /\ [PeerNext]_peerVars => [SameNames(table, table')]_peerVars
  BY StepKeeps
<1> QED
  BY <1>1, PeersInvariant, PTL DEF PeerSpec, SlotsStable

\* What may take a slot that is active out of service.
Leaves(i) == table[i].active /\ ~table'[i].active

LEMMA RefreshKeepsActive ==
  ASSUME TableOK(table), NEW n \in Names, Heartbeat(n), NEW i \in DOMAIN table
  PROVE  ~Leaves(i)
<1>0. table \in Seq(PeerEntry) /\ DOMAIN table = 1 .. Len(table) /\ Len(table) \in Nat
  BY LenProperties DEF TableOK, WellTyped
<1>1. CASE PeerKnown(table, n)
  <2> DEFINE k == PeerSlotGot(table, n)
  <2>1. k \in 1 .. Len(table) /\ table[k] \in PeerEntry
    BY <1>0, <1>1, SlotGotIsActive, ElementOfSeq
  <2>2. table' = [table EXCEPT ![k].last_seen = clock]
    BY <1>1 DEF Heartbeat, PeerUpsert
  <2>3. table'[i] = IF i = k THEN [table[i] EXCEPT !.last_seen = clock] ELSE table[i]
    BY <1>0, <2>2
  <2> HIDE DEF k
  <2> QED
    BY <2>1, <2>3 DEF Leaves, PeerEntry
<1>2. CASE ~PeerKnown(table, n) /\ IsFull(table)
  BY <1>2 DEF Heartbeat, PeerUpsert, Leaves
<1>3. CASE ~PeerKnown(table, n) /\ ~IsFull(table)
  <2> DEFINE e == [name |-> n, active |-> TRUE, quarantined |-> FALSE,
                   last_seen |-> clock]
  <2>1. table' = Append(table, e)
    BY <1>3 DEF Heartbeat, PeerUpsert
  <2>2. table'[i] = table[i]
    BY <1>0, <2>1
  <2> QED
    BY <2>2 DEF Leaves
<1> QED
  BY <1>1, <1>2, <1>3

LEMMA OnlyItsQuarantine ==
  ASSUME TableOK(table), NEW n \in Names, Enforce(n), NEW i \in DOMAIN table,
         Leaves(i)
  PROVE  table[i].name = n
<1>0. table \in Seq(PeerEntry) /\ DOMAIN table = 1 .. Len(table) /\ Len(table) \in Nat
  BY LenProperties DEF TableOK, WellTyped
<1>1. CASE SlotsOf(table, n) # {}
  <2> DEFINE k == First(SlotsOf(table, n))
  <2>1. k \in 1 .. Len(table) /\ table[k].name = n
    BY <1>0, <1>1, FirstSlotHasName
  <2>2. table' = [table EXCEPT ![k].quarantined = TRUE, ![k].active = FALSE]
    BY <1>1 DEF Enforce, PeerQuarantine
  <2> HIDE DEF k
  <2>3. i # k => table'[i] = table[i]
    BY <1>0, <2>2
  <2> QED
    BY <2>1, <2>3 DEF Leaves
<1>2. CASE SlotsOf(table, n) = {} /\ IsFull(table)
  BY <1>2 DEF Enforce, PeerQuarantine, Leaves
<1>3. CASE SlotsOf(table, n) = {} /\ ~IsFull(table)
  <2> DEFINE e == [name |-> n, active |-> FALSE, quarantined |-> TRUE,
                   last_seen |-> 0]
  <2>1. table' = Append(table, e)
    BY <1>3 DEF Enforce, PeerQuarantine
  <2>2. table'[i] = table[i]
    BY <1>0, <2>1
  <2> QED
    BY <2>2 DEF Leaves
<1> QED
  BY <1>1, <1>2, <1>3

LEMMA LiftKeepsActive ==
  ASSUME TableOK(table), NEW n \in Names, Lift(n), NEW i \in DOMAIN table
  PROVE  ~Leaves(i)
<1>0. table \in Seq(PeerEntry) /\ DOMAIN table = 1 .. Len(table) /\ Len(table) \in Nat
  BY LenProperties DEF TableOK, WellTyped
<1>1. CASE PeerKnown(table, n)
  <2> DEFINE k == PeerSlotGot(table, n)
  <2>1. k \in 1 .. Len(table) /\ table[k] \in PeerEntry
    BY <1>0, <1>1, SlotGotIsActive, ElementOfSeq
  <2>2. table' = [table EXCEPT ![k].quarantined = FALSE, ![k].active = TRUE]
    BY <1>1 DEF Lift, PeerLift
  <2> HIDE DEF k
  <2>3. table'[i] = IF i = k
                    THEN [table[i] EXCEPT !.quarantined = FALSE, !.active = TRUE]
                    ELSE table[i]
    BY <1>0, <2>2
  <2> QED
    BY <2>1, <2>3 DEF Leaves, PeerEntry
<1>2. CASE ~PeerKnown(table, n)
  BY <1>2 DEF Lift, PeerLift, Leaves
<1> QED
  BY <1>1, <1>2

LEMMA SweepTakesStale ==
  ASSUME TableOK(table), Sweep, NEW i \in DOMAIN table, Leaves(i)
  PROVE  IsStale(table[i], clock)
<1>1. table[i] \in PeerEntry
  BY ElementOfSeq, LenProperties DEF TableOK, WellTyped
<1>2. table'[i] = [table[i] EXCEPT !.active = @ /\ ~IsStale(table[i], clock)]
  BY DEF Sweep, PeerSweep
<1> QED
  BY <1>1, <1>2 DEF Leaves, PeerEntry

\* A peer heard from within StaleAfter goes out of service only by a quarantine
\* of its own name: no sweep, and no enforcement against another, takes it out.
THEOREM FreshPeersAreKept == PeerSpec => FreshPeersStay
<1> DEFINE Kept == \A i \in DOMAIN table :
             /\ table[i].active
             /\ clock - table[i].last_seen <= StaleAfter
             /\ ~table'[i].active
             => handled' = [what |-> "quarantine", about |-> {table[i].name}]
<1>1. TableInv /\ [PeerNext]_peerVars => [Kept]_peerVars
  <2> SUFFICES ASSUME TableInv, PeerNext, NEW i \in DOMAIN table,
                      Leaves(i), clock - table[i].last_seen <= StaleAfter
               PROVE  handled' = [what |-> "quarantine", about |-> {table[i].name}]
    BY DEF Leaves
  <2>1. /\ TableOK(table) /\ clock \in Nat
        /\ table[i] \in PeerEntry
    <3>1. TableOK(table) /\ clock \in Nat
      BY InvIsTableOK DEF TableInv, PeerTypeOK
    <3> QED
      BY <3>1, ElementOfSeq, LenProperties DEF TableOK, WellTyped
  <2>2. ASSUME NEW n \in Names, Heartbeat(n) PROVE FALSE
    BY <2>1, <2>2, RefreshKeepsActive
  <2>3. ASSUME NEW n \in Names, Enforce(n)
        PROVE  handled' = [what |-> "quarantine", about |-> {table[i].name}]
    <3>1. table[i].name = n
      BY <2>1, <2>3, OnlyItsQuarantine
    <3> QED
      BY <2>3, <3>1 DEF Enforce, Did
  <2>4. ASSUME NEW n \in Names, Lift(n) PROVE FALSE
    BY <2>1, <2>4, LiftKeepsActive
  <2>5. ~Sweep
    <3> SUFFICES ASSUME Sweep PROVE FALSE
      OBVIOUS
    <3>1. IsStale(table[i], clock)
      BY <2>1, SweepTakesStale
    <3>2. clock - table[i].last_seen > StaleAfter
      BY <3>1 DEF IsStale
    <3>3. clock \in Nat /\ table[i].last_seen \in Nat /\ StaleAfter \in Nat
      BY <2>1, StaleAfterAssumption DEF PeerEntry
    <3> QED
      BY <3>2, <3>3
  <2>6. ~PeerTick
    BY DEF PeerTick, Leaves
  <2> QED
    BY <2>2, <2>3, <2>4, <2>5, <2>6 DEF PeerNext
<1> QED
  BY <1>1, PeersInvariant, PTL DEF PeerSpec, FreshPeersStay

----------------------------------------------------------------------------
(* The vote table. *)

\* A session as the table holds it between two votes: somebody has voted, there
\* are as many voters as votes, and it is committed just when those make a quorum.
SessionOK(s) == /\ s \in Session
                /\ Len(s.votes) <= MaxVoters
                /\ Len(s.votes) >= 1
                /\ IsFiniteSet(VotersIn(s))
                /\ Cardinality(VotersIn(s)) = Len(s.votes)
                /\ s.committed <=> Len(s.votes) >= Quorum

Unique(t) == \A i, j \in DOMAIN t : t[i].phash = t[j].phash => i = j

SessionsOK(t) == /\ t \in Seq(Session)
                 /\ Len(t) <= MaxSessions
                 /\ \A i \in DOMAIN t : SessionOK(t[i])
                 /\ Unique(t)

\* The inductive invariant.  Counting votes instead of voters is right only
\* because no voter is in a session twice; vote_expire() keeps programs apart
\* only because they were apart before.
SessionsInv == /\ TypeOK
               /\ SessionsOK(sessions)
               /\ ScannedAreYoung

----------------------------------------------------------------------------
(* Sequences of sessions *)

LEMMA AppendFacts ==
  ASSUME NEW S, NEW t \in Seq(S), NEW e \in S
  PROVE  /\ Append(t, e) \in Seq(S)
         /\ Len(Append(t, e)) = Len(t) + 1
         /\ \A j \in 1 .. Len(t) : Append(t, e)[j] = t[j]
         /\ Append(t, e)[Len(t) + 1] = e
         /\ DOMAIN Append(t, e) = 1 .. Len(t) + 1
         /\ DOMAIN t = 1 .. Len(t) /\ Len(t) \in Nat
BY AppendProperties, LenProperties

LEMMA CompactedFacts ==
  ASSUME NEW t \in Seq(Session), NEW i \in 1 .. Len(t)
  PROVE  /\ Compacted(t, i) \in Seq(Session)
         /\ Len(Compacted(t, i)) = Len(t) - 1
         /\ DOMAIN Compacted(t, i) = 1 .. Len(t) - 1
         /\ \A j \in 1 .. Len(t) - 1 :
              Compacted(t, i)[j] = IF j = i THEN t[Len(t)] ELSE t[j]
<1> DEFINE u == [t EXCEPT ![i] = t[Len(t)]]
<1>1. Len(t) \in Nat /\ Len(t) >= 1 /\ DOMAIN t = 1 .. Len(t)
  BY LenProperties
<1>2. t[Len(t)] \in Session
  BY <1>1, ElementOfSeq
<1>3. /\ u \in Seq(Session)
      /\ Len(u) = Len(t)
      /\ \A j \in 1 .. Len(t) : u[j] = IF j = i THEN t[Len(t)] ELSE t[j]
  BY <1>1, <1>2, ExceptSeq
<1> HIDE DEF u
<1>4. /\ SubSeq(u, 1, Len(t) - 1) \in Seq(Session)
      /\ Len(SubSeq(u, 1, Len(t) - 1)) = Len(t) - 1
      /\ \A j \in 1 .. Len(t) - 1 : SubSeq(u, 1, Len(t) - 1)[j] = u[j]
  <2>1. \A j \in 1 .. Len(t) - 1 : u[j] \in Session
    BY <1>1, <1>3, ElementOfSeq
  <2> QED
    BY <1>1, <1>3, <2>1, SubSeqProperties
<1>5. Compacted(t, i) = SubSeq(u, 1, Len(t) - 1)
  BY DEF Compacted, u
<1>6. DOMAIN Compacted(t, i) = 1 .. Len(t) - 1
  BY <1>4, <1>5, LenProperties
<1> QED
  BY <1>1, <1>3, <1>4, <1>5, <1>6

----------------------------------------------------------------------------
(* One session *)

\* A vote is never a second one of the same agent, so voters and votes go on
\* being as many as each other.
LEMMA VotersAfterVote ==
  ASSUME NEW s \in Session, NEW a \in Agents, NEW x \in Scores,
         IsFiniteSet(VotersIn(s)), Cardinality(VotersIn(s)) = Len(s.votes),
         ~HasVoted(s, a)
  PROVE  /\ WithVote(s, a, x) \in Session
         /\ WithVote(s, a, x).phash = s.phash
         /\ Len(WithVote(s, a, x).votes) = Len(s.votes) + 1
         /\ WithVote(s, a, x).committed <=> Len(s.votes) + 1 >= Quorum
         /\ IsFiniteSet(VotersIn(WithVote(s, a, x)))
         /\ Cardinality(VotersIn(WithVote(s, a, x))) = Len(s.votes) + 1
<1> DEFINE v == [voter |-> a, score |-> x]
           w == Append(s.votes, v)
           r == WithVote(s, a, x)
<1>1. v \in Vote /\ v.voter = a
  BY DEF Vote
<1>2. s.votes \in Seq(Vote)
  BY DEF Session
<1> HIDE DEF v
<1>3. /\ w \in Seq(Vote)
      /\ Len(w) = Len(s.votes) + 1
      /\ \A j \in 1 .. Len(s.votes) : w[j] = s.votes[j]
      /\ w[Len(s.votes) + 1] = v
      /\ DOMAIN w = 1 .. Len(s.votes) + 1
      /\ DOMAIN s.votes = 1 .. Len(s.votes) /\ Len(s.votes) \in Nat
  BY <1>1, <1>2, AppendFacts
<1>4. Voted(s, a, x) = [s EXCEPT !.votes = w]
  BY DEF Voted, v
<1> HIDE DEF w
<1>5. Voted(s, a, x) \in Session /\ Voted(s, a, x).votes = w
  BY <1>3, <1>4 DEF Session
<1> DEFINE q == ReachesQuorum(Voted(s, a, x))
<1>6. q \in BOOLEAN /\ (q <=> Len(s.votes) + 1 >= Quorum)
  BY <1>3, <1>5 DEF ReachesQuorum
<1>7. r = [Voted(s, a, x) EXCEPT !.committed = q]
  BY DEF WithVote
<1> HIDE DEF r, q
<1>12. /\ r \in Session /\ r.votes = w /\ r.phash = s.phash
       /\ r.committed = q
  BY <1>4, <1>5, <1>6, <1>7 DEF Session
<1>8. /\ r \in Session /\ r.votes = w /\ r.phash = s.phash
      /\ r.committed <=> Len(s.votes) + 1 >= Quorum
  BY <1>6, <1>12, Zenon
<1>9. VotersIn(r) = VotersIn(s) \cup {a}
  BY <1>1, <1>3, <1>8 DEF VotersIn
<1>10. a \notin VotersIn(s)
  BY DEF HasVoted
<1>11. /\ IsFiniteSet(VotersIn(s) \cup {a})
       /\ Cardinality(VotersIn(s) \cup {a}) = Cardinality(VotersIn(s)) + 1
  BY <1>10, FS_AddElement
<1> QED
  BY <1>3, <1>8, <1>9, <1>11 DEF r

\* What vote_add() writes into a session that is not done, not full and has no
\* vote of this agent.
LEMMA VoteKeepsSession ==
  ASSUME NEW s \in Session, NEW a \in Agents, NEW x \in Scores,
         IsFiniteSet(VotersIn(s)), Cardinality(VotersIn(s)) = Len(s.votes),
         ~HasVoted(s, a), ~VotersFull(s)
  PROVE  SessionOK(WithVote(s, a, x)) /\ WithVote(s, a, x).phash = s.phash
<1> DEFINE r == WithVote(s, a, x)
<1>1. Len(s.votes) \in Nat
  BY LenProperties DEF Session
<1>2. /\ r \in Session
      /\ r.phash = s.phash
      /\ Len(r.votes) = Len(s.votes) + 1
      /\ r.committed <=> Len(s.votes) + 1 >= Quorum
      /\ IsFiniteSet(VotersIn(r))
      /\ Cardinality(VotersIn(r)) = Len(s.votes) + 1
  BY VotersAfterVote, Zenon
<1> HIDE DEF r
<1>3. Len(r.votes) <= MaxVoters /\ Len(r.votes) >= 1
  BY <1>1, <1>2, CapacityAssumption DEF VotersFull
<1>4. r.committed <=> Len(r.votes) >= Quorum
  BY <1>2, Zenon
<1>5. Cardinality(VotersIn(r)) = Len(r.votes)
  BY <1>2, Zenon
<1> QED
  BY <1>2, <1>3, <1>4, <1>5, Zenon DEF SessionOK, r

LEMMA NewSessionFacts ==
  ASSUME NEW p \in Programs, now \in Nat
  PROVE  /\ NewSession(p) \in Session
         /\ NewSession(p).phash = p
         /\ VotersIn(NewSession(p)) = {}
         /\ NewSession(p).votes = <<>>
         /\ ~NewSession(p).committed
BY DEF NewSession, Session, VotersIn

----------------------------------------------------------------------------
(* The table *)

\* A vote into the session at index i of a table whose other sessions are sound.
LEMMA AddToKeepsTable ==
  ASSUME NEW t \in Seq(Session), Len(t) <= MaxSessions, Unique(t),
         NEW i \in 1 .. Len(t),
         \A j \in 1 .. Len(t) : j # i => SessionOK(t[j]),
         IsFiniteSet(VotersIn(t[i])),
         Cardinality(VotersIn(t[i])) = Len(t[i].votes),
         SessionOK(t[i]) \/ (t[i].votes = <<>> /\ ~t[i].committed),
         NEW a \in Agents, NEW x \in Scores, AddTo(t, i, a, x)
  PROVE  SessionsOK(sessions')
<1>0. DOMAIN t = 1 .. Len(t) /\ Len(t) \in Nat /\ t[i] \in Session
  BY LenProperties, ElementOfSeq
<1>1. CASE SessionOK(t[i]) /\ sessions' = t
  BY <1>0, <1>1 DEF SessionsOK
<1>2. CASE /\ ~HasVoted(t[i], a) /\ ~VotersFull(t[i])
           /\ sessions' = [t EXCEPT ![i] = WithVote(t[i], a, x)]
  <2> DEFINE r == WithVote(t[i], a, x)
             u == [t EXCEPT ![i] = r]
  <2>1. SessionOK(r) /\ r.phash = t[i].phash
    BY <1>0, <1>2, VoteKeepsSession
  <2>2. r \in Session
    BY <2>1 DEF SessionOK
  <2> HIDE DEF r
  <2>3. /\ u \in Seq(Session)
        /\ Len(u) = Len(t)
        /\ \A j \in 1 .. Len(t) : u[j] = IF j = i THEN r ELSE t[j]
        /\ DOMAIN u = 1 .. Len(t)
    BY <1>0, <2>2, ExceptSeq, LenProperties
  <2> HIDE DEF u
  <2>4. \A j \in DOMAIN u : SessionOK(u[j])
    BY <2>1, <2>3
  <2>5. Unique(u)
    <3>1. \A j \in 1 .. Len(t) : u[j].phash = t[j].phash
      BY <2>1, <2>3
    <3> QED
      BY <1>0, <2>3, <3>1 DEF Unique
  <2> QED
    BY <1>2, <2>3, <2>4, <2>5 DEF SessionsOK, u, r
<1>3. SessionOK(t[i]) \/ (~IsDone(t[i]) /\ ~HasVoted(t[i], a) /\ ~VotersFull(t[i]))
  <2>1. CASE t[i].votes = <<>> /\ ~t[i].committed
    <3>1. ~HasVoted(t[i], a)
      BY <2>1 DEF HasVoted, VotersIn
    <3>2. ~VotersFull(t[i])
      BY <2>1, CapacityAssumption DEF VotersFull
    <3> QED
      BY <2>1, <3>1, <3>2 DEF IsDone
  <2> QED
    BY <2>1
<1> QED
  BY <1>1, <1>2, <1>3 DEF AddTo

\* find_session() stops at a session of the program.
LEMMA FoundIsThere ==
  ASSUME sessions \in Seq(Session), NEW p, SessionsFor(p) # {}
  PROVE  /\ First(SessionsFor(p)) \in 1 .. Len(sessions)
         /\ sessions[First(SessionsFor(p))].phash = p
<1>1. DOMAIN sessions = 1 .. Len(sessions) /\ Len(sessions) \in Nat
  BY LenProperties
<1>2. SessionsFor(p) \in SUBSET Nat
  BY <1>1 DEF SessionsFor
<1>3. First(SessionsFor(p)) \in SessionsFor(p)
  BY <1>2, FirstIsMember
<1> QED
  BY <1>1, <1>3 DEF SessionsFor

LEMMA VoteAddKeepsTable ==
  ASSUME SessionsInv, NEW p \in Programs, NEW a \in Agents, NEW x \in Scores,
         VoteAdd(p, a, x)
  PROVE  SessionsOK(sessions')
<1>0. /\ sessions \in Seq(Session) /\ now \in Nat
      /\ DOMAIN sessions = 1 .. Len(sessions) /\ Len(sessions) \in Nat
      /\ Len(sessions) <= MaxSessions /\ Unique(sessions)
      /\ \A j \in 1 .. Len(sessions) : SessionOK(sessions[j])
  BY LenProperties DEF SessionsInv, TypeOK, SessionsOK
<1>1. CASE /\ SessionsFor(p) # {}
           /\ AddTo(sessions, First(SessionsFor(p)), a, x)
  <2>1. First(SessionsFor(p)) \in 1 .. Len(sessions)
    BY <1>0, <1>1, FoundIsThere
  <2>2. PICK i \in 1 .. Len(sessions) : i = First(SessionsFor(p))
    BY <2>1
  <2> DEFINE t == sessions
  <2>3. AddTo(t, i, a, x)
    BY <1>1, <2>2
  <2>4. SessionOK(t[i])
    BY <1>0
  <2>5. /\ IsFiniteSet(VotersIn(t[i]))
        /\ Cardinality(VotersIn(t[i])) = Len(t[i].votes)
    BY <2>4 DEF SessionOK
  <2>6. \A j \in 1 .. Len(t) : j # i => SessionOK(t[j])
    BY <1>0
  <2>7. /\ t \in Seq(Session) /\ Len(t) <= MaxSessions /\ Unique(t)
        /\ i \in 1 .. Len(t)
    BY <1>0
  <2>8. SessionOK(t[i]) \/ (t[i].votes = <<>> /\ ~t[i].committed)
    BY <2>4
  <2> HIDE DEF t
  <2> QED
    BY <2>3, <2>5, <2>6, <2>7, <2>8, AddToKeepsTable, Zenon
<1>2. CASE /\ SessionsFor(p) = {} /\ ~TableFull
           /\ AddTo(Append(sessions, NewSession(p)), Len(sessions) + 1, a, x)
  <2> DEFINE t == Append(sessions, NewSession(p))
             i == Len(sessions) + 1
  <2>1. /\ NewSession(p) \in Session
        /\ NewSession(p).phash = p
        /\ VotersIn(NewSession(p)) = {}
        /\ NewSession(p).votes = <<>>
        /\ ~NewSession(p).committed
    BY <1>0, NewSessionFacts
  <2>2. /\ t \in Seq(Session)
        /\ Len(t) = i
        /\ \A j \in 1 .. Len(sessions) : t[j] = sessions[j]
        /\ t[i] = NewSession(p)
        /\ DOMAIN t = 1 .. i
    BY <1>0, <2>1, AppendFacts
  <2>3. Len(t) <= MaxSessions /\ i \in 1 .. Len(t)
    BY <1>0, <1>2, <2>2, CapacityAssumption DEF TableFull
  <2>4. AddTo(t, i, a, x)
    BY <1>2
  <2> HIDE DEF t
  <2>5. Unique(t)
    <3>1. \A j \in 1 .. Len(sessions) : t[j].phash # p
      BY <1>0, <1>2, <2>2 DEF SessionsFor
    <3> QED
      BY <1>0, <2>1, <2>2, <3>1 DEF Unique
  <2>6. \A j \in 1 .. Len(t) : j # i => SessionOK(t[j])
    BY <1>0, <2>2
  <2>7. /\ IsFiniteSet(VotersIn(t[i]))
        /\ Cardinality(VotersIn(t[i])) = Len(t[i].votes)
    <3>1. VotersIn(t[i]) = {} /\ t[i].votes = <<>>
      BY <2>1, <2>2
    <3>2. Len(<<>>) = 0
      OBVIOUS
    <3> QED
      BY <3>1, <3>2, FS_EmptySet
  <2>8. t[i].votes = <<>> /\ ~t[i].committed
    BY <2>1, <2>2
  <2> HIDE DEF i
  <2> QED
    BY <2>2, <2>3, <2>4, <2>5, <2>6, <2>7, <2>8, AddToKeepsTable, Zenon
<1>3. CASE UNCHANGED sessions
  BY <1>3 DEF SessionsInv
<1> QED
  BY <1>1, <1>2, <1>3, Zenon DEF VoteAdd

LEMMA CompactedKeepsTable ==
  ASSUME NEW t, SessionsOK(t), NEW i \in 1 .. Len(t)
  PROVE  SessionsOK(Compacted(t, i))
<1> DEFINE u == Compacted(t, i)
<1>0. /\ t \in Seq(Session) /\ Len(t) \in Nat /\ Len(t) >= 1
      /\ DOMAIN t = 1 .. Len(t)
  BY LenProperties DEF SessionsOK
<1>1. /\ u \in Seq(Session)
      /\ Len(u) = Len(t) - 1
      /\ DOMAIN u = 1 .. Len(t) - 1
      /\ \A j \in 1 .. Len(t) - 1 : u[j] = IF j = i THEN t[Len(t)] ELSE t[j]
  BY <1>0, CompactedFacts
<1> HIDE DEF u
<1>2. \A j \in DOMAIN u : SessionOK(u[j])
  BY <1>0, <1>1 DEF SessionsOK
<1>3. Unique(u)
  BY <1>0, <1>1 DEF SessionsOK, Unique
<1>4. Len(u) <= MaxSessions
  BY <1>0, <1>1, CapacityAssumption DEF SessionsOK
<1> QED
  BY <1>1, <1>2, <1>3, <1>4 DEF SessionsOK, u

----------------------------------------------------------------------------
(* The invariant *)

LEMMA InitTable == Init => SessionsInv
<1> SUFFICES ASSUME Init PROVE SessionsInv
  OBVIOUS
<1>1. sessions = <<>> /\ Len(sessions) = 0 /\ DOMAIN sessions = {}
  BY DEF Init
<1>2. reply \in [code : {-2, -1, 0, 1}, about : SUBSET Programs,
                repeat : BOOLEAN]
  BY DEF Init, NoReply
<1>3. sessions \in Seq(Session)
  BY <1>1
<1>4. Len(sessions) <= MaxSessions
  BY <1>1, CapacityAssumption
<1>5. TypeOK
  BY <1>1, <1>2, <1>3, <1>4 DEF TypeOK, Init
<1>6. SessionsOK(sessions)
  BY <1>1, <1>3, <1>4 DEF SessionsOK, Unique
<1>7. ScannedAreYoung
  BY <1>1 DEF ScannedAreYoung
<1> QED
  BY <1>5, <1>6, <1>7 DEF SessionsInv

LEMMA VoteAddKeepsReply ==
  ASSUME SessionsInv, NEW p \in Programs, NEW a \in Agents, NEW x \in Scores,
         VoteAdd(p, a, x)
  PROVE  reply' \in [code : {-2, -1, 0, 1}, about : SUBSET Programs,
                     repeat : BOOLEAN]
<1>1. /\ sessions \in Seq(Session) /\ now \in Nat
      /\ DOMAIN sessions = 1 .. Len(sessions) /\ Len(sessions) \in Nat
  BY LenProperties DEF SessionsInv, TypeOK
<1>2. ASSUME NEW t, NEW i, t[i] \in Session, AddTo(t, i, a, x)
      PROVE  reply' \in [code : {-2, -1, 0, 1}, about : SUBSET Programs,
                         repeat : BOOLEAN]
  <2>1. t[i].phash \in Programs
    BY <1>2 DEF Session
  <2>2. HasVoted(t[i], a) \in BOOLEAN
    BY DEF HasVoted
  <2>3. \E code \in {-2, -1, 0, 1}, repeat \in BOOLEAN :
          Reply(code, t[i].phash, repeat)
    BY <1>2, <2>2 DEF AddTo
  <2> QED
    BY <2>1, <2>3 DEF Reply
<1>3. CASE /\ SessionsFor(p) # {}
           /\ AddTo(sessions, First(SessionsFor(p)), a, x)
  <2>3. First(SessionsFor(p)) \in 1 .. Len(sessions)
    BY <1>1, <1>3, FoundIsThere
  <2>4. sessions[First(SessionsFor(p))] \in Session
    BY <1>1, <2>3, ElementOfSeq
  <2> QED
    BY <1>2, <1>3, <2>4
<1>4. CASE AddTo(Append(sessions, NewSession(p)), Len(sessions) + 1, a, x)
  <2>1. NewSession(p) \in Session
    BY <1>1, NewSessionFacts
  <2>2. Append(sessions, NewSession(p))[Len(sessions) + 1] \in Session
    BY <1>1, <2>1, AppendFacts
  <2> QED
    BY <1>2, <1>4, <2>2
<1>5. CASE Reply(-2, p, FALSE)
  BY <1>5 DEF Reply
<1> QED
  BY <1>3, <1>4, <1>5 DEF VoteAdd

LEMMA StepKeepsTable == SessionsInv /\ [Next]_vars => SessionsInv'
<1> SUFFICES ASSUME SessionsInv, [Next]_vars PROVE SessionsInv'
  OBVIOUS
<1>0. /\ sessions \in Seq(Session) /\ now \in Nat /\ scan \in Nat
      /\ DOMAIN sessions = 1 .. Len(sessions) /\ Len(sessions) \in Nat
      /\ reply \in [code : {-2, -1, 0, 1}, about : SUBSET Programs,
                    repeat : BOOLEAN]
      /\ SessionsOK(sessions)
      /\ ScannedAreYoung
  BY LenProperties DEF SessionsInv, TypeOK
\* What is left to show of a step, once the table is known to stay sound.
<1>1. ASSUME SessionsOK(sessions'), now' \in Nat, scan' \in Nat,
             reply' \in [code : {-2, -1, 0, 1}, about : SUBSET Programs,
                         repeat : BOOLEAN],
             ScannedAreYoung'
      PROVE  SessionsInv'
  <2>1. TypeOK'
    BY <1>1 DEF TypeOK, SessionsOK, SessionOK
  <2> QED
    BY <1>1, <2>1 DEF SessionsInv
<1>2. NoReply \in [code : {-2, -1, 0, 1}, about : SUBSET Programs,
                  repeat : BOOLEAN]
  BY DEF NoReply
<1>3. ASSUME scan' = 0, SessionsOK(sessions') PROVE ScannedAreYoung'
  <2>1. DOMAIN sessions' = 1 .. Len(sessions')
    BY <1>3, LenProperties DEF SessionsOK
  <2> QED
    BY <1>3, <2>1 DEF ScannedAreYoung
<1>4. ASSUME NEW p \in Programs, NEW a \in Agents, NEW x \in Scores,
             VoteAdd(p, a, x)
      PROVE  SessionsInv'
  <2>1. SessionsOK(sessions')
    BY <1>4, VoteAddKeepsTable
  <2>2. now' = now /\ scan' = 0 /\ scan' \in Nat
    BY <1>4 DEF VoteAdd, Idle
  <2>3. reply' \in [code : {-2, -1, 0, 1}, about : SUBSET Programs,
                    repeat : BOOLEAN]
    BY <1>4, VoteAddKeepsReply
  <2> QED
    BY <1>0, <1>1, <1>3, <2>1, <2>2, <2>3
<1>5. CASE ExpireStart
  <2>1. /\ SessionsOK(sessions') /\ now' \in Nat /\ scan' \in Nat
        /\ reply' = NoReply /\ scan' = 1
    BY <1>0, <1>5 DEF ExpireStart
  <2>2. ScannedAreYoung'
    BY <1>0, <1>5, <2>1 DEF ScannedAreYoung, ExpireStart
  <2> QED
    BY <1>1, <1>2, <2>1, <2>2
<1>6. CASE ExpireSwap
  <2>1. scan \in 1 .. Len(sessions)
    BY <1>0, <1>6 DEF ExpireSwap, Idle
  <2>2. SessionsOK(sessions')
    BY <1>0, <1>6, <2>1, CompactedKeepsTable DEF ExpireSwap
  <2>3. /\ DOMAIN sessions' = 1 .. Len(sessions) - 1
        /\ \A j \in 1 .. Len(sessions) - 1 : j < scan => sessions'[j] = sessions[j]
    <3>1. sessions' = Compacted(sessions, scan)
      BY <1>6 DEF ExpireSwap
    <3>2. /\ DOMAIN Compacted(sessions, scan) = 1 .. Len(sessions) - 1
          /\ \A j \in 1 .. Len(sessions) - 1 :
               Compacted(sessions, scan)[j] =
                 IF j = scan THEN sessions[Len(sessions)] ELSE sessions[j]
      BY <1>0, <2>1, CompactedFacts
    <3>3. \A j \in 1 .. Len(sessions) - 1 :
            j < scan => Compacted(sessions, scan)[j] = sessions[j]
      BY <1>0, <3>2
    <3> QED
      BY <3>1, <3>2, <3>3
  <2>4. ScannedAreYoung'
    BY <1>0, <1>6, <2>1, <2>3 DEF ScannedAreYoung, ExpireSwap
  <2> QED
    BY <1>0, <1>1, <1>6, <2>2, <2>4 DEF ExpireSwap
<1>7. CASE ExpireKeep
  <2>1. scan \in 1 .. Len(sessions)
    BY <1>0, <1>7 DEF ExpireKeep, Idle
  <2>2. sessions[scan].first_vote \in Nat
    <3>1. sessions[scan] \in Session
      BY <1>0, <2>1, ElementOfSeq
    <3> QED
      BY <3>1 DEF Session
  <2>3. now - sessions[scan].first_vote <= MaxAge
    BY <1>0, <1>7, <2>2, MaxAgeAssumption DEF ExpireKeep, IsExpired
  <2>4. ScannedAreYoung'
    BY <1>0, <1>7, <2>3 DEF ScannedAreYoung, ExpireKeep
  <2> QED
    BY <1>0, <1>1, <1>7, <2>4 DEF ExpireKeep
<1>8. CASE ExpireEnd
  BY <1>0, <1>1, <1>3, <1>8 DEF ExpireEnd
<1>9. CASE Tick
  <2>1. /\ SessionsOK(sessions') /\ now' \in Nat /\ scan' = 0
        /\ reply' = NoReply
    BY <1>0, <1>9 DEF Tick, Idle
  <2> QED
    BY <1>1, <1>2, <1>3, <2>1
<1>10. CASE UNCHANGED vars
  <2>1. ScannedAreYoung'
    BY <1>0, <1>10 DEF ScannedAreYoung, vars
  <2> QED
    BY <1>0, <1>1, <1>10, <2>1 DEF vars
<1> QED
  BY <1>4, <1>5, <1>6, <1>7, <1>8, <1>9, <1>10 DEF Next, Expire

THEOREM SessionsInvariant == Spec => []SessionsInv
BY InitTable, StepKeepsTable, PTL DEF Spec

----------------------------------------------------------------------------
(* What follows from it *)

\* vote_add() and vote_expire() keep the table well typed and within
\* VOTE_MAX_SESSIONS and VOTE_MAX_VOTERS.
THEOREM SessionsTyped == Spec => []TypeOK
<1>1. SessionsInv => TypeOK
  BY DEF SessionsInv
<1> QED
  BY <1>1, SessionsInvariant, PTL

\* A program never has two sessions, however vote_expire() moves them.
THEOREM OneSessionPerProgram == Spec => []UniqueSessions
<1>1. SessionsInv => UniqueSessions
  BY DEF SessionsInv, SessionsOK, Unique, UniqueSessions
<1> QED
  BY <1>1, SessionsInvariant, PTL

\* vote_add() commits a session exactly when Quorum different agents have voted
\* in it.
THEOREM CommitsAtQuorum == Spec => []CommittedIffQuorum
<1>1. SessionsInv => CommittedIffQuorum
  <2> SUFFICES ASSUME SessionsInv, NEW i \in DOMAIN sessions
               PROVE  sessions[i].committed <=> HasQuorum(sessions[i])
    BY DEF CommittedIffQuorum
  <2> DEFINE s == sessions[i]
  <2>1. SessionOK(s)
    BY DEF SessionsInv, SessionsOK
  <2> HIDE DEF s
  <2>2. Cardinality(VotersIn(s)) = Len(s.votes)
    BY <2>1 DEF SessionOK
  <2>3. s.committed <=> Len(s.votes) >= Quorum
    BY <2>1, Zenon DEF SessionOK
  <2>4. s.committed <=> HasQuorum(s)
    BY <2>2, <2>3, Zenon DEF HasQuorum
  <2> QED
    BY <2>4 DEF s
<1> QED
  BY <1>1, SessionsInvariant, PTL

\* vote_expire() leaves no old session behind the index it has reached.
THEOREM ExpireMissesNone == Spec => []ScannedAreYoung
<1>1. SessionsInv => ScannedAreYoung
  BY DEF SessionsInv
<1> QED
  BY <1>1, SessionsInvariant, PTL

\* All of it together: the tally is sound whatever comes and expires.
THEOREM VotesAreSound == Spec => []VotesSound
BY SessionsTyped, OneSessionPerProgram, CommitsAtQuorum, ExpireMissesNone, PTL
   DEF VotesSound

\* vote_expire() ends, though its index stays put when a session is dropped:
\* every step of the loop leaves fewer sessions to look at.
THEOREM ExpireEnds == Spec => ExpireProgresses
<1>1. SessionsInv /\ [Next]_vars
      => (~Idle /\ ~Idle' => Left(sessions', scan') < Left(sessions, scan))
         \/ UNCHANGED vars
  <2> SUFFICES ASSUME SessionsInv, Next, ~Idle, ~Idle'
               PROVE  Left(sessions', scan') < Left(sessions, scan)
    OBVIOUS
  <2>1. sessions \in Seq(Session) /\ scan \in Nat /\ Len(sessions) \in Nat
    BY DEF SessionsInv, TypeOK
  <2>2. CASE ExpireSwap
    <3>1. scan \in 1 .. Len(sessions)
      BY <2>1, <2>2 DEF ExpireSwap, Idle
    <3>2. Len(sessions') = Len(sessions) - 1 /\ scan' = scan
      BY <2>1, <2>2, <3>1, CompactedFacts DEF ExpireSwap
    <3> QED
      BY <2>1, <3>2 DEF Left
  <2>3. CASE ExpireKeep
    BY <2>1, <2>3 DEF ExpireKeep, Left
  <2> QED
    BY <2>2, <2>3 DEF Next, Expire, ExpireStart, ExpireEnd, Tick, VoteAdd, Idle
<1> QED
  BY <1>1, SessionsInvariant, PTL DEF Spec, ExpireProgresses

----------------------------------------------------------------------------
(* The replies *)

\* vote_expire() runs after the reply to the last vote has been looked at.
RepliesInv == /\ SessionsInv
              /\ RepliesHold
              /\ ~Idle => reply = NoReply

\* What vote_add() answers about the session it has found or made.
LEMMA AddToReplies ==
  ASSUME NEW t \in Seq(Session), NEW i \in 1 .. Len(t),
         NEW a \in Agents, NEW x \in Scores, AddTo(t, i, a, x)
  PROVE  RepliesHold'
<1> DEFINE s == t[i]
<1>0. DOMAIN t = 1 .. Len(t) /\ s \in Session
  BY LenProperties, ElementOfSeq
<1>1. CASE IsDone(s) /\ sessions' = t /\ Reply(1, s.phash, HasVoted(s, a))
  <2>1. i \in DOMAIN sessions' /\ sessions'[i].committed
        /\ sessions'[i].phash = s.phash
    BY <1>0, <1>1 DEF IsDone
  <2> HIDE DEF s
  <2>2. reply'.about = {s.phash} /\ reply'.code = 1
    BY <1>1 DEF Reply
  <2> QED
    BY <2>1, <2>2 DEF RepliesHold, SessionsFor
<1>2. CASE \E code \in {-1, -2}, repeat \in BOOLEAN : Reply(code, s.phash, repeat)
  BY <1>2 DEF RepliesHold, Reply
<1>3. CASE /\ sessions' = [t EXCEPT ![i] = WithVote(s, a, x)]
           /\ Reply(IF ReachesQuorum(Voted(s, a, x)) THEN 1 ELSE 0, s.phash, FALSE)
  <2> DEFINE r == WithVote(s, a, x)
             q == ReachesQuorum(Voted(s, a, x))
  <2>1. r.committed = q /\ r.phash = s.phash
    BY <1>0 DEF WithVote, Voted, Session
  <2>2. i \in DOMAIN sessions' /\ sessions'[i] = r
    BY <1>0, <1>3
  <2>3. /\ reply'.about = {s.phash}
        /\ reply'.code = IF q THEN 1 ELSE 0
        /\ reply'.repeat = FALSE
    BY <1>3 DEF Reply
  <2> HIDE DEF s, r, q
  <2>4. reply'.code = 1 => q
    BY <2>3
  <2> QED
    BY <2>1, <2>2, <2>3, <2>4 DEF RepliesHold, SessionsFor
<1> QED
  BY <1>1, <1>2, <1>3 DEF AddTo, HasVoted

\* The caller of vote_add() is never told of a commit that is not there, nor
\* that a second vote was counted (the return codes of vote_add()).
THEOREM RepliesAreTrue == Spec => []RepliesHold
<1>1. Init => RepliesInv
  BY InitTable DEF Init, RepliesInv, RepliesHold, NoReply, Idle
<1>2. RepliesInv /\ [Next]_vars => RepliesInv'
  <2> SUFFICES ASSUME RepliesInv, [Next]_vars
               PROVE  RepliesHold' /\ (~Idle' => reply' = NoReply)
    BY StepKeepsTable DEF RepliesInv
  <2>0. /\ sessions \in Seq(Session) /\ now \in Nat
        /\ DOMAIN sessions = 1 .. Len(sessions) /\ Len(sessions) \in Nat
    BY LenProperties DEF RepliesInv, SessionsInv, TypeOK
  <2>1. ASSUME NEW p \in Programs, NEW a \in Agents, NEW x \in Scores,
               VoteAdd(p, a, x)
        PROVE  RepliesHold' /\ Idle'
    <3>1. Idle'
      BY <2>1 DEF VoteAdd, Idle
    <3>2. CASE /\ SessionsFor(p) # {}
               /\ AddTo(sessions, First(SessionsFor(p)), a, x)
      <4>1. First(SessionsFor(p)) \in 1 .. Len(sessions)
        BY <2>0, <3>2, FoundIsThere
      <4> QED
        BY <2>0, <3>1, <3>2, <4>1, AddToReplies
    <3>3. CASE AddTo(Append(sessions, NewSession(p)), Len(sessions) + 1, a, x)
      <4>1. NewSession(p) \in Session
        BY <2>0, NewSessionFacts
      <4>2. /\ Append(sessions, NewSession(p)) \in Seq(Session)
            /\ Len(sessions) + 1 \in 1 .. Len(Append(sessions, NewSession(p)))
        BY <2>0, <4>1, AppendFacts
      <4> QED
        BY <3>1, <3>3, <4>2, AddToReplies
    <3>4. CASE Reply(-2, p, FALSE)
      BY <3>1, <3>4 DEF Reply, RepliesHold
    <3> QED
      BY <2>1, <3>2, <3>3, <3>4 DEF VoteAdd
  <2>2. CASE reply' = NoReply
    BY <2>2 DEF RepliesHold, NoReply
  <2>3. CASE ExpireSwap \/ ExpireKeep \/ ExpireEnd
    BY <2>2, <2>3 DEF ExpireSwap, ExpireKeep, ExpireEnd, RepliesInv
  <2>4. CASE UNCHANGED vars
    BY <2>4 DEF vars, RepliesInv, RepliesHold, SessionsFor, Idle
  <2> QED
    BY <2>1, <2>2, <2>3, <2>4 DEF Next, Expire, ExpireStart, Tick
<1>3. RepliesInv => RepliesHold
  BY DEF RepliesInv
<1> QED
  BY <1>1, <1>2, <1>3, PTL DEF Spec

----------------------------------------------------------------------------
(* The array implements the ballots *)

\* Tally counts with a Cardinality of its own, which is the same one.
LEMMA SameCardinality ==
  ASSUME NEW S PROVE Ballot!Cardinality(S) = Cardinality(S)
BY DEF Ballot!Cardinality, Cardinality

\* What Box is of any array of sessions.
BoxOf(t) ==
  [p \in Programs |->
    IF \A i \in DOMAIN t : t[i].phash # p
    THEN [votes |-> <<>>, decided |-> FALSE, opened |-> 0]
    ELSE BallotOf(t[First({i \in DOMAIN t : t[i].phash = p})])]

\* What a session is before its first vote and after it.
CountsVoters(s) == /\ s \in Session
                   /\ IsFiniteSet(VotersIn(s))
                   /\ Cardinality(VotersIn(s)) = Len(s.votes)

LEMMA BoxIsOfSessions == Box = BoxOf(sessions)
<1>1. ASSUME NEW p \in Programs
      PROVE  (SessionsFor(p) = {}) <=> \A i \in DOMAIN sessions : sessions[i].phash # p
  BY DEF SessionsFor
<1> QED
  BY <1>1 DEF Box, BoxOf, SessionsFor

LEMMA BoxIsNext == Box' = BoxOf(sessions')
<1>1. ASSUME NEW p \in Programs
      PROVE  (SessionsFor(p)' = {})
               <=> \A i \in DOMAIN sessions' : sessions'[i].phash # p
  BY DEF SessionsFor
<1> QED
  BY <1>1 DEF Box, BoxOf, SessionsFor

\* With one session per program, the box has the ballot of each session and is
\* closed for every other program.
LEMMA BoxFacts ==
  ASSUME NEW t \in Seq(Session), Unique(t)
  PROVE  /\ \A i \in DOMAIN t : BoxOf(t)[t[i].phash] = BallotOf(t[i])
         /\ \A p \in Programs :
              (\A i \in DOMAIN t : t[i].phash # p)
              => BoxOf(t)[p] = [votes |-> <<>>, decided |-> FALSE, opened |-> 0]
<1>1. DOMAIN t = 1 .. Len(t) /\ Len(t) \in Nat
  BY LenProperties
<1>2. ASSUME NEW i \in DOMAIN t PROVE BoxOf(t)[t[i].phash] = BallotOf(t[i])
  <2> DEFINE S == {j \in DOMAIN t : t[j].phash = t[i].phash}
  <2>1. t[i] \in Session /\ t[i].phash \in Programs
    <3>1. t[i] \in Session
      BY <1>1, ElementOfSeq
    <3> QED
      BY <3>1 DEF Session
  <2>2. S \in SUBSET Nat /\ S # {}
    BY <1>1
  <2>3. First(S) \in S
    BY <2>2, FirstIsMember
  <2>4. First(S) = i
    BY <2>3 DEF Unique
  <2> QED
    BY <2>1, <2>4 DEF BoxOf
<1> QED
  BY <1>2 DEF BoxOf

\* A voter has one vote, as there are as many voters as votes.
LEMMA VoterHasOneVote ==
  ASSUME NEW s, CountsVoters(s), NEW j \in DOMAIN s.votes, NEW k \in DOMAIN s.votes,
         s.votes[j].voter = s.votes[k].voter
  PROVE  j = k
<1> DEFINE n == Len(s.votes)
           f == [i \in 1 .. n |-> s.votes[i].voter]
<1>1. DOMAIN s.votes = 1 .. n /\ n \in Nat
  BY LenProperties DEF CountsVoters, Session
<1>2. IsFiniteSet(1 .. n) /\ Cardinality(1 .. n) = n
  BY <1>1, FS_Interval
<1>3. f \in Surjection(1 .. n, VotersIn(s))
  BY <1>1 DEF Surjection, VotersIn
<1>4. f \in Injection(1 .. n, VotersIn(s))
  BY <1>2, <1>3, FS_SurjSameCardinalityImpliesInj DEF CountsVoters
<1>5. f[j] = f[k] /\ j \in 1 .. n /\ k \in 1 .. n
  BY <1>1
<1> HIDE DEF n, f
<1> QED
  BY <1>4, <1>5 DEF Injection, IsInjective

LEMMA BallotScores ==
  ASSUME NEW s, CountsVoters(s)
  PROVE  /\ DOMAIN BallotOf(s).votes = VotersIn(s)
         /\ \A k \in DOMAIN s.votes :
              BallotOf(s).votes[s.votes[k].voter] = s.votes[k].score
<1>1. ASSUME NEW k \in DOMAIN s.votes
      PROVE  BallotOf(s).votes[s.votes[k].voter] = s.votes[k].score
  <2> DEFINE a == s.votes[k].voter
             j == CHOOSE i \in DOMAIN s.votes : s.votes[i].voter = a
  <2>1. j \in DOMAIN s.votes /\ s.votes[j].voter = a
    OBVIOUS
  <2>2. j = k
    BY <2>1, VoterHasOneVote
  <2>3. a \in VotersIn(s)
    BY DEF VotersIn
  <2>4. BallotOf(s).votes[a] = s.votes[j].score
    BY <2>3 DEF BallotOf
  <2> QED
    BY <2>2, <2>4
<1> QED
  BY <1>1 DEF BallotOf

\* What a vote makes of a ballot.
WithBallot(b, a, x, opened) ==
  LET voters == DOMAIN b.votes \cup {a}
  IN  [votes   |-> [c \in voters |-> IF c = a THEN x ELSE b.votes[c]],
       decided |-> Cardinality(voters) >= Quorum,
       opened  |-> opened]

LEMMA VoteInBallot ==
  ASSUME NEW s, CountsVoters(s), NEW a \in Agents, NEW x \in Scores,
         ~HasVoted(s, a)
  PROVE  /\ CountsVoters(WithVote(s, a, x))
         /\ BallotOf(WithVote(s, a, x))
              = WithBallot(BallotOf(s), a, x, s.first_vote)
<1> DEFINE r == WithVote(s, a, x)
           v == [voter |-> a, score |-> x]
           voters == VotersIn(s) \cup {a}
<1>1. /\ s \in Session /\ s.votes \in Seq(Vote) /\ v \in Vote
      /\ IsFiniteSet(VotersIn(s)) /\ Cardinality(VotersIn(s)) = Len(s.votes)
  BY DEF CountsVoters, Session, Vote
<1>2. /\ r \in Session
      /\ Len(r.votes) = Len(s.votes) + 1
      /\ IsFiniteSet(VotersIn(r))
      /\ Cardinality(VotersIn(r)) = Len(s.votes) + 1
  BY <1>1, VotersAfterVote, Zenon
<1>3. CountsVoters(r)
  BY <1>2 DEF CountsVoters
<1>4. /\ r.votes = Append(s.votes, v)
      /\ r.committed = ReachesQuorum(Voted(s, a, x))
      /\ r.first_vote = s.first_vote
      /\ Voted(s, a, x).votes = Append(s.votes, v)
  BY <1>1 DEF WithVote, Voted, Session
<1> HIDE DEF r
<1>5. /\ DOMAIN r.votes = 1 .. Len(s.votes) + 1
      /\ \A k \in 1 .. Len(s.votes) : r.votes[k] = s.votes[k]
      /\ r.votes[Len(s.votes) + 1] = v
      /\ DOMAIN s.votes = 1 .. Len(s.votes) /\ Len(s.votes) \in Nat
  BY <1>1, <1>4, AppendFacts
<1>6. v.voter = a /\ v.score = x
  OBVIOUS
<1> HIDE DEF v
<1>7. VotersIn(r) = voters
  BY <1>5, <1>6 DEF VotersIn
<1>8. DOMAIN BallotOf(s).votes = VotersIn(s)
  BY BallotScores
<1>9. ASSUME NEW c \in voters
      PROVE  BallotOf(r).votes[c] = IF c = a THEN x ELSE BallotOf(s).votes[c]
  <2>1. CASE c = a
    BY <1>3, <1>5, <1>6, <2>1, BallotScores
  <2>2. CASE c # a
    <3>1. PICK k \in DOMAIN s.votes : s.votes[k].voter = c
      BY <1>9, <2>2 DEF VotersIn
    <3>2. k \in DOMAIN r.votes /\ r.votes[k] = s.votes[k]
      BY <1>5
    <3>3. BallotOf(r).votes[c] = s.votes[k].score
      BY <1>3, <3>1, <3>2, BallotScores
    <3>4. BallotOf(s).votes[c] = s.votes[k].score
      BY <3>1, BallotScores
    <3> QED
      BY <2>2, <3>3, <3>4
  <2> QED
    BY <2>1, <2>2
<1>10. BallotOf(r).votes = [c \in voters |-> IF c = a THEN x ELSE BallotOf(s).votes[c]]
  <2>1. /\ DOMAIN BallotOf(r).votes = voters
        /\ BallotOf(r).votes = [c \in voters |-> BallotOf(r).votes[c]]
    BY <1>7 DEF BallotOf
  <2> QED
    BY <1>9, <2>1, Zenon
<1>11. r.committed = (Cardinality(voters) >= Quorum)
  BY <1>2, <1>4, <1>5, <1>7 DEF ReachesQuorum
<1>12. BallotOf(r) = [votes |-> BallotOf(r).votes, decided |-> r.committed,
                      opened |-> r.first_vote]
  BY DEF BallotOf
<1> QED
  BY <1>3, <1>4, <1>8, <1>10, <1>11, <1>12, Zenon DEF WithBallot, r

\* Rewriting the session of one program leaves the ballots of the others.
LEMMA RewriteInBox ==
  ASSUME NEW t \in Seq(Session), Unique(t), NEW i \in 1 .. Len(t),
         NEW r \in Session, r.phash = t[i].phash
  PROVE  BoxOf([t EXCEPT ![i] = r])
           = [BoxOf(t) EXCEPT ![r.phash] = BallotOf(r)]
<1> DEFINE u == [t EXCEPT ![i] = r]
<1>1. /\ u \in Seq(Session)
      /\ DOMAIN u = 1 .. Len(t) /\ DOMAIN t = 1 .. Len(t)
      /\ \A j \in 1 .. Len(t) : u[j] = IF j = i THEN r ELSE t[j]
  BY ExceptSeq, LenProperties
<1> HIDE DEF u
<1>2. \A j \in 1 .. Len(t) : u[j].phash = t[j].phash
  BY <1>1
<1>3. Unique(u)
  BY <1>1, <1>2 DEF Unique
<1>4. ASSUME NEW p \in Programs
      PROVE  BoxOf(u)[p] = IF p = r.phash THEN BallotOf(r) ELSE BoxOf(t)[p]
  <2>1. CASE \E j \in 1 .. Len(t) : t[j].phash = p
    <3>1. PICK j \in 1 .. Len(t) : t[j].phash = p
      BY <2>1
    <3>2. BoxOf(u)[p] = BallotOf(u[j]) /\ BoxOf(t)[p] = BallotOf(t[j])
      BY <1>1, <1>2, <1>3, <3>1, BoxFacts
    <3>3. (p = r.phash) <=> (j = i)
      BY <1>1, <3>1 DEF Unique
    <3> QED
      BY <1>1, <3>2, <3>3
  <2>2. CASE \A j \in 1 .. Len(t) : t[j].phash # p
    BY <1>1, <1>2, <1>3, <2>2, BoxFacts
  <2> QED
    BY <2>1, <2>2
<1> QED
  BY <1>4 DEF BoxOf, u

\* With a free slot fewer programs are open than there may be sessions.
LEMMA OpenAreFew ==
  ASSUME NEW t, SessionsOK(t), Len(t) < MaxSessions
  PROVE  Cardinality(Ballot!OpenIn(BoxOf(t))) < MaxSessions
<1> DEFINE n == Len(t)
           S == {t[i].phash : i \in 1 .. n}
           f == [i \in 1 .. n |-> t[i].phash]
<1>1. t \in Seq(Session) /\ Unique(t) /\ DOMAIN t = 1 .. n /\ n \in Nat
  BY LenProperties DEF SessionsOK
<1>2. IsFiniteSet(1 .. n) /\ Cardinality(1 .. n) = n
  BY <1>1, FS_Interval
<1>3. f \in Surjection(1 .. n, S)
  BY DEF Surjection
<1>4. IsFiniteSet(S) /\ Cardinality(S) <= n
  BY <1>2, <1>3, FS_Surjection
<1>5. Ballot!OpenIn(BoxOf(t)) \in SUBSET S
  <2> SUFFICES ASSUME NEW p \in Programs, p \notin S
               PROVE  ~Ballot!IsOpen(BoxOf(t)[p])
    BY DEF Ballot!OpenIn
  <2>1. BoxOf(t)[p] = [votes |-> <<>>, decided |-> FALSE, opened |-> 0]
    BY <1>1, BoxFacts
  <2> QED
    BY <2>1 DEF Ballot!IsOpen, Ballot!Voters
<1>6. /\ Cardinality(Ballot!OpenIn(BoxOf(t))) <= Cardinality(S)
      /\ IsFiniteSet(Ballot!OpenIn(BoxOf(t)))
  BY <1>4, <1>5, FS_Subset
<1>7. Cardinality(Ballot!OpenIn(BoxOf(t))) \in Nat /\ Cardinality(S) \in Nat
  BY <1>4, <1>6, FS_CardinalityType
<1> QED
  BY <1>1, <1>4, <1>6, <1>7, CapacityAssumption

\* A vote into a session that is there is cast in its program's ballot.
LEMMA VoteIsCast ==
  ASSUME SessionsInv, NEW i \in 1 .. Len(sessions), NEW a \in Agents, NEW x \in Scores,
         AddTo(sessions, i, a, x), now' = now, sessions' # sessions
  PROVE  Ballot!Cast(sessions[i].phash, a, x)
<1> DEFINE s == sessions[i]
           p == s.phash
           r == WithVote(s, a, x)
<1>0. /\ sessions \in Seq(Session) /\ Unique(sessions)
      /\ DOMAIN sessions = 1 .. Len(sessions) /\ SessionOK(s)
  BY LenProperties DEF SessionsInv, SessionsOK
<1>1. /\ ~IsDone(s) /\ ~HasVoted(s, a) /\ ~VotersFull(s)
      /\ sessions' = [sessions EXCEPT ![i] = r]
  BY DEF AddTo
<1>2. BoxOf(sessions)[p] = BallotOf(s)
  BY <1>0, BoxFacts
<1> HIDE DEF s
<1>3. CountsVoters(s) /\ p \in Programs
  BY <1>0 DEF SessionOK, CountsVoters, Session
<1>4. CountsVoters(r) /\ BallotOf(r) = WithBallot(BallotOf(s), a, x, s.first_vote)
  BY <1>1, <1>3, VoteInBallot
<1>5. SessionOK(r) /\ r.phash = p
  BY <1>1, <1>3, VoteKeepsSession DEF CountsVoters
<1> HIDE DEF r
<1>6. BoxOf(sessions') = [BoxOf(sessions) EXCEPT ![p] = BallotOf(r)]
  <2>1. r \in Session /\ r.phash = sessions[i].phash
    BY <1>5 DEF SessionOK, s
  <2>2. BoxOf([sessions EXCEPT ![i] = r])
          = [BoxOf(sessions) EXCEPT ![r.phash] = BallotOf(r)]
    BY <1>0, <2>1, RewriteInBox
  <2> QED
    BY <1>1, <1>5, <2>2
<1>7. /\ DOMAIN BallotOf(s).votes = VotersIn(s)
      /\ BallotOf(s).decided = s.committed
      /\ BallotOf(s).opened = s.first_vote
  BY DEF BallotOf
<1>8. /\ VotersIn(s) # {}
      /\ Cardinality(VotersIn(s)) < MaxVoters
  <2>1. Len(s.votes) \in Nat /\ Len(s.votes) >= 1 /\ Len(s.votes) < MaxVoters
    <3>1. s.votes \in Seq(Vote) /\ Len(s.votes) >= 1
      BY <1>0 DEF SessionOK, Session
    <3>2. Len(s.votes) \in Nat
      BY <3>1, LenProperties
    <3> QED
      BY <1>1, <3>1, <3>2, CapacityAssumption DEF VotersFull
  <2>2. Cardinality(VotersIn(s)) = Len(s.votes)
    BY <1>3 DEF CountsVoters
  <2>3. VotersIn(s) # {}
    <3>1. \A S : S = {} => Cardinality(S) = 0
      BY FS_EmptySet
    <3>2. Cardinality(VotersIn(s)) # 0
      BY <2>1, <2>2
    <3> QED
      BY <3>1, <3>2, Zenon
  <2> QED
    BY <2>1, <2>2, <2>3
<1>9. Ballot!Counts(BoxOf(sessions), p, a)
  BY <1>1, <1>2, <1>7, <1>8, SameCardinality
     DEF Ballot!Counts, Ballot!Voters, Ballot!HasRoom, Ballot!IsOpen, IsDone, HasVoted
<1>10. BoxOf(sessions') = Ballot!Counted(BoxOf(sessions), p, a, x, now)
  BY <1>2, <1>4, <1>6, <1>7, <1>8, SameCardinality
     DEF Ballot!Counted, Ballot!Voters, Ballot!IsOpen, WithBallot
<1>11. Box = BoxOf(sessions) /\ Box' = BoxOf(sessions')
  BY BoxIsOfSessions, BoxIsNext
<1> QED
  BY <1>9, <1>10, <1>11 DEF Ballot!Cast, s

\* And so is one that opens a session.
LEMMA FirstVoteIsCast ==
  ASSUME SessionsInv, NEW p \in Programs, NEW a \in Agents, NEW x \in Scores,
         SessionsFor(p) = {}, ~TableFull, now' = now,
         AddTo(Append(sessions, NewSession(p)), Len(sessions) + 1, a, x)
  PROVE  Ballot!Cast(p, a, x)
<1> DEFINE n == Len(sessions) + 1
           s == NewSession(p)
           t == Append(sessions, s)
           r == WithVote(s, a, x)
<1>0. /\ sessions \in Seq(Session) /\ Unique(sessions) /\ SessionsOK(sessions)
      /\ DOMAIN sessions = 1 .. Len(sessions) /\ Len(sessions) \in Nat
      /\ now \in Nat
  BY LenProperties DEF SessionsInv, SessionsOK, TypeOK
<1>1. /\ s \in Session /\ s.phash = p /\ VotersIn(s) = {} /\ s.votes = <<>>
      /\ ~s.committed /\ s.first_vote = now
  BY <1>0, NewSessionFacts DEF NewSession
<1>2. /\ t \in Seq(Session) /\ Len(t) = n /\ t[n] = s /\ DOMAIN t = 1 .. n
      /\ \A j \in 1 .. Len(sessions) : t[j] = sessions[j]
      /\ n \in 1 .. n
  BY <1>0, <1>1, AppendFacts
<1>3. \A j \in DOMAIN sessions : sessions[j].phash # p
  BY DEF SessionsFor
<1>4. sessions' = [t EXCEPT ![n] = r] /\ ~HasVoted(s, a)
  <2>1. Len(<<>>) = 0
    OBVIOUS
  <2>2. ~IsDone(s) /\ ~HasVoted(s, a) /\ ~VotersFull(s)
    BY <1>1, <2>1, CapacityAssumption DEF IsDone, HasVoted, VotersFull
  <2> QED
    BY <1>2, <2>2 DEF AddTo
<1> HIDE DEF s, t
<1>5. Unique(t)
  <2>1. \A j \in 1 .. Len(sessions) : t[j].phash # p
    BY <1>0, <1>2, <1>3
  <2> QED
    BY <1>0, <1>1, <1>2, <2>1 DEF Unique
<1>6. CountsVoters(s)
  BY <1>1, FS_EmptySet DEF CountsVoters
<1>7. CountsVoters(r) /\ BallotOf(r) = WithBallot(BallotOf(s), a, x, now)
  BY <1>1, <1>4, <1>6, VoteInBallot
<1>8. r \in Session /\ r.phash = p
  BY <1>1, <1>4, <1>6, VotersAfterVote DEF CountsVoters
<1> HIDE DEF r
<1>9. BoxOf(sessions') = [BoxOf(t) EXCEPT ![p] = BallotOf(r)]
  <2>1. n \in 1 .. Len(t) /\ r.phash = t[n].phash
    BY <1>1, <1>2, <1>8
  <2>2. BoxOf([t EXCEPT ![n] = r]) = [BoxOf(t) EXCEPT ![r.phash] = BallotOf(r)]
    BY <1>2, <1>5, <1>8, <2>1, RewriteInBox
  <2> QED
    BY <1>4, <1>8, <2>2
<1>10. \A q \in Programs \ {p} : BoxOf(t)[q] = BoxOf(sessions)[q]
  <2> SUFFICES ASSUME NEW q \in Programs \ {p}
               PROVE  BoxOf(t)[q] = BoxOf(sessions)[q]
    OBVIOUS
  <2>1. CASE \E j \in 1 .. Len(sessions) : sessions[j].phash = q
    <3>1. PICK j \in 1 .. Len(sessions) : sessions[j].phash = q
      BY <2>1
    <3>2. j \in DOMAIN t /\ t[j] = sessions[j]
      BY <1>0, <1>2
    <3> QED
      BY <1>0, <1>2, <1>5, <3>1, <3>2, BoxFacts
  <2>2. CASE \A j \in 1 .. Len(sessions) : sessions[j].phash # q
    <3>1. \A j \in DOMAIN t : t[j].phash # q
      BY <1>0, <1>1, <1>2, <2>2
    <3> QED
      BY <1>0, <1>2, <1>5, <2>2, <3>1, BoxFacts
  <2> QED
    BY <2>1, <2>2
<1>11. BoxOf(sessions') = [BoxOf(sessions) EXCEPT ![p] = BallotOf(r)]
  BY <1>9, <1>10 DEF BoxOf
<1>12. BoxOf(sessions)[p] = [votes |-> <<>>, decided |-> FALSE, opened |-> 0]
  BY <1>0, <1>3, BoxFacts
<1>13. DOMAIN BallotOf(s).votes = {}
  BY <1>1, <1>6, BallotScores
<1>14. Cardinality(Ballot!OpenIn(BoxOf(sessions))) < MaxSessions
  BY <1>0, OpenAreFew, CapacityAssumption DEF TableFull
<1>15. Ballot!Counts(BoxOf(sessions), p, a)
  BY <1>12, <1>14, FS_EmptySet, CapacityAssumption, SameCardinality
     DEF Ballot!Counts, Ballot!Voters, Ballot!HasRoom, Ballot!IsOpen
<1>16. BoxOf(sessions') = Ballot!Counted(BoxOf(sessions), p, a, x, now)
  <2> DEFINE b == BoxOf(sessions)[p]
  <2>1. DOMAIN b.votes = {}
    BY <1>12
  <2>2. BallotOf(r)
          = [votes   |-> [c \in {a} |-> x],
             decided |-> Cardinality({a}) >= Quorum,
             opened  |-> now]
    <3>1. [c \in {a} |-> IF c = a THEN x ELSE BallotOf(s).votes[c]]
            = [c \in {a} |-> x]
      OBVIOUS
    <3>2. DOMAIN BallotOf(s).votes \cup {a} = {a}
      BY <1>13
    <3> QED
      BY <1>7, <3>1, <3>2, Zenon DEF WithBallot
  <2>3. [c \in {a} |-> IF c = a THEN x ELSE b.votes[c]] = [c \in {a} |-> x]
    OBVIOUS
  <2>4. DOMAIN b.votes \cup {a} = {a}
    BY <2>1
  <2> HIDE DEF b
  <2>5. Ballot!Counted(BoxOf(sessions), p, a, x, now)
          = [BoxOf(sessions) EXCEPT ![p] =
              [votes   |-> [c \in {a} |-> IF c = a THEN x ELSE b.votes[c]],
               decided |-> Cardinality({a}) >= Quorum,
               opened  |-> now]]
    BY <2>1, <2>4, SameCardinality
       DEF Ballot!Counted, Ballot!Voters, Ballot!IsOpen, b
  <2> QED
    BY <1>11, <2>2, <2>3, <2>5, Zenon
<1>17. Box = BoxOf(sessions) /\ Box' = BoxOf(sessions')
  BY BoxIsOfSessions, BoxIsNext
<1> QED
  BY <1>15, <1>16, <1>17 DEF Ballot!Cast

\* Dropping a session closes the ballot of its program and leaves the others.
LEMMA CompactedBox ==
  ASSUME NEW t, SessionsOK(t), NEW i \in 1 .. Len(t)
  PROVE  BoxOf(Compacted(t, i)) = [BoxOf(t) EXCEPT ![t[i].phash] = Ballot!Closed]
<1> DEFINE u == Compacted(t, i)
           p == t[i].phash
           n == Len(t)
           closed == [votes |-> <<>>, decided |-> FALSE, opened |-> 0]
<1>1. /\ t \in Seq(Session) /\ Unique(t) /\ n \in Nat /\ DOMAIN t = 1 .. n
  BY LenProperties DEF SessionsOK
<1>2. /\ DOMAIN u = 1 .. n - 1
      /\ \A j \in 1 .. n - 1 : u[j] = IF j = i THEN t[n] ELSE t[j]
  BY <1>1, CompactedFacts
<1>3. u \in Seq(Session) /\ Unique(u)
  BY CompactedKeepsTable DEF SessionsOK
<1> HIDE DEF u
<1>4. ASSUME NEW q \in Programs
      PROVE  BoxOf(u)[q] = IF q = p THEN closed ELSE BoxOf(t)[q]
  <2>1. CASE q = p
    <3>1. \A j \in DOMAIN u : u[j].phash # p
      BY <1>1, <1>2 DEF Unique
    <3> QED
      BY <1>3, <2>1, <3>1, BoxFacts
  <2>2. CASE q # p /\ \E j \in 1 .. n : t[j].phash = q
    <3>1. PICK j \in 1 .. n : t[j].phash = q
      BY <2>2
    <3>2. PICK k \in DOMAIN u : u[k] = t[j]
      <4>0. n \in Nat /\ i \in 1 .. n /\ j \in 1 .. n
        BY <1>1
      <4>1. j # i
        BY <2>2, <3>1
      <4> HIDE DEF n
      <4>2. CASE j = n
        <5>1. i \in 1 .. n - 1
          BY <4>0, <4>1, <4>2
        <5> QED
          BY <1>2, <4>2, <5>1
      <4>3. CASE j # n
        <5>1. j \in 1 .. n - 1
          BY <4>0, <4>3
        <5> QED
          BY <1>2, <4>1, <5>1
      <4> QED
        BY <4>2, <4>3
    <3>3. BoxOf(u)[q] = BallotOf(t[j])
      BY <1>3, <3>1, <3>2, BoxFacts
    <3>4. BoxOf(t)[q] = BallotOf(t[j])
      BY <1>1, <3>1, BoxFacts
    <3> QED
      BY <2>2, <3>3, <3>4
  <2>3. CASE \A j \in 1 .. n : t[j].phash # q
    <3>1. \A j \in DOMAIN u : u[j].phash # q
      BY <1>1, <1>2, <2>3
    <3>2. BoxOf(u)[q] = closed
      BY <1>3, <3>1, BoxFacts
    <3>3. BoxOf(t)[q] = closed
      BY <1>1, <2>3, BoxFacts
    <3> QED
      BY <3>2, <3>3
  <2> QED
    BY <2>1, <2>2, <2>3
<1> QED
  BY <1>4 DEF BoxOf, Ballot!Closed, u

\* The session that vote_expire() drops is the forgetting of an old ballot.
LEMMA SwapForgets ==
  ASSUME SessionsInv, ExpireSwap
  PROVE  \E p \in Programs : Ballot!Forget(p)
<1> DEFINE s == sessions[scan]
           p == s.phash
<1>1. /\ sessions \in Seq(Session) /\ Unique(sessions) /\ SessionsOK(sessions)
      /\ DOMAIN sessions = 1 .. Len(sessions) /\ scan \in 1 .. Len(sessions)
  BY LenProperties DEF SessionsInv, TypeOK, SessionsOK, ExpireSwap, Idle
<1>2. SessionOK(s) /\ p \in Programs
  BY <1>1 DEF SessionsOK, SessionOK, Session
<1>3. BoxOf(sessions)[p] = BallotOf(s)
  BY <1>1, BoxFacts
<1>4. BoxOf(sessions') = [BoxOf(sessions) EXCEPT ![p] = Ballot!Closed]
  BY <1>1, CompactedBox DEF ExpireSwap
<1>5. IsExpired(s) /\ now' = now
  BY DEF ExpireSwap
<1> HIDE DEF s
<1>6. DOMAIN s.votes = 1 .. Len(s.votes) /\ 1 \in DOMAIN s.votes
  <2>1. s.votes \in Seq(Vote) /\ Len(s.votes) >= 1
    BY <1>2 DEF SessionOK, Session
  <2>2. DOMAIN s.votes = 1 .. Len(s.votes) /\ Len(s.votes) \in Nat
    BY <2>1, LenProperties
  <2> QED
    BY <2>1, <2>2
<1>7. DOMAIN BallotOf(s).votes # {} /\ BallotOf(s).opened = s.first_vote
  BY <1>6 DEF BallotOf, VotersIn
<1>8. Ballot!IsOld(BoxOf(sessions)[p], now)
  BY <1>3, <1>5, <1>7
     DEF Ballot!IsOld, Ballot!IsOpen, Ballot!Voters, IsExpired
<1>9. Ballot!Forget(p)
  BY <1>4, <1>5, <1>8, BoxIsOfSessions, BoxIsNext DEF Ballot!Forget
<1> QED
  BY <1>2, <1>9

LEMMA VoteAddRefines ==
  ASSUME SessionsInv, NEW p \in Programs, NEW a \in Agents, NEW x \in Scores,
         VoteAdd(p, a, x), sessions' # sessions
  PROVE  Ballot!Cast(p, a, x)
<1>1. now' = now /\ sessions \in Seq(Session)
  BY DEF VoteAdd, SessionsInv, TypeOK
<1>2. CASE /\ SessionsFor(p) # {}
           /\ AddTo(sessions, First(SessionsFor(p)), a, x)
  <2>1. PICK i \in 1 .. Len(sessions) :
          i = First(SessionsFor(p)) /\ sessions[i].phash = p
    BY <1>1, <1>2, FoundIsThere
  <2>2. AddTo(sessions, i, a, x)
    BY <1>2, <2>1
  <2>3. Ballot!Cast(sessions[i].phash, a, x)
    BY <1>1, <2>2, VoteIsCast
  <2> QED
    BY <2>1, <2>3
<1>3. CASE /\ SessionsFor(p) = {} /\ ~TableFull
           /\ AddTo(Append(sessions, NewSession(p)), Len(sessions) + 1, a, x)
  BY <1>1, <1>3, FirstVoteIsCast
<1> QED
  BY <1>2, <1>3 DEF VoteAdd

\* The array of sessions behaves as a ballot box per program: one vote per agent,
\* decided at the quorum and then sealed, refused when there is no room, and
\* forgotten only when old, whatever vote_expire() does to the order.
THEOREM TableRefines == Spec => ImplementsBallots
<1>1. Init => Ballot!Init
  <2> SUFFICES ASSUME Init PROVE Ballot!Init
    OBVIOUS
  <2>1. DOMAIN sessions = {} /\ now = 0
    BY DEF Init
  <2>2. BoxOf(sessions) = Ballot!NoBallots
    BY <2>1 DEF BoxOf, Ballot!NoBallots, Ballot!Closed
  <2> QED
    BY <2>1, <2>2, BoxIsOfSessions DEF Ballot!Init
<1>2. SessionsInv /\ [Next]_vars => [Ballot!Next]_(Ballot!vars)
  <2> SUFFICES ASSUME SessionsInv, [Next]_vars
               PROVE  [Ballot!Next]_(Ballot!vars)
    OBVIOUS
  <2>1. CASE sessions' = sessions /\ now' = now
    BY <2>1, BoxIsOfSessions, BoxIsNext DEF Ballot!vars
  <2>2. ASSUME NEW p \in Programs, NEW a \in Agents, NEW x \in Scores,
               VoteAdd(p, a, x), sessions' # sessions
        PROVE  Ballot!Next
    BY <2>2, VoteAddRefines DEF Ballot!Next
  <2>3. CASE ExpireSwap
    BY <2>3, SwapForgets DEF Ballot!Next
  <2>4. CASE Tick
    BY <2>4, BoxIsOfSessions, BoxIsNext DEF Tick, Ballot!Next, Ballot!Tick
  <2>5. CASE ExpireStart \/ ExpireKeep \/ ExpireEnd
    BY <2>1, <2>5 DEF ExpireStart, ExpireKeep, ExpireEnd
  <2>6. ASSUME NEW p \in Programs, NEW a \in Agents, NEW x \in Scores,
               VoteAdd(p, a, x)
        PROVE  now' = now
    BY <2>6 DEF VoteAdd
  <2> QED
    BY <2>1, <2>2, <2>3, <2>4, <2>5, <2>6 DEF Next, Expire, vars
<1> QED
  BY <1>1, <1>2, SessionsInvariant, PTL DEF Spec, ImplementsBallots, Ballot!Spec
=============================================================================
