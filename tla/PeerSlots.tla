----------------------------- MODULE PeerSlots -----------------------------
(***************************************************************************)
(* The peer registry of one agent, edge/peer_table.c, as operators on its   *)
(* value.  A table is the sequence of the used prefix of entries[]: Len(t)  *)
(* is t->count.  Every role keeps one table (g_peers) and calls these       *)
(* functions from its single event loop, so each call is one atomic step.   *)
(*                                                                         *)
(* Abstracted: ip, port, role, identity and the quarantine reason, which no *)
(* function of the table reads back to decide anything.                     *)
(***************************************************************************)
EXTENDS Naturals, Sequences, Scan

CONSTANTS
  Names,       \* agent names that announce themselves or are enforced upon
  MaxPeers,    \* COLLECTIVE_MAX_PEERS
  StaleAfter   \* the stale_after every caller passes: HEARTBEAT_INTERVAL * 6

ASSUME MaxPeersAssumption == MaxPeers \in Nat \ {0}
ASSUME StaleAfterAssumption == StaleAfter \in Nat

PeerEntry == [name : Names, active : BOOLEAN, quarantined : BOOLEAN,
              last_seen : Nat]

\* Slots whose name matches; every search of the C code is by name.
SlotsOf(t, n) == {i \in DOMAIN t : t[i].name = n}
ActiveSlotsOf(t, n) == {i \in SlotsOf(t, n) : t[i].active}

\* Deliberate faults, each a slip this code could contain; a name starting with
\* Bug is never part of a specification.
BugKnownFirstOnly(t, n) == SlotsOf(t, n) # {} /\ t[First(SlotsOf(t, n))].active

\* peer_get(): NULL unless an active slot holds the name.
PeerKnown(t, n) == ActiveSlotsOf(t, n) # {}

\* The field writes through the pointer peer_get() or peer_upsert() returned.
PeerSlotGot(t, n) == First(ActiveSlotsOf(t, n))

IsFull(t) == Len(t) >= MaxPeers

\* peer_upsert(): refresh the active slot, else append a fresh one; a full
\* table makes it return NULL and change nothing.
PeerUpsert(t, n, now) ==
  IF PeerKnown(t, n)
  THEN [t EXCEPT ![PeerSlotGot(t, n)].last_seen = now]
  ELSE IF IsFull(t)
       THEN t
       ELSE Append(t, [name |-> n, active |-> TRUE, quarantined |-> FALSE,
                       last_seen |-> now])

\* peer_quarantine(): the first slot of that name, active or not; else a slot
\* that is quarantined from the start (last_seen zeroed by memset).
PeerQuarantine(t, n) ==
  IF SlotsOf(t, n) # {}
  THEN [t EXCEPT ![First(SlotsOf(t, n))].quarantined = TRUE,
                 ![First(SlotsOf(t, n))].active = FALSE]
  ELSE IF IsFull(t)
       THEN t
       ELSE Append(t, [name |-> n, active |-> FALSE, quarantined |-> TRUE,
                       last_seen |-> 0])

\* The "U" branch of every MSG_ENFORCE handler: only a slot peer_get() finds.
PeerLift(t, n) ==
  IF PeerKnown(t, n)
  THEN [t EXCEPT ![PeerSlotGot(t, n)].quarantined = FALSE,
                 ![PeerSlotGot(t, n)].active = TRUE]
  ELSE t

BugStaleTooEarly(e, now) == /\ e.active
                            /\ ~e.quarantined
                            /\ now - e.last_seen >= StaleAfter

\* peer_sweep(): drop the silent ones from the active set; slots stay used.
IsStale(e, now) == /\ e.active
                   /\ ~e.quarantined
                   /\ now - e.last_seen > StaleAfter

PeerSweep(t, now) ==
  [i \in DOMAIN t |-> [t[i] EXCEPT !.active = @ /\ ~IsStale(t[i], now)]]

----------------------------------------------------------------------------
(* What every table reached by these calls satisfies. *)

WellTyped(t) == t \in Seq(PeerEntry) /\ Len(t) <= MaxPeers

OneActive(t) ==
  \A i, j \in DOMAIN t :
    t[i].active /\ t[j].active /\ t[i].name = t[j].name => i = j

NeverBoth(t) == \A i \in DOMAIN t : ~(t[i].active /\ t[i].quarantined)

SameNames(t, u) == /\ Len(t) <= Len(u)
                   /\ \A i \in DOMAIN t : u[i].name = t[i].name
=============================================================================
