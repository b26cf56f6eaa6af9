----------------------------- MODULE PeerTable -----------------------------
(***************************************************************************)
(* One agent's peer registry over time: the calls its event loop makes into *)
(* edge/peer_table.c as ANNOUNCE, HEARTBEAT and ENFORCE messages arrive and *)
(* as the periodic sweep fires, in any order.                               *)
(***************************************************************************)
EXTENDS PeerSlots

CONSTANT MaxClock   \* bound on the clock, for model checking only

VARIABLES
  table,   \* g_peers
  clock,   \* time(NULL), in ticks
  handled  \* ghost: what the loop did last, and about whom

peerVars == <<table, clock, handled>>

Happening == {"start", "heard", "quarantine", "lift", "sweep", "tick"}

Did(what, who) == handled' = [what |-> what, about |-> who]

PeerInit == /\ table = <<>>
            /\ clock = 0
            /\ handled = [what |-> "start", about |-> {}]

\* MSG_ANNOUNCE and MSG_HEARTBEAT are handled alike.
Heartbeat(n) == /\ table' = PeerUpsert(table, n, clock)
                /\ Did("heard", {n})
                /\ UNCHANGED clock

\* MSG_ENFORCE "Q|n|reason".
Enforce(n) == /\ table' = PeerQuarantine(table, n)
              /\ Did("quarantine", {n})
              /\ UNCHANGED clock

\* MSG_ENFORCE "U|n".
Lift(n) == /\ table' = PeerLift(table, n)
           /\ Did("lift", {n})
           /\ UNCHANGED clock

Sweep == /\ table' = PeerSweep(table, clock)
         /\ Did("sweep", {})
         /\ UNCHANGED clock

PeerTick == /\ clock < MaxClock
            /\ clock' = clock + 1
            /\ Did("tick", {})
            /\ UNCHANGED table

PeerNext == \/ \E n \in Names : \/ Heartbeat(n)
                                \/ Enforce(n)
                                \/ Lift(n)
            \/ Sweep
            \/ PeerTick

PeerSpec == PeerInit /\ [][PeerNext]_peerVars

----------------------------------------------------------------------------
\* The table is well typed and never longer than the array that holds it.
PeerTypeOK == /\ WellTyped(table)
              /\ clock \in Nat
              /\ handled \in [what : Happening, about : SUBSET Names]

\* peer_get() has one answer: however often a name is swept, quarantined and
\* seen again (each time in a new slot), at most one of its slots is active.
OneActiveSlot == OneActive(table)

\* No slot is both active and quarantined.  Every reader of the table that
\* asks "is this peer known and quarantined" (peer_get(), then ->quarantined)
\* therefore always gets the answer no.
ActiveNotQuarantined == NeverBoth(table)

\* The table is well formed as a whole.  The parts depend on each other: a slot
\* peer_get() hands to a lift must be active, and an active slot must be the only
\* one of its name, however it was swept, quarantined and seen again.
TableInv == PeerTypeOK /\ OneActiveSlot /\ ActiveNotQuarantined

\* Slots are never reused for another name, so a pointer peer_get() or
\* peer_upsert() returned never comes to denote a different peer.
SlotsStable == [][SameNames(table, table')]_peerVars

\* A peer heard from within StaleAfter leaves the active set only by an
\* enforcement against that very name; neither a sweep nor an enforcement
\* against somebody else takes it out of service.
FreshPeersStay ==
  [][\A i \in DOMAIN table :
       /\ table[i].active
       /\ clock - table[i].last_seen <= StaleAfter
       /\ ~table'[i].active
       => handled' = [what |-> "quarantine", about |-> {table[i].name}]]_peerVars

=============================================================================
