------------------------------- MODULE Tally -------------------------------
(***************************************************************************)
(* What edge/vote.c promises its callers, as operators on a box: for every  *)
(* program who voted what, whether that is decided, and since when.         *)
(* VoteTable shows that the array of sessions implements it; Consensus is   *)
(* built on it.                                                             *)
(***************************************************************************)
EXTENDS Naturals, FiniteSets

CONSTANTS
  Agents,       \* agent names that vote
  Programs,     \* program hashes
  Scores,
  Quorum,       \* the quorum argument of vote_add()
  MaxSessions,  \* VOTE_MAX_SESSIONS
  MaxVoters,    \* VOTE_MAX_VOTERS
  MaxAge        \* max_age_seconds, 120 in every role

\* No session: the function with no voter in its domain is written <<>>.
Closed == [votes |-> <<>>, decided |-> FALSE, opened |-> 0]

NoBallots == [p \in Programs |-> Closed]

Voters(b) == DOMAIN b.votes

IsOpen(b) == Voters(b) # {}

OpenIn(box) == {p \in Programs : IsOpen(box[p])}

HasRoom(box, p) ==
  /\ IsOpen(box[p]) \/ Cardinality(OpenIn(box)) < MaxSessions
  /\ Cardinality(Voters(box[p])) < MaxVoters

\* When vote_add() records the vote; otherwise it changes nothing.
Counts(box, p, a) == /\ ~box[p].decided
                     /\ a \notin Voters(box[p])
                     /\ HasRoom(box, p)

\* The box once vote_add() has recorded a vote at time t.
Counted(box, p, a, x, t) ==
  LET voters == Voters(box[p]) \cup {a}
  IN  [box EXCEPT ![p] =
        [votes   |-> [b \in voters |-> IF b = a THEN x ELSE box[p].votes[b]],
         decided |-> Cardinality(voters) >= Quorum,
         opened  |-> IF IsOpen(box[p]) THEN box[p].opened ELSE t]]

IsOld(b, t) == IsOpen(b) /\ t - b.opened > MaxAge

\* The box once vote_expire() has returned.
Purged(box, t) ==
  [p \in Programs |-> IF IsOld(box[p], t) THEN Closed ELSE box[p]]
=============================================================================
