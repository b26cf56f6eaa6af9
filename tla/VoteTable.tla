----------------------------- MODULE VoteTable -----------------------------
(***************************************************************************)
(* The vote table of one agent, edge/vote.c: an array of sessions, one per  *)
(* program hash, filled by vote_add() and compacted by vote_expire(), whose *)
(* loop is modelled iteration by iteration.  The agent is single-threaded:  *)
(* nothing else happens while the loop runs.                                *)
(*                                                                         *)
(* Abstracted: mean_score, a function of the votes at the moment of commit  *)
(* (which CommittedFrozen shows never change afterwards).                   *)
(***************************************************************************)
EXTENDS Integers, Sequences, FiniteSets, Scan

CONSTANTS
  Agents,       \* agent names that vote
  Programs,     \* program hashes
  Scores,
  Quorum,       \* the quorum argument, g_quorum of the sentient
  MaxSessions,  \* VOTE_MAX_SESSIONS
  MaxVoters,    \* VOTE_MAX_VOTERS
  MaxAge,       \* max_age_seconds, 120 in every role
  MaxTime       \* bound on the clock, for model checking only

ASSUME QuorumAssumption == Quorum \in Nat
ASSUME CapacityAssumption ==
  MaxSessions \in Nat \ {0} /\ MaxVoters \in Nat \ {0}
ASSUME MaxAgeAssumption == MaxAge \in Nat

VARIABLES
  sessions,  \* the used prefix of t->sessions[]; Len(sessions) is t->count
  now,
  scan,      \* 0, or i + 1 while vote_expire() is at index i
  reply      \* ghost: what the last vote_add() returned

vars == <<sessions, now, scan, reply>>

Vote == [voter : Agents, score : Scores]

Session == [phash : Programs, votes : Seq(Vote), committed : BOOLEAN,
            first_vote : Nat]

VotersIn(s) == {s.votes[i].voter : i \in DOMAIN s.votes}

\* find_session(): the indices its scan would stop at.
SessionsFor(p) == {i \in DOMAIN sessions : sessions[i].phash = p}

NoReply == [code |-> 0, about |-> {}, repeat |-> FALSE]

Reply(code, p, repeat) ==
  reply' = [code |-> code, about |-> {p}, repeat |-> repeat]

\* The rest of the agent sees the table only between calls.
Idle == scan = 0

Init == /\ sessions = <<>>
        /\ now = 0
        /\ scan = 0
        /\ reply = NoReply

----------------------------------------------------------------------------
(* vote_add() *)

NewSession(p) ==
  [phash |-> p, votes |-> <<>>, committed |-> FALSE, first_vote |-> now]

HasVoted(s, a) == a \in VotersIn(s)

ReachesQuorum(s) == Len(s.votes) >= Quorum

Voted(s, a, x) ==
  [s EXCEPT !.votes = Append(@, [voter |-> a, score |-> x])]

BugForgetsCommit(s, a, x) == Voted(s, a, x)

\* The tail of vote_add(): append the vote, then commit on quorum.
WithVote(s, a, x) ==
  [Voted(s, a, x) EXCEPT !.committed = ReachesQuorum(Voted(s, a, x))]

IsDone(s) == s.committed

VotersFull(s) == Len(s.votes) >= MaxVoters

TableFull == Len(sessions) >= MaxSessions

\* vote_add() once the session s at index i (of table t) has been found or made.
AddTo(t, i, a, x) ==
  LET s == t[i]
  IN  \/ /\ IsDone(s)
         /\ sessions' = t
         /\ Reply(1, s.phash, HasVoted(s, a))
      \/ /\ ~IsDone(s) /\ HasVoted(s, a)
         /\ sessions' = t
         /\ Reply(-1, s.phash, TRUE)
      \/ /\ ~IsDone(s) /\ ~HasVoted(s, a) /\ VotersFull(s)
         /\ sessions' = t
         /\ Reply(-2, s.phash, FALSE)
      \/ /\ ~IsDone(s) /\ ~HasVoted(s, a) /\ ~VotersFull(s)
         /\ sessions' = [t EXCEPT ![i] = WithVote(s, a, x)]
         /\ Reply(IF ReachesQuorum(Voted(s, a, x)) THEN 1 ELSE 0, s.phash, FALSE)

VoteAdd(p, a, x) ==
  /\ Idle
  /\ \/ /\ SessionsFor(p) # {}
        /\ AddTo(sessions, First(SessionsFor(p)), a, x)
     \/ /\ SessionsFor(p) = {}
        /\ ~TableFull
        /\ AddTo(Append(sessions, NewSession(p)), Len(sessions) + 1, a, x)
     \/ /\ SessionsFor(p) = {}
        /\ TableFull
        /\ Reply(-2, p, FALSE)
        /\ UNCHANGED sessions
  /\ UNCHANGED <<now, scan>>

----------------------------------------------------------------------------
(* vote_expire() *)

BugExpiresYoung(s) == now - s.first_vote >= MaxAge

IsExpired(s) == now - s.first_vote > MaxAge

ExpireStart == /\ Idle
               /\ scan' = 1
               /\ reply' = NoReply
               /\ UNCHANGED <<sessions, now>>

\* t->sessions[i] = t->sessions[t->count - 1]; t->count--.
Compacted(t, i) == SubSeq([t EXCEPT ![i] = t[Len(t)]], 1, Len(t) - 1)

BugSwapSkips == /\ ~Idle
                /\ scan <= Len(sessions)
                /\ IsExpired(sessions[scan])
                /\ sessions' = Compacted(sessions, scan)
                /\ scan' = scan + 1
                /\ UNCHANGED <<now, reply>>

\* An expired session is overwritten by the last one, which is looked at next.
ExpireSwap == /\ ~Idle
              /\ scan <= Len(sessions)
              /\ IsExpired(sessions[scan])
              /\ sessions' = Compacted(sessions, scan)
              /\ UNCHANGED <<now, scan, reply>>

ExpireKeep == /\ ~Idle
              /\ scan <= Len(sessions)
              /\ ~IsExpired(sessions[scan])
              /\ scan' = scan + 1
              /\ UNCHANGED <<sessions, now, reply>>

ExpireEnd == /\ ~Idle
             /\ scan > Len(sessions)
             /\ scan' = 0
             /\ UNCHANGED <<sessions, now, reply>>

\* The now of a vote_expire() call is its argument: fixed while the loop runs.
Tick == /\ Idle
        /\ now < MaxTime
        /\ now' = now + 1
        /\ reply' = NoReply
        /\ UNCHANGED <<sessions, scan>>

Expire == ExpireStart \/ ExpireSwap \/ ExpireKeep \/ ExpireEnd

Next == \/ \E p \in Programs, a \in Agents, x \in Scores : VoteAdd(p, a, x)
        \/ Expire
        \/ Tick

Spec == Init /\ [][Next]_vars

----------------------------------------------------------------------------
TypeOK ==
  /\ sessions \in Seq(Session)
  /\ Len(sessions) <= MaxSessions
  /\ \A i \in DOMAIN sessions : Len(sessions[i].votes) <= MaxVoters
  /\ now \in Nat
  /\ scan \in Nat
  /\ reply \in [code : {-2, -1, 0, 1}, about : SUBSET Programs,
                repeat : BOOLEAN]

\* One session per program: swapping sessions around in vote_expire() never
\* leaves a program with two tallies, each short of the quorum.
UniqueSessions ==
  \A i, j \in DOMAIN sessions :
    sessions[i].phash = sessions[j].phash => i = j

\* A program is committed exactly when Quorum different agents have voted for
\* it in the session: nobody is counted twice, and no session that has its
\* quorum is left open.
HasQuorum(s) == Cardinality(VotersIn(s)) >= Quorum

CommittedIffQuorum ==
  \A i \in DOMAIN sessions : sessions[i].committed <=> HasQuorum(sessions[i])

\* The caller's contract: when vote_add() says 1, the result it then asks
\* vote_get_result() for is there; and a second vote of the same agent is never
\* answered like one that was counted and fell short of the quorum.
RepliesHold ==
  /\ reply.code = 1 =>
       \A p \in reply.about : \E i \in SessionsFor(p) : sessions[i].committed
  /\ reply.repeat => reply.code # 0

\* Votes already cast stay as they were cast; once committed, nothing is added.
CommittedFrozen ==
  [][\A i \in DOMAIN sessions, j \in DOMAIN sessions' :
       sessions[i].phash = sessions'[j].phash
       => /\ \A k \in DOMAIN sessions[i].votes :
               /\ k \in DOMAIN sessions'[j].votes
               /\ sessions'[j].votes[k] = sessions[i].votes[k]
          /\ sessions[i].committed => sessions'[j] = sessions[i]]_vars

\* Only a session older than MaxAge is ever dropped.
OnlyOldDropped ==
  [][\A i \in DOMAIN sessions :
       \/ now - sessions[i].first_vote > MaxAge
       \/ \E j \in DOMAIN sessions' :
            sessions'[j].phash = sessions[i].phash]_vars

\* vote_expire() misses none: what it has passed is young, so when it returns
\* every session left is.
ScannedAreYoung ==
  \A i \in DOMAIN sessions : i < scan => now - sessions[i].first_vote <= MaxAge

\* vote_expire() ends: a step of its loop either moves on or drops a session, so
\* what is left to look at shrinks, though the index stays where it is on a swap.
Left(t, i) == Len(t) + 1 - i

ExpireProgresses ==
  [][~Idle /\ ~Idle' => Left(sessions', scan') < Left(sessions, scan)]_vars

\* The tally is sound at every step of vote_add() and vote_expire(): one session
\* per program, committed exactly at its quorum, and none that is too old behind
\* the loop that expires them.
VotesSound == TypeOK /\ UniqueSessions /\ CommittedIffQuorum /\ ScannedAreYoung

----------------------------------------------------------------------------
(* What the table promises, and how an array of sessions keeps it. *)

BallotOf(s) ==
  LET VoteOf(a) == s.votes[CHOOSE k \in DOMAIN s.votes : s.votes[k].voter = a]
  IN  [votes   |-> [a \in VotersIn(s) |-> VoteOf(a).score],
       decided |-> s.committed,
       opened  |-> s.first_vote]

Box == [p \in Programs |->
         IF SessionsFor(p) = {}
         THEN [votes |-> <<>>, decided |-> FALSE, opened |-> 0]
         ELSE BallotOf(sessions[First(SessionsFor(p))])]

Ballot == INSTANCE Ballots WITH box <- Box

\* vote_add() and vote_expire() behave as a ballot box per program: one vote per
\* agent, decided at the quorum, sealed once decided, refused when there is no
\* room, and forgotten only when old, one program at a time.
ImplementsBallots == Ballot!Spec

=============================================================================
