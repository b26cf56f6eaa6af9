------------------------------- MODULE Oracle -------------------------------
(***************************************************************************)
(* The oracle's sessions: roles/oracle/oracle_agent.c.  Results are gathered *)
(* per program, assessed at the quorum and again when the cooldown is over,  *)
(* and every voter's trust follows from the assessments.                    *)
(*                                                                         *)
(* A score is an integer, an infinity or not a number: sscanf("%f") reads   *)
(* "inf", "-inf" and "nan" as well.  Of a mean is kept which of these it is,  *)
(* and the voters it is over; of a trust, whether it is a number.            *)
(* Abstracted: g_votes, which is written and expired but read by nobody, the *)
(* peer table, which only feeds texts, the texts themselves, POST /spec and  *)
(* POST /data/vote, which only pass on what they are given, and the log.     *)
(***************************************************************************)
EXTENDS Integers, Sequences, FiniteSets, FiniteSetsExt, SequencesExt

CONSTANTS
  Voters, Programs,
  NaN, PlusInf, MinusInf, Number,  \* what a float is: the last, a finite one
  Exact,        \* bound: no sum of scores of this size, or of squares, overflows
  Quorum,
  TwiceZSquared,  \* twice OUTLIER_ZSCORE squared
  Cooldown,     \* ASSESS_COOLDOWN_S
  SpecInterval, \* SPEC_INTERVAL_S
  MaxSessions,  \* MAX_ORACLE_SESSIONS
  MaxVotes,     \* ORACLE_MAX_VOTES
  MaxStats,     \* MAX_AGENT_STATS
  MayScore,     \* per voter and program, what a worker may answer
  MaxTime       \* bound, for model checking only

Scored == Int \union {NaN, PlusInf, MinusInf}
Floats == {NaN, PlusInf, MinusInf, Number}

ASSUME OracleAssumption ==
  /\ Floats \intersect Int = {} /\ NaN \notin {PlusInf, MinusInf, Number}
  /\ PlusInf \notin {MinusInf, Number} /\ MinusInf # Number
  /\ MayScore \in [Voters -> [Programs -> SUBSET Scored]]
  /\ Exact \in Nat
  /\ {Quorum, TwiceZSquared, MaxSessions, MaxVotes, MaxStats} \subseteq Nat \ {0}
  /\ {Cooldown, SpecInterval, MaxTime} \subseteq Nat

VARIABLES
  sessions,   \* g_oracle
  trust,      \* g_stats: the voters that have a slot, and their confidence
  last_spec,
  spec,       \* how many assessed sessions the last MSG_SPEC told of
  now,
  published,  \* what subscribers of nml/assess/<phash> were told last
  tainted     \* ghost: whose score was not finite, or under a mean that is none

oracleVars == <<sessions, trust, last_spec, spec, now, published, tainted>>

\* votes has who voted what, judged whom the means and flags are about.
NewSession(p) == [phash |-> p, votes |-> <<>>, outliers |-> {}, judged |-> {},
                  mean |-> Number, assessed |-> FALSE, first_seen |-> now,
                  last_assessed |-> 0]

OracleInit ==
  /\ sessions = <<>>
  /\ trust = <<>>
  /\ last_spec = -SpecInterval
  /\ spec = 0
  /\ now = 0
  /\ published = <<>>
  /\ tainted = {}

-----------------------------------------------------------------------------
(* oracle_get_or_create() and oracle_add_vote() *)

Indices(p) == {i \in DOMAIN sessions : sessions[i].phash = p}

\* The newest is evicted: the comparison turned around.
BugIsNewest(i) == /\ \A j \in DOMAIN sessions :
                       sessions[i].first_seen >= sessions[j].first_seen
                  /\ \A j \in 1..(i - 1) :
                       sessions[i].first_seen > sessions[j].first_seen

IsOldest(i) == /\ \A j \in DOMAIN sessions :
                    sessions[i].first_seen <= sessions[j].first_seen
               /\ \A j \in 1..(i - 1) :
                    sessions[i].first_seen < sessions[j].first_seen

Evicted == LET oldest == CHOOSE i \in DOMAIN sessions : IsOldest(i)
           IN  Front([sessions EXCEPT ![oldest] = Last(sessions)])

WithRoom == IF Len(sessions) >= MaxSessions THEN Evicted ELSE sessions

WithSession(p) == IF Indices(p) # {} THEN sessions
                  ELSE Append(WithRoom, NewSession(p))

\* A voter's first score counts; what does not fit is dropped in silence.
AddVote(votes, v, score) ==
  IF v \in DOMAIN votes \/ Cardinality(DOMAIN votes) >= MaxVotes
  THEN votes
  ELSE [w \in DOMAIN votes \union {v} |-> IF w = v THEN score ELSE votes[w]]

-----------------------------------------------------------------------------
(* oracle_assess() *)

AllFinite(votes) == \A v \in DOMAIN votes : votes[v] \in Int

Has(votes, V, x) == \E v \in V : votes[v] = x

\* Scores whose sum may be no finite number although they are.
High(votes, V) == \E v \in V : votes[v] \in Int /\ votes[v] > Exact
Low(votes, V) == \E v \in V : votes[v] \in Int /\ votes[v] < -Exact

\* What it takes to add up to no number: a score that is none, or two of which
\* one is infinite and the other too, or as good as, with the opposite sign.
Clash(votes, V) ==
  \/ Has(votes, V, NaN)
  \/ Has(votes, V, PlusInf) /\ (Has(votes, V, MinusInf) \/ Low(votes, V))
  \/ Has(votes, V, MinusInf) /\ High(votes, V)

\* What a sum of floats over V, and with it their mean, may be: it depends on
\* their order, and on how far beyond Exact they are.
Sums(votes, V) ==
  LET none == Has(votes, V, NaN)
      plus == Has(votes, V, PlusInf)
      minus == Has(votes, V, MinusInf)
  IN  {x \in Floats :
         CASE x = NaN      -> Clash(votes, V)
           [] x = PlusInf  -> ~none /\ ~minus /\ (plus \/ High(votes, V))
           [] x = MinusInf -> ~none /\ ~plus /\ (minus \/ Low(votes, V))
           [] x = Number   -> ~none /\ ~plus /\ ~minus}

\* n times the deviation of v's score from the mean of the n scores.
Deviation(votes, v) ==
  Cardinality(DOMAIN votes) * votes[v]
    - MapThenSumSet(LAMBDA w : votes[w], DOMAIN votes)

Square(x) == x * x

SumOfSquares(votes) ==
  MapThenSumSet(LAMBDA w : Square(Deviation(votes, w)), DOMAIN votes)

\* Whether v's z-score is above, or exactly at, the threshold.  At the
\* threshold the float may fall on either side of it, as it does for one of
\* five voters that stands apart.
Above(votes, v) == 2 * Cardinality(DOMAIN votes) * Square(Deviation(votes, v))
                     > TwiceZSquared * SumOfSquares(votes)

AtThreshold(votes, v) ==
  /\ SumOfSquares(votes) # 0
  /\ 2 * Cardinality(DOMAIN votes) * Square(Deviation(votes, v))
       = TwiceZSquared * SumOfSquares(votes)

\* With a score that is not finite the deviation is no number, no comparison
\* holds and nobody is flagged; likewise when the squares overflow.
Outliers(votes) ==
  IF ~AllFinite(votes) THEN {{}}
  ELSE {{v \in DOMAIN votes : Above(votes, v)} \union rounded :
          rounded \in SUBSET {v \in DOMAIN votes : AtThreshold(votes, v)}}
       \union {none \in {{}} : High(votes, DOMAIN votes) \/ Low(votes, DOMAIN votes)}

\* agent_confidence(): who has no slot is trusted.
Confidence(v) == IF v \in DOMAIN trust THEN trust[v] ELSE Number

RawMeans(votes) == Sums(votes, DOMAIN votes)

\* The sum of the weights is not looked at.
BugWeightedMeans(votes, outliers) ==
  IF \E v \in DOMAIN votes \ outliers : Confidence(v) = NaN THEN {NaN}
  ELSE Sums(votes, DOMAIN votes \ outliers)

\* A weight that is no number makes their sum none, which is not > 0: then the
\* raw mean is taken.
WeightedMeans(votes, outliers) ==
  IF \E v \in DOMAIN votes \ outliers : Confidence(v) = NaN
  THEN RawMeans(votes)
  ELSE Sums(votes, DOMAIN votes \ outliers)

\* The voters that get a slot of g_stats: the first of the session's, which
\* are any of them, while there are slots.
Enrolled(votes) ==
  LET new == DOMAIN votes \ DOMAIN trust
      room == MaxStats - Cardinality(DOMAIN trust)
  IN  kSubset(IF Cardinality(new) < room THEN Cardinality(new) ELSE room, new)

\* Step 6: a share of the old trust and, for those that were no outliers, of
\* the agreement with the mean, of which an infinite score with an infinite
\* mean of its sign has none.
Observed(votes, outliers, mean, enrolled) ==
  [v \in DOMAIN trust \union enrolled |->
     IF v \in DOMAIN votes \ outliers /\ mean \in {NaN, votes[v]} THEN NaN
     ELSE Confidence(v)]

\* publish_assessment(); of a session that is gone nothing is remembered.
Told(table, p, mean) ==
  [q \in {s.phash : s \in {t \in Range(table) : t.assessed \/ t.phash = p}} |->
     IF q = p
     THEN [at |-> now, mean |-> mean,
           voters |-> UNION {DOMAIN s.votes : s \in
                              {t \in Range(table) : t.phash = p}}]
     ELSE published[q]]

Kept(table) ==
  [q \in {s.phash : s \in {t \in Range(table) : t.assessed}} |-> published[q]]

Assess(table, i, outliers, mean, enrolled) ==
  LET s == table[i]
  IN  /\ sessions' = [table EXCEPT ![i].outliers = outliers,
                                   ![i].judged = DOMAIN s.votes,
                                   ![i].mean = mean,
                                   ![i].assessed = TRUE,
                                   ![i].last_assessed = now]
      /\ trust' = Observed(s.votes, outliers, mean, enrolled)
      /\ published' = Told(table, s.phash, mean)
      /\ tainted' = tainted \union
           {v \in DOMAIN s.votes : mean = NaN \/ s.votes[v] \notin Int}

-----------------------------------------------------------------------------
(* The message loop, the HTTP calls and the timers *)

\* One vote more than the quorum is waited for.
BugIsDueLate(s) == /\ Cardinality(DOMAIN s.votes) > Quorum
                   /\ ~s.assessed \/ now - s.last_assessed >= Cooldown

\* The cooldown is counted from the session's first vote.
BugIsDueByAge(s) == /\ Cardinality(DOMAIN s.votes) >= Quorum
                    /\ \/ ~s.assessed
                       \/ now - s.first_seen >= Cooldown

IsDue(s) == /\ Cardinality(DOMAIN s.votes) >= Quorum
            /\ \/ ~s.assessed
               \/ now - s.last_assessed >= Cooldown

\* handle_result(), for MSG_RESULT: the votes of MSG_VOTE have no topic.
HandleResult(v, p, score) ==
  LET found == WithSession(p)
      i == CHOOSE j \in DOMAIN found : found[j].phash = p
      table == [found EXCEPT ![i].votes = AddVote(@, v, score)]
  IN  /\ IF IsDue(table[i])
         THEN \E outliers \in Outliers(table[i].votes),
                 enrolled \in Enrolled(table[i].votes) :
                \E mean \in WeightedMeans(table[i].votes, outliers) :
                  Assess(table, i, outliers, mean, enrolled)
         ELSE /\ sessions' = table
              /\ published' = Kept(table)
              /\ UNCHANGED <<trust, tainted>>
      /\ UNCHANGED <<last_spec, spec, now>>

\* GET /assessments
Assessed == {i \in DOMAIN sessions : sessions[i].assessed}

\* maybe_publish_spec(): only with something assessed is anything published;
\* the timer starts again in any case.
MaybePublishSpec ==
  /\ now - last_spec >= SpecInterval
  /\ last_spec' = now
  /\ IF Assessed = {} THEN UNCHANGED spec
     ELSE spec' = Cardinality(Assessed)
  /\ UNCHANGED <<sessions, trust, now, published, tainted>>

OracleTick ==
  /\ now < MaxTime
  /\ now' = now + 1
  /\ UNCHANGED <<sessions, trust, last_spec, spec, published, tainted>>

OracleNext ==
  \/ \E v \in Voters, p \in Programs :
       \E score \in MayScore[v][p] : HandleResult(v, p, score)
  \/ MaybePublishSpec
  \/ OracleTick

OracleSpec == OracleInit /\ [][OracleNext]_oracleVars

-----------------------------------------------------------------------------
(* Correctness *)

IsSession(s) ==
  /\ DOMAIN s = DOMAIN NewSession(s.phash)
  /\ s.phash \in Programs
  /\ DOMAIN s.votes \subseteq Voters /\ Cardinality(DOMAIN s.votes) <= MaxVotes
  /\ \A v \in DOMAIN s.votes : s.votes[v] \in MayScore[v][s.phash]
  /\ s.outliers \subseteq s.judged /\ s.judged \subseteq DOMAIN s.votes
  /\ s.mean \in Floats /\ s.assessed \in BOOLEAN
  /\ {s.first_seen, s.last_assessed} \subseteq 0..now

OracleTypeOK ==
  /\ Len(sessions) <= MaxSessions
  /\ \A s \in Range(sessions) : IsSession(s)
  /\ DOMAIN trust \subseteq Voters /\ Range(trust) \subseteq Floats
  /\ Cardinality(DOMAIN trust) <= MaxStats
  /\ now \in 0..MaxTime
  /\ DOMAIN published \subseteq Programs
  /\ tainted \subseteq Voters

\* Whatever was voted, at most one in OUTLIER_ZSCORE squared is an outlier, and
\* nobody among fewer than that and one more: with the code's threshold of 2,
\* nobody among four.
OutliersAreFew ==
  \A s \in Range(sessions) :
    /\ TwiceZSquared * Cardinality(s.outliers) <= 2 * Cardinality(s.judged)
    /\ s.outliers # {} => TwiceZSquared + 2 <= 2 * Cardinality(s.judged)

\* A program has one session, whatever came in and was evicted before; and it
\* has been assessed exactly if a quorum has voted, by that many voters at
\* least (oracle_get_or_create(), handle_result()).
SessionsInOrder ==
  /\ OracleTypeOK
  /\ \A i, j \in DOMAIN sessions : sessions[i].phash = sessions[j].phash => i = j
  /\ \A s \in Range(sessions) :
       /\ s.assessed <=> Cardinality(DOMAIN s.votes) >= Quorum
       /\ s.assessed => Cardinality(s.judged) >= Quorum

\* The two together: one session per program, assessed from the quorum on, with
\* few outliers.
SessionsAreSound == SessionsInOrder /\ OutliersAreFew

\* A score that is not finite does no harm to any voter but those of its own
\* session.  Infinite, it takes the trust of its own voter; where it is no
\* number, or meets one of the opposite sign, the mean and the trust of all
\* that voted go, for good.  But a lost trust does no harm to a later session:
\* its mean is the raw one then (oracle_assess(), steps 4 and 6).
NaNStaysInItsSession ==
  /\ \A v \in DOMAIN trust : trust[v] = NaN <=> v \in tainted
  /\ \A s \in Range(sessions) : s.mean = NaN => Clash(s.votes, s.judged)

\* A session is only lost to one more program than there is room for, it is one
\* that no other is older than, and the other sessions keep what they have
\* (oracle_get_or_create()'s compaction).  Age alone costs no session its place:
\* SESSION_MAX_AGE_S, "expire oracle sessions after 5 minutes" by its comment, is
\* the age at which g_votes' sessions go, and theirs alone.
EvictsOldest ==
  \A s \in Range(sessions) :
    \/ \E t \in Range(sessions)' :
         /\ t.phash = s.phash /\ t.first_seen = s.first_seen
         /\ \A v \in DOMAIN s.votes :
              v \in DOMAIN t.votes /\ t.votes[v] = s.votes[v]
    \/ /\ Len(sessions) = MaxSessions
       /\ \A t \in Range(sessions) : s.first_seen <= t.first_seen

OldestEvicted == [][EvictsOldest]_oracleVars

\* Subscribers hear of a session at most once in a cooldown, and a vote that
\* comes in after the cooldown is in what they hear at once: only votes of the
\* cooldown wait, for the next vote (handle_result()).
Cools ==
  /\ \A p \in DOMAIN published \cap DOMAIN published' :
       published'[p] # published[p] =>
         published'[p].at >= published[p].at + Cooldown
  /\ \A s \in Range(sessions), t \in Range(sessions)' :
       (/\ t.phash = s.phash /\ t.first_seen = s.first_seen
        /\ DOMAIN t.votes # DOMAIN s.votes /\ t.phash \in DOMAIN published
        /\ now >= published[t.phash].at + Cooldown)
         => published'[t.phash].voters = DOMAIN t.votes

CooldownHolds == [][Cools]_oracleVars
=============================================================================
