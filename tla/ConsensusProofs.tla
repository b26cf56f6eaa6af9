-------------------------- MODULE ConsensusProofs --------------------------
(***************************************************************************)
(* What stands behind a commit, for any number of workers, sentients,       *)
(* programs and scores, any quorum and any capacity, with messages lost,    *)
(* repeated and reordered, sessions expiring and agents restarting for      *)
(* ever.                                                                    *)
(***************************************************************************)
EXTENDS Consensus, TLAPS

----------------------------------------------------------------------------
(* The network *)

LEMMA ResultIsMessage == Results \subseteq Messages
BY DEF Results, Messages

\* What a message in Messages looks like.
LEMMA MessageFacts ==
  ASSUME NEW m \in Messages
  PROVE  /\ m.kind = "RESULT" => m \in Results
         /\ m.kind = "PROGRAM" => m.prog \in Programs
BY DEF Messages, Results, Program, Result, Enforce

LEMMA ResultFacts ==
  ASSUME NEW m \in Results
  PROVE  /\ m.kind = "RESULT"
         /\ m.from \in Workers /\ m.prog \in Programs /\ m.score \in Scores
         /\ m = Result(m.from, m.prog, m.score)
BY DEF Results, Result

LEMMA PlusFacts ==
  ASSUME NEW net \in [Agents -> SUBSET Messages], NEW m \in Messages
  PROVE  /\ Plus(net, m) \in [Agents -> SUBSET Messages]
         /\ \A x \in Agents : Plus(net, m)[x] \subseteq net[x] \cup {m}
BY DEF Plus

LEMMA TakenFacts ==
  ASSUME TypeOK, NEW x \in Agents, NEW m, NEW again
  PROVE  /\ Taken(x, m, again) \in [Agents -> SUBSET Messages]
         /\ \A y \in Agents : Taken(x, m, again)[y] \subseteq pending[y]
BY DEF Taken, TypeOK

----------------------------------------------------------------------------
(* Steps, by what they leave alone *)

\* A step that only moves messages: nothing new but programs and enforcements.
LEMMA QuietStep ==
  ASSUME BackedInv, UNCHANGED <<box, commits, executed>>,
         cut \subseteq cut', cut' \subseteq Agents,
         pending' \in [Agents -> SUBSET Messages],
         \A x \in Agents : \A m \in pending'[x] :
           m \in pending[x] \/ m.kind # "RESULT"
  PROVE  BackedInv'
<1>1. TypeOK'
  BY DEF BackedInv, TypeOK
<1>2. PendingBacked'
  BY DEF BackedInv, PendingBacked
<1>3. TalliesOK'
  BY DEF BackedInv, TalliesOK, BallotOK, Truthful
<1>4. CommitsAreBacked' /\ DecidedIsPublished'
  BY DEF BackedInv, CommitsAreBacked, DecidedIsPublished
<1> QED
  BY <1>1, <1>2, <1>3, <1>4 DEF BackedInv

\* A step in which a sentient forgets some of its tallies.
LEMMA ForgettingStep ==
  ASSUME BackedInv, UNCHANGED <<commits, executed>>,
         pending' \in [Agents -> SUBSET Messages],
         \A x \in Agents : pending'[x] \subseteq pending[x],
         DOMAIN box' = Sentients,
         \A s \in Sentients : DOMAIN box'[s] = Programs,
         cut' \subseteq cut,
         \A s \in Sentients, p \in Programs :
           \/ box'[s][p] = Votes!Closed
           \/ box'[s][p] = box[s][p] /\ (s \in cut => s \in cut')
  PROVE  BackedInv'
<1>1. TypeOK'
  BY DEF BackedInv, TypeOK
<1>2. PendingBacked'
  BY DEF BackedInv, PendingBacked
<1>3. DOMAIN Votes!Closed.votes = {} /\ ~Votes!Closed.decided
  BY DEF Votes!Closed
<1>4. ASSUME NEW s \in Sentients, NEW p \in Programs
      PROVE  /\ BallotOK(box[s][p], p)'
             /\ s \notin cut' /\ box'[s][p].decided
                  => Commit(s, p, box'[s][p]) \in commits'
  <2>1. BallotOK(box[s][p], p)
    BY DEF BackedInv, TalliesOK
  <2>2. s \notin cut /\ box[s][p].decided => Commit(s, p, box[s][p]) \in commits
    BY DEF BackedInv, DecidedIsPublished
  <2>3. CASE box'[s][p] = box[s][p] /\ (s \in cut => s \in cut')
    BY <2>1, <2>2, <2>3 DEF BallotOK, Truthful
  <2>4. CASE box'[s][p] = Votes!Closed
    BY <1>3, <2>4 DEF BallotOK, Truthful
  <2> QED
    BY <2>3, <2>4
<1>5. TalliesOK'
  BY <1>4 DEF TalliesOK
<1>6. DecidedIsPublished'
  BY <1>4 DEF DecidedIsPublished
<1>7. CommitsAreBacked'
  BY DEF BackedInv, CommitsAreBacked
<1> QED
  BY <1>1, <1>2, <1>5, <1>6, <1>7 DEF BackedInv

----------------------------------------------------------------------------
(* The steps that count and commit *)

\* What counting one more vote does to a tally.
LEMMA CountedFacts ==
  ASSUME NEW b, DOMAIN b = Programs, NEW p \in Programs,
         NEW a, NEW x, NEW t
  PROVE  LET c == Votes!Counted(b, p, a, x, t)
         IN  /\ DOMAIN c = Programs
             /\ \A q \in Programs : q # p => c[q] = b[q]
             /\ DOMAIN c[p].votes = DOMAIN b[p].votes \cup {a}
             /\ c[p].votes[a] = x
             /\ \A w \in DOMAIN b[p].votes :
                  w # a => c[p].votes[w] = b[p].votes[w]
             /\ c[p].decided =>
                  Cardinality(DOMAIN b[p].votes \cup {a}) >= Quorum
<1> DEFINE voters == Votes!Voters(b[p]) \cup {a}
           votes == [w \in voters |-> IF w = a THEN x ELSE b[p].votes[w]]
           enough == Cardinality(voters) >= Quorum
           since == IF Votes!IsOpen(b[p]) THEN b[p].opened ELSE t
           new == [votes |-> votes, decided |-> enough, opened |-> since]
           c == Votes!Counted(b, p, a, x, t)
<1>0. Votes!Cardinality(voters) = Cardinality(voters)
  BY DEF Votes!Cardinality, Cardinality
<1>1. c = [b EXCEPT ![p] = new]
  BY <1>0 DEF Votes!Counted
<1>2. voters = DOMAIN b[p].votes \cup {a}
  BY DEF Votes!Voters
<1>3. /\ DOMAIN votes = voters
      /\ votes[a] = x
      /\ \A w \in DOMAIN b[p].votes : w # a => votes[w] = b[p].votes[w]
  BY <1>2
<1>4. new.votes = votes /\ (new.decided => enough)
  OBVIOUS
<1>5. enough => Cardinality(DOMAIN b[p].votes \cup {a}) >= Quorum
  BY <1>2
<1> HIDE DEF c, new, votes, enough
<1>6. /\ DOMAIN c = Programs
      /\ \A q \in Programs : q # p => c[q] = b[q]
      /\ c[p] = new
  BY <1>1
<1> QED
  BY <1>2, <1>3, <1>4, <1>5, <1>6 DEF c

\* handle_result() with a vote that counts.
LEMMA TallyStep ==
  ASSUME BackedInv, NEW s \in Sentients, NEW m \in pending[s], NEW again,
         TallyResult(s, m, again)
  PROVE  BackedInv'
<1> DEFINE p == m.prog
           c == Votes!Counted(box[s], m.prog, m.from, m.score, now)
<1>1. /\ m \in executed /\ m \in Results
      /\ p \in Programs /\ m.from \in Workers
      /\ m = Result(m.from, p, m.score)
  <2>1. m \in executed /\ m \in Results
    BY DEF BackedInv, PendingBacked, TypeOK, TallyResult, Agents
  <2> QED
    BY <2>1, ResultFacts
<1>2. /\ DOMAIN box = Sentients /\ DOMAIN box[s] = Programs
      /\ \A r \in Sentients : DOMAIN box[r] = Programs
  BY DEF BackedInv, TypeOK
<1>3. /\ DOMAIN c = Programs
      /\ \A q \in Programs : q # p => c[q] = box[s][q]
      /\ DOMAIN c[p].votes = DOMAIN box[s][p].votes \cup {m.from}
      /\ c[p].votes[m.from] = m.score
      /\ \A w \in DOMAIN box[s][p].votes :
           w # m.from => c[p].votes[w] = box[s][p].votes[w]
      /\ c[p].decided =>
           Cardinality(DOMAIN box[s][p].votes \cup {m.from}) >= Quorum
  BY <1>1, <1>2, CountedFacts
<1>4. box' = [box EXCEPT ![s] = c] /\ executed' = executed /\ cut' = cut
  BY DEF TallyResult, Tallied
<1>5. /\ DOMAIN box' = Sentients
      /\ box'[s] = c
      /\ \A r \in Sentients : r # s => box'[r] = box[r]
  BY <1>2, <1>4
<1>6. commits' = IF box'[s][p].decided /\ s \notin cut
                 THEN commits \cup {Commit(s, p, box'[s][p])}
                 ELSE commits
  BY DEF TallyResult
<1> HIDE DEF c, p
<1>7. BallotOK(c[p], p)
  <2>1. Truthful(box[s][p], p)
    BY <1>1 DEF BackedInv, TalliesOK, BallotOK
  <2>2. Truthful(c[p], p)
    BY <1>1, <1>3, <2>1 DEF Truthful
  <2> QED
    BY <1>3, <2>2 DEF BallotOK
<1>8. TypeOK' /\ PendingBacked'
  <2>1. /\ pending' \in [Agents -> SUBSET Messages]
        /\ \A y \in Agents : pending'[y] \subseteq pending[y]
    <3>1. TypeOK /\ s \in Agents
      BY DEF BackedInv, Agents
    <3>2. pending' = Taken(s, m, again)
      BY DEF TallyResult
    <3> QED
      BY <3>1, <3>2, TakenFacts
  <2>2. TypeOK'
    BY <1>2, <1>3, <1>4, <1>5, <2>1 DEF BackedInv, TypeOK
  <2> QED
    BY <1>4, <2>1, <2>2 DEF BackedInv, PendingBacked
<1>9. ASSUME NEW r \in Sentients, NEW q \in Programs, r # s \/ q # p
      PROVE  box'[r][q] = box[r][q]
  BY <1>3, <1>5, <1>9
<1>10. TalliesOK'
  <2> SUFFICES ASSUME NEW r \in Sentients, NEW q \in Programs
               PROVE  BallotOK(box[r][q], q)'
    BY DEF TalliesOK
  <2>1. CASE r = s /\ q = p
    BY <1>4, <1>5, <1>7, <2>1 DEF BallotOK, Truthful
  <2>2. CASE r # s \/ q # p
    <3>1. box'[r][q] = box[r][q] /\ BallotOK(box[r][q], q)
      BY <1>9, <2>2 DEF BackedInv, TalliesOK
    <3> QED
      BY <1>4, <3>1 DEF BallotOK, Truthful
  <2> QED
    BY <2>1, <2>2
<1>11. CommitsAreBacked'
  <2> SUFFICES ASSUME NEW d \in commits'
               PROVE  /\ Cardinality(DOMAIN d.votes) >= Quorum
                      /\ \A w \in DOMAIN d.votes :
                           Result(w, d.prog, d.votes[w]) \in executed
    BY <1>4 DEF CommitsAreBacked
  <2>1. CASE d \in commits
    BY <2>1 DEF BackedInv, CommitsAreBacked
  <2>2. CASE d \notin commits
    <3>1. c[p].decided /\ d = Commit(s, p, c[p])
      BY <1>5, <1>6, <2>2
    <3>2. d.prog = p /\ d.votes = c[p].votes
      BY <3>1 DEF Commit
    <3> QED
      BY <1>7, <3>1, <3>2 DEF BallotOK, Truthful
  <2> QED
    BY <2>1, <2>2
<1>12. DecidedIsPublished'
  <2> SUFFICES ASSUME NEW r \in Sentients \ cut, NEW q \in Programs,
                      box'[r][q].decided
               PROVE  Commit(r, q, box'[r][q]) \in commits'
    BY <1>4 DEF DecidedIsPublished
  <2>1. CASE r = s /\ q = p
    BY <1>6, <2>1
  <2>2. CASE r # s \/ q # p
    <3>1. box'[r][q] = box[r][q]
      BY <1>9, <2>2
    <3>2. Commit(r, q, box[r][q]) \in commits
      BY <3>1 DEF BackedInv, DecidedIsPublished
    <3> QED
      BY <1>6, <3>1, <3>2
  <2> QED
    BY <2>1, <2>2
<1> QED
  BY <1>8, <1>10, <1>11, <1>12 DEF BackedInv

\* Repeating a commit publishes nothing that was not published.
LEMMA RecommitStep ==
  ASSUME BackedInv, NEW s \in Sentients, NEW m \in pending[s], NEW again,
         Recommit(s, m, again)
  PROVE  BackedInv' /\ commits' = commits
<1>1. TypeOK /\ s \in Agents /\ m \in Messages
  BY DEF BackedInv, TypeOK, Agents
<1>2. m.prog \in Programs
  BY <1>1, MessageFacts, ResultFacts DEF Recommit
<1>3. s \notin cut => Commit(s, m.prog, box[s][m.prog]) \in commits
  BY <1>2 DEF BackedInv, DecidedIsPublished, Recommit
<1>4. commits' = commits
  BY <1>3 DEF Recommit
<1>5. /\ pending' \in [Agents -> SUBSET Messages]
      /\ \A y \in Agents : pending'[y] \subseteq pending[y]
  BY <1>1, TakenFacts DEF Recommit
<1> QED
  BY <1>1, <1>4, <1>5, QuietStep DEF Recommit, TypeOK

\* A result enters the network as its worker publishes it.
LEMMA ExecuteStep ==
  ASSUME BackedInv, NEW w \in Workers, NEW m \in pending[w], NEW again,
         NEW x \in Scores, Execute(w, m, x, again)
  PROVE  BackedInv'
<1> DEFINE r == Result(w, m.prog, x)
<1>1. TypeOK /\ w \in Agents /\ m \in Messages
  BY DEF BackedInv, TypeOK, Agents
<1>2. m.prog \in Programs
  BY <1>1, MessageFacts DEF Execute
<1>3. r \in Results /\ r \in Messages
  BY <1>2, ResultIsMessage DEF Results
<1>4. /\ pending' = Plus(Taken(w, m, again), r)
      /\ executed' = executed \cup {r}
      /\ box' = box /\ commits' = commits /\ cut' = cut
  BY DEF Execute
<1> HIDE DEF r
<1>5. /\ Taken(w, m, again) \in [Agents -> SUBSET Messages]
      /\ \A y \in Agents : Taken(w, m, again)[y] \subseteq pending[y]
  BY <1>1, TakenFacts
<1>6. /\ pending' \in [Agents -> SUBSET Messages]
      /\ \A y \in Agents : pending'[y] \subseteq pending[y] \cup {r}
  BY <1>3, <1>4, <1>5, PlusFacts
<1>7. TypeOK'
  BY <1>1, <1>3, <1>4, <1>6 DEF TypeOK
<1>8. PendingBacked'
  BY <1>4, <1>6 DEF BackedInv, PendingBacked
<1>9. TalliesOK'
  BY <1>4 DEF BackedInv, TalliesOK, BallotOK, Truthful
<1>10. CommitsAreBacked' /\ DecidedIsPublished'
  BY <1>4 DEF BackedInv, CommitsAreBacked, DecidedIsPublished
<1> QED
  BY <1>7, <1>8, <1>9, <1>10 DEF BackedInv

----------------------------------------------------------------------------
(* Every step *)

\* Handling a message that is neither counted nor executed.
LEMMA QuietHandling ==
  ASSUME BackedInv, NEW x \in Agents, NEW m \in pending[x], NEW again,
         pending' = Taken(x, m, again), UNCHANGED <<box, commits, executed, cut>>
  PROVE  BackedInv'
<1>1. TypeOK
  BY DEF BackedInv
<1>2. /\ pending' \in [Agents -> SUBSET Messages]
      /\ \A y \in Agents : pending'[y] \subseteq pending[y]
  BY <1>1, TakenFacts
<1> QED
  BY <1>1, <1>2, QuietStep DEF TypeOK

\* What is published in such a step is no result.
LEMMA QuietPublishing ==
  ASSUME BackedInv, NEW net \in [Agents -> SUBSET Messages],
         \A y \in Agents : net[y] \subseteq pending[y],
         NEW m \in Messages, m.kind # "RESULT", pending' = Plus(net, m),
         UNCHANGED <<box, commits, executed, cut>>
  PROVE  BackedInv'
<1>1. /\ pending' \in [Agents -> SUBSET Messages]
      /\ \A y \in Agents : pending'[y] \subseteq net[y] \cup {m}
  BY PlusFacts
<1> QED
  BY <1>1, QuietStep DEF BackedInv, TypeOK

LEMMA SignStep ==
  ASSUME BackedInv, NEW s \in Sentients, NEW m \in pending[s], NEW again,
         Sign(s, m, again)
  PROVE  BackedInv'
<1>1. TypeOK /\ s \in Agents /\ m \in Messages
  BY DEF BackedInv, TypeOK, Agents
<1>2. /\ Taken(s, m, again) \in [Agents -> SUBSET Messages]
      /\ \A y \in Agents : Taken(s, m, again)[y] \subseteq pending[y]
  BY <1>1, TakenFacts
<1>3. CASE pending' = Taken(s, m, again)
  BY <1>1, <1>3, QuietHandling DEF Sign
<1>4. CASE pending' = Plus(Taken(s, m, again), Program(s, m.prog, HasKey))
  <2>1. HasKey \in BOOLEAN
    BY NamesAssumption
  <2>2. m.prog \in Programs
    BY <1>1, MessageFacts DEF Sign
  <2>3. /\ Program(s, m.prog, HasKey) \in Messages
        /\ Program(s, m.prog, HasKey).kind # "RESULT"
    BY <2>1, <2>2 DEF Messages, Program
  <2> QED
    BY <1>2, <1>4, <2>3, QuietPublishing DEF Sign
<1> QED
  BY <1>3, <1>4 DEF Sign

\* A step keeps the invariant, and a decided tally is committed as it is.
LEMMA HandleStep ==
  ASSUME BackedInv, NEW x \in Agents, NEW m \in pending[x], Handle(x, m)
  PROVE  BackedInv'
<1> PICK again : \/ x \in Workers /\ WorkerStep(x, m, again)
                 \/ x \in Sentients /\ SentientStep(x, m, again)
                 \/ Enforced(x, m, again)
  BY DEF Handle
<1>1. CASE Ignore(x, m, again) \/ Skip(x, m, again)
  BY <1>1, QuietHandling DEF Ignore, Skip
<1>2. ASSUME x \in Workers, NEW y \in Scores, Execute(x, m, y, again)
      PROVE  BackedInv'
  BY <1>2, ExecuteStep
<1>3. CASE x \in Sentients /\ Sign(x, m, again)
  BY <1>3, SignStep
<1>4. CASE x \in Sentients /\ TallyResult(x, m, again)
  BY <1>4, TallyStep
<1>5. CASE x \in Sentients /\ Recommit(x, m, again)
  BY <1>5, RecommitStep
<1>6. CASE DropResult(x, m, again)
  BY <1>6, QuietHandling DEF DropResult
<1>7. CASE Enforced(x, m, again)
  BY <1>7, QuietHandling DEF Enforced
<1> QED
  BY <1>1, <1>2, <1>3, <1>4, <1>5, <1>6, <1>7 DEF WorkerStep, SentientStep

LEMMA InitBacked == Init => BackedInv
<1> SUFFICES ASSUME Init PROVE BackedInv
  OBVIOUS
<1>1. DOMAIN Votes!Closed.votes = {} /\ ~Votes!Closed.decided
  BY DEF Votes!Closed
<1>2. \A s \in Sentients, p \in Programs : box[s][p] = Votes!Closed
  BY DEF Init, Votes!NoBallots
<1>3. TypeOK /\ PendingBacked
  BY DEF Init, TypeOK, PendingBacked, Votes!NoBallots
<1>4. TalliesOK /\ DecidedIsPublished
  BY <1>1, <1>2 DEF TalliesOK, BallotOK, Truthful, DecidedIsPublished
<1>5. CommitsAreBacked
  BY DEF Init, CommitsAreBacked
<1> QED
  BY <1>3, <1>4, <1>5 DEF BackedInv

LEMMA StepKeepsBacked == BackedInv /\ [Next]_vars => BackedInv'
<1> SUFFICES ASSUME BackedInv, [Next]_vars PROVE BackedInv'
  OBVIOUS
<1>0. /\ TypeOK /\ cut \subseteq Agents
      /\ pending \in [Agents -> SUBSET Messages]
      /\ DOMAIN box = Sentients
      /\ \A s \in Sentients : DOMAIN box[s] = Programs
  BY DEF BackedInv, TypeOK
<1>1. ASSUME NEW c \in Clients, NEW p \in Programs, Submit(c, p)
      PROVE  BackedInv'
  <2>1. Program(c, p, FALSE) \in Messages
    <3>1. \A b \in BOOLEAN : Program(c, p, b) \in Messages
      BY DEF Messages
    <3> QED
      BY <3>1
  <2>2. Program(c, p, FALSE).kind # "RESULT"
    BY DEF Program
  <2> QED
    BY <1>0, <1>1, <2>1, <2>2, QuietPublishing DEF Submit
<1>2. ASSUME NEW type \in {"Q", "U"}, NEW n \in Targets, Publish(type, n)
      PROVE  BackedInv'
  <2>1. /\ Enforce(type, n) \in Messages
        /\ Enforce(type, n).kind # "RESULT"
    BY DEF Messages, Enforce
  <2> QED
    BY <1>0, <1>2, <2>1, QuietPublishing DEF Publish
<1>3. ASSUME NEW x \in Agents, NEW m \in pending[x], Handle(x, m)
      PROVE  BackedInv'
  BY <1>3, HandleStep
<1>4. ASSUME NEW x \in Agents, NEW m \in pending[x], Lose(x, m)
      PROVE  BackedInv'
  BY <1>0, <1>4, QuietStep DEF Lose
<1>5. ASSUME NEW x \in Agents, NEW n \in Announcers, Heard(x, n)
      PROVE  BackedInv'
  BY <1>0, <1>5, QuietStep DEF Heard
<1>6. ASSUME NEW x \in Agents, Sweep(x) PROVE BackedInv'
  <2>1. \A s \in Sentients :
          box'[s] = IF s = x THEN Votes!Purged(box[s], now) ELSE box[s]
    BY <1>6 DEF Sweep
  <2>2. DOMAIN box' = Sentients
    BY <1>6 DEF Sweep
  <2>3. \A s \in Sentients : DOMAIN box'[s] = Programs
    BY <1>0, <2>1 DEF Votes!Purged
  <2>4. \A s \in Sentients, p \in Programs :
          box'[s][p] = box[s][p] \/ box'[s][p] = Votes!Closed
    BY <1>0, <2>1 DEF Votes!Purged
  <2>5. UNCHANGED <<pending, commits, executed, cut>>
    BY <1>6 DEF Sweep
  <2> QED
    BY <1>0, <2>2, <2>3, <2>4, <2>5, ForgettingStep
<1>7. ASSUME NEW x \in Agents, Restart(x) PROVE BackedInv'
  <2>1. \A s \in Sentients :
          box'[s] = IF s = x THEN Votes!NoBallots ELSE box[s]
    BY <1>7 DEF Restart
  <2>2. DOMAIN box' = Sentients
    BY <1>7 DEF Restart
  <2>3. \A s \in Sentients : DOMAIN box'[s] = Programs
    BY <1>0, <2>1 DEF Votes!NoBallots
  <2>4. \A s \in Sentients, p \in Programs :
          \/ box'[s][p] = Votes!Closed
          \/ box'[s][p] = box[s][p] /\ (s \in cut => s \in cut')
    BY <1>0, <1>7, <2>1 DEF Votes!NoBallots, Restart
  <2>5. /\ pending' \in [Agents -> SUBSET Messages]
        /\ \A y \in Agents : pending'[y] \subseteq pending[y]
    BY <1>0, <1>7 DEF Restart
  <2>6. UNCHANGED <<commits, executed>> /\ cut' \subseteq cut
    BY <1>7 DEF Restart
  <2> QED
    BY <2>2, <2>3, <2>4, <2>5, <2>6, ForgettingStep
<1>10. ASSUME NEW x \in Agents, CutOff(x) PROVE BackedInv'
  BY <1>0, <1>10, QuietStep DEF CutOff
<1>8. CASE Tick
  BY <1>0, <1>8, QuietStep DEF Tick
<1>9. CASE UNCHANGED vars
  BY <1>0, <1>9, QuietStep DEF vars
<1> QED
  BY <1>1, <1>2, <1>3, <1>4, <1>5, <1>6, <1>7, <1>8, <1>9, <1>10 DEF Next

THEOREM BackedInvariant == Spec => []BackedInv
BY InitBacked, StepKeepsBacked, PTL DEF Spec

----------------------------------------------------------------------------
(* What follows from it *)

\* handle_result() and commit_result(): behind every commit stand Quorum
\* different workers, with the scores they published.
THEOREM CommitsBacked == Spec => []CommitsAreBacked
<1>1. BackedInv => CommitsAreBacked
  BY DEF BackedInv
<1> QED
  BY <1>1, BackedInvariant, PTL

\* handle_result() publishes a commit in the step that reaches the quorum, as
\* long as the sentient can publish.
THEOREM DecidedPublished == Spec => []DecidedIsPublished
<1>1. BackedInv => DecidedIsPublished
  BY DEF BackedInv
<1> QED
  BY <1>1, BackedInvariant, PTL

\* Results that come after the commit make a sentient repeat it, never publish
\* another, as long as the session lasts.
THEOREM SessionCommits == Spec => SessionCommitsOnce
<1> DEFINE Once == \A s \in Sentients, p \in Programs, c \in commits' \ commits :
                     c.by = s /\ c.prog = p => ~box[s][p].decided
<1>1. ASSUME BackedInv, [Next]_vars PROVE Once
  <2>1. CASE commits' = commits
    BY <2>1
  <2>2. ASSUME NEW x \in Sentients, NEW m \in pending[x], NEW again,
               TallyResult(x, m, again)
        PROVE  Once
    <3>1. ~box[x][m.prog].decided
      BY <2>2 DEF TallyResult, Votes!Counts
    <3>2. \A c \in commits' \ commits : c.by = x /\ c.prog = m.prog
      BY <2>2 DEF TallyResult, Commit
    <3> QED
      BY <3>1, <3>2
  <2>3. ASSUME NEW x \in Sentients, NEW m \in pending[x], NEW again,
               Recommit(x, m, again)
        PROVE  Once
    <3>1. commits' = commits
      BY <1>1, <2>3, RecommitStep
    <3> QED
      BY <3>1
  <2>4. ASSUME NEW x \in Agents, NEW m \in pending[x], Handle(x, m)
        PROVE  Once
    <3> PICK again : \/ x \in Workers /\ WorkerStep(x, m, again)
                     \/ x \in Sentients /\ SentientStep(x, m, again)
                     \/ Enforced(x, m, again)
      BY <2>4 DEF Handle
    <3>1. \/ commits' = commits
          \/ x \in Sentients /\ (TallyResult(x, m, again) \/ Recommit(x, m, again))
      BY DEF WorkerStep, SentientStep, Ignore, Skip, Execute, Sign, DropResult,
             Enforced
    <3> QED
      BY <2>1, <2>2, <2>3, <3>1
  <2>5. \/ commits' = commits
        \/ \E x \in Agents : \E m \in pending[x] : Handle(x, m)
    BY <1>1 DEF Next, vars, Submit, Publish, Lose, Heard, Sweep, CutOff,
                  Restart, Tick
  <2> QED
    BY <2>1, <2>4, <2>5
<1> QED
  BY <1>1, BackedInvariant, PTL DEF Spec, SessionCommitsOnce
=============================================================================
