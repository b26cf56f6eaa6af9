----------------------------- MODULE Consensus -----------------------------
(***************************************************************************)
(* One round of the collective: a client publishes a program, a sentient    *)
(* signs it and publishes it again, workers execute every copy they accept  *)
(* and publish results, and the sentient tallies the results (edge/vote.c,  *)
(* here as its abstract specification Tally) and publishes what it commits. *)
(*                                                                         *)
(* Agents share nothing: they meet only through the broker.  pending[x] is  *)
(* what was published and x has not yet handled: held by the broker (which  *)
(* keeps it across a restart of x, as agents connect without the            *)
(* clean-session flag) or queued by x's transport.  QoS 1 redelivers:       *)
(* a handled message may stay pending.  Handling is one atomic step, since  *)
(* an agent is one thread that takes messages off its queue one by one.     *)
(*                                                                         *)
(* Abstracted: what a program computes (a worker's score is any of Scores,  *)
(* as its data may change between two runs); the score of a commit, which   *)
(* the sentient computes from the votes it commits and nothing else; a      *)
(* worker's own tally of results, which it only prints.                     *)
(***************************************************************************)
EXTENDS Naturals, Sequences, FiniteSets

CONSTANTS
  Workers, Sentients, Clients,
  NamedSentients,  \* the sentients whose name starts with "sentient"
  Programs,        \* program bodies, told apart by their hash
  Scores,
  HasKey,          \* whether the sentients have a signing key
  RequireSigned,   \* the workers' --require-signed
  Announcers,      \* agents that send heartbeats
  Targets,         \* agents that enforcement messages are about
  Quorum, MaxSessions, MaxVoters, MaxAge,  \* of every sentient's tally
  MaxPeers, StaleAfter,                    \* of every agent's peer table
  Redelivery,      \* whether QoS 1 may deliver a message again
  QueueSize,       \* slots of the receive queue other traffic leaves free
  MaxTime, MaxFailures  \* bounds, for model checking only

Agents == Workers \cup Sentients

ASSUME NamesAssumption ==
  /\ NamedSentients \subseteq Sentients
  /\ Workers \cap Sentients = {}
  /\ {HasKey, RequireSigned, Redelivery} \subseteq BOOLEAN

VARIABLES
  pending,   \* per agent, the messages it has yet to handle
  box,       \* per sentient, g_votes
  peers,     \* per agent, g_peers
  commits,   \* everything published on nml/committed/#
  executed,  \* ghost: every result a worker ever published
  now,
  cut,       \* the agents whose MQTT client has failed
  restarts

vars == <<pending, box, peers, commits, executed, now, cut, restarts>>

Votes == INSTANCE Tally WITH Agents <- Workers
Table == INSTANCE PeerSlots
           WITH Names <- Workers \cup Sentients \cup Clients \cup Announcers

Program(from, p, signed) ==
  [kind |-> "PROGRAM", from |-> from, prog |-> p, signed |-> signed]
Result(from, p, x) ==
  [kind |-> "RESULT", from |-> from, prog |-> p, score |-> x]
Enforce(type, target) == [kind |-> "ENFORCE", type |-> type, target |-> target]
Commit(s, p, b) == [by |-> s, prog |-> p, votes |-> b.votes]

Init == /\ pending = [x \in Agents |-> {}]
        /\ box = [s \in Sentients |-> Votes!NoBallots]
        /\ peers = [x \in Agents |-> <<>>]
        /\ commits = {}
        /\ executed = {}
        /\ now = 0
        /\ cut = {}
        /\ restarts = 0

----------------------------------------------------------------------------
(* The network *)

\* Everybody subscribes to nml/#; an agent's own messages come back to it and
\* are ignored on arrival.  Workers ignore each other's results.
Receivers(m) ==
  CASE m.kind = "PROGRAM" -> Agents \ {m.from}
    [] m.kind = "RESULT"  -> Sentients
    [] m.kind = "ENFORCE" -> Agents

Plus(net, m) ==
  [x \in Agents |-> IF x \in Receivers(m) THEN net[x] \cup {m} ELSE net[x]]

\* m is handled by x, and maybe not for the last time.
Taken(x, m, again) ==
  IF again THEN pending ELSE [pending EXCEPT ![x] = @ \ {m}]

Again == IF Redelivery THEN BOOLEAN ELSE {FALSE}

\* on_publish() drops what finds the queue full.
Lose(x, m) == /\ m \in pending[x]
              /\ Cardinality(pending[x]) > QueueSize
              /\ pending' = [pending EXCEPT ![x] = @ \ {m}]
              /\ UNCHANGED <<box, peers, commits, executed, now, cut, restarts>>

\* A client (an architect, the emissary, program_send) publishes unsigned.
Submit(c, p) ==
  /\ pending' = Plus(pending, Program(c, p, FALSE))
  /\ UNCHANGED <<box, peers, commits, executed, now, cut, restarts>>

\* An enforcer publishes "Q" or "U".
Publish(type, target) ==
  /\ pending' = Plus(pending, Enforce(type, target))
  /\ UNCHANGED <<box, peers, commits, executed, now, cut, restarts>>

----------------------------------------------------------------------------
(* What every agent does *)

\* The "Q" and "U" branches of the MSG_ENFORCE handler.
Enforced(x, m, again) ==
  /\ m.kind = "ENFORCE"
  /\ pending' = Taken(x, m, again)
  /\ peers' = [peers EXCEPT ![x] =
                 IF m.type = "Q" THEN Table!PeerQuarantine(@, m.target)
                                 ELSE Table!PeerLift(@, m.target)]
  /\ UNCHANGED <<box, commits, executed, now, cut, restarts>>

\* MSG_ANNOUNCE and MSG_HEARTBEAT.
Heard(x, n) ==
  /\ x # n
  /\ peers' = [peers EXCEPT ![x] = Table!PeerUpsert(@, n, now)]
  /\ UNCHANGED <<pending, box, commits, executed, now, cut, restarts>>

\* The guard of the workers' MSG_PROGRAM case.
Refuses(x, n) == /\ Table!PeerKnown(peers[x], n)
                 /\ peers[x][Table!PeerSlotGot(peers[x], n)].quarantined

\* The periodic sweep; a sentient expires its tally in the same breath.
Sweep(x) ==
  /\ peers' = [peers EXCEPT ![x] = Table!PeerSweep(@, now)]
  /\ box' = [s \in Sentients |->
               IF s = x THEN Votes!Purged(box[s], now) ELSE box[s]]
  /\ UNCHANGED <<pending, commits, executed, now, cut, restarts>>

\* x's link fails, or a publication that does not fit its client: the client's
\* error stays.  x handles what its queue still holds and publishes nothing, as
\* nobody looks at what mqtt_publish() returns; a sentient then leaves its loop.
CutOff(x) ==
  /\ x \notin cut /\ restarts + Cardinality(cut) < MaxFailures
  /\ cut' = cut \cup {x}
  /\ UNCHANGED <<pending, box, peers, commits, executed, now, restarts>>

\* A crash, or a new start of one that is cut off, loses the tables and what the
\* queue held; the broker has the rest.
Restart(x) ==
  /\ x \in cut \/ restarts + Cardinality(cut) < MaxFailures
  /\ cut' = cut \ {x}
  /\ restarts' = restarts + 1
  /\ \E lost \in SUBSET pending[x] :
       /\ Cardinality(lost) <= QueueSize
       /\ pending' = [pending EXCEPT ![x] = @ \ lost]
  /\ peers' = [peers EXCEPT ![x] = <<>>]
  /\ box' = [s \in Sentients |-> IF s = x THEN Votes!NoBallots ELSE box[s]]
  /\ UNCHANGED <<commits, executed, now>>

Tick == /\ now < MaxTime
        /\ now' = now + 1
        /\ UNCHANGED <<pending, box, peers, commits, executed, cut, restarts>>

----------------------------------------------------------------------------
(* A worker *)

Accepts(w, m) == ~Refuses(w, m.from) /\ (m.signed \/ ~RequireSigned)

Ignore(w, m, again) ==
  /\ m.kind = "PROGRAM"
  /\ ~Accepts(w, m)
  /\ pending' = Taken(w, m, again)
  /\ UNCHANGED <<box, peers, commits, executed, now, cut, restarts>>

\* handle_program() to its end: nothing remembers which hashes were executed.
Execute(w, m, x, again) ==
  /\ m.kind = "PROGRAM"
  /\ Accepts(w, m) /\ w \notin cut
  /\ pending' = Plus(Taken(w, m, again), Result(w, m.prog, x))
  /\ executed' = executed \cup {Result(w, m.prog, x)}
  /\ UNCHANGED <<box, peers, commits, now, cut, restarts>>

\* No data, a data key missing, the execution failed, or its result could not be
\* published.
Skip(w, m, again) ==
  /\ m.kind = "PROGRAM"
  /\ Accepts(w, m)
  /\ pending' = Taken(w, m, again)
  /\ UNCHANGED <<box, peers, commits, executed, now, cut, restarts>>

----------------------------------------------------------------------------
(* A sentient *)

\* The case MSG_PROGRAM: sign_and_broadcast().  Its governance vote is left
\* out: MSG_VOTE has no topic and mqtt_transport_publish() refuses it.
Sign(s, m, again) ==
  /\ m.kind = "PROGRAM"
  /\ pending' = IF m.from \in NamedSentients \/ s \in cut
                THEN Taken(s, m, again)
                ELSE Plus(Taken(s, m, again), Program(s, m.prog, HasKey))
  /\ UNCHANGED <<box, peers, commits, executed, now, cut, restarts>>

Tallied(s, m) == Votes!Counted(box[s], m.prog, m.from, m.score, now)

BugCommitsAnyway(s, m, again) ==
  /\ m.kind = "RESULT"
  /\ Votes!Counts(box[s], m.prog, m.from)
  /\ pending' = Taken(s, m, again)
  /\ box' = [box EXCEPT ![s] = Tallied(s, m)]
  /\ commits' = commits \cup {Commit(s, m.prog, box'[s][m.prog])}
  /\ UNCHANGED <<peers, executed, now, cut, restarts>>

BugCommitForgotten(s, m, again) ==
  /\ m.kind = "RESULT"
  /\ Votes!Counts(box[s], m.prog, m.from)
  /\ pending' = Taken(s, m, again)
  /\ box' = [box EXCEPT ![s] = Tallied(s, m)]
  /\ UNCHANGED <<commits, peers, executed, now, cut, restarts>>

\* handle_result() with a vote that counts, and commits on quorum.
TallyResult(s, m, again) ==
  /\ m.kind = "RESULT"
  /\ Votes!Counts(box[s], m.prog, m.from)
  /\ pending' = Taken(s, m, again)
  /\ box' = [box EXCEPT ![s] = Tallied(s, m)]
  /\ commits' = IF box'[s][m.prog].decided /\ s \notin cut
                THEN commits \cup {Commit(s, m.prog, box'[s][m.prog])}
                ELSE commits
  /\ UNCHANGED <<peers, executed, now, cut, restarts>>

BugRecommitsNewVote(s, m, again) ==
  /\ m.kind = "RESULT"
  /\ box[s][m.prog].decided
  /\ pending' = Taken(s, m, again)
  /\ commits' = commits \cup {Commit(s, m.prog, Tallied(s, m)[m.prog])}
  /\ UNCHANGED <<box, peers, executed, now, cut, restarts>>

\* vote_add() says 1 for a decided program, so it is committed once more.
Recommit(s, m, again) ==
  /\ m.kind = "RESULT"
  /\ box[s][m.prog].decided
  /\ pending' = Taken(s, m, again)
  /\ commits' = IF s \in cut THEN commits
                ELSE commits \cup {Commit(s, m.prog, box[s][m.prog])}
  /\ UNCHANGED <<box, peers, executed, now, cut, restarts>>

\* A duplicate, or no room: vote_add() says -1 or -2.
DropResult(s, m, again) ==
  /\ m.kind = "RESULT"
  /\ ~box[s][m.prog].decided
  /\ ~Votes!Counts(box[s], m.prog, m.from)
  /\ pending' = Taken(s, m, again)
  /\ UNCHANGED <<box, peers, commits, executed, now, cut, restarts>>

----------------------------------------------------------------------------
WorkerStep(w, m, again) == \/ Ignore(w, m, again)
                           \/ Skip(w, m, again)
                           \/ \E x \in Scores : Execute(w, m, x, again)

SentientStep(s, m, again) == \/ Sign(s, m, again)
                             \/ TallyResult(s, m, again)
                             \/ Recommit(s, m, again)
                             \/ DropResult(s, m, again)

\* Agent x takes one message off its queue.
Handle(x, m) ==
  /\ m \in pending[x]
  /\ \E again \in Again :
       \/ x \in Workers /\ WorkerStep(x, m, again)
       \/ x \in Sentients /\ SentientStep(x, m, again)
       \/ Enforced(x, m, again)

Next == \/ \E c \in Clients, p \in Programs : Submit(c, p)
        \/ \E type \in {"Q", "U"}, n \in Targets : Publish(type, n)
        \/ \E x \in Agents : \/ \E m \in pending[x] : Handle(x, m) \/ Lose(x, m)
                             \/ \E n \in Announcers : Heard(x, n)
                             \/ Sweep(x)
                             \/ CutOff(x)
                             \/ Restart(x)
        \/ Tick

Spec == Init /\ [][Next]_vars

Messages ==
  {Program(a, p, b) : a \in Clients \cup Sentients, p \in Programs,
                      b \in BOOLEAN}
  \cup {Result(w, p, x) : w \in Workers, p \in Programs, x \in Scores}
  \cup {Enforce(t, n) : t \in {"Q", "U"}, n \in Targets}

\* What is assumed: a sentient's loop keeps taking the results off its queue,
\* and the queue does not lose the same result for ever, however often it is
\* published again: hence strong fairness.
FairSpec ==
  /\ Spec
  /\ \A s \in Sentients : \A m \in Messages :
       m.kind = "RESULT" => SF_vars(Handle(s, m))

----------------------------------------------------------------------------
Results == {Result(w, p, x) : w \in Workers, p \in Programs, x \in Scores}

TypeOK == /\ pending \in [Agents -> SUBSET Messages]
          /\ executed \subseteq Results
          /\ cut \subseteq Agents
          /\ DOMAIN box = Sentients
          /\ \A s \in Sentients : DOMAIN box[s] = Programs

\* Nothing is committed on hearsay: behind every commit stand at least Quorum
\* different workers, each of which executed that program and published just
\* the score the commit counts for it, whatever was duplicated, delayed or lost
\* and however often sessions expired and the sentient restarted.
CommitsAreBacked ==
  \A c \in commits :
    /\ Cardinality(DOMAIN c.votes) >= Quorum
    /\ \A w \in DOMAIN c.votes : Result(w, c.prog, c.votes[w]) \in executed

\* A sentient never holds a decided tally it has not published, unless it can
\* publish no more.
DecidedIsPublished ==
  \A s \in Sentients \ cut, p \in Programs :
    box[s][p].decided => Commit(s, p, box[s][p]) \in commits

\* Every vote a tally holds was published by its voter.
Truthful(b, p) ==
  \A w \in DOMAIN b.votes : Result(w, p, b.votes[w]) \in executed

\* A tally is decided by a quorum only.
BallotOK(b, p) == /\ Truthful(b, p)
                  /\ b.decided => Cardinality(DOMAIN b.votes) >= Quorum

\* A result in the network, however often it is delivered, was published by
\* the worker it names.
PendingBacked ==
  \A x \in Agents : \A m \in pending[x] : m.kind = "RESULT" => m \in executed

TalliesOK == \A s \in Sentients, p \in Programs : BallotOK(box[s][p], p)

\* The inductive invariant.  A commit is as good as the tally it is copied from,
\* a tally as good as the results counted in it, a result as good as its sender.
BackedInv == /\ TypeOK
             /\ PendingBacked
             /\ TalliesOK
             /\ CommitsAreBacked
             /\ DecidedIsPublished

\* While the session lasts, late and duplicate results make the sentient repeat
\* its commit, never publish a different one.
SessionCommitsOnce ==
  [][\A s \in Sentients, p \in Programs, c \in commits' \ commits :
       c.by = s /\ c.prog = p => ~box[s][p].decided]_vars

\* Results of Quorum workers, counted or on their way, end in a commit, unless
\* some of them are lost (overflow, expiry, restart) before they are counted or
\* the sentient can publish no more.
HeardFrom(s, p) ==
  DOMAIN box[s][p].votes \cup
    {w \in Workers : \E x \in Scores : Result(w, p, x) \in pending[s]}

EnoughIsCommitted ==
  \A s \in Sentients, p \in Programs :
    Cardinality(HeardFrom(s, p)) >= Quorum
    ~> \/ \E c \in commits : c.by = s /\ c.prog = p
       \/ Cardinality(HeardFrom(s, p)) < Quorum
       \/ s \in cut

=============================================================================
