----------------------------- MODULE Detection -----------------------------
(***************************************************************************)
(* What makes one enforcer quarantine an agent by itself: messages that come *)
(* too fast, results that stand out, and identities that clash               *)
(* (roles/enforcer/enforcer_agent.c).  What it then broadcasts, and how      *)
(* quarantines end, is in Enforcement.                                       *)
(*                                                                         *)
(* Times are ages, which stop one beyond the longest window.  Left out:      *)
(* details of evidence, the count of warnings, which nothing but the API     *)
(* reads, and the vote on each result.                                       *)
(***************************************************************************)
EXTENDS Integers, Sequences, FiniteSets, FiniteSetsExt

CONSTANTS
  Agents,
  Machines,
  Protected,             \* agents named "sentient..."
  Fellows,               \* agents named "enforcer..."
  RATE_RING_SZ,
  RATE_MAX_MSGS,
  RATE_WINDOW_SEC,
  MAX_EVIDENCE,
  EvidenceWindow,        \* the hour that evidence counts
  QUARANTINE_THRESHOLD,
  OutlierThreshold,      \* outliers before a quarantine
  SCORE_MIN_SAMPLES,
  ZNum, ZDen,            \* SCORE_OUTLIER_Z squared, as a fraction
  MAX_THREAT_ENTRIES,
  MAX_IDENTITY_BINDINGS,
  Scores,                \* results, as multiples of some least score
  MaxSamples, MaxBurst   \* bounds, for model checking only

ASSUME DetectionAssumption ==
  /\ Protected \subseteq Agents /\ Fellows \subseteq Agents
  /\ {RATE_MAX_MSGS, MAX_EVIDENCE, QUARANTINE_THRESHOLD, OutlierThreshold,
      SCORE_MIN_SAMPLES, ZNum, ZDen, MAX_THREAT_ENTRIES,
      MAX_IDENTITY_BINDINGS} \subseteq Nat \ {0}
  /\ RATE_RING_SZ \in Nat /\ RATE_RING_SZ > RATE_MAX_MSGS
  /\ {RATE_WINDOW_SEC, EvidenceWindow} \subseteq Nat
  /\ Scores \subseteq Nat

VARIABLES
  threats,   \* g_threats: what is held of each agent
  bound,     \* g_mach_to_agent: pairs of a machine and an agent
  sent,      \* ghost: how many messages of each agent were sent how long ago
  offences   \* ghost: how often each was too fast or stood out how long ago

detectionVars == <<threats, bound, sent, offences>>

Times == INSTANCE Ring WITH Capacity <- RATE_RING_SZ

Old == Max({RATE_WINDOW_SEC, EvidenceWindow}) + 1

NoScores == [n |-> 0, sum |-> 0, squares |-> 0]

\* A slot of g_threats, or what threat_get() finds nothing for.
Unknown == [known |-> FALSE, quarantined |-> FALSE, rate |-> Times!EmptyRing,
            scores |-> NoScores, evidence |-> <<>>]

Never == [age \in 0..Old |-> 0]

DetectionInit ==
  /\ threats = [a \in Agents |-> Unknown]
  /\ bound = {}
  /\ sent = [a \in Agents |-> Never]
  /\ offences = [a \in Agents |-> [kind \in {"rate", "outlier"} |-> Never]]

HasSlot(a) ==
  \/ threats[a].known
  \/ Cardinality({b \in Agents : threats[b].known}) < MAX_THREAT_ENTRIES

-----------------------------------------------------------------------------
(* What each check makes of a slot *)

\* threat_add_evidence(): once the log is full it is always the first piece
\* that is overwritten.
WithEvidence(slot, kind) ==
  LET piece == [kind |-> kind, age |-> 0]
  IN [slot EXCEPT !.evidence = IF Len(@) < MAX_EVIDENCE THEN Append(@, piece)
                               ELSE [@ EXCEPT ![1] = piece]]

\* threat_count_evidence()
Evidence(slot, kind) ==
  Cardinality({i \in DOMAIN slot.evidence :
                 /\ slot.evidence[i].kind = kind
                 /\ slot.evidence[i].age <= EvidenceWindow})

\* do_quarantine(), once there is a slot.
Quarantined(a, slot) == IF a \in Protected THEN slot
                        ELSE [slot EXCEPT !.quarantined = TRUE]

\* Whatever is in the ring counts, however long ago it came.
BugRate(slot) == Len(slot.rate.entries)

\* rate_track(), once the message is in the ring.
Rate(slot) == Cardinality({i \in DOMAIN slot.rate.entries :
                             slot.rate.entries[i] <= RATE_WINDOW_SEC})

BugIsOften(slot, kind, threshold) == Evidence(slot, kind) > threshold

IsOften(slot, kind, threshold) == Evidence(slot, kind) >= threshold

\* Evidence of the kind, and quarantine or a mere warning for it.
Blamed(a, slot, kind, threshold) ==
  LET blamed == WithEvidence(slot, kind)
  IN IF IsOften(blamed, kind, threshold) THEN Quarantined(a, blamed) ELSE blamed

\* check_rate()
RateChecked(a, slot) ==
  LET tracked == [slot EXCEPT !.rate = Times!RingAdd(@, 0)]
  IN IF Rate(tracked) > RATE_MAX_MSGS
     THEN Blamed(a, tracked, "rate", QUARANTINE_THRESHOLD)
     ELSE tracked

\* "nan" is a number to sscanf(), and the sums do not recover from it.
NoNumber == -1

Poisoned == [n |-> NoNumber, sum |-> 0, squares |-> 0]

WithScore(scores, s) ==
  IF scores = Poisoned \/ s = NoNumber THEN Poisoned
  ELSE [n |-> scores.n + 1, sum |-> scores.sum + s,
        squares |-> scores.squares + s * s]

\* |s - mean| > Z * stddev, times the number of samples, squared.
IsOutlier(scores, s) ==
  /\ scores # Poisoned /\ scores.n >= SCORE_MIN_SAMPLES
  /\ LET distance == scores.n * s - scores.sum
         variance == scores.n * scores.squares - scores.sum * scores.sum
     IN variance > 0 /\ ZDen * distance * distance > ZNum * variance

\* check_score_outlier()
ScoreChecked(a, slot, s) ==
  LET scored == [slot EXCEPT !.scores = WithScore(@, s)]
  IN IF IsOutlier(scored.scores, s)
     THEN Blamed(a, scored, "outlier", OutlierThreshold)
     ELSE scored

-----------------------------------------------------------------------------
(* Identities *)

MachineTakenByOther(m, a) == \E b \in Agents \ {a} : <<m, b>> \in bound

\* Only one machine per agent is not looked at.
BugElsewhere(a, m) == FALSE

\* The agent is known from another machine.
Elsewhere(a, m) == \E k \in Machines \ {m} : <<k, a>> \in bound

\* ident_register(), for a pair that clashes with none.
Registered(m, a) ==
  IF <<m, a>> \in bound \/ Cardinality(bound) >= MAX_IDENTITY_BINDINGS
  THEN bound ELSE bound \union {<<m, a>>}

\* identity_verify_payload(): what it may find the payload to be.
Payloads == Machines \union {"none", "malformed", "tampered"}

IsClash(a, payload) ==
  payload \in Machines /\ (MachineTakenByOther(payload, a) \/ Elsewhere(a, payload))

\* check_identity()
IdentityChecked(a, slot, payload) ==
  CASE payload = "malformed" -> WithEvidence(slot, "identity")
    [] payload = "tampered" \/ IsClash(a, payload) ->
         Quarantined(a, WithEvidence(slot, "identity"))
    [] OTHER -> slot

Identified(a, payload) ==
  bound' = IF payload \in Machines /\ ~IsClash(a, payload)
           THEN Registered(payload, a) ELSE bound

-----------------------------------------------------------------------------
(* Messages *)

\* What is done to a's slot, if it has one or gets one.
Checked(a, slot) ==
  threats' = IF HasSlot(a) THEN [threats EXCEPT ![a] = [slot EXCEPT !.known = TRUE]]
             ELSE threats

Total(ages, window) == MapThenSumSet(LAMBDA age : ages[age], 0..window)

\* The ghosts count by themselves: too fast is what was sent too fast.
Note(a, outlier) ==
  LET IsFast == Total(sent[a], RATE_WINDOW_SEC) + 1 > RATE_MAX_MSGS
      Noted(counts, happened) ==
        IF happened /\ HasSlot(a) THEN [counts EXCEPT ![0] = @ + 1] ELSE counts
  IN /\ sent[a][0] < MaxBurst
     /\ sent' = [sent EXCEPT ![a] = Noted(@, TRUE)]
     /\ offences' = [offences EXCEPT ![a].rate = Noted(@, IsFast),
                                     ![a].outlier = Noted(@, outlier)]

\* MSG_ANNOUNCE; a payload that is fine makes no slot.
Announce(a, payload) ==
  /\ IF payload \in {"malformed", "tampered"} \/ IsClash(a, payload)
     THEN Checked(a, IdentityChecked(a, threats[a], payload))
     ELSE UNCHANGED threats
  /\ Identified(a, payload)
  /\ UNCHANGED <<sent, offences>>

\* MSG_HEARTBEAT, whose rate does not count from another enforcer.
Heartbeat(a, payload) ==
  /\ a \notin Fellows
  /\ Checked(a, RateChecked(a, IdentityChecked(a, threats[a], payload)))
  /\ Identified(a, payload)
  /\ Note(a, FALSE)

HeartbeatOfFellow(a, payload) == a \in Fellows /\ Announce(a, payload)

\* MSG_PROGRAM
Program(a) == /\ a \notin Fellows
              /\ Checked(a, RateChecked(a, threats[a]))
              /\ Note(a, FALSE) /\ UNCHANGED bound

\* MSG_RESULT
Result(a, s) ==
  /\ a \notin Fellows
  /\ threats[a].scores.n < MaxSamples
  /\ Checked(a, ScoreChecked(a, RateChecked(a, threats[a]), s))
  /\ Note(a, IsOutlier(WithScore(threats[a].scores, s), s))
  /\ UNCHANGED bound

\* MSG_ENFORCE "Q", from another enforcer.
Remote(a) ==
  /\ Checked(a, Quarantined(a, WithEvidence(threats[a], "remote")))
  /\ UNCHANGED <<bound, sent, offences>>

\* do_unquarantine(): the monitor, an operator, or MSG_ENFORCE "U".
Lift(a) == /\ threats[a].quarantined
           /\ threats' = [threats EXCEPT ![a].quarantined = FALSE]
           /\ UNCHANGED <<bound, sent, offences>>

Older(age) == IF age < Old THEN age + 1 ELSE age

OlderPiece(piece) == [piece EXCEPT !.age = Older(@)]

AgedCounts(ages) ==
  [age \in 0..Old |-> IF age = 0 THEN 0
                      ELSE IF age = Old THEN 0 ELSE ages[age - 1]]

\* Time passes.
DetectionTick ==
  /\ threats' = [a \in Agents |->
       [threats[a] EXCEPT
          !.rate.entries = [i \in DOMAIN @ |-> Older(@[i])],
          !.evidence = [i \in DOMAIN @ |-> OlderPiece(@[i])]]]
  /\ sent' = [a \in Agents |-> AgedCounts(sent[a])]
  /\ offences' = [a \in Agents |-> [kind \in {"rate", "outlier"} |->
                                      AgedCounts(offences[a][kind])]]
  /\ UNCHANGED bound

DetectionNext ==
  \/ \E a \in Agents :
       \/ \E payload \in Payloads :
            Announce(a, payload) \/ Heartbeat(a, payload)
            \/ HeartbeatOfFellow(a, payload)
       \/ Program(a)
       \/ \E s \in Scores \union {NoNumber} : Result(a, s)
       \/ Remote(a) \/ Lift(a)
  \/ DetectionTick

DetectionSpec == DetectionInit /\ [][DetectionNext]_detectionVars

-----------------------------------------------------------------------------
(* Correctness *)

DetectionTypeOK ==
  /\ \A a \in Agents :
       /\ {threats[a].known, threats[a].quarantined} \subseteq BOOLEAN
       /\ Len(threats[a].evidence) <= MAX_EVIDENCE
       /\ Len(threats[a].rate.entries) <= RATE_RING_SZ
  /\ Cardinality({a \in Agents : threats[a].known}) <= MAX_THREAT_ENTRIES
  /\ bound \subseteq Machines \X Agents
  /\ Cardinality(bound) <= MAX_IDENTITY_BINDINGS

\* "One node per machine" and the same name on the same machine, whatever came
\* in whatever order: the bindings are one to one (check_identity()).
BindingsOneToOne ==
  /\ DetectionTypeOK
  /\ \A p \in bound, q \in bound : p[1] = q[1] <=> p[2] = q[2]

Newly(a) == ~threats[a].quarantined /\ threats'[a].quarantined

Offences(a, kind) == Total(offences'[a][kind], EvidenceWindow)

\* The enforcer quarantines nobody on its own account who has not been too fast
\* QUARANTINE_THRESHOLD times, or stood out three times, within the hour, and
\* whose identity was neither forged nor taken (check_rate(),
\* check_score_outlier(), check_identity()): its rings and logs invent nothing.
QuarantinesAreBacked ==
  [][\A a \in Agents : Newly(a) =>
       \/ Offences(a, "rate") >= QUARANTINE_THRESHOLD
       \/ Offences(a, "outlier") >= OutlierThreshold
       \/ Remote(a)
       \/ \E payload \in Payloads :
            /\ payload = "tampered" \/ IsClash(a, payload)
            /\ Announce(a, payload) \/ Heartbeat(a, payload)
               \/ HeartbeatOfFellow(a, payload)]_detectionVars

\* Who is too fast once more, and now often enough, is quarantined by then, as
\* long as its evidence log is not full: from then on it may forget.
OffendersAreCaught ==
  [][\A a \in Agents \ Protected :
       /\ offences'[a].rate[0] > offences[a].rate[0]
       /\ Offences(a, "rate") >= QUARANTINE_THRESHOLD
       /\ Len(threats'[a].evidence) < MAX_EVIDENCE
       => threats'[a].quarantined]_detectionVars
=============================================================================
