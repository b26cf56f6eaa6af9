----------------------------- MODULE AgentProofs -----------------------------
(***************************************************************************)
(* Three agents and the tables each keeps for itself.                       *)
(*                                                                         *)
(* The herald's records, the password file, the ACL file and the broker      *)
(* agree, for any names, of which any may look the same to cred_find(), any  *)
(* room for records, and any crashes, restarts and failed deletions.  The    *)
(* enforcer binds a machine to one agent and an agent to one machine, and    *)
(* quarantines on its own account those who gave cause and no others, for    *)
(* any arrays.  The oracle's sessions, its trust in voters and what it told  *)
(* its subscribers are in step, for any scores and any number of sessions.   *)
(***************************************************************************)
EXTENDS Herald, Detection, Oracle, ScanProofs, SequenceTheorems,
        FiniteSetTheorems

(* The herald: roles/herald/herald_agent.c *)

Credential == [name : Names, privileged : BOOLEAN, left : 0..TTL]

\* A record is kept under what cred_find() sees of its own name.
Keyed(table) == \A k \in DOMAIN table : Prefix[table[k].name] = k

TableOK(table) == /\ DOMAIN table \subseteq Names
                  /\ \A k \in DOMAIN table : table[k] \in Credential
                  /\ IsFiniteSet(DOMAIN table)
                  /\ Cardinality(DOMAIN table) <= MaxCreds
                  /\ Keyed(table)

LoopOK == /\ running \in BOOLEAN
          /\ step \in {"select", "check", "expire", "last", "over"}

BrokerOK == /\ child \in {"none", "up", "exited"} /\ orphan \in BOOLEAN
            /\ restarts \in 0..MaxRestarts /\ delay \in 0..RestartDelay

\* The inductive invariant.  Two records never have the same name because each
\* is kept under its own prefix: a login that is deleted is no other record's.
\* A broker that starts loads the ACL file, which is that of the records for as
\* long as the herald runs.
CredInv == /\ TableOK(creds) /\ LoopOK /\ BrokerOK
           /\ passwd \subseteq Names /\ acl \subseteq Names /\ excused \subseteq Names
           /\ Recorded \subseteq passwd
           /\ passwd \subseteq Recorded \union excused
           /\ ServedIsCurrent
           /\ running => acl = Privileged(creds)

\* The names of the records, and the privileged ones among them.
LEMMA TableFacts ==
  ASSUME NEW table, TableOK(table)
  PROVE  /\ {table[k].name : k \in DOMAIN table} \subseteq Names
         /\ Privileged(table) \subseteq Names
BY DEF TableOK, Credential, Privileged

LEMMA Numbers == MaxCreds \in Nat /\ MaxRestarts \in Nat /\ MaxRestarts >= 1
                 /\ TTL \in Nat /\ RestartDelay \in Nat
BY HeraldAssumption

\* Without a record there is nothing to get wrong.
LEMMA NoRecords ==
  TableOK(NoCreds) /\ {NoCreds[k].name : k \in DOMAIN NoCreds} = {}
<1>1. DOMAIN NoCreds = {}
  BY DEF NoCreds
<1> QED
  BY <1>1, FS_EmptySet, Numbers DEF TableOK, Keyed

\* With fewer records a table stays in order.
LEMMA FewerRecords ==
  ASSUME NEW table, TableOK(table), NEW gone
  PROVE  TableOK([k \in DOMAIN table \ gone |-> table[k]])
<1> DEFINE fewer == [k \in DOMAIN table \ gone |-> table[k]]
<1>1. DOMAIN fewer = DOMAIN table \ gone /\ DOMAIN fewer \subseteq DOMAIN table
  OBVIOUS
<1>2. \A k \in DOMAIN fewer : fewer[k] = table[k]
  OBVIOUS
<1>3. /\ IsFiniteSet(DOMAIN fewer)
      /\ Cardinality(DOMAIN fewer) <= Cardinality(DOMAIN table)
      /\ Cardinality(DOMAIN fewer) \in Nat /\ Cardinality(DOMAIN table) \in Nat
  BY <1>1, FS_Subset, FS_CardinalityType DEF TableOK
<1>4. Cardinality(DOMAIN fewer) <= MaxCreds
  BY <1>3, Numbers DEF TableOK
<1> HIDE DEF fewer
<1>5. TableOK(fewer)
  BY <1>1, <1>2, <1>3, <1>4 DEF TableOK, Keyed
<1> QED
  BY <1>5 DEF fewer

\* cred_issue() finds room, and keeps the table in order.
LEMMA OneMoreRecord ==
  ASSUME CredInv, NEW n \in Names, NEW privileged \in BOOLEAN, HasRoom(n),
         NEW table,
         table = [k \in DOMAIN creds \union {Prefix[n]} |->
                   IF k = Prefix[n] THEN Record(n, privileged) ELSE creds[k]]
  PROVE  TableOK(table)
<1>1. /\ Prefix[n] \in Names /\ TableOK(creds)
      /\ IsFiniteSet(DOMAIN creds) /\ Cardinality(DOMAIN creds) \in Nat
      /\ Cardinality(DOMAIN creds) <= MaxCreds
  BY HeraldAssumption, FS_CardinalityType DEF CredInv, TableOK
<1>2. /\ DOMAIN table = DOMAIN creds \union {Prefix[n]}
      /\ table[Prefix[n]] = Record(n, privileged)
      /\ \A k \in DOMAIN table : k # Prefix[n] => k \in DOMAIN creds /\ table[k] = creds[k]
  OBVIOUS
<1>3. /\ IsFiniteSet(DOMAIN table)
      /\ Cardinality(DOMAIN table) =
           IF Prefix[n] \in DOMAIN creds THEN Cardinality(DOMAIN creds)
           ELSE Cardinality(DOMAIN creds) + 1
  BY <1>1, <1>2, FS_AddElement
<1>4. Cardinality(DOMAIN table) <= MaxCreds
  BY <1>1, <1>3, Numbers DEF HasRoom
<1>5. Record(n, privileged) \in Credential
  BY Numbers DEF Record, Credential
<1>6. \A k \in DOMAIN table : table[k] \in Credential
  BY <1>1, <1>2, <1>5 DEF TableOK
<1>7. Keyed(table)
  BY <1>1, <1>2 DEF TableOK, Keyed, Record
<1> QED
  BY <1>1, <1>2, <1>3, <1>4, <1>6, <1>7 DEF TableOK

\* A change of the records, after which the ACL file is written and the broker
\* told, keeps everything in agreement if the logins are accounted for.
LEMMA RecordsChange ==
  ASSUME CredInv, TableOK(creds'), LoopOK',
         UNCHANGED <<child, orphan, restarts, delay>>,
         passwd' \subseteq Names, excused' \subseteq Names,
         Recorded' \subseteq passwd', passwd' \subseteq Recorded' \union excused',
         acl' = Privileged(creds'), Reload
  PROVE  CredInv'
<1>1. acl' \subseteq Names
  BY TableFacts
<1>2. BrokerOK'
  BY DEF CredInv, BrokerOK
<1>3. ServedIsCurrent'
  BY DEF ServedIsCurrent, Reload, Files
<1> QED
  BY <1>1, <1>2, <1>3 DEF CredInv

\* A step that leaves the records and the files alone.
LEMMA RecordsStay ==
  ASSUME CredInv, UNCHANGED <<creds, passwd, excused>>, LoopOK', BrokerOK',
         acl' = Privileged(creds) \/ (acl' = acl /\ (running' => running)),
         child' = "up" =>
           \/ child = "up" /\ loaded' = loaded
           \/ loaded' = Files(passwd, Privileged(creds))
  PROVE  CredInv'
<1>1. acl' \subseteq Names /\ (running' => acl' = Privileged(creds'))
  BY TableFacts DEF CredInv
<1>2. ServedIsCurrent'
  BY DEF CredInv, ServedIsCurrent, Files, Recorded
<1> QED
  BY <1>1, <1>2 DEF CredInv, Recorded

LEMMA IssueKeeps ==
  ASSUME CredInv, NEW n \in Names, NEW privileged \in BOOLEAN, Issue(n, privileged),
         LoopOK', running' => running, UNCHANGED <<child, orphan, restarts, delay>>
  PROVE  CredInv'
<1>1. CASE HasRoom(n)
  <2> DEFINE p == Prefix[n]
  <2>1. /\ creds' = [k \in DOMAIN creds \union {p} |->
                      IF k = p THEN Record(n, privileged) ELSE creds[k]]
        /\ passwd' = passwd \union {n}
        /\ excused' = (excused \union Forgotten(n)) \ {n}
        /\ acl' = Privileged(creds') /\ Reload
    BY <1>1 DEF Issue
  <2>2. TableOK(creds')
    BY <1>1, <2>1, OneMoreRecord
  <2>3. /\ DOMAIN creds' = DOMAIN creds \union {p}
        /\ creds'[p].name = n
        /\ \A k \in DOMAIN creds' : k # p => k \in DOMAIN creds /\ creds'[k] = creds[k]
        /\ \A k \in DOMAIN creds : k # p => creds'[k] = creds[k]
    BY <2>1 DEF Record
  <2>4. Recorded' \subseteq passwd'
    BY <2>1, <2>3 DEF CredInv, Recorded
  <2>5. Forgotten(n) \subseteq Names
    BY DEF CredInv, TableOK, Credential, Forgotten
  <2>6. passwd' \subseteq Recorded' \union excused'
    <3> SUFFICES ASSUME NEW m \in passwd, m # n, m \notin excused'
                 PROVE  m \in Recorded'
      BY <2>1, <2>3 DEF Recorded
    <3>1. m \in Recorded /\ m \notin Forgotten(n)
      BY <2>1 DEF CredInv
    <3>2. PICK k \in DOMAIN creds : m = creds[k].name
      BY <3>1 DEF Recorded
    <3>3. k # p
      BY <3>1, <3>2 DEF Forgotten
    <3> QED
      BY <2>3, <3>2, <3>3 DEF Recorded
  <2>7. passwd' \subseteq Names /\ excused' \subseteq Names
    BY <2>1, <2>5 DEF CredInv
  <2> QED
    BY <2>1, <2>2, <2>4, <2>6, <2>7, RecordsChange
<1>2. CASE ~HasRoom(n)
  <2>1. /\ passwd' = passwd \union {n} /\ excused' = excused \union {n}
        /\ UNCHANGED <<creds, acl, loaded>>
    BY <1>2 DEF Issue
  <2>2. BrokerOK' /\ ServedIsCurrent'
    BY <2>1 DEF CredInv, BrokerOK, ServedIsCurrent, Recorded
  <2> QED
    BY <2>1, <2>2 DEF CredInv, Recorded
<1> QED
  BY <1>1, <1>2

\* Deleting logins with their records: whose deletion failed is excused, and so is
\* a login whose record went for another's sake.
LEMMA RecordsGo ==
  ASSUME CredInv, NEW keys, NEW gone \in SUBSET Names, NEW failed \in SUBSET gone,
         NEW forgotten \in SUBSET Names,
         creds' = [k \in DOMAIN creds \ keys |-> creds[k]],
         Dropped(gone, failed, forgotten),
         \A k \in DOMAIN creds : k \notin keys => creds[k].name \notin gone,
         \A k \in DOMAIN creds \cap keys : creds[k].name \in gone \union forgotten,
         acl' = Privileged(creds'), Reload,
         LoopOK', UNCHANGED <<child, orphan, restarts, delay>>
  PROVE  CredInv'
<1>1. TableOK(creds')
  BY FewerRecords DEF CredInv
<1>2. /\ passwd' = passwd \ (gone \ failed)
      /\ excused' = (excused \ (gone \ failed)) \union (failed \cap passwd)
                                                \union forgotten
  BY DEF Dropped
<1>3. /\ DOMAIN creds' = DOMAIN creds \ keys
      /\ \A k \in DOMAIN creds' : creds'[k] = creds[k]
  OBVIOUS
<1>4. Recorded' \subseteq passwd'
  BY <1>2, <1>3 DEF CredInv, Recorded
<1>5. passwd' \subseteq Recorded' \union excused'
  <2> SUFFICES ASSUME NEW m \in passwd', m \notin excused'
               PROVE  m \in Recorded'
    OBVIOUS
  <2>1. m \in passwd /\ m \notin gone /\ m \notin forgotten /\ m \notin excused
    BY <1>2
  <2>2. PICK k \in DOMAIN creds : m = creds[k].name
    BY <2>1 DEF CredInv, Recorded
  <2>3. k \notin keys
    BY <2>1, <2>2
  <2> QED
    BY <1>3, <2>2, <2>3 DEF Recorded
<1>6. passwd' \subseteq Names /\ excused' \subseteq Names
  BY <1>2 DEF CredInv
<1> QED
  BY <1>1, <1>4, <1>5, <1>6, RecordsChange

LEMMA RevokeKeeps ==
  ASSUME CredInv, NEW n \in Names, NEW failed \in SUBSET {n}, Revoke(n, failed),
         LoopOK', UNCHANGED <<child, orphan, restarts, delay>>
  PROVE  CredInv'
<1> DEFINE keys == {Prefix[n]}
           gone == {n}
           forgotten == Forgotten(n)
<1>1. /\ creds' = [k \in DOMAIN creds \ keys |-> creds[k]]
      /\ Dropped(gone, failed, forgotten)
      /\ acl' = Privileged(creds') /\ Reload
  BY DEF Revoke
<1>2. forgotten \in SUBSET Names /\ gone \in SUBSET Names /\ failed \in SUBSET gone
  BY DEF CredInv, TableOK, Credential, Forgotten
<1>3. \A k \in DOMAIN creds : k \notin keys => creds[k].name \notin gone
  BY DEF CredInv, TableOK, Keyed
<1>4. \A k \in DOMAIN creds \cap keys : creds[k].name \in gone \union forgotten
  BY DEF Forgotten
<1> HIDE DEF keys, gone, forgotten
<1> QED
  BY <1>1, <1>2, <1>3, <1>4, RecordsGo

LEMMA ExpireKeeps ==
  ASSUME CredInv, ExpireCheck
  PROVE  CredInv'
<1>1. /\ LoopOK' /\ running' = running /\ UNCHANGED <<child, orphan, restarts, delay>>
  BY DEF ExpireCheck, CredInv, LoopOK, InLoop, brokerVars
<1>2. CASE Expired = {}
  <2>1. UNCHANGED <<creds, passwd, acl, excused, loaded>>
    BY <1>2 DEF ExpireCheck, credVars
  <2>2. BrokerOK'
    BY <1>1 DEF CredInv, BrokerOK
  <2> QED
    BY <1>1, <2>1, <2>2, RecordsStay
<1>3. CASE Expired # {}
  <2> DEFINE gone == {creds[k].name : k \in Expired}
  <2>1. PICK failed \in SUBSET gone : Dropped(gone, failed, {})
    BY <1>3 DEF ExpireCheck
  <2>2. /\ creds' = [k \in DOMAIN creds \ Expired |-> creds[k]]
        /\ acl' = Privileged(creds') /\ Reload
    BY <1>3 DEF ExpireCheck
  <2>3. gone \subseteq Names
    BY DEF CredInv, TableOK, Credential, Expired
  <2>4. \A k \in DOMAIN creds : k \notin Expired => creds[k].name \notin gone
    BY DEF CredInv, TableOK, Keyed, Expired
  <2>5. \A k \in DOMAIN creds \cap Expired : creds[k].name \in gone \union {}
    OBVIOUS
  <2> HIDE DEF gone
  <2> QED
    BY <1>1, <2>1, <2>2, <2>3, <2>4, <2>5, RecordsGo
<1> QED
  BY <1>2, <1>3

LEMMA ServeKeeps ==
  ASSUME CredInv, Serve
  PROVE  CredInv'
<1>1. /\ LoopOK' /\ running' = running /\ UNCHANGED <<child, orphan, restarts, delay>>
  BY DEF Serve, CredInv, LoopOK, InLoop, brokerVars
<1>2. CASE \E n \in Names, privileged \in BOOLEAN : Issue(n, privileged)
  BY <1>1, <1>2, IssueKeeps
<1>3. CASE \E n \in Names : \E failed \in SUBSET {n} : Revoke(n, failed)
  BY <1>1, <1>3, RevokeKeeps
<1>4. CASE UNCHANGED <<credVars, loaded>>
  <2>1. BrokerOK'
    BY <1>1 DEF CredInv, BrokerOK
  <2> QED
    BY <1>1, <1>4, <2>1, RecordsStay DEF credVars
<1> QED
  BY <1>2, <1>3, <1>4 DEF Serve, PasswdFails

\* The broker is started, found dead or alive, or dies.
LEMMA BrokerKeeps ==
  ASSUME CredInv,
         \/ TooEarly \/ StartBroker \/ ForkFails \/ GiveUp \/ IsUp
         \/ BrokerDies \/ OrphanDies
  PROVE  CredInv'
<1>1. /\ UNCHANGED <<creds, passwd, acl, excused>> /\ running' = running /\ LoopOK'
  BY DEF TooEarly, StartBroker, ForkFails, GiveUp, IsUp, BrokerDies, OrphanDies,
         credVars, CredInv, LoopOK, InLoop
<1>2. CASE StartBroker
  <2>1. /\ child' = IF orphan THEN "exited" ELSE "up"
        /\ loaded' = IF orphan THEN NoFiles ELSE Files(passwd, acl)
        /\ restarts' = restarts + 1 /\ delay' = RestartDelay /\ orphan' = orphan
        /\ restarts < MaxRestarts /\ running
    BY <1>2 DEF StartBroker, Fork, InLoop
  <2>2. BrokerOK'
    BY <2>1, Numbers DEF CredInv, BrokerOK
  <2>3. child' = "up" => loaded' = Files(passwd, Privileged(creds))
    BY <2>1 DEF CredInv
  <2> QED
    BY <1>1, <2>2, <2>3, RecordsStay
<1>3. CASE TooEarly \/ ForkFails \/ GiveUp
  <2>1. child' = "none" /\ UNCHANGED <<loaded, orphan, restarts, delay>>
    BY <1>3 DEF TooEarly, ForkFails, GiveUp
  <2>2. BrokerOK'
    BY <2>1 DEF CredInv, BrokerOK
  <2> QED
    BY <1>1, <2>1, <2>2, RecordsStay
<1>4. CASE IsUp \/ BrokerDies \/ OrphanDies
  <2>1. /\ (child' = child /\ loaded' = loaded) \/ child' = "exited"
        /\ orphan' \in {orphan, FALSE} /\ UNCHANGED <<restarts, delay>>
    BY <1>4 DEF IsUp, BrokerDies, OrphanDies, brokerVars
  <2>2. BrokerOK'
    BY <2>1 DEF CredInv, BrokerOK
  <2> QED
    BY <1>1, <2>1, <2>2, RecordsStay
<1> QED
  BY <1>2, <1>3, <1>4

\* The herald starts.
LEMMA StartKeeps ==
  ASSUME CredInv, Start
  PROVE  CredInv'
<1>1. /\ UNCHANGED <<creds, passwd, excused, orphan>>
      /\ acl' = Privileged(creds)
      /\ running' = TRUE /\ step' = "select"
      /\ child' = IF orphan THEN "exited" ELSE "up"
      /\ loaded' = IF orphan THEN NoFiles ELSE Files(passwd, Privileged(creds))
      /\ restarts' = 1 /\ delay' = RestartDelay
  BY DEF Start
<1>2. LoopOK' /\ BrokerOK'
  BY <1>1, Numbers DEF CredInv, LoopOK, BrokerOK
<1> QED
  BY <1>1, <1>2, RecordsStay

\* The herald ends: no record is left, and every login is excused.
LEMMA ForgetKeeps ==
  ASSUME CredInv, Forget, orphan' \in BOOLEAN
  PROVE  CredInv'
<1>1. /\ running' = FALSE /\ step' = "select" /\ creds' = NoCreds
      /\ excused' = excused \union passwd /\ passwd' = passwd /\ acl' = acl
      /\ child' = "none" /\ restarts' = 0 /\ delay' = 0
  BY DEF Forget
<1>2. LoopOK' /\ BrokerOK' /\ ServedIsCurrent'
  <2>1. LoopOK' /\ ServedIsCurrent'
    BY <1>1 DEF LoopOK, ServedIsCurrent
  <2>2. restarts' \in 0..MaxRestarts /\ delay' \in 0..RestartDelay
    BY <1>1, Numbers
  <2> QED
    BY <1>1, <2>1, <2>2 DEF BrokerOK
<1>3. TableOK(creds') /\ Recorded' = {}
  BY <1>1, NoRecords DEF Recorded
<1> QED
  BY <1>1, <1>2, <1>3 DEF CredInv

LEMMA TickKeeps ==
  ASSUME CredInv, Tick
  PROVE  CredInv'
<1>1. /\ delay' = IF delay = 0 THEN 0 ELSE delay - 1
      /\ creds' = [k \in DOMAIN creds |->
                    [creds[k] EXCEPT !.left = IF @ = 0 THEN 0 ELSE @ - 1]]
      /\ UNCHANGED <<running, step, passwd, acl, child, loaded, orphan, restarts, excused>>
  BY DEF Tick
<1>2. /\ DOMAIN creds' = DOMAIN creds
      /\ \A k \in DOMAIN creds : /\ creds'[k] \in Credential
                                 /\ creds'[k].name = creds[k].name
                                 /\ creds'[k].privileged = creds[k].privileged
  BY <1>1, Numbers DEF CredInv, TableOK, Credential
<1>3. TableOK(creds')
  BY <1>2 DEF CredInv, TableOK, Keyed
<1>4. Recorded' = Recorded /\ Privileged(creds') = Privileged(creds)
  BY <1>2 DEF Recorded, Privileged
<1>5. LoopOK' /\ BrokerOK'
  BY <1>1, Numbers DEF CredInv, LoopOK, BrokerOK
<1>6. ServedIsCurrent'
  BY <1>1, <1>4 DEF CredInv, ServedIsCurrent
<1> QED
  BY <1>1, <1>3, <1>4, <1>5, <1>6 DEF CredInv

----------------------------------------------------------------------------
(* The theorem *)

LEMMA InitHolds == Init => CredInv
<1> SUFFICES ASSUME Init PROVE CredInv
  OBVIOUS
<1>1. LoopOK /\ BrokerOK /\ ServedIsCurrent
  <2>1. LoopOK /\ ServedIsCurrent
    BY DEF Init, LoopOK, ServedIsCurrent
  <2>2. restarts \in 0..MaxRestarts /\ delay \in 0..RestartDelay
    BY Numbers DEF Init
  <2> QED
    BY <2>1, <2>2 DEF Init, BrokerOK
<1>2. TableOK(creds) /\ Recorded = {}
  BY NoRecords DEF Init, Recorded
<1> QED
  BY <1>1, <1>2 DEF Init, CredInv

LEMMA StepHolds == CredInv /\ [Next]_vars => CredInv'
<1> SUFFICES ASSUME CredInv, [Next]_vars PROVE CredInv'
  OBVIOUS
<1>1. CASE Serve
  BY <1>1, ServeKeeps
<1>2. CASE \/ TooEarly \/ StartBroker \/ ForkFails \/ GiveUp \/ IsUp
           \/ BrokerDies \/ OrphanDies
  BY <1>2, BrokerKeeps
<1>3. CASE ExpireCheck
  BY <1>3, ExpireKeeps
<1>4. CASE Start
  BY <1>4, StartKeeps
<1>5. CASE Stop \/ End \/ Die
  <2>1. Forget /\ orphan' \in BOOLEAN
    BY <1>5 DEF Stop, End, Die, CredInv, BrokerOK
  <2> QED
    BY <2>1, ForgetKeeps
<1>6. CASE Tick
  BY <1>6, TickKeeps
<1>7. CASE UNCHANGED vars
  <2>1. LoopOK' /\ BrokerOK'
    BY <1>7 DEF vars, CredInv, LoopOK, BrokerOK
  <2> QED
    BY <1>7, <2>1, RecordsStay DEF vars
<1> QED
  BY <1>1, <1>2, <1>3, <1>4, <1>5, <1>6, <1>7 DEF Next

\* The records, the password file and the broker that runs agree, whatever is
\* issued, revoked and expires, whatever of it fails, and whoever dies
\* (cred_issue(), cred_revoke(), cred_expire_check(), broker_reload()).
THEOREM CredentialsStayInStep == Spec => []CredentialsAgree
<1>1. CredInv => CredentialsAgree
  BY DEF CredInv, TableOK, Credential, LoopOK, BrokerOK, CredentialsAgree,
         LoginsAccounted, TypeOK
<1> QED
  BY <1>1, InitHolds, StepHolds, PTL DEF Spec

-----------------------------------------------------------------------------
(* The enforcer: roles/enforcer/enforcer_agent.c *)

\* A piece of evidence and a slot of the threat table.
Piece == [kind : {"rate", "outlier", "identity", "remote"}, age : Nat]

Slot == [known : BOOLEAN, quarantined : BOOLEAN,
         rate : [entries : Seq(Nat), next : 1..RATE_RING_SZ],
         scores : [n : Int, sum : Int, squares : Int],
         evidence : Seq(Piece)]

\* The rate ring and the evidence log are within their arrays.
SlotOK(slot) == /\ slot \in Slot
                /\ Len(slot.evidence) <= MAX_EVIDENCE
                /\ Len(slot.rate.entries) <= RATE_RING_SZ

\* Whom the table has a slot for: no more than there are slots.
KnownIn(t) == {a \in Agents : t[a].known}

ThreatsOK(t) == /\ t = [a \in Agents |-> t[a]]
                /\ \A a \in Agents : SlotOK(t[a])
                /\ IsFiniteSet(KnownIn(t))
                /\ Cardinality(KnownIn(t)) <= MAX_THREAT_ENTRIES

\* Who is bound where, each way one to one.
BoundOK(b) == /\ b \subseteq Machines \X Agents
              /\ IsFiniteSet(b)
              /\ Cardinality(b) <= MAX_IDENTITY_BINDINGS
              /\ \A p \in b, q \in b : p[1] = q[1] <=> p[2] = q[2]

\* The inductive invariant.
DetectionInv == ThreatsOK(threats) /\ BoundOK(bound)

LEMMA DetectionNumbers ==
  /\ MAX_EVIDENCE \in Nat \ {0} /\ MAX_THREAT_ENTRIES \in Nat \ {0}
  /\ MAX_IDENTITY_BINDINGS \in Nat \ {0}
  /\ RATE_RING_SZ \in Nat \ {0}
  /\ Scores \subseteq Nat
BY DetectionAssumption

----------------------------------------------------------------------------
(* What the checks make of a slot *)

\* Evidence takes a place of the log or that of its first piece.
LEMMA EvidenceFits ==
  ASSUME NEW slot, SlotOK(slot),
         NEW kind \in {"rate", "outlier", "identity", "remote"}
  PROVE  SlotOK(WithEvidence(slot, kind))
<1> DEFINE piece == [kind |-> kind, age |-> 0]
           log == slot.evidence
           longer == IF Len(log) < MAX_EVIDENCE THEN Append(log, piece)
                     ELSE [log EXCEPT ![1] = piece]
<1>1. piece \in Piece /\ log \in Seq(Piece) /\ Len(log) <= MAX_EVIDENCE
  BY DEF Piece, SlotOK, Slot
<1>2. longer \in Seq(Piece) /\ Len(longer) <= MAX_EVIDENCE
  <2> HIDE DEF piece, log
  <2>1. CASE Len(log) < MAX_EVIDENCE
    BY <1>1, <2>1, DetectionNumbers
  <2>2. CASE ~(Len(log) < MAX_EVIDENCE)
    BY <1>1, <2>2, DetectionNumbers
  <2> QED
    BY <2>1, <2>2
<1>3. WithEvidence(slot, kind) = [slot EXCEPT !.evidence = longer]
  BY DEF WithEvidence
<1> QED
  BY <1>2, <1>3 DEF SlotOK, Slot

\* A quarantine is a mark in the slot.
LEMMA QuarantinedFits ==
  ASSUME NEW slot, SlotOK(slot), NEW a
  PROVE  SlotOK(Quarantined(a, slot))
BY DEF Quarantined, SlotOK, Slot

\* Evidence with or without a quarantine.
LEMMA BlameFits ==
  ASSUME NEW slot, SlotOK(slot), NEW a, NEW kind \in {"rate", "outlier"},
         NEW threshold
  PROVE  SlotOK(Blamed(a, slot, kind, threshold))
BY EvidenceFits, QuarantinedFits DEF Blamed

\* A ring that is full is written over.
LEMMA RateAddFits ==
  ASSUME NEW slot, SlotOK(slot)
  PROVE  SlotOK([slot EXCEPT !.rate = Times!RingAdd(slot.rate, 0)])
<1> DEFINE ring == slot.rate
           added == Times!RingAdd(ring, 0)
           tracked == [slot EXCEPT !.rate = added]
<1>1. /\ ring \in [entries : Seq(Nat), next : 1..RATE_RING_SZ]
      /\ Len(ring.entries) <= RATE_RING_SZ
  BY DEF SlotOK, Slot
<1>2. /\ added \in [entries : Seq(Nat), next : 1..RATE_RING_SZ]
      /\ Len(added.entries) <= RATE_RING_SZ
  <2> HIDE DEF ring
  <2>1. CASE Len(ring.entries) = RATE_RING_SZ
    <3>1. added = [entries |-> [ring.entries EXCEPT ![ring.next] = 0],
                   next |-> Times!SlotAfter(ring.next)]
      BY <2>1 DEF Times!RingAdd, Times!IsFullRing
    <3>2. /\ [ring.entries EXCEPT ![ring.next] = 0] \in Seq(Nat)
          /\ Len([ring.entries EXCEPT ![ring.next] = 0]) = Len(ring.entries)
      BY <1>1, <2>1, DetectionNumbers
    <3>3. Times!SlotAfter(ring.next) \in 1..RATE_RING_SZ
      BY <1>1, DetectionNumbers DEF Times!SlotAfter
    <3> QED
      BY <1>1, <3>1, <3>2, <3>3
  <2>2. CASE Len(ring.entries) # RATE_RING_SZ
    <3>1. added = [ring EXCEPT !.entries = Append(ring.entries, 0)]
      BY <2>2 DEF Times!RingAdd, Times!IsFullRing
    <3>2. /\ Append(ring.entries, 0) \in Seq(Nat)
          /\ Len(Append(ring.entries, 0)) = Len(ring.entries) + 1
          /\ Len(ring.entries) \in Nat
      BY <1>1
    <3> QED
      BY <1>1, <2>2, <3>1, <3>2, DetectionNumbers
  <2> QED
    BY <2>1, <2>2
<1> QED
  BY <1>2 DEF SlotOK, Slot

LEMMA RateFits ==
  ASSUME NEW slot, SlotOK(slot), NEW a
  PROVE  SlotOK(RateChecked(a, slot))
<1> DEFINE tracked == [slot EXCEPT !.rate = Times!RingAdd(slot.rate, 0)]
<1>1. SlotOK(tracked)
  BY RateAddFits
<1>2. RateChecked(a, slot) = tracked
      \/ RateChecked(a, slot) = Blamed(a, tracked, "rate", QUARANTINE_THRESHOLD)
  BY DEF RateChecked
<1> HIDE DEF tracked
<1> QED
  BY <1>1, <1>2, BlameFits

\* Scores are only counted and summed.
LEMMA ScoreAddFits ==
  ASSUME NEW slot, SlotOK(slot), NEW s \in Scores \union {NoNumber}
  PROVE  SlotOK([slot EXCEPT !.scores = WithScore(slot.scores, s)])
<1> DEFINE sums == WithScore(slot.scores, s)
<1>1. /\ slot.scores \in [n : Int, sum : Int, squares : Int]
      /\ s \in Int
  BY DetectionNumbers DEF SlotOK, Slot, NoNumber
<1>2. s * s \in Int
  BY <1>1
<1>3. sums \in [n : Int, sum : Int, squares : Int]
  BY <1>1, <1>2 DEF WithScore, Poisoned, NoNumber
<1> QED
  BY <1>3 DEF SlotOK, Slot

LEMMA ScoreFits ==
  ASSUME NEW slot, SlotOK(slot), NEW a, NEW s \in Scores \union {NoNumber}
  PROVE  SlotOK(ScoreChecked(a, slot, s))
<1> DEFINE scored == [slot EXCEPT !.scores = WithScore(slot.scores, s)]
<1>1. SlotOK(scored)
  BY ScoreAddFits
<1>2. ScoreChecked(a, slot, s) = scored
      \/ ScoreChecked(a, slot, s) = Blamed(a, scored, "outlier", OutlierThreshold)
  BY DEF ScoreChecked
<1> HIDE DEF scored
<1> QED
  BY <1>1, <1>2, BlameFits

LEMMA IdentityFits ==
  ASSUME NEW slot, SlotOK(slot), NEW a, NEW payload
  PROVE  SlotOK(IdentityChecked(a, slot, payload))
<1> DEFINE noted == WithEvidence(slot, "identity")
<1>1. SlotOK(noted) /\ SlotOK(Quarantined(a, noted))
  BY EvidenceFits, QuarantinedFits
<1>2. IdentityChecked(a, slot, payload) \in {noted, Quarantined(a, noted), slot}
  BY DEF IdentityChecked
<1> HIDE DEF noted
<1> QED
  BY <1>1, <1>2

----------------------------------------------------------------------------
(* The two tables *)

\* A slot is taken only when there is room for it.
LEMMA CheckedFits ==
  ASSUME ThreatsOK(threats), NEW a \in Agents, NEW slot, SlotOK(slot),
         Checked(a, slot)
  PROVE  ThreatsOK(threats')
<1> DEFINE K == KnownIn(threats)
           taken == [slot EXCEPT !.known = TRUE]
<1>1. CASE ~HasSlot(a)
  BY <1>1 DEF Checked
<1>2. CASE HasSlot(a)
  <2>1. threats' = [threats EXCEPT ![a] = taken]
    BY <1>2 DEF Checked
  <2>2. SlotOK(taken) /\ taken.known
    BY DEF SlotOK, Slot
  <2> HIDE DEF taken
  <2>3. /\ threats' = [b \in Agents |-> threats'[b]]
        /\ threats'[a] = taken
        /\ \A b \in Agents : b # a => threats'[b] = threats[b]
    BY <2>1 DEF ThreatsOK
  <2>4. KnownIn(threats') = K \union {a}
    BY <2>2, <2>3 DEF KnownIn
  <2>5. /\ IsFiniteSet(K) /\ Cardinality(K) \in Nat
        /\ Cardinality(K) <= MAX_THREAT_ENTRIES
        /\ a \in K \/ Cardinality(K) < MAX_THREAT_ENTRIES
    BY <1>2, FS_CardinalityType DEF ThreatsOK, HasSlot, KnownIn
  <2>6. /\ IsFiniteSet(K \union {a})
        /\ Cardinality(K \union {a}) =
             IF a \in K THEN Cardinality(K) ELSE Cardinality(K) + 1
    BY <2>5, FS_AddElement
  <2>7. Cardinality(K \union {a}) <= MAX_THREAT_ENTRIES
    BY <2>5, <2>6, DetectionNumbers
  <2>8. \A b \in Agents : SlotOK(threats'[b])
    BY <2>2, <2>3 DEF ThreatsOK
  <2> HIDE DEF K
  <2> QED
    BY <2>3, <2>4, <2>6, <2>7, <2>8 DEF ThreatsOK
<1> QED
  BY <1>1, <1>2

\* A binding that is new has neither the machine nor the agent of another.
LEMMA IdentifiedFits ==
  ASSUME BoundOK(bound), NEW a \in Agents, NEW payload, Identified(a, payload)
  PROVE  BoundOK(bound')
<1> DEFINE p == <<payload, a>>
<1>1. CASE bound' = bound
  BY <1>1
<1>2. CASE bound' # bound
  <2>1. /\ payload \in Machines /\ ~IsClash(a, payload)
        /\ bound' = bound \union {p} /\ p \notin bound
        /\ ~(Cardinality(bound) >= MAX_IDENTITY_BINDINGS)
    BY <1>2 DEF Identified, Registered
  <2>2. \A q \in bound : q[1] # payload /\ q[2] # a
    <3> SUFFICES ASSUME NEW q \in bound, q[1] = payload \/ q[2] = a PROVE FALSE
      OBVIOUS
    <3>1. q = <<q[1], q[2]>> /\ q[1] \in Machines /\ q[2] \in Agents
      BY DEF BoundOK
    <3>2. q # p
      BY <2>1
    <3> QED
      BY <2>1, <3>1, <3>2 DEF IsClash, MachineTakenByOther, Elsewhere
  <2>3. /\ IsFiniteSet(bound) /\ Cardinality(bound) \in Nat
        /\ IsFiniteSet(bound') /\ Cardinality(bound') = Cardinality(bound) + 1
    BY <2>1, FS_AddElement, FS_CardinalityType DEF BoundOK
  <2>4. Cardinality(bound') <= MAX_IDENTITY_BINDINGS
    BY <2>1, <2>3, DetectionNumbers
  <2>5. bound' \subseteq Machines \X Agents
    BY <2>1 DEF BoundOK
  <2>6. \A q \in bound', r \in bound' : q[1] = r[1] <=> q[2] = r[2]
    BY <2>1, <2>2 DEF BoundOK
  <2> QED
    BY <2>3, <2>4, <2>5, <2>6 DEF BoundOK
<1> QED
  BY <1>1, <1>2

\* A quarantine ends and the slot stays.
LEMMA LiftFits ==
  ASSUME ThreatsOK(threats), NEW a \in Agents, Lift(a)
  PROVE  ThreatsOK(threats')
<1>1. /\ threats' = [b \in Agents |-> threats'[b]]
      /\ threats'[a] = [threats[a] EXCEPT !.quarantined = FALSE]
      /\ \A b \in Agents : b # a => threats'[b] = threats[b]
  BY DEF Lift, ThreatsOK
<1>2. SlotOK(threats'[a]) /\ threats'[a].known = threats[a].known
  BY <1>1 DEF ThreatsOK, SlotOK, Slot
<1>3. KnownIn(threats') = KnownIn(threats)
  BY <1>1, <1>2 DEF KnownIn
<1> QED
  BY <1>1, <1>2, <1>3 DEF ThreatsOK

\* Ages stop at a bound.
LEMMA OlderIsAge ==
  /\ \A age \in Nat : Older(age) \in Nat
  /\ \A piece \in Piece : OlderPiece(piece) \in Piece
<1>1. \A age \in Nat : Older(age) \in Nat
  BY DEF Older
<1> QED
  BY <1>1 DEF OlderPiece, Piece

\* Ages are all that changes with time.
LEMMA TickFits ==
  ASSUME ThreatsOK(threats), DetectionTick
  PROVE  ThreatsOK(threats')
<1>1. threats' = [b \in Agents |-> threats'[b]]
  BY DEF DetectionTick
<1>2. ASSUME NEW b \in Agents
      PROVE  SlotOK(threats'[b]) /\ threats'[b].known = threats[b].known
  <2> DEFINE slot == threats[b]
             entries == slot.rate.entries
             log == slot.evidence
             entries2 == [i \in DOMAIN entries |-> Older(entries[i])]
             log2 == [i \in DOMAIN log |-> OlderPiece(log[i])]
  <2>1. SlotOK(slot)
    BY DEF ThreatsOK
  <2>2. threats'[b] = [slot EXCEPT !.rate.entries = entries2, !.evidence = log2]
    BY DEF DetectionTick
  <2>3. entries \in Seq(Nat) /\ log \in Seq(Piece)
    BY <2>1 DEF SlotOK, Slot
  <2> HIDE DEF entries, log
  <2>4. entries2 \in Seq(Nat) /\ Len(entries2) = Len(entries)
    <3>1. DOMAIN entries = 1..Len(entries) /\ Len(entries) \in Nat
      BY <2>3
    <3>2. \A i \in 1..Len(entries) : entries[i] \in Nat
      BY <2>3
    <3>3. entries2 \in [1..Len(entries) -> Nat]
      BY <3>1, <3>2, OlderIsAge
    <3> QED
      BY <3>1, <3>3
  <2>5. log2 \in Seq(Piece) /\ Len(log2) = Len(log)
    <3>1. DOMAIN log = 1..Len(log) /\ Len(log) \in Nat
      BY <2>3
    <3>2. \A i \in 1..Len(log) : log[i] \in Piece
      BY <2>3
    <3>3. log2 \in [1..Len(log) -> Piece]
      BY <3>1, <3>2, OlderIsAge
    <3> QED
      BY <3>1, <3>3
  <2> USE DEF entries, log
  <2> HIDE DEF entries2, log2
  <2> QED
    BY <2>1, <2>2, <2>4, <2>5 DEF SlotOK, Slot
<1>3. KnownIn(threats') = KnownIn(threats)
  BY <1>2 DEF KnownIn
<1> QED
  BY <1>1, <1>2, <1>3 DEF ThreatsOK

----------------------------------------------------------------------------

\* At the start there is no slot and no binding.
LEMMA DetectionStart == DetectionInit => DetectionInv
<1> SUFFICES ASSUME DetectionInit PROVE DetectionInv
  OBVIOUS
<1>1. SlotOK(Unknown) /\ ~Unknown.known
  BY DetectionNumbers DEF Unknown, SlotOK, Slot, NoScores, Times!EmptyRing
<1>2. KnownIn(threats) = {} /\ bound = {}
  BY <1>1 DEF DetectionInit, KnownIn
<1>3. ThreatsOK(threats)
  BY <1>1, <1>2, FS_EmptySet, DetectionNumbers DEF DetectionInit, ThreatsOK
<1>4. BoundOK(bound)
  BY <1>2, FS_EmptySet, DetectionNumbers DEF BoundOK
<1> QED
  BY <1>3, <1>4 DEF DetectionInv

LEMMA AnnounceFits ==
  ASSUME DetectionInv, NEW a \in Agents, NEW payload, Announce(a, payload)
  PROVE  DetectionInv'
<1>1. SlotOK(threats[a])
  BY DEF DetectionInv, ThreatsOK
<1>2. ThreatsOK(threats')
  BY <1>1, IdentityFits, CheckedFits DEF Announce, DetectionInv
<1>3. BoundOK(bound')
  BY IdentifiedFits DEF Announce, DetectionInv
<1> QED
  BY <1>2, <1>3 DEF DetectionInv

\* Each step keeps both tables in order.
LEMMA DetectionStep ==
  DetectionInv /\ [DetectionNext]_detectionVars => DetectionInv'
<1> SUFFICES ASSUME DetectionInv, [DetectionNext]_detectionVars PROVE DetectionInv'
  OBVIOUS
<1>1. \A a \in Agents : SlotOK(threats[a])
  BY DEF DetectionInv, ThreatsOK
<1>2. ASSUME NEW a \in Agents, NEW payload \in Payloads, Announce(a, payload)
      PROVE  DetectionInv'
  BY <1>2, AnnounceFits
<1>3. ASSUME NEW a \in Agents, NEW payload \in Payloads, Heartbeat(a, payload)
      PROVE  DetectionInv'
  <2>1. ThreatsOK(threats')
    BY <1>1, <1>3, IdentityFits, RateFits, CheckedFits DEF Heartbeat, DetectionInv
  <2>2. BoundOK(bound')
    BY <1>3, IdentifiedFits DEF Heartbeat, DetectionInv
  <2> QED
    BY <2>1, <2>2 DEF DetectionInv
<1>4. ASSUME NEW a \in Agents, NEW payload \in Payloads,
             HeartbeatOfFellow(a, payload)
      PROVE  DetectionInv'
  BY <1>4, AnnounceFits DEF HeartbeatOfFellow
<1>5. ASSUME NEW a \in Agents, Program(a) PROVE DetectionInv'
  <2>1. ThreatsOK(threats')
    BY <1>1, <1>5, RateFits, CheckedFits DEF Program, DetectionInv
  <2> QED
    BY <1>5, <2>1 DEF Program, DetectionInv
<1>6. ASSUME NEW a \in Agents, NEW s \in Scores \union {NoNumber}, Result(a, s)
      PROVE  DetectionInv'
  <2>1. ThreatsOK(threats')
    BY <1>1, <1>6, RateFits, ScoreFits, CheckedFits DEF Result, DetectionInv
  <2> QED
    BY <1>6, <2>1 DEF Result, DetectionInv
<1>7. ASSUME NEW a \in Agents, Remote(a) PROVE DetectionInv'
  <2>1. ThreatsOK(threats')
    BY <1>1, <1>7, EvidenceFits, QuarantinedFits, CheckedFits
    DEF Remote, DetectionInv
  <2> QED
    BY <1>7, <2>1 DEF Remote, DetectionInv
<1>8. ASSUME NEW a \in Agents, Lift(a) PROVE DetectionInv'
  <2>1. ThreatsOK(threats')
    BY <1>8, LiftFits DEF DetectionInv
  <2> QED
    BY <1>8, <2>1 DEF Lift, DetectionInv
<1>9. CASE DetectionTick
  <2>1. ThreatsOK(threats')
    BY <1>9, TickFits DEF DetectionInv
  <2> QED
    BY <1>9, <2>1 DEF DetectionTick, DetectionInv
<1>10. CASE UNCHANGED detectionVars
  BY <1>10 DEF detectionVars, DetectionInv
<1> QED
  BY <1>2, <1>3, <1>4, <1>5, <1>6, <1>7, <1>8, <1>9, <1>10 DEF DetectionNext

\* A machine is bound to one agent and an agent to one machine, and the tables are
\* within their arrays, whatever is announced, published, lifted or forgotten
\* (check_identity(), check_rate(), check_score_outlier()).
THEOREM BindingsStayOneToOne == DetectionSpec => []BindingsOneToOne
<1>1. DetectionInv => BindingsOneToOne
  <2> SUFFICES ASSUME DetectionInv PROVE BindingsOneToOne
    OBVIOUS
  <2>1. \A a \in Agents : /\ threats[a] \in Slot
                          /\ Len(threats[a].evidence) <= MAX_EVIDENCE
                          /\ Len(threats[a].rate.entries) <= RATE_RING_SZ
    BY DEF DetectionInv, ThreatsOK, SlotOK
  <2>2. Cardinality({a \in Agents : threats[a].known}) <= MAX_THREAT_ENTRIES
    BY DEF DetectionInv, ThreatsOK, KnownIn
  <2> QED
    BY <2>1, <2>2 DEF BindingsOneToOne, DetectionTypeOK, DetectionInv, BoundOK, Slot
<1> QED
  BY <1>1, DetectionStart, DetectionStep, PTL DEF DetectionSpec

----------------------------------------------------------------------------
(* What the enforcer holds of an agent, and what the agent did *)

\* Counts by age, and what happened up to an age.
Counts == [0..Old -> Nat]

LEMMA Ages ==
  /\ Old \in Nat \ {0}
  /\ RATE_WINDOW_SEC \in 0..(Old - 1) /\ EvidenceWindow \in 0..(Old - 1)
<1> DEFINE s == {RATE_WINDOW_SEC, EvidenceWindow}
<1>1. RATE_WINDOW_SEC \in Nat /\ EvidenceWindow \in Nat
  BY DetectionAssumption
<1>2. \E x \in s : \A y \in s : x >= y
  BY <1>1
<1>3. Max(s) \in s /\ \A y \in s : Max(s) >= y
  BY <1>2, Zenon DEF Max
<1> QED
  BY <1>1, <1>3 DEF Old

\* The total up to an age grows with the age by what has that age.
Accumulates(T, ages) ==
  /\ T \in [0..Old -> Nat] /\ T[0] = ages[0]
  /\ \A w \in 1..Old : T[w] = T[w - 1] + ages[w]

LEMMA TotalAccumulates ==
  ASSUME NEW ages \in Counts
  PROVE  Accumulates([w \in 0..Old |-> Total(ages, w)], ages)
<1> DEFINE D == 0..Old
           T == [w \in D |-> Total(ages, w)]
<1>1. Old \in Nat /\ IsFiniteSet(D) /\ ages \in [D -> Int]
  BY Ages, FS_Interval DEF Counts
<1>2. PICK h \in [SUBSET D -> Int] : AddsUp(h, D, ages)
  BY <1>1, SumExists
<1>3. Unfolds(h, D, ages)
  BY <1>1, <1>2, AddsUpFacts
<1>4. ASSUME NEW w \in D PROVE Total(ages, w) = h[0..w]
  <2>1. Total(ages, w) = (CHOOSE g : AddsUp(g, 0..w, ages))[0..w]
    BY DEF Total, MapThenSumSet, MapThenFoldSet, AddsUp, Pick
  <2>2. 0..w \in SUBSET D /\ IsFiniteSet(0..w)
    BY <1>1, FS_Subset
  <2>3. \E g : AddsUp(g, 0..w, ages)
    <3> DEFINE f == [x \in 0..w |-> ages[x]]
    <3>1. f \in [0..w -> Int]
      BY <1>1, <2>2
    <3>2. PICK g : AddsUp(g, 0..w, f)
      BY <2>2, <3>1, SumExists
    <3>3. \A s \in SUBSET (0..w) : s # {} => f[Pick(s)] = ages[Pick(s)]
      BY DEF Pick
    <3> HIDE DEF f
    <3>4. AddsUp(g, 0..w, ages)
      BY <3>2, <3>3 DEF AddsUp
    <3> QED
      BY <3>4
  <2> DEFINE g == CHOOSE g : AddsUp(g, 0..w, ages)
  <2>4. AddsUp(g, 0..w, ages)
    BY <2>3
  <2> HIDE DEF g
  <2>5. g[0..w] = h[0..w]
    <3> DEFINE W == 0..w
    <3>1. W \in SUBSET D /\ AddsUp(g, W, ages)
      BY <2>2, <2>4
    <3> HIDE DEF D, W
    <3>2. AgreeOn(g, h, W) /\ W \in SUBSET W
      BY <1>1, <1>3, <3>1, SameSum
    <3>3. g[W] = h[W]
      BY <3>2 DEF AgreeOn
    <3> QED
      BY <3>3 DEF W
  <2> QED
    BY <2>1, <2>5 DEF g
<1>5. \A s \in SUBSET D : \A x \in s : h[s] = ages[x] + h[s \ {x}]
  <2> HIDE DEF D
  <2>1. Splits(h, D, ages)
    BY <1>1, <1>3, AnyPart
  <2> QED
    BY <2>1 DEF Splits
<1>6. \A x \in D : ages[x] >= 0 /\ ages[x] \in Int
  BY DEF Counts
<1>7. \A s \in SUBSET D : h[s] >= 0 /\ h[s] \in Int
  BY <1>1, <1>3, <1>6, PartsAreLess DEF Unfolds
<1>8. ASSUME NEW w \in D PROVE 0..w \in SUBSET D /\ h[0..w] \in Nat
  <2>1. 0..w \in SUBSET D
    BY <1>1
  <2> QED
    BY <1>7, <2>1
<1>9. T \in [D -> Nat] /\ \A w \in D : T[w] = h[0..w]
  BY <1>4, <1>8
<1>10. h[0..0] = ages[0]
  <2>1. 0..0 = {0} /\ {0} \ {0} = {} /\ {0} \in SUBSET D /\ h[{}] = 0
    BY <1>1, <1>3 DEF Unfolds
  <2>2. h[{0}] = ages[0] + 0
    BY <1>5, <2>1
  <2> QED
    BY <1>1, <1>6, <2>1, <2>2
<1>11. ASSUME NEW w \in 1..Old PROVE h[0..w] = h[0..(w - 1)] + ages[w]
  <2>1. w \in 0..w /\ (0..w) \ {w} = 0..(w - 1) /\ 0..w \in SUBSET D /\ 0..(w - 1) \in SUBSET D
        /\ w \in D
    BY <1>1
  <2>2. h[0..w] = ages[w] + h[0..(w - 1)]
    BY <1>5, <2>1
  <2> QED
    BY <1>6, <1>7, <2>1, <2>2
<1>12. \A w \in 1..Old : w \in D /\ w - 1 \in D
  BY <1>1
<1> HIDE DEF T
<1>13. T[0] = ages[0] /\ \A w \in 1..Old : T[w] = T[w - 1] + ages[w]
  <2>1. 0 \in D
    BY <1>1
  <2> HIDE DEF D
  <2>2. T[0] = ages[0]
    BY <1>9, <1>10, <2>1
  <2>3. ASSUME NEW w \in 1..Old PROVE T[w] = T[w - 1] + ages[w]
    <3>1. T[w] = h[0..w] /\ T[w - 1] = h[0..(w - 1)]
      BY <1>9, <1>12
    <3> QED
      BY <1>11, <3>1
  <2> QED
    BY <2>2, <2>3
<1> QED
  BY <1>9, <1>13 DEF Accumulates, T

\* One more, just now.
OneMore(ages) == [ages EXCEPT ![0] = @ + 1]

LEMMA TotalFacts ==
  ASSUME NEW ages \in Counts
  PROVE  /\ OneMore(ages) \in Counts /\ AgedCounts(ages) \in Counts
         /\ \A w \in 0..Old : /\ Total(ages, w) \in Nat
                              /\ Total(OneMore(ages), w) = Total(ages, w) + 1
         /\ \A w \in 0..(Old - 1) :
              Total(AgedCounts(ages), w) = IF w = 0 THEN 0 ELSE Total(ages, w - 1)
<1> DEFINE T(c) == [w \in 0..Old |-> Total(c, w)]
           more == OneMore(ages)
           aged == AgedCounts(ages)
<1>1. Old \in Nat \ {0} /\ 0 \in 0..Old
  BY Ages
<1>2. /\ more \in Counts /\ more[0] = ages[0] + 1
      /\ \A w \in 1..Old : more[w] = ages[w]
  BY <1>1 DEF OneMore, Counts
<1>3. /\ aged \in Counts /\ aged[0] = 0
      /\ \A w \in 1..(Old - 1) : aged[w] = ages[w - 1]
  BY <1>1 DEF AgedCounts, Counts
<1> HIDE DEF more, aged
<1>4. /\ Accumulates(T(ages), ages) /\ Accumulates(T(more), more)
      /\ Accumulates(T(aged), aged)
  BY <1>2, <1>3, TotalAccumulates
<1>5. \A w \in 0..Old : /\ T(ages)[w] = Total(ages, w) /\ T(more)[w] = Total(more, w)
                        /\ T(aged)[w] = Total(aged, w)
  OBVIOUS
<1> DEFINE a == T(ages)
           m == T(more)
           d == T(aged)
<1> HIDE DEF a, m, d
<1>6. a \in [0..Old -> Nat] /\ m \in [0..Old -> Nat] /\ d \in [0..Old -> Nat]
  BY <1>4 DEF Accumulates, a, m, d
<1>7. ages \in [0..Old -> Nat]
  BY DEF Counts
<1>8. \A w \in 0..Old : m[w] = a[w] + 1
  <2> DEFINE P == {w \in 0..Old : m[w] = a[w] + 1}
  <2>1. 0 \in P
    BY <1>1, <1>2, <1>4, <1>6, <1>7 DEF Accumulates, a, m
  <2>2. ASSUME NEW w \in 1..Old, w - 1 \in P PROVE w \in P
    <3>1. m[w] = m[w - 1] + ages[w] /\ a[w] = a[w - 1] + ages[w]
      BY <1>2, <1>4 DEF Accumulates, a, m
    <3>2. w \in 0..Old /\ w - 1 \in 0..Old
      BY <1>1
    <3>3. m[w - 1] = a[w - 1] + 1 /\ ages[w] \in Nat /\ a[w - 1] \in Nat
      BY <1>6, <1>7, <2>2, <3>2
    <3> QED
      BY <3>1, <3>2, <3>3
  <2>3. P \in SUBSET (0..Old)
    OBVIOUS
  <2> HIDE DEF P
  <2>4. P = 0..Old
    BY <1>1, <2>1, <2>2, <2>3, AllUpTo
  <2> QED
    BY <2>4 DEF P
<1>9. d[0] = 0 /\ \A w \in 1..(Old - 1) : d[w] = a[w - 1]
  <2> DEFINE P == {w \in 0..(Old - 1) : w = 0 \/ d[w] = a[w - 1]}
  <2>1. d[0] = 0 /\ a[0] = ages[0]
    BY <1>3, <1>4 DEF Accumulates, a, d
  <2>2. 0 \in P /\ Old - 1 \in Nat
    BY <1>1
  <2>3. ASSUME NEW w \in 1..(Old - 1), w - 1 \in P PROVE w \in P
    <3>1. w \in 1..Old /\ w - 1 \in 0..Old /\ w \in 0..(Old - 1)
      BY <1>1
    <3>2. d[w] = d[w - 1] + ages[w - 1]
      BY <1>3, <1>4, <3>1 DEF Accumulates, d
    <3>3. CASE w = 1
      BY <1>7, <2>1, <3>1, <3>2, <3>3
    <3>4. CASE w # 1
      <4>1. w - 1 \in 1..Old /\ (w - 1) - 1 = w - 2
        BY <1>1, <3>4
      <4>2. a[w - 1] = a[w - 2] + ages[w - 1]
        BY <1>4, <4>1 DEF Accumulates, a
      <4>3. d[w - 1] = a[w - 2]
        BY <2>3, <4>1
      <4> QED
        BY <3>1, <3>2, <4>2, <4>3
    <3> QED
      BY <3>3, <3>4
  <2>4. P \in SUBSET (0..(Old - 1))
    OBVIOUS
  <2> HIDE DEF P
  <2>5. P = 0..(Old - 1)
    BY <2>2, <2>3, <2>4, AllUpTo
  <2>6. \A w \in 1..(Old - 1) : w \in P
    BY <2>2, <2>5
  <2> QED
    BY <2>1, <2>6 DEF P
<1>10. \A w \in 0..Old : a[w] = Total(ages, w) /\ m[w] = Total(more, w) /\ d[w] = Total(aged, w)
  BY <1>5 DEF a, m, d
<1>11. \A w \in 0..Old : Total(ages, w) \in Nat /\ Total(more, w) = Total(ages, w) + 1
  BY <1>6, <1>8, <1>10
<1>12. ASSUME NEW w \in 0..(Old - 1)
       PROVE  Total(aged, w) = IF w = 0 THEN 0 ELSE Total(ages, w - 1)
  <2>1. w \in 0..Old /\ (w # 0 => w - 1 \in 0..Old /\ w \in 1..(Old - 1))
    BY <1>1
  <2> QED
    BY <1>9, <1>10, <2>1
<1> QED
  BY <1>2, <1>3, <1>11, <1>12 DEF more, aged

\* What a ring of ages and a log hold that is not older than w.
Young(entries, w) == {i \in DOMAIN entries : entries[i] <= w}

OfKind(log, kind, w) == {i \in DOMAIN log : log[i].kind = kind /\ log[i].age <= w}

\* The place of a slot in the order in which a ring was written.
Rank(ring, i) == IF i >= ring.next THEN i ELSE i + Len(ring.entries)

Ordered(ring) ==
  \A i \in DOMAIN ring.entries, j \in DOMAIN ring.entries :
    Rank(ring, i) <= Rank(ring, j) => ring.entries[i] >= ring.entries[j]

\* A rate ring has what came, of all ages, and of what it has overwritten
\* nothing is younger than what it has.
RingCounts(ring, counts) ==
  /\ Len(ring.entries) # RATE_RING_SZ => ring.next = 1
  /\ Ordered(ring)
  /\ \A w \in 0..(Old - 1) :
       LET n == Cardinality(Young(ring.entries, w))
       IN n <= Total(counts, w) /\ (n >= Total(counts, w) \/ n = RATE_RING_SZ)

\* An evidence log invents nothing, and before it is full it forgets nothing.
LogCounts(log, kind, counts) ==
  \A w \in 0..(Old - 1) :
    LET n == Cardinality(OfKind(log, kind, w))
    IN n <= Total(counts, w) /\ (Len(log) < MAX_EVIDENCE => n >= Total(counts, w))

LEMMA Subsets ==
  ASSUME NEW n \in Nat, NEW s \in SUBSET (1..n)
  PROVE  /\ IsFiniteSet(s) /\ Cardinality(s) \in Nat /\ Cardinality(s) <= n
         /\ \A x : IsFiniteSet(s \union {x}) /\
                   Cardinality(s \union {x}) = IF x \in s THEN Cardinality(s)
                                               ELSE Cardinality(s) + 1
         /\ Cardinality(1..n) = n
<1>1. IsFiniteSet(1..n) /\ Cardinality(1..n) = n
  BY FS_Interval
<1>2. IsFiniteSet(s) /\ Cardinality(s) \in Nat /\ Cardinality(s) <= n
  BY <1>1, FS_Subset, FS_CardinalityType
<1> QED
  BY <1>1, <1>2, FS_AddElement

\* threat_add_evidence()
LEMMA EvidenceCounts ==
  ASSUME NEW slot, SlotOK(slot), NEW k, NEW kind, NEW c \in Counts,
         LogCounts(slot.evidence, k, c)
  PROVE  LogCounts(WithEvidence(slot, kind).evidence, k,
                   IF k = kind THEN OneMore(c) ELSE c)
<1> DEFINE log == slot.evidence
           n == Len(log)
           piece == [kind |-> kind, age |-> 0]
           new == IF n < MAX_EVIDENCE THEN Append(log, piece)
                  ELSE [log EXCEPT ![1] = piece]
           d == IF k = kind THEN OneMore(c) ELSE c
<1>1. /\ log \in Seq(Piece) /\ n \in Nat /\ n <= MAX_EVIDENCE /\ MAX_EVIDENCE \in Nat \ {0}
      /\ DOMAIN log = 1..n
  BY DetectionNumbers DEF SlotOK, Slot
<1>2. WithEvidence(slot, kind).evidence = new
  BY DEF WithEvidence, SlotOK, Slot
<1>3. \A w \in 0..(Old - 1) :
        Total(c, w) \in Nat /\ Total(d, w) = IF k = kind THEN Total(c, w) + 1 ELSE Total(c, w)
  BY TotalFacts, Ages
<1>4. piece.kind = kind /\ piece.age = 0
  OBVIOUS
<1> HIDE DEF log, piece, d
<1> SUFFICES ASSUME NEW w \in 0..(Old - 1)
             PROVE  LET m == Cardinality(OfKind(new, k, w))
                    IN /\ m <= Total(d, w)
                       /\ Len(new) < MAX_EVIDENCE => m >= Total(d, w)
  BY <1>2 DEF LogCounts, d
<1> DEFINE S == OfKind(log, k, w)
           R == OfKind(new, k, w)
<1>5. 0 <= w /\ w \in Nat
  BY Ages
<1>6. /\ Cardinality(S) <= Total(c, w)
      /\ n < MAX_EVIDENCE => Cardinality(S) >= Total(c, w)
  BY DEF LogCounts, log
<1>7. S \in SUBSET (1..n)
  BY <1>1 DEF OfKind
<1>8. CASE n < MAX_EVIDENCE
  <2>1. /\ DOMAIN new = 1..(n + 1) /\ Len(new) = n + 1 /\ new[n + 1] = piece
        /\ \A i \in 1..n : new[i] = log[i]
    BY <1>1, <1>8
  <2> HIDE DEF new
  <2>2. CASE k = kind
    <3>1. R = S \union {n + 1} /\ n + 1 \notin S
      BY <1>1, <1>4, <1>5, <2>1, <2>2 DEF OfKind
    <3> HIDE DEF R, S
    <3>2. Cardinality(R) = Cardinality(S) + 1 /\ Cardinality(S) \in Nat
      BY <1>1, <1>7, <3>1, Subsets
    <3> QED
      BY <1>3, <1>6, <1>8, <2>2, <3>2 DEF R
  <2>3. CASE k # kind
    <3>1. R = S
      BY <1>1, <1>4, <2>1, <2>3 DEF OfKind
    <3> HIDE DEF R, S
    <3> QED
      BY <1>3, <1>6, <1>8, <2>3, <3>1 DEF R
  <2> QED
    BY <2>2, <2>3
<1>9. CASE ~(n < MAX_EVIDENCE)
  <2>1. /\ DOMAIN new = 1..n /\ Len(new) = n /\ new[1] = piece /\ 1 \in 1..n
        /\ \A i \in 1..n : i # 1 => new[i] = log[i]
    BY <1>1, <1>9
  <2> HIDE DEF new
  <2>2. R \subseteq IF k = kind THEN S \union {1} ELSE S
    BY <1>1, <1>4, <2>1 DEF OfKind
  <2> HIDE DEF R, S
  <2>3. /\ Cardinality(S) \in Nat /\ IsFiniteSet(S) /\ IsFiniteSet(S \union {1})
        /\ Cardinality(S \union {1}) <= Cardinality(S) + 1
    <3>1. /\ Cardinality(S) \in Nat /\ IsFiniteSet(S) /\ IsFiniteSet(S \union {1})
          /\ Cardinality(S \union {1}) = IF 1 \in S THEN Cardinality(S)
                                         ELSE Cardinality(S) + 1
      BY <1>1, <1>7, Subsets
    <3> QED
      BY <3>1
  <2>4. /\ Cardinality(R) \in Nat
        /\ Cardinality(R) <= IF k = kind THEN Cardinality(S) + 1 ELSE Cardinality(S)
    <3>1. CASE k = kind
      <4>1. /\ Cardinality(R) \in Nat /\ Cardinality(R) <= Cardinality(S \union {1})
            /\ Cardinality(S \union {1}) \in Nat
        BY <2>2, <2>3, <3>1, FS_Subset, FS_CardinalityType
      <4> QED
        BY <2>3, <3>1, <4>1
    <3>2. CASE k # kind
      BY <2>2, <2>3, <3>2, FS_Subset, FS_CardinalityType
    <3> QED
      BY <3>1, <3>2
  <2> QED
    BY <1>1, <1>3, <1>6, <1>9, <2>1, <2>3, <2>4 DEF R
<1> QED
  BY <1>8, <1>9

\* rate_track(), of an agent of which there is a slot.
LEMMA RingAddCounts ==
  ASSUME NEW slot, SlotOK(slot), NEW c \in Counts, RingCounts(slot.rate, c)
  PROVE  RingCounts(Times!RingAdd(slot.rate, 0), OneMore(c))
<1> DEFINE ring == slot.rate
           e == ring.entries
           n == Len(e)
           k == ring.next
           new == Times!RingAdd(ring, 0)
           f == new.entries
<1>1. /\ e \in Seq(Nat) /\ n \in Nat /\ n <= RATE_RING_SZ /\ RATE_RING_SZ \in Nat \ {0}
      /\ DOMAIN e = 1..n /\ k \in 1..RATE_RING_SZ
      /\ ring = [entries |-> e, next |-> k]
  BY DetectionNumbers DEF SlotOK, Slot
<1>2. (n # RATE_RING_SZ => k = 1) /\ Ordered(ring)
  BY DEF RingCounts
<1>3. \A w \in 0..(Old - 1) :
        /\ Total(c, w) \in Nat /\ Total(OneMore(c), w) = Total(c, w) + 1
        /\ Cardinality(Young(e, w)) <= Total(c, w)
        /\ Cardinality(Young(e, w)) >= Total(c, w) \/ Cardinality(Young(e, w)) = RATE_RING_SZ
        /\ w \in Nat
  BY TotalFacts, Ages DEF RingCounts
<1> HIDE DEF ring
<1>4. ASSUME n # RATE_RING_SZ PROVE RingCounts(new, OneMore(c))
  <2>1. new = [entries |-> Append(e, 0), next |-> 1]
    BY <1>1, <1>2, <1>4 DEF Times!RingAdd, Times!IsFullRing
  <2>2. /\ DOMAIN f = 1..(n + 1) /\ Len(f) = n + 1 /\ f[n + 1] = 0 /\ new.next = 1
        /\ \A i \in 1..n : f[i] = e[i]
    BY <1>1, <2>1
  <2> HIDE DEF new
  <2>3. Ordered(new)
    <3>1. \A i \in 1..n, j \in 1..n : i <= j => e[i] >= e[j]
      BY <1>1, <1>2, <1>4 DEF Ordered, Rank
    <3>2. \A i \in 1..n : e[i] \in Nat
      BY <1>1
    <3> SUFFICES ASSUME NEW i \in 1..(n + 1), NEW j \in 1..(n + 1), i <= j PROVE f[i] >= f[j]
      BY <1>1, <2>2 DEF Ordered, Rank
    <3>3. CASE j = n + 1
      <4>1. f[i] \in Nat /\ f[j] = 0
        BY <1>1, <2>2, <3>2, <3>3
      <4> QED
        BY <4>1
    <3>4. CASE j # n + 1
      BY <1>1, <2>2, <3>1, <3>4
    <3> QED
      BY <3>3, <3>4
  <2>4. ASSUME NEW w \in 0..(Old - 1)
        PROVE  Cardinality(Young(f, w)) = Cardinality(Young(e, w)) + 1
               /\ Cardinality(Young(e, w)) \in Nat /\ Cardinality(Young(e, w)) <= n
    <3>1. /\ Young(f, w) = Young(e, w) \union {n + 1} /\ n + 1 \notin Young(e, w)
          /\ Young(e, w) \in SUBSET (1..n)
      <4>1. w \in Nat
        BY <1>3
      <4> QED
        BY <1>1, <2>2, <4>1 DEF Young
    <3> HIDE DEF f, e, n
    <3>2. n \in Nat
      BY <1>1
    <3>3. /\ Cardinality(Young(e, w)) \in Nat /\ Cardinality(Young(e, w)) <= n
          /\ Cardinality(Young(e, w) \union {n + 1}) = Cardinality(Young(e, w)) + 1
      BY <3>1, <3>2, Subsets
    <3> QED
      BY ONLY <3>1, <3>3
  <2>5. \A w \in 0..(Old - 1) :
          /\ Cardinality(Young(f, w)) <= Total(OneMore(c), w)
          /\ Cardinality(Young(f, w)) >= Total(OneMore(c), w)
             \/ Cardinality(Young(f, w)) = RATE_RING_SZ
    <3> HIDE DEF f, e, n
    <3> QED
      BY <1>1, <1>3, <1>4, <2>4
  <2> QED
    BY <2>2, <2>3, <2>5 DEF RingCounts
<1>5. ASSUME n = RATE_RING_SZ PROVE RingCounts(new, OneMore(c))
  <2> DEFINE after == IF k = RATE_RING_SZ THEN 1 ELSE k + 1
  <2>1. new = [entries |-> [e EXCEPT ![k] = 0], next |-> after]
    BY <1>1, <1>5 DEF Times!RingAdd, Times!IsFullRing, Times!SlotAfter
  <2>2. /\ DOMAIN f = 1..n /\ Len(f) = n /\ f[k] = 0 /\ new.next = after /\ k \in 1..n
        /\ \A i \in 1..n : i # k => f[i] = e[i]
    BY <1>1, <1>5, <2>1
  <2>3. \A i \in 1..n : e[i] \in Nat /\ e[k] >= e[i]
    <3>1. \A i \in 1..n : e[i] \in Nat
      BY <1>1
    <3>2. \A i \in 1..n : Rank(ring, k) <= Rank(ring, i)
      BY <1>1, <2>2 DEF Rank
    <3> QED
      BY <1>1, <1>2, <2>2, <3>1, <3>2 DEF Ordered
  <2> HIDE DEF new
  <2>4. Ordered(new)
    <3> SUFFICES ASSUME NEW i \in 1..n, NEW j \in 1..n, Rank(new, i) <= Rank(new, j)
                 PROVE  f[i] >= f[j]
      BY <2>2 DEF Ordered
    <3>1. CASE j = k
      <4>1. f[i] \in Nat /\ f[j] = 0
        BY <2>2, <2>3, <3>1
      <4> QED
        BY <4>1
    <3>2. CASE j # k
      <4>1. i # k
        BY <1>1, <1>5, <2>2, <3>2 DEF Rank
      <4>2. Rank(ring, i) <= Rank(ring, j)
        BY <1>1, <1>5, <2>2, <3>2, <4>1 DEF Rank
      <4>3. e[i] >= e[j]
        BY <1>1, <1>2, <4>2 DEF Ordered
      <4> QED
        BY <2>2, <3>2, <4>1, <4>3
    <3> QED
      BY <3>1, <3>2
  <2>5. ASSUME NEW w \in 0..(Old - 1)
        PROVE  LET m == Cardinality(Young(e, w))
                   p == Cardinality(Young(f, w))
               IN m \in Nat /\ p \in Nat /\ p <= m + 1 /\ (p = m + 1 \/ p = RATE_RING_SZ)
    <3> DEFINE S == Young(e, w)
               R == Young(f, w)
    <3>1. w \in Nat
      BY <1>3
    <3>2. S \in SUBSET (1..n) /\ R = S \union {k}
      BY <1>1, <2>2, <3>1 DEF Young
    <3>3. k \in S => R = 1..n
      BY <1>1, <2>2, <2>3, <3>1, <3>2 DEF Young
    <3> HIDE DEF S, R, n, e, f
    <3>5. /\ Cardinality(S) \in Nat /\ Cardinality(1..n) = n
          /\ Cardinality(R) = IF k \in S THEN Cardinality(S) ELSE Cardinality(S) + 1
      BY <1>1, <3>2, Subsets
    <3> QED
      BY <1>5, <3>3, <3>5 DEF S, R
  <2>6. \A w \in 0..(Old - 1) :
          /\ Cardinality(Young(f, w)) <= Total(OneMore(c), w)
          /\ Cardinality(Young(f, w)) >= Total(OneMore(c), w)
             \/ Cardinality(Young(f, w)) = RATE_RING_SZ
    <3> HIDE DEF f, e, n
    <3> SUFFICES ASSUME NEW w \in 0..(Old - 1)
                 PROVE  /\ Cardinality(Young(f, w)) <= Total(OneMore(c), w)
                        /\ Cardinality(Young(f, w)) >= Total(OneMore(c), w)
                           \/ Cardinality(Young(f, w)) = RATE_RING_SZ
      OBVIOUS
    <3> DEFINE m == Cardinality(Young(e, w))
               p == Cardinality(Young(f, w))
    <3>1. m \in Nat /\ p \in Nat /\ p <= m + 1 /\ (p = m + 1 \/ p = RATE_RING_SZ)
      BY <2>5
    <3>2. p <= RATE_RING_SZ
      <4>1. Young(f, w) \in SUBSET (1..n)
        BY <2>2 DEF Young
      <4> QED
        BY <1>1, <1>5, <4>1, Subsets
    <3>3. /\ Total(c, w) \in Nat /\ Total(OneMore(c), w) = Total(c, w) + 1
          /\ m <= Total(c, w) /\ (m >= Total(c, w) \/ m = RATE_RING_SZ)
      BY <1>3
    <3> HIDE DEF m, p
    <3> QED
      BY <1>1, <3>1, <3>2, <3>3 DEF p
  <2> QED
    BY <1>5, <2>2, <2>4, <2>6 DEF RingCounts
<1> HIDE DEF n
<1> QED
  BY <1>4, <1>5 DEF new, ring

\* A second passes.
LEMMA LogAges ==
  ASSUME NEW log \in Seq(Piece), NEW k, NEW c \in Counts, LogCounts(log, k, c)
  PROVE  LogCounts([i \in DOMAIN log |-> OlderPiece(log[i])], k, AgedCounts(c))
<1> DEFINE n == Len(log)
           new == [i \in DOMAIN log |-> OlderPiece(log[i])]
<1>1. n \in Nat /\ DOMAIN log = 1..n /\ DOMAIN new = 1..n /\ Len(new) = n
  OBVIOUS
<1>2. \A i \in 1..n : new[i].kind = log[i].kind /\ new[i].age = Older(log[i].age)
                      /\ log[i].age \in Nat
  <2>1. \A i \in 1..n : log[i] \in Piece /\ new[i] = OlderPiece(log[i])
    BY <1>1
  <2>2. \A p \in Piece : /\ OlderPiece(p).kind = p.kind /\ p.age \in Nat
                         /\ OlderPiece(p).age = Older(p.age)
    BY DEF OlderPiece, Piece
  <2> HIDE DEF new
  <2> QED
    BY <2>1, <2>2
<1> HIDE DEF new
<1> SUFFICES ASSUME NEW w \in 0..(Old - 1)
             PROVE  LET m == Cardinality(OfKind(new, k, w))
                    IN /\ m <= Total(AgedCounts(c), w)
                       /\ Len(new) < MAX_EVIDENCE => m >= Total(AgedCounts(c), w)
  BY DEF LogCounts, new
<1>3. Old \in Nat \ {0}
  BY Ages
<1>4. CASE w = 0
  <2>1. OfKind(new, k, w) = {}
    BY <1>1, <1>2, <1>3, <1>4 DEF OfKind, Older
  <2>2. Cardinality(OfKind(new, k, w)) = 0 /\ Total(AgedCounts(c), w) = 0
    BY <1>4, <2>1, TotalFacts, FS_EmptySet
  <2> QED
    BY <2>2
<1>5. CASE w # 0
  <2>1. w - 1 \in 0..(Old - 1) /\ w \in Nat
    BY <1>3, <1>5
  <2>2. \A i \in 1..n : Older(log[i].age) <= w <=> log[i].age <= w - 1
    BY <1>2, <1>3, <2>1 DEF Older
  <2>3. OfKind(new, k, w) = OfKind(log, k, w - 1)
    BY <1>1, <1>2, <2>2 DEF OfKind
  <2>4. Total(AgedCounts(c), w) = Total(c, w - 1)
    BY <1>5, TotalFacts
  <2> QED
    BY <1>1, <2>1, <2>3, <2>4 DEF LogCounts
<1> QED
  BY <1>4, <1>5

Aging(ring) == [ring EXCEPT !.entries = [i \in DOMAIN @ |-> Older(@[i])]]

LEMMA RingAges ==
  ASSUME NEW ring \in [entries : Seq(Nat), next : 1..RATE_RING_SZ], NEW c \in Counts,
         RingCounts(ring, c)
  PROVE  RingCounts(Aging(ring), AgedCounts(c))
<1> DEFINE e == ring.entries
           n == Len(e)
           f == [i \in DOMAIN e |-> Older(e[i])]
           new == Aging(ring)
<1>1. /\ n \in Nat /\ DOMAIN e = 1..n /\ DOMAIN f = 1..n /\ Len(f) = n
      /\ \A i \in 1..n : e[i] \in Nat /\ f[i] = Older(e[i])
  OBVIOUS
<1>2. new.entries = f /\ new.next = ring.next
  BY DEF Aging
<1> HIDE DEF new, f
<1>3. Old \in Nat \ {0}
  BY Ages
<1>4. Ordered(new)
  <2>1. \A x \in Nat, y \in Nat : x >= y => Older(x) >= Older(y)
    BY <1>3 DEF Older
  <2>2. \A i \in 1..n : Rank(new, i) = Rank(ring, i)
    BY <1>1, <1>2 DEF Rank
  <2>3. Ordered(ring)
    BY DEF RingCounts
  <2> QED
    BY <1>1, <1>2, <2>1, <2>2, <2>3 DEF Ordered
<1>5. ASSUME NEW w \in 0..(Old - 1)
      PROVE  LET m == Cardinality(Young(f, w))
                 t == Total(AgedCounts(c), w)
             IN m <= t /\ (m >= t \/ m = RATE_RING_SZ)
  <2>1. CASE w = 0
    <3>1. Young(f, w) = {}
      BY <1>1, <1>3, <2>1 DEF Young, Older
    <3>2. Cardinality(Young(f, w)) = 0 /\ Total(AgedCounts(c), w) = 0
      BY <2>1, <3>1, TotalFacts, FS_EmptySet
    <3> QED
      BY <3>2
  <2>2. CASE w # 0
    <3>1. w - 1 \in 0..(Old - 1) /\ w \in Nat
      BY <1>3, <2>2
    <3>2. \A i \in 1..n : Older(e[i]) <= w <=> e[i] <= w - 1
      BY <1>1, <1>3, <3>1 DEF Older
    <3>3. Young(f, w) = Young(e, w - 1)
      BY <1>1, <3>2 DEF Young
    <3>4. Total(AgedCounts(c), w) = Total(c, w - 1)
      BY <2>2, TotalFacts
    <3> QED
      BY <3>1, <3>3, <3>4 DEF RingCounts
  <2> QED
    BY <2>1, <2>2
<1>6. Len(f) # RATE_RING_SZ => ring.next = 1
  BY <1>1 DEF RingCounts
<1>7. RingCounts(new, AgedCounts(c))
  BY <1>2, <1>4, <1>5, <1>6 DEF RingCounts
<1> QED
  BY <1>7 DEF new

\* What a slot has against what happened: how often the agent sent something, was
\* too fast, and stood out.
Counted(slot, s, r, o) == /\ RingCounts(slot.rate, s)
                          /\ LogCounts(slot.evidence, "rate", r)
                          /\ LogCounts(slot.evidence, "outlier", o)

\* Who is quarantined by a check for what happened often enough.
Judged(a, old, new, c, threshold) ==
  /\ new.quarantined => old.quarantined \/ Total(c, EvidenceWindow) >= threshold
  /\ old.quarantined => new.quarantined
  /\ a \notin Protected /\ Len(new.evidence) < MAX_EVIDENCE
       /\ Total(c, EvidenceWindow) >= threshold
       => new.quarantined

LEMMA BlameCounts ==
  ASSUME NEW a, NEW slot, SlotOK(slot), NEW kind \in {"rate", "outlier"},
         NEW threshold \in Nat, NEW c \in Counts, LogCounts(slot.evidence, kind, c)
  PROVE  LET new == Blamed(a, slot, kind, threshold)
         IN /\ new.evidence = WithEvidence(slot, kind).evidence
            /\ new.rate = slot.rate /\ new.scores = slot.scores
            /\ Judged(a, slot, new, OneMore(c), threshold)
<1> DEFINE b == WithEvidence(slot, kind)
           new == Blamed(a, slot, kind, threshold)
           m == Cardinality(OfKind(b.evidence, kind, EvidenceWindow))
<1>1. SlotOK(b)
  BY EvidenceFits
<1>2. /\ b.rate = slot.rate /\ b.scores = slot.scores /\ b.quarantined = slot.quarantined
      /\ b \in Slot
  BY <1>1 DEF WithEvidence, SlotOK, Slot
<1>3. LogCounts(b.evidence, kind, OneMore(c))
  BY EvidenceCounts
<1>4. /\ m <= Total(OneMore(c), EvidenceWindow)
      /\ Len(b.evidence) < MAX_EVIDENCE => m >= Total(OneMore(c), EvidenceWindow)
  BY <1>3, Ages DEF LogCounts
<1>5. m \in Nat /\ Total(OneMore(c), EvidenceWindow) \in Nat
  <2>1. b.evidence \in Seq(Piece)
    BY <1>2 DEF Slot
  <2>2. OfKind(b.evidence, kind, EvidenceWindow) \in SUBSET (1..Len(b.evidence))
        /\ Len(b.evidence) \in Nat
    BY <2>1 DEF OfKind
  <2>3. EvidenceWindow \in 0..Old /\ OneMore(c) \in Counts
    BY Ages, TotalFacts
  <2>4. Total(OneMore(c), EvidenceWindow) \in Nat
    BY <2>3, TotalFacts
  <2> HIDE DEF b
  <2> QED
    BY <2>2, <2>4, Subsets
<1>6. IsOften(b, kind, threshold) <=> m >= threshold
  BY DEF IsOften, Evidence, OfKind
<1>7. new = IF IsOften(b, kind, threshold) THEN Quarantined(a, b) ELSE b
  BY DEF Blamed
<1> HIDE DEF b, new, m
<1>8. /\ Quarantined(a, b).evidence = b.evidence /\ Quarantined(a, b).rate = b.rate
      /\ Quarantined(a, b).scores = b.scores
      /\ a \notin Protected => Quarantined(a, b).quarantined
      /\ b.quarantined => Quarantined(a, b).quarantined
  BY <1>2 DEF Quarantined, Slot
<1>9. new.evidence = b.evidence /\ new.rate = b.rate /\ new.scores = b.scores
  BY <1>7, <1>8
<1>10. Judged(a, slot, new, OneMore(c), threshold)
  <2>1. CASE m >= threshold
    <3>1. new = Quarantined(a, b) /\ Total(OneMore(c), EvidenceWindow) >= threshold
      BY <1>4, <1>5, <1>6, <1>7, <2>1
    <3> QED
      BY <1>2, <1>8, <3>1 DEF Judged
  <2>2. CASE ~(m >= threshold)
    <3>1. new = b
      BY <1>6, <1>7, <2>2
    <3>2. Len(b.evidence) < MAX_EVIDENCE => ~(Total(OneMore(c), EvidenceWindow) >= threshold)
      BY <1>4, <1>5, <2>2
    <3> QED
      BY <1>2, <3>1, <3>2 DEF Judged
  <2> QED
    BY <2>1, <2>2
<1> QED
  BY <1>2, <1>9, <1>10 DEF b, new

\* What a check leaves of the rest of a slot, and of a quarantine.
Keeps(old, new) == /\ new.rate = old.rate /\ new.scores = old.scores
                   /\ old.quarantined => new.quarantined

LEMMA IdentityCounts ==
  ASSUME NEW a, NEW slot, SlotOK(slot), NEW payload, NEW s,
         NEW r \in Counts, NEW o \in Counts, Counted(slot, s, r, o)
  PROVE  LET new == IdentityChecked(a, slot, payload)
         IN /\ SlotOK(new) /\ Counted(new, s, r, o) /\ Keeps(slot, new)
            /\ new.quarantined =>
                 slot.quarantined \/ payload = "tampered" \/ IsClash(a, payload)
<1> DEFINE b == WithEvidence(slot, "identity")
           new == IdentityChecked(a, slot, payload)
<1>1. SlotOK(b) /\ SlotOK(new)
  BY EvidenceFits, IdentityFits
<1>2. Counted(b, s, r, o)
  <2>1. LogCounts(b.evidence, "rate", r)
    <3>1. LogCounts(b.evidence, "rate", IF "rate" = "identity" THEN OneMore(r) ELSE r)
      BY EvidenceCounts DEF Counted
    <3> QED
      BY <3>1
  <2>2. LogCounts(b.evidence, "outlier", o)
    <3>1. LogCounts(b.evidence, "outlier", IF "outlier" = "identity" THEN OneMore(o) ELSE o)
      BY EvidenceCounts DEF Counted
    <3> QED
      BY <3>1
  <2>3. b.rate = slot.rate
    BY DEF WithEvidence, SlotOK, Slot
  <2> QED
    BY <2>1, <2>2, <2>3 DEF Counted
<1>3. Keeps(slot, b) /\ b.quarantined = slot.quarantined
  BY DEF WithEvidence, SlotOK, Slot, Keeps
<1>4. LET q == Quarantined(a, b)
      IN q.rate = b.rate /\ q.scores = b.scores /\ q.evidence = b.evidence
         /\ (b.quarantined => q.quarantined)
  BY <1>1 DEF Quarantined, SlotOK, Slot
<1>5. new = b \/ new = slot
      \/ (new = Quarantined(a, b) /\ (payload = "tampered" \/ IsClash(a, payload)))
  BY DEF IdentityChecked
<1> HIDE DEF b, new
<1>6. Counted(new, s, r, o)
  BY <1>2, <1>4, <1>5 DEF Counted
<1>7. Keeps(slot, new)
  BY <1>3, <1>4, <1>5 DEF Keeps
<1>8. new.quarantined => slot.quarantined \/ payload = "tampered" \/ IsClash(a, payload)
  BY <1>3, <1>5
<1> QED
  BY <1>1, <1>6, <1>7, <1>8 DEF new

\* Too fast is what is sent once more after so much within the window.
IsFast(s) == Total(s, RATE_WINDOW_SEC) + 1 > RATE_MAX_MSGS

LEMMA RateCounts ==
  ASSUME NEW a, NEW slot, SlotOK(slot), NEW s \in Counts,
         NEW r \in Counts, NEW o \in Counts, Counted(slot, s, r, o)
  PROVE  LET new == RateChecked(a, slot)
             r2 == IF IsFast(s) THEN OneMore(r) ELSE r
         IN /\ SlotOK(new) /\ Counted(new, OneMore(s), r2, o)
            /\ new.scores = slot.scores
            /\ ~IsFast(s) => new.quarantined = slot.quarantined
            /\ IsFast(s) => Judged(a, slot, new, r2, QUARANTINE_THRESHOLD)
<1> DEFINE t == [slot EXCEPT !.rate = Times!RingAdd(slot.rate, 0)]
           new == RateChecked(a, slot)
           m == Cardinality(Young(t.rate.entries, RATE_WINDOW_SEC))
<1>1. RateChecked(a, slot) = IF Rate(t) > RATE_MAX_MSGS
                             THEN Blamed(a, t, "rate", QUARANTINE_THRESHOLD) ELSE t
  BY DEF RateChecked
<1>2. /\ t.scores = slot.scores /\ t.quarantined = slot.quarantined
      /\ t.evidence = slot.evidence /\ t.rate = Times!RingAdd(slot.rate, 0)
  BY DEF SlotOK, Slot
<1>3. RingCounts(t.rate, OneMore(s))
  BY <1>2, RingAddCounts DEF Counted
<1>4. SlotOK(t)
  BY RateAddFits
<1>5. SlotOK(new)
  BY RateFits
<1> HIDE DEF t
<1>6. Rate(t) > RATE_MAX_MSGS <=> IsFast(s)
  <2>1. Rate(t) = m
    BY DEF Rate, Young
  <2>2. /\ Total(OneMore(s), RATE_WINDOW_SEC) = Total(s, RATE_WINDOW_SEC) + 1
        /\ Total(s, RATE_WINDOW_SEC) \in Nat
    BY Ages, TotalFacts
  <2>3. m <= Total(s, RATE_WINDOW_SEC) + 1
        /\ (m >= Total(s, RATE_WINDOW_SEC) + 1 \/ m = RATE_RING_SZ)
    BY <1>3, <2>2, Ages DEF RingCounts
  <2>4. RATE_RING_SZ \in Nat /\ RATE_MAX_MSGS \in Nat /\ RATE_RING_SZ > RATE_MAX_MSGS
    BY DetectionAssumption
  <2>5. m \in Nat
    <3>1. t.rate.entries \in Seq(Nat)
      BY <1>4 DEF SlotOK, Slot
    <3>2. /\ Young(t.rate.entries, RATE_WINDOW_SEC) \in SUBSET (1..Len(t.rate.entries))
          /\ Len(t.rate.entries) \in Nat
      BY <3>1 DEF Young
    <3> QED
      BY <3>2, Subsets
  <2> HIDE DEF m
  <2> QED
    BY <2>1, <2>2, <2>3, <2>4, <2>5 DEF IsFast
<1>7. CASE IsFast(s)
  <2>1. new = Blamed(a, t, "rate", QUARANTINE_THRESHOLD)
    BY <1>1, <1>6, <1>7
  <2>2. LogCounts(t.evidence, "rate", r) /\ LogCounts(t.evidence, "outlier", o)
    BY <1>2 DEF Counted
  <2>3. QUARANTINE_THRESHOLD \in Nat
    BY DetectionAssumption
  <2> DEFINE b == Blamed(a, t, "rate", QUARANTINE_THRESHOLD)
  <2>4. /\ b.evidence = WithEvidence(t, "rate").evidence
        /\ b.rate = t.rate /\ b.scores = t.scores
        /\ Judged(a, t, b, OneMore(r), QUARANTINE_THRESHOLD)
    BY <1>4, <2>2, <2>3, BlameCounts
  <2>5. LogCounts(WithEvidence(t, "rate").evidence, "rate", OneMore(r))
    BY <1>4, <2>2, EvidenceCounts
  <2>6. LogCounts(WithEvidence(t, "rate").evidence, "outlier", o)
    <3>1. LogCounts(WithEvidence(t, "rate").evidence, "outlier",
                    IF "outlier" = "rate" THEN OneMore(o) ELSE o)
      BY <1>4, <2>2, EvidenceCounts
    <3> QED
      BY <3>1
  <2> HIDE DEF b, new
  <2>7. Counted(b, OneMore(s), OneMore(r), o)
    BY <1>3, <2>4, <2>5, <2>6 DEF Counted
  <2>8. Judged(a, slot, b, OneMore(r), QUARANTINE_THRESHOLD)
    BY <1>2, <2>4 DEF Judged
  <2>9. new = b
    BY <2>1 DEF b
  <2> QED
    BY <1>2, <1>5, <1>7, <2>4, <2>7, <2>8, <2>9 DEF new
<1>8. CASE ~IsFast(s)
  <2>1. new = t
    BY <1>1, <1>6, <1>8
  <2>2. Counted(t, OneMore(s), r, o)
    BY <1>2, <1>3 DEF Counted
  <2> HIDE DEF new
  <2> QED
    BY <1>2, <1>5, <1>8, <2>1, <2>2 DEF new
<1> QED
  BY <1>7, <1>8

LEMMA ScoreCounts ==
  ASSUME NEW a, NEW slot, SlotOK(slot), NEW z \in Scores \union {NoNumber},
         NEW s, NEW r \in Counts, NEW o \in Counts, Counted(slot, s, r, o)
  PROVE  LET new == ScoreChecked(a, slot, z)
             out == IsOutlier(WithScore(slot.scores, z), z)
             o2 == IF out THEN OneMore(o) ELSE o
         IN /\ SlotOK(new) /\ Counted(new, s, r, o2)
            /\ ~out => new.quarantined = slot.quarantined
            /\ out => Judged(a, slot, new, o2, OutlierThreshold)
<1> DEFINE sums == WithScore(slot.scores, z)
           t == [slot EXCEPT !.scores = sums]
           new == ScoreChecked(a, slot, z)
           out == IsOutlier(sums, z)
<1>1. /\ t.scores = sums /\ t.quarantined = slot.quarantined
      /\ t.evidence = slot.evidence /\ t.rate = slot.rate
  BY DEF SlotOK, Slot
<1>2. SlotOK(t) /\ SlotOK(new)
  BY ScoreAddFits, ScoreFits
<1>3. new = IF out THEN Blamed(a, t, "outlier", OutlierThreshold) ELSE t
  <2>1. new = IF IsOutlier(t.scores, z)
              THEN Blamed(a, t, "outlier", OutlierThreshold) ELSE t
    BY DEF ScoreChecked
  <2> HIDE DEF t, new, sums
  <2> QED
    BY <1>1, <2>1
<1> HIDE DEF t, sums
<1>4. /\ LogCounts(t.evidence, "rate", r) /\ LogCounts(t.evidence, "outlier", o)
      /\ RingCounts(t.rate, s)
  BY <1>1 DEF Counted
<1>5. CASE out
  <2>1. OutlierThreshold \in Nat
    BY DetectionAssumption
  <2> DEFINE b == Blamed(a, t, "outlier", OutlierThreshold)
  <2>2. /\ b.evidence = WithEvidence(t, "outlier").evidence
        /\ b.rate = t.rate /\ b.scores = t.scores
        /\ Judged(a, t, b, OneMore(o), OutlierThreshold)
    BY <1>2, <1>4, <2>1, BlameCounts
  <2>3. LogCounts(WithEvidence(t, "outlier").evidence, "outlier", OneMore(o))
    BY <1>2, <1>4, EvidenceCounts
  <2>4. LogCounts(WithEvidence(t, "outlier").evidence, "rate", r)
    <3>1. LogCounts(WithEvidence(t, "outlier").evidence, "rate",
                    IF "rate" = "outlier" THEN OneMore(r) ELSE r)
      BY <1>2, <1>4, EvidenceCounts
    <3> QED
      BY <3>1
  <2>5. new = b
    BY <1>3, <1>5
  <2> HIDE DEF b, new
  <2>6. Counted(b, s, r, OneMore(o))
    BY <1>4, <2>2, <2>3, <2>4 DEF Counted
  <2>7. Judged(a, slot, b, OneMore(o), OutlierThreshold)
    BY <1>1, <2>2 DEF Judged
  <2> HIDE DEF out
  <2> QED
    BY <1>2, <1>5, <2>5, <2>6, <2>7 DEF new, out, sums
<1>6. CASE ~out
  <2>1. new = t
    BY <1>3, <1>6
  <2>2. Counted(t, s, r, o)
    BY <1>4 DEF Counted
  <2> HIDE DEF new, out
  <2> QED
    BY <1>1, <1>2, <1>6, <2>1, <2>2 DEF new, out, sums
<1> QED
  BY <1>5, <1>6

\* The inductive invariant: what is held of each agent against what it did.
CountsOK ==
  /\ sent \in [Agents -> Counts]
  /\ offences \in [Agents -> [{"rate", "outlier"} -> Counts]]
  /\ \A a \in Agents : Counted(threats[a], sent[a], offences[a]["rate"],
                               offences[a]["outlier"])

LEMMA CountsStart == DetectionInit => CountsOK
<1> SUFFICES ASSUME DetectionInit PROVE CountsOK
  OBVIOUS
<1>1. Never \in Counts
  BY DEF Never, Counts
<1>2. \A w \in 0..(Old - 1) : Total(Never, w) = 0
  <2> DEFINE T == [w \in 0..Old |-> Total(Never, w)]
             P == {w \in 0..Old : T[w] = 0}
  <2>1. Accumulates(T, Never) /\ Old \in Nat
    BY <1>1, TotalAccumulates, Ages
  <2>2. \A w \in 0..Old : Never[w] = 0 /\ T[w] = Total(Never, w)
    BY DEF Never
  <2> HIDE DEF T
  <2>3. 0 \in P
    BY <2>1, <2>2 DEF Accumulates
  <2>4. ASSUME NEW w \in 1..Old, w - 1 \in P PROVE w \in P
    <3>1. w \in 0..Old /\ T[w] = T[w - 1] + Never[w]
      BY <2>1 DEF Accumulates
    <3> QED
      BY <2>2, <2>4, <3>1
  <2>5. P \in SUBSET (0..Old)
    OBVIOUS
  <2> HIDE DEF P
  <2>6. P = 0..Old
    BY <2>1, <2>3, <2>4, <2>5, AllUpTo
  <2>7. \A w \in 0..(Old - 1) : w \in P
    BY <2>1, <2>6
  <2> QED
    BY <2>1, <2>2, <2>7 DEF P
<1>3. RingCounts(Unknown.rate, Never)
  <2>1. /\ Unknown.rate.entries = <<>> /\ Unknown.rate.next = 1
    BY DEF Unknown, Times!EmptyRing
  <2>2. \A w : Young(<<>>, w) = {}
    BY DEF Young
  <2>3. Ordered(Unknown.rate)
    BY <2>1 DEF Ordered
  <2>4. \A w \in 0..(Old - 1) : Cardinality(Young(<<>>, w)) = 0
    BY <2>2, FS_EmptySet
  <2> QED
    BY <1>2, <2>1, <2>3, <2>4 DEF RingCounts
<1>4. \A kind : LogCounts(Unknown.evidence, kind, Never)
  <2>1. Unknown.evidence = <<>>
    BY DEF Unknown
  <2>2. \A kind, w : OfKind(<<>>, kind, w) = {}
    BY DEF OfKind
  <2>3. \A kind, w : Cardinality(OfKind(<<>>, kind, w)) = 0
    BY <2>2, FS_EmptySet
  <2> QED
    BY <1>2, <2>1, <2>3 DEF LogCounts
<1>5. Counted(Unknown, Never, Never, Never)
  BY <1>3, <1>4 DEF Counted
<1> QED
  BY <1>1, <1>5 DEF DetectionInit, CountsOK

\* threats[a] becomes slot, if there is one, and the rest stays.
LEMMA CheckedGives ==
  ASSUME ThreatsOK(threats), NEW a \in Agents, NEW slot, SlotOK(slot), Checked(a, slot)
  PROVE  /\ \A b \in Agents : b # a => threats'[b] = threats[b]
         /\ ~HasSlot(a) => threats'[a] = threats[a]
         /\ HasSlot(a) => /\ threats'[a].quarantined = slot.quarantined
                          /\ threats'[a].rate = slot.rate
                          /\ threats'[a].evidence = slot.evidence
<1>1. CASE HasSlot(a)
  <2>1. threats' = [threats EXCEPT ![a] = [slot EXCEPT !.known = TRUE]]
    BY <1>1 DEF Checked
  <2>2. threats'[a] = [slot EXCEPT !.known = TRUE]
        /\ \A b \in Agents : b # a => threats'[b] = threats[b]
    BY <2>1 DEF ThreatsOK
  <2> QED
    BY <1>1, <2>2 DEF SlotOK, Slot
<1>2. CASE ~HasSlot(a)
  BY <1>2 DEF Checked
<1> QED
  BY <1>1, <1>2

\* The counts of one agent follow its slot.
LEMMA OneSlotCounts ==
  ASSUME CountsOK, NEW a \in Agents,
         \A b \in Agents : b # a => threats'[b] = threats[b],
         NEW s \in Counts, NEW r \in Counts, NEW o \in Counts,
         sent' = [sent EXCEPT ![a] = s],
         offences' = [offences EXCEPT ![a]["rate"] = r, ![a]["outlier"] = o],
         Counted(threats'[a], s, r, o)
  PROVE  CountsOK'
<1>1. /\ sent' \in [Agents -> Counts] /\ sent'[a] = s
      /\ \A b \in Agents : b # a => sent'[b] = sent[b]
  BY DEF CountsOK
<1>2. /\ offences' \in [Agents -> [{"rate", "outlier"} -> Counts]]
      /\ offences'[a]["rate"] = r /\ offences'[a]["outlier"] = o
      /\ \A b \in Agents : b # a => offences'[b] = offences[b]
  BY DEF CountsOK
<1> QED
  BY <1>1, <1>2 DEF CountsOK

\* A count after something happened, or not.
Noted(happened, counts) == IF happened THEN OneMore(counts) ELSE counts

LEMMA NotedTyped ==
  ASSUME NEW c \in Counts, NEW happened
  PROVE  Noted(happened, c) \in Counts
BY TotalFacts DEF Noted

\* The ghosts, when there is a slot.
LEMMA NoteGives ==
  ASSUME CountsOK, NEW a \in Agents, NEW out \in BOOLEAN, Note(a, out)
  PROVE  LET s == Noted(HasSlot(a), sent[a])
             r == Noted(HasSlot(a) /\ IsFast(sent[a]), offences[a]["rate"])
             o == Noted(HasSlot(a) /\ out, offences[a]["outlier"])
         IN /\ sent' = [sent EXCEPT ![a] = s]
            /\ offences' = [offences EXCEPT ![a]["rate"] = r, ![a]["outlier"] = o]
            /\ s \in Counts /\ r \in Counts /\ o \in Counts
<1> DEFINE s == Noted(HasSlot(a), sent[a])
           r == Noted(HasSlot(a) /\ IsFast(sent[a]), offences[a]["rate"])
           o == Noted(HasSlot(a) /\ out, offences[a]["outlier"])
<1>1. /\ sent[a] \in Counts /\ offences[a]["rate"] \in Counts
      /\ offences[a]["outlier"] \in Counts
  BY DEF CountsOK
<1>2. s \in Counts /\ r \in Counts /\ o \in Counts
  BY <1>1, NotedTyped
<1>3. sent' = [sent EXCEPT ![a] = s]
  BY DEF Note, Noted, OneMore
<1>4. offences' = [offences EXCEPT ![a]["rate"] = r, ![a]["outlier"] = o]
  BY DEF Note, Noted, OneMore, IsFast
<1> QED
  BY <1>2, <1>3, <1>4

\* What a message that counts leaves.
CountsAfter(a, slot, out) ==
  Counted(slot, OneMore(sent[a]), Noted(IsFast(sent[a]), offences[a]["rate"]),
          Noted(out, offences[a]["outlier"]))

Taken(a, slot, out) ==
  /\ \A b \in Agents : b # a => threats'[b] = threats[b] /\ offences'[b] = offences[b]
  /\ ~HasSlot(a) => threats'[a] = threats[a] /\ offences'[a]["rate"] = offences[a]["rate"]
  /\ HasSlot(a) =>
       /\ threats'[a].quarantined = slot.quarantined
       /\ threats'[a].evidence = slot.evidence
       /\ offences'[a]["rate"] = Noted(IsFast(sent[a]), offences[a]["rate"])
       /\ offences'[a]["outlier"] = Noted(out, offences[a]["outlier"])

LEMMA MessageFacts ==
  ASSUME DetectionInv, CountsOK, NEW a \in Agents, NEW slot, SlotOK(slot),
         NEW out \in BOOLEAN, Checked(a, slot), Note(a, out), CountsAfter(a, slot, out)
  PROVE  CountsOK' /\ Taken(a, slot, out)
<1> DEFINE s == Noted(HasSlot(a), sent[a])
           r == Noted(HasSlot(a) /\ IsFast(sent[a]), offences[a]["rate"])
           o == Noted(HasSlot(a) /\ out, offences[a]["outlier"])
<1>1. /\ sent' = [sent EXCEPT ![a] = s]
      /\ offences' = [offences EXCEPT ![a]["rate"] = r, ![a]["outlier"] = o]
      /\ s \in Counts /\ r \in Counts /\ o \in Counts
  BY NoteGives
<1>2. /\ \A b \in Agents : b # a => threats'[b] = threats[b]
      /\ ~HasSlot(a) => threats'[a] = threats[a]
      /\ HasSlot(a) => /\ threats'[a].quarantined = slot.quarantined
                       /\ threats'[a].rate = slot.rate
                       /\ threats'[a].evidence = slot.evidence
  BY CheckedGives DEF DetectionInv
<1>3. CASE HasSlot(a)
  <2>1. /\ s = OneMore(sent[a]) /\ r = Noted(IsFast(sent[a]), offences[a]["rate"])
        /\ o = Noted(out, offences[a]["outlier"])
    BY <1>3 DEF Noted
  <2> HIDE DEF s, r, o
  <2>2. Counted(threats'[a], s, r, o)
    BY <1>2, <1>3, <2>1 DEF CountsAfter, Counted
  <2>3. CountsOK'
    BY <1>1, <1>2, <2>2, OneSlotCounts
  <2>4. /\ offences'[a]["rate"] = r /\ offences'[a]["outlier"] = o
        /\ \A b \in Agents : b # a => offences'[b] = offences[b]
    BY <1>1 DEF CountsOK
  <2> QED
    BY <1>2, <1>3, <2>1, <2>3, <2>4 DEF Taken
<1>4. CASE ~HasSlot(a)
  <2>1. s = sent[a] /\ r = offences[a]["rate"] /\ o = offences[a]["outlier"]
    BY <1>4 DEF Noted
  <2> HIDE DEF s, r, o
  <2>2. Counted(threats'[a], s, r, o)
    BY <1>2, <1>4, <2>1 DEF CountsOK
  <2>3. CountsOK'
    BY <1>1, <1>2, <2>2, OneSlotCounts
  <2>4. /\ offences'[a]["rate"] = r
        /\ \A b \in Agents : b # a => offences'[b] = offences[b]
    BY <1>1 DEF CountsOK
  <2> QED
    BY <1>2, <1>4, <2>1, <2>3, <2>4 DEF Taken
<1> QED
  BY <1>3, <1>4

\* What happens without anything being counted.
LEMMA QuietFacts ==
  ASSUME CountsOK, NEW a \in Agents, UNCHANGED <<sent, offences>>,
         \A b \in Agents : b # a => threats'[b] = threats[b],
         Counted(threats'[a], sent[a], offences[a]["rate"], offences[a]["outlier"])
  PROVE  CountsOK'
BY DEF CountsOK

\* The log never gets shorter.
LEMMA ScoreKeepsLog ==
  ASSUME NEW a, NEW slot, SlotOK(slot), NEW z \in Scores \union {NoNumber}
  PROVE  Len(slot.evidence) <= Len(ScoreChecked(a, slot, z).evidence)
<1> DEFINE t == [slot EXCEPT !.scores = WithScore(slot.scores, z)]
           b == WithEvidence(t, "outlier")
           new == ScoreChecked(a, slot, z)
<1>1. SlotOK(t) /\ t.evidence = slot.evidence
  BY ScoreAddFits DEF SlotOK, Slot
<1>2. new = t \/ new = Blamed(a, t, "outlier", OutlierThreshold)
  BY DEF ScoreChecked
<1> HIDE DEF t
<1>3. SlotOK(b)
  BY <1>1, EvidenceFits
<1>4. /\ t.evidence \in Seq(Piece)
      /\ b.evidence = IF Len(t.evidence) < MAX_EVIDENCE
                      THEN Append(t.evidence, [kind |-> "outlier", age |-> 0])
                      ELSE [t.evidence EXCEPT ![1] = [kind |-> "outlier", age |-> 0]]
  BY <1>1 DEF WithEvidence, SlotOK, Slot
<1>5. Len(t.evidence) <= Len(b.evidence) /\ Len(t.evidence) \in Nat
  <2> DEFINE piece == [kind |-> "outlier", age |-> 0]
             log == t.evidence
  <2>1. log \in Seq(Piece) /\ Len(log) \in Nat
    BY <1>4
  <2> HIDE DEF log, piece
  <2>2. Len(Append(log, piece)) = Len(log) + 1 /\ Len([log EXCEPT ![1] = piece]) = Len(log)
    BY <2>1
  <2>3. b.evidence = Append(log, piece) \/ b.evidence = [log EXCEPT ![1] = piece]
    BY <1>4 DEF log, piece
  <2> HIDE DEF b
  <2>4. Len(log) <= Len(b.evidence)
    <3>1. Len(b.evidence) = Len(Append(log, piece))
          \/ Len(b.evidence) = Len([log EXCEPT ![1] = piece])
      BY <2>3, Zenon
    <3>2. Len(b.evidence) = Len(log) + 1 \/ Len(b.evidence) = Len(log)
      BY <2>2, <3>1, Zenon
    <3> QED
      BY <2>1, <3>2
  <2> QED
    BY <2>1, <2>4 DEF log
<1>6. Quarantined(a, b).evidence = b.evidence
  BY <1>3 DEF Quarantined, SlotOK, Slot
<1>7. Blamed(a, t, "outlier", OutlierThreshold) = b
      \/ Blamed(a, t, "outlier", OutlierThreshold) = Quarantined(a, b)
  BY DEF Blamed
<1> HIDE DEF b, new
<1>8. Len(t.evidence) <= Len(new.evidence)
  BY <1>2, <1>5, <1>6, <1>7
<1> QED
  BY <1>1, <1>8 DEF new

\* Why an enforcer quarantines an agent on its own account, and when it must.
Backed(a) ==
  Newly(a) =>
    \/ Offences(a, "rate") >= QUARANTINE_THRESHOLD
    \/ Offences(a, "outlier") >= OutlierThreshold
    \/ Remote(a)
    \/ \E payload \in Payloads :
         /\ payload = "tampered" \/ IsClash(a, payload)
         /\ Announce(a, payload) \/ Heartbeat(a, payload)
            \/ HeartbeatOfFellow(a, payload)

Caught(a) ==
  /\ offences'[a].rate[0] > offences[a].rate[0]
  /\ Offences(a, "rate") >= QUARANTINE_THRESHOLD
  /\ Len(threats'[a].evidence) < MAX_EVIDENCE
  => threats'[a].quarantined

\* All that is left to show of a step.
Just(a) == Backed(a) /\ (a \notin Protected => Caught(a))

LEMMA OthersAreJust ==
  ASSUME NEW a, threats'[a] = threats[a] \/ ~threats'[a].quarantined
                \/ threats'[a].quarantined = threats[a].quarantined,
         offences'[a].rate[0] = offences[a].rate[0], offences[a].rate[0] \in Nat
  PROVE  Just(a)
BY DEF Just, Backed, Caught, Newly

LEMMA RatesTyped ==
  ASSUME CountsOK
  PROVE  \A a \in Agents : /\ sent[a] \in Counts /\ offences[a]["rate"] \in Counts
                           /\ offences[a]["outlier"] \in Counts
                           /\ offences[a].rate[0] \in Nat
<1>1. 0 \in 0..Old
  BY Ages
<1>2. \A a \in Agents : /\ sent[a] \in Counts /\ offences[a]["rate"] \in Counts
                        /\ offences[a]["outlier"] \in Counts
  BY DEF CountsOK
<1>3. \A c \in Counts : c[0] \in Nat
  BY <1>1 DEF Counts
<1> QED
  BY <1>2, <1>3

\* A message whose rate was all that was checked.
LEMMA MessageIsJust ==
  ASSUME DetectionInv, CountsOK, NEW a \in Agents, NEW old, NEW new, SlotOK(old),
         NEW out \in BOOLEAN, Taken(a, new, out),
         old.quarantined =>
           threats[a].quarantined
           \/ \E payload \in Payloads :
                /\ payload = "tampered" \/ IsClash(a, payload)
                /\ Announce(a, payload) \/ Heartbeat(a, payload)
                   \/ HeartbeatOfFellow(a, payload),
         new.quarantined =>
           \/ old.quarantined
           \/ Total(Noted(IsFast(sent[a]), offences[a]["rate"]), EvidenceWindow)
                >= QUARANTINE_THRESHOLD
           \/ Total(Noted(out, offences[a]["outlier"]), EvidenceWindow) >= OutlierThreshold,
         /\ IsFast(sent[a]) /\ a \notin Protected /\ Len(new.evidence) < MAX_EVIDENCE
         /\ Total(Noted(IsFast(sent[a]), offences[a]["rate"]), EvidenceWindow)
              >= QUARANTINE_THRESHOLD
         => new.quarantined
  PROVE  \A b \in Agents : Just(b)
<1>1. \A b \in Agents : offences[b].rate[0] \in Nat
  BY RatesTyped
<1>2. ASSUME NEW b \in Agents, b # a PROVE Just(b)
  <2>1. threats'[b] = threats[b] /\ offences'[b] = offences[b]
    BY <1>2 DEF Taken
  <2> QED
    BY <1>1, <2>1, OthersAreJust
<1>3. CASE ~HasSlot(a)
  <2>1. threats'[a] = threats[a] /\ offences'[a]["rate"] = offences[a]["rate"]
    BY <1>3 DEF Taken
  <2> QED
    BY <1>1, <1>2, <2>1, OthersAreJust
<1>4. CASE HasSlot(a)
  <2>1. /\ threats'[a].quarantined = new.quarantined
        /\ threats'[a].evidence = new.evidence
        /\ offences'[a]["rate"] = Noted(IsFast(sent[a]), offences[a]["rate"])
        /\ offences'[a]["outlier"] = Noted(out, offences[a]["outlier"])
    BY <1>4 DEF Taken
  <2>2. Backed(a)
    BY <2>1 DEF Backed, Newly, Offences
  <2>3. ASSUME a \notin Protected PROVE Caught(a)
    <3>1. offences'[a].rate[0] > offences[a].rate[0] => IsFast(sent[a])
      BY <1>1, <2>1 DEF Noted
    <3> QED
      BY <2>1, <2>3, <3>1 DEF Caught, Offences
  <2> QED
    BY <1>2, <2>2, <2>3 DEF Just
<1> QED
  BY <1>3, <1>4

\* check_rate() as the last check, or before that of the score.
LEMMA RateIsJust ==
  ASSUME DetectionInv, CountsOK, NEW a \in Agents, NEW old, SlotOK(old),
         Counted(old, sent[a], offences[a]["rate"], offences[a]["outlier"]),
         old.quarantined =>
           threats[a].quarantined
           \/ \E payload \in Payloads :
                /\ payload = "tampered" \/ IsClash(a, payload)
                /\ Announce(a, payload) \/ Heartbeat(a, payload)
                   \/ HeartbeatOfFellow(a, payload),
         Checked(a, RateChecked(a, old)), Note(a, FALSE)
  PROVE  CountsOK' /\ \A b \in Agents : Just(b)
<1> DEFINE new == RateChecked(a, old)
           fast == IsFast(sent[a])
           r2 == Noted(fast, offences[a]["rate"])
<1>1. /\ sent[a] \in Counts /\ offences[a]["rate"] \in Counts
      /\ offences[a]["outlier"] \in Counts
  BY RatesTyped
<1>2. /\ SlotOK(new) /\ Counted(new, OneMore(sent[a]), r2, offences[a]["outlier"])
      /\ ~fast => new.quarantined = old.quarantined
      /\ fast => Judged(a, old, new, r2, QUARANTINE_THRESHOLD)
  BY <1>1, RateCounts DEF Noted
<1> HIDE DEF new, fast
<1>3. CountsAfter(a, new, FALSE)
  BY <1>2 DEF CountsAfter, Noted, fast
<1>4. Checked(a, new) /\ FALSE \in BOOLEAN
  BY DEF new
<1>5. CountsOK' /\ Taken(a, new, FALSE)
  BY <1>2, <1>3, <1>4, MessageFacts
<1>6. new.quarantined =>
        \/ old.quarantined
        \/ Total(r2, EvidenceWindow) >= QUARANTINE_THRESHOLD
        \/ Total(Noted(FALSE, offences[a]["outlier"]), EvidenceWindow) >= OutlierThreshold
  BY <1>2 DEF Judged
<1>7. /\ fast /\ a \notin Protected /\ Len(new.evidence) < MAX_EVIDENCE
      /\ Total(r2, EvidenceWindow) >= QUARANTINE_THRESHOLD
      => new.quarantined
  BY <1>2 DEF Judged
<1>8. \A b \in Agents : Just(b)
  BY <1>4, <1>5, <1>6, <1>7, MessageIsJust DEF fast
<1> QED
  BY <1>5, <1>8

LEMMA ProgramIsJust ==
  ASSUME DetectionInv, CountsOK, NEW a \in Agents, Program(a)
  PROVE  CountsOK' /\ \A b \in Agents : Just(b)
<1>1. /\ SlotOK(threats[a])
      /\ Counted(threats[a], sent[a], offences[a]["rate"], offences[a]["outlier"])
      /\ Checked(a, RateChecked(a, threats[a])) /\ Note(a, FALSE)
  BY DEF Program, DetectionInv, ThreatsOK, CountsOK
<1> QED
  BY <1>1, RateIsJust

LEMMA HeartbeatIsJust ==
  ASSUME DetectionInv, CountsOK, NEW a \in Agents, NEW payload \in Payloads,
         Heartbeat(a, payload)
  PROVE  CountsOK' /\ \A b \in Agents : Just(b)
<1> DEFINE old == IdentityChecked(a, threats[a], payload)
<1>1. /\ SlotOK(threats[a]) /\ offences[a]["rate"] \in Counts
      /\ offences[a]["outlier"] \in Counts
      /\ Counted(threats[a], sent[a], offences[a]["rate"], offences[a]["outlier"])
  BY DEF DetectionInv, ThreatsOK, CountsOK
<1>2. Checked(a, RateChecked(a, old)) /\ Note(a, FALSE)
  BY DEF Heartbeat
<1>3. /\ SlotOK(old)
      /\ Counted(old, sent[a], offences[a]["rate"], offences[a]["outlier"])
      /\ old.quarantined =>
           threats[a].quarantined \/ payload = "tampered" \/ IsClash(a, payload)
  BY <1>1, IdentityCounts
<1> HIDE DEF old
<1>4. old.quarantined =>
        threats[a].quarantined
        \/ \E p \in Payloads :
             /\ p = "tampered" \/ IsClash(a, p)
             /\ Announce(a, p) \/ Heartbeat(a, p) \/ HeartbeatOfFellow(a, p)
  BY <1>3
<1> QED
  BY <1>2, <1>3, <1>4, RateIsJust

LEMMA AnnounceIsJust ==
  ASSUME DetectionInv, CountsOK, NEW a \in Agents, NEW payload \in Payloads,
         Announce(a, payload)
  PROVE  CountsOK' /\ \A b \in Agents : Just(b)
<1> DEFINE new == IdentityChecked(a, threats[a], payload)
<1>1. /\ SlotOK(threats[a]) /\ offences[a]["rate"] \in Counts
      /\ offences[a]["outlier"] \in Counts
      /\ Counted(threats[a], sent[a], offences[a]["rate"], offences[a]["outlier"])
      /\ threats[a].quarantined \in BOOLEAN
  BY DEF DetectionInv, ThreatsOK, CountsOK, SlotOK, Slot
<1>2. /\ SlotOK(new)
      /\ Counted(new, sent[a], offences[a]["rate"], offences[a]["outlier"])
      /\ new.quarantined =>
           threats[a].quarantined \/ payload = "tampered" \/ IsClash(a, payload)
  BY <1>1, IdentityCounts
<1>3. UNCHANGED threats \/ Checked(a, new)
  BY DEF Announce
<1>4. UNCHANGED <<sent, offences>>
  BY DEF Announce
<1> HIDE DEF new
<1>5. /\ \A b \in Agents : b # a => threats'[b] = threats[b]
      /\ \/ threats'[a] = threats[a]
         \/ /\ threats'[a].quarantined = new.quarantined
            /\ threats'[a].rate = new.rate
            /\ threats'[a].evidence = new.evidence
  <2>1. CASE UNCHANGED threats
    BY <2>1
  <2>2. CASE Checked(a, new)
    BY <1>2, <2>2, CheckedGives DEF DetectionInv
  <2> QED
    BY <1>3, <2>1, <2>2
<1>6. Counted(threats'[a], sent[a], offences[a]["rate"], offences[a]["outlier"])
  BY <1>1, <1>2, <1>5 DEF Counted
<1>7. CountsOK'
  BY <1>4, <1>5, <1>6, QuietFacts
<1>8. \A b \in Agents : offences'[b].rate[0] = offences[b].rate[0]
                        /\ offences[b].rate[0] \in Nat
  BY <1>4, RatesTyped
<1>9. ASSUME NEW b \in Agents, b # a PROVE Just(b)
  BY <1>5, <1>8, <1>9, OthersAreJust
<1>10. Backed(a)
  BY <1>2, <1>5 DEF Backed, Newly
<1>11. Caught(a)
  BY <1>8 DEF Caught
<1> QED
  BY <1>7, <1>9, <1>10, <1>11 DEF Just

LEMMA ResultIsJust ==
  ASSUME DetectionInv, CountsOK, NEW a \in Agents, NEW z \in Scores \union {NoNumber},
         Result(a, z)
  PROVE  CountsOK' /\ \A b \in Agents : Just(b)
<1> DEFINE old == threats[a]
           mid == RateChecked(a, old)
           new == ScoreChecked(a, mid, z)
           fast == IsFast(sent[a])
           out == IsOutlier(WithScore(old.scores, z), z)
           r2 == Noted(fast, offences[a]["rate"])
           o2 == Noted(out, offences[a]["outlier"])
<1>1. /\ sent[a] \in Counts /\ offences[a]["rate"] \in Counts
      /\ offences[a]["outlier"] \in Counts
      /\ r2 \in Counts
  BY RatesTyped, NotedTyped
<1>2. /\ SlotOK(old)
      /\ Counted(old, sent[a], offences[a]["rate"], offences[a]["outlier"])
  BY DEF DetectionInv, ThreatsOK, CountsOK
<1>3. Checked(a, new) /\ Note(a, out)
  BY DEF Result
<1>4. out \in BOOLEAN
  BY DEF IsOutlier
<1>5. /\ SlotOK(mid) /\ Counted(mid, OneMore(sent[a]), r2, offences[a]["outlier"])
      /\ mid.scores = old.scores
      /\ ~fast => mid.quarantined = old.quarantined
      /\ fast => Judged(a, old, mid, r2, QUARANTINE_THRESHOLD)
  BY <1>1, <1>2, RateCounts DEF Noted
<1> HIDE DEF mid, fast, r2
<1>6. /\ SlotOK(new) /\ Counted(new, OneMore(sent[a]), r2, o2)
      /\ ~out => new.quarantined = mid.quarantined
      /\ out => Judged(a, mid, new, o2, OutlierThreshold)
  BY <1>1, <1>5, ScoreCounts DEF Noted
<1>7. Len(mid.evidence) <= Len(new.evidence)
  BY <1>5, ScoreKeepsLog
<1>8. Len(mid.evidence) \in Nat /\ Len(new.evidence) \in Nat /\ MAX_EVIDENCE \in Nat
  BY <1>5, <1>6, DetectionNumbers DEF SlotOK, Slot
<1> HIDE DEF new, out, o2, old
<1>9. CountsAfter(a, new, out)
  BY <1>6 DEF CountsAfter, r2, fast, o2
<1>10. CountsOK' /\ Taken(a, new, out)
  BY <1>3, <1>4, <1>6, <1>9, MessageFacts
<1>11. new.quarantined =>
         \/ old.quarantined
         \/ Total(r2, EvidenceWindow) >= QUARANTINE_THRESHOLD
         \/ Total(o2, EvidenceWindow) >= OutlierThreshold
  BY <1>4, <1>5, <1>6 DEF Judged
<1>12. /\ fast /\ a \notin Protected /\ Len(new.evidence) < MAX_EVIDENCE
       /\ Total(r2, EvidenceWindow) >= QUARANTINE_THRESHOLD
       => new.quarantined
  <2> SUFFICES ASSUME fast, a \notin Protected, Len(new.evidence) < MAX_EVIDENCE,
                      Total(r2, EvidenceWindow) >= QUARANTINE_THRESHOLD
               PROVE  new.quarantined
    OBVIOUS
  <2>1. Len(mid.evidence) < MAX_EVIDENCE
    BY <1>7, <1>8
  <2>2. mid.quarantined
    BY <1>5, <2>1 DEF Judged
  <2> QED
    BY <1>4, <1>6, <2>2 DEF Judged
<1>13. \A b \in Agents : Just(b)
  BY <1>2, <1>4, <1>10, <1>11, <1>12, MessageIsJust DEF fast, r2, o2, old
<1> QED
  BY <1>10, <1>13

LEMMA RemoteIsJust ==
  ASSUME DetectionInv, CountsOK, NEW a \in Agents, Remote(a)
  PROVE  CountsOK' /\ \A b \in Agents : Just(b)
<1> DEFINE e == WithEvidence(threats[a], "remote")
           new == Quarantined(a, e)
<1>1. /\ SlotOK(threats[a]) /\ offences[a]["rate"] \in Counts
      /\ offences[a]["outlier"] \in Counts
      /\ Counted(threats[a], sent[a], offences[a]["rate"], offences[a]["outlier"])
  BY DEF DetectionInv, ThreatsOK, CountsOK
<1>2. SlotOK(e) /\ SlotOK(new) /\ e.rate = threats[a].rate
  <2>1. SlotOK(e)
    BY <1>1, EvidenceFits
  <2>2. e.rate = threats[a].rate
    BY <1>1 DEF WithEvidence, SlotOK, Slot
  <2> HIDE DEF e
  <2> QED
    BY <2>1, <2>2, QuarantinedFits
<1>3. LogCounts(e.evidence, "rate", offences[a]["rate"])
  <2>1. LogCounts(e.evidence, "rate", IF "rate" = "remote" THEN OneMore(offences[a]["rate"])
                                      ELSE offences[a]["rate"])
    BY <1>1, EvidenceCounts DEF Counted
  <2> QED
    BY <2>1
<1>4. LogCounts(e.evidence, "outlier", offences[a]["outlier"])
  <2>1. LogCounts(e.evidence, "outlier",
                  IF "outlier" = "remote" THEN OneMore(offences[a]["outlier"])
                  ELSE offences[a]["outlier"])
    BY <1>1, EvidenceCounts DEF Counted
  <2> QED
    BY <2>1
<1>5. new.rate = e.rate /\ new.evidence = e.evidence
  BY <1>2 DEF Quarantined, SlotOK, Slot
<1>6. Checked(a, new) /\ UNCHANGED <<sent, offences>>
  BY DEF Remote
<1> HIDE DEF e, new
<1>7. /\ \A b \in Agents : b # a => threats'[b] = threats[b]
      /\ \/ threats'[a] = threats[a]
         \/ threats'[a].rate = new.rate /\ threats'[a].evidence = new.evidence
  BY <1>2, <1>6, CheckedGives DEF DetectionInv
<1>8. Counted(threats'[a], sent[a], offences[a]["rate"], offences[a]["outlier"])
  BY <1>1, <1>2, <1>3, <1>4, <1>5, <1>7 DEF Counted
<1>9. CountsOK'
  BY <1>6, <1>7, <1>8, QuietFacts
<1>10. \A b \in Agents : offences'[b].rate[0] = offences[b].rate[0]
                         /\ offences[b].rate[0] \in Nat
  BY <1>6, RatesTyped
<1>11. ASSUME NEW b \in Agents, b # a PROVE Just(b)
  BY <1>7, <1>10, <1>11, OthersAreJust
<1>12. Just(a)
  BY <1>10 DEF Just, Backed, Caught
<1> QED
  BY <1>9, <1>11, <1>12

LEMMA LiftIsJust ==
  ASSUME DetectionInv, CountsOK, NEW a \in Agents, Lift(a)
  PROVE  CountsOK' /\ \A b \in Agents : Just(b)
<1>1. UNCHANGED <<sent, offences>>
  BY DEF Lift
<1>2. /\ threats'[a] = [threats[a] EXCEPT !.quarantined = FALSE]
      /\ \A b \in Agents : b # a => threats'[b] = threats[b]
      /\ SlotOK(threats[a])
  BY DEF Lift, DetectionInv, ThreatsOK
<1>3. /\ threats'[a].rate = threats[a].rate /\ threats'[a].evidence = threats[a].evidence
      /\ ~threats'[a].quarantined
  BY <1>2 DEF SlotOK, Slot
<1>4. Counted(threats'[a], sent[a], offences[a]["rate"], offences[a]["outlier"])
  BY <1>3 DEF CountsOK, Counted
<1>5. CountsOK'
  BY <1>1, <1>2, <1>4, QuietFacts
<1>6. \A b \in Agents : offences'[b].rate[0] = offences[b].rate[0]
                        /\ offences[b].rate[0] \in Nat
  BY <1>1, RatesTyped
<1>7. ASSUME NEW b \in Agents PROVE Just(b)
  BY <1>2, <1>3, <1>6, OthersAreJust
<1> QED
  BY <1>5, <1>7

LEMMA TickIsJust ==
  ASSUME DetectionInv, CountsOK, DetectionTick
  PROVE  CountsOK' /\ \A b \in Agents : Just(b)
<1>1. ASSUME NEW b \in Agents
      PROVE  /\ threats'[b].rate = Aging(threats[b].rate)
             /\ threats'[b].evidence = [i \in DOMAIN threats[b].evidence |->
                                          OlderPiece(threats[b].evidence[i])]
             /\ threats'[b].quarantined = threats[b].quarantined
             /\ sent'[b] = AgedCounts(sent[b])
             /\ offences'[b]["rate"] = AgedCounts(offences[b]["rate"])
             /\ offences'[b]["outlier"] = AgedCounts(offences[b]["outlier"])
  <2> DEFINE slot == threats[b]
             entries2 == [i \in DOMAIN slot.rate.entries |-> Older(slot.rate.entries[i])]
             log2 == [i \in DOMAIN slot.evidence |-> OlderPiece(slot.evidence[i])]
  <2>1. slot \in Slot
    BY DEF DetectionInv, ThreatsOK, SlotOK
  <2>2. threats'[b] = [slot EXCEPT !.rate.entries = entries2, !.evidence = log2]
    BY DEF DetectionTick
  <2>3. Aging(slot.rate) = [slot.rate EXCEPT !.entries = entries2]
    BY DEF Aging
  <2> HIDE DEF entries2, log2
  <2>4. /\ threats'[b].rate = [slot.rate EXCEPT !.entries = entries2]
        /\ threats'[b].evidence = log2 /\ threats'[b].quarantined = slot.quarantined
    BY <2>1, <2>2 DEF Slot
  <2>5. /\ sent'[b] = AgedCounts(sent[b])
        /\ offences'[b]["rate"] = AgedCounts(offences[b]["rate"])
        /\ offences'[b]["outlier"] = AgedCounts(offences[b]["outlier"])
    BY DEF DetectionTick
  <2> QED
    BY <2>3, <2>4, <2>5 DEF log2
<1>2. \A b \in Agents :
        /\ sent[b] \in Counts /\ offences[b]["rate"] \in Counts
        /\ offences[b]["outlier"] \in Counts /\ offences[b].rate[0] \in Nat
  BY RatesTyped
<1>3. \A b \in Agents : /\ AgedCounts(sent[b]) \in Counts
                        /\ AgedCounts(offences[b]["rate"]) \in Counts
                        /\ AgedCounts(offences[b]["outlier"]) \in Counts
  BY <1>2, TotalFacts
<1>4. ASSUME NEW b \in Agents
      PROVE  Counted(threats'[b], sent'[b], offences'[b]["rate"], offences'[b]["outlier"])
  <2>1. /\ threats[b].evidence \in Seq(Piece)
        /\ threats[b].rate \in [entries : Seq(Nat), next : 1..RATE_RING_SZ]
    BY DEF DetectionInv, ThreatsOK, SlotOK, Slot
  <2>2. Counted(threats[b], sent[b], offences[b]["rate"], offences[b]["outlier"])
    BY DEF CountsOK
  <2>3. RingCounts(threats'[b].rate, sent'[b])
    BY <1>1, <1>2, <2>1, <2>2, RingAges DEF Counted
  <2>4. LogCounts(threats'[b].evidence, "rate", offences'[b]["rate"])
    BY <1>1, <1>2, <2>1, <2>2, LogAges DEF Counted
  <2>5. LogCounts(threats'[b].evidence, "outlier", offences'[b]["outlier"])
    BY <1>1, <1>2, <2>1, <2>2, LogAges DEF Counted
  <2> QED
    BY <2>3, <2>4, <2>5 DEF Counted
<1>5. /\ sent' \in [Agents -> Counts]
      /\ offences' \in [Agents -> [{"rate", "outlier"} -> Counts]]
  BY <1>3 DEF DetectionTick
<1>6. CountsOK'
  BY <1>4, <1>5 DEF CountsOK
<1>7. ASSUME NEW b \in Agents PROVE Just(b)
  <2>1. offences'[b].rate[0] = 0
    <3>1. 0 \in 0..Old
      BY Ages
    <3> QED
      BY <1>1, <3>1 DEF AgedCounts
  <2>2. Backed(b)
    BY <1>1 DEF Backed, Newly
  <2>3. Caught(b)
    BY <1>2, <2>1 DEF Caught
  <2> QED
    BY <2>2, <2>3 DEF Just
<1> QED
  BY <1>6, <1>7

LEMMA StepIsJust ==
  ASSUME DetectionInv, CountsOK, DetectionNext
  PROVE  CountsOK' /\ \A b \in Agents : Just(b)
<1>1. ASSUME NEW a \in Agents, NEW payload \in Payloads, HeartbeatOfFellow(a, payload)
      PROVE  CountsOK' /\ \A b \in Agents : Just(b)
  BY <1>1, AnnounceIsJust DEF HeartbeatOfFellow
<1> QED
  BY <1>1, AnnounceIsJust, HeartbeatIsJust, ProgramIsJust, ResultIsJust, RemoteIsJust,
     LiftIsJust, TickIsJust DEF DetectionNext

LEMMA CountsStay == DetectionSpec => [](DetectionInv /\ CountsOK)
<1>1. CountsOK /\ UNCHANGED detectionVars => CountsOK'
  BY DEF CountsOK, detectionVars
<1>2. DetectionInv /\ CountsOK /\ [DetectionNext]_detectionVars => CountsOK'
  BY <1>1, StepIsJust
<1> QED
  BY <1>2, CountsStart, DetectionStart, DetectionStep, PTL DEF DetectionSpec

\* Nobody is quarantined by an enforcer's own checks who has not done so often
\* enough what they look for, or come with a forged identity or another's
\* (check_rate(), check_score_outlier(), check_identity()): whatever is overwritten
\* in the rings and logs, they hold nothing that did not happen so lately.
THEOREM QuarantinesStayBacked == DetectionSpec => QuarantinesAreBacked
<1>1. DetectionInv /\ CountsOK /\ [DetectionNext]_detectionVars =>
        [\A a \in Agents : Backed(a)]_detectionVars
  BY StepIsJust DEF Just
<1>2. DetectionSpec => [][\A a \in Agents : Backed(a)]_detectionVars
  BY <1>1, CountsStay, PTL DEF DetectionSpec
<1> QED
  BY <1>2 DEF QuarantinesAreBacked, Backed

\* Who is too fast, and now often enough, is quarantined at once (check_rate()), for
\* any sizes of the rings and logs, until the evidence log is full and overwrites.
THEOREM OffendersGetCaught == DetectionSpec => OffendersAreCaught
<1>1. DetectionInv /\ CountsOK /\ [DetectionNext]_detectionVars =>
        [\A a \in Agents \ Protected : Caught(a)]_detectionVars
  BY StepIsJust DEF Just
<1>2. DetectionSpec => [][\A a \in Agents \ Protected : Caught(a)]_detectionVars
  BY <1>1, CountsStay, PTL DEF DetectionSpec
<1> QED
  BY <1>2 DEF OffendersAreCaught, Caught

-----------------------------------------------------------------------------
(* The oracle: roles/oracle/oracle_agent.c *)

\* What voters may have said of a program.
VoteTables == UNION {[V -> Scored] : V \in SUBSET Voters}

Session == [phash : Programs, votes : VoteTables, outliers : SUBSET Voters,
            judged : SUBSET Voters, mean : Floats, assessed : BOOLEAN,
            first_seen : Nat, last_assessed : Nat]

VotesOK(votes, p) == /\ votes \in VoteTables
                     /\ IsFiniteSet(DOMAIN votes)
                     /\ Cardinality(DOMAIN votes) <= MaxVotes
                     /\ \A v \in DOMAIN votes : votes[v] \in MayScore[v][p]

\* Few of those that voted are outliers, of those of an assessment.
FewOutliers(s) ==
  /\ TwiceZSquared * Cardinality(s.outliers) <= 2 * Cardinality(s.judged)
  /\ s.outliers # {} => TwiceZSquared + 2 <= 2 * Cardinality(s.judged)

\* The mean is none only because of scores it is over.
SessionOK(s, t) ==
  /\ s \in Session
  /\ VotesOK(s.votes, s.phash)
  /\ s.outliers \subseteq s.judged /\ s.judged \subseteq DOMAIN s.votes
  /\ s.first_seen <= t /\ s.last_assessed <= t
  /\ s.assessed <=> Cardinality(DOMAIN s.votes) >= Quorum
  /\ s.assessed => Cardinality(s.judged) >= Quorum
  /\ s.mean = NaN => Clash(s.votes, s.judged)
  /\ FewOutliers(s)

SessionsOK(q, t) ==
  /\ q \in Seq(Session) /\ Len(q) <= MaxSessions
  /\ \A i \in 1..Len(q) : SessionOK(q[i], t)
  /\ \A i, j \in 1..Len(q) : q[i].phash = q[j].phash => i = j

\* Whose trust went without a slot to say so has found the table full, and it
\* stays full.
TrustOK(t, bad) ==
  /\ t \in [DOMAIN t -> Floats] /\ DOMAIN t \subseteq Voters
  /\ IsFiniteSet(DOMAIN t) /\ Cardinality(DOMAIN t) <= MaxStats
  /\ bad \subseteq Voters
  /\ \A v \in DOMAIN t : t[v] = NaN <=> v \in bad
  /\ \A v \in bad \ DOMAIN t : Cardinality(DOMAIN t) = MaxStats

\* Subscribers were told of the assessed sessions, when they were assessed.
PublishedOK(told, q) ==
  /\ \A p : p \in DOMAIN told <=>
        \E i \in 1..Len(q) : q[i].phash = p /\ q[i].assessed
  /\ \A i \in 1..Len(q) :
       q[i].assessed => told[q[i].phash].at = q[i].last_assessed

\* The inductive invariant.  Sessions, trust and what was told each depend on the
\* others' history: a session that is not assessed was never told of, and a voter
\* without a slot cannot get one with the trust of before its taint.
OracleInv == /\ now \in Nat /\ now <= MaxTime
             /\ SessionsOK(sessions, now)
             /\ TrustOK(trust, tainted)
             /\ PublishedOK(published, sessions)

LEMMA OracleNumbers ==
  /\ Quorum \in Nat /\ Quorum > 0 /\ MaxSessions \in Nat /\ MaxSessions > 0
  /\ MaxVotes \in Nat /\ MaxVotes > 0 /\ MaxStats \in Nat /\ MaxStats > 0
  /\ Cooldown \in Nat /\ MaxTime \in Nat
  /\ NaN # Number /\ NaN \notin Int /\ TwiceZSquared \in Nat
BY OracleAssumption DEF Floats

----------------------------------------------------------------------------
(* Votes *)

\* A vote is added, or nothing changes; no vote is changed.
LEMMA VoteIsAdded ==
  ASSUME NEW p \in Programs, NEW votes, VotesOK(votes, p),
         NEW v \in Voters, NEW score \in MayScore[v][p]
  PROVE  /\ VotesOK(AddVote(votes, v, score), p)
         /\ DOMAIN votes \subseteq DOMAIN AddVote(votes, v, score)
         /\ \A w \in DOMAIN votes : AddVote(votes, v, score)[w] = votes[w]
         /\ AddVote(votes, v, score) = votes
              \/ /\ v \notin DOMAIN votes
                 /\ DOMAIN AddVote(votes, v, score) = DOMAIN votes \union {v}
                 /\ Cardinality(DOMAIN AddVote(votes, v, score))
                      = Cardinality(DOMAIN votes) + 1
<1> DEFINE more == AddVote(votes, v, score)
<1>1. CASE v \in DOMAIN votes \/ Cardinality(DOMAIN votes) >= MaxVotes
  BY <1>1 DEF AddVote
<1>2. CASE ~(v \in DOMAIN votes \/ Cardinality(DOMAIN votes) >= MaxVotes)
  <2>1. more = [w \in DOMAIN votes \union {v} |-> IF w = v THEN score ELSE votes[w]]
    BY <1>2 DEF AddVote
  <2>2. PICK V \in SUBSET Voters : votes \in [V -> Scored]
    BY DEF VotesOK, VoteTables
  <2>3. score \in Scored
    BY OracleAssumption DEF Scored
  <2>4. more \in [V \union {v} -> Scored]
    BY <2>1, <2>2, <2>3
  <2>5. more \in VoteTables
    BY <2>4 DEF VoteTables
  <2>6. /\ DOMAIN more = DOMAIN votes \union {v}
        /\ \A w \in DOMAIN votes : more[w] = votes[w]
        /\ more[v] = score
    BY <1>2, <2>1
  <2> HIDE DEF more
  <2>7. /\ IsFiniteSet(DOMAIN more)
        /\ Cardinality(DOMAIN more) = Cardinality(DOMAIN votes) + 1
        /\ Cardinality(DOMAIN votes) \in Nat
    BY <1>2, <2>6, FS_AddElement, FS_CardinalityType DEF VotesOK
  <2>8. Cardinality(DOMAIN more) <= MaxVotes
    BY <1>2, <2>7, OracleNumbers
  <2>9. VotesOK(more, p)
    BY <2>5, <2>6, <2>7, <2>8 DEF VotesOK
  <2> QED
    BY <1>2, <2>6, <2>7, <2>9 DEF more
<1> QED
  BY <1>1, <1>2

\* What a clash is over are the scores alone.
LEMMA ClashStays ==
  ASSUME NEW a, NEW b, NEW V, \A v \in V : a[v] = b[v], Clash(a, V)
  PROVE  Clash(b, V)
BY DEF Clash, Has, High, Low

\* The voters that lose their trust: whose score is not finite, and all if the
\* mean is none.
Harmed(votes, mean) ==
  {v \in DOMAIN votes : mean = NaN \/ votes[v] \notin Int}

\* The mean is none only if scores clash, whatever the weights; and those that
\* are harmed are the ones whose agreement with it is no number.
LEMMA MeanIsTrue ==
  ASSUME NEW votes, votes \in [DOMAIN votes -> Scored],
         NEW outliers \in Outliers(votes),
         NEW mean \in WeightedMeans(votes, outliers)
  PROVE  /\ outliers \subseteq DOMAIN votes
         /\ mean \in Floats
         /\ mean = NaN => Clash(votes, DOMAIN votes)
         /\ \A v \in DOMAIN votes :
              v \in Harmed(votes, mean) <=>
                v \in DOMAIN votes \ outliers /\ mean \in {NaN, votes[v]}
<1>1. outliers \subseteq DOMAIN votes /\ (~AllFinite(votes) => outliers = {})
  BY DEF Outliers
<1>2. PICK V \in SUBSET DOMAIN votes :
        mean \in Sums(votes, V) /\ (outliers = {} => V = DOMAIN votes)
  BY DEF WeightedMeans, RawMeans
<1>3. /\ mean \in Floats
      /\ mean = NaN => Clash(votes, V)
      /\ mean = PlusInf => ~Has(votes, V, NaN) /\ ~Has(votes, V, MinusInf)
      /\ mean = MinusInf => ~Has(votes, V, NaN) /\ ~Has(votes, V, PlusInf)
      /\ mean = Number => /\ ~Has(votes, V, NaN) /\ ~Has(votes, V, PlusInf)
                          /\ ~Has(votes, V, MinusInf)
  BY <1>2, OracleAssumption DEF Sums, Floats
<1>4. Floats \intersect Int = {} /\ \A v \in DOMAIN votes : votes[v] \in Scored
  BY OracleAssumption
<1>5. CASE AllFinite(votes)
  <2>1. \A v \in DOMAIN votes : votes[v] \in Int /\ votes[v] \notin Floats
    BY <1>4, <1>5 DEF AllFinite
  <2>2. ~Clash(votes, V)
    BY <1>2, <2>1 DEF Clash, Has, Floats
  <2>3. mean # NaN /\ \A v \in DOMAIN votes : votes[v] # mean
    BY <1>3, <2>1, <2>2
  <2> QED
    BY <1>1, <1>3, <2>1, <2>3 DEF Harmed
<1>6. CASE ~AllFinite(votes)
  <2>1. outliers = {} /\ V = DOMAIN votes
    BY <1>1, <1>2, <1>6
  <2>2. ASSUME NEW v \in DOMAIN votes, votes[v] \notin Int
        PROVE  mean \in {NaN, votes[v]}
    <3>1. votes[v] \in {NaN, PlusInf, MinusInf} /\ Has(votes, V, votes[v])
      BY <1>4, <2>1, <2>2 DEF Scored, Has
    <3> QED
      BY <1>3, <3>1 DEF Floats
  <2>3. ASSUME NEW v \in DOMAIN votes, mean = votes[v] PROVE votes[v] \notin Int
    BY <1>3, <1>4, <2>3
  <2>4. ASSUME NEW v \in DOMAIN votes
        PROVE  v \in Harmed(votes, mean) <=> mean \in {NaN, votes[v]}
    BY <2>2, <2>3 DEF Harmed
  <2> QED
    BY <1>3, <2>1, <2>4
<1> QED
  BY <1>5, <1>6

----------------------------------------------------------------------------
(* Outliers *)

\* Scores that are all numbers.
Numeric(votes) == /\ IsFiniteSet(DOMAIN votes)
                  /\ votes \in [DOMAIN votes -> Int]

Squares(votes) == [w \in DOMAIN votes |-> Square(Deviation(votes, w))]


\* What the oracle adds up, one element after the other.
LEMMA SumsAddUp ==
  ASSUME NEW votes, Numeric(votes)
  PROVE  /\ \E g : /\ AddsUp(g, DOMAIN votes, votes)
                   /\ g[DOMAIN votes]
                        = MapThenSumSet(LAMBDA w : votes[w], DOMAIN votes)
         /\ Squares(votes) \in [DOMAIN votes -> Int] =>
              \E g : /\ AddsUp(g, DOMAIN votes, Squares(votes))
                     /\ g[DOMAIN votes] = SumOfSquares(votes)
<1> DEFINE D == DOMAIN votes
           SquareOf(s) == Square(Deviation(votes, Pick(s)))
           Adds(g) == g = [s \in SUBSET D |-> IF s = {} THEN 0
                             ELSE SquareOf(s) + g[s \ {Pick(s)}]]
<1>1. ASSUME NEW s \in SUBSET D, s # {}
      PROVE  Squares(votes)[Pick(s)] = SquareOf(s)
  BY <1>1 DEF Squares, Pick
<1>2. \A g : AddsUp(g, D, Squares(votes)) <=> Adds(g)
  BY <1>1 DEF AddsUp
<1>3. MapThenSumSet(LAMBDA w : votes[w], D)
        = (CHOOSE g : AddsUp(g, D, votes))[D]
  BY DEF MapThenSumSet, MapThenFoldSet, AddsUp, Pick
<1>4. SumOfSquares(votes) = (CHOOSE g : Adds(g))[D]
  BY DEF SumOfSquares, MapThenSumSet, MapThenFoldSet, Pick
<1> HIDE DEF Adds
<1>5. \E g : AddsUp(g, D, votes)
  BY SumExists DEF Numeric
<1>6. ASSUME Squares(votes) \in [DOMAIN votes -> Int]
      PROVE  \E g : AddsUp(g, D, Squares(votes)) /\ g[D] = SumOfSquares(votes)
  <2>1. \E g : AddsUp(g, D, Squares(votes))
    BY <1>6, SumExists DEF Numeric
  <2>2. \E g : Adds(g)
    BY <1>2, <2>1
  <2>3. Adds(CHOOSE g : Adds(g))
    BY <2>2
  <2> QED
    BY <1>2, <1>4, <2>3
<1> QED
  BY <1>3, <1>5, <1>6

LEMMA SquareIsNatural ==
  ASSUME NEW x \in Int
  PROVE  Square(x) \in Int /\ Square(x) >= 0
<1>1. x * x \in Int
  OBVIOUS
<1>2. CASE x >= 0
  BY <1>2 DEF Square
<1>3. CASE x < 0
  BY <1>3 DEF Square
<1> QED
  BY <1>1, <1>2, <1>3 DEF Square

LEMMA SquaresTyped ==
  ASSUME NEW votes, Numeric(votes)
  PROVE  /\ Squares(votes) \in [DOMAIN votes -> Int]
         /\ \A v \in DOMAIN votes :
              Squares(votes)[v] >= 0
                /\ Squares(votes)[v] = Square(Deviation(votes, v))
<1> DEFINE total == MapThenSumSet(LAMBDA w : votes[w], DOMAIN votes)
<1>1. total \in Int
  <2>1. PICK g : AddsUp(g, DOMAIN votes, votes) /\ g[DOMAIN votes] = total
    BY SumsAddUp
  <2>2. g \in [SUBSET DOMAIN votes -> Int]
    BY <2>1, AddsUpFacts DEF Numeric, Unfolds
  <2> QED
    BY <2>1, <2>2
<1>2. \A v \in DOMAIN votes :
        Deviation(votes, v) = Cardinality(DOMAIN votes) * votes[v] - total
  BY DEF Deviation
<1> HIDE DEF total
<1>3. Cardinality(DOMAIN votes) \in Nat
  BY FS_CardinalityType DEF Numeric
<1>4. ASSUME NEW v \in DOMAIN votes PROVE Deviation(votes, v) \in Int
  <2>1. votes[v] \in Int
    BY DEF Numeric
  <2> QED
    BY <1>1, <1>2, <1>3, <2>1
<1> QED
  BY <1>4, SquareIsNatural DEF Squares

LEMMA CancelFactor ==
  ASSUME NEW T \in Int, NEW S \in Int, S > 0, NEW c \in Int, NEW m \in Int,
         (T * S) * c <= m * S
  PROVE  T * c <= m
<1> DEFINE d == T * c - m
<1>1. d * S = (T * S) * c - m * S
  OBVIOUS
<1>2. d \in Int /\ T * c \in Int /\ (T * S) * c \in Int /\ m * S \in Int
  OBVIOUS
<1>3. d * S <= 0
  BY <1>1, <1>2
<1>4. d <= 0
  <2> HIDE DEF d
  <2> QED
    BY <1>2, <1>3
<1> QED
  BY <1>2, <1>4

\* T*S <= 2n*x, where n*x <= (n-1)*S.
LEMMA ManyAreNeeded ==
  ASSUME NEW T \in Int, NEW S \in Int, S > 0, NEW n \in Nat, NEW x \in Int,
         T * S <= (2 * n) * x, n * x <= (n - 1) * S
  PROVE  T + 2 <= 2 * n
<1> DEFINE m == 2 * (n - 1)
<1>1. (2 * n) * x = 2 * (n * x) /\ m * S = 2 * ((n - 1) * S)
      /\ n * x \in Int /\ (n - 1) * S \in Int /\ T * S \in Int
  OBVIOUS
<1>2. T * S <= m * S /\ m \in Int
  <2> HIDE DEF m
  <2> QED
    BY <1>1 DEF m
<1>3. (T * S) * 1 <= m * S
  BY <1>1, <1>2
<1>4. T * 1 <= m
  <2> HIDE DEF m
  <2> QED
    BY <1>2, <1>3, CancelFactor
<1> QED
  BY <1>4

\* The deviations add up to nothing, so that none is far out among few.
LEMMA NobodyAmongFew ==
  ASSUME NEW votes, Numeric(votes), NEW o \in DOMAIN votes
  PROVE  Cardinality(DOMAIN votes) * Squares(votes)[o]
           <= (Cardinality(DOMAIN votes) - 1) * SumOfSquares(votes)
<1> DEFINE D == DOMAIN votes
           n == Cardinality(D)
           total == MapThenSumSet(LAMBDA w : votes[w], D)
           d == [w \in D |-> Deviation(votes, w)]
           f == Squares(votes)
           S == SumOfSquares(votes)
<1>1. IsFiniteSet(D) /\ votes \in [D -> Int] /\ n \in Nat
  BY FS_CardinalityType DEF Numeric
<1>2. f \in [D -> Int] /\ \A w \in D : f[w] = Square(Deviation(votes, w))
  BY SquaresTyped
<1>3. PICK g : AddsUp(g, D, votes) /\ g[D] = total
  BY SumsAddUp
<1>4. PICK h : AddsUp(h, D, f) /\ h[D] = S
  BY <1>2, SumsAddUp
<1> HIDE DEF S
<1>5. \A w \in D : d[w] = n * votes[w] - total /\ d[w] = Deviation(votes, w)
  BY DEF Deviation
<1> HIDE DEF f
<1>6. Unfolds(g, D, votes) /\ Unfolds(h, D, f)
  BY <1>1, <1>2, <1>3, <1>4, AddsUpFacts
<1>7. total \in Int
  BY <1>3, <1>6 DEF Unfolds
<1> HIDE DEF total
<1>8. d \in [D -> Int]
  <2>1. d = [w \in D |-> d[w]]
    OBVIOUS
  <2>2. \A w \in D : d[w] \in Int
    BY <1>1, <1>5, <1>7
  <2> QED
    BY <2>1, <2>2
<1> HIDE DEF d
<1>9. SquaresOf(f, D, d)
  BY <1>2, <1>5 DEF Square, SquaresOf
<1> HIDE DEF D, n
<1>10. PICK e : AddsUp(e, D, d)
  BY <1>1, <1>8, SumExists
<1>11. Unfolds(e, D, d)
  BY <1>1, <1>8, <1>10, AddsUpFacts
<1>12. e[D] = 0
  <2>4. n \in Int /\ IsLinear(d, D, n, votes, total)
    BY <1>1, <1>5 DEF IsLinear
  <2>1. e[D] = n * g[D] - Cardinality(D) * total
    BY <1>1, <1>6, <1>7, <1>8, <1>11, <2>4, LinearSum
  <2>2. e[D] = n * total - n * total
    BY <1>3, <2>1 DEF n
  <2>3. n * total \in Int
    BY <1>1, <1>7
  <2> QED
    BY <2>2, <2>3
<1>13. Cardinality(D) * f[o] <= (Cardinality(D) - 1) * h[D]
  <2>1. o \in D
    BY DEF D
  <2> QED
    BY <1>1, <1>6, <1>8, <1>9, <1>11, <1>12, <2>1, FarthestOne
<1> QED
  BY <1>4, <1>13 DEF D, f, S

\* Of n votes, at most 2n/TwiceZSquared are outliers, and none is if n is at most
\* half of TwiceZSquared.
LEMMA OutliersFew ==
  ASSUME NEW votes, IsFiniteSet(DOMAIN votes),
         AllFinite(votes) => votes \in [DOMAIN votes -> Int],
         NEW outliers \in Outliers(votes)
  PROVE  /\ TwiceZSquared * Cardinality(outliers) <= 2 * Cardinality(DOMAIN votes)
         /\ outliers # {} => TwiceZSquared + 2 <= 2 * Cardinality(DOMAIN votes)
<1> DEFINE D == DOMAIN votes
           n == Cardinality(D)
           S == SumOfSquares(votes)
           T == TwiceZSquared
           f == Squares(votes)
<1>1. T \in Nat /\ n \in Nat
  BY FS_CardinalityType, OracleAssumption
<1>2. CASE outliers = {}
  BY <1>1, <1>2, FS_EmptySet
<1>3. CASE outliers # {}
  <2>1. Numeric(votes)
    BY <1>3 DEF Outliers, Numeric
  <2>2. /\ outliers \in SUBSET D
        /\ \A v \in outliers : Above(votes, v) \/ AtThreshold(votes, v)
    BY <1>3 DEF Outliers
  <2>3. f \in [D -> Int] /\ \A v \in D : f[v] >= 0
                           /\ f[v] = Square(Deviation(votes, v))
    BY <2>1, SquaresTyped
  <2>4. PICK g : AddsUp(g, D, f) /\ g[D] = S
    BY <2>1, <2>3, SumsAddUp
  <2>5. ASSUME NEW v \in outliers
        PROVE  \/ (2 * n) * f[v] > T * S
               \/ S # 0 /\ (2 * n) * f[v] = T * S
    BY <2>2, <2>3 DEF Above, AtThreshold
  <2>6. IsFiniteSet(D)
    BY <2>1 DEF Numeric
  <2> HIDE DEF f, D, n, S, T
  <2>14. Unfolds(g, D, f)
    BY <2>3, <2>4, <2>6, AddsUpFacts
  <2>7. S \in Int /\ \A v \in D : f[v] <= S
    <3>1. g \in [SUBSET D -> Int]
      BY <2>14 DEF Unfolds
    <3>2. \A s \in SUBSET D : g[s] >= 0 /\ \A x \in s : f[x] <= g[s]
      BY <2>3, <2>6, <2>14, PartsAreLess
    <3> QED
      BY <2>4, <3>1, <3>2
  <2>8. PICK o \in outliers : TRUE
    BY <1>3
  <2>9. S > 0
    <3>1. f[o] \in Int /\ f[o] >= 0 /\ f[o] <= S
      BY <2>2, <2>3, <2>7
    <3>2. S = 0 => f[o] = 0
      BY <2>7, <3>1
    <3>3. S = 0 => FALSE
      BY <1>1, <2>5, <3>2
    <3> QED
      BY <2>7, <3>1, <3>3
  <2>10. \A v \in outliers : T * S <= (2 * n) * f[v]
    <3> SUFFICES ASSUME NEW v \in outliers PROVE T * S <= (2 * n) * f[v]
      OBVIOUS
    <3>1. f[v] \in Int
      BY <2>2, <2>3
    <3>2. T * S \in Int /\ (2 * n) * f[v] \in Int
      BY <1>1, <2>7, <3>1
    <3> QED
      BY <2>5, <3>2
  <2>11. (T * S) * Cardinality(outliers) <= (2 * n) * S
    <3>1. T * S \in Int /\ 2 * n \in Nat
      BY <1>1, <2>7
    <3> DEFINE K == T * S
               m == 2 * n
    <3>2. K \in Int /\ m \in Nat /\ \A v \in outliers : K <= m * f[v]
      BY <2>10, <3>1
    <3> HIDE DEF K, m
    <3>3. K * Cardinality(outliers) <= m * g[D]
      BY <2>2, <2>3, <2>6, <2>14, <3>2, LargePartsAreFew
    <3> QED
      BY <2>4, <3>3 DEF K, m
  <2>12. Cardinality(outliers) \in Nat
    BY <2>2, <2>6, FS_Subset, FS_CardinalityType
  <2>13. T * Cardinality(outliers) <= 2 * n
    BY <1>1, <2>7, <2>9, <2>11, <2>12, CancelFactor
  <2>15. n * f[o] <= (n - 1) * S
    BY <2>1, <2>2, NobodyAmongFew DEF D, n, S, f
  <2>16. T + 2 <= 2 * n
    <3>1. f[o] \in Int /\ T * S <= (2 * n) * f[o]
      BY <2>2, <2>3, <2>10
    <3> QED
      BY <1>1, <2>7, <2>9, <2>15, <3>1, ManyAreNeeded
  <2> QED
    BY <2>13, <2>16 DEF T, n, D
<1> QED
  BY <1>2, <1>3

----------------------------------------------------------------------------
(* Trust *)

\* All that voted get a slot, or the table is full then.
LEMMA EnrolledFit ==
  ASSUME TrustOK(trust, tainted), NEW votes, IsFiniteSet(DOMAIN votes),
         NEW enrolled \in Enrolled(votes)
  PROVE  /\ enrolled \subseteq DOMAIN votes \ DOMAIN trust
         /\ IsFiniteSet(DOMAIN trust \union enrolled)
         /\ Cardinality(DOMAIN trust \union enrolled) <= MaxStats
         /\ DOMAIN votes \subseteq DOMAIN trust \union enrolled
              \/ Cardinality(DOMAIN trust \union enrolled) = MaxStats
         /\ Cardinality(DOMAIN trust) = MaxStats => enrolled = {}
<1> DEFINE T == DOMAIN trust
           new == DOMAIN votes \ T
           room == MaxStats - Cardinality(T)
           size == IF Cardinality(new) < room THEN Cardinality(new) ELSE room
<1>1. enrolled \in SUBSET new /\ Cardinality(enrolled) = size
  BY DEF Enrolled, kSubset
<1>2. /\ IsFiniteSet(T) /\ Cardinality(T) \in Nat /\ Cardinality(T) <= MaxStats
      /\ IsFiniteSet(new) /\ Cardinality(new) \in Nat
  BY FS_CardinalityType, FS_Subset DEF TrustOK
<1>3. IsFiniteSet(enrolled) /\ (Cardinality(new) = Cardinality(enrolled) => new = enrolled)
  BY <1>1, <1>2, FS_Subset
<1>4. T \intersect enrolled = {}
  BY <1>1
<1>5. Cardinality(T \intersect enrolled) = 0
  BY <1>4, FS_EmptySet
<1>6. /\ IsFiniteSet(T \union enrolled)
      /\ Cardinality(T \union enrolled) = Cardinality(T) + Cardinality(enrolled)
  <2>1. Cardinality(enrolled) \in Nat
    BY <1>3, FS_CardinalityType
  <2> HIDE DEF T
  <2> QED
    BY <1>2, <1>3, <1>5, <2>1, FS_Union
<1>7. CASE Cardinality(new) < room
  <2>1. new = enrolled
    BY <1>1, <1>3, <1>7
  <2>2. Cardinality(T \union enrolled) <= MaxStats
    <3> HIDE DEF T, new
    <3> QED
      BY <1>1, <1>2, <1>6, <1>7, OracleNumbers
  <2>3. Cardinality(T) # MaxStats
    <3> HIDE DEF T, new
    <3> QED
      BY <1>2, <1>7, OracleNumbers
  <2> QED
    BY <1>1, <1>6, <2>1, <2>2, <2>3
<1>8. CASE ~(Cardinality(new) < room)
  <2>1. Cardinality(enrolled) = MaxStats - Cardinality(T)
    BY <1>1, <1>8
  <2>2. Cardinality(T \union enrolled) = MaxStats
    <3> HIDE DEF T
    <3> QED
      BY <1>2, <1>6, <2>1, OracleNumbers
  <2>3. Cardinality(T) = MaxStats => enrolled = {}
    <3>1. Cardinality(T) = MaxStats => Cardinality(enrolled) = 0
      <4> HIDE DEF T
      <4> QED
        BY <1>2, <2>1, OracleNumbers
    <3> QED
      BY <1>3, <3>1, FS_EmptySet
  <2> QED
    BY <1>1, <1>6, <2>2, <2>3, OracleNumbers
<1> QED
  BY <1>7, <1>8

\* What an assessment does to the trust.
LEMMA TrustFollows ==
  ASSUME TrustOK(trust, tainted), NEW p \in Programs,
         NEW votes, VotesOK(votes, p),
         NEW outliers \in Outliers(votes), NEW enrolled \in Enrolled(votes),
         NEW mean \in WeightedMeans(votes, outliers),
         NEW bad, bad = tainted \union Harmed(votes, mean)
  PROVE  TrustOK(Observed(votes, outliers, mean, enrolled), bad)
<1> DEFINE t == Observed(votes, outliers, mean, enrolled)
           D == DOMAIN trust \union enrolled
<1>1. \A v \in DOMAIN votes :
        v \in Harmed(votes, mean) <=>
          v \in DOMAIN votes \ outliers /\ mean \in {NaN, votes[v]}
  BY MeanIsTrue DEF VotesOK, VoteTables
<1>11. Harmed(votes, mean) \subseteq DOMAIN votes
  BY DEF Harmed
<1>2. t = [v \in D |-> IF v \in DOMAIN votes \ outliers /\ mean \in {NaN, votes[v]}
                       THEN NaN ELSE Confidence(v)]
  BY DEF Observed
<1> HIDE DEF t
<1>3. /\ enrolled \subseteq DOMAIN votes \ DOMAIN trust
      /\ IsFiniteSet(D) /\ Cardinality(D) <= MaxStats
      /\ DOMAIN votes \subseteq D \/ Cardinality(D) = MaxStats
      /\ Cardinality(DOMAIN trust) = MaxStats => enrolled = {}
  BY EnrolledFit DEF VotesOK
<1>4. DOMAIN votes \subseteq Voters
  BY DEF VotesOK, VoteTables
<1>5. D \subseteq Voters /\ bad \subseteq Voters
  BY <1>3, <1>4, <1>11 DEF TrustOK
<1>6. \A v \in D : v \in enrolled \ DOMAIN trust => v \notin tainted
  BY <1>3 DEF TrustOK
<1>7. ASSUME NEW v \in D
      PROVE  t[v] \in Floats /\ (t[v] = NaN <=> v \in bad)
  <2>1. Confidence(v) \in Floats /\ (Confidence(v) = NaN <=> v \in tainted)
    <3>1. CASE v \in DOMAIN trust
      BY <3>1 DEF Confidence, TrustOK
    <3>2. CASE v \notin DOMAIN trust
      BY <1>6, <3>2, OracleNumbers DEF Confidence, Floats
    <3> QED
      BY <3>1, <3>2
  <2>2. t[v] = IF v \in Harmed(votes, mean) THEN NaN ELSE Confidence(v)
    BY <1>1, <1>2, <1>11
  <2> QED
    BY <2>1, <2>2 DEF Floats
<1>8. DOMAIN t = D /\ t \in [D -> Floats]
  BY <1>2, <1>7
<1>9. \A v \in bad \ D : Cardinality(D) = MaxStats
  <2> SUFFICES ASSUME NEW v \in bad \ D PROVE Cardinality(D) = MaxStats
    OBVIOUS
  <2>1. CASE v \in tainted
    <3>1. Cardinality(DOMAIN trust) = MaxStats
      BY <2>1 DEF TrustOK
    <3> QED
      BY <1>3, <3>1
  <2>2. CASE v \notin tainted
    <3>1. v \in DOMAIN votes
      BY <1>11, <2>2
    <3> QED
      BY <1>3, <3>1
  <2> QED
    BY <2>1, <2>2
<1> HIDE DEF D
<1>10. TrustOK(t, bad)
  BY <1>3, <1>5, <1>7, <1>8, <1>9 DEF TrustOK
<1> QED
  BY <1>10 DEF t

----------------------------------------------------------------------------
(* Sessions *)

\* A session begins without votes.
LEMMA NewSessionOK ==
  ASSUME NEW p \in Programs, now \in Nat
  PROVE  /\ SessionOK(NewSession(p), now) /\ NewSession(p).phash = p
         /\ NewSession(p).votes = <<>> /\ ~NewSession(p).assessed
<1> DEFINE s == NewSession(p)
<1>1. /\ s.phash = p /\ s.votes = <<>> /\ s.outliers = {} /\ s.judged = {}
      /\ s.mean = Number /\ s.assessed = FALSE /\ s.first_seen = now
      /\ s.last_assessed = 0
  BY DEF NewSession
<1>2. DOMAIN <<>> = {}
  OBVIOUS
<1>3. <<>> \in VoteTables
  <2>1. <<>> \in [{} -> Scored]
    BY <1>2
  <2> QED
    BY <2>1 DEF VoteTables
<1>4. s \in Session
  BY <1>3 DEF NewSession, Session, Floats
<1>5. VotesOK(<<>>, p)
  BY <1>2, <1>3, FS_EmptySet, OracleNumbers DEF VotesOK
<1> HIDE DEF s
<1>6. Cardinality({}) = 0
  BY FS_EmptySet
<1>7. ~(Cardinality(DOMAIN s.votes) >= Quorum)
  BY <1>1, <1>2, <1>6, OracleNumbers
<1>8. s.first_seen <= now /\ s.last_assessed <= now
  BY <1>1
<1>9. FewOutliers(s)
  BY <1>1, <1>6, OracleAssumption DEF FewOutliers
<1> QED
  BY <1>1, <1>2, <1>4, <1>5, <1>7, <1>8, <1>9, OracleNumbers DEF SessionOK, s

\* There is an oldest session, and its place goes to the last one.
LEMMA EvictedFacts ==
  ASSUME now \in Nat, SessionsOK(sessions, now), Len(sessions) >= MaxSessions
  PROVE  /\ SessionsOK(Evicted, now) /\ Len(Evicted) = Len(sessions) - 1
         /\ \A j \in 1..Len(Evicted) : \E i \in 1..Len(sessions) :
              Evicted[j] = sessions[i]
         /\ \E o \in 1..Len(sessions) :
              /\ \A k \in 1..Len(sessions) :
                   sessions[o].first_seen <= sessions[k].first_seen
              /\ \A i \in 1..Len(sessions) : i # o =>
                   \E j \in 1..Len(Evicted) : Evicted[j] = sessions[i]
<1> DEFINE n == Len(sessions)
           o == CHOOSE i \in DOMAIN sessions : IsOldest(i)
           moved == [sessions EXCEPT ![o] = sessions[n]]
           From(j) == IF j = o THEN n ELSE j
<1>1. /\ sessions \in Seq(Session) /\ n \in Nat /\ n > 0 /\ n <= MaxSessions
      /\ DOMAIN sessions = 1..n
      /\ \A i \in 1..n : sessions[i] \in Session
  BY OracleNumbers DEF SessionsOK
<1>2. \A i \in 1..n : sessions[i].first_seen \in Nat
  BY <1>1 DEF Session
<1>3. \E i \in 1..n : IsOldest(i)
  <2> DEFINE FirstSeen == {sessions[i].first_seen : i \in 1..n}
  <2>1. PICK first \in FirstSeen : \A t \in FirstSeen : first <= t
    <3>1. FirstSeen \in SUBSET Nat /\ FirstSeen # {}
      BY <1>1, <1>2
    <3> HIDE DEF FirstSeen
    <3> QED
      BY <3>1, LeastIndex
  <2> DEFINE Oldest == {i \in 1..n : sessions[i].first_seen = first}
  <2>2. Oldest \in SUBSET Nat /\ Oldest # {}
    OBVIOUS
  <2>3. PICK i \in Oldest : \A j \in Oldest : i <= j
    BY <2>2, LeastIndex
  <2>4. \A j \in 1..n : sessions[i].first_seen <= sessions[j].first_seen
    BY <2>1, <2>3
  <2>5. \A j \in 1..(i - 1) : sessions[i].first_seen < sessions[j].first_seen
    <3> SUFFICES ASSUME NEW j \in 1..(i - 1)
                 PROVE  sessions[i].first_seen < sessions[j].first_seen
      OBVIOUS
    <3>1. i \in 1..n /\ j \in 1..n /\ j < i
      BY <1>1, <2>3
    <3>2. j \notin Oldest
      BY <2>3, <3>1
    <3>3. sessions[j].first_seen # first /\ sessions[i].first_seen = first
      BY <2>3, <3>1, <3>2
    <3> HIDE DEF n
    <3> QED
      BY <1>2, <2>4, <3>1, <3>3
  <2> QED
    BY <1>1, <2>3, <2>4, <2>5 DEF IsOldest
<1>4. o \in 1..n /\ IsOldest(o)
  BY <1>1, <1>3
<1> HIDE DEF o
<1>5. moved \in Seq(Session) /\ Len(moved) = n
  BY <1>1, <1>4
<1>6. \A i \in 1..n : moved[i] = IF i = o THEN sessions[n] ELSE sessions[i]
  BY <1>1, <1>4
<1>7. Evicted = SubSeq(moved, 1, n - 1)
  BY <1>5 DEF Evicted, Front, Last, o
<1> HIDE DEF moved
<1>8. Evicted \in Seq(Session) /\ Len(Evicted) = n - 1
  BY <1>1, <1>5, <1>7
<1>9. \A j \in 1..(n - 1) : Evicted[j] = sessions[From(j)] /\ From(j) \in 1..n
  <2> SUFFICES ASSUME NEW j \in 1..(n - 1)
               PROVE  Evicted[j] = sessions[From(j)] /\ From(j) \in 1..n
    OBVIOUS
  <2>1. j \in 1..n /\ n \in 1..n
    BY <1>1
  <2>2. Evicted[j] = moved[j]
    BY <1>1, <1>5, <1>7, <2>1
  <2> QED
    BY <1>6, <2>1, <2>2
<1>10. \A j, k \in 1..(n - 1) : From(j) = From(k) => j = k
  BY <1>1
<1> HIDE DEF From
<1>11. SessionsOK(Evicted, now)
  <2>1. \A i \in 1..(n - 1) : SessionOK(Evicted[i], now)
    BY <1>9 DEF SessionsOK
  <2>2. \A i, j \in 1..(n - 1) : Evicted[i].phash = Evicted[j].phash => i = j
    <3>1. \A i, j \in 1..n : sessions[i].phash = sessions[j].phash => i = j
      BY DEF SessionsOK
    <3> HIDE DEF n
    <3> QED
      BY <1>9, <1>10, <3>1
  <2>3. n - 1 <= MaxSessions
    BY <1>1, OracleNumbers
  <2> QED
    BY <1>8, <2>1, <2>2, <2>3 DEF SessionsOK
<1>12. \A i \in 1..n : i # o => \E j \in 1..(n - 1) : Evicted[j] = sessions[i]
  <2> SUFFICES ASSUME NEW i \in 1..n, i # o
               PROVE  \E j \in 1..(n - 1) : Evicted[j] = sessions[i]
    OBVIOUS
  <2>1. CASE i = n
    <3>1. o \in 1..(n - 1)
      <4> HIDE DEF n
      <4> QED
        BY <1>1, <1>4, <2>1
    <3>2. From(o) = i
      BY <2>1 DEF From
    <3> QED
      BY <1>9, <3>1, <3>2
  <2>2. CASE i # n
    <3>1. i \in 1..(n - 1)
      <4> HIDE DEF n
      <4> QED
        BY <1>1, <2>2
    <3>2. From(i) = i
      BY DEF From
    <3> QED
      BY <1>9, <3>1, <3>2
  <2> QED
    BY <2>1, <2>2
<1>13. \A k \in 1..n : sessions[o].first_seen <= sessions[k].first_seen
  BY <1>1, <1>4 DEF IsOldest
<1> QED
  BY <1>4, <1>8, <1>9, <1>11, <1>12, <1>13

\* The sessions that a vote for p is added to: those that there were, but for
\* one that no other is older than when p needs its place, and p's.
LEMMA FoundFacts ==
  ASSUME now \in Nat, SessionsOK(sessions, now), NEW p \in Programs
  PROVE  LET found == WithSession(p)
         IN  /\ SessionsOK(found, now)
             /\ \E j \in 1..Len(found) : found[j].phash = p
             /\ \A j \in 1..Len(found) :
                  \/ \E i \in 1..Len(sessions) : found[j] = sessions[i]
                  \/ /\ found[j] = NewSession(p)
                     /\ \A i \in 1..Len(sessions) : sessions[i].phash # p
             /\ \A i \in 1..Len(sessions) :
                  \/ \E j \in 1..Len(found) : found[j] = sessions[i]
                  \/ /\ Len(sessions) = MaxSessions
                     /\ \A k \in 1..Len(sessions) :
                          sessions[i].first_seen <= sessions[k].first_seen
<1> DEFINE found == WithSession(p)
           n == Len(sessions)
<1>1. sessions \in Seq(Session) /\ n \in Nat /\ n <= MaxSessions
      /\ DOMAIN sessions = 1..n
  BY DEF SessionsOK
<1>2. CASE Indices(p) # {}
  <2>1. found = sessions
    BY <1>2 DEF WithSession
  <2>2. \E j \in 1..n : sessions[j].phash = p
    BY <1>1, <1>2 DEF Indices
  <2> QED
    BY <2>1, <2>2
<1>3. CASE Indices(p) = {}
  <2> DEFINE room == WithRoom
             new == NewSession(p)
             m == Len(room)
  <2>1. \A i \in 1..n : sessions[i].phash # p
    BY <1>1, <1>3 DEF Indices
  <2>2. /\ SessionsOK(room, now) /\ m < MaxSessions
        /\ \A j \in 1..m : \E i \in 1..n : room[j] = sessions[i]
        /\ \A i \in 1..n :
             \/ \E j \in 1..m : room[j] = sessions[i]
             \/ /\ n = MaxSessions
                /\ \A k \in 1..n : sessions[i].first_seen <= sessions[k].first_seen
    <3>1. CASE n >= MaxSessions
      <4>1. room = Evicted
        BY <3>1 DEF WithRoom
      <4>2. n = MaxSessions
        <5> HIDE DEF n
        <5> QED
          BY <1>1, <3>1, OracleNumbers
      <4>3. /\ SessionsOK(room, now) /\ m = n - 1
            /\ \A j \in 1..m : \E i \in 1..n : room[j] = sessions[i]
        <5>1. /\ SessionsOK(Evicted, now) /\ Len(Evicted) = n - 1
              /\ \A j \in 1..Len(Evicted) : \E i \in 1..n : Evicted[j] = sessions[i]
          BY <3>1, EvictedFacts, Zenon
        <5> QED
          BY <4>1, <5>1
      <4>4. PICK o \in 1..n :
              /\ \A k \in 1..n : sessions[o].first_seen <= sessions[k].first_seen
              /\ \A i \in 1..n : i # o => \E j \in 1..m : room[j] = sessions[i]
        BY <3>1, <4>1, EvictedFacts
      <4>5. m < MaxSessions
        BY <4>2, <4>3, OracleNumbers
      <4> HIDE DEF room, m, n
      <4> QED
        BY <4>2, <4>3, <4>4, <4>5
    <3>2. CASE ~(n >= MaxSessions)
      <4>1. room = sessions
        BY <3>2 DEF WithRoom
      <4>2. n < MaxSessions
        BY <1>1, <3>2, OracleNumbers
      <4> QED
        BY <4>1, <4>2
    <3> QED
      BY <3>1, <3>2
  <2>3. found = Append(room, new)
    BY <1>3 DEF WithSession
  <2> HIDE DEF room, new
  <2>4. SessionOK(new, now) /\ new \in Session /\ new.phash = p
    BY NewSessionOK DEF new, SessionOK
  <2>5. room \in Seq(Session) /\ m \in Nat
    BY <2>2 DEF SessionsOK
  <2>6. /\ found \in Seq(Session) /\ Len(found) = m + 1
        /\ \A j \in 1..m : found[j] = room[j]
        /\ found[m + 1] = new
    BY <2>3, <2>4, <2>5
  <2> HIDE DEF found
  <2>7. m + 1 <= MaxSessions /\ m + 1 \in 1..(m + 1)
    BY <2>2, <2>5, OracleNumbers
  <2>8. \A j \in 1..(m + 1) : j \in 1..m \/ j = m + 1
    BY <2>5
  <2>9. \A j \in 1..m : j \in 1..(m + 1) /\ room[j].phash # p
    <3>1. \A j \in 1..m : room[j].phash # p
      BY <2>1, <2>2, Zenon
    <3> HIDE DEF m
    <3> QED
      BY <2>5, <3>1
  <2>10. SessionsOK(found, now)
    <3>1. \A j \in 1..(m + 1) : SessionOK(found[j], now)
      BY <2>2, <2>4, <2>6, <2>8 DEF SessionsOK
    <3>2. \A j, k \in 1..(m + 1) : found[j].phash = found[k].phash => j = k
      BY <2>2, <2>4, <2>6, <2>8, <2>9 DEF SessionsOK
    <3> QED
      BY <2>6, <2>7, <3>1, <3>2 DEF SessionsOK
  <2>11. \A j \in 1..Len(found) :
           \/ \E i \in 1..n : found[j] = sessions[i]
           \/ found[j] = NewSession(p)
    BY <2>2, <2>6, <2>8 DEF new
  <2>12. \A i \in 1..n :
           \/ \E j \in 1..Len(found) : found[j] = sessions[i]
           \/ /\ n = MaxSessions
              /\ \A k \in 1..n : sessions[i].first_seen <= sessions[k].first_seen
    <3> SUFFICES ASSUME NEW i \in 1..n, NEW j \in 1..m, room[j] = sessions[i]
                 PROVE  \E k \in 1..Len(found) : found[k] = sessions[i]
      BY <2>2
    <3> QED
      BY <2>6, <2>9
  <2> QED
    BY <2>1, <2>4, <2>6, <2>7, <2>10, <2>11, <2>12 DEF found
<1> QED
  BY <1>2, <1>3

----------------------------------------------------------------------------
(* A vote *)

\* A table with another i-th entry.
With(q, i, x) == [q EXCEPT ![i] = x]

\* Replacing a program's session by another of the same program.
LEMMA Replaced ==
  ASSUME NEW q, NEW t, SessionsOK(q, t), NEW i \in 1..Len(q),
         NEW x, SessionOK(x, t), x.phash = q[i].phash
  PROVE  SessionsOK(With(q, i, x), t)
<1> DEFINE r == With(q, i, x)
<1>1. q \in Seq(Session) /\ x \in Session
  BY DEF SessionsOK, SessionOK
<1>2. r \in Seq(Session) /\ Len(r) = Len(q) /\ r[i] = x
      /\ \A j \in 1..Len(q) : j # i => r[j] = q[j]
  BY <1>1 DEF With
<1> HIDE DEF r
<1>3. \A j \in 1..Len(q) : r[j].phash = q[j].phash /\ SessionOK(r[j], t)
  BY <1>2 DEF SessionsOK
<1> QED
  BY <1>2, <1>3 DEF SessionsOK, r

\* s is f with v's vote.
IsVoted(s, f, v, score) == s = [f EXCEPT !.votes = AddVote(f.votes, v, score)]

\* What a session is once it is assessed.
Settled(s, outliers, mean) ==
  [s EXCEPT !.outliers = outliers, !.judged = DOMAIN s.votes, !.mean = mean,
            !.assessed = TRUE, !.last_assessed = now]

\* A session with one more vote is in order, unless it is to be assessed now.
LEMMA VotedSession ==
  ASSUME now \in Nat, NEW f, SessionOK(f, now),
         NEW v \in Voters, NEW score \in MayScore[v][f.phash],
         NEW s, IsVoted(s, f, v, score)
  PROVE  /\ s \in Session /\ VotesOK(s.votes, s.phash)
         /\ s.first_seen <= now
         /\ DOMAIN f.votes \subseteq DOMAIN s.votes
         /\ \A w \in DOMAIN f.votes : s.votes[w] = f.votes[w]
         /\ ~IsDue(s) => SessionOK(s, now)
<1> DEFINE votes == AddVote(f.votes, v, score)
<1>1. f \in Session /\ f.phash \in Programs /\ VotesOK(f.votes, f.phash)
  BY DEF SessionOK, Session
<1>2. /\ VotesOK(votes, f.phash) /\ DOMAIN f.votes \subseteq DOMAIN votes
      /\ \A w \in DOMAIN f.votes : votes[w] = f.votes[w]
      /\ \/ votes = f.votes
         \/ /\ v \notin DOMAIN f.votes
            /\ DOMAIN votes = DOMAIN f.votes \union {v}
            /\ Cardinality(DOMAIN votes) = Cardinality(DOMAIN f.votes) + 1
  <2> DEFINE p == f.phash
             old == f.votes
  <2>1. p \in Programs /\ VotesOK(old, p) /\ score \in MayScore[v][p]
    BY <1>1
  <2> HIDE DEF p, old
  <2>2. /\ VotesOK(AddVote(old, v, score), p)
        /\ DOMAIN old \subseteq DOMAIN AddVote(old, v, score)
        /\ \A w \in DOMAIN old : AddVote(old, v, score)[w] = old[w]
        /\ \/ AddVote(old, v, score) = old
           \/ /\ v \notin DOMAIN old
              /\ DOMAIN AddVote(old, v, score) = DOMAIN old \union {v}
              /\ Cardinality(DOMAIN AddVote(old, v, score))
                   = Cardinality(DOMAIN old) + 1
    BY <2>1, VoteIsAdded
  <2> QED
    BY <2>2 DEF p, old
<1> HIDE DEF votes
<1>3. s = [f EXCEPT !.votes = votes]
  BY DEF votes, IsVoted
<1>4. /\ s.phash = f.phash /\ s.votes = votes /\ s.outliers = f.outliers
      /\ s.judged = f.judged /\ s.mean = f.mean /\ s.assessed = f.assessed
      /\ s.first_seen = f.first_seen /\ s.last_assessed = f.last_assessed
  BY <1>1, <1>3 DEF Session
<1>5. s \in Session
  BY <1>1, <1>2, <1>3 DEF Session, VotesOK
<1>6. ASSUME ~IsDue(s) PROVE SessionOK(s, now)
  <2>1. Cardinality(DOMAIN f.votes) \in Nat
    BY <1>1, FS_CardinalityType DEF VotesOK
  <2>2. Cardinality(DOMAIN votes) >= Cardinality(DOMAIN f.votes)
        /\ Cardinality(DOMAIN votes) \in Nat
    BY <1>2, <2>1
  <2>3. s.assessed <=> Cardinality(DOMAIN votes) >= Quorum
    BY <1>4, <1>6, <2>1, <2>2, OracleNumbers DEF IsDue, SessionOK
  <2>4. s.mean = NaN => Clash(s.votes, s.judged)
    <3>1. \A w \in f.judged : f.votes[w] = s.votes[w]
      BY <1>2, <1>4 DEF SessionOK
    <3>2. f.mean = NaN => Clash(f.votes, f.judged)
      BY DEF SessionOK
    <3> QED
      BY <1>4, <3>1, <3>2, ClashStays
  <2>5. FewOutliers(s)
    BY <1>4 DEF SessionOK, FewOutliers
  <2> QED
    BY <1>2, <1>4, <1>5, <2>3, <2>4, <2>5 DEF SessionOK
<1> QED
  BY <1>2, <1>4, <1>5, <1>6 DEF SessionOK

\* And so it is once it has been assessed.
LEMMA AssessedSession ==
  ASSUME now \in Nat, NEW s \in Session, VotesOK(s.votes, s.phash),
         s.first_seen <= now, IsDue(s), NEW outliers \in Outliers(s.votes),
         NEW mean \in WeightedMeans(s.votes, outliers)
  PROVE  SessionOK(Settled(s, outliers, mean), now)
<1> DEFINE votes == s.votes
           x == Settled(s, outliers, mean)
<1>1. /\ outliers \subseteq DOMAIN s.votes /\ mean \in Floats
      /\ mean = NaN => Clash(s.votes, DOMAIN s.votes)
  BY MeanIsTrue DEF VotesOK, VoteTables
<1>2. x = [s EXCEPT !.outliers = outliers, !.judged = DOMAIN s.votes,
                    !.mean = mean, !.assessed = TRUE, !.last_assessed = now]
  BY DEF Settled
<1> HIDE DEF x
<1>3. /\ x.phash = s.phash /\ x.votes = s.votes /\ x.outliers = outliers
      /\ x.judged = DOMAIN s.votes /\ x.mean = mean /\ x.assessed = TRUE
      /\ x.first_seen = s.first_seen /\ x.last_assessed = now
  BY <1>2 DEF Session
<1>4. DOMAIN s.votes \subseteq Voters
  BY DEF VotesOK, VoteTables
<1>5. x \in Session
  BY <1>1, <1>2, <1>4 DEF Session
<1>6. x.mean = NaN => Clash(x.votes, x.judged)
  BY <1>1, <1>3
<1>7. FewOutliers(x)
  <2>1. votes \in [DOMAIN votes -> Scored] /\ IsFiniteSet(DOMAIN votes)
    BY DEF VotesOK, VoteTables
  <2>2. AllFinite(votes) => votes \in [DOMAIN votes -> Int]
    BY <2>1 DEF AllFinite
  <2>3. /\ TwiceZSquared * Cardinality(outliers) <= 2 * Cardinality(DOMAIN votes)
        /\ outliers # {} => TwiceZSquared + 2 <= 2 * Cardinality(DOMAIN votes)
    BY <2>1, <2>2, OutliersFew
  <2> QED
    BY <1>3, <2>3 DEF FewOutliers
<1> QED
  BY <1>1, <1>3, <1>5, <1>6, <1>7 DEF SessionOK, IsDue, x

\* What a result does: p's session, at i, takes the vote and becomes s, and
\* is assessed when that is due.
Waits(i, s, p) ==
  /\ ~IsDue(s)
  /\ sessions' = With(WithSession(p), i, s)
  /\ published' = Kept(With(WithSession(p), i, s))
  /\ UNCHANGED <<trust, tainted>>

IsAssessed(i, s, p) ==
  /\ IsDue(s)
  /\ \E outliers \in Outliers(s.votes), enrolled \in Enrolled(s.votes) :
       \E mean \in WeightedMeans(s.votes, outliers) :
         /\ sessions' = With(WithSession(p), i, Settled(s, outliers, mean))
         /\ trust' = Observed(s.votes, outliers, mean, enrolled)
         /\ published' = Told(With(WithSession(p), i, s), p, mean)
         /\ tainted' = tainted \union Harmed(s.votes, mean)

HasVoted(i, s, v, p, score) ==
  /\ i \in 1..Len(WithSession(p)) /\ WithSession(p)[i].phash = p
  /\ s \in Session /\ IsVoted(s, WithSession(p)[i], v, score)

\* handle_result() is one of the two.
LEMMA ResultTaken ==
  ASSUME OracleInv, NEW v \in Voters, NEW p \in Programs,
         NEW score \in MayScore[v][p], HandleResult(v, p, score)
  PROVE  /\ now' = now
         /\ \E i \in 1..Len(WithSession(p)), s \in Session :
              /\ HasVoted(i, s, v, p, score)
              /\ Waits(i, s, p) \/ IsAssessed(i, s, p)
<1> DEFINE found == WithSession(p)
           i == CHOOSE j \in DOMAIN found : found[j].phash = p
           s == [found[i] EXCEPT !.votes = AddVote(found[i].votes, v, score)]
           table == [found EXCEPT ![i].votes = AddVote(@, v, score)]
<1>1. SessionsOK(found, now) /\ \E j \in 1..Len(found) : found[j].phash = p
  BY FoundFacts DEF OracleInv
<1>2. found \in Seq(Session) /\ DOMAIN found = 1..Len(found) /\ Len(found) \in Nat
  BY <1>1 DEF SessionsOK
<1>3. i \in 1..Len(found) /\ found[i].phash = p
  BY <1>1, <1>2
<1>4. SessionOK(found[i], now)
  BY <1>1, <1>3 DEF SessionsOK
<1>5. now' = now
  BY DEF HandleResult
<1>6. /\ IF IsDue(table[i])
         THEN \E outliers \in Outliers(table[i].votes),
                 enrolled \in Enrolled(table[i].votes) :
                \E mean \in WeightedMeans(table[i].votes, outliers) :
                  Assess(table, i, outliers, mean, enrolled)
         ELSE /\ sessions' = table
              /\ published' = Kept(table)
              /\ UNCHANGED <<trust, tainted>>
  BY DEF HandleResult
<1> HIDE DEF i, found
<1>7. IsVoted(s, found[i], v, score)
  BY DEF IsVoted
<1>8. s.phash = p
  BY <1>3, <1>4 DEF SessionOK, Session
<1> HIDE DEF s
<1>13. s \in Session
  <2> DEFINE f == found[i]
  <2>1. SessionOK(f, now) /\ score \in MayScore[v][f.phash] /\ now \in Nat
        /\ IsVoted(s, f, v, score)
    BY <1>3, <1>4, <1>7 DEF OracleInv
  <2> HIDE DEF f
  <2> QED
    BY <2>1, VotedSession
<1>14. HasVoted(i, s, v, p, score)
  BY <1>3, <1>7, <1>13 DEF HasVoted, found
<1> USE DEF s
<1>9. table = [found EXCEPT ![i] = s]
  BY <1>2, <1>3
<1>10. table[i] = s
  BY <1>2, <1>3, <1>9
<1> HIDE DEF table, s
<1>11. CASE ~IsDue(s)
  <2>1. Waits(i, s, p)
    BY <1>6, <1>9, <1>10, <1>11 DEF Waits, found, With
  <2> QED
    BY <1>3, <1>5, <1>13, <1>14, <2>1 DEF found
<1>12. CASE IsDue(s)
  <2>1. PICK outliers \in Outliers(s.votes), enrolled \in Enrolled(s.votes) :
          \E mean \in WeightedMeans(s.votes, outliers) :
            Assess(table, i, outliers, mean, enrolled)
    BY <1>6, <1>10, <1>12
  <2>6. PICK mean \in WeightedMeans(s.votes, outliers) :
          Assess(table, i, outliers, mean, enrolled)
    BY <2>1
  <2>2. /\ sessions' = [table EXCEPT ![i].outliers = outliers,
                                     ![i].judged = DOMAIN s.votes,
                                     ![i].mean = mean,
                                     ![i].assessed = TRUE,
                                     ![i].last_assessed = now]
        /\ trust' = Observed(s.votes, outliers, mean, enrolled)
        /\ published' = Told(table, p, mean)
        /\ tainted' = tainted \union Harmed(s.votes, mean)
    BY <1>8, <1>10, <2>6 DEF Assess, Harmed
  <2>3. sessions' = [table EXCEPT ![i] =
          [s EXCEPT !.outliers = outliers, !.judged = DOMAIN s.votes,
                    !.mean = mean, !.assessed = TRUE, !.last_assessed = now]]
    BY <1>2, <1>3, <1>9, <1>10, <2>2
  <2>4. sessions' = [found EXCEPT ![i] = Settled(s, outliers, mean)]
    BY <1>2, <1>3, <1>9, <2>3 DEF Settled
  <2>5. IsAssessed(i, s, p)
    BY <1>9, <1>12, <2>2, <2>4 DEF IsAssessed, found, With
  <2> QED
    BY <1>3, <1>5, <1>13, <1>14, <2>5 DEF found
<1> QED
  BY <1>11, <1>12

\* A session per program.
IsDistinct(q) ==
  \A j, k \in 1..Len(q) : q[j].phash = q[k].phash => j = k

\* Whom subscribers have heard of when a session is assessed.
LEMMA ToldDomain ==
  ASSUME NEW table \in Seq(Session), NEW n, n = Len(table),
         NEW p \in Programs, NEW mean
  PROVE  \A q : q \in DOMAIN Told(table, p, mean) <=>
           \E j \in 1..n : /\ table[j].phash = q
                           /\ table[j].assessed \/ table[j].phash = p
<1>1. Range(table) = {table[j] : j \in 1..n}
  BY DEF Range
<1> QED
  BY <1>1 DEF Told

\* The session that is assessed is told of as it is, the others are left alone.
LEMMA ToldFacts ==
  ASSUME NEW table \in Seq(Session), NEW n \in Nat, n = Len(table),
         IsDistinct(table), NEW i \in 1..n, NEW p \in Programs,
         table[i].phash = p, NEW mean \in Floats
  PROVE  /\ Told(table, p, mean)[p].at = now
         /\ Told(table, p, mean)[p].voters = DOMAIN table[i].votes
         /\ \A q \in DOMAIN Told(table, p, mean) :
              q # p => Told(table, p, mean)[q] = published[q]
<1> DEFINE told == Told(table, p, mean)
           D == {s.phash : s \in {t \in Range(table) : t.assessed \/ t.phash = p}}
<1>1. Range(table) = {table[j] : j \in 1..n}
  BY DEF Range
<1>2. {t \in Range(table) : t.phash = p} = {table[i]}
  BY <1>1 DEF IsDistinct
<1>3. UNION {DOMAIN s.votes : s \in {t \in Range(table) : t.phash = p}}
        = DOMAIN table[i].votes
  BY <1>2
<1>4. p \in D
  BY <1>1
<1>5. told = [q \in D |-> IF q = p
                THEN [at |-> now, mean |-> mean, voters |-> DOMAIN table[i].votes]
                ELSE published[q]]
  BY <1>3 DEF Told
<1> HIDE DEF told, D
<1>6. told[p].at = now /\ told[p].voters = DOMAIN table[i].votes
  BY <1>4, <1>5
<1>7. \A q \in DOMAIN told : q # p => told[q] = published[q]
  BY <1>5
<1> QED
  BY <1>6, <1>7 DEF told

\* Without an assessment nothing is told.
LEMMA KeptFacts ==
  ASSUME NEW table \in Seq(Session), NEW n, n = Len(table)
  PROVE  /\ \A q : q \in DOMAIN Kept(table) <=>
                \E j \in 1..n : table[j].phash = q /\ table[j].assessed
         /\ \A q \in DOMAIN Kept(table) : Kept(table)[q] = published[q]
<1>1. Range(table) = {table[j] : j \in 1..n}
  BY DEF Range
<1> QED
  BY <1>1 DEF Kept

\* The session that took the vote, and the others, which are as they were.
LEMMA TakenFacts ==
  ASSUME OracleInv, NEW v \in Voters, NEW p \in Programs,
         NEW score \in MayScore[v][p],
         NEW i \in 1..Len(WithSession(p)), NEW s \in Session,
         HasVoted(i, s, v, p, score)
  PROVE  LET found == WithSession(p)
             f == found[i]
         IN  /\ found \in Seq(Session) /\ DOMAIN found = 1..Len(found)
             /\ Len(found) \in Nat
             /\ SessionsOK(found, now) /\ SessionOK(f, now) /\ f.phash = p
             /\ s.phash = p /\ s.assessed = f.assessed
             /\ s.first_seen = f.first_seen /\ s.first_seen <= now
             /\ s.last_assessed = f.last_assessed
             /\ DOMAIN f.votes \subseteq DOMAIN s.votes
             /\ \A w \in DOMAIN f.votes : s.votes[w] = f.votes[w]
             /\ VotesOK(s.votes, p)
             /\ ~IsDue(s) => SessionOK(s, now)
             /\ \A outliers \in Outliers(s.votes) :
                  \A mean \in WeightedMeans(s.votes, outliers) :
                    IsDue(s) => SessionOK(Settled(s, outliers, mean), now)
<1> DEFINE found == WithSession(p)
<1>1. SessionsOK(found, now)
  BY FoundFacts DEF OracleInv
<1>2. found \in Seq(Session) /\ DOMAIN found = 1..Len(found) /\ Len(found) \in Nat
  BY <1>1 DEF SessionsOK
<1> DEFINE f == found[i]
<1>3. SessionOK(f, now) /\ f \in Session /\ f.phash = p /\ i \in 1..Len(found)
  BY <1>1 DEF SessionsOK, SessionOK, HasVoted
<1>4. s \in Session /\ IsVoted(s, f, v, score)
  BY DEF HasVoted
<1> HIDE DEF f
<1>5. /\ s.phash = p /\ s.assessed = f.assessed /\ s.first_seen = f.first_seen
      /\ s.last_assessed = f.last_assessed
  BY <1>3, <1>4 DEF Session, IsVoted
<1>6. score \in MayScore[v][f.phash] /\ now \in Nat
  BY <1>3 DEF OracleInv
<1>7. /\ VotesOK(s.votes, s.phash) /\ s.first_seen <= now
      /\ DOMAIN f.votes \subseteq DOMAIN s.votes
      /\ \A w \in DOMAIN f.votes : s.votes[w] = f.votes[w]
      /\ ~IsDue(s) => SessionOK(s, now)
  BY <1>3, <1>4, <1>6, VotedSession
<1>8. \A outliers \in Outliers(s.votes) :
        \A mean \in WeightedMeans(s.votes, outliers) :
          IsDue(s) => SessionOK(Settled(s, outliers, mean), now)
  BY <1>4, <1>6, <1>7, AssessedSession
<1> QED
  BY <1>1, <1>2, <1>3, <1>5, <1>7, <1>8 DEF f

\* The three parts of the invariant, after a result.
LEMMA ResultKeepsSessions ==
  ASSUME OracleInv, NEW v \in Voters, NEW p \in Programs,
         NEW score \in MayScore[v][p], HandleResult(v, p, score)
  PROVE  SessionsOK(sessions', now)
<1> DEFINE found == WithSession(p)
<1>1. PICK i \in 1..Len(found), s \in Session :
        /\ HasVoted(i, s, v, p, score)
        /\ Waits(i, s, p) \/ IsAssessed(i, s, p)
  BY ResultTaken
<1> HIDE DEF found
<1>2. i \in 1..Len(found) /\ found[i].phash = p /\ s \in Session
  BY <1>1 DEF found, HasVoted
<1>5. /\ SessionsOK(found, now) /\ s.phash = p
      /\ ~IsDue(s) => SessionOK(s, now)
      /\ \A outliers \in Outliers(s.votes) :
           \A mean \in WeightedMeans(s.votes, outliers) :
             IsDue(s) => SessionOK(Settled(s, outliers, mean), now)
  BY <1>1, TakenFacts DEF found
<1>3. CASE Waits(i, s, p)
  <2>1. SessionOK(s, now) /\ sessions' = With(found, i, s)
    BY <1>3, <1>5 DEF Waits, found
  <2> QED
    BY <1>2, <1>5, <2>1, Replaced
<1>4. CASE IsAssessed(i, s, p)
  <2>1. PICK outliers \in Outliers(s.votes) :
          \E mean \in WeightedMeans(s.votes, outliers) :
            sessions' = With(found, i, Settled(s, outliers, mean))
    BY <1>4 DEF IsAssessed, found
  <2>4. PICK mean \in WeightedMeans(s.votes, outliers) :
          sessions' = With(found, i, Settled(s, outliers, mean))
    BY <2>1
  <2>2. SessionOK(Settled(s, outliers, mean), now)
    BY <1>4, <1>5 DEF IsAssessed
  <2>3. Settled(s, outliers, mean).phash = p
    BY <1>2, <1>5 DEF Settled, Session
  <2> QED
    BY <1>2, <1>5, <2>2, <2>3, <2>4, Replaced
<1> QED
  BY <1>1, <1>3, <1>4

LEMMA ResultKeepsTrust ==
  ASSUME OracleInv, NEW v \in Voters, NEW p \in Programs,
         NEW score \in MayScore[v][p], HandleResult(v, p, score)
  PROVE  TrustOK(trust', tainted')
<1> DEFINE found == WithSession(p)
<1>1. PICK i \in 1..Len(found), s \in Session :
        /\ HasVoted(i, s, v, p, score)
        /\ Waits(i, s, p) \/ IsAssessed(i, s, p)
  BY ResultTaken
<1> HIDE DEF found
<1>2. VotesOK(s.votes, p)
  BY <1>1, TakenFacts DEF found
<1>3. CASE Waits(i, s, p)
  BY <1>3 DEF Waits, OracleInv
<1>4. CASE IsAssessed(i, s, p)
  <2>1. PICK outliers \in Outliers(s.votes), enrolled \in Enrolled(s.votes) :
          \E mean \in WeightedMeans(s.votes, outliers) :
            /\ trust' = Observed(s.votes, outliers, mean, enrolled)
            /\ tainted' = tainted \union Harmed(s.votes, mean)
    BY <1>4 DEF IsAssessed
  <2>2. TrustOK(trust, tainted)
    BY DEF OracleInv
  <2> QED
    BY <1>2, <2>1, <2>2, TrustFollows
<1> QED
  BY <1>1, <1>3, <1>4

\* What With and Settled change and leave.
LEMMA WithFacts ==
  ASSUME NEW q \in Seq(Session), NEW i \in 1..Len(q), NEW x \in Session
  PROVE  /\ With(q, i, x) \in Seq(Session) /\ Len(With(q, i, x)) = Len(q)
         /\ DOMAIN With(q, i, x) = 1..Len(q)
         /\ With(q, i, x)[i] = x
         /\ \A j \in 1..Len(q) : j # i => With(q, i, x)[j] = q[j]
BY DEF With

LEMMA SettledFacts ==
  ASSUME NEW s \in Session, NEW outliers, NEW mean
  PROVE  LET x == Settled(s, outliers, mean)
         IN  /\ x.phash = s.phash /\ x.votes = s.votes /\ x.assessed = TRUE
             /\ x.first_seen = s.first_seen /\ x.last_assessed = now
BY DEF Settled, Session

\* The sessions after a result: the i-th is s, or s assessed; subscribers were
\* told of it, or of none.
Effect(i, s, p) ==
  LET found == WithSession(p)
      n == Len(found)
      after == sessions'[i]
  IN /\ DOMAIN sessions' = 1..n /\ Len(sessions') = n
     /\ \A j \in 1..n : j # i => sessions'[j] = found[j]
     /\ /\ after.phash = p /\ after.votes = s.votes
        /\ after.first_seen = s.first_seen
     /\ \/ /\ ~IsDue(s)
           /\ after.assessed = s.assessed
           /\ after.last_assessed = s.last_assessed
           /\ \A q \in DOMAIN published' : published'[q] = published[q]
        \/ /\ IsDue(s)
           /\ after.assessed = TRUE
           /\ after.last_assessed = now
           /\ published'[p].at = now /\ published'[p].voters = DOMAIN s.votes
           /\ \A q \in DOMAIN published' : q # p => published'[q] = published[q]
     /\ \A q : q \in DOMAIN published' <=>
          \E j \in 1..n : sessions'[j].phash = q /\ sessions'[j].assessed

\* A result has the effect, whichever way it goes.
LEMMA ResultFacts ==
  ASSUME OracleInv, NEW v \in Voters, NEW p \in Programs,
         NEW score \in MayScore[v][p], HandleResult(v, p, score)
  PROVE  \E i \in 1..Len(WithSession(p)), s \in Session :
           HasVoted(i, s, v, p, score) /\ Effect(i, s, p)
<1> DEFINE found == WithSession(p)
           n == Len(found)
<1>1. PICK i \in 1..Len(found), s \in Session :
        /\ HasVoted(i, s, v, p, score)
        /\ Waits(i, s, p) \/ IsAssessed(i, s, p)
  BY ResultTaken
<1> DEFINE table == With(found, i, s)
<1>2. /\ found \in Seq(Session) /\ n \in Nat /\ SessionsOK(found, now)
      /\ found[i].phash = p /\ s.phash = p
  BY <1>1, TakenFacts
<1> HIDE DEF found
<1>3. /\ table \in Seq(Session)
      /\ DOMAIN table = 1..n /\ Len(table) = n /\ table[i] = s
      /\ \A j \in 1..n : j # i => table[j] = found[j]
  BY <1>2, WithFacts
<1>4. \A j, k \in 1..n : table[j].phash = table[k].phash => j = k
  <2>1. \A j \in 1..n : table[j].phash = found[j].phash
    BY <1>2, <1>3
  <2>2. \A j, k \in 1..n : found[j].phash = found[k].phash => j = k
    BY <1>2 DEF SessionsOK
  <2> HIDE DEF table
  <2> QED
    BY <2>1, <2>2
<1> HIDE DEF table
<1>5. CASE Waits(i, s, p)
  <2>1. sessions' = table /\ published' = Kept(table) /\ ~IsDue(s)
    BY <1>5 DEF Waits, table, found
  <2>2. /\ \A q : q \in DOMAIN published' <=>
               \E j \in 1..n : table[j].phash = q /\ table[j].assessed
        /\ \A q \in DOMAIN published' : published'[q] = published[q]
    BY <1>2, <1>3, <2>1, KeptFacts
  <2>3. Effect(i, s, p)
    BY <1>2, <1>3, <2>1, <2>2 DEF Effect, found
  <2> QED
    BY <1>1, <2>3 DEF found
<1>6. CASE IsAssessed(i, s, p)
  <2>13. PICK outliers \in Outliers(s.votes) :
           \E mean \in WeightedMeans(s.votes, outliers) :
             /\ sessions' = With(found, i, Settled(s, outliers, mean))
             /\ published' = Told(table, p, mean)
    BY <1>6 DEF IsAssessed, table, found
  <2>1. PICK mean \in WeightedMeans(s.votes, outliers) :
          /\ sessions' = With(found, i, Settled(s, outliers, mean))
          /\ published' = Told(table, p, mean)
    BY <2>13
  <2>2. IsDue(s)
    BY <1>6 DEF IsAssessed
  <2> DEFINE x == Settled(s, outliers, mean)
  <2>3. /\ x.phash = p /\ x.votes = s.votes /\ x.assessed = TRUE
        /\ x.first_seen = s.first_seen /\ x.last_assessed = now
    <3>1. s \in Session
      BY <1>1
    <3> QED
      BY <1>2, <3>1 DEF Settled, Session
  <2>4. x \in Session
    <3>2. \A o \in Outliers(s.votes) : \A m \in WeightedMeans(s.votes, o) :
            SessionOK(Settled(s, o, m), now)
      BY <1>1, <2>2, TakenFacts DEF found
    <3>1. SessionOK(x, now)
      BY <3>2
    <3> HIDE DEF x
    <3> QED
      BY <3>1 DEF SessionOK
  <2> HIDE DEF x
  <2>5. /\ DOMAIN sessions' = 1..n /\ Len(sessions') = n /\ sessions'[i] = x
        /\ \A j \in 1..n : j # i => sessions'[j] = found[j]
    BY <1>2, <2>1, <2>4, WithFacts DEF x
  <2>6. IsDistinct(table) /\ mean \in Floats
    <3>1. s.votes \in [DOMAIN s.votes -> Scored]
      BY DEF Session, VoteTables
    <3> QED
      BY <1>3, <1>4, <3>1, MeanIsTrue DEF IsDistinct
  <2>7. table[i].phash = p /\ table[i].votes = s.votes
    BY <1>2, <1>3
  <2>8. /\ published'[p].at = now /\ published'[p].voters = DOMAIN s.votes
        /\ \A q \in DOMAIN published' : q # p => published'[q] = published[q]
    BY <1>2, <1>3, <2>1, <2>6, <2>7, ToldFacts
  <2>9. \A q : q \in DOMAIN published' <=>
                 \E j \in 1..n : /\ table[j].phash = q
                                 /\ table[j].assessed \/ table[j].phash = p
    BY <1>2, <1>3, <2>1, ToldDomain
  <2>10. \A j \in 1..n :
           /\ sessions'[j].phash = table[j].phash
           /\ sessions'[j].assessed <=> table[j].assessed \/ table[j].phash = p
    BY <1>2, <1>3, <1>4, <2>3, <2>5, <2>7
  <2>11. \A q : q \in DOMAIN published' <=>
           \E j \in 1..n : sessions'[j].phash = q /\ sessions'[j].assessed
    BY <2>9, <2>10
  <2>12. Effect(i, s, p)
    BY <2>2, <2>3, <2>5, <2>8, <2>11 DEF Effect, found
  <2> QED
    BY <1>1, <2>12 DEF found
<1> QED
  BY <1>1, <1>5, <1>6 DEF found
\* Only sessions that were there are assessed, and subscribers were told of
\* them.
LEMMA AssessedWereTold ==
  ASSUME OracleInv, NEW p \in Programs, NEW j \in 1..Len(WithSession(p)),
         WithSession(p)[j].assessed
  PROVE  /\ \E k \in 1..Len(sessions) : WithSession(p)[j] = sessions[k]
         /\ WithSession(p)[j].phash \in DOMAIN published
         /\ published[WithSession(p)[j].phash].at
              = WithSession(p)[j].last_assessed
<1>1. PICK k \in 1..Len(sessions) : WithSession(p)[j] = sessions[k]
  <2>1. \/ \E k \in 1..Len(sessions) : WithSession(p)[j] = sessions[k]
        \/ WithSession(p)[j] = NewSession(p)
    BY FoundFacts DEF OracleInv
  <2>2. ~NewSession(p).assessed
    BY NewSessionOK DEF OracleInv
  <2> QED
    BY <2>1, <2>2
<1>2. sessions[k].assessed
  BY <1>1
<1>3. /\ sessions[k].phash \in DOMAIN published
      /\ published[sessions[k].phash].at = sessions[k].last_assessed
  BY <1>2 DEF OracleInv, PublishedOK
<1> QED
  BY <1>1, <1>3

LEMMA ResultKeepsPublished ==
  ASSUME OracleInv, NEW v \in Voters, NEW p \in Programs,
         NEW score \in MayScore[v][p], HandleResult(v, p, score)
  PROVE  PublishedOK(published', sessions')
<1> DEFINE found == WithSession(p)
           n == Len(found)
<1>1. PICK i \in 1..Len(found), s \in Session :
        HasVoted(i, s, v, p, score) /\ Effect(i, s, p)
  BY ResultFacts
<1>2. /\ SessionsOK(found, now) /\ found[i].phash = p
      /\ s.assessed = found[i].assessed
      /\ s.last_assessed = found[i].last_assessed
  BY <1>1, TakenFacts
<1>3. \A j, k \in 1..n : found[j].phash = found[k].phash => j = k
  BY <1>2 DEF SessionsOK
<1>4. \A j \in 1..n : found[j].assessed =>
        published[found[j].phash].at = found[j].last_assessed
  BY AssessedWereTold
<1>5. /\ Len(sessions') = n
      /\ \A j \in 1..n : j # i => sessions'[j] = found[j]
      /\ sessions'[i].phash = p
      /\ \/ /\ sessions'[i].assessed = s.assessed
            /\ sessions'[i].last_assessed = s.last_assessed
            /\ \A q \in DOMAIN published' : published'[q] = published[q]
         \/ /\ sessions'[i].last_assessed = now
            /\ published'[p].at = now
            /\ \A q \in DOMAIN published' : q # p => published'[q] = published[q]
      /\ \A q : q \in DOMAIN published' <=>
           \E j \in 1..n : sessions'[j].phash = q /\ sessions'[j].assessed
  BY <1>1 DEF Effect
<1> HIDE DEF found
<1>6. ASSUME NEW j \in 1..n, sessions'[j].assessed
      PROVE  published'[sessions'[j].phash].at = sessions'[j].last_assessed
  <2>1. sessions'[j].phash \in DOMAIN published'
    BY <1>5, <1>6
  <2>2. CASE j = i
    BY <1>2, <1>4, <1>5, <1>6, <2>1, <2>2
  <2>3. CASE j # i
    <3>1. sessions'[j] = found[j] /\ found[j].phash # p
      BY <1>2, <1>3, <1>5, <2>3
    <3>2. published'[found[j].phash] = published[found[j].phash]
      BY <1>5, <2>1, <3>1
    <3> QED
      BY <1>4, <1>6, <3>1, <3>2
  <2> QED
    BY <2>2, <2>3
<1> QED
  BY <1>5, <1>6 DEF PublishedOK

----------------------------------------------------------------------------
(* The invariant *)

LEMMA OracleStart == OracleInit => OracleInv
<1> SUFFICES ASSUME OracleInit PROVE OracleInv
  OBVIOUS
<1>1. now = 0 /\ sessions = <<>> /\ trust = <<>> /\ tainted = {}
      /\ published = <<>>
  BY DEF OracleInit
<1>2. DOMAIN <<>> = {} /\ Len(<<>>) = 0 /\ 1..0 = {}
  OBVIOUS
<1>3. SessionsOK(<<>>, 0)
  BY <1>2, OracleNumbers DEF SessionsOK
<1>4. TrustOK(<<>>, {})
  <2>1. <<>> \in [{} -> Floats]
    BY <1>2
  <2>2. IsFiniteSet({}) /\ Cardinality({}) = 0
    BY FS_EmptySet
  <2> QED
    BY <1>2, <2>1, <2>2, OracleNumbers DEF TrustOK
<1>5. PublishedOK(<<>>, <<>>)
  BY <1>2 DEF PublishedOK
<1> QED
  BY <1>1, <1>3, <1>4, <1>5, OracleNumbers DEF OracleInv

\* Times of the past stay in the past.
LEMMA LaterIsFine ==
  ASSUME NEW q, NEW t \in Nat, SessionsOK(q, t)
  PROVE  SessionsOK(q, t + 1)
<1>1. \A i \in 1..Len(q) : SessionOK(q[i], t + 1)
  <2> SUFFICES ASSUME NEW i \in 1..Len(q) PROVE SessionOK(q[i], t + 1)
    OBVIOUS
  <2> DEFINE s == q[i]
  <2>1. SessionOK(s, t)
    BY DEF SessionsOK
  <2> HIDE DEF s
  <2>2. s.first_seen \in Nat /\ s.last_assessed \in Nat
    BY <2>1 DEF SessionOK, Session
  <2>3. s.first_seen <= t + 1 /\ s.last_assessed <= t + 1
    BY <2>1, <2>2 DEF SessionOK
  <2>4. SessionOK(s, t + 1)
    BY <2>1, <2>3 DEF SessionOK
  <2> QED
    BY <2>4 DEF s
<1> QED
  BY <1>1 DEF SessionsOK

LEMMA OracleStep == OracleInv /\ [OracleNext]_oracleVars => OracleInv'
<1> SUFFICES ASSUME OracleInv, [OracleNext]_oracleVars PROVE OracleInv'
  OBVIOUS
<1>1. ASSUME NEW v \in Voters, NEW p \in Programs,
             NEW score \in MayScore[v][p], HandleResult(v, p, score)
      PROVE  OracleInv'
  <2>1. now' = now
    BY <1>1, ResultTaken
  <2>2. /\ SessionsOK(sessions', now') /\ TrustOK(trust', tainted')
        /\ PublishedOK(published', sessions')
    BY <1>1, <2>1, ResultKeepsSessions, ResultKeepsTrust, ResultKeepsPublished
  <2> QED
    BY <2>1, <2>2 DEF OracleInv
<1>2. CASE MaybePublishSpec
  BY <1>2 DEF MaybePublishSpec, OracleInv
<1>3. CASE OracleTick
  <2>1. /\ now' = now + 1 /\ now < MaxTime /\ now \in Nat
        /\ SessionsOK(sessions, now) /\ TrustOK(trust, tainted)
        /\ PublishedOK(published, sessions)
        /\ sessions' = sessions /\ trust' = trust /\ tainted' = tainted
        /\ published' = published
    BY <1>3 DEF OracleTick, OracleInv
  <2>2. SessionsOK(sessions, now + 1)
    BY <2>1, LaterIsFine
  <2>3. now + 1 \in Nat /\ now + 1 <= MaxTime
    BY <2>1, OracleNumbers
  <2> QED
    BY <2>1, <2>2, <2>3 DEF OracleInv
<1>4. CASE UNCHANGED oracleVars
  BY <1>4 DEF oracleVars, OracleInv
<1> QED
  BY <1>1, <1>2, <1>3, <1>4 DEF OracleNext

LEMMA OracleInvHolds == OracleSpec => []OracleInv
BY OracleStart, OracleStep, PTL DEF OracleSpec

----------------------------------------------------------------------------
(* What the runs check *)

\* The type invariant, which the invariant has for sequences.
LEMMA InvIsTyped == OracleInv => OracleTypeOK
<1> SUFFICES ASSUME OracleInv PROVE OracleTypeOK
  OBVIOUS
<1>1. /\ Len(sessions) <= MaxSessions /\ sessions \in Seq(Session)
      /\ \A i \in 1..Len(sessions) : SessionOK(sessions[i], now)
      /\ now \in Nat
  BY DEF OracleInv, SessionsOK
<1>2. ASSUME NEW s \in Range(sessions) PROVE IsSession(s)
  <2>1. s \in Session /\ SessionOK(s, now)
    BY <1>1, <1>2 DEF Range
  <2>2. DOMAIN s = DOMAIN NewSession(s.phash)
    BY <2>1 DEF Session, NewSession
  <2>3. /\ s.phash \in Programs /\ s.mean \in Floats /\ s.assessed \in BOOLEAN
        /\ s.first_seen \in Nat /\ s.last_assessed \in Nat
    BY <2>1 DEF Session
  <2>4. /\ VotesOK(s.votes, s.phash)
        /\ s.outliers \subseteq s.judged /\ s.judged \subseteq DOMAIN s.votes
        /\ s.first_seen <= now /\ s.last_assessed <= now
    BY <2>1 DEF SessionOK
  <2>5. {s.first_seen, s.last_assessed} \subseteq 0..now
    BY <1>1, <2>3, <2>4
  <2>6. /\ DOMAIN s.votes \subseteq Voters
        /\ Cardinality(DOMAIN s.votes) <= MaxVotes
        /\ \A v \in DOMAIN s.votes : s.votes[v] \in MayScore[v][s.phash]
    BY <2>4 DEF VotesOK, VoteTables
  <2> QED
    BY <2>2, <2>3, <2>4, <2>5, <2>6 DEF IsSession
<1>3. /\ DOMAIN trust \subseteq Voters /\ Range(trust) \subseteq Floats
      /\ Cardinality(DOMAIN trust) <= MaxStats /\ tainted \subseteq Voters
  BY DEF OracleInv, TrustOK, Range
<1>4. DOMAIN published \subseteq Programs
  <2> SUFFICES ASSUME NEW q \in DOMAIN published PROVE q \in Programs
    OBVIOUS
  <2>1. PICK i \in 1..Len(sessions) : sessions[i].phash = q
    BY DEF OracleInv, PublishedOK
  <2>2. sessions[i] \in Session
    BY <1>1
  <2>3. sessions[i].phash \in Programs
    BY <2>2 DEF Session
  <2> QED
    BY <2>1, <2>3
<1>5. now \in 0..MaxTime
  BY OracleNumbers DEF OracleInv
<1> QED
  BY <1>1, <1>2, <1>3, <1>4, <1>5 DEF OracleTypeOK

\* A program has one session, and it is assessed exactly from the quorum on,
\* however votes come in and whatever is evicted (oracle_get_or_create(),
\* handle_result()); and of those that are assessed at most one in
\* OUTLIER_ZSCORE squared is an outlier, and nobody among fewer than that and
\* one more, for any number of voters and any scores (oracle_assess(), steps 1
\* to 3).
THEOREM SessionsStaySound == OracleSpec => []SessionsAreSound
<1>1. OracleInv => SessionsAreSound
  <2> SUFFICES ASSUME OracleInv PROVE SessionsInOrder /\ OutliersAreFew
    BY DEF SessionsAreSound
  <2>1. /\ sessions \in Seq(Session)
        /\ \A i \in 1..Len(sessions) : SessionOK(sessions[i], now)
        /\ \A i, j \in 1..Len(sessions) :
             sessions[i].phash = sessions[j].phash => i = j
    BY DEF OracleInv, SessionsOK
  <2>2. DOMAIN sessions = 1..Len(sessions)
    BY <2>1
  <2>3. \A s \in Range(sessions) : SessionOK(s, now)
    BY <2>1, <2>2 DEF Range
  <2>4. \A s \in Range(sessions) :
          /\ s.assessed <=> Cardinality(DOMAIN s.votes) >= Quorum
          /\ s.assessed => Cardinality(s.judged) >= Quorum
    BY <2>3 DEF SessionOK
  <2>5. SessionsInOrder
    BY <2>1, <2>2, <2>4, InvIsTyped DEF SessionsInOrder
  <2>6. OutliersAreFew
    BY <2>3 DEF OutliersAreFew, SessionOK, FewOutliers
  <2> QED
    BY <2>5, <2>6
<1> QED
  BY <1>1, OracleInvHolds, PTL

\* A score that is not finite is only felt by those that voted in its session,
\* by its own voter or, under a mean that is no number, by all of them, and for
\* good (oracle_assess(), steps 4 and 6).
THEOREM NaNIsContained == OracleSpec => []NaNStaysInItsSession
<1>1. OracleInv => NaNStaysInItsSession
  <2> SUFFICES ASSUME OracleInv PROVE NaNStaysInItsSession
    OBVIOUS
  <2>1. /\ sessions \in Seq(Session)
        /\ \A i \in 1..Len(sessions) : SessionOK(sessions[i], now)
    BY DEF OracleInv, SessionsOK
  <2>2. \A s \in Range(sessions) : SessionOK(s, now)
    BY <2>1 DEF Range
  <2> QED
    BY <2>2 DEF NaNStaysInItsSession, SessionOK, OracleInv, TrustOK
<1> QED
  BY <1>1, OracleInvHolds, PTL

\* An oldest session goes when there is no room, the others keep their votes.
LEMMA ResultEvictsOldest ==
  ASSUME OracleInv, NEW v \in Voters, NEW p \in Programs,
         NEW score \in MayScore[v][p], HandleResult(v, p, score)
  PROVE  EvictsOldest
<1> DEFINE found == WithSession(p)
           n == Len(found)
<1>1. PICK i \in 1..n, x \in Session :
        HasVoted(i, x, v, p, score) /\ Effect(i, x, p)
  BY ResultFacts
<1>2. /\ x.first_seen = found[i].first_seen /\ found[i].phash = p
      /\ DOMAIN found[i].votes \subseteq DOMAIN x.votes
      /\ \A w \in DOMAIN found[i].votes : x.votes[w] = found[i].votes[w]
  BY <1>1, TakenFacts
<1>3. /\ DOMAIN sessions' = 1..n
      /\ \A j \in 1..n : j # i => sessions'[j] = found[j]
      /\ sessions'[i].phash = p /\ sessions'[i].votes = x.votes
      /\ sessions'[i].first_seen = x.first_seen
  BY <1>1 DEF Effect
<1>4. \A k \in 1..Len(sessions) :
        \/ \E j \in 1..n : found[j] = sessions[k]
        \/ /\ Len(sessions) = MaxSessions
           /\ \A m \in 1..Len(sessions) :
                sessions[k].first_seen <= sessions[m].first_seen
  BY FoundFacts DEF OracleInv
<1> HIDE DEF found
<1>5. sessions \in Seq(Session) /\ DOMAIN sessions = 1..Len(sessions)
  BY DEF OracleInv, SessionsOK
<1> SUFFICES ASSUME NEW s \in Range(sessions)
             PROVE  \/ \E t \in Range(sessions)' :
                         /\ t.phash = s.phash /\ t.first_seen = s.first_seen
                         /\ \A w \in DOMAIN s.votes :
                              w \in DOMAIN t.votes /\ t.votes[w] = s.votes[w]
                    \/ /\ Len(sessions) = MaxSessions
                       /\ \A t \in Range(sessions) : s.first_seen <= t.first_seen
  BY DEF EvictsOldest
<1>6. PICK k \in 1..Len(sessions) : s = sessions[k]
  BY <1>5 DEF Range
<1>7. CASE \E j \in 1..n : found[j] = sessions[k]
  <2>1. PICK j \in 1..n : found[j] = sessions[k]
    BY <1>7
  <2>2. sessions'[j] \in Range(sessions)'
    BY <1>3, <2>1 DEF Range
  <2>3. /\ sessions'[j].phash = s.phash /\ sessions'[j].first_seen = s.first_seen
        /\ \A w \in DOMAIN s.votes :
             w \in DOMAIN sessions'[j].votes /\ sessions'[j].votes[w] = s.votes[w]
    BY <1>2, <1>3, <1>6, <2>1
  <2> QED
    BY <2>2, <2>3
<1>8. CASE /\ Len(sessions) = MaxSessions
           /\ \A m \in 1..Len(sessions) :
                sessions[k].first_seen <= sessions[m].first_seen
  BY <1>5, <1>6, <1>8 DEF Range
<1> QED
  BY <1>4, <1>7, <1>8

\* oracle_get_or_create() gives away the place of an oldest session only, and
\* only when it needs one.
THEOREM EvictsTheOldest == OracleSpec => OldestEvicted
<1>1. OracleInv /\ [OracleNext]_oracleVars => [EvictsOldest]_oracleVars
  <2> SUFFICES ASSUME OracleInv, OracleNext, sessions' # sessions
               PROVE  EvictsOldest
    <3>1. ASSUME sessions' = sessions PROVE EvictsOldest
      BY <3>1 DEF EvictsOldest
    <3> QED
      BY <3>1
  <2>1. PICK v \in Voters, p \in Programs :
          \E score \in MayScore[v][p] : HandleResult(v, p, score)
    BY DEF OracleNext, MaybePublishSpec, OracleTick
  <2> QED
    BY <2>1, ResultEvictsOldest
<1> QED
  BY <1>1, OracleInvHolds, PTL DEF OracleSpec, OldestEvicted

\* A cooldown is waited for, and then no longer.
LEMMA ResultCools ==
  ASSUME OracleInv, NEW v \in Voters, NEW p \in Programs,
         NEW score \in MayScore[v][p], HandleResult(v, p, score)
  PROVE  Cools
<1> DEFINE found == WithSession(p)
           n == Len(found)
<1>1. PICK i \in 1..n, x \in Session :
        HasVoted(i, x, v, p, score) /\ Effect(i, x, p)
  BY ResultFacts
<1>2. /\ SessionsOK(found, now) /\ found[i].phash = p
      /\ SessionOK(found[i], now)
      /\ x.assessed = found[i].assessed
      /\ x.last_assessed = found[i].last_assessed
      /\ DOMAIN found[i].votes \subseteq DOMAIN x.votes
      /\ VotesOK(x.votes, p)
  BY <1>1, TakenFacts
<1>3. /\ DOMAIN sessions' = 1..n
      /\ \A j \in 1..n : j # i => sessions'[j] = found[j]
      /\ sessions'[i].phash = p /\ sessions'[i].votes = x.votes
      /\ \/ /\ ~IsDue(x)
            /\ \A q \in DOMAIN published' : published'[q] = published[q]
         \/ /\ IsDue(x)
            /\ published'[p].at = now /\ published'[p].voters = DOMAIN x.votes
            /\ \A q \in DOMAIN published' : q # p => published'[q] = published[q]
  BY <1>1 DEF Effect
<1>4. \A j \in 1..n : found[j].assessed =>
        /\ found[j].phash \in DOMAIN published
        /\ published[found[j].phash].at = found[j].last_assessed
  BY AssessedWereTold
<1>5. \A j \in 1..n :
        \/ \E k \in 1..Len(sessions) : found[j] = sessions[k]
        \/ /\ found[j] = NewSession(p)
           /\ \A k \in 1..Len(sessions) : sessions[k].phash # p
  BY FoundFacts DEF OracleInv
<1>6. /\ sessions \in Seq(Session) /\ DOMAIN sessions = 1..Len(sessions)
      /\ \A j, k \in 1..Len(sessions) :
           sessions[j].phash = sessions[k].phash => j = k
      /\ \A q : q \in DOMAIN published <=>
           \E k \in 1..Len(sessions) :
             sessions[k].phash = q /\ sessions[k].assessed
      /\ now \in Nat
  BY DEF OracleInv, SessionsOK, PublishedOK
\* The session that subscribers know of is the one that takes the vote.
<1>7. ASSUME p \in DOMAIN published
      PROVE  /\ found[i].assessed
             /\ \E k \in 1..Len(sessions) : found[i] = sessions[k]
             /\ published[p].at = x.last_assessed
             /\ Cardinality(DOMAIN x.votes) >= Quorum
  <2>1. PICK m \in 1..Len(sessions) :
          sessions[m].phash = p /\ sessions[m].assessed
    BY <1>6, <1>7
  <2>2. PICK k \in 1..Len(sessions) : found[i] = sessions[k]
    BY <1>5, <2>1
  <2>3. found[i].assessed
    BY <1>2, <1>6, <2>1, <2>2
  <2>4. Cardinality(DOMAIN found[i].votes) >= Quorum
    BY <1>2, <2>3 DEF SessionOK
  <2> DEFINE old == DOMAIN found[i].votes
             all == DOMAIN x.votes
  <2>5. /\ IsFiniteSet(all) /\ old \subseteq all
    BY <1>2 DEF VotesOK
  <2> HIDE DEF old, all
  <2>6. Cardinality(old) <= Cardinality(all)
        /\ Cardinality(old) \in Nat /\ Cardinality(all) \in Nat
    BY <2>5, FS_Subset, FS_CardinalityType
  <2>7. Cardinality(all) >= Quorum
    BY <2>4, <2>6, OracleNumbers DEF old
  <2>8. published[p].at = x.last_assessed
    BY <1>2, <1>4, <2>3
  <2> QED
    BY <2>2, <2>3, <2>7, <2>8 DEF all
<1>8. x.last_assessed \in Nat
  BY <1>1 DEF Session
<1> HIDE DEF found
<1>9. ASSUME NEW q \in DOMAIN published \cap DOMAIN published',
             published'[q] # published[q]
      PROVE  published'[q].at >= published[q].at + Cooldown
  <2>1. q = p /\ IsDue(x) /\ published'[p].at = now
    BY <1>3, <1>9
  <2>2. found[i].assessed /\ published[p].at = x.last_assessed
    BY <1>7, <1>9, <2>1
  <2>3. now - x.last_assessed >= Cooldown
    BY <1>2, <2>1, <2>2 DEF IsDue
  <2>4. now >= x.last_assessed + Cooldown
    BY <1>6, <1>8, <2>3, OracleNumbers
  <2> QED
    BY <2>1, <2>2, <2>4
<1>10. ASSUME NEW s \in Range(sessions), NEW t \in Range(sessions'),
              t.phash = s.phash, DOMAIN t.votes # DOMAIN s.votes,
              t.phash \in DOMAIN published,
              now >= published[t.phash].at + Cooldown
       PROVE  published'[t.phash].voters = DOMAIN t.votes
  <2>1. PICK k \in 1..Len(sessions) : s = sessions[k]
    BY <1>6 DEF Range
  <2>2. PICK j \in 1..n : t = sessions'[j]
    BY <1>3 DEF Range
  <2>3. j = i
    <3> SUFFICES ASSUME j # i PROVE FALSE
      OBVIOUS
    <3>1. t = found[j]
      BY <1>3, <2>2
    <3>2. t.phash # p
      <4>1. \A a, b \in 1..n : found[a].phash = found[b].phash => a = b
        BY <1>2 DEF SessionsOK
      <4> QED
        BY <1>2, <2>2, <3>1, <4>1
    <3>3. PICK m \in 1..Len(sessions) : found[j] = sessions[m]
      <4>1. NewSession(p).phash = p
        BY DEF NewSession
      <4> QED
        BY <1>5, <2>2, <3>1, <3>2, <4>1
    <3>4. m = k
      BY <1>6, <1>10, <2>1, <3>1, <3>3
    <3> QED
      BY <1>10, <2>1, <3>1, <3>3, <3>4
  <2>4. t.phash = p /\ t.votes = x.votes
    BY <1>3, <2>2, <2>3
  <2>5. /\ found[i].assessed /\ published[p].at = x.last_assessed
        /\ Cardinality(DOMAIN x.votes) >= Quorum
    BY <1>7, <1>10, <2>4
  <2>6. now >= x.last_assessed + Cooldown
    BY <1>10, <2>4, <2>5
  <2>7. now - x.last_assessed >= Cooldown
    BY <1>6, <1>8, <2>6, OracleNumbers
  <2>8. IsDue(x)
    BY <2>5, <2>7 DEF IsDue
  <2> QED
    BY <1>3, <2>4, <2>8
<1> QED
  BY <1>9, <1>10 DEF Cools

\* handle_result() assesses a session at most once in a cooldown, and with the
\* first vote after it.
THEOREM CooldownIsKept == OracleSpec => CooldownHolds
<1>1. OracleInv /\ [OracleNext]_oracleVars => [Cools]_oracleVars
  <2>1. ASSUME OracleInv, NEW v \in Voters, NEW p \in Programs,
               NEW score \in MayScore[v][p], HandleResult(v, p, score)
        PROVE  Cools
    BY <2>1, ResultCools
  <2>2. ASSUME OracleInv, MaybePublishSpec \/ OracleTick
        PROVE  Cools
    <3>1. sessions' = sessions /\ published' = published
      BY <2>2 DEF MaybePublishSpec, OracleTick
    <3>2. ASSUME NEW s \in Range(sessions), NEW t \in Range(sessions),
                 t.phash = s.phash
          PROVE  DOMAIN t.votes = DOMAIN s.votes
      <4>1. /\ sessions \in Seq(Session) /\ DOMAIN sessions = 1..Len(sessions)
            /\ \A j, k \in 1..Len(sessions) :
                 sessions[j].phash = sessions[k].phash => j = k
        BY <2>2 DEF OracleInv, SessionsOK
      <4> QED
        BY <3>2, <4>1 DEF Range
    <3> QED
      BY <3>1, <3>2 DEF Cools
  <2> QED
    BY <2>1, <2>2 DEF OracleNext
<1> QED
  BY <1>1, OracleInvHolds, PTL DEF OracleSpec, CooldownHolds
=============================================================================
