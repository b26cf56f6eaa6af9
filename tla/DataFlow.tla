------------------------------ MODULE DataFlow ------------------------------
(***************************************************************************)
(* How training data reaches a worker.  A user submits it to the sentient,   *)
(* which keeps it in quarantine until it is approved under its name          *)
(* (roles/sentient/sentient_agent.c); a custodian that holds it too may      *)
(* announce it, or warn that it is stale, any number of times (its own       *)
(* module is Custodian); a worker fetches it by name for the programs it     *)
(* runs, and keeps it (roles/worker/worker_agent.c).                         *)
(*                                                                         *)
(* Data is its hash.  A worker only ever fetches the data it was started     *)
(* for, so its cache has one entry in use, and nothing is ever evicted.      *)
(* Finds says what find_sentient() may find: nothing through the MQTT        *)
(* transport, which gives no addresses; what follows from more holds then    *)
(* too.  Left out: the size of data, and large manifests, whose shards are   *)
(* fetched when a program runs.                                              *)
(***************************************************************************)
EXTENDS Naturals, Sequences, SequencesExt

CONSTANTS
  Names, Hashes,
  DataName,       \* g_data_name of the worker
  Finds,          \* whether a sentient is found: a set of booleans
  NoHash,         \* of an entry that never held anything
  MaxQuarantine,  \* MAX_QUARANTINE
  MaxDataNames,   \* MAX_DATA_NAMES
  MaxRecords,     \* that the disk has room for
  MaxMail         \* bound, for model checking only

ASSUME DataFlowAssumption ==
  /\ DataName \in Names /\ NoHash \notin Hashes /\ Finds \subseteq BOOLEAN
  /\ {MaxQuarantine, MaxDataNames, MaxRecords, MaxMail} \subseteq Nat

VARIABLES
  quarantine,    \* g_quarantine of the sentient
  data_names,    \* g_data_names: the approved data by name
  chain,         \* the sentient's transaction chain
  started,       \* ghost: how long the chain was when the sentient started
  unlogged,      \* ghost: since then chain_append() has failed
  approved,      \* ghost: data approved, with the names it was submitted under
  mail,          \* what the worker has yet to hear
  entry,         \* the entry of the worker's cache
  task,          \* what the worker fetches for, and how far it has come
  resolved,      \* the hash it was given for the name
  computed,      \* ghost: the data the last step ran a program on
  barred         \* ghost: its data was rejected, and none announced since

sentientVars == <<quarantine, data_names, chain, started, unlogged, approved>>
workerVars == <<entry, task, resolved, barred>>
vars == <<sentientVars, mail, workerVars, computed>>

Submission == [hash : Hashes, name : Names,
               status : {"pending", "approved", "rejected"}]

Record == [type : {"DATA_SUBMIT"}, hash : Hashes, name : Names]
            \union [type : {"DATA_APPROVE", "DATA_REJECT"}, hash : Hashes]

NoEntry == [hash |-> NoHash, valid |-> FALSE, rejected |-> FALSE, content |-> "whole"]

Init == /\ quarantine = <<>> /\ data_names = <<>>
        /\ chain = <<>> /\ started = 0 /\ unlogged = FALSE /\ approved = {}
        /\ mail = <<>>
        /\ entry = NoEntry /\ task = "none" /\ resolved = NoHash
        /\ computed = NoHash /\ barred = FALSE

\* No program is run.
NoRun == computed' = NoHash

-----------------------------------------------------------------------------
(* The sentient *)

\* chain_append(), whose result nobody looks at: it fails when the disk is full.
Log(record) ==
  IF Len(chain) < MaxRecords
  THEN chain' = Append(chain, record) /\ UNCHANGED <<started, unlogged>>
  ELSE unlogged' = TRUE /\ UNCHANGED <<chain, started>>

\* handle_data_submit(): what has been submitted before is submitted again.
Submit(h, n) ==
  /\ Len(quarantine) < MaxQuarantine
  /\ quarantine' = Append(quarantine, [hash |-> h, name |-> n, status |-> "pending"])
  /\ Log([type |-> "DATA_SUBMIT", hash |-> h, name |-> n])
  /\ UNCHANGED <<data_names, approved, mail, workerVars>> /\ NoRun

\* The last submission of the data rather than the first.
BugFound(list, h) == SelectLastInSeq(list, LAMBDA q : q.hash = h)

\* The first submission of the data, whatever has become of it, or 0.
Found(list, h) == SelectInSeq(list, LAMBDA q : q.hash = h)

\* Data is registered under its name, while there is room for another one.
Register(names, n, h) ==
  LET i == SelectInSeq(names, LAMBDA d : d.name = n)
  IN IF i # 0 THEN [names EXCEPT ![i].hash = h]
     ELSE IF Len(names) < MaxDataNames
          THEN Append(names, [name |-> n, hash |-> h]) ELSE names

\* A message that is published may be lost.
Published(queue, m) == {Append(queue, m), queue}

\* handle_data_approve()
Approve(h) ==
  LET i == Found(quarantine, h)
  IN /\ i # 0
     /\ quarantine' = [quarantine EXCEPT ![i].status = "approved"]
     /\ data_names' = Register(data_names, quarantine[i].name, h)
     /\ approved' = approved \union
          {<<quarantine[j].name, h>> : j \in {k \in DOMAIN quarantine : quarantine[k].hash = h}}
     /\ Log([type |-> "DATA_APPROVE", hash |-> h])
     /\ UNCHANGED <<mail, workerVars>> /\ NoRun

\* handle_data_reject(): what was approved keeps its name.
Reject(h) ==
  LET i == Found(quarantine, h)
  IN /\ i # 0
     /\ quarantine' = [quarantine EXCEPT ![i].status = "rejected"]
     /\ Log([type |-> "DATA_REJECT", hash |-> h])
     /\ Len(mail) < MaxMail
     /\ mail' \in Published(mail, [type |-> "reject", hash |-> h])
     /\ UNCHANGED <<data_names, approved, workerVars>> /\ NoRun

\* Quarantine and names are lost, and the chain does not tell of it.
RestartSentient ==
  /\ quarantine # <<>>
  /\ quarantine' = <<>> /\ data_names' = <<>>
  /\ started' = Len(chain) /\ unlogged' = FALSE
  /\ UNCHANGED <<chain, approved, mail, workerVars>> /\ NoRun

-----------------------------------------------------------------------------
(* The custodian *)

\* on_approved() and check_staleness(), of data that the sentient has approved.
Announce(type) ==
  /\ Len(mail) < MaxMail
  /\ \E d \in approved : mail' = Append(mail, [type |-> type, hash |-> d[2]])
  /\ UNCHANGED <<sentientVars, workerVars>> /\ NoRun

-----------------------------------------------------------------------------
(* The worker *)

IsIdle == task = "none"

\* cache_free_entry(): name, hash and rejected stay.
Freed(e) == [e EXCEPT !.valid = FALSE]

\* handle_data_ready(): another version than the one that is held is fetched.
HandleReady ==
  /\ IsIdle /\ mail # <<>> /\ Head(mail).type = "ready"
  /\ mail' = Tail(mail)
  /\ IF entry.valid /\ entry.hash = Head(mail).hash
     THEN UNCHANGED <<entry, task>>
     ELSE entry' = Freed(entry) /\ task' = "prefetch"
  /\ barred' = FALSE
  /\ UNCHANGED <<sentientVars, resolved>> /\ NoRun

\* handle_data_stale()
HandleStale ==
  /\ IsIdle /\ mail # <<>> /\ Head(mail).type = "stale"
  /\ mail' = Tail(mail)
  /\ entry' = IF entry.hash = Head(mail).hash THEN Freed(entry) ELSE entry
  /\ UNCHANGED <<sentientVars, task, resolved, barred>> /\ NoRun

BugRejected(e) == Freed(e)

Rejected(e) == [Freed(e) EXCEPT !.rejected = TRUE]

\* handle_data_reject(): of what the worker does not hold it keeps no note.
HandleReject ==
  /\ IsIdle /\ mail # <<>> /\ Head(mail).type = "reject"
  /\ mail' = Tail(mail)
  /\ LET holds == entry.hash = Head(mail).hash
     IN /\ entry' = IF holds THEN Rejected(entry) ELSE entry
        /\ barred' = (barred \/ holds)
  /\ UNCHANGED <<sentientVars, task, resolved>> /\ NoRun

\* check_data_keys(): the keys of a program are not found in an object's bytes.
HasKeys(e) == e.content # "torn"

\* Runs on the data, even with shards missing.
Execute == computed' = IF HasKeys(entry') THEN entry'.hash ELSE NoHash

\* handle_program(), with the data that is there, or to be fetched first.
HandleProgram ==
  /\ IsIdle /\ ~entry.rejected
  /\ IF entry.valid THEN UNCHANGED <<entry, task>> /\ Execute
     ELSE task' = "run" /\ UNCHANGED entry /\ NoRun
  /\ UNCHANGED <<sentientVars, mail, resolved, barred>>

\* Whatever was submitted is given out.
BugServed == [i \in DOMAIN quarantine |->
                [name |-> quarantine[i].name, hash |-> quarantine[i].hash]]

\* What handle_data_get() looks in.
Served == data_names

\* The first request of fetch_and_cache(): the hash for the name.
Resolve ==
  /\ ~IsIdle /\ resolved = NoHash /\ TRUE \in Finds
  /\ \E i \in DOMAIN Served :
       Served[i].name = DataName /\ resolved' = Served[i].hash
  /\ UNCHANGED <<sentientVars, mail, entry, task, barred>> /\ NoRun

\* cache_store()
Stored(h, content) ==
  [hash |-> h, valid |-> TRUE, rejected |-> FALSE, content |-> content]

\* What comes of handle_get_object(): the connection may end before the object
\* does, which http_get() does not tell; then its bytes are kept as they are.
Download == {"whole", "torn"}

\* assemble_from_manifest(): a shard that cannot be had is left out.
Assembled(content) == IF content = "whole" THEN {"whole", "partial"} ELSE {content}

\* The second one: the object, looked for if it is not the one in the cache.
Fetch(content) ==
  /\ resolved # NoHash
  /\ entry' = IF entry.valid /\ entry.hash = resolved THEN entry
              ELSE Stored(resolved, content)
  /\ IF task = "run" THEN Execute ELSE NoRun
  /\ task' = "none" /\ resolved' = NoHash
  /\ UNCHANGED <<sentientVars, mail, barred>>

\* No sentient is found, or a request fails.
FetchFails ==
  /\ ~IsIdle
  /\ task' = "none" /\ resolved' = NoHash
  /\ UNCHANGED <<sentientVars, mail, entry, barred>> /\ NoRun

\* The worker starts again, with an empty cache.
RestartWorker ==
  /\ entry' = NoEntry /\ task' = "none" /\ resolved' = NoHash
  /\ barred' = FALSE /\ mail' = <<>>
  /\ UNCHANGED sentientVars /\ NoRun

\* What the sentient's HTTP server does for a request.
Serve == \/ \E h \in Hashes, n \in Names : Submit(h, n)
         \/ \E h \in Hashes : Approve(h)
         \/ \E h \in Hashes : Reject(h)

\* What the worker does with a message.
Handle == HandleReady \/ HandleStale \/ HandleReject \/ HandleProgram

Next == \/ Serve \/ RestartSentient
        \/ \E type \in {"ready", "stale"} : Announce(type)
        \/ Handle
        \/ Resolve
        \/ \E download \in Download : \E content \in Assembled(download) : Fetch(content)
        \/ FetchFails \/ RestartWorker

Spec == Init /\ [][Next]_vars

-----------------------------------------------------------------------------
(* Correctness *)

TypeOK ==
  /\ quarantine \in Seq(Submission) /\ Len(quarantine) <= MaxQuarantine
  /\ data_names \in Seq([name : Names, hash : Hashes])
  /\ chain \in Seq(Record) /\ started \in 0..Len(chain)
  /\ unlogged \in BOOLEAN /\ barred \in BOOLEAN
  /\ entry \in [hash : Hashes \union {NoHash}, valid : BOOLEAN, rejected : BOOLEAN,
                content : {"whole", "partial", "torn"}]
  /\ task \in {"none", "prefetch", "run"}
  /\ {resolved, computed} \subseteq Hashes \union {NoHash}

\* The records since the sentient started.
Since == SubSeq(chain, started + 1, Len(chain))

\* The first record of a submission of the data, or 0.
FirstRecord(records, h) ==
  SelectInSeq(records, LAMBDA r : r.type = "DATA_SUBMIT" /\ r.hash = h)

\* What the k-th of the records makes of the names.
Told(names, records, k) ==
  LET r == records[k]
  IN IF r.type = "DATA_APPROVE"
     THEN Register(names, records[FirstRecord(records, r.hash)].name, r.hash)
     ELSE names

\* The names that the records give, told from them alone, one after the other.
NamesOf(records) ==
  LET told[k \in 0..Len(records)] ==
        IF k = 0 THEN <<>> ELSE Told(told[k - 1], records, k)
  IN told[Len(records)]

\* The data pool is what the ledger says it is: who reads the records since the
\* sentient started, if they could all be written, knows every name it gives
\* out and the data under it (chain.h calls it the agent's record of provenance).
PoolOnRecord ==
  /\ TypeOK
  /\ ~unlogged => data_names = NamesOf(Since)

\* A worker runs programs only on data that was approved under the name it was
\* started for, whatever was submitted, rejected, fetched again or lost on the
\* way, and whoever restarted between its two requests.
ComputedWasApproved ==
  computed # NoHash => <<DataName, computed>> \in approved

\* When the data a worker holds was rejected, it runs no program until data is
\* announced again ("evicted and marked; not re-fetched", worker_agent.c:18):
\* no stale alert, program or failed fetch in between makes it fetch.
RejectedIsNotUsed ==
  [][barred => task' # "run" /\ computed' = NoHash]_vars
=============================================================================
