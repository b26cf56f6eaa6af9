# Verification of the NML collective

TLA+ models of the NML collective (the C code under `src/`), the TLC runs that
check them on small instances, and theorems about them checked by TLAPS.

The collective is a handful of single-threaded C programs ("roles") that share
nothing and meet through an MQTT broker and, for some, HTTP.  Programs are made
from a spec by an *architect*, published, signed by a *sentient*, executed by
*workers*, and their scores are tallied until a quorum commits; *enforcers*
quarantine agents by gossip; a *custodian* keeps data objects, an *oracle* judges
results, an *emissary* is the gateway for clients and a *herald* runs the broker
and its credentials.  What is hard about it is not the computing: it is messages
that come twice, late or never, tables of fixed size that are filled by agents
who come and go, restarts that lose what was only in memory, and several agents
deciding the same thing at once.

## 1. The system

| Component | Code | State | Operations | Module |
|---|---|---|---|---|
| peer table | `edge/peer_table.c` | `entries[64]`, `count` | upsert, get, quarantine, sweep, the "U" branch of the `MSG_ENFORCE` handlers | `PeerSlots`, `PeerTable` |
| vote table | `edge/vote.c` | `sessions[]` of votes, `committed`, `first_vote` | `vote_add`, `vote_expire`, `vote_get_result` | `VoteTable`, `Tally`, `Ballots` |
| sentient and worker, the consensus round | `roles/sentient`, `roles/worker` | tally, peer table, transport queue | handlers of PROGRAM, RESULT, ENFORCE, ANNOUNCE/HEARTBEAT; sweep; restart | `Consensus` |
| data quarantine and data cache | `roles/sentient`, `roles/worker` | submissions, data pool, chain records; the worker's cache entry and request | submit, approve, reject; *ready*, *stale*, *reject*; the two requests of a fetch; execution; restarts | `DataFlow` |
| enforcer, the gossip | `roles/enforcer` | threat table, peer table | quarantine, lift, blacklist, approve, `handle_enforce_msg`, `monitor_pass` | `Enforcement` |
| enforcer, the detectors | `roles/enforcer` | evidence log, rate ring, identity bindings, scores | `check_identity`, `check_rate`, `check_score_outlier` | `Detection` |
| oracle | `roles/oracle` | sessions, trust, assessments | `handle_result`, `oracle_assess`, eviction, cooldown, periodic specs | `Oracle` |
| architect | `roles/architect` | catalog, peer table | `handle_spec` with its retries, `catalog_add`, `POST /generate` | `Architect`, `Ring`, `Recent` |
| emissary | `roles/emissary` | rate table, results, webhooks | `rate_check`, `POST /spec`, `poll_oracle`, `webhook_fire` | `Emissary`, `Request` |
| herald | `roles/herald` | credential table, password and ACL files, child process | issue, revoke, expire, reload; start, death and restart of the broker | `Herald` |
| MQTT client | `edge/mqtt/mqtt.c` | send buffer and its queue, identifiers, errors | publish, subscribe, connect, disconnect, send, receive, retransmit, clean | `MqttClient` |
| MQTT transport | `edge/mqtt_transport.c` | ring of 16 slots, two cursors, a count, the connection | open, publish, `on_publish`, `mqtt_transport_sync`, `..._recv`, close | `MqttTransport`, `Inbox` |
| custodian | `roles/custodian` | registry `g_items[]`, sidecar files, ledger | ingest (whole or as shards with a manifest), approve, reject, serve, delete, restore at start | `Custodian` |
| object store | `edge/storage.c` | one file per content hash | put, exists, get | `Custodian` (what it uses) |
| ledger chain | `edge/chain.c`, `edge/ledger_http.c` | the record file, last hash, next id | open, append, verify, close | `Ledger` |
| edge worker, UDP | `edge/main.c`, `edge/udp.c` | as the worker, without data | as the worker's | not modelled |
| wire format, HTTP helpers, NML runtime, signatures, identity, templates | `edge/msg.c`, `edge/http_*.c`, `edge/nml_exec.c`, `edge/crypto.c`, ... | none | encode, parse, execute, sign | abstracted |
| dashboard, demos, tools | `dashboard/`, `demos/`, `tools/` | - | - | not modelled |

**How they interact.** Every agent has one thread and one loop: `mqtt_sync()`
(which calls `on_publish()` for every message received and acknowledges it), then
`recv` until the transport's ring is empty, then the periodic work (heartbeat,
sweep, expiry, monitor) and, where there is one, an HTTP server that handles one
request at a time.  So a handler is one atomic step of its agent, the
interleavings are those of *messages and requests between agents*, and the
transport's ring is the only queue inside an agent.  Agents connect without the
clean-session flag, at QoS 1: the broker keeps what an absent agent has not
acknowledged, may deliver a message again, and sends everything on `nml/#` to
everybody, the sender included (every handler drops its own messages).

**What makes each part correct.**

- *Peer table*: one answer per name, slots that never change owner, a peer in
  service unless it fell silent or was put out of service by name.
- *Vote table*: one session per program, one vote per agent, committed exactly
  at the quorum, frozen from then on, forgotten only when old.
- *Consensus*: no commit without a quorum of different workers that really
  published those scores; every decided tally is published by a sentient that still
  can; a session publishes one commit; enough results end in a commit.
- *Data*: the pool is what the ledger says it is; a worker computes only on data
  that was approved under its name, and not on what it knows to be rejected.
- *Enforcement*: no sentient in quarantine; no lift out of nothing; a quarantine
  spreads unless its message is lost, and a timed one ends.
- *Detection*: one agent per machine and one machine per agent; nobody is
  quarantined for what did not happen within the window; offenders are caught.
- *Oracle*: one session per program, assessed from the quorum on, at most once in
  a cooldown; the oldest session makes room; a score that is not finite spoils
  only those it was assessed with.
- *Architect and emissary*: the catalog is the list of the latest programs; the
  answers about it are true; no address exceeds its rate; a result is not sent to
  a webhook over and over.
- *Herald*: table, password file, ACL file and running broker agree as far as they
  ever do; what expires goes; the broker comes back.
- *Client and transport*: the send buffer stays in order, nothing published at
  QoS 1 is forgotten, and the ring is a first-in first-out queue, in which a bad
  message does not block the good ones behind it.
- *Ledger*: an agent that runs is at the end of a chain that verifies; what was
  acknowledged stays; rewriting and damage show, and are never covered up by
  later appends.  (A chain that ends in a torn record is refused as a whole: the
  code does not cut the torn record off.)
- *Custodian*: the registry in memory is what its files say; what is approved on
  disk or announced to the workers is on record in the ledger.

The hazards this leaves, each at its line of code, with the property that
watches it, are the list `hazards` of `PROJECT.json`.

## 2. The modules

| Module | What it is |
|---|---|
| `Scan` | the first index of a set: what a C loop that returns its first match finds |
| `PeerSlots` | `peer_table.c` as operators on a table value (no state): `PeerUpsert`, `PeerKnown`/`PeerSlotGot` (= `peer_get`), `PeerQuarantine`, `PeerLift`, `PeerSweep` |
| `PeerTable` | one agent's table driven by those operators: `Heartbeat`, `Enforce`, `Lift`, `Sweep`, `PeerTick` |
| `VoteTable` | one agent's vote table as the array it is. `VoteAdd` is `vote_add()` with its return code in the ghost `reply`; `ExpireStart`, `ExpireSwap`, `ExpireKeep`, `ExpireEnd` are the iterations of the loop of `vote_expire()`, which overwrites an expired session with the last one and looks at the same index again |
| `Tally` | what the vote table promises, as operators on "a ballot per program" |
| `Ballots` | the specification made of `Tally`'s operators: `Cast`, `Forget`, `Tick`. `VoteTable` implements it |
| `Consensus` | clients, sentients and workers with their queues, the sentients' tallies (as `Tally`), everybody's peer table (as `PeerSlots`), overflow (`Lose`), redelivery, clients that fail (`CutOff`), restarts |
| `Enforcement` | several enforcers, their threat and peer tables, and the gossip between them, which a full ring (`Lose`), a client that fails (`CutOff`) or a restart loses |
| `Detection` | one enforcer's evidence, rate ring, score samples and bindings, fed by announcements, heartbeats, programs and results: `Announce`, `Heartbeat`, `HeartbeatOfFellow`, `Program`, `Result`, `Remote` (a quarantine heard of), `Lift`, `DetectionTick`. The ghost `offences` counts what really happened, by age |
| `Oracle` | `HandleResult` (session, vote, assessment with weights, outliers and trust), `MaybePublishSpec`, `OracleTick`. A mean is only whether it is finite, infinite or no number; outliers are computed exactly, on integer scores, by comparing squares |
| `Ring` | the overwritten array that the architect's catalog and the emissary's results are |
| `Recent` | what such an array promises: the last entries, oldest first. The catalog implements it |
| `Architect` | `HearSpec` and `Generate`: template, model with retries and validation, submission, catalog, answer |
| `Emissary` | `Admit` (= `rate_check`), `PostSpec`, `PostWebhook`, `DeleteWebhook`, `Poll` and `Ask` (the oracle's listing, then one request per program), `Attempt`/`SkipHook`/`Fired` (= `webhook_fire`), `HearEnforce`, `Restart` |
| `Request` | the two of them with the topic `nml/spec` in between, which repeats and loses |
| `Herald` | `Issue`, `PasswdFails`, `Revoke`, the loop `Serve` - `StartBroker`/`ForkFails`/`TooEarly`/`GiveUp`/`IsUp` - `ExpireCheck`, after the last round of which the process ends (`End`), and what happens to it: `BrokerDies`, `OrphanDies`, `Stop`, `Die`, `Start`, `Tick` |
| `MqttClient` | `mqtt.c` as operators on a client record: `Publish`, `Subscribe`, `Connect`, `Disconnect`, `Receive`, `Send`, `Clean` |
| `MqttTransport` | an agent's use of the client, its receive ring slot by slot, and a broker: `Open`, `Reopen`, `PublishMessage`, `Sync`, `SyncFails`, `Recv`, `RecvTooLong`, `Close`, `Offer`, `Break`, `TransportTick` |
| `Inbox` | a bounded first-in first-out queue that drops what it has no room for. `MqttTransport` implements it |
| `Ledger` | one agent's chain file and its `Chain`: `Create`/`Open` (`chain_open`), `AppendRecord`, `AppendFails` and `DieAppending` (`chain_append` that returns 0, returns -1, never returns), `Verify` (`GET /ledger/verify`), `Stop` |
| `Custodian` | the registry, the object and sidecar files and the ledger's records. Each handler (`IngestSingle`, `IngestManifest`, `Approve`, `Reject`, `Serve`, `Delete`) leaves in `todo` the steps it takes, in the code's order; `PutStep` (`storage_put()`), `AddStep` (`item_add()`), `MarkStep` (a status, in memory and its sidecar), `SaveStep` (`meta_write()`), `NoteStep` (`chain_append()`), `ReadyStep` (`nml/data/ready`), `UnlinkStep` and `ClearStep` (`DELETE`) take the next one, `Crash` and `CrashWriting` stop between or in them, `Restore` is `chain_open()` and `scan_and_restore()` |
| `DataFlow` | a sentient's `Submit`, `Approve`, `Reject`, `RestartSentient`, a custodian's `Announce`, and a worker's `HandleReady`, `HandleStale`, `HandleReject`, `HandleProgram`, `Resolve` (the name), `Fetch` and `FetchFails` (the object), `RestartWorker` |
| `ScanProofs`, `TableProofs`, `ConsensusProofs`, `DataFlowProofs`, `MessagingProofs`, `AgentProofs`, `RecordProofs`, `RequestProofs` | the theorems |
| `MC...` | finite values, scopes and symmetry sets for the runs |

Composition: `PeerSlots` is used by `PeerTable`, `Consensus` and `Enforcement`
(each agent has a table of its own); `Tally` by `Ballots` and `Consensus`; `Ring`
by `Detection`, `Architect` and `Emissary`; `Architect` and `Emissary` by
`Request`; `MqttClient` by `MqttTransport`.  `VoteTable`'s run shows that the
array keeps `Tally`'s promises, so `Consensus` may use the promises in place of
the array.

Operators whose name starts with `Bug` are deliberate faults: no specification
uses them.  Each stands in front of the definition it would replace, and one of
them breaks each property that the runs check.

**Choices that shape the models.**

- *Queues.* In `Consensus` and `Enforcement`, `pending[x]` is a set: what was
  published and `x` has not yet handled, in no order.  That covers a broker that
  delivers messages of different senders in different orders to different
  agents, and late retries.  A redelivery leaves a handled message in the set.
- *Restart.* No role writes its tables to disk, so `Restart` empties them.  What
  waited in the agent's own ring was acknowledged and is lost; what the broker
  holds is not.  `Consensus` and `Enforcement` therefore lose any part of
  `pending[x]` that fits in the ring (`QueueSize` slots).
- *Loss.* `on_publish()` drops what finds the ring full, and the client acknowledges
  it all the same (`mqtt_transport.c:30`): `Lose`.  No caller looks at what
  `mqtt_transport_publish()` returns.  It fails when the link is broken or the send
  buffer full, and the client keeps that error: the agent publishes nothing any more
  (`cut`).  `CutOff` is that error.  With it goes what the client had not sent
  yet: in `Enforcement` any of the agent's messages that nobody has handled
  (`StillToSend`), in `Consensus` nothing but what it would publish from then on,
  because there messages that were published promise nothing.  A sentient leaves its
  loop on it and may be started again; workers and enforcers go on, deaf and mute,
  with their timers.
- *Time.* Where the code compares two times, the model has a clock that `MaxTime`
  bounds, or keeps ages that stop one beyond the longest period asked for
  (`Detection`, `Herald`, `MqttClient`).  Time passes only between two handlers.
- *The worker's guard.* `Refuses` is the code's guard against quarantined
  senders, which asks `peer_get()`; `peer_get()` never returns a slot that is
  quarantined (theorem `KnownNeverQuarantined`), so the guard never fires.
- *The governance votes* of sentient and architect are published with `MSG_VOTE`,
  for which `mqtt_transport_publish()` has no topic and refuses: they change
  nothing, and are no action.
- *Enforcement.* The targets are not enforcers themselves (each ignores what
  concerns itself).  Detectors and operators both end in `do_quarantine()`, and
  are one action.  `"W"` (warning) is only printed.  The ghost `missed` has the targets
  of the quarantines that were lost on their way to an enforcer, one by one, so that
  `QuarantineSpreads` excuses those and no others.  `Approve` is the `--approve`
  option, before the enforcer's loop has heard of anything.
- *Detection.* What another enforcer publishes and what an operator does is
  `Remote` and `Lift` here; `Enforcement` has them in full.
- *Oracle.* Sample counts and thresholds enter as integers (`TwiceZSquared` is
  twice the square of the z-score threshold); where a z-score is just at the
  threshold, the flag may fall either way (`AtThreshold`).  `sscanf("%f")` reads
  `nan`, `inf` and `-inf` too, so a score is an integer or one of these.  Of a sum,
  and its mean, `Sums` says which kind it may be: no number where the scores clash
  (`Clash`), infinite with an infinite score, or any of these when finite scores
  beyond `Exact` overflow on the way.
- *Request.* All keywords of a template are one intent; whether a model's answer
  passes the dry run is a property of the answer (`Valid`).
- *Transport.* A message longer than the agent's buffer can only arrive in a
  build that lowers `NML_MAX_PROGRAM_LEN`; with the default sizes the client's
  4096-byte buffer is smaller than every role's, and a longer message breaks the
  connection.  Nothing sets the client's reconnect callback: a broken connection
  stays broken, and every role but the sentient goes on without it.
- *Ledger.*  `chain_open()` makes a new file, which truncates the old one, whenever
  `fopen("rb+")` fails, for whatever reason (`chain.c:177-202`): `Create` and
  `CreateFails` may come when there is a file already.  `acked` is about the present
  file.  A digest is eight bytes of a SHA-256 and can collide: `Digest` is a
  constant of which the proofs assume nothing but its type; the run gives it one
  without collisions.  A write that stops half way
  leaves nothing of the record, all of it, or a torn one.  The entry holds type,
  payload and timestamp.
- *Custodian.*  The custodian has one thread, so what can come between two steps
  of a handler is a crash and nothing else.  Writes that fail while it goes on are
  `Ledger`'s subject and not repeated here.  A torn manifest lists some of its
  shards or none.  The directory order in which items are restored is any order.
  Only hashes matter of the contents.
- *DataFlow.*  The worker's cache has one entry in use, because a worker only
  fetches the data it was started for.  The two requests of a fetch, for the name
  and for the object, are two steps, and the sentient's handlers come in between.
  `Finds` is both booleans, though through MQTT a worker finds no sentient (see
  Divergences): the properties hold either way.

## 3. The runs

Each run checks the module's type invariant with its first invariant.

| Run | What it asks | Bounds, and why they are enough |
|---|---|---|
| `MCPeerTable` | whatever the order of heartbeats, enforcements, lifts and sweeps: one active slot per name, never active and quarantined (`TableInv`), and a fresh peer leaves service only by an enforcement against it (`FreshPeersStay`) | two names for three slots: a name that is swept and returns twice fills the table |
| `MCVoteTable` | one session per program, committed exactly at the quorum, none too old passed over (`VotesSound`); the return codes of `vote_add()` tell the truth (`RepliesHold`); the array implements `Ballots` (`ImplementsBallots`) | three programs for two sessions, three agents for a quorum of two: full table, late voter and late duplicate occur; the clock passes `MaxAge`, so sessions expire and reopen |
| `MCConsensus` | what is in the network, in a tally and in a commit was published by its worker (`BackedInv`); a session publishes one commit (`SessionCommitsOnce`); results of a quorum end in one (`EnoughIsCommitted`) | two workers, two scores (a worker may answer twice, differently), redelivery, a ring of two slots that overflows, and one of: an expiry, a restart, an agent that can publish no more (`MaxFailures` counts both). Heartbeats and enforcements change only the peer tables, which nothing else reads to any effect (`InScope`): they are explored until something is executed |
| `MCEnforcement` | `GossipIsSound` (no sentient quarantined or blacklisted, no lift without a cause), `QuarantineSpreads`, `QuarantineEnds` | two enforcers, one of them operated, one ordinary target and one sentient, one threat slot, redelivery, one slot left in the ring (which overflows with the second message), one failure, which is a restart or a client that fails, permanent and timed quarantines. One tick is as long as every timer. That the only slot is taken by another target would need two ordinary ones, which is more than the run can hold: the theorem covers it |
| `MCDetection` | `BindingsOneToOne`, `QuarantinesAreBacked`, `OffendersAreCaught` | three agents on three machines with room for two bindings and one threat; a rate ring of two and bursts of two, an evidence log of three and thresholds of two, so that both rings wrap and the log overflows. Bindings, rates and scores share nothing but the quarantine and are taken through their states in turn (`OneAtATime`) |
| `MCOracle` | `SessionsAreSound` (one session per program, assessed exactly from the quorum on: `SessionsInOrder`; few of its votes are outliers: `OutliersAreFew`), `NaNStaysInItsSession`, `OldestEvicted`, `CooldownHolds` | three programs for two sessions; a voter whose score for one of them is nan or infinite, one so low there that it may cancel the infinity, one that may disagree; `Exact` is below that low score, so that sums overflow; `TwiceZSquared` is three, so that one of three may be an outlier; the clock passes the cooldown |
| `MCRequest` | `AnswersTrue`, `RateHolds`, `CopiesAreFew`; the catalog implements `Recent` (`ImplementsRecent`) | three addresses on two rate slots, three programs on two result slots, two webhooks of which one answers promptly and two attempts (the code has three: one is a first, one a repetition), a catalog of two with intents that have a template, a broken one and none. The parts share nothing but the specs under way and are taken in turn (`OneAtATime`) |
| `MCHerald` | `CredentialsAgree`, `ExpiredIsRevoked`, `BrokerComesBack` | four names, two of which look the same to `cred_find()`, for two records; two restarts of the broker before the herald gives up; the herald itself is stopped, killed and started without limit, leaving an orphaned broker behind |
| `MCMqttTransport` | `BufferIsSound`, `NothingIsForgotten`, `PromptIsClean`, `NothingIsStuck`; the ring implements `Inbox` (`ImplementsInbox`) | a send buffer of three packets, three publications, a socket that takes packets whole or in part, late answers; two slots for four messages, one too long for the agent and one for the client; eight identifiers, which is more than packets fit (`PidsAssumption`) and enough for those of the run (`NothingGetsLost`, section 4); the connection may break at any point. A client or a connection that has failed stays so (`Bounded`) |
| `MCLedger` | the agent is at the end of a chain that verifies unless one of its own appends failed (`ChainInv`), `AckedAreKept`, `RewriteIsFound`, `DamageIsPermanent` | five records, two entries besides the join; failures, crashes, restarts and files that are started over, without limit |
| `MCCustodian` | `RegistryOnDisk`, `OnRecord` (what is approved on disk or announced is in the ledger), `ApprovedOnce` | one single object and a manifest of two shards, one of which also comes in as a single object; three slots for four hashes, so that the pool fills and rejected slots are reused; three decisions, one crash at any step |
| `MCDataFlow` | `PoolOnRecord`, `ComputedWasApproved`, `RejectedIsNotUsed` | two data sets under two names for a pool of one name, three submissions, five records, one announcement under way at a time, restarts of both sides without limit; runs end when the disk is full (`Bounded`); the two data sets are interchangeable |

Where the system may stop for good (everything is delivered, a chain no longer
verifies, the herald has given up, a bound is reached), deadlock is not checked;
it is in `MCPeerTable`, `MCVoteTable`, `MCConsensus` and `MCEnforcement`.

Every property is broken by at least one deliberate fault (`mutants` of
`PROJECT.json`), under that run's own bounds.

**Fairness.**

- `Consensus!FairSpec`: a sentient's loop keeps taking results off its queue, and
  the queue does not lose the same result for ever, however often it is published
  again; hence strong fairness of handling each result, and nothing else.
- `Enforcement!FairSpec`: an enforcer whose client works does not leave the
  quarantines it is sent unhandled, each being acknowledged in the end, but they may
  be lost first (`Lose`, `Restart`); every enforcer runs its monitor when it is due,
  and the clock ticks.
- `Herald!FairSpec`: the loop goes round (its `select()` has a timeout), time
  passes, and `fork()` does not fail for ever (strong fairness of `StartBroker`).
- `MqttTransport!TransportFairSpec`: the agent's loop calls `mqtt_transport_sync()`, which
  takes in what is on the way and sends what is due, and `recv`.  The first is
  written out as weak fairness with `CanSync` in place of `ENABLED`.

Each is what the `for (;;)` loops of the roles do on every pass, unconditionally.
Clients, operators, detectors, the network's losses, restarts and sweeps are never
assumed to happen.

## 4. The proofs

All theorems hold for every value of the constants that satisfies the named
assumptions (`MaxPeersAssumption`, `QuorumAssumption`, `CapacityAssumption`,
`NamesAssumption`, `EnforcementAssumption`, `RingAssumption`, `DetectionAssumption`,
`PidsAssumption`, ...): the capacities are positive, the quorum is a natural number,
the sentients and the workers are different agents, the client has more packet
identifiers than packets fit into its buffer (with fewer, the code's search for one
that is free would not end).  Only `NothingGetsLost` has a hypothesis of its own.  Where the invariant that is proved inductive says something by
itself, it is also what the run checks (`TableInv`, `VotesSound`, `BackedInv`,
`ChainInv`).

- **`ScanProofs`**, what the others rest on.  The library's induction theorems take
  an operator as a parameter; here induction is over *sets*: of numbers
  (`AllOfNat`, `AllUpTo`) and of finite sets (`PickInduction`), so that it can be
  cited.  From it follow what a sum over a finite set is (`SumExists`, `AnyPart`,
  `SameSum`), that few parts of a sum are large (`LargePartsAreFew`), and that a
  fold along a sequence is the last of a sequence of intermediate values, each made
  from the one before (`FoldExists`, `TraceOf`).  With that an invariant of a loop is
  proved like an invariant of a state machine.
- **`TableProofs`**, the peer table: `PeersInvariant`, `OneActiveSlotPerName`,
  `KnownNeverQuarantined`, `SlotsNeverRenamed`, `FreshPeersAreKept`.  `TableInv` is
  well-typedness, one active slot per name and never both marks together:
  `peer_upsert()` appends only when `peer_get()` found no active slot, which is what
  keeps the second part true.  The first half of the module proves what each
  function preserves; `ScanProofs` that `First` picks a member of its set.
- **`TableProofs`**, the vote table: `VotesAreSound`, `OneSessionPerProgram`,
  `CommitsAtQuorum`, `ExpireMissesNone`, `ExpireEnds`, `RepliesAreTrue`,
  `TableRefines`.  The code counts array entries while the property counts *agents*;
  the invariant therefore carries, for each session, that its voters are finitely
  many, as many as its votes, and that it is committed exactly when it has `Quorum`
  votes (`SessionOK`).  For the swap in `vote_expire()`, `ScannedAreYoung` is
  inductive only because the moved session lands at the index that is looked at
  next.  `RepliesInv` adds to the invariant that while the
  table is being expired there is no return code to be true.  `TableRefines` is the refinement of `Ballots`
  proved in full: `BoxOf` reads the array as a ballot per program, one lemma per
  step says which step of `Ballots`, or stutter, it is.
- **`ConsensusProofs`** - `BackedInvariant`, `CommitsBacked`, `DecidedPublished`,
  `SessionCommits`.  `BackedInv` adds to the properties that every result on its
  way was published by its worker (`PendingBacked`) and that every vote counted in
  a tally is such a result, with a quorum of them once decided (`TalliesOK`): a
  commit copies the tally, so it is backed when the tally is.  Restart, expiry and
  overflow only remove; redelivery brings back only what was published; and what a
  sentient that is cut off decides, it need not have published.
- **`MessagingProofs`**, the gossip: `GossipStaysSound`.  `GossipInv` says of each enforcer
  that its threat table is typed, has at most `MaxThreats` slots in use (finitely
  many, which counting needs) and marks no sentient (`ThreatsOK`), and the same of
  its peer table (`PeersOK`); and of every lift on its way that its target was
  freed somewhere before, which a loss does not change (`Vanish` only removes).  The
  type of what only the liveness properties read is `RemainderOK`.  One lemma per table operation shows that it keeps the
  two; `do_quarantine()` and `do_unquarantine()`, which all handlers end in, then
  have one lemma each.
- **`RecordProofs`**, the chain: `Invariance`, `StaysInStep`, `KeepsAcked`,
  `FindsRewriting`, `StaysDamaged`.  For any entries, any digest function and any
  length.  A prefix of a chain that verifies verifies (`PrefixVerifies`), which
  makes damage permanent, and an append by a `Chain` in step verifies
  (`AppendVerifies`).  The inductive invariant `ChainInv` adds to well-typedness
  and `InStep` that the id is never ahead of the file, even after a failed append
  (`Behind`), that nothing is acknowledged, and nothing in the file, before the
  file is made, and that an acknowledged record is somewhere in the file
  (`AckedInFile`): where is then told by its id, when the chain verifies.
  A file that is started over begins all this anew, and `StaysDamaged` excepts it.
  `FindsRewriting` compares digests through the next record's
  `prev_hash`, so it says nothing of the last record, which the code does not
  protect either.
- **`RecordProofs`**, the custodian: `RegistryIsOnDisk`, `EverythingOnRecord`,
  `ApprovedAtMostOnce`.  Any objects, manifests, number of slots and crashes; it is
  assumed that there are finitely many hashes and that a manifest is neither a shard
  nor a single object (`HashesAssumption`, `PartsAssumption`).  In the middle of a
  handler the three say little: memory is ahead of the files, the files of the
  ledger or the ledger of the files.  `CustodianInv` therefore ties each gap to a
  step that is still in `todo`: an item whose sidecar says something else is about
  to be saved or cleared (`OnFile`), an approved one that the ledger does not vouch
  for is about to be recorded (`ItemsVouched`), one that may be approved again has
  been named in the ledger since its last approval or is about to be (`OnceOpen`).
  `Plan` says what may be left of an ingestion, an approval, a rejection and a
  deletion, and `Sorted` in which order: a handler that ends early, with the pool
  full, or dies leaves no promise behind, because what it promised comes after what
  it failed at.  That shards vouch only as long as nothing has crashed (`Trusted`)
  is the code's: their sidecars are written before the record, by `on_approved()`.
- **`RequestProofs`** - `CatalogHolds`, `CatalogRecords`, `AnswersHold`,
  `CatalogRefines`, `RateIsLimited`, `CopiesAreBounded`.  Its first part shows for
  any capacity that an addition keeps a ring a ring (`RingAddType`), that read in
  order it is the old list less its oldest entry and with the new one at the end
  (`RingAddInOrder`), and that the newest is where the code looks for it
  (`RingNewest`).  With that, each step of the composition adds at most the program
  it announces, which is a step of `Recent`: `CatalogRefines` proves the whole
  refinement.  `RateIsLimited` rests on an address having one slot at most and on
  the slot's count being at least what was let through.  `CopiesAreBounded` needs
  `TurnsHold`: of the result being sent, the hook whose turn it is has had one copy
  less than the attempt under way, and the hooks after it none.
- **`DataFlowProofs`** - `PoolIsOnRecord`, `ApprovedIsComputed`,
  `RejectedIsLeftAlone`.  `DataInv` says that a name in the pool leads to data
  that was approved under it (`NamedWasApproved`), that what the worker was told of,
  has cached and ran on was too (`WorkerOK`), and, as long as no record was lost,
  that the submissions and the records agree on the first submission of each object
  and that the pool is accounted for by the records (`ChainOK`).  A restart reads
  the records again: `Tells` says that a function tells the pool after each of them,
  and two such functions are the same, by the first record at which they would
  differ (`OneAccount`), so the pool that is read back is the one that was there.
- **`AgentProofs`**, the herald: `CredentialsStayInStep`.  `CredInv` adds to the property that
  each record is kept under what `cred_find()` sees of its own name (`Keyed`), so
  that no two records have one name and a deleted login is no other record's; and
  that the ACL file is that of the records while the herald runs, which is what a
  starting broker then loads.  The proof found that an earlier model let a herald
  that gave up keep its records into the next start; in the code it leaves the loop
  after that round, and the process and its memory end (`End`).
- **`AgentProofs`**, the enforcer's detectors: `BindingsStayOneToOne`, for any sizes
  of the arrays and any thresholds.  `DetectionInv` says that the bindings are
  finitely many and one to one (`BoundOK`), that a slot is taken only when there is
  one, and that no slot's rate ring or evidence log outgrows its array
  (`ThreatsOK`).  Each check that a message goes through has a lemma, because
  `check_rate()` and `check_score_outlier()` work on the slot that the one before
  has left.
- **`AgentProofs`**, what the detectors count: `QuarantinesStayBacked`,
  `OffendersGetCaught`, for any sizes of ring and log, any windows and thresholds.
  The two compare what an array of fixed size holds with what really happened (the
  ghosts `sent` and `offences`, by age).  The inductive invariant `CountsOK` does so
  for each age `w`: what the ring holds that is not older than `w` is what was
  sent within `w`, or, if that is more than fits, a full ring; the log invents nothing, and
  forgets nothing before it is full (`RingCounts`, `LogCounts`).  It holds because the
  ring is ordered by age from its cursor on (`Ordered`): what is overwritten is the
  oldest, so a ring that is larger than the allowed rate never forgets what matters.
  TLC checked `CountsOK` over the run's states first.
- **`AgentProofs`**, the oracle: `SessionsStaySound`,
  `NaNIsContained`, `EvictsTheOldest`, `CooldownIsKept`, for any scores and any
  number of voters, programs and sessions.  `OracleInv` ties three tables together.  Of a session it
  says that its mean is no number only where the scores it is over clash
  (`SessionOK`), which holds although the weights may be none themselves: the
  fall-back to the raw mean is what `MeanIsTrue` is about; and a clash stays when
  votes come in (`ClashStays`).  Of the trust it says that who has lost it was
  assessed with such a score (`Harmed`), and
  that a tainted voter without a slot has found the table full, and that it stays
  full (`TrustOK`): otherwise the voter could come back later, trusted.  Of what
  subscribers were told it says that it is about the assessed sessions and has their
  times (`PublishedOK`), so that the cooldown between two publications is that
  between two assessments.  `EvictedFacts` is what `oracle_get_or_create()` does to
  the array, the last session taking the place of the oldest; `ResultFacts` sums up
  a whole `handle_result()` for the two action properties.  `SessionsStaySound` is the
  whole of what the run checks: that few of `n` votes are outliers, by an induction
  along the sum of squares that the z-scores are made of, for any integer scores
  (`LargePartsAreFew`), and that nobody is among so few that no score can be far
  enough from the rest (`NobodyAmongFew`): the deviations add up to nothing, so the
  square of one is at most `n - 1` times the sum of the others' squares
  (`CauchySchwarz`, `FarthestOne` in `ScanProofs`).
- **`MessagingProofs`**, the client's buffer: `BufferStaysSound`.  `TransportOK` says
  that the packets of the queue lie one behind the other from the start of the memory
  (`Packed`), that their end is where the next is put, and that this end and the
  headers that grow towards it fit (`Fits`).  Each operation of `mqtt.c` is shown to keep
  it: packing a packet, what `mqtt_mq_clean()` leaves when it moves the rest to the
  front, and the loops that receive and send, by their traces (`HandlesAll`,
  `SendsThrough`).
- **`MessagingProofs`**, the ring: `RingIsInbox`, the refinement of `Inbox` in full:
  what lies from the cursor `queue_tail` on, `queue_count` slots round the array, is
  the queue; a message that is received goes to its end or, when it is full, nowhere;
  every other step is a stutter.
- **`MessagingProofs`**, what is published: `NothingGetsLost`.  `Remembers` says of
  each message accepted with QoS 1 that the broker has it or a packet with its number
  is in the queue and not complete (`Held`); that two packets with one identifier are
  one message; and that an identifier that is acknowledged is of a message that the
  broker has, or of none in the queue (`PacketKept`).  This
  needs the theorem's hypothesis: identifiers do not come round, that is, there are
  `MaxPublishes` of them and one more above all that the broker or old memory uses.
  Without it a late answer for an old packet would complete a new one with the same
  identifier: with 16 bits that takes 65535 identifiers between a packet and its
  answer, but nothing in the code excludes it.  The run's constants satisfy the
  hypothesis.
- **`MessagingProofs`**, when no answer is late: `PromptStaysClean`, without that
  hypothesis.  `IsClear` says that what is not sent lies behind all else in the queue,
  and only the first of it has been written in part (`InOrder`); that no two packets
  wait for the same answer (`IsTelling`); that the broker has only messages that were
  published before those not yet sent (`IsAhead`); and that the answers on the way are
  for different packets, each of which waits for one (`Matched`).  Where the queue is
  cleaned, what moves to the front is the same packets in the same order
  (`Shifted`); a packet that is complete is waited for by nobody.  TLC checked
  `IsClear` over the run's states first.

Model-checked only:

- liveness (`EnoughIsCommitted`, `QuarantineSpreads`, `QuarantineEnds`,
  `ExpiredIsRevoked`, `BrokerComesBack`, `NothingIsStuck`), which is out of the
  prover's reach, as `ENABLED` is;
- nothing else: every safety invariant, action property and refinement that a run
  checks is stated by a theorem.

## 5. Where code and documents part

The models follow the code.  Where a comment or a document says otherwise, the
reader of the properties should know:

- A worker executes a program as the client sent it and again as a sentient signed
  it (`Execute`; `worker_agent.c:866`), while `docs/ARCHITECTURE.md:153` has a hash
  once seen never executed again.  `Consensus` therefore has one vote per worker
  and program, not one execution.
- The worker's guard against quarantined senders (`worker_agent.c:935`, which logs
  "IGNORED program from quarantined peer"; `docs/ROLES.md:100`) never fires: see
  `KnownNeverQuarantined`.
- A blacklisting is to be permanent (`enforcer_agent.c:12`, `:760`, `:794`).  On an
  agent that is in timed quarantine already, `do_quarantine()` returns early
  (`:309`) and the timer stays: the agent is freed when it runs out, at the very
  enforcer that blacklisted it, and stays marked `blacklisted`, which nothing reads
  but the listing.  On any other agent it is permanent there; but other enforcers hear
  of a quarantine, take their own timer (`:514`), and their lift, when it runs out,
  frees the agent everywhere.  `QuarantineEnds` leaves blacklisted agents out.
- Quarantines and blacklistings (`broadcast_enforce()`,
  `enforcer_agent.c:272-278`), commits (`commit_result()`, `sentient_agent.c:189`) and
  other publications are taken for made whatever `mqtt_transport_publish()`
  answers; and a message that comes in when the ring is full is acknowledged and
  dropped (`mqtt_transport.c:30`), though QoS 1 is asked for that it be delivered.
  `QuarantineSpreads`, `EnoughIsCommitted` and `DecidedIsPublished` except just that.
- "Expire oracle sessions after 5 minutes" (`oracle_agent.c:56`): only the mirror
  table `g_votes` is expired (`:1067`), which nothing reads; an oracle session goes
  when another needs its place, and not before (`OldestEvicted`).
- "Fresh chain" (`chain.c:201`): `chain_open()` comes there after any failure to open
  the file for update, and truncates what was in it.  `AckedAreKept` and
  `DamageIsPermanent` are about the time between two such starts.
- A rejected object is not to be served (`custodian_agent.c:390`,
  `docs/ROLE_CUSTODIAN.md:44,53`).  When the pool is full its slot goes to the next
  object, its file stays, unknown now, and unknown objects are served (`Serve`).
  `OnRecord` is about what is served *as approved*.
- A worker fetches data when it is first needed (`worker_agent.c:16-18`), from a
  sentient that `find_sentient()` (`:414`) looks for by its address, which the MQTT
  transport leaves empty (`mqtt_transport.c:285`, `:312`): through MQTT it finds
  none.  `DataFlow` lets both happen (`Finds`).
- The transport connects without credentials (`mqtt_transport.c:150`), while the
  herald makes a login for each agent.
- `POST /generate` tells success from the growth of the catalog, or from its being
  full (`architect_agent.c:763`): with a full catalog a failed generation is
  answered with an older program.  `AnswersTrue` says what does hold.
- A send buffer without room for a packet puts the client into an error that
  nothing clears (`mqtt.c:225`): `Bounded` ends there, `NothingIsStuck` excepts it.
- `POST /spec` answers "queued" though the publication may have failed
  (`emissary_agent.c:765`); a deleted webhook's slot is never used again (`:809`).
- A sentient's list of submissions is never shortened: when it is full, it takes no
  more (`sentient_agent.c:373`).
- Of `n` samples, no z-score exceeds the square root of n-1, the deviation being that
  of the population: with the threshold of 2.5 nothing can be an outlier among
  fewer than eight, though five are asked for (`enforcer_agent.c:460`), and with the
  oracle's of 2 nothing among four (`OutliersAreFew`), whatever the quorum.
  `Detection` and `MCOracle` take smaller thresholds.

## 6. Left out

- The edge worker (`edge/main.c`) is the worker's loop without data, and
  `edge/udp.c` a socket wrapper: nothing that `Consensus` does not have.
- Packet encoding, HTTP parsing, JSON, prompts and the herald's status pages are
  conversions and displays without state of their own.
- The NML runtime, signatures, templates and identities are pure functions; a
  result is any score, an answer of a model any program.
- QoS 2, unsubscribing and the reconnect callback of the MQTT client are not used
  by any role.
- Data streamed in parts and the ranking of data keys by cosine (worker), the
  staleness alerts and failing writes of the custodian.
- The browser pages, the demos and the tools.

What is not proved is liveness.  What is not watched by a property is among the
hazards of `PROJECT.json`, each with its reason.
