----------------------------- MODULE Custodian -----------------------------
(***************************************************************************)
(* The custodian's data registry, roles/custodian/custodian_agent.c, with  *)
(* the object store it writes to (edge/storage.c).  An object is a file; a *)
(* sidecar .meta file keeps its status; decisions are recorded in the      *)
(* ledger (module Ledger); the registry g_items[] is rebuilt from the      *)
(* sidecars at start.  Data too large for one object is cut into shards and*)
(* a manifest that lists them, and the manifest is what gets approved.     *)
(*                                                                         *)
(* One thread runs the handlers, so nothing comes between the steps of one *)
(* but a crash.  A handler leaves in todo, in the order of the code, the   *)
(* steps it takes; each changes one file, the ledger or the network, and   *)
(* what g_items[] says of it; until all are done, the only other step is a *)
(* crash.                                                                  *)
(*                                                                         *)
(* Abstracted: contents (a hash stands for them), names, sizes, times; the *)
(* POST to the sentient, whose answer is ignored; reads that change        *)
(* nothing; the staleness alerts, which only set a time in memory; writes  *)
(* that fail while the process goes on, for which see Ledger.              *)
(***************************************************************************)
EXTENDS Naturals, Sequences, FiniteSets, SequencesExt, Scan

CONSTANTS
  Singles,     \* hashes of the objects ingested whole
  Shards,      \* hashes of the objects cut from larger data
  Manifests,   \* hashes of the manifests
  Parts,       \* the shards a manifest lists
  Slots,       \* MAX_DATA_ITEMS
  MaxLog, MaxCrashes  \* bounds, for model checking only

Objects == Singles \cup Shards \cup Manifests

\* A hash has 64 hexadecimal digits.
ASSUME HashesAssumption == IsFiniteSet(Objects)
ASSUME SlotsAssumption == Slots \in Nat \ {0}
ASSUME PartsAssumption ==
  /\ Parts \in [Manifests -> Seq(Shards)]
  /\ Manifests \cap (Singles \cup Shards) = {}
ASSUME BoundsAssumption == MaxLog \in Nat /\ MaxCrashes \in Nat

VARIABLES
  up,         \* the process runs
  items,      \* g_items[0 .. g_item_count)
  todo,       \* the steps the running handler has still to take
  obj, meta,  \* the object and sidecar files
  log, torn,  \* the ledger's records, and whether its last one is torn
  announced,  \* ghost: how often nml/data/ready named each object
  crashes     \* ghost: counts the crashes

disk == <<obj, meta, log, torn>>
custodianVars == <<up, items, todo, disk, announced, crashes>>

Status == {"pending", "approved", "rejected", "shard"}
Decision == {"submit", "approve", "reject"}

Item(h, s) == [hash |-> h, status |-> s]
LogRecord(t, h) == [type |-> t, hash |-> h]

(* The steps of the handlers. *)

Op(op, h, v) == [op |-> op, hash |-> h, val |-> v]

Put(h, s) == Op("put", h, s)        \* storage_put(), and then item_add()
Add(h, s) == Op("add", h, s)
Mark(h, s) == Op("mark", h, s)      \* a status, in memory and its sidecar
Save(h, s) == Op("save", h, s)      \* meta_write() of the status in memory
Note(t, h) == Op("note", h, t)      \* chain_append()
Ready(h) == Op("ready", h, "sent")  \* nml/data/ready
Unlink(h) == Op("unlink", h, "absent")  \* of the object, and then the sidecar
Clear(h) == Op("clear", h, "absent")

(* The registry. *)

Known(reg, h) == \E i \in DOMAIN reg : reg[i].hash = h
Has(reg, h, statuses) ==
  \E i \in DOMAIN reg : reg[i].hash = h /\ reg[i].status \in statuses

WithStatus(reg, h, s) ==
  [i \in DOMAIN reg |-> IF reg[i].hash = h THEN Item(h, s) ELSE reg[i]]

Rejected(reg) == {i \in DOMAIN reg : reg[i].status = "rejected"}

\* item_add() finds neither a free slot nor a rejected item to evict.
PoolFull(reg) == Len(reg) = Slots /\ Rejected(reg) = {}

\* item_add(): a free slot, else the first rejected item's, whose files stay.
ItemAdd(reg, h) ==
  IF Len(reg) < Slots
  THEN Append(reg, Item(h, "pending"))
  ELSE [reg EXCEPT ![First(Rejected(reg))] = Item(h, "pending")]

\* The item of h is taken out, and those behind it move up.
Without(reg, h) ==
  LET at == First({i \in DOMAIN reg : reg[i].hash = h})
  IN IF ~Known(reg, h) THEN reg
     ELSE [i \in 1 .. (Len(reg) - 1) |-> IF i < at THEN reg[i] ELSE reg[i + 1]]

\* What manifest_each_shard() may find in an object: in a torn manifest some of
\* its shards, or none if it does not read as a manifest at all.
Listings(h) ==
  IF h \notin Manifests \/ obj[h] = "absent" THEN {<<>>}
  ELSE IF obj[h] = "whole" THEN {Parts[h]}
  ELSE {SubSeq(Parts[h], 1, n) : n \in 0 .. Len(Parts[h])}

MarkAll(hs, s) == [i \in 1 .. Len(hs) |-> Mark(hs[i], s)]

(* The handlers. *)

Idle == up /\ todo = <<>>
LogRoom == Len(log) < MaxLog

CustodianInit == /\ up = TRUE
                 /\ items = <<>>
                 /\ todo = <<>>
                 /\ obj = [h \in Objects |-> "absent"]
                 /\ meta = [h \in Objects |-> "absent"]
                 /\ log = <<>>
                 /\ torn = FALSE
                 /\ announced = [h \in Objects |-> 0]
                 /\ crashes = 0

Handler(reg, steps) == /\ Idle
                       /\ items' = reg
                       /\ todo' = steps
                       /\ UNCHANGED <<up, disk, announced, crashes>>

\* POST /ingest of data that is one object.
IngestSingle(h) ==
  /\ LogRoom
  /\ Handler(items, <<Put(h, "pending"), Note("submit", h)>>)

\* POST /ingest of larger data; puts of the shards and the manifest are how many
\* storage_put() calls succeed.
IngestManifest(m, puts) ==
  /\ LogRoom
  /\ Handler(items,
       IF puts <= Len(Parts[m])
       THEN [i \in 1 .. puts |-> Put(Parts[m][i], "shard")]
       ELSE [i \in 1 .. Len(Parts[m]) |-> Put(Parts[m][i], "shard")]
              \o <<Put(m, "pending"), Note("submit", m)>>)

\* Deliberate faults, each a slip this code could contain; a name starting with
\* Bug is never part of a specification.
BugApproveAgain(h) == Known(items, h)

Approvable(h) == Known(items, h) /\ ~Has(items, h, {"approved"})

BugSaveFirst(h, listed) ==
  MarkAll(listed, "approved")
    \o <<Save(h, "approved"), Note("approve", h), Ready(h)>>

ApproveSteps(h, listed) ==
  MarkAll(listed, "approved")
    \o <<Note("approve", h), Ready(h), Save(h, "approved")>>

\* on_approved(), from nml/data/approve or POST /approve.
Approve(h) ==
  /\ Approvable(h) /\ LogRoom
  /\ \E listed \in Listings(h) :
       Handler(WithStatus(items, h, "approved"), ApproveSteps(h, listed))

\* on_rejected(), from nml/data/reject: whatever the status.
Reject(h) ==
  /\ Known(items, h) /\ LogRoom
  /\ \E listed \in Listings(h) :
       Handler(items, <<Mark(h, "rejected")>> \o MarkAll(listed, "rejected")
                        \o <<Note("reject", h)>>)

\* GET /objects/<hash> answers with the file: an unknown object is not refused.
Servable(h) == /\ obj[h] # "absent"
               /\ Known(items, h) => Has(items, h, {"approved"})

\* The served_count of a known object is written out.
Serve(h) == /\ Servable(h) /\ Known(items, h)
            /\ Handler(items, <<Save(h, "approved")>>)

\* DELETE /objects/<hash>, and of a manifest all it lists, approved or not,
\* listed elsewhere or not.
Delete(h) ==
  /\ obj[h] # "absent"
  /\ \E listed \in Listings(h) :
       Handler(items, [i \in 1 .. Len(listed) |-> Unlink(listed[i])]
                        \o <<Unlink(h)>>)

(* Their steps. *)

Due(op) == up /\ todo # <<>> /\ Head(todo).op = op
Then(steps) == todo' = steps \o Tail(todo)
Subject == Head(todo).hash

Sidecar(h, s) == meta' = [meta EXCEPT ![h] = s]

\* storage_put() leaves a file that is there alone.
PutStep == /\ Due("put")
           /\ obj' = [obj EXCEPT ![Subject] = IF @ = "absent" THEN "whole" ELSE @]
           /\ Then(<<Add(Subject, Head(todo).val)>>)
           /\ UNCHANGED <<items, meta, log, announced>>

\* item_find(), and item_add() of what is new; with the pool full, the handler
\* ends here.  The status of a shard is set once it has been added.
AddStep ==
  /\ Due("add")
  /\ \/ /\ Known(items, Subject) /\ Then(<<>>)
        /\ UNCHANGED <<items, meta>>
     \/ /\ ~Known(items, Subject) /\ PoolFull(items) /\ todo' = <<>>
        /\ UNCHANGED <<items, meta>>
     \/ /\ ~Known(items, Subject) /\ ~PoolFull(items)
        /\ items' = ItemAdd(items, Subject)
        /\ Sidecar(Subject, "pending")
        /\ Then(IF Head(todo).val = "shard" THEN <<Mark(Subject, "shard")>> ELSE <<>>)
  /\ UNCHANGED <<obj, log, announced>>

\* approve_shard_cb() promotes a shard from pending or shard, not from rejected.
Promotes(s) == IF s = "approved" THEN {"pending", "shard"} ELSE Status

BugMarkInMemory(h, s) == /\ items' = WithStatus(items, h, s)
                         /\ UNCHANGED meta

Marked(h, s) == /\ items' = WithStatus(items, h, s)
                /\ Sidecar(h, s)

MarkStep == /\ Due("mark")
            /\ IF Has(items, Subject, Promotes(Head(todo).val))
               THEN Marked(Subject, Head(todo).val)
               ELSE UNCHANGED <<items, meta>>
            /\ Then(<<>>)
            /\ UNCHANGED <<obj, log, announced>>

SaveStep == /\ Due("save")
            /\ Sidecar(Subject, Head(todo).val)
            /\ Then(<<>>)
            /\ UNCHANGED <<items, obj, log, announced>>

NoteStep == /\ Due("note")
            /\ log' = Append(log, LogRecord(Head(todo).val, Subject))
            /\ Then(<<>>)
            /\ UNCHANGED <<items, obj, meta, announced>>

ReadyStep == /\ Due("ready")
             /\ announced' = [announced EXCEPT ![Subject] = @ + 1]
             /\ Then(<<>>)
             /\ UNCHANGED <<items, obj, meta, log>>

UnlinkStep == /\ Due("unlink")
              /\ obj' = [obj EXCEPT ![Subject] = "absent"]
              /\ Then(<<Clear(Subject)>>)
              /\ UNCHANGED <<items, meta, log, announced>>

ClearStep == /\ Due("clear")
             /\ Sidecar(Subject, "absent")
             /\ items' = Without(items, Subject)
             /\ Then(<<>>)
             /\ UNCHANGED <<obj, log, announced>>

Step == /\ \/ PutStep \/ AddStep \/ MarkStep \/ SaveStep
           \/ NoteStep \/ ReadyStep \/ UnlinkStep \/ ClearStep
        /\ UNCHANGED <<up, torn, crashes>>

(* Crashes and restarts. *)

Fall == /\ up /\ crashes < MaxCrashes
        /\ crashes' = crashes + 1
        /\ up' = FALSE
        /\ items' = <<>>
        /\ todo' = <<>>
        /\ UNCHANGED announced

\* Between two steps.
Crash == Fall /\ UNCHANGED disk

\* The step writes the sidecar.
WritesMeta == \/ Due("add") /\ ~Known(items, Subject) /\ ~PoolFull(items)
              \/ Due("mark") /\ Has(items, Subject, Promotes(Head(todo).val))
              \/ Due("save")

\* In one: an object, a sidecar or a ledger record is on disk in part.
\* meta_read() takes a sidecar without its status line for pending.
CrashWriting ==
  /\ Fall
  /\ \/ /\ Due("put") /\ obj[Subject] = "absent"
        /\ obj' = [obj EXCEPT ![Subject] = "torn"]
        /\ UNCHANGED <<meta, log, torn>>
     \/ /\ WritesMeta
        /\ Sidecar(Subject, "pending")
        /\ UNCHANGED <<obj, log, torn>>
     \/ /\ Due("note")
        /\ torn' = TRUE
        /\ UNCHANGED <<obj, meta, log>>

Restorable == {h \in Objects : obj[h] # "absent" /\ meta[h] # "absent"}

\* main() up to its loop: chain_open() refuses a torn ledger for good, then
\* scan_and_restore() takes sidecars in the order of the directory, while there
\* are slots.
Restore ==
  /\ ~up /\ ~torn
  /\ up' = TRUE
  /\ \E order \in SetToSeqs(Restorable) :
       items' = [i \in 1 .. (IF Len(order) < Slots THEN Len(order) ELSE Slots) |->
                   Item(order[i], meta[order[i]])]
  /\ UNCHANGED <<todo, disk, announced, crashes>>

CustodianNext == \/ \E h \in Singles : IngestSingle(h)
                 \/ \E m \in Manifests : \E puts \in 0 .. (Len(Parts[m]) + 1) :
                      IngestManifest(m, puts)
                 \/ \E h \in Objects : Approve(h) \/ Reject(h) \/ Serve(h) \/ Delete(h)
                 \/ Step
                 \/ Crash
                 \/ CrashWriting
                 \/ Restore

CustodianSpec == CustodianInit /\ [][CustodianNext]_custodianVars

----------------------------------------------------------------------------
Ops == {"put", "add", "mark", "save", "note", "ready", "unlink", "clear"}

CustodianTypeOK ==
  /\ up \in BOOLEAN
  /\ items \in Seq([hash : Objects, status : Status])
  /\ Len(items) <= Slots
  /\ todo \in Seq([op : Ops, hash : Objects,
                   val : Status \cup Decision \cup {"absent", "sent"}])
  /\ obj \in [Objects -> {"absent", "whole", "torn"}]
  /\ meta \in [Objects -> Status \cup {"absent"}]
  /\ log \in Seq([type : Decision, hash : Objects])
  /\ torn \in BOOLEAN
  /\ announced \in [Objects -> Nat]
  /\ crashes \in 0 .. MaxCrashes

\* Between two handlers every slot of the registry is what a restart would read
\* back from its own two files, and no object has two slots: a status is never
\* changed in memory alone.
RegistryOnDisk ==
  /\ CustodianTypeOK
  /\ Idle => /\ \A i \in DOMAIN items : /\ meta[items[i].hash] = items[i].status
                                     /\ obj[items[i].hash] # "absent"
          /\ \A i, j \in DOMAIN items : items[i].hash = items[j].hash => i = j

\* The hashes a decision on h decides on.
Covers(h) == {h} \cup (IF h \in Manifests THEN ToSet(Parts[h]) ELSE {})

Vouched(h) ==
  \E i \in DOMAIN log :
    /\ log[i].type = "approve" /\ h \in Covers(log[i].hash)
    /\ \A j \in DOMAIN log : j > i /\ log[j].type = "reject"
                               => h \notin Covers(log[j].hash)

\* An object approved on disk has the approval as the last decision in the
\* ledger, wherever a crash cuts the handlers: on_approved() records before it
\* writes the status, on_rejected() after.  Shards are written earlier, so for
\* them only between handlers and without crashes.
ApprovedOnRecord ==
  \A h \in Objects :
    meta[h] = "approved" /\ (h \in Shards => todo = <<>> /\ crashes = 0) => Vouched(h)

Records(t, h) == Cardinality({i \in DOMAIN log : log[i] = LogRecord(t, h)})

\* nml/data/ready names an object at most once for each approval on record.
AnnouncedOnRecord == \A h \in Objects : announced[h] <= Records("approve", h)

\* Nothing is served as approved, here or after a restart, or announced to the
\* workers, that the ledger does not vouch for (on_approved()).
OnRecord == ApprovedOnRecord /\ AnnouncedOnRecord

\* However often an approval is repeated, it is recorded once: without crashes,
\* between two approvals of one object it was rejected or ingested anew.
ApprovedOnce ==
  crashes = 0 =>
    \A h \in Objects \ Shards : \A i, j \in DOMAIN log :
      /\ i < j /\ log[i] = log[j] /\ log[i] = LogRecord("approve", h)
      => \E k \in (i + 1) .. (j - 1) : log[k].hash = h

=============================================================================
