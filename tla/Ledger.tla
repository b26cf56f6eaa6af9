------------------------------- MODULE Ledger -------------------------------
(***************************************************************************)
(* The transaction chain one agent keeps on disk, edge/chain.c: a file of   *)
(* records, each holding the digest of the one before it.  The custodian    *)
(* and the sentient append to theirs from the event loop; GET               *)
(* /ledger/verify rescans it; a restart rescans it and refuses a chain that *)
(* does not verify.                                                         *)
(*                                                                         *)
(* A write can stop half way, because the disk is full or the process dies. *)
(* What is then on disk is nothing of the record, all of it, or a torn one, *)
(* after which nothing can be parsed.  When the process survives, stdio may *)
(* still deliver the rest of a torn record at the next fseek(); that is the *)
(* case "all of it", since nothing reads the file in between.               *)
(***************************************************************************)
EXTENDS Naturals, Sequences

CONSTANTS
  Entries,         \* what a record says: type, payload and timestamp
  Join,            \* the AGENT_JOIN entry of this agent
  Hashes,          \* 8-byte digests
  NoHash,          \* eight zero bytes
  Digest(_, _, _), \* of the previous hash, the id and the entry
  Torn,            \* a record that is on disk only in part
  MaxRecords       \* bound on the file, for model checking only

Record == [tx_id : Nat, prev_hash : Hashes, hash : Hashes, entry : Entries]

ASSUME JoinAssumption == Join \in Entries
ASSUME NoHashAssumption == NoHash \in Hashes
ASSUME DigestAssumption ==
  \A h \in Hashes, i \in 0 .. MaxRecords, e \in Entries : Digest(h, i, e) \in Hashes
ASSUME TornAssumption == Torn \notin Record
ASSUME MaxRecordsAssumption == MaxRecords \in Nat \ {0}

VARIABLES
  made,       \* the file exists
  file,       \* its records
  running,    \* the agent is up, with the chain open
  next_tx_id, last_hash,  \* of its Chain
  acked,      \* ghost: the file's records whose chain_append() returned 0
  slipped     \* ghost: an append failed since the chain was last scanned

vars == <<made, file, running, next_tx_id, last_hash, acked, slipped>>

LastHash(f) == IF f = <<>> THEN NoHash ELSE f[Len(f)].hash

\* Deliberate faults, each a slip this code could contain; a name starting with
\* Bug is never part of a specification.
BugLinkUnchecked(f, i) ==
  /\ f[i].tx_id = i - 1
  /\ f[i].hash = Digest(f[i].prev_hash, f[i].tx_id, f[i].entry)

\* One turn of chain_verify()'s loop, on the i-th record of the file.
RecordOK(f, i) ==
  /\ f[i].tx_id = i - 1
  /\ f[i].prev_hash = IF i = 1 THEN NoHash ELSE f[i - 1].hash
  /\ f[i].hash = Digest(f[i].prev_hash, f[i].tx_id, f[i].entry)

\* read_record() succeeds to the end of the file.
Whole(f) == \A i \in 1 .. Len(f) : f[i] # Torn

\* chain_verify() returns a count; an empty file verifies too.
Verified(f) == Whole(f) /\ \A i \in 1 .. Len(f) : RecordOK(f, i)

Room == Len(file) < MaxRecords

\* The record chain_append() serializes from the state of its Chain.
NewRecord(id, hash, e) == [tx_id |-> id, prev_hash |-> hash,
                           hash |-> Digest(hash, id, e), entry |-> e]

\* The file after a write of r that did not finish.
Unfinished(f, r) == {f, Append(f, r), Append(f, Torn)}

Init == /\ made = FALSE
        /\ file = <<>>
        /\ running = FALSE
        /\ next_tx_id = 0
        /\ last_hash = NoHash
        /\ acked = {}
        /\ slipped = FALSE

\* chain_open() that creates the file and appends AGENT_JOIN: there is none, or
\* fopen("rb+") fails all the same, for want of a descriptor or of memory.  Then
\* fopen("wb+") truncates what is there, and a chain of another life begins.
Create == /\ ~running
          /\ made' = TRUE
          /\ file' = <<NewRecord(0, NoHash, Join)>>
          /\ running' = TRUE
          /\ next_tx_id' = 1
          /\ last_hash' = file'[1].hash
          /\ acked' = {file'[1]}
          /\ slipped' = FALSE

\* The same, when that append fails or the process dies in it: the agent is
\* down, the file is there, and no later open writes the AGENT_JOIN.
CreateFails == /\ ~running
               /\ made' = TRUE
               /\ file' \in Unfinished(<<>>, NewRecord(0, NoHash, Join))
               /\ next_tx_id' = 0
               /\ last_hash' = NoHash
               /\ acked' = {}
               /\ UNCHANGED <<running, slipped>>

BugIdsRestart == /\ next_tx_id' = 0
                 /\ last_hash' = LastHash(file)
                 /\ slipped' = FALSE

\* What a scan that succeeds leaves in the Chain.
Rescan == /\ next_tx_id' = Len(file)
          /\ last_hash' = LastHash(file)
          /\ slipped' = FALSE

BugOpenUnverified == /\ ~running /\ made
                     /\ running' = TRUE
                     /\ next_tx_id' = Len(file)
                     /\ UNCHANGED <<made, file, last_hash, acked, slipped>>

\* chain_open() of an existing file; one that does not verify is refused, and
\* the agent does not start.
Open == /\ ~running /\ made
        /\ Verified(file)
        /\ running' = TRUE
        /\ Rescan
        /\ UNCHANGED <<made, file, acked>>

\* chain_append() that returns 0.
AppendRecord(e) ==
  LET r == NewRecord(next_tx_id, last_hash, e)
  IN /\ running /\ Room
     /\ file' = Append(file, r)
     /\ last_hash' = r.hash
     /\ next_tx_id' = next_tx_id + 1
     /\ acked' = acked \cup {r}
     /\ UNCHANGED <<made, running, slipped>>

\* What fflush() returns is not looked at.
BugFlushUnchecked(e) ==
  LET r == NewRecord(next_tx_id, last_hash, e)
  IN /\ running /\ Room
     /\ file' \in Unfinished(file, r)
     /\ last_hash' = r.hash
     /\ next_tx_id' = next_tx_id + 1
     /\ acked' = acked \cup {r}
     /\ slipped' = TRUE
     /\ UNCHANGED <<made, running>>

\* chain_append() that returns -1: the Chain keeps its last id and hash.
AppendFails(e) ==
  /\ running /\ Room
  /\ file' \in Unfinished(file, NewRecord(next_tx_id, last_hash, e))
  /\ slipped' = TRUE
  /\ UNCHANGED <<made, running, next_tx_id, last_hash, acked>>

\* GET /ledger/verify on the live chain: a successful scan sets the Chain.
Verify == /\ running
          /\ Verified(file)
          /\ Rescan
          /\ UNCHANGED <<made, file, running, acked>>

\* The process stops between two appends, or dies in one.
Stop == /\ running
        /\ running' = FALSE
        /\ UNCHANGED <<made, file, next_tx_id, last_hash, acked, slipped>>

DieAppending(e) ==
  /\ running /\ Room
  /\ running' = FALSE
  /\ file' \in Unfinished(file, NewRecord(next_tx_id, last_hash, e))
  /\ UNCHANGED <<made, next_tx_id, last_hash, acked, slipped>>

Next == \/ Create
        \/ CreateFails
        \/ Open
        \/ \E e \in Entries \ {Join} :
             AppendRecord(e) \/ AppendFails(e) \/ DieAppending(e)
        \/ Verify
        \/ Stop

Spec == Init /\ [][Next]_vars

----------------------------------------------------------------------------
TypeOK == /\ made \in BOOLEAN
          /\ file \in Seq(Record \cup {Torn})
          /\ Len(file) <= MaxRecords
          /\ running \in BOOLEAN
          /\ next_tx_id \in 0 .. MaxRecords
          /\ last_hash \in Hashes
          /\ acked \subseteq Record
          /\ slipped \in BOOLEAN

\* A running agent is at the end of a chain that verifies, through any crashes
\* and restarts, unless one of its own appends has failed since the last scan.
InStep == running /\ ~slipped => /\ Verified(file)
                                 /\ next_tx_id = Len(file)
                                 /\ last_hash = LastHash(file)

\* InStep together with what keeps it: a stopped agent's ids may lag behind the
\* file, and what was acknowledged is known to be somewhere in the file even
\* while the chain does not verify.
Behind == next_tx_id <= Len(file)

Unmade == ~made => file = <<>> /\ acked = {}

AckedInFile == \A r \in acked : \E i \in 1 .. Len(file) : file[i] = r

MadeWhenUp == running => made

ChainInv == TypeOK /\ Behind /\ Unmade /\ MadeWhenUp /\ AckedInFile /\ InStep

\* chain_append() "Durably flushed before returning" (chain.h:78): whatever
\* happened since the file was created, a chain that verifies has every
\* acknowledged record, at the place its id says.
AckedAreKept ==
  Verified(file) =>
    \A r \in acked : r.tx_id + 1 \in 1 .. Len(file) /\ file[r.tx_id + 1] = r

\* The ways to rewrite the i-th record: its entry, and its hash or not.
Forged(i, e, fix) ==
  [file EXCEPT ![i].entry = e,
               ![i].hash = IF fix THEN Digest(file[i].prev_hash, file[i].tx_id, e)
                                  ELSE file[i].hash]

\* "Rewriting any past record breaks the chain" (chain.h:6), except for a second
\* entry with the same digest; nothing protects the last record.
RewriteIsFound ==
  Verified(file) =>
    \A i \in 1 .. (Len(file) - 1), e \in Entries, fix \in BOOLEAN :
      Verified(Forged(i, e, fix))
        => Digest(file[i].prev_hash, file[i].tx_id, e) = file[i].hash

\* What is damaged stays damaged, whatever a running agent goes on to append,
\* and no agent starts on it, unless chain_open() could not read it and has
\* started it over.
DamageIsPermanent ==
  [][~Verified(file) => \/ ~Verified(file') /\ (running' => running)
                        \/ Create \/ CreateFails]_vars

=============================================================================
