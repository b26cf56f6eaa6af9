---------------------------- MODULE RecordProofs ----------------------------
(***************************************************************************)
(* What is on record.  The transaction chain for any entries, any digest    *)
(* function and a file of any length: how an append changes what verifies,  *)
(* and the invariants of the chain through failed writes, crashes and       *)
(* restarts.  Then the custodian that writes to it: its registry, its files *)
(* and its ledger agree, for any objects, any manifests, any number of      *)
(* slots and any crashes.                                                   *)
(***************************************************************************)
EXTENDS Ledger, Custodian, ScanProofs, SequenceTheorems, FiniteSetTheorems

-----------------------------------------------------------------------------
(* The chain *)

File == Seq(Record \cup {Torn})

LEMMA AppendedFile ==
  ASSUME NEW f \in File, NEW x \in Record \cup {Torn}
  PROVE  /\ Append(f, x) \in File
         /\ Len(f) \in Nat
         /\ Len(Append(f, x)) = Len(f) + 1
         /\ \A i \in 1 .. Len(f) : Append(f, x)[i] = f[i]
         /\ Append(f, x)[Len(f) + 1] = x
         /\ Append(f, x) # <<>>
BY AppendProperties, LenProperties DEF File

\* A prefix of a chain that verifies verifies: damage cannot be appended away.
LEMMA PrefixVerifies ==
  ASSUME NEW f \in File, NEW x \in Record \cup {Torn},
         Verified(Append(f, x))
  PROVE  Verified(f)
<1> DEFINE g == Append(f, x)
<1>1. /\ Len(f) \in Nat /\ Len(g) = Len(f) + 1
      /\ \A i \in 1 .. Len(f) : g[i] = f[i]
  BY AppendedFile
<1>2. Whole(g) /\ \A i \in 1 .. Len(g) : RecordOK(g, i)
  BY DEF Verified
<1> HIDE DEF g
<1>3. Whole(f)
  BY <1>1, <1>2 DEF Whole
<1>4. ASSUME NEW i \in 1 .. Len(f)
      PROVE  RecordOK(f, i)
  <2>1. i \in 1 .. Len(g) /\ g[i] = f[i] /\ (i # 1 => g[i - 1] = f[i - 1])
    BY <1>1
  <2>2. RecordOK(g, i)
    BY <1>2, <2>1
  <2> QED
    BY <2>1, <2>2 DEF RecordOK
<1> QED
  BY <1>3, <1>4 DEF Verified

LEMMA NewRecordType ==
  ASSUME NEW id \in 0 .. MaxRecords, NEW h \in Hashes, NEW e \in Entries
  PROVE  /\ NewRecord(id, h, e) \in Record
         /\ NewRecord(id, h, e) # Torn
<1>1. Digest(h, id, e) \in Hashes
  BY DigestAssumption
<1>2. id \in Nat
  BY MaxRecordsAssumption
<1> QED
  BY <1>1, <1>2, TornAssumption DEF NewRecord, Record

\* What chain_append() writes at the end of a chain that verifies, from a Chain
\* that is in step with it, verifies.
LEMMA AppendVerifies ==
  ASSUME NEW f \in File, NEW e \in Entries, Verified(f),
         Len(f) \in 0 .. MaxRecords, LastHash(f) \in Hashes
  PROVE  Verified(Append(f, NewRecord(Len(f), LastHash(f), e)))
<1> DEFINE r == NewRecord(Len(f), LastHash(f), e)
           g == Append(f, r)
<1>1. r \in Record /\ r # Torn
  BY NewRecordType
<1>2. /\ Len(f) \in Nat /\ Len(g) = Len(f) + 1
      /\ \A i \in 1 .. Len(f) : g[i] = f[i]
      /\ g[Len(f) + 1] = r
  BY <1>1, AppendedFile
<1>3. /\ r.tx_id = Len(f) /\ r.prev_hash = LastHash(f)
      /\ r.hash = Digest(r.prev_hash, r.tx_id, r.entry)
  BY DEF NewRecord
<1>4. LastHash(f) = IF Len(f) = 0 THEN NoHash ELSE f[Len(f)].hash
  BY EmptySeq DEF LastHash, File
<1>5. Whole(f) /\ \A i \in 1 .. Len(f) : RecordOK(f, i)
  BY DEF Verified
<1> HIDE DEF g, r
<1>6. Whole(g)
  BY <1>1, <1>2, <1>5 DEF Whole
<1>7. ASSUME NEW i \in 1 .. Len(g)
      PROVE  RecordOK(g, i)
  <2>1. CASE i = Len(f) + 1
    <3>1. g[i] = r /\ i - 1 = Len(f) /\ (i # 1 => g[i - 1] = f[i - 1])
      BY <1>2, <2>1
    <3> QED
      BY <1>2, <1>3, <1>4, <2>1, <3>1 DEF RecordOK
  <2>2. CASE i # Len(f) + 1
    <3>1. i \in 1 .. Len(f) /\ g[i] = f[i] /\ (i # 1 => g[i - 1] = f[i - 1])
      BY <1>2, <2>2
    <3>2. RecordOK(f, i)
      BY <1>5, <3>1
    <3> QED
      BY <3>1, <3>2 DEF RecordOK
  <2> QED
    BY <2>1, <2>2
<1> QED
  BY <1>6, <1>7 DEF Verified, g, r

LEMMA EmptyVerifies == Verified(<<>>)
<1>1. Len(<<>>) = 0
  OBVIOUS
<1> QED
  BY <1>1 DEF Verified, Whole

LEMMA LastHashType ==
  ASSUME NEW f \in File, Verified(f)
  PROVE  LastHash(f) \in Hashes
<1>1. CASE f = <<>>
  BY <1>1, NoHashAssumption DEF LastHash
<1>2. CASE f # <<>>
  <2>1. Len(f) \in Nat \ {0}
    BY <1>2, EmptySeq, LenProperties DEF File
  <2>2. f[Len(f)] \in Record \cup {Torn}
    BY <2>1, ElementOfSeq DEF File
  <2>3. f[Len(f)] # Torn
    BY <2>1 DEF Verified, Whole
  <2> QED
    BY <1>2, <2>2, <2>3 DEF LastHash, Record
<1> QED
  BY <1>1, <1>2

----------------------------------------------------------------------------
(* The steps keep ChainInv *)

LEMMA UnfinishedType ==
  ASSUME NEW f \in File, NEW r \in Record, NEW g \in Unfinished(f, r)
  PROVE  /\ g = f \/ g = Append(f, r) \/ g = Append(f, Torn)
         /\ g \in File
         /\ Len(f) \in Nat
         /\ Len(g) \in {Len(f), Len(f) + 1}
         /\ \A i \in 1 .. Len(f) : i \in 1 .. Len(g) /\ g[i] = f[i]
<1>1. g = f \/ g = Append(f, r) \/ g = Append(f, Torn)
  BY DEF Unfinished
<1>2. Len(f) \in Nat
  BY LenProperties DEF File
<1>3. CASE g = f
  BY <1>2, <1>3
<1>4. ASSUME NEW x \in Record \cup {Torn}, g = Append(f, x)
      PROVE  /\ g \in File
             /\ Len(g) = Len(f) + 1
             /\ \A i \in 1 .. Len(f) : i \in 1 .. Len(g) /\ g[i] = f[i]
  BY <1>2, <1>4, AppendedFile
<1>5. r \in Record \cup {Torn} /\ Torn \in Record \cup {Torn}
  OBVIOUS
<1> QED
  BY <1>1, <1>2, <1>3, <1>4, <1>5

LEMMA InitInv == Init => ChainInv
<1> SUFFICES ASSUME Init PROVE ChainInv
  OBVIOUS
<1>1. Len(file) = 0 /\ file \in File
  BY EmptySeq DEF Init, File
<1>2. next_tx_id \in 0 .. MaxRecords /\ Len(file) <= MaxRecords
  BY <1>1, MaxRecordsAssumption DEF Init
<1>3. acked \subseteq Record
  BY DEF Init
<1>4. TypeOK
  BY <1>1, <1>2, <1>3, NoHashAssumption DEF Init, TypeOK, File
<1> QED
  BY <1>1, <1>4 DEF Init, ChainInv, Behind, Unmade, MadeWhenUp, AckedInFile, InStep

\* A write that stops half way, whoever survives it.
LEMMA UnfinishedInv ==
  ASSUME ChainInv, made', Room, UNCHANGED <<next_tx_id, last_hash, acked>>,
         NEW r \in Record, file' \in Unfinished(file, r),
         running' \in BOOLEAN, slipped' \in BOOLEAN
  PROVE  TypeOK' /\ Behind' /\ Unmade' /\ MadeWhenUp' /\ AckedInFile'
<1>1. file \in File /\ Len(file) <= MaxRecords
  BY DEF ChainInv, TypeOK, File
<1>2. /\ file' \in File
      /\ Len(file) \in Nat
      /\ Len(file') \in {Len(file), Len(file) + 1}
      /\ \A i \in 1 .. Len(file) : i \in 1 .. Len(file') /\ file'[i] = file[i]
  BY <1>1, UnfinishedType
<1>3. TypeOK'
  BY <1>1, <1>2, MaxRecordsAssumption DEF ChainInv, TypeOK, Room, File
<1>4. Behind'
  BY <1>2, MaxRecordsAssumption DEF ChainInv, TypeOK, Behind
<1>5. Unmade' /\ MadeWhenUp'
  BY DEF Unmade, MadeWhenUp
<1>6. AckedInFile'
  BY <1>2 DEF ChainInv, AckedInFile
<1> QED
  BY <1>3, <1>4, <1>5, <1>6

\* A scan that succeeds puts the Chain in step with the file.
LEMMA RescanInv ==
  ASSUME ChainInv, Verified(file), Rescan, made, running' = TRUE,
         UNCHANGED <<made, file, acked>>
  PROVE  ChainInv'
<1>1. file \in File /\ Len(file) <= MaxRecords /\ Len(file) \in Nat
  BY LenProperties DEF ChainInv, TypeOK, File
<1>2. LastHash(file) \in Hashes
  BY <1>1, LastHashType
<1>3. next_tx_id' = Len(file) /\ last_hash' = LastHash(file) /\ slipped' = FALSE
  BY DEF Rescan
<1>4. TypeOK'
  <2>1. next_tx_id' \in 0 .. MaxRecords
    BY <1>1, <1>3, MaxRecordsAssumption
  <2> QED
    BY <1>2, <1>3, <2>1 DEF ChainInv, TypeOK
<1>5. InStep'
  BY <1>3 DEF InStep
<1> QED
  BY <1>1, <1>3, <1>4, <1>5 DEF ChainInv, Behind, Unmade, MadeWhenUp, AckedInFile

LEMMA CreateInv == ASSUME ChainInv, Create PROVE ChainInv'
<1> DEFINE r == NewRecord(0, NoHash, Join)
<1>1. /\ r \in Record /\ r # Torn
      /\ <<>> \in File /\ Len(<<>>) = 0 /\ <<r>> = Append(<<>>, r)
      /\ Len(<<r>>) = 1 /\ <<r>>[1] = r
  <2>1. r \in Record /\ r # Torn
    BY NewRecordType, JoinAssumption, NoHashAssumption, MaxRecordsAssumption
  <2>2. <<>> \in File /\ Len(<<>>) = 0
    BY EmptySeq DEF File
  <2> QED
    BY <2>1, <2>2
<1>2. /\ made' = TRUE /\ file' = <<r>> /\ running' = TRUE /\ next_tx_id' = 1
      /\ last_hash' = r.hash /\ acked' = {r} /\ slipped' = FALSE
  BY <1>1 DEF Create
<1>3. file' \in File
  BY <1>1, <1>2, AppendedFile
<1>4. r.hash \in Hashes
  BY <1>1 DEF Record
<1>5. LastHash(<<r>>) = r.hash
  BY <1>1 DEF LastHash
<1>6. Verified(<<r>>)
  <2>1. LastHash(<<>>) = NoHash
    BY DEF LastHash
  <2>2. Verified(Append(<<>>, NewRecord(0, NoHash, Join)))
    <3>1. <<>> \in File /\ Len(<<>>) = 0 /\ 0 \in 0 .. MaxRecords
      BY <1>1, MaxRecordsAssumption
    <3> HIDE DEF r
    <3>2. Verified(Append(<<>>, NewRecord(Len(<<>>), LastHash(<<>>), Join)))
      BY <2>1, <3>1, EmptyVerifies, AppendVerifies, JoinAssumption, NoHashAssumption
    <3> QED
      BY <2>1, <3>1, <3>2
  <2> QED
    BY <1>1, <2>2
<1> HIDE DEF r
<1>7. TypeOK'
  <2>1. next_tx_id' \in 0 .. MaxRecords /\ Len(file') <= MaxRecords
    BY <1>1, <1>2, MaxRecordsAssumption
  <2>2. acked' \subseteq Record
    BY <1>1, <1>2
  <2> QED
    BY <1>2, <1>3, <1>4, <2>1, <2>2 DEF TypeOK, File
<1>8. Behind' /\ Unmade' /\ MadeWhenUp'
  BY <1>1, <1>2 DEF Behind, Unmade, MadeWhenUp
<1>9. AckedInFile'
  BY <1>1, <1>2 DEF AckedInFile
<1>10. InStep'
  BY <1>1, <1>2, <1>5, <1>6 DEF InStep
<1> QED
  BY <1>7, <1>8, <1>9, <1>10 DEF ChainInv

LEMMA AppendInv ==
  ASSUME ChainInv, NEW e \in Entries, AppendRecord(e) PROVE ChainInv'
<1> DEFINE r == NewRecord(next_tx_id, last_hash, e)
<1>1. /\ file \in File /\ Len(file) < MaxRecords
      /\ next_tx_id \in 0 .. MaxRecords /\ last_hash \in Hashes
      /\ next_tx_id <= Len(file)
  BY DEF ChainInv, TypeOK, Behind, AppendRecord, Room, File
<1>2. r \in Record
  BY <1>1, NewRecordType
<1>3. /\ file' = Append(file, r) /\ last_hash' = r.hash
      /\ next_tx_id' = next_tx_id + 1 /\ acked' = acked \cup {r}
      /\ UNCHANGED <<made, running, slipped>> /\ running
  BY DEF AppendRecord
<1>4. /\ file' \in File /\ Len(file) \in Nat /\ Len(file') = Len(file) + 1
      /\ \A i \in 1 .. Len(file) : file'[i] = file[i]
      /\ file'[Len(file) + 1] = r /\ file' # <<>>
  BY <1>1, <1>2, <1>3, AppendedFile
<1>5. r.hash \in Hashes
  BY <1>2 DEF Record
<1>6. InStep'
  <2> SUFFICES ASSUME running', ~slipped'
               PROVE  /\ Verified(file')
                      /\ next_tx_id' = Len(file')
                      /\ last_hash' = LastHash(file')
    BY DEF InStep
  <2>1. /\ Verified(file) /\ next_tx_id = Len(file)
        /\ last_hash = LastHash(file)
    BY <1>3 DEF ChainInv, InStep
  <2>2. Verified(file')
    BY <1>1, <1>3, <2>1, AppendVerifies
  <2>3. last_hash' = LastHash(file')
    BY <1>3, <1>4 DEF LastHash
  <2> QED
    BY <1>3, <1>4, <2>1, <2>2, <2>3
<1> HIDE DEF r
<1>7. TypeOK'
  <2>1. acked' \subseteq Record
    BY <1>2, <1>3 DEF ChainInv, TypeOK
  <2>2. made' \in BOOLEAN /\ running' \in BOOLEAN /\ slipped' \in BOOLEAN
    BY <1>3 DEF ChainInv, TypeOK
  <2>3. next_tx_id' \in 0 .. MaxRecords /\ Len(file') <= MaxRecords
    BY <1>1, <1>3, <1>4, MaxRecordsAssumption
  <2> QED
    BY <1>3, <1>4, <1>5, <2>1, <2>2, <2>3 DEF TypeOK, File
<1>8. Behind'
  BY <1>1, <1>3, <1>4 DEF Behind
<1>9. Unmade' /\ MadeWhenUp'
  BY <1>3 DEF ChainInv, Unmade, MadeWhenUp
<1>10. AckedInFile'
  <2> SUFFICES ASSUME NEW q \in acked'
               PROVE  \E i \in 1 .. Len(file') : file'[i] = q
    BY DEF AckedInFile
  <2>1. CASE q = r
    BY <1>4, <2>1
  <2>2. CASE q \in acked
    <3>1. PICK i \in 1 .. Len(file) : file[i] = q
      BY <2>2 DEF ChainInv, AckedInFile
    <3> QED
      BY <1>4, <3>1
  <2> QED
    BY <1>3, <2>1, <2>2
<1> QED
  BY <1>6, <1>7, <1>8, <1>9, <1>10 DEF ChainInv

LEMMA StepInv == ASSUME ChainInv, [Next]_vars PROVE ChainInv'
<1>1. CASE Create
  BY <1>1, CreateInv
<1>2. CASE CreateFails
  <2> DEFINE r == NewRecord(0, NoHash, Join)
  <2>1. /\ running' = FALSE /\ slipped' = slipped /\ next_tx_id' = 0
        /\ last_hash' = NoHash /\ acked' = {} /\ made' = TRUE
        /\ file' = <<>> \/ file' = Append(<<>>, r) \/ file' = Append(<<>>, Torn)
    BY <1>2 DEF CreateFails, ChainInv, TypeOK, Unfinished
  <2>2. r \in Record
    BY NewRecordType, JoinAssumption, NoHashAssumption, MaxRecordsAssumption
  <2> HIDE DEF r
  <2>3. /\ <<>> \in File /\ Len(<<>>) = 0
    BY EmptySeq DEF File
  <2>7. ASSUME NEW x \in Record \cup {Torn}
        PROVE  Append(<<>>, x) \in File /\ Len(Append(<<>>, x)) = 1
    <3>1. /\ Append(<<>>, x) \in File
          /\ Len(Append(<<>>, x)) = Len(<<>>) + 1
      BY <2>3, AppendedFile
    <3> QED
      BY <2>3, <3>1
  <2>4. file' \in File /\ Len(file') \in {0, 1}
    BY <2>1, <2>2, <2>3, <2>7
  <2>5. TypeOK'
    <3>1. Len(file') <= MaxRecords /\ next_tx_id' \in 0 .. MaxRecords
      BY <2>1, <2>4, MaxRecordsAssumption
    <3>2. slipped' \in BOOLEAN /\ file' \in Seq(Record \cup {Torn})
      BY <2>1, <2>4 DEF ChainInv, TypeOK, File
    <3> QED
      BY <2>1, <3>1, <3>2, NoHashAssumption DEF TypeOK
  <2>6. Behind' /\ Unmade' /\ MadeWhenUp' /\ AckedInFile' /\ InStep'
    BY <2>1, <2>4 DEF Behind, Unmade, MadeWhenUp, AckedInFile, InStep
  <2> QED
    BY <2>5, <2>6 DEF ChainInv
<1>3. CASE Open
  BY <1>3, RescanInv DEF Open
<1>4. ASSUME NEW e \in Entries, AppendRecord(e) PROVE ChainInv'
  BY <1>4, AppendInv
<1>5. ASSUME NEW e \in Entries, AppendFails(e) \/ DieAppending(e) PROVE ChainInv'
  <2>1. NewRecord(next_tx_id, last_hash, e) \in Record
    BY NewRecordType DEF ChainInv, TypeOK
  <2>2. /\ running /\ Room /\ UNCHANGED <<made, next_tx_id, last_hash, acked>>
        /\ file' \in Unfinished(file, NewRecord(next_tx_id, last_hash, e))
        /\ \/ slipped' = TRUE /\ running' = running
           \/ running' = FALSE /\ slipped' = slipped
    BY <1>5 DEF AppendFails, DieAppending
  <2>3. made'
    BY <2>2 DEF ChainInv, MadeWhenUp
  <2>4. running' \in BOOLEAN /\ slipped' \in BOOLEAN
    BY <2>2 DEF ChainInv, TypeOK
  <2>5. TypeOK' /\ Behind' /\ Unmade' /\ MadeWhenUp' /\ AckedInFile'
    BY <2>1, <2>2, <2>3, <2>4, UnfinishedInv
  <2>6. InStep'
    BY <2>2 DEF InStep
  <2> QED
    BY <2>5, <2>6 DEF ChainInv
<1>6. CASE Verify
  <2>1. /\ Verified(file) /\ Rescan /\ running
        /\ UNCHANGED <<made, file, running, acked>>
    BY <1>6 DEF Verify
  <2>2. running' = TRUE /\ made
    BY <2>1 DEF ChainInv, TypeOK, MadeWhenUp
  <2> QED
    BY <2>1, <2>2, RescanInv
<1>7. CASE Stop
  BY <1>7 DEF Stop, ChainInv, TypeOK, Behind, Unmade, MadeWhenUp, AckedInFile, InStep
<1>8. CASE UNCHANGED vars
  BY <1>8 DEF vars, ChainInv, TypeOK, Behind, Unmade, MadeWhenUp, AckedInFile, InStep
<1> QED
  BY <1>1, <1>2, <1>3, <1>4, <1>5, <1>6, <1>7, <1>8 DEF Next

\* chain_open(), chain_append() and chain_verify() keep the invariant, through
\* writes that stop half way and processes that die.
THEOREM Invariance == Spec => []ChainInv
BY InitInv, StepInv, PTL DEF Spec

\* The chain's variables keep their types: no id or file outgrows the bound.
THEOREM TypeCorrect == Spec => []TypeOK
<1>1. ChainInv => TypeOK
  BY DEF ChainInv
<1> QED
  BY <1>1, Invariance, PTL

\* An agent that has scanned its chain since its last failed append is at the
\* end of a chain that verifies: crashes and restarts alone never damage it
\* without the damage being found by the next chain_open().
THEOREM StaysInStep == Spec => []InStep
<1>1. ChainInv => InStep
  BY DEF ChainInv
<1> QED
  BY <1>1, Invariance, PTL

\* What chain_append() acknowledged is in every later chain that verifies, at
\* the place its id says.
THEOREM KeepsAcked == Spec => []AckedAreKept
<1>1. ASSUME ChainInv PROVE AckedAreKept
  <2> SUFFICES ASSUME Verified(file), NEW r \in acked
               PROVE  r.tx_id + 1 \in 1 .. Len(file) /\ file[r.tx_id + 1] = r
    BY DEF AckedAreKept
  <2>1. PICK i \in 1 .. Len(file) : file[i] = r
    BY <1>1 DEF ChainInv, AckedInFile
  <2>2. RecordOK(file, i)
    BY <2>1 DEF Verified
  <2>3. r.tx_id = i - 1
    BY <2>1, <2>2 DEF RecordOK
  <2>4. Len(file) \in Nat
    BY <1>1, LenProperties DEF ChainInv, TypeOK
  <2>5. r.tx_id + 1 = i
    BY <2>1, <2>3, <2>4
  <2> QED
    BY <2>1, <2>5
<1> QED
  BY <1>1, Invariance, PTL

\* Rewriting a record that is not the last of a chain that verifies is found,
\* unless the new record has the digest of the old one.
THEOREM FindsRewriting == Spec => []RewriteIsFound
<1>1. ASSUME ChainInv PROVE RewriteIsFound
  <2> SUFFICES ASSUME Verified(file),
                      NEW i \in 1 .. (Len(file) - 1), NEW e \in Entries,
                      NEW fix \in BOOLEAN, Verified(Forged(i, e, fix))
               PROVE  Digest(file[i].prev_hash, file[i].tx_id, e) = file[i].hash
    BY DEF RewriteIsFound
  <2> DEFINE h == IF fix THEN Digest(file[i].prev_hash, file[i].tx_id, e)
                         ELSE file[i].hash
             g == Forged(i, e, fix)
  <2>1. /\ file \in Seq(Record \cup {Torn}) /\ Len(file) \in Nat
        /\ DOMAIN file = 1 .. Len(file)
    BY <1>1, LenProperties DEF ChainInv, TypeOK
  <2>2. i \in 1 .. Len(file) /\ i + 1 \in 1 .. Len(file) /\ i + 1 # i /\ i + 1 # 1
    BY <2>1
  <2>3. file[i] \in Record
    <3>1. file[i] \in Record \cup {Torn}
      BY <2>1, <2>2, ElementOfSeq
    <3>2. file[i] # Torn
      BY <2>2 DEF Verified, Whole
    <3> QED
      BY <3>1, <3>2
  <2>4. /\ g = [file EXCEPT ![i] = [[file[i] EXCEPT !.entry = e] EXCEPT !.hash = h]]
    BY <2>1, <2>2, <2>3 DEF Forged, Record
  <2>5. /\ Len(g) = Len(file)
        /\ g[i + 1] = file[i + 1]
        /\ g[i].hash = h /\ g[i].entry = e
        /\ g[i].prev_hash = file[i].prev_hash /\ g[i].tx_id = file[i].tx_id
    BY <2>1, <2>2, <2>3, <2>4 DEF Record
  <2>6. /\ RecordOK(file, i + 1) /\ RecordOK(g, i + 1) /\ RecordOK(g, i)
    BY <2>2, <2>5 DEF Verified
  <2>7. (i + 1) - 1 = i
    BY <2>1
  <2>8. g[i].hash = file[i].hash
    BY <2>2, <2>5, <2>6, <2>7 DEF RecordOK
  <2>9. g[i].hash = Digest(file[i].prev_hash, file[i].tx_id, e)
    BY <2>5, <2>6 DEF RecordOK
  <2> QED
    BY <2>8, <2>9
<1> QED
  BY <1>1, Invariance, PTL

\* A damaged chain is never repaired by what is appended to it, and no agent
\* starts on it but one that could not read it and has started it over.
THEOREM StaysDamaged == Spec => DamageIsPermanent
<1> DEFINE Stays == ~Verified(file) =>
                      \/ ~Verified(file') /\ (running' => running)
                      \/ Create \/ CreateFails
<1>1. ASSUME ChainInv, [Next]_vars, ~Verified(file), ~Create, ~CreateFails
      PROVE  ~Verified(file') /\ (running' => running)
  <2>1. file \in File /\ file # <<>>
    BY <1>1, EmptyVerifies DEF ChainInv, TypeOK, File
  <2>3. ~Create /\ ~CreateFails /\ ~Open /\ ~Verify
    BY <1>1 DEF Open, Verify
  <2>4. ASSUME NEW e \in Entries,
               AppendRecord(e) \/ AppendFails(e) \/ DieAppending(e)
        PROVE  ~Verified(file') /\ (running' => running)
    <3> DEFINE r == NewRecord(next_tx_id, last_hash, e)
    <3>1. r \in Record
      BY <1>1, NewRecordType DEF ChainInv, TypeOK
    <3>2. running
      BY <2>4 DEF AppendRecord, AppendFails, DieAppending
    <3>3. file' = file \/ file' = Append(file, r) \/ file' = Append(file, Torn)
      BY <2>4 DEF AppendRecord, AppendFails, DieAppending, Unfinished
    <3> HIDE DEF r
    <3>4. r \in Record \cup {Torn} /\ Torn \in Record \cup {Torn}
      BY <3>1
    <3> QED
      BY <1>1, <2>1, <3>2, <3>3, <3>4, PrefixVerifies
  <2>5. CASE Stop
    BY <1>1, <2>5 DEF Stop
  <2>6. CASE UNCHANGED vars
    BY <1>1, <2>6 DEF vars
  <2> QED
    BY <1>1, <2>3, <2>4, <2>5, <2>6 DEF Next
<1>2. ChainInv /\ [Next]_vars => [Stays]_vars
  BY <1>1
<1>3. Spec => [][Stays]_vars
  BY <1>2, Invariance, PTL DEF Spec
<1> QED
  BY <1>3 DEF DamageIsPermanent

Registry == Seq([hash : Objects, status : Status])
Steps == [op : Ops, hash : Objects, val : Status \cup Decision \cup {"absent", "sent"}]

-----------------------------------------------------------------------------
(* The registry *)

Holds(reg, h, s) == \E i \in DOMAIN reg : reg[i] = Item(h, s)

\* No object has two slots.
Distinct(reg) == \A i, j \in DOMAIN reg : reg[i].hash = reg[j].hash => i = j

LEMMA RegistryFacts ==
  ASSUME NEW reg \in Registry
  PROVE  /\ Len(reg) \in Nat /\ DOMAIN reg = 1 .. Len(reg)
         /\ \A i \in 1 .. Len(reg) : /\ reg[i].hash \in Objects
                                     /\ reg[i].status \in Status
                                     /\ reg[i] = Item(reg[i].hash, reg[i].status)
<1>1. Len(reg) \in Nat /\ DOMAIN reg = 1 .. Len(reg)
  BY LenProperties DEF Registry
<1>2. \A i \in 1 .. Len(reg) : reg[i] \in [hash : Objects, status : Status]
  BY ElementOfSeq DEF Registry
<1> QED
  BY <1>1, <1>2 DEF Item

LEMMA ItemFacts ==
  ASSUME NEW h, NEW s, NEW x, NEW t
  PROVE  /\ Item(h, s).hash = h /\ Item(h, s).status = s
         /\ Item(h, s) = Item(x, t) <=> h = x /\ s = t
<1>1. Item(h, s).hash = h /\ Item(h, s).status = s
      /\ Item(x, t).hash = x /\ Item(x, t).status = t
  BY DEF Item
<1> QED
  BY <1>1

\* What is held is known, what is known is held with one status.
LEMMA HeldFacts ==
  ASSUME NEW reg \in Registry, NEW h
  PROVE  /\ \A s : Holds(reg, h, s) => Known(reg, h)
         /\ Known(reg, h) => \E s \in Status : Holds(reg, h, s)
         /\ Distinct(reg) =>
              \A s, t : Holds(reg, h, s) /\ Holds(reg, h, t) => s = t
         /\ \A S : Has(reg, h, S) <=> \E s \in S : Holds(reg, h, s)
<1>1. \A s : Holds(reg, h, s) => Known(reg, h)
  BY ItemFacts DEF Holds, Known
<1>2. Known(reg, h) => \E s \in Status : Holds(reg, h, s)
  BY RegistryFacts DEF Holds, Known
<1>3. Distinct(reg) => \A s, t : Holds(reg, h, s) /\ Holds(reg, h, t) => s = t
  <2> SUFFICES ASSUME Distinct(reg), NEW s, NEW t, Holds(reg, h, s), Holds(reg, h, t)
               PROVE  s = t
    OBVIOUS
  <2>1. PICK i \in DOMAIN reg : reg[i] = Item(h, s)
    BY DEF Holds
  <2>2. PICK j \in DOMAIN reg : reg[j] = Item(h, t)
    BY DEF Holds
  <2>3. /\ reg[i].hash = h /\ reg[i].status = s
        /\ reg[j].hash = h /\ reg[j].status = t
    BY <2>1, <2>2, ItemFacts
  <2>4. i = j
    BY <2>3 DEF Distinct
  <2> QED
    BY <2>3, <2>4
<1>4. ASSUME NEW S PROVE Has(reg, h, S) <=> \E s \in S : Holds(reg, h, s)
  <2>1. ASSUME Has(reg, h, S) PROVE \E s \in S : Holds(reg, h, s)
    <3>1. PICK i \in DOMAIN reg : reg[i].hash = h /\ reg[i].status \in S
      BY <2>1 DEF Has
    <3>2. reg[i] = Item(h, reg[i].status)
      BY <3>1, RegistryFacts
    <3> QED
      BY <3>1, <3>2 DEF Holds
  <2>2. ASSUME NEW s \in S, Holds(reg, h, s) PROVE Has(reg, h, S)
    BY <2>2, ItemFacts DEF Has, Holds
  <2> QED
    BY <2>1, <2>2
<1> QED
  BY <1>1, <1>2, <1>3, <1>4

\* A status is set.
LEMMA StatusFacts ==
  ASSUME NEW reg \in Registry, NEW h \in Objects, NEW s \in Status, NEW new,
         new = WithStatus(reg, h, s)
  PROVE  /\ new \in Registry /\ Len(new) = Len(reg)
         /\ Distinct(reg) => Distinct(new)
         /\ \A x : Known(new, x) <=> Known(reg, x)
         /\ \A x, t : Holds(new, x, t) <=>
              IF x = h THEN Known(reg, h) /\ t = s ELSE Holds(reg, x, t)
<1>1. /\ Len(reg) \in Nat /\ DOMAIN reg = 1 .. Len(reg)
      /\ \A i \in 1 .. Len(reg) : /\ reg[i].hash \in Objects
                                  /\ reg[i].status \in Status
                                  /\ reg[i] = Item(reg[i].hash, reg[i].status)
  BY RegistryFacts
<1>2. new = [i \in 1 .. Len(reg) |-> IF reg[i].hash = h THEN Item(h, s) ELSE reg[i]]
  BY <1>1 DEF WithStatus
<1>3. \A i \in 1 .. Len(reg) :
        /\ new[i] = IF reg[i].hash = h THEN Item(h, s) ELSE reg[i]
        /\ new[i].hash = reg[i].hash
        /\ new[i] \in [hash : Objects, status : Status]
  BY <1>1, <1>2 DEF Item
<1>4. new \in Registry /\ Len(new) = Len(reg) /\ DOMAIN new = 1 .. Len(reg)
  BY <1>1, <1>2, <1>3 DEF Registry
<1>5. \A x : Known(new, x) <=> Known(reg, x)
  BY <1>1, <1>3, <1>4 DEF Known
<1>6. ASSUME NEW x, NEW t
      PROVE  Holds(new, x, t) <=>
              IF x = h THEN Known(reg, h) /\ t = s ELSE Holds(reg, x, t)
  BY <1>1, <1>3, <1>4, ItemFacts DEF Holds, Known
<1> QED
  BY <1>1, <1>3, <1>4, <1>5, <1>6 DEF Distinct

\* item_add() of something new, with room or a rejected item to evict.
LEMMA AddFacts ==
  ASSUME NEW reg \in Registry, Len(reg) <= Slots, NEW h \in Objects,
         ~Known(reg, h), ~PoolFull(reg), NEW new, new = ItemAdd(reg, h)
  PROVE  /\ new \in Registry /\ Len(new) <= Slots
         /\ Distinct(reg) => Distinct(new)
         /\ Holds(new, h, "pending")
         /\ \A x, t : Holds(new, x, t) =>
              IF x = h THEN t = "pending" ELSE Holds(reg, x, t)
         /\ \A x, t : Holds(reg, x, t) /\ t # "rejected" => Holds(new, x, t)
<1>1. /\ Len(reg) \in Nat /\ DOMAIN reg = 1 .. Len(reg)
      /\ \A i \in 1 .. Len(reg) : /\ reg[i].hash \in Objects
                                  /\ reg[i].status \in Status
                                  /\ reg[i] = Item(reg[i].hash, reg[i].status)
  BY RegistryFacts
<1>2. /\ Item(h, "pending") \in [hash : Objects, status : Status]
      /\ Item(h, "pending").hash = h /\ Slots \in Nat
      /\ \A i \in 1 .. Len(reg) : reg[i].hash # h
  BY <1>1, SlotsAssumption DEF Item, Status, Known
<1>3. CASE Len(reg) < Slots
  <2>1. new = Append(reg, Item(h, "pending"))
    BY <1>3 DEF ItemAdd
  <2>2. /\ new \in Registry /\ Len(new) = Len(reg) + 1
        /\ DOMAIN new = 1 .. Len(reg) + 1
        /\ \A i \in 1 .. Len(reg) : new[i] = reg[i]
        /\ new[Len(reg) + 1] = Item(h, "pending")
    BY <1>2, <2>1, AppendProperties, LenProperties DEF Registry
  <2>3. Distinct(reg) => Distinct(new)
    BY <1>1, <1>2, <2>2 DEF Distinct
  <2>4. Holds(new, h, "pending")
    BY <1>1, <2>2 DEF Holds
  <2>5. ASSUME NEW x, NEW t, Holds(new, x, t)
        PROVE  IF x = h THEN t = "pending" ELSE Holds(reg, x, t)
    <3>1. PICK i \in 1 .. Len(reg) + 1 : new[i] = Item(x, t)
      BY <2>2, <2>5 DEF Holds
    <3>2. CASE i = Len(reg) + 1
      BY <2>2, <3>1, <3>2, ItemFacts
    <3>3. CASE i \in 1 .. Len(reg)
      <4>1. reg[i] = Item(x, t) /\ x # h
        BY <1>2, <2>2, <3>1, <3>3, ItemFacts
      <4> QED
        BY <1>1, <3>3, <4>1 DEF Holds
    <3> QED
      BY <1>1, <3>2, <3>3
  <2>6. \A x, t : Holds(reg, x, t) => Holds(new, x, t)
    BY <1>1, <2>2 DEF Holds
  <2> QED
    BY <1>1, <1>2, <1>3, <2>2, <2>3, <2>4, <2>5, <2>6
<1>4. CASE Len(reg) = Slots
  <2> DEFINE at == First(Rejected(reg))
  <2>1. new = [reg EXCEPT ![at] = Item(h, "pending")]
    BY <1>4, <1>2 DEF ItemAdd
  <2>2. Rejected(reg) # {} /\ Rejected(reg) \in SUBSET Nat
    BY <1>1, <1>4 DEF PoolFull, Rejected
  <2>3. at \in 1 .. Len(reg) /\ reg[at].status = "rejected"
    BY <1>1, <2>2, FirstIsMember DEF Rejected
  <2> HIDE DEF at
  <2>4. /\ new \in Registry /\ Len(new) = Len(reg)
        /\ DOMAIN new = 1 .. Len(reg)
        /\ \A i \in 1 .. Len(reg) : new[i] = IF i = at THEN Item(h, "pending") ELSE reg[i]
    BY <1>1, <1>2, <2>1, <2>3, ExceptSeq, LenProperties DEF Registry
  <2>5. Distinct(reg) => Distinct(new)
    BY <1>1, <1>2, <2>4 DEF Distinct
  <2>6. Holds(new, h, "pending")
    BY <2>3, <2>4 DEF Holds
  <2>7. ASSUME NEW x, NEW t, Holds(new, x, t)
        PROVE  IF x = h THEN t = "pending" ELSE Holds(reg, x, t)
    <3>1. PICK i \in 1 .. Len(reg) : new[i] = Item(x, t)
      BY <2>4, <2>7 DEF Holds
    <3>2. CASE i = at
      BY <2>4, <3>1, <3>2, ItemFacts
    <3>3. CASE i # at
      <4>1. reg[i] = Item(x, t) /\ x # h
        BY <1>2, <2>4, <3>1, <3>3, ItemFacts
      <4> QED
        BY <1>1, <4>1 DEF Holds
    <3> QED
      BY <3>2, <3>3
  <2>8. ASSUME NEW x, NEW t, Holds(reg, x, t), t # "rejected"
        PROVE  Holds(new, x, t)
    <3>1. PICK i \in 1 .. Len(reg) : reg[i] = Item(x, t)
      BY <1>1, <2>8 DEF Holds
    <3>2. i # at
      BY <2>3, <2>8, <3>1, ItemFacts
    <3> QED
      BY <2>4, <3>1, <3>2 DEF Holds
  <2> QED
    <3>1. Len(new) <= Slots
      BY <1>2, <1>4, <2>4
    <3> QED
      BY <2>4, <2>5, <2>6, <2>7, <2>8, <3>1
<1>5. Len(reg) < Slots \/ Len(reg) = Slots
  BY <1>1, <1>2
<1> QED
  BY <1>3, <1>4, <1>5

\* An item is taken out.
LEMMA WithoutFacts ==
  ASSUME NEW reg \in Registry, Distinct(reg), NEW h \in Objects, NEW new,
         new = Without(reg, h)
  PROVE  /\ new \in Registry /\ Len(new) <= Len(reg)
         /\ Distinct(new)
         /\ \A x, t : Holds(new, x, t) <=> x # h /\ Holds(reg, x, t)
<1> DEFINE hits == {i \in DOMAIN reg : reg[i].hash = h}
           at == First(hits)
<1>1. /\ Len(reg) \in Nat /\ DOMAIN reg = 1 .. Len(reg)
      /\ \A i \in 1 .. Len(reg) : /\ reg[i].hash \in Objects
                                  /\ reg[i].status \in Status
                                  /\ reg[i] = Item(reg[i].hash, reg[i].status)
  BY RegistryFacts
<1>2. CASE ~Known(reg, h)
  <2>1. new = reg
    BY <1>2 DEF Without
  <2>2. \A t : ~Holds(reg, h, t)
    BY <1>2, HeldFacts
  <2> QED
    BY <1>1, <2>1, <2>2
<1>3. CASE Known(reg, h)
  <2>1. new = [i \in 1 .. (Len(reg) - 1) |-> IF i < at THEN reg[i] ELSE reg[i + 1]]
    BY <1>3 DEF Without
  <2>2. hits # {} /\ hits \in SUBSET Nat
    BY <1>1, <1>3 DEF Known
  <2>3. at \in 1 .. Len(reg) /\ reg[at].hash = h
    BY <1>1, <2>2, FirstIsMember
  <2> HIDE DEF at, hits
  <2>4. Len(reg) - 1 \in Nat
    BY <1>1, <2>3
  <2>5. \A i \in 1 .. (Len(reg) - 1) :
          /\ new[i] = IF i < at THEN reg[i] ELSE reg[i + 1]
          /\ new[i] \in [hash : Objects, status : Status]
    BY <1>1, <2>1 DEF Item
  <2>6. new \in Registry /\ Len(new) = Len(reg) - 1 /\ DOMAIN new = 1 .. (Len(reg) - 1)
    BY <2>1, <2>4, <2>5 DEF Registry
  <2>7. \A i \in 1 .. Len(reg) : i # at => reg[i].hash # h
    BY <1>1, <2>3 DEF Distinct
  <2>8. ASSUME NEW i \in 1 .. (Len(reg) - 1), NEW j \in 1 .. (Len(reg) - 1),
               new[i].hash = new[j].hash
        PROVE  i = j
    <3> DEFINE back(k) == IF k < at THEN k ELSE k + 1
    <3>1. /\ back(i) \in 1 .. Len(reg) /\ back(j) \in 1 .. Len(reg)
          /\ new[i] = reg[back(i)] /\ new[j] = reg[back(j)]
      BY <1>1, <2>3, <2>5
    <3>2. back(i) = back(j)
      BY <1>1, <2>8, <3>1 DEF Distinct
    <3> QED
      BY <2>3, <3>2
  <2>9. ASSUME NEW x, NEW t, Holds(new, x, t)
        PROVE  x # h /\ Holds(reg, x, t)
    <3>1. PICK i \in 1 .. (Len(reg) - 1) : new[i] = Item(x, t)
      BY <2>6, <2>9 DEF Holds
    <3>2. PICK k \in 1 .. Len(reg) : k # at /\ reg[k] = Item(x, t)
      BY <1>1, <2>3, <2>5, <3>1
    <3> QED
      BY <1>1, <2>7, <3>2, ItemFacts DEF Holds
  <2>10. ASSUME NEW x, NEW t, x # h, Holds(reg, x, t)
         PROVE  Holds(new, x, t)
    <3>1. PICK k \in 1 .. Len(reg) : reg[k] = Item(x, t)
      BY <1>1, <2>10 DEF Holds
    <3>2. k # at
      BY <2>3, <2>10, <3>1, ItemFacts
    <3>3. CASE k < at
      <4>1. k \in 1 .. (Len(reg) - 1) /\ new[k] = Item(x, t)
        BY <1>1, <2>3, <2>5, <3>1, <3>3
      <4> QED
        BY <2>6, <4>1 DEF Holds
    <3>4. CASE k > at
      <4>1. k - 1 \in 1 .. (Len(reg) - 1) /\ ~(k - 1 < at) /\ k - 1 + 1 = k
        BY <1>1, <2>3, <3>4
      <4>2. new[k - 1] = Item(x, t)
        BY <2>5, <3>1, <4>1
      <4> QED
        BY <2>6, <4>1, <4>2 DEF Holds
    <3> QED
      BY <1>1, <2>3, <3>2, <3>3, <3>4
  <2> QED
    BY <1>1, <2>6, <2>8, <2>9, <2>10 DEF Distinct
<1> QED
  BY <1>2, <1>3

-----------------------------------------------------------------------------
(* What a handler has left to do *)

Among(q, op) == \E k \in DOMAIN q : q[k] = op

\* What may come after a step: the steps that follow from another come at once,
\* what is new comes after its shards, and a record comes before what it allows.
Precedes(a, b) == /\ b.op \notin {"add", "clear"}
                  /\ a.op # "save"
                  /\ a.op \in {"put", "add"} /\ a.val = "pending" => b.op = "note"
                  /\ a.op = "note" => b.op \in {"ready", "save"}
                  /\ a.op = "ready" => b.op = "save"

Sorted(q) == \A j, k \in DOMAIN q : j < k => Precedes(q[j], q[k])

LEMMA OpFields ==
  ASSUME NEW h, NEW s
  PROVE  /\ Put(h, s).op = "put" /\ Put(h, s).hash = h /\ Put(h, s).val = s
         /\ Add(h, s).op = "add" /\ Add(h, s).hash = h /\ Add(h, s).val = s
         /\ Mark(h, s).op = "mark" /\ Mark(h, s).hash = h /\ Mark(h, s).val = s
         /\ Save(h, s).op = "save" /\ Save(h, s).hash = h /\ Save(h, s).val = s
         /\ Note(s, h).op = "note" /\ Note(s, h).hash = h /\ Note(s, h).val = s
         /\ Ready(h).op = "ready" /\ Ready(h).hash = h
         /\ Unlink(h).op = "unlink" /\ Unlink(h).hash = h
         /\ Clear(h).op = "clear" /\ Clear(h).hash = h
BY DEF Put, Add, Mark, Save, Note, Ready, Unlink, Clear, Op

LEMMA OpTypes ==
  ASSUME NEW h \in Objects
  PROVE  /\ \A s \in Status : /\ Put(h, s) \in Steps /\ Add(h, s) \in Steps
                              /\ Mark(h, s) \in Steps /\ Save(h, s) \in Steps
         /\ \A t \in Decision : Note(t, h) \in Steps
         /\ Ready(h) \in Steps /\ Unlink(h) \in Steps /\ Clear(h) \in Steps
BY DEF Put, Add, Mark, Save, Note, Ready, Unlink, Clear, Op, Steps, Ops

LEMMA QueueFacts ==
  ASSUME NEW q \in Seq(Steps)
  PROVE  /\ Len(q) \in Nat /\ DOMAIN q = 1 .. Len(q)
         /\ \A op : Among(q, op) => op \in Steps
         /\ q # <<>> => /\ Head(q) = q[1] /\ Head(q) \in Steps /\ Len(q) >= 1
                        /\ Among(q, Head(q))
<1>1. Len(q) \in Nat /\ DOMAIN q = 1 .. Len(q)
  BY LenProperties
<1>2. \A op : Among(q, op) => op \in Steps
  BY <1>1, ElementOfSeq DEF Among
<1>3. ASSUME q # <<>>
      PROVE  /\ Head(q) = q[1] /\ Head(q) \in Steps /\ Len(q) >= 1
             /\ Among(q, Head(q))
  <2>1. Len(q) >= 1 /\ Head(q) = q[1]
    BY <1>1, <1>3, EmptySeq
  <2>2. 1 \in DOMAIN q
    BY <1>1, <2>1
  <2> QED
    BY <2>1, <2>2, <1>3, HeadTailProperties DEF Among
<1> QED
  BY <1>1, <1>2, <1>3

LEMMA TailFacts ==
  ASSUME NEW q \in Seq(Steps), q # <<>>
  PROVE  /\ Tail(q) \in Seq(Steps) /\ Len(q) \in Nat /\ Len(q) >= 1
         /\ Len(Tail(q)) = Len(q) - 1
         /\ \A k \in 1 .. (Len(q) - 1) : Tail(q)[k] = q[k + 1]
<1>1. Len(q) \in Nat /\ Len(q) >= 1
  BY QueueFacts
<1> QED
  BY <1>1, HeadTailProperties

\* The handler is one step further.
LEMMA DoneFacts ==
  ASSUME NEW q \in Seq(Steps), q # <<>>, Sorted(q), NEW new, new = <<>> \o Tail(q)
  PROVE  /\ new \in Seq(Steps) /\ Sorted(new)
         /\ \A op : Among(new, op) => Among(q, op) /\ Precedes(Head(q), op)
         /\ \A op : Among(q, op) => op = Head(q) \/ Among(new, op)
<1>1. /\ Tail(q) \in Seq(Steps) /\ Len(q) \in Nat /\ Len(q) >= 1
      /\ Len(Tail(q)) = Len(q) - 1
      /\ \A k \in 1 .. (Len(q) - 1) : Tail(q)[k] = q[k + 1]
  BY TailFacts
<1>2. new = Tail(q)
  BY <1>1, ConcatEmptySeq
<1>3. /\ DOMAIN q = 1 .. Len(q) /\ DOMAIN new = 1 .. (Len(q) - 1)
      /\ Head(q) = q[1]
  BY <1>1, <1>2, LenProperties, QueueFacts
<1>4. Sorted(new)
  <2> SUFFICES ASSUME NEW j \in 1 .. (Len(q) - 1), NEW k \in 1 .. (Len(q) - 1), j < k
               PROVE  Precedes(new[j], new[k])
    BY <1>3 DEF Sorted
  <2>1. j + 1 \in DOMAIN q /\ k + 1 \in DOMAIN q /\ j + 1 < k + 1
    BY <1>1, <1>3
  <2> QED
    BY <1>1, <1>2, <2>1 DEF Sorted
<1>5. ASSUME NEW op, Among(new, op)
      PROVE  Among(q, op) /\ Precedes(Head(q), op)
  <2>1. PICK k \in 1 .. (Len(q) - 1) : new[k] = op
    BY <1>3, <1>5 DEF Among
  <2>2. k + 1 \in DOMAIN q /\ 1 \in DOMAIN q /\ 1 < k + 1 /\ q[k + 1] = op
    BY <1>1, <1>2, <1>3, <2>1
  <2> QED
    BY <1>3, <2>2 DEF Among, Sorted
<1>6. ASSUME NEW op, Among(q, op), op # Head(q)
      PROVE  Among(new, op)
  <2>1. PICK k \in 1 .. Len(q) : q[k] = op
    BY <1>3, <1>6 DEF Among
  <2>2. k - 1 \in 1 .. (Len(q) - 1) /\ k - 1 + 1 = k
    BY <1>1, <1>3, <1>6, <2>1
  <2>3. new[k - 1] = op
    BY <1>1, <1>2, <2>1, <2>2
  <2> QED
    BY <1>3, <2>2, <2>3 DEF Among
<1> QED
  BY <1>1, <1>2, <1>4, <1>5, <1>6

\* A step is replaced by the one that follows from it.
LEMMA FollowedFacts ==
  ASSUME NEW q \in Seq(Steps), q # <<>>, Sorted(q), NEW c \in Steps,
         \A op : Precedes(Head(q), op) => Precedes(c, op),
         NEW new, new = <<c>> \o Tail(q)
  PROVE  /\ new \in Seq(Steps) /\ Sorted(new) /\ Among(new, c)
         /\ \A op : Among(new, op) =>
              op = c \/ (Among(q, op) /\ Precedes(Head(q), op))
         /\ \A op : Among(q, op) => op = Head(q) \/ Among(new, op)
<1>1. /\ Tail(q) \in Seq(Steps) /\ Len(q) \in Nat /\ Len(q) >= 1
      /\ Len(Tail(q)) = Len(q) - 1
      /\ \A k \in 1 .. (Len(q) - 1) : Tail(q)[k] = q[k + 1]
  BY TailFacts
<1>2. <<c>> \in Seq(Steps) /\ Len(<<c>>) = 1 /\ <<c>>[1] = c
  OBVIOUS
<1>3. /\ new \in Seq(Steps) /\ Len(new) = 1 + Len(Tail(q))
      /\ \A i \in 1 .. 1 + Len(Tail(q)) :
           new[i] = IF i <= 1 THEN <<c>>[i] ELSE Tail(q)[i - 1]
  BY <1>1, <1>2, ConcatProperties
<1>4. /\ DOMAIN q = 1 .. Len(q) /\ DOMAIN new = 1 .. Len(q)
      /\ Head(q) = q[1] /\ 1 \in 1 .. Len(q)
  BY <1>1, <1>3, LenProperties, QueueFacts
<1>5. new[1] = c /\ \A k \in 2 .. Len(q) : new[k] = q[k]
  <2>1. new[1] = c
    BY <1>1, <1>2, <1>3
  <2>2. ASSUME NEW k \in 2 .. Len(q) PROVE new[k] = q[k]
    <3>1. k \in 1 .. 1 + Len(Tail(q)) /\ ~(k <= 1) /\ k - 1 \in 1 .. (Len(q) - 1)
          /\ k - 1 + 1 = k
      BY <1>1
    <3> QED
      BY <1>1, <1>3, <3>1
  <2> QED
    BY <2>1, <2>2
<1>6. Sorted(new)
  <2> SUFFICES ASSUME NEW j \in 1 .. Len(q), NEW k \in 1 .. Len(q), j < k
               PROVE  Precedes(new[j], new[k])
    BY <1>4 DEF Sorted
  <2>1. k \in 2 .. Len(q) /\ new[k] = q[k] /\ Precedes(q[1], q[k])
    BY <1>4, <1>5 DEF Sorted
  <2>2. CASE j = 1
    BY <1>4, <1>5, <2>1, <2>2
  <2>3. CASE j # 1
    BY <1>4, <1>5, <2>1, <2>3 DEF Sorted
  <2> QED
    BY <2>2, <2>3
<1>7. ASSUME NEW op, Among(new, op), op # c
      PROVE  Among(q, op) /\ Precedes(Head(q), op)
  <2>1. PICK k \in 1 .. Len(q) : new[k] = op
    BY <1>4, <1>7 DEF Among
  <2>2. k \in 2 .. Len(q) /\ q[k] = op
    BY <1>5, <1>7, <2>1
  <2> QED
    BY <1>4, <2>2 DEF Among, Sorted
<1>8. ASSUME NEW op, Among(q, op), op # Head(q)
      PROVE  Among(new, op)
  <2>1. PICK k \in 1 .. Len(q) : q[k] = op
    BY <1>4, <1>8 DEF Among
  <2>2. k \in 2 .. Len(q)
    BY <1>4, <1>8, <2>1
  <2> QED
    BY <1>4, <1>5, <2>1, <2>2 DEF Among
<1> QED
  BY <1>3, <1>4, <1>5, <1>6, <1>7, <1>8 DEF Among

\* One list of steps after another.
LEMMA AfterFacts ==
  ASSUME NEW p \in Seq(Steps), NEW q \in Seq(Steps)
  PROVE  /\ p \o q \in Seq(Steps)
         /\ \A op : Among(p \o q, op) <=> Among(p, op) \/ Among(q, op)
         /\ Sorted(p) /\ Sorted(q)
            /\ (\A a, b : Among(p, a) /\ Among(q, b) => Precedes(a, b))
              => Sorted(p \o q)
<1> DEFINE r == p \o q
<1>1. /\ Len(p) \in Nat /\ Len(q) \in Nat
      /\ DOMAIN p = 1 .. Len(p) /\ DOMAIN q = 1 .. Len(q)
      /\ r \in Seq(Steps) /\ DOMAIN r = 1 .. Len(p) + Len(q)
      /\ \A i \in 1 .. Len(p) + Len(q) : r[i] = IF i <= Len(p) THEN p[i] ELSE q[i - Len(p)]
  <2>1. r \in Seq(Steps) /\ Len(r) = Len(p) + Len(q)
        /\ \A i \in 1 .. Len(p) + Len(q) : r[i] = IF i <= Len(p) THEN p[i] ELSE q[i - Len(p)]
    BY ConcatProperties
  <2> QED
    BY <2>1, LenProperties
<1> HIDE DEF r
<1>2. /\ \A i \in 1 .. Len(p) : i \in DOMAIN r /\ r[i] = p[i]
      /\ \A i \in 1 .. Len(q) : Len(p) + i \in DOMAIN r /\ r[Len(p) + i] = q[i]
  <2>1. ASSUME NEW i \in 1 .. Len(q)
        PROVE  Len(p) + i \in DOMAIN r /\ r[Len(p) + i] = q[i]
    <3>1. Len(p) + i \in 1 .. Len(p) + Len(q) /\ ~(Len(p) + i <= Len(p))
          /\ Len(p) + i - Len(p) = i
      BY <1>1
    <3> QED
      BY <1>1, <3>1
  <2> QED
    BY <1>1, <2>1
<1>3. \A i \in DOMAIN r : i \in 1 .. Len(p) \/ \E k \in 1 .. Len(q) : i = Len(p) + k
  <2> SUFFICES ASSUME NEW i \in 1 .. Len(p) + Len(q), ~(i \in 1 .. Len(p))
               PROVE  \E k \in 1 .. Len(q) : i = Len(p) + k
    BY <1>1
  <2>1. i - Len(p) \in 1 .. Len(q) /\ i = Len(p) + (i - Len(p))
    BY <1>1
  <2> QED
    BY <2>1
<1>4. ASSUME NEW op PROVE Among(r, op) <=> Among(p, op) \/ Among(q, op)
  <2>1. ASSUME Among(r, op) PROVE Among(p, op) \/ Among(q, op)
    <3>1. PICK i \in DOMAIN r : r[i] = op
      BY <2>1 DEF Among
    <3> QED
      BY <1>1, <1>2, <1>3, <3>1 DEF Among
  <2>2. ASSUME Among(p, op) \/ Among(q, op) PROVE Among(r, op)
    BY <1>1, <1>2, <2>2 DEF Among
  <2> QED
    BY <2>1, <2>2
<1>5. ASSUME Sorted(p), Sorted(q), \A a, b : Among(p, a) /\ Among(q, b) => Precedes(a, b),
             NEW j \in DOMAIN r, NEW k \in DOMAIN r, j < k
      PROVE  Precedes(r[j], r[k])
  <2>1. CASE j \in 1 .. Len(p) /\ k \in 1 .. Len(p)
    BY <1>1, <1>2, <1>5, <2>1 DEF Sorted
  <2>2. CASE j \in 1 .. Len(p) /\ \E n \in 1 .. Len(q) : k = Len(p) + n
    <3>1. PICK n \in 1 .. Len(q) : k = Len(p) + n
      BY <2>2
    <3>2. /\ r[j] = p[j] /\ r[k] = q[n] /\ j \in DOMAIN p /\ n \in DOMAIN q
      BY <1>1, <1>2, <2>2, <3>1
    <3>3. Among(p, r[j]) /\ Among(q, r[k])
      BY <3>2 DEF Among
    <3> QED
      BY <1>5, <3>3
  <2>3. CASE \E n \in 1 .. Len(q) : j = Len(p) + n
    <3>1. PICK m \in 1 .. Len(q) : j = Len(p) + m
      BY <2>3
    <3>2. PICK n \in 1 .. Len(q) : k = Len(p) + n
      BY <1>1, <1>3, <1>5, <3>1
    <3>3. m < n /\ r[j] = q[m] /\ r[k] = q[n]
      BY <1>1, <1>2, <1>5, <3>1, <3>2
    <3> QED
      BY <1>1, <1>5, <3>3 DEF Sorted
  <2> QED
    BY <1>3, <2>1, <2>2, <2>3
<1> QED
  BY <1>1, <1>4, <1>5 DEF r, Sorted

\* A status for each of some objects.
LEMMA MarkAllFacts ==
  ASSUME NEW hs \in Seq(Objects), NEW s \in Status
  PROVE  /\ MarkAll(hs, s) \in Seq(Steps) /\ Sorted(MarkAll(hs, s))
         /\ \A op : Among(MarkAll(hs, s), op)
              <=> \E h \in ToSet(hs) : op = Mark(h, s)
<1>1. /\ Len(hs) \in Nat /\ DOMAIN hs = 1 .. Len(hs)
      /\ \A i \in 1 .. Len(hs) : hs[i] \in Objects /\ Mark(hs[i], s) \in Steps
  BY LenProperties, ElementOfSeq, OpTypes
<1>2. MarkAll(hs, s) \in [1 .. Len(hs) -> Steps]
  BY <1>1 DEF MarkAll
<1>3. MarkAll(hs, s) \in Seq(Steps)
  BY <1>1, <1>2
<1>4. DOMAIN MarkAll(hs, s) = 1 .. Len(hs)
      /\ \A i \in 1 .. Len(hs) : MarkAll(hs, s)[i] = Mark(hs[i], s)
  BY DEF MarkAll
<1>5. Sorted(MarkAll(hs, s))
  BY <1>4, OpFields DEF Sorted, Precedes
<1>6. \A op : Among(MarkAll(hs, s), op) <=> \E h \in ToSet(hs) : op = Mark(h, s)
  BY <1>1, <1>4 DEF Among, ToSet
<1> QED
  BY <1>3, <1>5, <1>6

\* Two kinds of short lists.
LEMMA ShortFacts ==
  /\ \A a \in Steps : /\ <<a>> \in Seq(Steps) /\ Sorted(<<a>>)
                      /\ \A op : Among(<<a>>, op) <=> op = a
  /\ \A a, b \in Steps : Precedes(a, b) =>
       /\ <<a, b>> \in Seq(Steps) /\ Sorted(<<a, b>>)
       /\ \A op : Among(<<a, b>>, op) <=> op \in {a, b}
  /\ \A a, b, c \in Steps : Precedes(a, b) /\ Precedes(a, c) /\ Precedes(b, c) =>
       /\ <<a, b, c>> \in Seq(Steps) /\ Sorted(<<a, b, c>>)
       /\ \A op : Among(<<a, b, c>>, op) <=> op \in {a, b, c}
<1>1. ASSUME NEW a \in Steps
      PROVE  /\ <<a>> \in Seq(Steps) /\ Sorted(<<a>>)
             /\ \A op : Among(<<a>>, op) <=> op = a
  <2>1. <<a>> \in Seq(Steps) /\ DOMAIN <<a>> = {1} /\ <<a>>[1] = a
    OBVIOUS
  <2> QED
    BY <2>1 DEF Sorted, Among
<1>2. ASSUME NEW a \in Steps, NEW b \in Steps, Precedes(a, b)
      PROVE  /\ <<a, b>> \in Seq(Steps) /\ Sorted(<<a, b>>)
             /\ \A op : Among(<<a, b>>, op) <=> op \in {a, b}
  <2>1. /\ <<a, b>> \in Seq(Steps) /\ DOMAIN <<a, b>> = {1, 2}
        /\ <<a, b>>[1] = a /\ <<a, b>>[2] = b
    OBVIOUS
  <2> QED
    BY <1>2, <2>1 DEF Sorted, Among
<1>3. ASSUME NEW a \in Steps, NEW b \in Steps, NEW c \in Steps,
             Precedes(a, b), Precedes(a, c), Precedes(b, c)
      PROVE  /\ <<a, b, c>> \in Seq(Steps) /\ Sorted(<<a, b, c>>)
             /\ \A op : Among(<<a, b, c>>, op) <=> op \in {a, b, c}
  <2>1. /\ <<a, b, c>> \in Seq(Steps) /\ DOMAIN <<a, b, c>> = {1, 2, 3}
        /\ <<a, b, c>>[1] = a /\ <<a, b, c>>[2] = b /\ <<a, b, c>>[3] = c
    OBVIOUS
  <2> QED
    BY <1>3, <2>1 DEF Sorted, Among
<1> QED
  BY <1>1, <1>2, <1>3

-----------------------------------------------------------------------------
(* What the ledger says *)

\* Since the last approval of an object itself, it was named again.
Closed(h) == \A i \in DOMAIN log : log[i] = LogRecord("approve", h)
               => \E j \in DOMAIN log : i < j /\ log[j].hash = h

LEMMA RecordsFinite ==
  ASSUME NEW l \in Seq([type : Decision, hash : Objects]), NEW r
  PROVE  /\ IsFiniteSet({i \in DOMAIN l : l[i] = r})
         /\ Cardinality({i \in DOMAIN l : l[i] = r}) \in Nat
<1>1. Len(l) \in Nat /\ DOMAIN l = 1 .. Len(l)
  BY LenProperties
<1>2. IsFiniteSet(1 .. Len(l))
  BY <1>1, FS_Interval
<1>3. IsFiniteSet({i \in DOMAIN l : l[i] = r})
  BY <1>1, <1>2, FS_Subset
<1> QED
  BY <1>3, FS_CardinalityType

LEMMA NoteFacts ==
  ASSUME log \in Seq([type : Decision, hash : Objects]), NEW t \in Decision,
         NEW d \in Objects, log' = Append(log, LogRecord(t, d))
  PROVE  /\ log' \in Seq([type : Decision, hash : Objects])
         /\ \A x : /\ Vouched(x) /\ (t = "reject" => x \notin Covers(d)) => Vouched(x)'
                   /\ t = "approve" /\ x \in Covers(d) => Vouched(x)'
         /\ \A x : Closed(x) /\ (t # "approve" \/ x # d) => Closed(x)'
         /\ t # "approve" => Closed(d)'
         /\ \A x \in Objects : /\ Records("approve", x) \in Nat
                               /\ Records("approve", x)' \in Nat
                               /\ Records("approve", x)' >= Records("approve", x)
         /\ t = "approve" => Records("approve", d)' = Records("approve", d) + 1
         /\ ApprovedOnce /\ crashes' = crashes
            /\ (t = "approve" /\ d \notin Shards /\ crashes = 0 => Closed(d))
              => ApprovedOnce'
<1> DEFINE r == LogRecord(t, d)
           n == Len(log) + 1
<1>1. /\ r \in [type : Decision, hash : Objects]
      /\ r.type = t /\ r.hash = d
      /\ \A u, x : r = LogRecord(u, x) <=> u = t /\ x = d
      /\ \A u, x : LogRecord(u, x).type = u /\ LogRecord(u, x).hash = x
  BY DEF LogRecord
<1>2. /\ log' \in Seq([type : Decision, hash : Objects])
      /\ Len(log) \in Nat /\ n \in Nat
      /\ DOMAIN log = 1 .. Len(log) /\ DOMAIN log' = 1 .. n
      /\ \A i \in 1 .. Len(log) : log'[i] = log[i]
      /\ log'[n] = r
  BY <1>1, AppendProperties, LenProperties
<1> HIDE DEF r
<1>3. \A i \in DOMAIN log' : i \in DOMAIN log \/ i = n
  BY <1>2
<1>4. /\ \A i \in DOMAIN log : i \in DOMAIN log' /\ i < n
      /\ n \in DOMAIN log'
  BY <1>2
<1>5. ASSUME NEW x, Vouched(x), t = "reject" => x \notin Covers(d)
      PROVE  Vouched(x)'
  <2>1. PICK i \in DOMAIN log :
          /\ log[i].type = "approve" /\ x \in Covers(log[i].hash)
          /\ \A j \in DOMAIN log : j > i /\ log[j].type = "reject"
                                     => x \notin Covers(log[j].hash)
    BY <1>5 DEF Vouched
  <2>2. i \in DOMAIN log' /\ log'[i].type = "approve" /\ x \in Covers(log'[i].hash)
    BY <1>2, <1>4, <2>1
  <2>3. \A j \in DOMAIN log' : j > i /\ log'[j].type = "reject"
                                 => x \notin Covers(log'[j].hash)
    BY <1>1, <1>2, <1>3, <1>5, <2>1
  <2> QED
    BY <2>2, <2>3 DEF Vouched, Covers
<1>6. ASSUME NEW x, t = "approve", x \in Covers(d)
      PROVE  Vouched(x)'
  <2>1. n \in DOMAIN log' /\ log'[n].type = "approve" /\ x \in Covers(log'[n].hash)
    BY <1>1, <1>2, <1>4, <1>6
  <2>2. \A j \in DOMAIN log' : ~(j > n)
    BY <1>2
  <2> QED
    BY <2>1, <2>2 DEF Vouched, Covers
<1>7. ASSUME NEW x, Closed(x), t # "approve" \/ x # d
      PROVE  Closed(x)'
  <2> SUFFICES ASSUME NEW i \in DOMAIN log', log'[i] = LogRecord("approve", x)
               PROVE  \E j \in DOMAIN log' : i < j /\ log'[j].hash = x
    BY DEF Closed
  <2>1. i # n
    BY <1>1, <1>2, <1>7
  <2>2. i \in DOMAIN log /\ log[i] = LogRecord("approve", x)
    BY <1>2, <1>3, <2>1
  <2>3. PICK j \in DOMAIN log : i < j /\ log[j].hash = x
    BY <1>7, <2>2 DEF Closed
  <2> QED
    BY <1>2, <1>4, <2>3
<1>8. ASSUME t # "approve" PROVE Closed(d)'
  <2> SUFFICES ASSUME NEW i \in DOMAIN log', log'[i] = LogRecord("approve", d)
               PROVE  \E j \in DOMAIN log' : i < j /\ log'[j].hash = d
    BY DEF Closed
  <2>1. i # n
    BY <1>1, <1>2, <1>8
  <2>2. i < n /\ log'[n].hash = d
    BY <1>1, <1>2, <1>3, <1>4, <2>1
  <2> QED
    BY <1>4, <2>2
<1>9. ASSUME NEW x \in Objects
      PROVE  /\ Records("approve", x) \in Nat
             /\ Records("approve", x)' \in Nat
             /\ Records("approve", x)' =
                  IF t = "approve" /\ x = d THEN Records("approve", x) + 1
                  ELSE Records("approve", x)
  <2> DEFINE old == {i \in DOMAIN log : log[i] = LogRecord("approve", x)}
             new == {i \in DOMAIN log' : log'[i] = LogRecord("approve", x)}
  <2>1. IsFiniteSet(old) /\ Cardinality(old) \in Nat /\ Cardinality(new) \in Nat
    BY <1>2, RecordsFinite
  <2>2. n \notin old
    BY <1>2
  <2>3. new = IF t = "approve" /\ x = d THEN old \union {n} ELSE old
    BY <1>1, <1>2, <1>3, <1>4
  <2>4. Records("approve", x) = Cardinality(old)
    BY DEF Records
  <2>5. Records("approve", x)' = Cardinality(new)
    BY DEF Records, LogRecord
  <2> HIDE DEF old, new
  <2>6. Cardinality(old \union {n}) = Cardinality(old) + 1
    BY <2>1, <2>2, FS_AddElement
  <2> QED
    BY <2>1, <2>3, <2>4, <2>5, <2>6
<1>10. ASSUME ApprovedOnce, crashes' = crashes,
              t = "approve" /\ d \notin Shards /\ crashes = 0 => Closed(d)
       PROVE  ApprovedOnce'
  <2>1. ASSUME crashes' = 0, NEW x \in Objects \ Shards,
               NEW i \in 1 .. n, NEW j \in 1 .. n,
               i < j /\ log'[i] = log'[j] /\ log'[i] = LogRecord("approve", x)
        PROVE  \E k \in (i + 1) .. (j - 1) : log'[k].hash = x
    <3>1. crashes = 0 /\ log'[j] = LogRecord("approve", x)
      BY <1>10, <2>1
    <3>2. i \in DOMAIN log /\ i \in Nat /\ log[i] = LogRecord("approve", x)
      BY <1>2, <2>1
    <3>3. CASE j \in DOMAIN log
      <4>1. log[j] = LogRecord("approve", x)
        BY <1>2, <3>1, <3>3
      <4>2. PICK k \in (i + 1) .. (j - 1) : log[k].hash = x
        BY <1>10, <2>1, <3>1, <3>2, <3>3, <4>1 DEF ApprovedOnce
      <4>3. k \in 1 .. Len(log)
        BY <1>2, <3>2, <3>3, <4>2
      <4> QED
        BY <1>2, <4>2, <4>3
    <3>4. CASE j = n
      <4>1. t = "approve" /\ x = d
        BY <1>1, <1>2, <3>1, <3>4
      <4>2. PICK k \in DOMAIN log : i < k /\ log[k].hash = x
        BY <1>10, <2>1, <3>1, <3>2, <4>1 DEF Closed
      <4>3. k \in (i + 1) .. (j - 1) /\ log'[k].hash = x
        BY <1>2, <3>2, <3>4, <4>2
      <4> QED
        BY <4>3
    <3> QED
      BY <1>2, <3>3, <3>4
  <2>2. crashes' = 0 => \A x \in Objects \ Shards : \A i, j \in DOMAIN log' :
          /\ i < j /\ log'[i] = log'[j] /\ log'[i] = LogRecord("approve", x)
          => \E k \in (i + 1) .. (j - 1) : log'[k].hash = x
    <3> HAVE crashes' = 0
    <3> TAKE x \in Objects \ Shards
    <3> TAKE i, j \in DOMAIN log'
    <3>1. i \in 1 .. n /\ j \in 1 .. n
      BY <1>2
    <3> HAVE i < j /\ log'[i] = log'[j] /\ log'[i] = LogRecord("approve", x)
    <3> QED
      BY <2>1, <3>1
  <2> QED
    BY <2>2 DEF ApprovedOnce
<1>11. \A x \in Objects : /\ Records("approve", x) \in Nat
                          /\ Records("approve", x)' \in Nat
                          /\ Records("approve", x)' >= Records("approve", x)
  <2> SUFFICES ASSUME NEW x \in Objects
               PROVE  /\ Records("approve", x) \in Nat
                      /\ Records("approve", x)' \in Nat
                      /\ Records("approve", x)' >= Records("approve", x)
    OBVIOUS
  <2> QED
    BY <1>9
<1>12. t = "approve" => Records("approve", d)' = Records("approve", d) + 1
  BY <1>9
<1> QED
  BY <1>2, <1>5, <1>6, <1>7, <1>8, <1>10, <1>11, <1>12

-----------------------------------------------------------------------------
(* The invariant *)

Left(op) == Among(todo, op)

Listed(h) == IF h \in Manifests THEN ToSet(Parts[h]) ELSE {}

\* The ledger vouches for every object that is a submission of its own, and for
\* the shards as long as nothing has crashed.
Trusted(h) == h \notin Shards \/ crashes = 0

IngestOps(x) ==
  {Put(s, "shard") : s \in Shards} \cup {Add(s, "shard") : s \in Shards}
    \cup {Mark(s, "shard") : s \in Shards}
    \cup {Put(x, "pending"), Add(x, "pending"), Note("submit", x)}
ApproveOps(x) == {Mark(s, "approved") : s \in Listed(x)}
                   \cup {Note("approve", x), Ready(x), Save(x, "approved")}
RejectOps(x) == {Mark(s, "rejected") : s \in Covers(x)} \cup {Note("reject", x)}
DeleteOps == {Unlink(h) : h \in Objects} \cup {Clear(h) : h \in Objects}

Only(ops) == \A op : Left(op) => op \in ops

\* An object that is not approved may be, as far as the ledger is concerned.
MayBeApproved(x) ==
  x \notin Shards /\ crashes = 0 =>
    \A s \in Status \ {"approved"} : Holds(items, x, s) => Closed(x)

\* What is left to do of an ingestion, an approval, a rejection and a deletion.
Ingesting(x) ==
  /\ Only(IngestOps(x))
  /\ Left(Put(x, "pending")) \/ Left(Add(x, "pending")) =>
       Left(Note("submit", x)) /\ MayBeApproved(x)
  /\ \A s \in Shards : /\ Left(Note("submit", x))
                       /\ Left(Put(s, "shard")) \/ Left(Add(s, "shard"))
                       => Left(Put(x, "pending"))
  /\ \A h \in Objects, s \in Status : Left(Add(h, s)) => obj[h] # "absent"
Approving(x) ==
  /\ Only(ApproveOps(x))
  /\ Holds(items, x, "approved")
  /\ \A s \in Listed(x) : Left(Mark(s, "approved")) => Left(Note("approve", x))
  /\ Left(Ready(x)) => \/ Left(Note("approve", x))
                       \/ announced[x] < Records("approve", x)
  /\ Left(Note("approve", x)) /\ x \notin Shards /\ crashes = 0 => Closed(x)
Rejecting(x) ==
  /\ Only(RejectOps(x))
  /\ Left(Note("reject", x))
  /\ Known(items, x)
  /\ meta[x] = "rejected" \/ Left(Mark(x, "rejected"))
  /\ \A h \in Covers(x) : Trusted(h) /\ Holds(items, h, "approved")
                            => Left(Mark(h, "rejected"))
Deleting == Only(DeleteOps)

Plan == \/ todo = <<>>
        \/ \E x \in Objects : Ingesting(x) \/ Approving(x) \/ Rejecting(x)
        \/ Deleting

\* An item is what its files say, or is about to be.
OnFile ==
  \A h \in Objects, s \in Status : Holds(items, h, s) =>
    /\ obj[h] # "absent" \/ Left(Clear(h))
    /\ meta[h] = s \/ Left(Save(h, s))

MetaVouched == \A h \in Objects \ Shards : meta[h] = "approved" => Vouched(h)

\* An approved item is on record, or is about to be.
ItemsVouched ==
  \A h \in Objects : Holds(items, h, "approved") /\ Trusted(h) =>
    Vouched(h) \/ \E x \in Objects : h \in Covers(x) /\ Left(Note("approve", x))

\* Without a crash, what is on disk and not rejected is in the registry.
Uncrashed ==
  crashes = 0 =>
    /\ up
    /\ \A h \in Objects : /\ meta[h] \notin {"absent", "rejected"} => Known(items, h)
                          /\ obj[h] # "torn"

\* Without a crash, an object is not approved because it has been named in the
\* ledger since its last approval, or is about to be.
OnceOpen ==
  crashes = 0 =>
    \A h \in Objects \ Shards, s \in Status \ {"approved"} : Holds(items, h, s) =>
      Closed(h) \/ Left(Note("submit", h)) \/ Left(Note("reject", h))

DownIsEmpty == ~up => items = <<>> /\ todo = <<>>

CustodianInv ==
  /\ CustodianTypeOK /\ Distinct(items) /\ Sorted(todo) /\ Plan
  /\ OnFile /\ MetaVouched /\ ItemsVouched /\ Uncrashed
  /\ AnnouncedOnRecord /\ ApprovedOnce /\ OnceOpen /\ DownIsEmpty

-----------------------------------------------------------------------------
(* What each plan may have left, by the kind of the step *)

LEMMA IngestKinds ==
  ASSUME NEW x
  PROVE  \A h, s : /\ Put(h, s) \in IngestOps(x) <=>
                        (h \in Shards /\ s = "shard") \/ (h = x /\ s = "pending")
                   /\ Add(h, s) \in IngestOps(x) <=>
                        (h \in Shards /\ s = "shard") \/ (h = x /\ s = "pending")
                   /\ Mark(h, s) \in IngestOps(x) <=> h \in Shards /\ s = "shard"
                   /\ Note(s, h) \in IngestOps(x) <=> h = x /\ s = "submit"
                   /\ Save(h, s) \notin IngestOps(x) /\ Ready(h) \notin IngestOps(x)
                   /\ Unlink(h) \notin IngestOps(x) /\ Clear(h) \notin IngestOps(x)
<1>1. \A op : op \in IngestOps(x) <=>
        \/ \E z \in Shards : op \in {Put(z, "shard"), Add(z, "shard"), Mark(z, "shard")}
        \/ op \in {Put(x, "pending"), Add(x, "pending"), Note("submit", x)}
  BY DEF IngestOps
<1> SUFFICES ASSUME NEW h, NEW s
             PROVE  /\ Put(h, s) \in IngestOps(x) <=>
                         (h \in Shards /\ s = "shard") \/ (h = x /\ s = "pending")
                    /\ Add(h, s) \in IngestOps(x) <=>
                         (h \in Shards /\ s = "shard") \/ (h = x /\ s = "pending")
                    /\ Mark(h, s) \in IngestOps(x) <=> h \in Shards /\ s = "shard"
                    /\ Note(s, h) \in IngestOps(x) <=> h = x /\ s = "submit"
                    /\ Save(h, s) \notin IngestOps(x) /\ Ready(h) \notin IngestOps(x)
                    /\ Unlink(h) \notin IngestOps(x) /\ Clear(h) \notin IngestOps(x)
  OBVIOUS
<1>2. /\ Save(h, s) \notin IngestOps(x) /\ Ready(h) \notin IngestOps(x)
      /\ Unlink(h) \notin IngestOps(x) /\ Clear(h) \notin IngestOps(x)
  BY <1>1, OpFields
<1>3. /\ Mark(h, s) \in IngestOps(x) <=> h \in Shards /\ s = "shard"
      /\ Note(s, h) \in IngestOps(x) <=> h = x /\ s = "submit"
  BY <1>1, OpFields
<1>4. Put(h, s) \in IngestOps(x) <=>
        (h \in Shards /\ s = "shard") \/ (h = x /\ s = "pending")
  BY <1>1, OpFields
<1>5. Add(h, s) \in IngestOps(x) <=>
        (h \in Shards /\ s = "shard") \/ (h = x /\ s = "pending")
  BY <1>1, OpFields
<1> QED
  BY <1>2, <1>3, <1>4, <1>5

LEMMA ApproveKinds ==
  ASSUME NEW x
  PROVE  \A h, s : /\ Mark(h, s) \in ApproveOps(x) <=> h \in Listed(x) /\ s = "approved"
                   /\ Note(s, h) \in ApproveOps(x) <=> h = x /\ s = "approve"
                   /\ Ready(h) \in ApproveOps(x) <=> h = x
                   /\ Save(h, s) \in ApproveOps(x) <=> h = x /\ s = "approved"
                   /\ Put(h, s) \notin ApproveOps(x) /\ Add(h, s) \notin ApproveOps(x)
                   /\ Unlink(h) \notin ApproveOps(x) /\ Clear(h) \notin ApproveOps(x)
BY OpFields DEF ApproveOps

LEMMA RejectKinds ==
  ASSUME NEW x
  PROVE  \A h, s : /\ Mark(h, s) \in RejectOps(x) <=> h \in Covers(x) /\ s = "rejected"
                   /\ Note(s, h) \in RejectOps(x) <=> h = x /\ s = "reject"
                   /\ Put(h, s) \notin RejectOps(x) /\ Add(h, s) \notin RejectOps(x)
                   /\ Save(h, s) \notin RejectOps(x) /\ Ready(h) \notin RejectOps(x)
                   /\ Unlink(h) \notin RejectOps(x) /\ Clear(h) \notin RejectOps(x)
BY OpFields DEF RejectOps

LEMMA DeleteKinds ==
  \A h, s : /\ Put(h, s) \notin DeleteOps /\ Add(h, s) \notin DeleteOps
            /\ Mark(h, s) \notin DeleteOps /\ Save(h, s) \notin DeleteOps
            /\ Note(s, h) \notin DeleteOps /\ Ready(h) \notin DeleteOps
<1>1. \A op \in DeleteOps : op.op \in {"unlink", "clear"}
  BY OpFields DEF DeleteOps
<1> QED
  BY <1>1, OpFields

\* The next step tells what the handler is doing.
LEMMA HeadKinds ==
  ASSUME CustodianTypeOK, Plan, todo # <<>>
  PROVE  /\ Head(todo).op \in {"put", "add"} => \E x \in Objects : Ingesting(x) /\
              \/ Head(todo) = Put(x, "pending")
              \/ Head(todo) = Add(x, "pending")
              \/ \E s \in Shards : Head(todo) \in {Put(s, "shard"), Add(s, "shard")}
         /\ Head(todo).op = "mark" => \E x \in Objects :
              \/ Ingesting(x) /\ \E s \in Shards : Head(todo) = Mark(s, "shard")
              \/ Approving(x) /\ \E s \in Listed(x) : Head(todo) = Mark(s, "approved")
              \/ Rejecting(x) /\ \E s \in Covers(x) : Head(todo) = Mark(s, "rejected")
         /\ Head(todo).op = "save" => \E x \in Objects :
              Approving(x) /\ Head(todo) = Save(x, "approved")
         /\ Head(todo).op = "note" => \E x \in Objects :
              \/ Ingesting(x) /\ Head(todo) = Note("submit", x)
              \/ Approving(x) /\ Head(todo) = Note("approve", x)
              \/ Rejecting(x) /\ Head(todo) = Note("reject", x)
         /\ Head(todo).op = "ready" => \E x \in Objects :
              Approving(x) /\ Head(todo) = Ready(x)
         /\ Head(todo).op = "unlink" =>
              Deleting /\ \E h \in Objects : Head(todo) = Unlink(h)
         /\ Head(todo).op = "clear" =>
              Deleting /\ \E h \in Objects : Head(todo) = Clear(h)
<1> DEFINE o == Head(todo)
<1>1. Left(o)
  BY QueueFacts DEF CustodianTypeOK, Steps, Left
<1> HIDE DEF o
<1>2. ASSUME NEW x \in Objects, Ingesting(x)
      PROVE  \/ o = Put(x, "pending") /\ o.op = "put"
             \/ o = Add(x, "pending") /\ o.op = "add"
             \/ o = Note("submit", x) /\ o.op = "note"
             \/ \E s \in Shards : \/ o = Put(s, "shard") /\ o.op = "put"
                                  \/ o = Add(s, "shard") /\ o.op = "add"
                                  \/ o = Mark(s, "shard") /\ o.op = "mark"
  <2>1. o \in IngestOps(x)
    BY <1>1, <1>2 DEF Ingesting, Only
  <2> QED
    BY <2>1, OpFields DEF IngestOps
<1>3. ASSUME NEW x \in Objects, Approving(x)
      PROVE  \/ \E s \in Listed(x) : o = Mark(s, "approved") /\ o.op = "mark"
             \/ o = Note("approve", x) /\ o.op = "note"
             \/ o = Ready(x) /\ o.op = "ready"
             \/ o = Save(x, "approved") /\ o.op = "save"
  <2>1. o \in ApproveOps(x)
    BY <1>1, <1>3 DEF Approving, Only
  <2> QED
    BY <2>1, OpFields DEF ApproveOps
<1>4. ASSUME NEW x \in Objects, Rejecting(x)
      PROVE  \/ \E s \in Covers(x) : o = Mark(s, "rejected") /\ o.op = "mark"
             \/ o = Note("reject", x) /\ o.op = "note"
  <2>1. o \in RejectOps(x)
    BY <1>1, <1>4 DEF Rejecting, Only
  <2> QED
    BY <2>1, OpFields DEF RejectOps
<1>5. ASSUME Deleting
      PROVE  \E h \in Objects : \/ o = Unlink(h) /\ o.op = "unlink"
                                \/ o = Clear(h) /\ o.op = "clear"
  <2>1. o \in DeleteOps
    BY <1>1, <1>5 DEF Deleting, Only
  <2> QED
    BY <2>1, OpFields DEF DeleteOps
<1>6. \/ \E x \in Objects : Ingesting(x) \/ Approving(x) \/ Rejecting(x)
      \/ Deleting
  BY DEF Plan
<1>7. CASE Deleting
  BY <1>5, <1>7 DEF o
<1>8. CASE \E x \in Objects : Ingesting(x) \/ Approving(x) \/ Rejecting(x)
  <2>1. PICK x \in Objects : Ingesting(x) \/ Approving(x) \/ Rejecting(x)
    BY <1>8
  <2>2. CASE Ingesting(x)
    BY <1>2, <2>2 DEF o
  <2>3. CASE Approving(x)
    BY <1>3, <2>3 DEF o
  <2>4. CASE Rejecting(x)
    BY <1>4, <2>4 DEF o
  <2> QED
    BY <2>1, <2>2, <2>3, <2>4
<1> QED
  BY <1>6, <1>7, <1>8

\* A step is done: what is left comes after it, and the rest stays.
LEMMA StepDone ==
  ASSUME CustodianTypeOK, Sorted(todo), todo # <<>>, Then(<<>>)
  PROVE  /\ todo' \in Seq(Steps) /\ Sorted(todo')
         /\ \A op : Left(op)' => Left(op) /\ Precedes(Head(todo), op)
         /\ \A op : Left(op) => op = Head(todo) \/ Left(op)'
BY DoneFacts DEF CustodianTypeOK, Steps, Then, Left

LEMMA StepFollowed ==
  ASSUME CustodianTypeOK, Sorted(todo), todo # <<>>, NEW c \in Steps,
         \A op : Precedes(Head(todo), op) => Precedes(c, op),
         Then(<<c>>)
  PROVE  /\ todo' \in Seq(Steps) /\ Sorted(todo') /\ Left(c)'
         /\ \A op : Left(op)' => op = c \/ (Left(op) /\ Precedes(Head(todo), op))
         /\ \A op : Left(op) => op = Head(todo) \/ Left(op)'
BY FollowedFacts DEF CustodianTypeOK, Steps, Then, Left

-----------------------------------------------------------------------------
(* Every step keeps the invariant *)

LEMMA RangeOfParts ==
  \A h \in Manifests : ToSet(Parts[h]) \subseteq Shards
<1> SUFFICES ASSUME NEW h \in Manifests
             PROVE  ToSet(Parts[h]) \subseteq Shards
  OBVIOUS
<1>1. Parts[h] \in Seq(Shards)
  BY PartsAssumption
<1> QED
  BY <1>1, LenProperties, ElementOfSeq DEF ToSet

LEMMA PutKeeps ==
  ASSUME CustodianInv, PutStep, UNCHANGED <<up, torn, crashes>>
  PROVE  CustodianInv'
<1> USE DEF CustodianInv
<1>1. todo # <<>> /\ Head(todo).op = "put" /\ up
  BY DEF PutStep, Due
<1>2. PICK x \in Objects : Ingesting(x) /\
         \/ Head(todo) = Put(x, "pending")
         \/ Head(todo) = Add(x, "pending")
         \/ \E s \in Shards : Head(todo) \in {Put(s, "shard"), Add(s, "shard")}
  BY <1>1, HeadKinds
<1>3. PICK d \in Objects, v \in {"pending", "shard"} :
         /\ Head(todo) = Put(d, v)
         /\ (v = "pending" /\ d = x) \/ (v = "shard" /\ d \in Shards)
  BY <1>1, <1>2, OpFields DEF Objects
<1>4. Subject = d /\ Head(todo).val = v
  BY <1>3, OpFields DEF Subject
<1>5. /\ todo' \in Seq(Steps) /\ Sorted(todo') /\ Left(Add(d, v))'
      /\ \A op : Left(op)' =>
           op = Add(d, v) \/ (Left(op) /\ Precedes(Put(d, v), op))
      /\ \A op : Left(op) => op = Put(d, v) \/ Left(op)'
  <2>1. Add(d, v) \in Steps
    BY OpTypes DEF Status
  <2>2. \A op : Precedes(Put(d, v), op) => Precedes(Add(d, v), op)
    BY OpFields DEF Precedes
  <2>3. Then(<<Add(d, v)>>)
    BY <1>4 DEF PutStep
  <2> QED
    BY <1>1, <1>3, <2>1, <2>2, <2>3, StepFollowed
<1>6. /\ obj' \in [Objects -> {"absent", "whole", "torn"}]
      /\ obj'[d] # "absent"
      /\ \A h \in Objects : /\ obj[h] # "absent" => obj'[h] # "absent"
                            /\ obj'[h] = "torn" => obj[h] = "torn"
  BY <1>4 DEF PutStep, CustodianTypeOK
<1>7. UNCHANGED <<up, items, meta, log, torn, announced, crashes>>
  BY DEF PutStep
<1>8. Left(Put(d, v))
  BY <1>1, <1>3, QueueFacts DEF CustodianTypeOK, Steps, Left
<1>9. Ingesting(x)'
  <2>1. Only(IngestOps(x))'
    BY <1>2, <1>3, <1>5, IngestKinds DEF Ingesting, Only, IngestOps
  <2>2. Left(Put(x, "pending"))' \/ Left(Add(x, "pending"))'
          => Left(Note("submit", x))' /\ MayBeApproved(x)'
    <3> HAVE Left(Put(x, "pending"))' \/ Left(Add(x, "pending"))'
    <3>1. Left(Put(x, "pending")) \/ Left(Add(x, "pending"))
      BY <1>5, <1>8, OpFields
    <3>2. Left(Note("submit", x)) /\ MayBeApproved(x)
      BY <1>2, <3>1 DEF Ingesting
    <3> QED
      BY <1>5, <1>7, <3>2, OpFields DEF MayBeApproved, Closed
  <2>3. ASSUME NEW s \in Shards, Left(Note("submit", x))',
               Left(Put(s, "shard"))' \/ Left(Add(s, "shard"))'
        PROVE  Left(Put(x, "pending"))'
    <3>1. Left(Note("submit", x))
      BY <1>5, <2>3, OpFields
    <3>2. Left(Put(s, "shard")) \/ Left(Add(s, "shard"))
      BY <1>5, <1>8, <2>3, OpFields
    <3>3. Left(Put(x, "pending"))
      BY <1>2, <3>1, <3>2 DEF Ingesting
    <3>4. v # "pending"
      BY <1>5, <2>3, OpFields DEF Precedes
    <3> QED
      BY <1>5, <3>3, <3>4, OpFields
  <2>4. \A h \in Objects, s \in Status : Left(Add(h, s))' => obj'[h] # "absent"
    BY <1>2, <1>5, <1>6, OpFields DEF Ingesting
  <2> QED
    BY <2>1, <2>2, <2>3, <2>4 DEF Ingesting
<1>10. CustodianTypeOK'
  BY <1>5, <1>6, <1>7 DEF CustodianTypeOK, Steps
<1>11. Plan'
  BY <1>9 DEF Plan
<1>12. OnFile'
  BY <1>5, <1>6, <1>7, OpFields DEF OnFile
<1>13. ItemsVouched'
  BY <1>5, <1>7, OpFields DEF ItemsVouched, Trusted, Vouched
<1>14. OnceOpen'
  BY <1>5, <1>7, OpFields DEF OnceOpen, Closed
<1>15. Uncrashed'
  BY <1>6, <1>7 DEF Uncrashed
<1>16. MetaVouched' /\ AnnouncedOnRecord' /\ ApprovedOnce' /\ DownIsEmpty'
  BY <1>1, <1>7 DEF MetaVouched, Vouched, AnnouncedOnRecord, Records, ApprovedOnce, DownIsEmpty
<1> QED
  BY <1>5, <1>7, <1>10, <1>11, <1>12, <1>13, <1>14, <1>15, <1>16

LEMMA AddKeeps ==
  ASSUME CustodianInv, AddStep, UNCHANGED <<up, torn, crashes>>
  PROVE  CustodianInv'
<1> USE DEF CustodianInv
<1>1. todo # <<>> /\ Head(todo).op = "add" /\ up
  BY DEF AddStep, Due
<1>2. PICK x \in Objects : Ingesting(x) /\
         \/ Head(todo) = Put(x, "pending")
         \/ Head(todo) = Add(x, "pending")
         \/ \E s \in Shards : Head(todo) \in {Put(s, "shard"), Add(s, "shard")}
  BY <1>1, HeadKinds
<1>3. PICK d \in Objects, v \in {"pending", "shard"} :
         /\ Head(todo) = Add(d, v)
         /\ (v = "pending" /\ d = x) \/ (v = "shard" /\ d \in Shards)
  BY <1>1, <1>2, OpFields DEF Objects
<1>4. Subject = d /\ Head(todo).val = v
  BY <1>3, OpFields DEF Subject
<1>5. Left(Add(d, v))
  BY <1>1, <1>3, QueueFacts DEF CustodianTypeOK, Steps, Left
<1>6. obj[d] # "absent"
  BY <1>2, <1>5 DEF Ingesting, Status
<1>7. UNCHANGED <<up, obj, log, torn, announced, crashes>>
  BY DEF AddStep
<1>8. /\ MetaVouched' /\ AnnouncedOnRecord' /\ ApprovedOnce' /\ DownIsEmpty'
      /\ \A h : (Closed(h) => Closed(h)') /\ (Vouched(h) => Vouched(h)')
  <2>1. \A h : (Closed(h) => Closed(h)') /\ (Vouched(h) => Vouched(h)')
    BY <1>7 DEF Closed, Vouched
  <2>2. \A h \in Objects : meta'[h] = "approved" => meta[h] = "approved"
    BY <1>4 DEF AddStep, Sidecar, CustodianTypeOK
  <2>3. AnnouncedOnRecord' /\ ApprovedOnce' /\ DownIsEmpty'
    BY <1>1, <1>7 DEF AnnouncedOnRecord, Records, ApprovedOnce, DownIsEmpty
  <2> QED
    BY <2>1, <2>2, <2>3 DEF MetaVouched
<1>9. ASSUME Then(<<>>), UNCHANGED <<items, meta>>
      PROVE  CustodianInv'
  <2>1. /\ todo' \in Seq(Steps) /\ Sorted(todo')
        /\ \A op : Left(op)' => Left(op) /\ Precedes(Add(d, v), op)
        /\ \A op : Left(op) => op = Add(d, v) \/ Left(op)'
    BY <1>1, <1>3, <1>9, StepDone
  <2>2. Ingesting(x)'
    <3>1. Only(IngestOps(x))'
      BY <1>2, <2>1 DEF Ingesting, Only, IngestOps
    <3>2. Left(Put(x, "pending"))' \/ Left(Add(x, "pending"))'
            => Left(Note("submit", x))' /\ MayBeApproved(x)'
      BY <1>2, <1>7, <1>8, <1>9, <2>1, OpFields DEF Ingesting, MayBeApproved
    <3>3. \A s \in Shards : /\ Left(Note("submit", x))'
                            /\ Left(Put(s, "shard"))' \/ Left(Add(s, "shard"))'
                            => Left(Put(x, "pending"))'
      BY <1>2, <2>1, OpFields DEF Ingesting
    <3>4. \A h \in Objects, s \in Status : Left(Add(h, s))' => obj'[h] # "absent"
      BY <1>2, <1>7, <2>1 DEF Ingesting
    <3> QED
      BY <3>1, <3>2, <3>3, <3>4 DEF Ingesting
  <2>3. CustodianTypeOK' /\ Plan' /\ Distinct(items')
    BY <1>7, <1>9, <2>1, <2>2 DEF CustodianTypeOK, Steps, Plan
  <2>4. OnFile' /\ ItemsVouched'
    BY <1>7, <1>8, <1>9, <2>1, OpFields DEF OnFile, ItemsVouched, Trusted
  <2>5. OnceOpen' /\ Uncrashed'
    BY <1>7, <1>8, <1>9, <2>1, OpFields DEF OnceOpen, Uncrashed
  <2> QED
    BY <1>8, <2>1, <2>3, <2>4, <2>5
<1>10. ASSUME todo' = <<>>, UNCHANGED <<items, meta>>
       PROVE  CustodianInv'
  <2>1. \A h : ~Left(Clear(h)) /\ (\A s : ~Left(Save(h, s)))
               /\ ~Left(Note("approve", h)) /\ ~Left(Note("reject", h))
               /\ (Left(Note("submit", h)) => h = x)
    BY <1>2, IngestKinds DEF Ingesting, Only
  <2>2. Left(Note("submit", x)) => MayBeApproved(x)
    BY <1>2, <1>3, <1>5 DEF Ingesting
  <2>3. CustodianTypeOK' /\ Plan' /\ Distinct(items') /\ Sorted(todo')
    BY <1>7, <1>10 DEF CustodianTypeOK, Plan, Sorted
  <2>4. OnFile' /\ ItemsVouched'
    BY <1>7, <1>8, <1>10, <2>1 DEF OnFile, ItemsVouched, Trusted
  <2>5. OnceOpen'
    BY <1>7, <1>8, <1>10, <2>1, <2>2 DEF OnceOpen, MayBeApproved
  <2>6. Uncrashed'
    BY <1>7, <1>10 DEF Uncrashed
  <2> QED
    BY <1>8, <2>3, <2>4, <2>5, <2>6
<1>11. ASSUME ~Known(items, d), ~PoolFull(items), items' = ItemAdd(items, d),
              Sidecar(d, "pending"),
              Then(IF v = "shard" THEN <<Mark(d, "shard")>> ELSE <<>>)
       PROVE  CustodianInv'
  <2>1. /\ todo' \in Seq(Steps) /\ Sorted(todo')
        /\ \A op : Left(op)' => \/ op = Mark(d, "shard") /\ v = "shard"
                                \/ Left(op) /\ Precedes(Add(d, v), op)
        /\ \A op : Left(op) => op = Add(d, v) \/ Left(op)'
    <3>1. CASE v = "shard"
      <4>1. Mark(d, v) \in Steps
        BY <3>1, OpTypes DEF Status
      <4>2. \A op : Precedes(Add(d, v), op) => Precedes(Mark(d, v), op)
        BY <3>1, OpFields DEF Precedes
      <4>3. Then(<<Mark(d, v)>>)
        BY <1>11, <3>1
      <4> QED
        BY <1>1, <1>3, <3>1, <4>1, <4>2, <4>3, StepFollowed
    <3>2. CASE v # "shard"
      <4>1. Then(<<>>)
        BY <1>11, <3>2
      <4> QED
        BY <1>1, <1>3, <4>1, StepDone
    <3> QED
      BY <3>1, <3>2
  <2>2. /\ items' \in Registry /\ Len(items') <= Slots /\ Distinct(items')
        /\ Holds(items', d, "pending")
        /\ \A h, t : Holds(items', h, t) =>
             IF h = d THEN t = "pending" ELSE Holds(items, h, t)
        /\ \A h, t : Holds(items, h, t) /\ t # "rejected" => Holds(items', h, t)
    <3>1. items \in Registry /\ Len(items) <= Slots
      BY DEF CustodianTypeOK, Registry
    <3> QED
      BY <1>11, <3>1, AddFacts
  <2>3. /\ meta' \in [Objects -> Status \cup {"absent"}]
        /\ meta'[d] = "pending"
        /\ \A h \in Objects : h # d => meta'[h] = meta[h]
    BY <1>11 DEF CustodianTypeOK, Sidecar, Status
  <2>4. Ingesting(x)'
    <3>1. Only(IngestOps(x))'
      BY <1>2, <1>3, <2>1, IngestKinds DEF Ingesting, Only, IngestOps
    <3>2. Left(Put(x, "pending"))' \/ Left(Add(x, "pending"))'
            => Left(Note("submit", x))' /\ MayBeApproved(x)'
      <4> HAVE Left(Put(x, "pending"))' \/ Left(Add(x, "pending"))'
      <4>1. Left(Put(x, "pending")) \/ Left(Add(x, "pending"))
        BY <2>1, OpFields
      <4>2. v = "shard"
        BY <2>1, OpFields DEF Precedes
      <4>3. Left(Note("submit", x)) /\ MayBeApproved(x)
        BY <1>2, <4>1 DEF Ingesting
      <4>4. x \notin Shards => x # d
        BY <1>3, <4>2
      <4> QED
        BY <1>7, <1>8, <2>1, <2>2, <4>3, <4>4, OpFields DEF MayBeApproved
    <3>3. \A s \in Shards : /\ Left(Note("submit", x))'
                            /\ Left(Put(s, "shard"))' \/ Left(Add(s, "shard"))'
                            => Left(Put(x, "pending"))'
      BY <1>2, <2>1, OpFields DEF Ingesting
    <3>4. \A h \in Objects, s \in Status : Left(Add(h, s))' => obj'[h] # "absent"
      BY <1>2, <1>7, <2>1, OpFields DEF Ingesting
    <3> QED
      BY <3>1, <3>2, <3>3, <3>4 DEF Ingesting
  <2>5. CustodianTypeOK' /\ Plan'
    BY <1>7, <2>1, <2>2, <2>3, <2>4 DEF CustodianTypeOK, Steps, Plan, Registry
  <2>6. OnFile'
    BY <1>6, <1>7, <2>1, <2>2, <2>3, OpFields DEF OnFile
  <2>7. ItemsVouched'
    BY <1>7, <1>8, <2>1, <2>2, OpFields DEF ItemsVouched, Trusted
  <2>8. OnceOpen'
    <3>1. d \notin Shards => Left(Note("submit", d))
      BY <1>2, <1>3, <1>5 DEF Ingesting
    <3> QED
      BY <1>7, <1>8, <2>1, <2>2, <3>1, OpFields DEF OnceOpen
  <2>9. ASSUME NEW h \in Objects, crashes = 0, meta'[h] \notin {"absent", "rejected"}
        PROVE  Known(items', h)
    <3>1. CASE h = d
      BY <2>2, <3>1, HeldFacts
    <3>2. CASE h # d
      <4>1. Known(items, h)
        BY <2>3, <2>9, <3>2 DEF Uncrashed
      <4>2. PICK s \in Status : Holds(items, h, s)
        BY <4>1, HeldFacts DEF CustodianTypeOK, Registry
      <4>3. ~Left(Save(h, s))
        BY <1>2, IngestKinds DEF Ingesting, Only
      <4>4. s # "rejected"
        BY <2>3, <2>9, <3>2, <4>2, <4>3 DEF OnFile
      <4> QED
        BY <2>2, <4>2, <4>4, HeldFacts
    <3> QED
      BY <3>1, <3>2
  <2>10. Uncrashed'
    BY <1>7, <2>9 DEF Uncrashed
  <2> QED
    BY <1>8, <2>1, <2>2, <2>5, <2>6, <2>7, <2>8, <2>10
<1> QED
  BY <1>4, <1>9, <1>10, <1>11 DEF AddStep

LEMMA LedgerStays ==
  ASSUME log' = log
  PROVE  /\ \A h : (Closed(h)' <=> Closed(h)) /\ (Vouched(h)' <=> Vouched(h))
         /\ \A h : Records("approve", h)' = Records("approve", h)
         /\ ApprovedOnce /\ crashes' = crashes => ApprovedOnce'
         /\ AnnouncedOnRecord /\ announced' = announced => AnnouncedOnRecord'
BY DEF Closed, Vouched, Records, ApprovedOnce, AnnouncedOnRecord

\* The tables are good as long as nothing they count on is taken off the list.
LEMMA TablesStay ==
  ASSUME OnFile, ItemsVouched, OnceOpen,
         UNCHANGED <<items, obj, meta, log, crashes>>,
         \A h, s : /\ Left(Clear(h)) => Left(Clear(h))'
                   /\ Left(Save(h, s)) => Left(Save(h, s))'
                   /\ Left(Note(s, h)) => Left(Note(s, h))'
  PROVE  OnFile' /\ ItemsVouched' /\ OnceOpen'
<1>1. OnFile'
  BY DEF OnFile
<1>2. \A h : (Closed(h)' <=> Closed(h)) /\ (Vouched(h)' <=> Vouched(h))
  BY LedgerStays
<1>3. ItemsVouched'
  BY <1>2 DEF ItemsVouched, Trusted, Covers
<1>4. OnceOpen'
  BY <1>2 DEF OnceOpen
<1> QED
  BY <1>1, <1>3, <1>4

LEMMA MarkKeeps ==
  ASSUME CustodianInv, MarkStep, UNCHANGED <<up, torn, crashes>>
  PROVE  CustodianInv'
<1> USE DEF CustodianInv
<1>1. todo # <<>> /\ Head(todo).op = "mark" /\ up
  BY DEF MarkStep, Due
<1>2. PICK x \in Objects :
         \/ Ingesting(x) /\ \E s \in Shards : Head(todo) = Mark(s, "shard")
         \/ Approving(x) /\ \E s \in Listed(x) : Head(todo) = Mark(s, "approved")
         \/ Rejecting(x) /\ \E s \in Covers(x) : Head(todo) = Mark(s, "rejected")
  BY <1>1, HeadKinds
<1>3. \A h \in Manifests : ToSet(Parts[h]) \subseteq Shards
  BY RangeOfParts
<1>4. Listed(x) \subseteq Shards /\ Covers(x) = {x} \cup Listed(x)
  BY <1>3 DEF Listed, Covers
<1>5. PICK d \in Objects, v \in {"shard", "approved", "rejected"} :
         /\ Head(todo) = Mark(d, v)
         /\ \/ Ingesting(x) /\ v = "shard" /\ d \in Shards
            \/ Approving(x) /\ v = "approved" /\ d \in Listed(x) /\ d \in Shards
            \/ Rejecting(x) /\ v = "rejected" /\ d \in Covers(x) /\ (d = x \/ d \in Shards)
  BY <1>2, <1>4 DEF Objects
<1>6. Subject = d /\ Head(todo).val = v
  BY <1>5, OpFields DEF Subject
<1>7. Left(Mark(d, v))
  BY <1>1, <1>5, QueueFacts DEF CustodianTypeOK, Steps, Left
<1>8. UNCHANGED <<up, obj, log, torn, announced, crashes>>
  BY DEF MarkStep
<1>9. /\ todo' \in Seq(Steps) /\ Sorted(todo')
      /\ \A op : Left(op)' => Left(op)
      /\ \A op : Left(op) => op = Mark(d, v) \/ Left(op)'
  BY <1>1, <1>5, StepDone DEF MarkStep
<1>10. items \in Registry
  BY DEF CustodianTypeOK, Registry
\* What is marked, if anything is.
<1>11. /\ items' \in Registry /\ Len(items') <= Slots /\ Distinct(items')
       /\ meta' \in [Objects -> Status \cup {"absent"}]
       /\ \A h : Known(items', h) <=> Known(items, h)
       /\ \/ UNCHANGED <<items, meta>> /\ ~Has(items, d, Promotes(v))
          \/ /\ Known(items, d) /\ meta'[d] = v
             /\ \A h \in Objects : h # d => meta'[h] = meta[h]
             /\ \A h, t : Holds(items', h, t) <=>
                  IF h = d THEN t = v ELSE Holds(items, h, t)
  <2>1. CASE ~Has(items, d, Promotes(v))
    BY <1>6, <1>10, <2>1 DEF MarkStep, CustodianTypeOK
  <2>2. CASE Has(items, d, Promotes(v))
    <3>1. v \in Status /\ Known(items, d)
      BY <2>2 DEF Status, Has, Known
    <3>2. items' = WithStatus(items, d, v) /\ meta' = [meta EXCEPT ![d] = v]
      BY <1>6, <2>2 DEF MarkStep, Marked, Sidecar
    <3>3. /\ items' \in Registry /\ Len(items') = Len(items) /\ Distinct(items')
          /\ \A h : Known(items', h) <=> Known(items, h)
          /\ \A h, t : Holds(items', h, t) <=>
               IF h = d THEN Known(items, d) /\ t = v ELSE Holds(items, h, t)
      BY <1>10, <3>1, <3>2, StatusFacts
    <3>4. /\ meta' \in [Objects -> Status \cup {"absent"}]
          /\ meta'[d] = v /\ \A h \in Objects : h # d => meta'[h] = meta[h]
      BY <3>1, <3>2 DEF CustodianTypeOK
    <3> QED
      BY <3>1, <3>3, <3>4 DEF CustodianTypeOK
  <2> QED
    BY <2>1, <2>2
<1>12. CustodianTypeOK'
  BY <1>8, <1>9, <1>11 DEF CustodianTypeOK, Steps, Registry
<1>13. ASSUME Ingesting(x) /\ v = "shard"
       PROVE  Plan'
  <2>1. Only(IngestOps(x))'
    BY <1>9, <1>13 DEF Ingesting, Only, IngestOps
  <2>2. Left(Put(x, "pending"))' \/ Left(Add(x, "pending"))'
          => Left(Note("submit", x))' /\ MayBeApproved(x)'
    <3> HAVE Left(Put(x, "pending"))' \/ Left(Add(x, "pending"))'
    <3>1. Left(Note("submit", x)) /\ MayBeApproved(x)
      BY <1>9, <1>13 DEF Ingesting
    <3>2. x \notin Shards => x # d
      BY <1>5, <1>13
    <3> QED
      BY <1>8, <1>9, <1>11, <3>1, <3>2, LedgerStays, OpFields DEF MayBeApproved
  <2>3. \A s \in Shards : /\ Left(Note("submit", x))'
                          /\ Left(Put(s, "shard"))' \/ Left(Add(s, "shard"))'
                          => Left(Put(x, "pending"))'
    BY <1>9, <1>13, OpFields DEF Ingesting
  <2>4. \A h \in Objects, s \in Status : Left(Add(h, s))' => obj'[h] # "absent"
    BY <1>8, <1>9, <1>13 DEF Ingesting
  <2> QED
    BY <2>1, <2>2, <2>3, <2>4 DEF Plan, Ingesting
<1>14. ASSUME Approving(x) /\ v = "approved"
       PROVE  Plan'
  <2>1. Only(ApproveOps(x))'
    BY <1>9, <1>14 DEF Approving, Only, ApproveOps, Listed
  <2>2. Holds(items', x, "approved")
    BY <1>11, <1>14 DEF Approving
  <2>3. \A s \in Listed(x) : Left(Mark(s, "approved"))' => Left(Note("approve", x))'
    BY <1>9, <1>14, OpFields DEF Approving
  <2>4. Left(Ready(x))' => \/ Left(Note("approve", x))'
                           \/ announced'[x] < Records("approve", x)'
    BY <1>8, <1>9, <1>14, LedgerStays, OpFields DEF Approving
  <2>5. Left(Note("approve", x))' /\ x \notin Shards /\ crashes' = 0 => Closed(x)'
    BY <1>8, <1>9, <1>14, LedgerStays DEF Approving
  <2> QED
    BY <2>1, <2>2, <2>3, <2>4, <2>5 DEF Plan, Approving, Listed
<1>15. ASSUME Rejecting(x) /\ v = "rejected"
       PROVE  Plan'
  <2>1. Only(RejectOps(x))'
    BY <1>9, <1>15 DEF Rejecting, Only, RejectOps, Covers
  <2>2. Left(Note("reject", x))' /\ Known(items', x)
    BY <1>9, <1>11, <1>15, OpFields DEF Rejecting
  <2>3. Known(items, d) <=> Has(items, d, Promotes(v))
    BY <1>10, <1>15, HeldFacts DEF Promotes
  <2>4. meta'[x] = "rejected" \/ Left(Mark(x, "rejected"))'
    BY <1>9, <1>11, <1>15, <2>3, OpFields DEF Rejecting
  <2>5. ASSUME NEW h \in Covers(x), Trusted(h)', Holds(items', h, "approved")
        PROVE  Left(Mark(h, "rejected"))'
    <3>1. h # d /\ Holds(items, h, "approved")
      BY <1>10, <1>11, <1>15, <2>3, <2>5, HeldFacts
    <3>2. Left(Mark(h, "rejected"))
      BY <1>8, <1>15, <2>5, <3>1 DEF Rejecting, Trusted
    <3> QED
      BY <1>9, <3>1, <3>2, OpFields
  <2> QED
    BY <2>1, <2>2, <2>4, <2>5 DEF Plan, Rejecting, Covers
<1>16. Plan'
  BY <1>5, <1>13, <1>14, <1>15
<1>17. OnFile'
  <2>1. obj[d] # "absent" \/ Left(Clear(d)) \/ ~Known(items, d)
    BY <1>10, HeldFacts DEF OnFile
  <2> QED
    BY <1>8, <1>9, <1>11, <2>1, OpFields DEF OnFile
<1>18. MetaVouched'
  BY <1>5, <1>8, <1>11, LedgerStays DEF MetaVouched
<1>19. ItemsVouched'
  <2>1. v = "approved" => d \in Covers(x) /\ Left(Note("approve", x))
    BY <1>4, <1>5, <1>7 DEF Approving
  <2> QED
    BY <1>8, <1>9, <1>11, <2>1, LedgerStays, OpFields
    DEF ItemsVouched, Trusted, Covers
<1>20. OnceOpen'
  <2>1. d \notin Shards => v = "rejected" /\ Left(Note("reject", d))
    BY <1>5 DEF Rejecting
  <2> QED
    BY <1>8, <1>9, <1>11, <2>1, LedgerStays, OpFields DEF OnceOpen
<1>21. Uncrashed'
  BY <1>8, <1>11 DEF Uncrashed
<1>22. AnnouncedOnRecord' /\ ApprovedOnce' /\ DownIsEmpty'
  BY <1>1, <1>8, LedgerStays DEF DownIsEmpty
<1> QED
  BY <1>9, <1>11, <1>12, <1>16, <1>17, <1>18, <1>19, <1>20, <1>21, <1>22

LEMMA SaveKeeps ==
  ASSUME CustodianInv, SaveStep, UNCHANGED <<up, torn, crashes>>
  PROVE  CustodianInv'
<1> USE DEF CustodianInv
<1>1. todo # <<>> /\ Head(todo).op = "save" /\ up
  BY DEF SaveStep, Due
<1>2. PICK x \in Objects : Approving(x) /\ Head(todo) = Save(x, "approved")
  BY <1>1, HeadKinds
<1>3. Subject = x /\ Head(todo).val = "approved"
  BY <1>2, OpFields DEF Subject
<1>4. UNCHANGED <<up, items, obj, log, torn, announced, crashes>>
  BY DEF SaveStep
\* It is the last step.
<1>5. /\ todo' \in Seq(Steps) /\ Sorted(todo')
      /\ \A op : ~Left(op)'
      /\ \A op : Left(op) => op = Save(x, "approved")
  <2>1. /\ todo' \in Seq(Steps) /\ Sorted(todo')
        /\ \A op : Left(op)' => Precedes(Save(x, "approved"), op)
        /\ \A op : Left(op) => op = Save(x, "approved") \/ Left(op)'
    BY <1>1, <1>2, StepDone DEF SaveStep
  <2> QED
    BY <2>1, OpFields DEF Precedes
<1>6. /\ meta' \in [Objects -> Status \cup {"absent"}]
      /\ meta'[x] = "approved"
      /\ \A h \in Objects : h # x => meta'[h] = meta[h]
  BY <1>3 DEF SaveStep, Sidecar, CustodianTypeOK, Status
<1>7. Holds(items, x, "approved")
  BY <1>2 DEF Approving
<1>8. items \in Registry
  BY DEF CustodianTypeOK, Registry
<1>9. CustodianTypeOK'
  BY <1>4, <1>5, <1>6 DEF CustodianTypeOK, Steps
<1>10. Plan'
  BY <1>4, <1>5, <1>7 DEF Plan, Approving, Only
<1>11. OnFile'
  <2>1. \A h, s : ~Left(Clear(h)) /\ (Left(Save(h, s)) => h = x)
    BY <1>5, OpFields
  <2>2. \A s : Holds(items, x, s) => s = "approved"
    BY <1>7, <1>8, HeldFacts
  <2> QED
    BY <1>4, <1>6, <2>1, <2>2 DEF OnFile
<1>12. ItemsVouched'
  BY <1>4, <1>5, LedgerStays, OpFields DEF ItemsVouched, Trusted
<1>13. MetaVouched'
  <2>1. x \notin Shards => Vouched(x)
    BY <1>5, <1>7, OpFields DEF ItemsVouched, Trusted
  <2> QED
    BY <1>4, <1>6, <2>1, LedgerStays DEF MetaVouched
<1>14. OnceOpen'
  BY <1>4, <1>5, LedgerStays, OpFields DEF OnceOpen
<1>15. Uncrashed'
  BY <1>4, <1>6, <1>7, <1>8, HeldFacts DEF Uncrashed
<1>16. AnnouncedOnRecord' /\ ApprovedOnce' /\ DownIsEmpty'
  BY <1>1, <1>4, LedgerStays DEF DownIsEmpty
<1> QED
  BY <1>4, <1>5, <1>9, <1>10, <1>11, <1>12, <1>13, <1>14, <1>15, <1>16

LEMMA NoteKeeps ==
  ASSUME CustodianInv, NoteStep, UNCHANGED <<up, torn, crashes>>
  PROVE  CustodianInv'
<1> USE DEF CustodianInv
<1>1. todo # <<>> /\ Head(todo).op = "note" /\ up
  BY DEF NoteStep, Due
<1>2. PICK x \in Objects :
         \/ Ingesting(x) /\ Head(todo) = Note("submit", x)
         \/ Approving(x) /\ Head(todo) = Note("approve", x)
         \/ Rejecting(x) /\ Head(todo) = Note("reject", x)
  BY <1>1, HeadKinds
<1>3. PICK t \in Decision : /\ Head(todo) = Note(t, x)
                            /\ \/ Ingesting(x) /\ t = "submit"
                               \/ Approving(x) /\ t = "approve"
                               \/ Rejecting(x) /\ t = "reject"
  BY <1>2 DEF Decision
<1>4. log' = Append(log, LogRecord(t, x))
  BY <1>3, OpFields DEF NoteStep, Subject
<1>5. UNCHANGED <<up, items, obj, meta, torn, announced, crashes>>
  BY DEF NoteStep
<1>6. /\ todo' \in Seq(Steps) /\ Sorted(todo')
      /\ \A op : Left(op)' => Left(op) /\ op.op \in {"ready", "save"}
      /\ \A op : Left(op) => op = Note(t, x) \/ Left(op)'
  <2>1. /\ todo' \in Seq(Steps) /\ Sorted(todo')
        /\ \A op : Left(op)' => Left(op) /\ Precedes(Note(t, x), op)
        /\ \A op : Left(op) => op = Note(t, x) \/ Left(op)'
    BY <1>1, <1>3, StepDone DEF NoteStep
  <2> QED
    BY <2>1, OpFields DEF Precedes
<1>7. /\ log' \in Seq([type : Decision, hash : Objects])
      /\ \A h : /\ Vouched(h) /\ (t = "reject" => h \notin Covers(x)) => Vouched(h)'
                /\ t = "approve" /\ h \in Covers(x) => Vouched(h)'
      /\ \A h : Closed(h) /\ (t # "approve" \/ h # x) => Closed(h)'
      /\ t # "approve" => Closed(x)'
      /\ \A h \in Objects : /\ Records("approve", h) \in Nat
                            /\ Records("approve", h)' \in Nat
                            /\ Records("approve", h)' >= Records("approve", h)
      /\ t = "approve" => Records("approve", x)' = Records("approve", x) + 1
      /\ ApprovedOnce /\ crashes' = crashes
         /\ (t = "approve" /\ x \notin Shards /\ crashes = 0 => Closed(x))
           => ApprovedOnce'
  BY <1>4, NoteFacts DEF CustodianTypeOK
<1>8. Left(Note(t, x))
  BY <1>1, <1>3, QueueFacts DEF CustodianTypeOK, Steps, Left
<1>9. items \in Registry
  BY DEF CustodianTypeOK, Registry
<1>10. CustodianTypeOK'
  BY <1>5, <1>6, <1>7 DEF CustodianTypeOK, Steps
<1>11. OnFile'
  BY <1>5, <1>6, OpFields DEF OnFile
<1>12. Uncrashed' /\ DownIsEmpty'
  BY <1>1, <1>5 DEF Uncrashed, DownIsEmpty
<1>13. AnnouncedOnRecord'
  <2> SUFFICES ASSUME NEW h \in Objects
               PROVE  announced'[h] <= Records("approve", h)'
    BY DEF AnnouncedOnRecord
  <2>1. announced[h] \in Nat /\ announced[h] <= Records("approve", h)
    BY DEF AnnouncedOnRecord, CustodianTypeOK
  <2> QED
    BY <1>5, <1>7, <2>1
<1>14. ApprovedOnce'
  BY <1>3, <1>5, <1>7, <1>8 DEF Approving
<1>15. CASE t = "submit"
  <2>1. Ingesting(x) /\ \A op : Left(op) => op \in IngestOps(x)
    BY <1>3, <1>15, <1>8, ApproveKinds, RejectKinds DEF Approving, Rejecting, Ingesting, Only
  <2>2. \A op : ~Left(op)'
    BY <1>6, <2>1, OpFields DEF IngestOps
  <2>3. \A h : ~Left(Note("approve", h)) /\ ~Left(Note("reject", h))
               /\ (Left(Note("submit", h)) => h = x)
    BY <2>1, IngestKinds
  <2>4. Plan'
    BY <2>2 DEF Plan, Deleting, Only
  <2>5. MetaVouched' /\ ItemsVouched'
    BY <1>5, <1>7, <1>15, <2>3 DEF MetaVouched, ItemsVouched, Trusted
  <2>6. OnceOpen'
    BY <1>5, <1>7, <1>15, <2>3 DEF OnceOpen
  <2> QED
    BY <1>5, <1>6, <1>10, <1>11, <1>12, <1>13, <1>14, <2>4, <2>5, <2>6
<1>16. CASE t = "approve"
  <2>1. Approving(x) /\ \A op : Left(op) => op \in ApproveOps(x)
    BY <1>3, <1>16, <1>8, IngestKinds, RejectKinds DEF Approving, Rejecting, Ingesting, Only
  <2>2. \A h : (Left(Note("approve", h)) => h = x)
               /\ ~Left(Note("reject", h)) /\ ~Left(Note("submit", h))
    BY <2>1, ApproveKinds
  <2>3. Approving(x)'
    <3>1. Only(ApproveOps(x))' /\ Holds(items', x, "approved")
      BY <1>5, <1>6, <2>1 DEF Approving, Only, ApproveOps, Listed
    <3>2. \A h, s : ~Left(Mark(h, s))' /\ ~Left(Note(s, h))'
      BY <1>6, OpFields
    <3>3. announced'[x] < Records("approve", x)'
      BY <1>5, <1>7, <1>16 DEF AnnouncedOnRecord, CustodianTypeOK
    <3> QED
      BY <3>1, <3>2, <3>3 DEF Approving
  <2>4. Plan'
    BY <2>3 DEF Plan
  <2>5. MetaVouched'
    BY <1>5, <1>7, <1>16 DEF MetaVouched
  <2>6. ItemsVouched'
    BY <1>5, <1>7, <1>16, <2>2 DEF ItemsVouched, Trusted
  <2>7. OnceOpen'
    <3>1. \A s : Holds(items, x, s) => s = "approved"
      BY <1>9, <2>1, HeldFacts DEF Approving
    <3> QED
      BY <1>5, <1>7, <2>2, <3>1 DEF OnceOpen
  <2> QED
    BY <1>5, <1>6, <1>10, <1>11, <1>12, <1>13, <1>14, <2>4, <2>5, <2>6, <2>7
<1>17. CASE t = "reject"
  <2>1. Rejecting(x) /\ \A op : Left(op) => op \in RejectOps(x)
    BY <1>3, <1>17, <1>8, IngestKinds, ApproveKinds DEF Approving, Rejecting, Ingesting, Only
  <2>2. \A op : ~Left(op)'
    BY <1>6, <2>1, OpFields DEF RejectOps
  <2>3. \A h : ~Left(Note("approve", h)) /\ ~Left(Note("submit", h))
               /\ (Left(Note("reject", h)) => h = x)
    BY <2>1, RejectKinds
  <2>4. \A h : ~Left(Mark(h, "rejected"))
    BY <1>6, <2>2, OpFields
  <2>5. /\ meta[x] = "rejected"
        /\ \A h \in Covers(x) : ~(Trusted(h) /\ Holds(items, h, "approved"))
    BY <2>1, <2>4 DEF Rejecting
  <2>6. Plan'
    BY <2>2 DEF Plan, Deleting, Only
  <2>7. MetaVouched'
    <3>1. \A h \in Objects \ Shards : h \in Covers(x) => h = x
      BY RangeOfParts DEF Covers
    <3> QED
      BY <1>5, <1>7, <2>5, <3>1 DEF MetaVouched
  <2>8. ItemsVouched'
    BY <1>5, <1>7, <2>3, <2>5 DEF ItemsVouched, Trusted
  <2>9. OnceOpen'
    BY <1>5, <1>7, <1>17, <2>3 DEF OnceOpen
  <2> QED
    BY <1>5, <1>6, <1>10, <1>11, <1>12, <1>13, <1>14, <2>6, <2>7, <2>8, <2>9
<1> QED
  BY <1>3, <1>15, <1>16, <1>17

LEMMA ReadyKeeps ==
  ASSUME CustodianInv, ReadyStep, UNCHANGED <<up, torn, crashes>>
  PROVE  CustodianInv'
<1> USE DEF CustodianInv
<1>1. todo # <<>> /\ Head(todo).op = "ready" /\ up
  BY DEF ReadyStep, Due
<1>2. PICK x \in Objects : Approving(x) /\ Head(todo) = Ready(x)
  BY <1>1, HeadKinds
<1>3. Subject = x
  BY <1>2, OpFields DEF Subject
<1>4. UNCHANGED <<up, items, obj, meta, log, torn, crashes>>
  BY DEF ReadyStep
<1>5. /\ todo' \in Seq(Steps) /\ Sorted(todo')
      /\ \A op : Left(op)' => Left(op) /\ op.op = "save"
      /\ \A op : Left(op) => op = Ready(x) \/ Left(op)'
  <2>1. /\ todo' \in Seq(Steps) /\ Sorted(todo')
        /\ \A op : Left(op)' => Left(op) /\ Precedes(Ready(x), op)
        /\ \A op : Left(op) => op = Ready(x) \/ Left(op)'
    BY <1>1, <1>2, StepDone DEF ReadyStep
  <2> QED
    BY <2>1, OpFields DEF Precedes
<1>6. Left(Ready(x))
  BY <1>1, <1>2, QueueFacts DEF CustodianTypeOK, Steps, Left
<1>7. /\ announced' \in [Objects -> Nat]
      /\ announced'[x] = announced[x] + 1
      /\ \A h \in Objects : h # x => announced'[h] = announced[h]
  BY <1>3 DEF ReadyStep, CustodianTypeOK
<1>8. \A h, s : ~Left(Note(s, h))' /\ ~Left(Mark(h, s))' /\ ~Left(Ready(h))'
  BY <1>5, OpFields
<1>9. CustodianTypeOK'
  BY <1>4, <1>5, <1>7 DEF CustodianTypeOK, Steps
<1>10. Plan'
  <2>1. Only(ApproveOps(x))' /\ Holds(items', x, "approved")
    BY <1>2, <1>4, <1>5 DEF Approving, Only, ApproveOps, Listed
  <2> QED
    BY <1>8, <2>1 DEF Plan, Approving
<1>11. AnnouncedOnRecord'
  <2>1. ~Left(Note("approve", x))
    BY <1>5, <1>8, OpFields
  <2>2. announced[x] < Records("approve", x)
    BY <1>2, <1>6, <2>1 DEF Approving
  <2>3. announced[x] \in Nat /\ Records("approve", x) \in Nat
    BY RecordsFinite DEF Records, CustodianTypeOK
  <2>4. announced[x] + 1 <= Records("approve", x)
    BY <2>2, <2>3
  <2> QED
    BY <1>4, <1>7, <2>4, LedgerStays DEF AnnouncedOnRecord
<1>12. OnFile' /\ ItemsVouched' /\ OnceOpen'
  <2>1. \A h, s : /\ Left(Clear(h)) => Left(Clear(h))'
                  /\ Left(Save(h, s)) => Left(Save(h, s))'
                  /\ Left(Note(s, h)) => Left(Note(s, h))'
    BY <1>5, OpFields
  <2> QED
    BY <1>4, <2>1, TablesStay
<1>13. MetaVouched' /\ Uncrashed' /\ ApprovedOnce' /\ DownIsEmpty'
  BY <1>1, <1>4, LedgerStays DEF MetaVouched, Uncrashed, DownIsEmpty
<1> QED
  BY <1>4, <1>5, <1>9, <1>10, <1>11, <1>12, <1>13

LEMMA UnlinkKeeps ==
  ASSUME CustodianInv, UnlinkStep, UNCHANGED <<up, torn, crashes>>
  PROVE  CustodianInv'
<1> USE DEF CustodianInv
<1>1. todo # <<>> /\ Head(todo).op = "unlink" /\ up
  BY DEF UnlinkStep, Due
<1>2. Deleting /\ \E h \in Objects : Head(todo) = Unlink(h)
  BY <1>1, HeadKinds
<1>3. PICK d \in Objects : Head(todo) = Unlink(d)
  BY <1>2
<1>4. Subject = d
  BY <1>3, OpFields DEF Subject
<1>5. /\ todo' \in Seq(Steps) /\ Sorted(todo') /\ Left(Clear(d))'
      /\ \A op : Left(op)' => op = Clear(d) \/ Left(op)
      /\ \A op : Left(op) => op = Unlink(d) \/ Left(op)'
  <2>1. Clear(d) \in Steps
    BY OpTypes
  <2>2. \A op : Precedes(Unlink(d), op) => Precedes(Clear(d), op)
    BY OpFields DEF Precedes
  <2>3. Then(<<Clear(d)>>)
    BY <1>4 DEF UnlinkStep
  <2> QED
    BY <1>1, <1>3, <2>1, <2>2, <2>3, StepFollowed
<1>6. /\ obj' \in [Objects -> {"absent", "whole", "torn"}]
      /\ obj'[d] = "absent"
      /\ \A h \in Objects : h # d => obj'[h] = obj[h]
  BY <1>4 DEF UnlinkStep, CustodianTypeOK
<1>7. UNCHANGED <<up, items, meta, log, torn, announced, crashes>>
  BY DEF UnlinkStep
<1>8. CustodianTypeOK'
  BY <1>5, <1>6, <1>7 DEF CustodianTypeOK, Steps
<1>9. Plan'
  BY <1>2, <1>5 DEF Plan, Deleting, Only, DeleteOps
<1>10. OnFile'
  <2>1. \A h, s : /\ Left(Clear(h)) \/ h = d => Left(Clear(h))'
                  /\ Left(Save(h, s)) => Left(Save(h, s))'
    BY <1>5, OpFields
  <2>2. ASSUME NEW h \in Objects, NEW s \in Status, Holds(items', h, s)
        PROVE  /\ obj'[h] # "absent" \/ Left(Clear(h))'
               /\ meta'[h] = s \/ Left(Save(h, s))'
    <3>1. /\ obj[h] # "absent" \/ Left(Clear(h))
          /\ meta[h] = s \/ Left(Save(h, s))
      BY <1>7, <2>2 DEF OnFile
    <3> QED
      BY <1>6, <1>7, <2>1, <3>1
  <2> QED
    BY <2>2 DEF OnFile
<1>11. ItemsVouched'
  <2>1. \A h : Left(Note("approve", h)) => Left(Note("approve", h))'
    BY <1>5, OpFields
  <2> QED
    BY <1>7, <2>1, LedgerStays DEF ItemsVouched, Trusted
<1>12. OnceOpen'
  BY <1>5, <1>7, LedgerStays, OpFields DEF OnceOpen
<1>13. Uncrashed'
  BY <1>6, <1>7 DEF Uncrashed
<1>14. MetaVouched' /\ AnnouncedOnRecord' /\ ApprovedOnce' /\ DownIsEmpty'
  BY <1>1, <1>7, LedgerStays DEF MetaVouched, DownIsEmpty
<1> QED
  BY <1>5, <1>7, <1>8, <1>9, <1>10, <1>11, <1>12, <1>13, <1>14

LEMMA ClearKeeps ==
  ASSUME CustodianInv, ClearStep, UNCHANGED <<up, torn, crashes>>
  PROVE  CustodianInv'
<1> USE DEF CustodianInv
<1>1. todo # <<>> /\ Head(todo).op = "clear" /\ up
  BY DEF ClearStep, Due
<1>2. Deleting /\ \E h \in Objects : Head(todo) = Clear(h)
  BY <1>1, HeadKinds
<1>3. PICK d \in Objects : Head(todo) = Clear(d)
  BY <1>2
<1>4. Subject = d
  BY <1>3, OpFields DEF Subject
<1>5. /\ todo' \in Seq(Steps) /\ Sorted(todo')
      /\ \A op : Left(op)' => Left(op)
      /\ \A op : Left(op) => op = Clear(d) \/ Left(op)'
  BY <1>1, <1>3, StepDone DEF ClearStep
<1>6. /\ items' \in Registry /\ Len(items') <= Slots /\ Distinct(items')
      /\ \A h, t : Holds(items', h, t) <=> h # d /\ Holds(items, h, t)
  <2>1. items \in Registry /\ Len(items) \in Nat /\ Len(items) <= Slots /\ Slots \in Nat
    BY LenProperties, SlotsAssumption DEF CustodianTypeOK, Registry
  <2>2. items' = Without(items, d)
    BY <1>4 DEF ClearStep
  <2>3. /\ items' \in Registry /\ Len(items') <= Len(items) /\ Distinct(items')
        /\ \A h, t : Holds(items', h, t) <=> h # d /\ Holds(items, h, t)
    BY <2>1, <2>2, WithoutFacts
  <2>4. Len(items') \in Nat
    BY <2>3, LenProperties DEF Registry
  <2> QED
    BY <2>1, <2>3, <2>4
<1>7. /\ meta' \in [Objects -> Status \cup {"absent"}]
      /\ meta'[d] = "absent"
      /\ \A h \in Objects : h # d => meta'[h] = meta[h]
  BY <1>4 DEF ClearStep, Sidecar, CustodianTypeOK
<1>8. UNCHANGED <<up, obj, log, torn, announced, crashes>>
  BY DEF ClearStep
<1>9. CustodianTypeOK'
  BY <1>5, <1>6, <1>7, <1>8 DEF CustodianTypeOK, Steps, Registry
<1>10. Plan'
  BY <1>2, <1>5 DEF Plan, Deleting, Only, DeleteOps
<1>11. OnFile'
  <2>1. \A h, s : /\ Left(Clear(h)) => h = d \/ Left(Clear(h))'
                  /\ Left(Save(h, s)) => Left(Save(h, s))'
    BY <1>5, OpFields
  <2>2. ASSUME NEW h \in Objects, NEW s \in Status, Holds(items', h, s)
        PROVE  /\ obj'[h] # "absent" \/ Left(Clear(h))'
               /\ meta'[h] = s \/ Left(Save(h, s))'
    <3>1. h # d /\ Holds(items, h, s)
      BY <1>6, <2>2
    <3>2. /\ obj[h] # "absent" \/ Left(Clear(h))
          /\ meta[h] = s \/ Left(Save(h, s))
      BY <3>1 DEF OnFile
    <3> QED
      BY <1>7, <1>8, <2>1, <3>1, <3>2
  <2> QED
    BY <2>2 DEF OnFile
<1>12. ItemsVouched'
  <2>1. \A h : Left(Note("approve", h)) => Left(Note("approve", h))'
    BY <1>5, OpFields
  <2> QED
    BY <1>6, <1>8, <2>1, LedgerStays DEF ItemsVouched, Trusted
<1>13. OnceOpen'
  BY <1>5, <1>6, <1>8, LedgerStays, OpFields DEF OnceOpen
<1>14. ASSUME NEW h \in Objects, crashes = 0, meta'[h] \notin {"absent", "rejected"}
       PROVE  Known(items', h)
  <2>1. h # d /\ Known(items, h)
    BY <1>7, <1>14 DEF Uncrashed
  <2>2. PICK s \in Status : Holds(items, h, s)
    BY <2>1, HeldFacts DEF CustodianTypeOK, Registry
  <2> QED
    BY <1>6, <2>1, <2>2, HeldFacts
<1>15. Uncrashed'
  BY <1>8, <1>14 DEF Uncrashed
<1>16. MetaVouched' /\ AnnouncedOnRecord' /\ ApprovedOnce' /\ DownIsEmpty'
  <2>1. MetaVouched'
    BY <1>7, <1>8, LedgerStays DEF MetaVouched
  <2> QED
    BY <1>1, <1>8, <2>1, LedgerStays DEF DownIsEmpty
<1> QED
  BY <1>5, <1>6, <1>9, <1>10, <1>11, <1>12, <1>13, <1>15, <1>16

-----------------------------------------------------------------------------
(* Every handler sets out with the invariant *)

\* What a handler finds.
LEMMA IdleFacts ==
  ASSUME CustodianInv, Idle
  PROVE  /\ items \in Registry /\ up
         /\ \A op : ~Left(op)
         /\ \A h \in Objects, s \in Status : Holds(items, h, s) =>
              /\ obj[h] # "absent" /\ meta[h] = s
              /\ s # "approved" /\ h \notin Shards /\ crashes = 0 => Closed(h)
         /\ \A h \in Objects : Holds(items, h, "approved") /\ Trusted(h) => Vouched(h)
<1> USE DEF CustodianInv
<1>1. items \in Registry /\ up /\ todo = <<>>
  BY DEF CustodianTypeOK, Registry, Idle
<1>2. \A op : ~Left(op)
  BY <1>1 DEF Left, Among
<1> QED
  BY <1>1, <1>2 DEF OnFile, OnceOpen, ItemsVouched

\* A handler that changes no item has only its plan to answer for.
LEMMA SetsOut ==
  ASSUME CustodianInv, Idle, NEW steps \in Seq(Steps), Sorted(steps),
         Handler(items, steps), Plan'
  PROVE  CustodianInv'
<1> USE DEF CustodianInv
<1>1. /\ UNCHANGED <<up, items, obj, meta, log, torn, announced, crashes>>
      /\ todo' = steps
  BY DEF Handler, disk
<1>2. CustodianTypeOK' /\ Sorted(todo')
  BY <1>1 DEF CustodianTypeOK, Steps
<1>3. OnFile'
  BY <1>1, IdleFacts DEF OnFile
<1>4. ItemsVouched'
  BY <1>1, IdleFacts, LedgerStays DEF ItemsVouched, Trusted
<1>5. OnceOpen'
  BY <1>1, IdleFacts, LedgerStays DEF OnceOpen
<1>6. MetaVouched' /\ Uncrashed' /\ AnnouncedOnRecord' /\ ApprovedOnce' /\ DownIsEmpty'
  BY <1>1, IdleFacts, LedgerStays DEF MetaVouched, Uncrashed, DownIsEmpty
<1> QED
  BY <1>1, <1>2, <1>3, <1>4, <1>5, <1>6

LEMMA IngestSingleKeeps ==
  ASSUME CustodianInv, NEW x \in Singles, IngestSingle(x)
  PROVE  CustodianInv'
<1> DEFINE steps == <<Put(x, "pending"), Note("submit", x)>>
<1>1. x \in Objects /\ Handler(items, steps) /\ Idle
  BY DEF Objects, IngestSingle, Handler
<1>2. /\ steps \in Seq(Steps) /\ Sorted(steps)
      /\ \A op : Among(steps, op) <=> op \in {Put(x, "pending"), Note("submit", x)}
  <2>1. /\ Put(x, "pending") \in Steps /\ Note("submit", x) \in Steps
        /\ Precedes(Put(x, "pending"), Note("submit", x))
    BY <1>1, OpTypes, OpFields DEF Status, Decision, Precedes
  <2> QED
    BY <2>1, ShortFacts
<1> HIDE DEF steps
<1>3. /\ \A op : Left(op)' <=> op \in {Put(x, "pending"), Note("submit", x)}
      /\ UNCHANGED <<items, obj, log, crashes>>
  BY <1>1, <1>2 DEF Handler, Left, disk
<1>4. Ingesting(x)'
  <2>1. Only(IngestOps(x))'
    BY <1>3 DEF Only, IngestOps
  <2>2. MayBeApproved(x)'
    BY <1>1, <1>3, IdleFacts, LedgerStays DEF MayBeApproved
  <2>3. \A s : ~Left(Put(s, "shard"))' /\ \A t : ~Left(Add(s, t))'
    BY <1>3, OpFields
  <2> QED
    BY <1>3, <2>1, <2>2, <2>3 DEF Ingesting
<1> QED
  BY <1>1, <1>2, <1>4, SetsOut DEF Plan

\* The objects put one after another.
LEMMA PutAllFacts ==
  ASSUME NEW hs \in Seq(Shards), NEW n \in 0 .. Len(hs), NEW new,
         new = [i \in 1 .. n |-> Put(hs[i], "shard")]
  PROVE  /\ new \in Seq(Steps) /\ Sorted(new)
         /\ \A op : Among(new, op) => \E s \in Shards : op = Put(s, "shard")
<1>1. Len(hs) \in Nat /\ n \in Nat /\ n <= Len(hs)
  BY LenProperties
<1>2. \A i \in 1 .. n : /\ hs[i] \in Shards
                        /\ Put(hs[i], "shard") \in Steps
  BY <1>1, ElementOfSeq, OpTypes DEF Objects, Status
<1>3. DOMAIN new = 1 .. n /\ \A i \in 1 .. n : new[i] = Put(hs[i], "shard")
  OBVIOUS
<1>4. new \in Seq(Steps)
  BY <1>1, <1>2
<1>5. Sorted(new)
  BY <1>3, OpFields DEF Sorted, Precedes
<1> QED
  BY <1>2, <1>3, <1>4, <1>5 DEF Among

LEMMA IngestManifestKeeps ==
  ASSUME CustodianInv, NEW x \in Manifests, NEW puts \in 0 .. (Len(Parts[x]) + 1),
         IngestManifest(x, puts)
  PROVE  CustodianInv'
<1> DEFINE puts1(n) == [i \in 1 .. n |-> Put(Parts[x][i], "shard")]
           last == <<Put(x, "pending"), Note("submit", x)>>
<1>1. /\ x \in Objects /\ x \notin Shards /\ Idle
      /\ Parts[x] \in Seq(Shards) /\ Len(Parts[x]) \in Nat
  BY PartsAssumption, LenProperties DEF Objects, IngestManifest, Handler
<1>2. \A n \in 0 .. Len(Parts[x]) :
        /\ puts1(n) \in Seq(Steps) /\ Sorted(puts1(n))
        /\ \A op : Among(puts1(n), op) => \E s \in Shards : op = Put(s, "shard")
  BY <1>1, PutAllFacts
<1>3. /\ last \in Seq(Steps) /\ Sorted(last)
      /\ \A op : Among(last, op) <=> op \in {Put(x, "pending"), Note("submit", x)}
  <2>1. /\ Put(x, "pending") \in Steps /\ Note("submit", x) \in Steps
        /\ Precedes(Put(x, "pending"), Note("submit", x))
    BY <1>1, OpTypes, OpFields DEF Status, Decision, Precedes
  <2> QED
    BY <2>1, ShortFacts
<1>4. \/ puts <= Len(Parts[x]) /\ Handler(items, puts1(puts))
      \/ Handler(items, puts1(Len(Parts[x])) \o last)
  BY DEF IngestManifest
<1> HIDE DEF puts1, last
<1>5. ASSUME puts <= Len(Parts[x]), Handler(items, puts1(puts))
      PROVE  CustodianInv'
  <2>1. puts \in 0 .. Len(Parts[x])
    BY <1>1, <1>5
  <2>2. \A op : Left(op)' => \E s \in Shards : op = Put(s, "shard")
    BY <1>2, <1>5, <2>1 DEF Handler, Left
  <2>3. Ingesting(x)'
    <3>1. Only(IngestOps(x))'
      BY <2>2, IngestKinds DEF Only, IngestOps
    <3>2. ~Left(Put(x, "pending"))' /\ ~Left(Note("submit", x))'
          /\ \A h, s : ~Left(Add(h, s))'
      BY <2>2, OpFields
    <3> QED
      BY <3>1, <3>2 DEF Ingesting
  <2> QED
    BY <1>1, <1>2, <1>5, <2>1, <2>3, SetsOut DEF Plan
<1>6. ASSUME Handler(items, puts1(Len(Parts[x])) \o last)
      PROVE  CustodianInv'
  <2> DEFINE first == puts1(Len(Parts[x]))
  <2>1. /\ first \in Seq(Steps) /\ Sorted(first)
        /\ \A op : Among(first, op) => \E s \in Shards : op = Put(s, "shard")
    BY <1>1, <1>2
  <2> HIDE DEF first
  <2>2. \A a, b : Among(first, a) /\ Among(last, b) => Precedes(a, b)
    BY <1>3, <2>1, OpFields DEF Precedes
  <2>3. /\ first \o last \in Seq(Steps) /\ Sorted(first \o last)
        /\ \A op : Among(first \o last, op) <=> Among(first, op) \/ Among(last, op)
    BY <1>3, <2>1, <2>2, AfterFacts
  <2>4. Handler(items, first \o last)
    BY <1>6 DEF first
  <2>5. /\ \A op : Left(op)' => \/ op \in {Put(x, "pending"), Note("submit", x)}
                                \/ \E s \in Shards : op = Put(s, "shard")
        /\ Left(Put(x, "pending"))' /\ Left(Note("submit", x))'
        /\ UNCHANGED <<items, log, crashes>>
    BY <1>3, <2>1, <2>3, <2>4 DEF Handler, Left, disk
  <2>6. Ingesting(x)'
    <3>1. Only(IngestOps(x))'
      BY <2>5, IngestKinds DEF Only, IngestOps
    <3>2. MayBeApproved(x)'
      BY <1>1, <2>5, IdleFacts, LedgerStays DEF MayBeApproved
    <3>3. \A h, s : ~Left(Add(h, s))'
      BY <2>5, OpFields
    <3> QED
      BY <2>5, <3>1, <3>2, <3>3 DEF Ingesting
  <2> QED
    BY <1>1, <2>3, <2>4, <2>6, SetsOut DEF Plan
<1> QED
  BY <1>4, <1>5, <1>6

\* What is read from a manifest are shards it lists, and all of them if it is whole.
LEMMA ListingFacts ==
  ASSUME obj \in [Objects -> {"absent", "whole", "torn"}],
         NEW x \in Objects, NEW listed \in Listings(x)
  PROVE  /\ listed \in Seq(Objects) /\ ToSet(listed) \subseteq Listed(x)
         /\ obj[x] = "whole" => Listed(x) \subseteq ToSet(listed)
         /\ Listed(x) \subseteq Shards /\ Covers(x) = {x} \cup Listed(x)
<1>1. Listed(x) \subseteq Shards /\ Covers(x) = {x} \cup Listed(x)
  BY RangeOfParts DEF Listed, Covers
<1>2. CASE listed = <<>>
  <2>1. ToSet(listed) = {} /\ listed \in Seq(Objects)
    BY <1>2 DEF ToSet
  <2>2. ASSUME obj[x] = "whole", x \in Manifests PROVE Listed(x) = {}
    <3>1. Parts[x] = listed
      BY <2>2 DEF Listings
    <3> QED
      BY <2>1, <3>1 DEF Listed
  <2> QED
    BY <1>1, <2>1, <2>2 DEF Listed
<1>3. CASE listed # <<>>
  <2>1. x \in Manifests
    BY <1>3 DEF Listings
  <2>2. Parts[x] \in Seq(Shards) /\ Len(Parts[x]) \in Nat /\ Listed(x) = ToSet(Parts[x])
    BY <2>1, PartsAssumption, LenProperties DEF Listed
  <2>3. \/ listed = Parts[x]
        \/ obj[x] # "whole" /\ \E n \in 0 .. Len(Parts[x]) : listed = SubSeq(Parts[x], 1, n)
    BY <1>3 DEF Listings
  <2>4. CASE listed = Parts[x]
    <3>1. listed \in Seq(Objects)
      <4>1. \A i \in 1 .. Len(Parts[x]) : Parts[x][i] \in Objects
        BY <2>2, ElementOfSeq DEF Objects
      <4>2. Parts[x] = [i \in 1 .. Len(Parts[x]) |-> Parts[x][i]]
        BY <2>2
      <4> QED
        BY <2>2, <2>4, <4>1, <4>2
    <3> QED
      BY <1>1, <2>2, <2>4, <3>1
  <2>5. CASE obj[x] # "whole" /\ \E n \in 0 .. Len(Parts[x]) : listed = SubSeq(Parts[x], 1, n)
    <3>1. PICK n \in 0 .. Len(Parts[x]) : listed = SubSeq(Parts[x], 1, n)
      BY <2>5
    <3>2. listed = [i \in 1 .. n |-> Parts[x][i]]
      BY <2>2, <3>1
    <3>3. \A i \in 1 .. n : /\ i \in 1 .. Len(Parts[x]) /\ i \in DOMAIN Parts[x]
                            /\ Parts[x][i] \in Objects
      BY <2>2, ElementOfSeq, LenProperties DEF Objects
    <3>4. listed \in Seq(Objects)
      BY <3>2, <3>3
    <3>5. ToSet(listed) \subseteq ToSet(Parts[x])
      BY <3>2, <3>3 DEF ToSet
    <3> QED
      BY <1>1, <2>2, <2>5, <3>4, <3>5
  <2> QED
    BY <2>3, <2>4, <2>5
<1> QED
  BY <1>2, <1>3

LEMMA ApproveKeeps ==
  ASSUME CustodianInv, NEW x \in Objects, Approve(x)
  PROVE  CustodianInv'
<1> USE DEF CustodianInv
<1>1. PICK listed \in Listings(x) :
        Handler(WithStatus(items, x, "approved"), ApproveSteps(x, listed))
  BY DEF Approve
<1>2. /\ Idle /\ Known(items, x) /\ ~Has(items, x, {"approved"})
      /\ UNCHANGED <<up, obj, meta, log, torn, announced, crashes>>
      /\ items' = WithStatus(items, x, "approved")
      /\ todo' = ApproveSteps(x, listed)
  BY <1>1 DEF Approve, Approvable, Handler, disk
<1>3. listed \in Seq(Objects) /\ ToSet(listed) \subseteq Listed(x)
  BY ListingFacts DEF CustodianTypeOK
<1> DEFINE marks == MarkAll(listed, "approved")
           last == <<Note("approve", x), Ready(x), Save(x, "approved")>>
<1>4. /\ marks \in Seq(Steps) /\ Sorted(marks)
      /\ \A op : Among(marks, op) <=> \E h \in ToSet(listed) : op = Mark(h, "approved")
  BY <1>3, MarkAllFacts DEF Status
<1>5. /\ last \in Seq(Steps) /\ Sorted(last)
      /\ \A op : Among(last, op) <=>
           op \in {Note("approve", x), Ready(x), Save(x, "approved")}
  <2>1. /\ Note("approve", x) \in Steps /\ Ready(x) \in Steps
        /\ Save(x, "approved") \in Steps
    BY OpTypes DEF Status, Decision
  <2>2. /\ Precedes(Note("approve", x), Ready(x))
        /\ Precedes(Note("approve", x), Save(x, "approved"))
        /\ Precedes(Ready(x), Save(x, "approved"))
    BY OpFields DEF Precedes
  <2> QED
    BY <2>1, <2>2, ShortFacts
<1>6. todo' = marks \o last
  BY <1>2 DEF ApproveSteps
<1> HIDE DEF marks, last
<1>7. \A a, b : Among(marks, a) /\ Among(last, b) => Precedes(a, b)
  <2>1. \A h, b : b.op \notin {"add", "clear"} => Precedes(Mark(h, "approved"), b)
    BY OpFields DEF Precedes
  <2>2. \A b : Among(last, b) => b.op \notin {"add", "clear"}
    BY <1>5, OpFields
  <2> QED
    BY <1>4, <2>1, <2>2
<1>8. /\ todo' \in Seq(Steps) /\ Sorted(todo')
      /\ \A op : Left(op)' <=>
           \/ \E h \in ToSet(listed) : op = Mark(h, "approved")
           \/ op \in {Note("approve", x), Ready(x), Save(x, "approved")}
  BY <1>4, <1>5, <1>6, <1>7, AfterFacts DEF Left
<1>9. /\ items \in Registry
      /\ \A op : ~Left(op)
      /\ \A h \in Objects, s \in Status : Holds(items, h, s) =>
           /\ obj[h] # "absent" /\ meta[h] = s
           /\ s # "approved" /\ h \notin Shards /\ crashes = 0 => Closed(h)
      /\ \A h \in Objects : Holds(items, h, "approved") /\ Trusted(h) => Vouched(h)
  BY <1>2, IdleFacts
<1>10. /\ items' \in Registry /\ Len(items') = Len(items) /\ Distinct(items')
       /\ \A h : Known(items', h) <=> Known(items, h)
       /\ \A h, t : Holds(items', h, t) <=>
            IF h = x THEN t = "approved" ELSE Holds(items, h, t)
  <2>1. "approved" \in Status
    BY DEF Status
  <2> QED
    BY <1>2, <1>9, <2>1, StatusFacts
<1>11. PICK old \in Status \ {"approved"} : Holds(items, x, old)
  BY <1>2, <1>9, HeldFacts
<1>12. CustodianTypeOK'
  BY <1>2, <1>8, <1>10 DEF CustodianTypeOK, Steps, Registry
<1>13. Approving(x)'
  <2>1. Only(ApproveOps(x))'
    BY <1>3, <1>8, ApproveKinds DEF Only, ApproveOps
  <2>2. x \notin Shards /\ crashes' = 0 => Closed(x)'
    BY <1>2, <1>9, <1>11, LedgerStays
  <2> QED
    BY <1>8, <1>10, <2>1, <2>2 DEF Approving
<1>14. Plan'
  BY <1>13 DEF Plan
<1>15. OnFile'
  <2>1. Left(Save(x, "approved"))' /\ obj[x] # "absent"
    BY <1>8, <1>9, <1>11
  <2>2. ASSUME NEW h \in Objects, NEW s \in Status, Holds(items', h, s)
        PROVE  /\ obj'[h] # "absent"
               /\ meta'[h] = s \/ Left(Save(h, s))'
    <3>1. CASE h = x
      BY <1>2, <1>10, <2>1, <2>2, <3>1
    <3>2. CASE h # x
      BY <1>2, <1>9, <1>10, <2>2, <3>2
    <3> QED
      BY <3>1, <3>2
  <2> QED
    BY <2>2 DEF OnFile
<1>16. ItemsVouched'
  <2>1. Left(Note("approve", x))' /\ x \in Covers(x)
    BY <1>8 DEF Covers
  <2>2. ASSUME NEW h \in Objects, h # x, Holds(items', h, "approved"), Trusted(h)'
        PROVE  Vouched(h)'
    <3>1. Holds(items, h, "approved") /\ Trusted(h)
      BY <1>2, <1>10, <2>2 DEF Trusted
    <3> QED
      BY <1>2, <1>9, <3>1, LedgerStays
  <2> QED
    BY <2>1, <2>2 DEF ItemsVouched, Covers
<1>17. OnceOpen'
  BY <1>2, <1>9, <1>10, LedgerStays DEF OnceOpen
<1>18. Uncrashed' /\ DownIsEmpty'
  BY <1>2, <1>10 DEF Uncrashed, DownIsEmpty, Idle
<1>19. MetaVouched' /\ AnnouncedOnRecord' /\ ApprovedOnce'
  BY <1>2, LedgerStays DEF MetaVouched
<1> QED
  BY <1>8, <1>10, <1>12, <1>14, <1>15, <1>16, <1>17, <1>18, <1>19

LEMMA RejectKeeps ==
  ASSUME CustodianInv, NEW x \in Objects, Reject(x)
  PROVE  CustodianInv'
<1> USE DEF CustodianInv
<1>1. PICK listed \in Listings(x) :
        Handler(items, <<Mark(x, "rejected")>> \o MarkAll(listed, "rejected")
                         \o <<Note("reject", x)>>)
  BY DEF Reject
<1>2. /\ Idle /\ Known(items, x)
      /\ UNCHANGED <<up, items, obj, meta, log, torn, announced, crashes>>
  BY <1>1 DEF Reject, Handler, disk
<1>3. /\ listed \in Seq(Objects) /\ ToSet(listed) \subseteq Listed(x)
      /\ obj[x] = "whole" => Listed(x) \subseteq ToSet(listed)
      /\ Listed(x) \subseteq Shards /\ Covers(x) = {x} \cup Listed(x)
  BY ListingFacts DEF CustodianTypeOK
<1> DEFINE one == <<Mark(x, "rejected")>>
           marks == MarkAll(listed, "rejected")
           last == <<Note("reject", x)>>
<1>4. /\ one \in Seq(Steps) /\ Sorted(one)
      /\ \A op : Among(one, op) <=> op = Mark(x, "rejected")
      /\ last \in Seq(Steps) /\ Sorted(last)
      /\ \A op : Among(last, op) <=> op = Note("reject", x)
  BY OpTypes, ShortFacts DEF Status, Decision
<1>5. /\ marks \in Seq(Steps) /\ Sorted(marks)
      /\ \A op : Among(marks, op) <=> \E h \in ToSet(listed) : op = Mark(h, "rejected")
  BY <1>3, MarkAllFacts DEF Status
<1>6. Handler(items, (one \o marks) \o last)
  BY <1>1
<1> HIDE DEF one, marks, last
<1>7. \A a, b : Among(one, a) /\ Among(marks, b) => Precedes(a, b)
  BY <1>4, <1>5, OpFields DEF Precedes
<1>8. /\ one \o marks \in Seq(Steps) /\ Sorted(one \o marks)
      /\ \A op : Among(one \o marks, op) <=> Among(one, op) \/ Among(marks, op)
  BY <1>4, <1>5, <1>7, AfterFacts
<1>9. \A a, b : Among(one \o marks, a) /\ Among(last, b) => Precedes(a, b)
  BY <1>4, <1>5, <1>8, OpFields DEF Precedes
<1> DEFINE steps == (one \o marks) \o last
<1>10. /\ steps \in Seq(Steps) /\ Sorted(steps)
       /\ \A op : Among(steps, op) <=> \/ op = Mark(x, "rejected")
                                       \/ \E h \in ToSet(listed) : op = Mark(h, "rejected")
                                       \/ op = Note("reject", x)
  BY <1>4, <1>5, <1>8, <1>9, AfterFacts
<1>11. Handler(items, steps)
  BY <1>6
<1> HIDE DEF steps
<1>12. \A op : Left(op)' <=> \/ op = Mark(x, "rejected")
                             \/ \E h \in ToSet(listed) : op = Mark(h, "rejected")
                             \/ op = Note("reject", x)
  BY <1>10, <1>11 DEF Handler, Left
<1>13. Rejecting(x)'
  <2>1. Only(RejectOps(x))'
    BY <1>3, <1>12, RejectKinds DEF Only, RejectOps, Covers
  <2>2. Left(Note("reject", x))' /\ Known(items', x) /\ Left(Mark(x, "rejected"))'
    BY <1>2, <1>12
  <2>3. ASSUME NEW h \in Covers(x), Trusted(h)', Holds(items', h, "approved")
        PROVE  Left(Mark(h, "rejected"))'
    <3>1. CASE h = x
      BY <1>12, <3>1
    <3>2. CASE h # x
      <4>1. h \in Listed(x) /\ crashes = 0
        BY <1>2, <1>3, <2>3, <3>2 DEF Trusted
      <4>2. obj[x] # "absent"
        BY <1>2, IdleFacts, HeldFacts
      <4>3. obj[x] = "whole"
        BY <4>1, <4>2 DEF Uncrashed, CustodianTypeOK
      <4> QED
        BY <1>3, <1>12, <4>1, <4>3
    <3> QED
      BY <3>1, <3>2
  <2> QED
    BY <2>1, <2>2, <2>3 DEF Rejecting, Covers
<1> QED
  BY <1>2, <1>10, <1>11, <1>13, SetsOut DEF Plan

LEMMA ServeKeeps ==
  ASSUME CustodianInv, NEW x \in Objects, Serve(x)
  PROVE  CustodianInv'
<1> DEFINE steps == <<Save(x, "approved")>>
<1>1. Handler(items, steps) /\ Idle /\ Has(items, x, {"approved"})
  BY DEF Serve, Servable, Handler
<1>2. items \in Registry
  BY <1>1, IdleFacts
<1>3. /\ steps \in Seq(Steps) /\ Sorted(steps)
      /\ \A op : Among(steps, op) <=> op = Save(x, "approved")
  BY OpTypes, ShortFacts DEF Status
<1> HIDE DEF steps
<1>4. (\A op : Left(op)' <=> op = Save(x, "approved")) /\ items' = items
  BY <1>1, <1>3 DEF Handler, Left
<1>5. Approving(x)'
  <2>1. Only(ApproveOps(x))'
    BY <1>4 DEF Only, ApproveOps
  <2>2. Holds(items', x, "approved")
    BY <1>1, <1>2, <1>4, HeldFacts
  <2>3. \A h, s : ~Left(Mark(h, s))' /\ ~Left(Ready(h))' /\ ~Left(Note(s, h))'
    BY <1>4, OpFields
  <2> QED
    BY <2>1, <2>2, <2>3 DEF Approving
<1> QED
  BY <1>1, <1>3, <1>5, SetsOut DEF Plan

LEMMA DeleteKeeps ==
  ASSUME CustodianInv, NEW x \in Objects, Delete(x)
  PROVE  CustodianInv'
<1> USE DEF CustodianInv
<1>1. PICK listed \in Listings(x) :
        Handler(items, [i \in 1 .. Len(listed) |-> Unlink(listed[i])] \o <<Unlink(x)>>)
  BY DEF Delete
<1>2. Idle
  BY <1>1 DEF Handler
<1>3. listed \in Seq(Objects) /\ Len(listed) \in Nat
  BY ListingFacts, LenProperties DEF CustodianTypeOK
<1> DEFINE first == [i \in 1 .. Len(listed) |-> Unlink(listed[i])]
           last == <<Unlink(x)>>
<1>4. \A i \in 1 .. Len(listed) : listed[i] \in Objects /\ Unlink(listed[i]) \in Steps
  BY <1>3, ElementOfSeq, OpTypes
<1>5. /\ first \in Seq(Steps) /\ Sorted(first)
      /\ \A op : Among(first, op) => \E h \in Objects : op = Unlink(h)
  <2>1. first \in Seq(Steps)
    BY <1>3, <1>4
  <2>2. DOMAIN first = 1 .. Len(listed)
        /\ \A i \in 1 .. Len(listed) : first[i] = Unlink(listed[i])
    OBVIOUS
  <2>3. Sorted(first)
    <3>1. \A g, h : Precedes(Unlink(g), Unlink(h))
      BY OpFields DEF Precedes
    <3> QED
      BY <2>2, <3>1 DEF Sorted
  <2> QED
    BY <1>4, <2>1, <2>2, <2>3 DEF Among
<1>6. /\ last \in Seq(Steps) /\ Sorted(last)
      /\ \A op : Among(last, op) <=> op = Unlink(x)
  BY OpTypes, ShortFacts
<1>7. Handler(items, first \o last)
  BY <1>1
<1> HIDE DEF first, last
<1>8. \A a, b : Among(first, a) /\ Among(last, b) => Precedes(a, b)
  <2>1. \A h : Precedes(Unlink(h), Unlink(x))
    BY OpFields DEF Precedes
  <2> QED
    BY <1>5, <1>6, <2>1
<1>9. /\ first \o last \in Seq(Steps) /\ Sorted(first \o last)
      /\ \A op : Among(first \o last, op) => \E h \in Objects : op = Unlink(h)
  BY <1>5, <1>6, <1>8, AfterFacts
<1>10. Deleting'
  BY <1>7, <1>9 DEF Handler, Left, Deleting, Only, DeleteOps
<1> QED
  BY <1>2, <1>7, <1>9, <1>10, SetsOut DEF Plan

-----------------------------------------------------------------------------
(* Crashes and restarts *)

\* Whatever file a crash leaves in part, no sidecar says more than it did.
LEMMA FallKeeps ==
  ASSUME CustodianInv, Fall, log' = log,
         obj' \in [Objects -> {"absent", "whole", "torn"}],
         meta' \in [Objects -> Status \cup {"absent"}],
         \A h \in Objects : meta'[h] = "approved" => meta[h] = "approved",
         torn' \in BOOLEAN
  PROVE  CustodianInv'
<1> USE DEF CustodianInv
<1>1. /\ up' = FALSE /\ items' = <<>> /\ todo' = <<>> /\ announced' = announced
      /\ crashes \in Nat /\ crashes' = crashes + 1 /\ crashes' \in 0 .. MaxCrashes
  BY BoundsAssumption DEF Fall, CustodianTypeOK
<1>2. crashes' # 0
  BY <1>1
<1>3. \A h, s : ~Holds(items', h, s)
  BY <1>1 DEF Holds
<1>4. CustodianTypeOK'
  <2>1. /\ items' \in Seq([hash : Objects, status : Status]) /\ Len(items') <= Slots
        /\ todo' \in Seq([op : Ops, hash : Objects,
                          val : Status \cup Decision \cup {"absent", "sent"}])
    BY <1>1, SlotsAssumption
  <2> QED
    BY <1>1, <2>1 DEF CustodianTypeOK
<1>5. Distinct(items') /\ Sorted(todo') /\ Plan' /\ DownIsEmpty'
  BY <1>1 DEF Distinct, Sorted, Plan, DownIsEmpty
<1>6. OnFile' /\ ItemsVouched' /\ OnceOpen'
  BY <1>3 DEF OnFile, ItemsVouched, OnceOpen
<1>7. MetaVouched' /\ AnnouncedOnRecord'
  BY <1>1, LedgerStays DEF MetaVouched
<1>8. Uncrashed' /\ ApprovedOnce'
  BY <1>2 DEF Uncrashed, ApprovedOnce
<1> QED
  BY <1>4, <1>5, <1>6, <1>7, <1>8

LEMMA CrashWritingKeeps ==
  ASSUME CustodianInv, CrashWriting
  PROVE  CustodianInv'
<1>1. /\ CustodianTypeOK /\ Fall
      /\ obj \in [Objects -> {"absent", "whole", "torn"}]
      /\ meta \in [Objects -> Status \cup {"absent"}]
      /\ torn \in BOOLEAN
  BY DEF CustodianInv, CustodianTypeOK, CrashWriting
<1>2. log' = log
  BY DEF CrashWriting
<1>3. obj' \in [Objects -> {"absent", "whole", "torn"}]
  BY <1>1 DEF CrashWriting
<1>4. /\ meta' \in [Objects -> Status \cup {"absent"}]
      /\ \A h \in Objects : meta'[h] = "approved" => meta[h] = "approved"
  BY <1>1 DEF CrashWriting, Sidecar, Status
<1>5. torn' \in BOOLEAN
  BY <1>1 DEF CrashWriting
<1> QED
  BY <1>1, <1>2, <1>3, <1>4, <1>5, FallKeeps

LEMMA RestoreKeeps ==
  ASSUME CustodianInv, Restore
  PROVE  CustodianInv'
<1> USE DEF CustodianInv
<1>1. /\ ~up /\ up' = TRUE
      /\ UNCHANGED <<todo, obj, meta, log, torn, announced, crashes>>
  BY DEF Restore, disk
<1>2. todo = <<>> /\ crashes # 0
  BY <1>1 DEF DownIsEmpty, Uncrashed
<1>3. PICK order \in SetToSeqs(Restorable) :
        items' = [i \in 1 .. (IF Len(order) < Slots THEN Len(order) ELSE Slots) |->
                    Item(order[i], meta[order[i]])]
  BY DEF Restore
<1>4. PICK n \in Nat : /\ order \in [1 .. n -> Restorable]
                       /\ \A i, j \in 1 .. n : order[i] = order[j] => i = j
  <2>1. Cardinality(Restorable) \in Nat
    <3>1. Restorable \subseteq Objects
      BY DEF Restorable
    <3> QED
      BY <3>1, HashesAssumption, FS_Subset, FS_CardinalityType
  <2>2. /\ order \in [1 .. Cardinality(Restorable) -> Restorable]
        /\ \A i, j \in 1 .. Cardinality(Restorable) : i # j => order[i] # order[j]
    BY DEF SetToSeqs
  <2> QED
    BY <2>1, <2>2
<1> DEFINE m == IF n < Slots THEN n ELSE Slots
<1>5. /\ m \in Nat /\ m <= Slots /\ m <= n /\ Slots \in Nat
      /\ items' = [i \in 1 .. m |-> Item(order[i], meta[order[i]])]
  <2>1. Len(order) = n
    BY <1>4
  <2> QED
    BY <1>3, <2>1, SlotsAssumption
<1> HIDE DEF m
<1>6. \A i \in 1 .. m : /\ order[i] \in Objects /\ obj[order[i]] # "absent"
                        /\ meta[order[i]] \in Status
                        /\ Item(order[i], meta[order[i]]) \in [hash : Objects, status : Status]
  <2> SUFFICES ASSUME NEW i \in 1 .. m
               PROVE  /\ order[i] \in Objects /\ obj[order[i]] # "absent"
                      /\ meta[order[i]] \in Status
                      /\ Item(order[i], meta[order[i]]) \in [hash : Objects, status : Status]
    OBVIOUS
  <2>1. order[i] \in Restorable
    BY <1>4, <1>5
  <2>2. order[i] \in Objects /\ obj[order[i]] # "absent" /\ meta[order[i]] \in Status
    BY <2>1 DEF Restorable, CustodianTypeOK
  <2> QED
    BY <2>2 DEF Item
<1>7. items' \in Seq([hash : Objects, status : Status]) /\ Len(items') <= Slots
  BY <1>5, <1>6
<1>8. DOMAIN items' = 1 .. m
      /\ \A i \in 1 .. m : items'[i] = Item(order[i], meta[order[i]])
  BY <1>5
<1>9. Distinct(items')
  BY <1>4, <1>5, <1>8, ItemFacts DEF Distinct
\* Every item is what its files say.
<1>10. \A h, s : Holds(items', h, s) => h \in Objects /\ obj[h] # "absent" /\ meta[h] = s
  <2> SUFFICES ASSUME NEW h, NEW s, Holds(items', h, s)
               PROVE  h \in Objects /\ obj[h] # "absent" /\ meta[h] = s
    OBVIOUS
  <2>1. PICK i \in 1 .. m : Item(order[i], meta[order[i]]) = Item(h, s)
    BY <1>8 DEF Holds
  <2>2. order[i] = h /\ meta[order[i]] = s
    BY <2>1, ItemFacts
  <2> QED
    BY <1>6, <2>2
<1>11. CustodianTypeOK'
  BY <1>1, <1>7 DEF CustodianTypeOK
<1>12. Sorted(todo') /\ Plan' /\ DownIsEmpty'
  BY <1>1, <1>2 DEF Sorted, Plan, DownIsEmpty
<1>13. OnFile'
  BY <1>1, <1>10 DEF OnFile
<1>14. ItemsVouched'
  BY <1>1, <1>2, <1>10, LedgerStays DEF ItemsVouched, MetaVouched, Trusted
<1>15. OnceOpen' /\ Uncrashed'
  BY <1>1, <1>2 DEF OnceOpen, Uncrashed
<1>16. MetaVouched' /\ AnnouncedOnRecord' /\ ApprovedOnce'
  BY <1>1, LedgerStays DEF MetaVouched
<1> QED
  BY <1>9, <1>11, <1>12, <1>13, <1>14, <1>15, <1>16

-----------------------------------------------------------------------------
(* The theorems *)

LEMMA CustodianStarts == CustodianInit => CustodianInv
<1> SUFFICES ASSUME CustodianInit PROVE CustodianInv
  OBVIOUS
<1>1. /\ up = TRUE /\ items = <<>> /\ todo = <<>> /\ log = <<>> /\ crashes = 0
      /\ obj = [h \in Objects |-> "absent"] /\ meta = [h \in Objects |-> "absent"]
      /\ torn = FALSE /\ announced = [h \in Objects |-> 0]
  BY DEF CustodianInit
<1>2. \A h, s : ~Holds(items, h, s)
  BY <1>1 DEF Holds
<1>3. CustodianTypeOK
  <2>1. /\ items \in Seq([hash : Objects, status : Status]) /\ Len(items) <= Slots
        /\ todo \in Seq([op : Ops, hash : Objects,
                         val : Status \cup Decision \cup {"absent", "sent"}])
        /\ log \in Seq([type : Decision, hash : Objects])
    BY <1>1, SlotsAssumption
  <2>2. crashes \in 0 .. MaxCrashes
    BY <1>1, BoundsAssumption
  <2> QED
    BY <1>1, <2>1, <2>2 DEF CustodianTypeOK
<1>4. Distinct(items) /\ Sorted(todo) /\ Plan /\ DownIsEmpty
  BY <1>1 DEF Distinct, Sorted, Plan, DownIsEmpty
<1>5. OnFile /\ ItemsVouched /\ OnceOpen
  BY <1>2 DEF OnFile, ItemsVouched, OnceOpen
<1>6. MetaVouched /\ Uncrashed /\ ApprovedOnce
  BY <1>1 DEF MetaVouched, Uncrashed, ApprovedOnce
<1>7. AnnouncedOnRecord
  <2>1. \A h \in Objects : Records("approve", h) \in Nat /\ announced[h] = 0
    BY <1>1, <1>3, RecordsFinite DEF Records, CustodianTypeOK
  <2> QED
    BY <2>1 DEF AnnouncedOnRecord
<1> QED
  BY <1>3, <1>4, <1>5, <1>6, <1>7 DEF CustodianInv

LEMMA CustodianKeeps == CustodianInv /\ [CustodianNext]_custodianVars => CustodianInv'
<1> SUFFICES ASSUME CustodianInv, [CustodianNext]_custodianVars PROVE CustodianInv'
  OBVIOUS
<1>1. ASSUME NEW h \in Singles, IngestSingle(h) PROVE CustodianInv'
  BY <1>1, IngestSingleKeeps
<1>2. ASSUME NEW m \in Manifests, NEW puts \in 0 .. (Len(Parts[m]) + 1),
             IngestManifest(m, puts)
      PROVE  CustodianInv'
  BY <1>2, IngestManifestKeeps
<1>3. ASSUME NEW h \in Objects, Approve(h) PROVE CustodianInv'
  BY <1>3, ApproveKeeps
<1>4. ASSUME NEW h \in Objects, Reject(h) PROVE CustodianInv'
  BY <1>4, RejectKeeps
<1>5. ASSUME NEW h \in Objects, Serve(h) PROVE CustodianInv'
  BY <1>5, ServeKeeps
<1>6. ASSUME NEW h \in Objects, Delete(h) PROVE CustodianInv'
  BY <1>6, DeleteKeeps
<1>7. CASE Step
  BY <1>7, PutKeeps, AddKeeps, MarkKeeps, SaveKeeps, NoteKeeps, ReadyKeeps,
     UnlinkKeeps, ClearKeeps DEF Step
<1>8. CASE Crash
  <2>1. /\ Fall /\ UNCHANGED <<obj, meta, log, torn>>
    BY <1>8 DEF Crash, disk
  <2>2. /\ obj \in [Objects -> {"absent", "whole", "torn"}]
        /\ meta \in [Objects -> Status \cup {"absent"}] /\ torn \in BOOLEAN
    BY DEF CustodianInv, CustodianTypeOK
  <2> QED
    BY <2>1, <2>2, FallKeeps
<1>9. CASE CrashWriting
  BY <1>9, CrashWritingKeeps
<1>10. CASE Restore
  BY <1>10, RestoreKeeps
<1>11. CASE UNCHANGED custodianVars
  <2>1. UNCHANGED <<up, items, todo, obj, meta, log, torn, announced, crashes>>
    BY <1>11 DEF custodianVars, disk
  <2>2. \A op : Left(op)' <=> Left(op)
    BY <2>1 DEF Left
  <2>3. CustodianTypeOK' /\ Distinct(items') /\ Sorted(todo')
    BY <2>1 DEF CustodianInv, CustodianTypeOK
  <2>4. Plan'
    <3>1. \A x : (Closed(x)' <=> Closed(x)) /\ Records("approve", x)' = Records("approve", x)
      BY <2>1, LedgerStays
    <3>2. \A x : Ingesting(x) => Ingesting(x)'
      BY <2>1, <2>2, <3>1 DEF Ingesting, Only, IngestOps, MayBeApproved
    <3>3. \A x : Approving(x) => Approving(x)'
      BY <2>1, <2>2, <3>1 DEF Approving, Only, ApproveOps, Listed
    <3>4. \A x : Rejecting(x) => Rejecting(x)'
      BY <2>1, <2>2 DEF Rejecting, Only, RejectOps, Covers, Trusted
    <3>5. Deleting => Deleting'
      BY <2>2 DEF Deleting, Only, DeleteOps
    <3> QED
      BY <2>1, <3>2, <3>3, <3>4, <3>5 DEF CustodianInv, Plan
  <2>5. OnFile' /\ OnceOpen' /\ ItemsVouched'
    BY <2>1, <2>2, LedgerStays
    DEF CustodianInv, OnFile, OnceOpen, ItemsVouched, Covers, Trusted
  <2>6. MetaVouched' /\ Uncrashed' /\ AnnouncedOnRecord' /\ ApprovedOnce' /\ DownIsEmpty'
    BY <2>1, LedgerStays DEF CustodianInv, MetaVouched, Uncrashed, DownIsEmpty
  <2> QED
    BY <2>3, <2>4, <2>5, <2>6 DEF CustodianInv
<1> QED
  BY <1>1, <1>2, <1>3, <1>4, <1>5, <1>6, <1>7, <1>8, <1>9, <1>10, <1>11
  DEF CustodianNext

LEMMA CustodianInvHolds == CustodianSpec => []CustodianInv
BY CustodianStarts, CustodianKeeps, PTL DEF CustodianSpec

\* Whenever no handler runs, every slot of the registry says what its two files
\* say and no object has two slots, for any objects, manifests and number of
\* slots and wherever crashes cut the handlers: item_add() with its eviction,
\* the two callbacks for shards, handle_delete() and scan_and_restore() never
\* leave a status or an object in memory alone.
THEOREM RegistryIsOnDisk == CustodianSpec => []RegistryOnDisk
<1>1. CustodianInv => RegistryOnDisk
  <2> SUFFICES ASSUME CustodianInv PROVE RegistryOnDisk
    OBVIOUS
  <2>1. ASSUME Idle, NEW i \in DOMAIN items
        PROVE  meta[items[i].hash] = items[i].status /\ obj[items[i].hash] # "absent"
    <3>1. /\ items \in Registry
          /\ \A h \in Objects, s \in Status : Holds(items, h, s) =>
               obj[h] # "absent" /\ meta[h] = s
      BY <2>1, IdleFacts
    <3>2. /\ items[i].hash \in Objects /\ items[i].status \in Status
          /\ Holds(items, items[i].hash, items[i].status)
      BY <2>1, <3>1, RegistryFacts DEF Holds
    <3> QED
      BY <3>1, <3>2
  <2> QED
    BY <2>1 DEF RegistryOnDisk, CustodianInv, Distinct
<1> QED
  BY <1>1, CustodianInvHolds, PTL

\* Nothing is approved on disk, and nothing announced to the workers, that the
\* ledger does not vouch for, wherever a crash cuts on_approved() and
\* on_rejected().
THEOREM EverythingOnRecord == CustodianSpec => []OnRecord
<1>1. CustodianInv => OnRecord
  <2> SUFFICES ASSUME CustodianInv PROVE OnRecord
    OBVIOUS
  <2>1. ASSUME NEW h \in Objects, meta[h] = "approved", h \in Shards,
               todo = <<>>, crashes = 0
        PROVE  Vouched(h)
    <3>1. Idle /\ Known(items, h)
      BY <2>1 DEF CustodianInv, Uncrashed, Idle
    <3>2. items \in Registry
      BY <3>1, IdleFacts
    <3>3. PICK s \in Status : Holds(items, h, s)
      BY <3>1, <3>2, HeldFacts
    <3> QED
      BY <2>1, <3>1, <3>3, IdleFacts DEF Trusted
  <2>2. ApprovedOnRecord
    BY <2>1 DEF CustodianInv, MetaVouched, ApprovedOnRecord
  <2> QED
    BY <2>2 DEF CustodianInv, OnRecord
<1> QED
  BY <1>1, CustodianInvHolds, PTL

\* However often an approval is repeated, on the topic or over HTTP, it is
\* recorded once: on_approved() asks for the status first.
THEOREM ApprovedAtMostOnce == CustodianSpec => []ApprovedOnce
<1>1. CustodianInv => ApprovedOnce
  BY DEF CustodianInv
<1> QED
  BY <1>1, CustodianInvHolds, PTL
=============================================================================
