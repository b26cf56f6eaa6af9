--------------------------- MODULE DataFlowProofs ---------------------------
(***************************************************************************)
(* Theorems about the way of data from its submission to a program, for any  *)
(* names and data, any capacities, and a disk and queues of any size.        *)
(***************************************************************************)
EXTENDS DataFlow, ScanProofs, SequenceTheorems

NamedData == [name : Names, hash : Hashes]

----------------------------------------------------------------------------
(* The searches *)

\* The first of the indices that match, or 0.
LEMMA FirstHit ==
  ASSUME NEW n \in Nat, NEW I \in SUBSET (1..n), NEW f,
         f = IF I # {} THEN Min(I) ELSE 0
  PROVE  /\ f \in 0..n
         /\ f = 0 <=> I = {}
         /\ f # 0 => f \in I /\ \A j \in I : f <= j
<1>1. CASE I = {}
  BY <1>1
<1>2. CASE I # {}
  <2>1. I \in SUBSET Nat
    OBVIOUS
  <2>2. First(I) \in I
    BY <1>2, <2>1, FirstIsMember
  <2>3. \A j \in I : First(I) <= j
    BY <2>1, FirstIsLeast
  <2>4. f = First(I)
    BY <1>2 DEF Min, First
  <2>5. f \in 1..n /\ f \in I
    BY <2>2, <2>4
  <2>6. \A j \in I : f <= j
    BY <2>3, <2>4
  <2> QED
    BY <1>2, <2>5, <2>6
<1> QED
  BY <1>1, <1>2

LEMMA FoundFacts ==
  ASSUME NEW list \in Seq(Submission), NEW h
  PROVE  /\ Found(list, h) \in 0..Len(list)
         /\ Found(list, h) = 0 <=> \A i \in 1..Len(list) : list[i].hash # h
         /\ Found(list, h) # 0 =>
              /\ list[Found(list, h)].hash = h
              /\ \A i \in 1..Len(list) : list[i].hash = h => Found(list, h) <= i
<1> DEFINE I == {i \in 1..Len(list) : list[i].hash = h}
<1>1. Found(list, h) = IF I # {} THEN Min(I) ELSE 0
  BY DEF Found, SelectInSeq
<1>2. Len(list) \in Nat /\ I \in SUBSET (1..Len(list))
  BY LenProperties
<1>3. /\ Found(list, h) \in 0..Len(list)
      /\ Found(list, h) = 0 <=> I = {}
      /\ Found(list, h) # 0 => /\ Found(list, h) \in I
                               /\ \A j \in I : Found(list, h) <= j
  BY <1>1, <1>2, FirstHit
<1> QED
  BY <1>3

IsSubmission(r, h) == r.type = "DATA_SUBMIT" /\ r.hash = h

LEMMA FirstRecordFacts ==
  ASSUME NEW list \in Seq(Record), NEW h
  PROVE  /\ FirstRecord(list, h) \in 0..Len(list)
         /\ FirstRecord(list, h) = 0
              <=> \A i \in 1..Len(list) : ~IsSubmission(list[i], h)
         /\ FirstRecord(list, h) # 0 =>
              /\ IsSubmission(list[FirstRecord(list, h)], h)
              /\ \A i \in 1..Len(list) :
                   IsSubmission(list[i], h) => FirstRecord(list, h) <= i
<1> DEFINE I == {i \in 1..Len(list) : IsSubmission(list[i], h)}
<1>1. FirstRecord(list, h) = IF I # {} THEN Min(I) ELSE 0
  BY DEF FirstRecord, SelectInSeq, IsSubmission
<1>2. Len(list) \in Nat /\ I \in SUBSET (1..Len(list))
  BY LenProperties
<1>3. /\ FirstRecord(list, h) \in 0..Len(list)
      /\ FirstRecord(list, h) = 0 <=> I = {}
      /\ FirstRecord(list, h) # 0 => /\ FirstRecord(list, h) \in I
                                     /\ \A j \in I : FirstRecord(list, h) <= j
  BY <1>1, <1>2, FirstHit
<1> QED
  BY <1>3

\* Registering leaves a name for data either where it was or at the end, and
\* every other name as it was.
LEMMA RegisterFacts ==
  ASSUME NEW names \in Seq(NamedData), NEW n \in Names, NEW h \in Hashes
  PROVE  /\ Register(names, n, h) \in Seq(NamedData)
         /\ \A i \in 1..Len(Register(names, n, h)) :
              \/ Register(names, n, h)[i] = [name |-> n, hash |-> h]
              \/ i \in 1..Len(names) /\ Register(names, n, h)[i] = names[i]
<1> DEFINE I == {i \in 1..Len(names) : names[i].name = n}
           f == SelectInSeq(names, LAMBDA d : d.name = n)
           e == [name |-> n, hash |-> h]
<1>1. f = IF I # {} THEN Min(I) ELSE 0
  BY DEF SelectInSeq
<1>2. Len(names) \in Nat /\ I \in SUBSET (1..Len(names))
  BY LenProperties
<1>3. f \in 0..Len(names) /\ (f # 0 => f \in I)
  <2> HIDE DEF f, I
  <2> QED
    BY <1>1, <1>2, FirstHit
<1>4. Register(names, n, h)
        = IF f # 0 THEN [names EXCEPT ![f].hash = h]
          ELSE IF Len(names) < MaxDataNames THEN Append(names, e) ELSE names
  BY DEF Register
<1>5. f # 0 => f \in 1..Len(names) /\ names[f].name = n
  BY <1>3
<1>6. e \in NamedData
  BY DEF NamedData
<1> HIDE DEF f
<1>7. CASE f # 0
  <2>1. names[f] \in NamedData
    BY <1>5, <1>7, ElementOfSeq
  <2>2. [names[f] EXCEPT !.hash = h] = e
    BY <1>5, <1>7, <2>1 DEF NamedData
  <2>3. Register(names, n, h) = [names EXCEPT ![f] = e]
    BY <1>4, <1>5, <1>7, <2>2, LenProperties
  <2> HIDE DEF e
  <2>4. /\ [names EXCEPT ![f] = e] \in Seq(NamedData)
        /\ Len([names EXCEPT ![f] = e]) = Len(names)
        /\ \A j \in 1..Len(names) : [names EXCEPT ![f] = e][j] = IF j = f THEN e ELSE names[j]
    BY <1>5, <1>6, <1>7, ExceptSeq
  <2> QED
    BY <2>3, <2>4 DEF e
<1>8. CASE f = 0 /\ Len(names) < MaxDataNames
  <2>1. Register(names, n, h) = Append(names, e)
    BY <1>4, <1>8
  <2> HIDE DEF e
  <2> QED
    BY <1>2, <1>6, <2>1, AppendProperties DEF e
<1>9. CASE f = 0 /\ ~(Len(names) < MaxDataNames)
  BY <1>4, <1>9
<1> QED
  BY <1>7, <1>8, <1>9

----------------------------------------------------------------------------
(* What the records tell *)

\* One record more after a chain of them.
LEMMA RecordAppended ==
  ASSUME NEW list \in Seq(Record), NEW r \in Record
  PROVE  /\ Append(list, r) \in Seq(Record)
         /\ Len(Append(list, r)) = Len(list) + 1
         /\ Len(list) \in Nat
         /\ \A k \in 1..Len(list) : Append(list, r)[k] = list[k]
         /\ Append(list, r)[Len(list) + 1] = r
BY AppendProperties, LenProperties

\* It is the first submission of the data only if there was none before.
LEMMA FirstRecordAppended ==
  ASSUME NEW list \in Seq(Record), NEW r \in Record, NEW h
  PROVE  FirstRecord(Append(list, r), h)
           = IF FirstRecord(list, h) # 0 THEN FirstRecord(list, h)
             ELSE IF IsSubmission(r, h) THEN Len(list) + 1 ELSE 0
<1> DEFINE u == Append(list, r)
           n == Len(list)
           f == FirstRecord(list, h)
           g == FirstRecord(u, h)
<1>1. /\ u \in Seq(Record) /\ Len(u) = n + 1 /\ n \in Nat
      /\ \A k \in 1..n : u[k] = list[k]
      /\ u[n + 1] = r
  BY RecordAppended
<1> HIDE DEF u, n
<1>2. /\ f \in 0..n
      /\ f = 0 <=> \A i \in 1..n : ~IsSubmission(list[i], h)
      /\ f # 0 => /\ IsSubmission(list[f], h)
                  /\ \A i \in 1..n : IsSubmission(list[i], h) => f <= i
  BY FirstRecordFacts DEF n
<1>3. /\ g \in 0..n + 1
      /\ g = 0 <=> \A i \in 1..n + 1 : ~IsSubmission(u[i], h)
      /\ g # 0 => /\ IsSubmission(u[g], h)
                  /\ \A i \in 1..n + 1 : IsSubmission(u[i], h) => g <= i
  BY <1>1, FirstRecordFacts
<1> HIDE DEF f, g
<1>4. CASE f # 0
  <2>1. f \in 1..n /\ f \in 1..n + 1 /\ IsSubmission(u[f], h)
    BY <1>1, <1>2, <1>4
  <2>2. g # 0 /\ g <= f /\ g \in 1..n
    BY <1>1, <1>3, <2>1
  <2>3. f <= g
    BY <1>1, <1>2, <1>3, <1>4, <2>2
  <2> QED
    BY <1>4, <2>1, <2>2, <2>3 DEF f, g, u
<1>5. CASE f = 0 /\ IsSubmission(r, h)
  <2>1. \A i \in 1..n : ~IsSubmission(u[i], h)
    BY <1>1, <1>2, <1>5
  <2>2. n + 1 \in 1..n + 1 /\ IsSubmission(u[n + 1], h)
    BY <1>1, <1>5
  <2>3. g # 0 /\ g \notin 1..n
    BY <1>3, <2>1, <2>2
  <2>4. g = n + 1
    BY <1>1, <1>3, <2>3
  <2> QED
    BY <1>5, <2>4 DEF f, g, u, n
<1>6. CASE f = 0 /\ ~IsSubmission(r, h)
  <2>1. \A i \in 1..n : ~IsSubmission(u[i], h)
    BY <1>1, <1>2, <1>6
  <2>2. \A i \in 1..n + 1 : i \in 1..n \/ i = n + 1
    BY <1>1
  <2>3. g = 0
    BY <1>1, <1>3, <1>6, <2>1, <2>2
  <2> QED
    BY <1>6, <2>3 DEF f, g, u
<1> QED
  BY <1>4, <1>5, <1>6

\* told is the account of the records, from none of them to all.
Tells(told, list) ==
  told = [k \in 0..Len(list) |->
           IF k = 0 THEN <<>> ELSE Told(told[k - 1], list, k)]

\* There is only one such account: of two, consider the first record where they
\* differ.
LEMMA OneAccount ==
  ASSUME NEW list \in Seq(Record), NEW f, NEW g, Tells(f, list), Tells(g, list)
  PROVE  f = g
<1> DEFINE n == Len(list)
           D == {k \in 0..n : f[k] # g[k]}
<1>1. n \in Nat
  BY LenProperties
<1>2. /\ DOMAIN f = 0..n /\ DOMAIN g = 0..n
      /\ f = [k \in 0..n |-> f[k]] /\ g = [k \in 0..n |-> g[k]]
  BY Zenon DEF Tells
<1>3. \A k \in 0..n : /\ f[k] = IF k = 0 THEN <<>> ELSE Told(f[k - 1], list, k)
                      /\ g[k] = IF k = 0 THEN <<>> ELSE Told(g[k - 1], list, k)
  BY Zenon DEF Tells
<1>4. D = {}
  <2> SUFFICES ASSUME D # {} PROVE FALSE
    OBVIOUS
  <2> HIDE DEF n
  <2>1. D \in SUBSET Nat
    BY <1>1
  <2>2. PICK k \in D : \A j \in D : k <= j
    BY <2>1, LeastIndex
  <2>3. k \in 0..n /\ f[k] # g[k]
    BY <2>2
  <2>4. CASE k = 0
    BY <1>3, <2>3, <2>4
  <2>5. CASE k # 0
    <3>1. k - 1 \in 0..n /\ ~(k <= k - 1)
      BY <1>1, <2>3, <2>5
    <3>2. f[k - 1] = g[k - 1]
      BY <2>2, <3>1
    <3> QED
      BY <1>3, <2>3, <2>5, <3>2, Zenon
  <2> QED
    BY <2>4, <2>5
<1>5. \A k \in 0..n : f[k] = g[k]
  BY <1>4
<1> QED
  BY <1>2, <1>5, Zenon

\* So the names told from the records are where any account of them ends.
LEMMA NamesAreTold ==
  ASSUME NEW list \in Seq(Record), NEW f, Tells(f, list)
  PROVE  NamesOf(list) = f[Len(list)]
<1> DEFINE told == CHOOSE g : Tells(g, list)
<1>1. Tells(told, list)
  OBVIOUS
<1>2. told = f
  BY <1>1, OneAccount
<1>3. NamesOf(list) = told[Len(list)]
  BY DEF NamesOf, Tells
<1> QED
  BY <1>2, <1>3

\* Every approval on record is of data that has been submitted on record.
NamesSubmitted(list) ==
  \A k \in 1..Len(list) :
    list[k].type = "DATA_APPROVE" => FirstRecord(list, list[k].hash) # 0

\* An account goes on with what the next record tells.
LEMMA AccountGoesOn ==
  ASSUME NEW list \in Seq(Record), NEW r \in Record, NEW f, Tells(f, list),
         NamesSubmitted(list)
  PROVE  \E g : /\ Tells(g, Append(list, r))
                /\ g[Len(Append(list, r))]
                     = Told(f[Len(list)], Append(list, r), Len(list) + 1)
<1> DEFINE u == Append(list, r)
           n == Len(list)
           g == [k \in 0..n + 1 |-> IF k = n + 1 THEN Told(f[n], u, n + 1) ELSE f[k]]
<1>1. /\ u \in Seq(Record) /\ Len(u) = n + 1 /\ n \in Nat
      /\ \A k \in 1..n : u[k] = list[k]
      /\ u[n + 1] = r
  BY RecordAppended
<1>2. \A k \in 0..n : f[k] = IF k = 0 THEN <<>> ELSE Told(f[k - 1], list, k)
  BY Zenon DEF Tells
<1>3. ASSUME NEW names, NEW k \in 1..n
      PROVE  Told(names, u, k) = Told(names, list, k)
  <2>1. u[k] = list[k]
    BY <1>1
  <2>2. CASE list[k].type = "DATA_APPROVE"
    <3> DEFINE h == list[k].hash
    <3>1. FirstRecord(list, h) # 0
      BY <2>2 DEF NamesSubmitted
    <3>2. FirstRecord(u, h) = FirstRecord(list, h)
      BY <3>1, FirstRecordAppended
    <3>3. FirstRecord(list, h) \in 1..n
      BY <3>1, FirstRecordFacts
    <3>4. u[FirstRecord(u, h)] = list[FirstRecord(list, h)]
      BY <1>1, <3>2, <3>3
    <3> QED
      BY <2>1, <3>4, Zenon DEF Told
  <2>3. CASE list[k].type # "DATA_APPROVE"
    BY <2>1, <2>3 DEF Told
  <2> QED
    BY <2>2, <2>3
<1> HIDE DEF u, n
<1>4. ASSUME NEW k \in 0..n + 1
      PROVE  g[k] = IF k = 0 THEN <<>> ELSE Told(g[k - 1], u, k)
  <2>1. CASE k = 0
    <3>1. 0 \in 0..n /\ 0 # n + 1 /\ 0 \in 0..n + 1
      BY <1>1
    <3>2. g[0] = f[0] /\ f[0] = <<>>
      BY <1>2, <3>1
    <3> QED
      BY <2>1, <3>2
  <2>2. CASE k \in 1..n
    <3>1. k \in 0..n /\ k # 0 /\ k # n + 1 /\ k - 1 \in 0..n + 1 /\ k - 1 # n + 1
      BY <1>1, <2>2
    <3>2. g[k] = f[k] /\ g[k - 1] = f[k - 1]
      BY <3>1
    <3>3. f[k] = Told(f[k - 1], list, k)
      BY <1>2, <3>1
    <3>4. Told(f[k - 1], u, k) = Told(f[k - 1], list, k)
      BY <1>3, <2>2
    <3> QED
      BY <3>1, <3>2, <3>3, <3>4, Zenon
  <2>3. CASE k = n + 1
    <3>1. k # 0 /\ k - 1 = n /\ n \in 0..n + 1 /\ n # n + 1
      BY <1>1, <2>3
    <3>2. g[k] = Told(f[n], u, n + 1) /\ g[n] = f[n]
      BY <2>3, <3>1
    <3> QED
      BY <2>3, <3>1, <3>2, Zenon
  <2> QED
    BY <1>1, <2>1, <2>2, <2>3
<1>5. DOMAIN g = 0..n + 1 /\ n + 1 \in 0..n + 1 /\ g[n + 1] = Told(f[n], u, n + 1)
  BY <1>1
<1>6. g = [k \in 0..n + 1 |-> g[k]]
  BY <1>5
<1> HIDE DEF g
<1>7. Tells(g, u)
  BY <1>1, <1>4, <1>6, Zenon DEF Tells
<1> QED
  BY <1>1, <1>5, <1>7, Zenon DEF u, n

----------------------------------------------------------------------------
(* The invariant *)

\* A name leads to data that was approved under it.
NamedWasApproved ==
  \A i \in 1..Len(data_names) :
    <<data_names[i].name, data_names[i].hash>> \in approved

\* What the worker was told of, holds and ran on was approved under the name it
\* was started for; once its data was rejected it has nothing under way.
WorkerOK ==
  /\ resolved # NoHash => <<DataName, resolved>> \in approved
  /\ entry.valid => <<DataName, entry.hash>> \in approved
  /\ ComputedWasApproved
  /\ IsIdle => resolved = NoHash
  /\ barred => IsIdle /\ entry.rejected

\* The first submission of data is on record under the same name.
SameFirst(list, records, h) ==
  /\ Found(list, h) = 0 <=> FirstRecord(records, h) = 0
  /\ Found(list, h) # 0 =>
       list[Found(list, h)].name = records[FirstRecord(records, h)].name

Accounted(records, names) ==
  \E f : Tells(f, records) /\ f[Len(records)] = names

\* The names are those of an account of the records, and the account can be gone
\* on with: it knows under what name the data in quarantine was submitted.
ChainOK ==
  /\ NamesSubmitted(Since)
  /\ \A h \in Hashes : SameFirst(quarantine, Since, h)
  /\ Accounted(Since, data_names)

DataInv == TypeOK /\ NamedWasApproved /\ WorkerOK /\ (~unlogged => ChainOK)

LEMMA SinceIsRecords ==
  ASSUME TypeOK
  PROVE  Since \in Seq(Record)
<1>1. chain \in Seq(Record) /\ started \in 0..Len(chain) /\ Len(chain) \in Nat
  BY LenProperties DEF TypeOK
<1>2. \A i \in started + 1..Len(chain) : chain[i] \in Record
  BY <1>1, ElementOfSeq
<1> QED
  BY <1>1, <1>2, SubSeqProperties DEF Since

LEMMA SubSeqAppended ==
  ASSUME NEW s \in Seq(Record), NEW r \in Record, NEW m \in 0..Len(s)
  PROVE  SubSeq(Append(s, r), m + 1, Len(s) + 1) = Append(SubSeq(s, m + 1, Len(s)), r)
<1> DEFINE n == Len(s)
           u == Append(s, r)
           a == SubSeq(u, m + 1, n + 1)
           b == SubSeq(s, m + 1, n)
<1>1. /\ u \in Seq(Record) /\ Len(u) = n + 1 /\ n \in Nat /\ m \in Nat
      /\ \A k \in 1..n : u[k] = s[k]
      /\ u[n + 1] = r
  BY RecordAppended
<1> HIDE DEF u, n
<1>2. /\ \A i \in m + 1..n : s[i] \in Record
      /\ \A i \in m + 1..n + 1 : u[i] \in Record
  BY <1>1, ElementOfSeq DEF n
<1>3. /\ a \in Seq(Record) /\ Len(a) = n + 1 - m
      /\ \A i \in 1..n + 1 - m : a[i] = u[m + i]
  <2>1. /\ a \in Seq(Record)
        /\ Len(a) = IF m + 1 <= n + 1 THEN n + 1 - (m + 1) + 1 ELSE 0
        /\ \A i \in 1..n + 1 - (m + 1) + 1 : a[i] = u[m + 1 + i - 1]
    BY <1>1, <1>2, SubSeqProperties
  <2> QED
    BY <1>1, <2>1 DEF n
<1>4. /\ b \in Seq(Record) /\ Len(b) = n - m
      /\ \A i \in 1..n - m : b[i] = s[m + i]
  <2>1. /\ b \in Seq(Record)
        /\ Len(b) = IF m + 1 <= n THEN n - (m + 1) + 1 ELSE 0
        /\ \A i \in 1..n - (m + 1) + 1 : b[i] = s[m + 1 + i - 1]
    BY <1>1, <1>2, SubSeqProperties DEF n
  <2> QED
    BY <1>1, <2>1 DEF n
<1> HIDE DEF a, b
<1>5. /\ Append(b, r) \in Seq(Record) /\ Len(Append(b, r)) = n - m + 1
      /\ \A i \in 1..n - m : Append(b, r)[i] = b[i]
      /\ Append(b, r)[n - m + 1] = r
  BY <1>4, RecordAppended
<1>6. m \in 0..n
  BY DEF n
<1>7. \A i \in 1..Len(a) : a[i] = Append(b, r)[i]
  <2> SUFFICES ASSUME NEW i \in 1..n + 1 - m PROVE a[i] = Append(b, r)[i]
    BY <1>3
  <2>1. CASE i \in 1..n - m
    <3>1. m + i \in 1..n
      BY <1>1, <1>6, <2>1
    <3>2. a[i] = u[m + i] /\ u[m + i] = s[m + i]
      BY <1>1, <1>3, <3>1
    <3>3. Append(b, r)[i] = b[i] /\ b[i] = s[m + i]
      BY <1>4, <1>5, <2>1
    <3> QED
      BY <3>2, <3>3
  <2>2. CASE i = n - m + 1
    <3>1. m + i = n + 1
      BY <1>1, <1>6, <2>2
    <3>2. a[i] = r
      BY <1>1, <1>3, <3>1
    <3> QED
      BY <1>5, <2>2, <3>2
  <2>3. i \in 1..n - m \/ i = n - m + 1
    <3>1. m \in Nat /\ n \in Nat /\ m <= n
      BY <1>1, <1>6
    <3> QED
      BY <3>1
  <2> QED
    BY <2>1, <2>2, <2>3
<1>8. Len(a) = Len(Append(b, r))
  BY <1>1, <1>3, <1>5, <1>6
<1> QED
  BY <1>3, <1>5, <1>7, <1>8, SeqEqual DEF a, b, u, n

\* A record is added to those since the start, or the chain is known to lack one.
LEMMA LogFacts ==
  ASSUME TypeOK, NEW r \in Record, Log(r)
  PROVE  /\ chain' \in Seq(Record) /\ started' \in 0..Len(chain')
         /\ unlogged' \in BOOLEAN
         /\ ~unlogged' => ~unlogged /\ Since' = Append(Since, r)
<1>1. chain \in Seq(Record) /\ started \in 0..Len(chain) /\ Len(chain) \in Nat
      /\ unlogged \in BOOLEAN
  BY LenProperties DEF TypeOK
<1>2. CASE chain' = Append(chain, r) /\ started' = started /\ unlogged' = unlogged
  <2>1. chain' \in Seq(Record) /\ Len(chain') = Len(chain) + 1
    BY <1>1, <1>2, RecordAppended
  <2>2. Since' = Append(Since, r)
    BY <1>1, <1>2, <2>1, SubSeqAppended DEF Since
  <2> QED
    BY <1>1, <1>2, <2>1, <2>2
<1>3. CASE unlogged' = TRUE /\ chain' = chain /\ started' = started
  BY <1>1, <1>3
<1> QED
  BY <1>2, <1>3 DEF Log

\* Where nothing but the states of the submissions changed, the same is found.
LEMMA FoundRemains ==
  ASSUME NEW s \in Seq(Submission), NEW u \in Seq(Submission), Len(u) = Len(s),
         \A i \in 1..Len(s) : u[i].hash = s[i].hash /\ u[i].name = s[i].name,
         NEW h
  PROVE  /\ Found(u, h) = Found(s, h)
         /\ Found(s, h) # 0 => u[Found(u, h)].name = s[Found(s, h)].name
<1> DEFINE f == Found(s, h)
           g == Found(u, h)
<1>1. Len(s) \in Nat
  BY LenProperties
<1>2. /\ f \in 0..Len(s)
      /\ f = 0 <=> \A i \in 1..Len(s) : s[i].hash # h
      /\ f # 0 => s[f].hash = h /\ \A i \in 1..Len(s) : s[i].hash = h => f <= i
  BY FoundFacts
<1>3. /\ g \in 0..Len(s)
      /\ g = 0 <=> \A i \in 1..Len(s) : u[i].hash # h
      /\ g # 0 => u[g].hash = h /\ \A i \in 1..Len(s) : u[i].hash = h => g <= i
  BY FoundFacts
<1> HIDE DEF f, g
<1>4. f = g
  BY <1>1, <1>2, <1>3
<1>5. f # 0 => f \in 1..Len(s)
  BY <1>1, <1>2
<1> QED
  BY <1>4, <1>5 DEF f, g

LEMMA FoundAppended ==
  ASSUME NEW s \in Seq(Submission), NEW q \in Submission, NEW h
  PROVE  /\ Found(s, h) # 0 =>
              /\ Found(Append(s, q), h) = Found(s, h)
              /\ Append(s, q)[Found(s, h)] = s[Found(s, h)]
         /\ Found(s, h) = 0 /\ q.hash = h =>
              /\ Found(Append(s, q), h) = Len(s) + 1
              /\ Append(s, q)[Len(s) + 1] = q
         /\ Found(s, h) = 0 /\ q.hash # h => Found(Append(s, q), h) = 0
<1> DEFINE u == Append(s, q)
           n == Len(s)
           f == Found(s, h)
           g == Found(u, h)
<1>1. /\ u \in Seq(Submission) /\ Len(u) = n + 1 /\ n \in Nat
      /\ \A k \in 1..n : u[k] = s[k]
      /\ u[n + 1] = q
  BY AppendProperties, LenProperties
<1> HIDE DEF u
<1>2. /\ f \in 0..n
      /\ f = 0 <=> \A i \in 1..n : s[i].hash # h
      /\ f # 0 => s[f].hash = h /\ \A i \in 1..n : s[i].hash = h => f <= i
  BY FoundFacts
<1>3. /\ g \in 0..n + 1
      /\ g = 0 <=> \A i \in 1..n + 1 : u[i].hash # h
      /\ g # 0 => u[g].hash = h /\ \A i \in 1..n + 1 : u[i].hash = h => g <= i
  BY <1>1, FoundFacts
<1> HIDE DEF f, g, n
<1>4. \A i \in 1..n + 1 : i \in 1..n \/ i = n + 1
  BY <1>1
<1>5. 1..n \subseteq 1..n + 1 /\ n + 1 \in 1..n + 1
  BY <1>1
<1>6. CASE f # 0
  <2>1. f \in 1..n /\ u[f].hash = h /\ u[f] = s[f]
    BY <1>1, <1>2, <1>6
  <2>2. g # 0 /\ g <= f /\ g \in 1..n
    BY <1>1, <1>3, <1>5, <2>1
  <2>3. f <= g
    BY <1>1, <1>2, <1>3, <1>6, <2>2
  <2>4. g = f
    BY <1>1, <1>2, <1>3, <2>2, <2>3
  <2> QED
    BY <1>6, <2>1, <2>4 DEF f, g, u
<1>7. CASE f = 0 /\ q.hash = h
  <2>1. \A i \in 1..n : u[i].hash # h
    BY <1>1, <1>2, <1>7
  <2>2. g # 0 /\ g \notin 1..n
    BY <1>1, <1>3, <1>5, <1>7, <2>1
  <2>3. g = n + 1
    BY <1>1, <1>3, <2>2
  <2> QED
    BY <1>1, <1>7, <2>3 DEF f, g, u, n
<1>8. CASE f = 0 /\ q.hash # h
  <2>1. \A i \in 1..n + 1 : u[i].hash # h
    BY <1>1, <1>2, <1>4, <1>8
  <2> QED
    BY <1>3, <1>8, <2>1 DEF f, g, u
<1> QED
  BY <1>6, <1>7, <1>8

----------------------------------------------------------------------------
(* The sentient's steps *)

\* handle_data_submit(): quarantine and chain name the data alike.
LEMMA SubmitKeeps ==
  ASSUME DataInv, NEW h \in Hashes, NEW n \in Names, Submit(h, n)
  PROVE  DataInv'
<1> DEFINE q == [hash |-> h, name |-> n, status |-> "pending"]
           r == [type |-> "DATA_SUBMIT", hash |-> h, name |-> n]
<1>1. /\ TypeOK /\ quarantine \in Seq(Submission) /\ Len(quarantine) \in Nat
      /\ Since \in Seq(Record)
      /\ quarantine' = Append(quarantine, q) /\ Len(quarantine) < MaxQuarantine
      /\ MaxQuarantine \in Nat
      /\ Log(r)
      /\ data_names' = data_names /\ approved' = approved /\ entry' = entry
      /\ task' = task /\ resolved' = resolved /\ barred' = barred
      /\ computed' = NoHash
  BY SinceIsRecords, LenProperties, DataFlowAssumption
     DEF DataInv, TypeOK, Submit, workerVars, NoRun
<1>2. q \in Submission /\ q.hash = h /\ q.name = n
  BY DEF Submission
<1>3. r \in Record /\ IsSubmission(r, h) /\ r.type # "DATA_APPROVE" /\ r.name = n
      /\ \A d : IsSubmission(r, d) => d = h
  BY DEF Record, IsSubmission
<1> HIDE DEF q, r
<1>4. /\ quarantine' \in Seq(Submission)
      /\ Len(quarantine') <= MaxQuarantine
  BY <1>1, <1>2, AppendProperties
<1>5. /\ chain' \in Seq(Record) /\ started' \in 0..Len(chain')
      /\ unlogged' \in BOOLEAN
      /\ ~unlogged' => ~unlogged /\ Since' = Append(Since, r)
  BY <1>1, <1>3, LogFacts
<1>6. TypeOK'
  BY <1>1, <1>4, <1>5 DEF DataInv, TypeOK
<1>7. NamedWasApproved' /\ WorkerOK'
  BY <1>1 DEF DataInv, NamedWasApproved, WorkerOK, IsIdle, ComputedWasApproved
<1>8. ASSUME ~unlogged' PROVE ChainOK'
  <2>1. ChainOK /\ Since' = Append(Since, r)
    BY <1>5, <1>8 DEF DataInv
  <2>2. /\ Len(Append(Since, r)) = Len(Since) + 1 /\ Len(Since) \in Nat
        /\ \A k \in 1..Len(Since) : Append(Since, r)[k] = Since[k]
        /\ Append(Since, r)[Len(Since) + 1] = r
    BY <1>1, <1>3, RecordAppended
  <2>3. NamesSubmitted(Append(Since, r))
    <3> SUFFICES ASSUME NEW k \in 1..Len(Since) + 1,
                        Append(Since, r)[k].type = "DATA_APPROVE"
                 PROVE  FirstRecord(Append(Since, r), Append(Since, r)[k].hash) # 0
      BY <2>2 DEF NamesSubmitted
    <3>1. k # Len(Since) + 1
      BY <1>3, <2>2
    <3>2. k \in 1..Len(Since)
      BY <2>2, <3>1
    <3>3. FirstRecord(Since, Since[k].hash) # 0 /\ Append(Since, r)[k] = Since[k]
      BY <2>1, <2>2, <3>2 DEF ChainOK, NamesSubmitted
    <3> QED
      BY <1>1, <1>3, <3>3, FirstRecordAppended
  <2>4. ASSUME NEW d \in Hashes PROVE SameFirst(quarantine', Since', d)
    <3>1. SameFirst(quarantine, Since, d)
      BY <2>1 DEF ChainOK
    <3>2. CASE Found(quarantine, d) # 0
      <4>1. /\ Found(quarantine', d) = Found(quarantine, d)
            /\ quarantine'[Found(quarantine, d)] = quarantine[Found(quarantine, d)]
        BY <1>1, <1>2, <3>2, FoundAppended
      <4>2. FirstRecord(Since, d) # 0
        BY <3>1, <3>2 DEF SameFirst
      <4>3. FirstRecord(Since', d) = FirstRecord(Since, d)
        BY <1>1, <1>3, <2>1, <4>2, FirstRecordAppended
      <4>4. FirstRecord(Since, d) \in 1..Len(Since)
        BY <1>1, <4>2, FirstRecordFacts
      <4>5. Since'[FirstRecord(Since, d)] = Since[FirstRecord(Since, d)]
        BY <2>1, <2>2, <4>4
      <4> QED
        BY <3>1, <3>2, <4>1, <4>2, <4>3, <4>5 DEF SameFirst
    <3>3. CASE Found(quarantine, d) = 0 /\ d = h
      <4>1. /\ Found(quarantine', d) = Len(quarantine) + 1
            /\ quarantine'[Len(quarantine) + 1] = q
        BY <1>1, <1>2, <3>3, FoundAppended
      <4>2. FirstRecord(Since, d) = 0
        BY <3>1, <3>3 DEF SameFirst
      <4>3. FirstRecord(Since', d) = Len(Since) + 1
        BY <1>1, <1>3, <2>1, <3>3, <4>2, FirstRecordAppended
      <4>4. Since'[Len(Since) + 1] = r
        BY <2>1, <2>2
      <4>5. Len(Since) + 1 # 0 /\ Len(quarantine) + 1 # 0
        BY <1>1, <2>2
      <4> QED
        BY <1>2, <1>3, <4>1, <4>3, <4>4, <4>5 DEF SameFirst
    <3>4. CASE Found(quarantine, d) = 0 /\ d # h
      <4>1. Found(quarantine', d) = 0
        BY <1>1, <1>2, <3>4, FoundAppended
      <4>2. FirstRecord(Since, d) = 0 /\ ~IsSubmission(r, d)
        BY <1>3, <3>1, <3>4 DEF SameFirst
      <4>3. FirstRecord(Since', d) = 0
        BY <1>1, <1>3, <2>1, <4>2, FirstRecordAppended
      <4> QED
        BY <4>1, <4>3 DEF SameFirst
    <3> QED
      BY <3>2, <3>3, <3>4
  <2>5. Accounted(Since', data_names')
    <3>1. PICK f : Tells(f, Since) /\ f[Len(Since)] = data_names
      BY <2>1 DEF ChainOK, Accounted
    <3>2. PICK g : /\ Tells(g, Append(Since, r))
                   /\ g[Len(Append(Since, r))]
                        = Told(f[Len(Since)], Append(Since, r), Len(Since) + 1)
      BY <1>1, <1>3, <2>1, <3>1, AccountGoesOn DEF ChainOK
    <3>3. Told(data_names, Append(Since, r), Len(Since) + 1) = data_names
      BY <1>3, <2>2 DEF Told
    <3> QED
      BY <1>1, <2>1, <3>1, <3>2, <3>3, Zenon DEF Accounted
  <2> QED
    BY <2>1, <2>3, <2>4, <2>5, Zenon DEF ChainOK
<1> QED
  BY <1>6, <1>7, <1>8 DEF DataInv

\* A verdict: the first submission changes its state, and a record is added that
\* is of no submission.
LEMMA VerdictOnChain ==
  ASSUME DataInv, NEW h \in Hashes, NEW status \in {"approved", "rejected"},
         Found(quarantine, h) # 0,
         quarantine' = [quarantine EXCEPT ![Found(quarantine, h)].status = status],
         NEW type \in {"DATA_APPROVE", "DATA_REJECT"},
         Log([type |-> type, hash |-> h])
  PROVE  /\ quarantine' \in Seq(Submission) /\ Len(quarantine') <= MaxQuarantine
         /\ chain' \in Seq(Record) /\ started' \in 0..Len(chain')
         /\ unlogged' \in BOOLEAN
         /\ ~unlogged' =>
              /\ ~unlogged
              /\ NamesSubmitted(Since')
              /\ \A d \in Hashes : SameFirst(quarantine', Since', d)
              /\ \A names :
                   Accounted(Since, names)
                   => Accounted(Since',
                        IF type = "DATA_APPROVE"
                        THEN Register(names, quarantine[Found(quarantine, h)].name, h)
                        ELSE names)
<1> DEFINE i == Found(quarantine, h)
           e == [quarantine[i] EXCEPT !.status = status]
           r == [type |-> type, hash |-> h]
<1>1. /\ TypeOK /\ quarantine \in Seq(Submission) /\ Len(quarantine) \in Nat
      /\ Len(quarantine) <= MaxQuarantine
      /\ DOMAIN quarantine = 1..Len(quarantine)
      /\ Since \in Seq(Record)
  BY SinceIsRecords, LenProperties DEF DataInv, TypeOK
<1>2. i \in 1..Len(quarantine) /\ quarantine[i] \in Submission
  <2>1. i \in 0..Len(quarantine) /\ i # 0
    BY <1>1, FoundFacts
  <2>2. i \in 1..Len(quarantine)
    BY <1>1, <2>1
  <2> QED
    BY <1>1, <2>2, ElementOfSeq
<1>3. e \in Submission /\ e.hash = quarantine[i].hash /\ e.name = quarantine[i].name
  BY <1>2 DEF Submission
<1>4. quarantine' = [quarantine EXCEPT ![i] = e]
  BY <1>1, <1>2
<1>5. /\ r \in Record /\ r.hash = h /\ r.type = type
      /\ \A d : ~IsSubmission(r, d)
  BY DEF Record, IsSubmission
<1>6. Log(r)
  OBVIOUS
<1> HIDE DEF r, e, i
<1>7. /\ quarantine' \in Seq(Submission) /\ Len(quarantine') = Len(quarantine)
      /\ \A j \in 1..Len(quarantine) :
           quarantine'[j] = IF j = i THEN e ELSE quarantine[j]
  <2> DEFINE u == [quarantine EXCEPT ![i] = e]
  <2>1. /\ u \in Seq(Submission) /\ Len(u) = Len(quarantine)
        /\ \A j \in 1..Len(quarantine) : u[j] = IF j = i THEN e ELSE quarantine[j]
    BY <1>1, <1>2, <1>3, ExceptSeq
  <2>2. quarantine' = u
    BY <1>4
  <2> HIDE DEF u
  <2> QED
    BY <2>1, <2>2
<1>8. /\ chain' \in Seq(Record) /\ started' \in 0..Len(chain')
      /\ unlogged' \in BOOLEAN
      /\ ~unlogged' => ~unlogged /\ Since' = Append(Since, r)
  BY <1>1, <1>5, <1>6, LogFacts
<1>9. ASSUME ~unlogged'
      PROVE  /\ NamesSubmitted(Since')
             /\ \A d \in Hashes : SameFirst(quarantine', Since', d)
             /\ \A names :
                  Accounted(Since, names)
                  => Accounted(Since',
                       IF type = "DATA_APPROVE"
                       THEN Register(names, quarantine[i].name, h) ELSE names)
  <2>1. ChainOK /\ Since' = Append(Since, r)
    BY <1>8, <1>9 DEF DataInv
  <2>2. /\ Len(Since') = Len(Since) + 1 /\ Len(Since) \in Nat
        /\ \A k \in 1..Len(Since) : Since'[k] = Since[k]
        /\ Since'[Len(Since) + 1] = r
    BY <1>1, <1>5, <2>1, RecordAppended
  <2>3. \A d : FirstRecord(Since', d) = FirstRecord(Since, d)
    <3> SUFFICES ASSUME NEW d PROVE FirstRecord(Since', d) = FirstRecord(Since, d)
      OBVIOUS
    <3> QED
      BY <1>1, <1>5, <2>1, FirstRecordAppended
  <2>4. FirstRecord(Since, h) # 0 /\ FirstRecord(Since, h) \in 1..Len(Since)
        /\ Since[FirstRecord(Since, h)].name = quarantine[i].name
    <3>1. SameFirst(quarantine, Since, h)
      BY <2>1 DEF ChainOK
    <3>2. FirstRecord(Since, h) # 0
      BY <3>1 DEF SameFirst
    <3>3. FirstRecord(Since, h) \in 0..Len(Since)
      BY <1>1, FirstRecordFacts
    <3>4. Since[FirstRecord(Since, h)].name = quarantine[i].name
      BY <3>1 DEF SameFirst, i
    <3> QED
      BY <2>2, <3>2, <3>3, <3>4
  <2>5. NamesSubmitted(Since')
    <3> SUFFICES ASSUME NEW k \in 1..Len(Since) + 1, Since'[k].type = "DATA_APPROVE"
                 PROVE  FirstRecord(Since, Since'[k].hash) # 0
      BY <2>2, <2>3 DEF NamesSubmitted
    <3>1. CASE k = Len(Since) + 1
      BY <1>5, <2>2, <2>4, <3>1
    <3>2. CASE k \in 1..Len(Since)
      BY <2>1, <2>2, <3>2 DEF ChainOK, NamesSubmitted
    <3> QED
      BY <2>2, <3>1, <3>2
  <2>6. ASSUME NEW d \in Hashes PROVE SameFirst(quarantine', Since', d)
    <3>1. SameFirst(quarantine, Since, d)
      BY <2>1 DEF ChainOK
    <3>2. \A j \in 1..Len(quarantine) : /\ quarantine'[j].hash = quarantine[j].hash
                                        /\ quarantine'[j].name = quarantine[j].name
      BY <1>3, <1>7
    <3>3. /\ Found(quarantine', d) = Found(quarantine, d)
          /\ Found(quarantine, d) # 0 => quarantine'[Found(quarantine', d)].name
                                           = quarantine[Found(quarantine, d)].name
      <4>1. /\ quarantine \in Seq(Submission) /\ quarantine' \in Seq(Submission)
            /\ Len(quarantine') = Len(quarantine)
        BY <1>1, <1>7
      <4> DEFINE s == quarantine
                 u == quarantine'
      <4>2. /\ s \in Seq(Submission) /\ u \in Seq(Submission) /\ Len(u) = Len(s)
            /\ \A j \in 1..Len(s) : u[j].hash = s[j].hash /\ u[j].name = s[j].name
        BY <3>2, <4>1
      <4> HIDE DEF s, u
      <4>3. /\ Found(u, d) = Found(s, d)
            /\ Found(s, d) # 0 => u[Found(u, d)].name = s[Found(s, d)].name
        BY <4>2, FoundRemains
      <4> QED
        BY <4>3 DEF s, u
    <3>4. FirstRecord(Since, d) # 0
            => Since'[FirstRecord(Since, d)] = Since[FirstRecord(Since, d)]
      <4>1. FirstRecord(Since, d) \in 0..Len(Since)
        BY <1>1, FirstRecordFacts
      <4> QED
        BY <2>2, <4>1
    <3> QED
      BY <2>3, <3>1, <3>3, <3>4 DEF SameFirst
  <2>7. ASSUME NEW names, Accounted(Since, names)
        PROVE  Accounted(Since', IF type = "DATA_APPROVE"
                                 THEN Register(names, quarantine[i].name, h)
                                 ELSE names)
    <3>1. PICK f : Tells(f, Since) /\ f[Len(Since)] = names
      BY <2>7 DEF Accounted
    <3>2. PICK g : /\ Tells(g, Since')
                   /\ g[Len(Since')] = Told(names, Since', Len(Since) + 1)
      BY <1>1, <1>5, <2>1, <3>1, AccountGoesOn DEF ChainOK
    <3>3. Since'[FirstRecord(Since', h)].name = quarantine[i].name
      BY <2>2, <2>3, <2>4
    <3>4. Told(names, Since', Len(Since) + 1)
            = IF type = "DATA_APPROVE" THEN Register(names, quarantine[i].name, h)
              ELSE names
      BY <1>5, <2>2, <3>3, Zenon DEF Told
    <3> QED
      BY <3>2, <3>4, Zenon DEF Accounted
  <2> QED
    BY <2>5, <2>6, <2>7
<1>10. Len(quarantine') <= MaxQuarantine
  BY <1>1, <1>7
<1> QED
  BY <1>7, <1>8, <1>9, <1>10 DEF i

\* The worker sees nothing of what the sentient does until it asks.
LEMMA WorkerKeeps ==
  ASSUME WorkerOK, approved \subseteq approved', UNCHANGED workerVars, NoRun
  PROVE  WorkerOK'
BY DEF WorkerOK, workerVars, NoRun, IsIdle, ComputedWasApproved

LEMMA ApproveKeeps ==
  ASSUME DataInv, NEW h \in Hashes, Approve(h)
  PROVE  DataInv'
<1> DEFINE i == Found(quarantine, h)
           n == quarantine[i].name
<1>1. /\ TypeOK /\ quarantine \in Seq(Submission) /\ data_names \in Seq(NamedData)
      /\ i # 0
      /\ quarantine' = [quarantine EXCEPT ![i].status = "approved"]
      /\ data_names' = Register(data_names, n, h)
      /\ Log([type |-> "DATA_APPROVE", hash |-> h])
      /\ UNCHANGED workerVars /\ NoRun /\ mail' = mail
  BY DEF DataInv, TypeOK, Approve, NamedData
<1>2. i \in 1..Len(quarantine) /\ quarantine[i].hash = h
      /\ n \in Names /\ Len(quarantine) \in Nat
  <2>1. i \in 0..Len(quarantine) /\ quarantine[i].hash = h /\ Len(quarantine) \in Nat
    BY <1>1, FoundFacts, LenProperties
  <2>2. i \in 1..Len(quarantine)
    BY <1>1, <2>1
  <2>3. quarantine[i] \in Submission
    BY <1>1, <2>2, ElementOfSeq
  <2> QED
    BY <2>1, <2>2, <2>3 DEF Submission
<1>3. approved \subseteq approved' /\ <<n, h>> \in approved'
  <2>1. approved' = approved \union
          {<<quarantine[j].name, h>> : j \in {k \in DOMAIN quarantine : quarantine[k].hash = h}}
    BY DEF Approve
  <2>2. i \in DOMAIN quarantine
    BY <1>1, <1>2, LenProperties
  <2> QED
    BY <1>2, <2>1, <2>2
<1>4. /\ quarantine' \in Seq(Submission) /\ Len(quarantine') <= MaxQuarantine
      /\ chain' \in Seq(Record) /\ started' \in 0..Len(chain')
      /\ unlogged' \in BOOLEAN
      /\ ~unlogged' =>
           /\ ~unlogged
           /\ NamesSubmitted(Since')
           /\ \A d \in Hashes : SameFirst(quarantine', Since', d)
           /\ Accounted(Since, data_names) => Accounted(Since', Register(data_names, n, h))
  BY <1>1, VerdictOnChain
<1> HIDE DEF n, i
<1>5. /\ data_names' \in Seq(NamedData)
      /\ \A j \in 1..Len(data_names') :
           \/ data_names'[j] = [name |-> n, hash |-> h]
           \/ j \in 1..Len(data_names) /\ data_names'[j] = data_names[j]
  BY <1>1, <1>2, RegisterFacts
<1>6. NamedWasApproved'
  <2> SUFFICES ASSUME NEW j \in 1..Len(data_names')
               PROVE  <<data_names'[j].name, data_names'[j].hash>> \in approved'
    BY DEF NamedWasApproved
  <2>1. CASE data_names'[j] = [name |-> n, hash |-> h]
    BY <1>3, <2>1
  <2>2. CASE j \in 1..Len(data_names) /\ data_names'[j] = data_names[j]
    <3>1. <<data_names[j].name, data_names[j].hash>> \in approved
      BY <2>2 DEF DataInv, NamedWasApproved
    <3> QED
      BY <1>3, <2>2, <3>1
  <2> QED
    BY <1>5, <2>1, <2>2
<1>7. WorkerOK'
  BY <1>1, <1>3, WorkerKeeps DEF DataInv
<1>8. TypeOK'
  BY <1>1, <1>4, <1>5 DEF TypeOK, workerVars, NoRun, NamedData
<1>9. ~unlogged' => ChainOK'
  BY <1>1, <1>4 DEF DataInv, ChainOK
<1> QED
  BY <1>6, <1>7, <1>8, <1>9 DEF DataInv

LEMMA RejectKeeps ==
  ASSUME DataInv, NEW h \in Hashes, Reject(h)
  PROVE  DataInv'
<1>1. /\ TypeOK
      /\ Found(quarantine, h) # 0
      /\ quarantine' = [quarantine EXCEPT ![Found(quarantine, h)].status = "rejected"]
      /\ data_names' = data_names /\ approved' = approved
      /\ Log([type |-> "DATA_REJECT", hash |-> h])
      /\ UNCHANGED workerVars /\ NoRun
  BY DEF DataInv, Reject
<1>2. /\ quarantine' \in Seq(Submission) /\ Len(quarantine') <= MaxQuarantine
      /\ chain' \in Seq(Record) /\ started' \in 0..Len(chain')
      /\ unlogged' \in BOOLEAN
      /\ ~unlogged' =>
           /\ ~unlogged
           /\ NamesSubmitted(Since')
           /\ \A d \in Hashes : SameFirst(quarantine', Since', d)
           /\ Accounted(Since, data_names) => Accounted(Since', data_names)
  BY <1>1, VerdictOnChain
<1>3. NamedWasApproved'
  BY <1>1 DEF DataInv, NamedWasApproved
<1>4. WorkerOK'
  BY <1>1, WorkerKeeps DEF DataInv
<1>5. TypeOK'
  BY <1>1, <1>2 DEF TypeOK, workerVars, NoRun
<1>6. ~unlogged' => ChainOK'
  BY <1>1, <1>2 DEF DataInv, ChainOK
<1> QED
  BY <1>3, <1>4, <1>5, <1>6 DEF DataInv

\* With nothing in quarantine, no name and no record, everything is accounted for.
LEMMA NothingIsAccounted ==
  ASSUME NEW s, s = <<>>
  PROVE  /\ NamesSubmitted(s)
         /\ \A h \in Hashes : SameFirst(s, s, h)
         /\ Accounted(s, s)
<1>1. s \in Seq(Record) /\ s \in Seq(Submission) /\ Len(s) = 0
  OBVIOUS
<1>2. NamesSubmitted(s)
  BY <1>1 DEF NamesSubmitted
<1>3. ASSUME NEW h \in Hashes PROVE SameFirst(s, s, h)
  <2>1. Found(s, h) = 0
    <3>1. Found(s, h) \in 0..Len(s)
      BY <1>1, FoundFacts
    <3> QED
      BY <1>1, <3>1
  <2>2. FirstRecord(s, h) = 0
    <3>1. FirstRecord(s, h) \in 0..Len(s)
      BY <1>1, FirstRecordFacts
    <3> QED
      BY <1>1, <3>1
  <2> QED
    BY <2>1, <2>2 DEF SameFirst
<1>4. Accounted(s, s)
  <2> DEFINE f == [k \in {0} |-> s]
  <2>1. 0..Len(s) = {0}
    BY <1>1
  <2>2. f = [k \in {0} |-> IF k = 0 THEN <<>> ELSE Told(f[k - 1], s, k)]
    OBVIOUS
  <2>3. f[Len(s)] = s
    BY <1>1
  <2> HIDE DEF f
  <2>4. Tells(f, s)
    BY <2>1, <2>2, Zenon DEF Tells
  <2> QED
    BY <2>3, <2>4 DEF Accounted
<1> QED
  BY <1>2, <1>3, <1>4

LEMMA RestartKeeps ==
  ASSUME DataInv, RestartSentient
  PROVE  DataInv'
<1>1. /\ TypeOK /\ quarantine' = <<>> /\ data_names' = <<>>
      /\ started' = Len(chain) /\ chain' = chain /\ unlogged' = FALSE
      /\ approved' = approved /\ UNCHANGED workerVars /\ NoRun
  BY DEF DataInv, RestartSentient
<1>2. chain \in Seq(Record) /\ Len(chain) \in Nat
  BY <1>1, LenProperties DEF TypeOK
<1>3. Since' = <<>>
  BY <1>1, <1>2, SubSeqEmpty DEF Since
<1>4. ChainOK'
  <2>1. quarantine' = Since' /\ data_names' = Since'
    BY <1>1, <1>3
  <2> QED
    BY <1>3, <2>1, NothingIsAccounted DEF ChainOK
<1>5. NamedWasApproved'
  BY <1>1 DEF NamedWasApproved
<1>6. WorkerOK'
  BY <1>1, WorkerKeeps DEF DataInv
<1>7. TypeOK'
  <2>1. /\ <<>> \in Seq(Submission) /\ <<>> \in Seq([name : Names, hash : Hashes])
        /\ Len(<<>>) <= MaxQuarantine
    BY DataFlowAssumption
  <2>2. /\ quarantine' \in Seq(Submission) /\ Len(quarantine') <= MaxQuarantine
        /\ data_names' \in Seq([name : Names, hash : Hashes])
    BY <1>1, <2>1
  <2>3. chain' \in Seq(Record) /\ started' \in 0..Len(chain') /\ unlogged' \in BOOLEAN
    <3>1. unlogged' \in BOOLEAN
      BY <1>1
    <3>2. chain' \in Seq(Record)
      BY <1>1, <1>2, Zenon
    <3>3. started' = Len(chain') /\ Len(chain') \in Nat
      BY <1>1, <1>2, Zenon
    <3> QED
      BY <3>1, <3>2, <3>3
  <2>4. /\ barred' \in BOOLEAN /\ entry' = entry /\ task' = task
        /\ {resolved', computed'} \subseteq Hashes \union {NoHash}
    BY <1>1 DEF TypeOK, workerVars, NoRun
  <2> QED
    BY <1>1, <2>2, <2>3, <2>4 DEF TypeOK
<1> QED
  BY <1>4, <1>5, <1>6, <1>7 DEF DataInv

----------------------------------------------------------------------------
(* The worker's steps *)

Contents == {"whole", "partial", "torn"}

LEMMA DownloadsAreContents ==
  \A download \in Download : Assembled(download) \subseteq Contents
BY DEF Download, Assembled, Contents

EntryType == [hash : Hashes \union {NoHash}, valid : BOOLEAN, rejected : BOOLEAN,
              content : Contents]

\* Freeing an entry keeps what cache_free_entry() keeps.
LEMMA FreedFacts ==
  ASSUME NEW e \in EntryType
  PROVE  /\ Freed(e) \in EntryType /\ ~Freed(e).valid /\ Freed(e).rejected = e.rejected
         /\ Rejected(e) \in EntryType /\ ~Rejected(e).valid /\ Rejected(e).rejected
BY DEF Freed, Rejected, EntryType

\* What a step of the worker keeps, the sentient doing nothing.
LEMMA WorkerStepKeeps ==
  ASSUME DataInv, UNCHANGED sentientVars,
         entry' \in EntryType, task' \in {"none", "prefetch", "run"},
         barred' \in BOOLEAN, {resolved', computed'} \subseteq Hashes \union {NoHash},
         WorkerOK'
  PROVE  DataInv'
<1>1. TypeOK'
  BY DEF DataInv, TypeOK, sentientVars, EntryType, Contents
<1>2. NamedWasApproved'
  BY DEF DataInv, NamedWasApproved, sentientVars
<1>3. unlogged' = unlogged /\ ChainOK' = ChainOK
  BY DEF ChainOK, Since, sentientVars
<1> QED
  BY <1>1, <1>2, <1>3 DEF DataInv

LEMMA MessageKeeps ==
  ASSUME DataInv, HandleReady \/ HandleStale \/ HandleReject
  PROVE  DataInv'
<1>1. /\ WorkerOK /\ entry \in EntryType /\ barred \in BOOLEAN
      /\ resolved \in Hashes \union {NoHash}
      /\ task = "none"
  BY DEF DataInv, TypeOK, HandleReady, HandleStale, HandleReject, IsIdle, EntryType, Contents
<1>2. /\ resolved = NoHash /\ resolved' = resolved /\ computed' = NoHash
      /\ UNCHANGED sentientVars /\ approved' = approved
  BY <1>1 DEF HandleReady, HandleStale, HandleReject, NoRun, WorkerOK, IsIdle, sentientVars
<1>3. CASE HandleReady
  <2>1. /\ barred' = FALSE
        /\ entry' = entry \/ entry' = Freed(entry)
        /\ task' \in {"none", "prefetch", "run"}
    BY <1>1, <1>3 DEF HandleReady
  <2>2. entry' \in EntryType /\ (entry'.valid => entry' = entry)
    BY <1>1, <2>1, FreedFacts
  <2>3. WorkerOK'
    BY <1>1, <1>2, <2>1, <2>2 DEF WorkerOK, IsIdle, ComputedWasApproved
  <2> QED
    BY <1>1, <1>2, <2>1, <2>2, <2>3, WorkerStepKeeps
<1>4. CASE HandleStale
  <2>1. /\ barred' = barred /\ task' = task
        /\ entry' = entry \/ entry' = Freed(entry)
    BY <1>4 DEF HandleStale
  <2>2. /\ entry' \in EntryType /\ (entry'.valid => entry' = entry)
        /\ entry'.rejected = entry.rejected
    BY <1>1, <2>1, FreedFacts
  <2>3. WorkerOK'
    BY <1>1, <1>2, <2>1, <2>2 DEF WorkerOK, IsIdle, ComputedWasApproved
  <2> QED
    BY <1>1, <1>2, <2>1, <2>2, <2>3, WorkerStepKeeps
<1>5. CASE HandleReject
  <2>1. /\ task' = task
        /\ \/ entry' = entry /\ barred' = barred
           \/ entry' = Rejected(entry) /\ barred' = TRUE
    BY <1>1, <1>5 DEF HandleReject
  <2>2. /\ entry' \in EntryType /\ (entry'.valid => entry' = entry)
        /\ barred' \in BOOLEAN /\ (barred' => entry'.rejected)
    <3>1. barred => entry.rejected
      BY <1>1 DEF WorkerOK
    <3>2. CASE entry' = entry /\ barred' = barred
      BY <1>1, <3>1, <3>2
    <3>3. CASE entry' = Rejected(entry) /\ barred' = TRUE
      BY <1>1, <3>3, FreedFacts
    <3> QED
      BY <2>1, <3>2, <3>3
  <2>3. WorkerOK'
    BY <1>1, <1>2, <2>1, <2>2 DEF WorkerOK, IsIdle, ComputedWasApproved
  <2> QED
    BY <1>1, <1>2, <2>1, <2>2, <2>3, WorkerStepKeeps
<1> QED
  BY <1>3, <1>4, <1>5

LEMMA ProgramKeeps ==
  ASSUME DataInv, HandleProgram
  PROVE  DataInv'
<1>1. /\ WorkerOK /\ entry \in EntryType /\ barred \in BOOLEAN
      /\ resolved \in Hashes \union {NoHash}
      /\ task = "none" /\ ~entry.rejected /\ entry' = entry
      /\ resolved' = resolved /\ barred' = barred /\ UNCHANGED sentientVars
      /\ approved' = approved
  BY DEF DataInv, TypeOK, HandleProgram, IsIdle, EntryType, Contents, sentientVars
<1>2. ~barred /\ resolved = NoHash
  BY <1>1 DEF WorkerOK, IsIdle
<1>3. CASE entry.valid
  <2>1. task' = task /\ computed' \in {entry.hash, NoHash}
    BY <1>1, <1>3 DEF HandleProgram, Execute
  <2>2. WorkerOK'
    BY <1>1, <1>2, <1>3, <2>1 DEF WorkerOK, IsIdle, ComputedWasApproved
  <2>3. entry.hash \in Hashes \union {NoHash}
    BY <1>1 DEF EntryType
  <2> QED
    BY <1>1, <2>1, <2>2, <2>3, WorkerStepKeeps
<1>4. CASE ~entry.valid
  <2>1. task' = "run" /\ computed' = NoHash
    BY <1>4 DEF HandleProgram, NoRun
  <2>2. WorkerOK'
    BY <1>1, <1>2, <2>1 DEF WorkerOK, IsIdle, ComputedWasApproved
  <2> QED
    BY <1>1, <2>1, <2>2, WorkerStepKeeps
<1> QED
  BY <1>3, <1>4

\* The hash that is given out for a name is of data approved under it; so is the
\* object that is then fetched, whatever happened in between.
LEMMA FetchKeeps ==
  ASSUME DataInv, \/ Resolve
                  \/ \E content \in Contents : Fetch(content)
                  \/ FetchFails
                  \/ RestartWorker
  PROVE  DataInv'
<1>1. /\ WorkerOK /\ entry \in EntryType /\ barred \in BOOLEAN
      /\ resolved \in Hashes \union {NoHash} /\ task \in {"none", "prefetch", "run"}
      /\ data_names \in Seq(NamedData)
  BY DEF DataInv, TypeOK, EntryType, Contents, NamedData
<1>2. UNCHANGED sentientVars /\ approved' = approved
  BY DEF Resolve, Fetch, FetchFails, RestartWorker, sentientVars
<1>3. CASE Resolve
  <2>1. /\ task # "none" /\ entry' = entry /\ task' = task /\ barred' = barred
        /\ computed' = NoHash
    BY <1>3 DEF Resolve, IsIdle, NoRun
  <2>2. PICK i \in DOMAIN data_names :
          data_names[i].name = DataName /\ resolved' = data_names[i].hash
    BY <1>3 DEF Resolve, Served
  <2>3. i \in 1..Len(data_names) /\ data_names[i] \in NamedData
    BY <1>1, LenProperties, ElementOfSeq
  <2>4. <<DataName, resolved'>> \in approved /\ resolved' \in Hashes
    BY <2>2, <2>3 DEF DataInv, NamedWasApproved, NamedData
  <2>5. WorkerOK'
    BY <1>1, <1>2, <2>1, <2>4 DEF WorkerOK, IsIdle, ComputedWasApproved
  <2> QED
    BY <1>1, <1>2, <2>1, <2>4, <2>5, WorkerStepKeeps
<1>4. ASSUME NEW content \in Contents, Fetch(content)
      PROVE  DataInv'
  <2>1. /\ resolved # NoHash /\ barred' = barred /\ task' = "none" /\ resolved' = NoHash
        /\ entry' = entry \/ entry' = Stored(resolved, content)
        /\ entry'.hash = resolved
        /\ computed' \in {entry'.hash, NoHash}
    BY <1>4 DEF Fetch, Stored, Execute, NoRun
  <2>2. task # "none" /\ ~barred /\ <<DataName, resolved>> \in approved
    BY <1>1, <2>1 DEF WorkerOK, IsIdle
  <2>3. entry' \in EntryType
    <3>1. resolved \in Hashes
      BY <1>1, <2>1
    <3>2. Stored(resolved, content) \in EntryType
      BY <3>1 DEF Stored, EntryType
    <3> QED
      BY <1>1, <2>1, <3>2
  <2>4. WorkerOK'
    BY <1>1, <1>2, <2>1, <2>2 DEF WorkerOK, IsIdle, ComputedWasApproved
  <2> QED
    BY <1>1, <1>2, <2>1, <2>3, <2>4, WorkerStepKeeps
<1>5. CASE FetchFails
  <2>1. /\ task # "none" /\ task' = "none" /\ resolved' = NoHash /\ entry' = entry
        /\ barred' = barred /\ computed' = NoHash
    BY <1>5 DEF FetchFails, IsIdle, NoRun
  <2>2. WorkerOK'
    BY <1>1, <1>2, <2>1 DEF WorkerOK, IsIdle, ComputedWasApproved
  <2> QED
    BY <1>1, <1>2, <2>1, <2>2, WorkerStepKeeps
<1>6. CASE RestartWorker
  <2>1. /\ task' = "none" /\ resolved' = NoHash /\ entry' = NoEntry
        /\ barred' = FALSE /\ computed' = NoHash
    BY <1>6 DEF RestartWorker, NoRun
  <2>2. NoEntry \in EntryType /\ ~NoEntry.valid
    BY DEF NoEntry, EntryType, Contents
  <2>3. WorkerOK'
    BY <1>1, <1>2, <2>1, <2>2 DEF WorkerOK, IsIdle, ComputedWasApproved
  <2> QED
    BY <1>1, <1>2, <2>1, <2>2, <2>3, WorkerStepKeeps
<1> QED
  BY <1>3, <1>4, <1>5, <1>6

----------------------------------------------------------------------------
(* The theorems *)

LEMMA InitHolds == Init => DataInv
<1> SUFFICES ASSUME Init PROVE DataInv
  OBVIOUS
<1>1. /\ <<>> \in Seq(Submission) /\ <<>> \in Seq([name : Names, hash : Hashes])
      /\ <<>> \in Seq(Record) /\ Len(<<>>) = 0 /\ 0 <= MaxQuarantine
  BY DataFlowAssumption
<1>2. NoEntry \in EntryType /\ ~NoEntry.valid
  BY DEF NoEntry, EntryType, Contents
<1>3. TypeOK
  <2>1. quarantine \in Seq(Submission) /\ Len(quarantine) <= MaxQuarantine
    BY <1>1 DEF Init
  <2>2. data_names \in Seq([name : Names, hash : Hashes])
    BY <1>1 DEF Init
  <2>3. chain \in Seq(Record) /\ started \in 0..Len(chain) /\ unlogged \in BOOLEAN
    <3>1. unlogged \in BOOLEAN
      BY DEF Init
    <3>2. chain \in Seq(Record)
      BY <1>1, Zenon DEF Init
    <3>3. started = 0 /\ Len(chain) = 0
      BY <1>1, Zenon DEF Init
    <3> QED
      BY <3>1, <3>2, <3>3
  <2>4. /\ barred \in BOOLEAN /\ entry \in EntryType /\ task \in {"none", "prefetch", "run"}
        /\ {resolved, computed} \subseteq Hashes \union {NoHash}
    BY <1>2 DEF Init
  <2> QED
    BY <2>1, <2>2, <2>3, <2>4 DEF TypeOK, EntryType, Contents
<1>4. NamedWasApproved
  BY <1>1 DEF Init, NamedWasApproved
<1>5. WorkerOK
  BY <1>2 DEF Init, WorkerOK, IsIdle, ComputedWasApproved
<1>6. Since = <<>>
  BY <1>1, SubSeqEmpty DEF Init, Since
<1>7. ChainOK
  BY <1>6, NothingIsAccounted DEF Init, ChainOK
<1> QED
  BY <1>3, <1>4, <1>5, <1>7 DEF DataInv

LEMMA StepHolds == DataInv /\ [Next]_vars => DataInv'
<1> SUFFICES ASSUME DataInv, [Next]_vars PROVE DataInv'
  OBVIOUS
<1>1. CASE Serve
  BY <1>1, SubmitKeeps, ApproveKeeps, RejectKeeps DEF Serve
<1>2. CASE RestartSentient
  BY <1>2, RestartKeeps
<1>3. ASSUME UNCHANGED <<sentientVars, workerVars>>, NoRun \/ UNCHANGED computed
      PROVE  DataInv'
  <2>1. WorkerOK'
    BY <1>3 DEF DataInv, WorkerOK, workerVars, sentientVars, NoRun, IsIdle,
                ComputedWasApproved
  <2>2. /\ entry' \in EntryType /\ task' \in {"none", "prefetch", "run"}
        /\ barred' \in BOOLEAN /\ {resolved', computed'} \subseteq Hashes \union {NoHash}
    BY <1>3 DEF DataInv, TypeOK, EntryType, Contents, workerVars, NoRun
  <2> QED
    BY <1>3, <2>1, <2>2, WorkerStepKeeps
<1>4. ASSUME NEW type, Announce(type) PROVE DataInv'
  BY <1>3, <1>4 DEF Announce
<1>5. CASE Handle
  BY <1>5, MessageKeeps, ProgramKeeps DEF Handle
<1>6. CASE \/ Resolve \/ FetchFails \/ RestartWorker
           \/ \E download \in Download : \E content \in Assembled(download) : Fetch(content)
  BY <1>6, FetchKeeps, DownloadsAreContents
<1>7. CASE UNCHANGED vars
  BY <1>3, <1>7 DEF vars
<1> QED
  BY <1>1, <1>2, <1>4, <1>5, <1>6, <1>7 DEF Next

LEMMA DataInvariant == Spec => []DataInv
BY InitHolds, StepHolds, PTL DEF Spec

\* Every name the sentient gives out, and the data under it, can be told from the
\* records it has written since it started, if they could all be written
\* (handle_data_submit(), handle_data_approve(), handle_data_reject()).
THEOREM PoolIsOnRecord == Spec => []PoolOnRecord
<1>1. DataInv => PoolOnRecord
  <2> SUFFICES ASSUME DataInv, ~unlogged PROVE data_names = NamesOf(Since)
    BY DEF DataInv, PoolOnRecord
  <2>1. Since \in Seq(Record)
    BY SinceIsRecords DEF DataInv
  <2>2. PICK f : Tells(f, Since) /\ f[Len(Since)] = data_names
    BY DEF DataInv, ChainOK, Accounted
  <2> QED
    BY <2>1, <2>2, NamesAreTold
<1> QED
  BY <1>1, DataInvariant, PTL

\* A worker runs programs only on data that was approved under the name it was
\* started for, however requests, verdicts and restarts are ordered.
THEOREM ApprovedIsComputed == Spec => []ComputedWasApproved
<1>1. DataInv => ComputedWasApproved
  BY DEF DataInv, WorkerOK
<1> QED
  BY <1>1, DataInvariant, PTL

\* From a rejection of the data it holds to the next announcement a worker neither
\* runs a program nor fetches data for one.
THEOREM RejectedIsLeftAlone == Spec => RejectedIsNotUsed
<1> DEFINE LeftAlone == barred => task' # "run" /\ computed' = NoHash
<1>1. DataInv /\ [Next]_vars => [LeftAlone]_vars
  <2> SUFFICES ASSUME DataInv, Next, barred
               PROVE  task' # "run" /\ computed' = NoHash
    OBVIOUS
  <2>1. task = "none" /\ resolved = NoHash /\ entry.rejected
    BY DEF DataInv, WorkerOK, IsIdle
  <2>2. CASE Serve \/ RestartSentient \/ \E type \in {"ready", "stale"} : Announce(type)
    BY <2>1, <2>2
       DEF Serve, Submit, Approve, Reject, RestartSentient, Announce, NoRun, workerVars
  <2>3. CASE Handle
    BY <2>1, <2>3
       DEF Handle, HandleReady, HandleStale, HandleReject, HandleProgram, NoRun
  <2>4. CASE Resolve \/ FetchFails \/ RestartWorker
    BY <2>1, <2>4 DEF Resolve, FetchFails, RestartWorker, NoRun
  <2>5. ASSUME NEW content, Fetch(content) PROVE FALSE
    BY <2>1, <2>5 DEF Fetch
  <2> QED
    BY <2>2, <2>3, <2>4, <2>5 DEF Next
<1> QED
  BY <1>1, DataInvariant, PTL DEF Spec, RejectedIsNotUsed
=============================================================================
