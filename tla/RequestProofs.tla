---------------------------- MODULE RequestProofs ----------------------------
(***************************************************************************)
(* Theorems about the emissary and the architect: the catalog is the record  *)
(* of the programs published last, the answers to POST /generate are about   *)
(* the right program, no address exceeds its rate, and no webhook is sent a  *)
(* result more often than it has to be.                                      *)
(***************************************************************************)
EXTENDS Request, SequenceTheorems, TLAPS

-----------------------------------------------------------------------------
(* The overwritten array keeps the latest entries in the order they came,     *)
(* whatever its capacity.                                                     *)

RingFacts(ring, Elements) ==
  /\ Capacity \in Nat \ {0}
  /\ ring.entries \in Seq(Elements)
  /\ Len(ring.entries) \in 0..Capacity
  /\ ring.next \in 1..Capacity
  /\ ~IsFullRing(ring) => ring.next = 1

\* What it is to be a ring, taken apart.
LEMMA RingHasFacts ==
  ASSUME NEW Elements, NEW ring \in Rings(Elements)
  PROVE  RingFacts(ring, Elements)
<1>1. /\ ring.entries \in Seq(Elements) /\ ring.next \in 1..Capacity
      /\ Len(ring.entries) <= Capacity
      /\ ~IsFullRing(ring) => ring.next = 1
  BY DEF Rings
<1>2. Len(ring.entries) \in Nat
  BY <1>1
<1> QED
  BY <1>1, <1>2, RingAssumption DEF RingFacts

\* An entry added to a ring leaves a ring: its slots are the entries, and its
\* index is within them (catalog_add() and the emissary's result_store()).
LEMMA RingAddType ==
  ASSUME NEW Elements, NEW ring \in Rings(Elements), NEW e \in Elements
  PROVE  RingAdd(ring, e) \in Rings(Elements)
<1>1. RingFacts(ring, Elements)
  BY RingHasFacts
<1>2. CASE IsFullRing(ring)
  <2>1. ring.next \in 1..Len(ring.entries)
    BY <1>1, <1>2 DEF RingFacts, IsFullRing
  <2>2. [ring.entries EXCEPT ![ring.next] = e] \in Seq(Elements)
    BY <1>1, <2>1 DEF RingFacts
  <2>3. Len([ring.entries EXCEPT ![ring.next] = e]) = Capacity
    BY <1>1, <1>2 DEF RingFacts, IsFullRing
  <2>4. SlotAfter(ring.next) \in 1..Capacity
    BY <1>1 DEF RingFacts, SlotAfter
  <2> QED
    BY <1>1, <1>2, <2>2, <2>3, <2>4 DEF RingAdd, Rings, IsFullRing, RingFacts
<1>3. CASE ~IsFullRing(ring)
  <2>1. RingAdd(ring, e) = [entries |-> Append(ring.entries, e), next |-> 1]
    BY <1>3 DEF RingAdd, Rings
  <2>2. /\ Append(ring.entries, e) \in Seq(Elements)
        /\ Len(Append(ring.entries, e)) = Len(ring.entries) + 1
    BY <1>1 DEF RingFacts
  <2>3. Len(ring.entries) + 1 <= Capacity
    BY <1>1, <1>3 DEF RingFacts, IsFullRing
  <2> QED
    BY <1>1, <2>1, <2>2, <2>3 DEF Rings, RingFacts
<1> QED
  BY <1>2, <1>3

\* Going around n slots from slot k: the walk stays within them, comes back
\* to k only after all of them, and one step further on starts at k + 1.
LEMMA AroundFacts ==
  ASSUME NEW n \in Nat \ {0}, NEW k \in 1..n, NEW i \in 1..n
  PROVE  /\ Around(k, n, i) \in 1..n
         /\ i # 1 => Around(k, n, i) # k
         /\ k = 1 => Around(k, n, i) = i
         /\ i < n => Around(IF k = n THEN 1 ELSE k + 1, n, i) =
                     Around(k, n, i + 1)
         /\ Around(IF k = n THEN 1 ELSE k + 1, n, n) = k
  BY DEF Around

\* A sequence is the function of its indices.
LEMMA IsAFcnOfItsIndices ==
  ASSUME NEW S, NEW s \in Seq(S)
  PROVE  s = [i \in 1..Len(s) |-> s[i]]
  BY LenProperties

\* In the order of age, adding to a ring appends, and drops the oldest entry
\* when there is no room: the ring is a record of the latest entries.
LEMMA RingAddInOrder ==
  ASSUME NEW Elements, NEW ring \in Rings(Elements), NEW e \in Elements
  PROVE  InOrder(RingAdd(ring, e)) = Latest(InOrder(ring), e)
<1> DEFINE n == Len(ring.entries)
           k == ring.next
           old == InOrder(ring)
           new == InOrder(RingAdd(ring, e))
<1>1. /\ ring.entries \in Seq(Elements) /\ n \in Nat /\ n <= Capacity
      /\ Capacity \in Nat \ {0} /\ k \in 1..Capacity
      /\ n # Capacity => k = 1
  BY RingHasFacts DEF RingFacts, IsFullRing
<1>2. ASSUME NEW i \in 1..n
      PROVE  /\ Around(k, n, i) \in 1..n
             /\ n # Capacity => Around(k, n, i) = i
  <2>1. n \in Nat \ {0} /\ k \in 1..n
    BY <1>1, <1>2
  <2> HIDE DEF n, k
  <2> QED
    BY <1>1, <2>1, AroundFacts
<1>3. /\ old \in Seq(Elements) /\ Len(old) = n
      /\ \A i \in 1..n : old[i] = ring.entries[Around(k, n, i)]
  <2>1. old = [i \in 1..n |-> ring.entries[Around(k, n, i)]]
    BY DEF InOrder, SlotOfAge
  <2>2. \A i \in 1..n : ring.entries[Around(k, n, i)] \in Elements
    BY <1>1, <1>2
  <2> HIDE DEF n, k, old
  <2> QED
    BY <1>1, <2>1, <2>2
<1>4. CASE n # Capacity
  <2>1. RingAdd(ring, e) = [entries |-> Append(ring.entries, e), next |-> 1]
    BY <1>4 DEF RingAdd, Rings, IsFullRing
  <2>2. Len(Append(ring.entries, e)) = n + 1
    BY <1>1
  <2>3. ASSUME NEW i \in 1..(n + 1)
        PROVE  Around(1, n + 1, i) = i
    BY <1>1 DEF Around
  <2>4. new = [i \in 1..(n + 1) |-> Append(ring.entries, e)[i]]
    <3>1. new = [i \in 1..(n + 1) |->
                   Append(ring.entries, e)[Around(1, n + 1, i)]]
      <4> DEFINE app == Append(ring.entries, e)
                 after == RingAdd(ring, e)
      <4>1. after.entries = app /\ after.next = 1 /\ Len(app) = n + 1
        BY <2>1, <2>2
      <4>2. new = [i \in 1..Len(after.entries) |->
                     after.entries[Around(after.next, Len(after.entries), i)]]
        BY DEF InOrder, SlotOfAge
      <4> HIDE DEF app, n, after, new
      <4>3. new = [i \in 1..(n + 1) |-> app[Around(1, n + 1, i)]]
        BY <4>1, <4>2
      <4> QED
        BY <4>3 DEF app
    <3> HIDE DEF n, new
    <3> QED
      BY <2>3, <3>1
  <2>5. \A i \in 1..n : old[i] = ring.entries[i]
    BY <1>2, <1>3, <1>4
  <2>6. new = Append(old, e)
    <3> HIDE DEF n, k, old, new
    <3>1. Append(old, e) = [i \in 1..(n + 1) |-> Append(old, e)[i]]
      <4>1. Append(old, e) \in Seq(Elements) /\ Len(Append(old, e)) = n + 1
        BY <1>1, <1>3, AppendProperties
      <4> QED
        BY <4>1, IsAFcnOfItsIndices
    <3>2. ASSUME NEW i \in 1..(n + 1)
          PROVE  Append(ring.entries, e)[i] = Append(old, e)[i]
      <4>1. Append(ring.entries, e)[i] = IF i <= n THEN ring.entries[i] ELSE e
        BY <1>1 DEF n
      <4>2. Append(old, e)[i] = IF i <= n THEN old[i] ELSE e
        BY <1>1, <1>3
      <4>3. i <= n => i \in 1..n
        BY <1>1
      <4> QED
        BY <2>5, <4>1, <4>2, <4>3
    <3> QED
      BY <2>4, <3>1, <3>2
  <2>7. Len(old) < Capacity
    BY <1>1, <1>3, <1>4
  <2> QED
    BY <2>6, <2>7 DEF Latest
<1>5. CASE n = Capacity
  <2> DEFINE slots == [ring.entries EXCEPT ![k] = e]
             j == IF k = n THEN 1 ELSE k + 1
  <2>1. n \in Nat \ {0} /\ k \in 1..n
    BY <1>1, <1>5
  <2>2. new = [i \in 1..n |-> slots[Around(j, n, i)]]
    <3>1. RingAdd(ring, e) = [entries |-> slots, next |-> j]
      BY <1>5 DEF RingAdd, IsFullRing, SlotAfter
    <3>2. Len(slots) = n
      BY <1>1
    <3> HIDE DEF slots, j, n
    <3> QED
      BY <3>1, <3>2 DEF InOrder, SlotOfAge
  <2>3. ASSUME NEW i \in 1..n, i < n
        PROVE  new[i] = old[i + 1]
    <3> HIDE DEF n, k, old, new
    <3>1. i + 1 \in 1..n /\ i + 1 # 1
      BY <2>1, <2>3
    <3>2. /\ Around(j, n, i) = Around(k, n, i + 1)
          /\ Around(k, n, i + 1) \in 1..n
          /\ Around(k, n, i + 1) # k
      BY <2>1, <2>3, <3>1, AroundFacts
    <3>3. new[i] = slots[Around(k, n, i + 1)]
      BY <2>2, <3>2
    <3>4. slots[Around(k, n, i + 1)] = ring.entries[Around(k, n, i + 1)]
      BY <1>1, <3>2 DEF n
    <3> QED
      BY <1>3, <3>1, <3>3, <3>4
  <2>4. new[n] = e
    <3> HIDE DEF n, k, old, new
    <3>1. Around(j, n, n) = k
      BY <2>1, AroundFacts
    <3>2. slots[k] = e
      BY <1>1, <2>1 DEF n
    <3> QED
      BY <2>1, <2>2, <3>1, <3>2
  <2>5. new = Append(Tail(old), e)
    <3> DEFINE app == Append(Tail(old), e)
    <3> HIDE DEF n, k, old, new
    <3>1. /\ Tail(old) \in Seq(Elements) /\ Len(Tail(old)) = n - 1
          /\ \A i \in 1..(n - 1) : Tail(old)[i] = old[i + 1]
      BY <1>3, <2>1
    <3>2. /\ app \in Seq(Elements) /\ Len(app) = n
          /\ \A i \in 1..(n - 1) : app[i] = Tail(old)[i]
          /\ app[n] = e
      BY <2>1, <3>1
    <3>3. app = [i \in 1..n |-> app[i]]
      BY <3>2, IsAFcnOfItsIndices
    <3>4. new = [i \in 1..n |-> new[i]]
      BY <2>2
    <3>5. ASSUME NEW i \in 1..n
          PROVE  new[i] = app[i]
      <4>1. CASE i = n
        BY <2>4, <3>2, <4>1
      <4>2. CASE i # n
        <5>1. i \in 1..(n - 1) /\ i < n
          BY <2>1, <4>2
        <5> QED
          BY <2>3, <3>1, <3>2, <5>1
      <4> QED
        BY <4>1, <4>2
    <3> HIDE DEF app
    <3>6. new = app
      BY <3>3, <3>4, <3>5
    <3> QED
      BY <3>6 DEF app
  <2>6. Len(old) = Capacity
    BY <1>3, <1>5
  <2> QED
    BY <1>1, <2>5, <2>6 DEF Latest
<1> QED
  BY <1>4, <1>5

\* Newest() is the entry of the last RingAdd(): what POST /generate answers
\* with is the program that was submitted last.
LEMMA RingNewest ==
  ASSUME NEW Elements, NEW ring \in Rings(Elements), NEW e \in Elements
  PROVE  Newest(RingAdd(ring, e)) = e
<1>1. /\ ring.entries \in Seq(Elements) /\ ring.next \in 1..Capacity
      /\ Len(ring.entries) \in 0..Capacity
      /\ Capacity \in Nat \ {0}
      /\ ~IsFullRing(ring) => ring.next = 1
  BY RingHasFacts DEF RingFacts
<1>2. CASE IsFullRing(ring)
  <2>1. /\ RingAdd(ring, e).entries = [ring.entries EXCEPT ![ring.next] = e]
        /\ RingAdd(ring, e).next = SlotAfter(ring.next)
    BY <1>2 DEF RingAdd
  <2>2. SlotBefore(SlotAfter(ring.next)) = ring.next
    BY <1>1 DEF SlotBefore, SlotAfter
  <2>3. IsFullRing(RingAdd(ring, e))
    BY <1>1, <1>2, <2>1 DEF IsFullRing
  <2> QED
    BY <1>1, <1>2, <2>1, <2>2, <2>3 DEF Newest, IsFullRing
<1>3. CASE ~IsFullRing(ring)
  <2>1. RingAdd(ring, e) = [entries |-> Append(ring.entries, e), next |-> 1]
    BY <1>3 DEF RingAdd, Rings
  <2>2. CASE Len(ring.entries) + 1 = Capacity
    BY <1>1, <2>1, <2>2 DEF Newest, IsFullRing, SlotBefore
  <2>3. CASE Len(ring.entries) + 1 # Capacity
    BY <1>1, <2>1, <2>3 DEF Newest, IsFullRing
  <2> QED
    BY <2>2, <2>3
<1> QED
  BY <1>2, <1>3

-----------------------------------------------------------------------------
(* The catalog *)


CatalogInv == /\ catalog \in Rings(Entries)
              /\ CatalogIsLatest
              /\ AnswersTrue
              /\ specs \in Seq(Specs)

\* What a build that leads to a program is.
LEMMA BuildsAreEntries ==
  ASSUME NEW intent \in Intents, NEW build \in Builds(intent), build # Nothing
  PROVE  Entry(build, intent) \in Entries
<1>1. CASE intent \in Templated
  <2>1. build = FromTemplate(intent)
    BY <1>1 DEF Builds
  <2>2. TemplateFor[intent] \in Valid
        /\ build = [program |-> TemplateFor[intent], prov |-> "template"]
    BY <2>1 DEF FromTemplate
  <2> QED
    BY <2>2 DEF Entry, Entries
<1>2. CASE intent \notin Templated
  <2>1. PICK a \in Attempts : build = Outcome(a)
    BY <1>2 DEF Builds
  <2>2. a[Len(a)] \in Valid /\ build = [program |-> a[Len(a)], prov |-> "llm"]
    BY <2>1 DEF Outcome
  <2> QED
    BY <2>2 DEF Entry, Entries
<1> QED
  BY <1>1, <1>2

\* The empty catalog is a ring without entries.
LEMMA EmptyIsRing ==
  /\ EmptyRing \in Rings(Entries)
  /\ InOrder(EmptyRing) = <<>>
<1>1. EmptyRing.entries = <<>> /\ EmptyRing.next = 1
  BY DEF EmptyRing
<1>2. <<>> \in Seq(Entries) /\ Len(<<>>) = 0
  OBVIOUS
<1>3. 1 \in 1..Capacity /\ Capacity > 0
  BY RingAssumption
<1>4. EmptyRing \in [entries : Seq(Entries), next : 1..Capacity]
  BY <1>2, <1>3 DEF EmptyRing
<1>5. EmptyRing \in Rings(Entries)
  <2>1. Len(EmptyRing.entries) <= Capacity
    BY <1>1, <1>2, <1>3, RingAssumption
  <2> QED
    BY <1>1, <2>1, <1>4 DEF Rings
<1>6. InOrder(EmptyRing) = <<>>
  <2>1. DOMAIN EmptyRing.entries = {} /\ 1..Len(EmptyRing.entries) = {}
    BY <1>1, <1>2
  <2>2. InOrder(EmptyRing) = [i \in {} |-> EmptyRing.entries[SlotOfAge(EmptyRing, i)]]
    BY <2>1 DEF InOrder
  <2> QED
    BY <2>2
<1> QED
  BY <1>5, <1>6

\* A spec that is handled leaves a catalog that is the record of what was
\* published; when its program is submitted, it is the newest entry.
LEMMA HandleSpecKeeps ==
  ASSUME NEW intent \in Intents, NEW build, NEW sent,
         catalog \in Rings(Entries), CatalogIsLatest,
         HandleSpec(intent, build, sent)
  PROVE  /\ catalog' \in Rings(Entries)
         /\ CatalogIsLatest'
         /\ build # Nothing /\ sent
              => /\ Newest(catalog') = Entry(build, intent)
                 /\ Grown \/ IsFullRing(catalog')
         /\ IsFullRing(catalog) => IsFullRing(catalog')
         /\ ~(build # Nothing /\ sent) => catalog' = catalog
<1>1. CASE build # Nothing /\ sent
  <2> DEFINE e == Entry(build, intent)
  <2>1. Submit(build, intent) /\ e \in Entries
    BY <1>1, BuildsAreEntries DEF HandleSpec
  <2>2. catalog' = RingAdd(catalog, e) /\ announced' = Latest(announced, e)
    BY <2>1 DEF Submit
  <2>3. catalog' \in Rings(Entries) /\ Newest(catalog') = e
    BY <2>1, <2>2, RingAddType, RingNewest
  <2>4. InOrder(catalog') = announced'
    BY <2>1, <2>2, RingAddInOrder DEF CatalogIsLatest
  <2>5. CASE IsFullRing(catalog)
    <3>1. catalog.entries \in Seq(Entries) /\ catalog.next \in 1..Capacity
      BY DEF Rings
    <3>2. Len(catalog'.entries) = Len(catalog.entries)
      BY <2>2, <2>5, <3>1 DEF RingAdd
    <3> QED
      BY <1>1, <2>3, <2>4, <2>5, <3>2 DEF IsFullRing, CatalogIsLatest
  <2>6. CASE ~IsFullRing(catalog)
    <3>1. catalog.entries \in Seq(Entries)
      BY DEF Rings
    <3>2. Len(catalog'.entries) = Len(catalog.entries) + 1
      BY <2>1, <2>2, <2>6, <3>1 DEF RingAdd
    <3>3. Grown
      BY <3>1, <3>2 DEF Grown
    <3> QED
      BY <1>1, <2>3, <2>4, <2>6, <3>3 DEF CatalogIsLatest
  <2> QED
    BY <2>5, <2>6
<1>2. CASE ~(build # Nothing /\ sent)
  <2>1. catalog' = catalog /\ announced' = announced
    BY <1>2 DEF HandleSpec
  <2> QED
    BY <1>2, <2>1 DEF CatalogIsLatest
<1> QED
  BY <1>1, <1>2

\* The catalog's invariant: it is a ring, of what was published last, and the
\* last answer is true.
THEOREM CatalogHolds == Spec => []CatalogInv
<1>1. Init => CatalogInv
  <2> SUFFICES ASSUME Init PROVE CatalogInv
    OBVIOUS
  <2>1. catalog = EmptyRing /\ announced = <<>> /\ answer = NoAnswer
    BY DEF Init, ArchitectInit
  <2>2. AnswersTrue
    BY <2>1 DEF AnswersTrue, NoAnswer
  <2> QED
    BY <2>1, <2>2, EmptyIsRing
       DEF CatalogInv, CatalogIsLatest, Init, EmissaryInit
<1>2. CatalogInv /\ [Next]_vars => CatalogInv'
  <2> SUFFICES ASSUME CatalogInv, [Next]_vars PROVE CatalogInv'
    OBVIOUS
  <2> USE DEF CatalogInv
  <2>1. ASSUME NEW intent \in Intents, NEW build \in Builds(intent),
               NEW sent \in BOOLEAN, PostGenerate(intent, build, sent)
        PROVE  CatalogInv'
    <3>1. HandleSpec(intent, build, sent)
      BY <2>1 DEF PostGenerate, Generate
    <3>2. answer' = [ok |-> AnswersOk, spec |-> intent,
                     built |-> build # Nothing /\ sent,
                     entry |-> IF AnswersOk THEN NewestEntry ELSE NoEntry]
      BY <2>1 DEF PostGenerate, Generate
    <3>3. answer'.built <=> build # Nothing /\ sent
      BY <3>2
    <3>4. answer'.ok <=> AnswersOk
      BY <3>2
    <3>5. answer'.spec = intent
      BY <3>2
    <3>6. answer'.ok => answer'.entry = Newest(catalog')
      BY <3>2 DEF NewestEntry
    <3>7. /\ catalog' \in Rings(Entries) /\ CatalogIsLatest'
          /\ build # Nothing /\ sent
               => /\ Newest(catalog') = Entry(build, intent)
                  /\ Grown \/ IsFullRing(catalog')
          /\ ~(build # Nothing /\ sent) => catalog' = catalog
      BY <3>1, HandleSpecKeeps
    <3>8. answer'.built => answer'.ok /\ answer'.entry.spec = answer'.spec
      BY <3>3, <3>4, <3>5, <3>6, <3>7 DEF AnswersOk, Entry
    <3>9. answer'.ok => answer'.built \/ IsFullRing(catalog')
      <4>1. catalog' = catalog => ~Grown
        BY DEF Grown, Rings
      <4> QED
        BY <3>3, <3>4, <3>7, <4>1 DEF AnswersOk
    <3>10. specs' = specs
      BY <2>1 DEF PostGenerate, emissaryVars
    <3> QED
      BY <3>7, <3>8, <3>9, <3>10 DEF AnswersTrue
  <2>2. ASSUME NEW build, NEW sent \in BOOLEAN, Deliver(build, sent)
        PROVE  CatalogInv'
    <3>1. specs # <<>> /\ specs \in Seq(Specs) /\ specs' \in {Tail(specs), specs}
      BY <2>2 DEF Deliver
    <3>2. Head(specs) \in Intents /\ specs' \in Seq(Specs)
      BY <3>1, RequestAssumption
    <3>3. HandleSpec(Head(specs), build, sent) /\ answer' = answer
      BY <2>2 DEF Deliver, HearSpec
    <3>4. /\ catalog' \in Rings(Entries) /\ CatalogIsLatest'
          /\ IsFullRing(catalog) => IsFullRing(catalog')
      <4>1. build \in Builds(Head(specs))
        BY <3>3 DEF HandleSpec
      <4> QED
        BY <3>2, <3>3, <4>1, HandleSpecKeeps
    <3> QED
      BY <3>2, <3>3, <3>4 DEF AnswersTrue
  <2>3. ASSUME UNCHANGED architectVars, specs' \in Seq(Specs)
        PROVE  CatalogInv'
    BY <2>3 DEF architectVars, CatalogIsLatest, AnswersTrue
  <2>4. ASSUME Lose
        PROVE  CatalogInv'
    <3>1. specs # <<>> /\ specs' = Tail(specs) /\ UNCHANGED architectVars
      BY <2>4 DEF Lose, architectVars
    <3>2. specs' \in Seq(Specs)
      BY <3>1
    <3> QED
      BY <2>3, <3>1, <3>2
  <2>5. ASSUME EmissaryNext, UNCHANGED architectVars
        PROVE  CatalogInv'
    <3>1. specs' \in Seq(Specs)
      <4>1. ASSUME NEW c \in Clients, NEW spec \in Specs, PostSpec(c, spec)
            PROVE  specs' \in Seq(Specs)
        <5>1. specs' = Append(specs, spec) \/ specs' = specs
          BY <4>1 DEF PostSpec
        <5> QED
          BY <5>1
      <4>2. (specs' = specs) => specs' \in Seq(Specs)
        OBVIOUS
      <4>3. ASSUME ~\E c \in Clients, spec \in Specs : PostSpec(c, spec)
            PROVE  specs' = specs
        BY <2>5, <4>3
           DEF EmissaryNext, Request, PostWebhook, DeleteWebhook, Tick, Poll, Ask,
               HearEnforce, Attempt, SkipHook, Fired, Restart
      <4> QED
        BY <4>1, <4>2, <4>3
    <3> QED
      BY <2>3, <2>5, <3>1
  <2>6. CASE UNCHANGED vars
    <3>1. UNCHANGED architectVars /\ specs' = specs
      BY <2>6 DEF vars, emissaryVars
    <3> QED
      BY <2>3, <3>1
  <2>7. CASE Next
    BY <2>1, <2>2, <2>4, <2>5, <2>7 DEF Next
  <2> QED
    BY <2>6, <2>7
<1> QED
  BY <1>1, <1>2, PTL DEF Spec

\* The catalog holds exactly the programs published last (catalog_add()).
THEOREM CatalogRecords == Spec => []CatalogIsLatest
<1>1. CatalogInv => CatalogIsLatest
  BY DEF CatalogInv
<1> QED
  BY <1>1, CatalogHolds, PTL

\* POST /generate answers with the program made for the request, if one was.
THEOREM AnswersHold == Spec => []AnswersTrue
<1>1. CatalogInv => AnswersTrue
  BY DEF CatalogInv
<1> QED
  BY <1>1, CatalogHolds, PTL

\* The catalog, oldest entry first, is the abstract record of the last Capacity
\* programs: every step adds one entry to it or leaves it.
THEOREM CatalogRefines == Spec => ImplementsRecent
<1>1. Init => Published!Init
  BY EmptyIsRing DEF Init, ArchitectInit, Published!Init
<1>2. CatalogInv /\ [Next]_vars => [Published!Next]_(InOrder(catalog))
  <2> SUFFICES ASSUME CatalogInv, [Next]_vars
               PROVE  [Published!Next]_(InOrder(catalog))
    OBVIOUS
  <2>1. ASSUME NEW intent \in Intents, NEW build, NEW sent,
               HandleSpec(intent, build, sent)
        PROVE  [Published!Next]_(InOrder(catalog))
    <3>1. CASE build # Nothing /\ sent
      <4>1. catalog' = RingAdd(catalog, Entry(build, intent))
        BY <2>1, <3>1 DEF HandleSpec, Submit
      <4>2. Entry(build, intent) \in Entries
        BY <2>1, <3>1, BuildsAreEntries DEF HandleSpec
      <4>3. InOrder(catalog') = Latest(InOrder(catalog), Entry(build, intent))
        BY <4>1, <4>2, RingAddInOrder DEF CatalogInv
      <4> QED
        BY <4>2, <4>3
           DEF Published!Next, Published!Add, Published!Latest, Latest
    <3>2. CASE ~(build # Nothing /\ sent)
      BY <2>1, <3>2 DEF HandleSpec
    <3> QED
      BY <3>1, <3>2
  <2>2. ASSUME NEW intent \in Intents, NEW build \in Builds(intent),
               NEW sent \in BOOLEAN, PostGenerate(intent, build, sent)
        PROVE  [Published!Next]_(InOrder(catalog))
    BY <2>1, <2>2 DEF PostGenerate, Generate
  <2>3. ASSUME NEW build, NEW sent \in BOOLEAN, Deliver(build, sent)
        PROVE  [Published!Next]_(InOrder(catalog))
    <3>1. specs # <<>> /\ specs \in Seq(Specs)
      BY <2>3 DEF Deliver, CatalogInv
    <3>2. Head(specs) \in Intents
      BY <3>1, RequestAssumption
    <3> QED
      BY <2>1, <2>3, <3>2 DEF Deliver, HearSpec
  <2>4. (catalog' = catalog) => [Published!Next]_(InOrder(catalog))
    OBVIOUS
  <2> QED
    BY <2>2, <2>3, <2>4
       DEF Next, vars, Lose, architectVars
<1> QED
  BY <1>1, <1>2, CatalogHolds, PTL DEF Spec, ImplementsRecent, Published!Spec

-----------------------------------------------------------------------------
\* An entry of an address counts what was let in of it in its window; who has no
\* entry has used none.
CountsAgree ==
  /\ \A i \in DOMAIN rate :
       /\ rate[i].count \in 1..MaxRPS
       /\ admitted[rate[i].ip] = IF rate[i].fresh THEN rate[i].count ELSE 0
  /\ \A c \in Clients : ~Present(rate, c) => admitted[c] = 0

RateInv ==
  /\ rate \in Seq([ip : Clients, fresh : BOOLEAN, count : Nat])
  /\ Len(rate) <= MaxRate
  /\ slot \in 1..MaxRate
  /\ \A i, j \in DOMAIN rate : rate[i].ip = rate[j].ip => i = j
  /\ admitted \in [Clients -> Nat]
  /\ CountsAgree

\* A request that is let in leaves the counts right.
LEMMA AdmitKeeps ==
  ASSUME RateInv, NEW c \in Clients, Admit(c)
  PROVE  RateInv'
<1> DEFINE Addresses == [ip : Clients, fresh : BOOLEAN, count : Nat]
<1>1. /\ rate \in Seq(Addresses) /\ Len(rate) \in Nat /\ DOMAIN rate = 1..Len(rate)
      /\ Len(rate) <= MaxRate /\ slot \in 1..MaxRate
      /\ admitted \in [Clients -> Nat]
      /\ MaxRPS \in Nat \ {0} /\ MaxRate \in Nat \ {0}
      /\ slot' = slot
  BY EmissaryAssumption DEF RateInv, Admit
<1> HIDE DEF Addresses
<1>e. ASSUME NEW i \in DOMAIN rate
      PROVE  /\ rate[i] \in Addresses
             /\ rate[i].ip \in Clients /\ rate[i].fresh \in BOOLEAN
             /\ rate[i].count \in 1..MaxRPS
             /\ admitted[rate[i].ip] = IF rate[i].fresh THEN rate[i].count ELSE 0
  <2>1. rate[i] \in Addresses
    BY <1>1
  <2> QED
    BY <2>1 DEF RateInv, CountsAgree, Addresses
<1>2. \A d \in Clients :
        admitted'[d] = IF ~Present(rate', d) THEN 0
                       ELSE IF d = c THEN admitted[d] + 1 ELSE admitted[d]
  BY DEF Admit
<1>3. admitted' \in [Clients -> Nat]
  BY <1>1 DEF Admit
<1>4. ASSUME NEW k \in DOMAIN rate, rate[k].ip = c, Within(rate[k]),
             rate' = [rate EXCEPT ![k] = Counted(@)]
      PROVE  RateInv'
  <2>1. /\ Counted(rate[k]) \in Addresses
        /\ Counted(rate[k]).ip = c /\ Counted(rate[k]).fresh = TRUE
        /\ Counted(rate[k]).count \in 1..MaxRPS
        /\ Counted(rate[k]).count = admitted[c] + 1
    <3>1. rate[k] \in Addresses /\ rate[k].count \in 1..MaxRPS
          /\ admitted[c] = IF rate[k].fresh THEN rate[k].count ELSE 0
      BY <1>e, <1>4
    <3>2. Counted(rate[k]) =
            [rate[k] EXCEPT !.fresh = TRUE,
                            !.count = IF rate[k].fresh THEN rate[k].count + 1 ELSE 1]
      BY DEF Counted
    <3>f. /\ Counted(rate[k]) \in Addresses
          /\ Counted(rate[k]).ip = c /\ Counted(rate[k]).fresh = TRUE
          /\ Counted(rate[k]).count =
               IF rate[k].fresh THEN rate[k].count + 1 ELSE 1
      <4> DEFINE n == IF rate[k].fresh THEN rate[k].count + 1 ELSE 1
      <4>1. n \in Nat
        BY <3>1, <1>1
      <4>2. Counted(rate[k]) = [rate[k] EXCEPT !.fresh = TRUE, !.count = n]
        BY <3>2
      <4> HIDE DEF n
      <4>3. /\ Counted(rate[k]) \in Addresses
            /\ Counted(rate[k]).ip = rate[k].ip
            /\ Counted(rate[k]).fresh = TRUE /\ Counted(rate[k]).count = n
        BY <3>1, <4>1, <4>2 DEF Addresses
      <4> QED
        BY <1>4, <4>3 DEF n
    <3>3. CASE rate[k].fresh
      <4>1. rate[k].count < MaxRPS
        BY <1>4, <3>3 DEF Within
      <4>2. Counted(rate[k]).count = rate[k].count + 1 /\ admitted[c] = rate[k].count
        BY <3>1, <3>3, <3>f
      <4> QED
        BY <1>1, <3>1, <3>f, <4>1, <4>2
    <3>4. CASE ~rate[k].fresh
      <4>1. Counted(rate[k]).count = 1 /\ admitted[c] = 0
        BY <3>1, <3>4, <3>f
      <4> QED
        BY <1>1, <3>f, <4>1
    <3> QED
      BY <3>3, <3>4
  <2>2. /\ rate' \in Seq(Addresses) /\ Len(rate') = Len(rate)
        /\ DOMAIN rate' = DOMAIN rate
        /\ rate'[k] = Counted(rate[k])
        /\ \A i \in DOMAIN rate : i # k => rate'[i] = rate[i]
    BY <1>1, <1>4, <2>1
  <2>3. \A i \in DOMAIN rate : rate'[i].ip = rate[i].ip
    BY <1>4, <2>1, <2>2
  <2>4. \A d \in Clients : Present(rate', d) <=> Present(rate, d)
    BY <2>2, <2>3 DEF Present
  <2>5. ASSUME NEW i \in DOMAIN rate'
        PROVE  /\ rate'[i].count \in 1..MaxRPS
               /\ admitted'[rate'[i].ip] =
                    IF rate'[i].fresh THEN rate'[i].count ELSE 0
    <3>1. rate[i].ip \in Clients /\ Present(rate', rate[i].ip)
      <4>1. i \in DOMAIN rate /\ rate[i].ip \in Clients
        BY <1>e, <2>2, <2>5
      <4>2. \E h \in DOMAIN rate' : rate'[h].ip = rate[i].ip
        BY <2>3, <2>5, <4>1
      <4> QED
        BY <4>1, <4>2 DEF Present
    <3>2. CASE i = k
      <4>1. admitted'[c] = admitted[c] + 1
        BY <1>2, <1>4, <3>1, <3>2
      <4> QED
        BY <2>1, <2>2, <3>2, <4>1
    <3>3. CASE i # k
      <4>1. rate[i].ip # c
        BY <1>4, <2>2, <2>5, <3>3 DEF RateInv
      <4>2. admitted'[rate[i].ip] = admitted[rate[i].ip]
        BY <1>2, <3>1, <4>1
      <4> QED
        BY <2>2, <2>5, <3>3, <4>2 DEF RateInv, CountsAgree
    <3> QED
      BY <3>2, <3>3
  <2>6. \A d \in Clients : ~Present(rate', d) => admitted'[d] = 0
    BY <1>2
  <2> QED
    BY <1>1, <1>3, <2>2, <2>3, <2>5, <2>6 DEF RateInv, CountsAgree, Addresses
<1>5. ASSUME EntriesOf(c) = {}, rate' = WithAddress(c)
      PROVE  RateInv'
  <2>1. \A i \in DOMAIN rate : rate[i].ip # c
    BY <1>5 DEF EntriesOf
  <2>2. /\ NewEntry(c) \in Addresses /\ NewEntry(c).ip = c
        /\ NewEntry(c).fresh = TRUE /\ NewEntry(c).count = 1
    BY <1>1 DEF NewEntry, Addresses
  <2>3. admitted[c] = 0
    BY <2>1 DEF RateInv, CountsAgree, Present
  <2>4. PICK k \in DOMAIN rate' :
          /\ rate' \in Seq(Addresses) /\ Len(rate') <= MaxRate
          /\ DOMAIN rate' = 1..Len(rate')
          /\ rate'[k] = NewEntry(c)
          /\ \A i \in DOMAIN rate' : i # k => i \in DOMAIN rate /\ rate'[i] = rate[i]
    <3>1. CASE Len(rate) < MaxRate
      <4>1. rate' = Append(rate, NewEntry(c))
        BY <1>5, <3>1 DEF WithAddress
      <4>2. /\ rate' \in Seq(Addresses) /\ Len(rate') = Len(rate) + 1
            /\ DOMAIN rate' = 1..(Len(rate) + 1)
            /\ rate'[Len(rate) + 1] = NewEntry(c)
            /\ \A i \in 1..Len(rate) : rate'[i] = rate[i]
        BY <1>1, <2>2, <4>1
      <4>3. Len(rate) + 1 \in DOMAIN rate' /\ Len(rate') <= MaxRate
        BY <1>1, <3>1, <4>2
      <4>4. \A i \in DOMAIN rate' : i # Len(rate) + 1 => i \in 1..Len(rate)
        BY <1>1, <4>2
      <4>5. DOMAIN rate' = 1..Len(rate')
        BY <4>2
      <4> QED
        BY <1>1, <4>2, <4>3, <4>4, <4>5
    <3>2. CASE ~(Len(rate) < MaxRate)
      <4>1. rate' = [rate EXCEPT ![slot] = NewEntry(c)] /\ slot \in DOMAIN rate
        BY <1>1, <1>5, <3>2 DEF WithAddress
      <4>2. /\ rate' \in Seq(Addresses) /\ Len(rate') = Len(rate)
            /\ DOMAIN rate' = DOMAIN rate
            /\ rate'[slot] = NewEntry(c)
            /\ \A i \in DOMAIN rate : i # slot => rate'[i] = rate[i]
        BY <1>1, <2>2, <4>1
      <4>3. slot \in DOMAIN rate' /\ DOMAIN rate' = 1..Len(rate')
        BY <1>1, <4>1, <4>2
      <4> QED
        BY <1>1, <4>2, <4>3
    <3> QED
      BY <3>1, <3>2
  <2>5. ASSUME NEW i \in DOMAIN rate', NEW j \in DOMAIN rate',
               rate'[i].ip = rate'[j].ip
        PROVE  i = j
    <3>1. CASE i # k /\ j # k
      BY <2>4, <2>5, <3>1 DEF RateInv
    <3>2. CASE i = k /\ j # k
      BY <2>1, <2>2, <2>4, <2>5, <3>2
    <3>3. CASE i # k /\ j = k
      BY <2>1, <2>2, <2>4, <2>5, <3>3
    <3> QED
      BY <3>1, <3>2, <3>3
  <2>6. ASSUME NEW i \in DOMAIN rate'
        PROVE  /\ rate'[i].count \in 1..MaxRPS
               /\ admitted'[rate'[i].ip] =
                    IF rate'[i].fresh THEN rate'[i].count ELSE 0
    <3>1. rate'[i].ip \in Clients /\ Present(rate', rate'[i].ip)
      <4>1. rate'[i] \in Addresses
        BY <2>4, <2>6
      <4>2. rate'[i].ip \in Clients
        BY <4>1 DEF Addresses
      <4>3. \E h \in DOMAIN rate' : rate'[h].ip = rate'[i].ip
        BY <2>6
      <4> QED
        BY <4>2, <4>3 DEF Present
    <3>2. CASE i = k
      <4>1. admitted'[c] = 1
        BY <1>2, <2>2, <2>3, <2>4, <3>1, <3>2
      <4> QED
        BY <1>1, <2>2, <2>4, <3>2, <4>1
    <3>3. CASE i # k
      <4>1. i \in DOMAIN rate /\ rate'[i] = rate[i] /\ rate[i].ip # c
        BY <2>1, <2>4, <2>6, <3>3
      <4>2. admitted'[rate[i].ip] = admitted[rate[i].ip]
        BY <1>2, <3>1, <4>1
      <4> QED
        BY <4>1, <4>2 DEF RateInv, CountsAgree
    <3> QED
      BY <3>2, <3>3
  <2>7. \A d \in Clients : ~Present(rate', d) => admitted'[d] = 0
    BY <1>2
  <2> QED
    BY <1>1, <1>3, <2>4, <2>5, <2>6, <2>7 DEF RateInv, CountsAgree, Addresses
<1>6. \/ \E k \in DOMAIN rate : /\ rate[k].ip = c /\ Within(rate[k])
                               /\ rate' = [rate EXCEPT ![k] = Counted(@)]
      \/ EntriesOf(c) = {} /\ rate' = WithAddress(c)
  BY DEF Admit, EntriesOf
<1> QED
  BY <1>4, <1>5, <1>6

\* No address that keeps its slot exceeds the rate (rate_check()).
THEOREM RateIsLimited == Spec => []RateHolds
<1>1. Init => RateInv
  <2> SUFFICES ASSUME Init PROVE RateInv
    OBVIOUS
  <2>1. rate = <<>> /\ slot = 1 /\ admitted = [c \in Clients |-> 0]
    BY DEF Init, EmissaryInit
  <2> QED
    BY <2>1, EmissaryAssumption DEF RateInv, CountsAgree
<1>2. RateInv /\ [Next]_vars => RateInv'
  <2> SUFFICES ASSUME RateInv, [Next]_vars PROVE RateInv'
    OBVIOUS
  <2>1. ASSUME NEW c \in Clients, Request(c)
        PROVE  RateInv'
    <3>1. Admit(c)
      BY <2>1 DEF Request, PostSpec, PostWebhook, DeleteWebhook
    <3> QED
      BY <3>1, AdmitKeeps
  <2>2. ASSUME Tick
        PROVE  RateInv'
    <3> DEFINE Addresses == [ip : Clients, fresh : BOOLEAN, count : Nat]
               table == rate'
    <3>0. rate \in Seq(Addresses) /\ Len(rate) <= MaxRate
      BY DEF RateInv
    <3> HIDE DEF Addresses
    <3>1. /\ Len(rate) \in Nat /\ DOMAIN rate = 1..Len(rate)
          /\ \A i \in DOMAIN rate : rate[i] \in Addresses
      BY <3>0
    <3>2. /\ table = [i \in DOMAIN rate |-> [rate[i] EXCEPT !.fresh = FALSE]]
          /\ admitted' = [c \in Clients |-> 0] /\ slot' \in 1..MaxRate
      BY <2>2 DEF Tick
    <3> HIDE DEF table
    <3>e. ASSUME NEW i \in DOMAIN rate
          PROVE  /\ table[i] \in Addresses
                 /\ table[i].ip = rate[i].ip /\ table[i].ip \in Clients
                 /\ table[i].fresh = FALSE /\ table[i].count = rate[i].count
      <4>1. table[i] = [rate[i] EXCEPT !.fresh = FALSE] /\ rate[i] \in Addresses
        BY <3>1, <3>2
      <4> QED
        BY <4>1 DEF Addresses
    <3>3. table \in Seq(Addresses) /\ Len(table) = Len(rate)
          /\ DOMAIN table = DOMAIN rate
      <4>1. table = [i \in 1..Len(rate) |-> table[i]]
        BY <3>1, <3>2
      <4>2. \A i \in 1..Len(rate) : table[i] \in Addresses
        BY <3>1, <3>e
      <4>3. table \in Seq(Addresses)
        BY <3>1, <4>1, <4>2
      <4> QED
        BY <3>1, <4>1, <4>3
    <3> USE DEF table
    <3>4. \A i \in DOMAIN rate : rate[i].count \in 1..MaxRPS
      BY DEF RateInv, CountsAgree
    <3>5. admitted' \in [Clients -> Nat] /\ \A c \in Clients : admitted'[c] = 0
      BY <3>2
    <3>6. CountsAgree'
      BY <3>e, <3>3, <3>4, <3>5 DEF CountsAgree
    <3>7. \A i, j \in DOMAIN rate' : rate'[i].ip = rate'[j].ip => i = j
      BY <3>e, <3>3 DEF RateInv
    <3> QED
      BY <3>0, <3>1, <3>2, <3>3, <3>5, <3>6, <3>7 DEF RateInv, Addresses
  <2>3. ASSUME Restart
        PROVE  RateInv'
    <3>1. rate' = <<>> /\ slot' = slot /\ admitted' = [c \in Clients |-> 0]
      BY <2>3 DEF Restart
    <3> QED
      BY <3>1, EmissaryAssumption DEF RateInv, CountsAgree
  <2>4. ASSUME UNCHANGED gateVars
        PROVE  RateInv'
    BY <2>4 DEF gateVars, RateInv, CountsAgree, Present
  <2>5. CASE EmissaryNext
    BY <2>1, <2>2, <2>3, <2>4, <2>5
       DEF EmissaryNext, Poll, Ask, HearEnforce, Attempt, SkipHook, Fired
  <2>6. CASE Next /\ ~EmissaryNext
    BY <2>4, <2>6
       DEF Next, PostGenerate, Deliver, Lose, emissaryVars, gateVars
  <2>7. CASE UNCHANGED vars
    BY <2>4, <2>7 DEF vars, emissaryVars
  <2> QED
    BY <2>5, <2>6, <2>7
<1>3. RateInv => RateHolds
  <2> SUFFICES ASSUME RateInv, NEW c \in Clients PROVE admitted[c] <= MaxRPS
    BY DEF RateHolds
  <2>1. CASE Present(rate, c)
    <3>1. PICK i \in DOMAIN rate : rate[i].ip = c
      BY <2>1 DEF Present
    <3>2. /\ rate[i].count \in 1..MaxRPS
          /\ admitted[c] = IF rate[i].fresh THEN rate[i].count ELSE 0
      BY <3>1 DEF RateInv, CountsAgree
    <3> QED
      BY <3>2, EmissaryAssumption
  <2>2. CASE ~Present(rate, c)
    BY <2>2, EmissaryAssumption DEF RateInv, CountsAgree
  <2> QED
    BY <2>1, <2>2
<1> QED
  BY <1>1, <1>2, <1>3, PTL DEF Spec

-----------------------------------------------------------------------------
Events == Programs \union {Enforcement, NotFiring.event}

Firings == [event : Events, hook : 0..(MaxWebhooks + 1),
            attempt : 0..MaxAttempts]

\* A firing goes on with the next webhook, or with the next attempt.
LEMMA FiringMovesOn ==
  ASSUME firing \in Firings, firing.hook \in 1..MaxWebhooks,
         firing.attempt \in 1..MaxAttempts
  PROVE  /\ firing' = NextHook
            => /\ firing' \in Firings /\ firing'.event = firing.event
               /\ firing'.hook = firing.hook + 1 /\ firing'.attempt = 1
         /\ firing' = [firing EXCEPT !.attempt = @ + 1]
            => /\ firing.attempt # MaxAttempts => firing' \in Firings
               /\ firing'.event = firing.event /\ firing'.hook = firing.hook
               /\ firing'.attempt = firing.attempt + 1
<1>1. PICK e \in Events, h \in 0..(MaxWebhooks + 1), n \in 0..MaxAttempts :
        firing = [event |-> e, hook |-> h, attempt |-> n]
  BY DEF Firings
<1>2. firing.event = e /\ firing.hook = h /\ firing.attempt = n
  BY <1>1
<1>3. MaxWebhooks \in Nat /\ MaxAttempts \in Nat
  BY EmissaryAssumption
<1>4. /\ h + 1 \in 0..(MaxWebhooks + 1) /\ 1 \in 0..MaxAttempts
      /\ n # MaxAttempts => n + 1 \in 0..MaxAttempts
  BY <1>2, <1>3
<1>5. ASSUME firing' = NextHook
      PROVE  /\ firing' \in Firings /\ firing'.event = e
             /\ firing'.hook = h + 1 /\ firing'.attempt = 1
  <2>1. firing' = [event |-> e, hook |-> h + 1, attempt |-> 1]
    BY <1>1, <1>2, <1>5 DEF NextHook
  <2> QED
    BY <1>4, <2>1 DEF Firings
<1>6. ASSUME firing' = [firing EXCEPT !.attempt = @ + 1]
      PROVE  /\ n # MaxAttempts => firing' \in Firings
             /\ firing'.event = e /\ firing'.hook = h /\ firing'.attempt = n + 1
  <2>1. firing' = [event |-> e, hook |-> h, attempt |-> n + 1]
    BY <1>1, <1>2, <1>6
  <2> QED
    BY <1>4, <2>1 DEF Firings
<1> QED
  BY <1>2, <1>5, <1>6

\* A firing starts with the first attempt at the first webhook.
LEMMA FiringStarts ==
  /\ NotFiring \in Firings
  /\ \A e \in Programs \union {Enforcement} :
       [event |-> e, hook |-> 1, attempt |-> 1] \in Firings
<1>1. /\ 0 \in 0..MaxAttempts /\ 1 \in 0..MaxAttempts
      /\ 0 \in 0..(MaxWebhooks + 1) /\ 1 \in 0..(MaxWebhooks + 1)
  BY EmissaryAssumption
<1>2. NotFiring = [event |-> NotFiring.event, hook |-> 0, attempt |-> 0]
  BY DEF NotFiring
<1>3. NotFiring.event \in Events
  BY DEF Events
<1>4. Programs \union {Enforcement} \subseteq Events
  BY DEF Events
<1> QED
  BY <1>1, <1>2, <1>3, <1>4 DEF Firings

\* While webhooks are called for a result, the webhook whose turn it is was sent
\* no more copies than attempts were made, a prompt one none, and those whose
\* turn is to come none.
TurnsHold ==
  firing # NotFiring /\ firing.event \in Programs \ {Enforcement} =>
    \A h \in 1..MaxWebhooks :
      /\ h = firing.hook => /\ copies[h][firing.event] <= firing.attempt - 1
                            /\ h \in Prompt => copies[h][firing.event] = 0
      /\ h > firing.hook => copies[h][firing.event] = 0

CopiesInv ==
  /\ hooks \in Seq(BOOLEAN) /\ Len(hooks) <= MaxWebhooks
  /\ firing \in Firings
  /\ firing # NotFiring => firing.hook >= 1 /\ firing.attempt >= 1
  /\ copies \in [1..MaxWebhooks -> [Programs -> Nat]]
  /\ CopiesAreFew
  /\ TurnsHold

\* A new result has been sent to nobody; one that is held keeps its count.
LEMMA AskKeepsCopies ==
  ASSUME CopiesInv, NEW p \in Programs, Ask(p)
  PROVE  CopiesInv'
<1>1. CASE UNCHANGED <<results, firing, copies>>
  BY <1>1 DEF Ask, CopiesInv, CopiesAreFew, TurnsHold
<1>2. CASE ~UNCHANGED <<results, firing, copies>>
  <2>1. /\ ~Known(p)
        /\ firing' = [event |-> p, hook |-> 1, attempt |-> 1]
        /\ hooks' = hooks
    BY <1>2 DEF Ask, Fire
  <2>2. copies' = [h \in 1..MaxWebhooks |->
                    [q \in Programs |->
                      IF q \in Recorded /\ q \in Recorded'
                      THEN copies[h][q] ELSE 0]]
    BY <1>2 DEF Ask
  <2>3. \A h \in 1..MaxWebhooks, q \in Programs :
          copies'[h][q] \in Nat /\ copies'[h][q] \in {0, copies[h][q]}
    BY <2>2 DEF CopiesInv
  <2>4. copies' \in [1..MaxWebhooks -> [Programs -> Nat]]
    BY <2>2 DEF CopiesInv
  <2>5. \A h \in 1..MaxWebhooks : copies'[h][p] = 0
    BY <2>1, <2>2 DEF Known
  <2>6. CopiesAreFew'
    <3> SUFFICES ASSUME NEW h \in 1..MaxWebhooks, NEW q \in Programs
                 PROVE  copies'[h][q] <= IF h \in Prompt THEN 1 ELSE MaxAttempts
      BY DEF CopiesAreFew
    <3>1. copies'[h][q] = 0 \/ copies'[h][q] = copies[h][q]
      BY <2>3
    <3>2. copies[h][q] <= IF h \in Prompt THEN 1 ELSE MaxAttempts
      BY DEF CopiesInv, CopiesAreFew
    <3>3. MaxAttempts \in Nat
      BY EmissaryAssumption
    <3> QED
      BY <3>1, <3>2, <3>3
  <2>7. TurnsHold'
    BY <2>1, <2>5 DEF TurnsHold
  <2>8. firing' \in Firings
    BY <2>1, FiringStarts
  <2> QED
    BY <2>1, <2>4, <2>6, <2>7, <2>8 DEF CopiesInv
<1> QED
  BY <1>1, <1>2

LEMMA NextHookKeeps ==
  ASSUME CopiesInv, firing.hook \in DOMAIN hooks, hooks' = hooks,
         firing' = NextHook,
         copies' \in [1..MaxWebhooks -> [Programs -> Nat]], CopiesAreFew',
         \A h \in 1..MaxWebhooks, q \in Programs :
           h # firing.hook => copies'[h][q] = copies[h][q]
  PROVE  CopiesInv'
<1>1. firing \in Firings /\ firing.hook \in 1..MaxWebhooks
  BY EmissaryAssumption, LenProperties DEF CopiesInv
<1>a. firing # NotFiring /\ firing.attempt \in 1..MaxAttempts
  BY <1>1 DEF CopiesInv, NotFiring, Firings
<1>2. /\ firing'.event = firing.event /\ firing'.hook = firing.hook + 1
      /\ firing'.attempt = 1
      /\ firing' \in Firings
  BY <1>1, <1>a, FiringMovesOn
<1>3. TurnsHold'
  <2> SUFFICES ASSUME firing.event \in Programs \ {Enforcement},
                      NEW h \in 1..MaxWebhooks, h > firing.hook
               PROVE  copies'[h][firing.event] = 0
    <3>1. firing'.event = firing.event /\ firing'.hook = firing.hook + 1
      BY <1>2
    <3>2. \A h \in 1..MaxWebhooks : h = firing.hook + 1 \/ h > firing.hook + 1
                                    => h > firing.hook
      BY <1>1
    <3>3. 0 <= firing'.attempt - 1
      BY <1>2
    <3> QED
      BY <3>1, <3>2, <3>3 DEF TurnsHold
  <2>2. copies[h][firing.event] = 0
    BY <1>a DEF CopiesInv, TurnsHold
  <2>3. h # firing.hook /\ firing.event \in Programs
    BY <1>1
  <2> QED
    BY <2>2, <2>3
<1> QED
  BY <1>1, <1>2, <1>3 DEF CopiesInv

\* One POST of webhook_fire(), answered or not.
LEMMA AttemptKeepsCopies ==
  ASSUME CopiesInv, NEW outcome, Attempt(outcome)
  PROVE  CopiesInv'
<1> DEFINE hook == firing.hook
           event == firing.event
<1>1. /\ firing \in Firings
      /\ hook \in 1..MaxWebhooks
      /\ MaxWebhooks \in Nat /\ MaxAttempts \in Nat \ {0}
      /\ copies \in [1..MaxWebhooks -> [Programs -> Nat]]
  BY EmissaryAssumption, LenProperties DEF CopiesInv, Attempt
<1>2. firing # NotFiring /\ firing.attempt \in 1..MaxAttempts
  BY <1>1 DEF CopiesInv, NotFiring, Firings
<1>3. hooks' = hooks /\ hook \in DOMAIN hooks
  BY DEF Attempt
<1>4. CASE outcome = "refused" \/ event = Enforcement
  <2>1. copies' = copies
    BY <1>4 DEF Attempt
  <2>2. CASE IsOver(outcome)
    <3>1. firing' = NextHook
      BY <2>2 DEF Attempt
    <3> QED
      BY <1>1, <1>3, <2>1, <3>1, NextHookKeeps DEF CopiesInv, CopiesAreFew
  <2>3. CASE ~IsOver(outcome)
    <3>1. firing' = [firing EXCEPT !.attempt = @ + 1] /\ firing.attempt # MaxAttempts
      BY <2>3 DEF Attempt, IsOver
    <3>2. /\ firing'.event = event /\ firing'.hook = hook
          /\ firing'.attempt = firing.attempt + 1
          /\ firing' \in Firings
      BY <1>1, <1>2, <3>1, FiringMovesOn
    <3>3. TurnsHold'
      <4> SUFFICES ASSUME event \in Programs \ {Enforcement}, NEW h \in 1..MaxWebhooks
                   PROVE  /\ h = hook => /\ copies[h][event] <= firing.attempt
                                         /\ h \in Prompt => copies[h][event] = 0
                          /\ h > hook => copies[h][event] = 0
        BY <1>2, <2>1, <3>2 DEF TurnsHold
      <4>1. copies[h][event] \in Nat
        BY <1>1
      <4> QED
        BY <1>2, <4>1 DEF CopiesInv, TurnsHold
    <3> QED
      BY <1>2, <1>3, <2>1, <3>2, <3>3 DEF CopiesInv, CopiesAreFew
  <2> QED
    BY <2>2, <2>3
<1>5. CASE outcome # "refused" /\ event # Enforcement
  <2>1. copies' = [copies EXCEPT ![hook][event] = @ + 1]
    BY <1>5 DEF Attempt
  <2>3. \A h \in 1..MaxWebhooks, q \in Programs :
          copies'[h][q] = IF h = hook /\ q = event THEN copies[h][q] + 1
                          ELSE copies[h][q]
    BY <1>1, <2>1
  <2>4. copies' \in [1..MaxWebhooks -> [Programs -> Nat]]
    <3> DEFINE sent == copies[hook]
    <3>1. sent \in [Programs -> Nat]
      BY <1>1
    <3>2. [sent EXCEPT ![event] = @ + 1] \in [Programs -> Nat]
      <4> HIDE DEF sent, event
      <4>1. CASE event \in Programs
        <5>1. sent[event] + 1 \in Nat
          BY <3>1, <4>1
        <5> QED
          BY <3>1, <5>1
      <4>2. CASE event \notin Programs
        BY <3>1, <4>2
      <4> QED
        BY <4>1, <4>2
    <3>3. copies' = [copies EXCEPT ![hook] = [copies[hook] EXCEPT ![event] = @ + 1]]
      BY <1>1, <2>1
    <3> QED
      BY <1>1, <3>2, <3>3
  <2>5. event \in Programs =>
          /\ copies[hook][event] <= firing.attempt - 1
          /\ hook \in Prompt => copies[hook][event] = 0
          /\ \A h \in 1..MaxWebhooks : h > hook => copies[h][event] = 0
    BY <1>1, <1>2, <1>5 DEF CopiesInv, TurnsHold
  <2>6. CopiesAreFew'
    <3> SUFFICES ASSUME NEW h \in 1..MaxWebhooks, NEW q \in Programs
                 PROVE  copies'[h][q] <= IF h \in Prompt THEN 1 ELSE MaxAttempts
      BY DEF CopiesAreFew
    <3>1. copies[h][q] \in Nat
      BY <1>1
    <3>2. CASE h = hook /\ q = event
      BY <1>1, <1>2, <2>3, <2>5, <3>1, <3>2
    <3>3. CASE ~(h = hook /\ q = event)
      BY <2>3, <3>3 DEF CopiesInv, CopiesAreFew
    <3> QED
      BY <3>2, <3>3
  <2>7. CASE IsOver(outcome)
    <3>1. firing' = NextHook
      BY <2>7 DEF Attempt
    <3> QED
      BY <1>3, <2>3, <2>4, <2>6, <3>1, NextHookKeeps
  <2>8. CASE ~IsOver(outcome)
    <3>1. firing' = [firing EXCEPT !.attempt = @ + 1] /\ firing.attempt # MaxAttempts
      BY <2>8 DEF Attempt, IsOver
    <3>2. /\ firing'.event = event /\ firing'.hook = hook
          /\ firing'.attempt = firing.attempt + 1
          /\ firing' \in Firings
      BY <1>1, <1>2, <3>1, FiringMovesOn
    <3>3. hook \notin Prompt
      BY <1>5, <2>8 DEF Attempt, Outcomes, IsOver
    <3>4. TurnsHold'
      <4> SUFFICES ASSUME event \in Programs \ {Enforcement}, NEW h \in 1..MaxWebhooks
                   PROVE  /\ h = hook => /\ copies'[h][event] <= firing.attempt
                                         /\ h \notin Prompt
                          /\ h > hook => copies'[h][event] = 0
        BY <1>2, <3>2 DEF TurnsHold
      <4>1. copies[h][event] \in Nat
        BY <1>1
      <4> QED
        BY <1>1, <1>2, <2>3, <2>5, <3>3, <4>1
    <3> QED
      BY <1>2, <1>3, <2>4, <2>6, <3>2, <3>4 DEF CopiesInv
  <2> QED
    BY <2>7, <2>8
<1> QED
  BY <1>4, <1>5

\* webhook_fire() tries a result on each webhook in turn and poll_oracle()
\* records a result that it holds no second time, so as long as it is held a
\* webhook has it once if it answers promptly, and else MaxAttempts times.
THEOREM CopiesAreBounded == Spec => []CopiesAreFew
<1>1. Init => CopiesInv
  <2> SUFFICES ASSUME Init PROVE CopiesInv
    OBVIOUS
  <2>1. /\ hooks = <<>> /\ firing = NotFiring /\ copies = NoCopies
    BY DEF Init, EmissaryInit
  <2>2. hooks \in Seq(BOOLEAN) /\ Len(hooks) <= MaxWebhooks
    BY <2>1, EmissaryAssumption
  <2>3. copies \in [1..MaxWebhooks -> [Programs -> Nat]] /\ CopiesAreFew
    BY <2>1, EmissaryAssumption DEF NoCopies, CopiesAreFew
  <2> QED
    BY <2>1, <2>2, <2>3, FiringStarts DEF CopiesInv, TurnsHold
<1>2. CopiesInv /\ [Next]_vars => CopiesInv'
  <2> SUFFICES ASSUME CopiesInv, [Next]_vars PROVE CopiesInv'
    OBVIOUS
  <2>1. ASSUME UNCHANGED <<firing, copies, hooks>>
        PROVE  CopiesInv'
    BY <2>1 DEF CopiesInv, CopiesAreFew, TurnsHold
  <2>2. ASSUME NEW c \in Clients, Request(c)
        PROVE  CopiesInv'
    <3>1. firing' = firing /\ copies' = copies /\ firing = NotFiring
      BY <2>2 DEF Request, PostSpec, PostWebhook, DeleteWebhook, resultVars, Idle
    <3>2. hooks' \in Seq(BOOLEAN) /\ Len(hooks') <= MaxWebhooks
      <4>1. hooks \in Seq(BOOLEAN) /\ Len(hooks) <= MaxWebhooks
        BY DEF CopiesInv
      <4>2. MaxWebhooks \in Nat
        BY EmissaryAssumption
      <4>3. ASSUME PostWebhook(c)
            PROVE  hooks' \in Seq(BOOLEAN) /\ Len(hooks') <= MaxWebhooks
        <5>1. CASE Len(hooks) >= MaxWebhooks
          BY <4>1, <4>3, <5>1 DEF PostWebhook
        <5>2. CASE ~(Len(hooks) >= MaxWebhooks)
          <6>1. hooks' = Append(hooks, TRUE)
            BY <4>3, <5>2 DEF PostWebhook
          <6>2. /\ Append(hooks, TRUE) \in Seq(BOOLEAN)
                /\ Len(Append(hooks, TRUE)) = Len(hooks) + 1
            BY <4>1, AppendProperties
          <6>3. Len(hooks) \in Nat
            BY <4>1, LenProperties
          <6> QED
            BY <4>2, <5>2, <6>1, <6>2, <6>3
        <5> QED
          BY <5>1, <5>2
      <4>4. ASSUME NEW h, DeleteWebhook(c, h)
            PROVE  hooks' \in Seq(BOOLEAN) /\ Len(hooks') <= MaxWebhooks
        <5>1. CASE h \in DOMAIN hooks
          <6>1. hooks' = [hooks EXCEPT ![h] = FALSE] /\ h \in 1..Len(hooks)
            BY <4>1, <4>4, <5>1, LenProperties DEF DeleteWebhook
          <6>2. FALSE \in BOOLEAN
            OBVIOUS
          <6> QED
            BY <4>1, <6>1, <6>2, ExceptSeq
        <5>2. CASE h \notin DOMAIN hooks
          BY <4>1, <4>4, <5>2 DEF DeleteWebhook
        <5> QED
          BY <5>1, <5>2
      <4> QED
        BY <2>2, <4>1, <4>3, <4>4 DEF Request, PostSpec
    <3> QED
      BY <3>1, <3>2 DEF CopiesInv, CopiesAreFew, TurnsHold
  <2>3. ASSUME NEW p \in Programs, Ask(p)
        PROVE  CopiesInv'
    BY <2>3, AskKeepsCopies
  <2>4. ASSUME HearEnforce
        PROVE  CopiesInv'
    <3>1. /\ firing' = [event |-> Enforcement, hook |-> 1, attempt |-> 1]
          /\ copies' = copies /\ hooks' = hooks
      BY <2>4 DEF HearEnforce, Fire
    <3> QED
      BY <3>1, FiringStarts DEF CopiesInv, CopiesAreFew, TurnsHold
  <2>5. ASSUME NEW outcome, Attempt(outcome)
        PROVE  CopiesInv'
    BY <2>5, AttemptKeepsCopies
  <2>6. ASSUME SkipHook
        PROVE  CopiesInv'
    <3>1. /\ firing.hook \in DOMAIN hooks /\ hooks' = hooks
          /\ firing' = NextHook /\ copies' = copies
      BY <2>6 DEF SkipHook
    <3> QED
      BY <3>1, NextHookKeeps DEF CopiesInv, CopiesAreFew
  <2>7. ASSUME Fired
        PROVE  CopiesInv'
    <3>1. firing' = NotFiring /\ copies' = copies /\ hooks' = hooks
      BY <2>7 DEF Fired
    <3> QED
      BY <3>1, FiringStarts DEF CopiesInv, CopiesAreFew, TurnsHold
  <2>8. ASSUME Restart
        PROVE  CopiesInv'
    <3>1. firing' = NotFiring /\ copies' = NoCopies /\ hooks' = <<>>
      BY <2>8 DEF Restart
    <3>2. hooks' \in Seq(BOOLEAN) /\ Len(hooks') <= MaxWebhooks
      BY <3>1, EmissaryAssumption
    <3>3. copies' \in [1..MaxWebhooks -> [Programs -> Nat]] /\ CopiesAreFew'
      BY <3>1, EmissaryAssumption DEF NoCopies, CopiesAreFew
    <3> QED
      BY <3>1, <3>2, <3>3, FiringStarts DEF CopiesInv, TurnsHold
  <2>9. ASSUME Tick \/ \E listing \in SUBSET Programs : Poll(listing)
        PROVE  CopiesInv'
    BY <2>1, <2>9 DEF Tick, Poll, resultVars
  <2>10. CASE EmissaryNext
    BY <2>2, <2>3, <2>4, <2>5, <2>6, <2>7, <2>8, <2>9, <2>10 DEF EmissaryNext
  <2>11. CASE ~EmissaryNext
    BY <2>1, <2>11
       DEF Next, PostGenerate, Deliver, Lose, vars, emissaryVars, resultVars
  <2> QED
    BY <2>10, <2>11
<1>3. CopiesInv => CopiesAreFew
  BY DEF CopiesInv
<1> QED
  BY <1>1, <1>2, <1>3, PTL DEF Spec
=============================================================================
