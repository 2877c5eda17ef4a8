--------------------------- MODULE DbServerProofs ---------------------------
(***************************************************************************)
(* LookupExact and MissesOnlyTail for every sorted file, every sampling    *)
(* distance and every range of keys. What makes them hold is that an entry *)
(* of the index never lies about the file (EntriesRight) and that the      *)
(* first record is always sampled (FirstSampled); the interval that        *)
(* getInterval returns then encloses the key's record, if there is one     *)
(* (IntervalEncloses). Only keys at or above the greatest entry are        *)
(* missed, and that entry is never below the last sample (Tail).           *)
(***************************************************************************)
EXTENDS DbServer, TLAPS

Typed ==
  /\ size \in Nat
  /\ db \in [Offset -> Key] /\ Increasing(db)
  /\ i \in Nat
  /\ key \in Key

\* An entry leads to the record with its key or, if it is the one for the
\* greatest key, to the end of the file.
EntriesRight ==
  \A k \in DOMAIN index :
    /\ k \in Key /\ index[k] \in 0 .. size
    /\ index[k] < size => db[index[k]] = k
    /\ index[k] = size => size > 0 /\ k = db[size - 1]

FirstSampled ==
  /\ pc = "open" => i = 0 /\ DOMAIN index = {} /\ status = "none"
  /\ pc = "build" => (i = 0 \/ db[0] \in DOMAIN index) /\ status = "none"
  /\ pc \in {"ready", "locate", "search"} => size > 0 /\ db[0] \in DOMAIN index
  /\ pc = "undefined" => DOMAIN index = {} \/ \A b \in DOMAIN index : b <= key

\* Where the record of key k lies, if anywhere, it lies between start and end.
IntervalEncloses ==
  pc = "search" /\ (\E b \in DOMAIN index : key < b) =>
    /\ start \in Nat /\ end \in 0 .. size
    /\ \A p \in Offset : db[p] = key => start <= p /\ p < end

DbInv == Typed /\ EntriesRight /\ FirstSampled /\ IntervalEncloses /\ LookupExact

USE StepAssumption, SizesAssumption DEF Key, Offset

LEMMA DbInitially == Init => DbInv
BY DEF Init, DbInv, Typed, Increasing, EntriesRight, FirstSampled, IntervalEncloses,
       LookupExact, Answered

\* Entering a key that the file holds at that offset keeps the index right.
LEMMA EmplaceRight ==
  ASSUME Typed, EntriesRight, size' = size, db' = db, size > 0,
         NEW p \in 0 .. size, NEW k \in Key, Emplace(k, p),
         p < size => db[p] = k, p = size => k = db[size - 1]
  PROVE  EntriesRight' /\ DOMAIN index' = DOMAIN index \cup {k}
<1>1. /\ DOMAIN index' = DOMAIN index \cup {k}
      /\ \A x \in DOMAIN index : index'[x] = index[x]
      /\ k \notin DOMAIN index => index'[k] = p
  BY DEF Emplace
<1>. QED
  BY <1>1 DEF EntriesRight, Typed

\* In a sorted file the order of keys is the order of offsets.
LEMMA SortedOrder ==
  ASSUME Typed, NEW p \in Offset, NEW q \in Offset
  PROVE  /\ db[p] < db[q] <=> p < q
         /\ db[p] = db[q] <=> p = q
BY DEF Typed, Increasing

LEMMA LocateEncloses ==
  ASSUME DbInv, Locate
  PROVE  DbInv'
<1>. USE DEF Locate, file
<1>1. PICK a \in DOMAIN index, b \in DOMAIN index :
        /\ UpperBound(b, key) /\ Prev(a, b)
        /\ start' = index[a] /\ end' = index[b]
  OBVIOUS
<1>2. key \in Nat /\ a \in Nat /\ b \in Nat /\ a < b /\ key < b
  BY <1>1 DEF UpperBound, Prev, DbInv, Typed, EntriesRight
<1>3. a <= key
  BY <1>1, <1>2 DEF UpperBound, Prev
<1>4. size \in Nat /\ size > 0
  BY DEF DbInv, Typed, FirstSampled
<1>5. size - 1 \in Offset
  BY <1>4
<1>6. /\ index[a] \in 0 .. size /\ index[b] \in 0 .. size
      /\ index[a] < size => db[index[a]] = a
      /\ index[a] = size => a = db[size - 1]
      /\ index[b] < size => db[index[b]] = b
      /\ index[b] = size => b = db[size - 1]
  BY DEF DbInv, EntriesRight
<1>7. index[a] < size
  <2>. SUFFICES ASSUME index[a] = size PROVE FALSE
    BY <1>4, <1>6
  <2>1. index[b] \in Offset /\ db[size - 1] < db[index[b]]
    BY <1>2, <1>4, <1>6
  <2>. QED
    BY <2>1, <1>4, <1>5, SortedOrder DEF DbInv
<1>8. ASSUME NEW p \in Offset, db[p] = key
      PROVE  index[a] <= p /\ p < index[b]
  <2>1. index[a] <= p
    <3>1. index[a] \in Offset /\ ~(db[p] < db[index[a]])
      BY <1>2, <1>3, <1>4, <1>6, <1>7, <1>8
    <3>. QED
      BY <3>1, <1>4, SortedOrder DEF DbInv
  <2>2. p < index[b]
    <3>1. CASE index[b] = size
      BY <3>1, <1>4
    <3>2. CASE index[b] < size
      <4>1. index[b] \in Offset /\ db[p] < db[index[b]]
        BY <3>2, <1>2, <1>4, <1>6, <1>8
      <4>. QED
        BY <4>1, SortedOrder DEF DbInv
    <3>. QED
      BY <3>1, <3>2, <1>4, <1>6
  <2>. QED
    BY <2>1, <2>2
<1>9. IntervalEncloses'
  BY <1>1, <1>4, <1>6, <1>8 DEF IntervalEncloses
<1>. QED
  BY <1>9 DEF DbInv, Typed, Increasing, EntriesRight, FirstSampled, LookupExact,
       Answered

LEMMA SearchExact ==
  ASSUME DbInv, Search
  PROVE  DbInv'
<1>. USE DEF Search, file
<1>1. PICK p \in 0 .. size :
        /\ LowerBound(p)
        /\ record' = p
        /\ status' = IF p < size /\ db[p] = key THEN "200" ELSE "404"
  OBVIOUS
<1>2. ASSUME \E b \in DOMAIN index : key < b, Holds(key)
      PROVE  p < size /\ db[p] = key
  <2>1. PICK q \in Offset : db[q] = key
    BY <1>2 DEF Holds
  <2>2. start \in Nat /\ end \in 0 .. size /\ start <= q /\ q < end
    BY <1>2, <2>1 DEF DbInv, IntervalEncloses
  <2>3. size \in Nat /\ key \in Nat /\ \A x \in Offset : db[x] \in Nat
    BY DEF DbInv, Typed
  <2>. p \in Nat /\ q \in Nat
    BY <2>3
  <2>4. ~(q < p)
    <3>. SUFFICES ASSUME q < p PROVE FALSE
      OBVIOUS
    <3>1. q \in start .. p - 1
      BY <2>2
    <3>2. db[q] < key
      BY <1>1, <3>1 DEF LowerBound
    <3>. QED
      BY <2>1, <2>3, <3>2
  <2>5. p \in Offset /\ db[p] >= key
    <3>1. p < end /\ p \in Offset
      BY <2>2, <2>3, <2>4
    <3>. QED
      BY <1>1, <3>1 DEF LowerBound
  <2>6. ~(p < q)
    BY <2>1, <2>3, <2>5, SortedOrder DEF DbInv
  <2>7. p = q
    BY <2>3, <2>4, <2>6
  <2>. QED
    BY <2>1, <2>3, <2>7
<1>3. size \in Nat
  BY DEF DbInv, Typed
<1>4. p < size => p \in Offset
  BY <1>3
<1>5. LookupExact'
  BY <1>1, <1>2, <1>4 DEF LookupExact, Answered, Holds
<1>. QED
  BY <1>5 DEF DbInv, Typed, Increasing, EntriesRight, FirstSampled, IntervalEncloses

LEMMA DbInductive == DbInv /\ [Next]_vars => DbInv'
<1>. SUFFICES ASSUME DbInv, [Next]_vars
              PROVE  DbInv'
  OBVIOUS
<1>. USE DEF file
<1>1. CASE Open
  BY <1>1 DEF Open, query, DbInv, Typed, Increasing, EntriesRight, FirstSampled,
       IntervalEncloses, LookupExact, Answered
<1>2. CASE Sample
  <2>0. size \in Nat /\ i \in Nat /\ i < size /\ db[i] \in Key
    BY <1>2 DEF Sample, DbInv, Typed
  <2>1. EntriesRight' /\ DOMAIN index' = DOMAIN index \cup {db[i]}
    <3>1. i \in 0 .. size /\ (i = size => db[i] = db[size - 1]) /\ size > 0
      BY <2>0
    <3>2. Emplace(db[i], i) /\ size' = size /\ db' = db
      BY <1>2 DEF Sample
    <3>. QED
      BY <2>0, <3>1, <3>2, EmplaceRight DEF DbInv
  <2>2. Typed' /\ IntervalEncloses' /\ LookupExact'
    BY <1>2 DEF Sample, query, DbInv, Typed, Increasing, IntervalEncloses, LookupExact,
         Answered
  <2>3. FirstSampled'
    BY <1>2, <2>0, <2>1 DEF Sample, query, DbInv, FirstSampled
  <2>. QED
    BY <2>1, <2>2, <2>3 DEF DbInv
<1>3. CASE SampleLast
  <2>0. size \in Nat /\ size > 0 /\ i \in Nat /\ i >= size /\ db[size - 1] \in Key
    BY <1>3 DEF SampleLast, DbInv, Typed
  <2>1. EntriesRight' /\ DOMAIN index \subseteq DOMAIN index'
    <3>0. size \in 0 .. size /\ ~(size < size) /\ size' = size /\ db' = db
      BY <1>3, <2>0 DEF SampleLast
    <3>1. CASE Emplace(db[size - 1], size)
      <4>1. EntriesRight' /\ DOMAIN index' = DOMAIN index \cup {db[size - 1]}
        BY <2>0, <3>0, <3>1, EmplaceRight, Zenon DEF DbInv
      <4>. QED
        BY <4>1
    <3>2. CASE UNCHANGED index
      BY <1>3, <3>2 DEF SampleLast, DbInv, EntriesRight
    <3>. QED
      BY <1>3, <3>1, <3>2 DEF SampleLast
  <2>2. Typed' /\ IntervalEncloses'
    BY <1>3 DEF SampleLast, query, DbInv, Typed, Increasing, IntervalEncloses
  <2>3. FirstSampled'
    BY <1>3, <2>0, <2>1 DEF SampleLast, DbInv, FirstSampled
  <2>4. LookupExact'
    BY <1>3 DEF SampleLast, query, DbInv, FirstSampled, LookupExact, Answered
  <2>. QED
    BY <2>1, <2>2, <2>3, <2>4 DEF DbInv
<1>4. CASE Underrun
  BY <1>4 DEF Underrun, query, DbInv, Typed, Increasing, EntriesRight, FirstSampled,
       IntervalEncloses, LookupExact, Answered
<1>5. ASSUME NEW request \in Request, NEW number \in Key, onRequest(request, number)
      PROVE  DbInv'
  BY <1>5 DEF onRequest, Parsed, Request, DbInv, Typed, Increasing, EntriesRight,
       FirstSampled, IntervalEncloses, LookupExact, Answered
<1>6. CASE OutOfBounds
  BY <1>6 DEF OutOfBounds, DbInv, Typed, Increasing, EntriesRight,
       FirstSampled, IntervalEncloses, LookupExact, Answered, Holds
<1>7. CASE HitEnd
  BY <1>7 DEF HitEnd, DbInv, Typed, Increasing, EntriesRight, FirstSampled,
       IntervalEncloses, LookupExact, Answered
<1>8. CASE SearchOutside
  BY <1>8 DEF SearchOutside, DbInv, Typed, Increasing, EntriesRight, FirstSampled,
       IntervalEncloses, LookupExact, Answered
<1>9. CASE UNCHANGED vars
  BY <1>9 DEF vars, query, DbInv, Typed, Increasing, EntriesRight, FirstSampled,
       IntervalEncloses, LookupExact, Answered, Holds
<1>. QED
  BY <1>1, <1>2, <1>3, <1>4, <1>5, <1>6, <1>7, <1>8, <1>9, LocateEncloses,
     SearchExact DEF Next, Stopped

\* For every sorted file and every sampling distance, a key below the greatest
\* indexed one is found exactly if the file holds it, by reads inside the file.
THEOREM DbLookupExact == Spec => []LookupExact
<1>1. DbInv => LookupExact
  BY DEF DbInv
<1>. QED
  BY <1>1, DbInitially, DbInductive, PTL DEF Spec

-----------------------------------------------------------------------------
(* The types, and the records that are missed. *)

LEMMA DbAlways == Spec => []DbInv
BY DbInitially, DbInductive, PTL DEF Spec

\* Every step keeps the file, and the numbers stay in their ranges.
Ranged ==
  /\ size \in 0 .. MaxRecords /\ torn \in BOOLEAN
  /\ i \in 0 .. MaxRecords + Step
  /\ pc \in {"open", "build", "ready", "locate", "search", "failed", "undefined"}
  /\ start \in 0 .. size + 1 /\ end \in 0 .. size + 1
  /\ status \in {"none", "nokey", "404", "200"}
  /\ record \in 0 .. size

LEMMA RangedKept == DbInv /\ Ranged /\ [Next]_vars => Ranged'
<1>. SUFFICES ASSUME DbInv, Ranged, [Next]_vars PROVE Ranged'
  OBVIOUS
<1>. USE DEF file, query, Ranged
<1>1. CASE Open \/ SampleLast \/ Underrun \/ OutOfBounds \/ SearchOutside
  BY <1>1 DEF Open, SampleLast, Underrun, OutOfBounds, SearchOutside
<1>2. CASE Sample
  BY <1>2 DEF Sample
<1>3. ASSUME NEW request \in Request, NEW number \in Key, onRequest(request, number)
      PROVE  Ranged'
  BY <1>3 DEF onRequest
<1>4. CASE HitEnd
  BY <1>4 DEF HitEnd
<1>5. CASE Locate
  <2>1. \A k \in DOMAIN index : index[k] \in 0 .. size
    BY DEF DbInv, EntriesRight
  <2>. QED
    BY <1>5, <2>1 DEF Locate
<1>6. CASE Search
  BY <1>6 DEF Search
<1>7. CASE UNCHANGED vars
  BY <1>7 DEF vars
<1>. QED
  BY <1>1, <1>2, <1>3, <1>4, <1>5, <1>6, <1>7 DEF Next, Stopped

\* Offsets, intervals and the entries of the index stay inside the file, or are
\* the one value that stands for what lies outside, for every file.
THEOREM DbTyped == Spec => []DbTypeOK
<1>1. Init => Ranged
  BY DEF Init, Ranged
<1>2. DbInv /\ Ranged => DbTypeOK
  BY DEF DbInv, Typed, EntriesRight, Ranged, DbTypeOK
<1>. QED
  BY <1>1, <1>2, DbAlways, RangedKept, PTL DEF Spec

-----------------------------------------------------------------------------
(* The records that are missed. *)

\* The multiple of s below m, and nothing else, is at most m and within s of it.
LEMMA Multiple ==
  ASSUME NEW s \in Nat \ {0}, NEW m \in Nat
  PROVE  /\ m \div s \in Nat
         /\ s * (m \div s) \in Nat
         /\ s * (m \div s) <= m /\ m < (s * (m \div s)) + s
<1>1. /\ m \div s \in Nat /\ m % s \in 0 .. s - 1
      /\ m = (s * (m \div s)) + (m % s)
  OBVIOUS
<1>2. PICK d \in Nat, r \in 0 .. s - 1 : d = m \div s /\ r = m % s
  BY <1>1
<1>3. s * d \in Nat
  OBVIOUS
<1>. QED
  BY <1>1, <1>2, <1>3

LEMMA SameMultiple ==
  ASSUME NEW s \in Nat \ {0}, NEW n \in Nat, NEW l \in Nat,
         s * n <= s * l, s * l < (s * n) + s
  PROVE  n = l
<1>1. CASE n < l
  <2>1. PICK e \in Nat : l = n + 1 + e
    <3>1. l - n - 1 \in Nat /\ l = n + 1 + (l - n - 1)
      BY <1>1
    <3>. QED
      BY <3>1
  <2>2. s * l = (s * n) + s + (s * e) /\ s * e \in Nat /\ s * n \in Nat /\ s * l \in Nat
    BY <2>1
  <2>. QED
    BY <2>2
<1>2. CASE l < n
  <2>1. PICK e \in Nat : n = l + 1 + e
    <3>1. n - l - 1 \in Nat /\ n = l + 1 + (n - l - 1)
      BY <1>2
    <3>. QED
      BY <3>1
  <2>2. s * n = (s * l) + s + (s * e) /\ s * e \in Nat /\ s * n \in Nat /\ s * l \in Nat
    BY <2>1
  <2>. QED
    BY <2>2
<1>. QED
  BY <1>1, <1>2

\* The offset of the last sample.
LastSample == Step * ((size - 1) \div Step)

LEMMA LastSampleBounds ==
  ASSUME size \in Nat, size > 0
  PROVE  /\ (size - 1) \div Step \in Nat
         /\ LastSample \in Nat /\ LastSample < size /\ LastSample \in Offset
<1>1. PICK m \in Nat : m = size - 1
  OBVIOUS
<1>2. /\ m \div Step \in Nat /\ Step * (m \div Step) \in Nat
      /\ Step * (m \div Step) <= m
  BY Multiple
<1>. QED
  BY <1>1, <1>2 DEF LastSample

\* Samples lie at the multiples of Step.  Once the index is built past the last
\* of them, its key is in the index, and so is the greatest key of the file if
\* it is no multiple of Step.
Tail ==
  /\ \E n \in Nat : i = Step * n
  /\ pc = "build" /\ size > 0 /\ LastSample < i => db[LastSample] \in DOMAIN index
  /\ pc \in {"ready", "locate", "search"} =>
       /\ db[LastSample] \in DOMAIN index
       /\ db[size - 1] % Step # 0 => db[size - 1] \in DOMAIN index

LEMMA TailKept == DbInv /\ Tail /\ [Next]_vars => Tail'
<1>. SUFFICES ASSUME DbInv, Tail, [Next]_vars PROVE Tail'
  OBVIOUS
<1>. USE DEF file, query
<1>0. size \in Nat /\ i \in Nat
  BY DEF DbInv, Typed
<1>1. CASE Open
  <2>1. i = 0
    BY <1>1 DEF Open, DbInv, FirstSampled
  <2>2. size > 0 => LastSample \in Nat
    BY <1>0, LastSampleBounds
  <2>3. LastSample' = LastSample
    BY <1>1 DEF Open, LastSample
  <2>. QED
    BY <1>1, <2>1, <2>2, <2>3 DEF Open, Tail
<1>2. CASE Sample
  <2>. USE <1>2 DEF Sample
  <2>1. PICK n \in Nat : i = Step * n
    BY DEF Tail
  <2>2. i' = Step * (n + 1) /\ n + 1 \in Nat
    BY <2>1
  <2>3. size > 0 /\ LastSample' = LastSample
    BY <1>0 DEF LastSample
  <2>4. DOMAIN index' = DOMAIN index \cup {db[i]}
    BY DEF Emplace
  <2>5. ASSUME LastSample < i'
        PROVE  db[LastSample] \in DOMAIN index'
    <3>1. CASE LastSample < i
      BY <3>1, <2>3, <2>4 DEF Tail
    <3>2. CASE ~(LastSample < i)
      <4>1. PICK l \in Nat : l = (size - 1) \div Step
        BY <1>0, <2>3, LastSampleBounds
      <4>2. LastSample = Step * l /\ LastSample \in Nat
        BY <4>1, <1>0, <2>3, LastSampleBounds DEF LastSample
      <4>3. Step * n <= Step * l /\ Step * l < (Step * n) + Step
        BY <4>2, <3>2, <2>5, <2>1, <1>0
      <4>4. n = l
        BY <4>3, SameMultiple
      <4>. QED
        BY <4>4, <4>2, <2>1, <2>4
    <3>. QED
      BY <3>1, <3>2
  <2>. QED
    BY <2>2, <2>3, <2>5 DEF Tail
<1>3. CASE SampleLast
  <2>. USE <1>3 DEF SampleLast
  <2>1. size > 0 /\ LastSample < i /\ LastSample' = LastSample
    BY <1>0, LastSampleBounds DEF LastSample
  <2>2. db[LastSample] \in DOMAIN index
    BY <2>1 DEF Tail
  <2>3. DOMAIN index \subseteq DOMAIN index'
    BY DEF Emplace
  <2>4. db[size - 1] % Step # 0 => db[size - 1] \in DOMAIN index'
    BY DEF Emplace
  <2>. QED
    BY <2>1, <2>2, <2>3, <2>4 DEF Tail
<1>4. CASE UNCHANGED <<file, index, i>> /\ pc' \notin {"build"}
           /\ (pc \in {"ready", "locate", "search"} \/ pc' \notin {"ready", "locate", "search"})
  BY <1>4 DEF Tail, LastSample
<1>5. CASE UNCHANGED vars
  BY <1>5 DEF vars, Tail, LastSample
<1>6. ASSUME NEW request \in Request, NEW number \in Key, onRequest(request, number)
      PROVE  Tail'
  BY <1>4, <1>6 DEF onRequest
<1>. QED
  BY <1>1, <1>2, <1>3, <1>4, <1>5, <1>6 DEF Next, Underrun, OutOfBounds, HitEnd, Locate,
     Search, SearchOutside, Stopped

\* For every sorted file and every sampling distance, the only records that are
\* in the file and answered with 404 are the last one and, if the greatest key is
\* a multiple of the distance, those from the last sample on: the price of an
\* upper bound that the index may not have.
THEOREM DbMissesOnlyTail == Spec => []MissesOnlyTail
<1>1. Init => Tail
  <2>1. ASSUME Init PROVE 0 \in Nat /\ i = Step * 0 /\ pc = "open"
    BY <2>1 DEF Init
  <2>. QED
    BY <2>1 DEF Tail
<1>2. ASSUME DbInv, Tail PROVE MissesOnlyTail
  <2>. SUFFICES ASSUME Answered, Holds(key), status = "404",
                       ~(db[size - 1] % Step = 0 /\ key >= db[LastSample])
                PROVE  key = db[size - 1]
    BY DEF MissesOnlyTail, LastSample
  <2>1. /\ size \in Nat /\ size > 0 /\ key \in Nat
        /\ \A p \in Offset : db[p] \in Nat
        /\ size - 1 \in Offset
    BY <1>2 DEF DbInv, Typed, FirstSampled, Answered
  <2>2. \A b \in DOMAIN index : b \in Nat /\ b <= key
    <3>1. \A b \in DOMAIN index : ~(key < b)
      BY <1>2 DEF DbInv, LookupExact
    <3>. QED
      BY <1>2, <2>1, <3>1 DEF DbInv, EntriesRight
  <2>3. db[LastSample] \in DOMAIN index
    BY <1>2 DEF Tail, Answered
  <2>4. db[size - 1] % Step # 0
    BY <2>2, <2>3, <2>1
  <2>5. db[size - 1] <= key
    BY <1>2, <2>2, <2>4 DEF Tail, Answered
  <2>6. PICK p \in Offset : db[p] = key
    BY DEF Holds
  <2>7. ~(db[size - 1] < db[p])
    BY <1>2, <2>1, SortedOrder DEF DbInv
  <2>. QED
    BY <2>1, <2>5, <2>6, <2>7
<1>. QED
  BY <1>1, <1>2, DbAlways, TailKept, PTL DEF Spec

=============================================================================
