------------------------------ MODULE DbServer ------------------------------
(***************************************************************************)
(* file::DbServer: a file of records sorted by key, mapped to memory       *)
(* (MmapFile, MmapArray), a sparse index of it (Index) and the request     *)
(* handler that looks a key up through the index.  Nothing is written once *)
(* the index is built, so one query at a time stands for those of all the  *)
(* worker threads.                                                         *)
(*                                                                         *)
(* The index holds every Step-th key with its offset and, if the greatest  *)
(* key is no multiple of Step, that key with the file's size.  Reads       *)
(* outside the mapping or of the map's end() have no defined outcome.      *)
(***************************************************************************)
EXTENDS Integers

CONSTANTS
  Step,        \* distance of the sampled records
  MaxRecords,  \* bound on the records of the file
  MaxKey       \* the greatest value of the key's type

ASSUME StepAssumption == Step \in Nat \ {0}
ASSUME SizesAssumption == MaxRecords \in Nat /\ MaxKey \in Nat

VARIABLES
  size,      \* complete records in the file
  torn,      \* bytes of an incomplete record follow them
  db,        \* the key at each offset
  index,     \* Index::index, a function on the keys it holds
  i,         \* the offset the index is built up to
  pc,        \* where the server is
  key,       \* the key that is looked up
  start, end,\* the interval that getInterval returned
  status,    \* the last response: "200", "404", "nokey" for a 404 without lookup,
             \* or none yet
  record     \* the offset whose data a 200 carries

file == <<size, torn, db>>
query == <<key, start, end, status, record>>
vars == <<file, index, i, pc, query>>

Key == 0 .. MaxKey
Offset == 0 .. size - 1

\* The parameters of a request: a number, a text that is not one, a number too
\* great for the type, an empty text, or not exactly one parameter named "key".
Request == {"number", "text", "huge", "empty", "nokey"}

Increasing(f) == \A p, q \in Offset : p < q => f[p] < f[q]

DbTypeOK ==
  /\ size \in 0 .. MaxRecords /\ torn \in BOOLEAN
  /\ db \in [Offset -> Key]
  /\ \A k \in DOMAIN index : k \in Key /\ index[k] \in 0 .. size
  /\ i \in 0 .. MaxRecords + Step
  /\ pc \in {"open", "build", "ready", "locate", "search", "failed", "undefined"}
  /\ key \in Key
  /\ start \in 0 .. size + 1 /\ end \in 0 .. size + 1
  /\ status \in {"none", "nokey", "404", "200"}
  /\ record \in 0 .. size

Init ==
  /\ size \in 0 .. MaxRecords /\ torn \in BOOLEAN
  /\ db \in [Offset -> Key] /\ Increasing(db)
  /\ index = << >>
  /\ i = 0
  /\ pc = "open"
  /\ key = 0 /\ start = 0 /\ end = 0 /\ status = "none" /\ record = 0

-----------------------------------------------------------------------------
(* The constructors. *)

\* MmapFile: mmap refuses a length of zero, which the constructor reports.
Open ==
  /\ pc = "open"
  /\ pc' = IF size = 0 /\ ~torn THEN "failed" ELSE "build"
  /\ UNCHANGED <<file, index, i, query>>

\* std::map::emplace keeps the entry of a key that is there.
Emplace(k, offset) ==
  index' = [x \in DOMAIN index \cup {k} |->
              IF x \in DOMAIN index THEN index[x] ELSE offset]

\* Faulty variant: counts offsets from one.
SampleShifted ==
  /\ pc = "build"
  /\ i < size
  /\ Emplace(db[i], i + 1)
  /\ i' = i + Step
  /\ UNCHANGED <<file, pc, query>>

Sample ==
  /\ pc = "build"
  /\ i < size
  /\ Emplace(db[i], i)
  /\ i' = i + Step
  /\ UNCHANGED <<file, pc, query>>

\* Faulty variant: enters the end of the file as one past its size.
SampleLastPast ==
  /\ pc = "build"
  /\ i >= size /\ size > 0
  /\ Emplace(db[size - 1], size + 1)
  /\ pc' = "ready"
  /\ UNCHANGED <<file, i, query>>

\* Faulty variant: no entry for the greatest key.
SampleLastNot ==
  /\ pc = "build"
  /\ i >= size /\ size > 0
  /\ pc' = "ready"
  /\ UNCHANGED <<file, index, i, query>>

\* The entry for the greatest key, which depends on the key and not on its
\* offset.
SampleLast ==
  /\ pc = "build"
  /\ i >= size /\ size > 0
  /\ IF db[size - 1] % Step # 0 THEN Emplace(db[size - 1], size)
                                ELSE UNCHANGED index
  /\ pc' = "ready"
  /\ UNCHANGED <<file, i, query>>

\* Without a record, std::prev(db.end()) lies before the mapping.
Underrun ==
  /\ pc = "build"
  /\ size = 0
  /\ pc' = "undefined"
  /\ UNCHANGED <<file, index, i, query>>

-----------------------------------------------------------------------------
(* onRequest *)

\* iss >> key: zero for a text that is no number, the greatest value for a
\* number that is too great.  Extraction from an empty text does not touch the
\* uninitialised key, and none of them throws.
Parsed(request, number) ==
  CASE request = "number" -> {number}
    [] request = "text" -> {0}
    [] request = "huge" -> {MaxKey}
    [] request = "empty" -> Key

onRequest(request, number) ==
  /\ pc = "ready"
  /\ IF request = "nokey"
     THEN status' = "nokey" /\ UNCHANGED <<key, pc>>
     ELSE key' \in Parsed(request, number) /\ status' = "none" /\ pc' = "locate"
  /\ UNCHANGED <<file, index, i, start, end, record>>

\* index.upper_bound(k), if there is one.
UpperBound(b, k) ==
  /\ b \in DOMAIN index /\ k < b
  /\ \A c \in DOMAIN index : k < c => b <= c

\* std::prev of entry b.
Prev(a, b) ==
  /\ a \in DOMAIN index /\ a < b
  /\ \A c \in DOMAIN index : c < b => c <= a

\* getInterval for a key below or above all keys of the index.
OutOfBounds ==
  /\ pc = "locate"
  /\ \/ \A k \in DOMAIN index : key < k
     \/ \A k \in DOMAIN index : key > k
  /\ status' = "404"
  /\ pc' = "ready"
  /\ UNCHANGED <<file, index, i, key, start, end, record>>

\* getInterval for the greatest key of the index: it reads end()->second, which
\* may be any number.  size + 1 stands for all that lie outside the file.
HitEnd ==
  /\ pc = "locate"
  /\ key \in DOMAIN index /\ \A k \in DOMAIN index : k <= key
  /\ start' \in 0 .. size + 1
  /\ end' = start'
  /\ pc' = "search"
  /\ UNCHANGED <<file, index, i, key, status, record>>

\* getInterval for a key that lies between two entries.
Locate ==
  /\ pc = "locate"
  /\ \E a, b \in DOMAIN index :
       /\ UpperBound(b, key) /\ Prev(a, b)
       /\ start' = index[a] /\ end' = index[b]
  /\ pc' = "search"
  /\ UNCHANGED <<file, index, i, key, status, record>>

\* std::lower_bound over the interval: the first offset whose key is not less.
LowerBound(p) ==
  /\ p \in start .. end
  /\ p < end => db[p] >= key
  /\ \A q \in start .. p - 1 : db[q] < key

\* getData: p is the end of the file, or its key is compared.
Search ==
  /\ pc = "search"
  /\ end <= size
  /\ \E p \in 0 .. size :
       /\ LowerBound(p)
       /\ record' = p
       /\ status' = IF p < size /\ db[p] = key THEN "200" ELSE "404"
  /\ pc' = "ready"
  /\ UNCHANGED <<file, index, i, key, start, end>>

\* An iterator outside the mapping is dereferenced, or happens to be npos.
SearchOutside ==
  /\ pc = "search"
  /\ end > size
  /\ \/ status' = "404" /\ pc' = "ready"
     \/ pc' = "undefined" /\ UNCHANGED status
  /\ UNCHANGED <<file, index, i, key, start, end, record>>

Stopped == pc \in {"failed", "undefined"} /\ UNCHANGED vars

Next ==
  \/ Open \/ Sample \/ SampleLast \/ Underrun
  \/ \E request \in Request, number \in Key : onRequest(request, number)
  \/ OutOfBounds \/ HitEnd \/ Locate \/ Search \/ SearchOutside
  \/ Stopped

Spec == Init /\ [][Next]_vars

-----------------------------------------------------------------------------
Answered == pc = "ready" /\ status \in {"200", "404"}
Holds(k) == \E p \in Offset : db[p] = k

\* Looking up a key below the greatest one in the index never leaves the mapped
\* file, and finds the key exactly if the file holds it, wherever it lies
\* between the sampled records.
LookupExact ==
  (\E b \in DOMAIN index : key < b) =>
    /\ pc # "undefined"
    /\ Answered =>
         IF Holds(key) THEN status = "200" /\ record \in Offset /\ db[record] = key
                       ELSE status = "404"

\* The records that getInterval misses although the file holds them: the last
\* one, and, if the greatest key happens to be a multiple of Step, those from the
\* last sample on.  No other key that is in the file is answered with 404.
MissesOnlyTail ==
  Answered /\ Holds(key) /\ status = "404" =>
    \/ key = db[size - 1]
    \/ db[size - 1] % Step = 0 /\ key >= db[Step * ((size - 1) \div Step)]

=============================================================================
