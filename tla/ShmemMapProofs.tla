--------------------------- MODULE ShmemMapProofs ---------------------------
(***************************************************************************)
(* BlocksDisjoint for any number of processes, killed or not, and any      *)
(* sizes.  The argument has two halves.  Control says that at most one     *)
(* process is between sem_wait and sem_post of each semaphore, that the    *)
(* tree a process goes on from is the one it searched, and that a block    *)
(* about to be linked or freed is its own.  Memory restates disjointness   *)
(* by kind of holder, which is what each step is checked against.          *)
(* On the same invariant rests the refinement of SharedMap: a call takes   *)
(* effect on the map at one step, while it alone holds the map's mutex,    *)
(* and what it returns is what the map held then (Results).                *)
(***************************************************************************)
EXTENDS ShmemMap, TLAPS

AnyBlock == [at : Nat, n : Nat \ {0}]

Typed ==
  /\ start \in Nat
  /\ mtx \in Nat /\ mutex \in Nat
  /\ \A k \in DOMAIN map : map[k].at \in Nat
  /\ pc \in [Proc -> Point]
  /\ call = [p \in Proc |-> call[p]]
  /\ seen = [p \in Proc |-> seen[p]]
  /\ block \in [Proc -> AnyBlock]
  /\ owned \in [Proc -> SUBSET AnyBlock]

\* Which calls a process can be in where it is.
Placed ==
  \A p \in Proc :
    /\ pc[p] \in {"lock", "find", "link", "unlock"} => MapCall(p)
    /\ pc[p] = "idle" => ~MapCall(p)
    /\ pc[p] = "link" => call[p].name = "insert_or_assign"
    /\ pc[p] \in {"wait", "fit", "bump", "lower", "post"} => call[p].name # "at"
    /\ pc[p] \in {"fit", "bump"} => ~Frees(p)
    /\ pc[p] = "lower" => Frees(p)

InAlloc(p) == pc[p] \in {"fit", "bump", "lower", "post"}
InMap(p) == MapCall(p) /\ pc[p] \notin {"lock", "dead"}

\* The semaphores exclude.
Excluded ==
  /\ mtx \in {0, 1} /\ mutex \in {0, 1}
  /\ \A p \in Proc : InAlloc(p) => mtx = 0
  /\ \A p, q \in Proc : InAlloc(p) /\ InAlloc(q) => p = q
  /\ \A p \in Proc : InMap(p) => mutex = 0
  /\ \A p, q \in Proc : InMap(p) /\ InMap(q) => p = q

\* A new node goes into the tree that was searched for it.
SeenFresh ==
  \A p \in Proc :
    call[p].name = "insert_or_assign" /\ pc[p] \in {"wait", "fit", "bump", "post", "link"}
      => seen[p] = map /\ call[p].key \notin DOMAIN map /\ block[p].n = NodeSize

\* The block in hand is the topmost free one or the process's own.
BlockInHand ==
  \A p \in Proc :
    /\ pc[p] = "bump" => block[p].at = start
    /\ pc[p] \in {"wait", "lower"} /\ Frees(p) => block[p] \in owned[p]
    /\ pc[p] \in {"post", "link"} /\ call[p].name = "insert_or_assign"
         => block[p] \in owned[p]

Control == Typed /\ Placed /\ Excluded /\ SeenFresh /\ BlockInHand

Apart(a, m, b, n) == a + m <= b \/ b + n <= a
Below(a, n) == BaseSize <= a /\ a + n <= start

NodesBelow == \A k \in DOMAIN map : Below(map[k].at, NodeSize)
OwnedBelow == \A p \in Proc : \A b \in owned[p] : Below(b.at, b.n)
NodesApart ==
  \A k, l \in DOMAIN map : k # l => Apart(map[k].at, NodeSize, map[l].at, NodeSize)
OwnedNodesApart ==
  \A p \in Proc : \A b \in owned[p] : \A k \in DOMAIN map :
    Apart(b.at, b.n, map[k].at, NodeSize)
OwnedApart ==
  \A p, q \in Proc : \A b \in owned[p], c \in owned[q] :
    p # q \/ b # c => Apart(b.at, b.n, c.at, c.n)

BaseBelow == BaseSize <= start

Memory ==
  BaseBelow /\ NodesBelow /\ OwnedBelow /\ NodesApart /\ OwnedNodesApart /\ OwnedApart

MapInv == Control /\ Memory

USE SizesAssumption

LEMMA MapInitially == Init => MapInv
<1>. SUFFICES ASSUME Init PROVE MapInv
  OBVIOUS
<1>. USE DEF Init, MapInv
<1>1. Typed
  BY DEF Typed, NoBlock, AnyBlock, Point
<1>2. \A p \in Proc : pc[p] = "idle" /\ call[p].name = "none"
  BY DEF Idle
<1>3. Placed /\ Excluded /\ SeenFresh /\ BlockInHand
  BY <1>2 DEF Placed, Excluded, SeenFresh, BlockInHand, InAlloc, InMap, MapCall, Frees
<1>4. Memory
  BY DEF Memory, BaseBelow, NodesBelow, OwnedBelow, NodesApart, OwnedNodesApart, OwnedApart
<1>. QED
  BY <1>1, <1>3, <1>4 DEF Control

LEMMA CallNames ==
  ASSUME NEW c \in Call
  PROVE  c.name \in {"insert_or_assign", "erase", "at"}
BY DEF Call

\* Memory depends on the tree's addresses, the processes' blocks and the
\* allocator's pointer only.
LEMMA MemoryUnchanged ==
  ASSUME Memory, start' = start, owned' = owned, DOMAIN map' = DOMAIN map,
         \A k \in DOMAIN map : map'[k].at = map[k].at
  PROVE  Memory'
BY DEF Memory, BaseBelow, NodesBelow, OwnedBelow, NodesApart, OwnedNodesApart,
       OwnedApart, Below

\* allocate() hands out what nobody holds.
LEMMA BumpMemory ==
  ASSUME MapInv, NEW p \in Proc, Bump(p)
  PROVE  Memory'
<1>. DEFINE b0 == block[p]
<1>1. b0 \in AnyBlock /\ b0.at \in Nat /\ b0.n \in Nat \ {0} /\ b0.at = start
  BY DEF MapInv, Control, Typed, BlockInHand, Bump, AnyBlock
<1>2. /\ start \in Nat /\ start' = start + b0.n /\ map' = map
      /\ BaseSize <= start
  BY DEF MapInv, Control, Typed, Memory, BaseBelow, Bump
<1>3. \A q \in Proc : owned'[q] = IF q = p THEN owned[q] \cup {b0} ELSE owned[q]
  BY DEF MapInv, Control, Typed, Bump
<1>4. \A q \in Proc : \A b \in owned[q] : b.at \in Nat /\ b.n \in Nat \ {0}
  BY DEF MapInv, Control, Typed, AnyBlock
<1>5. \A k \in DOMAIN map : map[k].at \in Nat
  BY DEF MapInv, Control, Typed
<1>. HIDE DEF b0
<1>6. NodesBelow' /\ NodesApart'
  BY <1>1, <1>2, <1>5 DEF MapInv, Memory, NodesBelow, NodesApart, Below
<1>7. OwnedBelow'
  <2>. SUFFICES ASSUME NEW q \in Proc, NEW b \in owned'[q]
                PROVE  BaseSize <= b.at /\ b.at + b.n <= start'
    BY DEF OwnedBelow, Below
  <2>1. b = b0 \/ b \in owned[q]
    BY <1>3
  <2>2. CASE b = b0
    BY <2>2, <1>1, <1>2
  <2>3. CASE b \in owned[q]
    BY <2>3, <1>1, <1>2, <1>4 DEF MapInv, Memory, OwnedBelow, Below
  <2>. QED
    BY <2>1, <2>2, <2>3
<1>8. OwnedNodesApart'
  BY <1>1, <1>2, <1>3, <1>4, <1>5
     DEF MapInv, Memory, OwnedNodesApart, NodesBelow, Below, Apart
<1>9. OwnedApart'
  <2>. SUFFICES ASSUME NEW q \in Proc, NEW r \in Proc,
                       NEW b \in owned'[q], NEW c \in owned'[r], q # r \/ b # c
                PROVE  Apart(b.at, b.n, c.at, c.n)
    BY DEF OwnedApart
  <2>0. \A s \in Proc : \A d \in owned[s] : d.at + d.n <= b0.at
    BY <1>1 DEF MapInv, Memory, OwnedBelow, Below
  <2>1. CASE b \in owned[q] /\ c \in owned[r]
    BY <2>1 DEF MapInv, Memory, OwnedApart
  <2>2. CASE b = b0 /\ c \in owned[r]
    BY <2>0, <2>2 DEF Apart
  <2>3. CASE b \in owned[q] /\ c = b0
    BY <2>0, <2>3 DEF Apart
  <2>4. ~(b = b0 /\ q = p /\ c = b0 /\ r = p)
    OBVIOUS
  <2>5. (b \in owned[q] \/ (b = b0 /\ q = p)) /\ (c \in owned[r] \/ (c = b0 /\ r = p))
    BY <1>3
  <2>. QED
    BY <2>1, <2>2, <2>3, <2>4, <2>5
<1>. QED
  BY <1>1, <1>2, <1>6, <1>7, <1>8, <1>9 DEF Memory, BaseBelow

\* deallocate() takes back the topmost block only: all others lie below it.
LEMMA LowerMemory ==
  ASSUME MapInv, NEW p \in Proc, Lower(p)
  PROVE  Memory'
<1>. DEFINE b0 == block[p]
<1>1. b0 \in AnyBlock /\ b0.at \in Nat /\ b0.n \in Nat \ {0} /\ b0 \in owned[p]
  BY DEF MapInv, Control, Typed, Placed, BlockInHand, Lower, AnyBlock
<1>2. /\ start \in Nat /\ map' = map
      /\ start' = start \/ (start = b0.at + b0.n /\ start' = b0.at)
  BY DEF MapInv, Control, Typed, Lower
<1>3. \A q \in Proc : owned'[q] = IF q = p THEN owned[q] \ {b0} ELSE owned[q]
  BY DEF MapInv, Control, Typed, Lower
<1>4. \A q \in Proc : \A b \in owned[q] : b.at \in Nat /\ b.n \in Nat \ {0}
  BY DEF MapInv, Control, Typed, AnyBlock
<1>5. \A k \in DOMAIN map : map[k].at \in Nat
  BY DEF MapInv, Control, Typed
<1>. HIDE DEF b0
<1>6. NodesApart' /\ OwnedNodesApart' /\ OwnedApart'
  BY <1>2, <1>3 DEF MapInv, Memory, NodesApart, OwnedNodesApart, OwnedApart
<1>7. NodesBelow'
  BY <1>1, <1>2, <1>5 DEF MapInv, Memory, NodesBelow, OwnedNodesApart, Below, Apart
<1>8. OwnedBelow'
  <2>. SUFFICES ASSUME NEW q \in Proc, NEW b \in owned'[q]
                PROVE  BaseSize <= b.at /\ b.at + b.n <= start'
    BY DEF OwnedBelow, Below
  <2>1. b \in owned[q] /\ (q # p \/ b # b0)
    BY <1>3
  <2>2. BaseSize <= b.at /\ b.at + b.n <= start /\ b.at \in Nat /\ b.n \in Nat \ {0}
    BY <2>1, <1>4 DEF MapInv, Memory, OwnedBelow, Below
  <2>3. b.at + b.n <= b0.at \/ b0.at + b0.n <= b.at
    BY <2>1, <1>1 DEF MapInv, Memory, OwnedApart, Apart
  <2>. QED
    BY <2>2, <2>3, <1>1, <1>2
<1>9. BaseBelow'
  BY <1>1, <1>2 DEF MapInv, Memory, BaseBelow, OwnedBelow, Below
<1>. QED
  BY <1>6, <1>7, <1>8, <1>9 DEF Memory

\* erase() makes the node's memory a block of the process.
LEMMA EraseMemory ==
  ASSUME MapInv, NEW p \in Proc, FindErase(p)
  PROVE  Memory'
<1>. DEFINE k0 == call[p].key
            b0 == [at |-> map[k0].at, n |-> NodeSize]
<1>1. start' = start
  BY DEF FindErase
<1>2. CASE k0 \notin DOMAIN map
  BY <1>2, <1>1, MemoryUnchanged DEF FindErase, MapInv
<1>3. CASE k0 \in DOMAIN map
  <2>1. /\ DOMAIN map' = DOMAIN map \ {k0}
        /\ \A k \in DOMAIN map' : map'[k] = map[k]
    BY <1>3 DEF FindErase
  <2>2. \A q \in Proc : owned'[q] = IF q = p THEN owned[q] \cup {b0} ELSE owned[q]
    BY <1>3 DEF FindErase, MapInv, Control, Typed
  <2>3. b0.at = map[k0].at /\ b0.n = NodeSize
    OBVIOUS
  <2>. HIDE DEF b0
  <2>4. NodesBelow' /\ NodesApart'
    BY <1>1, <2>1 DEF MapInv, Memory, NodesBelow, NodesApart, Below
  <2>5. OwnedBelow'
    <3>. SUFFICES ASSUME NEW q \in Proc, NEW b \in owned'[q]
                  PROVE  BaseSize <= b.at /\ b.at + b.n <= start'
      BY DEF OwnedBelow, Below
    <3>1. b = b0 \/ b \in owned[q]
      BY <2>2
    <3>. QED
      BY <3>1, <1>1, <1>3, <2>3 DEF MapInv, Memory, NodesBelow, OwnedBelow, Below
  <2>6. OwnedNodesApart'
    <3>. SUFFICES ASSUME NEW q \in Proc, NEW b \in owned'[q], NEW k \in DOMAIN map'
                  PROVE  Apart(b.at, b.n, map'[k].at, NodeSize)
      BY DEF OwnedNodesApart
    <3>0. k \in DOMAIN map /\ k # k0 /\ map'[k] = map[k]
      BY <2>1
    <3>1. b = b0 \/ b \in owned[q]
      BY <2>2
    <3>2. CASE b = b0
      BY <3>0, <3>2, <1>3, <2>3 DEF MapInv, Memory, NodesApart
    <3>3. CASE b \in owned[q]
      BY <3>0, <3>3 DEF MapInv, Memory, OwnedNodesApart
    <3>. QED
      BY <3>1, <3>2, <3>3
  <2>7. OwnedApart'
    <3>. SUFFICES ASSUME NEW q \in Proc, NEW r \in Proc,
                         NEW b \in owned'[q], NEW c \in owned'[r], q # r \/ b # c
                  PROVE  Apart(b.at, b.n, c.at, c.n)
      BY DEF OwnedApart
    <3>0. \A s \in Proc : \A d \in owned[s] : Apart(d.at, d.n, b0.at, b0.n)
      BY <1>3, <2>3 DEF MapInv, Memory, OwnedNodesApart
    <3>1. CASE b \in owned[q] /\ c \in owned[r]
      BY <3>1 DEF MapInv, Memory, OwnedApart
    <3>2. CASE b = b0 /\ c \in owned[r]
      BY <3>0, <3>2 DEF Apart
    <3>3. CASE b \in owned[q] /\ c = b0
      BY <3>0, <3>3
    <3>5. (b \in owned[q] \/ (b = b0 /\ q = p)) /\ (c \in owned[r] \/ (c = b0 /\ r = p))
      BY <2>2
    <3>. QED
      BY <3>1, <3>2, <3>3, <3>5
  <2>. QED
    BY <1>1, <2>4, <2>5, <2>6, <2>7 DEF Memory, MapInv, BaseBelow
<1>. QED
  BY <1>2, <1>3

\* insert_or_assign() makes the process's block a node of the tree.
LEMMA LinkMemory ==
  ASSUME MapInv, NEW p \in Proc, Link(p)
  PROVE  Memory'
<1>. DEFINE k0 == call[p].key
            b0 == block[p]
<1>1. /\ seen[p] = map /\ k0 \notin DOMAIN map /\ b0.n = NodeSize
      /\ b0 \in owned[p] /\ start' = start
  BY DEF MapInv, Control, Placed, SeenFresh, BlockInHand, Link
<1>2. /\ DOMAIN map' = DOMAIN map \cup {k0}
      /\ \A k \in DOMAIN map : map'[k] = map[k]
      /\ map'[k0].at = b0.at
  BY <1>1 DEF Link
<1>3. \A q \in Proc : owned'[q] = IF q = p THEN owned[q] \ {b0} ELSE owned[q]
  BY DEF Link, MapInv, Control, Typed
<1>. HIDE DEF b0, k0
<1>4. NodesBelow'
  BY <1>1, <1>2 DEF MapInv, Memory, NodesBelow, OwnedBelow, Below
<1>5. OwnedBelow' /\ OwnedApart'
  BY <1>1, <1>3 DEF MapInv, Memory, OwnedBelow, OwnedApart, Below
<1>6. \A k \in DOMAIN map : Apart(b0.at, NodeSize, map[k].at, NodeSize)
  BY <1>1 DEF MapInv, Memory, OwnedNodesApart
<1>7. NodesApart'
  <2>. SUFFICES ASSUME NEW k \in DOMAIN map', NEW l \in DOMAIN map', k # l
                PROVE  Apart(map'[k].at, NodeSize, map'[l].at, NodeSize)
    BY DEF NodesApart
  <2>1. CASE k \in DOMAIN map /\ l \in DOMAIN map
    BY <2>1, <1>2 DEF MapInv, Memory, NodesApart
  <2>2. CASE k = k0 /\ l \in DOMAIN map
    BY <2>2, <1>2, <1>6
  <2>3. CASE k \in DOMAIN map /\ l = k0
    BY <2>3, <1>2, <1>6 DEF Apart
  <2>. QED
    BY <2>1, <2>2, <2>3, <1>2
<1>8. OwnedNodesApart'
  <2>. SUFFICES ASSUME NEW q \in Proc, NEW b \in owned'[q], NEW k \in DOMAIN map'
                PROVE  Apart(b.at, b.n, map'[k].at, NodeSize)
    BY DEF OwnedNodesApart
  <2>1. b \in owned[q] /\ (q # p \/ b # b0)
    BY <1>3
  <2>2. CASE k \in DOMAIN map
    BY <2>1, <2>2, <1>2 DEF MapInv, Memory, OwnedNodesApart
  <2>3. CASE k = k0
    BY <2>1, <2>3, <1>1, <1>2 DEF MapInv, Memory, OwnedApart
  <2>. QED
    BY <2>2, <2>3, <1>2
<1>. QED
  BY <1>1, <1>4, <1>5, <1>7, <1>8 DEF Memory, MapInv, BaseBelow

\* The steps that do not touch memory at all.
LEMMA OtherMemory ==
  ASSUME MapInv, NEW p \in Proc,
         \/ Begin(p) \/ Kill(p) \/ Lock(p) \/ FindInsert(p) \/ FindAt(p) \/ Unlock(p)
         \/ Wait(p) \/ Fit(p) \/ NoFit(p) \/ Post(p)
  PROVE  Memory'
<1>1. start' = start /\ owned' = owned
  BY DEF Begin, Invoke, InvokeAllocate, InvokeDeallocate, Kill, Lock, FindInsert,
       FindAt, Unlock, Wait, Fit, NoFit, Post
<1>2. /\ DOMAIN map' = DOMAIN map
      /\ \A k \in DOMAIN map : map'[k].at = map[k].at
  <2>1. CASE FindInsert(p)
    BY <2>1 DEF FindInsert
  <2>2. CASE map' = map
    BY <2>2
  <2>. QED
    BY <2>1, <2>2 DEF Begin, Invoke, InvokeAllocate, InvokeDeallocate, Kill, Lock,
         FindAt, Unlock, Wait, Fit, NoFit, Post
<1>. QED
  BY <1>1, <1>2, MemoryUnchanged DEF MapInv

LEMMA MemoryKept ==
  ASSUME MapInv, [Next]_vars
  PROVE  Memory'
<1>1. CASE UNCHANGED vars
  BY <1>1, MemoryUnchanged DEF vars, MapInv
<1>2. CASE Next
  BY <1>2, BumpMemory, LowerMemory, EraseMemory, LinkMemory, OtherMemory
     DEF Next, Continue
<1>. QED
  BY <1>1, <1>2

-----------------------------------------------------------------------------
(* Control *)

\* What the other processes have in hand is not touched by a step of p.
LEMMA TypedKept ==
  ASSUME Control, NEW p \in Proc, Continue(p) \/ Begin(p) \/ Kill(p)
  PROVE  Typed'
<1>. USE DEF Control, Typed, GoTo, Point
<1>1. CASE Begin(p)
  <2>1. CASE \E c \in Call : Invoke(p, c)
    BY <2>1 DEF Invoke
  <2>2. ASSUME NEW n \in OwnSizes, InvokeAllocate(p, n)
        PROVE  Typed'
    BY <2>2 DEF InvokeAllocate, AnyBlock
  <2>3. ASSUME NEW b \in owned[p], InvokeDeallocate(p, b)
        PROVE  Typed'
    BY <2>3 DEF InvokeDeallocate
  <2>. QED
    BY <1>1, <2>1, <2>2, <2>3 DEF Begin
<1>2. CASE Kill(p) \/ Lock(p) \/ FindAt(p) \/ Wait(p)
  BY <1>2 DEF Kill, Lock, FindAt, Wait
<1>3. CASE FindInsert(p)
  <2>1. block' \in [Proc -> AnyBlock]
    BY <1>3 DEF FindInsert, AnyBlock
  <2>2. \A k \in DOMAIN map' : map'[k].at \in Nat
    BY <1>3 DEF FindInsert
  <2>. QED
    BY <1>3, <2>1, <2>2 DEF FindInsert
<1>4. CASE FindErase(p)
  <2>1. call[p].key \in DOMAIN map =>
          [at |-> map[call[p].key].at, n |-> NodeSize] \in AnyBlock
    BY DEF AnyBlock
  <2>2. \A k \in DOMAIN map' : map'[k].at \in Nat
    BY <1>4 DEF FindErase
  <2>. HIDE DEF AnyBlock
  <2>3. block' \in [Proc -> AnyBlock] /\ owned' \in [Proc -> SUBSET AnyBlock]
    BY <1>4, <2>1 DEF FindErase
  <2>. QED
    BY <1>4, <2>2, <2>3 DEF FindErase
<1>5. CASE Link(p)
  BY <1>5 DEF Link, AnyBlock, SeenFresh, Placed
<1>6. CASE Unlock(p) \/ NoFit(p) \/ Post(p)
  <2>1. CASE UNCHANGED <<seen, call, block>>
    BY <1>6, <2>1 DEF Unlock, NoFit, Throw, Post, EndCall
  <2>2. CASE EndCall(p)
    <3>1. NoBlock \in AnyBlock
      BY DEF NoBlock, AnyBlock
    <3>2. /\ block' \in [Proc -> AnyBlock]
          /\ call' = [q \in Proc |-> call'[q]]
          /\ seen' = [q \in Proc |-> seen'[q]]
          /\ pc' \in [Proc -> Point]
      BY <2>2, <3>1 DEF EndCall
    <3>. QED
      BY <1>6, <3>2 DEF Unlock, NoFit, Post
  <2>. QED
    BY <1>6, <2>1, <2>2 DEF Unlock, NoFit, Throw, Post
<1>7. CASE Fit(p)
  BY <1>7 DEF Fit, AnyBlock
<1>8. CASE Bump(p)
  BY <1>8 DEF Bump, AnyBlock
<1>9. CASE Lower(p)
  BY <1>9 DEF Lower, AnyBlock
<1>. QED
  BY <1>1, <1>2, <1>3, <1>4, <1>5, <1>6, <1>7, <1>8, <1>9 DEF Continue

LEMMA OthersUntouched ==
  ASSUME Control, NEW p \in Proc, Continue(p) \/ Begin(p) \/ Kill(p),
         NEW q \in Proc, q # p
  PROVE  /\ pc'[q] = pc[q] /\ call'[q] = call[q] /\ seen'[q] = seen[q]
         /\ block'[q] = block[q] /\ owned'[q] = owned[q]
<1>. USE DEF Control, Typed, GoTo, EndCall
<1>1. CASE Begin(p) \/ Kill(p)
  BY <1>1 DEF Begin, Invoke, InvokeAllocate, InvokeDeallocate, Kill
<1>2. CASE Lock(p) \/ FindInsert(p) \/ FindErase(p) \/ FindAt(p)
  BY <1>2 DEF Lock, FindInsert, FindErase, FindAt
<1>3. CASE Link(p) \/ Unlock(p) \/ NoFit(p) \/ Post(p)
  BY <1>3 DEF Link, Unlock, NoFit, Throw, Post
<1>4. CASE Wait(p) \/ Fit(p) \/ Bump(p) \/ Lower(p)
  BY <1>4 DEF Wait, Fit, Bump, Lower
<1>. QED
  BY <1>1, <1>2, <1>3, <1>4 DEF Continue

\* Where a step takes the process that makes it, and what happens to the
\* semaphores, the allocator's pointer and the tree on the way.
Same(p) == call'[p] = call[p] /\ seen'[p] = seen[p]
Enters(p) ==
  /\ pc[p] = "idle" /\ UNCHANGED <<start, mtx, mutex, map>>
  /\ \/ pc'[p] = "lock" /\ call'[p].name \in {"insert_or_assign", "erase", "at"}
     \/ pc'[p] = "wait" /\ call'[p].name = "allocate"
     \/ /\ pc'[p] = "wait" /\ call'[p].name = "deallocate"
        /\ block'[p] \in owned'[p]
Leaves(p) == pc'[p] = "idle" /\ call'[p].name = "none"
Locks(p) ==
  /\ pc[p] = "lock" /\ pc'[p] = "find" /\ Same(p)
  /\ mutex > 0 /\ mutex' = mutex - 1 /\ UNCHANGED <<start, mtx, map>>
Finds(p) ==
  /\ pc[p] = "find" /\ call'[p] = call[p] /\ UNCHANGED <<start, mtx, mutex>>
  /\ \/ pc'[p] = "unlock"
     \/ /\ pc'[p] = "wait" /\ call[p].name = "insert_or_assign"
        /\ seen'[p] = map /\ map' = map /\ call[p].key \notin DOMAIN map
        /\ block'[p].n = NodeSize
     \/ pc'[p] = "wait" /\ call[p].name = "erase" /\ block'[p] \in owned'[p]
Links(p) ==
  /\ pc[p] = "link" /\ pc'[p] = "unlock" /\ call'[p] = call[p]
  /\ UNCHANGED <<start, mtx, mutex>>
Unlocks(p) ==
  /\ pc[p] = "unlock" /\ Leaves(p) /\ mutex' = mutex + 1
  /\ UNCHANGED <<start, mtx, map>>
Waits(p) ==
  /\ pc[p] = "wait" /\ Same(p) /\ pc'[p] = IF Frees(p) THEN "lower" ELSE "fit"
  /\ mtx > 0 /\ mtx' = mtx - 1 /\ UNCHANGED <<start, mutex, map>>
  /\ block'[p] = block[p] /\ owned'[p] = owned[p]
Fits(p) ==
  /\ pc[p] = "fit" /\ pc'[p] = "bump" /\ Same(p) /\ UNCHANGED <<start, mtx, mutex, map>>
  /\ block'[p].at = start /\ block'[p].n = block[p].n
Moves(p) ==
  /\ pc[p] \in {"bump", "lower"} /\ pc'[p] = "post" /\ Same(p)
  /\ UNCHANGED <<mtx, mutex, map>>
  /\ block'[p] = block[p] /\ (pc[p] = "bump" => block[p] \in owned'[p])
Posts(p) ==
  /\ pc[p] \in {"fit", "post"} /\ mtx' = mtx + 1 /\ UNCHANGED <<start, mutex, map>>
  /\ \/ ~MapCall(p) /\ Leaves(p)
     \/ /\ MapCall(p) /\ Same(p) /\ block'[p] = block[p] /\ owned'[p] = owned[p]
        /\ pc'[p] = "unlock" \/ (pc[p] = "post" /\ ~Frees(p) /\ pc'[p] = "link")
Dies(p) == pc'[p] = "dead" /\ UNCHANGED <<start, mtx, mutex, map>>

Step(p) ==
  \/ Enters(p) \/ Locks(p) \/ Finds(p) \/ Links(p) \/ Unlocks(p)
  \/ Waits(p) \/ Fits(p) \/ Moves(p) \/ Posts(p) \/ Dies(p)

LEMMA OwnStep ==
  ASSUME Control, NEW p \in Proc, Continue(p) \/ Begin(p) \/ Kill(p)
  PROVE  Step(p)
<1>. USE DEF Control, Typed, GoTo
<1>1. CASE Begin(p)
  <2>1. ASSUME NEW c \in Call, Invoke(p, c) PROVE Enters(p)
    BY <2>1, CallNames DEF Invoke, Enters
  <2>2. ASSUME NEW n \in OwnSizes, InvokeAllocate(p, n) PROVE Enters(p)
    BY <2>2 DEF InvokeAllocate, Enters, Allocating
  <2>3. ASSUME NEW b \in owned[p], InvokeDeallocate(p, b) PROVE Enters(p)
    BY <2>3 DEF InvokeDeallocate, Enters, Freeing
  <2>. QED
    BY <1>1, <2>1, <2>2, <2>3 DEF Begin, Step
<1>2. CASE Lock(p)
  BY <1>2 DEF Lock, Locks, Same, Step
<1>3. CASE FindInsert(p)
  <2>1. CASE call[p].key \in DOMAIN map
    BY <1>3, <2>1 DEF FindInsert, Finds, Step
  <2>2. CASE call[p].key \notin DOMAIN map
    <3>1. block'[p].n = NodeSize
      BY <1>3, <2>2 DEF FindInsert, AnyBlock
    <3>. QED
      BY <1>3, <2>2, <3>1 DEF FindInsert, Finds, Step
  <2>. QED
    BY <2>1, <2>2
<1>4. CASE FindErase(p)
  BY <1>4 DEF FindErase, Finds, Step
<1>5. CASE FindAt(p)
  BY <1>5 DEF FindAt, Finds, Step
<1>6. CASE Link(p)
  BY <1>6 DEF Link, Links, Step
<1>7. CASE Unlock(p)
  BY <1>7 DEF Unlock, EndCall, Idle, Leaves, Unlocks, Step
<1>8. CASE Wait(p)
  BY <1>8 DEF Wait, Same, Waits, Step
<1>9. CASE Fit(p)
  <2>1. block'[p].at = start /\ block'[p].n = block[p].n
    BY <1>9 DEF Fit, AnyBlock
  <2>. QED
    BY <1>9, <2>1 DEF Fit, Same, Fits, Step
<1>10. CASE NoFit(p)
  BY <1>10 DEF NoFit, Throw, EndCall, Idle, Leaves, Same, Posts, Step
<1>11. CASE Bump(p)
  BY <1>11 DEF Bump, Same, Moves, Step
<1>12. CASE Lower(p)
  BY <1>12 DEF Lower, Same, Moves, Step
<1>13. CASE Post(p)
  BY <1>13 DEF Post, EndCall, Idle, Leaves, Same, Posts, Step
<1>14. CASE Kill(p)
  BY <1>14 DEF Kill, Dies, Step
<1>. QED
  BY <1>1, <1>2, <1>3, <1>4, <1>5, <1>6, <1>7, <1>8, <1>9, <1>10, <1>11, <1>12,
     <1>13, <1>14 DEF Continue

LEMMA ControlKept ==
  ASSUME Control, NEW p \in Proc, Continue(p) \/ Begin(p) \/ Kill(p)
  PROVE  Control'
<1>1. Typed'
  BY TypedKept
<1>2. Step(p)
  BY OwnStep
<1>3. \A q \in Proc : q # p =>
        /\ pc'[q] = pc[q] /\ call'[q] = call[q] /\ seen'[q] = seen[q]
        /\ block'[q] = block[q] /\ owned'[q] = owned[q]
  BY OthersUntouched
<1>4. mtx \in Nat /\ mutex \in Nat
  BY DEF Control, Typed
<1>5. Placed'
  <2>1. \A q \in Proc : q # p => MapCall(q)' = MapCall(q) /\ Frees(q)' = Frees(q)
    BY <1>3 DEF MapCall, Frees
  <2>. SUFFICES ASSUME NEW q \in Proc
                PROVE  /\ pc'[q] \in {"lock", "find", "link", "unlock"} => MapCall(q)'
                       /\ pc'[q] = "idle" => ~MapCall(q)'
                       /\ pc'[q] = "link" => call'[q].name = "insert_or_assign"
                       /\ pc'[q] \in {"wait", "fit", "bump", "lower", "post"} =>
                            call'[q].name # "at"
                       /\ pc'[q] \in {"fit", "bump"} => ~Frees(q)'
                       /\ pc'[q] = "lower" => Frees(q)'
    BY DEF Placed
  <2>2. CASE q # p
    BY <1>3, <2>1, <2>2 DEF Control, Placed
  <2>3. CASE q = p
    BY <1>2, <2>3 DEF Control, Placed, MapCall, Frees, Step, Enters, Locks, Finds,
         Links, Unlocks, Waits, Fits, Moves, Posts, Dies, Same, Leaves
  <2>. QED
    BY <2>2, <2>3
<1>6. Excluded'
  <2>1. \A q \in Proc : q # p => InAlloc(q)' = InAlloc(q) /\ InMap(q)' = InMap(q)
    BY <1>3 DEF InAlloc, InMap, MapCall
  <2>2. \/ mtx' = mtx /\ (InAlloc(p)' => InAlloc(p))
        \/ mtx > 0 /\ mtx' = mtx - 1
        \/ mtx' = mtx + 1 /\ InAlloc(p) /\ ~InAlloc(p)'
    BY <1>2 DEF InAlloc, Step, Enters, Locks, Finds,
         Links, Unlocks, Waits, Fits, Moves, Posts, Dies, Same, Leaves
  <2>3. \/ mutex' = mutex /\ (InMap(p)' => InMap(p))
        \/ mutex > 0 /\ mutex' = mutex - 1
        \/ mutex' = mutex + 1 /\ InMap(p) /\ ~InMap(p)'
    BY <1>2 DEF Control, Placed, InMap, MapCall, Step, Enters, Locks, Finds,
         Links, Unlocks, Waits, Fits, Moves, Posts, Dies, Same, Leaves
  <2>. HIDE DEF InAlloc, InMap
  <2>4. /\ mtx' \in {0, 1}
        /\ \A q \in Proc : InAlloc(q)' => mtx' = 0
        /\ \A q, r \in Proc : InAlloc(q)' /\ InAlloc(r)' => q = r
    BY <2>1, <2>2 DEF Control, Excluded
  <2>5. /\ mutex' \in {0, 1}
        /\ \A q \in Proc : InMap(q)' => mutex' = 0
        /\ \A q, r \in Proc : InMap(q)' /\ InMap(r)' => q = r
    BY <2>1, <2>3 DEF Control, Excluded
  <2>. QED
    BY <2>4, <2>5 DEF Excluded
<1>7. SeenFresh'
  <2>. SUFFICES ASSUME NEW q \in Proc, call'[q].name = "insert_or_assign",
                       pc'[q] \in {"wait", "fit", "bump", "post", "link"}
                PROVE  /\ seen'[q] = map' /\ call'[q].key \notin DOMAIN map'
                       /\ block'[q].n = NodeSize
    BY DEF SeenFresh
  <2>1. CASE q # p
    <3>1. InMap(q)
      BY <1>3, <2>1 DEF InMap, MapCall
    <3>2. ~InMap(p)
      BY <2>1, <3>1 DEF Control, Excluded
    <3>3. map' = map
      BY <1>2, <3>2 DEF Control, Placed, InMap, Step, Enters, Locks, Finds,
         Links, Unlocks, Waits, Fits, Moves, Posts, Dies, Same, Leaves
    <3>. QED
      BY <1>3, <2>1, <3>3 DEF Control, SeenFresh
  <2>2. CASE q = p
    <3>1. CASE Finds(p)
      BY <2>2, <3>1 DEF Finds
    <3>2. CASE Waits(p) \/ Fits(p) \/ Moves(p) \/ Posts(p)
      <4>1. /\ call'[p] = call[p] /\ seen'[p] = seen[p] /\ map' = map
            /\ block'[p].n = block[p].n
            /\ pc[p] \in {"wait", "fit", "bump", "lower", "post"}
        BY <2>2, <3>2 DEF Waits, Fits, Moves, Posts, Same, Leaves
      <4>2. pc[p] # "lower"
        BY <2>2, <4>1 DEF Control, Placed, Frees
      <4>. QED
        BY <2>2, <4>1, <4>2 DEF Control, SeenFresh
    <3>. QED
      BY <1>2, <2>2, <3>1, <3>2
         DEF Step, Enters, Locks, Links, Unlocks, Dies, Leaves
  <2>. QED
    BY <2>1, <2>2
<1>8. BlockInHand'
  <2>. SUFFICES ASSUME NEW q \in Proc
                PROVE  /\ pc'[q] = "bump" => block'[q].at = start'
                       /\ pc'[q] \in {"wait", "lower"} /\ Frees(q)' =>
                            block'[q] \in owned'[q]
                       /\ pc'[q] \in {"post", "link"}
                            /\ call'[q].name = "insert_or_assign" =>
                            block'[q] \in owned'[q]
    BY DEF BlockInHand
  <2>1. CASE q # p
    <3>1. pc[q] = "bump" => start' = start
      <4>1. pc[q] = "bump" => ~InAlloc(p)
        BY <2>1 DEF Control, Excluded, InAlloc
      <4>. QED
        BY <1>2, <4>1 DEF InAlloc, Step, Enters, Locks, Finds,
         Links, Unlocks, Waits, Fits, Moves, Posts, Dies, Same, Leaves
    <3>. QED
      BY <1>3, <2>1, <3>1 DEF Control, BlockInHand, Frees
  <2>2. CASE q = p
    BY <1>2, <2>2 DEF Control, Placed, BlockInHand, MapCall, Frees, Step, Enters, Locks, Finds,
         Links, Unlocks, Waits, Fits, Moves, Posts, Dies, Same, Leaves
  <2>. QED
    BY <2>1, <2>2
<1>. QED
  BY <1>1, <1>5, <1>6, <1>7, <1>8 DEF Control

LEMMA MapInductive == MapInv /\ [Next]_vars => MapInv'
<1>. SUFFICES ASSUME MapInv, [Next]_vars
              PROVE  MapInv'
  OBVIOUS
<1>1. Memory'
  BY MemoryKept
<1>2. CASE Next
  BY <1>1, <1>2, ControlKept DEF Next, MapInv
<1>3. CASE UNCHANGED vars
  BY <1>1, <1>3 DEF vars, MapInv, Control, Typed, Placed, Excluded, SeenFresh,
       BlockInHand, InAlloc, InMap, MapCall, Frees
<1>. QED
  BY <1>2, <1>3

LEMMA MemoryMeansDisjoint == Memory => BlocksDisjoint
<1>. SUFFICES ASSUME Memory
              PROVE  BlocksDisjoint
  OBVIOUS
<1>. DEFINE NodeHeld(h) == \E k \in DOMAIN map :
                             h = [by |-> <<"node", k>>, at |-> map[k].at, n |-> NodeSize]
            ProcHeld(h) == \E p \in Proc : \E b \in owned[p] :
                             h = [by |-> <<"process", p>>, at |-> b.at, n |-> b.n]
<1>1. \A h \in Held : NodeHeld(h) \/ ProcHeld(h)
  BY DEF Held
<1>2. \A h \in Held : BaseSize <= h.at /\ h.at + h.n <= start
  BY <1>1 DEF Memory, NodesBelow, OwnedBelow, Below
<1>3. ASSUME NEW g \in Held, NEW h \in Held, g # h
      PROVE  g.at + g.n <= h.at \/ h.at + h.n <= g.at
  <2>1. CASE NodeHeld(g) /\ NodeHeld(h)
    BY <1>3, <2>1 DEF Memory, NodesApart, Apart
  <2>2. CASE ProcHeld(g) /\ NodeHeld(h)
    BY <2>2 DEF Memory, OwnedNodesApart, Apart
  <2>3. CASE NodeHeld(g) /\ ProcHeld(h)
    BY <2>3 DEF Memory, OwnedNodesApart, Apart
  <2>4. CASE ProcHeld(g) /\ ProcHeld(h)
    BY <1>3, <2>4 DEF Memory, OwnedApart, Apart
  <2>. QED
    BY <1>1, <2>1, <2>2, <2>3, <2>4
<1>. QED
  BY <1>2, <1>3 DEF BlocksDisjoint

\* However many processes use the region and whenever they are killed, no two
\* of them hold the same byte, and what allocate() will hand out next is free.
THEOREM ShmemBlocksDisjoint == Spec => []BlocksDisjoint
<1>1. MapInv => BlocksDisjoint
  BY MemoryMeansDisjoint DEF MapInv
<1>. QED
  BY <1>1, MapInitially, MapInductive, PTL DEF Spec

-----------------------------------------------------------------------------
(* A semaphore that is taken has a holder, and the processes never all wait. *)

AllAlive == \A p \in Proc : pc[p] # "dead"
SemaphoresHeld ==
  AllAlive => /\ mtx = 0 => \E p \in Proc : InAlloc(p)
              /\ mutex = 0 => \E p \in Proc : InMap(p)

\* The next step of the call that p is in is not a sem_wait that blocks.
CanGoOn(p) ==
  \/ pc[p] \in {"find", "link", "unlock", "fit", "bump", "lower", "post"}
  \/ pc[p] = "lock" /\ mutex > 0
  \/ pc[p] = "wait" /\ mtx > 0
OneGoesOn ==
  AllAlive /\ (\E p \in Proc : pc[p] # "idle") => \E p \in Proc : CanGoOn(p)

LEMMA SemaphoresHeldKept ==
  ASSUME Control, SemaphoresHeld, NEW p \in Proc, Continue(p) \/ Begin(p) \/ Kill(p)
  PROVE  SemaphoresHeld'
<1>. SUFFICES ASSUME AllAlive'
              PROVE  /\ mtx' = 0 => \E q \in Proc : InAlloc(q)'
                     /\ mutex' = 0 => \E q \in Proc : InMap(q)'
  BY DEF SemaphoresHeld
<1>1. Step(p)
  BY OwnStep
<1>2. \A q \in Proc : q # p => pc'[q] = pc[q] /\ call'[q] = call[q]
  BY OthersUntouched
<1>3. \A q \in Proc : q # p => InAlloc(q)' = InAlloc(q) /\ InMap(q)' = InMap(q)
  BY <1>2 DEF InAlloc, InMap, MapCall
<1>4. pc'[p] # "dead"
  BY DEF AllAlive
<1>5. pc[p] # "dead"
  BY <1>1, <1>4 DEF Step, Enters, Locks, Finds, Links, Unlocks, Waits, Fits, Moves, Posts, Dies
<1>6. AllAlive
  BY <1>2, <1>5 DEF AllAlive
<1>7. mtx \in {0, 1} /\ mutex \in {0, 1}
  BY DEF Control, Excluded
<1>8. \/ mtx' = mtx /\ (InAlloc(p) => InAlloc(p)')
      \/ InAlloc(p)'
      \/ mtx' = mtx + 1
  BY <1>1, <1>4 DEF InAlloc, Step, Enters, Locks, Finds, Links, Unlocks, Waits, Fits, Moves,
     Posts, Dies, Same, Leaves
<1>9. \/ mutex' = mutex /\ (InMap(p) => InMap(p)')
      \/ InMap(p)'
      \/ mutex' = mutex + 1
  BY <1>1, <1>4 DEF Control, Placed, InMap, MapCall, Step, Enters, Locks, Finds, Links, Unlocks,
     Waits, Fits, Moves, Posts, Dies, Same, Leaves
<1>. HIDE DEF InAlloc, InMap
<1>10. ASSUME mtx' = 0
       PROVE  \E q \in Proc : InAlloc(q)'
  BY <1>3, <1>6, <1>7, <1>8, <1>10 DEF SemaphoresHeld
<1>11. ASSUME mutex' = 0
       PROVE  \E q \in Proc : InMap(q)'
  BY <1>3, <1>6, <1>7, <1>9, <1>11 DEF SemaphoresHeld
<1>. QED
  BY <1>10, <1>11

LEMMA SemaphoresHeldNext == MapInv /\ SemaphoresHeld /\ [Next]_vars => SemaphoresHeld'
<1>1. ASSUME MapInv, SemaphoresHeld, UNCHANGED vars
      PROVE  SemaphoresHeld'
  BY <1>1 DEF vars, SemaphoresHeld, AllAlive, InAlloc, InMap, MapCall
<1>. QED
  BY <1>1, SemaphoresHeldKept DEF Next, MapInv

LEMMA HoldersGoOn == Control /\ SemaphoresHeld => OneGoesOn
<1>. SUFFICES ASSUME Control, SemaphoresHeld, AllAlive, NEW p \in Proc, pc[p] # "idle"
              PROVE  \E q \in Proc : CanGoOn(q)
  BY DEF OneGoesOn
<1>1. pc \in [Proc -> Point] /\ mtx \in {0, 1} /\ mutex \in {0, 1}
  BY DEF Control, Typed, Excluded
<1>2. CASE mtx = 0
  <2>1. PICK q \in Proc : InAlloc(q)
    BY <1>2 DEF SemaphoresHeld
  <2>. QED
    BY <2>1 DEF InAlloc, CanGoOn
<1>3. CASE mtx = 1 /\ mutex = 0
  <2>1. PICK q \in Proc : InMap(q)
    BY <1>3 DEF SemaphoresHeld
  <2>2. pc[q] \in Point \ {"lock", "dead", "idle"}
    BY <1>1, <2>1 DEF InMap, Control, Placed
  <2>. QED
    BY <1>3, <2>2 DEF Point, CanGoOn
<1>4. CASE mtx = 1 /\ mutex = 1
  <2>1. pc[p] \in Point \ {"idle", "dead"}
    BY <1>1 DEF AllAlive
  <2>. QED
    BY <1>4, <2>1 DEF Point, CanGoOn
<1>. QED
  BY <1>1, <1>2, <1>3, <1>4

\* As long as nobody is killed, a semaphore at zero has been taken by a process
\* that is still inside: no exception and no early return leaves it locked.
THEOREM ShmemSemaphoresHeld == Spec => []SemaphoresHeld
<1>1. Init => SemaphoresHeld
  BY DEF Init, SemaphoresHeld
<1>. QED
  BY <1>1, MapInitially, MapInductive, SemaphoresHeldNext, PTL DEF Spec

\* Two semaphores, taken one inside the other, and no deadlock: as long as nobody
\* is killed, whenever a process is in a call of the map or of the allocator the
\* next step of one of them does not wait.
THEOREM ShmemNoDeadlock == Spec => []OneGoesOn
<1>1. MapInv => Control
  BY DEF MapInv
<1>2. Spec => []MapInv
  BY MapInitially, MapInductive, PTL DEF Spec
<1>. QED
  BY <1>1, <1>2, HoldersGoOn, ShmemSemaphoresHeld, PTL

-----------------------------------------------------------------------------
(* The types. *)

\* A block that was found to fit still does when the pointer moves.
Shaped ==
  /\ ShmemTypeOK
  /\ \A p \in Proc : pc[p] = "bump" => start + block[p].n <= Size

LEMMA CallShape ==
  ASSUME NEW c \in Call \cup {Idle, Allocating, Freeing}
  PROVE  /\ c.name = "insert_or_assign" => c.key \in Keys /\ c.val \in Vals
         /\ c.name \in {"erase", "at"} => c.key \in Keys
BY DEF Call, Idle, Allocating, Freeing

LEMMA ShapedInitially == Init => Shaped
<1>. SUFFICES ASSUME Init PROVE Shaped
  OBVIOUS
<1>1. NoBlock \in Block
  BY DEF NoBlock, Block
<1>2. start \in BaseSize .. Size /\ mtx \in Nat /\ mutex \in Nat /\ DOMAIN map = {}
  BY DEF Init
<1>3. pc \in [Proc -> Point] /\ \A p \in Proc : pc[p] # "bump"
  BY DEF Init, Point
<1>4. \A p \in Proc : call[p] = Idle /\ block[p] = NoBlock /\ owned[p] = {}
  BY DEF Init
<1>. QED
  BY <1>1, <1>2, <1>3, <1>4 DEF Shaped, ShmemTypeOK

LEMMA ShapedKept ==
  ASSUME MapInv, Shaped, NEW p \in Proc, Continue(p) \/ Begin(p) \/ Kill(p)
  PROVE  Shaped'
<1>1. Control /\ Control' /\ Memory'
  <2>1. Control /\ Next
    BY DEF MapInv, Next
  <2>. QED
    BY <2>1, ControlKept, MemoryKept
<1>2. \A q \in Proc : q # p =>
        /\ pc'[q] = pc[q] /\ call'[q] = call[q] /\ block'[q] = block[q] /\ owned'[q] = owned[q]
  BY <1>1, OthersUntouched
<1>3. /\ start \in Nat /\ BaseSize <= start /\ start <= Size
      /\ \A k \in DOMAIN map : k \in Keys /\ map[k] \in Node
      /\ \A q \in Proc : /\ call[q] \in Call \cup {Idle, Allocating, Freeing}
                         /\ block[q] \in Block /\ owned[q] \subseteq Block
      /\ \A q \in Proc : pc[q] = "bump" => start + block[q].n <= Size
  BY DEF Shaped, ShmemTypeOK
<1>4. /\ block[p].at \in Nat /\ block[p].at <= Size /\ block[p].n \in OwnSizes \cup {NodeSize}
      /\ block[p].n \in Nat /\ block[p].n > 0
  <2>1. block[p].at \in 0 .. Size /\ block[p].n \in OwnSizes \cup {NodeSize}
    BY <1>3 DEF Block
  <2>2. \A n \in OwnSizes \cup {NodeSize} : n \in Nat /\ n > 0
    OBVIOUS
  <2>3. \A a \in 0 .. Size : a \in Nat /\ a <= Size
    OBVIOUS
  <2>. QED
    BY <2>1, <2>2, <2>3, Zenon
<1>5. start' \in Nat /\ BaseSize <= start' /\ pc' \in [Proc -> Point] /\ mtx' \in Nat /\ mutex' \in Nat
  BY <1>1 DEF Control, Typed, Memory, BaseBelow
<1>6. start' <= Size
  <2>1. CASE Bump(p)
    BY <1>3, <2>1 DEF Bump
  <2>2. CASE Lower(p)
    BY <1>3, <1>4, <2>2 DEF Lower
  <2>3. CASE start' = start
    BY <1>3, <2>3
  <2>. QED
    BY <2>1, <2>2, <2>3 DEF Continue, Begin, Kill, Invoke, InvokeAllocate, InvokeDeallocate, Lock,
         FindInsert, FindErase, FindAt, Link, Unlock, Wait, Fit, NoFit, Post
<1>7. \A k \in DOMAIN map' : k \in Keys /\ map'[k] \in Node
  <2>1. CASE FindInsert(p)
    <3>1. call[p].key \in Keys /\ call[p].val \in Vals
      BY <1>3, <2>1, CallShape DEF FindInsert
    <3>2. CASE call[p].key \in DOMAIN map
      <4>. DEFINE m == map[call[p].key]
                  nd == [at |-> m.at, val |-> call[p].val]
      <4>1. m \in Node
        BY <1>3, <3>2
      <4>2. nd \in Node
        BY <3>1, <4>1 DEF Node
      <4>3. map' = [map EXCEPT ![call[p].key] = nd]
        BY <2>1, <3>2 DEF FindInsert
      <4>. HIDE DEF nd
      <4>. QED
        BY <1>3, <4>2, <4>3
    <3>3. CASE call[p].key \notin DOMAIN map
      BY <1>3, <2>1, <3>3 DEF FindInsert
    <3>. QED
      BY <3>2, <3>3
  <2>2. CASE FindErase(p)
    BY <1>3, <2>2 DEF FindErase
  <2>3. CASE Link(p)
    <3>1. /\ seen[p] = map /\ call[p].name = "insert_or_assign"
      BY <1>1, <2>3 DEF Control, Placed, SeenFresh, Link
    <3>2. call[p].key \in Keys /\ call[p].val \in Vals
      BY <1>3, <3>1, CallShape
    <3>. DEFINE nd == [at |-> block[p].at, val |-> call[p].val]
    <3>3. nd \in Node
      BY <1>4, <3>2 DEF Node
    <3>4. map' = [x \in DOMAIN map \cup {call[p].key} |-> IF x = call[p].key THEN nd ELSE map[x]]
      BY <2>3, <3>1 DEF Link
    <3>. HIDE DEF nd
    <3>. QED
      BY <1>3, <3>2, <3>3, <3>4
  <2>4. CASE map' = map
    BY <1>3, <2>4
  <2>. QED
    BY <2>1, <2>2, <2>3, <2>4 DEF Continue, Begin, Kill, Invoke, InvokeAllocate, InvokeDeallocate,
         Lock, FindAt, Unlock, Wait, Fit, NoFit, Bump, Lower, Post
<1>8. call'[p] \in Call \cup {Idle, Allocating, Freeing}
  <2>1. call = [q \in Proc |-> call[q]]
    BY <1>1 DEF Control, Typed
  <2>2. \/ call'[p] = call[p]
        \/ call'[p] \in Call
        \/ call'[p] \in {Idle, Allocating, Freeing}
    BY <2>1 DEF Continue, Begin, Kill, Invoke, InvokeAllocate, InvokeDeallocate, Lock,
         FindInsert, FindErase, FindAt, Link, Unlock, Wait, Fit, NoFit, Throw, EndCall, Bump, Lower, Post
  <2>. QED
    BY <1>3, <2>2
<1>9. block'[p] \in Block
  <2>1. block \in [Proc -> AnyBlock] /\ NoBlock \in Block
    BY <1>1 DEF Control, Typed, NoBlock, Block
  <2>2. CASE \E n \in OwnSizes : InvokeAllocate(p, n)
    BY <1>3, <2>1, <2>2 DEF InvokeAllocate, Block
  <2>3. CASE \E b \in owned[p] : InvokeDeallocate(p, b)
    BY <1>3, <2>1, <2>3 DEF InvokeDeallocate
  <2>4. CASE FindInsert(p)
    BY <1>3, <2>1, <2>4 DEF FindInsert, Block
  <2>5. CASE FindErase(p)
    <3>1. call[p].key \in DOMAIN map => [at |-> map[call[p].key].at, n |-> NodeSize] \in Block
      BY <1>3 DEF Block, Node
    <3>. QED
      BY <1>3, <2>1, <2>5, <3>1 DEF FindErase
  <2>6. CASE Fit(p)
    BY <1>3, <2>1, <2>6 DEF Fit, Block
  <2>7. CASE block' = block \/ block' = [block EXCEPT ![p] = NoBlock]
    BY <1>3, <2>1, <2>7
  <2>. QED
    BY <2>2, <2>3, <2>4, <2>5, <2>6, <2>7 DEF Continue, Begin, Kill, Invoke, Lock, FindAt, Link,
         Unlock, Wait, NoFit, Throw, EndCall, Bump, Lower, Post
<1>10. owned'[p] \subseteq Block
  <2>1. owned \in [Proc -> SUBSET AnyBlock]
    BY <1>1 DEF Control, Typed
  <2>2. CASE FindErase(p)
    <3>1. call[p].key \in DOMAIN map => [at |-> map[call[p].key].at, n |-> NodeSize] \in Block
      BY <1>3 DEF Block, Node
    <3>. QED
      BY <1>3, <2>1, <2>2, <3>1 DEF FindErase
  <2>3. owned'[p] \subseteq owned[p] \cup {block[p]} \/ FindErase(p)
    BY <2>1 DEF Continue, Begin, Kill, Invoke, InvokeAllocate, InvokeDeallocate, Lock,
         FindInsert, FindAt, Link, Unlock, Wait, Fit, NoFit, Bump, Lower, Post
  <2>. QED
    BY <1>3, <2>2, <2>3
<1>11. ASSUME NEW q \in Proc, pc'[q] = "bump"
       PROVE  start' + block'[q].n <= Size
  <2>1. CASE q # p
    <3>1. pc[q] = "bump" /\ block'[q] = block[q]
      BY <1>2, <1>11, <2>1
    <3>2. ~InAlloc(p)
      BY <1>1, <2>1, <3>1 DEF Control, Excluded, InAlloc
    <3>3. start' = start
      BY <1>1, <3>2, OwnStep DEF InAlloc, Step, Enters, Locks, Finds, Links, Unlocks, Waits, Fits,
           Moves, Posts, Dies
    <3>. QED
      BY <1>3, <3>1, <3>3
  <2>2. CASE q = p
    <3>1. Fits(p)
      BY <1>1, <1>11, <2>2, OwnStep DEF Step, Enters, Locks, Finds, Links, Unlocks, Waits, Moves,
           Posts, Dies, Leaves
    <3>2. Fit(p)
      BY <1>1, <3>1 DEF Fits, Control, Typed, Continue, Begin, Kill, Invoke, InvokeAllocate,
           InvokeDeallocate, Lock, FindInsert, FindErase, FindAt, Link, Unlock, Wait, NoFit, Throw, EndCall,
           GoTo, Bump, Lower, Post
    <3>. QED
      BY <2>2, <3>1, <3>2 DEF Fits, Fit
  <2>. QED
    BY <2>1, <2>2
<1>12. \A q \in Proc : /\ call'[q] \in Call \cup {Idle, Allocating, Freeing}
                       /\ block'[q] \in Block /\ owned'[q] \subseteq Block
  BY <1>2, <1>3, <1>8, <1>9, <1>10
<1>. QED
  BY <1>5, <1>6, <1>7, <1>11, <1>12 DEF Shaped, ShmemTypeOK

LEMMA ShmemInvariant == Spec => [](MapInv /\ Shaped)
<1>1. MapInv /\ Shaped /\ [Next]_vars => MapInv' /\ Shaped'
  <2>. SUFFICES ASSUME MapInv, Shaped, [Next]_vars PROVE MapInv' /\ Shaped'
    OBVIOUS
  <2>1. CASE Next
    BY <2>1, MapInductive, ShapedKept DEF Next
  <2>2. CASE UNCHANGED vars
    BY <2>2, MapInductive DEF vars, Shaped, ShmemTypeOK
  <2>. QED
    BY <2>1, <2>2
<1>. QED
  BY <1>1, MapInitially, ShapedInitially, PTL DEF Spec

\* The allocator's pointer never leaves the region, and every node, block and call
\* is of its type, however many processes there are and whenever they are killed.
THEOREM ShmemTyped == Spec => []ShmemTypeOK
<1>1. Shaped => ShmemTypeOK
  BY DEF Shaped
<1>. QED
  BY <1>1, ShmemInvariant, PTL

-----------------------------------------------------------------------------
(* The map's calls are atomic. *)

\* A call has its result from the step on at which it takes effect: for
\* insert_or_assign the assignment, the linking or bad_alloc, for erase the
\* unlinking of the node, before its memory is freed.
Results ==
  /\ result = [p \in Proc |-> result[p]]
  /\ \A p \in Proc :
       /\ ~MapCall(p) \/ pc[p] \in {"lock", "find"} => result[p] = "none"
       /\ call[p].name = "insert_or_assign" /\ pc[p] \in {"wait", "fit", "bump", "post", "link"}
            => result[p] = "none"
       /\ call[p].name = "erase" /\ pc[p] \in {"wait", "lower", "post"} => result[p] # "none"
       /\ pc[p] = "unlock" => result[p] # "none"

AtomicInv == MapInv /\ Shaped /\ Results

LEMMA ResultsInitially == Init => Results
BY DEF Init, Results, Idle, MapCall

LEMMA ResultsKept ==
  ASSUME "none" \notin Vals, AtomicInv, NEW p \in Proc, Continue(p) \/ Begin(p) \/ Kill(p)
  PROVE  /\ Results'
         /\ \A q \in Proc : q # p => result'[q] = result[q]
<1>1. Control
  BY DEF AtomicInv, MapInv
<1>2. \A q \in Proc : q # p => pc'[q] = pc[q] /\ call'[q] = call[q]
  BY <1>1, OthersUntouched
<1>3. result = [q \in Proc |-> result[q]]
  BY DEF AtomicInv, Results
<1>4. /\ result' = [q \in Proc |-> result'[q]]
      /\ \A q \in Proc : q # p => result'[q] = result[q]
  <2>1. result' = result \/ \E r : result' = [result EXCEPT ![p] = r]
    BY DEF Continue, Begin, Kill, Invoke, InvokeAllocate, InvokeDeallocate, Lock,
         FindInsert, FindErase, FindAt, Link, Unlock, Wait, Fit, NoFit, Throw, EndCall, Bump, Lower, Post
  <2>. QED
    BY <1>3, <2>1
<1>5. /\ ~MapCall(p) \/ pc[p] \in {"lock", "find"} => result[p] = "none"
      /\ call[p].name = "insert_or_assign" /\ pc[p] \in {"wait", "fit", "bump", "post", "link"}
           => result[p] = "none"
      /\ call[p].name = "erase" /\ pc[p] \in {"wait", "lower", "post"} => result[p] # "none"
      /\ pc[p] = "unlock" => result[p] # "none"
  BY DEF AtomicInv, Results
<1>6. /\ pc = [q \in Proc |-> pc[q]] /\ call = [q \in Proc |-> call[q]]
      /\ \A k \in DOMAIN map : map[k].val \in Vals
  BY <1>1 DEF Control, Typed, AtomicInv, Shaped, ShmemTypeOK, Node
<1>. DEFINE Mine == /\ ~MapCall(p)' \/ pc'[p] \in {"lock", "find"} => result'[p] = "none"
                    /\ call'[p].name = "insert_or_assign"
                         /\ pc'[p] \in {"wait", "fit", "bump", "post", "link"}
                         => result'[p] = "none"
                    /\ call'[p].name = "erase" /\ pc'[p] \in {"wait", "lower", "post"}
                         => result'[p] # "none"
                    /\ pc'[p] = "unlock" => result'[p] # "none"
<1>7. Mine
  <2>1. CASE Begin(p)
    <3>1. ASSUME NEW c \in Call, Invoke(p, c) PROVE Mine
      BY <1>1, <1>5, <1>6, <3>1 DEF Invoke, GoTo, MapCall, Control, Placed
    <3>2. ASSUME NEW n \in OwnSizes, InvokeAllocate(p, n) PROVE Mine
      BY <1>1, <1>5, <1>6, <3>2 DEF InvokeAllocate, Allocating, GoTo, MapCall, Control, Placed
    <3>3. ASSUME NEW b \in owned[p], InvokeDeallocate(p, b) PROVE Mine
      BY <1>1, <1>5, <1>6, <3>3 DEF InvokeDeallocate, Freeing, GoTo, MapCall, Control, Placed
    <3>. QED
      BY <2>1, <3>1, <3>2, <3>3 DEF Begin
  <2>2. CASE Kill(p)
    BY <1>5, <1>6, <2>2 DEF Kill, GoTo, MapCall
  <2>3. CASE Lock(p)
    BY <1>5, <1>6, <2>3 DEF Lock, GoTo, MapCall
  <2>4. CASE FindInsert(p)
    BY <1>3, <1>5, <1>6, <2>4 DEF FindInsert, GoTo, MapCall
  <2>5. CASE FindErase(p)
    BY <1>3, <1>5, <1>6, <2>5 DEF FindErase, GoTo, MapCall
  <2>6. CASE FindAt(p)
    BY <1>3, <1>5, <1>6, <2>6 DEF FindAt, GoTo, MapCall
  <2>7. CASE Link(p)
    BY <1>1, <1>3, <1>5, <1>6, <2>7 DEF Link, GoTo, MapCall, Control, Placed
  <2>8. CASE EndCall(p)
    BY <1>3, <1>6, <2>8 DEF EndCall, Idle, GoTo, MapCall
  <2>9. CASE Wait(p) \/ Fit(p) \/ Bump(p) \/ Lower(p)
    BY <1>1, <1>5, <1>6, <2>9 DEF Wait, Fit, Bump, Lower, GoTo, MapCall, Frees, Control, Placed
  <2>10. CASE NoFit(p) /\ MapCall(p)
    BY <1>3, <1>5, <1>6, <2>10 DEF NoFit, Throw, EndCall, GoTo, MapCall
  <2>11. CASE Post(p) /\ MapCall(p)
    BY <1>1, <1>5, <1>6, <2>11 DEF Post, GoTo, MapCall, Frees, Control, Placed
  <2>12. CASE Unlock(p) \/ (NoFit(p) /\ ~MapCall(p)) \/ (Post(p) /\ ~MapCall(p))
    BY <2>8, <2>12 DEF Unlock, NoFit, Throw, Post
  <2>. QED
    BY <2>1, <2>2, <2>3, <2>4, <2>5, <2>6, <2>7, <2>9, <2>10, <2>11, <2>12 DEF Continue
<1>8. ASSUME NEW q \in Proc, q # p
      PROVE  /\ ~MapCall(q)' \/ pc'[q] \in {"lock", "find"} => result'[q] = "none"
             /\ call'[q].name = "insert_or_assign"
                  /\ pc'[q] \in {"wait", "fit", "bump", "post", "link"} => result'[q] = "none"
             /\ call'[q].name = "erase" /\ pc'[q] \in {"wait", "lower", "post"}
                  => result'[q] # "none"
             /\ pc'[q] = "unlock" => result'[q] # "none"
  BY <1>2, <1>4, <1>8 DEF AtomicInv, Results, MapCall
<1>. QED
  BY <1>4, <1>7, <1>8 DEF Results

LEMMA AtomicInvariant == ASSUME "none" \notin Vals PROVE Spec => []AtomicInv
<1>1. AtomicInv /\ [Next]_vars => Results'
  <2>. SUFFICES ASSUME AtomicInv, [Next]_vars PROVE Results'
    OBVIOUS
  <2>1. CASE Next
    BY <2>1, ResultsKept DEF Next
  <2>2. CASE UNCHANGED vars
    BY <2>2 DEF vars, AtomicInv, Results, MapCall
  <2>. QED
    BY <2>1, <2>2
<1>. QED
  BY <1>1, ResultsInitially, ShmemInvariant, PTL DEF Spec, AtomicInv

\* Where a call is, seen from outside.
LEMMA PhaseOf ==
  /\ \A p \in Proc : /\ pc[p] = "dead" => phase[p] = "dead"
                     /\ pc[p] # "dead" /\ ~MapCall(p) => phase[p] = "idle"
                     /\ pc[p] # "dead" /\ MapCall(p) /\ result[p] = "none" => phase[p] = "called"
                     /\ pc[p] # "dead" /\ MapCall(p) /\ result[p] # "none" => phase[p] = "done"
  /\ \A p \in Proc : /\ pc'[p] = "dead" => phase'[p] = "dead"
                     /\ pc'[p] # "dead" /\ ~MapCall(p)' => phase'[p] = "idle"
                     /\ pc'[p] # "dead" /\ MapCall(p)' /\ result'[p] = "none" => phase'[p] = "called"
                     /\ pc'[p] # "dead" /\ MapCall(p)' /\ result'[p] # "none" => phase'[p] = "done"
  /\ phase = [p \in Proc |-> phase[p]]
  /\ phase' = [p \in Proc |-> phase'[p]]
BY DEF phase

\* The variables of SharedMap.
Dict == [k \in DOMAIN map |-> map[k].val]
Calls == [p \in Proc |-> IF MapCall(p) THEN call[p] ELSE Idle]

\* Only the process that makes a step moves.
LEMMA OneMoves ==
  ASSUME "none" \notin Vals, AtomicInv, NEW p \in Proc, Continue(p) \/ Begin(p) \/ Kill(p)
  PROVE  /\ phase' = [phase EXCEPT ![p] = phase'[p]]
         /\ Calls' = [Calls EXCEPT ![p] = Calls'[p]]
         /\ result' = [result EXCEPT ![p] = result'[p]]
<1>1. \A q \in Proc : q # p => pc'[q] = pc[q] /\ call'[q] = call[q] /\ result'[q] = result[q]
  <2>1. Control
    BY DEF AtomicInv, MapInv
  <2>. QED
    BY <2>1, OthersUntouched, ResultsKept
<1>2. \A q \in Proc : q # p => MapCall(q)' = MapCall(q)
  BY <1>1 DEF MapCall
<1>3. \A q \in Proc : q # p => phase'[q] = phase[q]
  BY <1>1, <1>2 DEF phase
<1>4. phase' = [phase EXCEPT ![p] = phase'[p]]
  BY <1>3, PhaseOf
<1>5. Calls' = [Calls EXCEPT ![p] = Calls'[p]]
  BY <1>1, <1>2 DEF Calls
<1>6. result = [q \in Proc |-> result[q]] /\ result' = [q \in Proc |-> result'[q]]
  BY ResultsKept DEF AtomicInv, Results
<1>7. result' = [result EXCEPT ![p] = result'[p]]
  BY <1>1, <1>6
<1>. QED
  BY <1>4, <1>5, <1>7

\* A step that neither starts a call, nor ends one, nor is its effect.
LEMMA Stutters ==
  ASSUME "none" \notin Vals, AtomicInv, NEW p \in Proc, Continue(p) \/ Begin(p) \/ Kill(p),
         map' = map, result'[p] = result[p], pc[p] # "dead", pc'[p] # "dead",
         \/ ~MapCall(p) /\ ~MapCall(p)'
         \/ MapCall(p) /\ call'[p] = call[p]
  PROVE  UNCHANGED Atomic!mapvars
<1>1. MapCall(p)' = MapCall(p)
  BY DEF MapCall
<1>2. phase'[p] = phase[p]
  BY <1>1, PhaseOf
<1>3. Calls'[p] = Calls[p]
  BY <1>1 DEF Calls
<1>4. phase' = phase
  BY <1>2, OneMoves, PhaseOf
<1>5. Calls' = Calls
  <2>1. Calls = [q \in Proc |-> Calls[q]]
    BY DEF Calls
  <2>. QED
    BY <1>3, <2>1, OneMoves
<1>6. result' = result
  <2>1. result = [q \in Proc |-> result[q]]
    BY DEF AtomicInv, Results
  <2>. QED
    BY <2>1, OneMoves
<1>. QED
  BY <1>4, <1>5, <1>6 DEF Atomic!mapvars, Calls, Dict

\* A step that is the effect of the call.
LEMMA TakesEffect ==
  ASSUME "none" \notin Vals, AtomicInv, NEW p \in Proc, Continue(p) \/ Begin(p) \/ Kill(p),
         MapCall(p), call'[p] = call[p], pc[p] # "dead", pc'[p] # "dead", result[p] = "none",
         NEW r, r # "none", result' = [result EXCEPT ![p] = r]
  PROVE  Atomic!Effect(p, Dict', r)
<1>1. result'[p] = r
  <2>1. result = [q \in Proc |-> result[q]]
    BY DEF AtomicInv, Results
  <2>. QED
    BY <2>1
<1>2. MapCall(p)'
  BY DEF MapCall
<1>3. phase[p] = "called" /\ phase'[p] = "done"
  BY <1>1, <1>2, PhaseOf
<1>4. phase' = [phase EXCEPT ![p] = "done"]
  BY <1>3, OneMoves
<1>5. Calls' = Calls
  <2>1. Calls = [q \in Proc |-> Calls[q]] /\ Calls'[p] = Calls[p]
    BY <1>2 DEF Calls
  <2>. QED
    BY <2>1, OneMoves
<1>. QED
  BY <1>3, <1>4, <1>5 DEF Atomic!Effect, Calls, Dict

LEMMA StepIsAtomic ==
  ASSUME "none" \notin Vals, AtomicInv, NEW p \in Proc, Continue(p) \/ Begin(p) \/ Kill(p)
  PROVE  [Atomic!MapNext]_(Atomic!mapvars)
<1>. DEFINE Goal == [Atomic!MapNext]_(Atomic!mapvars)
            c == call[p]
<1>1. Control
  BY DEF AtomicInv, MapInv
<1>2. /\ ~MapCall(p) \/ pc[p] \in {"lock", "find"} => result[p] = "none"
      /\ c.name = "insert_or_assign" /\ pc[p] \in {"wait", "fit", "bump", "post", "link"}
           => result[p] = "none"
      /\ pc[p] = "unlock" => result[p] # "none"
      /\ result = [q \in Proc |-> result[q]]
  BY DEF AtomicInv, Results
<1>3. /\ pc = [q \in Proc |-> pc[q]] /\ call = [q \in Proc |-> call[q]]
      /\ \A k \in DOMAIN map : map[k].val \in Vals
  BY <1>1 DEF Control, Typed, AtomicInv, Shaped, ShmemTypeOK, Node
<1>4. /\ pc[p] \in {"lock", "find", "link", "unlock"} => MapCall(p)
      /\ pc[p] = "idle" => ~MapCall(p)
      /\ pc[p] = "link" => c.name = "insert_or_assign"
      /\ pc[p] \in {"wait", "fit", "bump", "lower", "post"} => c.name # "at"
      /\ pc[p] \in {"fit", "bump"} => ~Frees(p)
  BY <1>1 DEF Control, Placed
<1>5. MapCall(p) => Calls[p] = c
  BY DEF Calls
<1>6. ASSUME NEW d \in Call, Invoke(p, d) PROVE Goal
  <2>1. /\ pc[p] = "idle" /\ pc'[p] = "lock" /\ call'[p] = d /\ result' = result /\ map' = map
    BY <1>3, <1>6 DEF Invoke, GoTo
  <2>2. ~MapCall(p) /\ MapCall(p)' /\ result[p] = "none"
    BY <1>2, <1>4, <2>1, CallNames DEF MapCall
  <2>3. phase[p] = "idle" /\ phase'[p] = "called" /\ Calls'[p] = d
    BY <2>1, <2>2, PhaseOf DEF Calls
  <2>4. phase' = [phase EXCEPT ![p] = "called"] /\ Calls' = [Calls EXCEPT ![p] = d]
    BY <2>3, OneMoves
  <2>5. Atomic!Invoke(p, d)
    BY <2>1, <2>3, <2>4 DEF Atomic!Invoke, Calls, Dict
  <2>. QED
    BY <2>5 DEF Atomic!MapNext, Atomic!Call, Call
<1>7. CASE (\E n \in OwnSizes : InvokeAllocate(p, n)) \/ (\E b \in owned[p] : InvokeDeallocate(p, b))
  <2>1. /\ pc[p] = "idle" /\ pc'[p] = "wait" /\ call'[p] \in {Allocating, Freeing}
        /\ result' = result /\ map' = map
    BY <1>3, <1>7 DEF InvokeAllocate, InvokeDeallocate, GoTo
  <2>2. ~MapCall(p) /\ ~MapCall(p)'
    BY <1>4, <2>1 DEF MapCall, Allocating, Freeing
  <2>. QED
    BY <2>1, <2>2, Stutters
<1>8. CASE Kill(p)
  <2>1. pc'[p] = "dead" /\ UNCHANGED <<map, call, result>>
    BY <1>3, <1>8 DEF Kill, GoTo
  <2>2. phase' = [phase EXCEPT ![p] = "dead"]
    BY <2>1, PhaseOf, OneMoves
  <2>3. Atomic!Die(p)
    BY <2>1, <2>2 DEF Atomic!Die, MapCall
  <2>. QED
    BY <2>3 DEF Atomic!MapNext
<1>9. CASE Lock(p) \/ Wait(p) \/ Fit(p) \/ Bump(p) \/ Lower(p) \/ (Post(p) /\ MapCall(p))
  <2>1. /\ pc[p] # "dead" /\ pc'[p] # "dead" /\ UNCHANGED <<map, call, result>>
    BY <1>3, <1>9 DEF Lock, Wait, Fit, Bump, Lower, Post, EndCall, GoTo
  <2>2. MapCall(p)' = MapCall(p)
    BY <2>1 DEF MapCall
  <2>. QED
    BY <2>1, <2>2, Stutters
<1>10. CASE (NoFit(p) \/ Post(p)) /\ ~MapCall(p)
  <2>1. EndCall(p) /\ map' = map /\ pc[p] # "dead"
    BY <1>10 DEF NoFit, Throw, Post
  <2>2. pc'[p] = "idle" /\ call'[p] = Idle /\ result'[p] = "none"
    BY <1>2, <1>3, <2>1 DEF EndCall, GoTo
  <2>3. ~MapCall(p)'
    BY <2>2 DEF MapCall, Idle
  <2>. QED
    BY <1>2, <1>10, <2>1, <2>2, <2>3, Stutters
<1>11. CASE Unlock(p)
  <2>1. EndCall(p) /\ map' = map /\ pc[p] = "unlock"
    BY <1>11 DEF Unlock
  <2>2. pc'[p] = "idle" /\ call'[p] = Idle /\ result' = [result EXCEPT ![p] = "none"]
    BY <1>3, <2>1 DEF EndCall, GoTo
  <2>3. ~MapCall(p)'
    BY <2>2 DEF MapCall, Idle
  <2>4. phase[p] = "done" /\ phase'[p] = "idle" /\ Calls'[p] = Idle
    BY <1>2, <1>4, <2>1, <2>2, <2>3, PhaseOf DEF Calls
  <2>5. phase' = [phase EXCEPT ![p] = "idle"] /\ Calls' = [Calls EXCEPT ![p] = Idle]
    BY <2>4, OneMoves
  <2>6. Atomic!Finish(p)
    BY <2>1, <2>2, <2>4, <2>5 DEF Atomic!Finish, Calls, Dict, Idle
  <2>. QED
    BY <2>6 DEF Atomic!MapNext
<1>12. CASE FindInsert(p)
  <2>1. /\ pc[p] = "find" /\ c.name = "insert_or_assign" /\ call' = call /\ MapCall(p)
        /\ result[p] = "none"
    BY <1>2, <1>12 DEF FindInsert, MapCall
  <2>2. CASE c.key \in DOMAIN map
    <3>1. /\ map' = [map EXCEPT ![c.key] = [at |-> @.at, val |-> c.val]]
          /\ result' = [result EXCEPT ![p] = "done"] /\ pc'[p] = "unlock"
      BY <1>3, <1>12, <2>2 DEF FindInsert, GoTo
    <3>2. Atomic!Effect(p, Dict', "done")
      BY <2>1, <3>1, TakesEffect
    <3>3. Dict' = Atomic!With(c.key, c.val)
      BY <2>2, <3>1 DEF Dict, Atomic!With
    <3>4. Atomic!DoInsert(p)
      BY <1>5, <2>1, <3>2, <3>3 DEF Atomic!DoInsert, Calls
    <3>. QED
      BY <3>4 DEF Atomic!MapNext
  <2>3. CASE c.key \notin DOMAIN map
    <3>1. map' = map /\ result' = result /\ pc'[p] = "wait"
      BY <1>3, <1>12, <2>3 DEF FindInsert, GoTo
    <3>. QED
      BY <2>1, <3>1, Stutters
  <2>. QED
    BY <2>2, <2>3
<1>13. CASE FindErase(p)
  <2>1. /\ pc[p] = "find" /\ c.name = "erase" /\ call' = call /\ MapCall(p) /\ result[p] = "none"
    BY <1>2, <1>13 DEF FindErase, MapCall
  <2>0. PICK r : r = IF c.key \in DOMAIN map THEN "one" ELSE "zero"
    OBVIOUS
  <2>2. /\ pc'[p] # "dead" /\ result' = [result EXCEPT ![p] = r]
        /\ map' = map \/ (c.key \in DOMAIN map /\ map' = [x \in DOMAIN map \ {c.key} |-> map[x]])
        /\ map' = map => c.key \notin DOMAIN map
    BY <1>3, <1>13, <2>0 DEF FindErase, GoTo
  <2>3. r # "none"
    BY <2>0
  <2>4. Dict' = Atomic!Without(c.key)
    BY <2>2 DEF Dict, Atomic!Without
  <2>5. Atomic!Effect(p, Dict', r)
    <3>1. call'[p] = call[p] /\ pc[p] # "dead"
      BY <2>1
    <3>. QED
      BY <2>1, <2>2, <2>3, <3>1, TakesEffect
  <2>6. /\ Calls[p].name = "erase" /\ Calls[p].key = c.key
        /\ r = IF c.key \in DOMAIN Dict THEN "one" ELSE "zero"
    BY <1>5, <2>0, <2>1 DEF Dict
  <2>7. Atomic!DoErase(p)
    <3>1. Atomic!Effect(p, Atomic!Without(Calls[p].key), r)
      BY <2>4, <2>5, <2>6
    <3>2. CASE c.key \in DOMAIN Dict
      BY <2>6, <3>1, <3>2 DEF Atomic!DoErase, Atomic!Effect, Calls, Dict
    <3>3. CASE c.key \notin DOMAIN Dict
      BY <2>6, <3>1, <3>3 DEF Atomic!DoErase, Atomic!Effect, Calls, Dict
    <3>. QED
      BY <3>2, <3>3
  <2>. QED
    BY <2>7 DEF Atomic!MapNext
<1>14. CASE FindAt(p)
  <2>1. /\ pc[p] = "find" /\ c.name = "at" /\ call' = call /\ MapCall(p) /\ result[p] = "none"
        /\ map' = map
    BY <1>2, <1>14 DEF FindAt, MapCall
  <2>0. PICK r : r = IF c.key \in DOMAIN map THEN map[c.key].val ELSE "out_of_range"
    OBVIOUS
  <2>2. pc'[p] # "dead" /\ result' = [result EXCEPT ![p] = r]
    BY <1>3, <1>14, <2>0 DEF FindAt, GoTo
  <2>3. r # "none"
    BY <1>3, <2>0
  <2>4. Atomic!Effect(p, Dict', r)
    <3>1. call'[p] = call[p] /\ pc[p] # "dead"
      BY <2>1
    <3>. QED
      BY <2>1, <2>2, <2>3, <3>1, TakesEffect
  <2>5. Dict' = Dict
    BY <2>1 DEF Dict
  <2>6. /\ Calls[p].name = "at" /\ Calls[p].key = c.key
        /\ r = IF c.key \in DOMAIN Dict THEN Dict[c.key] ELSE "out_of_range"
    BY <1>5, <2>0, <2>1 DEF Dict
  <2>7. Atomic!DoAt(p)
    <3>1. Atomic!Effect(p, Dict, r)
      BY <2>4, <2>5
    <3>2. CASE c.key \in DOMAIN Dict
      BY <2>6, <3>1, <3>2 DEF Atomic!DoAt, Atomic!Effect, Calls, Dict
    <3>3. CASE c.key \notin DOMAIN Dict
      BY <2>6, <3>1, <3>3 DEF Atomic!DoAt, Atomic!Effect, Calls, Dict
    <3>. QED
      BY <3>2, <3>3
  <2>. QED
    BY <2>7 DEF Atomic!MapNext
<1>15. CASE Link(p)
  <2>1. /\ pc[p] = "link" /\ c.name = "insert_or_assign" /\ call' = call /\ MapCall(p)
        /\ result[p] = "none" /\ seen[p] = map
    BY <1>1, <1>2, <1>4, <1>15 DEF Link, MapCall, Control, SeenFresh
  <2>2. /\ pc'[p] = "unlock" /\ result' = [result EXCEPT ![p] = "done"]
        /\ map' = [x \in DOMAIN map \cup {c.key} |->
                     IF x = c.key THEN [at |-> block[p].at, val |-> c.val] ELSE map[x]]
    BY <1>3, <1>15, <2>1 DEF Link, GoTo
  <2>3. Dict' = Atomic!With(c.key, c.val)
    BY <2>2 DEF Dict, Atomic!With
  <2>4. Atomic!Effect(p, Dict', "done")
    BY <2>1, <2>2, TakesEffect
  <2>5. Atomic!DoInsert(p)
    BY <1>5, <2>1, <2>3, <2>4 DEF Atomic!DoInsert, Calls
  <2>. QED
    BY <2>5 DEF Atomic!MapNext
<1>16. CASE NoFit(p) /\ MapCall(p)
  <2>1. /\ pc[p] = "fit" /\ c.name = "insert_or_assign" /\ map' = map /\ result[p] = "none"
    BY <1>2, <1>4, <1>16 DEF NoFit, MapCall, Frees
  <2>2. /\ pc'[p] = "unlock" /\ call' = call /\ result' = [result EXCEPT ![p] = "bad_alloc"]
    BY <1>3, <1>16 DEF NoFit, Throw, GoTo
  <2>3. Atomic!Effect(p, Dict', "bad_alloc")
    BY <1>16, <2>1, <2>2, TakesEffect
  <2>4. Dict' = Dict /\ c.key \notin DOMAIN Dict
    BY <1>1, <2>1 DEF Dict, Control, SeenFresh
  <2>5. Atomic!DoInsert(p)
    BY <1>5, <1>16, <2>1, <2>3, <2>4 DEF Atomic!DoInsert, Calls, Dict
  <2>. QED
    BY <2>5 DEF Atomic!MapNext
<1>. QED
  BY <1>6, <1>7, <1>8, <1>9, <1>10, <1>11, <1>12, <1>13, <1>14, <1>15, <1>16 DEF Continue, Begin

\* ShmemMap implements SharedMap: for any number of processes, killed wherever
\* they are, every call takes effect at one instant between its invocation and
\* its return, an insertion that fails changes nothing, and nothing that a process
\* left behind in the middle of a call shows.
THEOREM MapCallsAtomic ==
  ASSUME "none" \notin Vals
  PROVE  Spec => ActsAtomically
<1>1. Init => Atomic!MapInit
  <2>. SUFFICES ASSUME Init PROVE Atomic!MapInit
    OBVIOUS
  <2>1. \A p \in Proc : pc[p] = "idle" /\ ~MapCall(p)
    BY DEF Init, Idle, MapCall
  <2>2. phase = [p \in Proc |-> "idle"]
    BY <2>1, PhaseOf
  <2>3. Dict = << >> /\ result = [p \in Proc |-> "none"]
    BY DEF Init, Dict
  <2>4. Calls \in [Proc -> {[name |-> "none"]}]
    BY <2>1 DEF Calls, Idle
  <2>. QED
    BY <2>2, <2>3, <2>4 DEF Atomic!MapInit, Dict, Calls
<1>2. AtomicInv /\ [Next]_vars => [Atomic!MapNext]_(Atomic!mapvars)
  <2>. SUFFICES ASSUME AtomicInv, [Next]_vars PROVE [Atomic!MapNext]_(Atomic!mapvars)
    OBVIOUS
  <2>1. CASE Next
    BY <2>1, StepIsAtomic DEF Next
  <2>2. CASE UNCHANGED vars
    BY <2>2 DEF vars, Atomic!mapvars, phase, MapCall
  <2>. QED
    BY <2>1, <2>2
<1>. QED
  BY <1>1, <1>2, AtomicInvariant, PTL DEF Spec, ActsAtomically, Atomic!MapSpec

=============================================================================
