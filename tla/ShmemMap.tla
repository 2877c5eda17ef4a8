------------------------------ MODULE ShmemMap ------------------------------
(***************************************************************************)
(* shmem::ShmemMap in a region of shared memory (Shmem), with its          *)
(* semaphore (SemaphoreMutex) and the allocator of the region              *)
(* (ShmemAllocator), used by several processes that may be killed.         *)
(*                                                                         *)
(* The allocator keeps one pointer: what lies below it is allocated.       *)
(* allocate() moves it up; deallocate() moves it down if the block is the  *)
(* topmost one and forgets the block otherwise.  Its semaphore protects    *)
(* the pointer only; the map's own semaphore is held around every call of  *)
(* the map, and the allocator's is taken inside it for nodes.  Callers     *)
(* also allocate for themselves (strings with a ShmemAllocator).           *)
(*                                                                         *)
(* Keys are kept inside the node.  Nodes are linked where the search before *)
(* the allocation found their place: seen[p] is the tree it found.         *)
(***************************************************************************)
EXTENDS Naturals

CONSTANTS
  Proc,        \* the processes
  Killable,    \* those that may be killed
  Keys, Vals,  \* keys and values of the map
  Size,        \* bytes of the region behind ShmemAllocatorState
  BaseSize,    \* bytes of the map's semaphore and of the map object
  NodeSize,    \* bytes of a node of the map
  OwnSizes     \* sizes of the blocks that callers allocate for themselves

ASSUME SizesAssumption ==
  /\ Size \in Nat /\ BaseSize \in Nat /\ NodeSize \in Nat \ {0}
  /\ OwnSizes \subseteq Nat \ {0}
  /\ BaseSize <= Size
ASSUME KillableAssumption == Killable \subseteq Proc

VARIABLES
  start,     \* ShmemAllocatorState::start, from the end of the state
  mtx,       \* ShmemAllocatorState::mtx_
  mutex,     \* the semaphore of ShmemMap::mutex
  map,       \* the tree: per key its node's address and value
  seen,      \* per process: the tree its search went through
  pc, call, result,  \* per process: where it is, in which call, and its outcome
  block,     \* per process: the block it is allocating or freeing
  owned      \* per process: the blocks it holds outside the tree

vars == <<start, mtx, mutex, map, seen, pc, call, result, block, owned>>

Call ==
  [name : {"insert_or_assign"}, key : Keys, val : Vals]
    \cup [name : {"erase", "at"}, key : Keys]
Idle == [name |-> "none"]
Allocating == [name |-> "allocate"]
Freeing == [name |-> "deallocate"]
MapCall(p) == call[p].name \in {"insert_or_assign", "erase", "at"}

Block == [at : 0 .. Size, n : OwnSizes \cup {NodeSize}]
Node == [at : 0 .. Size, val : Vals]
Point == {"idle", "lock", "find", "wait", "fit", "bump", "lower", "post", "link",
          "unlock", "dead"}

ShmemTypeOK ==
  /\ start \in BaseSize .. Size
  /\ mtx \in Nat /\ mutex \in Nat
  /\ \A k \in DOMAIN map : k \in Keys /\ map[k] \in Node
  /\ pc \in [Proc -> Point]
  /\ \A p \in Proc : /\ call[p] \in Call \cup {Idle, Allocating, Freeing}
                     /\ block[p] \in Block
                     /\ owned[p] \subseteq Block

NoBlock == [at |-> 0, n |-> NodeSize]

\* The constructors have run: the semaphore and the map lie at the bottom.
Init ==
  /\ start = BaseSize
  /\ mtx = 1 /\ mutex = 1
  /\ map = << >>
  /\ seen = [p \in Proc |-> << >>]
  /\ pc = [p \in Proc |-> "idle"]
  /\ call = [p \in Proc |-> Idle]
  /\ result = [p \in Proc |-> "none"]
  /\ block = [p \in Proc |-> NoBlock]
  /\ owned = [p \in Proc |-> {}]

GoTo(p, point) == pc' = [pc EXCEPT ![p] = point]

\* The call is over, and with it its local variables.
EndCall(p) ==
  /\ call' = [call EXCEPT ![p] = Idle]
  /\ block' = [block EXCEPT ![p] = NoBlock]
  /\ result' = [result EXCEPT ![p] = "none"]
  /\ seen' = [seen EXCEPT ![p] = << >>]
  /\ GoTo(p, "idle")

-----------------------------------------------------------------------------
(* Calls *)

Invoke(p, c) ==
  /\ pc[p] = "idle"
  /\ call' = [call EXCEPT ![p] = c]
  /\ GoTo(p, "lock")
  /\ UNCHANGED <<start, mtx, mutex, map, seen, result, block, owned>>

\* A caller allocates n bytes for itself ...
InvokeAllocate(p, n) ==
  /\ pc[p] = "idle"
  /\ call' = [call EXCEPT ![p] = Allocating]
  /\ block' = [block EXCEPT ![p].n = n]
  /\ GoTo(p, "wait")
  /\ UNCHANGED <<start, mtx, mutex, map, seen, result, owned>>

\* ... and frees a block that it holds.
InvokeDeallocate(p, b) ==
  /\ pc[p] = "idle"
  /\ call' = [call EXCEPT ![p] = Freeing]
  /\ block' = [block EXCEPT ![p] = b]
  /\ GoTo(p, "wait")
  /\ UNCHANGED <<start, mtx, mutex, map, seen, result, owned>>

-----------------------------------------------------------------------------
(* The calls of the map, inside std::lock_guard *)

\* Faulty variant: the lock_guard is missing.
LockNothing(p) ==
  /\ pc[p] = "lock"
  /\ GoTo(p, "find")
  /\ UNCHANGED <<start, mtx, mutex, map, seen, call, result, block, owned>>

\* sem_wait of the map's semaphore.
Lock(p) ==
  /\ pc[p] = "lock"
  /\ mutex > 0
  /\ mutex' = mutex - 1
  /\ GoTo(p, "find")
  /\ UNCHANGED <<start, mtx, map, seen, call, result, block, owned>>

\* insert_or_assign finds the key and assigns, or finds its place and goes on to
\* allocate a node.
FindInsert(p) ==
  LET k == call[p].key
  IN /\ pc[p] = "find"
     /\ call[p].name = "insert_or_assign"
     /\ \/ /\ k \in DOMAIN map
           /\ map' = [map EXCEPT ![k] = [at |-> @.at, val |-> call[p].val]]
           /\ result' = [result EXCEPT ![p] = "done"]
           /\ GoTo(p, "unlock")
           /\ UNCHANGED <<seen, block>>
        \/ /\ k \notin DOMAIN map
           /\ seen' = [seen EXCEPT ![p] = map]
           /\ block' = [block EXCEPT ![p].n = NodeSize]
           /\ GoTo(p, "wait")
           /\ UNCHANGED <<map, result>>
     /\ UNCHANGED <<start, mtx, mutex, call, owned>>

\* erase unlinks the node and goes on to free it.
FindErase(p) ==
  LET k == call[p].key
  IN /\ pc[p] = "find"
     /\ call[p].name = "erase"
     /\ \/ /\ k \in DOMAIN map
           /\ map' = [x \in DOMAIN map \ {k} |-> map[x]]
           /\ block' = [block EXCEPT ![p] = [at |-> map[k].at, n |-> NodeSize]]
           /\ owned' = [owned EXCEPT ![p] = @ \cup {[at |-> map[k].at, n |-> NodeSize]}]
           /\ result' = [result EXCEPT ![p] = "one"]
           /\ GoTo(p, "wait")
        \/ /\ k \notin DOMAIN map
           /\ result' = [result EXCEPT ![p] = "zero"]
           /\ GoTo(p, "unlock")
           /\ UNCHANGED <<map, block, owned>>
     /\ UNCHANGED <<start, mtx, mutex, seen, call>>

\* at returns a copy of the value or throws.
FindAt(p) ==
  LET k == call[p].key
  IN /\ pc[p] = "find"
     /\ call[p].name = "at"
     /\ result' = [result EXCEPT ![p] = IF k \in DOMAIN map THEN map[k].val
                                                          ELSE "out_of_range"]
     /\ GoTo(p, "unlock")
     /\ UNCHANGED <<start, mtx, mutex, map, seen, call, block, owned>>

\* The new node is linked into the tree.
Link(p) ==
  LET k == call[p].key
  IN /\ pc[p] = "link"
     /\ map' = [x \in DOMAIN seen[p] \cup {k} |->
                  IF x = k THEN [at |-> block[p].at, val |-> call[p].val] ELSE seen[p][x]]
     /\ owned' = [owned EXCEPT ![p] = @ \ {block[p]}]
     /\ seen' = [seen EXCEPT ![p] = << >>]
     /\ result' = [result EXCEPT ![p] = "done"]
     /\ GoTo(p, "unlock")
     /\ UNCHANGED <<start, mtx, mutex, call, block>>

\* ~lock_guard, also when an exception passes: sem_post, and the call is over.
Unlock(p) ==
  /\ pc[p] = "unlock"
  /\ mutex' = mutex + 1
  /\ EndCall(p)
  /\ UNCHANGED <<start, mtx, map, owned>>

-----------------------------------------------------------------------------
(* allocate and deallocate *)

\* The call is about to free a block, not to allocate one.
Frees(p) == call[p].name \in {"erase", "deallocate"}

\* Faulty variant: the semaphore is not waited for.
WaitNothing(p) ==
  /\ pc[p] = "wait"
  /\ GoTo(p, IF Frees(p) THEN "lower" ELSE "fit")
  /\ UNCHANGED <<start, mtx, mutex, map, seen, call, result, block, owned>>

\* sem_wait of the allocator's semaphore.
Wait(p) ==
  /\ pc[p] = "wait"
  /\ mtx > 0
  /\ mtx' = mtx - 1
  /\ GoTo(p, IF Frees(p) THEN "lower" ELSE "fit")
  /\ UNCHANGED <<start, mutex, map, seen, call, result, block, owned>>

\* Faulty variant: compares the start of the block with the end of the region.
FitStart(p) ==
  /\ pc[p] = "fit"
  /\ start <= Size
  /\ block' = [block EXCEPT ![p].at = start]
  /\ GoTo(p, "bump")
  /\ UNCHANGED <<start, mtx, mutex, map, seen, call, result, owned>>

\* allocate: res = start, and the block fits.
Fit(p) ==
  /\ pc[p] = "fit"
  /\ start + block[p].n <= Size
  /\ block' = [block EXCEPT ![p].at = start]
  /\ GoTo(p, "bump")
  /\ UNCHANGED <<start, mtx, mutex, map, seen, call, result, owned>>

\* std::bad_alloc passes through the map's lock_guard or straight to the caller.
Throw(p) ==
  \/ /\ MapCall(p)
     /\ result' = [result EXCEPT ![p] = "bad_alloc"]
     /\ GoTo(p, "unlock")
     /\ UNCHANGED <<seen, call, block>>
  \/ ~MapCall(p) /\ EndCall(p)

\* Faulty variant: waits for others to free memory, inside the map's lock.
NoFitRetries(p) ==
  /\ pc[p] = "fit"
  /\ start + block[p].n > Size
  /\ mtx' = mtx + 1
  /\ GoTo(p, "wait")
  /\ UNCHANGED <<start, mutex, map, seen, call, result, block, owned>>

\* allocate: the block does not fit; sem_post and std::bad_alloc.
NoFit(p) ==
  /\ pc[p] = "fit"
  /\ start + block[p].n > Size
  /\ mtx' = mtx + 1
  /\ Throw(p)
  /\ UNCHANGED <<start, mutex, map, owned>>

\* start += n
Bump(p) ==
  /\ pc[p] = "bump"
  /\ start' = start + block[p].n
  /\ owned' = [owned EXCEPT ![p] = @ \cup {block[p]}]
  /\ GoTo(p, "post")
  /\ UNCHANGED <<mtx, mutex, map, seen, call, result, block>>

\* deallocate gives the topmost block back and forgets any other.
Lower(p) ==
  /\ pc[p] = "lower"
  /\ start' = IF start = block[p].at + block[p].n THEN block[p].at ELSE start
  /\ owned' = [owned EXCEPT ![p] = @ \ {block[p]}]
  /\ GoTo(p, "post")
  /\ UNCHANGED <<mtx, mutex, map, seen, call, result, block>>

\* sem_post of the allocator's semaphore, and back to the caller.
Post(p) ==
  /\ pc[p] = "post"
  /\ mtx' = mtx + 1
  /\ \/ /\ MapCall(p)
        /\ GoTo(p, IF Frees(p) THEN "unlock" ELSE "link")
        /\ UNCHANGED <<seen, call, result, block>>
     \/ ~MapCall(p) /\ EndCall(p)
  /\ UNCHANGED <<start, mutex, map, owned>>

-----------------------------------------------------------------------------
\* A process is killed wherever it is; the semaphores stay as they are.
Kill(p) ==
  /\ p \in Killable
  /\ pc[p] # "dead"
  /\ GoTo(p, "dead")
  /\ UNCHANGED <<start, mtx, mutex, map, seen, call, result, block, owned>>

\* Whatever a process does once it is in a call.
Continue(p) ==
  \/ Lock(p) \/ FindInsert(p) \/ FindErase(p) \/ FindAt(p) \/ Link(p) \/ Unlock(p)
  \/ Wait(p) \/ Fit(p) \/ NoFit(p) \/ Bump(p) \/ Lower(p) \/ Post(p)

Begin(p) ==
  \/ \E c \in Call : Invoke(p, c)
  \/ \E n \in OwnSizes : InvokeAllocate(p, n)
  \/ \E b \in owned[p] : InvokeDeallocate(p, b)

Next == \E p \in Proc : Continue(p) \/ Begin(p) \/ Kill(p)

Spec == Init /\ [][Next]_vars

\* A process in a call goes on with it.  Semaphores favour nobody.
FairSpec == Spec /\ \A p \in Proc : WF_vars(Continue(p))

-----------------------------------------------------------------------------
\* All memory that somebody holds: the nodes of the tree and the blocks of the
\* processes, each with its holder.
Held ==
  {[by |-> <<"node", k>>, at |-> map[k].at, n |-> NodeSize] : k \in DOMAIN map}
    \cup UNION {{[by |-> <<"process", p>>, at |-> b.at, n |-> b.n] : b \in owned[p]} :
                p \in Proc}

\* No two holders share a byte, nothing is held beyond the allocator's pointer
\* and nobody holds a part of the semaphore or of the map object.
BlocksDisjoint ==
  /\ \A h \in Held : BaseSize <= h.at /\ h.at + h.n <= start
  /\ \A g, h \in Held : g # h => g.at + g.n <= h.at \/ h.at + h.n <= g.at

\* Calls of the map take effect at one instant, processes that are killed
\* included.
phase ==
  [p \in Proc |->
     CASE pc[p] = "dead" -> "dead"
       [] pc[p] # "dead" /\ ~MapCall(p) -> "idle"
       [] pc[p] # "dead" /\ MapCall(p) /\ result[p] = "none" -> "called"
       [] OTHER -> "done"]
Atomic ==
  INSTANCE SharedMap WITH
    dict <- [k \in DOMAIN map |-> map[k].val],
    call <- [p \in Proc |-> IF MapCall(p) THEN call[p] ELSE Idle]
ActsAtomically == Atomic!MapSpec

\* If nobody is killed, a semaphore that was taken is given back: the
\* allocator's on every path, and the map's once the callers' own allocations
\* no longer overtake the one that its holder waits for.
LocksReleased ==
  [](\A p \in Proc : pc[p] # "dead") =>
    /\ mtx = 0 ~> mtx > 0
    /\ <>[](\A p \in Proc : call[p].name \notin {"allocate", "deallocate"})
         => (mutex = 0 ~> mutex > 0)

=============================================================================
