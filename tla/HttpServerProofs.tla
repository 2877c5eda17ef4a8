-------------------------- MODULE HttpServerProofs --------------------------
(***************************************************************************)
(* For any number of workers, descriptors and connections: the server      *)
(* hands connections only to workers that will look at them, and when its  *)
(* run() returns every worker is over and clean.                           *)
(*                                                                         *)
(* Neither is inductive by itself.  ServerInv says for each point of       *)
(* Server::run which workers may be where: during the spawn loop those     *)
(* below i are born, during the join loop those below i have ended, and    *)
(* until the stop loop no worker that serves has its flag down, so that    *)
(* none can have left its loop.  That the connections are dealt out evenly *)
(* follows from where the round-robin stands (Dealt).  The last part shows *)
(* that this module's worker threads and the workers of WorkerLife, which  *)
(* module Worker implements, take the same steps.                          *)
(***************************************************************************)
EXTENDS HttpServer, TLAPS

Point == {"unborn", "idle", "serving", "draining", "ended", "crashed"}

\* The part of the type invariant that the argument needs.
Typed ==
  /\ pc \in PC
  /\ i \in WorkerId
  /\ load_balancing \in Nat
  /\ given \in [WorkerId -> Nat]
  /\ life \in [WorkerId -> Point]
  /\ flag \in [WorkerId -> BOOLEAN]
  /\ conn \in [WorkerId -> [Fd -> {"closed", "queued", "active"}]]

\* Threads are born in order.
Births ==
  /\ pc = "idle" => i = 0 /\ \A w \in WorkerId : life[w] = "unborn"
  /\ pc = "spawn" =>
       /\ \A w \in WorkerId : w < i => life[w] \in {"idle", "serving"}
       /\ \A w \in WorkerId : w >= i => life[w] = "unborn"
  /\ pc \in {"test", "accept"} =>
       i = 0 /\ \A w \in WorkerId : life[w] \in {"idle", "serving"}

\* Until the stop loop, a worker that serves has its flag up.
FlagsUp ==
  pc \in {"spawn", "test", "accept"} =>
    \A w \in WorkerId : life[w] = "serving" => flag[w]

\* A worker that left its loop keeps its flag down; one that returned has no
\* client left.
LeftClean ==
  \A w \in WorkerId :
    /\ life[w] \in {"draining", "ended"} => ~flag[w]
    /\ life[w] = "ended" => \A fd \in Fd : conn[w][fd] # "active"

\* The threads below i are joined.
Joined ==
  /\ pc = "join" => \A w \in WorkerId : w < i => life[w] = "ended"
  /\ pc = "returned" => \A w \in WorkerId : life[w] = "ended"

ServerInv == Typed /\ Births /\ FlagsUp /\ LeftClean /\ Joined

USE NWorkersAssumption DEF WorkerId

LEMMA ServerInitially == Init => ServerInv
BY DEF Init, ServerInv, Typed, Births, FlagsUp, LeftClean, Joined, PC, Point

\* Server::run keeps the invariant.
LEMMA ServerThreadKeepsInv ==
  ASSUME ServerInv, ServerThread
  PROVE  ServerInv'
<1>. USE DEF ServerInv, Typed, PC, Point
<1>1. CASE Start
  BY <1>1 DEF Start, workervars, Births, FlagsUp, LeftClean, Joined
<1>2. CASE Spawn
  <2>. USE <1>2 DEF Spawn, Iterate
  <2>1. Typed'
    OBVIOUS
  <2>2. Births'
    BY DEF Births
  <2>3. FlagsUp'
    BY DEF FlagsUp
  <2>4. LeftClean' /\ Joined'
    BY DEF LeftClean, Joined
  <2>. QED
    BY <2>1, <2>2, <2>3, <2>4
<1>3. CASE TestRunning
  BY <1>3 DEF TestRunning, workervars, Births, FlagsUp, LeftClean, Joined
<1>4. CASE AcceptNone
  BY <1>4 DEF AcceptNone, workervars, Births, FlagsUp, LeftClean, Joined
<1>5. CASE AcceptFails
  BY <1>5 DEF AcceptFails, workervars, Births, FlagsUp, LeftClean, Joined
<1>6. CASE StopWorker
  BY <1>6 DEF StopWorker, Iterate, Births, FlagsUp, LeftClean, Joined
<1>7. CASE Join
  BY <1>7 DEF Join, Iterate, workervars, Births, FlagsUp, LeftClean, Joined
<1>8. ASSUME NEW fd \in Fd, AcceptClient(fd)
      PROVE  ServerInv'
  <2>. DEFINE w == load_balancing % NWorkers
  <2>0. w \in WorkerId
    OBVIOUS
  <2>. HIDE DEF w
  <2>1. /\ conn' = [conn EXCEPT ![w][fd] = "queued"]
        /\ given' = [given EXCEPT ![w] = @ + 1]
        /\ pc = "accept" /\ pc' = "test" /\ load_balancing' = load_balancing + 1
        /\ UNCHANGED <<i, life, flag>>
    BY <1>8 DEF AcceptClient, w
  <2>2. Typed'
    BY <2>0, <2>1
  <2>3. Births' /\ FlagsUp' /\ Joined'
    BY <2>1 DEF Births, FlagsUp, Joined
  <2>4. LeftClean'
    BY <2>0, <2>1 DEF LeftClean
  <2>. QED
    BY <2>2, <2>3, <2>4
<1>. QED
  BY <1>1, <1>2, <1>3, <1>4, <1>5, <1>6, <1>7, <1>8 DEF ServerThread

\* So does a worker thread.
LEMMA WorkerThreadKeepsInv ==
  ASSUME ServerInv, NEW w \in WorkerId, WorkerThread(w) \/ Crash(w)
  PROVE  ServerInv'
<1>. USE DEF ServerInv, Typed, PC, Point, At, servervars
<1>1. CASE Begin(w)
  BY <1>1 DEF Begin, Births, FlagsUp, LeftClean, Joined
<1>2. CASE Notice(w)
  BY <1>2 DEF Notice, Births, FlagsUp, LeftClean, Joined
<1>3. CASE Return(w)
  BY <1>3 DEF Return, Births, FlagsUp, LeftClean, Joined
<1>4. ASSUME NEW fd \in Fd, TakeUp(w, fd) \/ Close(w, fd)
      PROVE  ServerInv'
  <2>1. /\ life[w] # "ended"
        /\ UNCHANGED <<pc, i, load_balancing, given, life, flag>>
        /\ \/ conn' = [conn EXCEPT ![w][fd] = "active"]
           \/ conn' = [conn EXCEPT ![w][fd] = "closed"]
    BY <1>4 DEF TakeUp, Close
  <2>2. Typed'
    <3>1. CASE conn' = [conn EXCEPT ![w][fd] = "active"]
      BY <2>1, <3>1
    <3>2. CASE conn' = [conn EXCEPT ![w][fd] = "closed"]
      BY <2>1, <3>2
    <3>. QED
      BY <2>1, <3>1, <3>2
  <2>3. Births' /\ FlagsUp' /\ Joined'
    BY <2>1 DEF Births, FlagsUp, Joined
  <2>4. LeftClean'
    BY <2>1 DEF LeftClean
  <2>. QED
    BY <2>2, <2>3, <2>4
<1>5. CASE Crash(w)
  BY <1>5 DEF Crash, Births, FlagsUp, LeftClean, Joined
<1>. QED
  BY <1>1, <1>2, <1>3, <1>4, <1>5 DEF WorkerThread

LEMMA ServerInductive == ServerInv /\ [Next]_vars => ServerInv'
<1>. SUFFICES ASSUME ServerInv, [Next]_vars
              PROVE  ServerInv'
  OBVIOUS
<1>1. CASE UNCHANGED <<pc, i, load_balancing, given, workervars>>
  BY <1>1 DEF workervars, ServerInv, Typed, Births, FlagsUp, LeftClean, Joined
<1>. QED
  BY <1>1, ServerThreadKeepsInv, WorkerThreadKeepsInv
     DEF Next, Stop, Connect, Terminated, vars, servervars, workervars

LEMMA ServerAlways == Spec => []ServerInv
BY ServerInitially, ServerInductive, PTL DEF Spec

\* When Server::run has returned, every worker has ended with its flag down and
\* has closed all the connections it took up.
THEOREM ServerReturnsClean == Spec => []ReturnedClean
<1>1. ServerInv => ReturnedClean
  BY DEF ServerInv, Joined, LeftClean, ReturnedClean
<1>. QED
  BY <1>1, ServerAlways, PTL

\* acceptClient never hands a connection to a worker that has left its loop:
\* the workers' flags are lowered only after the last accept.
THEOREM ServerHandsToServing == Spec => HandsToServing
<1>. DEFINE Handed == \A w \in WorkerId :
                        given'[w] # given[w] => life[w] \in {"idle", "serving"}
<1>1. ASSUME ServerInv, Next PROVE Handed
  <2>1. given' = given \/ \E fd \in Fd : AcceptClient(fd)
    BY <1>1 DEF Next, ServerThread, Start, Spawn, TestRunning, AcceptNone,
         AcceptFails, StopWorker, Join, Stop, Connect, WorkerThread, Begin,
         Notice, Return, TakeUp, Close, Crash, Terminated, vars, servervars
  <2>2. ASSUME NEW fd \in Fd, AcceptClient(fd) PROVE Handed
    BY <1>1, <2>2 DEF AcceptClient, ServerInv, Births
  <2>. QED
    BY <2>1, <2>2
<1>2. ServerInv /\ [Next]_vars => [Handed]_vars
  BY <1>1
<1>. QED
  BY <1>2, ServerAlways, PTL DEF Spec, HandsToServing

-----------------------------------------------------------------------------
(* The types, and the round-robin. *)

\* What the connections are bounded by.
Counted ==
  /\ running \in BOOLEAN /\ asked \in BOOLEAN
  /\ backlog \in 0 .. Backlog
  /\ load_balancing + backlog <= MaxAccepts
  /\ \A w \in WorkerId : given[w] <= load_balancing

LEMMA CountedKept == ServerInv /\ Counted /\ [Next]_vars => Counted'
<1>. SUFFICES ASSUME ServerInv, Counted, [Next]_vars PROVE Counted'
  OBVIOUS
<1>. USE BoundsAssumption
<1>0. /\ load_balancing \in Nat /\ \A w \in WorkerId : given[w] \in Nat
      /\ given \in [WorkerId -> Nat]
  BY DEF ServerInv, Typed
<1>1. ASSUME NEW fd \in Fd, AcceptClient(fd)
      PROVE  Counted'
  <2>0. load_balancing % NWorkers \in WorkerId
    BY <1>0
  <2>1. PICK w \in WorkerId : given' = [given EXCEPT ![w] = @ + 1]
    BY <2>0, <1>1, Zenon DEF AcceptClient
  <2>2. load_balancing' = load_balancing + 1 /\ backlog' = backlog - 1 /\ backlog > 0
        /\ UNCHANGED <<running, asked>>
    BY <1>1 DEF AcceptClient
  <2>3. \A v \in WorkerId : given'[v] <= load_balancing'
    BY <1>0, <2>1, <2>2 DEF Counted
  <2>. QED
    BY <1>0, <2>2, <2>3 DEF Counted
<1>2. CASE Connect
  BY <1>0, <1>2 DEF Connect, Counted
<1>3. CASE /\ running' \in BOOLEAN /\ asked' \in BOOLEAN
           /\ UNCHANGED <<backlog, load_balancing, given>>
  BY <1>3 DEF Counted
<1>4. CASE Stop \/ Start
  BY <1>3, <1>4 DEF Stop, Start, Counted
<1>5. CASE UNCHANGED <<running, asked, backlog, load_balancing, given>>
  BY <1>3, <1>5 DEF Counted
<1>. QED
  BY <1>1, <1>2, <1>4, <1>5 DEF Next, ServerThread, Spawn, TestRunning, AcceptNone,
     AcceptFails, StopWorker, Join, WorkerThread, Begin, Notice, Return, TakeUp, Close,
     Crash, Terminated, vars, servervars

\* The loops over the workers never leave their range, whatever the number of
\* workers, and no worker is ever dealt more connections than were accepted.
THEOREM ServerTyped == Spec => []ServerTypeOK
<1>1. Init => Counted
  <2>. SUFFICES ASSUME Init PROVE Counted
    OBVIOUS
  <2>1. running \in BOOLEAN /\ asked \in BOOLEAN
    BY DEF Init
  <2>2. load_balancing = 0 /\ backlog = 0 /\ \A w \in WorkerId : given[w] = 0
    BY DEF Init
  <2>. QED
    BY <2>1, <2>2, BoundsAssumption DEF Counted
<1>2. ServerInv /\ Counted => ServerTypeOK
  <2>. SUFFICES ASSUME ServerInv, Counted PROVE ServerTypeOK
    OBVIOUS
  <2>1. load_balancing \in 0 .. MaxAccepts
    BY BoundsAssumption DEF ServerInv, Typed, Counted
  <2>2. \A w \in WorkerId : given[w] \in 0 .. MaxAccepts
    BY <2>1, BoundsAssumption DEF ServerInv, Typed, Counted
  <2>. QED
    BY <2>1, <2>2 DEF ServerInv, Typed, Counted, ServerTypeOK, Point
<1>. QED
  BY <1>1, <1>2, ServerAlways, CountedKept, PTL DEF Spec

\* Where the round-robin stands: after q rounds, the workers below r have had
\* their turn once more.
Dealt ==
  \E q \in Nat, r \in WorkerId :
    /\ load_balancing = (NWorkers * q) + r
    /\ \A w \in WorkerId : given[w] = IF w < r THEN q + 1 ELSE q

LEMMA DealtKept == ServerInv /\ Dealt /\ [Next]_vars => Dealt'
<1>. SUFFICES ASSUME ServerInv, Dealt, [Next]_vars PROVE Dealt'
  OBVIOUS
<1>1. ASSUME NEW fd \in Fd, AcceptClient(fd)
      PROVE  Dealt'
  <2>1. PICK q \in Nat, r \in WorkerId :
          /\ load_balancing = (NWorkers * q) + r
          /\ \A w \in WorkerId : given[w] = IF w < r THEN q + 1 ELSE q
    BY DEF Dealt
  <2>2. load_balancing % NWorkers = r
    <3>1. ((NWorkers * q) + r) % NWorkers = r
      OBVIOUS
    <3>. QED
      BY <2>1, <3>1
  <2>3. /\ given' = [given EXCEPT ![r] = @ + 1]
        /\ load_balancing' = load_balancing + 1
    BY <1>1, <2>2 DEF AcceptClient
  <2>4. given \in [WorkerId -> Nat]
    BY DEF ServerInv, Typed
  <2>5. CASE r + 1 < NWorkers
    <3>1. r + 1 \in WorkerId
      BY <2>5
    <3>2. load_balancing' = (NWorkers * q) + (r + 1)
      BY <2>1, <2>3
    <3>3. \A w \in WorkerId : given'[w] = IF w < r + 1 THEN q + 1 ELSE q
      BY <2>1, <2>3, <2>4
    <3>. QED
      BY <3>1, <3>2, <3>3 DEF Dealt
  <2>6. CASE r + 1 = NWorkers
    <3>1. 0 \in WorkerId /\ q + 1 \in Nat
      OBVIOUS
    <3>2. load_balancing' = (NWorkers * (q + 1)) + 0
      BY <2>1, <2>3, <2>6
    <3>3. \A w \in WorkerId : given'[w] = IF w < 0 THEN (q + 1) + 1 ELSE q + 1
      BY <2>1, <2>3, <2>4, <2>6
    <3>. QED
      BY <3>1, <3>2, <3>3 DEF Dealt
  <2>. QED
    BY <2>5, <2>6
<1>2. CASE UNCHANGED <<load_balancing, given>>
  BY <1>2 DEF Dealt
<1>. QED
  BY <1>1, <1>2 DEF Next, ServerThread, Start, Spawn, TestRunning, AcceptNone,
     AcceptFails, StopWorker, Join, Stop, Connect, WorkerThread, Begin, Notice, Return,
     TakeUp, Close, Crash, Terminated, vars, servervars

\* acceptClient deals the connections out evenly: at any time, no worker was
\* given more than one connection more than another.
THEOREM ServerDealsEvenly ==
  Spec => [](\A v, w \in WorkerId : given[v] <= given[w] + 1)
<1>1. Init => Dealt
  <2>. SUFFICES ASSUME Init PROVE Dealt
    OBVIOUS
  <2>1. 0 \in Nat /\ 0 \in WorkerId /\ load_balancing = (NWorkers * 0) + 0
    BY DEF Init
  <2>2. \A w \in WorkerId : given[w] = IF w < 0 THEN 0 + 1 ELSE 0
    BY DEF Init
  <2>. QED
    BY <2>1, <2>2 DEF Dealt
<1>2. Dealt => \A v, w \in WorkerId : given[v] <= given[w] + 1
  BY DEF Dealt
<1>. QED
  BY <1>1, <1>2, ServerAlways, DealtKept, PTL DEF Spec

-----------------------------------------------------------------------------
(* The workers of this module are those of WorkerLife. *)

\* Thread w as module WorkerLife sees it, which knows nothing of the time before
\* its birth.
Promise(w) == INSTANCE WorkerLife WITH
  life <- IF life[w] = "unborn" THEN "idle" ELSE life[w],
  flag <- flag[w],
  conn <- conn[w]

\* What the other threads do leaves thread w as it is.
LEMMA OthersKeep ==
  ASSUME ServerInv, NEW w \in WorkerId, UNCHANGED <<life[w], flag[w], conn[w]>>
  PROVE  UNCHANGED Promise(w)!lifevars
BY DEF Promise!lifevars

LEMMA ServerThreadAsPromised ==
  ASSUME ServerInv, ServerThread, NEW w \in WorkerId
  PROVE  [Promise(w)!LifeNext]_(Promise(w)!lifevars)
<1>. USE DEF ServerInv, Typed
<1>1. CASE Start \/ TestRunning \/ AcceptNone \/ AcceptFails \/ Join
  BY <1>1, OthersKeep DEF Start, TestRunning, AcceptNone, AcceptFails, Join, workervars
<1>2. CASE Spawn
  <2>1. CASE i = w
    <3>1. life[w] = "unborn" /\ life'[w] = "idle" /\ UNCHANGED <<flag, conn>>
      BY <1>2, <2>1 DEF Spawn, Births
    <3>. QED
      BY <3>1 DEF Promise!lifevars
  <2>2. CASE i # w
    BY <1>2, <2>2, OthersKeep DEF Spawn
  <2>. QED
    BY <2>1, <2>2
<1>3. CASE StopWorker
  <2>1. CASE i = w
    BY <1>3, <2>1 DEF StopWorker, Promise!LifeNext, Promise!Lower
  <2>2. CASE i # w
    BY <1>3, <2>2, OthersKeep DEF StopWorker
  <2>. QED
    BY <2>1, <2>2
<1>4. ASSUME NEW fd \in Fd, AcceptClient(fd)
      PROVE  [Promise(w)!LifeNext]_(Promise(w)!lifevars)
  <2>1. PICK v \in WorkerId : conn' = [conn EXCEPT ![v][fd] = "queued"]
    <3>1. load_balancing % NWorkers \in WorkerId
      OBVIOUS
    <3>. QED
      BY <1>4, <3>1, Zenon DEF AcceptClient
  <2>2. conn[w][fd] = "closed" /\ UNCHANGED <<life, flag>>
    BY <1>4 DEF AcceptClient, Free
  <2>3. CASE v = w
    <3>1. conn'[w] = [conn[w] EXCEPT ![fd] = "queued"]
      BY <2>1, <2>3
    <3>2. Promise(w)!Accept(fd)
      BY <2>2, <3>1 DEF Promise!Accept
    <3>. QED
      BY <3>2 DEF Promise!LifeNext
  <2>4. CASE v # w
    BY <2>1, <2>2, <2>4, OthersKeep
  <2>. QED
    BY <2>3, <2>4
<1>. QED
  BY <1>1, <1>2, <1>3, <1>4 DEF ServerThread

\* A step of a worker thread is a step that WorkerLife allows ...
LEMMA WorkerThreadAsPromised ==
  ASSUME ServerInv, NEW w \in WorkerId, WorkerThread(w) \/ Crash(w)
  PROVE  Promise(w)!LifeNext
<1>. USE DEF ServerInv, Typed, At
<1>1. CASE Begin(w)
  BY <1>1 DEF Begin, Promise!LifeNext, Promise!Begin
<1>2. CASE Notice(w)
  BY <1>2 DEF Notice, Promise!LifeNext, Promise!Notice
<1>3. CASE Return(w)
  BY <1>3 DEF Return, Promise!LifeNext, Promise!Return
<1>4. ASSUME NEW fd \in Fd, TakeUp(w, fd)
      PROVE  Promise(w)!LifeNext
  <2>1. conn'[w] = [conn[w] EXCEPT ![fd] = "active"]
    BY <1>4 DEF TakeUp
  <2>. QED
    BY <1>4, <2>1 DEF TakeUp, Promise!LifeNext, Promise!TakeUp
<1>5. ASSUME NEW fd \in Fd, Close(w, fd)
      PROVE  Promise(w)!LifeNext
  <2>1. conn'[w] = [conn[w] EXCEPT ![fd] = "closed"]
    BY <1>5 DEF Close
  <2>. QED
    BY <1>5, <2>1 DEF Close, Promise!LifeNext, Promise!Close
<1>6. CASE Crash(w)
  BY <1>6 DEF Crash, Promise!LifeNext, Promise!Crash
<1>. QED
  BY <1>1, <1>2, <1>3, <1>4, <1>5, <1>6 DEF WorkerThread

LEMMA WorkerThreadLeavesOthers ==
  ASSUME ServerInv, NEW v \in WorkerId, NEW w \in WorkerId, v # w,
         WorkerThread(v) \/ Crash(v)
  PROVE  UNCHANGED <<life[w], flag[w], conn[w]>>
BY DEF ServerInv, Typed, WorkerThread, Begin, Notice, Return, TakeUp, Close, Crash

\* Seen from any one of its workers, the server does only what WorkerLife allows:
\* it hands over a descriptor only if the worker holds nothing there, and lowers
\* the flag, and the worker does what http::Worker was shown to do.
THEOREM ServerKeepsToLife ==
  ASSUME NEW w \in WorkerId
  PROVE  Spec => Promise(w)!LifeSpec
<1>1. Init => Promise(w)!LifeInit
  BY DEF Init, Promise!LifeInit
<1>2. ASSUME ServerInv, [Next]_vars
      PROVE  [Promise(w)!LifeNext]_(Promise(w)!lifevars)
  <2>1. CASE ServerThread
    BY <1>2, <2>1, ServerThreadAsPromised
  <2>2. CASE Stop \/ Connect \/ Terminated \/ UNCHANGED vars
    BY <1>2, <2>2, OthersKeep DEF Stop, Connect, Terminated, vars, workervars
  <2>3. ASSUME NEW v \in WorkerId, WorkerThread(v) \/ Crash(v)
        PROVE  [Promise(w)!LifeNext]_(Promise(w)!lifevars)
    <3>1. CASE v = w
      BY <1>2, <2>3, <3>1, WorkerThreadAsPromised
    <3>2. CASE v # w
      BY <1>2, <2>3, <3>2, WorkerThreadLeavesOthers, OthersKeep
    <3>. QED
      BY <3>1, <3>2
  <2>. QED
    BY <1>2, <2>1, <2>2, <2>3 DEF Next
<1>. QED
  BY <1>1, <1>2, ServerAlways, PTL DEF Spec, Promise!LifeSpec

\* What a worker may do of its own accord in WorkerLife.  (An exception, its
\* Crash, ends the whole process here.)
OwnStep(w) ==
  \/ Promise(w)!Begin \/ Promise(w)!Notice \/ Promise(w)!Return
  \/ \E fd \in Fd : Promise(w)!TakeUp(fd) \/ Promise(w)!Close(fd)

\* Conversely, the server is prepared for every worker that WorkerLife describes,
\* and so for http::Worker: until the process is terminated, a step that a born
\* worker takes by itself there is a step of its thread here.
THEOREM ServerAdmitsEveryWorker ==
  ASSUME ServerInv, NEW w \in WorkerId, pc # "terminated",
         life[w] # "unborn", life'[w] # "unborn",
         OwnStep(w), UNCHANGED servervars,
         life' = [life EXCEPT ![w] = life'[w]],
         flag' = [flag EXCEPT ![w] = flag'[w]],
         conn' = [conn EXCEPT ![w] = conn'[w]]
  PROVE  WorkerThread(w)
<1>. USE DEF ServerInv, Typed, At
<1>1. CASE Promise(w)!Begin
  BY <1>1 DEF Promise!Begin, Begin, WorkerThread
<1>2. CASE Promise(w)!Notice
  BY <1>2 DEF Promise!Notice, Notice, WorkerThread
<1>3. CASE Promise(w)!Return
  BY <1>3 DEF Promise!Return, Return, WorkerThread
<1>4. ASSUME NEW fd \in Fd, Promise(w)!TakeUp(fd)
      PROVE  WorkerThread(w)
  <2>1. conn' = [conn EXCEPT ![w][fd] = "active"]
    BY <1>4 DEF Promise!TakeUp
  <2>2. life'[w] = life[w] /\ flag'[w] = flag[w]
    BY <1>4 DEF Promise!TakeUp
  <2>3. UNCHANGED <<life, flag>>
    BY <2>2
  <2>4. TakeUp(w, fd)
    BY <1>4, <2>1, <2>3 DEF Promise!TakeUp, TakeUp
  <2>. QED
    BY <2>4 DEF WorkerThread
<1>5. ASSUME NEW fd \in Fd, Promise(w)!Close(fd)
      PROVE  WorkerThread(w)
  <2>1. conn' = [conn EXCEPT ![w][fd] = "closed"]
    BY <1>5 DEF Promise!Close
  <2>2. life'[w] = life[w] /\ flag'[w] = flag[w]
    BY <1>5 DEF Promise!Close
  <2>3. UNCHANGED <<life, flag>>
    BY <2>2
  <2>4. Close(w, fd)
    BY <1>5, <2>1, <2>3 DEF Promise!Close, Close
  <2>. QED
    BY <2>4 DEF WorkerThread
<1>. QED
  BY <1>1, <1>2, <1>3, <1>4, <1>5 DEF OwnStep

=============================================================================
