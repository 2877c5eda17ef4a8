----------------------------- MODULE HttpServer -----------------------------
(***************************************************************************)
(* http::Server (src/http/Server.cpp) with its worker threads: run() spawns *)
(* the threads, accepts connections and deals them out in turn, and on     *)
(* stop() lowers every worker's flag and joins the threads.  Each worker    *)
(* behaves as WorkerLife allows (module Worker shows that http::Worker      *)
(* does); an exception in any thread terminates the process.               *)
(***************************************************************************)
EXTENDS Naturals, FiniteSets

CONSTANTS
  NWorkers,   \* worker_count
  Fd,         \* descriptors the process may use for connections
  Backlog,    \* bound on connections that wait to be accepted
  MaxAccepts  \* bound on the connections made in a behaviour

\* With no workers the round-robin would divide by zero.
ASSUME NWorkersAssumption == NWorkers \in Nat \ {0}
ASSUME BoundsAssumption == Backlog \in Nat /\ MaxAccepts \in Nat

WorkerId == 0 .. NWorkers - 1

VARIABLES
  running,         \* Server::running
  asked,           \* stop() was called
  pc,              \* where Server::run is
  i,               \* the index of its for loops
  load_balancing,  \* connections dealt out
  backlog,         \* connections waiting in the listening socket
  given,           \* per worker, connections dealt to it
  life, flag, conn \* per worker, as in WorkerLife

servervars == <<running, asked, pc, i, load_balancing, backlog, given>>
workervars == <<life, flag, conn>>
vars == <<servervars, workervars>>

PC == {"idle", "spawn", "test", "accept", "stop", "join", "returned", "terminated"}
Over == pc \in {"returned", "terminated"}

ServerTypeOK ==
  /\ running \in BOOLEAN /\ asked \in BOOLEAN
  /\ pc \in PC
  /\ i \in WorkerId
  /\ load_balancing \in 0 .. MaxAccepts
  /\ backlog \in 0 .. Backlog
  /\ given \in [WorkerId -> 0 .. MaxAccepts]
  /\ life \in [WorkerId -> {"unborn", "idle", "serving", "draining", "ended", "crashed"}]
  /\ flag \in [WorkerId -> BOOLEAN]
  /\ conn \in [WorkerId -> [Fd -> {"closed", "queued", "active"}]]

Init ==
  /\ running = FALSE /\ asked = FALSE
  /\ pc = "idle"
  /\ i = 0
  /\ load_balancing = 0
  /\ backlog = 0
  /\ given = [w \in WorkerId |-> 0]
  /\ life = [w \in WorkerId |-> "unborn"]
  /\ flag = [w \in WorkerId |-> FALSE]
  /\ conn = [w \in WorkerId |-> [fd \in Fd |-> "closed"]]

-----------------------------------------------------------------------------
(* Callers and clients. *)

\* Faulty variant: stop() lowers the workers' flags itself.
StopAll ==
  /\ ~Over /\ ~asked
  /\ asked' = TRUE
  /\ running' = FALSE
  /\ flag' = [w \in WorkerId |-> FALSE]
  /\ UNCHANGED <<pc, i, load_balancing, backlog, given, life, conn>>

\* Server::stop, from any thread.
Stop ==
  /\ ~Over /\ ~asked
  /\ asked' = TRUE
  /\ running' = FALSE
  /\ UNCHANGED <<pc, i, load_balancing, backlog, given, workervars>>

Connect ==
  /\ ~Over
  /\ backlog < Backlog /\ load_balancing + backlog < MaxAccepts
  /\ backlog' = backlog + 1
  /\ UNCHANGED <<running, asked, pc, i, load_balancing, given, workervars>>

-----------------------------------------------------------------------------
(* Server::run *)

Start ==
  /\ pc = "idle"
  /\ running' = TRUE
  /\ pc' = "spawn"
  /\ UNCHANGED <<asked, i, load_balancing, backlog, given, workervars>>

\* Faulty variant: the index runs past the last worker.
IterateOn(then) ==
  /\ i' = i + 1
  /\ pc' \in {pc, then}

\* One iteration of a for loop over the workers, which goes on at `then`.
Iterate(then) ==
  \/ i + 1 < NWorkers /\ i' = i + 1 /\ pc' = pc
  \/ i + 1 = NWorkers /\ i' = 0 /\ pc' = then

\* executors.emplace_back: thread i exists and has yet to enter Worker::run.
Spawn ==
  /\ pc = "spawn"
  /\ life' = [life EXCEPT ![i] = "idle"]
  /\ Iterate("test")
  /\ UNCHANGED <<running, asked, load_balancing, backlog, given, flag, conn>>

\* while (running)
TestRunning ==
  /\ pc = "test"
  /\ pc' = IF running THEN "accept" ELSE "stop"
  /\ UNCHANGED <<running, asked, i, load_balancing, backlog, given, workervars>>

\* epoll_wait timed out after 2 ms.
AcceptNone ==
  /\ pc = "accept"
  /\ backlog = 0
  /\ pc' = "test"
  /\ UNCHANGED <<running, asked, i, load_balancing, backlog, given, workervars>>

Free(fd) == \A w \in WorkerId : conn[w][fd] = "closed"

\* acceptClient: accept4 and addClient of the next worker in turn.
AcceptClient(fd) ==
  LET w == load_balancing % NWorkers
  IN /\ pc = "accept"
     /\ backlog > 0
     /\ Free(fd)
     /\ conn' = [conn EXCEPT ![w][fd] = "queued"]
     /\ given' = [given EXCEPT ![w] = @ + 1]
     /\ load_balancing' = load_balancing + 1
     /\ backlog' = backlog - 1
     /\ pc' = "test"
     /\ UNCHANGED <<running, asked, i, life, flag>>

\* accept4 fails for want of a descriptor: the exception leaves run(), which
\* destroys joinable threads.
AcceptFails ==
  /\ pc = "accept"
  /\ backlog > 0
  /\ ~\E fd \in Fd : Free(fd)
  /\ pc' = "terminated"
  /\ UNCHANGED <<running, asked, i, load_balancing, backlog, given, workervars>>

\* Faulty variant: the loop stops one worker short.
StopAllButLast ==
  /\ pc = "stop"
  /\ flag' = IF i + 1 = NWorkers THEN flag ELSE [flag EXCEPT ![i] = FALSE]
  /\ Iterate("join")
  /\ UNCHANGED <<running, asked, load_balancing, backlog, given, life, conn>>

StopWorker ==
  /\ pc = "stop"
  /\ flag' = [flag EXCEPT ![i] = FALSE]
  /\ Iterate("join")
  /\ UNCHANGED <<running, asked, load_balancing, backlog, given, life, conn>>

\* Faulty variant: run() returns without waiting.
Detach ==
  /\ pc = "join"
  /\ Iterate("returned")
  /\ UNCHANGED <<running, asked, load_balancing, backlog, given, workervars>>

Join ==
  /\ pc = "join"
  /\ life[i] = "ended"
  /\ Iterate("returned")
  /\ UNCHANGED <<running, asked, load_balancing, backlog, given, workervars>>

ServerThread ==
  \/ Start \/ Spawn \/ TestRunning \/ AcceptNone \/ AcceptFails \/ StopWorker \/ Join
  \/ \E fd \in Fd : AcceptClient(fd)

-----------------------------------------------------------------------------
(* The worker threads. *)

\* Thread w is at one of these points, and the process has not been terminated.
At(w, points) == pc # "terminated" /\ life[w] \in points

Begin(w) ==
  /\ At(w, {"idle"})
  /\ life' = [life EXCEPT ![w] = "serving"]
  /\ flag' = [flag EXCEPT ![w] = TRUE]
  /\ UNCHANGED <<servervars, conn>>

TakeUp(w, fd) ==
  /\ At(w, {"serving"})
  /\ conn[w][fd] = "queued"
  /\ conn' = [conn EXCEPT ![w][fd] = "active"]
  /\ UNCHANGED <<servervars, life, flag>>

Close(w, fd) ==
  /\ At(w, {"serving", "draining"})
  /\ conn[w][fd] = "active"
  /\ conn' = [conn EXCEPT ![w][fd] = "closed"]
  /\ UNCHANGED <<servervars, life, flag>>

Notice(w) ==
  /\ At(w, {"serving"})
  /\ ~flag[w]
  /\ life' = [life EXCEPT ![w] = "draining"]
  /\ UNCHANGED <<servervars, flag, conn>>

Return(w) ==
  /\ At(w, {"draining"})
  /\ \A fd \in Fd : conn[w][fd] # "active"
  /\ life' = [life EXCEPT ![w] = "ended"]
  /\ UNCHANGED <<servervars, flag, conn>>

\* An exception in a thread: std::terminate.
Crash(w) ==
  /\ At(w, {"serving", "draining"})
  /\ life' = [life EXCEPT ![w] = "crashed"]
  /\ pc' = "terminated"
  /\ UNCHANGED <<running, asked, i, load_balancing, backlog, given, flag, conn>>

WorkerThread(w) ==
  \/ Begin(w) \/ Notice(w) \/ Return(w)
  \/ \E fd \in Fd : TakeUp(w, fd) \/ Close(w, fd)

\* Nothing is left to do when run() has returned or the process is gone.
Terminated == Over /\ UNCHANGED vars

Next ==
  \/ ServerThread \/ Stop \/ Connect
  \/ \E w \in WorkerId : WorkerThread(w) \/ Crash(w)
  \/ Terminated

Spec == Init /\ [][Next]_vars

\* The threads are scheduled.  That a draining worker closes its clients and
\* returns is what StopDrains of module Worker shows.
FairSpec ==
  /\ Spec
  /\ WF_vars(ServerThread)
  /\ \A w \in WorkerId :
       /\ WF_vars(Begin(w) \/ Notice(w) \/ Return(w))
       /\ \A fd \in Fd : WF_vars(life[w] = "draining" /\ Close(w, fd))

-----------------------------------------------------------------------------
\* acceptClient never hands a connection to a worker that has left its loop and
\* would never take it up.
HandsToServing ==
  [][\A w \in WorkerId :
       given'[w] # given[w] => life[w] \in {"idle", "serving"}]_vars

\* When run() has returned, every worker thread is over, no connection that a
\* worker took up is left open, and no worker's flag is left up.
ReturnedClean ==
  pc = "returned" =>
    \A w \in WorkerId :
      life[w] = "ended" /\ ~flag[w] /\ \A fd \in Fd : conn[w][fd] # "active"

\* Once all workers are in their loops, lowering the server's flag makes run()
\* return.
StopWhenServing ==
  (/\ pc \in {"test", "accept"} /\ ~running
   /\ \A w \in WorkerId : life[w] \notin {"unborn", "idle"}) ~> Over

\* stop() during run() makes run() return.
StopReturns == ~running /\ pc # "idle" ~> Over

=============================================================================
