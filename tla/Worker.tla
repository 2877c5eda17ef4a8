------------------------------ MODULE Worker ------------------------------
(***************************************************************************)
(* One http::Worker thread (src/http/Worker.cpp) with the client states    *)
(* and request readers it drives (src/http/ClientState.cpp): an epoll loop *)
(* that resumes one coroutine per connection, sweeps its clients when      *)
(* epoll_wait times out, and drains them when it is stopped.               *)
(*                                                                         *)
(* The server thread runs concurrently (AddClient, Stop), and so do the    *)
(* peers and the clock.  Between two system calls the worker thread        *)
(* touches only its own memory, so one iteration of a reading or writing   *)
(* loop is two steps: the time-out test, which asks the clock, and one     *)
(* read or write with what follows from it.                                *)
(***************************************************************************)
EXTENDS Sockets, Integers, FiniteSets

CONSTANTS
  Ends,       \* the ways in which a peer may end a connection
  BufSize,    \* units that one read() takes at most (400 octets)
  BodyLen,    \* the Content-Length of a request that has one
  RespLen,    \* units of a response
  MaxEvents,  \* epoll_size
  NoFd

\* Units of data: the end of a head, named for what the head says, or octets
\* that end no head.  `bad` is a head that HTTP::Request cannot parse and
\* `badlen` one whose Content-Length is not a number.
HeadKind == {"get", "get_ka", "post", "post_ka", "bad", "badlen"}
SaysKeepAlive(h) == h \in {"get_ka", "post_ka"}
HasLength(h) == h \in {"post", "post_ka"}

ASSUME UnitAssumption == Unit \subseteq HeadKind \cup {"octets"}
ASSUME EndsAssumption == Ends \subseteq {"eof", "reset", "error"}
ASSUME SizesAssumption ==
  {BufSize, BodyLen, RespLen, MaxEvents} \subseteq Nat \ {0}
ASSUME NoFdAssumption == NoFd \notin Fd
ASSUME FdAssumption == IsFiniteSet(Fd)

VARIABLES
  routines, finished, current,  \* the thread's Ordinator
  running,  \* Worker::running
  stopped,  \* stop() was called
  clients,  \* Worker::clients; a client with id 0 is not in the map
  expired,  \* clients that started more than 10 seconds ago
  phase,    \* where run() is
  todo,     \* descriptors the current for loop has still to visit
  cur,      \* the descriptor it visits
  step      \* how far it is with that one; a running coroutine's loop is at
            \* its time-out test ("check") or past it, at its call ("call")

\* A suspended serveClient(): in readHead, in readBody with n octets to read,
\* or in sendResponse with n to write.  `to_read` is a size_t: a body longer
\* than Content-Length takes it below zero to a value no stream ever counts
\* down, written Wrapped.
Wrapped == -1

\* Faulty variant: the counter is signed.
LessSigned(n, k) == n - k

Less(n, k) == IF n = Wrapped \/ k > n THEN Wrapped ELSE n - k
InHead == [at |-> "head", n |-> 0]
InBody(n) == [at |-> "body", n |-> n]
InSend(n) == [at |-> "send", n |-> n]
ServeFrame == [at : {"head", "body", "send"}, n : Nat \cup {Wrapped}]

INSTANCE Coroutine WITH
  Func <- Fd, Frame <- ServeFrame, StartFrame <- InHead, MaxRoutines <- 0

ordinator == <<routines, finished, current>>
loopvars == <<running, stopped, phase, todo, cur, step>>
vars == <<sockvars, ordinator, loopvars, clients, expired>>

Reading == "ReadingRequest"
Writing == "WritingResponse"
ClientState(id) ==
  [id |-> id, keep_alive |-> FALSE, process_state |-> Reading, timed_out_ |-> FALSE]
NoClient == ClientState(0)

Phase == {"idle", "loop", "wait", "events", "sweep", "drain", "done", "terminated"}
Step == {"next", "handle", "check", "call", "erase"}

TypeOK ==
  /\ SockTypeOK
  /\ CoTypeOK
  /\ running \in BOOLEAN /\ stopped \in BOOLEAN
  /\ clients \in [Fd -> [id : Nat, keep_alive : BOOLEAN,
                         process_state : {Reading, Writing}, timed_out_ : BOOLEAN]]
  /\ expired \subseteq Fd
  /\ phase \in Phase
  /\ todo \subseteq Fd
  /\ cur \in Fd \cup {NoFd}
  /\ step \in Step

Init ==
  /\ SockInit
  /\ CoInit
  /\ running = FALSE /\ stopped = FALSE
  /\ clients = [fd \in Fd |-> NoClient]
  /\ expired = {}
  /\ phase = "idle"
  /\ todo = {}
  /\ cur = NoFd
  /\ step = "next"

InMap(fd) == clients[fd].id # 0
Clients == {fd \in Fd : InMap(fd)}
Ended == phase \in {"done", "terminated"}

\* ClientState::timed_out()
TimedOut(fd) == clients[fd].timed_out_ \/ fd \in expired

-----------------------------------------------------------------------------
(* The server thread and the environment. *)

\* Server::acceptClient hands a connection over; it does so before it stops
\* its workers.
AddClient(fd) ==
  /\ ~Ended /\ ~stopped
  /\ OpenSocket(fd)
  /\ UNCHANGED <<ordinator, loopvars, clients, expired>>

Stop ==
  /\ ~Ended /\ ~stopped
  /\ running' = FALSE
  /\ stopped' = TRUE
  /\ UNCHANGED <<sockvars, ordinator, phase, todo, cur, step, clients, expired>>

\* The clock passes a client's limit.
Expire(fd) ==
  /\ ~Ended /\ InMap(fd) /\ fd \notin expired
  /\ expired' = expired \cup {fd}
  /\ UNCHANGED <<sockvars, ordinator, loopvars, clients>>

Peer(fd) ==
  /\ ~Ended
  /\ \/ \E u \in Unit : Deliver(fd, u)
     \/ \E how \in Ends : PeerEnds(fd, how)
     \/ PeerReads(fd)
  /\ UNCHANGED <<ordinator, loopvars, clients, expired>>

-----------------------------------------------------------------------------
(* Worker::run: the loops. *)

Start ==
  /\ phase = "idle"
  /\ running' = TRUE
  /\ phase' = "loop"
  /\ UNCHANGED <<sockvars, ordinator, stopped, todo, cur, step, clients, expired>>

\* while (running): at the start, and when a for loop has visited all it had
\* to.  On stop run() goes on to the drain.
TestRunning ==
  /\ phase = "loop" \/ (phase \in {"events", "sweep"} /\ step = "next" /\ todo = {})
  /\ \/ running /\ phase' = "wait" /\ UNCHANGED todo
     \/ ~running /\ phase' = "drain" /\ todo' = Clients
  /\ UNCHANGED <<sockvars, ordinator, running, stopped, cur, step, clients, expired>>

\* epoll_wait reports as many of the ready descriptors as its array holds.
WaitEvents ==
  /\ phase = "wait"
  /\ \E batch \in SUBSET Ready :
       /\ batch # {}
       /\ \/ batch = Ready /\ Cardinality(Ready) <= MaxEvents
          \/ Cardinality(batch) = MaxEvents
       /\ Report(batch)
       /\ todo' = batch
  /\ phase' = "events"
  /\ UNCHANGED <<ordinator, running, stopped, cur, step, clients, expired>>

\* Faulty variant: nobody is visited when epoll_wait times out.
WaitAgain ==
  /\ phase = "wait"
  /\ Ready = {}
  /\ phase' = "sweep"
  /\ todo' = {}
  /\ UNCHANGED <<sockvars, ordinator, running, stopped, cur, step, clients, expired>>

\* Two seconds without an event: visit all the clients.
WaitTimeout ==
  /\ phase = "wait"
  /\ Ready = {}
  /\ phase' = "sweep"
  /\ todo' = Clients
  /\ UNCHANGED <<sockvars, ordinator, running, stopped, cur, step, clients, expired>>

\* EINTR: run() tests `running` again.  While it is true the thread is back in
\* epoll_wait and nothing has changed.
WaitInterrupted ==
  /\ phase = "wait"
  /\ ~running
  /\ phase' = "drain"
  /\ todo' = Clients
  /\ UNCHANGED <<sockvars, ordinator, running, stopped, cur, step, clients, expired>>

\* handleClient(fd) begins: resume(client.id), which does nothing when that
\* routine has ended.
ResumeClient(fd) ==
  /\ step' = "check"
  /\ \/ Resume(clients[fd].id)
     \/ ~Resumable(clients[fd].id) /\ UNCHANGED ordinator

\* Faulty variant: the event of a descriptor without a client is dropped.
TakeKnownEvent(fd) ==
  /\ phase = "events" /\ step = "next" /\ fd \in todo
  /\ todo' = todo \ {fd}
  /\ cur' = fd
  /\ \/ InMap(fd) /\ ResumeClient(fd)
     \/ ~InMap(fd) /\ UNCHANGED <<ordinator, step>>
  /\ UNCHANGED <<sockvars, running, stopped, phase, clients, expired>>

\* One event.  A descriptor without a client first gets a coroutine and a
\* state.
TakeEvent(fd) ==
  /\ phase = "events" /\ step = "next" /\ fd \in todo
  /\ todo' = todo \ {fd}
  /\ cur' = fd
  /\ \/ InMap(fd) /\ ResumeClient(fd) /\ UNCHANGED clients
     \/ /\ ~InMap(fd)
        /\ Create(fd)
        /\ clients' = [clients EXCEPT ![fd] = ClientState(NextId)]
        /\ step' = "handle"
  /\ UNCHANGED <<sockvars, running, stopped, phase, expired>>

HandleNewClient ==
  /\ step = "handle"
  /\ ResumeClient(cur)
  /\ UNCHANGED <<sockvars, running, stopped, phase, todo, cur, clients, expired>>

\* One client of a sweep, or of the drain, which marks it timed out first.
TakeClient(fd) ==
  /\ phase \in {"sweep", "drain"} /\ step = "next" /\ fd \in todo
  /\ todo' = todo \ {fd}
  /\ cur' = fd
  /\ clients' = [clients EXCEPT ![fd].timed_out_ = @ \/ phase = "drain"]
  /\ ResumeClient(fd)
  /\ UNCHANGED <<sockvars, running, stopped, phase, expired>>

\* Faulty variant: one pass over the clients.
TestOnce ==
  /\ phase = "drain" /\ step = "next" /\ todo = {}
  /\ phase' = "done"
  /\ UNCHANGED <<sockvars, ordinator, running, stopped, todo, cur, step, clients, expired>>

\* while (clients.size() != 0): the drain repeats until the map is empty.
TestEmpty ==
  /\ phase = "drain" /\ step = "next" /\ todo = {}
  /\ \/ Clients # {} /\ todo' = Clients /\ UNCHANGED phase
     \/ Clients = {} /\ phase' = "done" /\ UNCHANGED todo
  /\ UNCHANGED <<sockvars, ordinator, running, stopped, cur, step, clients, expired>>

-----------------------------------------------------------------------------
(* Worker::handleClient, once resume() is back. *)

\* resume() is back, with an exception of the routine or without.
Returned(throws) ==
  /\ step = "check" /\ current = 0
  /\ routines[clients[cur].id].exception = throws

\* Faulty variant: a client is dropped whether its coroutine has ended or not.
MustCloseAnyTime == ~clients[cur].keep_alive \/ TimedOut(cur)

\* Faulty variant: the time-out does not count.
MustCloseUnlessKept == Finished(clients[cur].id) /\ ~clients[cur].keep_alive

MustClose ==
  Finished(clients[cur].id) /\ (~clients[cur].keep_alive \/ TimedOut(cur))

\* resume() rethrows what ended the routine; nothing catches it in the thread,
\* so the process is terminated.
Rethrow ==
  /\ Returned(TRUE)
  /\ phase' = "terminated"
  /\ step' = "next"
  /\ cur' = NoFd
  /\ UNCHANGED <<sockvars, ordinator, running, stopped, todo, clients, expired>>

CloseClient ==
  /\ Returned(FALSE)
  /\ MustClose
  /\ CloseSocket(cur)
  /\ step' = "erase"
  /\ UNCHANGED <<ordinator, running, stopped, phase, todo, cur, clients, expired>>

\* Faulty variant: the client stays in the map.
EraseNothing ==
  /\ step = "erase"
  /\ step' = "next"
  /\ cur' = NoFd
  /\ UNCHANGED <<sockvars, ordinator, running, stopped, phase, todo, clients, expired>>

\* handleClient returned true: run() erases the client from the map.  The
\* descriptor is already free, and may be a new connection by now.
Erase ==
  /\ step = "erase"
  /\ clients' = [clients EXCEPT ![cur] = NoClient]
  /\ expired' = expired \ {cur}
  /\ step' = "next"
  /\ cur' = NoFd
  /\ UNCHANGED <<sockvars, ordinator, running, stopped, phase, todo>>

\* Faulty variant: only a client that reads is armed again.
RearmReaders ==
  /\ Returned(FALSE)
  /\ ~MustClose
  /\ \/ clients[cur].process_state = Reading /\ Arm(cur, "in")
     \/ clients[cur].process_state = Writing /\ UNCHANGED sockvars
  /\ step' = "next"
  /\ cur' = NoFd
  /\ UNCHANGED <<ordinator, running, stopped, phase, todo, clients, expired>>

Rearm ==
  /\ Returned(FALSE)
  /\ ~MustClose
  /\ Arm(cur, IF clients[cur].process_state = Reading THEN "in" ELSE "out")
  /\ step' = "next"
  /\ cur' = NoFd
  /\ UNCHANGED <<ordinator, running, stopped, phase, todo, clients, expired>>

-----------------------------------------------------------------------------
(* serveClient in the running coroutine, with readRequest and sendResponse. *)

RunFd == routines[current].func
RunFrame == routines[current].stack
RunClient == clients[RunFd]
SetRunClient(c) == clients' = [clients EXCEPT ![RunFd] = c]

\* Faulty variant: the state is changed after the response is sent.
RespondLate(client) ==
  /\ SetRunClient(client)
  /\ Run(InSend(RespLen))

\* formResponse, which may throw, and sendResponse as far as its loop.
Respond(client) ==
  \/ /\ SetRunClient([client EXCEPT !.process_state = Writing])
     /\ Run(InSend(RespLen))
  \/ SetRunClient(client) /\ Entry(TRUE)

\* Faulty variant: a loop tests the time-out once, before it begins.
BackToCall ==
  /\ step' = IF current' # 0 THEN "call" ELSE "check"
  /\ UNCHANGED <<running, stopped, phase, todo, cur>>

\* Back to the head of the loop, where the time-out is tested; also on the way
\* from one loop to the next, and out of serveClient.
BackToTest == step' = "check" /\ UNCHANGED <<running, stopped, phase, todo, cur>>

\* The time-out test of readHead, readBody or sendResponse, passed.
TestClock ==
  /\ step = "check" /\ current # 0
  /\ ~TimedOut(RunFd)
  /\ step' = "call"
  /\ UNCHANGED <<sockvars, ordinator, running, stopped, phase, todo, cur, clients, expired>>

\* The same test, failed: readHead and sendResponse give up, and serveClient
\* returns; when readBody does, the request is served all the same.
GiveUp ==
  /\ step = "check" /\ current # 0
  /\ TimedOut(RunFd)
  /\ \/ RunFrame.at # "body" /\ Entry(FALSE) /\ UNCHANGED clients
     \/ RunFrame.at = "body" /\ Respond(RunClient)
  /\ BackToTest
  /\ UNCHANGED <<sockvars, expired>>

\* One of the loops has passed its time-out test and makes its call, whatever
\* the clock says by now.
Serving(at) == step = "call" /\ current # 0 /\ RunFrame.at = at
ReadingNow == Serving("head") \/ Serving("body")

\* read() failed with EAGAIN.
ReadBlocked ==
  /\ ReadingNow
  /\ ~Readable(RunFd)
  /\ Yield
  /\ BackToTest
  /\ UNCHANGED <<sockvars, clients, expired>>

\* read() returned 0 or ECONNRESET.  A request whose body is cut short is
\* served without it.
ReadClosed ==
  /\ ReadingNow
  /\ rcv[RunFd] = <<>> /\ peer[RunFd] \in {"eof", "reset"}
  /\ \/ /\ RunFrame.at = "head"
        /\ SetRunClient([RunClient EXCEPT !.keep_alive = FALSE])
        /\ Entry(FALSE)
     \/ /\ RunFrame.at = "body"
        /\ Respond([RunClient EXCEPT !.keep_alive = FALSE])
  /\ BackToTest
  /\ UNCHANGED <<sockvars, expired>>

\* read() failed otherwise: readHead and readBody throw.
ReadFails ==
  /\ ReadingNow
  /\ rcv[RunFd] = <<>> /\ peer[RunFd] = "error"
  /\ Entry(TRUE)
  /\ BackToTest
  /\ UNCHANGED <<sockvars, clients, expired>>

\* The number of units that read() returns.
Chunk == IF Len(rcv[RunFd]) < BufSize THEN Len(rcv[RunFd]) ELSE BufSize

\* readHead: no end of head in this piece.
ReadHeadPart ==
  /\ Serving("head") /\ Chunk > 0
  /\ \A i \in 1 .. Chunk : rcv[RunFd][i] \notin HeadKind
  /\ Take(RunFd, Chunk)
  /\ UNCHANGED <<ordinator, clients, expired>>
  /\ BackToTest

\* readRequest with the head `h`, after which the same read() took `extra`
\* units: part of the body when there is a Content-Length, else dropped.
ParseHead(h, extra) ==
  LET client == [RunClient EXCEPT !.keep_alive = @ \/ SaysKeepAlive(h)]
      need == Less(BodyLen, extra)
  IN \/ h = "bad" /\ Entry(FALSE) /\ UNCHANGED clients
     \/ h = "badlen" /\ Entry(TRUE) /\ UNCHANGED clients
     \/ /\ h \notin {"bad", "badlen"}
        /\ ~HasLength(h) \/ need = 0
        /\ Respond(client)
     \/ /\ HasLength(h) /\ need # 0
        /\ Run(InBody(need))
        /\ SetRunClient(client)

ReadHeadEnd ==
  /\ Serving("head")
  /\ \E i \in 1 .. Chunk :
       /\ rcv[RunFd][i] \in HeadKind
       /\ \A j \in 1 .. i - 1 : rcv[RunFd][j] \notin HeadKind
       /\ ParseHead(rcv[RunFd][i], Chunk - i)
  /\ Take(RunFd, Chunk)
  /\ BackToTest
  /\ UNCHANGED expired

ReadBody ==
  /\ Serving("body") /\ Chunk > 0
  /\ LET need == Less(RunFrame.n, Chunk)
     IN \/ need = 0 /\ Respond(RunClient)
        \/ need # 0 /\ Run(InBody(need)) /\ UNCHANGED clients
  /\ Take(RunFd, Chunk)
  /\ BackToTest
  /\ UNCHANGED expired

WriteBlocked ==
  /\ Serving("send")
  /\ ~Writable(RunFd)
  /\ Yield
  /\ BackToTest
  /\ UNCHANGED <<sockvars, clients, expired>>

\* write() to a broken connection: an exception, or SIGPIPE.
WriteFails ==
  /\ Serving("send")
  /\ Broken(RunFd)
  /\ Entry(TRUE)
  /\ BackToTest
  /\ UNCHANGED <<sockvars, clients, expired>>

\* write() takes n units; after the last one serveClient reads the next
\* request of a kept-alive connection, or returns.
Write(n) ==
  /\ Serving("send")
  /\ ~Broken(RunFd) /\ n <= room[RunFd] /\ n <= RunFrame.n
  /\ Put(RunFd, n)
  /\ \/ /\ n < RunFrame.n
        /\ Run(InSend(RunFrame.n - n))
        /\ UNCHANGED clients
     \/ /\ n = RunFrame.n /\ RunClient.keep_alive
        /\ SetRunClient([RunClient EXCEPT !.process_state = Reading])
        /\ Run(InHead)
     \/ /\ n = RunFrame.n /\ ~RunClient.keep_alive
        /\ Entry(FALSE)
        /\ UNCHANGED clients
  /\ BackToTest
  /\ UNCHANGED expired

-----------------------------------------------------------------------------
\* A step of the worker thread.
Loop ==
  \/ Start \/ TestRunning \/ WaitEvents \/ WaitTimeout
  \/ \E fd \in Fd : TakeEvent(fd) \/ TakeClient(fd)
  \/ TestEmpty

HandleClient == HandleNewClient \/ Rethrow \/ CloseClient \/ Erase \/ Rearm

ServeClient ==
  \/ TestClock \/ GiveUp
  \/ ReadBlocked \/ ReadClosed \/ ReadFails
  \/ ReadHeadPart \/ ReadHeadEnd \/ ReadBody
  \/ WriteBlocked \/ WriteFails
  \/ \E n \in 1 .. RespLen : Write(n)

Thread == Loop \/ HandleClient \/ ServeClient

\* When run() has returned, or the process is gone, nothing is left to do.
Terminated == Ended /\ UNCHANGED vars

Next ==
  \/ Thread \/ WaitInterrupted
  \/ Stop
  \/ \E fd \in Fd : AddClient(fd) \/ Expire(fd) \/ Peer(fd)
  \/ Terminated

Spec == Init /\ [][Next]_vars

\* Where the thread is: each of its steps changes this, and nobody else does.
place == <<phase, todo, cur, step, ordinator>>
Expires == \E fd \in Fd : Expire(fd)

\* The thread is scheduled, signals do not interrupt epoll_wait for ever, and
\* the clock runs on: it is what ends the service of a peer that always has
\* more input ready.  These are the weak fairness of Thread and of Expires, with
\* the states in which each is enabled spelled out.
Fairness ==
  /\ []<>Ended \/ []<><<TRUE>>_place
  /\ []<>(Ended \/ Clients \subseteq expired) \/ []<><<Expires>>_vars

FairSpec == Spec /\ Fairness

-----------------------------------------------------------------------------
(* Safety. *)

\* Every routine that has not ended belongs to a client in the map, under the
\* id the client keeps, on an open descriptor: serveClient's reference into the
\* map and its fd never dangle, and there are never more routines than
\* descriptors, however ids are recycled.
RoutinesOwned ==
  /\ \A id \in 1 .. Len(routines) :
       ~routines[id].finished =>
         LET fd == routines[id].func IN clients[fd].id = id /\ Open(fd)
  /\ Len(routines) <= Cardinality(Fd)

\* A client in the map has an open, registered descriptor, except between
\* handleClient's close() and run()'s erase(): clients.at(fd) and
\* EPOLL_CTL_MOD never throw, and no descriptor is closed twice.
ClientsOpen ==
  /\ \A fd \in Clients : Open(fd) \/ (step = "erase" /\ cur = fd)
  /\ step # "next" => InMap(cur)
  /\ todo \subseteq {fd \in Fd : Open(fd)}

\* When the worker blocks in epoll_wait, every connection it holds is armed:
\* the one-shot registration is renewed on every path through handleClient.
AllArmed == phase = "wait" => \A fd \in Fd : epoll[fd] # "off"

\* With well-formed heads: whenever the worker blocks in epoll_wait, each client's own
\* coroutine is suspended, and the client is armed for the event that this
\* coroutine waits for.  A mismatch is a lost wake-up.
WakesWhenNeeded ==
  phase = "wait" =>
    \A fd \in Clients :
      LET r == routines[clients[fd].id]
      IN /\ r.func = fd /\ ~r.finished
         /\ epoll[fd] = IF r.stack.at = "send" THEN "out" ELSE "in"

\* handleClient resumes the coroutine of the client it handles.
ResumesOwnCoroutine == current # 0 => RunFd = cur

-----------------------------------------------------------------------------
(* Liveness. *)

\* A worker that finds itself stopped drains its clients and returns: the
\* drain's passes come to an end although handles may be stale.  Nothing raises
\* the flag again, so that it is enough not to stay in run() with the flag down.
StopDrains == []<>(Ended \/ running \/ phase = "idle")

\* What a peer sends is read, unless the worker waits to write to it, or the
\* connection is closed.
InputConsumed ==
  \A fd \in Fd : []<>(rcv[fd] = <<>> \/ epoll[fd] = "out" \/ Ended)

\* If epoll_wait times out again and again, every client that passed its limit
\* is closed.
ExpiredClosed ==
  []<>(phase = "sweep") => \A fd \in Fd : []<>(fd \notin expired)

-----------------------------------------------------------------------------
(* What the worker promises to the server. *)

LifeOfPhase ==
  [idle |-> "idle", loop |-> "serving", wait |-> "serving", events |-> "serving",
   sweep |-> "serving", drain |-> "draining", done |-> "ended",
   terminated |-> "crashed"]

\* A closed descriptor that is not erased yet no longer counts as a client.
ConnOf(fd) ==
  IF ~Open(fd) THEN "closed"
  ELSE IF InMap(fd) /\ ~(step = "erase" /\ cur = fd) THEN "active"
  ELSE "queued"

Promise == INSTANCE WorkerLife WITH
  life <- LifeOfPhase[phase], flag <- running, conn <- [fd \in Fd |-> ConnOf(fd)]

\* The worker implements WorkerLife: each connection is taken up and closed
\* once, never by way of a reused number, the loop is left only with the flag
\* down, and run() returns only when no client is left in the map.
KeepsPromise == Promise!LifeSpec

=============================================================================
