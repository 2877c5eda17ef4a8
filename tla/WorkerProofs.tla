---------------------------- MODULE WorkerProofs ----------------------------
(***************************************************************************)
(* For every finite set of descriptors, every kind of data and ending, and *)
(* all sizes: what Worker's runs check on one or two descriptors.          *)
(***************************************************************************)
EXTENDS WorkerClock, FiniteSetTheorems, TLAPS

\* The library's lemmas, for coroutines that run serveClient.
Co == INSTANCE CoroutineProofs WITH
  Func <- Fd, Frame <- ServeFrame, StartFrame <- InHead, MaxRoutines <- 0

Client ==
  [id : Nat, keep_alive : BOOLEAN, process_state : {Reading, Writing},
   timed_out_ : BOOLEAN]

\* A suspended or running serveClient() belongs to the client of its descriptor,
\* which is open, and the client's state says what the coroutine is at.
RoutineOwned(id) ==
  LET fd == routines[id].func
  IN /\ clients[fd].id = id
     /\ Open(fd)
     /\ routines[id].stack.at = "send" <=> clients[fd].process_state = Writing

LiveOwned ==
  \A id \in 1 .. Len(routines) : ~routines[id].finished => RoutineOwned(id)

\* Where run() may be: what its phase and step say of the other variables.
LoopOK ==
  /\ step = "next" <=> cur = NoFd
  /\ current # 0 => step \in {"check", "call"}
  /\ step = "call" => current # 0
  /\ step # "next" => phase \in {"events", "sweep", "drain"}
  /\ phase \in {"idle", "loop", "wait", "done"} => todo = {}
  /\ cur \notin todo
  /\ phase \in {"sweep", "drain"} => \A fd \in todo : InMap(fd)
  /\ step = "erase" => Finished(clients[cur].id)
  /\ \A fd \in Fd : clients[fd].id <= Len(routines)

\* handleClient has begun and has not decided yet what becomes of the client.
Busy == step \in {"handle", "check", "call"}

\* A descriptor is disarmed only while the loop over the events has still to
\* come back to it.
Disarmed(fd) ==
  \/ phase = "terminated"
  \/ /\ phase = "events"
     /\ fd \in todo \/ (fd = cur /\ Busy)

OffExplained == \A fd \in Fd : epoll[fd] = "off" => Disarmed(fd)

WorkerInv ==
  /\ TypeOK
  /\ OrdinatorOK
  /\ LiveOwned
  /\ Len(routines) <= Cardinality(Fd)
  /\ LoopOK
  /\ ClientsOpen
  /\ OffExplained

-----------------------------------------------------------------------------
(* The Ordinator, by the lemmas of CoroutineProofs. *)

OrdinatorInv == CoTypeOK /\ OrdinatorOK

LEMMA SameOrdinator ==
  /\ OrdinatorInv <=> Co!OrdinatorInv
  /\ OrdinatorInv' <=> Co!OrdinatorInv'
BY DEF OrdinatorInv, Co!OrdinatorInv, CoTypeOK, OrdinatorOK, Co!CoTypeOK, Co!OrdinatorOK,
       Routine, Co!Routine, QueuedIdsEnded, Co!QueuedIdsEnded, QueuedOnce, Co!QueuedOnce,
       EndedIdsQueued, Co!EndedIdsQueued, RunningIsLive, Co!RunningIsLive

LEMMA StartsInHead == InHead \in ServeFrame
BY DEF InHead, ServeFrame

\* Whatever run() and serveClient do with coroutines keeps the Ordinator's
\* bookkeeping.
LEMMA OperationsKeepOrdinator ==
  ASSUME OrdinatorInv,
         \/ \E fd \in Fd : Create(fd)
         \/ \E id \in Nat : Resume(id)
         \/ \E frame \in ServeFrame : Run(frame)
         \/ Yield
         \/ \E throws \in BOOLEAN : Entry(throws)
         \/ UNCHANGED ordinator
  PROVE  OrdinatorInv'
<1>. USE StartsInHead
<1>0. Co!OrdinatorInv
  BY SameOrdinator
<1>1. ASSUME NEW fd \in Fd, Create(fd) PROVE Co!OrdinatorInv'
  <2>1. Co!Create(fd)
    BY <1>1 DEF Create, Co!Create, NewRoutine, Co!NewRoutine
  <2>. QED
    BY <1>0, <2>1, Co!CreateKeepsInv, Zenon
<1>2. ASSUME NEW id \in Nat, Resume(id) PROVE Co!OrdinatorInv'
  <2>1. Co!Resume(id)
    BY <1>2 DEF Resume, Co!Resume, Resumable, Co!Resumable
  <2>. QED
    BY <1>0, <2>1, Co!ResumeKeepsInv, Zenon
<1>3. ASSUME NEW frame \in ServeFrame, Run(frame) PROVE Co!OrdinatorInv'
  <2>1. Co!Run(frame)
    BY <1>3 DEF Run, Co!Run
  <2>. QED
    BY <1>0, <2>1, Co!RunKeepsInv, Zenon
<1>4. CASE Yield
  <2>1. Co!Yield
    BY <1>4 DEF Yield, Co!Yield
  <2>. QED
    BY <1>0, <2>1, Co!YieldKeepsInv, SameOrdinator, Zenon
<1>5. ASSUME NEW throws \in BOOLEAN, Entry(throws) PROVE Co!OrdinatorInv'
  <2>1. Co!Entry(throws)
    BY <1>5 DEF Entry, Co!Entry
  <2>. QED
    BY <1>0, <2>1, Co!EntryKeepsInv, Zenon
<1>6. CASE UNCHANGED ordinator
  BY <1>6 DEF ordinator, OrdinatorInv, CoTypeOK, OrdinatorOK, QueuedIdsEnded, QueuedOnce,
              EndedIdsQueued, RunningIsLive
<1>. QED
  BY <1>1, <1>2, <1>3, <1>4, <1>5, <1>6, SameOrdinator

-----------------------------------------------------------------------------
(* serveClient. *)

USE SndMaxAssumption, RcvMaxAssumption, SizesAssumption

LEMMA RoutineType ==
  ASSUME WorkerInv, NEW id \in 1 .. Len(routines)
  PROVE  routines[id] \in Routine /\ routines[id].func \in Fd
<1>1. routines[id] \in Routine
  BY DEF WorkerInv, TypeOK, CoTypeOK
<1>. QED
  BY <1>1 DEF Routine

\* The coroutine that runs is live, and so is the client it serves.
LEMMA RunningOne ==
  ASSUME WorkerInv, current # 0
  PROVE  /\ current \in 1 .. Len(routines)
         /\ routines[current] \in Routine /\ ~routines[current].finished
         /\ RunFd \in Fd /\ RunFrame \in ServeFrame /\ RunClient \in Client
         /\ RunClient.id = current /\ Open(RunFd)
         /\ RunFrame.at = "send" <=> RunClient.process_state = Writing
<1>1. current \in 1 .. Len(routines) /\ ~routines[current].finished
  BY DEF WorkerInv, TypeOK, CoTypeOK, OrdinatorOK, RunningIsLive
<1>2. routines[current] \in Routine
  BY <1>1 DEF WorkerInv, TypeOK, CoTypeOK
<1>3. RoutineOwned(current)
  BY <1>1 DEF WorkerInv, LiveOwned
<1>4. RunFd \in Fd /\ RunFrame \in ServeFrame
  BY <1>2 DEF Routine, RunFd, RunFrame
<1>5. RunClient \in Client
  BY <1>4 DEF WorkerInv, TypeOK, Client, RunClient
<1>. QED
  BY <1>1, <1>2, <1>3, <1>4, <1>5 DEF RoutineOwned, RunFd, RunFrame, RunClient

\* A running coroutine goes from the time-out test to the call and back.
Turns ==
  /\ UNCHANGED <<running, stopped, phase, todo, cur>>
  /\ step \in {"check", "call"}
  /\ \/ step' = "check"
     \/ step = "check" /\ step' = "call" /\ ~TimedOut(RunFd) /\ UNCHANGED current

\* What the steps of a running serveClient have in common: they touch their
\* own socket, and only with a call, their own client, whose handle they leave
\* alone, and their own coroutine, which is at "send" exactly when the client
\* is writing.  The last conjunct says why a coroutine ends.
ServeStep ==
  /\ current # 0
  /\ Turns
  /\ UNCHANGED <<expired, epoll, peer>>
  /\ SockTypeOK'
  /\ \A fd \in Fd : fd # RunFd \/ step # "call" => rcv'[fd] = rcv[fd] /\ room'[fd] = room[fd]
  /\ \E c \in Client :
       /\ c.id = RunClient.id /\ c.timed_out_ = RunClient.timed_out_
       /\ clients' = [clients EXCEPT ![RunFd] = c]
       /\ \/ c = RunClient /\ (UNCHANGED ordinator \/ Yield)
          \/ \E frame \in ServeFrame :
               Run(frame) /\ (frame.at = "send" <=> c.process_state = Writing)
          \/ \E throws \in BOOLEAN :
               /\ Entry(throws)
               /\ throws \/ ~c.keep_alive \/ TimedOut(RunFd) \/ "bad" \in Unit

LEMMA BackTurns ==
  ASSUME WorkerInv, current # 0, BackToTest
  PROVE  Turns
BY DEF WorkerInv, LoopOK, BackToTest, Turns

\* A client with other values in the fields that serveClient changes.
LEMMA ClientUpdates ==
  ASSUME NEW c \in Client, NEW k \in BOOLEAN, NEW p \in {Reading, Writing}
  PROVE  /\ [c EXCEPT !.keep_alive = k] \in Client
         /\ [c EXCEPT !.process_state = p] \in Client
BY DEF Client

LEMMA SetToItself ==
  ASSUME WorkerInv, current # 0, UNCHANGED clients
  PROVE  clients' = [clients EXCEPT ![RunFd] = RunClient]
BY DEF WorkerInv, TypeOK, RunClient

\* read() leaves a sequence of units in the receive buffer, and at most the
\* buffer's size is taken from it.
LEMMA TakeSome ==
  ASSUME WorkerInv, NEW fd \in Fd, NEW n \in Nat, n <= Len(rcv[fd]), Take(fd, n)
  PROVE  /\ SockTypeOK' /\ UNCHANGED <<epoll, peer, room>>
         /\ \A g \in Fd : g # fd => rcv'[g] = rcv[g]
<1>1. SockTypeOK /\ rcv[fd] \in Seq(Unit)
  BY DEF WorkerInv, TypeOK, SockTypeOK
<1>2. SubSeq(rcv[fd], n + 1, Len(rcv[fd])) \in Seq(Unit)
  BY <1>1
<1>. QED
  BY <1>1, <1>2 DEF SockTypeOK, Take

LEMMA ChunkSize ==
  ASSUME WorkerInv, current # 0
  PROVE  Chunk \in Nat /\ Chunk <= Len(rcv[RunFd])
<1>1. rcv[RunFd] \in Seq(Unit)
  BY RunningOne DEF WorkerInv, TypeOK, SockTypeOK
<1>. QED
  BY <1>1 DEF Chunk

LEMMA LessType ==
  ASSUME NEW n \in Nat \cup {Wrapped}, NEW k \in Nat
  PROVE  InBody(Less(n, k)) \in ServeFrame /\ InBody(Less(n, k)).at = "body"
BY DEF Less, InBody, ServeFrame, Wrapped

LEMMA Frames ==
  /\ InSend(RespLen) \in ServeFrame /\ InSend(RespLen).at = "send"
  /\ InHead \in ServeFrame /\ InHead.at = "head"
BY DEF InSend, InHead, ServeFrame

\* Respond makes the client a writing one, whatever else was set in it, unless
\* formResponse throws.
LEMMA RespondServes ==
  ASSUME WorkerInv, current # 0, NEW k \in BOOLEAN,
         Respond([RunClient EXCEPT !.keep_alive = k]) \/ Respond(RunClient)
  PROVE  \E c \in Client :
           /\ c.id = RunClient.id /\ c.timed_out_ = RunClient.timed_out_
           /\ clients' = [clients EXCEPT ![RunFd] = c]
           /\ \/ \E frame \in ServeFrame :
                   Run(frame) /\ (frame.at = "send" <=> c.process_state = Writing)
              \/ Entry(TRUE)
<1>1. ASSUME NEW b \in Client, b.id = RunClient.id, b.timed_out_ = RunClient.timed_out_,
             Respond(b)
      PROVE  \E c \in Client :
               /\ c.id = RunClient.id /\ c.timed_out_ = RunClient.timed_out_
               /\ clients' = [clients EXCEPT ![RunFd] = c]
               /\ \/ \E frame \in ServeFrame :
                       Run(frame) /\ (frame.at = "send" <=> c.process_state = Writing)
                  \/ Entry(TRUE)
  <2>. DEFINE c == [b EXCEPT !.process_state = Writing]
  <2>1. c \in Client /\ c.id = b.id /\ c.timed_out_ = b.timed_out_ /\ c.process_state = Writing
    BY DEF Client
  <2>2. CASE clients' = [clients EXCEPT ![RunFd] = c] /\ Run(InSend(RespLen))
    <3>. HIDE DEF c
    <3>. QED
      BY <1>1, <2>1, <2>2, Frames
  <2>3. CASE clients' = [clients EXCEPT ![RunFd] = b] /\ Entry(TRUE)
    BY <1>1, <2>3
  <2>. QED
    BY <1>1, <2>2, <2>3 DEF Respond, SetRunClient
<1>2. RunClient \in Client
  BY RunningOne
<1>3. CASE Respond([RunClient EXCEPT !.keep_alive = k])
  <2>. DEFINE b == [RunClient EXCEPT !.keep_alive = k]
  <2>1. b \in Client /\ b.id = RunClient.id /\ b.timed_out_ = RunClient.timed_out_
    BY <1>2 DEF Client
  <2>2. Respond(b)
    BY <1>3
  <2>. HIDE DEF b
  <2>. QED
    BY <1>1, <2>1, <2>2
<1>4. CASE Respond(RunClient)
  BY <1>1, <1>2, <1>4
<1>. QED
  BY <1>3, <1>4

LEMMA GiveUpServes ==
  ASSUME WorkerInv, GiveUp
  PROVE  ServeStep
<1>1. current # 0 /\ step # "call" /\ TimedOut(RunFd) /\ Turns
      /\ UNCHANGED <<sockvars, expired>>
  BY BackTurns DEF GiveUp
<1>2. RunClient \in Client
  BY <1>1, RunningOne
<1>3. SockTypeOK'
  BY <1>1 DEF sockvars, WorkerInv, TypeOK, SockTypeOK
<1>4. CASE Entry(FALSE) /\ UNCHANGED clients
  <2>1. clients' = [clients EXCEPT ![RunFd] = RunClient]
    BY <1>1, <1>4, SetToItself
  <2>. QED
    BY <1>1, <1>2, <1>3, <1>4, <2>1 DEF ServeStep, sockvars
<1>5. CASE Respond(RunClient)
  BY <1>1, <1>3, <1>5, RespondServes DEF ServeStep, sockvars
<1>. QED
  BY <1>4, <1>5 DEF GiveUp

\* A step that leaves the sockets and the clients alone.
LEMMA QuietServes ==
  ASSUME WorkerInv, current # 0, Yield \/ Entry(TRUE) \/ UNCHANGED ordinator,
         Turns, UNCHANGED <<sockvars, clients, expired>>
  PROVE  ServeStep
<1>1. RunClient \in Client /\ clients' = [clients EXCEPT ![RunFd] = RunClient]
  BY RunningOne, SetToItself
<1>2. SockTypeOK'
  BY DEF sockvars, WorkerInv, TypeOK, SockTypeOK
<1>. QED
  BY <1>1, <1>2 DEF ServeStep, sockvars

LEMMA ReadClosedServes ==
  ASSUME WorkerInv, ReadClosed
  PROVE  ServeStep
<1>0. current # 0
  BY DEF ReadClosed, ReadingNow, Serving
<1>1. RunClient \in Client
  BY <1>0, RunningOne
<1>2. SockTypeOK' /\ Turns /\ UNCHANGED <<sockvars, expired>>
  BY <1>0, BackTurns DEF ReadClosed, sockvars, WorkerInv, TypeOK, SockTypeOK
<1>3. CASE SetRunClient([RunClient EXCEPT !.keep_alive = FALSE]) /\ Entry(FALSE)
  <2>. DEFINE c == [RunClient EXCEPT !.keep_alive = FALSE]
  <2>1. c \in Client /\ c.id = RunClient.id /\ c.timed_out_ = RunClient.timed_out_ /\ ~c.keep_alive
    BY <1>1 DEF Client
  <2>2. clients' = [clients EXCEPT ![RunFd] = c]
    BY <1>3 DEF SetRunClient
  <2>. HIDE DEF c
  <2>. QED
    BY <1>0, <1>2, <1>3, <2>1, <2>2 DEF ServeStep, sockvars
<1>4. CASE Respond([RunClient EXCEPT !.keep_alive = FALSE])
  BY <1>0, <1>2, <1>4, RespondServes DEF ServeStep, sockvars
<1>. QED
  BY <1>3, <1>4 DEF ReadClosed

\* What read() leaves of the sockets, in the terms of ServeStep.
LEMMA ReadTakes ==
  ASSUME WorkerInv, current # 0, step = "call", Take(RunFd, Chunk)
  PROVE  /\ UNCHANGED <<epoll, peer>>
         /\ SockTypeOK'
         /\ \A fd \in Fd : fd # RunFd \/ step # "call"
                             => rcv'[fd] = rcv[fd] /\ room'[fd] = room[fd]
<1>1. RunFd \in Fd /\ Chunk \in Nat /\ Chunk <= Len(rcv[RunFd])
  BY RunningOne, ChunkSize
<1>2. /\ SockTypeOK' /\ UNCHANGED <<epoll, peer, room>>
      /\ \A g \in Fd : g # RunFd => rcv'[g] = rcv[g]
  BY <1>1, TakeSome
<1>. QED
  BY <1>2

LEMMA ReadHeadPartServes ==
  ASSUME WorkerInv, ReadHeadPart
  PROVE  ServeStep
<1>1. current # 0 /\ step = "call" /\ Take(RunFd, Chunk) /\ Turns
  BY BackTurns DEF ReadHeadPart, Serving
<1>2. RunClient \in Client /\ clients' = [clients EXCEPT ![RunFd] = RunClient]
  BY <1>1, RunningOne, SetToItself DEF ReadHeadPart
<1>. QED
  BY <1>1, <1>2, ReadTakes DEF ServeStep, ReadHeadPart

LEMMA ReadHeadEndServes ==
  ASSUME WorkerInv, ReadHeadEnd
  PROVE  ServeStep
<1>1. current # 0 /\ step = "call" /\ Take(RunFd, Chunk) /\ Turns /\ UNCHANGED expired
  BY BackTurns DEF ReadHeadEnd, Serving
<1>2. RunClient \in Client /\ RunFrame.at = "head" /\ RunFd \in Fd
  BY <1>1, RunningOne DEF ReadHeadEnd, Serving
<1>3. PICK i \in 1 .. Chunk :
        rcv[RunFd][i] \in HeadKind /\ ParseHead(rcv[RunFd][i], Chunk - i)
  BY DEF ReadHeadEnd
<1>. DEFINE h == rcv[RunFd][i]
            k == RunClient.keep_alive \/ SaysKeepAlive(h)
            b == [RunClient EXCEPT !.keep_alive = k]
<1>4. h \in Unit /\ Chunk - i \in Nat
  <2>1. rcv[RunFd] \in Seq(Unit)
    BY <1>2 DEF WorkerInv, TypeOK, SockTypeOK
  <2>. QED
    BY <1>1, <1>3, <2>1, ChunkSize
<1>5. k \in BOOLEAN
  BY <1>2 DEF Client
<1>6. CASE h = "bad" /\ Entry(FALSE) /\ UNCHANGED clients
  <2>1. clients' = [clients EXCEPT ![RunFd] = RunClient]
    BY <1>1, <1>6, SetToItself
  <2>. QED
    BY <1>1, <1>2, <1>4, <1>6, <2>1, ReadTakes DEF ServeStep
<1>7. CASE Entry(TRUE) /\ UNCHANGED clients
  <2>1. clients' = [clients EXCEPT ![RunFd] = RunClient]
    BY <1>1, <1>7, SetToItself
  <2>. QED
    BY <1>1, <1>2, <1>7, <2>1, ReadTakes DEF ServeStep
<1>8. CASE Respond(b)
  BY <1>1, <1>5, <1>8, ReadTakes, RespondServes DEF ServeStep
<1>9. CASE Run(InBody(Less(BodyLen, Chunk - i))) /\ SetRunClient(b)
  <2>1. b \in Client /\ b.id = RunClient.id /\ b.timed_out_ = RunClient.timed_out_
        /\ b.process_state = RunClient.process_state
    BY <1>2, <1>5 DEF Client
  <2>2. b.process_state # Writing
    BY <1>1, <1>2, <2>1, RunningOne
  <2>3. InBody(Less(BodyLen, Chunk - i)) \in ServeFrame
        /\ InBody(Less(BodyLen, Chunk - i)).at = "body"
    BY <1>4, LessType
  <2>4. clients' = [clients EXCEPT ![RunFd] = b]
    BY <1>9 DEF SetRunClient
  <2>. HIDE DEF b
  <2>. QED
    BY <1>1, <1>9, <2>1, <2>2, <2>3, <2>4, ReadTakes DEF ServeStep
<1>. QED
  BY <1>3, <1>6, <1>7, <1>8, <1>9 DEF ParseHead

LEMMA ReadBodyServes ==
  ASSUME WorkerInv, ReadBody
  PROVE  ServeStep
<1>1. current # 0 /\ step = "call" /\ Take(RunFd, Chunk) /\ Turns /\ UNCHANGED expired
  BY BackTurns DEF ReadBody, Serving
<1>2. RunClient \in Client /\ RunFrame.at = "body" /\ RunFrame \in ServeFrame
  BY <1>1, RunningOne DEF ReadBody, Serving
<1>. DEFINE need == Less(RunFrame.n, Chunk)
<1>3. CASE Respond(RunClient)
  BY <1>1, <1>3, ReadTakes, RespondServes DEF ServeStep
<1>4. CASE Run(InBody(need)) /\ UNCHANGED clients
  <2>1. clients' = [clients EXCEPT ![RunFd] = RunClient]
    BY <1>1, <1>4, SetToItself
  <2>2. RunFrame.n \in Nat \cup {Wrapped} /\ Chunk \in Nat
    BY <1>1, <1>2, ChunkSize DEF ServeFrame
  <2>3. InBody(need) \in ServeFrame /\ InBody(need).at = "body"
    BY <2>2, LessType
  <2>4. RunClient.process_state # Writing
    BY <1>1, <1>2, RunningOne
  <2>. QED
    BY <1>1, <1>2, <1>4, <2>1, <2>3, <2>4, ReadTakes DEF ServeStep
<1>. QED
  BY <1>3, <1>4 DEF ReadBody

LEMMA WriteServes ==
  ASSUME WorkerInv, NEW n \in 1 .. RespLen, Write(n)
  PROVE  ServeStep
<1>1. /\ current # 0 /\ step = "call" /\ Put(RunFd, n) /\ RunFrame.at = "send"
      /\ n <= room[RunFd] /\ n <= RunFrame.n /\ Turns /\ UNCHANGED expired
  BY BackTurns DEF Write, Serving
<1>2. RunClient \in Client /\ RunFrame \in ServeFrame /\ RunFd \in Fd
      /\ RunClient.process_state = Writing
  BY <1>1, RunningOne
<1>3. /\ UNCHANGED <<epoll, peer, rcv>>
      /\ \A fd \in Fd : fd # RunFd => room'[fd] = room[fd]
      /\ SockTypeOK'
  <2>1. UNCHANGED <<epoll, peer, rcv>> /\ room' = [room EXCEPT ![RunFd] = room[RunFd] - n]
    BY <1>1 DEF Put
  <2>2. SockTypeOK /\ room \in [Fd -> 0 .. SndMax]
    BY DEF WorkerInv, TypeOK, SockTypeOK
  <2>. DEFINE k == room[RunFd] - n
  <2>3. k \in 0 .. SndMax
    <3>1. room[RunFd] \in 0 .. SndMax /\ n \in Nat /\ n <= room[RunFd]
      BY <1>1, <1>2, <2>2
    <3>. QED
      BY <3>1
  <2>4. room' = [room EXCEPT ![RunFd] = k]
    BY <2>1
  <2>. HIDE DEF k
  <2>5. room' \in [Fd -> 0 .. SndMax] /\ \A fd \in Fd : fd # RunFd => room'[fd] = room[fd]
    BY <1>2, <2>2, <2>3, <2>4
  <2>. QED
    BY <2>1, <2>2, <2>5 DEF SockTypeOK
<1>4. CASE Run(InSend(RunFrame.n - n)) /\ UNCHANGED clients
  <2>1. clients' = [clients EXCEPT ![RunFd] = RunClient]
    BY <1>1, <1>4, SetToItself
  <2>2. RunFrame.n \in Nat
    BY <1>1, <1>2 DEF ServeFrame, Wrapped
  <2>3. InSend(RunFrame.n - n) \in ServeFrame /\ InSend(RunFrame.n - n).at = "send"
    BY <1>1, <2>2 DEF InSend, ServeFrame
  <2>. QED
    BY <1>1, <1>2, <1>3, <1>4, <2>1, <2>3 DEF ServeStep
<1>5. CASE SetRunClient([RunClient EXCEPT !.process_state = Reading]) /\ Run(InHead)
  <2>. DEFINE c == [RunClient EXCEPT !.process_state = Reading]
  <2>1. c \in Client /\ c.id = RunClient.id /\ c.timed_out_ = RunClient.timed_out_
        /\ c.process_state = Reading
    BY <1>2 DEF Client
  <2>2. clients' = [clients EXCEPT ![RunFd] = c]
    BY <1>5 DEF SetRunClient
  <2>3. InHead \in ServeFrame /\ InHead.at = "head" /\ Reading # Writing
    BY Frames DEF Reading, Writing
  <2>. HIDE DEF c
  <2>. QED
    BY <1>1, <1>3, <1>5, <2>1, <2>2, <2>3 DEF ServeStep
<1>6. CASE ~RunClient.keep_alive /\ Entry(FALSE) /\ UNCHANGED clients
  <2>1. clients' = [clients EXCEPT ![RunFd] = RunClient]
    BY <1>1, <1>6, SetToItself
  <2>. QED
    BY <1>1, <1>2, <1>3, <1>6, <2>1 DEF ServeStep
<1>. QED
  BY <1>4, <1>5, <1>6 DEF Write

LEMMA ServeClientServes ==
  ASSUME WorkerInv, ServeClient
  PROVE  ServeStep
<1>1. CASE ReadBlocked \/ ReadFails \/ WriteBlocked \/ WriteFails
  BY <1>1, BackTurns, QuietServes
  DEF ReadBlocked, ReadFails, WriteBlocked, WriteFails, ReadingNow, Serving
<1>2. CASE TestClock
  <2>1. current # 0 /\ Turns /\ UNCHANGED <<sockvars, ordinator, clients, expired>>
    BY <1>2 DEF TestClock, Turns, ordinator
  <2>. QED
    BY <2>1, QuietServes
<1>. QED
  BY <1>1, <1>2, GiveUpServes, ReadClosedServes, ReadHeadPartServes, ReadHeadEndServes,
     ReadBodyServes, WriteServes DEF ServeClient

\* What a step of serveClient does to clients and routines, field by field.
LEMMA ServeEffect ==
  ASSUME WorkerInv, ServeStep
  PROVE  /\ OrdinatorInv'
         /\ clients' \in [Fd -> Client]
         /\ \A fd \in Fd : clients'[fd].id = clients[fd].id
                           /\ clients'[fd].timed_out_ = clients[fd].timed_out_
                           /\ (fd # RunFd => clients'[fd] = clients[fd])
         /\ Len(routines') = Len(routines)
         /\ \A id \in 1 .. Len(routines) :
              /\ id # current => routines'[id] = routines[id]
              /\ routines'[id].func = routines[id].func
              /\ routines[id].finished => routines'[id].finished
         /\ ~routines'[current].finished =>
              (routines'[current].stack.at = "send" <=> clients'[RunFd].process_state = Writing)
         /\ current' \in {0, current}
         /\ routines'[current].finished =>
              /\ current' = 0
              /\ \/ routines'[current].exception
                 \/ ~clients'[RunFd].keep_alive
                 \/ TimedOut(RunFd)
                 \/ "bad" \in Unit
<1>0. current # 0
  BY DEF ServeStep
<1>1. /\ current \in 1 .. Len(routines) /\ RunFd \in Fd
      /\ routines[current] \in Routine /\ ~routines[current].finished
      /\ RunFrame.at = "send" <=> RunClient.process_state = Writing
  BY <1>0, RunningOne
<1>2. PICK c \in Client :
       /\ c.id = RunClient.id /\ c.timed_out_ = RunClient.timed_out_
       /\ clients' = [clients EXCEPT ![RunFd] = c]
       /\ \/ c = RunClient /\ (UNCHANGED ordinator \/ Yield)
          \/ \E frame \in ServeFrame :
               Run(frame) /\ (frame.at = "send" <=> c.process_state = Writing)
          \/ \E throws \in BOOLEAN :
               /\ Entry(throws)
               /\ throws \/ ~c.keep_alive \/ TimedOut(RunFd) \/ "bad" \in Unit
  BY DEF ServeStep
<1>3. OrdinatorInv'
  <2>1. OrdinatorInv
    BY DEF WorkerInv, TypeOK, OrdinatorInv
  <2>. QED
    BY <1>2, <2>1, OperationsKeepOrdinator, Zenon
<1>4. clients \in [Fd -> Client]
  BY DEF WorkerInv, TypeOK, Client
<1>5. \A fd \in Fd : clients'[fd] = IF fd = RunFd THEN c ELSE clients[fd]
  BY <1>1, <1>2, <1>4
<1>6. clients' \in [Fd -> Client]
  BY <1>2, <1>4
<1>7. \A fd \in Fd : clients'[fd].id = clients[fd].id
                     /\ clients'[fd].timed_out_ = clients[fd].timed_out_
                     /\ (fd # RunFd => clients'[fd] = clients[fd])
  BY <1>2, <1>5 DEF RunClient
<1>8. routines \in Seq(Routine)
  BY DEF WorkerInv, TypeOK, CoTypeOK
<1>. DEFINE Goal ==
         /\ Len(routines') = Len(routines)
         /\ \A id \in 1 .. Len(routines) :
              /\ id # current => routines'[id] = routines[id]
              /\ routines'[id].func = routines[id].func
              /\ routines[id].finished => routines'[id].finished
         /\ ~routines'[current].finished =>
              (routines'[current].stack.at = "send" <=> clients'[RunFd].process_state = Writing)
         /\ current' \in {0, current}
         /\ routines'[current].finished =>
              /\ current' = 0
              /\ \/ routines'[current].exception
                 \/ ~clients'[RunFd].keep_alive
                 \/ TimedOut(RunFd)
                 \/ "bad" \in Unit
<1>9. ASSUME c = RunClient, UNCHANGED ordinator \/ Yield
      PROVE  Goal
  <2>1. UNCHANGED routines /\ current' \in {0, current}
    BY <1>9 DEF ordinator, Yield
  <2>. QED
    BY <1>1, <1>5, <1>9, <2>1 DEF RunFrame
<1>10. ASSUME NEW frame \in ServeFrame, Run(frame),
              frame.at = "send" <=> c.process_state = Writing
       PROVE  Goal
  <2>. DEFINE r == [routines[current] EXCEPT !.stack = frame]
  <2>1. r.func = routines[current].func /\ ~r.finished /\ r.stack = frame
    BY <1>1 DEF Routine
  <2>2. routines' = [routines EXCEPT ![current] = r] /\ current' = current
    BY <1>10 DEF Run
  <2>. HIDE DEF r
  <2>3. Len(routines') = Len(routines)
        /\ \A id \in 1 .. Len(routines) : routines'[id] = IF id = current THEN r ELSE routines[id]
    BY <1>1, <1>8, <2>2
  <2>. QED
    BY <1>1, <1>5, <1>10, <2>1, <2>2, <2>3
<1>11. ASSUME NEW throws \in BOOLEAN, Entry(throws),
              throws \/ ~c.keep_alive \/ TimedOut(RunFd) \/ "bad" \in Unit
       PROVE  Goal
  <2>. DEFINE r == [routines[current] EXCEPT !.stack = InHead, !.finished = TRUE,
                                             !.exception = throws]
  <2>1. r.func = routines[current].func /\ r.finished /\ r.exception = throws
    BY <1>1 DEF Routine
  <2>2. routines' = [routines EXCEPT ![current] = r] /\ current' = 0
    BY <1>11 DEF Entry
  <2>. HIDE DEF r
  <2>3. Len(routines') = Len(routines)
        /\ \A id \in 1 .. Len(routines) : routines'[id] = IF id = current THEN r ELSE routines[id]
    BY <1>1, <1>8, <2>2
  <2>. QED
    BY <1>1, <1>5, <1>11, <2>1, <2>2, <2>3
<1>12. Goal
  BY <1>2, <1>9, <1>10, <1>11
<1>. QED
  BY <1>3, <1>6, <1>7, <1>12

LEMMA ServeKeepsInv ==
  ASSUME WorkerInv, ServeStep
  PROVE  WorkerInv'
<1>0. /\ current # 0 /\ current \in 1 .. Len(routines) /\ RunFd \in Fd
      /\ UNCHANGED <<running, stopped, phase, todo, cur, expired, epoll>>
      /\ SockTypeOK'
      /\ step \in {"check", "call"} /\ step' \in {"check", "call"}
      /\ step' = "call" => current' = current
  BY RunningOne DEF ServeStep, Turns
<1>1. TypeOK'
  BY <1>0, ServeEffect DEF WorkerInv, TypeOK, Client, OrdinatorInv, Step
<1>2. OrdinatorOK' /\ Len(routines') = Len(routines)
  BY ServeEffect DEF OrdinatorInv
<1>3. LiveOwned'
  <2>. SUFFICES ASSUME NEW id \in 1 .. Len(routines'), ~routines'[id].finished
                PROVE  RoutineOwned(id)'
    BY DEF LiveOwned
  <2>1. id \in 1 .. Len(routines) /\ ~routines[id].finished
        /\ routines'[id].func = routines[id].func
    BY <1>2, ServeEffect
  <2>2. RoutineOwned(id)
    BY <2>1 DEF WorkerInv, LiveOwned
  <2>3. routines[id].func \in Fd
    BY <2>1, RoutineType
  <2>4. CASE id = current
    BY <1>0, <2>1, <2>2, <2>3, <2>4, ServeEffect DEF RoutineOwned, Open, RunFd
  <2>5. CASE id # current
    <3>1. routines[id].func # RunFd
      BY <1>0, <2>2, <2>5, RunningOne DEF RoutineOwned, RunClient
    <3>. QED
      BY <1>0, <2>1, <2>2, <2>3, <2>5, <3>1, ServeEffect DEF RoutineOwned, Open
  <2>. QED
    BY <2>4, <2>5
<1>4. LoopOK'
  <2>1. \A fd \in todo : InMap(fd)' <=> InMap(fd)
    BY ServeEffect DEF WorkerInv, TypeOK, InMap
  <2>. QED
    BY <1>0, <2>1, ServeEffect DEF WorkerInv, LoopOK
<1>5. ClientsOpen'
  <2>1. \A fd \in Fd : InMap(fd)' <=> InMap(fd)
    BY ServeEffect DEF InMap
  <2>2. step # "next" => cur \in Fd
    BY NoFdAssumption DEF WorkerInv, LoopOK, TypeOK
  <2>. QED
    BY <1>0, <2>1, <2>2 DEF WorkerInv, ClientsOpen, Clients, Open
<1>6. OffExplained'
  BY <1>0 DEF WorkerInv, OffExplained, Disarmed, Busy
<1>. QED
  BY <1>1, <1>2, <1>3, <1>4, <1>5, <1>6 DEF WorkerInv

-----------------------------------------------------------------------------
(* The server thread, the environment and the loops. *)

LEMMA OrdinatorStays ==
  ASSUME WorkerInv, UNCHANGED ordinator
  PROVE  /\ CoTypeOK' /\ OrdinatorOK'
         /\ UNCHANGED <<routines, finished, current>>
BY OperationsKeepOrdinator DEF WorkerInv, TypeOK, OrdinatorInv, ordinator

\* The coroutines keep their owners when no live one's client loses its handle,
\* its state or its open descriptor.
LEMMA OwnersStay ==
  ASSUME WorkerInv, UNCHANGED routines,
         \A id \in 1 .. Len(routines) : ~routines[id].finished =>
           LET fd == routines[id].func
           IN /\ clients'[fd].id = clients[fd].id
              /\ clients'[fd].process_state = clients[fd].process_state
              /\ Open(fd)'
  PROVE  LiveOwned'
BY DEF WorkerInv, LiveOwned, RoutineOwned, Open

\* A step that leaves coroutines and clients alone and closes no descriptor.
LEMMA QuietStep ==
  ASSUME WorkerInv, UNCHANGED <<ordinator, clients>>, TypeOK', LoopOK', ClientsOpen',
         OffExplained', \A fd \in Fd : Open(fd) => Open(fd)'
  PROVE  WorkerInv'
<1>1. OrdinatorOK' /\ UNCHANGED routines
  BY OrdinatorStays
<1>2. LiveOwned'
  <2>1. ASSUME NEW id \in 1 .. Len(routines), ~routines[id].finished
        PROVE  Open(routines[id].func)'
    <3>1. routines[id].func \in Fd /\ Open(routines[id].func)
      BY <2>1, RoutineType DEF WorkerInv, LiveOwned, RoutineOwned
    <3>. QED
      BY <1>1, <3>1 DEF Open
  <2>. QED
    BY <1>1, <2>1, OwnersStay
<1>. QED
  BY <1>1, <1>2 DEF WorkerInv

LEMMA PeerKeepsInv ==
  ASSUME WorkerInv, NEW fd \in Fd, Peer(fd)
  PROVE  WorkerInv'
<1>0. UNCHANGED <<ordinator, loopvars, clients, expired>>
  BY DEF Peer
<1>1. SockTypeOK' /\ UNCHANGED epoll
  <2>0. SockTypeOK
    BY DEF WorkerInv, TypeOK
  <2>1. ASSUME NEW u \in Unit, Deliver(fd, u) PROVE SockTypeOK' /\ UNCHANGED epoll
    BY <2>0, <2>1 DEF SockTypeOK, Deliver
  <2>2. ASSUME NEW how \in Ends, PeerEnds(fd, how) PROVE SockTypeOK' /\ UNCHANGED epoll
    BY <2>0, <2>2, EndsAssumption DEF SockTypeOK, PeerEnds, PeerState
  <2>3. CASE PeerReads(fd)
    BY <2>0, <2>3 DEF SockTypeOK, PeerReads
  <2>. QED
    BY <2>1, <2>2, <2>3 DEF Peer
<1>2. TypeOK'
  BY <1>0, <1>1, OrdinatorStays DEF WorkerInv, TypeOK, loopvars
<1>3. LoopOK' /\ ClientsOpen' /\ OffExplained'
  BY <1>0, <1>1, OrdinatorStays
  DEF WorkerInv, LoopOK, ClientsOpen, OffExplained, Disarmed, Busy, Clients, InMap, Open, loopvars, Finished
<1>. QED
  BY <1>0, <1>1, <1>2, <1>3, QuietStep DEF Open

LEMMA AddClientKeepsInv ==
  ASSUME WorkerInv, NEW fd \in Fd, AddClient(fd)
  PROVE  WorkerInv'
<1>0. UNCHANGED <<ordinator, loopvars, clients, expired>> /\ ~Open(fd)
  BY DEF AddClient, OpenSocket
<1>1. SockTypeOK' /\ \A g \in Fd : epoll'[g] = IF g = fd THEN "in" ELSE epoll[g]
  BY DEF AddClient, OpenSocket, SockTypeOK, WorkerInv, TypeOK, Armed
<1>2. TypeOK'
  BY <1>0, <1>1, OrdinatorStays DEF WorkerInv, TypeOK, loopvars
<1>3. LoopOK' /\ ClientsOpen' /\ OffExplained'
  BY <1>0, <1>1, OrdinatorStays
  DEF WorkerInv, LoopOK, ClientsOpen, OffExplained, Disarmed, Busy, Clients, InMap, Open, loopvars, Finished
<1>. QED
  BY <1>0, <1>1, <1>2, <1>3, QuietStep DEF Open

\* Steps that change only the loop's own variables, or the clock's.
LEMMA LoopOnly ==
  ASSUME WorkerInv,
         UNCHANGED <<sockvars, ordinator, clients>>,
         \/ Stop \/ Start \/ TestRunning \/ WaitTimeout \/ WaitInterrupted \/ TestEmpty
         \/ \E fd \in Fd : Expire(fd)
  PROVE  WorkerInv'
<1>1. UNCHANGED <<rcv, peer, room, epoll, routines, finished, current, clients>> /\ CoTypeOK'
  BY OrdinatorStays DEF sockvars
<1>2. \A fd \in Fd : (Open(fd)' <=> Open(fd)) /\ (InMap(fd)' <=> InMap(fd))
  BY <1>1 DEF Open, InMap
<1>3. SockTypeOK'
  BY <1>1 DEF WorkerInv, TypeOK, SockTypeOK
<1>4. Clients' = Clients
  BY <1>2 DEF Clients
<1>5. /\ step = "next" => \A fd \in Clients : fd \in Fd /\ Open(fd) /\ fd # cur
      /\ cur' = cur /\ step' = step
      /\ step # "next" => cur \in Fd /\ InMap(cur)
  BY <1>1, NoFdAssumption
  DEF WorkerInv, LoopOK, ClientsOpen, TypeOK, Clients, Stop, Start, TestRunning, WaitTimeout,
      WaitInterrupted, TestEmpty, Expire, loopvars
<1>6. \/ UNCHANGED <<phase, todo>>
      \/ phase = "idle" /\ phase' = "loop" /\ UNCHANGED todo
      \/ step = "next" /\ phase \in {"loop", "events", "sweep"} /\ todo = {} /\ phase' = "wait" /\ todo' = {}
      \/ step = "next" /\ todo = {} /\ phase \in {"loop", "wait", "events", "sweep", "drain"}
           /\ phase' \in {"sweep", "drain"} /\ todo' = Clients
      \/ step = "next" /\ phase = "drain" /\ phase' = "done" /\ todo = {} /\ todo' = {}
  BY DEF WorkerInv, LoopOK, Stop, Start, TestRunning, WaitTimeout, WaitInterrupted, TestEmpty,
         Expire, loopvars
<1>7. TypeOK'
  <2>1. running' \in BOOLEAN /\ stopped' \in BOOLEAN /\ expired' \subseteq Fd
    BY DEF WorkerInv, TypeOK, Stop, Start, TestRunning, WaitTimeout, WaitInterrupted, TestEmpty,
           Expire, loopvars
  <2>2. phase' \in Phase /\ todo' \subseteq Fd
    BY <1>5, <1>6 DEF WorkerInv, TypeOK, Phase
  <2>. QED
    BY <1>1, <1>3, <1>5, <2>1, <2>2 DEF WorkerInv, TypeOK
<1>8. LoopOK'
  <2>1. \A fd \in Clients : InMap(fd)'
    BY <1>2 DEF Clients
  <2>2. \A fd \in todo : InMap(fd)' <=> InMap(fd)
    BY <1>2 DEF WorkerInv, TypeOK
  <2>. QED
    BY <1>1, <1>5, <1>6, <2>1, <2>2 DEF WorkerInv, LoopOK, Finished
<1>9. ClientsOpen'
  <2>1. todo' \subseteq {fd \in Fd : Open(fd)}
    BY <1>5, <1>6 DEF WorkerInv, ClientsOpen
  <2>. QED
    BY <1>2, <1>4, <1>5, <2>1 DEF WorkerInv, ClientsOpen, Clients
<1>10. OffExplained'
  BY <1>1, <1>5, <1>6 DEF WorkerInv, OffExplained, Disarmed, Busy, LoopOK
<1>. QED
  BY <1>2, <1>7, <1>8, <1>9, <1>10, QuietStep

LEMMA WaitEventsKeepsInv ==
  ASSUME WorkerInv, WaitEvents
  PROVE  WorkerInv'
<1>1. PICK batch \in SUBSET Ready : Report(batch) /\ todo' = batch
  BY DEF WaitEvents
<1>2. /\ phase = "wait" /\ phase' = "events"
      /\ UNCHANGED <<ordinator, running, stopped, cur, step, clients, expired>>
  BY DEF WaitEvents
<1>3. /\ SockTypeOK'
      /\ \A fd \in Fd : epoll'[fd] = IF fd \in batch THEN "off" ELSE epoll[fd]
      /\ \A fd \in batch : fd \in Fd /\ Open(fd)
  BY <1>1 DEF Report, WorkerInv, TypeOK, SockTypeOK, Ready, Open, Armed
<1>4. \A fd \in Fd : (Open(fd)' <=> Open(fd)) /\ (InMap(fd)' <=> InMap(fd))
  BY <1>2, <1>3 DEF Open, InMap
<1>5. TypeOK'
  BY <1>1, <1>2, <1>3, OrdinatorStays DEF WorkerInv, TypeOK, Phase
<1>6. LoopOK' /\ ClientsOpen' /\ OffExplained'
  <2>1. step = "next" /\ cur = NoFd /\ step' = "next" /\ cur' = NoFd /\ NoFd \notin batch
    BY <1>2, <1>3, NoFdAssumption DEF WorkerInv, LoopOK
  <2>. QED
    BY <1>1, <1>2, <1>3, <1>4, <2>1, OrdinatorStays
    DEF WorkerInv, LoopOK, ClientsOpen, OffExplained, Disarmed, Busy, Clients, Open, Finished
<1>. QED
  BY <1>2, <1>4, <1>5, <1>6, QuietStep

-----------------------------------------------------------------------------
(* Taking up a descriptor, and handleClient. *)

\* Where the loop is between two descriptors, and what it visits is open.
LEMMA LoopFacts ==
  ASSUME WorkerInv
  PROVE  /\ step # "next" => cur \in Fd /\ InMap(cur) /\ cur \notin todo
         /\ step \notin {"check", "call"} => current = 0
         /\ \A fd \in todo : fd \in Fd /\ Open(fd) /\ fd # cur
         /\ \A fd \in Fd : clients[fd] \in Client
         /\ \A fd \in Fd : InMap(fd) => clients[fd].id \in 1 .. Len(routines)
<1>1. \A fd \in Fd : clients[fd] \in Client
  BY DEF WorkerInv, TypeOK, Client
<1>2. \A fd \in Fd : InMap(fd) => clients[fd].id \in 1 .. Len(routines)
  BY <1>1 DEF WorkerInv, LoopOK, InMap, Client
<1>. QED
  BY <1>1, <1>2, NoFdAssumption DEF WorkerInv, LoopOK, ClientsOpen, TypeOK

\* resume(): from now on the routine with the client's handle runs, if there is
\* such a routine that has not ended.
LEMMA ResumeClientEffect ==
  ASSUME WorkerInv, current = 0, NEW fd \in Fd, ResumeClient(fd)
  PROVE  /\ OrdinatorInv' /\ UNCHANGED <<routines, finished>> /\ step' = "check"
         /\ current' # 0 => current' = clients[fd].id /\ ~routines[clients[fd].id].finished
         /\ current' = 0 /\ InMap(fd) => routines[clients[fd].id].finished
<1>1. clients[fd].id \in Nat
  BY DEF WorkerInv, TypeOK
<1>2. OrdinatorInv
  BY DEF WorkerInv, TypeOK, OrdinatorInv
<1>3. CASE Resume(clients[fd].id)
  BY <1>1, <1>2, <1>3, OperationsKeepOrdinator DEF ResumeClient, Resume, Resumable
<1>4. CASE ~Resumable(clients[fd].id) /\ UNCHANGED ordinator
  <2>1. InMap(fd) => routines[clients[fd].id].finished
    BY <1>4, LoopFacts DEF Resumable
  <2>. QED
    BY <1>2, <1>4, <2>1, OperationsKeepOrdinator DEF ResumeClient, ordinator
<1>. QED
  BY <1>3, <1>4 DEF ResumeClient

\* handleClient(fd) begins, for an event, for a new client or in a sweep.
LEMMA VisitKeepsInv ==
  ASSUME WorkerInv, NEW fd \in Fd, current = 0, ResumeClient(fd), InMap(fd), Open(fd),
         phase \in {"events", "sweep", "drain"},
         step = "next" \/ (step = "handle" /\ cur = fd),
         cur' = fd, todo' = todo \ {fd},
         UNCHANGED <<sockvars, running, stopped, phase, expired>>,
         clients' \in [Fd -> Client],
         \A g \in Fd : clients'[g].id = clients[g].id
                       /\ clients'[g].process_state = clients[g].process_state
  PROVE  WorkerInv'
<1>1. OrdinatorInv' /\ UNCHANGED <<routines, finished>> /\ step' = "check"
  BY ResumeClientEffect
<1>2. UNCHANGED <<rcv, peer, room, epoll>>
  BY DEF sockvars
<1>3. \A g \in Fd : (Open(g)' <=> Open(g)) /\ (InMap(g)' <=> InMap(g))
  BY <1>2 DEF Open, InMap
<1>4. TypeOK'
  BY <1>1, <1>2 DEF WorkerInv, TypeOK, OrdinatorInv, SockTypeOK, Client, Step
<1>5. LiveOwned'
  <2>1. ASSUME NEW id \in 1 .. Len(routines), ~routines[id].finished
        PROVE  routines[id].func \in Fd /\ Open(routines[id].func)
    BY <2>1, RoutineType DEF WorkerInv, LiveOwned, RoutineOwned
  <2>. QED
    BY <1>1, <1>2, <2>1, OwnersStay DEF Open
<1>6. LoopOK'
  BY <1>1, <1>3, <1>4, NoFdAssumption DEF WorkerInv, LoopOK, OrdinatorInv, TypeOK
<1>7. ClientsOpen'
  BY <1>1, <1>3 DEF WorkerInv, ClientsOpen, Clients
<1>8. OffExplained'
  BY <1>1, <1>2 DEF WorkerInv, OffExplained, Disarmed, Busy
<1>. QED
  BY <1>1, <1>4, <1>5, <1>6, <1>7, <1>8 DEF WorkerInv, OrdinatorInv

LEMMA HandleNewClientKeepsInv ==
  ASSUME WorkerInv, HandleNewClient
  PROVE  WorkerInv'
<1>1. cur \in Fd /\ current = 0 /\ InMap(cur) /\ cur \notin todo /\ step = "handle"
      /\ ResumeClient(cur)
  BY LoopFacts DEF HandleNewClient
<1>2. Open(cur) /\ phase \in {"events", "sweep", "drain"}
  BY <1>1 DEF WorkerInv, ClientsOpen, LoopOK, Clients
<1>3. cur' = cur /\ todo' = todo \ {cur} /\ UNCHANGED <<sockvars, running, stopped, phase, expired, clients>>
  BY <1>1 DEF HandleNewClient
<1>4. clients' \in [Fd -> Client]
  BY <1>3 DEF WorkerInv, TypeOK, Client
<1>. QED
  BY <1>1, <1>2, <1>3, <1>4, VisitKeepsInv

LEMMA TakeClientKeepsInv ==
  ASSUME WorkerInv, NEW fd \in Fd, TakeClient(fd)
  PROVE  WorkerInv'
<1>1. /\ current = 0 /\ Open(fd) /\ InMap(fd) /\ ResumeClient(fd) /\ step = "next"
      /\ cur' = fd /\ todo' = todo \ {fd} /\ phase \in {"sweep", "drain"}
      /\ UNCHANGED <<sockvars, running, stopped, phase, expired>>
  BY LoopFacts DEF TakeClient, WorkerInv, LoopOK
<1>. DEFINE c == [clients[fd] EXCEPT !.timed_out_ = @ \/ phase = "drain"]
<1>2. c \in Client /\ c.id = clients[fd].id /\ c.process_state = clients[fd].process_state
  BY LoopFacts DEF Client
<1>3. clients' = [clients EXCEPT ![fd] = c]
  BY DEF TakeClient
<1>. HIDE DEF c
<1>4. clients \in [Fd -> Client]
  BY DEF WorkerInv, TypeOK, Client
<1>5. clients' \in [Fd -> Client]
      /\ \A g \in Fd : clients'[g].id = clients[g].id
                       /\ clients'[g].process_state = clients[g].process_state
  BY <1>2, <1>3, <1>4
<1>. QED
  BY <1>1, <1>5, VisitKeepsInv

\* The vector never outgrows the set of descriptors.  create() appends only
\* when no routine has ended; then the routines belong to as many different
\* descriptors, and the new client's is none of these.
LEMMA VectorBounded ==
  ASSUME WorkerInv, NEW fd \in Fd, ~InMap(fd), finished = <<>>
  PROVE  Len(routines) + 1 <= Cardinality(Fd)
<1>0. Len(routines) \in Nat
  BY DEF WorkerInv, TypeOK, CoTypeOK
<1>1. \A id \in 1 .. Len(routines) : ~routines[id].finished
  BY DEF WorkerInv, OrdinatorOK, EndedIdsQueued
<1>2. \A id \in 1 .. Len(routines) : routines[id].func \in Fd /\ clients[routines[id].func].id = id
  BY <1>1, RoutineType DEF WorkerInv, LiveOwned, RoutineOwned
<1>. DEFINE Others == Fd \ {fd}
            owner == [id \in 1 .. Len(routines) |-> routines[id].func]
<1>3. owner \in [1 .. Len(routines) -> Others]
  BY <1>2 DEF InMap
<1>4. IsFiniteSet(Others) /\ Cardinality(Others) = Cardinality(Fd) - 1
      /\ Cardinality(Fd) \in Nat
  BY FdAssumption, FS_RemoveElement, FS_CardinalityType
<1>5. IsFiniteSet(1 .. Len(routines)) /\ Cardinality(1 .. Len(routines)) = Len(routines)
  <2>1. 1 \in Int /\ Len(routines) \in Int /\ (1 > Len(routines) => Len(routines) = 0)
        /\ Len(routines) - 1 + 1 = Len(routines)
    BY <1>0
  <2>2. /\ IsFiniteSet(1 .. Len(routines))
        /\ Cardinality(1 .. Len(routines)) =
             IF 1 > Len(routines) THEN 0 ELSE Len(routines) - 1 + 1
    BY <2>1, FS_Interval, Zenon
  <2>. QED
    BY <2>1, <2>2
<1>6. ~(Cardinality(Others) < Cardinality(1 .. Len(routines)))
  <2>. SUFFICES ASSUME Cardinality(Others) < Cardinality(1 .. Len(routines))
                PROVE  FALSE
    OBVIOUS
  <2>1. \E x, y \in 1 .. Len(routines) : x # y /\ owner[x] = owner[y]
    <3>. HIDE DEF owner, Others
    <3>. QED
      BY <1>3, <1>4, <1>5, FS_PigeonHole, Zenon
  <2>. QED
    BY <1>2, <2>1
<1>. QED
  BY <1>0, <1>4, <1>5, <1>6

\* create(): the new client's routine takes the slot NextId; the others stay.
LEMMA CreateEffect ==
  ASSUME WorkerInv, NEW fd \in Fd, ~InMap(fd), Create(fd)
  PROVE  /\ OrdinatorInv' /\ current = 0 /\ current' = 0
         /\ NextId \in 1 .. Len(routines')
         /\ Len(routines) <= Len(routines') /\ Len(routines') <= Cardinality(Fd)
         /\ routines'[NextId] = NewRoutine(fd)
         /\ \A id \in 1 .. Len(routines') :
              id # NextId => id \in 1 .. Len(routines) /\ routines'[id] = routines[id]
         /\ NextId \in 1 .. Len(routines) => routines[NextId].finished
<1>1. OrdinatorInv'
  BY OperationsKeepOrdinator DEF WorkerInv, TypeOK, OrdinatorInv
<1>2. routines \in Seq(Routine) /\ finished \in Seq(Nat) /\ current = 0 /\ current' = 0
  BY DEF WorkerInv, TypeOK, CoTypeOK, Create
<1>3. CASE finished = <<>>
  <2>1. NextId = Len(routines) + 1 /\ routines' = Append(routines, NewRoutine(fd))
    BY <1>3 DEF NextId, Create
  <2>2. Len(routines) + 1 <= Cardinality(Fd)
    BY <1>3, VectorBounded
  <2>. QED
    BY <1>1, <1>2, <2>1, <2>2
<1>4. CASE finished # <<>>
  <2>1. NextId = Head(finished) /\ routines' = [routines EXCEPT ![NextId] = NewRoutine(fd)]
    BY <1>4 DEF NextId, Create
  <2>2. NextId \in 1 .. Len(routines) /\ routines[NextId].finished
    BY <1>2, <1>4, <2>1 DEF WorkerInv, OrdinatorOK, QueuedIdsEnded
  <2>3. Len(routines) <= Cardinality(Fd)
    BY DEF WorkerInv
  <2>. QED
    BY <1>1, <1>2, <2>1, <2>2, <2>3
<1>. QED
  BY <1>3, <1>4

LEMMA TakeEventKeepsInv ==
  ASSUME WorkerInv, NEW fd \in Fd, TakeEvent(fd)
  PROVE  WorkerInv'
<1>1. /\ phase = "events" /\ step = "next" /\ fd \in todo /\ todo' = todo \ {fd} /\ cur' = fd
      /\ UNCHANGED <<sockvars, running, stopped, phase, expired>>
  BY DEF TakeEvent
<1>2. current = 0 /\ Open(fd)
  BY <1>1, LoopFacts
<1>3. clients \in [Fd -> Client]
  BY DEF WorkerInv, TypeOK, Client
<1>4. CASE InMap(fd) /\ ResumeClient(fd) /\ UNCHANGED clients
  BY <1>1, <1>2, <1>3, <1>4, VisitKeepsInv
<1>5. CASE ~InMap(fd) /\ Create(fd) /\ step' = "handle"
           /\ clients' = [clients EXCEPT ![fd] = ClientState(NextId)]
  <2>1. /\ OrdinatorInv' /\ current' = 0
        /\ NextId \in 1 .. Len(routines')
        /\ Len(routines) <= Len(routines') /\ Len(routines') <= Cardinality(Fd)
        /\ routines'[NextId] = NewRoutine(fd)
        /\ \A id \in 1 .. Len(routines') :
             id # NextId => id \in 1 .. Len(routines) /\ routines'[id] = routines[id]
    BY <1>5, CreateEffect
  <2>2. UNCHANGED <<rcv, peer, room, epoll>>
    BY <1>1 DEF sockvars
  <2>. DEFINE c == ClientState(NextId)
  <2>3. c \in Client /\ c.id = NextId /\ c.process_state = Reading
    BY <2>1 DEF Client, ClientState
  <2>4. clients' = [clients EXCEPT ![fd] = c]
    BY <1>5
  <2>. HIDE DEF c
  <2>5. clients' \in [Fd -> Client] /\ \A g \in Fd : clients'[g] = IF g = fd THEN c ELSE clients[g]
    BY <1>3, <2>3, <2>4
  <2>6. \A g \in Fd : (Open(g)' <=> Open(g)) /\ (InMap(g)' <=> InMap(g) \/ g = fd)
    BY <2>1, <2>2, <2>3, <2>5 DEF Open, InMap
  <2>7. TypeOK'
    BY <1>1, <1>5, <2>1, <2>2, <2>5 DEF WorkerInv, TypeOK, OrdinatorInv, SockTypeOK, Client, Step
  <2>8. LiveOwned'
    <3>. SUFFICES ASSUME NEW id \in 1 .. Len(routines'), ~routines'[id].finished
                  PROVE  RoutineOwned(id)'
      BY DEF LiveOwned
    <3>1. CASE id = NextId
      <4>1. routines'[id].func = fd /\ routines'[id].stack.at = "head"
        BY <2>1, <3>1, Frames DEF NewRoutine
      <4>2. clients'[fd].id = id /\ clients'[fd].process_state # Writing /\ Open(fd)'
        BY <1>2, <2>3, <2>5, <2>6, <3>1 DEF Reading, Writing
      <4>. QED
        BY <4>1, <4>2 DEF RoutineOwned, Open
    <3>2. CASE id # NextId
      <4>1. id \in 1 .. Len(routines) /\ routines'[id] = routines[id]
        BY <2>1, <3>2
      <4>2. RoutineOwned(id) /\ routines[id].func \in Fd
        BY <4>1, RoutineType DEF WorkerInv, LiveOwned
      <4>3. routines[id].func # fd
        BY <1>5, <4>1, <4>2 DEF RoutineOwned, InMap
      <4>. QED
        BY <2>2, <2>5, <4>1, <4>2, <4>3 DEF RoutineOwned, Open
    <3>. QED
      BY <3>1, <3>2
  <2>9. LoopOK'
    <3>1. \A g \in Fd : clients'[g].id <= Len(routines')
      <4>1. \A g \in Fd : clients[g].id <= Len(routines) /\ clients[g].id \in Nat
        BY <1>3 DEF WorkerInv, LoopOK, Client
      <4>. QED
        <5>1. Len(routines) \in Nat /\ Len(routines') \in Nat
          BY <2>1 DEF WorkerInv, OrdinatorInv, CoTypeOK
        <5>2. \A g \in Fd : clients[g].id <= Len(routines')
          BY <2>1, <4>1, <5>1
        <5>3. c.id <= Len(routines')
          BY <2>1, <2>3, <5>1
        <5>. QED
          BY <2>5, <5>2, <5>3
    <3>. QED
      BY <1>1, <1>5, <2>1, <3>1, NoFdAssumption DEF WorkerInv, LoopOK
  <2>10. ClientsOpen'
    BY <1>1, <1>2, <1>5, <2>6 DEF WorkerInv, ClientsOpen, Clients
  <2>11. OffExplained'
    BY <1>1, <1>5, <2>2 DEF WorkerInv, OffExplained, Disarmed, Busy
  <2>. QED
    BY <2>1, <2>7, <2>8, <2>9, <2>10, <2>11 DEF WorkerInv, OrdinatorInv
<1>. QED
  BY <1>4, <1>5 DEF TakeEvent

\* Faults and rearming: handleClient leaves the client in the map.
LEMMA LeaveKeepsInv ==
  ASSUME WorkerInv, Rethrow \/ Rearm
  PROVE  WorkerInv'
<1>1. /\ step = "check" /\ current = 0 /\ step' = "next" /\ cur' = NoFd
      /\ UNCHANGED <<ordinator, running, stopped, todo, clients, expired>>
  BY DEF Rethrow, Rearm, Returned
<1>2. cur \in Fd /\ phase \in {"events", "sweep", "drain"}
  BY <1>1, LoopFacts DEF WorkerInv, LoopOK
<1>3. /\ SockTypeOK'
      /\ \A fd \in Fd : Open(fd)' <=> Open(fd)
      /\ \A fd \in Fd : epoll'[fd] = "off" =>
           epoll[fd] = "off" /\ (phase' = "terminated" \/ fd # cur)
      /\ phase' \in {phase, "terminated"}
  <2>1. CASE Rethrow
    BY <2>1 DEF Rethrow, sockvars, WorkerInv, TypeOK, SockTypeOK, Open
  <2>2. CASE Rearm
    <3>1. PICK how \in {"in", "out"} : Arm(cur, how)
      BY <2>2 DEF Rearm
    <3>2. \A fd \in Fd : epoll'[fd] = IF fd = cur THEN how ELSE epoll[fd]
      BY <3>1 DEF Arm, WorkerInv, TypeOK, SockTypeOK
    <3>3. SockTypeOK'
      BY <3>1 DEF Arm, WorkerInv, TypeOK, SockTypeOK, Armed
    <3>. QED
      BY <2>2, <3>1, <3>2, <3>3 DEF Rearm, Arm, Open
  <2>. QED
    BY <2>1, <2>2
<1>4. TypeOK'
  BY <1>1, <1>3, OrdinatorStays DEF WorkerInv, TypeOK, Step, Phase
<1>5. LoopOK'
  <2>1. \A fd \in todo : InMap(fd)' <=> InMap(fd)
    BY <1>1 DEF InMap
  <2>2. NoFd \notin todo
    BY NoFdAssumption DEF WorkerInv, TypeOK
  <2>. QED
    BY <1>1, <1>2, <1>3, <2>1, <2>2, OrdinatorStays DEF WorkerInv, LoopOK
<1>6. ClientsOpen'
  <2>1. \A fd \in Fd : InMap(fd)' <=> InMap(fd)
    BY <1>1 DEF InMap
  <2>. QED
    BY <1>1, <1>3, <2>1 DEF WorkerInv, ClientsOpen, Clients
<1>7. OffExplained'
  BY <1>1, <1>2, <1>3 DEF WorkerInv, OffExplained, Disarmed, Busy
<1>. QED
  BY <1>1, <1>3, <1>4, <1>5, <1>6, <1>7, QuietStep

\* The handle of a client that is being closed names an ended routine, so no
\* live coroutine serves this descriptor.
LEMMA NotServed ==
  ASSUME WorkerInv, cur \in Fd, Finished(clients[cur].id),
         NEW id \in 1 .. Len(routines), ~routines[id].finished
  PROVE  routines[id].func \in Fd /\ routines[id].func # cur /\ Open(routines[id].func)
BY RoutineType DEF WorkerInv, LiveOwned, RoutineOwned, Finished

LEMMA CloseClientKeepsInv ==
  ASSUME WorkerInv, CloseClient
  PROVE  WorkerInv'
<1>1. /\ step = "check" /\ current = 0 /\ step' = "erase" /\ Finished(clients[cur].id)
      /\ UNCHANGED <<ordinator, running, stopped, phase, todo, cur, clients, expired>>
  BY DEF CloseClient, Returned, MustClose
<1>2. cur \in Fd /\ cur \notin todo /\ InMap(cur)
  BY <1>1, LoopFacts
<1>3. SockTypeOK' /\ \A fd \in Fd : epoll'[fd] = IF fd = cur THEN "none" ELSE epoll[fd]
  BY <1>2 DEF CloseClient, CloseSocket, WorkerInv, TypeOK, SockTypeOK, Armed, PeerState
<1>4. /\ CoTypeOK' /\ OrdinatorOK' /\ UNCHANGED <<routines, finished, current>>
  BY <1>1, OrdinatorStays
<1>5. \A fd \in Fd : (Open(fd)' <=> Open(fd) /\ fd # cur) /\ (InMap(fd)' <=> InMap(fd))
  BY <1>1, <1>3 DEF Open, InMap
<1>6. TypeOK'
  BY <1>1, <1>3, <1>4 DEF WorkerInv, TypeOK, Step
<1>7. LiveOwned'
  <2>1. ASSUME NEW id \in 1 .. Len(routines), ~routines[id].finished
        PROVE  Open(routines[id].func)'
    <3>1. routines[id].func \in Fd /\ routines[id].func # cur /\ Open(routines[id].func)
      BY <1>1, <1>2, <2>1, NotServed
    <3>. QED
      BY <1>3, <1>4, <3>1 DEF Open
  <2>. QED
    BY <1>1, <1>4, <2>1, OwnersStay
<1>8. LoopOK'
  <2>1. \A fd \in todo : InMap(fd)' <=> InMap(fd)
    BY <1>1 DEF InMap
  <2>. QED
    BY <1>1, <1>2, <1>4, <2>1, NoFdAssumption DEF WorkerInv, LoopOK, Finished
<1>9. ClientsOpen'
  BY <1>1, <1>2, <1>5 DEF WorkerInv, ClientsOpen, Clients
<1>10. OffExplained'
  BY <1>1, <1>3 DEF WorkerInv, OffExplained, Disarmed, Busy
<1>. QED
  BY <1>4, <1>6, <1>7, <1>8, <1>9, <1>10 DEF WorkerInv

LEMMA EraseKeepsInv ==
  ASSUME WorkerInv, Erase
  PROVE  WorkerInv'
<1>1. /\ step = "erase" /\ step' = "next" /\ cur' = NoFd /\ expired' = expired \ {cur}
      /\ clients' = [clients EXCEPT ![cur] = NoClient]
      /\ UNCHANGED <<sockvars, ordinator, running, stopped, phase, todo>>
  BY DEF Erase
<1>2. cur \in Fd /\ cur \notin todo /\ Finished(clients[cur].id) /\ current = 0
  BY <1>1, LoopFacts DEF WorkerInv, LoopOK
<1>3. NoClient \in Client /\ NoClient.id = 0
  BY DEF NoClient, ClientState, Client
<1>4. clients' \in [Fd -> Client]
      /\ \A fd \in Fd : clients'[fd] = IF fd = cur THEN NoClient ELSE clients[fd]
  BY <1>1, <1>3 DEF WorkerInv, TypeOK, Client
<1>5. /\ CoTypeOK' /\ OrdinatorOK' /\ UNCHANGED <<routines, finished, current>>
  BY <1>1, OrdinatorStays
<1>6. UNCHANGED <<rcv, peer, room, epoll>>
  BY <1>1 DEF sockvars
<1>7. \A fd \in Fd : (Open(fd)' <=> Open(fd)) /\ (InMap(fd)' <=> InMap(fd) /\ fd # cur)
  BY <1>3, <1>4, <1>6 DEF Open, InMap
<1>8. TypeOK'
  BY <1>1, <1>4, <1>5, <1>6 DEF WorkerInv, TypeOK, Step, SockTypeOK, Client
<1>9. LiveOwned'
  <2>1. ASSUME NEW id \in 1 .. Len(routines), ~routines[id].finished
        PROVE  /\ clients'[routines[id].func] = clients[routines[id].func]
               /\ Open(routines[id].func)'
    <3>1. routines[id].func \in Fd /\ routines[id].func # cur /\ Open(routines[id].func)
      BY <1>1, <1>2, <2>1, NotServed
    <3>. QED
      BY <1>4, <1>5, <1>6, <3>1 DEF Open
  <2>. QED
    BY <1>5, <2>1, OwnersStay
<1>10. LoopOK'
  <2>1. \A fd \in todo : InMap(fd) => InMap(fd)'
    BY <1>2, <1>7 DEF WorkerInv, TypeOK
  <2>2. \A fd \in Fd : clients'[fd].id <= Len(routines')
    BY <1>3, <1>4, <1>5 DEF WorkerInv, LoopOK, CoTypeOK
  <2>3. NoFd \notin todo
    BY NoFdAssumption DEF WorkerInv, TypeOK
  <2>. QED
    BY <1>1, <1>2, <1>5, <2>1, <2>2, <2>3 DEF WorkerInv, LoopOK
<1>11. ClientsOpen'
  BY <1>1, <1>2, <1>7 DEF WorkerInv, ClientsOpen, Clients
<1>12. OffExplained'
  BY <1>1, <1>6 DEF WorkerInv, OffExplained, Disarmed, Busy
<1>. QED
  BY <1>5, <1>8, <1>9, <1>10, <1>11, <1>12 DEF WorkerInv

-----------------------------------------------------------------------------
(* The invariant, and what follows from it. *)

LEMMA WorkerInitially == Init => WorkerInv
<1>. SUFFICES ASSUME Init PROVE WorkerInv
  OBVIOUS
<1>1. Co!OrdinatorInv
  <2>1. Co!CoInit
    BY DEF Init, CoInit, Co!CoInit
  <2>. QED
    BY <2>1, StartsInHead, Co!OrdinatorInitially, Zenon
<1>2. CoTypeOK /\ OrdinatorOK /\ routines = <<>>
  BY <1>1, SameOrdinator DEF OrdinatorInv, Init, CoInit
<1>3. SockTypeOK
  BY DEF Init, SockInit, SockTypeOK, PeerState, Armed
<1>4. \A fd \in Fd : clients[fd] = NoClient /\ ~InMap(fd) /\ epoll[fd] = "none"
  BY DEF Init, SockInit, InMap, NoClient, ClientState
<1>5. TypeOK
  BY <1>2, <1>3 DEF Init, TypeOK, NoClient, ClientState, Phase, Step
<1>6. LiveOwned /\ Len(routines) <= Cardinality(Fd)
  BY <1>2, FdAssumption, FS_CardinalityType DEF LiveOwned
<1>7. LoopOK
  BY <1>2, <1>4 DEF Init, LoopOK, CoInit, NoClient, ClientState
<1>8. ClientsOpen /\ OffExplained
  BY <1>4 DEF Init, ClientsOpen, OffExplained, Clients
<1>. QED
  BY <1>2, <1>5, <1>6, <1>7, <1>8 DEF WorkerInv

LEMMA WorkerInductive == WorkerInv /\ [Next]_vars => WorkerInv'
<1>. SUFFICES ASSUME WorkerInv, [Next]_vars PROVE WorkerInv'
  OBVIOUS
<1>1. CASE UNCHANGED vars
  <2>1. /\ UNCHANGED <<rcv, peer, room, epoll>> /\ UNCHANGED ordinator
        /\ UNCHANGED <<running, stopped, phase, todo, cur, step, clients, expired>>
    BY <1>1 DEF vars, sockvars, loopvars
  <2>2. TypeOK' /\ LoopOK' /\ ClientsOpen' /\ OffExplained'
    BY <2>1, OrdinatorStays
    DEF WorkerInv, TypeOK, SockTypeOK, LoopOK, ClientsOpen, OffExplained, Disarmed, Busy, Clients,
        InMap, Open, Finished
  <2>. QED
    BY <2>1, <2>2, QuietStep DEF Open
<1>2. CASE ServeClient
  BY <1>2, ServeClientServes, ServeKeepsInv
<1>3. CASE \/ Stop \/ Start \/ TestRunning \/ WaitTimeout \/ WaitInterrupted \/ TestEmpty
           \/ \E fd \in Fd : Expire(fd)
  <2>1. UNCHANGED <<sockvars, ordinator, clients>>
    BY <1>3 DEF Stop, Start, TestRunning, WaitTimeout, WaitInterrupted, TestEmpty, Expire
  <2>. QED
    BY <1>3, <2>1, LoopOnly
<1>. QED
  BY <1>1, <1>2, <1>3, WaitEventsKeepsInv, TakeEventKeepsInv, TakeClientKeepsInv,
     HandleNewClientKeepsInv, LeaveKeepsInv, CloseClientKeepsInv, EraseKeepsInv,
     AddClientKeepsInv, PeerKeepsInv
  DEF Next, Thread, Loop, HandleClient, Terminated

LEMMA WorkerInvariant == Spec => []WorkerInv
BY WorkerInitially, WorkerInductive, PTL DEF Spec

LEMMA InvGivesOwned == WorkerInv => RoutinesOwned
BY DEF WorkerInv, RoutinesOwned, LiveOwned, RoutineOwned

LEMMA InvGivesArmed == WorkerInv => AllArmed
BY DEF WorkerInv, AllArmed, OffExplained, Disarmed, Busy

\* The worker's variables keep their types: no receive or send buffer, no
\* suspended stack and no client record leaves its range, whatever peers send
\* and however the octets still to read wrap around.
THEOREM WorkerTyped == Spec => []TypeOK
BY WorkerInvariant, PTL DEF WorkerInv

\* The worker uses the coroutine library as the library expects: the free queue
\* holds exactly the ended routines, each once, and only a live one runs.
THEOREM WorkerOrdinatorSound == Spec => [](CoTypeOK /\ OrdinatorOK)
BY WorkerInvariant, PTL DEF WorkerInv, TypeOK

\* However handles are recycled, a coroutine that has not ended serves the
\* client that holds its handle, on an open descriptor, and the vector of
\* routines never outgrows the descriptors.
THEOREM CoroutinesOwned == Spec => []RoutinesOwned
BY WorkerInvariant, InvGivesOwned, PTL

\* Between close() and erase() apart, every client's descriptor is open and
\* registered, and what a for loop has still to visit is: clients.at(fd) finds
\* its client and EPOLL_CTL_MOD does not fail.
THEOREM ClientsStayOpen == Spec => []ClientsOpen
BY WorkerInvariant, PTL DEF WorkerInv

\* The one-shot registration is renewed on every path: the worker never blocks
\* in epoll_wait while a connection it holds is disarmed.
THEOREM NoConnectionDisarmed == Spec => []AllArmed
BY WorkerInvariant, InvGivesArmed, PTL

-----------------------------------------------------------------------------
(* One call at most after a time-out. *)

\* What is not a call of the coroutine that serves fd takes nothing from fd's
\* receive buffer and puts nothing into its send buffer, a close apart.
LEMMA OthersLeaveAlone ==
  ASSUME WorkerInv, Next, NEW fd \in Fd, Open(fd), epoll'[fd] # "none",
         ~(ServeClient /\ step = "call" /\ RunFd = fd)
  PROVE  Len(rcv'[fd]) >= Len(rcv[fd]) /\ room'[fd] >= room[fd]
<1>0. rcv[fd] \in Seq(Unit) /\ Len(rcv[fd]) \in Nat /\ room[fd] \in Nat
  BY DEF WorkerInv, TypeOK, SockTypeOK
<1>1. CASE UNCHANGED <<rcv, room>>
  BY <1>0, <1>1
<1>2. CASE ServeClient
  <2>1. ServeStep
    BY <1>2, ServeClientServes
  <2>2. fd # RunFd \/ step # "call"
    BY <1>2
  <2>3. rcv'[fd] = rcv[fd] /\ room'[fd] = room[fd]
    BY <2>1, <2>2 DEF ServeStep
  <2>. QED
    BY <1>0, <2>3
<1>3. ASSUME NEW g \in Fd, Peer(g)
      PROVE  Len(rcv'[fd]) >= Len(rcv[fd]) /\ room'[fd] >= room[fd]
  <2>. USE DEF WorkerInv, TypeOK, SockTypeOK
  <2>1. ASSUME NEW u \in Unit, Deliver(g, u)
        PROVE  Len(rcv'[fd]) >= Len(rcv[fd]) /\ room'[fd] >= room[fd]
    <3>1. rcv'[fd] = IF fd = g THEN Append(rcv[fd], u) ELSE rcv[fd]
      BY <2>1 DEF Deliver
    <3>. QED
      BY <1>0, <2>1, <3>1 DEF Deliver
  <2>2. ASSUME NEW how \in Ends, PeerEnds(g, how)
        PROVE  UNCHANGED <<rcv, room>>
    BY <2>2 DEF PeerEnds
  <2>3. CASE PeerReads(g)
    <3>1. room'[fd] = IF fd = g THEN room[fd] + 1 ELSE room[fd]
      BY <2>3 DEF PeerReads
    <3>. QED
      BY <1>0, <2>3, <3>1 DEF PeerReads
  <2>. QED
    BY <1>1, <1>3, <2>1, <2>2, <2>3 DEF Peer
<1>4. CASE CloseClient
  <2>1. cur \in Fd
    BY <1>4, LoopFacts DEF CloseClient, Returned
  <2>2. fd # cur
    BY <1>4, <2>1 DEF CloseClient, CloseSocket, WorkerInv, TypeOK, SockTypeOK
  <2>3. rcv'[fd] = rcv[fd] /\ room'[fd] = room[fd]
    BY <1>4, <2>1, <2>2 DEF CloseClient, CloseSocket, WorkerInv, TypeOK, SockTypeOK
  <2>. QED
    BY <1>0, <2>3
<1>5. CASE WaitEvents \/ Rearm \/ \E g \in Fd : AddClient(g)
  BY <1>1, <1>5 DEF WaitEvents, Report, Rearm, Arm, AddClient, OpenSocket
<1>6. CASE UNCHANGED sockvars
  BY <1>1, <1>6 DEF sockvars
<1>7. CASE \/ Start \/ TestRunning \/ WaitTimeout \/ WaitInterrupted \/ TestEmpty \/ Stop
           \/ HandleNewClient \/ Rethrow \/ Erase \/ Terminated
           \/ \E g \in Fd : TakeEvent(g) \/ TakeClient(g) \/ Expire(g)
  BY <1>6, <1>7
  DEF Start, TestRunning, WaitTimeout, WaitInterrupted, TestEmpty, Stop, HandleNewClient,
      Rethrow, Erase, Terminated, vars, TakeEvent, TakeClient, Expire
<1>. QED
  BY <1>2, <1>3, <1>4, <1>5, <1>7 DEF Next, Thread, Loop, HandleClient

\* The call that a coroutine is about to make is not barred.
CallAllowed == step = "call" => RunFd \notin barred

LEMMA TouchesByCall ==
  ASSUME WorkerInv, [Next]_vars, NEW fd \in Fd, Touches(fd)
  PROVE  ServeClient /\ step = "call" /\ RunFd = fd
<1>0. WorkerInv'
  BY WorkerInductive
<1>1. SockTypeOK /\ SockTypeOK'
  BY <1>0 DEF WorkerInv, TypeOK
<1>2. /\ rcv[fd] \in Seq(Unit) /\ room[fd] \in Nat
      /\ rcv'[fd] \in Seq(Unit) /\ room'[fd] \in Nat
  BY <1>1 DEF SockTypeOK
<1>3. Next
  <2>1. ~UNCHANGED <<rcv, room>>
    BY <1>2 DEF Touches
  <2>. QED
    BY <2>1 DEF vars, sockvars
<1>. QED
  BY <1>2, <1>3, OthersLeaveAlone DEF Touches

\* A coroutine's call stays its next step while others move.
LEMMA CallWaits ==
  ASSUME WorkerInv, [Next]_vars, ~ServeClient, step' = "call"
  PROVE  step = "call" /\ UNCHANGED <<routines, current>>
<1>1. CASE Stop \/ (\E fd \in Fd : AddClient(fd) \/ Expire(fd) \/ Peer(fd)) \/ UNCHANGED vars
  BY <1>1 DEF Stop, AddClient, Expire, Peer, vars, loopvars, ordinator
<1>2. CASE Start \/ TestRunning \/ WaitEvents \/ WaitTimeout \/ WaitInterrupted \/ TestEmpty
  BY <1>2 DEF Start, TestRunning, WaitEvents, WaitTimeout, WaitInterrupted, TestEmpty, ordinator
<1>3. CASE HandleClient \/ \E fd \in Fd : TakeEvent(fd) \/ TakeClient(fd)
  BY <1>3 DEF HandleClient, HandleNewClient, Rethrow, CloseClient, Erase, Rearm, TakeEvent,
              TakeClient, ResumeClient
<1>. QED
  BY <1>1, <1>2, <1>3 DEF Next, Thread, Loop, Terminated, vars, loopvars, ordinator

LEMMA CallAllowedStep ==
  ASSUME WorkerInv, CallAllowed, [ClockNext]_clockvars
  PROVE  CallAllowed'
<1>1. [Next]_vars
  BY DEF ClockNext, clockvars
<1>2. SUFFICES ASSUME step' = "call", RunFd' \in barred'
               PROVE  FALSE
  BY DEF CallAllowed
<1>3. CASE UNCHANGED clockvars
  BY <1>2, <1>3 DEF clockvars, vars, loopvars, ordinator, CallAllowed, RunFd
<1>4. CASE ClockNext
  <2>1. PICK fd \in Fd : /\ fd = RunFd' /\ TimedOut(fd)'
                         /\ fd \in barred \/ (TimedOut(fd) /\ Touches(fd)) \/ ~Caught(fd)
    BY <1>2, <1>4 DEF ClockNext, Bar
  <2>2. CASE ServeClient
    <3>1. ServeStep /\ step = "check" /\ ~TimedOut(RunFd) /\ current' = current /\ current # 0
      BY <1>2, <2>2, ServeClientServes DEF ServeStep, Turns
    <3>2. RunFd' = RunFd
      BY <3>1, RunningOne, ServeEffect DEF RunFd
    <3>3. ~TimedOut(fd)'
      BY <2>1, <3>1, <3>2, ServeEffect DEF TimedOut, ServeStep
    <3>. QED
      BY <2>1, <3>3
  <2>3. CASE ~ServeClient
    <3>1. step = "call" /\ RunFd' = RunFd
      BY <1>1, <1>2, <2>3, CallWaits DEF RunFd
    <3>2. Caught(fd) /\ fd \notin barred
      BY <2>1, <3>1 DEF Caught, CallAllowed, WorkerInv, LoopOK
    <3>3. ~Touches(fd)
      BY <1>1, <2>1, <2>3, TouchesByCall
    <3>. QED
      BY <2>1, <3>2, <3>3
  <2>. QED
    BY <2>2, <2>3
<1>. QED
  BY <1>3, <1>4

\* After its limit, or the drain's mark, a client sees one more read() or write()
\* at most, and none if its coroutine was suspended by then: whichever handle a
\* coroutine was resumed under, and whichever of the three loops it is in or
\* goes on to, the clock is looked at between two calls.
THEOREM TimedOutOneCall == ClockSpec => OneCallAfterTimeout
<1>1. ClockInit => WorkerInv /\ CallAllowed
  BY WorkerInitially DEF ClockInit, CallAllowed, Init
<1>2. WorkerInv /\ [ClockNext]_clockvars => WorkerInv'
  BY WorkerInductive DEF ClockNext, clockvars
<1>3. WorkerInv /\ CallAllowed /\ [ClockNext]_clockvars => CallAllowed'
  BY CallAllowedStep
<1>4. WorkerInv /\ CallAllowed /\ [ClockNext]_clockvars
        => [\A fd \in Fd : Touches(fd) => fd \notin barred]_clockvars
  BY TouchesByCall DEF CallAllowed, ClockNext, clockvars
<1>. QED
  BY <1>1, <1>2, <1>3, <1>4, PTL DEF ClockSpec, OneCallAfterTimeout

-----------------------------------------------------------------------------
(* The worker implements WorkerLife. *)

conn == [fd \in Fd |-> ConnOf(fd)]

\* A step that changes neither which descriptors are open, nor which clients
\* are in the map and not being erased, does not show.
LEMMA ConnStays ==
  ASSUME \A fd \in Fd :
           /\ Open(fd)' <=> Open(fd)
           /\ Open(fd) => ((InMap(fd) /\ ~(step = "erase" /\ cur = fd))' <=>
                           (InMap(fd) /\ ~(step = "erase" /\ cur = fd)))
  PROVE  UNCHANGED conn
BY DEF conn, ConnOf

\* One descriptor changes and the others do not.
LEMMA ConnMoves ==
  ASSUME NEW fd \in Fd, NEW what,
         ConnOf(fd)' = what,
         \A g \in Fd : g # fd => ConnOf(g)' = ConnOf(g)
  PROVE  conn' = [conn EXCEPT ![fd] = what]
BY DEF conn

LEMMA ServeHidden ==
  ASSUME WorkerInv, ServeStep
  PROVE  UNCHANGED <<conn, phase, running>>
<1>1. UNCHANGED <<phase, running, epoll>> /\ step # "erase" /\ step' # "erase"
  BY DEF ServeStep, Turns
<1>2. \A fd \in Fd : InMap(fd)' <=> InMap(fd)
  BY ServeEffect DEF InMap
<1>. QED
  BY <1>1, <1>2, ConnStays DEF Open

\* Steps in which the descriptors and the clients stay as they are.
LEMMA SameConns ==
  ASSUME UNCHANGED <<epoll, clients>>, step # "erase", step' # "erase"
  PROVE  UNCHANGED conn
BY ConnStays DEF Open, InMap

LEMMA RefinesStep ==
  ASSUME WorkerInv, [Next]_vars
  PROVE  [Promise!LifeNext]_(Promise!lifevars)
<1>. DEFINE life == LifeOfPhase[phase]
<1>1. SUFFICES Promise!LifeNext \/ UNCHANGED <<life, running, conn>>
  BY DEF Promise!lifevars, conn
<1>2. CASE UNCHANGED vars
  <2>1. UNCHANGED <<epoll, clients, step, cur, phase, running>>
    BY <1>2 DEF vars, sockvars, loopvars
  <2>. QED
    BY <2>1, ConnStays DEF Open, InMap
<1>3. CASE ServeClient
  BY <1>3, ServeClientServes, ServeHidden
<1>4. ASSUME NEW fd \in Fd, AddClient(fd)
      PROVE  Promise!LifeNext
  <2>1. /\ ~Open(fd) /\ UNCHANGED <<clients, phase, running, step, cur>>
        /\ \A g \in Fd : epoll'[g] = IF g = fd THEN "in" ELSE epoll[g]
    BY <1>4 DEF AddClient, OpenSocket, loopvars, WorkerInv, TypeOK, SockTypeOK
  <2>2. InMap(fd) => step = "erase" /\ cur = fd
    BY <2>1 DEF WorkerInv, ClientsOpen, Clients
  <2>3. ConnOf(fd) = "closed" /\ ConnOf(fd)' = "queued"
    BY <2>1, <2>2 DEF ConnOf, Open, InMap
  <2>4. \A g \in Fd : g # fd => ConnOf(g)' = ConnOf(g)
    BY <2>1 DEF ConnOf, Open, InMap
  <2>5. conn[fd] = "closed" /\ conn' = [conn EXCEPT ![fd] = "queued"]
    BY <2>3, <2>4, ConnMoves DEF conn
  <2>6. Promise!Accept(fd)
    BY <2>1, <2>5 DEF Promise!Accept, conn
  <2>. QED
    BY <2>6 DEF Promise!LifeNext
<1>5. CASE Stop
  <2>1. Promise!Lower
    BY <1>5, ConnStays DEF Stop, Promise!Lower, sockvars, Open, InMap, conn
  <2>. QED
    BY <2>1 DEF Promise!LifeNext
<1>6. CASE Start
  <2>1. Promise!Begin
    BY <1>6, ConnStays DEF Start, Promise!Begin, sockvars, Open, InMap, conn, LifeOfPhase
  <2>. QED
    BY <2>1 DEF Promise!LifeNext
<1>7. CASE TestRunning \/ WaitInterrupted
  <2>1. UNCHANGED <<conn, running>> /\ life = "serving"
        /\ (life' = "serving" \/ (~running /\ life' = "draining"))
    BY <1>7, ConnStays DEF TestRunning, WaitInterrupted, sockvars, Open, InMap, LifeOfPhase
  <2>2. ~running /\ life' = "draining" => Promise!Notice
    BY <2>1 DEF Promise!Notice, conn
  <2>. QED
    BY <2>1, <2>2 DEF Promise!LifeNext
<1>8. CASE TestEmpty
  <2>1. UNCHANGED <<conn, running>>
    BY <1>8, ConnStays DEF TestEmpty, sockvars, Open, InMap
  <2>2. CASE Clients = {} /\ phase' = "done"
    <3>1. \A fd \in Fd : conn[fd] # "active"
      BY <2>2 DEF conn, ConnOf, Clients
    <3>2. Promise!Return
      BY <1>8, <2>1, <2>2, <3>1 DEF TestEmpty, Promise!Return, LifeOfPhase, conn
    <3>. QED
      BY <3>2 DEF Promise!LifeNext
  <2>. QED
    BY <1>8, <2>1, <2>2 DEF TestEmpty
<1>9. CASE WaitEvents \/ WaitTimeout
  <2>1. \A fd \in Fd : Open(fd)' <=> Open(fd)
    BY <1>9 DEF WaitEvents, Report, WaitTimeout, sockvars, Ready, Open, WorkerInv, TypeOK, SockTypeOK
  <2>2. UNCHANGED <<clients, step, cur, running>> /\ life' = life
    BY <1>9 DEF WaitEvents, WaitTimeout, LifeOfPhase
  <2>. QED
    BY <2>1, <2>2, ConnStays DEF InMap
<1>10. ASSUME NEW fd \in Fd, TakeEvent(fd)
       PROVE  Promise!LifeNext \/ UNCHANGED <<life, running, conn>>
  <2>1. /\ step = "next" /\ phase = "events" /\ cur' = fd /\ Open(fd)
        /\ UNCHANGED <<epoll, phase, running>>
    BY <1>10, LoopFacts DEF TakeEvent, sockvars
  <2>2. CASE InMap(fd) /\ ResumeClient(fd) /\ UNCHANGED clients
    BY <2>1, <2>2, SameConns DEF ResumeClient
  <2>3. CASE ~InMap(fd) /\ Create(fd) /\ step' = "handle"
             /\ clients' = [clients EXCEPT ![fd] = ClientState(NextId)]
    <3>1. NextId # 0 /\ ClientState(NextId).id = NextId
      BY <2>3, CreateEffect DEF ClientState
    <3>2. \A g \in Fd : clients'[g] = IF g = fd THEN ClientState(NextId) ELSE clients[g]
      BY <2>3 DEF WorkerInv, TypeOK
    <3>3. ConnOf(fd) = "queued" /\ ConnOf(fd)' = "active"
      BY <2>1, <2>3, <3>1, <3>2 DEF ConnOf, Open, InMap
    <3>4. \A g \in Fd : g # fd => ConnOf(g)' = ConnOf(g)
      BY <2>1, <2>3, <3>2 DEF ConnOf, Open, InMap
    <3>5. conn[fd] = "queued" /\ conn' = [conn EXCEPT ![fd] = "active"]
      BY <3>3, <3>4, ConnMoves DEF conn
    <3>6. Promise!TakeUp(fd)
      BY <2>1, <3>5 DEF Promise!TakeUp, conn, LifeOfPhase
    <3>. QED
      BY <3>6 DEF Promise!LifeNext
  <2>. QED
    BY <1>10, <2>2, <2>3 DEF TakeEvent
<1>11. ASSUME NEW fd \in Fd, TakeClient(fd)
       PROVE  UNCHANGED <<life, running, conn>>
  <2>1. step = "next" /\ step' = "check" /\ UNCHANGED <<epoll, phase, running>>
    BY <1>11 DEF TakeClient, ResumeClient, sockvars
  <2>2. \A g \in Fd : clients'[g].id = clients[g].id
    <3>1. clients' = [clients EXCEPT ![fd] =
                        [clients[fd] EXCEPT !.timed_out_ = @ \/ phase = "drain"]]
      BY <1>11 DEF TakeClient
    <3>2. \A g \in Fd : clients[g] \in Client
      BY LoopFacts
    <3>. QED
      BY <3>1, <3>2 DEF WorkerInv, TypeOK, Client
  <2>. QED
    BY <2>1, <2>2, ConnStays DEF Open, InMap
<1>12. CASE HandleNewClient
  BY <1>12, SameConns DEF HandleNewClient, ResumeClient, sockvars
<1>13. CASE Rethrow
  <2>1. UNCHANGED <<running, conn>> /\ phase' = "terminated"
    BY <1>13, SameConns DEF Rethrow, Returned, sockvars
  <2>2. phase \in {"events", "sweep", "drain"}
    BY <1>13 DEF Rethrow, Returned, WorkerInv, LoopOK
  <2>3. Promise!Crash
    BY <2>1, <2>2 DEF Promise!Crash, conn, LifeOfPhase
  <2>. QED
    BY <2>3 DEF Promise!LifeNext
<1>14. CASE CloseClient
  <2>1. /\ step = "check" /\ step' = "erase" /\ cur' = cur /\ cur \in Fd /\ InMap(cur) /\ Open(cur)
        /\ UNCHANGED <<clients, phase, running>> /\ phase \in {"events", "sweep", "drain"}
    BY <1>14, LoopFacts DEF CloseClient, Returned, CloseSocket, WorkerInv, LoopOK
  <2>2. \A fd \in Fd : epoll'[fd] = IF fd = cur THEN "none" ELSE epoll[fd]
    BY <1>14 DEF CloseClient, CloseSocket, WorkerInv, TypeOK, SockTypeOK
  <2>3. ConnOf(cur) = "active" /\ \A fd \in Fd : ConnOf(fd)' = IF fd = cur THEN "closed" ELSE ConnOf(fd)
    BY <2>1, <2>2 DEF ConnOf, Open, InMap
  <2>4. conn[cur] = "active" /\ conn' = [conn EXCEPT ![cur] = "closed"]
    BY <2>1, <2>3 DEF conn
  <2>5. Promise!Close(cur)
    BY <2>1, <2>4 DEF Promise!Close, conn, LifeOfPhase
  <2>. QED
    BY <2>1, <2>5 DEF Promise!LifeNext
<1>15. CASE Erase
  <2>1. /\ step = "erase" /\ step' = "next" /\ cur \in Fd
        /\ UNCHANGED <<epoll, phase, running>>
    BY <1>15, LoopFacts DEF Erase, sockvars
  <2>2. \A fd \in Fd : clients'[fd] = IF fd = cur THEN NoClient ELSE clients[fd]
    BY <1>15 DEF Erase, WorkerInv, TypeOK
  <2>. QED
    BY <2>1, <2>2, ConnStays DEF Open, InMap, NoClient, ClientState
<1>16. CASE Rearm
  <2>1. /\ step = "check" /\ step' = "next" /\ UNCHANGED <<clients, phase, running>>
    BY <1>16 DEF Rearm, Returned
  <2>2. \A fd \in Fd : Open(fd)' <=> Open(fd)
    BY <1>16 DEF Rearm, Arm, Open, WorkerInv, TypeOK, SockTypeOK
  <2>. QED
    BY <2>1, <2>2, ConnStays DEF InMap
<1>17. CASE \E fd \in Fd : Expire(fd) \/ Peer(fd)
  <2>1. UNCHANGED <<epoll, clients, step, cur, phase, running>>
    BY <1>17 DEF Expire, Peer, Deliver, PeerEnds, PeerReads, sockvars, loopvars
  <2>. QED
    BY <2>1, ConnStays DEF Open, InMap
<1>. QED
  BY <1>2, <1>3, <1>4, <1>5, <1>6, <1>7, <1>8, <1>9, <1>10, <1>11, <1>12, <1>13, <1>14, <1>15,
     <1>16, <1>17 DEF Next, Thread, Loop, HandleClient, Terminated

\* The detailed worker implements WorkerLife: through epoll, coroutines and
\* recycled handles, each connection is taken up once and closed once, the loop
\* is left only with the flag down, and run() returns only when no client is
\* left.
THEOREM WorkerRefinesLife == Spec => KeepsPromise
<1>1. Init => Promise!LifeInit
  BY DEF Init, SockInit, Promise!LifeInit, LifeOfPhase, ConnOf, Open
<1>2. WorkerInv /\ [Next]_vars => [Promise!LifeNext]_(Promise!lifevars)
  BY RefinesStep
<1>. QED
  BY <1>1, <1>2, WorkerInvariant, PTL DEF Spec, KeepsPromise, Promise!LifeSpec

-----------------------------------------------------------------------------
(* Wake-ups, when every head that arrives can be parsed.  A head that cannot *)
(* be parsed ends a kept-alive client's coroutine and leaves the client in   *)
(* the map with a stale handle.                                              *)

OwnRoutine(fd) == routines[clients[fd].id].func = fd

\* Client fd waits: its own coroutine is suspended, and if the descriptor is
\* armed then for the right event.
Waiting(fd) ==
  /\ OwnRoutine(fd)
  /\ ~Finished(clients[fd].id)
  /\ \/ epoll[fd] = "off"
     \/ epoll[fd] = IF clients[fd].process_state = Writing THEN "out" ELSE "in"

\* handleClient is busy with client cur: what the coroutine left behind.
Handled ==
  /\ OwnRoutine(cur)
  /\ step = "handle" => ~Finished(clients[cur].id)
  /\ current # 0 => current = clients[cur].id
  /\ Finished(clients[cur].id) =>
        \/ routines[clients[cur].id].exception
        \/ ~clients[cur].keep_alive
        \/ TimedOut(cur)

WakeInv ==
  phase # "terminated" =>
    /\ \A fd \in Clients : fd # cur => Waiting(fd)
    /\ Busy => Handled

\* Only the client that handleClient works on changes, and it stays handled.
LEMMA WakeKept ==
  ASSUME WorkerInv, WakeInv, phase # "terminated", cur' = cur, UNCHANGED phase,
         \A fd \in Fd : fd # cur =>
           /\ clients'[fd] = clients[fd]
           /\ epoll'[fd] \in {epoll[fd], "off"} \/ ~InMap(fd)
           /\ InMap(fd) => routines'[clients[fd].id] = routines[clients[fd].id],
         Busy' => Handled'
  PROVE  WakeInv'
<1>1. \A fd \in Fd : fd # cur => (InMap(fd)' <=> InMap(fd))
  BY DEF InMap
<1>2. ASSUME NEW fd \in Fd, InMap(fd), fd # cur PROVE Waiting(fd)'
  <2>1. Waiting(fd)
    BY <1>2 DEF WakeInv, Busy, Clients
  <2>. QED
    BY <1>2, <2>1 DEF Waiting, OwnRoutine, Finished
<1>. QED
  BY <1>1, <1>2 DEF WakeInv, Busy, Clients

LEMMA ServeKeepsWake ==
  ASSUME WorkerInv, WakeInv, "bad" \notin Unit, ServeStep
  PROVE  WakeInv'
<1>1. /\ UNCHANGED <<phase, cur, epoll, expired>> /\ current # 0
      /\ step \in {"check", "call"} /\ step' \in {"check", "call"} /\ phase # "terminated"
  BY DEF ServeStep, Turns, WorkerInv, LoopOK
<1>2. Handled /\ cur \in Fd /\ InMap(cur)
  BY <1>1, LoopFacts DEF WakeInv, Busy
<1>3. current = clients[cur].id /\ RunFd = cur /\ current \in 1 .. Len(routines)
  BY <1>1, <1>2, RunningOne DEF Handled, OwnRoutine, RunFd
<1>4. ASSUME NEW fd \in Fd, fd # cur
      PROVE  /\ clients'[fd] = clients[fd]
             /\ InMap(fd) => routines'[clients[fd].id] = routines[clients[fd].id]
  <2>1. clients'[fd] = clients[fd]
    BY <1>3, <1>4, ServeEffect
  <2>2. ASSUME InMap(fd) PROVE clients[fd].id \in 1 .. Len(routines) /\ clients[fd].id # current
    <3>1. routines[clients[fd].id].func = fd
      BY <1>1, <1>4, <2>2 DEF WakeInv, Busy, Clients, Waiting, OwnRoutine
    <3>. QED
      BY <1>3, <1>4, <2>2, <3>1, LoopFacts DEF RunFd
  <2>. QED
    BY <2>1, <2>2, ServeEffect
<1>5. Handled'
  <2>1. clients'[cur].id = current /\ routines'[current].func = cur
    BY <1>2, <1>3, ServeEffect DEF RunFd
  <2>2. routines'[current].finished =>
          \/ routines'[current].exception \/ ~clients'[cur].keep_alive \/ TimedOut(cur)'
    BY <1>1, <1>2, <1>3, ServeEffect DEF TimedOut
  <2>. QED
    BY <1>1, <2>1, <2>2, ServeEffect DEF Handled, OwnRoutine, Finished
<1>. QED
  BY <1>1, <1>4, <1>5, WakeKept

\* handleClient(fd) begins: until now fd waited, so its own coroutine runs next.
LEMMA VisitKeepsWake ==
  ASSUME WorkerInv, WakeInv, phase # "terminated", NEW fd \in Fd, InMap(fd), step = "next",
         ResumeClient(fd), cur' = fd, UNCHANGED <<epoll, phase>>,
         \A g \in Fd : clients'[g].id = clients[g].id /\ (g # fd => clients'[g] = clients[g])
  PROVE  WakeInv'
<1>1. cur = NoFd /\ current = 0
  BY LoopFacts DEF WorkerInv, LoopOK
<1>2. /\ UNCHANGED routines /\ step' = "check"
      /\ current' # 0 => current' = clients[fd].id
  BY <1>1, ResumeClientEffect
<1>3. \A g \in Fd : (InMap(g)' <=> InMap(g)) /\ (InMap(g) => Waiting(g))
  BY <1>1, NoFdAssumption DEF InMap, WakeInv, Busy, Clients
<1>4. Handled'
  BY <1>2, <1>3 DEF Handled, Waiting, OwnRoutine, Finished
<1>5. \A g \in Fd : InMap(g) /\ g # fd => Waiting(g)'
  BY <1>2, <1>3 DEF Waiting, OwnRoutine, Finished
<1>. QED
  BY <1>3, <1>4, <1>5 DEF WakeInv, Busy, Clients

LEMMA TakeEventKeepsWake ==
  ASSUME WorkerInv, WakeInv, NEW fd \in Fd, TakeEvent(fd)
  PROVE  WakeInv'
<1>1. phase = "events" /\ step = "next" /\ cur' = fd /\ UNCHANGED <<epoll, phase>>
  BY DEF TakeEvent, sockvars
<1>2. CASE InMap(fd) /\ ResumeClient(fd) /\ UNCHANGED clients
  BY <1>1, <1>2, VisitKeepsWake
<1>3. CASE ~InMap(fd) /\ Create(fd) /\ step' = "handle"
           /\ clients' = [clients EXCEPT ![fd] = ClientState(NextId)]
  <2>1. cur = NoFd
    BY <1>1 DEF WorkerInv, LoopOK
  <2>2. /\ current' = 0 /\ routines'[NextId] = NewRoutine(fd)
        /\ Len(routines) <= Len(routines') /\ Len(routines) \in Nat /\ Len(routines') \in Nat
        /\ \A id \in 1 .. Len(routines') : id # NextId => routines'[id] = routines[id]
        /\ NextId \in 1 .. Len(routines) => routines[NextId].finished
    BY <1>3, CreateEffect DEF OrdinatorInv, WorkerInv, TypeOK, CoTypeOK
  <2>3. /\ clients'[fd].id = NextId
        /\ \A g \in Fd : g # fd => clients'[g] = clients[g]
    BY <1>3 DEF WorkerInv, TypeOK, ClientState
  <2>4. Handled'
    BY <1>1, <1>3, <2>2, <2>3 DEF Handled, OwnRoutine, Finished, NewRoutine
  <2>5. ASSUME NEW g \in Fd, InMap(g), g # fd PROVE Waiting(g)'
    <3>1. Waiting(g) /\ clients[g].id \in 1 .. Len(routines)
      BY <1>1, <2>1, <2>5, LoopFacts, NoFdAssumption DEF WakeInv, Busy, Clients
    <3>2. clients[g].id # NextId
      BY <2>2, <3>1 DEF Waiting, Finished
    <3>3. routines'[clients[g].id] = routines[clients[g].id]
      BY <2>2, <3>1, <3>2
    <3>. QED
      BY <1>1, <2>3, <2>5, <3>1, <3>3 DEF Waiting, OwnRoutine, Finished
  <2>6. \A g \in Fd : g # fd => (InMap(g)' <=> InMap(g))
    BY <2>3 DEF InMap
  <2>. QED
    BY <1>1, <2>4, <2>5, <2>6 DEF WakeInv, Busy, Clients
<1>. QED
  BY <1>2, <1>3 DEF TakeEvent

\* The loops' own steps leave the clients, their coroutines and their
\* descriptors alone.
LEMMA LoopKeepsWake ==
  ASSUME WorkerInv, WakeInv,
         UNCHANGED <<sockvars, ordinator, clients>>,
         \/ Stop \/ Start \/ TestRunning \/ WaitTimeout \/ WaitInterrupted \/ TestEmpty
         \/ \E fd \in Fd : Expire(fd)
  PROVE  WakeInv'
<1>1. /\ UNCHANGED <<epoll, routines, finished, current, clients, step, cur>>
      /\ phase # "terminated" /\ expired \subseteq expired'
  BY DEF sockvars, ordinator, loopvars, Stop, Start, TestRunning, WaitTimeout, WaitInterrupted,
         TestEmpty, Expire, Ended
<1>2. \A fd \in Fd : Waiting(fd) => Waiting(fd)'
  BY <1>1 DEF Waiting, OwnRoutine, Finished
<1>3. Handled => Handled'
  BY <1>1 DEF Handled, OwnRoutine, Finished, TimedOut
<1>. QED
  BY <1>1, <1>2, <1>3 DEF WakeInv, Busy, Clients, InMap

LEMMA WakeInductive ==
  ASSUME WorkerInv, WakeInv, "bad" \notin Unit, [Next]_vars
  PROVE  WakeInv'
<1>1. CASE UNCHANGED vars
  BY <1>1 DEF vars, sockvars, ordinator, loopvars, WakeInv, Busy, Waiting, Handled, OwnRoutine,
              Finished, TimedOut, Clients, InMap
<1>2. CASE ServeClient
  BY <1>2, ServeClientServes, ServeKeepsWake
<1>3. CASE \/ Stop \/ Start \/ TestRunning \/ WaitTimeout \/ WaitInterrupted \/ TestEmpty
           \/ \E fd \in Fd : Expire(fd)
  <2>1. UNCHANGED <<sockvars, ordinator, clients>>
    BY <1>3 DEF Stop, Start, TestRunning, WaitTimeout, WaitInterrupted, TestEmpty, Expire
  <2>. QED
    BY <1>3, <2>1, LoopKeepsWake
<1>4. ASSUME NEW fd \in Fd, AddClient(fd) \/ Peer(fd) PROVE WakeInv'
  <2>1. /\ UNCHANGED <<routines, finished, current, clients, phase, cur, step, expired>>
        /\ phase # "terminated"
        /\ \A g \in Fd : g # cur => epoll'[g] = epoll[g] \/ ~InMap(g)
    <3>1. CASE AddClient(fd)
      <4>1. InMap(fd) => fd = cur
        BY <3>1 DEF AddClient, OpenSocket, WorkerInv, ClientsOpen, Clients
      <4>2. \A g \in Fd : g # fd => epoll'[g] = epoll[g]
        BY <3>1 DEF AddClient, OpenSocket, WorkerInv, TypeOK, SockTypeOK
      <4>. QED
        BY <3>1, <4>1, <4>2 DEF AddClient, ordinator, loopvars, Ended
    <3>2. CASE Peer(fd)
      BY <3>2 DEF Peer, Deliver, PeerEnds, PeerReads, ordinator, loopvars, Ended
    <3>. QED
      BY <1>4, <3>1, <3>2
  <2>2. Handled => Handled'
    BY <2>1 DEF Handled, OwnRoutine, Finished, TimedOut
  <2>3. Busy' => Handled'
    BY <2>1, <2>2 DEF WakeInv, Busy
  <2>. QED
    BY <2>1, <2>3, WakeKept
<1>5. CASE WaitEvents
  <2>1. /\ UNCHANGED <<routines, clients, cur, step>> /\ phase = "wait" /\ phase' = "events"
        /\ \A g \in Fd : epoll'[g] \in {epoll[g], "off"}
    BY <1>5 DEF WaitEvents, Report, ordinator
  <2>2. step = "next"
    BY <2>1 DEF WorkerInv, LoopOK
  <2>3. \A fd \in Fd : Waiting(fd) => Waiting(fd)'
    BY <2>1 DEF Waiting, OwnRoutine, Finished
  <2>. QED
    BY <2>1, <2>2, <2>3 DEF WakeInv, Busy, Clients, InMap
<1>6. ASSUME NEW fd \in Fd, TakeClient(fd) PROVE WakeInv'
  <2>1. /\ phase # "terminated" /\ InMap(fd) /\ step = "next" /\ ResumeClient(fd) /\ cur' = fd
        /\ UNCHANGED <<epoll, phase>>
    BY <1>6 DEF TakeClient, sockvars, WorkerInv, LoopOK
  <2>2. \A g \in Fd : clients'[g].id = clients[g].id /\ (g # fd => clients'[g] = clients[g])
    <3>1. clients' = [clients EXCEPT ![fd] =
                        [clients[fd] EXCEPT !.timed_out_ = @ \/ phase = "drain"]]
      BY <1>6 DEF TakeClient
    <3>. QED
      BY <3>1, LoopFacts DEF WorkerInv, TypeOK, Client
  <2>. QED
    BY <2>1, <2>2, VisitKeepsWake
<1>7. CASE HandleNewClient
  <2>1. /\ step = "handle" /\ ResumeClient(cur) /\ UNCHANGED <<epoll, clients, phase, cur, expired>>
        /\ cur \in Fd /\ current = 0 /\ phase # "terminated"
    BY <1>7, LoopFacts DEF HandleNewClient, sockvars, WorkerInv, LoopOK
  <2>2. UNCHANGED routines /\ (current' # 0 => current' = clients[cur].id) /\ step' = "check"
    BY <2>1, ResumeClientEffect
  <2>3. Handled'
    BY <2>1, <2>2 DEF WakeInv, Busy, Handled, OwnRoutine, Finished, TimedOut
  <2>. QED
    BY <2>1, <2>2, <2>3, WakeKept
<1>8. CASE Rethrow
  BY <1>8 DEF Rethrow, WakeInv
<1>9. CASE CloseClient
  <2>1. /\ step' = "erase" /\ UNCHANGED <<routines, clients, phase, cur>> /\ step = "check"
    BY <1>9 DEF CloseClient, Returned, ordinator
  <2>2. \A fd \in Fd : fd # cur => epoll'[fd] = epoll[fd]
    BY <1>9 DEF CloseClient, CloseSocket, WorkerInv, TypeOK, SockTypeOK
  <2>3. phase # "terminated"
    BY <2>1 DEF WorkerInv, LoopOK
  <2>. QED
    BY <2>1, <2>2, <2>3, WakeKept DEF Busy
<1>10. CASE Erase
  <2>1. /\ step = "erase" /\ step' = "next" /\ cur \in Fd /\ cur' = NoFd
        /\ UNCHANGED <<epoll, routines, phase>> /\ phase # "terminated"
    BY <1>10, LoopFacts DEF Erase, sockvars, ordinator, WorkerInv, LoopOK
  <2>2. \A fd \in Fd : clients'[fd] = IF fd = cur THEN NoClient ELSE clients[fd]
    BY <1>10 DEF Erase, WorkerInv, TypeOK
  <2>3. \A fd \in Fd : InMap(fd)' => fd # cur /\ InMap(fd)
    BY <2>2 DEF InMap, NoClient, ClientState
  <2>4. \A fd \in Fd : fd # cur /\ Waiting(fd) => Waiting(fd)'
    BY <2>1, <2>2 DEF Waiting, OwnRoutine, Finished
  <2>. QED
    BY <2>1, <2>3, <2>4 DEF WakeInv, Busy, Clients
<1>11. CASE Rearm
  <2>1. /\ step = "check" /\ step' = "next" /\ cur \in Fd /\ cur' = NoFd
        /\ UNCHANGED <<routines, clients, phase>> /\ phase # "terminated"
        /\ ~routines[clients[cur].id].exception
    BY <1>11, LoopFacts DEF Rearm, Returned, ordinator, WorkerInv, LoopOK
  <2>2. \A fd \in Fd : epoll'[fd] =
          IF fd # cur THEN epoll[fd]
          ELSE IF clients[cur].process_state = Reading THEN "in" ELSE "out"
    BY <1>11 DEF Rearm, Arm, WorkerInv, TypeOK, SockTypeOK
  <2>3. clients[cur].process_state = Reading <=> clients[cur].process_state # Writing
    BY <2>1, LoopFacts DEF Client, Reading, Writing
  <2>4. OwnRoutine(cur) /\ ~Finished(clients[cur].id)
    BY <1>11, <2>1 DEF WakeInv, Busy, Handled, Rearm, MustClose
  <2>5. \A fd \in Fd : fd = cur => Waiting(fd)'
    BY <2>1, <2>2, <2>3, <2>4 DEF Waiting, OwnRoutine, Finished
  <2>6. \A fd \in Fd : fd # cur /\ Waiting(fd) => Waiting(fd)'
    BY <2>1, <2>2 DEF Waiting, OwnRoutine, Finished
  <2>. QED
    BY <2>1, <2>5, <2>6 DEF WakeInv, Busy, Clients, InMap
<1>. QED
  BY <1>1, <1>2, <1>3, <1>4, <1>5, <1>6, <1>7, <1>8, <1>9, <1>10, <1>11, TakeEventKeepsWake
  DEF Next, Thread, Loop, HandleClient, Terminated

LEMMA WakeImplies ==
  ASSUME WorkerInv, WakeInv
  PROVE  WakesWhenNeeded /\ ResumesOwnCoroutine
<1>1. ASSUME phase = "wait", NEW fd \in Clients
      PROVE  LET r == routines[clients[fd].id]
             IN /\ r.func = fd /\ ~r.finished
                /\ epoll[fd] = IF r.stack.at = "send" THEN "out" ELSE "in"
  <2>1. fd \in Fd /\ InMap(fd) /\ fd # cur
    BY <1>1, NoFdAssumption DEF WorkerInv, LoopOK, Clients
  <2>2. Waiting(fd) /\ epoll[fd] # "off"
    BY <1>1, <2>1 DEF WakeInv, WorkerInv, OffExplained, Disarmed, Busy
  <2>3. clients[fd].id \in 1 .. Len(routines)
    BY <2>1, LoopFacts
  <2>4. RoutineOwned(clients[fd].id)
    BY <2>2, <2>3 DEF WorkerInv, LiveOwned, Waiting, Finished
  <2>. QED
    BY <2>2, <2>4 DEF Waiting, OwnRoutine, Finished, RoutineOwned
<1>2. ResumesOwnCoroutine
  BY DEF ResumesOwnCoroutine, WakeInv, Busy, WorkerInv, LoopOK, Handled, OwnRoutine, RunFd
<1>. QED
  BY <1>1, <1>2 DEF WakesWhenNeeded

\* When every head that arrives can be parsed, no wake-up is lost: whenever the
\* worker blocks, each client's own coroutine is suspended and its descriptor
\* is armed for what this coroutine waits for; and handleClient resumes no
\* coroutine but its client's own.
THEOREM WakeUpsNotLost ==
  ASSUME "bad" \notin Unit
  PROVE  Spec => [](WakesWhenNeeded /\ ResumesOwnCoroutine)
<1>1. Init => WakeInv
  BY DEF Init, WakeInv, Busy, Clients, InMap, NoClient, ClientState
<1>2. WorkerInv /\ WakeInv /\ [Next]_vars => WakeInv'
  BY WakeInductive
<1>3. WorkerInv /\ WakeInv => WakesWhenNeeded /\ ResumesOwnCoroutine
  BY WakeImplies
<1>. QED
  BY <1>1, <1>2, <1>3, WorkerInvariant, PTL DEF Spec

-----------------------------------------------------------------------------
(* The drain. *)

AllEnded == \A id \in 1 .. Len(routines) : Finished(id)

\* A coroutine that has not ended is one that this pass has still to come to.
LiveAhead ==
  \A id \in 1 .. Len(routines) :
    ~Finished(id) => routines[id].func \in todo \cup {cur}

\* The client in hand has been marked, so that its own coroutine makes no call
\* and ends when it is resumed; a stale handle may have resumed another's.
Marked ==
  /\ step # "next" => step # "handle" /\ clients[cur].timed_out_
  /\ current # 0 => current = clients[cur].id
  /\ current # 0 /\ OwnRoutine(cur) => step = "check"
  /\ step = "check" /\ current = 0 /\ OwnRoutine(cur) => Finished(clients[cur].id)

DrainInv == phase = "drain" => LiveAhead /\ Marked

LEMMA LiveInMap ==
  ASSUME WorkerInv, NEW id \in 1 .. Len(routines), ~Finished(id)
  PROVE  /\ routines[id].func \in Fd /\ InMap(routines[id].func)
         /\ clients[routines[id].func].id = id
BY RoutineType DEF WorkerInv, LiveOwned, RoutineOwned, Finished, InMap

\* A pass begins with all the clients, and a live coroutine has one.
LEMMA PassBegins ==
  ASSUME WorkerInv, step = "next", todo' = Clients, UNCHANGED <<ordinator, step, clients>>
  PROVE  DrainInv'
<1>1. UNCHANGED routines /\ current' = 0
  BY LoopFacts DEF ordinator
<1>. QED
  BY <1>1, LiveInMap DEF DrainInv, LiveAhead, Marked, Clients, Finished

\* A coroutine that finds its client timed out does not yield: it ends, or goes
\* on to the next time-out test.
LEMMA TimedOutGivesUp ==
  ASSUME WorkerInv, ServeClient, step = "check", TimedOut(RunFd)
  PROVE  step' = "check" /\ (current' = 0 => routines'[current].finished)
<1>1. GiveUp
  BY DEF ServeClient, TestClock, ReadBlocked, ReadClosed, ReadFails, ReadHeadPart, ReadHeadEnd,
         ReadBody, WriteBlocked, WriteFails, Write, ReadingNow, Serving
<1>2. current # 0 /\ current \in 1 .. Len(routines) /\ routines[current] \in Routine
  BY <1>1, RunningOne DEF GiveUp
<1>3. ASSUME NEW throws \in BOOLEAN, Entry(throws) PROVE routines'[current].finished
  <2>1. routines' = [routines EXCEPT ![current] =
          [routines[current] EXCEPT !.stack = InHead, !.finished = TRUE, !.exception = throws]]
    BY <1>3 DEF Entry
  <2>. QED
    BY <1>2, <2>1 DEF Routine, WorkerInv, TypeOK, CoTypeOK
<1>. QED
  BY <1>1, <1>2, <1>3 DEF GiveUp, BackToTest, Respond, Run

LEMMA ServeKeepsDrain ==
  ASSUME WorkerInv, DrainInv, ServeClient
  PROVE  DrainInv'
<1>0. SUFFICES ASSUME phase = "drain"
               PROVE  LiveAhead' /\ Marked'
  BY ServeClientServes DEF DrainInv, ServeStep, Turns
<1>1. /\ ServeStep /\ UNCHANGED <<todo, cur>> /\ current # 0
      /\ step \in {"check", "call"} /\ step' \in {"check", "call"}
      /\ step' = "call" => step = "check" /\ ~TimedOut(RunFd)
  BY ServeClientServes DEF ServeStep, Turns
<1>2. LiveAhead /\ Marked /\ cur \in Fd /\ current = clients[cur].id
  BY <1>0, <1>1, LoopFacts DEF DrainInv, Marked
<1>3. current \in 1 .. Len(routines)
  BY <1>1, RunningOne
<1>4. /\ Len(routines') = Len(routines)
      /\ \A id \in 1 .. Len(routines) :
           /\ routines'[id].func = routines[id].func
           /\ routines[id].finished => routines'[id].finished
      /\ current' \in {0, current}
  BY <1>1, ServeEffect
<1>5. clients'[cur].id = clients[cur].id /\ clients'[cur].timed_out_ = clients[cur].timed_out_
  BY <1>1, <1>2, ServeEffect
<1>6. LiveAhead'
  BY <1>1, <1>2, <1>4 DEF LiveAhead, Finished
<1>7. OwnRoutine(cur)' => step' = "check" /\ (current' = 0 => Finished(clients[cur].id)')
  <2>1. OwnRoutine(cur)' => RunFd = cur
    BY <1>1, <1>2, <1>3, <1>4, <1>5 DEF OwnRoutine, RunFd
  <2>2. clients[cur].timed_out_ /\ (OwnRoutine(cur) => step = "check")
    BY <1>1, <1>2 DEF Marked
  <2>3. RunFd = cur => step' = "check" /\ (current' = 0 => routines'[current].finished)
    BY <1>2, <2>2, TimedOutGivesUp DEF TimedOut, OwnRoutine, RunFd
  <2>. QED
    BY <1>1, <1>2, <1>5, <2>1, <2>3 DEF Finished
<1>. QED
  BY <1>1, <1>2, <1>4, <1>5, <1>6, <1>7 DEF Marked

LEMMA DrainInductive ==
  ASSUME WorkerInv, DrainInv, [Next]_vars
  PROVE  DrainInv'
<1>1. SUFFICES ASSUME phase' = "drain"
               PROVE  DrainInv'
  BY DEF DrainInv
<1>2. ASSUME UNCHANGED <<ordinator, phase, todo, cur, step, clients>>
      PROVE  DrainInv'
  BY <1>2 DEF DrainInv, LiveAhead, Marked, ordinator, Finished, OwnRoutine
<1>3. CASE Stop \/ (\E fd \in Fd : AddClient(fd) \/ Expire(fd) \/ Peer(fd)) \/ UNCHANGED vars
  BY <1>2, <1>3 DEF Stop, AddClient, Expire, Peer, vars, loopvars
<1>4. CASE Start \/ WaitEvents \/ WaitTimeout \/ Rethrow
  BY <1>1, <1>4 DEF Start, WaitEvents, WaitTimeout, Rethrow
<1>5. CASE TestRunning \/ WaitInterrupted \/ TestEmpty
  <2>1. step = "next" /\ todo' = Clients /\ UNCHANGED <<ordinator, step, clients>>
    BY <1>1, <1>5 DEF TestRunning, WaitInterrupted, TestEmpty, WorkerInv, LoopOK
  <2>. QED
    BY <2>1, PassBegins
<1>6. ASSUME NEW fd \in Fd, TakeEvent(fd) PROVE DrainInv'
  BY <1>1, <1>6 DEF TakeEvent
<1>7. ASSUME NEW fd \in Fd, TakeClient(fd) PROVE DrainInv'
  <2>1. /\ phase = "drain" /\ step = "next" /\ fd \in todo /\ ResumeClient(fd)
        /\ cur' = fd /\ todo' = todo \ {fd}
        /\ clients' = [clients EXCEPT ![fd].timed_out_ = @ \/ phase = "drain"]
    BY <1>1, <1>7 DEF TakeClient
  <2>2. cur = NoFd /\ current = 0 /\ LiveAhead /\ InMap(fd) /\ clients[fd] \in Client
    BY <2>1, LoopFacts DEF DrainInv, WorkerInv, LoopOK
  <2>3. /\ UNCHANGED <<routines, finished>> /\ step' = "check"
        /\ current' # 0 => current' = clients[fd].id
        /\ current' = 0 => routines[clients[fd].id].finished
    BY <2>1, <2>2, ResumeClientEffect
  <2>4. clients'[fd].id = clients[fd].id /\ clients'[fd].timed_out_
    BY <2>1, <2>2 DEF WorkerInv, TypeOK, Client
  <2>5. LiveAhead'
    BY <2>1, <2>2, <2>3, LiveInMap, NoFdAssumption DEF LiveAhead, Finished
  <2>6. Marked'
    BY <2>1, <2>3, <2>4 DEF Marked, Finished
  <2>. QED
    BY <2>5, <2>6 DEF DrainInv
<1>8. CASE HandleNewClient
  BY <1>1, <1>8 DEF HandleNewClient, DrainInv, Marked
<1>9. CASE CloseClient
  <2>1. /\ UNCHANGED <<routines, finished, current, phase, todo, cur, clients>>
        /\ step = "check" /\ step' = "erase" /\ current = 0
    BY <1>9 DEF CloseClient, Returned, ordinator
  <2>. QED
    BY <2>1 DEF DrainInv, LiveAhead, Marked, Finished
<1>10. ASSUME Erase \/ Rearm PROVE DrainInv'
  <2>1. /\ phase = "drain" /\ UNCHANGED <<routines, todo>> /\ step' = "next"
        /\ step \in {"erase", "check"} /\ current = 0 /\ current' = 0
    BY <1>1, <1>10, LoopFacts DEF Erase, Rearm, Returned, ordinator
  <2>2. LiveAhead /\ Marked
    BY <2>1 DEF DrainInv
  <2>3. ASSUME NEW id \in 1 .. Len(routines), ~Finished(id)
        PROVE  routines[id].func \in todo
    <3>1. routines[id].func \in todo \cup {cur} /\ clients[routines[id].func].id = id
      BY <2>2, <2>3, LiveInMap DEF LiveAhead
    <3>2. step = "erase" => Finished(clients[cur].id)
      BY DEF WorkerInv, LoopOK
    <3>3. routines[id].func # cur
      BY <2>1, <2>2, <2>3, <3>1, <3>2 DEF Marked, OwnRoutine
    <3>. QED
      BY <3>1, <3>3
  <2>. QED
    BY <2>1, <2>3 DEF DrainInv, LiveAhead, Marked, Finished
<1>. QED
  BY <1>3, <1>4, <1>5, <1>6, <1>7, <1>8, <1>9, <1>10, ServeKeepsDrain
  DEF Next, Thread, Loop, HandleClient, Terminated

\* During the drain no client is added, and when no coroutine is left each visit
\* closes its client, unless the process is terminated.
VisitCloses ==
  phase = "drain" =>
    /\ Clients' \subseteq Clients
    /\ AllEnded /\ cur # NoFd /\ cur' = NoFd => cur \notin Clients' \/ phase' = "terminated"

LEMMA DrainStep ==
  ASSUME WorkerInv, DrainInv, [Next]_vars
  PROVE  VisitCloses
<1>1. SUFFICES ASSUME phase = "drain"
               PROVE  VisitCloses
  BY DEF VisitCloses
<1>2. Marked
  BY <1>1 DEF DrainInv
<1>3. ASSUME UNCHANGED <<clients, cur>> PROVE VisitCloses
  BY <1>3 DEF VisitCloses, Clients, InMap
<1>4. CASE Stop \/ (\E fd \in Fd : AddClient(fd) \/ Expire(fd) \/ Peer(fd)) \/ UNCHANGED vars
           \/ Start \/ TestRunning \/ WaitEvents \/ WaitTimeout \/ WaitInterrupted \/ TestEmpty
           \/ HandleNewClient \/ CloseClient
  <2>1. UNCHANGED <<clients, cur>>
    BY <1>4 DEF Stop, AddClient, Expire, Peer, vars, loopvars, Start, TestRunning, WaitEvents,
                WaitTimeout, WaitInterrupted, TestEmpty, HandleNewClient, CloseClient
  <2>. QED
    BY <1>3, <2>1
<1>5. CASE ServeClient
  <2>1. ServeStep
    BY <1>5, ServeClientServes
  <2>2. \A fd \in Fd : clients'[fd].id = clients[fd].id
    BY <2>1, ServeEffect
  <2>. QED
    BY <2>1, <2>2 DEF VisitCloses, Clients, InMap, ServeStep, Turns
<1>6. ASSUME NEW fd \in Fd, TakeEvent(fd) PROVE VisitCloses
  BY <1>1, <1>6 DEF TakeEvent
<1>7. ASSUME NEW fd \in Fd, TakeClient(fd) PROVE VisitCloses
  <2>1. cur' = fd
    BY <1>7 DEF TakeClient
  <2>2. \A g \in Fd : clients'[g].id = clients[g].id
    <3>1. clients' = [clients EXCEPT ![fd] =
                        [clients[fd] EXCEPT !.timed_out_ = @ \/ phase = "drain"]]
      BY <1>7 DEF TakeClient
    <3>. QED
      BY <3>1, LoopFacts DEF WorkerInv, TypeOK, Client
  <2>. QED
    BY <2>1, <2>2, NoFdAssumption DEF VisitCloses, Clients, InMap
<1>8. CASE Rethrow
  BY <1>8 DEF Rethrow, VisitCloses, Clients, InMap
<1>9. CASE Erase
  <2>1. \A fd \in Fd : clients'[fd] = IF fd = cur THEN NoClient ELSE clients[fd]
    BY <1>9 DEF Erase, WorkerInv, TypeOK
  <2>2. \A fd \in Fd : InMap(fd)' => fd # cur /\ InMap(fd)
    BY <2>1 DEF InMap, NoClient, ClientState
  <2>. QED
    BY <2>2 DEF VisitCloses, Clients
<1>10. CASE Rearm
  <2>1. UNCHANGED clients /\ step = "check" /\ ~MustClose
    BY <1>10 DEF Rearm, Returned
  <2>2. TimedOut(cur) /\ clients[cur].id \in 1 .. Len(routines)
    BY <1>2, <2>1, LoopFacts DEF Marked, TimedOut
  <2>3. ~AllEnded
    BY <2>1, <2>2 DEF MustClose, AllEnded
  <2>. QED
    BY <2>1, <2>3 DEF VisitCloses, Clients, InMap
<1>. QED
  BY <1>4, <1>5, <1>6, <1>7, <1>8, <1>9, <1>10 DEF Next, Thread, Loop, HandleClient, Terminated

LEMMA DrainInvariant == Spec => [](WorkerInv /\ DrainInv)
<1>1. Init => DrainInv
  BY DEF Init, DrainInv
<1>. QED
  BY <1>1, DrainInductive, WorkerInvariant, PTL DEF Spec

\* The drain takes two passes at most, whatever the handles: when its first pass
\* over the clients ends no coroutine is left, even if a stale handle had it
\* resume another client's coroutine, and from then on every visit closes its
\* client.  Meanwhile no client is added.
THEOREM DrainTakesTwoPasses ==
  Spec => /\ [](phase = "drain" /\ step = "next" /\ todo = {} => AllEnded)
          /\ [][VisitCloses]_vars
<1>1. WorkerInv /\ DrainInv /\ phase = "drain" /\ step = "next" /\ todo = {} => AllEnded
  <2>. SUFFICES ASSUME WorkerInv, DrainInv, phase = "drain", step = "next", todo = {},
                       NEW id \in 1 .. Len(routines), ~Finished(id)
                PROVE  FALSE
    BY DEF AllEnded
  <2>. QED
    BY LiveInMap, NoFdAssumption DEF DrainInv, LiveAhead, WorkerInv, LoopOK
<1>2. WorkerInv /\ DrainInv /\ [Next]_vars => VisitCloses
  BY DrainStep
<1>. QED
  BY <1>1, <1>2, DrainInvariant, PTL DEF Spec

\* With heads that parse a client's handle is its own coroutine's.
OnePass == phase = "drain" => Clients \subseteq todo \cup {cur}

LEMMA OnePassInductive ==
  ASSUME WorkerInv, WakeInv, DrainInv, OnePass, [Next]_vars
  PROVE  OnePass'
<1>1. SUFFICES ASSUME phase' = "drain"
               PROVE  Clients' \subseteq todo' \cup {cur'}
  BY DEF OnePass
<1>2. CASE TestRunning \/ WaitInterrupted \/ TestEmpty
  BY <1>1, <1>2 DEF TestRunning, WaitInterrupted, TestEmpty, Clients, InMap
<1>3. CASE Start \/ WaitEvents \/ WaitTimeout \/ Rethrow
  BY <1>1, <1>3 DEF Start, WaitEvents, WaitTimeout, Rethrow
<1>4. ASSUME phase = "drain", UNCHANGED <<todo, cur>> PROVE Clients' \subseteq todo' \cup {cur'}
  BY <1>4, DrainStep DEF VisitCloses, OnePass
<1>5. CASE Stop \/ (\E fd \in Fd : AddClient(fd) \/ Expire(fd) \/ Peer(fd)) \/ UNCHANGED vars
           \/ HandleNewClient \/ CloseClient
  <2>1. UNCHANGED <<phase, todo, cur>>
    BY <1>5 DEF Stop, AddClient, Expire, Peer, vars, loopvars, HandleNewClient, CloseClient
  <2>. QED
    BY <1>1, <1>4, <2>1
<1>6. CASE ServeClient
  BY <1>1, <1>4, <1>6, ServeClientServes DEF ServeStep, Turns
<1>7. ASSUME NEW fd \in Fd, TakeEvent(fd) PROVE Clients' \subseteq todo' \cup {cur'}
  BY <1>1, <1>7 DEF TakeEvent
<1>8. ASSUME NEW fd \in Fd, TakeClient(fd) PROVE Clients' \subseteq todo' \cup {cur'}
  <2>1. phase = "drain" /\ step = "next" /\ cur' = fd /\ todo' = todo \ {fd}
    BY <1>1, <1>8 DEF TakeClient
  <2>2. Clients' \subseteq Clients /\ cur = NoFd
    BY <2>1, DrainStep DEF VisitCloses, WorkerInv, LoopOK
  <2>. QED
    BY <2>1, <2>2, NoFdAssumption DEF OnePass, Clients
<1>9. CASE Erase
  <2>1. phase = "drain" /\ UNCHANGED todo
    BY <1>1, <1>9 DEF Erase
  <2>2. \A fd \in Fd : clients'[fd] = IF fd = cur THEN NoClient ELSE clients[fd]
    BY <1>9 DEF Erase, WorkerInv, TypeOK
  <2>3. \A fd \in Fd : InMap(fd)' => fd # cur /\ InMap(fd)
    BY <2>2 DEF InMap, NoClient, ClientState
  <2>. QED
    BY <2>1, <2>3 DEF OnePass, Clients
<1>10. CASE Rearm
  <2>1. phase = "drain" /\ step = "check" /\ current = 0 /\ ~MustClose
    BY <1>1, <1>10 DEF Rearm, Returned
  <2>2. Marked /\ OwnRoutine(cur)
    BY <2>1 DEF DrainInv, WakeInv, Busy, Handled
  <2>. QED
    BY <2>1, <2>2 DEF Marked, MustClose, TimedOut
<1>. QED
  BY <1>2, <1>3, <1>5, <1>6, <1>7, <1>8, <1>9, <1>10
  DEF Next, Thread, Loop, HandleClient, Terminated

\* With heads that parse, one pass is enough: whoever is still in the map is
\* in hand or has not been visited yet.
THEOREM DrainTakesOnePass ==
  ASSUME "bad" \notin Unit
  PROVE  Spec => []OnePass
<1>1. Init => WakeInv /\ OnePass
  BY DEF Init, WakeInv, Busy, OnePass, Clients, InMap, NoClient, ClientState
<1>2. WorkerInv /\ WakeInv /\ [Next]_vars => WakeInv'
  BY WakeInductive
<1>3. WorkerInv /\ WakeInv /\ DrainInv /\ OnePass /\ [Next]_vars => OnePass'
  BY OnePassInductive
<1>. QED
  BY <1>1, <1>2, <1>3, DrainInvariant, PTL DEF Spec
=============================================================================
