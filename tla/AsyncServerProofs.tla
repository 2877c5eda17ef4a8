------------------------- MODULE AsyncServerProofs --------------------------
(***************************************************************************)
(* For any set of descriptor numbers, buffer sizes and sets of events that *)
(* users ask for: tcp::AsyncServer never handles an event of a connection  *)
(* that it does not have, its entries and the sockets correspond, Closed   *)
(* is never told of a live peer, and no input of an orderly closed         *)
(* connection is thrown away unless the user asked for Closed.             *)
(*                                                                         *)
(* None of this is inductive: the array that epoll_wait filled is handled  *)
(* event by event while callbacks close connections, numbers are reused    *)
(* and peers go on.  AInv says what stays true of an event that waits in   *)
(* the array (BatchOK) and of the connection that the callback has         *)
(* (CallbackOK).                                                           *)
(***************************************************************************)
EXTENDS AsyncServer, TLAPS

\* A number's socket has the owner that the map says; a closed one is blank.
SocketOK(fd) ==
  /\ (sock[fd].open /\ fd \notin leaked) <=> connections[fd] = "open"
  /\ fd \in leaked => sock[fd].open
  /\ ~sock[fd].open => sock[fd] = NoSocket

\* Events in the array are of open connections; what they report of the input
\* and of the peer's end still holds, since only the callback that gets an event
\* reads or closes its connection.
BatchOK(fd) ==
  /\ batch[fd] # {} => connections[fd] = "open"
  /\ "EPOLLIN" \in batch[fd] => sock[fd].in > 0 \/ sock[fd].end # "none"
  /\ "EPOLLRDHUP" \in batch[fd] => "Closed" \in wanted /\ sock[fd].end # "none"
  /\ "EPOLLHUP" \in batch[fd] => sock[fd].end \in {"reset", "dead"}
  /\ "EPOLLERR" \in batch[fd] => sock[fd].end \in {"reset", "dead"}

\* The callback has an entry of the map whose event is no longer in the array.
CallbackOK ==
  /\ cur \in Fd
  /\ connections[cur] # "none"
  /\ cur \notin leaked
  /\ batch[cur] = {}
  /\ owes => sock[cur].in > 0 \/ sock[cur].end # "none"
  /\ (connections[cur] = "open" /\ "Closed" \in events) =>
       /\ sock[cur].end # "none"
       /\ (sock[cur].end = "fin" /\ "Closed" \notin wanted) => sock[cur].in = 0

AInv ==
  /\ ATypeOK
  /\ pending.there + pending.gone <= Backlog
  /\ \A fd \in Fd : SocketOK(fd)
  /\ pc # "killed" => \A fd \in Fd : BatchOK(fd)
  /\ pc \in {"stopped", "wait", "destroyed"} => batch = NoBatch
  /\ pc = "callback" => CallbackOK
  /\ pc = "undefined" => accepting /\ ~serving

USE AsyncAssumption

\* A server without connections satisfies the invariant.
LEMMA AsyncInitially == Init => AInv
<1>. SUFFICES ASSUME Init PROVE AInv
  OBVIOUS
<1>. USE DEF Init
<1>1. wanted \subseteq Event
  BY DEF Event
<1>2. /\ sock \in [Fd -> Socket]
      /\ pending \in [there : 0..Backlog, gone : 0..Backlog]
      /\ pending.there + pending.gone <= Backlog
  BY DEF Socket, NoSocket
<1>3. ATypeOK
  BY <1>1, <1>2 DEF ATypeOK, NoBatch
<1>4. ASSUME NEW fd \in Fd PROVE SocketOK(fd) /\ BatchOK(fd)
  BY DEF SocketOK, BatchOK, NoSocket, NoBatch
<1>. QED
  BY <1>2, <1>3, <1>4 DEF AInv

-----------------------------------------------------------------------------
(* The peers *)

\* Connections that wait for accept concern no entry and no event.
LEMMA BacklogKeepsInv ==
  ASSUME AInv, Connect \/ GiveUp
  PROVE  AInv'
<1>1. /\ pending' \in [there : 0..Backlog, gone : 0..Backlog]
      /\ pending'.there + pending'.gone <= Backlog
  <2>1. /\ pending \in [there : 0..Backlog, gone : 0..Backlog]
        /\ pending.there + pending.gone <= Backlog
    BY DEF AInv, ATypeOK
  <2>2. CASE Connect
    BY <2>1, <2>2 DEF Connect
  <2>3. CASE GiveUp
    BY <2>1, <2>3 DEF GiveUp
  <2>. QED
    BY <2>2, <2>3
<1>2. UNCHANGED <<wanted, connections, sock, pc, batch, accepting, cur, events, owes, leaked, serving>>
  BY DEF Connect, GiveUp
<1>. QED
  BY <1>1, <1>2 DEF AInv, ATypeOK, SocketOK, BatchOK, CallbackOK, NoBatch

\* What a peer does to a socket leaves true what an event said: input only
\* grows, and an end is final.
LEMMA PeerKeepsInv ==
  ASSUME AInv, NEW fd \in Fd, Peer(fd)
  PROVE  AInv'
<1>. DEFINE s == sock'[fd]
<1>1. /\ UNCHANGED <<wanted, connections, pending, pc, batch, accepting, cur, events, owes, leaked, serving>>
      /\ sock[fd].open /\ s.open
      /\ sock' = [sock EXCEPT ![fd] = s]
      /\ s \in Socket
      /\ s.in >= sock[fd].in
      /\ sock[fd].end # "none" => s.in = sock[fd].in /\ s.end # "none"
      /\ sock[fd].end \in {"reset", "dead"} => s.end \in {"reset", "dead"}
      /\ s.end = "fin" => sock[fd].end \in {"none", "fin"}
  <2>1. sock[fd] \in Socket /\ sock \in [Fd -> Socket]
    BY DEF AInv, ATypeOK
  <2>2. CASE PeerSends(fd)
    BY <2>1, <2>2 DEF PeerSends, PeerDoes, Socket
  <2>3. CASE PeerReads(fd)
    BY <2>1, <2>3 DEF PeerReads, PeerDoes, Socket
  <2>4. CASE PeerCloses(fd)
    BY <2>1, <2>4 DEF PeerCloses, PeerDoes, Socket
  <2>5. CASE PeerResets(fd)
    BY <2>1, <2>5 DEF PeerResets, PeerDoes, Socket
  <2>. QED
    BY <2>2, <2>3, <2>4, <2>5 DEF Peer
<1>2. \A g \in Fd : g # fd => sock'[g] = sock[g]
  BY <1>1 DEF AInv, ATypeOK
<1>. HIDE DEF s
<1>3. ATypeOK'
  BY <1>1 DEF AInv, ATypeOK
<1>4. ASSUME NEW g \in Fd PROVE SocketOK(g)'
  BY <1>1, <1>2 DEF s, AInv, SocketOK
<1>5. ASSUME NEW g \in Fd, pc # "killed" PROVE BatchOK(g)'
  <2>1. BatchOK(g) /\ sock[g] \in Socket
    BY <1>5 DEF AInv, ATypeOK
  <2>2. CASE g # fd
    BY <1>1, <1>2, <2>1, <2>2 DEF BatchOK
  <2>3. CASE g = fd
    BY <1>1, <2>1, <2>3 DEF s, BatchOK, Socket
  <2>. QED
    BY <2>2, <2>3
<1>6. ASSUME pc = "callback" PROVE CallbackOK'
  <2>1. CallbackOK /\ sock[fd] \in Socket
    BY <1>6 DEF AInv, ATypeOK
  <2>2. CASE cur # fd
    BY <1>1, <1>2, <2>1, <2>2 DEF CallbackOK
  <2>3. CASE cur = fd
    BY <1>1, <2>1, <2>3 DEF s, CallbackOK, Socket
  <2>. QED
    BY <2>2, <2>3
<1>. QED
  BY <1>1, <1>3, <1>4, <1>5, <1>6 DEF AInv, NoBatch
-----------------------------------------------------------------------------
(* The loop *)

\* An exception leaves nothing behind but the map and the sockets.
LEMMA ThrowsKeepsInv ==
  ASSUME AInv, Throws, UNCHANGED <<wanted, connections, serving>>,
         sock' \in [Fd -> Socket], leaked' \subseteq Fd,
         pending' \in [there : 0..Backlog, gone : 0..Backlog],
         pending'.there + pending'.gone <= Backlog,
         \A fd \in Fd : SocketOK(fd)'
  PROVE  AInv'
<1>1. ATypeOK'
  BY DEF AInv, ATypeOK, Throws, NoBatch
<1>2. \A fd \in Fd : BatchOK(fd)'
  BY DEF Throws, NoBatch, BatchOK
<1>. QED
  BY <1>1, <1>2 DEF AInv, Throws, NoBatch

\* A number that is free has no event in the array and no open entry.
LEMMA FreeNumber ==
  ASSUME AInv, pc # "killed", NEW fd \in Fd, ~sock[fd].open
  PROVE  connections[fd] # "open" /\ batch[fd] = {} /\ fd \notin leaked
<1>1. SocketOK(fd) /\ BatchOK(fd)
  BY DEF AInv
<1>. QED
  BY <1>1 DEF SocketOK, BatchOK

\* A new connection gets a number without an open entry and without events; a
\* dead entry under the number stays.
LEMMA AcceptClientKeepsInv ==
  ASSUME AInv, NEW fd \in Fd, AcceptClient(fd)
  PROVE  AInv'
<1>. USE DEF AcceptClient
<1>1. connections[fd] # "open" /\ batch[fd] = {} /\ fd \notin leaked
  BY FreeNumber
<1>2. NewSocket \in Socket /\ NewSocket.open
  BY DEF NewSocket, Socket
<1>3. /\ pending' \in [there : 0..Backlog, gone : 0..Backlog]
      /\ pending'.there + pending'.gone <= Backlog
  <2>1. /\ pending \in [there : 0..Backlog, gone : 0..Backlog]
        /\ pending.there + pending.gone <= Backlog
    BY DEF AInv, ATypeOK
  <2>. QED
    BY <2>1
<1>4. /\ connections' \in [Fd -> {"none", "open", "closed"}]
      /\ sock' \in [Fd -> Socket]
  BY <1>2 DEF Emplace, AInv, ATypeOK
<1>5. ATypeOK'
  BY <1>3, <1>4 DEF AInv, ATypeOK
<1>6. \A g \in Fd : g # fd => connections'[g] = connections[g] /\ sock'[g] = sock[g]
  BY DEF Emplace, AInv, ATypeOK
<1>7. \/ connections'[fd] = "open" /\ sock'[fd] = NewSocket
      \/ connections'[fd] = connections[fd] /\ sock'[fd] = sock[fd]
  BY DEF Emplace, AInv, ATypeOK
<1>8. ASSUME NEW g \in Fd PROVE SocketOK(g)' /\ BatchOK(g)'
  <2>1. SocketOK(g) /\ BatchOK(g)
    BY DEF AInv
  <2>2. CASE g # fd
    BY <1>6, <2>1, <2>2 DEF SocketOK, BatchOK
  <2>3. CASE g = fd
    BY <1>1, <1>2, <1>7, <2>1, <2>3 DEF SocketOK, BatchOK
  <2>. QED
    BY <2>2, <2>3
<1>. QED
  BY <1>3, <1>5, <1>8 DEF AInv

\* The constructor of an AsyncConnection closes the descriptor before it throws.
LEMMA AcceptGoneKeepsInv ==
  ASSUME AInv, NEW fd \in Fd, AcceptGone(fd)
  PROVE  AInv'
<1>1. /\ pending' \in [there : 0..Backlog, gone : 0..Backlog]
      /\ pending'.there + pending'.gone <= Backlog
  <2>1. /\ pending \in [there : 0..Backlog, gone : 0..Backlog]
        /\ pending.there + pending.gone <= Backlog
    BY DEF AInv, ATypeOK
  <2>. QED
    BY <2>1 DEF AcceptGone
<1>2. \A g \in Fd : SocketOK(g)'
  BY DEF AInv, SocketOK, AcceptGone
<1>. QED
  BY <1>1, <1>2, ThrowsKeepsInv DEF AInv, ATypeOK, AcceptGone

\* The descriptor that addEpoll loses is open and in no entry.
LEMMA AddEpollFailsKeepsInv ==
  ASSUME AInv, NEW fd \in Fd, AddEpollFails(fd)
  PROVE  AInv'
<1>. USE DEF AddEpollFails
<1>1. connections[fd] # "open" /\ fd \notin leaked
  BY FreeNumber
<1>2. /\ pending' \in [there : 0..Backlog, gone : 0..Backlog]
      /\ pending'.there + pending'.gone <= Backlog
  <2>1. /\ pending \in [there : 0..Backlog, gone : 0..Backlog]
        /\ pending.there + pending.gone <= Backlog
    BY DEF AInv, ATypeOK
  <2>. QED
    BY <2>1
<1>3. NewSocket \in Socket /\ NewSocket.open
  BY DEF NewSocket, Socket
<1>4. sock' \in [Fd -> Socket] /\ leaked' \subseteq Fd
  BY <1>3 DEF AInv, ATypeOK
<1>5. ASSUME NEW g \in Fd PROVE SocketOK(g)'
  <2>1. SocketOK(g) /\ sock'[g] = IF g = fd THEN NewSocket ELSE sock[g]
    BY DEF AInv, ATypeOK
  <2>. QED
    BY <1>1, <1>3, <2>1 DEF SocketOK
<1>. QED
  BY <1>2, <1>4, <1>5, ThrowsKeepsInv

\* accept() keeps the invariant, whether it succeeds or not.
LEMMA AcceptKeepsInv ==
  ASSUME AInv, Accept
  PROVE  AInv'
<1>1. CASE AcceptFails
  <2>1. \A g \in Fd : SocketOK(g)'
    BY <1>1 DEF AInv, SocketOK, AcceptFails
  <2>. QED
    BY <1>1, <2>1, ThrowsKeepsInv DEF AInv, ATypeOK, AcceptFails
<1>2. CASE AcceptClosed
  <2>1. ATypeOK' /\ \A fd \in Fd : SocketOK(fd)' /\ BatchOK(fd)'
    BY <1>2 DEF AInv, ATypeOK, SocketOK, BatchOK, AcceptClosed
  <2>. QED
    BY <1>2, <2>1 DEF AInv, AcceptClosed
<1>3. ASSUME NEW fd \in Fd, AcceptClient(fd) \/ AcceptGone(fd) \/ AddEpollFails(fd)
      PROVE  AInv'
  BY <1>3, AcceptClientKeepsInv, AcceptGoneKeepsInv, AddEpollFailsKeepsInv
<1>. QED
  BY <1>1, <1>2, <1>3 DEF Accept

\* epoll_wait reports what is so, and of sockets in the epoll set only.
LEMMA EpollWaitKeepsInv ==
  ASSUME AInv, EpollWait
  PROVE  AInv'
<1>. USE DEF EpollWait
<1>1. ATypeOK'
  BY DEF AInv, ATypeOK, Waiting, Report
<1>2. ASSUME NEW fd \in Fd PROVE SocketOK(fd)' /\ BatchOK(fd)'
  <2>1. SocketOK(fd) /\ batch'[fd] = Report(fd)
    BY DEF AInv
  <2>. QED
    BY <2>1 DEF SocketOK, BatchOK, Report, Requested, Ended, Bit
<1>. QED
  BY <1>1, <1>2 DEF AInv

\* handleClient finds the entry, and tells the callback what is still true.
LEMMA HandleClientKeepsInv ==
  ASSUME AInv, NEW fd \in Fd, HandleClient(fd)
  PROVE  AInv'
<1>. USE DEF HandleClient
<1>1. SocketOK(fd) /\ BatchOK(fd)
  BY DEF AInv
<1>2. InMap(fd) /\ connections[fd] = "open" /\ fd \notin leaked
  BY <1>1 DEF BatchOK, SocketOK, InMap
<1>3. Received(batch[fd]) \subseteq Event
  BY DEF Received
<1>4. ATypeOK'
  BY <1>2, <1>3 DEF AInv, ATypeOK
<1>5. ASSUME NEW g \in Fd PROVE SocketOK(g)' /\ BatchOK(g)'
  <2>1. SocketOK(g) /\ BatchOK(g) /\ batch'[g] = IF g = fd THEN {} ELSE batch[g]
    BY DEF AInv, ATypeOK
  <2>. QED
    BY <2>1 DEF SocketOK, BatchOK
<1>6. CallbackOK'
  <2>1. cur' = fd /\ batch'[fd] = {}
    BY <1>2 DEF AInv, ATypeOK
  <2>2. owes' => sock[fd].in > 0 \/ sock[fd].end # "none"
    BY <1>1, <1>2 DEF Received, BatchOK
  <2>3. "Closed" \in events' => /\ sock[fd].end # "none"
                                /\ sock[fd].end = "fin" => "Closed" \in wanted
    BY <1>1, <1>2 DEF Received, BatchOK
  <2>. QED
    BY <1>2, <2>1, <2>2, <2>3 DEF CallbackOK
<1>. QED
  BY <1>2, <1>4, <1>5, <1>6 DEF AInv

\* The ends of a batch and of run().
LEMMA LoopKeepsInv ==
  ASSUME AInv, Run \/ WaitFails \/ EndOfBatch
  PROVE  AInv'
<1>1. CASE WaitFails
  <2>1. \A g \in Fd : SocketOK(g)'
    BY <1>1 DEF AInv, SocketOK, WaitFails
  <2>. QED
    BY <1>1, <2>1, ThrowsKeepsInv DEF AInv, ATypeOK, WaitFails
<1>2. CASE Run \/ EndOfBatch
  <2>1. ATypeOK' /\ \A fd \in Fd : SocketOK(fd)' /\ BatchOK(fd)'
    BY <1>2 DEF AInv, ATypeOK, SocketOK, BatchOK, Run, EndOfBatch
  <2>. QED
    BY <1>2, <2>1 DEF AInv, Run, EndOfBatch, NoBatch
<1>. QED
  BY <1>1, <1>2
-----------------------------------------------------------------------------
(* The callback *)

\* What holds in a callback whose connection is open.
LEMMA OpenInCallback ==
  ASSUME AInv, pc = "callback", connections[cur] = "open"
  PROVE  /\ CallbackOK /\ cur \in Fd
         /\ SocketOK(cur) /\ sock[cur].open /\ cur \notin leaked
         /\ sock[cur] \in Socket /\ sock \in [Fd -> Socket]
<1>1. CallbackOK /\ cur \in Fd
  BY DEF AInv, CallbackOK
<1>. QED
  BY <1>1 DEF AInv, ATypeOK, SocketOK

\* A callback that changes only its own connection's socket, without closing it,
\* disturbs no event in the array: its own is not there any more.
LEMMA OwnSocketOnly ==
  ASSUME AInv, pc = "callback", connections[cur] = "open",
         UNCHANGED <<wanted, connections, pending, pc, batch, accepting, cur, leaked, serving>>,
         NEW s \in Socket, s.open, sock' = [sock EXCEPT ![cur] = s],
         events' \subseteq Event, owes' \in BOOLEAN,
         CallbackOK'
  PROVE  AInv'
<1>1. CallbackOK /\ cur \in Fd /\ sock[cur].open /\ sock \in [Fd -> Socket]
  BY OpenInCallback
<1>2. ATypeOK'
  BY <1>1 DEF AInv, ATypeOK
<1>3. ASSUME NEW g \in Fd PROVE SocketOK(g)' /\ BatchOK(g)'
  <2>1. SocketOK(g) /\ BatchOK(g) /\ sock'[g] = IF g = cur THEN s ELSE sock[g]
    BY <1>1 DEF AInv
  <2>2. CASE g # cur
    BY <2>1, <2>2 DEF SocketOK, BatchOK
  <2>3. CASE g = cur
    BY <1>1, <2>1, <2>3 DEF SocketOK, BatchOK, CallbackOK
  <2>. QED
    BY <2>2, <2>3
<1>. QED
  BY <1>2, <1>3 DEF AInv

\* Closed is marked by a read that found nothing, and then the peer has ended:
\* with readToBuffer because the callback was told ReadRdy.
LEMMA ReadKeepsInv ==
  ASSUME AInv, NEW buffered \in BOOLEAN, Read(buffered)
  PROVE  AInv'
<1>. USE DEF Read
<1>1. /\ CallbackOK /\ cur \in Fd /\ sock[cur].open
      /\ sock[cur] \in Socket /\ sock \in [Fd -> Socket]
  BY OpenInCallback
<1>2. PICK n \in 0..InMax :
        /\ IF sock[cur].in = 0 THEN n = 0 ELSE n \in 1..sock[cur].in
        /\ sock' = [sock EXCEPT ![cur].in = @ - n]
        /\ events' = events \cup Marks(n, buffered)
  OBVIOUS
<1>. DEFINE s == [sock[cur] EXCEPT !.in = @ - n]
<1>3. /\ s \in Socket /\ s.open /\ s.end = sock[cur].end
      /\ s.in = sock[cur].in - n /\ sock[cur].in \in Nat /\ n \in Nat
      /\ n <= sock[cur].in /\ (n = 0 => sock[cur].in = 0)
  <2>1. sock[cur].in \in 0..InMax /\ n \in Nat
    BY <1>1 DEF Socket
  <2>2. n <= sock[cur].in /\ (n = 0 => sock[cur].in = 0)
    BY <1>2, <2>1
  <2>. QED
    BY <1>1, <2>1, <2>2 DEF Socket
<1>4. sock' = [sock EXCEPT ![cur] = s] /\ sock'[cur] = s
  BY <1>1, <1>2
<1>5. events' \subseteq Event
  BY <1>2 DEF Marks, AInv, ATypeOK, Event
<1>. HIDE DEF s
<1>6. CallbackOK'
  <2>1. CASE "Closed" \in events
    BY <1>1, <1>3, <1>4, <2>1 DEF CallbackOK
  <2>2. CASE "Closed" \notin events /\ "Closed" \in events'
    <3>1. n = 0 /\ (owes \/ sock[cur].end # "none")
      BY <1>2, <2>2 DEF Marks
    <3>2. s.in = 0 /\ s.end # "none"
      BY <1>1, <1>3, <3>1 DEF CallbackOK
    <3>. QED
      BY <1>1, <1>4, <3>2 DEF CallbackOK
  <2>3. CASE "Closed" \notin events'
    BY <1>1, <2>3 DEF CallbackOK
  <2>. QED
    BY <2>1, <2>2, <2>3
<1>. QED
  BY <1>3, <1>4, <1>5, <1>6, OwnSocketOnly

\* A write takes room in the send buffer only.
LEMMA WriteKeepsInv ==
  ASSUME AInv, Write
  PROVE  AInv'
<1>. USE DEF Write
<1>1. /\ CallbackOK /\ cur \in Fd /\ sock[cur].open
      /\ sock[cur] \in Socket /\ sock \in [Fd -> Socket]
  BY OpenInCallback
<1>2. PICK n \in 1..sock[cur].room : sock' = [sock EXCEPT ![cur].room = @ - n]
  OBVIOUS
<1>. DEFINE s == [sock[cur] EXCEPT !.room = @ - n]
<1>3. s \in Socket /\ s.open /\ s.end = sock[cur].end /\ s.in = sock[cur].in
  BY <1>1, <1>2 DEF Socket
<1>4. sock' = [sock EXCEPT ![cur] = s] /\ sock'[cur] = s
  BY <1>1, <1>2
<1>. HIDE DEF s
<1>5. CallbackOK'
  BY <1>1, <1>3, <1>4 DEF CallbackOK
<1>6. events' \subseteq Event /\ owes' \in BOOLEAN
  BY DEF AInv, ATypeOK
<1>. QED
  BY <1>3, <1>4, <1>5, <1>6, OwnSocketOnly

\* A reset that the callback is told of stays an end.
LEMMA ConnectionResetKeepsInv ==
  ASSUME AInv, ConnectionReset
  PROVE  AInv'
<1>. USE DEF ConnectionReset
<1>1. /\ CallbackOK /\ cur \in Fd /\ sock[cur].open /\ SocketOK(cur)
      /\ sock[cur] \in Socket /\ sock \in [Fd -> Socket]
  BY OpenInCallback
<1>. DEFINE s == [sock[cur] EXCEPT !.end = "dead"]
<1>2. s \in Socket /\ s.open /\ s.end = "dead"
  BY <1>1 DEF Socket
<1>3. sock' = [sock EXCEPT ![cur] = s] /\ sock'[cur] = s
  BY <1>1
<1>. HIDE DEF s
<1>4. CASE Throws
  <2>1. ASSUME NEW g \in Fd PROVE SocketOK(g)'
    <3>1. SocketOK(g) /\ sock'[g] = IF g = cur THEN s ELSE sock[g]
      BY <1>1, <1>3 DEF AInv
    <3>. QED
      BY <1>1, <1>2, <3>1 DEF SocketOK
  <2>2. sock' \in [Fd -> Socket]
    BY <1>1, <1>2, <1>3
  <2>. QED
    BY <1>4, <2>1, <2>2, ThrowsKeepsInv DEF AInv, ATypeOK
<1>5. CASE owes' = FALSE /\ UNCHANGED <<pc, batch, accepting, cur, events>>
  <2>1. CallbackOK'
    BY <1>1, <1>2, <1>3, <1>5 DEF CallbackOK
  <2>2. events' \subseteq Event
    BY <1>5 DEF AInv, ATypeOK
  <2>. QED
    BY <1>2, <1>3, <1>5, <2>1, <2>2, OwnSocketOnly
<1>. QED
  BY <1>4, <1>5

\* close() leaves a closed entry, which handleClient erases after the callback.
LEMMA CloseConnectionKeepsInv ==
  ASSUME AInv, CloseConnection
  PROVE  AInv'
<1>. USE DEF CloseConnection
<1>1. CallbackOK /\ cur \in Fd /\ cur \notin leaked /\ sock \in [Fd -> Socket]
  BY OpenInCallback
<1>2. NoSocket \in Socket /\ ~NoSocket.open
  BY DEF NoSocket, Socket
<1>3. ATypeOK'
  BY <1>1, <1>2 DEF AInv, ATypeOK, Event
<1>4. ASSUME NEW g \in Fd PROVE SocketOK(g)' /\ BatchOK(g)'
  <2>1. /\ SocketOK(g) /\ BatchOK(g)
        /\ sock'[g] = IF g = cur THEN NoSocket ELSE sock[g]
        /\ connections'[g] = IF g = cur THEN "closed" ELSE connections[g]
    BY <1>1 DEF AInv, ATypeOK
  <2>2. CASE g # cur
    BY <2>1, <2>2 DEF SocketOK, BatchOK
  <2>3. CASE g = cur
    BY <1>1, <1>2, <2>1, <2>3 DEF SocketOK, BatchOK, CallbackOK
  <2>. QED
    BY <2>2, <2>3
<1>5. CallbackOK'
  <2>1. connections'[cur] = "closed"
    BY <1>1 DEF AInv, ATypeOK
  <2>. QED
    BY <1>1, <2>1 DEF CallbackOK
<1>. QED
  BY <1>3, <1>4, <1>5 DEF AInv

\* The destructors of entries close their sockets and no others.
LEMMA EraseOwns ==
  ASSUME AInv, NEW S, Erase(S), leaked' = leaked
  PROVE  /\ connections' \in [Fd -> {"none", "open", "closed"}]
         /\ sock' \in [Fd -> Socket]
         /\ \A fd \in Fd : SocketOK(fd)'
<1>. USE DEF Erase
<1>1. NoSocket \in Socket /\ ~NoSocket.open
  BY DEF NoSocket, Socket
<1>2. /\ connections' \in [Fd -> {"none", "open", "closed"}]
      /\ sock' \in [Fd -> Socket]
  BY <1>1 DEF AInv, ATypeOK
<1>3. ASSUME NEW fd \in Fd PROVE SocketOK(fd)'
  <2>1. /\ SocketOK(fd)
        /\ connections'[fd] = IF fd \in S THEN "none" ELSE connections[fd]
        /\ sock'[fd] = IF fd \in S /\ connections[fd] = "open" THEN NoSocket ELSE sock[fd]
    BY DEF AInv
  <2>. QED
    BY <1>1, <2>1 DEF SocketOK
<1>. QED
  BY <1>2, <1>3

\* Only the entry of this callback is erased, and it has no event left.
LEMMA CallbackReturnsKeepsInv ==
  ASSUME AInv, CallbackReturns
  PROVE  AInv'
<1>. USE DEF CallbackReturns
<1>. DEFINE S == {fd \in {cur} : "Closed" \in events}
<1>1. Erase(S) /\ S \subseteq {cur}
  BY DEF EraseClosed
<1>. HIDE DEF S
<1>2. /\ connections' \in [Fd -> {"none", "open", "closed"}]
      /\ sock' \in [Fd -> Socket]
      /\ \A fd \in Fd : SocketOK(fd)'
  BY <1>1, EraseOwns
<1>3. ATypeOK'
  BY <1>2 DEF AInv, ATypeOK
<1>4. ASSUME NEW fd \in Fd PROVE BatchOK(fd)'
  <2>1. BatchOK(fd) /\ CallbackOK
    BY DEF AInv
  <2>2. CASE fd = cur
    BY <2>1, <2>2 DEF BatchOK, CallbackOK
  <2>3. CASE fd # cur
    <3>1. connections'[fd] = connections[fd] /\ sock'[fd] = sock[fd]
      BY <1>1, <2>3 DEF Erase
    <3>. QED
      BY <2>1, <3>1 DEF BatchOK
  <2>. QED
    BY <2>2, <2>3
<1>. QED
  BY <1>2, <1>3, <1>4 DEF AInv

\* The destructor closes what the entries own.
LEMMA DestroyKeepsInv ==
  ASSUME AInv, Destroy
  PROVE  AInv'
<1>. USE DEF Destroy
<1>. DEFINE S == {fd \in Fd : InMap(fd)}
<1>1. Erase(S)
  OBVIOUS
<1>. HIDE DEF S
<1>2. /\ connections' \in [Fd -> {"none", "open", "closed"}]
      /\ sock' \in [Fd -> Socket]
      /\ \A fd \in Fd : SocketOK(fd)'
  BY <1>1, EraseOwns
<1>3. /\ pending' \in [there : 0..Backlog, gone : 0..Backlog]
      /\ pending'.there + pending'.gone <= Backlog
  BY DEF CloseServer
<1>4. ATypeOK'
  BY <1>2, <1>3 DEF AInv, ATypeOK, CloseServer
<1>5. \A fd \in Fd : BatchOK(fd)'
  BY DEF AInv, NoBatch, BatchOK
<1>. QED
  BY <1>2, <1>3, <1>4, <1>5 DEF AInv, NoBatch

\* With the process everything is closed.
LEMMA BrokenPipeKeepsInv ==
  ASSUME AInv, BrokenPipe
  PROVE  AInv'
<1>. USE DEF BrokenPipe
<1>1. NoSocket \in Socket /\ ~NoSocket.open
  BY DEF NoSocket, Socket
<1>2. /\ pending' \in [there : 0..Backlog, gone : 0..Backlog]
      /\ pending'.there + pending'.gone <= Backlog
  BY DEF CloseServer
<1>3. ATypeOK'
  BY <1>1, <1>2 DEF AInv, ATypeOK, CloseServer
<1>4. \A fd \in Fd : SocketOK(fd)'
  BY <1>1 DEF SocketOK
<1>. QED
  BY <1>2, <1>3, <1>4 DEF AInv

\* close() of the server keeps the connections.
LEMMA CloseKeepsInv ==
  ASSUME AInv, Close
  PROVE  AInv'
<1>. USE DEF Close
<1>1. /\ pending' \in [there : 0..Backlog, gone : 0..Backlog]
      /\ pending'.there + pending'.gone <= Backlog
  BY DEF CloseServer
<1>2. ATypeOK' /\ \A fd \in Fd : SocketOK(fd)' /\ (BatchOK(fd) => BatchOK(fd)')
  BY <1>1 DEF AInv, ATypeOK, SocketOK, BatchOK, CloseServer
<1>3. CallbackOK => CallbackOK'
  BY DEF CallbackOK
<1>. QED
  BY <1>1, <1>2, <1>3 DEF AInv, NoBatch

\* An exception of the callback leaves its entry, closed or not.
LEMMA CallbackThrowsKeepsInv ==
  ASSUME AInv, CallbackThrows
  PROVE  AInv'
<1>1. \A g \in Fd : SocketOK(g)'
  BY DEF AInv, SocketOK, CallbackThrows
<1>. QED
  BY <1>1, ThrowsKeepsInv DEF AInv, ATypeOK, CallbackThrows

-----------------------------------------------------------------------------
(* The theorems *)

\* The steps of the thread in run().
LEMMA ServerStepKeepsInv ==
  ASSUME AInv, ServerStep
  PROVE  AInv'
<1>1. CASE EpollWait \/ WaitFails \/ EndOfBatch \/ Accept \/ CallbackReturns
  BY <1>1, EpollWaitKeepsInv, LoopKeepsInv, AcceptKeepsInv, CallbackReturnsKeepsInv
<1>2. ASSUME NEW fd \in Fd, HandleClient(fd) PROVE AInv'
  BY <1>2, HandleClientKeepsInv
<1>3. CASE ConnectionReset
  BY <1>3, ConnectionResetKeepsInv
<1>4. ASSUME NEW buffered \in BOOLEAN, Read(buffered) PROVE AInv'
  BY <1>4, ReadKeepsInv
<1>. QED
  BY <1>1, <1>2, <1>3, <1>4 DEF ServerStep

\* Every step keeps the invariant.
LEMMA AsyncInductive == AInv /\ [Next]_vars => AInv'
<1>. SUFFICES ASSUME AInv, [Next]_vars PROVE AInv'
  OBVIOUS
<1>1. CASE Run
  BY <1>1, LoopKeepsInv
<1>2. CASE ServerStep
  BY <1>2, ServerStepKeepsInv
<1>3. CASE Connect \/ GiveUp
  BY <1>3, BacklogKeepsInv
<1>4. CASE Close \/ Destroy
  BY <1>4, CloseKeepsInv, DestroyKeepsInv
<1>5. ASSUME NEW fd \in Fd, Peer(fd) PROVE AInv'
  BY <1>5, PeerKeepsInv
<1>6. CASE ConnectionReset \/ Read(FALSE)
  BY <1>6, ConnectionResetKeepsInv, ReadKeepsInv
<1>7. CASE Write \/ BrokenPipe \/ CloseConnection \/ CallbackThrows
  BY <1>7, WriteKeepsInv, BrokenPipeKeepsInv, CloseConnectionKeepsInv, CallbackThrowsKeepsInv
<1>8. CASE UNCHANGED vars
  BY <1>8 DEF vars, AInv, ATypeOK, SocketOK, BatchOK, CallbackOK, NoBatch
<1>. QED
  BY <1>1, <1>2, <1>3, <1>4, <1>5, <1>6, <1>7, <1>8 DEF Next

\* The invariant holds always.
LEMMA AsyncAlways == Spec => []AInv
<1>. QED
  BY AsyncInitially, AsyncInductive, PTL DEF Spec

\* connections_.find(socket) in handleClient always finds an entry, unless the
\* callback close()d the server during the same batch.
THEOREM AsyncEventsFindConnections == Spec => []EventsFindConnections
<1>1. AInv => EventsFindConnections
  BY DEF AInv, EventsFindConnections
<1>. QED
  BY AsyncAlways, <1>1, PTL

\* Sockets and open entries of connections_ correspond, exceptions, reuse of
\* numbers and destruction included.
THEOREM AsyncOwnersExact == Spec => [](ATypeOK /\ OwnersExact)
<1>1. AInv => ATypeOK /\ OwnersExact
  BY DEF AInv, SocketOK, OwnersExact
<1>. QED
  BY AsyncAlways, <1>1, PTL

\* hasEvent(Closed) of an open connection means that its peer has ended.
THEOREM AsyncClosedIsReal == Spec => []ClosedIsReal
<1>1. ASSUME AInv PROVE ClosedIsReal
  <2>. SUFFICES ASSUME pc = "callback", connections[cur] = "open", "Closed" \in events
                PROVE  Ended(cur)
    BY DEF ClosedIsReal
  <2>1. CallbackOK /\ sock[cur].open
    BY <1>1, OpenInCallback
  <2>. QED
    BY <2>1 DEF CallbackOK, Ended
<1>. QED
  BY AsyncAlways, <1>1, PTL

\* handleClient erases an orderly closed connection of a user who did not ask
\* for Closed only when its input has been read.
THEOREM AsyncNoInputLost == Spec => NoInputLost
<1>1. ASSUME AInv, [Next]_vars PROVE [InputKept]_vars
  <2>. SUFFICES ASSUME NEW fd \in Fd, "Closed" \notin wanted, InMap(fd),
                       connections'[fd] = "none", sock[fd].end = "fin", pc' = "events"
                PROVE  sock[fd].in = 0
    BY DEF InputKept
  <2>1. connections[fd] # "none" /\ sock[fd].open
    BY <1>1 DEF InMap, AInv, SocketOK, NoSocket
  <2>2. CallbackReturns
    <3>1. connections'[fd] # connections[fd] /\ ~UNCHANGED connections
      BY <2>1
    <3>2. ASSUME NEW g \in Fd PROVE ~AcceptClient(g)
      <4>. SUFFICES ASSUME AcceptClient(g) PROVE FALSE
        OBVIOUS
      <4>1. connections' = [connections EXCEPT ![g] = "open"]
        BY <3>1 DEF AcceptClient, Emplace
      <4>. QED
        BY <1>1, <2>1, <4>1 DEF AInv, ATypeOK
    <3>3. CASE ServerStep
      BY <3>1, <3>2, <3>3 DEF ServerStep, EpollWait, WaitFails, EndOfBatch, HandleClient,
         ConnectionReset, Read, Accept, AcceptFails, AcceptClosed, AcceptGone, AddEpollFails
    <3>4. ASSUME NEW g \in Fd, Peer(g) PROVE FALSE
      BY <3>1, <3>4 DEF Peer, PeerSends, PeerReads, PeerCloses, PeerResets, PeerDoes
    <3>5. ~(Destroy \/ BrokenPipe)
      BY DEF Destroy, BrokenPipe
    <3>6. ~(Run \/ Connect \/ GiveUp \/ Close \/ ConnectionReset \/ Read(FALSE)
            \/ Write \/ CallbackThrows \/ UNCHANGED vars)
      BY <3>1 DEF Run, Connect, GiveUp, Close, ConnectionReset, Read, Write, CallbackThrows, vars
    <3>7. ~CloseConnection
      BY DEF CloseConnection
    <3>. QED
      BY <1>1, <3>3, <3>4, <3>5, <3>6, <3>7 DEF Next
  <2>3. fd = cur /\ "Closed" \in events
    BY <2>1, <2>2 DEF CallbackReturns, EraseClosed, Erase
  <2>4. CallbackOK /\ SocketOK(cur) /\ connections[cur] \in {"none", "open", "closed"}
    BY <1>1, <2>2, <2>3 DEF AInv, ATypeOK, CallbackReturns
  <2>. QED
    BY <2>1, <2>3, <2>4 DEF CallbackOK, SocketOK
<1>. QED
  BY AsyncAlways, <1>1, PTL DEF Spec, NoInputLost
=============================================================================
