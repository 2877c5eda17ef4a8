---------------------------- MODULE AsyncServer -----------------------------
(***************************************************************************)
(* tcp::AsyncServer and its AsyncConnections: a level-triggered epoll loop *)
(* that hands connections to the user's callback.                          *)
(*                                                                         *)
(* The callback may read, write, close and throw.  As in example/async it  *)
(* answers ReadRdy with a read, and uses readToBuffer for that one only    *)
(* (on an empty socket readToBuffer marks the connection closed); its      *)
(* lengths are not zero.  run() may be called again after an exception.    *)
(***************************************************************************)
EXTENDS Naturals, FiniteSets

CONSTANTS
  Wanted,   \* sets of events that users ask for
  Fd,       \* descriptor numbers of connections; they are reused
  NoFd,     \* no connection is being handled
  InMax,    \* room in a socket's receive buffer
  OutMax,   \* room in its send buffer
  Backlog   \* connections that wait for accept

ASSUME AsyncAssumption ==
  /\ \A e \in Wanted : e \subseteq {"WriteRdy", "ReadRdy", "Closed"}
  /\ NoFd \notin Fd
  /\ InMax \in Nat /\ OutMax \in Nat /\ Backlog \in Nat

VARIABLES
  wanted,       \* events_: what the user asked for
  connections,  \* connections_: no entry, an open or a closed AsyncConnection
  sock,         \* the kernel's sockets
  pending,      \* connections to accept: how many peers are there, how many gone
  pc,           \* where run() is
  batch,        \* the array filled by epoll_wait, as far as it is not handled
  accepting,    \* it has an event of the listening socket
  cur,          \* the connection that the callback has
  events,       \* its events_, which handleClient sets before every callback
  owes,         \* the callback has not read since it was told ReadRdy
  leaked,       \* accepted descriptors that nobody owns
  serving       \* close() has not been called

vars == <<wanted, connections, sock, pending, pc, batch, accepting, cur, events, owes, leaked, serving>>

-----------------------------------------------------------------------------
Event == {"WriteRdy", "ReadRdy", "Closed"}
Bit == {"EPOLLIN", "EPOLLOUT", "EPOLLRDHUP", "EPOLLHUP", "EPOLLERR"}

InMap(fd) == connections[fd] # "none"

\* How a peer ended: it closed (fin), it reset the connection and nobody has
\* been told (reset), or somebody has (dead).
Socket == [open : BOOLEAN, in : 0..InMax, room : 0..OutMax,
           end : {"none", "fin", "reset", "dead"}]
NoSocket == [open |-> FALSE, in |-> 0, room |-> 0, end |-> "none"]
NewSocket == [open |-> TRUE, in |-> 0, room |-> OutMax, end |-> "none"]

ATypeOK ==
  /\ wanted \subseteq Event
  /\ connections \in [Fd -> {"none", "open", "closed"}]
  /\ sock \in [Fd -> Socket]
  /\ pending \in [there : 0..Backlog, gone : 0..Backlog]
  /\ pc \in {"stopped", "wait", "events", "callback", "destroyed", "killed", "undefined"}
  /\ batch \in [Fd -> SUBSET Bit]
  /\ accepting \in BOOLEAN
  /\ cur \in Fd \cup {NoFd}
  /\ events \subseteq Event
  /\ owes \in BOOLEAN
  /\ leaked \subseteq Fd
  /\ serving \in BOOLEAN

NoBatch == [fd \in Fd |-> {}]

Init ==
  /\ wanted \in Wanted
  /\ connections = [fd \in Fd |-> "none"]
  /\ sock = [fd \in Fd |-> NoSocket]
  /\ pending = [there |-> 0, gone |-> 0]
  /\ pc = "stopped"
  /\ batch = NoBatch
  /\ accepting = FALSE
  /\ cur = NoFd /\ events = {}
  /\ owes = FALSE
  /\ leaked = {}
  /\ serving = TRUE

-----------------------------------------------------------------------------
(* The kernel and the peers *)

Connect ==
  /\ pending.there + pending.gone < Backlog /\ serving
  /\ pending' = [pending EXCEPT !.there = @ + 1]
  /\ UNCHANGED <<wanted, connections, sock, pc, batch, accepting, cur, events, owes, leaked, serving>>

\* A peer resets its connection before it is accepted.
GiveUp ==
  /\ pending.there > 0
  /\ pending' = [there |-> pending.there - 1, gone |-> pending.gone + 1]
  /\ UNCHANGED <<wanted, connections, sock, pc, batch, accepting, cur, events, owes, leaked, serving>>

PeerDoes(fd, s) ==
  /\ sock[fd].open
  /\ sock' = [sock EXCEPT ![fd] = s]
  /\ UNCHANGED <<wanted, connections, pending, pc, batch, accepting, cur, events, owes, leaked, serving>>

PeerSends(fd) ==
  /\ sock[fd].end = "none" /\ sock[fd].in < InMax
  /\ PeerDoes(fd, [sock[fd] EXCEPT !.in = @ + 1])
PeerReads(fd) ==
  /\ sock[fd].end \in {"none", "fin"} /\ sock[fd].room < OutMax
  /\ PeerDoes(fd, [sock[fd] EXCEPT !.room = @ + 1])
PeerCloses(fd) ==
  /\ sock[fd].end = "none"
  /\ PeerDoes(fd, [sock[fd] EXCEPT !.end = "fin"])
\* Linux keeps what was received before the reset.
PeerResets(fd) ==
  /\ sock[fd].end \in {"none", "fin"}
  /\ PeerDoes(fd, [sock[fd] EXCEPT !.end = "reset"])

Ended(fd) == sock[fd].open /\ sock[fd].end # "none"

\* Faulty variant: the hang-up is asked for always.
RequestedHup ==
  {"EPOLLRDHUP"} \cup {b \in Bit :
     \/ b = "EPOLLIN" /\ "ReadRdy" \in wanted
     \/ b = "EPOLLOUT" /\ "WriteRdy" \in wanted}

\* Faulty variant: the two directions are mixed up.
RequestedMixed ==
  {b \in Bit :
     \/ b = "EPOLLOUT" /\ "ReadRdy" \in wanted
     \/ b = "EPOLLIN" /\ "WriteRdy" \in wanted
     \/ b = "EPOLLRDHUP" /\ "Closed" \in wanted}

\* The events that addEpoll registers.
Requested ==
  {b \in Bit :
     \/ b = "EPOLLIN" /\ "ReadRdy" \in wanted
     \/ b = "EPOLLOUT" /\ "WriteRdy" \in wanted
     \/ b = "EPOLLRDHUP" /\ "Closed" \in wanted}

\* What epoll_wait says of fd: a hang-up and an error without being asked.
Report(fd) ==
  {b \in Bit :
     /\ sock[fd].open /\ fd \notin leaked
     /\ b \in Requested \cup {"EPOLLHUP", "EPOLLERR"}
     /\ \/ b = "EPOLLIN" /\ (sock[fd].in > 0 \/ Ended(fd))
        \/ b = "EPOLLOUT" /\ (sock[fd].room > 0 \/ sock[fd].end \in {"reset", "dead"})
        \/ b = "EPOLLRDHUP" /\ Ended(fd)
        \/ b = "EPOLLHUP" /\ sock[fd].end \in {"reset", "dead"}
        \/ b = "EPOLLERR" /\ sock[fd].end = "reset"}

-----------------------------------------------------------------------------
(* run() *)

Running == pc \in {"wait", "events", "callback"}

\* An exception leaves run(); the array is gone with it.
Throws ==
  /\ pc' = "stopped"
  /\ batch' = NoBatch /\ accepting' = FALSE
  /\ cur' = NoFd /\ events' = {} /\ owes' = FALSE

Run ==
  /\ pc = "stopped"
  /\ pc' = "wait"
  /\ UNCHANGED <<wanted, connections, sock, pending, batch, accepting, cur, events, owes, leaked, serving>>

Waiting == pending.there + pending.gone > 0

\* epoll_wait; its array is larger than the set of descriptors.
EpollWait ==
  /\ pc = "wait" /\ serving
  /\ Waiting \/ \E fd \in Fd : Report(fd) # {}
  /\ pc' = "events"
  /\ batch' = [fd \in Fd |-> Report(fd)]
  /\ accepting' = Waiting
  /\ UNCHANGED <<wanted, connections, sock, pending, cur, events, owes, leaked, serving>>

\* The descriptor of the epoll is closed.
WaitFails ==
  /\ pc = "wait" /\ ~serving
  /\ Throws
  /\ UNCHANGED <<wanted, connections, sock, pending, leaked, serving>>

EndOfBatch ==
  /\ pc = "events" /\ batch = NoBatch /\ ~accepting
  /\ pc' = "wait"
  /\ UNCHANGED <<wanted, connections, sock, pending, batch, accepting, cur, events, owes, leaked, serving>>

\* addEpoll: the entry is not made if there is one under this number already,
\* and then the new AsyncConnection is destroyed at once.
Emplace(fd) ==
  \/ /\ ~InMap(fd)
     /\ connections' = [connections EXCEPT ![fd] = "open"]
     /\ sock' = [sock EXCEPT ![fd] = NewSocket]
  \/ InMap(fd) /\ UNCHANGED <<connections, sock>>

AcceptClient(fd) ==
  /\ pc = "events" /\ accepting /\ serving
  /\ ~sock[fd].open
  /\ pending.there > 0
  /\ pending' = [pending EXCEPT !.there = @ - 1]
  /\ accepting' = FALSE
  /\ Emplace(fd)
  /\ UNCHANGED <<wanted, pc, batch, cur, events, owes, leaked, serving>>

\* Faulty variant: the descriptor is not closed when the constructor throws.
AcceptLeaks(fd) ==
  /\ pc = "events" /\ accepting /\ serving
  /\ ~sock[fd].open
  /\ pending.gone > 0
  /\ pending' = [pending EXCEPT !.gone = @ - 1]
  /\ sock' = [sock EXCEPT ![fd] = NewSocket]
  /\ Throws
  /\ UNCHANGED <<wanted, connections, leaked, serving>>

\* The peer is not there any more: getpeername fails, the constructor of the
\* AsyncConnection closes the descriptor and throws.
AcceptGone(fd) ==
  /\ pc = "events" /\ accepting /\ serving
  /\ ~sock[fd].open
  /\ pending.gone > 0
  /\ pending' = [pending EXCEPT !.gone = @ - 1]
  /\ Throws
  /\ UNCHANGED <<wanted, connections, sock, leaked, serving>>

\* epoll_ctl fails: nobody closes the descriptor.
AddEpollFails(fd) ==
  /\ pc = "events" /\ accepting /\ serving
  /\ ~sock[fd].open
  /\ pending.there > 0
  /\ pending' = [pending EXCEPT !.there = @ - 1]
  /\ sock' = [sock EXCEPT ![fd] = NewSocket]
  /\ leaked' = leaked \cup {fd}
  /\ Throws
  /\ UNCHANGED <<wanted, connections, serving>>

\* accept4 fails for want of descriptors.
AcceptFails ==
  /\ pc = "events" /\ accepting /\ serving
  /\ \A fd \in Fd : sock[fd].open
  /\ Throws
  /\ UNCHANGED <<wanted, connections, sock, pending, leaked, serving>>

\* An event of the listening socket after close(): it is taken for a client's.
AcceptClosed ==
  /\ pc = "events" /\ accepting /\ ~serving
  /\ pc' = "undefined"
  /\ UNCHANGED <<wanted, connections, sock, pending, batch, accepting, cur, events, owes, leaked, serving>>

\* handleClient: the bits as events of the library.
Received(bits) ==
  {e \in Event :
     \/ e = "Closed" /\ bits \cap {"EPOLLHUP", "EPOLLERR", "EPOLLRDHUP"} # {}
     \/ e = "ReadRdy" /\ "EPOLLIN" \in bits
     \/ e = "WriteRdy" /\ "EPOLLOUT" \in bits}

\* connections_.find(socket)->second, and the call of the callback.
HandleClient(fd) ==
  /\ pc = "events" /\ batch[fd] # {}
  /\ batch' = [batch EXCEPT ![fd] = {}]
  /\ IF InMap(fd)
     THEN /\ pc' = "callback" /\ cur' = fd
          /\ events' = Received(batch[fd])
          /\ owes' = ("ReadRdy" \in Received(batch[fd]))
     ELSE pc' = "undefined" /\ UNCHANGED <<cur, events, owes>>
  /\ UNCHANGED <<wanted, connections, sock, pending, accepting, leaked, serving>>

-----------------------------------------------------------------------------
(* What the callback does with its connection *)

\* Faulty variant: an empty socket is taken for a closed one.
MarksAny(n, buffered) == IF n = 0 THEN {"Closed"} ELSE {}

\* read() tells EAGAIN from the end of the input; readToBuffer() does not.
Marks(n, buffered) ==
  IF n = 0 /\ (buffered \/ sock[cur].end # "none") THEN {"Closed"} ELSE {}

Read(buffered) ==
  /\ pc = "callback" /\ connections[cur] = "open"
  /\ sock[cur].in > 0 \/ sock[cur].end # "reset"
  /\ buffered => owes
  /\ \E n \in 0..InMax :
       /\ IF sock[cur].in = 0 THEN n = 0 ELSE n \in 1..sock[cur].in
       /\ sock' = [sock EXCEPT ![cur].in = @ - n]
       /\ events' = events \cup Marks(n, buffered)
  /\ owes' = FALSE
  /\ UNCHANGED <<wanted, connections, pending, pc, batch, accepting, cur, leaked, serving>>

\* With no room (EAGAIN) nothing happens.
Write ==
  /\ pc = "callback" /\ connections[cur] = "open"
  /\ sock[cur].end \in {"none", "fin"}
  /\ \E n \in 1..sock[cur].room : sock' = [sock EXCEPT ![cur].room = @ - n]
  /\ UNCHANGED <<wanted, connections, pending, pc, batch, accepting, cur, events, owes, leaked, serving>>

\* close() and the connections that nobody accepted.
CloseServer == serving' = FALSE /\ pending' = [there |-> 0, gone |-> 0]

\* A write after a reset raises SIGPIPE, at the latest the second one.
BrokenPipe ==
  /\ pc = "callback" /\ connections[cur] = "open"
  /\ sock[cur].end \in {"reset", "dead"}
  /\ pc' = "killed"
  /\ sock' = [fd \in Fd |-> NoSocket]
  /\ connections' = [fd \in Fd |-> "none"]
  /\ leaked' = {}
  /\ CloseServer
  /\ UNCHANGED <<wanted, batch, accepting, cur, events, owes>>

\* ECONNRESET: read and write throw, and the callback may or may not catch it.
ConnectionReset ==
  /\ pc = "callback" /\ connections[cur] = "open"
  /\ sock[cur].end = "reset"
  /\ sock' = [sock EXCEPT ![cur].end = "dead"]
  /\ \/ Throws
     \/ owes' = FALSE /\ UNCHANGED <<pc, batch, accepting, cur, events>>
  /\ UNCHANGED <<wanted, connections, pending, leaked, serving>>

CloseConnection ==
  /\ pc = "callback" /\ connections[cur] = "open"
  /\ sock' = [sock EXCEPT ![cur] = NoSocket]
  /\ connections' = [connections EXCEPT ![cur] = "closed"]
  /\ events' = events \cup {"Closed"}
  /\ owes' = FALSE
  /\ UNCHANGED <<wanted, pending, pc, batch, accepting, cur, leaked, serving>>

CallbackThrows ==
  /\ pc = "callback"
  /\ Throws
  /\ UNCHANGED <<wanted, connections, sock, pending, leaked, serving>>

Erase(S) ==
  /\ connections' = [fd \in Fd |-> IF fd \in S THEN "none" ELSE connections[fd]]
  /\ sock' = [fd \in Fd |-> IF fd \in S /\ connections[fd] = "open" THEN NoSocket ELSE sock[fd]]

\* Faulty variant: with it every connection that was reset is erased.
EraseBroken ==
  Erase({fd \in Fd : InMap(fd) /\ (\/ fd = cur /\ "Closed" \in events
                                   \/ sock[fd].end \in {"reset", "dead"})})

\* Faulty variant: what the callback found out is not looked at.
EraseReported ==
  Erase({fd \in {cur} : "Closed" \in events \cap wanted})

\* The tail of handleClient; the destructor closes the descriptor.
EraseClosed == Erase({fd \in {cur} : "Closed" \in events})

CallbackReturns ==
  /\ pc = "callback" /\ ~owes
  /\ EraseClosed
  /\ pc' = "events" /\ cur' = NoFd /\ events' = {}
  /\ UNCHANGED <<wanted, pending, batch, accepting, owes, leaked, serving>>

Close ==
  /\ pc \in {"stopped", "callback"} /\ serving
  /\ CloseServer
  /\ UNCHANGED <<wanted, connections, sock, pc, batch, accepting, cur, events, owes, leaked>>

\* The destructor, and those of the connections.
Destroy ==
  /\ pc = "stopped"
  /\ CloseServer
  /\ Erase({fd \in Fd : InMap(fd)})
  /\ pc' = "destroyed"
  /\ UNCHANGED <<wanted, batch, accepting, cur, events, owes, leaked>>

-----------------------------------------------------------------------------
(* The specification *)

Accept ==
  \/ AcceptFails \/ AcceptClosed
  \/ \E fd \in Fd : AcceptClient(fd) \/ AcceptGone(fd) \/ AddEpollFails(fd)

\* What the thread of run() does unless an exception stops it: the loop, the
\* read that the callback owes, and the way out of the callback.
ServerStep ==
  \/ EpollWait \/ WaitFails \/ EndOfBatch \/ Accept \/ CallbackReturns
  \/ \E fd \in Fd : HandleClient(fd)
  \/ owes /\ (ConnectionReset \/ \E buffered \in BOOLEAN : Read(buffered))

Peer(fd) == PeerSends(fd) \/ PeerReads(fd) \/ PeerCloses(fd) \/ PeerResets(fd)

Next ==
  \/ Run \/ ServerStep \/ Connect \/ GiveUp \/ Close \/ Destroy
  \/ \E fd \in Fd : Peer(fd)
  \/ ~owes /\ (ConnectionReset \/ Read(FALSE))
  \/ Write \/ BrokenPipe \/ CloseConnection \/ CallbackThrows

Spec == Init /\ [][Next]_vars
FairSpec == Spec /\ WF_vars(ServerStep)

-----------------------------------------------------------------------------
(* Properties *)

\* handleClient never dereferences find() of a number that is not in
\* connections_, whatever was closed, reused or erased before, as long as the
\* callback does not close() the server while its own event is in the batch.
EventsFindConnections == pc = "undefined" => accepting /\ ~serving

\* A socket is open exactly when an open AsyncConnection of the map owns it:
\* no client is left behind by an exception and none is closed under its entry.
\* The one way to lose a descriptor is a failure of epoll_ctl in addEpoll.
OwnersExact ==
  \A fd \in Fd : (sock[fd].open /\ fd \notin leaked) <=> connections[fd] = "open"

\* hasEvent(Closed) is never true of an open connection whose peer is there
\* and has not ended: handleClient does not close on a live peer.
ClosedIsReal ==
  pc = "callback" /\ connections[cur] = "open" /\ "Closed" \in events => Ended(cur)

\* If the user did not ask for Closed, handleClient does not erase a connection
\* that its peer closed in an orderly way before all its input has been read.
InputKept ==
  \A fd \in Fd :
    ("Closed" \notin wanted /\ InMap(fd) /\ connections'[fd] = "none"
     /\ sock[fd].end = "fin" /\ pc' = "events") => sock[fd].in = 0
NoInputLost == [][InputKept]_vars

\* While run() goes on, a connection whose peer has ended is erased in the end,
\* provided the user asked for ReadRdy or Closed or the peer reset it.
GoneIsErased ==
  \A fd \in Fd :
    (/\ Ended(fd) /\ fd \notin leaked
     /\ wanted \cap {"ReadRdy", "Closed"} # {} \/ sock[fd].end # "fin")
    ~> (~Ended(fd) \/ ~Running)

\* While run() goes on, a peer that filled the receive buffer is not blocked
\* for ever, provided the user asked for ReadRdy.
PeerUnblocked ==
  \A fd \in Fd :
    (sock[fd].open /\ fd \notin leaked /\ sock[fd].in = InMax /\ "ReadRdy" \in wanted)
    ~> (sock[fd].in < InMax \/ ~Running)
=============================================================================
