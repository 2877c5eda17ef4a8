------------------------------ MODULE Sockets ------------------------------
(***************************************************************************)
(* The kernel as src/http uses it (external): the connected non-blocking   *)
(* TCP sockets of one worker, and the one-shot edge-triggered epoll set    *)
(* they are registered with.  A byte stream is a sequence of units of data *)
(* and `room` is the number of units the send buffer can still take.       *)
(*                                                                         *)
(* With EPOLLET | EPOLLONESHOT a descriptor is reported at most once per   *)
(* arming, and EPOLL_CTL_MOD polls it again: an armed descriptor is        *)
(* reported exactly when it is ready, and reporting it disarms it.         *)
(* EPOLLERR and EPOLLHUP are reported whatever was asked for.              *)
(***************************************************************************)
EXTENDS Naturals, Sequences

CONSTANTS
  Fd,      \* descriptor numbers; close() frees one and accept4() reuses it
  Unit,    \* units of data a peer may send
  RcvMax,  \* bound on the receive buffer
  SndMax   \* capacity of the send buffer

ASSUME SndMaxAssumption == SndMax \in Nat \ {0}
ASSUME RcvMaxAssumption == RcvMax \in Nat \ {0}

VARIABLES
  rcv,   \* per descriptor, what arrived and was not read
  peer,  \* per descriptor, what the other end did
  room,  \* per descriptor, free space of the send buffer
  epoll  \* per descriptor, "none" when it is not open, else how it is armed

sockvars == <<rcv, peer, room, epoll>>

Armed == {"none", "off", "in", "out"}
PeerState == {"up", "eof", "reset", "error"}

SockTypeOK ==
  /\ rcv \in [Fd -> Seq(Unit)]
  /\ peer \in [Fd -> PeerState]
  /\ room \in [Fd -> 0 .. SndMax]
  /\ epoll \in [Fd -> Armed]

SockInit ==
  /\ rcv = [fd \in Fd |-> <<>>]
  /\ peer = [fd \in Fd |-> "up"]
  /\ room = [fd \in Fd |-> SndMax]
  /\ epoll = [fd \in Fd |-> "none"]

Open(fd) == epoll[fd] # "none"
Broken(fd) == peer[fd] \in {"reset", "error"}
Readable(fd) == rcv[fd] # <<>> \/ peer[fd] # "up"
Writable(fd) == room[fd] > 0 \/ Broken(fd)

\* What epoll_wait would report now.
Ready ==
  {fd \in Fd : \/ epoll[fd] = "in" /\ Readable(fd)
               \/ epoll[fd] = "out" /\ Writable(fd)}

-----------------------------------------------------------------------------
\* accept4() and EPOLL_CTL_ADD: a fresh connection on a free number.
OpenSocket(fd) ==
  /\ ~Open(fd)
  /\ epoll' = [epoll EXCEPT ![fd] = "in"]
  /\ UNCHANGED <<rcv, peer, room>>

\* close(): the number is free, its buffers are gone.
CloseSocket(fd) ==
  /\ Open(fd)
  /\ epoll' = [epoll EXCEPT ![fd] = "none"]
  /\ rcv' = [rcv EXCEPT ![fd] = <<>>]
  /\ peer' = [peer EXCEPT ![fd] = "up"]
  /\ room' = [room EXCEPT ![fd] = SndMax]

\* epoll_wait() returns `batch`, which it disarms (EPOLLONESHOT).
Report(batch) ==
  /\ epoll' = [fd \in Fd |-> IF fd \in batch THEN "off" ELSE epoll[fd]]
  /\ UNCHANGED <<rcv, peer, room>>

\* EPOLL_CTL_MOD, which fails on a descriptor that is not registered.
Arm(fd, how) ==
  /\ Open(fd)
  /\ epoll' = [epoll EXCEPT ![fd] = how]
  /\ UNCHANGED <<rcv, peer, room>>

\* read() that returns the first n units.
Take(fd, n) ==
  /\ rcv' = [rcv EXCEPT ![fd] = SubSeq(@, n + 1, Len(@))]
  /\ UNCHANGED <<peer, room, epoll>>

\* write() that accepts n units.
Put(fd, n) ==
  /\ room' = [room EXCEPT ![fd] = @ - n]
  /\ UNCHANGED <<rcv, peer, epoll>>

-----------------------------------------------------------------------------
\* The other end sends, closes its side, breaks the connection or reads.
Deliver(fd, u) ==
  /\ Open(fd) /\ peer[fd] = "up" /\ Len(rcv[fd]) < RcvMax
  /\ rcv' = [rcv EXCEPT ![fd] = Append(@, u)]
  /\ UNCHANGED <<peer, room, epoll>>

PeerEnds(fd, how) ==
  /\ Open(fd) /\ ~Broken(fd) /\ peer[fd] # how
  /\ peer' = [peer EXCEPT ![fd] = how]
  /\ UNCHANGED <<rcv, room, epoll>>

PeerReads(fd) ==
  /\ Open(fd) /\ ~Broken(fd) /\ room[fd] < SndMax
  /\ room' = [room EXCEPT ![fd] = @ + 1]
  /\ UNCHANGED <<rcv, peer, epoll>>

=============================================================================
