-------------------------------- MODULE Tcp ---------------------------------
(***************************************************************************)
(* tcp::Connection and tcp::Server, the blocking sockets, as the two       *)
(* threads of example/tcp use them.  The server's thread accepts, checks   *)
(* that what it writes comes back, accepts again and echoes; main connects,*)
(* echoes, connects again and checks.  set_timeout may be called on every  *)
(* new connection; its option name SO_SNDTIMEO | SO_RCVTIMEO is the value  *)
(* of SO_SNDTIMEO, so that only writes can time out.                       *)
(***************************************************************************)
EXTENDS Naturals, Sequences

CONSTANTS
  Sizes,   \* the numbers of octets that check_read_write may send
  Cap,     \* octets that the kernel keeps for one direction of a connection
  Buf      \* size of echo's buffer

ASSUME TcpAssumption ==
  Sizes \subseteq Nat \ {0} /\ Cap \in Nat \ {0} /\ Buf \in Nat \ {0}

Side == {"server", "client"}
Peer(s) == IF s = "server" THEN "client" ELSE "server"
Conn == 1..2   \* the connections, in the order of main's connects
NoConn == 0    \* fd_ is -1

VARIABLES
  size,       \* data.size()
  pc,         \* where the two threads are
  fd,         \* the connection that to_client and client own
  timeout,    \* set_timeout was called on it
  data,       \* the argument of writeExact
  written,    \* its local variable
  got,        \* what readExact has stored
  result,     \* what check_read_write returned
  stream,     \* octets on their way to a side
  open,       \* the sides that have a connection open
  reset,      \* connections that were reset
  backlog,    \* connections to accept
  listening,  \* the Server has a socket
  failed      \* accept or connect failed, or a write timed out

threadVars == <<pc, fd, timeout, data, written, got, result>>
kernelVars == <<stream, open, reset, backlog, listening>>
vars == <<size, threadVars, kernelVars, failed>>

Data == [i \in 1..size |-> i]
Octets(q, n) == q \in Seq(1..size) /\ Len(q) <= n

TcpTypeOK ==
  /\ size \in Sizes
  /\ pc["server"] \in {"start", "accept1", "write", "read", "close", "accept2",
                       "echo", "echoWrite", "done", "failed", "terminated"}
  /\ pc["client"] \in {"start", "connect1", "echo", "echoWrite", "connect2",
                       "write", "read", "close", "get", "done", "terminated"}
  /\ \A s \in Side :
       /\ fd[s] \in Conn \cup {NoConn}
       /\ timeout[s] \in BOOLEAN
       /\ Octets(data[s], IF pc[s] = "echoWrite" THEN Buf ELSE size)
       /\ written[s] \in 0..Len(data[s])
       /\ Octets(got[s], size)
       /\ result[s] \in {"none", "true", "false"}
  /\ \A c \in Conn : open[c] \subseteq Side /\ \A s \in Side : Octets(stream[c][s], Cap)
  /\ reset \subseteq Conn
  /\ backlog \in Seq(Conn)
  /\ listening \in BOOLEAN
  /\ failed \in BOOLEAN

Init ==
  /\ size \in Sizes
  /\ pc = [s \in Side |-> "start"]
  /\ fd = [s \in Side |-> NoConn]
  /\ timeout = [s \in Side |-> FALSE]
  /\ data = [s \in Side |-> <<>>]
  /\ written = [s \in Side |-> 0]
  /\ got = [s \in Side |-> <<>>]
  /\ result = [s \in Side |-> "none"]
  /\ stream = [c \in Conn |-> [s \in Side |-> <<>>]]
  /\ open = [c \in Conn |-> {}]
  /\ reset = {}
  /\ backlog = <<>>
  /\ listening = FALSE
  /\ failed = FALSE

-----------------------------------------------------------------------------
(* What several steps have in common *)

Goes(s, where) == pc' = [pc EXCEPT ![s] = where]

\* ::close of the end that s has; the kernel resets a connection that is closed
\* with octets to read.
Unowned(s, c) ==
  IF c = NoConn THEN UNCHANGED <<stream, open, reset>> ELSE
    /\ open' = [open EXCEPT ![c] = @ \ {s}]
    /\ reset' = IF stream[c][s] = <<>> THEN reset ELSE reset \cup {c}
    /\ stream' = [stream EXCEPT ![c][s] = <<>>]

\* The process ends: of an exception that leaves main, or of SIGPIPE.
Terminate ==
  /\ pc' = [s \in Side |-> "terminated"]
  /\ fd' = [s \in Side |-> NoConn]
  /\ stream' = [c \in Conn |-> [s \in Side |-> <<>>]]
  /\ open' = [c \in Conn |-> {}]
  /\ backlog' = <<>> /\ listening' = FALSE
  /\ UNCHANGED <<size, timeout, data, written, got, result, reset>>

\* An exception in the server's thread: to_client is destroyed, and the future
\* keeps the exception.
ServerThrows ==
  /\ Unowned("server", fd["server"])
  /\ fd' = [fd EXCEPT !["server"] = NoConn]
  /\ Goes("server", "failed")
  /\ UNCHANGED <<size, timeout, data, written, got, result, backlog, listening>>

\* main does not catch exceptions.
Throws(s) == IF s = "client" THEN Terminate ELSE ServerThrows

\* check_read_write and echo start with a new connection.
Starts(s, where) ==
  /\ Goes(s, where)
  /\ data' = [data EXCEPT ![s] = IF where = "write" THEN Data ELSE <<>>]
  /\ written' = [written EXCEPT ![s] = 0]
  /\ got' = [got EXCEPT ![s] = <<>>]
  /\ \E t \in BOOLEAN : timeout' = [timeout EXCEPT ![s] = t]

-----------------------------------------------------------------------------
(* tcp::Server *)

\* The constructor in main, and std::async.
Open ==
  /\ pc["client"] = "start"
  /\ listening' = TRUE
  /\ pc' = [pc EXCEPT !["server"] = "accept1", !["client"] = "connect1"]
  /\ UNCHANGED <<size, fd, timeout, data, written, got, result, stream, open, reset, backlog, failed>>

\* socket, bind or listen fails.
OpenFails ==
  /\ pc["client"] = "start"
  /\ Terminate
  /\ failed' = TRUE

\* The result of accept initialises to_client, or is move-assigned to it.
Accept ==
  /\ pc["server"] \in {"accept1", "accept2"}
  /\ backlog # <<>>
  /\ Unowned("server", fd["server"])
  /\ fd' = [fd EXCEPT !["server"] = Head(backlog)]
  /\ backlog' = Tail(backlog)
  /\ Starts("server", IF pc["server"] = "accept1" THEN "write" ELSE "echo")
  /\ UNCHANGED <<size, result, listening, failed>>

AcceptFails ==
  /\ pc["server"] \in {"accept1", "accept2"}
  /\ ServerThrows
  /\ failed' = TRUE

-----------------------------------------------------------------------------
(* tcp::Connection *)

\* Faulty variant: the previous connection is not closed.
ConnectOver ==
  /\ pc["client"] \in {"connect1", "connect2"}
  /\ LET c == IF pc["client"] = "connect1" THEN 1 ELSE 2 IN
       /\ fd' = [fd EXCEPT !["client"] = c]
       /\ backlog' = Append(backlog, c)
       /\ open' = [open EXCEPT ![c] = Side]
       /\ UNCHANGED <<reset, stream>>
  /\ Starts("client", IF pc["client"] = "connect1" THEN "echo" ELSE "write")
  /\ UNCHANGED <<size, result, listening, failed>>

\* The previous connection is closed; the kernel completes the new one before
\* it is accepted.
Connect ==
  /\ pc["client"] \in {"connect1", "connect2"}
  /\ LET c == IF pc["client"] = "connect1" THEN 1 ELSE 2
         old == fd["client"]
     IN
       /\ fd' = [fd EXCEPT !["client"] = c]
       /\ backlog' = Append(backlog, c)
       /\ open' = [d \in Conn |-> IF d = c THEN Side ELSE IF d = old THEN open[d] \ {"client"} ELSE open[d]]
       /\ reset' = reset \cup {d \in Conn : d = old /\ stream[d]["client"] # <<>>}
       /\ stream' = [d \in Conn |-> IF d = old THEN [stream[d] EXCEPT !["client"] = <<>>] ELSE stream[d]]
  /\ Starts("client", IF pc["client"] = "connect1" THEN "echo" ELSE "write")
  /\ UNCHANGED <<size, result, listening, failed>>

ConnectFails ==
  /\ pc["client"] \in {"connect1", "connect2"}
  /\ Terminate
  /\ failed' = TRUE

\* Faulty variant: every write starts at the beginning of the data.
ChunkAgain(s, n) == SubSeq(data[s], 1, n)

\* d + written.
Chunk(s, n) == SubSeq(data[s], written[s] + 1, written[s] + n)

\* One write of writeExact, which returns with the last octet.  What is written
\* to a peer that has closed resets the connection.
Write(s) ==
  /\ pc[s] \in {"write", "echoWrite"}
  /\ fd[s] \notin reset
  /\ \E n \in 1..(Len(data[s]) - written[s]) :
       /\ \/ /\ Peer(s) \in open[fd[s]]
             /\ Len(stream[fd[s]][Peer(s)]) + n <= Cap
             /\ stream' = [stream EXCEPT ![fd[s]][Peer(s)] = @ \o Chunk(s, n)]
             /\ UNCHANGED reset
          \/ /\ Peer(s) \notin open[fd[s]]
             /\ reset' = reset \cup {fd[s]}
             /\ UNCHANGED stream
       /\ written' = [written EXCEPT ![s] = @ + n]
       /\ IF written[s] + n < Len(data[s]) THEN UNCHANGED pc
          ELSE Goes(s, IF pc[s] = "write" THEN "read" ELSE "echo")
  /\ UNCHANGED <<size, fd, timeout, data, got, result, open, backlog, listening, failed>>

\* EAGAIN after the time-out: nothing could be written.
WriteTimesOut(s) ==
  /\ pc[s] \in {"write", "echoWrite"} /\ timeout[s]
  /\ fd[s] \notin reset /\ Len(stream[fd[s]][Peer(s)]) = Cap
  /\ Throws(s)
  /\ failed' = TRUE

\* ECONNRESET, or SIGPIPE.
WriteBroken(s) ==
  /\ pc[s] \in {"write", "echoWrite"}
  /\ fd[s] \in reset
  /\ Throws(s) \/ Terminate
  /\ UNCHANGED failed

\* One read of readExact, and the comparison when it has returned.
ReadExact(s) ==
  /\ pc[s] = "read"
  /\ LET ready == stream[fd[s]][s] IN
       \E n \in 1..Len(ready) :
         /\ n <= size - Len(got[s])
         /\ got' = [got EXCEPT ![s] = @ \o SubSeq(ready, 1, n)]
         /\ stream' = [stream EXCEPT ![fd[s]][s] = SubSeq(@, n + 1, Len(@))]
  /\ \/ Len(got'[s]) < size /\ UNCHANGED <<pc, result>>
     \/ /\ Len(got'[s]) = size
        /\ result' = [result EXCEPT ![s] = IF got'[s] = Data THEN "true" ELSE "false"]
        /\ Goes(s, "close")
  /\ UNCHANGED <<size, fd, timeout, data, written, open, reset, backlog, listening, failed>>

\* Nothing is left to read: the peer has closed, or the connection was reset.
AtEnd(s) ==
  /\ stream[fd[s]][s] = <<>>
  /\ fd[s] \in reset \/ Peer(s) \notin open[fd[s]]

\* readExact and the end of the input.
ReadExactEnds(s) ==
  /\ pc[s] = "read" /\ AtEnd(s)
  /\ Throws(s)
  /\ UNCHANGED failed

\* Faulty variant: a read that does not fill the buffer is the last one.
AfterEchoShort(s, n) == IF n < Buf THEN "connect2" ELSE "echoWrite"

\* However short the read was, the loop goes on.
AfterEcho(s, n) == "echoWrite"

\* Faulty variant: the count of writeExact is not its own.
EchoReadOn(s) ==
  /\ pc[s] = "echo"
  /\ LET ready == stream[fd[s]][s] IN
       \E n \in 1..Len(ready) :
         /\ n <= Buf
         /\ data' = [data EXCEPT ![s] = SubSeq(ready, 1, n)]
         /\ stream' = [stream EXCEPT ![fd[s]][s] = SubSeq(@, n + 1, Len(@))]
         /\ Goes(s, AfterEcho(s, n))
  /\ UNCHANGED <<size, fd, timeout, written, got, result, open, reset, backlog, listening, failed>>

\* One read of echo, which then calls writeExact.
EchoRead(s) ==
  /\ pc[s] = "echo"
  /\ LET ready == stream[fd[s]][s] IN
       \E n \in 1..Len(ready) :
         /\ n <= Buf
         /\ data' = [data EXCEPT ![s] = SubSeq(ready, 1, n)]
         /\ stream' = [stream EXCEPT ![fd[s]][s] = SubSeq(@, n + 1, Len(@))]
         /\ Goes(s, AfterEcho(s, n))
  /\ written' = [written EXCEPT ![s] = 0]
  /\ UNCHANGED <<size, fd, timeout, got, result, open, reset, backlog, listening, failed>>

\* Faulty variant: the end of the input does not end the loop.
EchoEndsNot(s) == pc[s] = "echo" /\ AtEnd(s) /\ UNCHANGED vars

\* echo's loop ends; to_client is destroyed when the server's thread ends.
EchoEnds(s) ==
  /\ pc[s] = "echo" /\ AtEnd(s) /\ fd[s] \notin reset
  /\ \/ /\ s = "client"
        /\ Goes(s, "connect2")
        /\ UNCHANGED <<fd, stream, open, reset>>
     \/ /\ s = "server"
        /\ Goes(s, "done")
        /\ Unowned(s, fd[s])
        /\ fd' = [fd EXCEPT ![s] = NoConn]
  /\ UNCHANGED <<size, timeout, data, written, got, result, backlog, listening, failed>>

EchoReset(s) ==
  /\ pc[s] = "echo" /\ AtEnd(s) /\ fd[s] \in reset
  /\ Throws(s)
  /\ UNCHANGED failed

Close(s) ==
  /\ pc[s] = "close"
  /\ Unowned(s, fd[s])
  /\ fd' = [fd EXCEPT ![s] = NoConn]
  /\ Goes(s, IF s = "server" THEN "accept2" ELSE "get")
  /\ UNCHANGED <<size, timeout, data, written, got, result, backlog, listening, failed>>

\* server_future.get() and the end of main, where the Server is destroyed; the
\* exception of the other thread ends main as its own would.
Get ==
  /\ pc["client"] = "get" /\ pc["server"] \in {"done", "failed"}
  /\ IF pc["server"] = "failed" THEN Terminate
     ELSE /\ Goes("client", "done")
          /\ listening' = FALSE
          /\ UNCHANGED <<size, fd, timeout, data, written, got, result, stream, open, reset, backlog>>
  /\ UNCHANGED failed

-----------------------------------------------------------------------------
(* The specification *)

Transfer(s) ==
  \/ Write(s) \/ WriteTimesOut(s) \/ WriteBroken(s)
  \/ ReadExact(s) \/ ReadExactEnds(s)
  \/ EchoRead(s) \/ EchoEnds(s) \/ EchoReset(s) \/ Close(s)

ServerThread == Accept \/ AcceptFails \/ Transfer("server")
MainThread == Open \/ OpenFails \/ Connect \/ ConnectFails \/ Get \/ Transfer("client")

Next == ServerThread \/ MainThread

Spec == Init /\ [][Next]_vars

\* accept blocks, so nothing forces it to fail.
FairSpec ==
  /\ Spec
  /\ WF_vars(Accept) /\ WF_vars(Transfer("server"))
  /\ WF_vars(MainThread)

-----------------------------------------------------------------------------
(* Properties *)

\* Whatever the kernel splits and however the two threads alternate, readExact
\* returns the octets that writeExact sent, in their order, each once: the
\* comparison of check_read_write never fails.
EchoedExactly == \A s \in Side : result[s] # "false"

\* An end of a connection is open exactly when a Connection owns it or it waits
\* for accept: connect, the move assignment and the destructors leave no socket
\* behind and close none that is in use.
EndsOwned ==
  \A c \in Conn, s \in Side :
    s \in open[c] <=> fd[s] = c \/ (s = "server" /\ \E i \in DOMAIN backlog : backlog[i] = c)

\* Unless a call failed, no connection is closed with octets to read: the
\* program never resets its own peer.
OrderlyClose == ~failed => reset = {}

\* check_read_write writes everything before it reads anything.  The octets find
\* room in the two directions and in echo's buffer:
Fits == size <= 2 * Cap + 1

\* then the two threads never wait for each other for ever: main returns, unless
\* a call failed.
RoundTripEnds == Fits => <>(pc["client"] = "done" \/ failed)

=============================================================================
