---------------------------- MODULE WorkerClock ----------------------------
(***************************************************************************)
(* Worker with a history variable: the clients that nothing may be read    *)
(* from or written to any more because their time is up.  No action of     *)
(* Worker looks at it, so every behaviour of Worker is one of ClockSpec.   *)
(*                                                                         *)
(* timed_out() is asked before each read() and write(), and time passes    *)
(* between the question and the call (src/http/ClientState.cpp).           *)
(***************************************************************************)
EXTENDS Worker

VARIABLE barred  \* descriptors of clients past their limit and past their last call

clockvars == <<vars, barred>>

\* The step reads from connection fd or writes to it; close() does neither.
Touches(fd) ==
  /\ Open(fd) /\ epoll'[fd] # "none"
  /\ Len(rcv'[fd]) < Len(rcv[fd]) \/ room'[fd] < room[fd]

\* The client's own coroutine, or one that was resumed under its handle, runs
\* while the limit passes; it may be between the test and the call.
Caught(fd) == current # 0 /\ RunFd = fd

\* A timed-out client has had its last call when one is made after the limit,
\* and when the limit passes, or the drain marks the client, while no coroutine
\* of its own runs.
Bar ==
  barred' = {fd \in Fd : /\ TimedOut(fd)'
                         /\ \/ fd \in barred
                            \/ TimedOut(fd) /\ Touches(fd)
                            \/ ~Caught(fd)}

ClockInit == Init /\ barred = {}
ClockNext == Next /\ Bar
ClockSpec == ClockInit /\ [][ClockNext]_clockvars
FairClockSpec == ClockSpec /\ Fairness

\* After its limit a client is read from or written to once more at most, by
\* the call that readHead, readBody or sendResponse had under way, and not at
\* all when its coroutine was suspended: neither the loops, nor a response to a
\* request that was cut short, nor a coroutine resumed under a stale handle,
\* nor the drain begins another call before the connection is closed.
OneCallAfterTimeout == [][\A fd \in Fd : Touches(fd) => fd \notin barred]_clockvars

=============================================================================
