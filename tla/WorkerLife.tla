----------------------------- MODULE WorkerLife -----------------------------
(***************************************************************************)
(* What a worker promises to the server that owns it, without coroutines,  *)
(* requests or epoll: a connection is handed over (queued), taken up once  *)
(* (active) and closed once; while it serves, a worker leaves its loop only *)
(* because its flag is down; it returns only when no connection it took up *)
(* is left open.  http::Worker implements it, and http::Server is modelled *)
(* with workers of this kind.                                              *)
(***************************************************************************)
CONSTANT Fd

VARIABLES
  life,  \* how far run() is
  flag,  \* Worker::running
  conn   \* per descriptor: what the worker holds there

lifevars == <<life, flag, conn>>

Life == {"idle", "serving", "draining", "ended", "crashed"}
Conn == {"closed", "queued", "active"}

LifeInit ==
  /\ life = "idle"
  /\ flag = FALSE
  /\ conn = [fd \in Fd |-> "closed"]

\* addClient(), called by the server's thread.
Accept(fd) ==
  /\ conn[fd] = "closed"
  /\ conn' = [conn EXCEPT ![fd] = "queued"]
  /\ UNCHANGED <<life, flag>>

\* stop(), called by the server's thread.
Lower ==
  /\ flag' = FALSE
  /\ UNCHANGED <<life, conn>>

\* run() raises the flag, whatever it was.
Begin ==
  /\ life = "idle"
  /\ life' = "serving"
  /\ flag' = TRUE
  /\ UNCHANGED conn

TakeUp(fd) ==
  /\ life = "serving"
  /\ conn[fd] = "queued"
  /\ conn' = [conn EXCEPT ![fd] = "active"]
  /\ UNCHANGED <<life, flag>>

Close(fd) ==
  /\ life \in {"serving", "draining"}
  /\ conn[fd] = "active"
  /\ conn' = [conn EXCEPT ![fd] = "closed"]
  /\ UNCHANGED <<life, flag>>

Notice ==
  /\ life = "serving"
  /\ ~flag
  /\ life' = "draining"
  /\ UNCHANGED <<flag, conn>>

Return ==
  /\ life = "draining"
  /\ \A fd \in Fd : conn[fd] # "active"
  /\ life' = "ended"
  /\ UNCHANGED <<flag, conn>>

\* An exception leaves run().
Crash ==
  /\ life \in {"serving", "draining"}
  /\ life' = "crashed"
  /\ UNCHANGED <<flag, conn>>

LifeNext ==
  \/ Lower \/ Begin \/ Notice \/ Return \/ Crash
  \/ \E fd \in Fd : Accept(fd) \/ TakeUp(fd) \/ Close(fd)

LifeSpec == LifeInit /\ [][LifeNext]_lifevars

=============================================================================
