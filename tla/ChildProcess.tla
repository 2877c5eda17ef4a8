---------------------------- MODULE ChildProcess ----------------------------
(***************************************************************************)
(* process::Process: a program (the parent) starts children with their     *)
(* standard input and output on pipes, talks to them, moves the objects    *)
(* around and destroys them.  The pipes are not marked close-on-exec, so a *)
(* child inherits whatever the parent holds when it forks.                 *)
(*                                                                         *)
(* A child runs a filter such as test/echo.cpp: it reads its input to the  *)
(* end, writes what it has read, and ends; it may also quit early.         *)
(* Exceptions that leave every object as it was (EBADF on a closed end, no *)
(* descriptors left for the pipes) are no steps.                           *)
(***************************************************************************)
EXTENDS Naturals, FiniteSets

CONSTANTS
  Obj,       \* the Process objects of the parent's program
  Pid,       \* the process ids that children may get; they are reused
  Link,      \* what createDuplexPipe makes: a pair of pipes
  Parent,    \* the parent process
  None,      \* -1
  PipeCap,   \* how much a pipe holds
  ChildBuf,  \* how much a child holds between reading and writing
  MaxLen     \* how much one call of writeExact or readExact moves at most

ASSUME ChildAssumption ==
  /\ Parent \notin Pid /\ None \notin Pid \cup Link \cup Obj
  /\ PipeCap \in Nat \ {0} /\ ChildBuf \in Nat \ {0} /\ MaxLen \in Nat \ {0}

VARIABLES
  obj,      \* the objects
  proc,     \* the children as the kernel knows them
  holds,    \* which processes hold each end of each pair of pipes
  level,    \* how much is in each pipe
  call,     \* what the parent is doing
  older,    \* older[p]: the living children that were there when p was forked
  dropped   \* children whose object was assigned over, or destroyed unwaited

kernel == <<proc, holds, level, older>>
vars == <<obj, kernel, call, dropped>>

-----------------------------------------------------------------------------
\* The two ends of descriptor (1) of createDuplexPipe, and those of (2).  What
\* is written to pout is read from cin, what is written to cout from pin.
End == {"pin", "pout", "cin", "cout"}
Process == Pid \cup {Parent}

Object == [live : BOOLEAN, in : Link \cup {None}, out : Link \cup {None},
           pid : Pid \cup {None}]
Gone == [live |-> FALSE, in |-> None, out |-> None, pid |-> None]
MovedFrom == [Gone EXCEPT !.live = TRUE]

\* A child closes its copy of the parent's ends, redirects and executes.
Stage == {"free", "forked", "closed", "running", "zombie"}
Living == {"forked", "closed", "running"}
NoChild == [st |-> "free", link |-> None, buf |-> 0]

NoCall == [op |-> "none", obj |-> None, link |-> None, left |-> 0]
Blocked(op, o, n) == [NoCall EXCEPT !.op = op, !.obj = o, !.left = n]
Idle == call = NoCall
InCall(op) == call.op = op

PTypeOK ==
  /\ obj \in [Obj -> Object]
  /\ proc \in [Pid -> [st : Stage, link : Link \cup {None}, buf : 0..ChildBuf]]
  /\ holds \in [Link -> [End -> SUBSET Process]]
  /\ level \in [Link -> [{"up", "down"} -> 0..PipeCap]]
  /\ call \in [op : {"none", "pipes", "ctor", "write", "read", "join", "destroy", "killed"},
               obj : Obj \cup {None}, link : Link \cup {None}, left : 0..MaxLen]
  /\ older \in [Pid -> SUBSET Pid]
  /\ dropped \subseteq Pid

Init ==
  /\ obj = [o \in Obj |-> Gone]
  /\ proc = [p \in Pid |-> NoChild]
  /\ holds = [l \in Link |-> [e \in End |-> {}]]
  /\ level = [l \in Link |-> [d \in {"up", "down"} |-> 0]]
  /\ call = NoCall
  /\ older = [p \in Pid |-> {}]
  /\ dropped = {}

-----------------------------------------------------------------------------
\* h after process p has closed the ends in S of pair l.
Without(h, p, l, S) ==
  [m \in Link |-> [e \in End |-> IF m = l /\ e \in S THEN h[m][e] \ {p} ELSE h[m][e]]]
\* h after process p has ended: all its descriptors are closed.
Released(h, p) == [m \in Link |-> [e \in End |-> h[m][e] \ {p}]]

\* What DuplexDescriptor::close makes of the parent's descriptors.
Closed(h, o) == Without(Without(h, Parent, obj[o].in, {"pin"}), Parent, obj[o].out, {"pout"})

(* The constructor *)

FreeLinks == {l \in Link : \A e \in End : holds[l][e] = {}}

\* Which of the free pairs it is makes no difference.
CreateDuplexPipe(o) ==
  LET l == CHOOSE free \in FreeLinks : TRUE
  IN /\ Idle /\ ~obj[o].live
     /\ FreeLinks # {}
     /\ holds' = [holds EXCEPT ![l] = [e \in End |-> {Parent}]]
     /\ level' = [level EXCEPT ![l] = [d \in {"up", "down"} |-> 0]]
     /\ call' = [op |-> "pipes", obj |-> o, link |-> l, left |-> 0]
     /\ UNCHANGED <<obj, proc, older, dropped>>

\* Both descriptors are destroyed on the way out.
ForkFails ==
  /\ InCall("pipes")
  /\ holds' = Without(holds, Parent, call.link, End)
  /\ call' = NoCall
  /\ UNCHANGED <<obj, proc, level, older, dropped>>

\* The child gets a copy of every descriptor that the parent has.
Fork ==
  /\ InCall("pipes")
  /\ \E p \in Pid :
       /\ proc[p].st = "free"
       /\ proc' = [proc EXCEPT ![p] = [st |-> "forked", link |-> call.link, buf |-> 0]]
       /\ holds' = [l \in Link |-> [e \in End |->
            IF Parent \in holds[l][e] THEN holds[l][e] \cup {p} ELSE holds[l][e]]]
       /\ older' = [older EXCEPT ![p] = {q \in Pid : proc[q].st \in Living}]
       /\ obj' = [obj EXCEPT ![call.obj] = [live |-> TRUE, in |-> call.link,
                                            out |-> call.link, pid |-> p]]
  /\ call' = [call EXCEPT !.op = "ctor"]
  /\ UNCHANGED <<level, dropped>>

\* The parent's copy of descriptor (2) is destroyed at the end.
EndConstructor ==
  /\ InCall("ctor")
  /\ holds' = Without(holds, Parent, call.link, {"cin", "cout"})
  /\ call' = NoCall
  /\ UNCHANGED <<obj, proc, level, older, dropped>>

-----------------------------------------------------------------------------
(* The child between fork and exec *)

Exits(p) ==
  /\ proc' = [proc EXCEPT ![p].st = "zombie", ![p].buf = 0]
  /\ holds' = Released(holds, p)
  /\ older' = [q \in Pid |-> IF q = p THEN {} ELSE older[q] \ {p}]
  /\ UNCHANGED <<obj, level, call, dropped>>

\* parent.close()
ChildClose(p) ==
  /\ proc[p].st = "forked"
  /\ proc' = [proc EXCEPT ![p].st = "closed"]
  /\ holds' = Without(holds, p, proc[p].link, {"pin", "pout"})
  /\ UNCHANGED <<obj, level, call, older, dropped>>

\* redirectToStd() and exec(): cin and cout become standard input and output;
\* what else was inherited stays open.
Exec(p) ==
  /\ proc[p].st = "closed"
  /\ proc' = [proc EXCEPT ![p].st = "running"]
  /\ UNCHANGED <<obj, holds, level, call, older, dropped>>

\* Either of them failed: the handler closes the descriptors and ends.
ExecFails(p) ==
  /\ proc[p].st = "closed"
  /\ Exits(p)

(* The program in the child *)

ChildReads(p) ==
  LET l == proc[p].link
  IN /\ proc[p].st = "running" /\ proc[p].buf < ChildBuf
     /\ level[l]["down"] > 0
     /\ level' = [level EXCEPT ![l]["down"] = @ - 1]
     /\ proc' = [proc EXCEPT ![p].buf = @ + 1]
     /\ UNCHANGED <<obj, holds, call, older, dropped>>

ChildWrites(p) ==
  LET l == proc[p].link
  IN /\ proc[p].st = "running" /\ proc[p].buf > 0
     /\ holds[l]["pin"] # {} /\ level[l]["up"] < PipeCap
     /\ level' = [level EXCEPT ![l]["up"] = @ + 1]
     /\ proc' = [proc EXCEPT ![p].buf = @ - 1]
     /\ UNCHANGED <<obj, holds, call, older, dropped>>

\* SIGPIPE, or the end of the input after everything was written.
ChildEnds(p) ==
  LET l == proc[p].link
  IN /\ proc[p].st = "running"
     /\ \/ proc[p].buf > 0 /\ holds[l]["pin"] = {}
        \/ proc[p].buf = 0 /\ level[l]["down"] = 0 /\ holds[l]["pout"] = {}
     /\ Exits(p)

ChildQuits(p) == proc[p].st = "running" /\ Exits(p)

-----------------------------------------------------------------------------
(* Calls of the parent's program.  It has one thread: nothing else is      *)
(* called while a call waits.                                              *)

Starts(op, o, n) ==
  /\ Idle /\ obj[o].live
  /\ call' = Blocked(op, o, n)
  /\ UNCHANGED <<obj, kernel, dropped>>

WriteExact(o, n) == obj[o].out # None /\ Starts("write", o, n)
ReadExact(o, n) == obj[o].in # None /\ Starts("read", o, n)

\* Faulty variant: what was moved is counted twice.
MovedTwice == call' = IF call.left = 1 THEN NoCall ELSE [call EXCEPT !.left = @ - 2]

\* written += res, received += res, and the test of the loop.
Moved == call' = IF call.left = 1 THEN NoCall ELSE [call EXCEPT !.left = @ - 1]

\* Faulty variant: all of the data is written by one call or not at all.
WritesAll ==
  LET l == obj[call.obj].out
  IN /\ InCall("write")
     /\ holds[l]["cin"] # {} /\ level[l]["down"] + call.left <= PipeCap
     /\ level' = [level EXCEPT ![l]["down"] = @ + call.left]
     /\ call' = NoCall
     /\ UNCHANGED <<obj, proc, holds, older, dropped>>

\* A turn of the loop in writeExact.
Writes ==
  LET l == obj[call.obj].out
  IN /\ InCall("write")
     /\ holds[l]["cin"] # {} /\ level[l]["down"] < PipeCap
     /\ level' = [level EXCEPT ![l]["down"] = @ + 1]
     /\ Moved
     /\ UNCHANGED <<obj, proc, holds, older, dropped>>

\* Nobody can read it: SIGPIPE, before write() can report anything.
BrokenPipe ==
  /\ InCall("write")
  /\ holds[obj[call.obj].out]["cin"] = {}
  /\ call' = [NoCall EXCEPT !.op = "killed"]
  /\ obj' = [o \in Obj |-> Gone]
  /\ holds' = Released(holds, Parent)
  /\ UNCHANGED <<proc, level, older, dropped>>

\* A turn of the loop in readExact, and its exception at the end of file.
Reads ==
  LET l == obj[call.obj].in
  IN /\ InCall("read")
     /\ level[l]["up"] > 0
     /\ level' = [level EXCEPT ![l]["up"] = @ - 1]
     /\ Moved
     /\ UNCHANGED <<obj, proc, holds, older, dropped>>

ReadsEnd ==
  LET l == obj[call.obj].in
  IN /\ InCall("read")
     /\ level[l]["up"] = 0 /\ holds[l]["cout"] = {}
     /\ call' = NoCall
     /\ UNCHANGED <<obj, kernel, dropped>>

CloseStdin(o) ==
  /\ Idle /\ obj[o].live
  /\ obj' = [obj EXCEPT ![o].out = None]
  /\ holds' = Without(holds, Parent, obj[o].out, {"pout"})
  /\ UNCHANGED <<proc, level, call, older, dropped>>

Close(o) ==
  /\ Idle /\ obj[o].live
  /\ obj' = [obj EXCEPT ![o].in = None, ![o].out = None]
  /\ holds' = Closed(holds, o)
  /\ UNCHANGED <<proc, level, call, older, dropped>>

Join(o) == obj[o].pid # None /\ Starts("join", o, 0)

\* SIGKILL.
Kill(o) ==
  /\ Idle /\ obj[o].pid # None
  /\ proc[obj[o].pid].st \in Living
  /\ Exits(obj[o].pid)

MoveConstruct(o, other) ==
  /\ Idle /\ ~obj[o].live /\ obj[other].live
  /\ obj' = [obj EXCEPT ![o] = obj[other], ![other] = MovedFrom]
  /\ UNCHANGED <<kernel, call, dropped>>

\* Faulty variant: the descriptors of the target are not closed.
MoveAssignOver(o, other) ==
  /\ Idle /\ obj[o].live /\ obj[other].live
  /\ obj' = [obj EXCEPT ![o] = obj[other], ![other] = MovedFrom]
  /\ dropped' = dropped \cup ({obj[o].pid} \cap Pid)
  /\ UNCHANGED <<kernel, call>>

\* operator=: the target's child is not waited for, and nothing knows its pid
\* any more.  Assigning an object to itself closes it.
MoveAssign(o, other) ==
  /\ Idle /\ obj[o].live /\ obj[other].live
  /\ holds' = Closed(holds, o)
  /\ obj' = IF o = other THEN [obj EXCEPT ![o] = MovedFrom]
                         ELSE [obj EXCEPT ![o] = obj[other], ![other] = MovedFrom]
  /\ dropped' = dropped \cup ({obj[o].pid} \cap Pid)
  /\ UNCHANGED <<proc, level, call, older>>

\* Faulty variant: the destructor waits first.
DestroyJoinFirst(o) ==
  /\ Idle /\ obj[o].live
  /\ \/ obj[o].pid # None /\ call' = Blocked("destroy", o, 0) /\ UNCHANGED <<obj, holds>>
     \/ /\ obj[o].pid = None
        /\ obj' = [obj EXCEPT ![o] = Gone] /\ holds' = Closed(holds, o) /\ UNCHANGED call
  /\ UNCHANGED <<proc, level, older, dropped>>

\* The destructor: close(), then join().
Destroy(o) ==
  /\ Idle /\ obj[o].live
  /\ holds' = Closed(holds, o)
  /\ \/ /\ obj[o].pid # None
        /\ call' = Blocked("destroy", o, 0)
        /\ obj' = [obj EXCEPT ![o].in = None, ![o].out = None]
     \/ /\ obj[o].pid = None
        /\ obj' = [obj EXCEPT ![o] = Gone]
        /\ UNCHANGED call
  /\ UNCHANGED <<proc, level, older, dropped>>

Waiting == InCall("join") \/ InCall("destroy")

\* The destructor of descriptor_ closes what close() has left.
EndDestructor == holds' = IF InCall("destroy") THEN Closed(holds, call.obj) ELSE holds

\* Faulty variant: join() keeps the pid.
ReapsOnly ==
  LET p == obj[call.obj].pid
  IN /\ Waiting
     /\ proc[p].st = "zombie"
     /\ proc' = [proc EXCEPT ![p] = NoChild]
     /\ obj' = [obj EXCEPT ![call.obj] = IF InCall("destroy") THEN Gone ELSE @]
     /\ EndDestructor
     /\ call' = NoCall
     /\ UNCHANGED <<level, older, dropped>>

\* waitpid() returns the child, whose pid is free again.
Reaps ==
  LET p == obj[call.obj].pid
  IN /\ Waiting
     /\ proc[p].st = "zombie"
     /\ proc' = [proc EXCEPT ![p] = NoChild]
     /\ obj' = [obj EXCEPT ![call.obj] = IF InCall("destroy") THEN Gone ELSE [@ EXCEPT !.pid = None]]
     /\ EndDestructor
     /\ call' = NoCall
     /\ UNCHANGED <<level, older, dropped>>

\* Faulty variant: the pid is given up although the wait failed.
ForgetsChild ==
  /\ Waiting
  /\ obj' = [obj EXCEPT ![call.obj] = IF InCall("destroy") THEN Gone ELSE [@ EXCEPT !.pid = None]]
  /\ dropped' = IF InCall("destroy") THEN dropped \cup {obj[call.obj].pid} ELSE dropped
  /\ EndDestructor
  /\ call' = NoCall
  /\ UNCHANGED <<proc, level, older>>

\* A signal interrupts waitpid(): join() keeps the pid for another try, which
\* the destructor does not make.
WaitInterrupted ==
  /\ Waiting
  /\ obj' = IF InCall("destroy") THEN [obj EXCEPT ![call.obj] = Gone] ELSE obj
  /\ dropped' = IF InCall("destroy") THEN dropped \cup {obj[call.obj].pid} ELSE dropped
  /\ EndDestructor
  /\ call' = NoCall
  /\ UNCHANGED <<proc, level, older>>

-----------------------------------------------------------------------------
ChildGoesOn(p) ==
  \/ ChildClose(p) \/ Exec(p) \/ ExecFails(p)
  \/ ChildReads(p) \/ ChildWrites(p) \/ ChildEnds(p)
ParentGoesOn ==
  Fork \/ ForkFails \/ EndConstructor \/ Writes \/ BrokenPipe \/ Reads \/ ReadsEnd \/ Reaps
ParentCalls(o) ==
  \/ CreateDuplexPipe(o) \/ CloseStdin(o) \/ Close(o) \/ Join(o) \/ Kill(o) \/ Destroy(o)
  \/ \E n \in 1..MaxLen : WriteExact(o, n) \/ ReadExact(o, n)
  \/ \E other \in Obj : MoveConstruct(o, other) \/ MoveAssign(o, other)

Next ==
  \/ \E p \in Pid : ChildGoesOn(p) \/ ChildQuits(p)
  \/ ParentGoesOn \/ WaitInterrupted
  \/ \E o \in Obj : ParentCalls(o)

Spec == Init /\ [][Next]_vars

\* Processes are scheduled, and children are filters that read their input and
\* write what they read.  Nobody is obliged to call anything.
FairSpec == Spec /\ WF_vars(ParentGoesOn) /\ \A p \in Pid : WF_vars(ChildGoesOn(p))

-----------------------------------------------------------------------------
\* The descriptors of the parent and those in the objects are the same: no end
\* is left open behind a failed constructor, a move or a destructor, and no two
\* objects would close the same one.
DescriptorsOwned ==
  /\ \A l \in Link : call.link # l =>
       /\ Parent \in holds[l]["pin"] <=> \E o \in Obj : obj[o].in = l
       /\ Parent \in holds[l]["pout"] <=> \E o \in Obj : obj[o].out = l
       /\ Parent \notin holds[l]["cin"] \cup holds[l]["cout"]
  /\ \A o, q \in Obj : o # q =>
       /\ obj[o].in = obj[q].in => obj[o].in = None
       /\ obj[o].out = obj[q].out => obj[o].out = None

\* kill() and join() reach the child that the object started: the pid in an
\* object has not been given back to the kernel, belongs to no other object,
\* and is that of the child at the other end of the object's pipes.
PidsOwned ==
  \A o \in Obj : obj[o].pid # None =>
    /\ proc[obj[o].pid].st # "free"
    /\ \A q \in Obj \ {o} : obj[q].pid # obj[o].pid
    /\ {obj[o].in, obj[o].out} \subseteq {None, proc[obj[o].pid].link}

\* No child is left as a zombie for good: an object will wait for it, unless
\* its object was assigned over or a signal cut the destructor's wait short.
ChildrenHandled ==
  InCall("killed")
  \/ \A p \in Pid : proc[p].st # "free" => p \in dropped \/ \E o \in Obj : obj[o].pid = p

Outlived(p) == \E q \in Pid : p \in older[q]

\* The destructor returns if no child that was started later is still there
\* (which is so for automatic objects, destroyed in reverse order).
DestructorReturns ==
  \A o \in Obj :
    InCall("destroy") /\ call.obj = o /\ ~Outlived(obj[o].pid) ~> ~(InCall("destroy") /\ call.obj = o)

Unread(o) ==
  LET l == obj[o].out
  IN level[l]["down"] + level[l]["up"] + IF obj[o].pid = None THEN 0 ELSE proc[obj[o].pid].buf

\* writeExact comes back, or the parent is killed by SIGPIPE, as long as what
\* has not been read back fits in the two pipes.
WriteReturns ==
  InCall("write") /\ Unread(call.obj) + call.left <= 2 * PipeCap ~> ~InCall("write")

=============================================================================
