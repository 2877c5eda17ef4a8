------------------------- MODULE ChildProcessProofs -------------------------
(***************************************************************************)
(* For any number of objects, pids and pipes and all capacities: the       *)
(* parent's descriptors are those in its objects, an object's pid is that  *)
(* of its own child, every child has somebody to wait for it, and the      *)
(* parent waits for nobody who is stuck.                                   *)
(***************************************************************************)
EXTENDS ChildProcess, TLAPS

USE ChildAssumption

\* What the objects hold while the parent is in a call.
CallOK ==
  /\ call.link # None <=> call.op \in {"pipes", "ctor"}
  /\ call.op \notin {"none", "killed"} => call.obj \in Obj
  /\ call.op = "pipes" =>
       /\ ~obj[call.obj].live
       /\ \A o \in Obj : call.link \notin {obj[o].in, obj[o].out}
  /\ call.op = "ctor" => obj[call.obj].in = call.link /\ obj[call.obj].out = call.link
  /\ call.op \in {"pipes", "ctor"} => \A e \in End : Parent \in holds[call.link][e]
  /\ call.op = "write" => obj[call.obj].out # None
  /\ call.op = "read" => obj[call.obj].in # None
  /\ call.op \in {"write", "read"} => call.left # 0
  /\ call.op \in {"join", "destroy"} => obj[call.obj].pid # None
  /\ call.op = "destroy" => obj[call.obj].in = None /\ obj[call.obj].out = None

\* An object that is not alive holds nothing, and a child that the kernel knows
\* has a pair of pipes.
Holders ==
  /\ \A o \in Obj : ~obj[o].live => obj[o] = Gone
  /\ \A p \in Pid : proc[p].st # "free" => proc[p].link \in Link

ProcessInv ==
  /\ PTypeOK
  /\ CallOK
  /\ Holders
  /\ DescriptorsOwned
  /\ PidsOwned
  /\ ChildrenHandled

-----------------------------------------------------------------------------
(* The kernel's table of descriptors. *)

Holds == [Link -> [End -> SUBSET Process]]

\* close() removes one holder of the ends it names, and only of these.
LEMMA WithoutEffect ==
  ASSUME NEW h \in Holds, NEW p \in Process, NEW m, NEW S
  PROVE  /\ Without(h, p, m, S) \in Holds
         /\ \A q \in Process, l \in Link, e \in End :
              q \in Without(h, p, m, S)[l][e] <=> q \in h[l][e] /\ ~(q = p /\ l = m /\ e \in S)
BY DEF Without, Holds

LEMMA ReleasedEffect ==
  ASSUME NEW h \in Holds, NEW p \in Process
  PROVE  /\ Released(h, p) \in Holds
         /\ \A q \in Process, l \in Link, e \in End :
              q \in Released(h, p)[l][e] <=> q \in h[l][e] /\ q # p
BY DEF Released, Holds

\* close() of a DuplexDescriptor: the parent's copies of the object's two ends.
LEMMA ClosedEffect ==
  ASSUME NEW h \in Holds, NEW o
  PROVE  /\ Closed(h, o) \in Holds
         /\ \A l \in Link, e \in End :
              Parent \in Closed(h, o)[l][e] <=>
                /\ Parent \in h[l][e]
                /\ ~(l = obj[o].in /\ e = "pin")
                /\ ~(l = obj[o].out /\ e = "pout")
<1>. DEFINE g == Without(h, Parent, obj[o].in, {"pin"})
<1>1. Parent \in Process
  BY DEF Process
<1>2. /\ g \in Holds
      /\ \A l \in Link, e \in End :
           Parent \in g[l][e] <=> Parent \in h[l][e] /\ ~(l = obj[o].in /\ e \in {"pin"})
  BY <1>1, WithoutEffect
<1>3. Closed(h, o) = Without(g, Parent, obj[o].out, {"pout"})
  BY DEF Closed
<1>. HIDE DEF g
<1>4. /\ Without(g, Parent, obj[o].out, {"pout"}) \in Holds
      /\ \A l \in Link, e \in End :
           Parent \in Without(g, Parent, obj[o].out, {"pout"})[l][e] <=>
             Parent \in g[l][e] /\ ~(l = obj[o].out /\ e \in {"pout"})
  BY <1>1, <1>2, WithoutEffect
<1>. QED
  BY <1>2, <1>3, <1>4

LEMMA Typed ==
  ASSUME ProcessInv
  PROVE  /\ holds \in Holds /\ Parent \in Process
         /\ \A p \in Pid : p \in Process /\ p # Parent
         /\ {"pin", "pout", "cin", "cout"} = End
         /\ \A o \in Obj : obj[o] \in Object
BY DEF ProcessInv, PTypeOK, Holds, Process, End

-----------------------------------------------------------------------------
(* Steps of the children. *)

\* The parent sees nothing of a child that goes on, or ends, but the state that
\* waitpid() will report.
LEMMA OutsideParent ==
  ASSUME ProcessInv, PTypeOK', UNCHANGED <<obj, call, dropped>>,
         \A l \in Link, e \in End : Parent \in holds'[l][e] <=> Parent \in holds[l][e],
         \A p \in Pid : proc'[p].link = proc[p].link /\ (proc'[p].st = "free" <=> proc[p].st = "free")
  PROVE  ProcessInv'
<1>1. CallOK'
  <2>1. call.op \in {"pipes", "ctor"} => call.link \in Link
    BY DEF ProcessInv, CallOK, PTypeOK
  <2>. QED
    BY <2>1 DEF ProcessInv, CallOK
<1>2. Holders'
  BY DEF ProcessInv, Holders
<1>3. DescriptorsOwned'
  BY Typed DEF ProcessInv, DescriptorsOwned
<1>4. PidsOwned'
  <2>1. \A o \in Obj : obj[o].pid # None => obj[o].pid \in Pid
    BY Typed DEF Object
  <2>. QED
    BY <2>1 DEF ProcessInv, PidsOwned
<1>5. ChildrenHandled'
  BY DEF ProcessInv, ChildrenHandled, InCall
<1>. QED
  BY <1>1, <1>2, <1>3, <1>4, <1>5 DEF ProcessInv

Child == [st : Stage, link : Link \cup {None}, buf : 0..ChildBuf]

\* proc after child p has become c.
LEMMA ChildBecomes ==
  ASSUME ProcessInv, NEW p \in Pid, NEW c \in Child, proc' = [proc EXCEPT ![p] = c],
         c.link = proc[p].link, c.st # "free", proc[p].st # "free"
  PROVE  /\ proc' \in [Pid -> Child]
         /\ \A q \in Pid : proc'[q].link = proc[q].link
                           /\ (proc'[q].st = "free" <=> proc[q].st = "free")
BY DEF ProcessInv, PTypeOK, Child

LEMMA ExitsKeepsInv ==
  ASSUME ProcessInv, NEW p \in Pid, proc[p].st \in Living, Exits(p)
  PROVE  ProcessInv'
<1>. DEFINE c == [proc[p] EXCEPT !.st = "zombie", !.buf = 0]
<1>1. proc[p] \in Child
  BY DEF ProcessInv, PTypeOK, Child
<1>2. c \in Child /\ c.link = proc[p].link /\ c.st = "zombie"
  <2>1. 0 \in 0..ChildBuf
    OBVIOUS
  <2>. QED
    BY <1>1, <2>1 DEF Child, Stage
<1>3. proc' = [proc EXCEPT ![p] = c]
  BY DEF Exits
<1>. HIDE DEF c
<1>4. /\ proc' \in [Pid -> Child]
      /\ \A q \in Pid : proc'[q].link = proc[q].link
                        /\ (proc'[q].st = "free" <=> proc[q].st = "free")
  BY <1>2, <1>3, ChildBecomes DEF Living
<1>5. /\ holds' \in Holds
      /\ \A l \in Link, e \in End : Parent \in holds'[l][e] <=> Parent \in holds[l][e]
  BY Typed, ReleasedEffect DEF Exits
<1>6. older' \in [Pid -> SUBSET Pid]
  BY DEF Exits, ProcessInv, PTypeOK
<1>7. PTypeOK'
  BY <1>4, <1>5, <1>6 DEF Exits, ProcessInv, PTypeOK, Holds, Child
<1>. QED
  BY <1>4, <1>5, <1>7, OutsideParent DEF Exits

LEMMA ChildCloseKeepsInv ==
  ASSUME ProcessInv, NEW p \in Pid, ChildClose(p) \/ Exec(p)
  PROVE  ProcessInv'
<1>1. PICK st \in {"closed", "running"} : proc' = [proc EXCEPT ![p] = [proc[p] EXCEPT !.st = st]]
  BY DEF ChildClose, Exec
<1>. DEFINE c == [proc[p] EXCEPT !.st = st]
<1>2. proc[p] \in Child
  BY DEF ProcessInv, PTypeOK, Child
<1>3. c \in Child /\ c.link = proc[p].link /\ c.st = st
  BY <1>2 DEF Child, Stage
<1>4. proc' = [proc EXCEPT ![p] = c]
  BY <1>1
<1>. HIDE DEF c
<1>5. /\ proc' \in [Pid -> Child]
      /\ \A q \in Pid : proc'[q].link = proc[q].link
                        /\ (proc'[q].st = "free" <=> proc[q].st = "free")
  BY <1>3, <1>4, ChildBecomes DEF ChildClose, Exec
<1>6. /\ holds' \in Holds
      /\ \A l \in Link, e \in End : Parent \in holds'[l][e] <=> Parent \in holds[l][e]
  BY Typed, WithoutEffect DEF ChildClose, Exec
<1>7. UNCHANGED <<obj, level, call, older, dropped>>
  BY DEF ChildClose, Exec
<1>8. PTypeOK'
  BY <1>5, <1>6, <1>7 DEF ProcessInv, PTypeOK, Holds, Child
<1>. QED
  BY <1>5, <1>6, <1>7, <1>8, OutsideParent

\* One unit more or less in a pipe.
Levels == [Link -> [{"up", "down"} -> 0..PipeCap]]

LEMMA LevelMoves ==
  ASSUME ProcessInv, NEW l \in Link, NEW d \in {"up", "down"},
         \/ level[l][d] > 0 /\ level' = [level EXCEPT ![l][d] = @ - 1]
         \/ level[l][d] < PipeCap /\ level' = [level EXCEPT ![l][d] = @ + 1]
  PROVE  level' \in Levels
<1>1. level \in Levels
  BY DEF ProcessInv, PTypeOK, Levels
<1>2. level[l][d] \in 0..PipeCap /\ level[l] \in [{"up", "down"} -> 0..PipeCap]
  BY <1>1 DEF Levels
<1>3. level[l][d] > 0 => level[l][d] - 1 \in 0..PipeCap
  BY <1>2
<1>4. level[l][d] < PipeCap => level[l][d] + 1 \in 0..PipeCap
  BY <1>2
<1>5. ASSUME NEW n \in 0..PipeCap, level' = [level EXCEPT ![l][d] = n]
      PROVE  level' \in Levels
  BY <1>1, <1>5 DEF Levels
<1>. QED
  BY <1>3, <1>4, <1>5

LEMMA ChildMovesKeepsInv ==
  ASSUME ProcessInv, NEW p \in Pid, ChildReads(p) \/ ChildWrites(p)
  PROVE  ProcessInv'
<1>1. proc[p] \in Child /\ proc[p].st = "running" /\ proc[p].link \in Link
  BY DEF ProcessInv, PTypeOK, Child, Holders, ChildReads, ChildWrites
<1>2. level' \in Levels
  BY <1>1, LevelMoves DEF ChildReads, ChildWrites
<1>3. PICK n \in 0..ChildBuf : proc' = [proc EXCEPT ![p] = [proc[p] EXCEPT !.buf = n]]
  <2>1. proc[p].buf \in 0..ChildBuf
    BY <1>1 DEF Child
  <2>2. CASE ChildReads(p)
    <3>1. proc[p].buf + 1 \in 0..ChildBuf
      BY <2>1, <2>2 DEF ChildReads
    <3>. QED
      BY <2>2, <3>1 DEF ChildReads
  <2>3. CASE ChildWrites(p)
    <3>1. proc[p].buf - 1 \in 0..ChildBuf
      BY <2>1, <2>3 DEF ChildWrites
    <3>. QED
      BY <2>3, <3>1 DEF ChildWrites
  <2>. QED
    BY <2>2, <2>3
<1>. DEFINE c == [proc[p] EXCEPT !.buf = n]
<1>4. c \in Child /\ c.link = proc[p].link /\ c.st = "running"
  BY <1>1 DEF Child
<1>5. proc' = [proc EXCEPT ![p] = c]
  BY <1>3
<1>. HIDE DEF c
<1>6. /\ proc' \in [Pid -> Child]
      /\ \A q \in Pid : proc'[q].link = proc[q].link
                        /\ (proc'[q].st = "free" <=> proc[q].st = "free")
  BY <1>1, <1>4, <1>5, ChildBecomes
<1>7. UNCHANGED <<obj, holds, call, older, dropped>>
  BY DEF ChildReads, ChildWrites
<1>8. PTypeOK'
  BY <1>2, <1>6, <1>7 DEF ProcessInv, PTypeOK, Child, Levels
<1>. QED
  BY <1>6, <1>7, <1>8, OutsideParent

LEMMA ChildrenKeepInv ==
  ASSUME ProcessInv,
         \/ \E p \in Pid : ChildGoesOn(p) \/ ChildQuits(p)
         \/ \E o \in Obj : Kill(o)
  PROVE  ProcessInv'
<1>1. ASSUME NEW p \in Pid, ChildGoesOn(p) \/ ChildQuits(p) PROVE ProcessInv'
  BY <1>1, ExitsKeepsInv, ChildCloseKeepsInv, ChildMovesKeepsInv
  DEF ChildGoesOn, ChildQuits, ChildEnds, ExecFails, Living
<1>2. ASSUME NEW o \in Obj, Kill(o) PROVE ProcessInv'
  <2>1. obj[o].pid \in Pid
    BY <1>2, Typed DEF Kill, Object
  <2>. QED
    BY <1>2, <2>1, ExitsKeepsInv DEF Kill
<1>. QED
  BY <1>1, <1>2

-----------------------------------------------------------------------------
(* Calls on one object. *)

\* Object o becomes r, outside the constructor: it may give up ends, which the
\* parent closes, and its pid, which is then reaped or dropped.
LEMMA ObjectBecomes ==
  ASSUME ProcessInv, NEW o \in Obj, NEW r \in Object, obj' = [obj EXCEPT ![o] = r],
         r.in \in {None, obj[o].in}, r.out \in {None, obj[o].out}, r.pid \in {None, obj[o].pid},
         ~r.live => r = Gone,
         call.link = None, call'.link = None, call.op # "killed",
         PTypeOK', CallOK',
         \A l \in Link :
           /\ Parent \in holds'[l]["pin"] <=>
                Parent \in holds[l]["pin"] /\ ~(l = obj[o].in /\ r.in = None)
           /\ Parent \in holds'[l]["pout"] <=>
                Parent \in holds[l]["pout"] /\ ~(l = obj[o].out /\ r.out = None)
           /\ Parent \in holds'[l]["cin"] => Parent \in holds[l]["cin"]
           /\ Parent \in holds'[l]["cout"] => Parent \in holds[l]["cout"],
         \A p \in Pid : proc'[p] = proc[p] \/ (p = obj[o].pid /\ r.pid = None /\ proc'[p] = NoChild),
         obj[o].pid \in Pid /\ r.pid = None =>
           obj[o].pid \in dropped' \/ proc'[obj[o].pid].st = "free",
         dropped \subseteq dropped'
  PROVE  ProcessInv'
<1>1. \A q \in Obj : obj'[q] = IF q = o THEN r ELSE obj[q]
  BY DEF ProcessInv, PTypeOK
<1>2. Holders'
  BY <1>1 DEF ProcessInv, Holders, NoChild
<1>3. DescriptorsOwned'
  <2>1. \A l \in Link : l # None
    OBVIOUS
  <2>2. \A x, y \in Obj : x # y => /\ obj[x].in = obj[y].in => obj[x].in = None
                                   /\ obj[x].out = obj[y].out => obj[x].out = None
    BY DEF ProcessInv, DescriptorsOwned
  <2>3. \A x, y \in Obj : x # y => /\ obj'[x].in = obj'[y].in => obj'[x].in = None
                                   /\ obj'[x].out = obj'[y].out => obj'[x].out = None
    BY <1>1, <2>2
  <2>4. ASSUME NEW l \in Link
        PROVE  /\ Parent \in holds'[l]["pin"] <=> \E q \in Obj : obj'[q].in = l
               /\ Parent \in holds'[l]["pout"] <=> \E q \in Obj : obj'[q].out = l
               /\ Parent \notin holds'[l]["cin"] \cup holds'[l]["cout"]
    <3>1. /\ Parent \in holds[l]["pin"] <=> \E q \in Obj : obj[q].in = l
          /\ Parent \in holds[l]["pout"] <=> \E q \in Obj : obj[q].out = l
          /\ Parent \notin holds[l]["cin"] \cup holds[l]["cout"]
      BY <2>1 DEF ProcessInv, DescriptorsOwned
    <3>2. (\E q \in Obj : obj'[q].in = l) <=>
            (\E q \in Obj : obj[q].in = l) /\ ~(l = obj[o].in /\ r.in = None)
      BY <1>1, <2>1, <2>2
    <3>3. (\E q \in Obj : obj'[q].out = l) <=>
            (\E q \in Obj : obj[q].out = l) /\ ~(l = obj[o].out /\ r.out = None)
      BY <1>1, <2>1, <2>2
    <3>. QED
      BY <3>1, <3>2, <3>3
  <2>. QED
    BY <2>3, <2>4 DEF DescriptorsOwned
<1>4. PidsOwned'
  <2>. SUFFICES ASSUME NEW q \in Obj, obj'[q].pid # None
                PROVE  /\ proc'[obj'[q].pid].st # "free"
                       /\ \A x \in Obj \ {q} : obj'[x].pid # obj'[q].pid
                       /\ {obj'[q].in, obj'[q].out} \subseteq {None, proc'[obj'[q].pid].link}
    BY DEF PidsOwned
  <2>1. obj'[q].pid = obj[q].pid /\ obj[q].pid \in Pid
    BY <1>1, Typed DEF Object
  <2>2. /\ proc[obj[q].pid].st # "free"
        /\ \A x \in Obj \ {q} : obj[x].pid # obj[q].pid
        /\ {obj[q].in, obj[q].out} \subseteq {None, proc[obj[q].pid].link}
    BY <2>1 DEF ProcessInv, PidsOwned
  <2>3. proc'[obj[q].pid] = proc[obj[q].pid]
    BY <1>1, <2>1, <2>2
  <2>. QED
    BY <1>1, <2>1, <2>2, <2>3
<1>5. ChildrenHandled'
  <2>. SUFFICES ASSUME NEW p \in Pid, proc'[p].st # "free"
                PROVE  p \in dropped' \/ \E q \in Obj : obj'[q].pid = p
    BY DEF ChildrenHandled
  <2>1. proc[p].st # "free"
    BY DEF NoChild
  <2>2. p \in dropped \/ \E q \in Obj : obj[q].pid = p
    BY <2>1 DEF ProcessInv, ChildrenHandled, InCall
  <2>. QED
    BY <1>1, <2>2
<1>. QED
  BY <1>2, <1>3, <1>4, <1>5 DEF ProcessInv

\* The parent's calls begin, go on and end without touching an object.
LEMMA NoCallType == NoCall.op = "none" /\ NoCall.obj = None /\ NoCall.link = None /\ NoCall.left = 0
BY DEF NoCall

Call == [op : {"none", "pipes", "ctor", "write", "read", "join", "destroy", "killed"},
         obj : Obj \cup {None}, link : Link \cup {None}, left : 0..MaxLen]

LEMMA CallMakers ==
  /\ NoCall \in Call
  /\ \A op \in {"write", "read", "join", "destroy", "killed"}, o \in Obj, n \in 0..MaxLen :
       /\ Blocked(op, o, n) \in Call
       /\ Blocked(op, o, n).op = op /\ Blocked(op, o, n).obj = o
       /\ Blocked(op, o, n).link = None /\ Blocked(op, o, n).left = n
<1>1. 0 \in 0..MaxLen
  OBVIOUS
<1>2. NoCall \in Call
  BY <1>1 DEF NoCall, Call
<1>3. ASSUME NEW op \in {"write", "read", "join", "destroy", "killed"}, NEW o \in Obj,
             NEW n \in 0..MaxLen
      PROVE  /\ Blocked(op, o, n) \in Call
             /\ Blocked(op, o, n).op = op /\ Blocked(op, o, n).obj = o
             /\ Blocked(op, o, n).link = None /\ Blocked(op, o, n).left = n
  BY <1>2, NoCallType DEF Blocked, Call
<1>. QED
  BY <1>2, <1>3

\* Only the call and the pipes' contents change.
LEMMA CallOnly ==
  ASSUME ProcessInv, UNCHANGED <<obj, proc, holds, older, dropped>>, level' \in Levels,
         call.link = None, call.op # "killed", call' \in Call, call'.link = None, CallOK'
  PROVE  ProcessInv'
<1>1. PTypeOK'
  BY DEF ProcessInv, PTypeOK, Levels, Call
<1>2. DescriptorsOwned' /\ PidsOwned' /\ Holders' /\ ChildrenHandled'
  BY DEF ProcessInv, DescriptorsOwned, PidsOwned, Holders, ChildrenHandled, InCall
<1>. QED
  BY <1>1, <1>2 DEF ProcessInv

LEMMA StartsKeepsInv ==
  ASSUME ProcessInv, NEW o \in Obj,
         \/ Join(o)
         \/ \E n \in 1..MaxLen : WriteExact(o, n) \/ ReadExact(o, n)
  PROVE  ProcessInv'
<1>1. PICK op \in {"join", "write", "read"}, n \in 0..MaxLen :
        /\ Starts(op, o, n)
        /\ op = "join" => obj[o].pid # None
        /\ op = "write" => obj[o].out # None /\ n # 0
        /\ op = "read" => obj[o].in # None /\ n # 0
  <2>1. CASE Join(o)
    <3>1. 0 \in 0..MaxLen
      OBVIOUS
    <3>. QED
      BY <2>1, <3>1 DEF Join
  <2>2. ASSUME NEW n \in 1..MaxLen, WriteExact(o, n) \/ ReadExact(o, n)
        PROVE  /\ n \in 0..MaxLen /\ n # 0
               /\ \/ Starts("write", o, n) /\ obj[o].out # None
                  \/ Starts("read", o, n) /\ obj[o].in # None
    BY <2>2 DEF WriteExact, ReadExact
  <2>. QED
    BY <2>1, <2>2
<1>. DEFINE b == Blocked(op, o, n)
<1>2. /\ call = NoCall /\ obj[o].live /\ call' = b
      /\ UNCHANGED <<obj, proc, holds, level, older, dropped>>
  BY <1>1 DEF Starts, Idle, kernel
<1>3. b \in Call /\ b.op = op /\ b.obj = o /\ b.link = None /\ b.left = n
  BY CallMakers
<1>. HIDE DEF b
<1>4. CallOK'
  BY <1>1, <1>2, <1>3 DEF CallOK
<1>5. level' \in Levels
  BY <1>2 DEF ProcessInv, PTypeOK, Levels
<1>. QED
  BY <1>2, <1>3, <1>4, <1>5, NoCallType, CallOnly

LEMMA TransferKeepsInv ==
  ASSUME ProcessInv, Writes \/ Reads \/ ReadsEnd
  PROVE  ProcessInv'
<1>1. /\ call.op \in {"write", "read"} /\ call.link = None /\ call.obj \in Obj
      /\ call \in Call /\ call.left \in 1..MaxLen
  <2>1. call.op \in {"write", "read"} /\ call \in Call
    BY DEF Writes, Reads, ReadsEnd, InCall, ProcessInv, PTypeOK, Call
  <2>2. call.left \in 0..MaxLen /\ call.left # 0
    BY <2>1 DEF Call, ProcessInv, CallOK
  <2>3. call.left \in 1..MaxLen
    BY <2>2
  <2>. QED
    BY <2>1, <2>3 DEF ProcessInv, CallOK
<1>2. UNCHANGED <<obj, proc, holds, older, dropped>>
  BY DEF Writes, Reads, ReadsEnd, kernel
<1>3. level' \in Levels
  <2>1. CASE Writes
    <3>1. obj[call.obj].out \in Link
      BY <1>1, <2>1, Typed DEF ProcessInv, CallOK, Writes, InCall, Object
    <3>. QED
      BY <2>1, <3>1, LevelMoves DEF Writes
  <2>2. CASE Reads
    <3>1. obj[call.obj].in \in Link
      BY <1>1, <2>2, Typed DEF ProcessInv, CallOK, Reads, InCall, Object
    <3>. QED
      BY <2>2, <3>1, LevelMoves DEF Reads
  <2>3. CASE ReadsEnd
    BY <2>3 DEF ReadsEnd, kernel, ProcessInv, PTypeOK, Levels
  <2>. QED
    BY <2>1, <2>2, <2>3
<1>4. call' \in Call /\ call'.link = None /\ CallOK'
  <2>1. CASE call' = NoCall
    BY <1>2, <2>1, CallMakers, NoCallType DEF CallOK
  <2>2. CASE call.left # 1 /\ call' = [call EXCEPT !.left = call.left - 1]
    <3>1. call.left - 1 \in 0..MaxLen /\ call.left - 1 # 0
      BY <1>1, <2>2
    <3>2. /\ call' \in Call /\ call'.op = call.op /\ call'.obj = call.obj /\ call'.link = None
          /\ call'.left = call.left - 1
      BY <1>1, <2>2, <3>1 DEF Call
    <3>. QED
      BY <1>1, <1>2, <3>1, <3>2 DEF ProcessInv, CallOK
  <2>. QED
    BY <2>1, <2>2 DEF Writes, Reads, ReadsEnd, Moved
<1>. QED
  BY <1>1, <1>2, <1>3, <1>4, CallOnly

LEMMA IdleFacts ==
  ASSUME ProcessInv, Idle
  PROVE  call.link = None /\ call.op = "none" /\ call \in Call
BY NoCallType DEF Idle, ProcessInv, PTypeOK, Call

LEMMA CloseStdinKeepsInv ==
  ASSUME ProcessInv, NEW o \in Obj, CloseStdin(o)
  PROVE  ProcessInv'
<1>. DEFINE r == [obj[o] EXCEPT !.out = None]
<1>1. obj[o] \in Object /\ obj[o].live /\ Idle
  BY Typed DEF CloseStdin
<1>2. r \in Object /\ r.live /\ r.in = obj[o].in /\ r.out = None /\ r.pid = obj[o].pid
  BY <1>1 DEF Object
<1>3. obj' = [obj EXCEPT ![o] = r]
  BY DEF CloseStdin
<1>. HIDE DEF r
<1>4. UNCHANGED <<proc, level, call, older, dropped>>
  BY DEF CloseStdin
<1>5. /\ holds' \in Holds
      /\ \A l \in Link, e \in End :
           Parent \in holds'[l][e] <=> Parent \in holds[l][e] /\ ~(l = obj[o].out /\ e \in {"pout"})
  BY Typed, WithoutEffect DEF CloseStdin
<1>6. PTypeOK'
  BY <1>2, <1>3, <1>4, <1>5 DEF ProcessInv, PTypeOK, Holds
<1>7. CallOK'
  BY <1>1, <1>4, IdleFacts DEF CallOK
<1>8. \A l \in Link :
        /\ Parent \in holds'[l]["pin"] <=>
             Parent \in holds[l]["pin"] /\ ~(l = obj[o].in /\ r.in = None)
        /\ Parent \in holds'[l]["pout"] <=>
             Parent \in holds[l]["pout"] /\ ~(l = obj[o].out /\ r.out = None)
        /\ Parent \in holds'[l]["cin"] => Parent \in holds[l]["cin"]
        /\ Parent \in holds'[l]["cout"] => Parent \in holds[l]["cout"]
  BY <1>2, <1>5 DEF End
<1>. QED
  BY <1>1, <1>2, <1>3, <1>4, <1>6, <1>7, <1>8, IdleFacts, ObjectBecomes

\* close(), in a call of its own or in the destructor: the ends that the object
\* held are closed and it holds none.
LEMMA ClosesEnds ==
  ASSUME ProcessInv, NEW o \in Obj, holds' = Closed(holds, o)
  PROVE  /\ holds' \in Holds
         /\ \A l \in Link :
              /\ Parent \in holds'[l]["pin"] <=> Parent \in holds[l]["pin"] /\ l # obj[o].in
              /\ Parent \in holds'[l]["pout"] <=> Parent \in holds[l]["pout"] /\ l # obj[o].out
              /\ Parent \in holds'[l]["cin"] <=> Parent \in holds[l]["cin"]
              /\ Parent \in holds'[l]["cout"] <=> Parent \in holds[l]["cout"]
<1>1. /\ holds' \in Holds
      /\ \A l \in Link, e \in End :
           Parent \in holds'[l][e] <=>
             /\ Parent \in holds[l][e]
             /\ ~(l = obj[o].in /\ e = "pin")
             /\ ~(l = obj[o].out /\ e = "pout")
  BY Typed, ClosedEffect
<1>. QED
  BY <1>1 DEF End

LEMMA CloseKeepsInv ==
  ASSUME ProcessInv, NEW o \in Obj, Close(o) \/ Destroy(o)
  PROVE  ProcessInv'
<1>1. /\ obj[o] \in Object /\ obj[o].live /\ Idle /\ holds' = Closed(holds, o)
      /\ UNCHANGED <<proc, level, older, dropped>>
  BY Typed DEF Close, Destroy
<1>. DEFINE b == Blocked("destroy", o, 0)
<1>2. b \in Call /\ b.op = "destroy" /\ b.obj = o /\ b.link = None
  <2>1. 0 \in 0..MaxLen
    OBVIOUS
  <2>. QED
    BY <2>1, CallMakers
<1>3. PICK r \in Object :
        /\ obj' = [obj EXCEPT ![o] = r]
        /\ r.in = None /\ r.out = None /\ r.pid = obj[o].pid
        /\ ~r.live => r = Gone
        /\ \/ UNCHANGED call
           \/ call' = b /\ r.pid # None
  <2>. DEFINE c == [obj[o] EXCEPT !.in = None, !.out = None]
  <2>1. c \in Object /\ c.live /\ c.in = None /\ c.out = None /\ c.pid = obj[o].pid
    BY <1>1 DEF Object
  <2>2. Gone \in Object /\ Gone.in = None /\ Gone.out = None /\ Gone.pid = None
    BY DEF Gone, Object
  <2>3. \/ obj' = [obj EXCEPT ![o] = c] /\ UNCHANGED call
        \/ obj' = [obj EXCEPT ![o] = c] /\ call' = b /\ obj[o].pid # None
        \/ obj' = [obj EXCEPT ![o] = Gone] /\ UNCHANGED call /\ obj[o].pid = None
    BY DEF Close, Destroy
  <2>. HIDE DEF c
  <2>. QED
    BY <2>1, <2>2, <2>3
<1>. HIDE DEF b
<1>4. /\ holds' \in Holds
      /\ \A l \in Link :
           /\ Parent \in holds'[l]["pin"] <=> Parent \in holds[l]["pin"] /\ l # obj[o].in
           /\ Parent \in holds'[l]["pout"] <=> Parent \in holds[l]["pout"] /\ l # obj[o].out
           /\ Parent \in holds'[l]["cin"] <=> Parent \in holds[l]["cin"]
           /\ Parent \in holds'[l]["cout"] <=> Parent \in holds[l]["cout"]
  BY <1>1, ClosesEnds
<1>5. call' \in Call /\ call'.link = None
  BY <1>1, <1>2, <1>3, IdleFacts
<1>6. PTypeOK'
  BY <1>1, <1>3, <1>4, <1>5 DEF ProcessInv, PTypeOK, Holds, Call
<1>7. obj'[o] = r
  BY <1>3 DEF ProcessInv, PTypeOK
<1>8. CallOK'
  BY <1>1, <1>2, <1>3, <1>7, IdleFacts DEF CallOK
<1>9. /\ r.in \in {None, obj[o].in} /\ r.out \in {None, obj[o].out} /\ r.pid \in {None, obj[o].pid}
      /\ obj[o].pid \in Pid /\ r.pid = None => FALSE
      /\ \A p \in Pid : proc'[p] = proc[p]
      /\ call.link = None /\ call.op # "killed" /\ dropped \subseteq dropped'
  BY <1>1, <1>3, IdleFacts
<1>10. \A l \in Link :
        /\ Parent \in holds'[l]["pin"] <=>
             Parent \in holds[l]["pin"] /\ ~(l = obj[o].in /\ r.in = None)
        /\ Parent \in holds'[l]["pout"] <=>
             Parent \in holds[l]["pout"] /\ ~(l = obj[o].out /\ r.out = None)
        /\ Parent \in holds'[l]["cin"] => Parent \in holds[l]["cin"]
        /\ Parent \in holds'[l]["cout"] => Parent \in holds[l]["cout"]
  BY <1>3, <1>4
<1>11. obj' = [obj EXCEPT ![o] = r] /\ (~r.live => r = Gone) /\ r \in Object
  BY <1>1, <1>2, <1>3
<1>12. call'.link = None
  BY <1>5
<1>. QED
  BY <1>6, <1>8, <1>9, <1>10, <1>11, <1>12, ObjectBecomes

\* waitpid() comes back: join() forgets the pid of a child that was reaped, the
\* destructor ends in any case.
LEMMA WaitKeepsInv ==
  ASSUME ProcessInv, Reaps \/ WaitInterrupted
  PROVE  ProcessInv'
<1>. DEFINE o == call.obj
            p == obj[o].pid
<1>1. /\ call.op \in {"join", "destroy"} /\ o \in Obj /\ p \in Pid /\ call.link = None
      /\ obj[o] \in Object
      /\ call.op = "destroy" => obj[o].in = None /\ obj[o].out = None
  <2>1. call.op \in {"join", "destroy"}
    BY DEF Reaps, WaitInterrupted, Waiting, InCall
  <2>2. o \in Obj /\ p # None
    BY <2>1 DEF ProcessInv, CallOK
  <2>. QED
    BY <2>1, <2>2, Typed DEF ProcessInv, CallOK, Object
<1>2. call' = NoCall /\ UNCHANGED <<level, older>>
  BY DEF Reaps, WaitInterrupted
<1>3. /\ holds' \in Holds
      /\ \A l \in Link, e \in End : Parent \in holds'[l][e] <=> Parent \in holds[l][e]
  <2>1. EndDestructor
    BY DEF Reaps, WaitInterrupted
  <2>2. CASE call.op = "destroy"
    <3>1. holds' = Closed(holds, o)
      BY <2>1, <2>2 DEF EndDestructor, InCall
    <3>. QED
      BY <1>1, <2>2, <3>1, ClosedEffect, Typed
  <2>3. CASE call.op = "join"
    BY <2>1, <2>3, Typed DEF EndDestructor, InCall
  <2>. QED
    BY <1>1, <2>2, <2>3
<1>4. Gone \in Object /\ Gone.in = None /\ Gone.out = None /\ Gone.pid = None
  BY DEF Gone, Object
<1>5. PICK r \in Object :
        /\ obj' = [obj EXCEPT ![o] = r]
        /\ r.in = obj[o].in /\ r.out = obj[o].out
        /\ ~r.live => r = Gone
        /\ \/ r.pid = p /\ UNCHANGED <<proc, dropped>>
           \/ r.pid = None /\ proc' = [proc EXCEPT ![p] = NoChild] /\ UNCHANGED dropped
           \/ r.pid = None /\ dropped' = dropped \cup {p} /\ UNCHANGED proc
  <2>. DEFINE c == [obj[o] EXCEPT !.pid = None]
  <2>1. c \in Object /\ c.in = obj[o].in /\ c.out = obj[o].out /\ c.live = obj[o].live /\ c.pid = None
    BY <1>1 DEF Object
  <2>2. obj[o].live
    BY <1>1 DEF ProcessInv, Holders, Gone
  <2>3. CASE Reaps
    <3>1. \/ call.op = "destroy" /\ obj' = [obj EXCEPT ![o] = Gone]
          \/ call.op = "join" /\ obj' = [obj EXCEPT ![o] = c]
      BY <1>1, <2>3 DEF Reaps, InCall
    <3>2. proc' = [proc EXCEPT ![p] = NoChild] /\ UNCHANGED dropped
      BY <2>3 DEF Reaps
    <3>. HIDE DEF c
    <3>. QED
      BY <1>1, <1>4, <2>1, <2>2, <3>1, <3>2
  <2>4. CASE WaitInterrupted
    <3>1. \/ call.op = "destroy" /\ obj' = [obj EXCEPT ![o] = Gone] /\ dropped' = dropped \cup {p}
          \/ call.op = "join" /\ UNCHANGED <<obj, dropped>>
      BY <1>1, <2>4 DEF WaitInterrupted, InCall
    <3>2. UNCHANGED proc
      BY <2>4 DEF WaitInterrupted
    <3>3. UNCHANGED obj => obj' = [obj EXCEPT ![o] = obj[o]]
      BY <1>1 DEF ProcessInv, PTypeOK
    <3>. QED
      BY <1>1, <1>4, <2>2, <3>1, <3>2, <3>3
  <2>. QED
    BY <2>3, <2>4
<1>6. proc' \in [Pid -> Child] /\ \A q \in Pid : proc'[q] = proc[q]
        \/ (q = p /\ r.pid = None /\ proc'[q] = NoChild)
  <2>1. 0 \in 0..ChildBuf
    OBVIOUS
  <2>2. NoChild \in Child
    BY <2>1 DEF NoChild, Child, Stage
  <2>3. proc \in [Pid -> Child]
    BY DEF ProcessInv, PTypeOK, Child
  <2>4. UNCHANGED proc \/ (r.pid = None /\ proc' = [proc EXCEPT ![p] = NoChild])
    BY <1>5
  <2>. HIDE DEF p
  <2>. QED
    BY <2>2, <2>3, <2>4
<1>7. dropped \subseteq dropped' /\ dropped' \subseteq Pid
  BY <1>1, <1>5 DEF ProcessInv, PTypeOK
<1>8. PTypeOK'
  BY <1>2, <1>3, <1>5, <1>6, <1>7, CallMakers DEF ProcessInv, PTypeOK, Holds, Call, Child
<1>9. CallOK'
  BY <1>2, NoCallType DEF CallOK
<1>10. r.pid = None => p \in dropped' \/ proc'[p].st = "free"
  BY <1>1, <1>5 DEF NoChild, ProcessInv, PTypeOK
<1>11. \A l \in Link :
        /\ Parent \in holds'[l]["pin"] <=>
             Parent \in holds[l]["pin"] /\ ~(l = obj[o].in /\ r.in = None)
        /\ Parent \in holds'[l]["pout"] <=>
             Parent \in holds[l]["pout"] /\ ~(l = obj[o].out /\ r.out = None)
        /\ Parent \in holds'[l]["cin"] => Parent \in holds[l]["cin"]
        /\ Parent \in holds'[l]["cout"] => Parent \in holds[l]["cout"]
  BY <1>3, <1>5 DEF End
<1>12. r.pid \in {None, p} /\ call'.link = None /\ call.op # "killed"
  BY <1>1, <1>2, <1>5, NoCallType
<1>13. /\ obj' = [obj EXCEPT ![o] = r]
       /\ r.in \in {None, obj[o].in} /\ r.out \in {None, obj[o].out} /\ r.pid \in {None, obj[o].pid}
       /\ ~r.live => r = Gone
  BY <1>5, <1>12
<1>14. /\ \A q \in Pid :
            proc'[q] = proc[q] \/ (q = obj[o].pid /\ r.pid = None /\ proc'[q] = NoChild)
       /\ obj[o].pid \in Pid /\ r.pid = None =>
            obj[o].pid \in dropped' \/ proc'[obj[o].pid].st = "free"
       /\ dropped \subseteq dropped'
  BY <1>6, <1>7, <1>10
<1>15. o \in Obj /\ call.link = None /\ call'.link = None /\ call.op # "killed"
  BY <1>1, <1>12
<1>. HIDE DEF o, p
<1>. QED
  BY <1>8, <1>9, <1>11, <1>13, <1>14, <1>15, ObjectBecomes

-----------------------------------------------------------------------------
(* Moves. *)

LEMMA MovedEffect ==
  ASSUME ProcessInv, NEW o \in Obj, NEW other \in Obj, o # other,
         obj' = [obj EXCEPT ![o] = obj[other], ![other] = MovedFrom]
  PROVE  /\ obj' \in [Obj -> Object] /\ obj'[o] = obj[other] /\ obj'[other] = MovedFrom
         /\ \A q \in Obj \ {o, other} : obj'[q] = obj[q]
<1>1. MovedFrom \in Object
  BY DEF MovedFrom, Gone, Object
<1>. QED
  BY <1>1 DEF ProcessInv, PTypeOK

\* Object o gets what other had, and gives up what it had itself.
LEMMA ObjectMoves ==
  ASSUME ProcessInv, NEW o \in Obj, NEW other \in Obj, o # other, Idle, obj[other].live,
         obj' \in [Obj -> Object], obj'[o] = obj[other], obj'[other] = MovedFrom,
         \A q \in Obj \ {o, other} : obj'[q] = obj[q],
         UNCHANGED <<proc, level, call, older>>,
         dropped' = dropped \cup ({obj[o].pid} \cap Pid),
         holds' \in Holds,
         \A l \in Link :
           /\ Parent \in holds'[l]["pin"] <=> Parent \in holds[l]["pin"] /\ l # obj[o].in
           /\ Parent \in holds'[l]["pout"] <=> Parent \in holds[l]["pout"] /\ l # obj[o].out
           /\ Parent \in holds'[l]["cin"] <=> Parent \in holds[l]["cin"]
           /\ Parent \in holds'[l]["cout"] <=> Parent \in holds[l]["cout"]
  PROVE  ProcessInv'
<1>1. /\ MovedFrom \in Object /\ MovedFrom.live
      /\ MovedFrom.in = None /\ MovedFrom.out = None /\ MovedFrom.pid = None
  BY DEF MovedFrom, Gone, Object
<1>2. /\ obj'[other].in = None /\ obj'[other].out = None /\ obj'[other].pid = None
      /\ obj'[o] = obj[other] /\ obj'[other].live
      /\ \A q \in Obj : q # o /\ q # other => obj'[q] = obj[q]
  BY <1>1
<1>3. PTypeOK'
  BY DEF ProcessInv, PTypeOK, Holds
<1>4. CallOK' /\ call.link = None /\ call.op = "none"
  BY IdleFacts DEF CallOK
<1>5. Holders'
  BY <1>1, <1>2 DEF ProcessInv, Holders
<1>6. DescriptorsOwned'
  <2>1. \A x, y \in Obj : x # y => /\ obj[x].in = obj[y].in => obj[x].in = None
                                   /\ obj[x].out = obj[y].out => obj[x].out = None
    BY DEF ProcessInv, DescriptorsOwned
  <2>2. \A x, y \in Obj : x # y => /\ obj'[x].in = obj'[y].in => obj'[x].in = None
                                   /\ obj'[x].out = obj'[y].out => obj'[x].out = None
    BY <1>1, <1>2, <2>1
  <2>3. ASSUME NEW l \in Link
        PROVE  /\ Parent \in holds'[l]["pin"] <=> \E q \in Obj : obj'[q].in = l
               /\ Parent \in holds'[l]["pout"] <=> \E q \in Obj : obj'[q].out = l
               /\ Parent \notin holds'[l]["cin"] \cup holds'[l]["cout"]
    <3>1. /\ Parent \in holds[l]["pin"] <=> \E q \in Obj : obj[q].in = l
          /\ Parent \in holds[l]["pout"] <=> \E q \in Obj : obj[q].out = l
          /\ Parent \notin holds[l]["cin"] \cup holds[l]["cout"]
      BY <1>4 DEF ProcessInv, DescriptorsOwned
    <3>2. (\E q \in Obj : obj'[q].in = l) <=> (\E q \in Obj : obj[q].in = l) /\ l # obj[o].in
      BY <1>1, <1>2, <2>1
    <3>3. (\E q \in Obj : obj'[q].out = l) <=> (\E q \in Obj : obj[q].out = l) /\ l # obj[o].out
      BY <1>1, <1>2, <2>1
    <3>. QED
      BY <3>1, <3>2, <3>3
  <2>. QED
    BY <2>2, <2>3 DEF DescriptorsOwned
<1>7. PidsOwned'
  BY <1>1, <1>2 DEF ProcessInv, PidsOwned
<1>8. ChildrenHandled'
  <2>. SUFFICES ASSUME NEW p \in Pid, proc[p].st # "free"
                PROVE  p \in dropped' \/ \E q \in Obj : obj'[q].pid = p
    BY DEF ChildrenHandled
  <2>1. p \in dropped \/ \E q \in Obj : obj[q].pid = p
    BY <1>4 DEF ProcessInv, ChildrenHandled, InCall
  <2>. QED
    BY <1>2, <2>1
<1>. QED
  BY <1>3, <1>4, <1>5, <1>6, <1>7, <1>8 DEF ProcessInv

LEMMA MoveConstructKeepsInv ==
  ASSUME ProcessInv, NEW o \in Obj, NEW other \in Obj, MoveConstruct(o, other)
  PROVE  ProcessInv'
<1>1. obj[o] = Gone /\ o # other
  BY DEF MoveConstruct, ProcessInv, Holders
<1>2. obj[o].in = None /\ obj[o].out = None /\ obj[o].pid = None
  BY <1>1 DEF Gone
<1>3. UNCHANGED <<proc, level, call, older, holds, dropped>> /\ Idle /\ obj[other].live
  BY DEF MoveConstruct, kernel
<1>4. dropped' = dropped \cup ({obj[o].pid} \cap Pid)
  BY <1>2, <1>3
<1>5. /\ obj' \in [Obj -> Object] /\ obj'[o] = obj[other] /\ obj'[other] = MovedFrom
      /\ \A q \in Obj \ {o, other} : obj'[q] = obj[q]
  BY <1>1, MovedEffect DEF MoveConstruct
<1>. QED
  BY <1>1, <1>2, <1>3, <1>4, <1>5, Typed, ObjectMoves

LEMMA MoveAssignKeepsInv ==
  ASSUME ProcessInv, NEW o \in Obj, NEW other \in Obj, MoveAssign(o, other)
  PROVE  ProcessInv'
<1>1. /\ Idle /\ obj[o].live /\ obj[other].live /\ holds' = Closed(holds, o)
      /\ dropped' = dropped \cup ({obj[o].pid} \cap Pid)
      /\ UNCHANGED <<proc, level, call, older>>
  BY DEF MoveAssign
<1>2. /\ holds' \in Holds
      /\ \A l \in Link :
           /\ Parent \in holds'[l]["pin"] <=> Parent \in holds[l]["pin"] /\ l # obj[o].in
           /\ Parent \in holds'[l]["pout"] <=> Parent \in holds[l]["pout"] /\ l # obj[o].out
           /\ Parent \in holds'[l]["cin"] <=> Parent \in holds[l]["cin"]
           /\ Parent \in holds'[l]["cout"] <=> Parent \in holds[l]["cout"]
  BY <1>1, ClosesEnds
<1>3. CASE o # other
  <2>1. /\ obj' \in [Obj -> Object] /\ obj'[o] = obj[other] /\ obj'[other] = MovedFrom
        /\ \A q \in Obj \ {o, other} : obj'[q] = obj[q]
    BY <1>3, MovedEffect DEF MoveAssign
  <2>. QED
    BY <1>1, <1>2, <1>3, <2>1, ObjectMoves
<1>4. CASE o = other
  <2>. DEFINE r == MovedFrom
  <2>1. r \in Object /\ r.live /\ r.in = None /\ r.out = None /\ r.pid = None
    BY DEF MovedFrom, Gone, Object
  <2>2. obj' = [obj EXCEPT ![o] = r]
    BY <1>4 DEF MoveAssign
  <2>. HIDE DEF r
  <2>3. dropped \subseteq dropped' /\ dropped' \subseteq Pid /\ (obj[o].pid \in Pid => obj[o].pid \in dropped')
    BY <1>1 DEF ProcessInv, PTypeOK
  <2>4. PTypeOK'
    BY <1>1, <1>2, <2>1, <2>2, <2>3 DEF ProcessInv, PTypeOK, Holds
  <2>5. CallOK' /\ call.link = None /\ call.op # "killed" /\ call'.link = None
    BY <1>1, IdleFacts DEF CallOK
  <2>6. /\ \A p \in Pid : proc'[p] = proc[p]
        /\ r.in \in {None, obj[o].in} /\ r.out \in {None, obj[o].out}
        /\ r.pid \in {None, obj[o].pid}
    BY <1>1, <2>1
  <2>7. \A l \in Link :
          /\ Parent \in holds'[l]["pin"] <=>
               Parent \in holds[l]["pin"] /\ ~(l = obj[o].in /\ r.in = None)
          /\ Parent \in holds'[l]["pout"] <=>
               Parent \in holds[l]["pout"] /\ ~(l = obj[o].out /\ r.out = None)
          /\ Parent \in holds'[l]["cin"] => Parent \in holds[l]["cin"]
          /\ Parent \in holds'[l]["cout"] => Parent \in holds[l]["cout"]
    BY <1>2, <2>1
  <2>8. /\ \A p \in Pid : proc'[p] = proc[p] \/ (p = obj[o].pid /\ r.pid = None /\ proc'[p] = NoChild)
        /\ obj[o].pid \in Pid /\ r.pid = None =>
             obj[o].pid \in dropped' \/ proc'[obj[o].pid].st = "free"
        /\ ~r.live => r = Gone
    BY <2>1, <2>3, <2>6
  <2>9. ProcessInv /\ o \in Obj /\ r \in Object /\ dropped \subseteq dropped'
    BY <2>1, <2>3
  <2>. QED
    BY <2>2, <2>4, <2>5, <2>6, <2>7, <2>8, <2>9, ObjectBecomes, Zenon
<1>. QED
  BY <1>3, <1>4

-----------------------------------------------------------------------------
(* The end of the parent, and the constructor. *)

LEMMA BrokenPipeKeepsInv ==
  ASSUME ProcessInv, BrokenPipe
  PROVE  ProcessInv'
<1>. DEFINE c == [NoCall EXCEPT !.op = "killed"]
<1>1. c \in Call /\ c.op = "killed" /\ c.link = None
  <2>1. NoCall \in Call
    BY CallMakers
  <2>. QED
    BY <2>1, NoCallType DEF Call
<1>2. call' = c /\ obj' = [o \in Obj |-> Gone] /\ UNCHANGED <<proc, level, older, dropped>>
  BY DEF BrokenPipe
<1>. HIDE DEF c
<1>3. /\ holds' \in Holds
      /\ \A l \in Link, e \in End : Parent \notin holds'[l][e]
  BY Typed, ReleasedEffect DEF BrokenPipe
<1>4. Gone \in Object /\ Gone.in = None /\ Gone.out = None /\ Gone.pid = None
  BY DEF Gone, Object
<1>5. PTypeOK'
  BY <1>1, <1>2, <1>3, <1>4 DEF ProcessInv, PTypeOK, Holds, Call
<1>6. CallOK'
  BY <1>1, <1>2 DEF CallOK
<1>7. Holders' /\ PidsOwned'
  BY <1>2, <1>4 DEF ProcessInv, Holders, PidsOwned
<1>8. DescriptorsOwned'
  BY <1>2, <1>3, <1>4 DEF DescriptorsOwned, End
<1>9. ChildrenHandled'
  BY <1>1, <1>2 DEF ChildrenHandled, InCall
<1>. QED
  BY <1>5, <1>6, <1>7, <1>8, <1>9 DEF ProcessInv

LEMMA CreateDuplexPipeKeepsInv ==
  ASSUME ProcessInv, NEW o \in Obj, CreateDuplexPipe(o)
  PROVE  ProcessInv'
<1>. DEFINE l == CHOOSE free \in FreeLinks : TRUE
<1>1. l \in FreeLinks
  BY DEF CreateDuplexPipe
<1>2. l \in Link /\ \A e \in End : holds[l][e] = {}
  BY <1>1 DEF FreeLinks
<1>3. /\ Idle /\ ~obj[o].live
      /\ holds' = [holds EXCEPT ![l] = [e \in End |-> {Parent}]]
      /\ level' = [level EXCEPT ![l] = [d \in {"up", "down"} |-> 0]]
      /\ call' = [op |-> "pipes", obj |-> o, link |-> l, left |-> 0]
      /\ UNCHANGED <<obj, proc, older, dropped>>
  BY DEF CreateDuplexPipe
<1>. HIDE DEF l
<1>4. call' \in Call /\ call'.op = "pipes" /\ call'.obj = o /\ call'.link = l
  <2>1. 0 \in 0..MaxLen
    OBVIOUS
  <2>. QED
    BY <1>2, <1>3, <2>1 DEF Call
<1>5. holds' \in Holds /\ level' \in Levels
  <2>1. 0 \in 0..PipeCap
    OBVIOUS
  <2>. QED
    BY <1>2, <1>3, <2>1, Typed DEF Holds, ProcessInv, PTypeOK, Levels
<1>6. PTypeOK'
  BY <1>3, <1>4, <1>5 DEF ProcessInv, PTypeOK, Holds, Levels, Call
<1>7. call.link = None /\ call.op = "none"
  BY <1>3, IdleFacts
<1>8. \A q \in Obj : l \notin {obj[q].in, obj[q].out}
  BY <1>2, <1>7, Typed DEF ProcessInv, DescriptorsOwned
<1>9. /\ \A e \in End : Parent \in holds'[l][e]
      /\ \A m \in Link : m # l => holds'[m] = holds[m]
  BY <1>2, <1>3, Typed DEF Holds
<1>10. CallOK'
  BY <1>2, <1>3, <1>4, <1>8, <1>9 DEF CallOK
<1>11. DescriptorsOwned'
  BY <1>3, <1>4, <1>7, <1>9 DEF ProcessInv, DescriptorsOwned
<1>12. Holders' /\ PidsOwned' /\ ChildrenHandled'
  BY <1>3, <1>4, <1>7 DEF ProcessInv, Holders, PidsOwned, ChildrenHandled, InCall
<1>. QED
  BY <1>6, <1>10, <1>11, <1>12 DEF ProcessInv

LEMMA ForkFailsKeepsInv ==
  ASSUME ProcessInv, ForkFails \/ EndConstructor
  PROVE  ProcessInv'
<1>1. /\ call.op \in {"pipes", "ctor"} /\ call.link \in Link /\ call.obj \in Obj
      /\ call' = NoCall /\ UNCHANGED <<obj, proc, level, older, dropped>>
  BY DEF ForkFails, EndConstructor, InCall, ProcessInv, CallOK, PTypeOK
<1>. DEFINE l == call.link
<1>2. /\ holds' \in Holds
      /\ \A m \in Link, e \in End : m # l => (Parent \in holds'[m][e] <=> Parent \in holds[m][e])
      /\ Parent \notin holds'[l]["cin"] \cup holds'[l]["cout"]
      /\ call.op = "pipes" => Parent \notin holds'[l]["pin"] \cup holds'[l]["pout"]
      /\ call.op = "ctor" => Parent \in holds'[l]["pin"] /\ Parent \in holds'[l]["pout"]
  <2>1. CASE ForkFails
    <3>1. /\ Without(holds, Parent, l, End) \in Holds
          /\ \A m \in Link, e \in End :
               Parent \in Without(holds, Parent, l, End)[m][e] <=>
                 Parent \in holds[m][e] /\ ~(m = l /\ e \in End)
      BY Typed, WithoutEffect
    <3>. QED
      BY <1>1, <2>1, <3>1, Typed DEF ForkFails, InCall
  <2>2. CASE EndConstructor
    <3>1. /\ Without(holds, Parent, l, {"cin", "cout"}) \in Holds
          /\ \A m \in Link, e \in End :
               Parent \in Without(holds, Parent, l, {"cin", "cout"})[m][e] <=>
                 Parent \in holds[m][e] /\ ~(m = l /\ e \in {"cin", "cout"})
      BY Typed, WithoutEffect
    <3>2. \A e \in End : Parent \in holds[l][e]
      BY <1>1 DEF ProcessInv, CallOK
    <3>. QED
      BY <1>1, <2>2, <3>1, <3>2, Typed DEF EndConstructor, InCall
  <2>. QED
    BY <2>1, <2>2
<1>3. PTypeOK'
  BY <1>1, <1>2, CallMakers DEF ProcessInv, PTypeOK, Holds, Call
<1>4. CallOK'
  BY <1>1, NoCallType DEF CallOK
<1>5. DescriptorsOwned'
  <2>1. \A m \in Link : m # l =>
          /\ Parent \in holds'[m]["pin"] <=> \E q \in Obj : obj[q].in = m
          /\ Parent \in holds'[m]["pout"] <=> \E q \in Obj : obj[q].out = m
          /\ Parent \notin holds'[m]["cin"] \cup holds'[m]["cout"]
    BY <1>2 DEF ProcessInv, DescriptorsOwned, End
  <2>2. /\ Parent \in holds'[l]["pin"] <=> \E q \in Obj : obj[q].in = l
        /\ Parent \in holds'[l]["pout"] <=> \E q \in Obj : obj[q].out = l
    BY <1>1, <1>2 DEF ProcessInv, CallOK
  <2>. QED
    BY <1>1, <1>2, <2>1, <2>2 DEF ProcessInv, DescriptorsOwned
<1>6. Holders' /\ PidsOwned' /\ ChildrenHandled'
  BY <1>1 DEF ProcessInv, Holders, PidsOwned, ChildrenHandled, InCall
<1>. QED
  BY <1>3, <1>4, <1>5, <1>6 DEF ProcessInv

\* The new child holds what the parent holds; the object gets its pid, which no
\* other object has because the kernel had it free.
LEMMA ForkKeepsInv ==
  ASSUME ProcessInv, Fork
  PROVE  ProcessInv'
<1>. DEFINE l == call.link
            o == call.obj
<1>1. /\ call.op = "pipes" /\ l \in Link /\ o \in Obj /\ call \in Call
      /\ UNCHANGED <<level, dropped>> /\ call' = [call EXCEPT !.op = "ctor"]
  BY DEF Fork, InCall, ProcessInv, CallOK, PTypeOK, Call
<1>2. PICK p \in Pid :
        /\ proc[p].st = "free"
        /\ proc' = [proc EXCEPT ![p] = [st |-> "forked", link |-> l, buf |-> 0]]
        /\ holds' = [m \in Link |-> [e \in End |->
             IF Parent \in holds[m][e] THEN holds[m][e] \cup {p} ELSE holds[m][e]]]
        /\ older' = [older EXCEPT ![p] = {q \in Pid : proc[q].st \in Living}]
        /\ obj' = [obj EXCEPT ![o] = [live |-> TRUE, in |-> l, out |-> l, pid |-> p]]
  BY DEF Fork
<1>. DEFINE c == [st |-> "forked", link |-> l, buf |-> 0]
            r == [live |-> TRUE, in |-> l, out |-> l, pid |-> p]
<1>3. c \in Child /\ c.st = "forked" /\ c.link = l
  <2>1. 0 \in 0..ChildBuf
    OBVIOUS
  <2>. QED
    BY <1>1, <2>1 DEF Child, Stage
<1>4. r \in Object /\ r.live /\ r.in = l /\ r.out = l /\ r.pid = p
  BY <1>1 DEF Object
<1>5. proc' = [proc EXCEPT ![p] = c] /\ obj' = [obj EXCEPT ![o] = r]
  BY <1>2
<1>. HIDE DEF c, r
<1>6. /\ call' \in Call /\ call'.op = "ctor" /\ call'.link = l /\ call'.obj = o
  BY <1>1 DEF Call
<1>7. /\ \A q \in Pid : proc'[q] = IF q = p THEN c ELSE proc[q]
      /\ \A q \in Obj : obj'[q] = IF q = o THEN r ELSE obj[q]
  BY <1>5 DEF ProcessInv, PTypeOK
<1>8. /\ holds' \in Holds
      /\ \A m \in Link, e \in End : Parent \in holds'[m][e] <=> Parent \in holds[m][e]
  BY <1>2, Typed DEF Holds
<1>9. PTypeOK'
  <2>1. proc' \in [Pid -> Child]
    BY <1>3, <1>5 DEF ProcessInv, PTypeOK, Child
  <2>2. obj' \in [Obj -> Object]
    BY <1>1, <1>4, <1>5 DEF ProcessInv, PTypeOK
  <2>3. older' \in [Pid -> SUBSET Pid]
    BY <1>2 DEF ProcessInv, PTypeOK
  <2>. QED
    BY <1>1, <1>6, <1>8, <2>1, <2>2, <2>3 DEF ProcessInv, PTypeOK, Child, Holds, Call
<1>10. /\ obj[o] = Gone
       /\ \A q \in Obj : l \notin {obj[q].in, obj[q].out}
       /\ \A e \in End : Parent \in holds[l][e]
  BY <1>1 DEF ProcessInv, CallOK, Holders
<1>11. CallOK'
  BY <1>1, <1>4, <1>6, <1>7, <1>8, <1>10 DEF CallOK
<1>12. Holders'
  BY <1>1, <1>3, <1>4, <1>7 DEF ProcessInv, Holders
<1>13. obj[o].in = None /\ obj[o].out = None /\ obj[o].pid = None
  BY <1>10 DEF Gone
<1>14. DescriptorsOwned'
  <2>1. \A x, y \in Obj : x # y => /\ obj'[x].in = obj'[y].in => obj'[x].in = None
                                   /\ obj'[x].out = obj'[y].out => obj'[x].out = None
    BY <1>4, <1>7, <1>10 DEF ProcessInv, DescriptorsOwned
  <2>2. ASSUME NEW m \in Link, m # l
        PROVE  /\ Parent \in holds'[m]["pin"] <=> \E q \in Obj : obj'[q].in = m
               /\ Parent \in holds'[m]["pout"] <=> \E q \in Obj : obj'[q].out = m
               /\ Parent \notin holds'[m]["cin"] \cup holds'[m]["cout"]
    <3>1. /\ Parent \in holds[m]["pin"] <=> \E q \in Obj : obj[q].in = m
          /\ Parent \in holds[m]["pout"] <=> \E q \in Obj : obj[q].out = m
          /\ Parent \notin holds[m]["cin"] \cup holds[m]["cout"]
      BY <2>2 DEF ProcessInv, DescriptorsOwned
    <3>2. /\ (\E q \in Obj : obj'[q].in = m) <=> (\E q \in Obj : obj[q].in = m)
          /\ (\E q \in Obj : obj'[q].out = m) <=> (\E q \in Obj : obj[q].out = m)
      BY <1>4, <1>7, <1>13, <2>2
    <3>. QED
      BY <1>8, <3>1, <3>2 DEF End
  <2>. QED
    BY <1>6, <2>1, <2>2 DEF DescriptorsOwned
<1>15. \A q \in Obj : obj[q].pid # p
  BY <1>2 DEF ProcessInv, PidsOwned
<1>16. PidsOwned'
  <2>. SUFFICES ASSUME NEW q \in Obj, obj'[q].pid # None
                PROVE  /\ proc'[obj'[q].pid].st # "free"
                       /\ \A x \in Obj \ {q} : obj'[x].pid # obj'[q].pid
                       /\ {obj'[q].in, obj'[q].out} \subseteq {None, proc'[obj'[q].pid].link}
    BY DEF PidsOwned
  <2>1. CASE q = o
    BY <1>1, <1>3, <1>4, <1>7, <1>15, <2>1
  <2>2. CASE q # o
    <3>1. obj'[q] = obj[q] /\ obj[q].pid \in Pid /\ obj[q].pid # p
      BY <1>7, <1>15, <2>2, Typed DEF Object
    <3>. QED
      BY <1>4, <1>7, <2>2, <3>1 DEF ProcessInv, PidsOwned
  <2>. QED
    BY <2>1, <2>2
<1>17. ChildrenHandled'
  <2>. SUFFICES ASSUME NEW q \in Pid, proc'[q].st # "free"
                PROVE  q \in dropped' \/ \E x \in Obj : obj'[x].pid = q
    BY DEF ChildrenHandled
  <2>1. CASE q = p
    BY <1>1, <1>4, <1>7, <2>1
  <2>2. CASE q # p
    <3>1. q \in dropped \/ \E x \in Obj : obj[x].pid = q
      BY <1>1, <1>7, <2>2 DEF ProcessInv, ChildrenHandled, InCall
    <3>. QED
      BY <1>1, <1>7, <1>13, <3>1
  <2>. QED
    BY <2>1, <2>2
<1>. QED
  BY <1>9, <1>11, <1>12, <1>14, <1>16, <1>17 DEF ProcessInv

-----------------------------------------------------------------------------
LEMMA InitInv == Init => ProcessInv
<1>. SUFFICES ASSUME Init PROVE ProcessInv
  OBVIOUS
<1>1. /\ Gone \in Object /\ ~Gone.live
      /\ Gone.in = None /\ Gone.out = None /\ Gone.pid = None
  BY DEF Gone, Object
<1>2. NoChild \in Child /\ NoChild.st = "free"
  <2>1. 0 \in 0..ChildBuf
    OBVIOUS
  <2>. QED
    BY <2>1 DEF NoChild, Child, Stage
<1>3. PTypeOK
  <2>1. 0 \in 0..PipeCap
    OBVIOUS
  <2>2. holds \in Holds /\ level \in Levels
    BY <2>1 DEF Init, Holds, Levels
  <2>3. call \in Call
    BY CallMakers DEF Init
  <2>. QED
    BY <1>1, <1>2, <2>2, <2>3 DEF Init, PTypeOK, Holds, Levels, Call, Child
<1>4. CallOK
  BY NoCallType DEF Init, CallOK
<1>5. Holders /\ PidsOwned
  BY <1>1, <1>2 DEF Init, Holders, PidsOwned
<1>6. DescriptorsOwned
  BY <1>1 DEF Init, DescriptorsOwned, End
<1>7. ChildrenHandled
  BY <1>2 DEF Init, ChildrenHandled
<1>. QED
  BY <1>3, <1>4, <1>5, <1>6, <1>7 DEF ProcessInv

LEMMA NextInv == ProcessInv /\ [Next]_vars => ProcessInv'
<1>. SUFFICES ASSUME ProcessInv, [Next]_vars PROVE ProcessInv'
  OBVIOUS
<1>1. CASE UNCHANGED vars
  <2>. USE <1>1 DEF vars, kernel
  <2>1. PTypeOK'
    BY DEF ProcessInv, PTypeOK
  <2>2. CallOK' /\ Holders'
    BY DEF ProcessInv, CallOK, Holders, InCall
  <2>3. DescriptorsOwned'
    BY DEF ProcessInv, DescriptorsOwned
  <2>4. PidsOwned' /\ ChildrenHandled'
    BY DEF ProcessInv, PidsOwned, ChildrenHandled, InCall
  <2>. QED
    BY <2>1, <2>2, <2>3, <2>4 DEF ProcessInv
<1>2. CASE \E p \in Pid : ChildGoesOn(p) \/ ChildQuits(p)
  BY <1>2, ChildrenKeepInv
<1>3. CASE ParentGoesOn \/ WaitInterrupted
  BY <1>3, ForkKeepsInv, ForkFailsKeepsInv, TransferKeepsInv, BrokenPipeKeepsInv, WaitKeepsInv
  DEF ParentGoesOn
<1>4. ASSUME NEW o \in Obj, ParentCalls(o) PROVE ProcessInv'
  BY <1>4, CreateDuplexPipeKeepsInv, CloseStdinKeepsInv, CloseKeepsInv, StartsKeepsInv,
     ChildrenKeepInv, MoveConstructKeepsInv, MoveAssignKeepsInv
  DEF ParentCalls
<1>. QED
  BY <1>1, <1>2, <1>3, <1>4 DEF Next

LEMMA InvAlways == Spec => []ProcessInv
BY InitInv, NextInv, PTL DEF Spec

\* Pipes never hold more than they can, no call moves more than it was asked to,
\* and the kernel's tables and the objects stay well formed.
THEOREM ChildrenTyped == Spec => []PTypeOK
<1>1. ProcessInv => PTypeOK
  BY DEF ProcessInv
<1>. QED
  BY <1>1, InvAlways, PTL

\* The parent holds exactly the ends that its objects name: nothing leaks from a
\* constructor whose fork() failed, a move or a destructor, and no end is closed
\* twice, however many objects there are and in whatever order they are moved.
THEOREM DescriptorsNotLeaked == Spec => []DescriptorsOwned
<1>1. ProcessInv => DescriptorsOwned
  BY DEF ProcessInv
<1>. QED
  BY <1>1, InvAlways, PTL

\* kill() and join() never reach a process that took over the pid of a child that
\* was waited for: join() gives the pid up in the step that frees it.
THEOREM PidsNeverStale == Spec => []PidsOwned
<1>1. ProcessInv => PidsOwned
  BY DEF ProcessInv
<1>. QED
  BY <1>1, InvAlways, PTL

\* Every child that has not been waited for is in an object, except those whose
\* object was assigned over or whose destructor was interrupted by a signal.
THEOREM NoChildForgotten == Spec => []ChildrenHandled
<1>1. ProcessInv => ChildrenHandled
  BY DEF ProcessInv
<1>. QED
  BY <1>1, InvAlways, PTL

-----------------------------------------------------------------------------
(* Who holds the ends of a living child's pipes. *)

Alive(p) == proc[p].st \in Living

\* Only living children hold anything, and no child inherits another's ends of
\* its pipes.
ChildEndsOwned ==
  \A q \in Pid, l \in Link, e \in End :
    q \in holds[l][e] => Alive(q) /\ (e \in {"cin", "cout"} => proc[q].link = l)

\* The parent's ends of a child's pipes are inherited by children that were
\* started later, and closed by the child itself before it goes on to exec().
ParentEndsInherited ==
  \A p \in Pid : Alive(p) =>
    \A q \in Pid, e \in {"pin", "pout"} :
      q \in holds[proc[p].link][e] => (q = p /\ proc[p].st = "forked") \/ p \in older[q]

\* A living child holds its input, so that its pipes are nobody else's.
PipesOwned ==
  \A p \in Pid : Alive(p) =>
    /\ p \in holds[proc[p].link]["cin"]
    /\ \A q \in Pid : Alive(q) /\ q # p => proc[q].link # proc[p].link
    /\ \A o \in Obj : proc[p].link \in {obj[o].in, obj[o].out} => obj[o].pid = p

FreshPipes == InCall("pipes") => \A e \in End : holds[call.link][e] = {Parent}

NotItsElder == \A p \in Pid : p \notin older[p]

PipesInv ==
  /\ ChildEndsOwned
  /\ ParentEndsInherited
  /\ PipesOwned
  /\ FreshPipes
  /\ NotItsElder

LEMMA AliveFacts ==
  ASSUME ProcessInv
  PROVE  /\ \A p \in Pid : Alive(p) => proc[p].link \in Link /\ proc[p].link # None
         /\ {"pin", "pout", "cin", "cout"} = End
BY DEF ProcessInv, Holders, Alive, Living, End

\* A step that starts no child: nobody comes to hold anything.
LEMMA PipesKept ==
  ASSUME ProcessInv, PipesInv, FreshPipes', NotItsElder',
         \A p \in Pid : Alive(p)' => Alive(p) /\ proc'[p].link = proc[p].link,
         \A p \in Pid, l \in Link, e \in End : p \in holds'[l][e] => p \in holds[l][e] /\ Alive(p)',
         \A p \in Pid : Alive(p)' =>
           /\ p \in holds'[proc[p].link]["cin"]
           /\ \A e \in {"pin", "pout"} : p \in holds'[proc[p].link][e] => proc'[p].st = proc[p].st
           /\ \A q \in Pid : Alive(q)' /\ p \in older[q] => p \in older'[q]
           /\ \A o \in Obj : proc[p].link \in {obj'[o].in, obj'[o].out} => obj'[o].pid = p
  PROVE  PipesInv'
<1>1. ChildEndsOwned'
  BY DEF PipesInv, ChildEndsOwned
<1>2. ParentEndsInherited'
  <2>. SUFFICES ASSUME NEW p \in Pid, Alive(p)', NEW q \in Pid, NEW e \in {"pin", "pout"},
                       q \in holds'[proc'[p].link][e]
                PROVE  (q = p /\ proc'[p].st = "forked") \/ p \in older'[q]
    BY DEF ParentEndsInherited
  <2>1. Alive(p) /\ proc'[p].link = proc[p].link /\ proc[p].link \in Link /\ e \in End
    BY AliveFacts
  <2>2. q \in holds[proc[p].link][e] /\ Alive(q)'
    BY <2>1
  <2>3. (q = p /\ proc[p].st = "forked") \/ p \in older[q]
    BY <2>1, <2>2 DEF PipesInv, ParentEndsInherited
  <2>. QED
    BY <2>1, <2>2, <2>3
<1>3. PipesOwned'
  BY DEF PipesInv, PipesOwned
<1>. QED
  BY <1>1, <1>2, <1>3 DEF PipesInv

LEMMA ExitsKeepsPipes ==
  ASSUME ProcessInv, PipesInv, NEW p \in Pid, Exits(p)
  PROVE  PipesInv'
<1>1. /\ ~Alive(p)'
      /\ \A q \in Pid : q # p => proc'[q] = proc[q]
      /\ \A q, r \in Pid : q # p /\ r # p => (q \in older'[r] <=> q \in older[r])
      /\ NotItsElder'
      /\ UNCHANGED <<obj, call>>
  BY DEF Exits, Alive, Living, ProcessInv, PTypeOK, PipesInv, NotItsElder
<1>2. \A q \in Process, l \in Link, e \in End : q \in holds'[l][e] <=> q \in holds[l][e] /\ q # p
  BY Typed, ReleasedEffect DEF Exits
<1>3. FreshPipes'
  <2>. SUFFICES ASSUME InCall("pipes"), NEW e \in End
                PROVE  holds'[call.link][e] = {Parent}
    BY <1>1 DEF FreshPipes, InCall
  <2>1. call.link \in Link /\ holds[call.link][e] = {Parent}
    BY DEF PipesInv, FreshPipes, InCall, ProcessInv, CallOK, PTypeOK
  <2>2. holds' \in Holds
    BY Typed, ReleasedEffect DEF Exits
  <2>3. holds'[call.link][e] \subseteq Process
    BY <2>1, <2>2 DEF Holds
  <2>. QED
    BY <1>2, <2>1, <2>3, Typed
<1>4. \A q \in Pid : Alive(q)' => q # p /\ Alive(q) /\ proc'[q] = proc[q]
  BY <1>1 DEF Alive
<1>5. \A q \in Pid : q # p /\ Alive(q) => Alive(q)'
  BY <1>1 DEF Alive
<1>6. \A q \in Pid, l \in Link, e \in End : q \in holds'[l][e] => q \in holds[l][e] /\ Alive(q)'
  BY <1>2, <1>5, Typed DEF PipesInv, ChildEndsOwned
<1>7. \A q \in Pid : Alive(q)' => q \in holds'[proc[q].link]["cin"]
  BY <1>2, <1>4, Typed, AliveFacts DEF PipesInv, PipesOwned
<1>8. \A q \in Pid : Alive(q)' =>
        \A o \in Obj : proc[q].link \in {obj'[o].in, obj'[o].out} => obj'[o].pid = q
  BY <1>1, <1>4 DEF PipesInv, PipesOwned
<1>9. \A q \in Pid : Alive(q)' => \A r \in Pid : Alive(r)' /\ q \in older[r] => q \in older'[r]
  BY <1>1, <1>4
<1>. HIDE DEF Alive
<1>. QED
  BY <1>1, <1>3, <1>4, <1>6, <1>7, <1>8, <1>9, PipesKept

\* The child's own steps before exec(), and what its program does.
LEMMA ChildKeepsPipes ==
  ASSUME ProcessInv, PipesInv, NEW p \in Pid,
         ChildClose(p) \/ Exec(p) \/ ChildReads(p) \/ ChildWrites(p)
  PROVE  PipesInv'
<1>1. /\ UNCHANGED <<obj, call, older>>
      /\ \A q \in Pid : proc'[q].link = proc[q].link /\ (q # p => proc'[q].st = proc[q].st)
      /\ Alive(p) /\ Alive(p)'
  BY DEF ChildClose, Exec, ChildReads, ChildWrites, ProcessInv, PTypeOK, Alive, Living
<1>0. NotItsElder'
  BY <1>1 DEF PipesInv, NotItsElder
<1>2. \A q \in Pid : Alive(q)' <=> Alive(q)
  BY <1>1 DEF Alive
<1>3. /\ holds' \in Holds
      /\ \A q \in Process, l \in Link, e \in End :
           q \in holds'[l][e] <=>
             q \in holds[l][e] /\ ~(ChildClose(p) /\ q = p /\ l = proc[p].link /\ e \in {"pin", "pout"})
  <2>1. CASE ChildClose(p)
    BY <2>1, Typed, WithoutEffect DEF ChildClose
  <2>2. CASE ~ChildClose(p)
    BY <2>2, Typed DEF Exec, ChildReads, ChildWrites
  <2>. QED
    BY <2>1, <2>2
<1>4. FreshPipes'
  <2>. SUFFICES ASSUME InCall("pipes"), NEW e \in End
                PROVE  holds'[call.link][e] = {Parent}
    BY <1>1 DEF FreshPipes, InCall
  <2>1. call.link \in Link /\ holds[call.link][e] = {Parent}
    BY DEF PipesInv, FreshPipes, InCall, ProcessInv, CallOK, PTypeOK
  <2>2. holds'[call.link][e] \subseteq Process
    BY <1>3, <2>1 DEF Holds
  <2>. QED
    BY <1>3, <2>1, <2>2, Typed
<1>5. \A q \in Pid, l \in Link, e \in End : q \in holds'[l][e] => q \in holds[l][e] /\ Alive(q)'
  BY <1>2, <1>3, Typed DEF PipesInv, ChildEndsOwned
<1>6. \A q \in Pid : Alive(q)' => q \in holds'[proc[q].link]["cin"]
  BY <1>2, <1>3, Typed, AliveFacts DEF PipesInv, PipesOwned
<1>7. ASSUME NEW q \in Pid, Alive(q), NEW e \in {"pin", "pout"}, q \in holds'[proc[q].link][e]
      PROVE  proc'[q].st = proc[q].st
  <2>1. q # p \/ (~ChildClose(p) /\ q \in holds[proc[q].link][e])
    BY <1>3, <1>7, Typed, AliveFacts
  <2>2. CASE ~ChildClose(p) /\ q = p /\ q \in holds[proc[q].link][e]
    <3>1. proc[p].st = "forked"
      BY <1>1, <2>2 DEF PipesInv, ParentEndsInherited, NotItsElder
    <3>. QED
      BY <2>2, <3>1 DEF Exec, ChildReads, ChildWrites, ProcessInv, PTypeOK
  <2>. QED
    BY <1>1, <2>1, <2>2
<1>8. \A q \in Pid : Alive(q) =>
        \A o \in Obj : proc[q].link \in {obj'[o].in, obj'[o].out} => obj'[o].pid = q
  BY <1>1 DEF PipesInv, PipesOwned
<1>. HIDE DEF Alive
<1>. QED
  BY <1>0, <1>1, <1>2, <1>4, <1>5, <1>6, <1>7, <1>8, PipesKept

\* A step of the parent that starts no child: what the children hold stays, and
\* an object's pipes are still its child's.
LEMMA ParentKeepsPipes ==
  ASSUME ProcessInv, PipesInv, UNCHANGED older, ~InCall("pipes")',
         \A p \in Pid, l \in Link, e \in End : p \in holds'[l][e] <=> p \in holds[l][e],
         \A p \in Pid : proc'[p] = proc[p] \/ (~Alive(p) /\ ~Alive(p)'),
         \A o \in Obj :
           \/ obj'[o].in = None /\ obj'[o].out = None
           \/ \E x \in Obj : /\ obj'[o].in \in {None, obj[x].in}
                             /\ obj'[o].out \in {None, obj[x].out}
                             /\ obj'[o].pid = obj[x].pid \/ obj[x].pid \notin {p \in Pid : Alive(p)}
  PROVE  PipesInv'
<1>1. FreshPipes' /\ NotItsElder'
  BY DEF FreshPipes, PipesInv, NotItsElder
<1>2. \A p \in Pid : (Alive(p)' <=> Alive(p)) /\ (Alive(p) => proc'[p] = proc[p])
  BY DEF Alive
<1>3. \A p \in Pid, l \in Link, e \in End : p \in holds'[l][e] => p \in holds[l][e] /\ Alive(p)'
  BY <1>2 DEF PipesInv, ChildEndsOwned
<1>4. \A p \in Pid : Alive(p) => p \in holds'[proc[p].link]["cin"]
  BY AliveFacts DEF PipesInv, PipesOwned
<1>5. ASSUME NEW p \in Pid, Alive(p), NEW o \in Obj, proc[p].link \in {obj'[o].in, obj'[o].out}
      PROVE  obj'[o].pid = p
  <2>1. PICK x \in Obj : /\ obj'[o].in \in {None, obj[x].in}
                         /\ obj'[o].out \in {None, obj[x].out}
                         /\ obj'[o].pid = obj[x].pid \/ obj[x].pid \notin {q \in Pid : Alive(q)}
    BY <1>5, AliveFacts
  <2>2. obj[x].pid = p
    BY <1>5, <2>1, AliveFacts DEF PipesInv, PipesOwned
  <2>. QED
    BY <1>5, <2>1, <2>2
<1>. HIDE DEF Alive
<1>. QED
  BY <1>1, <1>2, <1>3, <1>4, <1>5, PipesKept

LEMMA ClosedKeepsChildren ==
  ASSUME ProcessInv, NEW o
  PROVE  \A p \in Pid, l \in Link, e \in End : p \in Closed(holds, o)[l][e] <=> p \in holds[l][e]
<1>. DEFINE g == Without(holds, Parent, obj[o].in, {"pin"})
<1>1. /\ g \in Holds
      /\ \A p \in Pid, l \in Link, e \in End : p \in g[l][e] <=> p \in holds[l][e]
  BY Typed, WithoutEffect
<1>2. Closed(holds, o) = Without(g, Parent, obj[o].out, {"pout"})
  BY DEF Closed
<1>. HIDE DEF g
<1>3. \A p \in Pid, l \in Link, e \in End :
        p \in Without(g, Parent, obj[o].out, {"pout"})[l][e] <=> p \in g[l][e]
  BY <1>1, Typed, WithoutEffect
<1>. QED
  BY <1>1, <1>2, <1>3

LEMMA CallsKeepPipes ==
  ASSUME ProcessInv, PipesInv, NEW o \in Obj,
         \/ CloseStdin(o) \/ Close(o) \/ Join(o) \/ Destroy(o)
         \/ \E n \in 1..MaxLen : WriteExact(o, n) \/ ReadExact(o, n)
  PROVE  PipesInv'
<1>1. ASSUME NEW op \in {"join", "write", "read"}, NEW n, Starts(op, o, n)
      PROVE  PipesInv'
  <2>1. UNCHANGED <<obj, proc, holds, older>> /\ ~InCall("pipes")'
    BY <1>1 DEF Starts, kernel, InCall, Blocked, NoCall
  <2>. QED
    BY <2>1, ParentKeepsPipes
<1>2. CASE CloseStdin(o) \/ Close(o) \/ Destroy(o)
  <2>1. UNCHANGED <<proc, older>>
    BY <1>2 DEF CloseStdin, Close, Destroy
  <2>2. ~InCall("pipes")'
    <3>1. NoCall.op # "pipes" /\ Blocked("destroy", o, 0).op # "pipes"
      BY DEF NoCall, Blocked
    <3>. QED
      BY <1>2, <3>1 DEF CloseStdin, Close, Destroy, Idle, InCall
  <2>3. \A p \in Pid, l \in Link, e \in End : p \in holds'[l][e] <=> p \in holds[l][e]
    BY <1>2, ClosedKeepsChildren, Typed, WithoutEffect DEF CloseStdin, Close, Destroy
  <2>4. \A q \in Obj : /\ obj'[q].in \in {None, obj[q].in}
                       /\ obj'[q].out \in {None, obj[q].out}
                       /\ obj'[q].pid = obj[q].pid
    <3>1. CASE CloseStdin(o)
      BY <3>1, Typed DEF CloseStdin, ProcessInv, PTypeOK, Object
    <3>2. CASE Close(o) \/ (Destroy(o) /\ obj[o].pid # None)
      BY <3>2, Typed DEF Close, Destroy, ProcessInv, PTypeOK, Object
    <3>3. CASE Destroy(o) /\ obj[o].pid = None
      <4>1. Gone.in = None /\ Gone.out = None /\ Gone.pid = None
        BY DEF Gone
      <4>2. \A q \in Obj : obj'[q] = IF q = o THEN Gone ELSE obj[q]
        BY <3>3 DEF Destroy, ProcessInv, PTypeOK
      <4>. QED
        BY <3>3, <4>1, <4>2
    <3>. QED
      BY <1>2, <3>1, <3>2, <3>3
  <2>. QED
    BY <2>1, <2>2, <2>3, <2>4, ParentKeepsPipes
<1>. QED
  BY <1>1, <1>2 DEF Join, WriteExact, ReadExact

LEMMA MovesKeepPipes ==
  ASSUME ProcessInv, PipesInv, NEW o \in Obj, NEW other \in Obj,
         MoveConstruct(o, other) \/ MoveAssign(o, other)
  PROVE  PipesInv'
<1>1. UNCHANGED <<proc, older>>
  BY DEF MoveConstruct, MoveAssign, kernel
<1>2. ~InCall("pipes")'
  BY NoCallType DEF MoveConstruct, MoveAssign, Idle, InCall
<1>3. \A p \in Pid, l \in Link, e \in End : p \in holds'[l][e] <=> p \in holds[l][e]
  BY ClosedKeepsChildren DEF MoveConstruct, MoveAssign, kernel
<1>4. \A q \in Obj : obj'[q] = MovedFrom \/ \E x \in Obj : obj'[q] = obj[x]
  BY DEF MoveConstruct, MoveAssign, ProcessInv, PTypeOK
<1>5. MovedFrom.in = None /\ MovedFrom.out = None
  BY DEF MovedFrom, Gone
<1>6. \A q \in Obj :
        \/ obj'[q].in = None /\ obj'[q].out = None
        \/ \E x \in Obj : /\ obj'[q].in \in {None, obj[x].in}
                          /\ obj'[q].out \in {None, obj[x].out}
                          /\ obj'[q].pid = obj[x].pid
  BY <1>4, <1>5
<1>. QED
  BY <1>1, <1>2, <1>3, <1>6, ParentKeepsPipes

\* Transfers, the ends of the constructor, SIGPIPE and the end of a wait.
LEMMA GoingOnKeepsPipes ==
  ASSUME ProcessInv, PipesInv,
         \/ ForkFails \/ EndConstructor \/ Writes \/ Reads \/ ReadsEnd
         \/ BrokenPipe \/ Reaps \/ WaitInterrupted
  PROVE  PipesInv'
<1>1. CASE ForkFails \/ EndConstructor \/ Writes \/ Reads \/ ReadsEnd
  <2>1. UNCHANGED <<obj, proc, older>>
    <3>1. CASE ForkFails \/ EndConstructor \/ ReadsEnd
      BY <3>1 DEF ForkFails, EndConstructor, ReadsEnd, kernel
    <3>2. CASE Writes \/ Reads
      BY <3>2 DEF Writes, Reads
    <3>. QED
      BY <1>1, <3>1, <3>2
  <2>2. ~InCall("pipes")'
    <3>1. CASE ForkFails \/ EndConstructor \/ ReadsEnd
      BY <3>1, NoCallType DEF ForkFails, EndConstructor, ReadsEnd, InCall
    <3>2. CASE Writes \/ Reads
      <4>1. call \in Call /\ call.op \in {"write", "read"}
        BY <3>2 DEF Writes, Reads, InCall, ProcessInv, PTypeOK, Call
      <4>. QED
        BY <3>2, <4>1, NoCallType DEF Writes, Reads, Moved, InCall, Call
    <3>. QED
      BY <1>1, <3>1, <3>2
  <2>3. \A p \in Pid, l \in Link, e \in End : p \in holds'[l][e] <=> p \in holds[l][e]
    <3>1. CASE ForkFails \/ EndConstructor
      BY <3>1, Typed, WithoutEffect DEF ForkFails, EndConstructor
    <3>2. CASE Writes \/ Reads \/ ReadsEnd
      <4>1. UNCHANGED holds
        BY <3>2 DEF Writes, Reads, ReadsEnd, kernel
      <4>. QED
        BY <4>1
    <3>. QED
      BY <1>1, <3>1, <3>2
  <2>. QED
    BY <2>1, <2>2, <2>3, ParentKeepsPipes
<1>2. CASE BrokenPipe
  <2>1. UNCHANGED <<proc, older>> /\ ~InCall("pipes")'
    BY <1>2 DEF BrokenPipe, InCall, NoCall
  <2>2. \A p \in Pid, l \in Link, e \in End : p \in holds'[l][e] <=> p \in holds[l][e]
    BY <1>2, Typed, ReleasedEffect DEF BrokenPipe
  <2>3. \A q \in Obj : obj'[q].in = None /\ obj'[q].out = None
    BY <1>2 DEF BrokenPipe, Gone
  <2>. QED
    BY <2>1, <2>2, <2>3, ParentKeepsPipes
<1>3. CASE Reaps \/ WaitInterrupted
  <2>. DEFINE o == call.obj
              p == obj[o].pid
  <2>1. UNCHANGED older /\ ~InCall("pipes")'
    BY <1>3, NoCallType DEF Reaps, WaitInterrupted, InCall
  <2>2. o \in Obj /\ p \in Pid
    BY <1>3, Typed DEF Reaps, WaitInterrupted, Waiting, InCall, ProcessInv, CallOK, Object
  <2>3. \A q \in Pid, l \in Link, e \in End : q \in holds'[l][e] <=> q \in holds[l][e]
    BY <1>3, ClosedKeepsChildren DEF Reaps, WaitInterrupted, EndDestructor
  <2>4. \A q \in Pid : proc'[q] = proc[q] \/ (~Alive(q) /\ ~Alive(q)')
    BY <1>3, <2>2 DEF Reaps, WaitInterrupted, ProcessInv, PTypeOK, Alive, Living, NoChild
  <2>5. \A q \in Obj : \/ obj'[q].in = None /\ obj'[q].out = None
                       \/ /\ obj'[q].in = obj[q].in /\ obj'[q].out = obj[q].out
                          /\ obj'[q].pid = obj[q].pid \/ obj[q].pid \notin {r \in Pid : Alive(r)}
    <3>1. obj[o] \in Object /\ Gone.in = None /\ Gone.out = None
      BY <2>2, Typed DEF Gone
    <3>2. CASE WaitInterrupted
      BY <2>2, <3>1, <3>2 DEF WaitInterrupted, ProcessInv, PTypeOK
    <3>3. CASE Reaps
      <4>1. ~Alive(p)
        BY <3>3 DEF Reaps, Alive, Living
      <4>2. \A q \in Obj : q # o => obj'[q] = obj[q]
        BY <2>2, <3>3 DEF Reaps, ProcessInv, PTypeOK
      <4>3. obj'[o] = Gone \/ obj'[o] = [obj[o] EXCEPT !.pid = None]
        BY <2>2, <3>3 DEF Reaps, ProcessInv, PTypeOK
      <4>4. obj'[o] = Gone \/ (obj'[o].in = obj[o].in /\ obj'[o].out = obj[o].out)
        BY <3>1, <4>3 DEF Object
      <4>. QED
        BY <3>1, <4>1, <4>2, <4>4
    <3>. QED
      BY <1>3, <3>2, <3>3
  <2>. HIDE DEF o, p, Alive
  <2>. QED
    BY <2>1, <2>3, <2>4, <2>5, ParentKeepsPipes
<1>. QED
  BY <1>1, <1>2, <1>3

LEMMA CreateKeepsPipes ==
  ASSUME ProcessInv, PipesInv, NEW o \in Obj, CreateDuplexPipe(o)
  PROVE  PipesInv'
<1>. DEFINE l == CHOOSE free \in FreeLinks : TRUE
<1>1. l \in FreeLinks
  BY DEF CreateDuplexPipe
<1>2. l \in Link /\ \A e \in End : holds[l][e] = {}
  BY <1>1 DEF FreeLinks
<1>3. /\ holds' = [holds EXCEPT ![l] = [e \in End |-> {Parent}]]
      /\ call' = [op |-> "pipes", obj |-> o, link |-> l, left |-> 0]
      /\ UNCHANGED <<obj, proc, older>>
  BY DEF CreateDuplexPipe
<1>. HIDE DEF l
<1>4. /\ \A e \in End : holds'[l][e] = {Parent}
      /\ \A m \in Link : m # l => holds'[m] = holds[m]
  BY <1>2, <1>3, Typed DEF Holds
<1>5. FreshPipes' /\ NotItsElder'
  BY <1>3, <1>4 DEF FreshPipes, PipesInv, NotItsElder
<1>6. \A p \in Pid : (Alive(p)' <=> Alive(p)) /\ proc'[p] = proc[p]
  BY <1>3 DEF Alive
<1>7. \A p \in Pid, m \in Link, e \in End : p \in holds'[m][e] => p \in holds[m][e] /\ Alive(p)'
  BY <1>4, <1>6, Typed DEF PipesInv, ChildEndsOwned
<1>8. \A p \in Pid : Alive(p) => p \in holds'[proc[p].link]["cin"]
  BY <1>2, <1>4, AliveFacts DEF PipesInv, PipesOwned
<1>9. \A p \in Pid : Alive(p) =>
        \A q \in Obj : proc[p].link \in {obj'[q].in, obj'[q].out} => obj'[q].pid = p
  BY <1>3 DEF PipesInv, PipesOwned
<1>. HIDE DEF Alive
<1>. QED
  BY <1>3, <1>5, <1>6, <1>7, <1>8, <1>9, PipesKept

\* The new child gets the new pipes, and of the others what the parent holds.
LEMMA ForkKeepsPipes ==
  ASSUME ProcessInv, PipesInv, Fork
  PROVE  PipesInv'
<1>. DEFINE l == call.link
            o == call.obj
<1>1. /\ call.op = "pipes" /\ l \in Link /\ o \in Obj
      /\ \A e \in End : holds[l][e] = {Parent}
      /\ \A q \in Obj : l \notin {obj[q].in, obj[q].out}
  BY DEF Fork, InCall, ProcessInv, CallOK, PTypeOK, PipesInv, FreshPipes
<1>2. PICK p \in Pid :
        /\ proc[p].st = "free"
        /\ proc' = [proc EXCEPT ![p] = [st |-> "forked", link |-> l, buf |-> 0]]
        /\ holds' = [m \in Link |-> [e \in End |->
             IF Parent \in holds[m][e] THEN holds[m][e] \cup {p} ELSE holds[m][e]]]
        /\ older' = [older EXCEPT ![p] = {q \in Pid : proc[q].st \in Living}]
        /\ obj' = [obj EXCEPT ![o] = [live |-> TRUE, in |-> l, out |-> l, pid |-> p]]
  BY DEF Fork
<1>3. /\ ~Alive(p) /\ Alive(p)' /\ proc'[p].st = "forked" /\ proc'[p].link = l
      /\ \A q \in Pid : q # p => proc'[q] = proc[q] /\ (Alive(q)' <=> Alive(q))
                                 /\ older'[q] = older[q]
      /\ older'[p] = {q \in Pid : Alive(q)}
  BY <1>2 DEF Alive, Living, ProcessInv, PTypeOK
<1>4. /\ obj'[o].in = l /\ obj'[o].out = l /\ obj'[o].pid = p
      /\ \A q \in Obj : q # o => obj'[q] = obj[q]
  BY <1>1, <1>2 DEF ProcessInv, PTypeOK
<1>5. \A q \in Pid, m \in Link, e \in End :
        q \in holds'[m][e] <=> q \in holds[m][e] \/ (q = p /\ Parent \in holds[m][e])
  BY <1>2
<1>6. \A m \in Link, e \in {"cin", "cout"} : m # l => Parent \notin holds[m][e]
  BY DEF ProcessInv, DescriptorsOwned
<1>7. \A q \in Pid : Alive(q) => proc[q].link # l
  BY <1>1, Typed, AliveFacts DEF PipesInv, PipesOwned
<1>8. \A m \in Link, e \in End : p \notin holds[m][e]
  BY <1>3 DEF PipesInv, ChildEndsOwned
<1>. HIDE DEF Alive
<1>9. ChildEndsOwned'
  <2>. SUFFICES ASSUME NEW q \in Pid, NEW m \in Link, NEW e \in End, q \in holds'[m][e]
                PROVE  Alive(q)' /\ (e \in {"cin", "cout"} => proc'[q].link = m)
    BY DEF ChildEndsOwned
  <2>1. CASE q = p
    BY <1>3, <1>5, <1>6, <1>8, <2>1
  <2>2. CASE q # p
    BY <1>3, <1>5, <2>2 DEF PipesInv, ChildEndsOwned
  <2>. QED
    BY <2>1, <2>2
<1>10. ParentEndsInherited'
  <2>. SUFFICES ASSUME NEW r \in Pid, Alive(r)', NEW q \in Pid, NEW e \in {"pin", "pout"},
                       q \in holds'[proc'[r].link][e]
                PROVE  (q = r /\ proc'[r].st = "forked") \/ r \in older'[q]
    BY DEF ParentEndsInherited
  <2>1. CASE r = p
    <3>1. q = p
      BY <1>1, <1>3, <1>5, <2>1, Typed
    <3>. QED
      BY <1>3, <2>1, <3>1
  <2>2. CASE r # p /\ q = p
    BY <1>3, <2>2
  <2>3. CASE r # p /\ q # p
    <3>1. Alive(r) /\ proc'[r] = proc[r] /\ proc[r].link \in Link /\ e \in End
      BY <1>3, <2>3, AliveFacts
    <3>2. q \in holds[proc[r].link][e]
      BY <1>5, <2>3, <3>1
    <3>. QED
      BY <1>3, <2>3, <3>1, <3>2 DEF PipesInv, ParentEndsInherited
  <2>. QED
    BY <2>1, <2>2, <2>3
<1>11. PipesOwned'
  <2>. SUFFICES ASSUME NEW r \in Pid, Alive(r)'
                PROVE  /\ r \in holds'[proc'[r].link]["cin"]
                       /\ \A q \in Pid : Alive(q)' /\ q # r => proc'[q].link # proc'[r].link
                       /\ \A q \in Obj : proc'[r].link \in {obj'[q].in, obj'[q].out} => obj'[q].pid = r
    BY DEF PipesOwned
  <2>1. CASE r = p
    BY <1>1, <1>3, <1>4, <1>5, <1>7, <2>1, Typed
  <2>2. CASE r # p
    <3>1. Alive(r) /\ proc'[r] = proc[r] /\ proc[r].link \in Link /\ proc[r].link # l
      BY <1>3, <1>7, <2>2, AliveFacts
    <3>2. r \in holds'[proc[r].link]["cin"]
      BY <1>5, <3>1, AliveFacts DEF PipesInv, PipesOwned
    <3>3. \A q \in Pid : Alive(q)' /\ q # r => proc'[q].link # proc[r].link
      BY <1>3, <3>1 DEF PipesInv, PipesOwned
    <3>4. \A q \in Obj : proc[r].link \in {obj'[q].in, obj'[q].out} => obj'[q].pid = r
      BY <1>4, <3>1 DEF PipesInv, PipesOwned
    <3>. QED
      BY <3>1, <3>2, <3>3, <3>4
  <2>. QED
    BY <2>1, <2>2
<1>12. FreshPipes'
  <2>1. call'.op = "ctor"
    BY <1>1 DEF Fork, ProcessInv, PTypeOK
  <2>. QED
    BY <2>1 DEF FreshPipes, InCall
<1>13. NotItsElder'
  BY <1>3 DEF PipesInv, NotItsElder
<1>. QED
  BY <1>9, <1>10, <1>11, <1>12, <1>13 DEF PipesInv

LEMMA PipesInitially == Init => PipesInv
<1>. SUFFICES ASSUME Init PROVE PipesInv
  OBVIOUS
<1>1. \A p \in Pid : ~Alive(p)
  BY DEF Init, Alive, Living, NoChild
<1>. QED
  BY <1>1, NoCallType
  DEF Init, PipesInv, ChildEndsOwned, ParentEndsInherited, PipesOwned, FreshPipes, NotItsElder, InCall

LEMMA PipesInductive ==
  ASSUME ProcessInv, PipesInv, [Next]_vars
  PROVE  PipesInv'
<1>1. CASE UNCHANGED vars
  <2>1. UNCHANGED <<obj, proc, holds, older, call>> /\ \A p \in Pid : Alive(p)' <=> Alive(p)
    BY <1>1 DEF vars, kernel, Alive
  <2>. HIDE DEF Alive
  <2>2. ChildEndsOwned' /\ FreshPipes' /\ NotItsElder'
    BY <2>1 DEF PipesInv, ChildEndsOwned, FreshPipes, NotItsElder, InCall
  <2>3. ParentEndsInherited' /\ PipesOwned'
    BY <2>1 DEF PipesInv, ParentEndsInherited, PipesOwned
  <2>. QED
    BY <2>2, <2>3 DEF PipesInv
<1>2. ASSUME NEW p \in Pid, ChildGoesOn(p) \/ ChildQuits(p) PROVE PipesInv'
  BY <1>2, ChildKeepsPipes, ExitsKeepsPipes DEF ChildGoesOn, ChildQuits, ChildEnds, ExecFails
<1>3. CASE ParentGoesOn \/ WaitInterrupted
  BY <1>3, ForkKeepsPipes, GoingOnKeepsPipes DEF ParentGoesOn
<1>4. ASSUME NEW o \in Obj, ParentCalls(o) PROVE PipesInv'
  <2>1. CASE Kill(o)
    <3>1. obj[o].pid \in Pid
      BY <2>1, Typed DEF Kill, Object
    <3>. QED
      BY <2>1, <3>1, ExitsKeepsPipes DEF Kill
  <2>. QED
    BY <1>4, <2>1, CreateKeepsPipes, CallsKeepPipes, MovesKeepPipes DEF ParentCalls
<1>. QED
  BY <1>1, <1>2, <1>3, <1>4 DEF Next

LEMMA PipesAlways == Spec => [](ProcessInv /\ PipesInv)
BY InvAlways, PipesInitially, PipesInductive, PTL DEF Spec

\* The ends of a child's own pipes that it reads and writes are held by no other
\* child, and the parent's ends by children started later only: when a child has
\* gone its parent sees the end of file or SIGPIPE, and when the parent closes
\* the child's input only younger children can keep it open.
THEOREM PipesConfined == Spec => [](ChildEndsOwned /\ ParentEndsInherited)
<1>1. PipesInv => ChildEndsOwned /\ ParentEndsInherited
  BY DEF PipesInv
<1>. QED
  BY <1>1, PipesAlways, PTL

-----------------------------------------------------------------------------
(* What the parent waits for. *)

\* The child, or the filter that it runs, has a step to take.
CanGoOn(p) ==
  \/ proc[p].st \in {"forked", "closed"}
  \/ /\ proc[p].st = "running"
     /\ LET l == proc[p].link
        IN \/ proc[p].buf < ChildBuf /\ level[l]["down"] > 0
           \/ proc[p].buf > 0 /\ (holds[l]["pin"] = {} \/ level[l]["up"] < PipeCap)
           \/ proc[p].buf = 0 /\ level[l]["down"] = 0 /\ holds[l]["pout"] = {}

\* The destructor's wait: the child has ended or goes on, if no younger child is
\* there.
DestroyGoesOn ==
  LET p == obj[call.obj].pid
  IN InCall("destroy") /\ ~Outlived(p) => proc[p].st = "zombie" \/ CanGoOn(p)

\* writeExact finds room, or nobody who could read, or a child that goes on, as
\* long as what was not read back fits in the two pipes.
WriteGoesOn ==
  LET l == obj[call.obj].out
      p == obj[call.obj].pid
  IN InCall("write") /\ Unread(call.obj) + call.left <= 2 * PipeCap =>
       \/ holds[l]["cin"] = {} \/ level[l]["down"] < PipeCap
       \/ p # None /\ CanGoOn(p)

LEMMA DestroyMovesOn ==
  ASSUME ProcessInv, PipesInv
  PROVE  DestroyGoesOn
<1>. DEFINE o == call.obj
            p == obj[o].pid
            l == proc[p].link
<1>0. SUFFICES ASSUME InCall("destroy"), ~Outlived(p), proc[p].st # "zombie"
               PROVE  CanGoOn(p)
  BY DEF DestroyGoesOn
<1>1. o \in Obj /\ p \in Pid /\ obj[o].in = None /\ obj[o].out = None /\ call.link = None
  BY <1>0, Typed DEF InCall, ProcessInv, CallOK, Object
<1>2. proc[p] \in Child /\ proc[p].st # "free"
  BY <1>1 DEF ProcessInv, PidsOwned, PTypeOK, Child
<1>3. Alive(p) /\ l \in Link
  BY <1>0, <1>1, <1>2, AliveFacts DEF Child, Stage, Living, Alive
<1>3a. l # None
  BY <1>1, <1>3, AliveFacts
<1>3b. \A e \in {"pin", "pout"} :
         \A q \in Pid : q \in holds[l][e] => (q = p /\ proc[p].st = "forked") \/ p \in older[q]
  BY <1>1, <1>3 DEF PipesInv, ParentEndsInherited
<1>3c. \A q \in Pid : p \notin older[q]
  BY <1>0 DEF Outlived
<1>4. \A q \in Obj : obj[q].in # l /\ obj[q].out # l
  <2>1. \A q \in Obj : l \in {obj[q].in, obj[q].out} => obj[q].pid = p
    BY <1>1, <1>3 DEF PipesInv, PipesOwned
  <2>2. \A q \in Obj : obj[q].pid = p => q = o
    BY <1>1 DEF ProcessInv, PidsOwned
  <2>. QED
    BY <1>1, <1>3a, <2>1, <2>2
<1>5. Parent \notin holds[l]["pin"] /\ Parent \notin holds[l]["pout"]
  <2>1. call.link # l /\ l \in Link
    BY <1>1, <1>3, <1>3a
  <2>2. \A m \in Link : call.link # m =>
          /\ Parent \in holds[m]["pin"] <=> \E q \in Obj : obj[q].in = m
          /\ Parent \in holds[m]["pout"] <=> \E q \in Obj : obj[q].out = m
    BY DEF ProcessInv, DescriptorsOwned
  <2>. QED
    BY <1>4, <2>1, <2>2
<1>5a. holds[l] \in [End -> SUBSET Process]
  BY <1>3, Typed DEF Holds
<1>5b. level[l]["down"] \in Nat /\ proc[p].buf \in Nat
  BY <1>2, <1>3 DEF ProcessInv, PTypeOK, Child
<1>. HIDE DEF o, p, l
<1>6. CASE proc[p].st = "running"
  <2>1. \A q \in Pid : q \notin holds[l]["pin"] /\ q \notin holds[l]["pout"]
    BY <1>3b, <1>3c, <1>6
  <2>2. holds[l]["pin"] \subseteq Process /\ holds[l]["pout"] \subseteq Process
    BY <1>5a DEF End
  <2>3. holds[l]["pin"] = {} /\ holds[l]["pout"] = {}
    BY <1>5, <2>1, <2>2 DEF Process
  <2>. QED
    BY <1>5b, <1>6, <2>3 DEF CanGoOn, l
<1>7. CASE proc[p].st # "running"
  BY <1>3, <1>7 DEF Alive, Living, CanGoOn
<1>. QED
  BY <1>6, <1>7

LEMMA WriteMovesOn ==
  ASSUME ProcessInv, PipesInv
  PROVE  WriteGoesOn
<1>. DEFINE o == call.obj
            p == obj[o].pid
            l == obj[o].out
<1>0. SUFFICES ASSUME InCall("write"), Unread(o) + call.left <= 2 * PipeCap,
                      holds[l]["cin"] # {}, ~(level[l]["down"] < PipeCap)
               PROVE  p # None /\ CanGoOn(p)
  BY DEF WriteGoesOn
<1>1. o \in Obj /\ l \in Link /\ call.left \in Nat \ {0} /\ call.link = None
  BY <1>0, Typed DEF InCall, ProcessInv, CallOK, PTypeOK, Object
<1>2. PICK q \in Pid : q \in holds[l]["cin"]
  <2>1. holds[l]["cin"] \subseteq Process
    BY <1>1, Typed DEF Holds
  <2>2. Parent \notin holds[l]["cin"]
    BY <1>1 DEF ProcessInv, DescriptorsOwned
  <2>. QED
    BY <1>0, <2>1, <2>2 DEF Process
<1>3. Alive(q) /\ proc[q].link = l
  BY <1>1, <1>2, AliveFacts DEF PipesInv, ChildEndsOwned
<1>4. p = q
  BY <1>1, <1>2, <1>3 DEF PipesInv, PipesOwned
<1>5. p \in Pid /\ p # None /\ Alive(p) /\ proc[p].link = l
  BY <1>2, <1>3, <1>4
<1>6. CASE proc[p].st = "running"
  <2>1. level[l]["down"] \in 0..PipeCap /\ level[l]["up"] \in 0..PipeCap /\ proc[p].buf \in 0..ChildBuf
    BY <1>1, <1>5 DEF ProcessInv, PTypeOK
  <2>2. level[l]["down"] + level[l]["up"] + proc[p].buf + call.left <= 2 * PipeCap
    BY <1>0, <1>5 DEF Unread
  <2>3. level[l]["down"] = PipeCap
    BY <1>0, <2>1
  <2>4. proc[p].buf < ChildBuf \/ (proc[p].buf > 0 /\ level[l]["up"] < PipeCap)
    BY <1>1, <2>1, <2>2, <2>3
  <2>5. level[l]["down"] > 0
    BY <2>3
  <2>. QED
    BY <1>5, <1>6, <2>4, <2>5 DEF CanGoOn
<1>7. CASE proc[p].st # "running"
  BY <1>5, <1>7 DEF Alive, Living, CanGoOn
<1>. QED
  BY <1>5, <1>6, <1>7

\* The parent is never stuck in a destructor or in writeExact, whatever objects
\* were moved or assigned over, whatever pipes and pids were used again: the
\* child it waits for has ended, or has a step to take, provided that no younger
\* child keeps the destroyed child's input open, and that what was not read back
\* fits in the two pipes.
THEOREM ParentNotStuck == Spec => [](DestroyGoesOn /\ WriteGoesOn)
<1>1. ProcessInv /\ PipesInv => DestroyGoesOn /\ WriteGoesOn
  BY DestroyMovesOn, WriteMovesOn
<1>. QED
  BY <1>1, PipesAlways, PTL

=============================================================================
