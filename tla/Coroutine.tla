----------------------------- MODULE Coroutine -----------------------------
(***************************************************************************)
(* The stackful coroutine library of src/coroutine: one thread's Ordinator *)
(* (it is thread_local, so threads never share one).                       *)
(*                                                                         *)
(* A routine is named by its position in the vector `routines`, counted    *)
(* from 1; 0 names the thread's own context.  A routine that ends puts its *)
(* id on the queue `finished`, and create() takes an id from that queue    *)
(* before it grows the vector: ids, and with them the handles callers      *)
(* keep, are recycled.                                                     *)
(*                                                                         *)
(* create() and resume() are called from the thread's own context          *)
(* (current = 0), as every caller in the repository does: a nested         *)
(* resume() would overwrite the Ordinator's only return context.           *)
(***************************************************************************)
EXTENDS Naturals, Sequences

CONSTANTS
  Func,        \* the functions that create() is given
  Frame,       \* what a routine's stack may hold while it is suspended
  StartFrame,  \* the stack of a routine that has not run yet
  MaxRoutines  \* bound on the vector's growth in CoNext

ASSUME StartFrameAssumption == StartFrame \in Frame
ASSUME MaxRoutinesAssumption == MaxRoutines \in Nat

VARIABLES
  routines,  \* Ordinator::routines
  finished,  \* Ordinator::finished, ids free for reuse, oldest first
  current    \* Ordinator::current

covars == <<routines, finished, current>>

Routine == [func : Func, stack : Frame, finished : BOOLEAN, exception : BOOLEAN]

\* What both the constructor Routine(f) and reset(f) establish.
NewRoutine(f) ==
  [func |-> f, stack |-> StartFrame, finished |-> FALSE, exception |-> FALSE]

CoInit ==
  /\ routines = <<>>
  /\ finished = <<>>
  /\ current = 0

-----------------------------------------------------------------------------
\* The id that create() returns in this state.
NextId == IF finished = <<>> THEN Len(routines) + 1 ELSE Head(finished)

\* Faulty variant: the id is read from the queue and never popped.
CreateWithoutPop(f) ==
  /\ current = 0
  /\ routines' = IF finished = <<>>
                 THEN Append(routines, NewRoutine(f))
                 ELSE [routines EXCEPT ![Head(finished)] = NewRoutine(f)]
  /\ UNCHANGED <<finished, current>>

\* create(function): recycle the oldest finished routine or append a new one.
Create(f) ==
  /\ current = 0
  /\ \/ /\ finished = <<>>
        /\ routines' = Append(routines, NewRoutine(f))
        /\ UNCHANGED finished
     \/ /\ finished # <<>>
        /\ routines' = [routines EXCEPT ![Head(finished)] = NewRoutine(f)]
        /\ finished' = Tail(finished)
  /\ UNCHANGED current

\* The two early returns of resume(id): an unknown id and an ended routine.
Resumable(id) == id \in 1 .. Len(routines) /\ ~routines[id].finished

\* resume(id) up to the context switch.
Resume(id) ==
  /\ current = 0
  /\ Resumable(id)
  /\ current' = id
  /\ UNCHANGED <<routines, finished>>

\* The function of the running routine executes and changes its locals.
Run(frame) ==
  /\ current # 0
  /\ routines' = [routines EXCEPT ![current].stack = frame]
  /\ UNCHANGED <<finished, current>>

\* yield(): back to the context that resumed.
Yield ==
  /\ current # 0
  /\ current' = 0
  /\ UNCHANGED <<routines, finished>>

\* Faulty variant: the id is released and the routine not marked.
EntryUnmarked(throws) ==
  /\ current # 0
  /\ routines' = [routines EXCEPT ![current].exception = throws]
  /\ finished' = Append(finished, current)
  /\ current' = 0

\* entry() after the function returned, or threw when `throws`, and its locals
\* are gone: mark the routine, release its id, fall back to the resuming
\* context (uc_link).
Entry(throws) ==
  /\ current # 0
  /\ routines' = [routines EXCEPT
                    ![current] = [@ EXCEPT !.stack = StartFrame, !.finished = TRUE,
                                           !.exception = throws]]
  /\ finished' = Append(finished, current)
  /\ current' = 0

\* finished(id)
Finished(id) == routines[id].finished

CoNext ==
  \/ \E f \in Func : NextId <= MaxRoutines /\ Create(f)
  \/ \E id \in 0 .. MaxRoutines : Resume(id)
  \/ \E frame \in Frame : Run(frame)
  \/ Yield
  \/ \E throws \in BOOLEAN : Entry(throws)

CoSpec == CoInit /\ [][CoNext]_covars

-----------------------------------------------------------------------------
\* Type invariant of the Ordinator.
CoTypeOK ==
  /\ routines \in Seq(Routine)
  /\ finished \in Seq(Nat)
  /\ current \in 0 .. Len(routines)

\* Every id on the free queue names a routine that has ended.
QueuedIdsEnded ==
  \A i \in 1 .. Len(finished) :
    /\ finished[i] \in 1 .. Len(routines)
    /\ routines[finished[i]].finished

\* No id is on the free queue twice, so one id never serves two creations.
QueuedOnce ==
  \A i, j \in 1 .. Len(finished) : finished[i] = finished[j] => i = j

\* An ended routine is on the free queue: its slot is never leaked.
EndedIdsQueued ==
  \A id \in 1 .. Len(routines) :
    routines[id].finished => \E i \in 1 .. Len(finished) : finished[i] = id

\* Only a routine that has not ended runs.
RunningIsLive == current # 0 => ~routines[current].finished

\* The free queue of coroutine.cpp holds exactly the ended routines, each one
\* once, and the routine that runs is none of them.
OrdinatorOK ==
  /\ QueuedIdsEnded
  /\ QueuedOnce
  /\ EndedIdsQueued
  /\ RunningIsLive

\* Creating, resuming or ending one routine never disturbs another one that is
\* suspended: create() recycles no live slot, and the vector never shrinks.
LiveRoutinesKept ==
  [][\A id \in 1 .. Len(routines) :
       ~routines[id].finished /\ current # id
         => id \in 1 .. Len(routines') /\ routines'[id] = routines[id]]_covars

=============================================================================
