-------------------------- MODULE CoroutineProofs --------------------------
(***************************************************************************)
(* For every set of functions and stacks and every MaxRoutines: the        *)
(* Ordinator's bookkeeping is sound and suspended routines are undisturbed. *)
(* CoTypeOK /\ OrdinatorOK is inductive.  The lemmas about the library's    *)
(* operations are stated apart from CoNext, so that modules which compose   *)
(* Coroutine can cite them.                                                 *)
(***************************************************************************)
EXTENDS Coroutine, TLAPS

OrdinatorInv == CoTypeOK /\ OrdinatorOK

USE StartFrameAssumption

\* A routine stays a routine when its stack changes or when it ends.
LEMMA RoutineUpdates ==
  ASSUME NEW r \in Routine, NEW frame \in Frame, NEW throws \in BOOLEAN
  PROVE  /\ [r EXCEPT !.stack = frame] \in Routine
         /\ [r EXCEPT !.stack = StartFrame, !.finished = TRUE, !.exception = throws] \in Routine
BY DEF Routine

\* create() keeps the bookkeeping: a recycled id leaves the queue, and as no
\* id is queued twice its slot is named by no remaining entry.
LEMMA CreateKeepsInv ==
  ASSUME OrdinatorInv, NEW f \in Func, Create(f)
  PROVE  OrdinatorInv'
<1>. USE DEF OrdinatorInv, CoTypeOK, OrdinatorOK
<1>0. NewRoutine(f) \in Routine /\ ~NewRoutine(f).finished
  BY DEF NewRoutine, Routine
<1>1. CASE finished = <<>> /\ routines' = Append(routines, NewRoutine(f))
           /\ UNCHANGED finished
  <2>1. CoTypeOK'
    BY <1>0, <1>1 DEF Create
  <2>2. QueuedIdsEnded' /\ QueuedOnce'
    BY <1>1 DEF QueuedIdsEnded, QueuedOnce
  <2>3. EndedIdsQueued'
    BY <1>0, <1>1 DEF EndedIdsQueued
  <2>4. RunningIsLive'
    BY <1>1 DEF Create, RunningIsLive
  <2>. QED
    BY <2>1, <2>2, <2>3, <2>4
<1>2. CASE finished # <<>> /\ finished' = Tail(finished)
           /\ routines' = [routines EXCEPT ![Head(finished)] = NewRoutine(f)]
  <2>1. Head(finished) \in 1 .. Len(routines)
    BY <1>2 DEF QueuedIdsEnded
  <2>2. CoTypeOK'
    BY <1>0, <1>2, <2>1 DEF Create
  <2>3. /\ Len(finished') = Len(finished) - 1
        /\ \A i \in 1 .. Len(finished') :
             finished'[i] = finished[i + 1] /\ i + 1 \in 1 .. Len(finished)
    BY <1>2
  <2>4. \A i \in 1 .. Len(finished') : finished'[i] # Head(finished)
    BY <1>2, <2>3 DEF QueuedOnce
  <2>5. QueuedIdsEnded'
    BY <1>2, <2>1, <2>3, <2>4 DEF QueuedIdsEnded
  <2>6. QueuedOnce'
    <3>. SUFFICES ASSUME NEW i \in 1 .. Len(finished'), NEW j \in 1 .. Len(finished'),
                         finished'[i] = finished'[j]
                  PROVE  i = j
      BY DEF QueuedOnce
    <3>1. i + 1 \in 1 .. Len(finished) /\ j + 1 \in 1 .. Len(finished)
      BY <2>3
    <3>2. finished[i + 1] = finished[j + 1]
      BY <2>3
    <3>3. i + 1 = j + 1
      BY <3>1, <3>2 DEF QueuedOnce
    <3>. QED
      BY <3>3
  <2>7. EndedIdsQueued'
    <3>. SUFFICES ASSUME NEW id \in 1 .. Len(routines'), routines'[id].finished
                  PROVE  \E i \in 1 .. Len(finished') : finished'[i] = id
      BY DEF EndedIdsQueued
    <3>1. id # Head(finished) /\ id \in 1 .. Len(routines) /\ routines[id].finished
      BY <1>0, <1>2, <2>1
    <3>2. PICK k \in 1 .. Len(finished) : finished[k] = id
      BY <3>1 DEF EndedIdsQueued
    <3>3. k - 1 \in 1 .. Len(finished') /\ finished'[k - 1] = id
      BY <1>2, <2>3, <3>1, <3>2
    <3>. QED
      BY <3>3
  <2>8. RunningIsLive'
    BY <1>2 DEF Create, RunningIsLive
  <2>. QED
    BY <2>2, <2>5, <2>6, <2>7, <2>8
<1>. QED
  BY <1>1, <1>2 DEF Create

\* resume() only moves `current` to a live routine.
LEMMA ResumeKeepsInv ==
  ASSUME OrdinatorInv, NEW id, Resume(id)
  PROVE  OrdinatorInv'
BY DEF OrdinatorInv, CoTypeOK, OrdinatorOK, Resume, Resumable,
       QueuedIdsEnded, QueuedOnce, EndedIdsQueued, RunningIsLive

\* Running a routine changes its own stack and nothing else.
LEMMA RunKeepsInv ==
  ASSUME OrdinatorInv, NEW frame \in Frame, Run(frame)
  PROVE  OrdinatorInv'
<1>. USE DEF OrdinatorInv, CoTypeOK, OrdinatorOK
<1>0. current \in 1 .. Len(routines)
  BY DEF Run
<1>1. CoTypeOK'
  <2>0. routines[current] \in Routine
    BY <1>0
  <2>1. [routines[current] EXCEPT !.stack = frame] \in Routine
    BY <2>0, RoutineUpdates, Zenon
  <2>. QED
    BY <1>0, <2>1 DEF Run
<1>2. /\ Len(routines') = Len(routines)
      /\ \A id \in 1 .. Len(routines) : routines'[id].finished = routines[id].finished
  BY DEF Run
<1>3. OrdinatorOK'
  BY <1>2 DEF Run, QueuedIdsEnded, QueuedOnce, EndedIdsQueued, RunningIsLive
<1>. QED
  BY <1>1, <1>3

\* yield() only clears `current`.
LEMMA YieldKeepsInv ==
  ASSUME OrdinatorInv, Yield
  PROVE  OrdinatorInv'
BY DEF OrdinatorInv, CoTypeOK, OrdinatorOK, Yield,
       QueuedIdsEnded, QueuedOnce, EndedIdsQueued, RunningIsLive

\* entry() queues the id of a routine that was live, hence not yet queued.
LEMMA EntryKeepsInv ==
  ASSUME OrdinatorInv, NEW throws \in BOOLEAN, Entry(throws)
  PROVE  OrdinatorInv'
<1>. USE DEF OrdinatorInv, CoTypeOK, OrdinatorOK
<1>0. current \in 1 .. Len(routines) /\ ~routines[current].finished
  BY DEF Entry, RunningIsLive
<1>1. CoTypeOK'
  <2>0. routines[current] \in Routine
    BY <1>0
  <2>1. [routines[current] EXCEPT !.stack = StartFrame, !.finished = TRUE,
                                  !.exception = throws] \in Routine
    BY <2>0, RoutineUpdates, Zenon
  <2>2. routines' \in Seq(Routine) /\ Len(routines') = Len(routines)
    BY <1>0, <2>1 DEF Entry
  <2>. QED
    BY <1>0, <2>2 DEF Entry
<1>2. /\ Len(routines') = Len(routines)
      /\ routines'[current].finished
      /\ \A id \in 1 .. Len(routines) :
           id # current => routines'[id].finished = routines[id].finished
  BY <1>0 DEF Entry
<1>3. /\ Len(finished') = Len(finished) + 1
      /\ finished'[Len(finished')] = current
      /\ \A i \in 1 .. Len(finished) : finished'[i] = finished[i]
  BY <1>0 DEF Entry
<1>4. \A i \in 1 .. Len(finished) : finished[i] # current
  BY <1>0 DEF QueuedIdsEnded
<1>5. QueuedIdsEnded'
  <2>. SUFFICES ASSUME NEW i \in 1 .. Len(finished')
                PROVE  finished'[i] \in 1 .. Len(routines') /\ routines'[finished'[i]].finished
    BY DEF QueuedIdsEnded
  <2>1. CASE i = Len(finished')
    BY <1>0, <1>2, <1>3, <2>1
  <2>2. CASE i \in 1 .. Len(finished)
    BY <1>2, <1>3, <1>4, <2>2 DEF QueuedIdsEnded
  <2>. QED
    BY <1>3, <2>1, <2>2
<1>6. QueuedOnce'
  <2>. SUFFICES ASSUME NEW i \in 1 .. Len(finished'), NEW j \in 1 .. Len(finished'),
                       finished'[i] = finished'[j]
                PROVE  i = j
    BY DEF QueuedOnce
  <2>1. CASE i = Len(finished') \/ j = Len(finished')
    BY <1>3, <1>4, <2>1
  <2>2. CASE i # Len(finished') /\ j # Len(finished')
    <3>1. i \in 1 .. Len(finished) /\ j \in 1 .. Len(finished)
      BY <1>3, <2>2
    <3>. QED
      BY <1>3, <3>1 DEF QueuedOnce
  <2>. QED
    BY <2>1, <2>2
<1>7. EndedIdsQueued'
  <2>. SUFFICES ASSUME NEW id \in 1 .. Len(routines'), routines'[id].finished
                PROVE  \E i \in 1 .. Len(finished') : finished'[i] = id
    BY DEF EndedIdsQueued
  <2>1. CASE id = current
    BY <1>3, <2>1
  <2>2. CASE id # current
    <3>1. PICK k \in 1 .. Len(finished) : finished[k] = id
      BY <1>2, <2>2 DEF EndedIdsQueued
    <3>. QED
      BY <1>3, <3>1
  <2>. QED
    BY <2>1, <2>2
<1>8. RunningIsLive'
  BY DEF Entry, RunningIsLive
<1>. QED
  BY <1>1, <1>5, <1>6, <1>7, <1>8

LEMMA OrdinatorInductive == OrdinatorInv /\ [CoNext]_covars => OrdinatorInv'
<1>. SUFFICES ASSUME OrdinatorInv, [CoNext]_covars
              PROVE  OrdinatorInv'
  OBVIOUS
<1>1. CASE UNCHANGED covars
  BY <1>1 DEF covars, OrdinatorInv, CoTypeOK, OrdinatorOK, QueuedIdsEnded,
              QueuedOnce, EndedIdsQueued, RunningIsLive
<1>. QED
  BY <1>1, CreateKeepsInv, ResumeKeepsInv, RunKeepsInv, YieldKeepsInv,
     EntryKeepsInv DEF CoNext

LEMMA OrdinatorInitially == CoInit => OrdinatorInv
BY DEF CoInit, OrdinatorInv, CoTypeOK, OrdinatorOK, QueuedIdsEnded,
       QueuedOnce, EndedIdsQueued, RunningIsLive

\* The free queue always holds exactly the ended routines, each of them once,
\* and only a live routine runs.
THEOREM OrdinatorSound == CoSpec => [](CoTypeOK /\ OrdinatorOK)
<1>1. CoSpec => []OrdinatorInv
  BY OrdinatorInitially, OrdinatorInductive, PTL DEF CoSpec
<1>. QED
  BY <1>1, PTL DEF OrdinatorInv

\* No step of the library touches a suspended routine other than the one it
\* works on; in particular create() never hands out the slot of a live one.
THEOREM SuspendedUndisturbed == CoSpec => LiveRoutinesKept
<1>. DEFINE Kept == \A id \in 1 .. Len(routines) :
                      ~routines[id].finished /\ current # id
                        => id \in 1 .. Len(routines') /\ routines'[id] = routines[id]
<1>1. ASSUME OrdinatorInv, CoNext PROVE Kept
  <2>. SUFFICES ASSUME NEW id \in 1 .. Len(routines),
                       ~routines[id].finished, current # id
                PROVE  id \in 1 .. Len(routines') /\ routines'[id] = routines[id]
    OBVIOUS
  <2>. USE <1>1 DEF OrdinatorInv, CoTypeOK, OrdinatorOK
  <2>1. ASSUME NEW f \in Func, Create(f)
        PROVE  id \in 1 .. Len(routines') /\ routines'[id] = routines[id]
    <3>1. CASE finished = <<>> /\ routines' = Append(routines, NewRoutine(f))
      BY <3>1
    <3>2. CASE finished # <<>>
               /\ routines' = [routines EXCEPT ![Head(finished)] = NewRoutine(f)]
      <4>1. Head(finished) # id
        BY <3>2 DEF QueuedIdsEnded
      <4>. QED
        BY <3>2, <4>1
    <3>. QED
      BY <2>1, <3>1, <3>2 DEF Create
  <2>2. ASSUME NEW i, Resume(i)
        PROVE  id \in 1 .. Len(routines') /\ routines'[id] = routines[id]
    BY <2>2 DEF Resume
  <2>3. ASSUME NEW frame \in Frame, Run(frame)
        PROVE  id \in 1 .. Len(routines') /\ routines'[id] = routines[id]
    BY <2>3 DEF Run
  <2>4. CASE Yield
    BY <2>4 DEF Yield
  <2>5. ASSUME NEW throws \in BOOLEAN, Entry(throws)
        PROVE  id \in 1 .. Len(routines') /\ routines'[id] = routines[id]
    BY <2>5 DEF Entry
  <2>. QED
    BY <1>1, <2>1, <2>2, <2>3, <2>4, <2>5 DEF CoNext
<1>2. OrdinatorInv /\ [CoNext]_covars => [Kept]_covars
  BY <1>1
<1>3. CoSpec => []OrdinatorInv
  BY OrdinatorInitially, OrdinatorInductive, PTL DEF CoSpec
<1>. QED
  BY <1>2, <1>3, PTL DEF CoSpec, LiveRoutinesKept

=============================================================================
