----------------------------- MODULE SharedMap ------------------------------
(***************************************************************************)
(* What shmem::ShmemMap promises to the processes that share it: every     *)
(* call takes effect at one instant between its invocation and its return. *)
(* An insertion of a new key may fail, and then changes nothing.  A        *)
(* process that dies leaves the map as it was before or after its call.    *)
(***************************************************************************)
CONSTANTS Proc, Keys, Vals

VARIABLES
  dict,   \* the map
  phase,  \* per process: where its call is
  call,   \* per process: the call
  result  \* per process: what the call returns or throws

mapvars == <<dict, phase, call, result>>

Call ==
  [name : {"insert_or_assign"}, key : Keys, val : Vals]
    \cup [name : {"erase", "at"}, key : Keys]

MapInit ==
  /\ dict = << >>
  /\ phase = [p \in Proc |-> "idle"]
  /\ call \in [Proc -> {[name |-> "none"]}]
  /\ result = [p \in Proc |-> "none"]

Invoke(p, c) ==
  /\ phase[p] = "idle"
  /\ phase' = [phase EXCEPT ![p] = "called"]
  /\ call' = [call EXCEPT ![p] = c]
  /\ UNCHANGED <<dict, result>>

\* The call takes effect: the map becomes d and the call will return r.
Effect(p, d, r) ==
  /\ phase[p] = "called"
  /\ dict' = d
  /\ result' = [result EXCEPT ![p] = r]
  /\ phase' = [phase EXCEPT ![p] = "done"]
  /\ UNCHANGED call

With(k, v) == [x \in DOMAIN dict \cup {k} |-> IF x = k THEN v ELSE dict[x]]
Without(k) == [x \in DOMAIN dict \ {k} |-> dict[x]]

DoInsert(p) ==
  /\ call[p].name = "insert_or_assign"
  /\ \/ Effect(p, With(call[p].key, call[p].val), "done")
     \/ call[p].key \notin DOMAIN dict /\ Effect(p, dict, "bad_alloc")

DoErase(p) ==
  /\ call[p].name = "erase"
  /\ Effect(p, Without(call[p].key),
            IF call[p].key \in DOMAIN dict THEN "one" ELSE "zero")

DoAt(p) ==
  /\ call[p].name = "at"
  /\ Effect(p, dict,
            IF call[p].key \in DOMAIN dict THEN dict[call[p].key] ELSE "out_of_range")

Finish(p) ==
  /\ phase[p] = "done"
  /\ phase' = [phase EXCEPT ![p] = "idle"]
  /\ call' = [call EXCEPT ![p] = [name |-> "none"]]
  /\ result' = [result EXCEPT ![p] = "none"]
  /\ UNCHANGED dict

Die(p) ==
  /\ phase' = [phase EXCEPT ![p] = "dead"]
  /\ UNCHANGED <<dict, call, result>>

MapNext ==
  \E p \in Proc :
    \/ \E c \in Call : Invoke(p, c)
    \/ DoInsert(p) \/ DoErase(p) \/ DoAt(p) \/ Finish(p) \/ Die(p)

MapSpec == MapInit /\ [][MapNext]_mapvars
=============================================================================
