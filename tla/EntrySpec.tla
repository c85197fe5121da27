----------------------------- MODULE EntrySpec -----------------------------
(***************************************************************************)
(* What one Entry of src/sync_map.rs promises the operations of the map:   *)
(* its methods act on one cell, each at one instant between its call and   *)
(* its return.  SyncMap takes the methods to be these atomic actions.      *)
(***************************************************************************)
EXTENDS Naturals

CONSTANTS Thread, Op, NULL, EXPUNGED, MaxCalls

VARIABLES
  cell,    \* the number of the call that stored the value, NULL or EXPUNGED
  ncalls,  \* calls begun so far
  phase,   \* per thread: "idle", "called" or "done"
  call,    \* per thread: the method and the number of the call
  res      \* per thread: the value found, if any, and whether it succeeded

vars == <<cell, ncalls, phase, call, res>>

NoCall == [op |-> "none", id |-> 0]
NoResult == [value |-> NULL, ok |-> FALSE]
Found(v) == [value |-> v, ok |-> TRUE]
Failed == [value |-> NULL, ok |-> FALSE]
HasValue == cell \notin {NULL, EXPUNGED}

Init ==
  /\ cell = NULL
  /\ ncalls = 0
  /\ phase = [t \in Thread |-> "idle"]
  /\ call = [t \in Thread |-> NoCall]
  /\ res = [t \in Thread |-> NoResult]

Invoke(t) ==
  /\ phase[t] = "idle" /\ ncalls < MaxCalls
  /\ ncalls' = ncalls + 1
  /\ phase' = [phase EXCEPT ![t] = "called"]
  /\ \E o \in Op : call' = [call EXCEPT ![t] = [op |-> o, id |-> ncalls']]
  /\ UNCHANGED <<cell, res>>

\* The value c of the cell and the result r that a method leaves.
Outcome(o, id, c, r) ==
  CASE o = "load" ->
         c = cell /\ r = IF HasValue THEN Found(cell) ELSE Failed
    [] o = "try_store" ->
         IF cell = EXPUNGED THEN c = cell /\ r = Failed
                            ELSE c = id /\ r = Found(NULL)
    [] o = "store_locked" -> c = id /\ r = Found(NULL)
    [] o = "unexpunge_locked" ->
         IF cell = EXPUNGED THEN c = NULL /\ r = Found(NULL)
                            ELSE c = cell /\ r = Failed
    [] o = "try_expunge_locked" ->
         IF HasValue THEN c = cell /\ r = Failed
                     ELSE c = EXPUNGED /\ r = Found(NULL)
    [] o = "try_load_or_store" ->
         CASE cell = EXPUNGED -> c = cell /\ r = Failed
           [] cell = NULL -> c = id /\ r = Found(NULL)
           [] OTHER -> c = cell /\ r = Found(cell)
    [] o = "delete" ->
         IF HasValue THEN c = NULL /\ r = Found(cell)
                     ELSE c = cell /\ r = Failed

Effect(t) ==
  /\ phase[t] = "called"
  /\ \E c \in (1 .. MaxCalls) \cup {NULL, EXPUNGED},
        v \in (1 .. MaxCalls) \cup {NULL}, ok \in BOOLEAN :
       /\ Outcome(call[t].op, call[t].id, c, [value |-> v, ok |-> ok])
       /\ cell' = c
       /\ res' = [res EXCEPT ![t] = [value |-> v, ok |-> ok]]
  /\ phase' = [phase EXCEPT ![t] = "done"]
  /\ UNCHANGED <<ncalls, call>>

Return(t) ==
  /\ phase[t] = "done"
  /\ phase' = [phase EXCEPT ![t] = "idle"]
  /\ call' = [call EXCEPT ![t] = NoCall]
  /\ res' = [res EXCEPT ![t] = NoResult]
  /\ UNCHANGED <<cell, ncalls>>

Next == \E t \in Thread : Invoke(t) \/ Effect(t) \/ Return(t)

Spec == Init /\ [][Next]_vars
=============================================================================
