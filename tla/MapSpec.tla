------------------------------ MODULE MapSpec ------------------------------
(***************************************************************************)
(* What a linearizable map promises its callers, whatever is inside.  A    *)
(* call takes effect at one instant between its invocation and its return. *)
(* Calls that leave the map alone may choose any instant: `seen' collects, *)
(* for every call in progress, the values its keys have had since it was   *)
(* invoked.  keys, values and key_values promise less: each key is read at *)
(* an instant of its own.                                                  *)
(***************************************************************************)
EXTENDS Naturals

CONSTANTS Thread, Key, NoKey, Ops, MaxCalls

NULL == 0
Call == 1 .. MaxCalls

VARIABLES
  map,      \* the value of every key, NULL when it has none
  ncalls,   \* calls begun so far; a call's number is the value it stores
  phase,    \* per thread: "idle", "called" or "done" (it has taken effect)
  call,     \* per thread: the call
  seen,     \* per thread, by key: values since the call was invoked
  res       \* per thread, by key: the result

vars == <<map, ncalls, phase, call, seen, res>>

NoResult == [k \in Key |-> NULL]
NoCall == [op |-> "none", key |-> NoKey, id |-> 0]
KeysOf(c) == IF c.op = "range" THEN Key ELSE {c.key}

Init ==
  /\ map = [k \in Key |-> NULL]
  /\ ncalls = 0
  /\ phase = [t \in Thread |-> "idle"]
  /\ call = [t \in Thread |-> NoCall]
  /\ seen = [t \in Thread |-> [k \in Key |-> {}]]
  /\ res = [t \in Thread |-> NoResult]

\* Every step adds the new value of a key to what the pending calls saw.
Observe ==
  seen' = [t \in Thread |-> [k \in Key |->
             IF phase'[t] = "called" /\ k \in KeysOf(call'[t])
             THEN seen[t][k] \cup {map'[k]} ELSE {}]]

Invoke(t) ==
  /\ phase[t] = "idle"
  /\ ncalls < MaxCalls
  /\ ncalls' = ncalls + 1
  /\ phase' = [phase EXCEPT ![t] = "called"]
  /\ \E o \in Ops, k \in Key \cup {NoKey} :
       call' = [call EXCEPT ![t] = [op |-> o, key |-> k, id |-> ncalls']]
  /\ UNCHANGED <<map, res>>
  /\ Observe

Result(t, v) == res' = [res EXCEPT ![t] = [NoResult EXCEPT ![call[t].key] = v]]
Put(t, v) == map' = [map EXCEPT ![call[t].key] = v]

Load(t) ==
  /\ call[t].op = "load"
  /\ \E v \in seen[t][call[t].key] : Result(t, v)
  /\ UNCHANGED map

Store(t) ==
  /\ call[t].op = "store"
  /\ Put(t, call[t].id)
  /\ Result(t, NULL)

\* What a call that stored its value answers is not the same in all cases.
LoadOrStore(t) ==
  /\ call[t].op = "load_or_store"
  /\ \/ /\ \E v \in seen[t][call[t].key] \ {NULL} : Result(t, v)
        /\ UNCHANGED map
     \/ /\ map[call[t].key] = NULL
        /\ Put(t, call[t].id)
        /\ Result(t, NULL) \/ Result(t, call[t].id)

LoadAndDelete(t) ==
  /\ call[t].op = "load_and_delete"
  /\ \/ /\ NULL \in seen[t][call[t].key]
        /\ Result(t, NULL)
        /\ UNCHANGED map
     \/ /\ map[call[t].key] # NULL
        /\ Put(t, NULL)
        /\ Result(t, map[call[t].key])

Range(t) ==
  /\ call[t].op = "range"
  /\ \E r \in [Key -> Call \cup {NULL}] :
       /\ \A k \in Key : r[k] \in seen[t][k]
       /\ res' = [res EXCEPT ![t] = r]
  /\ UNCHANGED map

Effect(t) ==
  /\ phase[t] = "called"
  /\ Load(t) \/ Store(t) \/ LoadOrStore(t) \/ LoadAndDelete(t) \/ Range(t)
  /\ phase' = [phase EXCEPT ![t] = "done"]
  /\ UNCHANGED <<ncalls, call>>
  /\ Observe

Return(t) ==
  /\ phase[t] = "done"
  /\ phase' = [phase EXCEPT ![t] = "idle"]
  /\ call' = [call EXCEPT ![t] = NoCall]
  /\ res' = [res EXCEPT ![t] = NoResult]
  /\ UNCHANGED <<map, ncalls>>
  /\ Observe

Next == \E t \in Thread : Invoke(t) \/ Effect(t) \/ Return(t)

Spec == Init /\ [][Next]_vars
=============================================================================
