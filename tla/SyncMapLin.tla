----------------------------- MODULE SyncMapLin -----------------------------
(***************************************************************************)
(* SyncMap with a history variable, and the mapping under which it         *)
(* implements MapSpec.                                                     *)
(***************************************************************************)
EXTENDS SyncMap

VARIABLE seen   \* history: see MapSpec

(***************************************************************************)
(* The abstract map: a key's entry is the one in read, else the one in     *)
(* dirty.                                                                  *)
(***************************************************************************)
EntryAt(k) == IF Has(read.m, k) THEN read.m[k] ELSE dirty[k]
ValueOf(e) == IF e # NoEntry /\ Live(p[e]) THEN p[e] ELSE NULL
AbsMap == [k \in Key |-> ValueOf(EntryAt(k))]

\* A load_and_delete that removed the entry from dirty took effect then; it
\* still has to read the value it will return.
Detached(t) == ent[t] # EntryAt(KeyOf(t)) /\ Live(p[ent[t]])

Phase(t) ==
  CASE pc[t] = "idle" -> "idle"
    [] pc[t] \in {"done", "los_miss"} -> "done"
    [] pc[t] = "lad_entry" -> IF Detached(t) THEN "done" ELSE "called"
    [] OTHER -> "called"

Res(t) ==
  CASE pc[t] \in {"done", "los_miss"} -> out[t]
    [] pc[t] = "lad_entry" -> IF Detached(t)
                              THEN [NoResult EXCEPT ![KeyOf(t)] = p[ent[t]]]
                              ELSE NoResult
    [] OTHER -> NoResult

AbsPhase == [t \in Thread |-> Phase(t)]

Map == INSTANCE MapSpec WITH
  map <- AbsMap, phase <- AbsPhase, res <- [t \in Thread |-> Res(t)]

SeenBy(t, k) == AbsPhase[t] = "called" /\ k \in Map!KeysOf(call[t])

LinInit == Init /\ seen = [t \in Thread |-> [k \in Key |-> {}]]

LinNext ==
  /\ Next
  /\ seen' = [t \in Thread |-> [k \in Key |->
                IF SeenBy(t, k)' THEN seen[t][k] \cup {AbsMap'[k]} ELSE {}]]

linVars == <<vars, seen>>

LinSpec == LinInit /\ [][LinNext]_linVars

(***************************************************************************)
(* Every behaviour of the map, with any interleaving of its lock-free and  *)
(* locked paths, is one of a linearizable map.                             *)
(***************************************************************************)
Linearizable == Map!Spec
=============================================================================
