-------------------------- MODULE SyncMapLinProofs --------------------------
(***************************************************************************)
(* The map is linearizable for every set of threads and keys and any       *)
(* number of calls: SyncMap implements MapSpec.                            *)
(***************************************************************************)
EXTENDS SyncMapLin, SyncMapOwnership

(***************************************************************************)
(* The inductive invariant: OInv, and what relates the history to the      *)
(* entries that threads have at hand.                                      *)
(***************************************************************************)

\* Where the calls of each kind are before they have an answer.
OpAt ==
  [load |-> {"load", "load_lock", "load_entry"},
   load_and_delete |-> {"load_and_delete", "lad_lock", "lad_entry"},
   store |-> {"store", "store_try", "store_lock", "store_swap"},
   load_or_store |-> {"load_or_store", "los_try", "los_lock", "los_retry"},
   range |-> {"range", "range_lock", "range_entry"}]

OpsPlaced ==
  \A t \in Thread :
    /\ \A o \in Op : pc[t] \in OpAt[o] => call[t].op = o
    /\ pc[t] = "dirty_locked" => call[t].op \in {"store", "load_or_store"}
    /\ pc[t] \in {"idle", "range", "range_lock"} => out[t] = NoResult

\* The history of a key begins with the call that asks for it and holds its
\* present value.
SeenOK ==
  /\ seen \in [Thread -> [Key -> SUBSET Result]]
  /\ \A t \in Thread, k \in Key :
       IF SeenBy(t, k) THEN AbsMap[k] \in seen[t][k] ELSE seen[t][k] = {}

\* An entry at hand for key k is the one of k, or k has had both the value
\* that the entry still holds and none since the call began.
Tracked(e, k, values) == e = Current(k) \/ {NULL, ValueOf(e)} \subseteq values

UsedTracked ==
  \A t \in Thread :
    pc[t] = "load_entry" \/ (pc[t] = "lad_entry" /\ ~Detached(t)) =>
      Tracked(ent[t], KeyOf(t), seen[t][KeyOf(t)])

RangeTracked ==
  \A t \in Thread, k \in Key : pc[t] = "range_entry" =>
    IF Has(iter[t], k) THEN Tracked(iter[t][k], k, seen[t][k])
                       ELSE out[t][k] \in seen[t][k]

\* The entry that a load_and_delete will empty is in read, or in no map:
\* the call found it in read or has taken it out of dirty.
DeletesRouted ==
  \A t \in Thread : pc[t] = "lad_entry" /\ Under(ent[t], KeyOf(t)) =>
    read.m[KeyOf(t)] = ent[t]

\* No other load_and_delete has the entry that one has taken out of dirty.
OneDetacher ==
  \A t, u \in Thread :
    pc[t] = "lad_entry" /\ pc[u] = "lad_entry" /\ ent[t] = ent[u] /\ Detached(t) =>
      t = u

LInv ==
  /\ OInv
  /\ OpsPlaced
  /\ SeenOK
  /\ UsedTracked
  /\ RangeTracked
  /\ DeletesRouted
  /\ OneDetacher

-----------------------------------------------------------------------------
(***************************************************************************)
(* What the steps do to the entry of a key and to the abstract map.        *)
(***************************************************************************)

\* load_and_delete takes the entry of its key out of dirty.
Detaches(t) ==
  /\ Publishes(t)
  /\ ~Has(read.m, KeyOf(t))
  /\ pc'[t] = "lad_entry" /\ ent'[t] = dirty[KeyOf(t)]

\* The abstract value of a key is that of its entry, before and after a step.
LEMMA AbsOf ==
  ASSUME NEW k \in Key
  PROVE  /\ EntryAt(k) = Current(k) /\ AbsMap[k] = ValueOf(Current(k))
         /\ EntryAt(k)' = Current(k)' /\ AbsMap'[k] = ValueOf(Current(k))'
BY DEF EntryAt, Current, AbsMap

\* The entry of a key and its value, by type.
LEMMA CurrentTyped ==
  ASSUME TypeOK
  PROVE  /\ \A k \in Key : Current(k) \in Call \cup {NoEntry}
         /\ \A k \in Key : AbsMap[k] \in Result
         /\ \A e : ValueOf(e) \in Result
         /\ NoEntry \notin Call /\ NULL \notin Call /\ EXPUNGED \notin Call
         /\ ValueOf(NoEntry) = NULL
BY EntryTypes, AbsOf
   DEF Current, ValueOf, Live, Result, Has, NoEntry, NULL, EXPUNGED, Call

\* An entry in a map is the one of its key, and of no other.
LEMMA UnderCurrent ==
  ASSUME IInv, NEW e \in Call, NEW k \in Key
  PROVE  /\ Under(e, k) <=> e = Current(k)
         /\ \A k2 \in Key : Under(e, k2) /\ Under(e, k) => k2 = k
<1>1. /\ TypeOK /\ DirtyMirrorsRead /\ EntriesDistinct /\ NoEntry \notin Call
  BY CurrentTyped DEF IInv
<1>2. Under(e, k) => e = Current(k)
  BY <1>1 DEF Under, Current, Has, DirtyMirrorsRead, NoEntries
<1>3. e = Current(k) => Under(e, k)
  BY <1>1 DEF Under, Current
<1> QED BY <1>1, <1>2, <1>3 DEF EntriesDistinct

\* What becomes of the entry of a key: it is dropped when dirty is promoted
\* without it, which means that it was expunged; it is taken out of dirty;
\* it is inserted.
LEMMA CurrentStep ==
  ASSUME OInv, NEW t \in Thread, Actions(t), NEW k \in Key
  PROVE  \/ Current(k)' = Current(k)
         \/ /\ Publishes(t) /\ Current(k) \in Call /\ p[Current(k)] = EXPUNGED
            /\ Current(k)' = NoEntry
         \/ Detaches(t) /\ k = KeyOf(t) /\ Current(k)' = NoEntry
         \/ Inserts(t) /\ k = KeyOf(t) /\ Current(k) = NoEntry /\ Current(k)' = BoxOf(t)
<1>0. Kinds(t) /\ TypeOK /\ IInv /\ DirtyMirrorsRead
  BY KindStep DEF OInv, IInv
<1>1. CASE Quiet(t) \/ Stores(t) \/ Deletes(t) \/ Marks(t)
  BY <1>1 DEF Quiet, Stores, Deletes, Marks, Current
<1>2. CASE Publishes(t)
  <2>1. PICK d \in EntryMap :
          /\ \A k2 \in Key :
               \/ d[k2] = dirty[k2]
               \/ /\ d[k2] = NoEntry /\ ~Has(read.m, k2)
                  /\ k2 = KeyOf(t) /\ pc'[t] = "lad_entry" /\ ent'[t] = dirty[k2]
          /\ MissLocked(d) \/ Promote(d)
    BY <1>2 DEF Publishes
  <2>2. \/ read' = [m |-> d, amended |-> FALSE] /\ dirty' = NoEntries
        \/ UNCHANGED read /\ dirty' = d
    BY <2>1, MissPublishes
  <2>3. Has(read.m, k) => dirty[k] = IF p[read.m[k]] = EXPUNGED THEN NoEntry ELSE read.m[k]
    BY <1>0, <1>2 DEF Publishes, DirtyMirrorsRead
  <2>4. read.m[k] \in Call \cup {NoEntry} /\ dirty[k] \in Call \cup {NoEntry}
    BY <1>0, EntryTypes
  <2>5. CASE d[k] = dirty[k]
    <3>1. CASE UNCHANGED read /\ dirty' = d
      BY <2>5, <3>1 DEF Current
    <3>2. CASE read' = [m |-> d, amended |-> FALSE] /\ dirty' = NoEntries
      <4>1. Current(k)' = dirty[k]
        BY <2>5, <3>2 DEF Current, Has, NoEntries
      <4>2. CASE Has(read.m, k)
        BY <1>2, <2>3, <2>4, <4>1, <4>2 DEF Current, Has
      <4>3. CASE ~Has(read.m, k)
        BY <4>1, <4>3 DEF Current
      <4> QED BY <4>2, <4>3
    <3> QED BY <2>2, <3>1, <3>2
  <2>6. CASE /\ d[k] = NoEntry /\ ~Has(read.m, k)
             /\ k = KeyOf(t) /\ pc'[t] = "lad_entry" /\ ent'[t] = dirty[k]
    <3>1. Current(k)' = NoEntry
      BY <2>2, <2>6 DEF Current, Has, NoEntries
    <3> QED BY <1>2, <2>6, <3>1 DEF Detaches
  <2> QED BY <2>1, <2>5, <2>6
<1>3. CASE Unmarks(t)
  BY <1>0, <1>3 DEF Unmarks, Current, TypeOK, EntryMap
<1>4. CASE Inserts(t)
  <2>1. /\ read'.m = read.m /\ dirty'[KeyOf(t)] = BoxOf(t)
        /\ ~Has(read.m, KeyOf(t)) /\ ~Has(dirty, KeyOf(t))
        /\ k # KeyOf(t) /\ ~Has(read.m, k) => dirty'[k] = dirty[k]
    BY <1>4 DEF Inserts
  <2>2. CASE k = KeyOf(t)
    BY <1>4, <2>1, <2>2 DEF Current, Has
  <2>3. CASE k # KeyOf(t)
    BY <2>1, <2>3 DEF Current
  <2> QED BY <2>2, <2>3
<1> QED BY <1>0, <1>1, <1>2, <1>3, <1>4 DEF Kinds

\* A step changes the pointer of an inserted entry by a store to the entry of
\* its key, by a deletion, or by marking or unmarking it.
LEMMA PointerStep ==
  ASSUME OInv, NEW t \in Thread, Actions(t), NEW e \in Call, Entered(e)
  PROVE  \/ p'[e] = p[e]
         \/ Stores(t) /\ e = Current(KeyOf(t)) /\ KeyOf(t) \in Key
         \/ Deletes(t) /\ e = ent[t] /\ p'[e] = NULL
         \/ ~Live(p[e]) /\ ~Live(p'[e])
<1>0. Kinds(t) /\ TypeOK /\ CallsDistinct /\ IInv
  BY KindStep DEF OInv, IInv
<1>1. CASE Quiet(t) \/ Publishes(t)
  BY <1>1 DEF Quiet, Publishes
<1>2. CASE Stores(t)
  BY <1>0, <1>2 DEF Stores, EntrySwap, TypeOK, CallsDistinct
<1>3. CASE Deletes(t)
  BY <1>0, <1>3 DEF Deletes, EntrySwap, TypeOK
<1>4. CASE Unmarks(t)
  BY <1>0, <1>4 DEF Unmarks, TypeOK, Live, Call, NULL, EXPUNGED
<1>5. CASE Marks(t)
  BY <1>0, <1>5 DEF Marks, TypeOK, Live, Call, EXPUNGED
<1>6. CASE Inserts(t)
  <2>1. e # BoxOf(t)
    BY <1>6, InsertEnters
  <2> QED BY <1>0, <1>6, <2>1 DEF Inserts, TypeOK
<1> QED BY <1>0, <1>1, <1>2, <1>3, <1>4, <1>5, <1>6 DEF Kinds

\* The value of a key changes only by a step of a call on that key.
LEMMA AbsOthers ==
  ASSUME OInv, NEW t \in Thread, Actions(t), NEW k \in Key, k # KeyOf(t)
  PROVE  AbsMap'[k] = AbsMap[k]
<1>0. TypeOK /\ IInv /\ UsesOneKey
  BY DEF OInv, IInv
<1>1. CASE Current(k)' # Current(k)
  <2>1. Current(k) \in Call /\ p[Current(k)] = EXPUNGED /\ Current(k)' = NoEntry
    BY <1>1, CurrentStep
  <2> QED BY <1>0, <2>1, AbsOf, CurrentTyped DEF ValueOf, Live
<1>2. CASE Current(k)' = Current(k) /\ Current(k) \notin Call
  BY <1>0, <1>2, AbsOf, CurrentTyped DEF ValueOf
<1>3. CASE Current(k)' = Current(k) /\ Current(k) \in Call
  <2> DEFINE e == Current(k)
  <2>1. Under(e, k) /\ Entered(e)
    BY <1>0, <1>3, UnderCurrent, UnderEntered
  <2>2. ~(Stores(t) /\ e = Current(KeyOf(t)) /\ KeyOf(t) \in Key)
    BY <1>0, <1>3, <2>1, UnderCurrent
  <2>3. ~(Deletes(t) /\ e = ent[t])
    <3> SUFFICES ASSUME Deletes(t), e = ent[t] PROVE FALSE
      OBVIOUS
    <3>1. KeyOf(t) \in Key
      BY <1>0 DEF Deletes, IInv, CallsDistinct, Keyless
    <3>2. UsedBy(t, e, KeyOf(t))
      BY DEF Deletes, UsedBy, UsesEntry
    <3> QED BY <1>0, <1>3, <2>1, <3>1, <3>2 DEF UsesOneKey
  <2>4. p'[e] = p[e] \/ (~Live(p[e]) /\ ~Live(p'[e]))
    BY <1>3, <2>1, <2>2, <2>3, PointerStep
  <2> QED BY <1>3, <2>4, AbsOf DEF ValueOf
<1> QED BY <1>1, <1>2, <1>3

\* An entry stays tracked, by a history that goes on.
LEMMA TrackedStep ==
  ASSUME OInv, NEW t \in Thread, Actions(t),
         NEW k \in Key, NEW e \in Call, Entered(e),
         \A k2 \in Key : Under(e, k2) => k2 = k,
         NEW before, NEW after, before \subseteq after,
         AbsMap[k] \in before, AbsMap'[k] \in after,
         Tracked(e, k, before)
  PROVE  e = Current(k)' \/ (NULL \in after /\ ValueOf(e)' \in after)
<1>0. TypeOK /\ IInv
  BY DEF OInv, IInv
<1>1. CASE e = Current(k) /\ e # Current(k)'
  <2>1. (Publishes(t) /\ Current(k)' = NoEntry)
    BY <1>0, <1>1, CurrentStep, CurrentTyped DEF Detaches, Publishes
  <2>2. UNCHANGED p
    BY <2>1 DEF Publishes
  <2>3. AbsMap[k] = ValueOf(e)' /\ AbsMap'[k] = NULL
    BY <1>0, <1>1, <2>1, <2>2, AbsOf, CurrentTyped DEF ValueOf
  <2> QED BY <2>3
<1>2. CASE e # Current(k)
  <2>1. {NULL, ValueOf(e)} \subseteq before
    BY <1>2 DEF Tracked
  <2>2. ~(e = Current(KeyOf(t)) /\ KeyOf(t) \in Key)
    BY <1>0, <1>2, UnderCurrent
  <2>3. p'[e] = p[e] \/ ~Live(p'[e])
    BY <1>0, <2>2, PointerStep, CurrentTyped DEF Live
  <2> QED BY <2>1, <2>3 DEF ValueOf
<1> QED BY <1>1, <1>2

-----------------------------------------------------------------------------
(***************************************************************************)
(* What a caller sees of the threads that do not step.                     *)
(***************************************************************************)

\* The phase and the result of a thread at each of its places.
LEMMA PhaseOf ==
  ASSUME NEW t \in Thread
  PROVE  /\ pc[t] = "idle" => Phase(t) = "idle" /\ Res(t) = NoResult
         /\ pc[t] \in {"done", "los_miss"} => Phase(t) = "done" /\ Res(t) = out[t]
         /\ pc[t] = "lad_entry" /\ Detached(t) =>
              Phase(t) = "done" /\ Res(t) = [NoResult EXCEPT ![KeyOf(t)] = p[ent[t]]]
         /\ pc[t] = "lad_entry" /\ ~Detached(t) => Phase(t) = "called" /\ Res(t) = NoResult
         /\ pc[t] \notin {"idle", "done", "los_miss", "lad_entry"} =>
              Phase(t) = "called" /\ Res(t) = NoResult
         /\ AbsPhase[t] = Phase(t)
<1>1. pc[t] = "idle" => Phase(t) = "idle" /\ Res(t) = NoResult
  BY DEF Phase, Res
<1>2. pc[t] \in {"done", "los_miss"} => Phase(t) = "done" /\ Res(t) = out[t]
  BY DEF Phase, Res
<1>3. pc[t] = "lad_entry" =>
        /\ Phase(t) = IF Detached(t) THEN "done" ELSE "called"
        /\ Res(t) = IF Detached(t) THEN [NoResult EXCEPT ![KeyOf(t)] = p[ent[t]]]
                                   ELSE NoResult
  BY DEF Phase, Res
<1>4. pc[t] \notin {"idle", "done", "los_miss", "lad_entry"} =>
        Phase(t) = "called" /\ Res(t) = NoResult
  BY DEF Phase, Res
<1>5. AbsPhase[t] = Phase(t)
  BY DEF AbsPhase
<1> QED BY <1>1, <1>2, <1>3, <1>4, <1>5

\* The entry of a load_and_delete at hand.
LEMMA AtLad ==
  ASSUME OInv, NEW t \in Thread, pc[t] \in {"load_entry", "lad_entry"}
  PROVE  /\ ent[t] \in Call /\ KeyOf(t) \in Key /\ Entered(ent[t])
         /\ \A k \in Key : Under(ent[t], k) => k = KeyOf(t)
         /\ Detached(t) <=> ent[t] # Current(KeyOf(t)) /\ Live(p[ent[t]])
<1>1. ent[t] \in Call /\ KeyOf(t) \in Key
  BY DEF OInv, IInv, UsesOneKey, UsesEntry, CallsDistinct, Keyless
<1>2. UsedBy(t, ent[t], KeyOf(t))
  BY DEF UsedBy, UsesEntry
<1>3. Entered(ent[t]) /\ \A k \in Key : Under(ent[t], k) => k = KeyOf(t)
  BY <1>1, <1>2 DEF OInv, UsesOneKey
<1> QED BY <1>1, <1>3, AbsOf DEF Detached

\* A step of another thread neither takes the entry of a load_and_delete out
\* of dirty nor changes one that was taken out.
LEMMA OthersDetached ==
  ASSUME LInv, NEW t \in Thread, Actions(t), NEW u \in Thread \ {t},
         pc[u] = "lad_entry"
  PROVE  /\ Detached(u)' <=> Detached(u)
         /\ Detached(u) => p'[ent[u]] = p[ent[u]]
<1>0. OInv /\ TypeOK /\ IInv /\ DeletesRouted /\ OneDetacher /\ Frame(t)
  BY StepFrame DEF LInv, OInv, IInv, Actions, Step
<1>a. PICK e \in Call, k \in Key : e = ent[u] /\ k = KeyOf(u)
  BY <1>0, AtLad
<1>1. /\ Entered(e) /\ \A k2 \in Key : Under(e, k2) => k2 = k
      /\ Detached(u) <=> e # Current(k) /\ Live(p[e])
  BY <1>0, <1>a, AtLad
<1>2. Detached(u)' <=> e # Current(k)' /\ Live(p'[e])
  BY <1>0, <1>a, AbsOf DEF Detached, Frame, KeyOf
<1>3. CASE e = Current(k)
  <2>1. Under(e, k) /\ Has(read.m, k)
    BY <1>0, <1>a, <1>1, <1>3, UnderCurrent DEF DeletesRouted, Has, Under
  <2>2. Current(k)' = e \/ (Publishes(t) /\ p[e] = EXPUNGED)
    BY <1>0, <1>1, <1>3, <2>1, CurrentStep, CurrentTyped DEF Detaches
  <2>3. Current(k)' = e \/ ~Live(p'[e])
    BY <1>0, <2>2, CurrentTyped DEF Publishes, Live
  <2> QED BY <1>a, <1>1, <1>2, <1>3, <2>3
<1>4. CASE e # Current(k)
  <2>1. Current(k)' # e
    BY <1>0, <1>1, <1>4, CurrentStep, InsertEnters, CurrentTyped
  <2>2. ~(e = Current(KeyOf(t)) /\ KeyOf(t) \in Key)
    BY <1>0, <1>1, <1>4, UnderCurrent
  <2>3. ~(Deletes(t) /\ e = ent[t])
    BY <1>0, <1>a, <1>1, <1>4 DEF Deletes, OneDetacher
  <2>4. p'[e] = p[e] \/ (~Live(p[e]) /\ ~Live(p'[e]))
    BY <1>0, <1>1, <2>2, <2>3, PointerStep
  <2> QED BY <1>a, <1>1, <1>2, <1>4, <2>1, <2>4
<1> QED BY <1>3, <1>4

\* Their phases and results stay.
LEMMA OthersSame ==
  ASSUME LInv, NEW t \in Thread, Actions(t), NEW u \in Thread \ {t}
  PROVE  Phase(u)' = Phase(u) /\ Res(u)' = Res(u)
<1>0. pc'[u] = pc[u] /\ call'[u] = call[u] /\ ent'[u] = ent[u] /\ out'[u] = out[u]
      /\ KeyOf(u)' = KeyOf(u)
  BY StepFrame, OutFrame DEF LInv, OInv, IInv, Actions, Step, Frame, KeyOf
<1>1. CASE pc[u] = "lad_entry"
  <2>1. Detached(u)' <=> Detached(u)
    BY <1>1, OthersDetached
  <2>2. Detached(u) => p'[ent'[u]] = p[ent[u]]
    BY <1>0, <1>1, OthersDetached
  <2>3. Phase(u)' = IF Detached(u)' THEN "done" ELSE "called"
    BY <1>0, <1>1 DEF Phase
  <2>4. Res(u)' = IF Detached(u)' THEN [NoResult EXCEPT ![KeyOf(u)] = p'[ent'[u]]]
                                  ELSE NoResult
    BY <1>0, <1>1 DEF Res, NoResult
  <2> QED BY <1>0, <1>1, <2>1, <2>2, <2>3, <2>4, PhaseOf
<1>2. CASE pc[u] # "lad_entry"
  BY <1>0, <1>2 DEF Phase, Res, NoResult
<1> QED BY <1>1, <1>2

-----------------------------------------------------------------------------
(***************************************************************************)
(* The history.                                                            *)
(***************************************************************************)
History ==
  seen' = [t \in Thread |-> [k \in Key |->
             IF SeenBy(t, k)' THEN seen[t][k] \cup {AbsMap'[k]} ELSE {}]]

\* Which keys the history of a call is about.
LEMMA SeenByOf ==
  ASSUME NEW t \in Thread, NEW k \in Key
  PROVE  /\ SeenBy(t, k) <=>
              Phase(t) = "called" /\ (call[t].op = "range" \/ k = KeyOf(t))
         /\ SeenBy(t, k)' <=>
              Phase(t)' = "called" /\ (call'[t].op = "range" \/ k = call'[t].key)
BY DEF SeenBy, AbsPhase, Map!KeysOf, KeyOf

\* The history goes on.
LEMMA HistoryStep ==
  ASSUME SeenOK, History
  PROVE  /\ SeenOK'
         /\ \A t \in Thread, k \in Key : SeenBy(t, k)' =>
              seen[t][k] \subseteq seen'[t][k] /\ AbsMap'[k] \in seen'[t][k]
<1>1. ASSUME NEW k \in Key PROVE AbsMap'[k] \in Result
  BY AbsOf DEF ValueOf, Live, Result
<1>2. seen' \in [Thread -> [Key -> SUBSET Result]]
  BY <1>1 DEF SeenOK, History
<1>3. ASSUME NEW t \in Thread, NEW k \in Key
      PROVE  seen'[t][k] = IF SeenBy(t, k)' THEN seen[t][k] \cup {AbsMap'[k]} ELSE {}
  BY DEF History
<1> QED BY <1>2, <1>3 DEF SeenOK

\* Where a step comes from.
LEMMA PlaceBefore ==
  ASSUME TypeOK, NEW t \in Thread, Actions(t)
  PROVE  /\ \A o \in Op : pc'[t] \in OpAt[o] => pc[t] \in OpAt[o]
         /\ pc'[t] = "dirty_locked" => pc[t] \in {"store_lock", "los_lock", "dirty_locked"}
         /\ pc'[t] \in {"load_entry", "lad_entry"} =>
              pc[t] \in {"load", "load_lock", "load_and_delete", "lad_lock"}
         /\ pc'[t] \in {"idle", "range", "range_lock"} =>
              pc[t] \in {"range", "range_lock"} /\ out'[t] = out[t]
         /\ pc[t] \notin {"idle", "done"}
<1> USE DEF TypeOK, Goto, Use, Answer, Finish, OpAt, Op
<1>2. CASE LoadRead(t) \/ LoadAndDeleteRead(t) \/ StoreRead(t) \/ LoadOrStoreRead(t)
  BY <1>2 DEF LoadRead, LoadAndDeleteRead, StoreRead, LoadOrStoreRead, LookupRead
<1>3. CASE LoadLocked(t) \/ LoadAndDeleteLocked(t)
  BY <1>3 DEF LoadLocked, LoadAndDeleteLocked, LookupLocked
<1>4. CASE LoadEntry(t) \/ LoadAndDeleteEntry(t) \/ StoreTry(t) \/ StoreSwap(t)
  BY <1>4 DEF LoadEntry, LoadAndDeleteEntry, StoreTry, StoreSwap
<1>5. CASE StoreLocked(t) \/ LoadOrStoreLocked(t)
  BY <1>5 DEF StoreLocked, LoadOrStoreLocked, UnexpungeLocked, NewKeyLocked, InsertNew
<1>6. CASE DirtyLockedExpunge(t) \/ DirtyLockedAmend(t)
  BY <1>6 DEF DirtyLockedExpunge, DirtyLockedAmend, InsertNew
<1>7. CASE LoadOrStoreTry(t) \/ LoadOrStoreRetry(t) \/ LoadOrStoreMiss(t)
  BY <1>7 DEF LoadOrStoreTry, LoadOrStoreRetry, LoadOrStoreMiss
<1>8. CASE RangeRead(t) \/ RangeLocked(t) \/ RangeEntry(t) \/ RangeEnd(t)
  BY <1>8 DEF RangeRead, RangeLocked, RangeEntry, RangeEnd, IterateOver
<1> QED BY <1>2, <1>3, <1>4, <1>5, <1>6, <1>7, <1>8 DEF Actions

\* The calls are where their operation takes them.
LEMMA OpsPlacedStep ==
  ASSUME TypeOK, OpsPlaced, NEW t \in Thread, Actions(t)
  PROVE  OpsPlaced'
<1>1. Frame(t) /\ UNCHANGED call /\ \A u \in Thread \ {t} : out'[u] = out[u]
  BY StepFrame, CallStep, OutFrame DEF Actions, Step
<1>2. \A u \in Thread \ {t} :
        /\ \A o \in Op : pc'[u] \in OpAt[o] => call'[u].op = o
        /\ pc'[u] = "dirty_locked" => call'[u].op \in {"store", "load_or_store"}
        /\ pc'[u] \in {"idle", "range", "range_lock"} => out'[u] = NoResult
  BY <1>1 DEF OpsPlaced, Frame
<1>3. \A o \in Op : pc'[t] \in OpAt[o] => call'[t].op = o
  BY <1>1, PlaceBefore DEF OpsPlaced
<1>4. pc'[t] = "dirty_locked" => call'[t].op \in {"store", "load_or_store"}
  <2>1. /\ pc[t] = "store_lock" => call[t].op = "store"
        /\ pc[t] = "los_lock" => call[t].op = "load_or_store"
    BY DEF OpsPlaced, Op, OpAt
  <2> QED BY <1>1, <2>1, PlaceBefore DEF OpsPlaced
<1>5. pc'[t] \in {"idle", "range", "range_lock"} => out'[t] = NoResult
  BY PlaceBefore DEF OpsPlaced
<1> QED BY <1>2, <1>3, <1>4, <1>5 DEF OpsPlaced, NoResult

\* What a call has at hand and has seen is what it asks for.
LEMMA SeenAtHand ==
  ASSUME LInv, NEW t \in Thread
  PROVE  /\ pc[t] \notin Keyless \cup {"los_miss", "lad_entry"} => SeenBy(t, KeyOf(t))
         /\ pc[t] = "lad_entry" /\ ~Detached(t) => SeenBy(t, KeyOf(t))
         /\ pc[t] = "range_entry" => \A k \in Key : SeenBy(t, k)
         /\ \A k \in Key : SeenBy(t, k) => AbsMap[k] \in seen[t][k]
<1>1. pc[t] \notin Keyless => KeyOf(t) \in Key
  BY DEF LInv, OInv, IInv, CallsDistinct
<1>2. pc[t] = "range_entry" => call[t].op = "range"
  BY DEF LInv, OpsPlaced, Op, OpAt
<1>3. pc[t] \notin Keyless \cup {"los_miss", "lad_entry"} => SeenBy(t, KeyOf(t))
  BY <1>1, PhaseOf, SeenByOf DEF Keyless
<1>4. pc[t] = "lad_entry" /\ ~Detached(t) => SeenBy(t, KeyOf(t))
  BY <1>1, PhaseOf, SeenByOf DEF Keyless
<1>5. pc[t] = "range_entry" => \A k \in Key : SeenBy(t, k)
  BY <1>2, PhaseOf, SeenByOf
<1> QED BY <1>3, <1>4, <1>5 DEF LInv, SeenOK

\* The entries of look-ups stay tracked.
LEMMA UsedTrackedStep ==
  ASSUME LInv, NEW t \in Thread, Actions(t), History
  PROVE  UsedTracked'
<1>0. /\ OInv /\ TypeOK /\ IInv /\ Frame(t) /\ UNCHANGED call /\ SeenOK /\ UsedTracked
      /\ CallsDistinct
  BY StepFrame, CallStep DEF LInv, OInv, IInv, Actions, Step
<1> SUFFICES ASSUME NEW u \in Thread,
                    pc'[u] = "load_entry" \/ (pc'[u] = "lad_entry" /\ ~Detached(u)')
             PROVE  Tracked(ent[u], KeyOf(u), seen[u][KeyOf(u)])'
  BY DEF UsedTracked
<1>1. Phase(u)' = "called"
  BY DEF Phase
<1>2. KeyOf(u) \in Key
  <2>1. pc[u] \notin Keyless
    BY <1>0, CallStep DEF Frame, Keyless
  <2> QED BY <1>0, <2>1 DEF CallsDistinct
<1>3. PICK k \in Key : k = KeyOf(u) /\ k = KeyOf(u)'
  BY <1>0, <1>2 DEF KeyOf
<1>4. seen[u][k] \subseteq seen'[u][k] /\ AbsMap'[k] \in seen'[u][k]
  BY <1>0, <1>1, <1>3, HistoryStep, SeenByOf DEF KeyOf
<1>5. \E e \in Call : /\ e = ent'[u] /\ Entered(e) /\ \A k2 \in Key : Under(e, k2) => k2 = k
                      /\ AbsMap[k] \in seen[u][k] /\ Tracked(e, k, seen[u][k])
  <2>1. CASE u # t
    <3>1. pc'[u] = pc[u] /\ ent'[u] = ent[u]
      BY <1>0, <2>1 DEF Frame
    <3>2. pc[u] = "load_entry" \/ (pc[u] = "lad_entry" /\ ~Detached(u))
      BY <2>1, <3>1, OthersDetached
    <3>3. Tracked(ent[u], k, seen[u][k])
      BY <1>0, <1>3, <3>2 DEF UsedTracked
    <3>4. SeenBy(u, k)
      BY <1>3, <3>2, SeenAtHand DEF Keyless
    <3>5. AbsMap[k] \in seen[u][k]
      BY <3>4, SeenAtHand
    <3> QED BY <1>0, <1>3, <3>1, <3>2, <3>3, <3>5, AtLad
  <2>2. CASE u = t
    <3>1. Current(k) \in Call /\ ent'[u] = Current(k)
      BY <1>0, <1>3, <2>2, PlaceStep DEF UsesEntry
    <3>2. pc[t] \in {"load", "load_lock", "load_and_delete", "lad_lock"}
      BY <1>0, <2>2, PlaceBefore
    <3>3. AbsMap[k] \in seen[u][k]
      BY <1>3, <2>2, <3>2, SeenAtHand DEF Keyless
    <3>4. Entered(Current(k)) /\ \A k2 \in Key : Under(Current(k), k2) => k2 = k
      BY <1>0, <3>1, UnderCurrent, UnderEntered
    <3> QED BY <3>1, <3>3, <3>4 DEF Tracked
  <2> QED BY <2>1, <2>2
<1>6. ent'[u] = Current(k)' \/ (NULL \in seen'[u][k] /\ ValueOf(ent[u])' \in seen'[u][k])
  <2>1. PICK e \in Call :
          /\ e = ent'[u] /\ Entered(e) /\ \A k2 \in Key : Under(e, k2) => k2 = k
          /\ AbsMap[k] \in seen[u][k] /\ Tracked(e, k, seen[u][k])
    BY <1>5
  <2>2. e = Current(k)' \/ (NULL \in seen'[u][k] /\ ValueOf(e)' \in seen'[u][k])
    BY <1>0, <1>4, <2>1, TrackedStep
  <2> QED BY <2>1, <2>2 DEF ValueOf
<1> QED BY <1>3, <1>6 DEF Tracked, ValueOf, Current

\* So do the entries of ranges, and the answers they have.
LEMMA RangeTrackedStep ==
  ASSUME LInv, NEW t \in Thread, Actions(t), History
  PROVE  RangeTracked'
<1>0. /\ OInv /\ TypeOK /\ IInv /\ Frame(t) /\ UNCHANGED call /\ SeenOK /\ RangeTracked
      /\ CallsDistinct /\ OpsPlaced /\ OpsPlaced' /\ DirtyMirrorsRead
      /\ \A u \in Thread \ {t} : out'[u] = out[u]
  BY StepFrame, CallStep, OpsPlacedStep, OutFrame DEF LInv, OInv, IInv, Actions, Step
<1> SUFFICES ASSUME NEW u \in Thread, NEW k \in Key, pc'[u] = "range_entry"
             PROVE  IF Has(iter[u], k)' THEN Tracked(iter[u][k], k, seen[u][k])'
                                        ELSE out'[u][k] \in seen'[u][k]
  BY DEF RangeTracked, Has
<1>1. seen[u][k] \subseteq seen'[u][k] /\ AbsMap'[k] \in seen'[u][k]
  <2>1. Phase(u)' = "called" /\ call'[u].op = "range"
    BY <1>0 DEF Phase, OpsPlaced, Op, OpAt
  <2> QED BY <1>0, <2>1, HistoryStep, SeenByOf
<1>2. ASSUME NEW e \in Call, UsedBy(u, e, k) \/ Under(e, k),
             AbsMap[k] \in seen[u][k], Tracked(e, k, seen[u][k]), iter'[u][k] = e
      PROVE  IF Has(iter[u], k)' THEN Tracked(iter[u][k], k, seen[u][k])'
                                 ELSE out'[u][k] \in seen'[u][k]
  <2>1. Entered(e) /\ \A k2 \in Key : Under(e, k2) => k2 = k
    BY <1>0, <1>2, UnderCurrent, UnderEntered DEF OInv, UsesOneKey
  <2>2. e = Current(k)' \/ (NULL \in seen'[u][k] /\ ValueOf(e)' \in seen'[u][k])
    BY <1>0, <1>1, <1>2, <2>1, TrackedStep
  <2>3. Has(iter[u], k)'
    BY <1>0, <1>2, CurrentTyped DEF Has
  <2> QED BY <1>2, <2>2, <2>3 DEF Tracked, ValueOf, Current
<1>3. ASSUME pc[u] = "range_entry", iter'[u][k] = iter[u][k],
             iter[u][k] = NoEntry => out'[u][k] = out[u][k]
      PROVE  IF Has(iter[u], k)' THEN Tracked(iter[u][k], k, seen[u][k])'
                                 ELSE out'[u][k] \in seen'[u][k]
  <2>1. AbsMap[k] \in seen[u][k]
    BY <1>3, SeenAtHand
  <2>2. CASE Has(iter[u], k)
    <3>1. iter[u][k] \in Call /\ Tracked(iter[u][k], k, seen[u][k])
      BY <1>0, <1>3, <2>2, EntryTypes DEF RangeTracked, Has
    <3> QED BY <1>2, <1>3, <2>1, <3>1 DEF UsedBy
  <2>3. CASE ~Has(iter[u], k)
    BY <1>0, <1>1, <1>3, <2>3 DEF RangeTracked, Has
  <2> QED BY <2>2, <2>3
<1>4. CASE u # t
  BY <1>0, <1>3, <1>4 DEF Frame
<1>5. CASE u = t /\ RangeEntry(t)
  <2>1. pc[t] = "range_entry"
    BY <1>5 DEF RangeEntry
  <2>2. PICK k0 \in KeysIn(iter[t]) :
          /\ out' = [out EXCEPT ![t][k0] = EntryLoad(iter[t][k0])]
          /\ iter' = [iter EXCEPT ![t][k0] = NoEntry]
    BY <1>5 DEF RangeEntry
  <2>3. CASE k = k0
    <3>1. iter'[t][k] = NoEntry /\ out'[t][k] = ValueOf(iter[t][k])
          /\ iter[t][k] \in Call
      BY <1>0, <2>2, <2>3, EntryTypes DEF TypeOK, EntryMap, KeysIn, Has, EntryLoad, ValueOf
    <3>2. Tracked(iter[t][k], k, seen[t][k]) /\ AbsMap[k] \in seen[t][k]
      BY <1>0, <2>1, <3>1, SeenAtHand, CurrentTyped DEF RangeTracked, Has
    <3>3. ValueOf(iter[t][k]) \in seen[t][k]
      BY <3>2, AbsOf DEF Tracked
    <3> QED BY <1>1, <1>5, <3>1, <3>3 DEF Has
  <2>4. CASE k # k0
    <3>1. iter'[t][k] = iter[t][k] /\ out'[t][k] = out[t][k]
      BY <1>0, <2>2, <2>4 DEF TypeOK, EntryMap, KeysIn
    <3> QED BY <1>3, <1>5, <2>1, <3>1
  <2> QED BY <2>3, <2>4
<1>6. CASE u = t /\ (RangeRead(t) \/ RangeLocked(t))
  <2>1. /\ pc[t] \in {"range", "range_lock"} /\ out'[t] = NoResult
        /\ iter'[t] = read'.m /\ ~read'.amended
        /\ dirty' = NoEntries
        /\ \A k2 \in Key : read'.m[k2] \in {NoEntry, Current(k2)}
    <3>1. CASE RangeRead(t)
      BY <1>0, <1>6, <3>1 DEF RangeRead, IterateOver, Goto, TypeOK, maps, OpsPlaced,
         DirtyMirrorsRead, Current, Has
    <3>2. CASE RangeLocked(t)
      <4>1. CASE read.amended
        <5>1. read' = [m |-> dirty, amended |-> FALSE] /\ dirty' = NoEntries
          BY <3>2, <4>1 DEF RangeLocked, Promote
        <5>2. \A k2 \in Key : dirty[k2] \in {NoEntry, Current(k2)}
          BY <1>0, <4>1 DEF DirtyMirrorsRead, Current
        <5> QED BY <1>0, <3>2, <5>1, <5>2 DEF RangeLocked, IterateOver, TypeOK, OpsPlaced
      <4>2. CASE ~read.amended
        BY <1>0, <3>2, <4>2 DEF RangeLocked, IterateOver, TypeOK, maps, OpsPlaced,
           DirtyMirrorsRead, Current, Has
      <4> QED BY <4>1, <4>2
    <3> QED BY <1>6, <3>1, <3>2
  <2>2. CASE read'.m[k] = NoEntry
    <3>1. Current(k)' = NoEntry
      BY <2>1, <2>2 DEF Current, Has, NoEntries
    <3>2. AbsMap'[k] = NULL /\ out'[t][k] = NULL
      BY <2>1, <3>1, AbsOf DEF ValueOf, NoResult
    <3> QED BY <1>1, <1>6, <2>1, <2>2, <3>2 DEF Has
  <2>3. CASE read'.m[k] # NoEntry
    <3>1. Current(k) \in Call /\ iter'[t][k] = Current(k) /\ Under(Current(k), k)
      BY <1>0, <2>1, <2>3, CurrentUnder
    <3>2. call[t].op = "range" /\ Phase(t) = "called"
      BY <1>0, <2>1, PhaseOf DEF OpsPlaced, Op, OpAt
    <3>3. AbsMap[k] \in seen[t][k]
      BY <1>0, <3>2, SeenByOf DEF SeenOK
    <3> QED BY <1>2, <1>6, <3>1, <3>3 DEF Tracked
  <2> QED BY <2>2, <2>3
<1>7. u = t => RangeRead(t) \/ RangeLocked(t) \/ RangeEntry(t)
  <2> SUFFICES ASSUME u = t PROVE RangeRead(t) \/ RangeLocked(t) \/ RangeEntry(t)
    OBVIOUS
  <2>1. pc[t] \in {"range", "range_lock", "range_entry"}
    BY <1>0, PlaceBefore DEF Op, OpAt
  <2> QED
    BY <1>0, <2>1
    DEF Actions, LoadRead, LoadLocked, LoadEntry, LoadAndDeleteRead,
        LoadAndDeleteLocked, LoadAndDeleteEntry, StoreRead, StoreTry, StoreLocked,
        StoreSwap, DirtyLockedExpunge, DirtyLockedAmend, LoadOrStoreRead, LoadOrStoreTry,
        LoadOrStoreLocked, LoadOrStoreRetry, LoadOrStoreMiss, RangeEnd, Goto, TypeOK
<1> QED BY <1>4, <1>5, <1>6, <1>7

\* A look-up takes the entry of its key from read or out of dirty.
LEMMA LadEnters ==
  ASSUME LInv, NEW t \in Thread, Actions(t), pc'[t] = "lad_entry"
  PROVE  /\ Current(KeyOf(t)) \in Call /\ ent'[t] = Current(KeyOf(t)) /\ KeyOf(t) \in Key
         /\ UNCHANGED p
         /\ \/ Has(read.m, KeyOf(t)) /\ UNCHANGED <<read, dirty>>
            \/ ~Has(read.m, KeyOf(t)) /\ Current(KeyOf(t))' = NoEntry
<1>0. /\ OInv /\ TypeOK /\ IInv /\ KeyOf(t)' = KeyOf(t) /\ KeyOf(t) \in Key
      /\ Current(KeyOf(t)) \in Call /\ ent'[t] = Current(KeyOf(t))
  BY CallStep, PlaceStep DEF LInv, OInv, IInv, CallsDistinct, Keyless, UsesEntry, KeyOf
<1>1. pc[t] \in {"load_and_delete", "lad_lock"}
  BY <1>0, PlaceBefore DEF Op, OpAt
<1>2. LoadAndDeleteRead(t) \/ LoadAndDeleteLocked(t)
  BY <1>0, <1>1
  DEF Actions, LoadRead, LoadLocked, LoadEntry, LoadAndDeleteEntry, StoreRead, StoreTry,
      StoreLocked, StoreSwap, DirtyLockedExpunge, DirtyLockedAmend, LoadOrStoreRead,
      LoadOrStoreTry, LoadOrStoreLocked, LoadOrStoreRetry, LoadOrStoreMiss,
      RangeRead, RangeLocked, RangeEntry, RangeEnd
<1>3. CASE LoadAndDeleteRead(t)
  BY <1>0, <1>3 DEF LoadAndDeleteRead, LookupRead, Goto, Finish, Answer, TypeOK, maps
<1>4. CASE LoadAndDeleteLocked(t)
  <2> DEFINE d == [dirty EXCEPT ![KeyOf(t)] = NoEntry]
  <2>1. UNCHANGED p
        /\ \/ Has(read.m, KeyOf(t)) /\ UNCHANGED maps
           \/ ~Has(read.m, KeyOf(t)) /\ MissLocked(d)
    BY <1>0, <1>4 DEF LoadAndDeleteLocked, LookupLocked, Goto, Finish, Answer, TypeOK
  <2>2. CASE Has(read.m, KeyOf(t)) /\ UNCHANGED maps
    BY <1>0, <2>1, <2>2 DEF maps
  <2>3. CASE ~Has(read.m, KeyOf(t)) /\ MissLocked(d)
    <3>1. d[KeyOf(t)] = NoEntry
      BY <1>0 DEF TypeOK, EntryMap
    <3> HIDE DEF d
    <3>2. \/ read' = [m |-> d, amended |-> FALSE] /\ dirty' = NoEntries
          \/ UNCHANGED read /\ dirty' = d
      BY <2>3, MissPublishes
    <3>3. Current(KeyOf(t))' = NoEntry
      BY <1>0, <2>3, <3>1, <3>2 DEF Current, Has, NoEntries
    <3> QED BY <1>0, <2>1, <2>3, <3>3
  <2> QED BY <2>1, <2>2, <2>3
<1> QED BY <1>2, <1>3, <1>4

\* The entry that a load_and_delete will empty stays in read, or is in no map.
LEMMA DeletesRoutedStep ==
  ASSUME LInv, OInv', NEW t \in Thread, Actions(t)
  PROVE  DeletesRouted'
<1>0. /\ OInv /\ TypeOK /\ IInv /\ Frame(t) /\ UNCHANGED call /\ Kinds(t)
      /\ DirtyMirrorsRead /\ DeletesRouted /\ NoEntry \notin Call /\ CallsDistinct
  BY StepFrame, CallStep, KindStep, CurrentTyped DEF LInv, OInv, IInv, Actions, Step
<1> SUFFICES ASSUME NEW u \in Thread, pc'[u] = "lad_entry", Under(ent[u], KeyOf(u))'
             PROVE  read'.m[KeyOf(u)'] = ent'[u]
  BY DEF DeletesRouted
<1>1. CASE u = t
  <2>1. PICK k \in Key : k = KeyOf(t) /\ k = KeyOf(t)'
    BY <1>0, <1>1, LadEnters DEF KeyOf
  <2>2. Under(ent[u], k)' /\ ent'[u] = Current(k) /\ Current(k) \in Call
    BY <1>1, <2>1, LadEnters DEF Under
  <2>3. CASE Has(read.m, k) /\ UNCHANGED <<read, dirty>>
    BY <1>1, <2>1, <2>2, <2>3 DEF Current
  <2>4. CASE ~Has(read.m, k) /\ Current(k)' = NoEntry
    <3>1. read'.m[k] = NoEntry /\ dirty'[k] = NoEntry
      BY <2>4 DEF Current, Has
    <3> QED BY <1>0, <2>2, <3>1 DEF Under
  <2>5. Current(KeyOf(t))' = Current(k)'
    BY <2>1 DEF Current
  <2> QED BY <1>1, <2>1, <2>3, <2>4, <2>5, LadEnters
<1>2. CASE u # t
  <2>1. pc[u] = "lad_entry" /\ ent'[u] = ent[u] /\ KeyOf(u)' = KeyOf(u)
    BY <1>0, <1>2 DEF Frame, KeyOf
  <2>2. PICK e \in Call, k \in Key : e = ent[u] /\ k = KeyOf(u)
    BY <1>0, <2>1, AtLad
  <2>3. Under(e, k)' /\ Entered(e)
    BY <1>0, <2>1, <2>2, AtLad DEF Under
  <2>4. Under(e, k)
    BY <1>0, <2>3, UnderStep, InsertEnters
  <2>5. read.m[k] = e /\ Has(read.m, k)
    BY <1>0, <2>1, <2>2, <2>4 DEF DeletesRouted, Has
  <2>6. CASE read'.m = read.m
    BY <2>1, <2>2, <2>5, <2>6
  <2>7. CASE Publishes(t)
    <3>1. PICK d \in EntryMap : MissLocked(d) \/ Promote(d)
      BY <2>7 DEF Publishes
    <3>2. \/ read' = [m |-> d, amended |-> FALSE] /\ dirty' = NoEntries
          \/ UNCHANGED read
      BY <3>1, MissPublishes
    <3>3. read'.m[k] = e \/ UNCHANGED read
      BY <1>0, <2>3, <3>2 DEF Under, NoEntries
    <3> QED BY <2>1, <2>2, <2>5, <3>3
  <2> QED BY <1>0, <2>6, <2>7 DEF Kinds, Quiet, Stores, Deletes, Unmarks, Marks, Inserts
<1> QED BY <1>1, <1>2

\* No two load_and_deletes have the same entry when one has taken it out.
LEMMA OneDetacherStep ==
  ASSUME LInv, NEW t \in Thread, Actions(t)
  PROVE  OneDetacher'
<1>0. /\ OInv /\ TypeOK /\ IInv /\ Frame(t) /\ UNCHANGED call /\ DeletesRouted
      /\ OneDetacher /\ NoEntry \notin Call
  BY StepFrame, CallStep, CurrentTyped DEF LInv, OInv, IInv, Actions, Step
<1> SUFFICES ASSUME NEW u \in Thread, NEW w \in Thread, u # w,
                    pc'[u] = "lad_entry", pc'[w] = "lad_entry", ent'[u] = ent'[w],
                    Detached(u)'
             PROVE  FALSE
  BY DEF OneDetacher
<1>1. \A x \in Thread \ {t} : pc'[x] = pc[x] /\ ent'[x] = ent[x]
  BY <1>0 DEF Frame
<1>2. CASE u # t /\ w # t
  BY <1>0, <1>1, <1>2, OthersDetached DEF OneDetacher
<1>3. CASE u = t
  <2>1. PICK k \in Key : k = KeyOf(t) /\ k = KeyOf(t)' /\ ent'[t] = Current(k)
                         /\ Current(k) \in Call
    BY <1>0, <1>3, LadEnters DEF KeyOf
  <2>2. pc[w] = "lad_entry" /\ ent[w] = Current(k)
    BY <1>1, <1>3, <2>1
  <2>3. KeyOf(w) = k /\ Under(ent[w], KeyOf(w))
    BY <1>0, <2>1, <2>2, UnderCurrent, AtLad
  <2>4. Has(read.m, k)
    BY <1>0, <2>1, <2>2, <2>3 DEF DeletesRouted, Has
  <2>5. UNCHANGED <<read, dirty>>
    BY <1>3, <2>1, <2>4, LadEnters
  <2>6. Current(k)' = ent'[t]
    BY <2>1, <2>5 DEF Current
  <2> QED BY <1>3, <2>1, <2>6, AbsOf DEF Detached
<1>4. CASE w = t
  <2>1. PICK k \in Key : k = KeyOf(t) /\ ent'[t] = Current(k) /\ Current(k) \in Call
    BY <1>4, LadEnters
  <2>2. pc[u] = "lad_entry" /\ ent[u] = Current(k) /\ Detached(u)
    BY <1>1, <1>4, <2>1, OthersDetached
  <2>3. KeyOf(u) = k
    BY <1>0, <2>1, <2>2, UnderCurrent, AtLad
  <2> QED BY <1>0, <2>2, <2>3, AtLad
<1> QED BY <1>2, <1>3, <1>4

-----------------------------------------------------------------------------
(***************************************************************************)
(* The invariant.                                                          *)
(***************************************************************************)

\* With the entries and their pointers, the abstract map stays the same.
LEMMA MapSame ==
  ASSUME UNCHANGED <<p, read, dirty>>
  PROVE  /\ AbsMap' = AbsMap
         /\ \A k \in Key : Current(k)' = Current(k)
         /\ \A e : ValueOf(e)' = ValueOf(e)
BY DEF AbsMap, ValueOf, EntryAt, Current

\* A history to which nothing is new stays the same.
LEMMA SameHistory ==
  ASSUME SeenOK, History, AbsMap' = AbsMap,
         \A u \in Thread, k \in Key : SeenBy(u, k)' <=> SeenBy(u, k)
  PROVE  seen' = seen
<1>1. \A u \in Thread, k \in Key :
        seen[u][k] = IF SeenBy(u, k)' THEN seen[u][k] \cup {AbsMap'[k]} ELSE {}
  <2> SUFFICES ASSUME NEW u \in Thread, NEW k \in Key
               PROVE  seen[u][k] = IF SeenBy(u, k)' THEN seen[u][k] \cup {AbsMap'[k]} ELSE {}
    OBVIOUS
  <2>1. AbsMap'[k] = AbsMap[k]
    OBVIOUS
  <2>2. CASE SeenBy(u, k)
    <3>1. AbsMap[k] \in seen[u][k] /\ SeenBy(u, k)'
      BY <2>2 DEF SeenOK
    <3>2. seen[u][k] = seen[u][k] \cup {AbsMap[k]}
      BY <3>1
    <3> QED BY <2>1, <3>1, <3>2
  <2>3. CASE ~SeenBy(u, k)
    BY <2>3 DEF SeenOK
  <2> QED BY <2>2, <2>3
<1>2. \A u \in Thread : seen[u] = [k \in Key |->
        IF SeenBy(u, k)' THEN seen[u][k] \cup {AbsMap'[k]} ELSE {}]
  BY <1>1 DEF SeenOK
<1> QED BY <1>2 DEF SeenOK, History

\* The beginning and the end of a call.
LEMMA LInvCall ==
  ASSUME LInv, OInv', NEW t \in Thread, Invoke(t) \/ Return(t), History
  PROVE  LInv'
<1>0. /\ OInv /\ TypeOK /\ OpsPlaced /\ SeenOK /\ UsedTracked /\ RangeTracked
      /\ DeletesRouted /\ OneDetacher /\ UNCHANGED <<p, read, dirty>>
  BY DEF LInv, OInv, IInv, Invoke, Return, maps
<1>1. \A u \in Thread \ {t} :
        /\ pc'[u] = pc[u] /\ ent'[u] = ent[u] /\ iter'[u] = iter[u] /\ out'[u] = out[u]
        /\ call'[u] = call[u] /\ KeyOf(u)' = KeyOf(u)
  BY <1>0, StepFrame, OutFrame DEF Frame, KeyOf, Step
<1>2. pc'[t] \in Op \cup {"idle"} /\ out'[t] = NoResult
      /\ (pc'[t] \in Op => call'[t].op = pc'[t])
  <2>1. CASE Invoke(t)
    BY <1>0, <2>1, ConstantsAssumption DEF Invoke, Goto, TypeOK, OpsPlaced
  <2>2. CASE Return(t)
    BY <1>0, <2>2 DEF Return, Goto, TypeOK, Op
  <2> QED BY <2>1, <2>2
<1>3. pc'[t] \notin {"load_entry", "lad_entry", "range_entry", "dirty_locked"}
  BY <1>2 DEF Op
<1>4. \A u \in Thread \ {t} : Detached(u)' <=> Detached(u)
  BY <1>0, <1>1 DEF Detached, EntryAt
<1>5. SeenOK' /\ \A u \in Thread, k \in Key : SeenBy(u, k)' =>
                   seen[u][k] \subseteq seen'[u][k] /\ AbsMap'[k] \in seen'[u][k]
  BY <1>0, HistoryStep
<1>6. ASSUME NEW u \in Thread \ {t}, NEW k \in Key, SeenBy(u, k)
      PROVE  seen[u][k] \subseteq seen'[u][k]
  <2>1. Phase(u)' = Phase(u)
    BY <1>1, <1>4 DEF Phase
  <2>2. SeenBy(u, k)'
    BY <1>1, <1>6, <2>1, SeenByOf DEF KeyOf
  <2> QED BY <1>5, <2>2
<1>7. OpsPlaced'
  <2>1. \A o \in Op : pc'[t] \in OpAt[o] => call'[t].op = o
    BY <1>2 DEF Op, OpAt
  <2>2. \A u \in Thread \ {t} :
          /\ \A o \in Op : pc'[u] \in OpAt[o] => call'[u].op = o
          /\ pc'[u] = "dirty_locked" => call'[u].op \in {"store", "load_or_store"}
          /\ pc'[u] \in {"idle", "range", "range_lock"} => out'[u] = NoResult
    BY <1>0, <1>1 DEF OpsPlaced
  <2> QED BY <1>2, <1>3, <2>1, <2>2 DEF OpsPlaced, NoResult
<1>8. UsedTracked'
  <2> SUFFICES ASSUME NEW u \in Thread,
                      pc'[u] = "load_entry" \/ (pc'[u] = "lad_entry" /\ ~Detached(u)')
               PROVE  Tracked(ent[u], KeyOf(u), seen[u][KeyOf(u)])'
    BY DEF UsedTracked
  <2>1. u # t /\ (pc[u] = "load_entry" \/ (pc[u] = "lad_entry" /\ ~Detached(u)))
    BY <1>1, <1>3, <1>4
  <2>2. PICK k \in Key : k = KeyOf(u) /\ k = KeyOf(u)'
    BY <1>0, <1>1, <2>1, AtLad
  <2>3. Tracked(ent[u], k, seen[u][k]) /\ SeenBy(u, k)
    BY <1>0, <2>1, <2>2, SeenAtHand DEF UsedTracked, Keyless
  <2>4. ent'[u] = ent[u] /\ seen[u][k] \subseteq seen'[u][k]
    BY <1>1, <1>6, <2>1, <2>3
  <2>5. ent'[u] = Current(k)' \/ {NULL, ValueOf(ent[u])'} \subseteq seen'[u][k]
    BY <1>0, <2>3, <2>4, MapSame DEF Tracked, ValueOf
  <2> QED BY <2>2, <2>5 DEF Tracked, Current, ValueOf
<1>9. RangeTracked'
  <2> SUFFICES ASSUME NEW u \in Thread, NEW k \in Key, pc'[u] = "range_entry"
               PROVE  IF Has(iter[u], k)' THEN Tracked(iter[u][k], k, seen[u][k])'
                                          ELSE out'[u][k] \in seen'[u][k]
    BY DEF RangeTracked, Has
  <2>1. u # t /\ pc[u] = "range_entry"
    BY <1>1, <1>3
  <2>2. seen[u][k] \subseteq seen'[u][k]
    BY <1>6, <2>1, SeenAtHand
  <2>3. IF Has(iter[u], k) THEN Tracked(iter[u][k], k, seen[u][k])
                           ELSE out[u][k] \in seen[u][k]
    BY <1>0, <2>1 DEF RangeTracked
  <2> QED BY <1>0, <1>1, <2>1, <2>2, <2>3, MapSame DEF Tracked, Has, Current, ValueOf
<1>10. DeletesRouted' /\ OneDetacher'
  BY <1>0, <1>1, <1>3, <1>4 DEF DeletesRouted, OneDetacher, Under
<1> QED BY <1>5, <1>7, <1>8, <1>9, <1>10 DEF LInv

\* A step that changes nothing in the map, with its history.
LEMMA LInvStutter ==
  ASSUME LInv, UNCHANGED vars, History \/ UNCHANGED seen
  PROVE  LInv' /\ UNCHANGED <<linVars, AbsMap>>
         /\ \A u \in Thread : Phase(u)' = Phase(u) /\ Res(u)' = Res(u)
<1>1. AbsMap' = AbsMap /\ \A k \in Key : EntryAt(k)' = EntryAt(k)
  BY MapSame, AbsOf DEF vars
<1>2. \A u \in Thread : Detached(u)' <=> Detached(u)
  BY DEF vars, Detached, EntryAt, KeyOf
<1>3. \A u \in Thread : Phase(u)' = Phase(u) /\ Res(u)' = Res(u)
  BY <1>2 DEF vars, Phase, Res, KeyOf, NoResult
<1>4. \A u \in Thread, k \in Key : SeenBy(u, k)' <=> SeenBy(u, k)
  BY <1>3, SeenByOf DEF vars, KeyOf
<1>5. seen' = seen
  BY <1>1, <1>4, SameHistory DEF LInv
<1>6. OInv' /\ OpsPlaced'
  BY OInvStep DEF LInv, vars, OpsPlaced
<1>7. SeenOK'
  BY <1>1, <1>4, <1>5 DEF LInv, SeenOK
<1>8. UsedTracked' /\ RangeTracked'
  BY <1>2, <1>5
  DEF LInv, vars, UsedTracked, RangeTracked, Tracked, Has, Current, ValueOf, KeyOf
<1>9. DeletesRouted' /\ OneDetacher'
  BY <1>2 DEF LInv, vars, DeletesRouted, OneDetacher, Under, KeyOf
<1> QED BY <1>1, <1>3, <1>5, <1>6, <1>7, <1>8, <1>9 DEF LInv, linVars

\* The invariant holds at first,
LEMMA LInvInit == ASSUME LinInit PROVE LInv
<1>1. Init /\ OInv
  BY OInvInit DEF LinInit
<1>2. OpsPlaced
  BY <1>1 DEF Init, OpsPlaced, Op, OpAt
<1>3. SeenOK
  <2>1. \A t \in Thread, k \in Key : ~SeenBy(t, k)
    BY <1>1, PhaseOf, SeenByOf DEF Init
  <2> QED BY <2>1 DEF LinInit, SeenOK
<1>4. UsedTracked /\ RangeTracked /\ DeletesRouted /\ OneDetacher
  BY <1>1 DEF Init, UsedTracked, RangeTracked, DeletesRouted, OneDetacher
<1> QED BY <1>1, <1>2, <1>3, <1>4 DEF LInv

\* and every step preserves it.
LEMMA LInvStep == ASSUME LInv, [LinNext]_linVars PROVE LInv'
<1>1. CASE LinNext
  <2>1. OInv' /\ History
    BY <1>1, OInvStep DEF LInv, LinNext, History
  <2>2. ASSUME NEW t \in Thread, Actions(t) PROVE LInv'
    BY <2>1, <2>2, OpsPlacedStep, HistoryStep, UsedTrackedStep, RangeTrackedStep,
       DeletesRoutedStep, OneDetacherStep
    DEF LInv, OInv, IInv
  <2>3. ASSUME NEW t \in Thread, Invoke(t) \/ Return(t) PROVE LInv'
    BY <2>1, <2>3, LInvCall
  <2>4. CASE UNCHANGED vars
    BY <2>1, <2>4, LInvStutter
  <2> QED BY <1>1, <2>2, <2>3, <2>4 DEF LinNext, Next, Terminated, Step, Actions
<1>2. CASE UNCHANGED linVars
  BY <1>2, LInvStutter DEF linVars
<1> QED BY <1>1, <1>2

-----------------------------------------------------------------------------
(***************************************************************************)
(* The simulation: every step is one of the linearizable map, or is not    *)
(* seen.                                                                   *)
(***************************************************************************)
AbsRes == [t \in Thread |-> Res(t)]

\* What the callers see when t steps.
LEMMA PhasesAre ==
  ASSUME NEW t \in Thread,
         \A u \in Thread \ {t} : Phase(u)' = Phase(u) /\ Res(u)' = Res(u)
  PROVE  /\ AbsPhase' = [AbsPhase EXCEPT ![t] = Phase(t)']
         /\ AbsRes' = [AbsRes EXCEPT ![t] = Res(t)']
         /\ AbsPhase[t] = Phase(t) /\ AbsRes[t] = Res(t)
BY DEF AbsPhase, AbsRes

\* The history of the implementation is that of the specification.
LEMMA Observes == ASSUME History PROVE Map!Observe
BY DEF History, Map!Observe, SeenBy

\* A step that a caller does not see.
LEMMA Silent ==
  ASSUME LInv, History, NEW t \in Thread, Actions(t), AbsMap' = AbsMap,
         Phase(t)' = Phase(t), Res(t)' = Res(t)
  PROVE  UNCHANGED Map!vars
<1>1. \A u \in Thread : Phase(u)' = Phase(u) /\ Res(u)' = Res(u)
  BY OthersSame
<1>2. UNCHANGED <<AbsPhase, AbsRes>>
  BY <1>1 DEF AbsPhase, AbsRes
<1>3. UNCHANGED <<call, ncalls>>
  BY CallStep DEF LInv, OInv, IInv
<1>4. \A u \in Thread, k \in Key : SeenBy(u, k)' <=> SeenBy(u, k)
  BY <1>2, <1>3 DEF SeenBy
<1>5. seen' = seen
  BY <1>4, SameHistory DEF LInv
<1> QED BY <1>2, <1>3, <1>5 DEF Map!vars, AbsRes

\* A move of a call that has no effect.
LEMMA Moves ==
  ASSUME LInv, History, NEW t \in Thread, Actions(t), AbsMap' = AbsMap,
         pc[t] \notin {"los_miss", "lad_entry"},
         pc'[t] \notin {"idle", "done", "los_miss", "lad_entry"}
  PROVE  UNCHANGED Map!vars
<1>1. pc[t] \notin {"idle", "done"}
  BY PlaceBefore DEF LInv, OInv, IInv
<1>2. Phase(t)' = "called" /\ Res(t)' = NoResult
  BY DEF Phase, Res, NoResult
<1> QED BY <1>1, <1>2, PhaseOf, Silent

\* What a specification's method does to the map and to its result.
Outcome(t) ==
  Map!Load(t) \/ Map!Store(t) \/ Map!LoadOrStore(t) \/ Map!LoadAndDelete(t)
  \/ Map!Range(t)

\* The step at which a call takes effect.
LEMMA TakesEffect ==
  ASSUME LInv, History, NEW t \in Thread, Actions(t),
         Phase(t) = "called", Phase(t)' = "done", Outcome(t)
  PROVE  Map!Effect(t)
<1>1. \A u \in Thread \ {t} : Phase(u)' = Phase(u) /\ Res(u)' = Res(u)
  BY OthersSame
<1>2. AbsPhase' = [AbsPhase EXCEPT ![t] = "done"] /\ AbsPhase[t] = "called"
  BY <1>1, PhasesAre
<1>3. UNCHANGED <<call, ncalls>>
  BY CallStep DEF LInv, OInv, IInv
<1> QED BY <1>2, <1>3, Observes DEF Map!Effect, Outcome

\* An answer v is a result v.
LEMMA ResultIs ==
  ASSUME LInv, NEW t \in Thread, Actions(t), NEW v,
         Res(t)' = [NoResult EXCEPT ![KeyOf(t)] = v]
  PROVE  Map!Result(t, v)
<1>1. \A u \in Thread \ {t} : Phase(u)' = Phase(u) /\ Res(u)' = Res(u)
  BY OthersSame
<1>2. AbsRes' = [AbsRes EXCEPT ![t] = [NoResult EXCEPT ![KeyOf(t)] = v]]
  BY <1>1, PhasesAre
<1> QED BY <1>2 DEF Map!Result, AbsRes, KeyOf, NoResult, Map!NoResult, NULL, Map!NULL

\* A step with an answer.
LEMMA Answers ==
  ASSUME LInv, NEW t \in Thread, Actions(t), NEW v,
         Answer(t, v, "done") \/ Answer(t, v, "los_miss") \/ Finish(t, v)
  PROVE  Phase(t)' = "done" /\ Map!Result(t, v)
<1>1. pc'[t] \in {"done", "los_miss"} /\ out'[t] = [NoResult EXCEPT ![KeyOf(t)] = v]
  BY DEF LInv, OInv, IInv, TypeOK, Answer, Finish, Goto
<1>2. Phase(t)' = "done" /\ Res(t)' = out'[t]
  BY <1>1 DEF Phase, Res
<1> QED BY <1>1, <1>2, ResultIs

\* A step changes the value of its own key at most.
LEMMA PutIs ==
  ASSUME LInv, NEW t \in Thread, Actions(t), KeyOf(t) \in Key, NEW v,
         \A k \in Key : k = KeyOf(t) => AbsMap'[k] = v
  PROVE  /\ Map!Put(t, v)
         /\ \A k \in Key : k = KeyOf(t) /\ AbsMap[k] = v => AbsMap' = AbsMap
<1>1. \A k \in Key : k # KeyOf(t) => AbsMap'[k] = AbsMap[k]
  BY AbsOthers DEF LInv
<1>2. AbsMap' = [AbsMap EXCEPT ![KeyOf(t)] = v]
  <2>1. AbsMap' = [k \in Key |-> IF k = KeyOf(t) THEN v ELSE AbsMap[k]]
    <3>1. AbsMap' = [k \in Key |-> AbsMap'[k]]
      BY DEF AbsMap
    <3> QED BY <1>1, <3>1
  <2>2. AbsMap = [k \in Key |-> AbsMap[k]]
    BY DEF AbsMap
  <2> QED BY <2>1, <2>2
<1>3. \A k \in Key : k = KeyOf(t) /\ AbsMap[k] = v => AbsMap' = AbsMap
  <2>1. AbsMap = [k \in Key |-> AbsMap[k]]
    BY DEF AbsMap
  <2> QED BY <1>2, <2>1
<1> QED BY <1>2, <1>3 DEF Map!Put, KeyOf

\* What a call in progress is about.
LEMMA Called ==
  ASSUME LInv, NEW t \in Thread, pc[t] \notin Keyless \cup {"los_miss"},
         pc[t] = "lad_entry" => ~Detached(t)
  PROVE  /\ Phase(t) = "called" /\ KeyOf(t) \in Key
         /\ AbsMap[KeyOf(t)] \in seen[t][KeyOf(t)]
         /\ AbsMap[KeyOf(t)] = ValueOf(Current(KeyOf(t)))
         /\ \A o \in Op : pc[t] \in OpAt[o] => call[t].op = o
<1>1. KeyOf(t) \in Key
  BY DEF LInv, OInv, IInv, CallsDistinct
<1>2. Phase(t) = "called"
  BY PhaseOf DEF Keyless
<1>3. SeenBy(t, KeyOf(t))
  BY <1>1, <1>2, SeenByOf
<1> QED BY <1>1, <1>2, <1>3, SeenAtHand, AbsOf DEF LInv, OpsPlaced

\* missLocked and the promotions leave the abstract map as it is.
LEMMA MapPublish ==
  ASSUME OInv, UNCHANGED p, read.amended, MissLocked(dirty) \/ Promote(dirty)
  PROVE  AbsMap' = AbsMap
<1>0. TypeOK /\ DirtyMirrorsRead
  BY DEF OInv, IInv
<1>1. \/ read' = [m |-> dirty, amended |-> FALSE] /\ dirty' = NoEntries
      \/ UNCHANGED read /\ dirty' = dirty
  BY MissPublishes
<1>2. CASE read' = [m |-> dirty, amended |-> FALSE] /\ dirty' = NoEntries
  <2>1. ASSUME NEW k \in Key PROVE AbsMap'[k] = AbsMap[k]
    <3>1. Current(k)' = dirty[k]
      BY <1>2 DEF Current, Has, NoEntries
    <3>2. CASE Current(k) = dirty[k]
      BY <3>1, <3>2, AbsOf DEF ValueOf
    <3>3. CASE Current(k) # dirty[k]
      <4>1. p[Current(k)] = EXPUNGED /\ dirty[k] = NoEntry
        BY <1>0, <3>3 DEF DirtyMirrorsRead, Current
      <4> QED BY <1>0, <3>1, <4>1, AbsOf, CurrentTyped DEF ValueOf, Live
    <3> QED BY <3>2, <3>3
  <2>2. AbsMap' = [k \in Key |-> AbsMap'[k]] /\ AbsMap = [k \in Key |-> AbsMap[k]]
    BY DEF AbsMap
  <2> QED BY <2>1, <2>2
<1>3. CASE UNCHANGED read /\ dirty' = dirty
  BY <1>3, MapSame
<1> QED BY <1>1, <1>2, <1>3

\* A look-up that finds no entry.
LEMMA FindsNone ==
  ASSUME LInv, History, NEW t \in Thread, Actions(t),
         pc[t] \in {"load", "load_lock", "load_and_delete", "lad_lock"},
         Finish(t, NULL), AbsMap' = AbsMap, Current(KeyOf(t)) = NoEntry
  PROVE  Map!Effect(t)
<1>1. Phase(t) = "called" /\ NULL \in seen[t][KeyOf(t)]
      /\ call[t].op \in {"load", "load_and_delete"}
  BY Called DEF Keyless, ValueOf, Op, OpAt
<1>2. Phase(t)' = "done" /\ Map!Result(t, NULL)
  BY Answers
<1>3. Outcome(t)
  BY <1>1, <1>2 DEF Outcome, Map!Load, Map!LoadAndDelete, KeyOf, NULL, Map!NULL
<1> QED BY <1>1, <1>2, <1>3, TakesEffect

\* A load_and_delete that finds its entry in read, or takes it out of dirty:
\* in that case it takes effect, if the entry has a value.
LEMMA LadEntersSim ==
  ASSUME LInv, History, NEW t \in Thread, Actions(t), pc'[t] = "lad_entry"
  PROVE  Map!Effect(t) \/ UNCHANGED Map!vars
<1>0. OInv /\ TypeOK /\ IInv /\ KeyOf(t)' = KeyOf(t) /\ pc[t] \in {"load_and_delete", "lad_lock"}
  BY CallStep, PlaceBefore DEF LInv, OInv, IInv, KeyOf, Op, OpAt
<1>1. PICK k \in Key : k = KeyOf(t) /\ k = KeyOf(t)'
  BY <1>0, LadEnters
<1>2. /\ ent'[t] = Current(k) /\ Current(k) \in Call /\ UNCHANGED p
      /\ \/ Has(read.m, k) /\ UNCHANGED <<read, dirty>>
         \/ ~Has(read.m, k) /\ Current(k)' = NoEntry
  <2>1. Current(KeyOf(t))' = Current(k)'
    BY <1>1 DEF Current
  <2> QED BY <1>1, <2>1, LadEnters
<1>3. /\ Phase(t) = "called" /\ Res(t) = NoResult /\ call[t].op = "load_and_delete"
      /\ AbsMap[k] \in seen[t][k] /\ AbsMap[k] = ValueOf(Current(k))
  BY <1>0, <1>1, Called, PhaseOf DEF Keyless, Op, OpAt
<1>4. Detached(t)' <=> ent'[t] # Current(k)' /\ Live(p'[ent'[t]])
  BY <1>1, AbsOf DEF Detached
<1>5. CASE Detached(t)'
  <2>1. Phase(t)' = "done" /\ Res(t)' = [NoResult EXCEPT ![KeyOf(t)] = p[ent'[t]]]
    BY <1>0, <1>2, <1>5 DEF Phase, Res, NoResult
  <2>2. p[ent'[t]] = AbsMap[k] /\ AbsMap[k] # NULL
    BY <1>0, <1>2, <1>3, <1>4, <1>5, CurrentTyped DEF ValueOf, Live
  <2>3. Map!Result(t, AbsMap[k])
    BY <2>1, <2>2, ResultIs
  <2>4. Current(k)' = NoEntry
    BY <1>2, <1>4, <1>5 DEF Current
  <2>5. AbsMap'[k] = NULL
    BY <2>4, AbsOf DEF ValueOf
  <2>6. Map!Put(t, NULL)
    BY <1>1, <2>5, PutIs
  <2>7. Outcome(t)
    BY <1>1, <1>3, <2>2, <2>3, <2>6
    DEF Outcome, Map!LoadAndDelete, KeyOf, NULL, Map!NULL
  <2> QED BY <1>3, <2>1, <2>7, TakesEffect
<1>6. CASE ~Detached(t)'
  <2>1. Phase(t)' = "called" /\ Res(t)' = NoResult
    BY <1>0, <1>6 DEF Phase, Res, NoResult
  <2>2. AbsMap' = AbsMap
    <3>1. CASE UNCHANGED <<read, dirty>>
      BY <1>2, <3>1, MapSame
    <3>2. CASE Current(k)' = NoEntry
      <4>1. AbsMap'[k] = NULL
        BY <3>2, AbsOf DEF ValueOf
      <4>2. ~Live(p[Current(k)])
        BY <1>0, <1>2, <1>4, <1>6, <3>2, CurrentTyped
      <4>3. AbsMap[k] = NULL
        BY <1>3, <4>2 DEF ValueOf
      <4> QED BY <1>1, <4>1, <4>3, PutIs
    <3> QED BY <1>2, <3>1, <3>2
  <2> QED BY <1>3, <2>1, <2>2, Silent
<1> QED BY <1>5, <1>6

\* load and load_and_delete look their key up without the mutex.
LEMMA LookupReadSim ==
  ASSUME LInv, History, NEW t \in Thread, LoadRead(t) \/ LoadAndDeleteRead(t)
  PROVE  Map!Effect(t) \/ UNCHANGED Map!vars
<1>0. /\ Actions(t) /\ TypeOK /\ DirtyMirrorsRead /\ pc[t] \in {"load", "load_and_delete"}
      /\ KeyOf(t) \in Key /\ UNCHANGED <<p, read, dirty>>
  BY Called
  DEF LInv, OInv, IInv, Actions, LoadRead, LoadAndDeleteRead, LookupRead, maps, Keyless
<1>1. AbsMap' = AbsMap
  BY <1>0, MapSame
<1>2. CASE pc'[t] \in {"load_entry", "load_lock", "lad_lock"}
  BY <1>0, <1>1, <1>2, Moves
<1>3. CASE pc'[t] = "lad_entry"
  BY <1>0, <1>3, LadEntersSim
<1>4. CASE ~Has(read.m, KeyOf(t)) /\ ~read.amended /\ Finish(t, NULL)
  <2>1. Current(KeyOf(t)) = NoEntry
    BY <1>0, <1>4 DEF DirtyMirrorsRead, Current, NoEntries
  <2> QED BY <1>0, <1>1, <1>4, <2>1, FindsNone
<1>5. \/ pc'[t] \in {"load_entry", "load_lock", "lad_entry", "lad_lock"}
      \/ ~Has(read.m, KeyOf(t)) /\ ~read.amended /\ Finish(t, NULL)
  BY <1>0 DEF LoadRead, LoadAndDeleteRead, LookupRead, Use, Goto, TypeOK
<1> QED BY <1>2, <1>3, <1>4, <1>5

\* Then with it.
LEMMA LookupLockedSim ==
  ASSUME LInv, History, NEW t \in Thread, LoadLocked(t) \/ LoadAndDeleteLocked(t)
  PROVE  Map!Effect(t) \/ UNCHANGED Map!vars
<1>0. /\ Actions(t) /\ OInv /\ TypeOK /\ DirtyMirrorsRead /\ UNCHANGED p
      /\ pc[t] \in {"load_lock", "lad_lock"} /\ KeyOf(t) \in Key
  BY Called
  DEF LInv, OInv, IInv, Actions, LoadLocked, LoadAndDeleteLocked, LookupLocked, Keyless
<1>1. PICK d : /\ d = dirty \/ d = [dirty EXCEPT ![KeyOf(t)] = NoEntry]
               /\ LookupLocked(t, "load_entry", d) \/ LookupLocked(t, "lad_entry", d)
               /\ LoadLocked(t) => d = dirty /\ LookupLocked(t, "load_entry", d)
               /\ LoadAndDeleteLocked(t) => LookupLocked(t, "lad_entry", d)
  <2>1. CASE LoadLocked(t)
    <3>1. ~LoadAndDeleteLocked(t)
      BY <2>1 DEF LoadLocked, LoadAndDeleteLocked
    <3> QED BY <2>1, <3>1 DEF LoadLocked
  <2>2. CASE LoadAndDeleteLocked(t)
    <3>1. ~LoadLocked(t)
      BY <2>2 DEF LoadLocked, LoadAndDeleteLocked
    <3> QED BY <2>2, <3>1 DEF LoadAndDeleteLocked
  <2> QED BY <2>1, <2>2
<1>2. CASE pc'[t] = "lad_entry"
  BY <1>0, <1>2, LadEntersSim
<1>3. CASE pc'[t] = "load_entry"
  <2>1. LookupLocked(t, "load_entry", dirty)
    BY <1>0, <1>1, <1>3 DEF LookupLocked, Use, Goto, Finish, Answer, TypeOK
  <2>2. AbsMap' = AbsMap
    BY <1>0, <2>1, MapSame, MapPublish DEF LookupLocked, maps
  <2> QED BY <1>0, <1>3, <2>2, Moves
<1>4. CASE Finish(t, NULL) /\ pc'[t] = "done"
  <2>1. /\ ~Has(read.m, KeyOf(t))
        /\ \/ read.amended /\ MissLocked(d) /\ ~Has(dirty, KeyOf(t))
           \/ ~read.amended /\ UNCHANGED maps
    BY <1>0, <1>1, <1>4 DEF LookupLocked, Use, Goto, Finish, Answer, TypeOK
  <2>2. Current(KeyOf(t)) = NoEntry
    BY <1>0, <2>1 DEF DirtyMirrorsRead, Current, NoEntries, Has
  <2>3. ~Has(dirty, KeyOf(t)) => d = dirty
    BY <1>0, <1>1 DEF Has, TypeOK, EntryMap
  <2>4. AbsMap' = AbsMap
    BY <1>0, <2>1, <2>3, MapSame, MapPublish DEF maps
  <2> QED BY <1>0, <1>4, <2>2, <2>4, FindsNone
<1>5. \/ pc'[t] \in {"load_entry", "lad_entry"}
      \/ Finish(t, NULL) /\ pc'[t] = "done"
  BY <1>0, <1>1 DEF LookupLocked, Use, Goto, Finish, Answer, TypeOK
<1> QED BY <1>2, <1>3, <1>4, <1>5

\* load answers with a value that its key has had.
LEMMA LoadEntrySim ==
  ASSUME LInv, History, NEW t \in Thread, LoadEntry(t)
  PROVE  Map!Effect(t)
<1>0. /\ Actions(t) /\ OInv /\ TypeOK /\ pc[t] = "load_entry" /\ UNCHANGED <<p, read, dirty>>
      /\ Finish(t, EntryLoad(ent[t]))
  BY DEF LInv, OInv, IInv, Actions, LoadEntry, maps
<1>1. /\ Phase(t) = "called" /\ KeyOf(t) \in Key /\ call[t].op = "load"
      /\ AbsMap[KeyOf(t)] \in seen[t][KeyOf(t)]
      /\ AbsMap[KeyOf(t)] = ValueOf(Current(KeyOf(t)))
  BY <1>0, Called DEF Keyless, Op, OpAt
<1>2. EntryLoad(ent[t]) = ValueOf(ent[t])
  BY <1>0, AtLad, CurrentTyped DEF EntryLoad, ValueOf
<1>3. ValueOf(ent[t]) \in seen[t][KeyOf(t)]
  BY <1>0, <1>1 DEF LInv, UsedTracked, Tracked
<1>4. Phase(t)' = "done" /\ Map!Result(t, ValueOf(ent[t]))
  BY <1>0, <1>2, Answers
<1>5. AbsMap' = AbsMap
  BY <1>0, MapSame
<1>6. Outcome(t)
  BY <1>1, <1>3, <1>4, <1>5 DEF Outcome, Map!Load, KeyOf
<1> QED BY <1>0, <1>1, <1>4, <1>6, TakesEffect

\* load_and_delete empties its entry; when it had taken it out of dirty, no
\* caller sees that.
LEMMA LoadAndDeleteEntrySim ==
  ASSUME LInv, History, NEW t \in Thread, LoadAndDeleteEntry(t)
  PROVE  Map!Effect(t) \/ UNCHANGED Map!vars
<1>0. /\ Actions(t) /\ OInv /\ TypeOK /\ IInv /\ pc[t] = "lad_entry"
      /\ UNCHANGED <<read, dirty>> /\ Finish(t, EntryLoad(ent[t]))
      /\ p' = IF Live(p[ent[t]]) THEN [p EXCEPT ![ent[t]] = NULL] ELSE p
  BY DEF LInv, OInv, IInv, Actions, LoadAndDeleteEntry, EntrySwap, maps
<1>1. PICK k \in Key : k = KeyOf(t)
  BY <1>0, AtLad
<1>2. /\ ent[t] \in Call
      /\ Detached(t) <=> ent[t] # Current(k) /\ Live(p[ent[t]])
      /\ \A k2 \in Key : Under(ent[t], k2) => k2 = k
  BY <1>0, <1>1, AtLad
<1>3. EntryLoad(ent[t]) = ValueOf(ent[t])
  BY <1>0, <1>2, CurrentTyped DEF EntryLoad, ValueOf
<1>4. Phase(t)' = "done" /\ Res(t)' = [NoResult EXCEPT ![KeyOf(t)] = ValueOf(ent[t])]
  <2>1. pc'[t] = "done" /\ out'[t] = [NoResult EXCEPT ![KeyOf(t)] = ValueOf(ent[t])]
    BY <1>0, <1>3 DEF Finish, Answer, Goto, TypeOK
  <2> QED BY <2>1 DEF Phase, Res
<1>5. Map!Result(t, ValueOf(ent[t]))
  BY <1>0, <1>4, ResultIs
<1>6. CASE Detached(t)
  <2>1. Phase(t) = "done" /\ Res(t) = [NoResult EXCEPT ![KeyOf(t)] = p[ent[t]]]
    BY <1>0, <1>6, PhaseOf
  <2>2. ValueOf(ent[t]) = p[ent[t]]
    BY <1>0, <1>2, <1>6, CurrentTyped DEF ValueOf
  <2>3. AbsMap'[k] = AbsMap[k]
    BY <1>0, <1>2, <1>6, AbsOf, CurrentTyped DEF ValueOf, Current, TypeOK
  <2>4. AbsMap' = AbsMap
    BY <1>0, <1>1, <2>3, PutIs
  <2> QED BY <1>0, <1>4, <2>1, <2>2, <2>4, Silent
<1>7. CASE ~Detached(t)
  <2>1. /\ Phase(t) = "called" /\ call[t].op = "load_and_delete"
        /\ AbsMap[k] \in seen[t][k] /\ AbsMap[k] = ValueOf(Current(k))
    BY <1>0, <1>1, <1>7, Called DEF Keyless, Op, OpAt
  <2>2. CASE Live(p[ent[t]])
    <3>1. ent[t] = Current(k) /\ p'[ent[t]] = NULL
      BY <1>0, <1>2, <1>7, <2>2 DEF TypeOK
    <3>2. AbsMap'[k] = NULL
      BY <1>0, <3>1, AbsOf, CurrentTyped DEF ValueOf, Current, Live
    <3>3. Map!Put(t, NULL)
      BY <1>0, <1>1, <3>2, PutIs
    <3>4. ValueOf(ent[t]) = AbsMap[k] /\ AbsMap[k] # NULL
      BY <1>0, <1>2, <2>1, <2>2, <3>1, CurrentTyped DEF ValueOf, Live
    <3>5. Outcome(t)
      BY <1>1, <1>5, <2>1, <3>3, <3>4
      DEF Outcome, Map!LoadAndDelete, KeyOf, NULL, Map!NULL
    <3> QED BY <1>0, <1>4, <2>1, <3>5, TakesEffect
  <2>3. CASE ~Live(p[ent[t]])
    <3>1. AbsMap' = AbsMap
      BY <1>0, <2>3, MapSame
    <3>2. ValueOf(ent[t]) = NULL
      BY <2>3 DEF ValueOf
    <3>3. NULL \in seen[t][k]
      BY <1>0, <1>1, <1>7, <2>1, <3>2 DEF LInv, UsedTracked, Tracked
    <3>4. Outcome(t)
      BY <1>1, <1>5, <2>1, <3>1, <3>2, <3>3
      DEF Outcome, Map!LoadAndDelete, KeyOf, NULL, Map!NULL
    <3> QED BY <1>0, <1>4, <2>1, <3>4, TakesEffect
  <2> QED BY <2>2, <2>3
<1> QED BY <1>6, <1>7

\* A swap into the entry of its key is a put.
LEMMA SwapPuts ==
  ASSUME LInv, NEW t \in Thread, Actions(t), KeyOf(t) \in Key,
         Current(KeyOf(t)) \in Call,
         p' = [p EXCEPT ![Current(KeyOf(t))] = BoxOf(t)],
         UNCHANGED <<read, dirty>>
  PROVE  Map!Put(t, BoxOf(t))
<1>0. TypeOK /\ BoxOf(t) \in Call
  BY CallStep, CallFacts, TypeParts DEF LInv, OInv, IInv
<1>1. ASSUME NEW k \in Key, k = KeyOf(t) PROVE AbsMap'[k] = BoxOf(t)
  <2>1. Current(k)' = Current(k)
    BY DEF Current
  <2>2. p'[Current(k)] = BoxOf(t)
    BY <1>0, <1>1 DEF TypeOK
  <2>3. AbsMap'[k] = IF Current(k) # NoEntry /\ Live(p'[Current(k)])
                     THEN p'[Current(k)] ELSE NULL
    BY <2>1, AbsOf DEF ValueOf
  <2> QED BY <1>0, <1>1, <2>2, <2>3, CurrentTyped DEF Live
<1> QED BY <1>1, PutIs

\* A new entry for a key that has none is a put.
LEMMA InsertPuts ==
  ASSUME LInv, NEW t \in Thread, Actions(t), KeyOf(t) \in Key,
         ~Has(read.m, KeyOf(t)), ~Has(dirty, KeyOf(t)), read'.m = read.m,
         NEW d \in EntryMap, InsertNew(t, d)
  PROVE  Map!Put(t, BoxOf(t)) /\ AbsMap[KeyOf(t)] = NULL
<1>0. TypeOK /\ BoxOf(t) \in Call
  BY CallStep, CallFacts, TypeParts DEF LInv, OInv, IInv
<1>1. ASSUME NEW k \in Key, k = KeyOf(t) PROVE AbsMap'[k] = BoxOf(t) /\ AbsMap[k] = NULL
  <2>1. dirty'[k] = BoxOf(t) /\ p'[BoxOf(t)] = BoxOf(t)
    BY <1>0, <1>1 DEF InsertNew, EntryMap, TypeOK
  <2>2. Current(k)' = BoxOf(t) /\ Current(k) = NoEntry
    BY <1>1, <2>1 DEF Current, Has
  <2> QED BY <1>0, <2>1, <2>2, AbsOf, CurrentTyped DEF ValueOf, Live
<1> QED BY <1>1, PutIs

\* Marks are no values: expunging and unexpunging are not seen.
LEMMA MapMarks ==
  ASSUME OInv, NEW e \in Call, NEW mark \in {NULL, EXPUNGED}, ~Live(p[e]),
         p' = [p EXCEPT ![e] = mark],
         \A k \in Key : Current(k)' = Current(k)
  PROVE  AbsMap' = AbsMap
<1>0. TypeOK
  BY DEF OInv, IInv
<1>1. \A f \in Call : p'[f] = p[f] \/ (~Live(p[f]) /\ ~Live(p'[f]))
  BY <1>0, CurrentTyped DEF TypeOK, Live
<1>2. ASSUME NEW k \in Key PROVE AbsMap'[k] = AbsMap[k]
  BY <1>0, <1>1, AbsOf, CurrentTyped DEF ValueOf
<1>3. AbsMap' = [k \in Key |-> AbsMap'[k]] /\ AbsMap = [k \in Key |-> AbsMap[k]]
  BY DEF AbsMap
<1> QED BY <1>2, <1>3

\* A store that has put its box.
LEMMA StoreEffect ==
  ASSUME LInv, History, NEW t \in Thread, Actions(t),
         pc[t] \notin Keyless \cup {"los_miss", "lad_entry"},
         call[t].op = "store", Finish(t, NULL), Map!Put(t, BoxOf(t))
  PROVE  Map!Effect(t)
<1>1. Phase(t) = "called" /\ Phase(t)' = "done" /\ Map!Result(t, NULL)
  BY Called, Answers
<1>2. Outcome(t)
  BY <1>1 DEF Outcome, Map!Store, BoxOf, NULL, Map!NULL
<1> QED BY <1>1, <1>2, TakesEffect

\* So has a load_or_store, which answers with nothing or with its own value.
LEMMA StoredEffect ==
  ASSUME LInv, History, NEW t \in Thread, Actions(t),
         pc[t] \notin Keyless \cup {"los_miss", "lad_entry"},
         call[t].op = "load_or_store", NEW v \in {NULL, BoxOf(t)},
         Answer(t, v, "los_miss") \/ Finish(t, v),
         AbsMap[KeyOf(t)] = NULL, Map!Put(t, BoxOf(t))
  PROVE  Map!Effect(t)
<1>1. Phase(t) = "called" /\ Phase(t)' = "done" /\ Map!Result(t, v)
  BY Called, Answers
<1>2. Outcome(t)
  BY <1>1 DEF Outcome, Map!LoadOrStore, KeyOf, BoxOf, NULL, Map!NULL
<1> QED BY <1>1, <1>2, TakesEffect

\* A load_or_store that has found a value.
LEMMA FoundEffect ==
  ASSUME LInv, History, NEW t \in Thread, Actions(t),
         pc[t] \notin Keyless \cup {"los_miss", "lad_entry"},
         call[t].op = "load_or_store", AbsMap' = AbsMap,
         Answer(t, AbsMap[KeyOf(t)], "los_miss") \/ Finish(t, AbsMap[KeyOf(t)]),
         AbsMap[KeyOf(t)] # NULL
  PROVE  Map!Effect(t)
<1>1. Phase(t) = "called" /\ Phase(t)' = "done" /\ Map!Result(t, AbsMap[KeyOf(t)])
  BY Called, Answers
<1>2. AbsMap[KeyOf(t)] \in seen[t][KeyOf(t)]
  BY Called
<1>3. Outcome(t)
  BY <1>1, <1>2 DEF Outcome, Map!LoadOrStore, KeyOf, NULL, Map!NULL
<1> QED BY <1>1, <1>3, TakesEffect

\* try_load_or_store on the entry of the key.
LEMMA TrySim ==
  ASSUME LInv, History, NEW t \in Thread, Actions(t),
         pc[t] \notin Keyless \cup {"los_miss", "lad_entry"},
         call[t].op = "load_or_store", UNCHANGED <<read, dirty>>,
         NEW e \in Call, e = Current(KeyOf(t)), p[e] # EXPUNGED,
         TryLoadOrStore(e, BoxOf(t)),
         Answer(t, EntryLoad(e), "los_miss") \/ Finish(t, EntryLoad(e))
  PROVE  Map!Effect(t)
<1>0. /\ TypeOK /\ KeyOf(t) \in Key
      /\ AbsMap[KeyOf(t)] = ValueOf(e)
  BY Called DEF LInv, OInv, IInv
<1>1. EntryLoad(e) = ValueOf(e)
  BY <1>0, CurrentTyped DEF EntryLoad, ValueOf
<1>2. CASE p[e] = NULL
  <2>1. ValueOf(e) = NULL /\ p' = [p EXCEPT ![e] = BoxOf(t)]
    BY <1>0, <1>2, CurrentTyped DEF ValueOf, Live, TryLoadOrStore
  <2>2. Map!Put(t, BoxOf(t))
    BY <1>0, <2>1, SwapPuts
  <2> QED BY <1>0, <1>1, <2>1, <2>2, StoredEffect
<1>3. CASE Live(p[e])
  <2>1. UNCHANGED p /\ ValueOf(e) # NULL
    BY <1>0, <1>3, CurrentTyped DEF ValueOf, Live, TryLoadOrStore
  <2>2. AbsMap' = AbsMap
    BY <2>1, MapSame
  <2> QED BY <1>0, <1>1, <2>1, <2>2, FoundEffect
<1> QED BY <1>0, <1>2, <1>3 DEF TypeOK, Live

\* store and load_or_store look their key up in read.
LEMMA StoreReadSim ==
  ASSUME LInv, History, NEW t \in Thread, StoreRead(t) \/ LoadOrStoreRead(t)
  PROVE  UNCHANGED Map!vars
<1>1. /\ Actions(t) /\ TypeOK /\ pc[t] \in {"store", "load_or_store"}
      /\ UNCHANGED <<p, read, dirty>>
  BY DEF LInv, OInv, IInv, Actions, StoreRead, LoadOrStoreRead, maps
<1>2. pc'[t] \in {"store_try", "store_lock", "los_try", "los_lock"}
  BY <1>1 DEF StoreRead, LoadOrStoreRead, Use, Goto, TypeOK
<1>3. AbsMap' = AbsMap
  BY <1>1, MapSame
<1> QED BY <1>1, <1>2, <1>3, Moves

\* try_store and try_load_or_store find their entry in read, or expunged.
LEMMA StoreTrySim ==
  ASSUME LInv, History, NEW t \in Thread, StoreTry(t) \/ LoadOrStoreTry(t)
  PROVE  Map!Effect(t) \/ UNCHANGED Map!vars
<1>0. /\ Actions(t) /\ OInv /\ TypeOK /\ pc[t] \in {"store_try", "los_try"}
      /\ UNCHANGED <<read, dirty>> /\ ent[t] \in Call /\ KeyOf(t) \in Key
      /\ ent[t] = Current(KeyOf(t)) \/ p[ent[t]] = EXPUNGED
  <2>1. /\ Actions(t) /\ OInv /\ TypeOK /\ pc[t] \in {"store_try", "los_try"}
        /\ UNCHANGED <<read, dirty>>
    BY DEF LInv, OInv, IInv, Actions, StoreTry, LoadOrStoreTry, maps
  <2>2. ent[t] \in Call /\ KeyOf(t) \in Key
    BY <2>1, Called DEF OInv, UsesOneKey, UsesEntry, Keyless
  <2> QED BY <2>1, <2>2, CurrentTyped DEF OInv, Routed, Current, Has
<1>1. /\ pc[t] = "store_try" => call[t].op = "store"
      /\ pc[t] = "los_try" => call[t].op = "load_or_store"
  BY DEF LInv, OpsPlaced, Op, OpAt
<1>2. CASE p[ent[t]] = EXPUNGED
  <2>1. UNCHANGED p /\ pc'[t] \in {"store_lock", "los_lock"}
    BY <1>0, <1>2, CurrentTyped
    DEF StoreTry, LoadOrStoreTry, TryLoadOrStore, Goto, TypeOK, NULL, EXPUNGED
  <2>2. AbsMap' = AbsMap
    BY <1>0, <2>1, MapSame
  <2> QED BY <1>0, <2>1, <2>2, Moves
<1>3. CASE p[ent[t]] # EXPUNGED /\ StoreTry(t)
  <2>1. /\ ent[t] = Current(KeyOf(t)) /\ Finish(t, NULL) /\ call[t].op = "store"
        /\ p' = [p EXCEPT ![ent[t]] = BoxOf(t)]
    BY <1>0, <1>1, <1>3 DEF StoreTry, EntrySwap
  <2>2. Map!Put(t, BoxOf(t))
    BY <1>0, <2>1, SwapPuts
  <2> QED BY <1>0, <2>1, <2>2, StoreEffect DEF Keyless
<1>4. CASE p[ent[t]] # EXPUNGED /\ LoadOrStoreTry(t)
  <2>1. /\ ent[t] = Current(KeyOf(t)) /\ Finish(t, EntryLoad(ent[t]))
        /\ TryLoadOrStore(ent[t], BoxOf(t)) /\ call[t].op = "load_or_store"
    BY <1>0, <1>1, <1>4 DEF LoadOrStoreTry
  <2> QED BY <1>0, <1>4, <2>1, TrySim DEF Keyless
<1> QED BY <1>2, <1>3, <1>4

\* Unexpunging under the mutex is not seen.
LEMMA UnexpungeSim ==
  ASSUME LInv, History, NEW t \in Thread, Actions(t),
         pc[t] \in {"store_lock", "los_lock"},
         UnexpungeLocked(t, "store_swap") \/ UnexpungeLocked(t, "los_retry")
  PROVE  UNCHANGED Map!vars
<1>0. OInv /\ TypeOK
  BY DEF LInv, OInv, IInv
<1>1. PICK k \in Key : k = KeyOf(t)
  BY Called DEF Keyless
<1>2. /\ Has(read.m, k) /\ read.m[k] \in Call /\ UNCHANGED read
      /\ pc'[t] \in {"store_swap", "los_retry"}
      /\ IF p[read.m[k]] = EXPUNGED
         THEN p' = [p EXCEPT ![read.m[k]] = NULL]
              /\ dirty' = [dirty EXCEPT ![k] = read.m[k]]
         ELSE UNCHANGED <<p, dirty>>
  BY <1>0, <1>1, EntryTypes DEF UnexpungeLocked, Use, Goto, TypeOK, Has
<1>3. AbsMap' = AbsMap
  <2>1. CASE p[read.m[k]] = EXPUNGED
    <3>1. ~Live(p[read.m[k]])
      BY <1>0, <2>1, CurrentTyped DEF Live
    <3>2. \A k2 \in Key : Current(k2)' = Current(k2)
      BY <1>0, <1>2, <2>1 DEF Current, TypeOK, EntryMap
    <3> QED BY <1>0, <1>2, <2>1, <3>1, <3>2, MapMarks
  <2>2. CASE p[read.m[k]] # EXPUNGED
    BY <1>2, <2>2, MapSame
  <2> QED BY <2>1, <2>2
<1> QED BY <1>2, <1>3, Moves

\* A new key goes in at once, or after dirtyLocked.
LEMMA NewKeySim ==
  ASSUME LInv, History, NEW t \in Thread, Actions(t),
         pc[t] \in {"store_lock", "los_lock"}, NewKeyLocked(t)
  PROVE  Map!Effect(t) \/ UNCHANGED Map!vars
<1>0. /\ TypeOK /\ KeyOf(t) \in Key
      /\ pc[t] = "store_lock" => call[t].op = "store"
      /\ pc[t] = "los_lock" => call[t].op = "load_or_store"
  BY Called DEF LInv, OInv, IInv, OpsPlaced, Op, OpAt, Keyless
<1>1. CASE pc'[t] = "dirty_locked"
  <2>1. UNCHANGED <<p, read, dirty>>
    BY <1>0, <1>1 DEF NewKeyLocked, InsertNew, Finish, Answer, Goto, TypeOK, maps
  <2> QED BY <1>1, <2>1, MapSame, Moves
<1>2. CASE InsertNew(t, dirty) /\ UNCHANGED read
  <2>1. Map!Put(t, BoxOf(t)) /\ AbsMap[KeyOf(t)] = NULL
    BY <1>0, <1>2, InsertPuts DEF NewKeyLocked, TypeOK
  <2>2. Finish(t, IF call[t].op = "store" THEN NULL ELSE BoxOf(t))
    BY <1>2 DEF InsertNew
  <2> QED BY <1>0, <2>1, <2>2, StoreEffect, StoredEffect DEF Keyless
<1> QED BY <1>0, <1>1, <1>2 DEF NewKeyLocked, Goto, TypeOK

\* store under the mutex.
LEMMA StoreLockedSim ==
  ASSUME LInv, History, NEW t \in Thread, StoreLocked(t)
  PROVE  Map!Effect(t) \/ UNCHANGED Map!vars
<1>0. /\ Actions(t) /\ OInv /\ TypeOK /\ pc[t] = "store_lock" /\ KeyOf(t) \in Key
      /\ call[t].op = "store"
  BY Called DEF LInv, OInv, IInv, Actions, StoreLocked, Keyless, OpsPlaced, Op, OpAt
<1>1. CASE UnexpungeLocked(t, "store_swap")
  BY <1>0, <1>1, UnexpungeSim
<1>2. CASE NewKeyLocked(t)
  BY <1>0, <1>2, NewKeySim
<1>3. CASE /\ ~Has(read.m, KeyOf(t)) /\ Has(dirty, KeyOf(t))
           /\ EntrySwap(dirty[KeyOf(t)], BoxOf(t)) /\ Finish(t, NULL)
           /\ UNCHANGED maps
  <2>1. Current(KeyOf(t)) = dirty[KeyOf(t)] /\ Current(KeyOf(t)) \in Call
    BY <1>0, <1>3, EntryTypes DEF Current, Has
  <2>2. Map!Put(t, BoxOf(t))
    BY <1>0, <1>3, <2>1, SwapPuts DEF EntrySwap, maps
  <2> QED BY <1>0, <1>3, <2>2, StoreEffect DEF Keyless
<1> QED BY <1>1, <1>2, <1>3 DEF StoreLocked

\* The store that ends the critical section.
LEMMA StoreSwapSim ==
  ASSUME LInv, History, NEW t \in Thread, StoreSwap(t)
  PROVE  Map!Effect(t)
<1>0. /\ Actions(t) /\ OInv /\ TypeOK /\ pc[t] = "store_swap" /\ KeyOf(t) \in Key
      /\ call[t].op = "store" /\ UNCHANGED <<read, dirty>> /\ Finish(t, NULL)
      /\ p' = [p EXCEPT ![ent[t]] = BoxOf(t)]
  BY Called DEF LInv, OInv, IInv, Actions, StoreSwap, EntrySwap, Keyless, OpsPlaced, Op,
                OpAt, maps
<1>1. ent[t] \in Call /\ ent[t] = Current(KeyOf(t))
  BY <1>0, CurrentTyped DEF OInv, Routed, UsesOneKey, UsesEntry, Current, Has
<1>2. Map!Put(t, BoxOf(t))
  BY <1>0, <1>1, SwapPuts
<1> QED BY <1>0, <1>2, StoreEffect DEF Keyless

\* dirtyLocked: its marks are not seen, the entry it ends with is.
LEMMA DirtyLockedSim ==
  ASSUME LInv, History, NEW t \in Thread, DirtyLockedExpunge(t) \/ DirtyLockedAmend(t)
  PROVE  Map!Effect(t) \/ UNCHANGED Map!vars
<1>0. /\ Actions(t) /\ OInv /\ TypeOK /\ pc[t] = "dirty_locked" /\ KeyOf(t) \in Key
      /\ call[t].op \in {"store", "load_or_store"} /\ Rebuilding(t) /\ DirtyMirrorsRead
  BY Called DEF LInv, OInv, IInv, Actions, DirtyLockedExpunge, DirtyLockedAmend, Keyless,
                OpsPlaced, RebuildOK
<1>1. CASE DirtyLockedExpunge(t)
  <2>1. PICK k \in KeysIn(iter[t]) :
          \/ UNCHANGED p
          \/ ~Live(p[iter[t][k]]) /\ p' = [p EXCEPT ![iter[t][k]] = EXPUNGED]
    BY <1>1 DEF DirtyLockedExpunge
  <2>2. iter[t][k] \in Call /\ UNCHANGED <<read, dirty, pc>>
    BY <1>0, <1>1, EntryTypes DEF DirtyLockedExpunge, KeysIn, Has, maps
  <2>3. \A k2 \in Key : Current(k2)' = Current(k2)
    BY <2>2 DEF Current
  <2>4. AbsMap' = AbsMap
    BY <1>0, <2>1, <2>2, <2>3, MapSame, MapMarks
  <2> QED BY <1>0, <2>2, <2>4, Moves
<1>2. CASE DirtyLockedAmend(t)
  <2>1. InsertNew(t, fresh) /\ fresh \in EntryMap /\ read'.m = read.m
    BY <1>0, <1>2 DEF DirtyLockedAmend, TypeOK
  <2>2. ~Has(read.m, KeyOf(t)) /\ ~Has(dirty, KeyOf(t))
    BY <1>0 DEF Rebuilding, DirtyMirrorsRead, Has, NoEntries
  <2>3. Map!Put(t, BoxOf(t)) /\ AbsMap[KeyOf(t)] = NULL
    BY <1>0, <2>1, <2>2, InsertPuts
  <2>4. Finish(t, IF call[t].op = "store" THEN NULL ELSE BoxOf(t))
    BY <2>1 DEF InsertNew
  <2> QED BY <1>0, <2>3, <2>4, StoreEffect, StoredEffect DEF Keyless
<1> QED BY <1>1, <1>2

\* load_or_store under the mutex.
LEMMA LoadOrStoreLockedSim ==
  ASSUME LInv, History, NEW t \in Thread, LoadOrStoreLocked(t)
  PROVE  Map!Effect(t) \/ UNCHANGED Map!vars
<1>0. /\ Actions(t) /\ OInv /\ TypeOK /\ pc[t] = "los_lock" /\ KeyOf(t) \in Key
      /\ call[t].op = "load_or_store" /\ NotExpunged
  BY Called DEF LInv, OInv, IInv, Actions, LoadOrStoreLocked, Keyless, OpsPlaced, Op, OpAt
<1>1. CASE UnexpungeLocked(t, "los_retry")
  BY <1>0, <1>1, UnexpungeSim
<1>2. CASE NewKeyLocked(t)
  BY <1>0, <1>2, NewKeySim
<1>3. CASE /\ ~Has(read.m, KeyOf(t)) /\ Has(dirty, KeyOf(t))
           /\ TryLoadOrStore(dirty[KeyOf(t)], BoxOf(t))
           /\ Answer(t, EntryLoad(dirty[KeyOf(t)]), "los_miss")
           /\ UNCHANGED maps
  <2>1. /\ Current(KeyOf(t)) = dirty[KeyOf(t)] /\ dirty[KeyOf(t)] \in Call
        /\ p[dirty[KeyOf(t)]] # EXPUNGED
    BY <1>0, <1>3, EntryTypes DEF Current, Has, NotExpunged
  <2> QED BY <1>0, <1>3, <2>1, TrySim DEF Keyless, maps
<1> QED BY <1>1, <1>2, <1>3 DEF LoadOrStoreLocked

\* The try that follows unexpunging.
LEMMA LoadOrStoreRetrySim ==
  ASSUME LInv, History, NEW t \in Thread, LoadOrStoreRetry(t)
  PROVE  Map!Effect(t)
<1>0. /\ Actions(t) /\ OInv /\ TypeOK /\ pc[t] = "los_retry" /\ KeyOf(t) \in Key
      /\ call[t].op = "load_or_store" /\ UNCHANGED <<read, dirty>>
      /\ TryLoadOrStore(ent[t], BoxOf(t)) /\ Finish(t, EntryLoad(ent[t]))
  BY Called DEF LInv, OInv, IInv, Actions, LoadOrStoreRetry, Keyless, OpsPlaced, Op, OpAt,
                maps
<1>1. ent[t] \in Call /\ p[ent[t]] # EXPUNGED /\ ent[t] = Current(KeyOf(t))
  BY <1>0, CurrentTyped DEF OInv, IInv, NotExpunged, Routed, Current, Has
<1> QED BY <1>0, <1>1, TrySim DEF Keyless

\* missLocked comes after the effect.
LEMMA LoadOrStoreMissSim ==
  ASSUME LInv, History, NEW t \in Thread, LoadOrStoreMiss(t)
  PROVE  UNCHANGED Map!vars
<1>0. /\ Actions(t) /\ OInv /\ TypeOK /\ pc[t] = "los_miss" /\ pc'[t] = "done"
      /\ out' = out /\ read.amended /\ UNCHANGED p /\ MissLocked(dirty)
  BY DEF LInv, OInv, IInv, Actions, LoadOrStoreMiss, Routed, Goto, TypeOK
<1>1. AbsMap' = AbsMap
  BY <1>0, MapPublish
<1>2. Phase(t)' = "done" /\ Res(t)' = out[t]
  BY <1>0 DEF Phase, Res
<1> QED BY <1>0, <1>1, <1>2, PhaseOf, Silent

\* keys, values and key_values before their end.
LEMMA RangeSim ==
  ASSUME LInv, History, NEW t \in Thread,
         RangeRead(t) \/ RangeLocked(t) \/ RangeEntry(t)
  PROVE  UNCHANGED Map!vars
<1>0. /\ Actions(t) /\ OInv /\ TypeOK /\ pc[t] \in {"range", "range_lock", "range_entry"}
      /\ pc'[t] \in {"range_lock", "range_entry"} /\ UNCHANGED p
  BY DEF LInv, OInv, IInv, Actions, RangeRead, RangeLocked, RangeEntry, IterateOver, Goto,
         TypeOK
<1>1. UNCHANGED <<read, dirty>> \/ (read.amended /\ Promote(dirty))
  BY DEF RangeRead, RangeLocked, RangeEntry, maps
<1>2. AbsMap' = AbsMap
  BY <1>0, <1>1, MapSame, MapPublish
<1> QED BY <1>0, <1>2, Moves

\* At its end every answer is a value that its key has had.
LEMMA RangeEndSim ==
  ASSUME LInv, History, NEW t \in Thread, RangeEnd(t)
  PROVE  Map!Effect(t)
<1>0. /\ Actions(t) /\ OInv /\ TypeOK /\ pc[t] = "range_entry" /\ pc'[t] = "done"
      /\ out' = out /\ UNCHANGED <<p, read, dirty>> /\ iter[t] = NoEntries
  BY DEF LInv, OInv, IInv, Actions, RangeEnd, Goto, TypeOK, maps
<1>1. Phase(t) = "called" /\ call[t].op = "range"
  BY <1>0, PhaseOf DEF LInv, OpsPlaced, Op, OpAt
<1>2. Phase(t)' = "done" /\ Res(t)' = out[t]
  BY <1>0 DEF Phase, Res
<1>3. \A k \in Key : out[t][k] \in seen[t][k]
  BY <1>0 DEF LInv, RangeTracked, Has, NoEntries
<1>4. AbsMap' = AbsMap
  BY <1>0, MapSame
<1>5. AbsRes' = [AbsRes EXCEPT ![t] = out[t]]
  BY <1>0, <1>2, OthersSame, PhasesAre
<1>6. out[t] \in [Key -> Map!Call \cup {Map!NULL}]
  BY <1>0 DEF TypeOK, Call, NULL, Map!Call, Map!NULL
<1>7. Outcome(t)
  BY <1>1, <1>3, <1>4, <1>5, <1>6 DEF Outcome, Map!Range, AbsRes
<1> QED BY <1>0, <1>1, <1>2, <1>7, TakesEffect

\* The beginning and the end of a call: the others see nothing of it.
LEMMA CallEnds ==
  ASSUME LInv, NEW t \in Thread, Invoke(t) \/ Return(t)
  PROVE  /\ AbsMap' = AbsMap
         /\ AbsPhase' = [AbsPhase EXCEPT ![t] = Phase(t)']
         /\ AbsRes' = [AbsRes EXCEPT ![t] = Res(t)']
         /\ AbsPhase[t] = Phase(t) /\ AbsRes[t] = Res(t)
<1>0. TypeOK /\ UNCHANGED <<p, read, dirty>>
  BY DEF LInv, OInv, IInv, Invoke, Return, maps
<1>1. \A u \in Thread \ {t} :
        /\ pc'[u] = pc[u] /\ ent'[u] = ent[u] /\ out'[u] = out[u]
        /\ call'[u] = call[u] /\ KeyOf(u)' = KeyOf(u)
  BY <1>0, StepFrame, OutFrame DEF Frame, KeyOf, Step
<1>2. \A u \in Thread \ {t} : Detached(u)' <=> Detached(u)
  BY <1>0, <1>1 DEF Detached, EntryAt
<1>3. \A u \in Thread \ {t} : Phase(u)' = Phase(u) /\ Res(u)' = Res(u)
  BY <1>0, <1>1, <1>2 DEF Phase, Res, NoResult
<1>4. AbsMap' = AbsMap
  BY <1>0, MapSame
<1> QED BY <1>3, <1>4, PhasesAre

\* A call begins.
LEMMA InvokeSim ==
  ASSUME LInv, History, NEW t \in Thread, Invoke(t)
  PROVE  Map!Invoke(t)
<1>0. /\ TypeOK /\ pc[t] = "idle" /\ pc'[t] \in Op
      /\ ncalls < MaxCalls /\ ncalls' = ncalls + 1
  BY ConstantsAssumption DEF LInv, OInv, IInv, Invoke, Goto, TypeOK
<1>1. Phase(t) = "idle" /\ Res(t) = NoResult
  BY <1>0, PhaseOf
<1>2. pc'[t] \notin {"idle", "done", "los_miss", "lad_entry"}
  BY <1>0 DEF Op
<1>3. Phase(t)' = "called" /\ Res(t)' = NoResult
  BY <1>2 DEF Phase, Res, NoResult
<1>4. AbsPhase[t] = "idle" /\ AbsPhase' = [AbsPhase EXCEPT ![t] = "called"]
  BY <1>1, <1>3, CallEnds
<1>5. AbsMap' = AbsMap /\ AbsRes' = AbsRes
  <2>1. AbsRes' = [AbsRes EXCEPT ![t] = AbsRes[t]]
    BY <1>1, <1>3, CallEnds
  <2> QED BY <2>1, CallEnds DEF AbsRes
<1>6. \E o \in Ops, k \in Key \cup {NoKey} :
        call' = [call EXCEPT ![t] = [op |-> o, key |-> k, id |-> ncalls']]
  BY <1>0 DEF Invoke
<1> QED BY <1>0, <1>4, <1>5, <1>6, Observes DEF Map!Invoke, AbsRes

\* A call returns.
LEMMA ReturnSim ==
  ASSUME LInv, History, NEW t \in Thread, Return(t)
  PROVE  Map!Return(t)
<1>0. /\ TypeOK /\ pc[t] = "done" /\ pc'[t] = "idle" /\ UNCHANGED ncalls
      /\ call' = [call EXCEPT ![t] = NoCall] /\ out'[t] = NoResult
  BY DEF LInv, OInv, IInv, Return, Goto, TypeOK
<1>1. Phase(t) = "done"
  BY <1>0, PhaseOf
<1>2. Phase(t)' = "idle" /\ Res(t)' = NoResult
  BY <1>0 DEF Phase, Res, NoResult
<1>3. AbsPhase[t] = "done" /\ AbsPhase' = [AbsPhase EXCEPT ![t] = "idle"]
  BY <1>1, <1>2, CallEnds
<1>4. AbsMap' = AbsMap /\ AbsRes' = [AbsRes EXCEPT ![t] = NoResult]
  BY <1>2, CallEnds
<1>5. Map!NoCall = NoCall /\ Map!NoResult = NoResult
  BY DEF Map!NoCall, NoCall, Map!NoResult, NoResult, Map!NULL, NULL
<1> QED BY <1>0, <1>3, <1>4, <1>5, Observes DEF Map!Return, AbsRes

\* The initial states are those of the linearizable map.
LEMMA LinInitSim == ASSUME LinInit PROVE Map!Init
<1>0. Init /\ seen = [t \in Thread |-> [k \in Key |-> {}]]
  BY DEF LinInit
<1>1. AbsMap = [k \in Key |-> NULL]
  BY <1>0 DEF Init, AbsMap, EntryAt, ValueOf, Has, NoEntries
<1>2. \A t \in Thread : Phase(t) = "idle" /\ Res(t) = NoResult
  BY <1>0, PhaseOf DEF Init
<1>3. /\ AbsPhase = [t \in Thread |-> "idle"]
      /\ [t \in Thread |-> Res(t)] = [t \in Thread |-> NoResult]
  BY <1>2 DEF AbsPhase
<1>4. ncalls = 0 /\ call = [t \in Thread |-> NoCall]
  BY <1>0 DEF Init
<1>5. Map!NoCall = NoCall /\ Map!NoResult = NoResult /\ Map!NULL = NULL
  BY DEF Map!NoCall, NoCall, Map!NoResult, NoResult, Map!NULL, NULL
<1> QED BY <1>0, <1>1, <1>3, <1>4, <1>5 DEF Map!Init

\* Every step is one of the linearizable map or is not seen.
LEMMA LinStepSim == ASSUME LInv, [LinNext]_linVars PROVE [Map!Next]_Map!vars
<1>1. LinNext => History
  BY DEF LinNext, History
<1>2. ASSUME LinNext, NEW t \in Thread, Actions(t)
      PROVE  Map!Effect(t) \/ UNCHANGED Map!vars
  <2>1. History
    BY <1>1, <1>2
  <2> QED
    BY <1>2, <2>1, LookupReadSim, LookupLockedSim, LoadEntrySim, LoadAndDeleteEntrySim,
       StoreReadSim, StoreTrySim, StoreLockedSim, StoreSwapSim, DirtyLockedSim,
       LoadOrStoreLockedSim, LoadOrStoreRetrySim, LoadOrStoreMissSim, RangeSim,
       RangeEndSim
    DEF Actions
<1>3. ASSUME UNCHANGED vars, History \/ UNCHANGED seen PROVE UNCHANGED Map!vars
  <2>1. UNCHANGED <<linVars, AbsMap>>
    BY <1>3, LInvStutter
  <2>2. \A u \in Thread : Phase(u)' = Phase(u) /\ Res(u)' = Res(u)
    BY <1>3, LInvStutter
  <2>3. UNCHANGED <<AbsPhase, AbsRes>>
    BY <2>2 DEF AbsPhase, AbsRes
  <2> QED BY <2>1, <2>3 DEF linVars, vars, Map!vars, AbsRes
<1>4. CASE LinNext
  <2>1. ASSUME NEW t \in Thread, Invoke(t) PROVE Map!Invoke(t)
    BY <1>1, <1>4, <2>1, InvokeSim
  <2>2. ASSUME NEW t \in Thread, Return(t) PROVE Map!Return(t)
    BY <1>1, <1>4, <2>2, ReturnSim
  <2>3. Next
    BY <1>4 DEF LinNext
  <2>4. CASE \E t \in Thread : Invoke(t) \/ Return(t)
    BY <2>1, <2>2, <2>4 DEF Map!Next
  <2>5. CASE \E t \in Thread : Actions(t)
    BY <1>2, <1>4, <2>5 DEF Map!Next
  <2>6. CASE UNCHANGED vars
    BY <1>1, <1>3, <1>4, <2>6
  <2> QED BY <2>3, <2>4, <2>5, <2>6 DEF Next, Terminated, Step, Actions
<1>5. CASE UNCHANGED linVars
  BY <1>3, <1>5 DEF linVars
<1> QED BY <1>4, <1>5

\* The invariant of the map with its history holds of every reachable state.
THEOREM LinInvariant == LinSpec => []LInv
<1>1. LinInit => LInv
  BY LInvInit
<1>2. LInv /\ [LinNext]_linVars => LInv'
  BY LInvStep
<1> QED BY <1>1, <1>2, PTL DEF LinSpec

\* The map is linearizable, for any number of threads, keys and calls: however
\* the lock-free and the locked paths of load, store, load_or_store and
\* load_and_delete interleave with promotions and with the rebuilding of dirty,
\* each call takes effect at one instant between its invocation and its return,
\* and keys, values and key_values read every key at one such instant of its own.
THEOREM MapIsLinearizable == LinSpec => Linearizable
<1>1. LinInit => Map!Init
  BY LinInitSim
<1>2. LInv /\ [LinNext]_linVars => [Map!Next]_Map!vars
  BY LinStepSim
<1> QED BY <1>1, <1>2, LinInvariant, PTL DEF LinSpec, Linearizable, Map!Spec
=============================================================================
