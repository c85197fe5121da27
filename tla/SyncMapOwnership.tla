-------------------------- MODULE SyncMapOwnership --------------------------
(***************************************************************************)
(* More of what SyncMap keeps for every set of threads and keys and any    *)
(* number of calls: every box has one owner, no value becomes unreachable, *)
(* and a promotion comes in time.                                          *)
(***************************************************************************)
EXTENDS SyncMapProofs, FiniteSetTheorems

(***************************************************************************)
(* The inductive invariant, by parts.                                      *)
(***************************************************************************)

\* Entry e has been inserted, now or earlier.
Entered(e) ==
  /\ e <= ncalls
  /\ \A u \in Thread : pc[u] \in MayInsert => BoxOf(u) # e

\* The entry of a key: the one in read, else the one in dirty.
Current(k) == IF Has(read.m, k) THEN read.m[k] ELSE dirty[k]

\* t is about to use entry e for key k.
UsedBy(t, e, k) ==
  \/ pc[t] \in UsesEntry /\ ent[t] = e /\ KeyOf(t) = k
  \/ pc[t] = "range_entry" /\ iter[t][k] = e

\* An entry that a thread is about to use has been inserted, and is under
\* no key but the one it is used for.
UsesOneKey ==
  /\ \A t \in Thread : pc[t] \in UsesEntry => ent[t] \in Call
  /\ \A t \in Thread, e \in Call, k \in Key : UsedBy(t, e, k) =>
       Entered(e) /\ \A k2 \in Key : Under(e, k2) => k2 = k

\* An entry that is about to be stored to is in read, unless it has been
\* expunged, which the store will find.
Routed ==
  \A t \in Thread :
    /\ pc[t] \in {"store_try", "los_try"} =>
         read.m[KeyOf(t)] = ent[t] \/ p[ent[t]] = EXPUNGED
    /\ pc[t] \in {"store_swap", "los_retry"} => read.m[KeyOf(t)] = ent[t]
    /\ pc[t] = "los_miss" => read.amended

\* Every box has one owner.
BoxesOwned ==
  /\ \A e, f \in Call : Live(p[e]) /\ p[e] = p[f] => e = f
  /\ \A e \in Call : Live(p[e]) =>
       p[e] \in heap /\ \A t \in Thread : OwnsBox(t) => BoxOf(t) # p[e]
  /\ \A t \in Thread : OwnsBox(t) => BoxOf(t) \in heap
  /\ \A b \in heap :
       b <= ncalls /\ (\/ \E e \in Call : p[e] = b
                       \/ \E t \in Thread : OwnsBox(t) /\ BoxOf(t) = b)

\* An entry not yet inserted is null.
NullBefore == \A e \in Call : Entered(e) \/ p[e] = NULL

OInv ==
  /\ IInv
  /\ UsesOneKey
  /\ Routed
  /\ BoxesOwned
  /\ NullBefore
  /\ NoValueLost

-----------------------------------------------------------------------------
(***************************************************************************)
(* The kinds of steps.                                                     *)
(***************************************************************************)

\* t keeps its box, if it has one, or frees it.
OwnBox(t) ==
  \/ heap' = heap /\ (OwnsBox(t)' <=> OwnsBox(t))
  \/ heap' = heap \ {BoxOf(t)} /\ OwnsBox(t) /\ ~OwnsBox(t)'

\* No entry changes, in no map.
Quiet(t) ==
  /\ UNCHANGED <<p, read, dirty, misses>>
  /\ pc[t] = "lad_entry" => ~Live(p[ent[t]])
  /\ OwnBox(t)

\* dirty is published as read, or load_and_delete removes its key from it.
Publishes(t) ==
  /\ UNCHANGED p
  /\ read.amended
  /\ pc[t] # "lad_entry"
  /\ \A u \in Thread \ {t} : pc[u] \notin InCriticalSection
  /\ OwnBox(t)
  /\ \E d \in EntryMap :
       /\ \A k \in Key :
            \/ d[k] = dirty[k]
            \/ /\ d[k] = NoEntry /\ ~Has(read.m, k)
               /\ k = KeyOf(t) /\ pc'[t] = "lad_entry" /\ ent'[t] = dirty[k]
       /\ MissLocked(d) \/ Promote(d)

\* The box of t goes into the entry of its key.
Stores(t) ==
  /\ UNCHANGED <<read, dirty, misses>>
  /\ pc[t] \notin Keyless \cup {"lad_entry", "los_miss"}
  /\ OwnsBox(t) /\ ~OwnsBox(t)'
  /\ Current(KeyOf(t)) \in Call
  /\ p[Current(KeyOf(t))] # EXPUNGED
  /\ EntrySwap(Current(KeyOf(t)), BoxOf(t))

\* The value of an entry is taken out.
Deletes(t) ==
  /\ UNCHANGED <<read, dirty, misses>>
  /\ pc[t] = "lad_entry" /\ pc'[t] = "done"
  /\ Live(p[ent[t]]) /\ EntrySwap(ent[t], NULL)

\* An expunged entry of read is null again, and in dirty.
Unmarks(t) ==
  /\ pc[t] \in {"store_lock", "los_lock"} /\ pc'[t] \in {"store_swap", "los_retry"}
  /\ UNCHANGED <<read, misses, heap>>
  /\ read.amended
  /\ Has(read.m, KeyOf(t)) /\ p[read.m[KeyOf(t)]] = EXPUNGED
  /\ p' = [p EXCEPT ![read.m[KeyOf(t)]] = NULL]
  /\ dirty' = [dirty EXCEPT ![KeyOf(t)] = read.m[KeyOf(t)]]

\* dirtyLocked marks an entry of read that has no value.
Marks(t) ==
  /\ pc[t] = "dirty_locked" /\ pc' = pc
  /\ UNCHANGED <<read, dirty, misses, heap>>
  /\ \E k \in Key :
       /\ Has(read.m, k) /\ ~Live(p[read.m[k]])
       /\ p' = [p EXCEPT ![read.m[k]] = EXPUNGED]

\* t inserts its entry, with its box.
Inserts(t) ==
  /\ pc[t] \in {"store_lock", "los_lock", "dirty_locked"} /\ pc'[t] = "done"
  /\ UNCHANGED <<misses, heap>>
  /\ ~Has(read.m, KeyOf(t)) /\ ~Has(dirty, KeyOf(t))
  /\ read' = [m |-> read.m, amended |-> TRUE]
  /\ dirty'[KeyOf(t)] = BoxOf(t)
  /\ p' = [p EXCEPT ![BoxOf(t)] = BoxOf(t)]
  /\ \A k \in Key \ {KeyOf(t)} :
       IF Has(read.m, k) THEN dirty'[k] \in {NoEntry, read.m[k]}
                         ELSE dirty'[k] = dirty[k]

Kinds(t) ==
  \/ Quiet(t) \/ Publishes(t) \/ Stores(t) \/ Deletes(t)
  \/ Unmarks(t) \/ Marks(t) \/ Inserts(t)

\* A step of t leaves the results of the other threads alone.
LEMMA OutFrame ==
  ASSUME TypeOK, NEW t \in Thread, Invoke(t) \/ Step(t)
  PROVE  \A u \in Thread \ {t} : out'[u] = out[u]
<1> USE DEF TypeOK, Goto, Use, Answer, Finish
<1>1. CASE Invoke(t) \/ Return(t)
  BY <1>1 DEF Invoke, Return
<1>2. CASE LoadRead(t) \/ LoadAndDeleteRead(t) \/ StoreRead(t) \/ LoadOrStoreRead(t)
  BY <1>2 DEF LoadRead, LoadAndDeleteRead, StoreRead, LoadOrStoreRead, LookupRead
<1>3. CASE LoadLocked(t) \/ LoadAndDeleteLocked(t)
  BY <1>3 DEF LoadLocked, LoadAndDeleteLocked, LookupLocked
<1>4. CASE LoadEntry(t) \/ LoadAndDeleteEntry(t) \/ StoreTry(t) \/ StoreSwap(t)
  BY <1>4 DEF LoadEntry, LoadAndDeleteEntry, StoreTry, StoreSwap
<1>5. CASE StoreLocked(t) \/ LoadOrStoreLocked(t)
  BY <1>5 DEF StoreLocked, LoadOrStoreLocked, UnexpungeLocked, NewKeyLocked, InsertNew
<1>6. CASE DirtyLockedExpunge(t) \/ DirtyLockedAmend(t)
  BY <1>6 DEF DirtyLockedExpunge, DirtyLockedAmend, InsertNew
<1>7. CASE LoadOrStoreTry(t) \/ LoadOrStoreRetry(t) \/ LoadOrStoreMiss(t)
  BY <1>7 DEF LoadOrStoreTry, LoadOrStoreRetry, LoadOrStoreMiss
<1>8. CASE RangeRead(t) \/ RangeLocked(t) \/ RangeEntry(t) \/ RangeEnd(t)
  BY <1>8 DEF RangeRead, RangeLocked, RangeEntry, RangeEnd, IterateOver
<1> QED BY <1>1, <1>2, <1>3, <1>4, <1>5, <1>6, <1>7, <1>8 DEF Step

\* The other threads own what they owned.
LEMMA OwnsFrame ==
  ASSUME TypeOK, NEW t \in Thread, Invoke(t) \/ Step(t)
  PROVE  \A u \in Thread \ {t} : (OwnsBox(u)' <=> OwnsBox(u)) /\ BoxOf(u)' = BoxOf(u)
                                 /\ KeyOf(u)' = KeyOf(u)
BY StepFrame, OutFrame DEF Frame, OwnsBox, BoxOf, KeyOf, NoResult

\* Where a step leads: an entry it goes on to use is that of its key.
LEMMA PlaceStep ==
  ASSUME OInv, NEW t \in Thread, Actions(t)
  PROVE  /\ pc'[t] \in UsesEntry => Current(KeyOf(t)) \in Call /\ ent'[t] = Current(KeyOf(t))
         /\ pc'[t] \in {"store_try", "los_try", "store_swap", "los_retry"} =>
              Has(read.m, KeyOf(t)) /\ UNCHANGED read
         /\ pc'[t] = "los_miss" => read.amended /\ UNCHANGED read
<1> USE EntryTypes DEF IInv, OInv
<1>0. KeyOf(t) \in Key \/ pc[t] \in Keyless
  BY DEF CallsDistinct
<1>1. CASE LoadRead(t) \/ LoadAndDeleteRead(t) \/ StoreRead(t) \/ LoadOrStoreRead(t)
  BY <1>0, <1>1 DEF TypeOK, Goto, Use, Answer, Finish, UsesEntry, LoadRead,
     LoadAndDeleteRead, StoreRead, LoadOrStoreRead, LookupRead, Current, Has, Keyless, maps
<1>2. CASE LoadLocked(t) \/ LoadAndDeleteLocked(t)
  BY <1>0, <1>2 DEF TypeOK, Goto, Use, Answer, Finish, UsesEntry, LoadLocked,
     LoadAndDeleteLocked, LookupLocked, Current, Has, Keyless
<1>3. CASE LoadEntry(t) \/ LoadAndDeleteEntry(t) \/ StoreTry(t) \/ StoreSwap(t)
  BY <1>3 DEF TypeOK, Goto, Answer, Finish, UsesEntry, LoadEntry, LoadAndDeleteEntry,
     StoreTry, StoreSwap
<1>4. ASSUME NEW next \in {"store_swap", "los_retry"}, UnexpungeLocked(t, next),
             pc[t] \notin Keyless
      PROVE  /\ pc'[t] \in {"store_swap", "los_retry"}
             /\ Current(KeyOf(t)) \in Call /\ ent'[t] = Current(KeyOf(t))
             /\ Has(read.m, KeyOf(t)) /\ UNCHANGED read
  BY <1>0, <1>4 DEF TypeOK, Goto, Use, UnexpungeLocked, Current, Has, NoEntry, Keyless
<1>5. ASSUME NewKeyLocked(t) PROVE pc'[t] \in {"done", "dirty_locked"}
  BY <1>5 DEF TypeOK, Goto, Answer, Finish, NewKeyLocked, InsertNew
<1>6. CASE StoreLocked(t)
  <2>1. CASE pc'[t] = "done"
    BY <2>1 DEF UsesEntry
  <2>2. CASE UnexpungeLocked(t, "store_swap") \/ NewKeyLocked(t)
    BY <1>4, <1>5, <1>6, <2>2 DEF UsesEntry, StoreLocked, Keyless
  <2> QED BY <1>6, <2>1, <2>2 DEF StoreLocked, TypeOK, Goto, Answer, Finish
<1>7. CASE LoadOrStoreLocked(t)
  <2>1. CASE /\ pc'[t] = "los_miss" /\ Has(dirty, KeyOf(t)) /\ UNCHANGED maps
    <3>1. KeyOf(t) \in Key
      BY <1>0, <1>7 DEF LoadOrStoreLocked, Keyless
    <3> QED BY <2>1, <3>1 DEF UsesEntry, DirtyMirrorsRead, Has, NoEntries, maps
  <2>2. CASE UnexpungeLocked(t, "los_retry") \/ NewKeyLocked(t)
    BY <1>4, <1>5, <1>7, <2>2 DEF UsesEntry, LoadOrStoreLocked, Keyless
  <2> QED BY <1>7, <2>1, <2>2 DEF LoadOrStoreLocked, TypeOK, Goto, Answer
<1>8. CASE DirtyLockedExpunge(t) \/ DirtyLockedAmend(t)
  BY <1>8 DEF TypeOK, Goto, Answer, Finish, UsesEntry, DirtyLockedExpunge,
     DirtyLockedAmend, InsertNew
<1>9. CASE LoadOrStoreTry(t) \/ LoadOrStoreRetry(t) \/ LoadOrStoreMiss(t)
  BY <1>9 DEF TypeOK, Goto, Answer, Finish, UsesEntry, LoadOrStoreTry, LoadOrStoreRetry,
     LoadOrStoreMiss
<1>10. CASE RangeRead(t) \/ RangeLocked(t) \/ RangeEntry(t) \/ RangeEnd(t)
  BY <1>10 DEF TypeOK, Goto, UsesEntry, RangeRead, RangeLocked, RangeEntry, RangeEnd,
     IterateOver
<1> QED BY <1>1, <1>2, <1>3, <1>6, <1>7, <1>8, <1>9, <1>10 DEF Actions

\* A promotion or missLocked publishes d or leaves it in dirty.
LEMMA MissPublishes ==
  ASSUME NEW d, MissLocked(d) \/ Promote(d)
  PROVE  \/ read' = [m |-> d, amended |-> FALSE] /\ dirty' = NoEntries
         \/ UNCHANGED read /\ dirty' = d
BY DEF MissLocked, Promote

\* try_load_or_store puts the box of t into the entry of its key, or leaves
\* the entry alone.
LEMMA TryKinds ==
  ASSUME OInv, NEW t \in Thread, UNCHANGED <<read, dirty, misses>>,
         pc[t] \notin Keyless \cup {"lad_entry", "los_miss"},
         NEW e \in Call, TryLoadOrStore(e, BoxOf(t)), OwnsBox(t),
         p[e] # EXPUNGED => e = Current(KeyOf(t)),
         p[e] = EXPUNGED => heap' = heap /\ OwnsBox(t)',
         p[e] = NULL => heap' = heap /\ ~OwnsBox(t)',
         Live(p[e]) => OwnBox(t)
  PROVE  Kinds(t)
<1>1. p[e] = NULL \/ p[e] = EXPUNGED \/ Live(p[e])
  BY DEF OInv, IInv, TypeOK, Live
<1>2. NULL \notin heap /\ NULL \notin Call /\ NULL # EXPUNGED
  BY DEF OInv, IInv, TypeOK, Call, NULL, EXPUNGED
<1>3. CASE p[e] = NULL
  <2>1. EntrySwap(e, BoxOf(t))
    BY <1>2, <1>3 DEF TryLoadOrStore, EntrySwap
  <2> QED BY <1>2, <1>3, <2>1 DEF Kinds, Stores
<1>4. CASE p[e] # NULL
  <2>1. UNCHANGED p
    BY <1>4 DEF TryLoadOrStore
  <2> QED BY <1>1, <1>4, <2>1 DEF Kinds, Quiet, OwnBox
<1> QED BY <1>3, <1>4

\* Every step inside a call is of one of the kinds.
LEMMA KindStep ==
  ASSUME OInv, NEW t \in Thread, Actions(t)
  PROVE  Kinds(t)
<1> USE DEF OInv, IInv
<1>0. /\ TypeOK /\ BoxOf(t) \in Call /\ UNCHANGED call
      /\ pc[t] \notin Keyless => KeyOf(t) \in Key
      /\ KeyOf(t)' = KeyOf(t) /\ BoxOf(t)' = BoxOf(t)
  BY CallStep, CallFacts, TypeParts DEF KeyOf, BoxOf
<1>a. \A label \in PC : Goto(t, label) => pc'[t] = label
  BY DEF TypeOK, Goto
<1>b. \A v, label : Answer(t, v, label) =>
        pc'[t] = label /\ (KeyOf(t) \in Key => out'[t][KeyOf(t)] = v)
        /\ out'[t] = [NoResult EXCEPT ![KeyOf(t)] = v]
  BY DEF TypeOK, Goto, Answer, NoResult
<1>c. \A e, label : Use(t, e, label) => pc'[t] = label /\ ent'[t] = e
  BY DEF TypeOK, Goto, Use
<1>d. \A v : Finish(t, v) => pc'[t] = "done"
  BY <1>b DEF Finish
<1>e. ASSUME UNCHANGED <<p, read, dirty, misses, heap>>, ~OwnsBox(t), ~OwnsBox(t)',
             pc[t] # "lad_entry"
      PROVE  Kinds(t)
  BY <1>e DEF Kinds, Quiet, OwnBox
<1>1. CASE LoadRead(t) \/ LoadAndDeleteRead(t)
  <2>1. UNCHANGED <<p, read, dirty, misses, heap>> /\ ~OwnsBox(t) /\ pc[t] # "lad_entry"
    BY <1>1 DEF LoadRead, LoadAndDeleteRead, LookupRead, maps, OwnsBox
  <2>2. pc'[t] \in {"load_entry", "lad_entry", "load_lock", "lad_lock", "done"}
    BY <1>1, <1>a, <1>c, <1>d DEF LoadRead, LoadAndDeleteRead, LookupRead, PC
  <2>3. ~OwnsBox(t)'
    BY <2>2 DEF OwnsBox
  <2> QED BY <1>e, <2>1, <2>3
<1>2. CASE StoreRead(t) \/ LoadOrStoreRead(t)
  <2>1. UNCHANGED <<p, read, dirty, misses, heap>> /\ OwnsBox(t) /\ pc[t] # "lad_entry"
    BY <1>2 DEF StoreRead, LoadOrStoreRead, maps, OwnsBox
  <2>2. pc'[t] \in {"store_try", "store_lock", "los_try", "los_lock"}
    BY <1>2, <1>a, <1>c DEF StoreRead, LoadOrStoreRead, PC
  <2>3. OwnsBox(t)'
    BY <2>2 DEF OwnsBox
  <2> QED BY <2>1, <2>3 DEF Kinds, Quiet, OwnBox
<1>3. ASSUME NEW hit \in {"load_entry", "lad_entry"}, NEW d \in EntryMap,
             LookupLocked(t, hit, d), pc[t] \in {"load_lock", "lad_lock"},
             read.amended /\ ~Has(read.m, KeyOf(t)) => \A k \in Key :
               \/ d[k] = dirty[k]
               \/ /\ d[k] = NoEntry /\ ~Has(read.m, k) /\ hit = "lad_entry"
                  /\ k = KeyOf(t)
      PROVE  Kinds(t)
  <2>1. UNCHANGED <<p, heap>>
    BY <1>3 DEF LookupLocked
  <2>2. pc'[t] \in {"load_entry", "lad_entry", "done"}
    BY <1>3, <1>c, <1>d DEF LookupLocked
  <2>3. ~OwnsBox(t) /\ ~OwnsBox(t)' /\ OwnBox(t) /\ pc[t] # "lad_entry"
    BY <1>3, <2>1, <2>2 DEF OwnsBox, OwnBox
  <2>4. CASE UNCHANGED maps
    BY <1>e, <2>1, <2>3, <2>4 DEF maps
  <2>5. CASE /\ ~Has(read.m, KeyOf(t)) /\ read.amended /\ MissLocked(d)
             /\ IF Has(dirty, KeyOf(t)) THEN Use(t, dirty[KeyOf(t)], hit)
                                        ELSE Finish(t, NULL)
    <3>1. \A k \in Key :
            \/ d[k] = dirty[k]
            \/ /\ d[k] = NoEntry /\ ~Has(read.m, k)
               /\ k = KeyOf(t) /\ pc'[t] = "lad_entry" /\ ent'[t] = dirty[k]
      <4> SUFFICES ASSUME NEW k \in Key, d[k] # dirty[k]
                   PROVE  /\ d[k] = NoEntry /\ ~Has(read.m, k)
                          /\ k = KeyOf(t) /\ pc'[t] = "lad_entry" /\ ent'[t] = dirty[k]
        OBVIOUS
      <4>1. d[k] = NoEntry /\ ~Has(read.m, k) /\ hit = "lad_entry" /\ k = KeyOf(t)
        BY <1>3, <2>5
      <4>2. Use(t, dirty[k], hit)
        BY <2>5, <4>1 DEF Has
      <4> QED BY <1>c, <4>1, <4>2
    <3>2. \A u \in Thread : pc[u] \notin InCriticalSection
      BY <1>3, ConstantsAssumption DEF LookupLocked, OneHolder
    <3>3. Publishes(t)
      BY <2>1, <2>3, <2>5, <3>1, <3>2 DEF Publishes
    <3> QED BY <3>3 DEF Kinds
  <2> QED BY <1>3, <2>4, <2>5 DEF LookupLocked
<1>4. CASE LoadLocked(t)
  BY <1>0, <1>3, <1>4 DEF LoadLocked, TypeOK
<1>5. CASE LoadAndDeleteLocked(t)
  <2> DEFINE d == [dirty EXCEPT ![KeyOf(t)] = NoEntry]
  <2>1. d \in EntryMap
    BY <1>0 DEF TypeOK, EntryMap
  <2>2. ~Has(read.m, KeyOf(t)) => \A k \in Key :
               \/ d[k] = dirty[k]
               \/ d[k] = NoEntry /\ ~Has(read.m, k) /\ k = KeyOf(t)
    BY <1>0 DEF TypeOK, EntryMap
  <2>3. LookupLocked(t, "lad_entry", d) /\ pc[t] = "lad_lock"
    BY <1>5 DEF LoadAndDeleteLocked
  <2> HIDE DEF d
  <2> QED BY <1>3, <2>1, <2>2, <2>3
<1>6. CASE LoadEntry(t)
  <2>1. UNCHANGED <<p, read, dirty, misses, heap>> /\ ~OwnsBox(t) /\ pc[t] # "lad_entry"
    BY <1>6 DEF LoadEntry, maps, OwnsBox
  <2>2. pc'[t] = "done"
    BY <1>6, <1>d DEF LoadEntry
  <2> QED BY <1>e, <2>1, <2>2 DEF OwnsBox
<1>7. CASE LoadAndDeleteEntry(t)
  <2>1. UNCHANGED <<read, dirty, misses>> /\ pc[t] = "lad_entry" /\ pc'[t] = "done"
    BY <1>7, <1>d DEF LoadAndDeleteEntry, maps
  <2>2. CASE Live(p[ent[t]])
    BY <1>7, <2>1, <2>2 DEF LoadAndDeleteEntry, Kinds, Deletes
  <2>3. CASE ~Live(p[ent[t]])
    BY <1>7, <2>1, <2>3 DEF LoadAndDeleteEntry, Kinds, Quiet, OwnBox, OwnsBox
  <2> QED BY <2>2, <2>3
<1>8. CASE StoreTry(t)
  <2>1. UNCHANGED <<read, dirty, misses>> /\ pc[t] = "store_try" /\ OwnsBox(t)
        /\ ent[t] \in Call /\ KeyOf(t) \in Key
    BY <1>0, <1>8 DEF StoreTry, maps, OwnsBox, UsesOneKey, UsesEntry, Keyless
  <2>2. CASE p[ent[t]] = EXPUNGED
    <3>1. UNCHANGED <<p, heap>> /\ pc'[t] = "store_lock"
      BY <1>8, <2>2, <1>a DEF StoreTry, PC
    <3> QED BY <2>1, <3>1 DEF Kinds, Quiet, OwnBox, OwnsBox
  <2>3. CASE p[ent[t]] # EXPUNGED
    <3>1. EntrySwap(ent[t], BoxOf(t)) /\ pc'[t] = "done"
      BY <1>8, <2>3, <1>d DEF StoreTry
    <3>2. ent[t] = Current(KeyOf(t))
      BY <2>1, <2>3, EntryTypes DEF Routed, Current, Has
    <3> QED BY <2>1, <2>3, <3>1, <3>2 DEF Kinds, Stores, OwnsBox, Keyless
  <2> QED BY <2>2, <2>3
<1>9. CASE StoreSwap(t)
  <2>1. UNCHANGED <<read, dirty, misses>> /\ pc[t] = "store_swap" /\ OwnsBox(t)
        /\ ent[t] \in Call /\ KeyOf(t) \in Key /\ p[ent[t]] # EXPUNGED
    BY <1>0, <1>9 DEF StoreSwap, maps, OwnsBox, UsesOneKey, UsesEntry, Keyless, NotExpunged
  <2>2. EntrySwap(ent[t], BoxOf(t)) /\ pc'[t] = "done"
    BY <1>9, <1>d DEF StoreSwap
  <2>3. ent[t] = Current(KeyOf(t))
    BY <2>1, EntryTypes DEF Routed, Current, Has
  <2> QED BY <2>1, <2>2, <2>3 DEF Kinds, Stores, OwnsBox, Keyless
<1>10. ASSUME NEW next \in {"store_swap", "los_retry"}, UnexpungeLocked(t, next),
              pc[t] \in {"store_lock", "los_lock"}
       PROVE  Kinds(t)
  <2>1. pc'[t] = next /\ UNCHANGED <<read, misses, heap>> /\ OwnsBox(t) /\ OwnsBox(t)'
        /\ KeyOf(t) \in Key /\ Has(read.m, KeyOf(t)) /\ holder = NoThread
    BY <1>0, <1>10, <1>c DEF UnexpungeLocked, OwnsBox, Keyless
  <2>2. CASE p[read.m[KeyOf(t)]] = EXPUNGED
    <3>1. \A u \in Thread : pc[u] # "dirty_locked"
      BY <2>1, ConstantsAssumption DEF OneHolder, InCriticalSection
    <3>2. read.amended
      BY <2>1, <2>2, <3>1 DEF DirtyMirrorsRead
    <3> QED BY <1>10, <2>1, <2>2, <3>2 DEF UnexpungeLocked, Kinds, Unmarks
  <2>3. CASE p[read.m[KeyOf(t)]] # EXPUNGED
    BY <1>10, <2>1, <2>3 DEF UnexpungeLocked, Kinds, Quiet, OwnBox
  <2> QED BY <2>2, <2>3
<1>11. ASSUME NewKeyLocked(t), pc[t] \in {"store_lock", "los_lock"}
       PROVE  Kinds(t)
  <2>1. CASE read.amended /\ InsertNew(t, dirty) /\ UNCHANGED read
    <3>1. /\ ~Has(read.m, KeyOf(t)) /\ ~Has(dirty, KeyOf(t)) /\ pc'[t] = "done"
          /\ UNCHANGED <<misses, heap>> /\ KeyOf(t) \in Key
          /\ dirty' = [dirty EXCEPT ![KeyOf(t)] = BoxOf(t)]
          /\ p' = [p EXCEPT ![BoxOf(t)] = BoxOf(t)]
      BY <1>0, <1>11, <2>1, <1>d DEF NewKeyLocked, InsertNew, Keyless
    <3>2. read' = [m |-> read.m, amended |-> TRUE]
      BY <2>1 DEF TypeOK
    <3>3. dirty'[KeyOf(t)] = BoxOf(t) /\ \A k \in Key \ {KeyOf(t)} : dirty'[k] = dirty[k]
      BY <3>1 DEF TypeOK, EntryMap
    <3>4. \A k \in Key : Has(read.m, k) => dirty[k] \in {NoEntry, read.m[k]}
      BY <2>1 DEF DirtyMirrorsRead
    <3>5. Inserts(t)
      BY <1>11, <3>1, <3>2, <3>3, <3>4 DEF Inserts
    <3> QED BY <3>5 DEF Kinds
  <2>2. CASE ~read.amended /\ Goto(t, "dirty_locked")
    BY <1>11, <1>a, <2>2 DEF NewKeyLocked, Kinds, Quiet, OwnBox, OwnsBox, maps, PC
  <2> QED BY <1>11, <2>1, <2>2 DEF NewKeyLocked
<1>12. CASE StoreLocked(t)
  <2>1. CASE /\ ~Has(read.m, KeyOf(t)) /\ Has(dirty, KeyOf(t))
             /\ EntrySwap(dirty[KeyOf(t)], BoxOf(t))
             /\ Finish(t, NULL)
             /\ UNCHANGED <<maps, holder, fresh, ncalls, call, iter>>
    <3>1. pc[t] = "store_lock" /\ pc'[t] = "done" /\ UNCHANGED <<read, dirty, misses>>
          /\ KeyOf(t) \in Key
      BY <1>0, <1>12, <2>1, <1>d DEF StoreLocked, maps, Keyless
    <3>2. /\ Current(KeyOf(t)) = dirty[KeyOf(t)] /\ dirty[KeyOf(t)] \in Call
          /\ p[dirty[KeyOf(t)]] # EXPUNGED
      BY <2>1, <3>1, EntryTypes DEF Current, NotExpunged, Has
    <3> QED BY <2>1, <3>1, <3>2 DEF Kinds, Stores, OwnsBox, Keyless
  <2> QED BY <1>10, <1>11, <1>12, <2>1 DEF StoreLocked
<1>13. CASE LoadOrStoreLocked(t)
  <2>1. CASE /\ ~Has(read.m, KeyOf(t)) /\ Has(dirty, KeyOf(t))
             /\ TryLoadOrStore(dirty[KeyOf(t)], BoxOf(t))
             /\ Answer(t, EntryLoad(dirty[KeyOf(t)]), "los_miss")
             /\ UNCHANGED <<maps, fresh, heap, ncalls, call, iter>>
    <3> DEFINE e == dirty[KeyOf(t)]
    <3>1. pc[t] = "los_lock" /\ pc'[t] = "los_miss" /\ UNCHANGED <<read, dirty, misses, heap>>
          /\ KeyOf(t) \in Key /\ out'[t] = [NoResult EXCEPT ![KeyOf(t)] = EntryLoad(e)]
      BY <1>0, <1>13, <2>1, <1>b DEF LoadOrStoreLocked, maps, Keyless
    <3>2. /\ Current(KeyOf(t)) = e /\ e \in Call /\ p[e] # EXPUNGED
      BY <2>1, <3>1, EntryTypes DEF Current, NotExpunged, Has
    <3>3. OwnsBox(t)' <=> out'[t] # NoResult
      BY <3>1 DEF OwnsBox, NoResult
    <3>4. NoResult[KeyOf(t)] = NULL /\ out'[t][KeyOf(t)] = EntryLoad(e)
      BY <3>1 DEF NoResult
    <3>5. p[e] = NULL => ~OwnsBox(t)'
      <4>1. p[e] = NULL => EntryLoad(e) = NULL
        BY DEF EntryLoad
      <4>2. EntryLoad(e) = NULL => out'[t] = NoResult
        BY <3>1 DEF NoResult
      <4> QED BY <3>3, <4>1, <4>2
    <3>6. Live(p[e]) => OwnsBox(t)'
      <4>1. Live(p[e]) => EntryLoad(e) # NULL
        BY DEF EntryLoad, Live, Call, NULL
      <4> QED BY <3>3, <3>4, <4>1
    <3>7. OwnsBox(t) /\ (Live(p[e]) => OwnBox(t))
      BY <3>1, <3>6 DEF OwnsBox, OwnBox
    <3>8. TryLoadOrStore(e, BoxOf(t)) /\ pc[t] \notin Keyless \cup {"lad_entry", "los_miss"}
      BY <2>1, <3>1 DEF Keyless
    <3> HIDE DEF e
    <3> QED BY <3>1, <3>2, <3>5, <3>7, <3>8, TryKinds
  <2> QED BY <1>10, <1>11, <1>13, <2>1 DEF LoadOrStoreLocked
<1>14. CASE LoadOrStoreTry(t) \/ LoadOrStoreRetry(t)
  <2> DEFINE e == ent[t]
  <2>1. /\ UNCHANGED <<read, dirty, misses>> /\ pc[t] \in {"los_try", "los_retry"} /\ OwnsBox(t)
        /\ e \in Call /\ KeyOf(t) \in Key /\ TryLoadOrStore(e, BoxOf(t))
    BY <1>0, <1>14 DEF LoadOrStoreTry, LoadOrStoreRetry, maps, OwnsBox, UsesOneKey,
       UsesEntry, Keyless
  <2>2. p[e] # EXPUNGED => e = Current(KeyOf(t))
    BY <2>1, EntryTypes DEF Routed, Current, Has
  <2>3. p[e] = EXPUNGED => UNCHANGED heap /\ pc'[t] = "los_lock"
    <3>1. LoadOrStoreRetry(t) => p[e] # EXPUNGED
      BY DEF LoadOrStoreRetry, NotExpunged
    <3> QED BY <1>14, <1>a, <3>1 DEF LoadOrStoreTry, PC
  <2>4. p[e] # EXPUNGED =>
          /\ pc'[t] = "done"
          /\ heap' = IF EntryLoad(e) # NULL THEN heap \ {BoxOf(t)} ELSE heap
    BY <1>14, <1>d DEF LoadOrStoreTry, LoadOrStoreRetry
  <2>5. p[e] = EXPUNGED => OwnsBox(t)'
    BY <2>3 DEF OwnsBox
  <2>6. p[e] # EXPUNGED => ~OwnsBox(t)'
    BY <2>4 DEF OwnsBox
  <2>7. p[e] = NULL => heap' = heap
    BY <2>4 DEF EntryLoad, NULL, EXPUNGED
  <2>8. Live(p[e]) => heap' = heap \ {BoxOf(t)} /\ ~OwnsBox(t)'
    BY <2>4, <2>6 DEF EntryLoad, Live, NULL, EXPUNGED, Call
  <2>9. pc[t] \notin Keyless \cup {"lad_entry", "los_miss"} /\ NULL # EXPUNGED
    BY <2>1 DEF Keyless, NULL, EXPUNGED
  <2> HIDE DEF e
  <2> QED BY <2>1, <2>2, <2>3, <2>5, <2>6, <2>7, <2>8, <2>9, TryKinds DEF OwnBox
<1>15. CASE LoadOrStoreMiss(t)
  <2>1. /\ UNCHANGED p /\ pc[t] = "los_miss" /\ pc'[t] = "done" /\ MissLocked(dirty)
        /\ heap' = IF out[t] # NoResult THEN heap \ {BoxOf(t)} ELSE heap
        /\ read.amended
    BY <1>15, <1>a DEF LoadOrStoreMiss, Routed, PC
  <2>2. OwnBox(t)
    BY <2>1 DEF OwnBox, OwnsBox
  <2>3. dirty \in EntryMap
    BY DEF TypeOK
  <2>4. \A u \in Thread \ {t} : pc[u] \notin InCriticalSection
    BY <2>1 DEF OneHolder, InCriticalSection
  <2>5. Publishes(t)
    BY <2>1, <2>2, <2>3, <2>4 DEF Publishes
  <2> QED BY <2>5 DEF Kinds
<1>16. CASE DirtyLockedExpunge(t)
  <2>1. PICK k \in Key :
          /\ Has(iter[t], k)
          /\ IF Live(p[iter[t][k]]) THEN UNCHANGED p
             ELSE p' = [p EXCEPT ![iter[t][k]] = EXPUNGED]
    BY <1>16 DEF DirtyLockedExpunge, KeysIn
  <2>2. pc[t] = "dirty_locked" /\ UNCHANGED <<read, dirty, misses, heap, pc, out>>
    BY <1>16 DEF DirtyLockedExpunge, maps
  <2>3. iter[t][k] = read.m[k] /\ Has(read.m, k)
    BY <2>1, <2>2 DEF RebuildOK, Rebuilding
  <2>4. CASE Live(p[iter[t][k]])
    <3>1. UNCHANGED p /\ OwnsBox(t) /\ OwnsBox(t)'
      BY <2>1, <2>2, <2>4 DEF OwnsBox
    <3> QED BY <2>2, <3>1 DEF Kinds, Quiet, OwnBox
  <2>5. CASE ~Live(p[iter[t][k]])
    BY <2>1, <2>2, <2>3, <2>5 DEF Kinds, Marks
  <2> QED BY <2>4, <2>5
<1>17. CASE DirtyLockedAmend(t)
  <2>1. /\ pc[t] = "dirty_locked" /\ pc'[t] = "done" /\ UNCHANGED <<misses, heap>>
        /\ iter[t] = NoEntries /\ KeyOf(t) \in Key
        /\ dirty' = [fresh EXCEPT ![KeyOf(t)] = BoxOf(t)]
        /\ p' = [p EXCEPT ![BoxOf(t)] = BoxOf(t)]
        /\ read' = [read EXCEPT !.amended = TRUE]
    BY <1>0, <1>17, <1>d DEF DirtyLockedAmend, InsertNew, Keyless
  <2>2. Rebuilding(t) /\ dirty = NoEntries
    BY <2>1 DEF RebuildOK, Rebuilding, DirtyMirrorsRead
  <2>3. read' = [m |-> read.m, amended |-> TRUE]
    BY <2>1 DEF TypeOK
  <2>4. dirty'[KeyOf(t)] = BoxOf(t) /\ \A k \in Key \ {KeyOf(t)} : dirty'[k] = fresh[k]
    BY <2>1 DEF TypeOK, EntryMap
  <2>5. \A k \in Key : IF Has(read.m, k) THEN fresh[k] \in {NoEntry, read.m[k]}
                                         ELSE fresh[k] = dirty[k]
    BY <2>1, <2>2 DEF Rebuilding, Has, NoEntries
  <2>6. ~Has(read.m, KeyOf(t)) /\ ~Has(dirty, KeyOf(t))
    BY <2>1, <2>2 DEF Rebuilding, Has, NoEntries
  <2>7. Inserts(t)
    BY <2>1, <2>3, <2>4, <2>5, <2>6 DEF Inserts
  <2> QED BY <2>7 DEF Kinds
<1>18. CASE RangeRead(t) \/ RangeEntry(t) \/ RangeEnd(t)
  <2>1. UNCHANGED <<p, read, dirty, misses, heap>> /\ ~OwnsBox(t) /\ pc[t] # "lad_entry"
    BY <1>18 DEF RangeRead, RangeEntry, RangeEnd, maps, OwnsBox
  <2>2. pc'[t] \in {"range_lock", "range_entry", "done"}
    BY <1>18, <1>a DEF RangeRead, RangeEntry, RangeEnd, IterateOver, PC
  <2> QED BY <1>e, <2>1, <2>2 DEF OwnsBox
<1>19. CASE RangeLocked(t)
  <2>1. UNCHANGED <<p, heap>> /\ ~OwnsBox(t) /\ pc[t] # "lad_entry" /\ pc'[t] = "range_entry"
    BY <1>19, <1>a DEF RangeLocked, IterateOver, OwnsBox, PC
  <2>2. ~OwnsBox(t)' /\ OwnBox(t)
    BY <2>1 DEF OwnsBox, OwnBox
  <2>3. CASE UNCHANGED maps
    BY <1>e, <2>1, <2>2, <2>3 DEF maps
  <2>4. CASE read.amended /\ Promote(dirty)
    <3>1. \A u \in Thread : pc[u] \notin InCriticalSection
      BY <1>19, ConstantsAssumption DEF RangeLocked, OneHolder
    <3> QED BY <2>1, <2>2, <2>4, <3>1 DEF Kinds, Publishes, TypeOK
  <2> QED BY <1>19, <2>3, <2>4 DEF RangeLocked
<1> QED BY <1>1, <1>2, <1>4, <1>5, <1>6, <1>7, <1>8, <1>9, <1>12, <1>13, <1>14, <1>15,
        <1>16, <1>17, <1>18, <1>19 DEF Actions

-----------------------------------------------------------------------------
(***************************************************************************)
(* What the kinds of steps preserve.                                       *)
(***************************************************************************)

\* An entry that has been inserted stays so.
LEMMA EnteredStep ==
  ASSUME TypeOK, CallsDistinct, NEW t \in Thread, Invoke(t) \/ Step(t),
         NEW e \in Call, Entered(e)
  PROVE  Entered(e)'
<1>0. \A u \in Thread \ {t} : pc'[u] = pc[u] /\ BoxOf(u)' = BoxOf(u)
  BY StepFrame DEF Frame, BoxOf
<1>1. CASE Actions(t)
  BY <1>0, <1>1, CallStep DEF Entered, BoxOf
<1>2. CASE Return(t)
  BY <1>0, <1>2 DEF Return, Goto, TypeOK, Entered, MayInsert
<1>3. CASE Invoke(t)
  <2>1. ncalls' = ncalls + 1 /\ BoxOf(t)' = ncalls + 1 /\ ncalls \in Nat /\ e \in Nat
    BY <1>3 DEF Invoke, TypeOK, BoxOf, Call
  <2> QED BY <1>0, <2>1 DEF Entered
<1> QED BY <1>1, <1>2, <1>3 DEF Step, Actions

\* What is in a map has been inserted.
LEMMA UnderEntered ==
  ASSUME IInv, NEW e \in Call, NEW k \in Key, Under(e, k)
  PROVE  Entered(e)
BY DEF IInv, EntriesDistinct, Entered

\* The entry of a key is under it.
LEMMA CurrentUnder ==
  ASSUME IInv, NEW k \in Key, Current(k) # NoEntry
  PROVE  Current(k) \in Call /\ Under(Current(k), k)
BY EntryTypes DEF IInv, Current, Under, Has

\* t inserts an entry that was in no map before.
LEMMA InsertEnters ==
  ASSUME OInv, NEW t \in Thread, Actions(t), Inserts(t)
  PROVE  /\ BoxOf(t) \in Call /\ KeyOf(t) \in Key
         /\ ~Entered(BoxOf(t)) /\ Entered(BoxOf(t))'
<1>1. /\ TypeOK /\ CallsDistinct /\ pc[t] \in MayInsert /\ Calling(t)
      /\ pc[t] \notin Keyless /\ pc'[t] \notin MayInsert
  BY DEF OInv, IInv, Inserts, MayInsert, Calling, Keyless
<1>2. BoxOf(t) \in Call /\ KeyOf(t) \in Key
  BY <1>1, CallFacts, TypeParts
<1>3. BoxOf(t) <= ncalls /\ \A u \in Thread \ {t} : pc[u] \in MayInsert => BoxOf(u) # BoxOf(t)
  BY <1>1 DEF CallsDistinct, TypeOK, Calling, MayInsert
<1>4. UNCHANGED <<call, ncalls>> /\ \A u \in Thread \ {t} : pc'[u] = pc[u]
  BY <1>1, CallStep, StepFrame DEF Frame, Actions, Step
<1> QED BY <1>1, <1>2, <1>3, <1>4 DEF Entered, BoxOf

\* An entry comes under a key only when it is inserted.
LEMMA UnderStep ==
  ASSUME OInv, NEW t \in Thread, Actions(t), NEW e \in Call, NEW k \in Key, Under(e, k)'
  PROVE  Under(e, k) \/ (Inserts(t) /\ e = BoxOf(t) /\ k = KeyOf(t))
<1>0. Kinds(t) /\ TypeOK
  BY KindStep DEF OInv, IInv
<1>1. CASE Quiet(t) \/ Stores(t) \/ Deletes(t) \/ Marks(t)
  BY <1>1 DEF Quiet, Stores, Deletes, Marks, Under
<1>2. CASE Publishes(t)
  BY <1>2, MissPublishes DEF Publishes, Under, NoEntries
<1>3. CASE Unmarks(t)
  BY <1>0, <1>3 DEF Unmarks, Under, TypeOK, EntryMap
<1>4. CASE Inserts(t)
  BY <1>4 DEF Inserts, Under
<1> QED BY <1>0, <1>1, <1>2, <1>3, <1>4 DEF Kinds

\* Where a range gets the entries it visits from.
LEMMA RangeStep ==
  ASSUME OInv, NEW t \in Thread, Actions(t), pc'[t] = "range_entry", NEW k \in Key
  PROVE  \/ iter'[t][k] \in {NoEntry, read.m[k], dirty[k]}
         \/ pc[t] = "range_entry" /\ iter'[t][k] = iter[t][k]
<1> USE DEF OInv, IInv
<1>1. pc[t] \in {"range", "range_lock", "range_entry"}
  <2> USE DEF TypeOK, Goto, Use, Answer, Finish
  <2>1. CASE LoadRead(t) \/ LoadAndDeleteRead(t) \/ StoreRead(t) \/ LoadOrStoreRead(t)
    BY <2>1 DEF LoadRead, LoadAndDeleteRead, StoreRead, LoadOrStoreRead, LookupRead
  <2>2. CASE LoadLocked(t) \/ LoadAndDeleteLocked(t)
    BY <2>2 DEF LoadLocked, LoadAndDeleteLocked, LookupLocked
  <2>3. CASE LoadEntry(t) \/ LoadAndDeleteEntry(t) \/ StoreTry(t) \/ StoreSwap(t)
    BY <2>3 DEF LoadEntry, LoadAndDeleteEntry, StoreTry, StoreSwap
  <2>4. CASE StoreLocked(t) \/ LoadOrStoreLocked(t)
    BY <2>4 DEF StoreLocked, LoadOrStoreLocked, UnexpungeLocked, NewKeyLocked, InsertNew
  <2>5. CASE DirtyLockedExpunge(t) \/ DirtyLockedAmend(t)
    BY <2>5 DEF DirtyLockedExpunge, DirtyLockedAmend, InsertNew
  <2>6. CASE LoadOrStoreTry(t) \/ LoadOrStoreRetry(t) \/ LoadOrStoreMiss(t)
    BY <2>6 DEF LoadOrStoreTry, LoadOrStoreRetry, LoadOrStoreMiss
  <2>7. CASE RangeRead(t) \/ RangeLocked(t) \/ RangeEntry(t) \/ RangeEnd(t)
    BY <2>7 DEF RangeRead, RangeLocked, RangeEntry, RangeEnd
  <2> QED BY <2>1, <2>2, <2>3, <2>4, <2>5, <2>6, <2>7 DEF Actions
<1>2. RangeRead(t) \/ RangeLocked(t) \/ RangeEntry(t)
  BY <1>1 DEF Actions, LoadRead, LoadLocked, LoadEntry, LoadAndDeleteRead,
     LoadAndDeleteLocked, LoadAndDeleteEntry, StoreRead, StoreTry, StoreLocked,
     StoreSwap, DirtyLockedExpunge, DirtyLockedAmend, LoadOrStoreRead, LoadOrStoreTry,
     LoadOrStoreLocked, LoadOrStoreRetry, LoadOrStoreMiss, RangeEnd, Goto, TypeOK
<1>3. CASE RangeRead(t)
  BY <1>3 DEF RangeRead, IterateOver, Goto, TypeOK
<1>4. CASE RangeLocked(t)
  BY <1>4 DEF RangeLocked, IterateOver, Promote, TypeOK, maps
<1>5. CASE RangeEntry(t)
  BY <1>5 DEF RangeEntry, KeysIn, TypeOK, EntryMap
<1> QED BY <1>2, <1>3, <1>4, <1>5

\* A thread uses an entry for the key under which it found it.
LEMMA UsedStep ==
  ASSUME OInv, NEW t \in Thread, Actions(t),
         NEW u \in Thread, NEW e \in Call, NEW k \in Key, UsedBy(u, e, k)'
  PROVE  UsedBy(u, e, k) \/ (u = t /\ Under(e, k))
<1>1. TypeOK /\ Frame(t) /\ UNCHANGED call /\ IInv /\ NoEntry \notin Call
  BY StepFrame, CallStep, EntryTypes DEF OInv, IInv, Actions, Step
<1>2. CASE u # t
  BY <1>1, <1>2 DEF Frame, UsedBy, KeyOf
<1>3. CASE u = t /\ pc'[t] \in UsesEntry
  <2>1. e = Current(KeyOf(t)) /\ KeyOf(t) = k
    BY <1>1, <1>3, PlaceStep DEF UsedBy, KeyOf, UsesEntry
  <2> QED BY <1>1, <1>3, <2>1, CurrentUnder
<1>4. CASE u = t /\ pc'[t] = "range_entry"
  <2>1. iter'[t][k] = e
    BY <1>4 DEF UsedBy, UsesEntry
  <2> QED BY <1>1, <1>4, <2>1, RangeStep DEF UsedBy, Under
<1> QED BY <1>2, <1>3, <1>4 DEF UsedBy

\* Entries are used for one key.
LEMMA UsesOneKeyStep ==
  ASSUME OInv, NEW t \in Thread, Invoke(t) \/ Step(t)
  PROVE  UsesOneKey'
<1>0. TypeOK /\ IInv /\ CallsDistinct /\ Frame(t) /\ EntriesDistinct /\ UsesOneKey
  BY StepFrame DEF OInv, IInv
<1>1. CASE Actions(t)
  <2>1. \A u \in Thread : pc'[u] \in UsesEntry => ent'[u] \in Call
    BY <1>0, <1>1, PlaceStep DEF Frame, UsesOneKey
  <2>2. ASSUME NEW u \in Thread, NEW e \in Call, NEW k \in Key, UsedBy(u, e, k)'
        PROVE  Entered(e)' /\ \A k2 \in Key : Under(e, k2)' => k2 = k
    <3>1. UsedBy(u, e, k) \/ Under(e, k)
      BY <1>1, <2>2, UsedStep
    <3>2. Entered(e) /\ \A k2 \in Key : Under(e, k2) => k2 = k
      BY <1>0, <3>1, UnderEntered DEF UsesOneKey, EntriesDistinct
    <3>3. Entered(e)'
      BY <1>0, <3>2, EnteredStep
    <3>4. \A k2 \in Key : Under(e, k2)' => Under(e, k2)
      BY <1>1, <3>2, UnderStep, InsertEnters
    <3> QED BY <3>2, <3>3, <3>4
  <2> QED BY <2>1, <2>2 DEF UsesOneKey
<1>2. CASE Invoke(t) \/ Return(t)
  <2>1. pc'[t] \notin UsesEntry /\ pc'[t] # "range_entry" /\ UNCHANGED <<read, dirty>>
    BY <1>0, <1>2, ConstantsAssumption
    DEF Invoke, Return, Goto, TypeOK, maps, UsesEntry, Op
  <2>2. \A u \in Thread, e \in Call, k \in Key :
          UsedBy(u, e, k)' => UsedBy(u, e, k)
    BY <1>0, <2>1 DEF UsedBy, Frame, KeyOf
  <2>3. \A u \in Thread : pc'[u] \in UsesEntry => ent'[u] \in Call
    BY <1>0, <2>1 DEF Frame, UsesOneKey
  <2>4. \A e \in Call, k \in Key : Under(e, k)' <=> Under(e, k)
    BY <2>1 DEF Under
  <2>5. \A e \in Call : Entered(e) => Entered(e)'
    BY <1>0, EnteredStep
  <2> QED BY <1>0, <2>2, <2>3, <2>4, <2>5 DEF UsesOneKey
<1> QED BY <1>1, <1>2 DEF Step, Actions

\* What a thread is about to store to stays in read or is expunged.
LEMMA RoutedStep ==
  ASSUME OInv, NEW t \in Thread, Invoke(t) \/ Step(t)
  PROVE  Routed'
<1>0. TypeOK /\ IInv /\ CallsDistinct /\ Frame(t) /\ Routed /\ UsesOneKey
      /\ DirtyMirrorsRead /\ NoEntry \notin Call
  BY StepFrame, EntryTypes DEF OInv, IInv
<1>1. CASE Invoke(t) \/ Return(t)
  <2>1. pc'[t] \in Op \cup {"idle"} /\ UNCHANGED <<read, p>>
    BY <1>0, <1>1, ConstantsAssumption DEF Invoke, Return, Goto, TypeOK, maps
  <2>2. \A u \in Thread \ {t} : KeyOf(u)' = KeyOf(u) /\ pc'[u] = pc[u] /\ ent'[u] = ent[u]
    BY <1>0 DEF Frame, KeyOf
  <2> QED BY <1>0, <2>1, <2>2 DEF Routed, Op
<1>2. CASE Actions(t)
  <2>0. UNCHANGED call /\ Kinds(t) /\ \A u \in Thread : KeyOf(u)' = KeyOf(u)
    BY <1>0, <1>2, CallStep, KindStep DEF KeyOf
  <2> SUFFICES ASSUME NEW u \in Thread
               PROVE  /\ pc'[u] \in {"store_try", "los_try"} =>
                           read'.m[KeyOf(u)] = ent'[u] \/ p'[ent'[u]] = EXPUNGED
                      /\ pc'[u] \in {"store_swap", "los_retry"} =>
                           read'.m[KeyOf(u)] = ent'[u]
                      /\ pc'[u] = "los_miss" => read'.amended
    BY <2>0 DEF Routed
  <2>1. CASE u = t
    BY <1>2, <2>1, PlaceStep DEF UsesEntry, Current
  <2>2. CASE u # t
    <3>1. pc'[u] = pc[u] /\ ent'[u] = ent[u]
      BY <1>0, <2>2 DEF Frame
    <3>2. pc[u] \in UsesEntry =>
            /\ ent[u] \in Call /\ KeyOf(u) \in Key /\ Entered(ent[u])
            /\ \A k \in Key : Under(ent[u], k) => k = KeyOf(u)
      BY <1>0 DEF UsesOneKey, UsedBy, CallsDistinct, UsesEntry, Keyless
    <3>3. CASE Quiet(t) \/ Marks(t)
      BY <1>0, <3>1, <3>2, <3>3 DEF Quiet, Marks, Routed, UsesEntry, TypeOK
    <3>4. CASE Stores(t) \/ Deletes(t)
      <4> DEFINE x == IF pc[t] = "lad_entry" THEN ent[t] ELSE Current(KeyOf(t))
                 y == IF pc[t] = "lad_entry" THEN NULL ELSE BoxOf(t)
      <4>1. p[x] # EXPUNGED /\ p' = [p EXCEPT ![x] = y] /\ UNCHANGED read
        BY <3>4 DEF Stores, Deletes, EntrySwap, Live, Call, EXPUNGED
      <4> HIDE DEF x, y
      <4>2. \A e \in Call : p[e] = EXPUNGED => p'[e] = EXPUNGED
        BY <1>0, <4>1 DEF TypeOK
      <4> QED BY <1>0, <3>1, <3>2, <4>1, <4>2 DEF Routed, UsesEntry
    <3>5. CASE Publishes(t)
      <4>1. pc[u] \notin InCriticalSection
        BY <2>2, <3>5 DEF Publishes
      <4> QED BY <1>0, <3>1, <3>2, <3>5, <4>1, MissPublishes
              DEF Publishes, Routed, UsesEntry, DirtyMirrorsRead, Has, InCriticalSection
    <3>6. CASE Unmarks(t)
      <4>1. KeyOf(t) \in Key
        BY <1>0, <3>6 DEF Unmarks, CallsDistinct, Keyless
      <4> QED BY <1>0, <3>1, <3>2, <3>6, <4>1
              DEF Unmarks, Routed, UsesEntry, Under, TypeOK, Has
    <3>7. CASE Inserts(t)
      <4>1. BoxOf(t) \in Call /\ ~Entered(BoxOf(t))
        BY <1>2, <3>7, InsertEnters
      <4> QED BY <1>0, <3>1, <3>2, <3>7, <4>1 DEF Inserts, Routed, UsesEntry, TypeOK
    <3> QED BY <2>0, <3>3, <3>4, <3>5, <3>6, <3>7 DEF Kinds
  <2> QED BY <2>1, <2>2
<1> QED BY <1>1, <1>2 DEF Step, Actions

\* Entries are null until they are inserted.
LEMMA NullBeforeStep ==
  ASSUME OInv, NEW t \in Thread, Invoke(t) \/ Step(t)
  PROVE  NullBefore'
<1>0. TypeOK /\ IInv /\ CallsDistinct /\ NullBefore /\ UsesOneKey
  BY DEF OInv, IInv
<1>1. \A e \in Call : Entered(e) => Entered(e)'
  BY <1>0, EnteredStep
<1>2. CASE Invoke(t) \/ Return(t)
  BY <1>0, <1>1, <1>2 DEF Invoke, Return, NullBefore
<1>3. CASE Actions(t)
  <2>1. Kinds(t)
    BY <1>3, KindStep
  <2>2. CASE Quiet(t) \/ Publishes(t)
    BY <1>0, <1>1, <2>2 DEF Quiet, Publishes, NullBefore
  <2>3. CASE Stores(t)
    <3>1. KeyOf(t) \in Key
      BY <1>0, <2>3 DEF Stores, CallsDistinct
    <3>2. Entered(Current(KeyOf(t)))
      BY <1>0, <2>3, <3>1, CurrentUnder, UnderEntered, EntryTypes DEF Stores
    <3> QED BY <1>0, <1>1, <2>3, <3>2 DEF Stores, EntrySwap, NullBefore, TypeOK
  <2>4. CASE Deletes(t)
    BY <1>0, <1>1, <2>4 DEF Deletes, EntrySwap, NullBefore, TypeOK
  <2>5. CASE Unmarks(t)
    BY <1>0, <1>1, <2>5 DEF Unmarks, NullBefore, TypeOK
  <2>6. CASE Marks(t)
    <3>1. PICK k \in Key : Has(read.m, k) /\ p' = [p EXCEPT ![read.m[k]] = EXPUNGED]
      BY <2>6 DEF Marks
    <3>2. read.m[k] \in Call /\ Under(read.m[k], k)
      BY <1>0, <3>1, EntryTypes DEF Has, Under
    <3>3. Entered(read.m[k])
      BY <1>0, <3>2, UnderEntered
    <3> QED BY <1>0, <1>1, <3>1, <3>2, <3>3 DEF NullBefore, TypeOK
  <2>7. CASE Inserts(t)
    <3>1. BoxOf(t) \in Call /\ Entered(BoxOf(t))' /\ BoxOf(t)' = BoxOf(t)
      BY <1>0, <1>3, <2>7, InsertEnters, CallStep DEF BoxOf
    <3>2. \A e \in Call \ {BoxOf(t)} : p'[e] = p[e]
      BY <1>0, <2>7 DEF Inserts, TypeOK
    <3>3. \A e \in Call \ {BoxOf(t)} : Entered(e)' \/ p'[e] = NULL
      BY <1>0, <1>1, <3>2 DEF NullBefore
    <3>4. \A e \in Call : Entered(e)' \/ p'[e] = NULL
      BY <3>1, <3>3
    <3> QED BY <3>4 DEF NullBefore
  <2> QED BY <2>1, <2>2, <2>3, <2>4, <2>5, <2>6, <2>7 DEF Kinds
<1> QED BY <1>2, <1>3 DEF Step, Actions

\* Values and boxes at a call or a return.
LEMMA BoxesAtCalls ==
  ASSUME OInv, NEW t \in Thread, Invoke(t) \/ Return(t)
  PROVE  BoxesOwned' /\ NoValueLost'
<1>0. TypeOK /\ IInv /\ CallsDistinct /\ BoxesOwned /\ NoValueLost /\ Frame(t)
      /\ UNCHANGED <<p, read, dirty>>
      /\ \A u \in Thread \ {t} : (OwnsBox(u)' <=> OwnsBox(u)) /\ BoxOf(u)' = BoxOf(u)
  BY StepFrame, OwnsFrame DEF OInv, IInv, Invoke, Return, maps, Step
<1>1. pc[t] \in {"idle", "done"} /\ ~OwnsBox(t)
  BY DEF Invoke, Return, OwnsBox
<1>2. NoValueLost'
  BY <1>0, <1>1 DEF NoValueLost, Frame, Has
<1>3. CASE Return(t)
  <2>1. pc'[t] = "idle" /\ UNCHANGED <<heap, ncalls>>
    BY <1>0, <1>3 DEF Return, Goto, TypeOK
  <2>2. ~OwnsBox(t)'
    BY <2>1 DEF OwnsBox
  <2> QED BY <1>0, <1>1, <1>2, <2>1, <2>2 DEF BoxesOwned
<1>4. CASE Invoke(t)
  <2>1. PICK o \in Ops :
          /\ call'[t].id = ncalls + 1 /\ pc'[t] = o
          /\ heap' = IF o \in {"store", "load_or_store"}
                     THEN heap \cup {ncalls + 1} ELSE heap
    BY <1>0, <1>4 DEF Invoke, Goto, TypeOK
  <2>2. BoxOf(t)' = ncalls + 1 /\ ncalls' = ncalls + 1 /\ ncalls \in Nat /\ heap \subseteq Nat
    BY <1>0, <1>4, <2>1 DEF BoxOf, Invoke, TypeOK, Call
  <2>3. OwnsBox(t)' <=> o \in {"store", "load_or_store"}
    BY <2>1, ConstantsAssumption DEF OwnsBox, Op
  <2>4. ncalls + 1 \notin heap
    BY <1>0, <2>2 DEF BoxesOwned
  <2>5. \A e \in Call : Live(p[e]) => p[e] # ncalls + 1
    BY <1>0, <2>4 DEF BoxesOwned
  <2>6. \A e, f \in Call : Live(p[e])' /\ p'[e] = p'[f] => e = f
    BY <1>0 DEF BoxesOwned
  <2>7. \A e \in Call : Live(p[e])' =>
          p'[e] \in heap' /\ \A u \in Thread : OwnsBox(u)' => BoxOf(u)' # p'[e]
    BY <1>0, <2>1, <2>2, <2>5 DEF BoxesOwned
  <2>8. \A u \in Thread : OwnsBox(u)' => BoxOf(u)' \in heap'
    BY <1>0, <2>1, <2>2, <2>3 DEF BoxesOwned
  <2>9. ASSUME NEW b \in heap'
        PROVE  b <= ncalls' /\ (\/ \E e \in Call : p'[e] = b
                                \/ \E u \in Thread : OwnsBox(u)' /\ BoxOf(u)' = b)
    <3>1. CASE b \in heap
      BY <1>0, <1>1, <2>2, <3>1 DEF BoxesOwned
    <3>2. CASE b \notin heap
      BY <2>1, <2>2, <2>3, <3>2
    <3> QED BY <3>1, <3>2
  <2> QED BY <1>2, <2>6, <2>7, <2>8, <2>9 DEF BoxesOwned
<1> QED BY <1>3, <1>4

\* The boxes have their owners after every step of a call.
LEMMA BoxesOwnedStep ==
  ASSUME OInv, NEW t \in Thread, Actions(t)
  PROVE  BoxesOwned'
<1>0. /\ TypeOK /\ IInv /\ CallsDistinct /\ BoxesOwned /\ NullBefore /\ UsesOneKey
      /\ Kinds(t) /\ UNCHANGED ncalls
      /\ \A u \in Thread \ {t} : OwnsBox(u)' <=> OwnsBox(u)
      /\ \A u \in Thread : BoxOf(u)' = BoxOf(u)
  BY KindStep, CallStep, OwnsFrame DEF OInv, IInv, Actions, Step, BoxOf
<1>1. /\ \A u, w \in Thread : OwnsBox(u) /\ OwnsBox(w) /\ BoxOf(u) = BoxOf(w) => u = w
      /\ \A u \in Thread : OwnsBox(u) => BoxOf(u) \in Call
  <2>1. \A u \in Thread : OwnsBox(u) => Calling(u)
    BY DEF OwnsBox, Calling
  <2> QED BY <1>0, <2>1, CallFacts, TypeParts DEF CallsDistinct
<1>2. NULL \notin heap /\ EXPUNGED \notin heap /\ ~Live(NULL) /\ ~Live(EXPUNGED)
  BY <1>0 DEF TypeOK, Call, NULL, EXPUNGED, Live
<1>3. ASSUME UNCHANGED p, OwnBox(t) PROVE BoxesOwned'
  <2>1. CASE heap' = heap /\ (OwnsBox(t)' <=> OwnsBox(t))
    <3>1. \A u \in Thread : OwnsBox(u)' <=> OwnsBox(u)
      BY <1>0, <2>1
    <3> QED BY <1>0, <1>3, <2>1, <3>1 DEF BoxesOwned
  <2>2. CASE heap' = heap \ {BoxOf(t)} /\ OwnsBox(t) /\ ~OwnsBox(t)'
    <3>1. \A e \in Call : Live(p[e]) => p[e] # BoxOf(t)
      BY <1>0, <2>2 DEF BoxesOwned
    <3>2. \A u \in Thread : OwnsBox(u)' => OwnsBox(u) /\ BoxOf(u) # BoxOf(t)
      BY <1>0, <1>1, <2>2
    <3>3. \A b \in heap' : b <= ncalls' /\ (\/ \E e \in Call : p'[e] = b
                                \/ \E u \in Thread : OwnsBox(u)' /\ BoxOf(u)' = b)
      BY <1>0, <1>3, <2>2 DEF BoxesOwned
    <3> QED BY <1>0, <1>3, <2>2, <3>1, <3>2, <3>3 DEF BoxesOwned
  <2> QED BY <1>3, <2>1, <2>2 DEF OwnBox
<1>4. CASE Stores(t)
  <2> DEFINE x == Current(KeyOf(t))
             y == BoxOf(t)
  <2>1. /\ x \in Call /\ p' = [p EXCEPT ![x] = y] /\ heap' = heap \ {p[x]}
        /\ OwnsBox(t) /\ ~OwnsBox(t)' /\ y \in Call /\ y \in heap
    BY <1>0, <1>1, <1>4 DEF Stores, EntrySwap, BoxesOwned
  <2> HIDE DEF x, y
  <2>2. p'[x] = y /\ \A e \in Call \ {x} : p'[e] = p[e]
    BY <1>0, <2>1 DEF TypeOK
  <2>3. \A e \in Call : Live(p[e]) => p[e] # y
    BY <1>0, <2>1 DEF BoxesOwned, y
  <2>4. \A u \in Thread : OwnsBox(u)' => OwnsBox(u) /\ BoxOf(u) # y /\ BoxOf(u) # p[x]
    BY <1>0, <1>1, <2>1 DEF BoxesOwned, y, Live
  <2>5. \A e, f \in Call : Live(p'[e]) /\ p'[e] = p'[f] => e = f
    BY <1>0, <2>1, <2>2, <2>3 DEF BoxesOwned, Live
  <2>6. \A e \in Call : Live(p'[e]) =>
          p'[e] \in heap' /\ \A u \in Thread : OwnsBox(u)' => BoxOf(u) # p'[e]
    <3>1. y # p[x]
      BY <2>1, <2>3 DEF Live
    <3> QED BY <1>0, <2>1, <2>2, <2>4, <3>1 DEF BoxesOwned
  <2>7. \A u \in Thread : OwnsBox(u)' => BoxOf(u) \in heap'
    BY <1>0, <2>1, <2>4 DEF BoxesOwned
  <2>8. ASSUME NEW b \in heap'
        PROVE  b <= ncalls /\ (\/ \E e \in Call : p'[e] = b
                               \/ \E u \in Thread : OwnsBox(u)' /\ BoxOf(u) = b)
    <3>1. b \in heap /\ b # p[x] /\ b <= ncalls
      BY <1>0, <2>1 DEF BoxesOwned
    <3>2. CASE \E e \in Call : p[e] = b
      BY <2>2, <3>1, <3>2
    <3>3. CASE \E u \in Thread : OwnsBox(u) /\ BoxOf(u) = b
      BY <1>0, <2>1, <2>2, <3>1, <3>3 DEF y
    <3> QED BY <1>0, <3>1, <3>2, <3>3 DEF BoxesOwned
  <2> QED BY <1>0, <2>5, <2>6, <2>7, <2>8 DEF BoxesOwned
<1>5. CASE Deletes(t)
  <2> DEFINE x == ent[t]
  <2>1. /\ x \in Call /\ p' = [p EXCEPT ![x] = NULL] /\ heap' = heap \ {p[x]}
        /\ Live(p[x]) /\ ~OwnsBox(t) /\ ~OwnsBox(t)'
    BY <1>0, <1>5 DEF Deletes, EntrySwap, OwnsBox, UsesOneKey, UsesEntry
  <2> HIDE DEF x
  <2>2. p'[x] = NULL /\ \A e \in Call \ {x} : p'[e] = p[e]
    BY <1>0, <2>1 DEF TypeOK
  <2>3. \A u \in Thread : OwnsBox(u)' => OwnsBox(u) /\ BoxOf(u) # p[x]
    BY <1>0, <2>1 DEF BoxesOwned
  <2>4. \A e, f \in Call : Live(p'[e]) /\ p'[e] = p'[f] => e = f
    BY <1>0, <1>2, <2>2 DEF BoxesOwned
  <2>5. \A e \in Call : Live(p'[e]) =>
          p'[e] \in heap' /\ \A u \in Thread : OwnsBox(u)' => BoxOf(u) # p'[e]
    BY <1>0, <1>2, <2>1, <2>2, <2>3 DEF BoxesOwned
  <2>6. \A u \in Thread : OwnsBox(u)' => BoxOf(u) \in heap'
    BY <1>0, <2>1, <2>3 DEF BoxesOwned
  <2>7. ASSUME NEW b \in heap'
        PROVE  b <= ncalls /\ (\/ \E e \in Call : p'[e] = b
                               \/ \E u \in Thread : OwnsBox(u)' /\ BoxOf(u) = b)
    <3>1. b \in heap /\ b # p[x] /\ b <= ncalls
      BY <1>0, <2>1 DEF BoxesOwned
    <3>2. CASE \E e \in Call : p[e] = b
      BY <2>2, <3>1, <3>2
    <3>3. CASE \E u \in Thread : OwnsBox(u) /\ BoxOf(u) = b
      <4>1. PICK u \in Thread : OwnsBox(u) /\ BoxOf(u) = b
        BY <3>3
      <4>2. u \in Thread \ {t}
        BY <2>1, <4>1
      <4> QED BY <1>0, <3>1, <4>1, <4>2
    <3> QED BY <1>0, <3>1, <3>2, <3>3 DEF BoxesOwned
  <2> QED BY <1>0, <2>4, <2>5, <2>6, <2>7 DEF BoxesOwned
<1>6. ASSUME NEW x \in Call, NEW y \in {NULL, EXPUNGED}, ~Live(p[x]),
             p' = [p EXCEPT ![x] = y], heap' = heap, OwnsBox(t)' <=> OwnsBox(t)
      PROVE  BoxesOwned'
  <2>1. p'[x] = y /\ \A e \in Call \ {x} : p'[e] = p[e]
    BY <1>0, <1>6 DEF TypeOK
  <2>2. \A u \in Thread : OwnsBox(u)' <=> OwnsBox(u)
    BY <1>0, <1>6
  <2>3. p[x] \notin heap
    BY <1>0, <1>6 DEF Live, TypeOK
  <2>4. \A e, f \in Call : Live(p'[e]) /\ p'[e] = p'[f] => e = f
    BY <1>0, <1>2, <2>1 DEF BoxesOwned
  <2>5. \A e \in Call : Live(p'[e]) =>
          p'[e] \in heap' /\ \A u \in Thread : OwnsBox(u)' => BoxOf(u) # p'[e]
    BY <1>0, <1>2, <1>6, <2>1, <2>2 DEF BoxesOwned
  <2>6. \A b \in heap' : b <= ncalls /\ (\/ \E e \in Call : p'[e] = b
                               \/ \E u \in Thread : OwnsBox(u)' /\ BoxOf(u) = b)
    BY <1>0, <1>6, <2>1, <2>2, <2>3 DEF BoxesOwned
  <2>7. \A u \in Thread : OwnsBox(u)' => BoxOf(u) \in heap'
    BY <1>0, <1>6, <2>2 DEF BoxesOwned
  <2> QED BY <1>0, <2>4, <2>5, <2>6, <2>7 DEF BoxesOwned
<1>7. CASE Unmarks(t)
  <2>1. KeyOf(t) \in Key /\ read.m[KeyOf(t)] \in Call /\ OwnsBox(t) /\ OwnsBox(t)'
    BY <1>0, <1>7, EntryTypes DEF Unmarks, CallsDistinct, Keyless, Has, OwnsBox
  <2> QED BY <1>2, <1>6, <1>7, <2>1 DEF Unmarks
<1>8. CASE Marks(t)
  <2>1. PICK k \in Key : Has(read.m, k) /\ ~Live(p[read.m[k]])
                         /\ p' = [p EXCEPT ![read.m[k]] = EXPUNGED]
    BY <1>8 DEF Marks
  <2>2. read.m[k] \in Call /\ OwnsBox(t) /\ OwnsBox(t)' /\ heap' = heap
    BY <1>0, <1>8, <2>1, EntryTypes DEF Marks, Has, OwnsBox
  <2> QED BY <1>6, <2>1, <2>2
<1>9. CASE Inserts(t)
  <2> DEFINE y == BoxOf(t)
  <2>1. /\ y \in Call /\ p' = [p EXCEPT ![y] = y] /\ heap' = heap /\ p[y] = NULL
        /\ OwnsBox(t) /\ ~OwnsBox(t)' /\ y \in heap
    BY <1>0, <1>9, InsertEnters DEF Inserts, OwnsBox, NullBefore, BoxesOwned
  <2> HIDE DEF y
  <2>2. p'[y] = y /\ \A e \in Call \ {y} : p'[e] = p[e]
    BY <1>0, <2>1 DEF TypeOK
  <2>3. \A e \in Call : Live(p[e]) => p[e] # y
    BY <1>0, <2>1 DEF BoxesOwned, y
  <2>4. \A u \in Thread : OwnsBox(u)' => OwnsBox(u) /\ BoxOf(u) # y
    BY <1>0, <1>1, <2>1 DEF y
  <2>5. \A e, f \in Call : Live(p'[e]) /\ p'[e] = p'[f] => e = f
    BY <1>0, <2>1, <2>2, <2>3 DEF BoxesOwned, Live
  <2>6. \A e \in Call : Live(p'[e]) =>
          p'[e] \in heap' /\ \A u \in Thread : OwnsBox(u)' => BoxOf(u) # p'[e]
    BY <1>0, <2>1, <2>2, <2>4 DEF BoxesOwned
  <2>7. \A u \in Thread : OwnsBox(u)' => BoxOf(u) \in heap'
    BY <1>0, <2>1, <2>4 DEF BoxesOwned
  <2>8. ASSUME NEW b \in heap'
        PROVE  b <= ncalls /\ (\/ \E e \in Call : p'[e] = b
                               \/ \E u \in Thread : OwnsBox(u)' /\ BoxOf(u) = b)
    <3>1. b \in heap /\ b # NULL /\ b <= ncalls
      BY <1>0, <1>2, <2>1 DEF BoxesOwned
    <3>2. CASE \E e \in Call : p[e] = b
      BY <2>1, <2>2, <3>1, <3>2
    <3>3. CASE \E u \in Thread : OwnsBox(u) /\ BoxOf(u) = b
      BY <1>0, <2>1, <2>2, <3>1, <3>3 DEF y
    <3> QED BY <1>0, <3>1, <3>2, <3>3 DEF BoxesOwned
  <2> QED BY <1>0, <2>5, <2>6, <2>7, <2>8 DEF BoxesOwned
<1> QED BY <1>0, <1>3, <1>4, <1>5, <1>7, <1>8, <1>9 DEF Kinds, Quiet, Publishes

\* No value becomes unreachable in a step of a call.
LEMMA NoValueLostStep ==
  ASSUME OInv, NEW t \in Thread, Actions(t)
  PROVE  NoValueLost'
<1>0. /\ TypeOK /\ IInv /\ CallsDistinct /\ NoValueLost /\ DirtyMirrorsRead /\ UsesOneKey
      /\ Kinds(t) /\ Frame(t) /\ NoEntry \notin Call
  BY KindStep, StepFrame, EntryTypes DEF OInv, IInv, Actions, Step
<1> SUFFICES ASSUME NEW e \in Call, Live(p'[e])
             PROVE  \/ \E k \in Key : (Has(read'.m, k) /\ read'.m[k] = e) \/ dirty'[k] = e
                    \/ \E u \in Thread : pc'[u] = "lad_entry" /\ ent'[u] = e
  BY DEF NoValueLost, Has, Live
<1>1. Live(p[e]) =>
        \/ \E k \in Key : Under(e, k)
        \/ \E u \in Thread : pc[u] = "lad_entry" /\ ent[u] = e
  BY <1>0 DEF NoValueLost, Under
<1>2. ASSUME NEW k \in Key, Under(e, k)'
      PROVE  \E k2 \in Key : (Has(read'.m, k2) /\ read'.m[k2] = e) \/ dirty'[k2] = e
  BY <1>2 DEF Under, Has
<1>3. ASSUME NEW u \in Thread \ {t}, pc[u] = "lad_entry", ent[u] = e
      PROVE  \E w \in Thread : pc'[w] = "lad_entry" /\ ent'[w] = e
  BY <1>0, <1>3 DEF Frame
<1>4. ASSUME UNCHANGED <<read, dirty>>, Live(p[e]), pc[t] = "lad_entry" => ent[t] # e
      PROVE  \/ \E k \in Key : Under(e, k)'
             \/ \E u \in Thread \ {t} : pc[u] = "lad_entry" /\ ent[u] = e
  BY <1>1, <1>4 DEF Under
<1>5. CASE Quiet(t)
  <2>1. Live(p[e]) /\ UNCHANGED <<read, dirty>> /\ (pc[t] = "lad_entry" => ent[t] # e)
    BY <1>5 DEF Quiet
  <2> QED BY <1>2, <1>3, <1>4, <2>1
<1>6. CASE Publishes(t)
  <2>1. PICK d \in EntryMap :
          /\ \A k \in Key :
               \/ d[k] = dirty[k]
               \/ /\ d[k] = NoEntry /\ ~Has(read.m, k)
                  /\ pc'[t] = "lad_entry" /\ ent'[t] = dirty[k]
          /\ MissLocked(d) \/ Promote(d)
    BY <1>6 DEF Publishes
  <2>2. Live(p[e]) /\ read.amended /\ pc[t] # "lad_entry"
    BY <1>6 DEF Publishes
  <2>3. \/ read'.m = d
        \/ UNCHANGED read /\ dirty' = d
    BY <2>1, MissPublishes
  <2>4. ASSUME NEW k \in Key, dirty[k] = e
        PROVE  Under(e, k)' \/ (pc'[t] = "lad_entry" /\ ent'[t] = e)
    BY <1>0, <2>1, <2>3, <2>4 DEF Under
  <2>5. ASSUME NEW k \in Key, read.m[k] = e
        PROVE  dirty[k] = e
    BY <1>0, <2>2, <2>5 DEF DirtyMirrorsRead, Has, Live, Call, EXPUNGED
  <2> QED BY <1>1, <1>2, <1>3, <2>2, <2>4, <2>5 DEF Under
<1>7. CASE Stores(t)
  <2>1. KeyOf(t) \in Key /\ Current(KeyOf(t)) \in Call /\ UNCHANGED <<read, dirty>>
        /\ pc[t] # "lad_entry" /\ p' = [p EXCEPT ![Current(KeyOf(t))] = BoxOf(t)]
    BY <1>0, <1>7 DEF Stores, CallsDistinct, EntrySwap
  <2>2. CASE e = Current(KeyOf(t))
    <3>1. Under(e, KeyOf(t))
      BY <1>0, <2>1, <2>2, CurrentUnder
    <3>2. \E k \in Key : Under(e, k)'
      BY <2>1, <3>1 DEF Under
    <3> QED BY <1>2, <3>2
  <2>3. CASE e # Current(KeyOf(t))
    <3>1. Live(p[e])
      BY <1>0, <2>1, <2>3 DEF TypeOK
    <3> QED BY <1>2, <1>3, <1>4, <2>1, <3>1
  <2> QED BY <2>2, <2>3
<1>8. CASE Deletes(t)
  <2>1. ent[t] \in Call /\ UNCHANGED <<read, dirty>> /\ p' = [p EXCEPT ![ent[t]] = NULL]
    BY <1>0, <1>8 DEF Deletes, EntrySwap, UsesOneKey, UsesEntry
  <2>2. e # ent[t] /\ Live(p[e])
    BY <1>0, <2>1 DEF TypeOK, Live, Call, NULL
  <2> QED BY <1>2, <1>3, <1>4, <2>1, <2>2
<1>9. CASE Unmarks(t)
  <2>1. KeyOf(t) \in Key /\ read.m[KeyOf(t)] \in Call /\ UNCHANGED read
        /\ p' = [p EXCEPT ![read.m[KeyOf(t)]] = NULL]
        /\ dirty' = [dirty EXCEPT ![KeyOf(t)] = read.m[KeyOf(t)]]
        /\ pc[t] # "lad_entry" /\ read.amended /\ p[read.m[KeyOf(t)]] = EXPUNGED
        /\ Has(read.m, KeyOf(t))
    BY <1>0, <1>9, EntryTypes DEF Unmarks, CallsDistinct, Keyless, Has
  <2>2. Live(p[e])
    BY <1>0, <2>1 DEF TypeOK, Live, Call, NULL
  <2>3. dirty[KeyOf(t)] = NoEntry
    BY <1>0, <2>1 DEF DirtyMirrorsRead
  <2>4. \A k \in Key : Under(e, k) => Under(e, k)'
    BY <1>0, <2>1, <2>3 DEF Under, TypeOK, EntryMap
  <2> QED BY <1>1, <1>2, <1>3, <2>1, <2>2, <2>4
<1>10. CASE Marks(t)
  <2>1. PICK k \in Key : Has(read.m, k) /\ ~Live(p[read.m[k]])
                         /\ p' = [p EXCEPT ![read.m[k]] = EXPUNGED]
    BY <1>10 DEF Marks
  <2>2. Live(p[e]) /\ UNCHANGED <<read, dirty>> /\ pc[t] # "lad_entry"
    BY <1>0, <1>10, <2>1 DEF Marks, TypeOK, Live, Call, EXPUNGED
  <2> QED BY <1>2, <1>3, <1>4, <2>2
<1>11. CASE Inserts(t)
  <2>1. /\ KeyOf(t) \in Key /\ p' = [p EXCEPT ![BoxOf(t)] = BoxOf(t)] /\ pc[t] # "lad_entry"
        /\ read'.m = read.m /\ dirty'[KeyOf(t)] = BoxOf(t) /\ ~Has(dirty, KeyOf(t))
        /\ \A k \in Key \ {KeyOf(t)} : ~Has(read.m, k) => dirty'[k] = dirty[k]
    BY <1>0, <1>11 DEF Inserts, CallsDistinct, Keyless
  <2>2. CASE e = BoxOf(t)
    BY <2>1, <2>2
  <2>3. CASE e # BoxOf(t)
    <3>1. Live(p[e])
      BY <1>0, <2>1, <2>3 DEF TypeOK
    <3>2. ASSUME NEW k \in Key, dirty[k] = e PROVE Under(e, k)'
      <4>1. k # KeyOf(t)
        BY <1>0, <2>1, <3>2 DEF Has
      <4>2. Has(read.m, k) => read.m[k] = e
        BY <1>0, <3>2 DEF DirtyMirrorsRead, NoEntries
      <4> QED BY <1>0, <2>1, <3>2, <4>1, <4>2 DEF Under
    <3>3. ASSUME NEW k \in Key, read.m[k] = e PROVE Under(e, k)'
      BY <1>0, <2>1, <3>3 DEF Under
    <3> QED BY <1>1, <1>2, <1>3, <2>1, <3>1, <3>2, <3>3 DEF Under
  <2> QED BY <2>2, <2>3
<1> QED BY <1>0, <1>5, <1>6, <1>7, <1>8, <1>9, <1>10, <1>11 DEF Kinds

-----------------------------------------------------------------------------
(***************************************************************************)
(* The theorems.                                                           *)
(***************************************************************************)

\* An empty map has no values and no boxes.
LEMMA OInvInit == ASSUME Init PROVE OInv
<1>1. IInv
  BY IInvInit
<1>2. UsesOneKey /\ Routed
  BY DEF Init, UsesOneKey, Routed, UsedBy, UsesEntry
<1>3. BoxesOwned /\ NullBefore /\ NoValueLost
  BY DEF Init, BoxesOwned, NullBefore, NoValueLost, Live, NULL, Call, OwnsBox
<1> QED BY <1>1, <1>2, <1>3 DEF OInv

\* The inductive step.
LEMMA OInvStep == ASSUME OInv, [Next]_vars PROVE OInv'
<1>1. IInv'
  BY IInvStep DEF OInv
<1>2. ASSUME NEW t \in Thread, Invoke(t) \/ Step(t) PROVE OInv'
  <2>1. UsesOneKey' /\ Routed' /\ NullBefore'
    BY <1>2, UsesOneKeyStep, RoutedStep, NullBeforeStep
  <2>2. BoxesOwned' /\ NoValueLost'
    BY <1>2, BoxesAtCalls, BoxesOwnedStep, NoValueLostStep DEF Step, Actions
  <2> QED BY <1>1, <2>1, <2>2 DEF OInv
<1>3. CASE UNCHANGED vars
  <2>1. UsesOneKey' /\ Routed'
    BY <1>3 DEF vars, OInv, UsesOneKey, UsedBy, Entered, Under, Routed, KeyOf, BoxOf
  <2>2. NullBefore' /\ BoxesOwned' /\ NoValueLost'
    BY <1>3 DEF vars, OInv, NullBefore, Entered, BoxesOwned, OwnsBox, BoxOf, NoValueLost,
       Has
  <2> QED BY <1>1, <2>1, <2>2 DEF OInv
<1> QED BY <1>2, <1>3 DEF Next, Terminated

\* The invariant holds of every reachable state.
THEOREM Ownership == Spec => []OInv
<1>1. Init => OInv
  BY OInvInit
<1>2. OInv /\ [Next]_vars => OInv'
  BY OInvStep
<1> QED BY <1>1, <1>2, PTL DEF Spec

\* However promotions, rebuilds of dirty, deletions and lock-free stores
\* interleave, a value that is in an entry can be found under a key or is in
\* the hands of the load_and_delete that took its entry out of dirty.
THEOREM ValuesReachable == Spec => []NoValueLost
<1>1. OInv => NoValueLost
  BY DEF OInv
<1> QED BY <1>1, Ownership, PTL

\* Every box has one owner until it is freed: the drops in src/sync_map.rs
\* free no box twice, free none that an entry points to, and leak none.
THEOREM BoxesHaveOneOwner == Spec => []BoxOwnership
<1>1. ASSUME OInv PROVE BoxOwnership
  <2> SUFFICES ASSUME NEW b \in Call
               PROVE  Cardinality({e \in Call : p[e] = b})
                        + Cardinality({t \in Thread : OwnsBox(t) /\ BoxOf(t) = b})
                      = IF b \in heap THEN 1 ELSE 0
    BY DEF BoxOwnership
  <2> DEFINE E == {e \in Call : p[e] = b}
             C == {t \in Thread : OwnsBox(t) /\ BoxOf(t) = b}
  <2>0. BoxesOwned /\ CallsDistinct /\ \A t \in Thread : OwnsBox(t) => Calling(t)
    BY <1>1 DEF OInv, IInv, OwnsBox, Calling
  <2>1. CASE \E e \in Call : p[e] = b
    <3>1. PICK e \in Call : p[e] = b
      BY <2>1
    <3>2. E = {e} /\ C = {} /\ b \in heap
      BY <2>0, <3>1 DEF BoxesOwned, Live
    <3> QED BY <3>2, FS_Singleton, FS_EmptySet
  <2>2. CASE \E t \in Thread : OwnsBox(t) /\ BoxOf(t) = b
    <3>1. PICK t \in Thread : OwnsBox(t) /\ BoxOf(t) = b
      BY <2>2
    <3>2. C = {t} /\ E = {} /\ b \in heap
      BY <2>0, <3>1 DEF BoxesOwned, Live, CallsDistinct
    <3> QED BY <3>2, FS_Singleton, FS_EmptySet
  <2>3. CASE /\ ~ \E e \in Call : p[e] = b
             /\ ~ \E t \in Thread : OwnsBox(t) /\ BoxOf(t) = b
    <3>1. E = {} /\ C = {} /\ b \notin heap
      BY <2>0, <2>3 DEF BoxesOwned
    <3> QED BY <3>1, FS_EmptySet
  <2> QED BY <2>1, <2>2, <2>3
<1> QED BY <1>1, Ownership, PTL

-----------------------------------------------------------------------------
(***************************************************************************)
(* Misses.                                                                 *)
(***************************************************************************)

\* A map whose entries are distinct calls has finitely many keys.
LEMMA FiniteKeys ==
  ASSUME NEW d, \A k \in KeysIn(d) : d[k] \in Call,
         \A k1, k2 \in KeysIn(d) : d[k1] = d[k2] => k1 = k2
  PROVE  IsFiniteSet(KeysIn(d)) /\ Cardinality(KeysIn(d)) \in Nat
<1> DEFINE f == [k \in KeysIn(d) |-> d[k]]
<1>1. f \in Injection(KeysIn(d), Call)
  BY DEF Injection, IsInjective
<1>2. IsFiniteSet(Call)
  BY ConstantsAssumption, FS_Interval DEF Call
<1>3. IsFiniteSet(KeysIn(d))
  BY <1>1, <1>2, FS_Injection
<1> QED BY <1>3, FS_CardinalityType

\* The count of misses stays below the size of dirty.
LEMMA MissesStep ==
  ASSUME OInv, MissesBounded, OInv', NEW t \in Thread, Actions(t)
  PROVE  MissesBounded'
<1>0. /\ TypeOK /\ IInv /\ DirtyMirrorsRead /\ Kinds(t) /\ IInv' /\ misses \in Nat
      /\ NoEntry \notin Call
  BY KindStep, EntryTypes DEF OInv, IInv, TypeOK
<1>1. /\ IsFiniteSet(KeysIn(dirty)) /\ Cardinality(KeysIn(dirty)) \in Nat
      /\ IsFiniteSet(KeysIn(dirty')) /\ Cardinality(KeysIn(dirty')) \in Nat
  <2>1. /\ \A k \in KeysIn(dirty) : k \in Key /\ dirty[k] \in Call
        /\ \A k1, k2 \in KeysIn(dirty) : dirty[k1] = dirty[k2] => k1 = k2
    <3>1. \A k \in KeysIn(dirty) : k \in Key /\ dirty[k] \in Call /\ dirty[k] # NoEntry
      BY <1>0, EntryTypes DEF KeysIn, Has, TypeOK, EntryMap
    <3> QED BY <1>0, <3>1 DEF IInv, EntriesDistinct, Under
  <2>2. /\ \A k \in KeysIn(dirty') : k \in Key /\ dirty'[k] \in Call
        /\ \A k1, k2 \in KeysIn(dirty') : dirty'[k1] = dirty'[k2] => k1 = k2
    <3>1. \A k \in KeysIn(dirty') : k \in Key /\ dirty'[k] \in Call /\ dirty'[k] # NoEntry
      BY <1>0, EntryTypes DEF KeysIn, Has, IInv, TypeOK, EntryMap
    <3> QED BY <1>0, <3>1 DEF IInv, EntriesDistinct, Under
  <2>3. IsFiniteSet(KeysIn(dirty)) /\ Cardinality(KeysIn(dirty)) \in Nat
    BY ONLY <2>1, FiniteKeys, Zenon
  <2>4. IsFiniteSet(KeysIn(dirty')) /\ Cardinality(KeysIn(dirty')) \in Nat
    <3> DEFINE d == dirty'
    <3>1. /\ \A k \in KeysIn(d) : d[k] \in Call
          /\ \A k1, k2 \in KeysIn(d) : d[k1] = d[k2] => k1 = k2
      BY <2>2
    <3> HIDE DEF d
    <3>2. IsFiniteSet(KeysIn(d)) /\ Cardinality(KeysIn(d)) \in Nat
      BY <3>1, FiniteKeys
    <3> QED BY <3>2 DEF d
  <2> QED BY <2>3, <2>4
<1>2. ASSUME KeysIn(dirty) \subseteq KeysIn(dirty')
      PROVE  Cardinality(KeysIn(dirty)) <= Cardinality(KeysIn(dirty'))
  BY <1>1, <1>2, FS_Subset
<1>3. MissesBounded' <=> IF read'.amended THEN misses' < Cardinality(KeysIn(dirty'))
                                          ELSE misses' = 0
  BY DEF MissesBounded, KeysIn, Has
<1>4. CASE Quiet(t) \/ Stores(t) \/ Deletes(t) \/ Marks(t)
  BY <1>3, <1>4 DEF Quiet, Stores, Deletes, Marks, MissesBounded
<1>5. CASE Publishes(t)
  <2>1. PICK d \in EntryMap : MissLocked(d) \/ Promote(d)
    BY <1>5 DEF Publishes
  <2>2. CASE Promote(d)
    BY <1>3, <2>2 DEF Promote
  <2>3. CASE /\ ~(misses + 1 >= Cardinality(KeysIn(d)))
             /\ dirty' = d /\ misses' = misses + 1 /\ UNCHANGED read
    BY <1>0, <1>1, <1>3, <1>5, <2>3 DEF Publishes
  <2> QED BY <2>1, <2>2, <2>3 DEF MissLocked
<1>6. CASE Unmarks(t)
  <2>1. UNCHANGED <<read, misses>> /\ read.amended
        /\ dirty' = [dirty EXCEPT ![KeyOf(t)] = read.m[KeyOf(t)]]
        /\ Has(read.m, KeyOf(t))
    BY <1>6 DEF Unmarks
  <2>2. KeysIn(dirty) \subseteq KeysIn(dirty')
    BY <1>0, <2>1 DEF KeysIn, Has, TypeOK, EntryMap
  <2>3. misses < Cardinality(KeysIn(dirty))
    BY <2>1 DEF MissesBounded
  <2>4. Cardinality(KeysIn(dirty)) <= Cardinality(KeysIn(dirty'))
    BY <1>2, <2>2
  <2>5. read'.amended /\ misses' < Cardinality(KeysIn(dirty'))
    BY <1>0, <1>1, <2>1, <2>3, <2>4
  <2> QED BY <1>3, <2>5
<1>7. CASE Inserts(t)
  <2>1. /\ KeyOf(t) \in Key /\ BoxOf(t) \in Call /\ read'.amended = TRUE /\ UNCHANGED misses
        /\ dirty'[KeyOf(t)] = BoxOf(t) /\ ~Has(dirty, KeyOf(t))
        /\ \A k \in Key \ {KeyOf(t)} : ~Has(read.m, k) => dirty'[k] = dirty[k]
    BY <1>7, InsertEnters DEF Inserts
  <2>2. KeyOf(t) \in KeysIn(dirty')
    BY <1>0, <2>1 DEF KeysIn, Has
  <2>3. CASE ~read.amended
    <3>1. misses' = 0
      BY <2>1, <2>3 DEF MissesBounded
    <3>2. Cardinality(KeysIn(dirty')) # 0
      BY <1>1, <2>2, FS_EmptySet
    <3> QED BY <1>1, <1>3, <2>1, <3>1, <3>2
  <2>4. CASE read.amended
    <3>1. UNCHANGED read /\ pc[t] # "dirty_locked"
      BY <1>0, <1>7, <2>4 DEF Inserts, TypeOK, IInv, RebuildOK, Rebuilding
    <3>2. \A k \in Key : Has(dirty, k) => dirty'[k] # NoEntry
      <4> SUFFICES ASSUME NEW k \in Key, Has(dirty, k) PROVE dirty'[k] # NoEntry
        OBVIOUS
      <4>1. k # KeyOf(t)
        BY <2>1
      <4>2. CASE ~Has(read.m, k)
        BY <2>1, <4>1, <4>2 DEF Has
      <4>3. CASE Has(read.m, k)
        <5>1. dirty[k] = read.m[k] /\ p[read.m[k]] # EXPUNGED
          BY <1>0, <2>4, <4>3 DEF DirtyMirrorsRead, Has
        <5>2. BoxOf(t) # read.m[k]
          <6>1. read.m[k] \in Call /\ Under(read.m[k], k)
            BY <1>0, <4>3, EntryTypes DEF Has, Under
          <6> QED BY <1>0, <1>7, <6>1, UnderEntered, InsertEnters
        <5>3. p'[read.m[k]] # EXPUNGED
          BY <1>7, <5>1, <5>2 DEF Inserts, TypeOK
        <5>4. DirtyMirrorsRead' /\ read'.amended /\ read'.m = read.m
          BY <1>0, <2>1, <3>1 DEF IInv
        <5> QED BY <4>3, <5>3, <5>4 DEF DirtyMirrorsRead, Has
      <4> QED BY <4>2, <4>3
    <3>3. KeysIn(dirty) \subseteq KeysIn(dirty')
      BY <3>2 DEF KeysIn, Has
    <3>4. misses < Cardinality(KeysIn(dirty))
      BY <2>4 DEF MissesBounded
    <3>5. Cardinality(KeysIn(dirty)) <= Cardinality(KeysIn(dirty'))
      BY <1>2, <3>3
    <3>6. read'.amended /\ misses' < Cardinality(KeysIn(dirty'))
      BY <1>0, <1>1, <2>1, <3>4, <3>5
    <3> QED BY <1>3, <3>6
  <2> QED BY <1>0, <2>3, <2>4 DEF TypeOK
<1> QED BY <1>0, <1>4, <1>5, <1>6, <1>7 DEF Kinds

\* Once dirty has been missed as often as it has keys it is promoted, and
\* the count starts again: a key that is only in dirty is found without the
\* mutex after finitely many look-ups.
THEOREM MissesStayBounded == Spec => []MissesBounded
<1>1. Init => MissesBounded
  BY DEF Init, MissesBounded
<1>2. ASSUME OInv, MissesBounded, [Next]_vars PROVE MissesBounded'
  <2>1. OInv'
    BY <1>2, OInvStep
  <2>2. CASE UNCHANGED vars
    BY <1>2, <2>2 DEF vars, MissesBounded, KeysIn, Has
  <2>3. ASSUME NEW t \in Thread, Invoke(t) \/ Return(t) PROVE MissesBounded'
    BY <1>2, <2>3 DEF Invoke, Return, maps, MissesBounded, KeysIn, Has
  <2>4. ASSUME NEW t \in Thread, Actions(t) PROVE MissesBounded'
    BY <1>2, <2>1, <2>4, MissesStep
  <2> QED BY <1>2, <2>2, <2>3, <2>4 DEF Next, Terminated, Step, Actions
<1> QED BY <1>1, <1>2, Ownership, PTL DEF Spec
=============================================================================
