--------------------------- MODULE SyncMapProofs ---------------------------
(***************************************************************************)
(* What SyncMap keeps for every set of threads and keys and any number of  *)
(* calls: its types, the exclusion of the mutex, and the relation between  *)
(* read and dirty on which the lock-free paths rely.                       *)
(***************************************************************************)
EXTENDS SyncMap, TLAPS

(***************************************************************************)
(* The inductive invariant, by parts.                                      *)
(***************************************************************************)

\* Where a call needs no key: it takes none, or it has used it.
Keyless == {"idle", "done", "range", "range_lock", "range_entry"}

\* Where a call may still insert the entry that bears its number.
MayInsert == {"store", "store_try", "store_lock", "load_or_store", "los_try",
              "los_lock", "dirty_locked"}

Calling(t) == pc[t] # "idle"

\* Calls in progress have a number of their own and, while it matters, a key.
CallsDistinct ==
  /\ \A t \in Thread : Calling(t) => BoxOf(t) \in 1 .. ncalls
  /\ \A t \in Thread : pc[t] \notin Keyless => KeyOf(t) \in Key
  /\ \A t, u \in Thread :
       Calling(t) /\ Calling(u) /\ BoxOf(t) = BoxOf(u) => t = u

\* Entry e is in one of the maps, under key k.
Under(e, k) == e # NoEntry /\ (read.m[k] = e \/ dirty[k] = e)

\* An entry is under one key, and an entry not yet inserted under none.
EntriesDistinct ==
  /\ \A e \in Call, k1, k2 \in Key : Under(e, k1) /\ Under(e, k2) => k1 = k2
  /\ \A e \in Call, k \in Key : Under(e, k) =>
       /\ e <= ncalls
       /\ \A t \in Thread : pc[t] \in MayInsert => BoxOf(t) # e

\* No entry of dirty is expunged, nor the one that the holder of the mutex
\* has just unexpunged.
NotExpunged ==
  /\ \A k \in Key : Has(dirty, k) => p[dirty[k]] # EXPUNGED
  /\ \A t \in Thread :
       pc[t] \in {"store_swap", "los_retry"} =>
         ent[t] \in Call /\ p[ent[t]] # EXPUNGED

RebuildOK == \A t \in Thread : pc[t] = "dirty_locked" => Rebuilding(t)

IInv ==
  /\ TypeOK
  /\ CallsDistinct
  /\ OneHolder
  /\ EntriesDistinct
  /\ NotExpunged
  /\ RebuildOK
  /\ DirtyMirrorsRead

-----------------------------------------------------------------------------
(***************************************************************************)
(* Types: what the helpers of SyncMap assign, then the step.               *)
(***************************************************************************)
Result == Call \cup {NULL}

MapsTyped ==
  /\ read \in [m : EntryMap, amended : BOOLEAN]
  /\ dirty \in EntryMap
  /\ misses \in Nat

ThreadsTyped ==
  /\ pc \in [Thread -> PC]
  /\ ent \in [Thread -> Call \cup {NoEntry}]
  /\ out \in [Thread -> [Key -> Result]]

HeapTyped ==
  /\ p \in [Call -> Call \cup {NULL, EXPUNGED}]
  /\ heap \subseteq Call

MutexTyped ==
  /\ holder \in Thread \cup {NoThread}
  /\ fresh \in EntryMap
  /\ iter \in [Thread -> EntryMap]

CallsTyped ==
  /\ ncalls \in 0 .. MaxCalls
  /\ call \in [Thread -> CallRecord]

\* The type invariant, in the parts that one helper assigns each.
LEMMA TypeParts ==
  TypeOK <=> MapsTyped /\ ThreadsTyped /\ HeapTyped /\ MutexTyped /\ CallsTyped
BY DEF TypeOK, MapsTyped, ThreadsTyped, HeapTyped, MutexTyped, CallsTyped, Result

\* A step that leaves the maps alone keeps their types.
LEMMA MapsFrame == ASSUME MapsTyped, UNCHANGED maps PROVE MapsTyped'
BY DEF MapsTyped, maps

\* The fields of the published read.
LEMMA ReadTyped ==
  ASSUME MapsTyped
  PROVE  read.m \in EntryMap /\ read.amended \in BOOLEAN
BY DEF MapsTyped

\* The empty map and the empty result have their types.
LEMMA NoEntriesTyped == NoEntries \in EntryMap /\ NoResult \in [Key -> Result]
BY DEF NoEntries, NoResult, EntryMap, NoEntry, NULL, Result

\* A promotion (mem::replace, and the store to read) keeps the types.
LEMMA PromoteTyped ==
  ASSUME NEW d \in EntryMap, Promote(d)
  PROVE  MapsTyped'
BY NoEntriesTyped DEF Promote, MapsTyped

\* missLocked keeps the types, whether or not it promotes.
LEMMA MissLockedTyped ==
  ASSUME MapsTyped, NEW d \in EntryMap, MissLocked(d)
  PROVE  MapsTyped'
<1>1. CASE misses + 1 >= Cardinality(KeysIn(d))
  BY <1>1, PromoteTyped DEF MissLocked
<1>2. CASE ~(misses + 1 >= Cardinality(KeysIn(d)))
  BY <1>2 DEF MissLocked, MapsTyped
<1> QED BY <1>1, <1>2

\* A jump keeps the types of what belongs to a thread.
LEMMA GotoTyped ==
  ASSUME ThreadsTyped, NEW t \in Thread, NEW label \in PC, Goto(t, label),
         UNCHANGED <<ent, out>>
  PROVE  ThreadsTyped'
BY DEF ThreadsTyped, Goto

\* So does the choice of the entry to use,
LEMMA UseTyped ==
  ASSUME ThreadsTyped, NEW t \in Thread, NEW label \in PC,
         NEW e \in Call \cup {NoEntry}, Use(t, e, label)
  PROVE  ThreadsTyped'
BY DEF ThreadsTyped, Use, Goto

\* an answer with its label,
LEMMA AnswerTyped ==
  ASSUME ThreadsTyped, NEW t \in Thread, NEW label \in PC,
         NEW v \in Result, Answer(t, v, label)
  PROVE  ThreadsTyped'
<1>1. [NoResult EXCEPT ![KeyOf(t)] = v] \in [Key -> Result]
  BY NoEntriesTyped
<1> QED BY <1>1 DEF ThreadsTyped, Answer, Goto

\* and the answer that ends a call.
LEMMA FinishTyped ==
  ASSUME ThreadsTyped, NEW t \in Thread, NEW v \in Result, Finish(t, v)
  PROVE  ThreadsTyped'
BY AnswerTyped DEF Finish, PC

\* Entry::load answers a box or nothing, never the mark EXPUNGED.
LEMMA EntryLoadTyped == ASSUME NEW e PROVE EntryLoad(e) \in Result
BY DEF EntryLoad, Live, Result

\* A swap of the pointer of an entry keeps the types,
LEMMA EntrySwapTyped ==
  ASSUME HeapTyped, NEW e, NEW b \in Result, EntrySwap(e, b)
  PROVE  HeapTyped'
BY DEF HeapTyped, EntrySwap, Result

\* and so does try_load_or_store.
LEMMA TryLoadOrStoreTyped ==
  ASSUME HeapTyped, NEW e, NEW b \in Call, TryLoadOrStore(e, b), heap' \subseteq Call
  PROVE  HeapTyped'
BY DEF HeapTyped, TryLoadOrStore

\* A call in progress has a number and, while it needs one, a key.
LEMMA CallFacts ==
  ASSUME CallsTyped, CallsDistinct, NEW t \in Thread
  PROVE  /\ Calling(t) => BoxOf(t) \in Call
         /\ pc[t] \notin Keyless => KeyOf(t) \in Key
BY ConstantsAssumption DEF CallsTyped, CallsDistinct, Call

\* Every step keeps the types.
LEMMA TypeStep ==
  ASSUME TypeOK, CallsDistinct, NEW t \in Thread, Invoke(t) \/ Step(t)
  PROVE  TypeOK'
<1>0. MapsTyped /\ ThreadsTyped /\ HeapTyped /\ MutexTyped /\ CallsTyped
  BY TypeParts
<1> SUFFICES MapsTyped' /\ ThreadsTyped' /\ HeapTyped' /\ MutexTyped' /\ CallsTyped'
  BY TypeParts DEF TypeOK, MapsTyped, ThreadsTyped, HeapTyped, MutexTyped, CallsTyped, Result
<1> USE <1>0
<1>a. /\ UNCHANGED <<p, heap>> => HeapTyped'
      /\ UNCHANGED <<holder, fresh, iter>> => MutexTyped'
      /\ UNCHANGED <<ncalls, call>> => CallsTyped'
      /\ UNCHANGED maps => MapsTyped'
  BY MapsFrame DEF HeapTyped, MutexTyped, CallsTyped
<1>b. \A k \in Key : read.m[k] \in Call \cup {NoEntry} /\ dirty[k] \in Call \cup {NoEntry}
  BY ReadTyped DEF EntryMap, MapsTyped
<1>c. /\ Calling(t) => BoxOf(t) \in Call
      /\ pc[t] \notin Keyless => KeyOf(t) \in Key
  BY CallFacts
<1>d. NULL \in Result /\ (\A b \in Call : b \in Result)
  BY DEF Result
<1>1. CASE Invoke(t)
  <2>1. ncalls + 1 \in Call /\ ncalls + 1 \in 0 .. MaxCalls
    BY <1>1, ConstantsAssumption DEF Invoke, CallsTyped, Call
  <2>2. PICK o \in Ops, k \in Key \cup {NoKey} :
          /\ call' = [call EXCEPT ![t] = [op |-> o, key |-> k, id |-> ncalls + 1]]
          /\ Goto(t, o)
          /\ heap' = IF o \in {"store", "load_or_store"}
                     THEN heap \cup {ncalls + 1} ELSE heap
    BY <1>1 DEF Invoke
  <2>3. o \in Op /\ o \in PC
    BY ConstantsAssumption DEF PC
  <2>4. [op |-> o, key |-> k, id |-> ncalls + 1] \in CallRecord
    BY <2>1, <2>3 DEF CallRecord
  <2>5. CallsTyped'
    BY <1>1, <2>1, <2>2, <2>4 DEF CallsTyped, Invoke
  <2>6. ThreadsTyped'
    BY <1>1, <2>2, <2>3, GotoTyped DEF Invoke
  <2>7. HeapTyped'
    BY <1>1, <2>1, <2>2 DEF HeapTyped, Invoke
  <2> QED BY <1>1, <1>a, <2>5, <2>6, <2>7, MapsFrame DEF Invoke, MutexTyped
<1>2. CASE Return(t)
  <2>1. NoCall \in CallRecord
    BY DEF NoCall, CallRecord
  <2>2. ThreadsTyped' /\ CallsTyped'
    BY <1>2, <2>1, NoEntriesTyped DEF Return, ThreadsTyped, CallsTyped, Goto, PC
  <2> QED BY <1>2, <1>a, <2>2 DEF Return
<1>3. ASSUME NEW hit \in PC, NEW miss \in PC, LookupRead(t, hit, miss), pc[t] \notin Keyless
      PROVE  MapsTyped' /\ ThreadsTyped' /\ HeapTyped' /\ MutexTyped' /\ CallsTyped'
  <2>1. CASE Has(read.m, KeyOf(t)) /\ Use(t, read.m[KeyOf(t)], hit)
    BY <1>3, <2>1, <1>a, <1>b, <1>c, UseTyped DEF LookupRead
  <2>2. CASE Goto(t, miss) /\ UNCHANGED <<ent, out>>
    BY <1>3, <2>2, <1>a, GotoTyped DEF LookupRead
  <2>3. CASE Finish(t, NULL)
    BY <1>3, <2>3, <1>a, <1>d, FinishTyped DEF LookupRead
  <2> QED BY <1>3, <2>1, <2>2, <2>3 DEF LookupRead
<1>4. ASSUME NEW hit \in PC, NEW d \in EntryMap, LookupLocked(t, hit, d), pc[t] \notin Keyless
      PROVE  MapsTyped' /\ ThreadsTyped' /\ HeapTyped' /\ MutexTyped' /\ CallsTyped'
  <2>1. CASE Has(read.m, KeyOf(t)) /\ Use(t, read.m[KeyOf(t)], hit) /\ UNCHANGED maps
    BY <1>4, <2>1, <1>a, <1>b, <1>c, UseTyped DEF LookupLocked
  <2>2. CASE /\ MissLocked(d)
             /\ IF Has(dirty, KeyOf(t)) THEN Use(t, dirty[KeyOf(t)], hit)
                                        ELSE Finish(t, NULL)
    BY <1>4, <2>2, <1>a, <1>b, <1>c, <1>d, UseTyped, FinishTyped, MissLockedTyped
       DEF LookupLocked
  <2>3. CASE Finish(t, NULL) /\ UNCHANGED maps
    BY <1>4, <2>3, <1>a, <1>d, FinishTyped DEF LookupLocked
  <2> QED BY <1>4, <2>1, <2>2, <2>3 DEF LookupLocked
<1>5. CASE LoadRead(t)
  BY <1>3, <1>5 DEF LoadRead, PC, Keyless
<1>6. CASE LoadLocked(t)
  BY <1>4, <1>6 DEF LoadLocked, PC, Keyless, MapsTyped
<1>7. CASE LoadEntry(t)
  BY <1>7, <1>a, EntryLoadTyped, FinishTyped DEF LoadEntry
<1>8. CASE LoadAndDeleteRead(t)
  BY <1>3, <1>8 DEF LoadAndDeleteRead, PC, Keyless
<1>9. CASE LoadAndDeleteLocked(t)
  <2>1. [dirty EXCEPT ![KeyOf(t)] = NoEntry] \in EntryMap
    BY DEF MapsTyped, EntryMap
  <2> QED BY <1>4, <1>9, <2>1 DEF LoadAndDeleteLocked, PC, Keyless
<1>10. CASE LoadAndDeleteEntry(t)
  BY <1>10, <1>a, <1>d, EntryLoadTyped, FinishTyped, EntrySwapTyped
     DEF LoadAndDeleteEntry
<1>11. ASSUME NEW next \in PC, UnexpungeLocked(t, next), pc[t] \notin Keyless
       PROVE  MapsTyped' /\ ThreadsTyped' /\ HeapTyped' /\ MutexTyped' /\ CallsTyped'
  <2>1. MapsTyped'
    BY <1>11, <1>b, <1>c DEF UnexpungeLocked, MapsTyped, EntryMap
  <2>2. ThreadsTyped'
    BY <1>11, <1>b, <1>c, UseTyped DEF UnexpungeLocked
  <2>3. HeapTyped' /\ MutexTyped'
    BY <1>11 DEF UnexpungeLocked, HeapTyped, MutexTyped
  <2> QED BY <1>11, <1>a, <2>1, <2>2, <2>3 DEF UnexpungeLocked
<1>12. ASSUME NEW d \in EntryMap, InsertNew(t, d), Calling(t)
       PROVE  /\ dirty' \in EntryMap /\ misses' \in Nat
              /\ ThreadsTyped' /\ HeapTyped' /\ CallsTyped'
  <2>1. dirty' \in EntryMap /\ misses' \in Nat
    BY <1>12, <1>c DEF InsertNew, EntryMap, MapsTyped
  <2>2. ThreadsTyped'
    BY <1>12, <1>c, <1>d, FinishTyped DEF InsertNew
  <2>3. HeapTyped'
    BY <1>12, <1>c DEF InsertNew, HeapTyped
  <2> QED BY <1>12, <1>a, <2>1, <2>2, <2>3 DEF InsertNew
<1>13. ASSUME NewKeyLocked(t), Calling(t)
       PROVE  MapsTyped' /\ ThreadsTyped' /\ HeapTyped' /\ MutexTyped' /\ CallsTyped'
  <2>1. CASE InsertNew(t, dirty) /\ UNCHANGED <<read, holder, fresh, iter>>
    BY <1>12, <1>13, <2>1, <1>a DEF MapsTyped
  <2>2. CASE ~read.amended /\ Goto(t, "dirty_locked")
    <3>1. dirty \in EntryMap /\ read.m \in EntryMap
      BY ReadTyped DEF MapsTyped
    <3>2. UNCHANGED <<maps, p, heap, ncalls, call, ent, out>>
          /\ holder' = t /\ fresh' = dirty
          /\ iter' = [iter EXCEPT ![t] = IF dirty = NoEntries THEN read.m ELSE NoEntries]
      BY <1>13, <2>2 DEF NewKeyLocked
    <3>3. MutexTyped'
      BY <3>1, <3>2, NoEntriesTyped DEF MutexTyped
    <3>4. ThreadsTyped'
      BY <2>2, <3>2, GotoTyped DEF PC
    <3> QED BY <1>a, <3>2, <3>3, <3>4
  <2> QED BY <1>13, <2>1, <2>2 DEF NewKeyLocked
<1>14. CASE StoreRead(t)
  BY <1>14, <1>a, <1>b, <1>c, UseTyped, GotoTyped DEF StoreRead, PC, Keyless
<1>15. CASE StoreTry(t)
  <2>1. BoxOf(t) \in Result
    BY <1>15, <1>c, <1>d DEF StoreTry, Calling
  <2> QED BY <1>15, <2>1, <1>a, <1>d, GotoTyped, FinishTyped, EntrySwapTyped
          DEF StoreTry, PC
<1>16. CASE StoreLocked(t)
  <2>1. Calling(t) /\ pc[t] \notin Keyless /\ BoxOf(t) \in Result
    BY <1>16, <1>c, <1>d DEF StoreLocked, Calling, Keyless
  <2>2. CASE UnexpungeLocked(t, "store_swap")
    BY <2>1, <2>2, <1>11 DEF PC
  <2>3. CASE NewKeyLocked(t)
    BY <2>1, <2>3, <1>13
  <2>4. CASE /\ EntrySwap(dirty[KeyOf(t)], BoxOf(t)) /\ Finish(t, NULL)
             /\ UNCHANGED <<maps, holder, fresh, ncalls, call, iter>>
    BY <2>1, <2>4, <1>a, <1>d, FinishTyped, EntrySwapTyped
  <2> QED BY <1>16, <2>2, <2>3, <2>4 DEF StoreLocked
<1>17. CASE StoreSwap(t)
  <2>1. BoxOf(t) \in Result
    BY <1>17, <1>c, <1>d DEF StoreSwap, Calling
  <2>2. MutexTyped'
    BY <1>17 DEF StoreSwap, MutexTyped
  <2> QED BY <1>17, <2>1, <2>2, <1>a, <1>d, FinishTyped, EntrySwapTyped DEF StoreSwap
<1>18. CASE DirtyLockedExpunge(t)
  <2>1. PICK k \in KeysIn(iter[t]) :
          /\ IF Live(p[iter[t][k]])
             THEN fresh' = [fresh EXCEPT ![k] = iter[t][k]] /\ UNCHANGED p
             ELSE p' = [p EXCEPT ![iter[t][k]] = EXPUNGED] /\ UNCHANGED fresh
          /\ iter' = [iter EXCEPT ![t][k] = NoEntry]
    BY <1>18 DEF DirtyLockedExpunge
  <2>2. k \in Key /\ iter[t] \in EntryMap /\ iter[t][k] \in Call \cup {NoEntry}
    BY <2>1 DEF KeysIn, MutexTyped, EntryMap
  <2>3. MutexTyped' /\ HeapTyped'
    BY <1>18, <2>1, <2>2 DEF DirtyLockedExpunge, MutexTyped, HeapTyped, EntryMap
  <2>4. ThreadsTyped'
    BY <1>18 DEF DirtyLockedExpunge, ThreadsTyped
  <2> QED BY <1>18, <1>a, <2>3, <2>4 DEF DirtyLockedExpunge
<1>19. CASE DirtyLockedAmend(t)
  <2>1. Calling(t) /\ fresh \in EntryMap
    BY <1>19 DEF DirtyLockedAmend, Calling, MutexTyped
  <2>2. MapsTyped' /\ MutexTyped'
    BY <1>12, <1>19, <2>1, NoEntriesTyped DEF DirtyLockedAmend, MapsTyped, MutexTyped
  <2> QED BY <1>12, <1>19, <2>1, <2>2 DEF DirtyLockedAmend
<1>20. CASE LoadOrStoreRead(t)
  BY <1>20, <1>a, <1>b, <1>c, UseTyped, GotoTyped DEF LoadOrStoreRead, PC, Keyless
<1>21. CASE LoadOrStoreTry(t)
  <2>1. BoxOf(t) \in Call /\ heap' \subseteq Call
    BY <1>21, <1>c DEF LoadOrStoreTry, Calling, HeapTyped
  <2> QED BY <1>21, <2>1, <1>a, GotoTyped, FinishTyped, EntryLoadTyped,
             TryLoadOrStoreTyped DEF LoadOrStoreTry, PC
<1>22. CASE LoadOrStoreLocked(t)
  <2>1. Calling(t) /\ pc[t] \notin Keyless /\ BoxOf(t) \in Call
    BY <1>22, <1>c DEF LoadOrStoreLocked, Calling, Keyless
  <2>2. CASE UnexpungeLocked(t, "los_retry")
    BY <2>1, <2>2, <1>11 DEF PC
  <2>3. CASE NewKeyLocked(t)
    BY <2>1, <2>3, <1>13
  <2>4. CASE /\ TryLoadOrStore(dirty[KeyOf(t)], BoxOf(t)) /\ holder' = t
             /\ Answer(t, EntryLoad(dirty[KeyOf(t)]), "los_miss")
             /\ UNCHANGED <<maps, fresh, heap, ncalls, call, iter>>
    <3>1. heap' \subseteq Call /\ MutexTyped'
      BY <2>4 DEF HeapTyped, MutexTyped
    <3> QED BY <2>1, <2>4, <3>1, <1>a, AnswerTyped, EntryLoadTyped,
               TryLoadOrStoreTyped DEF PC
  <2> QED BY <1>22, <2>2, <2>3, <2>4 DEF LoadOrStoreLocked
<1>23. CASE LoadOrStoreRetry(t)
  <2>1. BoxOf(t) \in Call /\ heap' \subseteq Call /\ MutexTyped'
    BY <1>23, <1>c DEF LoadOrStoreRetry, Calling, HeapTyped, MutexTyped
  <2> QED BY <1>23, <2>1, <1>a, FinishTyped, EntryLoadTyped, TryLoadOrStoreTyped
          DEF LoadOrStoreRetry
<1>24. CASE LoadOrStoreMiss(t)
  <2>1. MapsTyped'
    BY <1>24, MissLockedTyped DEF LoadOrStoreMiss, MapsTyped
  <2>2. HeapTyped' /\ MutexTyped' /\ ThreadsTyped'
    BY <1>24, GotoTyped DEF LoadOrStoreMiss, HeapTyped, MutexTyped, PC
  <2> QED BY <1>24, <1>a, <2>1, <2>2 DEF LoadOrStoreMiss
<1>25. ASSUME NEW m \in EntryMap, IterateOver(t, m), UNCHANGED <<holder, fresh, ent, out>>
       PROVE  MutexTyped' /\ ThreadsTyped'
  BY <1>25, GotoTyped DEF IterateOver, MutexTyped, PC
<1>26. CASE RangeRead(t)
  BY <1>25, <1>26, <1>a, ReadTyped, GotoTyped DEF RangeRead, PC, MutexTyped
<1>27. CASE RangeLocked(t)
  <2>1. MapsTyped'
    BY <1>27, PromoteTyped, MapsFrame DEF RangeLocked, MapsTyped
  <2>2. read'.m \in EntryMap
    BY <2>1 DEF MapsTyped
  <2> QED BY <1>25, <1>27, <1>a, <2>1, <2>2 DEF RangeLocked
<1>28. CASE RangeEntry(t)
  <2>1. PICK k \in KeysIn(iter[t]) :
          /\ out' = [out EXCEPT ![t][k] = EntryLoad(iter[t][k])]
          /\ iter' = [iter EXCEPT ![t][k] = NoEntry]
    BY <1>28 DEF RangeEntry
  <2>2. ThreadsTyped'
    BY <1>28, <2>1, EntryLoadTyped DEF RangeEntry, ThreadsTyped
  <2>3. MutexTyped'
    BY <1>28, <2>1 DEF RangeEntry, MutexTyped, EntryMap
  <2> QED BY <1>28, <1>a, <2>2, <2>3 DEF RangeEntry
<1>29. CASE RangeEnd(t)
  BY <1>29, <1>a, GotoTyped DEF RangeEnd, PC
<1> QED BY <1>1, <1>2, <1>5, <1>6, <1>7, <1>8, <1>9, <1>10, <1>14, <1>15, <1>16,
  <1>17, <1>18, <1>19, <1>20, <1>21, <1>22, <1>23, <1>24, <1>26, <1>27, <1>28,
  <1>29 DEF Step

-----------------------------------------------------------------------------
(***************************************************************************)
(* What a step of thread t leaves alone, and where it may go.              *)
(***************************************************************************)
Frame(t) ==
  \A u \in Thread \ {t} :
    /\ pc'[u] = pc[u] /\ call'[u] = call[u]
    /\ ent'[u] = ent[u] /\ iter'[u] = iter[u]

Actions(t) ==
  \/ LoadRead(t) \/ LoadLocked(t) \/ LoadEntry(t)
  \/ LoadAndDeleteRead(t) \/ LoadAndDeleteLocked(t) \/ LoadAndDeleteEntry(t)
  \/ StoreRead(t) \/ StoreTry(t) \/ StoreLocked(t) \/ StoreSwap(t)
  \/ DirtyLockedExpunge(t) \/ DirtyLockedAmend(t)
  \/ LoadOrStoreRead(t) \/ LoadOrStoreTry(t) \/ LoadOrStoreLocked(t)
  \/ LoadOrStoreRetry(t) \/ LoadOrStoreMiss(t)
  \/ RangeRead(t) \/ RangeLocked(t) \/ RangeEntry(t) \/ RangeEnd(t)

\* A step of t changes what belongs to t and to no other thread.
LEMMA StepFrame ==
  ASSUME TypeOK, NEW t \in Thread, Invoke(t) \/ Step(t)
  PROVE  Frame(t)
<1> USE DEF TypeOK, Frame, Goto, Use, Answer, Finish
<1>1. CASE Invoke(t) \/ Return(t)
  BY <1>1 DEF Invoke, Return
<1>2. CASE LoadRead(t) \/ LoadAndDeleteRead(t) \/ StoreRead(t) \/ LoadOrStoreRead(t)
  BY <1>2 DEF LoadRead, LoadAndDeleteRead, StoreRead, LoadOrStoreRead, LookupRead
<1>3. CASE LoadLocked(t) \/ LoadAndDeleteLocked(t)
  BY <1>3 DEF LoadLocked, LoadAndDeleteLocked, LookupLocked
<1>4. CASE LoadEntry(t) \/ LoadAndDeleteEntry(t) \/ StoreTry(t) \/ StoreSwap(t)
  BY <1>4 DEF LoadEntry, LoadAndDeleteEntry, StoreTry, StoreSwap
<1>5. CASE StoreLocked(t) \/ LoadOrStoreLocked(t)
  BY <1>5 DEF StoreLocked, LoadOrStoreLocked, UnexpungeLocked, NewKeyLocked, InsertNew
<1>6. CASE DirtyLockedExpunge(t) \/ DirtyLockedAmend(t)
  BY <1>6 DEF DirtyLockedExpunge, DirtyLockedAmend, InsertNew
<1>7. CASE LoadOrStoreTry(t) \/ LoadOrStoreRetry(t) \/ LoadOrStoreMiss(t)
  BY <1>7 DEF LoadOrStoreTry, LoadOrStoreRetry, LoadOrStoreMiss
<1>8. CASE RangeRead(t) \/ RangeLocked(t) \/ RangeEntry(t) \/ RangeEnd(t)
  BY <1>8 DEF RangeRead, RangeLocked, RangeEntry, RangeEnd, IterateOver
<1> QED BY <1>1, <1>2, <1>3, <1>4, <1>5, <1>6, <1>7, <1>8 DEF Step

\* A step inside a call keeps the call; a call that has used its key or
\* inserted its entry does so no more.
LEMMA CallStep ==
  ASSUME TypeOK, NEW t \in Thread, Actions(t)
  PROVE  /\ UNCHANGED <<call, ncalls>>
         /\ Calling(t)
         /\ pc'[t] \notin Keyless => pc[t] \notin Keyless
         /\ pc'[t] \in MayInsert => pc[t] \in MayInsert
<1> USE DEF TypeOK, Goto, Use, Answer, Finish, Calling, Keyless, MayInsert
<1>2. CASE LoadRead(t) \/ LoadAndDeleteRead(t) \/ StoreRead(t) \/ LoadOrStoreRead(t)
  BY <1>2 DEF LoadRead, LoadAndDeleteRead, StoreRead, LoadOrStoreRead, LookupRead
<1>3. CASE LoadLocked(t) \/ LoadAndDeleteLocked(t)
  BY <1>3 DEF LoadLocked, LoadAndDeleteLocked, LookupLocked
<1>4. CASE LoadEntry(t) \/ LoadAndDeleteEntry(t) \/ StoreTry(t) \/ StoreSwap(t)
  BY <1>4 DEF LoadEntry, LoadAndDeleteEntry, StoreTry, StoreSwap
<1>5. CASE StoreLocked(t) \/ LoadOrStoreLocked(t)
  BY <1>5 DEF StoreLocked, LoadOrStoreLocked, UnexpungeLocked, NewKeyLocked, InsertNew
<1>6. CASE DirtyLockedExpunge(t) \/ DirtyLockedAmend(t)
  BY <1>6 DEF DirtyLockedExpunge, DirtyLockedAmend, InsertNew
<1>7. CASE LoadOrStoreTry(t) \/ LoadOrStoreRetry(t) \/ LoadOrStoreMiss(t)
  BY <1>7 DEF LoadOrStoreTry, LoadOrStoreRetry, LoadOrStoreMiss
<1>8. CASE RangeRead(t) \/ RangeLocked(t) \/ RangeEntry(t) \/ RangeEnd(t)
  BY <1>8 DEF RangeRead, RangeLocked, RangeEntry, RangeEnd, IterateOver
<1> QED BY <1>2, <1>3, <1>4, <1>5, <1>6, <1>7, <1>8 DEF Actions

\* Every step keeps the numbers of the calls distinct.
LEMMA CallsDistinctStep ==
  ASSUME TypeOK, CallsDistinct, NEW t \in Thread, Invoke(t) \/ Step(t)
  PROVE  CallsDistinct'
<1>1. Frame(t)
  BY StepFrame
<1>2. CASE Actions(t)
  BY <1>1, <1>2, CallStep DEF CallsDistinct, Frame, Calling, BoxOf, KeyOf
<1>3. CASE Return(t)
  BY <1>1, <1>3 DEF Return, Goto, TypeOK, CallsDistinct, Frame, Calling, BoxOf, KeyOf, Keyless
<1>4. CASE Invoke(t)
  <2>1. PICK o \in Ops, k \in Key \cup {NoKey} :
          /\ (k = NoKey) <=> (o = "range")
          /\ call' = [call EXCEPT ![t] = [op |-> o, key |-> k, id |-> ncalls + 1]]
          /\ Goto(t, o)
    BY <1>4 DEF Invoke
  <2>2. /\ BoxOf(t)' = ncalls + 1 /\ KeyOf(t)' = k
        /\ pc'[t] = o /\ ncalls' = ncalls + 1 /\ ncalls \in Nat
    BY <1>4, <2>1 DEF Invoke, TypeOK, Goto, BoxOf, KeyOf
  <2>3. \A u \in Thread \ {t} : BoxOf(u)' = BoxOf(u) /\ KeyOf(u)' = KeyOf(u)
                                /\ pc'[u] = pc[u]
    BY <1>1 DEF Frame, BoxOf, KeyOf
  <2>4. \A u \in Thread : Calling(u) => BoxOf(u) \in 1 .. ncalls
    BY DEF CallsDistinct
  <2>5. \A u \in Thread : Calling(u)' => BoxOf(u)' \in 1 .. ncalls'
    BY <2>2, <2>3, <2>4 DEF Calling
  <2>6. \A u \in Thread : pc'[u] \notin Keyless => KeyOf(u)' \in Key
    BY <2>1, <2>2, <2>3 DEF CallsDistinct, Keyless
  <2>7. \A u, v \in Thread :
          Calling(u)' /\ Calling(v)' /\ BoxOf(u)' = BoxOf(v)' => u = v
    BY <2>2, <2>3, <2>4 DEF CallsDistinct, Calling
  <2> QED BY <2>5, <2>6, <2>7 DEF CallsDistinct
<1> QED BY <1>2, <1>3, <1>4 DEF Step, Actions

-----------------------------------------------------------------------------
(***************************************************************************)
(* Mutual exclusion.                                                       *)
(***************************************************************************)

\* A step of t leaves the mutex alone and stays on its side of it, takes it
\* when it is free, or releases it.
LEMMA HolderStep ==
  ASSUME TypeOK, NEW t \in Thread, Invoke(t) \/ Step(t)
  PROVE  \/ /\ UNCHANGED holder
            /\ pc'[t] \in InCriticalSection <=> pc[t] \in InCriticalSection
         \/ holder = NoThread /\ holder' = t /\ pc'[t] \in InCriticalSection
         \/ /\ holder' = NoThread /\ pc[t] \in InCriticalSection
            /\ pc'[t] \notin InCriticalSection
<1> USE ConstantsAssumption DEF TypeOK, Goto, Use, Answer, Finish, InCriticalSection, Op
<1>1. CASE Invoke(t) \/ Return(t)
  BY <1>1 DEF Invoke, Return
<1>2. CASE LoadRead(t) \/ LoadAndDeleteRead(t) \/ StoreRead(t) \/ LoadOrStoreRead(t)
  BY <1>2 DEF LoadRead, LoadAndDeleteRead, StoreRead, LoadOrStoreRead, LookupRead
<1>3. CASE LoadLocked(t) \/ LoadAndDeleteLocked(t)
  BY <1>3 DEF LoadLocked, LoadAndDeleteLocked, LookupLocked
<1>4. CASE LoadEntry(t) \/ LoadAndDeleteEntry(t) \/ StoreTry(t) \/ StoreSwap(t)
  BY <1>4 DEF LoadEntry, LoadAndDeleteEntry, StoreTry, StoreSwap
<1>5. CASE StoreLocked(t) \/ LoadOrStoreLocked(t)
  BY <1>5 DEF StoreLocked, LoadOrStoreLocked, UnexpungeLocked, NewKeyLocked, InsertNew
<1>6. CASE DirtyLockedExpunge(t) \/ DirtyLockedAmend(t)
  BY <1>6 DEF DirtyLockedExpunge, DirtyLockedAmend, InsertNew
<1>7. CASE LoadOrStoreTry(t) \/ LoadOrStoreRetry(t) \/ LoadOrStoreMiss(t)
  BY <1>7 DEF LoadOrStoreTry, LoadOrStoreRetry, LoadOrStoreMiss
<1>8. CASE RangeRead(t) \/ RangeLocked(t) \/ RangeEntry(t) \/ RangeEnd(t)
  BY <1>8 DEF RangeRead, RangeLocked, RangeEntry, RangeEnd, IterateOver
<1> QED BY <1>1, <1>2, <1>3, <1>4, <1>5, <1>6, <1>7, <1>8 DEF Step

\* Every step keeps the mutual exclusion on dirty.
LEMMA OneHolderStep ==
  ASSUME TypeOK, OneHolder, NEW t \in Thread, Invoke(t) \/ Step(t)
  PROVE  OneHolder'
BY StepFrame, HolderStep, ConstantsAssumption DEF Frame, OneHolder

-----------------------------------------------------------------------------
(***************************************************************************)
(* The relation of read, dirty and the expunged marks.  Each lemma takes   *)
(* one kind of change.                                                     *)
(***************************************************************************)
SharedInv == EntriesDistinct /\ NotExpunged /\ RebuildOK /\ DirtyMirrorsRead

Expunged(e) == p[e] = EXPUNGED

\* Values come and go, but no entry is expunged, unexpunged or moved.
KeepsMarks ==
  /\ UNCHANGED <<read, dirty, fresh>>
  /\ \A e \in Call : Expunged(e)' <=> Expunged(e)

\* t is neither inside dirtyLocked nor about to use an entry it unexpunged,
\* now, unless it was before and has moved in neither.
KeepsPlace(t) ==
  /\ pc'[t] = "dirty_locked" => pc[t] = "dirty_locked" /\ iter'[t] = iter[t]
  /\ pc[t] = "dirty_locked" => pc'[t] = "dirty_locked"
  /\ pc'[t] \in {"store_swap", "los_retry"} => pc'[t] = pc[t] /\ ent'[t] = ent[t]

\* What t may still insert, it could before.
KeepsInserts(t) ==
  /\ UNCHANGED <<call, ncalls>>
  /\ pc'[t] \in MayInsert => pc[t] \in MayInsert

\* The entries that the maps and the threads refer to.
LEMMA EntryTypes ==
  ASSUME TypeOK
  PROVE  /\ \A k \in Key : read.m[k] \in Call \cup {NoEntry}
         /\ \A k \in Key : dirty[k] \in Call \cup {NoEntry}
         /\ \A k \in Key : fresh[k] \in Call \cup {NoEntry}
         /\ \A t \in Thread, k \in Key : iter[t][k] \in Call \cup {NoEntry}
         /\ read.amended \in BOOLEAN
         /\ NoEntry \notin Call
BY DEF TypeOK, EntryMap, Call, NoEntry

\* A step that marks, unmarks and moves no entry keeps the invariant.
LEMMA KeepsMarksStep ==
  ASSUME TypeOK, SharedInv, NEW t \in Thread, Frame(t), KeepsMarks,
         KeepsPlace(t), KeepsInserts(t)
  PROVE  SharedInv'
<1> USE EntryTypes DEF SharedInv, KeepsMarks, Expunged
<1>1. EntriesDistinct'
  BY DEF EntriesDistinct, Under, KeepsInserts, Frame, BoxOf
<1>2. NotExpunged'
  BY DEF NotExpunged, Has, KeepsPlace, Frame
<1>3. RebuildOK'
  <2> SUFFICES ASSUME NEW u \in Thread, pc'[u] = "dirty_locked"
               PROVE  Rebuilding(u)'
    BY DEF RebuildOK
  <2>1. pc[u] = "dirty_locked" /\ iter'[u] = iter[u] /\ KeyOf(u)' = KeyOf(u)
    BY DEF Frame, KeepsPlace, KeepsInserts, KeyOf
  <2>2. Rebuilding(u)
    BY <2>1 DEF RebuildOK
  <2> QED BY <2>1, <2>2 DEF Rebuilding, Has
<1>4. DirtyMirrorsRead'
  BY DEF DirtyMirrorsRead, Has, Frame, KeepsPlace
<1> QED BY <1>1, <1>2, <1>3, <1>4

\* A lookup, a miss or a promotion: an entry that is not in read may leave
\* dirty, and what is in dirty may become read.
LEMMA PublishStep ==
  ASSUME TypeOK, SharedInv, NEW t \in Thread, Frame(t), UNCHANGED p,
         \A u \in Thread : pc[u] # "dirty_locked" /\ pc'[u] # "dirty_locked",
         KeepsInserts(t),
         pc'[t] \notin {"store_swap", "los_retry"},
         NEW d, \A k \in Key : d[k] = dirty[k] \/ (d[k] = NoEntry /\ ~Has(read.m, k)),
         \/ Promote(d)
         \/ read.amended /\ dirty' = d /\ UNCHANGED read
  PROVE  SharedInv'
<1> USE EntryTypes DEF SharedInv
<1>1. CASE Promote(d)
  <2>1. read'.m = d /\ ~read'.amended /\ dirty' = NoEntries
    BY <1>1 DEF Promote
  <2>2. \A e \in Call, k \in Key : Under(e, k)' => Under(e, k)
    BY <2>1 DEF Under, NoEntries
  <2>3. EntriesDistinct'
    BY <2>2 DEF EntriesDistinct, KeepsInserts, Frame, BoxOf
  <2>4. NotExpunged'
    BY <2>1 DEF NotExpunged, Has, NoEntries, Frame
  <2>5. DirtyMirrorsRead'
    BY <2>1 DEF NotExpunged, DirtyMirrorsRead, Has
  <2> QED BY <2>3, <2>4, <2>5 DEF RebuildOK
<1>2. CASE read.amended /\ dirty' = d /\ UNCHANGED read
  <2>1. \A e \in Call, k \in Key : Under(e, k)' => Under(e, k)
    BY <1>2 DEF Under
  <2>2. EntriesDistinct'
    BY <2>1 DEF EntriesDistinct, KeepsInserts, Frame, BoxOf
  <2>3. NotExpunged'
    BY <1>2 DEF NotExpunged, Has, Frame
  <2>4. DirtyMirrorsRead'
    BY <1>2 DEF DirtyMirrorsRead, Has
  <2> QED BY <2>2, <2>3, <2>4 DEF RebuildOK
<1> QED BY <1>1, <1>2

\* An entry of read is unexpunged under the mutex and put back in dirty.
LEMMA UnexpungeStep ==
  ASSUME TypeOK, SharedInv, OneHolder, NEW t \in Thread, Frame(t), KeepsInserts(t),
         KeyOf(t) \in Key, NEW next \in {"store_swap", "los_retry"},
         UnexpungeLocked(t, next)
  PROVE  SharedInv'
<1> USE EntryTypes DEF SharedInv, Expunged
<1> DEFINE k == KeyOf(t)
           e == read.m[k]
<1>1. /\ holder = NoThread /\ e \in Call
      /\ UNCHANGED <<read, fresh>> /\ pc'[t] = next /\ ent'[t] = e
      /\ IF p[e] = EXPUNGED THEN /\ p' = [p EXCEPT ![e] = NULL]
                                 /\ dirty' = [dirty EXCEPT ![k] = e]
                            ELSE UNCHANGED <<p, dirty>>
  BY DEF UnexpungeLocked, Use, Goto, TypeOK, Has
<1>2. \A u \in Thread : pc[u] # "dirty_locked" /\ pc'[u] # "dirty_locked"
  BY <1>1, ConstantsAssumption DEF OneHolder, InCriticalSection, Frame
<1>3. CASE p[e] # EXPUNGED
  <2>1. EntriesDistinct'
    BY <1>1, <1>3 DEF EntriesDistinct, Under, KeepsInserts, Frame, BoxOf
  <2>2. NotExpunged'
    BY <1>1, <1>3, ConstantsAssumption
       DEF NotExpunged, Has, Frame, OneHolder, InCriticalSection
  <2>3. DirtyMirrorsRead'
    BY <1>1, <1>2, <1>3 DEF DirtyMirrorsRead, Has
  <2> QED BY <1>2, <2>1, <2>2, <2>3 DEF RebuildOK
<1>4. CASE p[e] = EXPUNGED
  <2>0. read.amended
    BY <1>1, <1>2, <1>4 DEF DirtyMirrorsRead, Has
  <2>1. /\ \A k2 \in Key \ {k} : dirty'[k2] = dirty[k2]
        /\ dirty'[k] = e
        /\ \A e2 \in Call \ {e} : p'[e2] = p[e2]
        /\ p'[e] = NULL
    BY <1>1, <1>4 DEF TypeOK, EntryMap
  <2>2. \A e2 \in Call, k2 \in Key : Under(e2, k2)' => Under(e2, k2)
    BY <1>1, <2>1 DEF Under
  <2>3. EntriesDistinct'
    BY <2>2 DEF EntriesDistinct, KeepsInserts, Frame, BoxOf
  <2>4. NotExpunged'
    BY <1>1, <2>1, ConstantsAssumption
       DEF NotExpunged, Has, Frame, OneHolder, InCriticalSection, NULL, EXPUNGED
  <2>5. \A k2 \in Key \ {k} : read.m[k2] # e
    BY <1>1 DEF EntriesDistinct, Under
  <2>6. DirtyMirrorsRead'
    BY <1>1, <2>0, <2>1, <2>5 DEF DirtyMirrorsRead, Has, NULL, EXPUNGED
  <2> QED BY <1>2, <2>3, <2>4, <2>6 DEF RebuildOK
<1> QED BY <1>3, <1>4

\* A new entry goes into dirty while read is, or becomes, amended.
LEMMA InsertStep ==
  ASSUME TypeOK, SharedInv, CallsDistinct, NEW t \in Thread, Frame(t),
         UNCHANGED <<call, ncalls>>, pc[t] \in MayInsert, pc'[t] = "done",
         KeyOf(t) \in Key, ~Has(read.m, KeyOf(t)),
         \A u \in Thread : pc'[u] # "dirty_locked",
         NEW d \in EntryMap,
         \A k \in Key : Has(d, k) => (~Has(read.m, k) /\ d[k] = dirty[k])
                                     \/ d[k] = read.m[k],
         \A k \in Key : Has(d, k) => ~Expunged(d[k]),
         \A k \in Key : Has(read.m, k) =>
           d[k] = IF Expunged(read.m[k]) THEN NoEntry ELSE read.m[k],
         dirty' = [d EXCEPT ![KeyOf(t)] = BoxOf(t)],
         p' = [p EXCEPT ![BoxOf(t)] = BoxOf(t)],
         read'.m = read.m, read'.amended = TRUE
  PROVE  SharedInv'
<1> USE EntryTypes DEF SharedInv, Expunged
<1> DEFINE k == KeyOf(t)
           b == BoxOf(t)
<1>1. /\ b \in Call /\ b <= ncalls /\ ncalls \in Nat
      /\ \A u \in Thread \ {t} : pc'[u] \in MayInsert => BoxOf(u)' # b
  BY CallFacts, TypeParts
     DEF CallsDistinct, Calling, MayInsert, Frame, BoxOf, TypeOK, CallsTyped
<1>2. /\ \A k2 \in Key \ {k} : dirty'[k2] = d[k2]
      /\ dirty'[k] = b
      /\ \A e \in Call \ {b} : p'[e] = p[e]
      /\ p'[b] = b /\ b # EXPUNGED
  BY <1>1 DEF TypeOK, EntryMap, Call, EXPUNGED
<1>3. \A k2 \in Key : read.m[k2] # b /\ dirty[k2] # b /\ d[k2] # b
  BY <1>1 DEF EntriesDistinct, Under, Has
<1>4. \A e \in Call, k2 \in Key : Under(e, k2)' => Under(e, k2) \/ (e = b /\ k2 = k)
  BY <1>2 DEF Under, Has
<1>5. EntriesDistinct'
  <2>1. \A e \in Call, k1, k2 \in Key : Under(e, k1)' /\ Under(e, k2)' => k1 = k2
    BY <1>3, <1>4 DEF EntriesDistinct, Under
  <2>2. \A e \in Call, k2 \in Key : Under(e, k2)' =>
          /\ e <= ncalls'
          /\ \A u \in Thread : pc'[u] \in MayInsert => BoxOf(u)' # e
    <3> SUFFICES ASSUME NEW e \in Call, NEW k2 \in Key, Under(e, k2)'
                 PROVE  /\ e <= ncalls'
                        /\ \A u \in Thread : pc'[u] \in MayInsert => BoxOf(u)' # e
      OBVIOUS
    <3>1. CASE e = b
      BY <1>1, <3>1 DEF MayInsert
    <3>2. CASE Under(e, k2)
      BY <3>2 DEF EntriesDistinct, Frame, BoxOf, MayInsert
    <3> QED BY <1>4, <3>1, <3>2
  <2> QED BY <2>1, <2>2 DEF EntriesDistinct
<1>6. NotExpunged'
  <2>1. \A k2 \in Key : Has(dirty, k2)' => p'[dirty'[k2]] # EXPUNGED
    BY <1>1, <1>2, <1>3 DEF Has, EntryMap
  <2>2. \A u \in Thread : pc'[u] \in {"store_swap", "los_retry"} =>
          ent'[u] \in Call /\ p'[ent'[u]] # EXPUNGED
    BY <1>2 DEF NotExpunged, Frame
  <2> QED BY <2>1, <2>2 DEF NotExpunged
<1>7. DirtyMirrorsRead'
  BY <1>2, <1>3 DEF DirtyMirrorsRead, Has
<1> QED BY <1>5, <1>6, <1>7 DEF RebuildOK

\* dirtyLocked begins: no entry of read is expunged yet.
LEMMA RebuildBegins ==
  ASSUME TypeOK, SharedInv, OneHolder, NEW t \in Thread, Frame(t), KeepsInserts(t),
         holder = NoThread, ~Has(read.m, KeyOf(t)), ~read.amended,
         pc'[t] = "dirty_locked", fresh' = dirty,
         iter' = [iter EXCEPT ![t] = IF dirty = NoEntries THEN read.m ELSE NoEntries],
         UNCHANGED <<read, dirty, p>>
  PROVE  SharedInv'
<1> USE EntryTypes DEF SharedInv
<1>1. \A u \in Thread : pc[u] \notin InCriticalSection
  BY ConstantsAssumption DEF OneHolder
<1>2. dirty = NoEntries /\ iter'[t] = read.m
  BY DEF DirtyMirrorsRead, TypeOK
<1>3. \A k \in Key : Has(read.m, k) => p[read.m[k]] # EXPUNGED
  BY <1>1 DEF DirtyMirrorsRead, InCriticalSection
<1>4. EntriesDistinct'
  BY DEF EntriesDistinct, Under, KeepsInserts, Frame, BoxOf
<1>5. NotExpunged'
  BY <1>1 DEF NotExpunged, Has, Frame, InCriticalSection
<1>6. Rebuilding(t)'
  BY <1>2, <1>3 DEF Rebuilding, Has, NoEntries, KeepsInserts, KeyOf
<1>7. RebuildOK'
  BY <1>1, <1>6 DEF RebuildOK, Frame, InCriticalSection
<1>8. DirtyMirrorsRead'
  BY DEF DirtyMirrorsRead, Has
<1> QED BY <1>4, <1>5, <1>7, <1>8

\* One iteration of dirtyLocked.
LEMMA RebuildIteration ==
  ASSUME TypeOK, SharedInv, OneHolder, NEW t \in Thread, Frame(t), KeepsInserts(t),
         DirtyLockedExpunge(t)
  PROVE  SharedInv'
<1> USE EntryTypes DEF SharedInv
<1>1. PICK k \in Key :
        /\ Has(iter[t], k)
        /\ IF Live(p[iter[t][k]])
           THEN fresh' = [fresh EXCEPT ![k] = iter[t][k]] /\ UNCHANGED p
           ELSE p' = [p EXCEPT ![iter[t][k]] = EXPUNGED] /\ UNCHANGED fresh
        /\ iter' = [iter EXCEPT ![t][k] = NoEntry]
  BY DEF DirtyLockedExpunge, KeysIn
<1> DEFINE e == iter[t][k]
<1>2. /\ Rebuilding(t) /\ pc[t] = "dirty_locked" /\ pc'[t] = "dirty_locked"
      /\ UNCHANGED <<read, dirty, call, ncalls, pc>>
  BY DEF RebuildOK, DirtyLockedExpunge, maps
<1>3. \A u \in Thread \ {t} : pc[u] \notin InCriticalSection
  BY <1>2 DEF OneHolder, InCriticalSection
<1>4. e \in Call /\ e = read.m[k] /\ ~read.amended /\ dirty = NoEntries
  BY <1>1, <1>2 DEF Rebuilding, Has, DirtyMirrorsRead
<1>5. \A k2 \in Key : read.m[k2] = e => k2 = k
  BY <1>4 DEF EntriesDistinct, Under, NoEntry
<1>6. /\ \A k2 \in Key \ {k} : iter'[t][k2] = iter[t][k2] /\ fresh'[k2] = fresh[k2]
      /\ iter'[t][k] = NoEntry
      /\ \A e2 \in Call \ {e} : p'[e2] = p[e2]
      /\ \/ Live(p[e]) /\ fresh'[k] = e /\ p'[e] = p[e]
         \/ fresh'[k] = fresh[k] /\ p'[e] = EXPUNGED
  BY <1>1, <1>4 DEF TypeOK, EntryMap
<1>7. EntriesDistinct'
  BY <1>2 DEF EntriesDistinct, Under, KeepsInserts, BoxOf
<1>8. NotExpunged'
  BY <1>2, <1>3, <1>4 DEF NotExpunged, Has, NoEntries, InCriticalSection
<1>9. Rebuilding(t)'
  <2>1. KeyOf(t)' = KeyOf(t)
    BY <1>2 DEF KeyOf
  <2>2. ASSUME NEW k2 \in Key, k2 # k
        PROVE  \/ ~Has(read.m, k2)' /\ ~Has(iter[t], k2)' /\ ~Has(fresh, k2)'
               \/ /\ Has(read.m, k2)' /\ iter'[t][k2] = read'.m[k2]
                  /\ ~Has(fresh, k2)' /\ p'[read'.m[k2]] # EXPUNGED
               \/ /\ Has(read.m, k2)' /\ ~Has(iter[t], k2)'
                  /\ fresh'[k2] = IF p'[read'.m[k2]] = EXPUNGED THEN NoEntry ELSE read'.m[k2]
    BY <1>2, <1>5, <1>6, <2>2 DEF Rebuilding, Has
  <2>3. /\ Has(read.m, k)' /\ ~Has(iter[t], k)'
        /\ fresh'[k] = IF p'[read'.m[k]] = EXPUNGED THEN NoEntry ELSE read'.m[k]
    BY <1>1, <1>2, <1>4, <1>6 DEF Rebuilding, Has, Live, Call, EXPUNGED
  <2> QED BY <1>2, <2>1, <2>2, <2>3 DEF Rebuilding, Has
<1>10. RebuildOK'
  BY <1>2, <1>3, <1>9 DEF RebuildOK, InCriticalSection
<1>11. DirtyMirrorsRead'
  BY <1>2, <1>4 DEF DirtyMirrorsRead, Has
<1> QED BY <1>7, <1>8, <1>10, <1>11

-----------------------------------------------------------------------------
(***************************************************************************)
(* The actions.                                                            *)
(***************************************************************************)
LEMMA InvokeReturnStep ==
  ASSUME IInv, NEW t \in Thread, Frame(t), Invoke(t) \/ Return(t)
  PROVE  SharedInv'
<1> USE EntryTypes DEF IInv
<1>1. UNCHANGED <<read, dirty, fresh, p>> /\ \A u \in Thread \ {t} : BoxOf(u)' = BoxOf(u)
  BY DEF Invoke, Return, maps, Frame, BoxOf
<1>2. \/ pc'[t] = "idle" /\ pc[t] = "done" /\ ncalls' = ncalls
      \/ pc'[t] \in Op /\ pc[t] = "idle" /\ ncalls' = ncalls + 1 /\ BoxOf(t)' = ncalls + 1
  BY ConstantsAssumption DEF Invoke, Return, Goto, TypeOK, BoxOf
<1>3. ncalls \in Nat
  BY DEF TypeOK
<1>4. EntriesDistinct'
  <2>1. \A e \in Call, k \in Key : Under(e, k)' <=> Under(e, k)
    BY <1>1 DEF Under
  <2>2. \A e \in Call, k \in Key : Under(e, k)' =>
          /\ e <= ncalls'
          /\ \A u \in Thread : pc'[u] \in MayInsert => BoxOf(u)' # e
    BY <1>1, <1>2, <1>3, <2>1 DEF EntriesDistinct, Frame, MayInsert, Call
  <2> QED BY <2>1, <2>2 DEF EntriesDistinct
<1>5. NotExpunged'
  BY <1>1, <1>2 DEF NotExpunged, Has, Frame, Op
<1>6. RebuildOK'
  <2> SUFFICES ASSUME NEW u \in Thread, pc'[u] = "dirty_locked"
               PROVE  Rebuilding(u)'
    BY DEF RebuildOK
  <2>1. u # t /\ pc[u] = "dirty_locked" /\ iter'[u] = iter[u] /\ KeyOf(u)' = KeyOf(u)
    BY <1>2 DEF Frame, KeyOf, Op
  <2>2. Rebuilding(u)
    BY <2>1 DEF RebuildOK
  <2> QED BY <1>1, <2>1, <2>2 DEF Rebuilding, Has
<1>7. DirtyMirrorsRead'
  BY <1>1, <1>2 DEF DirtyMirrorsRead, Has, Frame
<1> QED BY <1>4, <1>5, <1>6, <1>7 DEF SharedInv

\* A call that inserts its entry, in an amended read or after dirtyLocked.
LEMMA InsertNewStep ==
  ASSUME IInv, NEW t \in Thread, Frame(t), pc[t] \in MayInsert,
         \/ /\ NewKeyLocked(t) /\ read.amended /\ InsertNew(t, dirty)
            /\ UNCHANGED <<read, holder, fresh, iter>>
         \/ DirtyLockedAmend(t)
  PROVE  SharedInv'
<1> USE EntryTypes DEF IInv
<1>0. KeyOf(t) \in Key
  BY DEF CallsDistinct, MayInsert, Keyless
<1>1. CASE NewKeyLocked(t) /\ read.amended /\ InsertNew(t, dirty) /\ UNCHANGED read
  <2>1. /\ holder = NoThread /\ ~Has(read.m, KeyOf(t)) /\ pc'[t] = "done"
        /\ UNCHANGED <<call, ncalls>>
        /\ dirty' = [dirty EXCEPT ![KeyOf(t)] = BoxOf(t)]
        /\ p' = [p EXCEPT ![BoxOf(t)] = BoxOf(t)]
    BY <1>1 DEF NewKeyLocked, InsertNew, Finish, Answer, Goto, TypeOK
  <2>2. \A u \in Thread : pc'[u] # "dirty_locked"
    BY <2>1, ConstantsAssumption DEF OneHolder, InCriticalSection, Frame
  <2>3. dirty \in EntryMap
    BY DEF TypeOK
  <2>4. \A k \in Key : Has(dirty, k) => ~Expunged(dirty[k])
    BY DEF NotExpunged, Expunged
  <2>5. \A k \in Key : Has(read.m, k) =>
           dirty[k] = IF Expunged(read.m[k]) THEN NoEntry ELSE read.m[k]
    BY <1>1 DEF DirtyMirrorsRead, Expunged
  <2>6. \A k \in Key : Has(dirty, k) => (~Has(read.m, k) /\ dirty[k] = dirty[k])
                                        \/ dirty[k] = read.m[k]
    BY <2>5 DEF Has
  <2>7. read'.m = read.m /\ read'.amended = TRUE
    BY <1>1
  <2> QED BY <1>0, <2>1, <2>2, <2>3, <2>4, <2>5, <2>6, <2>7, InsertStep DEF SharedInv
<1>2. CASE DirtyLockedAmend(t)
  <2>1. Rebuilding(t) /\ iter[t] = NoEntries
    BY <1>2 DEF DirtyLockedAmend, RebuildOK
  <2>2. /\ ~Has(read.m, KeyOf(t)) /\ pc'[t] = "done"
        /\ UNCHANGED <<call, ncalls>>
        /\ dirty' = [fresh EXCEPT ![KeyOf(t)] = BoxOf(t)]
        /\ p' = [p EXCEPT ![BoxOf(t)] = BoxOf(t)]
        /\ read'.m = read.m /\ read'.amended = TRUE
    BY <1>2, <2>1 DEF DirtyLockedAmend, InsertNew, Finish, Answer, Goto, TypeOK, Rebuilding
  <2>3. \A u \in Thread : pc'[u] # "dirty_locked"
    BY <1>2, <2>2 DEF DirtyLockedAmend, OneHolder, InCriticalSection, Frame
  <2>4. fresh \in EntryMap
    BY DEF TypeOK
  <2>5. \A k \in Key : Has(read.m, k) =>
           fresh[k] = IF Expunged(read.m[k]) THEN NoEntry ELSE read.m[k]
    BY <2>1 DEF Rebuilding, Has, NoEntries, Expunged
  <2>6. \A k \in Key : Has(fresh, k) => /\ fresh[k] = read.m[k]
                                        /\ ~Expunged(fresh[k])
    BY <2>1, <2>5 DEF Rebuilding, Has, NoEntries
  <2>7. /\ \A k \in Key : Has(fresh, k) =>
             (~Has(read.m, k) /\ fresh[k] = dirty[k]) \/ fresh[k] = read.m[k]
        /\ \A k \in Key : Has(fresh, k) => ~Expunged(fresh[k])
    BY <2>6
  <2> HIDE DEF IInv
  <2>8. TypeOK /\ SharedInv /\ CallsDistinct
    BY DEF IInv, SharedInv
  <2> QED BY <1>0, <2>2, <2>3, <2>4, <2>5, <2>7, <2>8, InsertStep
<1> QED BY <1>1, <1>2

\* The steps that change no map and mark no entry.
LEMMA QuietStep ==
  ASSUME IInv, NEW t \in Thread, Frame(t), Actions(t), KeepsMarks, KeepsPlace(t)
  PROVE  SharedInv'
BY CallStep, KeepsMarksStep DEF IInv, SharedInv, KeepsInserts

\* Steps on neither maps nor pointers mark no entry.
LEMMA SameEntries ==
  ASSUME UNCHANGED <<maps, p, fresh>>
  PROVE  KeepsMarks
BY DEF KeepsMarks, maps, Expunged

\* A swap into an entry that is not expunged marks none,
LEMMA SwapMarks ==
  ASSUME TypeOK, NEW e, ~Expunged(e), NEW b \in Call \cup {NULL}, EntrySwap(e, b),
         UNCHANGED <<maps, fresh>>
  PROVE  KeepsMarks
BY DEF KeepsMarks, maps, Expunged, EntrySwap, TypeOK, Call, NULL, EXPUNGED

\* and try_load_or_store marks none.
LEMMA TryMarks ==
  ASSUME TypeOK, NEW e, NEW b \in Call, TryLoadOrStore(e, b), UNCHANGED <<maps, fresh>>
  PROVE  KeepsMarks
BY DEF KeepsMarks, maps, Expunged, TryLoadOrStore, TypeOK, Call, NULL, EXPUNGED

\* The look-up under the mutex that load and load_and_delete share.
LEMMA LookupLockedStep ==
  ASSUME IInv, NEW t \in Thread, Frame(t), Actions(t), NEW d,
         \A k \in Key : d[k] = dirty[k] \/ (d[k] = NoEntry /\ ~Has(read.m, k)),
         NEW hit \in {"load_entry", "lad_entry"}, LookupLocked(t, hit, d)
  PROVE  SharedInv'
<1>1. UNCHANGED <<p, fresh, iter>> /\ holder = NoThread
  BY DEF LookupLocked
<1>2. pc'[t] \in {"load_entry", "lad_entry", "done"}
  BY DEF LookupLocked, Use, Finish, Answer, Goto, IInv, TypeOK
<1>3. \A u \in Thread : pc[u] # "dirty_locked" /\ pc'[u] # "dirty_locked"
  BY <1>1, <1>2, ConstantsAssumption DEF IInv, OneHolder, InCriticalSection, Frame
<1>4. CASE UNCHANGED maps
  BY <1>1, <1>2, <1>3, <1>4, QuietStep, SameEntries DEF KeepsPlace
<1>5. CASE MissLocked(d) /\ read.amended
  <2>1. Promote(d) \/ (read.amended /\ dirty' = d /\ UNCHANGED read)
    BY <1>5 DEF MissLocked
  <2> QED BY <1>1, <1>2, <1>3, <2>1, CallStep, PublishStep
          DEF IInv, SharedInv, KeepsInserts
<1> QED BY <1>4, <1>5 DEF LookupLocked

\* Every step keeps the relation between the maps and the entries.
LEMMA SharedStep ==
  ASSUME IInv, NEW t \in Thread, Invoke(t) \/ Step(t)
  PROVE  SharedInv'
<1>0. /\ TypeOK /\ Frame(t)
      /\ Actions(t) => /\ KeepsInserts(t) /\ BoxOf(t) \in Call
                       /\ pc[t] \notin Keyless => KeyOf(t) \in Key
  BY StepFrame, CallStep, CallFacts, TypeParts DEF IInv, KeepsInserts
<1> USE <1>0
<1>1. CASE Invoke(t) \/ Return(t)
  BY <1>1, InvokeReturnStep
<1>2. CASE LoadRead(t) \/ LoadAndDeleteRead(t) \/ StoreRead(t) \/ LoadOrStoreRead(t)
  <2>1. UNCHANGED <<maps, p, fresh, iter>> /\ KeepsPlace(t)
    BY <1>2 DEF LoadRead, LoadAndDeleteRead, StoreRead, LoadOrStoreRead, LookupRead,
       Use, Finish, Answer, Goto, KeepsPlace, TypeOK
  <2> QED BY <1>2, <2>1, SameEntries, QuietStep DEF Actions
<1>3. CASE LoadLocked(t)
  BY <1>3, LookupLockedStep DEF LoadLocked, Actions
<1>4. CASE LoadAndDeleteLocked(t)
  <2> DEFINE d == [dirty EXCEPT ![KeyOf(t)] = NoEntry]
  <2>1. CASE Has(read.m, KeyOf(t)) \/ ~read.amended
    <3>1. LookupLocked(t, "lad_entry", dirty)
      BY <1>4, <2>1 DEF LoadAndDeleteLocked, LookupLocked
    <3> QED BY <1>4, <3>1, LookupLockedStep DEF Actions
  <2>2. CASE ~Has(read.m, KeyOf(t))
    <3>1. \A k \in Key : d[k] = dirty[k] \/ (d[k] = NoEntry /\ ~Has(read.m, k))
      BY <2>2 DEF TypeOK, EntryMap
    <3>2. LookupLocked(t, "lad_entry", d)
      BY <1>4 DEF LoadAndDeleteLocked
    <3> HIDE DEF d
    <3> QED BY <1>4, <3>1, <3>2, LookupLockedStep DEF Actions
  <2> QED BY <2>1, <2>2
<1>5. CASE LoadEntry(t)
  <2>1. UNCHANGED <<maps, p, fresh, iter>> /\ KeepsPlace(t)
    BY <1>5 DEF LoadEntry, Finish, Answer, Goto, KeepsPlace, TypeOK
  <2> QED BY <1>5, <2>1, SameEntries, QuietStep DEF Actions
<1>6. CASE LoadAndDeleteEntry(t)
  <2>1. UNCHANGED <<maps, fresh, iter>> /\ KeepsPlace(t)
    BY <1>6 DEF LoadAndDeleteEntry, Finish, Answer, Goto, KeepsPlace, TypeOK
  <2>2. CASE Live(p[ent[t]])
    <3>1. EntrySwap(ent[t], NULL) /\ ~Expunged(ent[t])
      BY <1>6, <2>2 DEF LoadAndDeleteEntry, Live, Expunged, Call, EXPUNGED
    <3> QED BY <1>6, <2>1, <3>1, SwapMarks, QuietStep DEF Actions
  <2>3. CASE ~Live(p[ent[t]])
    BY <1>6, <2>1, <2>3, SameEntries, QuietStep DEF LoadAndDeleteEntry, Actions
  <2> QED BY <2>2, <2>3
<1>7. CASE StoreTry(t)
  <2>1. UNCHANGED <<maps, fresh, iter>> /\ KeepsPlace(t)
    BY <1>7 DEF StoreTry, Finish, Answer, Goto, KeepsPlace, TypeOK
  <2>2. CASE Expunged(ent[t])
    BY <1>7, <2>1, <2>2, SameEntries, QuietStep DEF StoreTry, Expunged, Actions
  <2>3. CASE ~Expunged(ent[t])
    BY <1>7, <2>1, <2>3, SwapMarks, QuietStep DEF StoreTry, Expunged, Actions
  <2> QED BY <2>2, <2>3
<1>8. CASE StoreSwap(t)
  <2>1. UNCHANGED <<maps, fresh, iter>> /\ KeepsPlace(t) /\ EntrySwap(ent[t], BoxOf(t))
    BY <1>8 DEF StoreSwap, Finish, Answer, Goto, KeepsPlace, TypeOK
  <2>2. ~Expunged(ent[t])
    BY <1>8 DEF StoreSwap, IInv, NotExpunged, Expunged
  <2> QED BY <1>8, <2>1, <2>2, SwapMarks, QuietStep DEF Actions
<1>9. CASE LoadOrStoreTry(t) \/ LoadOrStoreRetry(t)
  <2>1. /\ UNCHANGED <<maps, fresh, iter>> /\ KeepsPlace(t)
        /\ TryLoadOrStore(ent[t], BoxOf(t))
    BY <1>9 DEF LoadOrStoreTry, LoadOrStoreRetry, Finish, Answer, Goto, KeepsPlace, TypeOK
  <2> QED BY <1>9, <2>1, TryMarks, QuietStep DEF Actions
<1>10. CASE LoadOrStoreMiss(t)
  <2>1. /\ UNCHANGED p /\ pc'[t] = "done" /\ pc[t] = "los_miss"
        /\ MissLocked(dirty)
    BY <1>10 DEF LoadOrStoreMiss, Goto, TypeOK
  <2>2. \A u \in Thread : pc[u] # "dirty_locked" /\ pc'[u] # "dirty_locked"
    BY <2>1 DEF IInv, OneHolder, InCriticalSection, Frame
  <2>3. CASE Promote(dirty)
    BY <1>10, <2>1, <2>2, <2>3, PublishStep DEF IInv, SharedInv, Actions
  <2>4. CASE dirty' = dirty /\ UNCHANGED read
    BY <1>10, <2>1, <2>2, <2>4, QuietStep DEF KeepsMarks, KeepsPlace, Expunged, Actions,
       LoadOrStoreMiss
  <2> QED BY <2>1, <2>3, <2>4 DEF MissLocked
<1>11. ASSUME NewKeyLocked(t), pc[t] \in {"store_lock", "los_lock"}, Actions(t)
       PROVE  SharedInv'
  <2>1. CASE /\ read.amended /\ InsertNew(t, dirty)
             /\ UNCHANGED <<read, holder, fresh, iter>>
    BY <1>11, <2>1, InsertNewStep DEF MayInsert
  <2>2. CASE ~read.amended /\ Goto(t, "dirty_locked")
    <3>1. /\ holder = NoThread /\ ~Has(read.m, KeyOf(t)) /\ pc'[t] = "dirty_locked"
          /\ fresh' = dirty /\ UNCHANGED <<read, dirty, p>>
          /\ iter' = [iter EXCEPT ![t] = IF dirty = NoEntries THEN read.m ELSE NoEntries]
      BY <1>11, <2>2 DEF NewKeyLocked, maps, Goto, TypeOK
    <3> QED BY <1>11, <2>2, <3>1, RebuildBegins DEF IInv, SharedInv
  <2> QED BY <1>11, <2>1, <2>2 DEF NewKeyLocked
<1>12. CASE StoreLocked(t)
  <2>1. CASE UnexpungeLocked(t, "store_swap")
    BY <1>12, <2>1, UnexpungeStep DEF StoreLocked, IInv, SharedInv, Actions, Keyless
  <2>2. CASE NewKeyLocked(t)
    BY <1>11, <1>12, <2>2 DEF StoreLocked, Actions
  <2>3. CASE /\ Has(dirty, KeyOf(t)) /\ EntrySwap(dirty[KeyOf(t)], BoxOf(t))
             /\ Finish(t, NULL)
             /\ UNCHANGED <<maps, holder, fresh, ncalls, call, iter>>
    <3>1. ~Expunged(dirty[KeyOf(t)])
      BY <1>12, <2>3 DEF StoreLocked, Actions, Keyless, IInv, NotExpunged, Expunged
    <3>2. KeepsPlace(t) /\ BoxOf(t) \in Call
      BY <1>12, <2>3 DEF KeepsPlace, StoreLocked, Finish, Answer, Goto, TypeOK, Actions
    <3>3. UNCHANGED <<maps, fresh>> /\ EntrySwap(dirty[KeyOf(t)], BoxOf(t))
      BY <2>3
    <3> QED BY <1>12, <3>1, <3>2, <3>3, SwapMarks, QuietStep DEF Actions
  <2> QED BY <1>12, <2>1, <2>2, <2>3 DEF StoreLocked
<1>13. CASE LoadOrStoreLocked(t)
  <2>1. CASE UnexpungeLocked(t, "los_retry")
    BY <1>13, <2>1, UnexpungeStep DEF LoadOrStoreLocked, IInv, SharedInv, Actions, Keyless
  <2>2. CASE NewKeyLocked(t)
    BY <1>11, <1>13, <2>2 DEF LoadOrStoreLocked, Actions
  <2>3. CASE /\ TryLoadOrStore(dirty[KeyOf(t)], BoxOf(t))
             /\ Answer(t, EntryLoad(dirty[KeyOf(t)]), "los_miss")
             /\ UNCHANGED <<maps, fresh, heap, ncalls, call, iter>>
    <3>1. KeepsPlace(t)
      BY <1>13, <2>3 DEF KeepsPlace, LoadOrStoreLocked, Answer, Goto, TypeOK
    <3> QED BY <1>13, <2>3, <3>1, TryMarks, QuietStep DEF Actions
  <2> QED BY <1>13, <2>1, <2>2, <2>3 DEF LoadOrStoreLocked
<1>14. CASE DirtyLockedExpunge(t)
  BY <1>14, RebuildIteration DEF IInv, SharedInv, Actions
<1>15. CASE DirtyLockedAmend(t)
  BY <1>15, InsertNewStep DEF DirtyLockedAmend, MayInsert
<1>16. CASE RangeRead(t) \/ RangeEntry(t) \/ RangeEnd(t)
  <2>1. UNCHANGED <<maps, p, fresh>> /\ KeepsPlace(t)
    BY <1>16 DEF RangeRead, RangeEntry, RangeEnd, IterateOver, Goto, KeepsPlace, TypeOK
  <2> QED BY <1>16, <2>1, SameEntries, QuietStep DEF Actions
<1>17. CASE RangeLocked(t)
  <2>1. /\ UNCHANGED <<p, fresh>> /\ pc'[t] = "range_entry" /\ pc[t] = "range_lock"
        /\ holder = NoThread
        /\ UNCHANGED maps \/ Promote(dirty)
    BY <1>17 DEF RangeLocked, IterateOver, Goto, TypeOK
  <2>2. \A u \in Thread : pc[u] # "dirty_locked" /\ pc'[u] # "dirty_locked"
    BY <2>1, ConstantsAssumption DEF IInv, OneHolder, InCriticalSection, Frame
  <2>3. CASE Promote(dirty)
    BY <1>17, <2>1, <2>2, <2>3, PublishStep DEF IInv, SharedInv, Actions
  <2>4. CASE UNCHANGED maps
    BY <1>17, <2>1, <2>4, SameEntries, QuietStep DEF KeepsPlace, Actions
  <2> QED BY <2>1, <2>3, <2>4
<1> QED BY <1>1, <1>2, <1>3, <1>4, <1>5, <1>6, <1>7, <1>8, <1>9, <1>10, <1>12,
  <1>13, <1>14, <1>15, <1>16, <1>17 DEF Step

-----------------------------------------------------------------------------
(***************************************************************************)
(* The theorems.                                                           *)
(***************************************************************************)
LEMMA IInvInit == Init => IInv
<1> SUFFICES ASSUME Init PROVE IInv
  OBVIOUS
<1> USE ConstantsAssumption DEF Init
<1>1. TypeOK
  BY DEF TypeOK, EntryMap, CallRecord, Call, NULL, EXPUNGED, NoEntry, NoEntries,
     NoResult, NoCall, PC, Op
<1>2. CallsDistinct
  BY DEF CallsDistinct, Calling, Keyless
<1>3. OneHolder
  BY DEF OneHolder, InCriticalSection
<1>4. EntriesDistinct /\ NotExpunged /\ RebuildOK /\ DirtyMirrorsRead
  BY DEF EntriesDistinct, Under, NoEntries, NoEntry, Call, NotExpunged, Has,
     RebuildOK, DirtyMirrorsRead
<1> QED BY <1>1, <1>2, <1>3, <1>4 DEF IInv

\* The inductive step: calls, returns and all that happens in between.
LEMMA IInvStep == IInv /\ [Next]_vars => IInv'
<1> SUFFICES ASSUME IInv, [Next]_vars PROVE IInv'
  OBVIOUS
<1>1. ASSUME NEW t \in Thread, Invoke(t) \/ Step(t) PROVE IInv'
  BY <1>1, TypeStep, CallsDistinctStep, OneHolderStep, SharedStep DEF IInv, SharedInv
<1>2. CASE UNCHANGED vars
  BY <1>2 DEF vars, IInv, TypeOK, CallsDistinct, Calling, BoxOf, KeyOf, OneHolder,
     EntriesDistinct, Under, NotExpunged, Has, RebuildOK, Rebuilding, DirtyMirrorsRead
<1> QED BY <1>1, <1>2 DEF Next, Terminated

\* Every reachable state of the map of src/sync_map.rs, with any number of
\* threads, keys and calls, satisfies the inductive invariant.
THEOREM Invariance == Spec => []IInv
BY IInvInit, IInvStep, PTL DEF Spec

\* Every variable keeps its type, the calls and the entries their numbers.
THEOREM TypeCorrect == Spec => []TypeOK
<1>1. IInv => TypeOK
  BY DEF IInv
<1> QED BY <1>1, Invariance, PTL

\* At most one thread is in a critical section of the mutex, and it is the
\* one recorded as its holder (dirty.lock().unwrap() of src/sync_map.rs).
THEOREM MutualExclusion == Spec => []OneHolder
<1>1. IInv => OneHolder
  BY DEF IInv
<1> QED BY <1>1, Invariance, PTL

\* Whatever the lock-free and the locked paths do to each other, dirty holds
\* the unexpunged entries of read while read is amended, and no entry of
\* read is expunged, except by a running dirtyLocked, while it is not.
THEOREM DirtyMirrors == Spec => []DirtyMirrorsRead
<1>1. IInv => DirtyMirrorsRead
  BY DEF IInv
<1> QED BY <1>1, Invariance, PTL
=============================================================================
