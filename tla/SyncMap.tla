------------------------------ MODULE SyncMap ------------------------------
(***************************************************************************)
(* The concurrent map of src/sync_map.rs: a read-only map published        *)
(* through an atomic pointer, a mutex-protected dirty map, a miss counter  *)
(* that promotes dirty to read, and entries shared by both maps, whose     *)
(* pointer is a box, null (deleted) or EXPUNGED (deleted and absent from   *)
(* dirty).                                                                 *)
(*                                                                         *)
(* Grain.  One action per access that other threads can see without the    *)
(* mutex: reading or publishing `read', an operation of an Entry.  What a  *)
(* critical section does to `dirty' and `misses' alone is joined to the    *)
(* visible access next to it, so a critical section with at most one       *)
(* visible write is one action.  An operation of an Entry is atomic here.  *)
(***************************************************************************)
EXTENDS Integers, FiniteSets

CONSTANTS
  Thread,     \* the threads (tokio workers) that call the map
  NoThread,   \* the mutex of `dirty' is free
  Key,        \* the keys
  NoKey,      \* the key of a call that takes none (keys, values, key_values)
  Ops,        \* the operations the threads call
  MaxCalls    \* bound: calls made in a behaviour

Op == {"load", "store", "load_or_store", "load_and_delete", "range"}

ASSUME ConstantsAssumption ==
  /\ NoThread \notin Thread
  /\ NoKey \notin Key
  /\ Ops \subseteq Op
  /\ MaxCalls \in Nat

(***************************************************************************)
(* The number of a call names the box it allocates for its value and the   *)
(* entry it inserts, if it inserts one.                                    *)
(***************************************************************************)
Call == 1 .. MaxCalls
NULL == 0
EXPUNGED == -1
NoEntry == 0

NoEntries == [k \in Key |-> NoEntry]
NoResult == [k \in Key |-> NULL]
Has(m, k) == m[k] # NoEntry
KeysIn(m) == {k \in Key : Has(m, k)}
Live(ptr) == ptr \in Call

VARIABLES
  read,     \* the published ReadOnly: m and amended
  dirty,    \* the map under the mutex
  misses,   \* loads that had to look in dirty since the last promotion
  p,        \* the pointer of every entry
  holder,   \* the thread that holds the mutex of dirty
  fresh,    \* dirtyLocked: the map being collected by the holder
  heap,     \* boxes of values allocated and not freed
  ncalls,   \* calls begun so far
  pc, call, \* per thread: where it is, and the call it executes
  ent,      \* per thread: the entry it is about to use
  iter,     \* per thread: what is left of the map it iterates over
  out       \* per thread: the result, by key

maps == <<read, dirty, misses>>
vars == <<read, dirty, misses, p, holder, fresh, heap, ncalls,
          pc, call, ent, iter, out>>

KeyOf(t) == call[t].key
BoxOf(t) == call[t].id
NoCall == [op |-> "none", key |-> NoKey, id |-> 0]

Goto(t, label) == pc' = [pc EXCEPT ![t] = label]
Use(t, e, label) ==
  /\ ent' = [ent EXCEPT ![t] = e]
  /\ Goto(t, label)
  /\ UNCHANGED out
Answer(t, result, label) ==
  /\ out' = [out EXCEPT ![t] = [NoResult EXCEPT ![KeyOf(t)] = result]]
  /\ Goto(t, label)
  /\ UNCHANGED ent
Finish(t, result) == Answer(t, result, "done")

(***************************************************************************)
(* The operations of an Entry, on entry e.                                 *)
(***************************************************************************)
\* Mutant: load without the is_expunged test.
EntryLoadNullOnly(e) == p[e]

EntryLoad(e) == IF Live(p[e]) THEN p[e] ELSE NULL

\* Mutant: the store that src/sync_map.rs:361 has in a comment.
EntryStoreOnly(e, b) ==
  /\ p' = [p EXCEPT ![e] = b]
  /\ UNCHANGED heap

\* Swaps box b into e and frees the box that was there.
EntrySwap(e, b) ==
  /\ p' = [p EXCEPT ![e] = b]
  /\ heap' = heap \ {p[e]}

\* The value found in e; NULL when box b was stored there instead.  Freeing
\* b when a value was found is left to the caller.
TryLoadOrStore(e, b) ==
  p' = IF p[e] = NULL THEN [p EXCEPT ![e] = b] ELSE p

Init ==
  /\ read = [m |-> NoEntries, amended |-> FALSE]
  /\ dirty = NoEntries
  /\ misses = 0
  /\ p = [e \in Call |-> NULL]
  /\ holder = NoThread
  /\ fresh = NoEntries
  /\ heap = {}
  /\ ncalls = 0
  /\ pc = [t \in Thread |-> "idle"]
  /\ call = [t \in Thread |-> NoCall]
  /\ ent = [t \in Thread |-> NoEntry]
  /\ iter = [t \in Thread |-> NoEntries]
  /\ out = [t \in Thread |-> NoResult]

-----------------------------------------------------------------------------
(***************************************************************************)
(* Calls and returns.  store and load_or_store box their value first.      *)
(***************************************************************************)
Invoke(t) ==
  /\ pc[t] = "idle"
  /\ ncalls < MaxCalls
  /\ \E o \in Ops, k \in Key \cup {NoKey} :
       /\ (k = NoKey) <=> (o = "range")
       /\ call' = [call EXCEPT ![t] = [op |-> o, key |-> k, id |-> ncalls + 1]]
       /\ Goto(t, o)
       /\ heap' = IF o \in {"store", "load_or_store"}
                  THEN heap \cup {ncalls + 1} ELSE heap
  /\ ncalls' = ncalls + 1
  /\ UNCHANGED <<maps, p, holder, fresh, ent, iter, out>>

Return(t) ==
  /\ pc[t] = "done"
  /\ Goto(t, "idle")
  /\ call' = [call EXCEPT ![t] = NoCall]
  /\ ent' = [ent EXCEPT ![t] = NoEntry]
  /\ out' = [out EXCEPT ![t] = NoResult]
  /\ UNCHANGED <<maps, p, holder, fresh, heap, ncalls, iter>>

(***************************************************************************)
(* function missLocked, with d the dirty map as the caller leaves it.      *)
(***************************************************************************)
\* Mutant: promotion without the reset of misses.
PromoteKeepingMisses(d) ==
  /\ read' = [m |-> d, amended |-> FALSE]
  /\ dirty' = NoEntries
  /\ misses' = misses + 1

Promote(d) ==
  /\ read' = [m |-> d, amended |-> FALSE]
  /\ dirty' = NoEntries
  /\ misses' = 0

MissLocked(d) ==
  IF misses + 1 >= Cardinality(KeysIn(d))
  THEN Promote(d)
  ELSE dirty' = d /\ misses' = misses + 1 /\ UNCHANGED read

(***************************************************************************)
(* load and load_and_delete look a key up the same way: first without the  *)
(* mutex, then, when read is amended, again with it, in dirty too.         *)
(***************************************************************************)
LookupRead(t, hit, miss) ==
  /\ \/ Has(read.m, KeyOf(t)) /\ Use(t, read.m[KeyOf(t)], hit)
     \/ /\ ~Has(read.m, KeyOf(t)) /\ read.amended
        /\ Goto(t, miss) /\ UNCHANGED <<ent, out>>
     \/ ~Has(read.m, KeyOf(t)) /\ ~read.amended /\ Finish(t, NULL)
  /\ UNCHANGED <<maps, p, holder, fresh, heap, ncalls, call, iter>>

\* Mutant: read is not loaded again under the mutex.
LookupLockedOnce(t, hit, d) ==
  /\ holder = NoThread
  /\ MissLocked(d)
  /\ IF Has(dirty, KeyOf(t)) THEN Use(t, dirty[KeyOf(t)], hit)
                             ELSE Finish(t, NULL)
  /\ UNCHANGED <<p, holder, fresh, heap, ncalls, call, iter>>

LookupLocked(t, hit, d) ==
  LET k == KeyOf(t) IN
  /\ holder = NoThread
  /\ \/ /\ Has(read.m, k)
        /\ Use(t, read.m[k], hit) /\ UNCHANGED maps
     \/ /\ ~Has(read.m, k) /\ read.amended
        /\ MissLocked(d)
        /\ IF Has(dirty, k) THEN Use(t, dirty[k], hit) ELSE Finish(t, NULL)
     \/ /\ ~Has(read.m, k) /\ ~read.amended
        /\ Finish(t, NULL) /\ UNCHANGED maps
  /\ UNCHANGED <<p, holder, fresh, heap, ncalls, call, iter>>

LoadRead(t) == pc[t] = "load" /\ LookupRead(t, "load_entry", "load_lock")

LoadLocked(t) == pc[t] = "load_lock" /\ LookupLocked(t, "load_entry", dirty)

LoadEntry(t) ==
  /\ pc[t] = "load_entry"
  /\ Finish(t, EntryLoad(ent[t]))
  /\ UNCHANGED <<maps, p, holder, fresh, heap, ncalls, call, iter>>

LoadAndDeleteRead(t) ==
  pc[t] = "load_and_delete" /\ LookupRead(t, "lad_entry", "lad_lock")

LoadAndDeleteLocked(t) ==
  /\ pc[t] = "lad_lock"
  /\ LookupLocked(t, "lad_entry", [dirty EXCEPT ![KeyOf(t)] = NoEntry])

\* Mutant: the entry is loaded and not deleted.
LoadAndKeepEntry(t) ==
  /\ pc[t] = "lad_entry"
  /\ Finish(t, EntryLoad(ent[t]))
  /\ UNCHANGED <<maps, p, heap, holder, fresh, ncalls, call, iter>>

LoadAndDeleteEntry(t) ==
  /\ pc[t] = "lad_entry"
  /\ Finish(t, EntryLoad(ent[t]))
  /\ IF Live(p[ent[t]]) THEN EntrySwap(ent[t], NULL) ELSE UNCHANGED <<p, heap>>
  /\ UNCHANGED <<maps, holder, fresh, ncalls, call, iter>>

-----------------------------------------------------------------------------
(***************************************************************************)
(* The critical section that store and load_or_store share: a key found    *)
(* in read has its entry unexpunged and put back in dirty; a key found     *)
(* nowhere is inserted in dirty, after dirtyLocked has rebuilt dirty from  *)
(* read if read is not amended.                                            *)
(***************************************************************************)
UnexpungeLocked(t, next) ==
  LET k == KeyOf(t)
      e == read.m[k]
  IN
  /\ holder = NoThread
  /\ Has(read.m, k)
  /\ IF p[e] = EXPUNGED
     THEN /\ p' = [p EXCEPT ![e] = NULL]
          /\ dirty' = [dirty EXCEPT ![k] = e]
     ELSE UNCHANGED <<p, dirty>>
  /\ holder' = t
  /\ Use(t, e, next)
  /\ UNCHANGED <<read, misses, fresh, heap, ncalls, call, iter>>

InsertNew(t, d) ==
  /\ dirty' = [d EXCEPT ![KeyOf(t)] = BoxOf(t)]
  /\ p' = [p EXCEPT ![BoxOf(t)] = BoxOf(t)]
  /\ Finish(t, IF call[t].op = "store" THEN NULL ELSE BoxOf(t))
  /\ UNCHANGED <<misses, heap, ncalls, call>>

NewKeyLocked(t) ==
  /\ holder = NoThread
  /\ ~Has(read.m, KeyOf(t)) /\ ~Has(dirty, KeyOf(t))
  /\ \/ /\ read.amended
        /\ InsertNew(t, dirty)
        /\ UNCHANGED <<read, holder, fresh, iter>>
     \/ /\ ~read.amended
        /\ Goto(t, "dirty_locked")
        /\ holder' = t
        /\ iter' = [iter EXCEPT ![t] =
                      IF dirty = NoEntries THEN read.m ELSE NoEntries]
        /\ fresh' = dirty
        /\ UNCHANGED <<maps, p, heap, ncalls, call, ent, out>>

\* Mutant: try_expunge_locked repeats while the entry is null.
DirtyLockedWait(t) ==
  /\ pc[t] = "dirty_locked"
  /\ \E k \in KeysIn(iter[t]) :
       IF Live(p[iter[t][k]])
       THEN /\ fresh' = [fresh EXCEPT ![k] = iter[t][k]]
            /\ iter' = [iter EXCEPT ![t][k] = NoEntry]
       ELSE UNCHANGED <<fresh, iter>>
  /\ UNCHANGED <<maps, p, holder, heap, ncalls, pc, call, ent, out>>

\* One iteration of dirtyLocked: try_expunge_locked on the next entry.
DirtyLockedExpunge(t) ==
  /\ pc[t] = "dirty_locked"
  /\ \E k \in KeysIn(iter[t]) :
       LET e == iter[t][k] IN
       /\ IF Live(p[e])
          THEN /\ fresh' = [fresh EXCEPT ![k] = e]
               /\ UNCHANGED p
          ELSE /\ p' = [p EXCEPT ![e] = EXPUNGED]
               /\ UNCHANGED fresh
       /\ iter' = [iter EXCEPT ![t][k] = NoEntry]
  /\ UNCHANGED <<maps, holder, heap, ncalls, pc, call, ent, out>>

\* The rebuilt dirty is installed, read is published as amended, the new
\* entry goes into dirty and the mutex is released.
DirtyLockedAmend(t) ==
  /\ pc[t] = "dirty_locked"
  /\ iter[t] = NoEntries
  /\ read' = [read EXCEPT !.amended = TRUE]
  /\ InsertNew(t, fresh)
  /\ fresh' = NoEntries
  /\ holder' = NoThread
  /\ UNCHANGED iter

-----------------------------------------------------------------------------
(***************************************************************************)
(* store.                                                                  *)
(***************************************************************************)
StoreRead(t) ==
  /\ pc[t] = "store"
  /\ IF Has(read.m, KeyOf(t))
     THEN Use(t, read.m[KeyOf(t)], "store_try")
     ELSE Goto(t, "store_lock") /\ UNCHANGED <<ent, out>>
  /\ UNCHANGED <<maps, p, holder, fresh, heap, ncalls, call, iter>>

\* Mutant: try_store without the is_expunged test.
StoreTryBlind(t) ==
  /\ pc[t] = "store_try"
  /\ EntrySwap(ent[t], BoxOf(t))
  /\ Finish(t, NULL)
  /\ UNCHANGED <<maps, holder, fresh, ncalls, call, iter>>

StoreTry(t) ==
  /\ pc[t] = "store_try"
  /\ \/ /\ p[ent[t]] = EXPUNGED
        /\ Goto(t, "store_lock")
        /\ UNCHANGED <<p, heap, ent, out>>
     \/ /\ p[ent[t]] # EXPUNGED
        /\ EntrySwap(ent[t], BoxOf(t))
        /\ Finish(t, NULL)
  /\ UNCHANGED <<maps, holder, fresh, ncalls, call, iter>>

StoreLocked(t) ==
  /\ pc[t] = "store_lock"
  /\ \/ UnexpungeLocked(t, "store_swap")
     \/ /\ holder = NoThread
        /\ ~Has(read.m, KeyOf(t)) /\ Has(dirty, KeyOf(t))
        /\ EntrySwap(dirty[KeyOf(t)], BoxOf(t))
        /\ Finish(t, NULL)
        /\ UNCHANGED <<maps, holder, fresh, ncalls, call, iter>>
     \/ NewKeyLocked(t)

StoreSwap(t) ==
  /\ pc[t] = "store_swap"
  /\ EntrySwap(ent[t], BoxOf(t))
  /\ holder' = NoThread
  /\ Finish(t, NULL)
  /\ UNCHANGED <<maps, fresh, ncalls, call, iter>>

(***************************************************************************)
(* load_or_store.                                                          *)
(***************************************************************************)
LoadOrStoreRead(t) ==
  /\ pc[t] = "load_or_store"
  /\ IF Has(read.m, KeyOf(t))
     THEN Use(t, read.m[KeyOf(t)], "los_try")
     ELSE Goto(t, "los_lock") /\ UNCHANGED <<ent, out>>
  /\ UNCHANGED <<maps, p, holder, fresh, heap, ncalls, call, iter>>

LoadOrStoreTry(t) ==
  LET v == EntryLoad(ent[t]) IN
  /\ pc[t] = "los_try"
  /\ TryLoadOrStore(ent[t], BoxOf(t))
  /\ \/ /\ p[ent[t]] = EXPUNGED
        /\ Goto(t, "los_lock")
        /\ UNCHANGED <<heap, ent, out>>
     \/ /\ p[ent[t]] # EXPUNGED
        /\ heap' = IF v # NULL THEN heap \ {BoxOf(t)} ELSE heap
        /\ Finish(t, v)
  /\ UNCHANGED <<maps, holder, fresh, ncalls, call, iter>>

\* With the key in dirty only, the entry is tried first and missLocked
\* follows in LoadOrStoreMiss, still under the mutex.
LoadOrStoreLocked(t) ==
  /\ pc[t] = "los_lock"
  /\ \/ UnexpungeLocked(t, "los_retry")
     \/ /\ holder = NoThread
        /\ ~Has(read.m, KeyOf(t)) /\ Has(dirty, KeyOf(t))
        /\ TryLoadOrStore(dirty[KeyOf(t)], BoxOf(t))
        /\ holder' = t
        /\ Answer(t, EntryLoad(dirty[KeyOf(t)]), "los_miss")
        /\ UNCHANGED <<maps, fresh, heap, ncalls, call, iter>>
     \/ NewKeyLocked(t)

LoadOrStoreRetry(t) ==
  LET v == EntryLoad(ent[t]) IN
  /\ pc[t] = "los_retry"
  /\ TryLoadOrStore(ent[t], BoxOf(t))
  /\ heap' = IF v # NULL THEN heap \ {BoxOf(t)} ELSE heap
  /\ holder' = NoThread
  /\ Finish(t, v)
  /\ UNCHANGED <<maps, fresh, ncalls, call, iter>>

LoadOrStoreMiss(t) ==
  /\ pc[t] = "los_miss"
  /\ MissLocked(dirty)
  /\ heap' = IF out[t] # NoResult THEN heap \ {BoxOf(t)} ELSE heap
  /\ holder' = NoThread
  /\ Goto(t, "done")
  /\ UNCHANGED <<p, fresh, ncalls, call, ent, iter, out>>

-----------------------------------------------------------------------------
(***************************************************************************)
(* keys, values and key_values: promote dirty if read is amended, then     *)
(* visit the entries of the map obtained, in any order.                    *)
(***************************************************************************)
IterateOver(t, m) ==
  /\ iter' = [iter EXCEPT ![t] = m]
  /\ Goto(t, "range_entry")

RangeRead(t) ==
  /\ pc[t] = "range"
  /\ IF read.amended THEN Goto(t, "range_lock") /\ UNCHANGED iter
                     ELSE IterateOver(t, read.m)
  /\ UNCHANGED <<maps, p, holder, fresh, heap, ncalls, call, ent, out>>

RangeLocked(t) ==
  /\ pc[t] = "range_lock"
  /\ holder = NoThread
  /\ IF read.amended THEN Promote(dirty) ELSE UNCHANGED maps
  /\ IterateOver(t, read'.m)
  /\ UNCHANGED <<p, holder, fresh, heap, ncalls, call, ent, out>>

RangeEntry(t) ==
  /\ pc[t] = "range_entry"
  /\ \E k \in KeysIn(iter[t]) :
       /\ out' = [out EXCEPT ![t][k] = EntryLoad(iter[t][k])]
       /\ iter' = [iter EXCEPT ![t][k] = NoEntry]
  /\ UNCHANGED <<maps, p, holder, fresh, heap, ncalls, pc, call, ent>>

RangeEnd(t) ==
  /\ pc[t] = "range_entry"
  /\ iter[t] = NoEntries
  /\ Goto(t, "done")
  /\ UNCHANGED <<maps, p, holder, fresh, heap, ncalls, call, ent, iter, out>>

-----------------------------------------------------------------------------
Step(t) ==
  \/ LoadRead(t) \/ LoadLocked(t) \/ LoadEntry(t)
  \/ LoadAndDeleteRead(t) \/ LoadAndDeleteLocked(t) \/ LoadAndDeleteEntry(t)
  \/ StoreRead(t) \/ StoreTry(t) \/ StoreLocked(t) \/ StoreSwap(t)
  \/ DirtyLockedExpunge(t) \/ DirtyLockedAmend(t)
  \/ LoadOrStoreRead(t) \/ LoadOrStoreTry(t) \/ LoadOrStoreLocked(t)
  \/ LoadOrStoreRetry(t) \/ LoadOrStoreMiss(t)
  \/ RangeRead(t) \/ RangeLocked(t) \/ RangeEntry(t) \/ RangeEnd(t)
  \/ Return(t)

\* The callers stop after MaxCalls calls.
Terminated ==
  /\ ncalls = MaxCalls
  /\ \A t \in Thread : pc[t] = "idle"
  /\ UNCHANGED vars

Next == (\E t \in Thread : Invoke(t) \/ Step(t)) \/ Terminated

Spec == Init /\ [][Next]_vars

(***************************************************************************)
(* Every thread is scheduled; it need not make another call.  With         *)
(* finitely many calls weak fairness also serves the mutex: once the other *)
(* calls have ended it stays free.                                         *)
(***************************************************************************)
FairSpec == Spec /\ \A t \in Thread : WF_vars(Step(t))

-----------------------------------------------------------------------------
PC == Op \cup {"idle", "done", "load_lock", "load_entry", "lad_lock",
  "lad_entry", "store_try", "store_lock", "store_swap", "dirty_locked",
  "los_try", "los_lock", "los_retry", "los_miss", "range_lock", "range_entry"}

\* Where a thread is about to use its entry.
UsesEntry == {"load_entry", "lad_entry", "store_try", "store_swap",
              "los_try", "los_retry"}
\* Where a thread holds the mutex between two actions.
InCriticalSection == {"store_swap", "los_retry", "los_miss", "dirty_locked"}

EntryMap == [Key -> Call \cup {NoEntry}]
CallRecord ==
  [op : Op \cup {"none"}, key : Key \cup {NoKey}, id : Call \cup {0}]

TypeOK ==
  /\ read \in [m : EntryMap, amended : BOOLEAN]
  /\ dirty \in EntryMap
  /\ misses \in Nat
  /\ p \in [Call -> Call \cup {NULL, EXPUNGED}]
  /\ holder \in Thread \cup {NoThread}
  /\ fresh \in EntryMap
  /\ heap \subseteq Call
  /\ ncalls \in 0 .. MaxCalls
  /\ pc \in [Thread -> PC]
  /\ call \in [Thread -> CallRecord]
  /\ ent \in [Thread -> Call \cup {NoEntry}]
  /\ iter \in [Thread -> EntryMap]
  /\ out \in [Thread -> [Key -> Call \cup {NULL}]]

-----------------------------------------------------------------------------
(***************************************************************************)
(* Safety.                                                                 *)
(***************************************************************************)

\* Mutual exclusion on dirty: the holder is exactly the thread between the
\* two ends of a critical section.
OneHolder ==
  \A t \in Thread : pc[t] \in InCriticalSection <=> holder = t

\* dirtyLocked under way: the entries of read visited so far are expunged or
\* collected, the others are untouched.
Rebuilding(t) ==
  /\ ~read.amended
  /\ ~Has(read.m, KeyOf(t))
  /\ \A k \in Key :
       \/ ~Has(read.m, k) /\ ~Has(iter[t], k) /\ ~Has(fresh, k)
       \/ /\ Has(read.m, k) /\ iter[t][k] = read.m[k]
          /\ ~Has(fresh, k) /\ p[read.m[k]] # EXPUNGED
       \/ /\ Has(read.m, k) /\ ~Has(iter[t], k)
          /\ fresh[k] = IF p[read.m[k]] = EXPUNGED THEN NoEntry ELSE read.m[k]

\* The promise that lets the lock-free paths ignore dirty: while read is
\* amended, dirty holds exactly those entries of read that are not expunged
\* (so a promotion forgets nothing), and while it is not, dirty is empty and
\* no entry of read is expunged (so a lock-free store may use any of them).
DirtyMirrorsRead ==
  IF read.amended
  THEN \A k \in Key : Has(read.m, k) =>
         dirty[k] = IF p[read.m[k]] = EXPUNGED THEN NoEntry ELSE read.m[k]
  ELSE /\ dirty = NoEntries
       /\ \A k \in Key :
            Has(read.m, k) /\ p[read.m[k]] = EXPUNGED =>
              \E t \in Thread : pc[t] = "dirty_locked"

\* A promotion comes after at most as many misses as dirty has keys: the
\* count never reaches the size of dirty and starts again from 0.
MissesBounded ==
  IF read.amended THEN misses < Cardinality(KeysIn(dirty)) ELSE misses = 0

\* Every entry that holds a value can be found under one key, the key of
\* the threads that are about to use it, or belongs to the load_and_delete
\* that took it out of dirty: no value becomes unreachable.
NoValueLost ==
  \A e \in Call : Live(p[e]) =>
    \/ \E k \in Key : (Has(read.m, k) /\ read.m[k] = e) \/ dirty[k] = e
    \/ \E t \in Thread : pc[t] = "lad_entry" /\ ent[t] = e

\* Where a call still owns the box of its value.
OwnsBox(t) ==
  \/ pc[t] \in {"store", "store_try", "store_lock", "store_swap",
                "load_or_store", "los_try", "los_lock", "los_retry",
                "dirty_locked"}
  \/ pc[t] = "los_miss" /\ out[t] # NoResult

\* Every box has one owner, an entry or the call that allocated it, until it
\* is freed: no box is freed twice, freed while a map holds it, or leaked.
BoxOwnership ==
  \A b \in Call :
    LET entries == {e \in Call : p[e] = b}
        callers == {t \in Thread : OwnsBox(t) /\ BoxOf(t) = b}
    IN  Cardinality(entries) + Cardinality(callers) = IF b \in heap THEN 1 ELSE 0

(***************************************************************************)
(* Progress: every call returns, whatever the other calls do.              *)
(***************************************************************************)
EveryCallReturns == \A t \in Thread : pc[t] # "idle" ~> pc[t] = "idle"

(***************************************************************************)
(* What the code does not keep.                                            *)
(***************************************************************************)

\* When no call is in progress an entry outside both maps has been dropped.
\* Value::drop frees any pointer that is not null, so a dropped entry must
\* not be marked EXPUNGED: the mark is not a box.
NoExpungedEntryDropped ==
  (\A t \in Thread : pc[t] = "idle") =>
    \A e \in Call : p[e] = EXPUNGED =>
      \E k \in Key : Has(read.m, k) /\ read.m[k] = e
=============================================================================
