------------------------------- MODULE Entry -------------------------------
(***************************************************************************)
(* One Entry of src/sync_map.rs at the grain of its atomic pointer: loads, *)
(* compare_exchange retry loops, boxes at addresses that the allocator     *)
(* uses again, and the dereference that comes a step after the load.  The  *)
(* methods named _locked run under the mutex of dirty.                     *)
(*                                                                         *)
(* Dereferencing a box that has been freed is undefined behaviour: the     *)
(* model then stops in `fault'.  What a compare_exchange took out belongs  *)
(* to its thread alone and is freed in the same action.                    *)
(***************************************************************************)
EXTENDS Naturals, FiniteSets

CONSTANTS
  Thread,
  NoThread,
  Addr,       \* addresses of boxes
  NULL,
  EXPUNGED,
  MaxCalls    \* bound: calls of the entry's methods

ASSUME EntryAssumption ==
  /\ NULL \notin Addr \cup Nat /\ EXPUNGED \notin Addr \cup Nat
  /\ NULL # EXPUNGED
  /\ NoThread \notin Thread
  /\ MaxCalls \in Nat

Locked == {"store_locked", "unexpunge_locked", "try_expunge_locked"}
Storing == {"try_store", "store_locked", "try_load_or_store"}
Op == Locked \cup Storing \cup {"load", "delete"}

Id == 1 .. MaxCalls
FREE == 0
NoCall == [op |-> "none", id |-> 0]
NoResult == [value |-> NULL, ok |-> FALSE]
NoBox == [addr |-> NULL, id |-> FREE]

VARIABLES
  p,       \* the pointer
  heap,    \* per address: the call whose value is boxed there, or FREE
  holder,  \* the thread inside a method under the mutex
  ncalls,  \* calls begun so far
  pc, call,
  own,     \* per thread: the box it wants to store
  reg,     \* per thread: the pointer it loaded, and what was boxed there
  res,     \* per thread: the value found, if any, and whether it succeeded
  fault    \* a freed box was dereferenced

vars == <<p, heap, holder, ncalls, pc, call, own, reg, res, fault>>
locals == <<ncalls, call, own>>

Init ==
  /\ p = NULL
  /\ heap = [a \in Addr |-> FREE]
  /\ holder = NoThread
  /\ ncalls = 0
  /\ pc = [t \in Thread |-> "idle"]
  /\ call = [t \in Thread |-> NoCall]
  /\ own = [t \in Thread |-> NULL]
  /\ reg = [t \in Thread |-> NoBox]
  /\ res = [t \in Thread |-> NoResult]
  /\ fault = FALSE

\* A call begins where its method does.  store_locked is called on entries
\* that the caller unexpunged or that never were expunged.
Invoke(t) ==
  /\ pc[t] = "idle" /\ ncalls < MaxCalls
  /\ ncalls' = ncalls + 1
  /\ \E o \in Op :
       /\ call' = [call EXCEPT ![t] = [op |-> o, id |-> ncalls']]
       /\ pc' = [pc EXCEPT ![t] = o]
       /\ o \in Locked => holder = NoThread
       /\ o = "store_locked" => p # EXPUNGED
       /\ holder' = IF o \in Locked THEN t ELSE holder
       /\ IF o \in Storing
          THEN \E a \in Addr :
                 /\ heap[a] = FREE
                 /\ heap' = [heap EXCEPT ![a] = ncalls']
                 /\ own' = [own EXCEPT ![t] = a]
          ELSE UNCHANGED <<heap, own>>
  /\ UNCHANGED <<p, reg, res, fault>>

\* The caller drops the box of a value it could not store.
Return(t) ==
  /\ pc[t] = "done"
  /\ pc' = [pc EXCEPT ![t] = "idle"]
  /\ call' = [call EXCEPT ![t] = NoCall]
  /\ heap' = [a \in Addr |-> IF a = own[t] THEN FREE ELSE heap[a]]
  /\ own' = [own EXCEPT ![t] = NULL]
  /\ reg' = [reg EXCEPT ![t] = NoBox]
  /\ res' = [res EXCEPT ![t] = NoResult]
  /\ holder' = IF holder = t THEN NoThread ELSE holder
  /\ UNCHANGED <<p, ncalls, fault>>

Goto(t, label) == pc' = [pc EXCEPT ![t] = label]
Done(t, v, ok) ==
  /\ res' = [res EXCEPT ![t] = [value |-> v, ok |-> ok]]
  /\ Goto(t, "done")

\* Loads the pointer; `here' is what follows when it is a box.
LoadPointer(t, here) ==
  /\ reg' = [reg EXCEPT ![t] =
               IF p \in Addr THEN [addr |-> p, id |-> heap[p]]
                             ELSE [addr |-> p, id |-> FREE]]
  /\ Goto(t, here)
  /\ UNCHANGED res

\* The pointer becomes q; the box that was there is freed.
Replace(q) ==
  /\ p' = q
  /\ heap' = [a \in Addr |-> IF a = p THEN FREE ELSE heap[a]]

\* The box of t's value is in the entry now.
Stored(t) == own' = [own EXCEPT ![t] = NULL] /\ UNCHANGED <<ncalls, call>>

Load(t) ==
  /\ pc[t] = "load"
  /\ \/ p \in Addr /\ LoadPointer(t, "deref")
     \/ p \notin Addr /\ Done(t, NULL, FALSE) /\ UNCHANGED reg
  /\ UNCHANGED <<p, heap, holder, locals, fault>>

Deref(t) ==
  /\ pc[t] = "deref"
  /\ \/ /\ heap[reg[t].addr] = reg[t].id
        /\ Done(t, reg[t].id, TRUE)
        /\ UNCHANGED fault
     \/ /\ heap[reg[t].addr] # reg[t].id
        /\ fault' = TRUE
        /\ UNCHANGED <<pc, res>>
  /\ UNCHANGED <<p, heap, holder, locals, reg>>

TryStoreLoad(t) ==
  /\ pc[t] = "try_store"
  /\ \/ p = EXPUNGED /\ Done(t, NULL, FALSE) /\ UNCHANGED reg
     \/ p # EXPUNGED /\ LoadPointer(t, "try_store_cas")
  /\ UNCHANGED <<p, heap, holder, locals, fault>>

\* Mutant: the displaced box is not freed.
TryStoreCASLeak(t) ==
  /\ pc[t] = "try_store_cas"
  /\ \/ /\ p = reg[t].addr
        /\ p' = own[t] /\ UNCHANGED heap
        /\ Stored(t)
        /\ Done(t, NULL, TRUE)
     \/ /\ p # reg[t].addr
        /\ Goto(t, "try_store")
        /\ UNCHANGED <<p, heap, locals, res>>
  /\ UNCHANGED <<holder, reg, fault>>

TryStoreCAS(t) ==
  /\ pc[t] = "try_store_cas"
  /\ \/ /\ p = reg[t].addr
        /\ Replace(own[t])
        /\ Stored(t)
        /\ Done(t, NULL, TRUE)
     \/ /\ p # reg[t].addr
        /\ Goto(t, "try_store")
        /\ UNCHANGED <<p, heap, locals, res>>
  /\ UNCHANGED <<holder, reg, fault>>

StoreLocked(t) ==
  /\ pc[t] = "store_locked"
  /\ Replace(own[t])
  /\ Stored(t)
  /\ Done(t, NULL, TRUE)
  /\ UNCHANGED <<holder, reg, fault>>

UnexpungeLocked(t) ==
  /\ pc[t] = "unexpunge_locked"
  /\ p' = IF p = EXPUNGED THEN NULL ELSE p
  /\ Done(t, NULL, p = EXPUNGED)
  /\ UNCHANGED <<heap, holder, locals, reg, fault>>

TryExpungeLoad(t) ==
  /\ pc[t] = "try_expunge_locked"
  /\ \/ p = NULL /\ Goto(t, "expunge_cas") /\ UNCHANGED res
     \/ p # NULL /\ Done(t, NULL, p = EXPUNGED)
  /\ UNCHANGED <<p, heap, holder, locals, reg, fault>>

TryExpungeCAS(t) ==
  /\ pc[t] = "expunge_cas"
  /\ \/ p = NULL /\ p' = EXPUNGED /\ Done(t, NULL, TRUE)
     \/ p # NULL /\ Goto(t, "try_expunge_locked") /\ UNCHANGED <<p, res>>
  /\ UNCHANGED <<heap, holder, locals, reg, fault>>

\* The first load and those after a failed compare_exchange are alike.
TryLoadOrStoreLoad(t) ==
  /\ pc[t] = "try_load_or_store"
  /\ \/ p = EXPUNGED /\ Done(t, NULL, FALSE) /\ UNCHANGED reg
     \/ p = NULL /\ LoadPointer(t, "load_or_store_cas")
     \/ p \in Addr /\ LoadPointer(t, "deref")
  /\ UNCHANGED <<p, heap, holder, locals, fault>>

\* Mutant: the exchange is not conditional.
TryLoadOrStoreSwap(t) ==
  /\ pc[t] = "load_or_store_cas"
  /\ Replace(own[t]) /\ Stored(t) /\ Done(t, NULL, TRUE)
  /\ UNCHANGED <<holder, reg, fault>>

TryLoadOrStoreCAS(t) ==
  /\ pc[t] = "load_or_store_cas"
  /\ \/ p = NULL /\ Replace(own[t]) /\ Stored(t) /\ Done(t, NULL, TRUE)
     \/ p # NULL /\ Goto(t, "try_load_or_store") /\ UNCHANGED <<p, heap, locals, res>>
  /\ UNCHANGED <<holder, reg, fault>>

\* Mutant: only null is tested.
DeleteLoadNullOnly(t) ==
  /\ pc[t] = "delete"
  /\ \/ p = NULL /\ Done(t, NULL, FALSE) /\ UNCHANGED reg
     \/ p # NULL /\ LoadPointer(t, "delete_cas")
  /\ UNCHANGED <<p, heap, holder, locals, fault>>

DeleteLoad(t) ==
  /\ pc[t] = "delete"
  /\ \/ p \notin Addr /\ Done(t, NULL, FALSE) /\ UNCHANGED reg
     \/ p \in Addr /\ LoadPointer(t, "delete_cas")
  /\ UNCHANGED <<p, heap, holder, locals, fault>>

\* Mutant: a failed exchange is tried again with the same pointer.
DeleteCASNoReload(t) ==
  /\ pc[t] = "delete_cas"
  /\ \/ p = reg[t].addr /\ Done(t, heap[p], TRUE) /\ Replace(NULL)
     \/ p # reg[t].addr /\ UNCHANGED <<p, heap, pc, res>>
  /\ UNCHANGED <<holder, locals, reg, fault>>

DeleteCAS(t) ==
  /\ pc[t] = "delete_cas"
  /\ \/ p = reg[t].addr /\ Done(t, heap[p], TRUE) /\ Replace(NULL)
     \/ p # reg[t].addr /\ Goto(t, "delete") /\ UNCHANGED <<p, heap, res>>
  /\ UNCHANGED <<holder, locals, reg, fault>>

Step(t) ==
  /\ ~fault
  /\ \/ Load(t) \/ Deref(t)
     \/ TryStoreLoad(t) \/ TryStoreCAS(t) \/ StoreLocked(t)
     \/ UnexpungeLocked(t) \/ TryExpungeLoad(t) \/ TryExpungeCAS(t)
     \/ TryLoadOrStoreLoad(t) \/ TryLoadOrStoreCAS(t)
     \/ DeleteLoad(t) \/ DeleteCAS(t)
     \/ Return(t)

Stopped ==
  /\ fault \/ (ncalls = MaxCalls /\ \A t \in Thread : pc[t] = "idle")
  /\ UNCHANGED vars

Next == (\E t \in Thread : (~fault /\ Invoke(t)) \/ Step(t)) \/ Stopped

Spec == Init /\ [][Next]_vars

\* Every thread is scheduled until its call returns.
FairSpec == Spec /\ \A t \in Thread : WF_vars(Step(t))

-----------------------------------------------------------------------------
PC == Op \cup {"idle", "done", "deref", "try_store_cas", "expunge_cas",
               "load_or_store_cas", "delete_cas"}

TypeOK ==
  /\ p \in Addr \cup {NULL, EXPUNGED}
  /\ heap \in [Addr -> Id \cup {FREE}]
  /\ holder \in Thread \cup {NoThread}
  /\ ncalls \in 0 .. MaxCalls
  /\ pc \in [Thread -> PC]
  /\ call \in [Thread -> [op : Op \cup {"none"}, id : Id \cup {0}]]
  /\ own \in [Thread -> Addr \cup {NULL}]
  /\ reg \in [Thread -> [addr : Addr \cup {NULL}, id : Id \cup {FREE}]]
  /\ res \in [Thread -> [value : Id \cup {NULL}, ok : BOOLEAN]]
  /\ fault \in BOOLEAN

\* A box in use has one owner, the entry or one call: it is not freed while
\* the entry points to it, never freed by two calls, and never lost.
OneOwner ==
  \A a \in Addr :
    Cardinality({t \in Thread : own[t] = a}) + (IF p = a THEN 1 ELSE 0)
      = IF heap[a] = FREE THEN 0 ELSE 1

\* Nobody's retry loop spins for ever: a compare_exchange fails only when
\* another call has moved the pointer, and those are finitely many.
EveryCallReturns ==
  \A t \in Thread : pc[t] # "idle" ~> (pc[t] = "idle" \/ fault)

(***************************************************************************)
(* A call takes effect at a load that decides its result, else at its      *)
(* successful exchange; the dereference comes after.                       *)
(***************************************************************************)
AbsRes(t) == IF pc[t] = "deref" THEN [value |-> reg[t].id, ok |-> TRUE] ELSE res[t]
AbsPhase(t) ==
  CASE pc[t] = "idle" -> "idle"
    [] pc[t] \in {"deref", "done"} -> "done"
    [] OTHER -> "called"

Cell == INSTANCE EntrySpec WITH
  cell <- IF p \in Addr THEN heap[p] ELSE p,
  phase <- [t \in Thread |-> AbsPhase(t)],
  res <- [t \in Thread |-> AbsRes(t)]

\* The methods of an entry are atomic, retries, reused addresses and
\* late dereferences notwithstanding, as long as no freed box is read.
Atomic == Cell!Spec

\* What the code does not keep.  A value loaded from an entry, as from Go's
\* sync.Map, is one that is still there to be read.
NoUseAfterFree == ~fault
=============================================================================
