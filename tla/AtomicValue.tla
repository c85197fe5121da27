---------------------------- MODULE AtomicValue ----------------------------
(***************************************************************************)
(* The two shared pointers of src/atomic_value.rs.  Handles are cloned     *)
(* and dropped by threads; AtomicValueUnchecked frees its box when the     *)
(* last handle goes (Drop of the Value inside the Arc), AtomicValue at     *)
(* every drop of a handle.  Boxes are numbered in the order they are       *)
(* allocated.  Reading or freeing a box that is not allocated is undefined *)
(* behaviour: the model then stops.                                        *)
(***************************************************************************)
EXTENDS Integers, FiniteSets

CONSTANTS
  Thread,
  FreeAtEveryDrop,  \* TRUE: AtomicValue; FALSE: AtomicValueUnchecked
  MaxBoxes          \* bound: boxes allocated in a behaviour

ASSUME AtomicValueAssumption ==
  FreeAtEveryDrop \in BOOLEAN /\ MaxBoxes \in Nat \ {0}

Box == 1 .. MaxBoxes
NULL == 0

VARIABLES
  ptr,      \* the pointer that the handles share
  heap,     \* boxes in use
  nboxes,   \* boxes allocated so far
  handles,  \* the threads that have a handle
  pc,
  reg,      \* per thread: the pointer it took
  fault     \* "none", "read freed" or "freed twice"

vars == <<ptr, heap, nboxes, handles, pc, reg, fault>>

\* AtomicValue::new; the thread that calls it has the only handle.
Init ==
  /\ ptr = 1 /\ heap = {1} /\ nboxes = 1
  /\ \E t \in Thread : handles = {t}
  /\ pc = [t \in Thread |-> "idle"]
  /\ reg = [t \in Thread |-> NULL]
  /\ fault = "none"

Goto(t, label) == pc' = [pc EXCEPT ![t] = label]
Take(t) == reg' = [reg EXCEPT ![t] = ptr]

\* Box::from_raw(b), dropped at once.
Free(b) ==
  IF b \in heap THEN heap' = heap \ {b} /\ UNCHANGED fault
                ELSE fault' = "freed twice" /\ UNCHANGED heap

Clone(t, u) ==
  /\ t \in handles /\ pc[t] = "idle" /\ u \notin handles
  /\ handles' = handles \cup {u}
  /\ UNCHANGED <<ptr, heap, nboxes, pc, reg, fault>>

LoadPointer(t) ==
  /\ t \in handles /\ pc[t] = "idle" /\ ptr # NULL
  /\ Take(t)
  /\ Goto(t, "deref")
  /\ UNCHANGED <<ptr, heap, nboxes, handles, fault>>

LoadValue(t) ==
  /\ pc[t] = "deref"
  /\ fault' = IF reg[t] \in heap THEN fault ELSE "read freed"
  /\ Goto(t, "idle")
  /\ UNCHANGED <<ptr, heap, nboxes, handles, reg>>

StoreSwap(t) ==
  /\ t \in handles /\ pc[t] = "idle" /\ nboxes < MaxBoxes
  /\ nboxes' = nboxes + 1
  /\ heap' = heap \cup {nboxes'}
  /\ Take(t)
  /\ ptr' = nboxes'
  /\ Goto(t, "free_old")
  /\ UNCHANGED <<handles, fault>>

\* Mutant: the box that was swapped out is kept.
StoreKeepOld(t) ==
  /\ pc[t] = "free_old"
  /\ Goto(t, "idle")
  /\ UNCHANGED <<ptr, heap, nboxes, handles, reg, fault>>

StoreFree(t) ==
  /\ pc[t] = "free_old"
  /\ IF reg[t] # NULL THEN Free(reg[t]) ELSE UNCHANGED <<heap, fault>>
  /\ Goto(t, "idle")
  /\ UNCHANGED <<ptr, nboxes, handles, reg>>

\* Mutant: every drop of a handle frees the box.
DropHandleFreeing(t) ==
  /\ t \in handles /\ pc[t] = "idle"
  /\ handles' = handles \ {t}
  /\ Free(ptr)
  /\ UNCHANGED <<ptr, nboxes, pc, reg>>

\* Drop of a handle.  AtomicValue leaves the pointer as it is; Value, which
\* goes with the last handle, swaps it for null.
DropHandle(t) ==
  /\ t \in handles /\ pc[t] = "idle"
  /\ handles' = handles \ {t}
  /\ IF (FreeAtEveryDrop \/ handles' = {}) /\ ptr # NULL
     THEN Free(ptr) ELSE UNCHANGED <<heap, fault>>
  /\ ptr' = IF ~FreeAtEveryDrop /\ handles' = {} THEN NULL ELSE ptr
  /\ UNCHANGED <<nboxes, pc, reg>>

Next ==
  /\ fault = "none"
  /\ \E t \in Thread :
       \/ \E u \in Thread : Clone(t, u)
       \/ LoadPointer(t) \/ LoadValue(t)
       \/ StoreSwap(t) \/ StoreFree(t)
       \/ DropHandle(t)

Spec == Init /\ [][Next]_vars

-----------------------------------------------------------------------------
TypeOK ==
  /\ ptr \in Box \cup {NULL}
  /\ heap \subseteq Box
  /\ nboxes \in Box
  /\ handles \subseteq Thread
  /\ pc \in [Thread -> {"idle", "deref", "free_old"}]
  /\ reg \in [Thread -> Box \cup {NULL}]
  /\ fault \in {"none", "read freed", "freed twice"}

\* Inside store, with the box it swapped out.
Swapped(t) == pc[t] = "free_old"

\* With AtomicValueUnchecked, the boxes in use are the published one and
\* those that a store has swapped out and not freed yet, each by one store
\* only: none leaks, and no store frees what another one, or the last
\* handle, frees too.
BoxesAccounted ==
  fault = "none" =>
    /\ \A b \in Box : b \in heap <=>
         \/ handles # {} /\ b = ptr
         \/ \E t \in Thread : Swapped(t) /\ b = reg[t]
    /\ \A t, u \in Thread :
         Swapped(t) /\ Swapped(u) /\ reg[t] = reg[u] => t = u
    /\ \A t \in Thread : Swapped(t) => reg[t] # ptr

\* With AtomicValueUnchecked, what stores and the drops of handles free has
\* not been freed: the shared box goes with the last handle, once.
NoDoubleFree == fault # "freed twice"

(***************************************************************************)
(* What the code does not keep.                                            *)
(***************************************************************************)

\* A value that load finds is there until load has cloned it, as it is in
\* Go's atomic.Value.
NoReadOfFreed == fault # "read freed"
=============================================================================
