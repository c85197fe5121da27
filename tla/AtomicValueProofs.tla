------------------------- MODULE AtomicValueProofs -------------------------
(***************************************************************************)
(* AtomicValueUnchecked neither leaks a box nor frees one twice, for any   *)
(* number of threads, handles and stores.                                  *)
(***************************************************************************)
EXTENDS AtomicValue, TLAPS

\* A thread inside load or store has a handle, and with a handle there is a
\* published box.
HandlesKept ==
  /\ \A t \in Thread : pc[t] # "idle" => t \in handles
  /\ handles # {} => ptr \in Box

\* The box that a store allocates is none of those that are in use.
BoxesNumbered ==
  /\ ptr <= nboxes
  /\ \A b \in heap : b <= nboxes
  /\ \A t \in Thread : pc[t] = "free_old" => reg[t] \in Box /\ reg[t] <= nboxes

IInv ==
  /\ TypeOK
  /\ HandlesKept
  /\ BoxesNumbered
  /\ BoxesAccounted
  /\ NoDoubleFree

\* A new value has one box and one handle.
LEMMA InitIInv == ASSUME Init PROVE IInv
<1> USE AtomicValueAssumption
<1>1. TypeOK
  BY DEF Init, TypeOK, Box, NULL
<1>2. HandlesKept /\ BoxesNumbered /\ NoDoubleFree
  BY DEF Init, HandlesKept, BoxesNumbered, NoDoubleFree, Box
<1>3. BoxesAccounted
  BY DEF Init, BoxesAccounted, Swapped
<1> QED BY <1>1, <1>2, <1>3 DEF IInv

\* A step that changes neither boxes nor which thread is in a store.
LEMMA QuietStep ==
  ASSUME IInv, TypeOK', HandlesKept', UNCHANGED <<ptr, heap, nboxes>>,
         handles = {} <=> handles' = {},
         fault' # "freed twice",
         fault = "none",
         \A t \in Thread :
           /\ pc[t] = "free_old" <=> pc'[t] = "free_old"
           /\ pc[t] = "free_old" => reg'[t] = reg[t]
  PROVE  IInv'
<1>1. BoxesNumbered'
  BY DEF IInv, BoxesNumbered
<1>2. BoxesAccounted'
  BY DEF IInv, BoxesAccounted, Swapped
<1> QED BY <1>1, <1>2 DEF IInv, NoDoubleFree

\* AtomicValueUnchecked::clone.
LEMMA CloneStep ==
  ASSUME IInv, fault = "none", NEW t \in Thread, NEW u \in Thread, Clone(t, u)
  PROVE  IInv'
<1>1. TypeOK' /\ HandlesKept'
  BY DEF IInv, TypeOK, HandlesKept, Clone
<1> QED BY <1>1, QuietStep DEF Clone

\* AtomicValueUnchecked::load, its two steps.
LEMMA LoadStep ==
  ASSUME IInv, fault = "none", NEW t \in Thread, LoadPointer(t) \/ LoadValue(t)
  PROVE  IInv'
<1>1. TypeOK' /\ HandlesKept'
  BY DEF IInv, TypeOK, HandlesKept, LoadPointer, LoadValue, Take, Goto
<1>2. \A u \in Thread : /\ pc[u] = "free_old" <=> pc'[u] = "free_old"
                        /\ pc[u] = "free_old" => reg'[u] = reg[u]
  BY DEF IInv, TypeOK, LoadPointer, LoadValue, Take, Goto
<1> QED BY <1>1, <1>2, QuietStep DEF LoadPointer, LoadValue

\* The swap in AtomicValueUnchecked::store.
LEMMA StoreSwapStep ==
  ASSUME IInv, fault = "none", NEW t \in Thread, StoreSwap(t)
  PROVE  IInv'
<1> USE DEF IInv, StoreSwap, Take, Goto
<1>1. ptr \in Box /\ t \in handles /\ nboxes \in Nat /\ nboxes' \in Box
  BY AtomicValueAssumption DEF TypeOK, HandlesKept, Box
<1>2. TypeOK'
  BY <1>1 DEF TypeOK
<1>3. HandlesKept'
  BY <1>1 DEF TypeOK, HandlesKept
<1>4. BoxesNumbered'
  BY <1>1 DEF TypeOK, BoxesNumbered, Box
<1>5. BoxesAccounted'
  <2>1. /\ Swapped(t)' /\ reg'[t] = ptr /\ heap' = heap \cup {ptr'} /\ ptr \in heap
        /\ handles' # {} /\ fault' = "none"
    BY <1>1 DEF TypeOK, Swapped, BoxesAccounted
  <2>2. \A u \in Thread : u # t => (Swapped(u)' <=> Swapped(u)) /\ reg'[u] = reg[u]
    BY DEF TypeOK, Swapped
  <2>3. ~Swapped(t)
    BY DEF Swapped
  <2>4. \A u \in Thread : Swapped(u)' => reg'[u] # ptr'
    BY <1>1, <2>1, <2>2 DEF BoxesNumbered, Box, Swapped
  <2>5. \A u, v \in Thread : Swapped(u)' /\ Swapped(v)' /\ reg'[u] = reg'[v] => u = v
    BY <2>1, <2>2 DEF BoxesAccounted
  <2>6. \A b \in Box : b \in heap' <=>
           \/ handles' # {} /\ b = ptr'
           \/ \E u \in Thread : Swapped(u)' /\ b = reg'[u]
    BY <2>1, <2>2, <2>3 DEF BoxesAccounted
  <2> QED BY <2>4, <2>5, <2>6 DEF BoxesAccounted
<1> QED BY <1>2, <1>3, <1>4, <1>5 DEF NoDoubleFree

\* The Box::from_raw in AtomicValueUnchecked::store.
LEMMA StoreFreeStep ==
  ASSUME IInv, fault = "none", NEW t \in Thread, StoreFree(t)
  PROVE  IInv'
<1> USE DEF IInv, StoreFree, Goto
<1>1. reg[t] \in heap /\ reg[t] # NULL
  BY DEF BoxesAccounted, BoxesNumbered, Swapped, Box, NULL
<1>5. heap' = heap \ {reg[t]} /\ fault' = fault
  BY <1>1 DEF Free
<1>2. TypeOK'
  BY <1>5 DEF TypeOK
<1>3. HandlesKept' /\ BoxesNumbered'
  BY <1>5 DEF TypeOK, HandlesKept, BoxesNumbered
<1>4. BoxesAccounted'
  <2>1. ~Swapped(t)' /\ Swapped(t)
    BY DEF TypeOK, Swapped
  <2>2. \A u \in Thread : u # t => (Swapped(u)' <=> Swapped(u))
    BY DEF TypeOK, Swapped
  <2>3. \A b \in Box : b \in heap' <=>
           \/ handles' # {} /\ b = ptr'
           \/ \E u \in Thread : Swapped(u)' /\ b = reg'[u]
    BY <1>5, <2>1, <2>2 DEF BoxesAccounted
  <2> QED BY <2>1, <2>2, <2>3 DEF BoxesAccounted
<1> QED BY <1>2, <1>3, <1>4, <1>5 DEF NoDoubleFree

\* The drop of a handle; with the last one, Value::drop.
LEMMA DropHandleStep ==
  ASSUME IInv, fault = "none", FreeAtEveryDrop = FALSE,
         NEW t \in Thread, DropHandle(t)
  PROVE  IInv'
<1> USE DEF IInv, DropHandle
<1>1. ptr \in heap /\ ptr \in Box /\ ptr # NULL
  BY DEF BoxesAccounted, HandlesKept, Box, NULL
<1>2. CASE handles' # {}
  <2>1. UNCHANGED <<ptr, heap, fault>>
    BY <1>2
  <2>2. TypeOK' /\ HandlesKept'
    BY <2>1 DEF TypeOK, HandlesKept
  <2> QED BY <1>2, <2>1, <2>2, QuietStep
<1>3. CASE handles' = {}
  <2>1. heap' = heap \ {ptr} /\ ptr' = NULL /\ fault' = fault
    BY <1>1, <1>3 DEF Free
  <2>2. \A u \in Thread : pc[u] = "idle"
    BY <1>3 DEF HandlesKept
  <2>3. TypeOK' /\ HandlesKept'
    BY <1>3, <2>1, <2>2 DEF TypeOK, HandlesKept, NULL
  <2>4. BoxesNumbered'
    BY <2>1, <2>2 DEF TypeOK, BoxesNumbered, NULL, Box
  <2>5. BoxesAccounted'
    BY <1>3, <2>1, <2>2 DEF BoxesAccounted, Swapped
  <2> QED BY <2>1, <2>3, <2>4, <2>5 DEF NoDoubleFree
<1> QED BY <1>2, <1>3

\* Every step of AtomicValueUnchecked keeps the invariant.
LEMMA NextIInv ==
  ASSUME IInv, FreeAtEveryDrop = FALSE, [Next]_vars
  PROVE  IInv'
<1>1. CASE Next
  BY <1>1, CloneStep, LoadStep, StoreSwapStep, StoreFreeStep, DropHandleStep DEF Next
<1>2. CASE UNCHANGED vars
  <2>1. UNCHANGED <<ptr, heap, nboxes, handles, pc, reg, fault>>
    BY <1>2 DEF vars
  <2> QED BY <2>1 DEF IInv, TypeOK, HandlesKept, BoxesNumbered, BoxesAccounted, NoDoubleFree, Swapped
<1> QED BY <1>1, <1>2

\* The inductive invariant of AtomicValueUnchecked.
THEOREM Invariance == ASSUME FreeAtEveryDrop = FALSE PROVE Spec => []IInv
<1>1. Init => IInv
  BY InitIInv
<1>2. IInv /\ [Next]_vars => IInv'
  BY NextIInv
<1> QED BY <1>1, <1>2, PTL DEF Spec

\* The boxes in use are the published one and those of the stores that have
\* yet to free them: AtomicValueUnchecked leaks nothing.
THEOREM NothingLeaks == ASSUME FreeAtEveryDrop = FALSE PROVE Spec => []BoxesAccounted
<1>1. IInv => BoxesAccounted
  BY DEF IInv
<1> QED BY <1>1, Invariance, PTL

\* Neither the stores nor the drop of the last handle free a box that has
\* been freed, as long as no load has read one.
THEOREM FreedOnce == ASSUME FreeAtEveryDrop = FALSE PROVE Spec => []NoDoubleFree
<1>1. IInv => NoDoubleFree
  BY DEF IInv
<1> QED BY <1>1, Invariance, PTL
=============================================================================
