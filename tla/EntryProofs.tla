----------------------------- MODULE EntryProofs -----------------------------
(***************************************************************************)
(* One Entry of src/sync_map.rs, for any threads, addresses and number of  *)
(* calls: every box has one owner, and the methods are those of the atomic *)
(* cell of EntrySpec.                                                      *)
(***************************************************************************)
EXTENDS Entry, FiniteSetTheorems, TLAPS

(***************************************************************************)
(* The inductive invariant, by parts.                                      *)
(***************************************************************************)

\* Where a call has a box of its own that is not in the entry yet.
HasBox == {"try_store", "try_store_cas", "store_locked", "try_load_or_store",
           "load_or_store_cas"}

\* What the place of a thread says about its call and its registers.
InPlace(t) ==
  /\ pc[t] = "idle" => call[t] = NoCall /\ res[t] = NoResult /\ own[t] = NULL
  /\ pc[t] # "idle" => call[t].id \in Id
  /\ pc[t] \in Op => call[t].op = pc[t]
  /\ pc[t] = "try_store_cas" => call[t].op = "try_store"
  /\ pc[t] = "expunge_cas" => call[t].op = "try_expunge_locked"
  /\ pc[t] = "load_or_store_cas" => call[t].op = "try_load_or_store"
  /\ pc[t] = "delete_cas" => call[t].op = "delete" /\ reg[t].addr \in Addr
  /\ pc[t] = "deref" => reg[t].id \in Id
  /\ pc[t] \in HasBox => own[t] \in Addr /\ heap[own[t]] = call[t].id

\* Boxes are owned by the entry or by one call, and all others are free.
Owned ==
  /\ \A t \in Thread : own[t] \in Addr => own[t] # p
  /\ \A t, u \in Thread : own[t] \in Addr /\ own[t] = own[u] => t = u
  /\ \A a \in Addr : heap[a] # FREE <=> (p = a \/ \E t \in Thread : own[t] = a)

IInv ==
  /\ TypeOK
  /\ Owned
  /\ \A t \in Thread : InPlace(t)

-----------------------------------------------------------------------------
(***************************************************************************)
(* Facts that the steps share.                                             *)
(***************************************************************************)

\* A step of t leaves the other threads in their places, if it frees no box
\* that one of them owns.
LEMMA OthersInPlace ==
  ASSUME IInv, NEW t \in Thread, InPlace(t)',
         \A u \in Thread \ {t} :
           /\ pc'[u] = pc[u] /\ call'[u] = call[u] /\ own'[u] = own[u]
           /\ reg'[u] = reg[u] /\ res'[u] = res[u]
           /\ own[u] \in Addr => heap'[own[u]] = heap[own[u]]
  PROVE  \A u \in Thread : InPlace(u)'
  BY DEF IInv, InPlace

\* A step that moves no box keeps every box with its owner.
LEMMA BoxesStay ==
  ASSUME IInv, UNCHANGED <<heap, own>>, p' = p \/ (p' \notin Addr /\ p \notin Addr)
  PROVE  Owned'
  BY DEF IInv, Owned

\* The exchange of the pointer takes the box of its thread and frees the one
\* that was there.
LEMMA BoxStored ==
  ASSUME IInv, NEW t \in Thread, own[t] \in Addr, Replace(own[t]),
         own' = [own EXCEPT ![t] = NULL]
  PROVE  Owned' /\ \A u \in Thread \ {t} :
                     own[u] \in Addr => heap'[own[u]] = heap[own[u]]
<1>1. own \in [Thread -> Addr \cup {NULL}] /\ heap \in [Addr -> Id \cup {FREE}]
  BY DEF IInv, TypeOK
<1>2. own[t] # p
  BY DEF IInv, Owned
<1>3. heap' \in [Addr -> Id \cup {FREE}]
      /\ \A a \in Addr : heap'[a] = IF a = p THEN FREE ELSE heap[a]
  BY <1>1 DEF Replace, FREE
<1>4. \A u \in Thread : own'[u] = IF u = t THEN NULL ELSE own[u]
  BY <1>1
<1>5. NULL \notin Addr
  BY EntryAssumption
<1>6. \A u \in Thread : own'[u] \in Addr => own'[u] # p'
  BY <1>4, <1>5 DEF IInv, Owned, Replace
<1>7. \A u, w \in Thread : own'[u] \in Addr /\ own'[u] = own'[w] => u = w
  BY <1>4, <1>5 DEF IInv, Owned
<1>8. ASSUME NEW a \in Addr
      PROVE  heap'[a] # FREE <=> (p' = a \/ \E u \in Thread : own'[u] = a)
  <2>1. heap[a] # FREE <=> (p = a \/ \E u \in Thread : own[u] = a)
    BY DEF IInv, Owned
  <2>2. CASE a = p
    BY <2>1, <2>2, <1>2, <1>3, <1>4, <1>5 DEF Replace, IInv, Owned
  <2>3. CASE a # p
    BY <2>1, <2>3, <1>3, <1>4, <1>5 DEF Replace
  <2> QED BY <2>2, <2>3
<1>9. \A u \in Thread \ {t} : own[u] \in Addr => heap'[own[u]] = heap[own[u]]
  BY <1>3 DEF IInv, Owned
<1> QED BY <1>6, <1>7, <1>8, <1>9 DEF Owned

\* Done keeps the types of what it changes.
LEMMA ResultTyped ==
  ASSUME TypeOK, NEW t \in Thread, NEW v \in Id \cup {NULL}, NEW ok \in BOOLEAN,
         Done(t, v, ok)
  PROVE  /\ pc' \in [Thread -> PC]
         /\ res' \in [Thread -> [value : Id \cup {NULL}, ok : BOOLEAN]]
<1>1. pc' = [pc EXCEPT ![t] = "done"] /\ "done" \in PC
  BY DEF Done, Goto, PC
<1>2. [value |-> v, ok |-> ok] \in [value : Id \cup {NULL}, ok : BOOLEAN]
  OBVIOUS
<1> QED BY <1>1, <1>2 DEF TypeOK, Done

\* LoadPointer keeps the types of what it changes.
LEMMA PointerTyped ==
  ASSUME TypeOK, NEW t \in Thread, NEW here \in PC, p # EXPUNGED,
         LoadPointer(t, here)
  PROVE  /\ pc' \in [Thread -> PC] /\ res' = res
         /\ reg' \in [Thread -> [addr : Addr \cup {NULL}, id : Id \cup {FREE}]]
<1>1. p \in Addr \cup {NULL} /\ (p \in Addr => heap[p] \in Id \cup {FREE})
  BY DEF TypeOK
<1>2. (IF p \in Addr THEN [addr |-> p, id |-> heap[p]] ELSE [addr |-> p, id |-> FREE])
         \in [addr : Addr \cup {NULL}, id : Id \cup {FREE}]
  BY <1>1
<1>3. pc' \in [Thread -> PC] /\ res' = res
  BY DEF TypeOK, LoadPointer, Goto
<1>4. \A f, S : f \in [Thread -> S]
              => \A x \in S : [f EXCEPT ![t] = x] \in [Thread -> S]
  OBVIOUS
<1> QED BY <1>2, <1>3, <1>4 DEF TypeOK, LoadPointer

-----------------------------------------------------------------------------
(***************************************************************************)
(* The steps, one lemma each.                                              *)
(***************************************************************************)

\* A new entry is null and no box is in use.
LEMMA InitIInv == ASSUME Init PROVE IInv
<1> USE EntryAssumption
<1>1. TypeOK
  <2>1. /\ NoCall \in [op : Op \cup {"none"}, id : Id \cup {0}]
        /\ NoResult \in [value : Id \cup {NULL}, ok : BOOLEAN]
        /\ NoBox \in [addr : Addr \cup {NULL}, id : Id \cup {FREE}]
    BY DEF NoCall, NoResult, NoBox, FREE
  <2>2. "idle" \in PC
    BY DEF PC
  <2>3. /\ call \in [Thread -> [op : Op \cup {"none"}, id : Id \cup {0}]]
        /\ reg \in [Thread -> [addr : Addr \cup {NULL}, id : Id \cup {FREE}]]
        /\ res \in [Thread -> [value : Id \cup {NULL}, ok : BOOLEAN]]
    BY <2>1 DEF Init
  <2>4. /\ p \in Addr \cup {NULL, EXPUNGED} /\ holder \in Thread \cup {NoThread}
        /\ fault \in BOOLEAN
    BY Zenon DEF Init
  <2>6. ncalls \in 0 .. MaxCalls
    BY DEF Init
  <2>5. pc \in [Thread -> PC] /\ heap \in [Addr -> Id \cup {FREE}]
        /\ own \in [Thread -> Addr \cup {NULL}]
    BY <2>2 DEF Init
  <2> QED BY <2>3, <2>4, <2>5, <2>6 DEF TypeOK
<1>2. Owned
  BY DEF Init, Owned
<1>3. \A t \in Thread : InPlace(t)
  BY DEF Init, InPlace, Op, Locked, Storing, HasBox
<1> QED BY <1>1, <1>2, <1>3 DEF IInv

\* A call begins; the value it has to store gets a box that was free.
LEMMA InvokeStep == ASSUME IInv, NEW t \in Thread, Invoke(t) PROVE IInv'
<1> USE EntryAssumption
<1>1. PICK o \in Op :
        /\ call' = [call EXCEPT ![t] = [op |-> o, id |-> ncalls']]
        /\ pc' = [pc EXCEPT ![t] = o]
        /\ holder' = IF o \in Locked THEN t ELSE holder
        /\ IF o \in Storing
           THEN \E a \in Addr :
                  /\ heap[a] = FREE
                  /\ heap' = [heap EXCEPT ![a] = ncalls']
                  /\ own' = [own EXCEPT ![t] = a]
           ELSE UNCHANGED <<heap, own>>
  BY DEF Invoke
<1>2. TypeOK /\ Owned /\ InPlace(t) /\ pc[t] = "idle" /\ own[t] = NULL
  BY DEF IInv, InPlace, Invoke
<1>3. ncalls' \in Id /\ ncalls' \in 0 .. MaxCalls /\ ncalls' # FREE
  BY <1>2 DEF TypeOK, Invoke, Id, FREE
<1>4. UNCHANGED <<p, reg, res, fault>>
  BY DEF Invoke
<1>5. CASE o \in Storing
  <2>1. PICK a \in Addr : /\ heap[a] = FREE
                          /\ heap' = [heap EXCEPT ![a] = ncalls']
                          /\ own' = [own EXCEPT ![t] = a]
    BY <1>1, <1>5
  <2>2. TypeOK'
    BY <1>1, <1>2, <1>3, <1>4, <2>1 DEF TypeOK, PC
  <2>3. p # a /\ \A u \in Thread : own[u] # a
    BY <1>2, <2>1 DEF Owned
  <2>4. own' \in [Thread -> Addr \cup {NULL}]
        /\ \A u \in Thread : own'[u] = IF u = t THEN a ELSE own[u]
    BY <1>2, <2>1 DEF TypeOK
  <2>5. \A b \in Addr : heap'[b] = IF b = a THEN ncalls' ELSE heap[b]
    BY <1>2, <2>1 DEF TypeOK
  <2>6. \A b \in Addr : heap'[b] # FREE <=> (p' = b \/ \E u \in Thread : own'[u] = b)
    BY <1>2, <1>3, <1>4, <2>3, <2>4, <2>5 DEF Owned
  <2>7. Owned'
    BY <1>2, <1>4, <2>3, <2>4, <2>6 DEF Owned
  <2>8. InPlace(t)'
    BY <1>1, <1>2, <1>3, <1>4, <1>5, <2>4, <2>5
    DEF TypeOK, InPlace, Op, Locked, Storing, HasBox
  <2>9. \A u \in Thread \ {t} : own[u] \in Addr => heap'[own[u]] = heap[own[u]]
    BY <2>3, <2>5
  <2>10. \A u \in Thread : InPlace(u)'
    <3> HIDE DEF InPlace
    <3> QED BY <1>1, <1>2, <1>4, <2>4, <2>8, <2>9, OthersInPlace DEF TypeOK
  <2> QED BY <2>2, <2>7, <2>10 DEF IInv
<1>6. CASE o \notin Storing
  <2>1. UNCHANGED <<heap, own>>
    BY <1>1, <1>6
  <2>2. TypeOK'
    BY <1>1, <1>2, <1>3, <1>4, <2>1 DEF TypeOK, PC
  <2>3. Owned'
    BY <1>4, <2>1, BoxesStay
  <2>4. InPlace(t)'
    BY <1>1, <1>2, <1>3, <1>4, <1>6, <2>1
    DEF TypeOK, InPlace, Op, Locked, Storing, HasBox
  <2>5. \A u \in Thread : InPlace(u)'
    BY <1>1, <1>2, <1>4, <2>1, <2>4, OthersInPlace DEF TypeOK
  <2> QED BY <2>2, <2>3, <2>5 DEF IInv
<1> QED BY <1>5, <1>6

\* A call returns and drops the box of a value that it could not store.
LEMMA ReturnStep == ASSUME IInv, NEW t \in Thread, Return(t) PROVE IInv'
<1> USE EntryAssumption
<1>1. TypeOK /\ Owned /\ UNCHANGED <<p, ncalls, fault>>
  BY DEF IInv, Return
<1>2. TypeOK'
  BY <1>1 DEF TypeOK, Return, PC, NoCall, NoResult, NoBox, FREE
<1>3. \A u \in Thread : own'[u] = IF u = t THEN NULL ELSE own[u]
  BY <1>1 DEF TypeOK, Return
<1>4. \A a \in Addr : heap'[a] = IF a = own[t] THEN FREE ELSE heap[a]
  BY DEF Return
<1>5. \A a \in Addr : heap'[a] # FREE <=> (p' = a \/ \E u \in Thread : own'[u] = a)
  <2> SUFFICES ASSUME NEW a \in Addr
               PROVE  heap'[a] # FREE <=> (p' = a \/ \E u \in Thread : own'[u] = a)
    OBVIOUS
  <2>1. heap[a] # FREE <=> (p = a \/ \E u \in Thread : own[u] = a)
    BY <1>1 DEF Owned
  <2>2. CASE a = own[t]
    BY <1>1, <1>3, <1>4, <2>2 DEF Owned
  <2>3. CASE a # own[t]
    BY <1>1, <1>3, <1>4, <2>1, <2>3
  <2> QED BY <2>2, <2>3
<1>6. Owned'
  BY <1>1, <1>3, <1>5 DEF Owned
<1>7. InPlace(t)'
  BY <1>1, <1>3 DEF TypeOK, Return, InPlace, Op, Locked, Storing, HasBox
<1>8. \A u \in Thread \ {t} : own[u] \in Addr => heap'[own[u]] = heap[own[u]]
  BY <1>1, <1>4 DEF Owned
<1>9. \A u \in Thread : InPlace(u)'
  BY <1>1, <1>3, <1>7, <1>8, OthersInPlace DEF TypeOK, Return
<1> QED BY <1>2, <1>6, <1>9 DEF IInv

\* A step of a method that changes only the place, the register and the
\* result of its thread, and at most one mark of the pointer for another.
LEMMA PrivateStep ==
  ASSUME IInv, NEW t \in Thread, TypeOK', InPlace(t)',
         UNCHANGED <<heap, own, call>>,
         p' = p \/ (p' \notin Addr /\ p \notin Addr),
         \A u \in Thread \ {t} :
           pc'[u] = pc[u] /\ reg'[u] = reg[u] /\ res'[u] = res[u]
  PROVE  IInv'
<1>1. Owned'
  BY BoxesStay
<1>2. \A u \in Thread : InPlace(u)'
  BY OthersInPlace
<1> QED BY <1>1, <1>2 DEF IInv

\* load takes the pointer.
LEMMA LoadStep == ASSUME IInv, NEW t \in Thread, Load(t) PROVE IInv'
<1> USE EntryAssumption
<1>1. TypeOK /\ InPlace(t) /\ Owned
  BY DEF IInv
<1>2. TypeOK'
  <2>1. UNCHANGED <<p, heap, holder, ncalls, call, own, fault>>
    BY DEF Load, locals
  <2>2. CASE UNCHANGED reg /\ Done(t, NULL, FALSE)
    BY <1>1, <2>1, <2>2, ResultTyped DEF TypeOK
  <2>3. CASE p # EXPUNGED /\ LoadPointer(t, "deref")
    <3>1. "deref" \in PC
      BY DEF PC
    <3> QED BY <1>1, <2>1, <2>3, <3>1, PointerTyped DEF TypeOK
  <2> QED BY <2>2, <2>3 DEF Load
<1>3. InPlace(t)'
  BY <1>1 DEF Load, LoadPointer, Done, Goto, TypeOK, locals, InPlace, Op,
              Locked, Storing, HasBox, Owned, FREE
<1> QED
  BY <1>1, <1>2, <1>3, PrivateStep
  DEF Load, LoadPointer, Done, Goto, TypeOK, locals

\* load and try_load_or_store read the box.
LEMMA DerefStep == ASSUME IInv, NEW t \in Thread, Deref(t) PROVE IInv'
<1> USE EntryAssumption
<1>1. TypeOK /\ InPlace(t)
  BY DEF IInv
<1>2. TypeOK'
  <2>1. UNCHANGED <<p, heap, holder, ncalls, call, own, reg>>
    BY DEF Deref, locals
  <2>2. CASE Done(t, reg[t].id, TRUE) /\ UNCHANGED fault
    <3>1. reg[t].id \in Id
      BY <1>1 DEF InPlace, Deref
    <3> QED BY <1>1, <2>1, <2>2, <3>1, ResultTyped DEF TypeOK
  <2>3. CASE fault' = TRUE /\ UNCHANGED <<pc, res>>
    BY <1>1, <2>1, <2>3 DEF TypeOK
  <2> QED BY <2>2, <2>3 DEF Deref
<1>3. InPlace(t)'
  BY <1>1 DEF Deref, Done, Goto, TypeOK, locals, InPlace, Op, Locked, Storing,
              HasBox
<1> QED BY <1>1, <1>2, <1>3, PrivateStep DEF Deref, Done, Goto, TypeOK, locals

\* try_store takes the pointer, unless it is expunged.
LEMMA TryStoreLoadStep == ASSUME IInv, NEW t \in Thread, TryStoreLoad(t) PROVE IInv'
<1> USE EntryAssumption
<1>1. TypeOK /\ InPlace(t)
  BY DEF IInv
<1>2. TypeOK'
  <2>1. UNCHANGED <<p, heap, holder, ncalls, call, own, fault>>
    BY DEF TryStoreLoad, locals
  <2>2. CASE UNCHANGED reg /\ Done(t, NULL, FALSE)
    BY <1>1, <2>1, <2>2, ResultTyped DEF TypeOK
  <2>3. CASE p # EXPUNGED /\ LoadPointer(t, "try_store_cas")
    <3>1. "try_store_cas" \in PC
      BY DEF PC
    <3> QED BY <1>1, <2>1, <2>3, <3>1, PointerTyped DEF TypeOK
  <2> QED BY <2>2, <2>3 DEF TryStoreLoad
<1>3. InPlace(t)'
  BY <1>1 DEF TryStoreLoad, LoadPointer, Done, Goto, TypeOK, locals, InPlace,
              Op, Locked, Storing, HasBox
<1> QED
  BY <1>1, <1>2, <1>3, PrivateStep
  DEF TryStoreLoad, LoadPointer, Done, Goto, TypeOK, locals

\* An exchange that puts the box of its thread into the entry.
LEMMA StoreStep ==
  ASSUME IInv, NEW t \in Thread, pc[t] \in HasBox, UNCHANGED <<holder, reg, fault>>,
         Replace(own[t]), Stored(t), Done(t, NULL, TRUE)
  PROVE  IInv'
<1> USE EntryAssumption
<1>1. TypeOK /\ InPlace(t) /\ own[t] \in Addr
  BY DEF IInv, InPlace
<1>2. TypeOK'
  BY <1>1 DEF Replace, Stored, Done, Goto, TypeOK, PC, FREE
<1>3. InPlace(t)'
  BY <1>1 DEF Stored, Done, Goto, TypeOK, InPlace, Op, Locked, Storing, HasBox
<1>4. own' = [own EXCEPT ![t] = NULL] /\ UNCHANGED <<ncalls, call>>
  BY DEF Stored
<1>5. Owned' /\ \A u \in Thread \ {t} :
                  own[u] \in Addr => heap'[own[u]] = heap[own[u]]
  BY <1>1, <1>4, BoxStored
<1>6. \A u \in Thread : InPlace(u)'
  BY <1>1, <1>3, <1>4, <1>5, OthersInPlace DEF Done, Goto, TypeOK
<1> QED BY <1>2, <1>5, <1>6 DEF IInv

\* The exchange of try_store.
LEMMA TryStoreCASStep == ASSUME IInv, NEW t \in Thread, TryStoreCAS(t) PROVE IInv'
<1> USE EntryAssumption
<1>1. CASE p = reg[t].addr
  BY <1>1, StoreStep DEF TryStoreCAS, HasBox
<1>2. CASE p # reg[t].addr
  <2>1. TypeOK /\ InPlace(t)
    BY DEF IInv
  <2>2. TypeOK'
    BY <1>2, <2>1 DEF TryStoreCAS, Goto, TypeOK, PC, Op, Storing, locals
  <2>3. InPlace(t)'
    BY <1>2, <2>1 DEF TryStoreCAS, Goto, TypeOK, locals, InPlace, Op, Locked,
                      Storing, HasBox
  <2> QED
    BY <1>2, <2>1, <2>2, <2>3, PrivateStep DEF TryStoreCAS, Goto, TypeOK, locals
<1> QED BY <1>1, <1>2

\* The exchange of store_locked.
LEMMA StoreLockedStep == ASSUME IInv, NEW t \in Thread, StoreLocked(t) PROVE IInv'
  BY StoreStep DEF StoreLocked, HasBox

\* unexpunge_locked.
LEMMA UnexpungeLockedStep ==
  ASSUME IInv, NEW t \in Thread, UnexpungeLocked(t) PROVE IInv'
<1> USE EntryAssumption
<1>1. TypeOK /\ InPlace(t)
  BY DEF IInv
<1>2. TypeOK'
  <2>1. UNCHANGED <<heap, holder, ncalls, call, own, reg, fault>>
    BY DEF UnexpungeLocked, locals
  <2>2. Done(t, NULL, p = EXPUNGED) /\ (p = EXPUNGED) \in BOOLEAN
    BY DEF UnexpungeLocked
  <2>3. p' \in Addr \cup {NULL, EXPUNGED}
    BY <1>1 DEF UnexpungeLocked, TypeOK
  <2> QED BY <1>1, <2>1, <2>2, <2>3, ResultTyped DEF TypeOK
<1>3. InPlace(t)'
  BY <1>1 DEF UnexpungeLocked, Done, Goto, TypeOK, locals, InPlace, Op, Locked,
              Storing, HasBox
<1> QED
  BY <1>1, <1>2, <1>3, PrivateStep DEF UnexpungeLocked, Done, Goto, TypeOK, locals

\* try_expunge_locked reads the pointer.
LEMMA TryExpungeLoadStep ==
  ASSUME IInv, NEW t \in Thread, TryExpungeLoad(t) PROVE IInv'
<1> USE EntryAssumption
<1>1. TypeOK /\ InPlace(t)
  BY DEF IInv
<1>2. TypeOK'
  <2>1. UNCHANGED <<p, heap, holder, ncalls, call, own, reg, fault>>
    BY DEF TryExpungeLoad, locals
  <2>2. CASE Goto(t, "expunge_cas") /\ UNCHANGED res
    BY <1>1, <2>1, <2>2 DEF TypeOK, Goto, PC
  <2>3. CASE Done(t, NULL, p = EXPUNGED)
    <3>1. (p = EXPUNGED) \in BOOLEAN
      OBVIOUS
    <3> QED BY <1>1, <2>1, <2>3, <3>1, ResultTyped DEF TypeOK
  <2> QED BY <2>2, <2>3 DEF TryExpungeLoad
<1>3. InPlace(t)'
  BY <1>1 DEF TryExpungeLoad, Done, Goto, TypeOK, locals, InPlace, Op, Locked,
              Storing, HasBox
<1> QED
  BY <1>1, <1>2, <1>3, PrivateStep DEF TryExpungeLoad, Done, Goto, TypeOK, locals

\* try_expunge_locked exchanges null for the mark.
LEMMA TryExpungeCASStep ==
  ASSUME IInv, NEW t \in Thread, TryExpungeCAS(t) PROVE IInv'
<1> USE EntryAssumption
<1>1. TypeOK /\ InPlace(t)
  BY DEF IInv
<1>2. TypeOK'
  <2>1. UNCHANGED <<heap, holder, ncalls, call, own, reg, fault>>
    BY DEF TryExpungeCAS, locals
  <2>2. CASE p' = EXPUNGED /\ Done(t, NULL, TRUE)
    BY <1>1, <2>1, <2>2, ResultTyped DEF TypeOK
  <2>3. CASE Goto(t, "try_expunge_locked") /\ UNCHANGED <<p, res>>
    BY <1>1, <2>1, <2>3 DEF TypeOK, Goto, PC, Op, Locked
  <2> QED BY <2>2, <2>3 DEF TryExpungeCAS
<1>3. InPlace(t)'
  BY <1>1 DEF TryExpungeCAS, Done, Goto, TypeOK, locals, InPlace, Op, Locked,
              Storing, HasBox
<1> QED
  BY <1>1, <1>2, <1>3, PrivateStep DEF TryExpungeCAS, Done, Goto, TypeOK, locals

\* try_load_or_store reads the pointer.
LEMMA TryLoadOrStoreLoadStep ==
  ASSUME IInv, NEW t \in Thread, TryLoadOrStoreLoad(t) PROVE IInv'
<1> USE EntryAssumption
<1>1. TypeOK /\ InPlace(t) /\ Owned
  BY DEF IInv
<1>2. TypeOK'
  <2>1. UNCHANGED <<p, heap, holder, ncalls, call, own, fault>>
    BY DEF TryLoadOrStoreLoad, locals
  <2>2. CASE UNCHANGED reg /\ Done(t, NULL, FALSE)
    BY <1>1, <2>1, <2>2, ResultTyped DEF TypeOK
  <2>3. ASSUME NEW here \in {"load_or_store_cas", "deref"}, p # EXPUNGED,
               LoadPointer(t, here)
        PROVE  TypeOK'
    <3>1. here \in PC
      BY DEF PC
    <3> QED BY <1>1, <2>1, <2>3, <3>1, PointerTyped DEF TypeOK
  <2> QED BY <2>2, <2>3 DEF TryLoadOrStoreLoad
<1>3. InPlace(t)'
  BY <1>1 DEF TryLoadOrStoreLoad, LoadPointer, Done, Goto, TypeOK, locals,
              InPlace, Op, Locked, Storing, HasBox, Owned, FREE
<1> QED
  BY <1>1, <1>2, <1>3, PrivateStep
  DEF TryLoadOrStoreLoad, LoadPointer, Done, Goto, TypeOK, locals

\* The exchange of try_load_or_store.
LEMMA TryLoadOrStoreCASStep ==
  ASSUME IInv, NEW t \in Thread, TryLoadOrStoreCAS(t) PROVE IInv'
<1> USE EntryAssumption
<1>1. CASE p = NULL
  BY <1>1, StoreStep DEF TryLoadOrStoreCAS, HasBox
<1>2. CASE p # NULL
  <2>1. TypeOK /\ InPlace(t)
    BY DEF IInv
  <2>2. TypeOK'
    BY <1>2, <2>1 DEF TryLoadOrStoreCAS, Goto, TypeOK, PC, Op, Storing, locals
  <2>3. InPlace(t)'
    BY <1>2, <2>1 DEF TryLoadOrStoreCAS, Goto, TypeOK, locals, InPlace, Op,
                      Locked, Storing, HasBox
  <2> QED
    BY <1>2, <2>1, <2>2, <2>3, PrivateStep
    DEF TryLoadOrStoreCAS, Goto, TypeOK, locals
<1> QED BY <1>1, <1>2

\* delete reads the pointer.
LEMMA DeleteLoadStep == ASSUME IInv, NEW t \in Thread, DeleteLoad(t) PROVE IInv'
<1> USE EntryAssumption
<1>1. TypeOK /\ InPlace(t)
  BY DEF IInv
<1>2. TypeOK'
  <2>1. UNCHANGED <<p, heap, holder, ncalls, call, own, fault>>
    BY DEF DeleteLoad, locals
  <2>2. CASE UNCHANGED reg /\ Done(t, NULL, FALSE)
    BY <1>1, <2>1, <2>2, ResultTyped DEF TypeOK
  <2>3. CASE p # EXPUNGED /\ LoadPointer(t, "delete_cas")
    <3>1. "delete_cas" \in PC
      BY DEF PC
    <3> QED BY <1>1, <2>1, <2>3, <3>1, PointerTyped DEF TypeOK
  <2> QED BY <2>2, <2>3 DEF DeleteLoad
<1>3. InPlace(t)'
  BY <1>1 DEF DeleteLoad, LoadPointer, Done, Goto, TypeOK, locals, InPlace, Op,
              Locked, Storing, HasBox, FREE
<1> QED
  BY <1>1, <1>2, <1>3, PrivateStep
  DEF DeleteLoad, LoadPointer, Done, Goto, TypeOK, locals

\* The exchange of delete frees the box of the entry.
LEMMA DeleteCASStep == ASSUME IInv, NEW t \in Thread, DeleteCAS(t) PROVE IInv'
<1> USE EntryAssumption
<1>1. TypeOK /\ InPlace(t) /\ Owned /\ pc[t] = "delete_cas"
  BY DEF IInv, DeleteCAS
<1>2. CASE p = reg[t].addr
  <2>1. p \in Addr /\ Replace(NULL) /\ UNCHANGED <<own, call, reg, ncalls, holder, fault>>
    BY <1>1, <1>2 DEF DeleteCAS, InPlace, locals
  <2>2. heap[p] \in Id
    BY <1>1, <2>1 DEF Owned, TypeOK
  <2>3. TypeOK'
    <3>1. Done(t, heap[p], TRUE)
      BY <1>1, <1>2 DEF DeleteCAS
    <3>2. heap' \in [Addr -> Id \cup {FREE}] /\ p' = NULL
      BY <1>1, <2>1 DEF Replace, TypeOK, FREE
    <3> QED BY <1>1, <2>1, <2>2, <3>1, <3>2, ResultTyped DEF TypeOK
  <2>4. \A a \in Addr : heap'[a] = IF a = p THEN FREE ELSE heap[a]
    BY <2>1 DEF Replace
  <2>5. Owned'
    BY <1>1, <2>1, <2>4 DEF Owned, Replace
  <2>6. InPlace(t)'
    BY <1>1, <1>2, <2>1
    DEF DeleteCAS, Done, Goto, TypeOK, InPlace, Op, Locked, Storing, HasBox
  <2>7. \A u \in Thread : InPlace(u)'
    BY <1>1, <1>2, <2>1, <2>4, <2>6, OthersInPlace
    DEF DeleteCAS, Done, Goto, TypeOK, Owned
  <2> QED BY <2>3, <2>5, <2>7 DEF IInv
<1>3. CASE p # reg[t].addr
  <2>1. TypeOK'
    BY <1>1, <1>3 DEF DeleteCAS, Goto, TypeOK, PC, Op, locals
  <2>2. InPlace(t)'
    BY <1>1, <1>3 DEF DeleteCAS, Goto, TypeOK, locals, InPlace, Op, Locked,
                      Storing, HasBox
  <2> QED
    BY <1>1, <1>3, <2>1, <2>2, PrivateStep DEF DeleteCAS, Goto, TypeOK, locals
<1> QED BY <1>2, <1>3

\* Every step keeps the invariant.
LEMMA Invariance == ASSUME IInv, [Next]_vars PROVE IInv'
<1>1. ASSUME NEW t \in Thread, Step(t) PROVE IInv'
  BY <1>1, LoadStep, DerefStep, TryStoreLoadStep, TryStoreCASStep,
     StoreLockedStep, UnexpungeLockedStep, TryExpungeLoadStep,
     TryExpungeCASStep, TryLoadOrStoreLoadStep, TryLoadOrStoreCASStep,
     DeleteLoadStep, DeleteCASStep, ReturnStep DEF Step
<1>2. CASE UNCHANGED vars
  BY <1>2 DEF vars, IInv, TypeOK, Owned, InPlace
<1> QED BY <1>1, <1>2, InvokeStep DEF Next, Stopped

\* The inductive invariant holds of every reachable state.
THEOREM Invariant == Spec => []IInv
<1>1. Init => IInv
  BY InitIInv
<1>2. IInv /\ [Next]_vars => IInv'
  BY Invariance
<1> QED BY <1>1, <1>2, PTL DEF Spec

\* The variables of an entry keep their types, over every retry loop of its
\* methods.
THEOREM TypeCorrect == Spec => []TypeOK
<1>1. IInv => TypeOK
  BY DEF IInv
<1> QED BY <1>1, Invariant, PTL

\* A box of the heap that boxes a value has one owner, the entry or one
\* call: the exchanges of try_store, store_locked, try_load_or_store and
\* delete neither lose a box nor free one that is owned.
THEOREM EveryBoxOwned == Spec => []OneOwner
<1>1. ASSUME IInv PROVE OneOwner
  <2> SUFFICES ASSUME NEW a \in Addr
               PROVE  Cardinality({t \in Thread : own[t] = a})
                        + (IF p = a THEN 1 ELSE 0)
                      = IF heap[a] = FREE THEN 0 ELSE 1
    BY DEF OneOwner
  <2> DEFINE Owners == {t \in Thread : own[t] = a}
  <2>1. Owned
    BY <1>1 DEF IInv
  <2>2. CASE \E t \in Thread : own[t] = a
    <3>1. PICK t \in Thread : own[t] = a
      BY <2>2
    <3>2. Owners = {t} /\ p # a /\ heap[a] # FREE
      BY <2>1, <3>1 DEF Owned
    <3>3. Cardinality(Owners) = 1
      BY <3>2, FS_Singleton
    <3> QED BY <3>2, <3>3
  <2>3. CASE ~ \E t \in Thread : own[t] = a
    <3>1. Owners = {} /\ (heap[a] # FREE <=> p = a)
      BY <2>1, <2>3 DEF Owned
    <3>2. Cardinality(Owners) = 0
      BY <3>1, FS_EmptySet
    <3> QED BY <3>1, <3>2
  <2> QED BY <2>2, <2>3
<1> QED BY <1>1, Invariant, PTL

-----------------------------------------------------------------------------
(***************************************************************************)
(* The methods implement those of the atomic cell of EntrySpec.            *)
(***************************************************************************)

AbsCell == IF p \in Addr THEN heap[p] ELSE p
AbsPhases == [t \in Thread |-> AbsPhase(t)]
AbsResults == [t \in Thread |-> AbsRes(t)]

\* The cell has a value exactly when the pointer points to a box.
LEMMA CellTyped ==
  ASSUME IInv
  PROVE  /\ AbsCell \in Id \cup {NULL, EXPUNGED}
         /\ p \in Addr => AbsCell = heap[p] /\ AbsCell \in Id
         /\ p \in Addr <=> AbsCell \notin {NULL, EXPUNGED}
         /\ p \notin Addr => AbsCell = p
<1>1. p \in Addr => heap[p] \in Id
  BY DEF IInv, Owned, TypeOK
<1>2. NULL \notin Id /\ EXPUNGED \notin Id
  BY EntryAssumption DEF Id
<1>3. p \in Addr \cup {NULL, EXPUNGED}
  BY DEF IInv, TypeOK
<1> QED BY <1>1, <1>2, <1>3, EntryAssumption DEF AbsCell

\* Steps that the caller does not see.
LEMMA Stutter ==
  ASSUME UNCHANGED <<AbsCell, ncalls, call>>,
         \A u \in Thread : AbsPhase(u)' = AbsPhase(u) /\ AbsRes(u)' = AbsRes(u)
  PROVE  UNCHANGED Cell!vars
<1>1. UNCHANGED <<AbsPhases, AbsResults>>
  BY DEF AbsPhases, AbsResults
<1> QED BY <1>1 DEF Cell!vars, AbsCell, AbsPhases, AbsResults

\* The step at which a call takes effect.
LEMMA TakesEffect ==
  ASSUME NEW t \in Thread, AbsPhase(t) = "called",
         NEW c \in Id \cup {NULL, EXPUNGED}, NEW v \in Id \cup {NULL},
         NEW ok \in BOOLEAN,
         Cell!Outcome(call[t].op, call[t].id, c, [value |-> v, ok |-> ok]),
         AbsCell' = c, UNCHANGED <<ncalls, call>>,
         \A u \in Thread : AbsPhase(u)' = IF u = t THEN "done" ELSE AbsPhase(u),
         \A u \in Thread :
           AbsRes(u)' = IF u = t THEN [value |-> v, ok |-> ok] ELSE AbsRes(u)
  PROVE  Cell!Effect(t)
<1>1. AbsPhases' = [AbsPhases EXCEPT ![t] = "done"] /\ AbsPhases[t] = "called"
  BY DEF AbsPhases
<1>2. AbsResults' = [AbsResults EXCEPT ![t] = [value |-> v, ok |-> ok]]
  BY DEF AbsResults
<1> QED BY <1>1, <1>2 DEF Cell!Effect, AbsCell, AbsPhases, AbsResults, Id

\* What the caller sees of the threads that do not step.
LEMMA OthersSame ==
  ASSUME NEW t \in Thread,
         \A u \in Thread \ {t} :
           pc'[u] = pc[u] /\ reg'[u] = reg[u] /\ res'[u] = res[u]
  PROVE  \A u \in Thread \ {t} : AbsPhase(u)' = AbsPhase(u) /\ AbsRes(u)' = AbsRes(u)
  BY DEF AbsPhase, AbsRes

\* A step at which a method has done its work and which leaves the result in res.
LEMMA DoneEffect ==
  ASSUME IInv, NEW t \in Thread, AbsPhase(t) = "called", pc[t] # "deref",
         NEW c \in Id \cup {NULL, EXPUNGED}, NEW v \in Id \cup {NULL},
         NEW ok \in BOOLEAN,
         Cell!Outcome(call[t].op, call[t].id, c, [value |-> v, ok |-> ok]),
         AbsCell' = c, UNCHANGED <<ncalls, call, reg>>, Done(t, v, ok)
  PROVE  Cell!Effect(t)
<1>1. pc \in [Thread -> PC]
      /\ res \in [Thread -> [value : Id \cup {NULL}, ok : BOOLEAN]]
  BY DEF IInv, TypeOK
<1>2. pc'[t] = "done" /\ res'[t] = [value |-> v, ok |-> ok]
      /\ \A u \in Thread \ {t} :
           pc'[u] = pc[u] /\ reg'[u] = reg[u] /\ res'[u] = res[u]
  BY <1>1 DEF Done, Goto
<1>3. AbsPhase(t)' = "done" /\ AbsRes(t)' = [value |-> v, ok |-> ok]
  BY <1>2 DEF AbsPhase, AbsRes
<1>4. \A u \in Thread \ {t} : AbsPhase(u)' = AbsPhase(u) /\ AbsRes(u)' = AbsRes(u)
  BY <1>2, OthersSame
<1> QED BY <1>3, <1>4, TakesEffect

\* A step at which load or try_load_or_store finds the box of a value.
LEMMA FoundEffect ==
  ASSUME IInv, NEW t \in Thread, AbsPhase(t) = "called", pc[t] # "deref", p \in Addr,
         call[t].op \in {"load", "try_load_or_store"},
         UNCHANGED <<p, heap, ncalls, call>>, LoadPointer(t, "deref")
  PROVE  Cell!Effect(t)
<1>1. TypeOK
  BY DEF IInv
<1>2. AbsCell = heap[p] /\ AbsCell \in Id /\ AbsCell \notin {NULL, EXPUNGED}
  BY CellTyped
<1>3. Cell!Outcome(call[t].op, call[t].id, AbsCell, [value |-> AbsCell, ok |-> TRUE])
  BY <1>2 DEF Cell!Outcome, Cell!HasValue, Cell!Found, AbsCell
<1>4. pc'[t] = "deref" /\ reg'[t].id = heap[p]
      /\ \A u \in Thread \ {t} :
           pc'[u] = pc[u] /\ reg'[u] = reg[u] /\ res'[u] = res[u]
  BY <1>1 DEF LoadPointer, Goto, TypeOK
<1>5. AbsPhase(t)' = "done" /\ AbsRes(t)' = [value |-> AbsCell, ok |-> TRUE]
  BY <1>2, <1>4 DEF AbsPhase, AbsRes
<1>6. \A u \in Thread \ {t} : AbsPhase(u)' = AbsPhase(u) /\ AbsRes(u)' = AbsRes(u)
  BY <1>4, OthersSame
<1>7. AbsCell' = AbsCell
  BY DEF AbsCell
<1> QED BY <1>2, <1>3, <1>5, <1>6, <1>7, TakesEffect

\* A step inside the retry loop of a method.
LEMMA QuietStep ==
  ASSUME NEW t \in Thread, UNCHANGED <<p, heap, ncalls, call>>,
         AbsPhase(t)' = AbsPhase(t), AbsRes(t)' = AbsRes(t),
         \A u \in Thread \ {t} :
           pc'[u] = pc[u] /\ reg'[u] = reg[u] /\ res'[u] = res[u]
  PROVE  UNCHANGED Cell!vars
<1>1. \A u \in Thread \ {t} : AbsPhase(u)' = AbsPhase(u) /\ AbsRes(u)' = AbsRes(u)
  BY OthersSame
<1>2. AbsCell' = AbsCell
  BY DEF AbsCell
<1> QED BY <1>1, <1>2, Stutter

\* The phase of a thread at each of its places.
LEMMA PhaseOf ==
  ASSUME NEW t \in Thread
  PROVE  /\ pc[t] = "idle" => AbsPhase(t) = "idle"
         /\ pc[t] \in {"deref", "done"} => AbsPhase(t) = "done"
         /\ pc[t] \notin {"idle", "deref", "done"} => AbsPhase(t) = "called"
         /\ pc[t] # "deref" => AbsRes(t) = res[t]
  BY DEF AbsPhase, AbsRes

\* A step that moves t from one place inside its method to another.
LEMMA RetryStep ==
  ASSUME IInv, NEW t \in Thread, NEW here \in PC \ {"idle", "deref", "done"},
         pc[t] \notin {"idle", "deref", "done"}, Goto(t, here),
         UNCHANGED <<p, heap, ncalls, call, res>>,
         \A u \in Thread \ {t} : reg'[u] = reg[u]
  PROVE  UNCHANGED Cell!vars
<1>1. pc \in [Thread -> PC]
  BY DEF IInv, TypeOK
<1>2. pc'[t] = here /\ \A u \in Thread \ {t} : pc'[u] = pc[u]
  BY <1>1 DEF Goto
<1>3. AbsPhase(t)' = AbsPhase(t) /\ AbsRes(t)' = AbsRes(t)
  BY <1>2 DEF AbsPhase, AbsRes
<1> QED BY <1>2, <1>3, QuietStep

\* A call begins.
LEMMA InvokeSim == ASSUME IInv, NEW t \in Thread, Invoke(t) PROVE Cell!Invoke(t)
<1>1. TypeOK /\ Owned
  BY DEF IInv
<1>2. PICK o \in Op :
        /\ call' = [call EXCEPT ![t] = [op |-> o, id |-> ncalls']]
        /\ pc' = [pc EXCEPT ![t] = o]
        /\ IF o \in Storing
           THEN \E a \in Addr :
                  /\ heap[a] = FREE
                  /\ heap' = [heap EXCEPT ![a] = ncalls']
                  /\ own' = [own EXCEPT ![t] = a]
           ELSE UNCHANGED <<heap, own>>
  BY DEF Invoke
<1>3. pc[t] = "idle" /\ ncalls < MaxCalls /\ ncalls' = ncalls + 1
      /\ UNCHANGED <<p, reg, res>>
  BY DEF Invoke
<1>4. p \in Addr => heap'[p] = heap[p]
  BY <1>1, <1>2 DEF Owned, TypeOK
<1>5. UNCHANGED AbsCell
  BY <1>3, <1>4 DEF AbsCell
<1>6. pc'[t] = o /\ \A u \in Thread \ {t} : pc'[u] = pc[u]
  BY <1>1, <1>2 DEF TypeOK
<1>7. o \notin {"idle", "deref", "done"}
  BY DEF Op, Locked, Storing
<1>8. AbsPhase(t) = "idle" /\ AbsPhase(t)' = "called" /\ AbsRes(t)' = AbsRes(t)
  BY <1>3, <1>6, <1>7 DEF AbsPhase, AbsRes
<1>9. \A u \in Thread \ {t} : AbsPhase(u)' = AbsPhase(u) /\ AbsRes(u)' = AbsRes(u)
  BY <1>3, <1>6, OthersSame
<1>10. /\ AbsPhases[t] = "idle"
       /\ AbsPhases' = [AbsPhases EXCEPT ![t] = "called"]
       /\ AbsResults' = AbsResults
  BY <1>8, <1>9 DEF AbsPhases, AbsResults
<1> QED
  BY <1>2, <1>3, <1>5, <1>10
  DEF Cell!Invoke, AbsCell, AbsPhases, AbsResults

\* A call returns.
LEMMA ReturnSim == ASSUME IInv, NEW t \in Thread, Return(t) PROVE Cell!Return(t)
<1>1. TypeOK /\ Owned
  BY DEF IInv
<1>2. p \in Addr => p # own[t]
  BY <1>1 DEF Owned
<1>3. AbsCell' = AbsCell
  BY <1>2 DEF Return, AbsCell
<1>4. pc[t] = "done" /\ pc'[t] = "idle" /\ res'[t] = NoResult
      /\ \A u \in Thread \ {t} :
           pc'[u] = pc[u] /\ reg'[u] = reg[u] /\ res'[u] = res[u]
  BY <1>1 DEF Return, TypeOK
<1>5. AbsPhase(t) = "done" /\ AbsPhase(t)' = "idle" /\ AbsRes(t)' = NoResult
  BY <1>4 DEF AbsPhase, AbsRes
<1>6. \A u \in Thread \ {t} : AbsPhase(u)' = AbsPhase(u) /\ AbsRes(u)' = AbsRes(u)
  BY <1>4, OthersSame
<1>7. /\ AbsPhases[t] = "done"
      /\ AbsPhases' = [AbsPhases EXCEPT ![t] = "idle"]
      /\ AbsResults' = [AbsResults EXCEPT ![t] = NoResult]
  BY <1>5, <1>6 DEF AbsPhases, AbsResults
<1>8. call' = [call EXCEPT ![t] = NoCall] /\ UNCHANGED ncalls
  BY DEF Return
<1> QED
  BY <1>3, <1>7, <1>8
  DEF Cell!Return, Cell!NoCall, Cell!NoResult, NoCall, NoResult, AbsCell,
      AbsPhases, AbsResults

\* load takes effect when it takes the pointer.
LEMMA LoadSim == ASSUME IInv, NEW t \in Thread, Load(t) PROVE Cell!Effect(t)
<1>1. pc[t] = "load" /\ call[t].op = "load" /\ AbsPhase(t) = "called"
      /\ UNCHANGED <<p, heap, ncalls, call>>
  BY PhaseOf DEF IInv, InPlace, Load, Op, locals
<1>2. CASE p \in Addr
  BY <1>1, <1>2, FoundEffect DEF Load
<1>3. CASE p \notin Addr
  <2>1. AbsCell \in {NULL, EXPUNGED} /\ AbsCell' = AbsCell
    BY <1>1, <1>3, CellTyped DEF AbsCell
  <2>2. Cell!Outcome(call[t].op, call[t].id, AbsCell, [value |-> NULL, ok |-> FALSE])
    BY <1>1, <2>1 DEF Cell!Outcome, Cell!HasValue, Cell!Failed, AbsCell
  <2>3. Done(t, NULL, FALSE) /\ UNCHANGED reg
    BY <1>3 DEF Load
  <2> QED BY <1>1, <2>1, <2>2, <2>3, DoneEffect
<1> QED BY <1>2, <1>3

\* The caller does not see the box being read, or the step that stops the model.
LEMMA DerefSim == ASSUME IInv, NEW t \in Thread, Deref(t) PROVE UNCHANGED Cell!vars
<1>1. pc[t] = "deref" /\ UNCHANGED <<p, heap, ncalls, call, reg>> /\ TypeOK
  BY DEF IInv, Deref, locals
<1>2. CASE Done(t, reg[t].id, TRUE)
  <2>1. pc'[t] = "done" /\ res'[t] = [value |-> reg[t].id, ok |-> TRUE]
        /\ \A u \in Thread \ {t} : pc'[u] = pc[u] /\ res'[u] = res[u]
    BY <1>1, <1>2 DEF Done, Goto, TypeOK
  <2>2. AbsPhase(t)' = AbsPhase(t) /\ AbsRes(t)' = AbsRes(t)
    BY <1>1, <2>1 DEF AbsPhase, AbsRes
  <2> QED BY <1>1, <2>1, <2>2, QuietStep
<1>3. CASE UNCHANGED <<pc, res>>
  <2>1. AbsPhase(t)' = AbsPhase(t) /\ AbsRes(t)' = AbsRes(t)
    BY <1>1, <1>3 DEF AbsPhase, AbsRes
  <2> QED BY <1>1, <1>3, <2>1, QuietStep
<1> QED BY <1>2, <1>3 DEF Deref

\* try_store fails when it takes an expunged pointer.
LEMMA TryStoreLoadSim ==
  ASSUME IInv, NEW t \in Thread, TryStoreLoad(t)
  PROVE  Cell!Effect(t) \/ UNCHANGED Cell!vars
<1>1. pc[t] = "try_store" /\ call[t].op = "try_store" /\ AbsPhase(t) = "called"
      /\ UNCHANGED <<p, heap, ncalls, call>> /\ TypeOK
  BY PhaseOf DEF IInv, InPlace, TryStoreLoad, Op, Storing, locals
<1>2. CASE p = EXPUNGED
  <2>1. AbsCell = EXPUNGED /\ AbsCell' = AbsCell
    BY <1>1, <1>2, EntryAssumption DEF AbsCell
  <2>2. Cell!Outcome(call[t].op, call[t].id, AbsCell, [value |-> NULL, ok |-> FALSE])
    BY <1>1, <2>1 DEF Cell!Outcome, Cell!Failed, AbsCell
  <2>3. Done(t, NULL, FALSE) /\ UNCHANGED reg
    BY <1>2 DEF TryStoreLoad
  <2> QED BY <1>1, <2>1, <2>2, <2>3, DoneEffect
<1>3. CASE p # EXPUNGED
  <2>1. LoadPointer(t, "try_store_cas") /\ "try_store_cas" \in PC
    BY <1>3 DEF TryStoreLoad, PC
  <2>2. Goto(t, "try_store_cas") /\ UNCHANGED res
        /\ \A u \in Thread \ {t} : reg'[u] = reg[u]
    BY <1>1, <2>1 DEF LoadPointer, TypeOK
  <2> QED BY <1>1, <2>1, <2>2, RetryStep
<1> QED BY <1>2, <1>3

\* A store takes effect at the exchange.
LEMMA StoreSim ==
  ASSUME IInv, NEW t \in Thread, pc[t] \in HasBox, p # EXPUNGED \/ pc[t] = "store_locked",
         pc[t] = "load_or_store_cas" => p = NULL,
         pc[t] \in {"try_store_cas", "store_locked", "load_or_store_cas"},
         UNCHANGED reg, Replace(own[t]), Stored(t), Done(t, NULL, TRUE)
  PROVE  Cell!Effect(t)
<1>1. TypeOK /\ own[t] \in Addr /\ heap[own[t]] = call[t].id /\ own[t] # p
      /\ call[t].id \in Id /\ AbsPhase(t) = "called"
  BY PhaseOf DEF IInv, InPlace, Owned, HasBox
<1>2. call[t].op = CASE pc[t] = "try_store_cas" -> "try_store"
                     [] pc[t] = "store_locked" -> "store_locked"
                     [] pc[t] = "load_or_store_cas" -> "try_load_or_store"
  BY DEF IInv, InPlace, Op, Locked
<1>3. AbsCell' = call[t].id
  BY <1>1 DEF Replace, AbsCell
<1>4. (p # EXPUNGED => AbsCell # EXPUNGED) /\ (p = NULL => AbsCell = NULL)
  BY CellTyped, EntryAssumption DEF Id
<1>5. Cell!Outcome(call[t].op, call[t].id, call[t].id, [value |-> NULL, ok |-> TRUE])
  <2>1. CASE pc[t] = "try_store_cas"
    BY <1>2, <1>4, <2>1 DEF Cell!Outcome, Cell!Found, AbsCell
  <2>2. CASE pc[t] = "store_locked"
    BY <1>2, <2>2 DEF Cell!Outcome, Cell!Found, AbsCell
  <2>3. CASE pc[t] = "load_or_store_cas"
    BY <1>2, <1>4, <2>3, EntryAssumption DEF Cell!Outcome, Cell!Found, AbsCell
  <2> QED BY <2>1, <2>2, <2>3
<1>6. UNCHANGED <<ncalls, call>>
  BY DEF Stored
<1> QED BY <1>1, <1>3, <1>5, <1>6, DoneEffect

\* The exchange of try_store.
LEMMA TryStoreCASSim ==
  ASSUME IInv, NEW t \in Thread, TryStoreCAS(t)
  PROVE  Cell!Effect(t) \/ UNCHANGED Cell!vars
<1>1. pc[t] = "try_store_cas" /\ UNCHANGED reg /\ TypeOK
  BY DEF IInv, TryStoreCAS
<1>2. CASE p = reg[t].addr
  <2>1. p # EXPUNGED
    BY <1>1, <1>2, EntryAssumption DEF TypeOK
  <2> QED BY <1>1, <1>2, <2>1, StoreSim DEF TryStoreCAS, HasBox
<1>3. CASE p # reg[t].addr
  <2>1. Goto(t, "try_store") /\ UNCHANGED <<p, heap, ncalls, call, res>>
        /\ "try_store" \in PC
    BY <1>3 DEF TryStoreCAS, locals, PC, Op, Storing
  <2> QED BY <1>1, <2>1, RetryStep
<1> QED BY <1>2, <1>3

\* The exchange of store_locked.
LEMMA StoreLockedSim ==
  ASSUME IInv, NEW t \in Thread, StoreLocked(t) PROVE Cell!Effect(t)
  BY StoreSim DEF StoreLocked, HasBox

\* unexpunge_locked is one exchange.
LEMMA UnexpungeLockedSim ==
  ASSUME IInv, NEW t \in Thread, UnexpungeLocked(t) PROVE Cell!Effect(t)
<1>1. pc[t] = "unexpunge_locked" /\ call[t].op = "unexpunge_locked"
      /\ AbsPhase(t) = "called" /\ UNCHANGED <<heap, ncalls, call, reg>>
  BY PhaseOf DEF IInv, InPlace, UnexpungeLocked, Op, Locked, locals
<1>2. CASE p = EXPUNGED
  <2>1. AbsCell = EXPUNGED /\ AbsCell' = NULL
    BY <1>2, EntryAssumption DEF AbsCell, UnexpungeLocked
  <2>2. Cell!Outcome(call[t].op, call[t].id, NULL, [value |-> NULL, ok |-> TRUE])
    BY <1>1, <2>1 DEF Cell!Outcome, Cell!Found, AbsCell
  <2>3. Done(t, NULL, TRUE)
    BY <1>2 DEF UnexpungeLocked
  <2> QED BY <1>1, <2>1, <2>2, <2>3, DoneEffect
<1>3. CASE p # EXPUNGED
  <2>1. p' = p /\ Done(t, NULL, FALSE)
    BY <1>3 DEF UnexpungeLocked
  <2>2. AbsCell \in Id \cup {NULL, EXPUNGED} /\ AbsCell # EXPUNGED /\ AbsCell' = AbsCell
    BY <1>1, <1>3, <2>1, CellTyped DEF AbsCell
  <2>3. Cell!Outcome(call[t].op, call[t].id, AbsCell, [value |-> NULL, ok |-> FALSE])
    BY <1>1, <2>2 DEF Cell!Outcome, Cell!Failed, AbsCell
  <2> QED BY <1>1, <2>1, <2>2, <2>3, DoneEffect
<1> QED BY <1>2, <1>3

\* try_expunge_locked takes effect at a load of a pointer that is not null.
LEMMA TryExpungeLoadSim ==
  ASSUME IInv, NEW t \in Thread, TryExpungeLoad(t)
  PROVE  Cell!Effect(t) \/ UNCHANGED Cell!vars
<1>1. pc[t] = "try_expunge_locked" /\ call[t].op = "try_expunge_locked"
      /\ AbsPhase(t) = "called" /\ UNCHANGED <<p, heap, ncalls, call, reg>>
      /\ AbsCell' = AbsCell
  BY PhaseOf DEF IInv, InPlace, TryExpungeLoad, Op, Locked, locals, AbsCell
<1>2. CASE p = NULL
  <2>1. Goto(t, "expunge_cas") /\ UNCHANGED res /\ "expunge_cas" \in PC
    BY <1>2 DEF TryExpungeLoad, PC
  <2> QED BY <1>1, <2>1, RetryStep
<1>3. CASE p = EXPUNGED
  <2>1. AbsCell = EXPUNGED /\ Done(t, NULL, TRUE)
    BY <1>3, EntryAssumption DEF AbsCell, TryExpungeLoad
  <2>2. Cell!Outcome(call[t].op, call[t].id, EXPUNGED, [value |-> NULL, ok |-> TRUE])
    BY <1>1, <2>1 DEF Cell!Outcome, Cell!HasValue, Cell!Found, AbsCell
  <2> QED BY <1>1, <2>1, <2>2, DoneEffect
<1>4. CASE p \notin {NULL, EXPUNGED}
  <2>1. Done(t, NULL, FALSE)
    BY <1>4 DEF TryExpungeLoad
  <2>2. AbsCell \in Id /\ AbsCell \notin {NULL, EXPUNGED}
    BY <1>4, CellTyped DEF IInv, TypeOK
  <2>3. Cell!Outcome(call[t].op, call[t].id, AbsCell, [value |-> NULL, ok |-> FALSE])
    BY <1>1, <2>2 DEF Cell!Outcome, Cell!HasValue, Cell!Failed, AbsCell
  <2> QED BY <1>1, <2>1, <2>2, <2>3, DoneEffect
<1> QED BY <1>2, <1>3, <1>4

\* Else it takes effect at the exchange.
LEMMA TryExpungeCASSim ==
  ASSUME IInv, NEW t \in Thread, TryExpungeCAS(t)
  PROVE  Cell!Effect(t) \/ UNCHANGED Cell!vars
<1>1. pc[t] = "expunge_cas" /\ call[t].op = "try_expunge_locked"
      /\ AbsPhase(t) = "called" /\ UNCHANGED <<heap, ncalls, call, reg>>
  BY PhaseOf DEF IInv, InPlace, TryExpungeCAS, locals
<1>2. CASE p = NULL
  <2>1. AbsCell = NULL /\ AbsCell' = EXPUNGED /\ Done(t, NULL, TRUE)
    BY <1>2, EntryAssumption DEF AbsCell, TryExpungeCAS
  <2>2. Cell!Outcome(call[t].op, call[t].id, EXPUNGED, [value |-> NULL, ok |-> TRUE])
    BY <1>1, <2>1 DEF Cell!Outcome, Cell!HasValue, Cell!Found, AbsCell
  <2> QED BY <1>1, <2>1, <2>2, DoneEffect
<1>3. CASE p # NULL
  <2>1. Goto(t, "try_expunge_locked") /\ UNCHANGED <<p, res>>
        /\ "try_expunge_locked" \in PC
    BY <1>3 DEF TryExpungeCAS, PC, Op, Locked
  <2> QED BY <1>1, <2>1, RetryStep
<1> QED BY <1>2, <1>3

\* try_load_or_store takes effect at a load of a pointer that is not null.
LEMMA TryLoadOrStoreLoadSim ==
  ASSUME IInv, NEW t \in Thread, TryLoadOrStoreLoad(t)
  PROVE  Cell!Effect(t) \/ UNCHANGED Cell!vars
<1>1. pc[t] = "try_load_or_store" /\ call[t].op = "try_load_or_store"
      /\ AbsPhase(t) = "called" /\ UNCHANGED <<p, heap, ncalls, call>> /\ TypeOK
  BY PhaseOf DEF IInv, InPlace, TryLoadOrStoreLoad, Op, Storing, locals
<1>2. CASE p = EXPUNGED
  <2>1. AbsCell = EXPUNGED /\ AbsCell' = AbsCell /\ Done(t, NULL, FALSE)
        /\ UNCHANGED reg
    BY <1>1, <1>2, EntryAssumption DEF AbsCell, TryLoadOrStoreLoad
  <2>2. Cell!Outcome(call[t].op, call[t].id, AbsCell, [value |-> NULL, ok |-> FALSE])
    BY <1>1, <2>1, EntryAssumption DEF Cell!Outcome, Cell!Failed, AbsCell
  <2> QED BY <1>1, <2>1, <2>2, DoneEffect
<1>3. CASE p = NULL
  <2>1. LoadPointer(t, "load_or_store_cas") /\ "load_or_store_cas" \in PC
    BY <1>3, EntryAssumption DEF TryLoadOrStoreLoad, PC
  <2>2. Goto(t, "load_or_store_cas") /\ UNCHANGED res
        /\ \A u \in Thread \ {t} : reg'[u] = reg[u]
    BY <1>1, <2>1 DEF LoadPointer, TypeOK
  <2> QED BY <1>1, <2>1, <2>2, RetryStep
<1>4. CASE p \in Addr
  BY <1>1, <1>4, FoundEffect, EntryAssumption DEF TryLoadOrStoreLoad
<1> QED BY <1>1, <1>2, <1>3, <1>4 DEF TypeOK

\* Else it takes effect at the exchange.
LEMMA TryLoadOrStoreCASSim ==
  ASSUME IInv, NEW t \in Thread, TryLoadOrStoreCAS(t)
  PROVE  Cell!Effect(t) \/ UNCHANGED Cell!vars
<1>1. pc[t] = "load_or_store_cas" /\ UNCHANGED reg
  BY DEF TryLoadOrStoreCAS
<1>2. CASE p = NULL
  BY <1>1, <1>2, StoreSim, EntryAssumption DEF TryLoadOrStoreCAS, HasBox
<1>3. CASE p # NULL
  <2>1. Goto(t, "try_load_or_store") /\ UNCHANGED <<p, heap, ncalls, call, res>>
        /\ "try_load_or_store" \in PC
    BY <1>3 DEF TryLoadOrStoreCAS, locals, PC, Op, Storing
  <2> QED BY <1>1, <2>1, RetryStep
<1> QED BY <1>2, <1>3

\* delete takes effect at a load that finds no value.
LEMMA DeleteLoadSim ==
  ASSUME IInv, NEW t \in Thread, DeleteLoad(t)
  PROVE  Cell!Effect(t) \/ UNCHANGED Cell!vars
<1>1. pc[t] = "delete" /\ call[t].op = "delete" /\ AbsPhase(t) = "called"
      /\ UNCHANGED <<p, heap, ncalls, call>> /\ TypeOK
  BY PhaseOf DEF IInv, InPlace, DeleteLoad, Op, locals
<1>2. CASE p \notin Addr
  <2>1. AbsCell \in {NULL, EXPUNGED} /\ AbsCell' = AbsCell
    BY <1>1, <1>2, CellTyped DEF AbsCell
  <2>2. Cell!Outcome(call[t].op, call[t].id, AbsCell, [value |-> NULL, ok |-> FALSE])
    BY <1>1, <2>1 DEF Cell!Outcome, Cell!HasValue, Cell!Failed, AbsCell
  <2>3. Done(t, NULL, FALSE) /\ UNCHANGED reg
    BY <1>2 DEF DeleteLoad
  <2> QED BY <1>1, <2>1, <2>2, <2>3, DoneEffect
<1>3. CASE p \in Addr
  <2>1. LoadPointer(t, "delete_cas") /\ "delete_cas" \in PC
    BY <1>3 DEF DeleteLoad, PC
  <2>2. Goto(t, "delete_cas") /\ UNCHANGED res
        /\ \A u \in Thread \ {t} : reg'[u] = reg[u]
    BY <1>1, <2>1 DEF LoadPointer, TypeOK
  <2> QED BY <1>1, <2>1, <2>2, RetryStep
<1> QED BY <1>2, <1>3

\* Else it takes effect at the exchange.
LEMMA DeleteCASSim ==
  ASSUME IInv, NEW t \in Thread, DeleteCAS(t)
  PROVE  Cell!Effect(t) \/ UNCHANGED Cell!vars
<1>1. pc[t] = "delete_cas" /\ call[t].op = "delete" /\ reg[t].addr \in Addr
      /\ AbsPhase(t) = "called" /\ UNCHANGED <<ncalls, call, reg>>
  BY PhaseOf DEF IInv, InPlace, DeleteCAS, locals
<1>2. CASE p = reg[t].addr
  <2>1. AbsCell = heap[p] /\ AbsCell \in Id /\ AbsCell \notin {NULL, EXPUNGED}
    BY <1>1, <1>2, CellTyped
  <2>2. Done(t, AbsCell, TRUE) /\ AbsCell' = NULL
    BY <1>1, <1>2, <2>1, EntryAssumption DEF DeleteCAS, Replace, AbsCell
  <2>3. Cell!Outcome(call[t].op, call[t].id, NULL, [value |-> AbsCell, ok |-> TRUE])
    BY <1>1, <2>1 DEF Cell!Outcome, Cell!HasValue, Cell!Found, AbsCell
  <2> QED BY <1>1, <2>1, <2>2, <2>3, DoneEffect
<1>3. CASE p # reg[t].addr
  <2>1. Goto(t, "delete") /\ UNCHANGED <<p, heap, res>> /\ "delete" \in PC
    BY <1>3 DEF DeleteCAS, PC, Op
  <2> QED BY <1>1, <2>1, RetryStep
<1> QED BY <1>2, <1>3

\* The initial state of an entry is that of the cell.
LEMMA InitSim == ASSUME Init PROVE Cell!Init
<1>1. AbsCell = NULL
  BY EntryAssumption DEF Init, AbsCell
<1>2. \A t \in Thread : AbsPhase(t) = "idle" /\ AbsRes(t) = NoResult
  BY DEF Init, AbsPhase, AbsRes
<1>3. AbsPhases = [t \in Thread |-> "idle"] /\ AbsResults = [t \in Thread |-> NoResult]
  BY <1>2 DEF AbsPhases, AbsResults
<1> QED
  BY <1>1, <1>3
  DEF Init, Cell!Init, NoCall, NoResult, Cell!NoCall, Cell!NoResult, AbsCell,
      AbsPhases, AbsResults

\* Every step is one of the cell or is not seen.
LEMMA StepSim == ASSUME IInv, [Next]_vars PROVE [Cell!Next]_Cell!vars
<1>1. ASSUME NEW t \in Thread, Step(t)
      PROVE  Cell!Effect(t) \/ Cell!Return(t) \/ UNCHANGED Cell!vars
  BY <1>1, LoadSim, DerefSim, TryStoreLoadSim, TryStoreCASSim, StoreLockedSim,
     UnexpungeLockedSim, TryExpungeLoadSim, TryExpungeCASSim,
     TryLoadOrStoreLoadSim, TryLoadOrStoreCASSim, DeleteLoadSim, DeleteCASSim,
     ReturnSim DEF Step
<1>2. CASE UNCHANGED vars
  <2>1. UNCHANGED <<AbsCell, ncalls, call>>
    BY <1>2 DEF vars, AbsCell
  <2>2. \A u \in Thread : AbsPhase(u)' = AbsPhase(u) /\ AbsRes(u)' = AbsRes(u)
    BY <1>2 DEF vars, AbsPhase, AbsRes
  <2> QED BY <2>1, <2>2, Stutter
<1>3. ASSUME NEW t \in Thread, Invoke(t) PROVE Cell!Invoke(t)
  BY <1>3, InvokeSim
<1> QED BY <1>1, <1>2, <1>3 DEF Next, Stopped, Cell!Next

\* The methods of an entry are atomic for any number of threads, addresses
\* and calls: retries, addresses used again (A-B-A), and the dereference that
\* comes a step after the load do not show.  The map takes them to be so.
THEOREM MethodsAtomic == Spec => Atomic
<1>1. Init => Cell!Init
  BY InitSim
<1>2. IInv /\ [Next]_vars => [Cell!Next]_Cell!vars
  BY StepSim
<1> QED BY <1>1, <1>2, Invariant, PTL DEF Spec, Atomic, Cell!Spec
=============================================================================
