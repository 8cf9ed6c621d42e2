-------------------------- MODULE DebouncerProofs --------------------------
(***************************************************************************)
(* What holds of the debouncer for every set of IDs and goroutines.        *)
(***************************************************************************)
EXTENDS Debouncer, FiniteSetTheorems, TLAPS

(***************************************************************************)
(* The inductive strengthening.  Goroutines between the unlock and their   *)
(* WaitGroup call hold different IDs; an ID being added is in the map, one *)
(* being settled is not; so OpenIds grows and shrinks by exactly the ID    *)
(* whose Add or Done is executed, and the counter is its size.             *)
(***************************************************************************)
PendingApart ==
  \A g, h \in Caller : Busy(g) /\ Busy(h) /\ g # h => call[g].id # call[h].id

PendingInPlace ==
  \A g \in Caller :
    /\ call[g].step = "add" => call[g].id \in ids
    /\ call[g].step = "done" => call[g].id \notin ids

CounterIsOpen ==
  /\ IsFiniteSet(OpenIds)
  /\ counter = Cardinality(OpenIds)

IInv == TypeOK /\ PendingApart /\ PendingInPlace /\ CounterIsOpen

\* Nothing is registered, added or settled at first.
LEMMA InitInv == Init => IInv
<1> SUFFICES ASSUME Init PROVE IInv
  OBVIOUS
<1>1. TypeOK /\ PendingApart /\ PendingInPlace
  BY DEF Init, TypeOK, PendingApart, PendingInPlace, Busy, Idle
<1>2. OpenIds = {}
  BY DEF Init, OpenIds, AddingIds, SettlingIds, Idle
<1>3. CounterIsOpen
  BY <1>2, FS_EmptySet DEF Init, CounterIsOpen
<1> QED
  BY <1>1, <1>3 DEF IInv

\* The two effects a step can have on the set of open IDs and the counter.
LEMMA CounterGrows ==
  ASSUME NEW id, CounterIsOpen, id \notin OpenIds,
         OpenIds' = OpenIds \cup {id}, counter' = counter + 1
  PROVE  CounterIsOpen'
BY FS_AddElement DEF CounterIsOpen

\* ... by one ID less.
LEMMA CounterShrinks ==
  ASSUME NEW id, CounterIsOpen, id \in OpenIds,
         OpenIds' = OpenIds \ {id}, counter' = counter - 1
  PROVE  CounterIsOpen'
BY FS_RemoveElement DEF CounterIsOpen

\* Recording the ID marks it as being added (debouncer.go:53-56).
LEMMA RegisterRecordOpens ==
  ASSUME IInv, NEW g \in Caller, NEW id \in Id, RegisterRecord(g, id)
  PROVE  IInv' /\ OpenIds' = OpenIds
<1> USE DEF RegisterRecord, Busy, Idle
<1>1. TypeOK' /\ PendingInPlace'
  BY DEF IInv, TypeOK, Pending, PendingInPlace, SettlingIds
<1>2. PendingApart'
  BY DEF IInv, TypeOK, Pending, PendingApart, PendingInPlace, SettlingIds
<1>3. AddingIds' = AddingIds \cup {id} /\ SettlingIds' = SettlingIds
  BY DEF IInv, TypeOK, Pending, AddingIds, SettlingIds
<1>4. OpenIds' = OpenIds
  <2>1. id \notin OpenIds /\ id \notin ids
    BY DEF OpenIds
  <2> QED
    BY <1>3, <2>1 DEF OpenIds
<1>5. CounterIsOpen'
  BY <1>4 DEF IInv, CounterIsOpen
<1> QED
  BY <1>1, <1>2, <1>4, <1>5 DEF IInv

\* The Add opens it (debouncer.go:57).
LEMMA RegisterAddOpens ==
  ASSUME IInv, NEW g \in Caller, RegisterAdd(g)
  PROVE  /\ IInv'
         /\ call[g].id \in Id /\ call[g].id \notin OpenIds
         /\ OpenIds' = OpenIds \cup {call[g].id}
<1> DEFINE id == call[g].id
<1>1. TypeOK' /\ PendingInPlace' /\ PendingApart'
  BY DEF RegisterAdd, IInv, TypeOK, Pending, Idle, PendingInPlace, PendingApart, Busy
<1>2. /\ id \in Id /\ id \in ids
      /\ \A h \in Caller : h # g /\ Busy(h) => call[h].id # id
  BY DEF RegisterAdd, IInv, TypeOK, Pending, Idle, PendingInPlace, PendingApart, Busy
<1>3. id \in AddingIds /\ id \notin SettlingIds
  BY <1>2 DEF RegisterAdd, AddingIds, SettlingIds, Busy
<1>4. AddingIds' = AddingIds \ {id} /\ SettlingIds' = SettlingIds
  BY <1>2 DEF RegisterAdd, IInv, TypeOK, AddingIds, SettlingIds, Busy, Idle
<1>5. id \notin OpenIds /\ OpenIds' = OpenIds \cup {id}
  BY <1>2, <1>3, <1>4 DEF OpenIds, RegisterAdd
<1>6. CounterIsOpen'
  BY <1>5, CounterGrows DEF IInv, RegisterAdd
<1> QED
  BY <1>1, <1>2, <1>5, <1>6 DEF IInv

\* Removing the ID marks it as being settled (debouncer.go:60-67).
LEMMA NotifyRemoveOpens ==
  ASSUME IInv, NEW g \in Caller, NEW id \in Id, NotifyRemove(g, id)
  PROVE  IInv' /\ OpenIds' = OpenIds
<1> USE DEF NotifyRemove, Busy, Idle
<1>1. TypeOK'
  BY DEF IInv, TypeOK, Pending
<1>2. \A h \in Caller : call[h].step # "idle" => call[h].id # id
  BY DEF IInv, TypeOK, Pending, PendingInPlace, AddingIds
<1>3. PendingInPlace'
  BY <1>2 DEF IInv, TypeOK, Pending, PendingInPlace
<1>4. PendingApart'
  BY <1>2 DEF IInv, TypeOK, Pending, PendingApart
<1>5. AddingIds' = AddingIds /\ SettlingIds' = SettlingIds \cup {id}
  BY DEF IInv, TypeOK, Pending, AddingIds, SettlingIds
<1>6. OpenIds' = OpenIds
  BY <1>5 DEF OpenIds
<1>7. CounterIsOpen'
  BY <1>6 DEF IInv, CounterIsOpen
<1> QED
  BY <1>1, <1>3, <1>4, <1>6, <1>7 DEF IInv

\* The Done closes it (debouncer.go:68-70).
LEMMA NotifyDoneOpens ==
  ASSUME IInv, NEW g \in Caller, NotifyDone(g)
  PROVE  /\ IInv'
         /\ call[g].id \in Id /\ call[g].id \in OpenIds
         /\ OpenIds' = OpenIds \ {call[g].id}
<1> DEFINE id == call[g].id
<1>1. TypeOK' /\ PendingInPlace' /\ PendingApart'
  BY DEF NotifyDone, IInv, TypeOK, Pending, Idle, PendingInPlace, PendingApart, Busy
<1>2. /\ id \in Id /\ id \notin ids
      /\ \A h \in Caller : h # g /\ Busy(h) => call[h].id # id
  BY DEF NotifyDone, IInv, TypeOK, Pending, Idle, PendingInPlace, PendingApart, Busy
<1>3. id \in SettlingIds /\ SettlingIds' = SettlingIds \ {id} /\ AddingIds' = AddingIds
  BY <1>2 DEF NotifyDone, IInv, TypeOK, AddingIds, SettlingIds, Busy, Idle
<1>4. id \in OpenIds /\ OpenIds' = OpenIds \ {id}
  BY <1>2, <1>3 DEF OpenIds, NotifyDone
<1>5. CounterIsOpen'
  BY <1>4, CounterShrinks DEF IInv, NotifyDone
<1> QED
  BY <1>1, <1>2, <1>4, <1>5 DEF IInv

\* Nothing changes, nothing breaks.
LEMMA StutterInv ==
  ASSUME IInv, UNCHANGED vars
  PROVE  IInv' /\ OpenIds' = OpenIds
BY DEF IInv, vars, TypeOK, PendingApart, PendingInPlace, CounterIsOpen,
       OpenIds, AddingIds, SettlingIds, Busy

\* Every step keeps the invariant ...
LEMMA NextInv == IInv /\ [Next]_vars => IInv'
BY RegisterRecordOpens, RegisterAddOpens, NotifyRemoveOpens, NotifyDoneOpens,
   StutterInv DEF Next

\* ... which holds throughout.
LEMMA Inductive == Spec => []IInv
<1>1. Init => IInv
  BY InitInv
<1>2. IInv /\ [Next]_vars => IInv'
  BY NextInv
<1> QED
  BY <1>1, <1>2, PTL DEF Spec

\* The shape of the state is kept for every set of IDs and goroutines.
THEOREM TypeCorrect == Spec => []TypeOK
BY Inductive, PTL DEF IInv

\* No interleaving of Register and Notify makes sync.WaitGroup panic.
THEOREM NeverNegative == Spec => []CounterNeverNegative
<1>1. IInv => CounterNeverNegative
  BY FS_CardinalityType DEF IInv, CounterIsOpen, CounterNeverNegative
<1> QED
  BY <1>1, Inductive, PTL

\* A counter of zero means every ID whose Register returned has been settled.
THEOREM NoneReleasedEarly == Spec => []NoEarlyRelease
<1>1. IInv => NoEarlyRelease
  <2> SUFFICES ASSUME IInv, counter = 0 PROVE ids \subseteq AddingIds
    BY DEF NoEarlyRelease
  <2>1. OpenIds = {}
    BY FS_EmptySet DEF IInv, CounterIsOpen
  <2> QED
    BY <2>1 DEF OpenIds
<1> QED
  BY <1>1, Inductive, PTL

(***************************************************************************)
(* The two-step Register and Notify implement the abstract debouncer: the  *)
(* Add and the Done are its two operations, every other step stutters.     *)
(***************************************************************************)
THEOREM Implements == Spec => AtMostOncePerId
<1>1. Init => Abstract!Init
  BY DEF Init, Abstract!Init, OpenIds, AddingIds, SettlingIds, Idle
<1>2. IInv /\ [Next]_vars => [Abstract!Next]_(Abstract!vars)
  <2> SUFFICES ASSUME IInv, [Next]_vars
               PROVE  [Abstract!Next]_(Abstract!vars)
    OBVIOUS
  <2>1. ASSUME NEW g \in Caller, NEW id \in Id, RegisterRecord(g, id)
        PROVE  UNCHANGED Abstract!vars
    BY <2>1, RegisterRecordOpens DEF Abstract!vars, RegisterRecord
  <2>2. ASSUME NEW g \in Caller, RegisterAdd(g)
        PROVE  Abstract!Next
    BY <2>2, RegisterAddOpens DEF Abstract!Next, Abstract!Open, Abstract!Settle, RegisterAdd
  <2>3. ASSUME NEW g \in Caller, NEW id \in Id, NotifyRemove(g, id)
        PROVE  UNCHANGED Abstract!vars
    BY <2>3, NotifyRemoveOpens DEF Abstract!vars, NotifyRemove
  <2>4. ASSUME NEW g \in Caller, NotifyDone(g)
        PROVE  Abstract!Next
    BY <2>4, NotifyDoneOpens DEF Abstract!Next, Abstract!Open, Abstract!Settle, NotifyDone
  <2>5. CASE UNCHANGED vars
    BY <2>5, StutterInv DEF Abstract!vars, vars
  <2> QED
    BY <2>1, <2>2, <2>3, <2>4, <2>5 DEF Next
<1> QED
  BY <1>1, <1>2, Inductive, PTL DEF Spec, AtMostOncePerId, Abstract!Spec
=============================================================================
