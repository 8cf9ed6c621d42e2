------------------------------ MODULE Debouncer ------------------------------
(***************************************************************************)
(* internal/debounce/debouncer.go: a map of registered IDs guarded by a    *)
(* mutex, and a sync.WaitGroup passed in by each caller.  Register and     *)
(* Notify each take the lock once and touch the WaitGroup after releasing  *)
(* it, so each is two steps and the steps of different goroutines          *)
(* interleave.                                                             *)
(*                                                                         *)
(* The callers' protocol, from the engines: an ID is a fresh container ID  *)
(* or PID, so it is not registered again while a call about it is in       *)
(* flight; and it reaches the other goroutines only after Register has     *)
(* returned (docker/engine.go:95-101, jvm/engine.go:67-69), so Notify is   *)
(* never called for an ID whose Register is half done.                     *)
(***************************************************************************)
EXTENDS Integers, FiniteSets

CONSTANTS Id,         \* container IDs or PIDs
          Caller      \* goroutines that call the debouncer

VARIABLES ids,        \* registrations.ids: the keys of the map
          counter,    \* the WaitGroup's counter
          call        \* what each goroutine has left to do after the unlock

vars == <<ids, counter, call>>

Idle == [step |-> "idle"]
Pending == [step : {"add", "done"}, id : Id]

Busy(g) == call[g].step # "idle"
AddingIds == {call[g].id : g \in {h \in Caller : call[h].step = "add"}}
SettlingIds == {call[g].id : g \in {h \in Caller : call[h].step = "done"}}

Init ==
  /\ ids = {}
  /\ counter = 0
  /\ call = [g \in Caller |-> Idle]

\* Mutants of Register: the wrong key is recorded; Add is forgotten.
RegisterRecordsCaller(g, id) ==
  /\ ~Busy(g)
  /\ id \notin ids \cup SettlingIds
  /\ ids' = ids \cup {g}
  /\ call' = [call EXCEPT ![g] = [step |-> "add", id |-> id]]
  /\ UNCHANGED counter

RegisterForgetsAdd(g) ==
  /\ call[g].step = "add"
  /\ call' = [call EXCEPT ![g] = Idle]
  /\ UNCHANGED <<ids, counter>>

RegisterRecord(g, id) ==
  /\ ~Busy(g)
  /\ id \notin ids \cup SettlingIds
  /\ ids' = ids \cup {id}
  /\ call' = [call EXCEPT ![g] = [step |-> "add", id |-> id]]
  /\ UNCHANGED counter

RegisterAdd(g) ==
  /\ call[g].step = "add"
  /\ counter' = counter + 1
  /\ call' = [call EXCEPT ![g] = Idle]
  /\ UNCHANGED ids

\* Mutants of Notify: the ID is left registered; the result of the lookup is
\* ignored, so a dropped event decrements too; Done is forgotten.
NotifyKeepsId(g, id) ==
  /\ ~Busy(g)
  /\ id \notin AddingIds
  /\ id \in ids
  /\ UNCHANGED <<ids, counter>>
  /\ call' = [call EXCEPT ![g] = [step |-> "done", id |-> id]]

NotifyAlwaysDone(g, id) ==
  /\ ~Busy(g)
  /\ id \notin AddingIds
  /\ ids' = ids \ {id}
  /\ UNCHANGED counter
  /\ call' = [call EXCEPT ![g] = [step |-> "done", id |-> id]]

\* An event whose ID is not registered is dropped: no state changes.
NotifyRemove(g, id) ==
  /\ ~Busy(g)
  /\ id \notin AddingIds
  /\ id \in ids
  /\ ids' = ids \ {id}
  /\ call' = [call EXCEPT ![g] = [step |-> "done", id |-> id]]
  /\ UNCHANGED counter

NotifyDone(g) ==
  /\ call[g].step = "done"
  /\ counter' = counter - 1
  /\ call' = [call EXCEPT ![g] = Idle]
  /\ UNCHANGED ids

Next ==
  \E g \in Caller :
    \/ \E id \in Id : RegisterRecord(g, id) \/ NotifyRemove(g, id)
    \/ RegisterAdd(g)
    \/ NotifyDone(g)

\* A goroutine past the unlock runs on; nothing obliges one to call.
Fairness == \A g \in Caller : WF_vars(RegisterAdd(g) \/ NotifyDone(g))

Spec == Init /\ [][Next]_vars
FairSpec == Spec /\ Fairness

------------------------------------------------------------------------------
(* Properties *)

\* Shape of the state: the map's keys, the counter, one pending step per
\* goroutine (registrations, debouncer.go:40-43).
TypeOK ==
  /\ ids \subseteq Id
  /\ counter \in Int
  /\ call \in [Caller -> {Idle} \cup Pending]

\* The IDs the WaitGroup still owes a Done for.
OpenIds == (ids \ AddingIds) \cup SettlingIds

\* sync.WaitGroup panics on a negative counter: the two steps of Register and
\* Notify never take it there, however they interleave (debouncer.go:53-71).
CounterNeverNegative == counter >= 0

\* The WaitGroup does not release its waiter while an ID whose Register has
\* returned is still un-notified: counter 0 means every such ID was settled.
NoEarlyRelease == counter = 0 => ids \subseteq AddingIds

\* Register and Notify implement at-most-once settling, two steps each.
Abstract == INSTANCE AtMostOnce WITH open <- OpenIds, count <- counter
AtMostOncePerId == Abstract!Spec
==============================================================================
