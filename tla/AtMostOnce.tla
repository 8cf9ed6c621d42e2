----------------------------- MODULE AtMostOnce -----------------------------
(***************************************************************************)
(* What the debouncer promises its callers: "a WaitGroup with at-most-once *)
(* semantics for a given ID" (internal/debounce/debouncer.go, Debouncer).  *)
(* Opening an ID adds one to the counter, settling it takes that one away, *)
(* and an ID that is not open cannot be settled.                           *)
(***************************************************************************)
EXTENDS Integers

CONSTANT Id           \* container IDs or PIDs

VARIABLES open,       \* IDs registered and not settled yet
          count       \* the WaitGroup's counter

vars == <<open, count>>

Init ==
  /\ open = {}
  /\ count = 0

Open(id) ==
  /\ id \notin open
  /\ open' = open \cup {id}
  /\ count' = count + 1

Settle(id) ==
  /\ id \in open
  /\ open' = open \ {id}
  /\ count' = count - 1

Next == \E id \in Id : Open(id) \/ Settle(id)

Spec == Init /\ [][Next]_vars
=============================================================================
