--------------------------- MODULE DirWatcherProofs ---------------------------
(***************************************************************************)
(* What holds of the directory watcher for any number of edits and of      *)
(* events.                                                                 *)
(***************************************************************************)
EXTENDS DirWatcher, TLAPS

(***************************************************************************)
(* An event that still stands to cause a restart, because the flag is up   *)
(* and will be read or was read, has not caused one yet.                   *)
(***************************************************************************)
Counts ==
  /\ edits \in Nat /\ polled \in Nat /\ served \in Nat /\ pending \in Nat
  /\ events \in Nat /\ restarts \in Nat
  /\ edits <= MaxEdits /\ polled <= edits /\ served <= edits
  /\ pending <= MaxEvents
  /\ events + pending <= MaxEvents * polled
  /\ restarts <= events
  /\ (ticker = "send" \/ (ticker = "idle" /\ dirUpdated)) => restarts < events

Labels ==
  /\ watching \in BOOLEAN /\ dirUpdated \in BOOLEAN /\ unseen \in BOOLEAN /\ lost \in BOOLEAN
  /\ ticker \in {"idle", "send", "reset"}
  /\ loop \in {"receive", "restarting", "booting"}

IInv == Counts /\ Labels

\* The watcher starts with nothing edited, seen or notified.
LEMMA InitIInv == WatcherInit => IInv
<1>1. WatcherInit => Labels
  BY Zenon DEF WatcherInit, Labels
<1>2. WatcherInit => Counts
  BY BoundsAssumption DEF WatcherInit, Counts
<1> QED
  BY <1>1, <1>2 DEF IInv

\* One more scan leaves room for the events of one more scan.
LEMMA ScanBounds ==
  ASSUME NEW m \in Nat, NEW a \in Nat, NEW b \in Nat, a <= b
  PROVE  m * a <= m * b
<1>1. PICK k \in Nat : b = a + k
  <2>1. (b - a) \in Nat /\ b = a + (b - a)
    OBVIOUS
  <2> QED
    BY <2>1
<1>2. m * b = m * a + m * k
  BY <1>1
<1>3. m * k \in Nat /\ m * a \in Nat
  OBVIOUS
<1> QED
  BY <1>2, <1>3

\* ... whatever they are.
LEMMA Within == \A c, d, m, e, n \in Nat : (c + m <= d /\ e <= c /\ n <= m) => e + n <= d
  OBVIOUS

\* Each step of the four goroutines keeps the counts in order.
LEMMA StepCounts == IInv /\ [WatcherNext]_watcherVars => Counts'
<1> SUFFICES ASSUME IInv, [WatcherNext]_watcherVars PROVE Counts'
  OBVIOUS
<1> USE BoundsAssumption DEF IInv, Counts, Labels
<1>1. CASE Edit
  BY <1>1 DEF Edit
<1>2. CASE Poll
  <2>1. /\ pending = 0 /\ polled < edits /\ polled' = edits
        /\ edits' = edits /\ served' = served /\ events' = events /\ restarts' = restarts
        /\ ticker' = ticker /\ dirUpdated' = dirUpdated
    BY ONLY <1>2 DEF Poll
  <2>2. pending' \in 1..MaxEvents
    BY ONLY <1>2 DEF Poll
  <2>3. pending' \in Nat /\ pending' <= MaxEvents
    BY <2>2
  <2>4. MaxEvents * (polled + 1) <= MaxEvents * edits
    BY ScanBounds, <2>1
  <2>5. MaxEvents * (polled + 1) = MaxEvents * polled + MaxEvents
    OBVIOUS
  <2>6. events <= MaxEvents * polled
    BY <2>1
  <2>7. events + pending' <= MaxEvents * edits
    <3>1. /\ MaxEvents * polled \in Nat /\ MaxEvents * edits \in Nat
          /\ MaxEvents * polled + MaxEvents <= MaxEvents * edits
      BY <2>4, <2>5
    <3>2. events \in Nat /\ MaxEvents \in Nat
      OBVIOUS
    <3> QED
      BY ONLY Within, <2>3, <2>6, <3>1, <3>2
  <2>8. events' + pending' <= MaxEvents * polled'
    BY <2>7, <2>1
  <2>9. /\ edits' \in Nat /\ polled' \in Nat /\ served' \in Nat /\ events' \in Nat
        /\ restarts' \in Nat /\ edits' <= MaxEdits /\ polled' <= edits' /\ served' <= edits'
        /\ restarts' <= events'
        /\ (ticker' = "send" \/ (ticker' = "idle" /\ dirUpdated')) => restarts' < events'
    BY <2>1
  <2> QED
    BY ONLY <2>3, <2>8, <2>9 DEF Counts
<1>3. CASE Event
  <2>1. /\ pending > 0 /\ pending' = pending - 1 /\ events' = events + 1
        /\ edits' = edits /\ polled' = polled /\ served' = served /\ restarts' = restarts
    BY ONLY <1>3 DEF Event
  <2>2. pending' \in Nat /\ events' \in Nat /\ restarts' < events' /\ pending' <= MaxEvents
    BY <2>1
  <2>3. events' + pending' = events + pending
    BY <2>1
  <2>4. events' + pending' <= MaxEvents * polled'
    BY <2>1, <2>3
  <2>5. /\ edits' \in Nat /\ polled' \in Nat /\ served' \in Nat /\ restarts' \in Nat
        /\ edits' <= MaxEdits /\ polled' <= edits' /\ served' <= edits'
        /\ restarts' <= events'
    BY <2>1
  <2> QED
    BY ONLY <2>2, <2>4, <2>5 DEF Counts
<1>4. CASE Tick
  BY <1>4 DEF Tick
<1>5. CASE Notify
  BY <1>5 DEF Notify
<1>6. CASE Reset
  BY <1>6 DEF Reset
<1>7. CASE MockReads
  BY <1>7 DEF MockReads
<1>8. CASE Restarted
  BY <1>8 DEF Restarted
<1>9. CASE UNCHANGED watcherVars
  BY <1>9 DEF watcherVars
<1> QED
  BY <1>1, <1>2, <1>3, <1>4, <1>5, <1>6, <1>7, <1>8, <1>9 DEF WatcherNext

\* ... and its flags and labels in place.
LEMMA StepLabels == IInv /\ [WatcherNext]_watcherVars => Labels'
<1> SUFFICES ASSUME Labels, [WatcherNext]_watcherVars PROVE Labels'
  BY DEF IInv
<1> USE DEF Labels
<1>1. CASE Edit \/ Poll \/ MockReads \/ Restarted \/ UNCHANGED watcherVars
  BY <1>1, Zenon DEF Edit, Poll, MockReads, Restarted, watcherVars
<1>2. CASE Event \/ Tick \/ Notify \/ Reset
  <2>1. watching' \in BOOLEAN /\ dirUpdated' \in BOOLEAN /\ unseen' \in BOOLEAN /\ lost' \in BOOLEAN
    BY <1>2, Zenon DEF Event, Tick, Notify, Reset
  <2>2. ticker' \in {"idle", "send", "reset"} /\ loop' \in {"receive", "restarting", "booting"}
    BY <1>2 DEF Event, Tick, Notify, Reset
  <2> QED
    BY <2>1, <2>2
<1> QED
  BY <1>1, <1>2 DEF WatcherNext

\* The inductive invariant holds throughout.
LEMMA Invariance == WatcherSpec => []IInv
<1>1. IInv /\ [WatcherNext]_watcherVars => IInv'
  BY StepCounts, StepLabels DEF IInv
<1> QED
  BY InitIInv, <1>1, PTL DEF WatcherSpec

\* The counts and labels of WatchDir stay in range, in the order edits happen,
\* are seen, and are notified (dirwatcher.go:28-72).
THEOREM TypeCorrect == WatcherSpec => []WatcherTypeOK
<1>1. ASSUME IInv PROVE WatcherTypeOK
  <2> USE BoundsAssumption, <1>1 DEF IInv, Counts
  <2>1. MaxEvents * polled <= MaxEvents * MaxEdits
    BY ScanBounds
  <2>2. MaxEvents * polled \in Nat /\ MaxEvents * MaxEdits \in Nat
    OBVIOUS
  <2> DEFINE c == MaxEvents * polled
             d == MaxEvents * MaxEdits
  <2>3. /\ c \in Nat /\ d \in Nat /\ c <= d /\ events + pending <= c
        /\ events \in Nat /\ pending \in Nat /\ restarts \in Nat /\ restarts <= events
    BY <2>1, <2>2
  <2> HIDE DEF c, d
  <2>4. events \in 0..d /\ restarts \in 0..d
    BY ONLY <2>3
  <2>5. edits \in 0..MaxEdits /\ polled \in 0..edits /\ served \in 0..edits
        /\ pending \in 0..MaxEvents
    OBVIOUS
  <2> QED
    BY ONLY <1>1, <2>4, <2>5 DEF d, IInv, Labels, WatcherTypeOK
<1> QED
  BY Invariance, <1>1, PTL

\* There are never more restarts than events (dirwatcher.go:58-69).
THEOREM RestartsAreDue == WatcherSpec => []NoSpuriousRestart
<1>1. IInv => NoSpuriousRestart
  BY DEF IInv, Counts, NoSpuriousRestart
<1> QED
  BY Invariance, <1>1, PTL
==============================================================================
