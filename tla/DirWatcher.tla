------------------------------ MODULE DirWatcher ------------------------------
(***************************************************************************)
(* internal/fileutil/dirwatcher.go: from an edit of the configuration to   *)
(* the restarted mock that serves it.  Four goroutines: the polling        *)
(* library, the one that receives its events and raises dirUpdated, the    *)
(* ticker that lowers it, and the restart loop of cmd/up.go start(), which *)
(* receives from the unbuffered channel and restarts the mock.             *)
(*                                                                         *)
(* dirUpdated is shared without a lock; each access is a step.  The        *)
(* library and the mock are external.                                      *)
(***************************************************************************)
EXTENDS Naturals

CONSTANTS
  MaxEdits,     \* bound: edits of the directory
  MaxEvents     \* bound: events of one scan; one edit may cause several

ASSUME BoundsAssumption == MaxEdits \in Nat /\ MaxEvents \in Nat

VARIABLES
  watching,     \* the library follows the directory: AddRecursive succeeded
  edits,        \* edits made to the directory so far
  polled,       \* edits the library's last scan saw
  pending,      \* events of that scan not yet received
  dirUpdated,   \* the flag
  ticker,       \* the ticker goroutine: idle, send (on updatedC), or reset
  loop,         \* the restart loop: receive, restarting, or booting
  served,       \* edits the mock saw when it last read its configuration
  events,       \* history: events received
  restarts,     \* history: restarts begun
  unseen,       \* history: an event came since the ticker last read the flag
                \* or handed over a notification
  lost          \* history: such an event's flag was lowered unread

watcherVars == <<watching, edits, polled, pending, dirUpdated, ticker, loop, served, events,
          restarts, unseen, lost>>

\* AddRecursive may fail: WatchDir warns, and goes on with nothing to watch.
WatcherInit ==
  /\ watching \in BOOLEAN
  /\ edits = 0 /\ polled = 0 /\ pending = 0
  /\ dirUpdated = FALSE
  /\ ticker = "idle" /\ loop = "receive"
  /\ served = 0
  /\ events = 0 /\ restarts = 0 /\ unseen = FALSE /\ lost = FALSE

Edit ==
  /\ edits < MaxEdits
  /\ edits' = edits + 1
  /\ UNCHANGED <<watching, polled, pending, dirUpdated, ticker, loop, served, events,
                 restarts, unseen, lost>>

\* w.Start: every 500 ms, events for what changed since the last scan, sent
\* one by one before the next scan.
Poll ==
  /\ watching /\ pending = 0 /\ polled < edits
  /\ polled' = edits
  /\ pending' \in 1..MaxEvents
  /\ UNCHANGED <<watching, edits, dirUpdated, ticker, loop, served, events, restarts,
                 unseen, lost>>

\* case <-w.Event: dirUpdated = true
Event ==
  /\ pending > 0
  /\ pending' = pending - 1
  /\ dirUpdated' = TRUE
  /\ events' = events + 1
  /\ unseen' = TRUE
  /\ UNCHANGED <<watching, edits, polled, ticker, loop, served, restarts, lost>>

\* Mutant: a notification that cannot be handed over at once is dropped.
TickSkipsWhenBusy ==
  /\ ticker = "idle"
  /\ ticker' = IF dirUpdated /\ loop = "receive" THEN "send" ELSE "reset"
  /\ unseen' = FALSE
  /\ UNCHANGED <<watching, edits, polled, pending, dirUpdated, loop, served, events, restarts,
                 lost>>

\* <-ticker.C, then the flag is read.
Tick ==
  /\ ticker = "idle"
  /\ ticker' = IF dirUpdated THEN "send" ELSE "reset"
  /\ unseen' = FALSE
  /\ UNCHANGED <<watching, edits, polled, pending, dirUpdated, loop, served, events, restarts,
                 lost>>

\* updatedC <- true meets <-dirUpdated: Restart begins.
Notify ==
  /\ ticker = "send" /\ loop = "receive"
  /\ ticker' = "reset"
  /\ loop' = "restarting"
  /\ restarts' = restarts + 1
  /\ unseen' = FALSE
  /\ UNCHANGED <<watching, edits, polled, pending, dirUpdated, served, events, lost>>

\* Mutant: the flag is left up.
ResetForgotten ==
  /\ ticker = "reset"
  /\ ticker' = "idle"
  /\ UNCHANGED <<watching, edits, polled, pending, dirUpdated, loop, served, events, restarts,
                 unseen, lost>>

\* dirUpdated = false, whatever was read before.
Reset ==
  /\ ticker = "reset"
  /\ ticker' = "idle"
  /\ dirUpdated' = FALSE
  /\ lost' = (lost \/ unseen)
  /\ UNCHANGED <<watching, edits, polled, pending, loop, served, events, restarts, unseen>>

\* The new mock reads its configuration on the way up.
MockReads ==
  /\ loop = "restarting"
  /\ loop' = "booting"
  /\ served' = edits
  /\ UNCHANGED <<watching, edits, polled, pending, dirUpdated, ticker, events, restarts,
                 unseen, lost>>

\* It is healthy, or given up on: Restart returns.
Restarted ==
  /\ loop = "booting"
  /\ loop' = "receive"
  /\ UNCHANGED <<watching, edits, polled, pending, dirUpdated, ticker, served, events, restarts,
                 unseen, lost>>

WatcherNext == Edit \/ Poll \/ Event \/ Tick \/ Notify \/ Reset \/ MockReads \/ Restarted

\* Scans and ticks recur, goroutines that can run do, restarts end.
WatcherFairness ==
  WF_watcherVars(Poll) /\ WF_watcherVars(Event) /\ WF_watcherVars(Tick) /\ WF_watcherVars(Notify)
    /\ WF_watcherVars(Reset) /\ WF_watcherVars(MockReads) /\ WF_watcherVars(Restarted)

WatcherSpec == WatcherInit /\ [][WatcherNext]_watcherVars
WatcherFairSpec == WatcherSpec /\ WatcherFairness

------------------------------------------------------------------------------
(* Properties *)

\* Shape of the state; no scan has seen, and no mock serves, what is not yet
\* written.
WatcherTypeOK ==
  /\ watching \in BOOLEAN
  /\ edits \in 0..MaxEdits /\ polled \in 0..edits /\ served \in 0..edits
  /\ pending \in 0..MaxEvents
  /\ dirUpdated \in BOOLEAN /\ unseen \in BOOLEAN /\ lost \in BOOLEAN
  /\ ticker \in {"idle", "send", "reset"}
  /\ loop \in {"receive", "restarting", "booting"}
  /\ events \in 0..(MaxEvents * MaxEdits) /\ restarts \in 0..(MaxEvents * MaxEdits)

\* There are never more restarts than events: the flag is lowered after every
\* notification, so an edit that is over does not restart the mock again and
\* again. (dirwatcher.go:58-69)
NoSpuriousRestart == restarts <= events

\* The mock ends up serving the last edit, unless the directory could not be
\* watched, or an event came between the read of the flag, or the hand-over of a
\* notification, and the reset. (dirwatcher.go:32-34, 63-67)
ServedUnlessLost == (edits = MaxEdits) ~> (served = edits \/ lost \/ ~watching)

\* The claim of dirwatcher.go:26-27: WatchDir "observes changes to the given
\* directory and notifies on a channel when they occur", so that a mock whose
\* directory is watched is restarted with the last change.
ChangeIsServed == (watching /\ edits = MaxEdits) ~> (served = edits)
==============================================================================
