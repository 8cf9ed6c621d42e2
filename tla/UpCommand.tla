------------------------------ MODULE UpCommand ------------------------------
(***************************************************************************)
(* cmd/up.go start() and trapExit(), and the calls every mock engine       *)
(* shares with them: StopImmediately, Restart and the health wait.         *)
(*                                                                         *)
(* Three goroutines run engine code: main (Start, then wg.Wait), signal    *)
(* (StopImmediately, after one SIGINT or SIGTERM) and restart (Restart,    *)
(* each time the directory watcher sends).  An engine module EXTENDS this  *)
(* one and supplies Start, from label "start" to "started" or "failed",    *)
(* and Stop, from label "stop" to the label back[t] holds.                 *)
(***************************************************************************)
EXTENDS Integers

CONSTANTS Detach,       \* the --detach modes explored
          AutoRestart   \* the values of --auto-restart explored

ASSUME DetachAssumption == Detach \subseteq {"attached", "now", "healthy"}
ASSUME AutoRestartAssumption == AutoRestart \subseteq BOOLEAN

VARIABLES
  detach,             \* startOptions.Detach ("attached" is DetachNone)
  restartOnChange,    \* --auto-restart, after applyDetachOptions
  pc,                 \* where each goroutine is
  back,               \* where the goroutine's call of Stop returns to
  wg,                 \* the WaitGroup's counter
  waiter,             \* main's wg.Wait: not called, parked, or released
  interrupted,        \* the atomic.Bool of start()
  abortPending,       \* a goroutine is sending on shutDownC (unbuffered)
  proc,               \* the CLI process: running, or how it ended
  strayed             \* history: some Stop found nothing to stop

upVars == <<detach, restartOnChange, pc, back, wg, waiter, interrupted,
            abortPending, proc, strayed>>

Thread == {"main", "signal", "restart"}
Starter == {"main", "restart"}        \* the goroutines that run Start

Running == proc = "running"
RestartInProgress == pc["restart"] \notin {"off", "idle"}
Goto(t, label) == pc' = [pc EXCEPT ![t] = label]

\* wg.Done(): a counter below zero panics; reaching zero releases the waiter.
WgDone ==
  /\ wg' = wg - 1
  /\ proc' = IF wg <= 0 THEN "panic" ELSE proc
  /\ waiter' = IF wg = 1 /\ waiter = "parked" THEN "released" ELSE waiter

\* Control of goroutine t moves, nothing else of this module's state changes.
Step(t, from, to) ==
  /\ Running /\ pc[t] = from
  /\ Goto(t, to)
  /\ UNCHANGED <<detach, restartOnChange, back, wg, waiter, interrupted,
                 abortPending, proc, strayed>>

\* logger.Fatal: os.Exit(1) in the middle of whatever is going on.
Fatal(t, from) ==
  /\ Running /\ pc[t] = from
  /\ proc' = "fatal"
  /\ UNCHANGED <<detach, restartOnChange, pc, back, wg, waiter, interrupted,
                 abortPending, strayed>>

UpInit ==
  /\ detach \in Detach
  /\ restartOnChange \in (IF detach = "attached" THEN AutoRestart ELSE {FALSE})
  /\ pc = [t \in Thread |->
             IF t = "main" THEN "start"
             ELSE IF t = "restart" \/ detach = "now" THEN "off" ELSE "armed"]
  /\ back = [t \in Thread |-> "none"]
  /\ wg = 0
  /\ waiter = "none"
  /\ interrupted = FALSE
  /\ abortPending = FALSE
  /\ proc = "running"
  /\ strayed = FALSE

------------------------------------------------------------------------------
(* main *)

\* Start returned true.  Detached: print the summary and return.  Attached:
\* start the watch loop if asked for, then wg.Wait().
MainStarted ==
  /\ Running /\ pc["main"] = "started"
  /\ IF detach = "attached"
       THEN /\ pc' = [pc EXCEPT !["main"] = "wait",
                                !["restart"] = IF restartOnChange THEN "idle" ELSE @]
            /\ UNCHANGED proc
       ELSE proc' = "exit0" /\ UNCHANGED pc
  /\ UNCHANGED <<detach, restartOnChange, back, wg, waiter, interrupted,
                 abortPending, strayed>>

\* Start returned false.  Detached: leave at once, with status 1 unless the
\* wait was aborted.  Attached: wg.Wait() first.
MainFailed ==
  /\ Running /\ pc["main"] = "failed"
  /\ IF detach = "attached"
       THEN Goto("main", "waitFailed") /\ UNCHANGED proc
       ELSE proc' = (IF interrupted THEN "exit0" ELSE "exit1") /\ UNCHANGED pc
  /\ UNCHANGED <<detach, restartOnChange, back, wg, waiter, interrupted,
                 abortPending, strayed>>

\* What follows wg.Wait() is a log line and the return that ends the process.
LeaveWait ==
  proc' = IF pc["main"] = "waitFailed" /\ ~interrupted THEN "exit1" ELSE "exit0"

MainWait ==
  /\ Running /\ pc["main"] \in {"wait", "waitFailed"} /\ waiter = "none"
  /\ IF wg = 0
       THEN LeaveWait /\ UNCHANGED waiter
       ELSE waiter' = "parked" /\ UNCHANGED proc
  /\ UNCHANGED <<detach, restartOnChange, pc, back, wg, interrupted,
                 abortPending, strayed>>

\* A released waiter that finds the counter in use again panics
\* ("WaitGroup is reused before previous Wait has returned").
MainReleased ==
  /\ Running /\ waiter = "released"
  /\ IF wg = 0 THEN LeaveWait ELSE proc' = "panic"
  /\ UNCHANGED <<detach, restartOnChange, pc, back, wg, waiter, interrupted,
                 abortPending, strayed>>

------------------------------------------------------------------------------
(* signal *)

\* SIGINT or SIGTERM, trapped once by trapExit; a second one is never read.
Interrupt ==
  /\ Running /\ pc["signal"] = "armed"
  /\ interrupted' = TRUE
  /\ Goto("signal", "abort")
  /\ UNCHANGED <<detach, restartOnChange, back, wg, waiter, abortPending, proc,
                 strayed>>

\* DetachNow installs no trap: the signal ends the process where it is.
KilledBySignal ==
  /\ Running /\ pc["signal"] = "off"
  /\ proc' = "killed"
  /\ UNCHANGED <<detach, restartOnChange, pc, back, wg, waiter, interrupted,
                 abortPending, strayed>>

\* Mutant: the health wait is aborted, nothing is stopped.
StopOnlyAborts ==
  /\ Running /\ pc["signal"] = "abort"
  /\ abortPending' = TRUE
  /\ Goto("signal", "done")
  /\ UNCHANGED <<detach, restartOnChange, back, wg, waiter, interrupted, proc,
                 strayed>>

\* StopImmediately: leave a goroutine sending on shutDownC, then Stop.
StopImmediately ==
  /\ Running /\ pc["signal"] = "abort"
  /\ abortPending' = TRUE
  /\ Goto("signal", "stop")
  /\ back' = [back EXCEPT !["signal"] = "done"]
  /\ UNCHANGED <<detach, restartOnChange, wg, waiter, interrupted, proc, strayed>>

------------------------------------------------------------------------------
(* restart *)

\* Mutant: no wg.Add(1) around the restart.
RestartBeginUnheld ==
  /\ Running /\ pc["restart"] = "idle"
  /\ Goto("restart", "stop")
  /\ back' = [back EXCEPT !["restart"] = "start"]
  /\ UNCHANGED <<detach, restartOnChange, wg, waiter, interrupted, abortPending,
                 proc, strayed>>

\* <-dirUpdated, then Restart: wg.Add(1), Stop, and Start whatever Stop did.
RestartBegin ==
  /\ Running /\ pc["restart"] = "idle"
  /\ wg' = wg + 1
  /\ Goto("restart", "stop")
  /\ back' = [back EXCEPT !["restart"] = "start"]
  /\ UNCHANGED <<detach, restartOnChange, waiter, interrupted, abortPending, proc,
                 strayed>>

\* The result of the new Start is dropped; wg.Done() ends the restart.
RestartEnd ==
  /\ Running /\ pc["restart"] \in {"started", "failed"}
  /\ WgDone
  /\ Goto("restart", "idle")
  /\ UNCHANGED <<detach, restartOnChange, back, interrupted, abortPending, strayed>>

------------------------------------------------------------------------------
(* The health wait of Start, and the call of Stop it makes on a timeout *)

\* WaitUntilUp: whichever of success, timeout and abort is received first.
\* Attached, a healthy mock is watched ("reap") before Start returns true.
WaitUntilUp(t, answering) ==
  /\ Running /\ pc[t] = "health"
  /\ \/ /\ answering
        /\ Goto(t, IF detach = "attached" THEN "reap" ELSE "started")
        /\ UNCHANGED <<back, abortPending>>
     \/ /\ Goto(t, "stop")                     \* timed out: stopAfterFailedStart
        /\ back' = [back EXCEPT ![t] = "failed"]
        /\ UNCHANGED abortPending
     \/ /\ abortPending                        \* aborted: Start returns false
        /\ abortPending' = FALSE
        /\ Goto(t, "failed")
        /\ UNCHANGED back
  /\ UNCHANGED <<detach, restartOnChange, wg, waiter, interrupted, proc, strayed>>

\* Stop, when the engine has nothing to stop: wg.Done() all the same.
StopNothing(t) ==
  /\ Running /\ pc[t] = "stop"
  /\ WgDone
  /\ strayed' = TRUE
  /\ Goto(t, back[t])
  /\ UNCHANGED <<detach, restartOnChange, back, interrupted, abortPending>>

UpTypeOK ==
  /\ detach \in {"attached", "now", "healthy"}
  /\ restartOnChange \in BOOLEAN
  /\ back \in [Thread -> {"none", "start", "failed", "done"}]
  /\ wg \in Int
  /\ waiter \in {"none", "parked", "released"}
  /\ interrupted \in BOOLEAN
  /\ abortPending \in BOOLEAN
  /\ proc \in {"running", "exit0", "exit1", "fatal", "killed", "panic"}
  /\ strayed \in BOOLEAN
==============================================================================
