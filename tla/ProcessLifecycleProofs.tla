----------------------- MODULE ProcessLifecycleProofs -----------------------
(***************************************************************************)
(* What holds of a session of the jvm or the native engine, however many   *)
(* processes it starts and wherever its goroutines stand.                  *)
(*                                                                         *)
(* The inductive invariant ProcInv has five parts.  Shape: the types, and  *)
(* which goroutines can be where together.  Known: what is written about a *)
(* child in the engine was written after it started, and a child between   *)
(* Process.Start and the assignment of the command is known to its starter *)
(* only.  Orderly: at most one child lives, the command's or the           *)
(* starter's; whoever notifies an ID has waited for that process or for    *)
(* its successor.  WgAccounting and NothingOrphaned are the properties.    *)
(*                                                                         *)
(* A lemma per goroutine and part shows that the goroutine's steps keep    *)
(* it; the refinement of the debouncer's protocol follows from the same    *)
(* invariant.                                                              *)
(***************************************************************************)
EXTENDS ProcessLifecycle, FiniteSetTheorems, TLAPS

\* Where startWithOptions has not yet set the engine's command.
BeforeCommand == {"start", "exec", "register", "add", "setCommand"}

\* Where a starter holds a child that is not yet the engine's command.
Private == {"register", "add", "setCommand"}

\* Every position of a goroutine.
Label ==
  StartLabels \cup StopLabels
    \cup {"wait", "waitFailed", "off", "armed", "abort", "done", "idle"}

\* Which positions go together: the restart goroutine runs while main waits
\* (up.go:264-272); the command is set once Start is past its assignment, and
\* stays set; a call of Stop knows where it returns to; only the signal's Stop
\* can find nothing to stop.
Control ==
  /\ pc["restart"] # "off" => pc["main"] = "wait" /\ detach = "attached"
  /\ pc["main"] \in BeforeCommand \cup {"failed", "waitFailed"} \/ command # None
  /\ pc["main"] \in BeforeCommand => command = None
  /\ pc["main"] \in StopLabels => back["main"] = "failed"
  /\ pc["signal"] \in StopLabels => back["signal"] = "done"
  /\ pc["restart"] \in StopLabels => back["restart"] \in {"start", "failed"}
  /\ strayed => pc["signal"] = "done"
  /\ waiter # "none" => pc["main"] \in {"wait", "waitFailed"}
  /\ abortPending \/ pc["signal"] \in {"abort"} \cup StopLabels => interrupted
  /\ \A t \in Starter : pc[t] \in Private \cup {"health", "reap"} => own \in Child
  /\ \A t \in Thread : pc[t] \in StopLabels \ {"stop"} => command # None
  /\ \A c \in Child : watcher[c] # "none" => command # None

\* The first part of the invariant.
Shape == TypeOK /\ Control

\* A session starts in the shape TypeOK and Control give.
LEMMA InitShape == Init => Shape
<1> SUFFICES ASSUME Init PROVE Shape
  OBVIOUS
<1> USE DEF Init, UpInit, Thread
<1>1. /\ pc["main"] = "start" /\ pc["restart"] = "off"
      /\ pc["signal"] \in {"off", "armed"}
      /\ strayed = FALSE /\ waiter = "none" /\ abortPending = FALSE /\ command = None
      /\ \A c \in Child : watcher[c] = "none"
  OBVIOUS
<1>2. pc \in [Thread -> Label]
  BY DEF Label, StartLabels, StopLabels
<1>3. UpTypeOK
  <2>1. detach \in {"attached", "now", "healthy"}
    BY DetachAssumption
  <2>2. restartOnChange \in BOOLEAN
    <3>1. CASE detach = "attached"
      BY <3>1, AutoRestartAssumption
    <3>2. CASE detach # "attached"
      BY <3>2
    <3> QED
      BY ONLY <3>1, <3>2
  <2>3. back \in [Thread -> {"none", "start", "failed", "done"}]
    OBVIOUS
  <2>4. wg \in Int /\ waiter = "none" /\ proc = "running"
    OBVIOUS
  <2>5. interrupted \in BOOLEAN /\ abortPending \in BOOLEAN /\ strayed \in BOOLEAN
    BY Zenon
  <2> QED
    BY ONLY <2>1, <2>2, <2>3, <2>4, <2>5 DEF UpTypeOK
<1>4. TypeOK
  BY <1>1, <1>2, <1>3, EnginesAssumption DEF TypeOK, Label, StartLabels, StopLabels
<1>5. Control
  BY ONLY <1>1 DEF Control, Thread, BeforeCommand, Private, StopLabels, NotifyLabels,
       Starter
<1> QED
  BY <1>4, <1>5 DEF Shape

\* The steps of main around wg.Wait (up.go:253-275) keep the shape.
LEMMA MainShape ==
  ASSUME Shape, MainStep PROVE Shape'
<1> USE ChildAssumption DEF Shape, TypeOK, UpTypeOK, Control, Thread, Starter, StartLabels,
        StopLabels, NotifyLabels, BeforeCommand, Private, Goto, procVars, LeaveWait
<1>1. CASE MainStarted /\ UNCHANGED procVars
  BY <1>1 DEF MainStarted
<1>2. CASE MainFailed /\ UNCHANGED procVars
  BY <1>2 DEF MainFailed
<1>3. CASE MainWait /\ UNCHANGED procVars
  BY <1>3 DEF MainWait
<1>4. CASE MainReleased /\ UNCHANGED procVars
  BY <1>4 DEF MainReleased
<1> QED
  BY <1>1, <1>2, <1>3, <1>4 DEF MainStep

\* The steps of startWithOptions (jvm/engine.go:40-95) keep the shape.
LEMMA StartShape ==
  ASSUME Shape, NEW t \in Starter, StartStep(t) PROVE Shape'
<1> USE ChildAssumption, NoneAssumption DEF Shape, TypeOK, UpTypeOK, Control, Thread,
         Starter, StartLabels,
        StopLabels, NotifyLabels, BeforeCommand, Private, Goto, procVars, Step, FatalAt,
        Fatal
<1>1. CASE Prepare(t)
  BY <1>1 DEF Prepare
<1>2. CASE Exec(t)
  BY <1>2 DEF Exec, Fresh
<1>3. CASE RegisterRecord(t)
  BY <1>3 DEF RegisterRecord
<1>4. CASE RegisterAdd(t)
  BY <1>4 DEF RegisterAdd
<1>5. CASE SetCommand(t)
  BY <1>5 DEF SetCommand
<1>6. CASE SpawnWatcher(t)
  BY <1>6 DEF SpawnWatcher
<1>7. CASE AwaitHealth(t)
  <2>1. CASE pc' = [pc EXCEPT ![t] = IF detach = "attached" THEN "reap" ELSE "started"]
             /\ UNCHANGED <<back, abortPending>>
    <3>1. CASE t = "main"
      BY <1>7, <2>1, <3>1 DEF AwaitHealth, WaitUntilUp
    <3>2. CASE t = "restart"
      BY <1>7, <2>1, <3>2 DEF AwaitHealth, WaitUntilUp
    <3> QED
      BY <3>1, <3>2
  <2>2. CASE pc' = [pc EXCEPT ![t] = "stop"] /\ back' = [back EXCEPT ![t] = "failed"]
             /\ UNCHANGED abortPending
    <3>1. CASE t = "main"
      BY <1>7, <2>2, <3>1 DEF AwaitHealth, WaitUntilUp
    <3>2. CASE t = "restart"
      BY <1>7, <2>2, <3>2 DEF AwaitHealth, WaitUntilUp
    <3> QED
      BY <3>1, <3>2
  <2>3. CASE abortPending' = FALSE /\ pc' = [pc EXCEPT ![t] = "failed"] /\ UNCHANGED back
    <3>1. abortPending' \in BOOLEAN /\ ~abortPending'
      BY ONLY <2>3, Zenon
    <3>2. CASE t = "main"
      BY <1>7, <2>3, <3>1, <3>2 DEF AwaitHealth, WaitUntilUp
    <3>3. CASE t = "restart"
      BY <1>7, <2>3, <3>1, <3>3 DEF AwaitHealth, WaitUntilUp
    <3> QED
      BY <3>2, <3>3
  <2>4. \/ pc' = [pc EXCEPT ![t] = IF detach = "attached" THEN "reap" ELSE "started"]
           /\ UNCHANGED <<back, abortPending>>
        \/ pc' = [pc EXCEPT ![t] = "stop"] /\ back' = [back EXCEPT ![t] = "failed"]
           /\ UNCHANGED abortPending
        \/ abortPending' = FALSE /\ pc' = [pc EXCEPT ![t] = "failed"] /\ UNCHANGED back
    BY ONLY <1>7 DEF AwaitHealth, WaitUntilUp, Goto
  <2> QED
    BY ONLY <2>1, <2>2, <2>3, <2>4
<1> QED
  BY <1>1, <1>2, <1>3, <1>4, <1>5, <1>7, <1>6 DEF StartStep

\* The steps of Stop up to the kill keep the shape.
LEMMA StopShape ==
  ASSUME Shape, NEW t \in Thread, StopStep(t) PROVE Shape'
<1> USE ChildAssumption, NoneAssumption DEF Shape, TypeOK, UpTypeOK, Control, Thread,
         Starter, StartLabels,
        StopLabels, NotifyLabels, BeforeCommand, Private, Goto, procVars, Step, FatalAt,
        Fatal, WgDone
<1>1. CASE StopWithoutProcess(t)
  BY <1>1 DEF StopWithoutProcess, StopNothing
<1>2. CASE StopProcess(t)
  BY <1>2 DEF StopProcess
<1>3. CASE Kill(t)
  BY <1>3 DEF Kill
<1> QED
  BY <1>1, <1>2, <1>3 DEF StopStep

\* The steps of notifyOnStopBlocking keep the shape.
LEMMA NotifyShape ==
  ASSUME Shape, NEW g \in Caller, NotifyStep(g) PROVE Shape'
<1> USE ChildAssumption, NoneAssumption DEF Shape, TypeOK, UpTypeOK, Control, Thread,
         Starter, StartLabels,
        StopLabels, NotifyLabels, BeforeCommand, Private, Goto, Move, UpElse, BackOf, At,
        Caller, WgDone
<1>1. CASE ReadPid(g)
  BY <1>1 DEF ReadPid
<1>2. CASE ReadTarget(g)
  BY <1>2 DEF ReadTarget
<1>3. CASE Reap(g)
  <2>1. status' \in [Child -> {"none", "running", "killed", "exited", "reaped"}]
    BY <1>3 DEF Reap
  <2> QED
    BY <1>3, <2>1 DEF Reap
<1>4. CASE Notify(g)
  BY <1>4 DEF Notify
<1>5. CASE NotifyDone(g)
  BY <1>5 DEF NotifyDone
<1> QED
  BY <1>1, <1>2, <1>3, <1>4, <1>5 DEF NotifyStep

\* So do the signal's abort, the end of a restart and what the environment does.
LEMMA RestShape ==
  ASSUME Shape, SignalStep \/ RestartStep \/ Environment \/ UNCHANGED vars
  PROVE Shape'
<1> USE ChildAssumption, NoneAssumption DEF Shape, TypeOK, UpTypeOK, Control, Thread,
         Starter, StartLabels,
        StopLabels, NotifyLabels, BeforeCommand, Private, Goto, procVars, upVars, WgDone
<1>1. CASE SignalStep
  <2>1. abortPending' \in BOOLEAN
    BY <1>1, Zenon DEF SignalStep, StopImmediately
  <2>2. interrupted
    BY <1>1 DEF SignalStep, StopImmediately
  <2> QED
    BY <1>1, <2>1, <2>2 DEF SignalStep, StopImmediately
<1>2. CASE RestartStep
  BY <1>2 DEF RestartStep, RestartEnd
<1>3. CASE Interrupt /\ UNCHANGED procVars
  BY <1>3 DEF Interrupt
<1>4. CASE KilledBySignal /\ UNCHANGED procVars
  BY <1>4 DEF KilledBySignal
<1>5. CASE DirectoryChanged
  BY <1>5 DEF DirectoryChanged, RestartBegin
<1>6. ASSUME NEW c \in Child, ChildExits(c) PROVE Shape'
  BY <1>6 DEF ChildExits
<1>7. CASE UNCHANGED vars
  BY <1>7 DEF vars
<1> QED
  BY <1>1, <1>2, <1>3, <1>4, <1>5, <1>6, <1>7 DEF Environment

\* Hence every step does.
LEMMA NextShape == Shape /\ [Next]_vars => Shape'
  BY MainShape, StartShape, StopShape, NotifyShape, RestShape DEF Next

\* The types of the session's state, for every set of children
\* (JvmMockEngine, NativeMockEngine, cmd/up.go start).
THEOREM TypeCorrect == Spec => []TypeOK
<1>1. Shape => TypeOK
  BY DEF Shape
<1> QED
  BY InitShape, NextShape, <1>1, PTL DEF Spec

\* A child named anywhere in the engine has been started; one between its exec
\* and the assignment of the command is named nowhere else, and is registered
\* once Register's critical section is over (jvm/engine.go:63-69).
Known ==
  /\ \A c \in ids : status[c] # "none"
  /\ command # None => status[command] # "none"
  /\ \A c \in Child : watcher[c] # "none" => status[c] # "none"
  /\ \A g \in Caller : /\ pid[g] # None => status[pid[g]] # "none"
                       /\ target[g] # None => status[target[g]] # "none"
  /\ \A t \in Starter :
       /\ pc[t] \in Private \cup {"health", "reap"} =>
            status[own] # "none" /\ watcher[own] = "none"
       /\ pc[t] \in Private =>
            /\ own # command
            /\ \A g \in Caller : own # pid[g] /\ own # target[g]
       /\ pc[t] = "register" => own \notin ids
       /\ pc[t] \in {"add", "setCommand"} => own \in ids

\* A caller of notifyOnStopBlocking that moves leaves the others where they are.
LEMMA MoveAt ==
  ASSUME Shape, NEW g \in Caller, NEW label, Move(g, label), NEW h \in Caller, NEW l
  PROVE  At(h, l)' <=> IF h = g THEN l = label ELSE At(h, l)
<1> USE ChildAssumption DEF Shape, TypeOK, Caller, At, Move, Goto
<1>1. CASE g \in Thread
  BY <1>1
<1>2. CASE g \notin Thread
  BY <1>2
<1> QED
  BY <1>1, <1>2

\* Nothing is named at first.
LEMMA InitKnown == Init => Known
  BY NoneAssumption DEF Init, UpInit, Known, Thread, Starter, Private, Caller

\* main's own steps name no child.
LEMMA MainKnown ==
  ASSUME Shape, Known, MainStep PROVE Known'
<1> USE DEF Shape, TypeOK, Known, Thread, Starter, Private, Goto, procVars, LeaveWait
<1>1. CASE MainStarted /\ UNCHANGED procVars
  BY <1>1 DEF MainStarted
<1>2. CASE MainFailed /\ UNCHANGED procVars
  BY <1>2 DEF MainFailed
<1>3. CASE MainWait /\ UNCHANGED procVars
  BY <1>3 DEF MainWait
<1>4. CASE MainReleased /\ UNCHANGED procVars
  BY <1>4 DEF MainReleased
<1> QED
  BY <1>1, <1>2, <1>3, <1>4 DEF MainStep

\* Start names a child for others only once it is the command.
LEMMA StartKnown ==
  ASSUME Shape, Known, NEW t \in Starter, StartStep(t) PROVE Known'
<1> USE NoneAssumption DEF Shape, TypeOK, UpTypeOK, Control, Known, Thread, Starter,
         Private, Goto,
        procVars, Step, FatalAt, Fatal
<1>1. CASE Prepare(t)
  BY <1>1 DEF Prepare
<1>2. CASE Exec(t)
  <2>1. CASE FatalAt(t, "exec")
    BY <2>1
  <2>2. CASE Step(t, "exec", "failed") /\ UNCHANGED procVars
    BY <2>2
  <2>3. CASE /\ Step(t, "exec", "register")
             /\ \E c \in Fresh : own' = c /\ status' = [status EXCEPT ![c] = "running"]
             /\ UNCHANGED <<engine, ids, command, watcher, pid, target>>
    <3>1. PICK c \in Child : /\ status[c] = "none"
                             /\ own' = c
                             /\ status' = [status EXCEPT ![c] = "running"]
      BY <2>3 DEF Fresh
    <3>2. /\ pc[t] = "exec" /\ pc' = [pc EXCEPT ![t] = "register"]
          /\ UNCHANGED <<ids, command, watcher, pid, target>>
      BY <2>3
    <3>3. \A d \in Child : status'[d] # "none" <=> status[d] # "none" \/ d = c
      BY <3>1
    <3>4. /\ own' \notin ids'
          /\ own' # command'
          /\ watcher'[own'] = "none"
          /\ status'[own'] # "none"
          /\ \A g \in Caller : own' # pid'[g] /\ own' # target'[g]
      BY ONLY <3>1, <3>2, <3>3, Known, NoneAssumption DEF Known
    <3>5. \A u \in Starter \ {t} : pc'[u] \notin Private \cup {"health", "reap"}
      BY <3>2 DEF BeforeCommand
    <3>6. pc'[t] = "register"
      BY <3>2
    <3> QED
      BY <3>2, <3>3, <3>4, <3>5, <3>6
  <2> QED
    BY ONLY <1>2, <2>1, <2>2, <2>3 DEF Exec
<1>3. CASE RegisterRecord(t)
  BY <1>3 DEF RegisterRecord
<1>4. CASE RegisterAdd(t)
  BY <1>4 DEF RegisterAdd
<1>5. CASE SetCommand(t)
  BY <1>5 DEF SetCommand, BeforeCommand
<1>6. CASE AwaitHealth(t)
  BY <1>6 DEF AwaitHealth, WaitUntilUp
<1>7. CASE SpawnWatcher(t)
  BY <1>7 DEF SpawnWatcher, BeforeCommand
<1> QED
  BY <1>1, <1>2, <1>3, <1>4, <1>5, <1>6, <1>7 DEF StartStep

\* Stop names no child.
LEMMA StopKnown ==
  ASSUME Shape, Known, NEW t \in Thread, StopStep(t) PROVE Known'
<1> USE NoneAssumption DEF Shape, TypeOK, UpTypeOK, Control, Known, Thread, Starter,
         Private, Goto,
        procVars, Step, FatalAt, Fatal, WgDone
<1>1. CASE StopWithoutProcess(t)
  BY <1>1 DEF StopWithoutProcess, StopNothing, StopLabels, BeforeCommand
<1>2. CASE StopProcess(t)
  BY <1>2 DEF StopProcess
<1>3. CASE Kill(t)
  BY <1>3 DEF Kill
<1> QED
  BY <1>1, <1>2, <1>3 DEF StopStep

\* What a step of notifyOnStopBlocking leaves alone, and where it leads.
LEMMA NotifyFrame ==
  ASSUME Shape, NEW g \in Caller, NotifyStep(g)
  PROVE  /\ UNCHANGED <<engine, command, own, detach, restartOnChange, interrupted,
                         abortPending, back, strayed>>
         /\ \A t \in Thread : pc'[t] # pc[t] =>
               /\ t = g
               /\ pc[t] \in NotifyLabels
               /\ pc'[t] \in NotifyLabels \cup {"start", "failed", "done"}
         /\ \A c \in Child : watcher'[c] # watcher[c] =>
               c = g /\ watcher[c] \in NotifyLabels
<1>1. UNCHANGED <<engine, command, own, detach, restartOnChange, interrupted,
                  abortPending, back, strayed>>
  BY DEF NotifyStep, ReadPid, ReadTarget, Reap, Notify, NotifyDone, UpElse, WgDone
<1>2. \/ BackOf(g) \in {"start", "failed", "done"}
      \/ g \notin Thread \/ pc[g] \notin NotifyLabels
  BY DEF BackOf, Shape, Control, TypeOK, UpTypeOK, Thread, StopLabels
<1>3. PICK label : /\ Move(g, label)
                   /\ IF g \in Thread THEN pc[g] \in NotifyLabels
                                     ELSE watcher[g] \in NotifyLabels
                   /\ label \in NotifyLabels \cup {BackOf(g)}
  BY DEF NotifyStep, ReadPid, ReadTarget, Reap, Notify, NotifyDone, At, NotifyLabels
<1>4. CASE g \in Thread
  BY <1>1, <1>2, <1>3, <1>4 DEF Move, Goto, Shape, TypeOK
<1>5. CASE g \notin Thread
  BY <1>1, <1>2, <1>3, <1>5 DEF Move, Goto, Shape, TypeOK, Caller
<1> QED
  BY <1>4, <1>5

\* notifyOnStopBlocking only copies the command's name (jvm/engine.go:179-192).
LEMMA NotifyKnown ==
  ASSUME Shape, Known, NEW g \in Caller, NotifyStep(g) PROVE Known'
<1> USE NoneAssumption DEF Known
<1>1. /\ UNCHANGED <<command, own>>
      /\ \A t \in Starter : pc'[t] \in Private \cup {"health", "reap"} => pc'[t] = pc[t]
      /\ \A c \in Child : watcher[c] = "none" <=> watcher'[c] = "none"
  <2>1. \A t \in Starter : pc'[t] \in Private \cup {"health", "reap"} => pc'[t] = pc[t]
    BY NotifyFrame DEF NotifyLabels, Thread, Starter, Private
  <2>2. \A c \in Child : watcher[c] = "none" => watcher'[c] = "none"
    BY NotifyFrame DEF NotifyLabels
  <2>3. \A c \in Child : watcher'[c] = "none" => watcher[c] = "none"
    BY NotifyFrame, ChildAssumption DEF NotifyLabels, NotifyStep, ReadPid, ReadTarget, Reap,
         Notify, NotifyDone, Move, BackOf, Shape, TypeOK, Caller
  <2> QED
    BY <2>1, <2>2, <2>3, NotifyFrame
<1>2. \A t \in Starter : pc[t] \in Private \cup {"health", "reap"} => own \in Child
  BY DEF Shape, Control
<1>3. CASE ReadPid(g)
  <2>1. pid' = [pid EXCEPT ![g] = command] /\ UNCHANGED <<ids, target, status>>
    BY <1>3 DEF ReadPid
  <2>2. \A h \in Caller : pid'[h] = IF h = g THEN command ELSE pid[h]
    BY <2>1 DEF Shape, TypeOK
  <2> QED
    BY <1>1, <1>2, <2>1, <2>2 DEF Private
<1>4. CASE ReadTarget(g)
  <2>1. target' = [target EXCEPT ![g] = command] /\ UNCHANGED <<ids, pid, status>>
    BY <1>4 DEF ReadTarget
  <2>2. \A h \in Caller : target'[h] = IF h = g THEN command ELSE target[h]
    BY <2>1 DEF Shape, TypeOK
  <2> QED
    BY <1>1, <1>2, <2>1, <2>2 DEF Private
<1>5. CASE Reap(g)
  <2>1. status' = [status EXCEPT ![target[g]] = "reaped"] /\ UNCHANGED <<ids, pid, target>>
    BY <1>5 DEF Reap
  <2>2. \A c : status[c] # "none" => status'[c] # "none"
    BY <2>1 DEF Shape, TypeOK
  <2> QED
    BY <1>1, <1>2, <2>1, <2>2 DEF Private
<1>6. CASE Notify(g)
  <2>1. ids' = ids \ {pid[g]} /\ UNCHANGED <<pid, target, status>>
    BY <1>6 DEF Notify
  <2> QED
    BY <1>1, <1>2, <2>1 DEF Private
<1>7. CASE NotifyDone(g)
  <2>1. UNCHANGED <<ids, pid, target, status>>
    BY <1>7 DEF NotifyDone
  <2> QED
    BY <1>1, <1>2, <2>1 DEF Private
<1> QED
  BY <1>3, <1>4, <1>5, <1>6, <1>7 DEF NotifyStep

\* No other step names a child.
LEMMA RestKnown ==
  ASSUME Shape, Known, SignalStep \/ RestartStep \/ Environment \/ UNCHANGED vars
  PROVE Known'
<1> USE ChildAssumption, NoneAssumption DEF Shape, TypeOK, UpTypeOK, Known, Thread, Starter,
         Private, Goto, procVars, upVars, WgDone
<1>1. CASE SignalStep
  BY <1>1 DEF SignalStep, StopImmediately
<1>2. CASE RestartStep
  BY <1>2 DEF RestartStep, RestartEnd
<1>3. CASE Interrupt /\ UNCHANGED procVars
  BY <1>3 DEF Interrupt
<1>4. CASE KilledBySignal /\ UNCHANGED procVars
  BY <1>4 DEF KilledBySignal
<1>5. CASE DirectoryChanged
  BY <1>5 DEF DirectoryChanged, RestartBegin
<1>6. ASSUME NEW c \in Child, ChildExits(c) PROVE Known'
  BY <1>6 DEF ChildExits
<1>7. CASE UNCHANGED vars
  BY <1>7 DEF vars
<1> QED
  BY <1>1, <1>2, <1>3, <1>4, <1>5, <1>6, <1>7 DEF Environment

\* The only child that can live is the engine's command or the one its starter
\* has just started; none does while a goroutine that starts is before its exec
\* or past its wait, nor once main is past a failed start it was not told to abort.
OneLive ==
  /\ (\A t \in Starter : pc[t] \notin Private) => Alive \subseteq {command}
  /\ \A t \in Starter :
       /\ pc[t] \in Private => Alive \subseteq {own}
       /\ pc[t] \in {"start", "exec", "notify", "settle"} => Alive = {}
       /\ pc[t] = "readTarget" => pid[t] = command
       /\ pc[t] = "reaping" => pid[t] = command /\ target[t] = command
  /\ pc["main"] \in {"failed", "waitFailed"} /\ ~interrupted => Alive = {}

\* Between its two reads of the command and its Notify, a caller holds a child's
\* ID, and that child is the one it waits for or is dead already.
Waited(g) ==
  /\ At(g, "readTarget") => pid[g] \in Child /\ (pid[g] = command \/ pid[g] \notin Alive)
  /\ At(g, "reaping") => /\ pid[g] \in Child /\ target[g] \in Child
                         /\ pid[g] = target[g] \/ pid[g] \notin Alive
  /\ At(g, "notify") \/ At(g, "settle") => pid[g] \in Child \ Alive

\* What keeps a notifier from settling a process that runs, and two from running.
Orderly == OneLive /\ (\A g \in Caller : Waited(g)) /\ SettledIsDead

\* No child lives at first.
LEMMA InitOrderly == Init => Orderly
<1> SUFFICES ASSUME Init PROVE Orderly
  OBVIOUS
<1>1. Alive = {}
  BY DEF Init, Alive
<1>2. OneLive /\ SettledIsDead
  BY <1>1 DEF Init, UpInit, OneLive, SettledIsDead, Thread, Starter
<1>3. \A g \in Caller : Waited(g)
  BY ChildAssumption DEF Init, UpInit, Waited, Thread, At, Caller
<1> QED
  BY <1>2, <1>3 DEF Orderly

\* A step that neither starts a child nor notifies, and sets no command.
LEMMA QuietKeepsWaited ==
  ASSUME Shape, Orderly, UNCHANGED <<pid, target, watcher>>, Alive' \subseteq Alive,
         command' = command \/ command \notin Alive,
         \A t \in Thread : pc'[t] \in NotifyLabels \ {"readPid"} => pc'[t] = pc[t],
         NEW g \in Caller
  PROVE  Waited(g)'
<1>1. \A l \in NotifyLabels \ {"readPid"} : At(g, l)' => At(g, l)
  BY DEF At, Caller, Thread
<1> QED
  BY <1>1 DEF Orderly, Waited, NotifyLabels

\* main's own steps keep the order.
LEMMA MainOrderly ==
  ASSUME Shape, Known, Orderly, MainStep PROVE Orderly'
<1> USE DEF Shape, TypeOK, Thread, Starter, Private, Goto, procVars, LeaveWait
<1>1. UNCHANGED <<procVars, interrupted>> /\ Alive' = Alive
  BY DEF MainStep, MainStarted, MainFailed, MainWait, MainReleased, Alive
<1>2. \/ pc' = pc
      \/ /\ pc["main"] = "started"
         /\ pc'["main"] = "wait"
         /\ pc'["signal"] = pc["signal"]
         /\ pc'["restart"] \in {pc["restart"], "idle"}
      \/ pc["main"] = "failed" /\ pc' = [pc EXCEPT !["main"] = "waitFailed"]
  BY DEF MainStep, MainStarted, MainFailed, MainWait, MainReleased
<1>3. OneLive'
  BY <1>1, <1>2 DEF Orderly, OneLive, Control
<1>4. SettledIsDead'
  BY <1>1, <1>2 DEF Orderly, SettledIsDead, Control
<1>5. \A g \in Caller : Waited(g)'
  BY <1>1, <1>2, QuietKeepsWaited DEF NotifyLabels
<1> QED
  BY <1>3, <1>4, <1>5 DEF Orderly

\* Start is only reached when no child lives, so its exec keeps the order.
LEMMA StartOrderly ==
  ASSUME Shape, Known, Orderly, NEW t \in Starter, StartStep(t) PROVE Orderly'
<1> USE NoneAssumption DEF Shape, TypeOK, Thread, Starter, Private, Goto, procVars, Step,
         FatalAt, Fatal
<1>1. \A u \in Starter \ {t} : pc[u] \in {"off", "wait"}
  BY DEF Control, StartStep, Prepare, Exec, RegisterRecord, RegisterAdd, SetCommand,
       AwaitHealth,
       WaitUntilUp, SpawnWatcher
<1>2. CASE UNCHANGED <<pc, procVars, interrupted>>
  <2>1. Alive' = Alive
    BY <1>2 DEF Alive
  <2> QED
    BY <1>2, <2>1, QuietKeepsWaited DEF Orderly, OneLive, SettledIsDead
<1>3. CASE Step(t, "start", "exec") /\ UNCHANGED procVars
  <2>1. /\ Alive' = Alive
        /\ UNCHANGED <<interrupted>>
        /\ pc' = [pc EXCEPT ![t] = "exec"]
        /\ pc[t] = "start"
    BY <1>3 DEF Alive
  <2>2. OneLive'
    BY <1>3, <1>1, <2>1 DEF Orderly, OneLive
  <2>3. SettledIsDead'
    BY <1>3, <2>1 DEF Orderly, SettledIsDead
  <2> QED
    BY <1>3, <2>1, <2>2, <2>3, QuietKeepsWaited DEF Orderly, NotifyLabels
<1>4. CASE Step(t, "exec", "failed") /\ UNCHANGED procVars
  <2>1. /\ Alive' = Alive
        /\ UNCHANGED <<interrupted>>
        /\ pc' = [pc EXCEPT ![t] = "failed"]
        /\ pc[t] = "exec"
    BY <1>4 DEF Alive
  <2>2. OneLive'
    BY <1>4, <1>1, <2>1 DEF Orderly, OneLive
  <2>3. SettledIsDead'
    BY <1>4, <2>1 DEF Orderly, SettledIsDead
  <2> QED
    BY <1>4, <2>1, <2>2, <2>3, QuietKeepsWaited DEF Orderly, NotifyLabels
<1>5. CASE /\ Step(t, "exec", "register")
           /\ \E c \in Fresh : own' = c /\ status' = [status EXCEPT ![c] = "running"]
           /\ UNCHANGED <<engine, ids, command, watcher, pid, target>>
  <2>1. /\ own' \in Child
        /\ status[own'] = "none"
        /\ status' = [status EXCEPT ![own'] = "running"]
        /\ pc' = [pc EXCEPT ![t] = "register"] /\ pc[t] = "exec"
        /\ UNCHANGED <<ids, command, watcher, pid, target, interrupted>>
    BY <1>5 DEF Fresh
  <2>2. Alive = {} /\ Alive' = {own'}
    BY <2>1 DEF Orderly, OneLive, Alive
  <2>3. OneLive'
    BY <1>1, <2>1, <2>2 DEF Orderly, OneLive
  <2>4. SettledIsDead'
    BY <2>1, <2>2 DEF SettledIsDead
  <2>5. ASSUME NEW g \in Caller PROVE Waited(g)'
    <3>1. \A l \in NotifyLabels \ {"readPid"} : At(g, l)' => At(g, l)
      BY <2>1 DEF At, Caller, NotifyLabels
    <3>2. own' # pid[g]
      BY <2>1 DEF Known
    <3> QED
      BY <2>1, <2>2, <3>1, <3>2 DEF Orderly, Waited, NotifyLabels
  <2> QED
    BY <2>3, <2>4, <2>5 DEF Orderly
<1>6. CASE RegisterRecord(t)
  <2>1. /\ Alive' = Alive
        /\ UNCHANGED <<interrupted, command, own, watcher, pid, target>>
        /\ ids' = ids \cup {own}
        /\ pc' = [pc EXCEPT ![t] = "add"]
        /\ pc[t] = "register"
    BY <1>6 DEF Alive, RegisterRecord
  <2>2. OneLive'
    BY <1>1, <2>1 DEF Orderly, OneLive
  <2>3. SettledIsDead'
    BY <2>1 DEF Orderly, SettledIsDead, OneLive
  <2> QED
    BY <2>1, <2>2, <2>3, QuietKeepsWaited DEF Orderly, NotifyLabels
<1>7. CASE RegisterAdd(t)
  <2>1. /\ Alive' = Alive
        /\ UNCHANGED <<interrupted, procVars>>
        /\ pc' = [pc EXCEPT ![t] = "setCommand"]
        /\ pc[t] = "add"
    BY <1>7 DEF Alive, RegisterAdd
  <2>2. OneLive'
    BY <1>1, <2>1 DEF Orderly, OneLive
  <2>3. SettledIsDead'
    BY <2>1 DEF Orderly, SettledIsDead, OneLive
  <2> QED
    BY <2>1, <2>2, <2>3, QuietKeepsWaited DEF Orderly, NotifyLabels
<1>8. CASE SetCommand(t)
  <2>1. /\ Alive' = Alive
        /\ UNCHANGED <<interrupted, ids, own, watcher, pid, target>>
        /\ command' = own
        /\ pc[t] = "setCommand"
        /\ pc' \in {[pc EXCEPT ![t] = "started"], [pc EXCEPT ![t] = "health"]}
    BY <1>8 DEF Alive, SetCommand
  <2>2. OneLive'
    BY <1>1, <2>1 DEF Orderly, OneLive
  <2>3. SettledIsDead'
    BY <2>1 DEF Orderly, SettledIsDead
  <2>4. command \notin Alive
    BY <2>1 DEF Known, Orderly, OneLive
  <2> QED
    BY <2>1, <2>2, <2>3, <2>4, QuietKeepsWaited DEF Orderly, NotifyLabels
<1>9. CASE AwaitHealth(t)
  <2>1. /\ Alive' = Alive /\ UNCHANGED <<interrupted, procVars>>
        /\ pc[t] = "health"
        /\ pc' \in {[pc EXCEPT ![t] = l] : l \in {"reap", "started", "stop", "failed"}}
        /\ pc'[t] = "failed" => interrupted
    BY <1>9 DEF Alive, AwaitHealth, WaitUntilUp, Control
  <2>2. OneLive'
    BY <1>1, <2>1 DEF Orderly, OneLive
  <2>3. SettledIsDead'
    BY <2>1 DEF Orderly, SettledIsDead
  <2> QED
    BY <2>1, <2>2, <2>3, QuietKeepsWaited DEF Orderly, NotifyLabels
<1>10. CASE SpawnWatcher(t)
  <2>1. /\ Alive' = Alive
        /\ UNCHANGED <<interrupted, ids, command, own, pid, target>>
        /\ pc' = [pc EXCEPT ![t] = "started"]
        /\ pc[t] = "reap"
        /\ watcher' = [watcher EXCEPT ![own] = "readPid"]
    BY <1>10 DEF Alive, SpawnWatcher
  <2>2. OneLive'
    BY <1>1, <2>1 DEF Orderly, OneLive
  <2>3. SettledIsDead'
    BY <2>1 DEF Orderly, SettledIsDead
  <2>4. ASSUME NEW g \in Caller PROVE Waited(g)'
    <3>1. \A l \in NotifyLabels \ {"readPid"} : At(g, l)' => At(g, l)
      BY <2>1 DEF At, Caller, NotifyLabels
    <3> QED
      BY <2>1, <3>1 DEF Orderly, Waited, NotifyLabels
  <2> QED
    BY <2>2, <2>3, <2>4 DEF Orderly
<1> QED
  <2>1. CASE Prepare(t)
    BY <1>2, <1>3, <2>1 DEF Prepare
  <2>2. CASE Exec(t)
    BY <1>2, <1>4, <1>5, <2>2 DEF Exec
  <2> QED
    BY <1>6, <1>7, <1>8, <1>9, <1>10, <2>1, <2>2 DEF StartStep

\* Stop's kill does not end the process: it keeps the order.
LEMMA StopOrderly ==
  ASSUME Shape, Known, Orderly, NEW t \in Thread, StopStep(t) PROVE Orderly'
<1> USE NoneAssumption DEF Shape, TypeOK, Thread, Starter, Private, Goto, procVars, Step,
         FatalAt, Fatal
<1>1. CASE UNCHANGED <<pc, procVars, interrupted>>
  <2>1. Alive' = Alive
    BY <1>1 DEF Alive
  <2> QED
    BY <1>1, <2>1, QuietKeepsWaited DEF Orderly, OneLive, SettledIsDead
<1>2. CASE StopWithoutProcess(t)
  <2>1. t = "signal" /\ back[t] = "done"
    BY <1>2 DEF StopWithoutProcess, StopNothing, Control, StopLabels, BeforeCommand
  <2>2. /\ Alive' = Alive
        /\ UNCHANGED <<procVars, interrupted>>
        /\ pc' = [pc EXCEPT !["signal"] = "done"]
    BY <1>2, <2>1 DEF StopWithoutProcess, StopNothing, Alive
  <2>3. OneLive' /\ SettledIsDead'
    BY <2>2 DEF Orderly, OneLive, SettledIsDead
  <2> QED
    BY <2>2, <2>3, QuietKeepsWaited DEF Orderly, NotifyLabels
<1>3. CASE StopProcess(t)
  <2>1. /\ Alive' = Alive
        /\ UNCHANGED <<procVars, interrupted>>
        /\ pc[t] = "stop"
        /\ pc' = [pc EXCEPT ![t] = "kill"]
    BY <1>3 DEF StopProcess, Alive
  <2>2. OneLive'
    BY <2>1 DEF Orderly, OneLive
  <2>3. SettledIsDead'
    BY <2>1 DEF Orderly, SettledIsDead
  <2> QED
    BY <2>1, <2>2, <2>3, QuietKeepsWaited DEF Orderly, NotifyLabels
<1>4. CASE /\ Step(t, "kill", "readPid")
           /\ status' = [status EXCEPT ![command] = IF @ = "running" THEN "killed" ELSE @]
           /\ UNCHANGED <<engine, ids, command, own, watcher, pid, target>>
  <2>1. /\ Alive' = Alive
        /\ UNCHANGED <<ids, command, own, watcher, pid, target, interrupted>>
        /\ pc[t] = "kill"
        /\ pc' = [pc EXCEPT ![t] = "readPid"]
    BY <1>4 DEF Alive
  <2>2. OneLive'
    BY <2>1 DEF Orderly, OneLive
  <2>3. SettledIsDead'
    BY <2>1 DEF Orderly, SettledIsDead
  <2> QED
    BY <2>1, <2>2, <2>3, QuietKeepsWaited DEF Orderly, NotifyLabels
<1> QED
  BY <1>1, <1>2, <1>3, <1>4 DEF StopStep, Kill

\* notifyOnStopBlocking keeps the order: the second read sees the command of the
\* first or a successor of it, and the wait returns when that process is dead.
LEMMA NotifyOrderly ==
  ASSUME Shape, Known, Orderly, NEW g \in Caller, NotifyStep(g) PROVE Orderly'
<1> DEFINE label == IF g \in Thread THEN pc[g] ELSE watcher[g]
<1>1. /\ UNCHANGED <<command, own, interrupted>>
      /\ \A t \in Thread : pc'[t] # pc[t] =>
            /\ t = g
            /\ pc[t] \in NotifyLabels
            /\ pc'[t] \in NotifyLabels \cup {"start", "failed", "done"}
  BY NotifyFrame
<1>2. Alive' = Alive
  <2>1. CASE Reap(g)
    BY <2>1 DEF Reap, Alive, Shape, TypeOK
  <2> QED
    BY <2>1 DEF NotifyStep, ReadPid, ReadTarget, Notify, NotifyDone, Alive
<1>3. g \in Starter => /\ At(g, pc[g]) /\ pc[g] \in NotifyLabels
                       /\ \A u \in Starter \ {g} : pc[u] \in {"off", "wait"}
  BY DEF Shape, Control, NotifyStep, ReadPid, ReadTarget, Reap, Notify, NotifyDone, At,
       Starter,
       Thread, NotifyLabels
<1>4. command # None
  BY DEF Shape, Control, NotifyStep, ReadPid, ReadTarget, Reap, Notify, NotifyDone, At,
       Caller,
       Thread, StopLabels, NotifyLabels
<1>5. CASE ReadPid(g)
  <2>1. /\ UNCHANGED <<ids, target, status>>
        /\ pid' = [pid EXCEPT ![g] = command]
        /\ Move(g, "readTarget")
    BY <1>5 DEF ReadPid
  <2>2. OneLive'
    <3>1. \A u \in Starter : pid'[u] = IF u = g THEN command ELSE pid[u]
      BY <2>1 DEF Shape, TypeOK, Caller, Thread, Starter
    <3>2. \A u \in Starter : pc'[u] = IF u = g THEN "readTarget" ELSE pc[u]
      BY <2>1, ChildAssumption DEF Shape, TypeOK, Caller, Thread, Starter, Move, Goto
    <3> QED
      BY <1>1, <1>2, <1>3, <2>1, <3>1, <3>2 DEF Orderly, OneLive, Starter, Private,
           NotifyLabels
  <2>3. SettledIsDead'
    BY <1>1, <1>2, <2>1 DEF Orderly, SettledIsDead, Starter, Thread, NotifyLabels
  <2>4. ASSUME NEW h \in Caller PROVE Waited(h)'
    BY <1>1, <1>2, <1>4, <2>1, MoveAt DEF Orderly, Waited, Shape, TypeOK
  <2> QED
    BY <2>2, <2>3, <2>4 DEF Orderly
<1>6. CASE ReadTarget(g)
  <2>1. /\ UNCHANGED <<ids, pid, status>>
        /\ target' = [target EXCEPT ![g] = command]
        /\ Move(g, "reaping")
        /\ At(g, "readTarget")
    BY <1>6 DEF ReadTarget
  <2>2. OneLive'
    BY <1>1, <1>2, <1>3, <2>1, ChildAssumption DEF Orderly, OneLive, Shape, TypeOK, Starter,
         Thread, Move, Goto, Caller, Private, At
  <2>3. SettledIsDead'
    BY <1>1, <1>2, <2>1 DEF Orderly, SettledIsDead, Starter, Thread, NotifyLabels
  <2>4. ASSUME NEW h \in Caller PROVE Waited(h)'
    BY <1>1, <1>2, <1>4, <2>1, MoveAt DEF Orderly, Waited, Shape, TypeOK
  <2> QED
    BY <2>2, <2>3, <2>4 DEF Orderly
<1>7. CASE Reap(g)
  <2>1. /\ UNCHANGED <<ids, pid, target>>
        /\ Move(g, "notify")
        /\ At(g, "reaping")
        /\ target[g] \notin Alive
    BY <1>7 DEF Reap
  <2>2. OneLive'
    BY <1>1, <1>2, <1>3, <2>1, ChildAssumption DEF Orderly, OneLive, Shape, TypeOK, Starter,
         Thread, Move, Goto, Caller, Private, At, NotifyLabels
  <2>3. SettledIsDead'
    BY <1>1, <1>2, <2>1 DEF Orderly, SettledIsDead, Starter, Thread, NotifyLabels
  <2>4. ASSUME NEW h \in Caller PROVE Waited(h)'
    BY <1>1, <1>2, <1>4, <2>1, MoveAt DEF Orderly, Waited, Shape, TypeOK
  <2> QED
    BY <2>2, <2>3, <2>4 DEF Orderly
<1>8. CASE Notify(g)
  <2>1. /\ UNCHANGED <<pid, target, status>> /\ ids' = ids \ {pid[g]} /\ At(g, "notify")
        /\ Move(g, IF pid[g] \in ids THEN "settle" ELSE BackOf(g))
    BY <1>8 DEF Notify
  <2>2. BackOf(g) \in {"start", "failed", "done"}
    BY <2>1 DEF BackOf, At, Shape, Control, Thread, StopLabels, NotifyLabels
  <2>3. OneLive'
    BY <1>1, <1>2, <1>3, <2>2, <2>1, ChildAssumption DEF Orderly, OneLive, Shape, TypeOK,
         Starter,
         Thread, Move, Goto, Caller, Private, At, NotifyLabels
  <2>4. SettledIsDead'
    BY <1>1, <1>2, <2>1 DEF Orderly, SettledIsDead, Starter, Thread, NotifyLabels, Waited
  <2>5. ASSUME NEW h \in Caller PROVE Waited(h)'
    BY <1>1, <1>2, <1>4, <2>2, <2>1, MoveAt DEF Orderly, Waited, Shape, TypeOK
  <2> QED
    BY <2>3, <2>4, <2>5 DEF Orderly
<1>9. CASE NotifyDone(g)
  <2>1. /\ UNCHANGED <<ids, pid, target, status>> /\ At(g, "settle")
        /\ Move(g, BackOf(g))
    BY <1>9 DEF NotifyDone
  <2>2. BackOf(g) \in {"start", "failed", "done"}
    BY <2>1 DEF BackOf, At, Shape, Control, Thread, StopLabels, NotifyLabels
  <2>3. OneLive'
    BY <1>1, <1>2, <1>3, <2>2, <2>1, ChildAssumption DEF Orderly, OneLive, Shape, TypeOK,
         Starter,
         Thread, Move, Goto, Caller, Private, At, NotifyLabels
  <2>4. SettledIsDead'
    BY <1>1, <1>2, <2>1 DEF Orderly, SettledIsDead, Starter, Thread, NotifyLabels, Waited
  <2>5. ASSUME NEW h \in Caller PROVE Waited(h)'
    BY <1>1, <1>2, <1>4, <2>2, <2>1, MoveAt DEF Orderly, Waited, Shape, TypeOK
  <2> QED
    BY <2>3, <2>4, <2>5 DEF Orderly
<1> QED
  BY <1>5, <1>6, <1>7, <1>8, <1>9 DEF NotifyStep

\* No other step starts a child or lets a waiter go.
LEMMA RestOrderly ==
  ASSUME Shape, Known, Orderly, SignalStep \/ RestartStep \/ Environment \/ UNCHANGED vars
  PROVE Orderly'
<1> USE DEF Shape, TypeOK, Thread, Starter, Private, Goto, procVars
<1>1. CASE ~(\E c \in Child : ChildExits(c)) /\ ~UNCHANGED vars
  <2>1. UNCHANGED procVars /\ Alive' = Alive
    BY <1>1 DEF Alive, SignalStep, RestartStep, Environment, DirectoryChanged
  <2>2. \/ pc' \in {pc, [pc EXCEPT !["signal"] = "abort"], [pc EXCEPT !["signal"] = "stop"]}
           /\ (interrupted => interrupted')
        \/ /\ pc["restart"] \in {"started", "failed"}
           /\ pc' = [pc EXCEPT !["restart"] = "idle"]
           /\ UNCHANGED interrupted
        \/ /\ pc["restart"] = "idle"
           /\ pc' = [pc EXCEPT !["restart"] = "stop"]
           /\ UNCHANGED interrupted
    BY <1>1 DEF SignalStep, StopImmediately, RestartStep, RestartEnd, Environment,
         Interrupt,
         KilledBySignal, DirectoryChanged, RestartBegin
  <2>3. OneLive'
    BY <2>1, <2>2 DEF Orderly, OneLive
  <2>4. SettledIsDead'
    BY <2>1, <2>2 DEF Orderly, SettledIsDead
  <2>5. \A t \in Thread : pc'[t] \in NotifyLabels \ {"readPid"} => pc'[t] = pc[t]
    BY <2>2 DEF NotifyLabels
  <2> QED
    BY <2>1, <2>3, <2>4, <2>5, QuietKeepsWaited DEF Orderly
<1>2. ASSUME NEW c \in Child, ChildExits(c) PROVE Orderly'
  <2>1. /\ Alive' \subseteq Alive
        /\ UNCHANGED <<pc, interrupted, ids, command, own, watcher, pid, target>>
    BY <1>2 DEF ChildExits, Alive, upVars
  <2> QED
    BY <2>1, QuietKeepsWaited DEF Orderly, OneLive, SettledIsDead
<1>3. CASE UNCHANGED vars
  <2>1. /\ Alive' = Alive
        /\ UNCHANGED <<pc, interrupted, ids, command, own, watcher, pid, target>>
    BY <1>3 DEF vars, upVars, Alive
  <2> QED
    BY <2>1, QuietKeepsWaited DEF Orderly, OneLive, SettledIsDead
<1> QED
  BY <1>1, <1>2, <1>3

\* The sets the counter is made of are finite: what one element more or less
\* does to their sizes.
LEMMA Cardinalities ==
  /\ Cardinality(ids) \in Nat \/ ~Shape
  /\ \A S : S \subseteq Caller \/ S \subseteq Child =>
        /\ Cardinality(S) \in Nat
        /\ Cardinality(S) = 0 <=> S = {}
        /\ \A c : c \notin S => Cardinality(S \cup {c}) = Cardinality(S) + 1
        /\ \A c \in S : Cardinality(S \ {c}) = Cardinality(S) - 1
<1>1. IsFiniteSet(Child) /\ IsFiniteSet(Caller)
  <2>1. IsFiniteSet({"main"}) /\ IsFiniteSet({"signal"}) /\ IsFiniteSet({"restart"})
    BY FS_Singleton
  <2>2. IsFiniteSet({"main"} \cup {"signal"} \cup {"restart"})
    BY <2>1, FS_Union
  <2>3. Thread = {"main"} \cup {"signal"} \cup {"restart"}
    BY DEF Thread
  <2> QED
    BY <2>2, <2>3, ChildAssumption, FS_Union DEF Caller
<1>2. ASSUME NEW S, S \subseteq Caller \/ S \subseteq Child
      PROVE  /\ Cardinality(S) \in Nat
             /\ Cardinality(S) = 0 <=> S = {}
             /\ \A c : c \notin S => Cardinality(S \cup {c}) = Cardinality(S) + 1
             /\ \A c \in S : Cardinality(S \ {c}) = Cardinality(S) - 1
  <2>1. IsFiniteSet(S)
    BY <1>1, <1>2, FS_Subset
  <2> QED
    BY ONLY <2>1, FS_CardinalityType, FS_EmptySet, FS_AddElement, FS_RemoveElement
<1> QED
  BY <1>2 DEF Shape, TypeOK

\* The counter starts at zero with nothing registered.
LEMMA InitAccounting == Init => WgAccounting
<1> SUFFICES ASSUME Init PROVE WgAccounting
  OBVIOUS
<1>1. /\ ids = {} /\ wg = 0 /\ ~strayed
      /\ pc["main"] = "start" /\ pc["restart"] = "off" /\ pc["signal"] \in {"off", "armed"}
  BY DEF Init, UpInit, Thread
<1>2. Settling = {}
  BY ChildAssumption DEF Init, UpInit, Settling, At, Caller, Thread
<1>3. Cardinality({}) = 0
  BY FS_EmptySet
<1> QED
  BY ONLY <1>1, <1>2, <1>3 DEF WgAccounting, Adding, RestartInProgress, One

\* Who does not notify does not change who is settling.
LEMMA QuietKeepsSettling ==
  ASSUME Shape, UNCHANGED watcher, \A t \in Thread : pc'[t] = "settle" <=> pc[t] = "settle"
  PROVE  Settling' = Settling
<1>1. \A g \in Caller : At(g, "settle")' <=> At(g, "settle")
  BY DEF At
<1> QED
  BY <1>1 DEF Settling

\* A restart's own Add and Done (up.go:264-272) are the only other calls on the
\* WaitGroup.
LEMMA OtherAccounting ==
  ASSUME Shape, WgAccounting,
         MainStep \/ SignalStep \/ RestartStep \/ Environment \/ UNCHANGED vars
  PROVE  WgAccounting'
<1> USE DEF Shape, TypeOK, UpTypeOK, Thread, Goto
<1>1. UNCHANGED <<ids, strayed>>
  BY DEF MainStep, MainStarted, MainFailed, MainWait, MainReleased, procVars, SignalStep,
       StopImmediately, RestartStep, RestartEnd, Environment, Interrupt, KilledBySignal,
       DirectoryChanged, RestartBegin, ChildExits, vars, upVars, WgDone
<1>2. Settling' = Settling
  <2>1. UNCHANGED watcher
    BY DEF MainStep, procVars, SignalStep, RestartStep, Environment, DirectoryChanged,
         ChildExits,
         vars
  <2>2. \A t \in Thread : pc'[t] = "settle" <=> pc[t] = "settle"
    BY DEF MainStep, MainStarted, MainFailed, MainWait, MainReleased, SignalStep,
         StopImmediately,
         RestartStep, RestartEnd, Environment, Interrupt, KilledBySignal, DirectoryChanged,
         RestartBegin, ChildExits, vars, upVars, Control
  <2> QED
    BY <2>1, <2>2, QuietKeepsSettling
<1>3. Adding' = Adding
  BY DEF MainStep, MainStarted, MainFailed, MainWait, MainReleased, SignalStep,
       StopImmediately,
       RestartStep, RestartEnd, Environment, Interrupt, KilledBySignal, DirectoryChanged,
       RestartBegin, ChildExits, vars, upVars, Control, Adding
<1>4. \/ wg' = wg /\ RestartInProgress' = RestartInProgress
      \/ wg' = wg + 1 /\ ~RestartInProgress /\ RestartInProgress'
      \/ wg' = wg - 1 /\ RestartInProgress /\ ~RestartInProgress'
  BY DEF MainStep, MainStarted, MainFailed, MainWait, MainReleased, SignalStep,
       StopImmediately,
       RestartStep, RestartEnd, Environment, Interrupt, KilledBySignal, DirectoryChanged,
       RestartBegin, ChildExits, vars, upVars, Control, RestartInProgress, WgDone
<1>5. Cardinality(ids) \in Int /\ Cardinality(Settling) \in Int
  BY Cardinalities DEF Settling
<1> QED
  BY ONLY <1>1, <1>2, <1>3, <1>4, <1>5, WgAccounting, wg \in Int DEF WgAccounting, One

\* Register records a fresh ID first and adds afterwards (debouncer.go:53-57).
LEMMA StartAccounting ==
  ASSUME Shape, Known, WgAccounting, NEW t \in Starter, StartStep(t)
  PROVE  WgAccounting'
<1> USE DEF Shape, TypeOK, UpTypeOK, Thread, Starter, Goto, Step, Fatal, FatalAt, procVars
<1>1. UNCHANGED strayed /\ RestartInProgress' = RestartInProgress
  BY DEF StartStep, Prepare, Exec, RegisterRecord, RegisterAdd, SetCommand, AwaitHealth,
       WaitUntilUp, SpawnWatcher, RestartInProgress
<1>2. Settling' = Settling
  <2>1. \A u \in Thread : pc'[u] = "settle" <=> pc[u] = "settle"
    BY DEF StartStep, Prepare, Exec, RegisterRecord, RegisterAdd, SetCommand, AwaitHealth,
         WaitUntilUp, SpawnWatcher
  <2>2. CASE SpawnWatcher(t)
    <3>1. /\ watcher' = [watcher EXCEPT ![own] = "readPid"]
          /\ own \in Child
          /\ watcher[own] # "settle"
      BY <2>2 DEF SpawnWatcher, Control, Known
    <3>2. \A c \in Child : watcher'[c] = "settle" <=> watcher[c] = "settle"
      BY <3>1
    <3>3. \A g \in Caller : At(g, "settle")' <=> At(g, "settle")
      BY <2>1, <3>2 DEF At, Caller
    <3> QED
      BY <3>3 DEF Settling
  <2>3. CASE ~SpawnWatcher(t)
    <3>1. UNCHANGED watcher
      BY <2>3 DEF StartStep, Prepare, Exec, RegisterRecord, RegisterAdd, SetCommand,
           AwaitHealth
    <3> QED
      BY <2>1, <3>1, QuietKeepsSettling
  <2> QED
    BY <2>2, <2>3
<1>3. Cardinality(ids) \in Int /\ Cardinality(Settling) \in Int
  BY Cardinalities DEF Settling
<1>4. wg \in Int
  OBVIOUS
<1>5. CASE RegisterRecord(t)
  <2>1. ids' = ids \cup {own} /\ own \notin ids /\ ids \subseteq Child
    BY <1>5 DEF RegisterRecord, Known, Private
  <2>2. Cardinality(ids') = Cardinality(ids) + 1
    BY ONLY <2>1, Cardinalities
  <2>3. ~Adding /\ Adding'
    BY <1>5 DEF RegisterRecord, Adding, Control
  <2>4. wg' = wg
    BY <1>5 DEF RegisterRecord
  <2> QED
    BY ONLY <1>1, <1>2, <1>3, <1>4, <2>2, <2>3, <2>4, WgAccounting DEF WgAccounting, One
<1>6. CASE RegisterAdd(t)
  <2>1. UNCHANGED ids /\ wg' = wg + 1
    BY <1>6 DEF RegisterAdd
  <2>2. Adding /\ ~Adding'
    BY <1>6 DEF RegisterAdd, Adding, Control
  <2> QED
    BY ONLY <1>1, <1>2, <1>3, <1>4, <2>1, <2>2, WgAccounting DEF WgAccounting, One
<1>7. CASE ~RegisterRecord(t) /\ ~RegisterAdd(t)
  <2>1. UNCHANGED <<ids, wg>> /\ Adding' = Adding
    BY <1>7 DEF StartStep, Prepare, Exec, SetCommand, AwaitHealth, WaitUntilUp,
         SpawnWatcher,
         Adding, Control
  <2> QED
    BY ONLY <1>1, <1>2, <1>3, <1>4, <2>1, WgAccounting DEF WgAccounting, One
<1> QED
  BY <1>5, <1>6, <1>7

\* The one Done of a Stop with nothing to stop is the stray one
\* (jvm/engine.go:143-146).
LEMMA StopAccounting ==
  ASSUME Shape, Known, WgAccounting, NEW t \in Thread, StopStep(t)
  PROVE  WgAccounting'
<1> USE DEF Shape, TypeOK, UpTypeOK, Thread, Starter, Goto, Step, Fatal, FatalAt, procVars
<1>1. StopWithoutProcess(t) => t = "signal" /\ back[t] = "done" /\ ~strayed
  BY DEF StopWithoutProcess, StopNothing, Control, StopLabels, BeforeCommand
<1>2. UNCHANGED ids /\ UNCHANGED watcher
  BY DEF StopStep, StopWithoutProcess, StopProcess, Kill
<1>3. Settling' = Settling
  <2>1. \A u \in Thread : pc'[u] = "settle" <=> pc[u] = "settle"
    BY <1>1 DEF StopStep, StopWithoutProcess, StopNothing, StopProcess, Kill
  <2> QED
    BY <2>1, <1>2, QuietKeepsSettling
<1>4. Cardinality(ids) \in Int /\ Cardinality(Settling) \in Int
  BY Cardinalities DEF Settling
<1>5. wg \in Int
  OBVIOUS
<1>6. Adding' = Adding /\ RestartInProgress' = RestartInProgress
  BY <1>1 DEF StopStep, StopWithoutProcess, StopNothing, StopProcess, Kill, Adding,
       RestartInProgress
<1>7. CASE StopWithoutProcess(t)
  <2>1. ~strayed /\ strayed' /\ wg' = wg - 1
    BY <1>1, <1>7 DEF StopWithoutProcess, StopNothing, WgDone
  <2> QED
    BY ONLY <1>2, <1>3, <1>4, <1>5, <1>6, <2>1, WgAccounting DEF WgAccounting, One
<1>8. CASE ~StopWithoutProcess(t)
  <2>1. UNCHANGED <<strayed, wg>>
    BY <1>8 DEF StopStep, StopProcess, Kill
  <2> QED
    BY ONLY <1>2, <1>3, <1>4, <1>5, <1>6, <2>1, WgAccounting DEF WgAccounting, One
<1> QED
  BY <1>7, <1>8

\* Notify takes the ID out and calls Done for exactly that (debouncer.go:60-70).
LEMMA NotifyAccounting ==
  ASSUME Shape, Known, WgAccounting, NEW g \in Caller, NotifyStep(g)
  PROVE  WgAccounting'
<1>1. UNCHANGED strayed /\ Adding' = Adding
  <2>1. \A t \in Thread : pc'[t] = "add" <=> pc[t] = "add"
    BY NotifyFrame DEF NotifyLabels
  <2> QED
    BY <2>1, NotifyFrame DEF Adding, Thread
<1>2. RestartInProgress' = RestartInProgress
  BY NotifyFrame DEF RestartInProgress, Thread, NotifyLabels
<1>3. Cardinality(ids) \in Int /\ Cardinality(Settling) \in Int
  BY Cardinalities DEF Settling
<1>4. wg \in Int
  BY DEF Shape, TypeOK, UpTypeOK
<1>5. ASSUME NEW label, Move(g, label)
      PROVE  Settling' = IF label = "settle" THEN Settling \cup {g} ELSE Settling \ {g}
  BY <1>5, MoveAt DEF Settling
<1>6. BackOf(g) # "settle" \/ ~(At(g, "notify") \/ At(g, "settle"))
  BY DEF BackOf, At, Shape, Control, Thread, StopLabels, NotifyLabels
<1>7. \A l, m : At(g, l) /\ At(g, m) => l = m
  BY DEF At
<1>8. CASE ReadPid(g) \/ ReadTarget(g) \/ Reap(g)
  <2>1. UNCHANGED <<ids, wg>> /\ ~At(g, "settle")
    BY <1>7, <1>8 DEF ReadPid, ReadTarget, Reap
  <2>2. Settling' = Settling
    BY <1>5, <1>8, <2>1 DEF ReadPid, ReadTarget, Reap, Settling
  <2> QED
    BY ONLY <1>1, <1>2, <1>3, <1>4, <2>1, <2>2, WgAccounting DEF WgAccounting, One
<1>9. CASE Notify(g)
  <2>1. /\ ids' = ids \ {pid[g]} /\ UNCHANGED wg /\ At(g, "notify")
        /\ Move(g, IF pid[g] \in ids THEN "settle" ELSE BackOf(g))
    BY <1>9 DEF Notify
  <2>2. g \notin Settling
    BY <1>7, <2>1 DEF Settling
  <2>3. CASE pid[g] \in ids
    <3>1. Settling' = Settling \cup {g}
      BY <1>5, <2>1, <2>3
    <3>2. Cardinality(Settling') = Cardinality(Settling) + 1
      BY ONLY <2>2, <3>1, Cardinalities, Settling \subseteq Caller DEF Settling
    <3>3. Cardinality(ids') = Cardinality(ids) - 1
      BY <2>1, <2>3, Cardinalities DEF Shape, TypeOK
    <3> QED
      BY ONLY <1>1, <1>2, <1>3, <1>4, <2>1, <3>2, <3>3, WgAccounting DEF WgAccounting, One
  <2>4. CASE pid[g] \notin ids
    <3>1. Settling' = Settling /\ ids' = ids
      BY <1>5, <1>6, <2>1, <2>2, <2>4
    <3> QED
      BY ONLY <1>1, <1>2, <1>3, <1>4, <2>1, <3>1, WgAccounting DEF WgAccounting, One
  <2> QED
    BY <2>3, <2>4
<1>10. CASE NotifyDone(g)
  <2>1. UNCHANGED ids /\ wg' = wg - 1 /\ At(g, "settle") /\ Move(g, BackOf(g))
    BY <1>10 DEF NotifyDone, WgDone
  <2>2. Settling' = Settling \ {g} /\ g \in Settling
    BY <1>5, <1>6, <2>1 DEF Settling
  <2>3. Cardinality(Settling') = Cardinality(Settling) - 1
    BY ONLY <2>2, Cardinalities, Settling \subseteq Caller DEF Settling
  <2> QED
    BY ONLY <1>1, <1>2, <1>3, <1>4, <2>1, <2>3, WgAccounting DEF WgAccounting, One
<1> QED
  BY <1>8, <1>9, <1>10 DEF NotifyStep

\* A counter at zero outside a restart means that nothing is registered, so the
\* wait that returns leaves no child behind (up.go:257 and 275).
LEMMA NothingRegistered ==
  ASSUME Shape, Orderly, WgAccounting, wg = 0, ~strayed, ~RestartInProgress,
         pc["main"] \in {"wait", "waitFailed"}
  PROVE  Alive = {}
<1>1. Cardinality(ids) \in Nat /\ Cardinality(Settling) \in Nat
  BY Cardinalities DEF Settling
<1>2. ~Adding /\ pc["restart"] \in {"off", "idle"}
  BY DEF Adding, RestartInProgress
<1>3. Cardinality(ids) = 0
  BY ONLY <1>1, <1>2, wg = 0, ~strayed, ~RestartInProgress, WgAccounting DEF WgAccounting,
       One
<1>4. ids = {}
  BY <1>3, Cardinalities DEF Shape, TypeOK
<1> QED
  BY <1>2, <1>4 DEF Orderly, SettledIsDead, Alive, Starter

\* A running CLI has orphaned nothing.
LEMMA InitOrphaned == Init => NothingOrphaned
  BY DEF Init, NothingOrphaned

\* However the CLI ends, no child runs on: after wg.Wait nothing is registered,
\* a failed start has reaped its child, and the fatal exits of Start and Stop
\* come when none lives (up.go:253-275, jvm/engine.go:63-66 and 155-158).
LEMMA NextOrphaned ==
  ASSUME Shape, Known, Orderly, WgAccounting, NothingOrphaned, [Next]_vars
  PROVE  NothingOrphaned'
<1> USE DEF Shape, TypeOK, UpTypeOK, Thread, Starter, Goto, procVars
<1>1. CASE ~Running
  <2>1. UNCHANGED vars
    BY <1>1, Zenon DEF Next, MainStep, MainStarted, MainFailed, MainWait, MainReleased,
         SignalStep, StopImmediately, RestartStep, RestartEnd, StartStep, Prepare, Exec,
         RegisterRecord, RegisterAdd, SetCommand, AwaitHealth, WaitUntilUp, SpawnWatcher,
         StopStep, StopWithoutProcess, StopNothing, StopProcess, Kill, NotifyStep, ReadPid,
         ReadTarget, Reap, Notify, NotifyDone, Environment, Interrupt, KilledBySignal,
         DirectoryChanged, RestartBegin, ChildExits, Step, FatalAt, Fatal
  <2> QED
    BY <2>1 DEF vars, upVars, NothingOrphaned, RestartInProgress
<1>2. CASE Running /\ proc' \notin {"exit0", "exit1", "fatal"}
  BY <1>2 DEF NothingOrphaned
<1>3. CASE Running /\ proc' \in {"exit0", "exit1", "fatal"}
  <2> SUFFICES ASSUME ~strayed', ~RestartInProgress',
                      \/ proc' \in {"exit1", "fatal"}
                      \/ proc' = "exit0" /\ detach' = "attached"
               PROVE  \A c \in Child : status'[c] # "running"
    BY DEF NothingOrphaned
  <2>1. \/ MainStep
        \/ \E t \in Starter : FatalAt(t, "start") \/ FatalAt(t, "exec")
        \/ \E t \in Thread : FatalAt(t, "kill") /\ status[command] = "reaped"
    BY <1>3 DEF Running, Next, SignalStep, StopImmediately, RestartStep, RestartEnd,
         StartStep,
         Prepare, Exec, RegisterRecord, RegisterAdd, SetCommand, AwaitHealth, WaitUntilUp,
         SpawnWatcher, StopStep, StopWithoutProcess, StopNothing, StopProcess, Kill,
         NotifyStep,
         ReadPid, ReadTarget, Reap, Notify, NotifyDone, Environment, Interrupt,
         KilledBySignal,
         DirectoryChanged, RestartBegin, ChildExits, Step, FatalAt, UpElse, WgDone, vars,
         upVars
  <2>2. UNCHANGED status /\ Alive' = Alive /\ UNCHANGED <<strayed, detach>>
    BY <2>1 DEF MainStep, MainStarted, MainFailed, MainWait, MainReleased, FatalAt, Fatal,
         Alive
  <2>3. SUFFICES Alive = {}
    BY <2>2 DEF Alive
  <2>4. CASE MainStep
    <3>1. ~strayed /\ (RestartInProgress' = RestartInProgress \/ proc' = proc)
      BY <2>4, <2>2 DEF MainStep, MainStarted, MainFailed, MainWait, MainReleased,
           RestartInProgress
    <3>2. CASE MainWait \/ MainReleased
      <4>1. wg = 0 /\ pc["main"] \in {"wait", "waitFailed"}
        BY <3>2, <1>3 DEF MainWait, MainReleased, Control, Running
      <4> QED
        BY <3>1, <4>1, <1>3, NothingRegistered DEF Running
    <3>3. CASE MainStarted
      BY <3>3, <2>2, <1>3 DEF MainStarted, Running
    <3>4. CASE MainFailed
      BY <3>4, <2>2, <1>3 DEF MainFailed, Running, Orderly, OneLive
    <3> QED
      BY <2>4, <3>2, <3>3, <3>4 DEF MainStep
  <2>5. CASE \E t \in Starter : FatalAt(t, "start") \/ FatalAt(t, "exec")
    BY <2>5 DEF FatalAt, Fatal, Orderly, OneLive
  <2>6. CASE \E t \in Thread : FatalAt(t, "kill") /\ status[command] = "reaped"
    <3>1. PICK t \in Thread : pc[t] = "kill" /\ UNCHANGED pc /\ status[command] = "reaped"
      BY <2>6 DEF FatalAt, Fatal
    <3>2. command # None /\ ~RestartInProgress
      BY <3>1 DEF Control, StopLabels, NotifyLabels, RestartInProgress
    <3>3. \A u \in Starter : pc[u] \notin Private
      BY <3>2 DEF Control, RestartInProgress, Private, BeforeCommand
    <3>4. Alive \subseteq {command} /\ command \notin Alive
      BY <3>1, <3>3 DEF Orderly, OneLive, Alive
    <3> QED
      BY <3>4
  <2> QED
    BY <2>1, <2>4, <2>5, <2>6
<1> QED
  BY <1>1, <1>2, <1>3

\* The inductive invariant.
ProcInv == Shape /\ Known /\ Orderly /\ WgAccounting /\ NothingOrphaned

\* Every goroutine's steps keep all five parts.
THEOREM ProcInvHolds == Spec => []ProcInv
<1>1. Init => ProcInv
  BY InitShape, InitKnown, InitOrderly, InitAccounting, InitOrphaned DEF ProcInv
<1>2. ProcInv /\ [Next]_vars => ProcInv'
  <2> SUFFICES ASSUME ProcInv, [Next]_vars PROVE ProcInv'
    OBVIOUS
  <2> USE DEF ProcInv
  <2>1. Shape'
    BY NextShape
  <2>2. NothingOrphaned'
    BY NextOrphaned
  <2>3. CASE MainStep
    BY <2>1, <2>2, <2>3, MainKnown, MainOrderly, OtherAccounting
  <2>4. ASSUME NEW t \in Starter, StartStep(t) PROVE ProcInv'
    BY <2>1, <2>2, <2>4, StartKnown, StartOrderly, StartAccounting
  <2>5. ASSUME NEW t \in Thread, StopStep(t) PROVE ProcInv'
    BY <2>1, <2>2, <2>5, StopKnown, StopOrderly, StopAccounting
  <2>6. ASSUME NEW g \in Caller, NotifyStep(g) PROVE ProcInv'
    BY <2>1, <2>2, <2>6, NotifyKnown, NotifyOrderly, NotifyAccounting
  <2>7. CASE SignalStep \/ RestartStep \/ Environment \/ UNCHANGED vars
    BY <2>1, <2>2, <2>7, RestKnown, RestOrderly, OtherAccounting
  <2> QED
    BY <2>3, <2>4, <2>5, <2>6, <2>7 DEF Next
<1> QED
  BY <1>1, <1>2, PTL DEF Spec

\* The WaitGroup's counter is always what its callers make it: registered IDs,
\* Dones to come, a restart, less a stray Done (debouncer.go:53-71).
THEOREM Accounted == Spec => []WgAccounting
<1>1. ProcInv => WgAccounting
  BY DEF ProcInv
<1> QED
  BY <1>1, ProcInvHolds, PTL

\* No process that runs has left the debouncer's map, although the notifier
\* reads the command twice (jvm/engine.go:179-192).
THEOREM SettledDead == Spec => []SettledIsDead
<1>1. ProcInv => SettledIsDead
  BY DEF ProcInv, Orderly
<1> QED
  BY <1>1, ProcInvHolds, PTL

\* Two mocks never run together, so a restarted one finds its port free
\* (jvm/engine.go:162-172).
THEOREM OneMock == Spec => []OneMockAtATime
<1>1. ProcInv => OneMockAtATime
  <2> SUFFICES ASSUME ProcInv PROVE Cardinality(Alive) <= 1
    BY DEF OneMockAtATime
  <2>1. PICK x : Alive \subseteq {x}
    BY DEF ProcInv, Orderly, OneLive
  <2>2. IsFiniteSet({x}) /\ Cardinality({x}) = 1
    BY FS_Singleton
  <2>3. Cardinality(Alive) \in Nat /\ Cardinality(Alive) <= Cardinality({x})
    BY <2>1, <2>2, FS_Subset, FS_CardinalityType
  <2> QED
    BY ONLY <2>2, <2>3
<1> QED
  BY <1>1, ProcInvHolds, PTL

\* "so we never leak a running mock" (up.go:254-256), within the limits the
\* property states.
THEOREM NothingLeft == Spec => []NothingOrphaned
<1>1. ProcInv => NothingOrphaned
  BY DEF ProcInv
<1> QED
  BY <1>1, ProcInvHolds, PTL

\* The debouncer's view of the WaitGroup.
Counter == wg - One(RestartInProgress) + One(strayed)

\* What each goroutine still owes the debouncer.
Calls == [g \in Caller |-> PendingCall(g)]

\* A step that neither registers nor notifies is a stutter of the debouncer.
LEMMA QuietCalls ==
  ASSUME UNCHANGED <<ids, watcher, pid, own>>,
         \A t \in Thread : pc'[t] = "settle" <=> pc[t] = "settle",
         \A t \in Starter : pc'[t] = "add" <=> pc[t] = "add",
         Counter' = Counter
  PROVE  UNCHANGED Registrations!vars
<1>1. \A g \in Caller : At(g, "settle")' <=> At(g, "settle")
  BY DEF At
<1>2. \A t \in Starter : At(t, "add")' <=> At(t, "add")
  BY DEF At, Starter, Thread
<1>3. \A g \in Caller : PendingCall(g)' = PendingCall(g)
  BY <1>1, <1>2 DEF PendingCall
<1>4. Calls' = Calls
  BY <1>3 DEF Calls
<1> QED
  BY <1>4 DEF Registrations!vars, Counter, Calls

\* A session starts with an unused debouncer.
LEMMA InitRefined == Init => Registrations!Init
<1> SUFFICES ASSUME Init PROVE Registrations!Init
  OBVIOUS
<1>1. ids = {} /\ Counter = 0
  BY DEF Init, UpInit, Counter, RestartInProgress, One, Thread
<1>2. \A g \in Caller : ~At(g, "settle") /\ (g \in Starter => ~At(g, "add"))
  BY ChildAssumption DEF Init, UpInit, At, Caller, Thread, Starter
<1>3. Calls = [g \in Caller |-> Registrations!Idle]
  BY <1>2 DEF Calls, PendingCall, Registrations!Idle
<1> QED
  BY <1>1, <1>3 DEF Registrations!Init, Counter, Calls

\* main, the signal, the end of a restart and the environment do not call it.
LEMMA OtherRefined ==
  ASSUME Shape,
         MainStep \/ SignalStep \/ RestartStep \/ Environment \/ UNCHANGED vars
  PROVE  UNCHANGED Registrations!vars
<1> USE DEF Shape, TypeOK, UpTypeOK, Thread, Starter, Goto
<1>1. UNCHANGED <<ids, watcher, pid, own, strayed>>
  BY DEF MainStep, MainStarted, MainFailed, MainWait, MainReleased, procVars, SignalStep,
       StopImmediately, RestartStep, RestartEnd, Environment, Interrupt, KilledBySignal,
       DirectoryChanged, RestartBegin, ChildExits, vars, upVars, WgDone
<1>2. \A t \in Thread : pc'[t] = "settle" <=> pc[t] = "settle"
  BY DEF MainStep, MainStarted, MainFailed, MainWait, MainReleased, SignalStep,
       StopImmediately,
       RestartStep, RestartEnd, Environment, Interrupt, KilledBySignal, DirectoryChanged,
       RestartBegin, ChildExits, vars, upVars, Control
<1>3. \A t \in Starter : pc'[t] = "add" <=> pc[t] = "add"
  BY DEF MainStep, MainStarted, MainFailed, MainWait, MainReleased, SignalStep,
       StopImmediately,
       RestartStep, RestartEnd, Environment, Interrupt, KilledBySignal, DirectoryChanged,
       RestartBegin, ChildExits, vars, upVars, Control
<1>4. \/ wg' = wg /\ RestartInProgress' = RestartInProgress
      \/ wg' = wg + 1 /\ ~RestartInProgress /\ RestartInProgress'
      \/ wg' = wg - 1 /\ RestartInProgress /\ ~RestartInProgress'
  BY DEF MainStep, MainStarted, MainFailed, MainWait, MainReleased, SignalStep,
       StopImmediately,
       RestartStep, RestartEnd, Environment, Interrupt, KilledBySignal, DirectoryChanged,
       RestartBegin, ChildExits, vars, upVars, Control, RestartInProgress, WgDone
<1>5. Counter' = Counter
  BY ONLY <1>1, <1>4, wg \in Int DEF Counter, One
<1> QED
  BY <1>1, <1>2, <1>3, <1>5, QuietCalls

\* Only g's pending call changes.
LEMMA OneCall ==
  ASSUME NEW g \in Caller, NEW new, PendingCall(g)' = new,
         \A h \in Caller \ {g} : PendingCall(h)' = PendingCall(h)
  PROVE  Calls' = [Calls EXCEPT ![g] = new]
  BY DEF Calls

\* What a goroutine's position says of its pending call.
LEMMA CallsAt ==
  ASSUME Shape, NEW g \in Caller
  PROVE  /\ Calls[g].step = "done" <=> At(g, "settle")
         /\ Calls[g].step = "add" <=> g \in Starter /\ At(g, "add")
         /\ Calls[g].step = "idle" <=> ~At(g, "settle") /\ ~(g \in Starter /\ At(g, "add"))
         /\ At(g, "settle") => Calls[g].id = pid[g]
         /\ g \in Starter /\ At(g, "add") => Calls[g].id = own
  BY DEF Calls, PendingCall, At

\* Start's only calls are one Register of the child it has just started
\* (jvm/engine.go:67-69); the ID is new to the map and to whoever settles.
LEMMA StartRefined ==
  ASSUME Shape, Known, Orderly, NEW t \in Starter, StartStep(t)
  PROVE  [Registrations!Next]_(Registrations!vars)
<1> USE DEF Shape, TypeOK, UpTypeOK, Thread, Starter, Goto, Step, Fatal, FatalAt, procVars
<1>1. \A u \in Starter \ {t} : pc[u] \in {"off", "wait"}
  BY DEF Control, StartStep, Prepare, Exec, RegisterRecord, RegisterAdd, SetCommand,
       AwaitHealth,
       WaitUntilUp, SpawnWatcher
<1>2. t \in Caller
  BY DEF Caller
<1>3. UNCHANGED strayed /\ RestartInProgress' = RestartInProgress
  BY DEF StartStep, Prepare, Exec, RegisterRecord, RegisterAdd, SetCommand, AwaitHealth,
       WaitUntilUp, SpawnWatcher, RestartInProgress
<1>4. wg \in Int
  OBVIOUS
<1>5. CASE RegisterRecord(t)
  <2>1. /\ ids' = ids \cup {own} /\ own \notin ids /\ own \in Child
        /\ pc[t] = "register" /\ pc' = [pc EXCEPT ![t] = "add"]
        /\ UNCHANGED <<wg, own, pid, watcher>>
        /\ \A g \in Caller : own # pid[g]
    BY <1>5 DEF RegisterRecord, Known, Control, Private
  <2>2. Counter' = Counter
    BY <1>3, <2>1 DEF Counter
  <2>3. /\ \A h \in Caller \ {t} : PendingCall(h)' = PendingCall(h)
        /\ PendingCall(t)' = [step |-> "add", id |-> own]
    BY <1>2, <2>1, ChildAssumption DEF PendingCall, At, Caller
  <2>4. Calls' = [Calls EXCEPT ![t] = [step |-> "add", id |-> own]]
    BY <1>2, <2>3, OneCall
  <2>5. Calls[t].step = "idle"
    BY <1>2, <2>1, CallsAt DEF At
  <2>6. own \notin {Calls[g].id : g \in {h \in Caller : Calls[h].step = "done"}}
    BY <2>1, CallsAt
  <2>7. Registrations!RegisterRecord(t, own)
    BY <2>1, <2>2, <2>4, <2>5, <2>6 DEF Registrations!RegisterRecord, Registrations!Busy,
         Registrations!SettlingIds, Calls, Counter
  <2> QED
    BY <1>2, <2>1, <2>7 DEF Registrations!Next
<1>6. CASE RegisterAdd(t)
  <2>1. /\ pc[t] = "add" /\ pc' = [pc EXCEPT ![t] = "setCommand"]
        /\ wg' = wg + 1 /\ UNCHANGED <<ids, own, pid, watcher>>
    BY <1>6 DEF RegisterAdd
  <2>2. Counter' = Counter + 1
    BY ONLY <1>3, <1>4, <2>1 DEF Counter, One
  <2>3. /\ \A h \in Caller \ {t} : PendingCall(h)' = PendingCall(h)
        /\ PendingCall(t)' = [step |-> "idle"]
    BY <1>2, <2>1, ChildAssumption DEF PendingCall, At, Caller
  <2>4. Calls' = [Calls EXCEPT ![t] = [step |-> "idle"]]
    BY <1>2, <2>3, OneCall
  <2>5. Calls[t].step = "add"
    BY <1>2, <2>1, CallsAt DEF At
  <2>6. Registrations!RegisterAdd(t)
    BY <2>1, <2>2, <2>4, <2>5 DEF Registrations!RegisterAdd, Registrations!Idle, Calls,
         Counter
  <2> QED
    BY <1>2, <2>6 DEF Registrations!Next
<1>7. CASE Exec(t)
  <2>1. /\ pc[t] = "exec" /\ UNCHANGED <<ids, wg, pid, watcher>>
        /\ pc' = pc \/ pc' \in {[pc EXCEPT ![t] = l] : l \in {"register", "failed"}}
    BY <1>7 DEF Exec
  <2>2. \A g \in Caller : PendingCall(g)' = PendingCall(g)
    BY <1>1, <2>1, ChildAssumption DEF PendingCall, At, Caller
  <2>3. Calls' = Calls /\ Counter' = Counter
    BY <1>3, <2>1, <2>2 DEF Calls, Counter
  <2> QED
    BY <2>1, <2>3 DEF Registrations!vars, Calls, Counter
<1>8. CASE SpawnWatcher(t)
  <2>1. /\ pc[t] = "reap" /\ pc' = [pc EXCEPT ![t] = "started"]
        /\ watcher' = [watcher EXCEPT ![own] = "readPid"] /\ watcher[own] = "none"
        /\ own \in Child /\ UNCHANGED <<ids, wg, own, pid>>
    BY <1>8 DEF SpawnWatcher, Known, Control
  <2>2. \A c \in Child : watcher'[c] = "settle" <=> watcher[c] = "settle"
    BY <2>1
  <2>3. \A g \in Caller : At(g, "settle")' <=> At(g, "settle")
    BY <2>1, <2>2 DEF At, Caller
  <2>4. \A u \in Starter : At(u, "add")' <=> At(u, "add")
    BY <2>1, ChildAssumption DEF At
  <2>5. \A g \in Caller : PendingCall(g)' = PendingCall(g)
    BY <2>1, <2>3, <2>4 DEF PendingCall
  <2>6. Calls' = Calls /\ Counter' = Counter
    BY <1>3, <2>1, <2>5 DEF Calls, Counter
  <2> QED
    BY <2>1, <2>6 DEF Registrations!vars, Calls, Counter
<1>9. CASE Prepare(t) \/ SetCommand(t) \/ AwaitHealth(t)
  <2>1. UNCHANGED <<ids, watcher, pid, own, wg>>
    BY <1>9 DEF Prepare, SetCommand, AwaitHealth, WaitUntilUp
  <2>2. /\ \A u \in Thread : pc'[u] = "settle" <=> pc[u] = "settle"
        /\ \A u \in Starter : pc'[u] = "add" <=> pc[u] = "add"
    BY <1>9 DEF Prepare, SetCommand, AwaitHealth, WaitUntilUp
  <2>3. Counter' = Counter
    BY <1>3, <2>1 DEF Counter
  <2> QED
    BY <2>1, <2>2, <2>3, QuietCalls
<1> QED
  BY <1>5, <1>6, <1>7, <1>8, <1>9 DEF StartStep

\* Stop itself does not call the debouncer; its stray Done is accounted for.
LEMMA StopRefined ==
  ASSUME Shape, NEW t \in Thread, StopStep(t)
  PROVE  UNCHANGED Registrations!vars
<1> USE DEF Shape, TypeOK, UpTypeOK, Thread, Starter, Goto, Step, Fatal, FatalAt, procVars
<1>1. StopWithoutProcess(t) => t = "signal" /\ back[t] = "done" /\ ~strayed
  BY DEF StopWithoutProcess, StopNothing, Control, StopLabels, BeforeCommand
<1>2. UNCHANGED <<ids, watcher, pid, own>>
  BY DEF StopStep, StopWithoutProcess, StopProcess, Kill
<1>3. /\ \A u \in Thread : pc'[u] = "settle" <=> pc[u] = "settle"
      /\ \A u \in Starter : pc'[u] = "add" <=> pc[u] = "add"
  BY <1>1 DEF StopStep, StopWithoutProcess, StopNothing, StopProcess, Kill
<1>4. wg \in Int
  OBVIOUS
<1>5. RestartInProgress' = RestartInProgress
  BY <1>1 DEF StopStep, StopWithoutProcess, StopNothing, StopProcess, Kill,
       RestartInProgress
<1>6. \/ wg' = wg /\ strayed' = strayed
      \/ wg' = wg - 1 /\ ~strayed /\ strayed'
  BY <1>1 DEF StopStep, StopWithoutProcess, StopNothing, StopProcess, Kill, WgDone
<1>7. Counter' = Counter
  BY ONLY <1>4, <1>5, <1>6 DEF Counter, One
<1> QED
  BY <1>2, <1>3, <1>7, QuietCalls

\* notifyOnStopBlocking calls Notify once, never for an ID whose Add is to come.
LEMMA NotifyRefined ==
  ASSUME Shape, Known, Orderly, NEW g \in Caller, NotifyStep(g)
  PROVE  [Registrations!Next]_(Registrations!vars)
<1>1. UNCHANGED <<strayed, own>> /\ RestartInProgress' = RestartInProgress
  BY NotifyFrame DEF RestartInProgress, Thread, NotifyLabels
<1>2. wg \in Int
  BY DEF Shape, TypeOK, UpTypeOK
<1>3. BackOf(g) \notin {"settle", "add"} \/ ~(At(g, "notify") \/ At(g, "settle"))
  BY DEF BackOf, At, Shape, Control, Thread, StopLabels, NotifyLabels
<1>4. \A l, m : At(g, l) /\ At(g, m) => l = m
  BY DEF At
<1>5. \A t \in Starter : t \in Caller
  BY DEF Starter, Caller, Thread
<1>6. ASSUME NEW label, Move(g, label), NEW h \in Caller \ {g}, pid'[h] = pid[h]
      PROVE  PendingCall(h)' = PendingCall(h)
  BY <1>1, <1>5, <1>6, MoveAt DEF PendingCall
<1>7. CASE ReadPid(g) \/ ReadTarget(g) \/ Reap(g)
  <2>1. /\ UNCHANGED <<ids, wg>> /\ ~At(g, "settle") /\ ~At(g, "add")
        /\ \A h \in Caller \ {g} : pid'[h] = pid[h]
    BY <1>4, <1>7 DEF ReadPid, ReadTarget, Reap, Shape, TypeOK
  <2>2. PICK label \in {"readTarget", "reaping", "notify"} : Move(g, label)
    BY <1>7 DEF ReadPid, ReadTarget, Reap
  <2>3. PendingCall(g)' = PendingCall(g)
    BY <2>1, <2>2, MoveAt DEF PendingCall
  <2>4. \A h \in Caller : PendingCall(h)' = PendingCall(h)
    BY <1>6, <2>1, <2>2, <2>3
  <2>5. Calls' = Calls /\ Counter' = Counter
    BY <1>1, <2>1, <2>4 DEF Calls, Counter
  <2> QED
    BY <2>1, <2>5 DEF Registrations!vars, Calls, Counter
<1>8. CASE Notify(g)
  <2>1. /\ ids' = ids \ {pid[g]}
        /\ UNCHANGED <<wg, pid>>
        /\ At(g, "notify")
        /\ ~At(g, "add")
        /\ ~At(g, "settle")
        /\ Move(g, IF pid[g] \in ids THEN "settle" ELSE BackOf(g))
    BY <1>4, <1>8 DEF Notify
  <2>2. Counter' = Counter
    BY <1>1, <2>1 DEF Counter
  <2>3. \A h \in Caller \ {g} : PendingCall(h)' = PendingCall(h)
    BY <1>6, <2>1
  <2>4. CASE pid[g] \in ids
    <3>1. PendingCall(g)' = [step |-> "done", id |-> pid[g]]
      BY <2>1, <2>4, MoveAt DEF PendingCall
    <3>2. Calls' = [Calls EXCEPT ![g] = [step |-> "done", id |-> pid[g]]]
      BY <2>3, <3>1, OneCall
    <3>3. Calls[g].step = "idle"
      BY <2>1, CallsAt
    <3>4. pid[g] \notin {Calls[h].id : h \in {u \in Caller : Calls[u].step = "add"}}
      <4> SUFFICES ASSUME NEW h \in Caller, Calls[h].step = "add", Calls[h].id = pid[g]
                   PROVE  FALSE
        OBVIOUS
      <4>1. h \in Starter /\ At(h, "add") /\ own = pid[g]
        BY CallsAt
      <4> QED
        BY <4>1 DEF Known, At, Starter, Thread, Private
    <3>5. Registrations!NotifyRemove(g, pid[g])
      BY <2>1, <2>2, <2>4, <3>2, <3>3, <3>4 DEF Registrations!NotifyRemove,
           Registrations!Busy,
           Registrations!AddingIds, Calls, Counter
    <3> QED
      BY <2>4, <3>5 DEF Registrations!Next, Shape, TypeOK
  <2>5. CASE pid[g] \notin ids
    <3>1. PendingCall(g)' = PendingCall(g)
      BY <1>3, <2>1, <2>5, MoveAt DEF PendingCall
    <3>2. Calls' = Calls /\ ids' = ids
      BY <2>1, <2>3, <2>5, <3>1 DEF Calls
    <3> QED
      BY <2>2, <3>2 DEF Registrations!vars, Calls, Counter
  <2> QED
    BY <2>4, <2>5
<1>9. CASE NotifyDone(g)
  <2>1. UNCHANGED <<ids, pid>> /\ wg' = wg - 1 /\ At(g, "settle") /\ Move(g, BackOf(g))
    BY <1>9 DEF NotifyDone, WgDone
  <2>2. Counter' = Counter - 1
    BY ONLY <1>1, <1>2, <2>1 DEF Counter, One
  <2>3. /\ \A h \in Caller \ {g} : PendingCall(h)' = PendingCall(h)
        /\ PendingCall(g)' = [step |-> "idle"]
    BY <1>3, <1>6, <2>1, MoveAt DEF PendingCall
  <2>4. Calls' = [Calls EXCEPT ![g] = [step |-> "idle"]]
    BY <2>3, OneCall
  <2>5. Calls[g].step = "done"
    BY <2>1, CallsAt
  <2>6. Registrations!NotifyDone(g)
    BY <2>1, <2>2, <2>4, <2>5 DEF Registrations!NotifyDone, Registrations!Idle, Calls,
         Counter
  <2> QED
    BY <2>6 DEF Registrations!Next
<1> QED
  BY <1>7, <1>8, <1>9 DEF NotifyStep

\* The engine keeps the debouncer's protocol: every session is a behaviour of
\* Debouncer, whose guarantees hold for it (debouncer.go:53-71).
THEOREM KeepsProtocol == Spec => UsesDebouncer
<1>1. ProcInv /\ [Next]_vars => [Registrations!Next]_(Registrations!vars)
  <2> SUFFICES ASSUME ProcInv, [Next]_vars
               PROVE  [Registrations!Next]_(Registrations!vars)
    OBVIOUS
  <2> USE DEF ProcInv
  <2>1. CASE MainStep \/ SignalStep \/ RestartStep \/ Environment \/ UNCHANGED vars
    BY <2>1, OtherRefined
  <2>2. ASSUME NEW t \in Starter, StartStep(t)
        PROVE  [Registrations!Next]_(Registrations!vars)
    BY <2>2, StartRefined
  <2>3. ASSUME NEW t \in Thread, StopStep(t)
        PROVE  UNCHANGED Registrations!vars
    BY <2>3, StopRefined
  <2>4. ASSUME NEW g \in Caller, NotifyStep(g)
        PROVE  [Registrations!Next]_(Registrations!vars)
    BY <2>4, NotifyRefined
  <2> QED
    BY <2>1, <2>2, <2>3, <2>4 DEF Next
<1> QED
  BY <1>1, InitRefined, ProcInvHolds, PTL DEF Spec, UsesDebouncer, Registrations!Spec
==============================================================================
