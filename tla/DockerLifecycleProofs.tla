------------------------ MODULE DockerLifecycleProofs ------------------------
(***************************************************************************)
(* What holds of a docker session whatever the number of containers, the   *)
(* detach modes and the interleaving: its WaitGroup is accounted for, it   *)
(* leaks no container, and it keeps the debouncer's protocol.              *)
(***************************************************************************)
EXTENDS DockerLifecycle, FiniteSetTheorems, TLAPS

(***************************************************************************)
(* Control: restart exists only beside a waiting, attached main, so one    *)
(* goroutine at a time runs Start; only the signal goroutine can find no   *)
(* container to stop, and only once; Stop returns where its caller is.     *)
(***************************************************************************)
BeforeId == {"start", "list", "dedupe", "register", "add", "run", "setId"}
Control ==
  /\ pc["restart"] # "off" => pc["main"] = "wait" /\ detach = "attached"
  /\ pc["main"] \in BeforeId \/ containerId # None
  /\ pc["main"] \in StopLabels => back["main"] = "failed"
  /\ pc["signal"] \in StopLabels => back["signal"] = "done"
  /\ pc["restart"] \in StopLabels => back["restart"] \in {"start", "failed"}
  /\ strayed => pc["signal"] = "done"
  /\ waiter # "none" => pc["main"] \in {"wait", "waitFailed"}
  /\ pc["main"] \in {"wait", "waitFailed"} => detach = "attached"
  /\ \A t \in Starter :
       pc[t] \in {"register", "add", "run", "setId", "health", "reap"} => own \in Container
  /\ \A t \in Thread : pc[t] \in StopLabels \ {"stop"} => old[t] \in Container

Shape == TypeOK /\ Control

\* A session starts in the shape TypeOK and Control give.
LEMMA InitShape == Init => Shape
<1> SUFFICES ASSUME Init PROVE Shape
  OBVIOUS
<1> USE DEF Init, UpInit, Thread, Container, None
<1>1. /\ pc["main"] = "start" /\ pc["restart"] = "off"
      /\ pc["signal"] \in {"off", "armed"}
      /\ strayed = FALSE /\ waiter = "none"
  OBVIOUS
<1>2. pc \in [Thread -> Label]
  BY DEF Label, StartLabels, StopLabels
<1>3. UpTypeOK
  <2>1. detach \in {"attached", "now", "healthy"}
    BY DetachAssumption
  <2>2. restartOnChange \in BOOLEAN
    <3>1. CASE detach = "attached"
      BY <3>1, AutoRestartAssumption
    <3>2. CASE detach # "attached"
      BY <3>2
    <3> QED
      BY ONLY <3>1, <3>2
  <2>3. back \in [Thread -> {"none", "start", "failed", "done"}]
    OBVIOUS
  <2>4. wg \in Int /\ waiter = "none" /\ proc = "running"
    OBVIOUS
  <2>5. interrupted \in BOOLEAN /\ abortPending \in BOOLEAN /\ strayed \in BOOLEAN
    BY Zenon
  <2> QED
    BY ONLY <2>1, <2>2, <2>3, <2>4, <2>5 DEF UpTypeOK
<1>4. TypeOK
  BY <1>1, <1>2, <1>3, MaxAssumption DEF TypeOK, StartLabels, StopLabels, Gone
<1>5. Control
  BY ONLY <1>1 DEF Control, Thread, BeforeId, StopLabels, Starter
<1> QED
  BY <1>4, <1>5 DEF Shape

\* The steps of main's wait (up.go:253-276) keep the shape.
LEMMA MainShape ==
  ASSUME Shape, MainStep PROVE Shape'
<1> USE DEF Shape, TypeOK, UpTypeOK, Control, Thread, Starter, Label, StartLabels,
        StopLabels, BeforeId, Goto, dockVars, LeaveWait
<1>1. CASE MainStarted /\ UNCHANGED dockVars
  BY <1>1 DEF MainStarted
<1>2. CASE MainFailed /\ UNCHANGED dockVars
  BY <1>2 DEF MainFailed
<1>3. CASE MainWait /\ UNCHANGED dockVars
  BY <1>3 DEF MainWait
<1>4. CASE MainReleased /\ UNCHANGED dockVars
  BY <1>4 DEF MainReleased
<1> QED
  BY <1>1, <1>2, <1>3, <1>4 DEF MainStep

\* The steps of startWithOptions (docker/engine.go:54-132) keep the shape.
LEMMA StartShape ==
  ASSUME Shape, NEW t \in Starter, StartStep(t) PROVE Shape'
<1> USE DEF Shape, TypeOK, UpTypeOK, Control, Thread, Starter, Label, StartLabels,
        StopLabels, BeforeId, Goto, dockVars, Step, FatalAt, Fatal, Gone, None
<1>1. CASE Provide(t)
  BY <1>1 DEF Provide
<1>2. CASE ListDuplicates(t)
  BY <1>2 DEF ListDuplicates, Alive
<1>3. CASE ContainerCreate(t)
  BY <1>3 DEF ContainerCreate, Fresh
<1>4. ASSUME NEW c \in Container, RemoveDuplicate(t, c) PROVE Shape'
  BY <1>4 DEF RemoveDuplicate
<1>5. CASE RegisterRecord(t)
  BY <1>5 DEF RegisterRecord
<1>6. CASE RegisterAdd(t)
  BY <1>6 DEF RegisterAdd
<1>7. CASE ContainerStart(t)
  BY <1>7 DEF ContainerStart
<1>8. CASE SetContainerId(t)
  BY <1>8 DEF SetContainerId, Container
<1>9. CASE AwaitHealth(t)
  <2>1. CASE pc' = [pc EXCEPT ![t] = IF detach = "attached" THEN "reap" ELSE "started"]
             /\ UNCHANGED <<back, abortPending>>
    BY <1>9, <2>1 DEF AwaitHealth, WaitUntilUp
  <2>2. CASE pc' = [pc EXCEPT ![t] = "stop"] /\ back' = [back EXCEPT ![t] = "failed"]
             /\ UNCHANGED abortPending
    <3>1. CASE t = "main"
      BY <1>9, <2>2, <3>1 DEF AwaitHealth, WaitUntilUp
    <3>2. CASE t = "restart"
      BY <1>9, <2>2, <3>2 DEF AwaitHealth, WaitUntilUp
    <3> QED
      BY <3>1, <3>2
  <2>3. CASE abortPending' = FALSE /\ pc' = [pc EXCEPT ![t] = "failed"] /\ UNCHANGED back
    <3>1. abortPending' \in BOOLEAN
      BY ONLY <2>3, Zenon
    <3>2. CASE t = "main"
      BY <1>9, <2>3, <3>1, <3>2 DEF AwaitHealth, WaitUntilUp
    <3>3. CASE t = "restart"
      BY <1>9, <2>3, <3>1, <3>3 DEF AwaitHealth, WaitUntilUp
    <3> QED
      BY <3>2, <3>3
  <2>4. \/ pc' = [pc EXCEPT ![t] = IF detach = "attached" THEN "reap" ELSE "started"]
           /\ UNCHANGED <<back, abortPending>>
        \/ pc' = [pc EXCEPT ![t] = "stop"] /\ back' = [back EXCEPT ![t] = "failed"]
           /\ UNCHANGED abortPending
        \/ abortPending' = FALSE /\ pc' = [pc EXCEPT ![t] = "failed"] /\ UNCHANGED back
    BY ONLY <1>9 DEF AwaitHealth, WaitUntilUp, Goto
  <2> QED
    BY ONLY <2>1, <2>2, <2>3, <2>4
<1>10. CASE SpawnWatcher(t)
  BY <1>10 DEF SpawnWatcher
<1> QED
  BY <1>1, <1>2, <1>3, <1>4, <1>5, <1>6, <1>7, <1>8, <1>9, <1>10 DEF StartStep

\* The steps of Stop (docker/engine.go:312-334) keep the shape.
LEMMA StopShape ==
  ASSUME Shape, NEW t \in Thread, StopStep(t) PROVE Shape'
<1> USE DEF Shape, TypeOK, UpTypeOK, Control, Thread, Starter, Label, StartLabels,
        StopLabels, BeforeId, Goto, dockVars, Step, Gone, None, WgDone, GivesUp
<1>1. CASE StopWithoutContainer(t)
  BY <1>1 DEF StopWithoutContainer, StopNothing
<1>2. CASE StopContainer(t)
  BY <1>2 DEF StopContainer
<1>3. CASE TornContainerId(t)
  BY <1>3 DEF TornContainerId
<1>4. CASE Inspect(t)
  BY <1>4 DEF Inspect
<1>5. CASE Remove(t)
  BY <1>5 DEF Remove
<1>6. CASE RemoveReturns(t)
  BY <1>6 DEF RemoveReturns
<1>7. CASE Notify(t)
  BY <1>7 DEF Notify
<1>8. CASE NotifyDone(t)
  BY <1>8 DEF NotifyDone
<1> QED
  BY <1>1, <1>2, <1>3, <1>4, <1>5, <1>6, <1>7, <1>8 DEF StopStep

\* Notifications, signals, restarts and dockerd keep the shape.
LEMMA RestShape ==
  ASSUME Shape,
         \/ SignalStep \/ RestartStep \/ Environment
         \/ \E c \in Container : \/ WatcherNotifies(c) \/ SupervisorNotifies(c)
                                 \/ GoroutineDone(c) \/ DaemonRemoves(c)
         \/ UNCHANGED vars
  PROVE Shape'
<1> USE DEF Shape, TypeOK, UpTypeOK, Control, Thread, Starter, Label, StartLabels,
        StopLabels, BeforeId, Goto, dockVars, upVars, Gone, None, WgDone, GivesUp
<1>1. CASE SignalStep
  BY <1>1 DEF SignalStep, StopImmediately
<1>2. CASE RestartStep
  BY <1>2 DEF RestartStep, RestartEnd
<1>3. CASE Interrupt /\ UNCHANGED dockVars
  BY <1>3 DEF Interrupt
<1>4. CASE KilledBySignal /\ UNCHANGED dockVars
  BY <1>4 DEF KilledBySignal
<1>5. CASE DirectoryChanged
  BY <1>5 DEF DirectoryChanged, RestartBegin
<1>6. ASSUME NEW c \in Container, Crash(c) PROVE Shape'
  BY <1>6 DEF Crash, SetStatus
<1>7. ASSUME NEW c \in Container, RemovedByOther(c) PROVE Shape'
  BY <1>7 DEF RemovedByOther, SetStatus
<1>8. ASSUME NEW c \in Container, DaemonRemoves(c) PROVE Shape'
  BY <1>8 DEF DaemonRemoves, SetStatus
<1>9. ASSUME NEW c \in Container, WatcherNotifies(c) PROVE Shape'
  BY <1>9 DEF WatcherNotifies, Settle
<1>10. ASSUME NEW c \in Container, SupervisorNotifies(c) PROVE Shape'
  BY <1>10 DEF SupervisorNotifies, Settle
<1>11. ASSUME NEW c \in Container, GoroutineDone(c) PROVE Shape'
  BY <1>11 DEF GoroutineDone
<1>12. CASE UNCHANGED vars
  BY <1>12 DEF vars
<1> QED
  BY <1>1, <1>2, <1>3, <1>4, <1>5, <1>6, <1>7, <1>8, <1>9, <1>10, <1>11, <1>12 DEF
       Environment

\* Hence every step does.
LEMMA NextShape == Shape /\ [Next]_vars => Shape'
  BY MainShape, StartShape, StopShape, RestShape DEF Next

\* Every reachable state has the shape the code gives it: DockerMockEngine,
\* its debouncer and the goroutines of cmd/up.go start().
THEOREM TypeCorrect == Spec => []TypeOK
<1>1. Shape => TypeOK
  BY DEF Shape
<1> QED
  BY InitShape, NextShape, <1>1, PTL DEF Spec

(***************************************************************************)
(* Known: only containers that were created are registered, watched or     *)
(* stopped, and nobody but the goroutine that starts it knows a container  *)
(* before setId, so that it is registered once and not settled before its  *)
(* Add.                                                                    *)
(***************************************************************************)
Private == {"register", "add", "run", "setId"}
Known ==
  /\ \A c \in ids \cup watchers \cup supervisors \cup settling : status[c] # "none"
  /\ containerId # None => status[containerId] # "none"
  /\ \A u \in Thread : old[u] # None => status[old[u]] # "none"
  /\ settling \cap ids = {}
  /\ \A t \in Starter :
       /\ pc[t] \in Private \cup {"health", "reap"} => status[own] # "none"
       /\ pc[t] \in Private => /\ own \notin watchers \cup supervisors \cup settling
                               /\ own # containerId
                               /\ \A u \in Thread : own # old[u]
       /\ pc[t] = "register" => own \notin ids
       /\ pc[t] = "add" => own \in ids

\* No container is known when the session starts.
LEMMA InitKnown == Init => Known
  BY MaxAssumption DEF Init, UpInit, Known, Thread, Starter, Private, Container, None

\* Main's wait touches no container.
LEMMA MainKnown ==
  ASSUME Shape, Known, MainStep PROVE Known'
<1> USE DEF Shape, TypeOK, Known, Thread, Starter, Private, Goto, dockVars, LeaveWait
<1>1. CASE MainStarted /\ UNCHANGED dockVars
  BY <1>1 DEF MainStarted
<1>2. CASE MainFailed /\ UNCHANGED dockVars
  BY <1>2 DEF MainFailed
<1>3. CASE MainWait /\ UNCHANGED dockVars
  BY <1>3 DEF MainWait
<1>4. CASE MainReleased /\ UNCHANGED dockVars
  BY <1>4 DEF MainReleased
<1> QED
  BY <1>1, <1>2, <1>3, <1>4 DEF MainStep

\* A start registers the container it created itself, and only once.
LEMMA StartKnown ==
  ASSUME Shape, Known, NEW t \in Starter, StartStep(t) PROVE Known'
<1> USE DEF Shape, TypeOK, UpTypeOK, Control, Known, Thread, Starter, Private, Goto,
        dockVars, Step, FatalAt, Fatal, Gone, None, Container
<1>1. CASE Provide(t)
  BY <1>1, ZenonT(60) DEF Provide
<1>2. CASE ListDuplicates(t)
  BY <1>2, ZenonT(60) DEF ListDuplicates
<1>3. CASE ContainerCreate(t)
  <2>1. CASE FatalAt(t, "dedupe")
    BY <2>1
  <2>2. CASE ~FatalAt(t, "dedupe")
    <3>1. PICK c \in Container : /\ status[c] = "none" /\ own' = c
                                /\ status' = [status EXCEPT ![c] = "created"]
      BY <1>3, <2>2 DEF ContainerCreate, Fresh
    <3>2. /\ pc[t] = "dedupe" /\ pc' = [pc EXCEPT ![t] = "register"]
          /\ UNCHANGED <<ids, containerId, old, watchers, supervisors, settling>>
      BY <1>3, <2>2 DEF ContainerCreate
    <3>3. \A d \in Container : status'[d] # "none" <=> status[d] # "none" \/ d = c
      BY <3>1
    <3>4. /\ own' \notin ids' \cup watchers' \cup supervisors' \cup settling'
          /\ own' # containerId' /\ \A u \in Thread : own' # old'[u]
          /\ status'[own'] # "none"
      BY ONLY <3>1, <3>2, <3>3, Known DEF Known, Thread, Container, None
    <3>5. \A u \in Starter \ {t} : pc'[u] \notin Private \cup {"health", "reap"}
      BY <3>2 DEF StartLabels, StopLabels
    <3>6. pc'[t] = "register"
      BY <3>2
    <3>7. ids \cup watchers \cup supervisors \cup settling \subseteq Container
      OBVIOUS
    <3>8. containerId \in Container \cup {None} /\ old \in [Thread -> Container \cup {None}]
      OBVIOUS
    <3> QED
      BY ONLY <3>2, <3>3, <3>4, <3>5, <3>6, <3>7, <3>8, Known, t \in Starter
           DEF Known, Private, Thread, Starter, None
  <2> QED
    BY <2>1, <2>2
<1>4. ASSUME NEW c \in Container, RemoveDuplicate(t, c) PROVE Known'
  <2>1. \A d \in Container : status[d] # "none" => status'[d] # "none"
    BY <1>4 DEF RemoveDuplicate, dockVars, Alive
  <2> QED
    BY <1>4, <2>1 DEF RemoveDuplicate
<1>5. CASE RegisterRecord(t)
  BY <1>5 DEF RegisterRecord
<1>6. CASE RegisterAdd(t)
  BY <1>6 DEF RegisterAdd
<1>7. CASE ContainerStart(t)
  <2>1. \A d \in Container : status[d] # "none" => status'[d] # "none"
    BY <1>7 DEF ContainerStart
  <2>2. UNCHANGED <<ids, containerId, own, old, watchers, supervisors, settling>>
    BY <1>7 DEF ContainerStart
  <2>3. pc' \in {pc, [pc EXCEPT ![t] = "setId"]} /\ pc[t] = "run"
    BY <1>7 DEF ContainerStart
  <2> QED
    BY <2>1, <2>2, <2>3
<1>8. CASE SetContainerId(t)
  BY <1>8 DEF SetContainerId
<1>9. CASE AwaitHealth(t)
  BY <1>9 DEF AwaitHealth, WaitUntilUp
<1>10. CASE SpawnWatcher(t)
  BY <1>10 DEF SpawnWatcher
<1> QED
  BY <1>1, <1>2, <1>3, <1>4, <1>5, <1>6, <1>7, <1>8, <1>9, <1>10 DEF StartStep

\* A Stop removes a container that was registered, or has none.
LEMMA StopKnown ==
  ASSUME Shape, Known, NEW t \in Thread, StopStep(t) PROVE Known'
<1> USE DEF Shape, TypeOK, UpTypeOK, Control, Known, Thread, Starter, Private, Goto,
        dockVars, Step, Gone, None, WgDone, Container, StopLabels
<1>1. CASE StopWithoutContainer(t)
  BY <1>1 DEF StopWithoutContainer, StopNothing
<1>2. CASE StopContainer(t)
  BY <1>2 DEF StopContainer
<1>3. CASE TornContainerId(t)
  BY <1>3 DEF TornContainerId
<1>4. CASE Inspect(t)
  BY <1>4 DEF Inspect
<1>5. CASE Remove(t)
  <2>1. \A d \in Container : status[d] # "none" => status'[d] # "none"
    BY <1>5 DEF Remove
  <2>2. UNCHANGED <<ids, containerId, own, old, watchers, supervisors, settling>>
    BY <1>5 DEF Remove
  <2>3. pc' \in {[pc EXCEPT ![t] = "removing"], [pc EXCEPT ![t] = "notify"]}
    BY <1>5 DEF Remove
  <2> QED
    BY <2>1, <2>2, <2>3
<1>6. CASE RemoveReturns(t)
  BY <1>6 DEF RemoveReturns
<1>7. CASE Notify(t)
  BY <1>7, ZenonT(60) DEF Notify
<1>8. CASE NotifyDone(t)
  BY <1>8 DEF NotifyDone
<1> QED
  BY <1>1, <1>2, <1>3, <1>4, <1>5, <1>6, <1>7, <1>8 DEF StopStep

\* The other goroutines notify containers that exist.
LEMMA RestKnown ==
  ASSUME Shape, Known,
         \/ SignalStep \/ RestartStep \/ Environment
         \/ \E c \in Container : \/ WatcherNotifies(c) \/ SupervisorNotifies(c)
                                 \/ GoroutineDone(c) \/ DaemonRemoves(c)
         \/ UNCHANGED vars
  PROVE Known'
<1> USE DEF Shape, TypeOK, UpTypeOK, Control, Known, Thread, Starter, Private, Goto,
        dockVars, upVars, Gone, None, WgDone
<1>1. CASE SignalStep
  BY <1>1 DEF SignalStep, StopImmediately
<1>2. CASE RestartStep
  BY <1>2 DEF RestartStep, RestartEnd
<1>3. CASE Interrupt /\ UNCHANGED dockVars
  BY <1>3 DEF Interrupt
<1>4. CASE KilledBySignal /\ UNCHANGED dockVars
  BY <1>4 DEF KilledBySignal
<1>5. CASE DirectoryChanged
  BY <1>5 DEF DirectoryChanged, RestartBegin
<1>6. ASSUME NEW c \in Container, Crash(c) PROVE Known'
  BY <1>6 DEF Crash, SetStatus
<1>7. ASSUME NEW c \in Container, RemovedByOther(c) PROVE Known'
  BY <1>7 DEF RemovedByOther, SetStatus
<1>8. ASSUME NEW c \in Container, DaemonRemoves(c) PROVE Known'
  BY <1>8 DEF DaemonRemoves, SetStatus
<1>9. ASSUME NEW c \in Container, WatcherNotifies(c) PROVE Known'
  BY <1>9 DEF WatcherNotifies, Settle
<1>10. ASSUME NEW c \in Container, SupervisorNotifies(c) PROVE Known'
  BY <1>10 DEF SupervisorNotifies, Settle
<1>11. ASSUME NEW c \in Container, GoroutineDone(c) PROVE Known'
  BY <1>11 DEF GoroutineDone
<1>12. CASE UNCHANGED vars
  BY <1>12 DEF vars
<1> QED
  BY <1>1, <1>2, <1>3, <1>4, <1>5, <1>6, <1>7, <1>8, <1>9, <1>10, <1>11, <1>12 DEF
       Environment

(***************************************************************************)
(* The counter of the WaitGroup.                                           *)
(***************************************************************************)
\* How the sets the counter is the sum of grow and shrink by one element.
LEMMA Cardinalities ==
  ASSUME NEW S, S \subseteq Container
  PROVE  /\ Cardinality(S) \in Nat
         /\ Cardinality(S) = 0 <=> S = {}
         /\ \A c : c \notin S => Cardinality(S \cup {c}) = Cardinality(S) + 1
         /\ \A c \in S : Cardinality(S \ {c}) = Cardinality(S) - 1
         /\ \A c : c \notin S => S \ {c} = S
<1>1. IsFiniteSet(Container)
  <2>1. 1 \in Int /\ MaxContainers \in Int
    BY MaxAssumption
  <2> QED
    BY <2>1, FS_Interval DEF Container
<1>2. IsFiniteSet(S)
  BY ONLY <1>1, FS_Subset, S \subseteq Container
<1>3. Cardinality(S) \in Nat /\ (Cardinality(S) = 0 <=> S = {})
  BY ONLY <1>2, FS_CardinalityType, FS_EmptySet
<1>4. \A c : c \notin S => Cardinality(S \cup {c}) = Cardinality(S) + 1
  BY ONLY <1>2, FS_AddElement
<1>5. \A c \in S : Cardinality(S \ {c}) = Cardinality(S) - 1
  BY ONLY <1>2, FS_RemoveElement
<1>6. \A c : c \notin S => S \ {c} = S
  OBVIOUS
<1> QED
  BY ONLY <1>3, <1>4, <1>5, <1>6

\* The counter starts at the sum.
LEMMA InitAccounting == Init => WgAccounting
<1> SUFFICES ASSUME Init PROVE WgAccounting
  OBVIOUS
<1>1. /\ ids = {} /\ settling = {} /\ wg = 0 /\ ~strayed
      /\ pc["main"] = "start" /\ pc["restart"] = "off" /\ pc["signal"] \in {"off", "armed"}
  BY DEF Init, UpInit, Thread
<1>2. Cardinality({}) = 0
  BY FS_EmptySet
<1> QED
  BY ONLY <1>1, <1>2 DEF WgAccounting, Adding, RestartInProgress, One

\* Main's wait leaves counter and sum alone.
LEMMA MainAccounting ==
  ASSUME Shape, Known, WgAccounting, MainStep PROVE WgAccounting'
<1> USE DEF Shape, TypeOK, UpTypeOK, WgAccounting, One, Adding, RestartInProgress, Thread,
        Starter, Goto, dockVars, LeaveWait
<1>1. CASE MainStarted /\ UNCHANGED dockVars
  BY <1>1 DEF MainStarted, Control
<1>2. CASE MainFailed /\ UNCHANGED dockVars
  BY <1>2 DEF MainFailed
<1>3. CASE MainWait /\ UNCHANGED dockVars
  BY <1>3 DEF MainWait
<1>4. CASE MainReleased /\ UNCHANGED dockVars
  BY <1>4 DEF MainReleased
<1> QED
  BY <1>1, <1>2, <1>3, <1>4 DEF MainStep

\* Recording the ID and the wg.Add that follows keep counter and sum equal.
LEMMA StartAccounting ==
  ASSUME Shape, Known, WgAccounting, NEW t \in Starter, StartStep(t) PROVE WgAccounting'
<1> USE DEF Shape, TypeOK, UpTypeOK, WgAccounting, One, Adding, RestartInProgress, Thread,
        Starter, Goto, dockVars, Step, FatalAt, Fatal
<1>0. t = "restart" => pc["main"] = "wait"
  BY DEF StartStep, Control, Provide, ListDuplicates, ContainerCreate, RemoveDuplicate,
       RegisterRecord, RegisterAdd, ContainerStart, SetContainerId, AwaitHealth,
       WaitUntilUp,
       SpawnWatcher
<1>1. CASE Provide(t)
  BY <1>1 DEF Provide
<1>2. CASE ListDuplicates(t)
  BY <1>2 DEF ListDuplicates
<1>3. CASE ContainerCreate(t)
  BY <1>3 DEF ContainerCreate
<1>4. ASSUME NEW c \in Container, RemoveDuplicate(t, c) PROVE WgAccounting'
  BY <1>4 DEF RemoveDuplicate
<1>5. CASE RegisterRecord(t)
  BY <1>0, <1>5, Cardinalities DEF RegisterRecord, Known, Private
<1>6. CASE RegisterAdd(t)
  <2>1. Cardinality(ids) \in Nat /\ Cardinality(settling) \in Nat
    BY Cardinalities
  <2>2. UNCHANGED <<ids, settling, strayed>> /\ wg' = wg + 1
    BY <1>6 DEF RegisterAdd
  <2>3. CASE t = "main"
    BY <1>6, <2>1, <2>2, <2>3 DEF RegisterAdd, Control
  <2>4. CASE t = "restart"
    BY <1>0, <1>6, <2>1, <2>2, <2>4 DEF RegisterAdd
  <2> QED
    BY <2>3, <2>4
<1>7. CASE ContainerStart(t)
  BY <1>7 DEF ContainerStart
<1>8. CASE SetContainerId(t)
  BY <1>8 DEF SetContainerId
<1>9. CASE AwaitHealth(t)
  BY <1>9 DEF AwaitHealth, WaitUntilUp
<1>10. CASE SpawnWatcher(t)
  BY <1>10 DEF SpawnWatcher
<1> QED
  BY <1>1, <1>2, <1>3, <1>4, <1>5, <1>6, <1>7, <1>8, <1>9, <1>10 DEF StartStep

\* A Stop without a container takes one off both, by way of strayed.
LEMMA StopAccounting ==
  ASSUME Shape, Known, WgAccounting, NEW t \in Thread, StopStep(t) PROVE WgAccounting'
<1> USE DEF Shape, TypeOK, UpTypeOK, WgAccounting, One, Adding, RestartInProgress, Thread,
        Control, StopLabels, Starter, Goto, dockVars, Step, WgDone
<1>1. CASE StopWithoutContainer(t)
  BY <1>1, Cardinalities DEF StopWithoutContainer, StopNothing, BeforeId
<1>2. CASE StopContainer(t)
  BY <1>2 DEF StopContainer
<1>3. CASE TornContainerId(t)
  BY <1>3 DEF TornContainerId
<1>4. CASE Inspect(t)
  BY <1>4 DEF Inspect
<1>5. CASE Remove(t)
  BY <1>5 DEF Remove
<1>6. CASE RemoveReturns(t)
  BY <1>6 DEF RemoveReturns
<1>7. CASE Notify(t)
  <2>1. Cardinality(ids) \in Nat /\ Cardinality(settling) \in Nat
    BY Cardinalities
  <2>2. UNCHANGED <<settling, strayed, wg>> /\ pc[t] = "notify"
    BY <1>7 DEF Notify
  <2>3. CASE old[t] \in ids
    <3>1. Cardinality(ids') = Cardinality(ids) - 1 /\ pc' = [pc EXCEPT ![t] = "settle"]
      BY <1>7, <2>3, Cardinalities DEF Notify
    <3> QED
      BY <2>1, <2>2, <3>1
  <2>4. CASE old[t] \notin ids
    <3>1. ids' = ids /\ pc' = [pc EXCEPT ![t] = back[t]]
      BY <1>7, <2>4 DEF Notify
    <3> QED
      BY <2>1, <2>2, <3>1
  <2> QED
    BY <2>3, <2>4
<1>8. CASE NotifyDone(t)
  BY <1>8, Cardinalities DEF NotifyDone
<1> QED
  BY <1>1, <1>2, <1>3, <1>4, <1>5, <1>6, <1>7, <1>8 DEF StopStep

\* Removing an ID from the set, and its wg.Done later, keep the sum
\* (debouncer.go:60-71).
LEMMA SettleKeepsSum ==
  ASSUME Shape, Known, NEW c \in Container, Settle(c)
  PROVE  Cardinality(ids') + Cardinality(settling')
           = Cardinality(ids) + Cardinality(settling)
<1>1. ids \subseteq Container /\ settling \subseteq Container /\ settling \cap ids = {}
  BY DEF Shape, TypeOK, Known
<1>2. CASE c \in ids
  <2>1. ids' = ids \ {c} /\ settling' = settling \cup {c} /\ c \notin settling
    BY <1>1, <1>2 DEF Settle
  <2>2. Cardinality(ids') = Cardinality(ids) - 1 /\ Cardinality(ids) \in Nat
    BY ONLY <1>1, <1>2, <2>1, Cardinalities
  <2>3. Cardinality(settling') = Cardinality(settling) + 1 /\ Cardinality(settling) \in Nat
    BY ONLY <1>1, <2>1, Cardinalities
  <2> QED
    BY ONLY <2>2, <2>3
<1>3. CASE c \notin ids
  <2>1. ids' = ids /\ settling' = settling
    BY <1>3 DEF Settle
  <2> QED
    BY <2>1
<1> QED
  BY <1>2, <1>3

\* The restart's own Add and Done, and every notification, keep the sum.
LEMMA RestAccounting ==
  ASSUME Shape, Known, WgAccounting,
         \/ SignalStep \/ RestartStep \/ Environment
         \/ \E c \in Container : \/ WatcherNotifies(c) \/ SupervisorNotifies(c)
                                 \/ GoroutineDone(c) \/ DaemonRemoves(c)
         \/ UNCHANGED vars
  PROVE WgAccounting'
<1> USE DEF Shape, TypeOK, UpTypeOK, WgAccounting, One, Adding, RestartInProgress, Thread,
        Starter, Goto, dockVars, upVars, WgDone
<1>1. CASE SignalStep
  BY <1>1 DEF SignalStep, StopImmediately
<1>2. CASE RestartStep
  BY <1>2, Cardinalities DEF RestartStep, RestartEnd
<1>3. CASE Interrupt /\ UNCHANGED dockVars
  BY <1>3 DEF Interrupt
<1>4. CASE KilledBySignal /\ UNCHANGED dockVars
  BY <1>4 DEF KilledBySignal
<1>5. CASE DirectoryChanged
  BY <1>5, Cardinalities DEF DirectoryChanged, RestartBegin
<1>6. ASSUME NEW c \in Container, Crash(c) \/ RemovedByOther(c) \/ DaemonRemoves(c)
      PROVE  WgAccounting'
  BY <1>6 DEF Crash, RemovedByOther, DaemonRemoves, SetStatus
<1>7. ASSUME NEW c \in Container, WatcherNotifies(c) \/ SupervisorNotifies(c)
      PROVE  WgAccounting'
  <2>1. Settle(c) /\ UNCHANGED <<pc, wg, strayed>>
    BY <1>7 DEF WatcherNotifies, SupervisorNotifies
  <2>2. /\ Cardinality(ids) \in Nat /\ Cardinality(settling) \in Nat
        /\ Cardinality(ids') \in Nat /\ Cardinality(settling') \in Nat
    BY <2>1, Cardinalities DEF Settle
  <2> QED
    BY <2>1, <2>2, SettleKeepsSum
<1>8. ASSUME NEW c \in Container, GoroutineDone(c) PROVE WgAccounting'
  BY <1>8, Cardinalities DEF GoroutineDone
<1>9. CASE UNCHANGED vars
  BY <1>9 DEF vars
<1> QED
  BY <1>1, <1>2, <1>3, <1>4, <1>5, <1>6, <1>7, <1>8, <1>9 DEF Environment

(***************************************************************************)
(* The inductive invariant, and what follows from it in a state.           *)
(***************************************************************************)
IInv == Shape /\ Known /\ WgAccounting

\* The inductive invariant holds initially ...
LEMMA InitIInv == Init => IInv
  BY InitShape, InitKnown, InitAccounting DEF IInv

\* ... is kept by every step ...
LEMMA NextIInv == IInv /\ [Next]_vars => IInv'
<1> SUFFICES ASSUME IInv, [Next]_vars PROVE IInv'
  OBVIOUS
<1>1. Shape'
  BY NextShape DEF IInv
<1>2. Known'
  BY MainKnown, StartKnown, StopKnown, RestKnown DEF Next, IInv
<1>3. WgAccounting'
  BY MainAccounting, StartAccounting, StopAccounting, RestAccounting DEF Next, IInv
<1> QED
  BY <1>1, <1>2, <1>3 DEF IInv

\* ... and so holds throughout.
LEMMA Invariance == Spec => []IInv
  BY InitIInv, NextIInv, PTL DEF Spec

\* The one registered container whose Add is still to come keeps the sum
\* from going below zero.
LEMMA Nonnegative == IInv => NegativeOnlyIfStrayed
<1> SUFFICES ASSUME IInv, ~strayed PROVE wg >= 0
  BY DEF NegativeOnlyIfStrayed, IInv, Shape, TypeOK, UpTypeOK
<1>1. /\ Cardinality(ids) \in Nat
      /\ Cardinality(settling) \in Nat
      /\ (Cardinality(ids) = 0 <=> ids = {})
  BY Cardinalities DEF IInv, Shape, TypeOK
<1>2. Adding => ids # {}
  BY DEF IInv, Known, Adding, Starter
<1>3. /\ One(Adding) = IF Adding THEN 1 ELSE 0
      /\ \A p : One(p) \in {0, 1}
      /\ One(strayed) = 0
  BY DEF One
<1> HIDE DEF One
<1> QED
  BY <1>1, <1>2, <1>3 DEF IInv, WgAccounting

\* A counter of zero says what main takes it to say.
ZeroSettled ==
  (~strayed /\ wg = 0 /\ pc["main"] \in {"wait", "waitFailed"})
     => ids = {} /\ settling = {} /\ ~RestartInProgress

\* A counter of zero, without a stray Stop, leaves nothing to settle.
LEMMA ZeroIsSettled == IInv => ZeroSettled
<1> SUFFICES ASSUME IInv, ~strayed, wg = 0, pc["main"] \in {"wait", "waitFailed"}
             PROVE  ids = {} /\ settling = {} /\ ~RestartInProgress
  BY DEF ZeroSettled
<1>1. /\ Cardinality(ids) \in Nat /\ (Cardinality(ids) = 0 <=> ids = {})
      /\ Cardinality(settling) \in Nat /\ (Cardinality(settling) = 0 <=> settling = {})
  BY Cardinalities DEF IInv, Shape, TypeOK
<1>2. Adding => ids # {} /\ RestartInProgress
  BY DEF IInv, Known, Adding, Starter, RestartInProgress
<1>3. CASE Adding
  <2>1. RestartInProgress /\ ids # {}
    BY <1>2, <1>3
  <2>2. 0 >= Cardinality(ids) - 1 + Cardinality(settling) + 1
    BY <1>1, <1>3, <2>1 DEF IInv, WgAccounting, One
  <2> QED
    BY <1>1, <2>1, <2>2
<1>4. CASE ~Adding
  <2>1. 0 >= Cardinality(ids) + Cardinality(settling) + One(RestartInProgress)
    <3>1. /\ One(Adding) = 0 /\ One(strayed) = 0 /\ One(RestartInProgress) \in {0, 1}
          /\ One(pc["main"] = "settle") \in {0, 1}
          /\ One(pc["signal"] = "settle") \in {0, 1}
          /\ One(pc["restart"] = "settle") \in {0, 1}
      BY <1>4 DEF One
    <3>2. 0 = Cardinality(ids) - One(Adding) + Cardinality(settling)
                + One(pc["main"] = "settle") + One(pc["signal"] = "settle")
                + One(pc["restart"] = "settle") + One(RestartInProgress) - One(strayed)
      BY DEF IInv, WgAccounting
    <3> QED
      BY ONLY <1>1, <3>1, <3>2
  <2>2. One(RestartInProgress) \in Nat /\ (One(RestartInProgress) = 0 => ~RestartInProgress)
    BY DEF One
  <2> QED
    BY <1>1, <2>1, <2>2
<1> QED
  BY <1>3, <1>4

\* However the goroutines that stop and watch containers overlap, only a Stop
\* with nothing to stop takes the counter below zero (docker/engine.go:312-317).
THEOREM NegativeOnlyWhenStrayed == Spec => []NegativeOnlyIfStrayed
  BY Invariance, Nonnegative, PTL

\* The WaitGroup counts what it is meant to (debouncer.go:53-71, engine.go:312-346).
THEOREM Accounted == Spec => []WgAccounting
<1>1. IInv => WgAccounting
  BY DEF IInv
<1> QED
  BY Invariance, <1>1, PTL

(***************************************************************************)
(* Main leaves its Wait only with everything settled.                      *)
(***************************************************************************)
\* Once the CLI has ended only dockerd moves.
LEMMA Ended ==
  ASSUME Next, ~Running PROVE \E c \in Container : DaemonRemoves(c)
<1>1. ~MainStep
  BY DEF MainStep, MainStarted, MainFailed, MainWait, MainReleased
<1>2. ~SignalStep /\ ~RestartStep
  BY DEF SignalStep, StopImmediately, RestartStep, RestartEnd
<1>3. ASSUME NEW t \in Starter, StartStep(t) PROVE FALSE
  BY <1>3 DEF StartStep, Step, FatalAt, Fatal, Provide, ListDuplicates, RemoveDuplicate,
       ContainerCreate, RegisterRecord, RegisterAdd, ContainerStart, SetContainerId,
       AwaitHealth,
       WaitUntilUp, SpawnWatcher
<1>4. ASSUME NEW t \in Thread, StopStep(t) PROVE FALSE
  BY <1>4 DEF StopStep, Step, StopWithoutContainer, StopNothing, StopContainer,
       TornContainerId,
       Inspect, Remove, RemoveReturns, Notify, NotifyDone
<1>5. ~Environment
  BY DEF Environment, Interrupt, KilledBySignal, DirectoryChanged, RestartBegin, Crash,
       RemovedByOther
<1>6. ASSUME NEW c \in Container,
             WatcherNotifies(c) \/ SupervisorNotifies(c) \/ GoroutineDone(c)
      PROVE  FALSE
  BY <1>6 DEF WatcherNotifies, SupervisorNotifies, GoroutineDone
<1> QED
  BY <1>1, <1>2, <1>3, <1>4, <1>5, <1>6 DEF Next

\* The step that ends an attached session takes it from a settled state.
LEMMA ExitStep ==
  ASSUME IInv, ExitsSettled, [Next]_vars PROVE ExitsSettled'
<1> USE DEF ExitsSettled, Running
<1>1. CASE ~Running
  <2>1. UNCHANGED <<detach, proc, strayed, ids, settling, pc>>
    <3>1. CASE \E c \in Container : DaemonRemoves(c)
      BY <3>1 DEF DaemonRemoves, SetStatus, upVars
    <3>2. CASE UNCHANGED vars
      BY <3>2 DEF vars, upVars, dockVars
    <3> QED
      BY <1>1, <3>1, <3>2, Ended
  <2> QED
    BY <2>1 DEF RestartInProgress
<1>2. CASE Running /\ (MainWait \/ MainReleased) /\ UNCHANGED dockVars
  <2>1. UNCHANGED <<strayed, ids, settling, pc>>
    BY <1>2 DEF MainWait, MainReleased, dockVars
  <2>2. pc["main"] \in {"wait", "waitFailed"}
    BY <1>2 DEF MainWait, MainReleased, IInv, Shape, Control
  <2>3. proc' \in {"exit0", "exit1"} => wg = 0
    BY <1>2 DEF MainWait, MainReleased, LeaveWait
  <2> QED
    BY <2>1, <2>2, <2>3, ZeroIsSettled DEF ZeroSettled, RestartInProgress
<1>3. CASE Running /\ ~((MainWait \/ MainReleased) /\ UNCHANGED dockVars)
  <2>1. proc' \notin {"exit0", "exit1"} \/ detach' # "attached"
    <3>1. CASE MainStep
      BY <1>3, <3>1 DEF MainStep, MainStarted, MainFailed
    <3>2. ASSUME NEW t \in Starter, StartStep(t) PROVE proc' \notin {"exit0", "exit1"}
      BY <1>3, <3>2 DEF StartStep, Step, FatalAt, Fatal, Provide, ListDuplicates,
           RemoveDuplicate,
           ContainerCreate, RegisterRecord, RegisterAdd, ContainerStart, SetContainerId,
           AwaitHealth, WaitUntilUp, SpawnWatcher
    <3>3. ASSUME NEW t \in Thread, StopStep(t) PROVE proc' \notin {"exit0", "exit1"}
      BY <1>3, <3>3 DEF StopStep, Step, WgDone, StopWithoutContainer, StopNothing,
           StopContainer,
           TornContainerId, Inspect, Remove, RemoveReturns, Notify, NotifyDone
    <3>4. CASE SignalStep \/ RestartStep \/ Environment \/ UNCHANGED vars
      BY <1>3, <3>4 DEF SignalStep, StopImmediately, RestartStep, RestartEnd, Environment,
           Interrupt, KilledBySignal, DirectoryChanged, RestartBegin, Crash, RemovedByOther,
           SetStatus, WgDone, vars, upVars
    <3>5. ASSUME NEW c \in Container,
                 \/ WatcherNotifies(c) \/ SupervisorNotifies(c) \/ GoroutineDone(c)
                 \/ DaemonRemoves(c)
          PROVE  proc' \notin {"exit0", "exit1"}
      BY <1>3, <3>5 DEF WatcherNotifies, SupervisorNotifies, GoroutineDone, DaemonRemoves,
           SetStatus, WgDone, upVars
    <3> QED
      BY <3>1, <3>2, <3>3, <3>4, <3>5 DEF Next
  <2> QED
    BY <2>1
<1> QED
  BY <1>1, <1>2, <1>3

\* An attached session ends only when every registered container was notified,
\* every Done made and no restart is half way (up.go:253-276).
THEOREM LeavesSettled == Spec => []ExitsSettled
<1>1. Init => ExitsSettled
  BY DEF Init, UpInit, ExitsSettled
<1>2. IInv /\ ExitsSettled /\ [Next]_vars => ExitsSettled'
  BY ExitStep
<1> QED
  BY Invariance, <1>1, <1>2, PTL DEF Spec

\* The WaitGroup does not let main go in the middle of a restart
\* (docker/engine.go:336-346).
THEOREM RestartHolds == Spec => RestartHoldsMain
<1>1. IInv /\ IInv' /\ ZeroSettled' /\ [Next]_vars
        => [waiter = "parked" /\ waiter' = "released" => ~RestartInProgress' \/ strayed]_vars
  <2> SUFFICES ASSUME IInv, IInv', ZeroSettled', Next,
                      waiter = "parked", waiter' = "released", ~strayed
               PROVE  ~RestartInProgress'
    BY DEF vars, upVars
  <2>1. \/ RestartStep
        \/ \E t \in Thread : StopStep(t)
        \/ \E c \in Container : GoroutineDone(c)
    <3>1. ~MainStep /\ ~SignalStep
      BY DEF MainStep, MainStarted, MainFailed, MainWait, MainReleased, SignalStep,
           StopImmediately
    <3>2. ~Environment
      BY DEF Environment, Interrupt, KilledBySignal, DirectoryChanged, RestartBegin, Crash,
           RemovedByOther, SetStatus, upVars
    <3>3. ASSUME NEW t \in Starter, StartStep(t) PROVE FALSE
      BY <3>3 DEF StartStep, Step, FatalAt, Fatal, Provide, ListDuplicates, RemoveDuplicate,
           ContainerCreate, RegisterRecord, RegisterAdd, ContainerStart, SetContainerId,
           AwaitHealth, WaitUntilUp, SpawnWatcher
    <3>4. ASSUME NEW c \in Container,
                 WatcherNotifies(c) \/ SupervisorNotifies(c) \/ DaemonRemoves(c)
          PROVE  FALSE
      BY <3>4 DEF WatcherNotifies, SupervisorNotifies, DaemonRemoves, SetStatus, upVars
    <3> QED
      BY <3>1, <3>2, <3>3, <3>4 DEF Next
  <2>2. wg' = 0
    BY <2>1 DEF RestartStep, RestartEnd, GoroutineDone, StopStep, Step, WgDone,
         StopWithoutContainer, StopNothing, StopContainer, TornContainerId, Inspect, Remove,
         RemoveReturns, Notify, NotifyDone, IInv, Shape, TypeOK, UpTypeOK
  <2>3. pc'["main"] \in {"wait", "waitFailed"} /\ pc["main"] \in {"wait", "waitFailed"}
    BY DEF IInv, Shape, Control
  <2>4. ~strayed'
    BY <2>1, <2>3 DEF RestartStep, RestartEnd, GoroutineDone, StopStep, Step,
         StopWithoutContainer, StopNothing, StopContainer, TornContainerId, Inspect, Remove,
         RemoveReturns, Notify, NotifyDone, IInv, Shape, Control, BeforeId
  <2> QED
    BY <2>2, <2>3, <2>4 DEF ZeroSettled
<1> QED
  BY Invariance, ZeroIsSettled, <1>1, PTL DEF Spec, RestartHoldsMain

(***************************************************************************)
(* Nothing leaked.  A container that runs or could is owed a notification, *)
(* is about to be registered, or was given up; whoever notifies an ID has  *)
(* removed the container or given it up; before --auto-restart restarts    *)
(* anything there is one container, which a failed start has notified.     *)
(***************************************************************************)
Live == {c \in Container : status[c] \in {"created", "running"}}

\* Nobody forgets a container that could serve (docker/engine.go:95-101).
LiveOwed ==
  \A c \in Live \ abandoned :
     c \in ids \/ (c = own /\ \E t \in Starter : pc[t] = "register")

\* Stop notifies only what is gone or given up (docker/removal.go).
StopsOwed ==
  \A t \in Thread :
    /\ pc[t] = "removing" => status[old[t]] \in Gone
    /\ pc[t] \in {"notify", "settle"} => status[old[t]] \in Gone \/ old[t] \in abandoned

\* A watched container was started; a listed one exists.
StartedOnce ==
  /\ \A c \in watchers : status[c] # "created"
  /\ \A c \in dups : status[c] # "none"
  /\ \A t \in Starter : pc[t] \in {"setId", "health", "reap"} => status[own] # "created"

\* Up to the first restart main's container is the only one, and its Stop after
\* a failed start has notified it (docker/engine.go:110-126).
FirstStart ==
  pc["restart"] = "off" =>
    /\ \A c \in Container :
         status[c] # "none" => c = own /\ pc["main"] \notin {"start", "list", "dedupe"}
    /\ pc["main"] \notin BeforeId => containerId = own
    /\ pc["main"] \in StopLabels \ {"stop"} => old["main"] = own
    /\ pc["main"] = "settle" \/ (pc["main"] = "failed" /\ ~interrupted) => own \notin ids

\* A health wait is aborted, and the signal's Stop runs, only after Ctrl+C.
Aborts == abortPending \/ pc["signal"] \in {"abort"} \cup StopLabels => interrupted

\* What, beside IInv, keeps NothingLeaked true.
Owed == LiveOwed /\ StopsOwed /\ StartedOnce /\ FirstStart /\ Aborts

\* There is no container at first.
LEMMA InitOwed == Init => Owed
  BY DEF Init, UpInit, Owed, LiveOwed, Live, StopsOwed, StartedOnce, FirstStart, Aborts,
       Thread,
       Starter, StopLabels, BeforeId

\* main's wait touches no container.
LEMMA MainOwed ==
  ASSUME IInv, Owed, MainStep PROVE Owed'
<1> USE DEF IInv, Shape, TypeOK, UpTypeOK, Thread, Starter, Goto, dockVars
<1>1. UNCHANGED <<dockVars, interrupted, abortPending>> /\ Live' = Live
  BY DEF MainStep, MainStarted, MainFailed, MainWait, MainReleased, Live
<1>2. \/ pc' = pc
      \/ /\ pc["main"] = "started" /\ pc'["main"] = "wait" /\ pc'["signal"] = pc["signal"]
         /\ pc'["restart"] \in {pc["restart"], "idle"}
      \/ pc["main"] = "failed" /\ pc' = [pc EXCEPT !["main"] = "waitFailed"]
  BY DEF MainStep, MainStarted, MainFailed, MainWait, MainReleased
<1>3. LiveOwed'
  BY <1>1, <1>2 DEF Owed, LiveOwed, Control
<1>4. StopsOwed'
  BY <1>1, <1>2 DEF Owed, StopsOwed, Control
<1>5. StartedOnce'
  BY <1>1, <1>2 DEF Owed, StartedOnce, Control
<1>6. FirstStart' /\ Aborts'
  BY <1>1, <1>2 DEF Owed, FirstStart, Aborts, Control, BeforeId, StopLabels
<1> QED
  BY <1>3, <1>4, <1>5, <1>6 DEF Owed

\* Start registers the container it creates before it starts it.
LEMMA StartOwed ==
  ASSUME IInv, Owed, NEW t \in Starter, StartStep(t) PROVE Owed'
<1> USE DEF IInv, Shape, TypeOK, UpTypeOK, Thread, Starter, Goto, dockVars, Step, FatalAt,
         Fatal
<1>1. \A u \in Starter \ {t} : pc[u] \in {"off", "wait"}
  BY DEF Control, StartStep, Provide, ListDuplicates, RemoveDuplicate, ContainerCreate,
       RegisterRecord, RegisterAdd, ContainerStart, SetContainerId, AwaitHealth,
       WaitUntilUp,
       SpawnWatcher
<1>2. CASE Provide(t)
  BY <1>1, <1>2 DEF Provide, Owed, LiveOwed, Live, StopsOwed, StartedOnce, FirstStart,
       Aborts,
       BeforeId, StopLabels
<1>3. CASE ListDuplicates(t)
  BY <1>1, <1>3 DEF ListDuplicates, Alive, Owed, LiveOwed, Live, StopsOwed, StartedOnce,
       FirstStart, Aborts, BeforeId, StopLabels
<1>4. CASE ContainerCreate(t)
  BY <1>1, <1>4 DEF ContainerCreate, Fresh, Owed, LiveOwed, Live, StopsOwed, StartedOnce,
       FirstStart, Aborts, BeforeId, StopLabels, Gone, Known, Control, None
<1>5. ASSUME NEW c \in Container, RemoveDuplicate(t, c) PROVE Owed'
  <2>1. /\ \A d \in Container :
              status'[d] = status[d] \/ (status'[d] \in Gone /\ status[d] # "none")
        /\ UNCHANGED <<ids, containerId, own, old, watchers, abandoned, pc, interrupted,
                       abortPending>>
        /\ dups' \subseteq dups
    <3>1. \/ status' = status
          \/ status' = [status EXCEPT ![c] = IF @ \in Gone THEN @ ELSE "removing"]
      BY <1>5 DEF RemoveDuplicate
    <3>2. status[c] # "none" /\ pc' = pc
      BY <1>5 DEF RemoveDuplicate, Owed, StartedOnce
    <3> QED
      BY <1>5, <3>1, <3>2 DEF RemoveDuplicate, Gone
  <2> QED
    <3>1. LiveOwed'
      BY <2>1 DEF Owed, LiveOwed, Live, Gone
    <3>2. StopsOwed'
      BY <2>1 DEF Owed, StopsOwed, Gone, Control, StopLabels
    <3>3. StartedOnce'
      BY <2>1 DEF Owed, StartedOnce, Gone, Control, Private
    <3>4. FirstStart' /\ Aborts'
      BY <2>1, <1>5 DEF Owed, FirstStart, Aborts, RemoveDuplicate
    <3> QED
      BY <3>1, <3>2, <3>3, <3>4 DEF Owed
<1>6. CASE RegisterRecord(t)
  BY <1>1, <1>6 DEF RegisterRecord, Owed, LiveOwed, Live, StopsOwed, StartedOnce,
       FirstStart,
       Aborts, BeforeId, StopLabels
<1>7. CASE RegisterAdd(t)
  BY <1>1, <1>7 DEF RegisterAdd, Owed, LiveOwed, Live, StopsOwed, StartedOnce, FirstStart,
       Aborts,
       BeforeId, StopLabels
<1>8. CASE ContainerStart(t)
  BY <1>1, <1>8 DEF ContainerStart, Owed, LiveOwed, Live, StopsOwed, StartedOnce,
       FirstStart,
       Aborts, BeforeId, StopLabels, Known, Control, Gone, Private
<1>9. CASE SetContainerId(t)
  BY <1>1, <1>9 DEF SetContainerId, Owed, LiveOwed, Live, StopsOwed, StartedOnce,
       FirstStart,
       Aborts, BeforeId, StopLabels
<1>10. CASE AwaitHealth(t)
  BY <1>1, <1>10 DEF AwaitHealth, WaitUntilUp, Owed, LiveOwed, Live, StopsOwed, StartedOnce,
       FirstStart, Aborts, BeforeId, StopLabels
<1>11. CASE SpawnWatcher(t)
  BY <1>1, <1>11 DEF SpawnWatcher, Owed, LiveOwed, Live, StopsOwed, StartedOnce, FirstStart,
       Aborts, BeforeId, StopLabels
<1> QED
  BY <1>2, <1>3, <1>4, <1>5, <1>6, <1>7, <1>8, <1>9, <1>10, <1>11 DEF StartStep

\* Stop notifies what it removed, or gives it up.
LEMMA StopOwed ==
  ASSUME IInv, Owed, NEW t \in Thread, StopStep(t) PROVE Owed'
<1> USE DEF IInv, Shape, TypeOK, UpTypeOK, Thread, Starter, Goto, dockVars, Step, GivesUp,
         Gone, None,
        Owed, LiveOwed, Live, StopsOwed, StartedOnce, FirstStart, Aborts, BeforeId,
        StopLabels, Control
<1>1. CASE StopWithoutContainer(t)
  BY <1>1 DEF StopWithoutContainer, StopNothing
<1>2. CASE StopContainer(t)
  BY <1>2 DEF StopContainer
<1>3. CASE TornContainerId(t)
  BY <1>3 DEF TornContainerId
<1>4. CASE Inspect(t)
  BY <1>4 DEF Inspect
<1>5. CASE Remove(t)
  <2>1. CASE /\ pc[t] = "remove" /\ pc' = [pc EXCEPT ![t] = "removing"]
             /\ status' = [status EXCEPT ![old[t]] = "removing"] /\ old[t] \in Container
             /\ UNCHANGED <<ids, containerId, own, dups, old, watchers, abandoned, back,
                            interrupted, abortPending>>
    <3>1. \A c \in Container : status'[c] = IF c = old[t] THEN "removing" ELSE status[c]
      BY <2>1
    <3>2. status[old[t]] # "none"
      BY <2>1, MaxAssumption DEF Known, Container
    <3> QED
      BY <2>1, <3>1, <3>2
  <2>2. CASE /\ pc[t] = "remove" /\ pc' = [pc EXCEPT ![t] = "notify"]
             /\ abandoned' = IF status[old[t]] \in Gone THEN abandoned ELSE abandoned \cup {old[t]}
             /\ UNCHANGED <<ids, containerId, own, dups, old, watchers, status, back,
                            interrupted, abortPending>>
    BY <2>2
  <2> QED
    BY <1>5, <2>1, <2>2 DEF Remove
<1>6. CASE RemoveReturns(t)
  BY <1>6 DEF RemoveReturns
<1>7. CASE Notify(t)
  BY <1>7 DEF Notify
<1>8. CASE NotifyDone(t)
  BY <1>8 DEF NotifyDone
<1> QED
  BY <1>1, <1>2, <1>3, <1>4, <1>5, <1>6, <1>7, <1>8 DEF StopStep

\* Watchers and supervisors notify what has stopped, or give it up; containers
\* that crash or are removed only stop being live.
LEMMA RestOwed ==
  ASSUME IInv, Owed,
         \/ SignalStep \/ RestartStep \/ Environment
         \/ \E c \in Container : \/ WatcherNotifies(c) \/ SupervisorNotifies(c)
                                 \/ GoroutineDone(c) \/ DaemonRemoves(c)
         \/ UNCHANGED vars
  PROVE Owed'
<1> USE DEF IInv, Shape, TypeOK, UpTypeOK, Thread, Starter, Goto, dockVars, upVars, GivesUp,
         Gone, None,
        Owed, LiveOwed, Live, StopsOwed, StartedOnce, FirstStart, Aborts, BeforeId,
        StopLabels, Control
<1>1. CASE SignalStep
  BY <1>1 DEF SignalStep, StopImmediately
<1>2. CASE RestartStep
  BY <1>2 DEF RestartStep, RestartEnd
<1>3. CASE Interrupt /\ UNCHANGED dockVars
  BY <1>3 DEF Interrupt
<1>4. CASE KilledBySignal /\ UNCHANGED dockVars
  BY <1>4 DEF KilledBySignal
<1>5. CASE DirectoryChanged
  BY <1>5 DEF DirectoryChanged, RestartBegin
<1>6. ASSUME NEW c \in Container, Crash(c) \/ RemovedByOther(c) \/ DaemonRemoves(c)
      PROVE  Owed'
  BY <1>6 DEF Crash, RemovedByOther, DaemonRemoves, SetStatus
<1>7. ASSUME NEW c \in Container, WatcherNotifies(c) PROVE Owed'
  BY <1>7 DEF WatcherNotifies, Settle
<1>8. ASSUME NEW c \in Container, SupervisorNotifies(c) PROVE Owed'
  BY <1>8 DEF SupervisorNotifies, Settle
<1>9. ASSUME NEW c \in Container, GoroutineDone(c) PROVE Owed'
  BY <1>9 DEF GoroutineDone
<1>10. CASE UNCHANGED vars
  BY <1>10 DEF vars
<1> QED
  BY <1>1, <1>2, <1>3, <1>4, <1>5, <1>6, <1>7, <1>8, <1>9, <1>10 DEF Environment

\* Where main stood when it left: after its wait, or after a failed detached start.
Exited ==
  proc \in {"exit0", "exit1"} =>
    /\ detach = "attached" => pc["main"] \in {"wait", "waitFailed"}
    /\ detach # "attached" /\ proc = "exit1" =>
         pc["main"] = "failed" /\ pc["restart"] = "off" /\ ~interrupted

\* Only main ends the CLI with a status of its own (up.go:236-275).
LEMMA ExitedStep ==
  ASSUME IInv, Exited, [Next]_vars PROVE Exited'
<1> USE DEF Exited, Running
<1>1. CASE ~Running
  <2>1. UNCHANGED <<detach, proc, interrupted, pc>>
    <3>1. CASE \E c \in Container : DaemonRemoves(c)
      BY <3>1 DEF DaemonRemoves, SetStatus, upVars
    <3>2. CASE UNCHANGED vars
      BY <3>2 DEF vars, upVars
    <3> QED
      BY <1>1, <3>1, <3>2, Ended
  <2> QED
    BY <2>1
<1>2. CASE Running /\ MainStep
  BY <1>2 DEF MainStep, MainStarted, MainFailed, MainWait, MainReleased, LeaveWait, IInv,
       Shape,
       Control
<1>3. CASE Running /\ ~MainStep
  <2>1. proc' \notin {"exit0", "exit1"}
    <3>1. ASSUME NEW t \in Starter, StartStep(t) PROVE proc' \notin {"exit0", "exit1"}
      BY <1>3, <3>1 DEF StartStep, Step, FatalAt, Fatal, Provide, ListDuplicates,
           RemoveDuplicate,
           ContainerCreate, RegisterRecord, RegisterAdd, ContainerStart, SetContainerId,
           AwaitHealth, WaitUntilUp, SpawnWatcher
    <3>2. ASSUME NEW t \in Thread, StopStep(t) PROVE proc' \notin {"exit0", "exit1"}
      BY <1>3, <3>2 DEF StopStep, Step, WgDone, StopWithoutContainer, StopNothing,
           StopContainer,
           TornContainerId, Inspect, Remove, RemoveReturns, Notify, NotifyDone
    <3>3. CASE SignalStep \/ RestartStep \/ Environment \/ UNCHANGED vars
      BY <1>3, <3>3 DEF SignalStep, StopImmediately, RestartStep, RestartEnd, Environment,
           Interrupt, KilledBySignal, DirectoryChanged, RestartBegin, Crash, RemovedByOther,
           SetStatus, WgDone, vars, upVars
    <3>4. ASSUME NEW c \in Container,
                 \/ WatcherNotifies(c) \/ SupervisorNotifies(c) \/ GoroutineDone(c)
                 \/ DaemonRemoves(c)
          PROVE  proc' \notin {"exit0", "exit1"}
      BY <1>3, <3>4 DEF WatcherNotifies, SupervisorNotifies, GoroutineDone, DaemonRemoves,
           SetStatus, WgDone, upVars
    <3> QED
      BY <1>3, <3>1, <3>2, <3>3, <3>4 DEF Next
  <2> QED
    BY <2>1
<1> QED
  BY <1>1, <1>2, <1>3

\* So whatever main left behind was given up.
LEMMA NothingLeft ==
  ASSUME IInv, Owed, Exited, ExitsSettled PROVE NothingLeaked
<1> SUFFICES ASSUME proc = "exit1" \/ (proc = "exit0" /\ detach = "attached"), ~strayed,
                    NEW c \in Container \ abandoned, c \in Live
             PROVE  FALSE
  BY DEF NothingLeaked, Live
<1>1. c \in ids \/ (c = own /\ \E t \in Starter : pc[t] = "register")
  BY DEF Owed, LiveOwed
<1>2. CASE detach = "attached"
  <2>1. ids = {} /\ ~RestartInProgress /\ pc["main"] \in {"wait", "waitFailed"}
    BY <1>2 DEF ExitsSettled, Exited
  <2> QED
    BY <1>1, <2>1 DEF RestartInProgress, Starter
<1>3. CASE detach # "attached"
  <2>1. pc["main"] = "failed" /\ pc["restart"] = "off" /\ ~interrupted
    BY <1>3 DEF Exited
  <2>2. c = own /\ own \notin ids
    BY <2>1 DEF Owed, FirstStart, Live
  <2> QED
    BY <1>1, <2>1, <2>2 DEF Starter
<1> QED
  BY <1>2, <1>3

\* "so we never leak a running mock" (up.go:254-256), within the limits the
\* property states: apart from containers given up after a failed request or
\* five seconds, none is left when the CLI ends.
THEOREM NoContainerLeft == Spec => []NothingLeaked
<1>1. Init => Owed /\ Exited
  BY InitOwed DEF Init, UpInit, Exited
<1>2. IInv /\ Owed /\ Exited /\ [Next]_vars => Owed' /\ Exited'
  BY MainOwed, StartOwed, StopOwed, RestOwed, ExitedStep DEF Next
<1>3. IInv /\ Owed /\ Exited /\ ExitsSettled => NothingLeaked
  BY NothingLeft
<1> QED
  BY Invariance, LeavesSettled, <1>1, <1>2, <1>3, PTL DEF Spec

(***************************************************************************)
(* The session keeps the debouncer's protocol: every step of it is a step  *)
(* of Debouncer or leaves the debouncer alone.                             *)
(***************************************************************************)
\* The debouncer's view of the WaitGroup ...
Counter == wg - One(RestartInProgress) + One(strayed)

\* ... and what each goroutine still owes it.
Calls == [g \in Caller |-> PendingCall(g)]

\* Who calls the debouncer.
LEMMA Callers ==
  /\ \A t \in Thread : <<t, None>> \in Caller /\ t # "go"
  /\ \A c \in Container : <<"go", c>> \in Caller
  /\ \A g \in Caller : \/ \E t \in Thread : g = <<t, None>>
                       \/ \E c \in Container : g = <<"go", c>>
  BY DEF Caller, Thread

\* What the pending call of a goroutine of cmd/up.go is, by its position ...
LEMMA ThreadAt ==
  ASSUME NEW t \in Thread
  PROVE  /\ Calls[<<t, None>>].step = "add" <=> pc[t] = "add"
         /\ Calls[<<t, None>>].step = "done" <=> pc[t] = "settle"
         /\ Calls[<<t, None>>].step = "idle" <=> pc[t] \notin {"add", "settle"}
         /\ pc[t] = "add" => Calls[<<t, None>>].id = own
         /\ pc[t] = "settle" => Calls[<<t, None>>].id = old[t]
<1>1. Calls[<<t, None>>] = IF pc[t] = "add" THEN [step |-> "add", id |-> own]
                           ELSE IF pc[t] = "settle" THEN [step |-> "done", id |-> old[t]]
                           ELSE [step |-> "idle"]
  BY Callers DEF Calls, PendingCall
<1> QED
  BY <1>1

\* ... and that of a watcher or a supervisor.
LEMMA GoAt ==
  ASSUME NEW c \in Container
  PROVE  /\ Calls[<<"go", c>>].step = "done" <=> c \in settling
         /\ Calls[<<"go", c>>].step = "idle" <=> c \notin settling
         /\ Calls[<<"go", c>>].step # "add"
         /\ c \in settling => Calls[<<"go", c>>].id = c
<1>1. Calls[<<"go", c>>] = IF c \in settling THEN [step |-> "done", id |-> c]
                           ELSE [step |-> "idle"]
  BY Callers DEF Calls, PendingCall
<1> QED
  BY <1>1

\* Only the pending call of t changes.
LEMMA ThreadCall ==
  ASSUME NEW t \in Thread, NEW new, Calls'[<<t, None>>] = new, UNCHANGED settling,
         \A u \in Thread \ {t} : Calls'[<<u, None>>] = Calls[<<u, None>>]
  PROVE  Calls' = [Calls EXCEPT ![<<t, None>>] = new]
<1>1. ASSUME NEW c \in Container PROVE Calls'[<<"go", c>>] = Calls[<<"go", c>>]
  BY Callers DEF Calls, PendingCall
<1>2. \A g \in Caller : g # <<t, None>> => Calls'[g] = Calls[g]
  BY <1>1, Callers
<1> QED
  BY <1>2 DEF Calls

\* Only the pending call of the goroutine for c changes.
LEMMA GoCall ==
  ASSUME NEW c \in Container, NEW new, Calls'[<<"go", c>>] = new,
         UNCHANGED <<pc, own, old>>,
         \A d \in Container \ {c} : d \in settling <=> d \in settling'
  PROVE  Calls' = [Calls EXCEPT ![<<"go", c>>] = new]
<1>1. \A g \in Caller : g # <<"go", c>> => Calls'[g] = Calls[g]
  BY Callers DEF Calls, PendingCall
<1> QED
  BY <1>1 DEF Calls

\* A step that neither registers nor notifies leaves the debouncer alone.
LEMMA QuietCalls ==
  ASSUME UNCHANGED <<ids, settling>>, Counter' = Counter,
         \A t \in Thread : /\ pc'[t] = "add" <=> pc[t] = "add"
                           /\ pc'[t] = "settle" <=> pc[t] = "settle"
                           /\ pc[t] = "add" => own' = own
                           /\ pc[t] = "settle" => old'[t] = old[t]
  PROVE  UNCHANGED Registrations!vars
<1>1. \A g \in Caller : PendingCall(g)' = PendingCall(g)
  BY Callers DEF PendingCall
<1>2. Calls' = Calls
  BY <1>1 DEF Calls
<1> QED
  BY <1>2 DEF Registrations!vars, Counter, Calls

\* A session starts with an unused debouncer.
LEMMA InitRefined == Init => Registrations!Init
<1> SUFFICES ASSUME Init PROVE Registrations!Init
  OBVIOUS
<1>1. ids = {} /\ Counter = 0
  BY DEF Init, UpInit, Counter, RestartInProgress, One, Thread
<1>2. \A t \in Thread : pc[t] # "add" /\ pc[t] # "settle"
  BY DEF Init, UpInit, Thread
<1>3. \A g \in Caller : PendingCall(g) = [step |-> "idle"]
  BY <1>2, Callers DEF PendingCall, Init
<1>4. Calls = [g \in Caller |-> [step |-> "idle"]]
  BY <1>3 DEF Calls
<1> QED
  BY <1>1, <1>4 DEF Registrations!Init, Registrations!Idle, Counter, Calls

\* main, the signal, a restart's own Add and Done, and dockerd do not call it.
LEMMA QuietRefined ==
  ASSUME IInv, MainStep \/ SignalStep \/ RestartStep \/ Environment \/ UNCHANGED vars
               \/ \E c \in Container : DaemonRemoves(c)
  PROVE  UNCHANGED Registrations!vars
<1> USE DEF IInv, Shape, TypeOK, UpTypeOK, Thread, Starter, Goto, dockVars, upVars,
     MainStep, MainStarted, MainFailed, MainWait, MainReleased, SignalStep, StopImmediately,
     RestartStep, RestartEnd, Environment, Interrupt, KilledBySignal, DirectoryChanged,
     RestartBegin, Crash, RemovedByOther, DaemonRemoves, SetStatus, vars, WgDone
<1>1. UNCHANGED <<ids, settling, own, old, strayed>>
  OBVIOUS
<1>2. \A t \in Thread : /\ pc'[t] = "settle" <=> pc[t] = "settle"
                        /\ pc'[t] = "add" <=> pc[t] = "add"
  BY DEF Control
<1>3. \/ wg' = wg /\ RestartInProgress' = RestartInProgress
      \/ wg' = wg + 1 /\ ~RestartInProgress /\ RestartInProgress'
      \/ wg' = wg - 1 /\ RestartInProgress /\ ~RestartInProgress'
  BY DEF Control, RestartInProgress
<1>4. Counter' = Counter
  BY ONLY <1>1, <1>3, wg \in Int DEF Counter, One
<1> QED
  BY <1>1, <1>2, <1>4, QuietCalls

\* Start registers the ID of the container it has just created, new to the map
\* and to whoever settles (docker/engine.go:95).
LEMMA StartRefined ==
  ASSUME IInv, NEW t \in Starter, StartStep(t)
  PROVE  [Registrations!Next]_(Registrations!vars)
<1> USE DEF IInv, Shape, TypeOK, UpTypeOK, Thread, Starter, Goto, Step, Fatal, FatalAt,
         dockVars
<1>1. \A u \in Starter \ {t} : pc[u] \in {"off", "wait"}
  BY DEF Control, StartStep, Provide, ListDuplicates, RemoveDuplicate, ContainerCreate,
       RegisterRecord, RegisterAdd, ContainerStart, SetContainerId, AwaitHealth,
       WaitUntilUp,
       SpawnWatcher
<1>2. UNCHANGED <<strayed, settling, old>> /\ RestartInProgress' = RestartInProgress
  BY DEF StartStep, Provide, ListDuplicates, RemoveDuplicate, ContainerCreate,
       RegisterRecord,
       RegisterAdd, ContainerStart, SetContainerId, AwaitHealth, WaitUntilUp, SpawnWatcher,
       RestartInProgress
<1>3. t \in Thread /\ <<t, None>> \in Caller
  BY Callers
<1>4. wg \in Int
  OBVIOUS
<1>5. CASE RegisterRecord(t)
  <2>1. /\ ids' = ids \cup {own} /\ own \notin ids /\ own \in Container
        /\ pc[t] = "register" /\ pc' = [pc EXCEPT ![t] = "add"]
        /\ UNCHANGED <<wg, own>>
        /\ own \notin settling /\ \A u \in Thread : own # old[u]
    BY <1>5 DEF RegisterRecord, Known, Control, Private
  <2>2. Counter' = Counter
    BY <1>2, <2>1 DEF Counter
  <2>3. Calls' = [Calls EXCEPT ![<<t, None>>] = [step |-> "add", id |-> own]]
    <3>1. Calls'[<<t, None>>] = [step |-> "add", id |-> own]
      BY <1>3, <2>1 DEF Calls, PendingCall
    <3>2. \A u \in Thread \ {t} : PendingCall(<<u, None>>)' = PendingCall(<<u, None>>)
      BY <1>1, <1>2, <2>1 DEF PendingCall
    <3>3. \A u \in Thread \ {t} : Calls'[<<u, None>>] = Calls[<<u, None>>]
      BY <3>2, Callers DEF Calls
    <3> QED
      BY ONLY <1>2, <1>3, <3>1, <3>3, ThreadCall
  <2>4. Calls[<<t, None>>].step = "idle"
    BY <1>3, <2>1, ThreadAt
  <2>5. \A g \in Caller : Calls[g].step = "done" => Calls[g].id # own
    <3>1. \A u \in Thread : Calls[<<u, None>>].step = "done" => Calls[<<u, None>>].id # own
      BY <2>1, ThreadAt
    <3>2. \A c \in Container :
             Calls[<<"go", c>>].step = "done" => Calls[<<"go", c>>].id # own
      BY <2>1, GoAt
    <3> QED
      BY <3>1, <3>2, Callers
  <2>6. Registrations!RegisterRecord(<<t, None>>, own)
    BY <2>1, <2>2, <2>3, <2>4, <2>5 DEF Registrations!RegisterRecord, Registrations!Busy,
         Registrations!SettlingIds, Calls, Counter
  <2> QED
    BY <1>3, <2>1, <2>6 DEF Registrations!Next
<1>6. CASE RegisterAdd(t)
  <2>1. /\ pc[t] = "add" /\ pc' = [pc EXCEPT ![t] = "run"]
        /\ wg' = wg + 1 /\ UNCHANGED <<ids, own>>
    BY <1>6 DEF RegisterAdd
  <2>2. Counter' = Counter + 1
    BY ONLY <1>2, <1>4, <2>1 DEF Counter, One
  <2>3. Calls' = [Calls EXCEPT ![<<t, None>>] = [step |-> "idle"]]
    <3>1. Calls'[<<t, None>>] = [step |-> "idle"]
      BY <1>3, <2>1 DEF Calls, PendingCall
    <3>2. \A u \in Thread \ {t} : PendingCall(<<u, None>>)' = PendingCall(<<u, None>>)
      BY <1>1, <1>2, <2>1 DEF PendingCall
    <3>3. \A u \in Thread \ {t} : Calls'[<<u, None>>] = Calls[<<u, None>>]
      BY <3>2, Callers DEF Calls
    <3> QED
      BY ONLY <1>2, <1>3, <3>1, <3>3, ThreadCall
  <2>4. Calls[<<t, None>>].step = "add"
    BY <1>3, <2>1, ThreadAt
  <2>5. Registrations!RegisterAdd(<<t, None>>)
    BY <2>1, <2>2, <2>3, <2>4 DEF Registrations!RegisterAdd, Registrations!Idle, Calls,
         Counter
  <2> QED
    BY <1>3, <2>5 DEF Registrations!Next
<1>7. CASE ~RegisterRecord(t) /\ ~RegisterAdd(t)
  <2>1. UNCHANGED <<ids, wg>> /\ (own' = own \/ pc[t] = "dedupe")
    BY <1>7 DEF StartStep, Provide, ListDuplicates, RemoveDuplicate, ContainerCreate,
         ContainerStart, SetContainerId, AwaitHealth, WaitUntilUp, SpawnWatcher
  <2>2. \A u \in Thread : /\ pc'[u] = "settle" <=> pc[u] = "settle"
                          /\ pc'[u] = "add" <=> pc[u] = "add"
    BY <1>7 DEF StartStep, Provide, ListDuplicates, RemoveDuplicate, ContainerCreate,
         ContainerStart, SetContainerId, AwaitHealth, WaitUntilUp, SpawnWatcher
  <2>3. Counter' = Counter
    BY <1>2, <2>1 DEF Counter
  <2>4. \A u \in Thread : pc[u] = "add" => own' = own
    BY <1>1, <2>1 DEF StopLabels
  <2> QED
    BY <1>2, <2>1, <2>2, <2>3, <2>4, QuietCalls
<1> QED
  BY <1>5, <1>6, <1>7

\* An ID whose Register is half done is known to nobody who notifies.
LEMMA NobodyNotifiesAdding ==
  ASSUME IInv, NEW id, NEW g \in Caller, Calls[g].step = "add", Calls[g].id = id
  PROVE  id \notin watchers \cup supervisors \cup settling /\ \A u \in Thread : id # old[u]
<1>1. PICK t \in Thread : g = <<t, None>> /\ pc[t] = "add"
  BY ThreadAt, GoAt, Callers
<1>2. id = own /\ t \in Starter
  BY <1>1, ThreadAt DEF IInv, Shape, TypeOK, Thread, Starter, StopLabels
<1> QED
  BY <1>1, <1>2 DEF IInv, Known, Private

\* Stop notifies once, after the removal; its stray Done is accounted for.
LEMMA StopRefined ==
  ASSUME IInv, NEW t \in Thread, StopStep(t)
  PROVE  [Registrations!Next]_(Registrations!vars)
<1> USE DEF IInv, Shape, TypeOK, UpTypeOK, Thread, Starter, Goto, Step, dockVars
<1>1. StopWithoutContainer(t) => t = "signal" /\ back[t] = "done" /\ ~strayed
  BY DEF StopWithoutContainer, StopNothing, Control, StopLabels, BeforeId
<1>2. UNCHANGED <<settling, own>> /\ RestartInProgress' = RestartInProgress
  BY <1>1 DEF StopStep, StopWithoutContainer, StopNothing, StopContainer, TornContainerId,
       Inspect, Remove, RemoveReturns, Notify, NotifyDone, RestartInProgress, Control,
       StopLabels
<1>3. <<t, None>> \in Caller
  BY Callers
<1>4. wg \in Int
  OBVIOUS
<1>5. CASE Notify(t)
  <2>1. /\ ids' = ids \ {old[t]} /\ pc[t] = "notify" /\ UNCHANGED <<wg, old, strayed>>
        /\ pc' = [pc EXCEPT ![t] = IF old[t] \in ids THEN "settle" ELSE back[t]]
        /\ back[t] \in {"start", "failed", "done"}
    BY <1>5 DEF Notify, Control, StopLabels
  <2>2. Counter' = Counter
    BY <1>2, <2>1 DEF Counter
  <2>3. CASE old[t] \in ids
    <3>1. Calls'[<<t, None>>] = [step |-> "done", id |-> old[t]]
      BY <1>3, <2>1, <2>3 DEF Calls, PendingCall
    <3>2. \A u \in Thread \ {t} : PendingCall(<<u, None>>)' = PendingCall(<<u, None>>)
      BY <1>2, <2>1 DEF PendingCall
    <3>3. \A u \in Thread \ {t} : Calls'[<<u, None>>] = Calls[<<u, None>>]
      BY <3>2, Callers DEF Calls
    <3>4. Calls' = [Calls EXCEPT ![<<t, None>>] = [step |-> "done", id |-> old[t]]]
      BY ONLY <1>2, t \in Thread, <3>1, <3>3, ThreadCall
    <3>5. Calls[<<t, None>>].step = "idle"
      BY <2>1, ThreadAt
    <3>6. \A g \in Caller : Calls[g].step = "add" => Calls[g].id # old[t]
      BY NobodyNotifiesAdding
    <3>7. Registrations!NotifyRemove(<<t, None>>, old[t])
      BY <2>1, <2>2, <2>3, <3>4, <3>5, <3>6 DEF Registrations!NotifyRemove,
           Registrations!Busy,
           Registrations!AddingIds, Calls, Counter
    <3> QED
      BY <1>3, <2>3, <3>7 DEF Registrations!Next
  <2>4. CASE old[t] \notin ids
    BY <1>2, <2>1, <2>2, <2>4, QuietCalls
  <2> QED
    BY <2>3, <2>4
<1>6. CASE NotifyDone(t)
  <2>1. /\ UNCHANGED <<ids, old, strayed>> /\ wg' = wg - 1 /\ pc[t] = "settle"
        /\ pc' = [pc EXCEPT ![t] = back[t]] /\ back[t] \in {"start", "failed", "done"}
    BY <1>6 DEF NotifyDone, WgDone, Control, StopLabels
  <2>2. Counter' = Counter - 1
    BY ONLY <1>2, <1>4, <2>1 DEF Counter, One
  <2>3. Calls' = [Calls EXCEPT ![<<t, None>>] = [step |-> "idle"]]
    <3>1. Calls'[<<t, None>>] = [step |-> "idle"]
      BY <1>3, <2>1 DEF Calls, PendingCall
    <3>2. \A u \in Thread \ {t} : PendingCall(<<u, None>>)' = PendingCall(<<u, None>>)
      BY <1>2, <2>1 DEF PendingCall
    <3>3. \A u \in Thread \ {t} : Calls'[<<u, None>>] = Calls[<<u, None>>]
      BY <3>2, Callers DEF Calls
    <3> QED
      BY ONLY <1>2, t \in Thread, <3>1, <3>3, ThreadCall
  <2>4. Calls[<<t, None>>].step = "done"
    BY <2>1, ThreadAt
  <2>5. Registrations!NotifyDone(<<t, None>>)
    BY <2>1, <2>2, <2>3, <2>4 DEF Registrations!NotifyDone, Registrations!Idle, Calls,
         Counter
  <2> QED
    BY <1>3, <2>5 DEF Registrations!Next
<1>7. CASE ~Notify(t) /\ ~NotifyDone(t)
  <2>1. UNCHANGED ids
    BY <1>7 DEF StopStep, StopWithoutContainer, StopContainer, TornContainerId, Inspect,
         Remove,
         RemoveReturns
  <2>2. \/ wg' = wg /\ strayed' = strayed
        \/ wg' = wg - 1 /\ ~strayed /\ strayed'
    BY <1>1, <1>7 DEF StopStep, StopWithoutContainer, StopNothing, StopContainer,
         TornContainerId,
         Inspect, Remove, RemoveReturns, WgDone
  <2>3. Counter' = Counter
    BY ONLY <1>2, <1>4, <2>2 DEF Counter, One
  <2>4. \A u \in Thread : /\ pc'[u] = "settle" <=> pc[u] = "settle"
                          /\ pc'[u] = "add" <=> pc[u] = "add"
                          /\ pc[u] = "settle" => old'[u] = old[u]
    BY <1>1, <1>7 DEF StopStep, StopWithoutContainer, StopNothing, StopContainer,
         TornContainerId,
         Inspect, Remove, RemoveReturns
  <2> QED
    BY <1>2, <2>1, <2>3, <2>4, QuietCalls
<1> QED
  BY <1>5, <1>6, <1>7

\* A watcher or a supervisor notifies once and ends with its Done.
LEMMA GoRefined ==
  ASSUME IInv, NEW c \in Container,
         WatcherNotifies(c) \/ SupervisorNotifies(c) \/ GoroutineDone(c)
  PROVE  [Registrations!Next]_(Registrations!vars)
<1> USE DEF IInv, Shape, TypeOK, UpTypeOK
<1>1. <<"go", c>> \in Caller
  BY Callers
<1>2. UNCHANGED <<pc, own, old, strayed>> /\ RestartInProgress' = RestartInProgress
  BY DEF WatcherNotifies, SupervisorNotifies, GoroutineDone, upVars, RestartInProgress
<1>3. wg \in Int
  OBVIOUS
<1>4. CASE WatcherNotifies(c) \/ SupervisorNotifies(c)
  <2>1. Settle(c) /\ UNCHANGED wg /\ c \in watchers \cup supervisors
    BY <1>4 DEF WatcherNotifies, SupervisorNotifies, upVars
  <2>2. Counter' = Counter
    BY <1>2, <2>1 DEF Counter
  <2>3. CASE c \in ids
    <3>1. ids' = ids \ {c} /\ settling' = settling \cup {c} /\ c \notin settling
      BY <2>1, <2>3 DEF Settle, Known
    <3>2. Calls'[<<"go", c>>] = [step |-> "done", id |-> c]
      BY <1>1, <3>1 DEF Calls, PendingCall
    <3>3. Calls' = [Calls EXCEPT ![<<"go", c>>] = [step |-> "done", id |-> c]]
      BY <1>2, <3>1, <3>2, GoCall
    <3>4. Calls[<<"go", c>>].step = "idle"
      BY <3>1, GoAt
    <3>5. \A g \in Caller : Calls[g].step = "add" => Calls[g].id # c
      BY <2>1, NobodyNotifiesAdding
    <3>6. Registrations!NotifyRemove(<<"go", c>>, c)
      BY <2>2, <2>3, <3>1, <3>3, <3>4, <3>5 DEF Registrations!NotifyRemove,
           Registrations!Busy,
           Registrations!AddingIds, Calls, Counter
    <3> QED
      BY <1>1, <3>6 DEF Registrations!Next
  <2>4. CASE c \notin ids
    <3>1. UNCHANGED <<ids, settling>>
      BY <2>1, <2>4 DEF Settle
    <3> QED
      BY <1>2, <2>2, <3>1, QuietCalls
  <2> QED
    BY <2>3, <2>4
<1>5. CASE GoroutineDone(c)
  <2>1. UNCHANGED ids /\ wg' = wg - 1 /\ c \in settling /\ settling' = settling \ {c}
    BY <1>5 DEF GoroutineDone, WgDone
  <2>2. Counter' = Counter - 1
    BY ONLY <1>2, <1>3, <2>1 DEF Counter, One
  <2>3. Calls'[<<"go", c>>] = [step |-> "idle"]
    BY <1>1, <2>1 DEF Calls, PendingCall
  <2>4. Calls' = [Calls EXCEPT ![<<"go", c>>] = [step |-> "idle"]]
    BY <1>2, <2>1, <2>3, GoCall
  <2>5. Calls[<<"go", c>>].step = "done"
    BY <2>1, GoAt
  <2>6. Registrations!NotifyDone(<<"go", c>>)
    BY <2>1, <2>2, <2>4, <2>5 DEF Registrations!NotifyDone, Registrations!Idle, Calls,
         Counter
  <2> QED
    BY <1>1, <2>6 DEF Registrations!Next
<1> QED
  BY <1>4, <1>5

\* The docker engine keeps the debouncer's protocol: every session is a
\* behaviour of Debouncer, whose guarantees hold for it (debouncer.go:53-71).
THEOREM KeepsProtocol == Spec => UsesDebouncer
<1>1. IInv /\ [Next]_vars => [Registrations!Next]_(Registrations!vars)
  <2> SUFFICES ASSUME IInv, [Next]_vars
               PROVE  [Registrations!Next]_(Registrations!vars)
    OBVIOUS
  <2>1. CASE MainStep \/ SignalStep \/ RestartStep \/ Environment \/ UNCHANGED vars
             \/ \E c \in Container : DaemonRemoves(c)
    BY <2>1, QuietRefined
  <2>2. ASSUME NEW t \in Starter, StartStep(t)
        PROVE  [Registrations!Next]_(Registrations!vars)
    BY <2>2, StartRefined
  <2>3. ASSUME NEW t \in Thread, StopStep(t)
        PROVE  [Registrations!Next]_(Registrations!vars)
    BY <2>3, StopRefined
  <2>4. ASSUME NEW c \in Container,
               WatcherNotifies(c) \/ SupervisorNotifies(c) \/ GoroutineDone(c)
        PROVE  [Registrations!Next]_(Registrations!vars)
    BY <2>4, GoRefined
  <2> QED
    BY <2>1, <2>2, <2>3, <2>4 DEF Next
<1> QED
  BY <1>1, InitRefined, Invariance, PTL DEF Spec, UsesDebouncer, Registrations!Spec
==============================================================================
