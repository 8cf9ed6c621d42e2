--------------------------- MODULE DockerLifecycle ---------------------------
(***************************************************************************)
(* One `imposter up` on the docker engine: internal/engine/docker          *)
(* engine.go and removal.go, run by the goroutines of UpCommand, with      *)
(* every debouncer call split as in Debouncer.                             *)
(*                                                                         *)
(* dockerd is the environment.  A removal it has accepted completes even   *)
(* when the CLI is gone.  Every other request may fail.  Containers crash, *)
(* and `imposter down`, `docker rm` or another `up` may remove them.       *)
(*                                                                         *)
(* Only main runs Start before restart exists, so the locals of            *)
(* startWithOptions (own, dups) need no copy per goroutine.                *)
(***************************************************************************)
EXTENDS UpCommand, FiniteSets

CONSTANT MaxContainers     \* bound: containers created in one session

ASSUME MaxAssumption == MaxContainers \in Nat \ {0}

VARIABLES
  ids,           \* the debouncer's map
  containerId,   \* DockerMockEngine.containerId; 0 is ""
  own,           \* startWithOptions: the container it created
  dups,          \* stopDuplicateContainers: listed and not yet removed
  old,           \* Stop: oldContainerId, per goroutine
  status,        \* dockerd's view of each container
  watchers,      \* goroutines watching a container for Start
  supervisors,   \* Stop's five-second removal supervisors
  settling,      \* goroutines past Notify's unlock, before wg.Done()
  abandoned      \* history: settled by a failed request or by a supervisor

dockVars == <<ids, containerId, own, dups, old, status, watchers, supervisors,
              settling, abandoned>>
vars == <<upVars, dockVars>>

Container == 1..MaxContainers
None == 0
Gone == {"removing", "removed"}
Fresh == {c \in Container : status[c] = "none"}
Alive == {c \in Container : status[c] = "running"}

Init ==
  /\ UpInit
  /\ ids = {} /\ dups = {}
  /\ containerId = None /\ own = None
  /\ old = [t \in Thread |-> None]
  /\ status = [c \in Container |-> "none"]
  /\ watchers = {} /\ supervisors = {} /\ settling = {} /\ abandoned = {}

FatalAt(t, from) == Fatal(t, from) /\ UNCHANGED dockVars

------------------------------------------------------------------------------
(* startWithOptions *)

\* buildCliClient, Satisfied and Provide: may pull, may be fatal.
Provide(t) ==
  \/ Step(t, "start", "list") /\ UNCHANGED dockVars
  \/ FatalAt(t, "start")

\* stopDuplicateContainers (ReplaceRunning is always set by up): list the
\* running containers with this mock's hash; a failure to list is fatal.
ListDuplicates(t) ==
  \/ /\ Step(t, "list", "dedupe")
     /\ dups' = Alive
     /\ UNCHANGED <<ids, containerId, own, old, status, watchers, supervisors,
                    settling, abandoned>>
  \/ FatalAt(t, "list")

\* removeContainers: each removal is settled, on a WaitGroup of its own and
\* under a short ID, before the next; a failed one is only warned of.
RemoveDuplicate(t, c) ==
  /\ Step(t, "dedupe", "dedupe")
  /\ c \in dups
  /\ dups' = dups \ {c}
  /\ status' \in {status, [status EXCEPT ![c] = IF @ \in Gone THEN @ ELSE "removing"]}
  /\ UNCHANGED <<ids, containerId, own, old, watchers, supervisors, settling,
                 abandoned>>

ContainerCreate(t) ==
  \/ /\ dups = {}
     /\ Step(t, "dedupe", "register")
     /\ \E c \in Fresh :
          /\ \A d \in Fresh : c <= d
          /\ own' = c
          /\ status' = [status EXCEPT ![c] = "created"]
     /\ UNCHANGED <<ids, containerId, dups, old, watchers, supervisors, settling,
                    abandoned>>
  \/ dups = {} /\ FatalAt(t, "dedupe")

RegisterRecord(t) ==
  /\ Step(t, "register", "add")
  /\ ids' = ids \cup {own}
  /\ UNCHANGED <<containerId, own, dups, old, status, watchers, supervisors,
                 settling, abandoned>>

\* Mutant: wg.Add(1) is forgotten.
RegisterWithoutAdd(t) ==
  /\ Step(t, "add", "run")
  /\ UNCHANGED dockVars

RegisterAdd(t) ==
  /\ Running /\ pc[t] = "add"
  /\ wg' = wg + 1
  /\ Goto(t, "run")
  /\ UNCHANGED <<detach, restartOnChange, back, waiter, interrupted, abortPending,
                 proc, strayed>>
  /\ UNCHANGED dockVars

\* A container of this mock that still runs holds the port; any other failure
\* to start is fatal too, and leaves the created container behind.
ContainerStart(t) ==
  \/ /\ Step(t, "run", "setId")
     /\ status[own] = "created" /\ Alive = {}
     /\ status' = [status EXCEPT ![own] = "running"]
     /\ UNCHANGED <<ids, containerId, own, dups, old, watchers, supervisors,
                    settling, abandoned>>
  \/ FatalAt(t, "run")

SetContainerId(t) ==
  /\ Step(t, "setId", IF detach = "now" THEN "started" ELSE "health")
  /\ containerId' = own
  /\ UNCHANGED <<ids, own, dups, old, status, watchers, supervisors, settling,
                 abandoned>>

\* Any mock that serves on the port answers the health check.
AwaitHealth(t) ==
  /\ WaitUntilUp(t, Alive # {})
  /\ UNCHANGED dockVars

\* Mutant: nobody watches the container.
SpawnNoWatcher(t) ==
  /\ Step(t, "reap", "started")
  /\ UNCHANGED dockVars

\* go notifyOnStopBlocking
SpawnWatcher(t) ==
  /\ Step(t, "reap", "started")
  /\ watchers' = watchers \cup {own}
  /\ UNCHANGED <<ids, containerId, own, dups, old, status, supervisors, settling,
                 abandoned>>

------------------------------------------------------------------------------
(* Stop and removeContainer *)

StopWithoutContainer(t) ==
  /\ containerId = None
  /\ StopNothing(t)
  /\ UNCHANGED dockVars

\* Mutant: no early return when there is no container yet.
StopContainerUnchecked(t) ==
  /\ Step(t, "stop", "inspect")
  /\ old' = [old EXCEPT ![t] = containerId]
  /\ supervisors' = supervisors \cup {containerId}
  /\ UNCHANGED <<ids, containerId, own, dups, status, watchers, settling, abandoned>>

\* oldContainerId is read once; the supervisor goroutine is spawned first.
StopContainer(t) ==
  /\ containerId # None
  /\ Step(t, "stop", "inspect")
  /\ old' = [old EXCEPT ![t] = containerId]
  /\ supervisors' = supervisors \cup {containerId}
  /\ UNCHANGED <<ids, containerId, own, dups, status, watchers, settling, abandoned>>

\* containerId is read without a lock: a Stop that overlaps the first write of
\* the string can see its length without its bytes, and crash using it.
TornContainerId(t) ==
  /\ Running /\ pc[t] = "stop"
  /\ containerId = None /\ pc["main"] = "setId"
  /\ proc' = "panic"
  /\ UNCHANGED <<detach, restartOnChange, pc, back, wg, waiter, interrupted,
                 abortPending, strayed>>
  /\ UNCHANGED dockVars

GivesUp(c) ==
  abandoned' = IF status[c] \in Gone THEN abandoned ELSE abandoned \cup {c}

\* ContainerInspect: found, not found, or failed.
Inspect(t) ==
  /\ \/ /\ Step(t, "inspect", "remove")
        /\ status[old[t]] # "removed"
        /\ UNCHANGED abandoned
     \/ /\ Step(t, "inspect", "notify")
        /\ GivesUp(old[t])
  /\ UNCHANGED <<ids, containerId, own, dups, old, status, watchers, supervisors,
                 settling>>

\* Mutant: notify first, remove never.
RemoveOnlyNotifies(t) ==
  /\ Step(t, "remove", "notify")
  /\ UNCHANGED dockVars

\* ContainerRemove, forced.  dockerd refuses a removal it is already doing.
Remove(t) ==
  /\ \/ /\ Step(t, "remove", "removing")
        /\ status[old[t]] \notin Gone
        /\ status' = [status EXCEPT ![old[t]] = "removing"]
        /\ UNCHANGED abandoned
     \/ /\ Step(t, "remove", "notify")
        /\ GivesUp(old[t])
        /\ UNCHANGED status
  /\ UNCHANGED <<ids, containerId, own, dups, old, watchers, supervisors, settling>>

\* The request returns when the container is gone or the connection fails;
\* ContainerWait then answers at once.
RemoveReturns(t) ==
  /\ Step(t, "removing", "notify")
  /\ UNCHANGED dockVars

\* Notify, up to the unlock; an ID that is not registered is dropped.
Notify(t) ==
  /\ Running /\ pc[t] = "notify"
  /\ ids' = ids \ {old[t]}
  /\ Goto(t, IF old[t] \in ids THEN "settle" ELSE back[t])
  /\ UNCHANGED <<detach, restartOnChange, back, wg, waiter, interrupted,
                 abortPending, proc, strayed>>
  /\ UNCHANGED <<containerId, own, dups, old, status, watchers, supervisors,
                 settling, abandoned>>

NotifyDone(t) ==
  /\ Running /\ pc[t] = "settle"
  /\ WgDone
  /\ Goto(t, back[t])
  /\ UNCHANGED <<detach, restartOnChange, back, interrupted, abortPending, strayed>>
  /\ UNCHANGED dockVars

------------------------------------------------------------------------------
(* Goroutines with no other work: watchers, supervisors, and their Done *)

\* Mutants: Done for an ID that is not registered; the ID stays registered.
SettleAlways(c) ==
  /\ ids' = ids \ {c}
  /\ settling' = settling \cup {c}
SettleKeepsId(c) ==
  /\ UNCHANGED ids
  /\ settling' = IF c \in ids THEN settling \cup {c} ELSE settling

\* Notify by a goroutine that ends with it.
Settle(c) ==
  /\ ids' = ids \ {c}
  /\ settling' = IF c \in ids THEN settling \cup {c} ELSE settling

\* Start's watcher: ContainerWait reports the container stopped, or fails.
WatcherNotifies(c) ==
  /\ Running /\ c \in watchers
  /\ watchers' = watchers \ {c}
  /\ Settle(c)
  /\ \/ status[c] # "running" /\ UNCHANGED abandoned
     \/ status[c] = "running" /\ abandoned' = abandoned \cup {c}
  /\ UNCHANGED <<containerId, own, dups, old, status, supervisors>>
  /\ UNCHANGED upVars

\* Five seconds after Stop began, whatever became of the removal.
SupervisorNotifies(c) ==
  /\ Running /\ c \in supervisors
  /\ supervisors' = supervisors \ {c}
  /\ Settle(c)
  /\ IF c \in ids THEN GivesUp(c) ELSE UNCHANGED abandoned
  /\ UNCHANGED <<containerId, own, dups, old, status, watchers>>
  /\ UNCHANGED upVars

GoroutineDone(c) ==
  /\ Running /\ c \in settling
  /\ settling' = settling \ {c}
  /\ WgDone
  /\ UNCHANGED <<detach, restartOnChange, pc, back, interrupted, abortPending, strayed>>
  /\ UNCHANGED <<ids, containerId, own, dups, old, status, watchers, supervisors,
                 abandoned>>

------------------------------------------------------------------------------
(* dockerd and other processes *)

SetStatus(c, from, to) ==
  /\ status[c] \in from
  /\ status' = [status EXCEPT ![c] = to]
  /\ UNCHANGED <<ids, containerId, own, dups, old, watchers, supervisors, settling,
                 abandoned>>
  /\ UNCHANGED upVars

Crash(c) == Running /\ SetStatus(c, {"running"}, "exited")
RemovedByOther(c) == Running /\ SetStatus(c, {"running", "exited"}, "removing")
DaemonRemoves(c) == SetStatus(c, {"removing"}, "removed")

------------------------------------------------------------------------------
StartStep(t) ==
  \/ Provide(t) \/ ListDuplicates(t) \/ ContainerCreate(t)
  \/ \E c \in Container : RemoveDuplicate(t, c)
  \/ RegisterRecord(t) \/ RegisterAdd(t)
  \/ ContainerStart(t) \/ SetContainerId(t) \/ AwaitHealth(t) \/ SpawnWatcher(t)

StopStep(t) ==
  \/ StopWithoutContainer(t) \/ StopContainer(t) \/ TornContainerId(t) \/ Inspect(t) \/ Remove(t)
  \/ RemoveReturns(t) \/ Notify(t) \/ NotifyDone(t)

MainStep ==
  \/ MainStarted /\ UNCHANGED dockVars
  \/ MainFailed /\ UNCHANGED dockVars
  \/ MainWait /\ UNCHANGED dockVars
  \/ MainReleased /\ UNCHANGED dockVars

SignalStep == StopImmediately /\ UNCHANGED dockVars
RestartStep == RestartEnd /\ UNCHANGED dockVars

\* The bound: a change of the directory is only explored while one more
\* container can be created.
DirectoryChanged == Fresh # {} /\ RestartBegin /\ UNCHANGED dockVars

Environment ==
  \/ Interrupt /\ UNCHANGED dockVars
  \/ KilledBySignal /\ UNCHANGED dockVars
  \/ DirectoryChanged
  \/ \E c \in Container : Crash(c) \/ RemovedByOther(c)

Next ==
  \/ MainStep \/ SignalStep \/ RestartStep
  \/ \E t \in Starter : StartStep(t)
  \/ \E t \in Thread : StopStep(t)
  \/ \E c \in Container :
       WatcherNotifies(c) \/ SupervisorNotifies(c) \/ GoroutineDone(c)
  \/ \E c \in Container : DaemonRemoves(c)
  \/ Environment

\* A goroutine that can run does, requests return, timers fire.  Nobody has to
\* press Ctrl+C, edit the directory or remove a container.
Fairness ==
  /\ WF_vars(MainStep) /\ WF_vars(SignalStep) /\ WF_vars(RestartStep)
  /\ \A t \in Starter : WF_vars(StartStep(t))
  /\ \A t \in Thread : WF_vars(StopStep(t))
  /\ \A c \in Container :
       /\ WF_vars(status[c] # "running" /\ WatcherNotifies(c))
       /\ WF_vars(SupervisorNotifies(c))
       /\ WF_vars(GoroutineDone(c))
       /\ WF_vars(DaemonRemoves(c))

Spec == Init /\ [][Next]_vars
FairSpec == Spec /\ Fairness

------------------------------------------------------------------------------
(* Properties *)

StartLabels == {"start", "list", "dedupe", "register", "add", "run", "setId",
                "health", "reap", "started", "failed"}
StopLabels == {"stop", "inspect", "remove", "removing", "notify", "settle"}
Label == StartLabels \cup StopLabels
           \cup {"wait", "waitFailed", "off", "armed", "abort", "done", "idle"}

\* Shape of the state (docker/provider.go DockerMockEngine, cmd/up.go start).
TypeOK ==
  /\ UpTypeOK
  /\ pc \in [Thread -> Label]
  /\ pc["main"] \in StartLabels \cup StopLabels \cup {"wait", "waitFailed"}
  /\ pc["signal"] \in {"off", "armed", "abort", "done"} \cup StopLabels
  /\ pc["restart"] \in {"off", "idle"} \cup StartLabels \cup StopLabels
  /\ ids \subseteq Container /\ dups \subseteq Container
  /\ containerId \in Container \cup {None}
  /\ own \in Container \cup {None}
  /\ old \in [Thread -> Container \cup {None}]
  /\ status \in [Container -> {"none", "created", "running", "exited"} \cup Gone]
  /\ watchers \subseteq Container /\ supervisors \subseteq Container
  /\ settling \subseteq Container /\ abandoned \subseteq Container

One(p) == IF p THEN 1 ELSE 0
Adding == pc["main"] = "add" \/ pc["restart"] = "add"

\* What the WaitGroup's counter is made of: one for each registered container,
\* less the one whose Add is still to come; one for each Done still to come;
\* one held by a restart in progress; less the Done of a Stop that had nothing
\* to stop.  (debouncer.go:53-71, docker/engine.go:312-346)
WgAccounting ==
  wg = Cardinality(ids) - One(Adding) + Cardinality(settling)
       + One(pc["main"] = "settle") + One(pc["signal"] = "settle")
       + One(pc["restart"] = "settle")
       + One(RestartInProgress) - One(strayed)

\* However watchers, supervisors and stops of the same container overlap, the
\* WaitGroup goes below zero only through a Stop that had nothing to stop.
NegativeOnlyIfStrayed == wg < 0 => strayed

\* Attached, main returns only when every registered container was notified,
\* every Done made and no restart is half way.  (up.go:253-276)
ExitsSettled ==
  (detach = "attached" /\ proc \in {"exit0", "exit1"} /\ ~strayed)
     => ids = {} /\ settling = {} /\ ~RestartInProgress

\* The claim of up.go:254-256 for a start that failed, "so we never leak a
\* running mock": when main has waited for the cleanup and returns, no container
\* is left, unless a request to remove it failed or took five seconds.
NeverLeaksRunningMock ==
  (pc["main"] = "waitFailed" /\ proc \in {"exit0", "exit1"})
     => \A c \in Container \ abandoned : status[c] \notin {"created", "running"}

\* What does hold of "so we never leak a running mock" (up.go:256): a timed out detached
\* start has stopped its mock (up.go:237-238): apart from containers given up
\* after a failed request or five seconds, none is left when the CLI ends, if
\* no Stop ran before there was a container to stop.
NothingLeaked ==
  ( /\ proc = "exit1" \/ (proc = "exit0" /\ detach = "attached")
    /\ ~strayed )
     => \A c \in Container \ abandoned : status[c] \notin {"created", "running"}

\* The Add(1) of Restart keeps main waiting from the old container's Done to
\* the new one's Add: main is never released in the middle of a restart.
RestartHoldsMain ==
  [][waiter = "parked" /\ waiter' = "released" => ~RestartInProgress' \/ strayed]_vars

\* The engine uses its debouncer by the debouncer's protocol: once per fresh
\* ID, Notify never before Register returned, the counter touched by nothing
\* but Register, Notify, a restart's Add/Done and a stray Done.
Caller == (Thread \X {None}) \cup ({"go"} \X Container)
PendingCall(g) ==
  LET Idle == [step |-> "idle"]
      Add(id) == [step |-> "add", id |-> id]
      Done(id) == [step |-> "done", id |-> id]
  IN IF g[1] = "go"
       THEN IF g[2] \in settling THEN Done(g[2]) ELSE Idle
       ELSE IF pc[g[1]] = "add" THEN Add(own)
       ELSE IF pc[g[1]] = "settle" THEN Done(old[g[1]]) ELSE Idle
Registrations ==
  INSTANCE Debouncer WITH
    Id <- Container,
    counter <- wg - One(RestartInProgress) + One(strayed),
    call <- [g \in Caller |-> PendingCall(g)]
UsesDebouncer == Registrations!Spec

\* A session ends when it should, unless a restart begins first: when its mock
\* died on its own while main waits uninterrupted (docker/engine.go:127-131), and when
\* the user presses Ctrl+C (docker/engine.go:55), at whatever moment of a start,
\* a removal or the serving it comes; with --auto-restart, between restarts.
MockDied == ~interrupted /\ pc["main"] = "wait" /\ Alive = {} /\ ~RestartInProgress
UserStops ==
  interrupted /\ (restartOnChange =>
                     pc["signal"] = "abort" /\ waiter = "parked" /\ ~RestartInProgress)
SessionEnds == (Running /\ (MockDied \/ UserStops)) ~> (~Running \/ RestartInProgress)

\* "press ctrl+c to stop" (docker/engine.go:55) is printed by the start that a
\* restart makes, too: an interrupt during a restart ends the session.
InterruptEndsRestart ==
  (pc["signal"] = "abort" /\ waiter = "parked" /\ RestartInProgress) ~> ~Running
==============================================================================
