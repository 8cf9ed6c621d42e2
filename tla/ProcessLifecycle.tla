--------------------------- MODULE ProcessLifecycle ---------------------------
(***************************************************************************)
(* One `imposter up` on the jvm or the native engine: a child process per  *)
(* Start, internal/engine/jvm/engine.go and native/engine.go, run by the   *)
(* goroutines of UpCommand.  The two engines differ in what a failed exec  *)
(* does.                                                                   *)
(*                                                                         *)
(* notifyOnStopBlocking reads the engine's command twice, once for the ID  *)
(* it will notify and once for the process it waits for, and Restart may   *)
(* replace the command in between; so the two reads are two steps.  A pid  *)
(* is not handed out twice in a session.                                   *)
(***************************************************************************)
EXTENDS UpCommand, FiniteSets

CONSTANTS Engines,   \* the engines explored
          Child,     \* bound: the processes one session can start
          None       \* no process: a nil command

ASSUME EnginesAssumption == Engines \subseteq {"jvm", "native"}
ASSUME NoneAssumption == None \notin Child
ASSUME ChildAssumption == IsFiniteSet(Child) /\ Child \cap Thread = {}

VARIABLES
  engine,    \* the engine in use
  ids,       \* the debouncer's map
  command,   \* JvmMockEngine.command, NativeMockEngine.cmd
  own,       \* startWithOptions: the command it built and started
  watcher,   \* the goroutine Start spawned for a child: where it is
  pid,       \* notifyOnStopBlocking: the ID it will notify, per caller
  target,    \* notifyOnStopBlocking: the process it waits for, per caller
  status     \* the kernel's view of each child

procVars == <<engine, ids, command, own, watcher, pid, target, status>>
vars == <<upVars, procVars>>

Caller == Thread \cup Child      \* a watcher goes by the name of its child
Fresh == {c \in Child : status[c] = "none"}
Alive == {c \in Child : status[c] \in {"running", "killed"}}

Init ==
  /\ UpInit
  /\ engine \in Engines
  /\ ids = {} /\ command = None /\ own = None
  /\ watcher = [c \in Child |-> "none"]
  /\ pid = [g \in Caller |-> None]
  /\ target = [g \in Caller |-> None]
  /\ status = [c \in Child |-> "none"]

FatalAt(t, from) == Fatal(t, from) /\ UNCHANGED procVars

------------------------------------------------------------------------------
(* startWithOptions *)

\* buildEnv, GetStartCommand and the log of a detached mock: may be fatal.
Prepare(t) ==
  \/ Step(t, "start", "exec") /\ UNCHANGED procVars
  \/ FatalAt(t, "start")

\* command.Start().  A jvm that does not start is fatal; for a native engine
\* Start returns false, with nothing registered.
Exec(t) ==
  \/ /\ Step(t, "exec", "register")
     /\ \E c \in Fresh : own' = c /\ status' = [status EXCEPT ![c] = "running"]
     /\ UNCHANGED <<engine, ids, command, watcher, pid, target>>
  \/ engine = "jvm" /\ FatalAt(t, "exec")
  \/ engine = "native" /\ Step(t, "exec", "failed") /\ UNCHANGED procVars

\* Mutant: the PID is taken before the process has one.
RegisterTakesPidEarly(t) ==
  /\ Step(t, "register", "add")
  /\ ids' = ids \cup {None}
  /\ UNCHANGED <<engine, command, own, watcher, pid, target, status>>

RegisterRecord(t) ==
  /\ Step(t, "register", "add")
  /\ ids' = ids \cup {own}
  /\ UNCHANGED <<engine, command, own, watcher, pid, target, status>>

\* Mutant: wg.Add(1) is forgotten.
RegisterWithoutAdd(t) ==
  /\ Step(t, "add", "setCommand")
  /\ UNCHANGED procVars

RegisterAdd(t) ==
  /\ Running /\ pc[t] = "add"
  /\ wg' = wg + 1
  /\ Goto(t, "setCommand")
  /\ UNCHANGED <<detach, restartOnChange, back, waiter, interrupted, abortPending,
                 proc, strayed>>
  /\ UNCHANGED procVars

SetCommand(t) ==
  /\ Step(t, "setCommand", IF detach = "now" THEN "started" ELSE "health")
  /\ command' = own
  /\ UNCHANGED <<engine, ids, own, watcher, pid, target, status>>

AwaitHealth(t) ==
  /\ WaitUntilUp(t, Alive # {})
  /\ UNCHANGED procVars

\* go notifyOnStopBlocking
SpawnWatcher(t) ==
  /\ Step(t, "reap", "started")
  /\ watcher' = [watcher EXCEPT ![own] = "readPid"]
  /\ UNCHANGED <<engine, ids, command, own, pid, target, status>>

------------------------------------------------------------------------------
(* Stop *)

StopWithoutProcess(t) ==
  /\ command = None
  /\ StopNothing(t)
  /\ UNCHANGED procVars

StopProcess(t) ==
  /\ command # None
  /\ Step(t, "stop", "kill")
  /\ UNCHANGED procVars

\* Process.Kill: the process is about to exit, or has; one that was already
\* waited for makes Stop fatal.
Kill(t) ==
  \/ /\ Step(t, "kill", "readPid")
     /\ status[command] # "reaped"
     /\ status' = [status EXCEPT ![command] = IF @ = "running" THEN "killed" ELSE @]
     /\ UNCHANGED <<engine, ids, command, own, watcher, pid, target>>
  \/ FatalAt(t, "kill") /\ status[command] = "reaped"

------------------------------------------------------------------------------
(* notifyOnStopBlocking, in Stop and in a watcher *)

At(g, label) == IF g \in Thread THEN pc[g] = label ELSE watcher[g] = label
BackOf(g) == IF g \in Thread THEN back[g] ELSE "done"
Move(g, label) ==
  IF g \in Thread
    THEN Goto(g, label) /\ UNCHANGED watcher
    ELSE watcher' = [watcher EXCEPT ![g] = label] /\ UNCHANGED pc
UpElse == <<detach, restartOnChange, back, interrupted, abortPending, strayed>>

ReadPid(g) ==
  /\ Running /\ At(g, "readPid")
  /\ Move(g, "readTarget")
  /\ pid' = [pid EXCEPT ![g] = command]
  /\ UNCHANGED UpElse /\ UNCHANGED <<wg, waiter, proc>>
  /\ UNCHANGED <<engine, ids, command, own, target, status>>

ReadTarget(g) ==
  /\ Running /\ At(g, "readTarget")
  /\ Move(g, "reaping")
  /\ target' = [target EXCEPT ![g] = command]
  /\ UNCHANGED UpElse /\ UNCHANGED <<wg, waiter, proc>>
  /\ UNCHANGED <<engine, ids, command, own, pid, status>>

\* Mutant: notify without having waited.
NotifyBeforeExit(g) ==
  /\ Running /\ At(g, "reaping")
  /\ Move(g, "notify")
  /\ UNCHANGED UpElse /\ UNCHANGED <<wg, waiter, proc>>
  /\ UNCHANGED <<engine, ids, command, own, pid, target, status>>

\* Process.Wait returns, to everyone waiting, once the process has exited.
Reap(g) ==
  /\ Running /\ At(g, "reaping")
  /\ target[g] \notin Alive
  /\ status' = [status EXCEPT ![target[g]] = "reaped"]
  /\ Move(g, "notify")
  /\ UNCHANGED UpElse /\ UNCHANGED <<wg, waiter, proc>>
  /\ UNCHANGED <<engine, ids, command, own, pid, target>>

\* Mutants: Done whoever else notified; the ID stays registered.
NotifyAlways(g) ==
  /\ Running /\ At(g, "notify")
  /\ ids' = ids \ {pid[g]}
  /\ Move(g, "settle")
  /\ UNCHANGED UpElse /\ UNCHANGED <<wg, waiter, proc>>
  /\ UNCHANGED <<engine, command, own, pid, target, status>>
NotifyKeepsId(g) ==
  /\ Running /\ At(g, "notify")
  /\ Move(g, IF pid[g] \in ids THEN "settle" ELSE BackOf(g))
  /\ UNCHANGED UpElse /\ UNCHANGED <<wg, waiter, proc>>
  /\ UNCHANGED <<engine, ids, command, own, pid, target, status>>

\* debouncer.Notify up to the unlock, then its wg.Done().
Notify(g) ==
  /\ Running /\ At(g, "notify")
  /\ ids' = ids \ {pid[g]}
  /\ Move(g, IF pid[g] \in ids THEN "settle" ELSE BackOf(g))
  /\ UNCHANGED UpElse /\ UNCHANGED <<wg, waiter, proc>>
  /\ UNCHANGED <<engine, command, own, pid, target, status>>

NotifyDone(g) ==
  /\ Running /\ At(g, "settle")
  /\ WgDone
  /\ Move(g, BackOf(g))
  /\ UNCHANGED UpElse
  /\ UNCHANGED <<engine, ids, command, own, pid, target, status>>

------------------------------------------------------------------------------
\* A mock crashes, gets the terminal's Ctrl+C too, or is killed by
\* `imposter down`.
ChildExits(c) ==
  /\ Running /\ c \in Alive
  /\ status' = [status EXCEPT ![c] = "exited"]
  /\ UNCHANGED <<engine, ids, command, own, watcher, pid, target>>
  /\ UNCHANGED upVars

StartStep(t) ==
  \/ Prepare(t) \/ Exec(t) \/ RegisterRecord(t) \/ RegisterAdd(t)
  \/ SetCommand(t) \/ AwaitHealth(t) \/ SpawnWatcher(t)
StopStep(t) == StopWithoutProcess(t) \/ StopProcess(t) \/ Kill(t)
NotifyStep(g) ==
  ReadPid(g) \/ ReadTarget(g) \/ Reap(g) \/ Notify(g) \/ NotifyDone(g)

MainStep ==
  \/ MainStarted /\ UNCHANGED procVars
  \/ MainFailed /\ UNCHANGED procVars
  \/ MainWait /\ UNCHANGED procVars
  \/ MainReleased /\ UNCHANGED procVars
SignalStep == StopImmediately /\ UNCHANGED procVars
RestartStep == RestartEnd /\ UNCHANGED procVars

\* The bound: a change of the directory is only explored while one more
\* process can be started.
DirectoryChanged == Fresh # {} /\ RestartBegin /\ UNCHANGED procVars

Environment ==
  \/ Interrupt /\ UNCHANGED procVars
  \/ KilledBySignal /\ UNCHANGED procVars
  \/ DirectoryChanged
  \/ \E c \in Child : ChildExits(c)

Next ==
  \/ MainStep \/ SignalStep \/ RestartStep
  \/ \E t \in Starter : StartStep(t)
  \/ \E t \in Thread : StopStep(t)
  \/ \E g \in Caller : NotifyStep(g)
  \/ Environment

\* A goroutine that can run does; a killed child exits.
Fairness ==
  /\ WF_vars(MainStep) /\ WF_vars(SignalStep) /\ WF_vars(RestartStep)
  /\ \A t \in Starter : WF_vars(StartStep(t))
  /\ \A t \in Thread : WF_vars(StopStep(t))
  /\ \A g \in Caller : WF_vars(NotifyStep(g))
  /\ \A c \in Child : WF_vars(status[c] = "killed" /\ ChildExits(c))

Spec == Init /\ [][Next]_vars
FairSpec == Spec /\ Fairness

------------------------------------------------------------------------------
(* Properties *)

NotifyLabels == {"readPid", "readTarget", "reaping", "notify", "settle"}
StopLabels == {"stop", "kill"} \cup NotifyLabels
StartLabels == {"start", "exec", "register", "add", "setCommand", "health", "reap",
                "started", "failed"}

\* Shape of the state (JvmMockEngine, NativeMockEngine, cmd/up.go start).
TypeOK ==
  /\ UpTypeOK
  /\ engine \in {"jvm", "native"}
  /\ pc \in [Thread -> StartLabels \cup StopLabels
                         \cup {"wait", "waitFailed", "off", "armed", "abort", "done", "idle"}]
  /\ pc["main"] \in StartLabels \cup StopLabels \cup {"wait", "waitFailed"}
  /\ pc["signal"] \in {"off", "armed", "abort", "done"} \cup StopLabels
  /\ pc["restart"] \in {"off", "idle"} \cup StartLabels \cup StopLabels
  /\ ids \subseteq Child
  /\ command \in Child \cup {None} /\ own \in Child \cup {None}
  /\ watcher \in [Child -> {"none", "done"} \cup NotifyLabels]
  /\ pid \in [Caller -> Child \cup {None}]
  /\ target \in [Caller -> Child \cup {None}]
  /\ status \in [Child -> {"none", "running", "killed", "exited", "reaped"}]

One(p) == IF p THEN 1 ELSE 0
Settling == {g \in Caller : At(g, "settle")}
Adding == pc["main"] = "add" \/ pc["restart"] = "add"

\* What the WaitGroup's counter is made of (debouncer.go:53-71,
\* jvm/engine.go:143-172): registered processes, less the one whose Add is to
\* come; Dones to come; a restart's own; less a stray Done.
WgAccounting ==
  wg = Cardinality(ids) - One(Adding) + Cardinality(Settling)
       + One(RestartInProgress) - One(strayed)

\* A process leaves the debouncer's map only after it has exited, although the
\* ID a goroutine notifies and the process it waited for were read apart while
\* Restart replaced the command.  (jvm/engine.go:179-192)
SettledIsDead ==
  \A c \in Alive :
    c \in ids \/ (c = own /\ \E t \in Starter : pc[t] = "register")

\* Restart has waited for the old process before it starts the new one, so two
\* mocks never compete for the port, whoever else stops and watches them.
\* (jvm/engine.go:162-172)
OneMockAtATime == Cardinality(Alive) <= 1

\* "so we never leak a running mock" (up.go:254-256), where it holds: the CLI
\* leaves no process when a start failed or a session ended, if no Stop ran
\* before there was a process to stop; nor when Stop itself is fatal, outside
\* a restart.
NothingOrphaned ==
  ( /\ ~strayed /\ ~RestartInProgress
    /\ \/ proc \in {"exit1", "fatal"}
       \/ proc = "exit0" /\ detach = "attached" )
     => \A c \in Child : status[c] # "running"

\* The engine keeps the debouncer's protocol: one Register for each fresh ID,
\* no Notify of it before its Add, nothing else in the counter but a restart's
\* Add/Done and a stray Done.
PendingCall(g) ==
  LET Idle == [step |-> "idle"]
      Add(id) == [step |-> "add", id |-> id]
      Done(id) == [step |-> "done", id |-> id]
  IN IF At(g, "settle") THEN Done(pid[g])
     ELSE IF g \in Starter /\ At(g, "add") THEN Add(own) ELSE Idle
Registrations ==
  INSTANCE Debouncer WITH
    Id <- Child,
    counter <- wg - One(RestartInProgress) + One(strayed),
    call <- [g \in Caller |-> PendingCall(g)]
UsesDebouncer == Registrations!Spec

\* A session ends when it should, unless a restart begins first: when its mock
\* died on its own, also when the watcher only gets to read the command after
\* Restart has replaced it (jvm/engine.go:81-95), and when a signal comes (up.go:299-311),
\* at whatever moment; with --auto-restart, between restarts.
MockDied == ~interrupted /\ pc["main"] = "wait" /\ Alive = {} /\ ~RestartInProgress
UserStops ==
  interrupted /\ (restartOnChange =>
                     pc["signal"] = "abort" /\ waiter = "parked" /\ ~RestartInProgress)
SessionEnds == (Running /\ (MockDied \/ UserStops)) ~> (~Running \/ RestartInProgress)
==============================================================================
