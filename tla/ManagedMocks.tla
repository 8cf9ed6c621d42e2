----------------------------- MODULE ManagedMocks -----------------------------
(***************************************************************************)
(* Mocks that outlive the command that started them: `up --detach` with    *)
(* deduplication, `ls -x`, `down --all` and `down ID` (cmd/down.go and     *)
(* list.go, procutil, the docker engine's labels.go and removal.go).       *)
(*                                                                         *)
(* Nothing is recorded about a mock: a container is known by its labels, a *)
(* process by its name and by any one argument that fits a pattern, and    *)
(* every command first asks, then acts on the answer.  Another program may *)
(* fit, and a mock may not: a JAR under imposter-tools/, or a mock whose   *)
(* jvm.jarFile has a name of its own.  In between, mocks end, PIDs are     *)
(* used again and other CLIs run.  A CLI may be stopped at any step.       *)
(***************************************************************************)
EXTENDS Naturals, Sequences, FiniteSets, Functions

CONSTANTS
    MockClis,
    Pids,
    MockOptions,     \* the [hash, port] of an `up`: the hash of a default covers the port
    Programs,        \* [name, fits, kind]: an engine whose processes are named so, or another name;
                     \* whether an argument fits its pattern; the engine it is a mock of, or "other"
    Nobody,
    MaxStarted       \* bound: containers and processes ever started

VARIABLES
    containers,   \* dockerd's, in the order of their creation
    processes,    \* PID -> [name, fits, kind, born] or Nobody
    births,       \* processes started so far: tells two users of a PID apart (history)
    cmd           \* the commands that run

ProgramKinds == {"jvm", "native", "other"}
ASSUME ProgramsAssumption ==
    \A program \in Programs : program.kind \in ProgramKinds /\ program.fits \in BOOLEAN
ProcessRecords ==
    [name : {program.name : program \in Programs}, fits : BOOLEAN, kind : ProgramKinds, born : 1..MaxStarted]
ASSUME NobodyAssumption == Nobody \notin ProcessRecords
ASSUME StartedAssumption == MaxStarted \in Nat

managedVars == <<containers, processes, births, cmd>>

\* allEngineTypes
EngineTypes == <<"docker", "jvm", "native">>

\* owed: the mocks the command is about that it has no excuse to leave out; anyHealthy: `ls`
\* has seen a healthy one (history).
NoCommand == [op |-> "none", pc |-> "idle", engine |-> 1, todo |-> {}, id |-> Nobody, options |-> Nobody,
              anyFailed |-> FALSE, any |-> FALSE, anyHealthy |-> FALSE, own |-> 0, exitZero |-> FALSE, owed |-> {}]

ManagedInit ==
    /\ containers = <<>> /\ births = 0
    /\ processes = [p \in Pids |-> Nobody]
    /\ cmd = [c \in MockClis |-> NoCommand]

Room == Len(containers) + births < MaxStarted

\* An item stands for one container or one process, whoever has its number later.
ContainerItem(n) == [engine |-> "docker", key |-> n, born |-> 0]
ProcessItem(p, e) == [engine |-> e, key |-> p, born |-> processes[p].born]

\* findContainersWithLabels lists running containers only.
ManagedContainers == {n \in DOMAIN containers : containers[n].state = "running" /\ containers[n].managed}

\* isImposterProc.  A process that cannot be read is passed over: it is none of ours.
LooksLike(p, e) == processes[p] # Nobody /\ processes[p].name = e /\ processes[p].fits
\* Mutant: the name of the process is matched, its arguments are not.
MatchingByName(e) == {p \in Pids : processes[p] # Nobody /\ processes[p].name = e}
\* FindImposterProcesses
Matching(e) == {p \in Pids : LooksLike(p, e)}

ItemsOf(e) ==
    IF e = "docker" THEN {ContainerItem(n) : n \in ManagedContainers}
    ELSE {ProcessItem(p, e) : p \in Matching(e)}

\* What runs and is taken for a mock; and the mocks that are not.
RunningMocks ==
    {ContainerItem(n) : n \in {m \in DOMAIN containers : containers[m].state = "running" /\ containers[m].managed}}
    \cup {ProcessItem(p, processes[p].name) : p \in {r \in Pids : \E e \in {"jvm", "native"} : LooksLike(r, e)}}
Overlooked ==
    {ProcessItem(p, processes[p].kind) :
        p \in {r \in Pids : processes[r] # Nobody /\ processes[r].kind # "other" /\ ~LooksLike(r, processes[r].kind)}}

Gone(item) == item \notin RunningMocks

InStage(c, pc) == cmd[c].pc = pc
Now(c) == EngineTypes[cmd[c].engine]
Upd(c, r) == cmd' = [cmd EXCEPT ![c] = r]
Finish(c, excused) ==
    Upd(c, [NoCommand EXCEPT !.op = cmd[c].op, !.pc = "ended", !.owed = cmd[c].owed \ excused])
OfEngine(e) == {m \in RunningMocks \cup Overlooked : m.engine = e}

\* On to the next engine type: `down --all` ends with its last, `down ID` is fatal
\* there, `ls -x` exits with the health it saw.
Advance(c, r) ==
    Upd(c, IF r.engine < Len(EngineTypes)
           THEN [r EXCEPT !.pc = "scan", !.engine = @ + 1]
           ELSE [NoCommand EXCEPT !.op = r.op, !.pc = "ended", !.owed = r.owed, !.anyHealthy = r.anyHealthy,
                   !.exitZero = r.op = "ls" /\ r.any /\ ~r.anyFailed])

\* Mutant: the first engine that fails ends the command.
StopAtFailure(c) ==
    /\ InStage(c, "scan")
    /\ Finish(c, OfEngine(Now(c)))
    /\ UNCHANGED <<containers, processes, births>>

\* The engine cannot be asked: a fatal error that runWithRecovery turns into a warning.
EngineFails(c) ==
    /\ InStage(c, "scan")
    /\ Advance(c, [cmd[c] EXCEPT !.owed = @ \ OfEngine(Now(c))])
    /\ UNCHANGED <<containers, processes, births>>

-----------------------------------------------------------------------------
(* down --all *)

\* The IDs a user may give: read from `ls` or from an ID file, now or earlier.
Ids == {<<"container", n>> : n \in 1..MaxStarted} \cup {<<"pid", p>> : p \in Pids}
HasId(item, id) == id = <<IF item.engine = "docker" THEN "container" ELSE "pid", item.key>>

Begin(c, r) ==
    /\ InStage(c, "idle")
    /\ Upd(c, r)
    /\ UNCHANGED <<containers, processes, births>>

DownAll(c) ==
    Begin(c, [NoCommand EXCEPT !.op = "all", !.pc = "scan", !.owed = RunningMocks \cup Overlooked])

DownId(c) == \E id \in Ids :
    Begin(c, [NoCommand EXCEPT !.op = "id", !.pc = "scan", !.id = id,
                !.owed = {m \in RunningMocks : HasId(m, id)}])

StopAllManaged(c) ==
    /\ InStage(c, "scan") /\ cmd[c].op = "all"
    /\ Upd(c, [cmd[c] EXCEPT !.pc = "stop", !.todo = ItemsOf(Now(c))])
    /\ UNCHANGED <<containers, processes, births>>

\* A container is removed by force, whatever its state, or is gone already; a process
\* is killed by its PID.  Failures are warned of (`down --all`, deduplication).
Removed == [hash |-> Nobody, port |-> Nobody, managed |-> FALSE, beginsWith |-> Nobody,
            state |-> "removed", saw |-> {}]
Kill(item) ==
    IF item.engine = "docker"
    THEN containers' = [containers EXCEPT ![item.key] = Removed] /\ UNCHANGED processes
    ELSE processes' = [processes EXCEPT ![item.key] = Nobody] /\ UNCHANGED containers

StopOne(c) ==
    /\ InStage(c, "stop")
    /\ \E item \in cmd[c].todo :
         \/ /\ Kill(item)
            /\ Upd(c, [cmd[c] EXCEPT !.todo = @ \ {item}])
         \/ /\ ~Gone(item)                                   \* refused
            /\ UNCHANGED <<containers, processes>>
            /\ Upd(c, [cmd[c] EXCEPT !.todo = @ \ {item}, !.owed = @ \ {item}])
    /\ UNCHANGED births

\* Each engine's are stopped one after the other; the next engine follows.
EngineDone(c) ==
    /\ InStage(c, "stop") /\ cmd[c].todo = {}
    /\ cmd[c].op = "all"
    /\ Advance(c, cmd[c])
    /\ UNCHANGED <<containers, processes, births>>

-----------------------------------------------------------------------------
(* down ID *)

\* dockerd looks up a container in any state by its ID or by what its ID begins with.
Inspected(id) ==
    {n \in DOMAIN containers :
        /\ containers[n].state # "removed"
        /\ id = <<"container", n>> \/ id = <<"pid", containers[n].beginsWith>>}

FindContainer(c) ==
    LET hits == Inspected(cmd[c].id)
    IN /\ InStage(c, "scan") /\ cmd[c].op = "id" /\ Now(c) = "docker"
       /\ \/ /\ Cardinality(hits) > 1                        \* ambiguous: an error
             /\ Advance(c, [cmd[c] EXCEPT !.owed = @ \ OfEngine(Now(c))])
          \/ /\ Cardinality(hits) < 2 /\ \A n \in hits : ~containers[n].managed
             /\ Advance(c, cmd[c])
          \/ /\ Cardinality(hits) = 1 /\ \A n \in hits : containers[n].managed
             /\ Upd(c, [cmd[c] EXCEPT !.pc = "stop", !.todo = {ContainerItem(n) : n \in hits}])
       /\ UNCHANGED <<containers, processes, births>>

FindProcess(c) ==
    LET hits == {item \in ItemsOf(Now(c)) : cmd[c].id = <<"pid", item.key>>}
    IN /\ InStage(c, "scan") /\ cmd[c].op = "id" /\ Now(c) # "docker"
       /\ IF hits = {} THEN Advance(c, cmd[c])
          ELSE Upd(c, [cmd[c] EXCEPT !.pc = "stop", !.todo = hits])
       /\ UNCHANGED <<containers, processes, births>>

\* removeContainers reports no errors: a container that could not be removed counts as
\* stopped.  A process that could not be killed is an error of its engine.
StopManaged(c) ==
    /\ InStage(c, "stop") /\ cmd[c].op = "id"
    /\ \E item \in cmd[c].todo :
         \/ /\ Kill(item)
            /\ Finish(c, IF item.engine = "docker" THEN cmd[c].owed \ {item} ELSE {})
         \/ /\ item.engine = "docker"
            /\ UNCHANGED <<containers, processes>> /\ Finish(c, cmd[c].owed)
         \/ /\ item.engine # "docker"
            /\ UNCHANGED <<containers, processes>>
            /\ Advance(c, [cmd[c] EXCEPT !.todo = {}, !.owed = @ \ {item}])
    /\ UNCHANGED births

-----------------------------------------------------------------------------
(* ls -x *)

Ls(c) == Begin(c, [NoCommand EXCEPT !.op = "ls", !.pc = "scan", !.owed = RunningMocks])

ListAllManaged(c) ==
    /\ InStage(c, "scan") /\ cmd[c].op = "ls"
    /\ LET found == ItemsOf(Now(c))
       IN Upd(c, [cmd[c] EXCEPT !.pc = "check", !.todo = found, !.any = @ \/ found # {}])
    /\ UNCHANGED <<containers, processes, births>>

AnyFailed(c, healthy) == cmd[c].anyFailed \/ ~healthy

\* PopulateHealth asks whatever serves on the mock's port.
PopulateHealth(c) ==
    /\ InStage(c, "check")
    /\ \E item \in cmd[c].todo, healthy \in BOOLEAN :
         Upd(c, [cmd[c] EXCEPT !.todo = @ \ {item}, !.anyFailed = AnyFailed(c, healthy),
                   !.anyHealthy = @ \/ healthy, !.owed = IF healthy THEN @ \ {item} ELSE @])
    /\ UNCHANGED <<containers, processes, births>>

EngineListed(c) ==
    /\ InStage(c, "check") /\ cmd[c].todo = {}
    /\ Advance(c, cmd[c])
    /\ UNCHANGED <<containers, processes, births>>

-----------------------------------------------------------------------------
(* up --detach=now, docker engine *)

Up(c) == \E o \in MockOptions :
    Begin(c, [NoCommand EXCEPT !.op = "up", !.pc = "dedupe", !.options = o])

StopDuplicateContainers(c) ==
    /\ InStage(c, "dedupe")
    /\ LET dups == {n \in ManagedContainers : containers[n].hash = cmd[c].options.hash}
       IN Upd(c, [cmd[c] EXCEPT !.pc = "stop", !.todo = {ContainerItem(n) : n \in dups},
                    !.owed = {ContainerItem(n) : n \in dups}])
    /\ UNCHANGED <<containers, processes, births>>

\* Mutant: the container is created without waiting for the removals.
CreateAtOnce(c) ==
    /\ InStage(c, "stop") /\ cmd[c].op = "up" /\ Room
    /\ containers' = Append(containers, [hash |-> cmd[c].options.hash, port |-> cmd[c].options.port,
            managed |-> TRUE, beginsWith |-> Nobody, state |-> "created",
            saw |-> {item.key : item \in cmd[c].owed}])
    /\ Upd(c, [cmd[c] EXCEPT !.pc = "start", !.own = Len(containers')])
    /\ UNCHANGED <<processes, births>>

ContainerCreate(c) ==
    /\ InStage(c, "stop") /\ cmd[c].op = "up" /\ cmd[c].todo = {} /\ Room
    /\ \E id \in Pids \cup {Nobody} :
         containers' = Append(containers, [hash |-> cmd[c].options.hash, port |-> cmd[c].options.port,
            managed |-> TRUE, beginsWith |-> id, state |-> "created",
            saw |-> {item.key : item \in cmd[c].owed}])
    /\ Upd(c, [cmd[c] EXCEPT !.pc = "start", !.own = Len(containers')])
    /\ UNCHANGED <<processes, births>>

\* dockerd binds the port, so two containers cannot run on one.  A start that fails is
\* fatal and leaves the created container behind, which no command lists.
ContainerStart(c) ==
    LET n == cmd[c].own
        taken == \E m \in DOMAIN containers :
                    containers[m].state = "running" /\ containers[m].port = containers[n].port
    IN /\ InStage(c, "start")
       /\ \/ /\ containers[n].state = "created" /\ ~taken
             /\ containers' = [containers EXCEPT ![n].state = "running"]
             /\ Finish(c, cmd[c].owed)
          \/ UNCHANGED containers /\ Finish(c, cmd[c].owed)
       /\ UNCHANGED <<processes, births>>

\* dockerd cannot be asked, or the container cannot be created.
UpFails(c) ==
    /\ cmd[c].op = "up" /\ (InStage(c, "dedupe") \/ (InStage(c, "stop") /\ cmd[c].todo = {}))
    /\ Finish(c, cmd[c].owed)
    /\ UNCHANGED <<containers, processes, births>>

-----------------------------------------------------------------------------
(* The environment *)

\* A mock of the jvm or native engine, or any other program, whatever it looks like.
ProcessStarts(p, program) ==
    /\ processes[p] = Nobody /\ Room
    /\ births' = births + 1
    /\ processes' = [processes EXCEPT ![p] = [name |-> program.name, fits |-> program.fits,
                     kind |-> program.kind, born |-> births']]
    /\ UNCHANGED <<containers, cmd>>

ProcessEnds(p) ==
    /\ processes[p] # Nobody
    /\ processes' = [processes EXCEPT ![p] = Nobody]
    /\ UNCHANGED <<containers, births, cmd>>

OtherContainer(id) ==
    /\ Room
    /\ containers' = Append(containers, [hash |-> Nobody, port |-> Nobody, managed |-> FALSE,
            beginsWith |-> id, state |-> "running", saw |-> {}])
    /\ UNCHANGED <<processes, births, cmd>>

ContainerExits(n) ==
    /\ containers[n].state = "running"
    /\ containers' = [containers EXCEPT ![n].state = "exited"]
    /\ UNCHANGED <<processes, births, cmd>>

\* The command returns, or is killed wherever it is.
CommandEnds(c) ==
    /\ cmd[c].pc # "idle"
    /\ Upd(c, NoCommand)
    /\ UNCHANGED <<containers, processes, births>>

CliStep(c) ==
    \/ DownAll(c) \/ DownId(c) \/ Ls(c) \/ Up(c) \/ CommandEnds(c) \/ EngineFails(c)
    \/ StopAllManaged(c) \/ (cmd[c].op # "id" /\ StopOne(c)) \/ EngineDone(c)
    \/ FindContainer(c) \/ FindProcess(c) \/ StopManaged(c)
    \/ ListAllManaged(c) \/ PopulateHealth(c) \/ EngineListed(c)
    \/ StopDuplicateContainers(c) \/ ContainerCreate(c) \/ ContainerStart(c) \/ UpFails(c)

ManagedNext ==
    \/ \E c \in MockClis : CliStep(c)
    \/ \E p \in Pids :
         \/ \E program \in Programs : ProcessStarts(p, program)
         \/ ProcessEnds(p) \/ OtherContainer(p)
    \/ \E n \in DOMAIN containers : ContainerExits(n)

ManagedSpec == ManagedInit /\ [][ManagedNext]_managedVars
-----------------------------------------------------------------------------
ManagedTypeOK ==
    /\ \A n \in DOMAIN containers : containers[n].state \in {"created", "running", "exited", "removed"}
    /\ \A c \in MockClis :
         /\ cmd[c].pc \in {"idle", "scan", "stop", "check", "dedupe", "start", "ended"}
         /\ \A item \in cmd[c].todo : item.key \in (IF item.engine = "docker" THEN DOMAIN containers ELSE Pids)
         /\ cmd[c].pc \in {"scan", "ended", "start", "dedupe"} => cmd[c].todo = {} \/ cmd[c].op = "id"

(* What `down` was asked to stop when it began is gone when it ends: with    *)
(* --all every mock, but for those it overlooks, whose process has not the   *)
(* name or the arguments it looks for (procutil/processes.go:67-77), with    *)
(* an ID the one that had it, whatever started or ended meanwhile            *)
(* (cmd/down.go:96-150).  It owes none that refused to die or whose engine   *)
(* could not be asked, nor a process whose PID begins a container's ID:      *)
(* docker, asked first, took that for it.  And `ls -x` exits with 0 only if  *)
(* each mock it lists that ran when it began was seen to be healthy, is gone,*)
(* or is of an engine that could not be asked (list.go:65-96).               *)
EndedOwesNothing ==
    \A c \in MockClis : cmd[c].pc = "ended" /\ (cmd[c].op \in {"all", "id"} \/ cmd[c].exitZero) =>
        cmd[c].owed \cap (RunningMocks \cup Overlooked) \subseteq Overlooked

(* Nothing is stopped that does not look like a mock: a container without    *)
(* the label never, and a process whose name and arguments do not fit only   *)
(* when it got the PID of one whose did, between the listing of the          *)
(* processes and the kill (procutil/processes.go:81-99).                     *)
StrangersAreSafe ==
    [][cmd' # cmd =>
        /\ \A n \in DOMAIN containers : containers[n].state = "running" /\ ~containers[n].managed =>
                containers'[n] = containers[n]
        /\ \A p \in Pids :
             processes[p] # Nobody /\ (\A e \in {"jvm", "native"} : ~LooksLike(p, e)) /\ processes'[p] = Nobody =>
                \E c \in MockClis : \E item \in cmd[c].todo :
                    item.key = p /\ item.engine # "docker" /\ item.born # processes[p].born]_managedVars

(* README.md:107 of `list -qx`: it exits with 0 if at least one mock is      *)
(* running and healthy.                                                      *)
OneHealthyIsEnough ==
    \A c \in MockClis : cmd[c].pc = "ended" /\ cmd[c].op = "ls" /\ cmd[c].anyHealthy => cmd[c].exitZero

(* Two mocks of one hash run side by side only if neither `up` could see the *)
(* other's: it started after the other had asked dockerd, or its removal      *)
(* failed (removal.go:92-109).                                                *)
DuplicatesUnseen ==
    \A n, m \in DOMAIN containers :
        /\ n # m /\ containers[n].managed /\ containers[m].managed
        /\ containers[n].state = "running" /\ containers[m].state = "running"
        /\ containers[n].hash = containers[m].hash
        => n \notin containers[m].saw
=============================================================================
