-------------------------- MODULE ManagedMocksProofs --------------------------
(***************************************************************************)
(* What holds of `down`, `ls -x` and deduplicating `up` commands whatever  *)
(* their number, the processes and containers beside the mocks, and        *)
(* wherever a command is stopped.                                          *)
(*                                                                         *)
(* A command acts on a list that grows old.  The inductive invariant       *)
(* ManagedInv says what stays true of it: an item of the list stands for a *)
(* container or process that did run (Known, Started) and, unless it has   *)
(* ended, still looks like a mock (Ours); PIDs are used again, but never   *)
(* with the same birth.  A command's ledger `owed` follows it: what is in  *)
(* it, lives and looks like a mock is of an engine still to come, or on    *)
(* the list (Owes).                                                        *)
(*                                                                         *)
(* Evolves is all the invariant needs to know about a step of somebody     *)
(* else: ItemStable and Unmoved show that it leaves a command's facts      *)
(* true.  A lemma per action then shows what the command's own step does.  *)
(***************************************************************************)
EXTENDS ManagedMocks, SequenceTheorems, TLAPS

\* The engines, and their place in allEngineTypes.
Engines == {"docker", "jvm", "native"}

Rank(e) == IF e = "docker" THEN 1 ELSE IF e = "jvm" THEN 2 ELSE 3

\* What an item stands for: a container created, or a process started under that PID.
Known(m) ==
    \/ /\ m.key \in DOMAIN containers
       /\ m = [engine |-> "docker", key |-> m.key, born |-> 0]
    \/ /\ m.key \in Pids /\ m.born \in 1..births /\ m.engine \in {"jvm", "native"}
       /\ m = [engine |-> m.engine, key |-> m.key, born |-> m.born]

\* A container that was listed has been started.
Started(m) == m.engine = "docker" => containers[m.key].state # "created"

\* It looks like a mock of that engine unless it has ended: a container has the label, or was
\* removed; whoever has the PID and that birth is the process listed.
Ours(m) ==
    IF m.engine = "docker" THEN containers[m.key].managed \/ containers[m.key].state = "removed"
    ELSE processes[m.key] # Nobody /\ processes[m.key].born = m.born => LooksLike(m.key, m.engine)

\* The mock runs.
Alive(m) ==
    IF m.engine = "docker" THEN containers[m.key].state = "running" /\ containers[m.key].managed
    ELSE processes[m.key].born = m.born /\ LooksLike(m.key, m.engine)

\* The types of the world and of the commands.
ContainerRecords ==
    [hash : {o.hash : o \in MockOptions} \cup {Nobody},
     port : {o.port : o \in MockOptions} \cup {Nobody}, managed : BOOLEAN,
     beginsWith : Pids \cup {Nobody}, state : {"created", "running", "exited", "removed"},
         saw : SUBSET Nat]

(* The world.  Births grow, and a container was created after those it saw   *)
(* were removed.                                                             *)
World ==
    /\ births \in Nat
    /\ Len(containers) + births <= MaxStarted
    /\ containers \in Seq(ContainerRecords)
    /\ processes \in [Pids -> ProcessRecords \cup {Nobody}]
    /\ \A p \in Pids : processes[p] # Nobody => processes[p].born <= births
    /\ \A n \in DOMAIN containers : \A k \in containers[n].saw :
         k \in DOMAIN containers /\ containers[k].state = "removed"

\* An item of a list, and a command.
Items == [engine : Engines, key : Nat \cup Pids, born : Nat]

Commands ==
    [op : {"none", "all", "id", "ls", "up"},
     pc : {"idle", "scan", "stop", "check", "dedupe", "start", "ended"},
     engine : 1..3, todo : SUBSET Items, id : Ids \cup {Nobody},
     options : MockOptions \cup {Nobody}, anyFailed : BOOLEAN, any : BOOLEAN, anyHealthy : BOOLEAN, own : Nat,
     exitZero : BOOLEAN, owed : SUBSET Items]

\* Which commands can be at which step.
Shaped(c) ==
    /\ cmd[c].pc = "scan" => cmd[c].op \in {"all", "id", "ls"}
    /\ cmd[c].pc = "stop" => cmd[c].op \in {"all", "id", "up"}
    /\ cmd[c].pc = "check" => cmd[c].op = "ls"
    /\ cmd[c].pc \in {"dedupe", "start"} => cmd[c].op = "up"
    /\ cmd[c].pc \notin {"stop", "check"} => cmd[c].todo = {}
    /\ cmd[c].exitZero => cmd[c].pc = "ended" /\ cmd[c].op = "ls"
    /\ cmd[c].op = "up" /\ cmd[c].pc \in {"dedupe", "stop"} => cmd[c].options \in MockOptions

\* A list holds mocks of the engine at hand; the ledger, mocks that ran.
KnowsItems(c) ==
    /\ \A m \in cmd[c].owed : Known(m) /\ Started(m)
    /\ \A m \in cmd[c].todo : Known(m) /\ Ours(m)
    /\ \A m \in cmd[c].todo :
         m.engine = IF cmd[c].op = "up" THEN "docker" ELSE EngineTypes[cmd[c].engine]

\* `down ID` lists at most one process, the one with the ID.
HasItsId(c) ==
    cmd[c].op = "id" =>
        /\ cmd[c].pc # "ended" => \A m \in cmd[c].owed : HasId(m, cmd[c].id)
        /\ \A m, l \in cmd[c].todo : m.engine # "docker" => cmd[c].id = <<"pid", m.key>> /\ l = m

\* A mock the command still has to see to: of an engine to come, or of this one and
\* not yet listed, or on the list.
Pending(c, m) ==
    /\ cmd[c].pc # "ended"
    /\ \/ Rank(m.engine) > cmd[c].engine
       \/ Rank(m.engine) = cmd[c].engine /\ (cmd[c].pc = "scan" \/ m \in cmd[c].todo)

\* The commands that promise something of every mock in their ledger.
Answers(c) ==
    \/ cmd[c].op \in {"all", "id"}
    \/ cmd[c].op = "ls" /\ IF cmd[c].pc = "ended" THEN cmd[c].exitZero ELSE ~cmd[c].anyFailed

\* A mock in the ledger that lives is still to be seen to.
Owes(c) == Answers(c) => \A m \in cmd[c].owed : Alive(m) => Pending(c, m)

\* An `up` has its duplicates on the list, or has removed them.
Clears(c) ==
    cmd[c].op = "up" /\ cmd[c].pc = "stop" =>
        \A m \in cmd[c].owed :
            m.engine = "docker" /\ (m \in cmd[c].todo \/ containers[m.key].state = "removed")

\* The invariant.
CommandOK(c) == Shaped(c) /\ KnowsItems(c) /\ HasItsId(c) /\ Owes(c) /\ Clears(c)

ManagedInv == World /\ cmd \in [MockClis -> Commands] /\ \A c \in MockClis : CommandOK(c)
-----------------------------------------------------------------------------
USE ProgramsAssumption, NobodyAssumption, StartedAssumption

\* allEngineTypes lists the three engines in the order of Rank.
LEMMA EngineFacts ==
    /\ Len(EngineTypes) = 3
    /\ EngineTypes[1] = "docker" /\ EngineTypes[2] = "jvm" /\ EngineTypes[3] = "native"
    /\ \A i \in 1..3 : EngineTypes[i] \in Engines /\ Rank(EngineTypes[i]) = i
    /\ \A e \in Engines : Rank(e) \in 1..3 /\ EngineTypes[Rank(e)] = e
  BY DEF EngineTypes, Engines, Rank

\* A running mock is known, started and ours; and what is known and alive is a
\* running mock.
LEMMA RunningFacts ==
  ASSUME World
  PROVE  /\ \A m \in RunningMocks :
                Known(m) /\ Started(m) /\ Ours(m) /\ Alive(m) /\ m.engine \in Engines
         /\ \A m : Known(m) /\ Alive(m) => m \in RunningMocks
<1>1. ASSUME NEW m \in RunningMocks
      PROVE  Known(m) /\ Started(m) /\ Ours(m) /\ Alive(m) /\ m.engine \in Engines
  <2>1. CASE \E n \in DOMAIN containers :
               /\ m = ContainerItem(n)
               /\ containers[n].state = "running"
               /\ containers[n].managed
    BY <2>1 DEF ContainerItem, Known, Started, Ours, Alive, Engines
  <2>2. ASSUME NEW p \in Pids, m = ProcessItem(p, processes[p].name),
               NEW e \in {"jvm", "native"}, LooksLike(p, e)
        PROVE  Known(m) /\ Started(m) /\ Ours(m) /\ Alive(m) /\ m.engine \in Engines
    <3>1. processes[p] # Nobody /\ processes[p].name = e
      BY <2>2 DEF LooksLike
    <3>2. processes[p].born \in 1..births
      BY <3>1 DEF World, ProcessRecords
    <3>3. /\ m = [engine |-> e, key |-> p, born |-> processes[p].born]
          /\ m.key = p /\ m.engine = e /\ m.born = processes[p].born
      BY <2>2, <3>1 DEF ProcessItem
    <3> QED
      BY <2>2, <3>2, <3>3 DEF Known, Started, Ours, Alive, Engines
  <2> QED
    BY <2>1, <2>2 DEF RunningMocks
<1>2. ASSUME NEW m, Known(m), Alive(m)
      PROVE  m \in RunningMocks
  <2>1. CASE m.engine = "docker"
    <3>1. m.key \in DOMAIN containers /\ m = ContainerItem(m.key)
      BY <1>2, <2>1 DEF Known, ContainerItem
    <3> QED
      BY <1>2, <2>1, <3>1 DEF Alive, RunningMocks
  <2>2. CASE m.engine # "docker"
    <3>1. /\ m.key \in Pids /\ m.engine \in {"jvm", "native"}
          /\ m = [engine |-> m.engine, key |-> m.key, born |-> m.born]
      BY <1>2, <2>2 DEF Known
    <3>2. processes[m.key].born = m.born /\ LooksLike(m.key, m.engine)
      BY <1>2, <2>2 DEF Alive
    <3>3. m = ProcessItem(m.key, processes[m.key].name)
      BY <3>1, <3>2 DEF ProcessItem, LooksLike
    <3> QED
      BY <3>1, <3>2, <3>3 DEF RunningMocks
  <2> QED
    BY <2>1, <2>2
<1> QED
  BY <1>1, <1>2

\* A mock that is not taken for one is known all the same.
LEMMA OverlookedFacts ==
  ASSUME World
  PROVE  \A m \in Overlooked : Known(m) /\ Started(m) /\ m.engine \in Engines
<1> SUFFICES ASSUME NEW p \in Pids, processes[p] # Nobody, processes[p].kind # "other"
             PROVE  LET m == ProcessItem(p, processes[p].kind)
                    IN  Known(m) /\ Started(m) /\ m.engine \in Engines
  BY DEF Overlooked
<1>1. processes[p].kind \in {"jvm", "native"} /\ processes[p].born \in 1..births
  BY DEF World, ProcessRecords, ProgramKinds
<1> QED
  BY <1>1 DEF ProcessItem, Known, Started, Engines

\* What an engine lists are mocks of it, all those alive, and no two under one
\* number.
LEMMA ItemsFacts ==
  ASSUME World, NEW e \in Engines
  PROVE  /\ \A m \in ItemsOf(e) : Known(m) /\ Started(m) /\ Ours(m) /\ m.engine = e
         /\ \A m : Known(m) /\ Alive(m) /\ m.engine = e => m \in ItemsOf(e)
         /\ \A l, m \in ItemsOf(e) : l.key = m.key => l = m
<1>1. CASE e = "docker"
  <2>1. ItemsOf(e) = {ContainerItem(n) : n \in ManagedContainers}
    BY <1>1 DEF ItemsOf
  <2>2. \A n \in ManagedContainers : LET m == ContainerItem(n) IN
          Known(m) /\ Started(m) /\ Ours(m) /\ m.engine = e /\ m.key = n
    BY <1>1 DEF ManagedContainers, ContainerItem, Known, Started, Ours
  <2>3. ASSUME NEW m, Known(m), Alive(m), m.engine = e
        PROVE  m.key \in ManagedContainers /\ m = ContainerItem(m.key)
    BY <1>1, <2>3 DEF ManagedContainers, ContainerItem, Known, Alive
  <2> QED
    BY <2>1, <2>2, <2>3
<1>2. CASE e # "docker"
  <2>1. ItemsOf(e) = {ProcessItem(p, e) : p \in Matching(e)}
    BY <1>2 DEF ItemsOf
  <2>2. ASSUME NEW p \in Matching(e)
        PROVE  LET m == ProcessItem(p, e) IN
               Known(m) /\ Started(m) /\ Ours(m) /\ m.engine = e /\ m.key = p
    <3>1. p \in Pids /\ LooksLike(p, e) /\ processes[p] # Nobody
      BY DEF Matching, LooksLike
    <3>2. processes[p] \in ProcessRecords /\ processes[p].born \in 1..births
      BY <3>1 DEF World, ProcessRecords
    <3> QED
      BY <3>1, <3>2, <1>2 DEF ProcessItem, Known, Started, Ours, Engines
  <2>3. ASSUME NEW m, Known(m), Alive(m), m.engine = e
        PROVE  m.key \in Matching(e) /\ m = ProcessItem(m.key, e)
    <3>1. /\ m.key \in Pids
          /\ m = [engine |-> e, key |-> m.key, born |-> m.born]
      BY <2>3, <1>2 DEF Known
    <3>2. processes[m.key].born = m.born /\ LooksLike(m.key, e)
      BY <2>3, <1>2, <3>1 DEF Alive
    <3> QED
      BY <3>1, <3>2 DEF Matching, ProcessItem
  <2> QED
    BY <2>1, <2>2, <2>3
<1> QED
  BY <1>1, <1>2

\* What a step may do to containers and processes, whoever makes it.
Evolves ==
    /\ births' \in Nat /\ births <= births'
    /\ \A n \in DOMAIN containers :
         /\ n \in DOMAIN containers'
         /\ containers[n].managed => containers'[n].managed \/ containers'[n].state = "removed"
         /\ containers'[n].managed => containers[n].managed
         /\ containers'[n].state = "running" => containers[n].state \in {"created", "running"}
         /\ containers'[n].state = "created" => containers[n].state = "created"
         /\ containers[n].state = "removed" => containers'[n].state = "removed"
    /\ \A p \in Pids : processes'[p] # Nobody =>
         processes'[p] = processes[p] \/ processes'[p].born > births

\* What was known of an item stays true, and the dead stay dead.
LEMMA ItemStable ==
  ASSUME World, Evolves, NEW m, Known(m)
  PROVE  /\ Known(m)'
         /\ Started(m) => Started(m)'
         /\ Ours(m) => Ours(m)'
         /\ Started(m) /\ Alive(m)' => Alive(m)
<1>1. CASE m.engine = "docker"
  <2>1. /\ m.key \in DOMAIN containers /\ m.key \in DOMAIN containers'
        /\ m = [engine |-> "docker", key |-> m.key, born |-> 0]
    BY <1>1 DEF Known, Evolves
  <2> QED
    BY <1>1, <2>1 DEF Known, Started, Ours, Alive, Evolves
<1>2. CASE m.engine # "docker"
  <2>1. /\ m.key \in Pids
        /\ m.born \in 1..births
        /\ m.born \in 1..births'
        /\ m.engine \in {"jvm", "native"}
        /\ m = [engine |-> m.engine, key |-> m.key, born |-> m.born]
    BY <1>2 DEF Known, Evolves, World
  <2>2. Known(m)' /\ (Started(m) => Started(m)')
    BY <1>2, <2>1 DEF Known, Started
  <2>3. processes'[m.key] # Nobody /\ processes'[m.key].born = m.born =>
            processes'[m.key] = processes[m.key]
    BY <2>1 DEF Evolves, World
  <2> QED
    BY <1>2, <2>1, <2>2, <2>3 DEF Ours, Alive, LooksLike
<1> QED
  BY <1>1, <1>2

\* The facts about a command that does not move stay true.
LEMMA Unmoved ==
  ASSUME World, Evolves, NEW c \in MockClis, CommandOK(c), cmd'[c] = cmd[c]
  PROVE  CommandOK(c)'
<1>1. Shaped(c)'
  BY DEF CommandOK, Shaped
<1>2. KnowsItems(c)'
  BY ItemStable DEF CommandOK, KnowsItems
<1>3. HasItsId(c)'
  BY DEF CommandOK, HasItsId, HasId
<1>4. Owes(c)'
  <2>1. Answers(c)' = Answers(c) /\ \A m : Pending(c, m)' = Pending(c, m)
    BY DEF Answers, Pending
  <2>2. \A m \in cmd[c].owed : Alive(m)' => Alive(m)
    BY ItemStable DEF CommandOK, KnowsItems
  <2> QED
    BY <2>1, <2>2 DEF Owes, CommandOK
<1>5. Clears(c)'
  <2>1. \A m \in cmd[c].owed : m.engine = "docker" => m.key \in DOMAIN containers
    BY DEF CommandOK, KnowsItems, Known
  <2> QED
    BY <2>1 DEF CommandOK, Clears, Evolves
<1> QED
  BY <1>1, <1>2, <1>3, <1>4, <1>5 DEF CommandOK

\* What stands for something is an item.
LEMMA KnownItems == ASSUME World PROVE \A m : Known(m) => m \in Items
  BY DEF World, Known, Items, Engines

\* No command is running.
LEMMA NoCommandType ==
    /\ NoCommand \in Commands
    /\ NoCommand.op = "none"
    /\ NoCommand.pc = "idle"
    /\ NoCommand.engine = 1
    /\ NoCommand.todo = {}
    /\ NoCommand.owed = {}
    /\ NoCommand.id = Nobody
    /\ ~NoCommand.exitZero
    /\ ~NoCommand.anyFailed
<1> DEFINE no == FALSE
<1>1. no \in BOOLEAN /\ ~no
  OBVIOUS
<1>2. NoCommand = [op |-> "none", pc |-> "idle", engine |-> 1, todo |-> {}, id |-> Nobody,
          options |-> Nobody,
              anyFailed |-> no, any |-> no, anyHealthy |-> no, own |-> 0, exitZero |-> no, owed |-> {}]
  BY Zenon DEF NoCommand
<1> HIDE DEF no
<1> QED
  BY <1>1, <1>2 DEF Commands

\* A command changes, the others do not.
Moves(c) == cmd' \in [MockClis -> Commands] /\ \A d \in MockClis : d # c => cmd'[d] = cmd[d]

\* Upd changes one command's record.
LEMMA UpdMoves ==
  ASSUME cmd \in [MockClis -> Commands], NEW c \in MockClis, NEW STATE r, r \in Commands, Upd(c, r)
  PROVE  Moves(c) /\ cmd'[c] = r
  BY DEF Upd, Moves

\* A command that ends keeps its ledger but for what it excuses, and has no list.
LEMMA FinishMoves ==
  ASSUME cmd \in [MockClis -> Commands], NEW c \in MockClis, NEW STATE excused, Finish(c, excused)
  PROVE  /\ Moves(c)
         /\ cmd'[c].op = cmd[c].op
         /\ cmd'[c].pc = "ended"
         /\ cmd'[c].todo = {}
         /\ ~cmd'[c].exitZero
         /\ cmd'[c].owed = cmd[c].owed \ excused
<1> DEFINE r == [NoCommand EXCEPT !.op = cmd[c].op, !.pc = "ended", !.owed = cmd[c].owed \ excused]
<1>1. cmd[c] \in Commands
  OBVIOUS
<1>2. /\ cmd[c].op \in {"none", "all", "id", "ls", "up"}
      /\ cmd[c].owed \ excused \in SUBSET Items
  BY <1>1 DEF Commands
<1>3. r \in Commands
  BY <1>2, NoCommandType DEF Commands
<1>4. /\ r.op = cmd[c].op /\ r.pc = "ended" /\ r.todo = {} /\ r.owed = cmd[c].owed \ excused
      /\ r.exitZero = NoCommand.exitZero
  BY NoCommandType DEF Commands
<1>5. Upd(c, r)
  BY DEF Finish
<1>6. Moves(c) /\ cmd'[c] = r
  BY <1>3, <1>5, UpdMoves
<1> QED
  BY <1>4, <1>6, NoCommandType

\* A command goes on to the next engine, or ends after the last.
LEMMA AdvanceMoves ==
  ASSUME cmd \in [MockClis -> Commands], NEW c \in MockClis, NEW STATE r, r \in Commands, Advance(c, r)
  PROVE  /\ Moves(c)
         /\ cmd'[c].op = r.op /\ cmd'[c].owed = r.owed
         /\ r.engine < 3 => /\ cmd'[c].pc = "scan" /\ cmd'[c].engine = r.engine + 1
                            /\ cmd'[c].todo = r.todo /\ cmd'[c].id = r.id
                            /\ cmd'[c].anyFailed = r.anyFailed
                            /\ cmd'[c].exitZero = r.exitZero
         /\ r.engine = 3 => /\ cmd'[c].pc = "ended" /\ cmd'[c].todo = {}
                            /\ cmd'[c].exitZero => r.op = "ls" /\ r.any /\ ~r.anyFailed
<1>1. CASE r.engine < 3
  <2> DEFINE s == [r EXCEPT !.pc = "scan", !.engine = r.engine + 1]
  <2>1. r.engine + 1 \in 1..3
    BY <1>1 DEF Commands
  <2>2. s \in Commands
    BY <2>1 DEF Commands
  <2>3. /\ s.op = r.op /\ s.owed = r.owed /\ s.pc = "scan" /\ s.engine = r.engine + 1
        /\ s.todo = r.todo
        /\ s.id = r.id
        /\ s.anyFailed = r.anyFailed
        /\ s.exitZero = r.exitZero
    BY DEF Commands
  <2>4. Upd(c, s)
    BY <1>1, EngineFacts DEF Advance
  <2>5. Moves(c) /\ cmd'[c] = s
    BY <2>2, <2>4, UpdMoves
  <2> QED
    BY <1>1, <2>3, <2>5
<1>2. CASE r.engine = 3
  <2> DEFINE z == r.op = "ls" /\ r.any /\ ~r.anyFailed
             s == [NoCommand EXCEPT !.op = r.op, !.pc = "ended", !.owed = r.owed,
                     !.anyHealthy = r.anyHealthy, !.exitZero = z]
  <2>1. Upd(c, s)
    <3>1. ~(r.engine < Len(EngineTypes))
      BY <1>2, EngineFacts
    <3> QED
      BY <3>1, Zenon DEF Advance
  <2>2. z \in BOOLEAN /\ (z => r.op = "ls" /\ r.any /\ ~r.anyFailed)
    BY Zenon
  <2> HIDE DEF z
  <2>3. s \in Commands
    <3>1. /\ r.op \in {"none", "all", "id", "ls", "up"} /\ r.owed \in SUBSET Items
          /\ r.anyHealthy \in BOOLEAN
      BY DEF Commands
    <3> QED
      BY <2>2, <3>1, NoCommandType, ZenonT(60) DEF Commands
  <2>4. s.op = r.op /\ s.pc = "ended" /\ s.todo = {} /\ s.owed = r.owed /\ s.exitZero = z
    BY NoCommandType DEF Commands
  <2>5. Moves(c) /\ cmd'[c] = s
    BY <2>1, <2>3, UpdMoves
  <2> QED
    BY <1>2, <2>2, <2>4, <2>5
<1> QED
  BY <1>1, <1>2 DEF Commands

\* A step that leaves containers and processes alone evolves them.
LEMMA Still ==
  ASSUME World, UNCHANGED <<containers, processes, births>>
  PROVE  World' /\ Evolves
  BY DEF World, Evolves

\* Killing what an item stands for is a way to evolve; nothing else happens to it.
LEMMA KillSafe ==
  ASSUME World, NEW item, Known(item), Kill(item), UNCHANGED births
  PROVE  /\ World' /\ Evolves
         /\ item.engine = "docker" => containers'[item.key].state = "removed"
         /\ item.engine # "docker" => processes'[item.key] = Nobody
         /\ ~Alive(item)'
<1>1. CASE item.engine = "docker"
  <2>1. /\ item.key \in DOMAIN containers /\ UNCHANGED processes
        /\ containers' = [containers EXCEPT ![item.key] = Removed]
    BY <1>1 DEF Known, Kill
  <2>2. /\ Removed.state = "removed" /\ Removed.managed = FALSE /\ Removed.saw = {}
        /\ Removed \in ContainerRecords
    BY DEF Removed, ContainerRecords
  <2>3. Evolves
    BY <2>1, <2>2 DEF World, Evolves
  <2>4. World'
    BY <2>1, <2>2 DEF World
  <2> QED
    BY <1>1, <2>1, <2>2, <2>3, <2>4 DEF Alive
<1>2. CASE item.engine # "docker"
  <2>1. /\ item.key \in Pids /\ UNCHANGED containers
        /\ processes' = [processes EXCEPT ![item.key] = Nobody]
    BY <1>2 DEF Known, Kill
  <2> QED
    BY <1>2, <2>1 DEF World, Evolves, Alive, LooksLike
<1> QED
  BY <1>1, <1>2

\* What a command knows of its items it knows after the step.
LEMMA Carried ==
  ASSUME World, Evolves, NEW c \in MockClis, KnowsItems(c)
  PROVE  /\ \A m \in cmd[c].owed : Known(m) /\ Known(m)' /\ Started(m)' /\ (Alive(m)' => Alive(m))
         /\ \A m \in cmd[c].todo : Known(m) /\ Known(m)' /\ Ours(m)'
  BY ItemStable DEF KnowsItems

\* What each of the following lemmas shows of a step of command c.
Kept(c) == World' /\ Evolves /\ Moves(c) /\ CommandOK(c)'

\* The commands begin with what runs then, or with nothing.
LEMMA BeginsKept ==
  ASSUME ManagedInv, NEW c \in MockClis, DownAll(c) \/ DownId(c) \/ Ls(c) \/ Up(c) \/ CommandEnds(c)
  PROVE  Kept(c)
<1> USE DEF ManagedInv
<1>1. /\ UNCHANGED <<containers, processes, births>> /\ World' /\ Evolves
  BY Still DEF DownAll, DownId, Ls, Up, CommandEnds, Begin
<1> DEFINE there == RunningMocks \cup Overlooked
<1>2. there \in SUBSET Items /\ \A m \in there :
          m \in Items /\ Known(m)' /\ Started(m)' /\ m.engine \in Engines
  BY <1>1, RunningFacts, OverlookedFacts, KnownItems, ItemStable
<1>3. ASSUME NEW op \in {"all", "ls"}, NEW mocks \in SUBSET there,
             Upd(c, [NoCommand EXCEPT !.op = op, !.pc = "scan", !.owed = mocks])
      PROVE  Moves(c) /\ CommandOK(c)'
  <2> HIDE DEF there
  <2> DEFINE r == [NoCommand EXCEPT !.op = op, !.pc = "scan", !.owed = mocks]
  <2>1. /\ r \in Commands
        /\ r.op = op
        /\ r.pc = "scan"
        /\ r.owed = mocks
        /\ r.todo = {}
        /\ r.engine = 1 /\ ~r.exitZero
    BY <1>2, NoCommandType DEF Commands
  <2>2. Moves(c) /\ cmd'[c] = r
    BY <1>3, <2>1, UpdMoves
  <2> HIDE DEF r
  <2>3. Owes(c)'
    <3>1. \A m \in mocks : Rank(m.engine) \in 1..3
      BY <1>2, EngineFacts
    <3> QED
      BY <2>1, <2>2, <3>1 DEF Owes, Pending
  <2>4. Shaped(c)'
    BY <2>1, <2>2 DEF Shaped
  <2>5. KnowsItems(c)'
    BY <2>1, <2>2, <1>2 DEF KnowsItems
  <2>6. HasItsId(c)' /\ Clears(c)'
    BY <2>1, <2>2 DEF HasItsId, Clears
  <2> QED
    BY <2>2, <2>3, <2>4, <2>5, <2>6 DEF CommandOK
<1>4. CASE DownId(c)
  <2>1. PICK id \in Ids : Upd(c, [NoCommand EXCEPT !.op = "id", !.pc = "scan", !.id = id,
                !.owed = {m \in RunningMocks : HasId(m, id)}])
    BY <1>4 DEF DownId, Begin
  <2> DEFINE own == {m \in RunningMocks : HasId(m, id)}
             r == [NoCommand EXCEPT !.op = "id", !.pc = "scan", !.id = id, !.owed = own]
  <2>2. own \in SUBSET Items /\ own \subseteq RunningMocks /\ \A m \in own : HasId(m, id)
    BY <1>2
  <2> HIDE DEF own
  <2>3. /\ r \in Commands /\ r.op = "id" /\ r.pc = "scan" /\ r.owed = own /\ r.todo = {}
        /\ r.engine = 1 /\ ~r.exitZero /\ r.id = id
    BY <2>2, NoCommandType DEF Commands
  <2>4. Moves(c) /\ cmd'[c] = r
    BY <2>1, <2>3, UpdMoves DEF own
  <2> HIDE DEF r
  <2>5. Owes(c)'
    <3>1. \A m \in own : Rank(m.engine) \in 1..3
      BY <1>2, <2>2, EngineFacts
    <3> QED
      BY <2>3, <2>4, <3>1 DEF Owes, Pending
  <2>6. Shaped(c)'
    BY <2>3, <2>4 DEF Shaped
  <2>7. KnowsItems(c)'
    BY <2>2, <2>3, <2>4, <1>2 DEF KnowsItems
  <2>8. HasItsId(c)'
    BY <2>2, <2>3, <2>4 DEF HasItsId, HasId
  <2>9. Clears(c)'
    BY <2>3, <2>4 DEF Clears
  <2> QED
    BY <1>1, <2>4, <2>5, <2>6, <2>7, <2>8, <2>9 DEF CommandOK, Kept
<1>5. ASSUME NEW r \in Commands, r.op \in {"none", "up"}, r.pc \in {"idle", "dedupe"},
             r.pc = "dedupe" => r.op = "up",
             r.todo = {}, r.owed = {}, ~r.exitZero, cmd'[c] = r,
             r.pc = "dedupe" => r.options \in MockOptions
      PROVE  CommandOK(c)'
  BY <1>5 DEF CommandOK, Shaped, KnowsItems, HasItsId, Owes, Clears, Answers
<1>6. CASE Up(c)
  <2>1. PICK o \in MockOptions : Upd(c, [NoCommand EXCEPT !.op = "up", !.pc = "dedupe", !.options = o])
    BY <1>6 DEF Up, Begin
  <2> DEFINE r == [NoCommand EXCEPT !.op = "up", !.pc = "dedupe", !.options = o]
  <2>2. /\ r \in Commands
        /\ r.op = "up"
        /\ r.pc = "dedupe"
        /\ r.owed = {}
        /\ r.todo = {}
        /\ ~r.exitZero
        /\ r.options = o
    BY NoCommandType DEF Commands
  <2>3. Moves(c) /\ cmd'[c] = r
    BY <2>1, <2>2, UpdMoves
  <2>4. PICK s \in Commands : s = r /\ cmd'[c] = s
    BY <2>2, <2>3
  <2>5. CommandOK(c)'
    BY <1>5, <2>2, <2>4
  <2> QED
    BY <1>1, <2>3, <2>5 DEF Kept
<1>7. CASE CommandEnds(c)
  <2>1. Moves(c) /\ cmd'[c] = NoCommand
    BY <1>7, NoCommandType, UpdMoves DEF CommandEnds
  <2>2. CommandOK(c)'
    BY <2>1, <1>5, NoCommandType
  <2> QED
    BY <1>1, <2>1, <2>2 DEF Kept
<1>8. CASE DownAll(c)
  BY <1>8, <1>1, <1>3 DEF DownAll, Begin, Kept
<1>9. CASE Ls(c)
  BY <1>9, <1>1, <1>3 DEF Ls, Begin, Kept
<1> QED
  BY <1>4, <1>6, <1>7, <1>8, <1>9

\* A command that ends and answers for its ledger has nothing alive in it.
LEMMA EndedOK ==
  ASSUME World, Evolves, World', NEW c \in MockClis, Moves(c), KnowsItems(c), cmd'[c].pc = "ended",
         cmd'[c].op = cmd[c].op, cmd'[c].todo = {}, cmd'[c].owed \subseteq cmd[c].owed,
         cmd'[c].exitZero => cmd[c].op = "ls",
         Answers(c)' => \A m \in cmd'[c].owed : ~Alive(m)'
  PROVE  CommandOK(c)'
<1>1. Shaped(c)'
  BY DEF Shaped
<1>2. KnowsItems(c)'
  BY Carried DEF KnowsItems
<1>3. HasItsId(c)' /\ Clears(c)'
  BY DEF HasItsId, Clears
<1>4. Owes(c)'
  BY DEF Owes
<1> QED
  BY <1>1, <1>2, <1>3, <1>4 DEF CommandOK

\* A command that goes on to the next engine has seen to this one.
LEMMA AdvanceOK ==
  ASSUME World, World', Evolves, cmd \in [MockClis -> Commands], NEW c \in MockClis, CommandOK(c),
         cmd[c].op \in {"all", "id", "ls"}, cmd[c].pc # "ended",
         NEW STATE r, r \in Commands, Advance(c, r), r.op = cmd[c].op, r.engine = cmd[c].engine,
         r.todo = {},
         r.owed \subseteq cmd[c].owed, r.id = cmd[c].id, r.anyFailed = cmd[c].anyFailed, ~r.exitZero,
         Answers(c) => \A m \in r.owed : Alive(m)' => Rank(m.engine) > cmd[c].engine
  PROVE  Moves(c) /\ CommandOK(c)'
<1> USE AdvanceMoves
<1>1. Moves(c) /\ KnowsItems(c)
  BY DEF CommandOK
<1>2. CASE r.engine < 3
  <2>1. /\ cmd'[c].op = cmd[c].op /\ cmd'[c].owed = r.owed /\ cmd'[c].pc = "scan"
        /\ cmd'[c].engine = cmd[c].engine + 1 /\ cmd'[c].todo = {} /\ cmd'[c].id = cmd[c].id
        /\ cmd'[c].anyFailed = cmd[c].anyFailed /\ ~cmd'[c].exitZero
    BY <1>2
  <2> USE <2>1
  <2>2. Shaped(c)'
    BY DEF Shaped
  <2>3. KnowsItems(c)'
    BY <1>1, Carried DEF KnowsItems
  <2>4. HasItsId(c)'
    BY DEF HasItsId, CommandOK, HasId
  <2>5. Clears(c)'
    BY DEF Clears
  <2>6. Owes(c)'
    <3>1. Answers(c)' => Answers(c)
      BY DEF Answers
    <3>2. \A m \in cmd[c].owed : Rank(m.engine) \in 1..3
      BY <1>1, EngineFacts DEF KnowsItems, Known, Engines
    <3>3. cmd[c].engine \in 1..3
      BY DEF Commands
    <3> QED
      BY <3>1, <3>2, <3>3 DEF Owes, Pending
  <2> QED
    BY <1>1, <2>2, <2>3, <2>4, <2>5, <2>6 DEF CommandOK
<1>3. CASE r.engine = 3
  <2>1. /\ cmd'[c].op = cmd[c].op
        /\ cmd'[c].owed = r.owed
        /\ cmd'[c].pc = "ended"
        /\ cmd'[c].todo = {}
        /\ cmd'[c].exitZero => ~cmd[c].anyFailed /\ cmd[c].op = "ls"
    BY <1>3
  <2>2. Answers(c)' => Answers(c)
    BY <2>1 DEF Answers
  <2>3. \A m \in cmd[c].owed : Rank(m.engine) \in 1..3
    BY <1>1, EngineFacts DEF KnowsItems, Known, Engines
  <2>4. Answers(c)' => \A m \in cmd'[c].owed : ~Alive(m)'
    BY <1>3, <2>1, <2>2, <2>3
  <2> QED
    BY <1>1, <2>1, <2>4, EndedOK
<1> QED
  BY <1>2, <1>3 DEF Commands

\* What the facts about a command say of the engine it is at.
LEMMA NowFacts ==
  ASSUME cmd \in [MockClis -> Commands], NEW c \in MockClis, CommandOK(c)
  PROVE  /\ cmd[c] \in Commands /\ cmd[c].engine \in 1..3 /\ Now(c) \in Engines
         /\ Rank(Now(c)) = cmd[c].engine
         /\ \A m \in cmd[c].owed : m.engine \in Engines /\ Rank(m.engine) \in 1..3
         /\ \A m \in cmd[c].owed : Rank(m.engine) = cmd[c].engine => m.engine = Now(c)
         /\ \A m \in cmd[c].todo : cmd[c].op # "up" => m.engine = Now(c)
         /\ cmd[c].owed \in SUBSET Items /\ cmd[c].todo \in SUBSET Items
<1>1. cmd[c] \in Commands
  OBVIOUS
<1>2. cmd[c].engine \in 1..3 /\ cmd[c].owed \in SUBSET Items /\ cmd[c].todo \in SUBSET Items
  BY <1>1 DEF Commands
<1>3. Now(c) \in Engines /\ Rank(Now(c)) = cmd[c].engine
  BY <1>2, EngineFacts DEF Now
<1>4. \A m \in cmd[c].owed : m.engine \in Engines /\ Rank(m.engine) \in 1..3
  BY EngineFacts DEF CommandOK, KnowsItems, Known, Engines
<1>5. \A m \in cmd[c].owed : Rank(m.engine) = cmd[c].engine => m.engine = Now(c)
  BY <1>3, <1>4, EngineFacts DEF Now
<1>6. \A m \in cmd[c].todo : cmd[c].op # "up" => m.engine = Now(c)
  BY DEF CommandOK, KnowsItems, Now
<1> QED
  BY <1>1, <1>2, <1>3, <1>4, <1>5, <1>6

\* An engine that cannot be asked: its mocks are excused.
LEMMA EngineFailsKept ==
  ASSUME ManagedInv, NEW c \in MockClis, EngineFails(c)
  PROVE  Kept(c)
<1> USE DEF ManagedInv
<1> DEFINE r == [cmd[c] EXCEPT !.owed = cmd[c].owed \ OfEngine(Now(c))]
<1>1. World' /\ Evolves /\ World
  BY Still DEF EngineFails
<1>2. /\ CommandOK(c)
      /\ cmd[c].pc = "scan"
      /\ cmd[c].op \in {"all", "id", "ls"}
      /\ cmd[c].todo = {}
      /\ ~cmd[c].exitZero
  BY DEF EngineFails, InStage, CommandOK, Shaped
<1>3. /\ r \in Commands
      /\ r.op = cmd[c].op
      /\ r.engine = cmd[c].engine
      /\ r.todo = {}
      /\ r.id = cmd[c].id
      /\ r.owed = cmd[c].owed \ OfEngine(Now(c)) /\ r.anyFailed = cmd[c].anyFailed
      /\ r.exitZero = cmd[c].exitZero
  BY <1>2, NowFacts DEF Commands
<1>4. Advance(c, r)
  BY DEF EngineFails
<1>5. ASSUME Answers(c), NEW m \in r.owed, Alive(m)'
      PROVE  Rank(m.engine) > cmd[c].engine
  <2>1. m \in cmd[c].owed /\ Known(m) /\ Alive(m)
    BY <1>1, <1>2, <1>3, <1>5, Carried DEF CommandOK
  <2>2. m \in RunningMocks
    BY <2>1, <1>1, RunningFacts
  <2>3. m.engine # Now(c)
    BY <2>2, <1>3, <1>5 DEF OfEngine
  <2> QED
    BY <1>2, <1>5, <2>1, <2>3, NowFacts DEF CommandOK, Owes, Pending
<1>6. Moves(c) /\ CommandOK(c)'
  BY ONLY <1>1, <1>2, <1>3, <1>4, <1>5, AdvanceOK, ManagedInv, c \in MockClis DEF ManagedInv
<1> QED
  BY <1>1, <1>6 DEF Kept

\* EngineDone and EngineListed: the engine's mocks are seen to.
LEMMA SeenTo ==
  ASSUME ManagedInv, NEW c \in MockClis, EngineDone(c) \/ EngineListed(c)
  PROVE  Kept(c)
<1> USE DEF ManagedInv
<1>1. World' /\ Evolves /\ World /\ Advance(c, cmd[c])
  BY Still DEF EngineDone, EngineListed
<1>2. /\ CommandOK(c)
      /\ cmd[c].pc \in {"stop", "check"}
      /\ cmd[c].op \in {"all", "ls"}
      /\ cmd[c].todo = {}
      /\ ~cmd[c].exitZero /\ cmd[c] \in Commands
  BY DEF EngineDone, EngineListed, InStage, CommandOK, Shaped
<1>3. ASSUME Answers(c), NEW m \in cmd[c].owed, Alive(m)'
      PROVE  Rank(m.engine) > cmd[c].engine
  BY <1>1, <1>2, <1>3, Carried DEF CommandOK, Owes, Pending
<1>4. Moves(c) /\ CommandOK(c)'
  BY <1>1, <1>2, <1>3, AdvanceOK
<1> QED
  BY <1>1, <1>4 DEF Kept

\* A command that takes up what runs of its engine has all of it on the list.
LEMMA ListedOK ==
  ASSUME World, World', UNCHANGED <<containers, processes, births>>, Evolves,
         cmd \in [MockClis -> Commands], NEW c \in MockClis, CommandOK(c),
         cmd[c].op \in {"all", "id", "ls"}, cmd[c].pc = "scan",
         NEW pc \in {"stop", "check"}, pc = IF cmd[c].op = "ls" THEN "check" ELSE "stop",
         NEW STATE r, r \in Commands, Upd(c, r), r.op = cmd[c].op, r.engine = cmd[c].engine, r.pc = pc,
         r.owed = cmd[c].owed, r.id = cmd[c].id, r.anyFailed = cmd[c].anyFailed,
         r.exitZero = cmd[c].exitZero,
         \A m \in r.todo : Known(m) /\ Ours(m) /\ m.engine = Now(c),
         Answers(c) => \A m \in cmd[c].owed : Alive(m) /\ m.engine = Now(c) => m \in r.todo,
         cmd[c].op = "id" => \A l, m \in r.todo : m.engine # "docker" => cmd[c].id = <<"pid",
             m.key>> /\ l = m
  PROVE  Moves(c) /\ CommandOK(c)'
<1>1. Moves(c) /\ cmd'[c] = r
  BY UpdMoves
<1>2. Shaped(c)'
  BY <1>1 DEF Shaped, CommandOK
<1>3. KnowsItems(c)'
  <2>1. \A m \in r.todo : Known(m)' /\ Ours(m)'
    BY ItemStable
  <2>2. \A m \in r.owed : Known(m)' /\ Started(m)'
    BY Carried DEF CommandOK
  <2> QED
    BY <1>1, <2>1, <2>2 DEF KnowsItems, Now
<1>4. HasItsId(c)'
  BY <1>1 DEF HasItsId, HasId, CommandOK
<1>5. Clears(c)'
  BY <1>1 DEF Clears
<1>6. Owes(c)'
  <2>1. Answers(c)' => Answers(c)
    BY <1>1 DEF Answers
  <2>2. \A m \in cmd[c].owed : Alive(m)' => Alive(m)
    BY Carried DEF CommandOK
  <2>3. /\ \A m \in cmd[c].owed : Rank(m.engine) = cmd[c].engine => m.engine = Now(c)
    BY NowFacts
  <2> QED
    BY <1>1, <2>1, <2>2, <2>3 DEF Owes, Pending, CommandOK
<1> QED
  BY <1>1, <1>2, <1>3, <1>4, <1>5, <1>6 DEF CommandOK

\* `down --all` lists an engine.
LEMMA StopAllManagedKept ==
  ASSUME ManagedInv, NEW c \in MockClis, StopAllManaged(c)
  PROVE  Kept(c)
<1> USE DEF ManagedInv
<1> DEFINE r == [cmd[c] EXCEPT !.pc = "stop", !.todo = ItemsOf(Now(c))]
<1>1. World' /\ Evolves /\ World /\ UNCHANGED <<containers, processes, births>>
  BY Still DEF StopAllManaged
<1>2. CommandOK(c) /\ cmd[c].pc = "scan" /\ cmd[c].op = "all" /\ Upd(c, r)
  BY DEF StopAllManaged, InStage
<1>3. /\ \A m \in ItemsOf(Now(c)) : Known(m) /\ Ours(m) /\ m.engine = Now(c)
      /\ \A m \in cmd[c].owed : Alive(m) /\ m.engine = Now(c) => m \in ItemsOf(Now(c))
  BY <1>1, <1>2, NowFacts, ItemsFacts DEF CommandOK, KnowsItems
<1>4. ItemsOf(Now(c)) \in SUBSET Items
  BY <1>1, <1>3, KnownItems
<1>5. /\ r \in Commands
      /\ r.op = cmd[c].op
      /\ r.engine = cmd[c].engine
      /\ r.todo = ItemsOf(Now(c))
      /\ r.id = cmd[c].id
      /\ r.owed = cmd[c].owed
      /\ r.anyFailed = cmd[c].anyFailed
      /\ r.exitZero = cmd[c].exitZero
      /\ r.pc = "stop"
  BY <1>2, <1>4, NowFacts, ZenonT(60) DEF Commands
<1>6. Moves(c) /\ CommandOK(c)'
  <2> HIDE DEF r
  <2> QED
    BY <1>1, <1>2, <1>3, <1>5, ListedOK
<1> QED
  BY <1>1, <1>6 DEF Kept

\* `ls -x` lists an engine.
LEMMA ListAllManagedKept ==
  ASSUME ManagedInv, NEW c \in MockClis, ListAllManaged(c)
  PROVE  Kept(c)
<1> USE DEF ManagedInv
<1> DEFINE found == ItemsOf(Now(c))
           any == cmd[c].any \/ found # {}
           r == [cmd[c] EXCEPT !.pc = "check", !.todo = found, !.any = any]
<1>1. World' /\ Evolves /\ World /\ UNCHANGED <<containers, processes, births>>
  BY Still DEF ListAllManaged
<1>2. CommandOK(c) /\ cmd[c].pc = "scan" /\ cmd[c].op = "ls"
  BY DEF ListAllManaged, InStage
<1>3. Upd(c, r)
  BY Zenon DEF ListAllManaged
<1>4. any \in BOOLEAN
  BY Zenon
<1> HIDE DEF any
<1>5. /\ \A m \in found : Known(m) /\ Ours(m) /\ m.engine = Now(c)
      /\ \A m \in cmd[c].owed : Alive(m) /\ m.engine = Now(c) => m \in found
  BY <1>1, <1>2, NowFacts, ItemsFacts DEF CommandOK, KnowsItems
<1>6. found \in SUBSET Items
  BY <1>1, <1>5, KnownItems
<1> HIDE DEF found
<1>7. /\ r \in Commands
      /\ r.op = cmd[c].op
      /\ r.engine = cmd[c].engine
      /\ r.todo = found
      /\ r.id = cmd[c].id
      /\ r.owed = cmd[c].owed
      /\ r.anyFailed = cmd[c].anyFailed
      /\ r.exitZero = cmd[c].exitZero
      /\ r.pc = "check"
  BY <1>2, <1>4, <1>6, NowFacts, ZenonT(60) DEF Commands
<1>8. Moves(c) /\ CommandOK(c)'
  <2> HIDE DEF r
  <2> QED
    BY <1>1, <1>2, <1>3, <1>5, <1>7, ListedOK
<1> QED
  BY <1>1, <1>8 DEF Kept

\* A command that has seen to one item of its list.
LEMMA OneLessOK ==
  ASSUME World, World', Evolves, cmd \in [MockClis -> Commands], NEW c \in MockClis, CommandOK(c),
         cmd[c].pc \in {"stop", "check"}, cmd[c].op # "id",
         NEW item \in cmd[c].todo,
         NEW STATE r, r \in Commands, Upd(c, r), r.op = cmd[c].op, r.engine = cmd[c].engine,
         r.pc = cmd[c].pc,
         r.todo = cmd[c].todo \ {item}, r.owed \subseteq cmd[c].owed, r.exitZero = cmd[c].exitZero,
         r.op = "ls" /\ ~r.anyFailed => ~cmd[c].anyFailed,
         item \in r.owed => ~Alive(item)' \/ (r.op = "ls" /\ r.anyFailed),
         cmd[c].op = "up" /\ item \in r.owed => containers'[item.key].state = "removed",
         r.options = cmd[c].options
  PROVE  Moves(c) /\ CommandOK(c)'
<1>1. Moves(c) /\ cmd'[c] = r
  BY UpdMoves
<1>2. Shaped(c)'
  BY <1>1 DEF Shaped, CommandOK
<1>3. KnowsItems(c)'
  <2>1. \A m \in cmd[c].todo : Known(m)' /\ Ours(m)'
    BY Carried DEF CommandOK
  <2>2. \A m \in cmd[c].owed : Known(m)' /\ Started(m)'
    BY Carried DEF CommandOK
  <2> QED
    BY <1>1, <2>1, <2>2 DEF KnowsItems, CommandOK
<1>4. HasItsId(c)'
  BY <1>1 DEF HasItsId
<1>5. Clears(c)'
  <2>1. \A m \in cmd[c].owed : m.engine = "docker" => m.key \in DOMAIN containers
    BY DEF CommandOK, KnowsItems, Known
  <2>2. SUFFICES ASSUME cmd[c].op = "up", cmd[c].pc = "stop", NEW m \in r.owed
                 PROVE  m.engine = "docker" /\ (m \in r.todo \/ containers'[m.key].state = "removed")
    BY <1>1 DEF Clears
  <2>3. m.engine = "docker" /\ (m \in cmd[c].todo \/ containers[m.key].state = "removed")
    BY <2>2 DEF CommandOK, Clears
  <2> QED
    BY <2>1, <2>2, <2>3 DEF Evolves
<1>6. Owes(c)'
  <2>1. Answers(c)' => Answers(c)
    BY <1>1 DEF Answers
  <2>2. \A m \in cmd[c].owed : Alive(m)' => Alive(m)
    BY Carried DEF CommandOK
  <2>3. Answers(c)' => ~(r.op = "ls" /\ r.anyFailed)
    BY <1>1 DEF Answers, CommandOK, Shaped
  <2> QED
    BY <1>1, <2>1, <2>2, <2>3 DEF Owes, Pending, CommandOK
<1> QED
  BY <1>1, <1>2, <1>3, <1>4, <1>5, <1>6 DEF CommandOK

\* One item of a list is stopped, or refuses.
LEMMA StopOneKept ==
  ASSUME ManagedInv, NEW c \in MockClis, cmd[c].op # "id", StopOne(c)
  PROVE  Kept(c)
<1> USE DEF ManagedInv
<1>1. PICK item \in cmd[c].todo :
         \/ Kill(item) /\ Upd(c, [cmd[c] EXCEPT !.todo = @ \ {item}])
         \/ /\ ~Gone(item) /\ UNCHANGED <<containers, processes>>
            /\ Upd(c, [cmd[c] EXCEPT !.todo = @ \ {item}, !.owed = @ \ {item}])
  BY DEF StopOne
<1>2. /\ CommandOK(c) /\ cmd[c].pc = "stop" /\ Known(item) /\ UNCHANGED births /\ World
      /\ cmd[c] \in Commands
  BY DEF StopOne, InStage, CommandOK, KnowsItems
<1>3. CASE Kill(item) /\ Upd(c, [cmd[c] EXCEPT !.todo = @ \ {item}])
  <2> DEFINE r == [cmd[c] EXCEPT !.todo = @ \ {item}]
  <2>1. /\ World' /\ Evolves /\ ~Alive(item)'
        /\ item.engine = "docker" => containers'[item.key].state = "removed"
    BY <1>2, <1>3, KillSafe
  <2>2. /\ r \in Commands
        /\ r.op = cmd[c].op
        /\ r.engine = cmd[c].engine
        /\ r.pc = cmd[c].pc
        /\ r.todo = cmd[c].todo \ {item}
        /\ r.owed = cmd[c].owed
        /\ r.exitZero = cmd[c].exitZero
        /\ r.anyFailed = cmd[c].anyFailed /\ r.options = cmd[c].options
    BY <1>2 DEF Commands
  <2>3. cmd[c].op = "up" => item.engine = "docker"
    BY <1>2 DEF CommandOK, KnowsItems
  <2>4. Upd(c, r)
    BY <1>3
  <2> HIDE DEF r
  <2> QED
    BY <1>2, <2>1, <2>2, <2>3, <2>4, OneLessOK DEF Kept
<1>4. CASE /\ UNCHANGED <<containers, processes>>
           /\ Upd(c, [cmd[c] EXCEPT !.todo = @ \ {item}, !.owed = @ \ {item}])
  <2> DEFINE r == [cmd[c] EXCEPT !.todo = @ \ {item}, !.owed = @ \ {item}]
  <2>1. World' /\ Evolves
    BY <1>2, <1>4, Still
  <2>2. /\ r \in Commands
        /\ r.op = cmd[c].op
        /\ r.engine = cmd[c].engine
        /\ r.pc = cmd[c].pc
        /\ r.todo = cmd[c].todo \ {item}
        /\ r.owed = cmd[c].owed \ {item}
        /\ r.exitZero = cmd[c].exitZero
        /\ r.anyFailed = cmd[c].anyFailed /\ r.options = cmd[c].options
    BY <1>2 DEF Commands
  <2>3. Upd(c, r)
    BY <1>4
  <2> HIDE DEF r
  <2> QED
    BY <1>2, <2>1, <2>2, <2>3, OneLessOK DEF Kept
<1> QED
  BY <1>1, <1>3, <1>4

\* `ls -x` asks one mock for its health.
LEMMA PopulateHealthKept ==
  ASSUME ManagedInv, NEW c \in MockClis, PopulateHealth(c)
  PROVE  Kept(c)
<1> USE DEF ManagedInv
<1>1. PICK item \in cmd[c].todo, healthy \in BOOLEAN :
         Upd(c, [cmd[c] EXCEPT !.todo = @ \ {item}, !.anyFailed = AnyFailed(c, healthy),
                   !.anyHealthy = @ \/ healthy, !.owed = IF healthy THEN @ \ {item} ELSE @])
  BY DEF PopulateHealth
<1>2. /\ CommandOK(c)
      /\ cmd[c].pc = "check"
      /\ cmd[c].op = "ls"
      /\ World
      /\ World'
      /\ Evolves
      /\ cmd[c] \in Commands
  BY Still DEF PopulateHealth, InStage, CommandOK, Shaped
<1> DEFINE failed == AnyFailed(c, healthy)
           owed == IF healthy THEN cmd[c].owed \ {item} ELSE cmd[c].owed
           seen == cmd[c].anyHealthy \/ healthy
           r == [cmd[c] EXCEPT !.todo = @ \ {item}, !.anyFailed = failed, !.anyHealthy = seen, !.owed = owed]
<1>3. Upd(c, r)
  BY <1>1
<1>4. failed \in BOOLEAN /\ (~failed => ~cmd[c].anyFailed /\ healthy) /\ seen \in BOOLEAN
  BY Zenon DEF AnyFailed
<1>5. owed \subseteq cmd[c].owed /\ (healthy => item \notin owed)
  OBVIOUS
<1> HIDE DEF failed, seen, owed
<1>6. /\ r \in Commands /\ r.op = cmd[c].op /\ r.engine = cmd[c].engine /\ r.pc = cmd[c].pc
      /\ r.todo = cmd[c].todo \ {item} /\ r.owed = owed /\ r.exitZero = cmd[c].exitZero
      /\ r.anyFailed = failed /\ r.options = cmd[c].options
  BY <1>2, <1>4, <1>5 DEF Commands
<1> HIDE DEF r
<1> QED
  BY <1>2, <1>3, <1>4, <1>5, <1>6, OneLessOK DEF Kept

\* `down ID` looks for a process with the ID.
LEMMA FindProcessKept ==
  ASSUME ManagedInv, NEW c \in MockClis, FindProcess(c)
  PROVE  Kept(c)
<1> USE DEF ManagedInv
<1> DEFINE hits == {item \in ItemsOf(Now(c)) : cmd[c].id = <<"pid", item.key>>}
           r == [cmd[c] EXCEPT !.pc = "stop", !.todo = hits]
<1>1. World' /\ Evolves /\ World /\ UNCHANGED <<containers, processes, births>>
  BY Still DEF FindProcess
<1>2. /\ CommandOK(c) /\ cmd[c].pc = "scan" /\ cmd[c].op = "id" /\ Now(c) # "docker"
      /\ cmd[c].todo = {} /\ ~cmd[c].exitZero /\ cmd[c] \in Commands
      /\ IF hits = {} THEN Advance(c, cmd[c]) ELSE Upd(c, r)
  BY DEF FindProcess, InStage, CommandOK, Shaped
<1>3. /\ \A m \in hits : Known(m) /\ Ours(m) /\ m.engine = Now(c) /\ cmd[c].id = <<"pid", m.key>>
      /\ \A l, m \in hits : l = m
  BY <1>1, <1>2, NowFacts, ItemsFacts
<1>4. \A m \in cmd[c].owed : Alive(m) /\ m.engine = Now(c) => m \in hits
  <2> SUFFICES ASSUME NEW m \in cmd[c].owed, Alive(m), m.engine = Now(c)
               PROVE  m \in hits
    OBVIOUS
  <2>1. Known(m) /\ HasId(m, cmd[c].id)
    BY <1>2 DEF CommandOK, KnowsItems, HasItsId
  <2>2. m \in ItemsOf(Now(c))
    BY <1>1, <1>2, <2>1, NowFacts, ItemsFacts
  <2> QED
    BY <1>2, <2>1, <2>2 DEF HasId
<1>5. CASE hits = {}
  <2>1. ASSUME Answers(c), NEW m \in cmd[c].owed, Alive(m)'
        PROVE  Rank(m.engine) > cmd[c].engine
    <3>1. Alive(m) /\ m.engine # Now(c)
      BY <1>1, <1>2, <1>4, <1>5, <2>1, Carried DEF CommandOK
    <3> QED
      BY <1>2, <2>1, <3>1, NowFacts DEF CommandOK, Owes, Pending
  <2>2. Moves(c) /\ CommandOK(c)'
    BY <1>1, <1>2, <1>5, <2>1, AdvanceOK
  <2> QED
    BY <1>1, <2>2 DEF Kept
<1>6. CASE hits # {}
  <2>1. hits \in SUBSET Items
    BY <1>1, <1>3, KnownItems
  <2>2. Upd(c, r)
    BY <1>2, <1>6
  <2> HIDE DEF hits
  <2>3. /\ r \in Commands
        /\ r.op = cmd[c].op
        /\ r.engine = cmd[c].engine
        /\ r.todo = hits
        /\ r.id = cmd[c].id
        /\ r.owed = cmd[c].owed
        /\ r.anyFailed = cmd[c].anyFailed
        /\ r.exitZero = cmd[c].exitZero
        /\ r.pc = "stop"
    BY <1>2, <2>1 DEF Commands
  <2> HIDE DEF r
  <2>4. Moves(c) /\ CommandOK(c)'
    BY <1>1, <1>2, <1>3, <1>4, <2>2, <2>3, ListedOK
  <2> QED
    BY <1>1, <2>4 DEF Kept
<1> QED
  BY <1>5, <1>6

\* `down ID` looks for a container with the ID.
LEMMA FindContainerKept ==
  ASSUME ManagedInv, NEW c \in MockClis, FindContainer(c)
  PROVE  Kept(c)
<1> USE DEF ManagedInv
<1> DEFINE hits == Inspected(cmd[c].id)
           found == {ContainerItem(n) : n \in hits}
<1>1. World' /\ Evolves /\ World /\ UNCHANGED <<containers, processes, births>>
  BY Still DEF FindContainer
<1>2. /\ CommandOK(c) /\ cmd[c].pc = "scan" /\ cmd[c].op = "id" /\ Now(c) = "docker"
      /\ cmd[c].todo = {} /\ ~cmd[c].exitZero /\ cmd[c] \in Commands
  BY DEF FindContainer, InStage, CommandOK, Shaped
<1>3. \A m \in cmd[c].owed : Alive(m) /\ m.engine = Now(c) =>
        m = ContainerItem(m.key) /\ m.key \in hits /\ containers[m.key].managed
  <2> SUFFICES ASSUME NEW m \in cmd[c].owed, Alive(m), m.engine = Now(c)
               PROVE  m = ContainerItem(m.key) /\ m.key \in hits /\ containers[m.key].managed
    OBVIOUS
  <2>1. Known(m) /\ HasId(m, cmd[c].id)
    BY <1>2 DEF CommandOK, KnowsItems, HasItsId
  <2> QED
    BY <1>2, <2>1 DEF HasId, Known, Alive, ContainerItem, Inspected
<1>4. CASE Advance(c, [cmd[c] EXCEPT !.owed = @ \ OfEngine(Now(c))])
  <2> DEFINE r == [cmd[c] EXCEPT !.owed = @ \ OfEngine(Now(c))]
  <2>1. /\ r \in Commands
        /\ r.op = cmd[c].op
        /\ r.engine = cmd[c].engine
        /\ r.todo = {}
        /\ r.id = cmd[c].id
        /\ r.owed = cmd[c].owed \ OfEngine(Now(c)) /\ r.anyFailed = cmd[c].anyFailed
        /\ r.exitZero = cmd[c].exitZero
    BY <1>2 DEF Commands
  <2>2. ASSUME Answers(c), NEW m \in r.owed, Alive(m)'
        PROVE  Rank(m.engine) > cmd[c].engine
    <3>1. m \in cmd[c].owed /\ Known(m) /\ Alive(m)
      BY <1>1, <1>2, <2>1, <2>2, Carried DEF CommandOK
    <3>2. m \in RunningMocks
      BY <3>1, <1>1, RunningFacts
    <3>3. m.engine # Now(c)
      BY <3>2, <2>1, <2>2 DEF OfEngine
    <3> QED
      BY <1>2, <2>2, <3>1, <3>3, NowFacts DEF CommandOK, Owes, Pending
  <2>3. Advance(c, r)
    BY <1>4
  <2> HIDE DEF r
  <2>4. Moves(c) /\ CommandOK(c)'
    BY <1>1, <1>2, <2>1, <2>2, <2>3, AdvanceOK
  <2> QED
    BY <1>1, <2>4 DEF Kept
<1>5. CASE Advance(c, cmd[c]) /\ \A n \in hits : ~containers[n].managed
  <2>1. ASSUME Answers(c), NEW m \in cmd[c].owed, Alive(m)'
        PROVE  Rank(m.engine) > cmd[c].engine
    <3>1. Alive(m)
      BY <1>1, <1>2, <2>1, Carried DEF CommandOK
    <3>2. m.engine # Now(c)
      BY <1>3, <1>5, <3>1
    <3> QED
      BY <1>2, <2>1, <3>1, <3>2, NowFacts DEF CommandOK, Owes, Pending
  <2>2. Moves(c) /\ CommandOK(c)'
    BY <1>1, <1>2, <1>5, <2>1, AdvanceOK
  <2> QED
    BY <1>1, <2>2 DEF Kept
<1>6. CASE /\ \A n \in hits : containers[n].managed
           /\ Upd(c, [cmd[c] EXCEPT !.pc = "stop", !.todo = found])
  <2> DEFINE r == [cmd[c] EXCEPT !.pc = "stop", !.todo = found]
  <2>1. \A m \in found : Known(m) /\ Ours(m) /\ m.engine = "docker"
    BY <1>6 DEF Inspected, ContainerItem, Known, Ours
  <2>2. \A m \in cmd[c].owed : Alive(m) /\ m.engine = Now(c) => m \in found
    BY <1>3
  <2>3. found \in SUBSET Items
    BY <1>1, <2>1, KnownItems
  <2>4. Upd(c, r)
    BY <1>6
  <2> HIDE DEF found
  <2>5. /\ r \in Commands
        /\ r.op = cmd[c].op
        /\ r.engine = cmd[c].engine
        /\ r.todo = found
        /\ r.id = cmd[c].id
        /\ r.owed = cmd[c].owed
        /\ r.anyFailed = cmd[c].anyFailed
        /\ r.exitZero = cmd[c].exitZero
        /\ r.pc = "stop"
    BY <1>2, <2>3 DEF Commands
  <2> HIDE DEF r
  <2>6. Moves(c) /\ CommandOK(c)'
    BY <1>1, <1>2, <2>1, <2>2, <2>4, <2>5, ListedOK
  <2> QED
    BY <1>1, <2>6 DEF Kept
<1> QED
  BY <1>4, <1>5, <1>6 DEF FindContainer

\* `down ID` stops the mock it found.
LEMMA StopManagedKept ==
  ASSUME ManagedInv, NEW c \in MockClis, StopManaged(c)
  PROVE  Kept(c)
<1> USE DEF ManagedInv
<1>1. PICK item \in cmd[c].todo :
         \/ /\ Kill(item)
            /\ Finish(c, IF item.engine = "docker" THEN cmd[c].owed \ {item} ELSE {})
         \/ /\ item.engine = "docker"
            /\ UNCHANGED <<containers, processes>> /\ Finish(c, cmd[c].owed)
         \/ /\ item.engine # "docker"
            /\ UNCHANGED <<containers, processes>>
            /\ Advance(c, [cmd[c] EXCEPT !.todo = {}, !.owed = @ \ {item}])
  BY DEF StopManaged
<1>2. /\ CommandOK(c)
      /\ cmd[c].pc = "stop"
      /\ cmd[c].op = "id"
      /\ Known(item)
      /\ UNCHANGED births
      /\ World
      /\ cmd[c] \in Commands /\ KnowsItems(c) /\ ~cmd[c].exitZero
      /\ \A m \in cmd[c].owed : HasId(m, cmd[c].id) /\ Known(m)
      /\ item.engine # "docker" => cmd[c].id = <<"pid", item.key>> /\ \A l \in cmd[c].todo : l = item
  BY DEF StopManaged, InStage, CommandOK, KnowsItems, Shaped, HasItsId
<1>3. CASE Kill(item) /\ Finish(c, IF item.engine = "docker" THEN cmd[c].owed \ {item} ELSE {})
  <2>1. /\ World' /\ Evolves /\ ~Alive(item)'
        /\ item.engine # "docker" => processes'[item.key] = Nobody
    BY <1>2, <1>3, KillSafe
  <2> DEFINE excused == IF item.engine = "docker" THEN cmd[c].owed \ {item} ELSE {}
  <2>2. Finish(c, excused)
    BY <1>3
  <2>3. item.engine = "docker" => cmd[c].owed \ excused \subseteq {item}
    OBVIOUS
  <2> HIDE DEF excused
  <2>4. /\ Moves(c)
        /\ cmd'[c].op = cmd[c].op
        /\ cmd'[c].pc = "ended"
        /\ cmd'[c].todo = {}
        /\ ~cmd'[c].exitZero
        /\ cmd'[c].owed = cmd[c].owed \ excused
    BY <2>2, FinishMoves
  <2>5. ASSUME item.engine # "docker", NEW m \in cmd[c].owed
        PROVE  ~Alive(m)'
    <3>1. HasId(m, <<"pid", item.key>>) /\ Known(m)
      BY <1>2, <2>5
    <3>2. m.engine # "docker" /\ m.key = item.key
      BY <3>1 DEF HasId
    <3> QED
      BY <2>1, <2>5, <3>2 DEF Alive, LooksLike
  <2>6. \A m \in cmd'[c].owed : ~Alive(m)'
    BY <2>1, <2>3, <2>4, <2>5
  <2> QED
    BY <1>2, <2>1, <2>4, <2>6, EndedOK DEF Kept
<1>4. CASE UNCHANGED <<containers, processes>> /\ Finish(c, cmd[c].owed)
  <2>1. World' /\ Evolves
    BY <1>2, <1>4, Still
  <2>2. /\ Moves(c) /\ cmd'[c].op = cmd[c].op /\ cmd'[c].pc = "ended" /\ cmd'[c].todo = {}
        /\ cmd'[c].owed = {} /\ ~cmd'[c].exitZero
    BY <1>4, FinishMoves
  <2> QED
    BY <1>2, <2>1, <2>2, EndedOK DEF Kept
<1>5. CASE /\ item.engine # "docker" /\ UNCHANGED <<containers, processes>>
           /\ Advance(c, [cmd[c] EXCEPT !.todo = {}, !.owed = @ \ {item}])
  <2> DEFINE r == [cmd[c] EXCEPT !.todo = {}, !.owed = @ \ {item}]
  <2>1. World' /\ Evolves /\ Advance(c, r)
    BY <1>2, <1>5, Still
  <2>2. /\ r \in Commands
        /\ r.op = cmd[c].op
        /\ r.engine = cmd[c].engine
        /\ r.todo = {}
        /\ r.id = cmd[c].id
        /\ r.owed = cmd[c].owed \ {item} /\ r.anyFailed = cmd[c].anyFailed
        /\ r.exitZero = cmd[c].exitZero
    BY <1>2 DEF Commands
  <2> HIDE DEF r
  <2>3. ASSUME Answers(c), NEW m \in r.owed, Alive(m)'
        PROVE  Rank(m.engine) > cmd[c].engine
    <3>1. m \in cmd[c].owed /\ m # item /\ Alive(m)
      BY <1>2, <2>1, <2>2, <2>3, Carried
    <3>2. m \notin cmd[c].todo
      BY <1>2, <1>5, <3>1
    <3> QED
      BY <1>2, <2>3, <3>1, <3>2 DEF CommandOK, Owes, Pending
  <2>4. Moves(c) /\ CommandOK(c)'
    BY <1>2, <2>1, <2>2, <2>3, AdvanceOK
  <2> QED
    BY <2>1, <2>4 DEF Kept
<1> QED
  BY <1>1, <1>3, <1>4, <1>5

\* An `up` that ends answers for nothing.
LEMMA UpEnds ==
  ASSUME World, World', Evolves, cmd \in [MockClis -> Commands], NEW c \in MockClis, CommandOK(c),
         cmd[c].op = "up", Finish(c, cmd[c].owed)
  PROVE  Moves(c) /\ CommandOK(c)'
<1>1. /\ Moves(c) /\ cmd'[c].op = cmd[c].op /\ cmd'[c].pc = "ended" /\ cmd'[c].todo = {}
      /\ cmd'[c].owed = {} /\ ~cmd'[c].exitZero
  BY FinishMoves
<1> QED
  BY <1>1, EndedOK DEF CommandOK

\* dockerd cannot be asked, or no container created.
LEMMA UpFailsKept ==
  ASSUME ManagedInv, NEW c \in MockClis, UpFails(c)
  PROVE  Kept(c)
<1>1. World /\ World' /\ Evolves /\ CommandOK(c) /\ cmd \in [MockClis -> Commands]
  BY Still DEF UpFails, ManagedInv
<1> QED
  BY <1>1, UpEnds DEF UpFails, Kept

\* An `up` lists its duplicates.
LEMMA StopDuplicatesKept ==
  ASSUME ManagedInv, NEW c \in MockClis, StopDuplicateContainers(c)
  PROVE  Kept(c)
<1> USE DEF ManagedInv
<1> DEFINE dups == {ContainerItem(n) : n \in {m \in ManagedContainers :
    containers[m].hash = cmd[c].options.hash}}
           r == [cmd[c] EXCEPT !.pc = "stop", !.todo = dups, !.owed = dups]
<1>1. /\ World'
      /\ Evolves
      /\ World
      /\ CommandOK(c)
      /\ cmd[c].pc = "dedupe"
      /\ cmd[c].op = "up"
      /\ cmd[c] \in Commands /\ ~cmd[c].exitZero /\ cmd[c].options \in MockOptions
  BY Still DEF StopDuplicateContainers, InStage, CommandOK, Shaped
<1>2. \A m \in dups : Known(m) /\ Ours(m) /\ Started(m) /\ m.engine = "docker"
  BY DEF ManagedContainers, ContainerItem, Known, Ours, Started
<1>3. dups \in SUBSET Items
  BY <1>1, <1>2, KnownItems
<1>4. Upd(c, r)
  BY DEF StopDuplicateContainers
<1> HIDE DEF dups
<1>5. /\ r \in Commands /\ r.op = "up" /\ r.pc = "stop" /\ r.todo = dups /\ r.owed = dups
      /\ r.exitZero = cmd[c].exitZero /\ r.options = cmd[c].options
  BY <1>1, <1>3 DEF Commands
<1>6. Moves(c) /\ cmd'[c] = r
  BY <1>4, <1>5, UpdMoves
<1> HIDE DEF r
<1>7. \A m \in dups : Known(m)' /\ Ours(m)' /\ Started(m)'
  BY <1>1, <1>2, ItemStable
<1>8. Shaped(c)' /\ KnowsItems(c)' /\ HasItsId(c)' /\ Owes(c)' /\ Clears(c)'
  BY <1>1, <1>2, <1>5, <1>6, <1>7 DEF Shaped, KnowsItems, HasItsId, Owes, Answers, Clears
<1> QED
  BY <1>1, <1>6, <1>8 DEF Kept, CommandOK

\* One more container, whose creator saw to what it says it did.
LEMMA AppendSafe ==
  ASSUME World, NEW r \in ContainerRecords, containers' = Append(containers, r),
         UNCHANGED <<processes, births>>, Room,
         \A k \in r.saw : k \in DOMAIN containers /\ containers[k].state = "removed"
  PROVE  World' /\ Evolves
<1>1. /\ Len(containers') = Len(containers) + 1 /\ DOMAIN containers = 1..Len(containers)
      /\ DOMAIN containers' = 1..(Len(containers) + 1) /\ Len(containers) \in Nat
      /\ \A n \in DOMAIN containers : containers'[n] = containers[n]
      /\ containers'[Len(containers) + 1] = r
      /\ containers' \in Seq(ContainerRecords)
  BY DEF World, ContainerRecords
<1>2. Evolves
  BY <1>1 DEF World, Evolves
<1>3. \A n \in DOMAIN containers' : \A k \in containers'[n].saw :
         k \in DOMAIN containers' /\ containers'[k].state = "removed"
  <2> SUFFICES ASSUME NEW n \in DOMAIN containers', NEW k \in containers'[n].saw
               PROVE  k \in DOMAIN containers /\ containers[k].state = "removed"
    BY <1>1
  <2>1. CASE n \in DOMAIN containers
    BY <1>1, <2>1 DEF World
  <2>2. CASE n = Len(containers) + 1
    BY <1>1, <2>2
  <2> QED
    BY <1>1, <2>1, <2>2
<1>4. births' \in Nat /\ Len(containers') + births' <= MaxStarted
  BY <1>1 DEF World, Room
<1>5. /\ processes' \in [Pids -> ProcessRecords \cup {Nobody}]
      /\ \A p \in Pids : processes'[p] # Nobody => processes'[p].born <= births'
  BY DEF World
<1> QED
  BY <1>1, <1>2, <1>3, <1>4, <1>5 DEF World, ContainerRecords

\* An `up` creates its container once its duplicates are removed.
LEMMA ContainerCreateKept ==
  ASSUME ManagedInv, NEW c \in MockClis, ContainerCreate(c)
  PROVE  Kept(c)
<1> USE DEF ManagedInv
<1>1. PICK id \in Pids \cup {Nobody} :
         containers' = Append(containers, [hash |-> cmd[c].options.hash, port |-> cmd[c].options.port,
            managed |-> TRUE, beginsWith |-> id, state |-> "created",
            saw |-> {item.key : item \in cmd[c].owed}])
  BY DEF ContainerCreate
<1>2. /\ World
      /\ CommandOK(c)
      /\ cmd[c].pc = "stop"
      /\ cmd[c].op = "up"
      /\ cmd[c].todo = {}
      /\ Room
      /\ cmd[c] \in Commands /\ ~cmd[c].exitZero /\ cmd[c].options \in MockOptions
      /\ UNCHANGED <<processes, births>>
  BY DEF ContainerCreate, InStage, CommandOK, Shaped
<1>3. \A item \in cmd[c].owed : item.key \in DOMAIN containers /\ containers[item.key].state = "removed"
  BY <1>2 DEF CommandOK, Clears, KnowsItems, Known
<1> DEFINE saw == {item.key : item \in cmd[c].owed}
           box == [hash |-> cmd[c].options.hash, port |-> cmd[c].options.port,
            managed |-> TRUE, beginsWith |-> id, state |-> "created", saw |-> saw]
<1>4. saw \in SUBSET Nat /\ \A k \in saw : k \in DOMAIN containers /\ containers[k].state = "removed"
  BY <1>2, <1>3 DEF World
<1> HIDE DEF saw
<1>5. box \in ContainerRecords /\ box.saw = saw
  BY <1>2, <1>4 DEF ContainerRecords
<1>6. containers' = Append(containers, box)
  BY <1>1 DEF saw
<1> HIDE DEF box
<1>7. World' /\ Evolves
  BY <1>2, <1>4, <1>5, <1>6, AppendSafe
<1> DEFINE r == [cmd[c] EXCEPT !.pc = "start", !.own = Len(containers')]
<1>8. Len(containers') \in Nat
  BY <1>7 DEF World
<1>9. PICK n \in Nat : n = Len(containers')
  BY <1>8
<1> DEFINE s == [cmd[c] EXCEPT !.pc = "start", !.own = n]
<1>10. /\ s \in Commands
       /\ s.op = "up"
       /\ s.pc = "start"
       /\ s.todo = {}
       /\ s.owed = cmd[c].owed
       /\ ~s.exitZero
  BY <1>2 DEF Commands
<1>11. Upd(c, s)
  BY <1>9 DEF ContainerCreate
<1>12. Moves(c) /\ cmd'[c] = s
  BY <1>10, <1>11, UpdMoves
<1> HIDE DEF s
<1>13. Shaped(c)' /\ HasItsId(c)' /\ Owes(c)' /\ Clears(c)'
  BY <1>10, <1>12 DEF Shaped, HasItsId, Owes, Answers, Clears
<1>14. KnowsItems(c)'
  <2>1. \A m \in cmd[c].owed : Known(m)' /\ Started(m)'
    BY <1>2, <1>7, Carried DEF CommandOK
  <2> QED
    BY <1>10, <1>12, <2>1 DEF KnowsItems
<1> QED
  BY <1>7, <1>12, <1>13, <1>14 DEF CommandOK, Kept

\* A container starts or exits.
LEMMA StateSafe ==
  ASSUME World, NEW n, NEW state \in {"running", "exited"},
         containers' = [containers EXCEPT ![n].state = state],
         containers[n].state = IF state = "running" THEN "created" ELSE "running",
         UNCHANGED <<processes, births>>
  PROVE  World' /\ Evolves
<1>1. /\ DOMAIN containers' = DOMAIN containers /\ Len(containers') = Len(containers)
      /\ containers' \in Seq(ContainerRecords)
  <2>1. ASSUME NEW r \in ContainerRecords PROVE [r EXCEPT !.state = state] \in ContainerRecords
    BY DEF ContainerRecords
  <2>2. PICK len \in Nat : /\ len = Len(containers)
                           /\ containers \in [1..len -> ContainerRecords]
    BY DEF World
  <2>3. \A i \in 1..len : containers[i] \in ContainerRecords
    BY <2>2
  <2>4. containers' = [i \in 1..len |-> IF i = n THEN [containers[i] EXCEPT !.state = state] ELSE
            containers[i]]
    BY <2>2
  <2>5. containers' \in [1..len -> ContainerRecords]
    BY <2>1, <2>3, <2>4, ZenonT(60)
  <2>6. DOMAIN containers' = 1..len /\ \A i \in 1..len : containers'[i] \in ContainerRecords
    BY <2>5
  <2>7. containers' \in Seq(ContainerRecords)
    BY <2>5, SeqDef, ZenonT(60)
  <2> QED
    BY <2>2, <2>6, <2>7
<1>2. ASSUME NEW i \in DOMAIN containers
      PROVE  /\ containers'[i].managed = containers[i].managed /\ containers'[i].saw = containers[i].saw
             /\ containers'[i].state = IF i = n THEN state ELSE containers[i].state
  <2>1. containers[i] \in ContainerRecords
    BY DEF World
  <2>2. containers'[i] = IF i = n THEN [containers[i] EXCEPT !.state = state] ELSE containers[i]
    OBVIOUS
  <2> QED
    BY <2>1, <2>2 DEF ContainerRecords
<1>3. Evolves
  BY <1>1, <1>2 DEF World, Evolves
<1>4. World'
  <2>1. \A i \in DOMAIN containers' : \A k \in containers'[i].saw :
           k \in DOMAIN containers' /\ containers'[k].state = "removed"
    BY <1>1, <1>2 DEF World
  <2> QED
    BY <1>1, <2>1 DEF World
<1> QED
  BY <1>3, <1>4

\* An `up` starts its container, or fails to.
LEMMA ContainerStartKept ==
  ASSUME ManagedInv, NEW c \in MockClis, ContainerStart(c)
  PROVE  Kept(c)
<1> USE DEF ManagedInv
<1> DEFINE n == cmd[c].own
<1>1. /\ World
      /\ CommandOK(c)
      /\ cmd[c].op = "up"
      /\ Finish(c, cmd[c].owed)
      /\ UNCHANGED <<processes, births>>
  BY DEF ContainerStart, InStage, CommandOK, Shaped
<1>2. CASE /\ containers[n].state = "created"
           /\ containers' = [containers EXCEPT ![n].state = "running"]
  <2>1. World' /\ Evolves
    BY <1>1, <1>2, StateSafe
  <2> QED
    BY <1>1, <2>1, UpEnds DEF Kept
<1>3. CASE UNCHANGED containers
  <2>1. World' /\ Evolves
    BY <1>1, <1>3, Still
  <2> QED
    BY <1>1, <2>1, UpEnds DEF Kept
<1> QED
  BY <1>2, <1>3 DEF ContainerStart

\* Mocks and other programs start and end.
LEMMA EnvironmentKept ==
  ASSUME ManagedInv, UNCHANGED cmd,
         \/ \E p \in Pids : (\E program \in Programs :
                ProcessStarts(p, program)) \/ ProcessEnds(p) \/ OtherContainer(p)
         \/ \E n \in DOMAIN containers : ContainerExits(n)
  PROVE  ManagedInv'
<1> USE DEF ManagedInv
<1>1. ASSUME World' /\ Evolves PROVE ManagedInv'
  BY <1>1, Unmoved
<1>2. ASSUME NEW p \in Pids, NEW program \in Programs, ProcessStarts(p, program)
      PROVE  World' /\ Evolves
  <2> DEFINE new == [name |-> program.name, fits |-> program.fits, kind |-> program.kind, born |-> births']
  <2>1. /\ processes[p] = Nobody
        /\ Len(containers) + births < MaxStarted
        /\ births' = births + 1
        /\ processes' = [processes EXCEPT ![p] = new] /\ UNCHANGED containers
    BY <1>2 DEF ProcessStarts, Room
  <2>2. births' \in 1..MaxStarted /\ Len(containers) \in Nat
    BY <2>1 DEF World
  <2>3. new \in ProcessRecords /\ new.born = births + 1
    BY <2>1, <2>2 DEF ProcessRecords
  <2>4. \A q \in Pids : processes[q] # Nobody => processes[q].born \in Nat
    BY DEF World, ProcessRecords
  <2> HIDE DEF new
  <2>5. Evolves
    BY <2>1, <2>3 DEF World, Evolves
  <2>6. World'
    BY <2>1, <2>2, <2>3, <2>4 DEF World
  <2> QED
    BY <2>5, <2>6
<1>3. ASSUME NEW p \in Pids, ProcessEnds(p)
      PROVE  World' /\ Evolves
  BY <1>3 DEF ProcessEnds, World, Evolves
<1>4. ASSUME NEW p \in Pids, OtherContainer(p)
      PROVE  World' /\ Evolves
  <2> DEFINE box == [hash |-> Nobody, port |-> Nobody, managed |-> FALSE,
            beginsWith |-> p, state |-> "running", saw |-> {}]
  <2>1. box \in ContainerRecords /\ box.saw = {}
    BY DEF ContainerRecords
  <2>2. /\ World
        /\ containers' = Append(containers, box)
        /\ UNCHANGED <<processes, births>>
        /\ Room
    BY <1>4 DEF OtherContainer
  <2> HIDE DEF box
  <2> QED
    BY <2>1, <2>2, AppendSafe
<1>5. ASSUME NEW n \in DOMAIN containers, ContainerExits(n)
      PROVE  World' /\ Evolves
  BY <1>5, StateSafe DEF ContainerExits
<1> QED
  BY <1>1, <1>2, <1>3, <1>4, <1>5

\* A command's step, whichever it is.
LEMMA CliStepKept ==
  ASSUME ManagedInv, NEW c \in MockClis, CliStep(c)
  PROVE  Kept(c)
<1>1. CASE DownAll(c) \/ DownId(c) \/ Ls(c) \/ Up(c) \/ CommandEnds(c)
  BY <1>1, BeginsKept
<1>2. CASE EngineFails(c)
  BY <1>2, EngineFailsKept
<1>3. CASE StopAllManaged(c)
  BY <1>3, StopAllManagedKept
<1>4. CASE cmd[c].op # "id" /\ StopOne(c)
  BY <1>4, StopOneKept
<1>5. CASE EngineDone(c) \/ EngineListed(c)
  BY <1>5, SeenTo
<1>6. CASE FindContainer(c)
  BY <1>6, FindContainerKept
<1>7. CASE FindProcess(c)
  BY <1>7, FindProcessKept
<1>8. CASE StopManaged(c)
  BY <1>8, StopManagedKept
<1>9. CASE ListAllManaged(c)
  BY <1>9, ListAllManagedKept
<1>10. CASE PopulateHealth(c)
  BY <1>10, PopulateHealthKept
<1>11. CASE StopDuplicateContainers(c)
  BY <1>11, StopDuplicatesKept
<1>12. CASE ContainerCreate(c)
  BY <1>12, ContainerCreateKept
<1>13. CASE ContainerStart(c)
  BY <1>13, ContainerStartKept
<1>14. CASE UpFails(c)
  BY <1>14, UpFailsKept
<1> QED
  BY <1>1, <1>2, <1>3, <1>4, <1>5, <1>6, <1>7, <1>8, <1>9, <1>10, <1>11, <1>12, <1>13, <1>14
       DEF CliStep

\* Nothing runs at first.
LEMMA ManagedInitInv == ManagedInit => ManagedInv
<1> SUFFICES ASSUME ManagedInit PROVE ManagedInv
  OBVIOUS
<1>1. World
  BY DEF ManagedInit, World
<1>2. cmd \in [MockClis -> Commands] /\ \A c \in MockClis : cmd[c] = NoCommand
  BY NoCommandType DEF ManagedInit
<1>3. ASSUME NEW c \in MockClis PROVE CommandOK(c)
  BY <1>2, NoCommandType DEF CommandOK, Shaped, KnowsItems, HasItsId, Owes, Clears, Answers
<1> QED
  BY <1>1, <1>2, <1>3 DEF ManagedInv

\* Every step keeps the invariant.
LEMMA ManagedStepInv == ManagedInv /\ [ManagedNext]_managedVars => ManagedInv'
<1> SUFFICES ASSUME ManagedInv, [ManagedNext]_managedVars PROVE ManagedInv'
  OBVIOUS
<1>1. ASSUME NEW c \in MockClis, CliStep(c) PROVE ManagedInv'
  <2>1. Kept(c)
    BY <1>1, CliStepKept
  <2>2. \A d \in MockClis : CommandOK(d)'
    BY <2>1, Unmoved DEF Kept, Moves, ManagedInv
  <2> QED
    BY <2>1, <2>2 DEF Kept, Moves, ManagedInv
<1>2. CASE \/ \E p \in Pids : (\E program \in Programs :
                  ProcessStarts(p, program)) \/ ProcessEnds(p) \/ OtherContainer(p)
           \/ \E n \in DOMAIN containers : ContainerExits(n)
  <2>1. UNCHANGED cmd
    BY <1>2 DEF ProcessStarts, ProcessEnds, OtherContainer, ContainerExits
  <2> QED
    BY <1>2, <2>1, EnvironmentKept
<1>3. CASE UNCHANGED managedVars
  <2>1. World' /\ Evolves
    BY <1>3, Still DEF managedVars, ManagedInv
  <2> QED
    BY <1>3, <2>1, Unmoved DEF managedVars, ManagedInv
<1> QED
  BY <1>1, <1>2, <1>3 DEF ManagedNext

(* Whatever commands and programs do, a command's list and ledger are about  *)
(* what they were about when it was made.                                    *)
THEOREM ManagedInvHolds == ManagedSpec => []ManagedInv
<1> QED
  BY ManagedInitInv, ManagedStepInv, PTL DEF ManagedSpec

\* The type invariant.
THEOREM ManagedTypeCorrect == ManagedSpec => []ManagedTypeOK
<1>1. ManagedInv => ManagedTypeOK
  <2> SUFFICES ASSUME ManagedInv PROVE ManagedTypeOK
    OBVIOUS
  <2>1. \A n \in DOMAIN containers : containers[n].state \in {"created", "running", "exited", "removed"}
    <3>1. \A n \in DOMAIN containers : containers[n] \in ContainerRecords
      BY DEF ManagedInv, World
    <3> QED
      BY <3>1 DEF ContainerRecords
  <2>2. ASSUME NEW c \in MockClis
        PROVE  /\ cmd[c].pc \in {"idle", "scan", "stop", "check", "dedupe", "start", "ended"}
               /\ \A item \in cmd[c].todo :
                    item.key \in (IF item.engine = "docker" THEN DOMAIN containers ELSE Pids)
               /\ cmd[c].pc \in {"scan", "ended", "start", "dedupe"} =>
                      cmd[c].todo = {} \/ cmd[c].op = "id"
    <3>1. cmd[c] \in Commands /\ CommandOK(c)
      BY DEF ManagedInv
    <3> QED
      BY <3>1 DEF Commands, CommandOK, Shaped, KnowsItems, Known
  <2> QED
    BY <2>1, <2>2 DEF ManagedTypeOK
<1> QED
  BY <1>1, ManagedInvHolds, PTL

(* What `down --all` or `down ID` was asked to stop, and looked like a mock, *)
(* is gone when it ends,                                                     *)
(* and what `ls -x` vouched for was healthy or is gone, however many         *)
(* commands ran and whatever ended and started in between                    *)
(* (cmd/down.go:96-150, list.go:65-96).                                      *)
THEOREM NothingOwed == ManagedSpec => []EndedOwesNothing
<1>1. ManagedInv => EndedOwesNothing
  <2> SUFFICES ASSUME ManagedInv, NEW c \in MockClis, cmd[c].pc = "ended",
                      cmd[c].op \in {"all", "id"} \/ cmd[c].exitZero, NEW m \in cmd[c].owed
               PROVE  m \notin RunningMocks
    BY DEF EndedOwesNothing
  <2>1. CommandOK(c) /\ World
    BY DEF ManagedInv
  <2>2. cmd[c].op \in {"all", "id"} \/ cmd[c].op = "ls"
    BY <2>1 DEF CommandOK, Shaped
  <2> QED
    BY <2>1, <2>2, RunningFacts DEF CommandOK, Owes, Answers, Pending
<1> QED
  BY <1>1, ManagedInvHolds, PTL

(* No two mocks of one hash run if the younger's `up` saw the older          *)
(* (removal.go:92-109), with any number of `up`s at once.                    *)
THEOREM NoSeenDuplicates == ManagedSpec => []DuplicatesUnseen
<1>1. ManagedInv => DuplicatesUnseen
  BY DEF ManagedInv, World, DuplicatesUnseen
<1> QED
  BY <1>1, ManagedInvHolds, PTL

\* What StrangersAreSafe says of one step.
Spared ==
    /\ \A n \in DOMAIN containers : containers[n].state = "running" /\ ~containers[n].managed =>
            containers'[n] = containers[n]
    /\ \A p \in Pids :
         processes[p] # Nobody /\ (\A e \in {"jvm", "native"} : ~LooksLike(p, e)) /\ processes'[p] = Nobody =>
            \E c \in MockClis : \E item \in cmd[c].todo :
                item.key = p /\ item.engine # "docker" /\ item.born # processes[p].born

\* Killing what an item stands for harms no stranger, but one that took its PID.
LEMMA KillSpares ==
  ASSUME ManagedInv, NEW c \in MockClis, NEW item \in cmd[c].todo, Kill(item)
  PROVE  Spared
<1>1. Known(item) /\ Ours(item) /\ World
  BY DEF ManagedInv, CommandOK, KnowsItems
<1>2. CASE item.engine = "docker"
  <2>1. UNCHANGED processes /\ containers' = [containers EXCEPT ![item.key] = Removed]
    BY <1>2 DEF Kill
  <2> QED
    BY <1>1, <1>2, <2>1 DEF Ours, Spared
<1>3. CASE item.engine # "docker"
  <2>1. /\ UNCHANGED containers /\ processes' = [processes EXCEPT ![item.key] = Nobody]
        /\ item.key \in Pids /\ item.engine \in {"jvm", "native"}
    BY <1>1, <1>3 DEF Kill, Known
  <2>2. processes[item.key] # Nobody /\ ~LooksLike(item.key, item.engine) =>
          item.born # processes[item.key].born
    BY <1>1, <1>3, <2>1 DEF Ours
  <2> QED
    BY <1>1, <1>3, <2>1, <2>2 DEF Spared, World
<1> QED
  BY <1>2, <1>3

\* So does every step of a command, and of the environment.
LEMMA StrangersSpared ==
  ASSUME ManagedInv, ManagedNext, cmd' # cmd
  PROVE  Spared
<1>1. PICK c \in MockClis : CliStep(c)
  BY DEF ManagedNext, ProcessStarts, ProcessEnds, OtherContainer, ContainerExits
<1>2. CASE UNCHANGED <<containers, processes>>
  BY <1>2 DEF Spared
<1>3. CASE StopOne(c)
  BY <1>2, <1>3, KillSpares DEF StopOne
<1>4. CASE StopManaged(c)
  BY <1>2, <1>4, KillSpares DEF StopManaged
<1>5. CASE ContainerCreate(c)
  <2>1. \A n \in DOMAIN containers : containers'[n] = containers[n]
    BY <1>5 DEF ContainerCreate, ManagedInv, World
  <2> QED
    BY <1>5, <2>1 DEF ContainerCreate, Spared
<1>6. CASE ContainerStart(c)
  BY <1>2, <1>6 DEF ContainerStart, Spared
<1>7. \/ UNCHANGED <<containers, processes>>
      \/ StopOne(c) \/ StopManaged(c) \/ ContainerCreate(c) \/ ContainerStart(c)
  BY <1>1 DEF CliStep, DownAll, DownId, Ls, Up, Begin, CommandEnds, EngineFails,
       StopAllManaged,
       EngineDone, FindContainer, FindProcess, ListAllManaged, PopulateHealth, EngineListed,
       StopDuplicateContainers, UpFails
<1> QED
  BY <1>2, <1>3, <1>4, <1>5, <1>6, <1>7

(* Commands stop only what looks like a mock: an unlabelled container never, *)
(* a process whose name or arguments do not fit only when it took the PID of *)
(* one whose did (procutil/processes.go:67-99).                              *)
THEOREM StrangersSafe == ManagedSpec => StrangersAreSafe
<1>1. ManagedInv /\ [ManagedNext]_managedVars => [cmd' # cmd => Spared]_managedVars
  BY StrangersSpared
<1> QED
  BY <1>1, ManagedInvHolds, PTL DEF ManagedSpec, StrangersAreSafe, Spared
==============================================================================
