--------------------------- MODULE MocksCloudProofs ---------------------------
(***************************************************************************)
(* What holds of deploys to the cloud remote whatever the number of CLIs   *)
(* that share the workspace files, the directory's contents, and wherever  *)
(* a request or a command fails.                                           *)
(*                                                                         *)
(* A command that no other has met can rely on what it read; one that has  *)
(* cannot, and only its types are known.  So the inductive invariant       *)
(* CloudInv is about the commands that met none: of two commands that run  *)
(* both have met (Alone); a deploy alone has the platform's mock in step   *)
(* with its list of what is still to send (Copied) and finds the record of *)
(* the mock where it left it (Recorded).                                   *)
(*                                                                         *)
(* Assemble reduces a step of one command to that command: the others run  *)
(* with it, so they have met it.  A lemma per action does the rest.        *)
(***************************************************************************)
EXTENDS MocksCloud, SequenceTheorems, TLAPS

\* A directory's files and contents, and what may be made of them on the platform.
Files == UNION {DOMAIN d : d \in Directories}

Contents == UNION {{d[x] : x \in DOMAIN d} : d \in Directories}

Trees == UNION {[S -> Contents] : S \in SUBSET Files}

\* The types of the files, of the platform and of the commands.
Metas == [active : Names \cup {None}, spaces : UNION {[S -> RemoteTypes] : S \in SUBSET Names}]

Paths == RemoteTypes \X Names

Configs == [mock : Nat \cup {None}]

Syncs == [remote : SUBSET Files, local : SUBSET Files, todo : SUBSET Files]

\* Steps at which a mock is synchronised, those at which it is recorded, and all.
SyncPcs == {"list", "upload", "delete", "wait"}

SavePcs == {"createMock", "truncateConfig", "fillConfig"}

ClientPcs == ClientEnds \cup {"truncateMeta", "fillMeta", "loadConfig",
    "draft"} \cup SavePcs \cup SyncPcs

MockRecords == [state : {"DRAFT", "LIVE"}, status : {"inactive", "ACTIVE", "FAILED"},
                files : Trees, mixed : BOOLEAN]

Sessions == [pc : ClientPcs, op : {"none", "config", "mockId", "deploy", "undeploy"}, meta : Metas, path :
    Paths \cup {None},
             conf : Configs, sync : Syncs, met : BOOLEAN]

\* The active workspace exists, or there is none.
ActiveExists(m) == m.active \in DOMAIN m.spaces \cup {None}

\* The IDs of the mocks created.
MockIds == 1..Len(mocks)

\* The types.
CloudTyped ==
    /\ meta = Torn \/ (meta \in Metas /\ ActiveExists(meta))
    /\ confs \in [Paths -> {None, Torn} \cup Configs]
    /\ client \in [Clients -> Sessions]
    /\ mocks \in Seq(MockRecords)
    /\ local \in Directories

\* A configuration names a mock that was created, or the ID of none.
StoredExist == \A path \in Paths : StoredMock(path) \in MockIds \cup {None, 0}

\* The platform runs what is in service.
RunsInService == \A i \in MockIds : mocks[i].status # "inactive" => mocks[i].state = "LIVE"

\* A command has the path of its configuration, and while it synchronises a mock of
\* its own.
Placed(c) ==
    /\ Mock(c) \in MockIds \cup {None, 0} /\ ActiveExists(client[c].meta)
    /\ client[c].pc \in SavePcs \cup {"loadConfig"} => client[c].path \in Paths
    /\ client[c].pc \in SyncPcs => Mock(c) \in MockIds

\* Of two commands that run, each has met another.
Alone == \A c, d \in Clients : c # d /\ Busy(c) /\ Busy(d) => client[c].met

(* A deploy that met nobody keeps the platform in step.  While it uploads,   *)
(* what it has sent is there as in the directory and what is there was       *)
(* listed or sent; while it deletes, what is there is the directory's or     *)
(* still to be deleted; at the end it is the directory.                      *)
Copied(c) ==
    LET m == mocks[Mock(c)]
        sync == client[c].sync
    IN ~client[c].met /\ client[c].pc \in SyncPcs =>
         /\ m.state = IF client[c].pc = "wait" THEN "LIVE" ELSE "DRAFT"
         /\ client[c].pc = "upload" =>
              /\ sync.local = DOMAIN local /\ sync.todo \subseteq DOMAIN local
              /\ DOMAIN m.files \subseteq sync.remote \cup DOMAIN local
              /\ \A x \in DOMAIN local \ sync.todo : x \in DOMAIN m.files /\ m.files[x] = local[x]
         /\ client[c].pc = "delete" /\ DirClean =>
              /\ sync.todo \cap DOMAIN local = {}
              /\ DOMAIN m.files \subseteq sync.todo \cup DOMAIN local
              /\ \A x \in DOMAIN local : x \in DOMAIN m.files /\ m.files[x] = local[x]
         /\ client[c].pc = "wait" /\ DirClean => m.files = local

\* A command that met nobody finds no other mock in its configuration than its own,
\* unless it is to set another, and after truncating it, its text gone.
Recorded(c) ==
    ~client[c].met =>
      /\ client[c].pc = "createMock" => StoredMock(client[c].path) = None
      /\ client[c].pc = "truncateConfig" /\ client[c].op # "mockId" =>
           StoredMock(client[c].path) \in {None, Mock(c)}
      /\ client[c].pc = "fillConfig" => confs[client[c].path] = Torn

\* The invariant.
CloudInv ==
    /\ CloudTyped /\ StoredExist /\ RunsInService /\ Alone /\ LiveIsWhole
    /\ \A c \in Clients : Placed(c) /\ Copied(c) /\ Recorded(c)
-----------------------------------------------------------------------------

\* A function on 1..len is a sequence.
LEMMA IsSeq ==
  ASSUME NEW S, NEW len \in Nat, NEW f \in [1..len -> S]
  PROVE  f \in Seq(S)
  BY SeqDef, Zenon

USE FilesAssumption, DirCleanAssumption, DirectoriesAssumption

\* The steps, and those at which a command runs.
LEMMA Pcs ==
    /\ ClientPcs = {"idle", "deployed", "truncateMeta", "fillMeta", "loadConfig", "draft", "createMock",
                    "truncateConfig", "fillConfig", "list", "upload", "delete", "wait"}
    /\ \A c \in Clients : Busy(c) <=> client[c].pc \notin {"idle", "deployed"}
  BY DEF ClientPcs, ClientEnds, SavePcs, SyncPcs, Busy

\* A directory is among what may be on the platform.
LEMMA DirectoryTree == \A d \in Directories : d \in Trees /\ DOMAIN d \subseteq Files
<1> SUFFICES ASSUME NEW d \in Directories PROVE d \in Trees /\ DOMAIN d \subseteq Files
  OBVIOUS
<1>1. DOMAIN d \subseteq Files
  BY DEF Files
<1>2. \A x \in DOMAIN d : d[x] \in Contents
  BY DEF Contents
<1>3. d \in [DOMAIN d -> Contents]
  BY <1>2
<1> QED
  BY <1>1, <1>3 DEF Trees

\* A file written.
LEMMA FileAdded ==
  ASSUME NEW t \in Trees, NEW x \in Files, NEW v \in Contents
  PROVE  /\ With(t, x, v) \in Trees
         /\ DOMAIN With(t, x, v) = DOMAIN t \cup {x}
         /\ With(t, x, v)[x] = v
         /\ \A y \in DOMAIN t : y # x => With(t, x, v)[y] = t[y]
<1>1. PICK S \in SUBSET Files : t \in [S -> Contents]
  BY DEF Trees
<1> DEFINE u == With(t, x, v)
<1>2. u = [y \in S \cup {x} |-> IF y = x THEN v ELSE t[y]]
  BY <1>1 DEF With
<1>3. u \in [S \cup {x} -> Contents] /\ S \cup {x} \in SUBSET Files
  BY <1>1, <1>2
<1>4. u \in Trees
  BY <1>3 DEF Trees
<1> QED
  BY <1>1, <1>2, <1>4

\* A file removed.
LEMMA FileRemoved ==
  ASSUME NEW t \in Trees, NEW x
  PROVE  /\ Restrict(t, DOMAIN t \ {x}) \in Trees
         /\ DOMAIN Restrict(t, DOMAIN t \ {x}) = DOMAIN t \ {x}
         /\ \A y \in DOMAIN t : y # x => Restrict(t, DOMAIN t \ {x})[y] = t[y]
<1>1. PICK S \in SUBSET Files : t \in [S -> Contents]
  BY DEF Trees
<1> DEFINE w == Restrict(t, DOMAIN t \ {x})
<1>2. w = [y \in S \ {x} |-> t[y]]
  BY <1>1 DEF Restrict
<1>3. w \in [S \ {x} -> Contents] /\ S \ {x} \in SUBSET Files
  BY <1>1, <1>2
<1>4. w \in Trees
  BY <1>3 DEF Trees
<1> QED
  BY <1>1, <1>2, <1>4

\* Trees with the same files of the same content are equal.
LEMMA SameTree ==
  ASSUME NEW t \in Trees, NEW u \in Trees, DOMAIN t = DOMAIN u, \A x \in DOMAIN t : t[x] = u[x]
  PROVE  t = u
<1>1. PICK S \in SUBSET Files : t \in [S -> Contents]
  BY DEF Trees
<1>2. PICK R \in SUBSET Files : u \in [R -> Contents]
  BY DEF Trees
<1>3. S = R
  BY <1>1, <1>2
<1>4. \A x \in S : t[x] = u[x]
  BY <1>1
<1>5. t = [x \in S |-> t[x]] /\ u = [x \in S |-> u[x]]
  BY <1>1, <1>2, <1>3
<1> QED
  BY <1>4, <1>5

\* A new mock has no files.
LEMMA EmptyTree == <<>> \in Trees
<1>1. <<>> \in [{} -> Contents]
  OBVIOUS
<1> QED
  BY <1>1 DEF Trees

\* No command is running.
LEMMA NoClientType ==
    /\ NoClient \in Sessions /\ NoMetadata \in Metas /\ ActiveExists(NoMetadata)
    /\ NoClient.pc = "idle"
    /\ NoClient.op = "none"
    /\ NoClient.path = None
    /\ NoClient.meta = NoMetadata
    /\ NoClient.conf = NoConfig /\ NoConfig \in Configs /\ NoConfig.mock = None
    /\ NoClient.sync = NoSync /\ NoSync \in Syncs /\ ~NoClient.met
<1> DEFINE no == FALSE
<1>1. no \in BOOLEAN /\ ~no
  OBVIOUS
<1>2. NoClient = [pc |-> "idle", op |-> "none", meta |-> NoMetadata, path |-> None, conf |-> NoConfig,
             sync |-> NoSync, met |-> no]
  BY Zenon DEF NoClient
<1> HIDE DEF no
<1>3. NoMetadata \in Metas /\ ActiveExists(NoMetadata)
  <2>1. <<>> \in [{} -> RemoteTypes]
    OBVIOUS
  <2>2. <<>> \in UNION {[S -> RemoteTypes] : S \in SUBSET Names}
    BY <2>1
  <2> QED
    BY <2>2 DEF NoMetadata, Metas, ActiveExists
<1>4. NoConfig \in Configs /\ NoConfig.mock = None
  BY DEF NoConfig, Configs
<1>5. NoSync \in Syncs
  BY DEF NoSync, Syncs
<1>6. "idle" \in ClientPcs
  BY Pcs
<1> QED
  BY <1>1, <1>2, <1>3, <1>4, <1>5, <1>6 DEF Sessions

\* The other commands stay where they are; those that run may have met one.
Others(c) ==
    /\ client' \in [Clients -> Sessions]
    /\ \A d \in Clients : d # c =>
         /\ client'[d].pc = client[d].pc
         /\ client'[d].conf = client[d].conf
         /\ client'[d].op = client[d].op
         /\ client'[d].path = client[d].path /\ client'[d].meta = client[d].meta
         /\ client'[d].sync = client[d].sync
         /\ client[d].met => client'[d].met

\* A command goes on, or ends and leaves nothing behind.
LEMMA GoFacts ==
  ASSUME client \in [Clients -> Sessions], NEW c \in Clients, NEW STATE pc, pc \in ClientPcs, Go(c, pc)
  PROVE  /\ Others(c) /\ client'[c].pc = pc
         /\ \A d \in Clients : d # c => client'[d] = client[d]
         /\ pc \in {"idle", "deployed"} => client'[c].conf = NoConfig /\ client'[c].meta = NoMetadata
         /\ pc \notin {"idle", "deployed"} =>
              /\ client'[c].conf = client[c].conf /\ client'[c].path = client[c].path
              /\ client'[c].sync = client[c].sync /\ client'[c].meta = client[c].meta
              /\ client'[c].met = client[c].met /\ client'[c].op = client[c].op
<1>1. client[c] \in Sessions
  OBVIOUS
<1>2. CASE pc \in ClientEnds
  <2> DEFINE r == [NoClient EXCEPT !.pc = pc]
  <2>1. client' = [client EXCEPT ![c] = r]
    BY <1>2 DEF Go
  <2>2. r \in Sessions /\ r.pc = pc /\ r.conf = NoConfig /\ r.meta = NoMetadata
    BY NoClientType DEF Sessions
  <2> HIDE DEF r
  <2> QED
    BY <1>2, <2>1, <2>2 DEF Others, ClientEnds
<1>3. CASE pc \notin ClientEnds
  <2> DEFINE r == [client[c] EXCEPT !.pc = pc]
  <2>1. client' = [client EXCEPT ![c] = r]
    BY <1>3 DEF Go
  <2>2. /\ r \in Sessions /\ r.pc = pc /\ r.conf = client[c].conf /\ r.path = client[c].path
        /\ r.sync = client[c].sync
        /\ r.meta = client[c].meta
        /\ r.met = client[c].met
        /\ r.op = client[c].op
    BY <1>1 DEF Sessions
  <2> HIDE DEF r
  <2> QED
    BY <1>3, <2>1, <2>2 DEF Others, ClientEnds
<1> QED
  BY <1>2, <1>3

\* A command starts: it and those that run have met each other.
LEMMA StartFacts ==
  ASSUME client \in [Clients -> Sessions], NEW c \in Clients, NEW STATE r, r \in Sessions, Start(c, r)
  PROVE  /\ Others(c) /\ UNCHANGED <<meta, confs>> /\ ~Busy(c)
         /\ \A d \in Clients : d # c => (client'[d].met <=> client[d].met \/ Busy(d))
         /\ client'[c].pc = r.pc
         /\ client'[c].conf = r.conf
         /\ client'[c].path = r.path
         /\ client'[c].op = r.op
         /\ client'[c].sync = r.sync /\ client'[c].meta = r.meta
         /\ client'[c].met <=> \E e \in Clients : Busy(e)
<1> DEFINE met(d) == IF d = c THEN \E e \in Clients : Busy(e) ELSE client[d].met \/ Busy(d)
           now(d) == [(IF d = c THEN r ELSE client[d]) EXCEPT !.met = met(d)]
<1>1. \A d \in Clients : met(d) \in BOOLEAN
  BY Zenon
<1>2. client' = [d \in Clients |-> now(d)]
  <2>1. client' = [d \in Clients |-> IF d = c THEN [r EXCEPT !.met = \E e \in Clients : Busy(e)]
                                    ELSE [client[d] EXCEPT !.met = @ \/ Busy(d)]]
    BY DEF Start
  <2>2. \A d \in Clients : now(d) = IF d = c THEN [r EXCEPT !.met = \E e \in Clients : Busy(e)]
                                    ELSE [client[d] EXCEPT !.met = @ \/ Busy(d)]
    BY Zenon
  <2> QED
    BY <2>1, <2>2, Zenon
<1>3. /\ met(c) <=> \E e \in Clients : Busy(e)
      /\ \A d \in Clients : d # c => (met(d) <=> client[d].met \/ Busy(d))
  BY Zenon
<1> HIDE DEF met
<1>4. \A d \in Clients : LET s == IF d = c THEN r ELSE client[d] IN
        /\ now(d) \in Sessions /\ now(d).met = met(d)
        /\ now(d).pc = s.pc
        /\ now(d).conf = s.conf
        /\ now(d).path = s.path
        /\ now(d).op = s.op
        /\ now(d).sync = s.sync /\ now(d).meta = s.meta
  BY <1>1 DEF Sessions
<1> HIDE DEF now
<1>5. client' \in [Clients -> Sessions] /\ \A d \in Clients : client'[d] = now(d)
  BY <1>2, <1>4
<1>6. UNCHANGED <<meta, confs>> /\ ~Busy(c)
  BY DEF Start
<1> QED
  BY <1>3, <1>4, <1>5, <1>6 DEF Others

\* Who runs with another command knows.
Meets(c) ==
    IF Busy(c) THEN client[c].met /\ Busy(c)' => client'[c].met
    ELSE /\ \A d \in Clients : d # c => (client'[d].met <=> client[d].met \/ Busy(d))
         /\ client'[c].met <=> \E e \in Clients : Busy(e)

\* A step of one command keeps the invariant if it keeps what is about that command
\* and about nobody.
LEMMA Assemble ==
  ASSUME CloudInv, NEW c \in Clients, Others(c), Meets(c), CloudTyped', StoredExist',
         RunsInService', LiveIsWhole',
         Len(mocks) <= Len(mocks'), Placed(c)', Copied(c)', Recorded(c)'
  PROVE  CloudInv'
<1> USE DEF CloudInv
<1>1. \A d \in Clients : d # c => (Busy(d)' <=> Busy(d))
  BY DEF Others, Busy
<1>2. ASSUME NEW d \in Clients, d # c, Busy(d)' PROVE client'[d].met
  <2>1. CASE Busy(c)
    <3>1. client[d].met
      BY <1>1, <1>2, <2>1 DEF Alone
    <3> QED
      BY <1>2, <3>1 DEF Others
  <2>2. CASE ~Busy(c)
    BY <1>1, <1>2, <2>2 DEF Meets
  <2> QED
    BY <2>1, <2>2
<1>3. ASSUME NEW d \in Clients, d # c, Busy(d)', Busy(c)' PROVE client'[c].met
  <2>1. CASE Busy(c)
    <3>1. client[c].met
      BY <1>1, <1>3, <2>1 DEF Alone
    <3> QED
      BY <1>3, <2>1, <3>1 DEF Meets
  <2>2. CASE ~Busy(c)
    BY <1>1, <1>3, <2>2 DEF Meets
  <2> QED
    BY <2>1, <2>2
<1>4. Alone'
  BY <1>2, <1>3 DEF Alone
<1>5. ASSUME NEW d \in Clients, d # c PROVE Placed(d)' /\ Copied(d)' /\ Recorded(d)'
  <2>1. MockIds \subseteq MockIds'
    BY DEF MockIds, CloudTyped
  <2>2. Placed(d)'
    BY <1>5, <2>1 DEF Others, Placed, Mock
  <2>3. client'[d].met \/ client'[d].pc \in {"idle", "deployed"}
    BY <1>2, <1>5 DEF Busy, ClientEnds
  <2> QED
    BY <2>2, <2>3 DEF Copied, Recorded, SyncPcs
<1> QED
  BY <1>4, <1>5

\* A command that ends has nothing more to answer for.
LEMMA EndOK ==
  ASSUME CloudInv, NEW c \in Clients, Busy(c), NEW STATE pc, pc \in {"idle", "deployed"}, Go(c, pc)
  PROVE  /\ Others(c) /\ Meets(c) /\ client' \in [Clients -> Sessions] /\ Placed(c)' /\
                Copied(c)' /\ Recorded(c)'
<1>1. client \in [Clients -> Sessions] /\ pc \in ClientPcs
  BY Pcs DEF CloudInv, CloudTyped
<1>2. /\ Others(c)
      /\ client'[c].pc = pc
      /\ client'[c].conf = NoConfig
      /\ client'[c].meta = NoMetadata
  BY <1>1, GoFacts
<1>3. Meets(c)
  BY <1>2 DEF Meets, Busy, ClientEnds
<1>4. Placed(c)'
  BY <1>2, NoClientType DEF Placed, Mock, SavePcs, SyncPcs
<1>5. Copied(c)' /\ Recorded(c)'
  BY <1>2 DEF Copied, Recorded, SyncPcs
<1> QED
  BY <1>2, <1>3, <1>4, <1>5 DEF Others

\* Where nothing but the commands move.
LEMMA QuietOK ==
  ASSUME CloudInv, UNCHANGED <<meta, confs, mocks, local>>, client' \in [Clients -> Sessions]
  PROVE  CloudTyped' /\ StoredExist' /\ RunsInService' /\ LiveIsWhole' /\ Len(mocks) <= Len(mocks')
<1>1. CloudTyped' /\ RunsInService' /\ LiveIsWhole'
  BY DEF CloudInv, CloudTyped, RunsInService, LiveIsWhole, MockIds
<1>2. StoredExist'
  BY DEF CloudInv, StoredExist, StoredMock, MockIds
<1>3. Len(mocks) \in Nat
  BY DEF CloudInv, CloudTyped
<1> QED
  BY <1>1, <1>2, <1>3

\* A command starts with metadata that names an existing workspace, or to load a
\* configuration.
LEMMA StartKept ==
  ASSUME CloudInv, NEW c \in Clients, NEW STATE r, r \in Sessions, Start(c, r), UNCHANGED <<mocks,
         local>>,
         ActiveExists(r.meta), r.conf = NoConfig, r.pc \in {"truncateMeta", "loadConfig"},
         r.pc = "loadConfig" => r.path \in Paths
  PROVE  CloudInv'
<1>1. client \in [Clients -> Sessions]
  BY DEF CloudInv, CloudTyped
<1>2. /\ Others(c) /\ UNCHANGED <<meta, confs>> /\ ~Busy(c)
      /\ \A d \in Clients : d # c => (client'[d].met <=> client[d].met \/ Busy(d))
      /\ client'[c].pc = r.pc /\ client'[c].conf = r.conf /\ client'[c].path = r.path
      /\ client'[c].meta = r.meta
      /\ client'[c].met <=> \E e \in Clients : Busy(e)
  BY <1>1, StartFacts
<1>3. Meets(c)
  BY <1>2 DEF Meets
<1>4. Placed(c)'
  BY <1>2, NoClientType DEF Placed, Mock, SavePcs, SyncPcs
<1>5. Copied(c)' /\ Recorded(c)'
  BY <1>2 DEF Copied, Recorded, SyncPcs
<1> QED
  BY <1>2, <1>3, <1>4, <1>5, QuietOK, Assemble DEF Others

\* What a command makes of the metadata it read is metadata, its active workspace one
\* of them.
LEMMA MetaOps ==
  ASSUME NEW m \in Metas, ActiveExists(m), NEW n \in Names
  PROVE  /\ WithWorkspace(m, n) \in Metas /\ ActiveExists(WithWorkspace(m, n))
         /\ WithoutWorkspace(m, n) \in Metas /\ ActiveExists(WithoutWorkspace(m, n))
         /\ n \in DOMAIN m.spaces => WithActive(m, n) \in Metas /\ ActiveExists(WithActive(m, n))
         /\ \A t \in RemoteTypes : m.active # None =>
                WithType(m, t) \in Metas /\ ActiveExists(WithType(m, t))
<1>1. PICK S \in SUBSET Names : m.spaces \in [S -> RemoteTypes]
  BY DEF Metas
<1>2. m.active \in Names \cup {None} /\ m = [active |-> m.active, spaces |-> m.spaces]
  BY DEF Metas
<1>3. ASSUME NEW a \in Names \cup {None}, NEW R \in SUBSET Names, NEW g \in [R -> RemoteTypes],
             a \in R \cup {None}
      PROVE  [active |-> a, spaces |-> g] \in Metas /\ ActiveExists([active |-> a, spaces |-> g])
  <2>1. g \in UNION {[Q -> RemoteTypes] : Q \in SUBSET Names}
    OBVIOUS
  <2> QED
    BY <1>3, <2>1 DEF Metas, ActiveExists
<1>4. m.active \in S \cup {None}
  BY <1>1 DEF ActiveExists
<1>5. WithWorkspace(m, n) \in Metas /\ ActiveExists(WithWorkspace(m, n))
  <2>1. With(m.spaces, n, "mockscloud") \in [S \cup {n} -> RemoteTypes]
    BY <1>1 DEF With, RemoteTypes
  <2> QED
    BY <1>2, <1>3, <1>4, <2>1 DEF WithWorkspace
<1>6. WithoutWorkspace(m, n) \in Metas /\ ActiveExists(WithoutWorkspace(m, n))
  <2>1. Restrict(m.spaces, DOMAIN m.spaces \ {n}) \in [S \ {n} -> RemoteTypes]
    BY <1>1 DEF Restrict
  <2> QED
    BY <1>2, <1>3, <1>4, <2>1 DEF WithoutWorkspace
<1>7. ASSUME n \in DOMAIN m.spaces PROVE WithActive(m, n) \in Metas /\ ActiveExists(WithActive(m, n))
  <2>1. WithActive(m, n) = [active |-> n, spaces |-> m.spaces]
    BY <1>2 DEF WithActive
  <2> QED
    BY <1>1, <1>3, <1>7, <2>1
<1>8. ASSUME NEW t \in RemoteTypes,
             m.active # None PROVE WithType(m, t) \in Metas /\ ActiveExists(WithType(m, t))
  <2>1. WithType(m, t) = [active |-> m.active, spaces |-> [m.spaces EXCEPT ![m.active] = t]]
    BY <1>2 DEF WithType
  <2>2. [m.spaces EXCEPT ![m.active] = t] \in [S -> RemoteTypes]
    BY <1>1
  <2> QED
    BY <1>2, <1>3, <1>4, <2>1, <2>2
<1> QED
  BY <1>5, <1>6, <1>7, <1>8

\* A command that will write the metadata starts.
LEMMA SavesKept ==
  ASSUME CloudInv, NEW c \in Clients, NEW STATE m, m \in Metas, ActiveExists(m), Saves(c, m),
         UNCHANGED <<mocks, local>>
  PROVE  CloudInv'
<1> DEFINE r == [NoClient EXCEPT !.pc = "truncateMeta", !.meta = m]
<1>1. r \in Sessions /\ r.pc = "truncateMeta" /\ r.meta = m /\ r.conf = NoConfig
  BY NoClientType, Pcs DEF Sessions
<1>2. Start(c, r)
  BY DEF Saves
<1> HIDE DEF r
<1> QED
  BY <1>1, <1>2, StartKept

\* A command that reads the configuration first starts.
LEMMA LoadsKept ==
  ASSUME CloudInv, NEW c \in Clients, NEW op \in {"config", "deploy", "undeploy"}, Loads(c, op),
         UNCHANGED <<mocks, local>>
  PROVE  CloudInv'
<1> DEFINE path == ConfigPath(meta.spaces[meta.active], meta.active)
           r == [NoClient EXCEPT !.pc = "loadConfig", !.op = op, !.path = path]
<1>1. meta # Torn /\ meta.active # None /\ Start(c, r)
  BY DEF Loads
<1>2. path \in Paths
  <2>1. meta \in Metas /\ meta.active \in DOMAIN meta.spaces
    BY <1>1 DEF CloudInv, CloudTyped, ActiveExists
  <2>2. PICK S \in SUBSET Names : meta.spaces \in [S -> RemoteTypes]
    BY <2>1 DEF Metas
  <2> QED
    BY <2>1, <2>2 DEF Paths, ConfigPath
<1> HIDE DEF path
<1>3. /\ r \in Sessions
      /\ r.pc = "loadConfig"
      /\ r.meta = NoMetadata
      /\ r.conf = NoConfig
      /\ r.path = path
  BY <1>2, NoClientType, Pcs DEF Sessions
<1> HIDE DEF r
<1> QED
  BY <1>1, <1>2, <1>3, NoClientType, StartKept

\* The beginnings of all commands.
LEMMA BeginKept ==
  ASSUME CloudInv, NEW c \in Clients, UNCHANGED <<mocks, local>>,
         \/ \E n \in Names : NewWorkspace(c, n) \/ DeleteWorkspace(c, n) \/ SetActive(c, n)
         \/ \E t \in RemoteTypes : SetType(c, t)
         \/ SetConfigValue(c) \/ CloudDeploy(c) \/ CloudUndeploy(c)
  PROVE  CloudInv'
<1>1. meta # Torn => meta \in Metas /\ ActiveExists(meta)
  BY DEF CloudInv, CloudTyped
<1>2. CASE \E n \in Names : NewWorkspace(c, n) \/ DeleteWorkspace(c, n) \/ SetActive(c, n)
  BY <1>1, <1>2, MetaOps, SavesKept DEF NewWorkspace, DeleteWorkspace, SetActive
<1>3. CASE \E t \in RemoteTypes : SetType(c, t)
  <2>1. PICK t \in RemoteTypes : /\ meta # Torn
                                 /\ meta.active # None
                                 /\ Saves(c, WithType(meta, t))
    BY <1>3 DEF SetType
  <2>2. meta.active \in Names
    BY <1>1, <2>1 DEF Metas
  <2> QED
    BY <1>1, <2>1, <2>2, MetaOps, SavesKept
<1>4. CASE SetConfigValue(c) \/ CloudDeploy(c) \/ CloudUndeploy(c)
  BY <1>4, LoadsKept DEF SetConfigValue, CloudDeploy, CloudUndeploy
<1> QED
  BY <1>2, <1>3, <1>4

\* A command that goes on meets nobody new.
LEMMA GoOnMeets ==
  ASSUME client \in [Clients -> Sessions], NEW c \in Clients, Busy(c), Others(c),
         client'[c].met = client[c].met
  PROVE  Meets(c)
  BY DEF Meets

\* An error, or Ctrl+C.
LEMMA FailsKept ==
  ASSUME CloudInv, NEW c \in Clients, CommandFails(c), UNCHANGED <<mocks, local>>
  PROVE  CloudInv'
  BY EndOK, QuietOK, Assemble DEF CommandFails

\* A command loads the configuration: its mock exists.
LEMMA LoadConfigKept ==
  ASSUME CloudInv, NEW c \in Clients, LoadConfig(c), UNCHANGED <<mocks, local>>
  PROVE  CloudInv'
<1> DEFINE stored == confs[client[c].path]
           conf == IF stored = None THEN NoConfig ELSE stored
           pc == AfterLoad(client[c].op, conf)
<1>1. /\ client[c].pc = "loadConfig"
      /\ UNCHANGED <<meta, confs, mocks, local>>
      /\ client[c] \in Sessions
      /\ client[c].path \in Paths /\ client \in [Clients -> Sessions]
  BY DEF LoadConfig, At, CloudInv, CloudTyped, Placed
<1>2. Busy(c)
  BY <1>1 DEF Busy, ClientEnds
<1>3. CASE stored = Torn
  BY <1>1, <1>2, <1>3, EndOK, QuietOK, Assemble DEF LoadConfig
<1>4. CASE stored # Torn
  <2> DEFINE r == [client[c] EXCEPT !.conf = conf, !.pc = pc]
  <2>1. client' = [client EXCEPT ![c] = r]
    BY <1>4 DEF LoadConfig
  <2>2. /\ stored \in {None, Torn} \cup Configs
        /\ StoredMock(client[c].path) \in MockIds \cup {None, 0}
    BY <1>1 DEF CloudInv, CloudTyped, StoredExist
  <2>3. conf \in Configs /\ conf.mock = StoredMock(client[c].path)
    BY <1>4, <2>2, NoClientType DEF StoredMock, Configs
  <2>4. /\ pc \in {"truncateConfig", "createMock", "draft"}
        /\ (pc = "createMock" => conf.mock = None)
    BY DEF AfterLoad
  <2> HIDE DEF conf, pc
  <2>5. /\ r \in Sessions
        /\ r.pc = pc
        /\ r.conf = conf
        /\ r.path = client[c].path
        /\ r.meta = client[c].meta
        /\ r.met = client[c].met
    BY <1>1, <2>3, <2>4, Pcs DEF Sessions
  <2> HIDE DEF r
  <2>6. Others(c) /\ client'[c] = r
    BY <1>1, <2>1, <2>5 DEF Others
  <2>7. Placed(c)'
    BY <1>1, <2>2, <2>3, <2>4, <2>5, <2>6 DEF Placed, Mock, MockIds, SyncPcs, CloudInv
  <2>8. Copied(c)' /\ Recorded(c)'
    BY <1>1, <2>3, <2>4, <2>5, <2>6 DEF Copied, Recorded, SyncPcs, StoredMock, Mock
  <2>9. Meets(c)
    BY <1>1, <1>2, <2>5, <2>6, GoOnMeets
  <2> QED
    BY <1>1, <2>6, <2>7, <2>8, <2>9, QuietOK, Assemble DEF Others
<1> QED
  BY <1>3, <1>4

\* The user sets a mock's ID: that of one that exists, or of none.
LEMMA SetMockIdKept ==
  ASSUME CloudInv, NEW c \in Clients, SetMockId(c)
  PROVE  CloudInv'
<1>1. PICK i \in MockIds \cup {0, None} :
        client' = [client EXCEPT ![c].conf.mock = i, ![c].op = "mockId", ![c].pc = "truncateConfig"]
  <2>1. DOMAIN mocks = MockIds
    BY DEF MockIds, CloudInv, CloudTyped
  <2> QED
    BY <2>1 DEF SetMockId
<1>2. /\ client[c].pc = "loadConfig" /\ UNCHANGED <<meta, confs, mocks, local>>
      /\ client[c] \in Sessions /\ client[c].conf \in Configs
      /\ client[c].path \in Paths /\ client \in [Clients -> Sessions] /\ Placed(c)
  BY DEF SetMockId, At, CloudRest, CloudInv, CloudTyped, Placed, Sessions
<1>3. Busy(c)
  BY <1>2 DEF Busy, ClientEnds
<1> DEFINE conf == [client[c].conf EXCEPT !.mock = i]
           r == [client[c] EXCEPT !.conf = conf, !.op = "mockId", !.pc = "truncateConfig"]
<1>4. conf \in Configs /\ conf.mock = i
  <2>1. i \in Nat \cup {None}
    BY <1>1 DEF MockIds
  <2> QED
    BY <1>2, <2>1 DEF Configs
<1>5. client' = [client EXCEPT ![c] = r]
  BY <1>1, <1>2
<1> HIDE DEF conf
<1>6. /\ r \in Sessions /\ r.pc = "truncateConfig" /\ r.op = "mockId" /\ r.conf = conf
      /\ r.path = client[c].path /\ r.meta = client[c].meta /\ r.met = client[c].met
  BY <1>2, <1>4, Pcs DEF Sessions
<1> HIDE DEF r
<1>7. Others(c) /\ client'[c] = r
  BY <1>2, <1>5, <1>6 DEF Others
<1>8. Placed(c)'
  BY <1>1, <1>2, <1>4, <1>6, <1>7 DEF Placed, Mock, MockIds, SyncPcs
<1>9. Copied(c)' /\ Recorded(c)'
  BY <1>6, <1>7 DEF Copied, Recorded, SyncPcs
<1>10. Meets(c)
  BY <1>2, <1>3, <1>6, <1>7, GoOnMeets
<1> QED
  BY <1>2, <1>7, <1>8, <1>9, <1>10, QuietOK, Assemble DEF Others

\* Only the file of one configuration changes.
LEMMA ConfsOK ==
  ASSUME CloudInv, UNCHANGED <<meta, mocks, local>>, client' \in [Clients -> Sessions],
         NEW path \in Paths, NEW STATE w, w \in {None, Torn} \cup Configs,
         confs' = [confs EXCEPT ![path] = w],
         w \in Configs => w.mock \in MockIds \cup {None, 0}
  PROVE  /\ CloudTyped' /\ StoredExist' /\ RunsInService' /\ LiveIsWhole' /\ Len(mocks) <= Len(mocks')
         /\ \A other \in Paths : other # path => confs'[other] = confs[other]
         /\ confs'[path] = w
<1>1. CloudTyped' /\ RunsInService' /\ LiveIsWhole'
  BY DEF CloudInv, CloudTyped, RunsInService, LiveIsWhole, MockIds
<1>2. \A p \in Paths : confs'[p] = IF p = path THEN w ELSE confs[p]
  BY DEF CloudInv, CloudTyped
<1>3. StoredExist'
  BY <1>2 DEF CloudInv, StoredExist, StoredMock, MockIds
<1>4. Len(mocks) \in Nat
  BY DEF CloudInv, CloudTyped
<1> QED
  BY <1>1, <1>2, <1>3, <1>4

\* The configuration is truncated.
LEMMA TruncateConfigKept ==
  ASSUME CloudInv, NEW c \in Clients, TruncateConfig(c), UNCHANGED <<mocks, local>>
  PROVE  CloudInv'
<1>1. /\ client[c].pc = "truncateConfig"
      /\ UNCHANGED <<meta, mocks, local>>
      /\ client[c].path \in Paths
      /\ confs' = [confs EXCEPT ![client[c].path] = Torn] /\ Go(c, "fillConfig")
      /\ client \in [Clients -> Sessions] /\ "fillConfig" \in ClientPcs /\ Busy(c)
  BY Pcs DEF TruncateConfig, At, CloudInv, CloudTyped, Placed, SavePcs
<1>2. /\ Others(c) /\ client'[c].pc = "fillConfig" /\ client'[c].conf = client[c].conf
      /\ client'[c].path = client[c].path
      /\ client'[c].meta = client[c].meta
      /\ client'[c].met = client[c].met
  BY <1>1, GoFacts
<1>3. /\ CloudTyped'
      /\ StoredExist'
      /\ RunsInService'
      /\ LiveIsWhole'
      /\ Len(mocks) <= Len(mocks')
      /\ confs'[client[c].path] = Torn
  <2>1. Torn \notin Configs
    BY DEF Configs
  <2> QED
    BY <1>1, <1>2, <2>1, ConfsOK, ZenonT(60) DEF Others
<1>4. Placed(c)'
  BY <1>1, <1>2 DEF Placed, Mock, MockIds, SyncPcs, SavePcs, CloudInv
<1>5. Copied(c)' /\ Recorded(c)'
  BY <1>2, <1>3 DEF Copied, Recorded, SyncPcs
<1> QED
  BY <1>1, <1>2, <1>3, <1>4, <1>5, GoOnMeets, Assemble

\* And written.
LEMMA SaveConfigKept ==
  ASSUME CloudInv, NEW c \in Clients, SaveConfig(c), UNCHANGED <<mocks, local>>
  PROVE  CloudInv'
<1>1. /\ client[c].pc = "fillConfig"
      /\ UNCHANGED <<meta, mocks, local>>
      /\ client[c].path \in Paths
      /\ client \in [Clients -> Sessions] /\ client[c] \in Sessions /\ Busy(c)
      /\ Mock(c) \in MockIds \cup {None, 0}
  BY Pcs DEF SaveConfig, At, CloudInv, CloudTyped, Placed, SavePcs
<1>2. PICK w \in Written(confs[client[c].path], client[c].conf) :
               confs' = [confs EXCEPT ![client[c].path] = w]
  BY DEF SaveConfig
<1>3. w \in {None, Torn} \cup Configs /\ (w \in Configs => w.mock \in MockIds \cup {None, 0})
  <2>1. client[c].conf \in Configs /\ Torn \notin Configs
    BY <1>1 DEF Sessions, Configs
  <2> QED
    BY <1>1, <1>2, <2>1 DEF Written, Mock
<1>4. CASE client[c].op = "deploy"
  <2>1. Go(c, "draft") /\ "draft" \in ClientPcs
    BY <1>4, Pcs DEF SaveConfig
  <2>2. /\ Others(c) /\ client'[c].pc = "draft" /\ client'[c].conf = client[c].conf
        /\ client'[c].path = client[c].path
        /\ client'[c].meta = client[c].meta
        /\ client'[c].met = client[c].met
    BY <1>1, <2>1, GoFacts
  <2>3. /\ CloudTyped'
        /\ StoredExist'
        /\ RunsInService'
        /\ LiveIsWhole'
        /\ Len(mocks) <= Len(mocks')
    BY <1>1, <1>2, <1>3, <2>2, ConfsOK DEF Others
  <2>4. Placed(c)'
    BY <1>1, <2>2 DEF Placed, Mock, MockIds, SyncPcs, SavePcs, CloudInv
  <2>5. Copied(c)' /\ Recorded(c)'
    BY <2>2 DEF Copied, Recorded, SyncPcs
  <2> QED
    BY <1>1, <2>2, <2>3, <2>4, <2>5, GoOnMeets, Assemble
<1>5. CASE client[c].op # "deploy"
  <2>1. Go(c, "idle")
    BY <1>5 DEF SaveConfig
  <2>2. /\ Others(c)
        /\ Meets(c)
        /\ client' \in [Clients -> Sessions]
        /\ Placed(c)'
        /\ Copied(c)'
        /\ Recorded(c)'
    BY <1>1, <2>1, EndOK
  <2>3. /\ CloudTyped'
        /\ StoredExist'
        /\ RunsInService'
        /\ LiveIsWhole'
        /\ Len(mocks) <= Len(mocks')
    BY <1>1, <1>2, <1>3, <2>2, ConfsOK
  <2> QED
    BY <2>2, <2>3, Assemble
<1> QED
  BY <1>4, <1>5

\* The metadata is truncated, or written.
LEMMA MetadataKept ==
  ASSUME CloudInv, NEW c \in Clients, TruncateMetadata(c) \/ SaveMetadata(c), UNCHANGED <<mocks, local>>
  PROVE  CloudInv'
<1>1. /\ client \in [Clients -> Sessions]
      /\ client[c] \in Sessions
      /\ UNCHANGED <<confs, mocks, local>>
      /\ client[c].pc \in {"truncateMeta", "fillMeta"} /\ Busy(c) /\ Placed(c)
  BY Pcs DEF TruncateMetadata, SaveMetadata, At, CloudInv, CloudTyped
<1>2. ASSUME client' \in [Clients -> Sessions], meta' = Torn \/ (meta' \in Metas /\ ActiveExists(meta'))
      PROVE  CloudTyped' /\ StoredExist' /\ RunsInService' /\ LiveIsWhole' /\ Len(mocks) <= Len(mocks')
  <2>1. CloudTyped' /\ RunsInService' /\ LiveIsWhole'
    BY <1>1, <1>2 DEF CloudInv, CloudTyped, RunsInService, LiveIsWhole, MockIds,
         ActiveExists
  <2>2. StoredExist'
    BY <1>1 DEF CloudInv, StoredExist, StoredMock, MockIds
  <2>3. Len(mocks) \in Nat
    BY DEF CloudInv, CloudTyped
  <2> QED
    BY <1>1, <2>1, <2>2, <2>3
<1>3. CASE TruncateMetadata(c)
  <2>1. meta' = Torn /\ Go(c, "fillMeta") /\ "fillMeta" \in ClientPcs
    BY <1>3, Pcs DEF TruncateMetadata
  <2>2. /\ Others(c) /\ client'[c].pc = "fillMeta" /\ client'[c].conf = client[c].conf
        /\ client'[c].path = client[c].path
        /\ client'[c].meta = client[c].meta
        /\ client'[c].met = client[c].met
    BY <1>1, <2>1, GoFacts
  <2>3. Placed(c)' /\ Copied(c)' /\ Recorded(c)'
    BY <1>1, <2>2 DEF Placed, Copied, Recorded, Mock, MockIds, SyncPcs, SavePcs
  <2> QED
    BY <1>1, <1>2, <2>1, <2>2, <2>3, GoOnMeets, Assemble DEF Others
<1>4. CASE SaveMetadata(c)
  <2>1. Go(c, "idle") /\ (meta' = Torn \/ meta' = client[c].meta)
    BY <1>4 DEF SaveMetadata, Written
  <2>2. client[c].meta \in Metas /\ ActiveExists(client[c].meta)
    BY <1>1 DEF Sessions, Placed
  <2>3. /\ Others(c)
        /\ Meets(c)
        /\ client' \in [Clients -> Sessions]
        /\ Placed(c)'
        /\ Copied(c)'
        /\ Recorded(c)'
    BY <1>1, <2>1, EndOK
  <2> QED
    BY <1>2, <2>1, <2>2, <2>3, Assemble
<1> QED
  BY <1>3, <1>4

\* One mock changes, and stays whole where it is in service.
LEMMA MockOK ==
  ASSUME CloudInv, UNCHANGED <<meta, confs, local>>, client' \in [Clients -> Sessions],
         NEW i \in MockIds, NEW STATE r, r \in MockRecords, mocks' = [mocks EXCEPT ![i] = r],
         r.status # "inactive" => r.state = "LIVE",
         DirClean /\ r.state = "LIVE" /\ ~r.mixed => r.files \in Directories
  PROVE  /\ CloudTyped' /\ StoredExist' /\ RunsInService' /\ LiveIsWhole' /\ Len(mocks) <= Len(mocks')
         /\ MockIds' = MockIds /\ mocks'[i] = r
<1>1. PICK len \in Nat : len = Len(mocks) /\ mocks \in [1..len -> MockRecords]
  BY DEF CloudInv, CloudTyped
<1>2. i \in 1..len
  BY <1>1 DEF MockIds
<1>3. mocks' \in [1..len -> MockRecords]
  BY <1>2, <1>1
<1>4. mocks' \in Seq(MockRecords)
  BY <1>3, IsSeq
<1>5. Len(mocks') = len /\ DOMAIN mocks' = 1..len /\ DOMAIN mocks = 1..len
  BY <1>1, <1>3, <1>4
<1>6. MockIds' = MockIds
  BY <1>1, <1>5 DEF MockIds
<1>7. \A j \in MockIds : mocks'[j] = IF j = i THEN r ELSE mocks[j]
  BY <1>1 DEF MockIds
<1>8. CloudTyped'
  BY <1>4 DEF CloudInv, CloudTyped, ActiveExists
<1>9. StoredExist'
  BY <1>6 DEF CloudInv, StoredExist, StoredMock
<1>10. RunsInService' /\ LiveIsWhole'
  BY <1>1, <1>5, <1>6, <1>7 DEF CloudInv, RunsInService, LiveIsWhole, MockIds
<1> QED
  BY <1>1, <1>5, <1>6, <1>7, <1>8, <1>9, <1>10

\* A mock is created.
LEMMA EnsureMockKept ==
  ASSUME CloudInv, NEW c \in Clients, EnsureMockExists(c)
  PROVE  CloudInv'
<1> DEFINE no == FALSE
           new == [state |-> "DRAFT", status |-> "inactive", files |-> <<>>, mixed |-> no]
<1>1. /\ client[c].pc = "createMock"
      /\ UNCHANGED <<meta, confs, local>>
      /\ client[c].path \in Paths
      /\ client \in [Clients -> Sessions] /\ client[c] \in Sessions /\ Busy(c) /\ Placed(c)
  BY Pcs DEF EnsureMockExists, At, CloudRest, CloudInv, CloudTyped, Placed, SavePcs
<1>2. mocks' = Append(mocks, new) /\ no \in BOOLEAN /\ ~no
  BY Zenon DEF EnsureMockExists
<1> HIDE DEF no
<1>3. new \in MockRecords /\ new.state = "DRAFT" /\ new.status = "inactive"
  BY <1>2, EmptyTree DEF MockRecords
<1> HIDE DEF new
<1>4. PICK len \in Nat : len = Len(mocks) /\ mocks \in Seq(MockRecords)
  BY DEF CloudInv, CloudTyped
<1>5. /\ Len(mocks') = len + 1 /\ mocks' \in Seq(MockRecords) /\ mocks'[len + 1] = new
      /\ \A i \in 1..len : mocks'[i] = mocks[i]
      /\ MockIds = 1..len
      /\ MockIds' = 1..(len + 1)
      /\ DOMAIN mocks = 1..len
      /\ DOMAIN mocks' = 1..(len + 1)
  BY <1>2, <1>3, <1>4 DEF MockIds
<1>6. RunsInService' /\ LiveIsWhole'
  <2> SUFFICES ASSUME NEW i \in 1..(len + 1)
               PROVE  /\ mocks'[i].status # "inactive" => mocks'[i].state = "LIVE"
                      /\ DirClean /\ mocks'[i].state = "LIVE" /\ ~mocks'[i].mixed =>
                             mocks'[i].files \in Directories
    BY <1>5 DEF RunsInService, LiveIsWhole
  <2>1. CASE i = len + 1
    BY <1>3, <1>5, <2>1
  <2>2. CASE i \in 1..len
    BY <1>5, <2>2 DEF CloudInv, RunsInService, LiveIsWhole
  <2> QED
    BY <1>4, <2>1, <2>2
<1>7. StoredExist'
  <2>1. \A path \in Paths : StoredMock(path)' = StoredMock(path)
    BY <1>1 DEF StoredMock
  <2> QED
    BY <1>5, <2>1 DEF CloudInv, StoredExist
<1>8. ASSUME client' \in [Clients -> Sessions] PROVE CloudTyped'
  BY <1>1, <1>5, <1>8 DEF CloudInv, CloudTyped, ActiveExists
<1>9. CASE Go(c, "idle")
  BY <1>1, <1>4, <1>5, <1>6, <1>7, <1>8, <1>9, EndOK, Assemble
<1>10. CASE client' = [client EXCEPT ![c].conf.mock = Len(mocks'), ![c].pc = "truncateConfig"]
  <2>1. PICK id \in Nat : id = len + 1 /\ id = Len(mocks')
    BY <1>5
  <2> DEFINE r == [client[c] EXCEPT !.conf.mock = id, !.pc = "truncateConfig"]
  <2>2. client[c].conf \in Configs
    BY <1>1 DEF Sessions
  <2>3. /\ r \in Sessions
        /\ r.pc = "truncateConfig"
        /\ r.conf.mock = id
        /\ r.path = client[c].path
        /\ r.meta = client[c].meta /\ r.met = client[c].met
    BY <1>1, <2>2, Pcs DEF Sessions, Configs
  <2>4. client' = [client EXCEPT ![c] = r]
    BY <1>10, <2>1
  <2> HIDE DEF r
  <2>5. Others(c) /\ client'[c] = r
    BY <1>1, <2>3, <2>4 DEF Others
  <2>6. Placed(c)'
    BY <1>1, <1>5, <2>1, <2>3, <2>5 DEF Placed, Mock, SyncPcs
  <2>7. Copied(c)'
    BY <2>3, <2>5 DEF Copied, SyncPcs
  <2>8. PICK path \in Paths : path = client[c].path /\ path = client'[c].path
    BY <1>1, <2>3, <2>5
  <2>9. ~client'[c].met => StoredMock(path)' = None
    BY <1>1, <2>3, <2>5, <2>8 DEF CloudInv, Recorded, StoredMock
  <2>10. Copied(c)' /\ Recorded(c)'
    BY <2>3, <2>5, <2>7, <2>8, <2>9 DEF Recorded, StoredMock
  <2>11. Meets(c)
    BY <1>1, <2>3, <2>5, GoOnMeets
  <2> QED
    BY <1>4, <1>5, <1>6, <1>7, <1>8, <2>5, <2>6, <2>10, <2>11, Assemble DEF Others
<1> QED
  BY <1>9, <1>10 DEF EnsureMockExists

\* What SetState makes of a mock: in service again, it is mixed only by the deploy at
\* hand.
LEMMA SetStateFacts ==
  ASSUME CloudInv, NEW c \in Clients, Mock(c) \in MockIds, NEW state \in {"DRAFT", "LIVE"},
         SetState(c, state)
  PROVE  /\ mocks[Mock(c)] \in MockRecords
         /\ \E r \in MockRecords :
              /\ mocks' = [mocks EXCEPT ![Mock(c)] = r]
              /\ r.state = state /\ r.status = "inactive" /\ r.files = mocks[Mock(c)].files
              /\ r.mixed <=> client[c].met \/ (mocks[Mock(c)].mixed /\ state # "LIVE")
<1> DEFINE i == Mock(c)
           m == mocks[i]
           mixed == client[c].met \/ (mocks[i].mixed /\ state # "LIVE")
           r == [m EXCEPT !.state = state, !.status = "inactive", !.mixed = mixed]
<1>1. m \in MockRecords
  BY DEF CloudInv, CloudTyped, MockIds
<1>2. mixed \in BOOLEAN /\ (mixed <=> client[c].met \/ (mocks[i].mixed /\ state # "LIVE"))
  BY Zenon
<1>3. mocks' = [mocks EXCEPT ![i].state = state, ![i].status = "inactive", ![i].mixed = mixed]
  BY Zenon DEF SetState
<1> HIDE DEF mixed
<1>4. mocks' = [mocks EXCEPT ![i] = r]
  BY <1>1, <1>3
<1>5. /\ r \in MockRecords
      /\ r.state = state
      /\ r.status = "inactive"
      /\ r.files = m.files
      /\ r.mixed = mixed
  BY <1>1, <1>2 DEF MockRecords
<1> HIDE DEF r
<1> QED
  BY <1>1, <1>2, <1>4, <1>5

\* A deploy goes on to its next step.
LEMMA WentOn ==
  ASSUME CloudInv, NEW c \in Clients, Busy(c), NEW pc \in SyncPcs, Go(c, pc)
  PROVE  /\ Others(c) /\ Meets(c) /\ client' \in [Clients -> Sessions]
         /\ client'[c].pc = pc
         /\ client'[c].conf = client[c].conf
         /\ client'[c].sync = client[c].sync
         /\ client'[c].meta = client[c].meta /\ client'[c].met = client[c].met
<1>1. client \in [Clients -> Sessions] /\ pc \in ClientPcs /\ pc \notin {"idle", "deployed"}
  BY Pcs DEF CloudInv, CloudTyped, SyncPcs
<1> QED
  BY <1>1, GoFacts, GoOnMeets DEF Others

\* A mock is taken out of service.
LEMMA SetDraftKept ==
  ASSUME CloudInv, NEW c \in Clients, SetDraft(c)
  PROVE  CloudInv'
<1>1. /\ client[c].pc = "draft" /\ UNCHANGED <<meta, confs, local>> /\ Mock(c) \in MockIds
      /\ Busy(c) /\ Placed(c) /\ SetState(c, "DRAFT") /\ Mock(c) # None
  BY Pcs DEF SetDraft, At, CloudRest, CloudInv, CloudTyped, MockIds
<1>2. PICK r \in MockRecords :
        /\ mocks' = [mocks EXCEPT ![Mock(c)] = r]
        /\ r.state = "DRAFT" /\ r.status = "inactive"
  BY <1>1, SetStateFacts
<1>3. ASSUME client' \in [Clients -> Sessions]
      PROVE  /\ CloudTyped' /\ StoredExist' /\ RunsInService' /\ LiveIsWhole' /\ Len(mocks) <=
                    Len(mocks')
             /\ MockIds' = MockIds /\ mocks'[Mock(c)] = r
  BY <1>1, <1>2, <1>3, MockOK
<1>4. CASE Go(c, "idle")
  BY <1>1, <1>3, <1>4, EndOK, Assemble
<1>5. CASE Go(c, "list")
  <2>1. /\ Others(c) /\ Meets(c) /\ client' \in [Clients -> Sessions]
        /\ client'[c].pc = "list" /\ client'[c].conf = client[c].conf
        /\ client'[c].meta = client[c].meta /\ client'[c].met = client[c].met
    BY <1>1, <1>5, WentOn DEF SyncPcs
  <2>2. Placed(c)' /\ Recorded(c)'
    BY <1>1, <1>3, <2>1 DEF Placed, Recorded, Mock, SavePcs
  <2>3. Copied(c)'
    BY <1>2, <1>3, <2>1 DEF Copied, Mock
  <2> QED
    BY <1>3, <2>1, <2>2, <2>3, Assemble
<1> QED
  BY <1>4, <1>5 DEF SetDraft, Answered

\* A mock is put into service: if its deploy met nobody, it holds the directory.
LEMMA SetLiveKept ==
  ASSUME CloudInv, NEW c \in Clients, SetLive(c)
  PROVE  CloudInv'
<1>1. /\ client[c].pc = "delete"
      /\ UNCHANGED <<meta, confs, local>>
      /\ Mock(c) \in MockIds
      /\ Copied(c)
      /\ Busy(c)
      /\ Placed(c)
      /\ SetState(c, "LIVE")
      /\ client[c].sync.todo = {}
      /\ client \in [Clients -> Sessions] /\ client[c] \in Sessions
  BY Pcs DEF SetLive, At, CloudRest, CloudInv, CloudTyped, Placed, SyncPcs
<1>2. PICK r \in MockRecords :
        /\ mocks' = [mocks EXCEPT ![Mock(c)] = r]
        /\ r.state = "LIVE" /\ r.status = "inactive" /\ r.files = mocks[Mock(c)].files
        /\ r.mixed <=> client[c].met
  BY <1>1, SetStateFacts
<1>3. DirClean /\ ~client[c].met => r.files = local
  <2> SUFFICES ASSUME DirClean, ~client[c].met PROVE r.files = local
    OBVIOUS
  <2>1. /\ DOMAIN r.files \subseteq DOMAIN local
        /\ \A x \in DOMAIN local : x \in DOMAIN r.files /\ r.files[x] = local[x]
    BY <1>1, <1>2 DEF Copied, SyncPcs
  <2>2. r.files \in Trees /\ local \in Trees
    BY <1>2, DirectoryTree DEF MockRecords, CloudInv, CloudTyped
  <2> QED
    BY <2>1, <2>2, SameTree
<1>4. ASSUME client' \in [Clients -> Sessions]
      PROVE  /\ CloudTyped' /\ StoredExist' /\ RunsInService' /\ LiveIsWhole' /\ Len(mocks) <=
                    Len(mocks')
             /\ MockIds' = MockIds /\ mocks'[Mock(c)] = r
  <2>1. local \in Directories
    BY DEF CloudInv, CloudTyped
  <2> QED
    BY <1>1, <1>2, <1>3, <1>4, <2>1, MockOK, ZenonT(60)
<1>5. CASE Go(c, "idle")
  BY <1>1, <1>4, <1>5, EndOK, Assemble
<1>6. CASE client' = [client EXCEPT ![c].pc = "wait", ![c].sync = NoSync]
  <2> DEFINE s == [client[c] EXCEPT !.pc = "wait", !.sync = NoSync]
  <2>1. /\ s \in Sessions /\ s.pc = "wait" /\ s.conf = client[c].conf
        /\ s.meta = client[c].meta /\ s.met = client[c].met
    BY <1>1, NoClientType, Pcs DEF Sessions
  <2>2. client' = [client EXCEPT ![c] = s]
    BY <1>1, <1>6
  <2> HIDE DEF s
  <2>3. Others(c) /\ client'[c] = s
    BY <1>1, <2>1, <2>2 DEF Others
  <2>4. Meets(c)
    BY <1>1, <2>1, <2>3, GoOnMeets
  <2>5. Placed(c)' /\ Recorded(c)'
    BY <1>1, <1>4, <2>1, <2>3 DEF Placed, Recorded, Mock, SavePcs, Others
  <2>6. Copied(c)'
    BY <1>1, <1>2, <1>3, <1>4, <2>1, <2>3 DEF Copied, Mock, Others
  <2> QED
    BY <1>4, <2>3, <2>4, <2>5, <2>6, Assemble DEF Others
<1> QED
  BY <1>5, <1>6 DEF SetLive

\* The files of one mock change, those of a deploy that goes on or ends.
LEMMA FilesKept ==
  ASSUME CloudInv, NEW c \in Clients, client[c].pc \in {"upload", "delete"}, CloudRest,
         NEW files \in Trees,
         mocks' = [mocks EXCEPT ![Mock(c)].files = files, ![Mock(c)].mixed = @ \/ client[c].met],
         NEW f, Sent(c, f),
         ~client[c].met /\ client[c].pc = "upload" =>
           /\ DOMAIN files \subseteq client[c].sync.remote \cup DOMAIN local
           /\ \A x \in DOMAIN local \ (client[c].sync.todo \ {f}) :
                  x \in DOMAIN files /\ files[x] = local[x],
         ~client[c].met /\ client[c].pc = "delete" /\ DirClean =>
           /\ DOMAIN files \subseteq (client[c].sync.todo \ {f}) \cup DOMAIN local
           /\ \A x \in DOMAIN local : x \in DOMAIN files /\ files[x] = local[x]
  PROVE  CloudInv'
<1>1. /\ UNCHANGED <<meta, confs, local>> /\ Mock(c) \in MockIds /\ Mock(c) # None
      /\ Busy(c)
      /\ Placed(c)
      /\ Copied(c)
      /\ client \in [Clients -> Sessions]
      /\ client[c] \in Sessions
      /\ mocks[Mock(c)] \in MockRecords
  BY Pcs DEF CloudRest, CloudInv, CloudTyped, Placed, SyncPcs, MockIds
<1> DEFINE i == Mock(c)
           m == mocks[i]
           mixed == m.mixed \/ client[c].met
           r == [m EXCEPT !.files = files, !.mixed = mixed]
<1>2. mixed \in BOOLEAN /\ (mixed <=> m.mixed \/ client[c].met)
  BY Zenon
<1>3. mocks' = [mocks EXCEPT ![i].files = files, ![i].mixed = mixed]
  BY Zenon
<1> HIDE DEF mixed
<1>4. mocks' = [mocks EXCEPT ![i] = r]
  BY <1>1, <1>3
<1>5. /\ r \in MockRecords
      /\ r.state = m.state
      /\ r.status = m.status
      /\ r.files = files
      /\ r.mixed = mixed
  BY <1>1, <1>2 DEF MockRecords
<1> HIDE DEF r
<1>6. ~client[c].met => m.state = "DRAFT"
  BY <1>1 DEF Copied, SyncPcs
<1>7. r.status # "inactive" => r.state = "LIVE"
  BY <1>1, <1>5 DEF CloudInv, RunsInService
<1>8. ASSUME client' \in [Clients -> Sessions]
      PROVE  /\ CloudTyped' /\ StoredExist' /\ RunsInService' /\ LiveIsWhole' /\ Len(mocks) <=
                    Len(mocks')
             /\ MockIds' = MockIds /\ mocks'[i] = r
  <2>1. DirClean /\ r.state = "LIVE" /\ ~r.mixed => r.files \in Directories
    BY <1>2, <1>5, <1>6
  <2> QED
    BY <1>1, <1>4, <1>5, <1>7, <1>8, <2>1, MockOK, ZenonT(60)
<1>9. CASE Go(c, "idle")
  BY <1>1, <1>8, <1>9, EndOK, Assemble
<1>10. CASE client' = [client EXCEPT ![c].sync.todo = @ \ {f}]
  <2> DEFINE todo == client[c].sync.todo \ {f}
             sync == [client[c].sync EXCEPT !.todo = todo]
             s == [client[c] EXCEPT !.sync = sync]
  <2>1. client[c].sync \in Syncs
    BY <1>1 DEF Sessions
  <2>2. /\ sync \in Syncs
        /\ sync.remote = client[c].sync.remote
        /\ sync.local = client[c].sync.local
        /\ sync.todo = todo
    BY <2>1 DEF Syncs
  <2>3. client' = [client EXCEPT ![c] = s]
    BY <1>1, <1>10
  <2> HIDE DEF sync
  <2>4. /\ s \in Sessions /\ s.pc = client[c].pc /\ s.conf = client[c].conf /\ s.sync = sync
        /\ s.meta = client[c].meta /\ s.met = client[c].met
    BY <1>1, <2>2 DEF Sessions
  <2> HIDE DEF s
  <2>5. Others(c) /\ client'[c] = s
    BY <1>1, <2>3, <2>4 DEF Others
  <2>6. Meets(c)
    BY <1>1, <2>4, <2>5, GoOnMeets
  <2>7. Placed(c)' /\ Recorded(c)'
    BY <1>1, <1>8, <2>4, <2>5 DEF Placed, Recorded, Mock, SavePcs, Others
  <2>8. Copied(c)'
    <3>1. mocks'[Mock(c)'] = r /\ client'[c].pc = client[c].pc /\ client'[c].sync = sync
          /\ client'[c].met = client[c].met
      BY <1>8, <2>4, <2>5 DEF Mock, Others
    <3>2. SUFFICES ASSUME ~client[c].met
                   PROVE  /\ r.state = "DRAFT"
                          /\ client[c].pc = "upload" =>
                               /\ sync.local = DOMAIN local
                               /\ sync.todo \subseteq DOMAIN local
                               /\ DOMAIN files \subseteq sync.remote \cup DOMAIN local
                               /\ \A x \in DOMAIN local \ sync.todo :
                                      x \in DOMAIN files /\ files[x] = local[x]
                          /\ client[c].pc = "delete" /\ DirClean =>
                               /\ sync.todo \cap DOMAIN local = {}
                               /\ DOMAIN files \subseteq sync.todo \cup DOMAIN local
                               /\ \A x \in DOMAIN local : x \in DOMAIN files /\ files[x] = local[x]
      BY <1>1, <1>5, <3>1, ZenonT(60) DEF Copied
    <3>3. client[c].pc = "upload" =>
             /\ client[c].sync.local = DOMAIN local
             /\ client[c].sync.todo \subseteq DOMAIN local
      BY <1>1, <3>2 DEF Copied, SyncPcs
    <3>4. client[c].pc = "delete" /\ DirClean => client[c].sync.todo \cap DOMAIN local = {}
      BY <1>1, <3>2 DEF Copied, SyncPcs
    <3> QED
      BY <1>5, <1>6, <2>2, <3>2, <3>3, <3>4
  <2> QED
    BY <1>8, <2>5, <2>6, <2>7, <2>8, Assemble DEF Others
<1> QED
  BY <1>9, <1>10 DEF Sent

\* A file is uploaded.
LEMMA UploadFileKept ==
  ASSUME CloudInv, NEW c \in Clients, UploadFile(c)
  PROVE  CloudInv'
<1>1. /\ client[c].pc = "upload" /\ CloudRest /\ Mock(c) \in MockIds /\ Copied(c)
      /\ mocks[Mock(c)] \in MockRecords /\ local \in Directories
  BY DEF UploadFile, At, CloudInv, CloudTyped, Placed, SyncPcs, MockIds
<1>2. PICK f \in client[c].sync.todo \cap DOMAIN local :
        /\ mocks' = [mocks EXCEPT ![Mock(c)].files = With(@, f, local[f]),
               ![Mock(c)].mixed = @ \/ client[c].met]
        /\ Sent(c, f)
  BY DEF UploadFile
<1> DEFINE old == mocks[Mock(c)].files
<1>3. PICK files : files = With(old, f, local[f])
  OBVIOUS
<1>4. old \in Trees /\ f \in Files /\ local[f] \in Contents
  BY <1>1, <1>2 DEF MockRecords, Files, Contents
<1>5. /\ files \in Trees /\ DOMAIN files = DOMAIN old \cup {f} /\ files[f] = local[f]
      /\ \A y \in DOMAIN old : y # f => files[y] = old[y]
  BY <1>3, <1>4, FileAdded, SMTT(60)
<1>6. mocks' = [mocks EXCEPT ![Mock(c)].files = files, ![Mock(c)].mixed = @ \/ client[c].met]
  BY <1>2, <1>3, Zenon
<1>7. ~client[c].met =>
        /\ DOMAIN files \subseteq client[c].sync.remote \cup DOMAIN local
        /\ \A x \in DOMAIN local \ (client[c].sync.todo \ {f}) :
               x \in DOMAIN files /\ files[x] = local[x]
  <2> SUFFICES ASSUME ~client[c].met
               PROVE  /\ DOMAIN files \subseteq client[c].sync.remote \cup DOMAIN local
                      /\ \A x \in DOMAIN local \ (client[c].sync.todo \ {f}) :
                             x \in DOMAIN files /\ files[x] = local[x]
    OBVIOUS
  <2>1. /\ DOMAIN old \subseteq client[c].sync.remote \cup DOMAIN local
        /\ \A x \in DOMAIN local \ client[c].sync.todo : x \in DOMAIN old /\ old[x] = local[x]
    BY <1>1 DEF Copied, SyncPcs
  <2> QED
    BY <1>2, <1>5, <2>1
<1> QED
  BY <1>1, <1>2, <1>5, <1>6, <1>7, FilesKept

\* A file is deleted.
LEMMA DeleteRemoteKept ==
  ASSUME CloudInv, NEW c \in Clients, DeleteRemote(c)
  PROVE  CloudInv'
<1>1. /\ client[c].pc = "delete" /\ CloudRest /\ Mock(c) \in MockIds /\ Copied(c)
      /\ mocks[Mock(c)] \in MockRecords /\ client[c] \in Sessions
  BY DEF DeleteRemote, At, CloudInv, CloudTyped, Placed, SyncPcs, MockIds
<1>2. PICK f \in client[c].sync.todo :
        /\ mocks' = [mocks EXCEPT ![Mock(c)].files = Restrict(@, DOMAIN @ \ {f}),
                                  ![Mock(c)].mixed = @ \/ client[c].met]
        /\ Sent(c, f)
  BY DEF DeleteRemote
<1> DEFINE old == mocks[Mock(c)].files
<1>3. PICK files : files = Restrict(old, DOMAIN old \ {f})
  OBVIOUS
<1>4. old \in Trees
  BY <1>1 DEF MockRecords
<1>5. /\ files \in Trees /\ DOMAIN files = DOMAIN old \ {f}
      /\ \A y \in DOMAIN old : y # f => files[y] = old[y]
  <2>1. /\ Restrict(old, DOMAIN old \ {f}) \in Trees
        /\ DOMAIN Restrict(old, DOMAIN old \ {f}) = DOMAIN old \ {f}
        /\ \A y \in DOMAIN old : y # f => Restrict(old, DOMAIN old \ {f})[y] = old[y]
    BY <1>4, FileRemoved, Zenon
  <2> QED
    BY <1>3, <2>1, Zenon
<1>6. mocks' = [mocks EXCEPT ![Mock(c)].files = files, ![Mock(c)].mixed = @ \/ client[c].met]
  BY <1>2, <1>3, Zenon
<1>7. ~client[c].met /\ DirClean =>
        /\ DOMAIN files \subseteq (client[c].sync.todo \ {f}) \cup DOMAIN local
        /\ \A x \in DOMAIN local : x \in DOMAIN files /\ files[x] = local[x]
  <2> SUFFICES ASSUME ~client[c].met, DirClean
               PROVE  /\ DOMAIN files \subseteq (client[c].sync.todo \ {f}) \cup DOMAIN local
                      /\ \A x \in DOMAIN local : x \in DOMAIN files /\ files[x] = local[x]
    OBVIOUS
  <2>1. /\ client[c].sync.todo \cap DOMAIN local = {}
        /\ DOMAIN old \subseteq client[c].sync.todo \cup DOMAIN local
        /\ \A x \in DOMAIN local : x \in DOMAIN old /\ old[x] = local[x]
    BY <1>1 DEF Copied, SyncPcs
  <2> QED
    BY <1>2, <1>5, <2>1
<1> QED
  BY <1>1, <1>2, <1>5, <1>6, <1>7, FilesKept

\* The files are listed.
LEMMA SyncFilesKept ==
  ASSUME CloudInv, NEW c \in Clients, SyncFiles(c)
  PROVE  CloudInv'
<1>1. /\ client[c].pc = "list"
      /\ UNCHANGED <<meta, confs, mocks, local>>
      /\ Mock(c) \in MockIds
      /\ Mock(c) # None
      /\ Busy(c)
      /\ Placed(c)
      /\ Copied(c)
      /\ client \in [Clients -> Sessions]
      /\ client[c] \in Sessions
      /\ mocks[Mock(c)] \in MockRecords /\ local \in Directories
  BY Pcs DEF SyncFiles, At, CloudRest, CloudInv, CloudTyped, Placed, SyncPcs, MockIds
<1> DEFINE files == mocks[Mock(c)].files
           sync == [remote |-> DOMAIN files, local |-> DOMAIN local, todo |-> DOMAIN local]
           s == [client[c] EXCEPT !.pc = "upload", !.sync = sync]
<1>2. DOMAIN files \subseteq Files /\ DOMAIN local \subseteq Files
  BY <1>1, DirectoryTree DEF MockRecords, Trees
<1>3. /\ sync \in Syncs
      /\ sync.remote = DOMAIN files
      /\ sync.local = DOMAIN local
      /\ sync.todo = DOMAIN local
  BY <1>2 DEF Syncs
<1>4. client' = [client EXCEPT ![c] = s]
  BY <1>1 DEF SyncFiles
<1> HIDE DEF sync
<1>5. /\ s \in Sessions /\ s.pc = "upload" /\ s.conf = client[c].conf /\ s.sync = sync
      /\ s.meta = client[c].meta /\ s.met = client[c].met
  BY <1>1, <1>3, Pcs DEF Sessions
<1> HIDE DEF s
<1>6. Others(c) /\ client'[c] = s
  BY <1>1, <1>4, <1>5 DEF Others
<1>7. Meets(c)
  BY <1>1, <1>5, <1>6, GoOnMeets
<1>8. Placed(c)' /\ Recorded(c)'
  BY <1>1, <1>5, <1>6 DEF Placed, Recorded, Mock, MockIds, SavePcs, Others
<1>9. Copied(c)'
  BY <1>1, <1>3, <1>5, <1>6 DEF Copied, Mock, SyncPcs, Others
<1> QED
  BY <1>1, <1>6, <1>7, <1>8, <1>9, QuietOK, Assemble DEF Others

\* What is to be deleted is what was listed and is not in the directory.
LEMMA UploadedKept ==
  ASSUME CloudInv, NEW c \in Clients, Uploaded(c)
  PROVE  CloudInv'
<1>1. /\ client[c].pc = "upload"
      /\ UNCHANGED <<meta, confs, mocks, local>>
      /\ Mock(c) \in MockIds
      /\ Mock(c) # None
      /\ Busy(c)
      /\ Placed(c)
      /\ Copied(c)
      /\ client \in [Clients -> Sessions]
      /\ client[c] \in Sessions
      /\ client[c].sync.todo = {} /\ client[c].sync \in Syncs
  BY Pcs DEF Uploaded, At, CloudRest, CloudInv, CloudTyped, Placed, SyncPcs, MockIds,
       Sessions
<1> DEFINE todo == CalculateDelta(c)
           sync == [client[c].sync EXCEPT !.todo = todo]
           s == [client[c] EXCEPT !.pc = "delete", !.sync = sync]
<1>2. todo \subseteq Files
  BY <1>1 DEF CalculateDelta, Syncs
<1>3. client' = [client EXCEPT ![c].pc = "delete", ![c].sync.todo = todo]
  BY DEF Uploaded
<1> HIDE DEF todo
<1>4. client' = [client EXCEPT ![c] = s]
  BY <1>1, <1>3, ZenonT(60)
<1>5. sync \in Syncs /\ sync.todo = todo
  BY <1>1, <1>2 DEF Syncs
<1> HIDE DEF sync
<1>6. /\ s \in Sessions /\ s.pc = "delete" /\ s.conf = client[c].conf /\ s.sync = sync
      /\ s.meta = client[c].meta /\ s.met = client[c].met
  BY <1>1, <1>5, Pcs DEF Sessions
<1> HIDE DEF s
<1>7. Others(c) /\ client'[c] = s
  BY <1>1, <1>4, <1>6 DEF Others
<1>8. Meets(c)
  BY <1>1, <1>6, <1>7, GoOnMeets
<1>9. Placed(c)' /\ Recorded(c)'
  BY <1>1, <1>6, <1>7 DEF Placed, Recorded, Mock, MockIds, SavePcs, Others
<1>10. Copied(c)'
  <2>1. /\ mocks'[Mock(c)'] = mocks[Mock(c)]
        /\ client'[c].pc = "delete"
        /\ client'[c].sync.todo = todo
        /\ client'[c].met = client[c].met
    BY <1>1, <1>5, <1>6, <1>7 DEF Mock, Others
  <2>2. DirClean => todo = client[c].sync.remote \ client[c].sync.local
    BY DEF todo, CalculateDelta
  <2> QED
    BY <1>1, <2>1, <2>2 DEF Copied, SyncPcs
<1> QED
  BY <1>1, <1>7, <1>8, <1>9, <1>10, QuietOK, Assemble DEF Others

\* The mock is active, or failed.
LEMMA WaitForStatusKept ==
  ASSUME CloudInv, NEW c \in Clients, WaitForStatus(c)
  PROVE  CloudInv'
<1>1. PICK pc \in {"idle", "deployed"} : Go(c, pc)
  BY DEF WaitForStatus
<1>2. Busy(c) /\ UNCHANGED <<meta, confs, mocks, local>>
  BY Pcs DEF WaitForStatus, At, CloudRest
<1> QED
  BY <1>1, <1>2, EndOK, QuietOK, Assemble

\* The platform starts a mock, or fails to.
LEMMA PlatformStartsKept ==
  ASSUME CloudInv, NEW i \in DOMAIN mocks, PlatformStarts(i)
  PROVE  CloudInv'
<1>1. /\ mocks[i] \in MockRecords /\ i \in MockIds /\ mocks[i].state = "LIVE"
      /\ UNCHANGED <<client, meta, confs, local>> /\ client \in [Clients -> Sessions]
  BY DEF CloudInv, CloudTyped, MockIds, PlatformStarts, CloudRest
<1>2. PICK status \in {"ACTIVE", "FAILED"} : mocks' = [mocks EXCEPT ![i].status = status]
  BY DEF PlatformStarts
<1> DEFINE r == [mocks[i] EXCEPT !.status = status]
<1>3. mocks' = [mocks EXCEPT ![i] = r]
  BY <1>1, <1>2
<1>4. /\ r \in MockRecords
      /\ r.state = "LIVE"
      /\ r.files = mocks[i].files
      /\ r.mixed = mocks[i].mixed
  BY <1>1 DEF MockRecords
<1> HIDE DEF r
<1>5. DirClean /\ ~r.mixed => r.files \in Directories
  BY <1>1, <1>4 DEF CloudInv, LiveIsWhole
<1>6. /\ CloudTyped' /\ StoredExist' /\ RunsInService' /\ LiveIsWhole'
      /\ MockIds' = MockIds /\ mocks'[i] = r
  BY <1>1, <1>3, <1>4, <1>5, MockOK
<1>7. \A j \in MockIds : mocks'[j].files = mocks[j].files /\ mocks'[j].state = mocks[j].state
  BY <1>1, <1>3, <1>4, <1>6 DEF CloudInv, CloudTyped, MockIds
<1>8. Alone'
  BY <1>1 DEF CloudInv, Alone, Busy
<1>9. ASSUME NEW c \in Clients PROVE Placed(c)' /\ Copied(c)' /\ Recorded(c)'
  <2>1. Placed(c)'
    BY <1>1, <1>6, <1>9 DEF CloudInv, Placed, Mock
  <2>2. Recorded(c)'
    BY <1>1, <1>9 DEF CloudInv, Recorded, StoredMock, Mock
  <2>3. client[c].pc \in SyncPcs => Mock(c) \in MockIds
    BY <1>9 DEF CloudInv, Placed
  <2>4. Copied(c)'
    <3>1. Copied(c) /\ Mock(c)' = Mock(c)
      BY <1>1, <1>9 DEF CloudInv, Mock
    <3> SUFFICES ASSUME ~client[c].met, client[c].pc \in SyncPcs
                 PROVE  Copied(c)'
      BY <1>1 DEF Copied
    <3>2. /\ mocks'[Mock(c)].files = mocks[Mock(c)].files
          /\ mocks'[Mock(c)].state = mocks[Mock(c)].state
      BY <1>7, <2>3
    <3> QED
      BY <1>1, <3>1, <3>2 DEF Copied
  <2> QED
    BY <2>1, <2>2, <2>4
<1> QED
  BY <1>6, <1>8, <1>9 DEF CloudInv

\* The directory changes under the commands that run: they have met that.
LEMMA EditDirectoryKept ==
  ASSUME CloudInv, EditDirectory
  PROVE  CloudInv'
<1>1. /\ local' \in Directories
      /\ UNCHANGED <<meta, confs, mocks>>
      /\ client \in [Clients -> Sessions]
  BY DEF CloudInv, CloudTyped, EditDirectory
<1> DEFINE met(c) == client[c].met \/ Busy(c)
           now(c) == [client[c] EXCEPT !.met = met(c)]
<1>2. \A c \in Clients : met(c) \in BOOLEAN /\ (met(c) <=> client[c].met \/ Busy(c))
  BY Zenon
<1>3. client' = [c \in Clients |-> now(c)]
  BY Zenon DEF EditDirectory
<1> HIDE DEF met
<1>4. \A c \in Clients :
        /\ now(c) \in Sessions
        /\ now(c).met = met(c)
        /\ now(c).pc = client[c].pc
        /\ now(c).conf = client[c].conf
        /\ now(c).path = client[c].path /\ now(c).meta = client[c].meta
  BY <1>1, <1>2 DEF Sessions
<1> HIDE DEF now
<1>5. client' \in [Clients -> Sessions] /\ \A c \in Clients : client'[c] = now(c)
  BY <1>3, <1>4
<1>6. \A c \in Clients : (Busy(c)' <=> Busy(c)) /\ (client'[c].met <=> client[c].met \/ Busy(c))
  BY <1>2, <1>4, <1>5 DEF Busy
<1>7. CloudTyped' /\ RunsInService' /\ LiveIsWhole' /\ MockIds' = MockIds
  BY <1>1, <1>5 DEF CloudInv, CloudTyped, RunsInService, LiveIsWhole, MockIds, ActiveExists
<1>8. StoredExist'
  BY <1>1, <1>7 DEF CloudInv, StoredExist, StoredMock
<1>9. Alone'
  BY <1>6 DEF Alone
<1>10. ASSUME NEW c \in Clients PROVE Placed(c)' /\ Copied(c)' /\ Recorded(c)'
  <2>1. Placed(c)'
    BY <1>4, <1>5, <1>7, <1>10 DEF CloudInv, Placed, Mock, ActiveExists
  <2>2. client'[c].met \/ client'[c].pc \in {"idle", "deployed"}
    BY <1>6, <1>10 DEF Busy, ClientEnds
  <2> QED
    BY <2>1, <2>2 DEF Copied, Recorded, SyncPcs
<1> QED
  BY <1>7, <1>8, <1>9, <1>10 DEF CloudInv

\* At first no command runs, and nothing is deployed or one mock as a whole.
LEMMA CloudInitHolds == CloudInit => CloudInv
<1> SUFFICES ASSUME CloudInit PROVE CloudInv
  OBVIOUS
<1> DEFINE space(n) == [active |-> n, spaces |-> With(<<>>, n, "mockscloud")]
<1>1. /\ client = [c \in Clients |-> NoClient] /\ local \in Directories
      /\ \/ confs = [path \in Paths |-> None] /\ mocks = <<>> /\ meta = NoMetadata
         \/ confs = [path \in Paths |-> None] /\ mocks = <<>> /\ \E n \in Names : meta = space(n)
         \/ DeployedBefore
  BY DEF CloudInit, WorkspacesInit, DeployedBefore, Paths
<1>2. \A n \in Names : space(n) \in Metas /\ ActiveExists(space(n))
  <2> SUFFICES ASSUME NEW n \in Names PROVE space(n) \in Metas /\ ActiveExists(space(n))
    OBVIOUS
  <2> DEFINE g == With(<<>>, n, "mockscloud")
  <2>1. g \in [{n} -> RemoteTypes]
    BY DEF With, RemoteTypes
  <2>2. g \in UNION {[S -> RemoteTypes] : S \in SUBSET Names} /\ n \in DOMAIN g
    BY <2>1
  <2> HIDE DEF g
  <2>3. [active |-> n, spaces |-> g] \in Metas /\ ActiveExists([active |-> n, spaces |-> g])
    BY <2>2 DEF Metas, ActiveExists
  <2> QED
    BY <2>3 DEF g
<1>3. \A c \in Clients : client[c] = NoClient
  BY <1>1
<1>4. client \in [Clients -> Sessions]
  BY <1>1, NoClientType
<1>5. Alone
  BY <1>3, NoClientType DEF Alone, Busy, ClientEnds
<1>6. \A c \in Clients : Placed(c) /\ Copied(c) /\ Recorded(c)
  BY <1>3, NoClientType DEF Placed, Copied, Recorded, Mock, SavePcs, SyncPcs
<1>7. CASE confs = [path \in Paths |-> None] /\ mocks = <<>>
           /\ (meta = NoMetadata \/ \E n \in Names : meta = space(n))
  <2>1. meta \in Metas /\ ActiveExists(meta)
    <3> HIDE DEF space
    <3> QED
      BY <1>2, <1>7, NoClientType
  <2>2. mocks \in Seq(MockRecords) /\ Len(mocks) = 0 /\ MockIds = {} /\ DOMAIN mocks = {}
    BY <1>7 DEF MockIds
  <2>3. CloudTyped
    BY <1>1, <1>4, <1>7, <2>1, <2>2 DEF CloudTyped
  <2>4. StoredExist /\ RunsInService /\ LiveIsWhole
    BY <1>7, <2>2 DEF StoredExist, StoredMock, RunsInService, LiveIsWhole
  <2> QED
    BY <1>5, <1>6, <2>3, <2>4 DEF CloudInv
<1>8. CASE DeployedBefore
  <2> DEFINE conf == [mock |-> 1]
             no == FALSE
  <2>1. PICK n \in Names, d \in Directories :
          /\ meta = space(n)
          /\ confs = [path \in Paths |-> IF path = <<"mockscloud", n>> THEN conf ELSE None]
          /\ mocks = <<[state |-> "LIVE", status |-> "ACTIVE", files |-> d, mixed |-> no]>>
    BY <1>8 DEF DeployedBefore, Paths
  <2> DEFINE deployed == [state |-> "LIVE", status |-> "ACTIVE", files |-> d, mixed |-> no]
  <2>2. no \in BOOLEAN
    OBVIOUS
  <2> HIDE DEF no
  <2>3. deployed \in MockRecords /\ deployed.state = "LIVE" /\ deployed.status = "ACTIVE" /\ deployed.files = d
    BY <2>2, DirectoryTree DEF MockRecords
  <2>4. mocks = <<deployed>>
    BY <2>1
  <2> HIDE DEF deployed
  <2>5. /\ mocks \in Seq(MockRecords) /\ MockIds = {1} /\ DOMAIN mocks = {1} /\ mocks[1] = deployed
    BY <2>3, <2>4 DEF MockIds
  <2>6. conf \in Configs /\ conf.mock = 1
    BY DEF Configs
  <2>7. confs \in [Paths -> {None, Torn} \cup Configs]
    BY <2>1, <2>6
  <2>8. CloudTyped
    <3> HIDE DEF space
    <3> QED
      BY <1>1, <1>2, <1>4, <2>1, <2>5, <2>7 DEF CloudTyped
  <2>9. StoredExist
    <3>1. \A path \in Paths : confs[path] = None \/ confs[path].mock = 1
      BY <2>1, <2>6
    <3> QED
      BY <2>5, <3>1 DEF StoredExist, StoredMock
  <2>10. RunsInService /\ LiveIsWhole
    BY <2>3, <2>5 DEF RunsInService, LiveIsWhole
  <2> QED
    BY <1>5, <1>6, <2>8, <2>9, <2>10 DEF CloudInv
<1> QED
  BY <1>1, <1>7, <1>8

\* Every step keeps the invariant.
LEMMA CloudNextKept == CloudInv /\ [CloudNext]_cloudVars => CloudInv'
<1> SUFFICES ASSUME CloudInv, [CloudNext]_cloudVars PROVE CloudInv'
  OBVIOUS
<1>1. ASSUME NEW c \in Clients, WorkspaceStep(c), UNCHANGED <<mocks, local>> PROVE CloudInv'
  BY <1>1, BeginKept, LoadConfigKept, TruncateConfigKept, SaveConfigKept, MetadataKept,
       FailsKept
       DEF WorkspaceStep
<1>2. ASSUME NEW c \in Clients, CloudDeploy(c) \/ CloudUndeploy(c) PROVE CloudInv'
  BY <1>2, BeginKept DEF CloudDeploy, CloudUndeploy
<1>3. ASSUME NEW c \in Clients, CloudStep(c) PROVE CloudInv'
  BY <1>1, <1>2, <1>3, SetMockIdKept, EnsureMockKept, SetDraftKept, SyncFilesKept, UploadFileKept,
       UploadedKept,
       DeleteRemoteKept, SetLiveKept, WaitForStatusKept DEF CloudStep
<1>4. CASE UNCHANGED cloudVars
  <2>1. UNCHANGED <<meta, confs, client, mocks, local>> /\ client \in [Clients -> Sessions]
    BY <1>4 DEF cloudVars, workspaceVars, CloudInv, CloudTyped
  <2>2. CloudTyped' /\ StoredExist' /\ RunsInService' /\ LiveIsWhole'
    BY <2>1, QuietOK
  <2>3. Alone'
    BY <2>1 DEF CloudInv, Alone, Busy
  <2>4. \A c \in Clients : Placed(c)' /\ Copied(c)' /\ Recorded(c)'
    BY <2>1, ZenonT(60) DEF CloudInv, Placed, Copied, Recorded, Mock, MockIds, StoredMock, ActiveExists
  <2> QED
    BY <2>2, <2>3, <2>4 DEF CloudInv
<1> QED
  BY <1>3, <1>4, PlatformStartsKept, EditDirectoryKept DEF CloudNext

(* Whatever the commands do and wherever they fail, a deploy that met no     *)
(* other command is in step with the platform.                               *)
THEOREM CloudInvHolds == CloudSpec => []CloudInv
  BY CloudInitHolds, CloudNextKept, PTL DEF CloudSpec

(* A mock in service holds a directory as a whole, unless deploys            *)
(* overlapped: the half of a deploy that failed stays out of service         *)
(* (mockscloud/deploy.go, state.go).                                         *)
THEOREM LiveWhole == CloudSpec => []LiveIsWhole
<1>1. CloudInv => LiveIsWhole
  BY DEF CloudInv
<1> QED
  BY <1>1, CloudInvHolds, PTL

\* The type invariants of the remote and of the workspace files.
THEOREM CloudTypeCorrect == CloudSpec => [](CloudTypeOK /\ WorkspacesTypeOK)
<1>1. ASSUME CloudInv PROVE CloudTypeOK
  <2>1. DOMAIN mocks = MockIds
    BY <1>1 DEF CloudInv, CloudTyped, MockIds
  <2>2. \A i \in MockIds : mocks[i] \in MockRecords
    BY <1>1 DEF CloudInv, CloudTyped, MockIds
  <2> QED
    BY <1>1, <2>1, <2>2 DEF CloudInv, CloudTypeOK, RunsInService, Placed, SyncPcs,
         MockRecords
<1>2. ASSUME CloudInv PROVE WorkspacesTypeOK
  <2>1. meta = Torn \/ (meta \in Metas /\ ActiveExists(meta))
    BY <1>2 DEF CloudInv, CloudTyped
  <2>2. meta \in Metas => \A n \in DOMAIN meta.spaces : n \in Names /\ meta.spaces[n] \in RemoteTypes
    BY DEF Metas
  <2>3. \A path \in DOMAIN confs : confs[path] \in {None, Torn} \/ DOMAIN confs[path] = {"mock"}
    BY <1>2 DEF CloudInv, CloudTyped, Configs
  <2> QED
    BY <2>1, <2>2, <2>3 DEF WorkspacesTypeOK, ActiveExists
<1> QED
  BY <1>1, <1>2, CloudInvHolds, PTL

(* A deploy that met no other command and reports success has delivered the  *)
(* directory, no more and no less.                                           *)
THEOREM Mirrors == CloudSpec => DeployMirrors
<1>1. CloudInv => [\A c \in Clients :
         At(c, "wait") /\ At(c, "deployed")' /\ ~client[c].met /\ DirClean =>
           mocks[Mock(c)].state = "LIVE" /\ mocks[Mock(c)].files = local]_cloudVars
  BY DEF CloudInv, Copied, SyncPcs, At
<1> QED
  BY <1>1, CloudInvHolds, PTL DEF DeployMirrors

\* The steps at which a command holds the record of its mock.
Recorders == {"truncateConfig", "fillConfig"}

\* The others' place and mock are the same after the step.
Elsewhere(c) == \A d \in Clients : d # c =>
    client'[d].pc = client[d].pc /\ client'[d].conf = client[d].conf

\* A mock stays recorded by whoever has not moved.
LEMMA StillRemembered ==
  ASSUME NEW c \in Clients, Elsewhere(c), UNCHANGED confs, NEW i, Remembered(i),
         client[c].pc \in Recorders => Mock(c) # i
  PROVE  Remembered(i)'
<1>1. CASE \E path \in DOMAIN confs : StoredMock(path) = i
  BY <1>1 DEF Remembered, StoredMock
<1>2. CASE \E d \in Clients : Mock(d) = i /\ client[d].pc \in Recorders
  <2>1. PICK d \in Clients : Mock(d) = i /\ client[d].pc \in Recorders
    BY <1>2
  <2>2. d # c
    BY <2>1
  <2> QED
    BY <2>1, <2>2 DEF Elsewhere, Remembered, Mock, Recorders
<1> QED
  BY <1>1, <1>2 DEF Remembered, Recorders

\* A command that starts held no record.
LEMMA StartElsewhere ==
  ASSUME client \in [Clients -> Sessions], NEW c \in Clients, NEW STATE r, Start(c, r)
  PROVE  Elsewhere(c) /\ UNCHANGED confs /\ client[c].pc \notin Recorders
<1>1. ~Busy(c) /\ UNCHANGED confs
  BY DEF Start
<1>2. ASSUME NEW d \in Clients, d # c PROVE
                 client'[d].pc = client[d].pc /\ client'[d].conf = client[d].conf
  <2>1. client'[d] = [client[d] EXCEPT !.met = client[d].met \/ Busy(d)]
    BY <1>2, Zenon DEF Start
  <2> DEFINE met == client[d].met \/ Busy(d)
  <2>2. client'[d] = [client[d] EXCEPT !.met = met]
    BY <2>1
  <2> HIDE DEF met
  <2> QED
    BY <2>2 DEF Sessions
<1> QED
  BY <1>1, <1>2 DEF Elsewhere, Busy, ClientEnds, Recorders

\* The steps that neither create a mock nor write its record.
LEMMA ElsewhereSteps ==
  ASSUME CloudInv, NEW c \in Clients,
         \/ \E n \in Names : NewWorkspace(c, n) \/ DeleteWorkspace(c, n) \/ SetActive(c, n)
         \/ \E t \in RemoteTypes : SetType(c, t)
         \/ SetConfigValue(c) \/ CloudDeploy(c) \/ CloudUndeploy(c)
         \/ LoadConfig(c) \/ SetMockId(c) \/ TruncateMetadata(c) \/ SaveMetadata(c)
         \/ SetDraft(c) \/ SyncFiles(c) \/ UploadFile(c) \/ Uploaded(c) \/ DeleteRemote(c) \/ SetLive(c)
         \/ WaitForStatus(c)
  PROVE  Elsewhere(c) /\ UNCHANGED confs /\ client[c].pc \notin Recorders
<1>1. client \in [Clients -> Sessions]
  BY DEF CloudInv, CloudTyped
<1>2. CASE \/ \E n \in Names : NewWorkspace(c, n) \/ DeleteWorkspace(c, n) \/ SetActive(c, n)
           \/ \E t \in RemoteTypes : SetType(c, t)
           \/ SetConfigValue(c) \/ CloudDeploy(c) \/ CloudUndeploy(c)
  BY <1>1, <1>2, StartElsewhere DEF NewWorkspace, DeleteWorkspace, SetActive, SetType,
       SetConfigValue, CloudDeploy, CloudUndeploy, Saves, Loads
<1>3. CASE LoadConfig(c) \/ SetMockId(c) \/ TruncateMetadata(c) \/ SaveMetadata(c)
  <2>1. UNCHANGED confs /\ client[c].pc \notin Recorders
    BY <1>3 DEF LoadConfig, SetMockId, TruncateMetadata, SaveMetadata, At, CloudRest, Recorders
  <2>2. \A d \in Clients : d # c => client'[d] = client[d]
    BY <1>1, <1>3 DEF LoadConfig, SetMockId, TruncateMetadata, SaveMetadata, Go
  <2> QED
    BY <2>1, <2>2 DEF Elsewhere
<1>4. CASE \/ SetDraft(c) \/ SyncFiles(c) \/ UploadFile(c) \/ Uploaded(c) \/ DeleteRemote(c) \/
                  SetLive(c)
           \/ WaitForStatus(c)
  <2>1. UNCHANGED confs /\ client[c].pc \notin Recorders
    BY <1>4 DEF SetDraft, SyncFiles, UploadFile, Uploaded, DeleteRemote, SetLive,
         WaitForStatus,
         At, CloudRest, Recorders
  <2>2. \A d \in Clients : d # c => client'[d] = client[d]
    BY <1>1, <1>4 DEF SetDraft, SyncFiles, UploadFile, Uploaded, DeleteRemote, SetLive,
         WaitForStatus, Answered, Sent, Go
  <2> QED
    BY <2>1, <2>2 DEF Elsewhere
<1> QED
  BY <1>2, <1>3, <1>4

\* Only EnsureMockExists creates a mock.
LEMMA SameMocks ==
  ASSUME CloudInv, NEW c \in Clients, CloudStep(c), ~EnsureMockExists(c)
  PROVE  DOMAIN mocks' = DOMAIN mocks
  BY DEF CloudStep, CloudDeploy, CloudUndeploy, SetMockId, SetDraft, SetState, SyncFiles, UploadFile,
       Uploaded, DeleteRemote, SetLive, WaitForStatus, CloudInv, CloudTyped

\* A mock recorded, or just created, still is recorded after a command's step.
LEMMA StepRemembers ==
  ASSUME CloudInv, NEW c \in Clients, CloudStep(c), ~client[c].met, ~Cut(c),
         NEW i \in DOMAIN mocks', ~Replaces(c, i), i \notin DOMAIN mocks \/ Remembered(i)
  PROVE  Remembered(i)'
<1>1. /\ client \in [Clients -> Sessions] /\ Placed(c) /\ Recorded(c) /\ CloudInv'
      /\ confs \in [Paths -> {None, Torn} \cup Configs]
  BY CloudNextKept DEF CloudInv, CloudTyped, CloudNext
<1>2. i \in Nat /\ i # None
  BY <1>1 DEF CloudInv, CloudTyped
<1>3. CASE CommandFails(c)
  <2>1. Busy(c) /\ UNCHANGED confs /\ client'[c].pc = "idle"
    BY <1>1, <1>3, GoFacts, Pcs DEF CommandFails
  <2> QED
    BY <2>1 DEF Cut, Busy, ClientEnds
<1>4. CASE EnsureMockExists(c)
  <2>1. UNCHANGED confs /\ client[c].pc = "createMock" /\ Busy(c)
    BY <1>4, Pcs DEF EnsureMockExists, At, CloudRest
  <2>2. CASE Go(c, "idle")
    <3>1. client'[c].pc = "idle"
      BY <1>1, <2>2, GoFacts, Pcs
    <3> QED
      BY <2>1, <3>1 DEF Cut, Busy, ClientEnds
  <2>3. CASE client' = [client EXCEPT ![c].conf.mock = Len(mocks'), ![c].pc = "truncateConfig"]
    <3>1. PICK id \in Nat : /\ id = Len(mocks')
                            /\ Len(mocks') = Len(mocks) + 1
                            /\ DOMAIN mocks = 1..Len(mocks)
                            /\ DOMAIN mocks' = 1..Len(mocks') /\ Len(mocks) \in Nat
      BY <1>1, <1>4 DEF CloudInv, CloudTyped, EnsureMockExists
    <3>2. client[c] \in Sessions /\ client[c].conf \in Configs
      BY <1>1 DEF Sessions
    <3>3. client'[c].pc = "truncateConfig" /\ client'[c].conf.mock = id
      BY <1>1, <2>3, <3>1, <3>2 DEF Sessions, Configs
    <3>4. Elsewhere(c)
      BY <1>1, <2>3 DEF Elsewhere
    <3>5. CASE i \in DOMAIN mocks
      BY <2>1, <3>4, <3>5, StillRemembered DEF Recorders
    <3>6. CASE i \notin DOMAIN mocks
      BY <3>1, <3>3, <3>6 DEF Remembered, Mock
    <3> QED
      BY <3>5, <3>6
  <2> QED
    BY <1>4, <2>2, <2>3 DEF EnsureMockExists
<1>5. CASE TruncateConfig(c) \/ SaveConfig(c)
  <2>1. PICK path \in Paths : path = client[c].path
    BY <1>1, <1>5 DEF Placed, TruncateConfig, SaveConfig, At, SavePcs
  <2>2. client[c].pc \in Recorders /\ Remembered(i)
    BY <1>5, SameMocks DEF TruncateConfig, SaveConfig, EnsureMockExists, At, Recorders
  <2>3. PICK w : confs' = [confs EXCEPT ![path] = w]
    BY <1>5, <2>1 DEF TruncateConfig, SaveConfig
  <2>4. \A p \in Paths : confs'[p] = IF p = path THEN w ELSE confs[p]
    BY <1>1, <2>3
  <2>5. Elsewhere(c)
    BY <1>1, <1>5 DEF TruncateConfig, SaveConfig, Go, Elsewhere
  <2>6. \/ Remembered(i)'
        \/ StoredMock(path) = i
        \/ Mock(c) = i
    <3>1. CASE \E p \in DOMAIN confs : StoredMock(p) = i
      <4>1. PICK p \in Paths : StoredMock(p) = i
        BY <1>1, <3>1
      <4>2. CASE p # path
        <5>1. StoredMock(p)' = i /\ p \in DOMAIN confs'
          BY <1>1, <2>3, <2>4, <4>1, <4>2 DEF StoredMock
        <5> QED
          BY <5>1 DEF Remembered
      <4> QED
        BY <4>1, <4>2
    <3>2. CASE \E d \in Clients : Mock(d) = i /\ client[d].pc \in Recorders
      BY <2>5, <3>2 DEF Remembered, Mock, Elsewhere, Recorders
    <3> QED
      BY <2>2, <3>1, <3>2 DEF Remembered, Recorders
  <2>7. CASE TruncateConfig(c)
    <3>1. client[c].pc = "truncateConfig" /\ Go(c, "fillConfig")
      BY <2>7 DEF TruncateConfig, At
    <3>2. StoredMock(path) = i => Mock(c) = i
      BY <1>1, <1>2, <2>1, <3>1 DEF Recorded, Replaces, At
    <3>3. client'[c].pc = "fillConfig" /\ client'[c].conf = client[c].conf
      BY <1>1, <3>1, GoFacts, Pcs
    <3> QED
      BY <2>6, <3>2, <3>3 DEF Remembered, Mock
  <2>8. CASE SaveConfig(c)
    <3>1. client[c].pc = "fillConfig" /\ confs[path] = Torn
      BY <1>1, <2>1, <2>8 DEF SaveConfig, At, Recorded
    <3>2. StoredMock(path) # i
      BY <1>2, <3>1 DEF StoredMock
    <3>3. confs'[path] = client[c].conf
      BY <1>1, <2>1, <2>8, <3>1 DEF SaveConfig, Written
    <3>4. client[c].conf \in Configs /\ None \notin Configs /\ Torn \notin Configs
      BY <1>1 DEF Sessions, Configs
    <3>5. StoredMock(path)' = Mock(c) /\ path \in DOMAIN confs'
      BY <1>1, <2>3, <3>3, <3>4 DEF StoredMock, Mock
    <3> QED
      BY <2>6, <3>2, <3>5 DEF Remembered
  <2> QED
    BY <1>5, <2>7, <2>8
<1>6. CASE ~(CommandFails(c) \/ EnsureMockExists(c) \/ TruncateConfig(c) \/ SaveConfig(c))
  <2>1. Elsewhere(c) /\ UNCHANGED confs /\ client[c].pc \notin Recorders
    BY <1>6, ElsewhereSteps DEF CloudStep, WorkspaceStep
  <2>2. Remembered(i)
    BY <1>6, SameMocks
  <2> QED
    BY <2>1, <2>2, StillRemembered
<1> QED
  BY <1>3, <1>4, <1>5, <1>6

(* A mock that was created stays recorded unless a command was cut short or  *)
(* met another, or the user set another ID: a workspace can reach it         *)
(* (mockscloud/deploy.go:82-103, mockscloud/config.go:67-90,                 *)
(* remote/config.go).                                                        *)
THEOREM Remembers == CloudSpec => MocksRemembered
<1>1. ASSUME CloudInv, [CloudNext]_cloudVars,
             NEW i \in DOMAIN mocks', i \notin DOMAIN mocks \/ Remembered(i), ~Remembered(i)'
      PROVE  \E c \in Clients : Cut(c) \/ client[c].met \/ Replaces(c, i)
  <2>1. CASE \E c \in Clients : CloudStep(c)
    BY <1>1, <2>1, StepRemembers
  <2>2. ASSUME NEW j \in DOMAIN mocks, PlatformStarts(j) PROVE FALSE
    <3>1. DOMAIN mocks' = DOMAIN mocks /\ UNCHANGED <<client, confs>>
      BY <1>1, <2>2 DEF CloudInv, CloudTyped, PlatformStarts, CloudRest
    <3> QED
      BY <1>1, <3>1 DEF Remembered, StoredMock, Mock
  <2>3. CASE EditDirectory
    <3>1. UNCHANGED <<confs, mocks>> /\ client \in [Clients -> Sessions]
      BY <1>1, <2>3 DEF CloudInv, CloudTyped, EditDirectory
    <3>2. \A c \in Clients : client'[c].pc = client[c].pc /\ client'[c].conf = client[c].conf
      BY <3>1, <2>3 DEF EditDirectory, Sessions
    <3> QED
      BY <1>1, <3>1, <3>2 DEF Remembered, StoredMock, Mock
  <2>4. CASE UNCHANGED cloudVars
    BY <1>1, <2>4 DEF cloudVars, workspaceVars, Remembered, StoredMock, Mock
  <2> QED
    BY <1>1, <2>1, <2>2, <2>3, <2>4 DEF CloudNext
<1>2. CloudInv /\ [CloudNext]_cloudVars =>
        [\A i \in DOMAIN mocks' :
           (i \notin DOMAIN mocks \/ Remembered(i)) /\ ~Remembered(i)' =>
             \E c \in Clients : Cut(c) \/ client[c].met \/ Replaces(c, i)]_cloudVars
  BY <1>1
<1> QED
  BY <1>2, CloudInvHolds, PTL DEF CloudSpec, MocksRemembered
==============================================================================
