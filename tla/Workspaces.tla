----------------------------- MODULE Workspaces -----------------------------
(***************************************************************************)
(* Workspaces (internal/workspace) and the configuration of their remotes  *)
(* (internal/remote).  A directory's workspaces are one JSON file, each    *)
(* remote's configuration is another, named after its type and workspace.  *)
(* Every command reads a file, changes what it read and writes the file    *)
(* back, with no lock; a file that is not JSON fails every command.  A     *)
(* command that has nothing to change changes nothing and is left out.     *)
(***************************************************************************)
EXTENDS Naturals, Functions

CONSTANTS
    Clients,    \* the CLIs
    Names,      \* workspace names
    None,       \* no workspace, no file, no mock
    Torn,       \* a file that is not JSON
    MaxRuns     \* bound on the commands run

VARIABLES
    meta,       \* workspaces.json: Torn or [active, spaces], spaces: name -> remote type
    confs,      \* <<type, name>> -> its file: None, Torn or [mock]
    client,     \* CLI -> the command it runs
    runs        \* commands run so far

ASSUME FilesAssumption ==
    None \notin Nat /\ {None, Torn} \cap [mock : Nat \cup {None}] = {}

workspaceVars == <<meta, confs, client, runs>>

RemoteTypes == {"mockscloud", "awslambda"}
NoMetadata == [active |-> None, spaces |-> <<>>]
NoConfig   == [mock |-> None]
NoSync     == [remote |-> {}, local |-> {}, todo |-> {}]

(* met: another command ran, or the directory changed, while this one did (history). *)
NoClient == [pc |-> "idle", op |-> "none", meta |-> NoMetadata, path |-> None, conf |-> NoConfig,
             sync |-> NoSync, met |-> FALSE]
ClientEnds == {"idle", "deployed"}
Busy(c) == client[c].pc \notin ClientEnds

\* A function with one entry more, or another one.
With(entries, x, value) == [y \in DOMAIN entries \cup {x} |-> IF y = x THEN value ELSE entries[y]]

WorkspacesInit ==
    /\ meta \in {NoMetadata} \cup {[active |-> n, spaces |-> With(<<>>, n, "mockscloud")] : n \in Names}
    /\ confs = [path \in RemoteTypes \X Names |-> None]
    /\ client = [c \in Clients |-> NoClient]
    /\ runs = 0

\* New, Delete, SetActive and SaveActiveRemoteType, on the metadata in memory.
WithWorkspace(m, n) ==
    [active |-> IF m.spaces = <<>> THEN n ELSE m.active, spaces |-> With(m.spaces, n, "mockscloud")]
\* Mutant: the workspace deleted stays the active one.
WithoutEntry(m, n) == [m EXCEPT !.spaces = Restrict(@, DOMAIN @ \ {n})]
WithoutWorkspace(m, n) ==
    [active |-> IF m.active = n THEN None ELSE m.active,
     spaces |-> Restrict(m.spaces, DOMAIN m.spaces \ {n})]
WithActive(m, n) == [m EXCEPT !.active = n]
WithType(m, t)   == [m EXCEPT !.spaces[m.active] = t]

ConfigPath(type, n) == <<type, n>>

Start(c, r) ==
    /\ ~Busy(c) /\ runs < MaxRuns /\ meta # Torn
    /\ runs' = runs + 1
    /\ client' = [d \in Clients |-> IF d = c THEN [r EXCEPT !.met = \E e \in Clients : Busy(e)]
                                    ELSE [client[d] EXCEPT !.met = @ \/ Busy(d)]]
    /\ UNCHANGED <<meta, confs>>

Saves(c, m) == Start(c, [NoClient EXCEPT !.pc = "truncateMeta", !.meta = m])
Loads(c, op) ==
    /\ meta # Torn /\ meta.active # None
    /\ Start(c, [NoClient EXCEPT !.pc = "loadConfig", !.op = op, 
                                 !.path = ConfigPath(meta.spaces[meta.active], meta.active)])

NewWorkspace(c, n)    == meta # Torn /\ n \notin DOMAIN meta.spaces /\ Saves(c, WithWorkspace(meta, n))
DeleteWorkspace(c, n) == meta # Torn /\ n \in DOMAIN meta.spaces /\ Saves(c, WithoutWorkspace(meta, n))
SetActive(c, n)       == meta # Torn /\ n \in DOMAIN meta.spaces /\ Saves(c, WithActive(meta, n))
SetType(c, t)         == meta # Torn /\ meta.active # None /\ Saves(c, WithType(meta, t))
\* Of the cloud remote's keys, the mock's ID is SetMockId's.
SetConfigValue(c)     == Loads(c, "config")

Go(c, pc) == client' = [client EXCEPT ![c] = IF pc \in ClientEnds THEN [NoClient EXCEPT !.pc = pc]
                                             ELSE [@ EXCEPT !.pc = pc]]
At(c, pc) == client[c].pc = pc

\* os.WriteFile truncates and then writes; over the text of a writer that came
\* in between it may leave what is not JSON.
Written(old, new) == {new} \cup (IF old = Torn THEN {} ELSE {Torn})

TruncateMetadata(c) ==
    /\ At(c, "truncateMeta")
    /\ meta' = Torn
    /\ Go(c, "fillMeta")
    /\ UNCHANGED <<confs, runs>>
SaveMetadata(c) ==
    /\ At(c, "fillMeta")
    /\ meta' \in Written(meta, client[c].meta)
    /\ Go(c, "idle")
    /\ UNCHANGED <<confs, runs>>

\* What a command does with the configuration it loaded.
AfterLoad(op, conf) ==
    IF op = "config" THEN "truncateConfig"
    ELSE IF op = "deploy" /\ conf.mock = None THEN "createMock"
    ELSE "draft"

LoadConfig(c) ==
    /\ At(c, "loadConfig")
    /\ LET stored == confs[client[c].path]
           conf == IF stored = None THEN NoConfig ELSE stored
       IN IF stored = Torn THEN Go(c, "idle")
          ELSE client' = [client EXCEPT ![c].conf = conf, ![c].pc = AfterLoad(client[c].op, conf)]
    /\ UNCHANGED <<meta, confs, runs>>

TruncateConfig(c) ==
    /\ At(c, "truncateConfig")
    /\ confs' = [confs EXCEPT ![client[c].path] = Torn]
    /\ Go(c, "fillConfig")
    /\ UNCHANGED <<meta, runs>>
SaveConfig(c) ==
    /\ At(c, "fillConfig")
    /\ \E w \in Written(confs[client[c].path], client[c].conf) :
         confs' = [confs EXCEPT ![client[c].path] = w]
    /\ Go(c, IF client[c].op = "deploy" THEN "draft" ELSE "idle")
    /\ UNCHANGED <<meta, runs>>

\* An error, or Ctrl+C: nothing is undone.
CommandFails(c) == Busy(c) /\ Go(c, "idle") /\ UNCHANGED <<meta, confs, runs>>

WorkspaceStep(c) ==
    \/ \E n \in Names : NewWorkspace(c, n) \/ DeleteWorkspace(c, n) \/ SetActive(c, n)
    \/ \E t \in RemoteTypes : SetType(c, t)
    \/ SetConfigValue(c) \/ LoadConfig(c) \/ TruncateConfig(c) \/ SaveConfig(c)
    \/ TruncateMetadata(c) \/ SaveMetadata(c) \/ CommandFails(c)
-----------------------------------------------------------------------------
\* A metadata file that parses names an active workspace that exists, or none
\* (manage.go:91-93 has no way out of the other case).
WorkspacesTypeOK ==
    /\ meta = Torn \/ meta.active \in DOMAIN meta.spaces \cup {None}
    /\ meta = Torn \/ \A n \in DOMAIN meta.spaces : n \in Names /\ meta.spaces[n] \in RemoteTypes
    /\ \A path \in DOMAIN confs : confs[path] \in {None, Torn} \/ DOMAIN confs[path] = {"mock"}
=============================================================================
