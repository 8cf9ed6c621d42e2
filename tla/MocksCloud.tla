----------------------------- MODULE MocksCloud -----------------------------
(***************************************************************************)
(* The Imposter Cloud Mocks remote (internal/remote/mockscloud): a deploy  *)
(* creates the workspace's mock once and saves its ID, takes it out of     *)
(* service, lists its files, uploads those of the directory, deletes the   *)
(* others, puts it into service and polls until the platform reports it    *)
(* active.  Any request can fail, with or without having taken effect, and *)
(* nothing is undone.                                                      *)
(***************************************************************************)
EXTENDS Workspaces, Sequences

CONSTANTS
    Directories,   \* contents of the workspace's directory: file -> content
    DirClean,      \* dir + "/" is a prefix of the paths filepath.Join makes of its files
    MaxMocks       \* bound on the mocks created

VARIABLES
    mocks,      \* ID -> [state, status, files, mixed]; mixed: overlapping deploys wrote it (history)
    local       \* the directory

cloudVars == <<workspaceVars, mocks, local>>

ASSUME DirCleanAssumption == DirClean \in BOOLEAN
ASSUME DirectoriesAssumption == \A d \in Directories : d = [file \in DOMAIN d |-> d[file]]

\* The directory's workspace was deployed before, from this directory or another.
DeployedBefore ==
    \E n \in Names, d \in Directories :
        /\ meta = [active |-> n, spaces |-> With(<<>>, n, "mockscloud")]
        /\ confs = [path \in RemoteTypes \X Names |-> IF path = <<"mockscloud", n>> THEN [mock |-> 1] ELSE None]
        /\ mocks = <<[state |-> "LIVE", status |-> "ACTIVE", files |-> d, mixed |-> FALSE]>>
        /\ client = [c \in Clients |-> NoClient] /\ runs = 0

CloudInit ==
    /\ \/ WorkspacesInit /\ mocks = <<>>
       \/ DeployedBefore
    /\ local \in Directories

Mock(c) == client[c].conf.mock
\* The reply may not arrive.
Answered(c, pc) == \E next \in {pc, "idle"} : Go(c, next)
CloudRest == UNCHANGED <<meta, confs, runs, local>>

CloudDeploy(c) ==
    /\ meta # Torn /\ meta.active # None /\ meta.spaces[meta.active] = "mockscloud"
    /\ Loads(c, "deploy") /\ UNCHANGED <<mocks, local>>
CloudUndeploy(c) ==
    /\ meta # Torn /\ meta.active # None /\ meta.spaces[meta.active] = "mockscloud"
    /\ Loads(c, "undeploy") /\ UNCHANGED <<mocks, local>>

\* `remote config` may set the mock's ID itself: to that of some mock, to one that
\* no mock has (0), or to nothing.
SetMockId(c) ==
    /\ At(c, "loadConfig") /\ client[c].op = "config" /\ client[c].path[1] = "mockscloud"
    /\ confs[client[c].path] # Torn
    /\ \E i \in DOMAIN mocks \cup {0, None} :
         client' = [client EXCEPT ![c].conf.mock = i, ![c].op = "mockId", ![c].pc = "truncateConfig"]
    /\ UNCHANGED mocks /\ CloudRest

\* Mutant: the ID of the new mock is not saved.
CreateMockUnsaved(c) ==
    /\ At(c, "createMock") /\ Len(mocks) < MaxMocks
    /\ mocks' = Append(mocks, [state |-> "DRAFT", status |-> "inactive", files |-> <<>>, mixed |-> FALSE])
    /\ client' = [client EXCEPT ![c].conf.mock = Len(mocks'), ![c].pc = "draft"]
    /\ CloudRest

EnsureMockExists(c) ==
    /\ At(c, "createMock") /\ Len(mocks) < MaxMocks
    /\ mocks' = Append(mocks, [state |-> "DRAFT", status |-> "inactive", files |-> <<>>, mixed |-> FALSE])
    /\ \/ client' = [client EXCEPT ![c].conf.mock = Len(mocks'), ![c].pc = "truncateConfig"]
       \/ Go(c, "idle")
    /\ CloudRest

SetState(c, state) ==
    mocks' = [mocks EXCEPT ![Mock(c)].state = state, ![Mock(c)].status = "inactive",
                ![Mock(c)].mixed = client[c].met \/ (@ /\ state # "LIVE")]

\* The request for a mock that does not exist is refused: CommandFails.
\* Mutant: a mock in service is synchronised where it is.
SyncInService(c) ==
    /\ At(c, "draft") /\ Mock(c) \in DOMAIN mocks
    /\ IF client[c].op = "deploy" THEN UNCHANGED mocks ELSE SetState(c, "DRAFT")
    /\ Answered(c, IF client[c].op = "deploy" THEN "list" ELSE "idle")
    /\ CloudRest

SetDraft(c) ==
    /\ At(c, "draft") /\ Mock(c) \in DOMAIN mocks
    /\ SetState(c, "DRAFT")
    /\ Answered(c, IF client[c].op = "deploy" THEN "list" ELSE "idle")
    /\ CloudRest

SyncFiles(c) ==
    /\ At(c, "list")
    /\ client' = [client EXCEPT ![c].pc = "upload",
                     ![c].sync = [remote |-> DOMAIN mocks[Mock(c)].files, local |-> DOMAIN local,
                                  todo |-> DOMAIN local]]
    /\ UNCHANGED mocks /\ CloudRest

Sent(c, f) == \/ client' = [client EXCEPT ![c].sync.todo = @ \ {f}]
              \/ Go(c, "idle")

UploadFile(c) ==
    /\ At(c, "upload")
    /\ \E f \in client[c].sync.todo \cap DOMAIN local :
         /\ mocks' = [mocks EXCEPT ![Mock(c)].files = With(@, f, local[f]),
                                   ![Mock(c)].mixed = @ \/ client[c].met]
         /\ Sent(c, f)
    /\ CloudRest

\* Mutant: what is no longer in the directory stays.
NoDelta(c) == {}
\* The local names are those of the listing less the prefix dir + "/", which none
\* has when the directory's path is not clean, is the root, or has backslashes.
CalculateDelta(c) == client[c].sync.remote \ (IF DirClean THEN client[c].sync.local ELSE {})

Uploaded(c) ==
    /\ At(c, "upload") /\ client[c].sync.todo = {}
    /\ client' = [client EXCEPT ![c].pc = "delete", ![c].sync.todo = CalculateDelta(c)]
    /\ UNCHANGED mocks /\ CloudRest

DeleteRemote(c) ==
    /\ At(c, "delete")
    /\ \E f \in client[c].sync.todo :
         /\ mocks' = [mocks EXCEPT ![Mock(c)].files = Restrict(@, DOMAIN @ \ {f}),
                                   ![Mock(c)].mixed = @ \/ client[c].met]
         /\ Sent(c, f)
    /\ CloudRest

SetLive(c) ==
    /\ At(c, "delete") /\ client[c].sync.todo = {}
    /\ SetState(c, "LIVE")
    /\ \/ client' = [client EXCEPT ![c].pc = "wait", ![c].sync = NoSync]
       \/ Go(c, "idle")
    /\ CloudRest

\* The poll ends when the platform reports the mock active or failed; the
\* timeout is CommandFails.
WaitForStatus(c) ==
    /\ At(c, "wait") /\ mocks[Mock(c)].status # "inactive"
    /\ Go(c, IF mocks[Mock(c)].status = "ACTIVE" THEN "deployed" ELSE "idle")
    /\ UNCHANGED mocks /\ CloudRest

\* The platform starts a mock that is in service, or fails to.
PlatformStarts(i) ==
    /\ mocks[i].state = "LIVE" /\ mocks[i].status = "inactive"
    /\ \E status \in {"ACTIVE", "FAILED"} : mocks' = [mocks EXCEPT ![i].status = status]
    /\ UNCHANGED client /\ CloudRest

EditDirectory ==
    /\ local' \in Directories \ {local}
    /\ client' = [c \in Clients |-> [client[c] EXCEPT !.met = @ \/ Busy(c)]]
    /\ UNCHANGED <<meta, confs, runs, mocks>>

CloudStep(c) ==
    \/ WorkspaceStep(c) /\ UNCHANGED <<mocks, local>>
    \/ CloudDeploy(c) \/ CloudUndeploy(c) \/ SetMockId(c) \/ EnsureMockExists(c) \/ SetDraft(c)
    \/ SyncFiles(c) \/ UploadFile(c) \/ Uploaded(c) \/ DeleteRemote(c) \/ SetLive(c) \/ WaitForStatus(c)

CloudNext ==
    \/ \E c \in Clients : CloudStep(c)
    \/ \E i \in DOMAIN mocks : PlatformStarts(i)
    \/ EditDirectory

CloudSpec == CloudInit /\ [][CloudNext]_cloudVars
-----------------------------------------------------------------------------
CloudTypeOK ==
    /\ \A i \in DOMAIN mocks : /\ mocks[i].state \in {"DRAFT", "LIVE"}
                               /\ mocks[i].status # "inactive" => mocks[i].state = "LIVE"
    /\ \A c \in Clients : client[c].pc \in {"list", "upload", "delete", "wait"} => Mock(c) \in DOMAIN mocks

StoredMock(path) == IF confs[path] \in {None, Torn} THEN None ELSE confs[path].mock

(* A mock in service holds the directory as a whole, as it was at some      *)
(* deploy: what a failed deploy left half done stays out of service, unless *)
(* deploys overlapped (or the directory was edited, or its path is not      *)
(* clean, see SyncKeepsLocal).                                              *)
LiveIsWhole ==
    DirClean => \A i \in DOMAIN mocks :
        mocks[i].state = "LIVE" /\ ~mocks[i].mixed => mocks[i].files \in Directories

(* A deploy that reports success while no other command ran has delivered:  *)
(* the workspace's mock is in service and holds this directory's files, no  *)
(* others and none of an older content, whatever earlier deploys left.      *)
DeployMirrors ==
    [][\A c \in Clients :
         At(c, "wait") /\ At(c, "deployed")' /\ ~client[c].met /\ DirClean =>
           mocks[Mock(c)].state = "LIVE" /\ mocks[Mock(c)].files = local]_cloudVars

Remembered(i) == \/ \E path \in DOMAIN confs : StoredMock(path) = i
                 \/ \E c \in Clients : Mock(c) = i /\ client[c].pc \in {"truncateConfig", "fillConfig"}
Cut(c) == Busy(c) /\ ~Busy(c)' /\ UNCHANGED confs
Replaces(c, i) == At(c, "truncateConfig") /\ client[c].op = "mockId"
                  /\ StoredMock(client[c].path) = i /\ Mock(c) # i

(* A mock that was created is recorded, and its record is lost only by a    *)
(* command that is cut short or overlaps with another, or when the user     *)
(* sets another ID in its place: otherwise it would stay on the platform    *)
(* with no workspace to reach it.                                           *)
MocksRemembered ==
    [][\A i \in DOMAIN mocks' :
         (i \notin DOMAIN mocks \/ Remembered(i)) /\ ~Remembered(i)' =>
           \E c \in Clients : Cut(c) \/ client[c].met \/ Replaces(c, i)]_cloudVars

(* What files.go:45 says calculateDelta determines, "the remote files that  *)
(* are not present in dir": a deploy deletes no file of its directory.      *)
SyncKeepsLocal ==
    [][\A c \in Clients : At(c, "delete") /\ At(c, "delete")' =>
         client[c].sync.todo \ client'[c].sync.todo \subseteq
           client[c].sync.todo \ DOMAIN local]_cloudVars
=============================================================================
