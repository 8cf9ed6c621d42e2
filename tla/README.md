# Verification of the Imposter CLI

TLA+ models of the Imposter CLI (`imposter`, Go), the TLC runs that check them,
and theorems about them checked by TLAPS. Paths below are relative to `src/`.

## 1. The system

`imposter up` starts a mock server, of one of several *engines*, on a directory of
configuration, waits until it answers, and then serves until it is stopped. The
other commands manage what such mocks need: engine versions and binaries, plugins,
scaffolded or recorded configuration, mocks left running in the background, workspaces
and remotes (a deployment of the same directory to a cloud).

| Component | Code | State | Operations | What makes it correct |
|---|---|---|---|---|
| Debouncer | `internal/debounce` | map of registered IDs, a caller's WaitGroup | Register, Notify | one Done per registered ID, whoever notifies; never below zero; no early release |
| Up command | `cmd/up.go` | WaitGroup, `interrupted`, detach mode; goroutines main, signal, restart | start, trapExit, the watch loop | ends when the mock does or the user asks; leaves no mock behind |
| Docker engine | `internal/engine/docker` | `containerId`, `shutDownC`, the debouncer; containers in dockerd | start, Stop, StopImmediately, Restart, removal | every container it registered is removed and settled once |
| JVM and native engines | `internal/engine/jvm`, `native` | the `command`; child processes | the same | the same; never two mocks on a port |
| Health wait | `internal/engine/health.go` | two goroutines, three channels, an atomic | WaitUntilUp, WaitForOp | returns once: up, aborted or timed out |
| Directory watcher | `internal/fileutil/dirwatcher.go` | flag `dirUpdated`, a channel | WatchDir | every change of a watched directory leads to a restart that serves it |
| Managed mocks | `cmd/down.go`, `cmd/list.go`, `procutil`, docker's `labels.go`, `removal.go` | containers and processes of other CLIs | `down --all`, `down ID`, `ls -x`, deduplication | stops all it can tell for mocks, and nothing else |
| Version and prefs | `internal/engine/version.go`, `internal/prefs` | a JSON file: latest version, time of check | ResolveLatest, ReadProperty, WriteProperty | a cached version is a recent one |
| Engine binaries | `internal/library`, `internal/engine/*/provider.go`, `single_jar.go`, `awslambda/binary.go`, `internal/fileutil`, `internal/compression` | cached files | Provide, download, move, extract, zip | a file in the cache is complete |
| Plugins | `internal/plugin` | plugin files per version, list of defaults | install, uninstall, ensure on `up` | the files and the list are what was asked for |
| Proxy and recorder | `internal/proxy`, `cmd/proxy.go` | hashes, resources, files | Handle, record, rewrite of the configuration | the recorded mock answers as the upstream did |
| Scaffolding | `internal/impostermodel`, `internal/config/engine_config.go`, `cmd/scaffold.go` | the files of a directory | scaffold, `up --scaffold` | each specification is configured; the user's files are kept without `--force-overwrite` |
| Workspaces | `internal/workspace` | metadata file, active workspace | New, Delete, SetActive | at most one active, which exists |
| Remote configuration | `internal/remote` | one file per workspace and type | SaveActiveRemoteType, Load, SetConfig | keeps the ID of the mock |
| Mocks cloud | `internal/remote/mockscloud` | remote mock: DRAFT or LIVE, files | Deploy, Undeploy | a deploy ends live and whole or reports failure |
| Lambda | `internal/remote/awslambda` | role, function, version, alias, URL, permission, bucket | Deploy, Undeploy | a second run completes what a first left |
| Engine builder, configuration | `internal/engine/builder.go`, `internal/config` | registries, layers of files and environment | pure derivations | precedence |

How they interact in a session: `start()` calls the engine's `Start` on main, which
registers with the debouncer and may block in the health wait; `trapExit` runs
`StopImmediately` on the signal goroutine; the directory watcher sends on a channel
to the restart goroutine, which runs `Restart`; `Stop` leaves a supervisor goroutine,
and `Start` a watcher goroutine, which notify the same debouncer. All of them share
the engine struct without a lock, and main's `wg.Wait()` decides when the process
ends.

The other components are sequential programs over files or remote services; what is
hard there is a second CLI, a crash, or a request that fails between two steps. A
version is resolved before a binary is provided, plugins are ensured for that version,
and `up` looks at the directory's configuration; each keeps its state in files of its
own. A deploy reads the active workspace, then that workspace's remote configuration,
and writes the latter back when it has created something.

Hard behaviour, with the line where it bites, is listed under `hazards` in
`PROJECT.json`.

## 2. Modules

| Module | Models | Checked in |
|---|---|---|
| `AtMostOnce` | the promise in the debouncer's doc comment: an ID is opened once, settled at most once, the counter is the number open | refined by `Debouncer` |
| `Debouncer` | `debouncer.go`: each call is the step under the mutex and the WaitGroup step after it | `session_parts` |
| `UpCommand` | `cmd/up.go` and the calls engines share with it: StopImmediately, Restart, the outcomes of the health wait, `sync.WaitGroup` with its panics | through the two below |
| `DockerLifecycle` | `docker/engine.go`, `removal.go` over dockerd | `docker_*` |
| `ProcessLifecycle` | `jvm/engine.go`, `native/engine.go` over child processes | `process` |
| `DirWatcher` | `dirwatcher.go` from an edit to the restarted mock | `session_parts`, `dir_watcher_lost_edit` |
| `VersionCache` | `version.go` over `prefs.go` | `provisioning` |
| `EngineBinaries` | the four caches and their downloads | `provisioning` |
| `PluginStore` | `internal/plugin` and the plugin list in the configuration file | `provisioning` |
| `Recorder` | `internal/proxy` behind its channel | `provisioning` |
| `Scaffold` | the files `scaffold` and `up --scaffold` write | `provisioning` |
| `Workspaces` | workspace metadata and remote configuration files | `remotes` |
| `MocksCloud` | deploy, undeploy and the mock's ID over `Workspaces` (it extends that module and uses its commands) | `remotes`, `mockscloud_delta` |
| `LambdaDeploy` | deploy and undeploy over AWS | `remotes`, `lambda_flavour` |
| `ManagedMocks` | `down`, `ls -x` and deduplication over dockerd and the process table | `remotes`, `mocks_health` |
| `DebouncerProofs`, `DockerLifecycleProofs`, `DirWatcherProofs`, `ProcessLifecycleProofs`, `ManagedMocksProofs`, `MocksCloudProofs` | theorems, each about the module of its name | |
| `ProvisioningProofs` | theorems about `EngineBinaries`, `PluginStore`, `Recorder`, `Scaffold` and `VersionCache`, and about `MCProvisioning`, which composes them | |
| `RemotesProofs` | theorems about `LambdaDeploy`, and about `MCRemotes`, which composes it with `MocksCloud` and `ManagedMocks` | |
| `MC*` | the instances TLC checks | |

### State and actions against the code

*UpCommand.* `pc[t]` is where goroutine `t` is; `back[t]` is where its call of `Stop`
returns, because `Stop` is called from `StopImmediately` (and returns to nothing),
from `Restart` (and goes on to a start) and from `stopAfterFailedStart` (and makes
`Start` return false). `waiter` is main's `wg.Wait()`: not called, parked, released
by the counter reaching zero but not yet running; a released waiter that finds the
counter in use panics, as `sync.WaitGroup` does. `abortPending` is the goroutine
that sends on the unbuffered `shutDownC`: whichever health wait receives next takes
the value, not necessarily the one the user meant. `proc` is how the process
ended: `logger.Fatal` (`"fatal"`) may strike at every request that has it.
`detach` has the three modes; with `"now"` no trap is installed and a signal
kills the process.

*DockerLifecycle.* One step per request to dockerd and per access of a shared
variable. `status` is dockerd's view; `"removing"` is a removal that was accepted,
which completes even if the CLI is gone. `TornContainerId` is the data race on the
string `containerId` (`engine.go:101` against `:313`): a reader that sees the length
before the bytes crashes.

*ProcessLifecycle.* `notifyOnStopBlocking` reads `j.command` again for each use
(`jvm/engine.go:179-184`): the ID it will notify and the process it will wait for
are two reads, two steps, and a restart may replace the command in between. Every
goroutine waiting for a child is released when it exits; killing a child that
was already waited for is an error, and fatal (`:155-158`). The engines differ
in what a failed exec does: fatal for jvm, `Start` returns false for native.

*DirWatcher.* The flag is read by the ticker, the notification handed over on an
unbuffered channel (which may block for a whole restart), the flag lowered: three
steps. The polling library scans, and hands over the events of a scan, up to two for
each edit, before it scans again. `AddRecursive` may fail: that is only warned of (`:32-34`), and
`watching` is then false for the whole session. `unseen` and `lost` are history variables that
say which events had no read of the flag after them.

*VersionCache.* The preferences file is either two keys per engine type or `Torn`.
`WriteProperty` is three steps of the CLI: load (`prefs.go:107-110`), the truncation
and the text of `os.WriteFile`; a CLI may be killed or run out of disk at each, and
another may run between any two. A lookup takes the time once, and writes the
version, then the time. The release API is the external `Release`/`FetchFails`.

*EngineBinaries.* A cached file is absent, partial or whole; `owner` says who
truncated it last, because a writer whose file was truncated again cannot complete
it. A behaviour is about one kind of binary: the JAR and the Lambda JAR are moved
into place, by rename or, whatever the reason a rename fails for (`fileutil.go:94`), by a copy that
truncates the destination; the native engine is unpacked from an archive moved to its side,
the native Lambda binary is zipped straight under its name, where an error in closing the zip
is dropped (`binary.go:163-166`). `copied` remembers that a rename has failed. Presence is all that
`StatBinary` sees. `OpenBinary` is the bundle of a Lambda deployment: a zip cut short has no directory
at its end and does not open (`bundle.go:71`), but one closed over a part of its entries does.

*PluginStore.* A command takes its plugins one by one (`todo`), then reads the list of
defaults, reads it again, truncates and writes it. The list keeps its deprecated key
and its duplicates. A JAR is moved as above, by rename or by a copy that may be cut short,
a native plugin unpacked in its place. A failure to write the list, before or after the file
was truncated (`ListNotOpened`, `ListNotWritten`), is logged by the callers (`plugin.go:36`,
`:118`) and the command ends in success.

*Recorder.* Handlers share only the channel, so a handler is the step in which its
exchange is received; what the recorder goroutine then does is one step per file
operation. `RespFileName` is the choice of a name that is not taken, as the code makes
it. A stopped proxy may be started again over the responses of an earlier run.

*Scaffold.* What a file says is the set of files and plugins it names. Looking for a
file (`LookFor`, `MustNotExist`) and creating it are two steps, between which the user may come;
`checked` says that the command is between them, `late` that the user came. README.md and
response.json of a REST mock are created without a look. Every failure is fatal and leaves the file
as it was, or cut. The user edits and removes files at any time.

*Workspaces, MocksCloud.* A command is a record in `client[c]`: its step, the metadata or
configuration it holds in memory, and for a deploy the three lists of a sync. The directory is new
to the cloud, or its workspace was deployed from it or another before (`DeployedBefore`). Each
request has two outcomes besides being refused: it takes effect and the reply arrives, or
it takes effect and the reply does not. `CommandFails` is an error, a timeout or Ctrl+C
anywhere. The platform starts a LIVE mock or fails to. `remote config` may change the mock's ID
(`SetMockId`, a key of the remote: `mockscloud/config.go:25-29`), to that of another mock, to one
that no mock has, or to nothing; a deploy with an ID that no mock has fails at its first request. `CalculateDelta` depends on
`DirClean`: with a path that is not what `filepath.Join` would write, no local name
has the prefix that is cut.

*LambdaDeploy.* One step per AWS call, with the preconditions AWS enforces (no update
while one is in progress, no alias to a version that does not exist); a published
version is its code and SnapStart, so that publishing unchanged code gives the
version there is. `$LATEST` is `Latest`. AWS may fail to start a version: `awaitReady` waits
while the state is Pending and takes every other, Failed and Inactive among them, for ready
(`deploy.go:184-190`). For the function itself it also waits for its last update; `settled` says
that neither is under way.

*ManagedMocks.* What a process is and what it looks like are two things: a program has a `kind`,
the `name` of its process, and `fits` says that one of its arguments matches the engine's
pattern. `LooksLike`, which is `isImposterProc`, sees the latter two only (`procutil/processes.go:67-77`),
so that another Java program may be taken for a mock and a mock from a JAR of another name be
overlooked (`Overlooked`). An item a command holds stands for the container or process it saw,
whoever has its number later: `born` tells two users of a PID apart. Each engine type
is asked in turn; `EngineFails` is the fatal error that `runWithRecovery` turns into a
warning. A PID may begin a container's ID (`beginsWith`), because dockerd resolves
prefixes.

History variables and fields (`strayed`, `abandoned`, `events`, `restarts`, `unseen`,
`lost`; `until`, `raced`, `prefsDisturbed`, `beyondRepair`; `leftPartial`, `copied`, `met`; `cut`,
`listDisturbed`; `handedOver`, `notWritten`, a resource's `body`; `cutShort`, `late`; `mixed`;
`policyCut`; `born`, `owed`, `saw`) are written and never read by a guard that the code does
not have.

## 3. What the runs check

### One session (`docker_session`, `docker_liveness`, `process`)

Every detach mode, with and without `--auto-restart`; `docker_liveness` leaves out
`--detach=now`, which nothing waits for.

* `WgAccounting`: what the WaitGroup's counter is made of, at every instant. The
  one term that has no business there is `strayed`: a `Stop` that finds nothing to
  stop calls `wg.Done()` all the same.
* `ExitsSettled`, `RestartHoldsMain`: what follows. Without a stray Done, main never
  leaves with something unsettled, and a restart is never taken for the end of the
  session.
* `NothingLeaked`, `NothingOrphaned`: no mock is left, in the absence of a stray
  Done and of removals that failed or took longer than five seconds.
* `SettledIsDead`, `OneMockAtATime`: the racy reads of the command are harmless to
  both; they hold because every goroutine that can notify an ID has waited for
  a process that cannot outlive it.
* `UsesDebouncer`: each lifecycle implements `Debouncer` with the counter less the
  restart's own Add and plus the stray Done, and each goroutine's call derived from
  its label.
* `SessionEnds`: a session ends when its mock dies and when Ctrl+C comes outside a
  restart.

### Its parts (`session_parts`)

`Debouncer` implements `AtMostOnce` (`AtMostOncePerId`), and a counter of zero is
everything settled (`NoEarlyRelease`). Restarts never outnumber the events
(`NoSpuriousRestart`); in a directory that is watched the last edit is served unless its event
fell in the reset window (`ServedUnlessLost`).

### Before a mock starts (`provisioning`)

* `ServedIsRecent`: a version from the cache was the latest within the threshold.
  The history variable names the two events that break it: two lookups that update
  the file at once, and a first write that cannot open the file when the second can.
* `FallbackNeedsAnotherWriter`: the fallback to the cached version serves only if
  another CLI wrote the file between the two reads, since it repeats the expiry test.
* `DamageLasts`: a torn preferences file and a half-written Lambda bundle are
  never repaired by any later command; each later deployment fails to open the bundle, or uploads
  what there is of it.
* `MovedBinaryIsWhole`: a binary that is only moved into place is never partial until a rename
  has failed, whatever else does; the copy that follows is where a partial one comes from.
  `ForcedPullRepairs`: what repairs one.
* `PluginsAsAsked`, `DefaultsAsAsked`: success means the files, and the list, are what was
  asked for; their antecedents list the exceptions the code has: a copy or extraction cut short
  earlier, and a list that could not be written, which is only warned of.
* `MockAnswersAsUpstream`, `OnlyFailuresAreMissing`: the recording is right about what it
  has, and misses only what failed once.
* `SuccessCoversSpecs`, `UnforcedKeepsUserFiles`: the two promises of a scaffold, with
  their exceptions: for the latter a file made between the look for it and its creation, and
  the two files of the REST mock, which are written over without a look.

The run has 857,511 distinct states.

### Running elsewhere (`remotes`)

* `EndedOwesNothing`: what `down` was asked to stop when it began is gone when it
  ends, if it can be told for a mock, and `ls -x` exits with 0 only if every mock it listed was
  healthy: what the code does, not what the README says (`mocks_health`).
  `StrangersAreSafe`: what a command kills looks like a mock, by label or by name and argument,
  unless its PID changed hands after it was listed. `DuplicatesUnseen`: two mocks of one configuration run only if neither CLI could see the
  other's.
* `LiveIsWhole`, `DeployMirrors`, `MocksRemembered`: a half-finished sync is never in
  service; a deploy that succeeds leaves exactly the directory; no mock is forgotten but by
  a command cut short or overlapping another, or by the user who sets another ID.
* `DeployDelivers`: a Lambda deploy that succeeds has delivered code, version, alias, URL,
  access and role, whatever earlier ones left, but for a role without its policy; the version is
  one AWS is done with, started or failed.

The run has 956,298 distinct states, of which 215,764 are Lambda's, 648,878 the cloud's and
91,656 the managed mocks'.

### Disagreements with the code's own words

Runs with `expect: violation`; each is one property stating what a comment, a
message or a document says.

| Run | Claim | What happens |
|---|---|---|
| `docker_leak` | `up.go:254-256` "so we never leak a running mock" | a signal after Register and before `containerId` is set: Stop finds nothing, its Done pairs with the mock's Add, main returns while the mock runs |
| `docker_restart_hang` | `docker/engine.go:55` "press ctrl+c to stop" | a signal during a restart stops the old container only; the new one is started and served |
| `dir_watcher_lost_edit` | `dirwatcher.go:26-27` "notifies on a channel when they occur" | an event between the read of the flag and `dirUpdated = false` is never notified |
| `mockscloud_delta` | `mockscloud/files.go:45` "the remote files that are not present in dir" | with a directory given as `./mocks`, every remote file counts as absent, and a deploy deletes what it has just uploaded |
| `mocks_health` | `README.md:107` "Exits `0` if at least one mock is running and healthy" | one mock that does not answer among healthy ones makes it 1 (`list.go:90`) |
| `lambda_flavour` | `awslambda/flavour.go:41-42` "matching the binary-download gating" | a function that exists keeps its runtime and handler when its code becomes that of the other flavour |

Three more need no run: the modules have the behaviour, and the property named is stated so
as to allow it.

* `down --all` "stops every managed mock across all engine types" (`README.md:91`), but overlooks a
  mock from a JAR (`jvm.jarFile`) whose name does not match the pattern of `jvm/processes.go:11`, and
  ends in success (`EndedOwesNothing`: what it leaves is `Overlooked`).
* `--force-overwrite` is to "Force overwrite of destination file(s) if already exist"
  (`cmd/scaffold.go:57`), but without it, and without specifications, README.md and response.json are
  written over all the same (`UnforcedKeepsUserFiles`).
* `deploy.go:157` is to "wait for the new version to be ready", but a version that AWS failed to start
  is not Pending either, and the alias is moved to it (`DeployDelivers`).

The process engines leak a mock for the same reason as the docker engine (the
antecedents of `NothingOrphaned` exclude it); a signal before anything is registered
makes `Done` panic on a counter of zero; and a DetachHealthy session, which never
calls `wg.Wait()`, may return before its aborted mock is removed. All three are
behaviours of the modules.

### Bounds

*Session.* `MaxContainers` is 2 (a session with one restart; 3 exceeds ten million states):
the overlap of interest is that of one container's removal with the next one's start,
and the proofs cover every number. Two processes in `process`, likewise. A change of the
directory is only explored while another container or process can be created
(`DirectoryChanged`); so a session at the bound behaves as one whose directory changes
no more. The violations need one container (two for the restart). Three IDs and three
goroutines in `session_parts`: one goroutine in Register and two in Notify of the same ID is
the largest conflict one ID can have. Three edits of the directory: one being served, one
notified, one in the window. `MaxEvents = 2`: one event of a scan before the flag is read
and one after.

*Provisioning and remotes.* Components that share no file and no service are checked side
by side in one run: a behaviour picks a `part` and moves only that one, so the
state space is the sum of theirs. Two CLIs everywhere, since every conflict in these
modules is between one that has read and one that writes, with any number of commands
each where the state allows it; `MaxRuns = 3` (workspace commands and deploys) is one command to leave something half done
and two to meet over it; `MaxCommands = 3` bounds the Lambda commands likewise,
of which the last runs alone (`LastAlone`): of two that meet neither is promised anything, and after the
last there is none to find what they left. `MaxVersion = 2`, `MaxTime = 4` and `Threshold = 2` let a cached
version expire and be superseded within its threshold; one engine type, since types meet
in the file only as two lookups of one type do. Two plugins, and start lists with
the deprecated key and with a duplicate. Three requests in `Recorder` (two URLs of one file
name, two SOAP operations of one URL), two bodies, `MaxExchanges = 3`. Three specification
lists in `Scaffold`: none, two with names of their own, two with one base name.
`MaxMocks = 2`: the mock and one too many. `MaxStarted = 2`: two containers or
processes ever, so a PID can change hands and two duplicates exist. Five programs: a mock of each
engine, another Java program that fits the pattern and one that does not, and a mock that does
not. Two commands of
`ManagedMocks` run at once only when both are `up` (`OnlyUpsTogether`): to any other command a
second one looks like mocks that come and go, as they do anyway. The PIDs are the same model
values as the workspace names, and the ports as the CLIs, since no part uses both.

Symmetry, over CLIs and other interchangeable values, is used only where all properties
are invariants and action properties.

`CHECK_DEADLOCK FALSE` in the lifecycles, where the CLI really stops, and in the runs over
`MCRemotes`, where the bounded commands run out. Everything else never stops.

### Fairness

Weak fairness on each goroutine's own steps: the Go scheduler runs what can run;
requests to dockerd return, with an answer or an error; timers and tickers fire;
a removal that was accepted completes; a killed child exits. No fairness on the
user (interrupt, edits), on other programs or on crashes. In the Docker model the
watcher's step is fair only once its container has stopped: the failure of its
`ContainerWait` is possible, never obliged. The outcome of a health wait is not
fair either way: it may always time out. The modules of `provisioning` and `remotes` state
no fairness: nothing in them must happen on its own, and each command may end anywhere.

## 4. What is proved

For any number of goroutines, IDs, containers, children, edits, CLIs, engine types,
workspaces and files. Each module has one inductive invariant; the properties of the runs
follow from it, and a lemma per action or per goroutine shows that a step keeps it.

*DebouncerProofs.* The inductive invariant adds to the type: the counter is the
number of open IDs (`CounterIsOpen`); the IDs of pending Adds are recorded and
those of pending Dones are not (`PendingInPlace`); no two goroutines have pending
work on one ID (`PendingApart`), without which two Dones could count one ID.
`NeverNegative`, `NoneReleasedEarly` and the refinement `Implements` follow.

*DockerLifecycleProofs.* `TypeOK` alone is not inductive: which labels a goroutine may
have at once depends on `back`, and on the restart goroutine running `Start` only
after main has left it (`Control`). `Known` says that every container in `ids`,
`old`, `settling` or with a watcher was created, and that a start's own container is
recorded exactly from `register` to `add`; so that an Add or a Done is always of a
fresh element and cardinalities move by one. With these, `WgAccounting` is inductive
(`Accounted`). From it: `NegativeOnlyWhenStrayed`, which says that without a stray Done the
overlap of watchers, supervisors and stops never takes the counter below zero;
`ZeroSettled` (a zero seen by a waiting main, without a stray Done, is nothing
registered, nothing settling, no restart), whence `LeavesSettled` and the action
property `RestartHolds`.

`NoContainerLeft` (`NothingLeaked`) needs a ledger of containers, `Owed`: a container that
may run is registered, or held by a start between `ContainerStart` and `Register`, or being
stopped, or given up (`LiveOwed`); a `Stop` that has come to its notification has seen
its container gone or has abandoned it (`StopsOwed`); and up to the first restart there is
only one (`FirstStart`), which is what a start that fails relies on. At the end of a session
`ZeroSettled` empties the ledger. `KeepsProtocol` proves `UsesDebouncer` step by step: a step of
a starter or of a stop is a step of the debouncer's on its own call, everybody else's a
stutter.

*ProcessLifecycleProofs.* `ProcInv` is `Shape`, `Known` and `WgAccounting` as above, and
`Orderly`: at most one child lives, the command's or the one its starter still holds; a
goroutine that is about to notify an ID has waited for that process or for a later one,
although it read the command twice. `SettledDead`, `OneMock` and `NothingLeft` follow, and
`KeepsProtocol`. `ChildAssumption` (finitely many children, none the name of a goroutine) lets
a child's own `notifyOnStopBlocking` stand beside the named goroutines in `pc`.

*ProvisioningProofs, engine binaries.* `MovedIsWhole`: until a rename has failed nothing is written
under the binary's name, only renamed to it, and `copied` is what tells. `ForcedRepairs`: a CLI that met no other owns what it
writes from the truncation on, and a file it owns is what its step says. `PartialLambdaStays`:
a half-written Lambda binary is present, so every later step of a CLI finds it and leaves.

*ProvisioningProofs, versions.* `VersionInv` relates every version a CLI or the file holds to the time that
goes with it: the version of a pair was still the latest at the time of its check
(`Timely`, as long as nothing disturbed the file), also while a CLI has written one of the
two keys and not yet the other, and in the copies CLIs hold in memory between reading
and writing. `RecentServed` follows. `RacedOK` (a lookup at the fallback saw the cache expired,
unless another wrote since) gives `FallbackNeedsWriter`; `Wrecked` (a CLI that has loaded the
file before it was torn would mend it; once nobody has, nobody will) gives `TornStays`.
Assumed: there is an engine type, the threshold is within the time modelled, and `Torn`
is not the content of a file.

*ProvisioningProofs, the recorder.* Response files are shared: by requests whose names collide and
by responses that are equal, in this run and in those before it, of which only the files are left.
`RecorderInv` therefore says of every resource, remembered or in a configuration that parses, that
its file holds what was recorded for it (`FilesFaithful`); that a new file gets a free name because
no file has the UUID that is next (`UuidsFresh`), so that files only ever come to the directory and
a half-written one is nobody's; and where each request received has gone (`NoneForgotten`).
`MockIsFaithful` and `OnlyFailuresMiss` follow. Assumed: the absent body is not a file name.

*ProvisioningProofs, the scaffold.* `SuccessCovers` is about the last step of a command but is kept
by all of them, among the user's own edits and deletions. `ScaffoldInv` counts: the
first `Handled` specifications are configured (`Configured`), but for those the user has seen to and
those that a later one of the same base name has written over; the script that the next
configuration will name is there (`Underway`); and what an earlier command left is whole,
or has no configuration, or is remembered as cut short (`Settled`). `UserFilesKept` goes
through the steps (`StepSpares`). Assumed: a list of specifications is a sequence of files
with the extensions the discoveries look for. A command between its look for a file and the
creation of it (`checked`) is at a file that is the user's only if the user came `late`, which is what
`UserFilesKept` rests on.

*ProvisioningProofs, plugins.* `Unique` and the removal of defaults are stated by the positions
they keep (`AtPositions`) and not by recursion over the list, which makes them provable: `Ranks`
and `Chosen` say what is at the chosen positions, `UniqueIs`, `Added` and `Removed` what that means for
the elements and for the lengths the code compares (`defaults.go:25`, whence the exception for a list
with duplicates). `PluginInv` is about the files: of two running commands both have met
(`MetTogether`), a half-unpacked file is being unpacked or was left by a command cut short
(`PartialAccounted`), and a command that met none has dealt with every plugin it was given that is not
in its `todo` (`PluginsHandledSoFar`). `ListInv` is about the list while nothing disturbed it: one
command is at it, the file fails to parse exactly while that one has it truncated, and what is
then written keeps the other settings; a write that fails half way counts as a disturbance, one
that cannot open the file leaves it as it was. Assumed: the lists are sequences of plugins, a command that saves
names plugins, the configuration files to start from parse, and `Unparsed` is none of them.

*ProvisioningProofs, together.* Every behaviour of `MCProvisioning`'s specification is one of
each component's (`VersionPart`, `BinariesPart`, `PluginPart`, `RecorderPart`, `ScaffoldPart`), so the
theorems carry over: `DamageStays` is `DamageLasts` of the composition, `TypesCompose` its `TypeOK`, and
`PromisesCompose` the properties of the five components at once.

*ManagedMocksProofs.* A command acts on a list that grows old while PIDs are used again.
`ManagedInv` says what stays true of an item (`KnowsItems`: it stands for something that did
run, and looks like a mock of its engine unless it ended), of a `down ID` (`HasItsId`), of the ledger
(`Owes`: what the command promised and still lives is of an engine to come, or on the list)
and of the duplicates of an `up` (`Clears`). `Evolves` is all that the invariant needs to
know of a step of somebody else; `ItemStable` shows that it suffices. The theorems hold for every
interleaving of commands, where the run lets only `up`s overlap. Assumed: `Nobody` is no process;
nothing is assumed of how what a program is relates to what it looks like.

*MocksCloudProofs.* A command that another one met can rely on nothing but its types, so
`CloudInv` is about those that met none: of two running commands both have met (`Alone`);
a deploy alone keeps the platform in step with its list (`Copied`: after `list`, what is there
was listed or sent; while uploading, what is sent is as in the directory; while deleting,
what is there is of the directory or still to delete) and finds the configuration where it left
it (`Recorded`). `Assemble` reduces a step to the command that took it. `LiveWhole`, `Mirrors` and
`Remembers` follow (a command that sets the ID itself stands under `Replaces`), the first for a directory given as `filepath.Join` would write it, as
the property itself requires. Assumed: directories are functions, and a file is either `None`,
`Torn` or a record.

*RemotesProofs, AWS Lambda.* As for the other remote, a deploy that another CLI met can rely on nothing.
`LambdaInv` says of one that met none what it has achieved when it comes to each of its calls
(`Delivered`): the role has its policy unless an earlier deploy lost it; the bundle to be
deployed is its own, in its own bucket; from the update on the function has that code (`Coded`);
the version is of that code, and no longer pending once it was waited for; the alias names it. `Account` (an object
is in a bucket that exists; versions, alias, URLs and permissions go with the function) and `BareRole`
(a role without a policy is about to get it, or `policyCut` remembers that it will not) hold
of any number of CLIs. `StepKept` reduces a step to what it does to the function and to
its own command; only `ConfigureUrlAccess` ends a deploy in success (`StepEnds`), so `Delivers`
is `Delivered` at that call with its effect. Assumed: a configuration's flags are set or not, and
`Nothing` is neither a bundle nor a function.

*RemotesProofs, together.* A behaviour of `MCRemotes`'s specification is one of each of its parts
(`CloudPart`, `LambdaPart`, `ManagedPart`), so `RemoteTypesCompose` proves its `TypeOK` and
`RemotePromisesCompose` the properties of the two remotes and of the managed mocks at once.

The only assumptions are those of the modules on their constants; TLC evaluates them in the
runs. `NeverNegative`, `NegativeOnlyWhenStrayed`, the inductive invariants and the types of
single parts are not checked again by the runs: `TypeOK` of a composition is the
conjunction of its parts' types, each proved as a theorem of its own.

*Only model-checked.* Liveness (`SessionEnds`, `ServedUnlessLost`), which rests on fairness; and
the properties of the runs that expect a violation. Every other property of a run is a
theorem.

## 5. What is not modelled

Within the modelled components: watcher errors after the start, which are logged; errors that
only `close(2)` reports, but for those of the Lambda zip; an update of a function that AWS accepts
and then fails (`awaitReady` times out over it);
`buildCliClient` failing inside a removal; reuse of a PID within a session;
the ports, environment and mounts of a container; the polling inside the health
wait (`UpCommand` has its three outcomes); the summary and mock-id file of a detached
start; `doctor`, `engine list` and the other commands that read and print; the
resources generated inside a scaffolded configuration; the keys a remote accepts other than
the mock's ID, and the obfuscation of its token; the rewriting of URLs in a recorded response.

The engine builder and the layering of configuration are functions of flags, files and
environment without state. The OpenAPI parser is a library call, of which `Scaffold` has
the failure. Logging and strings are formatting; `Unique` and `CombineUnique` are
operators of `PluginStore`.

Behaviour seen while reading, outside what the modules' properties say:

* two proxies in one directory may both find a response name free (`proxy/files.go`), as
  each looks before it writes;
* `plugin install` and `engine pull` choose the engine type from the configuration alone,
  `builder.go:140-143` also from the version, so the two may differ for a version given on
  the command line;
* the parsing of `key=value` arguments cuts a value at a second `=`
  (`config/cli_config.go:128`); a remote token of fewer than four characters panics when
  it is shown (`mockscloud/config.go:122`);
* `SaveActiveRemoteType` with no active workspace, as after the deletion of the active one,
  dereferences nil (`remote/remote.go:62`);
* the goroutine that polls for health, and that of `waitForStatus`, sends on an
  unbuffered channel and stays behind after a timeout.

## 6. Plan

1. Done: the session (`AtMostOnce`, `Debouncer`, `UpCommand`, the two lifecycles,
   `DirWatcher`) with the proofs above; what precedes it (`VersionCache`, `EngineBinaries`,
   `PluginStore`, `Recorder`, `Scaffold`); what is elsewhere (`Workspaces`, `MocksCloud`,
   `LambdaDeploy`, `ManagedMocks`).
2. Done: the safety proofs of every module, and of the two compositions.
3. `HealthWait`: the two goroutines and three channels of `WaitForOp`, refined by
   the three outcomes of `UpCommand`.
4. Operators with reference definitions: precedence of configuration and
   environment (`EngineOptions`).
