--------------------------- MODULE EngineBinaries ---------------------------
(***************************************************************************)
(* The caches of engine binaries (internal/engine/{jvm,native,awslambda})  *)
(* and the downloads that fill them (internal/library/download.go,         *)
(* internal/fileutil, internal/compression).  A download lands in a        *)
(* temporary file of its own and is then put in its place by rename, or by *)
(* copying when the rename fails: from another filesystem, onto a file in  *)
(* use, into a directory that cannot be written.  The                      *)
(* native engine is unpacked from an archive inside its cache directory,   *)
(* the native Lambda binary is zipped straight under its cached name.  The *)
(* presence of a file is all a later command looks at.  Kinds and versions *)
(* share no file, so a behaviour follows one of each.                      *)
(***************************************************************************)
CONSTANT Installers      \* the CLIs that provide an engine

VARIABLES
    kind,      \* the kind of binary this behaviour is about
    binary,    \* the cached binary: "absent", "partial" or "whole"
    archive,   \* the native engine's archive in its cache directory
    owner,     \* file -> the CLI that truncated it last
    install,   \* CLI -> the Provide (or CreateDeploymentPackage) it is in
    copied,    \* some rename failed and a copy took its place (history)
    leftPartial\* a half-written binary was left with nobody installing (history)

binariesVars == <<kind, binary, archive, owner, install, copied, leftPartial>>

LambdaKinds == {"lambdaJvm", "lambdaNative"}
Kinds       == {"jar", "native"} \cup LambdaKinds
Policies    == {"skip", "always", "ifNotPresent"}
NotInstalling == [pc |-> "idle", policy |-> "skip", got |-> "absent", met |-> FALSE]
InstallEnds == {"idle", "provided", "failed", "killed"}
Installing(c) == install[c].pc \notin InstallEnds

BinariesInit ==
    /\ kind \in Kinds
    /\ binary = "absent" /\ archive = "absent"
    /\ owner = [f \in {"binary", "archive"} |-> "nobody"]
    /\ install = [c \in Installers |-> NotInstalling]
    /\ copied = FALSE /\ leftPartial = FALSE

At(c, pc) == install[c].pc = pc
Go(c, pc) == install' = [install EXCEPT ![c].pc = pc]
SameFiles == UNCHANGED <<binary, archive, owner, copied>>

\* A Lambda binary has still to be opened.
Return(c, state) ==
    install' = [install EXCEPT ![c].pc = IF kind \in LambdaKinds THEN "open" ELSE "provided",
                               ![c].got = state]

\* Mutant: "always" looks in the cache first.
ProvideIfNotPresent(c, policy) ==
    /\ At(c, "idle")
    /\ install' = [install EXCEPT ![c] = [NotInstalling EXCEPT !.policy = policy, !.pc = "stat"]]
    /\ SameFiles

\* Provide(policy); CreateDeploymentPackage has no policy, it always looks in the cache first.
Provide(c, policy) ==
    /\ At(c, "idle")
    /\ kind \in LambdaKinds => policy = "ifNotPresent"
    /\ install' = [d \in Installers |->
         IF d = c
         THEN [NotInstalling EXCEPT !.policy = policy,
                 !.pc = IF policy = "skip" THEN "provided" ELSE IF policy = "always" THEN "download" ELSE "stat",
                 !.got = IF policy = "skip" THEN binary ELSE "absent",
                 !.met = \E e \in Installers : Installing(e)]
         ELSE [install[d] EXCEPT !.met = @ \/ Installing(d)]]
    /\ SameFiles

StatBinary(c) ==
    /\ At(c, "stat")
    /\ IF binary # "absent" THEN Return(c, binary) ELSE Go(c, "download")
    /\ SameFiles

\* DownloadBinaryWithConfig up to its temporary file, removed again on failure
\* (a bad status after the fallback name, an empty body, a broken connection).
Download(c) ==
    /\ At(c, "download")
    /\ Go(c, "place") \/ Go(c, "failed")
    /\ SameFiles

\* The tarball of the native Lambda binary is placed and unpacked in a directory of its own.
UnpackPrivately(c) ==
    /\ At(c, "place") /\ kind = "lambdaNative"
    /\ Go(c, "create")
    /\ SameFiles

\* MoveFile: the archive of the native engine, the binary itself for the others.
Moved == IF kind = "native" THEN "archive" ELSE "binary"
Put(c, f, s) ==
    /\ IF f = "archive" THEN archive' = s /\ UNCHANGED binary
       ELSE binary' = s /\ UNCHANGED archive
    /\ owner' = [owner EXCEPT ![f] = c]

\* Mutant: the download is written in place.
WriteInPlace(c) ==
    /\ At(c, "place") /\ kind # "lambdaNative"
    /\ Put(c, Moved, "partial") /\ UNCHANGED copied
    /\ Go(c, "copy")
\* os.Rename replaces the whole file at once.
MoveByRename(c) ==
    /\ At(c, "place") /\ kind # "lambdaNative"
    /\ Put(c, Moved, "whole") /\ UNCHANGED copied
    /\ IF kind = "native" THEN Go(c, "create") ELSE Return(c, "whole")

\* Whatever made the rename fail, CopyFile: os.Create truncates ...
MoveByCopy(c) ==
    /\ At(c, "place") /\ kind # "lambdaNative"
    /\ Put(c, Moved, "partial") /\ copied' = TRUE
    /\ Go(c, "copy")

\* ... and the copy completes the file, unless another CLI has truncated it since.
Complete(c, f) == IF owner[f] = c THEN Put(c, f, "whole") /\ UNCHANGED copied ELSE SameFiles
CopyDone(c) ==
    /\ At(c, "copy")
    /\ Complete(c, Moved)
    /\ IF kind = "native" THEN Go(c, "create") ELSE Return(c, binary')

\* ExtractArchive opens the archive and creates the binary; writeBootstrapZip creates the zip.
CreateBinary(c) ==
    /\ At(c, "create")
    /\ kind = "native" => archive # "absent"
    /\ Put(c, "binary", "partial") /\ UNCHANGED copied
    /\ Go(c, "fill")

ArchiveGone(c) ==
    /\ At(c, "create") /\ kind = "native" /\ archive = "absent"
    /\ Go(c, "failed")
    /\ SameFiles

\* The last of a zip is written as it is closed, and writeBootstrapZip drops the error.
FillBinary(c) ==
    /\ At(c, "fill")
    /\ kind = "native" => archive # "partial"
    /\ Complete(c, "binary") \/ (kind = "lambdaNative" /\ SameFiles)
    /\ IF kind = "native" THEN Go(c, "cleanUp") ELSE Return(c, binary')

\* The archive is removed; that it has gone already is only logged.
CleanUp(c) ==
    /\ At(c, "cleanUp")
    /\ archive' = "absent"
    /\ Return(c, binary)
    /\ UNCHANGED <<binary, owner, copied>>

\* addFilesToZip copies the entries of the binary: one cut short has no directory at its end
\* and does not open, unless the zip was closed over the part that was written.
OpenBinary(c) ==
    /\ At(c, "open")
    /\ \/ (binary = "partial" => kind = "lambdaNative")
          /\ install' = [install EXCEPT ![c].pc = "provided", ![c].got = binary]
       \/ binary = "partial" /\ Go(c, "failed")
    /\ SameFiles

\* A move, an extraction or a zip that fails returns an error and leaves the file as it is.
HalfWritten(c) ==
    /\ install[c].pc \in {"place", "copy", "create", "fill"}
    /\ Go(c, "failed")
    /\ SameFiles

InstallerKilled(c) ==
    /\ Installing(c)
    /\ Go(c, "killed")
    /\ SameFiles

NextInstall(c) ==
    /\ install[c].pc \in InstallEnds \ {"idle"}
    /\ install' = [install EXCEPT ![c] = NotInstalling]
    /\ SameFiles

BinariesNext ==
    /\ \E c \in Installers :
         \/ \E policy \in Policies : Provide(c, policy)
         \/ StatBinary(c) \/ Download(c) \/ UnpackPrivately(c)
         \/ MoveByRename(c) \/ MoveByCopy(c) \/ CopyDone(c)
         \/ CreateBinary(c) \/ ArchiveGone(c) \/ FillBinary(c) \/ CleanUp(c) \/ HalfWritten(c)
         \/ OpenBinary(c)
         \/ InstallerKilled(c) \/ NextInstall(c)
    /\ leftPartial' = (leftPartial \/ (binary' = "partial" /\ ~\E c \in Installers : install'[c].pc \notin InstallEnds))
    /\ UNCHANGED kind

BinariesSpec == BinariesInit /\ [][BinariesNext]_binariesVars
-----------------------------------------------------------------------------
FileStates == {"absent", "partial", "whole"}

BinariesTypeOK ==
    /\ kind \in Kinds
    /\ binary \in FileStates /\ archive \in FileStates
    /\ copied \in BOOLEAN /\ leftPartial \in BOOLEAN
    /\ owner \in [{"binary", "archive"} -> Installers \cup {"nobody"}]
    /\ install \in [Installers ->
         [pc : InstallEnds \cup {"stat", "download", "place", "copy", "create", "fill", "cleanUp", "open"},
          policy : Policies, got : FileStates, met : BOOLEAN]]

(* Until a rename has failed (fileutil.go:94-104), the temporary file of a  *)
(* download (download.go:42) keeps a binary that is only moved into its     *)
(* place whole or absent, whatever else fails, is killed or runs at the     *)
(* same time.                                                               *)
MovedBinaryIsWhole == ~copied /\ kind \in {"jar", "lambdaJvm"} => binary # "partial"

(* A forced pull that no other CLI met returns a whole binary, whatever an  *)
(* earlier install left under its name (PullAlways skips the check that     *)
(* takes a half-written file for an installed engine).                      *)
ForcedPullRepairs ==
    \A c \in Installers :
      install[c].pc = "provided" /\ install[c].policy = "always" /\ ~install[c].met
        => install[c].got = "whole"

(* A Lambda binary left half-written is found in the cache by every later   *)
(* deployment (awslambda/binary.go:88-98), and no policy skips that check:  *)
(* it stays what it is, and no deployment gets a whole one out of it.       *)
PartialLambdaIsKept == kind \in LambdaKinds /\ leftPartial => binary = "partial"
=============================================================================
