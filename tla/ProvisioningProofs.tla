-------------------------- MODULE ProvisioningProofs --------------------------
(***************************************************************************)
(* What holds of the files that are prepared before a mock starts, for any *)
(* number of CLIs, engine types, releases, exchanges and specifications,   *)
(* and wherever a command fails or is killed: the engine binaries, the     *)
(* plugins and their list, the recording of a proxy, the scaffold and the  *)
(* preferences; and last of the five components together, which share none *)
(* of their files.                                                         *)
(***************************************************************************)
EXTENDS MCProvisioning, FiniteSetTheorems, TLAPS

HIDE CommandsAssumption
HIDE ConfigsAssumption
HIDE UnparsedAssumption

-----------------------------------------------------------------------------
(* Engine binaries. *)

InstallPcs == InstallEnds \cup {"stat", "download", "place", "copy", "create", "fill", "cleanUp", "open"}
Installs == [pc : InstallPcs, policy : Policies, got : FileStates, met : BOOLEAN]

\* What one step of a CLI does: the disjuncts of BinariesNext.
CliStep(c) ==
    \/ \E policy \in Policies : Provide(c, policy)
    \/ StatBinary(c) \/ Download(c) \/ UnpackPrivately(c)
    \/ MoveByRename(c) \/ MoveByCopy(c) \/ CopyDone(c)
    \/ CreateBinary(c) \/ ArchiveGone(c) \/ FillBinary(c) \/ CleanUp(c) \/ HalfWritten(c)
    \/ OpenBinary(c) \/ InstallerKilled(c) \/ NextInstall(c)

\* A state predicate that the initial states have and every CLI's step keeps is
\* an invariant.
LEMMA NextIsCliStep == BinariesNext => \E c \in Installers : CliStep(c)
  BY DEF BinariesNext, CliStep

\* The caches start empty, with nobody installing.
LEMMA BinariesInitType == BinariesInit => BinariesTypeOK
<1> SUFFICES ASSUME BinariesInit PROVE BinariesTypeOK
  OBVIOUS
<1>1. NotInstalling \in Installs
  BY DEF NotInstalling, Installs, InstallPcs, InstallEnds, Policies, FileStates
<1>2. install \in [Installers -> Installs]
  BY <1>1 DEF BinariesInit
<1>3. leftPartial \in BOOLEAN /\ copied \in BOOLEAN
  BY Zenon DEF BinariesInit
<1> QED
  BY <1>2, <1>3 DEF BinariesInit, BinariesTypeOK, Installs, InstallPcs, FileStates

\* Each step of Provide and of the downloads (library/download.go, fileutil) keeps
\* the shape of the state.
LEMMA BinariesStepType ==
  ASSUME BinariesTypeOK, NEW c \in Installers, CliStep(c)
  PROVE  /\ binary' \in FileStates /\ archive' \in FileStates
         /\ owner' \in [{"binary", "archive"} -> Installers \cup {"nobody"}]
         /\ install' \in [Installers -> Installs]
         /\ copied' \in BOOLEAN
<1> USE DEF BinariesTypeOK, Installs, InstallPcs, InstallEnds, FileStates, At, Go, Return,
        SameFiles, Put, Moved
<1>0. copied' \in BOOLEAN
  <2>1. copied' = TRUE \/ UNCHANGED copied
    BY DEF CliStep, Provide, StatBinary, Download, UnpackPrivately, MoveByRename, MoveByCopy, CopyDone,
           CreateBinary, ArchiveGone, FillBinary, CleanUp, HalfWritten, OpenBinary, InstallerKilled,
           NextInstall, Complete
  <2> QED
    BY <2>1, Zenon
<1>1. ASSUME NEW policy \in Policies, Provide(c, policy)
      PROVE  install' \in [Installers -> Installs]
  <2>1. NotInstalling \in Installs
    BY DEF NotInstalling, Policies
  <2> QED
    BY <1>1, <2>1, ZenonT(60) DEF Provide, NotInstalling, Policies, Installing
<1>2. CASE StatBinary(c)
  BY <1>2 DEF StatBinary
<1>3. CASE Download(c)
  BY <1>3 DEF Download
<1>4. CASE UnpackPrivately(c)
  BY <1>4 DEF UnpackPrivately
<1>5. CASE MoveByRename(c)
  BY <1>5 DEF MoveByRename
<1>6. CASE MoveByCopy(c)
  BY <1>6 DEF MoveByCopy
<1>7. CASE CopyDone(c)
  BY <1>7 DEF CopyDone, Complete
<1>8. CASE CreateBinary(c)
  BY <1>8 DEF CreateBinary
<1>9. CASE ArchiveGone(c)
  BY <1>9 DEF ArchiveGone
<1>10. CASE FillBinary(c)
  BY <1>10, SMTT(60) DEF FillBinary, Complete
<1>11. CASE CleanUp(c)
  <2>1. install' \in [Installers -> Installs]
    <3> DEFINE next == IF kind \in LambdaKinds THEN "open" ELSE "provided"
    <3>1. next \in InstallPcs
      OBVIOUS
    <3>2. install' = [install EXCEPT ![c].pc = next, ![c].got = binary]
      BY <1>11 DEF CleanUp
    <3> HIDE DEF next
    <3>3. [install[c] EXCEPT !.pc = next, !.got = binary] \in Installs
      BY <3>1
    <3>4. install' = [install EXCEPT ![c] = [install[c] EXCEPT !.pc = next, !.got = binary]]
      BY <3>2
    <3> QED
      BY <3>3, <3>4, Zenon
  <2>2. binary' = binary /\ archive' = "absent" /\ owner' = owner
    BY <1>11 DEF CleanUp
  <2> QED
    BY <1>0, <2>1, <2>2
<1>12. CASE HalfWritten(c)
  BY <1>12 DEF HalfWritten
<1>15. CASE OpenBinary(c)
  BY <1>15 DEF OpenBinary
<1>13. CASE InstallerKilled(c)
  BY <1>13 DEF InstallerKilled
<1>14. CASE NextInstall(c)
  BY <1>14 DEF NextInstall, NotInstalling, Policies
<1> QED
  BY <1>0, <1>1, <1>2, <1>3, <1>4, <1>5, <1>6, <1>7, <1>8, <1>9, <1>10, <1>11, <1>12, <1>13, <1>14,
     <1>15
     DEF CliStep, Provide

\* So does every step, with the history the steps keep.
LEMMA BinariesNextType == BinariesTypeOK /\ [BinariesNext]_binariesVars => BinariesTypeOK'
<1> SUFFICES ASSUME BinariesTypeOK, [BinariesNext]_binariesVars PROVE BinariesTypeOK'
  OBVIOUS
<1>1. CASE BinariesNext
  <2>1. PICK c \in Installers : CliStep(c)
    BY <1>1, NextIsCliStep
  <2>2. kind' \in Kinds
    BY <1>1 DEF BinariesNext, BinariesTypeOK
  <2>3. leftPartial' \in BOOLEAN
    BY <1>1, Zenon DEF BinariesNext, BinariesTypeOK
  <2> QED
    BY <2>1, <2>2, <2>3, BinariesStepType DEF BinariesTypeOK, Installs, InstallPcs
<1>2. CASE UNCHANGED binariesVars
  BY <1>2 DEF binariesVars, BinariesTypeOK
<1> QED
  BY <1>1, <1>2

\* Every reachable state of the caches has the shape the code gives it.
THEOREM BinariesTypeCorrect == BinariesSpec => []BinariesTypeOK
  BY BinariesInitType, BinariesNextType, PTL DEF BinariesSpec

(***************************************************************************)
(* A binary that is moved into place.                                      *)
(***************************************************************************)
MovedKinds == {"jar", "lambdaJvm"}

\* As long as every rename succeeds nobody writes under its name.
Renamed ==
    ~copied /\ kind \in MovedKinds =>
        /\ binary # "partial"
        /\ \A c \in Installers : install[c].pc \notin {"copy", "create", "fill", "cleanUp"}

\* Nothing is there at first.
LEMMA InitRenamed == BinariesInit => Renamed
  BY DEF BinariesInit, Renamed, NotInstalling

\* MoveFile writes under the name only when its rename fails (fileutil.go:94-97).
LEMMA NextRenamed ==
  ASSUME BinariesTypeOK, Renamed, [BinariesNext]_binariesVars PROVE Renamed'
<1> USE DEF BinariesTypeOK, Renamed, At, Go, Return, SameFiles, Put, Moved, InstallEnds, MovedKinds,
        LambdaKinds
<1>1. ASSUME NEW c \in Installers, CliStep(c), UNCHANGED kind PROVE Renamed'
  <2>1. ASSUME NEW policy \in Policies, Provide(c, policy) PROVE Renamed'
    BY <1>1, <2>1, ZenonT(60) DEF Provide, NotInstalling
  <2>2. CASE StatBinary(c) \/ Download(c) \/ UnpackPrivately(c)
    BY <1>1, <2>2 DEF StatBinary, Download, UnpackPrivately
  <2>3. CASE MoveByRename(c) \/ MoveByCopy(c)
    BY <1>1, <2>3 DEF MoveByRename, MoveByCopy
  <2>4. CASE CopyDone(c) \/ CreateBinary(c) \/ ArchiveGone(c) \/ FillBinary(c) \/ CleanUp(c) \/ HalfWritten(c)
    BY <1>1, <2>4 DEF CopyDone, CreateBinary, ArchiveGone, FillBinary, CleanUp, HalfWritten, Complete
  <2>5. CASE OpenBinary(c) \/ InstallerKilled(c) \/ NextInstall(c)
    BY <1>1, <2>5 DEF OpenBinary, InstallerKilled, NextInstall, NotInstalling
  <2> QED
    BY <1>1, <2>1, <2>2, <2>3, <2>4, <2>5 DEF CliStep
<1>2. CASE UNCHANGED binariesVars
  BY <1>2 DEF binariesVars
<1> QED
  BY <1>1, <1>2, NextIsCliStep DEF BinariesNext

\* The temporary file of a download (library/download.go:42) keeps the JAR and the
\* Lambda JAR whole or absent until a rename fails (fileutil.go:94-97) and the copy that
\* takes its place truncates the file, for any number of CLIs.
THEOREM MovedIsWhole == BinariesSpec => []MovedBinaryIsWhole
<1>1. Renamed => MovedBinaryIsWhole
  BY DEF Renamed, MovedBinaryIsWhole, MovedKinds
<1> QED
  BY <1>1, BinariesInitType, BinariesNextType, InitRenamed, NextRenamed, PTL DEF BinariesSpec

(***************************************************************************)
(* A Lambda binary that was left half-written.                             *)
(***************************************************************************)
\* From then on a deployment only looks, and finds it.
Stuck ==
    kind \in LambdaKinds /\ leftPartial =>
        /\ binary = "partial"
        /\ \A c \in Installers : install[c].pc \in InstallEnds \cup {"stat", "open"}

\* Nothing is half-written at first.
LEMMA InitStuck == BinariesInit => Stuck
  BY DEF BinariesInit, Stuck

\* A deployment stats the Lambda binary, finds it, and writes nothing.
LEMMA NextStuck ==
  ASSUME BinariesTypeOK, Stuck, [BinariesNext]_binariesVars PROVE Stuck'
<1> USE DEF BinariesTypeOK, Stuck, At, Go, Return, SameFiles, Put, Moved, InstallEnds, LambdaKinds
<1>1. ASSUME NEW c \in Installers, CliStep(c), kind \in LambdaKinds, leftPartial,
             UNCHANGED kind
      PROVE  binary' = "partial" /\ \A d \in Installers : install'[d].pc \in InstallEnds \cup {"stat", "open"}
  <2> DEFINE Goal == binary' = "partial" /\ \A d \in Installers : install'[d].pc \in InstallEnds \cup {"stat", "open"}
  <2>1. ASSUME NEW policy \in Policies, Provide(c, policy) PROVE Goal
    BY <1>1, <2>1 DEF Provide, NotInstalling
  <2>2. CASE StatBinary(c)
    BY <1>1, <2>2 DEF StatBinary
  <2>3. CASE OpenBinary(c) \/ InstallerKilled(c) \/ NextInstall(c)
    BY <1>1, <2>3 DEF OpenBinary, InstallerKilled, NextInstall, NotInstalling
  <2>4. install[c].pc \in InstallEnds \cup {"stat", "open"}
    BY <1>1
  <2> QED
    BY <1>1, <2>1, <2>2, <2>3, <2>4
       DEF CliStep, Download, UnpackPrivately, MoveByRename, MoveByCopy, CopyDone, CreateBinary,
           ArchiveGone, FillBinary, CleanUp, HalfWritten
<1>2. ASSUME BinariesNext PROVE Stuck'
  <2>1. PICK c \in Installers : CliStep(c)
    BY <1>2, NextIsCliStep
  <2>2. UNCHANGED kind
    BY <1>2 DEF BinariesNext
  <2>3. CASE leftPartial
    BY <1>1, <2>1, <2>2, <2>3
  <2>4. CASE ~leftPartial
    BY <1>2, <2>4 DEF BinariesNext
  <2> QED
    BY <2>3, <2>4
<1>3. CASE UNCHANGED binariesVars
  BY <1>3 DEF binariesVars
<1> QED
  BY <1>2, <1>3

\* No later deployment repairs a half-written Lambda binary (awslambda/binary.go:88-98).
THEOREM PartialLambdaStays == BinariesSpec => []PartialLambdaIsKept
<1>1. Stuck => PartialLambdaIsKept
  BY DEF Stuck, PartialLambdaIsKept
<1> QED
  BY <1>1, BinariesInitType, BinariesNextType, InitStuck, NextStuck, PTL DEF BinariesSpec

(***************************************************************************)
(* A forced pull that meets no other CLI.                                  *)
(***************************************************************************)
\* Who installs alone owns what it writes, and knows what is in its files.
Alone(c) ==
    /\ \A d \in Installers \ {c} : ~Installing(d)
    /\ install[c].policy = "always" => install[c].pc \notin {"stat", "open"} /\ kind \notin LambdaKinds
    /\ install[c].pc = "copy" => owner[Moved] = c
    /\ install[c].pc = "create" /\ kind = "native" => archive = "whole"
    /\ install[c].pc = "fill" => owner["binary"] = c /\ (kind = "native" => archive = "whole")
    /\ install[c].pc = "cleanUp" => binary = "whole"
Undisturbed ==
    /\ \A c \in Installers : Installing(c) /\ ~install[c].met => Alone(c)
    /\ ForcedPullRepairs

\* Nobody installs at first.
LEMMA InitUndisturbed == BinariesInit => Undisturbed
  BY DEF BinariesInit, Undisturbed, ForcedPullRepairs, NotInstalling, Installing, InstallEnds

\* A CLI that starts marks all who are installing as having met another; until then each
\* step of the one who is alone finds its files as it left them.
LEMMA NextUndisturbed ==
  ASSUME BinariesTypeOK, Undisturbed, [BinariesNext]_binariesVars PROVE Undisturbed'
<1> USE DEF BinariesTypeOK, Undisturbed, ForcedPullRepairs, Alone, Installing, At, Go, Return,
        SameFiles, Put, Moved, InstallEnds, LambdaKinds
<1>1. ASSUME NEW c \in Installers, CliStep(c), UNCHANGED kind PROVE Undisturbed'
  <2>1. ASSUME NEW policy \in Policies, Provide(c, policy) PROVE Undisturbed'
    <3>1. /\ install'[c].policy = policy
          /\ install'[c].met <=> \E e \in Installers : Installing(e)
          /\ policy = "always" => install'[c].pc = "download"
          /\ policy # "always" => install'[c].pc \in {"provided", "stat"}
          /\ policy = "always" => kind \notin LambdaKinds
      BY <2>1 DEF Provide, NotInstalling
    <3>2. \A d \in Installers \ {c} :
             /\ install'[d].pc = install[d].pc /\ install'[d].policy = install[d].policy
             /\ install'[d].got = install[d].got
             /\ install'[d].met <=> install[d].met \/ Installing(d)
      <4> TAKE d \in Installers \ {c}
      <4> DEFINE met == install[d].met \/ Installing(d)
      <4>1. install'[d] = [install[d] EXCEPT !.met = met]
        BY <2>1, Zenon DEF Provide
      <4>2. install[d] \in [pc : InstallPcs, policy : Policies, got : FileStates, met : BOOLEAN]
        BY DEF InstallPcs
      <4> HIDE DEF met
      <4>3. /\ install'[d].pc = install[d].pc /\ install'[d].policy = install[d].policy
            /\ install'[d].got = install[d].got /\ install'[d].met = met
        BY ONLY <4>1, <4>2
      <4> QED
        BY ONLY <4>3 DEF met, Installing
    <3>3. UNCHANGED <<binary, archive, owner>> /\ ~Installing(c)
      BY <2>1 DEF Provide
    <3>4. ASSUME NEW d \in Installers, Installing(d)', ~install'[d].met PROVE Alone(d)'
      <4>1. CASE d = c
        BY <1>1, <3>1, <3>2, <3>3, <3>4, <4>1
      <4>2. CASE d # c
        BY <3>2, <3>4, <4>2
      <4> QED
        BY <4>1, <4>2
    <3>5. ForcedPullRepairs'
      BY <3>1, <3>2
    <3> QED
      BY ONLY <3>4, <3>5 DEF Undisturbed
  <2>2. CASE StatBinary(c)
    BY <1>1, <2>2 DEF StatBinary
  <2>3. CASE Download(c)
    BY <1>1, <2>3 DEF Download
  <2>13. CASE UnpackPrivately(c)
    BY <1>1, <2>13 DEF UnpackPrivately
  <2>4. CASE MoveByRename(c)
    BY <1>1, <2>4 DEF MoveByRename
  <2>5. CASE MoveByCopy(c)
    BY <1>1, <2>5 DEF MoveByCopy
  <2>6. CASE CopyDone(c)
    BY <1>1, <2>6 DEF CopyDone, Complete
  <2>7. CASE CreateBinary(c)
    BY <1>1, <2>7 DEF CreateBinary
  <2>8. CASE FillBinary(c)
    BY <1>1, <2>8 DEF FillBinary, Complete
  <2>9. CASE CleanUp(c)
    BY <1>1, <2>9 DEF CleanUp
  <2>10. CASE ArchiveGone(c) \/ HalfWritten(c) \/ InstallerKilled(c)
    BY <1>1, <2>10 DEF ArchiveGone, HalfWritten, InstallerKilled
  <2>12. CASE OpenBinary(c)
    BY <1>1, <2>12 DEF OpenBinary
  <2>11. CASE NextInstall(c)
    BY <1>1, <2>11 DEF NextInstall, NotInstalling
  <2> QED
    BY <1>1, <2>1, <2>2, <2>3, <2>4, <2>5, <2>6, <2>7, <2>8, <2>9, <2>10, <2>11, <2>12, <2>13 DEF CliStep
<1>2. CASE UNCHANGED binariesVars
  BY <1>2 DEF binariesVars
<1> QED
  BY <1>1, <1>2, NextIsCliStep DEF BinariesNext

\* PullAlways repairs whatever an earlier install left under the binary's name, as
\* long as no other CLI installs meanwhile (engine/*/provider.go).
THEOREM ForcedRepairs == BinariesSpec => []ForcedPullRepairs
<1>1. Undisturbed => ForcedPullRepairs
  BY DEF Undisturbed
<1> QED
  BY <1>1, BinariesInitType, BinariesNextType, InitUndisturbed, NextUndisturbed, PTL DEF BinariesSpec

-----------------------------------------------------------------------------
(* Plugins. *)

(***************************************************************************)
(* The elements of a sequence at some of its positions.                    *)
(***************************************************************************)
UpTo(I, i) == {j \in I : j <= i}

\* A finite set of numbers is counted in order: for each number up to its cardinality one
\* of its elements has that many up to itself.
LEMMA Ranks ==
  ASSUME NEW I, IsFiniteSet(I), I \subseteq Nat
  PROVE  /\ Cardinality(I) \in Nat
         /\ \A i \in I : Cardinality(UpTo(I, i)) \in 1..Cardinality(I)
         /\ \A i, j \in I : Cardinality(UpTo(I, i)) = Cardinality(UpTo(I, j)) => i = j
         /\ \A k \in 1..Cardinality(I) : \E i \in I : Cardinality(UpTo(I, i)) = k
<1> DEFINE n == Cardinality(I)
           rank == [i \in I |-> Cardinality(UpTo(I, i))]
<1>1. n \in Nat
  BY FS_CardinalityType
<1>2. ASSUME NEW i \in I
      PROVE  IsFiniteSet(UpTo(I, i)) /\ Cardinality(UpTo(I, i)) \in 1..n
  <2>1. UpTo(I, i) \in SUBSET I
    BY DEF UpTo
  <2>2. /\ IsFiniteSet(UpTo(I, i)) /\ Cardinality(UpTo(I, i)) <= n
        /\ Cardinality(UpTo(I, i)) \in Nat
    BY <2>1, FS_Subset, FS_CardinalityType
  <2>3. i \in UpTo(I, i)
    BY DEF UpTo
  <2>4. Cardinality(UpTo(I, i)) # 0
    BY <2>2, <2>3, FS_EmptySet
  <2> QED
    BY <1>1, <2>2, <2>4
<1>3. ASSUME NEW i \in I, NEW j \in I, i < j
      PROVE  Cardinality(UpTo(I, i)) # Cardinality(UpTo(I, j))
  <2>1. UpTo(I, i) \in SUBSET UpTo(I, j)
    <3>1. \A x \in I : x <= i => x <= j
      BY <1>3
    <3> QED
      BY <3>1 DEF UpTo
  <2>2. j \in UpTo(I, j) /\ j \notin UpTo(I, i)
    BY <1>3 DEF UpTo
  <2>3. IsFiniteSet(UpTo(I, j))
    BY <1>2
  <2>4. Cardinality(UpTo(I, j)) = Cardinality(UpTo(I, i)) => UpTo(I, j) = UpTo(I, i)
    BY <2>1, <2>3, FS_Subset
  <2> QED
    BY <2>2, <2>4
<1>4. \A i, j \in I : Cardinality(UpTo(I, i)) = Cardinality(UpTo(I, j)) => i = j
  <2> SUFFICES ASSUME NEW i \in I, NEW j \in I, Cardinality(UpTo(I, i)) = Cardinality(UpTo(I, j)), i # j
               PROVE  FALSE
    OBVIOUS
  <2>1. i < j \/ j < i
    OBVIOUS
  <2> QED
    BY <1>3, <2>1
<1>5. rank \in Injection(I, 1..n)
  <2>1. rank \in [I -> 1..n]
    BY <1>2
  <2>2. IsInjective(rank)
    BY <1>4 DEF IsInjective
  <2> QED
    BY <2>1, <2>2 DEF Injection
<1>6. IsFiniteSet(1..n) /\ Cardinality(1..n) = n
  BY <1>1, FS_Interval
<1>7. rank \in Surjection(I, 1..n)
  BY <1>5, <1>6, FS_Injection
<1>8. \A k \in 1..n : \E i \in I : rank[i] = k
  BY <1>7 DEF Surjection
<1> QED
  BY <1>1, <1>2, <1>4, <1>8

\* What AtPositions returns: as many elements as positions, and those of the positions.
LEMMA Chosen ==
  ASSUME NEW S, NEW s \in Seq(S), NEW I \in SUBSET DOMAIN s
  PROVE  /\ IsFiniteSet(I) /\ Cardinality(I) \in Nat
         /\ AtPositions(s, I) \in Seq(S) /\ Len(AtPositions(s, I)) = Cardinality(I)
         /\ ToSet(AtPositions(s, I)) = {s[i] : i \in I}
<1> DEFINE n == Cardinality(I)
           at(k) == CHOOSE i \in I : Cardinality({j \in I : j <= i}) = k
           chosen == [k \in 1..n |-> s[at(k)]]
<1>1. DOMAIN s = 1..Len(s) /\ Len(s) \in Nat
  OBVIOUS
<1>2. IsFiniteSet(DOMAIN s)
  BY <1>1, FS_Interval
<1>3. IsFiniteSet(I) /\ I \subseteq Nat
  BY <1>1, <1>2, FS_Subset
<1>4. \A i : UpTo(I, i) = {j \in I : j <= i}
  BY DEF UpTo
<1>5. n \in Nat /\ \A k \in 1..n : at(k) \in I /\ Cardinality({j \in I : j <= at(k)}) = k
  <2>1. ASSUME NEW k \in 1..n PROVE \E i \in I : Cardinality({j \in I : j <= i}) = k
    <3>1. PICK i \in I : Cardinality(UpTo(I, i)) = k
      BY <1>3, Ranks
    <3> QED
      BY <1>4, <3>1
  <2> QED
    BY <1>3, <2>1, FS_CardinalityType
<1>6. AtPositions(s, I) = chosen
  BY DEF AtPositions
<1>7. \A i \in I : \E k \in 1..n : at(k) = i
  <2> SUFFICES ASSUME NEW i \in I PROVE \E k \in 1..n : at(k) = i
    OBVIOUS
  <2> DEFINE k == Cardinality({j \in I : j <= i})
  <2>1. k \in 1..n
    BY <1>3, <1>4, Ranks
  <2>2. at(k) \in I /\ Cardinality({j \in I : j <= at(k)}) = k
    BY <1>5, <2>1
  <2>3. at(k) = i
    BY <1>3, <1>4, <2>2, Ranks
  <2> QED
    BY <2>1, <2>3
<1> HIDE DEF at
<1>8. \A k \in 1..n : s[at(k)] \in S
  <2>1. \A i \in DOMAIN s : s[i] \in S
    OBVIOUS
  <2> QED
    BY <1>5, <2>1
<1>9. chosen \in Seq(S) /\ Len(chosen) = n /\ DOMAIN chosen = 1..n
  BY <1>5, <1>8
<1>10. ToSet(chosen) = {s[i] : i \in I}
  BY <1>5, <1>7, <1>9 DEF ToSet
<1> QED
  BY <1>3, <1>5, <1>6, <1>9, <1>10

\* Unique keeps the elements of a sequence, one of each.
LEMMA UniqueIs ==
  ASSUME NEW S, NEW s \in Seq(S)
  PROVE  Unique(s) \in Seq(S) /\ ToSet(Unique(s)) = ToSet(s)
<1> DEFINE I == {i \in DOMAIN s : \A j \in DOMAIN s : j < i => s[j] # s[i]}
<1>1. DOMAIN s = 1..Len(s) /\ Len(s) \in Nat
  OBVIOUS
<1>2. Unique(s) \in Seq(S) /\ ToSet(Unique(s)) = {s[i] : i \in I}
  <2>1. I \in SUBSET DOMAIN s
    OBVIOUS
  <2>2. Unique(s) = AtPositions(s, I)
    BY DEF Unique
  <2> HIDE DEF I
  <2> QED
    BY <2>1, <2>2, Chosen
<1>3. \A k \in DOMAIN s : \E i \in I : s[i] = s[k]
  <2> SUFFICES ASSUME NEW k \in DOMAIN s PROVE \E i \in I : s[i] = s[k]
    OBVIOUS
  <2> DEFINE E == {j \in DOMAIN s : s[j] = s[k]}
  <2>1. IsFiniteSet(E) /\ E \subseteq Nat
    <3>1. IsFiniteSet(DOMAIN s)
      BY <1>1, FS_Interval
    <3> QED
      BY <1>1, <3>1, FS_Subset
  <2>2. Cardinality(E) \in Nat /\ Cardinality(E) # 0
    <3>1. k \in E
      OBVIOUS
    <3> QED
      BY <2>1, <3>1, FS_CardinalityType, FS_EmptySet
  <2>3. PICK i \in E : Cardinality(UpTo(E, i)) = 1
    <3>1. 1 \in 1..Cardinality(E)
      BY <2>2
    <3>2. \A rank \in 1..Cardinality(E) : \E l \in E : Cardinality(UpTo(E, l)) = rank
      <4> HIDE DEF E
      <4> QED
        BY <2>1, Ranks
    <3> QED
      BY <3>1, <3>2
  <2>4. ASSUME NEW j \in E, j < i PROVE FALSE
    <3>1. UpTo(E, j) \in SUBSET UpTo(E, i) /\ UpTo(E, i) \in SUBSET E
      <4>1. \A x \in E : x <= j => x <= i
        BY <1>1, <2>4
      <4> QED
        BY <4>1 DEF UpTo
    <3>2. i \in UpTo(E, i) /\ i \notin UpTo(E, j)
      BY <1>1, <2>4 DEF UpTo
    <3>3. Cardinality(UpTo(E, j)) \in 1..Cardinality(E)
      BY <2>1, Ranks
    <3>4. IsFiniteSet(UpTo(E, i))
      BY <2>1, <3>1, FS_Subset
    <3>5. Cardinality(UpTo(E, j)) < Cardinality(UpTo(E, i))
      <4>1. /\ Cardinality(UpTo(E, j)) <= Cardinality(UpTo(E, i))
            /\ Cardinality(UpTo(E, i)) = Cardinality(UpTo(E, j)) => UpTo(E, i) = UpTo(E, j)
        BY <3>1, <3>4, FS_Subset
      <4> QED
        BY <2>2, <2>3, <3>2, <3>3, <4>1
    <3> QED
      BY <2>2, <2>3, <3>3, <3>5
  <2>5. i \in I
    <3>1. \A j \in DOMAIN s : j < i => s[j] # s[i]
      BY <2>4
    <3> QED
      BY <3>1
  <2> QED
    BY <2>5
<1>4. {s[i] : i \in I} = ToSet(s)
  <2>1. I \subseteq DOMAIN s
    OBVIOUS
  <2> HIDE DEF I
  <2> QED
    BY <1>3, <2>1 DEF ToSet
<1> QED
  BY <1>2, <1>4

\* The elements of two lists are those of their concatenation.
LEMMA ToSetConcat ==
  ASSUME NEW S, NEW s \in Seq(S), NEW t \in Seq(S)
  PROVE  s \o t \in Seq(S) /\ ToSet(s \o t) = ToSet(s) \cup ToSet(t)
<1>1. /\ Len(s) \in Nat /\ Len(t) \in Nat /\ DOMAIN s = 1..Len(s) /\ DOMAIN t = 1..Len(t)
      /\ DOMAIN (s \o t) = 1..(Len(s) + Len(t))
      /\ \A i \in 1..Len(s) : (s \o t)[i] = s[i]
      /\ \A i \in 1..Len(t) : (s \o t)[Len(s) + i] = t[i]
  OBVIOUS
<1>2. \A i \in 1..(Len(s) + Len(t)) : i \in 1..Len(s) \/ \E k \in 1..Len(t) : i = Len(s) + k
  <2> SUFFICES ASSUME NEW i \in 1..(Len(s) + Len(t)), i \notin 1..Len(s)
               PROVE  \E k \in 1..Len(t) : i = Len(s) + k
    OBVIOUS
  <2>1. i - Len(s) \in 1..Len(t) /\ i = Len(s) + (i - Len(s))
    BY <1>1
  <2> QED
    BY <2>1
<1>3. /\ \A i \in 1..Len(s) : i \in 1..(Len(s) + Len(t))
      /\ \A i \in 1..Len(t) : Len(s) + i \in 1..(Len(s) + Len(t))
  BY <1>1
<1>4. ASSUME NEW i \in 1..(Len(s) + Len(t)) PROVE (s \o t)[i] \in ToSet(s) \cup ToSet(t)
  <2>1. CASE i \in 1..Len(s)
    BY <1>1, <2>1 DEF ToSet
  <2>2. CASE \E k \in 1..Len(t) : i = Len(s) + k
    <3>1. PICK k \in 1..Len(t) : i = Len(s) + k
      BY <2>2
    <3> QED
      BY <1>1, <3>1 DEF ToSet
  <2> QED
    BY <1>2, <2>1, <2>2
<1>5. \A x \in ToSet(s) \cup ToSet(t) : x \in ToSet(s \o t)
  BY <1>1, <1>3 DEF ToSet
<1>6. ToSet(s \o t) = {(s \o t)[i] : i \in 1..(Len(s) + Len(t))} /\ s \o t \in Seq(S)
  BY <1>1 DEF ToSet
<1> QED
  BY <1>4, <1>5, <1>6

\* 1..n has n elements.
LEMMA Interval == \A n \in Nat : IsFiniteSet(1..n) /\ Cardinality(1..n) = n
  BY FS_Interval

\* What is listed when plugins are added.
LEMMA Added ==
  ASSUME NEW S, NEW s \in Seq(S), NEW t \in Seq(S)
  PROVE  /\ CombineUnique(s, t) \in Seq(S) /\ ToSet(CombineUnique(s, t)) = ToSet(s) \cup ToSet(t)
         /\ IsInjective(s) /\ Len(s) = Len(CombineUnique(s, t)) => ToSet(t) \subseteq ToSet(s)
<1> DEFINE st == s \o t
           I == {i \in DOMAIN st : \A j \in DOMAIN st : j < i => st[j] # st[i]}
<1>1. CombineUnique(s, t) = Unique(st) /\ st \in Seq(S)
  BY ToSetConcat DEF CombineUnique
<1>2. CombineUnique(s, t) \in Seq(S) /\ ToSet(CombineUnique(s, t)) = ToSet(s) \cup ToSet(t)
  <2>1. Unique(st) \in Seq(S) /\ ToSet(Unique(st)) = ToSet(st)
    BY <1>1, UniqueIs
  <2> QED
    BY <1>1, <2>1, ToSetConcat
<1>3. ASSUME IsInjective(s), Len(s) = Len(CombineUnique(s, t))
      PROVE  ToSet(t) \subseteq ToSet(s)
  <2>1. /\ Len(s) \in Nat /\ DOMAIN s = 1..Len(s) /\ 1..Len(s) \subseteq DOMAIN st /\ DOMAIN st \subseteq Nat
        /\ \A i \in 1..Len(s) : st[i] = s[i]
    OBVIOUS
  <2>2. /\ IsFiniteSet(I) /\ Cardinality(I) = Len(CombineUnique(s, t))
        /\ ToSet(CombineUnique(s, t)) = {st[i] : i \in I}
    <3>1. I \in SUBSET DOMAIN st
      OBVIOUS
    <3>2. Unique(st) = AtPositions(st, I)
      BY DEF Unique
    <3> HIDE DEF I, st
    <3> QED
      BY <1>1, <3>1, <3>2, Chosen
  <2>3. 1..Len(s) \in SUBSET I
    <3> SUFFICES ASSUME NEW i \in 1..Len(s), NEW j \in DOMAIN st, j < i PROVE st[j] # st[i]
      BY <2>1
    <3>1. j \in 1..Len(s)
      BY <2>1
    <3> QED
      BY <1>3, <2>1, <3>1 DEF IsInjective
  <2>4. Cardinality(1..Len(s)) = Len(s)
    BY <2>1, Interval
  <2>5. I = 1..Len(s)
    BY <1>3, <2>2, <2>3, <2>4, FS_Subset
  <2>6. {st[i] : i \in I} = ToSet(s)
    <3> HIDE DEF I, st
    <3> QED
      BY <2>1, <2>5 DEF ToSet
  <2> QED
    BY <1>2, <2>2, <2>6
<1> QED
  BY <1>2, <1>3

\* What is listed when plugins are removed.
LEMMA Removed ==
  ASSUME NEW S, NEW s \in Seq(S), NEW t \in Seq(S)
  PROVE  /\ RemoveDefaultPlugins(s, t) \in Seq(S) /\ ToSet(RemoveDefaultPlugins(s, t)) \cap ToSet(t) = {}
         /\ Len(s) = Len(RemoveDefaultPlugins(s, t)) => ToSet(s) \cap ToSet(t) = {}
<1> DEFINE I == {i \in DOMAIN s : s[i] \notin ToSet(t)}
<1>1. I \in SUBSET DOMAIN s
  OBVIOUS
<1>2. RemoveDefaultPlugins(s, t) = AtPositions(s, I)
  BY DEF RemoveDefaultPlugins
<1>3. /\ AtPositions(s, I) \in Seq(S) /\ Len(AtPositions(s, I)) = Cardinality(I)
      /\ ToSet(AtPositions(s, I)) = {s[i] : i \in I}
  <2> HIDE DEF I
  <2> QED
    BY <1>1, Chosen
<1>4. {s[i] : i \in I} \cap ToSet(t) = {}
  OBVIOUS
<1>5. ASSUME Len(s) = Cardinality(I) PROVE ToSet(s) \cap ToSet(t) = {}
  <2>1. DOMAIN s = 1..Len(s) /\ Len(s) \in Nat
    OBVIOUS
  <2>2. IsFiniteSet(DOMAIN s) /\ Cardinality(DOMAIN s) = Len(s)
    BY <2>1, Interval
  <2>3. I = DOMAIN s
    <3> HIDE DEF I
    <3> QED
      BY <1>1, <1>5, <2>2, FS_Subset
  <2> QED
    BY <2>3 DEF ToSet
<1> QED
  BY <1>2, <1>3, <1>4, <1>5

(***************************************************************************)
(* The invariant of the commands at the plugins and at their list.         *)
(***************************************************************************)
PluginPcs == PluginEnds \cup ListPcs \cup {"next", "download", "unpack", "remove"}
PluginCommand ==
    [pc : PluginPcs, op : {"none", "up", "install", "uninstall"}, args : Seq(Plugins), save : BOOLEAN,
     todo : Seq(Plugins), new : Seq(Plugins), mem : CliConfigs, met : BOOLEAN]

\* The list new does what the command r was asked to do.
AsAsked(r, new) ==
    IF r.op = "uninstall" THEN ToSet(new) \cap ToSet(r.args) = {} ELSE ToSet(r.args) \subseteq ToSet(new)

\* One command: what it has left to do, and the list it has in hand.
CommandOK(r) ==
    /\ r \in PluginCommand
    /\ r.pc \in {"download", "unpack", "remove"} => r.todo # <<>>
    /\ r.pc \in {"download", "unpack"} => r.op # "uninstall"
    /\ r.pc = "remove" => r.op = "uninstall"
    /\ r.save => r.args # <<>>
    /\ r.pc \in ListPcs => r.todo = <<>> /\ r.save
    /\ r.pc \in {"parse", "truncate", "fill"} => AsAsked(r, r.new)
    /\ r.pc \in {"truncate", "fill"} => r.mem.plugins = r.new /\ r.mem.deprecated = <<>>

PluginTypes ==
    /\ file \in [Plugins -> {"absent", "partial", "whole"}]
    /\ engineType \in {"native", "jvm"}
    /\ config = Unparsed \/ config \in CliConfigs
    /\ cut \subseteq Plugins
    /\ listDisturbed \in BOOLEAN
    /\ DOMAIN cli = PluginClis
    /\ cli \in [PluginClis -> PluginCommand]
    /\ \A c \in PluginClis : CommandOK(cli[c])

\* A command that has met no other is the only one.
MetTogether == \A c, d \in PluginClis : c # d /\ Active(c) /\ Active(d) => cli[c].met

\* A file half unpacked was left by a command cut short, or one is still unpacking it.
UnpackingAt(c, p) == cli[c].pc = "unpack" /\ Head(cli[c].todo) = p
PartialAccounted ==
    \A p \in Plugins : file[p] = "partial" => p \in cut \/ \E c \in PluginClis : UnpackingAt(c, p)

\* What an undisturbed command has behind it is as it was asked.
WantedFile(r) == IF r.op = "uninstall" THEN "absent" ELSE "whole"
HandledOf(c) ==
    /\ \A p \in ToSet(cli[c].args) :
         p \in ToSet(cli[c].todo) \/ p \in cut \/ file[p] = WantedFile(cli[c])
    /\ cli[c].pc = "unpack" => file[Head(cli[c].todo)] # "absent"
PluginsHandledSoFar == \A c \in PluginClis : Active(c) /\ ~cli[c].met => HandledOf(c)

PluginInv == PluginTypes /\ MetTogether /\ PartialAccounted /\ PluginsHandledSoFar

\* While the list is undisturbed one command at most is at it, the file does not parse
\* exactly while that command has it truncated, and what it writes keeps the other settings.
ListInv ==
    ~listDisturbed =>
        /\ ~TwoListing
        /\ config = Unparsed <=> \E c \in PluginClis : cli[c].pc = "fill"
        /\ config # Unparsed => config.others
        /\ \A c \in PluginClis : cli[c].pc \in {"truncate", "fill"} => cli[c].mem.others

\* The fields of a command.
LEMMA CommandShape ==
  ASSUME NEW r, CommandOK(r)
  PROVE  /\ r.pc \in PluginPcs /\ r.op \in {"none", "up", "install", "uninstall"}
         /\ r.args \in Seq(Plugins) /\ r.todo \in Seq(Plugins) /\ r.new \in Seq(Plugins)
         /\ r.mem \in CliConfigs /\ r.met \in BOOLEAN /\ r.save \in BOOLEAN
  BY DEF CommandOK, PluginCommand

\* A command that is not there, or has ended, owes nothing.
LEMMA NoCommandOK ==
  CommandOK(NoCommand) /\ CommandOK([NoCommand EXCEPT !.pc = "done"]) /\ Empty \in CliConfigs
<1>1. Empty \in CliConfigs
  BY DEF Empty, CliConfigs
<1>2. NoCommand \in PluginCommand
  <2>1. <<>> \in Seq(Plugins) /\ FALSE \in BOOLEAN /\ "idle" \in PluginPcs
    BY DEF PluginPcs, PluginEnds
  <2>2. "none" \in {"none", "up", "install", "uninstall"}
    OBVIOUS
  <2> HIDE DEF Empty
  <2> QED
    BY <1>1, <2>1, <2>2, Zenon DEF NoCommand, PluginCommand
<1>3. [NoCommand EXCEPT !.pc = "done"] \in PluginCommand
  <2>1. "done" \in PluginPcs
    BY DEF PluginPcs, PluginEnds
  <2> QED
    BY <1>2, <2>1 DEF PluginCommand
<1> QED
  BY <1>1, <1>2, <1>3 DEF CommandOK, NoCommand, ListPcs

\* Its configuration, as a command parses it.
LEMMA Parsed ==
  ASSUME PluginTypes
  PROVE  /\ ParseConfigFile \in CliConfigs
         /\ ParseConfigFile.plugins \in Seq(Plugins) /\ ParseConfigFile.deprecated \in Seq(Plugins)
         /\ ConfiguredPlugins(ParseConfigFile) \in Seq(Plugins)
<1>1. ParseConfigFile \in CliConfigs
  BY NoCommandOK DEF PluginTypes, ParseConfigFile
<1>2. ParseConfigFile.plugins \in Seq(Plugins) /\ ParseConfigFile.deprecated \in Seq(Plugins)
  BY <1>1 DEF CliConfigs
<1>3. CombineUnique(ParseConfigFile.plugins, ParseConfigFile.deprecated) \in Seq(Plugins)
  BY <1>2, Added
<1> QED
  BY <1>1, <1>2, <1>3 DEF ConfiguredPlugins

\* Handling the next plugin of a command.
LEMMA HeadAndTail ==
  ASSUME NEW s \in Seq(Plugins), s # <<>>
  PROVE  /\ Head(s) \in Plugins /\ Tail(s) \in Seq(Plugins)
         /\ ToSet(s) \subseteq {Head(s)} \cup ToSet(Tail(s))
<1>1. /\ Len(s) \in Nat /\ DOMAIN s = 1..Len(s) /\ 1 \in 1..Len(s) /\ Head(s) = s[1]
      /\ Len(Tail(s)) = Len(s) - 1 /\ DOMAIN Tail(s) = 1..(Len(s) - 1)
      /\ \A i \in 1..(Len(s) - 1) : Tail(s)[i] = s[i + 1]
      /\ Tail(s) \in Seq(Plugins) /\ Head(s) \in Plugins
  OBVIOUS
<1>2. ASSUME NEW i \in 1..Len(s), i # 1 PROVE s[i] \in ToSet(Tail(s))
  <2>1. i - 1 \in 1..(Len(s) - 1) /\ (i - 1) + 1 = i
    BY <1>1, <1>2
  <2>2. Tail(s)[i - 1] = s[i]
    BY <1>1, <2>1
  <2> QED
    BY <1>1, <2>1, <2>2 DEF ToSet
<1>3. \A x \in ToSet(s) : x = Head(s) \/ x \in ToSet(Tail(s))
  BY <1>1, <1>2 DEF ToSet
<1> QED
  BY <1>1, <1>3

\* A command moves, and the others stay.
LEMMA OneMoves ==
  ASSUME PluginTypes, NEW c \in PluginClis, NEW r, CommandOK(r), Update(c, r)
  PROVE  /\ cli'[c] = r /\ \A d \in PluginClis : d # c => cli'[d] = cli[d]
         /\ DOMAIN cli' = PluginClis /\ cli' \in [PluginClis -> PluginCommand]
         /\ \A d \in PluginClis : CommandOK(cli'[d])
<1>1. r \in PluginCommand
  BY DEF CommandOK
<1>2. /\ cli'[c] = r /\ \A d \in PluginClis : d # c => cli'[d] = cli[d]
      /\ DOMAIN cli' = PluginClis /\ cli' \in [PluginClis -> PluginCommand]
  BY <1>1 DEF Update, PluginTypes
<1>3. \A d \in PluginClis : CommandOK(cli[d])
  BY DEF PluginTypes
<1> QED
  BY <1>2, <1>3

\* The files and the configuration are what they may be.
FilesTyped ==
    /\ file \in [Plugins -> {"absent", "partial", "whole"}] /\ engineType \in {"native", "jvm"}
    /\ config = Unparsed \/ config \in CliConfigs
    /\ cut \subseteq Plugins /\ listDisturbed \in BOOLEAN

\* What one command's step has to keep: its own plugins as asked, and the plugins it
\* leaves half unpacked accounted for.
LEMMA StepOfOne ==
  ASSUME PluginInv, NEW c \in PluginClis, NEW r, Active(c), FilesTyped',
         CommandOK(r), Update(c, r), r.pc \in PluginEnds \/ r.met = cli[c].met,
         r.pc \notin PluginEnds /\ ~r.met => HandledOf(c)',
         \A p \in Plugins : file'[p] = "partial" =>
           \/ p \in cut' \/ (r.pc = "unpack" /\ Head(r.todo) = p)
           \/ \E d \in PluginClis \ {c} : UnpackingAt(d, p)
  PROVE  PluginInv'
<1> USE DEF PluginInv
<1>1. cli'[c] = r /\ \A d \in PluginClis : d # c => cli'[d] = cli[d]
  BY OneMoves
<1>2. PluginTypes'
  BY OneMoves DEF PluginTypes, FilesTyped
<1>3. MetTogether'
  BY <1>1 DEF MetTogether, Active
<1>4. PartialAccounted'
  BY <1>1 DEF PartialAccounted, UnpackingAt
<1>5. \A d \in PluginClis : d # c /\ Active(d) => cli[d].met
  BY DEF MetTogether
<1>6. PluginsHandledSoFar'
  <2> SUFFICES ASSUME NEW d \in PluginClis, Active(d)', ~cli'[d].met PROVE HandledOf(d)'
    BY DEF PluginsHandledSoFar
  <2>1. CASE d = c
    BY <1>1, <2>1 DEF Active
  <2>2. CASE d # c
    BY <1>1, <1>5, <2>2 DEF Active
  <2> QED
    BY <2>1, <2>2
<1> QED
  BY <1>2, <1>3, <1>4, <1>6

\* Such a command is not active.
LEMMA AtRest ==
  /\ NoCommand.pc = "idle" /\ [NoCommand EXCEPT !.pc = "done"].pc = "done"
  /\ "idle" \in PluginEnds /\ "done" \in PluginEnds
  BY DEF NoCommand, PluginEnds

\* A command ends, however it ends: the plugin it was unpacking, if any, was cut short.
LEMMA EndKept ==
  ASSUME PluginInv, NEW c \in PluginClis, Active(c), Fails(c) \/ Done(c), FilesTyped',
         UNCHANGED file \/ \E p \in Plugins : file' = [file EXCEPT ![p] = "absent"],
         cut \subseteq cut', cli[c].pc = "unpack" => Head(cli[c].todo) \in cut'
  PROVE  PluginInv'
<1>1. PICK r : r.pc \in PluginEnds /\ CommandOK(r) /\ Update(c, r)
  BY NoCommandOK, AtRest DEF Fails, Done
<1>2. \A p \in Plugins : file'[p] = "partial" => file[p] = "partial"
  BY DEF PluginInv, PluginTypes
<1>3. \A p \in Plugins : file'[p] = "partial" => p \in cut' \/ \E d \in PluginClis \ {c} : UnpackingAt(d, p)
  BY <1>2 DEF PluginInv, PartialAccounted, UnpackingAt
<1> QED
  BY <1>1, <1>3, StepOfOne

\* A command goes on without touching a plugin.
LEMMA GoesOnKept ==
  ASSUME PluginInv, NEW c \in PluginClis, NEW r, Active(c), FilesTyped', UNCHANGED <<file, cut>>,
         CommandOK(r), Update(c, r), r.met = cli[c].met, cli[c].pc # "unpack", r.pc # "unpack",
         r.op = cli[c].op, r.args = cli[c].args,
         r.todo = cli[c].todo \/ /\ cli[c].todo # <<>> /\ r.todo = Tail(cli[c].todo)
                                 /\ \/ cli[c].met \/ Head(cli[c].todo) \in cut
                                    \/ file[Head(cli[c].todo)] = WantedFile(cli[c])
  PROVE  PluginInv'
<1>1. \A q \in Plugins : file'[q] = "partial" => q \in cut' \/ \E d \in PluginClis \ {c} : UnpackingAt(d, q)
  BY DEF PluginInv, PartialAccounted, UnpackingAt
<1>2. ~cli[c].met => HandledOf(c)
  BY DEF PluginInv, PluginsHandledSoFar
<1>3. cli[c].todo # <<>> => ToSet(cli[c].todo) \subseteq {Head(cli[c].todo)} \cup ToSet(Tail(cli[c].todo))
  BY CommandShape, HeadAndTail DEF PluginInv, PluginTypes
<1>4. cli'[c] = r
  BY OneMoves DEF PluginInv
<1>5. ~r.met => HandledOf(c)'
  BY <1>2, <1>3, <1>4 DEF HandledOf, WantedFile
<1> QED
  BY <1>1, <1>5, StepOfOne

\* A command is done with the plugin at its head ...
LEMMA PluginDone ==
  ASSUME NEW r, CommandOK(r), r.pc \notin ListPcs, r.todo # <<>>,
         NEW n, n = [r EXCEPT !.pc = "next", !.todo = Tail(@)]
                \/ (r.pc = "next" /\ n = [r EXCEPT !.todo = Tail(@)])
  PROVE  /\ CommandOK(n) /\ n.pc = "next" /\ n.todo = Tail(r.todo)
         /\ n.args = r.args /\ n.op = r.op /\ n.met = r.met
<1>1. r \in PluginCommand /\ Tail(r.todo) \in Seq(Plugins) /\ "next" \in PluginPcs
  BY CommandShape, HeadAndTail DEF CommandOK, PluginPcs
<1>2. /\ n \in PluginCommand /\ n.pc = "next" /\ n.todo = Tail(r.todo)
      /\ n.args = r.args /\ n.op = r.op /\ n.met = r.met
  BY <1>1 DEF PluginCommand
<1>3. n.save = r.save
  BY <1>1 DEF PluginCommand
<1> QED
  BY <1>2, <1>3 DEF CommandOK, ListPcs

\* ... or at work on it.
LEMMA PluginAt ==
  ASSUME NEW r, CommandOK(r), NEW pc \in {"download", "unpack", "remove"}, r.todo # <<>>,
         pc = "remove" <=> r.op = "uninstall",
         NEW n, n = [r EXCEPT !.pc = pc]
  PROVE  /\ CommandOK(n) /\ n.pc = pc /\ n.todo = r.todo
         /\ n.args = r.args /\ n.op = r.op /\ n.met = r.met
<1>1. r \in PluginCommand /\ pc \in PluginPcs
  BY DEF CommandOK, PluginPcs
<1>2. /\ n \in PluginCommand /\ n.pc = pc /\ n.todo = r.todo
      /\ n.args = r.args /\ n.op = r.op /\ n.met = r.met
  BY <1>1 DEF PluginCommand
<1>3. n.save = r.save
  BY <1>1 DEF PluginCommand
<1> QED
  BY <1>2, <1>3 DEF CommandOK, ListPcs

\* A command at work on a plugin has that plugin to do, and nothing else is at the files.
LEMMA AtWork ==
  ASSUME PluginInv, NEW c \in PluginClis, Active(c), cli[c].todo # <<>>
  PROVE  /\ CommandOK(cli[c]) /\ Head(cli[c].todo) \in Plugins
         /\ ToSet(cli[c].todo) \subseteq {Head(cli[c].todo)} \cup ToSet(Tail(cli[c].todo))
         /\ file[Head(cli[c].todo)] \in {"absent", "partial", "whole"}
         /\ ~cli[c].met => HandledOf(c) /\ \A d \in PluginClis \ {c} : ~Active(d)
<1>1. CommandOK(cli[c])
  BY DEF PluginInv, PluginTypes
<1>2. /\ Head(cli[c].todo) \in Plugins
      /\ ToSet(cli[c].todo) \subseteq {Head(cli[c].todo)} \cup ToSet(Tail(cli[c].todo))
  BY <1>1, CommandShape, HeadAndTail
<1>3. file[Head(cli[c].todo)] \in {"absent", "partial", "whole"}
  BY <1>2 DEF PluginInv, PluginTypes
<1>4. ~cli[c].met => HandledOf(c) /\ \A d \in PluginClis \ {c} : ~Active(d)
  BY DEF PluginInv, PluginsHandledSoFar, MetTogether
<1> QED
  BY <1>1, <1>2, <1>3, <1>4

\* A plugin is there or has to be downloaded.
LEMMA EnsurePluginKept ==
  ASSUME PluginInv, NEW c \in PluginClis, EnsurePlugin(c),
         UNCHANGED engineType, listDisturbed' \in BOOLEAN
  PROVE  PluginInv'
<1>1. /\ cli[c].pc = "next" /\ cli[c].todo # <<>> /\ cli[c].op # "uninstall"
      /\ UNCHANGED <<config, file, cut>> /\ Active(c) /\ FilesTyped'
  BY DEF EnsurePlugin, FilesKept, Active, PluginEnds, PluginInv, PluginTypes, FilesTyped
<1>2. CommandOK(cli[c])
  BY <1>1, AtWork
<1>3. CASE file[Head(cli[c].todo)] # "absent"
  <2> DEFINE r == [cli[c] EXCEPT !.todo = Tail(@)]
  <2>1. Update(c, r)
    BY <1>3 DEF EnsurePlugin
  <2>2. /\ CommandOK(r) /\ r.pc = "next" /\ r.todo = Tail(cli[c].todo)
        /\ r.args = cli[c].args /\ r.op = cli[c].op /\ r.met = cli[c].met
    BY <1>1, <1>2, PluginDone DEF ListPcs
  <2>3. \/ cli[c].met \/ Head(cli[c].todo) \in cut
        \/ file[Head(cli[c].todo)] = WantedFile(cli[c])
    <3>1. ~cli[c].met /\ file[Head(cli[c].todo)] = "partial" => Head(cli[c].todo) \in cut
      BY <1>1, AtWork DEF PluginInv, PartialAccounted, UnpackingAt, Active, PluginEnds
    <3> QED
      BY <1>1, <1>3, <3>1, AtWork DEF WantedFile
  <2> HIDE DEF r
  <2> QED
    BY <1>1, <2>1, <2>2, <2>3, GoesOnKept
<1>4. CASE file[Head(cli[c].todo)] = "absent"
  <2> DEFINE r == [cli[c] EXCEPT !.pc = "download"]
  <2>1. Update(c, r)
    BY <1>4 DEF EnsurePlugin
  <2>2. /\ CommandOK(r) /\ r.pc = "download" /\ r.todo = cli[c].todo
        /\ r.args = cli[c].args /\ r.op = cli[c].op /\ r.met = cli[c].met
    BY <1>1, <1>2, PluginAt
  <2> HIDE DEF r
  <2> QED
    BY <1>1, <2>1, <2>2, GoesOnKept
<1> QED
  BY <1>3, <1>4

\* A plugin is not there or has to be removed.
LEMMA UninstallPluginKept ==
  ASSUME PluginInv, NEW c \in PluginClis, UninstallPlugin(c),
         UNCHANGED engineType, listDisturbed' \in BOOLEAN
  PROVE  PluginInv'
<1>1. /\ cli[c].pc = "next" /\ cli[c].todo # <<>> /\ cli[c].op = "uninstall"
      /\ UNCHANGED <<config, file, cut>> /\ Active(c) /\ FilesTyped'
  BY DEF UninstallPlugin, FilesKept, Active, PluginEnds, PluginInv, PluginTypes, FilesTyped
<1>2. CommandOK(cli[c])
  BY <1>1, AtWork
<1>3. CASE file[Head(cli[c].todo)] = "absent"
  <2> DEFINE r == [cli[c] EXCEPT !.todo = Tail(@)]
  <2>1. Update(c, r)
    BY <1>3 DEF UninstallPlugin
  <2>2. /\ CommandOK(r) /\ r.pc = "next" /\ r.todo = Tail(cli[c].todo)
        /\ r.args = cli[c].args /\ r.op = cli[c].op /\ r.met = cli[c].met
    BY <1>1, <1>2, PluginDone DEF ListPcs
  <2>3. file[Head(cli[c].todo)] = WantedFile(cli[c])
    BY <1>1, <1>3 DEF WantedFile
  <2> HIDE DEF r
  <2> QED
    BY <1>1, <2>1, <2>2, <2>3, GoesOnKept
<1>4. CASE file[Head(cli[c].todo)] # "absent"
  <2> DEFINE r == [cli[c] EXCEPT !.pc = "remove"]
  <2>1. Update(c, r)
    BY <1>4 DEF UninstallPlugin
  <2>2. /\ CommandOK(r) /\ r.pc = "remove" /\ r.todo = cli[c].todo
        /\ r.args = cli[c].args /\ r.op = cli[c].op /\ r.met = cli[c].met
    BY <1>1, <1>2, PluginAt
  <2> HIDE DEF r
  <2> QED
    BY <1>1, <2>1, <2>2, GoesOnKept
<1> QED
  BY <1>3, <1>4

\* A JAR is moved into its place, a native plugin is created there.
LEMMA DownloadPluginKept ==
  ASSUME PluginInv, NEW c \in PluginClis, DownloadPlugin(c),
         UNCHANGED engineType, listDisturbed' \in BOOLEAN
  PROVE  PluginInv'
<1> DEFINE p == Head(cli[c].todo)
<1>1. /\ cli[c].pc = "download" /\ cli[c].todo # <<>> /\ cli[c].op # "uninstall"
      /\ UNCHANGED <<config, cut>> /\ Active(c) /\ CommandOK(cli[c])
  BY DEF DownloadPlugin, Active, PluginEnds, PluginInv, PluginTypes, CommandOK
<1>2. p \in Plugins /\ ToSet(cli[c].todo) \subseteq {p} \cup ToSet(Tail(cli[c].todo))
  BY <1>1, AtWork
<1>3. CASE UNCHANGED file /\ Fails(c)
  <2>1. FilesTyped'
    BY <1>1, <1>3 DEF PluginInv, PluginTypes, FilesTyped
  <2> QED
    BY <1>1, <1>3, <2>1, EndKept
<1>4. ASSUME NEW s \in {"whole", "partial"}, file' = [file EXCEPT ![p] = s] PROVE
        /\ FilesTyped' /\ file'[p] = s /\ \A q \in Plugins : q # p => file'[q] = file[q]
        /\ \A q \in Plugins : q # p /\ file'[q] = "partial" =>
             q \in cut' \/ \E d \in PluginClis \ {c} : UnpackingAt(d, q)
  <2>1. /\ file' \in [Plugins -> {"absent", "partial", "whole"}] /\ file'[p] = s
        /\ \A q \in Plugins : q # p => file'[q] = file[q]
    BY <1>2, <1>4 DEF PluginInv, PluginTypes
  <2> QED
    BY <1>1, <2>1 DEF PluginInv, PluginTypes, FilesTyped, PartialAccounted, UnpackingAt
<1>5. CASE engineType = "jvm" /\ file' = [file EXCEPT ![p] = "whole"]
           /\ Update(c, [cli[c] EXCEPT !.pc = "next", !.todo = Tail(@)])
  <2> DEFINE r == [cli[c] EXCEPT !.pc = "next", !.todo = Tail(@)]
  <2>1. /\ CommandOK(r) /\ r.pc = "next" /\ r.todo = Tail(cli[c].todo)
        /\ r.args = cli[c].args /\ r.op = cli[c].op /\ r.met = cli[c].met
    BY <1>1, PluginDone DEF ListPcs
  <2>2. Update(c, r)
    BY <1>5
  <2> HIDE DEF r
  <2>3. cli'[c] = r
    BY <2>1, <2>2, OneMoves DEF PluginInv
  <2>4. ToSet(cli[c].args) \subseteq Plugins
    BY <1>1, CommandShape DEF ToSet
  <2>5. ~r.met => HandledOf(c)'
    BY <1>1, <1>2, <1>4, <1>5, <2>1, <2>3, <2>4, AtWork DEF HandledOf, WantedFile
  <2>6. FilesTyped' /\ file'[p] = "whole"
    BY <1>4, <1>5
  <2> QED
    BY <1>1, <1>2, <1>4, <1>5, <2>1, <2>2, <2>5, <2>6, StepOfOne
<1>6. CASE file' = [file EXCEPT ![p] = "partial"] /\ Update(c, [cli[c] EXCEPT !.pc = "unpack"])
  <2> DEFINE r == [cli[c] EXCEPT !.pc = "unpack"]
  <2>1. /\ CommandOK(r) /\ r.pc = "unpack" /\ r.todo = cli[c].todo
        /\ r.args = cli[c].args /\ r.op = cli[c].op /\ r.met = cli[c].met
    BY <1>1, PluginAt
  <2>2. Update(c, r)
    BY <1>6
  <2> HIDE DEF r
  <2>3. cli'[c] = r
    BY <2>1, <2>2, OneMoves DEF PluginInv
  <2>4. ToSet(cli[c].args) \subseteq Plugins
    BY <1>1, CommandShape DEF ToSet
  <2>5. FilesTyped' /\ file'[p] = "partial" /\ \A q \in Plugins : q # p => file'[q] = file[q]
    BY <1>4, <1>6
  <2>6. p \in ToSet(cli[c].todo)
    BY <1>1, CommandShape DEF ToSet
  <2>7. ~r.met => HandledOf(c)'
    BY <1>1, <2>1, <2>3, <2>4, <2>5, <2>6, AtWork DEF HandledOf, WantedFile
  <2> QED
    BY <1>1, <1>4, <1>6, <2>1, <2>2, <2>5, <2>7, StepOfOne
<1> QED
  BY <1>3, <1>5, <1>6 DEF DownloadPlugin

\* A plugin is unpacked or copied, or cut short.
LEMMA UnpackPluginKept ==
  ASSUME PluginInv, NEW c \in PluginClis, UnpackPlugin(c),
         UNCHANGED engineType, listDisturbed' \in BOOLEAN
  PROVE  PluginInv'
<1> DEFINE p == Head(cli[c].todo)
           shared == \E d \in PluginClis \ {c} : cli[d].pc = "unpack" /\ Head(cli[d].todo) = p
           states == {"whole"} \cup (IF shared THEN {"partial"} ELSE {})
           r == [cli[c] EXCEPT !.pc = "next", !.todo = Tail(@)]
<1>1. /\ cli[c].pc = "unpack" /\ cli[c].todo # <<>> /\ cli[c].op # "uninstall"
      /\ UNCHANGED config /\ Active(c) /\ CommandOK(cli[c])
  BY DEF UnpackPlugin, Active, PluginEnds, PluginInv, PluginTypes, CommandOK
<1>2. p \in Plugins /\ ToSet(cli[c].todo) \subseteq {p} \cup ToSet(Tail(cli[c].todo))
  BY <1>1, AtWork
<1>3. CASE cut' = cut \cup {p} /\ Fails(c) /\ UNCHANGED file
  <2>1. FilesTyped'
    BY <1>1, <1>2, <1>3 DEF PluginInv, PluginTypes, FilesTyped
  <2> QED
    BY <1>1, <1>3, <2>1, EndKept
<1>4. ASSUME NEW s \in states, file' = [file EXCEPT ![p] = IF @ = "absent" THEN @ ELSE s],
             Update(c, r), UNCHANGED cut
      PROVE  PluginInv'
  <2>1. s \in {"whole", "partial"} /\ (s = "partial" => \E d \in PluginClis \ {c} : UnpackingAt(d, p))
    BY DEF UnpackingAt
  <2>2. /\ file' \in [Plugins -> {"absent", "partial", "whole"}]
        /\ file'[p] = IF file[p] = "absent" THEN "absent" ELSE s
        /\ \A q \in Plugins : q # p => file'[q] = file[q]
    BY <1>2, <1>4, <2>1 DEF PluginInv, PluginTypes
  <2>3. FilesTyped'
    BY <1>1, <1>4, <2>2 DEF PluginInv, PluginTypes, FilesTyped
  <2>4. /\ CommandOK(r) /\ r.pc = "next" /\ r.todo = Tail(cli[c].todo)
        /\ r.args = cli[c].args /\ r.op = cli[c].op /\ r.met = cli[c].met
    BY <1>1, PluginDone DEF ListPcs
  <2> HIDE DEF r, states
  <2>5. cli'[c] = r
    BY <1>4, <2>4, OneMoves DEF PluginInv
  <2>6. ToSet(cli[c].args) \subseteq Plugins
    BY <1>1, CommandShape DEF ToSet
  <2>7. ~r.met => HandledOf(c)'
    <3>1. ~r.met => s = "whole" /\ file[p] # "absent"
      BY <1>1, <2>1, <2>4, AtWork DEF HandledOf, UnpackingAt, Active, PluginEnds
    <3> QED
      BY <1>1, <1>2, <1>4, <2>2, <2>4, <2>5, <2>6, <3>1, AtWork DEF HandledOf, WantedFile
  <2>8. \A q \in Plugins : file'[q] = "partial" => q \in cut' \/ \E d \in PluginClis \ {c} : UnpackingAt(d, q)
    <3>1. \A q \in Plugins : q # p /\ file[q] = "partial" => q \in cut \/ \E d \in PluginClis \ {c} : UnpackingAt(d, q)
      BY DEF PluginInv, PartialAccounted, UnpackingAt
    <3> QED
      BY <1>4, <2>1, <2>2, <3>1
  <2> QED
    BY <1>1, <1>4, <2>3, <2>4, <2>7, <2>8, StepOfOne
<1> QED
  BY <1>3, <1>4 DEF UnpackPlugin

\* A plugin is removed, unless another command was faster.
LEMMA RemovePluginKept ==
  ASSUME PluginInv, NEW c \in PluginClis, RemovePlugin(c),
         UNCHANGED engineType, listDisturbed' \in BOOLEAN
  PROVE  PluginInv'
<1> DEFINE p == Head(cli[c].todo)
           r == [cli[c] EXCEPT !.pc = "next", !.todo = Tail(@)]
<1>1. /\ cli[c].pc = "remove" /\ cli[c].todo # <<>> /\ cli[c].op = "uninstall"
      /\ UNCHANGED <<config, cut>> /\ Active(c) /\ CommandOK(cli[c])
  BY DEF RemovePlugin, Active, PluginEnds, PluginInv, PluginTypes, CommandOK
<1>2. p \in Plugins /\ ToSet(cli[c].todo) \subseteq {p} \cup ToSet(Tail(cli[c].todo))
  BY <1>1, AtWork
<1>3. CASE file[p] = "absent"
  <2>1. Fails(c) /\ UNCHANGED file
    BY <1>3 DEF RemovePlugin
  <2>2. FilesTyped'
    BY <1>1, <2>1 DEF PluginInv, PluginTypes, FilesTyped
  <2> QED
    BY <1>1, <2>1, <2>2, EndKept
<1>4. CASE file[p] # "absent"
  <2>1. file' = [file EXCEPT ![p] = "absent"] /\ Update(c, r)
    BY <1>4 DEF RemovePlugin
  <2>2. /\ file' \in [Plugins -> {"absent", "partial", "whole"}]
        /\ file'[p] = "absent" /\ \A q \in Plugins : q # p => file'[q] = file[q]
    BY <1>2, <2>1 DEF PluginInv, PluginTypes
  <2>3. FilesTyped'
    BY <1>1, <2>2 DEF PluginInv, PluginTypes, FilesTyped
  <2>4. /\ CommandOK(r) /\ r.pc = "next" /\ r.todo = Tail(cli[c].todo)
        /\ r.args = cli[c].args /\ r.op = cli[c].op /\ r.met = cli[c].met
    BY <1>1, PluginDone DEF ListPcs
  <2> HIDE DEF r
  <2>5. cli'[c] = r
    BY <2>1, <2>4, OneMoves DEF PluginInv
  <2>6. ToSet(cli[c].args) \subseteq Plugins
    BY <1>1, CommandShape DEF ToSet
  <2>7. ~r.met => HandledOf(c)'
    BY <1>1, <1>2, <2>2, <2>4, <2>5, <2>6, AtWork DEF HandledOf, WantedFile
  <2>8. \A q \in Plugins : file'[q] = "partial" => q \in cut' \/ \E d \in PluginClis \ {c} : UnpackingAt(d, q)
    BY <1>1, <2>2 DEF PluginInv, PartialAccounted, UnpackingAt
  <2> QED
    BY <1>1, <2>1, <2>3, <2>4, <2>7, <2>8, StepOfOne
<1> QED
  BY <1>3, <1>4

\* A command that is killed cuts short what it unpacks.
LEMMA KilledKept ==
  ASSUME PluginInv, NEW c \in PluginClis, PluginCliKilled(c),
         UNCHANGED engineType, listDisturbed' \in BOOLEAN
  PROVE  PluginInv'
<1>1. /\ Active(c) /\ Fails(c) /\ UNCHANGED <<file, config>> /\ CommandOK(cli[c])
      /\ cut' = cut \cup (IF cli[c].pc = "unpack" THEN {Head(cli[c].todo)} ELSE {})
  BY DEF PluginCliKilled, PluginInv, PluginTypes
<1>2. cli[c].pc = "unpack" => Head(cli[c].todo) \in Plugins
  BY <1>1, AtWork DEF CommandOK
<1>3. FilesTyped'
  BY <1>1, <1>2 DEF PluginInv, PluginTypes, FilesTyped
<1> QED
  BY <1>1, <1>3, EndKept

\* A command goes to work on the list.
LEMMA ListingAt ==
  ASSUME NEW r, NEW pc \in ListPcs, NEW new \in Seq(Plugins), NEW mem \in CliConfigs,
         CommandOK(r), r.todo = <<>>, r.save,
         pc = "listDefaults" \/ AsAsked(r, new),
         pc \in {"listDefaults", "parse"} \/ (mem.plugins = new /\ mem.deprecated = <<>>)
  PROVE  CommandOK([r EXCEPT !.pc = pc, !.new = new, !.mem = mem])
<1> DEFINE n == [r EXCEPT !.pc = pc, !.new = new, !.mem = mem]
<1>1. r \in PluginCommand /\ pc \in PluginPcs /\ pc \in {"listDefaults", "parse", "truncate", "fill"}
  BY DEF CommandOK, PluginPcs, ListPcs
<1>2. /\ n \in PluginCommand /\ n.pc = pc /\ n.todo = r.todo /\ n.new = new /\ n.mem = mem
      /\ n.args = r.args /\ n.op = r.op /\ n.met = r.met
  BY <1>1 DEF PluginCommand
<1>3. n.save = r.save
  BY <1>1 DEF PluginCommand
<1>4. AsAsked(r, new) => AsAsked(n, n.new)
  BY <1>2 DEF AsAsked
<1> QED
  BY <1>1, <1>2, <1>3, <1>4 DEF CommandOK

\* All plugins are handled: the command is done or goes on to the list.
LEMMA PluginsHandledKept ==
  ASSUME PluginInv, NEW c \in PluginClis, PluginsHandled(c),
         UNCHANGED engineType, listDisturbed' \in BOOLEAN
  PROVE  PluginInv'
<1>1. /\ cli[c].pc = "next" /\ cli[c].todo = <<>> /\ Active(c) /\ CommandOK(cli[c])
      /\ UNCHANGED <<config, file, cut>> /\ FilesTyped'
  BY DEF PluginsHandled, FilesKept, Active, PluginEnds, PluginInv, PluginTypes, FilesTyped
<1>2. CASE Done(c)
  BY <1>1, <1>2, EndKept
<1>3. CASE cli[c].save /\ Update(c, [cli[c] EXCEPT !.pc = "listDefaults"])
  <2> DEFINE r == [cli[c] EXCEPT !.pc = "listDefaults"]
  <2>1. /\ cli[c] \in PluginCommand /\ cli[c].new \in Seq(Plugins) /\ cli[c].mem \in CliConfigs
        /\ "listDefaults" \in ListPcs
    BY <1>1, CommandShape DEF CommandOK, ListPcs
  <2>2. r = [cli[c] EXCEPT !.pc = "listDefaults", !.new = cli[c].new, !.mem = cli[c].mem]
    BY <2>1 DEF PluginCommand
  <2>4. Update(c, r)
    BY <1>3
  <2> HIDE DEF r
  <2>3. /\ CommandOK(r) /\ r.pc = "listDefaults" /\ r.todo = cli[c].todo
        /\ r.args = cli[c].args /\ r.op = cli[c].op /\ r.met = cli[c].met
    <3>1. cli[c].todo = <<>> /\ CommandOK(cli[c])
      BY <1>1
    <3>2. cli[c].save
      BY <1>3
    <3>3. CommandOK(r)
      BY <2>1, <2>2, <3>1, <3>2, ListingAt
    <3> QED
      BY <2>1, <2>2, <3>3 DEF PluginCommand
  <2> QED
    BY <1>1, <2>3, <2>4, GoesOnKept
<1> QED
  BY <1>2, <1>3 DEF PluginsHandled

\* The list a command would write does what it was asked for.
LEMMA NewList ==
  ASSUME PluginTypes, NEW c \in PluginClis,
         NEW existing, existing = ConfiguredPlugins(ParseConfigFile),
         NEW updated, updated = IF cli[c].op = "uninstall" THEN RemoveDefaultPlugins(existing, cli[c].args)
                                ELSE AddDefaultPlugins(existing, cli[c].args)
  PROVE  /\ existing \in Seq(Plugins) /\ updated \in Seq(Plugins) /\ AsAsked(cli[c], updated)
         /\ /\ Len(existing) = Len(updated)
            /\ cli[c].op # "uninstall" => IsInjective(existing)
            => AsAsked(cli[c], existing)
<1>1. existing \in Seq(Plugins) /\ cli[c].args \in Seq(Plugins)
  BY Parsed, CommandShape DEF PluginTypes
<1>2. CASE cli[c].op = "uninstall"
  <2>1. updated = RemoveDefaultPlugins(existing, cli[c].args)
    BY <1>2
  <2>2. /\ updated \in Seq(Plugins) /\ ToSet(updated) \cap ToSet(cli[c].args) = {}
        /\ Len(existing) = Len(updated) => ToSet(existing) \cap ToSet(cli[c].args) = {}
    BY <1>1, <2>1, Removed
  <2> QED
    BY <1>1, <1>2, <2>2 DEF AsAsked
<1>3. CASE cli[c].op # "uninstall"
  <2>1. updated = CombineUnique(existing, cli[c].args)
    BY <1>3 DEF AddDefaultPlugins
  <2>2. /\ updated \in Seq(Plugins) /\ ToSet(updated) = ToSet(existing) \cup ToSet(cli[c].args)
        /\ IsInjective(existing) /\ Len(existing) = Len(updated) => ToSet(cli[c].args) \subseteq ToSet(existing)
    BY <1>1, <2>1, Added
  <2> QED
    BY <1>1, <1>3, <2>2 DEF AsAsked
<1> QED
  BY <1>2, <1>3

\* The list is as it should be or has to be written.
LEMMA ListDefaultPluginsKept ==
  ASSUME PluginInv, NEW c \in PluginClis, ListDefaultPlugins(c),
         UNCHANGED engineType, listDisturbed' \in BOOLEAN
  PROVE  PluginInv'
<1> DEFINE existing == ConfiguredPlugins(ParseConfigFile)
           updated == IF cli[c].op = "uninstall" THEN RemoveDefaultPlugins(existing, cli[c].args)
                      ELSE AddDefaultPlugins(existing, cli[c].args)
           r == [cli[c] EXCEPT !.pc = "parse", !.new = updated]
<1>1. /\ cli[c].pc = "listDefaults" /\ cli[c].todo = <<>> /\ cli[c].save /\ Active(c) /\ CommandOK(cli[c])
      /\ UNCHANGED <<config, file, cut>> /\ FilesTyped'
  BY DEF ListDefaultPlugins, FilesKept, Active, PluginEnds, PluginInv, PluginTypes, FilesTyped,
     CommandOK, ListPcs
<1>2. updated \in Seq(Plugins) /\ AsAsked(cli[c], updated)
  BY NewList DEF PluginInv
<1>3. Done(c) \/ Update(c, r)
  BY DEF ListDefaultPlugins
<1> HIDE DEF updated, existing
<1>4. CASE Done(c)
  BY <1>1, <1>4, EndKept
<1>5. CASE Update(c, r)
  <2>1. cli[c] \in PluginCommand /\ cli[c].mem \in CliConfigs /\ "parse" \in ListPcs
    BY <1>1, CommandShape DEF CommandOK, ListPcs
  <2>2. r = [cli[c] EXCEPT !.pc = "parse", !.new = updated, !.mem = cli[c].mem]
    BY <1>2, <2>1 DEF PluginCommand
  <2> HIDE DEF r
  <2>3. /\ CommandOK(r) /\ r.pc = "parse" /\ r.todo = cli[c].todo
        /\ r.args = cli[c].args /\ r.op = cli[c].op /\ r.met = cli[c].met
    <3>1. cli[c].todo = <<>> /\ CommandOK(cli[c])
      BY <1>1
    <3>2. cli[c].save
      BY <1>1
    <3>3. updated \in Seq(Plugins) /\ AsAsked(cli[c], updated)
      BY <1>2
    <3>4. CommandOK(r)
      BY <2>1, <2>2, <3>1, <3>2, <3>3, ListingAt
    <3> QED
      BY <2>1, <2>2, <3>4 DEF PluginCommand
  <2> QED
    BY <1>1, <1>5, <2>3, GoesOnKept
<1> QED
  BY <1>3, <1>4, <1>5

\* What is written to the file: the new list, and the other settings as they were parsed.
LEMMA ParseForWriteKept ==
  ASSUME PluginInv, NEW c \in PluginClis, ParseForWrite(c),
         UNCHANGED engineType, listDisturbed' \in BOOLEAN
  PROVE  PluginInv' /\ (config # Unparsed => cli'[c].mem.others = config.others)
<1> DEFINE mem == [ParseConfigFile EXCEPT !.plugins = cli[c].new, !.deprecated = <<>>]
           r == [cli[c] EXCEPT !.pc = "truncate", !.mem = mem]
<1>1. /\ cli[c].pc = "parse" /\ cli[c].todo = <<>> /\ cli[c].save /\ Active(c) /\ CommandOK(cli[c])
      /\ UNCHANGED <<config, file, cut>> /\ FilesTyped' /\ AsAsked(cli[c], cli[c].new) /\ Update(c, r)
  BY DEF ParseForWrite, FilesKept, Active, PluginEnds, PluginInv, PluginTypes, FilesTyped,
     CommandOK, ListPcs
<1>2. cli[c] \in PluginCommand /\ cli[c].new \in Seq(Plugins) /\ "truncate" \in ListPcs
  BY <1>1, CommandShape DEF CommandOK, ListPcs
<1>3. ParseConfigFile \in CliConfigs
  BY Parsed DEF PluginInv
<1>4. /\ mem \in CliConfigs /\ mem.plugins = cli[c].new /\ mem.deprecated = <<>>
      /\ mem.others = ParseConfigFile.others
  <2>1. <<>> \in Seq(Plugins)
    OBVIOUS
  <2>2. mem \in CliConfigs /\ mem.plugins = cli[c].new /\ mem.deprecated = <<>>
    BY <1>2, <1>3, <2>1 DEF CliConfigs
  <2>3. mem.others = ParseConfigFile.others
    BY <1>3 DEF CliConfigs
  <2> QED
    BY <2>2, <2>3
<1>5. config # Unparsed => mem.others = config.others
  BY <1>4 DEF ParseConfigFile
<1> HIDE DEF mem
<1>6. CommandOK(cli[c]) /\ cli[c].todo = <<>> /\ AsAsked(cli[c], cli[c].new)
  BY <1>1
<1>7. cli[c].save
  BY <1>1
<1>8. r = [cli[c] EXCEPT !.pc = "truncate", !.new = cli[c].new, !.mem = mem]
  BY <1>2, <1>4 DEF PluginCommand
<1> HIDE DEF r
<1>9. /\ CommandOK(r) /\ r.pc = "truncate" /\ r.todo = cli[c].todo /\ r.mem = mem
      /\ r.args = cli[c].args /\ r.op = cli[c].op /\ r.met = cli[c].met
  <2>1. CommandOK(r)
    BY <1>2, <1>4, <1>6, <1>7, <1>8, ListingAt
  <2> QED
    BY <1>2, <1>4, <1>8, <2>1 DEF PluginCommand
<1>10. cli'[c].mem = mem
  BY <1>1, <1>9, OneMoves DEF PluginInv
<1> QED
  BY <1>1, <1>5, <1>9, <1>10, GoesOnKept

\* The file is truncated, and its content in hand.
LEMMA TruncateConfigKept ==
  ASSUME PluginInv, NEW c \in PluginClis, TruncateConfig(c),
         UNCHANGED engineType, listDisturbed' \in BOOLEAN
  PROVE  PluginInv' /\ cli'[c].pc = "fill" /\ cli'[c].mem = cli[c].mem
<1> DEFINE r == [cli[c] EXCEPT !.pc = "fill"]
<1>1. /\ cli[c].pc = "truncate" /\ cli[c].todo = <<>> /\ cli[c].save /\ Active(c) /\ CommandOK(cli[c])
      /\ UNCHANGED <<file, cut>> /\ FilesTyped' /\ AsAsked(cli[c], cli[c].new) /\ Update(c, r)
      /\ cli[c].mem.plugins = cli[c].new /\ cli[c].mem.deprecated = <<>>
  BY DEF TruncateConfig, FilesKept, Active, PluginEnds, PluginInv, PluginTypes, FilesTyped,
     CommandOK, ListPcs
<1>2. /\ cli[c] \in PluginCommand /\ cli[c].new \in Seq(Plugins) /\ cli[c].mem \in CliConfigs
      /\ "fill" \in ListPcs
  BY <1>1, CommandShape DEF CommandOK, ListPcs
<1>3. CommandOK(cli[c]) /\ cli[c].todo = <<>> /\ AsAsked(cli[c], cli[c].new)
  BY <1>1
<1>4. cli[c].save
  BY <1>1
<1>5. cli[c].mem.plugins = cli[c].new /\ cli[c].mem.deprecated = <<>>
  BY <1>1
<1>6. r = [cli[c] EXCEPT !.pc = "fill", !.new = cli[c].new, !.mem = cli[c].mem]
  BY <1>2 DEF PluginCommand
<1> HIDE DEF r
<1>7. /\ CommandOK(r) /\ r.pc = "fill" /\ r.todo = cli[c].todo /\ r.mem = cli[c].mem
      /\ r.args = cli[c].args /\ r.op = cli[c].op /\ r.met = cli[c].met
  <2>1. CommandOK(r)
    BY <1>2, <1>3, <1>4, <1>5, <1>6, ListingAt
  <2> QED
    BY <1>2, <1>6, <2>1 DEF PluginCommand
<1>8. cli'[c] = r
  BY <1>1, <1>7, OneMoves DEF PluginInv
<1> QED
  BY <1>1, <1>7, <1>8, GoesOnKept

\* The file is written.
LEMMA WriteConfigKept ==
  ASSUME PluginInv, NEW c \in PluginClis, WriteConfig(c),
         UNCHANGED engineType, listDisturbed' \in BOOLEAN
  PROVE  PluginInv'
<1>1. /\ cli[c].pc = "fill" /\ Active(c) /\ Done(c) /\ CommandOK(cli[c]) /\ UNCHANGED <<file, cut>>
      /\ config' \in {cli[c].mem, Unparsed}
  BY DEF WriteConfig, FilesKept, Active, PluginEnds, PluginInv, PluginTypes
<1>2. cli[c].mem \in CliConfigs
  BY <1>1, CommandShape
<1>3. FilesTyped'
  BY <1>1, <1>2 DEF PluginInv, PluginTypes, FilesTyped
<1> QED
  BY <1>1, <1>3, EndKept

\* The file is not written, and the command ends all the same.
LEMMA NotSavedKept ==
  ASSUME PluginInv, NEW c \in PluginClis, ListNotOpened(c) \/ ListNotWritten(c),
         UNCHANGED engineType, listDisturbed' \in BOOLEAN
  PROVE  PluginInv'
<1>1. /\ cli[c].pc \in {"truncate", "fill"} /\ Active(c) /\ Done(c) /\ UNCHANGED <<config, file, cut>>
  BY DEF ListNotOpened, ListNotWritten, WriteConfigAsFails, FilesKept, Active, PluginEnds
<1>2. FilesTyped'
  BY <1>1 DEF PluginInv, PluginTypes, FilesTyped
<1> QED
  BY <1>1, <1>2, EndKept

\* A command starts, and meets those that are running.
LEMMA BeginKept ==
  ASSUME PluginInv, NEW c \in PluginClis, NEW cmd \in Commands, NEW args \in Seq(Plugins),
         cmd.op # "up" => args # <<>>, Begin(c, cmd, args),
         UNCHANGED engineType, listDisturbed' \in BOOLEAN
  PROVE  /\ PluginInv' /\ cli'[c].pc = "next"
         /\ \A d \in PluginClis : d # c => cli'[d].pc = cli[d].pc /\ cli'[d].mem = cli[d].mem
<1> DEFINE met == \E e \in PluginClis : Active(e)
           new == [NoCommand EXCEPT !.pc = "next", !.op = cmd.op, !.args = args, !.todo = args,
                     !.save = cmd.save, !.met = met]
           other(d) == [cli[d] EXCEPT !.met = @ \/ Active(d)]
<1>1. /\ ~Active(c) /\ cli' = [d \in PluginClis |-> IF d = c THEN new ELSE other(d)]
      /\ UNCHANGED <<config, file, cut>>
  BY DEF Begin, FilesKept
<1>2. FilesTyped'
  BY <1>1 DEF PluginInv, PluginTypes, FilesTyped
<1>3. met \in BOOLEAN
  OBVIOUS
<1>4. CommandOK(new) /\ new.pc = "next" /\ new.args = args /\ new.todo = args /\ new.met = met
  <2>1. /\ cmd.op \in {"up", "install", "uninstall"} /\ cmd.save \in BOOLEAN
        /\ cmd.op = "up" => ~cmd.save
    BY CommandsAssumption
  <2> HIDE DEF met
  <2>2. NoCommand \in PluginCommand /\ "next" \in PluginPcs
    BY NoCommandOK DEF CommandOK, PluginPcs
  <2>3. cmd.op \in {"none", "up", "install", "uninstall"}
    BY <2>1
  <2>4. new \in PluginCommand
    BY <1>3, <2>1, <2>2, <2>3 DEF PluginCommand
  <2>5. /\ new.pc = "next" /\ new.args = args /\ new.todo = args /\ new.met = met
        /\ new.save = cmd.save
    BY <2>2 DEF PluginCommand
  <2> QED
    BY <2>1, <2>4, <2>5 DEF CommandOK, ListPcs
<1>5. ASSUME NEW d \in PluginClis
      PROVE  /\ CommandOK(other(d)) /\ other(d).met = (cli[d].met \/ Active(d))
             /\ other(d).pc = cli[d].pc /\ other(d).args = cli[d].args /\ other(d).todo = cli[d].todo
             /\ other(d).op = cli[d].op /\ other(d).mem = cli[d].mem
  <2> DEFINE m == cli[d].met \/ Active(d)
  <2>1. cli[d] \in PluginCommand /\ CommandOK(cli[d])
    BY DEF PluginInv, PluginTypes, CommandOK
  <2>2. m \in BOOLEAN
    OBVIOUS
  <2>3. other(d) = [cli[d] EXCEPT !.met = m]
    BY <2>1, Zenon DEF PluginCommand
  <2> HIDE DEF m, other
  <2>4. /\ other(d) \in PluginCommand /\ other(d).met = m
        /\ other(d).pc = cli[d].pc /\ other(d).args = cli[d].args /\ other(d).todo = cli[d].todo
        /\ other(d).op = cli[d].op /\ other(d).mem = cli[d].mem /\ other(d).new = cli[d].new
    BY <2>1, <2>2, <2>3 DEF PluginCommand
  <2>5. other(d).save = cli[d].save
    BY <2>1, <2>3 DEF PluginCommand
  <2>6. AsAsked(cli[d], cli[d].new) => AsAsked(other(d), other(d).new)
    BY <2>4 DEF AsAsked
  <2>7. CommandOK(other(d))
    BY <2>1, <2>4, <2>5, <2>6 DEF CommandOK
  <2> QED
    BY <2>4, <2>7 DEF m
<1>6. /\ cli'[c] = new /\ \A d \in PluginClis : d # c => cli'[d] = other(d)
      /\ DOMAIN cli' = PluginClis
  BY <1>1
<1> HIDE DEF new, other
<1>7. PluginTypes'
  <2>1. \A d \in PluginClis : CommandOK(cli'[d])
    BY <1>4, <1>5, <1>6
  <2>2. cli' \in [PluginClis -> PluginCommand]
    BY <1>1, <2>1, <1>6 DEF CommandOK
  <2> QED
    BY <1>2, <1>6, <2>1, <2>2 DEF PluginTypes, FilesTyped
<1>8. \A d \in PluginClis : d # c => (Active(d)' <=> Active(d)) /\ (Active(d) => cli'[d].met)
  <2> SUFFICES ASSUME NEW d \in PluginClis, d # c
               PROVE  (Active(d)' <=> Active(d)) /\ (Active(d) => cli'[d].met)
    OBVIOUS
  <2>1. cli'[d] = other(d)
    BY <1>6
  <2>2. cli'[d].pc = cli[d].pc /\ cli'[d].met = (cli[d].met \/ Active(d))
    BY <1>5, <2>1
  <2>3. Active(d)' <=> Active(d)
    BY <2>2 DEF Active
  <2>4. Active(d) => cli'[d].met
    BY <2>2, Zenon
  <2> QED
    BY <2>3, <2>4
<1>9. MetTogether'
  <2> SUFFICES ASSUME NEW d \in PluginClis, NEW e \in PluginClis, d # e, Active(d)', Active(e)'
               PROVE  cli'[d].met
    BY DEF MetTogether
  <2>1. CASE d # c
    BY <1>8, <2>1
  <2>2. CASE d = c
    BY <1>4, <1>6, <1>8, <2>2
  <2> QED
    BY <2>1, <2>2
<1>10. PartialAccounted'
  <2>1. \A d \in PluginClis, p \in Plugins : UnpackingAt(d, p) => d # c /\ UnpackingAt(d, p)'
    <3> SUFFICES ASSUME NEW d \in PluginClis, NEW p \in Plugins, UnpackingAt(d, p)
                 PROVE  d # c /\ UnpackingAt(d, p)'
      OBVIOUS
    <3>1. d # c
      BY <1>1 DEF UnpackingAt, Active, PluginEnds
    <3> QED
      BY <1>5, <1>6, <3>1 DEF UnpackingAt
  <2> QED
    BY <1>1, <2>1 DEF PartialAccounted, PluginInv
<1>11. PluginsHandledSoFar'
  <2> SUFFICES ASSUME NEW d \in PluginClis, Active(d)', ~cli'[d].met PROVE HandledOf(d)'
    BY DEF PluginsHandledSoFar
  <2>1. d = c
    BY <1>8
  <2> QED
    BY <1>4, <1>6, <2>1 DEF HandledOf
<1> QED
  BY <1>4, <1>5, <1>6, <1>7, <1>9, <1>10, <1>11 DEF PluginInv

\* So it is for each of the commands.
LEMMA BeginsKept ==
  ASSUME PluginInv, NEW c \in PluginClis, NEW cmd \in Commands,
         EnsurePlugins(c, cmd) \/ EnsureConfiguredPlugins(c, cmd) \/ UninstallPlugins(c, cmd),
         UNCHANGED engineType, listDisturbed' \in BOOLEAN
  PROVE  /\ PluginInv' /\ cli'[c].pc = "next" /\ cli[c].pc \in PluginEnds /\ UNCHANGED config
         /\ \A d \in PluginClis : d # c => cli'[d].pc = cli[d].pc /\ cli'[d].mem = cli[d].mem
<1>1. cmd.args \in Seq(Plugins) /\ (cmd.op # "up" => cmd.args # <<>>)
  BY CommandsAssumption
<1>2. ParseConfigFile.plugins \in Seq(Plugins) /\ ParseConfigFile.deprecated \in Seq(Plugins)
  BY Parsed DEF PluginInv
<1>3. Unique(ParseConfigFile.plugins \o ParseConfigFile.deprecated) \in Seq(Plugins)
  BY <1>2, UniqueIs, ToSetConcat
<1>4. PICK args \in Seq(Plugins) : (cmd.op # "up" => args # <<>>) /\ Begin(c, cmd, args)
  BY <1>1, <1>3 DEF EnsurePlugins, EnsureConfiguredPlugins, UninstallPlugins
<1>5. cli[c].pc \in PluginEnds /\ UNCHANGED config
  BY <1>4 DEF Begin, Active
<1> QED
  BY <1>4, <1>5, BeginKept

\* At first no command runs and no plugin is installed.
LEMMA PluginInvInit == PluginInit => PluginInv /\ ListInv
<1> SUFFICES ASSUME PluginInit PROVE PluginInv /\ ListInv
  OBVIOUS
<1>1. \A c \in PluginClis : cli[c] = NoCommand
  BY DEF PluginInit
<1>2. NoCommand.pc = "idle" /\ NoCommand \in PluginCommand
  BY NoCommandOK, AtRest DEF CommandOK
<1>3. config \in CliConfigs /\ config # Unparsed /\ config.others
  BY ConfigsAssumption, UnparsedAssumption DEF PluginInit
<1>4. PluginTypes
  BY <1>1, <1>2, <1>3, NoCommandOK DEF PluginInit, PluginTypes
<1>5. ~TwoListing
  BY <1>1, <1>2 DEF TwoListing, Listing, ListPcs
<1> QED
  BY <1>1, <1>2, <1>3, <1>4, <1>5
     DEF PluginInit, PluginInv, ListInv, MetTogether, PartialAccounted, PluginsHandledSoFar,
         Active, PluginEnds

\* Every step keeps the invariant of the files and the commands.
LEMMA PluginInvNext ==
  PluginInv /\ [PluginNext]_pluginVars => PluginInv'
<1> SUFFICES ASSUME PluginInv, [PluginNext]_pluginVars PROVE PluginInv'
  OBVIOUS
<1>1. CASE UNCHANGED pluginVars
  BY <1>1
     DEF pluginVars, PluginInv, PluginTypes, MetTogether, PartialAccounted, PluginsHandledSoFar,
              HandledOf, WantedFile, UnpackingAt, Active
<1>2. CASE PluginNext
  <2>1. UNCHANGED engineType
    BY <1>2 DEF PluginNext
  <2>2. listDisturbed' \in BOOLEAN
    <3>1. listDisturbed' = (\/ listDisturbed \/ TwoListing' \/ KilledListing
                            \/ \E d \in PluginClis : ListNotWritten(d))
      BY <1>2 DEF PluginNext
    <3> QED
      BY <3>1, Zenon
  <2>3. PICK c \in PluginClis :
         \/ \E cmd \in Commands :
              EnsurePlugins(c, cmd) \/ EnsureConfiguredPlugins(c, cmd) \/ UninstallPlugins(c, cmd)
         \/ EnsurePlugin(c) \/ DownloadPlugin(c) \/ UnpackPlugin(c)
         \/ UninstallPlugin(c) \/ RemovePlugin(c) \/ PluginsHandled(c)
         \/ ListDefaultPlugins(c) \/ ParseForWrite(c) \/ TruncateConfig(c) \/ WriteConfig(c)
         \/ ListNotOpened(c) \/ ListNotWritten(c) \/ PluginCliKilled(c)
    BY <1>2 DEF PluginNext
  <2> QED
    BY <2>1, <2>2, <2>3, BeginsKept, EnsurePluginKept, DownloadPluginKept, UnpackPluginKept,
       UninstallPluginKept, RemovePluginKept, PluginsHandledKept, ListDefaultPluginsKept,
       ParseForWriteKept, TruncateConfigKept, WriteConfigKept, NotSavedKept, KilledKept
<1> QED
  BY <1>1, <1>2

\* While the list is undisturbed a command that is at it is there alone.
LEMMA ListAlone ==
  ASSUME ListInv, ~listDisturbed, NEW c \in PluginClis, cli[c].pc \in ListPcs
  PROVE  /\ \A d \in PluginClis : cli[d].pc \in ListPcs => d = c
         /\ config = Unparsed <=> cli[c].pc = "fill"
<1>1. \A d \in PluginClis : cli[d].pc \in ListPcs => d = c
  BY DEF ListInv, TwoListing, Listing
<1> QED
  BY <1>1 DEF ListInv, ListPcs

\* A step that leaves the file alone, and with it what is being written to it.
LEMMA ListQuiet ==
  ASSUME ListInv, ~listDisturbed, ~TwoListing', UNCHANGED config,
         \A d \in PluginClis : /\ cli'[d].pc = "fill" <=> cli[d].pc = "fill"
                               /\ cli'[d].pc \in {"truncate", "fill"} =>
                                    cli[d].pc \in {"truncate", "fill"} /\ cli'[d].mem = cli[d].mem
  PROVE  ListInv'
<1>1. /\ config = Unparsed <=> \E d \in PluginClis : cli[d].pc = "fill"
      /\ config # Unparsed => config.others
      /\ \A d \in PluginClis : cli[d].pc \in {"truncate", "fill"} => cli[d].mem.others
  BY DEF ListInv
<1>2. (config = Unparsed)' <=> (\E d \in PluginClis : cli[d].pc = "fill")'
  BY <1>1
<1>3. config' # Unparsed => config'.others
  BY <1>1
<1>4. \A d \in PluginClis : cli'[d].pc \in {"truncate", "fill"} => cli'[d].mem.others
  BY <1>1
<1> QED
  BY <1>2, <1>3, <1>4 DEF ListInv

\* Every step keeps the invariant of the list.
LEMMA ListInvNext ==
  PluginInv /\ ListInv /\ [PluginNext]_pluginVars => ListInv'
<1> SUFFICES ASSUME PluginInv, ListInv, [PluginNext]_pluginVars, ~listDisturbed' PROVE ListInv'
  BY DEF ListInv
<1>1. CASE UNCHANGED pluginVars
  BY <1>1 DEF pluginVars, ListInv, TwoListing, Listing
<1>2. CASE PluginNext
  <2>1. ~listDisturbed /\ ~TwoListing' /\ ~KilledListing /\ UNCHANGED engineType
    BY <1>2 DEF PluginNext
  <2>2. PICK c \in PluginClis :
         \/ \E cmd \in Commands :
              EnsurePlugins(c, cmd) \/ EnsureConfiguredPlugins(c, cmd) \/ UninstallPlugins(c, cmd)
         \/ EnsurePlugin(c) \/ DownloadPlugin(c) \/ UnpackPlugin(c)
         \/ UninstallPlugin(c) \/ RemovePlugin(c) \/ PluginsHandled(c)
         \/ ListDefaultPlugins(c) \/ ParseForWrite(c) \/ TruncateConfig(c) \/ WriteConfig(c)
         \/ ListNotOpened(c) \/ ListNotWritten(c) \/ PluginCliKilled(c)
    BY <1>2 DEF PluginNext
  <2>3. \A d \in PluginClis : CommandOK(cli[d]) /\ cli[d] \in PluginCommand
    BY DEF PluginInv, PluginTypes, CommandOK
  <2>4. DOMAIN cli = PluginClis
    BY DEF PluginInv, PluginTypes
  <2>5. listDisturbed' \in BOOLEAN
    <3>1. listDisturbed' = (\/ listDisturbed \/ TwoListing' \/ KilledListing
                            \/ \E d \in PluginClis : ListNotWritten(d))
      BY <1>2 DEF PluginNext
    <3> QED
      BY <3>1, Zenon
  \* The steps at the plugins, the start of a command and its first look at the list.
  <2>6. ASSUME NEW r, Update(c, r), UNCHANGED config, r.pc \notin {"truncate", "fill"}, cli[c].pc # "fill"
        PROVE  ListInv'
    <3>1. cli'[c] = r /\ \A d \in PluginClis : d # c => cli'[d] = cli[d]
      BY <2>4, <2>6 DEF Update
    <3> QED
      BY <2>1, <2>6, <3>1, ListQuiet
  <2>7. CASE \E cmd \in Commands :
               EnsurePlugins(c, cmd) \/ EnsureConfiguredPlugins(c, cmd) \/ UninstallPlugins(c, cmd)
    <3>1. /\ cli'[c].pc = "next" /\ cli[c].pc \in PluginEnds /\ UNCHANGED config
          /\ \A d \in PluginClis : d # c => cli'[d].pc = cli[d].pc /\ cli'[d].mem = cli[d].mem
      BY <2>1, <2>5, <2>7, BeginsKept
    <3> QED
      BY <2>1, <3>1, ListQuiet DEF PluginEnds
  <2>8. CASE EnsurePlugin(c) \/ UninstallPlugin(c)
    <3>1. PICK r : /\ Update(c, r) /\ UNCHANGED config /\ cli[c].pc = "next"
                   /\ \/ r = [cli[c] EXCEPT !.todo = Tail(@)]
                      \/ \E pc \in {"download", "remove"} : r = [cli[c] EXCEPT !.pc = pc]
      BY <2>8 DEF EnsurePlugin, UninstallPlugin
    <3>2. r.pc \in {"next", "download", "remove"}
      BY <2>3, <3>1 DEF PluginCommand
    <3> QED
      BY <2>6, <3>1, <3>2
  <2>9. CASE DownloadPlugin(c) \/ UnpackPlugin(c) \/ RemovePlugin(c)
    <3>1. PICK r : /\ Update(c, r) /\ UNCHANGED config /\ cli[c].pc \in {"download", "unpack", "remove"}
                   /\ \/ r = [cli[c] EXCEPT !.pc = "next", !.todo = Tail(@)]
                      \/ r = [cli[c] EXCEPT !.pc = "unpack"] \/ r = NoCommand
      BY <2>9 DEF DownloadPlugin, UnpackPlugin, RemovePlugin, Fails
    <3>2. r.pc \in {"next", "unpack", "idle"}
      BY <2>3, <3>1, AtRest DEF PluginCommand
    <3> QED
      BY <2>6, <3>1, <3>2
  <2>10. CASE PluginsHandled(c) \/ ListDefaultPlugins(c)
    <3>1. PICK r, new : /\ Update(c, r) /\ UNCHANGED config /\ cli[c].pc \in {"next", "listDefaults"}
                        /\ \/ r = [cli[c] EXCEPT !.pc = "listDefaults"]
                           \/ r = [cli[c] EXCEPT !.pc = "parse", !.new = new]
                           \/ r = [NoCommand EXCEPT !.pc = "done"]
      BY <2>10 DEF PluginsHandled, ListDefaultPlugins, Done
    <3>2. r.pc \in {"listDefaults", "parse", "done"}
      BY <2>3, <3>1, AtRest DEF PluginCommand
    <3> QED
      BY <2>6, <3>1, <3>2
  <2>11. CASE PluginCliKilled(c)
    <3>1. Update(c, NoCommand) /\ UNCHANGED config
      BY <2>11 DEF PluginCliKilled, Fails
    <3>2. cli'[c] = NoCommand
      BY <2>4, <3>1 DEF Update
    <3>3. c \notin Listing
      BY <2>1, <3>2, AtRest DEF KilledListing
    <3> QED
      BY <2>6, <3>1, <3>3, AtRest DEF Listing, ListPcs
  \* The steps that write the file.
  <2>12. CASE ParseForWrite(c)
    <3> DEFINE r == [cli[c] EXCEPT !.pc = "truncate",
                       !.mem = [ParseConfigFile EXCEPT !.plugins = cli[c].new, !.deprecated = <<>>]]
    <3>1. cli[c].pc = "parse" /\ Update(c, r) /\ UNCHANGED config
      BY <2>12 DEF ParseForWrite
    <3>2. r.pc = "truncate"
      BY <2>3 DEF PluginCommand
    <3> HIDE DEF r
    <3>3. cli'[c] = r /\ \A d \in PluginClis : d # c => cli'[d] = cli[d]
      BY <2>4, <3>1 DEF Update
    <3>4. /\ config # Unparsed
          /\ \A d \in PluginClis : d # c => cli[d].pc \notin {"truncate", "fill"}
      BY <2>1, <3>1, ListAlone DEF ListPcs
    <3>5. cli'[c].mem.others = config.others
      BY <2>1, <2>5, <2>12, <3>4, ParseForWriteKept
    <3>6. config.others
      BY <2>1, <3>4 DEF ListInv
    <3>7. cli'[c].mem.others
      BY <3>5, <3>6, Zenon
    <3>8. \A d \in PluginClis : cli'[d].pc # "fill"
      BY <3>1, <3>2, <3>3, <3>4
    <3>9. \A d \in PluginClis : cli'[d].pc \in {"truncate", "fill"} => d = c
      BY <3>3, <3>4
    <3>10. config' = config
      BY <3>1
    <3> QED
      BY <2>1, <3>4, <3>6, <3>7, <3>8, <3>9, <3>10, Zenon DEF ListInv
  <2>13. CASE TruncateConfig(c)
    <3>1. cli[c].pc = "truncate" /\ Update(c, [cli[c] EXCEPT !.pc = "fill"]) /\ config' = Unparsed
      BY <2>13 DEF TruncateConfig
    <3>2. \A d \in PluginClis : d # c => cli'[d] = cli[d]
      BY <2>4, <3>1 DEF Update
    <3>3. cli'[c].pc = "fill" /\ cli'[c].mem = cli[c].mem
      BY <2>1, <2>5, <2>13, TruncateConfigKept
    <3>4. \A d \in PluginClis : d # c => cli[d].pc \notin {"truncate", "fill"}
      BY <2>1, <3>1, ListAlone DEF ListPcs
    <3>5. cli[c].mem.others
      BY <2>1, <3>1 DEF ListInv
    <3>6. \A d \in PluginClis : cli'[d].pc \in {"truncate", "fill"} => cli'[d].mem.others
      BY <3>2, <3>3, <3>4, <3>5
    <3> QED
      BY <2>1, <3>1, <3>3, <3>6 DEF ListInv
  <2>14. CASE WriteConfig(c)
    <3>1. /\ cli[c].pc = "fill" /\ Update(c, [NoCommand EXCEPT !.pc = "done"])
          /\ config' \in {cli[c].mem} \cup (IF config = Unparsed THEN {} ELSE {Unparsed})
      BY <2>14 DEF WriteConfig, Done
    <3>2. cli'[c].pc = "done" /\ \A d \in PluginClis : d # c => cli'[d] = cli[d]
      BY <2>4, <3>1, AtRest DEF Update
    <3>3. /\ config = Unparsed
          /\ \A d \in PluginClis : d # c => cli[d].pc \notin {"truncate", "fill"}
      BY <2>1, <3>1, ListAlone DEF ListPcs
    <3>4. config' = cli[c].mem /\ cli[c].mem \in CliConfigs
      BY <2>3, <3>1, <3>3, CommandShape
    <3>5. cli[c].mem.others
      BY <2>1, <3>1 DEF ListInv
    <3>6. config' # Unparsed /\ config'.others
      BY <3>4, <3>5, ConfigsAssumption, UnparsedAssumption
    <3>7. \A d \in PluginClis : cli'[d].pc \notin {"truncate", "fill"}
      BY <3>2, <3>3
    <3> QED
      BY <2>1, <3>6, <3>7 DEF ListInv
  <2>15. CASE ListNotOpened(c) \/ ListNotWritten(c)
    <3>1. ~ListNotWritten(c)
      BY <1>2 DEF PluginNext
    <3>2. cli[c].pc = "truncate" /\ Update(c, [NoCommand EXCEPT !.pc = "done"]) /\ UNCHANGED config
      BY <2>15, <3>1 DEF ListNotOpened, WriteConfigAsFails, Done
    <3> QED
      BY <2>6, <3>2, AtRest
  <2> QED
    BY <2>2, <2>7, <2>8, <2>9, <2>10, <2>11, <2>12, <2>13, <2>14, <2>15
<1> QED
  BY <1>1, <1>2

\* The files, the configuration and the commands at them are what the module says they
\* are: a command works on plugins there are, and parses and writes lists of them.
THEOREM PluginTypeCorrect == PluginSpec => []PluginTypeOK
<1>1. PluginInit => PluginInv
  BY PluginInvInit
<1>2. PluginInv /\ [PluginNext]_pluginVars => PluginInv'
  BY PluginInvNext
<1>3. PluginInv => PluginTypeOK
  <2> SUFFICES ASSUME PluginInv PROVE PluginTypeOK
    OBVIOUS
  <2>1. config = Unparsed \/ (/\ ToSet(config.plugins) \cup ToSet(config.deprecated) \subseteq Plugins
                              /\ config.others \in BOOLEAN)
    <3> SUFFICES ASSUME config \in CliConfigs
                 PROVE  /\ ToSet(config.plugins) \cup ToSet(config.deprecated) \subseteq Plugins
                        /\ config.others \in BOOLEAN
      BY DEF PluginInv, PluginTypes
    <3>1. config.plugins \in Seq(Plugins) /\ config.deprecated \in Seq(Plugins) /\ config.others \in BOOLEAN
      BY DEF CliConfigs
    <3> QED
      BY <3>1 DEF ToSet
  <2>2. ASSUME NEW c \in PluginClis
        PROVE  /\ cli[c].pc \in PluginPcs
               /\ ToSet(cli[c].args) \cup ToSet(cli[c].todo) \cup ToSet(cli[c].new) \subseteq Plugins
    <3>1. /\ cli[c].pc \in PluginPcs
          /\ cli[c].args \in Seq(Plugins) /\ cli[c].todo \in Seq(Plugins) /\ cli[c].new \in Seq(Plugins)
      BY CommandShape DEF PluginInv, PluginTypes
    <3> QED
      BY <3>1 DEF ToSet
  <2> QED
    BY <2>1, <2>2 DEF PluginInv, PluginTypes, PluginTypeOK, PluginPcs
<1> QED
  BY <1>1, <1>2, <1>3, PTL DEF PluginSpec

\* A step that ends a command, and the command that takes it.
LEMMA EndingStep ==
  ASSUME PluginInv, PluginNext, NEW c \in PluginClis, Ends(c), listDisturbed' \in BOOLEAN
  PROVE  /\ \/ PluginsHandled(c) \/ ListDefaultPlugins(c) \/ WriteConfig(c)
            \/ ListNotOpened(c) \/ ListNotWritten(c)
         /\ Active(c) /\ Done(c) /\ cli[c].todo = <<>> /\ cli[c].pc # "unpack" /\ UNCHANGED file
<1>1. PICK d \in PluginClis :
         \/ \E cmd \in Commands :
              EnsurePlugins(d, cmd) \/ EnsureConfiguredPlugins(d, cmd) \/ UninstallPlugins(d, cmd)
         \/ EnsurePlugin(d) \/ DownloadPlugin(d) \/ UnpackPlugin(d)
         \/ UninstallPlugin(d) \/ RemovePlugin(d) \/ PluginsHandled(d)
         \/ ListDefaultPlugins(d) \/ ParseForWrite(d) \/ TruncateConfig(d) \/ WriteConfig(d)
         \/ ListNotOpened(d) \/ ListNotWritten(d) \/ PluginCliKilled(d)
  BY DEF PluginNext
<1>2. \A e \in PluginClis : CommandOK(cli[e]) /\ cli[e] \in PluginCommand
  BY DEF PluginInv, PluginTypes, CommandOK
<1>3. DOMAIN cli = PluginClis /\ UNCHANGED engineType
  BY DEF PluginInv, PluginTypes, PluginNext
<1>4. CASE \E cmd \in Commands :
             EnsurePlugins(d, cmd) \/ EnsureConfiguredPlugins(d, cmd) \/ UninstallPlugins(d, cmd)
  <2>1. /\ cli'[d].pc = "next"
        /\ \A e \in PluginClis : e # d => cli'[e].pc = cli[e].pc
    BY <1>3, <1>4, BeginsKept
  <2> QED
    BY <2>1 DEF Ends
<1>5. ASSUME NEW r, Update(d, r), r.pc # "done" PROVE FALSE
  BY <1>3, <1>5 DEF Update, Ends
<1>6. CASE EnsurePlugin(d) \/ UninstallPlugin(d)
  <2>1. PICK r : /\ Update(d, r) /\ cli[d].pc = "next"
                 /\ \/ r = [cli[d] EXCEPT !.todo = Tail(@)]
                    \/ \E pc \in {"download", "remove"} : r = [cli[d] EXCEPT !.pc = pc]
    BY <1>6 DEF EnsurePlugin, UninstallPlugin
  <2>2. r.pc \in {"next", "download", "remove"}
    BY <1>2, <2>1 DEF PluginCommand
  <2> QED
    BY <1>5, <2>1, <2>2
<1>7. CASE DownloadPlugin(d) \/ UnpackPlugin(d) \/ RemovePlugin(d)
  <2>1. PICK r : /\ Update(d, r)
                 /\ \/ r = [cli[d] EXCEPT !.pc = "next", !.todo = Tail(@)]
                    \/ r = [cli[d] EXCEPT !.pc = "unpack"] \/ r = NoCommand
    BY <1>7 DEF DownloadPlugin, UnpackPlugin, RemovePlugin, Fails
  <2>2. r.pc \in {"next", "unpack", "idle"}
    BY <1>2, <2>1, AtRest DEF PluginCommand
  <2> QED
    BY <1>5, <2>1, <2>2
<1>8. CASE ParseForWrite(d) \/ TruncateConfig(d) \/ PluginCliKilled(d)
  <2>1. PICK r, mem : /\ Update(d, r)
                      /\ \/ r = [cli[d] EXCEPT !.pc = "truncate", !.mem = mem]
                         \/ r = [cli[d] EXCEPT !.pc = "fill"] \/ r = NoCommand
    BY <1>8 DEF ParseForWrite, TruncateConfig, PluginCliKilled, Fails
  <2>2. r.pc \in {"truncate", "fill", "idle"}
    BY <1>2, <2>1, AtRest DEF PluginCommand
  <2> QED
    BY <1>5, <2>1, <2>2
<1>10. CASE ListNotOpened(d) \/ ListNotWritten(d)
  <2>1. /\ cli[d].pc \in {"truncate", "fill"} /\ cli[d].todo = <<>> /\ UNCHANGED file /\ Done(d)
    BY <1>2, <1>10 DEF ListNotOpened, ListNotWritten, WriteConfigAsFails, FilesKept, CommandOK, ListPcs
  <2>2. d = c
    BY <1>3, <2>1 DEF Done, Update, Ends
  <2> QED
    BY <1>10, <2>1, <2>2 DEF Active, PluginEnds
<1>9. CASE PluginsHandled(d) \/ ListDefaultPlugins(d) \/ WriteConfig(d)
  <2>1. /\ cli[d].pc \in {"next", "listDefaults", "fill"} /\ cli[d].todo = <<>> /\ UNCHANGED file
    BY <1>2, <1>9 DEF PluginsHandled, ListDefaultPlugins, WriteConfig, FilesKept, CommandOK, ListPcs
  <2>2. PICK r, new : /\ Update(d, r)
                      /\ \/ r = [cli[d] EXCEPT !.pc = "listDefaults"]
                         \/ r = [cli[d] EXCEPT !.pc = "parse", !.new = new] \/ Done(d)
    BY <1>9 DEF PluginsHandled, ListDefaultPlugins, WriteConfig, Done
  <2>3. Done(d) \/ r.pc \in {"listDefaults", "parse"}
    BY <1>2, <2>2 DEF PluginCommand
  <2>4. Done(d)
    BY <1>5, <2>2, <2>3
  <2>5. d = c
    BY <1>3, <2>4 DEF Done, Update, Ends
  <2> QED
    BY <1>9, <2>1, <2>4, <2>5 DEF Active, PluginEnds
<1> QED
  BY <1>1, <1>4, <1>6, <1>7, <1>8, <1>9, <1>10

\* A command that reports success leaves the plugins it was asked for usable, or none of
\* those it removed, however many it was asked for and however it ends: if no other
\* command ran meanwhile and no earlier install was cut short as it extracted or copied
\* the plugin (plugin.go:77-84, fileutil.go:94-104).
THEOREM PluginsHandledAsAsked == PluginSpec => PluginsAsAsked
<1>1. PluginInit => PluginInv
  BY PluginInvInit
<1>2. PluginInv /\ [PluginNext]_pluginVars => PluginInv'
  BY PluginInvNext
<1>3. PluginInv /\ [PluginNext]_pluginVars =>
        [\A c \in PluginClis : Ends(c) /\ ~cli[c].met =>
           \A p \in ToSet(cli[c].args) \ cut :
             file'[p] = (IF cli[c].op = "uninstall" THEN "absent" ELSE "whole")]_pluginVars
  <2> SUFFICES ASSUME PluginInv, PluginNext, NEW c \in PluginClis, Ends(c), ~cli[c].met,
                      NEW p \in ToSet(cli[c].args) \ cut
               PROVE  file'[p] = (IF cli[c].op = "uninstall" THEN "absent" ELSE "whole")
    BY DEF pluginVars
  <2>1. listDisturbed' \in BOOLEAN
    <3>1. listDisturbed' = (\/ listDisturbed \/ TwoListing' \/ KilledListing
                            \/ \E d \in PluginClis : ListNotWritten(d))
      BY DEF PluginNext
    <3> QED
      BY <3>1, Zenon
  <2>2. Active(c) /\ cli[c].todo = <<>> /\ UNCHANGED file
    BY <2>1, EndingStep
  <2>3. HandledOf(c)
    BY <2>2 DEF PluginInv, PluginsHandledSoFar
  <2>4. p \notin ToSet(cli[c].todo)
    BY <2>2 DEF ToSet
  <2> QED
    BY <2>2, <2>3, <2>4 DEF HandledOf, WantedFile
<1> QED
  BY <1>1, <1>2, <1>3, PTL DEF PluginSpec, PluginsAsAsked

\* What --save-default and --remove-default asked for is in the list when the command
\* ends, and the other settings are still there: for lists of any length, while one
\* command at a time updates the file (defaults.go:25, 40-72) and it can be written
\* (plugin.go:33-37, 115-119).
THEOREM DefaultsSavedAsAsked == PluginSpec => DefaultsAsAsked
<1> DEFINE Saved(c) ==
      Ends(c) /\ cli[c].save /\ ~listDisturbed' /\ ~ListNotOpened(c) =>
        LET asked  == ToSet(cli[c].args)
            listed == ToSet(ConfiguredPlugins(config'))
            listedTwice == cli[c].pc = "listDefaults" /\ ~IsInjective(ConfiguredPlugins(config))
        IN /\ config'.others
           /\ IF cli[c].op = "uninstall" THEN listed \cap asked = {}
              ELSE listedTwice \/ asked \subseteq listed
<1>1. PluginInit => PluginInv /\ ListInv
  BY PluginInvInit
<1>2. PluginInv /\ ListInv /\ [PluginNext]_pluginVars => PluginInv' /\ ListInv'
  BY PluginInvNext, ListInvNext
<1>3. PluginInv /\ ListInv /\ [PluginNext]_pluginVars => [\A c \in PluginClis : Saved(c)]_pluginVars
  <2> SUFFICES ASSUME PluginInv, ListInv, PluginNext, NEW c \in PluginClis,
                      Ends(c), cli[c].save, ~listDisturbed', ~ListNotOpened(c)
               PROVE  /\ config'.others
                      /\ IF cli[c].op = "uninstall"
                         THEN ToSet(ConfiguredPlugins(config')) \cap ToSet(cli[c].args) = {}
                         ELSE \/ cli[c].pc = "listDefaults" /\ ~IsInjective(ConfiguredPlugins(config))
                              \/ ToSet(cli[c].args) \subseteq ToSet(ConfiguredPlugins(config'))
    BY DEF pluginVars
  <2>1. listDisturbed' \in BOOLEAN
    <3>1. listDisturbed' = (\/ listDisturbed \/ TwoListing' \/ KilledListing
                            \/ \E d \in PluginClis : ListNotWritten(d))
      BY DEF PluginNext
    <3> QED
      BY <3>1, Zenon
  <2>0. ~listDisturbed /\ ~ListNotWritten(c)
    BY DEF PluginNext
  <2>2. /\ PluginsHandled(c) \/ ListDefaultPlugins(c) \/ WriteConfig(c)
        /\ Done(c) /\ CommandOK(cli[c])
    BY <2>0, <2>1, EndingStep DEF PluginInv, PluginTypes
  <2>3. DOMAIN cli = PluginClis /\ cli'[c].pc = "done"
    BY <2>2 DEF PluginInv, PluginTypes, Ends
  <2>4. ~PluginsHandled(c)
    <3> SUFFICES ASSUME PluginsHandled(c) PROVE FALSE
      OBVIOUS
    <3>1. cli[c].args # <<>> /\ cli[c] \in PluginCommand
      BY <2>2 DEF CommandOK
    <3>2. Update(c, [cli[c] EXCEPT !.pc = "listDefaults"])
      BY <3>1 DEF PluginsHandled
    <3>3. cli'[c].pc = "listDefaults"
      BY <2>3, <3>1, <3>2 DEF Update, PluginCommand
    <3> QED
      BY <2>3, <3>3
  <2>5. CASE ListDefaultPlugins(c)
    <3> DEFINE existing == ConfiguredPlugins(ParseConfigFile)
               updated == IF cli[c].op = "uninstall" THEN RemoveDefaultPlugins(existing, cli[c].args)
                          ELSE AddDefaultPlugins(existing, cli[c].args)
    <3>1. cli[c].pc = "listDefaults" /\ config' = config
      BY <2>5 DEF ListDefaultPlugins
    <3>2. config # Unparsed /\ config.others
      <4>1. config # Unparsed
        BY <2>0, <3>1, ListAlone DEF ListPcs
      <4> QED
        BY <2>0, <4>1 DEF ListInv
    <3>3. existing = ConfiguredPlugins(config)
      BY <3>2 DEF ParseConfigFile
    <3>4. Len(existing) = Len(updated)
      <4> SUFFICES ASSUME Len(existing) # Len(updated) PROVE FALSE
        OBVIOUS
      <4>1. Update(c, [cli[c] EXCEPT !.pc = "parse", !.new = updated])
        BY <2>5 DEF ListDefaultPlugins
      <4>2. cli[c] \in PluginCommand
        BY <2>2 DEF CommandOK
      <4> HIDE DEF updated
      <4>3. cli'[c].pc = "parse"
        BY <2>3, <4>1, <4>2 DEF Update, PluginCommand
      <4> QED
        BY <2>3, <4>3
    <3>5. (cli[c].op # "uninstall" => IsInjective(existing)) => AsAsked(cli[c], existing)
      <4> HIDE DEF updated, existing
      <4> QED
        BY <3>4, NewList DEF PluginInv, updated, existing
    <3> HIDE DEF existing
    <3> QED
      BY <3>1, <3>2, <3>3, <3>5 DEF AsAsked
  <2>6. CASE WriteConfig(c)
    <3>1. /\ cli[c].pc = "fill"
          /\ config' \in {cli[c].mem} \cup (IF config = Unparsed THEN {} ELSE {Unparsed})
      BY <2>6 DEF WriteConfig
    <3>2. config = Unparsed
      BY <2>0, <3>1, ListAlone DEF ListPcs
    <3>3. config' = cli[c].mem
      BY <3>1, <3>2
    <3>4. cli[c].mem.others
      BY <2>0, <3>1 DEF ListInv
    <3>5. /\ cli[c].mem.plugins = cli[c].new /\ cli[c].mem.deprecated = <<>>
          /\ AsAsked(cli[c], cli[c].new)
      BY <2>2, <3>1 DEF CommandOK
    <3>6. ConfiguredPlugins(config') = cli[c].new
      BY <3>3, <3>5 DEF ConfiguredPlugins
    <3>7. config'.others
      BY <3>3, <3>4
    <3> QED
      BY <3>5, <3>6, <3>7 DEF AsAsked
  <2> QED
    BY <2>2, <2>4, <2>5, <2>6
<1> QED
  BY <1>1, <1>2, <1>3, PTL DEF PluginSpec, DefaultsAsAsked

-----------------------------------------------------------------------------
(* The recorder of a proxy. *)

RecorderPcs == {"receive", "file", "config", "fill", "stopped"}
Exchanges == [request : Requests, body : Bodies \cup {Absent}]
Recorders == [pc : RecorderPcs, exchange : Exchanges \cup {Absent}, prefix : Nat, file : ResponseNames \cup {Absent}]
Busy == recorder.pc \in {"file", "config", "fill"}

\* The file of a resource has what the resource stands for.
Faithful(r) == IF r.file = Absent THEN r.body = Absent ELSE r.file \in DOMAIN disk /\ disk[r.file] = r.body

RecorderTypes ==
    /\ recorder \in Recorders /\ exchanges \in Nat /\ DOMAIN disk \subseteq ResponseNames
    /\ handedOver \subseteq Requests /\ notWritten \subseteq handedOver
    /\ Busy => recorder.exchange \in Exchanges /\ recorder.exchange.request \in handedOver

\* No file has the UUID that is next.
UuidsFresh ==
    \A n \in DOMAIN disk, k \in Nat :
        n[4] = <<"uuid", k>> => k <= exchanges /\ (recorder.pc = "file" => k # exchanges)

\* The files written in this run, the resources and the configuration, of this run or an
\* earlier one, are what they stand for.
FilesFaithful ==
    /\ \A b \in DOMAIN stored : stored[b] \in DOMAIN disk /\ disk[stored[b]] = b
    /\ \A r \in resources : Faithful(r)
    /\ Readable => \A r \in conf : Faithful(r)
    /\ recorder.pc = "config" => Faithful(ResourceFor(recorder.exchange, recorder.file))

\* Where the requests received have gone.
Recorded(req) == \E r \in notWritten \cup {res.request : res \in resources} : SameRequest(r, req)
NoneForgotten ==
    /\ \A k \in seen : \E req \in handedOver : RequestHash(req) = k
    /\ recorder.pc # "stopped" =>
         \A req \in handedOver :
             Recorded(req) \/ (recorder.pc \in {"file", "config"} /\ SameRequest(recorder.exchange.request, req))

RecorderInv == RecorderTypes /\ UuidsFresh /\ FilesFaithful /\ NoneForgotten

USE AbsentAssumption

\* The recorder starts with no exchange.
LEMMA WaitingType == Waiting \in Recorders
  BY DEF Waiting, Recorders, RecorderPcs

\* Nothing is recorded at first.
LEMMA RecorderInitInv == RecorderInit => RecorderInv
<1> SUFFICES ASSUME RecorderInit PROVE RecorderInv
  OBVIOUS
<1>1. DOMAIN disk = {} /\ DOMAIN stored = {} /\ recorder.pc = "receive" /\ conf = Absent
  BY DEF RecorderInit, Waiting
<1>2. RecorderTypes
  BY <1>1, WaitingType DEF RecorderInit, RecorderTypes, Busy
<1>3. UuidsFresh /\ FilesFaithful /\ NoneForgotten
  BY <1>1 DEF RecorderInit, UuidsFresh, FilesFaithful, NoneForgotten, Readable
<1> QED
  BY <1>2, <1>3 DEF RecorderInv

\* A function with one more argument.
LEMMA WithMore ==
  ASSUME NEW files, NEW name, NEW content
  PROVE  /\ DOMAIN With(files, name, content) = DOMAIN files \cup {name}
         /\ With(files, name, content)[name] = content
         /\ \A n \in DOMAIN files : n # name => With(files, name, content)[n] = files[n]
  BY DEF With

\* The name of a response file is one, and is not taken.
LEMMA NameIsFree ==
  ASSUME RecorderInv, recorder.pc = "file"
  PROVE  LET n == RespFileName(recorder.exchange.request, recorder.prefix)
         IN /\ n \in ResponseNames \ DOMAIN disk
            /\ \A k \in Nat : n[4] = <<"uuid", k>> => k = exchanges
<1> DEFINE req == recorder.exchange.request
           name(suffix) == <<req.base, req.soap, recorder.prefix, suffix>>
<1>1. req \in Requests /\ recorder.prefix \in Nat /\ exchanges \in Nat
  BY DEF RecorderInv, RecorderTypes, Busy, Exchanges, Recorders
<1>2. name(<<>>) \in ResponseNames /\ name(HashOf(req)) \in ResponseNames /\ name(FreshUuid) \in ResponseNames
  BY <1>1 DEF ResponseNames, HashOf, FreshUuid
<1>3. \A suffix : name(suffix)[4] = suffix
  OBVIOUS
<1>4. name(FreshUuid) \notin DOMAIN disk
  BY <1>1, <1>3 DEF RecorderInv, UuidsFresh, FreshUuid
<1>5. \A k \in Nat : <<>> # <<"uuid", k>> /\ HashOf(req) # <<"uuid", k>> /\ (FreshUuid = <<"uuid", k>> => k = exchanges)
  BY DEF HashOf, FreshUuid
<1>6. LET n == RespFileName(req, recorder.prefix)
      IN \/ n = name(<<>>) /\ n \notin DOMAIN disk
         \/ n = name(HashOf(req)) /\ n \notin DOMAIN disk
         \/ n = name(FreshUuid)
  BY DEF RespFileName
<1> HIDE DEF name, req
<1>7. LET n == RespFileName(req, recorder.prefix)
      IN /\ n \in ResponseNames \ DOMAIN disk
         /\ \A k \in Nat : n[4] = <<"uuid", k>> => k = exchanges
  BY <1>2, <1>3, <1>4, <1>5, <1>6
<1> QED
  BY <1>7 DEF req

\* Files that were there stay as they are.
Kept == \A n \in DOMAIN disk : n \in DOMAIN disk' /\ disk'[n] = disk[n]

\* So a resource that had its file has it still.
LEMMA StillFaithful ==
  ASSUME Kept, NEW r, Faithful(r)
  PROVE  Faithful(r)'
  BY DEF Kept, Faithful

\* The exchange that is handed over.
LEMMA HandleKept ==
  ASSUME RecorderInv, NEW req \in Requests, NEW body \in Bodies \cup {Absent}, Handle(req, body)
  PROVE  RecorderInv'
<1> DEFINE duplicate == RequestHash(req) \in seen
           x == [request |-> req, body |-> body]
           prefix == IF duplicate THEN exchanges' ELSE 0
           next == [Waiting EXCEPT !.pc = "file", !.exchange = x, !.prefix = prefix]
<1>1. /\ recorder.pc = "receive" /\ exchanges \in Nat /\ exchanges' = exchanges + 1
      /\ handedOver' = handedOver \cup {req}
      /\ UNCHANGED <<ignoreDuplicates, stored, resources, disk, conf, notWritten>>
  BY DEF Handle, RecorderInv, RecorderTypes
<1>2. \/ duplicate /\ recorder' = recorder /\ seen' = seen
      \/ recorder' = next /\ seen' = seen \cup {RequestHash(req)}
  BY DEF Handle, Remember
<1>3. x \in Exchanges /\ x.request = req /\ prefix \in Nat
  BY <1>1 DEF Exchanges
<1> HIDE DEF x, prefix
<1>4. next \in Recorders /\ next.pc = "file" /\ next.exchange = x
  BY <1>3, WaitingType DEF Recorders, RecorderPcs
<1> HIDE DEF next
<1>5. RecorderTypes'
  BY <1>1, <1>2, <1>3, <1>4 DEF RecorderInv, RecorderTypes, Busy
<1>6. UuidsFresh'
  BY <1>1 DEF RecorderInv, UuidsFresh
<1>7. FilesFaithful'
  BY <1>1, <1>2, <1>4 DEF RecorderInv, FilesFaithful, Faithful, Readable
<1>8. \A k \in seen' : \E q \in handedOver' : RequestHash(q) = k
  BY <1>1, <1>2 DEF RecorderInv, NoneForgotten
<1>9. \A q \in handedOver : Recorded(q)
  BY <1>1 DEF RecorderInv, NoneForgotten
<1>10. duplicate => Recorded(req)
  <2> SUFFICES ASSUME duplicate PROVE Recorded(req)
    OBVIOUS
  <2>1. PICK q \in handedOver : RequestHash(q) = RequestHash(req)
    BY DEF RecorderInv, NoneForgotten
  <2>2. SameRequest(q, req)
    BY <2>1 DEF RequestHash, SameRequest
  <2> QED
    BY <1>9, <2>2 DEF Recorded, SameRequest
<1>11. \A q : Recorded(q) => Recorded(q)'
  BY <1>1 DEF Recorded
<1>12. recorder' = next => SameRequest(recorder'.exchange.request, req)
  BY <1>3, <1>4 DEF SameRequest
<1>13. NoneForgotten'
  BY <1>1, <1>2, <1>4, <1>8, <1>9, <1>10, <1>11, <1>12 DEF NoneForgotten
<1> QED
  BY <1>5, <1>6, <1>7, <1>13 DEF RecorderInv

\* Its response is written, or one that is there is reused.
LEMMA ResponseFileKept ==
  ASSUME RecorderInv, GetResponseFile
  PROVE  RecorderInv'
<1> DEFINE e == recorder.exchange
           name == RespFileName(e.request, recorder.prefix)
<1>1. /\ recorder.pc = "file" /\ recorder \in Recorders /\ exchanges \in Nat
      /\ e \in Exchanges /\ e.request \in handedOver /\ DOMAIN disk \subseteq ResponseNames
      /\ UNCHANGED <<ignoreDuplicates, seen, resources, conf, exchanges, handedOver>>
  BY DEF GetResponseFile, RecorderInv, RecorderTypes, Busy
<1>2. name \in ResponseNames \ DOMAIN disk /\ \A k \in Nat : name[4] = <<"uuid", k>> => k = exchanges
  BY <1>1, NameIsFree
<1>3. UuidsFresh /\ FilesFaithful /\ NoneForgotten
  BY DEF RecorderInv
<1>4. CASE \E saved \in {Absent} \cup ResponseNames :
             /\ recorder' = [recorder EXCEPT !.pc = "config", !.file = saved]
             /\ saved = Absent => e.body = Absent /\ UNCHANGED <<stored, disk>>
             /\ saved # Absent =>
                  /\ e.body # Absent /\ saved \in DOMAIN disk' /\ disk'[saved] = e.body
                  /\ \/ UNCHANGED <<stored, disk>>
                     \/ saved = name /\ disk' = With(disk, name, e.body) /\ stored' = With(stored, e.body, name)
             /\ UNCHANGED notWritten
  <2>1. PICK saved \in {Absent} \cup ResponseNames :
             /\ recorder' = [recorder EXCEPT !.pc = "config", !.file = saved]
             /\ saved = Absent => e.body = Absent /\ UNCHANGED <<stored, disk>>
             /\ saved # Absent =>
                  /\ e.body # Absent /\ saved \in DOMAIN disk' /\ disk'[saved] = e.body
                  /\ \/ UNCHANGED <<stored, disk>>
                     \/ saved = name /\ disk' = With(disk, name, e.body) /\ stored' = With(stored, e.body, name)
             /\ UNCHANGED notWritten
    BY <1>4
  <2> DEFINE next == [recorder EXCEPT !.pc = "config", !.file = saved]
             b == e.body
  <2>2. next \in Recorders /\ next.pc = "config" /\ next.exchange = e /\ next.file = saved
    BY <1>1 DEF Recorders, RecorderPcs
  <2>3. recorder' = next
    BY <2>1
  <2>4. \/ UNCHANGED <<stored, disk>>
        \/ /\ DOMAIN disk' = DOMAIN disk \cup {name} /\ DOMAIN stored' = DOMAIN stored \cup {b}
           /\ disk'[name] = b /\ stored'[b] = name
           /\ \A n \in DOMAIN disk : n # name => disk'[n] = disk[n]
           /\ \A c \in DOMAIN stored : c # b => stored'[c] = stored[c]
    <3> HIDE DEF next, e, name, b
    <3>1. CASE disk' = With(disk, name, b) /\ stored' = With(stored, b, name)
      BY <3>1 DEF With
    <3>2. b = e.body
      BY DEF b
    <3> QED
      BY <2>1, <3>1, <3>2
  <2> HIDE DEF next, e, name
  <2>5. Kept /\ DOMAIN disk' \subseteq DOMAIN disk \cup {name}
    BY <1>2, <2>4 DEF Kept
  <2>6. RecorderTypes'
    BY <1>1, <1>2, <2>1, <2>2, <2>3, <2>5 DEF RecorderInv, RecorderTypes, Busy
  <2>7. UuidsFresh'
    BY <1>1, <1>2, <1>3, <2>2, <2>3, <2>5 DEF UuidsFresh
  <2>8. \A c \in DOMAIN stored' : stored'[c] \in DOMAIN disk' /\ disk'[stored'[c]] = c
    BY <1>3, <2>4, <2>5 DEF FilesFaithful, Kept
  <2>9. Faithful(ResourceFor(recorder.exchange, recorder.file))'
    BY <2>1, <2>2, <2>3 DEF Faithful, ResourceFor
  <2>10. FilesFaithful'
    BY <1>1, <1>3, <2>5, <2>8, <2>9, StillFaithful DEF FilesFaithful, Readable
  <2>11. NoneForgotten'
    BY <1>1, <1>3, <2>1, <2>2, <2>3 DEF NoneForgotten, Recorded, e
  <2> QED
    BY <2>6, <2>7, <2>10, <2>11 DEF RecorderInv
<1>5. CASE ResponseNotWritten(e, name)
  <2>1. /\ recorder' = Waiting /\ stored' = stored /\ notWritten' = notWritten \cup {e.request}
        /\ disk' = disk \/ disk' = With(disk, name, Broken)
    BY <1>5 DEF ResponseNotWritten
  <2> HIDE DEF e, name
  <2>2. DOMAIN disk' \subseteq DOMAIN disk \cup {name} /\ Kept
    <3>1. CASE disk' = disk
      BY <3>1 DEF Kept
    <3>2. CASE disk' = With(disk, name, Broken)
      BY <1>2, <3>2 DEF With, Kept
    <3> QED
      BY <2>1, <3>1, <3>2
  <2>3. recorder' \in Recorders /\ recorder'.pc = "receive"
    BY <2>1, WaitingType DEF Waiting
  <2>4. RecorderTypes'
    BY <1>1, <1>2, <2>1, <2>2, <2>3 DEF RecorderInv, RecorderTypes, Busy
  <2>5. UuidsFresh'
    BY <1>1, <1>2, <1>3, <2>2, <2>3 DEF UuidsFresh
  <2>6. FilesFaithful'
    BY <1>1, <1>3, <2>1, <2>2, <2>3, StillFaithful DEF FilesFaithful, Readable, Kept
  <2>7. NoneForgotten'
    BY <1>1, <1>3, <2>1, <2>3 DEF NoneForgotten, Recorded, e
  <2> QED
    BY <2>4, <2>5, <2>6, <2>7 DEF RecorderInv
<1>6. \/ /\ e.body = Absent /\ UNCHANGED <<stored, disk, notWritten>>
         /\ recorder' = [recorder EXCEPT !.pc = "config", !.file = Absent]
      \/ /\ e.body # Absent /\ e.body \in DOMAIN stored /\ UNCHANGED <<stored, disk, notWritten>>
         /\ recorder' = [recorder EXCEPT !.pc = "config", !.file = stored[e.body]]
      \/ /\ e.body # Absent /\ disk' = With(disk, name, e.body) /\ stored' = With(stored, e.body, name)
         /\ recorder' = [recorder EXCEPT !.pc = "config", !.file = name] /\ UNCHANGED notWritten
      \/ ResponseNotWritten(e, name)
  BY <1>1 DEF GetResponseFile, Recorders
<1> HIDE DEF e, name
<1>7. e.body \in DOMAIN stored => stored[e.body] \in DOMAIN disk /\ disk[stored[e.body]] = e.body
  BY <1>3 DEF FilesFaithful
<1>8. Absent \notin ResponseNames
  OBVIOUS
<1> QED
  <2>1. CASE /\ e.body = Absent /\ UNCHANGED <<stored, disk, notWritten>>
             /\ recorder' = [recorder EXCEPT !.pc = "config", !.file = Absent]
    BY <1>4, <2>1
  <2>2. CASE /\ e.body # Absent /\ e.body \in DOMAIN stored /\ UNCHANGED <<stored, disk, notWritten>>
             /\ recorder' = [recorder EXCEPT !.pc = "config", !.file = stored[e.body]]
    <3> DEFINE saved == stored[e.body]
    <3>1. saved \in ResponseNames /\ saved # Absent /\ saved \in DOMAIN disk' /\ disk'[saved] = e.body
      BY <1>1, <1>7, <1>8, <2>2
    <3>2. recorder' = [recorder EXCEPT !.pc = "config", !.file = saved]
      BY <2>2
    <3> HIDE DEF saved
    <3> QED
      BY <1>4, <2>2, <3>1, <3>2
  <2>3. CASE /\ e.body # Absent /\ disk' = With(disk, name, e.body) /\ stored' = With(stored, e.body, name)
             /\ recorder' = [recorder EXCEPT !.pc = "config", !.file = name] /\ UNCHANGED notWritten
    <3>1. name \in DOMAIN disk' /\ disk'[name] = e.body
      BY <2>3 DEF With
    <3> QED
      BY <1>2, <1>4, <1>8, <2>3, <3>1
  <2> QED
    BY <1>5, <1>6, <2>1, <2>2, <2>3

\* The configuration is written with every resource so far, or is cut short.
LEMMA ConfigKept ==
  ASSUME RecorderInv, UpdateConfigFile \/ FillConfigFile
  PROVE  RecorderInv'
<1>1. CASE UpdateConfigFile
  <2> DEFINE res == ResourceFor(recorder.exchange, recorder.file)
             next == [recorder EXCEPT !.pc = "fill"]
  <2>1. /\ recorder.pc = "config" /\ recorder \in Recorders /\ recorder.exchange \in Exchanges
        /\ resources' = resources \cup {res}
        /\ UNCHANGED <<ignoreDuplicates, seen, stored, disk, exchanges, handedOver, notWritten>>
    BY <1>1 DEF UpdateConfigFile, RecorderInv, RecorderTypes, Busy
  <2>2. \/ conf' = Broken /\ recorder' = next
        \/ conf' = conf /\ recorder' = Waiting
    BY <1>1 DEF UpdateConfigFile
  <2>3. next \in Recorders /\ next.pc = "fill" /\ next.exchange = recorder.exchange
    BY <2>1 DEF Recorders, RecorderPcs
  <2>4. /\ recorder' \in Recorders /\ recorder'.pc \in {"receive", "fill"}
        /\ recorder'.pc = "fill" => recorder'.exchange = recorder.exchange
    <3>1. Waiting.pc = "receive"
      BY DEF Waiting
    <3> HIDE DEF next
    <3> QED
      BY <2>2, <2>3, <3>1, WaitingType
  <2>5. Faithful(res) /\ res.request = recorder.exchange.request
    BY <2>1 DEF RecorderInv, FilesFaithful, ResourceFor
  <2> HIDE DEF res, next
  <2>6. RecorderTypes' /\ UuidsFresh'
    BY <2>1, <2>4 DEF RecorderInv, RecorderTypes, Busy, UuidsFresh
  <2>7. FilesFaithful'
    BY <2>1, <2>2, <2>4, <2>5 DEF RecorderInv, FilesFaithful, Faithful, Readable
  <2>8. NoneForgotten'
    BY <2>1, <2>4, <2>5 DEF RecorderInv, NoneForgotten, Recorded
  <2> QED
    BY <2>6, <2>7, <2>8 DEF RecorderInv
<1>2. CASE FillConfigFile
  <2>1. /\ recorder.pc = "fill" /\ recorder' = Waiting /\ conf' \in {resources, Broken}
        /\ UNCHANGED <<ignoreDuplicates, seen, stored, resources, disk, exchanges, handedOver, notWritten>>
    BY <1>2 DEF FillConfigFile
  <2>2. recorder' \in Recorders /\ recorder'.pc = "receive"
    BY <2>1, WaitingType DEF Waiting
  <2>3. RecorderTypes' /\ UuidsFresh'
    BY <2>1, <2>2 DEF RecorderInv, RecorderTypes, Busy, UuidsFresh
  <2>4. FilesFaithful'
    BY <2>1, <2>2 DEF RecorderInv, FilesFaithful, Faithful, Readable
  <2>5. NoneForgotten'
    BY <2>1, <2>2 DEF RecorderInv, NoneForgotten, Recorded
  <2> QED
    BY <2>3, <2>4, <2>5 DEF RecorderInv
<1> QED
  BY <1>1, <1>2

\* The proxy stops, and the next one of this directory starts with nothing remembered.
LEMMA RestartKept ==
  ASSUME RecorderInv, ProxyStopped \/ StartRecorder \/ ConfigRemoved
  PROVE  RecorderInv'
<1>1. CASE ProxyStopped
  <2> DEFINE next == [Waiting EXCEPT !.pc = "stopped"]
  <2>1. /\ recorder' = next
        /\ UNCHANGED <<ignoreDuplicates, seen, stored, resources, disk, conf, exchanges, handedOver, notWritten>>
    BY <1>1 DEF ProxyStopped
  <2>2. next \in Recorders /\ next.pc = "stopped"
    BY WaitingType DEF Recorders, RecorderPcs
  <2> HIDE DEF next
  <2>3. RecorderTypes' /\ UuidsFresh'
    BY <2>1, <2>2 DEF RecorderInv, RecorderTypes, Busy, UuidsFresh
  <2>4. FilesFaithful'
    BY <2>1, <2>2 DEF RecorderInv, FilesFaithful, Faithful, Readable
  <2>5. NoneForgotten'
    BY <2>1, <2>2 DEF RecorderInv, NoneForgotten, Recorded
  <2> QED
    BY <2>3, <2>4, <2>5 DEF RecorderInv
<1>2. CASE StartRecorder
  <2>1. /\ recorder.pc = "stopped" /\ recorder' = Waiting
        /\ seen' = {} /\ stored' = <<>> /\ resources' = {} /\ handedOver' = {} /\ notWritten' = {}
        /\ UNCHANGED <<ignoreDuplicates, disk, conf, exchanges>>
    BY <1>2 DEF StartRecorder
  <2>2. recorder' \in Recorders /\ recorder'.pc = "receive" /\ DOMAIN stored' = {}
    BY <2>1, WaitingType DEF Waiting
  <2>3. RecorderTypes' /\ UuidsFresh'
    BY <2>1, <2>2 DEF RecorderInv, RecorderTypes, Busy, UuidsFresh
  <2>4. FilesFaithful'
    BY <2>1, <2>2 DEF RecorderInv, FilesFaithful, Faithful, Readable
  <2>5. NoneForgotten'
    BY <2>1, <2>2 DEF NoneForgotten
  <2> QED
    BY <2>3, <2>4, <2>5 DEF RecorderInv
<1>3. CASE ConfigRemoved
  <2>1. /\ conf' = Absent
        /\ UNCHANGED <<ignoreDuplicates, recorder, seen, stored, resources, disk, exchanges, handedOver, notWritten>>
    BY <1>3 DEF ConfigRemoved
  <2>2. RecorderTypes' /\ UuidsFresh'
    BY <2>1 DEF RecorderInv, RecorderTypes, Busy, UuidsFresh
  <2>3. FilesFaithful'
    BY <2>1 DEF RecorderInv, FilesFaithful, Faithful, Readable
  <2>4. NoneForgotten'
    BY <2>1 DEF RecorderInv, NoneForgotten, Recorded
  <2> QED
    BY <2>2, <2>3, <2>4 DEF RecorderInv
<1> QED
  BY <1>1, <1>2, <1>3

\* Every step keeps the invariant.
LEMMA RecorderNextInv == RecorderInv /\ [RecorderNext]_recorderVars => RecorderInv'
<1>1. ASSUME RecorderInv, UNCHANGED recorderVars PROVE RecorderInv'
  BY <1>1
     DEF recorderVars, RecorderInv, RecorderTypes, Busy, UuidsFresh, FilesFaithful, Faithful,
         Readable,
         NoneForgotten, Recorded
<1> QED
  BY <1>1, HandleKept, ResponseFileKept, ConfigKept, RestartKept DEF RecorderNext

\* The invariant holds of every recording.
THEOREM RecorderInvHolds == RecorderSpec => []RecorderInv
  BY RecorderInitInv, RecorderNextInv, PTL DEF RecorderSpec

\* The recorder, the files and what it remembers of them are of the shape the code gives them.
THEOREM RecorderTypeCorrect == RecorderSpec => []RecorderTypeOK
<1>1. RecorderInv => RecorderTypeOK
  BY DEF RecorderInv, RecorderTypes, FilesFaithful, RecorderTypeOK, Recorders, RecorderPcs
<1> QED
  BY <1>1, RecorderInvHolds, PTL

\* The file of every resource in a configuration that can be read holds the response that was
\* recorded for it, whatever failed in this run or an earlier one (recorder.go:112-166).
THEOREM MockIsFaithful == RecorderSpec => []MockAnswersAsUpstream
<1>1. RecorderInv => MockAnswersAsUpstream
  BY DEF RecorderInv, FilesFaithful, Faithful, MockAnswersAsUpstream
<1> QED
  BY <1>1, RecorderInvHolds, PTL

\* A request the recorder received is recorded, or writing its response, or that of an equal
\* request, failed (recorder.go:60-84).
THEOREM OnlyFailuresMiss == RecorderSpec => []OnlyFailuresAreMissing
<1>1. RecorderInv => OnlyFailuresAreMissing
  BY DEF RecorderInv, NoneForgotten, Recorded, OnlyFailuresAreMissing
<1> QED
  BY <1>1, RecorderInvHolds, PTL

HIDE AbsentAssumption

-----------------------------------------------------------------------------
(* The scaffold. *)

ScaffoldPcs == ScaffoldEnds \cup {"readme", "response", "script", "config", "dot"}
Authors == {"nobody", "removed", "user", "cut", "scaffold"}
IsText(text) == text.by \in Authors /\ (text.by # "scaffold" => text.names = {})
AnchorFiles == SpecFiles \cup {<<"mock", "txt">>}
Scaffolds == [pc : ScaffoldPcs, op : {"none", "scaffold", "up"}, todo : Seq(AnchorFiles),
              forced : BOOLEAN, scripted : BOOLEAN]

\* The configuration and the script of a specification that were written.
HasConfig(spec) ==
    LET text == directory[ConfigFile(spec)]
    IN /\ spec \in text.names
       /\ ScriptFile(spec) \in text.names => Exists(ScriptFile(spec)) \/ ByUser(ScriptFile(spec))
HasGrpc(spec) == spec[2] = "proto" => GrpcPlugin \in directory[DotImposter].names \/ ByUser(DotImposter)

\* The first k specifications are configured, but for those the user has seen to, and
\* those a later one of that name has been written over.
Configured(k) ==
    \A i \in 1..k : (\A j \in 1..k : j > i => specs[j][1] # specs[i][1]) =>
        HasConfig(specs[i]) \/ ByUser(ConfigFile(specs[i]))
AllGrpc == \A i \in DOMAIN specs : HasGrpc(specs[i])

UserConfig == \E name \in ConfigFiles : ByUser(name)

\* What is there of an earlier command.
Settled == cutShort \/ ~ContainsConfigFile \/ UserConfig \/ (Configured(Len(specs)) /\ AllGrpc)

\* How far the command has come.
Handled == Len(Anchors(specs)) - Len(scaffold.todo)

ScaffoldTypes ==
    /\ specs \in SpecLists /\ DOMAIN directory = FileNames
    /\ \A name \in FileNames : IsText(directory[name])
    /\ scaffold \in Scaffolds
    /\ cutShort \in BOOLEAN
    /\ scaffold.pc \in {"script", "config"} <=> scaffold.todo # <<>> /\ scaffold.pc \notin {"readme", "response"}
    /\ scaffold.pc \in {"readme", "response"} => specs = <<>> /\ scaffold.todo = Anchors(specs)

Underway ==
    scaffold.pc \notin ScaffoldEnds =>
        /\ Handled \in 0..Len(Anchors(specs))
        /\ \A i \in 1..Len(scaffold.todo) : scaffold.todo[i] = Anchors(specs)[Handled + i]
        /\ specs # <<>> => Configured(Handled)
        /\ scaffold.pc = "config" /\ scaffold.scripted =>
             Exists(ScriptFile(Head(scaffold.todo))) \/ ByUser(ScriptFile(Head(scaffold.todo)))

ScaffoldInv ==
    /\ ScaffoldTypes /\ Underway
    /\ scaffold.pc \in ScaffoldEnds \/ Handled = 0 => Settled
    /\ scaffold.pc \in {"done", "started"} /\ specs # <<>> => ContainsConfigFile \/ UserConfig

\* The look that comes before a file is created.
Looks ==
    /\ checked \in BOOLEAN /\ late \in BOOLEAN
    /\ checked => scaffold.pc \in {"script", "config", "dot"}

\* A file that is there when it is created was written by the user after the look.
LateKnown == checked /\ ~scaffold.forced /\ Exists(Current) => late

USE SpecListsAssumption

\* The specifications, or the stand-in of a REST mock.
LEMMA SpecTypes ==
  ASSUME specs \in SpecLists
  PROVE  /\ specs \in Seq(SpecFiles) /\ Anchors(specs) \in Seq(AnchorFiles) /\ Anchors(specs) # <<>>
         /\ Len(Anchors(specs)) \in Nat \ {0}
         /\ specs # <<>> => Anchors(specs) = specs
         /\ \A i \in DOMAIN specs : specs[i][2] \notin {"script", "config"}
<1>1. specs \in Seq(SpecFiles) /\ specs \in Seq(AnchorFiles) /\ Anchors(specs) \in Seq(AnchorFiles)
  BY DEF AnchorFiles, Anchors
<1>2. Anchors(specs) # <<>>
  BY DEF Anchors
<1>3. specs # <<>> => Anchors(specs) = specs
  BY DEF Anchors
<1>4. \A i \in DOMAIN specs : specs[i] \in SpecFiles
  BY <1>1
<1>5. \A s \in SpecFiles : s[2] \in {"yaml", "yml", "json", "wsdl", "proto"}
  BY DEF SpecFiles
<1> QED
  BY <1>1, <1>2, <1>3, <1>4, <1>5

\* The files of the directory, by their names.
LEMMA NamesDiffer ==
  /\ \A s : ConfigFile(s)[2] = "config" /\ ScriptFile(s)[2] = "script"
  /\ DotImposter[2] = "imposter" /\ Readme[2] = "md" /\ ResponseFile[2] = "json"
  /\ \A s, t : ConfigFile(s) = ConfigFile(t) <=> s[1] = t[1]
  /\ \A s, t : ScriptFile(s) = ScriptFile(t) <=> s[1] = t[1]
  BY DEF ConfigFile, ScriptFile, DotImposter, Readme, ResponseFile

\* Those that a command writes are all files of the directory.
LEMMA NamesThere ==
  ASSUME specs \in SpecLists
  PROVE  /\ DotImposter \in FileNames
         /\ \A i \in DOMAIN Anchors(specs) :
              /\ ConfigFile(Anchors(specs)[i]) \in ConfigFiles /\ ConfigFile(Anchors(specs)[i]) \in FileNames
              /\ ScriptFile(Anchors(specs)[i]) \in FileNames
         /\ \A n \in ConfigFiles : n \in FileNames /\ n[2] = "config"
         /\ specs = <<>> => Readme \in FileNames /\ ResponseFile \in FileNames
<1>1. \A i \in DOMAIN Anchors(specs) : Anchors(specs)[i] \in Range(Anchors(specs))
  BY DEF Range
<1> QED
  BY <1>1, NamesDiffer DEF FileNames, ConfigFiles

\* No command runs.
LEMMA RestingType == /\ Resting \in Scaffolds /\ Resting.pc = "idle" /\ Resting.todo = <<>>
<1> DEFINE no == FALSE
<1>1. no \in BOOLEAN
  BY Zenon
<1>2. Resting = [pc |-> "idle", op |-> "none", todo |-> <<>>, forced |-> no, scripted |-> no]
  BY Zenon DEF Resting
<1>3. <<>> \in Seq(AnchorFiles)
  OBVIOUS
<1> HIDE DEF no
<1> QED
  BY <1>1, <1>2, <1>3 DEF Scaffolds, ScaffoldPcs, ScaffoldEnds

\* At first there are only specifications.
LEMMA ScaffoldInitInv == ScaffoldInit => ScaffoldInv
<1> SUFFICES ASSUME ScaffoldInit PROVE ScaffoldInv
  OBVIOUS
<1>1. /\ specs \in SpecLists /\ DOMAIN directory = FileNames /\ scaffold = Resting
      /\ \A name \in FileNames : directory[name] = NoFile
  BY DEF ScaffoldInit
<1>2. cutShort \in BOOLEAN
  BY Zenon DEF ScaffoldInit
<1>3. ScaffoldTypes
  BY <1>1, <1>2, RestingType DEF ScaffoldTypes, IsText, NoFile, Authors
<1>4. ~ContainsConfigFile
  BY <1>1, NamesThere DEF ContainsConfigFile, Exists, NoFile
<1> QED
  BY <1>1, <1>3, <1>4, RestingType DEF ScaffoldInv, Underway, Settled, ScaffoldEnds

\* What there is in a directory depends on its specifications.
LEMMA SameNames ==
  ASSUME specs' = specs
  PROVE  FileNames' = FileNames /\ ConfigFiles' = ConfigFiles /\ Anchors(specs)' = Anchors(specs)
  BY DEF FileNames, ConfigFiles

\* One file is written: the others stay as they are.
OnlyAt(name) ==
    /\ DOMAIN directory' = FileNames /\ \A n \in FileNames : IsText(directory'[n])
    /\ \A n \in FileNames : n # name => directory'[n] = directory[n]

\* It is so for a file that is written.
LEMMA WriteOne ==
  ASSUME ScaffoldTypes, NEW name \in FileNames, NEW text, IsText(text), Writes(name, text)
  PROVE  OnlyAt(name) /\ directory'[name] = text
  BY DEF ScaffoldTypes, Writes, OnlyAt

\* The specification that is next.
LEMMA HeadIsNext ==
  ASSUME ScaffoldInv, scaffold.pc \in {"script", "config"}
  PROVE  LET spec == Head(scaffold.todo)
         IN /\ scaffold.todo # <<>> /\ scaffold.todo \in Seq(AnchorFiles)
            /\ Handled \in Nat /\ Handled + 1 \in 1..Len(Anchors(specs))
            /\ spec = Anchors(specs)[Handled + 1]
            /\ ConfigFile(spec) \in ConfigFiles /\ ConfigFile(spec) \in FileNames
            /\ ScriptFile(spec) \in FileNames
<1> DEFINE all == Anchors(specs)
           todo == scaffold.todo
<1>1. /\ todo # <<>> /\ todo \in Seq(AnchorFiles) /\ specs \in SpecLists
      /\ Handled \in 0..Len(all) /\ \A i \in 1..Len(todo) : todo[i] = all[Handled + i]
  BY DEF ScaffoldInv, ScaffoldTypes, Scaffolds, Underway, ScaffoldEnds
<1>2. all \in Seq(AnchorFiles) /\ Len(all) \in Nat /\ DOMAIN all = 1..Len(all)
  BY <1>1, SpecTypes
<1>3. Len(todo) \in Nat \ {0} /\ Head(todo) = todo[1]
  BY <1>1
<1>4. Handled = Len(all) - Len(todo)
  BY DEF Handled
<1> HIDE DEF all, todo
<1>5. Handled \in Nat /\ Handled + 1 \in 1..Len(all) /\ Head(todo) = all[Handled + 1]
  BY <1>1, <1>2, <1>3, <1>4
<1> QED
  BY <1>1, <1>2, <1>5, NamesThere DEF all, todo

\* The user's changes count as configured.
LEMMA UserWritesKept ==
  ASSUME ScaffoldInv, NEW name \in FileNames, UserWrites(name)
  PROVE  ScaffoldInv'
<1>1. /\ UNCHANGED <<specs, scaffold, cutShort>>
      /\ FileNames' = FileNames /\ ConfigFiles' = ConfigFiles /\ Anchors(specs)' = Anchors(specs)
  BY SameNames DEF UserWrites
<1>2. PICK text \in {UserFile, RemovedFile} : Writes(name, text)
  BY DEF UserWrites, Writes
<1>3. IsText(text) /\ text.by \in {"user", "removed"}
  BY <1>2 DEF IsText, UserFile, RemovedFile, Authors
<1>4. OnlyAt(name) /\ directory'[name].by \in {"user", "removed"}
  BY <1>2, <1>3, WriteOne DEF ScaffoldInv
<1>5. ScaffoldTypes'
  BY <1>1, <1>4 DEF ScaffoldInv, ScaffoldTypes, OnlyAt
<1>6. \A n \in FileNames : ByUser(n) => ByUser(n)'
  BY <1>4 DEF ByUser, OnlyAt
<1>7. \A n \in FileNames : Exists(n) => Exists(n)' \/ ByUser(n)'
  BY <1>4 DEF ByUser, Exists, OnlyAt
<1>8. \A n \in FileNames : ~ByUser(n)' => directory'[n] = directory[n]
  BY <1>4 DEF ByUser, OnlyAt
<1>9. specs \in SpecLists
  BY DEF ScaffoldInv, ScaffoldTypes
<1>10. ASSUME NEW i \in DOMAIN specs PROVE HasConfig(specs[i]) \/ ByUser(ConfigFile(specs[i])) =>
                                            (HasConfig(specs[i]) \/ ByUser(ConfigFile(specs[i])))'
  <2>1. ConfigFile(specs[i]) \in FileNames /\ ScriptFile(specs[i]) \in FileNames
    BY <1>9, SpecTypes, NamesThere
  <2> QED
    BY <1>1, <1>6, <1>7, <1>8, <2>1 DEF HasConfig
<1>11. \A k \in 0..Len(specs) : Configured(k) => Configured(k)'
  BY <1>1, <1>9, <1>10, SpecTypes DEF Configured
<1>12. AllGrpc => AllGrpc'
  BY <1>1, <1>6, <1>8, <1>9, NamesThere DEF AllGrpc, HasGrpc
<1>13. UserConfig => UserConfig'
  BY <1>1, <1>6, <1>9, NamesThere DEF UserConfig
<1>14. ContainsConfigFile => ContainsConfigFile' \/ UserConfig'
  BY <1>1, <1>7, <1>9, NamesThere DEF UserConfig, ContainsConfigFile
<1>15. ContainsConfigFile' => ContainsConfigFile \/ UserConfig'
  <2> SUFFICES ASSUME NEW n \in ConfigFiles, Exists(n)', ~UserConfig' PROVE Exists(n)
    BY <1>1 DEF ContainsConfigFile
  <2>1. n \in FileNames /\ ~ByUser(n)'
    BY <1>1, <1>9, NamesThere DEF UserConfig
  <2> QED
    BY <1>8, <2>1 DEF Exists
<1>16. Settled => Settled'
  BY <1>1, <1>9, <1>11, <1>12, <1>13, <1>15, SpecTypes DEF Settled
<1>17. Underway'
  <2>1. Handled' = Handled
    BY <1>1 DEF Handled
  <2>2. specs # <<>> => Anchors(specs) = specs
    BY <1>9, SpecTypes
  <2>3. scaffold.pc = "config" => ScriptFile(Head(scaffold.todo)) \in FileNames
    <3> SUFFICES ASSUME scaffold.pc = "config" PROVE ScriptFile(Head(scaffold.todo)) \in FileNames
      OBVIOUS
    <3> QED
      BY HeadIsNext
  <2> QED
    BY <1>1, <1>6, <1>7, <1>11, <2>1, <2>2, <2>3 DEF ScaffoldInv, Underway
<1> QED
  BY <1>1, <1>5, <1>13, <1>14, <1>16, <1>17 DEF ScaffoldInv, Handled

\* What a command is about to create is a file of the directory.
LEMMA OpeningThere ==
  ASSUME ScaffoldInv, Looks
  PROVE  Opening \subseteq FileNames
<1>1. specs \in SpecLists /\ (scaffold.pc \in {"readme", "response"} => specs = <<>>)
  BY DEF ScaffoldInv, ScaffoldTypes
<1>2. ASSUME checked PROVE Current \in FileNames
  <2>1. CASE scaffold.pc \in {"script", "config"}
    BY <2>1, HeadIsNext DEF Current
  <2>2. CASE scaffold.pc = "dot"
    BY <1>1, <2>2, NamesThere DEF Current
  <2> QED
    BY <1>2, <2>1, <2>2 DEF Looks
<1> QED
  BY <1>1, <1>2, NamesThere DEF Opening

\* A command that fails leaves what there was, or else is remembered as cut short.
LEMMA FailsKept ==
  ASSUME ScaffoldInv, Looks, ScaffoldFails
  PROVE  ScaffoldInv'
<1>0. specs' = specs /\ scaffold.pc \notin ScaffoldEnds
  BY DEF ScaffoldFails, Ended
<1>1. /\ FileNames' = FileNames /\ ConfigFiles' = ConfigFiles /\ Anchors(specs)' = Anchors(specs)
  BY <1>0, SameNames
<1> DEFINE next == [Resting EXCEPT !.pc = "failed"]
<1>2. scaffold' = next
  BY DEF ScaffoldFails
<1>3. next \in Scaffolds /\ next.pc = "failed" /\ next.todo = <<>>
  BY RestingType DEF Scaffolds, ScaffoldPcs, ScaffoldEnds
<1> HIDE DEF next
<1>4. directory' = directory \/ \E name \in FileNames : Writes(name, CutFile)
  BY OpeningThere DEF ScaffoldFails, Writes
<1>5. cutShort' \in BOOLEAN
  BY Zenon DEF ScaffoldFails
<1>6. DOMAIN directory' = FileNames /\ \A n \in FileNames : IsText(directory'[n])
  <2>1. IsText(CutFile)
    BY DEF IsText, CutFile, Authors
  <2> QED
    BY <1>4, <2>1, WriteOne DEF ScaffoldInv, ScaffoldTypes, OnlyAt
<1>7. ScaffoldTypes'
  BY <1>0, <1>1, <1>2, <1>3, <1>5, <1>6 DEF ScaffoldInv, ScaffoldTypes
<1>8. Settled'
  <2>1. CASE directory' = directory /\ scaffold.todo = Anchors(specs)
    <3>1. Handled = 0 /\ Settled
      BY <2>1, SpecTypes DEF Handled, ScaffoldInv, ScaffoldTypes
    <3>2. cutShort /\ ContainsConfigFile => cutShort'
      BY <1>0, <1>1, <2>1 DEF ScaffoldFails, ContainsConfigFile, Exists
    <3> QED
      BY <1>0, <1>1, <2>1, <3>1, <3>2
         DEF Settled, ContainsConfigFile, UserConfig, Configured, AllGrpc, HasGrpc, HasConfig,
             Exists, ByUser
  <2>2. CASE directory' # directory \/ scaffold.todo # Anchors(specs)
    BY <2>2 DEF ScaffoldFails, Settled
  <2> QED
    BY <2>1, <2>2
<1> QED
  BY <1>0, <1>2, <1>3, <1>7, <1>8 DEF ScaffoldInv, Underway, ScaffoldEnds

\* A command starts.
LEMMA RunType ==
  ASSUME ScaffoldInv, NEW op \in {"scaffold", "up"}, NEW forced \in BOOLEAN, NEW scripted \in BOOLEAN,
         Run(op, forced, scripted), Ended, UNCHANGED <<specs, directory, checked, late, cutShort>>
  PROVE  ScaffoldInv'
<1> DEFINE pc == IF specs = <<>> THEN "readme" ELSE "script"
           next == [pc |-> pc, op |-> op, todo |-> Anchors(specs), forced |-> forced, scripted |-> scripted]
<1>1. scaffold' = next /\ specs \in SpecLists
  BY DEF Run, ScaffoldInv, ScaffoldTypes
<1>2. /\ Anchors(specs) \in Seq(AnchorFiles) /\ Anchors(specs) # <<>> /\ Len(Anchors(specs)) \in Nat
      /\ specs # <<>> => Anchors(specs) = specs
  BY <1>1, SpecTypes
<1>3. pc \in {"readme", "script"} /\ (pc = "readme" <=> specs = <<>>)
  OBVIOUS
<1> HIDE DEF pc
<1>4. next \in Scaffolds /\ next.pc = pc /\ next.todo = Anchors(specs)
  BY <1>2, <1>3 DEF Scaffolds, ScaffoldPcs, ScaffoldEnds
<1> HIDE DEF next
<1>5. /\ FileNames' = FileNames /\ ConfigFiles' = ConfigFiles /\ Anchors(specs)' = Anchors(specs)
  BY SameNames
<1>6. ScaffoldTypes'
  BY <1>1, <1>2, <1>3, <1>4, <1>5 DEF ScaffoldInv, ScaffoldTypes
<1>7. Handled' = 0
  BY <1>1, <1>2, <1>4, <1>5 DEF Handled
<1>8. Configured(0)'
  BY DEF Configured
<1>9. Underway'
  BY <1>1, <1>2, <1>3, <1>4, <1>5, <1>7, <1>8 DEF Underway
<1>10. Settled
  BY DEF ScaffoldInv, Ended
<1>11. Settled'
  BY <1>5, <1>10 DEF Settled, ContainsConfigFile, UserConfig, Configured, AllGrpc, HasGrpc,
     HasConfig, Exists, ByUser
<1> QED
  BY <1>1, <1>3, <1>4, <1>6, <1>9, <1>11 DEF ScaffoldInv

\* `scaffold`, or `up --scaffold`, begins with what earlier commands settled.
LEMMA StartKept ==
  ASSUME ScaffoldInv, (\E forced, scripted \in BOOLEAN : Create(forced, scripted)) \/ UpScaffoldMissing
  PROVE  ScaffoldInv'
<1>1. CASE \E forced, scripted \in BOOLEAN : Create(forced, scripted)
  BY <1>1, RunType DEF Create
<1>2. CASE UpScaffoldMissing /\ Run("up", FALSE, FALSE)
  <2>1. FALSE \in BOOLEAN
    BY Zenon
  <2> QED
    BY <1>2, <2>1, RunType DEF UpScaffoldMissing
<1>3. CASE UpScaffoldMissing /\ ContainsConfigFile /\ scaffold' = [Resting EXCEPT !.pc = "started"]
  <2> DEFINE next == [Resting EXCEPT !.pc = "started"]
  <2>1. next \in Scaffolds /\ next.pc = "started" /\ next.todo = <<>>
    BY RestingType DEF Scaffolds, ScaffoldPcs, ScaffoldEnds
  <2>2. scaffold' = next /\ UNCHANGED <<specs, directory, checked, late, cutShort>> /\ Ended
    BY <1>3 DEF UpScaffoldMissing
  <2> HIDE DEF next
  <2>3. /\ FileNames' = FileNames /\ ConfigFiles' = ConfigFiles /\ Anchors(specs)' = Anchors(specs)
    BY <2>2, SameNames
  <2>4. ScaffoldTypes'
    BY <2>1, <2>2, <2>3 DEF ScaffoldInv, ScaffoldTypes
  <2>5. Settled'
    BY <2>2, <2>3 DEF ScaffoldInv, Ended,
       Settled, ContainsConfigFile, UserConfig, Configured, AllGrpc, HasGrpc, HasConfig, Exists, ByUser
  <2>6. ContainsConfigFile'
    BY <1>3, <2>2, <2>3 DEF ContainsConfigFile, Exists
  <2> QED
    BY <2>1, <2>2, <2>4, <2>5, <2>6 DEF ScaffoldInv, Underway, ScaffoldEnds
<1> QED
  BY <1>1, <1>2, <1>3 DEF UpScaffoldMissing

\* What a step of a command leaves of its own record.
LEMMA ProceedFields ==
  ASSUME scaffold \in Scaffolds, NEW next \in ScaffoldPcs, NEW todo \in Seq(AnchorFiles), Proceed(next, todo)
  PROVE  /\ scaffold' \in Scaffolds /\ scaffold'.pc = next /\ scaffold'.todo = todo
         /\ scaffold'.scripted = scaffold.scripted
  BY DEF Proceed, Scaffolds

\* The REST mock has no specification that could be left out.
LEMMA RestKept ==
  ASSUME ScaffoldInv, WriteReadme \/ WriteResponse
  PROVE  ScaffoldInv'
<1>1. PICK name \in {Readme, ResponseFile}, next \in {"response", "script"} :
        /\ scaffold.pc \in {"readme", "response"} /\ specs' = specs
        /\ Writes(name, Generated({})) /\ Proceed(next, scaffold.todo) /\ UNCHANGED cutShort
  BY DEF WriteReadme, WriteResponse, WriteRestFile, Proceed
<1>2. specs = <<>> /\ specs \in SpecLists /\ name \in FileNames /\ scaffold.pc \notin ScaffoldEnds
  BY <1>1, NamesThere DEF ScaffoldInv, ScaffoldTypes, ScaffoldEnds
<1>3. /\ FileNames' = FileNames /\ ConfigFiles' = ConfigFiles /\ Anchors(specs)' = Anchors(specs)
  BY <1>1, SameNames
<1>4. /\ scaffold' \in Scaffolds /\ scaffold'.pc = next /\ scaffold'.todo = scaffold.todo
      /\ scaffold'.scripted = scaffold.scripted
  BY <1>1, ProceedFields DEF ScaffoldInv, ScaffoldTypes, Scaffolds, ScaffoldPcs
<1>5. OnlyAt(name) /\ directory'[name] = Generated({})
  <2>1. IsText(Generated({}))
    BY DEF IsText, Generated, Authors
  <2> QED
    BY <1>1, <1>2, <2>1, WriteOne DEF ScaffoldInv
<1>6. scaffold.todo = Anchors(specs) /\ Anchors(specs) # <<>>
  BY <1>1, <1>2, SpecTypes DEF ScaffoldInv, ScaffoldTypes
<1>7. cutShort' \in BOOLEAN
  BY <1>1 DEF ScaffoldInv, ScaffoldTypes
<1>8. ScaffoldTypes'
  BY <1>1, <1>2, <1>3, <1>4, <1>5, <1>6, <1>7 DEF ScaffoldTypes, OnlyAt
<1>9. Handled' = Handled
  BY <1>1, <1>3, <1>4 DEF Handled
<1>10. Underway'
  BY <1>1, <1>2, <1>3, <1>4, <1>9 DEF ScaffoldInv, Underway
<1>11. Settled'
  BY <1>1, <1>2 DEF Settled, Configured, AllGrpc
<1> QED
  BY <1>1, <1>2, <1>4, <1>8, <1>10, <1>11 DEF ScaffoldInv

\* The script is there before the configuration that names it.
LEMMA ScriptKept ==
  ASSUME ScaffoldInv, WriteScriptFile
  PROVE  ScaffoldInv'
<1> DEFINE spec == Head(scaffold.todo)
           name == ScriptFile(spec)
<1>1. /\ scaffold.pc = "script" /\ specs' = specs /\ scaffold.pc \notin ScaffoldEnds
      /\ name \in FileNames /\ scaffold.todo # <<>> /\ scaffold.todo \in Seq(AnchorFiles)
      /\ specs \in SpecLists
  BY HeadIsNext DEF WriteScriptFile, Proceed, ScaffoldEnds, ScaffoldInv, ScaffoldTypes
<1>3. CASE /\ Proceed("config", scaffold.todo) /\ UNCHANGED cutShort
           /\ \/ ~scaffold.scripted /\ UNCHANGED directory
              \/ Writes(name, Generated({}))
  <2>1. /\ FileNames' = FileNames /\ ConfigFiles' = ConfigFiles /\ Anchors(specs)' = Anchors(specs)
    BY <1>1, SameNames
  <2>2. /\ scaffold' \in Scaffolds /\ scaffold'.pc = "config" /\ scaffold'.todo = scaffold.todo
        /\ scaffold'.scripted = scaffold.scripted
    BY <1>1, <1>3, ProceedFields DEF ScaffoldInv, ScaffoldTypes, ScaffoldPcs
  <2>3. /\ OnlyAt(name) /\ (scaffold.scripted => directory'[name].by \notin {"nobody", "removed"})
        /\ directory' = directory \/ directory'[name].by \notin {"nobody", "removed"}
    <3>1. IsText(Generated({})) /\ Generated({}).by = "scaffold"
      BY DEF IsText, Generated, Authors
    <3>2. CASE Writes(name, Generated({}))
      <4> HIDE DEF name
      <4>1. OnlyAt(name) /\ directory'[name] = Generated({})
        BY <1>1, <3>1, <3>2, WriteOne DEF ScaffoldInv
      <4> QED
        BY <3>1, <4>1
    <3>3. CASE ~scaffold.scripted /\ UNCHANGED directory
      BY <3>3 DEF OnlyAt, ScaffoldInv, ScaffoldTypes
    <3> QED
      BY <1>3, <3>2, <3>3
  <2> HIDE DEF name
  <2>4. ScaffoldTypes'
    BY <1>1, <1>3, <2>1, <2>2, <2>3 DEF ScaffoldInv, ScaffoldTypes, OnlyAt
  <2>5. name[2] = "script"
    BY NamesDiffer DEF name
  <2>6. \A n \in ConfigFiles : directory'[n] = directory[n]
    BY <1>1, <2>3, <2>5, NamesThere DEF OnlyAt
  <2>7. directory'[DotImposter] = directory[DotImposter]
    BY <1>1, <2>3, <2>5, NamesThere, NamesDiffer DEF OnlyAt
  <2>8. ASSUME NEW n \in FileNames PROVE Exists(n) \/ ByUser(n) => Exists(n)' \/ ByUser(n)'
    <3>1. CASE directory'[n] = directory[n]
      BY <3>1 DEF Exists, ByUser
    <3>2. CASE n = name /\ directory'[name].by \notin {"nobody", "removed"}
      BY <3>2 DEF Exists
    <3> QED
      BY <2>3, <3>1, <3>2 DEF OnlyAt
  <2>9. ASSUME NEW i \in DOMAIN specs
        PROVE  /\ HasConfig(specs[i]) => HasConfig(specs[i])'
               /\ ByUser(ConfigFile(specs[i])) => ByUser(ConfigFile(specs[i]))'
    <3>1. ConfigFile(specs[i]) \in ConfigFiles /\ ScriptFile(specs[i]) \in FileNames
      BY <1>1, SpecTypes, NamesThere
    <3> QED
      BY <1>1, <2>6, <2>8, <3>1 DEF HasConfig, ByUser
  <2>10. \A k \in 0..Len(specs) : Configured(k) => Configured(k)'
    BY <1>1, <2>9, SpecTypes DEF Configured
  <2>11. /\ AllGrpc => AllGrpc'
         /\ UserConfig => UserConfig'
         /\ ContainsConfigFile <=> ContainsConfigFile'
    BY <1>1, <2>1, <2>6, <2>7 DEF AllGrpc, HasGrpc, UserConfig, ContainsConfigFile, ByUser, Exists
  <2>12. Settled => Settled'
    BY <1>1, <1>3, <2>10, <2>11, SpecTypes DEF Settled
  <2>13. Handled' = Handled
    BY <1>1, <2>1, <2>2 DEF Handled
  <2>14. Underway'
    <3>1. specs # <<>> => Anchors(specs) = specs
      BY <1>1, SpecTypes
    <3> QED
      BY <1>1, <2>1, <2>2, <2>3, <2>10, <2>13, <3>1 DEF ScaffoldInv, Underway, Exists, name
  <2> QED
    BY <1>1, <2>2, <2>4, <2>12, <2>13, <2>14 DEF ScaffoldInv, ScaffoldEnds
<1>4. /\ Proceed("config", scaffold.todo) /\ UNCHANGED cutShort
      /\ \/ ~scaffold.scripted /\ UNCHANGED directory
         \/ Writes(name, Generated({}))
  BY DEF WriteScriptFile
<1> QED
  BY <1>3, <1>4

\* Its configuration covers the specification, whatever comes before.
LEMMA ConfigFileKept ==
  ASSUME ScaffoldInv, WriteMockConfig
  PROVE  ScaffoldInv'
<1> DEFINE todo == scaffold.todo
           spec == Head(todo)
           rest == Tail(todo)
           name == ConfigFile(spec)
           all == Anchors(specs)
<1>0. PICK k \in Nat : k = Handled
  BY HeadIsNext DEF WriteMockConfig
<1>1. /\ scaffold.pc = "config" /\ specs' = specs /\ scaffold.pc \notin ScaffoldEnds
      /\ todo # <<>> /\ todo \in Seq(AnchorFiles) /\ k \in Nat /\ k + 1 \in 1..Len(all)
      /\ spec = all[k + 1] /\ name \in FileNames /\ ScriptFile(spec) \in FileNames
      /\ specs \in SpecLists /\ scaffold \in Scaffolds
  BY <1>0, HeadIsNext DEF WriteMockConfig, Proceed, ScaffoldEnds, ScaffoldInv, ScaffoldTypes
<1>3. ASSUME NEW text \in Naming(spec), Writes(name, text), UNCHANGED cutShort,
             Proceed(IF rest = <<>> THEN "dot" ELSE "script", rest)
      PROVE  ScaffoldInv'
  <2> DEFINE next == IF rest = <<>> THEN "dot" ELSE "script"
  <2>1. /\ FileNames' = FileNames /\ ConfigFiles' = ConfigFiles /\ all' = all
    BY <1>1, SameNames
  <2>2. rest \in Seq(AnchorFiles) /\ Len(rest) = Len(todo) - 1 /\ Len(todo) \in Nat \ {0}
        /\ \A i \in 1..Len(rest) : rest[i] = todo[i + 1] /\ i + 1 \in 1..Len(todo)
    BY <1>1
  <2>3. next \in {"dot", "script"} /\ (next = "dot" <=> rest = <<>>)
    OBVIOUS
  <2> HIDE DEF next
  <2>4. /\ scaffold' \in Scaffolds /\ scaffold'.pc = next /\ scaffold'.todo = rest
        /\ scaffold'.scripted = scaffold.scripted
    <3>1. Proceed(next, rest) /\ next \in ScaffoldPcs
      BY <1>3, <2>3 DEF next, ScaffoldPcs
    <3> QED
      BY <1>1, <2>2, <3>1, ProceedFields
  <2>5. /\ text.by = "scaffold" /\ IsText(text) /\ spec \in text.names
        /\ ScriptFile(spec) \in text.names => ScriptFile(spec) = spec \/ scaffold.scripted
    BY <1>3 DEF Naming, Generated, IsText, Authors
  <2> HIDE DEF spec, rest, name, all, todo
  <2>6. OnlyAt(name) /\ directory'[name] = text
    BY <1>1, <1>3, <2>5, WriteOne DEF ScaffoldInv
  <2>7. ScaffoldTypes'
    BY <1>1, <1>3, <2>1, <2>3, <2>4, <2>6 DEF ScaffoldInv, ScaffoldTypes, OnlyAt
  <2>8. Handled' = k + 1
    <3>1. Handled = Len(all) - Len(todo) /\ Handled' = Len(all') - Len(scaffold'.todo) /\ Len(all) \in Nat
      BY <1>1, SpecTypes DEF Handled, all, todo
    <3> QED
      BY <1>0, <2>1, <2>2, <2>4, <3>1
  <2>9. \A i \in 1..Len(scaffold'.todo) : scaffold'.todo[i] = all'[Handled' + i]
    <3>1. \A i \in 1..Len(todo) : todo[i] = all[k + i]
      BY <1>0, <1>1 DEF ScaffoldInv, Underway, all, todo
    <3> SUFFICES ASSUME NEW i \in 1..Len(rest) PROVE rest[i] = all[(k + 1) + i]
      BY <2>1, <2>4, <2>8
    <3>2. rest[i] = todo[i + 1] /\ i + 1 \in 1..Len(todo) /\ i \in Nat
      BY <2>2
    <3>3. k + (i + 1) = (k + 1) + i
      BY <1>1, <3>2
    <3> QED
      BY <3>1, <3>2, <3>3
  <2>10. ASSUME specs # <<>> PROVE Configured(k + 1)'
    <3>1. all = specs /\ DOMAIN specs = 1..Len(specs) /\ Len(specs) \in Nat
      BY <1>1, <2>10, SpecTypes DEF all
    <3>2. Configured(k)
      BY <1>0, <1>1, <2>10 DEF ScaffoldInv, Underway
    <3>3. name[2] = "config" /\ name \in FileNames
      BY <1>1, NamesDiffer DEF name
    <3>4. \A i \in DOMAIN specs : ScriptFile(specs[i]) \in FileNames /\ ScriptFile(specs[i]) # name
      BY <1>1, <3>1, <3>3, NamesDiffer, NamesThere DEF all
    <3>5. \A i \in DOMAIN specs : directory'[ScriptFile(specs[i])] = directory[ScriptFile(specs[i])]
      BY <2>6, <3>4 DEF OnlyAt
    <3>6. ASSUME NEW i \in 1..k, specs[k + 1][1] # specs[i][1], HasConfig(specs[i]) \/ ByUser(ConfigFile(specs[i]))
          PROVE  (HasConfig(specs[i]) \/ ByUser(ConfigFile(specs[i])))'
      <4>1. i \in DOMAIN specs
        BY <1>1, <3>1
      <4>2. ConfigFile(specs[i]) # name /\ ConfigFile(specs[i]) \in FileNames
        BY <1>1, <3>1, <3>6, <4>1, NamesDiffer, NamesThere DEF name, all
      <4>3. directory'[ConfigFile(specs[i])] = directory[ConfigFile(specs[i])]
        BY <2>6, <4>2 DEF OnlyAt
      <4> QED
        BY <1>1, <3>5, <3>6, <4>1, <4>3 DEF HasConfig, Exists, ByUser
    <3>7. HasConfig(specs[k + 1])'
      <4>1. k + 1 \in DOMAIN specs /\ spec = specs[k + 1]
        BY <1>1, <3>1
      <4>2. ScriptFile(spec) # spec
        BY <1>1, <4>1, NamesDiffer, SpecTypes
      <4>3. scaffold.scripted => Exists(ScriptFile(spec)) \/ ByUser(ScriptFile(spec))
        BY <1>1 DEF ScaffoldInv, Underway, spec, todo
      <4>4. directory'[ConfigFile(spec)] = text
        BY <2>6 DEF name
      <4>5. directory'[ScriptFile(spec)] = directory[ScriptFile(spec)]
        BY <3>5, <4>1
      <4>6. ScriptFile(spec) \in text.names => scaffold.scripted
        BY <2>5, <4>2
      <4>7. LET t == directory'[ConfigFile(spec)]
            IN /\ spec \in t.names
               /\ ScriptFile(spec) \in t.names =>
                    \/ directory'[ScriptFile(spec)].by \notin {"nobody", "removed"}
                    \/ directory'[ScriptFile(spec)].by \in {"user", "removed"}
        BY <2>5, <4>3, <4>4, <4>5, <4>6 DEF Exists, ByUser
      <4> QED
        BY <1>1, <4>1, <4>7 DEF HasConfig, Exists, ByUser
    <3>8. SUFFICES ASSUME NEW i \in 1..(k + 1), \A j \in 1..(k + 1) : j > i => specs[j][1] # specs[i][1]
                   PROVE  (HasConfig(specs[i]) \/ ByUser(ConfigFile(specs[i])))'
      BY <1>1 DEF Configured
    <3>9. CASE i = k + 1
      BY <1>1, <3>7, <3>9
    <3>10. CASE i \in 1..k
      <4>1. specs[k + 1][1] # specs[i][1] /\ \A j \in 1..k : j > i => specs[j][1] # specs[i][1]
        BY <1>1, <3>8, <3>10
      <4> QED
        BY <3>2, <3>6, <3>10, <4>1 DEF Configured
    <3> QED
      BY <1>1, <3>9, <3>10
  <2>11. Underway'
    <3>1. k + 1 \in 0..Len(all)
      BY <1>1, SpecTypes DEF all
    <3> QED
      BY <1>1, <2>1, <2>3, <2>4, <2>8, <2>9, <2>10, <3>1 DEF Underway, all
  <2>12. k + 1 # 0
    BY <1>1
  <2> QED
    BY <1>1, <2>3, <2>4, <2>7, <2>8, <2>11, <2>12 DEF ScaffoldInv, ScaffoldEnds
<1>4. \E text \in Naming(spec) :
        Writes(name, text) /\ UNCHANGED cutShort /\ Proceed(IF rest = <<>> THEN "dot" ELSE "script", rest)
  BY DEF WriteMockConfig, Others
<1> QED
  BY <1>3, <1>4

\* With the last file the directory is configured.
LEMMA DotKept ==
  ASSUME ScaffoldInv, WriteDotImposterYaml
  PROVE  ScaffoldInv'
<1> DEFINE end == IF scaffold.op = "up" THEN "started" ELSE "done"
           protos == {t \in Range(specs) : t[2] = "proto"}
           text == Generated({GrpcPlugin : s \in protos})
<1>1. /\ scaffold.pc = "dot" /\ specs' = specs /\ scaffold.pc \notin ScaffoldEnds
      /\ DotImposter \in FileNames /\ specs \in SpecLists /\ scaffold \in Scaffolds /\ scaffold.todo = <<>>
  BY NamesThere DEF WriteDotImposterYaml, Proceed, ScaffoldEnds, ScaffoldInv, ScaffoldTypes
<1>3. CASE Writes(DotImposter, text) /\ Proceed(end, <<>>) /\ cutShort' = FALSE
  <2>1. /\ FileNames' = FileNames /\ ConfigFiles' = ConfigFiles
    BY <1>1, SameNames
  <2>2. end \in {"started", "done"} /\ <<>> \in Seq(AnchorFiles)
    OBVIOUS
  <2>3. scaffold' \in Scaffolds /\ scaffold'.pc = end /\ scaffold'.todo = <<>>
    BY <1>1, <1>3, <2>2, ProceedFields DEF ScaffoldPcs, ScaffoldEnds
  <2>4. IsText(text) /\ (protos # {} => GrpcPlugin \in text.names)
    BY DEF IsText, Generated, Authors
  <2>5. \A i \in DOMAIN specs : specs[i][2] = "proto" => protos # {}
    BY DEF Range
  <2> HIDE DEF end, text, protos
  <2>6. OnlyAt(DotImposter) /\ directory'[DotImposter] = text
    BY <1>1, <1>3, <2>4, WriteOne DEF ScaffoldInv
  <2>7. cutShort' \in BOOLEAN
    BY <1>3, Zenon
  <2>8. ScaffoldTypes'
    BY <1>1, <2>1, <2>2, <2>3, <2>6, <2>7 DEF ScaffoldTypes, OnlyAt
  <2>9. AllGrpc'
    BY <1>1, <2>4, <2>5, <2>6 DEF AllGrpc, HasGrpc
  <2>10. \A n \in FileNames : n[2] \in {"config", "script"} => directory'[n] = directory[n]
    BY <2>6, NamesDiffer DEF OnlyAt
  <2>11. ASSUME specs # <<>> PROVE Configured(Len(specs))' /\ (ContainsConfigFile' \/ UserConfig')
    <3>1. Anchors(specs) = specs /\ DOMAIN specs = 1..Len(specs) /\ Len(specs) \in Nat \ {0}
      BY <1>1, <2>11, SpecTypes
    <3>2. Handled = Len(specs)
      BY <1>1, <3>1 DEF Handled
    <3>3. Configured(Len(specs))
      BY <1>1, <2>11, <3>2 DEF ScaffoldInv, Underway
    <3>4. ASSUME NEW i \in DOMAIN specs
          PROVE  /\ ConfigFile(specs[i]) \in ConfigFiles
                 /\ directory'[ConfigFile(specs[i])] = directory[ConfigFile(specs[i])]
                 /\ directory'[ScriptFile(specs[i])] = directory[ScriptFile(specs[i])]
      BY <1>1, <2>10, <3>1, NamesThere, NamesDiffer
    <3>5. \A i \in DOMAIN specs : (HasConfig(specs[i]) => HasConfig(specs[i])')
                                  /\ (ByUser(ConfigFile(specs[i])) => ByUser(ConfigFile(specs[i]))')
      BY <1>1, <3>4 DEF HasConfig, Exists, ByUser
    <3>6. Configured(Len(specs))'
      BY <1>1, <3>1, <3>3, <3>5 DEF Configured
    <3>7. HasConfig(specs[Len(specs)]) \/ ByUser(ConfigFile(specs[Len(specs)]))
      BY <3>1, <3>3 DEF Configured
    <3> DEFINE n == ConfigFile(specs[Len(specs)])
    <3>8. n \in ConfigFiles /\ n \in FileNames /\ directory'[n] = directory[n]
      BY <1>1, <3>1, <3>4, NamesThere
    <3>9. HasConfig(specs[Len(specs)]) => directory[n].by = "scaffold"
      BY <3>8 DEF ScaffoldInv, ScaffoldTypes, IsText, HasConfig
    <3> HIDE DEF n
    <3>10. directory'[n].by \notin {"nobody", "removed"} \/ directory'[n].by \in {"user", "removed"}
      BY <3>7, <3>8, <3>9 DEF ByUser, n
    <3> QED
      BY <2>1, <3>6, <3>8, <3>10 DEF ContainsConfigFile, UserConfig, Exists, ByUser
  <2>12. Settled'
    BY <1>1, <2>9, <2>11 DEF Settled, Configured
  <2> QED
    BY <1>1, <2>2, <2>3, <2>8, <2>11, <2>12 DEF ScaffoldInv, Underway, ScaffoldEnds
<1> QED
  BY <1>3 DEF WriteDotImposterYaml, DotConfig

\* A file is created only after a look for it.
LEMMA LooksNext == Looks /\ [ScaffoldNext]_scaffoldVars => Looks'
<1> SUFFICES ASSUME Looks, [ScaffoldNext]_scaffoldVars PROVE Looks'
  OBVIOUS
<1>1. TRUE \in BOOLEAN /\ FALSE \in BOOLEAN
  BY Zenon
<1>2. CASE checked' = FALSE /\ late' = FALSE
  <2>1. checked' \in BOOLEAN /\ late' \in BOOLEAN /\ ~checked'
    BY <1>1, <1>2, Zenon
  <2> QED
    BY <2>1 DEF Looks
<1>3. CASE LookFor
  <2>1. checked' \in BOOLEAN
    BY <1>1, <1>3, Zenon DEF LookFor
  <2> QED
    BY <1>3, <2>1 DEF Looks, LookFor
<1>4. CASE \E name \in FileNames : UserWrites(name)
  <2>1. PICK name \in FileNames : UserWrites(name)
    BY <1>4
  <2>2. late' \in BOOLEAN
    BY <2>1, Zenon DEF UserWrites
  <2> QED
    BY <2>1, <2>2 DEF Looks, UserWrites
<1>5. CASE (\E forced, scripted \in BOOLEAN : Create(forced, scripted)) \/ UpScaffoldMissing
  <2>1. checked' = checked /\ late' = late /\ scaffold.pc \in ScaffoldEnds
    BY <1>5 DEF Create, UpScaffoldMissing, Ended
  <2>2. ~checked
    BY <2>1 DEF Looks, ScaffoldEnds
  <2> QED
    BY <2>1, <2>2 DEF Looks
<1>6. CASE UNCHANGED scaffoldVars
  BY <1>6 DEF Looks, scaffoldVars
<1>7. CASE ScaffoldFails \/ WriteReadme \/ WriteResponse \/ WriteScriptFile \/ WriteMockConfig
           \/ WriteDotImposterYaml
  BY <1>2, <1>7 DEF ScaffoldFails, WriteReadme, WriteResponse, WriteRestFile, WriteScriptFile,
     WriteMockConfig, WriteDotImposterYaml, Proceed
<1> QED
  BY <1>3, <1>4, <1>5, <1>6, <1>7 DEF ScaffoldNext

\* Every step keeps the invariant.
LEMMA ScaffoldNextInv == Looks /\ ScaffoldInv /\ [ScaffoldNext]_scaffoldVars => ScaffoldInv'
<1>1. ASSUME ScaffoldInv, UNCHANGED <<specs, directory, scaffold, cutShort>> PROVE ScaffoldInv'
  <2>1. /\ UNCHANGED <<specs, directory, scaffold, cutShort>>
        /\ FileNames' = FileNames /\ ConfigFiles' = ConfigFiles
    BY <1>1, SameNames
  <2>2. ScaffoldTypes' /\ Handled' = Handled /\ scaffold' = scaffold
    BY <1>1, <2>1 DEF ScaffoldInv, ScaffoldTypes, Handled
  <2>3. \A name : /\ Exists(name)' = Exists(name) /\ ByUser(name)' = ByUser(name)
                 /\ HasConfig(name)' = HasConfig(name) /\ HasGrpc(name)' = HasGrpc(name)
    BY <2>1 DEF Exists, ByUser, HasConfig, HasGrpc
  <2>4. \A n : Configured(n)' = Configured(n)
    BY <2>1, <2>3 DEF Configured
  <2>5. Underway'
    BY <1>1, <2>1, <2>2, <2>3, <2>4 DEF ScaffoldInv, Underway
  <2>6. /\ Settled' = Settled /\ ContainsConfigFile' = ContainsConfigFile
        /\ UserConfig' = UserConfig
    BY <2>1, <2>3, <2>4 DEF Settled, ContainsConfigFile, UserConfig, AllGrpc
  <2> QED
    BY <1>1, <2>1, <2>2, <2>5, <2>6 DEF ScaffoldInv
<1> QED
  BY <1>1, StartKept, FailsKept, RestKept, ScriptKept, ConfigFileKept, DotKept, UserWritesKept
     DEF ScaffoldNext, LookFor, scaffoldVars

\* The user can come between a look and the creation, and is then remembered.
LEMMA LateNext == Looks /\ ScaffoldInv /\ LateKnown /\ [ScaffoldNext]_scaffoldVars => LateKnown'
<1> SUFFICES ASSUME Looks, ScaffoldInv, LateKnown, [ScaffoldNext]_scaffoldVars PROVE LateKnown'
  OBVIOUS
<1>1. CASE checked' = FALSE
  BY <1>1 DEF LateKnown
<1>2. CASE LookFor
  <2>1. Current' = Current /\ Exists(Current)' = Exists(Current)
    BY <1>2 DEF LookFor, Current, Exists
  <2> QED
    BY <1>2, <2>1 DEF LateKnown, LookFor
<1>3. CASE \E name \in FileNames : UserWrites(name)
  <2>1. PICK name \in FileNames : UserWrites(name)
    BY <1>3
  <2>2. Current' = Current /\ checked' = checked /\ scaffold' = scaffold
    BY <2>1 DEF UserWrites, Current
  <2> SUFFICES ASSUME checked, ~scaffold.forced, Exists(Current)' PROVE late'
    BY <2>2 DEF LateKnown
  <2>3. CASE name = Current
    BY <2>1, <2>3 DEF UserWrites, Opening
  <2>4. CASE name # Current
    <3>1. Current \in FileNames
      BY OpeningThere DEF Opening
    <3>2. directory'[Current] = directory[Current]
      BY <2>1, <2>4, <3>1 DEF UserWrites, ScaffoldInv, ScaffoldTypes
    <3> QED
      BY <2>1, <2>2, <3>2 DEF LateKnown, Exists, UserWrites
  <2> QED
    BY <2>3, <2>4
<1>4. CASE (\E forced, scripted \in BOOLEAN : Create(forced, scripted)) \/ UpScaffoldMissing
  BY <1>1, <1>4 DEF Create, UpScaffoldMissing, Looks, Ended, ScaffoldEnds
<1>5. CASE UNCHANGED scaffoldVars
  BY <1>5 DEF LateKnown, Current, Exists, scaffoldVars
<1>6. CASE ScaffoldFails \/ WriteReadme \/ WriteResponse \/ WriteScriptFile \/ WriteMockConfig
           \/ WriteDotImposterYaml
  BY <1>1, <1>6 DEF ScaffoldFails, WriteReadme, WriteResponse, WriteRestFile, WriteScriptFile,
     WriteMockConfig, WriteDotImposterYaml, Proceed
<1> QED
  BY <1>2, <1>3, <1>4, <1>5, <1>6 DEF ScaffoldNext

\* The invariants hold of every behaviour of the user and the command.
THEOREM ScaffoldInvHolds == ScaffoldSpec => [](Looks /\ ScaffoldInv /\ LateKnown)
<1>1. ScaffoldInit => Looks /\ LateKnown
  <2> SUFFICES ASSUME ScaffoldInit PROVE Looks /\ LateKnown
    OBVIOUS
  <2>1. checked \in BOOLEAN /\ late \in BOOLEAN /\ ~checked
    BY Zenon DEF ScaffoldInit
  <2> QED
    BY <2>1 DEF Looks, LateKnown
<1> QED
  BY <1>1, ScaffoldInitInv, LooksNext, ScaffoldNextInv, LateNext, PTL DEF ScaffoldSpec

\* The files and the command at them are of the shape the code gives them.
THEOREM ScaffoldTypeCorrect == ScaffoldSpec => []ScaffoldTypeOK
<1>1. Looks /\ ScaffoldInv => ScaffoldTypeOK
  BY DEF Looks, ScaffoldInv, ScaffoldTypes, IsText, Authors, Scaffolds, ScaffoldPcs, ScaffoldTypeOK
<1> QED
  BY <1>1, ScaffoldInvHolds, PTL

\* When `scaffold` reports success every specification is configured.
THEOREM SuccessCovers == ScaffoldSpec => []SuccessCoversSpecs
<1>1. ScaffoldInv => SuccessCoversSpecs
  <2> SUFFICES ASSUME ScaffoldInv, scaffold.pc \in {"done", "started"}, ~cutShort,
                      \A name \in ConfigFiles : ~ByUser(name),
                      NEW i \in DOMAIN specs, \A j \in DOMAIN specs : j > i => specs[j][1] # specs[i][1]
               PROVE  Covered(specs[i])
    BY DEF SuccessCoversSpecs
  <2>1. specs \in Seq(SpecFiles) /\ specs # <<>>
    BY SpecTypes DEF ScaffoldInv, ScaffoldTypes
  <2>2. Anchors(specs) = specs /\ DOMAIN specs = 1..Len(specs)
    BY <2>1, SpecTypes DEF ScaffoldInv, ScaffoldTypes
  <2>3. Configured(Len(specs)) /\ AllGrpc
    BY <2>1 DEF ScaffoldInv, ScaffoldEnds, Settled, UserConfig
  <2>4. HasConfig(specs[i]) \/ ByUser(ConfigFile(specs[i]))
    BY <2>2, <2>3 DEF Configured
  <2>5. ConfigFile(specs[i]) \in ConfigFiles
    BY <2>2, NamesThere DEF ScaffoldInv, ScaffoldTypes
  <2> QED
    BY <2>3, <2>4, <2>5 DEF Covered, HasConfig, AllGrpc, HasGrpc
<1> QED
  BY <1>1, ScaffoldInvHolds, PTL

\* What a step may do to a file.
Spared(name) ==
    \/ directory'[name] = directory[name] \/ directory'[name].by \in {"user", "removed"}
    \/ scaffold.forced \/ ~Exists(name) \/ (late /\ name \in Opening)
    \/ name \in {Readme, ResponseFile}

\* A file that the command writes is the one it looked for, or one of a REST mock.
LEMMA WriteSpares ==
  ASSUME Looks, ScaffoldInv, LateKnown, NEW at \in FileNames, NEW text, Writes(at, text),
         (checked /\ at = Current) \/ at \in {Readme, ResponseFile}
  PROVE  \A name \in FileNames : Spared(name)
<1>1. \A name \in FileNames : name # at => directory'[name] = directory[name]
  BY DEF ScaffoldInv, ScaffoldTypes, Writes
<1>2. Spared(at)
  <2>1. CASE checked /\ at = Current
    <3>1. Opening = {at}
      BY <2>1 DEF Opening
    <3> QED
      BY <2>1, <3>1 DEF LateKnown, Spared
  <2>2. CASE at \in {Readme, ResponseFile}
    BY <2>2 DEF Spared
  <2> QED
    BY <2>1, <2>2
<1> QED
  BY <1>1, <1>2 DEF Spared

\* Every step spares the files of the user, but those.
LEMMA StepSpares ==
  ASSUME Looks, ScaffoldInv, LateKnown, ScaffoldNext
  PROVE  \A name \in FileNames : Spared(name)
<1>0. specs \in SpecLists
  BY DEF ScaffoldInv, ScaffoldTypes
<1>1. CASE (\E forced, scripted \in BOOLEAN : Create(forced, scripted)) \/ UpScaffoldMissing \/ LookFor
  BY <1>1 DEF Create, UpScaffoldMissing, LookFor, Spared
<1>2. CASE WriteReadme \/ WriteResponse
  <2>1. PICK at \in {Readme, ResponseFile} : Writes(at, Generated({}))
    BY <1>2 DEF WriteReadme, WriteResponse, WriteRestFile
  <2>2. specs = <<>>
    BY <1>2 DEF WriteReadme, WriteResponse, WriteRestFile, ScaffoldInv, ScaffoldTypes
  <2>3. at \in FileNames
    BY <1>0, <2>2, NamesThere
  <2> QED
    BY <2>1, <2>3, WriteSpares
<1>3. CASE ScaffoldFails
  <2>1. directory' = directory \/ \E at \in Opening : Writes(at, CutFile)
    BY <1>3 DEF ScaffoldFails, Writes
  <2>2. CASE directory' = directory
    BY <2>2 DEF Spared
  <2>3. \A at \in Opening : at \in FileNames /\ ((checked /\ at = Current) \/ at \in {Readme, ResponseFile})
    BY OpeningThere DEF Opening
  <2> QED
    BY <2>1, <2>2, <2>3, WriteSpares
<1>4. CASE WriteScriptFile \/ WriteMockConfig \/ WriteDotImposterYaml
  <2>1. directory' = directory \/ (checked /\ \E text : Writes(Current, text))
    BY <1>4 DEF WriteScriptFile, WriteMockConfig, WriteDotImposterYaml, Current
  <2>2. CASE directory' = directory
    BY <2>2 DEF Spared
  <2>3. checked => Current \in FileNames
    BY OpeningThere DEF Opening
  <2> QED
    BY <2>1, <2>2, <2>3, WriteSpares
<1>5. ASSUME NEW at \in FileNames, UserWrites(at) PROVE \A name \in FileNames : Spared(name)
  <2>1. PICK text \in {UserFile, RemovedFile} : Writes(at, text)
    BY <1>5 DEF UserWrites, Writes
  <2>2. text.by \in {"user", "removed"}
    BY <2>1 DEF UserFile, RemovedFile
  <2> QED
    BY <2>1, <2>2 DEF ScaffoldInv, ScaffoldTypes, Writes, Spared
<1> QED
  BY <1>1, <1>2, <1>3, <1>4, <1>5 DEF ScaffoldNext

\* Without --force-overwrite no file of the user's is written over, but one made between the
\* look and the creation (fileutil.go:55-63) and those of a REST mock.
THEOREM UserFilesKept == ScaffoldSpec => UnforcedKeepsUserFiles
<1>1. Looks /\ ScaffoldInv /\ LateKnown /\ [ScaffoldNext]_scaffoldVars =>
        [\A name \in FileNames :
           directory[name].by = "user" /\ ~scaffold.forced /\ directory'[name].by \notin {"user", "removed"} =>
             (late /\ name \in Opening) \/ name \in {Readme, ResponseFile}]_scaffoldVars
  BY StepSpares DEF Spared, Exists
<1> QED
  BY <1>1, ScaffoldInvHolds, PTL DEF ScaffoldSpec, UnforcedKeepsUserFiles

HIDE SpecListsAssumption

-----------------------------------------------------------------------------
(* Versions. *)

USE EngineTypesAssumption, BoundsAssumption, TornAssumption

LookupPcs == {"fetch"} \cup ReadPcs \cup WritePcs \cup EndPcs

\* A CLI that looks nothing up: the zero values of ResolveLatestToVersion.
LEMMA IdleType == Idle \in Lookups
<1> DEFINE no == FALSE
           t0 == CHOOSE t \in EngineTypes : TRUE
<1>1. no \in BOOLEAN /\ t0 \in EngineTypes
  OBVIOUS
<1>2. Idle = [pc |-> "idle", type |-> t0, allowCached |-> no,
            now |-> 0, ver |-> Unset, from |-> "none", mem |-> Torn,
            fallback |-> no, raced |-> no]
  BY Zenon DEF Idle
<1> HIDE DEF no, t0
<1> QED
  BY <1>1, <1>2 DEF Lookups, EndPcs, Files, Unset

\* At first nothing is cached and nobody looks a version up.
LEMMA VersionInitType == VersionInit => VersionTypeOK
<1> SUFFICES ASSUME VersionInit PROVE VersionTypeOK
  OBVIOUS
<1>1. prefs \in Files /\ published \in [EngineTypes -> 1..MaxVersion]
  BY DEF VersionInit, Files, Pairs, NoPair, Unset
<1>2. /\ until \in [EngineTypes -> [1..MaxVersion -> 0..(MaxTime + 1)]]
      /\ clock \in 0..MaxTime
  BY DEF VersionInit
<1>3. resolver \in [Resolvers -> Lookups]
  BY IdleType DEF VersionInit
<1>4. prefsDisturbed \in BOOLEAN /\ beyondRepair \in BOOLEAN
  BY Zenon DEF VersionInit
<1> QED
  BY <1>1, <1>2, <1>3, <1>4 DEF VersionTypeOK

\* The assignments the steps make keep a lookup a lookup.
LEMMA FieldsKeepType ==
  ASSUME NEW r \in Lookups, NEW pc \in LookupPcs, NEW mem \in Files, NEW ver \in 0..MaxVersion,
         NEW b \in BOOLEAN, NEW from \in {"none", "cache", "fallback"}
  PROVE  /\ [r EXCEPT !.pc = pc] \in Lookups
         /\ [r EXCEPT !.pc = pc, !.mem = mem] \in Lookups
         /\ [r EXCEPT !.mem = mem, !.pc = pc] \in Lookups
         /\ [r EXCEPT !.pc = pc, !.ver = ver, !.from = from] \in Lookups
         /\ [r EXCEPT !.pc = pc, !.allowCached = b, !.ver = ver] \in Lookups
         /\ [r EXCEPT !.pc = pc, !.fallback = b] \in Lookups
         /\ [r EXCEPT !.raced = b] \in Lookups
  BY ZenonT(60) DEF Lookups, LookupPcs

\* A step of a CLI (version.go, prefs.go) keeps the shape of the file and of every
\* lookup; a writer writes what it has loaded.
LEMMA LookupStepType ==
  ASSUME VersionTypeOK, NEW c \in Resolvers, VersionStep(c) \/ Killed(c),
         resolver[c].pc \in RewritePcs => resolver[c].mem # Torn
  PROVE  resolver' \in [Resolvers -> Lookups] /\ prefs' \in Files
<1> USE DEF VersionTypeOK
<1> DEFINE r == resolver[c]
<1>0. /\ r \in Lookups /\ Idle \in Lookups
      /\ r.pc \in LookupPcs /\ r.type \in EngineTypes /\ r.mem \in Files
      /\ r.ver \in 0..MaxVersion /\ r.now \in 0..MaxTime
  BY IdleType DEF Lookups, LookupPcs
<1>a. AfterWrite(c) \in Lookups
  <2>1. Torn \in Files /\ "loadCheck" \in LookupPcs
    BY DEF Files, LookupPcs, WritePcs
  <2> QED
    BY <1>0, <2>1, FieldsKeepType DEF AfterWrite
<1>b. \A x \in Lookups : Set(c, x) => resolver' \in [Resolvers -> Lookups]
  BY DEF Set
<1>1. ASSUME NEW t \in EngineTypes, NEW allow \in BOOLEAN, ResolveLatest(c, t, allow)
      PROVE resolver' \in [Resolvers -> Lookups] /\ prefs' \in Files
  <2> DEFINE pc == IF allow THEN "readCheck" ELSE "fetch"
  <2>1. pc \in LookupPcs 
    BY DEF LookupPcs, ReadPcs
  <2>2. resolver' = [resolver EXCEPT ![c] =
                       [Idle EXCEPT !.pc = pc, !.type = t, !.allowCached = allow, !.now = clock]]
    BY <1>1, Zenon DEF ResolveLatest, Set
  <2> HIDE DEF pc
  <2>3. [Idle EXCEPT !.pc = pc, !.type = t, !.allowCached = allow, !.now = clock] \in Lookups
    BY <1>0, <2>1 DEF Lookups, LookupPcs
  <2>4. prefs' \in Files
    BY <1>1 DEF ResolveLatest
  <2> QED
    BY <2>2, <2>3, <2>4
<1>2. CASE LoadCachedCheck(c)
  BY <1>0, <1>b, <1>2, FieldsKeepType DEF LoadCachedCheck, NotCached, LookupPcs, ReadPcs
<1>3. CASE LoadCachedLatest(c)
  <2>1. ReadKey(r.type, "latest") \in 0..MaxVersion
     BY <1>0, SMTT(60) DEF ReadKey, Files, Pairs, Unset
  <2> QED
    BY <1>0, <1>b, <2>1, <1>3, FieldsKeepType, ZenonT(60)
       DEF LoadCachedLatest, NotCached, LookupPcs, EndPcs
<1>4. CASE FetchLatest(c)
  <2>1. FALSE \in BOOLEAN /\ published[r.type] \in 0..MaxVersion /\ "loadLatest" \in LookupPcs
     BY <1>0 DEF LookupPcs, WritePcs
  <2> QED BY <1>0, <1>b, <2>1, <1>4, FieldsKeepType DEF FetchLatest
<1>5. CASE FetchFails(c)
  BY <1>0, <1>b, <1>5, FieldsKeepType DEF FetchFails, LookupPcs, ReadPcs
<1>6. CASE WriteLoad(c)
  BY <1>0, <1>a, <1>b, <1>6, FieldsKeepType DEF WriteLoad, WriteGivenUp, LookupPcs, WritePcs
<1>7. CASE WriteTruncate(c)
  BY <1>0, <1>a, <1>b, <1>7, FieldsKeepType DEF WriteTruncate, WriteGivenUp, LookupPcs, WritePcs,
       Files
<1>8. CASE WriteFill(c)
  <2>1. prefs' \in Files
     <3>1. r.mem \in [EngineTypes -> Pairs]
        BY <1>8, <1>0 DEF WriteFill, Files, RewritePcs
     <3>2. Edited(c) \in Files
        BY <3>1, <1>0 DEF Edited, Pairs, Files
     <3> QED BY <3>2, <1>8 DEF WriteFill, Files
  <2>2. \A d \in Resolvers : resolver'[d] \in Lookups
    <3> TAKE d \in Resolvers 
    <3> DEFINE x == resolver[d].raced \/ Looking(d)
    <3>1. x \in BOOLEAN OBVIOUS
    <3>2. [resolver[d] EXCEPT !.raced = x] \in Lookups
      BY <3>1, <1>0, FieldsKeepType
    <3> QED 
      BY <1>a, <1>8, <3>2 DEF WriteFill
  <2> QED
    BY <1>8, <2>1, <2>2 DEF WriteFill
<1>9. CASE WriteFails(c) \/ Killed(c)
  BY <1>0, <1>a, <1>b, <1>9 DEF WriteFails, WriteGivenUp, Killed
<1> QED
  BY <1>1, <1>2, <1>3, <1>4, <1>5, <1>6, <1>7, <1>8, <1>9 DEF VersionStep

\* Who rewrites the file has loaded it (prefs.go:107-110).
LoadedToWrite == \A c \in Resolvers : resolver[c].pc \in RewritePcs => resolver[c].mem # Torn

\* The times in the file and in the lookups are past, and the release the API calls
\* the latest has not been replaced.
Times ==
    /\ clock >= Threshold
    /\ \A t \in EngineTypes, v \in 1..MaxVersion : v >= published[t] => until[t][v] = MaxTime + 1
    /\ prefs # Torn => \A t \in EngineTypes : prefs[t].check <= clock
    /\ \A c \in Resolvers :
          /\ resolver[c].now <= clock
          /\ resolver[c].mem # Torn => \A t \in EngineTypes : resolver[c].mem[t].check <= clock
          /\ resolver[c].pc # "idle" => resolver[c].now >= Threshold

\* The fields a step gives the lookup of c: every other lookup keeps its own.

\* The fields of a lookup that another CLI cannot touch: all but the history of races.
SameLookup(d) == /\ resolver'[d].pc = resolver[d].pc /\ resolver'[d].type = resolver[d].type
           /\ resolver'[d].now = resolver[d].now /\ resolver'[d].ver = resolver[d].ver
           /\ resolver'[d].from = resolver[d].from /\ resolver'[d].mem = resolver[d].mem
           /\ resolver'[d].fallback = resolver[d].fallback
           /\ resolver'[d].allowCached = resolver[d].allowCached

\* A step of c leaves the other lookups alone; only a write of c races them.
LEMMA OthersKeep ==
  ASSUME VersionTypeOK, NEW c \in Resolvers, VersionStep(c) \/ Killed(c),
         NEW d \in Resolvers, d # c
  PROVE  /\ SameLookup(d)
         /\ ~WriteFill(c) => resolver'[d] = resolver[d]
         /\ resolver[d].raced => resolver'[d].raced
         /\ WriteFill(c) /\ Looking(d) => resolver'[d].raced
<1>1. CASE WriteFill(c)
  <2> DEFINE x == resolver[d].raced \/ Looking(d)
  <2>0. resolver[d] \in [pc : LookupPcs, type : EngineTypes, allowCached : BOOLEAN,
     now : 0..MaxTime, ver : 0..MaxVersion, from : {"none", "cache", "fallback"}, mem : Files,
     fallback : BOOLEAN, raced : BOOLEAN]
    BY DEF VersionTypeOK, Lookups, LookupPcs
  <2>1. resolver'[d] = [resolver[d] EXCEPT !.raced = x]
    BY <1>1, Zenon DEF WriteFill
  <2> HIDE DEF x
  <2>2. SameLookup(d) /\ resolver'[d].raced = x
    BY ONLY <2>0, <2>1 DEF SameLookup
  <2> QED
    BY <2>2, <1>1 DEF x
<1>2. CASE ~WriteFill(c)
  <2>1. resolver'[d] = resolver[d]
    <3> USE DEF VersionTypeOK, Set
    <3>1. CASE \E t \in EngineTypes, allow \in BOOLEAN : ResolveLatest(c, t, allow)
      BY <3>1 DEF ResolveLatest
    <3>2. CASE LoadCachedCheck(c) \/ LoadCachedLatest(c) \/ FetchLatest(c) \/ FetchFails(c)
      BY <3>2 DEF LoadCachedCheck, LoadCachedLatest, FetchLatest, FetchFails, NotCached
    <3>3. CASE WriteLoad(c) \/ WriteTruncate(c) \/ WriteFails(c) \/ Killed(c)
      BY <3>3 DEF WriteLoad, WriteTruncate, WriteFails, Killed, WriteGivenUp
    <3> QED
      BY <1>2, <3>1, <3>2, <3>3 DEF VersionStep
  <2> QED
    BY <1>2, <2>1 DEF SameLookup
<1> QED
  BY <1>1, <1>2

\* The fields of a CLI that looks nothing up.
LEMMA IdleFields ==
  /\ Idle.pc = "idle" /\ Idle.now = 0 /\ Idle.mem = Torn /\ Idle.from = "none" /\ Idle.ver = Unset
  /\ ~Idle.fallback /\ ~Idle.raced
<1>1. /\ Idle.pc = "idle" /\ Idle.now = 0 /\ Idle.mem = Torn /\ Idle.from = "none" /\ Idle.ver = Unset
  BY DEF Idle
<1>2. ~Idle.fallback /\ ~Idle.raced
  BY DEF Idle
<1> QED
  BY <1>1, <1>2

(***************************************************************************)
(* What a step makes of the lookup of c, field by field.                   *)
(***************************************************************************)
Keeps(c) ==
    /\ resolver'[c].type = resolver[c].type /\ resolver'[c].now = resolver[c].now
    /\ resolver'[c].raced = resolver[c].raced
KeepsVersion(c) == resolver'[c].ver = resolver[c].ver /\ resolver'[c].from = resolver[c].from
KeepsFlags(c) ==
    resolver'[c].fallback = resolver[c].fallback /\ resolver'[c].allowCached = resolver[c].allowCached
Goes(c, before, after) == resolver[c].pc = before /\ resolver'[c].pc = after

Begins(c) ==
    /\ resolver[c].pc \in EndPcs /\ resolver'[c].pc \in {"readCheck", "fetch"}
    /\ resolver'[c].now = clock /\ resolver'[c].ver = Unset /\ resolver'[c].from = "none"
    /\ resolver'[c].mem = Torn /\ ~resolver'[c].fallback /\ ~resolver'[c].raced
    /\ resolver'[c].pc = "fetch" => ~resolver'[c].allowCached
LookupEnds(c) == resolver'[c] = Idle
FindsCheckRecent(c) ==
    /\ Goes(c, "readCheck", "readLatest") /\ Keeps(c) /\ KeepsVersion(c) /\ KeepsFlags(c)
    /\ resolver'[c].mem = resolver[c].mem
    /\ resolver[c].now - ReadKey(resolver[c].type, "check") < Threshold
FindsCheckExpired(c) ==
    /\ Goes(c, "readCheck", "fetch") /\ Keeps(c) /\ KeepsVersion(c) /\ KeepsFlags(c)
    /\ resolver'[c].mem = resolver[c].mem /\ ~resolver[c].fallback
    /\ resolver[c].now - ReadKey(resolver[c].type, "check") >= Threshold
FindsNoLatest(c) ==
    /\ Goes(c, "readLatest", "fetch") /\ Keeps(c) /\ KeepsVersion(c) /\ KeepsFlags(c)
    /\ resolver'[c].mem = resolver[c].mem /\ ~resolver[c].fallback
    /\ ReadKey(resolver[c].type, "latest") = Unset
FindsLatest(c) ==
    /\ Goes(c, "readLatest", "resolved") /\ Keeps(c)
    /\ resolver'[c].mem = resolver[c].mem
    /\ resolver'[c].ver = ReadKey(resolver[c].type, "latest") /\ resolver'[c].ver # Unset
    /\ resolver'[c].from = IF resolver[c].fallback THEN "fallback" ELSE "cache"
Fetches(c) ==
    /\ Goes(c, "fetch", "loadLatest") /\ Keeps(c) /\ resolver'[c].from = resolver[c].from
    /\ resolver'[c].mem = resolver[c].mem /\ resolver'[c].ver = published[resolver[c].type]
FallsBack(c) ==
    /\ Goes(c, "fetch", "readCheck") /\ Keeps(c) /\ KeepsVersion(c) /\ resolver[c].allowCached
    /\ resolver'[c].mem = resolver[c].mem /\ resolver'[c].fallback
Loads(c) ==
    /\ Goes(c, "loadLatest", "writeLatest") \/ Goes(c, "loadCheck", "writeCheck")
    /\ Keeps(c) /\ KeepsVersion(c) /\ prefs # Torn /\ resolver'[c].mem = prefs
Truncates(c) ==
    /\ Goes(c, "writeLatest", "fillLatest") \/ Goes(c, "writeCheck", "fillCheck")
    /\ Keeps(c) /\ KeepsVersion(c) /\ resolver'[c].mem = resolver[c].mem
GivesLatestUp(c) ==
    /\ resolver[c].pc \in {"loadLatest", "writeLatest", "fillLatest"} /\ resolver'[c].pc = "loadCheck"
    /\ Keeps(c) /\ KeepsVersion(c) /\ resolver'[c].mem = Torn

\* The steps that leave the file alone, and the two that write it.
LeavesFile(c) ==
    \/ Begins(c) \/ FindsCheckRecent(c) \/ FindsCheckExpired(c) \/ FindsNoLatest(c) \/ FindsLatest(c)
    \/ Fetches(c) \/ FallsBack(c) \/ Loads(c)
    \/ Running(c) /\ LookupEnds(c)
    \/ GivesLatestUp(c) /\ (\/ resolver[c].pc = "loadLatest" /\ prefs = Torn
                            \/ resolver[c].pc = "writeLatest" /\ OpenRefused(c)
                            \/ resolver[c].pc = "fillLatest")
Fills(c) ==
    /\ resolver[c].pc \in {"fillLatest", "fillCheck"}
    /\ prefs' = Edited(c) \/ (prefs # Torn /\ prefs' = Torn)
    /\ resolver[c].pc = "fillLatest" => GivesLatestUp(c)
    /\ resolver[c].pc = "fillCheck" => LookupEnds(c)

\* Every step of a CLI is one of these, and says what it makes of the file.
LEMMA StepFields ==
  ASSUME VersionTypeOK, NEW c \in Resolvers, VersionStep(c) \/ Killed(c)
  PROVE  /\ UNCHANGED <<published, until, clock>>
         /\ \/ UNCHANGED prefs /\ LeavesFile(c)
            \/ prefs' = Torn /\ Truncates(c)
            \/ WriteFill(c) /\ Fills(c)
<1> DEFINE r == resolver[c]
           Goal == \/ UNCHANGED prefs /\ LeavesFile(c)
                   \/ prefs' = Torn /\ Truncates(c)
                   \/ WriteFill(c) /\ Fills(c)
<1> USE DEF Goes, Keeps, KeepsVersion, KeepsFlags
<1>0. r \in Lookups /\ Idle \in Lookups
  BY IdleType DEF VersionTypeOK
<1>r. /\ r.pc \in LookupPcs /\ r.type \in EngineTypes /\ r.mem \in Files
      /\ r.ver \in 0..MaxVersion /\ r.now \in 0..MaxTime
  BY <1>0 DEF Lookups, LookupPcs
<1>a. \A x : Set(c, x) => resolver'[c] = x
  BY DEF Set, VersionTypeOK
<1>b. r.pc \in {"loadLatest", "writeLatest", "fillLatest"} /\ resolver'[c] = AfterWrite(c) => GivesLatestUp(c)
  BY <1>0 DEF AfterWrite, GivesLatestUp, Lookups
<1>c. r.pc \notin {"loadLatest", "writeLatest", "fillLatest"} /\ resolver'[c] = AfterWrite(c) => LookupEnds(c)
  BY DEF AfterWrite, LookupEnds
<1>1. ASSUME NEW t \in EngineTypes, NEW allow \in BOOLEAN, ResolveLatest(c, t, allow)
      PROVE UNCHANGED prefs /\ Begins(c)
  <2> DEFINE pc == IF allow THEN "readCheck" ELSE "fetch"
  <2>1. resolver'[c] = [Idle EXCEPT !.pc = pc, !.type = t, !.allowCached = allow, !.now = clock]
    BY <1>1, <1>a, Zenon DEF ResolveLatest
  <2>2. (pc = "fetch" => ~allow) /\ pc \in {"readCheck", "fetch"}
    OBVIOUS
  <2> HIDE DEF pc
  <2>3. /\ resolver'[c].pc = pc /\ resolver'[c].now = clock /\ resolver'[c].ver = Unset /\ resolver'[c].from = "none"
        /\ resolver'[c].mem = Torn /\ resolver'[c].fallback = Idle.fallback /\ resolver'[c].raced = Idle.raced
        /\ resolver'[c].allowCached = allow
    BY ONLY <2>1, <1>0, IdleFields DEF Lookups
  <2>4. r.pc \in EndPcs /\ UNCHANGED prefs
    BY <1>1 DEF ResolveLatest, Running
  <2> QED
    BY <2>2, <2>3, <2>4, IdleFields DEF Begins
<1>2. CASE LoadCachedCheck(c)
  BY <1>0, <1>a, <1>2 DEF LoadCachedCheck, NotCached, Lookups, LeavesFile, Begins,
       FindsCheckRecent, FindsCheckExpired, LookupEnds, Running, EndPcs
<1>3. CASE LoadCachedLatest(c)
  BY <1>0, <1>a, <1>3, ZenonT(60) DEF LoadCachedLatest, NotCached, Lookups, LeavesFile, FindsNoLatest,
       FindsLatest, LookupEnds, Running, EndPcs
<1>4. CASE FetchLatest(c)
  BY <1>0, <1>a, <1>4, ZenonT(60) DEF FetchLatest, Lookups, LeavesFile, Fetches
<1>5. CASE FetchFails(c)
  BY <1>0, <1>a, <1>5 DEF FetchFails, Lookups, LeavesFile, FallsBack, LookupEnds, Running, EndPcs
<1>6. CASE WriteLoad(c)
  BY <1>0, <1>a, <1>b, <1>c, <1>6, ZenonT(60) DEF WriteLoad, WriteGivenUp, Lookups, LeavesFile, Loads,
       Running, EndPcs
<1>7. CASE WriteTruncate(c)
  BY <1>0, <1>a, <1>b, <1>c, <1>7 DEF WriteTruncate, WriteGivenUp, OpenRefused, Lookups,
       LeavesFile, Truncates, Running, EndPcs
<1>8. CASE WriteFill(c)
  <2>1. resolver'[c] = AfterWrite(c) /\ r.pc \in {"fillLatest", "fillCheck"}
    BY <1>8 DEF WriteFill
  <2>2. prefs' = Edited(c) \/ (prefs # Torn /\ prefs' = Torn)
    BY <1>8 DEF WriteFill
  <2>3. r.pc = "fillLatest" => GivesLatestUp(c)
    BY <2>1, <1>b
  <2>4. r.pc = "fillCheck" => LookupEnds(c)
    BY <2>1, <1>c
  <2>5. Fills(c)
    BY <2>1, <2>2, <2>3, <2>4, Zenon DEF Fills
  <2> QED
    BY <1>8, <2>5 DEF WriteFill
<1>9. CASE WriteFails(c) \/ Killed(c)
  BY <1>0, <1>a, <1>b, <1>c, <1>9 DEF WriteFails, WriteGivenUp, Killed, LeavesFile, LookupEnds, Running,
       EndPcs
<1>10. Goal
  BY <1>1, <1>2, <1>3, <1>4, <1>5, <1>6, <1>7, <1>8, <1>9 DEF VersionStep, LeavesFile
<1>11. UNCHANGED <<published, until, clock>>
  BY DEF VersionStep, Killed, ResolveLatest, LoadCachedCheck, LoadCachedLatest, FetchLatest,
       FetchFails, WriteLoad, WriteTruncate, WriteFill, WriteFails
<1> QED
  BY <1>10, <1>11

\* WriteLoad is the only way to a rewrite.
LEMMA StepLoadedToWrite ==
  ASSUME VersionTypeOK, LoadedToWrite, NEW c \in Resolvers, VersionStep(c) \/ Killed(c)
  PROVE  LoadedToWrite'
<1>1. resolver'[c].pc \in RewritePcs => resolver'[c].mem # Torn
  BY StepFields, IdleFields DEF LeavesFile, Begins, LookupEnds, FindsCheckRecent, FindsCheckExpired,
       FindsNoLatest, FindsLatest, Fetches, FallsBack, Loads, Truncates, GivesLatestUp, Fills,
       Goes, RewritePcs, LoadedToWrite
<1> QED
  BY <1>1, OthersKeep DEF LoadedToWrite, SameLookup

\* What can be read from a file that parses, and from a lookup.
LEMMA FileTypes ==
  ASSUME VersionTypeOK
  PROVE  /\ prefs # Torn => prefs \in [EngineTypes -> [latest : 0..MaxVersion, check : 0..MaxTime]]
         /\ \A c \in Resolvers :
               /\ resolver[c].mem # Torn =>
                     resolver[c].mem \in [EngineTypes -> [latest : 0..MaxVersion, check : 0..MaxTime]]
               /\ resolver[c].type \in EngineTypes /\ resolver[c].ver \in 0..MaxVersion /\ resolver[c].now \in 0..MaxTime
  BY DEF VersionTypeOK, Lookups, Files, Pairs

\* A write replaces one key of one engine type.
LEMMA EditedFields ==
  ASSUME VersionTypeOK, LoadedToWrite, NEW c \in Resolvers,
         resolver[c].pc \in {"fillLatest", "fillCheck"}, NEW t \in EngineTypes
  PROVE  /\ Edited(c)[t].latest = IF resolver[c].pc = "fillLatest" /\ t = resolver[c].type
                                  THEN resolver[c].ver ELSE resolver[c].mem[t].latest
         /\ Edited(c)[t].check = IF resolver[c].pc = "fillCheck" /\ t = resolver[c].type
                                 THEN resolver[c].now ELSE resolver[c].mem[t].check
  BY FileTypes DEF Edited, LoadedToWrite, RewritePcs

\* The time of a check is taken before the lookup and never in the future.
LEMMA StepTimes ==
  ASSUME VersionTypeOK, LoadedToWrite, Times, NEW c \in Resolvers, VersionStep(c) \/ Killed(c)
  PROVE  Times'
<1> DEFINE MemOfC == resolver'[c].mem # Torn => \A t \in EngineTypes : resolver'[c].mem[t].check <= clock
           NowOfC == /\ resolver'[c].now <= clock
                     /\ resolver'[c].pc # "idle" => resolver'[c].now >= Threshold
<1> USE FileTypes DEF Times, Goes, Keeps
<1>0. clock \in Nat /\ Threshold \in Nat
  BY DEF VersionTypeOK
<1>1. MemOfC
  BY StepFields, IdleFields DEF LeavesFile, Begins, LookupEnds, FindsCheckRecent, FindsCheckExpired,
       FindsNoLatest, FindsLatest, Fetches, FallsBack, Loads, Truncates, GivesLatestUp, Fills
<1>2. NowOfC
  BY <1>0, StepFields, IdleFields DEF LeavesFile, Begins, LookupEnds, FindsCheckRecent,
       FindsCheckExpired, FindsNoLatest, FindsLatest, Fetches, FallsBack, Loads, Truncates,
       GivesLatestUp, Fills
<1>3. prefs' # Torn => \A t \in EngineTypes : prefs'[t].check <= clock
  <2>1. CASE Fills(c)
    BY <2>1, EditedFields DEF Fills, LoadedToWrite, RewritePcs
  <2> QED
    BY <2>1, StepFields
<1>4. UNCHANGED <<published, until, clock>>
  BY StepFields
<1> QED
  BY <1>1, <1>2, <1>3, <1>4, OthersKeep DEF SameLookup

(***************************************************************************)
(* A session that nobody disturbs: one CLI at a time updates the file.     *)
(***************************************************************************)
\* A version that was still the latest at time x.
Was(u, t, v, x) == v = Unset \/ u[t][v] >= x
Writing(d) == resolver[d].pc \in WritePcs
Rewriting(d) == resolver[d].pc \in RewritePcs
\* The CLI that updates the file is alone; what is in the file was current when checked.
OneUpdates == \A c, d \in Updating : c = d
FileOK == prefs # Torn => \A t \in EngineTypes : Was(until, t, prefs[t].latest, prefs[t].check)
\* So is the version a CLI is about to write, also at the time the file has now ...
VerOK(d) ==
    Writing(d) =>
        /\ resolver[d].ver # Unset /\ Was(until, resolver[d].type, resolver[d].ver, resolver[d].now)
        /\ prefs # Torn => Was(until, resolver[d].type, resolver[d].ver, prefs[resolver[d].type].check)
        /\ resolver[d].pc = "loadCheck" /\ prefs # Torn => prefs[resolver[d].type].latest = resolver[d].ver
\* ... and what it has loaded, which is what is in the file until it truncates it.
MemOK(d) ==
    Rewriting(d) =>
        /\ \A t \in EngineTypes : Was(until, t, resolver[d].mem[t].latest, resolver[d].mem[t].check)
        /\ Was(until, resolver[d].type, resolver[d].ver, resolver[d].mem[resolver[d].type].check)
        /\ resolver[d].pc \in {"writeCheck", "fillCheck"} =>
              resolver[d].mem[resolver[d].type].latest = resolver[d].ver
        /\ prefs \in {resolver[d].mem, Torn}
        /\ resolver[d].pc \in {"fillLatest", "fillCheck"} => prefs = Torn
\* From here on the version served to c must have been the latest.
Since(c) == resolver[c].now - Threshold + 1
\* Whatever is or comes into the file while c reads is recent enough for c.
ReadOK(c) ==
    resolver[c].pc = "readLatest" /\ ~resolver[c].fallback =>
      /\ prefs # Torn => Was(until, resolver[c].type, prefs[resolver[c].type].latest, Since(c))
      /\ \A d \in Resolvers :
           /\ Rewriting(d) =>
                 Was(until, resolver[c].type, resolver[d].mem[resolver[c].type].latest, Since(c))
           /\ Writing(d) /\ resolver[d].type = resolver[c].type =>
                 Was(until, resolver[c].type, resolver[d].ver, Since(c))
\* What c was served is.
CacheOK(c) ==
    resolver[c].from = "cache" =>
        /\ resolver[c].pc = "resolved"
        /\ resolver[c].ver # Unset /\ Was(until, resolver[c].type, resolver[c].ver, Since(c))
Timely ==
   /\ OneUpdates /\ FileOK 
   /\ \A d \in Resolvers : VerOK(d) /\ MemOK(d) /\ ReadOK(d) /\ CacheOK(d)

\* The API answers with a release that nothing has replaced.
LEMMA PublishedIsCurrent ==
  ASSUME VersionTypeOK, Times, NEW t \in EngineTypes
  PROVE  published[t] \in 1..MaxVersion /\ until[t][published[t]] = MaxTime + 1
<1>1. published[t] \in 1..MaxVersion
  BY DEF VersionTypeOK
<1>2. published[t] >= published[t]
  BY <1>1
<1> QED
  BY <1>1, <1>2 DEF Times

\* What was current at a time had been current until then.
LEMMA WasEarlier ==
  ASSUME VersionTypeOK, NEW t \in EngineTypes, NEW v \in 0..MaxVersion, NEW x \in Int, NEW y \in Int, 
         Was(until, t, v, x), y <= x
  PROVE  Was(until, t, v, y)
<1>1. CASE v = Unset
  BY <1>1 DEF Was
<1>2. CASE v # Unset
  <2>1. until[t][v] \in Int
    BY <1>2 DEF VersionTypeOK, Unset
  <2> QED
    BY <1>2, <2>1 DEF Was
<1> QED
  BY <1>1, <1>2

\* A step of c keeps what is known of the lookup of another CLI: while c rewrites the
\* file no other CLI updates it.
LEMMA StepOthers ==
  ASSUME VersionTypeOK, Timely, NEW c \in Resolvers, VersionStep(c) \/ Killed(c), OneUpdates',
         NEW d \in Resolvers, d # c
  PROVE  VerOK(d)' /\ MemOK(d)' /\ CacheOK(d)'
<1>1. SameLookup(d) /\ UNCHANGED until
  BY OthersKeep, StepFields
<1>2. CacheOK(d)'
  BY <1>1 DEF SameLookup, CacheOK, Timely, Since
<1>3. CASE UNCHANGED prefs
  BY <1>1, <1>2, <1>3 DEF SameLookup, VerOK, MemOK, Timely, Writing, Rewriting
<1>4. CASE Truncates(c) \/ Fills(c)
  <2>1. c \in Updating
    BY <1>4 DEF Truncates, Fills, Updating, WritePcs, Goes
  <2>2. ~Writing(d) /\ ~Rewriting(d)
    BY <2>1 DEF Timely, OneUpdates, Updating, Writing, Rewriting, WritePcs, RewritePcs
  <2> QED
    BY <1>1, <1>2, <2>2 DEF SameLookup, VerOK, MemOK, Writing, Rewriting
<1> QED
  BY <1>3, <1>4, StepFields

\* The version is written before the time (lookupLatest): a pair in the file, or on its
\* way there, holds a version that was the latest when the time was taken.
LEMMA StepOwn ==
  ASSUME VersionTypeOK, LoadedToWrite, Times, Timely, NEW c \in Resolvers,
         VersionStep(c) \/ Killed(c), ~OpenRefused(c)
  PROVE  VerOK(c)' /\ MemOK(c)' /\ FileOK'
<1> USE DEF Goes, Keeps, KeepsVersion, KeepsFlags, Writing, Rewriting, WritePcs, RewritePcs, VerOK, MemOK
<1> DEFINE Goal == VerOK(c)' /\ MemOK(c)' /\ FileOK'
<1>u. UNCHANGED <<published, until, clock>>
  BY StepFields
<1>f. UNCHANGED prefs => FileOK'
  BY <1>u DEF Timely, FileOK
<1>1. ASSUME UNCHANGED prefs, \/ Begins(c) \/ LookupEnds(c) \/ FindsCheckRecent(c) \/ FindsCheckExpired(c)
                            \/ FindsNoLatest(c) \/ FindsLatest(c) \/ FallsBack(c)
      PROVE Goal
  <2>1. ~Writing(c)' /\ ~Rewriting(c)'
    BY <1>1, IdleFields DEF Begins, LookupEnds, FindsCheckRecent, FindsCheckExpired, FindsNoLatest,
         FindsLatest, FallsBack
  <2> QED
    BY <1>f, <1>1, <2>1
<1>2. ASSUME UNCHANGED prefs, Fetches(c) PROVE Goal
  <2>0. resolver[c].type \in EngineTypes
    BY FileTypes
  <2>1. /\ published[resolver[c].type] \in 1..MaxVersion
        /\ until[resolver[c].type][published[resolver[c].type]] = MaxTime + 1
    BY <2>0, PublishedIsCurrent
  <2>2. \A x \in 0..MaxTime : Was(until, resolver[c].type, published[resolver[c].type], x)
    BY <2>1 DEF Was
  <2>3. prefs # Torn => prefs[resolver[c].type].check \in 0..MaxTime
    BY FileTypes
  <2>4. VerOK(c)'
    BY <1>2, <1>u, <2>1, <2>2, <2>3, FileTypes DEF Fetches, Unset
  <2> QED
    BY <1>f, <1>2, <2>4 DEF Fetches
<1>3. ASSUME UNCHANGED prefs, Loads(c) PROVE Goal
  <2>1. resolver[c].type \in EngineTypes
    BY FileTypes
  <2>2. VerOK(c)'
    BY <1>3, <1>u DEF Loads, Timely
  <2>3. MemOK(c)'
    BY <1>3, <1>u, <2>1 DEF Loads, Timely, FileOK
  <2> QED
    BY <1>f, <1>3, <2>2, <2>3
<1>4. ASSUME UNCHANGED prefs, GivesLatestUp(c),
             (resolver[c].pc = "loadLatest" /\ prefs = Torn) \/ resolver[c].pc = "fillLatest"
      PROVE Goal
  BY <1>f, <1>4, <1>u DEF GivesLatestUp, Timely
<1>5. ASSUME prefs' = Torn, Truncates(c) PROVE Goal
  BY <1>5, <1>u DEF Truncates, Timely, FileOK
<1>6. ASSUME Fills(c), prefs' # Torn PROVE Goal
  <2> DEFINE r == resolver[c]
  <2>1. /\ r.mem \in [EngineTypes -> [latest : 0..MaxVersion, check : 0..MaxTime]]
        /\ r.type \in EngineTypes
    BY <1>6, FileTypes DEF Fills, LoadedToWrite
  <2>2. prefs' = Edited(c)
    BY <1>6 DEF Fills
  <2>3. FileOK'
    BY <1>6, <1>u, <2>1, <2>2, EditedFields DEF Fills, FileOK, Timely
  <2>4. CASE r.pc = "fillLatest"
    BY <1>6, <1>u, <2>1, <2>2, <2>3, <2>4, EditedFields DEF Fills, GivesLatestUp, Timely
  <2>5. CASE r.pc = "fillCheck"
    BY <1>6, <2>3, <2>5, IdleFields DEF Fills, LookupEnds
  <2> QED
    BY <1>6, <2>4, <2>5 DEF Fills
<1>7. ASSUME Fills(c), prefs' = Torn PROVE Goal
  BY <1>7, <1>u, IdleFields DEF Fills, GivesLatestUp, LookupEnds, FileOK, Timely
<1> QED
  BY <1>1, <1>2, <1>3, <1>4, <1>5, <1>6, <1>7, StepFields DEF LeavesFile

\* A version is served from the cache only by a lookup that found a recent check.
LEMMA StepCache ==
  ASSUME VersionTypeOK, Timely, NEW c \in Resolvers, VersionStep(c) \/ Killed(c)
  PROVE  CacheOK(c)'
<1> USE DEF Goes, Keeps, KeepsVersion, CacheOK, Since
<1>u. UNCHANGED <<published, until, clock>>
  BY StepFields
<1>1. ASSUME FindsLatest(c) PROVE CacheOK(c)'
  BY <1>1, <1>u DEF FindsLatest, Timely, ReadOK, ReadKey, Unset
<1>2. ASSUME ~FindsLatest(c) PROVE CacheOK(c)'
  <2>1. \/ resolver'[c].from = "none"
        \/ resolver[c].pc # "resolved" /\ resolver'[c].from = resolver[c].from
    BY <1>2, StepFields, IdleFields DEF LeavesFile, Begins, LookupEnds, FindsCheckRecent,
         FindsCheckExpired, FindsNoLatest, FallsBack, Fetches, Loads, Truncates, GivesLatestUp,
         Fills
  <2> QED
    BY <2>1 DEF Timely
<1> QED
  BY <1>1, <1>2

\* Between the read of the time and the read of the version the file may be rewritten,
\* but only with a version that is at least as recent.
LEMMA StepRead ==
  ASSUME VersionTypeOK, LoadedToWrite, Times, Timely, NEW c \in Resolvers,
         VersionStep(c) \/ Killed(c), ~OpenRefused(c),
         NEW d \in Resolvers
  PROVE  ReadOK(d)'
<1> USE DEF Goes, Keeps, KeepsVersion, Writing, Rewriting, WritePcs, RewritePcs
<1>u. UNCHANGED <<published, until, clock>>
  BY StepFields
<1>o. \A e \in Resolvers \ {c} : SameLookup(e)
  BY OthersKeep
<1>n. /\ resolver[d].now \in 0..MaxTime
      /\ Since(d) \in Int /\ Since(d) <= MaxTime /\ resolver[d].type \in EngineTypes
  BY FileTypes DEF Since
<1> DEFINE t == resolver[d].type
           CPart == /\ Rewriting(c)' => Was(until, t, resolver'[c].mem[t].latest, Since(d))
                    /\ Writing(c)' /\ resolver'[c].type = t => Was(until, t, resolver'[c].ver, Since(d))
           FilePart == prefs' # Torn => Was(until, t, prefs'[t].latest, Since(d))
<1>1. ASSUME d # c, resolver[d].pc = "readLatest", ~resolver[d].fallback PROVE CPart /\ FilePart
  <2>0. ReadOK(d) /\ VerOK(c) /\ MemOK(c)
    BY DEF Timely
  <2>1. ASSUME UNCHANGED prefs, \/ Begins(c) \/ LookupEnds(c) \/ FindsCheckRecent(c) \/ FindsCheckExpired(c)
                              \/ FindsNoLatest(c) \/ FindsLatest(c) \/ FallsBack(c)
        PROVE CPart /\ FilePart
    <3>1. ~Writing(c)' /\ ~Rewriting(c)'
      BY <2>1, IdleFields DEF Begins, LookupEnds, FindsCheckRecent, FindsCheckExpired, FindsNoLatest,
           FindsLatest, FallsBack
    <3> QED
      BY <2>0, <2>1, <3>1, <1>1 DEF ReadOK
  <2>2. ASSUME UNCHANGED prefs, Fetches(c) PROVE CPart /\ FilePart
    <3>1. t \in EngineTypes /\ published[t] \in 1..MaxVersion
      BY <1>n DEF VersionTypeOK
    <3>2. until[t][published[t]] = MaxTime + 1
      BY <3>1, PublishedIsCurrent
    <3>3. Was(until, t, published[t], Since(d))
      BY <3>1, <3>2, <1>n DEF Was
    <3> QED
      BY <2>0, <2>2, <3>3, <1>1 DEF Fetches, ReadOK
  <2>3. ASSUME UNCHANGED prefs, Loads(c) PROVE CPart /\ FilePart
    BY <2>0, <2>3, <1>1 DEF Loads, ReadOK
  <2>4. ASSUME UNCHANGED prefs, GivesLatestUp(c) PROVE CPart /\ FilePart
    BY <2>0, <2>4, <1>1 DEF GivesLatestUp, ReadOK
  <2>5. ASSUME prefs' = Torn, Truncates(c) PROVE CPart /\ FilePart
    BY <2>0, <2>5, <1>1 DEF Truncates, ReadOK
  <2>6. ASSUME Fills(c) PROVE CPart /\ FilePart
    <3>1. CPart
      BY <2>0, <2>6, <1>1, IdleFields DEF Fills, GivesLatestUp, LookupEnds, ReadOK
    <3>2. prefs' # Torn => prefs' = Edited(c)
      BY <2>6 DEF Fills
    <3>3. Was(until, t, Edited(c)[t].latest, Since(d))
      BY <2>0, <2>6, <1>1, <1>n, EditedFields DEF Fills, ReadOK
    <3> QED
      BY <3>1, <3>2, <3>3
  <2> QED
    BY <2>1, <2>2, <2>3, <2>4, <2>5, <2>6, StepFields DEF LeavesFile
<1>2. CASE d # c
  <2>1. SameLookup(d) /\ Since(d)' = Since(d)
    BY <1>2, <1>o DEF SameLookup, Since
  <2>2. ASSUME resolver[d].pc = "readLatest", ~resolver[d].fallback, NEW e \in Resolvers
        PROVE  /\ Rewriting(e)' => Was(until, t, resolver'[e].mem[t].latest, Since(d))
               /\ Writing(e)' /\ resolver'[e].type = t => Was(until, t, resolver'[e].ver, Since(d))
    <3>1. CASE e = c
      BY <1>1, <1>2, <2>2, <3>1
    <3>2. CASE e # c
      BY <1>o, <2>2, <3>2 DEF SameLookup, Timely, ReadOK
    <3> QED
      BY <3>1, <3>2
  <2> QED
    BY <1>1, <1>2, <1>u, <2>1, <2>2 DEF ReadOK, SameLookup
<1>3. CASE d = c /\ ~FindsCheckRecent(c)
  <2>1. resolver'[c].pc # "readLatest"
    BY <1>3, StepFields, IdleFields DEF LeavesFile, Begins, LookupEnds, FindsCheckExpired,
         FindsNoLatest, FindsLatest, FallsBack, Fetches, Loads, Truncates, GivesLatestUp, Fills
  <2> QED
    BY <1>3, <2>1 DEF ReadOK
<1>4. CASE d = c /\ FindsCheckRecent(c)
  <2>1. /\ UNCHANGED prefs
        /\ resolver'[c].type = t /\ Since(c)' = Since(c)
    BY <1>4, StepFields, IdleFields DEF FindsCheckRecent, Fills, Truncates, Since
  <2>2. /\ prefs # Torn /\ Since(c) <= prefs[t].check
        /\ prefs[t].check \in Int /\ prefs[t].latest \in 0..MaxVersion
    <3>1. resolver[c].now >= Threshold
      BY <1>4 DEF FindsCheckRecent, Times
    <3>2. prefs # Torn
      BY <1>4, <1>n, <3>1 DEF FindsCheckRecent, ReadKey, Unset
    <3> QED
      BY <1>4, <1>n, <3>2, FileTypes DEF FindsCheckRecent, ReadKey, Since
  <2>3. Was(until, t, prefs[t].latest, Since(c))
    BY <1>4, <1>n, <2>2, WasEarlier DEF Timely, FileOK
  <2>4. ASSUME NEW e \in Resolvers
        PROVE  /\ Rewriting(e)' => Was(until, t, resolver'[e].mem[t].latest, Since(c))
               /\ Writing(e)' /\ resolver'[e].type = t => Was(until, t, resolver'[e].ver, Since(c))
    <3>1. CASE e = c
      BY <1>4, <3>1 DEF FindsCheckRecent
    <3>2. CASE e # c
      <4>0. SameLookup(e)
        BY <1>o, <3>2
      <4>1. Rewriting(e) => resolver[e].mem = prefs
        BY <2>2 DEF Timely, MemOK
      <4>2. Writing(e) /\ resolver[e].type = t => Was(until, t, resolver[e].ver, Since(c))
        BY <1>4, <1>n, <2>2, WasEarlier, FileTypes DEF Timely, VerOK
      <4> QED
        BY <4>0, <4>1, <4>2, <2>3 DEF SameLookup
    <3> QED
      BY <3>1, <3>2
  <2> QED
    BY <1>4, <1>u, <2>1, <2>3, <2>4 DEF ReadOK
<1> QED
  BY <1>2, <1>3, <1>4

\* A step of a CLI that nobody disturbs keeps all of it.
LEMMA StepTimely ==
  ASSUME VersionTypeOK, LoadedToWrite, Times, Timely, NEW c \in Resolvers, VersionStep(c) \/ Killed(c),
         OneUpdates', ~OpenRefused(c)
  PROVE  Timely'
<1>1. ASSUME NEW d \in Resolvers PROVE VerOK(d)' /\ MemOK(d)' /\ ReadOK(d)' /\ CacheOK(d)'
  BY StepOwn, StepCache, StepOthers, StepRead
<1> QED
  BY <1>1, StepOwn DEF Timely

\* A release replaces a version now, and no recorded time is later.
LEMMA ReleaseTimely ==
  ASSUME VersionTypeOK, LoadedToWrite, Times, Timely, NEW t0 \in EngineTypes, Release(t0)
  PROVE  Timely'
<1>1. UNCHANGED <<prefs, clock, resolver>>
  BY DEF Release
<1>2. ASSUME NEW t \in EngineTypes, NEW v \in 0..MaxVersion, NEW x \in Int, x <= clock, Was(until, t, v, x)
      PROVE  Was(until', t, v, x)
  <2>1. until' = [until EXCEPT ![t0] = [until[t0] EXCEPT ![published[t0]] = clock]]
    BY DEF Release
  <2>2. v = Unset \/ v \in 1..MaxVersion
    BY DEF Unset
  <2>3. v # Unset => until'[t][v] = clock \/ until'[t][v] = until[t][v]
    BY <2>1, <2>2 DEF VersionTypeOK
  <2> QED
    BY <1>2, <2>3 DEF VersionTypeOK, Was
<1>3. \A d \in Resolvers : /\ resolver[d].now <= clock /\ resolver[d].now \in Int
                           /\ Since(d) <= clock /\ Since(d) \in Int
  <2> TAKE d \in Resolvers
  <2>1. resolver[d].now \in 0..MaxTime /\ clock \in 0..MaxTime /\ Threshold \in 1..MaxTime
    BY FileTypes DEF VersionTypeOK
  <2>2. resolver[d].now <= clock
    BY DEF Times
  <2> QED
    BY <2>1, <2>2 DEF Since
<1> USE FileTypes DEF Timely
<1>4. FileOK'
  BY <1>1, <1>2 DEF FileOK, Times
<1>5. ASSUME NEW d \in Resolvers PROVE VerOK(d)' /\ MemOK(d)' /\ ReadOK(d)' /\ CacheOK(d)'
  <2>1. VerOK(d)'
    BY <1>1, <1>2, <1>3 DEF VerOK, Times, Writing
  <2>2. MemOK(d)'
    BY <1>1, <1>2 DEF MemOK, Times, Rewriting, LoadedToWrite
  <2>3. ReadOK(d)'
    BY <1>1, <1>2, <1>3 DEF ReadOK, Since, Writing, Rewriting, LoadedToWrite
  <2>4. CacheOK(d)'
    BY <1>1, <1>2, <1>3 DEF CacheOK, Since
  <2> QED
    BY <2>1, <2>2, <2>3, <2>4
<1>6. OneUpdates'
  BY <1>1 DEF OneUpdates, Updating
<1> QED
  BY <1>4, <1>5, <1>6

\* A release is the new latest of its engine type.
LEMMA ReleaseTimes ==
  ASSUME VersionTypeOK, Times, NEW t0 \in EngineTypes, Release(t0)
  PROVE  Times' /\ published' \in [EngineTypes -> 1..MaxVersion]
         /\ until' \in [EngineTypes -> [1..MaxVersion -> 0..(MaxTime + 1)]]
<1>1. /\ published[t0] + 1 \in 1..MaxVersion /\ published[t0] \in 1..MaxVersion
      /\ clock \in 0..(MaxTime + 1)
  <2>1. published[t0] \in 1..MaxVersion /\ clock \in 0..MaxTime
    BY DEF VersionTypeOK
  <2>2. published[t0] < MaxVersion
    BY DEF Release
  <2> QED
    BY <2>1, <2>2
<1>2. /\ published' = [published EXCEPT ![t0] = published[t0] + 1]
      /\ until' = [until EXCEPT ![t0] = [until[t0] EXCEPT ![published[t0]] = clock]]
      /\ UNCHANGED <<prefs, clock, resolver>>
  BY DEF Release
<1>3. published' \in [EngineTypes -> 1..MaxVersion]
  BY <1>1, <1>2 DEF VersionTypeOK
<1>4. until' \in [EngineTypes -> [1..MaxVersion -> 0..(MaxTime + 1)]]
  BY <1>1, <1>2 DEF VersionTypeOK
<1>5. ASSUME NEW t \in EngineTypes, NEW v \in 1..MaxVersion, v >= published'[t]
      PROVE  until'[t][v] = MaxTime + 1
  <2>1. published[t] \in 1..MaxVersion
    BY DEF VersionTypeOK
  <2>2. v >= published[t] /\ (t = t0 => v # published[t0])
    <3>1. published'[t] = IF t = t0 THEN published[t0] + 1 ELSE published[t]
      BY <1>2 DEF VersionTypeOK
    <3> QED
      BY <1>1, <1>5, <2>1, <3>1
  <2>3. until[t][v] = MaxTime + 1
    BY <2>2 DEF Times
  <2>4. until'[t][v] = until[t][v]
    BY <1>1, <1>2, <2>2 DEF VersionTypeOK
  <2> QED
    BY <2>3, <2>4
<1> QED
  BY <1>2, <1>3, <1>4, <1>5 DEF Times

\* What the fallback to the cache looks for: a recent check and a version.
Usable(c) ==
    /\ resolver[c].now - ReadKey(resolver[c].type, "check") < Threshold
    /\ ReadKey(resolver[c].type, "latest") # Unset
RacedOK(c) ==
    ~resolver[c].raced =>
        /\ resolver[c].from # "fallback"
        /\ resolver[c].pc = "fetch" /\ resolver[c].allowCached => ~Usable(c)
        /\ resolver[c].pc = "readCheck" /\ resolver[c].fallback => ~Usable(c)
        /\ resolver[c].pc = "readLatest" /\ resolver[c].fallback =>
              ReadKey(resolver[c].type, "latest") = Unset

\* The fallback repeats a test that failed; only a write in between changes its outcome.
LEMMA StepRaced ==
  ASSUME VersionTypeOK, NEW c \in Resolvers, VersionStep(c) \/ Killed(c),
         NEW d \in Resolvers, RacedOK(d)
  PROVE  RacedOK(d)'
<1> USE DEF Goes, Keeps, KeepsVersion, KeepsFlags
<1>1. CASE d = c /\ UNCHANGED prefs
  <2> USE DEF RacedOK, Usable, ReadKey
  <2>1. CASE Begins(c)
    BY <1>1, <2>1 DEF Begins
  <2>2. CASE LookupEnds(c)
    BY <1>1, <2>2, IdleFields DEF LookupEnds
  <2>3. CASE FindsCheckRecent(c)
    BY <1>1, <2>3 DEF FindsCheckRecent
  <2>4. CASE FindsCheckExpired(c)
    <3>1. resolver[c].now \in Int /\ ReadKey(resolver[c].type, "check") \in Int
      BY FileTypes DEF Unset
    <3> QED
      BY <1>1, <2>4, <3>1 DEF FindsCheckExpired
  <2>5. CASE FindsNoLatest(c)
    BY <1>1, <2>5 DEF FindsNoLatest
  <2>6. CASE FindsLatest(c)
    BY <1>1, <2>6 DEF FindsLatest
  <2>7. CASE FallsBack(c)
    BY <1>1, <2>7 DEF FallsBack
  <2>8. CASE Fetches(c) \/ Loads(c) \/ GivesLatestUp(c) \/ Truncates(c)
    BY <1>1, <2>8 DEF Fetches, Loads, GivesLatestUp, Truncates
  <2>9. CASE Fills(c)
    BY <1>1, <2>2, <2>8, <2>9 DEF Fills
  <2> QED
    BY <2>1, <2>2, <2>3, <2>4, <2>5, <2>6, <2>7, <2>8, <2>9, StepFields DEF LeavesFile
<1>2. CASE d = c /\ ~UNCHANGED prefs
  BY <1>2, StepFields, IdleFields DEF Truncates, GivesLatestUp, Fills, LookupEnds, RacedOK
<1>3. CASE d # c
  <2>1. SameLookup(d) /\ (resolver[d].raced => resolver'[d].raced)
    BY <1>3, OthersKeep
  <2>2. CASE UNCHANGED prefs
    BY <2>1, <2>2 DEF RacedOK, Usable, ReadKey, SameLookup
  <2>3. CASE prefs' = Torn
    BY <2>1, <2>3 DEF RacedOK, Usable, ReadKey, SameLookup
  <2>4. CASE WriteFill(c)
    BY <1>3, <2>1, <2>4, OthersKeep DEF RacedOK, Looking, ReadPcs, SameLookup
  <2> QED
    BY <2>2, <2>3, <2>4, StepFields
<1> QED
  BY <1>1, <1>2, <1>3

\* A torn file that nobody is about to fill.
Wrecked == prefs = Torn /\ \A c \in Resolvers : resolver[c].pc \notin RewritePcs

\* Nobody loads a torn file, so nobody rewrites it.
LEMMA StepWrecked ==
  ASSUME VersionTypeOK, Wrecked, NEW c \in Resolvers, VersionStep(c) \/ Killed(c)
  PROVE  Wrecked'
<1>1. prefs' = Torn /\ resolver'[c].pc \notin RewritePcs
  BY StepFields, IdleFields DEF Wrecked, Goes, LeavesFile, Begins, LookupEnds, FindsCheckRecent,
       FindsCheckExpired, FindsNoLatest, FindsLatest, FallsBack, Fetches, Loads, Truncates,
       GivesLatestUp, Fills, RewritePcs
<1> QED
  BY <1>1, OthersKeep DEF Wrecked, SameLookup

\* The inductive invariant: each part rests on the ones above it.
VersionInv ==
    /\ VersionTypeOK /\ LoadedToWrite /\ Times
    /\ ~prefsDisturbed => Timely
    /\ \A c \in Resolvers : RacedOK(c)
    /\ beyondRepair => Wrecked

\* It holds with an empty file and nobody looking a version up.
LEMMA InitVersionInv == VersionInit => VersionInv
<1> SUFFICES ASSUME VersionInit PROVE VersionInv
  OBVIOUS
<1> USE DEF VersionInit
<1>1. \A c \in Resolvers : resolver[c] = Idle
  OBVIOUS
<1>2. VersionTypeOK
  BY VersionInitType
<1>3. LoadedToWrite
  BY <1>1, IdleFields DEF LoadedToWrite, RewritePcs
<1>4. Times
  <2>0. clock \in Nat /\ clock = Threshold
    OBVIOUS
  <2>1. \A c \in Resolvers : resolver[c].now = 0 /\ resolver[c].mem = Torn /\ resolver[c].pc = "idle"
    BY <1>1, IdleFields
  <2>2. prefs # Torn => \A t \in EngineTypes : prefs[t].check <= clock
    BY DEF NoPair, Unset
  <2>3. \A t \in EngineTypes, v \in 1..MaxVersion : until[t][v] = MaxTime + 1
    OBVIOUS
  <2> QED
    BY <2>0, <2>1, <2>2, <2>3 DEF Times
<1>5. Timely
  BY <1>1, IdleFields DEF Timely, OneUpdates, Updating, WritePcs, FileOK, Was, NoPair, VerOK,
       MemOK, ReadOK, CacheOK, Writing, Rewriting, RewritePcs
<1>6. \A c \in Resolvers : RacedOK(c)
  BY <1>1, IdleFields DEF RacedOK
<1> QED
  BY <1>2, <1>3, <1>4, <1>5, <1>6 DEF VersionInv

\* Every step of a CLI, every release and every tick of the clock keeps it.
LEMMA NextVersionInv == VersionInv /\ [VersionNext]_versionVars => VersionInv'
<1> SUFFICES ASSUME VersionInv, [VersionNext]_versionVars PROVE VersionInv'
  OBVIOUS
<1>b. prefsDisturbed' \in BOOLEAN /\ beyondRepair' \in BOOLEAN
  <2>1. CASE VersionNext
    <3>1. prefsDisturbed' \in BOOLEAN
      BY <2>1, Zenon DEF VersionNext
    <3>2. beyondRepair' \in BOOLEAN
      BY <2>1, Zenon DEF VersionNext
    <3> QED
      BY <3>1, <3>2
  <2>2. CASE UNCHANGED versionVars
    BY <2>2 DEF versionVars, VersionInv, VersionTypeOK
  <2> QED
    BY <2>1, <2>2
<1>1. ASSUME VersionNext, NEW c \in Resolvers, VersionStep(c) \/ Killed(c) PROVE VersionInv'
  <2>1. VersionTypeOK'
    BY <1>1, <1>b, LookupStepType, StepFields DEF VersionInv, VersionTypeOK, LoadedToWrite
  <2>2. LoadedToWrite' /\ Times'
    BY <1>1, StepLoadedToWrite, StepTimes DEF VersionInv
  <2>3. ~prefsDisturbed' => Timely'
    BY <1>1, StepTimely DEF VersionInv, VersionNext, OneUpdates
  <2>4. \A d \in Resolvers : RacedOK(d)'
    BY <1>1, StepRaced DEF VersionInv
  <2>5. beyondRepair' => Wrecked'
    BY <1>1, StepWrecked DEF VersionInv, VersionNext, Wrecked
  <2> QED
    BY <2>1, <2>2, <2>3, <2>4, <2>5 DEF VersionInv
<1>2. ASSUME VersionNext, NEW t \in EngineTypes, Release(t) PROVE VersionInv'
  <2>1. VersionTypeOK'
    BY <1>2, <1>b, ReleaseTimes DEF VersionInv, VersionTypeOK, Release
  <2>2. LoadedToWrite' /\ Times'
    BY <1>2, ReleaseTimes DEF VersionInv, LoadedToWrite, Release
  <2>3. ~prefsDisturbed' => Timely'
    BY <1>2, ReleaseTimely DEF VersionInv, VersionNext
  <2>4. \A d \in Resolvers : RacedOK(d)'
    BY <1>2 DEF VersionInv, RacedOK, Usable, ReadKey, Release
  <2>5. beyondRepair' => Wrecked'
    BY <1>2 DEF VersionInv, VersionNext, Wrecked, Release
  <2> QED
    BY <2>1, <2>2, <2>3, <2>4, <2>5 DEF VersionInv
<1>3. ASSUME VersionNext, Tick PROVE VersionInv'
  <2> USE DEF Tick
  <2>1. VersionTypeOK'
    <3>1. clock' \in 0..MaxTime
      BY <1>3 DEF VersionInv, VersionTypeOK
    <3>2. UNCHANGED <<prefs, published, until, resolver>>
      BY <1>3
    <3> QED
      BY ONLY <3>1, <3>2, <1>b, VersionInv DEF VersionInv, VersionTypeOK
  <2>2. LoadedToWrite' /\ Times'
    <3>1. clock \in Nat /\ clock' = clock + 1 /\ UNCHANGED <<prefs, published, until, resolver>>
      BY <1>3 DEF VersionInv, VersionTypeOK
    <3>2. \A x \in Int : x <= clock => x <= clock'
      BY <3>1
    <3> QED
      BY <3>1, <3>2, FileTypes DEF VersionInv, LoadedToWrite, Times
  <2>3. ~prefsDisturbed' => Timely'
    BY <1>3, ZenonT(60) DEF VersionInv, VersionNext, Timely, OneUpdates, Updating, FileOK, VerOK, MemOK,
         ReadOK, CacheOK, Since, Writing, Rewriting
  <2>4. \A d \in Resolvers : RacedOK(d)'
    BY <1>3 DEF VersionInv, RacedOK, Usable, ReadKey
  <2>5. beyondRepair' => Wrecked'
    BY <1>3 DEF VersionInv, VersionNext, Wrecked
  <2> QED
    BY <2>1, <2>2, <2>3, <2>4, <2>5 DEF VersionInv
<1>4. CASE UNCHANGED versionVars
  <2> USE <1>4 DEF versionVars
  <2>1. VersionTypeOK' /\ LoadedToWrite' /\ Times'
    BY DEF VersionInv, VersionTypeOK, LoadedToWrite, Times
  <2>2. \A d \in Resolvers :
          /\ VerOK(d)' <=> VerOK(d)
          /\ MemOK(d)' <=> MemOK(d)
          /\ ReadOK(d)' <=> ReadOK(d)
          /\ CacheOK(d)' <=> CacheOK(d)
    BY DEF VerOK, MemOK, ReadOK, CacheOK, Since, Writing, Rewriting
  <2>3. ~prefsDisturbed' => Timely'
    BY <2>2 DEF VersionInv, Timely, OneUpdates, Updating, FileOK
  <2>4. \A d \in Resolvers : RacedOK(d)'
    BY DEF VersionInv, RacedOK, Usable, ReadKey
  <2>5. beyondRepair' => Wrecked'
    BY DEF VersionInv, Wrecked
  <2> QED
    BY <2>1, <2>3, <2>4, <2>5 DEF VersionInv
<1> QED
  BY <1>1, <1>2, <1>3, <1>4 DEF VersionNext

\* Hence it holds in every reachable state.
THEOREM VersionInvHolds == VersionSpec => []VersionInv
  BY InitVersionInv, NextVersionInv, PTL DEF VersionSpec

\* A version served from the cache was the latest within the threshold before the
\* command began, for any number of CLIs, engine types and releases (version.go:17-141).
THEOREM RecentServed == VersionSpec => []ServedIsRecent
<1>1. VersionInv => ServedIsRecent
  <2> SUFFICES ASSUME VersionInv, NEW c \in Resolvers, resolver[c].from = "cache", ~prefsDisturbed
               PROVE  until[resolver[c].type][resolver[c].ver] > resolver[c].now - Threshold
    BY DEF ServedIsRecent
  <2>1. resolver[c].ver # Unset /\ Was(until, resolver[c].type, resolver[c].ver, Since(c))
    BY DEF VersionInv, Timely, CacheOK
  <2>2. /\ resolver[c].type \in EngineTypes /\ resolver[c].ver \in 0..MaxVersion
        /\ resolver[c].now \in 0..MaxTime
    BY FileTypes DEF VersionInv
  <2>3. until[resolver[c].type][resolver[c].ver] \in 0..(MaxTime + 1)
    <3>1. resolver[c].ver \in 1..MaxVersion
      BY <2>1, <2>2 DEF Unset
    <3> QED
      BY <2>2, <3>1 DEF VersionInv, VersionTypeOK
  <2> QED
    BY <2>1, <2>2, <2>3 DEF Was, Since
<1> QED
  BY <1>1, VersionInvHolds, PTL

\* The fallback to the cache never serves a version unless another CLI wrote the file
\* meanwhile (version.go:122-131).
THEOREM FallbackNeedsWriter == VersionSpec => []FallbackNeedsAnotherWriter
<1>1. VersionInv => FallbackNeedsAnotherWriter
  BY DEF VersionInv, RacedOK, FallbackNeedsAnotherWriter
<1> QED
  BY <1>1, VersionInvHolds, PTL

\* A preferences file that was left torn is never repaired (prefs.go:107-110).
THEOREM TornStays == VersionSpec => []TornStaysTorn
<1>1. VersionInv => TornStaysTorn
  BY DEF VersionInv, Wrecked, TornStaysTorn
<1> QED
  BY <1>1, VersionInvHolds, PTL

\* The preferences file and the lookups keep the shape the code gives them.
THEOREM VersionsTypeCorrect == VersionSpec => []VersionTypeOK
<1>1. VersionInv => VersionTypeOK
  BY DEF VersionInv
<1> QED
  BY <1>1, VersionInvHolds, PTL

-----------------------------------------------------------------------------
(* The components together. *)

provisioningVars == <<versionVars, binariesVars, pluginVars, recorderVars, scaffoldVars, part>>

\* Every behaviour of the composition is one of each component: a step moves one
\* of them and leaves the files of the others alone.
LEMMA VersionPart == Spec => VersionSpec
<1>1. Init => VersionInit
  BY DEF Init
<1>2. [Next]_provisioningVars => [VersionNext]_versionVars
  BY DEF Next, provisioningVars
<1> QED
  BY <1>1, <1>2, PTL DEF Spec, VersionSpec, provisioningVars

LEMMA BinariesPart == Spec => BinariesSpec
<1>1. Init => BinariesInit
  BY DEF Init
<1>2. [Next]_provisioningVars => [BinariesNext]_binariesVars
  BY DEF Next, provisioningVars
<1> QED
  BY <1>1, <1>2, PTL DEF Spec, BinariesSpec, provisioningVars

LEMMA PluginPart == Spec => PluginSpec
<1>1. Init => PluginInit
  BY DEF Init
<1>2. [Next]_provisioningVars => [PluginNext]_pluginVars
  BY DEF Next, provisioningVars
<1> QED
  BY <1>1, <1>2, PTL DEF Spec, PluginSpec, provisioningVars

LEMMA RecorderPart == Spec => RecorderSpec
<1>1. Init => RecorderInit
  BY DEF Init
<1>2. [Next]_provisioningVars => [RecorderNext]_recorderVars
  BY DEF Next, provisioningVars
<1> QED
  BY <1>1, <1>2, PTL DEF Spec, RecorderSpec, provisioningVars

LEMMA ScaffoldPart == Spec => ScaffoldSpec
<1>1. Init => ScaffoldInit
  BY DEF Init
<1>2. [Next]_provisioningVars => [ScaffoldNext]_scaffoldVars
  BY DEF Next, provisioningVars
<1> QED
  BY <1>1, <1>2, PTL DEF Spec, ScaffoldSpec, provisioningVars

\* What a command that was cut short leaves damaged stays so, whatever the other
\* components do: a torn preferences file (prefs.go:107-110) and a half-written
\* Lambda bundle (awslambda/binary.go:88-98).
THEOREM DamageStays == Spec => []DamageLasts
  BY VersionPart, BinariesPart, TornStays, PartialLambdaStays, PTL DEF DamageLasts

\* The components keep together what each keeps alone: a command that prepares one
\* kind of file cannot spoil what another promises of its own.
THEOREM PromisesCompose ==
    Spec => /\ [](ServedIsRecent /\ FallbackNeedsAnotherWriter)
            /\ [](MovedBinaryIsWhole /\ ForcedPullRepairs)
            /\ [](MockAnswersAsUpstream /\ OnlyFailuresAreMissing)
            /\ []SuccessCoversSpecs /\ UnforcedKeepsUserFiles
            /\ PluginsAsAsked /\ DefaultsAsAsked
  BY VersionPart, BinariesPart, PluginPart, RecorderPart, ScaffoldPart, RecentServed, FallbackNeedsWriter,
     MovedIsWhole, ForcedRepairs, MockIsFaithful, OnlyFailuresMiss, SuccessCovers, UserFilesKept,
     PluginsHandledAsAsked, DefaultsSavedAsAsked, PTL

\* The files of the five components, and the commands at them, are what the modules say
\* they are, whichever of them a command is at.
THEOREM TypesCompose == Spec => []TypeOK
  BY VersionPart, BinariesPart, PluginPart, RecorderPart, ScaffoldPart, VersionsTypeCorrect,
     BinariesTypeCorrect, PluginTypeCorrect, RecorderTypeCorrect, ScaffoldTypeCorrect, PTL DEF TypeOK
=============================================================================
