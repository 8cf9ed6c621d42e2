---------------------------- MODULE RemotesProofs ----------------------------
(***************************************************************************)
(* What holds of deployments to AWS Lambda, for any number of CLIs that    *)
(* deploy and undeploy one function, any configurations of theirs, and     *)
(* wherever a request fails or a command is killed: the account stays      *)
(* consistent, and a deploy that reports success, and that no other CLI    *)
(* met, has delivered what it was configured to.  Then that the two        *)
(* remotes and the detached mocks keep together what each keeps alone.     *)
(***************************************************************************)
EXTENDS MCRemotes, MocksCloudProofs, ManagedMocksProofs, TLAPS

RolePcs    == {"getRole", "createRole", "attach"}
BucketPcs  == {"package", "bucketName", "headBucket", "createBucket", "upload"}
CodePcs    == {"getFunction", "createFunction", "snapStart", "updateCode"}
VersionPcs == {"awaitFunction", "publish", "awaitVersion"}
AliasPcs   == {"getAlias", "createAlias", "updateAlias"}
UrlPcs     == {"getUrl", "createUrl", "access"}
CodedPcs   == VersionPcs \cup AliasPcs \cup UrlPcs
LambdaPcs  == LambdaEnds \cup RolePcs \cup BucketPcs \cup CodePcs \cup CodedPcs \cup {"checkExists", "delete"}

Versions == [code : Bundles, snapStart : BOOLEAN]

Deploys == [pc : LambdaPcs, cfg : DeployConfigs, bucket : Deployers \cup {Nothing},
            target : Versions \cup {Nothing}, met : BOOLEAN]

\* The account: the resources' types, and what goes with a function goes with it.
Account ==
    /\ role \in {"none", "bare", "attached"}
    /\ bucketName \in Deployers \cup {Nothing}
    /\ buckets \in [Deployers -> BOOLEAN] /\ objects \in [Deployers -> Bundles \cup {Nothing}]
    /\ \A b \in Deployers : objects[b] # Nothing => buckets[b]
    /\ function \in FunctionRecords \cup {Nothing}
    /\ DOMAIN versions \subseteq Versions
    /\ \A v \in DOMAIN versions : versions[v] \in VersionStates
    /\ alias \in DOMAIN versions \cup {Latest, Nothing}
    /\ urls \subseteq {"function", "alias"} /\ perms \subseteq {"function", "alias"}
    /\ function = Nothing => versions = <<>> /\ alias = Nothing /\ urls = {} /\ perms = {}

\* Of two commands that run, each has met another.
LambdaAlone == \A c, d \in Deployers : c # d /\ Deploying(c) /\ Deploying(d) => deployer[c].met

\* A role without its policy is about to get it, or was left behind.
BareRole == role = "bare" => policyCut \/ \E d \in Deployers : deployer[d].pc = "attach"

\* A deploy has the bucket it puts its bundle in, and then the bundle is there.
HasBucket(d) ==
    /\ deployer[d].pc \in {"headBucket", "createBucket", "upload"} => deployer[d].bucket \in Deployers
    /\ deployer[d].pc = "upload" => buckets[deployer[d].bucket]
    /\ deployer[d].pc \in CodePcs /\ deployer[d].cfg.uploadToS3 =>
         deployer[d].bucket \in Deployers /\ objects[deployer[d].bucket] # Nothing

\* Only a deploy configured so publishes a version or makes an alias.
Configured(d) ==
    /\ deployer[d].pc \in VersionPcs => deployer[d].cfg.publishVersion
    /\ deployer[d].pc \in AliasPcs => deployer[d].cfg.createAlias

\* The function is what d was to deploy.
Coded(d) ==
    /\ function # Nothing /\ function.code = Bundle(deployer[d].cfg)
    /\ SupportsSnapStart(deployer[d].cfg) => function.snapStart = deployer[d].cfg.snapStart

\* What a deploy that met no other has achieved when it has come to its step.
Delivered(d) ==
    LET cfg == deployer[d].cfg
        pc == deployer[d].pc
        target == deployer[d].target
    IN ~deployer[d].met =>
         /\ pc \in BucketPcs \cup CodePcs \cup CodedPcs => role = "attached" \/ policyCut
         /\ pc \in CodePcs => Location(d) = Bundle(cfg)
         /\ pc \in {"snapStart", "updateCode"} => function # Nothing
         /\ pc = "updateCode" /\ SupportsSnapStart(cfg) => function.snapStart = cfg.snapStart
         /\ pc \in CodedPcs => Coded(d)
         /\ pc \in {"awaitVersion"} \cup AliasPcs \cup UrlPcs /\ cfg.publishVersion =>
              target \in Versions /\ target.code = Bundle(cfg)
         /\ pc \in AliasPcs \cup UrlPcs /\ cfg.publishVersion =>
              target \in DOMAIN versions /\ versions[target] # "pending"
         /\ pc \in UrlPcs /\ cfg.createAlias => alias = Target(d)
         /\ pc = "access" => Endpoint(cfg) \in urls

LambdaInv ==
    /\ Account /\ deployer \in [Deployers -> Deploys] /\ policyCut \in BOOLEAN
    /\ LambdaAlone /\ BareRole
    /\ \A d \in Deployers : HasBucket(d) /\ Configured(d) /\ Delivered(d)
-----------------------------------------------------------------------------
USE DeployConfigsAssumption, NothingAssumption

\* A command that does nothing, or has ended.
LEMMA NoDeployType ==
    /\ NoDeploy \in Deploys /\ NoDeploy.pc = "idle" /\ NoDeploy.cfg \in DeployConfigs
    /\ NoDeploy.bucket = Nothing /\ NoDeploy.target = Nothing /\ NoDeploy.met = FALSE
<1> DEFINE c0 == CHOOSE c \in DeployConfigs : TRUE
           no == FALSE
<1>1. c0 \in DeployConfigs /\ no \in BOOLEAN
  OBVIOUS
<1>2. NoDeploy = [pc |-> "idle", cfg |-> c0, bucket |-> Nothing, target |-> Nothing, met |-> no]
  BY Zenon DEF NoDeploy
<1>3. no = FALSE
  OBVIOUS
<1> HIDE DEF c0, no
<1> QED
  BY <1>1, <1>2, <1>3 DEF Deploys, LambdaPcs, LambdaEnds

\* Nothing is there at first.
LEMMA LambdaInitInv == LambdaInit => LambdaInv
<1> SUFFICES ASSUME LambdaInit PROVE LambdaInv
  OBVIOUS
<1>1. \A d \in Deployers : deployer[d] = NoDeploy
  BY DEF LambdaInit
<1>2. deployer \in [Deployers -> Deploys]
  BY NoDeployType DEF LambdaInit
<1>3. Account
  <2>1. DOMAIN versions = {}
    BY DEF LambdaInit
  <2> QED
    BY <2>1 DEF LambdaInit, Account
<1>4. LambdaAlone
  BY <1>1, NoDeployType DEF LambdaAlone, Deploying, LambdaEnds
<1>5. policyCut \in BOOLEAN /\ BareRole
  BY Zenon DEF LambdaInit, BareRole
<1>6. \A d \in Deployers : HasBucket(d) /\ Configured(d) /\ Delivered(d)
  BY <1>1, NoDeployType
     DEF HasBucket, Configured, Delivered, RolePcs, BucketPcs, CodePcs, VersionPcs, AliasPcs,
         UrlPcs, CodedPcs
<1> QED
  BY <1>2, <1>3, <1>4, <1>5, <1>6 DEF LambdaInv

\* Every other command stays as it is.
OtherDeployersStay(d) == \A e \in Deployers : e # d => deployer'[e] = deployer[e]

\* The history of roles left without their policy.
PolicyHistory ==
    policyCut' = (policyCut \/ \E d \in Deployers :
                    deployer'[d].pc = "idle" /\ deployer[d].pc \in {"createRole", "attach"})

\* Buckets and their objects are not deleted.
Grows == \A b \in Deployers : (buckets[b] => buckets'[b]) /\ (objects[b] # Nothing => objects'[b] # Nothing)

\* A role is bare after a step of d only if it was, or if d is at it.
RoleStep(d) ==
    role' = "bare" =>
        \/ role = "bare" /\ deployer[d].pc # "attach"
        \/ deployer'[d].pc = "attach"
        \/ deployer'[d].pc = "idle" /\ deployer[d].pc \in {"createRole", "attach"}

\* What d has achieved.
Progress(d) == HasBucket(d) /\ Configured(d) /\ Delivered(d)

\* A command that has ended promises nothing more.
LEMMA EndProgress ==
  ASSUME NEW d \in Deployers, deployer'[d].pc \in LambdaEnds
  PROVE  Progress(d)'
<1>1. /\ deployer'[d].pc \notin {"headBucket", "createBucket", "upload"}
      /\ deployer'[d].pc \notin CodePcs \cup VersionPcs \cup AliasPcs \cup UrlPcs \cup CodedPcs \cup BucketPcs
      /\ deployer'[d].pc \notin {"snapStart", "updateCode", "awaitVersion", "access"}
  BY DEF LambdaEnds, RolePcs, BucketPcs, CodePcs, VersionPcs, AliasPcs, UrlPcs, CodedPcs
<1> QED
  BY <1>1 DEF Progress, HasBucket, Configured, Delivered

\* The fields of the command that goes on to pc.
LEMMA ReadThenFields ==
  ASSUME deployer \in [Deployers -> Deploys], NEW d \in Deployers, NEW pc \in LambdaPcs, ReadThen(d, pc)
  PROVE  /\ deployer' \in [Deployers -> Deploys] /\ OtherDeployersStay(d) /\ deployer'[d].pc = pc
         /\ pc \notin LambdaEnds =>
              /\ deployer'[d].cfg = deployer[d].cfg /\ deployer'[d].bucket = deployer[d].bucket
              /\ deployer'[d].target = deployer[d].target /\ deployer'[d].met = deployer[d].met
<1>1. CASE pc \in LambdaEnds
  <2>1. [NoDeploy EXCEPT !.pc = pc] \in Deploys
    BY NoDeployType DEF Deploys
  <2>2. deployer' = [deployer EXCEPT ![d] = [NoDeploy EXCEPT !.pc = pc]]
    BY <1>1 DEF ReadThen
  <2> QED
    BY <1>1, <2>1, <2>2, NoDeployType DEF OtherDeployersStay, Deploys
<1>2. CASE pc \notin LambdaEnds
  <2> DEFINE s == [deployer[d] EXCEPT !.pc = pc]
  <2>1. /\ s \in Deploys /\ s.pc = pc /\ s.cfg = deployer[d].cfg /\ s.bucket = deployer[d].bucket
        /\ s.target = deployer[d].target /\ s.met = deployer[d].met
    BY DEF Deploys
  <2>2. deployer' = [deployer EXCEPT ![d] = s]
    BY <1>2 DEF ReadThen
  <2> HIDE DEF s
  <2> QED
    BY <2>1, <2>2 DEF OtherDeployersStay
<1> QED
  BY <1>1, <1>2

\* A step of a running command leaves the others as they are: they run with it, so
\* they have met it.
LEMMA LambdaAssemble ==
  ASSUME LambdaInv, NEW d \in Deployers, Deploying(d), PolicyHistory,
         deployer' \in [Deployers -> Deploys], OtherDeployersStay(d),
         Deploying(d)' => deployer'[d].met = deployer[d].met,
         Account', Grows, RoleStep(d), Progress(d)'
  PROVE  LambdaInv'
<1>1. policyCut' \in BOOLEAN /\ (policyCut => policyCut')
  BY Zenon DEF PolicyHistory
<1>2. LambdaAlone'
  BY DEF LambdaInv, LambdaAlone, OtherDeployersStay, Deploying
<1>3. BareRole'
  <2>1. CASE role = "bare" /\ deployer[d].pc # "attach"
    BY <1>1, <2>1 DEF LambdaInv, BareRole, OtherDeployersStay
  <2>2. CASE deployer'[d].pc = "attach"
    BY <2>2 DEF BareRole
  <2>3. CASE deployer'[d].pc = "idle" /\ deployer[d].pc \in {"createRole", "attach"}
    BY <2>3, Zenon DEF BareRole, PolicyHistory
  <2> QED
    BY <2>1, <2>2, <2>3 DEF BareRole, RoleStep
<1>4. ASSUME NEW e \in Deployers, e # d PROVE Progress(e)'
  <2>1. deployer'[e] = deployer[e]
    BY <1>4 DEF OtherDeployersStay
  <2>2. CASE deployer'[e].pc \in LambdaEnds
    BY <2>2, EndProgress
  <2>3. CASE deployer[e].pc \notin LambdaEnds
    <3>1. deployer[e].met
      BY <1>4, <2>3 DEF LambdaInv, LambdaAlone, Deploying
    <3>2. HasBucket(e)'
      BY <2>1, <1>4 DEF LambdaInv, HasBucket, Grows
    <3>3. Configured(e)' /\ Delivered(e)'
      BY <2>1, <3>1, <1>4 DEF LambdaInv, Configured, Delivered
    <3> QED
      BY <3>2, <3>3 DEF Progress
  <2> QED
    BY <2>1, <2>2, <2>3
<1> QED
  BY <1>1, <1>2, <1>3, <1>4 DEF LambdaInv, Progress

\* So it is enough to look at what d has achieved where it goes on.
LEMMA StepKept ==
  ASSUME LambdaInv, NEW d \in Deployers, Deploying(d), PolicyHistory,
         NEW pc \in LambdaPcs, ReadThen(d, pc), Account', Grows, RoleStep(d),
         pc \notin LambdaEnds => Progress(d)'
  PROVE  LambdaInv'
<1>1. deployer \in [Deployers -> Deploys]
  BY DEF LambdaInv
<1>2. Progress(d)'
  <2>1. CASE pc \in LambdaEnds
    BY <1>1, <2>1, ReadThenFields, EndProgress
  <2> QED
    BY <2>1
<1>3. /\ deployer' \in [Deployers -> Deploys] /\ OtherDeployersStay(d)
      /\ Deploying(d)' => deployer'[d].met = deployer[d].met
  BY <1>1, ReadThenFields DEF Deploying
<1> QED
  BY <1>2, <1>3, LambdaAssemble

\* The fields of a command that is at the step pc.
SameCommand(d, pc) ==
    /\ deployer'[d].pc = pc
    /\ deployer'[d].cfg = deployer[d].cfg /\ deployer'[d].bucket = deployer[d].bucket
    /\ deployer'[d].target = deployer[d].target /\ deployer'[d].met = deployer[d].met

\* The sets of steps, by their members.
LEMMA Steps ==
  /\ LambdaEnds = {"idle", "deployed"}
  /\ CodePcs = {"getFunction", "createFunction", "snapStart", "updateCode"}
  /\ VersionPcs = {"awaitFunction", "publish", "awaitVersion"}
  /\ AliasPcs = {"getAlias", "createAlias", "updateAlias"}
  /\ UrlPcs = {"getUrl", "createUrl", "access"}
  /\ BucketPcs = {"package", "bucketName", "headBucket", "createBucket", "upload"}
  /\ CodedPcs = VersionPcs \cup AliasPcs \cup UrlPcs
  /\ LambdaPcs = {"idle", "deployed", "getRole", "createRole", "attach", "package", "bucketName", "headBucket",
                  "createBucket", "upload", "getFunction", "createFunction", "snapStart", "updateCode",
                  "awaitFunction", "publish", "awaitVersion", "getAlias", "createAlias", "updateAlias",
                  "getUrl", "createUrl", "access", "checkExists", "delete"}
  BY DEF LambdaEnds, RolePcs, BucketPcs, CodePcs, VersionPcs, AliasPcs, UrlPcs, CodedPcs, LambdaPcs

\* A request that changes nothing.
LEMMA QuietKept ==
  ASSUME LambdaInv, NEW d \in Deployers, Deploying(d), PolicyHistory,
         NEW pc \in LambdaPcs, ReadThen(d, pc), UNCHANGED <<role, bucketVars, functionVars>>,
         deployer[d].pc = "attach" => pc = "idle",
         pc \notin LambdaEnds => Progress(d)'
  PROVE  LambdaInv'
<1>1. Account' /\ Grows
  BY DEF LambdaInv, Account, Grows, bucketVars, functionVars
<1>2. deployer'[d].pc = pc
  BY ReadThenFields DEF LambdaInv
<1>3. RoleStep(d)
  BY <1>2 DEF RoleStep, LambdaInv, Account
<1> QED
  BY <1>1, <1>3, StepKept

\* A request fails and the command with it.
LEMMA RequestFailsKept ==
  ASSUME LambdaInv, PolicyHistory, NEW d \in Deployers, RequestFails(d)
  PROVE  LambdaInv'
  BY QuietKept, Steps DEF RequestFails

\* The role is there or has to be created.
LEMMA IamRoleKept ==
  ASSUME LambdaInv, PolicyHistory, NEW d \in Deployers, EnsureIamRole(d)
  PROVE  LambdaInv'
<1> DEFINE pc == IF role = "none" THEN "createRole" ELSE "package"
<1>1. /\ deployer[d].pc = "getRole" /\ Deploying(d) /\ pc \in LambdaPcs /\ ReadThen(d, pc)
      /\ UNCHANGED <<role, bucketVars, functionVars>>
  BY Steps DEF EnsureIamRole, InStep, Deploying
<1>2. /\ deployer'[d].pc = pc /\ deployer'[d].met = deployer[d].met
  BY <1>1, ReadThenFields, Steps DEF LambdaInv
<1>3. pc = "package" /\ ~deployer[d].met => role = "attached" \/ policyCut
  <2> SUFFICES ASSUME role = "bare", ~deployer[d].met PROVE policyCut
    BY DEF LambdaInv, Account
  <2> QED
    BY <1>1, Steps DEF LambdaInv, BareRole, LambdaAlone, Deploying
<1>4. policyCut => policyCut'
  BY Zenon DEF PolicyHistory
<1>5. Progress(d)'
  BY <1>1, <1>2, <1>3, <1>4, Steps DEF Progress, HasBucket, Configured, Delivered
<1> HIDE DEF pc
<1> QED
  BY <1>1, <1>5, QuietKept

\* The bundle is uploaded to a bucket only if so configured.
LEMMA PackageKept ==
  ASSUME LambdaInv, PolicyHistory, NEW d \in Deployers, CreateDeploymentPackage(d)
  PROVE  LambdaInv'
<1> DEFINE pc == IF deployer[d].cfg.uploadToS3 THEN "bucketName" ELSE "getFunction"
<1>1. /\ deployer[d].pc = "package" /\ Deploying(d) /\ pc \in LambdaPcs /\ ReadThen(d, pc)
      /\ UNCHANGED <<role, bucketVars, functionVars>>
  BY Steps DEF CreateDeploymentPackage, InStep, Deploying
<1>2. /\ deployer'[d].pc = pc /\ deployer'[d].met = deployer[d].met /\ deployer'[d].cfg = deployer[d].cfg
  BY <1>1, ReadThenFields, Steps DEF LambdaInv
<1>3. Delivered(d)
  BY DEF LambdaInv
<1>4. policyCut => policyCut'
  BY Zenon DEF PolicyHistory
<1>5. Progress(d)'
  BY <1>1, <1>2, <1>3, <1>4, Steps DEF Progress, HasBucket, Configured, Delivered, Location
<1> HIDE DEF pc
<1> QED
  BY <1>1, <1>5, QuietKept

\* The bucket is there or has to be created.
LEMMA EnsureBucketKept ==
  ASSUME LambdaInv, PolicyHistory, NEW d \in Deployers, EnsureBucket(d)
  PROVE  LambdaInv'
<1>1. PICK pc \in {"upload", "createBucket"} :
        ReadThen(d, pc) /\ (pc = "upload" => buckets[deployer[d].bucket])
  BY DEF EnsureBucket
<1>2. /\ deployer[d].pc = "headBucket" /\ Deploying(d) /\ pc \in LambdaPcs
      /\ UNCHANGED <<role, bucketVars, functionVars>>
  BY Steps DEF EnsureBucket, InStep, Deploying
<1>3. /\ deployer'[d].pc = pc /\ deployer'[d].met = deployer[d].met
      /\ deployer'[d].bucket = deployer[d].bucket
  BY <1>1, <1>2, ReadThenFields, Steps DEF LambdaInv
<1>4. Delivered(d) /\ HasBucket(d)
  BY DEF LambdaInv
<1>5. policyCut => policyCut'
  BY Zenon DEF PolicyHistory
<1>6. Progress(d)'
  BY <1>1, <1>2, <1>3, <1>4, <1>5, Steps DEF Progress, HasBucket, Configured, Delivered, bucketVars
<1> QED
  BY <1>1, <1>2, <1>6, QuietKept

\* The function is there or has to be created.
LEMMA EnsureFunctionKept ==
  ASSUME LambdaInv, PolicyHistory, NEW d \in Deployers, EnsureFunctionExists(d)
  PROVE  LambdaInv'
<1> DEFINE pc == IF function = Nothing THEN "createFunction"
                 ELSE IF SupportsSnapStart(deployer[d].cfg) THEN "snapStart" ELSE "updateCode"
<1>1. /\ deployer[d].pc = "getFunction" /\ Deploying(d) /\ pc \in LambdaPcs /\ ReadThen(d, pc)
      /\ UNCHANGED <<role, bucketVars, functionVars>>
  BY Steps DEF EnsureFunctionExists, InStep, Deploying
<1>2. /\ deployer'[d].pc = pc /\ deployer'[d].met = deployer[d].met /\ deployer'[d].cfg = deployer[d].cfg
      /\ deployer'[d].bucket = deployer[d].bucket
  BY <1>1, ReadThenFields, Steps DEF LambdaInv
<1>3. Delivered(d) /\ HasBucket(d)
  BY DEF LambdaInv
<1>4. policyCut => policyCut'
  BY Zenon DEF PolicyHistory
<1>5. Progress(d)'
  BY <1>1, <1>2, <1>3, <1>4, Steps
     DEF Progress, HasBucket, Configured, Delivered, Location, bucketVars, functionVars
<1> HIDE DEF pc
<1> QED
  BY <1>1, <1>5, QuietKept

\* The alias is there or has to be created.
LEMMA GetAliasKept ==
  ASSUME LambdaInv, PolicyHistory, NEW d \in Deployers, GetAlias(d)
  PROVE  LambdaInv'
<1> DEFINE pc == IF alias = Nothing THEN "createAlias" ELSE "updateAlias"
<1>1. /\ deployer[d].pc = "getAlias" /\ Deploying(d) /\ pc \in LambdaPcs /\ ReadThen(d, pc)
      /\ UNCHANGED <<role, bucketVars, functionVars>>
  BY Steps DEF GetAlias, InStep, Deploying
<1>2. pc \notin LambdaEnds => SameCommand(d, pc)
  BY <1>1, ReadThenFields DEF SameCommand, LambdaInv
<1>3. Progress(d)
  BY DEF LambdaInv, Progress
<1>4. policyCut => policyCut'
  BY Zenon DEF PolicyHistory
<1>5. pc \notin LambdaEnds => Progress(d)'
  BY <1>1, <1>2, <1>3, <1>4, Steps
     DEF SameCommand, Progress, HasBucket, Configured, Delivered, Coded, functionVars
<1> HIDE DEF pc
<1> QED
  BY <1>1, <1>5, QuietKept

\* The URL is there or has to be created.
LEMMA EnsureUrlKept ==
  ASSUME LambdaInv, PolicyHistory, NEW d \in Deployers, EnsureUrlConfigured(d)
  PROVE  LambdaInv'
<1> DEFINE pc == IF Endpoint(deployer[d].cfg) \in urls THEN "access" ELSE "createUrl"
<1>1. /\ deployer[d].pc = "getUrl" /\ Deploying(d) /\ pc \in LambdaPcs /\ ReadThen(d, pc)
      /\ UNCHANGED <<role, bucketVars, functionVars>>
  BY Steps DEF EnsureUrlConfigured, InStep, Deploying
<1>2. pc \notin LambdaEnds => SameCommand(d, pc)
  BY <1>1, ReadThenFields DEF SameCommand, LambdaInv
<1>3. Progress(d)
  BY DEF LambdaInv, Progress
<1>4. policyCut => policyCut'
  BY Zenon DEF PolicyHistory
<1>5. pc \notin LambdaEnds => Progress(d)'
  BY <1>1, <1>2, <1>3, <1>4, Steps
     DEF SameCommand, Progress, HasBucket, Configured, Delivered, Coded, Target, functionVars
<1> HIDE DEF pc
<1> QED
  BY <1>1, <1>5, QuietKept

\* There is something to undeploy, or not.
LEMMA UndeployCheckKept ==
  ASSUME LambdaInv, PolicyHistory, NEW d \in Deployers, UndeployCheck(d)
  PROVE  LambdaInv'
<1> DEFINE pc == IF function = Nothing THEN "idle" ELSE "delete"
<1>1. /\ deployer[d].pc = "checkExists" /\ Deploying(d) /\ pc \in LambdaPcs /\ ReadThen(d, pc)
      /\ UNCHANGED <<role, bucketVars, functionVars>>
  BY Steps DEF UndeployCheck, InStep, Deploying
<1>2. pc \notin LambdaEnds => SameCommand(d, pc)
  BY <1>1, ReadThenFields DEF SameCommand, LambdaInv
<1>3. Progress(d)
  BY DEF LambdaInv, Progress
<1>4. policyCut => policyCut'
  BY Zenon DEF PolicyHistory
<1>5. pc \notin LambdaEnds => Progress(d)'
  BY <1>1, <1>2, <1>3, <1>4, Steps
     DEF SameCommand, Progress, HasBucket, Configured, Delivered, functionVars
<1> HIDE DEF pc
<1> QED
  BY <1>1, <1>5, QuietKept

\* The waiters return when the function and the version are no longer pending.
LEMMA AwaitReadyKept ==
  ASSUME LambdaInv, PolicyHistory, NEW d \in Deployers, AwaitReady(d)
  PROVE  LambdaInv'
<1>1. PICK pc \in {"publish", "getAlias", "getUrl"} :
        /\ ReadThen(d, pc)
        /\ \/ deployer[d].pc = "awaitFunction" /\ pc = "publish"
           \/ /\ deployer[d].pc = "awaitVersion"
              /\ deployer[d].target \in DOMAIN versions /\ versions[deployer[d].target] # "pending"
              /\ pc = IF deployer[d].cfg.createAlias THEN "getAlias" ELSE "getUrl"
  BY DEF AwaitReady, InStep
<1>2. Deploying(d) /\ pc \in LambdaPcs /\ UNCHANGED <<role, bucketVars, functionVars>>
  BY <1>1, Steps DEF AwaitReady, Deploying
<1>3. SameCommand(d, pc)
  BY <1>1, <1>2, ReadThenFields, Steps DEF SameCommand, LambdaInv
<1>4. Progress(d)
  BY DEF LambdaInv, Progress
<1>5. policyCut => policyCut'
  BY Zenon DEF PolicyHistory
<1>6. Progress(d)'
  BY <1>1, <1>2, <1>3, <1>4, <1>5, Steps
     DEF SameCommand, Progress, HasBucket, Configured, Delivered, Coded, Target, functionVars
<1> QED
  BY <1>1, <1>2, <1>6, QuietKept

\* A new role has no policy yet: its deploy is about to attach it.
LEMMA CreateRoleKept ==
  ASSUME LambdaInv, PolicyHistory, NEW d \in Deployers, CreateRole(d)
  PROVE  LambdaInv'
<1>1. PICK pc \in {"attach", "idle"} : ReadThen(d, pc)
  BY DEF CreateRole, Then
<1>2. /\ deployer[d].pc = "createRole" /\ Deploying(d) /\ pc \in LambdaPcs
      /\ role' = "bare" /\ UNCHANGED <<bucketVars, functionVars>>
  BY Steps DEF CreateRole, InStep, Deploying
<1>3. deployer'[d].pc = pc
  BY <1>1, <1>2, ReadThenFields DEF LambdaInv
<1>4. Account' /\ Grows /\ RoleStep(d)
  BY <1>1, <1>2, <1>3 DEF LambdaInv, Account, Grows, RoleStep, bucketVars, functionVars
<1>5. Progress(d)'
  BY <1>1, <1>3, EndProgress, Steps DEF Progress, HasBucket, Configured, Delivered
<1> QED
  BY <1>1, <1>2, <1>4, <1>5, StepKept

\* The role gets its policy.
LEMMA AttachRoleKept ==
  ASSUME LambdaInv, PolicyHistory, NEW d \in Deployers, AttachRolePolicy(d)
  PROVE  LambdaInv'
<1>1. PICK pc \in {"package", "idle"} : ReadThen(d, pc)
  BY DEF AttachRolePolicy, Then
<1>2. /\ deployer[d].pc = "attach" /\ Deploying(d) /\ pc \in LambdaPcs
      /\ role' = "attached" /\ UNCHANGED <<bucketVars, functionVars>>
  BY Steps DEF AttachRolePolicy, InStep, Deploying
<1>3. deployer'[d].pc = pc
  BY <1>1, <1>2, ReadThenFields DEF LambdaInv
<1>4. Account' /\ Grows /\ RoleStep(d)
  BY <1>1, <1>2, <1>3 DEF LambdaInv, Account, Grows, RoleStep, bucketVars, functionVars
<1>5. Progress(d)'
  BY <1>1, <1>2, <1>3, EndProgress, Steps DEF Progress, HasBucket, Configured, Delivered
<1> QED
  BY <1>1, <1>2, <1>4, <1>5, StepKept

\* A bucket is created under the name that was chosen, or it fails.
LEMMA CreateBucketKept ==
  ASSUME LambdaInv, PolicyHistory, NEW d \in Deployers, CreateBucket(d)
  PROVE  LambdaInv'
<1>1. PICK pc \in {"upload", "idle"} : ReadThen(d, pc)
  BY DEF CreateBucket, Then
<1>2. /\ deployer[d].pc = "createBucket" /\ Deploying(d) /\ pc \in LambdaPcs
      /\ buckets' = [buckets EXCEPT ![deployer[d].bucket] = TRUE]
      /\ UNCHANGED <<role, bucketName, objects, functionVars>>
  BY Steps DEF CreateBucket, InStep, Deploying
<1>3. pc # "idle" => SameCommand(d, pc)
  BY <1>1, <1>2, ReadThenFields, Steps DEF SameCommand, LambdaInv
<1>4. Progress(d) /\ deployer[d].bucket \in Deployers /\ buckets \in [Deployers -> BOOLEAN]
  BY <1>2 DEF LambdaInv, Progress, HasBucket, Account
<1>5. buckets' \in [Deployers -> BOOLEAN] /\ (\A b \in Deployers : buckets[b] => buckets'[b])
      /\ buckets'[deployer[d].bucket]
  BY <1>2, <1>4
<1>6. Account' /\ Grows
  BY <1>2, <1>5 DEF LambdaInv, Account, Grows, functionVars
<1>7. RoleStep(d)
  BY <1>2 DEF RoleStep
<1>8. policyCut => policyCut'
  BY Zenon DEF PolicyHistory
<1>9. pc # "idle" => Progress(d)'
  BY <1>1, <1>2, <1>3, <1>4, <1>5, <1>8, Steps
     DEF SameCommand, Progress, HasBucket, Configured, Delivered
<1> QED
  BY <1>1, <1>2, <1>6, <1>7, <1>9, StepKept, Steps

\* The bundle of this directory is in the bucket the deploy names next.
LEMMA UploadKept ==
  ASSUME LambdaInv, PolicyHistory, NEW d \in Deployers, Upload(d)
  PROVE  LambdaInv'
<1> DEFINE bundle == Bundle(deployer[d].cfg)
           bucket == deployer[d].bucket
<1>1. PICK pc \in {"getFunction", "idle"} : ReadThen(d, pc)
  BY DEF Upload, Then
<1>2. /\ deployer[d].pc = "upload" /\ Deploying(d) /\ pc \in LambdaPcs
      /\ objects' = [objects EXCEPT ![bucket] = bundle]
      /\ UNCHANGED <<role, bucketName, buckets, functionVars>>
  BY Steps DEF Upload, InStep, Deploying
<1>3. pc # "idle" => SameCommand(d, pc)
  BY <1>1, <1>2, ReadThenFields, Steps DEF SameCommand, LambdaInv
<1>4. /\ Progress(d) /\ bucket \in Deployers /\ buckets[bucket]
      /\ objects \in [Deployers -> Bundles \cup {Nothing}]
  BY <1>2 DEF LambdaInv, Progress, HasBucket, Account
<1>5. bundle \in Bundles /\ bundle # Nothing
  BY DEF LambdaInv, Deploys, Bundle, Bundles
<1> HIDE DEF bundle
<1>6. /\ objects' \in [Deployers -> Bundles \cup {Nothing}]
      /\ \A b \in Deployers : b # bucket => objects'[b] = objects[b]
      /\ objects'[bucket] = bundle
  BY <1>2, <1>4, <1>5
<1>7. Account' /\ Grows
  BY <1>2, <1>4, <1>5, <1>6 DEF LambdaInv, Account, Grows, functionVars
<1>8. RoleStep(d)
  BY <1>2 DEF RoleStep
<1>9. policyCut => policyCut'
  BY Zenon DEF PolicyHistory
<1>10. pc # "idle" => Progress(d)'
  <2>1. pc # "idle" => Location(d)' = bundle
    BY <1>3, <1>6 DEF Location, SameCommand, bundle
  <2> QED
    BY <1>1, <1>2, <1>3, <1>4, <1>5, <1>6, <1>9, <2>1, Steps
       DEF SameCommand, Progress, HasBucket, Configured, Delivered, bundle
<1> QED
  BY <1>1, <1>2, <1>7, <1>8, <1>10, StepKept, Steps

\* The bucket is the remembered one or a new one.
LEMMA GetBucketNameKept ==
  ASSUME LambdaInv, PolicyHistory, NEW d \in Deployers, GetBucketName(d)
  PROVE  LambdaInv'
<1> DEFINE bucket == IF deployer[d].bucket = Nothing THEN d ELSE deployer[d].bucket
           s == [deployer[d] EXCEPT !.pc = "headBucket", !.bucket = bucket]
<1>1. /\ deployer[d].pc = "bucketName" /\ Deploying(d)
      /\ bucketName' \in Deployers \cup {Nothing} /\ UNCHANGED <<role, buckets, objects, functionVars>>
  BY Steps DEF GetBucketName, InStep, Deploying, LambdaInv, Account
<1>2. Progress(d) /\ deployer \in [Deployers -> Deploys] /\ deployer[d] \in Deploys
  BY DEF LambdaInv, Progress
<1>3. bucket \in Deployers
  BY <1>2 DEF Deploys
<1>4. deployer' = [deployer EXCEPT ![d] = s]
  BY <1>2 DEF GetBucketName, Deploys
<1> HIDE DEF bucket
<1>5. /\ s \in Deploys /\ s.pc = "headBucket" /\ s.cfg = deployer[d].cfg /\ s.bucket = bucket
      /\ s.met = deployer[d].met
  BY <1>2, <1>3, Steps DEF Deploys
<1> HIDE DEF s
<1>6. deployer' \in [Deployers -> Deploys] /\ OtherDeployersStay(d) /\ deployer'[d] = s
  BY <1>2, <1>4, <1>5 DEF OtherDeployersStay
<1>7. Account' /\ Grows
  BY <1>1 DEF LambdaInv, Account, Grows, functionVars
<1>8. RoleStep(d)
  BY <1>1 DEF RoleStep
<1>9. policyCut => policyCut'
  BY Zenon DEF PolicyHistory
<1>10. Progress(d)'
  BY <1>1, <1>2, <1>3, <1>5, <1>6, <1>9, Steps DEF Progress, HasBucket, Configured, Delivered
<1> QED
  BY <1>1, <1>5, <1>6, <1>7, <1>8, <1>10, LambdaAssemble

\* What a deploy that has come to the function uploads, or names in the bucket.
LEMMA Located ==
  ASSUME LambdaInv, NEW d \in Deployers, deployer[d].pc \in CodePcs
  PROVE  Location(d) \in Bundles
<1>1. HasBucket(d) /\ deployer[d].cfg \in DeployConfigs /\ objects \in [Deployers -> Bundles \cup {Nothing}]
  BY DEF LambdaInv, Account, Deploys
<1>2. Bundle(deployer[d].cfg) \in Bundles
  BY <1>1 DEF Bundle, Bundles
<1> QED
  BY <1>1, <1>2 DEF HasBucket, Location

\* The step after the code is in place.
LEMMA AfterCodeType ==
  ASSUME NEW cfg \in DeployConfigs
  PROVE  /\ AfterCode(cfg) \in {"awaitFunction", "getAlias", "getUrl"}
         /\ AfterCode(cfg) = "awaitFunction" => cfg.publishVersion
         /\ AfterCode(cfg) # "awaitFunction" => ~cfg.publishVersion
         /\ AfterCode(cfg) = "getAlias" => cfg.createAlias
         /\ AfterCode(cfg) = "getUrl" => ~cfg.createAlias
  BY DEF AfterCode

\* The function is created with the bundle of this directory.
LEMMA CreateFunctionKept ==
  ASSUME LambdaInv, PolicyHistory, NEW d \in Deployers, CreateFunction(d)
  PROVE  LambdaInv'
<1> DEFINE cfg == deployer[d].cfg
           snap == SnapStart(cfg)
           no == FALSE
           at == Location(d)
           new == [runtime |-> cfg.flavour, code |-> at, snapStart |-> snap, settled |-> no]
<1>1. PICK pc \in {AfterCode(cfg), "idle"} : ReadThen(d, pc)
  BY DEF CreateFunction, Then
<1>2. /\ deployer[d].pc = "createFunction" /\ Deploying(d) /\ function = Nothing
      /\ cfg \in DeployConfigs /\ Progress(d)
      /\ function' = new /\ UNCHANGED <<role, bucketVars, versions, alias, urls, perms>>
  BY Steps DEF CreateFunction, InStep, Deploying, LambdaInv, Deploys, Progress
<1>3. /\ pc \in LambdaPcs
      /\ pc # "idle" => SameCommand(d, pc)
  BY <1>1, <1>2, AfterCodeType, ReadThenFields, Steps DEF SameCommand, LambdaInv
<1>4. snap \in BOOLEAN /\ (SupportsSnapStart(cfg) => snap = cfg.snapStart)
  <2>1. cfg.snapStart \in BOOLEAN /\ SupportsSnapStart(cfg) \in BOOLEAN
    BY <1>2, Zenon DEF SupportsSnapStart
  <2> QED
    BY <2>1 DEF SnapStart
<1> HIDE DEF snap
<1>5. /\ new \in FunctionRecords /\ new # Nothing
      /\ new.code = Location(d) /\ new.snapStart = snap
  <2>1. no \in BOOLEAN
    BY Zenon
  <2>2. at \in Bundles
    BY <1>2, Located, Steps
  <2>3. cfg.flavour \in {"jvm", "native"}
    BY <1>2
  <2>4. at = Location(d)
    OBVIOUS
  <2> HIDE DEF no, at, cfg
  <2>5. new \in FunctionRecords
    BY <1>4, <2>1, <2>2, <2>3 DEF FunctionRecords
  <2> QED
    BY <2>4, <2>5
<1> HIDE DEF new
<1>6. Account' /\ Grows /\ RoleStep(d)
  BY <1>2, <1>5 DEF LambdaInv, Account, Grows, RoleStep, bucketVars
<1>7. policyCut => policyCut'
  BY Zenon DEF PolicyHistory
<1>8. pc # "idle" => Progress(d)'
  BY <1>1, <1>2, <1>3, <1>4, <1>5, <1>7, AfterCodeType, Steps
     DEF SameCommand, Progress, HasBucket, Configured, Delivered, Coded, Target
<1> HIDE DEF cfg
<1> QED
  BY <1>1, <1>2, <1>3, <1>6, <1>8, StepKept, Steps

\* SnapStart is set as configured where the runtime has it.
LEMMA SnapStartKept ==
  ASSUME LambdaInv, PolicyHistory, NEW d \in Deployers, EnsureSnapStart(d)
  PROVE  LambdaInv'
<1> DEFINE cfg == deployer[d].cfg
           snap == SnapStart(cfg)
           new == [function EXCEPT !.snapStart = snap, !.settled = FALSE]
<1>1. PICK pc \in {"updateCode", "idle"} : ReadThen(d, pc)
  BY DEF EnsureSnapStart, Then
<1>2. /\ deployer[d].pc = "snapStart" /\ Deploying(d) /\ pc \in LambdaPcs /\ function # Nothing
      /\ cfg \in DeployConfigs /\ Progress(d) /\ function \in FunctionRecords
      /\ UNCHANGED <<role, bucketVars, versions, alias, urls, perms>>
  BY Steps DEF EnsureSnapStart, InStep, Deploying, LambdaInv, Deploys, Progress, Account
<1>3. pc # "idle" => SameCommand(d, pc)
  BY <1>1, <1>2, ReadThenFields, Steps DEF SameCommand, LambdaInv
<1>4. snap \in BOOLEAN /\ (SupportsSnapStart(cfg) => snap = cfg.snapStart)
  <2>1. cfg.snapStart \in BOOLEAN /\ SupportsSnapStart(cfg) \in BOOLEAN
    BY <1>2, Zenon DEF SupportsSnapStart
  <2> QED
    BY <2>1 DEF SnapStart
<1>5. function' = new \/ (function' = function /\ function.snapStart = snap)
  BY DEF EnsureSnapStart
<1> HIDE DEF snap
<1>6. new \in FunctionRecords /\ new.snapStart = snap
  BY <1>2, <1>4 DEF FunctionRecords
<1> HIDE DEF new
<1>7. function' \in FunctionRecords /\ function' # Nothing /\ function'.snapStart = snap
  BY <1>2, <1>5, <1>6
<1>8. Account' /\ Grows /\ RoleStep(d)
  BY <1>2, <1>7 DEF LambdaInv, Account, Grows, RoleStep, bucketVars
<1>9. policyCut => policyCut'
  BY Zenon DEF PolicyHistory
<1>10. pc # "idle" => Progress(d)'
  BY <1>1, <1>2, <1>3, <1>4, <1>7, <1>9, Steps
     DEF SameCommand, Progress, HasBucket, Configured, Delivered, Location, bucketVars
<1> QED
  BY <1>1, <1>2, <1>8, <1>10, StepKept, Steps

\* The function has the bundle of this directory.
LEMMA UpdateCodeKept ==
  ASSUME LambdaInv, PolicyHistory, NEW d \in Deployers, UpdateFunctionCode(d)
  PROVE  LambdaInv'
<1> DEFINE cfg == deployer[d].cfg
           new == [function EXCEPT !.code = Location(d), !.settled = FALSE]
<1>1. PICK pc \in {AfterCode(cfg), "idle"} : ReadThen(d, pc)
  BY DEF UpdateFunctionCode, Then
<1>2. /\ deployer[d].pc = "updateCode" /\ Deploying(d) /\ function # Nothing
      /\ cfg \in DeployConfigs /\ Progress(d) /\ function \in FunctionRecords
      /\ function' = new /\ UNCHANGED <<role, bucketVars, versions, alias, urls, perms>>
  BY Steps DEF UpdateFunctionCode, InStep, Deploying, LambdaInv, Deploys, Progress, Account
<1>3. /\ pc \in LambdaPcs
      /\ pc # "idle" => SameCommand(d, pc)
  BY <1>1, <1>2, AfterCodeType, ReadThenFields, Steps DEF SameCommand, LambdaInv
<1>4. /\ new \in FunctionRecords /\ new # Nothing
      /\ new.code = Location(d) /\ new.snapStart = function.snapStart
  BY <1>2, Located, Steps DEF FunctionRecords
<1> HIDE DEF new
<1>5. Account' /\ Grows /\ RoleStep(d)
  BY <1>2, <1>4 DEF LambdaInv, Account, Grows, RoleStep, bucketVars
<1>6. policyCut => policyCut'
  BY Zenon DEF PolicyHistory
<1>7. pc # "idle" => Progress(d)'
  BY <1>1, <1>2, <1>3, <1>4, <1>6, AfterCodeType, Steps
     DEF SameCommand, Progress, HasBucket, Configured, Delivered, Coded, Target
<1> HIDE DEF cfg
<1> QED
  BY <1>1, <1>2, <1>3, <1>5, <1>7, StepKept, Steps

\* The version published is the function as it is now.
LEMMA PublishKept ==
  ASSUME LambdaInv, PolicyHistory, NEW d \in Deployers, PublishVersion(d)
  PROVE  LambdaInv'
<1> DEFINE c == Current
           s == [deployer[d] EXCEPT !.target = c, !.pc = "awaitVersion"]
<1>1. /\ deployer[d].pc = "publish" /\ Deploying(d) /\ function # Nothing /\ function \in FunctionRecords
      /\ Progress(d) /\ deployer \in [Deployers -> Deploys] /\ deployer[d] \in Deploys
      /\ versions' = WithVersion /\ UNCHANGED <<role, bucketVars, function, alias, urls, perms>>
  BY Steps DEF PublishVersion, InStep, Deploying, LambdaInv, Progress, Account
<1>2. c \in Versions /\ c.code = function.code
  BY <1>1 DEF Current, Versions, FunctionRecords
<1>3. /\ DOMAIN versions' = DOMAIN versions \cup {c}
      /\ \A v \in DOMAIN versions' :
           versions'[v] = IF v \in DOMAIN versions THEN versions[v] ELSE "pending"
  BY <1>1 DEF WithVersion
<1>4. deployer' = [deployer EXCEPT ![d] = s] \/ ReadThen(d, "idle")
  BY <1>1 DEF PublishVersion, Deploys
<1> HIDE DEF c
<1>5. /\ s \in Deploys /\ s.pc = "awaitVersion" /\ s.cfg = deployer[d].cfg /\ s.target = c
      /\ s.met = deployer[d].met
  BY <1>1, <1>2, Steps DEF Deploys
<1> HIDE DEF s
<1>6. Account'
  BY <1>1, <1>2, <1>3 DEF LambdaInv, Account, VersionStates, bucketVars
<1>7. Grows /\ RoleStep(d)
  BY <1>1 DEF Grows, RoleStep, bucketVars, LambdaInv, Account
<1>8. policyCut => policyCut'
  BY Zenon DEF PolicyHistory
<1>9. CASE deployer' = [deployer EXCEPT ![d] = s]
  <2>1. deployer' \in [Deployers -> Deploys] /\ OtherDeployersStay(d) /\ deployer'[d] = s
    BY <1>1, <1>5, <1>9 DEF OtherDeployersStay
  <2>2. Progress(d)'
    BY <1>1, <1>2, <1>5, <1>8, <2>1, Steps
       DEF Progress, HasBucket, Configured, Delivered, Coded
  <2> QED
    BY <1>1, <1>5, <1>6, <1>7, <2>1, <2>2, LambdaAssemble
<1>10. CASE ReadThen(d, "idle")
  BY <1>1, <1>6, <1>7, <1>10, StepKept, Steps
<1> QED
  BY <1>4, <1>9, <1>10

\* The alias points to the version just published.
LEMMA AliasKept ==
  ASSUME LambdaInv, PolicyHistory, NEW d \in Deployers, CreateOrUpdateAlias(d)
  PROVE  LambdaInv'
<1>1. PICK pc \in {"getUrl", "idle"} : ReadThen(d, pc)
  BY DEF CreateOrUpdateAlias, Then
<1>2. /\ deployer[d].pc \in {"createAlias", "updateAlias"} /\ Deploying(d) /\ pc \in LambdaPcs
      /\ TargetExists(d) /\ alias' = Target(d)
      /\ UNCHANGED <<role, bucketVars, function, versions, urls, perms>>
  BY Steps DEF CreateOrUpdateAlias, InStep, Deploying
<1>3. pc # "idle" => SameCommand(d, pc)
  BY <1>1, <1>2, ReadThenFields, Steps DEF SameCommand, LambdaInv
<1>4. Progress(d)
  BY DEF LambdaInv, Progress
<1>5. alias' \in DOMAIN versions \cup {Latest, Nothing} /\ function # Nothing
  BY <1>2 DEF Target, TargetExists
<1>6. Account' /\ Grows /\ RoleStep(d)
  BY <1>2, <1>5 DEF LambdaInv, Account, Grows, RoleStep, bucketVars
<1>7. policyCut => policyCut'
  BY Zenon DEF PolicyHistory
<1>8. pc # "idle" => Progress(d)'
  BY <1>1, <1>2, <1>3, <1>4, <1>7, Steps
     DEF SameCommand, Progress, HasBucket, Configured, Delivered, Coded, Target
<1> QED
  BY <1>1, <1>2, <1>6, <1>8, StepKept, Steps

\* A URL is added.
LEMMA CreateUrlKept ==
  ASSUME LambdaInv, PolicyHistory, NEW d \in Deployers, CreateFunctionUrl(d)
  PROVE  LambdaInv'
<1> DEFINE e == Endpoint(deployer[d].cfg)
<1>1. PICK pc \in {"access", "idle"} : ReadThen(d, pc)
  BY DEF CreateFunctionUrl, Then
<1>2. /\ deployer[d].pc = "createUrl" /\ Deploying(d) /\ pc \in LambdaPcs
      /\ function # Nothing /\ urls' = urls \cup {e}
      /\ UNCHANGED <<role, bucketVars, function, versions, alias, perms>>
  BY Steps DEF CreateFunctionUrl, InStep, Deploying
<1>3. pc # "idle" => SameCommand(d, pc)
  BY <1>1, <1>2, ReadThenFields, Steps DEF SameCommand, LambdaInv
<1>4. Progress(d)
  BY DEF LambdaInv, Progress
<1>5. e \in {"function", "alias"}
  BY DEF Endpoint
<1>6. Account' /\ Grows /\ RoleStep(d)
  BY <1>2, <1>5 DEF LambdaInv, Account, Grows, RoleStep, bucketVars
<1>7. policyCut => policyCut'
  BY Zenon DEF PolicyHistory
<1>8. pc # "idle" => Progress(d)'
  BY <1>1, <1>2, <1>3, <1>4, <1>7, Steps
     DEF SameCommand, Progress, HasBucket, Configured, Delivered, Coded, Target
<1> QED
  BY <1>1, <1>2, <1>6, <1>8, StepKept, Steps

\* The URL is opened or closed, and the deploy is done.
LEMMA AccessKept ==
  ASSUME LambdaInv, PolicyHistory, NEW d \in Deployers, ConfigureUrlAccess(d)
  PROVE  LambdaInv'
<1>1. PICK pc \in {"deployed", "idle"} : ReadThen(d, pc)
  BY DEF ConfigureUrlAccess, Then
<1>2. /\ deployer[d].pc = "access" /\ Deploying(d) /\ pc \in LambdaPcs
      /\ UNCHANGED <<role, bucketVars, function, versions, alias, urls>>
  BY Steps DEF ConfigureUrlAccess, InStep, Deploying
<1>3. /\ perms' \subseteq {"function", "alias"}
      /\ function = Nothing => perms' = {}
  BY DEF ConfigureUrlAccess, Endpoint, LambdaInv, Account
<1>4. Account' /\ Grows /\ RoleStep(d)
  BY <1>2, <1>3 DEF LambdaInv, Account, Grows, RoleStep, bucketVars
<1> QED
  BY <1>1, <1>2, <1>4, StepKept, Steps

\* The function goes, and all that belongs to it.
LEMMA DeleteKept ==
  ASSUME LambdaInv, PolicyHistory, NEW d \in Deployers, DeleteFunction(d)
  PROVE  LambdaInv'
<1>1. ReadThen(d, "idle")
  BY DEF DeleteFunction, Then
<1>2. /\ deployer[d].pc = "delete" /\ Deploying(d)
      /\ function' = Nothing /\ versions' = <<>> /\ alias' = Nothing /\ urls' = {} /\ perms' = {}
      /\ UNCHANGED <<role, bucketVars>>
  BY Steps DEF DeleteFunction, InStep, Deploying
<1>3. DOMAIN versions' = {}
  BY <1>2
<1>4. Account' /\ Grows /\ RoleStep(d)
  BY <1>2, <1>3 DEF LambdaInv, Account, Grows, RoleStep, bucketVars
<1> QED
  BY <1>1, <1>2, <1>4, StepKept, Steps

\* Whoever begins has met those that run, and they have met it.
LEMMA LambdaBeginsKept ==
  ASSUME LambdaInv, PolicyHistory, NEW d \in Deployers, NEW cfg \in DeployConfigs,
         NEW pc \in {"getRole", "checkExists"}, Begins(d, pc, cfg)
  PROVE  LambdaInv'
<1> DEFINE some == \E e \in Deployers : Deploying(e)
           mine == [NoDeploy EXCEPT !.pc = pc, !.cfg = cfg, !.bucket = bucketName, !.met = some]
           seen(e) == deployer[e].met \/ Deploying(e)
           theirs(e) == [deployer[e] EXCEPT !.met = seen(e)]
<1>1. /\ deployer[d].pc \in LambdaEnds /\ UNCHANGED <<role, bucketVars, functionVars>>
      /\ deployer \in [Deployers -> Deploys] /\ bucketName \in Deployers \cup {Nothing}
  BY DEF Begins, LambdaInv, Account
<1>2. deployer' = [e \in Deployers |-> IF e = d THEN mine ELSE theirs(e)]
  BY <1>1 DEF Begins
<1>3. some \in BOOLEAN /\ \A e \in Deployers : seen(e) \in BOOLEAN
  BY Zenon
<1>4. /\ \A e \in Deployers : Deploying(e) => some
      /\ \A e \in Deployers : (deployer[e].met => seen(e)) /\ (Deploying(e) => seen(e))
  OBVIOUS
<1> HIDE DEF some, seen
<1>5. mine \in Deploys /\ mine.pc = pc /\ mine.met = some
  BY <1>1, <1>3, NoDeployType, Steps DEF Deploys
<1>6. ASSUME NEW e \in Deployers
      PROVE  /\ theirs(e) \in Deploys /\ theirs(e).pc = deployer[e].pc /\ theirs(e).cfg = deployer[e].cfg
             /\ theirs(e).bucket = deployer[e].bucket /\ theirs(e).target = deployer[e].target
             /\ theirs(e).met = seen(e)
  BY <1>1, <1>3 DEF Deploys
<1> HIDE DEF mine, theirs
<1>7. /\ deployer' \in [Deployers -> Deploys]
      /\ deployer'[d] = mine /\ \A e \in Deployers : e # d => deployer'[e] = theirs(e)
  BY <1>2, <1>5, <1>6
<1>8. Account'
  BY <1>1 DEF LambdaInv, Account, bucketVars, functionVars
<1>9. policyCut' \in BOOLEAN /\ (policyCut => policyCut')
  BY Zenon DEF PolicyHistory
<1>10. LambdaAlone'
  BY <1>1, <1>4, <1>5, <1>6, <1>7 DEF LambdaAlone, Deploying
<1>11. BareRole'
  BY <1>1, <1>6, <1>7, <1>9, Steps DEF LambdaInv, BareRole
<1>12. ASSUME NEW e \in Deployers PROVE Progress(e)'
  <2>1. CASE e = d
    BY <1>5, <1>7, <2>1, Steps DEF Progress, HasBucket, Configured, Delivered
  <2>2. CASE e # d
    <3>1. /\ deployer'[e].pc = deployer[e].pc /\ deployer'[e].cfg = deployer[e].cfg
          /\ deployer'[e].bucket = deployer[e].bucket /\ deployer'[e].target = deployer[e].target
          /\ deployer[e].met => deployer'[e].met
      BY <1>4, <1>6, <1>7, <2>2
    <3>2. HasBucket(e)' /\ Configured(e)'
      BY <1>1, <3>1 DEF LambdaInv, HasBucket, Configured, bucketVars
    <3>3. Delivered(e)'
      BY <1>1, <1>9, <3>1
         DEF LambdaInv, Delivered, Coded, Location, Target, bucketVars, functionVars
    <3> QED
      BY <3>2, <3>3 DEF Progress
  <2> QED
    BY <2>1, <2>2
<1> QED
  BY <1>7, <1>8, <1>9, <1>10, <1>11, <1>12 DEF LambdaInv, Progress

\* What AWS completes by itself.
LEMMA FunctionSettlesKept ==
  ASSUME LambdaInv, PolicyHistory, FunctionSettles
  PROVE  LambdaInv'
<1> DEFINE yes == TRUE
           new == [function EXCEPT !.settled = yes]
<1>1. /\ function # Nothing /\ function \in FunctionRecords /\ function' = new
      /\ UNCHANGED <<role, bucketVars, versions, alias, urls, perms, deployer>>
  BY DEF FunctionSettles, LambdaInv, Account
<1>2. yes \in BOOLEAN
  BY Zenon
<1> HIDE DEF yes
<1>3. new \in FunctionRecords /\ new.code = function.code /\ new.snapStart = function.snapStart
  BY <1>1, <1>2 DEF FunctionRecords
<1> HIDE DEF new
<1>4. Account'
  BY <1>1, <1>3 DEF LambdaInv, Account, bucketVars
<1>5. policyCut' \in BOOLEAN /\ (policyCut => policyCut')
  BY Zenon DEF PolicyHistory
<1>6. LambdaAlone' /\ BareRole'
  BY <1>1, <1>5 DEF LambdaInv, LambdaAlone, Deploying, BareRole
<1>7. ASSUME NEW d \in Deployers PROVE Progress(d)'
  BY <1>1, <1>3, <1>5
     DEF LambdaInv, Progress, HasBucket, Configured, Delivered, Coded, Location, Target, bucketVars
<1> QED
  BY <1>1, <1>4, <1>5, <1>6, <1>7 DEF LambdaInv, Progress

\* A pending version becomes active, or fails.
LEMMA VersionKept ==
  ASSUME LambdaInv, PolicyHistory, NEW v \in DOMAIN versions, VersionSettles(v)
  PROVE  LambdaInv'
<1>1. PICK state \in {"active", "failed"} :
      /\ versions' = [versions EXCEPT ![v] = state]
      /\ UNCHANGED <<role, bucketVars, function, alias, urls, perms, deployer>>
  BY DEF VersionSettles
<1>2. /\ DOMAIN versions' = DOMAIN versions
      /\ \A w \in DOMAIN versions : versions'[w] \in {"active", "failed", versions[w]}
  BY <1>1
<1>3. function # Nothing
  BY DEF LambdaInv, Account
<1>4. Account'
  BY <1>1, <1>2, <1>3 DEF LambdaInv, Account, VersionStates, bucketVars
<1>5. policyCut' \in BOOLEAN /\ (policyCut => policyCut')
  BY Zenon DEF PolicyHistory
<1>6. LambdaAlone' /\ BareRole'
  BY <1>1, <1>5 DEF LambdaInv, LambdaAlone, Deploying, BareRole
<1>7. ASSUME NEW d \in Deployers PROVE Progress(d)'
  BY <1>1, <1>2, <1>5
     DEF LambdaInv, Progress, HasBucket, Configured, Delivered, Coded, Location, Target, bucketVars
<1> QED
  BY <1>1, <1>4, <1>5, <1>6, <1>7 DEF LambdaInv, Progress

\* Every step keeps the invariant.
LEMMA LambdaNextInv == LambdaInv /\ [LambdaNext]_lambdaVars => LambdaInv'
<1> SUFFICES ASSUME LambdaInv, [LambdaNext]_lambdaVars PROVE LambdaInv'
  OBVIOUS
<1>1. CASE LambdaNext
  <2>1. PolicyHistory
    BY <1>1, Zenon DEF LambdaNext, PolicyHistory
  <2>2. ASSUME NEW d \in Deployers, LambdaStep(d) PROVE LambdaInv'
    <3>1. CASE \E cfg \in DeployConfigs : Deploy(d, cfg)
      BY <2>1, <3>1, LambdaBeginsKept DEF Deploy
    <3>2. CASE Undeploy(d)
      BY <2>1, <3>2, LambdaBeginsKept, NoDeployType DEF Undeploy
    <3>3. CASE \/ EnsureIamRole(d) \/ CreateRole(d) \/ AttachRolePolicy(d) \/ CreateDeploymentPackage(d)
               \/ GetBucketName(d) \/ EnsureBucket(d) \/ CreateBucket(d) \/ Upload(d)
      BY <2>1, <3>3, IamRoleKept, CreateRoleKept, AttachRoleKept, PackageKept, GetBucketNameKept,
         EnsureBucketKept, CreateBucketKept, UploadKept
    <3>4. CASE \/ EnsureFunctionExists(d) \/ CreateFunction(d) \/ EnsureSnapStart(d)
               \/ UpdateFunctionCode(d) \/ AwaitReady(d) \/ PublishVersion(d)
      BY <2>1, <3>4, EnsureFunctionKept, CreateFunctionKept, SnapStartKept, UpdateCodeKept,
         AwaitReadyKept, PublishKept
    <3>5. CASE \/ GetAlias(d) \/ CreateOrUpdateAlias(d) \/ EnsureUrlConfigured(d)
               \/ CreateFunctionUrl(d) \/ ConfigureUrlAccess(d)
      BY <2>1, <3>5, GetAliasKept, AliasKept, EnsureUrlKept, CreateUrlKept, AccessKept
    <3>6. CASE UndeployCheck(d) \/ DeleteFunction(d) \/ RequestFails(d)
      BY <2>1, <3>6, UndeployCheckKept, DeleteKept, RequestFailsKept
    <3> QED
      BY <2>2, <3>1, <3>2, <3>3, <3>4, <3>5, <3>6 DEF LambdaStep
  <2> QED
    BY <1>1, <2>1, <2>2, FunctionSettlesKept, VersionKept DEF LambdaNext
<1>2. CASE UNCHANGED lambdaVars
  BY <1>2
     DEF lambdaVars, LambdaInv, Account, LambdaAlone, Deploying, BareRole, HasBucket, Configured,
         Delivered,
         Coded, Location, Target
<1> QED
  BY <1>1, <1>2

\* The invariant holds of every behaviour of the deployers and AWS.
THEOREM LambdaInvariant == LambdaSpec => []LambdaInv
  BY LambdaInitInv, LambdaNextInv, PTL DEF LambdaSpec

\* The account's resources keep their types: an object is in a bucket that exists, what
\* belongs to a function goes with it (deploy.go's Undeploy), and the alias points to a version.
THEOREM LambdaTypeCorrect == LambdaSpec => []LambdaTypeOK
<1>1. LambdaInv => LambdaTypeOK
  BY DEF LambdaInv, Account, LambdaTypeOK
<1> QED
  BY <1>1, LambdaInvariant, PTL
-----------------------------------------------------------------------------
(* Success is reported in the last request's reply only. *)

\* No command reports success in a step of d, which is not its last.
NoneEnds(d) == \A e \in Deployers : deployer'[e].pc = "deployed" => deployer[e].pc = "deployed"

\* A command that goes on to a step reports no success.
LEMMA GoesOn ==
  ASSUME LambdaInv, NEW d \in Deployers, NEW pc \in LambdaPcs, pc # "deployed", ReadThen(d, pc)
  PROVE  NoneEnds(d)
  BY ReadThenFields DEF LambdaInv, NoneEnds, OtherDeployersStay

\* Only the step that sets the access policy reports success.
LEMMA StepEnds ==
  ASSUME LambdaInv, NEW d \in Deployers, LambdaStep(d)
  PROVE  NoneEnds(d) \/ ConfigureUrlAccess(d)
<1>1. CASE (\E cfg \in DeployConfigs : Deploy(d, cfg)) \/ Undeploy(d)
  <2>1. PICK pc \in {"getRole", "checkExists"}, cfg \in DeployConfigs : Begins(d, pc, cfg)
    BY <1>1, NoDeployType DEF Deploy, Undeploy
  <2>2. deployer'[d].pc = pc /\ \A e \in Deployers : e # d => deployer'[e].pc = deployer[e].pc
    <3> DEFINE some == \E e \in Deployers : Deploying(e)
               seen(e) == deployer[e].met \/ Deploying(e)
    <3>1. deployer' = [e \in Deployers |->
              IF e = d THEN [NoDeploy EXCEPT !.pc = pc, !.cfg = cfg, !.bucket = bucketName, !.met = some]
              ELSE [deployer[e] EXCEPT !.met = seen(e)]]
      BY <2>1 DEF Begins, LambdaInv, Deploys
    <3> HIDE DEF some, seen
    <3> QED
      BY <3>1, NoDeployType DEF LambdaInv, Deploys
  <2> QED
    BY <2>2 DEF NoneEnds
<1>2. CASE PublishVersion(d)
  <2> DEFINE s == [deployer[d] EXCEPT !.target = Current, !.pc = "awaitVersion"]
  <2>1. deployer' = [deployer EXCEPT ![d] = s] \/ ReadThen(d, "idle")
    BY <1>2 DEF PublishVersion, LambdaInv, Deploys
  <2>2. s.pc = "awaitVersion"
    BY DEF LambdaInv, Deploys
  <2> HIDE DEF s
  <2>3. CASE deployer' = [deployer EXCEPT ![d] = s]
    BY <2>2, <2>3 DEF LambdaInv, NoneEnds
  <2> QED
    BY <2>1, <2>3, GoesOn, Steps
<1>3. CASE GetBucketName(d)
  <2> DEFINE b == IF deployer[d].bucket = Nothing THEN d ELSE deployer[d].bucket
             s == [deployer[d] EXCEPT !.pc = "headBucket", !.bucket = b]
  <2>1. deployer' = [deployer EXCEPT ![d] = s]
    BY <1>3 DEF GetBucketName, LambdaInv, Deploys
  <2>2. s.pc = "headBucket"
    BY DEF LambdaInv, Deploys
  <2> HIDE DEF s
  <2> QED
    BY <2>1, <2>2 DEF LambdaInv, NoneEnds
<1>4. CASE \/ EnsureIamRole(d) \/ CreateRole(d) \/ AttachRolePolicy(d) \/ CreateDeploymentPackage(d)
           \/ EnsureBucket(d) \/ CreateBucket(d) \/ Upload(d) \/ EnsureFunctionExists(d)
  <2>1. \E pc \in LambdaPcs \ {"deployed"} : ReadThen(d, pc)
    BY <1>4, Steps
       DEF EnsureIamRole, CreateRole, AttachRolePolicy, CreateDeploymentPackage, EnsureBucket,
           CreateBucket,
           Upload, EnsureFunctionExists, Then
  <2> QED
    BY <2>1, GoesOn
<1>5. CASE CreateFunction(d) \/ EnsureSnapStart(d) \/ UpdateFunctionCode(d) \/ AwaitReady(d)
  <2>1. \E pc \in LambdaPcs \ {"deployed"} : ReadThen(d, pc)
    BY <1>5, Steps
       DEF CreateFunction, EnsureSnapStart, UpdateFunctionCode, AwaitReady, Then, AfterCode
  <2> QED
    BY <2>1, GoesOn
<1>6. CASE \/ GetAlias(d) \/ CreateOrUpdateAlias(d) \/ EnsureUrlConfigured(d) \/ CreateFunctionUrl(d)
           \/ UndeployCheck(d) \/ DeleteFunction(d) \/ RequestFails(d)
  <2>1. \E pc \in LambdaPcs \ {"deployed"} : ReadThen(d, pc)
    BY <1>6, Steps
       DEF GetAlias, CreateOrUpdateAlias, EnsureUrlConfigured, CreateFunctionUrl, UndeployCheck,
           DeleteFunction, RequestFails, Then
  <2> QED
    BY <2>1, GoesOn
<1> QED
  BY <1>1, <1>2, <1>3, <1>4, <1>5, <1>6 DEF LambdaStep

\* The deploy that reports success has come through all the steps before.
LEMMA FinishDelivers ==
  ASSUME LambdaInv, NEW d \in Deployers, Finishes(d), ~deployer[d].met, LambdaNext
  PROVE  HasDelivered(d)
<1>1. ConfigureUrlAccess(d)
  <2>1. CASE FunctionSettles \/ \E v \in DOMAIN versions : VersionSettles(v)
    BY <2>1 DEF FunctionSettles, VersionSettles, Finishes
  <2>2. ASSUME NEW e \in Deployers, LambdaStep(e) PROVE ConfigureUrlAccess(d)
    <3>1. CASE NoneEnds(e)
      BY <3>1 DEF NoneEnds, Finishes
    <3>2. CASE ConfigureUrlAccess(e)
      <4>1. e = d \/ deployer'[d] = deployer[d]
        BY <3>2, ReadThenFields, Steps DEF ConfigureUrlAccess, Then, LambdaInv, OtherDeployersStay
      <4> QED
        BY <3>2, <4>1 DEF Finishes
    <3> QED
      BY <2>2, <3>1, <3>2, StepEnds
  <2> QED
    BY <2>1, <2>2 DEF LambdaNext
<1> DEFINE cfg == deployer[d].cfg
<1>2. /\ deployer[d].pc = "access" /\ cfg \in DeployConfigs
      /\ UNCHANGED <<role, function, versions, alias, urls>>
      /\ Delivered(d) /\ Configured(d)
  BY <1>1 DEF ConfigureUrlAccess, InStep, LambdaInv, Deploys
<1>3. Endpoint(cfg) \in perms' <=> cfg.anonAccess
  BY <1>1 DEF ConfigureUrlAccess
<1>4. /\ Coded(d) /\ Endpoint(cfg) \in urls /\ (role = "attached" \/ policyCut)
      /\ cfg.publishVersion =>
           /\ deployer[d].target \in Versions /\ deployer[d].target.code = Bundle(cfg)
           /\ deployer[d].target \in DOMAIN versions /\ versions[deployer[d].target] # "pending"
      /\ cfg.createAlias => alias = Target(d)
  BY <1>2, Steps DEF Delivered
<1>5. /\ function' # Nothing /\ function'.code = Bundle(cfg) /\ role' = role
      /\ SupportsSnapStart(cfg) => function'.snapStart = cfg.snapStart
  BY <1>2, <1>4 DEF Coded
<1>6. cfg.createAlias => AliasedCode' = Bundle(cfg)
  BY <1>2, <1>4, <1>5 DEF AliasedCode, Target
<1>7. cfg.createAlias /\ alias' # Latest => versions'[alias'] # "pending"
  BY <1>2, <1>4 DEF Target
<1> QED
  BY <1>2, <1>3, <1>4, <1>5, <1>6, <1>7 DEF HasDelivered

\* A deploy that reports success and met no other serves the bundle of this directory, in a
\* version AWS is done with, at a URL that is open exactly if so configured (deploy.go:29-166).
THEOREM Delivers == LambdaSpec => DeployDelivers
<1>1. LambdaInv /\ [LambdaNext]_lambdaVars =>
        [\A d \in Deployers : Finishes(d) /\ ~deployer[d].met => HasDelivered(d)]_lambdaVars
  BY FinishDelivers
<1> QED
  BY <1>1, LambdaInvariant, PTL DEF LambdaSpec, DeployDelivers

-----------------------------------------------------------------------------
(* The remotes and the mocks together. *)

remotesVars == <<cloudVars, lambdaVars, managedVars, part>>

\* Every behaviour of the composition is one of each part: a step moves one of them
\* and leaves the platform, the processes and the commands of the others alone.
LEMMA CloudPart == Spec => CloudSpec
<1>1. Init => CloudInit
  BY DEF Init
<1>2. [Next]_remotesVars => [CloudNext]_cloudVars
  BY DEF Next, remotesVars
<1> QED
  BY <1>1, <1>2, PTL DEF Spec, CloudSpec, remotesVars

LEMMA LambdaPart == Spec => LambdaSpec
<1>1. Init => LambdaInit
  BY DEF Init
<1>2. [Next]_remotesVars => [LambdaNext]_lambdaVars
  BY DEF Next, remotesVars
<1> QED
  BY <1>1, <1>2, PTL DEF Spec, LambdaSpec, remotesVars

LEMMA ManagedPart == Spec => ManagedSpec
<1>1. Init => ManagedInit
  BY DEF Init
<1>2. [Next]_remotesVars => [ManagedNext]_managedVars
  BY DEF Next, remotesVars
<1> QED
  BY <1>1, <1>2, PTL DEF Spec, ManagedSpec, remotesVars

\* The workspaces, the two platforms and the detached mocks, and the commands at them,
\* are what the modules say they are (workspace.go:56-88, mockscloud/workspace.go,
\* awslambda/remote.go:70-149, engine/docker/mocks.go and the process table).
THEOREM RemoteTypesCompose == Spec => []TypeOK
  BY CloudPart, LambdaPart, ManagedPart, CloudTypeCorrect, LambdaTypeCorrect, ManagedTypeCorrect,
     PTL DEF TypeOK

\* The parts keep together what each keeps alone: what is live on the cloud is one
\* directory whole and its mock is not forgotten, a deploy to either remote that reports
\* success has delivered, and `down`, `ls -x` and `up` deal with the mocks they own.
THEOREM RemotePromisesCompose ==
    Spec => /\ []LiveIsWhole /\ DeployMirrors /\ MocksRemembered
            /\ DeployDelivers
            /\ [](EndedOwesNothing /\ DuplicatesUnseen) /\ StrangersAreSafe
  BY CloudPart, LambdaPart, ManagedPart, LiveWhole, Mirrors, Remembers, Delivers, NothingOwed,
     NoSeenDuplicates, StrangersSafe, PTL
===============================================================================
