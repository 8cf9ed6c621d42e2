---------------------------- MODULE LambdaDeploy ----------------------------
(***************************************************************************)
(* The AWS Lambda remote (internal/remote/awslambda): Deploy makes sure of *)
(* a role, a bundle in a bucket, a function, a version, an alias, a URL    *)
(* and a permission, one request after the other; Undeploy deletes the     *)
(* function.  Every request can fail, with or without having taken effect, *)
(* nothing is rolled back, the next run starts again from what is there,   *)
(* and two CLIs (a developer and a build) may deploy at once.              *)
(***************************************************************************)
EXTENDS Naturals

CONSTANTS
    Deployers,    \* the CLIs
    DeployConfigs,\* remote configurations, with the directory's content as "bundle"
    Nothing,      \* no function, no alias, no object
    Latest,       \* $LATEST: the function's code as it is
    MaxCommands   \* bound on the commands run

VARIABLES
    role,         \* "none", "bare" (no policy attached) or "attached"
    bucketName,   \* s3BucketName in the saved configuration; generated names are those of their CLI
    buckets,      \* bucket name -> exists
    objects,      \* bucket name -> the bundle under the object key
    function,     \* Nothing or [runtime, code, snapStart, settled]
    versions,     \* published version -> its state; a version is its code and SnapStart
    alias,        \* what the alias "live" points to
    urls, perms,  \* the endpoints ("function", "alias") with a URL, with anonymous access
    deployer,     \* CLI -> the command it runs
    commands,     \* commands run so far
    policyCut     \* a deploy ended between creating the role and attaching its policy (history)

\* A version is active, or it has failed: AWS's Failed or Inactive.
VersionStates == {"pending", "active", "failed"}

\* A bundle, and the function AWS has.  It is settled when it is not Pending and no update
\* is in progress: whether it is then Active, Failed or Inactive no request tells apart.
Bundles == [content : {cfg.content : cfg \in DeployConfigs}, flavour : {"jvm", "native"}]
FunctionRecords == [runtime : {"jvm", "native"}, code : Bundles, snapStart : BOOLEAN, settled : BOOLEAN]

\* What the properties need of a configuration: its flags are set or not.
ASSUME DeployConfigsAssumption ==
    /\ DeployConfigs # {}
    /\ \A cfg \in DeployConfigs :
         /\ cfg.flavour \in {"jvm", "native"}
         /\ {cfg.snapStart, cfg.uploadToS3, cfg.publishVersion, cfg.createAlias, cfg.anonAccess} \subseteq BOOLEAN
ASSUME NothingAssumption == Nothing \notin Bundles \cup FunctionRecords

lambdaVars == <<role, bucketName, buckets, objects, function, versions, alias, urls, perms,
                deployer, commands, policyCut>>
functionVars == <<function, versions, alias, urls, perms>>
bucketVars   == <<bucketName, buckets, objects>>

\* A command that failed, or an undeploy that is done, is idle.
LambdaEnds == {"idle", "deployed"}
Deploying(d) == deployer[d].pc \notin LambdaEnds
NoDeploy == [pc |-> "idle", cfg |-> CHOOSE c \in DeployConfigs : TRUE, bucket |-> Nothing,
             target |-> Nothing, met |-> FALSE]   \* met: another deploy ran meanwhile (history)

LambdaInit ==
    /\ role = "none" /\ policyCut = FALSE /\ commands = 0
    /\ bucketName = Nothing
    /\ buckets = [b \in Deployers |-> FALSE] /\ objects = [b \in Deployers |-> Nothing]
    /\ function = Nothing /\ versions = <<>> /\ alias = Nothing /\ urls = {} /\ perms = {}
    /\ deployer = [d \in Deployers |-> NoDeploy]

\* The bundle: the directory's content with the engine binary of the version's flavour.
Bundle(cfg) == [content |-> cfg.content, flavour |-> cfg.flavour]
SupportsSnapStart(cfg) == cfg.flavour = "jvm"
SnapStart(cfg) == cfg.snapStart /\ SupportsSnapStart(cfg)
Endpoint(cfg) == IF cfg.createAlias THEN "alias" ELSE "function"
Location(d) == IF deployer[d].cfg.uploadToS3 THEN objects[deployer[d].bucket] ELSE Bundle(deployer[d].cfg)

InStep(d, pc) == deployer[d].pc = pc
ReadThen(d, pc) ==
    deployer' = [deployer EXCEPT ![d] = IF pc \in LambdaEnds THEN [NoDeploy EXCEPT !.pc = pc]
                                        ELSE [@ EXCEPT !.pc = pc]]
\* A reply that never comes fails the command although the request took effect.
Then(d, pc) == \E next \in {pc, "idle"} : ReadThen(d, next)

Begins(d, pc, cfg) ==
    /\ deployer[d].pc \in LambdaEnds /\ commands < MaxCommands
    /\ deployer' = [e \in Deployers |->
         IF e = d THEN [NoDeploy EXCEPT !.pc = pc, !.cfg = cfg,
                                   !.bucket = bucketName, !.met = \E f \in Deployers : Deploying(f)]
         ELSE [deployer[e] EXCEPT !.met = @ \/ Deploying(e)]]
    /\ UNCHANGED <<role, bucketVars, functionVars>>

Deploy(d, cfg) == Begins(d, "getRole", cfg)
Undeploy(d)    == Begins(d, "checkExists", NoDeploy.cfg)

-----------------------------------------------------------------------------
(* iam.go *)

EnsureIamRole(d) ==
    /\ InStep(d, "getRole")
    /\ ReadThen(d, IF role = "none" THEN "createRole" ELSE "package")
    /\ UNCHANGED <<role, bucketVars, functionVars>>

CreateRole(d) ==
    /\ InStep(d, "createRole") /\ role = "none"
    /\ role' = "bare"
    /\ Then(d, "attach")
    /\ UNCHANGED <<bucketVars, functionVars>>

AttachRolePolicy(d) ==
    /\ InStep(d, "attach")
    /\ role' = "attached"
    /\ Then(d, "package")
    /\ UNCHANGED <<bucketVars, functionVars>>

-----------------------------------------------------------------------------
(* bucket.go *)

CreateDeploymentPackage(d) ==
    /\ InStep(d, "package")
    /\ ReadThen(d, IF deployer[d].cfg.uploadToS3 THEN "bucketName" ELSE "getFunction")
    /\ UNCHANGED <<role, bucketVars, functionVars>>

\* The name is generated if the configuration read at the start has none, and saved
\* before the bucket exists.
GetBucketName(d) ==
    /\ InStep(d, "bucketName")
    /\ IF deployer[d].bucket = Nothing THEN bucketName' = d ELSE UNCHANGED bucketName
    /\ deployer' = [deployer EXCEPT ![d].pc = "headBucket", ![d].bucket = IF @ = Nothing THEN d ELSE @]
    /\ UNCHANGED <<role, buckets, objects, functionVars>>

\* Whatever HeadBucket's error, the bucket is taken not to exist.
EnsureBucket(d) ==
    /\ InStep(d, "headBucket")
    /\ \/ buckets[deployer[d].bucket] /\ ReadThen(d, "upload")
       \/ ReadThen(d, "createBucket")
    /\ UNCHANGED <<role, bucketVars, functionVars>>

CreateBucket(d) ==
    /\ InStep(d, "createBucket") /\ ~buckets[deployer[d].bucket]
    /\ buckets' = [buckets EXCEPT ![deployer[d].bucket] = TRUE]
    /\ Then(d, "upload")
    /\ UNCHANGED <<role, bucketName, objects, functionVars>>

\* Mutant: an object that is there is not uploaded again.
UploadOnce(d) ==
    /\ InStep(d, "upload")
    /\ objects' = [objects EXCEPT ![deployer[d].bucket] =
                     IF @ = Nothing THEN Bundle(deployer[d].cfg) ELSE @]
    /\ Then(d, "getFunction")
    /\ UNCHANGED <<role, bucketName, buckets, functionVars>>

Upload(d) ==
    /\ InStep(d, "upload")
    /\ objects' = [objects EXCEPT ![deployer[d].bucket] = Bundle(deployer[d].cfg)]
    /\ Then(d, "getFunction")
    /\ UNCHANGED <<role, bucketName, buckets, functionVars>>

-----------------------------------------------------------------------------
(* deploy.go *)

\* What Deploy does once the code is in place.
AfterCode(cfg) == IF cfg.publishVersion THEN "awaitFunction" ELSE
                  IF cfg.createAlias THEN "getAlias" ELSE "getUrl"

EnsureFunctionExists(d) ==
    /\ InStep(d, "getFunction")
    /\ ReadThen(d, IF function = Nothing THEN "createFunction"
                   ELSE IF SupportsSnapStart(deployer[d].cfg) THEN "snapStart" ELSE "updateCode")
    /\ UNCHANGED <<role, bucketVars, functionVars>>

CreateFunction(d) ==
    /\ InStep(d, "createFunction") /\ function = Nothing
    /\ function' = [runtime |-> deployer[d].cfg.flavour, code |-> Location(d),
                    snapStart |-> SnapStart(deployer[d].cfg), settled |-> FALSE]
    /\ Then(d, AfterCode(deployer[d].cfg))
    /\ UNCHANGED <<role, bucketVars, versions, alias, urls, perms>>

\* AWS refuses to update a function while an update is in progress.
EnsureSnapStart(d) ==
    /\ InStep(d, "snapStart") /\ function # Nothing
    /\ LET desired == SnapStart(deployer[d].cfg)
       IN \/ function.snapStart = desired /\ ReadThen(d, "updateCode") /\ UNCHANGED function
          \/ /\ function.snapStart # desired /\ function.settled
             /\ function' = [function EXCEPT !.snapStart = desired, !.settled = FALSE]
             /\ Then(d, "updateCode")
    /\ UNCHANGED <<role, bucketVars, versions, alias, urls, perms>>

UpdateFunctionCode(d) ==
    /\ InStep(d, "updateCode") /\ function # Nothing /\ function.settled
    /\ function' = [function EXCEPT !.code = Location(d), !.settled = FALSE]
    /\ Then(d, AfterCode(deployer[d].cfg))
    /\ UNCHANGED <<role, bucketVars, versions, alias, urls, perms>>

\* Any state but Pending ends the wait.  An update that AWS gives up on does not: here
\* it stays pending.
AwaitReady(d) ==
    /\ \/ /\ InStep(d, "awaitFunction") /\ function # Nothing /\ function.settled
          /\ ReadThen(d, "publish")
       \/ /\ InStep(d, "awaitVersion")
          /\ deployer[d].target \in DOMAIN versions /\ versions[deployer[d].target] # "pending"
          /\ ReadThen(d, IF deployer[d].cfg.createAlias THEN "getAlias" ELSE "getUrl")
    /\ UNCHANGED <<role, bucketVars, functionVars>>

Current == [code |-> function.code, snapStart |-> function.snapStart]
WithVersion == [v \in DOMAIN versions \cup {Current} |->
                  IF v \in DOMAIN versions THEN versions[v] ELSE "pending"]
\* Publishing unchanged code returns the version there is.
PublishVersion(d) ==
    /\ InStep(d, "publish") /\ function # Nothing /\ function.settled
    /\ versions' = WithVersion
    /\ \/ deployer' = [deployer EXCEPT ![d].target = Current, ![d].pc = "awaitVersion"]
       \/ ReadThen(d, "idle")
    /\ UNCHANGED <<role, bucketVars, function, alias, urls, perms>>

GetAlias(d) ==
    /\ InStep(d, "getAlias")
    /\ ReadThen(d, IF alias = Nothing THEN "createAlias" ELSE "updateAlias")
    /\ UNCHANGED <<role, bucketVars, functionVars>>

Target(d) == IF deployer[d].cfg.publishVersion THEN deployer[d].target ELSE Latest
TargetExists(d) ==
    function # Nothing /\ (deployer[d].cfg.publishVersion => deployer[d].target \in DOMAIN versions)

CreateOrUpdateAlias(d) ==
    /\ \/ InStep(d, "createAlias") /\ alias = Nothing
       \/ InStep(d, "updateAlias") /\ alias # Nothing
    /\ TargetExists(d)
    /\ alias' = Target(d)
    /\ Then(d, "getUrl")
    /\ UNCHANGED <<role, bucketVars, function, versions, urls, perms>>

-----------------------------------------------------------------------------
(* url.go *)

EnsureUrlConfigured(d) ==
    /\ InStep(d, "getUrl")
    /\ ReadThen(d, IF Endpoint(deployer[d].cfg) \in urls THEN "access" ELSE "createUrl")
    /\ UNCHANGED <<role, bucketVars, functionVars>>

CreateFunctionUrl(d) ==
    LET e == Endpoint(deployer[d].cfg)
    IN /\ InStep(d, "createUrl") /\ e \notin urls
       /\ function # Nothing /\ (e = "alias" => alias # Nothing)
       /\ urls' = urls \cup {e}
       /\ Then(d, "access")
       /\ UNCHANGED <<role, bucketVars, function, versions, alias, perms>>

\* A permission that is there already, or is not there to remove, is no error:
\* nor is, when removing, a function that has gone.
ConfigureUrlAccess(d) ==
    LET e == Endpoint(deployer[d].cfg)
    IN /\ InStep(d, "access")
       /\ \/ /\ deployer[d].cfg.anonAccess
             /\ function # Nothing /\ (e = "alias" => alias # Nothing)
             /\ perms' = perms \cup {e}
          \/ ~deployer[d].cfg.anonAccess /\ perms' = perms \ {e}
       /\ Then(d, "deployed")
       /\ UNCHANGED <<role, bucketVars, function, versions, alias, urls>>

-----------------------------------------------------------------------------
UndeployCheck(d) ==
    /\ InStep(d, "checkExists")
    /\ ReadThen(d, IF function = Nothing THEN "idle" ELSE "delete")
    /\ UNCHANGED <<role, bucketVars, functionVars>>

\* With the function go its versions, alias, URLs and permissions.
DeleteFunction(d) ==
    /\ InStep(d, "delete") /\ function # Nothing
    /\ function' = Nothing /\ versions' = <<>> /\ alias' = Nothing /\ urls' = {} /\ perms' = {}
    /\ Then(d, "idle")
    /\ UNCHANGED <<role, bucketVars>>

\* A request fails, is refused, is cancelled by Ctrl+C, or readiness takes too long.
RequestFails(d) ==
    /\ Deploying(d)
    /\ ReadThen(d, "idle")
    /\ UNCHANGED <<role, bucketVars, functionVars>>

\* AWS completes what it was asked for, or fails to.
FunctionSettles ==
    /\ function # Nothing /\ ~function.settled
    /\ function' = [function EXCEPT !.settled = TRUE]
    /\ UNCHANGED <<role, bucketVars, versions, alias, urls, perms, deployer>>
VersionSettles(v) ==
    /\ versions[v] = "pending"
    /\ \E state \in {"active", "failed"} : versions' = [versions EXCEPT ![v] = state]
    /\ UNCHANGED <<role, bucketVars, function, alias, urls, perms, deployer>>

LambdaStep(d) ==
    \/ \E cfg \in DeployConfigs : Deploy(d, cfg)
    \/ EnsureIamRole(d) \/ CreateRole(d) \/ AttachRolePolicy(d) \/ CreateDeploymentPackage(d)
    \/ GetBucketName(d) \/ EnsureBucket(d) \/ CreateBucket(d) \/ Upload(d)
    \/ EnsureFunctionExists(d) \/ CreateFunction(d) \/ EnsureSnapStart(d) \/ UpdateFunctionCode(d)
    \/ AwaitReady(d) \/ PublishVersion(d) \/ GetAlias(d) \/ CreateOrUpdateAlias(d)
    \/ EnsureUrlConfigured(d) \/ CreateFunctionUrl(d) \/ ConfigureUrlAccess(d)
    \/ Undeploy(d) \/ UndeployCheck(d) \/ DeleteFunction(d)
    \/ RequestFails(d)

LambdaNext ==
    /\ \/ \E d \in Deployers : LambdaStep(d)
       \/ FunctionSettles
       \/ \E v \in DOMAIN versions : VersionSettles(v)
    /\ commands' = commands + (IF \E d \in Deployers : deployer[d].pc \in LambdaEnds /\ Deploying(d)' THEN 1 ELSE 0)
    /\ policyCut' = (policyCut \/ \E d \in Deployers :
                       deployer'[d].pc = "idle" /\ deployer[d].pc \in {"createRole", "attach"})

LambdaSpec == LambdaInit /\ [][LambdaNext]_lambdaVars
-----------------------------------------------------------------------------
LambdaTypeOK ==
    /\ role \in {"none", "bare", "attached"}
    /\ bucketName \in Deployers \cup {Nothing}
    /\ \A b \in Deployers : objects[b] # Nothing => buckets[b]
    /\ \A v \in DOMAIN versions : versions[v] \in VersionStates
    /\ urls \subseteq {"function", "alias"} /\ perms \subseteq {"function", "alias"}
    /\ function = Nothing => versions = <<>> /\ alias = Nothing /\ urls = {} /\ perms = {}
    /\ alias \in DOMAIN versions \cup {Latest, Nothing}

Finishes(d) == deployer[d].pc # "deployed" /\ deployer'[d].pc = "deployed"
AliasedCode == IF alias = Latest THEN function.code ELSE alias.code

HasDelivered(d) ==
    LET cfg == deployer[d].cfg
    IN /\ function' # Nothing /\ Endpoint(cfg) \in urls'
       /\ (IF cfg.createAlias THEN AliasedCode' ELSE function'.code) = Bundle(cfg)
       /\ Endpoint(cfg) \in perms' <=> cfg.anonAccess
       /\ cfg.createAlias /\ alias' # Latest => versions'[alias'] # "pending"
       /\ SupportsSnapStart(cfg) => function'.snapStart = cfg.snapStart
       /\ role' = "attached" \/ policyCut

(* A deploy that reports success while no other ran has delivered: the      *)
(* endpoint it configured has a URL, points to the bundle of this           *)
(* directory, in a version AWS is done with, which awaitReady takes for     *)
(* ready though AWS may have failed to start it (deploy.go:157, 184-190),   *)
(* and is open to anonymous callers exactly if configured so; whatever      *)
(* earlier deploys left half done, except a role without its policy: the    *)
(* next deploy takes the role as it is, for good, and the function may not  *)
(* execute (iam.go:14-34).                                                  *)
DeployDelivers == [][\A d \in Deployers : Finishes(d) /\ ~deployer[d].met => HasDelivered(d)]_lambdaVars

(* What flavour.go:41-42 says of the flavour, "matching the binary-download *)
(* gating": the function's runtime runs the binary in its bundle.           *)
RuntimeMatchesBinary == function # Nothing => function.runtime = function.code.flavour
=============================================================================
