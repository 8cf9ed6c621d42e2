------------------------------ MODULE MCRemotes ------------------------------
(***************************************************************************)
(* What outlives the command that made it: deployments to the two remotes  *)
(* and detached mocks.  The three share no state but the workspace files,  *)
(* so a behaviour moves one of them.                                       *)
(***************************************************************************)
EXTENDS MocksCloud, LambdaDeploy, ManagedMocks, TLC

CONSTANTS
    Parts,     \* those a run moves
    c1, c2, n1, n2, f, g, p1, p2, q1, q2, h

VARIABLE part

\* The PIDs are the names, the ports the clients: no part uses both of a pair, and one
\* permutation then serves either part.
Symmetry == Permutations({c1, c2}) \cup Permutations({n1, n2})

MCDirectories == {f :> "a" @@ g :> "a", f :> "b"}

Config(content, flavour, publish, useAlias, anon, s3, snap) ==
    [content |-> content, flavour |-> flavour, publishVersion |-> publish, createAlias |-> useAlias,
     anonAccess |-> anon, uploadToS3 |-> s3, snapStart |-> snap]
\* Two that take every step (S3, versions, alias) and one that takes the fewest.
MCDeployConfigs == {Config("a", "jvm", TRUE, TRUE, TRUE, TRUE, FALSE),
                    Config("b", "jvm", TRUE, TRUE, FALSE, TRUE, TRUE),
                    Config("c", "native", FALSE, FALSE, FALSE, FALSE, FALSE)}

MCMockOptions == {[hash |-> h, port |-> q] : q \in {q1, q2}}
\* Two mocks; a JAR of somebody else's named like one, and one that is not; a mock whose JAR
\* has a name of its own.
Program(name, fits, kind) == [name |-> name, fits |-> fits, kind |-> kind]
MCPrograms == {Program("jvm", TRUE, "jvm"), Program("native", TRUE, "native"),
               Program("jvm", TRUE, "other"), Program("jvm", FALSE, "other"), Program("jvm", FALSE, "jvm")}
\* Two commands run at once only when both are `up`: to any other command a second one
\* looks like mocks that come and go, as they do anyway.
OnlyUpsTogether ==
    \A c, d \in MockClis : c # d => "none" \in {cmd[c].op, cmd[d].op} \/ {cmd[c].op, cmd[d].op} = {"up"}

\* The last Lambda command runs alone: of two that meet neither is promised anything, and
\* after the last there is none to find what they left.
LastAlone ==
    commands = MaxCommands => \A d, e \in Deployers : Deploying(d) /\ Deploying(e) => d = e

Init ==
    /\ part \in Parts
    /\ CloudInit /\ (part # "cloud" => meta = NoMetadata /\ local = f :> "b")
    /\ LambdaInit /\ ManagedInit

Next ==
    /\ \/ part = "cloud"  /\ CloudNext   /\ UNCHANGED <<lambdaVars, managedVars>>
       \/ part = "lambda" /\ LambdaNext  /\ LastAlone' /\ UNCHANGED <<cloudVars, managedVars>>
       \/ part = "mocks"  /\ ManagedNext /\ OnlyUpsTogether' /\ UNCHANGED <<cloudVars, lambdaVars>>
    /\ UNCHANGED part

Spec == Init /\ [][Next]_<<cloudVars, lambdaVars, managedVars, part>>
-----------------------------------------------------------------------------
\* The workspaces, the platforms and the commands at them are what the modules say they are.
TypeOK == WorkspacesTypeOK /\ CloudTypeOK /\ LambdaTypeOK /\ ManagedTypeOK
===============================================================================
