---------------------------- MODULE MCProvisioning ----------------------------
(***************************************************************************)
(* What is prepared before a mock starts: the version, the binary, the     *)
(* plugins and the configuration, recorded by `proxy` or scaffolded.  The  *)
(* five keep their state in files of their own and share none, so a        *)
(* behaviour moves one of them.                                            *)
(***************************************************************************)
EXTENDS VersionCache, EngineBinaries, PluginStore, Recorder, Scaffold

CONSTANTS p1, p2, c1, c2, b1, b2

VARIABLE part

Symmetry == Permutations({c1, c2})

MCCommands ==
    {[op |-> "install", args |-> <<p1, p2>>, save |-> TRUE],
     [op |-> "up", args |-> <<>>, save |-> FALSE],
     [op |-> "uninstall", args |-> <<p2, p1>>, save |-> TRUE]}

File(ps, ds) == [plugins |-> ps, deprecated |-> ds, others |-> TRUE]
MCConfigs == {File(<<>>, <<>>), File(<<p2>>, <<p2, p1>>), File(<<p2, p2>>, <<>>)}

\* Two URLs whose responses would be named alike, and two operations of one URL.
Request(url, soap) == [base |-> "x", url |-> url, soap |-> soap]
MCRequests == {Request("GET x", ""), Request("GET x?q", ""), Request("GET x", "op")}

\* None; two with names of their own; two with one base name.
MCSpecLists == {<<>>, <<<<"x", "yaml">>, <<"y", "proto">>>>, <<<<"x", "yaml">>, <<"x", "wsdl">>>>}

Init ==
    /\ part \in {"version", "binaries", "plugins", "proxy", "scaffold"}
    /\ VersionInit /\ BinariesInit /\ PluginInit /\ RecorderInit /\ ScaffoldInit
    /\ part # "binaries" => kind = "jar"
    /\ part # "plugins" => engineType = "jvm" /\ config = File(<<>>, <<>>)
    /\ part # "proxy" => ignoreDuplicates
    /\ part # "scaffold" => specs = <<>>

Next ==
    /\ \/ part = "version"  /\ VersionNext  /\ UNCHANGED <<binariesVars, pluginVars, recorderVars, scaffoldVars>>
       \/ part = "binaries" /\ BinariesNext /\ UNCHANGED <<versionVars, pluginVars, recorderVars, scaffoldVars>>
       \/ part = "plugins"  /\ PluginNext   /\ UNCHANGED <<versionVars, binariesVars, recorderVars, scaffoldVars>>
       \/ part = "proxy"    /\ RecorderNext /\ UNCHANGED <<versionVars, binariesVars, pluginVars, scaffoldVars>>
       \/ part = "scaffold" /\ ScaffoldNext /\ UNCHANGED <<versionVars, binariesVars, pluginVars, recorderVars>>
    /\ UNCHANGED part

Spec == Init /\ [][Next]_<<versionVars, binariesVars, pluginVars, recorderVars, scaffoldVars, part>>
-----------------------------------------------------------------------------
\* The files and the commands at them are what the modules say they are.
TypeOK == VersionTypeOK /\ BinariesTypeOK /\ PluginTypeOK /\ RecorderTypeOK /\ ScaffoldTypeOK

(* What a command leaves damaged is never repaired: a preferences file that *)
(* does not parse stays so, and with it every command asks the API for the  *)
(* version (prefs.go:107-110); and a Lambda binary that was written half    *)
(* stays in the cache, where every later deployment finds it                *)
(* (awslambda/binary.go:88-98) and fails on opening it (bundle.go:71), or   *)
(* bundles it where the zip was closed over the half (binary.go:165).       *)
DamageLasts == TornStaysTorn /\ PartialLambdaIsKept
===============================================================================
