----------------------------- MODULE PluginStore -----------------------------
(***************************************************************************)
(* Plugins (internal/plugin): the plugin files of one engine version, and  *)
(* the list of default plugins in the user's CLI configuration file.       *)
(* `plugin install`, `plugin uninstall` and `up` run as separate CLIs over *)
(* the same files.  A command handles its plugins one after the other and  *)
(* only then updates the list, by reading the file twice and rewriting it. *)
(* A configuration file that cannot be parsed reads as an empty one.       *)
(***************************************************************************)
EXTENDS Naturals, SequencesExt

CONSTANTS
    PluginClis,   \* the CLIs
    Plugins,      \* plugin names
    Commands,     \* the commands they run: [op, args, save]
    Configs,      \* configuration files the user may start with, all with other settings
    Unparsed      \* a configuration file that is not YAML

VARIABLES
    file,        \* plugin -> its file: "absent", "partial" or "whole"
    engineType,  \* "native" unpacks a plugin in place, "jvm" moves a JAR there
    config,      \* the file: Unparsed or [plugins, deprecated, others]
    cli,         \* CLI -> the command it runs
    cut,         \* plugins with an install that was cut short (history)
    listDisturbed    \* two commands updated the list at once, one was killed at it, or failed
                     \* to write it (history)

\* `up` and `plugin install` without names take the configured plugins and save nothing;
\* any other command names plugins.
ASSUME CommandsAssumption ==
    \A cmd \in Commands :
        /\ cmd.op \in {"up", "install", "uninstall"} /\ cmd.args \in Seq(Plugins) /\ cmd.save \in BOOLEAN
        /\ IF cmd.op = "up" THEN ~cmd.save ELSE cmd.args # <<>>
CliConfigs == [plugins : Seq(Plugins), deprecated : Seq(Plugins), others : BOOLEAN]
ASSUME ConfigsAssumption == \A c \in Configs : c \in CliConfigs /\ c.others
ASSUME UnparsedAssumption == Unparsed \notin CliConfigs

pluginVars == <<file, engineType, config, cli, cut, listDisturbed>>

Empty == [plugins |-> <<>>, deprecated |-> <<>>, others |-> FALSE]
NoCommand == [pc |-> "idle", op |-> "none", args |-> <<>>, save |-> FALSE, todo |-> <<>>,
              new |-> <<>>, mem |-> Empty, met |-> FALSE]
PluginEnds == {"idle", "done"}   \* a command that failed or was killed is idle
Active(c)  == cli[c].pc \notin PluginEnds
ListPcs    == {"listDefaults", "parse", "truncate", "fill"}

PluginInit ==
    /\ file = [p \in Plugins |-> "absent"]
    /\ engineType \in {"native", "jvm"}
    /\ config \in Configs
    /\ cli = [c \in PluginClis |-> NoCommand]
    /\ cut = {} /\ listDisturbed = FALSE

\* The elements of s at some of its positions, in their order.
AtPositions(s, I) ==
    [k \in 1..Cardinality(I) |-> s[CHOOSE i \in I : Cardinality({j \in I : j <= i}) = k]]

\* Unique and CombineUnique keep the first of equal elements.
Unique(s) == AtPositions(s, {i \in DOMAIN s : \A j \in DOMAIN s : j < i => s[j] # s[i]})
CombineUnique(s, t) == Unique(s \o t)

\* parseConfigFile: the error of an unreadable file is dropped.
ParseConfigFile == IF config = Unparsed THEN Empty ELSE config

\* getConfiguredPlugins: duplicates are removed only when the deprecated key is set.
ConfiguredPlugins(v) ==
    IF v.deprecated = <<>> THEN v.plugins ELSE CombineUnique(v.plugins, v.deprecated)

Update(c, r) == cli' = [cli EXCEPT ![c] = r]
Done(c) == Update(c, [NoCommand EXCEPT !.pc = "done"])
Fails(c) == Update(c, NoCommand)
FilesKept == UNCHANGED <<file, cut>>

Begin(c, cmd, args) ==
    /\ ~Active(c)
    /\ cli' = [d \in PluginClis |->
         IF d = c
         THEN [NoCommand EXCEPT !.pc = "next", !.op = cmd.op, !.args = args, !.todo = args,
                 !.save = cmd.save, !.met = \E e \in PluginClis : Active(e)]
         ELSE [cli[d] EXCEPT !.met = @ \/ Active(d)]]
    /\ UNCHANGED config /\ FilesKept

EnsurePlugins(c, cmd)    == cmd.op = "install" /\ Begin(c, cmd, cmd.args)
UninstallPlugins(c, cmd) == cmd.op = "uninstall" /\ Begin(c, cmd, cmd.args)
EnsureConfiguredPlugins(c, cmd) ==
    /\ cmd.op = "up"
    /\ Begin(c, cmd, Unique(ParseConfigFile.plugins \o ParseConfigFile.deprecated))

\* Mutant: the first plugin found installed ends the loop.
EnsureFirstPlugin(c) ==
    /\ cli[c].pc = "next" /\ cli[c].todo # <<>> /\ cli[c].op # "uninstall"
    /\ IF file[Head(cli[c].todo)] # "absent"
       THEN Update(c, [cli[c] EXCEPT !.todo = <<>>])
       ELSE Update(c, [cli[c] EXCEPT !.pc = "download"])
    /\ UNCHANGED config /\ FilesKept

\* EnsurePlugin: any file under the plugin's name is an installed plugin.
EnsurePlugin(c) ==
    /\ cli[c].pc = "next" /\ cli[c].todo # <<>> /\ cli[c].op # "uninstall"
    /\ IF file[Head(cli[c].todo)] # "absent"
       THEN Update(c, [cli[c] EXCEPT !.todo = Tail(@)])
       ELSE Update(c, [cli[c] EXCEPT !.pc = "download"])
    /\ UNCHANGED config /\ FilesKept

\* A JAR is renamed into its place; a native plugin, or a JAR whose rename fails, is created
\* there and then filled.
DownloadPlugin(c) ==
    /\ cli[c].pc = "download"
    /\ LET p == Head(cli[c].todo)
       IN \/ /\ engineType = "jvm"
             /\ file' = [file EXCEPT ![p] = "whole"]
             /\ Update(c, [cli[c] EXCEPT !.pc = "next", !.todo = Tail(@)])
          \/ /\ file' = [file EXCEPT ![p] = "partial"]
             /\ Update(c, [cli[c] EXCEPT !.pc = "unpack"])
          \/ /\ UNCHANGED file                       \* the download fails
             /\ Fails(c)
    /\ UNCHANGED <<config, cut>>

\* The extraction or the copy ends.
UnpackPlugin(c) ==
    /\ cli[c].pc = "unpack"
    /\ LET p == Head(cli[c].todo)
           shared == \E d \in PluginClis \ {c} : cli[d].pc = "unpack" /\ Head(cli[d].todo) = p
       IN \/ /\ \E s \in {"whole"} \cup (IF shared THEN {"partial"} ELSE {}) :
                  file' = [file EXCEPT ![p] = IF @ = "absent" THEN @ ELSE s]
             /\ Update(c, [cli[c] EXCEPT !.pc = "next", !.todo = Tail(@)])
             /\ UNCHANGED cut
          \/ /\ cut' = cut \cup {p}                  \* it fails half way
             /\ Fails(c)
             /\ UNCHANGED file
    /\ UNCHANGED config

\* UninstallPlugin looks for the file, then removes it.
UninstallPlugin(c) ==
    /\ cli[c].pc = "next" /\ cli[c].todo # <<>> /\ cli[c].op = "uninstall"
    /\ IF file[Head(cli[c].todo)] = "absent"
       THEN Update(c, [cli[c] EXCEPT !.todo = Tail(@)])
       ELSE Update(c, [cli[c] EXCEPT !.pc = "remove"])
    /\ UNCHANGED config /\ FilesKept

RemovePlugin(c) ==
    /\ cli[c].pc = "remove"
    /\ LET p == Head(cli[c].todo)
       IN IF file[p] = "absent"
          THEN Fails(c) /\ UNCHANGED file
          ELSE /\ Update(c, [cli[c] EXCEPT !.pc = "next", !.todo = Tail(@)])
               /\ file' = [file EXCEPT ![p] = "absent"]
    /\ UNCHANGED <<config, cut>>

PluginsHandled(c) ==
    /\ cli[c].pc = "next" /\ cli[c].todo = <<>>
    /\ IF cli[c].save /\ cli[c].args # <<>> THEN Update(c, [cli[c] EXCEPT !.pc = "listDefaults"])
       ELSE Done(c)
    /\ UNCHANGED config /\ FilesKept

AddDefaultPlugins(existing, args)    == CombineUnique(existing, args)
RemoveDefaultPlugins(existing, args) ==
    AtPositions(existing, {i \in DOMAIN existing : existing[i] \notin ToSet(args)})
\* Equal lengths mean nothing to write.
ListDefaultPlugins(c) ==
    /\ cli[c].pc = "listDefaults"
    /\ LET existing == ConfiguredPlugins(ParseConfigFile)
           updated  == IF cli[c].op = "uninstall" THEN RemoveDefaultPlugins(existing, cli[c].args)
                       ELSE AddDefaultPlugins(existing, cli[c].args)
       IN IF Len(existing) = Len(updated)
          THEN Done(c)
          ELSE Update(c, [cli[c] EXCEPT !.pc = "parse", !.new = updated])
    /\ UNCHANGED config /\ FilesKept

\* Mutant: the list read before is not used.
ParseKeepsList(c) ==
    /\ cli[c].pc = "parse"
    /\ Update(c, [cli[c] EXCEPT !.pc = "truncate", !.mem = [ParseConfigFile EXCEPT !.deprecated = <<>>]])
    /\ UNCHANGED config /\ FilesKept
\* writeDefaultPlugins reads the file again and clears the deprecated key ...
ParseForWrite(c) ==
    /\ cli[c].pc = "parse"
    /\ Update(c, [cli[c] EXCEPT !.pc = "truncate",
                    !.mem = [ParseConfigFile EXCEPT !.plugins = cli[c].new, !.deprecated = <<>>]])
    /\ UNCHANGED config /\ FilesKept

\* ... then truncates the file, if it can be opened, and writes it.
TruncateConfig(c) ==
    /\ cli[c].pc = "truncate"
    /\ config' = Unparsed
    /\ Update(c, [cli[c] EXCEPT !.pc = "fill"])
    /\ FilesKept
\* Where another CLI has filled the file in between, the two may show through.
WriteConfig(c) ==
    /\ cli[c].pc = "fill"
    /\ config' \in {cli[c].mem} \cup (IF config = Unparsed THEN {} ELSE {Unparsed})
    /\ Done(c)
    /\ FilesKept

\* WriteConfigAs fails, on opening the file or on writing it: the callers log that, and the
\* command succeeds.
WriteConfigAsFails(c, pc) ==
    /\ cli[c].pc = pc
    /\ Done(c)
    /\ UNCHANGED config /\ FilesKept
ListNotOpened(c)  == WriteConfigAsFails(c, "truncate")
ListNotWritten(c) == WriteConfigAsFails(c, "fill")

PluginCliKilled(c) ==
    /\ Active(c)
    /\ Fails(c)
    /\ cut' = cut \cup (IF cli[c].pc = "unpack" THEN {Head(cli[c].todo)} ELSE {})
    /\ UNCHANGED <<file, config>>

Listing == {c \in PluginClis : cli[c].pc \in ListPcs}
TwoListing == \E c, d \in Listing : c # d
KilledListing == \E c \in Listing : cli'[c].pc = "idle"

PluginNext ==
    /\ \E c \in PluginClis :
         \/ \E cmd \in Commands :
              EnsurePlugins(c, cmd) \/ EnsureConfiguredPlugins(c, cmd) \/ UninstallPlugins(c, cmd)
         \/ EnsurePlugin(c) \/ DownloadPlugin(c) \/ UnpackPlugin(c)
         \/ UninstallPlugin(c) \/ RemovePlugin(c) \/ PluginsHandled(c)
         \/ ListDefaultPlugins(c) \/ ParseForWrite(c) \/ TruncateConfig(c) \/ WriteConfig(c)
         \/ ListNotOpened(c) \/ ListNotWritten(c)
         \/ PluginCliKilled(c)
    /\ listDisturbed' = \/ listDisturbed \/ TwoListing' \/ KilledListing
                        \/ \E c \in PluginClis : ListNotWritten(c)
    /\ UNCHANGED engineType

PluginSpec == PluginInit /\ [][PluginNext]_pluginVars
-----------------------------------------------------------------------------
PluginTypeOK ==
    /\ file \in [Plugins -> {"absent", "partial", "whole"}]
    /\ config = Unparsed \/ (/\ ToSet(config.plugins) \cup ToSet(config.deprecated) \subseteq Plugins
                             /\ config.others \in BOOLEAN)
    /\ cut \subseteq Plugins /\ listDisturbed \in BOOLEAN
    /\ \A c \in PluginClis :
         /\ cli[c].pc \in PluginEnds \cup ListPcs \cup {"next", "download", "unpack", "remove"}
         /\ ToSet(cli[c].args) \cup ToSet(cli[c].todo) \cup ToSet(cli[c].new) \subseteq Plugins

Ends(c) == cli[c].pc # "done" /\ cli'[c].pc = "done"

(* A command that reports success leaves every plugin it was asked for      *)
(* usable, or none of those it removed: unless another command ran          *)
(* meanwhile, or an earlier install was cut short as it extracted or copied *)
(* the plugin, and its remains pass for an installed one (plugin.go:77-84,  *)
(* fileutil.go:94-104).                                                     *)
PluginsAsAsked ==
    [][\A c \in PluginClis : Ends(c) /\ ~cli[c].met =>
         \A p \in ToSet(cli[c].args) \ cut :
           file'[p] = (IF cli[c].op = "uninstall" THEN "absent" ELSE "whole")]_pluginVars

(* With --save-default the plugins are in the list when the command ends,   *)
(* with --remove-default they are not, so the next `up` installs what the   *)
(* user asked for: as long as one command at a time updates the list, none  *)
(* is killed doing so, the file can be written (that it cannot be is only   *)
(* logged, plugin.go:33-37, 115-119), and no plugin was listed twice (the   *)
(* lengths that are compared to see whether anything was added count        *)
(* duplicates, defaults.go:25).  Everything else the user configured is     *)
(* still there.                                                             *)
DefaultsAsAsked ==
    [][\A c \in PluginClis : Ends(c) /\ cli[c].save /\ ~listDisturbed' /\ ~ListNotOpened(c) =>
         LET asked  == ToSet(cli[c].args)
             listed == ToSet(ConfiguredPlugins(config'))
             listedTwice == cli[c].pc = "listDefaults" /\ ~IsInjective(ConfiguredPlugins(config))
         IN /\ config'.others
            /\ IF cli[c].op = "uninstall" THEN listed \cap asked = {}
               ELSE listedTwice \/ asked \subseteq listed]_pluginVars
=============================================================================
