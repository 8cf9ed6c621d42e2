------------------------------- MODULE Scaffold -------------------------------
(***************************************************************************)
(* `imposter scaffold` and `up --scaffold` (internal/impostermodel,        *)
(* internal/config/engine_config.go): for each specification in a          *)
(* directory a script and a configuration beside it, named after it, and   *)
(* last the directory's .imposter.yaml; without specifications a REST      *)
(* mock.  A file is looked for (MustNotExist) and then created, which      *)
(* truncates what is there by now, and written; the user may come between  *)
(* the two.  What goes wrong is fatal and undoes nothing.  `up` scaffolds  *)
(* only a directory in which no file is named like a configuration.        *)
(*                                                                         *)
(* A file is <<base, extension>>.  What a file says is the set of files    *)
(* and plugins it names.  A command refused before it does anything is     *)
(* left out.                                                               *)
(***************************************************************************)
EXTENDS Naturals, Sequences, Functions

CONSTANT SpecLists   \* the specifications in a directory, in the order of discovery

VARIABLES
    specs,      \* those of this directory
    directory,  \* file -> [by, names]; by "nobody" is no file
    scaffold,   \* the command: [pc, op, todo, forced, scripted]
    checked,    \* it has looked for the file it is at, and goes on to create it
    late,       \* the user has come in between, and wrote that file (history)
    cutShort    \* the configurations are what a scaffold that failed has left (history)

\* A specification is a file with one of the extensions the discovery looks for.
SpecFiles == STRING \X {"yaml", "yml", "json", "wsdl", "proto"}
ASSUME SpecListsAssumption == \A list \in SpecLists : list \in Seq(SpecFiles)

scaffoldVars == <<specs, directory, scaffold, checked, late, cutShort>>

ConfigFile(spec) == <<spec[1], "config">>
ScriptFile(spec) == <<spec[1], "script">>
DotImposter  == <<"", "imposter">>
Readme       == <<"README", "md">>
ResponseFile == <<"response", "json">>
GrpcPlugin   == <<"grpc", "plugin">>

\* writeRestMockConfig is given a file that does not exist, to name its own after.
Anchors(list) == IF list = <<>> THEN << <<"mock", "txt">> >> ELSE list
ConfigFiles == {ConfigFile(s) : s \in Range(Anchors(specs))}
FileNames ==
    ConfigFiles \cup {ScriptFile(s) : s \in Range(Anchors(specs))} \cup {DotImposter}
    \cup (IF specs = <<>> THEN {Readme, ResponseFile} ELSE {})

NoFile   == [by |-> "nobody", names |-> {}]
CutFile  == [by |-> "cut", names |-> {}]
RemovedFile == [by |-> "removed", names |-> {}]
UserFile == [by |-> "user", names |-> {}]
Generated(names) == [by |-> "scaffold", names |-> names]

Exists(name) == directory[name].by \notin {"nobody", "removed"}
\* ContainsConfigFile: the name is all it looks at.
ContainsConfigFile == \E name \in ConfigFiles : Exists(name)

ScaffoldEnds == {"idle", "done", "started", "failed"}
Resting == [pc |-> "idle", op |-> "none", todo |-> <<>>, forced |-> FALSE, scripted |-> FALSE]

ScaffoldInit ==
    /\ specs \in SpecLists
    /\ directory = [name \in FileNames |-> NoFile]
    /\ scaffold = Resting /\ checked = FALSE /\ late = FALSE /\ cutShort = FALSE

Ended == scaffold.pc \in ScaffoldEnds
Run(op, forced, scripted) ==
    scaffold' = [pc |-> IF specs = <<>> THEN "readme" ELSE "script", op |-> op,
                 todo |-> Anchors(specs), forced |-> forced, scripted |-> scripted]

Create(forced, scripted) ==
    /\ Ended
    /\ Run("scaffold", forced, scripted)
    /\ UNCHANGED <<specs, directory, checked, late, cutShort>>

\* ValidateConfigExists.  A directory without specifications is refused.
UpScaffoldMissing ==
    /\ Ended
    /\ \/ ContainsConfigFile /\ scaffold' = [Resting EXCEPT !.pc = "started"]
       \/ ~ContainsConfigFile /\ specs # <<>> /\ Run("up", FALSE, FALSE)
    /\ UNCHANGED <<specs, directory, checked, late, cutShort>>

\* The file that the command looks for and creates next; `Opening` once it does.
Current ==
    IF scaffold.pc = "script" THEN ScriptFile(Head(scaffold.todo))
    ELSE IF scaffold.pc = "config" THEN ConfigFile(Head(scaffold.todo)) ELSE DotImposter
Opening ==
    IF checked THEN {Current}
    ELSE IF scaffold.pc = "readme" THEN {Readme}
    ELSE IF scaffold.pc = "response" THEN {ResponseFile} ELSE {}

\* MustNotExist
LookFor ==
    /\ scaffold.pc \in {"config", "dot"} \/ (scaffold.pc = "script" /\ scaffold.scripted)
    /\ ~checked /\ (scaffold.forced \/ ~Exists(Current))
    /\ checked' = TRUE
    /\ UNCHANGED <<specs, directory, scaffold, late, cutShort>>

\* A file that is there is fatal; so is what goes wrong in os.Stat, in os.Create, in the
\* parsing of a specification or in the write, and Ctrl+C ends the command anywhere.
ScaffoldFails ==
    /\ ~Ended /\ UNCHANGED specs
    /\ directory' \in {directory} \cup {[directory EXCEPT ![name] = CutFile] : name \in Opening}
    /\ scaffold' = [Resting EXCEPT !.pc = "failed"] /\ checked' = FALSE /\ late' = FALSE
    /\ cutShort' = (/\ ContainsConfigFile'
                    /\ cutShort \/ directory' # directory \/ scaffold.todo # Anchors(specs))

\* The file is created, or truncated, and written.
Writes(name, text) == directory' = [directory EXCEPT ![name] = text]
Proceed(next, todo) ==
    /\ scaffold' = [scaffold EXCEPT !.pc = next, !.todo = todo]
    /\ checked' = FALSE /\ late' = FALSE /\ UNCHANGED specs

\* generateReadmeFile and generateResponseFile look for nothing.
WriteRestFile(pc, name, next) ==
    /\ scaffold.pc = pc
    /\ Writes(name, Generated({})) /\ Proceed(next, scaffold.todo) /\ UNCHANGED cutShort
WriteReadme   == WriteRestFile("readme", Readme, "response")
WriteResponse == WriteRestFile("response", ResponseFile, "script")

\* getScriptFileName
WriteScriptFile ==
    /\ scaffold.pc = "script"
    /\ \/ ~scaffold.scripted /\ UNCHANGED directory
       \/ checked /\ Writes(ScriptFile(Head(scaffold.todo)), Generated({}))
    /\ Proceed("config", scaffold.todo) /\ UNCHANGED cutShort

\* GenerateConfig names the specification, and the script where there are resources.
Naming(spec) ==
    {Generated({spec})} \cup (IF scaffold.scripted /\ spec[2] # "proto"
                              THEN {Generated({spec, ScriptFile(spec)})} ELSE {})

\* Mutant: the first specification is the last.
FirstOnly(todo) == <<>>
Others(todo) == Tail(todo)

WriteMockConfig ==
    /\ scaffold.pc = "config" /\ checked
    /\ LET spec == Head(scaffold.todo)
           rest == Others(scaffold.todo)
       IN /\ \E text \in Naming(spec) : Writes(ConfigFile(spec), text)
          /\ Proceed(IF rest = <<>> THEN "dot" ELSE "script", rest)
    /\ UNCHANGED cutShort

DotConfig == Generated({GrpcPlugin : s \in {t \in Range(specs) : t[2] = "proto"}})

\* Mutant: the file is written without a look.
WriteDotAnyway ==
    /\ scaffold.pc = "dot"
    /\ Writes(DotImposter, DotConfig)
    /\ Proceed(IF scaffold.op = "up" THEN "started" ELSE "done", <<>>)
    /\ cutShort' = FALSE

WriteDotImposterYaml ==
    /\ scaffold.pc = "dot" /\ checked
    /\ Writes(DotImposter, DotConfig)
    /\ Proceed(IF scaffold.op = "up" THEN "started" ELSE "done", <<>>)
    /\ cutShort' = FALSE

\* The user writes, changes or removes one of the files, also while a command runs.
UserWrites(name) ==
    /\ directory' \in {[directory EXCEPT ![name] = UserFile]} \cup
         (IF Exists(name) THEN {[directory EXCEPT ![name] = RemovedFile]} ELSE {})
    /\ late' = (late \/ name \in Opening)
    /\ UNCHANGED <<specs, scaffold, checked, cutShort>>

ScaffoldNext ==
    \/ \E forced, scripted \in BOOLEAN : Create(forced, scripted)
    \/ UpScaffoldMissing \/ LookFor \/ ScaffoldFails
    \/ WriteReadme \/ WriteResponse \/ WriteScriptFile \/ WriteMockConfig \/ WriteDotImposterYaml
    \/ \E name \in FileNames : UserWrites(name)

ScaffoldSpec == ScaffoldInit /\ [][ScaffoldNext]_scaffoldVars
-----------------------------------------------------------------------------
ScaffoldTypeOK ==
    /\ specs \in SpecLists
    /\ DOMAIN directory = FileNames
    /\ \A name \in FileNames : directory[name].by \in {"nobody", "removed", "user", "cut", "scaffold"}
    /\ scaffold.pc \in ScaffoldEnds \cup {"readme", "response", "script", "config", "dot"}
    /\ scaffold.pc \in {"script", "config"} <=> scaffold.todo # <<>> /\ scaffold.pc \notin {"readme", "response"}
    /\ checked => scaffold.pc \in {"script", "config", "dot"}
    /\ {checked, late, cutShort} \subseteq BOOLEAN

ByUser(name) == directory[name].by \in {"user", "removed"}
Covered(spec) ==
    LET text == directory[ConfigFile(spec)]
    IN /\ spec \in text.names
       /\ ScriptFile(spec) \in text.names => Exists(ScriptFile(spec)) \/ ByUser(ScriptFile(spec))
       /\ spec[2] = "proto" => GrpcPlugin \in directory[DotImposter].names \/ ByUser(DotImposter)

(* When `scaffold`, or `up --scaffold` on a directory the user has not      *)
(* configured, reports success, each specification has a configuration,     *)
(* with the script and the plugin it needs: unless an earlier scaffold was  *)
(* cut short, whose remains pass for a whole configuration                  *)
(* (engine_config.go:39-41), or a later specification has the same base     *)
(* name, whose configuration a forced scaffold writes over it               *)
(* (fileutil.go:50-51).                                                     *)
SuccessCoversSpecs ==
    scaffold.pc \in {"done", "started"} /\ ~cutShort /\ (\A name \in ConfigFiles : ~ByUser(name)) =>
        \A i \in DOMAIN specs :
            (\A j \in DOMAIN specs : j > i => specs[j][1] # specs[i][1]) => Covered(specs[i])

(* Without --force-overwrite no file of the user's is written over, not     *)
(* even by a command that is refused half way: but for the file the user    *)
(* makes between the look for it and its creation (fileutil.go:55-63,       *)
(* configfile.go:179), and the README and the response of the REST mock,    *)
(* which nothing is looked for before (rest.go:30-70).                      *)
UnforcedKeepsUserFiles ==
    [][\A name \in FileNames :
         directory[name].by = "user" /\ ~scaffold.forced /\ directory'[name].by \notin {"user", "removed"} =>
            (late /\ name \in Opening) \/ name \in {Readme, ResponseFile}]_scaffoldVars
=============================================================================
