---------------------------- MODULE VersionCache ----------------------------
(***************************************************************************)
(* How a CLI turns "latest" into a version (internal/engine/version.go)    *)
(* through the preferences file that every CLI of the user shares          *)
(* (internal/prefs/prefs.go).  A lookup reads two keys of the file in two  *)
(* reads and writes them in two writes; a write loads the whole file,      *)
(* changes one key and rewrites the file with os.WriteFile, which          *)
(* truncates before it writes.  Nothing locks the file, a CLI may be       *)
(* killed anywhere, and the release API may fail.                          *)
(***************************************************************************)
EXTENDS Integers

CONSTANTS
    Resolvers,     \* the CLIs that resolve a version
    EngineTypes,   \* engine types: each has its own pair of keys in the file
    MaxVersion,    \* bound: releases per engine type
    MaxTime,       \* bound: the clock
    Threshold,     \* checkThresholdSeconds, in clock units
    Torn           \* a file that is not JSON: truncated, or mixed by two writers

VARIABLES
    prefs,      \* the file: Torn, or per engine type the latest version and its check time
    published,  \* engine type -> the release the API calls the latest
    until,      \* engine type -> release -> when a newer one replaced it (history)
    clock,
    resolver,   \* the lookup each CLI is in
    prefsDisturbed,  \* has one of two events of note happened (history): two lookups updating
                \* the file at once, or a write that could not open it
    beyondRepair     \* the file was torn with no CLI in the middle of rewriting it (history)

versionVars == <<prefs, published, until, clock, resolver, prefsDisturbed, beyondRepair>>

Unset   == 0                 \* a key that is absent reads as "" or 0
NoPair  == [latest |-> Unset, check |-> Unset]
Pairs   == [latest : 0..MaxVersion, check : 0..MaxTime]
Files   == {Torn} \cup [EngineTypes -> Pairs]

ASSUME EngineTypesAssumption == EngineTypes # {}
ASSUME BoundsAssumption ==
    MaxVersion \in Nat \ {0} /\ MaxTime \in Nat /\ Threshold \in 1..MaxTime
ASSUME TornAssumption == Torn \notin [EngineTypes -> Pairs]

Idle    == [pc |-> "idle", type |-> CHOOSE t \in EngineTypes : TRUE, allowCached |-> FALSE,
            now |-> 0, ver |-> Unset, from |-> "none", mem |-> Torn,
            fallback |-> FALSE, raced |-> FALSE]

ReadPcs  == {"readCheck", "readLatest"}
WritePcs == {"loadLatest", "writeLatest", "fillLatest", "loadCheck", "writeCheck", "fillCheck"}
RewritePcs == {"writeLatest", "fillLatest", "writeCheck", "fillCheck"}
EndPcs   == {"idle", "resolved"}   \* resolved from the cache; any other end is idle
Running(c) == resolver[c].pc \notin EndPcs
Looking(c) == resolver[c].pc \in ReadPcs \cup {"fetch"}

VersionInit ==
    /\ prefs = [t \in EngineTypes |-> NoPair]       \* loadState: a missing file is an empty map
    /\ published = [t \in EngineTypes |-> 1]
    /\ until = [t \in EngineTypes |-> [v \in 1..MaxVersion |-> MaxTime + 1]]
    /\ clock = Threshold                            \* no check has ever been made: 0 is expired
    /\ resolver = [c \in Resolvers |-> Idle]
    /\ prefsDisturbed = FALSE /\ beyondRepair = FALSE

Set(c, r) == resolver' = [resolver EXCEPT ![c] = r]

\* ResolveLatestToVersion: the time is taken once, for the reads, the fallback and the write.
ResolveLatest(c, t, allow) ==
    /\ ~Running(c)
    /\ Set(c, [Idle EXCEPT !.pc = IF allow THEN "readCheck" ELSE "fetch",
                           !.type = t, !.allowCached = allow, !.now = clock])
    /\ UNCHANGED <<prefs, published, until, clock>>

\* ReadProperty*: an unreadable file reads as the zero value.
ReadKey(t, k) == IF prefs = Torn THEN Unset ELSE prefs[t][k]

\* No usable value: the first pass looks the version up, the fallback gives up.
NotCached(c) ==
    Set(c, IF resolver[c].fallback THEN Idle ELSE [resolver[c] EXCEPT !.pc = "fetch"])

\* Mutant: the fallback does not look at the time of the check.
LoadCachedAnyway(c) ==
    /\ resolver[c].pc = "readCheck"
    /\ IF resolver[c].fallback \/ resolver[c].now - ReadKey(resolver[c].type, "check") < Threshold
       THEN Set(c, [resolver[c] EXCEPT !.pc = "readLatest"]) ELSE NotCached(c)
    /\ UNCHANGED <<prefs, published, until, clock>>

LoadCachedCheck(c) ==
    /\ resolver[c].pc = "readCheck"
    /\ \/ /\ resolver[c].now - ReadKey(resolver[c].type, "check") < Threshold
          /\ Set(c, [resolver[c] EXCEPT !.pc = "readLatest"])
       \/ /\ resolver[c].now - ReadKey(resolver[c].type, "check") >= Threshold
          /\ NotCached(c)
    /\ UNCHANGED <<prefs, published, until, clock>>

LoadCachedLatest(c) ==
    /\ resolver[c].pc = "readLatest"
    /\ LET v == ReadKey(resolver[c].type, "latest")
       IN IF v = Unset THEN NotCached(c)
          ELSE Set(c, [resolver[c] EXCEPT !.pc = "resolved", !.ver = v,
                         !.from = IF resolver[c].fallback THEN "fallback" ELSE "cache"])
    /\ UNCHANGED <<prefs, published, until, clock>>

FetchLatest(c) ==
    /\ resolver[c].pc = "fetch"
    /\ Set(c, [resolver[c] EXCEPT !.pc = "loadLatest", !.allowCached = FALSE,
                                  !.ver = published[resolver[c].type]])
    /\ UNCHANGED <<prefs, published, until, clock>>

\* The API does not answer: the same read, with the same time, before giving up.
FetchFails(c) ==
    /\ resolver[c].pc = "fetch"
    /\ Set(c, IF resolver[c].allowCached THEN [resolver[c] EXCEPT !.pc = "readCheck", !.fallback = TRUE]
              ELSE Idle)
    /\ UNCHANGED <<prefs, published, until, clock>>

\* After the write of one key the other; a failed write is only logged.
AfterWrite(c) ==
    IF resolver[c].pc \in {"loadLatest", "writeLatest", "fillLatest"}
    THEN [resolver[c] EXCEPT !.pc = "loadCheck", !.mem = Torn] ELSE Idle
WriteGivenUp(c) == Set(c, AfterWrite(c))

\* Mutant: a file that cannot be parsed is an empty map.
WriteLoadAny(c) ==
    /\ resolver[c].pc \in {"loadLatest", "loadCheck"}
    /\ Set(c, [resolver[c] EXCEPT !.pc = IF @ = "loadLatest" THEN "writeLatest" ELSE "writeCheck",
                 !.mem = IF prefs = Torn THEN [t \in EngineTypes |-> NoPair] ELSE prefs])
    /\ UNCHANGED <<prefs, published, until, clock>>

\* loadState: the whole file as it is now, or an error.
WriteLoad(c) ==
    /\ resolver[c].pc \in {"loadLatest", "loadCheck"}
    /\ IF prefs = Torn THEN WriteGivenUp(c)
       ELSE Set(c, [resolver[c] EXCEPT !.mem = prefs,
                      !.pc = IF @ = "loadLatest" THEN "writeLatest" ELSE "writeCheck"])
    /\ UNCHANGED <<prefs, published, until, clock>>

\* os.WriteFile opens with O_TRUNC ...
WriteTruncate(c) ==
    /\ resolver[c].pc \in {"writeLatest", "writeCheck"}
    /\ \/ /\ prefs' = Torn
          /\ Set(c, [resolver[c] EXCEPT !.pc = IF @ = "writeLatest" THEN "fillLatest" ELSE "fillCheck"])
       \/ WriteGivenUp(c) /\ UNCHANGED prefs          \* the file could not be opened
    /\ UNCHANGED <<published, until, clock>>

\* Mutant: the time of the check is the time it is written.
EditedLate(c) ==
    LET r == resolver[c]
    IN IF r.pc = "fillLatest" THEN [r.mem EXCEPT ![r.type].latest = r.ver]
       ELSE [r.mem EXCEPT ![r.type].check = clock]

\* ... and writes what was loaded with one key replaced.  Where another CLI has
\* filled the file in between, the longer of the two contents may show through.
Edited(c) ==
    LET r == resolver[c]
    IN IF r.pc = "fillLatest" THEN [r.mem EXCEPT ![r.type].latest = r.ver]
       ELSE [r.mem EXCEPT ![r.type].check = r.now]
WriteFill(c) ==
    /\ resolver[c].pc \in {"fillLatest", "fillCheck"}
    /\ prefs' \in {Edited(c)} \cup (IF prefs = Torn THEN {} ELSE {Torn})
    /\ resolver' = [d \in Resolvers |->
                      IF d = c THEN AfterWrite(c)
                      ELSE [resolver[d] EXCEPT !.raced = @ \/ Looking(d)]]
    /\ UNCHANGED <<published, until, clock>>

\* The disk is full: the write fails after the truncation.
WriteFails(c) ==
    /\ resolver[c].pc \in {"fillLatest", "fillCheck"}
    /\ WriteGivenUp(c)
    /\ UNCHANGED <<prefs, published, until, clock>>

Killed(c) ==
    /\ Running(c)
    /\ Set(c, Idle)
    /\ UNCHANGED <<prefs, published, until, clock>>

Release(t) ==
    /\ published[t] < MaxVersion
    /\ published' = [published EXCEPT ![t] = @ + 1]
    /\ until' = [until EXCEPT ![t][published[t]] = clock]
    /\ UNCHANGED <<prefs, clock, resolver>>

Tick ==
    /\ clock < MaxTime
    /\ clock' = clock + 1
    /\ UNCHANGED <<prefs, published, until, resolver>>

VersionStep(c) ==
    \/ \E t \in EngineTypes, allow \in BOOLEAN : ResolveLatest(c, t, allow)
    \/ LoadCachedCheck(c) \/ LoadCachedLatest(c) \/ FetchLatest(c) \/ FetchFails(c)
    \/ WriteLoad(c) \/ WriteTruncate(c) \/ WriteFill(c) \/ WriteFails(c)

Updating == {c \in Resolvers : resolver[c].pc \in WritePcs \cup {"fetch"}}

OpenRefused(c) == resolver[c].pc \in {"writeLatest", "writeCheck"} /\ resolver'[c] = AfterWrite(c)

VersionNext ==
    /\ \/ \E c \in Resolvers : VersionStep(c) \/ Killed(c)
       \/ \E t \in EngineTypes : Release(t)
       \/ Tick
    /\ prefsDisturbed' = (\/ prefsDisturbed \/ (\E c, d \in Updating : c # d)'
                         \/ \E c \in Resolvers : OpenRefused(c))
    /\ beyondRepair' = (beyondRepair \/ (prefs' = Torn /\ \A c \in Resolvers : resolver'[c].pc \notin RewritePcs))

VersionSpec == VersionInit /\ [][VersionNext]_versionVars
-----------------------------------------------------------------------------
Lookups ==
    [pc : {"fetch"} \cup ReadPcs \cup WritePcs \cup EndPcs, type : EngineTypes, allowCached : BOOLEAN,
     now : 0..MaxTime, ver : 0..MaxVersion, from : {"none", "cache", "fallback"}, mem : Files,
     fallback : BOOLEAN, raced : BOOLEAN]

VersionTypeOK ==
    /\ prefs \in Files
    /\ published \in [EngineTypes -> 1..MaxVersion]
    /\ until \in [EngineTypes -> [1..MaxVersion -> 0..(MaxTime + 1)]]
    /\ clock \in 0..MaxTime
    /\ prefsDisturbed \in BOOLEAN /\ beyondRepair \in BOOLEAN
    /\ resolver \in [Resolvers -> Lookups]

(* A version served from the cache was the latest release within the        *)
(* threshold before the command began, wherever earlier CLIs were killed or *)
(* ran out of disk.  It rests on the order of the two writes of             *)
(* lookupLatest (version before time) and on taking the time before the     *)
(* lookup.  Two events break it, and the history variable excludes them:    *)
(* two lookups that update the file at once, and a first write that cannot  *)
(* open the file when the second can (the old version gets the new time).   *)
ServedIsRecent ==
    \A c \in Resolvers : resolver[c].from = "cache" /\ ~prefsDisturbed =>
        until[resolver[c].type][resolver[c].ver] > resolver[c].now - Threshold

(* The fallback to the cache (version.go:122-131) makes the same expiry test *)
(* with the same time as the read that sent the lookup to the API, so it    *)
(* serves a version only if another CLI has written the file meanwhile.     *)
FallbackNeedsAnotherWriter ==
    \A c \in Resolvers : resolver[c].from = "fallback" => resolver[c].raced

\* Every later write loads the file first and fails (prefs.go:107-110).
TornStaysTorn == beyondRepair => prefs = Torn
=============================================================================
