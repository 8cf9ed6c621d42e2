--------------------------- MODULE MCSessionParts ---------------------------
(***************************************************************************)
(* Two parts of a session that share no state: the debouncer, used by a    *)
(* few goroutines for a few IDs, and the watcher of a directory that is    *)
(* edited a few times.  A behaviour is about one of them.                  *)
(***************************************************************************)
EXTENDS Debouncer, DirWatcher

VARIABLE part

partsVars == <<part, vars, watcherVars>>

PartsInit ==
  /\ part \in {"debouncer", "watcher"}
  /\ Init /\ WatcherInit
  /\ part = "debouncer" => watching

PartsNext ==
  /\ UNCHANGED part
  /\ \/ part = "debouncer" /\ Next /\ UNCHANGED watcherVars
     \/ part = "watcher" /\ WatcherNext /\ UNCHANGED vars

PartsSpec == PartsInit /\ [][PartsNext]_partsVars /\ (part = "watcher" => WatcherFairness)
=============================================================================
