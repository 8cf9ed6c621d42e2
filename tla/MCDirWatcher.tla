---------------------------- MODULE MCDirWatcher ----------------------------
(* A configuration directory edited a few times, by itself. *)
EXTENDS DirWatcher
=============================================================================
