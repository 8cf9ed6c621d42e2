------------------------- MODULE MCProcessLifecycle -------------------------
(* One jvm or native session with a process and the one that replaces it. *)
EXTENDS ProcessLifecycle
=============================================================================
