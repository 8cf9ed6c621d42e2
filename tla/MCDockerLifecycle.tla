------------------------- MODULE MCDockerLifecycle -------------------------
(* One docker session: container numbers are handed out in order. *)
EXTENDS DockerLifecycle
=============================================================================
