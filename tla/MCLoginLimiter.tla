--------------------------- MODULE MCLoginLimiter ---------------------------
(* Instances of LoginLimiter for TLC: more keys than entries, so that the   *)
(* table fills, and a clock that runs past a window, a lock and a cleanup.  *)
EXTENDS LoginLimiter
=============================================================================
