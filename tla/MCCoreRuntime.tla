--------------------------- MODULE MCCoreRuntime ---------------------------
(* Instances of CoreRuntime for TLC.  Boxes bounds the boxes that exist at  *)
(* one time; a start that finds none free fails, as any start may.          *)
EXTENDS CoreRuntime
=============================================================================
