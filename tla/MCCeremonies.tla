---------------------------- MODULE MCCeremonies ----------------------------
(* Instance of Ceremonies for TLC: two requests, tables of two entries that *)
(* fill up and a clock that passes the lifetime of an entry.                *)
EXTENDS Ceremonies
=============================================================================
