----------------------------- MODULE MCHachiko -----------------------------
(* Hachiko with two timers for two slots.                                  *)
EXTENDS Hachiko

CONSTANTS f1, f2
=============================================================================
