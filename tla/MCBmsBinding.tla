--------------------------- MODULE MCBmsBinding ---------------------------
(* BmsBinding on two blocks of job memory, which later jobs reuse.         *)
EXTENDS BmsBinding

CONSTANTS j1, j2
=============================================================================
