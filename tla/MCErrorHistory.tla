--------------------------- MODULE MCErrorHistory ---------------------------
(* ErrorHistory with one fault of the station, one charge module and the     *)
(* group of charge modules.                                                  *)
EXTENDS ErrorHistory
=============================================================================
