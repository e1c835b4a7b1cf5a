---------------------------- MODULE MCContactor ----------------------------
(* Contactor with a bounded number of writes to the byte of the commands.    *)
EXTENDS Contactor
=============================================================================
