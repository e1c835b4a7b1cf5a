------------------------------- MODULE MCUart -------------------------------
(* Uart with up to three users: a box that may ask for the next turn, one    *)
(* with commands now and then, and a meter.                                  *)
EXTENDS Uart

MCDiedLine == <<2, 1, 1>>
=============================================================================
