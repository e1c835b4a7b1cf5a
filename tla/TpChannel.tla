----------------------------- MODULE TpChannel -----------------------------
(***************************************************************************)
(* What the driver of a job may rely on when the BMS sends a packet of     *)
(* more than eight bytes: it gets the packet that is being sent, whole,    *)
(* maybe more than once, or not at all when the BMS gives it up; and it    *)
(* does get one that is not given up.  CanTp implements this.              *)
(***************************************************************************)
EXTENDS Naturals

CONSTANT NrMessages  \* packets the BMS sends, one after the other

VARIABLES
  offered,  \* the packet that the BMS is sending
  got       \* the last packet the driver got, 0 before the first

Init == offered = 1 /\ got = 0

\* The BMS is done with a packet, or gives it up, and goes on to the next.
Offer == offered < NrMessages /\ offered' = offered + 1 /\ UNCHANGED got

Deliver == got' = offered /\ UNCHANGED offered

Next == Offer \/ Deliver

Spec == Init /\ [][Next]_<<offered, got>> /\ WF_<<offered, got>>(Deliver)
=============================================================================
