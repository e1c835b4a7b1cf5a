------------------------------ MODULE Session ------------------------------
(***************************************************************************)
(* What a charge promises to the one who asked for it. Energy goes to his  *)
(* gun only, and only from the beginning of the charge until its end, not  *)
(* during a pause. The charge ends once: no output is closed after that,   *)
(* and what is recorded for the bill stays. It is never more than what he  *)
(* was given, and each charge is counted from nothing.                     *)
(* ChargeJob implements this.                                              *)
(***************************************************************************)
EXTENDS Integers

CONSTANT Gun

VARIABLES
    phase,     \* none, ready, charging, paused, ended
    gun,       \* the gun that was asked for
    live,      \* the guns whose output is closed
    recorded,  \* the energy that would be billed now
    drawn      \* the energy that was given

svars == <<phase, gun, live, recorded, drawn>>

Init == phase = "none" /\ gun \in Gun /\ live = {} /\ recorded = 0 /\ drawn = 0

Ask ==
    /\ phase = "none" /\ phase' = "ready"
    /\ gun' \in Gun /\ recorded' = 0 /\ drawn' = 0
    /\ UNCHANGED live

\* The charge begins, perhaps with a pause.
Begin ==
    /\ phase = "ready" /\ phase' \in {"charging", "paused"}
    /\ UNCHANGED <<gun, live, recorded, drawn>>

\* The output is closed and the meter read; the charge may end with that.
Meter ==
    /\ phase = "charging" /\ phase' \in {"charging", "ended"}
    /\ live' = {gun} /\ recorded' <= drawn
    /\ UNCHANGED <<gun, drawn>>

Draw ==
    /\ live # {} /\ drawn' = drawn + 1
    /\ UNCHANGED <<phase, gun, live, recorded>>

Pause ==
    /\ phase = "charging" /\ phase' = "paused" /\ live' = {}
    /\ UNCHANGED <<gun, recorded, drawn>>

Continue ==
    /\ phase = "paused" /\ phase' = "charging"
    /\ UNCHANGED <<gun, live, recorded, drawn>>

End ==
    /\ phase \in {"ready", "paused"} /\ phase' = "ended"
    /\ UNCHANGED <<gun, live, recorded, drawn>>

Open ==
    /\ phase = "ended" /\ live' = {}
    /\ UNCHANGED <<phase, gun, recorded, drawn>>

Leave ==
    /\ phase = "ended" /\ live = {} /\ phase' = "none"
    /\ UNCHANGED <<gun, live, recorded, drawn>>

Next == Ask \/ Begin \/ Meter \/ Draw \/ Pause \/ Continue \/ End \/ Open \/ Leave

Spec == Init /\ [][Next]_svars
-----------------------------------------------------------------------------
\* What is recorded at the end of the charge is what will be billed.
BillIsFinal == [][phase = "ended" => recorded' = recorded]_svars
=============================================================================
