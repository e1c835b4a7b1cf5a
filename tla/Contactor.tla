----------------------------- MODULE Contactor -----------------------------
(***************************************************************************)
(* How a gun gets its voltage and is connected to the battery.             *)
(*                                                                         *)
(* The charge thread asks for the output of the gun whose job works        *)
(* (CMD_GUN_x_OUTPUT_ON) and says which gun is charging (F_GUNx_CHARGE).   *)
(* The handler of the charger (uart4_charger_config_evt_handle, or         *)
(* ANC01_convert_box_read_evt_handle) compares the voltage of that gun     *)
(* with its battery and sets F_VOLx_SET_OK when it has been raised. The    *)
(* handler of the measuring box (simple_box_write_evt_handle) closes the   *)
(* contactor when both flags are set. Each handler runs in the thread of   *)
(* its bus, none takes a lock, and a flag is changed by reading and        *)
(* writing the byte it is in.                                              *)
(*                                                                         *)
(* The station is that of module ChargeJob: one job at a time, on one of   *)
(* two guns.                                                               *)
(***************************************************************************)
EXTENDS Naturals, FiniteSets

CONSTANT MaxWrites  \* bound: writes of other threads to the byte of the commands

ASSUME ContactorAssumption == MaxWrites \in Nat

Gun == {1, 2}
None == 0
DC == 3       \* CMD_DC_OUTPUT_SWITCH_ON
MODULE_ON == 4
Command == Gun \cup {DC, MODULE_ON}

VARIABLES
  stage,    \* job_status; RESUMING is part of PAUSE, ABORTING and DONE are one
  gun,      \* job_gun_sn
  step,     \* where the charge thread is in its pass over the job
  allow,    \* F_SYSTEM_CHARGE_ALLOW, as the faults make it
  plugged,  \* __is_gun_phy_conn_ok
  cmd,      \* the byte of CMD_GUN_x_OUTPUT_ON, CMD_DC_OUTPUT_SWITCH_ON, CMD_MODULE_ON
  charge,   \* the guns with F_GUNx_CHARGE
  vol,      \* the guns with F_VOLx_SET_OK
  poll,     \* the charger's handler: where it is, and what it found
  box,      \* the box's handler: where it is, and the outputs it has put together
  closed,   \* the contactors that the box has closed
  old,      \* another thread that changes the byte of the commands: what it read
  writes

job == <<stage, gun, step>>
flags == <<cmd, charge, vol>>
env == <<allow, plugged>>
xvars == <<job, flags, env, poll, box, closed, old, writes>>

Nobody == [reading |-> FALSE, byte |-> {}]
Idle == [at |-> "idle", low |-> FALSE, mark |-> None]

XInit ==
  /\ stage = "NONE" /\ gun = 1 /\ step = "pass"
  /\ allow = TRUE /\ plugged = TRUE
  /\ cmd = {} /\ charge = {} /\ vol = {}
  /\ poll = Idle /\ box = [at |-> "idle", out |-> {}] /\ closed = {}
  /\ old = Nobody /\ writes = 0

---------------------------------------------------------------------------
(* The charge thread: what job_running does with the outputs.              *)

GunsOffFirst(c) == c \ {1}   \* mutant: the output of the second gun stays on
GunsOff(c) == c \ Gun
Off(c) == GunsOff(c) \ {DC}

AllOn(c, g) == c \cup Gun \cup {DC}   \* mutant: the other gun is not switched off
On(c, g) == GunsOff(c) \cup {g, DC}

Pass(s) == stage = s /\ step = "pass"
Rest == UNCHANGED <<env, poll, box, closed, old, writes>>

\* A job is selected; job_wait has the outputs switched off.
Select ==
  /\ Pass("NONE")
  /\ gun' \in Gun /\ stage' = "STANDBY" /\ cmd' = Off(cmd)
  /\ UNCHANGED <<step, charge, vol>> /\ Rest

StandBy ==
  /\ Pass("STANDBY")
  /\ cmd' = Off(cmd)
  /\ \/ UNCHANGED stage
     \/ plugged /\ stage' = IF allow THEN "WORKING" ELSE "PAUSE"
     \/ stage' = "DONE"   \* aborted
  /\ UNCHANGED <<gun, step, charge, vol>> /\ Rest

\* A fault switches all off; otherwise the gun is marked first.
Work ==
  /\ Pass("WORKING")
  /\ \/ ~allow /\ cmd' = Off(cmd) /\ stage' = "PAUSE" /\ UNCHANGED <<step, charge>>
     \/ allow /\ charge' = charge \cup {gun} /\ step' = "output" /\ UNCHANGED <<cmd, stage>>
  /\ UNCHANGED <<gun, vol>> /\ Rest

WorkOutput ==
  /\ stage = "WORKING" /\ step = "output"
  /\ step' = "pass"
  /\ \/ plugged /\ cmd' = On(cmd, gun) /\ stage' \in {"WORKING", "DONE"}
     \/ ~plugged /\ cmd' = (cmd \cup {DC}) \ {gun} /\ stage' = "PAUSE"
  /\ UNCHANGED <<gun, charge, vol>> /\ Rest

Pause ==
  /\ Pass("PAUSE")
  /\ cmd' = GunsOff(cmd)
  /\ \/ stage' \in {"PAUSE", "DONE"}
     \/ allow /\ plugged /\ stage' = "WORKING"
  /\ UNCHANGED <<gun, step, charge, vol>> /\ Rest

Done ==
  /\ Pass("DONE")
  /\ cmd' = GunsOff(cmd)
  /\ stage' \in {"DONE", "EXITTING"}
  /\ UNCHANGED <<gun, step, charge, vol>> /\ Rest

\* JOB_EXITTING: the outputs, then the mark of the gun, then that of its voltage.
Exit ==
  /\ Pass("EXITTING")
  /\ cmd' = GunsOff(cmd) /\ step' = "unmark"
  /\ UNCHANGED <<stage, gun, charge, vol>> /\ Rest

ExitUnmark ==
  /\ step = "unmark"
  /\ charge' = charge \ {gun} /\ step' = "voltage"
  /\ UNCHANGED <<stage, gun, cmd, vol>> /\ Rest

ExitVoltage ==
  /\ step = "voltage"
  /\ vol' = vol \ {gun} /\ step' = "pass" /\ stage' = "DETACHING"
  /\ UNCHANGED <<gun, cmd, charge>> /\ Rest

\* Nothing of the other threads takes as long as the 15 s of job_delay_exit.
Detach ==
  /\ Pass("DETACHING")
  /\ cmd' = Off(cmd)
  /\ \/ UNCHANGED stage
     \/ ~old.reading /\ poll.at = "idle" /\ box.at = "idle" /\ stage' = "NONE"
  /\ UNCHANGED <<gun, step, charge, vol>> /\ Rest

ChargeThread ==
  \/ StandBy \/ Work \/ WorkOutput \/ Pause \/ Done
  \/ Exit \/ ExitUnmark \/ ExitVoltage \/ Detach

---------------------------------------------------------------------------
(* The handler of the charger.                                             *)

Serial == UNCHANGED <<job, env, cmd, charge, old, writes>>

First(guns) == IF 1 \in guns THEN 1 ELSE IF 2 \in guns THEN 2 ELSE None

\* The voltage of the gun that charges is still below that of its battery or not;
\* without such a gun, that of the modules below 400 V or not.
Measure ==
  /\ poll.at = "idle"
  /\ poll' \in [at : {"judge"}, low : BOOLEAN, mark : {None}]
  /\ UNCHANGED <<vol, box, closed>> /\ Serial

\* Which gun charges is read once more.
Judge ==
  /\ poll.at = "judge"
  /\ \/ /\ poll.low /\ vol # Gun
        /\ vol' = {} /\ poll' = Idle
     \/ /\ ~(poll.low /\ vol # Gun)
        /\ poll' = [poll EXCEPT !.at = "mark", !.mark = First(charge)]
        /\ UNCHANGED vol
  /\ UNCHANGED <<box, closed>> /\ Serial

MarkedFirst(g) == vol \cup ({1} \ {None})   \* mutant: always the first gun
Marked(g) == vol \cup ({g} \ {None})

Mark ==
  /\ poll.at = "mark"
  /\ vol' = Marked(poll.mark) /\ poll' = Idle
  /\ UNCHANGED <<box, closed>> /\ Serial

---------------------------------------------------------------------------
(* The handler of the box puts the outputs together gun by gun.            *)

Asked(g) == IF g \in cmd /\ g \in vol THEN {g} ELSE {}

BoxFirst ==
  /\ box.at = "idle"
  /\ box' = [at |-> "second", out |-> Asked(1)]
  /\ UNCHANGED <<vol, poll, closed>> /\ Serial

BoxSecond ==
  /\ box.at = "second"
  /\ closed' = box.out \cup Asked(2)
  /\ box' = [at |-> "idle", out |-> {}]
  /\ UNCHANGED <<vol, poll>> /\ Serial

Buses == Measure \/ Judge \/ Mark \/ BoxFirst \/ BoxSecond

---------------------------------------------------------------------------
(* CMD_MODULE_ON is in the byte of the output commands: the web thread sets  *)
(* it, the thread of the converter's bus sets and clears it.                 *)

Load ==
  /\ ~old.reading /\ writes < MaxWrites
  /\ old' = [reading |-> TRUE, byte |-> cmd] /\ writes' = writes + 1
  /\ UNCHANGED <<job, flags, env, poll, box, closed>>

Store ==
  /\ old.reading
  /\ cmd' \in {old.byte \cup {MODULE_ON}, old.byte \ {MODULE_ON}}
  /\ old' = Nobody
  /\ UNCHANGED <<job, charge, vol, env, poll, box, closed, writes>>

\* Faults come and go, the plug is pulled and put in.
Environment ==
  /\ \/ allow' = ~allow /\ UNCHANGED plugged
     \/ plugged' = ~plugged /\ UNCHANGED allow
  /\ UNCHANGED <<job, flags, poll, box, closed, old, writes>>

XNext == Select \/ ChargeThread \/ Buses \/ Load \/ Store \/ Environment

\* The charge thread passes every 50 ms, the buses never stop (module Uart).
XSpec ==
  /\ XInit /\ [][XNext]_xvars
  /\ WF_xvars(ChargeThread) /\ WF_xvars(Store)
  /\ WF_xvars(Measure \/ Judge \/ Mark) /\ WF_xvars(BoxFirst \/ BoxSecond)

---------------------------------------------------------------------------
XTypeOK ==
  /\ stage \in {"NONE", "STANDBY", "WORKING", "PAUSE", "DONE", "EXITTING", "DETACHING"}
  /\ gun \in Gun /\ step \in {"pass", "output", "unmark", "voltage"}
  /\ allow \in BOOLEAN /\ plugged \in BOOLEAN
  /\ cmd \subseteq Command /\ old \in [reading : BOOLEAN, byte : SUBSET Command]
  /\ charge \subseteq Gun /\ vol \subseteq Gun /\ closed \subseteq Gun
  /\ poll \in [at : {"idle", "judge", "mark"}, low : BOOLEAN, mark : Gun \cup {None}]
  /\ box \in [at : {"idle", "second"}, out : SUBSET {1}]
  /\ writes \in 0..MaxWrites

\* Two guns, two batteries, are never connected to the same bus bar: not when a
\* write to a command is lost, nor when the box reads in the middle of a change,
\* nor when F_VOLx_SET_OK is left from an earlier job.
OneContactor == Cardinality(closed) <= 1

\* A job that does not work any more is cut off in the end, also when another
\* thread has brought its output command back.
StoppedIsOpened == <>[](stage # "WORKING") => <>[](closed = {})

\* A job that works and whose gun is measured to have its voltage is connected in
\* the end, whatever the flags were before.
WorkingIsConnected ==
  \A g \in Gun :
    <>[](stage = "WORKING" /\ gun = g /\ allow /\ plugged /\ ~poll.low) => <>[](closed = {g})
=============================================================================
