---------------------------- MODULE ChargeJob ----------------------------
(***************************************************************************)
(* One charge job, from the moment it is selected until it is freed:       *)
(* job_running and job_wait of ontom/charge.c.                             *)
(*                                                                         *)
(* The main loop calls job_running every 50 ms. A call first reads the     *)
(* faults and derives F_SYSTEM_CHARGE_ALLOW (Protect), then switches on    *)
(* the job status; the two halves are two steps, because the measuring     *)
(* thread, the BMS thread, the web server, the back end and the clock go   *)
(* on in between and the second half reads again what they write.          *)
(*                                                                         *)
(* A station with one charger group runs one job at a time, on one of two  *)
(* guns. The clock ticks every 5 s: all times of the code are multiples of *)
(* that. A unit of energy stands for what the meter resolves; a job with a *)
(* limit on energy, money or time counts the same way in each.             *)
(***************************************************************************)
EXTENDS Integers

CONSTANTS
    Gun,                \* the guns of the station
    SYSTEM,             \* a fault of the whole station
    Faults,             \* the faults that occur: SYSTEM, or a gun for one of its own
    Supplies,           \* auxiliary supplies that are wired: {12}, {24}, {12, 24}
    Levels,             \* choices of a supply: 0 (none made), 12, 24
    NeedBilling,        \* F_NEED_BILLING
    ManualNeedsAssist,  \* F_MANUL_CHARGE_NEED_ASSITER
    Plan,               \* billing modes: LIMIT (kWh, money or time) and AUTO
    Limit,              \* the limit of a job with one
    MaxGiven            \* bound: units of energy that flow into a job

ASSUME FaultsAssumption == SYSTEM \notin Gun /\ Faults \subseteq Gun \cup {SYSTEM}
ASSUME SuppliesAssumption == Supplies \in {{12}, {24}, {12, 24}} /\ Levels \subseteq {0} \cup Supplies
ASSUME FlagsAssumption == NeedBilling \in BOOLEAN /\ ManualNeedsAssist \in BOOLEAN
ASSUME LimitAssumption == Limit \in Nat /\ MaxGiven \in Nat
ASSUME PlanAssumption == Plan \subseteq {"LIMIT", "AUTO"}

VARIABLES
    job,        \* what job_fork has written: gun, mode, billing mode, supply
    stage,      \* job_status, NONE if there is no job
    single,     \* job->single: the flags of the job that are set
    timer,      \* ticks since the time stamp that the stage looks at
    bms,        \* the hand over of module BmsBinding: none, bound, free
    kwh,        \* the energy of the job
    allow,      \* F_SYSTEM_CHARGE_ALLOW
    dc,         \* CMD_DC_OUTPUT_SWITCH_ON
    out,        \* the guns with CMD_GUN_x_OUTPUT_ON
    lock,       \* the guns with CMD_GUN_x_LOCK_ON
    assist,     \* the guns with CMD_GUN_x_ASSIT_PWN_ON
    supply,     \* F_GUNx_ASSIT_12V, F_GUNx_ASSIT_24V: 12, 24 or 0 for each gun
    demand,     \* the current asked of the charger is not 0
    conn,       \* the guns with F_GUN_x_PHY_CONN_STATUS
    faults,     \* the faults the measuring thread reports
    asked,      \* unanswered billing requests: of this job, of an earlier one
    pc          \* which half of job_running comes next

switches == <<dc, out, lock, assist, supply, demand>>
env == <<conn, faults, asked>>
vars == <<job, stage, single, timer, bms, kwh, allow, switches, env, pc>>

Unset == -1             \* a time stamp that is 0
Stage == {"NONE", "WAITTING", "STANDBY", "WORKING", "ERR_PAUSE", "RESUMING",
          "ABORTING", "DONE", "EXITTING", "DETACHING"}
Flag == {"CMD_ABORT", "BMS_BRM_OK", "BMS_TRM_CHARGE", "CHG_TRM_CHARGE",
         "BILLING_TX", "BILLING_DONE", "BILLING_TIMEOUT"}
Hopeless == 6           \* 25 s after the first try both supplies are off for good
Patience == 3           \* 15 s: billing in JOB_DONE, the delayed exit

Jobs == [gun : Gun, auto : BOOLEAN, plan : {"LIMIT", "AUTO"}, level : {0} \cup Supplies]

\* run: on the meter since charge_begin_kwh_data; section_kwh; charged_kwh;
\* given: what really flowed into the job.
Energy == [run : Nat, section : Nat, charged : Nat, given : Nat]
NoEnergy == [run |-> 0, section |-> 0, charged |-> 0, given |-> 0]

CTypeOK ==
    /\ job \in Jobs
    /\ stage \in Stage
    /\ single \subseteq Flag
    /\ timer \in Unset .. Hopeless
    /\ bms \in {"none", "bound", "free"}
    /\ kwh \in Energy
    /\ allow \in BOOLEAN /\ dc \in BOOLEAN /\ demand \in BOOLEAN
    /\ out \subseteq Gun /\ lock \subseteq Gun /\ assist \subseteq Gun
    /\ supply \in [Gun -> {0} \cup Supplies]
    /\ conn \subseteq Gun
    /\ faults \subseteq Faults
    /\ asked \subseteq {"own", "old"}
    /\ pc \in {"protect", "switch"}

CInit ==
    /\ job \in [gun : Gun, auto : {FALSE}, plan : {"AUTO"}, level : {0}]
    /\ stage = "NONE" /\ single = {} /\ timer = Unset /\ bms = "none"
    /\ kwh = NoEnergy
    /\ allow = TRUE /\ dc = FALSE /\ demand = FALSE
    /\ out = {} /\ lock = {} /\ assist = {}
    /\ supply = [g \in Gun |-> 0]
    /\ conn \in SUBSET Gun
    /\ faults = {} /\ asked = {}
    /\ pc = "protect"

\* Mutant: the memory of the job is not zeroed.
SelectUnzeroed ==
    /\ stage = "NONE"
    /\ job' \in [gun : Gun, auto : BOOLEAN, plan : Plan, level : Levels]
    /\ stage' = "WAITTING"
    /\ single' \in {{}, {"CMD_ABORT"}}
    /\ timer' = Unset /\ bms' = "none"
    /\ UNCHANGED <<kwh, allow, switches, env, pc>>

\* A waiting job is selected. job_fork zeroed what it did not set; an abort may
\* have come while the job waited.
Select ==
    /\ stage = "NONE"
    /\ job' \in [gun : Gun, auto : BOOLEAN, plan : Plan, level : Levels]
    /\ stage' = "WAITTING"
    /\ single' \in {{}, {"CMD_ABORT"}}
    /\ timer' = Unset /\ bms' = "none" /\ kwh' = NoEnergy
    /\ UNCHANGED <<allow, switches, env, pc>>

-----------------------------------------------------------------------------
(* The first half of job_running.                                          *)

\* A gun that comes off while the job charges or pauses is a fault of its own.
Dropped == job.gun \notin conn /\ stage \in {"WORKING", "ERR_PAUSE"}

\* A fault of the station or of the gun of the job; the other gun does not count.
Fault == SYSTEM \in faults \/ job.gun \in faults \/ Dropped

Protect ==
    /\ pc = "protect" /\ stage # "NONE"
    /\ allow' = ~Fault
    /\ pc' = "switch"
    /\ UNCHANGED <<job, stage, single, timer, bms, kwh, switches, env>>

-----------------------------------------------------------------------------
(* The second half: one action, or a few, for each JOB_x.                  *)

At(status) ==
    /\ pc = "switch" /\ stage = status
    /\ pc' = "protect"
    /\ UNCHANGED <<job, allow, conn, faults>>

Connected == job.gun \in conn
Set(flag) == flag \in single
Clear(flag) == single' = single \ {flag}

\* job_wait; the bus bars may still carry a voltage.
Wait ==
    /\ At("WAITTING")
    /\ dc' = FALSE /\ out' = {}
    /\ \/ Set("CMD_ABORT") /\ Clear("CMD_ABORT") /\ stage' = "ABORTING" /\ UNCHANGED bms
       \/ ~Set("CMD_ABORT") /\ UNCHANGED <<single, stage, bms>>
       \/ /\ ~Set("CMD_ABORT")
          /\ stage' = "STANDBY"
          /\ bms' = IF job.auto THEN "bound" ELSE "none"
          /\ UNCHANGED single
    /\ UNCHANGED <<timer, kwh, lock, assist, supply, demand, asked>>

StandbyOff ==
    /\ At("STANDBY")
    /\ dc' = FALSE /\ out' = {}
    /\ UNCHANGED <<bms, kwh, demand, asked>>

StandbyEnd ==
    /\ StandbyOff
    /\ Set("CMD_ABORT") \/ Set("BMS_TRM_CHARGE")
    /\ Clear("CMD_ABORT") /\ stage' = "ABORTING" /\ timer' = Unset
    /\ UNCHANGED <<lock, assist, supply>>

StandbyUnplugged ==
    /\ StandbyOff
    /\ ~Set("CMD_ABORT") /\ ~Set("BMS_TRM_CHARGE") /\ ~Connected
    /\ UNCHANGED <<single, stage, timer, lock, assist, supply>>

\* Mutant: every call sets the time stamp anew.
AteRestarted == 0

\* Ticks since the time stamp, which the first call sets.
Ate == IF timer = Unset THEN 0 ELSE timer

NeedsAssist == job.auto \/ ManualNeedsAssist

\* Both supplies wired and none chosen: 12 V up to 10 s after the job was first
\* tried with the gun connected, nothing up to 15 s, 24 V up to 25 s, then nothing.
Chosen ==
    IF Supplies # {12, 24} THEN CHOOSE v \in Supplies : TRUE
    ELSE IF job.level # 0 THEN job.level
    ELSE IF Ate <= 2 THEN 12
    ELSE IF Ate \in 4..5 THEN 24
    ELSE 0

\* The gun is locked and the auxiliary supply put on. An automatic job waits for
\* the BMS to answer, a manual one for the voltage of the battery.
StandbyPlugged ==
    /\ StandbyOff
    /\ ~Set("CMD_ABORT") /\ ~Set("BMS_TRM_CHARGE") /\ Connected
    /\ lock' = lock \cup {job.gun}
    /\ IF NeedsAssist
       THEN /\ assist' = assist \cup {job.gun}
            /\ supply' = [supply EXCEPT ![job.gun] = Chosen]
       ELSE UNCHANGED <<assist, supply>>
    /\ \/ /\ NeedsAssist /\ (job.auto => ~Set("BMS_BRM_OK"))
          /\ timer' = Ate /\ UNCHANGED stage
       \/ /\ NeedsAssist => (job.auto => Set("BMS_BRM_OK"))
          /\ timer' = Unset
          /\ stage' = IF allow THEN "WORKING" ELSE "ERR_PAUSE"
    /\ UNCHANGED single

\* Mutant: the outputs are left to the next call.
WorkingFaultLate ==
    /\ At("WORKING") /\ ~allow
    /\ demand' = TRUE /\ UNCHANGED <<dc, out>>
    /\ stage' = "ERR_PAUSE"
    /\ UNCHANGED <<single, timer, bms, kwh, lock, assist, supply, asked>>

WorkingFault ==
    /\ At("WORKING") /\ ~allow
    /\ demand' = TRUE /\ dc' = FALSE /\ out' = {}
    /\ stage' = "ERR_PAUSE"
    /\ UNCHANGED <<single, timer, bms, kwh, lock, assist, supply, asked>>

\* The gun came off after the first half of the call had looked at it.
WorkingDropped ==
    /\ At("WORKING") /\ allow /\ ~Connected
    /\ demand' = TRUE /\ dc' = TRUE /\ out' = out \ {job.gun}
    /\ stage' = "ERR_PAUSE"
    /\ UNCHANGED <<single, timer, bms, kwh, lock, assist, supply, asked>>

\* Mutant: only the charger itself can terminate the charge.
TerminatedByCharger == Set("CHG_TRM_CHARGE")

Terminated == Set("BMS_TRM_CHARGE") \/ Set("CHG_TRM_CHARGE")

\* A section begins whenever the output is closed.
Section == IF job.gun \in out THEN kwh.run ELSE 0

LimitReached == job.plan = "LIMIT" /\ (kwh.charged + Section >= Limit \/ Terminated)

Stopped ==
    \/ Set("CMD_ABORT") \/ Set("BILLING_DONE")
    \/ job.plan = "AUTO" /\ Terminated

\* Mutant: the section that is added to charged_kwh is not reset.
MeteredTwice(ends) ==
    [run |-> Section, section |-> Section,
     charged |-> IF ends THEN kwh.charged + Section ELSE kwh.charged,
     given |-> kwh.given]

\* The section so far; when the charge ends it is added to the total.
Metered(ends) ==
    [run |-> Section,
     section |-> IF ends THEN 0 ELSE Section,
     charged |-> IF ends THEN kwh.charged + Section ELSE kwh.charged,
     given |-> kwh.given]

\* The charge ends when the limit is reached, when the BMS or the charger has
\* terminated it, when it is aborted, or when it has been billed.
Working ==
    /\ At("WORKING") /\ allow /\ Connected
    /\ demand' = TRUE /\ dc' = TRUE /\ out' = {job.gun}
    /\ assist' = IF job.auto THEN assist \cup {job.gun} ELSE assist
    /\ kwh' = Metered(LimitReached \/ Stopped)
    /\ stage' = IF LimitReached \/ Stopped THEN "ABORTING" ELSE "WORKING"
    /\ single' = (single \ {"CMD_ABORT"}) \cup (IF Stopped THEN {"CHG_TRM_CHARGE"} ELSE {})
    /\ UNCHANGED <<timer, bms, lock, supply, asked>>

\* The end of the fault is looked at last, and wins over an abort.
ErrPause ==
    /\ At("ERR_PAUSE")
    /\ demand' = FALSE /\ out' = {}
    /\ Clear("CMD_ABORT")
    /\ stage' = IF allow /\ Connected THEN "RESUMING"
                ELSE IF Set("CMD_ABORT") THEN "ABORTING"
                ELSE "ERR_PAUSE"
    /\ UNCHANGED <<timer, bms, kwh, dc, lock, assist, supply, asked>>

Resuming ==
    /\ At("RESUMING")
    /\ stage' = "WORKING"
    /\ UNCHANGED <<single, timer, bms, kwh, switches, asked>>

\* Mutant: the outputs are left to JOB_DONE.
AbortingClosed ==
    /\ At("ABORTING")
    /\ single' = single \cup {"CHG_TRM_CHARGE"}
    /\ stage' = "DONE" /\ timer' = Unset
    /\ UNCHANGED <<bms, kwh, switches, asked>>

Aborting ==
    /\ At("ABORTING")
    /\ demand' = FALSE /\ out' = {}
    /\ single' = single \cup {"CHG_TRM_CHARGE"}
    /\ stage' = "DONE" /\ timer' = Unset
    /\ UNCHANGED <<bms, kwh, dc, lock, assist, supply, asked>>

\* Mutant: the job does not wait for the bill.
BilledHasty == TRUE

\* The bill is settled, or 15 s have been spent on it, or nobody asks for one.
Billed == NeedBilling => Set("BILLING_DONE") \/ Set("BILLING_TIMEOUT")

Done ==
    /\ At("DONE")
    /\ demand' = FALSE /\ out' = {}
    /\ IF Billed
       THEN stage' = "EXITTING" /\ timer' = Unset /\ UNCHANGED single
       ELSE /\ timer' = Ate /\ UNCHANGED stage
            /\ single' = single \cup (IF timer >= Patience THEN {"BILLING_TIMEOUT"} ELSE {})
    /\ UNCHANGED <<bms, kwh, dc, lock, assist, supply, asked>>

\* Mutant: the auxiliary supply is left on.
ExittingPowered ==
    /\ At("EXITTING")
    /\ demand' = FALSE /\ out' = {} /\ assist' = {}
    /\ stage' = "DETACHING"
    /\ UNCHANGED <<single, timer, bms, kwh, dc, lock, supply, asked>>

Exitting ==
    /\ At("EXITTING")
    /\ demand' = FALSE /\ out' = {} /\ assist' = {}
    /\ supply' = [g \in Gun |-> 0]
    /\ stage' = "DETACHING"
    /\ UNCHANGED <<single, timer, bms, kwh, dc, lock, asked>>

DetachingOff ==
    /\ At("DETACHING")
    /\ demand' = FALSE /\ dc' = FALSE /\ out' = {} /\ lock' = lock \ {job.gun}
    /\ UNCHANGED <<single, bms, kwh, assist, supply>>

\* Until the BMS thread lets go of an automatic job it stays.
Detaching ==
    /\ DetachingOff
    /\ IF job.auto /\ bms # "free" THEN UNCHANGED timer
       ELSE timer < Patience /\ timer' = Ate
    /\ UNCHANGED <<stage, asked>>

\* 15 s later it is freed by the main loop. What was asked in its name stays asked.
Freed ==
    /\ DetachingOff
    /\ job.auto => bms = "free"
    /\ timer >= Patience /\ UNCHANGED timer
    /\ stage' = "NONE"
    /\ asked' = IF asked = {} THEN {} ELSE {"old"}

Switch ==
    \/ Wait \/ StandbyEnd \/ StandbyUnplugged \/ StandbyPlugged
    \/ WorkingFault \/ WorkingDropped \/ Working
    \/ ErrPause \/ Resuming \/ Aborting \/ Done \/ Exitting \/ Detaching \/ Freed

-----------------------------------------------------------------------------
(* What goes on around the job.                                            *)

Alive == stage # "NONE"

\* The measuring box reports guns and faults.
Measure ==
    /\ \/ \E g \in Gun : conn' \in {conn \cup {g}, conn \ {g}} /\ UNCHANGED faults
       \/ \E f \in Faults : faults' \in {faults \cup {f}, faults \ {f}} /\ UNCHANGED conn
    /\ UNCHANGED <<job, stage, single, timer, bms, kwh, allow, switches, asked, pc>>

Flow ==
    /\ Alive /\ dc /\ job.gun \in out
    /\ kwh.given < MaxGiven
    /\ kwh' = [run |-> kwh.run + 1, section |-> kwh.section,
               charged |-> kwh.charged, given |-> kwh.given + 1]
    /\ UNCHANGED <<job, stage, single, timer, bms, allow, switches, env, pc>>

\* The clock, as long as the stage looks at it.
Tick ==
    /\ stage \in {"STANDBY", "DONE", "DETACHING"}
    /\ timer # Unset
    /\ timer < (IF stage = "STANDBY" THEN Hopeless ELSE Patience)
    /\ timer' = timer + 1
    /\ UNCHANGED <<job, stage, single, bms, kwh, allow, switches, env, pc>>

\* The BMS driver: BRM makes JF_BMS_BRM_OK (its timeout clears it), BST makes
\* JF_BMS_TRM_CHARGE.
BmsPacket ==
    /\ bms = "bound" /\ stage \notin {"NONE", "DETACHING"}
    /\ single' \in {single \cup {"BMS_BRM_OK"}, single \ {"BMS_BRM_OK"},
                    single \cup {"BMS_TRM_CHARGE"}}
    /\ UNCHANGED <<job, stage, timer, bms, kwh, allow, switches, env, pc>>

BmsRelease ==
    /\ bms = "bound" /\ stage = "DETACHING"
    /\ bms' = "free"
    /\ UNCHANGED <<job, stage, single, timer, kwh, allow, switches, env, pc>>

\* The web server: /job/abort.json.
WebAbort ==
    /\ Alive
    /\ single' = single \cup {"CMD_ABORT"}
    /\ UNCHANGED <<job, stage, timer, bms, kwh, allow, switches, env, pc>>

\* The back end thread asks for the bill of a job in JOB_DONE once.
AskBill ==
    /\ stage = "DONE"
    /\ ~Set("BILLING_DONE") /\ ~Set("BILLING_TX") /\ Set("BILLING_TIMEOUT")
    /\ single' = single \cup {"BILLING_TX"}
    /\ asked' = asked \cup {"own"}
    /\ UNCHANGED <<job, stage, timer, bms, kwh, allow, switches, conn, faults, pc>>

\* An answer is taken for the job that runs, whichever job it is for.
AnswerBill ==
    /\ Alive
    /\ \E who \in asked : asked' = asked \ {who}
    /\ single' = single \cup {"BILLING_DONE"}
    /\ UNCHANGED <<job, stage, timer, bms, kwh, allow, switches, conn, faults, pc>>

Around ==
    \/ Measure \/ Flow \/ Tick \/ BmsPacket \/ BmsRelease
    \/ WebAbort \/ AskBill \/ AnswerBill

CNext == Select \/ Protect \/ Switch \/ Around

CSpec == CInit /\ [][CNext]_vars

\* The main loop goes on, so does the clock, and the BMS thread lets go of a job
\* (BoundJobLeaves of module BmsBinding).
CFairSpec ==
    /\ CSpec
    /\ WF_vars(Protect) /\ WF_vars(Switch)
    /\ WF_vars(Tick) /\ WF_vars(BmsRelease)

-----------------------------------------------------------------------------
(* Properties.                                                             *)

\* A gun is energised only while its own job charges (or has just stopped), with
\* the gun locked and the main switch closed; the other gun never is.
EnergisedSafely ==
    out # {} => /\ out = {job.gun} /\ job.gun \in lock /\ dc
                /\ stage \in {"WORKING", "ABORTING"}

\* Whatever the job was doing, the call that finds a fault leaves no gun energised.
FaultOpensOutputs == pc = "protect" /\ ~allow => out = {}

\* When the job is gone nothing of it is left on: no output, no lock, no auxiliary
\* supply, no demand, through whichever path it left.
NothingLeftOn ==
    stage = "NONE" =>
        /\ ~dc /\ ~demand
        /\ out = {} /\ lock = {} /\ assist = {}
        /\ \A g \in Gun : supply[g] = 0

\* The customer is never charged for energy that did not flow, however often the
\* charge was interrupted.
NeverOverbilled == kwh.charged + kwh.section <= kwh.given

\* A job does not leave JOB_DONE before its bill is settled or 15 s have passed.
BillingGetsItsTime ==
    [][NeedBilling /\ stage = "DONE" /\ stage' = "EXITTING"
        => Set("BILLING_DONE") \/ timer >= Patience]_vars

\* A job that is aborting ends: unlocked, its supplies off, and freed. (A job that
\* was aborted before it was bound never is; see DetachingJobLeaves.)
AbortingJobLeaves ==
    (stage = "ABORTING" /\ (job.auto => bms = "bound")) ~> stage = "NONE"

\* A BMS that terminates the charge is obeyed: the job does not go on working.
TerminationHonoured == (stage = "WORKING" /\ Set("BMS_TRM_CHARGE")) ~> stage # "WORKING"

\* Whatever comes between and within the calls of job_running, a job is a charge of
\* module Session: it ends once, gives energy to its own gun, not in a pause and not
\* after its end, and its bill is neither above that nor carried from job to job.
Phase ==
    CASE stage = "NONE" -> "none"
      [] stage \in {"WAITTING", "STANDBY"} -> "ready"
      [] stage = "WORKING" -> "charging"
      [] stage \in {"ERR_PAUSE", "RESUMING"} -> "paused"
      [] OTHER -> "ended"

Charge == INSTANCE Session WITH
    phase <- Phase, gun <- job.gun, live <- out,
    recorded <- kwh.charged + kwh.section, drawn <- kwh.given
ImplementsSession == Charge!Spec

-----------------------------------------------------------------------------
(* Properties that the code does not have.                                 *)

\* charge.h:668: JF_CMD_ABORT set means that the job is aborted. So a call that
\* consumes the command aborts the job.
AbortIsObeyed == [][Switch /\ Set("CMD_ABORT") /\ "CMD_ABORT" \notin single' => stage' = "ABORTING"]_vars

\* charge.h:1722: charged_kwh is the energy already consumed. So energy that has
\* been read off the meter once stays in the sum, over a pause as well.
BillNeverShrinks ==
    [][Alive /\ stage' # "NONE"
        => kwh'.charged + kwh'.section >= kwh.charged + kwh.section]_vars

\* charge.h:662-666: a job is asked for its bill, then it is billed or the time for
\* the answer is over. So a job that needs a bill does not leave JOB_DONE before its
\* bill was asked for.
NobodyLeavesUnbilled ==
    [][NeedBilling /\ stage = "DONE" /\ stage' = "EXITTING" => Set("BILLING_TX")]_vars

=============================================================================
