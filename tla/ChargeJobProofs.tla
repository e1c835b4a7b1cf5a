------------------------- MODULE ChargeJobProofs -------------------------
(***************************************************************************)
(* Proofs about module ChargeJob, for every station and every limit.       *)
(*                                                                         *)
(* The safety invariants are not inductive: that nothing is left on when   *)
(* a job is gone depends on what each of the stages before has switched    *)
(* off and on which gun can be locked at all, and that the bill is right   *)
(* depends on what the meter has counted since the output was closed.      *)
(***************************************************************************)
EXTENDS ChargeJob, TLAPS

\* Only the gun of the job is ever locked, and it is before the job works.
LockInv ==
    /\ lock \subseteq {job.gun}
    /\ stage = "WAITTING" => lock = {}
    /\ stage \in {"WORKING", "ERR_PAUSE", "RESUMING"} => job.gun \in lock

\* The auxiliary supply is on from standby until the job exits.
SupplyInv ==
    stage \in {"WAITTING", "DETACHING"} => assist = {} /\ \A g \in Gun : supply[g] = 0

\* While the output is closed the meter counts what flows.
MeterInv ==
    stage = "WORKING" /\ job.gun \in out => kwh.charged + kwh.run <= kwh.given

\* The time out of the bill is only set after 15 s in JOB_DONE.
BillInv ==
    /\ Set("BILLING_TIMEOUT") => stage \in {"DONE", "EXITTING", "DETACHING", "NONE"}
    /\ Set("BILLING_TIMEOUT") /\ stage = "DONE" => timer >= Patience

Electric == EnergisedSafely /\ FaultOpensOutputs /\ NothingLeftOn /\ LockInv /\ SupplyInv

Metering == NeverOverbilled /\ MeterInv

USE DEF Unset, Hopeless, Patience

-----------------------------------------------------------------------------
(* The type invariant.                                                     *)

\* The supply that is put on is one that is wired, or none.
LEMMA ChosenIsWired == job \in Jobs => Chosen \in {0} \cup Supplies
<1>1. (CHOOSE v \in Supplies : TRUE) \in Supplies
  BY SuppliesAssumption
<1>2. job \in Jobs => job.level \in {0} \cup Supplies
  BY DEF Jobs
<1> QED
  BY <1>1, <1>2, SuppliesAssumption, SMT DEF Chosen

\* What the meter says of a job that charges is a record of energies.
LEMMA MeteredType == kwh \in Energy => Metered(LimitReached \/ Stopped) \in Energy
<1> SUFFICES ASSUME kwh \in Energy PROVE \A ends \in BOOLEAN : Metered(ends) \in Energy
  BY DEF LimitReached, Stopped
<1> QED
  BY SMT DEF Energy, Metered, Section

\* The three switches that are BOOLEAN.
Booleans == allow \in BOOLEAN /\ dc \in BOOLEAN /\ demand \in BOOLEAN

LEMMA BooleanStep == Booleans /\ [CNext]_vars => Booleans'
<1> SUFFICES ASSUME Booleans, [CNext]_vars PROVE Booleans'
  OBVIOUS
<1> USE DEF Booleans
<1>1. CASE Select \/ Around \/ UNCHANGED vars
  BY <1>1 DEF Select, Around, Measure, Flow, Tick, BmsPacket, BmsRelease, WebAbort, AskBill,
              AnswerBill, switches, vars
<1>2. CASE Protect
  BY <1>2 DEF Protect, switches
<1>3. CASE Switch
  <2>1. CASE Wait \/ StandbyEnd \/ StandbyUnplugged \/ StandbyPlugged
    BY <2>1 DEF Wait, StandbyEnd, StandbyUnplugged, StandbyPlugged, StandbyOff, At
  <2>2. CASE WorkingFault \/ WorkingDropped \/ Working
    BY <2>2 DEF WorkingFault, WorkingDropped, Working, At
  <2>3. CASE ErrPause \/ Resuming \/ Aborting \/ Done \/ Exitting
    BY <2>3 DEF ErrPause, Resuming, Aborting, Done, Exitting, At, switches
  <2>4. CASE Detaching \/ Freed
    BY <2>4 DEF Detaching, Freed, DetachingOff, At
  <2> QED
    BY <1>3, <2>1, <2>2, <2>3, <2>4 DEF Switch
<1> QED
  BY <1>1, <1>2, <1>3 DEF CNext

\* The variables that are not.
Others ==
    /\ job \in Jobs
    /\ stage \in Stage
    /\ single \subseteq Flag
    /\ timer \in Unset .. Hopeless
    /\ bms \in {"none", "bound", "free"}
    /\ kwh \in Energy
    /\ out \subseteq Gun /\ lock \subseteq Gun /\ assist \subseteq Gun
    /\ supply \in [Gun -> {0} \cup Supplies]
    /\ conn \subseteq Gun
    /\ faults \subseteq Faults
    /\ asked \subseteq {"own", "old"}
    /\ pc \in {"protect", "switch"}

LEMMA OthersStep == Others /\ [CNext]_vars => Others'
<1> SUFFICES ASSUME Others, [CNext]_vars PROVE Others'
  OBVIOUS
<1> USE DEF Others, Stage
<1>0. /\ "CMD_ABORT" \in Flag /\ "BMS_BRM_OK" \in Flag /\ "BMS_TRM_CHARGE" \in Flag
      /\ "CHG_TRM_CHARGE" \in Flag /\ "BILLING_TX" \in Flag /\ "BILLING_DONE" \in Flag
      /\ "BILLING_TIMEOUT" \in Flag
  BY DEF Flag
<1>1. CASE Select
  <2>1. job' \in Jobs
    <3>1. \A j \in [gun : Gun, auto : BOOLEAN, plan : Plan, level : Levels] : j \in Jobs
      <4>1. Plan \subseteq {"LIMIT", "AUTO"} /\ Levels \subseteq {0} \cup Supplies
        BY SuppliesAssumption, PlanAssumption
      <4> QED
        BY <4>1 DEF Jobs
    <3> QED
      BY <1>1, <3>1 DEF Select
  <2>2. kwh' \in Energy
    BY <1>1, SMT DEF Select, Energy, NoEnergy
  <2>3. single' \subseteq Flag
    BY <1>0, <1>1, SMT DEF Select
  <2> QED
    BY <1>1, <2>1, <2>2, <2>3, SMT DEF Select, switches, env
<1>2. CASE Protect
  BY <1>2, SMT DEF Protect, switches, env
<1>3. CASE Switch
  <2> USE DEF At, Clear
  <2>1. CASE Wait
    BY <2>1, SMT DEF Wait
  <2>2. CASE StandbyEnd
    BY <2>2, SMT DEF StandbyEnd, StandbyOff
  <2>12. CASE StandbyUnplugged
    BY <2>12, SMT DEF StandbyUnplugged, StandbyOff
  <2>3. CASE StandbyPlugged
    <3>1. supply' \in [Gun -> {0} \cup Supplies]
      BY <2>3, ChosenIsWired, SMT DEF StandbyPlugged
    <3>2. lock' \subseteq Gun /\ assist' \subseteq Gun
      BY <2>3, SMT DEF StandbyPlugged, Jobs
    <3> QED
      BY <2>3, <3>1, <3>2, SMT DEF StandbyPlugged, StandbyOff, Ate
  <2>4. CASE WorkingFault
    BY <2>4, SMT DEF WorkingFault
  <2>13. CASE WorkingDropped
    BY <2>13, SMT DEF WorkingDropped
  <2>5. CASE Working
    <3>1. kwh' \in Energy
      BY <2>5, MeteredType DEF Working
    <3>2. out' \subseteq Gun /\ assist' \subseteq Gun
      BY <2>5, SMT DEF Working, Jobs
    <3>3. single' \subseteq Flag
      BY <1>0, <2>5, SMT DEF Working
    <3> QED
      BY <2>5, <3>1, <3>2, <3>3, SMT DEF Working
  <2>6. CASE ErrPause
    BY <2>6, SMT DEF ErrPause
  <2>7. CASE Resuming
    BY <2>7, SMT DEF Resuming, switches
  <2>8. CASE Aborting
    BY <1>0, <2>8, SMT DEF Aborting
  <2>9. CASE Done
    BY <1>0, <2>9, SMT DEF Done, Ate
  <2>10. CASE Exitting
    BY <2>10, SMT DEF Exitting
  <2>11. CASE Detaching
    <3>1. timer' \in Unset .. Hopeless
      BY <2>11, SMT DEF Detaching, Ate
    <3> QED
      BY <2>11, <3>1, SMT DEF Detaching, DetachingOff
  <2>14. CASE Freed
    BY <2>14, SMT DEF Freed, DetachingOff
  <2> QED
    BY <1>3, <2>1, <2>2, <2>3, <2>4, <2>5, <2>6, <2>7, <2>8, <2>9, <2>10, <2>11,
       <2>12, <2>13, <2>14 DEF Switch
<1>4. CASE Measure
  BY <1>4, SMT DEF Measure, switches
<1>5. CASE Flow
  BY <1>5, SMT DEF Flow, Energy, switches, env
<1>6. CASE Tick
  BY <1>6, SMT DEF Tick, switches, env
<1>7. CASE BmsPacket
  BY <1>0, <1>7, SMT DEF BmsPacket, switches, env
<1>8. CASE BmsRelease
  BY <1>8, SMT DEF BmsRelease, switches, env
<1>9. CASE WebAbort
  BY <1>0, <1>9, SMT DEF WebAbort, switches, env
<1>10. CASE AskBill
  BY <1>0, <1>10, SMT DEF AskBill, switches
<1>11. CASE AnswerBill
  BY <1>0, <1>11, SMT DEF AnswerBill, switches
<1>12. CASE UNCHANGED vars
  BY <1>12 DEF vars, switches, env
<1> QED
  BY <1>1, <1>2, <1>3, <1>4, <1>5, <1>6, <1>7, <1>8, <1>9, <1>10, <1>11, <1>12
     DEF CNext, Around

\* No step takes a variable out of its type.
LEMMA TypeStep == CTypeOK /\ [CNext]_vars => CTypeOK'
<1>1. CTypeOK <=> Booleans /\ Others
  BY DEF CTypeOK, Booleans, Others
<1>2. CTypeOK' <=> Booleans' /\ Others'
  BY DEF CTypeOK, Booleans, Others
<1> QED
  BY <1>1, <1>2, BooleanStep, OthersStep

-----------------------------------------------------------------------------
(* What is switched on.                                                    *)

\* No step switches on what it should not, or leaves on what it should switch off.
LEMMA ElectricStep == CTypeOK /\ Electric /\ [CNext]_vars => Electric'
<1> SUFFICES ASSUME CTypeOK, Electric, [CNext]_vars PROVE Electric'
  OBVIOUS
<1> USE DEF Electric, EnergisedSafely, FaultOpensOutputs, NothingLeftOn, LockInv, SupplyInv
<1>0. job \in Jobs /\ stage \in Stage /\ out \subseteq Gun /\ supply \in [Gun -> {0} \cup Supplies]
  BY DEF CTypeOK
<1>1. CASE Select
  BY <1>1, SMT DEF Select, switches, env
<1>2. CASE Protect
  BY <1>2, SMT DEF Protect, switches, env
<1>3. CASE Switch
  <2> USE DEF At
  <2>1. CASE Wait
    BY <1>0, <2>1, SMT DEF Wait
  <2>2. CASE StandbyEnd
    BY <1>0, <2>2, SMT DEF StandbyEnd, StandbyOff
  <2>3. CASE StandbyUnplugged
    BY <1>0, <2>3, SMT DEF StandbyUnplugged, StandbyOff
  <2>4. CASE StandbyPlugged
    BY <1>0, <2>4, SMT DEF StandbyPlugged, StandbyOff
  <2>5. CASE WorkingFault
    BY <1>0, <2>5, SMT DEF WorkingFault
  <2>6. CASE WorkingDropped
    BY <1>0, <2>6, SMT DEF WorkingDropped
  <2>7. CASE Working
    BY <1>0, <2>7, SMT DEF Working
  <2>8. CASE ErrPause
    BY <1>0, <2>8, SMT DEF ErrPause
  <2>9. CASE Resuming
    BY <1>0, <2>9, SMT DEF Resuming, switches
  <2>10. CASE Aborting
    BY <1>0, <2>10, SMT DEF Aborting
  <2>11. CASE Done
    BY <1>0, <2>11, SMT DEF Done
  <2>12. CASE Exitting
    BY <1>0, <2>12, SMT DEF Exitting
  <2>13. CASE Detaching
    BY <1>0, <2>13, SMT DEF Detaching, DetachingOff
  <2>14. CASE Freed
    BY <1>0, <2>14, SMT DEF Freed, DetachingOff
  <2> QED
    BY <1>3, <2>1, <2>2, <2>3, <2>4, <2>5, <2>6, <2>7, <2>8, <2>9, <2>10, <2>11,
       <2>12, <2>13, <2>14 DEF Switch
<1>4. CASE Around
  <2>1. UNCHANGED <<job, stage, allow, switches, pc>>
    BY <1>4 DEF Around, Measure, Flow, Tick, BmsPacket, BmsRelease, WebAbort, AskBill, AnswerBill,
                env
  <2> QED
    BY <2>1, SMT DEF switches
<1>5. CASE UNCHANGED vars
  BY <1>5, SMT DEF vars, switches, env
<1> QED
  BY <1>1, <1>2, <1>3, <1>4, <1>5 DEF CNext

-----------------------------------------------------------------------------
(* What is counted.                                                        *)

\* No step counts energy that has not flowed. That a job goes to work with its
\* output open comes from Electric.
LEMMA MeteringStep == CTypeOK /\ Electric /\ Metering /\ [CNext]_vars => Metering'
<1> SUFFICES ASSUME CTypeOK, Electric, Metering, [CNext]_vars PROVE Metering'
  OBVIOUS
<1> USE DEF Metering, NeverOverbilled, MeterInv
<1>0. kwh \in Energy
  BY DEF CTypeOK
<1>1. CASE Select
  BY <1>1, SMT DEF Select, NoEnergy
<1>2. CASE Flow
  BY <1>0, <1>2, SMT DEF Flow, Energy, switches
<1>3. CASE Working
  BY <1>0, <1>3, SMT DEF Working, Metered, Section, Energy, At
<1>4. CASE StandbyPlugged \/ StandbyEnd \/ StandbyUnplugged \/ Wait
  <2>1. kwh' = kwh /\ out' = {}
    BY <1>4 DEF StandbyPlugged, StandbyEnd, StandbyUnplugged, StandbyOff, Wait
  <2> QED
    BY <2>1
<1>5. CASE Resuming
  <2>1. kwh' = kwh /\ out' = out /\ job' = job /\ out = {}
    BY <1>5, SMT DEF Resuming, At, switches, Electric, EnergisedSafely
  <2> QED
    BY <2>1
<1>6. CASE WorkingFault \/ WorkingDropped \/ ErrPause \/ Aborting \/ Done \/ Exitting
           \/ Detaching \/ Freed
  <2>1. kwh' = kwh /\ stage' # "WORKING"
    BY <1>6, SMT DEF WorkingFault, WorkingDropped, ErrPause, Aborting, Done, Exitting,
                     Detaching, Freed, DetachingOff, At
  <2> QED
    BY <2>1
<1>7. CASE Protect \/ Measure \/ Tick \/ BmsPacket \/ BmsRelease \/ WebAbort \/ AskBill
           \/ AnswerBill \/ UNCHANGED vars
  <2>1. UNCHANGED <<job, stage, kwh, out>>
    BY <1>7 DEF Protect, Measure, Tick, BmsPacket, BmsRelease, WebAbort, AskBill, AnswerBill,
                switches, vars
  <2> QED
    BY <2>1
<1> QED
  BY <1>1, <1>2, <1>3, <1>4, <1>5, <1>6, <1>7 DEF CNext, Switch, Around

\* No step sets the time out of the bill before its time.
LEMMA BillStep == CTypeOK /\ BillInv /\ [CNext]_vars => BillInv'
<1> SUFFICES ASSUME CTypeOK, BillInv, [CNext]_vars PROVE BillInv'
  OBVIOUS
<1> USE DEF BillInv, Set
<1>0. timer \in Unset .. Hopeless
  BY DEF CTypeOK
<1>1. CASE Select
  BY <1>1, SMT DEF Select
<1>2. CASE Done
  BY <1>0, <1>2, SMT DEF Done, Billed, Ate, At
<1>3. CASE Exitting \/ Detaching \/ Freed
  BY <1>3, SMT DEF Exitting, Detaching, Freed, DetachingOff, At
<1>4. CASE Aborting
  BY <1>4, SMT DEF Aborting, At
<1>5. CASE Wait \/ StandbyEnd \/ StandbyUnplugged \/ StandbyPlugged \/ WorkingFault
           \/ WorkingDropped \/ Working \/ ErrPause \/ Resuming
  <2>1. stage \notin {"DONE", "EXITTING", "DETACHING", "NONE"}
    BY <1>5, SMT DEF Wait, StandbyEnd, StandbyUnplugged, StandbyPlugged, StandbyOff, WorkingFault,
                     WorkingDropped, Working, ErrPause, Resuming, At
  <2>2. single' \subseteq single \cup {"CHG_TRM_CHARGE"}
    BY <1>5, SMT DEF Wait, StandbyEnd, StandbyUnplugged, StandbyPlugged, StandbyOff, WorkingFault,
                     WorkingDropped, Working, ErrPause, Resuming, Clear
  <2> QED
    BY <2>1, <2>2
<1>6. CASE Around
  <2>1. stage' = stage /\ timer' >= timer
    BY <1>0, <1>6, SMT DEF Around, Measure, Flow, Tick, BmsPacket, BmsRelease, WebAbort, AskBill,
                           AnswerBill
  <2>2. "BILLING_TIMEOUT" \in single' => "BILLING_TIMEOUT" \in single
    BY <1>6, SMT DEF Around, Measure, Flow, Tick, BmsPacket, BmsRelease, WebAbort, AskBill,
                     AnswerBill
  <2>3. timer' \in Int
    BY <1>0, <1>6, SMT DEF Around, Measure, Flow, Tick, BmsPacket, BmsRelease, WebAbort, AskBill,
                           AnswerBill
  <2> QED
    BY <1>0, <2>1, <2>2, <2>3, SMT
<1>7. CASE Protect \/ UNCHANGED vars
  BY <1>7 DEF Protect, vars
<1> QED
  BY <1>1, <1>2, <1>3, <1>4, <1>5, <1>6, <1>7 DEF CNext, Switch

-----------------------------------------------------------------------------
(* The theorems.                                                           *)

CInv == CTypeOK /\ Electric /\ Metering /\ BillInv

LEMMA CInitInv == CInit => CInv
<1> SUFFICES ASSUME CInit PROVE CInv
  OBVIOUS
<1>1. job \in Jobs
  BY DEF CInit, Jobs
<1>2. CTypeOK
  <2>1. Others
    BY <1>1, SMT DEF CInit, Others, Stage, Energy, NoEnergy
  <2> QED
    BY <2>1 DEF CInit, CTypeOK, Others
<1>3. Electric
  BY SMT DEF CInit, Electric, EnergisedSafely, FaultOpensOutputs, NothingLeftOn, LockInv, SupplyInv
<1>4. Metering /\ BillInv
  BY SMT DEF CInit, Metering, NeverOverbilled, MeterInv, NoEnergy, BillInv, Set
<1> QED
  BY <1>2, <1>3, <1>4 DEF CInv

\* The invariant of a charge job, whatever faults, aborts, answers and
\* interruptions come between and within the calls of job_running.
THEOREM ChargeJobInvariant == CSpec => []CInv
<1>1. CInv /\ [CNext]_vars => CInv'
  BY TypeStep, ElectricStep, MeteringStep, BillStep DEF CInv
<1> QED
  BY CInitInv, <1>1, PTL DEF CSpec

\* A gun is energised only by its own charging job, locked, behind the main switch.
THEOREM OutputsAreSafe == CSpec => []EnergisedSafely
<1>1. CInv => EnergisedSafely
  BY DEF CInv, Electric
<1> QED
  BY <1>1, ChargeJobInvariant, PTL

\* Once the faults have been looked at in a call no output stays closed with a fault on.
THEOREM FaultsOpenTheOutputs == CSpec => []FaultOpensOutputs
<1>1. CInv => FaultOpensOutputs
  BY DEF CInv, Electric
<1> QED
  BY <1>1, ChargeJobInvariant, PTL

\* When the job is gone nothing of it is left on.
THEOREM NothingIsLeftOn == CSpec => []NothingLeftOn
<1>1. CInv => NothingLeftOn
  BY DEF CInv, Electric
<1> QED
  BY <1>1, ChargeJobInvariant, PTL

\* The customer is never charged for energy that did not flow.
THEOREM NobodyIsOverbilled == CSpec => []NeverOverbilled
<1>1. CInv => NeverOverbilled
  BY DEF CInv, Metering
<1> QED
  BY <1>1, ChargeJobInvariant, PTL

\* A job does not leave JOB_DONE before its bill is settled or 15 s have passed.
THEOREM BillingIsGivenTime == CSpec => BillingGetsItsTime
<1>1. CInv /\ [CNext]_vars =>
        [NeedBilling /\ stage = "DONE" /\ stage' = "EXITTING"
           => Set("BILLING_DONE") \/ timer >= Patience]_vars
  <2> SUFFICES ASSUME CInv, CNext, NeedBilling, stage = "DONE", stage' = "EXITTING"
               PROVE  Set("BILLING_DONE") \/ timer >= Patience
    OBVIOUS
  <2>1. Done
    BY SMT DEF CNext, Select, Protect, Switch, Around, Wait, StandbyEnd, StandbyUnplugged,
       StandbyPlugged, StandbyOff, WorkingFault, WorkingDropped, Working, ErrPause, Resuming,
       Aborting, Exitting, Detaching, Freed, DetachingOff, At, Measure, Flow, Tick, BmsPacket,
       BmsRelease, WebAbort, AskBill, AnswerBill
  <2>2. Billed
    BY <2>1, SMT DEF Done
  <2> QED
    BY <2>2 DEF Billed, CInv, BillInv
<1> QED
  BY <1>1, ChargeJobInvariant, PTL DEF CSpec, BillingGetsItsTime

-----------------------------------------------------------------------------
(* The charge that a job is, in terms of module Session.                   *)

LEMMA Phases ==
  ASSUME stage \in Stage, stage' \in Stage
  PROVE  /\ stage = "NONE" <=> Phase = "none"
         /\ stage \in {"WAITTING", "STANDBY"} <=> Phase = "ready"
         /\ stage = "WORKING" <=> Phase = "charging"
         /\ stage \in {"ERR_PAUSE", "RESUMING"} <=> Phase = "paused"
         /\ stage \in {"ABORTING", "DONE", "EXITTING", "DETACHING"} <=> Phase = "ended"
         /\ stage' = "NONE" <=> Phase' = "none"
         /\ stage' \in {"WAITTING", "STANDBY"} <=> Phase' = "ready"
         /\ stage' = "WORKING" <=> Phase' = "charging"
         /\ stage' \in {"ERR_PAUSE", "RESUMING"} <=> Phase' = "paused"
         /\ stage' \in {"ABORTING", "DONE", "EXITTING", "DETACHING"} <=> Phase' = "ended"
BY DEF Phase, Stage

\* The next state keeps the invariant; what is recorded is then at most what was given.
LEMMA NextOfSession == CInv /\ CInv' /\ [CNext]_vars => [Charge!Next]_(Charge!svars)
<1> SUFFICES ASSUME CInv, CInv', [CNext]_vars, ~UNCHANGED Charge!svars
             PROVE  Charge!Next
  OBVIOUS
<1> USE DEF Charge!Next, Charge!svars
<1>0. /\ stage \in Stage /\ stage' \in Stage /\ job \in Jobs /\ job' \in Jobs
      /\ job.gun \in Gun /\ job'.gun \in Gun /\ kwh \in Energy /\ kwh' \in Energy
  BY DEF CInv, CTypeOK, Jobs
<1>a. out # {} => stage \in {"WORKING", "ABORTING"}
  BY DEF CInv, Electric, EnergisedSafely
<1>1. CASE Select
  <2>1. kwh'.charged + kwh'.section = 0 /\ kwh'.given = 0 /\ out' = out
    BY <1>1, SMT DEF Select, NoEnergy, switches
  <2>2. stage = "NONE" /\ stage' = "WAITTING"
    BY <1>1 DEF Select
  <2> QED BY <1>0, <2>1, <2>2, Phases DEF Charge!Ask
<1>2. CASE Flow
  <2>1. /\ out # {} /\ out' = out /\ stage' = stage /\ job' = job
        /\ kwh'.charged + kwh'.section = kwh.charged + kwh.section
        /\ kwh'.given = kwh.given + 1
    BY <1>2, SMT DEF Flow, switches
  <2>2. Phase' = Phase
    BY <2>1 DEF Phase
  <2> QED BY <2>1, <2>2 DEF Charge!Draw
<1>3. CASE Working
  <2>1. /\ out' = {job.gun} /\ job' = job /\ stage = "WORKING"
        /\ stage' \in {"WORKING", "ABORTING"} /\ kwh'.given = kwh.given
    BY <1>3, SMT DEF Working, At, Metered
  <2>2. kwh'.charged + kwh'.section <= kwh'.given
    BY DEF CInv, Metering, NeverOverbilled
  <2> QED BY <1>0, <2>1, <2>2, Phases DEF Charge!Meter
<1>4. CASE Wait \/ StandbyEnd \/ StandbyUnplugged \/ StandbyPlugged
  <2>1. /\ job' = job /\ kwh' = kwh /\ out' = {} /\ stage \in {"WAITTING", "STANDBY"}
        /\ stage' \in {"WAITTING", "STANDBY", "WORKING", "ERR_PAUSE", "ABORTING"}
    BY <1>4, SMT DEF Wait, StandbyEnd, StandbyUnplugged, StandbyPlugged, StandbyOff, At
  <2>2. out = {}
    BY <1>a, <2>1
  <2> QED BY <1>0, <2>1, <2>2, Phases DEF Charge!Begin, Charge!End
<1>5. CASE WorkingFault \/ WorkingDropped
  <2>1. /\ job' = job /\ kwh' = kwh /\ out' \subseteq out /\ stage = "WORKING"
        /\ stage' = "ERR_PAUSE"
    BY <1>5, SMT DEF WorkingFault, WorkingDropped, At
  <2>2. out' = {}
    BY <2>1 DEF CInv, Electric, EnergisedSafely
  <2> QED BY <1>0, <2>1, <2>2, Phases DEF Charge!Pause
<1>6. CASE ErrPause \/ Resuming
  <2>1. /\ job' = job /\ kwh' = kwh /\ (out' = {} \/ out' = out)
        /\ stage \in {"ERR_PAUSE", "RESUMING"}
        /\ stage' \in {"ERR_PAUSE", "RESUMING", "WORKING", "ABORTING"}
    BY <1>6, SMT DEF ErrPause, Resuming, At, switches
  <2>2. out = {}
    BY <1>a, <2>1
  <2> QED BY <1>0, <2>1, <2>2, Phases DEF Charge!Continue, Charge!End
<1>7. CASE Aborting \/ Done \/ Exitting \/ Detaching
  <2>1. /\ job' = job /\ kwh' = kwh /\ out' = {}
        /\ stage \in {"ABORTING", "DONE", "EXITTING", "DETACHING"}
        /\ stage' \in {"DONE", "EXITTING", "DETACHING"}
    BY <1>7, SMT DEF Aborting, Done, Exitting, Detaching, DetachingOff, At
  <2> QED BY <1>0, <2>1, Phases DEF Charge!Open
<1>8. CASE Freed
  <2>1. /\ job' = job /\ kwh' = kwh /\ out' = {}
        /\ stage = "DETACHING" /\ stage' = "NONE"
    BY <1>8, SMT DEF Freed, DetachingOff, At
  <2>2. out = {}
    BY <1>a, <2>1
  <2> QED BY <1>0, <2>1, <2>2, Phases DEF Charge!Leave
<1>9. CASE Protect \/ Measure \/ Tick \/ BmsPacket \/ BmsRelease \/ WebAbort \/ AskBill
           \/ AnswerBill \/ UNCHANGED vars
  <2>1. UNCHANGED <<job, stage, kwh, out>>
    BY <1>9 DEF Protect, Measure, Tick, BmsPacket, BmsRelease, WebAbort, AskBill, AnswerBill,
                switches, vars
  <2> QED BY <2>1 DEF Phase
<1> QED
  BY <1>1, <1>2, <1>3, <1>4, <1>5, <1>6, <1>7, <1>8, <1>9 DEF CNext, Switch, Around

\* ChargeJob implements Session: through faults, unplugging, aborts, late bills and two
\* halves of a call a job gives energy to its own gun between its one beginning and its
\* one end, and is billed from zero and for no more than that.
THEOREM JobImplementsSession == CSpec => ImplementsSession
<1>1. CInit => Charge!Init
  <2> SUFFICES ASSUME CInit PROVE Charge!Init
    OBVIOUS
  <2>1. job.gun \in Gun
    BY CInitInv DEF CInv, CTypeOK, Jobs
  <2>2. kwh.charged + kwh.section = 0 /\ kwh.given = 0
    BY SMT DEF CInit, NoEnergy
  <2> QED BY <2>1, <2>2 DEF CInit, Charge!Init, Phase
<1> QED
  BY <1>1, NextOfSession, ChargeJobInvariant, PTL
  DEF CSpec, ImplementsSession, Charge!Spec

\* What is recorded when the charge ends is what will be billed: no later step, however
\* long billing and detaching take, changes it.
THEOREM BillsAreFinal == CSpec => Charge!BillIsFinal
<1>1. [Charge!Next]_(Charge!svars)
        => [Phase = "ended" => (kwh.charged + kwh.section)' = kwh.charged + kwh.section]_(Charge!svars)
  BY DEF Charge!Next, Charge!Ask, Charge!Begin, Charge!Meter, Charge!Draw, Charge!Pause,
         Charge!Continue, Charge!End, Charge!Open, Charge!Leave
<1> QED
  BY <1>1, JobImplementsSession, PTL DEF ImplementsSession, Charge!Spec, Charge!BillIsFinal
=============================================================================
