----------------------------- MODULE BmsDriver -----------------------------
(***************************************************************************)
(* The packet exchange of GB/T 27930-2011 between the charger and the      *)
(* battery management system of one job, canbms.c: which packets the BMS   *)
(* thread sends, what it does with a packet of the BMS, and what the heart *)
(* beat timer does when the BMS is silent.  A packet arrives whole: that   *)
(* is what CanTp shows of the longer ones.                                 *)
(*                                                                         *)
(* Grain of atomicity: the heart beat is a signal handler, which may run   *)
(* on any thread, so it comes between two statements of the BMS thread and *)
(* the BMS thread between two of its own.  A receipt writes one flag, the  *)
(* stage or a count of silence per step.  The handler counts and judges    *)
(* all packets in one step, then writes one flag or the stage per step.    *)
(* A request decides and starts its count again in one step and writes the *)
(* stage in another.                                                       *)
(*                                                                         *)
(* Left out: CEM, which is never due (its stage is that of no phase); the  *)
(* flags that decide nothing but the contents of a packet or a page of the *)
(* web interface (RX_BRM, CRM_OK, RX_BCP, RX_BRO, BRO_OK, CRO_OK, RX_BST,  *)
(* BST_TIMEOUT, the TX_ flags but TX_CST, those of BSM, BMV and BMT); and  *)
(* the packets that set nothing else.                                      *)
(***************************************************************************)
EXTENDS Integers, FiniteSets, TLC

CONSTANTS
  Period,    \* Period[g]: ticks between two packets g of the charger
  Tolerate,  \* Tolerate[p]: ticks the BMS may go without sending p
  Vehicles   \* Vehicles: for each kind of BMS the set of packets it sends

Sent    == {"CRM", "CTS", "CML", "CRO", "CCS", "CST", "CSD"}
Watched == {"BRM", "BCP", "BRO", "BCL", "BST", "BSD"}
Received == Watched \cup {"BCS"}

ASSUME DriverAssumption ==
  /\ Period \in [Sent -> Nat \ {0}]
  /\ Tolerate \in [Watched -> Nat \ {0}]
  /\ Vehicles \subseteq SUBSET Received

Stages == {"HANDSHAKING", "CONFIGURE", "CHARGING", "DONE", "INVALID"}

\* The column stage of the table of generators.
StageOf == [CRM |-> "HANDSHAKING", CTS |-> "CONFIGURE", CML |-> "CONFIGURE",
            CRO |-> "CONFIGURE", CCS |-> "CHARGING", CST |-> "CHARGING", CSD |-> "DONE"]

Flags == {"BRM_OK", "BRM_TIMEOUT", "BCP_TIMEOUT", "BRO_TIMEOUT", "RX_BCL", "BCL_TIMEOUT",
          "RX_BCS", "TX_CST", "RX_BSD", "BSD_TIMEOUT", "TRM"}

\* What a receipt of a packet sets and what its time out sets.
Judged  == {"BRM", "BCL", "BSD"}
There   == [BRM |-> "BRM_OK", BCL |-> "RX_BCL", BSD |-> "RX_BSD"]
Overdue == [BRM |-> "BRM_TIMEOUT", BCL |-> "BCL_TIMEOUT", BSD |-> "BSD_TIMEOUT"]

VARIABLES
  stage,    \* bms.charge_stage
  flags,    \* the flags of the job that are set
  heart,    \* generator[g].heartbeat
  silence,  \* generator[p].can_silence
  sends,    \* the packets that the BMS sends, {} when it has fallen silent
  packet,   \* the packet the BMS thread is handling, or "none"
  pc,       \* its next statement: "idle" between two packets, a stage when
            \* that stage is about to be written
  late,     \* the packet the handler has just found late, or "none"
  hpc,      \* its next statement: "out" when no tick is being handled
  crossed   \* history: packets whose last receipt ran into a verdict of lateness

threadVars == <<packet, pc>>
handlerVars == <<late, hpc>>
vars == <<stage, flags, heart, silence, sends, threadVars, handlerVars, crossed>>

\* JF_CHG_TRM_CHARGE or JF_BMS_TRM_CHARGE: the driver always reads both.
Terminating == "TRM" \in flags

NoHeart   == [g \in Sent |-> 0]
NoSilence == [p \in Watched |-> 0]

\* EVENT_CAN_INIT, on the generators that bind_bmsdriver has copied.
DInit ==
  /\ stage = "HANDSHAKING"
  /\ flags = {}
  /\ heart = NoHeart
  /\ silence = NoSilence
  /\ sends \in Vehicles
  /\ packet = "none" /\ pc = "idle"
  /\ late = "none" /\ hpc = "out"
  /\ crossed = {}

\* The thread goes on with statement s of packet p, or is done with it.
Goto(p, s) == packet' = p /\ pc' = s
Return == Goto("none", "idle")

\* A receipt and a verdict about the same packet that are under way together.
Crossing ==
  crossed' = IF packet' \in Judged /\ packet' = late' THEN crossed \cup {packet'}
             ELSE IF packet' # packet THEN crossed \ {packet'} ELSE crossed

---------------------------------------------------------------------------
(* EVENT_TX_REQUEST: at most one generator is asked in a pass of the       *)
(* thread, the first of its stage that is due.                             *)

Due(g) == pc = "idle" /\ StageOf[g] = stage /\ heart[g] >= Period[g]

\* CST ends the stage when the statistics of the BMS are there, or overdue.
AfterCstDone == Goto("CST", "DONE") \* mutant: whoever ended the charge
AfterCst == IF flags \cap {"RX_BSD", "BSD_TIMEOUT"} # {} THEN Goto("CST", "DONE") ELSE Return

\* A packet g of an earlier stage gives way to CST when the charge is terminating.
OrCst(g) ==
  \/ /\ Terminating
     /\ Goto("CST", "CHARGING")
     /\ heart' = [heart EXCEPT ![g] = 0, !["CST"] = 0]
  \/ /\ ~Terminating
     /\ heart' = [heart EXCEPT ![g] = 0]
     /\ UNCHANGED threadVars

SendCRM == Due("CRM") /\ OrCst("CRM") /\ UNCHANGED <<stage, flags, silence, sends, handlerVars>>

SendTimeAndLimits(g) ==
  /\ Due(g) /\ (g = "CML" => ~Due("CTS"))
  /\ heart' = [heart EXCEPT ![g] = 0]
  /\ UNCHANGED <<stage, flags, silence, sends, threadVars, handlerVars>>

SendCRO ==
  /\ Due("CRO") /\ ~Due("CTS") /\ ~Due("CML")
  /\ OrCst("CRO")
  /\ UNCHANGED <<stage, flags, silence, sends, handlerVars>>

\* Held back, by EVT_RET_INVALID, when terminating or not informed by BCS and BCL.
SendCCS ==
  /\ Due("CCS")
  /\ heart' = [heart EXCEPT !["CCS"] = 0]
  /\ UNCHANGED <<stage, flags, silence, sends, threadVars, handlerVars>>

gen_packet_PGN6656 ==
  /\ flags' = IF Terminating THEN flags \cup {"TX_CST"} ELSE flags
  /\ AfterCst

SendCST ==
  /\ Due("CST") /\ ~Due("CCS")
  /\ heart' = [heart EXCEPT !["CST"] = 0]
  /\ gen_packet_PGN6656
  /\ UNCHANGED <<stage, silence, sends, handlerVars>>

SendCSD ==
  /\ Due("CSD")
  /\ heart' = [heart EXCEPT !["CSD"] = 0]
  /\ IF ("RX_BSD" \in flags /\ Terminating) \/ "BSD_TIMEOUT" \in flags
     THEN Goto("CSD", "INVALID") ELSE UNCHANGED threadVars
  /\ UNCHANGED <<stage, flags, silence, sends, handlerVars>>

Request ==
  \/ \E g \in {"CTS", "CML"} : SendTimeAndLimits(g)
  \/ SendCRM \/ SendCRO \/ SendCCS \/ SendCST \/ SendCSD

---------------------------------------------------------------------------
(* EVENT_RX_DONE: about_packet_reciev_done.  One action per packet for the  *)
(* first statement, then the statements that are left.                     *)

Begin(p, s) ==
  /\ p \in sends /\ pc = "idle"
  /\ Goto(p, s)
  /\ UNCHANGED <<stage, heart, silence, sends, handlerVars>>

\* Mutant: the time out of BRM is forgotten when it comes after all.
RecvBRMOverdue == Begin("BRM", "heard") /\ UNCHANGED flags
RecvBRM == Begin("BRM", "heard") /\ flags' = flags \ {"BRM_TIMEOUT"}
RecvBCP == Begin("BCP", "CONFIGURE") /\ flags' = flags \ {"BCP_TIMEOUT"}
RecvBRO == Begin("BRO", "heard") /\ flags' = flags \ {"BRO_TIMEOUT"}
RecvBCL == Begin("BCL", "mark") /\ flags' = flags \ {"BCL_TIMEOUT"}
RecvBCS == Begin("BCS", "CHARGING") /\ flags' = flags \cup {"RX_BCS"}
RecvBST == Begin("BST", "heard") /\ flags' = flags \cup {"TRM"}
RecvBSD == Begin("BSD", "mark") /\ flags' = flags \ {"BSD_TIMEOUT"}

Receive == RecvBRM \/ RecvBCP \/ RecvBRO \/ RecvBCL \/ RecvBCS \/ RecvBST \/ RecvBSD

\* BCL and BSD: bit_set of the receipt.
Mark ==
  /\ pc = "mark"
  /\ flags' = flags \cup {There[packet]}
  /\ Goto(packet, "heard")
  /\ UNCHANGED <<stage, heart, silence, sends, handlerVars>>

\* can_silence = 0; BRM is judged after that, and BST may answer a CST.
Heard ==
  /\ pc = "heard"
  /\ silence' = [silence EXCEPT ![packet] = 0]
  /\ CASE packet = "BRM" -> Goto(packet, "judge")
       [] packet = "BST" /\ "TX_CST" \in flags -> Goto(packet, "DONE")
       [] OTHER -> Return
  /\ UNCHANGED <<stage, flags, heart, sends, handlerVars>>

\* BRM: the BMS is recognised if what it says of itself is plausible.
Judge(valid) ==
  /\ pc = "judge"
  /\ flags' = IF valid THEN flags \cup {"BRM_OK"} ELSE flags \ {"BRM_OK"}
  /\ Return
  /\ UNCHANGED <<stage, heart, silence, sends, handlerVars>>

\* charge_stage = pc, by the receipts of BCP, BCS and BST and by CST and CSD.
WriteStage ==
  /\ pc \in Stages
  /\ stage' = pc
  /\ CASE packet = "BCP" -> Goto(packet, "heard")
       [] packet = "CST" /\ pc = "CHARGING" -> Goto(packet, "cst")
       [] OTHER -> Return
  /\ UNCHANGED <<flags, heart, silence, sends, handlerVars>>

\* The CST that takes the place of CRM or CRO.
CallCst ==
  /\ pc = "cst"
  /\ gen_packet_PGN6656
  /\ UNCHANGED <<stage, heart, silence, sends, handlerVars>>

Continue == Mark \/ Heard \/ (\E valid \in BOOLEAN : Judge(valid)) \/ WriteStage \/ CallCst

\* The vehicle is unplugged, loses its supply or is simply done.
FallSilent ==
  /\ sends' = {}
  /\ UNCHANGED <<stage, flags, heart, silence, threadVars, handlerVars>>

---------------------------------------------------------------------------
(* heart_beart_notify_proc, the tick of the job's timer.  It first counts  *)
(* the heart beats, then goes through the packets of the BMS in the order  *)
(* of their numbers.  A packet it finds late is a verdict, which it writes *)
(* down statement by statement before the handler returns.                 *)

Verdict(p, s) == late' = p /\ hpc' = s
NoVerdict == Verdict("none", "out")

Beat == heart' = [g \in Sent |-> IF StageOf[g] # stage THEN 0
                                 ELSE IF heart[g] < Period[g] THEN heart[g] + 1 ELSE Period[g]]

\* A count beyond the tolerance is as good as one just beyond it.
Counted(p) == IF silence[p] > Tolerate[p] THEN silence[p] ELSE silence[p] + 1
Late(p)    == Counted(p) > Tolerate[p]

TickHandshaking ==
  LET noticed == Late("BRM") /\ "BRM_TIMEOUT" \notin flags /\ ~Terminating
  IN  /\ stage = "HANDSHAKING"
      /\ IF noticed THEN Verdict("BRM", "mark") ELSE NoVerdict
      /\ silence' = [NoSilence EXCEPT !["BRM"] =
                       IF Late("BRM") /\ ~noticed THEN 0 ELSE Counted("BRM")]
      /\ UNCHANGED flags

\* Both packets of the configuration are missed: the handshake starts again.
Marked(p, to, f) == IF Late(p) THEN f \cup {to} ELSE f
GivenUp(f) == {"BRO_TIMEOUT", "BCP_TIMEOUT"} \subseteq f /\ ~Terminating

TickConfigure ==
  LET afterBcp == Marked("BCP", "BCP_TIMEOUT", flags)
      bcpEnds  == Late("BCP") /\ GivenUp(afterBcp)
      afterBro == Marked("BRO", "BRO_TIMEOUT", afterBcp)
      broEnds  == ~bcpEnds /\ Late("BRO") /\ GivenUp(afterBro)
  IN  /\ stage = "CONFIGURE"
      /\ flags' = IF bcpEnds THEN afterBcp ELSE afterBro
      /\ CASE bcpEnds -> Verdict("BCP", "HANDSHAKING")
           [] broEnds -> Verdict("BRO", "HANDSHAKING")
           [] OTHER -> NoVerdict
      /\ silence' = [NoSilence EXCEPT
           !["BCP"] = IF Late("BCP") THEN 0 ELSE Counted("BCP"),
           !["BRO"] = IF bcpEnds \/ Late("BRO") THEN 0 ELSE Counted("BRO")]

\* Of the statistics: in DONE, and in the tick that has just moved there.
\* Mutant: like the other time outs, not while terminating.
BsdNoticedUnended == Late("BSD") /\ flags \cap {"BSD_TIMEOUT", "RX_BSD", "TRM"} = {}
BsdNoticed == Late("BSD") /\ flags \cap {"BSD_TIMEOUT", "RX_BSD"} = {}
BsdCount   == IF Late("BSD") /\ ~BsdNoticed THEN 0 ELSE Counted("BSD")
JudgeBsd ==
  /\ IF BsdNoticed THEN Verdict("BSD", "mark") ELSE NoVerdict
  /\ silence' = [silence EXCEPT !["BSD"] = BsdCount]

\* The BMS is lost only once: BCL_TIMEOUT stays until a BCL comes.
\* Mutant: only a BCL that has been there can be missed.
LossOfBclHeard == Late("BCL") /\ "RX_BCL" \in flags /\ ~Terminating
LossOfBcl == Late("BCL") /\ "BCL_TIMEOUT" \notin flags /\ ~Terminating

TickCharging ==
  LET ended == ~LossOfBcl /\ Late("BST") /\ Terminating
  IN  /\ stage = "CHARGING"
      /\ CASE LossOfBcl -> Verdict("BCL", "mark")
           [] ended     -> Verdict("BST", "DONE")
           [] OTHER     -> NoVerdict
      /\ silence' = [NoSilence EXCEPT
           !["BCL"] = IF Late("BCL") /\ ~LossOfBcl THEN 0 ELSE Counted("BCL"),
           !["BST"] = IF LossOfBcl THEN 0 ELSE Counted("BST"),
           !["BSD"] = IF ended THEN silence["BSD"] ELSE 0]
      /\ UNCHANGED flags

TickDone ==
  /\ stage = "DONE"
  /\ IF BsdNoticed THEN Verdict("BSD", "mark") ELSE NoVerdict
  /\ silence' = [NoSilence EXCEPT !["BSD"] = BsdCount]
  /\ UNCHANGED flags

TickInvalid ==
  /\ stage = "INVALID"
  /\ NoVerdict
  /\ silence' = NoSilence
  /\ UNCHANGED flags

Tick ==
  /\ hpc = "out"
  /\ Beat
  /\ TickHandshaking \/ TickConfigure \/ TickCharging \/ TickDone \/ TickInvalid
  /\ UNCHANGED <<stage, sends, threadVars>>

\* The verdict: bit_set of the time out, bit_clr of the receipt (not of BSD),
\* and back to the handshake.
MarkOverdue ==
  /\ hpc = "mark"
  /\ flags' = flags \cup {Overdue[late]}
  /\ IF late = "BSD" THEN NoVerdict ELSE Verdict(late, "unmark")
  /\ UNCHANGED <<stage, heart, silence, sends, threadVars>>

UnmarkThere ==
  /\ hpc = "unmark"
  /\ flags' = flags \ {There[late]}
  /\ Verdict(late, "HANDSHAKING")
  /\ UNCHANGED <<stage, heart, silence, sends, threadVars>>

\* After the time out of BST the same tick looks at the statistics.
MoveStage ==
  /\ hpc \in Stages
  /\ stage' = hpc
  /\ IF late = "BST" THEN JudgeBsd ELSE NoVerdict /\ UNCHANGED silence
  /\ UNCHANGED <<flags, heart, sends, threadVars>>

---------------------------------------------------------------------------
\* The charge thread aborts the charge or finds its limit reached.
Terminate ==
  /\ flags' = flags \cup {"TRM"}
  /\ UNCHANGED <<stage, heart, silence, sends, threadVars, handlerVars>>

Handler == (Tick \/ MarkOverdue \/ UnmarkThere \/ MoveStage) /\ Crossing
Thread  == (Request \/ Continue) /\ Crossing
DNext == Handler \/ Thread \/ ((Receive \/ FallSilent \/ Terminate) /\ Crossing)

(* The timer goes on, and the thread, while the bus accepts frames.  It     *)
(* passes every 5 ms where a packet of CONFIGURE is due every 250 ms or     *)
(* more, so none is overtaken for ever.  Nothing is assumed of the BMS.     *)
DFairness ==
  /\ WF_vars(Handler)
  /\ WF_vars(Thread)
  /\ SF_vars(SendTimeAndLimits("CML") /\ Crossing) /\ SF_vars(SendCRO /\ Crossing)
DSpec == DInit /\ [][DNext]_vars /\ DFairness

---------------------------------------------------------------------------
(* Type invariant; silence counts one tick beyond the tolerance.           *)
DTypeOK ==
  /\ stage \in Stages
  /\ flags \subseteq Flags
  /\ heart \in [Sent -> Nat] /\ \A g \in Sent : heart[g] <= Period[g]
  /\ sends \subseteq Received
  /\ silence \in [Watched -> Nat] /\ \A p \in Watched : silence[p] <= Tolerate[p] + 1
  /\ pc \in Stages \cup {"idle", "mark", "heard", "judge", "cst"}
  /\ hpc \in Stages \cup {"out", "mark", "unmark"}
  /\ packet \in Sent \cup Received \cup {"none"}
  /\ late \in Watched \cup {"none"}
  /\ crossed \subseteq Judged

(* A packet is there and overdue at once only when its last receipt and a   *)
(* verdict of the handler ran into each other (canbms.c 750-816, 905-915,   *)
(* 1128-1139 against 652-734), or while the handler is still at it: no      *)
(* sequence of receipts, time outs, losses and recoveries that do not       *)
(* overlap leads there, and the next receipt that the handler leaves alone  *)
(* puts it right.                                                           *)
ThereAndOverdueOnlyByCrossing ==
  \A p \in Judged : {There[p], Overdue[p]} \subseteq flags => p \in crossed \/ late = p

(* Energy is only asked for in a stage that somebody meant: CHARGING needs   *)
(* the status packet BCS or a termination, and the exchange only ends, in    *)
(* DONE or INVALID, when one side terminated it or the BMS has already sent  *)
(* its statistics, never by a time out alone.                               *)
StagesAreMeant ==
  /\ stage = "CHARGING" => "RX_BCS" \in flags \/ Terminating
  /\ stage \in {"DONE", "INVALID"} => "RX_BSD" \in flags \/ Terminating

(* A BMS that falls silent during the charge is noticed: the driver leaves   *)
(* CHARGING (canbms.c 698-712), provided it has heard a BCL since the last   *)
(* time it lost the BMS.                                                    *)
FirstSilenceIsNoticed ==
  (stage = "CHARGING" /\ sends = {} /\ "BCL_TIMEOUT" \notin flags) ~> (stage # "CHARGING")

(* A terminated exchange comes to its end without the BMS: CST, the time out *)
(* of BST, CSD or the time out of BSD, from whatever stage it was in.        *)
TerminationCompletes == (Terminating /\ sends = {}) ~> (stage = "INVALID")

---------------------------------------------------------------------------
(* A property that the code does not have: BCL_TIMEOUT of the first loss is  *)
(* never taken back (canbms.c 699), so a second one goes unnoticed, though   *)
(* the log of canbms.c:704 says that the communication failed and the hands  *)
(* are shaken again.                                                        *)
SilentBmsIsNoticed == (stage = "CHARGING" /\ sends = {}) ~> (stage # "CHARGING")

(* Nor does it have this one.  A tick between canbms.c:909 and 910 still     *)
(* finds the silence of before the packet: it sets BCL_TIMEOUT, clears       *)
(* RX_BCL and goes back to the handshake, then 910 sets RX_BCL.  The BMS is   *)
(* lost on the arrival of its packet, and until the next BCL it may fall     *)
(* silent unnoticed, as above.                                              *)
NeverThereAndOverdue ==
  \A p \in Judged : ~({There[p], Overdue[p]} \subseteq flags)
=============================================================================
