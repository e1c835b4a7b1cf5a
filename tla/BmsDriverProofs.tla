-------------------------- MODULE BmsDriverProofs --------------------------
(***************************************************************************)
(* BmsDriver for any periods, tolerances and vehicles: the state is well   *)
(* typed, a packet is only received and overdue at once when its receipt   *)
(* and the handler ran into each other, and no stage is entered that       *)
(* nobody meant.                                                           *)
(***************************************************************************)
EXTENDS BmsDriver, TLAPS

\* BSD is only found overdue when the charge is over, so it may stand for BSD.
Statistics == "BSD_TIMEOUT" \in flags => "RX_BSD" \in flags \/ Terminating

\* Where the BMS thread may be, and why it is about to write a stage.
ThreadPlaces ==
  /\ pc = "idle" => packet = "none"
  /\ pc = "mark" => packet \in {"BCL", "BSD"}
  /\ pc = "heard" => packet \in Watched
  /\ pc = "judge" => packet = "BRM"
  /\ pc = "cst" => packet = "CST" /\ Terminating
  /\ packet = "BST" => Terminating
  /\ pc = "HANDSHAKING" => FALSE
  /\ pc = "CHARGING" => (packet = "BCS" /\ "RX_BCS" \in flags) \/ (packet = "CST" /\ Terminating)
  /\ pc \in {"DONE", "INVALID"} => "RX_BSD" \in flags \/ Terminating

\* Where the handler may be, and what it has found out.
HandlerPlaces ==
  /\ hpc = "out" => late = "none"
  /\ hpc = "mark" => late \in Judged
  /\ hpc = "unmark" => late \in {"BRM", "BCL"}
  /\ hpc \in Stages => \/ hpc = "HANDSHAKING" /\ late \in {"BRM", "BCL", "BCP", "BRO"}
                       \/ hpc = "DONE" /\ late = "BST" /\ Terminating
  /\ late = "BSD" => hpc = "mark" /\ ("RX_BSD" \in flags \/ Terminating)

\* A packet that is both or is about to be: its last receipt met the handler.
CrossingIsSeen ==
  \A p \in Judged :
    /\ {There[p], Overdue[p]} \subseteq flags => p \in crossed \/ late = p
    /\ packet = p /\ Overdue[p] \in flags => p \in crossed
    /\ packet = p /\ late = p => p \in crossed
    /\ late = p /\ There[p] \in flags /\ (p = "BSD" \/ hpc \in Stages) => p \in crossed

DInv == DTypeOK /\ ThreadPlaces /\ HandlerPlaces /\ CrossingIsSeen /\ StagesAreMeant /\ Statistics

Places == ThreadPlaces /\ HandlerPlaces

LEMMA InitDInv == DInit => DInv
BY DriverAssumption
   DEF DInit, DInv, DTypeOK, ThreadPlaces, HandlerPlaces, CrossingIsSeen, StagesAreMeant,
       Statistics, Stages, NoHeart, NoSilence, Terminating, Judged, There, Overdue

\* The counters stay in range whatever the handler does with them.
LEMMA CountersInRange ==
    ASSUME DTypeOK, NEW p \in Watched
    PROVE  Counted(p) \in 0..(Tolerate[p] + 1)
BY DriverAssumption DEF DTypeOK, Counted

LEMMA BeatInRange ==
    ASSUME DTypeOK, Beat
    PROVE  heart' \in [Sent -> Nat] /\ \A g \in Sent : heart'[g] <= Period[g]
BY DriverAssumption DEF DTypeOK, Beat

LEMMA ResetInRange ==
    ASSUME DTypeOK, NEW g \in Sent, NEW h \in Sent
    PROVE  LET n == [heart EXCEPT ![g] = 0]
               m == [heart EXCEPT ![g] = 0, ![h] = 0]
           IN  /\ n \in [Sent -> Nat] /\ \A x \in Sent : n[x] <= Period[x]
               /\ m \in [Sent -> Nat] /\ \A x \in Sent : m[x] <= Period[x]
BY DriverAssumption DEF DTypeOK

LEMMA HeardInRange ==
    ASSUME DTypeOK, NEW p \in Watched, silence' = [silence EXCEPT ![p] = 0]
    PROVE  silence' \in [Watched -> Nat] /\ \A x \in Watched : silence'[x] <= Tolerate[x] + 1
<1>1. silence \in [Watched -> Nat]
    BY DEF DTypeOK
<1>2. silence' \in [Watched -> Nat]
    BY <1>1
<1>3. \A x \in Watched : silence'[x] = IF x = p THEN 0 ELSE silence[x]
    BY <1>1
<1> QED
    BY <1>2, <1>3, DriverAssumption DEF DTypeOK

\* The packet that gives way to CST, and CST itself, start counting again.
LEMMA OrCstInRange ==
    ASSUME DTypeOK, NEW g \in Sent, OrCst(g)
    PROVE  /\ heart' \in [Sent -> Nat] /\ \A x \in Sent : heart'[x] <= Period[x]
           /\ packet' \in Sent \cup Received \cup {"none"}
           /\ pc' \in Stages \cup {"idle", "mark", "heard", "judge", "cst"}
<1>1. "CST" \in Sent
    BY DEF Sent
<1>2. heart' \in [Sent -> Nat] /\ \A x \in Sent : heart'[x] <= Period[x]
  <2>1. CASE heart' = [heart EXCEPT ![g] = 0]
      BY <2>1, ResetInRange
  <2>2. CASE heart' = [heart EXCEPT ![g] = 0, !["CST"] = 0]
      BY <1>1, <2>2, ResetInRange
  <2> QED
      BY <2>1, <2>2 DEF OrCst
<1> QED
    BY <1>1, <1>2 DEF OrCst, Goto, Stages, DTypeOK, threadVars

\* The history only holds packets that are judged.
LEMMA CrossedInRange == ASSUME DTypeOK, Crossing PROVE crossed' \subseteq Judged
BY DEF DTypeOK, Crossing

---------------------------------------------------------------------------
\* All of the type invariant but the history.
Typed ==
  /\ stage \in Stages
  /\ flags \subseteq Flags
  /\ heart \in [Sent -> Nat] /\ \A g \in Sent : heart[g] <= Period[g]
  /\ sends \subseteq Received
  /\ silence \in [Watched -> Nat] /\ \A p \in Watched : silence[p] <= Tolerate[p] + 1
  /\ pc \in Stages \cup {"idle", "mark", "heard", "judge", "cst"}
  /\ hpc \in Stages \cup {"out", "mark", "unmark"}
  /\ packet \in Sent \cup Received \cup {"none"}
  /\ late \in Watched \cup {"none"}

LEMMA TypeCst ==
    ASSUME DTypeOK, gen_packet_PGN6656
    PROVE  /\ flags' \subseteq Flags
           /\ packet' \in Sent \cup Received \cup {"none"}
           /\ pc' \in Stages \cup {"idle", "mark", "heard", "judge", "cst"}
BY DEF gen_packet_PGN6656, AfterCst, Return, Goto, DTypeOK, Flags, Sent, Stages

LEMMA TypeRequest == ASSUME DTypeOK, Request PROVE Typed'
<1>1. {"CRM", "CTS", "CML", "CRO", "CCS", "CST", "CSD"} \subseteq Sent
    BY DEF Sent
<1> USE DEF DTypeOK, Typed, threadVars, handlerVars
<1>2. CASE \E g \in {"CTS", "CML"} : SendTimeAndLimits(g)
    BY <1>1, <1>2, ResetInRange DEF SendTimeAndLimits
<1>3. CASE SendCRM
    BY <1>1, <1>3, OrCstInRange DEF SendCRM
<1>4. CASE SendCRO
    BY <1>1, <1>4, OrCstInRange DEF SendCRO
<1>5. CASE SendCCS
    BY <1>1, <1>5, ResetInRange DEF SendCCS
<1>6. CASE SendCST
    BY <1>1, <1>6, ResetInRange, TypeCst DEF SendCST
<1>7. CASE SendCSD
    BY <1>1, <1>7, ResetInRange DEF SendCSD, Goto, Stages
<1> QED
    BY <1>2, <1>3, <1>4, <1>5, <1>6, <1>7 DEF Request

LEMMA TypeReceive == ASSUME DTypeOK, Receive PROVE Typed'
<1>1. {"BRM", "BCP", "BRO", "BCL", "BCS", "BST", "BSD"} \subseteq Received
    BY DEF Received, Watched
<1> USE DEF DTypeOK, Typed, Begin, Goto, handlerVars, Stages
<1>2. CASE RecvBRM \/ RecvBCP \/ RecvBRO \/ RecvBCL \/ RecvBSD
    BY <1>1, <1>2 DEF RecvBRM, RecvBCP, RecvBRO, RecvBCL, RecvBSD
<1>3. CASE RecvBCS \/ RecvBST
    BY <1>1, <1>3 DEF RecvBCS, RecvBST, Flags
<1> QED
    BY <1>2, <1>3 DEF Receive

LEMMA TypeContinue == ASSUME DTypeOK, ThreadPlaces, Continue PROVE Typed'
<1> USE DEF DTypeOK, Typed, Goto, Return, handlerVars
<1>1. CASE Mark
  <2>1. packet \in {"BCL", "BSD"} /\ There[packet] \in Flags
      BY <1>1 DEF Mark, ThreadPlaces, There, Flags
  <2> QED
      BY <1>1, <2>1 DEF Mark
<1>2. CASE Heard
    BY <1>2, HeardInRange DEF Heard, ThreadPlaces, Stages
<1>3. ASSUME NEW valid \in BOOLEAN, Judge(valid) PROVE Typed'
    BY <1>3 DEF Judge, Flags
<1>4. CASE WriteStage
    BY <1>4 DEF WriteStage
<1>5. CASE CallCst
    BY <1>5, TypeCst DEF CallCst
<1> QED
    BY <1>1, <1>2, <1>3, <1>4, <1>5 DEF Continue

LEMMA TypeTick == ASSUME DTypeOK, Tick PROVE Typed'
<1>1. \A p \in Watched : Counted(p) \in 0..(Tolerate[p] + 1)
    BY CountersInRange
<1>2. BsdCount \in 0..(Tolerate["BSD"] + 1)
    BY <1>1, DriverAssumption DEF BsdCount, Watched
<1>3. heart' \in [Sent -> Nat] /\ \A g \in Sent : heart'[g] <= Period[g]
    BY BeatInRange DEF Tick
<1>4. silence' \in [Watched -> Nat] /\ \A p \in Watched : silence'[p] <= Tolerate[p] + 1
  <2> USE <1>1, <1>2, DriverAssumption DEF NoSilence
  <2>1. CASE TickHandshaking
      BY <2>1 DEF TickHandshaking, Watched
  <2>2. CASE TickConfigure
      BY <2>2 DEF TickConfigure, Watched
  <2>3. CASE TickCharging
    <3>1. silence["BSD"] \in Nat /\ silence["BSD"] <= Tolerate["BSD"] + 1
        BY DEF DTypeOK, Watched
    <3> QED
        BY <2>3, <3>1 DEF TickCharging, Watched
  <2>4. CASE TickDone
      BY <2>4 DEF TickDone, Watched
  <2>5. CASE TickInvalid
      BY <2>5 DEF TickInvalid, Watched
  <2> QED
      BY <2>1, <2>2, <2>3, <2>4, <2>5 DEF Tick
<1>5. flags' \subseteq Flags
  <2>1. CASE TickConfigure
      BY <2>1 DEF TickConfigure, Marked, DTypeOK, Flags
  <2>2. CASE ~TickConfigure
      BY <2>2 DEF Tick, TickHandshaking, TickCharging, TickDone, TickInvalid, DTypeOK
  <2> QED
      BY <2>1, <2>2
<1>6. late' \in Watched \cup {"none"} /\ hpc' \in Stages \cup {"out", "mark", "unmark"}
    BY DEF Tick, TickHandshaking, TickConfigure, TickCharging, TickDone, TickInvalid,
           Verdict, NoVerdict, Watched, Stages
<1>7. UNCHANGED <<stage, sends, packet, pc>>
    BY DEF Tick, threadVars
<1> QED
    BY <1>3, <1>4, <1>5, <1>6, <1>7 DEF DTypeOK, Typed

LEMMA TypeVerdict ==
    ASSUME DTypeOK, HandlerPlaces, MarkOverdue \/ UnmarkThere \/ MoveStage
    PROVE  Typed'
<1> USE DEF DTypeOK, Typed, Verdict, NoVerdict, threadVars
<1>1. CASE MarkOverdue
  <2>1. late \in Judged /\ Overdue[late] \in Flags
      BY <1>1 DEF MarkOverdue, HandlerPlaces, Judged, Overdue, Flags
  <2> QED
      BY <1>1, <2>1 DEF MarkOverdue, Judged, Watched
<1>2. CASE UnmarkThere
    BY <1>2 DEF UnmarkThere, HandlerPlaces, Stages
<1>3. CASE MoveStage
  <2>1. BsdCount \in 0..(Tolerate["BSD"] + 1)
      BY CountersInRange, DriverAssumption DEF BsdCount, Watched
  <2>2. silence' \in [Watched -> Nat] /\ \A p \in Watched : silence'[p] <= Tolerate[p] + 1
    <3>1. CASE late = "BST"
      <4>1. silence' = [silence EXCEPT !["BSD"] = BsdCount] /\ silence \in [Watched -> Nat]
          BY <1>3, <3>1 DEF MoveStage, JudgeBsd
      <4>2. \A p \in Watched : silence'[p] = IF p = "BSD" THEN BsdCount ELSE silence[p]
          BY <4>1
      <4> QED
          BY <2>1, <4>1, <4>2, DriverAssumption DEF Watched
    <3>2. CASE late # "BST"
        BY <1>3, <3>2 DEF MoveStage
    <3> QED
        BY <3>1, <3>2
  <2>3. late' \in Watched \cup {"none"} /\ hpc' \in Stages \cup {"out", "mark", "unmark"}
      BY <1>3 DEF MoveStage, JudgeBsd, Watched
  <2> QED
      BY <1>3, <2>2, <2>3 DEF MoveStage
<1> QED
    BY <1>1, <1>2, <1>3

LEMMA NextDTypeOK == DTypeOK /\ Places /\ [DNext]_vars => DTypeOK'
<1> SUFFICES ASSUME DTypeOK, Places, [DNext]_vars PROVE DTypeOK'
    OBVIOUS
<1>1. CASE UNCHANGED vars
    BY <1>1 DEF vars, threadVars, handlerVars, DTypeOK
<1>2. ASSUME Typed', Crossing PROVE DTypeOK'
    BY <1>2, CrossedInRange DEF Typed, DTypeOK
<1>3. DNext => Crossing
    BY DEF DNext, Handler, Thread
<1>4. FallSilent \/ Terminate => Typed'
    BY DEF FallSilent, Terminate, DTypeOK, Typed, Flags, threadVars, handlerVars
<1> QED
    BY <1>1, <1>2, <1>3, <1>4, TypeTick, TypeVerdict, TypeRequest, TypeReceive, TypeContinue
       DEF DNext, Handler, Thread, Places

---------------------------------------------------------------------------
\* The parts about flags, stages and places, which the counters do not concern.
Meaning == Places /\ StagesAreMeant /\ Statistics

LEMMA MeaningRequest == ASSUME DInv, Request PROVE Meaning'
<1> USE DEF DInv, Meaning, Places, ThreadPlaces, HandlerPlaces, StagesAreMeant, Statistics,
            Terminating, Goto, Return, threadVars, handlerVars
<1>1. CASE (\E g \in {"CTS", "CML"} : SendTimeAndLimits(g)) \/ SendCCS
    BY <1>1 DEF SendTimeAndLimits, SendCCS
<1>2. CASE SendCRM \/ SendCRO
    BY <1>2 DEF SendCRM, SendCRO, OrCst, Due
<1>3. CASE SendCST
    BY <1>3 DEF SendCST, gen_packet_PGN6656, AfterCst, Due
<1>4. CASE SendCSD
    BY <1>4 DEF SendCSD, Due
<1> QED
    BY <1>1, <1>2, <1>3, <1>4 DEF Request

LEMMA MeaningReceive == ASSUME DInv, Receive PROVE Meaning'
<1> USE DEF DInv, Meaning, Places, ThreadPlaces, HandlerPlaces, StagesAreMeant, Statistics,
            Terminating, Begin, Goto, handlerVars
<1>1. CASE RecvBRM \/ RecvBRO
    BY <1>1 DEF RecvBRM, RecvBRO, Watched
<1>2. CASE RecvBCP
    BY <1>2 DEF RecvBCP
<1>3. CASE RecvBCL \/ RecvBSD
    BY <1>3 DEF RecvBCL, RecvBSD
<1>4. CASE RecvBCS
    BY <1>4 DEF RecvBCS
<1>5. CASE RecvBST
    BY <1>5 DEF RecvBST, Watched
<1> QED
    BY <1>1, <1>2, <1>3, <1>4, <1>5 DEF Receive

LEMMA MeaningContinue == ASSUME DInv, Continue PROVE Meaning'
<1> USE DEF DInv, Meaning, Places, ThreadPlaces, HandlerPlaces, StagesAreMeant, Statistics,
            Terminating, Goto, Return, handlerVars
<1>1. CASE Mark
  <2>1. flags' \in {flags \cup {"RX_BCL"}, flags \cup {"RX_BSD"}}
      BY <1>1 DEF Mark, There
  <2> QED
      BY <1>1, <2>1 DEF Mark, Watched
<1>2. CASE Heard
  <2>1. UNCHANGED <<stage, flags, late, hpc>>
      BY <1>2 DEF Heard
  <2>2. CASE packet = "BRM"
      BY <1>2, <2>1, <2>2 DEF Heard
  <2>3. CASE packet = "BST" /\ "TX_CST" \in flags
      BY <1>2, <2>1, <2>3 DEF Heard
  <2>4. CASE packet # "BRM" /\ ~(packet = "BST" /\ "TX_CST" \in flags)
    <3>1. packet' = "none" /\ pc' = "idle"
        BY <1>2, <2>4 DEF Heard
    <3> QED
        BY <2>1, <3>1
  <2> QED
      BY <2>2, <2>3, <2>4
<1>3. ASSUME NEW valid \in BOOLEAN, Judge(valid) PROVE Meaning'
    BY <1>3 DEF Judge
<1>4. CASE WriteStage
    BY <1>4 DEF WriteStage, Watched, Stages
<1>5. CASE CallCst
    BY <1>5 DEF CallCst, gen_packet_PGN6656, AfterCst
<1> QED
    BY <1>1, <1>2, <1>3, <1>4, <1>5 DEF Continue

LEMMA MeaningHandler ==
    ASSUME DInv, Tick \/ MarkOverdue \/ UnmarkThere \/ MoveStage
    PROVE  Meaning'
<1> USE DEF DInv, Meaning, Places, ThreadPlaces, HandlerPlaces, StagesAreMeant, Statistics,
            Terminating, Verdict, NoVerdict, threadVars, Stages, Judged
<1>1. CASE Tick
  <2>1. UNCHANGED <<stage, packet, pc>>
      BY <1>1 DEF Tick
  <2>2. CASE TickHandshaking
      BY <2>1, <2>2 DEF TickHandshaking
  <2>3. CASE TickConfigure
      BY <2>1, <2>3 DEF TickConfigure, Marked
  <2>4. CASE TickCharging
      BY <2>1, <2>4 DEF TickCharging
  <2>5. CASE TickDone
      BY <2>1, <2>5 DEF TickDone
  <2>6. CASE TickInvalid
      BY <2>1, <2>6 DEF TickInvalid
  <2> QED
      BY <1>1, <2>2, <2>3, <2>4, <2>5, <2>6 DEF Tick
<1>2. CASE MarkOverdue
    BY <1>2 DEF MarkOverdue, Overdue
<1>3. CASE UnmarkThere
    BY <1>3 DEF UnmarkThere, There
<1>4. CASE MoveStage
    BY <1>4 DEF MoveStage, JudgeBsd
<1> QED
    BY <1>1, <1>2, <1>3, <1>4

---------------------------------------------------------------------------
LEMMA SeenThread == ASSUME DInv, Request \/ Receive \/ Continue, Crossing PROVE CrossingIsSeen'
<1> SUFFICES ASSUME NEW p \in Judged
             PROVE  /\ {There[p], Overdue[p]} \subseteq flags' => p \in crossed' \/ late' = p
                    /\ packet' = p /\ Overdue[p] \in flags' => p \in crossed'
                    /\ packet' = p /\ late' = p => p \in crossed'
                    /\ late' = p /\ There[p] \in flags' /\ (p = "BSD" \/ hpc' \in Stages)
                         => p \in crossed'
    BY DEF CrossingIsSeen
<1> USE DEF DInv, CrossingIsSeen, Crossing, Goto, Return, threadVars, handlerVars
<1>1. CASE Request
  <2>1. UNCHANGED handlerVars /\ packet' \notin Judged
      BY <1>1 DEF Request, SendTimeAndLimits, SendCRM, SendCRO, SendCCS, SendCST, SendCSD, OrCst,
                  gen_packet_PGN6656, AfterCst, Due, ThreadPlaces, Judged
  <2>2. There[p] \in flags' => There[p] \in flags
      BY <1>1 DEF Request, SendTimeAndLimits, SendCRM, SendCRO, SendCCS, SendCST, SendCSD,
                  gen_packet_PGN6656, Judged, There
  <2>3. Overdue[p] \in flags' => Overdue[p] \in flags
      BY <1>1 DEF Request, SendTimeAndLimits, SendCRM, SendCRO, SendCCS, SendCST, SendCSD,
                  gen_packet_PGN6656, Judged, Overdue
  <2>4. packet = "none"
      BY <1>1 DEF Request, SendTimeAndLimits, SendCRM, SendCRO, SendCCS, SendCST, SendCSD,
                  Due, ThreadPlaces
  <2> QED
      BY <2>1, <2>2, <2>3, <2>4 DEF Judged
<1>2. CASE Receive
  <2>1. UNCHANGED handlerVars /\ packet = "none" /\ packet' # "none"
      BY <1>2 DEF Receive, RecvBRM, RecvBCP, RecvBRO, RecvBCL, RecvBCS, RecvBST, RecvBSD, Begin,
                  ThreadPlaces
  <2>2. There[p] \in flags' => There[p] \in flags
      BY <1>2 DEF Receive, RecvBRM, RecvBCP, RecvBRO, RecvBCL, RecvBCS, RecvBST, RecvBSD, Begin,
                  Judged, There
  <2>3. Overdue[p] \in flags' => Overdue[p] \in flags /\ packet' # p
      BY <1>2 DEF Receive, RecvBRM, RecvBCP, RecvBRO, RecvBCL, RecvBCS, RecvBST, RecvBSD, Begin,
                  Judged, Overdue
  <2> QED
      BY <2>1, <2>2, <2>3
<1>3. CASE Continue
  <2>1. UNCHANGED handlerVars /\ packet' \in {packet, "none"}
      BY <1>3 DEF Continue, Mark, Heard, Judge, WriteStage, CallCst, gen_packet_PGN6656, AfterCst,
                  ThreadPlaces
  <2>2. There[p] \in flags' => There[p] \in flags \/ packet = p
      BY <1>3 DEF Continue, Mark, Heard, Judge, WriteStage, CallCst, gen_packet_PGN6656,
                  ThreadPlaces, Judged, There
  <2>3. Overdue[p] \in flags' => Overdue[p] \in flags
      BY <1>3 DEF Continue, Mark, Heard, Judge, WriteStage, CallCst, gen_packet_PGN6656,
                  ThreadPlaces, Judged, Overdue, There
  <2> QED
      BY <2>1, <2>2, <2>3 DEF Judged
<1> QED
    BY <1>1, <1>2, <1>3

LEMMA SeenHandler ==
    ASSUME DInv, Tick \/ MarkOverdue \/ UnmarkThere \/ MoveStage, Crossing
    PROVE  CrossingIsSeen'
<1> SUFFICES ASSUME NEW p \in Judged
             PROVE  /\ {There[p], Overdue[p]} \subseteq flags' => p \in crossed' \/ late' = p
                    /\ packet' = p /\ Overdue[p] \in flags' => p \in crossed'
                    /\ packet' = p /\ late' = p => p \in crossed'
                    /\ late' = p /\ There[p] \in flags' /\ (p = "BSD" \/ hpc' \in Stages)
                         => p \in crossed'
    BY DEF CrossingIsSeen
<1> USE DEF DInv, CrossingIsSeen, Crossing, Verdict, NoVerdict, threadVars
<1>1. UNCHANGED <<packet, pc>>
    BY DEF Tick, MarkOverdue, UnmarkThere, MoveStage
<1>2. p \in crossed => p \in crossed'
    BY <1>1
<1>3. CASE Tick
  <2>1. late = "none"
      BY <1>3 DEF Tick, HandlerPlaces
  <2>2. flags' \cap {There[p], Overdue[p]} = flags \cap {There[p], Overdue[p]}
    <3>1. CASE TickConfigure
        BY <1>3, <3>1 DEF TickConfigure, Marked, Judged, There, Overdue
    <3>2. CASE ~TickConfigure
        BY <1>3, <3>2 DEF Tick, TickHandshaking, TickCharging, TickDone, TickInvalid
    <3> QED
        BY <3>1, <3>2
  <2>3. late' = p => hpc' \notin Stages
      BY <1>3 DEF Tick, TickHandshaking, TickConfigure, TickCharging, TickDone, TickInvalid, Judged, Stages
  <2>4. late' = "BSD" => "RX_BSD" \notin flags'
      BY <1>3 DEF Tick, TickHandshaking, TickConfigure, TickCharging, TickDone, TickInvalid, BsdNoticed
  <2> QED
      BY <1>1, <1>2, <2>1, <2>2, <2>3, <2>4 DEF Judged, There
<1>4. CASE MarkOverdue
  <2>1. flags' = flags \cup {Overdue[late]} /\ late \in Judged
      BY <1>4 DEF MarkOverdue, HandlerPlaces
  <2>2. There[p] \in flags' => There[p] \in flags
      BY <2>1 DEF Judged, There, Overdue
  <2>3. Overdue[p] \in flags' => Overdue[p] \in flags \/ late = p
      BY <2>1 DEF Judged, Overdue
  <2>4. \/ late = "BSD" /\ late' = "none"
        \/ late # "BSD" /\ late' = late /\ hpc' \notin Stages
      BY <1>4 DEF MarkOverdue, Stages
  <2> QED
      BY <1>1, <1>2, <2>1, <2>2, <2>3, <2>4 DEF Judged
<1>5. CASE UnmarkThere
  <2>1. flags' = flags \ {There[late]} /\ late \in {"BRM", "BCL"} /\ late' = late
      BY <1>5 DEF UnmarkThere, HandlerPlaces
  <2>2. There[p] \in flags' => late # p
      BY <2>1 DEF Judged, There
  <2> QED
      BY <1>1, <1>2, <2>1, <2>2
<1>6. CASE MoveStage
  <2>1. hpc \in Stages /\ flags' = flags
      BY <1>6 DEF MoveStage
  <2>2. late' = "none" \/ (late' = "BSD" /\ late = "BST" /\ "RX_BSD" \notin flags /\ hpc' \notin Stages)
      BY <1>6 DEF MoveStage, JudgeBsd, BsdNoticed, Stages
  <2> QED
      BY <1>1, <1>2, <2>1, <2>2 DEF Judged, There
<1> QED
    BY <1>3, <1>4, <1>5, <1>6

LEMMA NextDInv == DInv /\ [DNext]_vars => DInv'
<1> SUFFICES ASSUME DInv, [DNext]_vars PROVE DInv'
    OBVIOUS
<1>1. DTypeOK'
    BY NextDTypeOK DEF DInv, Places
<1>2. Meaning' /\ CrossingIsSeen'
  <2>1. CASE UNCHANGED vars
      BY <2>1 DEF vars, threadVars, handlerVars, DInv, Meaning, Places, ThreadPlaces, HandlerPlaces,
                  CrossingIsSeen, StagesAreMeant, Statistics, Terminating
  <2>2. CASE (FallSilent \/ Terminate) /\ Crossing
    <3>1. UNCHANGED <<stage, packet, pc, late, hpc>> /\ flags \subseteq flags'
          /\ flags' \subseteq flags \cup {"TRM"}
        BY <2>2 DEF FallSilent, Terminate, threadVars, handlerVars
    <3>2. Meaning'
        BY <3>1 DEF DInv, Meaning, Places, ThreadPlaces, HandlerPlaces, StagesAreMeant,
                    Statistics, Terminating
    <3>3. \A p \in Judged : p \in crossed => p \in crossed'
        BY <2>2, <3>1 DEF Crossing
    <3>4. CrossingIsSeen'
        BY <3>1, <3>3 DEF DInv, CrossingIsSeen, Judged, There, Overdue
    <3> QED
        BY <3>2, <3>4
  <2>3. CASE Handler
      BY <2>3, MeaningHandler, SeenHandler DEF Handler
  <2>4. CASE Thread
      BY <2>4, MeaningRequest, MeaningContinue, SeenThread DEF Thread
  <2>5. CASE Receive /\ Crossing
      BY <2>5, MeaningReceive, SeenThread
  <2> QED
      BY <2>1, <2>2, <2>3, <2>4, <2>5 DEF DNext
<1> QED
    BY <1>1, <1>2 DEF DInv, Meaning, Places

---------------------------------------------------------------------------
\* The inductive invariant of the driver, canbms.c, for any table of generators
\* and whatever packets the BMS sends.
THEOREM DriverInvariant == DSpec => []DInv
BY InitDInv, NextDInv, PTL DEF DSpec

\* The marks of a receipt and of its time out are only both set when the receipt
\* and the heart beat handler ran into each other, and until the next receipt.
THEOREM ContradictionNeedsCrossing == DSpec => []ThereAndOverdueOnlyByCrossing
<1>1. DInv => ThereAndOverdueOnlyByCrossing
    BY DEF DInv, CrossingIsSeen, ThereAndOverdueOnlyByCrossing
<1> QED
    BY <1>1, DriverInvariant, PTL

\* CHARGING, DONE and INVALID are only entered when somebody meant them.
THEOREM StagesAreAlwaysMeant == DSpec => []StagesAreMeant
<1>1. DInv => StagesAreMeant
    BY DEF DInv
<1> QED
    BY <1>1, DriverInvariant, PTL
=============================================================================
