-------------------------- MODULE ContactorProofs --------------------------
(***************************************************************************)
(* However often another thread brings an old byte of commands back, the   *)
(* two contactors are never closed at once.                                *)
(***************************************************************************)
EXTENDS Contactor, FiniteSetTheorems, TLAPS

(* The commands and everything that has been read from them concern the    *)
(* gun of the job, and between two jobs there are none: JOB_DETACHING is   *)
(* left only when no other thread holds anything that it has read before.  *)
OnlyThisGun ==
  /\ cmd \cap Gun \subseteq {gun}
  /\ old.byte \cap Gun \subseteq {gun}
  /\ box.out \subseteq {gun}
  /\ ~old.reading => old.byte = {}
  /\ box.at = "idle" => box.out = {}
  /\ stage = "NONE" => cmd \cap Gun = {} /\ old.byte \cap Gun = {} /\ box.out = {}

OneClosed == \E g \in Gun : closed \subseteq {g}

XInv == XTypeOK /\ OnlyThisGun /\ OneClosed

---------------------------------------------------------------------------
(* A byte without outputs of guns, and one with the output of one gun.     *)
LEMMA OffOutputs ==
  ASSUME NEW c \in SUBSET Command
  PROVE  /\ GunsOff(c) \in SUBSET Command /\ GunsOff(c) \cap Gun = {}
         /\ Off(c) \in SUBSET Command /\ Off(c) \cap Gun = {}
  BY DEF GunsOff, Off, Command

LEMMA OnOutputs ==
  ASSUME NEW c \in SUBSET Command, NEW g \in Gun
  PROVE  On(c, g) \in SUBSET Command /\ On(c, g) \cap Gun \subseteq {g}
  BY DEF On, GunsOff, Command, Gun, DC

LEMMA FirstIsAGun ==
  ASSUME NEW guns PROVE First(guns) \in Gun \cup {None}
  BY DEF First, Gun, None

---------------------------------------------------------------------------
LEMMA InitXInv == XInit => XInv
<1> SUFFICES ASSUME XInit PROVE XInv
  OBVIOUS
<1>1. XTypeOK
  BY ContactorAssumption DEF XInit, XTypeOK, Nobody, Idle, Gun, None
<1>2. OnlyThisGun /\ OneClosed
  BY DEF XInit, OnlyThisGun, OneClosed, Nobody, Gun
<1> QED BY <1>1, <1>2 DEF XInv

LEMMA ChargeThreadXInv == XInv /\ (Select \/ ChargeThread) => XInv'
<1> SUFFICES ASSUME XInv, Select \/ ChargeThread PROVE XInv'
  OBVIOUS
<1> USE DEF XInv, XTypeOK, OnlyThisGun, OneClosed, Rest, env, Pass
<1>1. CASE Select
  BY <1>1, OffOutputs DEF Select
<1>2. CASE StandBy
  BY <1>2, OffOutputs DEF StandBy
<1>3. CASE Work
  BY <1>3, OffOutputs DEF Work
<1>4. CASE WorkOutput
  <2>1. CASE plugged /\ cmd' = On(cmd, gun) /\ stage' \in {"WORKING", "DONE"}
    BY <1>4, <2>1, OnOutputs DEF WorkOutput
  <2>2. CASE ~plugged /\ cmd' = (cmd \cup {DC}) \ {gun} /\ stage' = "PAUSE"
    <3>1. cmd' \in SUBSET Command /\ cmd' \cap Gun \subseteq {gun}
      BY <2>2 DEF Command, Gun, DC
    <3> QED BY <1>4, <2>2, <3>1 DEF WorkOutput
  <2> QED BY <1>4, <2>1, <2>2 DEF WorkOutput
<1>5. CASE Pause
  BY <1>5, OffOutputs DEF Pause
<1>6. CASE Done
  BY <1>6, OffOutputs DEF Done
<1>7. CASE Exit
  <2>1. XTypeOK'
    BY <1>7, OffOutputs DEF Exit
  <2>2. OnlyThisGun' /\ OneClosed'
    BY <1>7, OffOutputs DEF Exit
  <2> QED BY <2>1, <2>2
<1>8. CASE ExitUnmark
  BY <1>8 DEF ExitUnmark
<1>9. CASE ExitVoltage
  BY <1>9 DEF ExitVoltage
<1>10. CASE Detach
  <2>1. XTypeOK'
    BY <1>10, OffOutputs DEF Detach
  <2>2. OnlyThisGun' /\ OneClosed'
    BY <1>10, OffOutputs DEF Detach
  <2> QED BY <2>1, <2>2
<1> QED
  BY <1>1, <1>2, <1>3, <1>4, <1>5, <1>6, <1>7, <1>8, <1>9, <1>10 DEF ChargeThread

LEMMA BusesXInv == XInv /\ Buses => XInv'
<1> SUFFICES ASSUME XInv, Buses PROVE XInv'
  OBVIOUS
<1> USE DEF XInv, XTypeOK, OnlyThisGun, OneClosed, Serial, job, env
<1>1. CASE Measure
  BY <1>1 DEF Measure, None
<1>2. CASE Judge
  <2>1. poll' \in [at : {"idle", "judge", "mark"}, low : BOOLEAN, mark : Gun \cup {None}]
    <3>1. poll' = Idle \/ poll' = [poll EXCEPT !.at = "mark", !.mark = First(charge)]
      BY <1>2 DEF Judge
    <3>2. First(charge) \in Gun \cup {None}
      BY FirstIsAGun
    <3>3. CASE poll' = Idle
      BY <3>3 DEF Idle
    <3>4. CASE poll' = [poll EXCEPT !.at = "mark", !.mark = First(charge)]
      BY <3>2, <3>4
    <3> QED BY <3>1, <3>3, <3>4
  <2>3. XTypeOK'
    BY <1>2, <2>1 DEF Judge
  <2>2. OnlyThisGun' /\ OneClosed'
    BY <1>2 DEF Judge
  <2> QED BY <2>2, <2>3
<1>3. CASE Mark
  BY <1>3 DEF Mark, Marked, Idle, None
<1>4. CASE BoxFirst
  <2>1. XTypeOK'
    BY <1>4 DEF BoxFirst, Asked, Gun
  <2>2. OnlyThisGun' /\ OneClosed'
    BY <1>4 DEF BoxFirst, Asked, Gun
  <2> QED BY <2>1, <2>2
<1>5. CASE BoxSecond
  <2>1. XTypeOK'
    BY <1>5 DEF BoxSecond, Asked, Gun
  <2>2. OnlyThisGun' /\ OneClosed'
    BY <1>5 DEF BoxSecond, Asked, Gun
  <2> QED BY <2>1, <2>2
<1> QED
  BY <1>1, <1>2, <1>3, <1>4, <1>5 DEF Buses

LEMMA OthersXInv == XInv /\ (Load \/ Store \/ Environment) => XInv'
<1> SUFFICES ASSUME XInv, Load \/ Store \/ Environment PROVE XInv'
  OBVIOUS
<1> USE DEF XInv, XTypeOK, OnlyThisGun, OneClosed, job, flags
<1>1. CASE Load
  BY <1>1, ContactorAssumption DEF Load, env
<1>2. CASE Store
  <2>1. cmd' \in SUBSET Command /\ cmd' \cap Gun = old.byte \cap Gun
    BY <1>2 DEF Store, Command, Gun, MODULE_ON
  <2>2. old' = Nobody /\ Nobody \in [reading : BOOLEAN, byte : SUBSET Command] /\ Nobody.byte = {}
    BY <1>2 DEF Store, Nobody
  <2> QED BY <1>2, <2>1, <2>2 DEF Store, env
<1>3. CASE Environment
  <2>1. allow' \in BOOLEAN /\ plugged' \in BOOLEAN
    BY <1>3, Zenon DEF Environment
  <2> QED BY <1>3, <2>1 DEF Environment
<1> QED BY <1>1, <1>2, <1>3

(* The types of the variables and the gun that everything is about, for    *)
(* any number of writes of other threads.                                  *)
THEOREM ContactorInvariant == XSpec => []XInv
<1>1. XInv /\ [XNext]_xvars => XInv'
  <2> SUFFICES ASSUME XInv, [XNext]_xvars PROVE XInv'
    OBVIOUS
  <2>1. CASE XNext
    BY <2>1, ChargeThreadXInv, BusesXInv, OthersXInv DEF XNext
  <2>2. CASE UNCHANGED xvars
    BY <2>2 DEF xvars, job, flags, env, XInv, XTypeOK, OnlyThisGun, OneClosed
  <2> QED BY <2>1, <2>2
<1> QED BY InitXInv, <1>1, PTL DEF XSpec

(* Two batteries are never connected to one bus bar (blueprint.c 1733-1746 *)
(* and charge.c 1410-1735), for any number of writes of other threads.     *)
THEOREM ContactorsExclude == XSpec => []OneContactor
<1>1. XInv => OneContactor
  <2> SUFFICES ASSUME XInv PROVE OneContactor
    OBVIOUS
  <2>1. PICK g \in Gun : closed \subseteq {g}
    BY DEF XInv, OneClosed
  <2>2. closed = {} \/ closed = {g}
    BY <2>1
  <2> QED BY <2>2, FS_EmptySet, FS_Singleton DEF OneContactor
<1> QED BY ContactorInvariant, <1>1, PTL
=============================================================================
