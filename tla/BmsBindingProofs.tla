-------------------------- MODULE BmsBindingProofs --------------------------
(***************************************************************************)
(* The timers and the jobs they are lent to.                               *)
(*                                                                         *)
(* Hachiko on its own, for every number of slots, timers and ttl: the      *)
(* state is well typed, every timer is in at most one slot and none that   *)
(* is marked INVALID is in the pool, a registration never lacks a slot,    *)
(* and a timer fires when its ttl has been counted down, neither earlier   *)
(* nor later.                                                              *)
(*                                                                         *)
(* The binding, for every number of jobs: the BMS thread never reaches a   *)
(* freed job. The timers play no part in it: the argument is the order in  *)
(* which the two threads hand a job over, binder first, bms_write_init_ok  *)
(* last. From it follows what the heart beat timer may rely on: it is      *)
(* registered once, calls back into a job that has its generators, and     *)
(* stays killed.                                                           *)
(***************************************************************************)
EXTENDS BmsBinding, FiniteSetTheorems, TLAPS

-----------------------------------------------------------------------------
(* The timers on their own.                                                *)

\* The handler holds a sampled status only while it is at an occupied slot, and
\* it never samples the two statuses that are passed over.
VisitInv ==
    seen # "none" =>
        /\ scan \in Slots
        /\ pool[scan] \in Food
        /\ seen \in {"NORMAL", "RESUME", "KILLED"}

WellTyped == TypeOK /\ VisitInv
IInv == WellTyped /\ SlotDiscipline

LEMMA InitIInv == Init => IInv
BY PoolAssumption
   DEF Init, IInv, WellTyped, TypeOK, VisitInv, SlotDiscipline, Slots, Registered, Status, Type

\* What one visit leaves of remain and age stays in range.
LEMMA LeftType ==
    ASSUME TypeOK, NEW f \in Food
    PROVE  Left(f) \in 0..MaxTtl /\ Counted(f) \in Nat
BY PoolAssumption DEF TypeOK, Left, Counted

LEMMA AdvanceType == TypeOK /\ scan \in Slots /\ Advance => scan' \in 0..NR_POOL
BY PoolAssumption DEF TypeOK, Advance, Slots

LEMMA NextTypeOK == WellTyped /\ [Next]_vars => TypeOK'
<1> SUFFICES ASSUME WellTyped, [Next]_vars PROVE TypeOK'
    OBVIOUS
<1> USE PoolAssumption DEF WellTyped, TypeOK, Status, Type, timers
<1>1. ASSUME NEW f \in Food, NEW ty \in Type, NEW t \in 0..MaxTtl, Hachiko_new(f, ty, t)
      PROVE  TypeOK'
    BY <1>1 DEF Hachiko_new, Free
<1>2. ASSUME NEW f \in Food, Hachiko_kill(f) \/ Hachiko_pause(f) \/ Hachiko_resume(f)
      PROVE  TypeOK'
    BY <1>2 DEF Hachiko_kill, Hachiko_pause, Hachiko_resume, SetStatus
<1>3. ASSUME NEW f \in Food, Hachiko_feed(f) PROVE TypeOK'
    BY <1>3 DEF Hachiko_feed
<1>4. CASE Tick
    BY <1>4 DEF Tick
<1>5. CASE Skip
    BY <1>5, AdvanceType DEF Skip, Advance, Slots
<1>6. CASE Look
    BY <1>6 DEF Look, Slots
<1>7. CASE Bury
    BY <1>7, AdvanceType DEF Bury, Advance, VisitInv
<1>8. CASE Roll
  <2> DEFINE f == pool[scan]
  <2>1. f \in Food /\ scan \in Slots
      BY <1>8 DEF Roll, VisitInv
  <2>2. Left(f) \in 0..MaxTtl /\ Counted(f) \in Nat
      BY <2>1, LeftType
  <2>3. <<f, "ROLLING">> \in Food \X Event
      BY <2>1 DEF Event
  <2> QED
      BY <1>8, <2>1, <2>2, <2>3, AdvanceType DEF Roll, Advance, Rearmed
<1>9. CASE Fire
  <2> DEFINE f == pool[scan]
  <2>1. f \in Food /\ scan \in Slots
      BY <1>9 DEF Fire, VisitInv
  <2>2. {<<f, "TIMEOUT">>, <<f, "FEEDED">>, <<f, "DIE">>} \subseteq Food \X Event
      BY <2>1 DEF Event
  <2>3. scan' \in 0..NR_POOL /\ seen' = "none"
      BY <1>9, <2>1, AdvanceType DEF Fire, Advance
  <2>4. Rearmed(f) \in Status
      BY <2>1 DEF Rearmed
  <2> QED
      BY <1>9, <2>1, <2>2, <2>3, <2>4 DEF Fire
<1>10. CASE UNCHANGED vars
    BY <1>10 DEF vars
<1> QED
    BY <1>1, <1>2, <1>3, <1>4, <1>5, <1>6, <1>7, <1>8, <1>9, <1>10
    DEF Next, Handler, Thread

LEMMA NextVisitInv == WellTyped /\ [Next]_vars => VisitInv'
<1> SUFFICES ASSUME WellTyped, [Next]_vars PROVE VisitInv'
    OBVIOUS
<1> USE PoolAssumption DEF WellTyped, TypeOK, VisitInv, timers
<1>1. ASSUME NEW f \in Food, NEW ty \in Type, NEW t \in 0..MaxTtl, Hachiko_new(f, ty, t)
      PROVE  VisitInv'
    BY <1>1 DEF Hachiko_new, Free
<1>2. ASSUME NEW f \in Food, Hachiko_kill(f) \/ Hachiko_pause(f) \/ Hachiko_resume(f)
                             \/ Hachiko_feed(f)
      PROVE  VisitInv'
    BY <1>2 DEF Hachiko_kill, Hachiko_pause, Hachiko_resume, Hachiko_feed, SetStatus
<1>3. CASE Tick
    BY <1>3 DEF Tick, Slots
<1>4. CASE Look
    BY <1>4 DEF Look, Slots, Status
<1>5. CASE Skip \/ Bury \/ Roll \/ Fire
    BY <1>5 DEF Skip, Bury, Roll, Fire, Advance
<1>6. CASE UNCHANGED vars
    BY <1>6 DEF vars
<1> QED
    BY <1>1, <1>2, <1>3, <1>4, <1>5, <1>6 DEF Next, Handler, Thread

\* Only Hachiko_new puts a timer into a slot, and it only takes one that is
\* INVALID, which SlotDiscipline says is in none.
LEMMA NextSlotDiscipline == IInv /\ [Next]_vars => SlotDiscipline'
<1> SUFFICES ASSUME IInv, [Next]_vars PROVE SlotDiscipline'
    OBVIOUS
<1> USE PoolAssumption DEF IInv, WellTyped, TypeOK, SlotDiscipline, Registered, timers
<1>1. ASSUME NEW f \in Food, NEW ty \in Type, NEW t \in 0..MaxTtl,
             status[f] = "INVALID", Hachiko_new(f, ty, t)
      PROVE  SlotDiscipline'
  <2>1. PICK i \in Free : pool' = [pool EXCEPT ![i] = f]
      BY <1>1 DEF Hachiko_new
  <2>2. \A j \in Slots : pool[j] # f
      BY <1>1
  <2> QED
      BY <1>1, <2>1, <2>2 DEF Hachiko_new, Free
<1>2. ASSUME NEW f \in Food, Hachiko_kill(f) \/ Hachiko_pause(f) \/ Hachiko_resume(f)
      PROVE  SlotDiscipline'
    BY <1>2 DEF Hachiko_kill, Hachiko_pause, Hachiko_resume, SetStatus
<1>3. ASSUME NEW f \in Food, Hachiko_feed(f) PROVE SlotDiscipline'
    BY <1>3 DEF Hachiko_feed
<1>4. CASE Tick \/ Skip \/ Look
    BY <1>4 DEF Tick, Skip, Look
<1>5. CASE Bury
    BY <1>5 DEF Bury, VisitInv
<1>6. CASE Roll
    BY <1>6 DEF Roll, Rearmed, VisitInv
<1>7. CASE Fire
    BY <1>7 DEF Fire, Rearmed, VisitInv
<1>8. CASE UNCHANGED vars
    BY <1>8 DEF vars
<1> QED
    BY <1>1, <1>2, <1>3, <1>4, <1>5, <1>6, <1>7, <1>8 DEF Next, Handler, Thread

\* The inductive invariant: types, the handler's position, the slots.
THEOREM Inductive == Spec => []IInv
BY InitIInv, NextTypeOK, NextVisitInv, NextSlotDiscipline, PTL DEF Spec, IInv, WellTyped

\* Every timer is in at most one slot and an INVALID one in none, for every
\* pool size, set of timers and interleaving of the handler with the threads.
THEOREM SlotsAreDisciplined == Spec => []SlotDiscipline
BY Inductive, PTL DEF IInv, WellTyped

\* If no slot were empty, the slots would map injectively into the timers other
\* than the INVALID one, of which there are fewer.
LEMMA SlotLeft == IInv => RegistrationSucceeds
<1> SUFFICES ASSUME IInv, NEW f \in Food, status[f] = "INVALID",
                    NR_POOL >= Cardinality(Food), Free = {}
             PROVE  FALSE
    BY DEF RegistrationSucceeds
<1> DEFINE Others == Food \ {f}
<1>1. IsFiniteSet(Others) /\ Cardinality(Others) = Cardinality(Food) - 1
    BY PoolAssumption, FS_RemoveElement
<1>2. IsFiniteSet(Slots) /\ Cardinality(Slots) = NR_POOL
    BY PoolAssumption, FS_Interval DEF Slots
<1>3. pool \in [Slots -> Others]
    BY DEF IInv, WellTyped, TypeOK, SlotDiscipline, Registered, Free
<1>4. Cardinality(Food) \in Nat
    BY PoolAssumption, FS_CardinalityType
<1>5. \E i, j \in Slots : i # j /\ pool[i] = pool[j]
    BY <1>1, <1>2, <1>3, <1>4, PoolAssumption, FS_PigeonHole
<1> QED
    BY <1>3, <1>5 DEF IInv, WellTyped, SlotDiscipline

\* A registration finds an empty slot whenever the pool has one per timer: no
\* sequence of new, kill, pause, resume and ticks leaks a slot.
THEOREM RegistrationNeverFails == Spec => []RegistrationSucceeds
BY Inductive, SlotLeft, PTL

-----------------------------------------------------------------------------
\* What was counted and what is left add up to the ttl, and a timer in the pool
\* that has run down stays there only if it is AUTO_HOLD (or has no ttl).
CountInv ==
    /\ \A f \in Food : age[f] + remain[f] = ttl[f]
    /\ \A f \in Food : Registered(f) /\ remain[f] = 0 => ttl[f] = 0 \/ type[f] = "AUTO_HOLD"

LEMMA InitCountInv == Init => CountInv
BY PoolAssumption DEF Init, CountInv, Registered

\* One visit counts by one, from the ttl if the timer was resumed.
LEMMA VisitCounts ==
    ASSUME TypeOK, CountInv, NEW f \in Food
    PROVE  /\ Left(f) \in Nat /\ ttl[f] \in Nat /\ age[f] \in Nat
           /\ Left(f) > 0 => Counted(f) + Left(f) = ttl[f]
           /\ Left(f) = 0 => Counted(f) = ttl[f] \/ ttl[f] = 0 \/ (remain[f] = 0 /\ age[f] = ttl[f])
<1>1. /\ ttl[f] \in Nat /\ age[f] \in Nat /\ remain[f] \in Nat /\ age[f] + remain[f] = ttl[f]
    BY PoolAssumption DEF TypeOK, CountInv
<1> QED
    BY <1>1 DEF Left, Counted

LEMMA NextCountInv == IInv /\ CountInv /\ [Next]_vars => CountInv'
<1> SUFFICES ASSUME IInv, CountInv, [Next]_vars PROVE CountInv'
    OBVIOUS
<1> USE PoolAssumption DEF IInv, WellTyped, TypeOK, timers
<1>1. ASSUME NEW f \in Food, NEW ty \in Type, NEW t \in 0..MaxTtl, Hachiko_new(f, ty, t)
      PROVE  CountInv'
  <2>1. PICK i \in Free : pool' = [pool EXCEPT ![i] = f]
      BY <1>1 DEF Hachiko_new
  <2>2. \A g \in Food : g # f => (Registered(g)' => Registered(g))
      BY <2>1 DEF Free, Registered
  <2>3. /\ remain' = [remain EXCEPT ![f] = t] /\ ttl' = [ttl EXCEPT ![f] = t]
        /\ age' = [age EXCEPT ![f] = 0] /\ type' = [type EXCEPT ![f] = ty]
      BY <1>1 DEF Hachiko_new
  <2> QED
      BY <2>2, <2>3 DEF CountInv
<1>2. ASSUME NEW f \in Food, Hachiko_kill(f) \/ Hachiko_pause(f) \/ Hachiko_resume(f)
      PROVE  CountInv'
    BY <1>2 DEF CountInv, Registered, Hachiko_kill, Hachiko_pause, Hachiko_resume, SetStatus
<1>3. ASSUME NEW f \in Food, Hachiko_feed(f) PROVE CountInv'
    BY <1>3 DEF CountInv, Registered, Hachiko_feed
<1>4. CASE Tick \/ Skip \/ Look
    BY <1>4 DEF CountInv, Registered, Tick, Skip, Look
<1>5. CASE Bury
    BY <1>5 DEF CountInv, Registered, Bury, VisitInv
<1>6. CASE Roll
  <2> DEFINE f == pool[scan]
  <2>1. f \in Food
      BY <1>6 DEF Roll, VisitInv
  <2>2. Left(f) \in Nat /\ Left(f) > 0 /\ Counted(f) + Left(f) = ttl[f]
      BY <1>6, <2>1, VisitCounts DEF Roll
  <2>3. /\ remain' = [remain EXCEPT ![f] = Left(f)] /\ age' = [age EXCEPT ![f] = Counted(f)]
        /\ UNCHANGED <<pool, type, ttl>>
      BY <1>6 DEF Roll
  <2> HIDE DEF f
  <2> QED
      BY <2>1, <2>2, <2>3 DEF CountInv, Registered
<1>7. CASE Fire
  <2> PICK f \in Food : f = pool[scan]
      BY <1>7 DEF Fire, VisitInv
  <2>1. scan \in Slots /\ ttl[f] \in Nat /\ UNCHANGED <<type, ttl>>
      BY <1>7, VisitCounts DEF Fire, VisitInv
  <2>2. CASE /\ remain' = [remain EXCEPT ![f] = ttl[f]] /\ age' = [age EXCEPT ![f] = 0]
             /\ UNCHANGED pool
      BY <2>1, <2>2 DEF CountInv, Registered
  <2>3. CASE /\ remain' = [remain EXCEPT ![f] = 0] /\ age' = [age EXCEPT ![f] = ttl[f]]
             /\ type[f] = "AUTO_HOLD" /\ UNCHANGED pool
      BY <2>1, <2>3 DEF CountInv, Registered
  <2>4. CASE /\ remain' = [remain EXCEPT ![f] = 0] /\ age' = [age EXCEPT ![f] = ttl[f]]
             /\ pool' = [pool EXCEPT ![scan] = NULL]
    <3>1. \A j \in Slots : pool[j] = f => j = scan
        BY <2>1 DEF SlotDiscipline
    <3>2. ~Registered(f)' /\ \A g \in Food : Registered(g)' => Registered(g)
        BY <2>1, <2>4, <3>1 DEF Registered
    <3> QED
        BY <2>1, <2>4, <3>2 DEF CountInv
  <2> QED
      BY <1>7, <2>2, <2>3, <2>4 DEF Fire
<1>8. CASE UNCHANGED vars
    BY <1>8 DEF vars, CountInv, Registered
<1> QED
    BY <1>1, <1>2, <1>3, <1>4, <1>5, <1>6, <1>7, <1>8 DEF Next, Handler, Thread

\* Whatever was fed, paused or resumed in between, TIMEOUT comes at the visit that
\* counts the last tick of the ttl.
THEOREM TimersFireOnTime == Spec => OnTime
<1>1. ASSUME IInv, CountInv, Handler, NEW f \in Food, <<f, "TIMEOUT">> \in told'
      PROVE  \/ Counted(f) = ttl[f]
             \/ ttl[f] = 0
             \/ type[f] = "AUTO_HOLD" /\ age[f] = ttl[f]
  <2>1. Left(f) = 0 /\ f = pool[scan] /\ scan \in Slots
      BY <1>1 DEF IInv, WellTyped, VisitInv, Handler, Tick, Skip, Look, Bury, Roll, Fire
  <2>2. Registered(f)
      BY <2>1 DEF Registered
  <2> QED
      BY <1>1, <2>1, <2>2, VisitCounts DEF IInv, WellTyped, CountInv
<1>2. ASSUME NEW f \in Food, Thread PROVE <<f, "TIMEOUT">> \notin told'
    BY <1>2 DEF Thread, Hachiko_new, Hachiko_kill, Hachiko_pause, Hachiko_resume, Hachiko_feed,
                SetStatus
<1>3. IInv /\ CountInv /\ [Next]_vars
        => [\A f \in Food : <<f, "TIMEOUT">> \in told' =>
              \/ Counted(f) = ttl[f]
              \/ ttl[f] = 0
              \/ type[f] = "AUTO_HOLD" /\ age[f] = ttl[f]]_vars
    BY <1>1, <1>2 DEF Next
<1> QED
    BY <1>3, Inductive, InitCountInv, NextCountInv, PTL DEF Spec, OnTime

-----------------------------------------------------------------------------
(* The hand-over of a job.                                                 *)

\* The jobs the BMS thread can reach.
Reach(j) == j = binder[1] \/ j = binder[2] \/ j = held

\* Where the BMS thread is says what the binder holds.
PositionInv ==
    /\ bpc = "poll" => held = NULL /\ binder[1] = binder[2]
    /\ bpc \in {"test", "init", "serve"} => held \in Job /\ binder = <<held, held>>
    /\ bpc = "release" => /\ held \in Job /\ binder = <<NULL, held>>
                          /\ stage[held] = "DETACHING"

\* A job that can be reached is automatic, in the middle of its life, and has not
\* been told that the writer let go of it; so it has not started to leave.
ReachInv ==
    \A j \in Job :
        /\ Reach(j) => /\ stage[j] \in {"RUNNING", "DETACHING"}
                       /\ mode[j] = "AUTO"
                       /\ wr[j] # "FF"
        /\ wr[j] = "FF" => stage[j] \in {"DETACHING", "DIZZY", "NONE"}
        /\ stage[j] \in {"DETACHING", "DIZZY"} /\ mode[j] = "AUTO" /\ delay[j] # "off"
              => wr[j] = "FF"
        /\ stage[j] \in {"WAITTING", "RUNNING"} => delay[j] = "off"

\* The part of the type invariant the argument needs.
ShapeInv ==
    /\ stage \in [Job -> {"NONE", "WAITTING", "RUNNING", "DETACHING", "DIZZY"}]
    /\ mode \in [Job -> {"AUTO", "MANUAL"}]
    /\ binder \in (Job \cup {NULL}) \X (Job \cup {NULL})
    /\ wr \in [Job -> {"0", "7F", "FF"}]
    /\ held \in Job \cup {NULL}
    /\ bpc \in {"poll", "test", "init", "serve", "release"}
    /\ delay \in [Job -> {"off", "counting", "over"}]

HandOver == ShapeInv /\ PositionInv /\ ReachInv

LEMMA InitHandOver == BInit => HandOver
BY PoolAssumption
   DEF BInit, HandOver, ShapeInv, PositionInv, ReachInv, Reach, Job

LEMMA ChargeHandOver ==
    ASSUME HandOver, ChargeThread \/ Environment \/ \E j \in Job : Elapse(j)
    PROVE  HandOver'
<1> USE PoolAssumption DEF HandOver, ShapeInv, PositionInv, ReachInv, Reach, Job,
                           jobvars, bvars
<1>1. ASSUME NEW j \in Job, NEW m \in {"AUTO", "MANUAL"}, job_fork(j, m)
      PROVE  HandOver'
    BY <1>1 DEF job_fork
<1>2. ASSUME NEW j \in Job, job_select(j) \/ job_free(j) PROVE HandOver'
    BY <1>2 DEF job_select, job_free
<1>3. ASSUME NEW j \in Job, job_wait(j) PROVE HandOver'
  <2>1. stage[j] = "WAITTING" /\ stage' = [stage EXCEPT ![j] = "RUNNING"]
      BY <1>3 DEF job_wait
  <2>2. UNCHANGED <<mode, delay, wr, held, bpc>>
      BY <1>3 DEF job_wait
  <2>3. ~Reach(j) /\ wr[j] # "FF"
      BY <2>1
  <2>4. CASE binder' = binder
      BY <2>1, <2>2, <2>3, <2>4
  <2>5. CASE mode[j] = "AUTO" /\ binder = <<NULL, NULL>> /\ binder' = <<j, j>>
      BY <2>1, <2>2, <2>3, <2>5
  <2> QED
      BY <1>3, <2>4, <2>5 DEF job_wait, Bind
<1>4. ASSUME NEW j \in Job, job_exit(j) PROVE HandOver'
    BY <1>4 DEF job_exit
<1>5. ASSUME NEW j \in Job, Detach(j) PROVE HandOver'
  <2>1. UNCHANGED <<mode, binder, wr, held, bpc>>
      BY <1>5 DEF Detach
  <2>2. stage[j] = "DETACHING" /\ (mode[j] = "MANUAL" \/ wr[j] = "FF")
      BY <1>5 DEF Detach, Released
  <2>3. CASE delay[j] = "off" /\ delay' = [delay EXCEPT ![j] = "counting"]
             /\ UNCHANGED stage
      BY <2>1, <2>2, <2>3
  <2>4. CASE delay[j] = "over" /\ stage' = [stage EXCEPT ![j] = "DIZZY"]
             /\ UNCHANGED delay
      BY <2>1, <2>2, <2>4
  <2> QED
      BY <1>5, <2>3, <2>4 DEF Detach, DelayExit
<1>6. ASSUME NEW j \in Job, Cut(j) PROVE HandOver'
    BY <1>6 DEF Cut
<1>7. CASE CutDone
    BY <1>7 DEF CutDone
<1>8. ASSUME NEW j \in Job, Elapse(j) PROVE HandOver'
    BY <1>8 DEF Elapse
<1> QED
    BY <1>1, <1>2, <1>3, <1>4, <1>5, <1>6, <1>7, <1>8 DEF ChargeThread, Environment

LEMMA BmsHandOver ==
    ASSUME HandOver, BmsThread
    PROVE  HandOver'
<1> USE PoolAssumption DEF HandOver, ShapeInv, PositionInv, ReachInv, Reach, Job,
                           jobvars, bvars
<1>1. CASE Poll
    BY <1>1 DEF Poll
<1>2. CASE UnbindReader
    BY <1>2 DEF UnbindReader
<1>3. CASE UnbindWriter
    BY <1>3 DEF UnbindWriter
<1>4. CASE TestInit
    BY <1>4 DEF TestInit
<1>5. CASE CanInit
    BY <1>5 DEF CanInit
<1>6. CASE Serve
    BY <1>6 DEF Serve
<1> QED
    BY <1>1, <1>2, <1>3, <1>4, <1>5, <1>6 DEF BmsThread

LEMMA NextHandOver == HandOver /\ [BNext]_allvars => HandOver'
<1> SUFFICES ASSUME HandOver, [BNext]_allvars PROVE HandOver'
    OBVIOUS
<1>1. CASE HandlerTick \/ UNCHANGED allvars
    BY <1>1 DEF HandlerTick, allvars, jobvars, bvars, HandOver, ShapeInv, PositionInv,
                ReachInv, Reach
<1> QED
    BY <1>1, ChargeHandOver, BmsHandOver DEF BNext

\* The order of the hand-over is an invariant of the three threads.
THEOREM HandOverInvariant == BSpec => []HandOver
BY InitHandOver, NextHandOver, PTL DEF BSpec

\* The memory of a job is never freed while the BMS thread can still reach it.
THEOREM JobsOutliveTheBmsThread == BSpec => []BmsReachesLiveJobs
<1>1. HandOver => BmsReachesLiveJobs
    BY DEF HandOver, ReachInv, Reach, BmsReachesLiveJobs
<1> QED
    BY <1>1, HandOverInvariant, PTL

-----------------------------------------------------------------------------
(* The heart beat timer.                                                   *)

\* The part of the type invariant the argument needs.
TimerShape ==
    /\ pool \in [Slots -> Food \cup {NULL}]
    /\ scan \in 0..NR_POOL
    /\ status \in [Food -> Status]
    /\ rd \in [Job -> {"0", "7F", "FF"}]

\* A job that a timer may call back.
Callable(j) == j \in generator /\ stage[j] \in {"RUNNING", "DETACHING"}

\* Only a job that is bound has a timer that is not INVALID, and it is INVALID
\* again before the 15 seconds of the job start.
TimerInv ==
    \A j \in Job :
        /\ status[j] # "RESUME"
        /\ status[j] # "INVALID" =>
              Callable(j) /\ mode[j] = "AUTO" /\ delay[j] = "off" /\ rd[j] # "0"
        /\ stage[j] = "WAITTING" => rd[j] = "0"
        /\ j = binder[1] => j \in generator /\ rd[j] # "FF"
        /\ bpc = "init" /\ j = held => status[j] = "INVALID" /\ rd[j] = "7F"

\* A visit that has begun ends within those seconds.
VisitLent ==
    seen # "none" =>
        /\ scan \in Slots /\ pool[scan] \in Job /\ seen # "RESUME"
        /\ Callable(pool[scan]) /\ delay[pool[scan]] # "over"

Lent == TimerShape /\ TimerInv /\ VisitLent

LEMMA InitLent == BInit => Lent
BY PoolAssumption
   DEF BInit, Init, Lent, TimerShape, TimerInv, VisitLent, Job, Slots, Status

LEMMA ChargeLent ==
    ASSUME HandOver, Lent, ChargeThread \/ Environment \/ \E j \in Job : Elapse(j)
    PROVE  Lent'
<1> USE PoolAssumption DEF HandOver, ShapeInv, ReachInv, Reach, Lent, TimerShape, TimerInv,
                           VisitLent, Callable, Job, jobvars, bvars, vars, timers
<1>1. ASSUME NEW j \in Job, NEW m \in {"AUTO", "MANUAL"}, job_fork(j, m)
      PROVE  Lent'
    BY <1>1 DEF job_fork, SetStatus, Status, PositionInv
<1>2. ASSUME NEW j \in Job, job_select(j) \/ job_free(j) PROVE Lent'
    BY <1>2 DEF job_select, job_free
<1>3. ASSUME NEW j \in Job, job_wait(j) PROVE Lent'
    BY <1>3 DEF job_wait, Bind
<1>4. ASSUME NEW j \in Job, job_exit(j) PROVE Lent'
    BY <1>4 DEF job_exit
<1>5. ASSUME NEW j \in Job, Detach(j) PROVE Lent'
    BY <1>5 DEF Detach, DelayExit, Released
<1>6. ASSUME NEW j \in Job, Cut(j) PROVE Lent'
    BY <1>6 DEF Cut, Hachiko_kill, SetStatus, Status
<1>7. CASE CutDone
  <2>1. status' = [status EXCEPT ![cut] = "INVALID"]
      BY <1>7 DEF CutDone, SetStatus
  <2>2. UNCHANGED <<pool, scan, seen, jobvars, bvars>>
      BY <1>7 DEF CutDone, SetStatus
  <2>3. status' \in [Food -> Status] /\ \A j \in Job : status'[j] \in {status[j], "INVALID"}
      BY <2>1 DEF Status
  <2>4. TimerShape' /\ VisitLent'
      BY <2>2, <2>3
  <2>5. TimerInv'
      BY <2>2, <2>3
  <2> QED
      BY <2>4, <2>5
<1>8. ASSUME NEW j \in Job, Elapse(j) PROVE Lent'
    BY <1>8 DEF Elapse
<1> QED
    BY <1>1, <1>2, <1>3, <1>4, <1>5, <1>6, <1>7, <1>8 DEF ChargeThread, Environment

LEMMA BmsLent ==
    ASSUME HandOver, Lent, BmsThread
    PROVE  Lent'
<1> USE PoolAssumption DEF HandOver, ShapeInv, PositionInv, ReachInv, Reach, Lent, TimerShape,
                           TimerInv, VisitLent, Callable, Job, jobvars, bvars, vars, timers
<1>1. CASE Poll
    BY <1>1 DEF Poll
<1>2. CASE UnbindReader
    BY <1>2 DEF UnbindReader, Hachiko_kill, SetStatus, Status
<1>3. CASE UnbindWriter
    BY <1>3 DEF UnbindWriter
<1>4. CASE TestInit
    BY <1>4 DEF TestInit
<1>5. CASE CanInit
  <2>1. CASE UNCHANGED vars
      BY <1>5, <2>1 DEF CanInit
  <2>2. CASE Hachiko_new(held, "AUTO_FEED", 1)
    <3>1. PICK i \in Free : pool' = [pool EXCEPT ![i] = held]
        BY <2>2 DEF Hachiko_new
    <3>2. held \in Job /\ bpc' = "serve" /\ UNCHANGED <<jobvars, binder, rd, wr, held, cut>>
        BY <1>5 DEF CanInit
    <3>3. status' = [status EXCEPT ![held] = "NORMAL"] /\ UNCHANGED <<scan, seen>>
        BY <2>2 DEF Hachiko_new
    <3>4. TimerShape'
        BY <3>1, <3>2, <3>3 DEF Free, Status
    <3>5. Callable(held) /\ mode[held] = "AUTO" /\ delay[held] = "off" /\ rd[held] # "0"
        BY <1>5 DEF CanInit
    <3>6. TimerInv'
        BY <3>2, <3>3, <3>5
    <3>7. VisitLent'
        BY <3>1, <3>2, <3>3 DEF Free
    <3> QED
        BY <3>4, <3>6, <3>7
  <2> QED
      BY <1>5, <2>1, <2>2 DEF CanInit
<1>6. CASE Serve
    BY <1>6 DEF Serve
<1> QED
    BY <1>1, <1>2, <1>3, <1>4, <1>5, <1>6 DEF BmsThread

LEMMA HandlerLent ==
    ASSUME Lent, HandlerTick
    PROVE  Lent'
<1> USE PoolAssumption DEF Lent, TimerShape, TimerInv, VisitLent, Callable, Job, jobvars, bvars,
                           HandlerTick, Slots, Advance, timers
<1>1. CASE Tick
    BY <1>1 DEF Tick
<1>2. CASE Skip
    BY <1>2 DEF Skip
<1>3. CASE Look
    BY <1>3 DEF Look
<1>4. CASE Bury
    BY <1>4 DEF Bury, Status
<1>5. CASE Roll
    BY <1>5 DEF Roll, Rearmed, Status
<1>6. CASE Fire
  <2>1. status' = status \/ status' = [status EXCEPT ![pool[scan]] = "INVALID"]
      BY <1>6 DEF Fire, Rearmed
  <2>2. pool' = pool \/ pool' = [pool EXCEPT ![scan] = NULL]
      BY <1>6 DEF Fire
  <2>3. seen' = "none" /\ scan' \in 0..NR_POOL /\ UNCHANGED <<jobvars, bvars, cut>>
      BY <1>6 DEF Fire
  <2> QED
      BY <2>1, <2>2, <2>3 DEF Status
<1> QED
    BY <1>1, <1>2, <1>3, <1>4, <1>5, <1>6 DEF Handler

LEMMA NextLent == HandOver /\ Lent /\ [BNext]_allvars => Lent'
<1> SUFFICES ASSUME HandOver, Lent, [BNext]_allvars PROVE Lent'
    OBVIOUS
<1>1. CASE UNCHANGED allvars
    BY <1>1 DEF allvars, vars, timers, jobvars, bvars, Lent, TimerShape, TimerInv, VisitLent,
                Callable
<1> QED
    BY <1>1, ChargeLent, BmsLent, HandlerLent DEF BNext

\* What a timer that is not INVALID, and a visit of the handler, say of their job.
THEOREM TimersAreLent == BSpec => []Lent
BY InitLent, NextLent, HandOverInvariant, PTL DEF BSpec

\* EVENT_CAN_INIT always finds a timer that is INVALID, in fresh memory and in
\* memory that an earlier job has used.
THEOREM TimersAreRegisteredOnce == BSpec => InitOnInvalidTimer
<1>1. HandOver /\ Lent /\ [BNext]_allvars
        => [CanInit => status[held] = "INVALID"]_allvars
    BY DEF HandOver, PositionInv, Lent, TimerInv, CanInit
<1> QED
    BY <1>1, HandOverInvariant, TimersAreLent, PTL DEF BSpec, InitOnInvalidTimer

\* The heart beat only calls back into a live job that has its generators.
THEOREM CallbacksAreSafe == BSpec => CallbackFindsGenerators
<1>1. ASSUME Lent, HandlerTick, NEW j \in Job, NEW e \in Event, <<j, e>> \in told'
      PROVE  Live(j) /\ j \in generator
  <2>1. seen # "none" /\ j = pool[scan]
      BY <1>1 DEF HandlerTick, Handler, Tick, Skip, Look, Bury, Roll, Fire
  <2> QED
      BY <1>1, <2>1 DEF Lent, VisitLent, Callable, Live
<1>2. Lent /\ [BNext]_allvars
        => [HandlerTick => \A j \in Job, e \in Event :
              <<j, e>> \in told' => Live(j) /\ j \in generator]_allvars
    BY <1>1
<1> QED
    BY <1>2, TimersAreLent, PTL DEF BSpec, CallbackFindsGenerators

\* The handler does not bring a killed timer back, since nobody resumes one.
THEOREM KilledTimersStayKilled == BSpec => KilledHasPriority
<1>1. ASSUME Lent, Handler, NEW f \in Food, status[f] = "KILLED"
      PROVE  status'[f] \in {"KILLED", "INVALID"}
    BY <1>1 DEF Lent, TimerShape, VisitLent, Handler, Tick, Skip, Look, Bury, Roll, Fire, Rearmed,
                timers
<1>2. Lent /\ [BNext]_allvars
        => [Handler => \A f \in Food :
              status[f] = "KILLED" => status'[f] \in {"KILLED", "INVALID"}]_vars
    BY <1>1
<1> QED
    BY <1>2, TimersAreLent, PTL DEF BSpec, KilledHasPriority

-----------------------------------------------------------------------------
(* The types, of the jobs and of the timers in them.                       *)

\* What HandOver and Lent do not say of the types.
Owned == running \subseteq Job /\ generator \subseteq Job /\ cut \in Job \cup {NULL}

LEMMA NextOwned == Owned /\ [BNext]_allvars => Owned'
<1> SUFFICES ASSUME Owned, [BNext]_allvars PROVE Owned'
    OBVIOUS
<1> USE DEF Owned, jobvars, bvars
<1>1. CASE Environment
    BY <1>1 DEF Environment, job_fork, job_exit
<1>2. CASE ChargeThread
    BY <1>2 DEF ChargeThread, CutDone, job_select, job_wait, Bind, Detach, DelayExit, Cut, job_free
<1>3. CASE BmsThread
    BY <1>3 DEF BmsThread, Poll, UnbindReader, UnbindWriter, TestInit, CanInit, Serve
<1>4. CASE HandlerTick \/ (\E j \in Job : Elapse(j)) \/ UNCHANGED allvars
    BY <1>4 DEF HandlerTick, Elapse, allvars
<1> QED
    BY <1>1, <1>2, <1>3, <1>4 DEF BNext

\* To the timers the binding is a caller that keeps to the rules of Hachiko (it
\* registers the heart beat only when it is INVALID), except that it also writes
\* INVALID into timers: in fresh memory, and after a kill (charge.c 1787).
LEMMA StepOfTheTimers ==
    HandOver /\ Lent /\ Owned /\ [BNext]_allvars
        => [Next]_vars \/ \E f \in Food : SetStatus(f, "INVALID")
<1> SUFFICES ASSUME HandOver, Lent, Owned, BNext, ~UNCHANGED vars
             PROVE  Next \/ \E f \in Food : SetStatus(f, "INVALID")
    BY DEF allvars
<1> USE DEF Job
<1>1. CASE HandlerTick
    BY <1>1 DEF HandlerTick, Next
<1>2. CASE UnbindReader
  <2>1. held \in Food /\ Hachiko_kill(held)
      BY <1>2 DEF UnbindReader, HandOver, PositionInv
  <2> QED
      BY <2>1 DEF Next, Thread
<1>3. CASE CanInit
  <2>1. Hachiko_new(held, "AUTO_FEED", 1) /\ held \in Food /\ status[held] = "INVALID"
      BY <1>3 DEF CanInit, HandOver, PositionInv, Lent, TimerInv
  <2>2. "AUTO_FEED" \in Type /\ 1 \in 0..MaxTtl
      BY PoolAssumption, BeatAssumption DEF Type
  <2> QED
      BY <2>1, <2>2 DEF Next, Thread
<1>4. ASSUME NEW j \in Job, Cut(j) PROVE Next
  <2>1. Hachiko_kill(j)
      BY <1>4 DEF Cut
  <2> QED
      BY <2>1 DEF Next, Thread
<1>5. ASSUME NEW j \in Job, NEW m \in {"AUTO", "MANUAL"}, job_fork(j, m)
      PROVE  SetStatus(j, "INVALID")
    BY <1>5 DEF job_fork
<1>6. CASE CutDone
  <2>1. cut \in Food /\ SetStatus(cut, "INVALID")
      BY <1>6 DEF CutDone, Owned
  <2> QED
      BY <2>1
<1>7. ASSUME NEW j \in Job,
             job_select(j) \/ job_wait(j) \/ job_exit(j) \/ Detach(j) \/ job_free(j) \/ Elapse(j)
      PROVE  UNCHANGED vars
    BY <1>7 DEF job_select, job_wait, job_exit, Detach, job_free, Elapse
<1>8. ASSUME Poll \/ UnbindWriter \/ TestInit \/ Serve PROVE UNCHANGED vars
    BY <1>8 DEF Poll, UnbindWriter, TestInit, Serve
<1> QED
    BY <1>1, <1>2, <1>3, <1>4, <1>5, <1>6, <1>7, <1>8 DEF BNext, Environment, ChargeThread, BmsThread

LEMMA NextWellTyped ==
    HandOver /\ Lent /\ Owned /\ WellTyped /\ [BNext]_allvars => WellTyped'
<1>1. ASSUME WellTyped, NEW f \in Food, SetStatus(f, "INVALID") PROVE WellTyped'
    BY <1>1 DEF WellTyped, TypeOK, VisitInv, SetStatus, Status
<1> QED
    BY <1>1, StepOfTheTimers, NextTypeOK, NextVisitInv DEF WellTyped

\* The types, of the timers too, though the binding overwrites the status of timers
\* that are in the pool and the handler looks at them in between.
THEOREM BindingTypes == BSpec => []BTypeOK
<1>1. BInit => Owned /\ WellTyped
    BY InitIInv DEF BInit, Owned, IInv
<1>2. HandOver /\ Lent /\ Owned /\ WellTyped => BTypeOK
    BY DEF HandOver, ShapeInv, Lent, TimerShape, Owned, WellTyped, BTypeOK
<1> QED
    BY <1>1, <1>2, NextOwned, NextWellTyped, HandOverInvariant, TimersAreLent, PTL DEF BSpec
=============================================================================
