---------------------------- MODULE BmsBinding ----------------------------
(***************************************************************************)
(* How a charge job is lent to the BMS thread and taken back.              *)
(*                                                                         *)
(* Three parties share a job without a lock: the charge thread             *)
(* (ontom/charge.c) forks it, binds it to the BMS driver and frees it; the *)
(* BMS thread (lib/bms/father.c) finds it in the driver's binder,          *)
(* initialises it, serves it and lets go of it; the tick handler of        *)
(* Hachiko calls back on the heart beat timer that lives inside the job.   *)
(* A timer of Hachiko is therefore named by the job that contains it. The  *)
(* second timer of a job, can_tp_bomb, is never registered: its status is  *)
(* always INVALID and it is left out.                                      *)
(*                                                                         *)
(* Everything a job does between job_wait and JOB_DETACHING is the status  *)
(* RUNNING here; module ChargeJob has the details.                         *)
(***************************************************************************)
EXTENDS Hachiko

CONSTANT MaxRunning     \* jobs that run at a time: the number of charge groups

\* The heart beat is registered with a ttl of one tick (canbms.c 414).
ASSUME BeatAssumption == MaxTtl >= 1 /\ MaxRunning \in Nat

VARIABLES
    stage,      \* job_status, NONE for memory that is not a job
    mode,       \* charge_mode
    running,    \* the jobs in task->job
    binder,     \* driver->binder[0]: <<reader, writer>>
    generator,  \* the jobs that hold a copy of the packet generators
    rd, wr,     \* bms_read_init_ok and bms_write_init_ok: 0, 0x7F, 0xFF
    held,       \* the job the BMS thread works on (its local thiz), or NULL
    bpc,        \* where the BMS thread is
    cut,        \* the job whose timer the charge thread has just killed, or NULL
    delay       \* job_delay_exit: off, counting the 15 s, over

jobvars == <<stage, mode, running, generator, delay>>
bvars == <<binder, rd, wr, held, bpc>>
allvars == <<vars, jobvars, bvars, cut>>

Job == Food
Live(j) == stage[j] # "NONE"

BTypeOK ==
    /\ TypeOK
    /\ stage \in [Job -> {"NONE", "WAITTING", "RUNNING", "DETACHING", "DIZZY"}]
    /\ mode \in [Job -> {"AUTO", "MANUAL"}]
    /\ running \subseteq Job
    /\ binder \in (Job \cup {NULL}) \X (Job \cup {NULL})
    /\ generator \subseteq Job
    /\ rd \in [Job -> {"0", "7F", "FF"}]
    /\ wr \in [Job -> {"0", "7F", "FF"}]
    /\ held \in Job \cup {NULL}
    /\ bpc \in {"poll", "test", "init", "serve", "release"}
    /\ cut \in Job \cup {NULL}
    /\ delay \in [Job -> {"off", "counting", "over"}]

BInit ==
    /\ Init
    /\ stage = [j \in Job |-> "NONE"]
    /\ mode = [j \in Job |-> "AUTO"]
    /\ running = {}
    /\ binder = <<NULL, NULL>>
    /\ generator = {}
    /\ rd = [j \in Job |-> "0"]
    /\ wr = [j \in Job |-> "0"]
    /\ held = NULL
    /\ bpc = "poll"
    /\ cut = NULL
    /\ delay = [j \in Job |-> "off"]

-----------------------------------------------------------------------------
(* The charge thread.                                                      *)

\* job_fork: malloc and memset. The memory may be that of an earlier job.
job_fork(j, m) ==
    /\ stage[j] = "NONE"
    /\ stage' = [stage EXCEPT ![j] = "WAITTING"]
    /\ mode' = [mode EXCEPT ![j] = m]
    /\ delay' = [delay EXCEPT ![j] = "off"]
    /\ rd' = [rd EXCEPT ![j] = "0"]
    /\ wr' = [wr EXCEPT ![j] = "0"]
    /\ SetStatus(j, "INVALID")
    /\ UNCHANGED <<running, binder, generator, held, bpc, cut>>

job_select(j) ==
    /\ stage[j] = "WAITTING" /\ j \notin running
    /\ Cardinality(running) < MaxRunning
    /\ running' = running \cup {j}
    /\ UNCHANGED <<vars, stage, mode, generator, delay, bvars, cut>>

\* bind_bmsdriver, whose result job_wait ignores: it takes the binder and a copy
\* of the generators, or fails because another job has the binder.
Bind(j) ==
    IF binder = <<NULL, NULL>>
    THEN binder' = <<j, j>> /\ generator' = generator \cup {j}
    ELSE UNCHANGED <<binder, generator>>

\* job_wait: an abort that is pending when the job is selected ends it before the
\* driver is bound; otherwise an automatic job tries to bind.
job_wait(j) ==
    /\ j \in running /\ stage[j] = "WAITTING"
    /\ stage' = [stage EXCEPT ![j] = "RUNNING"]
    /\ \/ UNCHANGED <<binder, generator>>              \* JF_CMD_ABORT, or manual
       \/ mode[j] = "AUTO" /\ Bind(j)
    /\ UNCHANGED <<vars, mode, running, delay, rd, wr, held, bpc, cut>>

job_exit(j) ==
    /\ stage[j] = "RUNNING"
    /\ stage' = [stage EXCEPT ![j] = "DETACHING"]
    /\ UNCHANGED <<vars, mode, running, generator, delay, bvars, cut>>

\* Mutant: the job does not wait for the threads to let go of it.
ReleasedTimerOnly(j) == status[j] = "INVALID"

\* What an automatic job waits for in JOB_DETACHING.
Released(j) == status[j] = "INVALID" /\ rd[j] = "FF" /\ wr[j] = "FF"

\* Mutant: the generators are freed when the 15 seconds start.
DelayExitEarly(j) ==
    \/ /\ delay[j] = "off"
       /\ delay' = [delay EXCEPT ![j] = "counting"]
       /\ generator' = generator \ {j}
       /\ UNCHANGED stage
    \/ /\ delay[j] = "over"
       /\ stage' = [stage EXCEPT ![j] = "DIZZY"]
       /\ UNCHANGED <<delay, generator>>

\* job_delay_exit: the first call starts the 15 seconds, a call after they are
\* over ends the job (and frees the generators of an automatic one).
DelayExit(j) ==
    \/ /\ delay[j] = "off"
       /\ delay' = [delay EXCEPT ![j] = "counting"]
       /\ UNCHANGED <<stage, generator>>
    \/ /\ delay[j] = "over"
       /\ stage' = [stage EXCEPT ![j] = "DIZZY"]
       /\ generator' = generator \ {j}
       /\ UNCHANGED delay

Detach(j) ==
    /\ stage[j] = "DETACHING" /\ cut = NULL
    /\ mode[j] = "MANUAL" \/ Released(j)
    /\ DelayExit(j)
    /\ UNCHANGED <<vars, mode, running, bvars, cut>>

\* Not released yet: Hachiko_kill, and right after it the status is overwritten.
Cut(j) ==
    /\ stage[j] = "DETACHING" /\ cut = NULL
    /\ mode[j] = "AUTO" /\ ~Released(j)
    /\ IF status[j] # "INVALID" THEN Hachiko_kill(j) ELSE UNCHANGED vars
    /\ cut' = j
    /\ UNCHANGED <<jobvars, bvars>>

CutDone ==
    /\ cut # NULL
    /\ SetStatus(cut, "INVALID")
    /\ cut' = NULL
    /\ UNCHANGED <<jobvars, bvars>>

\* The main loop frees a job that is DIZZY.
job_free(j) ==
    /\ stage[j] = "DIZZY"
    /\ stage' = [stage EXCEPT ![j] = "NONE"]
    /\ running' = running \ {j}
    /\ UNCHANGED <<vars, mode, generator, delay, bvars, cut>>

\* The clock. 15 s are longer than one pass of the BMS thread, which waits at
\* most 3 s in select, and than one visit of the tick handler.
Elapse(j) ==
    /\ delay[j] = "counting"
    /\ held # j
    /\ seen # "none" => pool[scan] # j
    /\ delay' = [delay EXCEPT ![j] = "over"]
    /\ UNCHANGED <<vars, stage, mode, running, generator, bvars, cut>>

-----------------------------------------------------------------------------
(* The BMS thread, thread_bms_runtime_service.                             *)

Poll ==
    /\ bpc = "poll"
    /\ binder[1] # NULL
    /\ held' = binder[1]
    /\ bpc' = "test"
    /\ UNCHANGED <<vars, jobvars, binder, rd, wr, cut>>

\* A job in JOB_DETACHING is let go: reader first, then writer.
UnbindReader ==
    /\ bpc = "test"
    /\ stage[held] = "DETACHING"
    /\ rd' = [rd EXCEPT ![held] = "FF"]
    /\ IF status[held] # "INVALID" THEN Hachiko_kill(held) ELSE UNCHANGED vars
    /\ binder' = <<NULL, binder[2]>>
    /\ bpc' = "release"
    /\ UNCHANGED <<jobvars, wr, held, cut>>

\* Mutant: bms_write_init_ok is not given back.
UnbindWriterSilent ==
    /\ bpc = "release"
    /\ binder' = <<binder[1], NULL>>
    /\ held' = NULL
    /\ bpc' = "poll"
    /\ UNCHANGED <<vars, jobvars, rd, wr, cut>>

UnbindWriter ==
    /\ bpc = "release"
    /\ binder' = <<binder[1], NULL>>
    /\ wr' = [wr EXCEPT ![held] = "FF"]
    /\ held' = NULL
    /\ bpc' = "poll"
    /\ UNCHANGED <<vars, jobvars, rd, cut>>

\* Mutant: the job is not marked as initialised.
TestInitUnmarked ==
    /\ bpc = "test"
    /\ stage[held] # "DETACHING"
    /\ bpc' = IF rd[held] = "7F" THEN "serve" ELSE "init"
    /\ UNCHANGED <<vars, jobvars, binder, rd, wr, held, cut>>

TestInit ==
    /\ bpc = "test"
    /\ stage[held] # "DETACHING"
    /\ IF rd[held] = "7F"
       THEN bpc' = "serve" /\ UNCHANGED <<rd, wr>>
       ELSE /\ rd' = [rd EXCEPT ![held] = "7F"]
            /\ wr' = [wr EXCEPT ![held] = "7F"]
            /\ bpc' = "init"
    /\ UNCHANGED <<vars, jobvars, binder, held, cut>>

\* EVENT_CAN_INIT: the driver registers the heart beat, one tick, AUTO_FEED.
CanInit ==
    /\ bpc = "init"
    /\ IF Free # {} THEN Hachiko_new(held, "AUTO_FEED", 1) ELSE UNCHANGED vars
    /\ bpc' = "serve"
    /\ UNCHANGED <<jobvars, binder, rd, wr, held, cut>>

\* A packet is received or sent on behalf of the job, or select times out.
Serve ==
    /\ bpc = "serve"
    /\ held' = NULL
    /\ bpc' = "poll"
    /\ UNCHANGED <<vars, jobvars, binder, rd, wr, cut>>

BmsThread == Poll \/ UnbindReader \/ UnbindWriter \/ TestInit \/ CanInit \/ Serve

Environment ==
    \E j \in Job :
        \/ \E m \in {"AUTO", "MANUAL"} : job_fork(j, m)
        \/ job_exit(j)

ChargeThread ==
    \/ CutDone
    \/ \E j \in Job : job_select(j) \/ job_wait(j) \/ Detach(j) \/ Cut(j) \/ job_free(j)

HandlerTick == Handler /\ UNCHANGED <<jobvars, bvars, cut>>

BNext ==
    \/ Environment \/ ChargeThread \/ BmsThread \/ HandlerTick
    \/ \E j \in Job : Elapse(j)

\* The main loop passes every job in turn, the BMS thread never stops polling and
\* the clock and the tick go on.
BSpec ==
    /\ BInit /\ [][BNext]_allvars
    /\ WF_allvars(BmsThread)
    /\ WF_allvars(HandlerTick)
    /\ WF_allvars(CutDone)
    /\ \A j \in Job :
          /\ WF_allvars(Detach(j) \/ Cut(j))
          /\ WF_allvars(job_free(j))
          /\ WF_allvars(Elapse(j))
-----------------------------------------------------------------------------
(* Properties.                                                             *)

\* Whoever can still reach a job through the binder or its own pointer reaches a
\* live one: the memory is not freed under the BMS thread.
BmsReachesLiveJobs ==
    \A j \in Job : j \in {binder[1], binder[2], held} => stage[j] \notin {"NONE", "DIZZY"}

\* The heart beat calls back only into a live job that still has its generators
\* (the callback walks that array).
CallbackFindsGenerators ==
    [][HandlerTick => \A j \in Job, e \in Event :
        <<j, e>> \in told' => Live(j) /\ j \in generator]_allvars

\* The driver registers the heart beat once per job: on EVENT_CAN_INIT the timer
\* is INVALID, which is what module Hachiko takes for granted of its callers.
InitOnInvalidTimer == [][CanInit => status[held] = "INVALID"]_allvars

\* A job that was bound to the driver and ends is released by the BMS thread and
\* freed, and the driver is there for the next job.
BoundJobLeaves ==
    \A j \in Job : (stage[j] = "DETACHING" /\ j \in generator) ~> stage[j] = "NONE"

-----------------------------------------------------------------------------
(* Properties that the code does not have.                                 *)

\* charge.h:261: JOB_DETACHING waits for the other threads to drop their
\* references. So every job that is detaching is freed in the end, also one that
\* no other thread ever referred to.
DetachingJobLeaves == \A j \in Job : stage[j] = "DETACHING" ~> stage[j] = "NONE"

\* charge.c:1760: an automatic job gives its resources back before it is freed,
\* the heart beat timer first. So no slot of the pool points to freed memory.
PoolPointsToLiveJobs == \A i \in Slots : pool[i] # NULL => Live(pool[i])

=============================================================================
