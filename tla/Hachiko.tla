------------------------------ MODULE Hachiko ------------------------------
(***************************************************************************)
(* The software timers of lib/lj/Hachiko.c: a pool of slots that point to  *)
(* timers ("food") owned by other threads, and a tick handler that runs    *)
(* asynchronously to those threads (it is a signal handler) and visits the *)
(* slots in order.                                                         *)
(*                                                                         *)
(* Grain of atomicity: a visit of the handler to one slot is two steps.    *)
(* Look samples the status of the timer, Act does what the sampled status  *)
(* asks for; calls of other threads fall before, between and after them.   *)
(* A call of the library is one step.                                      *)
(***************************************************************************)
EXTENDS Naturals, FiniteSets

CONSTANTS
    NR_POOL,   \* slots of the pool (32 in the code)
    Food,      \* the timers (struct Hachiko_food) the program owns
    NULL,      \* an empty slot
    MaxTtl,    \* bound on the ttl a caller asks for
    Callers    \* what the threads do besides new and kill: a subset of
               \* {"pause", "resume", "feed"}

ASSUME PoolAssumption ==
    /\ NR_POOL \in Nat \ {0}
    /\ IsFiniteSet(Food)
    /\ NULL \notin Food
    /\ MaxTtl \in Nat

VARIABLES
    pool,      \* pool[i]: the timer slot i points to, or NULL
    status,    \* food.status
    type,      \* food.type
    ttl,       \* food.ttl
    remain,    \* food.remain
    scan,      \* the slot the handler is at, 0 when no tick is being handled
    seen,      \* the status Look sampled, "none" before Look
    told,      \* the callbacks of the last step: a set of <<timer, event>>
    age        \* history: visits that counted since the timer was loaded

timers == <<status, type, ttl, remain>>
vars == <<pool, status, type, ttl, remain, scan, seen, told, age>>

Slots == 1..NR_POOL
Status == {"INVALID", "NORMAL", "PAUSE", "RESUME", "KILLED"}
Type == {"ONECE", "AUTO_FEED", "AUTO_HOLD"}
Event == {"TIMEOUT", "ROLLING", "DIE", "FEEDED"}

TypeOK ==
    /\ pool \in [Slots -> Food \cup {NULL}]
    /\ status \in [Food -> Status]
    /\ type \in [Food -> Type]
    /\ ttl \in [Food -> 0..MaxTtl]
    /\ remain \in [Food -> 0..MaxTtl]
    /\ scan \in 0..NR_POOL
    /\ seen \in Status \cup {"none"}
    /\ told \in SUBSET (Food \X Event)
    /\ age \in [Food -> Nat]

Init ==
    /\ pool = [i \in Slots |-> NULL]
    /\ status = [f \in Food |-> "INVALID"]
    /\ type = [f \in Food |-> "ONECE"]
    /\ ttl = [f \in Food |-> 0]
    /\ remain = [f \in Food |-> 0]
    /\ scan = 0
    /\ seen = "none"
    /\ told = {}
    /\ age = [f \in Food |-> 0]

\* Mutant: the search stops one slot early.
FreeButLast == {i \in Slots : pool[i] = NULL /\ i < NR_POOL}
Free == {i \in Slots : pool[i] = NULL}
Registered(f) == \E i \in Slots : pool[i] = f

-----------------------------------------------------------------------------
(* Calls of the threads.                                                   *)

\* Hachiko_new: the first empty slot takes the timer; without one the call
\* returns ERR_TIMER_BEMAX and nothing changes.
Hachiko_new(f, ty, t) ==
    /\ \E i \in Free :
          /\ \A j \in Free : i <= j
          /\ pool' = [pool EXCEPT ![i] = f]
    /\ status' = [status EXCEPT ![f] = "NORMAL"]
    /\ type' = [type EXCEPT ![f] = ty]
    /\ ttl' = [ttl EXCEPT ![f] = t]
    /\ remain' = [remain EXCEPT ![f] = t]
    /\ age' = [age EXCEPT ![f] = 0]
    /\ told' = {}
    /\ UNCHANGED <<scan, seen>>

SetStatus(f, s) ==
    /\ status' = [status EXCEPT ![f] = s]
    /\ told' = {}
    /\ UNCHANGED <<pool, type, ttl, remain, scan, seen, age>>

Hachiko_kill(f) == status[f] # "INVALID" /\ SetStatus(f, "KILLED")
Hachiko_pause(f) == SetStatus(f, "PAUSE")
Hachiko_resume(f) == SetStatus(f, "RESUME")

Hachiko_feed(f) ==
    /\ remain' = [remain EXCEPT ![f] = ttl[f]]
    /\ age' = [age EXCEPT ![f] = 0]
    /\ told' = {}
    /\ UNCHANGED <<pool, status, type, ttl, scan, seen>>

-----------------------------------------------------------------------------
(* The tick handler, Hachiko_wangwang.                                     *)

Tick ==
    /\ scan = 0
    /\ scan' = 1
    /\ told' = {}
    /\ UNCHANGED <<pool, timers, seen, age>>

\* Mutant: the loop ends before the last slot.
AdvanceShort ==
    /\ scan' = (scan + 1) % NR_POOL
    /\ seen' = "none"

\* The visit is over: on to the next slot, or out of the handler.
Advance ==
    /\ scan' = (scan + 1) % (NR_POOL + 1)
    /\ seen' = "none"

\* An empty slot, a timer marked INVALID and a paused one are passed over.
Skip ==
    /\ scan # 0 /\ seen = "none"
    /\ pool[scan] # NULL => status[pool[scan]] \in {"INVALID", "PAUSE"}
    /\ Advance
    /\ told' = {}
    /\ UNCHANGED <<pool, timers, age>>

Look ==
    /\ scan # 0 /\ seen = "none"
    /\ pool[scan] # NULL
    /\ status[pool[scan]] \notin {"INVALID", "PAUSE"}
    /\ seen' = status[pool[scan]]
    /\ told' = {}
    /\ UNCHANGED <<pool, timers, scan, age>>

\* Mutant: the slot of a killed timer is not cleared.
BuryLeaksSlot ==
    /\ seen = "KILLED"
    /\ status' = [status EXCEPT ![pool[scan]] = "INVALID"]
    /\ Advance
    /\ told' = {}
    /\ UNCHANGED <<pool, type, ttl, remain, age>>

\* A killed timer leaves the pool.
Bury ==
    /\ seen = "KILLED"
    /\ status' = [status EXCEPT ![pool[scan]] = "INVALID"]
    /\ pool' = [pool EXCEPT ![scan] = NULL]
    /\ Advance
    /\ told' = {}
    /\ UNCHANGED <<type, ttl, remain, age>>

\* Mutant: a resumed timer goes on without being fed.
LeftUnfed(f) == IF remain[f] > 0 THEN remain[f] - 1 ELSE 0

\* What is left of timer f after this visit: a resumed timer is fed first and
\* then counts like any other one.
Left(f) ==
    LET r == IF seen = "RESUME" THEN ttl[f] ELSE remain[f]
    IN  IF r > 0 THEN r - 1 ELSE 0

Counted(f) == IF seen = "RESUME" THEN 1 ELSE age[f] + 1

\* Mutant: every visit writes the status back.
RearmedAlways(f) == "NORMAL"

\* status after a visit that leaves the timer registered.
Rearmed(f) == IF seen = "RESUME" THEN "NORMAL" ELSE status[f]

Roll ==
    LET f == pool[scan] IN
    /\ seen \in {"NORMAL", "RESUME"}
    /\ Left(f) > 0
    /\ remain' = [remain EXCEPT ![f] = Left(f)]
    /\ status' = [status EXCEPT ![f] = Rearmed(f)]
    /\ age' = [age EXCEPT ![f] = Counted(f)]
    /\ told' = {<<f, "ROLLING">>}
    /\ Advance
    /\ UNCHANGED <<pool, type, ttl>>

\* TIMEOUT, then by type: an AUTO_FEED timer is reloaded, an AUTO_HOLD timer
\* stays at zero and fires again on the next tick, a ONECE timer dies.
Fire ==
    LET f == pool[scan] IN
    /\ seen \in {"NORMAL", "RESUME"}
    /\ Left(f) = 0
    /\ \/ /\ type[f] = "AUTO_FEED"
          /\ remain' = [remain EXCEPT ![f] = ttl[f]]
          /\ status' = [status EXCEPT ![f] = Rearmed(f)]
          /\ age' = [age EXCEPT ![f] = 0]
          /\ told' = {<<f, "TIMEOUT">>, <<f, "FEEDED">>}
          /\ UNCHANGED pool
       \/ /\ type[f] = "AUTO_HOLD"
          /\ remain' = [remain EXCEPT ![f] = 0]
          /\ status' = [status EXCEPT ![f] = Rearmed(f)]
          /\ age' = [age EXCEPT ![f] = ttl[f]]
          /\ told' = {<<f, "TIMEOUT">>}
          /\ UNCHANGED pool
       \/ /\ type[f] = "ONECE"
          /\ remain' = [remain EXCEPT ![f] = 0]
          /\ status' = [status EXCEPT ![f] = "INVALID"]
          /\ age' = [age EXCEPT ![f] = ttl[f]]
          /\ told' = {<<f, "TIMEOUT">>, <<f, "DIE">>}
          /\ pool' = [pool EXCEPT ![scan] = NULL]
    /\ Advance
    /\ UNCHANGED <<type, ttl>>

Handler == Tick \/ Skip \/ Look \/ Bury \/ Roll \/ Fire

\* A timer is registered only while its status is INVALID: the one caller,
\* the CAN_INIT event of the BMS drivers, runs once per job on zeroed memory.
Thread ==
    \E f \in Food :
        \/ \E ty \in Type, t \in 0..MaxTtl : status[f] = "INVALID" /\ Hachiko_new(f, ty, t)
        \/ Hachiko_kill(f)
        \/ "pause" \in Callers /\ Hachiko_pause(f)
        \/ "resume" \in Callers /\ Hachiko_resume(f)
        \/ "feed" \in Callers /\ Hachiko_feed(f)

Next == Handler \/ Thread

\* The signal is periodic: a tick always comes and the handler always ends.
Spec == Init /\ [][Next]_vars /\ WF_vars(Handler)
-----------------------------------------------------------------------------
(* Properties.                                                             *)

\* No timer is in two slots (it would count twice per tick), and a timer that
\* is marked INVALID is in none: its owner may free it or register it again.
SlotDiscipline ==
    \A f \in Food :
        /\ \A i, j \in Slots : pool[i] = f /\ pool[j] = f => i = j
        /\ status[f] = "INVALID" => ~Registered(f)

\* With a slot per timer a registration never fails with ERR_TIMER_BEMAX:
\* killed and finished timers give their slots back.
RegistrationSucceeds ==
    \A f \in Food :
        status[f] = "INVALID" /\ NR_POOL >= Cardinality(Food) => Free # {}

\* TIMEOUT comes exactly ttl visits after the timer was loaded, whatever was
\* fed, paused or resumed in between, and on every later tick for AUTO_HOLD.
\* A ttl of 0 fires on the first visit.
OnTime ==
    [][\A f \in Food : <<f, "TIMEOUT">> \in told' =>
        \/ Counted(f) = ttl[f]
        \/ ttl[f] = 0
        \/ type[f] = "AUTO_HOLD" /\ age[f] = ttl[f]]_vars

\* A killed timer leaves the pool (Hachiko.c:35-41), whatever the handler was doing
\* with it when the kill came, unless a thread pauses or resumes it after the kill, or
\* the kill comes while the handler brings a resumed timer back (Hachiko.c:42-44).
BeingResumed(f) == scan # 0 /\ pool[scan] = f /\ seen = "RESUME"

KilledLeaves ==
    \A f \in Food :
        (status[f] = "KILLED" /\ ~BeingResumed(f))
            ~> (~Registered(f) \/ status[f] \in {"PAUSE", "RESUME"})

\* A timer that the threads leave alone from some moment on, whatever they did to
\* it before, fires if it is registered and not paused (again and again, unless it
\* is a ONECE timer that leaves the pool).
Touched(f) ==
    Hachiko_kill(f) \/ Hachiko_pause(f) \/ Hachiko_resume(f) \/ Hachiko_feed(f)
LeftAlone(f) == <>[][~Touched(f)]_vars

TimerFires ==
    \A f \in Food :
        LeftAlone(f) => []<>(\/ ~Registered(f)
                            \/ status[f] = "PAUSE"
                            \/ <<f, "TIMEOUT">> \in told)

\* DOCS/README:247: deleting a timer has the highest priority, a timer that was
\* declared dead is not processed any further. So no step of the handler turns a
\* killed timer into a live one (which it can, between its test for RESUME and
\* its write of NORMAL, once threads call Hachiko_resume).
KilledHasPriority ==
    [][Handler => \A f \in Food :
        status[f] = "KILLED" => status'[f] \in {"KILLED", "INVALID"}]_vars

\* A property that the code does not have for every caller: the handler samples RESUME,
\* the timer is killed, and the handler writes NORMAL over KILLED. The timer stays in
\* the pool for ever and fires, although nobody asked for it after the kill. No caller
\* in the program resumes a timer of the pool: blueprint.c:321, the only call of
\* Hachiko_resume, is about a timer that nothing registers.
KilledAlwaysLeaves ==
    \A f \in Food :
        status[f] = "KILLED" ~> (~Registered(f) \/ status[f] \in {"PAUSE", "RESUME"})
=============================================================================
