# Verification of the charging station controller (ontom / zeus)

The repository is the controller of a DC charging station: one process, `zeus`
(`ontom/`, `lib/`, `bmsdriver/`, `pandora/`), that takes charging jobs from a web
interface, talks to the vehicle's battery management system (BMS) over CAN, to the
chargers, the measuring box, the meter and the card reader over RS-485, and to a back
end over TCP. This directory holds TLA+ models of its core, TLC runs on small
instances, and TLAPS proofs. `PROJECT.json` lists the components, the runs, for every
definition the lines it stands for, the hazards of the code, and the theorems.

To check a run: `tlc -config MCChargeJob.cfg MCChargeJob.tla`. To check the proofs of a
module: `tlapm ChargeJobProofs.tla`.

## The system

| part | source | state | operations |
|---|---|---|---|
| timers (Hachiko) | `lib/lj/Hachiko.c` | a pool of pointers to timers; status, type, ttl, remain of each | new, kill, pause, resume, feed; the handler of a signal every tick |
| BMS thread | `lib/bms/father.c` | each driver's binder of (reader, writer), the job it works on | finds bound jobs, initialises them, reads and writes CAN frames, lets go of jobs that end |
| BMS driver | `bmsdriver/*/canbms.c` | packet generators, charge stage, time outs of a job | init, packets in, packets out, heart beat on a Hachiko timer |
| charge thread | `ontom/charge.c` | commit list, waiting list, `task->job`, the jobs | main loop every 50 ms: fork, run, select; `job_running` is the state machine of a job |
| web interface | `ontom/ajax.c` | none of its own | create, abort, query jobs |
| serial thread | `ontom/blueprint.c` | the devices and their frames; flags of guns, faults, switches | polls the devices, carries out `CMD_x`, reports `F_x` and `S_x` |
| back end | `pandora/` | sessions and message queues | reports, asks for bills, starts (through the web interface) and stops jobs |
| errors | `ontom/charge.c`, `ajax.c`, `tom.c` | flags, a list of current errors, the table `errors` | begin, recover, clean, restart |
| configuration, log, plugins, UI | `lib/lj`, `plugins`, `browser` | settings | sequential or output only |

The parts share `task` and the jobs as plain memory. The lists have mutexes; the flags
(bit arrays), the fields of a job and the binder have none. So the hard behaviour is:
who may still use a job that is ending; what happens between two reads of the same
flag; the order in which abort, fault, end of fault, termination by the BMS, answers
of the back end and time outs reach a job; and the bookkeeping (energy, count of
waiting jobs, slots of timers) over long sequences of these.

What makes each part correct:
* timers: a slot belongs to one timer and comes back, a timer fires when due, a killed one leaves;
* binding: nobody works on a job that was freed, and every bound job is let go;
* charge job: no gun is energised except its own charging job's, faults open the
  outputs, nothing stays on, energy is billed at most once, every job ends;
* queue: no request is lost, done twice or out of order, and the limit holds;
* CAN transport: the driver gets whole packets and the BMS is not told otherwise;
* BMS driver: a packet is there or overdue, not both (but for a receipt and the heart beat
  that run into each other), a stage is entered for a reason, silence ends the charge, an
  ended exchange comes to its end;
* serial bus: every device has its turn, a silent one is reported and taken back;
* outputs: two contactors are never closed together, the one that is asked for closes
  and the one that is not opens;
* errors: flags, list and table agree, over cleaning and restarts;
* back end: one answer for one request, sessions survive reconnection (not modelled).

## Modules

**`Hachiko`** - the timer pool. `Hachiko_new`, `Hachiko_kill`, `Hachiko_pause`,
`Hachiko_resume` and `Hachiko_feed` are the library's calls; the handler of the tick is
split into the steps between which a call of another thread can come: `Tick` starts a
scan, `Look` samples a status, `Bury` takes out a killed timer, `Roll` counts,
`Fire` calls back. Every slot of the pool is visited; `Skip` passes one that is empty or
INVALID. `BeingResumed` names the window in which a kill is undone: the handler has sampled
RESUME and is about to write NORMAL (Hachiko.c 42-44).

**`BmsBinding`** (EXTENDS `Hachiko`) - the hand over of a job between the charge
thread, the BMS thread and the heart beat timer. A timer is named by the job it lives in,
and job memory is used again by later jobs, because `malloc` does. `job_fork`,
`job_wait`, `job_exit`, `Detach`, `Cut`/`CutDone`, `DelayExit` and `job_free` are the
charge thread; `Poll`, `UnbindReader`, `UnbindWriter`, `TestInit`, `CanInit` and
`Serve` are the BMS thread.

**`ChargeJob`** - one job from selection to `free`. A call of `job_running` is two
steps, `Protect` (the faults, `F_SYSTEM_CHARGE_ALLOW`) and one action per stage
(`Wait`, `StandbyX`, `WorkingX`, `ErrPause`, `Resuming`, `Aborting`, `Done`, `Exitting`,
`Detaching`, `Freed`), since other threads go on in between. Around it: the measuring box
(`Measure`), the energy that flows (`Flow`), the clock in steps of 5 s (`Tick`), the BMS
(`BmsPacket`, `BmsRelease`), aborts (`WebAbort`, for the web interface and the back end's
stop command) and bills (`AskBill`, `AnswerBill`). `bms` abstracts `BmsBinding`: a bound
job is let go of some time after JOB_DETACHING, which is what `BoundJobLeaves` says
there. JOB_DIZZY is folded into `Freed`: the main loop frees such a job in the same
round. **`Session`** is what a charge is to the one who asked for it: ready, charging, paused,
ended, with energy for its own gun between one beginning and one end, not in a pause, and a
record that starts from zero, is at most what was given and is final at the end. `ChargeJob`
implements it with `phase` mapped to the stage (`Phase`), `live` to the output commands,
`recorded` to `charged_kwh + section_kwh` and `drawn` to what flowed.

**`JobQueue`** - from the web request to `task->job`. The web thread is one thread
(mongoose polls in a single loop). It reads `wait_job_nr` (`Ask`), looks for the id in
three places (`job_exsit`) and appends (`job_commit`). The main loop takes the head of
the commit list (`job_select_commit`, which drops the rest), makes a job
(`job_fork`), runs (`job_running`), selects (`job_select_wait`) and places (`Place`). After
the first request of a round the loop works on memory it has freed: `Stale` forks or
drops the request, `Restart` is the crash after which `hellhound.sh` starts the process
again. A heap block that another thread got in the meantime is covered by the crash only.
**`Station`** is what those who ask for a charge may rely on, without lists: an accepted
request is pending until it starts or is lost, starts at most once, on its own gun, while
no job runs and before every younger one of its gun. `JobQueue` implements it with
`pending` mapped to the commit list, the request in the main loop's hands and the waiting
list together (`Pending`), `running` to `task->job` and `last` to `serial`, the number of
accepted requests.

**`CanTp`** - messages of more than eight bytes: the charger's half of SAE J1939-21 in the
loop of father.c (`ReadRTS`, `ReadData`, `NewJob`), with tp_buff as the packet each frame
came from, so that a buffer of frames of two packets is a `Mixture`. The vehicle
(`SendRTS`, `SendData`, `HearReply`, `Retry`, `GiveUp`) does what the standard asks; frames
and replies get lost (`Put`) but stay in order. **`TpChannel`** is what the driver may rely
on: it gets the packet that is being sent, whole, and in the end. `CanTp` implements it
under the identity on `offered` and `got`.

**`BmsDriver`** - one exchange of GB/T 27930-2011: `Request` is EVENT_TX_REQUEST (one
action per generator that may be due), `Receive` EVENT_RX_DONE (one action per packet),
`Tick` the heart beat (one action per stage), `Terminate` what the charge thread does to it.
The heart beat is a signal handler, which may run on any thread and between any two
statements. So a receipt is a step per statement that other code reads: `Receive` is the
first one, `Continue` (`Mark`, `Heard`, `Judge`, `WriteStage`) the others. `Tick` counts and
judges, `MarkOverdue`, `UnmarkThere` and `MoveStage` write the verdict down. `pc` and `hpc` are
the next statements of the two. A request decides in one step and writes the stage in another.
The history variable `crossed` holds the packets whose last receipt was under way together with
a verdict about them. `Vehicles` says which packets each kind of BMS sends; they come late or
not at all as `FallSilent` and the absence of fairness for `Receive` allow. Left out: the
contents of packets beyond valid or not, packets that only feed the web interface, and CEM,
whose generator father.c:376 never fills in.

**`Uart`** - one serial bus. `Send`, `SendFails`, `NothingToAsk` and `Skip` are the four
outcomes of a turn, `Frame`, `CheckError` and `Timeout` those of an answer; `line` is the
device and its cable. `waited` is a history variable. What is particular to a device is
left out, except that a handler may ask for the next turn (`Talkative`) or have nothing to
send (`Reserved`).

**`Contactor`** - the flags through which charge thread, charger's bus and box's bus close
the contactor of a gun. A pass of the charge thread is split where another thread may see
the difference (`Work`/`WorkOutput`, `Exit`/`ExitUnmark`/`ExitVoltage`), the charger's
handler into `Measure`, `Judge` and `Mark`, the box's into one step per gun, and a write of
a neighbouring flag (CMD_MODULE_ON) into `Load` and `Store`. The 15 s of `job_delay_exit`
are the one assumption about time: no thread holds what it read for as long.

**`ErrorHistory`** - flags, list and table of faults. The charge thread goes through the
flags one by one (`Known`, `error_history_begin`/`Insert`, `error_history_recover`); the web
thread cleans the table in three steps, of which only the last takes the lock; `Crash` is
the end of the process and the start of the next, with what tom.c does to the table.
`Columns` tells the table that the INSERTs expect (five) from the shipped one (six), which
refuses every INSERT (`Unstored`). Any other statement may be refused too (a full disk, a file
that is locked), which the code only logs: `error_history_recover` and `Crash` with `done` FALSE,
and each row of `Insert` and `Restore` by itself. A DELETE that is refused ends the request and
changes nothing. The history variable `refused` holds the faults of which a statement was
refused. The SELECT of the start is taken to succeed. `table` is a set: two rows that differ in
nothing are one, and the UPDATE, which finds rows by flag and time, would touch both.
**`Journal`** is what a reader of the history may rely on: a fault begins, ends once, and its
end is written down with how it ended; an end may be missing only when it came during a
cleaning, when the data base refused a statement about this very fault, or, for the youngest
fault alone, when the process died before the INSERT. `ErrorHistory` implements it with `open`
mapped to the list without its numbers (`Current`), `closed` to the rows that are not open
(`Closings`), `cleaning` to the web thread's being in between and `refused` to itself. Numbers are
not part of it: two open rows of one fault, which a cleaning can leave, are one open fault.

How the models fit together: `BmsBinding` extends `Hachiko`; `CanTp`
implements `TpChannel`, `JobQueue` `Station`, `ChargeJob` `Session` and `ErrorHistory` `Journal`;
`ChargeJob` takes from `BmsBinding` that a bound job is let go (`BoundJobLeaves`), from
`Contactor` that an output asked for is one that is closed (`WorkingIsConnected`,
`StoppedIsOpened`) and from `BmsDriver` the flags of termination; `Contactor` takes its
stages from `ChargeJob` and its fairness from `Uart` (`NobodyStarves`); the one job at a
time of all three is `OneJobPerGroup` of `JobQueue` (`OneGunIsServed`).

The modules describe a station with one group of chargers and two guns: with two groups
`thread_charge_task_service` dereferences devices that it allocates for one group only
(charge.c 699, 774), and with other numbers of guns no job is ever selected (876-915).

MC modules hold the model values and the symmetry sets; each configuration is a run.
`*Proofs` modules hold the theorems.

## Runs

| run | instance | shows |
|---|---|---|
| `timers` | 2 timers, 2 slots, ttl up to 2, all calls | `SlotDiscipline`, `RegistrationSucceeds`, `OnTime`, `KilledLeaves`, `TimerFires` |
| `binding` | 2 blocks of job memory, 2 slots, 1 running job | `BmsReachesLiveJobs`, `CallbackFindsGenerators`, `InitOnInvalidTimer`, `BoundJobLeaves`, `KilledHasPriority` |
| `job` | 2 guns, faults of the station, both supplies wired, limit 2 | `EnergisedSafely`, `FaultOpensOutputs`, `NothingLeftOn`, `NeverOverbilled`, `BillingGetsItsTime`, `ImplementsSession` |
| `job_live` | 1 gun, its own faults, one supply, both billing plans, limit 1 | `AbortingJobLeaves`, `TerminationHonoured` |
| `queue` | 4 ids, 2 guns, limit 1, 5 accepted requests | `NeverUndercounted`, `WaitIsBounded`, `FirstComeFirstServed`, `ImplementsStation` |
| `queue_lost` | 3 accepted requests | violated: `NoRequestIsLost` |
| `cantp` | packets of 3, 2, 1, 2 frames in two groups, 3 losses, 1 ended job | `AcknowledgedIsDelivered`, `ImplementsChannel` |
| `bms` | periods of 1 and 2 ticks, tolerances of 1 and 2, six kinds of vehicle | `ThereAndOverdueOnlyByCrossing`, `StagesAreMeant`, `FirstSilenceIsNoticed`, `TerminationCompletes` |
| `uart` | up to 3 users, died_line 2 and 1 | `NobodyStarves`, `SilentIsReported`, `AnsweringIsTakenBack` |
| `output` | 2 guns, 1 write of a neighbouring flag | `OneContactor`, `StoppedIsOpened`, `WorkingIsConnected` |
| `errors` | 2 faults and the group's, 2 raised, 1 cleaning, 1 crash, 1 refused statement | `OpenRowsAreListed`, `ListedIsRecorded`, `NumbersAreDistinct`, `EndIsFinal`, `FlagIsRecorded`, `ImplementsJournal` |
| `errors_schema` | the shipped table, 2 cleanings, nothing else refused | violated: `FaultsAreInTheTable` |

Each module of a component has one type invariant. No run spends its time on it: all are
proved, alone (`BindingTypes`, `ErrorTypes`, `UartTypes`) or as part of an inductive invariant.
The runs `queue`, `job` and `errors` check the refinements as properties, on the same instances
as the invariants. `OneJobPerGroup` is a theorem and follows from `ImplementsStation` too, whose
jobs start only when none runs, so that no run lists it.

### Where the code and its own words part

Each of these is a run that TLC ends with a counterexample; `PROJECT.json` quotes the
line that says otherwise.

1. A second request in the same round of the main loop is lost (`charge.c:2183`).
2. The table `errors` has a column more than the INSERTs have values, so no fault is ever
   stored (`charge.c:2331`, `ajax.c:712`, `config/ontom.sql:31`).

### Further behaviour of the code

Some formulas stand in the modules under "properties that the code does not have". No run
lists them; replacing the properties of the run named here by one of them gives a
counterexample:

* `KilledAlwaysLeaves` (`timers`): a kill that comes while the handler brings a resumed timer back
  is overwritten with NORMAL (`Hachiko.c:42-44`), and the timer stays and fires. `DOCS/README:247`
  says that a killed timer is taken out; no part of the program resumes a timer of the pool
  (`blueprint.c:321`, the only call, is about one that nothing registers).
* `DetachingJobLeaves` (`binding`): an automatic job aborted before it was bound stays in
  JOB_DETACHING for ever, and its gun with it (`charge.c:1771`).
* `PoolPointsToLiveJobs` (`binding`): the timer of a freed job may stay in the pool
  (`charge.c:1787`).
* `AbortIsObeyed` (`job_live`): an abort that meets the end of a fault is lost
  (`charge.c:1639`).
* `BillNeverShrinks` (`job`): energy of the section before a pause is not billed
  (`charge.c:1459`).
* `NobodyLeavesUnbilled` (`job`): a job may be over before its bill was asked for
  (`P_BJNR.c:735`).
* `NeverThereAndOverdue` (`bms`): a heart beat between two statements of a receipt still finds the
  silence of before the packet and sets its time out, then the receipt marks the packet as there
  (`canbms.c:909-914`, `752-815`, `1132-1139`).
* `SilentBmsIsNoticed` (`bms`): BCL_TIMEOUT of a first loss is only cleared by a BCL, so that a
  second loss without one in between goes unnoticed (`canbms.c:699`).

And behaviour that the models have and that no formula singles out: a resumed timer counts
in the tick that resumes it, unlike the loop printed in `DOCS/README:238` (`Left` in
`Hachiko`); a handshake that comes when the auxiliary supply has just been cut sends the
job to work without one (`Chosen`, `StandbyPlugged`); a late bill marks the next job as
billed (`AnswerBill`); the count of waiting jobs stays too high when a job is taken from
behind the head (`Remaining`); a request that the main loop holds is not found by
`job_exsit`, so that a repeated one makes a second job with the same id (`LookIn`); a mark
of the voltage that is set again after the job has cleared it is there when the next job
starts, whose contactor may close before its voltage was compared (`Mark`, `ExitVoltage`);
a device whose frames all have wrong check sums is never reported (`CheckError`).

### Bounds

* Hachiko: two timers compete for two slots; with ttl 0, 1 and 2 every branch of the
  countdown is taken. The handler treats slots one by one, so a third adds nothing but
  its own visit; `BmsBindingProofs` covers any number.
* BmsBinding: with two blocks of memory one job detaches while the next one waits in
  other memory, or starts in the same memory. One job runs at a time.
* ChargeJob: one job runs at a time on one of two guns, the other one only matters as the
  gun that must stay off. Limit 2 lets a limit be met in one section or over two; `MaxGiven`
  bounds the energy that flows. `Hopeless` (30 s) and `Patience` (15 s) bound the clock of a
  stage: beyond them the code does the same for ever.
* JobQueue: with a limit of one waiting job, five accepted requests reach the overshoot
  of `WaitIsBounded` and queues of three for two guns. `MaxCommits` bounds the requests;
  when it is reached and the queue is empty the model may stop, so deadlock is not
  checked there.
* CanTp: two packets of one group number that differ in length, one of one frame and one of
  another group are all that `Pgn` and `Packs` tell apart; `MaxLost` 3 loses a frame, its
  repetition and a reply, `MaxJobs` 1 ends a job anywhere. The bounds are constants of the
  theorems, which hold for all of them.
* BmsDriver: counters stop one tick beyond the tolerance, which no test tells from more.
  The periods keep the order of those in the data base, not their ratios. A vehicle of
  `MCVehicles` sends two or three kinds of packets, all that act on the same stage or follow
  each other; one that sends all seven makes more than 12 million states. The theorems hold
  for any vehicles, periods and tolerances.
* Uart: three users are the fewest with a user between two that ask again; the bound of five
  repetitions is the code's own. `died` stops at died_line.
* Contactor: `MaxWrites` bounds the writes by other threads; each holds what it read as long
  as it wants, up to the end of the job. The proof has any number.
* ErrorHistory: one fault of the station, one module and their group are the kinds of fault
  that the code tells apart; one cleaning falls between any two steps of the charge thread,
  with one crash open rows of the earlier process meet those of the later, and any one
  statement is refused (`MaxRefused`). With two cleanings the same properties hold, in more
  time than a run should take; the theorems have any number of each. Rows name the
  time they began: `clock` counts errors, since two passes of the loop are 50 ms apart and
  a time stamp is in ms.

### Fairness

* Hachiko: the handler goes on (the interval timer of the kernel delivers its signal).
* BmsBinding: the handler, the BMS thread and the charge thread go on: each is a loop
  around a bounded sleep. Nothing is assumed of the vehicle or the user.
* ChargeJob: the two halves of `job_running`, the clock, and `BmsRelease`, which
  `BoundJobLeaves` shows. Nothing is assumed of the web interface, the back end, the BMS
  or the measuring box.
* CanTp: the charger reads what is in its queue, the vehicle goes on sending and gives a
  packet up that fails over and over (the standard's limit of retries; the last packet, which
  stands for one that the BMS sends periodically, it does not give up).
* BmsDriver: the timer goes on, and so does the thread, which finishes a receipt it has begun.
  CML and CRO have strong fairness: they are due every 250 ms or more while the thread passes
  every 5 ms, so that one that is due again and again is sent. Nothing is assumed of the BMS.
* Uart: the thread goes on (its reads have a time out), and the port takes a request of each
  user again and again. Nothing is assumed of the devices.
* Contactor: the charge thread and both buses go on, which `NobodyStarves` of `Uart` shows for
  a bus; a thread that has read a byte writes it.
* ErrorHistory: the charge thread goes on, and the web thread finishes a request it has begun;
  its wait for the lock has strong fairness, as the charge thread holds it for a moment in each
  pass. Devices, users and crashes are not relied on.

## Proofs

Constants are arbitrary within the named assumptions of each module, so that a theorem
holds for every number of timers, jobs, requests, losses, users or writes.

* `BmsBindingProofs`, about `Hachiko` - `SlotsAreDisciplined` and `RegistrationNeverFails` from
  `IInv`: types, `VisitInv` and `SlotDiscipline`. `VisitInv` says what the handler knows
  of the slot it is at; without it `Bury` could empty a slot of a live timer. The second
  theorem is a counting argument: with no more timers than slots, a timer that is in no
  slot leaves one free. `TimersFireOnTime` (`OnTime`) rests on `CountInv`: the ticks counted
  and those that remain add up to the ttl, whatever is fed, paused or resumed in between.
* `BmsBindingProofs`, about `BmsBinding` - `JobsOutliveTheBmsThread` from `HandOver`: a job that
  the binder or the BMS thread holds is running or detaching, and one whose marks are both 0xFF
  is in neither. `Lent` does the same for the heart beat timer: only a bound job has one that is
  not INVALID (`TimerInv`), and a visit of the handler ends before its job can be freed
  (`VisitLent`). `CallbacksAreSafe`, `TimersAreRegisteredOnce` and `KilledTimersStayKilled`
  follow from it. `BindingTypes` uses the proofs about `Hachiko` again: by `StepOfTheTimers`
  a step of the binding is a step of the timers or writes INVALID into one, which the types
  and `VisitInv` survive. `BmsBinding` does not implement `Hachiko`: `CutDone` overwrites KILLED
  with INVALID while the timer is in the pool (charge.c 1787), a step no call of the library
  makes, after which a timer that is INVALID has a slot and `SlotDiscipline` does not hold.
  `BeatAssumption` only says that the bound on ttl covers the heart beat's ttl of one.
* `ChargeJobProofs` - `CInv` is `CTypeOK` and three parts: `Electric` (what each stage
  leaves switched on), `Metering` (what is recorded and what is still on the meter adds up
  to at most what flowed) and `BillInv` (the time stamp of JOB_DONE). `Electric` gives
  `EnergisedSafely`, `FaultOpensOutputs` and `NothingLeftOn`, `Metering` gives
  `NeverOverbilled`, `BillInv` gives `BillingGetsItsTime`. `JobImplementsSession` needs `Electric` to
  know that outputs are open wherever a stage leaves them alone (`Resuming`, `Freed`), and
  `Metering` for the record. `BillsAreFinal` is then a step of the session alone: the bill that
  the back end reads in JOB_DONE does not depend on when it does.
* `JobQueueProofs` - `QInv`: the limit is not inductive for the list alone, but for the list
  with the request in the main loop's hands, the one in the commit list (the others in it are
  lost) and the one the web thread is checking (`OnTheWay`); at most one job runs because the
  loop selects only when neither gun has one (`OneRuns`). `JobsKeepTheirOrder` needs the
  order of all three lists among each other (`Order`): a request in the commit list is newer
  than the one in hand, that one newer than every waiting job, and the waiting list is in order.
  `QueueImplementsStation` rests on both: each action of the code is one of the station or
  changes nothing there. `job_commit` accepts, `Place` starts (`Order` makes it the oldest of its
  gun, `OneRuns` makes both guns idle), `job_select_commit` and `Stale` lose, `job_running` ends,
  `Restart` restarts; `job_fork`, `job_select_wait` and the web thread's search only move a request.
  `NobodyOvertakes` is then proved of the station alone: the job at a gun is older than all that
  are pending for it, wherever they are.
* `CanTpProofs` - `TpInv`: outside a connection nothing is under way (`Opening`); in one, what
  the charger counted and what is under way is at most what was sent, and when it is all of
  it no frame was lost (`Counting`), so that a complete count means a complete packet; an
  acknowledgement is the last thing under way (`Closing`). It gives `AcknowledgedIsDelivered`
  and, step by step, that `CanTp` starts and goes on as `TpChannel` does
  (`DriverGetsWholePackets`); that delivery comes in the end is left to the run `cantp`.
* `BmsDriverProofs` - `DInv`: `ThereAndOverdueOnlyByCrossing` and `StagesAreMeant`, with what they
  need: what thread and handler know at each of their statements (`ThreadPlaces`, `HandlerPlaces`),
  that a receipt and a verdict under way together are in `crossed` (`CrossingIsSeen`), and
  `Statistics` (BSD is found overdue only when the charge is over). `ContradictionNeedsCrossing` is
  thus a statement about interleavings of single statements; that the contradiction does happen is
  what TLC shows of `NeverThereAndOverdue`.
* `UartProofs` - `UInv`: each user's wait is bounded by five times its distance from the turn,
  less the repetitions already spent (`Patient`); that and the order of the turns (`InOrder`)
  give the bound of `NobodyStarves`.
* `ContactorProofs` - `XInv`: commands, the byte another thread has read and what the box has
  put together all concern the gun of the job, and between two jobs there are none
  (`OnlyThisGun`).
* `ErrorHistoryProofs` - `Consistent` is inductive for any table. It has the properties
  `OpenRowsAreListed` and `Numbered` (behind `NumbersAreDistinct`), and what they need: flag and
  time tell an entry from every other, since the next one begins later than all there are
  (`OneEntryEach`, `Past`); no entry has a closed row (`ClosedIsGone`), so that closing by flag and
  time rewrites no end; and the rows of one fault are all open or all closed (`OneState`), so that
  a start after a refused UPDATE closes no fault twice. `Numbered` and `Recorded` are only claimed
  while the web thread is idle: between `Reset` and `Restore` the numbers do collide. `Recorded`: each
  entry that was to be stored has its open row, or the data base refused it. No theorem assumes a
  number of columns but `ShippedTableStaysEmpty`, which says what the shipped table makes of
  `CurrentErrorsAreRecorded`: no row is stored and every listed fault was refused, the finding
  above for all constants. `ClosedRowsAreFinal` is `EndIsFinal`. `HistoryImplementsJournal` needs in
  addition `Newest` (an entry whose row is not there yet is the youngest), which limits what a
  crash can lose to one fault. `FaultsEndOnce` is then proved of the journal alone.

`Consistent`, `Recorded`, `Newest`, `DInv`, `Order` and what is proved of the abstract modules were
model-checked on the instances of `errors`, `bms`, `queue` and `job` before they were proved.

Only model-checked: `KilledLeaves`, `TimerFires`, `BoundJobLeaves`, `AbortingJobLeaves`,
`TerminationHonoured`, `FirstSilenceIsNoticed`, `TerminationCompletes`, `SilentIsReported`,
`AnsweringIsTakenBack`, `StoppedIsOpened`, `WorkingIsConnected`, `FlagIsRecorded`, and of
`ImplementsChannel` the fairness of `TpChannel`: they say that something happens in the end, and
fairness and ENABLED are out of the prover's reach. Every other property of a run is a theorem.

## Not modelled, and the plan

Next, in this order:
1. `Request` - authentication and reservation between web interface and back end
   (`ajax.c` 1766-1970).
2. `Pandora` - the session with the back end: queues, heart beat, reconnection.
3. `CardReader` and the boost box (`blueprint.c` from 3585), which are devices of `Uart` with
   exchanges of their own.

Proofs to come: an abstract outlet (open or closed, for one gun) that `Contactor` implements, and
a bus that gives turns, which `Uart` implements.

Left out for good: log, configuration parsing, plugins, user interface, the firmware of
the measuring box (another processor), the layout of packets, the other BMS drivers,
which are copies with other layouts, and third party code (SQLite, mongoose, bc), which is
most of the repository.
