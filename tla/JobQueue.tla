------------------------------ MODULE JobQueue ------------------------------
(***************************************************************************)
(* From a request of the web interface to a running job.                   *)
(*                                                                         *)
(* The web thread (ontom/ajax.c) checks the number of waiting jobs and     *)
(* that no job has the same id, and appends the request to the commit      *)
(* list. The main loop of the charge thread (ontom/charge.c) takes it from *)
(* there, makes a job of it in the waiting list, and starts waiting jobs   *)
(* when no job is running. Each list has a lock of its own; nothing is     *)
(* locked while a request or a job is between two lists.                   *)
(*                                                                         *)
(* The main loop is the one of a station with one charge group and two     *)
(* guns. What a running job does is module ChargeJob.                      *)
(***************************************************************************)
EXTENDS Integers, Sequences, FiniteSets

CONSTANTS
    Jid,            \* the ids (time stamps) that the web interface puts on a job
    MaxWait,        \* waiting jobs above which a request is rejected: 16
    MaxCommits,     \* bound of the model: requests that are accepted
    NULL

ASSUME BoundsAssumption == MaxWait \in Nat /\ MaxCommits \in Nat

Gun == 1 .. 2
Serial == 1 .. MaxCommits

\* A request, and the job made of it; n is the order of acceptance.
Request == [n : Serial, jid : Jid, gun : Gun]

VARIABLES
    commits,    \* the commit list
    wait,       \* the waiting list
    nr,         \* wait_job_nr
    job,        \* task->job
    hand,       \* what the main loop holds between two lists
    pc,         \* where the main loop is
    wpc,        \* where the web thread is
    req,        \* the request that the web thread checks
    serial,     \* requests accepted so far
    forked      \* history: the requests that job_fork has made a job of

main == <<pc, hand>>
web == <<wpc, req, serial>>
qvars == <<commits, wait, nr, job, forked, main, web>>

Elements(s) == {s[i] : i \in DOMAIN s}
Running == {job[g] : g \in Gun} \ {NULL}

QTypeOK ==
    /\ commits \in Seq(Request) /\ wait \in Seq(Request)
    /\ nr \in Nat
    /\ job \in [Gun -> Request \cup {NULL}]
    /\ hand \in Request \cup {NULL}
    /\ pc \in {"commit", "fork", "next", "stale", "run", "select", "place"}
    /\ wpc \in {"idle", "jobs", "commits", "wait", "commit"}
    /\ req \in [jid : Jid, gun : Gun] \cup {NULL}
    /\ serial \in 0 .. MaxCommits
    /\ forked \subseteq Serial

\* What the program is when it starts, and when hellhound.sh starts it again.
Started ==
    [commits |-> <<>>, wait |-> <<>>, nr |-> 0, job |-> [g \in Gun |-> NULL],
     hand |-> NULL, pc |-> "commit", wpc |-> "idle", req |-> NULL]

QInit ==
    /\ commits = Started.commits /\ wait = Started.wait /\ nr = Started.nr
    /\ job = Started.job /\ hand = Started.hand /\ pc = Started.pc
    /\ wpc = Started.wpc /\ req = Started.req
    /\ serial = 0 /\ forked = {}

-----------------------------------------------------------------------------
(* The web thread: ajax_job_create_json_proc.                              *)

\* Mutant: one waiting job too many.
RoomOrOneMore == nr <= MaxWait

Room == nr < MaxWait

\* The request is valid and wait_job_nr, read without the lock, allows it.
Ask(id, g) ==
    /\ wpc = "idle" /\ Room /\ serial < MaxCommits
    /\ req' = [jid |-> id, gun |-> g]
    /\ wpc' = "jobs"
    /\ UNCHANGED <<commits, wait, nr, job, forked, main, serial>>

\* job_exsit looks in three places, one after the other.
LookIn(here, where, next) ==
    /\ wpc = here
    /\ \/ /\ \E r \in where : r.jid = req.jid
          /\ wpc' = "idle" /\ req' = NULL
       \/ /\ \A r \in where : r.jid # req.jid
          /\ wpc' = next /\ UNCHANGED req
    /\ UNCHANGED <<commits, wait, nr, job, forked, main, serial>>

job_exsit ==
    \/ LookIn("jobs", Running, "commits")
    \/ LookIn("commits", Elements(commits), "wait")
    \/ LookIn("wait", Elements(wait), "commit")

job_commit ==
    /\ wpc = "commit"
    /\ serial' = serial + 1
    /\ commits' = Append(commits, [n |-> serial', jid |-> req.jid, gun |-> req.gun])
    /\ wpc' = "idle" /\ req' = NULL
    /\ UNCHANGED <<wait, nr, job, forked, main>>

-----------------------------------------------------------------------------
(* The main loop of the charge thread.                                     *)

\* job_select_commit empties the list, whatever is behind its head: the test that
\* should recognise the last element assigns instead of comparing.
job_select_commit(here, none, some) ==
    /\ pc = here
    /\ commits' = <<>>
    /\ hand' = IF commits = <<>> THEN NULL ELSE Head(commits)
    /\ pc' = IF commits = <<>> THEN none ELSE some
    /\ UNCHANGED <<wait, nr, job, forked, web>>

\* Mutant: the count starts again with every job.
EnqueueUncounted(r) == wait' = Append(wait, r) /\ nr' = 1

Enqueue(r) ==
    /\ wait' = Append(wait, r)
    /\ nr' = IF wait = <<>> THEN 1 ELSE nr + 1

Fork ==
    /\ Enqueue(hand)
    /\ forked' = forked \cup {hand.n}
    /\ pc' = "next"
    /\ UNCHANGED <<commits, job, hand, web>>

job_fork == pc = "fork" /\ Fork

\* The loop takes the next request and frees it at once. If there was one, the loop
\* goes on with freed memory: its content is still there, or it is not a fork
\* command any more, or the allocator's data are destroyed and the process dies.
Stale ==
    /\ pc = "stale"
    /\ \/ Fork
       \/ pc' = "next" /\ UNCHANGED <<commits, wait, nr, job, hand, forked, web>>

Restart ==
    /\ pc = "stale"
    /\ commits' = Started.commits /\ wait' = Started.wait /\ nr' = Started.nr
    /\ job' = Started.job /\ hand' = Started.hand /\ pc' = Started.pc
    /\ wpc' = Started.wpc /\ req' = Started.req
    /\ UNCHANGED <<serial, forked>>

\* job_running over the jobs; those that end (JOB_DIZZY) are freed.
job_running ==
    /\ pc = "run"
    /\ \E ended \in SUBSET Gun : job' = [g \in Gun |-> IF g \in ended THEN NULL ELSE job[g]]
    /\ pc' = "select"
    /\ UNCHANGED <<commits, wait, nr, hand, forked, web>>

\* Mutant: the head is removed, whichever was found.
RemovedHead(i) == Tail(wait)

\* Removing the i-th of the waiting list: only the removal of the head is counted.
Removed(i) == SubSeq(wait, 1, i - 1) \o SubSeq(wait, i + 1, Len(wait))
Remaining(i) == IF i > 1 THEN nr ELSE IF Len(wait) = 1 THEN 0 ELSE nr - 1

\* Mutant: the last waiting job of the gun.
IsFirstOfGunBackwards(i, g) ==
    wait[i].gun = g /\ \A k \in i + 1 .. Len(wait) : wait[k].gun # g

IsFirstOfGun(i, g) ==
    wait[i].gun = g /\ \A k \in 1 .. i - 1 : wait[k].gun # g

\* The guns that may get a job: none while a job runs, the second one when nobody
\* waits for the first.
Eligible(g) ==
    /\ Running = {}
    /\ \A x \in 1 .. g - 1 : \A i \in DOMAIN wait : wait[i].gun # x

job_select_wait(g, i) ==
    /\ pc = "select" /\ Eligible(g) /\ IsFirstOfGun(i, g)
    /\ hand' = wait[i]
    /\ wait' = Removed(i)
    /\ nr' = Remaining(i)
    /\ pc' = "place"
    /\ UNCHANGED <<commits, job, forked, web>>

NothingToSelect ==
    /\ pc = "select"
    /\ Running # {} \/ wait = <<>>
    /\ pc' = "commit"
    /\ UNCHANGED <<commits, wait, nr, job, hand, forked, web>>

Place ==
    /\ pc = "place"
    /\ job' = [job EXCEPT ![hand.gun] = hand]
    /\ hand' = NULL
    /\ pc' = "commit"
    /\ UNCHANGED <<commits, wait, nr, forked, web>>

QNext ==
    \/ \E id \in Jid, g \in Gun : Ask(id, g)
    \/ job_exsit
    \/ job_commit
    \/ job_select_commit("commit", "run", "fork")
    \/ job_select_commit("next", "run", "stale")
    \/ job_fork
    \/ Stale
    \/ Restart
    \/ job_running
    \/ \E g \in Gun, i \in DOMAIN wait : job_select_wait(g, i)
    \/ NothingToSelect
    \/ Place

QSpec == QInit /\ [][QNext]_qvars

-----------------------------------------------------------------------------
(* Properties that the code has.                                           *)

\* One group of chargers feeds one gun: never do two jobs run, or one run while
\* another is between the waiting list and task->job, and a job runs on its gun.
OneJobPerGroup ==
    /\ Cardinality(Running) <= 1
    /\ pc = "place" => Running = {}
    /\ \A g \in Gun : job[g] # NULL => job[g].gun = g

\* wait_job_nr is read without the lock and is not exact, but it never says fewer
\* than there are, and it is 0 when nobody waits: the limit is never too lax, and
\* an empty queue accepts requests.
NeverUndercounted == nr >= Len(wait) /\ (wait = <<>> => nr = 0)

\* The limit is checked long before the job is in the list that it limits: one
\* request is being checked, one is in the commit list, one in the hands of the main
\* loop. The overshoot is two jobs and no more.
WaitIsBounded == Len(wait) <= MaxWait + 2

\* The jobs of a gun run in the order in which their requests were accepted, in
\* spite of the lost requests and of the freed memory.
FirstComeFirstServed ==
    [][\A g \in Gun : job'[g] \notin {job[g], NULL} =>
        \A i \in DOMAIN wait : wait[i].gun = g => wait[i].n > job'[g].n]_qvars

\* Behind its four lists the program is the station of module Station: whatever is
\* between two lists, and whatever freed memory holds, no request starts twice, out
\* of turn, on another gun, or while a job runs.
InTheHand == IF pc \in {"fork", "stale", "place"} THEN {hand} ELSE {}
Pending == Elements(commits) \cup InTheHand \cup Elements(wait)

Promise == INSTANCE Station WITH pending <- Pending, running <- job, last <- serial
ImplementsStation == Promise!Spec

-----------------------------------------------------------------------------
(* A property that the code does not have.                                 *)

\* A request that was answered PENDING is in the commit list, in the hands of the
\* main loop, or a job: "take the first commit event out of the commit list".
NoRequestIsLost ==
    \A n \in 1 .. serial :
        \/ n \in forked
        \/ \E i \in DOMAIN commits : commits[i].n = n
        \/ hand # NULL /\ hand.n = n
=============================================================================
