--------------------------- MODULE JobQueueProofs ---------------------------
(***************************************************************************)
(* JobQueue for any ids, any limit and any number of requests: at most one *)
(* job runs, the count of waiting jobs is never too low, the limit is      *)
(* overshot by two jobs at most, and the jobs of a gun keep their order.   *)
(***************************************************************************)
EXTENDS JobQueue, SequenceTheorems, FiniteSetTheorems, TLAPS

Asked == [jid : Jid, gun : Gun]

\* What a step that uses hand or req relies on.
Held ==
    /\ pc \in {"fork", "stale", "place"} => hand \in Request
    /\ wpc # "idle" => req \in Asked /\ serial < MaxCommits

\* At most one request each is in the hands of the main loop, in the commit list
\* (the others in it will be lost) and in those of the web thread.
InHand == IF pc \in {"fork", "stale"} THEN 1 ELSE 0
Committed == IF commits = <<>> THEN 0 ELSE 1
Checked == IF wpc = "idle" THEN 0 ELSE 1

OnTheWay == Len(wait) + InHand + Committed + Checked <= MaxWait + 2

\* One job, in terms of task->job only.
OneRuns ==
    /\ \A g, h \in Gun : job[g] # NULL /\ job[h] # NULL => g = h
    /\ pc = "place" => \A g \in Gun : job[g] = NULL
    /\ \A g \in Gun : job[g] # NULL => job[g].gun = g

QInv == QTypeOK /\ Held /\ OneRuns /\ NeverUndercounted /\ OnTheWay

-----------------------------------------------------------------------------
LEMMA Parts ==
    /\ InHand \in {0, 1} /\ Committed \in {0, 1} /\ Checked \in {0, 1}
    /\ QTypeOK => Len(wait) \in Nat
BY LenProperties DEF InHand, Committed, Checked, QTypeOK

LEMMA AppendOne ==
    ASSUME NEW S, NEW s \in Seq(S), NEW e \in S
    PROVE  Append(s, e) \in Seq(S) /\ Len(Append(s, e)) = Len(s) + 1 /\ Append(s, e) # <<>>
<1>1. Append(s, e) \in Seq(S) /\ Len(Append(s, e)) = Len(s) + 1
    OBVIOUS
<1>2. Len(<<>>) = 0 /\ Len(s) \in Nat
    BY EmptySeq, LenProperties
<1> QED
    BY <1>1, <1>2

\* Taking one job out of the waiting list.
LEMMA RemoveOne ==
    ASSUME QTypeOK, NEW i \in DOMAIN wait
    PROVE  Removed(i) \in Seq(Request) /\ Len(Removed(i)) = Len(wait) - 1
<1>1. wait \in Seq(Request) /\ Len(wait) \in Nat /\ i \in 1..Len(wait)
    BY LenProperties DEF QTypeOK
<1>2. \A k \in 1..Len(wait) : wait[k] \in Request
    BY <1>1, ElementOfSeq
<1>3. SubSeq(wait, 1, i - 1) \in Seq(Request) /\ Len(SubSeq(wait, 1, i - 1)) = i - 1
  <2>1. \A k \in 1..i - 1 : wait[k] \in Request
      BY <1>1, <1>2
  <2>2. 1 \in Int /\ i - 1 \in Int
      BY <1>1
  <2>3. /\ SubSeq(wait, 1, i - 1) \in Seq(Request)
        /\ Len(SubSeq(wait, 1, i - 1)) = IF 1 <= i - 1 THEN i - 1 - 1 + 1 ELSE 0
      BY <2>1, <2>2, SubSeqProperties
  <2> QED
      BY <1>1, <2>3
<1>4. /\ SubSeq(wait, i + 1, Len(wait)) \in Seq(Request)
      /\ Len(SubSeq(wait, i + 1, Len(wait))) = Len(wait) - i
  <2>1. \A k \in i + 1..Len(wait) : wait[k] \in Request
      BY <1>1, <1>2
  <2>2. i + 1 \in Int /\ Len(wait) \in Int
      BY <1>1
  <2>3. /\ SubSeq(wait, i + 1, Len(wait)) \in Seq(Request)
        /\ Len(SubSeq(wait, i + 1, Len(wait)))
             = IF i + 1 <= Len(wait) THEN Len(wait) - (i + 1) + 1 ELSE 0
      BY <2>1, <2>2, SubSeqProperties
  <2> QED
      BY <1>1, <2>3
<1>5. /\ Removed(i) \in Seq(Request)
      /\ Len(Removed(i)) = Len(SubSeq(wait, 1, i - 1)) + Len(SubSeq(wait, i + 1, Len(wait)))
    BY <1>3, <1>4, ConcatProperties DEF Removed
<1>6. PICK a, b \in Int : a = Len(SubSeq(wait, 1, i - 1)) /\ b = Len(SubSeq(wait, i + 1, Len(wait)))
    BY <1>1, <1>3, <1>4
<1>7. a = i - 1 /\ b = Len(wait) - i /\ Len(Removed(i)) = a + b
    BY <1>3, <1>4, <1>5, <1>6
<1>8. PICK n \in Int : n = Len(wait)
    BY <1>1
<1>9. a + b = n - 1
    BY <1>1, <1>7, <1>8
<1> QED
    BY <1>5, <1>7, <1>8, <1>9

LEMMA InitQInv == QInit => QInv
<1> SUFFICES ASSUME QInit PROVE QInv
    OBVIOUS
<1>1. <<>> \in Seq(Request) /\ Len(<<>>) = 0
    BY EmptySeq
<1> QED
    BY <1>1, BoundsAssumption
       DEF QInit, Started, QInv, QTypeOK, Held, OneRuns, NeverUndercounted, OnTheWay,
           InHand, Committed, Checked, Serial

-----------------------------------------------------------------------------
\* The web thread does not touch the waiting list and the jobs.
LEMMA WebQInv ==
    ASSUME QInv,
           (\E id \in Jid, g \in Gun : Ask(id, g)) \/ job_exsit \/ job_commit
    PROVE  QInv'
<1> USE DEF main, QInv
<1>1. CASE \E id \in Jid, g \in Gun : Ask(id, g)
  <2> PICK id \in Jid, g \in Gun : Ask(id, g)
      BY <1>1
  <2>1. QTypeOK' /\ Held' /\ OneRuns' /\ NeverUndercounted'
      BY DEF Ask, QTypeOK, Held, OneRuns, NeverUndercounted, Asked
  <2>2. InHand' = InHand /\ Committed' = Committed /\ Checked' = 1 /\ wait' = wait
      BY DEF Ask, InHand, Committed, Checked
  <2>3. Len(wait) <= nr /\ nr < MaxWait /\ nr \in Nat
      BY DEF Ask, Room, QTypeOK, NeverUndercounted
  <2>4. OnTheWay'
      BY <2>2, <2>3, Parts, BoundsAssumption DEF OnTheWay
  <2> QED BY <2>1, <2>4
<1>2. CASE job_exsit
  <2>1. PICK here \in {"jobs", "commits", "wait"},
             next \in {"commits", "wait", "commit"} :
        \E where \in {Running, Elements(commits), Elements(wait)} : LookIn(here, where, next)
      BY <1>2 DEF job_exsit
  <2>2. /\ wpc # "idle" /\ wpc' \in {"idle", next} /\ req' \in {NULL, req}
        /\ wpc' # "idle" => req' = req
        /\ UNCHANGED <<commits, wait, nr, job, forked, main, serial>>
      BY <2>1 DEF LookIn
  <2>3. QTypeOK' /\ Held' /\ OneRuns' /\ NeverUndercounted'
      BY <2>2 DEF QTypeOK, Held, OneRuns, NeverUndercounted, Asked
  <2>4. InHand' = InHand /\ Committed' = Committed /\ Checked = 1 /\ Checked' \in {0, 1}
      BY <2>2 DEF InHand, Committed, Checked
  <2>5. OnTheWay'
      BY <2>2, <2>4, Parts, BoundsAssumption DEF OnTheWay
  <2> QED BY <2>3, <2>5
<1>3. CASE job_commit
  <2> DEFINE r == [n |-> serial', jid |-> req.jid, gun |-> req.gun]
  <2>1. serial' \in 1..MaxCommits /\ r \in Request /\ wpc = "commit"
      BY <1>3, BoundsAssumption DEF job_commit, QTypeOK, Held, Request, Serial, Asked
  <2>2. commits' = Append(commits, r) /\ commits \in Seq(Request)
      BY <1>3 DEF job_commit, QTypeOK
  <2>3. commits' \in Seq(Request) /\ commits' # <<>>
      BY <2>1, <2>2, AppendOne
  <2>4. QTypeOK' /\ Held' /\ OneRuns' /\ NeverUndercounted'
      BY <1>3, <2>1, <2>3 DEF job_commit, QTypeOK, Held, OneRuns, NeverUndercounted
  <2>5. InHand' = InHand /\ Committed' = 1 /\ Checked = 1 /\ Checked' = 0 /\ wait' = wait
      BY <1>3, <2>1, <2>3 DEF job_commit, InHand, Committed, Checked
  <2>6. OnTheWay'
      BY <2>5, Parts, BoundsAssumption DEF OnTheWay
  <2> QED BY <2>4, <2>6
<1> QED BY <1>1, <1>2, <1>3

\* The main loop up to the waiting list.
LEMMA SelectCommitQInv ==
    ASSUME QInv,
           \/ job_select_commit("commit", "run", "fork")
           \/ job_select_commit("next", "run", "stale")
    PROVE  QInv'
<1> USE DEF main, web, QInv
<1>1. PICK here \in {"commit", "next"}, some \in {"fork", "stale"} :
      job_select_commit(here, "run", some)
    OBVIOUS
<1>2. commits \in Seq(Request) /\ commits' = <<>> /\ <<>> \in Seq(Request)
    BY <1>1, EmptySeq DEF job_select_commit, QTypeOK
<1>3. \/ commits = <<>> /\ hand' = NULL /\ pc' = "run"
      \/ commits # <<>> /\ hand' \in Request /\ pc' = some
    BY <1>1, <1>2, HeadTailProperties DEF job_select_commit
<1>4. QTypeOK' /\ Held' /\ OneRuns' /\ NeverUndercounted'
    BY <1>1, <1>2, <1>3
       DEF job_select_commit, QTypeOK, Held, OneRuns, NeverUndercounted
<1>5. /\ InHand = 0 /\ Committed' = 0 /\ InHand' = Committed
      /\ Checked' = Checked /\ wait' = wait
    BY <1>1, <1>2, <1>3 DEF job_select_commit, InHand, Committed, Checked
<1>6. OnTheWay'
    BY <1>5, Parts, BoundsAssumption DEF OnTheWay
<1> QED BY <1>4, <1>6

LEMMA ForkQInv ==
    ASSUME QInv, pc \in {"fork", "stale"}, Fork
    PROVE  QInv'
<1> USE DEF web, QInv
<1>1. hand \in Request /\ hand.n \in Serial /\ wait \in Seq(Request) /\ Len(wait) \in Nat
    BY LenProperties DEF Held, Request, QTypeOK
<1>2. wait' \in Seq(Request) /\ Len(wait') = Len(wait) + 1 /\ wait' # <<>>
    BY <1>1, AppendOne DEF Fork, Enqueue
<1>3. nr' \in Nat /\ nr' >= Len(wait')
    BY <1>1, <1>2 DEF Fork, Enqueue, NeverUndercounted, QTypeOK
<1>4. QTypeOK' /\ Held' /\ OneRuns' /\ NeverUndercounted'
    BY <1>1, <1>2, <1>3 DEF Fork, QTypeOK, Held, OneRuns, NeverUndercounted
<1>5. InHand = 1 /\ InHand' = 0 /\ Committed' = Committed /\ Checked' = Checked
    BY DEF Fork, InHand, Committed, Checked
<1>6. OnTheWay'
    BY <1>1, <1>2, <1>5, Parts, BoundsAssumption DEF OnTheWay
<1> QED BY <1>4, <1>6

LEMMA RestartQInv == ASSUME QInv, Restart PROVE QInv'
<1>1. <<>> \in Seq(Request) /\ Len(<<>>) = 0
    BY EmptySeq
<1> QED
    BY <1>1, BoundsAssumption
       DEF Restart, Started, QInv, QTypeOK, Held, OneRuns, NeverUndercounted, OnTheWay,
           InHand, Committed, Checked

\* The main loop behind the waiting list.
LEMMA SelectWaitQInv ==
    ASSUME QInv, NEW g \in Gun, NEW i \in DOMAIN wait, job_select_wait(g, i)
    PROVE  QInv'
<1> USE DEF web, QInv
<1>1. wait \in Seq(Request) /\ Len(wait) \in Nat /\ i \in 1..Len(wait) /\ wait[i] \in Request
    BY LenProperties, ElementOfSeq DEF QTypeOK
<1>2. wait' \in Seq(Request) /\ Len(wait') = Len(wait) - 1
    BY RemoveOne DEF job_select_wait
<1>3. wait' = <<>> => Len(wait) = 1
    BY <1>1, <1>2, EmptySeq
<1>4. wait # <<>>
    BY <1>1, EmptySeq
<1>5. nr \in Nat /\ nr >= Len(wait) /\ nr' = Remaining(i)
    BY DEF job_select_wait, QTypeOK, NeverUndercounted
<1>6. nr' \in Nat /\ nr' >= Len(wait') /\ (wait' = <<>> => nr' = 0)
    BY <1>1, <1>2, <1>3, <1>5 DEF Remaining
<1>7. \A h \in Gun : job[h] = NULL
    BY DEF job_select_wait, Eligible, Running
<1>8. QTypeOK' /\ Held' /\ OneRuns' /\ NeverUndercounted'
    BY <1>1, <1>2, <1>6, <1>7
       DEF job_select_wait, QTypeOK, Held, OneRuns, NeverUndercounted
<1>9. InHand' = 0 /\ Committed' = Committed /\ Checked' = Checked
    BY DEF job_select_wait, InHand, Committed, Checked
<1>10. OnTheWay'
    BY <1>1, <1>2, <1>9, Parts, BoundsAssumption DEF OnTheWay
<1> QED BY <1>8, <1>10

LEMMA PlaceQInv ==
    ASSUME QInv, job_running \/ NothingToSelect \/ Place
    PROVE  QInv'
<1> USE DEF web, QInv
<1>1. CASE job_running
  <2>1. PICK ended \in SUBSET Gun : job' = [g \in Gun |-> IF g \in ended THEN NULL ELSE job[g]]
      BY <1>1 DEF job_running
  <2>2. job' \in [Gun -> Request \cup {NULL}] /\ \A g \in Gun : job'[g] \in {NULL, job[g]}
      BY <2>1 DEF QTypeOK
  <2>3. QTypeOK' /\ Held' /\ OneRuns' /\ NeverUndercounted'
      BY <1>1, <2>2 DEF job_running, QTypeOK, Held, OneRuns, NeverUndercounted
  <2>4. OnTheWay'
      BY <1>1 DEF job_running, OnTheWay, InHand, Committed, Checked
  <2> QED BY <2>3, <2>4
<1>2. CASE NothingToSelect
  <2>1. QTypeOK' /\ Held' /\ OneRuns' /\ NeverUndercounted'
      BY <1>2 DEF NothingToSelect, QTypeOK, Held, OneRuns, NeverUndercounted
  <2>2. OnTheWay'
      BY <1>2 DEF NothingToSelect, OnTheWay, InHand, Committed, Checked
  <2> QED BY <2>1, <2>2
<1>3. CASE Place
  <2>1. hand \in Request /\ hand.gun \in Gun
      BY <1>3 DEF Place, Held, Request
  <2>2. /\ job' \in [Gun -> Request \cup {NULL}]
        /\ \A g \in Gun : job'[g] = IF g = hand.gun THEN hand ELSE job[g]
      BY <1>3, <2>1 DEF Place, QTypeOK
  <2>3. \A g \in Gun : job[g] = NULL
      BY <1>3 DEF Place, OneRuns
  <2>4. OneRuns'
      BY <1>3, <2>2, <2>3 DEF Place, OneRuns
  <2>5. QTypeOK' /\ Held' /\ NeverUndercounted'
      BY <1>3, <2>2 DEF Place, QTypeOK, Held, NeverUndercounted
  <2>6. OnTheWay'
      BY <1>3 DEF Place, OnTheWay, InHand, Committed, Checked
  <2> QED BY <2>4, <2>5, <2>6
<1> QED BY <1>1, <1>2, <1>3

LEMMA StaleQInv == ASSUME QInv, Stale PROVE QInv'
<1>1. CASE Fork
    BY <1>1, ForkQInv DEF Stale
<1>2. CASE pc' = "next" /\ UNCHANGED <<commits, wait, nr, job, hand, forked, web>>
  <2>1. QTypeOK' /\ Held' /\ OneRuns' /\ NeverUndercounted'
      BY <1>2 DEF QInv, web, QTypeOK, Held, OneRuns, NeverUndercounted
  <2>2. InHand' = 0 /\ Committed' = Committed /\ Checked' = Checked /\ wait' = wait
      BY <1>2 DEF web, InHand, Committed, Checked
  <2>3. OnTheWay'
      BY <2>2, Parts, BoundsAssumption DEF QInv, OnTheWay
  <2> QED BY <2>1, <2>3 DEF QInv
<1> QED BY <1>1, <1>2 DEF Stale

-----------------------------------------------------------------------------
\* The types, and what the four lists say together, for every way the web thread
\* and the main loop are interleaved and for every restart.
THEOREM QueueInvariant == QSpec => []QInv
<1>1. QInv /\ [QNext]_qvars => QInv'
  <2> SUFFICES ASSUME QInv, [QNext]_qvars PROVE QInv'
      OBVIOUS
  <2>1. CASE job_fork
      BY <2>1, ForkQInv DEF job_fork
  <2>2. CASE \E g \in Gun, i \in DOMAIN wait : job_select_wait(g, i)
      BY <2>2, SelectWaitQInv
  <2>3. CASE UNCHANGED qvars
      BY <2>3 DEF qvars, main, web, QInv, QTypeOK, Held, OneRuns, NeverUndercounted,
                  OnTheWay, InHand, Committed, Checked
  <2> QED
      BY <2>1, <2>2, <2>3, WebQInv, SelectCommitQInv, StaleQInv, RestartQInv, PlaceQInv
         DEF QNext
<1> QED
    BY InitQInv, <1>1, PTL DEF QSpec

\* One group of chargers feeds one gun (charge.c 872-899).
THEOREM OneGunIsServed == QSpec => []OneJobPerGroup
<1>1. QInv => OneJobPerGroup
  <2> SUFFICES ASSUME QInv PROVE OneJobPerGroup
      OBVIOUS
  <2> USE DEF QInv, OneRuns
  <2>1. Running = {} \/ \E j : Running = {j}
    <3>1. \A x, y \in Running : x = y
        BY DEF Running
    <3> QED BY <3>1
  <2>2. Cardinality(Running) \in {0, 1}
      BY <2>1, FS_EmptySet, FS_Singleton
  <2>3. pc = "place" => Running = {}
      BY DEF Running
  <2>4. Cardinality(Running) <= 1
      BY <2>2
  <2> QED BY <2>3, <2>4 DEF OneJobPerGroup
<1> QED BY QueueInvariant, <1>1, PTL

\* wait_job_nr (charge.c 1967-1975, 2121-2131) never says fewer than there are.
THEOREM CountIsNeverLow == QSpec => []NeverUndercounted
<1>1. QInv => NeverUndercounted
    BY DEF QInv
<1> QED BY QueueInvariant, <1>1, PTL

\* Checked early (ajax.c 542), the limit is overshot by two jobs at most.
THEOREM OvershootIsBounded == QSpec => []WaitIsBounded
<1>1. QInv => WaitIsBounded
  <2> SUFFICES ASSUME QInv PROVE WaitIsBounded
      OBVIOUS
  <2> QED
      BY Parts, BoundsAssumption DEF QInv, OnTheWay, WaitIsBounded
<1> QED BY QueueInvariant, <1>1, PTL

-----------------------------------------------------------------------------
(* The order of the requests of a gun.                                     *)

\* The waiting list is in the order of acceptance, and so are the lists among each
\* other: the waiting jobs, what is in the hands of the main loop, the commit list.
WaitInOrder == \A i, k \in DOMAIN wait : i < k => wait[i].n < wait[k].n
WaitIsOlder(n) == \A i \in DOMAIN wait : wait[i].n < n

Holding == pc \in {"fork", "stale", "place"}

HandInOrder ==
    /\ Holding => hand.n <= serial
    /\ InHand = 1 => WaitIsOlder(hand.n)

CommitInOrder ==
    \A k \in DOMAIN commits :
        /\ commits[k].n <= serial /\ WaitIsOlder(commits[k].n)
        /\ Holding => hand.n < commits[k].n

\* The job that is about to start is the oldest of its gun.
OldestOfItsGun ==
    pc = "place" => \A i \in DOMAIN wait : wait[i].gun = hand.gun => hand.n < wait[i].n

Order ==
    WaitInOrder /\ WaitIsOlder(serial + 1) /\ HandInOrder /\ CommitInOrder /\ OldestOfItsGun

LEMMA Numbers ==
    ASSUME QTypeOK
    PROVE  /\ serial \in Int
           /\ \A i \in DOMAIN wait : wait[i] \in Request /\ wait[i].n \in Int
           /\ \A k \in DOMAIN commits : commits[k] \in Request /\ commits[k].n \in Int
           /\ commits # <<>> => 1 \in DOMAIN commits
<1>1. \A r \in Request : r.n \in Int
    BY BoundsAssumption DEF Request, Serial
<1>2. \A i \in DOMAIN wait : wait[i] \in Request
    BY ElementOfSeq, LenProperties DEF QTypeOK
<1>3. /\ \A k \in DOMAIN commits : commits[k] \in Request
      /\ commits # <<>> => 1 \in DOMAIN commits
  <2>1. Len(commits) \in Nat /\ DOMAIN commits = 1..Len(commits)
      BY LenProperties DEF QTypeOK
  <2>2. commits # <<>> => Len(commits) # 0
      BY EmptySeq DEF QTypeOK
  <2> QED
      BY <2>1, <2>2, ElementOfSeq DEF QTypeOK
<1>4. serial \in Int
    BY BoundsAssumption DEF QTypeOK
<1> QED BY <1>1, <1>2, <1>3, <1>4

LEMMA InitOrder == QInit => Order
<1> SUFFICES ASSUME QInit PROVE Order
    OBVIOUS
<1>1. DOMAIN <<>> = {}
    OBVIOUS
<1> QED
    BY <1>1 DEF QInit, Started, Order, WaitInOrder, WaitIsOlder, HandInOrder, CommitInOrder,
                OldestOfItsGun, InHand, Holding

\* An accepted request is newer than all others.
LEMMA CommitOrder == ASSUME QInv, Order, job_commit PROVE Order'
<1> DEFINE r == [n |-> serial', jid |-> req.jid, gun |-> req.gun]
<1> USE DEF main
<1>1. serial \in Int /\ serial' = serial + 1 /\ r.n = serial + 1
    BY Numbers DEF QInv, job_commit
<1>2. r \in Request
    BY BoundsAssumption DEF job_commit, QInv, QTypeOK, Held, Request, Serial, Asked
<1>3. commits' = Append(commits, r) /\ commits \in Seq(Request)
    BY DEF job_commit, QInv, QTypeOK
<1>4. \A k \in DOMAIN commits' : (k \in DOMAIN commits /\ commits'[k] = commits[k]) \/ commits'[k] = r
  <2>1. PICK m \in Nat : m = Len(commits) /\ DOMAIN commits = 1..m
      BY <1>3, LenProperties
  <2>2. DOMAIN commits' = 1..m + 1
      BY <1>2, <1>3, <2>1, AppendProperties, LenProperties
  <2>3. commits'[m + 1] = r /\ \A k \in 1..m : commits'[k] = commits[k]
      BY <1>2, <1>3, <2>1, AppendProperties
  <2> QED BY <2>1, <2>2, <2>3
<1>5. UNCHANGED <<wait, pc, hand>>
    BY DEF job_commit
<1>6. WaitInOrder' /\ WaitIsOlder(serial + 1)' /\ OldestOfItsGun'
    BY <1>1, <1>5, Numbers DEF QInv, Order, WaitInOrder, WaitIsOlder, OldestOfItsGun
<1>7. Holding => hand.n \in Int
    BY BoundsAssumption DEF Holding, QInv, Held, Request, Serial
<1>8. HandInOrder'
    BY <1>1, <1>5, <1>7 DEF Order, HandInOrder, WaitIsOlder, Holding, InHand
<1>9. CommitInOrder'
  <2> SUFFICES ASSUME NEW k \in DOMAIN commits'
               PROVE  /\ commits'[k].n <= serial' /\ WaitIsOlder(commits'[k].n)
                      /\ Holding => hand.n < commits'[k].n
      BY <1>5 DEF CommitInOrder, WaitIsOlder, Holding
  <2>1. CASE k \in DOMAIN commits /\ commits'[k] = commits[k]
      BY <1>1, <2>1, Numbers DEF QInv, Order, CommitInOrder
  <2>2. CASE commits'[k] = r
      BY <1>1, <1>7, <2>2 DEF Order, HandInOrder
  <2> QED BY <1>4, <2>1, <2>2
<1> QED BY <1>6, <1>8, <1>9 DEF Order

\* The head of the commit list comes into the hands of the main loop.
LEMMA TakeOrder ==
    ASSUME QInv, Order, NEW here, NEW some \in {"fork", "stale"},
           here \in {"commit", "next"}, job_select_commit(here, "run", some)
    PROVE  Order'
<1> USE DEF main, web
<1>1. commits' = <<>> /\ UNCHANGED <<wait, serial>> /\ pc' \in {"run", some}
    BY DEF job_select_commit
<1>2. WaitInOrder' /\ WaitIsOlder(serial + 1)' /\ CommitInOrder' /\ OldestOfItsGun'
    BY <1>1 DEF Order, WaitInOrder, WaitIsOlder, CommitInOrder, OldestOfItsGun
<1>3. Holding' \/ InHand' = 1 => commits # <<>> /\ hand' = commits[1]
    BY DEF InHand, Holding, job_select_commit
<1>4. commits # <<>> => commits[1].n <= serial /\ WaitIsOlder(commits[1].n)
    BY Numbers DEF QInv, Order, CommitInOrder
<1>5. HandInOrder'
    BY <1>1, <1>3, <1>4 DEF HandInOrder, WaitIsOlder
<1> QED BY <1>2, <1>5 DEF Order

\* It becomes the last of the waiting list.
LEMMA ForkOrder ==
    ASSUME QInv, Order, pc \in {"fork", "stale"}, Fork
    PROVE  Order'
<1> USE DEF web
<1>1. hand \in Request /\ hand.n \in Int /\ hand.n <= serial /\ WaitIsOlder(hand.n)
    BY BoundsAssumption DEF QInv, Held, Request, Serial, Order, HandInOrder, InHand, Holding
<1>2. wait' = Append(wait, hand) /\ wait \in Seq(Request) /\ UNCHANGED <<commits, serial>>
    BY DEF Fork, Enqueue, QInv, QTypeOK
<1>3. PICK m \in Nat : m = Len(wait) /\ DOMAIN wait = 1..m
    BY <1>2, LenProperties
<1>4. DOMAIN wait' = 1..m + 1
    BY <1>1, <1>2, <1>3, AppendProperties, LenProperties
<1>5. \A i \in 1..m : wait'[i] = wait[i]
    BY <1>1, <1>2, <1>3, AppendProperties
<1>6. wait'[m + 1] = hand
    BY <1>1, <1>2, <1>3, AppendProperties
<1>7. WaitInOrder'
  <2> SUFFICES ASSUME NEW i \in DOMAIN wait', NEW k \in DOMAIN wait', i < k
               PROVE  wait'[i].n < wait'[k].n
      BY DEF WaitInOrder
  <2>1. i \in 1..m /\ (k \in 1..m \/ k = m + 1)
      BY <1>4
  <2> QED
      BY <2>1, <1>1, <1>3, <1>5, <1>6 DEF Order, WaitInOrder, WaitIsOlder
<1>8. \A i \in DOMAIN wait' :
      (i \in DOMAIN wait /\ wait'[i] = wait[i]) \/ wait'[i] = hand
    BY <1>3, <1>4, <1>5, <1>6
<1>9. WaitIsOlder(serial + 1)'
    BY <1>1, <1>2, <1>8, Numbers DEF QInv, Order, WaitIsOlder
<1>10. CommitInOrder' /\ HandInOrder' /\ OldestOfItsGun'
  <2>1. Holding /\ ~Holding' /\ InHand' = 0 /\ pc' = "next"
      BY DEF InHand, Holding, Fork
  <2>2. \A k \in DOMAIN commits : hand.n < commits[k].n /\ WaitIsOlder(commits[k].n)
      BY <2>1 DEF Order, CommitInOrder
  <2>3. \A k \in DOMAIN commits : WaitIsOlder(commits[k].n)'
      BY <2>2, <1>2, <1>8 DEF WaitIsOlder
  <2> QED
      BY <2>1, <2>3, <1>2 DEF Order, CommitInOrder, HandInOrder, OldestOfItsGun
<1> QED BY <1>7, <1>9, <1>10 DEF Order

\* The elements of the list without the i-th.
LEMMA RemovedElements ==
    ASSUME QTypeOK, NEW i \in DOMAIN wait, NEW k \in DOMAIN Removed(i)
    PROVE  IF k < i THEN k \in DOMAIN wait /\ Removed(i)[k] = wait[k]
                    ELSE k + 1 \in DOMAIN wait /\ Removed(i)[k] = wait[k + 1]
<1>1. PICK m \in Nat : m = Len(wait) /\ DOMAIN wait = 1..m
    BY LenProperties DEF QTypeOK
<1>2. i \in 1..m /\ m \in Nat
    BY <1>1
<1>3. k \in 1..m - 1
    BY <1>1, <1>2, RemoveOne, LenProperties
<1>4. \A x \in 1..m : wait[x] \in Request
    BY <1>1, ElementOfSeq DEF QTypeOK
<1> DEFINE a == SubSeq(wait, 1, i - 1)
           b == SubSeq(wait, i + 1, m)
<1>5. a \in Seq(Request) /\ Len(a) = i - 1 /\ \A x \in 1..i - 1 : a[x] = wait[x]
  <2>1. /\ a \in Seq(Request)
        /\ Len(a) = IF 1 <= i - 1 THEN i - 1 - 1 + 1 ELSE 0
        /\ \A x \in 1..i - 1 - 1 + 1 : a[x] = wait[1 + x - 1]
    <3>1. 1 \in Int /\ i - 1 \in Int /\ \A x \in 1..i - 1 : wait[x] \in Request
        BY <1>2, <1>4
    <3> QED BY <3>1, SubSeqProperties
  <2> QED BY <2>1, <1>2
<1>6. b \in Seq(Request) /\ Len(b) = m - i /\ \A x \in 1..m - i : b[x] = wait[i + x]
  <2>1. /\ b \in Seq(Request)
        /\ Len(b) = IF i + 1 <= m THEN m - (i + 1) + 1 ELSE 0
        /\ \A x \in 1..m - (i + 1) + 1 : b[x] = wait[i + 1 + x - 1]
    <3>1. i + 1 \in Int /\ m \in Int /\ \A x \in i + 1..m : wait[x] \in Request
        BY <1>2, <1>4
    <3> QED BY <3>1, SubSeqProperties
  <2>2. m - (i + 1) + 1 = m - i /\ (~(i + 1 <= m) => m - i = 0)
      BY <1>2
  <2>3. \A x \in 1..m - i : i + 1 + x - 1 = i + x
      BY <1>2
  <2> HIDE DEF b
  <2>4. Len(b) = m - i
      BY <2>1, <2>2
  <2>5. \A x \in 1..m - i : b[x] = wait[i + 1 + x - 1]
      BY <2>1, <2>2
  <2> QED BY <2>1, <2>3, <2>4, <2>5
<1>7. Removed(i) = a \o b
    BY <1>1 DEF Removed
<1> HIDE DEF a, b
<1>8. \A x \in 1..Len(a) + Len(b) : (a \o b)[x] = IF x <= Len(a) THEN a[x] ELSE b[x - Len(a)]
    BY <1>5, <1>6, ConcatProperties
<1>9. Removed(i)[k] = IF k <= i - 1 THEN a[k] ELSE b[k - (i - 1)]
    BY <1>2, <1>3, <1>5, <1>6, <1>7, <1>8
<1>10. CASE k < i
    BY <1>1, <1>2, <1>3, <1>5, <1>9, <1>10
<1>11. CASE ~(k < i)
  <2>1. k - (i - 1) \in 1..m - i /\ i + (k - (i - 1)) = k + 1 /\ k + 1 \in 1..m
      BY <1>2, <1>3, <1>11
  <2>2. b[k - (i - 1)] = wait[k + 1]
      BY <2>1, <1>6
  <2>3. ~(k <= i - 1)
      BY <1>2, <1>3, <1>11
  <2> QED BY <1>1, <1>9, <1>11, <2>1, <2>2, <2>3
<1> QED BY <1>10, <1>11

\* Taking the first job of a gun leaves those of the gun that came later.
LEMMA SelectOrder ==
    ASSUME QInv, Order, NEW g \in Gun, NEW i \in DOMAIN wait, job_select_wait(g, i)
    PROVE  Order'
<1> USE DEF web
<1>1. QTypeOK
    BY DEF QInv
<1>2. wait' = Removed(i) /\ hand' = wait[i] /\ UNCHANGED <<commits, serial>>
    BY DEF job_select_wait
<1>3. PICK m \in Nat : DOMAIN wait = 1..m
    BY <1>1, LenProperties DEF QTypeOK
<1>4. DOMAIN wait' \subseteq Int
    BY <1>1, <1>2, RemoveOne, LenProperties
<1> DEFINE from(k) == IF k < i THEN k ELSE k + 1
<1>5. \A k \in DOMAIN wait' : from(k) \in DOMAIN wait /\ wait'[k] = wait[from(k)]
    BY <1>1, <1>2, RemovedElements
<1>6. \A k, l \in DOMAIN wait' : k < l => from(k) < from(l)
    BY <1>3, <1>4
<1>7. \A k \in DOMAIN wait' : from(k) # i
    BY <1>3, <1>4
<1> HIDE DEF from
<1>8. WaitInOrder'
    BY <1>5, <1>6 DEF Order, WaitInOrder
<1>9. \A n : WaitIsOlder(n) => \A k \in DOMAIN wait' : wait'[k].n < n
    BY <1>5 DEF WaitIsOlder
<1>10. WaitIsOlder(serial + 1)'
    BY <1>2, <1>9 DEF Order, WaitIsOlder
<1>11. InHand' = 0 /\ pc' = "place"
    BY DEF InHand, job_select_wait
<1>12. HandInOrder'
  <2>1. serial \in Int /\ wait[i].n \in Int /\ wait[i].n < serial + 1
      BY <1>1, Numbers DEF Order, WaitIsOlder
  <2> QED BY <1>2, <1>11, <2>1 DEF HandInOrder
<1>13. CommitInOrder'
  <2> SUFFICES ASSUME NEW k \in DOMAIN commits
               PROVE  /\ commits[k].n <= serial /\ WaitIsOlder(commits[k].n)'
                      /\ hand'.n < commits[k].n
      BY <1>2 DEF CommitInOrder, WaitIsOlder
  <2>1. commits[k].n <= serial /\ WaitIsOlder(commits[k].n)
      BY DEF Order, CommitInOrder
  <2> QED BY <1>2, <1>9, <2>1 DEF WaitIsOlder
<1>14. OldestOfItsGun'
  <2> SUFFICES ASSUME NEW k \in DOMAIN wait', wait'[k].gun = hand'.gun
               PROVE  hand'.n < wait'[k].n
      BY DEF OldestOfItsGun
  <2>1. wait[i].gun = g /\ \A x \in 1..i - 1 : wait[x].gun # g
      BY DEF job_select_wait, IsFirstOfGun
  <2>2. from(k) \in DOMAIN wait /\ from(k) # i /\ wait[from(k)].gun = g
      BY <1>2, <1>5, <1>7, <2>1
  <2>3. i < from(k)
      BY <1>3, <2>1, <2>2
  <2> QED
      BY <1>2, <1>5, <2>2, <2>3 DEF Order, WaitInOrder
<1> QED BY <1>8, <1>10, <1>12, <1>13, <1>14 DEF Order

LEMMA RestartOrder == ASSUME QInv, Order, Restart PROVE Order'
<1>1. DOMAIN <<>> = {}
    OBVIOUS
<1> QED
    BY <1>1 DEF Restart, Started, Order, WaitInOrder, WaitIsOlder, HandInOrder,
                CommitInOrder, OldestOfItsGun, InHand, Holding

\* The other steps leave the lists and what is in hand as they are.
LEMMA OtherOrder ==
    ASSUME QInv, Order,
           \/ UNCHANGED <<wait, commits, serial, pc, hand>>
           \/ /\ UNCHANGED <<wait, commits, serial>>
              /\ pc' \in {"commit", "next", "run", "select"}
    PROVE  Order'
<1>1. /\ InHand' = 1 => InHand = 1 /\ hand' = hand
      /\ Holding' => Holding /\ hand' = hand
    BY DEF InHand, Holding
<1>2. pc' = "place" => pc = "place" /\ hand' = hand
    OBVIOUS
<1>3. UNCHANGED <<wait, commits, serial>>
    OBVIOUS
<1> QED
    BY <1>1, <1>2, <1>3
       DEF Order, WaitInOrder, WaitIsOlder, HandInOrder, CommitInOrder, OldestOfItsGun

LEMMA NextOrder == QInv /\ Order /\ [QNext]_qvars => Order'
<1> SUFFICES ASSUME QInv, Order, [QNext]_qvars PROVE Order'
    OBVIOUS
<1> USE DEF main, web
<1>1. CASE (\E id \in Jid, g \in Gun : Ask(id, g)) \/ job_exsit
  <2>1. UNCHANGED <<wait, commits, serial, pc, hand>>
      BY <1>1 DEF Ask, job_exsit, LookIn
  <2> QED BY <2>1, OtherOrder
<1>2. CASE job_select_commit("commit", "run", "fork") \/ job_select_commit("next", "run", "stale")
    BY <1>2, TakeOrder
<1>3. CASE job_fork
    BY <1>3, ForkOrder DEF job_fork
<1>4. CASE Stale
  <2>1. CASE Fork
      BY <1>4, <2>1, ForkOrder DEF Stale
  <2>2. CASE pc' = "next" /\ UNCHANGED <<commits, wait, nr, job, hand, forked, web>>
      BY <2>2, OtherOrder
  <2> QED BY <1>4, <2>1, <2>2 DEF Stale
<1>5. CASE job_running \/ NothingToSelect \/ Place
  <2>1. UNCHANGED <<wait, commits, serial>> /\ pc' \in {"commit", "next", "run", "select"}
      BY <1>5 DEF job_running, NothingToSelect, Place
  <2> QED BY <2>1, OtherOrder
<1>6. CASE \E g \in Gun, i \in DOMAIN wait : job_select_wait(g, i)
    BY <1>6, SelectOrder
<1>7. CASE UNCHANGED qvars
    BY <1>7, OtherOrder DEF qvars
<1> QED
    BY <1>1, <1>2, <1>3, <1>4, <1>5, <1>6, <1>7, CommitOrder, RestartOrder DEF QNext

\* The order is an invariant, whatever the main loop holds between two lists.
THEOREM OrderInvariant == QSpec => []Order
<1>1. QSpec => QInit /\ [][QNext]_qvars
    BY DEF QSpec
<1> QED BY <1>1, InitOrder, NextOrder, QueueInvariant, PTL

\* The jobs of a gun start in the order in which their requests were accepted
\* (charge.c 2093-2137), whatever is lost before and however often the process dies.
THEOREM JobsKeepTheirOrder == QSpec => FirstComeFirstServed
<1>1. QInv /\ Order /\ [QNext]_qvars =>
        [\A g \in Gun : job'[g] \notin {job[g], NULL} =>
            \A i \in DOMAIN wait : wait[i].gun = g => wait[i].n > job'[g].n]_qvars
  <2> SUFFICES ASSUME QInv, Order, QNext, NEW g \in Gun, job'[g] \notin {job[g], NULL},
                      NEW i \in DOMAIN wait, wait[i].gun = g
               PROVE  wait[i].n > job'[g].n
      OBVIOUS
  <2> USE DEF main, web
  <2>1. job' # job
      OBVIOUS
  <2>2. ~ job_running
    <3> SUFFICES ASSUME job_running PROVE FALSE
        OBVIOUS
    <3>1. PICK ended \in SUBSET Gun : job' = [x \in Gun |-> IF x \in ended THEN NULL ELSE job[x]]
        BY DEF job_running
    <3> QED BY <3>1
  <2>3. ~ Restart
    <3>1. ASSUME Restart PROVE job'[g] = NULL
        BY <3>1 DEF Restart, Started
    <3> QED BY <3>1
  <2>4. Place
      BY <2>1, <2>2, <2>3
         DEF QNext, Ask, job_exsit, LookIn, job_commit, job_select_commit, job_fork, Stale,
             Fork, job_select_wait, NothingToSelect
  <2>5. hand \in Request /\ hand.gun \in Gun /\ job \in [Gun -> Request \cup {NULL}]
      BY <2>4 DEF Place, QInv, QTypeOK, Held, Request
  <2>6. g = hand.gun /\ job'[g] = hand
      BY <2>4, <2>5 DEF Place
  <2>7. hand.n < wait[i].n
      BY <2>4, <2>6 DEF Place, Order, OldestOfItsGun
  <2>8. hand.n \in Int /\ wait[i].n \in Int
      BY <2>5, Numbers, BoundsAssumption DEF QInv, Request, Serial
  <2> QED BY <2>6, <2>7, <2>8
<1> QED
    BY <1>1, OrderInvariant, QueueInvariant, PTL DEF QSpec, FirstComeFirstServed

-----------------------------------------------------------------------------
(* The station that the queue implements.                                  *)

Abstract == <<Pending, job, serial>>

LEMMA ElementsAppend ==
    ASSUME NEW S, NEW s \in Seq(S), NEW e \in S
    PROVE  Elements(Append(s, e)) = Elements(s) \cup {e}
<1>1. PICK m \in Nat : m = Len(s) /\ DOMAIN s = 1..m
    BY LenProperties
<1>2. DOMAIN Append(s, e) = 1..m + 1
    BY <1>1, AppendProperties, LenProperties
<1>3. Append(s, e)[m + 1] = e /\ \A k \in 1..m : Append(s, e)[k] = s[k]
    BY <1>1, AppendProperties
<1>4. m + 1 \in 1..m + 1 /\ \A k \in 1..m + 1 : k \in 1..m \/ k = m + 1
    BY <1>1
<1>5. 1..m \subseteq 1..m + 1
    BY <1>1
<1> QED
    BY <1>1, <1>2, <1>3, <1>4, <1>5 DEF Elements

\* The job that is taken out of the waiting list was there, the others stay.
LEMMA ElementsRemoved ==
    ASSUME QTypeOK, NEW i \in DOMAIN wait
    PROVE  Elements(wait) = Elements(Removed(i)) \cup {wait[i]}
<1>1. PICK m \in Nat : m = Len(wait) /\ DOMAIN wait = 1..m
    BY LenProperties DEF QTypeOK
<1>2. DOMAIN Removed(i) = 1..m - 1
    BY <1>1, RemoveOne, LenProperties
<1>3. Elements(Removed(i)) \subseteq Elements(wait)
  <2> SUFFICES ASSUME NEW k \in DOMAIN Removed(i) PROVE Removed(i)[k] \in Elements(wait)
      BY DEF Elements
  <2> QED BY RemovedElements DEF Elements
<1>4. ASSUME NEW x \in DOMAIN wait, x # i PROVE wait[x] \in Elements(Removed(i))
  <2>1. CASE x < i
    <3>1. x \in DOMAIN Removed(i)
        BY <1>1, <1>2, <2>1
    <3>2. Removed(i)[x] = wait[x]
        BY <2>1, <3>1, RemovedElements
    <3> QED BY <3>1, <3>2 DEF Elements
  <2>2. CASE ~(x < i)
    <3>1. x - 1 \in DOMAIN Removed(i) /\ ~(x - 1 < i) /\ x - 1 + 1 = x
        BY <1>1, <1>2, <1>4, <2>2
    <3>2. Removed(i)[x - 1] = wait[x]
        BY <3>1, RemovedElements
    <3> QED BY <3>1, <3>2 DEF Elements
  <2> QED BY <2>1, <2>2
<1> QED
    BY <1>3, <1>4 DEF Elements

\* A request that is accepted is pending.
LEMMA CommitAccepts == ASSUME QInv, job_commit PROVE Promise!Accept
<1> DEFINE r == [n |-> serial', jid |-> req.jid, gun |-> req.gun]
<1>1. serial' = serial + 1 /\ req.jid \in Jid /\ req.gun \in Gun /\ r \in Request
    BY BoundsAssumption DEF job_commit, QInv, QTypeOK, Held, Asked, Request, Serial
<1>2. commits' = Append(commits, r) /\ commits \in Seq(Request) /\ UNCHANGED <<wait, pc, hand, job>>
    BY DEF job_commit, main, QInv, QTypeOK
<1>3. Elements(commits') = Elements(commits) \cup {r}
    BY <1>1, <1>2, ElementsAppend
<1>4. InTheHand' = InTheHand /\ Elements(wait)' = Elements(wait)
    BY <1>2 DEF InTheHand, Elements
<1>5. Pending' = Pending \cup {r}
    BY <1>3, <1>4 DEF Pending
<1> QED BY <1>1, <1>2, <1>5 DEF Promise!Accept

\* All requests but the first of the commit list get lost.
LEMMA TakeLoses ==
    ASSUME QInv, NEW here \in {"commit", "next"}, NEW some \in {"fork", "stale"},
           job_select_commit(here, "run", some)
    PROVE  Promise!Lose
<1>1. UNCHANGED <<wait, job, serial>> /\ commits' = <<>>
    BY DEF job_select_commit, web
<1>2. Elements(commits') = {} /\ Elements(wait)' = Elements(wait)
    BY <1>1 DEF Elements
<1>3. InTheHand' \subseteq Elements(commits)
  <2>1. CASE commits = <<>>
      BY <2>1 DEF job_select_commit, InTheHand
  <2>2. CASE commits # <<>>
    <3>1. hand' = Head(commits) /\ Head(commits) = commits[1] /\ 1 \in DOMAIN commits
        BY <2>2, Numbers DEF job_select_commit, QInv
    <3> QED BY <3>1 DEF InTheHand, Elements
  <2> QED BY <2>1, <2>2
<1>4. Pending' \subseteq Pending
    BY <1>2, <1>3 DEF Pending
<1> QED BY <1>1, <1>4 DEF Promise!Lose

\* Moving a request from one list to the other changes nothing for the station.
LEMMA ForkStutters ==
    ASSUME QInv, pc \in {"fork", "stale"}, Fork
    PROVE  UNCHANGED Abstract
<1>1. hand \in Request /\ wait \in Seq(Request)
    BY DEF QInv, Held, QTypeOK
<1>2. wait' = Append(wait, hand) /\ pc' = "next" /\ UNCHANGED <<commits, job, serial>>
    BY DEF Fork, Enqueue, web
<1>3. Elements(wait') = Elements(wait) \cup {hand}
    BY <1>1, <1>2, ElementsAppend
<1>4. InTheHand = {hand} /\ InTheHand' = {} /\ Elements(commits)' = Elements(commits)
    BY <1>2 DEF InTheHand, Elements
<1> QED BY <1>2, <1>3, <1>4 DEF Pending, Abstract

LEMMA SelectStutters ==
    ASSUME QInv, NEW g \in Gun, NEW i \in DOMAIN wait, job_select_wait(g, i)
    PROVE  UNCHANGED Abstract
<1>1. wait' = Removed(i) /\ hand' = wait[i] /\ UNCHANGED <<commits, job, serial>>
    BY DEF job_select_wait, web
<1>2. Elements(wait) = Elements(wait') \cup {hand'}
    BY <1>1, ElementsRemoved DEF QInv
<1>3. InTheHand = {} /\ InTheHand' = {hand'} /\ Elements(commits)' = Elements(commits)
    BY <1>1 DEF job_select_wait, InTheHand, Elements
<1> QED BY <1>1, <1>2, <1>3 DEF Pending, Abstract

\* The job that starts is the oldest of its gun, and it is pending no more.
LEMMA PlaceStarts == ASSUME QInv, Order, Place PROVE Promise!Start
<1>1. hand \in Request /\ hand.n \in Int /\ hand.gun \in Gun
    BY BoundsAssumption DEF Place, QInv, Held, Request, Serial
<1>2. \A g \in Gun : job[g] = NULL
    BY DEF Place, QInv, OneRuns
<1>3. InTheHand = {hand} /\ InTheHand' = {} /\ Holding
    BY DEF Place, InTheHand, Holding
<1>4. \A r \in Elements(wait) \cup Elements(commits) : r.gun = hand.gun => hand.n < r.n
    BY <1>3 DEF Elements, Order, OldestOfItsGun, CommitInOrder, Place
<1>5. hand \notin Elements(wait) \cup Elements(commits)
    BY <1>1, <1>4
<1>6. job' = [job EXCEPT ![hand.gun] = hand] /\ UNCHANGED <<commits, wait, serial>>
    BY DEF Place, web
<1>7. Pending' = Elements(commits) \cup Elements(wait)
    BY <1>3, <1>6 DEF Pending, Elements
<1>8. hand \in Pending /\ Pending' = Pending \ {hand}
    BY <1>3, <1>5, <1>7 DEF Pending
<1>9. \A q \in Pending \ {hand} : q.gun = hand.gun => hand.n < q.n
    BY <1>4, <1>7, <1>8
<1> QED BY <1>2, <1>6, <1>8, <1>9 DEF Promise!Start

LEMMA RestartForgets == ASSUME Restart PROVE Promise!Restart
<1>1. commits' = <<>> /\ wait' = <<>> /\ pc' = "commit" /\ job' = [g \in Gun |-> NULL]
    BY DEF Restart, Started
<1>2. Pending' = {}
    BY <1>1 DEF Pending, Elements, InTheHand
<1> QED BY <1>1, <1>2 DEF Promise!Restart, Restart

LEMMA StaleLoses == ASSUME QInv, Stale PROVE Promise!Lose \/ UNCHANGED Abstract
<1>1. CASE Fork
    BY <1>1, ForkStutters DEF Stale
<1>2. CASE pc' = "next" /\ UNCHANGED <<commits, wait, nr, job, hand, forked, web>>
  <2>1. InTheHand' = {} /\ Elements(commits)' = Elements(commits) /\ Elements(wait)' = Elements(wait)
      BY <1>2 DEF InTheHand, Elements
  <2>2. Pending' \subseteq Pending /\ UNCHANGED <<job, serial>>
      BY <1>2, <2>1 DEF Pending, web
  <2> QED BY <2>2 DEF Promise!Lose
<1> QED BY <1>1, <1>2 DEF Stale

\* The steps that leave every request where it is.
LEMMA Bystanders ==
    ASSUME \/ \E id \in Jid, g \in Gun : Ask(id, g)
           \/ job_exsit \/ NothingToSelect \/ UNCHANGED qvars
    PROVE  UNCHANGED Abstract
<1>1. UNCHANGED <<commits, wait, job, serial>> /\ InTheHand' = InTheHand
    BY DEF Ask, job_exsit, LookIn, NothingToSelect, qvars, main, web, InTheHand
<1> QED BY <1>1 DEF Pending, Elements, Abstract

LEMMA RunningEnds == ASSUME job_running PROVE Promise!End
<1>1. UNCHANGED <<commits, wait, serial>> /\ InTheHand' = InTheHand
    BY DEF job_running, web, InTheHand
<1>2. Pending' = Pending
    BY <1>1 DEF Pending, Elements
<1> QED BY <1>1, <1>2 DEF Promise!End, job_running

LEMMA NextOfStation == QInv /\ Order /\ [QNext]_qvars => [Promise!Next]_Abstract
<1> SUFFICES ASSUME QInv, Order, [QNext]_qvars PROVE Promise!Next \/ UNCHANGED Abstract
    OBVIOUS
<1>1. CASE \E g \in Gun, i \in DOMAIN wait : job_select_wait(g, i)
    BY <1>1, SelectStutters
<1>2. CASE job_fork
    BY <1>2, ForkStutters DEF job_fork
<1>3. CASE job_select_commit("commit", "run", "fork") \/ job_select_commit("next", "run", "stale")
    BY <1>3, TakeLoses DEF Promise!Next
<1>4. CASE Stale
    BY <1>4, StaleLoses DEF Promise!Next
<1>5. CASE job_commit \/ Place \/ Restart \/ job_running
    BY <1>5, CommitAccepts, PlaceStarts, RestartForgets, RunningEnds DEF Promise!Next
<1> QED
    BY <1>1, <1>2, <1>3, <1>4, <1>5, Bystanders DEF QNext

\* JobQueue implements Station: over all interleavings of the two threads, losses and
\* restarts no request starts twice, out of turn, on another gun or during a job.
THEOREM QueueImplementsStation == QSpec => ImplementsStation
<1>1. QInit => Promise!Init
  <2> SUFFICES ASSUME QInit PROVE Promise!Init
      OBVIOUS
  <2>1. Pending = {}
      BY DEF QInit, Started, Pending, Elements, InTheHand
  <2> QED BY <2>1 DEF QInit, Started, Promise!Init
<1> QED
    BY <1>1, NextOfStation, QueueInvariant, OrderInvariant, PTL
    DEF QSpec, ImplementsStation, Promise!Spec, Abstract

-----------------------------------------------------------------------------
(* What follows from the promise of the station alone.                     *)

\* Every number is one that was given out, and a pending request is newer than the
\* one that is served at its gun.
StationInv ==
    /\ serial \in Int
    /\ DOMAIN job = Gun
    /\ \A r \in Pending : r.n \in Int /\ r.n <= serial
    /\ \A g \in Gun : job[g] # NULL => job[g].n \in Int /\ job[g].n <= serial
    /\ Promise!NobodyIsOvertaken

LEMMA InitStation == Promise!Init => StationInv
BY DEF Promise!Init, StationInv, Promise!NobodyIsOvertaken

LEMMA NextStation == StationInv /\ [Promise!Next]_Abstract => StationInv'
<1> SUFFICES ASSUME StationInv, [Promise!Next]_Abstract PROVE StationInv'
    OBVIOUS
<1> USE DEF StationInv, Promise!NobodyIsOvertaken
<1>1. CASE Promise!Accept
  <2>1. PICK r : r.n = serial + 1 /\ Pending' = Pending \cup {r}
      BY <1>1 DEF Promise!Accept
  <2> QED BY <1>1, <2>1 DEF Promise!Accept
<1>2. CASE Promise!Lose
    BY <1>2 DEF Promise!Lose
<1>3. CASE Promise!Start
  <2>1. PICK r \in Pending :
          /\ \A q \in Pending \ {r} : q.gun = r.gun => r.n < q.n
          /\ job' = [job EXCEPT ![r.gun] = r] /\ Pending' = Pending \ {r}
      BY <1>3 DEF Promise!Start
  <2>2. \A g \in Gun : job'[g] # NULL => g = r.gun /\ job'[g] = r
      BY <1>3, <2>1 DEF Promise!Start
  <2> QED BY <1>3, <2>1, <2>2 DEF Promise!Start
<1>4. CASE Promise!End
  <2>1. \A g \in Gun : job'[g] \in {NULL, job[g]}
      BY <1>4 DEF Promise!End
  <2> QED BY <1>4, <2>1 DEF Promise!End
<1>5. CASE Promise!Restart
    BY <1>5 DEF Promise!Restart
<1> QED BY <1>1, <1>2, <1>3, <1>4, <1>5 DEF Promise!Next, Abstract

\* While a job runs, every request for its gun that is in the commit list, in the hands
\* of the main loop or waiting was accepted after it.
THEOREM NobodyOvertakes == QSpec => []Promise!NobodyIsOvertaken
<1>1. StationInv => Promise!NobodyIsOvertaken
    BY DEF StationInv
<1> QED
    BY <1>1, InitStation, NextStation, QueueImplementsStation, PTL
    DEF ImplementsStation, Promise!Spec, Abstract
=============================================================================
