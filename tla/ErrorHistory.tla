---------------------------- MODULE ErrorHistory ----------------------------
(***************************************************************************)
(* The faults of the station: the flags that the devices' handlers set,    *)
(* the list of current faults in memory and the table of their history in  *)
(* the data base.                                                          *)
(*                                                                         *)
(* The charge thread compares flags and list in every pass of its loop     *)
(* (deal_with_system_protection) and keeps list and table under a lock.    *)
(* The web thread may clean the table (ajax_system_history_proc): it       *)
(* deletes the rows and restarts the numbers without the lock, and then    *)
(* numbers and stores the current faults again under it. The process may   *)
(* be killed and is started again by hellhound.sh (main of tom.c).  The    *)
(* data base may refuse a statement, which is only logged.                 *)
(***************************************************************************)
EXTENDS Integers, Sequences, FiniteSets

CONSTANTS
  NrErrors,   \* the flags from S_ERROR + 1 to S_END - 1, in this order
  Modules,    \* those of the charge modules
  Group,      \* S_CHARGE_GROUP_ERR: all modules have failed
  Columns,    \* columns of the table errors: INSERT gives five values
  MaxRaised,  \* bound: times that a flag is set
  MaxCleaned, \* bound: times that the history is cleaned
  MaxCrashed, \* bound: times that the process dies
  MaxRefused  \* bound: statements that the data base refuses

Error == 1..NrErrors

ASSUME ErrorAssumption ==
  /\ NrErrors \in Nat /\ Group \in Error /\ Modules \subseteq Error \ {Group}
  /\ Columns \in {5, 6}
  /\ MaxRaised \in Nat /\ MaxCleaned \in Nat /\ MaxCrashed \in Nat /\ MaxRefused \in Nat

\* begin is error_begin, a time in ms: two passes of the loop are 50 ms apart.
Entry == [id : Error, begin : Nat, seq : Nat]
Row == [id : Error, begin : Nat, seq : Nat, reason : {"ERROR", "NORMAL", "DISCARD"}]

VARIABLES
  raised,   \* the flags that are set
  alarm,    \* S_ERROR
  list,     \* err_head
  next,     \* err_seq_id_next
  table,    \* the table errors
  at,       \* charge thread: the flag it looks at, 0 between two passes
  found,    \* charge thread: whether this pass found a flag
  inserting,\* charge thread: it holds the lock and has not stored the last entry
  wpc,      \* web thread: "idle", or before its "reset" or "insert" while cleaning
  clock,    \* the time of the last error_begin
  refused,  \* history: faults of which the data base refused a statement
  count     \* how often a flag was raised, the history cleaned, the process
            \* killed, a statement refused

charge == <<alarm, at, found, inserting>>
evars == <<raised, list, next, table, charge, wpc, clock, refused, count>>

EInit ==
  /\ raised = {} /\ alarm = FALSE
  /\ list = <<>> /\ next = 0 /\ table = {}
  /\ at = 0 /\ found = FALSE /\ inserting = FALSE
  /\ wpc = "idle" /\ clock = 0 /\ refused = {}
  /\ count = [raised |-> 0, cleaned |-> 0, crashed |-> 0, refused |-> 0]

Listed(e) == \E i \in DOMAIN list : list[i].id = e
AsRow(x, r) == [id |-> x.id, begin |-> x.begin, seq |-> x.seq, reason |-> r]

\* A fault, of an entry or of a row: what the UPDATE of its end looks for.
FaultOf(x) == [id |-> x.id, begin |-> x.begin]
Current == {FaultOf(list[i]) : i \in DOMAIN list}
Faults(rows) == {FaultOf(r) : r \in rows}

\* INSERT INTO errors VALUES with five values, for each of the rows: always an error
\* for a table of other than five columns, and for any table one that may come (a
\* full disk, a file that is locked). An error is logged.
Unstored(rows, no) ==
  IF Columns = 5 THEN no \subseteq rows /\ count.refused + Cardinality(no) <= MaxRefused
                 ELSE no = rows

\* An UPDATE of some rows is done, or is an error that is logged.
Updated(done) == done \/ count.refused < MaxRefused
NotUpdated(rows, done) == IF done THEN {} ELSE Faults(rows)

---------------------------------------------------------------------------
(* Flags of the environment: the handlers of the devices.                  *)

Raise(e) ==
  /\ e \notin raised \cup {Group} /\ count.raised < MaxRaised
  /\ raised' = raised \cup {e}
  /\ count' = [count EXCEPT !.raised = @ + 1]
  /\ UNCHANGED <<list, next, table, charge, wpc, clock, refused>>

Lower(e) ==
  /\ e \in raised \ {Group}
  /\ raised' = raised \ {e}
  /\ UNCHANGED <<list, next, table, charge, wpc, clock, refused, count>>

---------------------------------------------------------------------------
(* The charge thread: deal_with_system_protection.                         *)

Start ==
  /\ at = 0
  /\ at' = 1 /\ found' = FALSE
  /\ raised' = IF Modules # {} /\ Modules \subseteq raised THEN raised \cup {Group} ELSE raised \ {Group}
  /\ UNCHANGED <<alarm, list, next, table, inserting, wpc, clock, refused, count>>

AdvanceShort == at' = IF at = NrErrors - 1 THEN at + 2 ELSE at + 1   \* mutant: one flag too few
Advance == at' = at + 1

\* The flag is set and the fault is known.
Known ==
  /\ at \in Error /\ ~inserting /\ at \in raised /\ Listed(at)
  /\ found' = TRUE /\ Advance
  /\ UNCHANGED <<raised, alarm, list, next, table, inserting, wpc, clock, refused, count>>

\* error_history_begin: a new entry with the next number. The number is read here
\* and counted below; the web thread may restart it in between.
error_history_begin ==
  /\ at \in Error /\ ~inserting /\ at \in raised /\ ~Listed(at)
  /\ clock' = clock + 1
  /\ list' = Append(list, [id |-> at, begin |-> clock', seq |-> next])
  /\ found' = TRUE /\ inserting' = TRUE
  /\ UNCHANGED <<raised, alarm, at, next, table, wpc, refused, count>>

NewRow == {AsRow(list[Len(list)], "ERROR")}

Insert ==
  /\ inserting /\ inserting' = FALSE
  /\ next' = list[Len(list)].seq + 1
  /\ \E no \in SUBSET NewRow :
       /\ Unstored(NewRow, no)
       /\ table' = table \cup (NewRow \ no)
       /\ refused' = refused \cup Faults(no)
       /\ count' = [count EXCEPT !.refused = @ + Cardinality(no)]
  /\ Advance
  /\ UNCHANGED <<raised, alarm, found, list, wpc, clock>>

\* The list without the i-th entry.
Without(i) == SubSeq(list, 1, i - 1) \o SubSeq(list, i + 1, Len(list))

RowsOfId(x) == {r \in table : r.id = x.id}   \* mutant: WHERE error_id only
RowsOf(x) == {r \in table : r.id = x.id /\ r.begin = x.begin}

Closed(rows, r) == {[x EXCEPT !.reason = r] : x \in rows}
Recovered(x) == (table \ RowsOf(x)) \cup Closed(RowsOf(x), "NORMAL")

\* error_history_recover, under the lock: the first entry of the flag goes, if there
\* is one, whether or not the UPDATE is done.
error_history_recover ==
  /\ at \in Error /\ ~inserting /\ at \notin raised
  /\ \/ (\A i \in DOMAIN list : list[i].id # at) /\ UNCHANGED <<list, table, refused, count>>
     \/ \E i \in DOMAIN list, done \in BOOLEAN :
          /\ list[i].id = at /\ \A k \in 1..i - 1 : list[k].id # at
          /\ list' = Without(i)
          /\ Updated(done)
          /\ table' = IF done THEN Recovered(list[i]) ELSE table
          /\ refused' = refused \cup NotUpdated(RowsOf(list[i]), done)
          /\ count' = IF done THEN count ELSE [count EXCEPT !.refused = @ + 1]
  /\ Advance
  /\ UNCHANGED <<raised, alarm, found, inserting, next, wpc, clock>>

Finish ==
  /\ at = NrErrors + 1
  /\ at' = 0
  /\ alarm' = found
  /\ UNCHANGED <<raised, found, inserting, list, next, table, wpc, clock, refused, count>>

ChargeThread ==
  Start \/ Known \/ error_history_begin \/ Insert \/ error_history_recover \/ Finish

---------------------------------------------------------------------------
(* The web thread: "clean" of ajax_system_history_proc.                    *)

\* An error of the DELETE ends the request: nothing has changed.
Delete ==
  /\ wpc = "idle" /\ count.cleaned < MaxCleaned
  /\ table' = {}
  /\ wpc' = "reset"
  /\ count' = [count EXCEPT !.cleaned = @ + 1]
  /\ UNCHANGED <<raised, list, next, charge, clock, refused>>

Reset ==
  /\ wpc = "reset" /\ wpc' = "insert"
  /\ next' = 0
  /\ UNCHANGED <<raised, list, table, charge, clock, refused, count>>

RenumberedTwice(i) == next   \* mutant: the number is not counted
Renumbered(i) == next + i - 1

RestoredButLast == {AsRow(list'[i], "ERROR") : i \in 1..Len(list) - 1}   \* mutant
Restored == {AsRow(list'[i], "ERROR") : i \in DOMAIN list}

\* Under the lock: the faults of the list get new numbers and rows.
Restore ==
  /\ wpc = "insert" /\ wpc' = "idle" /\ ~inserting
  /\ list' = [i \in DOMAIN list |-> [list[i] EXCEPT !.seq = Renumbered(i)]]
  /\ next' = next + Len(list)
  /\ \E no \in SUBSET Restored :
       /\ Unstored(Restored, no)
       /\ table' = table \cup (Restored \ no)
       /\ refused' = (refused \ Current) \cup Faults(no)
       /\ count' = [count EXCEPT !.refused = @ + Cardinality(no)]
  /\ UNCHANGED <<raised, charge, clock>>

WebThread == Delete \/ Reset \/ Restore

---------------------------------------------------------------------------
(* The process dies and starts again.                                      *)

OpenRows == {r \in table : r.reason = "ERROR"}

UnfinishedKept == table   \* mutant: the rows of the last process stay open
AllUnfinished == Closed(table, "DISCARD")   \* mutant: the UPDATE without its WHERE
Unfinished == (table \ OpenRows) \cup Closed(OpenRows, "DISCARD")

\* SELECT MAX(error_seq_id)+1, which is nothing for an empty table.
AfterHighest ==
  IF table = {} THEN {0} ELSE {n \in {r.seq + 1 : r \in table} : \A r \in table : r.seq < n}

Crash ==
  /\ count.crashed < MaxCrashed
  /\ raised' = {} /\ alarm' = FALSE /\ list' = <<>>
  /\ next' \in AfterHighest
  /\ \E done \in BOOLEAN :
       /\ Updated(done)
       /\ table' = IF done THEN Unfinished ELSE table
       /\ refused' = refused \cup NotUpdated(OpenRows, done)
       /\ count' = [count EXCEPT !.crashed = @ + 1, !.refused = IF done THEN @ ELSE @ + 1]
  /\ at' = 0 /\ found' = FALSE /\ inserting' = FALSE
  /\ wpc' = "idle"
  /\ UNCHANGED clock

ENext ==
  \/ \E e \in Error : Raise(e) \/ Lower(e)
  \/ ChargeThread \/ WebThread \/ Crash

\* The loop of the charge thread goes on; a request that is being served is finished.
ESpec ==
  /\ EInit /\ [][ENext]_evars
  /\ WF_evars(ChargeThread) /\ WF_evars(Reset) /\ SF_evars(Restore)

---------------------------------------------------------------------------
ETypeOK ==
  /\ raised \subseteq Error /\ alarm \in BOOLEAN /\ found \in BOOLEAN
  /\ list \in Seq(Entry) /\ Len(list) <= NrErrors /\ next \in Nat
  /\ table \subseteq Row
  /\ at \in 0..NrErrors + 1 /\ inserting \in BOOLEAN /\ (inserting => list # <<>>)
  /\ wpc \in {"idle", "reset", "insert"}
  /\ clock \in Nat

\* Nobody is between two steps that belong together.
Quiet == wpc = "idle" /\ ~inserting

\* The history shows a fault as open only while it is in the list of current
\* faults: rows are closed when a fault goes, when the history is cleaned at the
\* same time, and by the next start when the process dies, unless the data base
\* refused to.
OpenRowsAreListed ==
  \A r \in OpenRows : FaultOf(r) \in Current \cup refused

\* A current fault is in the history, though the web thread deletes and numbers
\* rows without the lock that the charge thread holds, unless the data base refused
\* its last INSERT; and the numbers of current faults tell them apart.
ListedIsRecorded ==
  Quiet => \A i \in DOMAIN list :
             AsRow(list[i], "ERROR") \in table \/ FaultOf(list[i]) \in refused
NumbersAreDistinct ==
  Quiet => \A i, j \in DOMAIN list : list[i].seq = list[j].seq => i = j

\* How a fault ended is never rewritten: only cleaning takes closed rows away.
EndIsFinal ==
  [][\A r \in table : r.reason # "ERROR" => r \in table' \/ Delete]_evars

\* Whatever the charge thread and the web thread write in between, the list and the
\* closed rows are those of module Journal: a fault begins when its entry is made and
\* ends once, in the way that is written down; no end is missing for another reason
\* than a cleaning under way, a statement of its own that the data base refused or,
\* when the process dies, an INSERT that did not come.
Closings == {[id |-> r.id, begin |-> r.begin, reason |-> r.reason] : r \in table \ OpenRows}

History == INSTANCE Journal WITH
  open <- Current, closed <- Closings, cleaning <- wpc # "idle", now <- clock
ImplementsJournal == History!Spec

\* A flag that stays set gets its open row, and one that stays cleared has none, but
\* for the faults of which the data base refused a statement; S_ERROR, the fault lamp,
\* follows the flags.
Shown(e) == \E x \in Faults(OpenRows) \cup (Current \cap refused) : x.id = e
Hidden(e) == \A x \in Faults(OpenRows) \ refused : x.id # e

FlagIsRecorded ==
  /\ <>[](raised # {}) => <>[]alarm
  /\ \A e \in Error :
      /\ <>[](e \in raised) => <>[]Shown(e)
      /\ <>[](e \notin raised) => <>[]Hidden(e)

\* What config/ontom.sql.README:36 says the table is for: with the data base in order,
\* each current fault is in it.
FaultsAreInTheTable ==
  Quiet => \A i \in DOMAIN list : AsRow(list[i], "ERROR") \in table
=============================================================================
