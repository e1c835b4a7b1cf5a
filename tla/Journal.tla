------------------------------ MODULE Journal ------------------------------
(***************************************************************************)
(* What the history of faults promises to those who read it. A fault       *)
(* begins while no other of its flag is current. Its end is written down   *)
(* once, with how it ended, and stays until the history is cleaned.  The   *)
(* end of a fault may get lost while that is being done, when the fault    *)
(* has just begun and the process dies, and when the data base refuses to  *)
(* write about this fault; then a later start may still write it down.     *)
(* ErrorHistory implements this.                                           *)
(***************************************************************************)
EXTENDS Naturals

CONSTANT Error

VARIABLES
  open,     \* the current faults
  closed,   \* the faults whose end is written down, with the reason
  cleaning, \* whether the history is being cleaned
  refused,  \* the faults about which the data base refused to write
  now       \* when the last fault began

Fault(e, t) == [id |-> e, begin |-> t]
Ended(x, why) == [id |-> x.id, begin |-> x.begin, reason |-> why]
HasEnd(x) == \E c \in closed : c.id = x.id /\ c.begin = x.begin

Init == open = {} /\ closed = {} /\ cleaning = FALSE /\ refused = {} /\ now = 0

Begin(e) ==
  /\ \A x \in open : x.id # e
  /\ now' = now + 1
  /\ open' = open \cup {Fault(e, now')}
  /\ UNCHANGED <<closed, cleaning, refused>>

Refuse(x) == refused' = refused \cup {x} /\ UNCHANGED <<open, closed, cleaning, now>>

End(x) ==
  /\ open' = open \ {x}
  /\ \/ closed' = closed \cup {Ended(x, "NORMAL")} /\ refused' = refused
     \/ closed' = closed /\ cleaning /\ refused' = refused
     \/ closed' = closed /\ refused' = refused \cup {x}
  /\ UNCHANGED <<cleaning, now>>

Clean == closed' = {} /\ cleaning' = TRUE /\ UNCHANGED <<open, refused, now>>

\* The current faults are written again.
Cleaned ==
  /\ cleaning' = FALSE
  /\ \E no \in SUBSET open : refused' = (refused \ open) \cup no
  /\ UNCHANGED <<open, closed, now>>

\* The process dies; the faults that were current have not ended.
Die ==
  /\ open' = {} /\ cleaning' = FALSE
  /\ \E no \in SUBSET open : refused' = refused \cup no
  /\ \E written \in SUBSET {x \in open \cup refused : ~HasEnd(x)} :
        /\ closed' = closed \cup {Ended(x, "DISCARD") : x \in written}
        /\ ~cleaning => \A x \in open \ written : x.begin = now \/ x \in refused'
  /\ UNCHANGED now

Next ==
  \/ \E e \in Error : Begin(e)
  \/ \E x \in open : Refuse(x) \/ End(x)
  \/ Clean \/ Cleaned \/ Die

Spec == Init /\ [][Next]_<<open, closed, cleaning, refused, now>>
-----------------------------------------------------------------------------
\* A fault ended in one way, and a current one in none.
EndedOnce ==
  /\ \A x, y \in closed : x.id = y.id /\ x.begin = y.begin => x = y
  /\ \A x \in open, y \in closed : ~(x.id = y.id /\ x.begin = y.begin)
=============================================================================
