------------------------------ MODULE Station ------------------------------
(***************************************************************************)
(* What a station promises to those who ask it for a charge. A request     *)
(* that is accepted is started at most once, on the gun it asked for, when *)
(* no job runs, and after every older one of that gun that is still        *)
(* pending. It may also be lost, and all are when the process dies.        *)
(* JobQueue implements this.                                               *)
(***************************************************************************)
EXTENDS Naturals

CONSTANTS Gun, Jid, NULL

VARIABLES
    pending,  \* the accepted requests that have neither started nor got lost
    running,  \* running[g]: the request that is served at gun g, or NULL
    last      \* the number of the request that was accepted last

Init == pending = {} /\ running = [g \in Gun |-> NULL] /\ last = 0

Accept ==
    /\ last' = last + 1
    /\ \E id \in Jid, g \in Gun :
          pending' = pending \cup {[n |-> last', jid |-> id, gun |-> g]}
    /\ UNCHANGED running

Lose == pending' \subseteq pending /\ UNCHANGED <<running, last>>

Start ==
    /\ \A g \in Gun : running[g] = NULL
    /\ \E r \in pending :
          /\ \A q \in pending \ {r} : q.gun = r.gun => r.n < q.n
          /\ running' = [running EXCEPT ![r.gun] = r]
          /\ pending' = pending \ {r}
    /\ UNCHANGED last

End ==
    /\ \E ended \in SUBSET Gun : running' = [g \in Gun |-> IF g \in ended THEN NULL ELSE running[g]]
    /\ UNCHANGED <<pending, last>>

Restart == pending' = {} /\ running' = [g \in Gun |-> NULL] /\ UNCHANGED last

Next == Accept \/ Lose \/ Start \/ End \/ Restart

Spec == Init /\ [][Next]_<<pending, running, last>>
-----------------------------------------------------------------------------
\* Nobody is overtaken: the request that is served at a gun is older than all that
\* are pending for it, also than those accepted while it runs.
NobodyIsOvertaken ==
    \A g \in Gun : running[g] # NULL =>
        \A r \in pending : r.gun = g => running[g].n < r.n
=============================================================================
