-------------------------------- MODULE Uart --------------------------------
(***************************************************************************)
(* A serial bus and the devices on it: thread_uart_service and             *)
(* uart4_bp_evt_handle of ontom/blueprint.c with the parts that the        *)
(* devices' handlers have in common.                                       *)
(*                                                                         *)
(* The thread asks the users of the bus in turn. A handler that needs the  *)
(* next request at once, because a plug was put in or a card was shown,    *)
(* answers ERR_NEED_ECHO, and its user is asked again, at most five times  *)
(* on end. A device that stays silent too often is marked COMM_DOWN, which *)
(* keeps the station from charging.                                        *)
(***************************************************************************)
EXTENDS Naturals

CONSTANTS
  MaxUsers,   \* users of the bus, at most: users_nr comes from the data base
  DiedLine,   \* died_line of a user: unanswered requests until it is down
  Reserved,   \* users that have something to send only now and then
  Talkative   \* users whose handler may answer ERR_NEED_ECHO

Slot == 1..MaxUsers

ASSUME UartAssumption ==
  /\ MaxUsers \in Nat \ {0}
  /\ DiedLine \in [Slot -> Nat \ {0}]
  /\ Reserved \subseteq Slot /\ Talkative \subseteq Slot

VARIABLES
  users_nr,
  sequce,        \* whose turn it is, modulo users_nr
  master,        \* the user that was asked last, 0 if there is none
  continues_nr,  \* answers with ERR_NEED_ECHO on end
  status,        \* of the port: writing (a request comes next) or reading
  died,          \* unanswered requests, as far as died_line tells them apart
  down,          \* the users marked COMM_DOWN
  line,          \* the environment: how a device answers
  waited         \* history: requests since the user had its turn

bus == <<users_nr, sequce, master, continues_nr, status>>
uvars == <<bus, died, down, line, waited>>

User == 1..users_nr
Line == {"good", "mute", "bad"}   \* bad: a frame, a broken frame or none, each time anew

UInit ==
  /\ users_nr \in Slot
  /\ sequce = 0 /\ master = 0 /\ continues_nr = 0 /\ status = "WR"
  /\ died = [u \in Slot |-> 0] /\ down = {}
  /\ line \in [Slot -> {"good", "mute"}]
  /\ waited = [u \in Slot |-> 0]

---------------------------------------------------------------------------
(* Requests.                                                               *)

Turn == sequce + 1
Following(n) == (n + 1) % users_nr
Previous(n) == (n + users_nr - 1) % users_nr

\* The same user twice, although nobody asked for it: an error in the order.
OutOfOrder == master = Turn /\ continues_nr = 0

Waiting(u) ==
  waited' = [v \in Slot |-> IF v = u \/ v \notin User THEN 0 ELSE waited[v] + 1]

\* The turn goes on whatever becomes of the request.
Ask(u) ==
  /\ status = "WR" /\ u = Turn /\ ~OutOfOrder
  /\ sequce' = Following(sequce)
  /\ master' = u
  /\ Waiting(u)
  /\ UNCHANGED <<users_nr, continues_nr, died, down, line>>

Send(u) == Ask(u) /\ status' = "RD"

\* The port does not take the bytes: the request is dropped.
SendFails(u) == Ask(u) /\ UNCHANGED status

\* The handler has nothing to send, or something that needs no answer.
NothingToAsk(u) == u \in Reserved /\ Ask(u) /\ UNCHANGED status

Skip ==
  /\ status = "WR" /\ OutOfOrder
  /\ master' = 0
  /\ Waiting(0)
  /\ UNCHANGED <<users_nr, sequce, continues_nr, status, died, down, line>>

---------------------------------------------------------------------------
(* Answers.                                                                *)

AsksAgainUnbounded ==   \* mutant: the limit of five is not looked at
  /\ continues_nr' = IF continues_nr < 5 THEN continues_nr + 1 ELSE 5
  /\ sequce' = Previous(sequce)

\* ERR_NEED_ECHO: the turn is given back, but not after the fifth time on end.
AsksAgain ==
  IF continues_nr + 1 < 5
  THEN continues_nr' = continues_nr + 1 /\ sequce' = Previous(sequce)
  ELSE continues_nr' = 0 /\ UNCHANGED sequce

\* Mutant: the handler looks at the count after the bus has cleared it.
RecoveredLate(u) == IF died'[u] >= DiedLine[u] THEN down \ {u} ELSE down
Recovered(u) == down \ {u}

\* BP_EVT_RX_FRAME: the handler takes the mark away, the bus forgets the count.
Frame ==
  /\ status = "RD" /\ line[master] \in {"good", "bad"}
  /\ died' = [died EXCEPT ![master] = 0]
  /\ down' = Recovered(master)
  /\ \/ master \in Talkative /\ AsksAgain
     \/ continues_nr' = 0 /\ UNCHANGED sequce
  /\ status' = "WR"
  /\ UNCHANGED <<users_nr, master, line, waited>>

\* BP_EVT_FRAME_CHECK_ERROR: counted for the statistics, not as a lost frame.
CheckError ==
  /\ status = "RD" /\ line[master] = "bad"
  /\ continues_nr' = 0
  /\ status' = "WR"
  /\ UNCHANGED <<users_nr, sequce, master, died, down, line, waited>>

LostForgotten(u) == 0   \* mutant: a lost frame ends the row of lost frames
Lost(u) == IF died[u] < DiedLine[u] THEN died[u] + 1 ELSE died[u]

\* BP_EVT_RX_BYTE_TIMEOUT and RX_FRAME_TIMEOUT, after 800 ms. continues_nr stays.
Timeout ==
  /\ status = "RD" /\ line[master] \in {"mute", "bad"}
  /\ died' = [died EXCEPT ![master] = Lost(master)]
  /\ down' = IF died'[master] >= DiedLine[master] THEN down \cup {master} ELSE down
  /\ status' = "WR"
  /\ UNCHANGED <<users_nr, sequce, master, continues_nr, line, waited>>

Answer == Frame \/ CheckError \/ Timeout

\* A device or its cable changes.
Change ==
  /\ \E u \in User, l \in Line : line' = [line EXCEPT ![u] = l]
  /\ UNCHANGED <<bus, died, down, waited>>

Request == Skip \/ \E u \in User : Send(u) \/ SendFails(u) \/ NothingToAsk(u)

UNext == Request \/ Answer \/ Change

(* The thread never stops, a port takes bytes again and again, and a user    *)
(* that has something to send only now and then is not relied on.            *)
UFairness ==
  /\ WF_uvars(Request) /\ WF_uvars(Answer)
  /\ \A u \in Slot : SF_uvars(u \in User /\ Send(u))

USpec == UInit /\ [][UNext]_uvars /\ UFairness

---------------------------------------------------------------------------
UTypeOK ==
  /\ users_nr \in Slot
  /\ sequce \in 0..users_nr - 1 /\ master \in 0..users_nr
  /\ continues_nr \in 0..4
  /\ status \in {"RD", "WR"} /\ (status = "RD" => master # 0)
  /\ died \in [Slot -> Nat] /\ \A u \in Slot : died[u] \in 0..DiedLine[u]
  /\ down = {u \in Slot : died[u] = DiedLine[u]}
  /\ line \in [Slot -> Line] /\ waited \in [Slot -> Nat]

(* However much the others have to say, and whatever becomes of the answers, *)
(* no user waits longer than five requests of every other one, and a user    *)
(* alone on the bus (which is taken for an error in the order) waits for one.*)
NobodyStarves ==
  \A u \in User : waited[u] <= IF users_nr = 1 THEN 1 ELSE 5 * (users_nr - 1)

(* A device that does not answer any more is reported in the end, and stays  *)
(* reported (charge.c 1118-1128 stops the station then).                     *)
SilentIsReported ==
  \A u \in Slot : <>[](u \in User /\ line[u] = "mute") => <>[](u \in down)

(* A device that answers again is taken back, however long it was away.      *)
AnsweringIsTakenBack ==
  \A u \in Slot : <>[](u \in User /\ line[u] = "good") => <>[](u \notin down)
=============================================================================
