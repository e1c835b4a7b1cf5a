------------------------------- MODULE CanTp -------------------------------
(***************************************************************************)
(* Packets of more than eight bytes on the CAN bus (SAE J1939-21): the     *)
(* BMS asks for a connection (RTS), is cleared to send (CTS), sends the    *)
(* numbered data frames and gets an acknowledgement (EOMA).  The charger's *)
(* half is in the loop of thread_bms_runtime_service, father.c 147-253.    *)
(* The other half, the vehicle, is modelled by what the standard asks of   *)
(* it; frames and replies get lost (queues of the sockets and of the       *)
(* controller overflow) but stay in order, and the CAN does not duplicate. *)
(*                                                                         *)
(* Single frames in between go straight to the driver, touch nothing of    *)
(* this state and are left out, as are frames of other senders.            *)
(***************************************************************************)
EXTENDS Naturals, Sequences

CONSTANTS
  Packs,    \* Packs[m]: number of data frames of the m-th packet of the BMS
  Pgn,      \* Pgn[m]: its parameter group number
  MaxLost,  \* bound: frames and replies that get lost
  MaxJobs   \* bound: jobs that end while the BMS goes on sending

NrMessages == Len(Packs)
Message    == 1..NrMessages

ASSUME CanTpAssumption ==
  /\ Packs \in Seq(Nat \ {0}) /\ Pgn \in Seq(Nat \ {0})
  /\ Len(Packs) >= 1 /\ Len(Pgn) = Len(Packs)
  /\ MaxLost \in Nat /\ MaxJobs \in Nat

Number == UNION {1..Packs[m] : m \in Message}

Frame  == [type : {"RTS", "DT"}, msg : Message, nr : Number \cup {0}]
Reply  == [type : {"CTS", "EOMA"}, pgn : Nat]

VARIABLES
  offered,  \* BMS: the packet it is sending
  bms,      \* BMS: what it does next, "rts", "cts", "data" or "ack"
  sent,     \* BMS: data frames sent on this connection
  frames,   \* the frames in the receive queue of the socket
  replies,  \* the charger's frames on their way to the BMS
  tp,       \* can_tp_param: the packet whose RTS was accepted, tp_rcv_pack_nr
  tp_buff,  \* tp_buff[i]: the packet whose i-th data frame was stored last
  got,      \* what the driver was given last
  lost, jobs

vehicle == <<offered, bms, sent>>
charger == <<tp, tp_buff, got>>
vars == <<vehicle, frames, replies, charger, lost, jobs>>

NoConnection == [msg |-> 0, rcv |-> 0]
Mixture == NrMessages + 1  \* frames of more than one packet under one header

Init ==
  /\ offered = 1 /\ bms = "rts" /\ sent = 0
  /\ frames = <<>> /\ replies = <<>>
  /\ tp = NoConnection
  /\ tp_buff = [i \in Number |-> 0]
  /\ got = 0
  /\ lost = 0 /\ jobs = 0

---------------------------------------------------------------------------
(* The vehicle.                                                            *)

\* A frame reaches the queue behind the others or gets lost.
Put(queue, f) ==
  \/ queue' = Append(queue, f) /\ UNCHANGED lost
  \/ lost < MaxLost /\ lost' = lost + 1 /\ UNCHANGED queue

SendRTS ==
  /\ bms = "rts"
  /\ bms' = "cts"
  /\ Put(frames, [type |-> "RTS", msg |-> offered, nr |-> 0])
  /\ UNCHANGED <<offered, sent, replies, charger, jobs>>

SendData ==
  /\ bms = "data"
  /\ sent' = sent + 1
  /\ bms' = IF sent' = Packs[offered] THEN "ack" ELSE "data"
  /\ Put(frames, [type |-> "DT", msg |-> offered, nr |-> sent'])
  /\ UNCHANGED <<offered, replies, charger, jobs>>

\* The packet after this one; the last packet is sent for ever.
NextPacket ==
  /\ offered' = IF offered < NrMessages THEN offered + 1 ELSE offered
  /\ bms' = "rts" /\ sent' = 0

\* Replies of another group, or that the vehicle does not wait for, are dropped.
HearReply ==
  /\ replies # <<>>
  /\ replies' = Tail(replies)
  /\ LET r == Head(replies) IN
     \/ /\ r = [type |-> "CTS", pgn |-> Pgn[offered]] /\ bms = "cts"
        /\ bms' = "data" /\ sent' = 0 /\ UNCHANGED offered
     \/ /\ r = [type |-> "EOMA", pgn |-> Pgn[offered]] /\ bms = "ack"
        /\ NextPacket
     \/ /\ ~(r = [type |-> "CTS", pgn |-> Pgn[offered]] /\ bms = "cts")
        /\ ~(r = [type |-> "EOMA", pgn |-> Pgn[offered]] /\ bms = "ack")
        /\ UNCHANGED vehicle
  /\ UNCHANGED <<frames, charger, lost, jobs>>

(* The time outs of the standard (1250 ms) are long against the loop of    *)
(* the charger (5 ms): when one strikes nothing is under way any more.     *)
TimedOut == bms \in {"cts", "ack"} /\ frames = <<>> /\ replies = <<>>

Retry ==
  /\ TimedOut
  /\ bms' = "rts" /\ sent' = 0
  /\ UNCHANGED <<offered, frames, replies, charger, lost, jobs>>

GiveUp ==
  /\ TimedOut /\ offered < NrMessages
  /\ NextPacket
  /\ UNCHANGED <<frames, replies, charger, lost, jobs>>

---------------------------------------------------------------------------
(* The charger: one frame in each pass of the loop.                        *)

GroupOf(m) == IF m \in Message THEN Pgn[m] ELSE 0

\* What the driver finds under the header of packet m in the stored frames.
\* Without a connection the group number is 0 and the driver passes it over.
Handed(m, buff) ==
  IF m = 0 THEN got
  ELSE IF \A i \in 1..Packs[m] : buff[i] = m THEN m ELSE Mixture

\* A request of one frame or less is an error and is ignored; any other starts
\* a connection, also in the middle of another one.
ReadRTSUncounted ==  \* mutant: tp_rcv_pack_nr goes on from the broken connection
  /\ frames # <<>> /\ Head(frames).type = "RTS"
  /\ frames' = Tail(frames)
  /\ LET m == Head(frames).msg IN
     \/ /\ Packs[m] > 1
        /\ tp' = [tp EXCEPT !.msg = m]
        /\ Put(replies, [type |-> "CTS", pgn |-> Pgn[m]])
     \/ /\ Packs[m] <= 1
        /\ UNCHANGED <<tp, replies, lost>>
  /\ UNCHANGED <<vehicle, tp_buff, got, jobs>>

ReadRTS ==
  /\ frames # <<>> /\ Head(frames).type = "RTS"
  /\ frames' = Tail(frames)
  /\ LET m == Head(frames).msg IN
     \/ /\ Packs[m] > 1
        /\ tp' = [msg |-> m, rcv |-> 0]
        /\ Put(replies, [type |-> "CTS", pgn |-> Pgn[m]])
     \/ /\ Packs[m] <= 1
        /\ UNCHANGED <<tp, replies, lost>>
  /\ UNCHANGED <<vehicle, tp_buff, got, jobs>>

\* The frames are counted, whatever their numbers.
CompleteEarly(m, n) == m \in Message => n > Packs[m] - 2  \* mutant: one frame too few
Complete(m, n) == m \in Message => n >= Packs[m]

ReadData ==
  /\ frames # <<>> /\ Head(frames).type = "DT"
  /\ frames' = Tail(frames)
  /\ LET f == Head(frames)
         buff == [tp_buff EXCEPT ![f.nr] = f.msg]
         n == IF tp.msg = 0 THEN 0 ELSE tp.rcv + 1
     IN  /\ tp_buff' = buff
         /\ tp' = [tp EXCEPT !.rcv = n]
         /\ \/ /\ Complete(tp.msg, n)
               /\ got' = Handed(tp.msg, buff)
               /\ Put(replies, [type |-> "EOMA", pgn |-> GroupOf(tp.msg)])
            \/ /\ ~Complete(tp.msg, n)
               /\ UNCHANGED <<got, replies, lost>>
  /\ UNCHANGED <<vehicle, jobs>>

\* The job ends; the next one starts without a connection, on a new socket.
\* tp_buff is the thread's and stays.
NewJob ==
  /\ jobs < MaxJobs
  /\ jobs' = jobs + 1
  /\ frames' = <<>>
  /\ tp' = NoConnection
  /\ UNCHANGED <<vehicle, replies, tp_buff, got, lost>>

Next ==
  \/ SendRTS \/ SendData \/ HearReply \/ Retry \/ GiveUp
  \/ ReadRTS \/ ReadData \/ NewJob

(* The loop of the charger goes on, and the vehicle goes on sending: a     *)
(* packet that fails over and over is given up, the last one, which stands *)
(* for those it repeats all the time, never.                               *)
Fairness ==
  /\ WF_vars(SendRTS \/ SendData) /\ WF_vars(HearReply) /\ WF_vars(Retry)
  /\ SF_vars(GiveUp)
  /\ WF_vars(ReadRTS \/ ReadData)
Spec == Init /\ [][Next]_vars /\ Fairness

---------------------------------------------------------------------------
TpTypeOK ==
  /\ offered \in Message /\ bms \in {"rts", "cts", "data", "ack"}
  /\ sent \in 0..Packs[offered]
  /\ frames \in Seq(Frame) /\ replies \in Seq(Reply)
  /\ tp \in [msg : Message \cup {0}, rcv : Nat]
  /\ tp_buff \in [Number -> Message \cup {0}]
  /\ got \in 0..Mixture
  /\ lost \in 0..MaxLost /\ jobs \in 0..MaxJobs

(* The BMS is never told that a packet has arrived which the driver did not  *)
(* get (the acknowledgement of father.c 171-189), though frames of it and    *)
(* of its predecessors may have been lost and a job may have ended.          *)
AcknowledgedIsDelivered ==
  \A k \in DOMAIN replies :
    replies[k] = [type |-> "EOMA", pgn |-> Pgn[offered]] /\ bms = "ack" => got = offered

(* The connection delivers packets as TpChannel promises the driver: whole,  *)
(* the current one, and in the end.  A packet of one frame is refused.       *)
Channel == INSTANCE TpChannel
           WITH NrMessages <- NrMessages, offered <- offered, got <- got
ImplementsChannel == Channel!Spec
=============================================================================
