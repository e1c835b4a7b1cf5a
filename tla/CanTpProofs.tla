---------------------------- MODULE CanTpProofs ----------------------------
(***************************************************************************)
(* CanTp for any packets and any number of lost frames and ended jobs:     *)
(* what is acknowledged has been delivered, and every step is one of       *)
(* TpChannel.                                                              *)
(***************************************************************************)
EXTENDS CanTp, SequenceTheorems, TLAPS

\* Outside of a connection nothing is under way; a request and the answer to it
\* are never under way together with anything else.
Opening ==
  /\ bms = "rts" => frames = <<>> /\ replies = <<>>
  /\ bms = "cts" =>
       /\ \/ frames = <<>>
          \/ /\ Len(frames) = 1 /\ replies = <<>>
             /\ frames[1].type = "RTS" /\ frames[1].msg = offered
       /\ \/ replies = <<>>
          \/ /\ Len(replies) = 1 /\ replies[1] = [type |-> "CTS", pgn |-> Pgn[offered]]
             /\ tp = NoConnection \/ tp = [msg |-> offered, rcv |-> 0]

\* In a connection the charger has counted at most the frames that the BMS has sent
\* and that are not under way; if it has counted them all none was lost.
Counting ==
  bms \in {"data", "ack"} =>
    /\ sent <= Packs[offered] /\ (bms = "data" <=> sent < Packs[offered])
    /\ \A k \in 1..Len(frames) :
         frames[k].type = "DT" /\ frames[k].msg = offered /\ frames[k].nr \in 1..Packs[offered]
    /\ \/ tp.msg = 0
       \/ /\ tp.msg = offered /\ tp.rcv + Len(frames) <= sent
          /\ tp.rcv + Len(frames) = sent =>
               /\ \A i \in 1..tp.rcv : tp_buff[i] = offered
               /\ \A k \in 1..Len(frames) : frames[k].nr = tp.rcv + k

\* The acknowledgement is the last thing that is under way.
Closing ==
  bms \in {"data", "ack"} =>
    \A k \in 1..Len(replies) :
      /\ replies[k].type = "EOMA" /\ replies[k].pgn \in {0, Pgn[offered]}
      /\ replies[k].pgn = Pgn[offered] =>
           k = Len(replies) /\ bms = "ack" /\ frames = <<>> /\ got = offered

TpInv == TpTypeOK /\ Opening /\ Counting /\ Closing

---------------------------------------------------------------------------
LEMMA Constants ==
  /\ NrMessages \in Nat /\ NrMessages >= 1 /\ Message = 1..NrMessages
  /\ \A m \in Message : /\ Packs[m] \in Nat /\ Packs[m] >= 1 /\ Pgn[m] \in Nat /\ Pgn[m] > 0
                        /\ 1..Packs[m] \subseteq Number
<1>1. NrMessages \in Nat /\ NrMessages >= 1 /\ Message = 1..NrMessages
  BY CanTpAssumption, LenProperties DEF NrMessages, Message
<1>2. ASSUME NEW m \in Message
      PROVE  Packs[m] \in Nat \ {0} /\ Pgn[m] \in Nat \ {0}
  BY <1>1, CanTpAssumption, ElementOfSeq DEF NrMessages
<1>3. ASSUME NEW m \in Message PROVE 1..Packs[m] \subseteq Number
  BY DEF Number
<1> QED BY <1>1, <1>2, <1>3

\* The queues: a frame is put behind the others or lost, or taken from the front.
LEMMA PutInQueue ==
  ASSUME NEW S, NEW q \in Seq(S), NEW f \in S, NEW r, r = Append(q, f) \/ r = q
  PROVE  /\ r \in Seq(S) /\ Len(r) \in Nat /\ Len(q) \in Nat
         /\ Len(r) <= Len(q) + 1 /\ Len(q) <= Len(r)
         /\ \A k \in 1..Len(q) : r[k] = q[k]
         /\ Len(r) > Len(q) => r[Len(r)] = f
  OBVIOUS

LEMMA PutInEmptyQueue ==
  ASSUME NEW S, NEW f \in S, NEW r, r = Append(<<>>, f) \/ r = <<>>
  PROVE  r \in Seq(S) /\ (r = <<>> \/ (Len(r) = 1 /\ r[1] = f))
<1>1. CASE r = Append(<<>>, f)
  BY <1>1, EmptySeq, AppendProperties
<1>2. CASE r = <<>>
  BY <1>2, EmptySeq
<1> QED BY <1>1, <1>2

LEMMA TakeFromQueue ==
  ASSUME NEW S, NEW q \in Seq(S), q # <<>>
  PROVE  /\ Head(q) \in S /\ Head(q) = q[1] /\ Tail(q) \in Seq(S)
         /\ Len(q) \in Nat /\ Len(q) >= 1 /\ Len(Tail(q)) = Len(q) - 1
         /\ \A k \in 1..Len(q) - 1 : Tail(q)[k] = q[k + 1]
  BY HeadTailProperties, EmptySeq

LEMMA EmptyQueue ==
  ASSUME NEW S, NEW q \in Seq(S)
  PROVE  Len(q) \in Nat /\ (q = <<>> <=> Len(q) = 0)
  BY EmptySeq

\* What the actions do to the queues, in one place.
Queues ==
  /\ Len(frames) \in Nat /\ (frames = <<>> <=> Len(frames) = 0)
  /\ Len(replies) \in Nat /\ (replies = <<>> <=> Len(replies) = 0)

LEMMA QueuesOK == TpTypeOK => Queues
BY EmptyQueue DEF TpTypeOK, Queues

LEMMA Start == Init => TpInv
<1> SUFFICES ASSUME Init PROVE TpInv
  OBVIOUS
<1> USE DEF Init, NoConnection
<1>1. 1 \in Message /\ Message \subseteq Nat /\ Packs[1] \in Nat /\ NrMessages \in Nat
  BY Constants
<1>2. Mixture \in Nat
  BY <1>1 DEF Mixture
<1>3. TpTypeOK
  BY <1>1, <1>2, CanTpAssumption, EmptySeq DEF TpTypeOK
<1>4. Opening /\ Counting /\ Closing
  BY DEF Opening, Counting, Closing
<1> QED BY <1>3, <1>4 DEF TpInv

---------------------------------------------------------------------------
(* The vehicle.                                                            *)

LEMMA RequestSent == TpInv /\ SendRTS => TpInv'
<1> SUFFICES ASSUME TpInv, SendRTS PROVE TpInv'
  OBVIOUS
<1> USE DEF vehicle, charger
<1> DEFINE f == [type |-> "RTS", msg |-> offered, nr |-> 0]
<1>1. TpTypeOK /\ Queues /\ frames = <<>> /\ replies = <<>> /\ f \in Frame
  BY QueuesOK DEF TpInv, Opening, SendRTS, TpTypeOK, Frame
<1>2. frames' = Append(frames, f) \/ frames' = frames
  BY DEF SendRTS, Put
<1> HIDE DEF f
<1>3. /\ frames' \in Seq(Frame) /\ Len(frames') \in Nat /\ Len(frames') <= 1
      /\ Len(frames') > 0 => Len(frames') = 1 /\ frames'[1] = f
  <2>1. frames' = Append(<<>>, f) \/ frames' = <<>>
    BY <1>1, <1>2
  <2>2. frames' \in Seq(Frame) /\ (frames' = <<>> \/ (Len(frames') = 1 /\ frames'[1] = f))
    BY <1>1, <2>1, PutInEmptyQueue
  <2>3. frames' = <<>> => Len(frames') = 0
    BY <2>2, EmptyQueue
  <2> QED BY <2>2, <2>3
<1>4. lost' \in 0..MaxLost
  BY <1>1, CanTpAssumption DEF SendRTS, Put, TpTypeOK
<1>5. TpTypeOK'
  BY <1>1, <1>3, <1>4 DEF SendRTS, TpTypeOK
<1>6. Opening'
  BY <1>1, <1>3, EmptyQueue DEF SendRTS, Opening, f
<1> QED BY <1>5, <1>6 DEF TpInv, SendRTS, Counting, Closing

\* c frames counted, a under way before and b after the next is sent.
LEMMA NoneWasLost ==
  ASSUME NEW c \in Nat, NEW a \in Nat, NEW b \in Nat, NEW s \in Nat,
         c + a <= s, b <= a + 1, c + b = s + 1
  PROVE  c + a = s /\ b = a + 1
OBVIOUS

LEMMA DataSent == TpInv /\ SendData => TpInv'
<1> SUFFICES ASSUME TpInv, SendData PROVE TpInv'
  OBVIOUS
<1> USE DEF vehicle, charger
<1> DEFINE f == [type |-> "DT", msg |-> offered, nr |-> sent']
           p == Packs[offered]
<1>1. /\ TpTypeOK /\ Queues /\ bms = "data" /\ sent \in Nat /\ sent < p
      /\ p \in Nat /\ sent' = sent + 1 /\ offered \in Message
  BY QueuesOK, Constants DEF TpInv, Counting, SendData, TpTypeOK
<1>2. sent' \in 1..p /\ f \in Frame
  <2>1. sent' \in 1..p
    BY <1>1
  <2>2. 1..p \subseteq Number
    BY <1>1, Constants
  <2> QED BY <1>1, <2>1, <2>2 DEF Frame
<1>3. frames' = Append(frames, f) \/ frames' = frames
  BY DEF SendData, Put
<1> HIDE DEF f
<1>4. /\ frames' \in Seq(Frame) /\ Len(frames') \in Nat
      /\ Len(frames') <= Len(frames) + 1 /\ Len(frames) <= Len(frames')
      /\ \A k \in 1..Len(frames) : frames'[k] = frames[k]
      /\ Len(frames') > Len(frames) => frames'[Len(frames')] = f
  BY <1>1, <1>2, <1>3, PutInQueue DEF TpTypeOK
<1>5. lost' \in 0..MaxLost
  BY <1>1, CanTpAssumption DEF SendData, Put, TpTypeOK
<1>6. /\ UNCHANGED <<offered, replies, tp, tp_buff, got, jobs>>
      /\ bms' = IF sent' = p THEN "ack" ELSE "data"
  BY DEF SendData
<1>7. TpTypeOK'
  BY <1>1, <1>2, <1>4, <1>5, <1>6 DEF TpTypeOK
<1>8. bms' \in {"data", "ack"} /\ (bms' = "data" <=> sent' < p)
  BY <1>1, <1>2, <1>6
<1>9. \A k \in 1..Len(frames') : k \in 1..Len(frames) \/ (k = Len(frames') /\ Len(frames') = Len(frames) + 1)
  BY <1>1, <1>4 DEF Queues
<1>10. \A k \in 1..Len(frames') :
         frames'[k].type = "DT" /\ frames'[k].msg = offered /\ frames'[k].nr \in 1..p
  BY <1>1, <1>2, <1>4, <1>9 DEF TpInv, Counting, f, Queues
<1>11. ASSUME tp.msg # 0
       PROVE  /\ tp.msg = offered /\ tp.rcv + Len(frames') <= sent'
              /\ tp.rcv + Len(frames') = sent' =>
                   /\ \A i \in 1..tp.rcv : tp_buff[i] = offered
                   /\ \A k \in 1..Len(frames') : frames'[k].nr = tp.rcv + k
  <2>1. /\ tp.msg = offered /\ tp.rcv + Len(frames) <= sent /\ tp.rcv \in Nat
        /\ tp.rcv + Len(frames) = sent =>
             /\ \A i \in 1..tp.rcv : tp_buff[i] = offered
             /\ \A k \in 1..Len(frames) : frames[k].nr = tp.rcv + k
    BY <1>1, <1>11 DEF TpInv, Counting, TpTypeOK
  <2>2. tp.rcv + Len(frames') <= sent'
    BY <1>1, <1>4, <2>1 DEF Queues
  <2>3. ASSUME tp.rcv + Len(frames') = sent'
        PROVE  tp.rcv + Len(frames) = sent /\ Len(frames') = Len(frames) + 1 /\ f.nr = tp.rcv + Len(frames')
    <3>1. tp.rcv + Len(frames) = sent /\ Len(frames') = Len(frames) + 1
      BY <1>1, <1>4, <2>1, <2>3, NoneWasLost DEF Queues
    <3> QED BY <2>3, <3>1 DEF f
  <2>4. ASSUME tp.rcv + Len(frames') = sent', NEW k \in 1..Len(frames')
        PROVE  frames'[k].nr = tp.rcv + k
    <3>1. CASE k \in 1..Len(frames)
      BY <1>4, <2>1, <2>3, <2>4, <3>1
    <3>2. CASE k = Len(frames')
      <4>1. frames'[k] = f
        BY <1>1, <1>4, <2>3, <2>4, <3>2 DEF Queues
      <4> QED BY <2>3, <2>4, <3>2, <4>1
    <3> QED BY <1>9, <2>4, <3>1, <3>2
  <2> QED BY <2>1, <2>2, <2>3, <2>4
<1>12. Counting'
  BY <1>2, <1>6, <1>8, <1>10, <1>11 DEF Counting
<1>13. Opening' /\ Closing'
  BY <1>1, <1>6, <1>8 DEF Opening, Closing, TpInv
<1> QED BY <1>7, <1>12, <1>13 DEF TpInv

\* The next packet, from wherever nothing is under way.
LEMMA Onwards ==
  ASSUME TpTypeOK, bms' = "rts", sent' = 0, frames' = <<>>, replies' = <<>>,
         UNCHANGED <<charger, lost, jobs>>,
         offered' \in Message
  PROVE  TpInv'
<1>1. frames' \in Seq(Frame) /\ replies' \in Seq(Reply) /\ Packs[offered'] \in Nat
  BY EmptySeq, Constants
<1>2. TpTypeOK'
  BY <1>1 DEF TpTypeOK, charger
<1> QED BY <1>2 DEF TpInv, Opening, Counting, Closing

LEMMA NextIsMessage ==
  ASSUME offered \in Message, offered' = IF offered < NrMessages THEN offered + 1 ELSE offered
  PROVE  offered' \in Message
BY Constants

LEMMA GivenUp == TpInv /\ (Retry \/ GiveUp) => TpInv'
<1> SUFFICES ASSUME TpInv, Retry \/ GiveUp PROVE TpInv'
  OBVIOUS
<1>1. TpTypeOK /\ offered \in Message
  BY DEF TpInv, TpTypeOK
<1>2. CASE Retry
  BY <1>1, <1>2, Onwards DEF Retry, TimedOut
<1>3. CASE GiveUp
  BY <1>1, <1>3, Onwards, NextIsMessage DEF GiveUp, TimedOut, NextPacket
<1> QED BY <1>2, <1>3

\* The queue of the replies loses its first.
LEMMA ReplyHeard == TpInv /\ HearReply => TpInv'
<1> SUFFICES ASSUME TpInv, HearReply PROVE TpInv'
  OBVIOUS
<1>1. TpTypeOK /\ Queues /\ offered \in Message /\ replies # <<>>
  BY QueuesOK DEF TpInv, TpTypeOK, HearReply
<1>2. /\ Head(replies) = replies[1] /\ replies' \in Seq(Reply)
      /\ Len(replies) >= 1 /\ Len(replies') = Len(replies) - 1
      /\ \A k \in 1..Len(replies) - 1 : replies'[k] = replies[k + 1]
  BY <1>1, TakeFromQueue DEF TpTypeOK, HearReply
<1>3. UNCHANGED <<frames, charger, lost, jobs>>
  BY DEF HearReply
<1>4. Len(replies) = 1 => replies' = <<>>
  BY <1>2, EmptyQueue
<1> DEFINE cleared == replies[1] = [type |-> "CTS", pgn |-> Pgn[offered]] /\ bms = "cts"
           told == replies[1] = [type |-> "EOMA", pgn |-> Pgn[offered]] /\ bms = "ack"
<1>5. CASE cleared
  <2>1. bms' = "data" /\ sent' = 0 /\ offered' = offered
    BY <1>2, <1>5 DEF HearReply
  <2>2. frames = <<>> /\ Len(frames) = 0 /\ replies' = <<>> /\ (tp = NoConnection \/ tp = [msg |-> offered, rcv |-> 0])
    BY <1>1, <1>4, <1>5 DEF TpInv, Opening, Queues
  <2>3. Packs[offered] \in Nat /\ Packs[offered] >= 1
    BY <1>1, Constants
  <2>4. TpTypeOK'
    BY <1>1, <1>2, <1>3, <2>1, <2>3 DEF TpTypeOK, charger
  <2>5. Counting'
    <3>1. tp.msg = 0 \/ (tp.msg = offered /\ tp.rcv = 0)
      BY <2>2 DEF NoConnection
    <3>2. frames' = <<>> /\ tp' = tp /\ tp_buff' = tp_buff /\ Len(frames') = 0
      BY <1>3, <2>2 DEF charger
    <3> QED BY <2>1, <2>3, <3>1, <3>2 DEF Counting
  <2>6. Opening' /\ Closing'
    BY <2>1, <2>2 DEF Opening, Closing
  <2> QED BY <2>4, <2>5, <2>6 DEF TpInv
<1>6. CASE told
  <2>1. NextPacket
    BY <1>2, <1>6 DEF HearReply
  <2>2. frames = <<>> /\ Len(replies) = 1
    BY <1>1, <1>2, <1>6 DEF TpInv, Closing, Queues
  <2>3. offered' \in Message /\ bms' = "rts" /\ sent' = 0
    BY <1>1, <2>1, NextIsMessage DEF NextPacket
  <2> QED BY <1>1, <1>3, <1>4, <2>2, <2>3, Onwards
<1>7. CASE ~cleared /\ ~told
  <2>1. UNCHANGED vehicle
    BY <1>2, <1>7 DEF HearReply
  <2>2. bms \in {"data", "ack"}
    BY <1>1, <1>7 DEF TpInv, Opening, TpTypeOK
  <2>3. TpTypeOK'
    BY <1>1, <1>2, <1>3, <2>1 DEF TpTypeOK, charger, vehicle
  <2>4. Opening' /\ Counting'
    BY <1>3, <2>1, <2>2 DEF TpInv, Opening, Counting, charger, vehicle
  <2>5. Closing'
    <3>1. ASSUME NEW k \in 1..Len(replies')
          PROVE  k + 1 \in 1..Len(replies) /\ replies'[k] = replies[k + 1] /\ (k + 1 = Len(replies) <=> k = Len(replies'))
      BY <1>1, <1>2, <3>1 DEF Queues
    <3> QED BY <1>3, <2>1, <2>2, <3>1 DEF TpInv, Closing, charger, vehicle
  <2> QED BY <2>3, <2>4, <2>5 DEF TpInv
<1> QED BY <1>5, <1>6, <1>7

---------------------------------------------------------------------------
(* The charger.                                                            *)

LEMMA RequestRead == TpInv /\ ReadRTS => TpInv'
<1> SUFFICES ASSUME TpInv, ReadRTS PROVE TpInv'
  OBVIOUS
<1> DEFINE r == [type |-> "CTS", pgn |-> Pgn[offered]]
<1>1. TpTypeOK /\ Queues /\ offered \in Message /\ frames # <<>> /\ Head(frames) = frames[1]
  BY QueuesOK, TakeFromQueue DEF TpInv, TpTypeOK, ReadRTS
<1>2. Len(frames) >= 1 /\ frames[1].type = "RTS"
  BY <1>1 DEF Queues, ReadRTS
<1>3. bms = "cts"
  BY <1>1, <1>2 DEF TpInv, TpTypeOK, Opening, Counting, Queues
<1>4. Len(frames) = 1 /\ replies = <<>> /\ frames[1].msg = offered
  BY <1>1, <1>3 DEF TpInv, Opening
<1>5. frames' = <<>> /\ frames' \in Seq(Frame)
  BY <1>1, <1>4, TakeFromQueue, EmptyQueue DEF TpTypeOK, ReadRTS
<1>6. r \in Reply
  BY <1>1, Constants DEF Reply
<1>7. /\ tp' = [msg |-> offered, rcv |-> 0] /\ Put(replies, r)
      \/ UNCHANGED <<tp, replies, lost>>
  BY <1>1, <1>4 DEF ReadRTS
<1>8. /\ replies' \in Seq(Reply)
      /\ \/ replies' = <<>>
         \/ Len(replies') = 1 /\ replies'[1] = r /\ tp' = [msg |-> offered, rcv |-> 0]
  <2>1. CASE tp' = [msg |-> offered, rcv |-> 0] /\ Put(replies, r)
    BY <1>4, <1>6, <2>1, PutInEmptyQueue DEF Put
  <2>2. CASE UNCHANGED <<tp, replies, lost>>
    BY <1>1, <1>4, <2>2 DEF TpTypeOK
  <2> QED BY <1>7, <2>1, <2>2
<1>9. lost' \in 0..MaxLost
  BY <1>1, <1>7, CanTpAssumption DEF Put, TpTypeOK
<1>10. tp' \in [msg : Message \cup {0}, rcv : Nat]
  BY <1>1, <1>7 DEF TpTypeOK
<1>11. UNCHANGED <<vehicle, tp_buff, got, jobs>>
  BY DEF ReadRTS
<1>12. TpTypeOK'
  BY <1>1, <1>5, <1>8, <1>9, <1>10, <1>11 DEF TpTypeOK, vehicle
<1>13. Opening'
  BY <1>3, <1>5, <1>8, <1>11 DEF Opening, vehicle
<1> QED BY <1>3, <1>11, <1>12, <1>13 DEF TpInv, Counting, Closing, vehicle

\* c frames counted, a under way, s sent of p: with the next one all are counted.
LEMMA AllAreCounted ==
  ASSUME NEW c \in Nat, NEW a \in Nat, NEW s \in Nat, NEW p \in Nat,
         c + a <= s, s <= p, a >= 1, c + 1 >= p
  PROVE  a = 1 /\ s = p /\ c + 1 = s
OBVIOUS

\* A frame that is the last of its packet: none was lost, and the driver gets the packet.
LEMMA LastFrame ==
  ASSUME TpInv, ReadData, tp.msg # 0, Complete(tp.msg, tp.rcv + 1)
  PROVE  /\ bms = "ack" /\ Len(frames) = 1 /\ tp.rcv + 1 = sent
         /\ Handed(tp.msg, [tp_buff EXCEPT ![Head(frames).nr] = Head(frames).msg]) = offered
<1> DEFINE p == Packs[offered]
<1>1. /\ TpTypeOK /\ Queues /\ offered \in Message /\ frames # <<>> /\ Head(frames) = frames[1]
      /\ frames[1].type = "DT"
  BY QueuesOK, TakeFromQueue DEF TpInv, TpTypeOK, ReadData
<1>2. Len(frames) >= 1 /\ p \in Nat /\ p >= 1 /\ 1..p \subseteq Number
  BY <1>1, Constants DEF Queues
<1>3. bms \in {"data", "ack"}
  BY <1>1, <1>2 DEF TpInv, TpTypeOK, Opening
<1>4. /\ sent <= p /\ sent \in Nat /\ (bms = "data" <=> sent < p)
      /\ frames[1].msg = offered /\ tp.msg = offered /\ tp.rcv \in Nat
      /\ tp.rcv + Len(frames) <= sent
      /\ tp.rcv + Len(frames) = sent =>
           /\ \A i \in 1..tp.rcv : tp_buff[i] = offered
           /\ \A k \in 1..Len(frames) : frames[k].nr = tp.rcv + k
  BY <1>1, <1>2, <1>3 DEF TpInv, TpTypeOK, Counting, Queues
<1>5. tp.rcv + 1 >= p
  BY <1>1, <1>4 DEF Complete
<1>6. Len(frames) = 1 /\ sent = p /\ tp.rcv + 1 = sent
  BY <1>1, <1>2, <1>4, <1>5, AllAreCounted DEF Queues
<1>7. bms = "ack"
  BY <1>2, <1>3, <1>4, <1>6
<1>8. frames[1].nr = p /\ \A i \in 1..p - 1 : tp_buff[i] = offered
  BY <1>2, <1>4, <1>6
<1>9. \A i \in 1..p : [tp_buff EXCEPT ![frames[1].nr] = frames[1].msg][i] = offered
  <2>1. tp_buff \in [Number -> Message \cup {0}] /\ frames[1].msg = offered
    BY <1>1, <1>4 DEF TpTypeOK
  <2> QED BY <1>2, <1>8, <2>1
<1>10. Handed(tp.msg, [tp_buff EXCEPT ![frames[1].nr] = frames[1].msg]) = offered
  <2>1. offered # 0 /\ tp.msg = offered
    BY <1>1, <1>4, Constants
  <2> QED BY <1>9, <2>1 DEF Handed
<1> QED BY <1>1, <1>6, <1>7, <1>10

LEMMA DataRead == TpInv /\ ReadData => TpInv'
<1> SUFFICES ASSUME TpInv, ReadData PROVE TpInv'
  OBVIOUS
<1> DEFINE f == Head(frames)
           buff == [tp_buff EXCEPT ![f.nr] = f.msg]
           n == IF tp.msg = 0 THEN 0 ELSE tp.rcv + 1
           e == [type |-> "EOMA", pgn |-> GroupOf(tp.msg)]
<1>1. TpTypeOK /\ Queues /\ offered \in Message /\ frames # <<>>
  BY QueuesOK DEF TpInv, TpTypeOK, ReadData
<1>2. /\ f \in Frame /\ f = frames[1] /\ f.type = "DT" /\ frames' \in Seq(Frame)
      /\ Len(frames) >= 1 /\ Len(frames') = Len(frames) - 1
      /\ \A k \in 1..Len(frames) - 1 : frames'[k] = frames[k + 1]
  BY <1>1, TakeFromQueue DEF TpTypeOK, ReadData
<1>3. bms \in {"data", "ack"}
  BY <1>1, <1>2 DEF TpInv, TpTypeOK, Opening
<1>4. /\ tp_buff' = buff /\ tp' = [tp EXCEPT !.rcv = n]
      /\ \/ Complete(tp.msg, n) /\ got' = Handed(tp.msg, buff) /\ Put(replies, e)
         \/ ~Complete(tp.msg, n) /\ UNCHANGED <<got, replies, lost>>
      /\ UNCHANGED <<vehicle, jobs>>
  BY DEF ReadData
<1>5. tp \in [msg : Message \cup {0}, rcv : Nat] /\ tp'.msg = tp.msg /\ tp'.rcv = n
  BY <1>1, <1>4 DEF TpTypeOK
<1>6. Complete(tp.msg, n) =>
        \/ tp.msg = 0 /\ got' = got
        \/ tp.msg # 0 /\ bms = "ack" /\ Len(frames) = 1 /\ got' = offered /\ tp.msg = offered
  <2>1. CASE tp.msg = 0
    BY <1>4, <2>1 DEF Handed
  <2>2. ASSUME tp.msg # 0, Complete(tp.msg, n)
        PROVE  bms = "ack" /\ Len(frames) = 1 /\ got' = offered
    BY <1>4, <2>2, LastFrame
  <2>3. tp.msg # 0 => tp.msg = offered
    BY <1>3 DEF TpInv, Counting
  <2> QED BY <2>1, <2>2, <2>3
<1>7. GroupOf(tp.msg) \in Nat
  BY <1>5, Constants DEF GroupOf
<1>8. TpTypeOK'
  <2>1. replies' \in Seq(Reply) /\ lost' \in 0..MaxLost
    <3>1. e \in Reply
      BY <1>7 DEF Reply
    <3>2. replies' = Append(replies, e) \/ replies' = replies
      BY <1>4 DEF Put
    <3>3. lost' \in 0..MaxLost
      BY <1>1, <1>4, CanTpAssumption DEF Put, TpTypeOK
    <3> QED BY <1>1, <3>1, <3>2, <3>3, PutInQueue DEF TpTypeOK
  <2>2. tp' \in [msg : Message \cup {0}, rcv : Nat]
    BY <1>4, <1>5
  <2>3. tp_buff' \in [Number -> Message \cup {0}]
    BY <1>1, <1>2, <1>4 DEF TpTypeOK, Frame
  <2>4. got' \in 0..Mixture
    <3>1. offered \in 0..Mixture
      BY <1>1, Constants DEF Mixture
    <3> QED BY <1>1, <1>4, <1>6, <3>1 DEF TpTypeOK
  <2> QED BY <1>1, <1>2, <1>4, <2>1, <2>2, <2>3, <2>4 DEF TpTypeOK, vehicle
<1>9. Counting'
  <2>1. /\ sent <= Packs[offered] /\ (bms = "data" <=> sent < Packs[offered]) /\ sent \in Nat
        /\ \A k \in 1..Len(frames) :
             frames[k].type = "DT" /\ frames[k].msg = offered /\ frames[k].nr \in 1..Packs[offered]
    BY <1>1, <1>3, Constants DEF TpInv, Counting, TpTypeOK
  <2>2. ASSUME NEW k \in 1..Len(frames')
        PROVE  k + 1 \in 1..Len(frames) /\ frames'[k] = frames[k + 1]
    BY <1>1, <1>2, <2>2 DEF Queues
  <2>3. \A k \in 1..Len(frames') :
          frames'[k].type = "DT" /\ frames'[k].msg = offered /\ frames'[k].nr \in 1..Packs[offered]
    BY <2>1, <2>2
  <2>4. ASSUME tp.msg # 0
        PROVE  /\ tp.msg = offered /\ tp'.rcv + Len(frames') <= sent
               /\ tp'.rcv + Len(frames') = sent =>
                    /\ \A i \in 1..tp'.rcv : tp_buff'[i] = offered
                    /\ \A k \in 1..Len(frames') : frames'[k].nr = tp'.rcv + k
    <3>1. /\ tp.msg = offered /\ tp.rcv + Len(frames) <= sent /\ tp.rcv \in Nat
          /\ tp.rcv + Len(frames) = sent =>
               /\ \A i \in 1..tp.rcv : tp_buff[i] = offered
               /\ \A k \in 1..Len(frames) : frames[k].nr = tp.rcv + k
      BY <1>1, <1>3, <1>5, <2>4 DEF TpInv, Counting
    <3>2. tp'.rcv = tp.rcv + 1 /\ tp'.rcv + Len(frames') = tp.rcv + Len(frames)
      BY <1>1, <1>2, <1>5, <2>4, <3>1 DEF Queues
    <3>3. ASSUME tp.rcv + Len(frames) = sent, NEW k \in 1..Len(frames')
          PROVE  frames'[k].nr = tp'.rcv + k
      <4>1. frames'[k] = frames[k + 1] /\ frames[k + 1].nr = tp.rcv + (k + 1)
        BY <2>2, <3>1, <3>3
      <4>2. k \in Nat /\ tp.rcv \in Nat /\ tp'.rcv = tp.rcv + 1
        BY <3>1, <3>2
      <4>3. frames'[k].nr = tp.rcv + (k + 1)
        BY <4>1
      <4> QED BY <4>2, <4>3
    <3>4. ASSUME tp.rcv + Len(frames) = sent, NEW i \in 1..tp'.rcv
          PROVE  tp_buff'[i] = offered
      <4>1. f.nr = tp.rcv + 1 /\ f.msg = offered /\ f.nr \in Number
        <5>1. 1 \in 1..Len(frames)
          BY <1>1, <1>2 DEF Queues
        <5> QED BY <1>1, <1>2, <2>1, <3>1, <3>4, <5>1, Constants
      <4>2. tp_buff \in [Number -> Message \cup {0}]
        BY <1>1 DEF TpTypeOK
      <4>3. CASE i = tp.rcv + 1
        BY <1>4, <4>1, <4>2, <4>3
      <4>4. CASE i \in 1..tp.rcv
        <5>1. tp_buff[i] = offered /\ i # f.nr
          BY <3>1, <3>4, <4>1, <4>4
        <5>2. i \in Number
          <6>1. i \in 1..Packs[offered]
            BY <1>1, <1>2, <2>1, <3>1, <4>4, Constants DEF Queues
          <6> QED BY <1>1, <6>1, Constants
        <5> QED BY <1>4, <4>2, <5>1, <5>2
      <4> QED BY <3>1, <3>2, <3>4, <4>3, <4>4
    <3> QED BY <3>1, <3>2, <3>3, <3>4
  <2> QED BY <1>3, <1>4, <1>5, <2>1, <2>3, <2>4 DEF Counting, vehicle
<1>10. Closing'
  <2>1. \A k \in 1..Len(replies) :
          replies[k].type = "EOMA" /\ replies[k].pgn \in {0, Pgn[offered]} /\ replies[k].pgn # Pgn[offered]
    BY <1>1, <1>3 DEF TpInv, Closing
  <2>2. Pgn[offered] # 0
    BY <1>1, Constants
  <2>3. CASE replies' = replies
    BY <1>4, <2>1, <2>3 DEF Closing, vehicle
  <2>4. CASE Complete(tp.msg, n) /\ replies' = Append(replies, e)
    <3>1. e \in Reply
      BY <1>7 DEF Reply
    <3>2. /\ Len(replies') \in Nat /\ Len(replies') <= Len(replies) + 1
          /\ \A k \in 1..Len(replies) : replies'[k] = replies[k]
          /\ Len(replies') > Len(replies) => replies'[Len(replies')] = e
      BY <1>1, <2>4, <3>1, PutInQueue DEF TpTypeOK
    <3>3. ASSUME NEW k \in 1..Len(replies')
          PROVE  k \in 1..Len(replies) \/ (k = Len(replies') /\ replies'[k] = e)
      BY <1>1, <3>2, <3>3 DEF Queues
    <3>4. e.pgn = 0 \/ (e.pgn = Pgn[offered] /\ bms = "ack" /\ frames' = <<>> /\ got' = offered)
      <4>1. CASE tp.msg = 0
        BY <4>1, Constants DEF GroupOf
      <4>2. CASE tp.msg # 0
        <5>1. bms = "ack" /\ Len(frames) = 1 /\ got' = offered /\ tp.msg = offered
          BY <1>6, <2>4, <4>2
        <5>2. frames' = <<>>
          BY <1>2, <5>1, EmptyQueue
        <5> QED BY <1>1, <5>1, <5>2 DEF GroupOf
      <4> QED BY <4>1, <4>2
    <3> HIDE DEF e
    <3>5. e.type = "EOMA"
      BY DEF e
    <3> QED BY <1>4, <2>1, <2>2, <3>2, <3>3, <3>4, <3>5 DEF Closing, vehicle
  <2> QED BY <1>4, <2>3, <2>4 DEF Put
<1> QED BY <1>3, <1>4, <1>8, <1>9, <1>10 DEF TpInv, Opening, vehicle

LEMMA JobEnded == TpInv /\ NewJob => TpInv'
<1> SUFFICES ASSUME TpInv, NewJob PROVE TpInv'
  OBVIOUS
<1> USE DEF vehicle
<1>1. TpTypeOK'
  BY CanTpAssumption, EmptySeq DEF TpInv, TpTypeOK, NewJob, NoConnection
<1>2. Len(frames') = 0 /\ frames' = <<>>
  BY EmptySeq DEF NewJob
<1>3. Opening' /\ Closing'
  BY <1>2 DEF TpInv, Opening, Closing, NewJob
<1>4. Counting'
  BY <1>2 DEF TpInv, Counting, NewJob, NoConnection
<1> QED BY <1>1, <1>3, <1>4 DEF TpInv

---------------------------------------------------------------------------
\* The inductive invariant, for any packets, lost frames and ended jobs.
THEOREM ConnectionInvariant == Spec => []TpInv
<1>1. Init => TpInv
  BY Start
<1>2. TpInv /\ [Next]_vars => TpInv'
  <2> SUFFICES ASSUME TpInv, [Next]_vars PROVE TpInv'
    OBVIOUS
  <2>1. CASE Next
    BY <2>1, RequestSent, DataSent, ReplyHeard, GivenUp, RequestRead, DataRead, JobEnded DEF Next
  <2>2. CASE UNCHANGED vars
    BY <2>2 DEF vars, vehicle, charger, TpInv, TpTypeOK, Opening, Counting, Closing
  <2> QED BY <2>1, <2>2
<1> QED BY <1>1, <1>2, PTL DEF Spec

\* What the BMS is told has arrived, the driver has got (father.c 171-189).
THEOREM WhatIsAcknowledgedIsDelivered == Spec => []AcknowledgedIsDelivered
<1>1. TpInv => AcknowledgedIsDelivered
  <2> SUFFICES ASSUME TpInv, NEW k \in DOMAIN replies, bms = "ack",
                      replies[k] = [type |-> "EOMA", pgn |-> Pgn[offered]]
               PROVE  got = offered
    BY DEF AcknowledgedIsDelivered
  <2>1. k \in 1..Len(replies) /\ replies[k].pgn = Pgn[offered]
    BY DEF TpInv, TpTypeOK
  <2> QED BY <2>1 DEF TpInv, Closing
<1> QED BY <1>1, ConnectionInvariant, PTL

\* The safety part of the refinement: the driver gets the packet that is being sent,
\* whole, and the BMS goes from one packet to the next.
THEOREM DriverGetsWholePackets == Spec => Channel!Init /\ [][Channel!Next]_<<offered, got>>
<1>1. Init => Channel!Init
  BY DEF Init, Channel!Init
<1>2. TpInv /\ [Next]_vars => [Channel!Next]_<<offered, got>>
  <2> SUFFICES ASSUME TpInv, [Next]_vars PROVE [Channel!Next]_<<offered, got>>
    OBVIOUS
  <2> USE DEF vehicle, charger, Channel!Next, Channel!Offer, Channel!Deliver
  <2>1. CASE SendRTS \/ SendData \/ Retry \/ ReadRTS \/ NewJob \/ UNCHANGED vars
    BY <2>1 DEF SendRTS, SendData, Retry, ReadRTS, NewJob, vars
  <2>2. ASSUME offered' = (IF offered < NrMessages THEN offered + 1 ELSE offered), got' = got
        PROVE  [Channel!Next]_<<offered, got>>
    BY <2>2
  <2>3. CASE HearReply
    BY <2>2, <2>3 DEF HearReply, NextPacket
  <2>4. CASE GiveUp
    BY <2>2, <2>4 DEF GiveUp, NextPacket
  <2>5. CASE ReadData
    <3>1. offered' = offered
      BY <2>5 DEF ReadData
    <3>2. CASE tp.msg = 0
      <4>1. got' = got
        BY <2>5, <3>2 DEF ReadData, Handed
      <4> QED BY <3>1, <4>1
    <3>3. CASE tp.msg # 0
      <4>1. got' = got \/ (Complete(tp.msg, tp.rcv + 1)
              /\ got' = Handed(tp.msg, [tp_buff EXCEPT ![Head(frames).nr] = Head(frames).msg]))
        BY <2>5, <3>3 DEF ReadData
      <4>2. got' = got \/ got' = offered
        BY <2>5, <3>3, <4>1, LastFrame
      <4> QED BY <3>1, <4>2
    <3> QED BY <3>2, <3>3
  <2> QED BY <2>1, <2>3, <2>4, <2>5 DEF Next
<1> QED BY <1>1, <1>2, ConnectionInvariant, PTL DEF Spec

=============================================================================
