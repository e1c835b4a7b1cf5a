----------------------------- MODULE UartProofs -----------------------------
(***************************************************************************)
(* Uart for any number of users and any died_line: the types, the marks of *)
(* the devices that are down, and the longest wait for a turn.             *)
(***************************************************************************)
EXTENDS Uart, TLAPS

\* Turns until it is the turn of user u.
Distance(u) ==
  IF u > sequce THEN u - 1 - sequce ELSE u - 1 - sequce + users_nr

Next1(n) == IF n = users_nr - 1 THEN 0 ELSE n + 1
Prev1(n) == IF n = 0 THEN users_nr - 1 ELSE n - 1

\* While a request is under way its user had its turn; without one the last user
\* has the turn again only if it asked for it.
InOrder ==
  /\ status = "RD" => sequce = Next1(master - 1)
  /\ status = "WR" /\ users_nr > 1 /\ master = Turn => continues_nr > 0

\* A user that is k turns away has at most 5 k requests of others before it, less
\* those that were asked for with ERR_NEED_ECHO already.
Patient(u) ==
  \/ users_nr = 1 /\ waited[u] <= (IF master = 0 THEN 1 ELSE 0)
  \/ users_nr > 1 /\ status = "RD" /\ master = u /\ waited[u] = 0
  \/ /\ users_nr > 1 /\ status = "RD" /\ master # u
     /\ waited[u] + 5 * Distance(u) + 4 <= 5 * (users_nr - 1) + continues_nr
  \/ /\ users_nr > 1 /\ status = "WR" /\ Distance(u) = 0
     /\ waited[u] <= 5 * (users_nr - 1)
  \/ /\ users_nr > 1 /\ status = "WR" /\ Distance(u) > 0
     /\ waited[u] + 5 * Distance(u) <= 5 * (users_nr - 1) + continues_nr

UInv == UTypeOK /\ InOrder /\ \A u \in User : Patient(u)

---------------------------------------------------------------------------
LEMMA TurnsAreInRange ==
  ASSUME UTypeOK
  PROVE  /\ users_nr \in Nat /\ users_nr >= 1 /\ users_nr <= MaxUsers
         /\ \A n \in 0..users_nr - 1 :
              /\ Following(n) = Next1(n) /\ Previous(n) = Prev1(n)
              /\ Next1(n) \in 0..users_nr - 1 /\ Prev1(n) \in 0..users_nr - 1
<1>1. users_nr \in Nat /\ users_nr >= 1 /\ users_nr <= MaxUsers
  BY UartAssumption DEF UTypeOK, Slot
<1>2. ASSUME NEW k \in Nat, k >= 1, NEW n \in 0..k - 1
      PROVE  /\ (n + 1) % k = IF n = k - 1 THEN 0 ELSE n + 1
             /\ (n + k - 1) % k = IF n = 0 THEN k - 1 ELSE n - 1
  BY <1>2
<1> QED BY <1>1, <1>2 DEF Following, Previous, Next1, Prev1

LEMMA UsersAreSlots == UTypeOK => User \subseteq Slot
  BY UartAssumption DEF UTypeOK, User, Slot

---------------------------------------------------------------------------
LEMMA InitUInv == UInit => UInv
<1> SUFFICES ASSUME UInit PROVE UInv
  OBVIOUS
<1>1. users_nr \in Nat /\ users_nr >= 1 /\ users_nr <= MaxUsers
  BY UartAssumption DEF UInit, Slot
<1>2. \A u \in Slot : DiedLine[u] \in Nat /\ DiedLine[u] > 0
  BY UartAssumption
<1>3. UTypeOK
  <2>1. died \in [Slot -> Nat] /\ waited \in [Slot -> Nat] /\ line \in [Slot -> Line]
    BY DEF UInit, Line
  <2>2. \A u \in Slot : died[u] = 0
    BY DEF UInit
  <2>3. down = {u \in Slot : died[u] = DiedLine[u]}
    BY <1>2, <2>2 DEF UInit
  <2>4. \A u \in Slot : died[u] \in 0..DiedLine[u]
    BY <1>2, <2>2
  <2>5. /\ users_nr \in Slot /\ sequce \in 0..users_nr - 1 /\ master \in 0..users_nr
        /\ continues_nr \in 0..4 /\ status = "WR"
    BY <1>1 DEF UInit
  <2> QED BY <2>1, <2>3, <2>4, <2>5 DEF UTypeOK
<1>4. InOrder
  BY <1>1 DEF UInit, InOrder, Turn
<1>5. ASSUME NEW u \in User PROVE Patient(u)
  <2>1. /\ u \in 1..users_nr /\ u \in Slot /\ waited = [v \in Slot |-> 0]
        /\ sequce = 0 /\ master = 0 /\ status = "WR" /\ continues_nr = 0
    BY <1>3, UsersAreSlots DEF UInit, User
  <2>2. Distance(u) = u - 1
    BY <1>1, <2>1 DEF Distance
  <2> QED BY <1>1, <2>1, <2>2 DEF Patient
<1> QED BY <1>3, <1>4, <1>5 DEF UInv

\* Everybody else waits for one request more.
LEMMA WaitingInRange ==
  ASSUME UTypeOK, NEW w \in Nat, Waiting(w)
  PROVE  /\ waited' \in [Slot -> Nat]
         /\ \A v \in User : waited'[v] = IF v = w THEN 0 ELSE waited[v] + 1
  BY UsersAreSlots DEF UTypeOK, Waiting

LEMMA AskUInv ==
  ASSUME UInv, NEW u \in User, Ask(u), status' \in {"RD", "WR"}
  PROVE  UInv'
<1> DEFINE N == users_nr
<1>1. /\ N \in Nat /\ N >= 1 /\ u \in 1..N /\ u = sequce + 1
      /\ sequce \in 0..N - 1 /\ sequce' = Next1(sequce) /\ sequce' \in 0..N - 1
      /\ master' = u /\ users_nr' = N
  BY TurnsAreInRange DEF UInv, UTypeOK, Ask, Turn, User
<1>2. /\ continues_nr \in 0..4 /\ continues_nr' = continues_nr
      /\ status = "WR" /\ ~OutOfOrder
  BY DEF UInv, UTypeOK, Ask
<1>3. /\ waited' \in [Slot -> Nat]
      /\ \A v \in User : waited'[v] = IF v = u THEN 0 ELSE waited[v] + 1
  BY <1>1, WaitingInRange DEF UInv, Ask
<1>4. UTypeOK'
  BY <1>1, <1>2, <1>3 DEF UInv, UTypeOK, Ask
<1>5. InOrder'
  BY <1>1, <1>2 DEF InOrder, Next1, Turn
<1>6. ASSUME NEW v \in User PROVE Patient(v)'
  <2>1. v \in 1..N /\ waited[v] \in Nat /\ Patient(v)
    BY UsersAreSlots DEF UInv, UTypeOK, User
  <2>2. CASE N = 1
    BY <1>1, <1>3, <2>1, <2>2 DEF Patient
  <2>3. CASE N > 1 /\ v = u
    <3>1. waited'[v] = 0 /\ Distance(v)' = N - 1
      BY <1>1, <1>3, <2>3 DEF Distance, Next1
    <3> QED BY <1>1, <1>2, <2>3, <3>1 DEF Patient
  <2>4. CASE N > 1 /\ v # u
    <3>1. /\ Distance(v) \in Nat /\ Distance(v) > 0
          /\ Distance(v)' = Distance(v) - 1 /\ waited'[v] = waited[v] + 1
      BY <1>1, <1>3, <2>1, <2>4 DEF Distance, Next1
    <3>2. waited[v] + 5 * Distance(v) <= 5 * (N - 1) + continues_nr
      BY <1>2, <2>1, <2>4, <3>1 DEF Patient
    <3> QED BY <1>1, <1>2, <2>1, <2>4, <3>1, <3>2 DEF Patient
  <2> QED BY <1>1, <2>2, <2>3, <2>4
<1>7. User' = User
  BY <1>1 DEF User
<1> QED BY <1>4, <1>5, <1>6, <1>7 DEF UInv

\* Only a user that is alone on the bus is skipped.
LEMMA SkipUInv == ASSUME UInv, Skip PROVE UInv'
<1>1. users_nr \in Nat /\ users_nr >= 1 /\ status = "WR" /\ sequce \in 0..users_nr - 1
  BY TurnsAreInRange DEF UInv, UTypeOK, Skip
<1>2. users_nr = 1
  BY <1>1 DEF UInv, UTypeOK, InOrder, Skip, OutOfOrder
<1>3. /\ waited' \in [Slot -> Nat]
      /\ \A v \in User : waited'[v] = IF v = 0 THEN 0 ELSE waited[v] + 1
  BY WaitingInRange DEF UInv, Skip
<1>4. UTypeOK'
  BY <1>1, <1>3 DEF UInv, UTypeOK, Skip
<1>5. InOrder'
  BY <1>1, <1>2 DEF InOrder, Skip
<1>6. ASSUME NEW v \in User PROVE Patient(v)'
  <2>1. v = 1 /\ waited[v] \in Nat /\ Patient(v)
    BY <1>2, UsersAreSlots DEF UInv, UTypeOK, User
  <2>2. master # 0
    BY <1>1 DEF Skip, OutOfOrder, Turn
  <2> QED BY <1>2, <1>3, <2>1, <2>2 DEF Patient, Skip
<1>7. User' = User
  BY DEF User, Skip
<1> QED BY <1>4, <1>5, <1>6, <1>7 DEF UInv

\* What the answer means for the turns: the user is asked again, or not.
Again == sequce' = Previous(sequce) /\ continues_nr' = continues_nr + 1 /\ continues_nr < 4
GoesOn == sequce' = sequce /\ continues_nr' \in {0, continues_nr}

LEMMA AnswerTurns ==
  ASSUME UInv, status = "RD", status' = "WR", UNCHANGED <<users_nr, master, waited>>,
         Again \/ GoesOn
  PROVE  /\ sequce' \in 0..users_nr - 1 /\ continues_nr' \in 0..4
         /\ InOrder' /\ \A u \in User' : Patient(u)'
<1> DEFINE N == users_nr
<1>1. /\ N \in Nat /\ N >= 1 /\ master \in 1..N /\ sequce \in 0..N - 1
      /\ sequce = Next1(master - 1) /\ continues_nr \in 0..4
      /\ users_nr' = N /\ master' = master /\ waited' = waited
  BY TurnsAreInRange DEF UInv, UTypeOK, InOrder
<1>2. Previous(sequce) = master - 1
  BY <1>1, TurnsAreInRange DEF UInv, Next1, Prev1
<1>3. sequce' \in 0..N - 1 /\ continues_nr' \in 0..4
  BY <1>1, <1>2 DEF Again, GoesOn
<1>4. InOrder'
  BY <1>1, <1>2 DEF Again, GoesOn, InOrder, Next1, Turn
<1>5. ASSUME NEW u \in User PROVE Patient(u)'
  <2>1. u \in 1..N /\ waited[u] \in Nat /\ Patient(u)
    BY UsersAreSlots DEF UInv, UTypeOK, User
  <2>2. CASE N = 1
    BY <1>1, <2>1, <2>2 DEF Patient
  <2>3. CASE N > 1 /\ Again
    <3>1. CASE u = master
      <4>1. Distance(u)' = 0 /\ waited[u] = 0
        BY <1>1, <1>2, <2>1, <2>3, <3>1 DEF Distance, Again, Patient
      <4> QED BY <1>1, <2>3, <4>1 DEF Patient
    <3>2. CASE u # master
      <4>1. /\ Distance(u) \in Nat /\ Distance(u)' = Distance(u) + 1
            /\ continues_nr' = continues_nr + 1
        BY <1>1, <1>2, <2>1, <2>3, <3>2 DEF Distance, Next1, Again
      <4>2. waited[u] + 5 * Distance(u) + 4 <= 5 * (N - 1) + continues_nr
        BY <2>1, <2>3, <3>2 DEF Patient
      <4> QED BY <1>1, <2>1, <2>3, <4>1, <4>2 DEF Patient
    <3> QED BY <3>1, <3>2
  <2>4. CASE N > 1 /\ GoesOn
    <3>1. /\ Distance(u) \in Nat /\ Distance(u)' = Distance(u)
          /\ continues_nr' \in {0, continues_nr}
      BY <1>1, <2>1, <2>4 DEF Distance, GoesOn
    <3>2. CASE u = master
      <4>1. waited[u] = 0
        BY <1>1, <2>1, <2>4, <3>2 DEF Patient
      <4>2. Distance(u) = N - 1
        BY <1>1, <2>1, <2>4, <3>2 DEF Distance, Next1
      <4>3. waited'[u] = 0 /\ Distance(u)' = N - 1 /\ users_nr' = N
        BY <1>1, <3>1, <4>1, <4>2
      <4>4. PICK k \in Nat, c \in Nat : k = N - 1 /\ c = continues_nr' /\ k > 0
        BY <1>1, <1>3, <2>4
      <4>5. 0 + 5 * k <= 5 * k + c
        OBVIOUS
      <4>6. users_nr' > 1 /\ status' = "WR"
        BY <2>4, <4>3
      <4> QED BY <4>3, <4>4, <4>5, <4>6 DEF Patient
    <3>3. CASE u # master
      <4>1. waited[u] + 5 * Distance(u) + 4 <= 5 * (N - 1) + continues_nr
        BY <2>1, <2>4, <3>3 DEF Patient
      <4> QED BY <1>1, <2>1, <2>4, <3>1, <4>1 DEF Patient
    <3> QED BY <3>2, <3>3
  <2> QED BY <1>1, <2>2, <2>3, <2>4
<1>6. User' = User
  BY <1>1 DEF User
<1> QED BY <1>3, <1>4, <1>5, <1>6

LEMMA AnswerUInv == ASSUME UInv, Answer PROVE UInv'
<1>1. /\ status = "RD" /\ status' = "WR" /\ UNCHANGED <<users_nr, master, waited, line>>
      /\ Again \/ GoesOn
  <2>1. continues_nr \in Nat
    BY DEF UInv, UTypeOK
  <2>2. CASE Frame
    BY <2>1, <2>2 DEF Frame, AsksAgain, Again, GoesOn
  <2>3. CASE CheckError \/ Timeout
    BY <2>3 DEF CheckError, Timeout, GoesOn
  <2> QED BY <2>2, <2>3 DEF Answer
<1>2. /\ sequce' \in 0..users_nr - 1 /\ continues_nr' \in 0..4
      /\ InOrder' /\ \A u \in User' : Patient(u)'
  BY <1>1, AnswerTurns
<1>3. master \in Slot /\ died \in [Slot -> Nat] /\ DiedLine \in [Slot -> Nat \ {0}]
  BY <1>1, UartAssumption DEF UInv, UTypeOK, Slot
<1>4. /\ died' \in [Slot -> Nat] /\ \A u \in Slot : died'[u] \in 0..DiedLine[u]
      /\ down' = {u \in Slot : died'[u] = DiedLine[u]}
  <2>1. CASE Frame
    <3>1. died' = [died EXCEPT ![master] = 0] /\ down' = down \ {master}
      BY <2>1 DEF Frame, Recovered
    <3> QED BY <1>3, <3>1 DEF UInv, UTypeOK
  <2>2. CASE CheckError
    BY <2>2 DEF CheckError, UInv, UTypeOK
  <2>3. CASE Timeout
    <3>1. /\ died' = [died EXCEPT ![master] = Lost(master)]
          /\ down' = IF died'[master] >= DiedLine[master] THEN down \cup {master} ELSE down
      BY <2>3 DEF Timeout
    <3>2. Lost(master) \in 0..DiedLine[master] /\ Lost(master) >= died[master]
      BY <1>3 DEF UInv, UTypeOK, Lost
    <3>3. /\ died' \in [Slot -> Nat] /\ died'[master] = Lost(master)
          /\ \A u \in Slot \ {master} : died'[u] = died[u]
      BY <1>3, <3>1, <3>2
    <3>4. \A u \in Slot : died'[u] \in 0..DiedLine[u]
      BY <3>2, <3>3 DEF UInv, UTypeOK
    <3>5. down = {u \in Slot : died[u] = DiedLine[u]} /\ died[master] <= DiedLine[master]
      BY <1>3 DEF UInv, UTypeOK
    <3>6. down' = {u \in Slot : died'[u] = DiedLine[u]}
      BY <1>3, <3>1, <3>2, <3>3, <3>5
    <3> QED BY <3>3, <3>4, <3>6
  <2> QED BY <2>1, <2>2, <2>3 DEF Answer
<1>5. UTypeOK'
  BY <1>1, <1>2, <1>4 DEF UInv, UTypeOK
<1> QED BY <1>2, <1>5 DEF UInv

LEMMA ChangeUInv == ASSUME UInv, Change PROVE UInv'
<1>1. PICK u \in User, l \in Line : line' = [line EXCEPT ![u] = l]
  BY DEF Change
<1>2. line' \in [Slot -> Line]
  BY <1>1, UsersAreSlots DEF UInv, UTypeOK
<1> QED
  BY <1>2 DEF Change, bus, UInv, UTypeOK, InOrder, Patient, Distance, User, Next1, Turn

---------------------------------------------------------------------------
(* The invariant, for any number of users and any died_line.               *)
THEOREM UartInvariant == USpec => []UInv
<1>1. UInv /\ [UNext]_uvars => UInv'
  <2> SUFFICES ASSUME UInv, [UNext]_uvars PROVE UInv'
    OBVIOUS
  <2>1. CASE Request
    <3>1. ASSUME NEW u \in User, Send(u) \/ SendFails(u) \/ NothingToAsk(u) PROVE UInv'
      <4>1. Ask(u) /\ status' \in {"RD", "WR"}
        BY <3>1 DEF Send, SendFails, NothingToAsk, Ask
      <4> QED BY <4>1, AskUInv
    <3> QED BY <2>1, <3>1, SkipUInv DEF Request
  <2>2. CASE UNCHANGED uvars
    BY <2>2 DEF uvars, bus, UInv, UTypeOK, InOrder, Patient, Distance, User, Next1, Turn
  <2> QED BY <2>1, <2>2, AnswerUInv, ChangeUInv DEF UNext
<1> QED BY InitUInv, <1>1, PTL DEF USpec

(* A device is marked COMM_DOWN exactly while its row of unanswered        *)
(* requests has reached died_line (blueprint.c 570-594, 1596-1611).        *)
THEOREM UartTypes == USpec => []UTypeOK
<1>1. UInv => UTypeOK
  BY DEF UInv
<1> QED BY UartInvariant, <1>1, PTL

(* No user waits longer than five requests of every other one              *)
(* (blueprint.c 480-536 and 5318-5330), however many users there are.      *)
THEOREM EverybodyGetsATurn == USpec => []NobodyStarves
<1>1. UInv => NobodyStarves
  <2> SUFFICES ASSUME UInv, NEW u \in User
               PROVE waited[u] <= IF users_nr = 1 THEN 1 ELSE 5 * (users_nr - 1)
    BY DEF NobodyStarves
  <2>1. /\ users_nr \in Nat /\ users_nr >= 1 /\ sequce \in 0..users_nr - 1
        /\ u \in 1..users_nr /\ waited[u] \in Nat /\ continues_nr \in 0..4 /\ Patient(u)
    BY TurnsAreInRange, UsersAreSlots DEF UInv, UTypeOK, User
  <2>2. Distance(u) \in Nat
    BY <2>1 DEF Distance
  <2> QED BY <2>1, <2>2 DEF Patient
<1> QED BY UartInvariant, <1>1, PTL
=============================================================================
