------------------------- MODULE ErrorHistoryProofs -------------------------
(***************************************************************************)
(* ErrorHistory for any flags, any number of cleanings and of deaths of    *)
(* the process: the list and the table agree, whatever the web thread does *)
(* outside the lock.                                                       *)
(***************************************************************************)
EXTENDS ErrorHistory, SequenceTheorems, FiniteSetTheorems, TLAPS

\* The types but for the length of the list; the last entry is stored before the
\* charge thread looks at the next flag.
Shape ==
  /\ raised \subseteq Error /\ alarm \in BOOLEAN /\ found \in BOOLEAN
  /\ list \in Seq(Entry) /\ next \in Nat
  /\ table \subseteq Row
  /\ at \in 0..NrErrors + 1 /\ inserting \in BOOLEAN
  /\ inserting => list # <<>> /\ at \in Error
  /\ wpc \in {"idle", "reset", "insert"}
  /\ clock \in Nat

\* A flag has one entry.
OneEntryEach == \A i, j \in DOMAIN list : list[i].id = list[j].id => i = j

\* A row and an entry are of the same error if flag and time agree. The next error
\* begins later than all that are in the table, and no entry has a closed row.
Same(x, r) == x.id = r.id /\ x.begin = r.begin
Past ==
  /\ \A r \in table : r.begin <= clock
  /\ \A i \in DOMAIN list : list[i].begin <= clock
ClosedIsGone ==
  \A r \in table : r.reason # "ERROR" => \A i \in DOMAIN list : ~Same(list[i], r)

\* The rows of a fault are all open or all closed.
OneState ==
  \A r, q \in table : r.reason = "ERROR" /\ q.reason # "ERROR" => ~Same(r, q)

\* Unless the table is being cleaned, the numbers are below the next one.
Stored(i) == i # Len(list) \/ ~inserting
Numbered ==
  wpc = "idle" =>
    /\ \A i \in DOMAIN list : IF Stored(i) THEN list[i].seq < next ELSE list[i].seq = next
    /\ \A i, j \in DOMAIN list : list[i].seq = list[j].seq => i = j

Consistent ==
  /\ Shape /\ OneEntryEach /\ Past /\ ClosedIsGone /\ OneState
  /\ OpenRowsAreListed /\ Numbered

\* Unless the table is being cleaned, each entry that was to be stored has its open
\* row, or the data base refused it.
Recorded ==
  wpc = "idle" => \A i \in DOMAIN list :
    Stored(i) => AsRow(list[i], "ERROR") \in table \/ FaultOf(list[i]) \in refused

-----------------------------------------------------------------------------
(* The list.                                                               *)

LEMMA Elements ==
  ASSUME NEW S, NEW s \in Seq(S)
  PROVE  /\ Len(s) \in Nat /\ DOMAIN s = 1..Len(s)
         /\ \A i \in DOMAIN s : s[i] \in S
         /\ s # <<>> <=> Len(s) # 0
BY LenProperties, ElementOfSeq, EmptySeq

\* Where the k-th element was before the i-th was taken out.
Origin(i, k) == IF k < i THEN k ELSE k + 1

\* What Without leaves of a list.
Rest(s, i) == SubSeq(s, 1, i - 1) \o SubSeq(s, i + 1, Len(s))

LEMMA TakeOut ==
  ASSUME NEW S, NEW s \in Seq(S), NEW i \in DOMAIN s
  PROVE  /\ Rest(s, i) \in Seq(S) /\ DOMAIN Rest(s, i) = 1..Len(s) - 1
         /\ \A k \in DOMAIN Rest(s, i) :
              Origin(i, k) \in DOMAIN s \ {i} /\ Rest(s, i)[k] = s[Origin(i, k)]
<1> DEFINE t == Rest(s, i)
<1>1. PICK m \in Nat : m = Len(s) /\ DOMAIN s = 1..m
  BY Elements
<1>2. i \in 1..m /\ \A x \in 1..m : s[x] \in S
  BY <1>1, Elements
<1> DEFINE a == SubSeq(s, 1, i - 1)
           b == SubSeq(s, i + 1, m)
<1>3. a \in Seq(S) /\ Len(a) = i - 1 /\ \A x \in 1..i - 1 : a[x] = s[x]
  <2>1. 1 \in Int /\ i - 1 \in Int /\ \A x \in 1..i - 1 : s[x] \in S
    BY <1>2
  <2>2. /\ a \in Seq(S)
        /\ Len(a) = IF 1 <= i - 1 THEN i - 1 - 1 + 1 ELSE 0
        /\ \A x \in 1..i - 1 - 1 + 1 : a[x] = s[1 + x - 1]
    BY <2>1, SubSeqProperties
  <2> QED BY <2>2, <1>2
<1>4. b \in Seq(S) /\ Len(b) = m - i /\ \A x \in 1..m - i : b[x] = s[i + x]
  <2>1. i + 1 \in Int /\ m \in Int /\ \A x \in i + 1..m : s[x] \in S
    BY <1>2
  <2>2. /\ b \in Seq(S)
        /\ Len(b) = IF i + 1 <= m THEN m - (i + 1) + 1 ELSE 0
        /\ \A x \in 1..m - (i + 1) + 1 : b[x] = s[i + 1 + x - 1]
    BY <2>1, SubSeqProperties
  <2>3. m - (i + 1) + 1 = m - i /\ (~(i + 1 <= m) => m - i = 0)
    BY <1>2
  <2>4. \A x \in 1..m - i : i + 1 + x - 1 = i + x
    BY <1>2
  <2> HIDE DEF b
  <2>5. Len(b) = m - i /\ \A x \in 1..m - i : b[x] = s[i + 1 + x - 1]
    BY <2>2, <2>3
  <2> QED BY <2>2, <2>4, <2>5
<1>5. t = a \o b
  BY <1>1 DEF Rest
<1> HIDE DEF a, b, t
<1>6. t \in Seq(S) /\ Len(t) = m - 1
  <2>1. t \in Seq(S) /\ Len(t) = Len(a) + Len(b)
    BY <1>3, <1>4, <1>5, ConcatProperties
  <2>2. i - 1 + (m - i) = m - 1
    BY <1>2
  <2> QED BY <2>1, <2>2, <1>3, <1>4
<1>7. DOMAIN t = 1..m - 1
  BY <1>6, LenProperties
<1>8. ASSUME NEW k \in DOMAIN t
      PROVE  Origin(i, k) \in DOMAIN s \ {i} /\ t[k] = s[Origin(i, k)]
  <2>1. k \in 1..m - 1
    BY <1>7
  <2>2. t[k] = IF k <= i - 1 THEN a[k] ELSE b[k - (i - 1)]
    <3>1. \A x \in 1..Len(a) + Len(b) :
            (a \o b)[x] = IF x <= Len(a) THEN a[x] ELSE b[x - Len(a)]
      BY <1>3, <1>4, ConcatProperties
    <3>2. i - 1 + (m - i) = m - 1
      BY <1>2
    <3> QED BY <3>1, <3>2, <2>1, <1>3, <1>4, <1>5
  <2>3. CASE k < i
    BY <1>1, <1>2, <1>3, <2>1, <2>2, <2>3 DEF Origin
  <2>4. CASE ~(k < i)
    <3> DEFINE d == k - (i - 1)
    <3>1. /\ d \in 1..m - i /\ i + d = k + 1
          /\ k + 1 \in 1..m /\ k + 1 # i
      <4>1. i \in Nat /\ k \in Nat /\ i <= k /\ k <= m - 1 /\ 1 <= i
        BY <1>2, <2>1, <2>4
      <4>2. d \in Int /\ 1 <= d /\ d <= m - i /\ i + d = k + 1
        BY <4>1
      <4> HIDE DEF d
      <4>3. d \in 1..m - i
        BY <4>1, <4>2
      <4> QED BY <4>1, <4>2, <4>3
    <3>2. ~(k <= i - 1)
      BY <1>2, <2>1, <2>4
    <3>3. b[k - (i - 1)] = s[k + 1]
      BY <3>1, <1>4
    <3> QED BY <1>1, <2>2, <2>4, <3>1, <3>2, <3>3 DEF Origin
  <2> QED BY <2>3, <2>4
<1> QED BY <1>1, <1>6, <1>7, <1>8 DEF t

LEMMA OthersStay ==
  ASSUME NEW S, NEW s \in Seq(S), NEW i \in DOMAIN s, NEW j \in DOMAIN s \ {i}
  PROVE  \E k \in DOMAIN Rest(s, i) : Rest(s, i)[k] = s[j]
<1>1. PICK m \in Nat : m = Len(s) /\ DOMAIN s = 1..m /\ DOMAIN Rest(s, i) = 1..m - 1
  BY Elements, TakeOut
<1>2. CASE j < i
  <2>1. j \in DOMAIN Rest(s, i) /\ Origin(i, j) = j
    BY <1>1, <1>2 DEF Origin
  <2> QED BY <2>1, TakeOut
<1>3. CASE ~(j < i)
  <2>1. j - 1 \in DOMAIN Rest(s, i) /\ Origin(i, j - 1) = j
    BY <1>1, <1>3 DEF Origin
  <2> QED BY <2>1, TakeOut
<1> QED BY <1>2, <1>3

LEMMA OriginIsOneToOne ==
  ASSUME NEW i \in Nat, NEW k \in Nat, NEW l \in Nat, Origin(i, k) = Origin(i, l)
  PROVE  k = l
BY DEF Origin

LEMMA Typed ==
  ASSUME Shape
  PROVE  /\ Len(list) \in Nat /\ DOMAIN list = 1..Len(list)
         /\ list # <<>> => Len(list) \in DOMAIN list
         /\ \A i \in DOMAIN list :
              /\ list[i] \in Entry /\ list[i].id \in Error
              /\ list[i].begin \in Nat /\ list[i].seq \in Nat
         /\ \A r \in table : r \in Row /\ r.id \in Error /\ r.begin \in Nat /\ r.seq \in Nat
<1>1. list \in Seq(Entry) /\ table \subseteq Row
  BY DEF Shape
<1>2. /\ Len(list) \in Nat /\ DOMAIN list = 1..Len(list)
      /\ \A i \in DOMAIN list : list[i] \in Entry
      /\ list # <<>> <=> Len(list) # 0
  BY <1>1, Elements
<1>3. /\ \A x \in Entry : x.id \in Error /\ x.begin \in Nat /\ x.seq \in Nat
      /\ \A r \in Row : r.id \in Error /\ r.begin \in Nat /\ r.seq \in Nat
  BY DEF Entry, Row
<1> QED BY <1>1, <1>2, <1>3

\* A row keeps all but its reason when it is closed.
LEMMA ClosedRows ==
  ASSUME NEW rows \in SUBSET Row, NEW w \in {"NORMAL", "DISCARD"}, NEW r \in Closed(rows, w)
  PROVE  /\ r \in Row /\ r.reason = w
         /\ \E o \in rows : Same(o, r) /\ r.seq = o.seq
BY DEF Closed, Row, Same

\* Entries and rows are of the same error if and only if the fault is the same.
LEMMA SameFault ==
  ASSUME NEW x, NEW r
  PROVE  Same(x, r) <=> FaultOf(x) = FaultOf(r)
BY DEF Same, FaultOf

LEMMA RowOf ==
  ASSUME NEW x \in Entry
  PROVE  LET r == AsRow(x, "ERROR")
         IN  r \in Row /\ Same(x, r) /\ r.seq = x.seq /\ r.reason = "ERROR" /\ r.begin = x.begin
BY DEF AsRow, Entry, Row, Same

-----------------------------------------------------------------------------
LEMMA InitConsistent == EInit => Consistent /\ Recorded
<1> SUFFICES ASSUME EInit PROVE Consistent /\ Recorded
  OBVIOUS
<1>1. <<>> \in Seq(Entry) /\ DOMAIN <<>> = {}
  BY EmptySeq
<1>2. Shape
  <2>1. at \in 0..NrErrors + 1
    BY ErrorAssumption DEF EInit
  <2> QED BY <1>1, <2>1 DEF EInit, Shape
<1>3. OneEntryEach /\ Past /\ ClosedIsGone /\ OneState /\ OpenRowsAreListed
  BY <1>1 DEF EInit, OneEntryEach, Past, ClosedIsGone, OneState, OpenRowsAreListed, OpenRows
<1>4. Numbered /\ Recorded
  BY <1>1 DEF EInit, Numbered, Recorded
<1> QED BY <1>2, <1>3, <1>4 DEF Consistent

\* The steps that leave list, table and numbers alone.
Bystander ==
  \/ \E e \in Error : Raise(e) \/ Lower(e)
  \/ Start \/ Known \/ Finish \/ Reset

LEMMA BystanderConsistent ==
  ASSUME Consistent, Bystander \/ UNCHANGED evars
  PROVE  Consistent' /\ (Recorded => Recorded')
<1> USE DEF charge
<1>1. UNCHANGED <<list, table, clock, inserting, refused>>
  BY DEF Bystander, Raise, Lower, Start, Known, Finish, Reset, evars
<1>2. UNCHANGED <<next, wpc>> \/ (next' = 0 /\ wpc' = "insert")
  BY DEF Bystander, Raise, Lower, Start, Known, Finish, Reset, evars
<1>3. Shape'
  <2>1. raised' \subseteq Error
    BY ErrorAssumption DEF Consistent, Shape, Bystander, Raise, Lower, Start, Known, Finish, Reset, evars
  <2>2. alarm' \in BOOLEAN /\ found' \in BOOLEAN
    BY DEF Consistent, Shape, Bystander, Raise, Lower, Start, Known, Finish, Reset, evars
  <2>3. at' \in 0..NrErrors + 1 /\ (inserting => at' \in Error)
    BY ErrorAssumption
       DEF Consistent, Shape, Error, Bystander, Raise, Lower, Start, Known, Advance, Finish, Reset, evars
  <2> QED BY <1>1, <1>2, <2>1, <2>2, <2>3 DEF Consistent, Shape
<1>4. OneEntryEach' /\ Past' /\ ClosedIsGone' /\ OneState' /\ OpenRowsAreListed'
  BY <1>1 DEF Consistent, OneEntryEach, Past, ClosedIsGone, OneState, OpenRowsAreListed, OpenRows,
              Current
<1>5. Numbered' /\ (Recorded => Recorded')
  BY <1>1, <1>2 DEF Consistent, Numbered, Recorded, Stored
<1> QED BY <1>3, <1>4, <1>5 DEF Consistent

\* A new entry has the present as its time, and is not stored yet.
LEMMA BeginConsistent ==
  ASSUME Consistent, error_history_begin
  PROVE  Consistent' /\ (Recorded => Recorded')
<1> DEFINE x == [id |-> at, begin |-> clock + 1, seq |-> next]
<1> USE DEF Consistent
<1>1. /\ list' = Append(list, x) /\ clock' = clock + 1 /\ inserting' = TRUE /\ found' = TRUE
      /\ at \in Error /\ ~inserting /\ ~Listed(at)
      /\ UNCHANGED <<raised, alarm, at, next, table, wpc, refused>>
  BY DEF error_history_begin
<1>2. x \in Entry /\ clock \in Nat
  BY <1>1 DEF Entry, Shape
<1> HIDE DEF x
<1>3. PICK m \in Nat : m = Len(list) /\ DOMAIN list = 1..m
  BY Typed
<1>4. list' \in Seq(Entry) /\ list' # <<>> /\ Len(list') = m + 1
  BY <1>1, <1>2, <1>3, AppendProperties DEF Shape
<1>5. DOMAIN list' = 1..m + 1
  BY <1>4, LenProperties
<1>6. (\A i \in 1..m : list'[i] = list[i]) /\ list'[m + 1] = x
  BY <1>1, <1>2, <1>3, AppendProperties DEF Shape
<1>7. x.id = at /\ x.begin = clock + 1 /\ x.seq = next
  BY DEF x
<1>8. Shape'
  BY <1>1, <1>2, <1>4 DEF Shape
<1>9. \A i \in 1..m + 1 : i \in 1..m \/ i = m + 1
  OBVIOUS
<1>10. OneEntryEach'
  <2>1. \A i \in 1..m : list[i].id # at
    BY <1>1, <1>3 DEF Listed
  <2> QED BY <2>1, <1>3, <1>5, <1>6, <1>7, <1>9 DEF OneEntryEach
<1>11. Past'
  <2>1. (\A r \in table : r.begin <= clock + 1) /\ \A i \in 1..m : list[i].begin <= clock + 1
    BY <1>2, <1>3, Typed DEF Past
  <2>2. x.begin <= clock + 1
    BY <1>2, <1>7
  <2> QED BY <2>1, <2>2, <1>1, <1>5, <1>6, <1>9 DEF Past
<1>12. ClosedIsGone'
  <2>1. \A r \in table : ~Same(x, r)
    BY <1>2, <1>7, Typed DEF Past, Same
  <2> QED BY <2>1, <1>1, <1>3, <1>5, <1>6, <1>9 DEF ClosedIsGone
<1>13. OneState'
  BY <1>1 DEF OneState
<1>14. OpenRowsAreListed'
  <2>1. Current \subseteq Current'
    BY <1>3, <1>5, <1>6 DEF Current
  <2> QED BY <2>1, <1>1 DEF OpenRowsAreListed, OpenRows
<1>15. Numbered'
  <2> SUFFICES ASSUME wpc = "idle" PROVE Numbered'
    BY <1>1 DEF Numbered
  <2>1. \A i \in 1..m : list[i].seq < next /\ list[i].seq \in Nat
    BY <1>1, <1>3, Typed DEF Numbered, Stored
  <2>2. next \in Nat
    BY DEF Shape
  <2>3. \A i \in 1..m : list'[i].seq < next /\ list'[i].seq # next
    BY <2>1, <2>2, <1>6
  <2>4. \A i \in DOMAIN list' : IF Stored(i)' THEN list'[i].seq < next ELSE list'[i].seq = next
    BY <2>3, <1>1, <1>4, <1>5, <1>6, <1>7, <1>9 DEF Stored
  <2>5. \A i, j \in DOMAIN list' : list'[i].seq = list'[j].seq => i = j
    BY <2>3, <1>1, <1>3, <1>5, <1>6, <1>7, <1>9 DEF Numbered
  <2> QED BY <2>4, <2>5, <1>1 DEF Numbered
<1>16. Recorded => Recorded'
  BY <1>1, <1>3, <1>4, <1>5, <1>6, <1>9 DEF Recorded, Stored
<1> QED BY <1>8, <1>10, <1>11, <1>12, <1>13, <1>14, <1>15, <1>16

\* The last entry gets its row and its number is counted.
LEMMA InsertConsistent ==
  ASSUME Consistent, Insert
  PROVE  Consistent' /\ (Recorded => Recorded')
<1> USE DEF Consistent
<1> DEFINE x == list[Len(list)]
<1>1. PICK no \in SUBSET {AsRow(x, "ERROR")} :
        /\ inserting /\ inserting' = FALSE /\ next' = x.seq + 1
        /\ table' = table \cup ({AsRow(x, "ERROR")} \ no) /\ refused' = refused \cup Faults(no)
        /\ at' = at + 1
        /\ UNCHANGED <<raised, alarm, found, list, wpc, clock>>
  BY DEF Insert, NewRow, Advance
<1>2. Len(list) \in DOMAIN list /\ x \in Entry /\ x.seq \in Nat
  BY <1>1, Typed DEF Shape
<1>3. table' \subseteq table \cup {AsRow(x, "ERROR")} /\ table \subseteq table'
  BY <1>1
<1>4. /\ AsRow(x, "ERROR") \in Row /\ Same(x, AsRow(x, "ERROR")) /\ AsRow(x, "ERROR").seq = x.seq
      /\ AsRow(x, "ERROR").reason = "ERROR" /\ AsRow(x, "ERROR").begin = x.begin
  BY <1>2, RowOf
<1>5. Shape'
  <2>1. at \in Error /\ at' \in 0..NrErrors + 1
    BY <1>1, ErrorAssumption DEF Shape, Error
  <2>2. table' \subseteq Row
    BY <1>3, <1>4 DEF Shape
  <2>3. next' \in Nat
    BY <1>1, <1>2
  <2> QED BY <1>1, <2>1, <2>2, <2>3 DEF Shape
<1>6. OneEntryEach'
  BY <1>1 DEF OneEntryEach
<1>7. Past'
  BY <1>1, <1>2, <1>3, <1>4 DEF Past
<1>8. ClosedIsGone'
  BY <1>1, <1>3, <1>4 DEF ClosedIsGone
<1>9. OneState'
  BY <1>2, <1>3, <1>4 DEF OneState, ClosedIsGone, Same
<1>10. OpenRowsAreListed'
  <2>1. Current' = Current /\ FaultOf(AsRow(x, "ERROR")) \in Current
    BY <1>1, <1>2, <1>4, SameFault DEF Current
  <2> QED BY <2>1, <1>1, <1>3 DEF OpenRowsAreListed, OpenRows
<1>11. Numbered'
  <2> SUFFICES ASSUME wpc = "idle" PROVE Numbered'
    BY <1>1 DEF Numbered
  <2>1. x.seq = next
    BY <1>1, <1>2 DEF Numbered, Stored
  <2>2. \A i \in DOMAIN list : list[i].seq <= next
    BY <1>1, <2>1, Typed DEF Numbered, Shape
  <2>3. \A i \in DOMAIN list : list[i].seq < next'
    BY <1>1, <1>2, <2>1, <2>2, Typed
  <2> QED BY <1>1, <2>3 DEF Numbered, Stored
<1>12. Recorded => Recorded'
  <2>1. AsRow(x, "ERROR") \in table' \/ FaultOf(x) \in refused'
    <3>1. FaultOf(AsRow(x, "ERROR")) = FaultOf(x)
      BY <1>4, SameFault
    <3> QED BY <3>1, <1>1 DEF Faults
  <2> QED BY <2>1, <1>1, <1>2, <1>3 DEF Recorded, Stored
<1> QED BY <1>5, <1>6, <1>7, <1>8, <1>9, <1>10, <1>11, <1>12

\* The first entry of a flag is its only one; its open rows are closed.
LEMMA RecoverConsistent ==
  ASSUME Consistent, error_history_recover
  PROVE  Consistent' /\ (Recorded => Recorded')
<1> USE DEF Consistent
<1>1. /\ at \in Error /\ ~inserting /\ at' = at + 1
      /\ UNCHANGED <<raised, alarm, found, inserting, next, wpc, clock>>
  BY DEF error_history_recover, Advance
<1>2. at' \in 0..NrErrors + 1
  BY <1>1, ErrorAssumption DEF Error
<1>3. CASE UNCHANGED <<list, table, refused>>
  <2>1. Shape'
    BY <1>1, <1>2, <1>3 DEF Shape
  <2> QED
    BY <1>1, <1>3, <2>1
       DEF OneEntryEach, Past, ClosedIsGone, OneState, OpenRowsAreListed, OpenRows, Current,
           Numbered, Recorded, Stored
<1>4. ASSUME NEW i \in DOMAIN list, list' = Without(i), NEW done \in BOOLEAN,
             table' = IF done THEN Recovered(list[i]) ELSE table,
             refused' = refused \cup NotUpdated(RowsOf(list[i]), done)
      PROVE  Consistent' /\ (Recorded => Recorded')
  <2> DEFINE rows == RowsOf(list[i])
  <2>1. /\ list' \in Seq(Entry) /\ DOMAIN list' = 1..Len(list) - 1
        /\ \A k \in DOMAIN list' :
             Origin(i, k) \in DOMAIN list \ {i} /\ list'[k] = list[Origin(i, k)]
    <3>1. list \in Seq(Entry) /\ list' = Rest(list, i)
      BY <1>4 DEF Without, Rest, Shape
    <3> QED BY <3>1, TakeOut
  <2>2. \A k, l \in DOMAIN list' : Origin(i, k) = Origin(i, l) => k = l
    <3>1. i \in Nat /\ \A k \in DOMAIN list' : k \in Nat
      BY <2>1, Typed
    <3> QED BY <3>1, OriginIsOneToOne
  <2>3. \A j \in DOMAIN list \ {i} : \E k \in DOMAIN list' : list'[k] = list[j]
    <3>1. list \in Seq(Entry) /\ list' = Rest(list, i)
      BY <1>4 DEF Without, Rest, Shape
    <3> QED BY <3>1, OthersStay
  <2>4. rows \subseteq table /\ \A r \in table : r \in rows <=> Same(list[i], r)
    BY DEF RowsOf, Same
  <2>5. \A r \in Closed(rows, "NORMAL") :
          /\ r \in Row /\ r.reason = "NORMAL"
          /\ \E o \in rows : Same(o, r) /\ r.seq = o.seq
    BY <2>4, ClosedRows DEF Shape
  <2>6. /\ table' = IF done THEN (table \ rows) \cup Closed(rows, "NORMAL") ELSE table
        /\ refused' = IF done THEN refused ELSE refused \cup Faults(rows)
    BY <1>4 DEF Recovered, NotUpdated
  <2> HIDE DEF rows
  <2>7. Shape'
    <3>1. table' \subseteq Row
      BY <2>5, <2>6 DEF Shape
    <3> QED BY <1>1, <1>2, <2>1, <3>1 DEF Shape
  <2>8. OneEntryEach'
    BY <2>1, <2>2 DEF OneEntryEach
  <2>9. Past'
    <3>1. \A r \in table' : r.begin <= clock
      BY <2>4, <2>5, <2>6 DEF Past, Same
    <3> QED BY <1>1, <2>1, <3>1 DEF Past
  <2>10. \A k \in DOMAIN list' : list'[k].id # list[i].id
    BY <2>1 DEF OneEntryEach
  <2>11. ClosedIsGone'
    <3> SUFFICES ASSUME NEW r \in table', r.reason # "ERROR", NEW k \in DOMAIN list'
                 PROVE  ~Same(list'[k], r)
      BY DEF ClosedIsGone
    <3>1. CASE r \in table
      BY <2>1, <3>1 DEF ClosedIsGone
    <3>2. CASE r \in Closed(rows, "NORMAL")
      BY <2>4, <2>5, <2>10, <3>2 DEF Same
    <3> QED BY <2>6, <3>1, <3>2
  <2>12. OneState'
    <3> SUFFICES ASSUME NEW r \in table', NEW q \in table', r.reason = "ERROR", q.reason # "ERROR"
                 PROVE  ~Same(r, q)
      BY DEF OneState
    <3>1. r \in table
      BY <2>5, <2>6
    <3>2. CASE q \in table
      BY <3>1, <3>2 DEF OneState
    <3>3. CASE done /\ q \in Closed(rows, "NORMAL")
      BY <2>4, <2>5, <2>6, <3>3 DEF Same
    <3> QED BY <2>6, <3>2, <3>3
  <2>13. OpenRowsAreListed'
    <3> SUFFICES ASSUME NEW r \in table', r.reason = "ERROR"
                 PROVE  FaultOf(r) \in Current' \cup refused'
      BY DEF OpenRowsAreListed, OpenRows
    <3>1. r \in table /\ (r \in rows => ~done)
      BY <2>5, <2>6
    <3>2. CASE FaultOf(r) \in refused \/ r \in rows
      BY <2>6, <3>1, <3>2 DEF Faults
    <3>3. CASE FaultOf(r) \in Current /\ r \notin rows
      <4>1. PICK j \in DOMAIN list : FaultOf(r) = FaultOf(list[j])
        BY <3>3 DEF Current
      <4>2. j # i
        BY <2>4, <3>1, <3>3, <4>1, SameFault
      <4> QED BY <2>3, <4>1, <4>2 DEF Current
    <3> QED BY <3>1, <3>2, <3>3 DEF OpenRowsAreListed, OpenRows
  <2>14. Numbered'
    <3> SUFFICES ASSUME wpc = "idle" PROVE Numbered'
      BY <1>1 DEF Numbered
    <3>1. \A j \in DOMAIN list : list[j].seq < next
      BY <1>1 DEF Numbered, Stored
    <3>2. \A k, l \in DOMAIN list' : list'[k].seq = list'[l].seq => k = l
      BY <2>1, <2>2 DEF Numbered
    <3> QED BY <1>1, <2>1, <3>1, <3>2 DEF Numbered, Stored
  <2>15. Recorded => Recorded'
    <3> SUFFICES ASSUME wpc = "idle", Recorded, NEW k \in DOMAIN list'
                 PROVE  AsRow(list'[k], "ERROR") \in table' \/ FaultOf(list'[k]) \in refused'
      BY <1>1 DEF Recorded
    <3>1. Origin(i, k) \in DOMAIN list /\ list'[k] = list[Origin(i, k)]
      BY <2>1
    <3>2. AsRow(list'[k], "ERROR") \in table \/ FaultOf(list'[k]) \in refused
      BY <1>1, <3>1 DEF Recorded, Stored
    <3>3. AsRow(list'[k], "ERROR") \in table => AsRow(list'[k], "ERROR") \notin rows
      BY <2>4, <2>10 DEF AsRow, Same
    <3> QED BY <2>6, <3>2, <3>3
  <2> QED
    BY <2>7, <2>8, <2>9, <2>11, <2>12, <2>13, <2>14, <2>15
<1> QED
  BY <1>3, <1>4 DEF error_history_recover

\* The table is emptied.
LEMMA DeleteConsistent ==
  ASSUME Consistent, Delete
  PROVE  Consistent' /\ Recorded'
<1> USE DEF charge
<1>1. table' = {} /\ wpc' = "reset" /\ UNCHANGED <<raised, list, next, charge, clock>>
  BY DEF Delete
<1>2. Shape' /\ OneEntryEach'
  BY <1>1 DEF Consistent, Shape, OneEntryEach
<1>3. Past' /\ ClosedIsGone' /\ OneState' /\ OpenRowsAreListed' /\ Numbered' /\ Recorded'
  BY <1>1 DEF Consistent, Past, ClosedIsGone, OneState, OpenRowsAreListed, OpenRows, Numbered,
              Recorded
<1> QED BY <1>2, <1>3 DEF Consistent

\* The entries get the numbers from the next one on, and rows with these numbers.
LEMMA RestoreConsistent ==
  ASSUME Consistent, Restore
  PROVE  Consistent' /\ Recorded'
<1> USE DEF charge, Consistent
<1> DEFINE new(i) == [list[i] EXCEPT !.seq = next + i - 1]
<1>1. PICK no \in SUBSET Restored :
        /\ ~inserting /\ wpc' = "idle" /\ next' = next + Len(list)
        /\ list' = [i \in DOMAIN list |-> new(i)]
        /\ table' = table \cup (Restored \ no)
        /\ refused' = (refused \ Current) \cup Faults(no)
        /\ UNCHANGED <<raised, charge, clock>>
  BY DEF Restore, Renumbered
<1>2. PICK m \in Nat : m = Len(list) /\ DOMAIN list = 1..m
  BY Typed
<1>3. next \in Nat
  BY DEF Shape
<1>4. ASSUME NEW i \in 1..m
      PROVE  /\ new(i) \in Entry /\ new(i).seq = next + i - 1
             /\ new(i).id = list[i].id /\ new(i).begin = list[i].begin
  <2>1. list[i] \in Entry /\ next + i - 1 \in Nat
    BY <1>2, <1>3, Typed
  <2> QED BY <2>1 DEF Entry
<1> HIDE DEF new
<1>5. DOMAIN list' = 1..m /\ \A i \in 1..m : list'[i] = new(i)
  BY <1>1, <1>2
<1>6. list' \in Seq(Entry) /\ Len(list') = m
  <2>1. list' \in [1..m -> Entry]
    BY <1>1, <1>2, <1>4
  <2>2. list' \in Seq(Entry)
    BY <2>1, IsASeq, <1>1, <1>2, <1>4
  <2> QED BY <2>2, <1>5, LenProperties
<1>7. \A i \in 1..m : Same(list'[i], list[i]) /\ list'[i] \in Entry /\ list'[i].seq = next + i - 1
  BY <1>4, <1>5 DEF Same
<1>8. \A r \in Restored : \E i \in 1..m : r = AsRow(list'[i], "ERROR")
  BY <1>2 DEF Restored
<1>9. \A r \in Restored : \E i \in 1..m :
        r \in Row /\ r.reason = "ERROR" /\ Same(list'[i], r) /\ r.begin = list[i].begin
  <2>1. \A i \in 1..m : LET r == AsRow(list'[i], "ERROR")
                        IN  r \in Row /\ r.reason = "ERROR" /\ Same(list'[i], r)
    BY <1>7, RowOf
  <2> QED BY <1>7, <1>8, <2>1 DEF Same
<1>10. table \subseteq table' /\ table' \subseteq table \cup Restored
  BY <1>1
<1>11. Shape'
  <2>1. next' \in Nat
    BY <1>1, <1>2, <1>3
  <2>2. table' \subseteq Row
    BY <1>9, <1>10 DEF Shape
  <2> QED BY <1>1, <1>6, <2>1, <2>2 DEF Shape
<1>12. OneEntryEach'
  BY <1>2, <1>5, <1>7 DEF OneEntryEach, Same
<1>13. Past'
  <2>1. \A i \in 1..m : list[i].begin <= clock
    BY <1>2 DEF Past
  <2> QED BY <2>1, <1>1, <1>5, <1>7, <1>9, <1>10 DEF Past, Same
<1>14. ClosedIsGone'
  <2> SUFFICES ASSUME NEW r \in table', r.reason # "ERROR", NEW i \in DOMAIN list'
               PROVE  ~Same(list'[i], r)
    BY DEF ClosedIsGone
  <2>1. r \in table
    BY <1>9, <1>10
  <2> QED BY <2>1, <1>2, <1>5, <1>7 DEF ClosedIsGone, Same
<1>15. OneState'
  <2> SUFFICES ASSUME NEW r \in table', NEW q \in table', r.reason = "ERROR", q.reason # "ERROR"
               PROVE  ~Same(r, q)
    BY DEF OneState
  <2>1. q \in table
    BY <1>9, <1>10
  <2>2. CASE r \in table
    BY <2>1, <2>2 DEF OneState
  <2>3. CASE r \in Restored
    <3>1. PICK i \in 1..m : Same(list'[i], r)
      BY <2>3, <1>9
    <3>2. ~Same(list[i], q)
      BY <2>1, <1>2 DEF ClosedIsGone
    <3> QED BY <3>1, <3>2, <1>7 DEF Same
  <2> QED BY <2>2, <2>3, <1>10
<1>16. Current' = Current /\ OpenRowsAreListed'
  <2>1. \A i \in 1..m : FaultOf(list'[i]) = FaultOf(list[i])
    BY <1>7, SameFault
  <2>2. Current' = Current
    BY <2>1, <1>2, <1>5 DEF Current
  <2> SUFFICES ASSUME NEW r \in table', r.reason = "ERROR"
               PROVE  FaultOf(r) \in Current' \cup refused'
    BY <2>2 DEF OpenRowsAreListed, OpenRows
  <2>3. CASE r \in Restored
    <3>1. PICK i \in 1..m : Same(list'[i], r)
      BY <2>3, <1>9
    <3> QED BY <3>1, <1>5, SameFault DEF Current
  <2>4. CASE r \in table
    BY <2>2, <2>4, <1>1 DEF OpenRowsAreListed, OpenRows
  <2> QED BY <2>3, <2>4, <1>10
<1>17. Numbered'
  <2>1. \A i \in DOMAIN list' : list'[i].seq < next'
    BY <1>1, <1>2, <1>3, <1>5, <1>7
  <2>2. \A i, j \in DOMAIN list' : list'[i].seq = list'[j].seq => i = j
    BY <1>2, <1>3, <1>5, <1>7
  <2>3. \A i : Stored(i)'
    BY <1>1 DEF Stored
  <2> QED BY <2>1, <2>2, <2>3 DEF Numbered
<1>18. Recorded'
  <2> SUFFICES ASSUME NEW i \in DOMAIN list'
               PROVE  AsRow(list'[i], "ERROR") \in table' \/ FaultOf(list'[i]) \in refused'
    BY DEF Recorded
  <2>1. AsRow(list'[i], "ERROR") \in Restored
    BY <1>2, <1>5 DEF Restored
  <2>2. FaultOf(AsRow(list'[i], "ERROR")) = FaultOf(list'[i])
    BY <1>5, <1>7, RowOf, SameFault
  <2> QED BY <2>1, <2>2, <1>1 DEF Faults
<1> QED
  BY <1>11, <1>12, <1>13, <1>14, <1>15, <1>16, <1>17, <1>18

\* A start of the process closes what its predecessor left open.
LEMMA CrashConsistent ==
  ASSUME Consistent, Crash
  PROVE  Consistent' /\ Recorded'
<1> USE DEF Consistent
<1>1. PICK done \in BOOLEAN :
        /\ list' = <<>> /\ raised' = {} /\ alarm' = FALSE /\ at' = 0
        /\ found' = FALSE /\ inserting' = FALSE /\ wpc' = "idle" /\ clock' = clock
        /\ next' \in AfterHighest
        /\ table' = IF done THEN Unfinished ELSE table
        /\ refused' = refused \cup NotUpdated(OpenRows, done)
  BY DEF Crash
<1>2. <<>> \in Seq(Entry) /\ DOMAIN <<>> = {}
  BY EmptySeq
<1>3. \A r \in table : r.seq \in Nat
  BY Typed
<1>4. next' \in Nat
  BY <1>1, <1>3 DEF AfterHighest
<1>5. OpenRows \subseteq table
  BY DEF OpenRows
<1>6. \A r \in Closed(OpenRows, "DISCARD") :
        r \in Row /\ r.reason = "DISCARD" /\ \E o \in table : Same(o, r) /\ r.seq = o.seq
  BY <1>5, ClosedRows DEF Shape
<1>7. table' = IF done THEN (table \ OpenRows) \cup Closed(OpenRows, "DISCARD") ELSE table
  BY <1>1 DEF Unfinished
<1>8. Shape'
  <2>1. table' \subseteq Row
    BY <1>6, <1>7 DEF Shape
  <2>2. at' \in 0..NrErrors + 1
    BY <1>1, ErrorAssumption
  <2> QED BY <1>1, <1>2, <1>4, <2>1, <2>2 DEF Shape
<1>9. OneEntryEach' /\ ClosedIsGone' /\ Numbered' /\ Recorded'
  BY <1>1, <1>2 DEF OneEntryEach, ClosedIsGone, Numbered, Recorded
<1>10. Past'
  BY <1>1, <1>2, <1>6, <1>7 DEF Past, Same
<1>11. OneState'
  <2>1. CASE done
    <3>1. \A r \in table' : r.reason # "ERROR"
      BY <2>1, <1>6, <1>7 DEF OpenRows
    <3> QED BY <3>1 DEF OneState
  <2>2. CASE ~done
    BY <2>2, <1>7 DEF OneState
  <2> QED BY <2>1, <2>2
<1>12. OpenRowsAreListed'
  <2>1. CASE done
    <3>1. \A r \in table' : r.reason # "ERROR"
      BY <2>1, <1>6, <1>7 DEF OpenRows
    <3> QED BY <3>1 DEF OpenRowsAreListed, OpenRows
  <2>2. CASE ~done
    BY <2>2, <1>1 DEF OpenRowsAreListed, OpenRows, NotUpdated, Faults
  <2> QED BY <2>1, <2>2
<1> QED BY <1>8, <1>9, <1>10, <1>11, <1>12

-----------------------------------------------------------------------------
LEMMA NextConsistent ==
  Consistent /\ [ENext]_evars => Consistent' /\ (Recorded => Recorded')
<1> SUFFICES ASSUME Consistent, [ENext]_evars
             PROVE  Consistent' /\ (Recorded => Recorded')
  OBVIOUS
<1>1. CASE Bystander \/ UNCHANGED evars
  BY <1>1, BystanderConsistent
<1>2. CASE error_history_begin \/ Insert \/ error_history_recover
  BY <1>2, BeginConsistent, InsertConsistent, RecoverConsistent
<1>3. CASE Delete \/ Restore \/ Crash
  BY <1>3, DeleteConsistent, RestoreConsistent, CrashConsistent
<1> QED
  BY <1>1, <1>2, <1>3 DEF ENext, ChargeThread, WebThread, Bystander

\* List and table are consistent between any two steps, also while the table is
\* cleaned and the numbers start again.
THEOREM ListAndTableAgree == ESpec => []Consistent
BY InitConsistent, NextConsistent, PTL DEF ESpec

\* The types, with the length of the list: one entry per flag (charge.c 2302-2311).
THEOREM ErrorTypes == ESpec => []ETypeOK
<1>1. Consistent => ETypeOK
  <2> SUFFICES ASSUME Consistent PROVE ETypeOK
    OBVIOUS
  <2>1. Len(list) <= NrErrors
    <3> SUFFICES ASSUME ~(Len(list) <= NrErrors) PROVE FALSE
      OBVIOUS
    <3> DEFINE id == [i \in 1..Len(list) |-> list[i].id]
    <3>1. Len(list) \in Nat /\ DOMAIN list = 1..Len(list) /\ NrErrors \in Nat
      BY Typed, ErrorAssumption DEF Consistent
    <3>2. IsFiniteSet(1..Len(list)) /\ Cardinality(1..Len(list)) = Len(list)
      <4>1. 1 \in Int /\ Len(list) \in Int
        BY <3>1
      <4>2. /\ IsFiniteSet(1..Len(list))
            /\ Cardinality(1..Len(list)) = IF 1 > Len(list) THEN 0 ELSE Len(list) - 1 + 1
        BY <4>1, FS_Interval
      <4> QED BY <3>1, <4>2
    <3>3. IsFiniteSet(Error) /\ Cardinality(Error) = NrErrors
      <4>1. 1 \in Int /\ NrErrors \in Int
        BY <3>1
      <4>2. /\ IsFiniteSet(1..NrErrors)
            /\ Cardinality(1..NrErrors) = IF 1 > NrErrors THEN 0 ELSE NrErrors - 1 + 1
        BY <4>1, FS_Interval
      <4> QED BY <3>1, <4>2 DEF Error
    <3>4. id \in [1..Len(list) -> Error]
      BY <3>1, Typed DEF Consistent
    <3>5. Cardinality(Error) < Cardinality(1..Len(list))
      BY <3>1, <3>2, <3>3
    <3>6. \E i, j \in 1..Len(list) : i # j /\ id[i] = id[j]
      <4> HIDE DEF id
      <4> QED BY <3>2, <3>3, <3>4, <3>5, FS_PigeonHole
    <3> QED BY <3>1, <3>6 DEF Consistent, OneEntryEach
  <2> QED BY <2>1 DEF Consistent, Shape, ETypeOK
<1> QED BY <1>1, ListAndTableAgree, PTL

\* A row is open only while its error is in the list (charge.c 2374-2379, tom.c 309),
\* or else the data base refused a statement about it.
THEOREM OpenRowsAreCurrent == ESpec => []OpenRowsAreListed
BY ListAndTableAgree, PTL DEF Consistent

\* The numbers of the current errors tell them apart, though the web thread restarts
\* them outside the lock (ajax.c 698).
THEOREM NumbersTellErrorsApart == ESpec => []NumbersAreDistinct
<1>1. Consistent => NumbersAreDistinct
  BY DEF Consistent, Numbered, NumbersAreDistinct, Quiet
<1> QED BY <1>1, ListAndTableAgree, PTL

\* For any table and any cleaning: a current error that is not in the table while
\* nobody is in between two steps is one of which the data base refused a statement.
THEOREM CurrentErrorsAreRecorded == ESpec => []ListedIsRecorded
<1>1. EInit => Recorded
  BY InitConsistent
<1>2. Consistent /\ Recorded /\ [ENext]_evars => Recorded'
  BY NextConsistent
<1>3. Recorded => ListedIsRecorded
  BY DEF Recorded, Stored, ListedIsRecorded, Quiet
<1> QED BY <1>1, <1>2, <1>3, ListAndTableAgree, PTL DEF ESpec

\* In the table that config/ontom.sql makes, of six columns, no fault is ever
\* recorded: each one in the list is one of which the data base refused the INSERT.
THEOREM ShippedTableStaysEmpty ==
  ASSUME Columns # 5
  PROVE  ESpec => [](table = {} /\ (Quiet => Current \subseteq refused))
<1>1. EInit => table = {}
  BY DEF EInit
<1>2. table = {} /\ [ENext]_evars => (table = {})'
  <2> SUFFICES ASSUME table = {}, [ENext]_evars PROVE table' = {}
    OBVIOUS
  <2>1. CASE Bystander \/ error_history_begin \/ UNCHANGED evars
    BY <2>1
       DEF Bystander, Raise, Lower, Start, Known, Finish, Reset, error_history_begin, evars
  <2>2. CASE Insert \/ Restore
    BY <2>2 DEF Insert, Restore, Unstored
  <2>3. CASE error_history_recover \/ Crash
    BY <2>3
       DEF error_history_recover, Recovered, RowsOf, Crash, Unfinished, OpenRows, Closed
  <2>4. CASE Delete
    BY <2>4 DEF Delete
  <2> QED
    BY <2>1, <2>2, <2>3, <2>4 DEF ENext, ChargeThread, WebThread, Bystander
<1>3. table = {} /\ ListedIsRecorded => (Quiet => Current \subseteq refused)
  BY DEF ListedIsRecorded, Current
<1> QED BY <1>1, <1>2, <1>3, CurrentErrorsAreRecorded, PTL DEF ESpec

\* How an error ended is never rewritten: error_history_recover finds a row by flag
\* and time, and no closed row has those of a current error.
THEOREM ClosedRowsAreFinal == ESpec => EndIsFinal
<1>1. ASSUME Consistent, [ENext]_evars, NEW r \in table, r.reason # "ERROR"
      PROVE  r \in table' \/ Delete
  <2>1. CASE Bystander \/ error_history_begin \/ UNCHANGED evars
    BY <2>1 DEF Bystander, Raise, Lower, Start, Known, Finish, Reset, error_history_begin, evars
  <2>2. CASE Insert \/ Restore
    BY <2>2 DEF Insert, Restore
  <2>3. CASE error_history_recover
    <3>1. CASE UNCHANGED table
      BY <3>1
    <3>2. ASSUME NEW i \in DOMAIN list, table' = Recovered(list[i])
          PROVE  r \in table'
      <4>1. r \notin RowsOf(list[i])
        BY <1>1 DEF Consistent, ClosedIsGone, Same, RowsOf
      <4> QED BY <3>2, <4>1 DEF Recovered
    <3> QED BY <2>3, <3>1, <3>2 DEF error_history_recover
  <2>4. CASE Crash
    BY <1>1, <2>4 DEF Crash, Unfinished, OpenRows
  <2> QED
    BY <1>1, <2>1, <2>2, <2>3, <2>4 DEF ENext, ChargeThread, WebThread, Bystander
<1>2. Consistent /\ [ENext]_evars
        => [\A r \in table : r.reason # "ERROR" => r \in table' \/ Delete]_evars
  BY <1>1
<1> QED BY <1>2, ListAndTableAgree, PTL DEF ESpec, EndIsFinal

-----------------------------------------------------------------------------
(* The journal that list and table implement.                              *)

Journaled == <<Current, Closings, wpc # "idle", refused, clock>>

\* The entry that has no row yet is the newest.
Newest == inserting => list[Len(list)].begin = clock

JInv == Consistent /\ Newest /\ Recorded

LEMMA NextNewest == Consistent /\ Newest /\ [ENext]_evars => Newest'
<1> SUFFICES ASSUME Consistent, Newest, [ENext]_evars PROVE Newest'
  OBVIOUS
<1> USE DEF charge
<1>1. CASE error_history_begin
  <2> DEFINE x == [id |-> at, begin |-> clock + 1, seq |-> next]
  <2>1. list' = Append(list, x) /\ clock' = clock + 1 /\ at \in Error
    BY <1>1 DEF error_history_begin
  <2>2. x \in Entry /\ x.begin = clock'
    BY <2>1 DEF Consistent, Shape, Entry
  <2> HIDE DEF x
  <2>3. list'[Len(list')] = x
    BY <2>1, <2>2, AppendProperties, LenProperties DEF Consistent, Shape
  <2> QED BY <2>2, <2>3 DEF Newest
<1>2. CASE Bystander \/ Delete \/ UNCHANGED evars
  <2>1. UNCHANGED <<list, clock, inserting>>
    BY <1>2 DEF Bystander, Raise, Lower, Start, Known, Finish, Reset, Delete, evars
  <2> QED BY <2>1 DEF Newest
<1>3. CASE Insert \/ error_history_recover \/ Restore \/ Crash
  <2>1. ~inserting'
    BY <1>3 DEF Insert, error_history_recover, Restore, Crash, Consistent, Shape
  <2> QED BY <2>1 DEF Newest
<1> QED
  BY <1>1, <1>2, <1>3 DEF ENext, ChargeThread, WebThread, Bystander

\* Open rows do not show in the journal.
LEMMA OpenRowsDoNotShow ==
  ASSUME table \subseteq table', \A r \in table' : r \in table \/ r.reason = "ERROR"
  PROVE  Closings' = Closings
<1>1. table' \ OpenRows' = table \ OpenRows
  BY DEF OpenRows
<1> QED BY <1>1 DEF Closings

LEMMA BystanderStutters ==
  ASSUME Bystander \/ UNCHANGED evars
  PROVE  UNCHANGED Journaled
<1> USE DEF charge
<1>1. UNCHANGED <<list, table, clock, refused>>
  BY DEF Bystander, Raise, Lower, Start, Known, Finish, Reset, evars
<1>2. (wpc # "idle")' <=> wpc # "idle"
  BY DEF Bystander, Raise, Lower, Start, Known, Finish, Reset, evars
<1>3. Current' = Current /\ Closings' = Closings
  BY <1>1 DEF Current, Closings, OpenRows
<1> QED BY <1>1, <1>2, <1>3 DEF Journaled

LEMMA InsertStoresOrRefuses ==
  ASSUME Consistent, Insert
  PROVE  (\E x \in Current : History!Refuse(x)) \/ UNCHANGED Journaled
<1> DEFINE x == list[Len(list)]
           r == AsRow(x, "ERROR")
<1>1. PICK no \in SUBSET {r} :
        /\ inserting /\ table' = table \cup ({r} \ no) /\ refused' = refused \cup Faults(no)
        /\ UNCHANGED <<list, wpc, clock>>
  BY DEF Insert, NewRow
<1>2. r.reason = "ERROR" /\ FaultOf(r) = FaultOf(x)
  BY DEF AsRow, FaultOf
<1>3. FaultOf(x) \in Current
  BY <1>1, Typed DEF Consistent, Shape, Current
<1> HIDE DEF r
<1>4. Closings' = Closings
  BY <1>1, <1>2, OpenRowsDoNotShow
<1>5. Current' = Current
  BY <1>1 DEF Current
<1>6. CASE no = {}
  <2>1. refused' = refused
    BY <1>1, <1>6 DEF Faults
  <2> QED BY <2>1, <1>1, <1>4, <1>5 DEF Journaled
<1>7. CASE no = {r}
  <2>1. refused' = refused \cup {FaultOf(x)}
    BY <1>1, <1>2, <1>7 DEF Faults
  <2> QED BY <2>1, <1>1, <1>3, <1>4, <1>5 DEF History!Refuse
<1> QED BY <1>1, <1>6, <1>7

LEMMA BeginBegins ==
  ASSUME Consistent, error_history_begin
  PROVE  History!Begin(at)
<1> DEFINE x == [id |-> at, begin |-> clock + 1, seq |-> next]
<1>1. /\ list' = Append(list, x) /\ clock' = clock + 1 /\ at \in Error /\ ~Listed(at)
      /\ UNCHANGED <<table, wpc, refused>>
  BY DEF error_history_begin
<1>2. x \in Entry /\ x.id = at /\ x.begin = clock'
  BY <1>1 DEF Consistent, Shape, Entry
<1> HIDE DEF x
<1>3. PICK m \in Nat : m = Len(list) /\ DOMAIN list = 1..m
  BY Typed DEF Consistent
<1>4. /\ DOMAIN list' = 1..m + 1 /\ list'[m + 1] = x
      /\ \A i \in 1..m : list'[i] = list[i]
  <2>1. list \in Seq(Entry)
    BY DEF Consistent, Shape
  <2>2. list' \in Seq(Entry) /\ Len(list') = m + 1
    BY <2>1, <1>1, <1>2, <1>3, AppendProperties
  <2> QED BY <2>1, <2>2, <1>1, <1>2, <1>3, AppendProperties, LenProperties
<1>5. Current' = Current \cup {[id |-> at, begin |-> clock']}
  <2>1. \A i \in 1..m + 1 : i \in 1..m \/ i = m + 1
    OBVIOUS
  <2>2. m + 1 \in 1..m + 1 /\ 1..m \subseteq 1..m + 1
    OBVIOUS
  <2> QED BY <1>2, <1>3, <1>4, <2>1, <2>2 DEF Current, FaultOf
<1>6. \A y \in Current : y.id # at
  BY <1>1 DEF Current, FaultOf, Listed
<1>7. Closings' = Closings
  BY <1>1 DEF Closings, OpenRows
<1> QED BY <1>1, <1>5, <1>6, <1>7 DEF History!Begin, History!Fault

\* The entry that goes is the only one of its fault, and all its rows are open.
LEMMA RecoverEnds ==
  ASSUME JInv, error_history_recover
  PROVE  (\E x \in Current : History!End(x)) \/ UNCHANGED Journaled
<1> USE DEF JInv
<1>1. ~inserting /\ UNCHANGED <<wpc, clock>>
  BY DEF error_history_recover
<1>2. CASE UNCHANGED <<list, table, refused>>
  BY <1>1, <1>2 DEF Current, Closings, OpenRows, Journaled
<1>3. ASSUME NEW i \in DOMAIN list, list' = Without(i), NEW done \in BOOLEAN,
             table' = IF done THEN Recovered(list[i]) ELSE table,
             refused' = refused \cup NotUpdated(RowsOf(list[i]), done)
      PROVE  \E x \in Current : History!End(x)
  <2> DEFINE x == FaultOf(list[i])
             rows == RowsOf(list[i])
             closing == [id |-> x.id, begin |-> x.begin, reason |-> "NORMAL"]
  <2>0. x = [id |-> list[i].id, begin |-> list[i].begin]
    BY DEF FaultOf
  <2>1. /\ DOMAIN list' = 1..Len(list) - 1
        /\ \A k \in DOMAIN list' :
             Origin(i, k) \in DOMAIN list \ {i} /\ list'[k] = list[Origin(i, k)]
    <3>1. list \in Seq(Entry) /\ list' = Rest(list, i)
      BY <1>3 DEF Without, Rest, Consistent, Shape
    <3> QED BY <3>1, TakeOut
  <2>2. \A j \in DOMAIN list \ {i} : \E k \in DOMAIN list' : list'[k] = list[j]
    <3>1. list \in Seq(Entry) /\ list' = Rest(list, i)
      BY <1>3 DEF Without, Rest, Consistent, Shape
    <3> QED BY <3>1, OthersStay
  <2>3. Current' = Current \ {x}
    <3>1. Current' \subseteq Current
      BY <2>1 DEF Current
    <3>2. \A k \in DOMAIN list' : list'[k].id # x.id
      BY <2>0, <2>1 DEF Consistent, OneEntryEach
    <3>4. x \notin Current'
      BY <3>2 DEF Current, FaultOf
    <3>3. Current \ {x} \subseteq Current'
      BY <2>2 DEF Current
    <3> QED BY <3>1, <3>3, <3>4
  <2>4. \A r \in rows : r \in table /\ r.reason = "ERROR" /\ r.id = x.id /\ r.begin = x.begin
    BY <2>0 DEF RowsOf, Consistent, ClosedIsGone, Same
  <2>5. \A r \in Closed(rows, "NORMAL") :
          r.reason = "NORMAL" /\ r.id = x.id /\ r.begin = x.begin
    BY <2>4, ClosedRows DEF Same, Consistent, Shape
  <2>6. rows # {} => Closed(rows, "NORMAL") # {}
    BY DEF Closed
  <2>7. /\ table' = IF done THEN (table \ rows) \cup Closed(rows, "NORMAL") ELSE table
        /\ refused' = IF done THEN refused ELSE refused \cup Faults(rows)
    BY <1>3 DEF Recovered, NotUpdated
  <2>8. wpc = "idle" => rows # {} \/ x \in refused
    <3>1. AsRow(list[i], "ERROR") \in table => AsRow(list[i], "ERROR") \in rows
      BY DEF RowsOf, AsRow
    <3> QED BY <1>1, <3>1 DEF Recorded, Stored
  <2> HIDE DEF rows
  <2>9. rows = {} => Closed(rows, "NORMAL") = {}
    BY DEF Closed
  <2>10. rows # {} => Faults(rows) = {x}
    BY <2>0, <2>4 DEF Faults, FaultOf
  <2>11. rows = {} => Faults(rows) = {}
    BY DEF Faults
  <2>12. x \in Current /\ (wpc # "idle")' = (wpc # "idle")
    BY <1>1 DEF Current
  <2>13. CASE done /\ rows # {}
    <3>1. table' \ OpenRows' = (table \ OpenRows) \cup Closed(rows, "NORMAL")
      BY <2>4, <2>5, <2>7, <2>13 DEF OpenRows
    <3>2. Closings' = Closings \cup {closing}
      BY <2>5, <2>6, <2>13, <3>1 DEF Closings
    <3>3. closing = History!Ended(x, "NORMAL") /\ refused' = refused
      BY <2>7, <2>13 DEF History!Ended
    <3> HIDE DEF closing, x
    <3> QED BY <3>2, <3>3, <2>3, <2>12, <1>1 DEF History!End
  <2>14. CASE ~(done /\ rows # {})
    <3>1. table' = table
      BY <2>7, <2>9, <2>14
    <3>2. Closings' = Closings
      BY <3>1 DEF Closings, OpenRows
    <3>3. IF rows = {} THEN refused' = refused ELSE refused' = refused \cup {x}
      BY <2>7, <2>10, <2>11, <2>14
    <3>4. \/ wpc # "idle" /\ refused' = refused
          \/ refused' = refused \cup {x}
      BY <3>3, <2>8
    <3> HIDE DEF x
    <3> QED BY <3>2, <3>4, <2>3, <2>12, <1>1 DEF History!End
  <2> QED BY <2>13, <2>14
<1> QED
  BY <1>2, <1>3 DEF error_history_recover

\* The journal is emptied.
LEMMA DeleteCleans == ASSUME Delete PROVE History!Clean
<1>1. table' = {} /\ wpc' = "reset" /\ UNCHANGED <<list, clock, refused>>
  BY DEF Delete
<1>2. Closings' = {} /\ Current' = Current
  BY <1>1 DEF Closings, Current
<1> QED BY <1>1, <1>2 DEF History!Clean

\* New numbers and new open rows do not show.
LEMMA RestoreIsCleaned ==
  ASSUME Consistent, Restore
  PROVE  History!Cleaned
<1>1. PICK no \in SUBSET Restored :
        /\ wpc' = "idle" /\ clock' = clock
        /\ list' = [i \in DOMAIN list |-> [list[i] EXCEPT !.seq = Renumbered(i)]]
        /\ table' = table \cup (Restored \ no)
        /\ refused' = (refused \ Current) \cup Faults(no)
  BY DEF Restore
<1>2. \A i \in DOMAIN list : FaultOf(list'[i]) = FaultOf(list[i])
  <2>1. \A i \in DOMAIN list : list[i] \in Entry
    BY Typed DEF Consistent
  <2> QED BY <1>1, <2>1 DEF Entry, FaultOf
<1>3. DOMAIN list' = DOMAIN list
  BY <1>1
<1>4. Current' = Current
  BY <1>2, <1>3 DEF Current
<1>5. \A r \in Restored : r.reason = "ERROR" /\ FaultOf(r) \in Current
  <2>1. \A i \in DOMAIN list : FaultOf(AsRow(list'[i], "ERROR")) = FaultOf(list'[i])
    BY DEF AsRow, FaultOf
  <2>2. \A i \in DOMAIN list : AsRow(list'[i], "ERROR").reason = "ERROR"
    BY DEF AsRow
  <2> QED BY <1>2, <2>1, <2>2 DEF Restored, Current
<1>6. Closings' = Closings
  BY <1>1, <1>5, OpenRowsDoNotShow
<1>7. Faults(no) \in SUBSET Current
  BY <1>5 DEF Faults
<1> QED BY <1>1, <1>4, <1>6, <1>7 DEF History!Cleaned

\* The next start writes down what the process left open: all that was in the list,
\* but for an entry that was not yet stored, for a cleaning under way and for what the
\* data base refuses.
LEMMA CrashDies ==
  ASSUME JInv, Crash
  PROVE  History!Die
<1> USE DEF JInv
<1> DEFINE left == Faults(OpenRows)
<1>1. PICK done \in BOOLEAN :
        /\ list' = <<>> /\ wpc' = "idle" /\ clock' = clock
        /\ table' = IF done THEN Unfinished ELSE table
        /\ refused' = refused \cup NotUpdated(OpenRows, done)
  BY DEF Crash
<1>2. Current' = {}
  <2>1. DOMAIN <<>> = {}
    OBVIOUS
  <2> QED BY <1>1, <2>1 DEF Current
<1>3. left \subseteq Current \cup refused
  BY DEF Consistent, OpenRowsAreListed, Faults
<1>4. \A x \in left : ~History!HasEnd(x)
  <2> SUFFICES ASSUME NEW r \in OpenRows PROVE ~History!HasEnd(FaultOf(r))
    BY DEF Faults
  <2>1. \A q \in table \ OpenRows : ~Same(r, q)
    BY DEF OpenRows, Consistent, OneState
  <2>2. ASSUME NEW c \in Closings PROVE ~(c.id = r.id /\ c.begin = r.begin)
    BY <2>1 DEF Closings, Same
  <2>3. FaultOf(r).id = r.id /\ FaultOf(r).begin = r.begin
    BY DEF FaultOf
  <2> QED BY <2>2, <2>3 DEF History!HasEnd
\* Without the UPDATE nothing is written, and all that was open is refused.
<1>5. /\ done => Closings' = Closings \cup {History!Ended(x, "DISCARD") : x \in left}
      /\ ~done => Closings' = Closings
  <2>1. ~done => Closings' = Closings
    BY <1>1 DEF Closings, OpenRows
  <2>2. ASSUME done PROVE Closings' = Closings \cup {History!Ended(x, "DISCARD") : x \in left}
    <3> DEFINE closing(o) == [id |-> o.id, begin |-> o.begin, reason |-> "DISCARD"]
    <3>1. \A o \in OpenRows : o \in Row
      BY DEF OpenRows, Consistent, Shape
    <3>2. \A o \in OpenRows : LET r == [o EXCEPT !.reason = "DISCARD"]
                              IN  r.id = o.id /\ r.begin = o.begin /\ r.reason = "DISCARD"
      BY <3>1 DEF Row
    <3>3. table' \ OpenRows' = (table \ OpenRows) \cup Closed(OpenRows, "DISCARD")
      BY <1>1, <2>2, <3>2 DEF Unfinished, OpenRows, Closed
    <3>4. {[id |-> r.id, begin |-> r.begin, reason |-> r.reason] : r \in Closed(OpenRows, "DISCARD")}
            = {closing(o) : o \in OpenRows}
      BY <3>2 DEF Closed
    <3>5. {History!Ended(x, "DISCARD") : x \in left} = {closing(o) : o \in OpenRows}
      <4>1. \A o \in OpenRows : History!Ended(FaultOf(o), "DISCARD") = closing(o)
        BY DEF History!Ended, FaultOf
      <4> QED BY <4>1 DEF Faults
    <3> HIDE DEF left, closing
    <3> QED BY <3>3, <3>4, <3>5 DEF Closings
  <2> QED BY <2>1, <2>2
<1>6. ASSUME wpc = "idle", NEW x \in Current, x \notin left PROVE x.begin = clock \/ x \in refused
  <2>1. PICK i \in DOMAIN list : x = FaultOf(list[i])
    BY <1>6 DEF Current
  <2>2. AsRow(list[i], "ERROR") \notin table
    <3>1. FaultOf(AsRow(list[i], "ERROR")) = x /\ AsRow(list[i], "ERROR").reason = "ERROR"
      BY <2>1 DEF AsRow, FaultOf
    <3> QED BY <3>1, <1>6 DEF OpenRows, Faults
  <2>3. CASE Stored(i)
    BY <1>6, <2>1, <2>2, <2>3 DEF Recorded
  <2>4. CASE ~Stored(i)
    <3>1. list[i].begin = clock
      BY <2>4 DEF Stored, Newest
    <3> QED BY <3>1, <2>1 DEF FaultOf
  <2> QED BY <2>3, <2>4
<1>7. NotUpdated(OpenRows, done) = IF done THEN {} ELSE left
  BY DEF NotUpdated
<1> DEFINE written == IF done THEN left ELSE {}
<1>8. /\ written \in SUBSET {x \in Current \cup refused : ~History!HasEnd(x)}
      /\ Closings' = Closings \cup {History!Ended(x, "DISCARD") : x \in written}
  BY <1>3, <1>4, <1>5
<1>9. ~(wpc # "idle") => \A x \in Current \ written : x.begin = clock \/ x \in refused'
  BY <1>1, <1>6, <1>7
<1>10. \E no \in SUBSET Current : refused' = refused \cup no
  <2>1. CASE done
    BY <1>1, <1>7, <2>1
  <2>2. CASE ~done
    <3>1. left \cap Current \in SUBSET Current /\ refused' = refused \cup (left \cap Current)
      BY <1>1, <1>3, <1>7, <2>2
    <3> HIDE DEF left
    <3> QED BY <3>1
  <2> QED BY <2>1, <2>2
<1> HIDE DEF left, written
<1> QED BY <1>1, <1>2, <1>8, <1>9, <1>10 DEF History!Die

LEMMA NextOfJournal == JInv /\ [ENext]_evars => [History!Next]_Journaled
<1> SUFFICES ASSUME JInv, [ENext]_evars PROVE History!Next \/ UNCHANGED Journaled
  OBVIOUS
<1>1. CASE Bystander \/ Insert \/ UNCHANGED evars
  BY <1>1, BystanderStutters, InsertStoresOrRefuses DEF JInv, History!Next
<1>2. CASE error_history_begin
  <2>1. at \in Error
    BY <1>2 DEF error_history_begin
  <2> QED BY <1>2, <2>1, BeginBegins DEF JInv, History!Next
<1>3. CASE error_history_recover
  BY <1>3, RecoverEnds DEF History!Next
<1>4. CASE Delete \/ Restore \/ Crash
  BY <1>4, DeleteCleans, RestoreIsCleaned, CrashDies DEF JInv, History!Next
<1> QED
  BY <1>1, <1>2, <1>3, <1>4 DEF ENext, ChargeThread, WebThread, Bystander

LEMMA InitJournal == EInit => JInv /\ History!Init
<1> SUFFICES ASSUME EInit PROVE JInv /\ History!Init
  OBVIOUS
<1>1. JInv
  BY InitConsistent DEF JInv, Newest, EInit
<1>2. Current = {} /\ Closings = {}
  <2>1. DOMAIN <<>> = {}
    OBVIOUS
  <2> QED BY <2>1 DEF EInit, Current, Closings
<1> QED BY <1>1, <1>2 DEF EInit, History!Init

\* ErrorHistory implements Journal, for tables of five columns and of six and whatever
\* statements the data base refuses.
THEOREM HistoryImplementsJournal == ESpec => ImplementsJournal
<1>1. JInv /\ [ENext]_evars => JInv'
  BY NextConsistent, NextNewest DEF JInv
<1> QED
  BY <1>1, InitJournal, NextOfJournal, PTL
  DEF ESpec, ImplementsJournal, History!Spec, Journaled

-----------------------------------------------------------------------------
(* What follows from the promise of the journal alone.                     *)

\* Faults are told apart by flag and time, and the next one begins later.
JournalInv ==
  /\ clock \in Int
  /\ \A x \in Current : x = History!Fault(x.id, x.begin) /\ x.begin \in Int /\ x.begin <= clock
  /\ \A c \in Closings : c = History!Ended(c, c.reason) /\ c.begin \in Int /\ c.begin <= clock
  /\ \A x \in refused : x.begin \in Int /\ x.begin <= clock
  /\ History!EndedOnce

LEMMA InitJournalInv == History!Init => JournalInv
BY DEF History!Init, JournalInv, History!EndedOnce

LEMMA NextJournalInv == JournalInv /\ [History!Next]_Journaled => JournalInv'
<1> SUFFICES ASSUME JournalInv, [History!Next]_Journaled PROVE JournalInv'
  OBVIOUS
<1> USE DEF JournalInv, History!EndedOnce, History!Fault, History!Ended
<1>0. ASSUME NEW x \in Current, History!Refuse(x) PROVE JournalInv'
  BY <1>0 DEF History!Refuse
<1>1. ASSUME NEW e \in Error, History!Begin(e) PROVE JournalInv'
  <2> DEFINE x == [id |-> e, begin |-> clock']
  <2>1. clock' = clock + 1 /\ Current' = Current \cup {x} /\ UNCHANGED <<Closings, refused>>
    BY <1>1 DEF History!Begin
  <2>2. x.id = e /\ x.begin = clock'
    OBVIOUS
  <2> QED BY <2>1, <2>2
<1>2. ASSUME NEW x \in Current, History!End(x) PROVE JournalInv'
  <2>1. /\ Current' = Current \ {x} /\ clock' = clock
        /\ refused' \subseteq refused \cup {x}
        /\ Closings' = Closings
             \/ Closings' = Closings \cup {[id |-> x.id, begin |-> x.begin, reason |-> "NORMAL"]}
    BY <1>2 DEF History!End
  <2>2. \A y \in Current' : ~(y.id = x.id /\ y.begin = x.begin)
    BY <2>1
  <2>3. CASE Closings' = Closings
    BY <2>1, <2>3
  <2>4. CASE Closings' = Closings \cup {[id |-> x.id, begin |-> x.begin, reason |-> "NORMAL"]}
    <3> DEFINE c == [id |-> x.id, begin |-> x.begin, reason |-> "NORMAL"]
    <3>1. c.id = x.id /\ c.begin = x.begin /\ c.reason = "NORMAL"
      OBVIOUS
    <3>2. \A d \in Closings : ~(d.id = c.id /\ d.begin = c.begin)
      BY <3>1
    <3>3. c = [id |-> c.id, begin |-> c.begin, reason |-> c.reason] /\ c.begin \in Int /\ c.begin <= clock
      BY <3>1
    <3> HIDE DEF c
    <3>4. Closings' = Closings \cup {c}
      BY <2>4 DEF c
    <3> QED BY <2>1, <2>2, <3>1, <3>2, <3>3, <3>4
  <2> QED BY <2>1, <2>3, <2>4
<1>3. CASE History!Clean
  BY <1>3 DEF History!Clean
<1>4. CASE History!Cleaned
  BY <1>4 DEF History!Cleaned
<1>6. CASE UNCHANGED Journaled
  BY <1>6 DEF Journaled
<1>5. CASE History!Die
  <2>1. PICK written \in SUBSET {x \in Current \cup refused : ~History!HasEnd(x)} :
          Closings' = Closings \cup {[id |-> x.id, begin |-> x.begin, reason |-> "DISCARD"] : x \in written}
    BY <1>5 DEF History!Die
  <2>2. Current' = {} /\ clock' = clock /\ refused' \subseteq refused \cup Current
    BY <1>5 DEF History!Die
  <2>3. ASSUME NEW c \in Closings', c \notin Closings
        PROVE  \E x \in Current \cup refused :
                 /\ ~History!HasEnd(x)
                 /\ c.id = x.id /\ c.begin = x.begin /\ c = [id |-> x.id, begin |-> x.begin, reason |-> "DISCARD"]
    BY <2>1, <2>3
  <2>4. \A c \in Closings' :
          c = [id |-> c.id, begin |-> c.begin, reason |-> c.reason] /\ c.begin \in Int /\ c.begin <= clock
    BY <2>3
  <2>5. \A c, d \in Closings' : c.id = d.id /\ c.begin = d.begin => c = d
    BY <2>3 DEF History!HasEnd
  <2> QED BY <2>2, <2>4, <2>5
<1> QED BY <1>0, <1>1, <1>2, <1>3, <1>4, <1>5, <1>6 DEF History!Next

\* Each fault has at most one end in the history, and none while it is current.
THEOREM FaultsEndOnce == ESpec => []History!EndedOnce
<1>1. JournalInv => History!EndedOnce
  BY DEF JournalInv
<1> QED
  BY <1>1, InitJournalInv, NextJournalInv, HistoryImplementsJournal, PTL
  DEF ImplementsJournal, History!Spec, Journaled
=============================================================================
