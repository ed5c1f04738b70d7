----------------------------- MODULE RecordsProofs -----------------------------
(***************************************************************************)
(* Theorems about what the orders of Maintenance keep a record of: the     *)
(* alarm reports, and the steps of the repair.                             *)
(***************************************************************************)
EXTENDS MaintenanceProofs, FiniteSetTheorems, SequenceTheorems

USE MaintenanceAssumption

------------------------------------------------------------------------------
(* The reports *)

\* Who is in the two sets.
LEMMA InFlightHas ==
  \A x : x \in InFlight <=> \E c \in Cabins : \E n \in 1..reporting[c] : x = <<c, n>>
BY DEF InFlight

LEMMA RecordedHas ==
  \A x : x \in Recorded <=>
    \E o \in Orders : Stored(o) /\ \E n \in 0..orders[o].duplicates : x = <<o, n>>
BY DEF Recorded

LEMMA Counting ==
  ASSUME NEW n \in Nat
  PROVE  /\ n + 1 \notin 0..n /\ n + 1 \notin 1..n
         /\ 0..n+1 = (0..n) \cup {n + 1}
         /\ 1..n+1 = (1..n) \cup {n + 1}
         /\ n > 0 => n \in 1..n /\ 1..n-1 = (1..n) \ {n}
OBVIOUS

\* A report that arrives is one more in flight.
LEMMA ReportTakesOff ==
  ASSUME TypeOK, NEW c \in Cabins, reporting' = [reporting EXCEPT ![c] = @ + 1]
  PROVE  \E x : x \notin InFlight /\ InFlight' = InFlight \cup {x}
<1> DEFINE n == reporting[c]
<1>1. /\ n \in Nat
      /\ \A y \in Cabins : reporting'[y] = IF y = c THEN n + 1 ELSE reporting[y]
  BY DEF TypeOK
<1> HIDE DEF n
<1>2. n + 1 \notin 1..n /\ 1..n+1 = (1..n) \cup {n + 1}
  BY <1>1, Counting
<1>3. \A x : x \in InFlight' <=> \E y \in Cabins : \E i \in 1..reporting'[y] : x = <<y, i>>
  BY DEF InFlight
<1>4. <<c, n + 1>> \notin InFlight
  BY <1>2, InFlightHas DEF n
<1>5. \A x : x \in InFlight' <=> x \in InFlight \cup {<<c, n + 1>>}
  BY <1>1, <1>2, <1>3, InFlightHas DEF n
<1>6. QED
  BY <1>4, <1>5

\* A report that has reached the store is one less.
LEMMA ReportLands ==
  ASSUME TypeOK, NEW c \in Cabins, reporting[c] > 0,
         reporting' = [reporting EXCEPT ![c] = @ - 1]
  PROVE  \E x : x \in InFlight /\ InFlight' = InFlight \ {x}
<1> DEFINE n == reporting[c]
<1>1. /\ n \in Nat /\ n > 0
      /\ \A y \in Cabins : reporting'[y] = IF y = c THEN n - 1 ELSE reporting[y]
  BY DEF TypeOK
<1> HIDE DEF n
<1>2. n \in 1..n /\ 1..n-1 = (1..n) \ {n}
  BY <1>1, Counting
<1>3. \A x : x \in InFlight' <=> \E y \in Cabins : \E i \in 1..reporting'[y] : x = <<y, i>>
  BY DEF InFlight
<1>4. <<c, n>> \in InFlight
  BY <1>2, InFlightHas DEF n
<1>5. \A x : x \in InFlight' <=> x \in InFlight \ {<<c, n>>}
  BY <1>1, <1>2, <1>3, InFlightHas DEF n
<1>6. QED
  BY <1>4, <1>5

\* It opens an order, or is one more on the order that is open.
LEMMA ReportIsRecorded ==
  ASSUME TypeOK, NEW c \in Cabins, ReportAlarm(c)
  PROVE  \E x : x \notin Recorded /\ Recorded' = Recorded \cup {x}
<1>0. orders \in [Orders -> Order]
  BY DEF TypeOK
<1>1. \A x : x \in Recorded' <=>
        \E o \in Orders : orders'[o].status # "absent"
                          /\ \E n \in 0..orders'[o].duplicates : x = <<o, n>>
  BY DEF Recorded, Stored
<1>2. ASSUME NEW o \in Orders, Stored(o),
             orders' = [orders EXCEPT ![o] = AddDuplicateReporter(orders[o])]
      PROVE  \E x : x \notin Recorded /\ Recorded' = Recorded \cup {x}
  <2> DEFINE n == orders[o].duplicates
  <2>1. n \in Nat
    BY <1>0 DEF Order
  <2>2. /\ orders'[o].status = orders[o].status /\ orders'[o].duplicates = n + 1
        /\ \A y \in Orders \ {o} : orders'[y] = orders[y]
    BY <1>0, <1>2 DEF AddDuplicateReporter, Order
  <2>3. 0..n+1 = (0..n) \cup {n + 1} /\ n + 1 \notin 0..n
    BY <2>1
  <2> HIDE DEF n
  <2>4. <<o, n + 1>> \notin Recorded
    BY <2>3, RecordedHas DEF n
  <2>5. \A x : x \in Recorded' <=> x \in Recorded \cup {<<o, n + 1>>}
    BY <1>1, <1>2, <2>2, <2>3, RecordedHas DEF Stored, n
  <2>6. QED
    BY <2>4, <2>5
<1>3. ASSUME NEW o \in Orders, ~Stored(o),
             orders' = [orders EXCEPT ![o] = NewMaintenanceOrder(c)]
      PROVE  \E x : x \notin Recorded /\ Recorded' = Recorded \cup {x}
  <2>1. /\ orders'[o].status = "reported" /\ orders'[o].duplicates = 0
        /\ \A y \in Orders \ {o} : orders'[y] = orders[y]
    BY <1>0, <1>3 DEF NewMaintenanceOrder, AbsentOrder
  <2>2. <<o, 0>> \notin Recorded
    BY <1>3, RecordedHas
  <2>3. 0..0 = {0}
    OBVIOUS
  <2>4. \A x : x \in Recorded' <=> x \in Recorded \cup {<<o, 0>>}
    BY <1>1, <1>3, <2>1, <2>3, RecordedHas DEF Stored
  <2>5. QED
    BY <2>2, <2>4
<1>4. QED
  BY <1>2, <1>3 DEF ReportAlarm, ActiveOrders, IsActive, Stored

\* What becomes of an order otherwise leaves its reports alone.
LEMMA RecordStays ==
  ASSUME TypeOK, NEW o \in Orders, NEW new, Stored(o),
         new.status # "absent", new.duplicates = orders[o].duplicates,
         orders' = [orders EXCEPT ![o] = new]
  PROVE  UNCHANGED Recorded
<1>1. \A y \in Orders : /\ orders'[y].status = "absent" <=> orders[y].status = "absent"
                        /\ orders'[y].duplicates = orders[y].duplicates
  BY DEF TypeOK, Stored
<1>2. \A y \in Orders : Stored(y)' <=> Stored(y)
  BY <1>1 DEF Stored
<1>3. QED
  BY <1>1, <1>2 DEF Recorded

\* The steps that are not of a report.
LEMMA OthersLeaveReports ==
  ASSUME TypeOK, Next, ~ \E c \in Cabins : ReportAlarm(c),
         ~ \E c \in Cabins, p \in Parties \cup {Blank} : BeginReport(c, p)
  PROVE  UNCHANGED <<InFlight, Recorded, received>>
<1> USE DEF Fail, UpdateCabin, UpdateMaintenanceOrder, UpdateOrderAndCabin
<1>1. UNCHANGED <<reporting, received>>
  BY DEF Next, Handlers, RegisterCabin, SubmitReadings, DispatchMaintenance, EngineerArrive,
         CompleteProcessing, AcceptMaintenance, TransferOrder
<1>2. \/ UNCHANGED orders
      \/ \E o \in Orders : \E new :
           /\ Stored(o) /\ orders' = [orders EXCEPT ![o] = new]
           /\ new.status # "absent" /\ new.duplicates = orders[o].duplicates
  <2>0. \A o \in Orders : orders[o] \in Order
    BY DEF TypeOK
  <2>1. ASSUME NEW o \in Orders, NEW d, NEW e, NEW b, NEW late
        PROVE  /\ Dispatch(orders[o], d, e, b, late).status # "absent"
               /\ Dispatch(orders[o], d, e, b, late).duplicates = orders[o].duplicates
    BY <2>0 DEF Dispatch, Order
  <2>2. ASSUME NEW o \in Orders
        PROVE  /\ Arrive(orders[o]).status # "absent"
               /\ Arrive(orders[o]).duplicates = orders[o].duplicates
               /\ Complete(orders[o]).status # "absent"
               /\ Complete(orders[o]).duplicates = orders[o].duplicates
               /\ Transfer(orders[o]).status # "absent"
               /\ Transfer(orders[o]).duplicates = orders[o].duplicates
    BY <2>0 DEF Arrive, Complete, Transfer, Order
  <2>3. ASSUME NEW o \in Orders, NEW leader, NEW station
        PROVE  /\ Accept(orders[o], leader, station).status # "absent"
               /\ Accept(orders[o], leader, station).duplicates = orders[o].duplicates
    BY <2>0 DEF Accept, Order
  <2>4. CASE \/ \E c \in Cabins \cup {Blank}, limit \in Limits : RegisterCabin(c, limit)
             \/ \E c \in Cabins, r \in Readings : SubmitReadings(c, r)
    BY <2>4 DEF RegisterCabin, SubmitReadings
  <2>5. CASE \E o \in Orders, d \in Parties \cup {Blank}, e, b \in Engineers \cup {Blank},
                late \in BOOLEAN : DispatchMaintenance(o, d, e, b, late)
    BY <2>1, <2>5 DEF DispatchMaintenance
  <2>6. CASE \E o \in Orders, e \in Engineers \cup {Blank} : EngineerArrive(o, e)
    BY <2>2, <2>6 DEF EngineerArrive
  <2>7. CASE \E o \in Orders, e \in Engineers \cup {Blank} : CompleteProcessing(o, e)
    BY <2>2, <2>7 DEF CompleteProcessing
  <2>8. CASE \E o \in Orders, leader, station \in Parties \cup {Blank} :
               AcceptMaintenance(o, leader, station)
    BY <2>3, <2>8 DEF AcceptMaintenance
  <2>9. CASE \E o \in Orders : TransferOrder(o)
    BY <2>2, <2>9 DEF TransferOrder
  <2>10. QED
    BY <2>4, <2>5, <2>6, <2>7, <2>8, <2>9 DEF Next, Handlers
<1>3. UNCHANGED Recorded
  <2>1. CASE UNCHANGED orders
    BY <2>1 DEF Recorded, Stored
  <2>2. QED
    BY <1>2, <2>1, RecordStays
<1>4. QED
  BY <1>1, <1>3 DEF InFlight

\* The reports in flight and those on record are finitely many, and are as many as
\* were received.
ReportsAddUp == IsFiniteSet(InFlight) /\ IsFiniteSet(Recorded) /\ NoReportLost

LEMMA ReportsStart == Init => ReportsAddUp
<1> SUFFICES ASSUME Init
             PROVE  ReportsAddUp
  OBVIOUS
<1>1. InFlight = {}
  <2>1. \A c \in Cabins : 1..reporting[c] = {}
    BY DEF Init
  <2>2. QED
    BY <2>1 DEF InFlight
<1>2. Recorded = {}
  BY DEF Init, AbsentOrder, Recorded, Stored
<1>3. QED
  BY <1>1, <1>2, FS_EmptySet DEF Init, ReportsAddUp, NoReportLost

LEMMA ReportsStep == TypeOK /\ ReportsAddUp /\ [Next]_vars => ReportsAddUp'
<1> SUFFICES ASSUME TypeOK, ReportsAddUp, [Next]_vars
             PROVE  ReportsAddUp'
  OBVIOUS
<1>0. /\ Cardinality(InFlight) \in Nat /\ Cardinality(Recorded) \in Nat
      /\ received = Cardinality(InFlight) + Cardinality(Recorded)
      /\ IsFiniteSet(InFlight) /\ IsFiniteSet(Recorded)
  BY FS_CardinalityType DEF ReportsAddUp, NoReportLost
<1>1. CASE UNCHANGED <<InFlight, Recorded, received>>
  BY <1>0, <1>1 DEF ReportsAddUp, NoReportLost
<1>2. ASSUME NEW c \in Cabins, NEW p \in Parties \cup {Blank}, BeginReport(c, p)
      PROVE  ReportsAddUp'
  <2>1. CASE Fail
    BY <1>1, <2>1 DEF Fail, InFlight, Recorded, Stored
  <2>2. CASE ~Fail
    <3>1. /\ reporting' = [reporting EXCEPT ![c] = @ + 1]
          /\ received' = received + 1 /\ UNCHANGED orders
      BY <1>2, <2>2 DEF BeginReport
    <3>2. PICK x : x \notin InFlight /\ InFlight' = InFlight \cup {x}
      BY <3>1, ReportTakesOff
    <3>3. /\ IsFiniteSet(InFlight \cup {x})
          /\ Cardinality(InFlight \cup {x}) = Cardinality(InFlight) + 1
      BY <1>0, <3>2, FS_AddElement
    <3>4. Recorded' = Recorded
      BY <3>1 DEF Recorded, Stored
    <3>5. QED
      BY <1>0, <3>1, <3>2, <3>3, <3>4 DEF ReportsAddUp, NoReportLost
  <2>3. QED
    BY <2>1, <2>2
<1>3. ASSUME NEW c \in Cabins, ReportAlarm(c)
      PROVE  ReportsAddUp'
  <2>1. PICK x : x \in InFlight /\ InFlight' = InFlight \ {x}
    BY <1>3, ReportLands DEF ReportAlarm
  <2>2. PICK y : y \notin Recorded /\ Recorded' = Recorded \cup {y}
    BY <1>3, ReportIsRecorded
  <2>3. /\ IsFiniteSet(InFlight \ {x})
        /\ Cardinality(InFlight \ {x}) = Cardinality(InFlight) - 1
    BY <1>0, <2>1, FS_RemoveElement
  <2>4. /\ IsFiniteSet(Recorded \cup {y})
        /\ Cardinality(Recorded \cup {y}) = Cardinality(Recorded) + 1
    BY <1>0, <2>2, FS_AddElement
  <2>5. received' = received
    BY <1>3 DEF ReportAlarm
  <2>6. QED
    BY <1>0, <2>1, <2>2, <2>3, <2>4, <2>5 DEF ReportsAddUp, NoReportLost
<1>4. CASE UNCHANGED vars
  BY <1>1, <1>4 DEF vars, InFlight, Recorded, Stored
<1>5. QED
  BY <1>1, <1>2, <1>3, <1>4, OthersLeaveReports

\* Every alarm report that was received is in flight, opened an order or is counted on
\* one, and none of them twice, however the reports of one cabin overtake each other
\* (Service.ReportAlarm, Store.ReportAlarm).
THEOREM ReportsAreNeverLost == Spec => []NoReportLost
<1>1. ReportsAddUp => NoReportLost
  BY DEF ReportsAddUp
<1>2. QED
  BY <1>1, ReportsStart, ReportsStep, TypeCorrect, PTL DEF Spec

------------------------------------------------------------------------------
(* The audit trail *)

\* The trail s shows the first n steps of the repair r.
Follows(s, r, n) ==
  /\ IsFiniteSet(Steps(s)) /\ Cardinality(Steps(s)) = n
  /\ \A i \in Steps(s) : s[i] = r[StepNumber(s, i)]

\* Two repairs that have their first n steps in common.
Agree(q, r, n) == \A i \in 1..n : q[i] = r[i]

LEMMA StepNumberRange ==
  ASSUME NEW s \in Seq(AuditActions), IsFiniteSet(Steps(s)), NEW i \in Steps(s)
  PROVE  StepNumber(s, i) \in 1..Cardinality(Steps(s))
<1> DEFINE upTo == {j \in Steps(s) : j <= i}
<1>1. i \in upTo /\ upTo \in SUBSET Steps(s)
  BY DEF Steps
<1> HIDE DEF upTo
<1>2. IsFiniteSet(upTo) /\ Cardinality(upTo) <= Cardinality(Steps(s))
  BY <1>1, FS_Subset
<1>3. Cardinality(upTo) \in Nat /\ Cardinality(upTo) # 0 /\ Cardinality(Steps(s)) \in Nat
  BY <1>1, <1>2, FS_CardinalityType, FS_EmptySet
<1>4. QED
  BY <1>2, <1>3 DEF StepNumber, upTo

\* The entry of a duplicate is no step; any other entry is the next one.
LEMMA DuplicateIsNoStep ==
  ASSUME NEW s \in Seq(AuditActions), NEW r, NEW n, Follows(s, r, n)
  PROVE  Follows(Append(s, "duplicate_report_suppressed"), r, n)
<1> DEFINE t == Append(s, "duplicate_report_suppressed")
<1>1. \A i \in DOMAIN s : t[i] = s[i]
  OBVIOUS
<1>2. Steps(t) = Steps(s)
  BY DEF Steps
<1> HIDE DEF t
<1>3. \A i \in Steps(s) : StepNumber(t, i) = StepNumber(s, i)
  BY <1>2 DEF StepNumber
<1>4. QED
  BY <1>1, <1>2, <1>3 DEF Follows, Steps, t

LEMMA EntryIsNextStep ==
  ASSUME NEW s \in Seq(AuditActions), NEW r, NEW n \in Nat, Follows(s, r, n),
         NEW q, Agree(q, r, n),
         NEW a \in AuditActions, a # "duplicate_report_suppressed", q[n + 1] = a
  PROVE  Follows(Append(s, a), q, n + 1)
<1> DEFINE t == Append(s, a)
           k == Len(s) + 1
<1>1. /\ \A i \in DOMAIN s : t[i] = s[i]
      /\ t[k] = a /\ k \in Nat
      /\ \A i \in Steps(s) : i \in DOMAIN s /\ i \in Nat /\ i < k
  BY DEF Steps
<1>2. Steps(t) = Steps(s) \cup {k}
  BY DEF Steps
<1> HIDE DEF t, k
<1>3. IsFiniteSet(Steps(t)) /\ Cardinality(Steps(t)) = n + 1
  <2>1. k \notin Steps(s) /\ IsFiniteSet(Steps(s)) /\ Cardinality(Steps(s)) = n
    BY <1>1 DEF Follows
  <2>2. QED
    BY <1>2, <2>1, FS_AddElement
<1>4. \A i \in Steps(s) : StepNumber(t, i) = StepNumber(s, i)
  <2>1. ASSUME NEW i \in Steps(s)
        PROVE  {j \in Steps(t) : j <= i} = {j \in Steps(s) : j <= i}
    BY <1>1, <1>2
  <2>2. QED
    BY <2>1 DEF StepNumber
<1>5. StepNumber(t, k) = n + 1
  <2>1. {j \in Steps(t) : j <= k} = Steps(t)
    BY <1>1, <1>2
  <2>2. QED
    BY <1>3, <2>1 DEF StepNumber
<1>6. \A i \in Steps(s) : t[i] = q[StepNumber(t, i)]
  BY <1>1, <1>4, StepNumberRange DEF Follows, Agree
<1>7. QED
  BY <1>1, <1>2, <1>3, <1>5, <1>6 DEF Follows, t

\* The repair of an order that was dispatched in time or late, and was moved to the
\* backup engineer or not, and where each of its steps is.
InTime == {<< >>, <<"dispatch_sla_breached">>}
Moves == {<< >>, <<"auto_transferred">>}
Repair(late, moved) ==
  <<"alarm_reported">> \o late \o <<"dispatched">> \o moved \o
  <<"engineer_arrived", "processing_completed", "accepted_by_leader",
    "accepted_by_station", "order_closed">>

LEMMA RepairsAre ==
  /\ \A r \in Repairs : \E late \in InTime, moved \in Moves : r = Repair(late, moved)
  /\ \A late \in InTime, moved \in Moves : Repair(late, moved) \in Repairs
BY DEF Repairs, InTime, Moves, Repair

\* xy is x with y behind it.
Joins(x, y, xy) ==
  /\ xy \in Seq(AuditActions)
  /\ Len(xy) = Len(x) + Len(y)
  /\ \A i \in 1..Len(x) : xy[i] = x[i]
  /\ \A i \in 1..Len(y) : xy[Len(x) + i] = y[i]

LEMMA JoinedSteps ==
  ASSUME NEW x \in Seq(AuditActions), NEW y \in Seq(AuditActions)
  PROVE  Joins(x, y, x \o y)
BY DEF Joins

\* Where the steps of the repair r are, k of them a late dispatch and j a transfer.
Places(r, k, j) ==
  /\ k \in 0..1 /\ j \in 0..1 /\ Len(r) = 7 + k + j
  /\ r[1] = "alarm_reported"
  /\ k = 1 => r[2] = "dispatch_sla_breached"
  /\ r[2 + k] = "dispatched"
  /\ j = 1 => r[3 + k] = "auto_transferred"
  /\ r[3 + k + j] = "engineer_arrived"
  /\ r[4 + k + j] = "processing_completed"
  /\ r[5 + k + j] = "accepted_by_leader"
  /\ r[6 + k + j] = "accepted_by_station"
  /\ r[7 + k + j] = "order_closed"

LEMMA PlacesOfSteps ==
  ASSUME NEW late \in InTime, NEW moved \in Moves
  PROVE  Places(Repair(late, moved), Len(late), Len(moved))
<1>0. PICK r, k, j : r = Repair(late, moved) /\ k = Len(late) /\ j = Len(moved)
  OBVIOUS
<1> DEFINE first == <<"alarm_reported">>
           dispatched == <<"dispatched">>
           rest == <<"engineer_arrived", "processing_completed", "accepted_by_leader",
                     "accepted_by_station", "order_closed">>
           p == first \o late
           q == p \o dispatched
           m == q \o moved
<1>1. /\ late \in Seq(AuditActions) /\ k \in 0..1
      /\ k = 1 => late[1] = "dispatch_sla_breached"
  <2>1. CASE late = << >>
    BY <1>0, <2>1
  <2>2. CASE late = <<"dispatch_sla_breached">>
    BY <1>0, <2>2 DEF AuditActions
  <2>3. QED
    BY <2>1, <2>2 DEF InTime
<1>2. /\ moved \in Seq(AuditActions) /\ j \in 0..1
      /\ j = 1 => moved[1] = "auto_transferred"
  <2>1. CASE moved = << >>
    BY <1>0, <2>1
  <2>2. CASE moved = <<"auto_transferred">>
    BY <1>0, <2>2 DEF AuditActions
  <2>3. QED
    BY <2>1, <2>2 DEF Moves
<1>3. first \in Seq(AuditActions) /\ Len(first) = 1 /\ first[1] = "alarm_reported"
  BY DEF AuditActions
<1>4. dispatched \in Seq(AuditActions) /\ Len(dispatched) = 1 /\ dispatched[1] = "dispatched"
  BY DEF AuditActions
<1>5. /\ rest \in Seq(AuditActions) /\ Len(rest) = 5
      /\ rest[1] = "engineer_arrived" /\ rest[2] = "processing_completed"
      /\ rest[3] = "accepted_by_leader" /\ rest[4] = "accepted_by_station"
      /\ rest[5] = "order_closed"
  BY DEF AuditActions
<1>6. r = m \o rest
  BY <1>0 DEF Repair
<1> HIDE DEF first, dispatched, rest
<1>7. Joins(first, late, p)
  BY <1>1, <1>3, JoinedSteps DEF Joins
<1>8. Joins(p, dispatched, q)
  BY <1>4, <1>7, JoinedSteps DEF Joins
<1>9. Joins(q, moved, m)
  BY <1>2, <1>8, JoinedSteps DEF Joins
<1>10. Joins(m, rest, r)
  <2>1. Joins(m, rest, m \o rest)
    BY <1>5, <1>9, JoinedSteps DEF Joins
  <2>2. QED
    BY <1>6, <2>1, Zenon
<1> HIDE DEF p, q, m
<1>11. /\ Len(p) = 1 + k /\ p[1] = "alarm_reported"
       /\ k = 1 => p[2] = "dispatch_sla_breached"
  BY <1>0, <1>1, <1>3, <1>7 DEF Joins
<1>12. /\ Len(q) = 2 + k /\ q[2 + k] = "dispatched"
       /\ \A i \in 1..1 + k : q[i] = p[i]
  BY <1>0, <1>1, <1>4, <1>8, <1>11 DEF Joins
<1>13. /\ Len(m) = 2 + k + j
       /\ \A i \in 1..2 + k : m[i] = q[i]
       /\ j = 1 => m[3 + k] = "auto_transferred"
  BY <1>0, <1>1, <1>2, <1>9, <1>12 DEF Joins
<1>14. /\ Len(r) = 7 + k + j
       /\ \A i \in 1..2 + k + j : r[i] = m[i]
       /\ \A i \in 1..5 : r[2 + k + j + i] = rest[i]
  BY <1>0, <1>1, <1>2, <1>5, <1>10, <1>13 DEF Joins
<1>15. /\ r[1] = "alarm_reported"
       /\ k = 1 => r[2] = "dispatch_sla_breached"
       /\ r[2 + k] = "dispatched"
       /\ j = 1 => r[3 + k] = "auto_transferred"
  <2>1. \A i \in 1..2 + k : r[i] = q[i]
    BY <1>1, <1>2, <1>13, <1>14
  <2>2. \A i \in 1..1 + k : r[i] = p[i]
    BY <1>1, <1>12, <2>1
  <2>3. r[2 + k] = "dispatched"
    BY <1>1, <1>12, <2>1
  <2>4. r[1] = "alarm_reported"
    BY <1>1, <1>11, <2>2
  <2>5. k = 1 => r[2] = "dispatch_sla_breached"
    BY <1>11, <2>2
  <2>6. j = 1 => r[3 + k] = "auto_transferred"
    BY <1>1, <1>13, <1>14
  <2>7. QED
    BY <2>3, <2>4, <2>5, <2>6
<1>16. /\ r[3 + k + j] = "engineer_arrived" /\ r[4 + k + j] = "processing_completed"
       /\ r[5 + k + j] = "accepted_by_leader" /\ r[6 + k + j] = "accepted_by_station"
       /\ r[7 + k + j] = "order_closed"
  BY <1>1, <1>2, <1>5, <1>14
<1>17. QED
  BY <1>0, <1>1, <1>2, <1>14, <1>15, <1>16 DEF Places

\* The status that the repair r leaves an order in after n steps.
Reaches(r, n, status) ==
  n \in 1..Len(r) /\ r[n] \in DOMAIN StatusAfter /\ StatusAfter[r[n]] = status

\* Which steps leave which status behind.
Statuses(r, k, j) ==
  /\ Reaches(r, 1, "reported")
  /\ Reaches(r, 2 + k, "dispatched")
  /\ j = 1 => Reaches(r, 3 + k, "assigned")
  /\ Reaches(r, 3 + k + j, "processing")
  /\ Reaches(r, 4 + k + j, "pending_acceptance")
  /\ Reaches(r, 7 + k + j, "closed")
  /\ \A n :
       /\ Reaches(r, n, "reported") => n = 1
       /\ Reaches(r, n, "dispatched") => n = 2 + k
       /\ Reaches(r, n, "assigned") => n = 3 + k /\ j = 1
       /\ Reaches(r, n, "processing") => n = 3 + k + j
       /\ Reaches(r, n, "pending_acceptance") => n = 4 + k + j

LEMMA PlaceNumbers ==
  ASSUME NEW k \in 0..1, NEW j \in 0..1, NEW n \in 1..7 + k + j
  PROVE  \/ n = 1 \/ (n = 2 /\ k = 1) \/ n = 2 + k \/ (n = 3 + k /\ j = 1)
         \/ n = 3 + k + j \/ n = 4 + k + j \/ n = 5 + k + j
         \/ n = 6 + k + j \/ n = 7 + k + j
<1>1. k \in Int /\ j \in Int /\ n \in Int /\ (k = 0 \/ k = 1) /\ (j = 0 \/ j = 1)
  OBVIOUS
<1>2. 1 <= n /\ n <= 7 + k + j
  OBVIOUS
<1>3. QED
  BY <1>1, <1>2

LEMMA StatusesOfSteps ==
  ASSUME NEW r, NEW k, NEW j, Places(r, k, j)
  PROVE  Statuses(r, k, j)
<1>1. k \in 0..1 /\ j \in 0..1 /\ Len(r) = 7 + k + j
  BY DEF Places
<1> USE DEF Places
<1>2. /\ DOMAIN StatusAfter =
           {"alarm_reported", "dispatched", "auto_transferred", "engineer_arrived",
            "processing_completed", "order_closed"}
      /\ StatusAfter["alarm_reported"] = "reported"
      /\ StatusAfter["dispatched"] = "dispatched"
      /\ StatusAfter["auto_transferred"] = "assigned"
      /\ StatusAfter["engineer_arrived"] = "processing"
      /\ StatusAfter["processing_completed"] = "pending_acceptance"
      /\ StatusAfter["order_closed"] = "closed"
  BY DEF StatusAfter
<1>3. /\ Reaches(r, 1, "reported")
      /\ Reaches(r, 2 + k, "dispatched")
      /\ j = 1 => Reaches(r, 3 + k, "assigned")
  BY <1>1, <1>2 DEF Reaches
<1>4. /\ Reaches(r, 3 + k + j, "processing")
      /\ Reaches(r, 4 + k + j, "pending_acceptance")
      /\ Reaches(r, 7 + k + j, "closed")
  BY <1>1, <1>2 DEF Reaches
<1>5. ASSUME NEW n \in 1..Len(r), r[n] \in DOMAIN StatusAfter
      PROVE  \/ n = 1 /\ StatusAfter[r[n]] = "reported"
             \/ n = 2 + k /\ StatusAfter[r[n]] = "dispatched"
             \/ n = 3 + k /\ j = 1 /\ StatusAfter[r[n]] = "assigned"
             \/ n = 3 + k + j /\ StatusAfter[r[n]] = "processing"
             \/ n = 4 + k + j /\ StatusAfter[r[n]] = "pending_acceptance"
             \/ n = 7 + k + j /\ StatusAfter[r[n]] = "closed"
  <2>1. \/ n = 1 \/ (n = 2 /\ k = 1) \/ n = 2 + k \/ (n = 3 + k /\ j = 1)
        \/ n = 3 + k + j \/ n = 4 + k + j \/ n = 5 + k + j
        \/ n = 6 + k + j \/ n = 7 + k + j
    BY <1>1, <1>5, PlaceNumbers
  <2>2. n # 5 + k + j /\ n # 6 + k + j /\ ~(n = 2 /\ k = 1)
    BY <1>1, <1>2, <1>5
  <2>3. QED
    BY <1>1, <1>2, <2>1, <2>2
<1>6. \A n :
        /\ Reaches(r, n, "reported") => n = 1
        /\ Reaches(r, n, "dispatched") => n = 2 + k
        /\ Reaches(r, n, "assigned") => n = 3 + k /\ j = 1
        /\ Reaches(r, n, "processing") => n = 3 + k + j
        /\ Reaches(r, n, "pending_acceptance") => n = 4 + k + j
  BY <1>5 DEF Reaches
<1>7. QED
  BY <1>3, <1>4, <1>6 DEF Statuses

\* From every status there is a repair that goes on the way the order can.
LEMMA RepairGoesOn ==
  ASSUME NEW r \in Repairs, NEW n, NEW status, Reaches(r, n, status)
  PROVE  /\ status = "reported" => \E q \in Repairs :
              /\ Agree(q, r, n) /\ q[n + 1] = "dispatched" /\ Reaches(q, n + 1, "dispatched")
         /\ status = "reported" => \E q \in Repairs :
              /\ Agree(q, r, n) /\ q[n + 1] = "dispatch_sla_breached"
              /\ q[n + 2] = "dispatched" /\ Reaches(q, n + 2, "dispatched")
         /\ status = "dispatched" => \E q \in Repairs :
              /\ Agree(q, r, n) /\ q[n + 1] = "auto_transferred" /\ Reaches(q, n + 1, "assigned")
         /\ status \in {"dispatched", "assigned"} => \E q \in Repairs :
              /\ Agree(q, r, n) /\ q[n + 1] = "engineer_arrived" /\ Reaches(q, n + 1, "processing")
         /\ status = "processing" =>
              r[n + 1] = "processing_completed" /\ Reaches(r, n + 1, "pending_acceptance")
         /\ status = "pending_acceptance" =>
              /\ r[n + 1] = "accepted_by_leader" /\ r[n + 2] = "accepted_by_station"
              /\ r[n + 3] = "order_closed" /\ Reaches(r, n + 3, "closed")
<1>1. PICK late \in InTime, moved \in Moves : r = Repair(late, moved)
  BY RepairsAre
<1> DEFINE k == Len(late)
           j == Len(moved)
           soon == << >>
           overdue == <<"dispatch_sla_breached">>
           stays == << >>
           moves == <<"auto_transferred">>
<1>2. /\ soon \in InTime /\ overdue \in InTime /\ stays \in Moves /\ moves \in Moves
      /\ Len(soon) = 0 /\ Len(overdue) = 1 /\ Len(stays) = 0 /\ Len(moves) = 1
  BY DEF InTime, Moves
<1> DEFINE prompt == Repair(soon, moved)
           slow == Repair(overdue, moved)
           kept == Repair(late, stays)
           handed == Repair(late, moves)
<1>3. prompt \in Repairs /\ slow \in Repairs /\ kept \in Repairs /\ handed \in Repairs
  BY <1>2, RepairsAre
<1> HIDE DEF k, j, soon, overdue, stays, moves, prompt, slow, kept, handed
<1>4. Places(r, k, j) /\ Statuses(r, k, j)
  BY <1>1, PlacesOfSteps, StatusesOfSteps DEF k, j
<1>5. /\ Places(prompt, 0, j) /\ Statuses(prompt, 0, j)
       /\ Places(slow, 1, j) /\ Statuses(slow, 1, j)
  BY <1>2, PlacesOfSteps, StatusesOfSteps DEF prompt, slow, j
<1>6. /\ Places(kept, k, 0) /\ Statuses(kept, k, 0)
       /\ Places(handed, k, 1) /\ Statuses(handed, k, 1)
  BY <1>2, PlacesOfSteps, StatusesOfSteps DEF kept, handed, k
<1>7. k \in 0..1 /\ j \in 0..1
  BY <1>4 DEF Places
<1>8. ASSUME status = "reported"
      PROVE  /\ n = 1 /\ Agree(prompt, r, n) /\ Agree(slow, r, n)
             /\ prompt[2] = "dispatched" /\ Reaches(prompt, 2, "dispatched")
             /\ slow[2] = "dispatch_sla_breached" /\ slow[3] = "dispatched"
             /\ Reaches(slow, 3, "dispatched")
  <2>1. n = 1 /\ r[1] = "alarm_reported"
    BY <1>4, <1>8 DEF Places, Statuses
  <2>2. /\ prompt[1] = "alarm_reported" /\ prompt[2] = "dispatched"
        /\ Reaches(prompt, 2, "dispatched")
    BY <1>5, <1>7 DEF Places, Statuses
  <2>3. /\ slow[1] = "alarm_reported" /\ slow[2] = "dispatch_sla_breached"
        /\ slow[3] = "dispatched" /\ Reaches(slow, 3, "dispatched")
    BY <1>5, <1>7 DEF Places, Statuses
  <2>4. QED
    BY <2>1, <2>2, <2>3 DEF Agree
<1>9. ASSUME status = "dispatched"
      PROVE  /\ n = 2 + k /\ Agree(kept, r, n) /\ Agree(handed, r, n)
             /\ kept[3 + k] = "engineer_arrived" /\ Reaches(kept, 3 + k, "processing")
             /\ handed[3 + k] = "auto_transferred" /\ Reaches(handed, 3 + k, "assigned")
  <2>1. /\ n = 2 + k /\ r[1] = "alarm_reported" /\ r[2 + k] = "dispatched"
        /\ k = 1 => r[2] = "dispatch_sla_breached"
    BY <1>4, <1>9 DEF Places, Statuses
  <2>2. /\ kept[1] = "alarm_reported" /\ kept[2 + k] = "dispatched"
        /\ k = 1 => kept[2] = "dispatch_sla_breached"
        /\ kept[3 + k + 0] = "engineer_arrived" /\ Reaches(kept, 3 + k + 0, "processing")
    BY <1>6 DEF Places, Statuses
  <2>3. /\ handed[1] = "alarm_reported" /\ handed[2 + k] = "dispatched"
        /\ k = 1 => handed[2] = "dispatch_sla_breached"
        /\ handed[3 + k] = "auto_transferred" /\ Reaches(handed, 3 + k, "assigned")
    BY <1>6 DEF Places, Statuses
  <2>4. 3 + k + 0 = 3 + k /\ \A i \in 1..2 + k : i = 1 \/ (i = 2 /\ k = 1) \/ i = 2 + k
    <3>1. k \in Int /\ (k = 0 \/ k = 1)
      BY <1>7
    <3>2. QED
      BY <3>1
  <2>5. QED
    BY <2>1, <2>2, <2>3, <2>4 DEF Agree
<1>10. ASSUME status = "assigned"
      PROVE  r[n + 1] = "engineer_arrived" /\ Reaches(r, n + 1, "processing")
  <2>1. /\ n = 3 + k /\ j = 1 /\ r[3 + k + j] = "engineer_arrived"
        /\ Reaches(r, 3 + k + j, "processing")
    BY <1>4, <1>10 DEF Places, Statuses
  <2>2. QED
    BY <1>7, <2>1
<1>11. ASSUME status = "processing"
      PROVE  r[n + 1] = "processing_completed" /\ Reaches(r, n + 1, "pending_acceptance")
  <2>1. /\ n = 3 + k + j /\ r[4 + k + j] = "processing_completed"
        /\ Reaches(r, 4 + k + j, "pending_acceptance")
    BY <1>4, <1>11 DEF Places, Statuses
  <2>2. n + 1 = 4 + k + j
    BY <1>7, <2>1
  <2>3. QED
    BY <2>1, <2>2
<1>12. ASSUME status = "pending_acceptance"
      PROVE  /\ r[n + 1] = "accepted_by_leader" /\ r[n + 2] = "accepted_by_station"
             /\ r[n + 3] = "order_closed" /\ Reaches(r, n + 3, "closed")
  <2>1. /\ n = 4 + k + j /\ r[5 + k + j] = "accepted_by_leader"
        /\ r[6 + k + j] = "accepted_by_station" /\ r[7 + k + j] = "order_closed"
        /\ Reaches(r, 7 + k + j, "closed")
    BY <1>4, <1>12 DEF Places, Statuses
  <2>2. n + 1 = 5 + k + j /\ n + 2 = 6 + k + j /\ n + 3 = 7 + k + j
    BY <1>7, <2>1
  <2>3. QED
    BY <2>1, <2>2
<1>13. \A q : Agree(q, q, n)
  BY DEF Agree
<1>14. (status = "reported" => n + 1 = 2 /\ n + 2 = 3) /\ (status = "dispatched" => n + 1 = 3 + k)
  BY <1>7, <1>8, <1>9
<1>15. QED
  BY <1>3, <1>8, <1>9, <1>10, <1>11, <1>12, <1>13, <1>14

\* Entries that are written together are written one after the other.
LEMMA EntriesInTurn ==
  ASSUME NEW S, NEW s \in Seq(S), NEW a \in S, NEW b \in S, NEW c \in S
  PROVE  /\ s \o <<a>> = Append(s, a)
         /\ s \o <<a, b>> = Append(Append(s, a), b)
         /\ s \o <<a, b, c>> = Append(Append(Append(s, a), b), c)
OBVIOUS

\* The entries of an order's trail are the steps of a repair, up to its status.
TrailTells(m) ==
  \E r \in Repairs : \E n : Follows(m.audit, r, n) /\ Reaches(r, n, m.status)

LEMMA NewOrderTells == \A c : TrailTells(NewMaintenanceOrder(c))
<1> SUFFICES ASSUME NEW c
             PROVE  TrailTells(NewMaintenanceOrder(c))
  OBVIOUS
<1> DEFINE m == NewMaintenanceOrder(c)
           r == Repair(<< >>, << >>)
<1>1. r \in Repairs /\ r[0 + 1] = "alarm_reported" /\ Reaches(r, 0 + 1, "reported")
  <2>1. << >> \in InTime /\ << >> \in Moves
    BY DEF InTime, Moves
  <2>2. Places(r, Len(<< >>), Len(<< >>)) /\ Statuses(r, Len(<< >>), Len(<< >>))
    BY <2>1, PlacesOfSteps, StatusesOfSteps
  <2>3. QED
    BY <2>1, <2>2, RepairsAre DEF Places, Statuses
<1>2. m.status = "reported" /\ m.audit = Append(<< >>, "alarm_reported")
  BY DEF NewMaintenanceOrder, AbsentOrder
<1> HIDE DEF m, r
<1>3. Follows(<< >>, r, 0)
  <2>1. Steps(<< >>) = {}
    BY DEF Steps
  <2>2. QED
    BY <2>1, FS_EmptySet DEF Follows
<1>4. Follows(Append(<< >>, "alarm_reported"), r, 0 + 1)
  <2>1. << >> \in Seq(AuditActions) /\ "alarm_reported" \in AuditActions
    BY DEF AuditActions
  <2>2. Agree(r, r, 0)
    BY DEF Agree
  <2>3. QED
    BY <1>1, <1>3, <2>1, <2>2, EntryIsNextStep
<1>5. QED
  BY <1>1, <1>2, <1>4 DEF TrailTells, m

LEMMA BecomesKeepsTrail ==
  ASSUME NEW m \in Order, m.status # "absent" => TrailTells(m), NEW new, Becomes(m, new)
  PROVE  TrailTells(new)
<1>0. CASE m.status = "absent"
  BY <1>0, NewOrderTells DEF Becomes, CanDispatch, CanTransfer
<1> SUFFICES ASSUME m.status # "absent"
             PROVE  TrailTells(new)
  BY <1>0
<1> DEFINE s == m.audit
<1>1. PICK r \in Repairs : \E n : Follows(s, r, n) /\ Reaches(r, n, m.status)
  BY DEF TrailTells
<1>2. PICK n : Follows(s, r, n) /\ Reaches(r, n, m.status)
  BY <1>1
<1>3. s \in Seq(AuditActions) /\ n \in Nat
  BY <1>2 DEF Order, Reaches
\* One more entry, or several, and the repair they are of.
<1>4. ASSUME NEW q \in Repairs, Agree(q, r, n), NEW a \in AuditActions,
             a # "duplicate_report_suppressed", q[n + 1] = a,
             Reaches(q, n + 1, new.status), new.audit = Append(s, a)
      PROVE  TrailTells(new)
  BY <1>2, <1>3, <1>4, EntryIsNextStep DEF TrailTells
<1>5. CASE new = AddDuplicateReporter(m)
  <2>1. new.status = m.status /\ new.audit = Append(s, "duplicate_report_suppressed")
    BY <1>5 DEF AddDuplicateReporter, Order
  <2>2. QED
    BY <1>2, <1>3, <2>1, DuplicateIsNoStep DEF TrailTells
<1>6. ASSUME NEW d, NEW e, NEW b, NEW late \in BOOLEAN,
             CanDispatch(m), new = Dispatch(m, d, e, b, late)
      PROVE  TrailTells(new)
  <2>1. "dispatched" \in AuditActions /\ "dispatch_sla_breached" \in AuditActions
    BY DEF AuditActions
  <2>2. m.status = "reported" /\ new.status = "dispatched"
    BY <1>6 DEF CanDispatch, Dispatch, Order
  <2>3. CASE late
    <3>1. new.audit = Append(Append(s, "dispatch_sla_breached"), "dispatched")
      BY <1>3, <1>6, <2>1, <2>3, EntriesInTurn DEF Dispatch, Order
    <3>2. PICK q \in Repairs :
            /\ Agree(q, r, n) /\ q[n + 1] = "dispatch_sla_breached"
            /\ q[n + 2] = "dispatched" /\ Reaches(q, n + 2, "dispatched")
      BY <1>2, <2>2, RepairGoesOn
    <3>3. Follows(Append(s, "dispatch_sla_breached"), q, n + 1)
      BY <1>2, <1>3, <2>1, <3>2, EntryIsNextStep
    <3>4. Append(s, "dispatch_sla_breached") \in Seq(AuditActions) /\ Agree(q, q, n + 1)
      BY <1>3, <2>1 DEF Agree
    <3>5. n + 1 \in Nat /\ n + 1 + 1 = n + 2
      BY <1>3
    <3>6. Follows(new.audit, q, n + 2)
      BY <2>1, <3>1, <3>2, <3>3, <3>4, <3>5, EntryIsNextStep
    <3>7. QED
      BY <2>2, <3>2, <3>6 DEF TrailTells
  <2>4. CASE ~late
    <3>1. new.audit = Append(s, "dispatched")
      BY <1>3, <1>6, <2>1, <2>4, EntriesInTurn DEF Dispatch, Order
    <3>2. QED
      BY <1>2, <1>4, <2>1, <2>2, <3>1, RepairGoesOn
  <2>5. QED
    BY <2>3, <2>4
<1>7. CASE m.status \in {"dispatched", "assigned"} /\ new = Arrive(m)
  <2>1. /\ new.status = "processing" /\ new.audit = Append(s, "engineer_arrived")
        /\ "engineer_arrived" \in AuditActions
    BY <1>7 DEF Arrive, Order, AuditActions
  <2>2. QED
    BY <1>2, <1>4, <1>7, <2>1, RepairGoesOn
<1>8. CASE m.status = "processing" /\ new = Complete(m)
  <2>1. /\ new.status = "pending_acceptance" /\ new.audit = Append(s, "processing_completed")
        /\ "processing_completed" \in AuditActions
    BY <1>8 DEF Complete, Order, AuditActions
  <2>2. Agree(r, r, n)
    BY DEF Agree
  <2>3. QED
    BY <1>2, <1>4, <1>8, <2>1, <2>2, RepairGoesOn
<1>9. ASSUME NEW leader, NEW station,
             m.status = "pending_acceptance", new = Accept(m, leader, station)
      PROVE  TrailTells(new)
  <2> DEFINE t == Append(s, "accepted_by_leader")
             u == Append(t, "accepted_by_station")
  <2>1. /\ "accepted_by_leader" \in AuditActions /\ "accepted_by_station" \in AuditActions
        /\ "order_closed" \in AuditActions
    BY DEF AuditActions
  <2>2. new.status = "closed"
    BY <1>9 DEF Accept, Order
  <2>3. new.audit = Append(u, "order_closed")
    BY <1>3, <1>9, <2>1, EntriesInTurn DEF Accept, Order
  <2>4. /\ r[n + 1] = "accepted_by_leader" /\ r[n + 2] = "accepted_by_station"
        /\ r[n + 3] = "order_closed" /\ Reaches(r, n + 3, "closed")
    BY <1>2, <1>9, RepairGoesOn
  <2>5. /\ n + 1 \in Nat /\ n + 1 + 1 = n + 2 /\ n + 2 \in Nat /\ n + 2 + 1 = n + 3
        /\ Agree(r, r, n) /\ Agree(r, r, n + 1) /\ Agree(r, r, n + 2)
    BY <1>3 DEF Agree
  <2>6. t \in Seq(AuditActions) /\ u \in Seq(AuditActions)
    BY <1>3, <2>1
  <2>7. Follows(t, r, n + 1)
    BY <1>2, <1>3, <2>1, <2>4, <2>5, EntryIsNextStep
  <2> HIDE DEF t
  <2>8. Follows(u, r, n + 2)
    BY <2>1, <2>4, <2>5, <2>6, <2>7, EntryIsNextStep
  <2> HIDE DEF u
  <2>9. Follows(new.audit, r, n + 3)
    BY <2>1, <2>3, <2>4, <2>5, <2>6, <2>8, EntryIsNextStep
  <2>10. QED
    BY <2>2, <2>4, <2>9 DEF TrailTells
<1>10. CASE CanTransfer(m) /\ new = Transfer(m)
  <2>1. /\ new.status = "assigned" /\ new.audit = Append(s, "auto_transferred")
        /\ "auto_transferred" \in AuditActions /\ m.status = "dispatched"
    BY <1>10 DEF CanTransfer, Transfer, Order, AuditActions
  <2>2. QED
    BY <1>2, <1>4, <2>1, RepairGoesOn
<1>11. QED
  BY <1>5, <1>6, <1>7, <1>8, <1>9, <1>10 DEF Becomes

\* The audit trail alone tells where an order stands, whatever duplicates came between
\* its entries, and whether or not it was late or moved ("every state transition is
\* recorded for traceability", MaintenanceOrder.AppendAudit).
THEOREM TrailsTellStatuses == Spec => []AuditTellsStatus
<1> DEFINE Inv == \A o \in Orders : Stored(o) => TrailTells(orders[o])
<1>1. Init => Inv
  BY DEF Init, AbsentOrder, Stored
<1>2. TypeOK /\ Inv /\ [Next]_vars => Inv'
  <2> SUFFICES ASSUME TypeOK, Inv, [Next]_vars
               PROVE  Inv'
    OBVIOUS
  <2>1. CASE orders' = orders
    BY <2>1 DEF Stored
  <2>2. ASSUME NEW o \in Orders, NEW new, Becomes(orders[o], new),
               orders' = [orders EXCEPT ![o] = new]
        PROVE  Inv'
    <3>1. TrailTells(new)
      BY <2>2, BecomesKeepsTrail DEF TypeOK, Stored
    <3>2. QED
      BY <2>2, <3>1 DEF TypeOK, Stored
  <2>3. QED
    BY <2>1, <2>2, OneOrderBecomes DEF vars
<1>3. Inv => AuditTellsStatus
  BY DEF AuditTellsStatus, TrailTells, Follows, Reaches
<1> HIDE DEF Inv
<1>4. QED
  BY <1>1, <1>2, <1>3, TypeCorrect, PTL DEF Spec

------------------------------------------------------------------------------
(* What is written stands *)

Prolongs(s, t) == Len(s) <= Len(t) /\ \A i \in 1..Len(s) : t[i] = s[i]

\* What a step leaves of the order m in its successor x: a closed order is as it was,
\* an open one is still for its cabin, who was dispatched is still on it, and the
\* duplicates and the trail have only grown.
IsKeptIn(m, x) ==
  /\ m.status = "closed" => x = m
  /\ m.status # "absent" => x.status # "absent" /\ x.cabin = m.cabin
  /\ m.status \notin {"absent", "reported"} => x.primary = m.primary /\ x.backup = m.backup
  /\ m.duplicates <= x.duplicates
  /\ Prolongs(m.audit, x.audit)

LEMMA EntriesProlong ==
  ASSUME NEW s \in Seq(AuditActions)
  PROVE  /\ Prolongs(s, s)
         /\ \A a : Prolongs(s, Append(s, a))
         /\ \A t \in Seq(AuditActions) : Prolongs(s, s \o t)
BY DEF Prolongs

LEMMA BecomesKeeps ==
  ASSUME NEW m \in Order, m.status = "absent" => m = AbsentOrder, NEW new, Becomes(m, new)
  PROVE  IsKeptIn(m, new)
<1>1. m.audit \in Seq(AuditActions) /\ m.duplicates \in Nat
  BY DEF Order
<1>2. /\ m.duplicates <= m.duplicates /\ m.duplicates <= m.duplicates + 1
      /\ \A a : Prolongs(m.audit, Append(m.audit, a))
      /\ \A t \in Seq(AuditActions) : Prolongs(m.audit, m.audit \o t)
  BY <1>1, EntriesProlong
<1>3. ASSUME NEW c \in Cabins, m.status = "absent", new = NewMaintenanceOrder(c)
      PROVE  IsKeptIn(m, new)
  <2>1. /\ m.audit = << >> /\ m.duplicates = 0
        /\ new.audit = <<"alarm_reported">> /\ new.duplicates = 0
    BY <1>3 DEF AbsentOrder, NewMaintenanceOrder
  <2>2. Prolongs(<< >>, <<"alarm_reported">>)
    BY DEF Prolongs
  <2>3. QED
    BY <1>3, <2>1, <2>2 DEF IsKeptIn
<1>4. CASE m.status \notin {"absent", "closed"} /\ new = AddDuplicateReporter(m)
  BY <1>2, <1>4 DEF IsKeptIn, AddDuplicateReporter, Order
<1>5. ASSUME NEW d, NEW e, NEW b, NEW late \in BOOLEAN,
             CanDispatch(m), new = Dispatch(m, d, e, b, late)
      PROVE  IsKeptIn(m, new)
  <2>1. Prolongs(m.audit, new.audit)
    <3>1. <<"dispatch_sla_breached", "dispatched">> \in Seq(AuditActions)
          /\ <<"dispatched">> \in Seq(AuditActions)
      BY DEF AuditActions
    <3>2. QED
      BY <1>2, <1>5, <3>1 DEF Dispatch, Order
  <2>2. QED
    BY <1>2, <1>5, <2>1 DEF IsKeptIn, CanDispatch, Dispatch, Order
<1>6. CASE m.status \in {"dispatched", "assigned"} /\ new = Arrive(m)
  BY <1>2, <1>6 DEF IsKeptIn, Arrive, Order
<1>7. CASE m.status = "processing" /\ new = Complete(m)
  BY <1>2, <1>7 DEF IsKeptIn, Complete, Order
<1>8. ASSUME NEW leader, NEW station,
             m.status = "pending_acceptance", new = Accept(m, leader, station)
      PROVE  IsKeptIn(m, new)
  <2>1. Prolongs(m.audit, new.audit)
    <3>1. <<"accepted_by_leader", "accepted_by_station", "order_closed">> \in Seq(AuditActions)
      BY DEF AuditActions
    <3>2. QED
      BY <1>2, <1>8, <3>1 DEF Accept, Order
  <2>2. QED
    BY <1>2, <1>8, <2>1 DEF IsKeptIn, Accept, Order
<1>9. CASE CanTransfer(m) /\ new = Transfer(m)
  BY <1>2, <1>9 DEF IsKeptIn, CanTransfer, Transfer, Order
<1>10. QED
  BY <1>3, <1>4, <1>5, <1>6, <1>7, <1>8, <1>9 DEF Becomes

\* What an order has on record stands, whatever requests arrive late or twice: no report,
\* transfer or signature reaches an order that is closed, who was dispatched is not replaced,
\* and no duplicate and no entry of the trail is ever lost (the guards of
\* MaintenanceOrder's methods; Store.ReportAlarm skips closed orders).
THEOREM RecordsAreKept == Spec => [][\A o \in Orders : IsKeptIn(orders[o], orders'[o])]_vars
<1> DEFINE Inv == \A o \in Orders : orders[o].status = "absent" => orders[o] = AbsentOrder
<1>1. Init => Inv
  BY DEF Init
<1>2. ASSUME TypeOK, Inv, Next
      PROVE  Inv' /\ \A o \in Orders : IsKeptIn(orders[o], orders'[o])
  <2>1. \A o \in Orders : IsKeptIn(orders[o], orders[o])
    <3>1. \A o \in Orders : /\ Prolongs(orders[o].audit, orders[o].audit)
                            /\ orders[o].duplicates \in Nat
      BY <1>2, EntriesProlong DEF TypeOK, Order
    <3>2. QED
      BY <3>1 DEF IsKeptIn
  <2>2. CASE orders' = orders
    BY <1>2, <2>1, <2>2
  <2>3. ASSUME NEW o \in Orders, NEW new, Becomes(orders[o], new),
               orders' = [orders EXCEPT ![o] = new]
        PROVE  Inv' /\ \A x \in Orders : IsKeptIn(orders[x], orders'[x])
    <3>1. \A x \in Orders : orders'[x] = IF x = o THEN new ELSE orders[x]
      BY <1>2, <2>3 DEF TypeOK
    <3>2. IsKeptIn(orders[o], new)
      BY <1>2, <2>3, BecomesKeeps DEF TypeOK
    <3>3. new.status # "absent"
      <4>1. orders[o].status # "absent" => new.status # "absent"
        BY <3>2 DEF IsKeptIn
      <4>2. orders[o].status = "absent" => \E c \in Cabins : new = NewMaintenanceOrder(c)
        BY <2>3 DEF Becomes, CanDispatch, CanTransfer
      <4>3. \A c : NewMaintenanceOrder(c).status = "reported"
        BY DEF NewMaintenanceOrder, AbsentOrder
      <4>4. QED
        BY <4>1, <4>2, <4>3
    <3>4. QED
      BY <1>2, <2>1, <3>1, <3>2, <3>3
  <2>4. QED
    BY <1>2, <2>2, <2>3, OneOrderBecomes
<1>3. UNCHANGED vars /\ Inv => Inv'
  BY DEF vars
<1> HIDE DEF Inv
<1>4. QED
  BY <1>1, <1>2, <1>3, TypeCorrect, PTL DEF Spec

================================================================================
