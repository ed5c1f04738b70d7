--------------------------- MODULE TransfersProofs ---------------------------
(***************************************************************************)
(* The scheduler acts on a list that is old, and takes only overdue orders *)
(* for all that; whoever transfers an order, both engineers are told once, *)
(* after the unlock: any number of orders, clients and engineers.          *)
(***************************************************************************)
EXTENDS Transfers, SequenceTheorems, TLAPS

\* What the list holds was overdue when it was made, and an order that is overdue
\* stays so: its DispatchedAt is written once.
IInv ==
  /\ late \subseteq Orders
  /\ listed \subseteq late
  /\ texting \in [Orders -> [by : {"nobody", "scheduler", "client"}, left : Nat]]
  /\ OnlyOverdueIsTaken

LEMMA IInvInit == Init => IInv
BY DEF Init, IInv, OnlyOverdueIsTaken

LEMMA IInvStep == IInv /\ [Next]_vars => IInv'
<1> SUFFICES ASSUME IInv, [Next]_vars
             PROVE  IInv'
  OBVIOUS
<1> USE DEF IInv
<1>1. CASE UNCHANGED <<late, listed, texting>>
  BY <1>1 DEF OnlyOverdueIsTaken
<1>2. ASSUME NEW o \in Orders, NEW who \in {"scheduler", "client"}, Transfer(o, who),
             listed' \subseteq listed, who = "scheduler" => o \in late
      PROVE  IInv'
  <2> DEFINE t == IF reply' = "ok" THEN [by |-> who, left |-> 2] ELSE texting[o]
  <2>1. texting' = [texting EXCEPT ![o] = t] /\ late' = late
    BY <1>2 DEF Transfer
  <2>2. t \in [by : {"nobody", "scheduler", "client"}, left : Nat]
    OBVIOUS
  <2>3. t.by = "scheduler" => o \in late
    BY <1>2 DEF OnlyOverdueIsTaken
  <2> HIDE DEF t
  <2>4. \A p \in Orders : texting'[p] = IF p = o THEN t ELSE texting[p]
    BY <2>1
  <2>5. QED
    BY <1>2, <2>1, <2>2, <2>3, <2>4 DEF OnlyOverdueIsTaken
<1>3. ASSUME NEW o \in Orders, ManualTransfer(o)
      PROVE  IInv'
  BY <1>2, <1>3 DEF ManualTransfer
<1>4. ASSUME NEW o \in Orders, AutoTransfer(o)
      PROVE  IInv'
  <2>1. o \in late /\ listed' \subseteq listed /\ Transfer(o, "scheduler")
    BY <1>4 DEF AutoTransfer
  <2>2. QED
    BY <1>2, <2>1
<1>5. ASSUME NEW o \in Orders, Send(o)
      PROVE  IInv'
  <2>1. /\ UNCHANGED <<late, listed>> /\ texting[o].left \in Nat \ {0}
        /\ texting' = [texting EXCEPT ![o].left = @ - 1]
    BY <1>5 DEF Send
  <2>2. \A p \in Orders : texting'[p].by = texting[p].by
    BY <2>1
  <2>3. texting' \in [Orders -> [by : {"nobody", "scheduler", "client"}, left : Nat]]
    BY <2>1
  <2>4. QED
    BY <2>1, <2>2, <2>3 DEF OnlyOverdueIsTaken
<1>6. ASSUME NEW o \in Orders, TimeoutPasses(o)
      PROVE  IInv'
  BY <1>6 DEF TimeoutPasses, OnlyOverdueIsTaken
<1>7. CASE ListOverdue
  BY <1>7 DEF ListOverdue, IsTransferOverdue, OnlyOverdueIsTaken
<1>8. QED
  BY <1>1, <1>3, <1>4, <1>5, <1>6, <1>7 DEF Next, vars

\* The scheduler takes an order away from an engineer only when the timeout has
\* passed, although it acts on a list that is old by then and TransferOrder does
\* not ask for the time again (Service.CheckOverdueTransfers).
THEOREM OnlyTheOverdueAreTaken == Spec => []OnlyOverdueIsTaken
<1>1. IInv => OnlyOverdueIsTaken
  BY DEF IInv
<1>2. QED
  BY <1>1, IInvInit, IInvStep, PTL DEF Spec

------------------------------------------------------------------------------
(* What the others do to an order, while its messages are on their way *)

\* An order is transferred once, and only when both engineers are known.
Good(m) ==
  /\ m.status \in {"absent", "reported", "dispatched"} => m.transfers = 0
  /\ m.transfers \in 0..1
  /\ m.status \notin {"absent", "reported"} => m.primary \in Engineers
  /\ m.transfers = 1 => m.primary \in Engineers /\ m.backup \in Engineers

\* A step that transfers nothing leaves the names of a transferred order alone, and
\* the engineer who has arrived.
Quiet(m, new) ==
  /\ new \in Desk!Order /\ Good(new)
  /\ new.transfers = m.transfers
  /\ m.transfers = 1 => new.primary = m.primary /\ new.backup = m.backup
  /\ m.status \in {"processing", "pending_acceptance", "closed"} => new.engineer = m.engineer

OrdersOK == orders \in [Orders -> Desk!Order] /\ \A o \in Orders : Good(orders[o])

LEMMA AuditGrows ==
  ASSUME NEW s \in Seq(Desk!AuditActions)
  PROVE  /\ \A a \in Desk!AuditActions : Append(s, a) \in Seq(Desk!AuditActions)
         /\ \A t \in Seq(Desk!AuditActions) : s \o t \in Seq(Desk!AuditActions)
OBVIOUS

LEMMA MethodsAreQuiet ==
  ASSUME NEW m \in Desk!Order, Good(m)
  PROVE  /\ Quiet(m, m)
         /\ \A c \in Cabins : m.status = "absent" => Quiet(m, Desk!NewMaintenanceOrder(c))
         /\ m.status # "absent" => Quiet(m, Desk!AddDuplicateReporter(m))
         /\ \A e \in Engineers, b \in Engineers \cup {Blank}, breached \in BOOLEAN : \A d :
              Desk!CanDispatch(m) => Quiet(m, Desk!Dispatch(m, d, e, b, breached))
         /\ \A e : Desk!CanArrive(m, e) => Quiet(m, Desk!Arrive(m))
         /\ \A e : Desk!CanComplete(m, e) => Quiet(m, Desk!Complete(m))
         /\ \A leader, station \in Parties :
              Desk!CanAccept(m, leader, station) => Quiet(m, Desk!Accept(m, leader, station))
<1>0. /\ m.audit \in Seq(Desk!AuditActions)
      /\ {"alarm_reported", "duplicate_report_suppressed", "dispatch_sla_breached",
          "dispatched", "engineer_arrived", "processing_completed", "accepted_by_leader",
          "accepted_by_station", "order_closed"} \subseteq Desk!AuditActions
  BY DEF Desk!Order, Desk!AuditActions
<1>1. Quiet(m, m)
  BY DEF Quiet
<1>2. ASSUME NEW c \in Cabins, m.status = "absent"
      PROVE  Quiet(m, Desk!NewMaintenanceOrder(c))
  <2>1. <<"alarm_reported">> \in Seq(Desk!AuditActions)
    BY <1>0
  <2>2. Desk!NewMaintenanceOrder(c) \in Desk!Order
    BY <2>1 DEF Desk!NewMaintenanceOrder, Desk!AbsentOrder, Desk!Order
  <2>3. /\ Desk!NewMaintenanceOrder(c).status = "reported"
        /\ Desk!NewMaintenanceOrder(c).transfers = 0
    BY DEF Desk!NewMaintenanceOrder, Desk!AbsentOrder
  <2>4. QED
    BY <1>2, <2>2, <2>3 DEF Quiet, Good
<1>3. ASSUME m.status # "absent"
      PROVE  Quiet(m, Desk!AddDuplicateReporter(m))
  <2>1. Append(m.audit, "duplicate_report_suppressed") \in Seq(Desk!AuditActions)
    BY <1>0, AuditGrows
  <2> DEFINE new == Desk!AddDuplicateReporter(m)
  <2>2. new \in Desk!Order
    <3>1. m.duplicates + 1 \in Nat
      BY DEF Desk!Order
    <3>2. QED
      BY <2>1, <3>1 DEF Desk!AddDuplicateReporter, Desk!Order
  <2>3. /\ new.status = m.status /\ new.transfers = m.transfers /\ new.engineer = m.engineer
        /\ new.primary = m.primary /\ new.backup = m.backup
    BY DEF Desk!AddDuplicateReporter, Desk!Order
  <2>4. QED
    BY <2>2, <2>3 DEF Quiet, Good
<1>4. ASSUME NEW e \in Engineers, NEW d, NEW b \in Engineers \cup {Blank}, NEW breached \in BOOLEAN,
             Desk!CanDispatch(m)
      PROVE  Quiet(m, Desk!Dispatch(m, d, e, b, breached))
  <2>1. /\ m.audit \o <<"dispatch_sla_breached", "dispatched">> \in Seq(Desk!AuditActions)
        /\ m.audit \o <<"dispatched">> \in Seq(Desk!AuditActions)
    BY <1>0, AuditGrows
  <2> DEFINE new == Desk!Dispatch(m, d, e, b, breached)
  <2>2. new \in Desk!Order
    BY <2>1 DEF Desk!Dispatch, Desk!Order
  <2>3. new.status = "dispatched" /\ new.transfers = m.transfers /\ new.primary = e
    BY DEF Desk!Dispatch, Desk!Order
  <2>4. m.status = "reported" /\ m.transfers = 0
    BY <1>4 DEF Desk!CanDispatch, Good
  <2>5. QED
    BY <2>2, <2>3, <2>4 DEF Quiet, Good
<1>5. ASSUME NEW e, Desk!CanArrive(m, e)
      PROVE  Quiet(m, Desk!Arrive(m))
  <2>1. Append(m.audit, "engineer_arrived") \in Seq(Desk!AuditActions)
    BY <1>0, AuditGrows
  <2>2. QED
    BY <1>5, <2>1 DEF Quiet, Good, Desk!CanArrive, Desk!Arrive, Desk!Order
<1>6. ASSUME NEW e, Desk!CanComplete(m, e)
      PROVE  Quiet(m, Desk!Complete(m))
  <2>1. Append(m.audit, "processing_completed") \in Seq(Desk!AuditActions)
    BY <1>0, AuditGrows
  <2>2. QED
    BY <1>6, <2>1 DEF Quiet, Good, Desk!CanComplete, Desk!Complete, Desk!Order
<1>7. ASSUME NEW leader \in Parties, NEW station \in Parties, Desk!CanAccept(m, leader, station)
      PROVE  Quiet(m, Desk!Accept(m, leader, station))
  <2>1. m.audit \o <<"accepted_by_leader", "accepted_by_station", "order_closed">>
          \in Seq(Desk!AuditActions)
    BY <1>0, AuditGrows
  <2>2. QED
    BY <1>7, <2>1 DEF Quiet, Good, Desk!CanAccept, Desk!Accept, Desk!Order
<1>8. QED
  BY <1>1, <1>2, <1>3, <1>4, <1>5, <1>6, <1>7

\* One order changes quietly, the others not at all.
LEMMA OneIsQuiet ==
  ASSUME OrdersOK, NEW o \in Orders, NEW new, Quiet(orders[o], new),
         orders' = [orders EXCEPT ![o] = new]
  PROVE  OrdersOK' /\ \A x \in Orders : Quiet(orders[x], orders'[x])
<1>1. \A x \in Orders : orders'[x] = IF x = o THEN new ELSE orders[x]
  BY DEF OrdersOK
<1>2. \A x \in Orders : Quiet(orders[x], orders'[x])
  BY <1>1 DEF OrdersOK, Quiet
<1>3. orders' \in [Orders -> Desk!Order]
  BY <1>1 DEF OrdersOK, Quiet
<1>4. QED
  BY <1>2, <1>3 DEF OrdersOK, Quiet

LEMMA HandlersAreQuiet ==
  ASSUME OrdersOK, Desk!Handlers
  PROVE  OrdersOK' /\ \A x \in Orders : Quiet(orders[x], orders'[x])
<1> DEFINE Goal == OrdersOK' /\ \A x \in Orders : Quiet(orders[x], orders'[x])
<1> USE DEF Desk!Fail, Desk!UpdateCabin, Desk!UpdateMaintenanceOrder, Desk!UpdateOrderAndCabin
<1>0. \A o \in Orders : orders[o] \in Desk!Order /\ Good(orders[o])
  BY DEF OrdersOK
<1>1. CASE UNCHANGED orders
  BY <1>1 DEF OrdersOK, Quiet
<1>2. CASE \/ \E c \in Cabins \cup {Blank}, limit \in Limits : Desk!RegisterCabin(c, limit)
           \/ \E c \in Cabins, r \in Desk!Readings : Desk!SubmitReadings(c, r)
           \/ \E c \in Cabins, p \in Parties \cup {Blank} : Desk!BeginReport(c, p)
  BY <1>1, <1>2 DEF Desk!RegisterCabin, Desk!SubmitReadings, Desk!BeginReport
<1>3. ASSUME NEW c \in Cabins, Desk!ReportAlarm(c)
      PROVE  Goal
  <2>1. ASSUME NEW o \in Desk!ActiveOrders(c),
               orders' = [orders EXCEPT ![o] = Desk!AddDuplicateReporter(orders[o])]
        PROVE  Goal
    <3>1. o \in Orders /\ orders[o].status # "absent"
      BY DEF Desk!ActiveOrders, Desk!IsActive
    <3>2. Quiet(orders[o], Desk!AddDuplicateReporter(orders[o]))
      BY <1>0, <3>1, MethodsAreQuiet
    <3>3. QED
      BY <2>1, <3>1, <3>2, OneIsQuiet
  <2>2. ASSUME NEW o \in Orders, ~Desk!Stored(o),
               orders' = [orders EXCEPT ![o] = Desk!NewMaintenanceOrder(c)]
        PROVE  Goal
    <3>1. Quiet(orders[o], Desk!NewMaintenanceOrder(c))
      BY <1>0, <2>2, MethodsAreQuiet DEF Desk!Stored
    <3>2. QED
      BY <2>2, <3>1, OneIsQuiet
  <2>3. QED
    BY <1>3, <2>1, <2>2 DEF Desk!ReportAlarm
<1>4. ASSUME NEW o \in Orders, NEW d \in Parties \cup {Blank},
             NEW e \in Engineers \cup {Blank}, NEW b \in Engineers \cup {Blank},
             NEW breached \in BOOLEAN, Desk!DispatchMaintenance(o, d, e, b, breached)
      PROVE  Goal
  <2>1. CASE /\ e \in Engineers /\ Desk!CanDispatch(orders[o])
             /\ orders' = [orders EXCEPT ![o] = Desk!Dispatch(orders[o], d, e, b, breached)]
    <3>1. Quiet(orders[o], Desk!Dispatch(orders[o], d, e, b, breached))
      BY <1>0, <2>1, MethodsAreQuiet
    <3>2. QED
      BY <2>1, <3>1, OneIsQuiet
  <2>2. QED
    BY <1>1, <1>4, <2>1 DEF Desk!DispatchMaintenance
<1>5. ASSUME NEW o \in Orders, NEW e \in Engineers \cup {Blank}, Desk!EngineerArrive(o, e)
      PROVE  Goal
  <2>1. CASE /\ Desk!CanArrive(orders[o], e)
             /\ orders' = [orders EXCEPT ![o] = Desk!Arrive(orders[o])]
    <3>1. Quiet(orders[o], Desk!Arrive(orders[o]))
      BY <1>0, <2>1, MethodsAreQuiet
    <3>2. QED
      BY <2>1, <3>1, OneIsQuiet
  <2>2. QED
    BY <1>1, <1>5, <2>1 DEF Desk!EngineerArrive
<1>6. ASSUME NEW o \in Orders, NEW e \in Engineers \cup {Blank}, Desk!CompleteProcessing(o, e)
      PROVE  Goal
  <2>1. CASE /\ Desk!CanComplete(orders[o], e)
             /\ orders' = [orders EXCEPT ![o] = Desk!Complete(orders[o])]
    <3>1. Quiet(orders[o], Desk!Complete(orders[o]))
      BY <1>0, <2>1, MethodsAreQuiet
    <3>2. QED
      BY <2>1, <3>1, OneIsQuiet
  <2>2. QED
    BY <1>1, <1>6, <2>1 DEF Desk!CompleteProcessing
<1>7. ASSUME NEW o \in Orders, NEW leader \in Parties \cup {Blank},
             NEW station \in Parties \cup {Blank}, Desk!AcceptMaintenance(o, leader, station)
      PROVE  Goal
  <2>1. CASE /\ Desk!CanAccept(orders[o], leader, station)
             /\ orders' = [orders EXCEPT ![o] = Desk!Accept(orders[o], leader, station)]
    <3>1. leader \in Parties /\ station \in Parties
      BY <2>1 DEF Desk!CanAccept
    <3>2. Quiet(orders[o], Desk!Accept(orders[o], leader, station))
      BY <1>0, <2>1, <3>1, MethodsAreQuiet
    <3>3. QED
      BY <2>1, <3>2, OneIsQuiet
  <2>2. QED
    BY <1>1, <1>7, <2>1 DEF Desk!AcceptMaintenance
<1> HIDE DEF Goal, Desk!Fail, Desk!UpdateCabin, Desk!UpdateMaintenanceOrder, Desk!UpdateOrderAndCabin
<1>8. QED
  BY <1>2, <1>3, <1>4, <1>5, <1>6, <1>7 DEF Goal, Desk!Handlers

------------------------------------------------------------------------------
(* Both engineers are told *)

\* The messages owed and sent about an order m: none yet, or what is left of the two.
ToldAsOwed(m, t, sent) ==
  \/ m.transfers = 0 /\ t.left = 0 /\ sent = << >>
  \/ m.transfers = 1 /\ t.left = 2 /\ sent = << >>
  \/ m.transfers = 1 /\ t.left = 1 /\ sent = <<m.primary>>
  \/ m.transfers = 1 /\ t.left = 0 /\ sent = <<m.primary, m.backup>>

MInv ==
  /\ IInv
  /\ OrdersOK
  /\ texting \in [Orders -> [by : {"nobody", "scheduler", "client"}, left : 0..2]]
  /\ told \in [Orders -> Seq(Engineers)]
  /\ \A o \in Orders : ToldAsOwed(orders[o], texting[o], told[o])

LEMMA StartsOfAPair ==
  ASSUME NEW p, NEW b
  PROVE  /\ SubSeq(<<p, b>>, 1, 0) = << >>
         /\ SubSeq(<<p, b>>, 1, 1) = <<p>>
         /\ SubSeq(<<p, b>>, 1, 2) = <<p, b>>
<1>1. <<p, b>> \in Seq({p, b}) /\ Len(<<p, b>>) = 2
  OBVIOUS
<1>2. SubSeq(<<p, b>>, 1, 0) = << >>
  BY <1>1, SubSeqEmpty
<1>3. SubSeq(<<p, b>>, 1, 1) = SubSeq(<<p, b>>, 1, 0) \o <<p>>
  BY <1>1, SubSeqRecursiveSecond
<1>4. SubSeq(<<p, b>>, 1, 2) = <<p, b>>
  BY <1>1, SubSeqFull
<1>5. << >> \o <<p>> = <<p>>
  OBVIOUS
<1>6. QED
  BY <1>2, <1>3, <1>4, <1>5

LEMMA AppendedPair ==
  ASSUME NEW S, NEW p \in S, NEW b \in S
  PROVE  Append(<<p>>, b) = <<p, b>>
<1>1. <<p>> \in Seq(S) /\ <<p, b>> \in Seq(S)
  OBVIOUS
<1>2. /\ Len(Append(<<p>>, b)) = 2
      /\ Append(<<p>>, b)[1] = p /\ Append(<<p>>, b)[2] = b
  BY <1>1, AppendProperties
<1>3. Append(<<p>>, b) \in Seq(S)
  BY <1>1, AppendProperties
<1>4. \A i \in 1..2 : Append(<<p>>, b)[i] = <<p, b>>[i]
  BY <1>2
<1>5. QED
  BY <1>1, <1>2, <1>3, <1>4, SeqEqual

LEMMA MInvImplies == MInv => TypeOK /\ BothAreToldOnce
<1> SUFFICES ASSUME MInv
             PROVE  TypeOK /\ BothAreToldOnce
  OBVIOUS
<1>1. TypeOK
  BY DEF MInv, IInv, TypeOK
<1>2. ASSUME NEW o \in Orders
      PROVE  /\ Len(told[o]) + texting[o].left = 2 * orders[o].transfers
             /\ told[o] = SubSeq(<<orders[o].primary, orders[o].backup>>, 1, Len(told[o]))
  <2> DEFINE m == orders[o]
             pair == <<m.primary, m.backup>>
  <2>1. ToldAsOwed(m, texting[o], told[o])
    BY DEF MInv
  <2>2. /\ SubSeq(pair, 1, 0) = << >> /\ SubSeq(pair, 1, 1) = <<m.primary>>
        /\ SubSeq(pair, 1, 2) = pair
    BY StartsOfAPair
  <2>3. CASE told[o] = << >>
    BY <2>1, <2>2, <2>3 DEF ToldAsOwed
  <2>4. CASE told[o] = <<m.primary>>
    BY <2>1, <2>2, <2>4 DEF ToldAsOwed
  <2>5. CASE told[o] = pair
    BY <2>1, <2>2, <2>5 DEF ToldAsOwed
  <2>6. QED
    BY <2>1, <2>3, <2>4, <2>5 DEF ToldAsOwed
<1>3. QED
  BY <1>1, <1>2 DEF BothAreToldOnce

LEMMA MInvInit == Init => MInv
<1> SUFFICES ASSUME Init
             PROVE  MInv
  OBVIOUS
<1>1. OrdersOK
  <2>1. << >> \in Seq(Desk!AuditActions)
    OBVIOUS
  <2>2. Desk!AbsentOrder \in Desk!Order /\ Good(Desk!AbsentOrder)
    BY <2>1 DEF Desk!AbsentOrder, Desk!Order, Good
  <2>3. QED
    BY <2>2 DEF Init, Desk!Init, OrdersOK
<1>2. \A o \in Orders : orders[o].transfers = 0
  BY DEF Init, Desk!Init, Desk!AbsentOrder
<1>3. ASSUME NEW o \in Orders
      PROVE  ToldAsOwed(orders[o], texting[o], told[o])
  <2>1. told[o] = << >> /\ texting[o].left = 0
    BY DEF Init
  <2>2. QED
    BY <1>2, <2>1 DEF ToldAsOwed
<1>4. QED
  BY <1>1, <1>3, IInvInit DEF MInv, Init

\* A transfer finds nothing owed or sent, and owes both messages.
LEMMA TransferOwes ==
  ASSUME MInv, NEW o \in Orders, NEW who \in {"scheduler", "client"}, Transfer(o, who)
  PROVE  /\ OrdersOK'
         /\ texting' \in [Orders -> [by : {"nobody", "scheduler", "client"}, left : 0..2]]
         /\ told' = told
         /\ \A x \in Orders : ToldAsOwed(orders'[x], texting'[x], told[x])
         /\ \A x \in Orders :
              orders[x].status \in {"processing", "pending_acceptance", "closed"} =>
                orders'[x].engineer = orders[x].engineer
<1> USE DEF MInv
<1>0. Desk!TransferOrder(o) /\ told' = told
      /\ texting' = [texting EXCEPT ![o] =
                       IF reply' = "ok" THEN [by |-> who, left |-> 2] ELSE @]
  BY DEF Transfer
<1>1. CASE reply' # "ok"
  <2>1. orders' = orders /\ texting' = texting
    BY <1>0, <1>1 DEF Desk!TransferOrder, Desk!UpdateMaintenanceOrder, Desk!Fail
  <2>2. QED
    BY <1>0, <2>1 DEF OrdersOK
<1>2. CASE reply' = "ok"
  <2> DEFINE m == orders[o]
             new == Desk!Transfer(m)
  <2>1. Desk!CanTransfer(m) /\ orders' = [orders EXCEPT ![o] = new]
    BY <1>0, <1>2 DEF Desk!TransferOrder, Desk!UpdateMaintenanceOrder, Desk!Fail
  <2>2. m \in Desk!Order /\ m.transfers = 0 /\ m.status = "dispatched"
        /\ m.primary \in Engineers /\ m.backup \in Engineers
    BY <2>1 DEF OrdersOK, Good, Desk!CanTransfer, Desk!Order
  <2>3. new \in Desk!Order
    <3>1. "auto_transferred" \in Desk!AuditActions /\ m.audit \in Seq(Desk!AuditActions)
      BY <2>2 DEF Desk!AuditActions, Desk!Order
    <3>2. Append(m.audit, "auto_transferred") \in Seq(Desk!AuditActions)
      BY <3>1, AuditGrows
    <3>3. m.transfers + 1 \in Nat
      BY <2>2
    <3>4. QED
      BY <2>2, <3>2, <3>3 DEF Desk!Transfer, Desk!Order
  <2>4. /\ new.transfers = 1 /\ new.status = "assigned"
        /\ new.primary = m.primary /\ new.backup = m.backup
    BY <2>2 DEF Desk!Transfer, Desk!Order
  <2>5. Good(new)
    BY <2>2, <2>4 DEF Good
  <2> HIDE DEF m, new
  <2>6. \A x \in Orders : orders'[x] = IF x = o THEN new ELSE orders[x]
    BY <2>1 DEF OrdersOK
  <2>7. \A x \in Orders : texting'[x] = IF x = o THEN [by |-> who, left |-> 2] ELSE texting[x]
    BY <1>0, <1>2
  <2>8. OrdersOK'
    <3>1. orders' \in [Orders -> Desk!Order]
      BY <2>1, <2>3 DEF OrdersOK
    <3>2. QED
      BY <2>5, <2>6, <3>1 DEF OrdersOK
  <2>9. told[o] = << >>
    BY <2>2 DEF ToldAsOwed, m
  <2>10. ToldAsOwed(new, [by |-> who, left |-> 2], << >>)
    BY <2>4 DEF ToldAsOwed
  <2>11. \A x \in Orders : ToldAsOwed(orders'[x], texting'[x], told[x])
    BY <2>6, <2>7, <2>9, <2>10
  <2>12. texting' \in [Orders -> [by : {"nobody", "scheduler", "client"}, left : 0..2]]
    BY <1>0, <1>2
  <2>13. \A x \in Orders :
           orders[x].status \in {"processing", "pending_acceptance", "closed"} =>
             orders'[x].engineer = orders[x].engineer
    BY <2>2, <2>6 DEF m
  <2>14. QED
    BY <1>0, <2>8, <2>11, <2>12, <2>13
<1>3. QED
  BY <1>1, <1>2

\* A message goes to whom it is owed.
LEMMA SendTells ==
  ASSUME MInv, NEW o \in Orders, Send(o)
  PROVE  MInv' /\ UNCHANGED orders
<1> USE DEF MInv
<1> DEFINE m == orders[o]
           t == texting[o]
           sent == told[o]
<1>1. /\ t.left > 0 /\ UNCHANGED <<deskVars, late, listed>>
      /\ told' = [told EXCEPT ![o] = Append(sent, Addressee(o))]
      /\ texting' = [texting EXCEPT ![o].left = t.left - 1]
  BY DEF Send
<1>2. /\ t.left \in 1..2 /\ m.transfers \in 0..1 /\ Good(m)
      /\ ToldAsOwed(m, t, sent)
  BY <1>1 DEF OrdersOK, Good
<1>3. m.transfers = 1 /\ m.primary \in Engineers /\ m.backup \in Engineers
  BY <1>2 DEF ToldAsOwed, Good
<1>4. /\ Append(sent, Addressee(o)) \in Seq(Engineers)
      /\ t.left = 2 => Append(sent, Addressee(o)) = <<m.primary>>
      /\ t.left = 1 => Append(sent, Addressee(o)) = <<m.primary, m.backup>>
  <2>1. CASE t.left = 2
    <3>1. sent = << >> /\ Addressee(o) = m.primary
      BY <1>2, <2>1 DEF ToldAsOwed, Addressee
    <3>2. QED
      BY <1>3, <2>1, <3>1
  <2>2. CASE t.left = 1
    <3>1. sent = <<m.primary>> /\ Addressee(o) = m.backup
      BY <1>2, <2>2 DEF ToldAsOwed, Addressee
    <3>2. Append(<<m.primary>>, m.backup) = <<m.primary, m.backup>>
      BY <1>3, AppendedPair
    <3>3. <<m.primary, m.backup>> \in Seq(Engineers)
      BY <1>3
    <3>4. QED
      BY <2>2, <3>1, <3>2, <3>3
  <2>3. QED
    BY <1>2, <2>1, <2>2
<1>5. \A x \in Orders :
        /\ told'[x] = IF x = o THEN Append(sent, Addressee(o)) ELSE told[x]
        /\ texting'[x].left = IF x = o THEN t.left - 1 ELSE texting[x].left
  BY <1>1
<1>6. texting' \in [Orders -> [by : {"nobody", "scheduler", "client"}, left : 0..2]]
  <2>1. [t EXCEPT !.left = t.left - 1] \in [by : {"nobody", "scheduler", "client"}, left : 0..2]
    <3>1. t.left - 1 \in 0..2
      BY <1>2
    <3>2. t \in [by : {"nobody", "scheduler", "client"}, left : 0..2]
      OBVIOUS
    <3>3. QED
      BY <3>1, <3>2
  <2>2. texting' = [texting EXCEPT ![o] = [t EXCEPT !.left = t.left - 1]]
    BY <1>1
  <2>3. QED
    BY <2>1, <2>2
<1>7. told' \in [Orders -> Seq(Engineers)]
  BY <1>1, <1>4
<1>8. UNCHANGED orders
  BY <1>1 DEF deskVars
<1>9. \A x \in Orders : ToldAsOwed(orders[x], texting'[x], told'[x])
  <2>1. ToldAsOwed(m, texting'[o], Append(sent, Addressee(o)))
    BY <1>2, <1>3, <1>4, <1>5 DEF ToldAsOwed
  <2>2. ASSUME NEW x \in Orders \ {o}
        PROVE  ToldAsOwed(orders[x], texting'[x], told'[x])
    BY <1>5 DEF ToldAsOwed
  <2>3. QED
    BY <1>5, <2>1, <2>2
<1>10. IInv'
  <2>1. [Next]_vars
    BY DEF Next
  <2>2. QED
    BY <2>1, IInvStep
<1>11. QED
  BY <1>6, <1>7, <1>8, <1>9, <1>10 DEF OrdersOK

LEMMA MInvStep ==
  MInv /\ [Next]_vars =>
    /\ MInv'
    /\ \A o \in Orders :
         orders[o].status \in {"processing", "pending_acceptance", "closed"} =>
           orders'[o].engineer = orders[o].engineer
<1> DEFINE Goal == /\ MInv'
                   /\ \A o \in Orders :
                        orders[o].status \in {"processing", "pending_acceptance", "closed"} =>
                          orders'[o].engineer = orders[o].engineer
<1> SUFFICES ASSUME MInv, [Next]_vars
             PROVE  Goal
  OBVIOUS
<1>0. IInv'
  BY IInvStep DEF MInv
<1>1. ASSUME UNCHANGED <<orders, texting, told>>
      PROVE  Goal
  BY <1>0, <1>1 DEF MInv, OrdersOK
<1>2. ASSUME Desk!Handlers, UNCHANGED <<late, listed, texting, told>>
      PROVE  Goal
  <2>1. OrdersOK' /\ \A x \in Orders : Quiet(orders[x], orders'[x])
    BY <1>2, HandlersAreQuiet DEF MInv
  <2>2. ASSUME NEW x \in Orders
        PROVE  ToldAsOwed(orders'[x], texting'[x], told'[x])
    <3>1. Good(orders[x]) /\ Quiet(orders[x], orders'[x])
          /\ ToldAsOwed(orders[x], texting[x], told[x])
          /\ texting[x].left \in 0..2
      BY <2>1 DEF MInv, OrdersOK
    <3>2. QED
      BY <1>2, <3>1 DEF ToldAsOwed, Quiet
  <2>3. QED
    BY <1>0, <1>2, <2>1, <2>2 DEF MInv, Quiet
<1>3. ASSUME NEW o \in Orders, ManualTransfer(o) \/ AutoTransfer(o)
      PROVE  Goal
  <2>1. PICK who \in {"scheduler", "client"} : Transfer(o, who)
    BY <1>3 DEF ManualTransfer, AutoTransfer
  <2>2. QED
    BY <1>0, <2>1, TransferOwes DEF MInv
<1>4. ASSUME NEW o \in Orders, Send(o)
      PROVE  Goal
  BY <1>4, SendTells
<1>5. ASSUME NEW o \in Orders, TimeoutPasses(o)
      PROVE  Goal
  BY <1>1, <1>5 DEF TimeoutPasses, deskVars
<1>6. ASSUME ListOverdue
      PROVE  Goal
  BY <1>1, <1>6 DEF ListOverdue, deskVars
<1>7. ASSUME UNCHANGED vars
      PROVE  Goal
  BY <1>1, <1>7 DEF vars
<1> HIDE DEF Goal
<1>8. QED
  BY <1>2, <1>3, <1>4, <1>5, <1>6, <1>7 DEF Next

LEMMA Invariance == Spec => []MInv
<1>1. QED
  BY MInvInit, MInvStep, PTL DEF Spec

\* The types of what a transfer leaves to be done (Service.TransferOrder).
THEOREM TypeCorrect == Spec => []TypeOK
<1>1. QED
  BY MInvImplies, Invariance, PTL

\* Each engineer of a transferred order is told once, the primary first, under the names
\* of the transfer, although these are read after the unlock (Service.TransferOrder).
THEOREM EachIsToldOnce == Spec => []BothAreToldOnce
<1>1. QED
  BY MInvImplies, Invariance, PTL

\* Neither the scheduler's list from before the arrival nor a client's transfer takes
\* an order from the engineer who has arrived (MaintenanceOrder.Transfer).
THEOREM TheArrivedStay == Spec => ArrivedEngineerStays
<1>1. MInv /\ [Next]_vars =>
        [\A o \in Orders :
           orders[o].status \in {"processing", "pending_acceptance", "closed"} =>
             orders'[o].engineer = orders[o].engineer]_vars
  BY MInvStep
<1>2. QED
  BY <1>1, Invariance, PTL DEF Spec, ArrivedEngineerStays

------------------------------------------------------------------------------
(* The desk goes on as if it were alone *)

\* Maintenance again, with what is proved of it.
Workshop == INSTANCE RecordsProofs

\* The two instances are of the same definitions, the names of which are all there is
\* to expand.
LEMMA OneDesk == Desk!Spec => Workshop!Spec
BY DEF Desk!Spec, Workshop!Spec, Desk!Init, Workshop!Init, Desk!Next, Workshop!Next,
       Desk!vars, Workshop!vars, Desk!Handlers, Workshop!Handlers,
       Desk!AbsentCabin, Workshop!AbsentCabin, Desk!AbsentOrder, Workshop!AbsentOrder,
       Desk!RegisterCabin, Workshop!RegisterCabin,
       Desk!SubmitReadings, Workshop!SubmitReadings,
       Desk!BeginReport, Workshop!BeginReport, Desk!ReportAlarm, Workshop!ReportAlarm,
       Desk!DispatchMaintenance, Workshop!DispatchMaintenance,
       Desk!EngineerArrive, Workshop!EngineerArrive,
       Desk!CompleteProcessing, Workshop!CompleteProcessing,
       Desk!AcceptMaintenance, Workshop!AcceptMaintenance,
       Desk!TransferOrder, Workshop!TransferOrder,
       Desk!UpdateCabin, Workshop!UpdateCabin,
       Desk!UpdateMaintenanceOrder, Workshop!UpdateMaintenanceOrder,
       Desk!UpdateOrderAndCabin, Workshop!UpdateOrderAndCabin, Desk!Fail, Workshop!Fail,
       Desk!CabinOf, Workshop!CabinOf, Desk!Registered, Workshop!Registered,
       Desk!Stored, Workshop!Stored, Desk!Readings, Workshop!Readings,
       Desk!CanReport, Workshop!CanReport, Desk!ActiveOrders, Workshop!ActiveOrders,
       Desk!IsActive, Workshop!IsActive, Desk!NewCabin, Workshop!NewCabin,
       Desk!ApplyReadings, Workshop!ApplyReadings,
       Desk!HasAlarmCondition, Workshop!HasAlarmCondition,
       Desk!CanLock, Workshop!CanLock, Desk!Lock, Workshop!Lock,
       Desk!Unlock, Workshop!Unlock,
       Desk!CanStartMaintenance, Workshop!CanStartMaintenance,
       Desk!StartMaintenance, Workshop!StartMaintenance,
       Desk!NewMaintenanceOrder, Workshop!NewMaintenanceOrder,
       Desk!AddDuplicateReporter, Workshop!AddDuplicateReporter,
       Desk!CanDispatch, Workshop!CanDispatch, Desk!Dispatch, Workshop!Dispatch,
       Desk!CanArrive, Workshop!CanArrive, Desk!Arrive, Workshop!Arrive,
       Desk!CanComplete, Workshop!CanComplete, Desk!Complete, Workshop!Complete,
       Desk!CanAccept, Workshop!CanAccept, Desk!Accept, Workshop!Accept,
       Desk!CanTransfer, Workshop!CanTransfer, Desk!Transfer, Workshop!Transfer

\* Whatever the scheduler, the clock and the messages do between the requests, the
\* cabins and the orders go only through steps of the desk: a transfer is one step of
\* it, whoever asks for it, and the rest does not touch them (Service.TransferOrder,
\* Service.CheckOverdueTransfers).
THEOREM ImplementsMaintenance == Spec => Desk!Spec
<1>1. Init => Desk!Init
  BY DEF Init
<1>2. [Next]_vars => [Desk!Next]_(Desk!vars)
  <2> SUFFICES ASSUME [Next]_vars
               PROVE  Desk!Next \/ UNCHANGED Desk!vars
    OBVIOUS
  <2>1. UNCHANGED deskVars => UNCHANGED Desk!vars
    BY DEF deskVars, Desk!vars
  <2>2. CASE Desk!Handlers
    BY <2>2 DEF Desk!Next
  <2>3. ASSUME NEW o \in Orders, NEW who, Transfer(o, who)
        PROVE  Desk!Next
    BY <2>3 DEF Transfer, Desk!Next
  <2>4. CASE \/ \E o \in Orders : Send(o) \/ TimeoutPasses(o)
             \/ ListOverdue
             \/ UNCHANGED vars
    BY <2>1, <2>4, Zenon DEF Send, TimeoutPasses, ListOverdue, vars, deskVars
  <2>5. QED
    BY <2>2, <2>3, <2>4 DEF Next, ManualTransfer, AutoTransfer
<1>3. QED
  BY <1>1, <1>2, PTL DEF Spec, Desk!Spec

\* So what holds of the desk holds with the scheduler at work: the cabins and the orders
\* stay in step, every report is accounted for, and every trail tells the status of its
\* order (Store.UpdateOrderAndCabin, Store.ReportAlarm, MaintenanceOrder.AppendAudit).
THEOREM DeskKeepsItsPromises ==
  Spec => [](/\ Desk!OneActiveOrderPerCabin
             /\ Desk!CabinFollowsOrder
             /\ Desk!OrderHasCabin
             /\ Desk!EngineerOfRecord
             /\ Desk!AuditTellsStatus
             /\ Desk!NoReportLost)
<1>1. Spec => Workshop!Spec
  BY ImplementsMaintenance, OneDesk
<1>2. Workshop!Spec => /\ []Workshop!OneActiveOrderPerCabin
                       /\ []Workshop!CabinFollowsOrder
                       /\ []Workshop!OrderHasCabin
                       /\ []Workshop!EngineerOfRecord
                       /\ []Workshop!AuditTellsStatus
                       /\ []Workshop!NoReportLost
  BY TransfersAssumption, Workshop!OneOpenOrder, Workshop!CabinInStep,
     Workshop!OrdersHaveCabins, Workshop!EngineersOfRecord,
     Workshop!TrailsTellStatuses, Workshop!ReportsAreNeverLost
<1>3. Workshop!OneActiveOrderPerCabin => Desk!OneActiveOrderPerCabin
  BY DEF Workshop!OneActiveOrderPerCabin, Desk!OneActiveOrderPerCabin
<1>4. Workshop!CabinFollowsOrder => Desk!CabinFollowsOrder
  BY DEF Workshop!CabinFollowsOrder, Desk!CabinFollowsOrder, Workshop!CabinOf, Desk!CabinOf,
         Workshop!HolderStatuses, Desk!HolderStatuses
<1>5. Workshop!OrderHasCabin => Desk!OrderHasCabin
  BY DEF Workshop!OrderHasCabin, Desk!OrderHasCabin, Workshop!Stored, Desk!Stored,
         Workshop!Registered, Desk!Registered
<1>6. Workshop!EngineerOfRecord => Desk!EngineerOfRecord
  BY DEF Workshop!EngineerOfRecord, Desk!EngineerOfRecord
<1>7. Workshop!AuditTellsStatus => Desk!AuditTellsStatus
  <2>1. \A S : Workshop!Cardinality(S) = Desk!Cardinality(S)
    BY DEF Workshop!Cardinality, Desk!Cardinality
  <2>2. \A trail : Workshop!Steps(trail) = Desk!Steps(trail)
    BY DEF Workshop!Steps, Desk!Steps
  <2>3. \A trail, i : Workshop!StepNumber(trail, i) = Desk!StepNumber(trail, i)
    BY <2>1, <2>2 DEF Workshop!StepNumber, Desk!StepNumber
  <2>4. /\ Workshop!Repairs = Desk!Repairs /\ Workshop!StatusAfter = Desk!StatusAfter
        /\ \A o \in Orders : Workshop!Stored(o) <=> Desk!Stored(o)
    BY DEF Workshop!Repairs, Desk!Repairs, Workshop!StatusAfter, Desk!StatusAfter,
           Workshop!Stored, Desk!Stored
  <2>5. QED
    BY <2>1, <2>2, <2>3, <2>4 DEF Workshop!AuditTellsStatus, Desk!AuditTellsStatus
<1>8. Workshop!NoReportLost => Desk!NoReportLost
  BY DEF Workshop!NoReportLost, Desk!NoReportLost, Workshop!InFlight, Desk!InFlight,
         Workshop!Recorded, Desk!Recorded, Workshop!Stored, Desk!Stored,
         Workshop!Cardinality, Desk!Cardinality
<1>9. QED
  BY <1>1, <1>2, <1>3, <1>4, <1>5, <1>6, <1>7, <1>8, PTL

\* And it never does, with the scheduler at work, what the desk never does: change
\* anything in a call that fails, let go of a cabin before the acceptance, or lose an
\* alarm (Store.UpdateOrderAndCabin, Service.AcceptMaintenance).
THEOREM DeskMovesAsPromised ==
  Spec => /\ Desk!FailedCallChangesNothing
          /\ Desk!HeldUntilAccepted
          /\ Desk!AlarmEndsInDispatch
<1>1. Spec => Workshop!Spec
  BY ImplementsMaintenance, OneDesk
<1>2. Workshop!Spec => /\ Workshop!FailedCallChangesNothing
                       /\ Workshop!HeldUntilAccepted
                       /\ Workshop!AlarmEndsInDispatch
  BY TransfersAssumption, Workshop!RefusalsChangeNothing,
     Workshop!CabinsAreHeldUntilAccepted, Workshop!AlarmsEndInDispatch
<1>3. Workshop!FailedCallChangesNothing => Desk!FailedCallChangesNothing
  BY DEF Workshop!FailedCallChangesNothing, Desk!FailedCallChangesNothing,
         Workshop!vars, Desk!vars
<1>4. Workshop!HeldUntilAccepted => Desk!HeldUntilAccepted
  BY DEF Workshop!HeldUntilAccepted, Desk!HeldUntilAccepted, Workshop!vars, Desk!vars
<1>5. Workshop!AlarmEndsInDispatch => Desk!AlarmEndsInDispatch
  BY DEF Workshop!AlarmEndsInDispatch, Desk!AlarmEndsInDispatch, Workshop!vars, Desk!vars
<1>6. QED
  BY <1>1, <1>2, <1>3, <1>4, <1>5

\* Seen from outside, the server with its scheduler is still one repair desk, and what its
\* orders have on record stands: a transfer by the clock that comes late, after the
\* acceptance even, leaves no trace (Service.CheckOverdueTransfers, MaintenanceOrder.CanTransfer).
THEOREM ImplementsRepairDesk ==
  Spec => /\ Workshop!IsARepairDesk
          /\ [][\A o \in Orders : Workshop!IsKeptIn(orders[o], orders'[o])]_(Workshop!vars)
BY ImplementsMaintenance, OneDesk, TransfersAssumption, Workshop!ImplementsRepairDesk,
   Workshop!RecordsAreKept

==============================================================================
