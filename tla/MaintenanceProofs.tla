-------------------------- MODULE MaintenanceProofs --------------------------
(***************************************************************************)
(* Theorems about Maintenance: its types, and that the cabin and the order *)
(* records stay in step.  The invariants speak of the statuses, so each    *)
(* step is first reduced to what it does to those.                         *)
(***************************************************************************)
EXTENDS Maintenance, TLAPS

USE MaintenanceAssumption

------------------------------------------------------------------------------
(* Types *)

LEMMA CabinMethodsType ==
  ASSUME NEW k \in Cabin
  PROVE  /\ \A r \in Readings : ApplyReadings(k, r) \in Cabin
         /\ \A o \in Orders : Lock(k, o) \in Cabin
         /\ Unlock(k) \in Cabin
         /\ StartMaintenance(k) \in Cabin
BY DEF Cabin, ApplyReadings, Lock, Unlock, StartMaintenance

LEMMA AbsentOrderType == AbsentOrder \in Order
BY DEF AbsentOrder, Order

LEMMA NewCabinType == \A limit \in Int : NewCabin(limit) \in Cabin
BY DEF NewCabin, Cabin

\* What every method of an order does to the audit trail.
LEMMA AuditType ==
  ASSUME NEW trail \in Seq(AuditActions)
  PROVE  /\ \A a \in AuditActions : /\ <<a>> \in Seq(AuditActions)
                                    /\ Append(trail, a) \in Seq(AuditActions)
         /\ \A more \in Seq(AuditActions) : trail \o more \in Seq(AuditActions)
OBVIOUS

LEMMA NewMaintenanceOrderType == \A c \in Cabins : NewMaintenanceOrder(c) \in Order
<1>1. <<"alarm_reported">> \in Seq(AuditActions)
  BY DEF AuditActions
<1>2. QED
  BY <1>1 DEF NewMaintenanceOrder, AbsentOrder, Order

LEMMA OrderMethodsType ==
  ASSUME NEW m \in Order
  PROVE  /\ AddDuplicateReporter(m) \in Order
         /\ \A d \in Parties, e, b \in Engineers \cup {Blank}, late \in BOOLEAN :
              Dispatch(m, d, e, b, late) \in Order
         /\ Arrive(m) \in Order
         /\ Complete(m) \in Order
         /\ \A leader, station \in Parties \cup {Blank} :
              Accept(m, leader, station) \in Order
         /\ Transfer(m) \in Order
<1>0. m.audit \in Seq(AuditActions)
  BY DEF Order
<1>1. \A a \in AuditActions : Append(m.audit, a) \in Seq(AuditActions)
  BY <1>0, AuditType
<1>2. \A more \in Seq(AuditActions) : m.audit \o more \in Seq(AuditActions)
  BY <1>0, AuditType
<1>3. AddDuplicateReporter(m) \in Order
  <2>1. Append(m.audit, "duplicate_report_suppressed") \in Seq(AuditActions)
    BY <1>1 DEF AuditActions
  <2>2. m.duplicates + 1 \in Nat
    BY DEF Order
  <2>3. QED
    BY <2>1, <2>2 DEF AddDuplicateReporter, Order
<1>4. ASSUME NEW d \in Parties, NEW e \in Engineers \cup {Blank},
             NEW b \in Engineers \cup {Blank}, NEW late \in BOOLEAN
      PROVE  Dispatch(m, d, e, b, late) \in Order
  <2> DEFINE entries == IF late THEN <<"dispatch_sla_breached", "dispatched">>
                                ELSE <<"dispatched">>
  <2>1. /\ <<"dispatch_sla_breached", "dispatched">> \in Seq(AuditActions)
        /\ <<"dispatched">> \in Seq(AuditActions)
    BY DEF AuditActions
  <2>2. m.audit \o entries \in Seq(AuditActions)
    BY <1>2, <2>1
  <2>3. QED
    BY <2>2 DEF Dispatch, Order
<1>5. Arrive(m) \in Order
  <2>1. Append(m.audit, "engineer_arrived") \in Seq(AuditActions)
    BY <1>1 DEF AuditActions
  <2>2. QED
    BY <2>1 DEF Arrive, Order
<1>6. Complete(m) \in Order
  <2>1. Append(m.audit, "processing_completed") \in Seq(AuditActions)
    BY <1>1 DEF AuditActions
  <2>2. QED
    BY <2>1 DEF Complete, Order
<1>7. ASSUME NEW leader \in Parties \cup {Blank}, NEW station \in Parties \cup {Blank}
      PROVE  Accept(m, leader, station) \in Order
  <2> DEFINE entries == <<"accepted_by_leader", "accepted_by_station", "order_closed">>
  <2>1. entries \in Seq(AuditActions)
    BY DEF AuditActions
  <2>2. m.audit \o entries \in Seq(AuditActions)
    BY <1>2, <2>1
  <2>3. QED
    BY <2>2 DEF Accept, Order
<1>8. Transfer(m) \in Order
  <2>1. Append(m.audit, "auto_transferred") \in Seq(AuditActions)
    BY <1>1 DEF AuditActions
  <2>2. m.transfers + 1 \in Nat
    BY DEF Order
  <2>3. QED
    BY <2>1, <2>2 DEF Transfer, Order
<1>9. QED
  BY <1>3, <1>4, <1>5, <1>6, <1>7, <1>8

\* The store's methods keep the types when the records they are given have them.
LEMMA StoreType ==
  ASSUME TypeOK
  PROVE  /\ Fail => TypeOK'
         /\ \A c \in Cabins, new \in Cabin : UpdateCabin(c, new) => TypeOK'
         /\ \A o \in Orders, ok \in BOOLEAN, new \in Order :
              UpdateMaintenanceOrder(o, ok, new) => TypeOK'
         /\ \A o \in Orders, ok, cabinOK \in BOOLEAN, new \in Order : \A newCabin :
              /\ Registered(orders[o].cabin) => newCabin \in Cabin
              /\ UpdateOrderAndCabin(o, ok, new, cabinOK, newCabin)
              => TypeOK'
<1>1. Fail => TypeOK'
  BY DEF TypeOK, Fail
<1>2. ASSUME NEW c \in Cabins, NEW new \in Cabin, UpdateCabin(c, new)
      PROVE  TypeOK'
  BY <1>2 DEF TypeOK, UpdateCabin
<1>3. ASSUME NEW o \in Orders, NEW ok \in BOOLEAN, NEW new \in Order,
             UpdateMaintenanceOrder(o, ok, new)
      PROVE  TypeOK'
  BY <1>1, <1>3 DEF TypeOK, UpdateMaintenanceOrder
<1>4. ASSUME NEW o \in Orders, NEW ok \in BOOLEAN, NEW cabinOK \in BOOLEAN,
             NEW new \in Order, NEW newCabin,
             Registered(orders[o].cabin) => newCabin \in Cabin,
             UpdateOrderAndCabin(o, ok, new, cabinOK, newCabin)
      PROVE  TypeOK'
  <2>1. CASE Fail
    BY <1>1, <2>1
  <2>2. CASE ~Fail
    <3>1. /\ orders' = [orders EXCEPT ![o] = new]
          /\ \/ cabins' = [cabins EXCEPT ![orders[o].cabin] = newCabin]
             \/ cabins' = cabins
          /\ orders[o].cabin \in Cabins /\ newCabin \in Cabin
          /\ reply' \in {"ok", "error"}
          /\ UNCHANGED <<reporting, received>>
      BY <1>4, <2>2 DEF UpdateOrderAndCabin, Registered
    <3>2. QED
      BY <3>1 DEF TypeOK
  <2>3. QED
    BY <2>1, <2>2
<1>5. QED
  BY <1>1, <1>2, <1>3, <1>4

LEMMA TypeInit == Init => TypeOK
<1>1. AbsentCabin \in Cabin
  BY DEF AbsentCabin, Cabin
<1>2. QED
  BY <1>1, AbsentOrderType DEF Init, TypeOK

LEMMA TypeStep == TypeOK /\ [Next]_vars => TypeOK'
<1> SUFFICES ASSUME TypeOK, [Next]_vars
             PROVE  TypeOK'
  OBVIOUS
<1> USE DEF CabinOf
<1>0. /\ \A o \in Orders : orders[o] \in Order
      /\ \A c \in Cabins : cabins[c] \in Cabin
  BY DEF TypeOK
<1>1. ASSUME NEW c \in Cabins \cup {Blank}, NEW limit \in Limits,
             RegisterCabin(c, limit)
      PROVE  TypeOK'
  <2>1. NewCabin(limit) \in Cabin
    BY NewCabinType
  <2>2. QED
    BY <1>1, <2>1, StoreType DEF RegisterCabin
<1>2. ASSUME NEW c \in Cabins, NEW r \in Readings, SubmitReadings(c, r)
      PROVE  TypeOK'
  <2>1. ApplyReadings(cabins[c], r) \in Cabin
    BY <1>0, CabinMethodsType
  <2>2. QED
    BY <1>2, <2>1, StoreType DEF SubmitReadings
<1>3. ASSUME NEW c \in Cabins, NEW p \in Parties \cup {Blank}, BeginReport(c, p)
      PROVE  TypeOK'
  <2>1. CASE Fail
    BY <2>1, StoreType
  <2>2. CASE ~Fail
    BY <1>3, <2>2 DEF BeginReport, TypeOK
  <2>3. QED
    BY <2>1, <2>2
<1>4. ASSUME NEW c \in Cabins, ReportAlarm(c)
      PROVE  TypeOK'
  <2>1. PICK o \in Orders, new \in Order : orders' = [orders EXCEPT ![o] = new]
    <3>1. CASE \E o \in ActiveOrders(c) :
                 orders' = [orders EXCEPT ![o] = AddDuplicateReporter(orders[o])]
      BY <3>1, <1>0, OrderMethodsType DEF ActiveOrders
    <3>2. CASE \E o \in Orders : orders' = [orders EXCEPT ![o] = NewMaintenanceOrder(c)]
      BY <3>2, NewMaintenanceOrderType
    <3>3. QED
      BY <1>4, <3>1, <3>2 DEF ReportAlarm
  <2>2. /\ reporting' \in [Cabins -> Nat]
        /\ reply' \in {"duplicate", "created"}
        /\ UNCHANGED <<cabins, received>>
    BY <1>4 DEF ReportAlarm, TypeOK
  <2>3. QED
    BY <2>1, <2>2 DEF TypeOK
<1>5. ASSUME NEW o \in Orders, NEW d \in Parties \cup {Blank},
             NEW e \in Engineers \cup {Blank}, NEW b \in Engineers \cup {Blank},
             NEW late \in BOOLEAN, DispatchMaintenance(o, d, e, b, late)
      PROVE  TypeOK'
  <2>1. CASE Fail
    BY <2>1, StoreType
  <2>2. CASE ~Fail
    <3>1. d \in Parties
      BY <1>5, <2>2 DEF DispatchMaintenance
    <3>2. Dispatch(orders[o], d, e, b, late) \in Order
      BY <3>1, <1>0, OrderMethodsType
    <3>3. Registered(orders[o].cabin) => Lock(CabinOf(o), o) \in Cabin
      BY <1>0, CabinMethodsType DEF Registered
    <3>4. CanDispatch(orders[o]) \in BOOLEAN /\ CanLock(CabinOf(o), o) \in BOOLEAN
      BY DEF CanDispatch, CanLock
    <3>5. UpdateOrderAndCabin(o, CanDispatch(orders[o]), Dispatch(orders[o], d, e, b, late),
                              CanLock(CabinOf(o), o), Lock(CabinOf(o), o))
      BY <1>5, <2>2 DEF DispatchMaintenance
    <3>6. QED
      BY <3>2, <3>3, <3>4, <3>5, StoreType
  <2>3. QED
    BY <2>1, <2>2
<1>6. ASSUME NEW o \in Orders, NEW e \in Engineers \cup {Blank}, EngineerArrive(o, e)
      PROVE  TypeOK'
  <2>1. Arrive(orders[o]) \in Order
    BY <1>0, OrderMethodsType
  <2>2. Registered(orders[o].cabin) => StartMaintenance(CabinOf(o)) \in Cabin
    BY <1>0, CabinMethodsType DEF Registered
  <2>3. CanArrive(orders[o], e) \in BOOLEAN /\ CanStartMaintenance(CabinOf(o)) \in BOOLEAN
    BY DEF CanArrive, CanStartMaintenance
  <2>4. QED
    BY <1>6, <2>1, <2>2, <2>3, StoreType DEF EngineerArrive
<1>7. ASSUME NEW o \in Orders, NEW e \in Engineers \cup {Blank}, CompleteProcessing(o, e)
      PROVE  TypeOK'
  <2>1. Complete(orders[o]) \in Order
    BY <1>0, OrderMethodsType
  <2>2. CanComplete(orders[o], e) \in BOOLEAN
    BY DEF CanComplete
  <2>3. QED
    BY <1>7, <2>1, <2>2, StoreType DEF CompleteProcessing
<1>8. ASSUME NEW o \in Orders, NEW leader \in Parties \cup {Blank},
             NEW station \in Parties \cup {Blank}, AcceptMaintenance(o, leader, station)
      PROVE  TypeOK'
  <2>1. Accept(orders[o], leader, station) \in Order
    BY <1>0, OrderMethodsType
  <2>2. Registered(orders[o].cabin) => Unlock(CabinOf(o)) \in Cabin
    BY <1>0, CabinMethodsType DEF Registered
  <2>3. CanAccept(orders[o], leader, station) \in BOOLEAN
    BY DEF CanAccept
  <2>4. QED
    BY <1>8, <2>1, <2>2, <2>3, StoreType DEF AcceptMaintenance
<1>9. ASSUME NEW o \in Orders, TransferOrder(o)
      PROVE  TypeOK'
  <2>1. Transfer(orders[o]) \in Order
    BY <1>0, OrderMethodsType
  <2>2. CanTransfer(orders[o]) \in BOOLEAN
    BY DEF CanTransfer
  <2>3. QED
    BY <1>9, <2>1, <2>2, StoreType DEF TransferOrder
<1>10. CASE UNCHANGED vars
  BY <1>10 DEF vars, TypeOK
<1>11. QED
  BY <1>1, <1>2, <1>3, <1>4, <1>5, <1>6, <1>7, <1>8, <1>9, <1>10 DEF Next, Handlers

\* The records and the ghost counters keep their types on every path of every
\* handler, refused calls and half-done ones included.
THEOREM TypeCorrect == Spec => []TypeOK
<1>1. QED
  BY TypeInit, TypeStep, PTL DEF Spec

------------------------------------------------------------------------------
(* The cabin and its order stay in step *)

IInv == TypeOK /\ OneActiveOrderPerCabin /\ CabinFollowsOrder /\ OrderHasCabin

LEMMA HolderStatusesDef ==
  /\ DOMAIN HolderStatuses = {"locked", "under_maintenance"}
  /\ HolderStatuses["locked"] = {"dispatched", "assigned"}
  /\ HolderStatuses["under_maintenance"] = {"processing", "pending_acceptance"}
BY DEF HolderStatuses

\* What the invariant says of one order and of one cabin, without the table.
LEMMA InStep ==
  ASSUME IInv
  PROVE  /\ \A o \in Orders :
              /\ orders[o] \in Order
              /\ Stored(o) => CabinOf(o) \in Cabin /\ Registered(orders[o].cabin)
              /\ orders[o].status \in {"dispatched", "assigned"} =>
                   CabinOf(o).status = "locked" /\ CabinOf(o).lockOrder = o
              /\ orders[o].status \in {"processing", "pending_acceptance"} =>
                   CabinOf(o).status = "under_maintenance" /\ CabinOf(o).lockOrder = o
         /\ \A c \in Cabins :
              /\ cabins[c] \in Cabin
              /\ cabins[c].status \in {"locked", "under_maintenance"} =>
                   /\ cabins[c].lockOrder \in Orders
                   /\ orders[cabins[c].lockOrder].cabin = c
                   /\ orders[cabins[c].lockOrder].status \in
                        {"dispatched", "assigned", "processing", "pending_acceptance"}
              /\ cabins[c].status \notin {"locked", "under_maintenance"} =>
                   cabins[c].lockOrder = Blank
<1>1. /\ \A o \in Orders : orders[o] \in Order
      /\ \A c \in Cabins : cabins[c] \in Cabin
  BY DEF IInv, TypeOK
<1>2. ASSUME NEW o \in Orders, Stored(o)
      PROVE  CabinOf(o) \in Cabin /\ Registered(orders[o].cabin)
  BY <1>1, <1>2 DEF IInv, OrderHasCabin, Registered, CabinOf
<1>3. ASSUME NEW o \in Orders
      PROVE  /\ orders[o].status \in {"dispatched", "assigned"} =>
                  CabinOf(o).status = "locked" /\ CabinOf(o).lockOrder = o
             /\ orders[o].status \in {"processing", "pending_acceptance"} =>
                  CabinOf(o).status = "under_maintenance" /\ CabinOf(o).lockOrder = o
  BY HolderStatusesDef DEF IInv, CabinFollowsOrder
<1>4. ASSUME NEW c \in Cabins, cabins[c].status \in {"locked", "under_maintenance"}
      PROVE  /\ cabins[c].lockOrder \in Orders
             /\ orders[cabins[c].lockOrder].cabin = c
             /\ orders[cabins[c].lockOrder].status \in
                  {"dispatched", "assigned", "processing", "pending_acceptance"}
  BY <1>4, HolderStatusesDef DEF IInv, CabinFollowsOrder
<1>5. ASSUME NEW c \in Cabins, cabins[c].status \notin {"locked", "under_maintenance"}
      PROVE  cabins[c].lockOrder = Blank
  BY <1>5, HolderStatusesDef DEF IInv, CabinFollowsOrder
<1>6. QED
  BY <1>1, <1>2, <1>3, <1>4, <1>5

\* How a cabin and the order that is open for it stand to each other.
InAgreement(m, k, o) ==
  \/ m.status \in {"dispatched", "assigned"} /\ k.status = "locked" /\ k.lockOrder = o
  \/ /\ m.status \in {"processing", "pending_acceptance"}
     /\ k.status = "under_maintenance" /\ k.lockOrder = o
  \/ m.status \in {"reported", "closed"} /\ k.status \in {"normal", "alarm"} /\ k.lockOrder = Blank

\* An open order is the only open one of its cabin, and agrees with it.
LEMMA OpenOrderAgrees ==
  ASSUME IInv, NEW o \in Orders, orders[o].status \notin {"absent", "closed"}
  PROVE  /\ orders[o].cabin \in Cabins
         /\ InAgreement(orders[o], CabinOf(o), o)
         /\ \A x \in Orders \ {o} :
              orders[x].cabin = orders[o].cabin => orders[x].status \in {"absent", "closed"}
<1> DEFINE c == orders[o].cabin
           h == cabins[c].lockOrder
<1>1. Registered(c) /\ cabins[c] \in Cabin /\ orders[o] \in Order
  BY InStep DEF Stored, CabinOf
<1>2. \A x \in Orders \ {o} : orders[x].cabin = c => orders[x].status \in {"absent", "closed"}
  BY DEF IInv, OneActiveOrderPerCabin
<1>3. CASE orders[o].status = "reported"
  <2>1. cabins[c].status \notin {"locked", "under_maintenance"}
    BY <1>1, <1>2, <1>3, InStep DEF Registered
  <2>2. cabins[c].status \in {"normal", "alarm"}
    BY <1>1, <2>1 DEF Registered, Cabin
  <2>3. cabins[c].lockOrder = Blank
    BY <1>1, <2>1, InStep DEF Registered
  <2>4. QED
    BY <1>1, <1>2, <1>3, <2>2, <2>3 DEF InAgreement, CabinOf, Registered
<1>4. CASE orders[o].status # "reported"
  BY <1>1, <1>2, <1>4, InStep DEF InAgreement, Registered, Order
<1>5. QED
  BY <1>3, <1>4

\* The cabin leg of UpdateOrderAndCabin never refuses what the order leg allowed:
\* a cabin that could refuse is held by an open order, and the order being
\* dispatched, open too, would be a second one (Service.DispatchMaintenance).
LEMMA CabinNeverRefuses ==
  ASSUME IInv, NEW o \in Orders
  PROVE  /\ CanDispatch(orders[o]) => CanLock(CabinOf(o), o)
         /\ \A e : CanArrive(orders[o], e) => CanStartMaintenance(CabinOf(o))
<1>1. ASSUME CanDispatch(orders[o])
      PROVE  CanLock(CabinOf(o), o)
  BY <1>1, OpenOrderAgrees DEF CanDispatch, InAgreement, CanLock
<1>2. ASSUME NEW e, CanArrive(orders[o], e)
      PROVE  CanStartMaintenance(CabinOf(o))
  BY <1>2, InStep DEF CanArrive, CanStartMaintenance
<1>3. QED
  BY <1>1, <1>2

\* Only order o and its cabin c move, o is the one order of c that is not closed,
\* and the two agree afterwards: then everybody does.
LEMMA OneOrderMoves ==
  ASSUME IInv, TypeOK', NEW o \in Orders, NEW c \in Cabins,
         \A x \in Orders \ {o} : orders'[x] = orders[x],
         \A y \in Cabins \ {c} : cabins'[y] = cabins[y],
         \A x \in Orders \ {o} : orders[x].cabin = c => orders[x].status \in {"absent", "closed"},
         Stored(o) => orders[o].cabin = c,
         orders'[o].cabin = c,
         InAgreement(orders'[o], cabins'[c], o),
         \A y \in Cabins : reporting'[y] > 0 => y = c \/ reporting[y] > 0
  PROVE  IInv'
<1> USE HolderStatusesDef
<1>1. OneActiveOrderPerCabin'
  <2>1. ASSUME NEW x1 \in Orders, NEW x2 \in Orders,
               {orders'[x1].status, orders'[x2].status} \cap {"absent", "closed"} = {},
               orders'[x1].cabin = orders'[x2].cabin
        PROVE  x1 = x2
    <3>1. orders'[x1].status \notin {"absent", "closed"}
          /\ orders'[x2].status \notin {"absent", "closed"}
      BY <2>1
    <3>2. CASE x1 = o \/ x2 = o
      BY <2>1, <3>1, <3>2
    <3>3. CASE x1 # o /\ x2 # o
      BY <2>1, <3>3 DEF IInv, OneActiveOrderPerCabin
    <3>4. QED
      BY <3>2, <3>3
  <2>2. QED
    BY <2>1 DEF OneActiveOrderPerCabin
<1>2. OrderHasCabin'
  <2>1. Registered(c)'
    BY DEF InAgreement, Registered
  <2>2. \A y \in Cabins : Registered(y) => Registered(y)'
    BY <2>1 DEF Registered
  <2>3. ASSUME NEW x \in Orders, Stored(x)'
        PROVE  Registered(orders[x].cabin)'
    <3>1. CASE x = o
      BY <3>1, <2>1
    <3>2. CASE x # o
      <4>1. Stored(x)
        BY <2>3, <3>2 DEF Stored
      <4>2. Registered(orders[x].cabin)
        BY <4>1 DEF IInv, OrderHasCabin
      <4>3. QED
        BY <3>2, <4>2, <2>2 DEF Registered
    <3>3. QED
      BY <3>1, <3>2
  <2>4. ASSUME NEW y \in Cabins, reporting'[y] > 0
        PROVE  Registered(y)'
    BY <2>1, <2>2, <2>4 DEF IInv, OrderHasCabin
  <2>5. QED
    BY <2>3, <2>4 DEF OrderHasCabin
<1>3. ASSUME NEW x \in Orders, NEW s \in DOMAIN HolderStatuses,
             orders'[x].status \in HolderStatuses[s]
      PROVE  cabins'[orders'[x].cabin].status = s /\ cabins'[orders'[x].cabin].lockOrder = x
  <2>1. CASE x = o
    BY <1>3, <2>1 DEF InAgreement
  <2>2. CASE x # o
    <3>1. orders'[x] = orders[x] /\ orders[x].cabin # c
      BY <1>3, <2>2
    <3>2. Stored(x)
      BY <1>3, <3>1 DEF Stored
    <3>3. orders[x].cabin \in Cabins
      BY <3>2, InStep DEF Registered
    <3>4. CabinOf(x).status = s /\ CabinOf(x).lockOrder = x
      BY <1>3, <3>1 DEF IInv, CabinFollowsOrder
    <3>5. QED
      BY <3>1, <3>3, <3>4 DEF CabinOf
  <2>3. QED
    BY <2>1, <2>2
<1>4. ASSUME NEW y \in Cabins
      PROVE  IF cabins'[y].status \in DOMAIN HolderStatuses
             THEN \E x \in Orders :
                    /\ cabins'[y].lockOrder = x
                    /\ orders'[x].cabin = y
                    /\ orders'[x].status \in HolderStatuses[cabins'[y].status]
             ELSE cabins'[y].lockOrder = Blank
  <2>1. CASE y = c
    BY <2>1 DEF InAgreement
  <2>2. CASE y # c /\ cabins[y].status \in DOMAIN HolderStatuses
    <3>1. PICK x \in Orders : /\ cabins[y].lockOrder = x
                              /\ orders[x].cabin = y
                              /\ orders[x].status \in HolderStatuses[cabins[y].status]
      BY <2>2 DEF IInv, CabinFollowsOrder
    <3>2. x # o
      BY <2>2, <3>1 DEF Stored
    <3>3. QED
      BY <2>2, <3>1, <3>2
  <2>3. CASE y # c /\ cabins[y].status \notin DOMAIN HolderStatuses
    BY <2>3 DEF IInv, CabinFollowsOrder
  <2>4. QED
    BY <2>1, <2>2, <2>3
<1>5. CabinFollowsOrder'
  BY <1>3, <1>4 DEF CabinFollowsOrder, CabinOf
<1>6. QED
  BY <1>1, <1>2, <1>5 DEF IInv

\* Only cabin c moves, and nobody holds it before or after.
LEMMA FreeCabinMoves ==
  ASSUME IInv, TypeOK', NEW c \in Cabins, UNCHANGED <<orders, reporting>>,
         \A y \in Cabins \ {c} : cabins'[y] = cabins[y],
         \/ /\ cabins'[c].status = cabins[c].status
            /\ cabins'[c].lockOrder = cabins[c].lockOrder
         \/ /\ cabins[c].status \notin {"locked", "under_maintenance"}
            /\ cabins'[c].status \in {"normal", "alarm"}
            /\ cabins'[c].lockOrder = Blank
  PROVE  IInv'
<1> USE HolderStatusesDef
<1>1. OneActiveOrderPerCabin'
  BY DEF IInv, OneActiveOrderPerCabin
<1>2. \A y \in Cabins : Registered(y) => Registered(y)'
  BY DEF Registered
<1>3. OrderHasCabin'
  <2>1. ASSUME NEW x \in Orders, Stored(x)'
        PROVE  Registered(orders[x].cabin)'
    <3>1. Registered(orders[x].cabin)
      BY <2>1 DEF IInv, OrderHasCabin, Stored
    <3>2. QED
      BY <3>1, <1>2 DEF Registered
  <2>2. QED
    BY <2>1, <1>2 DEF IInv, OrderHasCabin
<1>4. ASSUME NEW x \in Orders, NEW s \in DOMAIN HolderStatuses,
             orders'[x].status \in HolderStatuses[s]
      PROVE  cabins'[orders'[x].cabin].status = s /\ cabins'[orders'[x].cabin].lockOrder = x
  <2>1. CabinOf(x).status = s /\ CabinOf(x).lockOrder = x
    BY <1>4 DEF IInv, CabinFollowsOrder
  <2>2. Stored(x)
    BY <1>4 DEF Stored
  <2>3. orders[x].cabin \in Cabins
    BY <2>2, InStep DEF Registered
  <2>4. QED
    BY <2>1, <2>3 DEF CabinOf
<1>5. ASSUME NEW y \in Cabins
      PROVE  IF cabins'[y].status \in DOMAIN HolderStatuses
             THEN \E x \in Orders :
                    /\ cabins'[y].lockOrder = x
                    /\ orders'[x].cabin = y
                    /\ orders'[x].status \in HolderStatuses[cabins'[y].status]
             ELSE cabins'[y].lockOrder = Blank
  <2>1. IF cabins[y].status \in DOMAIN HolderStatuses
        THEN \E x \in Orders :
               /\ cabins[y].lockOrder = x
               /\ orders[x].cabin = y
               /\ orders[x].status \in HolderStatuses[cabins[y].status]
        ELSE cabins[y].lockOrder = Blank
    BY DEF IInv, CabinFollowsOrder
  <2>2. QED
    BY <2>1
<1>6. CabinFollowsOrder'
  BY <1>4, <1>5 DEF CabinFollowsOrder, CabinOf
<1>7. QED
  BY <1>1, <1>3, <1>6 DEF IInv

LEMMA NothingMoves ==
  ASSUME IInv, TypeOK', UNCHANGED <<cabins, orders, reporting>>
  PROVE  IInv'
BY DEF IInv, OneActiveOrderPerCabin, CabinFollowsOrder, OrderHasCabin, CabinOf, Stored,
       Registered

\* Both legs of a successful UpdateOrderAndCabin, or nothing at all.
LEMMA BothLegsMove ==
  ASSUME IInv, TypeOK', NEW o \in Orders, NEW ok, NEW new, NEW cabinOK, NEW newCabin,
         UpdateOrderAndCabin(o, ok, new, cabinOK, newCabin),
         ok => /\ cabinOK
               /\ orders[o].status \notin {"absent", "closed"}
               /\ new.cabin = orders[o].cabin
               /\ InAgreement(new, newCabin, o)
  PROVE  IInv'
<1> DEFINE c == orders[o].cabin
<1>1. CASE Fail
  BY <1>1, NothingMoves DEF Fail
<1>2. CASE ~Fail
  <2>1. ok /\ Registered(c) /\ c \in Cabins
    BY <1>2 DEF UpdateOrderAndCabin, Registered
  <2>2. orders' = [orders EXCEPT ![o] = new] /\ cabins' = [cabins EXCEPT ![c] = newCabin]
        /\ UNCHANGED reporting
    BY <1>2, <2>1 DEF UpdateOrderAndCabin
  <2>3. cabins \in [Cabins -> Cabin] /\ orders \in [Orders -> Order]
    BY DEF IInv, TypeOK
  <2>4. orders'[o] = new /\ cabins'[c] = newCabin
        /\ (\A x \in Orders \ {o} : orders'[x] = orders[x])
        /\ (\A y \in Cabins \ {c} : cabins'[y] = cabins[y])
    BY <2>1, <2>2, <2>3
  <2>5. \A x \in Orders \ {o} : orders[x].cabin = c => orders[x].status \in {"absent", "closed"}
    BY <2>1, OpenOrderAgrees
  <2>6. /\ orders'[o].cabin = c
        /\ InAgreement(orders'[o], cabins'[c], o)
        /\ \A y \in Cabins : reporting'[y] > 0 => y = c \/ reporting[y] > 0
    BY <2>1, <2>2, <2>4
  <2>7. QED
    BY <2>1, <2>4, <2>5, <2>6, OneOrderMoves
<1>3. QED
  BY <1>1, <1>2

\* A successful UpdateMaintenanceOrder, whose cabin stays as it is, or nothing.
LEMMA OrderLegMoves ==
  ASSUME IInv, TypeOK', NEW o \in Orders, NEW ok, NEW new,
         UpdateMaintenanceOrder(o, ok, new),
         ok => /\ orders[o].status \notin {"absent", "closed"}
               /\ new.cabin = orders[o].cabin
               /\ InAgreement(new, CabinOf(o), o)
  PROVE  IInv'
<1> DEFINE c == orders[o].cabin
<1>1. CASE Fail
  BY <1>1, NothingMoves DEF Fail
<1>2. CASE ~Fail
  <2>1. ok
    BY <1>2 DEF UpdateMaintenanceOrder
  <2>2. orders' = [orders EXCEPT ![o] = new] /\ UNCHANGED <<cabins, reporting>>
    BY <1>2 DEF UpdateMaintenanceOrder
  <2>3. orders \in [Orders -> Order]
    BY DEF IInv, TypeOK
  <2>4. orders'[o] = new
        /\ (\A x \in Orders \ {o} : orders'[x] = orders[x])
        /\ (\A y \in Cabins \ {c} : cabins'[y] = cabins[y])
    BY <2>2, <2>3
  <2>5. c \in Cabins
        /\ \A x \in Orders \ {o} : orders[x].cabin = c => orders[x].status \in {"absent", "closed"}
    BY <2>1, OpenOrderAgrees
  <2>6. /\ orders'[o].cabin = c
        /\ InAgreement(orders'[o], cabins'[c], o)
        /\ \A y \in Cabins : reporting'[y] > 0 => y = c \/ reporting[y] > 0
    BY <2>1, <2>2, <2>4 DEF CabinOf
  <2>7. QED
    BY <2>4, <2>5, <2>6, OneOrderMoves
<1>3. QED
  BY <1>1, <1>2

LEMMA ReportKeepsInStep ==
  ASSUME IInv, TypeOK', NEW c \in Cabins, ReportAlarm(c)
  PROVE  IInv'
<1>1. orders \in [Orders -> Order] /\ reporting \in [Cabins -> Nat]
  BY DEF IInv, TypeOK
<1>2. /\ UNCHANGED cabins
      /\ Registered(c)
      /\ \A y \in Cabins : reporting'[y] > 0 => y = c \/ reporting[y] > 0
  BY <1>1 DEF ReportAlarm, IInv, OrderHasCabin
<1>3. ASSUME NEW o \in ActiveOrders(c),
             orders' = [orders EXCEPT ![o] = AddDuplicateReporter(orders[o])]
      PROVE  IInv'
  <2>1. /\ o \in Orders /\ orders[o].cabin = c
        /\ orders[o].status \notin {"absent", "closed"}
        /\ orders[o] \in Order
    BY <1>1 DEF ActiveOrders, IsActive
  <2>2. /\ \A x \in Orders \ {o} : orders'[x] = orders[x]
        /\ orders'[o].cabin = c
        /\ orders'[o].status = orders[o].status
    BY <1>1, <1>3, <2>1 DEF AddDuplicateReporter, Order
  <2>3. InAgreement(orders'[o], cabins'[c], o)
    BY <1>2, <2>1, <2>2, OpenOrderAgrees DEF InAgreement, CabinOf
  <2>4. \A x \in Orders \ {o} : orders[x].cabin = c => orders[x].status \in {"absent", "closed"}
    BY <2>1, OpenOrderAgrees
  <2>5. QED
    BY <1>2, <2>1, <2>2, <2>3, <2>4, OneOrderMoves
<1>4. ASSUME NEW o \in Orders, ActiveOrders(c) = {}, ~Stored(o),
             orders' = [orders EXCEPT ![o] = NewMaintenanceOrder(c)]
      PROVE  IInv'
  <2>1. /\ \A x \in Orders \ {o} : orders'[x] = orders[x]
        /\ orders'[o].cabin = c
        /\ orders'[o].status = "reported"
    BY <1>1, <1>4 DEF NewMaintenanceOrder, AbsentOrder
  <2>2. \A x \in Orders : orders[x].cabin = c => orders[x].status \in {"absent", "closed"}
    BY <1>4 DEF ActiveOrders, IsActive
  <2>3. cabins[c].status \notin {"locked", "under_maintenance"}
    BY <2>2, InStep
  <2>4. cabins[c].status \in {"normal", "alarm"} /\ cabins[c].lockOrder = Blank
    BY <1>2, <2>3, InStep DEF Registered, Cabin
  <2>5. InAgreement(orders'[o], cabins'[c], o)
    BY <1>2, <2>1, <2>4 DEF InAgreement
  <2>6. QED
    BY <1>2, <1>4, <2>1, <2>2, <2>5, OneOrderMoves
<1>5. QED
  BY <1>3, <1>4 DEF ReportAlarm, ActiveOrders

LEMMA IInvStep == IInv /\ [Next]_vars => IInv'
<1> SUFFICES ASSUME IInv, [Next]_vars
             PROVE  IInv'
  OBVIOUS
<1> USE DEF CabinOf
<1>0. TypeOK' /\ \A o \in Orders : orders[o] \in Order
  BY TypeStep DEF IInv, TypeOK
<1>1. ASSUME NEW c \in Cabins \cup {Blank}, NEW limit \in Limits,
             RegisterCabin(c, limit)
      PROVE  IInv'
  <2>1. CASE Fail
    BY <1>0, <2>1, NothingMoves DEF Fail
  <2>2. CASE ~Fail
    <3>1. /\ c \in Cabins
          /\ cabins[c].status = "absent"
          /\ cabins' = [cabins EXCEPT ![c] = NewCabin(limit)]
          /\ UNCHANGED <<orders, reporting>>
      BY <1>1, <2>2 DEF RegisterCabin, UpdateCabin, Registered
    <3>2. cabins \in [Cabins -> Cabin]
      BY DEF IInv, TypeOK
    <3>3. /\ cabins'[c].status = "normal" /\ cabins'[c].lockOrder = Blank
          /\ \A y \in Cabins \ {c} : cabins'[y] = cabins[y]
      BY <3>1, <3>2 DEF NewCabin
    <3>4. QED
      BY <1>0, <3>1, <3>3, FreeCabinMoves
  <2>3. QED
    BY <2>1, <2>2
<1>2. ASSUME NEW c \in Cabins, NEW r \in Readings, SubmitReadings(c, r)
      PROVE  IInv'
  <2>1. CASE Fail
    BY <1>0, <2>1, NothingMoves DEF Fail
  <2>2. CASE ~Fail
    <3>1. cabins \in [Cabins -> Cabin] /\ cabins[c] \in Cabin
      BY DEF IInv, TypeOK
    <3>2. /\ cabins' = [cabins EXCEPT ![c] = ApplyReadings(cabins[c], r)]
          /\ UNCHANGED <<orders, reporting>>
      BY <1>2, <2>2 DEF SubmitReadings, UpdateCabin
    <3>3. /\ cabins'[c] = ApplyReadings(cabins[c], r)
          /\ \A y \in Cabins \ {c} : cabins'[y] = cabins[y]
      BY <3>1, <3>2
    <3>4. /\ cabins'[c].lockOrder = cabins[c].lockOrder
          /\ \/ cabins'[c].status = cabins[c].status
             \/ cabins[c].status = "normal" /\ cabins'[c].status = "alarm"
      BY <3>1, <3>3 DEF ApplyReadings, Cabin
    <3>5. cabins[c].status = "normal" => cabins[c].lockOrder = Blank
      BY InStep
    <3>6. QED
      BY <1>0, <3>2, <3>3, <3>4, <3>5, FreeCabinMoves
  <2>3. QED
    BY <2>1, <2>2
<1>3. ASSUME NEW c \in Cabins, NEW p \in Parties \cup {Blank}, BeginReport(c, p)
      PROVE  IInv'
  <2>1. CASE Fail
    BY <1>0, <2>1, NothingMoves DEF Fail
  <2>2. CASE ~Fail
    <3>1. Registered(c) /\ UNCHANGED <<cabins, orders>>
      BY <1>3, <2>2 DEF BeginReport, CanReport
    <3>2. \A y \in Cabins : reporting'[y] > 0 => y = c \/ reporting[y] > 0
      BY <1>3, <2>2 DEF BeginReport, IInv, TypeOK
    <3>3. QED
      BY <1>0, <3>1, <3>2 DEF IInv, OneActiveOrderPerCabin, CabinFollowsOrder,
                              OrderHasCabin, Stored, Registered
  <2>3. QED
    BY <2>1, <2>2
<1>4. ASSUME NEW c \in Cabins, ReportAlarm(c)
      PROVE  IInv'
  BY <1>0, <1>4, ReportKeepsInStep
<1>5. ASSUME NEW o \in Orders, NEW d \in Parties \cup {Blank},
             NEW e \in Engineers \cup {Blank}, NEW b \in Engineers \cup {Blank},
             NEW late \in BOOLEAN, DispatchMaintenance(o, d, e, b, late)
      PROVE  IInv'
  <2>1. CASE Fail
    BY <1>0, <2>1, NothingMoves DEF Fail
  <2>2. CASE ~Fail
    <3> DEFINE new == Dispatch(orders[o], d, e, b, late)
               k == Lock(CabinOf(o), o)
    <3>1. UpdateOrderAndCabin(o, CanDispatch(orders[o]), new, CanLock(CabinOf(o), o), k)
      BY <1>5, <2>2 DEF DispatchMaintenance
    <3>2. ASSUME CanDispatch(orders[o])
          PROVE  /\ orders[o].status \notin {"absent", "closed"}
                 /\ new.cabin = orders[o].cabin
                 /\ InAgreement(new, k, o)
      <4>1. CabinOf(o) \in Cabin /\ orders[o].status = "reported"
        BY <3>2, InStep DEF CanDispatch, Stored
      <4>2. new.status = "dispatched" /\ new.cabin = orders[o].cabin
        BY <1>0 DEF Dispatch, Order
      <4>3. k.status = "locked" /\ k.lockOrder = o
        BY <4>1 DEF Lock, Cabin
      <4>4. QED
        BY <4>1, <4>2, <4>3 DEF InAgreement
    <3>3. CanDispatch(orders[o]) => CanLock(CabinOf(o), o)
      BY CabinNeverRefuses
    <3> HIDE DEF new, k, CabinOf
    <3>4. QED
      BY <1>0, <3>1, <3>2, <3>3, BothLegsMove
  <2>3. QED
    BY <2>1, <2>2
<1>6. ASSUME NEW o \in Orders, NEW e \in Engineers \cup {Blank}, EngineerArrive(o, e)
      PROVE  IInv'
  <2> DEFINE new == Arrive(orders[o])
             k == StartMaintenance(CabinOf(o))
  <2>1. UpdateOrderAndCabin(o, CanArrive(orders[o], e), new, CanStartMaintenance(CabinOf(o)), k)
    BY <1>6 DEF EngineerArrive
  <2>2. ASSUME CanArrive(orders[o], e)
        PROVE  /\ orders[o].status \notin {"absent", "closed"}
               /\ new.cabin = orders[o].cabin
               /\ InAgreement(new, k, o)
    <3>1. CabinOf(o) \in Cabin /\ CabinOf(o).lockOrder = o
          /\ orders[o].status \in {"dispatched", "assigned"}
      BY <2>2, InStep DEF CanArrive, Stored
    <3>2. new.status = "processing" /\ new.cabin = orders[o].cabin
      BY <1>0 DEF Arrive, Order
    <3>3. k.status = "under_maintenance" /\ k.lockOrder = o
      BY <3>1 DEF StartMaintenance, Cabin
    <3>4. QED
      BY <3>1, <3>2, <3>3 DEF InAgreement
  <2>3. CanArrive(orders[o], e) => CanStartMaintenance(CabinOf(o))
    BY CabinNeverRefuses
  <2> HIDE DEF new, k, CabinOf
  <2>4. QED
    BY <1>0, <2>1, <2>2, <2>3, BothLegsMove
<1>7. ASSUME NEW o \in Orders, NEW e \in Engineers \cup {Blank}, CompleteProcessing(o, e)
      PROVE  IInv'
  <2> DEFINE new == Complete(orders[o])
  <2>1. UpdateMaintenanceOrder(o, CanComplete(orders[o], e), new)
    BY <1>7 DEF CompleteProcessing
  <2>2. ASSUME CanComplete(orders[o], e)
        PROVE  /\ orders[o].status \notin {"absent", "closed"}
               /\ new.cabin = orders[o].cabin
               /\ InAgreement(new, CabinOf(o), o)
    <3>1. new.status = "pending_acceptance" /\ new.cabin = orders[o].cabin
      BY <1>0 DEF Complete, Order
    <3>2. QED
      BY <2>2, <3>1, InStep DEF CanComplete, InAgreement
  <2> HIDE DEF new, CabinOf
  <2>3. QED
    BY <1>0, <2>1, <2>2, OrderLegMoves
<1>8. ASSUME NEW o \in Orders, NEW leader \in Parties \cup {Blank},
             NEW station \in Parties \cup {Blank}, AcceptMaintenance(o, leader, station)
      PROVE  IInv'
  <2> DEFINE new == Accept(orders[o], leader, station)
             k == Unlock(CabinOf(o))
  <2>1. UpdateOrderAndCabin(o, CanAccept(orders[o], leader, station), new, TRUE, k)
    BY <1>8 DEF AcceptMaintenance
  <2>2. ASSUME CanAccept(orders[o], leader, station)
        PROVE  /\ orders[o].status \notin {"absent", "closed"}
               /\ new.cabin = orders[o].cabin
               /\ InAgreement(new, k, o)
    <3>1. CabinOf(o) \in Cabin /\ orders[o].status = "pending_acceptance"
      BY <2>2, InStep DEF CanAccept, Stored
    <3>2. new.status = "closed" /\ new.cabin = orders[o].cabin
      BY <1>0 DEF Accept, Order
    <3>3. k.status = "normal" /\ k.lockOrder = Blank
      BY <3>1 DEF Unlock, Cabin
    <3>4. QED
      BY <3>1, <3>2, <3>3 DEF InAgreement
  <2> HIDE DEF new, k, CabinOf
  <2>3. QED
    BY <1>0, <2>1, <2>2, BothLegsMove
<1>9. ASSUME NEW o \in Orders, TransferOrder(o)
      PROVE  IInv'
  <2> DEFINE new == Transfer(orders[o])
  <2>1. UpdateMaintenanceOrder(o, CanTransfer(orders[o]), new)
    BY <1>9 DEF TransferOrder
  <2>2. ASSUME CanTransfer(orders[o])
        PROVE  /\ orders[o].status \notin {"absent", "closed"}
               /\ new.cabin = orders[o].cabin
               /\ InAgreement(new, CabinOf(o), o)
    <3>1. new.status = "assigned" /\ new.cabin = orders[o].cabin
      BY <1>0 DEF Transfer, Order
    <3>2. QED
      BY <2>2, <3>1, InStep DEF CanTransfer, InAgreement
  <2> HIDE DEF new, CabinOf
  <2>3. QED
    BY <1>0, <2>1, <2>2, OrderLegMoves
<1>10. CASE UNCHANGED vars
  BY <1>0, <1>10, NothingMoves DEF vars
<1>11. QED
  BY <1>1, <1>2, <1>3, <1>4, <1>5, <1>6, <1>7, <1>8, <1>9, <1>10 DEF Next, Handlers

LEMMA IInvInit == Init => IInv
<1> SUFFICES ASSUME Init
             PROVE  IInv
  OBVIOUS
<1>1. /\ \A o \in Orders : orders[o].status = "absent"
      /\ \A c \in Cabins : cabins[c].status = "absent" /\ cabins[c].lockOrder = Blank
      /\ \A c \in Cabins : reporting[c] = 0
  BY DEF Init, AbsentOrder, AbsentCabin
<1>2. OneActiveOrderPerCabin
  BY <1>1 DEF OneActiveOrderPerCabin
<1>3. OrderHasCabin
  BY <1>1 DEF OrderHasCabin, Stored
<1>4. CabinFollowsOrder
  BY <1>1, HolderStatusesDef DEF CabinFollowsOrder
<1>5. QED
  BY <1>2, <1>3, <1>4, TypeInit DEF IInv

LEMMA Invariance == Spec => []IInv
<1>1. QED
  BY IInvInit, IInvStep, PTL DEF Spec

\* However reports interleave, no cabin has two open orders (Store.ReportAlarm).
THEOREM OneOpenOrder == Spec => []OneActiveOrderPerCabin
<1>1. IInv => OneActiveOrderPerCabin
  BY DEF IInv
<1>2. QED
  BY <1>1, Invariance, PTL

\* A cabin is held by precisely the order that is out with an engineer
\* (Store.UpdateOrderAndCabin).
THEOREM CabinInStep == Spec => []CabinFollowsOrder
<1>1. IInv => CabinFollowsOrder
  BY DEF IInv
<1>2. QED
  BY <1>1, Invariance, PTL

\* No order is written for a cabin that is not registered, although the check
\* and the write are two critical sections (Service.ReportAlarm).
THEOREM OrdersHaveCabins == Spec => []OrderHasCabin
<1>1. IInv => OrderHasCabin
  BY DEF IInv
<1>2. QED
  BY <1>1, Invariance, PTL

------------------------------------------------------------------------------
(* What a step may never do *)

\* A refusal changes nothing, because the leg of UpdateOrderAndCabin that would
\* have to be undone never refuses (Service.DispatchMaintenance, EngineerArrive).
THEOREM RefusalsChangeNothing == Spec => FailedCallChangesNothing
<1>1. ASSUME IInv, [Next]_vars
      PROVE  [reply' = "error" => UNCHANGED <<cabins, orders>>]_vars
  <2> USE DEF Fail, UpdateCabin, UpdateMaintenanceOrder, UpdateOrderAndCabin
  <2> SUFFICES ASSUME Next, reply' = "error"
               PROVE  UNCHANGED <<cabins, orders>>
    BY <1>1
  <2>1. ASSUME NEW c \in Cabins \cup {Blank}, NEW limit \in Limits,
               RegisterCabin(c, limit)
        PROVE  UNCHANGED <<cabins, orders>>
    BY <2>1 DEF RegisterCabin
  <2>2. ASSUME NEW c \in Cabins, NEW r \in Readings, SubmitReadings(c, r)
        PROVE  UNCHANGED <<cabins, orders>>
    BY <2>2 DEF SubmitReadings
  <2>3. ASSUME NEW c \in Cabins, NEW p \in Parties \cup {Blank}, BeginReport(c, p)
        PROVE  UNCHANGED <<cabins, orders>>
    BY <2>3 DEF BeginReport
  <2>4. ASSUME NEW c \in Cabins, ReportAlarm(c)
        PROVE  FALSE
    BY <2>4 DEF ReportAlarm
  <2>5. ASSUME NEW o \in Orders, NEW d \in Parties \cup {Blank},
               NEW e \in Engineers \cup {Blank}, NEW b \in Engineers \cup {Blank},
               NEW late \in BOOLEAN, DispatchMaintenance(o, d, e, b, late)
        PROVE  UNCHANGED <<cabins, orders>>
    BY <1>1, <2>5, CabinNeverRefuses DEF DispatchMaintenance
  <2>6. ASSUME NEW o \in Orders, NEW e \in Engineers \cup {Blank}, EngineerArrive(o, e)
        PROVE  UNCHANGED <<cabins, orders>>
    BY <1>1, <2>6, CabinNeverRefuses DEF EngineerArrive
  <2>7. ASSUME NEW o \in Orders, NEW e \in Engineers \cup {Blank}, CompleteProcessing(o, e)
        PROVE  UNCHANGED <<cabins, orders>>
    BY <2>7 DEF CompleteProcessing
  <2>8. ASSUME NEW o \in Orders, NEW leader \in Parties \cup {Blank},
               NEW station \in Parties \cup {Blank}, AcceptMaintenance(o, leader, station)
        PROVE  UNCHANGED <<cabins, orders>>
    BY <2>8 DEF AcceptMaintenance
  <2>9. ASSUME NEW o \in Orders, TransferOrder(o)
        PROVE  UNCHANGED <<cabins, orders>>
    BY <2>9 DEF TransferOrder
  <2>10. QED
    BY <2>1, <2>2, <2>3, <2>4, <2>5, <2>6, <2>7, <2>8, <2>9 DEF Next, Handlers
<1>2. QED
  BY <1>1, Invariance, PTL DEF Spec, FailedCallChangesNothing

\* Everything a step can do to one cabin.  The last three take the order with it.
IsRegistered(c) ==
  cabins[c].status = "absent" /\ cabins'[c].status = "normal" /\ cabins'[c].lockOrder = Blank

IsMeasured(c) ==
  /\ cabins'[c].lockOrder = cabins[c].lockOrder
  /\ \/ cabins'[c].status = cabins[c].status
     \/ cabins[c].status = "normal" /\ cabins'[c].status = "alarm"

IsDispatched(c, o) ==
  /\ orders[o].status = "reported" /\ orders'[o].status = "dispatched"
  /\ cabins[c].lockOrder = Blank
  /\ cabins'[c].status = "locked" /\ cabins'[c].lockOrder = o

IsEntered(c) ==
  /\ cabins[c].status = "locked" /\ cabins'[c].status = "under_maintenance"
  /\ cabins'[c].lockOrder = cabins[c].lockOrder

IsReleased(c, o) ==
  /\ cabins[c].status = "under_maintenance" /\ cabins[c].lockOrder = o
  /\ cabins'[c].status = "normal"
  /\ orders[o].status = "pending_acceptance" /\ orders'[o].status = "closed"
  /\ orders'[o].leader # Blank /\ orders'[o].station # Blank

\* A cabin is moved only by the order that is open for it.
LEMMA CabinMoves ==
  ASSUME IInv, Next, NEW c \in Cabins, cabins'[c] # cabins[c]
  PROVE  \/ IsRegistered(c)
         \/ IsMeasured(c)
         \/ \E o \in Orders : IsDispatched(c, o)
         \/ IsEntered(c)
         \/ \E o \in Orders : IsReleased(c, o)
<1>0. /\ cabins \in [Cabins -> Cabin] /\ orders \in [Orders -> Order]
      /\ cabins[c] \in Cabin
      /\ \A o \in Orders : orders[o] \in Order
  BY DEF IInv, TypeOK
<1>1. ASSUME NEW x \in Cabins \cup {Blank}, NEW limit \in Limits, RegisterCabin(x, limit)
      PROVE  IsRegistered(c)
  <2>1. /\ x \in Cabins /\ cabins[x].status = "absent"
        /\ cabins' = [cabins EXCEPT ![x] = NewCabin(limit)]
    BY <1>1 DEF RegisterCabin, UpdateCabin, Fail, Registered
  <2>2. QED
    BY <1>0, <2>1 DEF NewCabin, IsRegistered
<1>2. ASSUME NEW x \in Cabins, NEW r \in Readings, SubmitReadings(x, r)
      PROVE  IsMeasured(c)
  <2>1. cabins' = [cabins EXCEPT ![x] = ApplyReadings(cabins[x], r)]
    BY <1>2 DEF SubmitReadings, UpdateCabin, Fail
  <2>2. cabins'[c] = ApplyReadings(cabins[c], r)
    BY <1>0, <2>1
  <2>3. QED
    BY <1>0, <2>2 DEF ApplyReadings, IsMeasured, Cabin
<1>3. ASSUME NEW x \in Cabins, NEW p \in Parties \cup {Blank}, BeginReport(x, p)
      PROVE  FALSE
  BY <1>3 DEF BeginReport, Fail
<1>4. ASSUME NEW x \in Cabins, ReportAlarm(x)
      PROVE  FALSE
  BY <1>4 DEF ReportAlarm
<1>5. ASSUME NEW o \in Orders, NEW ok, NEW new, NEW cabinOK, NEW k,
             UpdateOrderAndCabin(o, ok, new, cabinOK, k)
      PROVE  /\ ok /\ cabinOK /\ orders[o].cabin = c
             /\ orders'[o] = new /\ cabins'[c] = k
  BY <1>0, <1>5 DEF UpdateOrderAndCabin, Fail, Registered
<1>6. ASSUME NEW o \in Orders, NEW d \in Parties \cup {Blank},
             NEW e \in Engineers \cup {Blank}, NEW b \in Engineers \cup {Blank},
             NEW late \in BOOLEAN, DispatchMaintenance(o, d, e, b, late)
      PROVE  IsDispatched(c, o)
  <2>1. UpdateOrderAndCabin(o, CanDispatch(orders[o]), Dispatch(orders[o], d, e, b, late),
                            CanLock(CabinOf(o), o), Lock(CabinOf(o), o))
    BY <1>6 DEF DispatchMaintenance, Fail
  <2>2. /\ CanDispatch(orders[o]) /\ orders[o].cabin = c
        /\ orders'[o] = Dispatch(orders[o], d, e, b, late)
        /\ cabins'[c] = Lock(cabins[c], o)
    BY <1>5, <2>1 DEF CabinOf
  <2>3. orders[o].status = "reported" /\ cabins[c].lockOrder = Blank
    BY <2>2, OpenOrderAgrees DEF CanDispatch, InAgreement, CabinOf
  <2>4. QED
    BY <1>0, <2>2, <2>3 DEF Dispatch, Lock, Order, Cabin, IsDispatched
<1>7. ASSUME NEW o \in Orders, NEW e \in Engineers \cup {Blank}, EngineerArrive(o, e)
      PROVE  IsEntered(c)
  <2>1. CanStartMaintenance(cabins[c]) /\ cabins'[c] = StartMaintenance(cabins[c])
    BY <1>5, <1>7 DEF EngineerArrive, CabinOf
  <2>2. QED
    BY <1>0, <2>1 DEF CanStartMaintenance, StartMaintenance, Cabin, IsEntered
<1>8. ASSUME NEW o \in Orders, NEW e \in Engineers \cup {Blank}, CompleteProcessing(o, e)
      PROVE  FALSE
  BY <1>8 DEF CompleteProcessing, UpdateMaintenanceOrder, Fail
<1>9. ASSUME NEW o \in Orders, NEW leader \in Parties \cup {Blank},
             NEW station \in Parties \cup {Blank}, AcceptMaintenance(o, leader, station)
      PROVE  IsReleased(c, o)
  <2> DEFINE new == Accept(orders[o], leader, station)
  <2>0. UpdateOrderAndCabin(o, CanAccept(orders[o], leader, station), new,
                            TRUE, Unlock(CabinOf(o)))
    BY <1>9 DEF AcceptMaintenance
  <2> HIDE DEF new
  <2>1. /\ CanAccept(orders[o], leader, station) /\ orders[o].cabin = c
        /\ orders'[o] = new
        /\ cabins'[c] = Unlock(cabins[c])
    BY <1>0, <2>0 DEF UpdateOrderAndCabin, Fail, Registered, CabinOf
  <2>2. orders[o].status = "pending_acceptance" /\ leader # Blank /\ station # Blank
    BY <2>1 DEF CanAccept
  <2>3. cabins[c].status = "under_maintenance" /\ cabins[c].lockOrder = o
    BY <2>1, <2>2, InStep DEF CabinOf
  <2>4. QED
    BY <1>0, <2>1, <2>2, <2>3 DEF new, Accept, Unlock, Order, Cabin, IsReleased
<1>10. ASSUME NEW o \in Orders, TransferOrder(o)
       PROVE  FALSE
  BY <1>10 DEF TransferOrder, UpdateMaintenanceOrder, Fail
<1>11. QED
  BY <1>1, <1>2, <1>3, <1>4, <1>6, <1>7, <1>8, <1>9, <1>10 DEF Next, Handlers

\* An alarmed cabin leaves the alarm only into the lock of an order that is
\* dispatched in the same step (Cabin.ApplyReadings, Lock, Unlock).
THEOREM AlarmsEndInDispatch == Spec => AlarmEndsInDispatch
<1>1. ASSUME IInv, [Next]_vars
      PROVE  [\A c \in Cabins :
                cabins[c].status = "alarm" /\ cabins'[c].status # "alarm" =>
                  /\ cabins'[c].status = "locked"
                  /\ \E o \in Orders :
                       /\ cabins'[c].lockOrder = o
                       /\ orders[o].status = "reported" /\ orders'[o].status = "dispatched"]_vars
  <2> SUFFICES ASSUME Next, NEW c \in Cabins,
                      cabins[c].status = "alarm", cabins'[c].status # "alarm"
               PROVE  /\ cabins'[c].status = "locked"
                      /\ \E o \in Orders :
                           /\ cabins'[c].lockOrder = o
                           /\ orders[o].status = "reported"
                           /\ orders'[o].status = "dispatched"
    BY <1>1
  <2>1. PICK o \in Orders : IsDispatched(c, o)
    BY <1>1, CabinMoves DEF IsRegistered, IsMeasured, IsEntered, IsReleased
  <2>2. QED
    BY <2>1 DEF IsDispatched
<1>2. QED
  BY <1>1, Invariance, PTL DEF Spec, AlarmEndsInDispatch

\* A held cabin stays with its order until that order, pending acceptance, is
\* closed with both signatures (Service.AcceptMaintenance).
THEOREM CabinsAreHeldUntilAccepted == Spec => HeldUntilAccepted
<1> DEFINE Kept(c, o) ==
      o # Blank =>
        \/ cabins'[c].lockOrder = o /\ cabins'[c].status # "normal"
        \/ /\ cabins'[c].status = "normal"
           /\ orders[o].status = "pending_acceptance"
           /\ orders'[o].status = "closed"
           /\ orders'[o].leader # Blank /\ orders'[o].station # Blank
<1>1. ASSUME IInv, [Next]_vars
      PROVE  [\A c \in Cabins : Kept(c, cabins[c].lockOrder)]_vars
  <2> SUFFICES ASSUME Next, NEW c \in Cabins, cabins[c].lockOrder # Blank
               PROVE  Kept(c, cabins[c].lockOrder)
    BY <1>1
  <2>1. cabins[c].status \in {"locked", "under_maintenance"}
    BY <1>1, InStep
  <2>2. CASE cabins'[c] = cabins[c]
    BY <2>1, <2>2
  <2>3. CASE cabins'[c] # cabins[c]
    <3>1. \/ IsMeasured(c)
          \/ IsEntered(c)
          \/ \E o \in Orders : IsReleased(c, o)
      BY <1>1, <2>1, <2>3, CabinMoves DEF IsRegistered, IsDispatched
    <3>2. QED
      BY <2>1, <3>1 DEF IsMeasured, IsEntered, IsReleased
  <2>4. QED
    BY <2>2, <2>3
<1>2. QED
  BY <1>1, Invariance, PTL DEF Spec, HeldUntilAccepted

------------------------------------------------------------------------------
(* Who an order is out with *)

\* What a step can make of the order m.
Becomes(m, new) ==
  \/ \E c \in Cabins : m.status = "absent" /\ new = NewMaintenanceOrder(c)
  \/ m.status \notin {"absent", "closed"} /\ new = AddDuplicateReporter(m)
  \/ \E d \in Parties, e \in Engineers, b \in Engineers \cup {Blank}, late \in BOOLEAN :
       CanDispatch(m) /\ new = Dispatch(m, d, e, b, late)
  \/ m.status \in {"dispatched", "assigned"} /\ new = Arrive(m)
  \/ m.status = "processing" /\ new = Complete(m)
  \/ \E leader, station \in Parties :
       m.status = "pending_acceptance" /\ new = Accept(m, leader, station)
  \/ CanTransfer(m) /\ new = Transfer(m)

LEMMA OneOrderBecomes ==
  ASSUME Next
  PROVE  \/ orders' = orders
         \/ \E o \in Orders : \E new : /\ Becomes(orders[o], new)
                                       /\ orders' = [orders EXCEPT ![o] = new]
<1> DEFINE Moved == \E o \in Orders : \E new : /\ Becomes(orders[o], new)
                                               /\ orders' = [orders EXCEPT ![o] = new]
<1> SUFFICES ASSUME orders' # orders
             PROVE  Moved
  OBVIOUS
<1> USE DEF Fail, UpdateCabin, UpdateMaintenanceOrder, UpdateOrderAndCabin
<1>1. CASE \/ \E c \in Cabins \cup {Blank}, limit \in Limits : RegisterCabin(c, limit)
           \/ \E c \in Cabins, r \in Readings : SubmitReadings(c, r)
           \/ \E c \in Cabins, p \in Parties \cup {Blank} : BeginReport(c, p)
  BY <1>1 DEF RegisterCabin, SubmitReadings, BeginReport
<1>2. ASSUME NEW c \in Cabins, ReportAlarm(c)
      PROVE  Moved
  <2>1. ASSUME NEW o \in ActiveOrders(c),
               orders' = [orders EXCEPT ![o] = AddDuplicateReporter(orders[o])]
        PROVE  o \in Orders /\ Becomes(orders[o], AddDuplicateReporter(orders[o]))
    BY <2>1 DEF ActiveOrders, IsActive, Becomes
  <2>2. ASSUME NEW o \in Orders, ~Stored(o)
        PROVE  Becomes(orders[o], NewMaintenanceOrder(c))
    BY <2>2 DEF Stored, Becomes
  <2>3. QED
    BY <1>2, <2>1, <2>2 DEF ReportAlarm
<1>3. ASSUME NEW o \in Orders, NEW d \in Parties \cup {Blank},
             NEW e \in Engineers \cup {Blank}, NEW b \in Engineers \cup {Blank},
             NEW late \in BOOLEAN, DispatchMaintenance(o, d, e, b, late)
      PROVE  Moved
  <2>1. /\ d \in Parties /\ e \in Engineers /\ CanDispatch(orders[o])
        /\ orders' = [orders EXCEPT ![o] = Dispatch(orders[o], d, e, b, late)]
    BY <1>3 DEF DispatchMaintenance
  <2>2. Becomes(orders[o], Dispatch(orders[o], d, e, b, late))
    BY <2>1 DEF Becomes
  <2>3. QED
    BY <2>1, <2>2
<1>4. ASSUME NEW o \in Orders, NEW e \in Engineers \cup {Blank},
             EngineerArrive(o, e) \/ CompleteProcessing(o, e)
      PROVE  Moved
  <2>1. CASE EngineerArrive(o, e)
    BY <1>4, <2>1 DEF EngineerArrive, CanArrive, Becomes
  <2>2. CASE CompleteProcessing(o, e)
    BY <1>4, <2>2 DEF CompleteProcessing, CanComplete, Becomes
  <2>3. QED
    BY <1>4, <2>1, <2>2
<1>5. ASSUME NEW o \in Orders, NEW leader \in Parties \cup {Blank},
             NEW station \in Parties \cup {Blank}, AcceptMaintenance(o, leader, station)
      PROVE  Moved
  BY <1>5 DEF AcceptMaintenance, CanAccept, Becomes
<1>6. ASSUME NEW o \in Orders, TransferOrder(o)
      PROVE  Moved
  BY <1>6 DEF TransferOrder, Becomes
<1> HIDE DEF Moved, Fail, UpdateCabin, UpdateMaintenanceOrder, UpdateOrderAndCabin
<1>7. QED
  BY <1>1, <1>2, <1>3, <1>4, <1>5, <1>6 DEF Next, Handlers

\* EngineerOfRecord of one order, and that none is transferred before the transfer.
OutWithItsEngineer(m) ==
  /\ m.status \in {"absent", "reported"} => m.engineer = Blank /\ m.transfers = 0
  /\ m.status = "dispatched" => m.transfers = 0
  /\ m.status \notin {"absent", "reported"} =>
       /\ m.engineer \in Engineers
       /\ \/ m.transfers = 0 /\ m.engineer = m.primary
          \/ m.transfers = 1 /\ m.engineer = m.backup

LEMMA BecomesKeepsEngineer ==
  ASSUME NEW m \in Order, OutWithItsEngineer(m), NEW new, Becomes(m, new)
  PROVE  OutWithItsEngineer(new)
<1>1. CASE \E c \in Cabins : m.status = "absent" /\ new = NewMaintenanceOrder(c)
  BY <1>1 DEF NewMaintenanceOrder, AbsentOrder, OutWithItsEngineer
<1>2. CASE m.status # "absent" /\ new = AddDuplicateReporter(m)
  BY <1>2 DEF AddDuplicateReporter, OutWithItsEngineer, Order
<1>3. CASE \E d \in Parties, e \in Engineers, b \in Engineers \cup {Blank}, late \in BOOLEAN :
             CanDispatch(m) /\ new = Dispatch(m, d, e, b, late)
  BY <1>3 DEF CanDispatch, Dispatch, OutWithItsEngineer, Order
<1>4. CASE m.status \in {"dispatched", "assigned"} /\ new = Arrive(m)
  BY <1>4 DEF Arrive, OutWithItsEngineer, Order
<1>5. CASE m.status = "processing" /\ new = Complete(m)
  BY <1>5 DEF Complete, OutWithItsEngineer, Order
<1>6. CASE \E leader, station \in Parties :
             m.status = "pending_acceptance" /\ new = Accept(m, leader, station)
  BY <1>6 DEF Accept, OutWithItsEngineer, Order
<1>7. CASE CanTransfer(m) /\ new = Transfer(m)
  <2>1. m.transfers = 0 /\ m.backup \in Engineers
    BY <1>7 DEF CanTransfer, OutWithItsEngineer, Order
  <2>2. /\ new.status = "assigned" /\ new.transfers = 1
        /\ new.engineer = m.backup /\ new.backup = m.backup
    BY <1>7, <2>1 DEF Transfer, Order
  <2>3. QED
    BY <2>1, <2>2 DEF OutWithItsEngineer
<1>8. QED
  BY <1>1, <1>2, <1>3, <1>4, <1>5, <1>6, <1>7 DEF Becomes

\* An order is out with its primary engineer, or after its one transfer with the
\* backup: transfers by hand and by the scheduler never add up, whatever comes between
\* them (MaintenanceOrder.Transfer).
THEOREM EngineersOfRecord == Spec => []EngineerOfRecord
<1> DEFINE Inv == \A o \in Orders : OutWithItsEngineer(orders[o])
<1>1. Init => Inv
  BY DEF Init, AbsentOrder, OutWithItsEngineer
<1>2. TypeOK /\ Inv /\ [Next]_vars => Inv'
  <2> SUFFICES ASSUME TypeOK, Inv, [Next]_vars
               PROVE  Inv'
    OBVIOUS
  <2>1. CASE orders' = orders
    BY <2>1
  <2>2. ASSUME NEW o \in Orders, NEW new, Becomes(orders[o], new),
               orders' = [orders EXCEPT ![o] = new]
        PROVE  Inv'
    <3>1. OutWithItsEngineer(new)
      BY <2>2, BecomesKeepsEngineer DEF TypeOK
    <3>2. QED
      BY <2>2, <3>1 DEF TypeOK
  <2>3. QED
    BY <2>1, <2>2, OneOrderBecomes DEF vars
<1>3. Inv => EngineerOfRecord
  BY DEF EngineerOfRecord, OutWithItsEngineer
<1> HIDE DEF Inv
<1>4. QED
  BY <1>1, <1>2, <1>3, TypeCorrect, PTL DEF Spec

------------------------------------------------------------------------------
(* The cabins and the orders are a repair desk *)

\* What the refinement puts for open, hold and used.
TheOne(S) == IF S = {} THEN Blank ELSE CHOOSE o \in S : TRUE
OpenNow == [c \in Cabins |-> TheOne(ActiveOrders(c))]
HoldNow ==
  [c \in Cabins |-> [phase |-> IF cabins[c].status \in DOMAIN HolderStatuses
                               THEN cabins[c].status ELSE "free",
                     by |-> cabins[c].lockOrder]]
UsedNow == {o \in Orders : Stored(o)}

deskNow == <<OpenNow, HoldNow, UsedNow>>

\* The CHOOSE of the refinement has nothing to choose from.
LEMMA TheOpenOne ==
  ASSUME IInv, NEW c \in Cabins, NEW o \in ActiveOrders(c)
  PROVE  ActiveOrders(c) = {o} /\ OpenNow[c] = o
<1>1. \A x \in ActiveOrders(c) : x = o
  BY DEF IInv, OneActiveOrderPerCabin, ActiveOrders, IsActive
<1>2. ActiveOrders(c) = {o}
  BY <1>1
<1>3. TheOne({o}) = o
  BY DEF TheOne
<1>4. QED
  BY <1>2, <1>3 DEF OpenNow

LEMMA HoldIs ==
  \A c \in Cabins :
    HoldNow[c] = [phase |-> IF cabins[c].status \in {"locked", "under_maintenance"}
                            THEN cabins[c].status ELSE "free",
                  by |-> cabins[c].lockOrder]
BY HolderStatusesDef DEF HoldNow

\* A step that moves no cabin's hold, and one that keeps an open order open.
LEMMA HoldStays ==
  ASSUME \A c \in Cabins :
           /\ cabins'[c].lockOrder = cabins[c].lockOrder
           /\ \/ cabins'[c].status = cabins[c].status
              \/ {cabins[c].status, cabins'[c].status} \cap {"locked", "under_maintenance"} = {}
  PROVE  UNCHANGED HoldNow
BY HolderStatusesDef DEF HoldNow

LEMMA OpenStays ==
  ASSUME NEW o \in Orders, NEW new, orders \in [Orders -> Order],
         orders' = [orders EXCEPT ![o] = new], new.cabin = orders[o].cabin,
         IsActive(orders[o]), IsActive(new)
  PROVE  UNCHANGED <<OpenNow, UsedNow>>
<1>1. \A x \in Orders : orders'[x] = IF x = o THEN new ELSE orders[x]
  OBVIOUS
<1>2. \A x \in Orders : IsActive(orders[x])' <=> IsActive(orders[x])
  BY <1>1 DEF IsActive
<1>3. \A c \in Cabins : ActiveOrders(c)' = ActiveOrders(c)
  BY <1>1, <1>2 DEF ActiveOrders
<1>4. UsedNow' = UsedNow
  BY <1>1 DEF UsedNow, Stored, IsActive
<1>5. QED
  BY <1>3, <1>4 DEF OpenNow

LEMMA NoOrderMoves == UNCHANGED orders => UNCHANGED <<OpenNow, UsedNow>>
<1> SUFFICES ASSUME UNCHANGED orders
             PROVE  UNCHANGED <<OpenNow, UsedNow>>
  OBVIOUS
<1>1. \A c \in Cabins : ActiveOrders(c)' = ActiveOrders(c)
  BY DEF ActiveOrders, IsActive
<1>2. UsedNow' = UsedNow
  BY DEF UsedNow, Stored
<1>3. QED
  BY <1>1, <1>2 DEF OpenNow

\* The order o, of the cabin c, stays open, and nothing that the desk sees moves.
LEMMA DeskStays ==
  ASSUME IInv, NEW o \in Orders, NEW ok, NEW new, UpdateMaintenanceOrder(o, ok, new),
         ok => IsActive(orders[o]) /\ new.cabin = orders[o].cabin /\ IsActive(new)
  PROVE  UNCHANGED deskNow
<1>1. UNCHANGED cabins
  BY DEF UpdateMaintenanceOrder, Fail
<1>2. UNCHANGED HoldNow
  BY <1>1, HoldStays
<1>3. UNCHANGED <<OpenNow, UsedNow>>
  <2>1. CASE UNCHANGED orders
    BY <2>1, NoOrderMoves
  <2>2. CASE ok /\ orders' = [orders EXCEPT ![o] = new]
    BY <2>2, OpenStays DEF IInv, TypeOK
  <2>3. QED
    BY <2>1, <2>2 DEF UpdateMaintenanceOrder, Fail
<1>4. QED
  BY <1>2, <1>3 DEF deskNow

\* Both legs of a successful UpdateOrderAndCabin, as the desk sees them.
LEMMA JointStep ==
  ASSUME IInv, NEW o \in Orders, NEW ok, NEW new, NEW cabinOK, NEW k,
         UpdateOrderAndCabin(o, ok, new, cabinOK, k), ~Fail,
         ok => cabinOK /\ IsActive(orders[o])
  PROVE  /\ ok /\ orders[o].cabin \in Cabins
         /\ orders' = [orders EXCEPT ![o] = new]
         /\ OpenNow[orders[o].cabin] = o
         /\ HoldNow' = [HoldNow EXCEPT ![orders[o].cabin] =
                          [phase |-> IF k.status \in {"locked", "under_maintenance"}
                                     THEN k.status ELSE "free",
                           by |-> k.lockOrder]]
<1> DEFINE c == orders[o].cabin
<1>1. /\ ok /\ Registered(c)
      /\ orders' = [orders EXCEPT ![o] = new]
      /\ cabins' = [cabins EXCEPT ![c] = k]
  BY DEF UpdateOrderAndCabin
<1>2. c \in Cabins /\ cabins \in [Cabins -> Cabin]
  BY <1>1 DEF Registered, IInv, TypeOK
<1>3. OpenNow[c] = o
  <2>1. o \in ActiveOrders(c)
    BY <1>1 DEF ActiveOrders
  <2>2. QED
    BY <1>2, <2>1, TheOpenOne
<1>4. HoldNow' = [HoldNow EXCEPT ![c] =
                    [phase |-> IF k.status \in {"locked", "under_maintenance"}
                               THEN k.status ELSE "free",
                     by |-> k.lockOrder]]
  <2>1. \A y \in Cabins : cabins'[y] = IF y = c THEN k ELSE cabins[y]
    BY <1>1, <1>2
  <2>2. QED
    BY <1>2, <2>1, HolderStatusesDef DEF HoldNow
<1>5. QED
  BY <1>1, <1>2, <1>3, <1>4

\* The steps of the desk, on what the refinement puts for its variables.
LEMMA DeskSteps ==
  ASSUME NEW c \in Cabins
  PROVE  /\ \A o \in Orders :
              /\ OpenNow[c] = Blank /\ o \notin UsedNow
              /\ OpenNow' = [OpenNow EXCEPT ![c] = o]
              /\ UsedNow' = UsedNow \cup {o}
              /\ UNCHANGED HoldNow
              => Desk!Open(c, o)
         /\ /\ OpenNow[c] # Blank /\ HoldNow[c] = [phase |-> "free", by |-> Blank]
            /\ HoldNow' = [HoldNow EXCEPT ![c] = [phase |-> "locked", by |-> OpenNow[c]]]
            /\ UNCHANGED <<OpenNow, UsedNow>>
            => Desk!Hold(c)
         /\ /\ HoldNow[c].phase = "locked"
            /\ HoldNow' = [HoldNow EXCEPT ![c].phase = "under_maintenance"]
            /\ UNCHANGED <<OpenNow, UsedNow>>
            => Desk!Work(c)
         /\ /\ HoldNow[c].phase = "under_maintenance" /\ HoldNow[c].by = OpenNow[c]
            /\ OpenNow' = [OpenNow EXCEPT ![c] = Blank]
            /\ HoldNow' = [HoldNow EXCEPT ![c] = [phase |-> "free", by |-> Blank]]
            /\ UNCHANGED UsedNow
            => Desk!Close(c)
BY Zenon DEF Desk!Open, Desk!Hold, Desk!Work, Desk!Close, Desk!Free,
             OpenNow, HoldNow, UsedNow, TheOne

LEMMA DeskInit == Init => Desk!Init
<1> SUFFICES ASSUME Init
             PROVE  Desk!Init
  OBVIOUS
<1>1. OpenNow = [c \in Cabins |-> Blank]
  <2>1. \A c \in Cabins : ActiveOrders(c) = {}
    BY DEF Init, ActiveOrders, IsActive, AbsentOrder
  <2>2. QED
    BY <2>1 DEF OpenNow, TheOne
<1>2. HoldNow = [c \in Cabins |-> [phase |-> "free", by |-> Blank]]
  BY HolderStatusesDef DEF Init, AbsentCabin, HoldNow
<1>3. UsedNow = {}
  BY DEF Init, Stored, AbsentOrder, UsedNow
<1>4. QED
  BY <1>1, <1>2, <1>3, Zenon DEF Desk!Init, Desk!Free, OpenNow, HoldNow, UsedNow, TheOne

LEMMA DeskUnchanged == UNCHANGED deskNow => UNCHANGED Desk!deskVars
BY Zenon DEF deskNow, Desk!deskVars, OpenNow, HoldNow, UsedNow, TheOne

LEMMA ReportOpens ==
  ASSUME IInv, NEW c \in Cabins, ReportAlarm(c)
  PROVE  UNCHANGED deskNow \/ \E o \in Orders : Desk!Open(c, o)
<1>1. orders \in [Orders -> Order] /\ UNCHANGED HoldNow
  BY HoldStays DEF IInv, TypeOK, ReportAlarm
<1>2. ASSUME NEW o \in ActiveOrders(c),
             orders' = [orders EXCEPT ![o] = AddDuplicateReporter(orders[o])]
      PROVE  UNCHANGED deskNow
  <2>1. o \in Orders /\ IsActive(orders[o])
    BY DEF ActiveOrders
  <2>2. AddDuplicateReporter(orders[o]).cabin = orders[o].cabin
        /\ IsActive(AddDuplicateReporter(orders[o]))
    BY <1>1, <2>1 DEF AddDuplicateReporter, IsActive, Order
  <2>3. QED
    BY <1>1, <1>2, <2>1, <2>2, OpenStays DEF deskNow
<1>3. ASSUME NEW o \in Orders, ActiveOrders(c) = {}, ~Stored(o),
             orders' = [orders EXCEPT ![o] = NewMaintenanceOrder(c)]
      PROVE  Desk!Open(c, o)
  <2>1. /\ \A x \in Orders \ {o} : orders'[x] = orders[x]
        /\ orders'[o].cabin = c /\ orders'[o].status = "reported"
    BY <1>1, <1>3 DEF NewMaintenanceOrder, AbsentOrder
  <2>2. ActiveOrders(c)' = {o}
    BY <1>3, <2>1 DEF ActiveOrders, IsActive
  <2>3. \A y \in Cabins \ {c} : ActiveOrders(y)' = ActiveOrders(y)
    BY <1>3, <2>1 DEF ActiveOrders, IsActive, Stored
  <2>4. OpenNow[c] = Blank /\ OpenNow' = [OpenNow EXCEPT ![c] = o]
    <3>1. TheOne({}) = Blank /\ TheOne({o}) = o
      BY DEF TheOne
    <3>2. QED
      BY <1>3, <2>2, <2>3, <3>1 DEF OpenNow
  <2>5. o \notin UsedNow /\ UsedNow' = UsedNow \cup {o}
    BY <1>3, <2>1 DEF UsedNow, Stored
  <2>6. QED
    BY <1>1, <2>4, <2>5, DeskSteps
<1>4. QED
  BY <1>2, <1>3 DEF ReportAlarm, ActiveOrders

LEMMA DispatchHolds ==
  ASSUME IInv, NEW o \in Orders, NEW d, NEW e, NEW b, NEW late,
         DispatchMaintenance(o, d, e, b, late), ~Fail
  PROVE  \E c \in Cabins : Desk!Hold(c)
<1>0. PICK c : c = orders[o].cabin
  OBVIOUS
<1> DEFINE new == Dispatch(orders[o], d, e, b, late)
           k == Lock(CabinOf(o), o)
<1>1. UpdateOrderAndCabin(o, CanDispatch(orders[o]), new, CanLock(CabinOf(o), o), k)
  BY DEF DispatchMaintenance
<1>2. CanDispatch(orders[o]) => CanLock(CabinOf(o), o) /\ IsActive(orders[o])
  BY CabinNeverRefuses DEF CanDispatch, IsActive
<1> HIDE DEF new, k
<1>3. /\ CanDispatch(orders[o]) /\ c \in Cabins
      /\ orders' = [orders EXCEPT ![o] = new]
      /\ OpenNow[c] = o
      /\ HoldNow' = [HoldNow EXCEPT ![c] =
                       [phase |-> IF k.status \in {"locked", "under_maintenance"}
                                  THEN k.status ELSE "free",
                        by |-> k.lockOrder]]
  BY <1>0, <1>1, <1>2, JointStep
<1>4. InAgreement(orders[o], CabinOf(o), o) /\ orders[o].status = "reported"
      /\ orders \in [Orders -> Order] /\ CabinOf(o) \in Cabin
  BY <1>0, <1>3, OpenOrderAgrees DEF CanDispatch, IInv, TypeOK, CabinOf
<1>5. k.status = "locked" /\ k.lockOrder = o
  BY <1>4 DEF k, Lock, Cabin
<1>6. UNCHANGED <<OpenNow, UsedNow>>
  <2>1. new.cabin = c /\ IsActive(new) /\ IsActive(orders[o])
    BY <1>0, <1>4 DEF new, Dispatch, IsActive, Order
  <2>2. QED
    BY <1>0, <1>3, <1>4, <2>1, OpenStays
<1>7. HoldNow[c] = [phase |-> "free", by |-> Blank]
  BY <1>0, <1>3, <1>4, HoldIs DEF InAgreement, CabinOf
<1>8. HoldNow' = [HoldNow EXCEPT ![c] = [phase |-> "locked", by |-> OpenNow[c]]]
  BY <1>3, <1>5
<1>9. OpenNow[c] # Blank
  BY <1>3, MaintenanceAssumption
<1>10. QED
  BY <1>3, <1>6, <1>7, <1>8, <1>9, DeskSteps

LEMMA ArrivalWorks ==
  ASSUME IInv, NEW o \in Orders, NEW e, EngineerArrive(o, e), ~Fail
  PROVE  \E c \in Cabins : Desk!Work(c)
<1>0. PICK c : c = orders[o].cabin
  OBVIOUS
<1> DEFINE new == Arrive(orders[o])
           k == StartMaintenance(CabinOf(o))
<1>1. UpdateOrderAndCabin(o, CanArrive(orders[o], e), new, CanStartMaintenance(CabinOf(o)), k)
  BY DEF EngineerArrive
<1>2. CanArrive(orders[o], e) => CanStartMaintenance(CabinOf(o)) /\ IsActive(orders[o])
  BY CabinNeverRefuses DEF CanArrive, IsActive
<1> HIDE DEF new, k
<1>3. /\ CanArrive(orders[o], e) /\ c \in Cabins
      /\ orders' = [orders EXCEPT ![o] = new]
      /\ HoldNow' = [HoldNow EXCEPT ![c] =
                       [phase |-> IF k.status \in {"locked", "under_maintenance"}
                                  THEN k.status ELSE "free",
                        by |-> k.lockOrder]]
  BY <1>0, <1>1, <1>2, JointStep
<1>4. /\ CabinOf(o).status = "locked"
      /\ orders \in [Orders -> Order] /\ CabinOf(o) \in Cabin
  BY <1>0, <1>3, InStep DEF CanArrive, IInv, TypeOK, Stored
<1>5. k.status = "under_maintenance" /\ k.lockOrder = CabinOf(o).lockOrder
  BY <1>4 DEF k, StartMaintenance, Cabin
<1>6. UNCHANGED <<OpenNow, UsedNow>>
  <2>1. new.cabin = c /\ IsActive(new) /\ IsActive(orders[o])
    BY <1>0, <1>3, <1>4 DEF new, Arrive, CanArrive, IsActive, Order
  <2>2. QED
    BY <1>0, <1>3, <1>4, <2>1, OpenStays
<1>7. HoldNow[c] = [phase |-> "locked", by |-> CabinOf(o).lockOrder]
  BY <1>0, <1>3, <1>4, HoldIs DEF CabinOf
<1>8. HoldNow' = [HoldNow EXCEPT ![c].phase = "under_maintenance"]
  <2>1. [HoldNow[c] EXCEPT !.phase = "under_maintenance"] =
          [phase |-> "under_maintenance", by |-> CabinOf(o).lockOrder]
    BY <1>7
  <2>2. QED
    BY <1>3, <1>5, <2>1
<1>9. HoldNow[c].phase = "locked"
  BY <1>7
<1>10. Desk!Work(c)
  BY <1>3, <1>6, <1>8, <1>9, DeskSteps, Zenon
<1>11. QED
  BY <1>3, <1>10

LEMMA AcceptanceCloses ==
  ASSUME IInv, NEW o \in Orders, NEW leader, NEW station,
         AcceptMaintenance(o, leader, station), ~Fail
  PROVE  \E c \in Cabins : Desk!Close(c)
<1>0. PICK c : c = orders[o].cabin
  OBVIOUS
<1> DEFINE new == Accept(orders[o], leader, station)
           k == Unlock(CabinOf(o))
           granted == TRUE
<1>1. UpdateOrderAndCabin(o, CanAccept(orders[o], leader, station), new, granted, k)
  BY DEF AcceptMaintenance
<1>2. CanAccept(orders[o], leader, station) => granted /\ IsActive(orders[o])
  BY DEF CanAccept, IsActive
<1> HIDE DEF new, k, granted
<1>3. /\ CanAccept(orders[o], leader, station) /\ c \in Cabins
      /\ orders' = [orders EXCEPT ![o] = new]
      /\ OpenNow[c] = o
      /\ HoldNow' = [HoldNow EXCEPT ![c] =
                       [phase |-> IF k.status \in {"locked", "under_maintenance"}
                                  THEN k.status ELSE "free",
                        by |-> k.lockOrder]]
  BY <1>0, <1>1, <1>2, JointStep
<1>4. /\ orders[o].status = "pending_acceptance"
      /\ CabinOf(o).status = "under_maintenance" /\ CabinOf(o).lockOrder = o
      /\ orders \in [Orders -> Order] /\ CabinOf(o) \in Cabin
  BY <1>0, <1>3, InStep DEF CanAccept, IInv, TypeOK, Stored
<1>5. k.status = "normal" /\ k.lockOrder = Blank
  BY <1>4 DEF k, Unlock, Cabin
<1>6. orders'[o] = new /\ new.status = "closed" /\ new.cabin = c
      /\ \A x \in Orders \ {o} : orders'[x] = orders[x]
  BY <1>0, <1>3, <1>4 DEF new, Accept, Order
<1>7. UsedNow' = UsedNow
  BY <1>4, <1>6 DEF UsedNow, Stored
<1>8. OpenNow' = [OpenNow EXCEPT ![c] = Blank]
  <2>1. ActiveOrders(c) = {o}
    <3>1. o \in ActiveOrders(c)
      BY <1>0, <1>4 DEF ActiveOrders, IsActive
    <3>2. QED
      BY <1>3, <3>1, TheOpenOne
  <2>2. ActiveOrders(c)' = {}
    <3>1. \A x \in Orders : orders'[x].cabin = c => ~IsActive(orders'[x])
      BY <1>6, <2>1 DEF ActiveOrders, IsActive
    <3>2. QED
      BY <3>1 DEF ActiveOrders
  <2>3. \A y \in Cabins \ {c} : ActiveOrders(y)' = ActiveOrders(y)
    BY <1>0, <1>6 DEF ActiveOrders, IsActive
  <2>4. TheOne({}) = Blank
    BY DEF TheOne
  <2>5. QED
    <3>1. \A y \in Cabins : TheOne(ActiveOrders(y))' = IF y = c THEN Blank
                                                     ELSE TheOne(ActiveOrders(y))
      BY <2>2, <2>3, <2>4
    <3>2. QED
      BY <3>1 DEF OpenNow
<1>9. HoldNow[c] = [phase |-> "under_maintenance", by |-> o]
  BY <1>0, <1>3, <1>4, HoldIs DEF CabinOf
<1>10. HoldNow' = [HoldNow EXCEPT ![c] = [phase |-> "free", by |-> Blank]]
  BY <1>3, <1>5
<1>11. HoldNow[c].phase = "under_maintenance" /\ HoldNow[c].by = OpenNow[c]
  BY <1>3, <1>9
<1>12. Desk!Close(c)
  BY <1>3, <1>7, <1>8, <1>10, <1>11, DeskSteps, Zenon
<1>13. QED
  BY <1>3, <1>12

LEMMA DeskStep == IInv /\ [Next]_vars => [Desk!Next]_(Desk!deskVars)
<1> DEFINE Goal == UNCHANGED deskNow \/ Desk!Next
<1> SUFFICES ASSUME IInv, [Next]_vars
             PROVE  Goal
  BY DeskUnchanged
<1>0. orders \in [Orders -> Order] /\ cabins \in [Cabins -> Cabin]
  BY DEF IInv, TypeOK
<1>1. CASE UNCHANGED orders /\ UNCHANGED HoldNow
  BY <1>1, NoOrderMoves DEF deskNow
<1>2. CASE Fail \/ UNCHANGED vars
  BY <1>1, <1>2, HoldStays DEF Fail, vars
<1>3. ASSUME NEW c \in Cabins \cup {Blank}, NEW limit \in Limits, RegisterCabin(c, limit), ~Fail
      PROVE  Goal
  <2>1. /\ c \in Cabins /\ cabins[c].status = "absent"
        /\ cabins' = [cabins EXCEPT ![c] = NewCabin(limit)]
        /\ UNCHANGED orders
    BY <1>3 DEF RegisterCabin, UpdateCabin, Registered
  <2>2. cabins[c].lockOrder = Blank
    BY <2>1, InStep
  <2>3. cabins'[c].status = "normal" /\ cabins'[c].lockOrder = Blank
        /\ \A y \in Cabins \ {c} : cabins'[y] = cabins[y]
    BY <1>0, <2>1 DEF NewCabin
  <2>4. QED
    BY <1>1, <2>1, <2>2, <2>3, HoldStays
<1>4. ASSUME NEW c \in Cabins, NEW r \in Readings, SubmitReadings(c, r), ~Fail
      PROVE  Goal
  <2>1. cabins' = [cabins EXCEPT ![c] = ApplyReadings(cabins[c], r)] /\ UNCHANGED orders
    BY <1>4 DEF SubmitReadings, UpdateCabin
  <2>2. /\ \A y \in Cabins \ {c} : cabins'[y] = cabins[y]
        /\ cabins'[c] = ApplyReadings(cabins[c], r) /\ cabins[c] \in Cabin
    BY <1>0, <2>1
  <2>3. /\ cabins'[c].lockOrder = cabins[c].lockOrder
        /\ \/ cabins'[c].status = cabins[c].status
           \/ cabins[c].status = "normal" /\ cabins'[c].status = "alarm"
    BY <2>2 DEF ApplyReadings, Cabin
  <2>4. QED
    BY <1>1, <2>1, <2>2, <2>3, HoldStays
<1>5. ASSUME NEW c \in Cabins, NEW p \in Parties \cup {Blank}, BeginReport(c, p)
      PROVE  Goal
  BY <1>1, <1>5, HoldStays DEF BeginReport, Fail
<1>6. ASSUME NEW c \in Cabins, ReportAlarm(c)
      PROVE  Goal
  BY <1>6, ReportOpens DEF Desk!Next
<1>7. ASSUME NEW o \in Orders, NEW d \in Parties \cup {Blank},
             NEW e \in Engineers \cup {Blank}, NEW b \in Engineers \cup {Blank},
             NEW late \in BOOLEAN, DispatchMaintenance(o, d, e, b, late), ~Fail
      PROVE  Goal
  BY <1>7, DispatchHolds DEF Desk!Next
<1>8. ASSUME NEW o \in Orders, NEW e \in Engineers \cup {Blank}, EngineerArrive(o, e), ~Fail
      PROVE  Goal
  BY <1>8, ArrivalWorks DEF Desk!Next
<1>9. ASSUME NEW o \in Orders, NEW e \in Engineers \cup {Blank}, CompleteProcessing(o, e)
      PROVE  Goal
  <2>1. CanComplete(orders[o], e) =>
          /\ IsActive(orders[o]) /\ IsActive(Complete(orders[o]))
          /\ Complete(orders[o]).cabin = orders[o].cabin
    BY <1>0 DEF CanComplete, Complete, IsActive, Order
  <2>2. QED
    BY <1>9, <2>1, DeskStays DEF CompleteProcessing
<1>10. ASSUME NEW o \in Orders, NEW leader \in Parties \cup {Blank},
              NEW station \in Parties \cup {Blank}, AcceptMaintenance(o, leader, station), ~Fail
       PROVE  Goal
  BY <1>10, AcceptanceCloses DEF Desk!Next
<1>11. ASSUME NEW o \in Orders, TransferOrder(o)
       PROVE  Goal
  <2>1. CanTransfer(orders[o]) =>
          /\ IsActive(orders[o]) /\ IsActive(Transfer(orders[o]))
          /\ Transfer(orders[o]).cabin = orders[o].cabin
    BY <1>0 DEF CanTransfer, Transfer, IsActive, Order
  <2>2. QED
    BY <1>11, <2>1, DeskStays DEF TransferOrder
<1> HIDE DEF Goal
<1>12. QED
  BY <1>2, <1>3, <1>4, <1>5, <1>6, <1>7, <1>8, <1>9, <1>10, <1>11 DEF Next, Handlers

\* The cabin records and the order records are one repair desk: a cabin has at most one
\* open repair, which alone can hold it, and is released by the step that ends the
\* repair (Store.UpdateOrderAndCabin, Store.ReportAlarm).
THEOREM ImplementsRepairDesk == Spec => IsARepairDesk
<1>1. QED
  BY DeskInit, DeskStep, Invariance, PTL DEF Spec, Desk!Spec, IsARepairDesk

==============================================================================
