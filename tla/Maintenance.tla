----------------------------- MODULE Maintenance -----------------------------
(***************************************************************************)
(* Battery cabins and the maintenance orders that repair them, as the      *)
(* store keeps them (internal/store), the domain types change them         *)
(* (internal/domain) and the service drives them (internal/service).       *)
(*                                                                         *)
(* Every store method takes the store's one lock for its whole body, so    *)
(* one call of a store method is one action.  A service method that enters *)
(* the store twice is two actions: ReportAlarm looks the cabin up under    *)
(* one lock and creates the order under the next.                          *)
(***************************************************************************)
EXTENDS Integers, Sequences, FiniteSets

CONSTANTS
  Cabins,      \* cabin ids
  Orders,      \* the ids NextID can hand out; an exhausted pool bounds a model
  Engineers,   \* maintenance engineers
  Parties,     \* everybody else: inspectors, dispatchers, leaders, stations
  Limits,      \* temperature limits a caller may ask for, illegal ones included
  Temps,       \* temperatures a caller may submit
  Blank,       \* the empty string
  Nil,         \* the nil *Readings of a cabin nobody has measured
  MaxReports   \* bound: how many alarm reports arrive

ASSUME MaintenanceAssumption ==
  /\ Blank \notin Cabins \cup Orders \cup Engineers \cup Parties
  /\ Limits \subseteq Int
  /\ Temps \subseteq Int
  /\ MaxReports \in Nat

VARIABLES
  cabins,      \* Store.cabins
  orders,      \* Store.maintenanceOrders
  reporting,   \* how many alarm reports of a cabin are between their two critical
               \* sections; the second needs nothing else of them
  received,    \* history: how many alarm reports passed the first one
  reply        \* what the last call answered

vars == <<cabins, orders, reporting, received, reply>>

------------------------------------------------------------------------------
(* Data *)

Readings == [temperature : Temps, insulationOK : BOOLEAN]

Cabin ==
  [status    : {"absent", "normal", "alarm", "locked", "under_maintenance"},
   lockOrder : Orders \cup {Blank},
   tempLimit : Int,
   readings  : Readings \cup {Nil}]

\* The actions of the audit trail's entries.
AuditActions ==
  {"alarm_reported", "duplicate_report_suppressed", "dispatch_sla_breached",
   "dispatched", "auto_transferred", "engineer_arrived",
   "processing_completed", "accepted_by_leader", "accepted_by_station",
   "order_closed"}

Order ==
  [status     : {"absent", "reported", "dispatched", "assigned", "processing",
                 "pending_acceptance", "closed"},
   cabin      : Cabins \cup {Blank},
   primary    : Engineers \cup {Blank},
   backup     : Engineers \cup {Blank},
   engineer   : Engineers \cup {Blank},
   transfers  : Nat,
   leader     : Parties \cup {Blank},
   station    : Parties \cup {Blank},
   duplicates : Nat,
   audit      : Seq(AuditActions)]

\* An id that is no key of its map.
AbsentCabin ==
  [status |-> "absent", lockOrder |-> Blank, tempLimit |-> 0, readings |-> Nil]

AbsentOrder ==
  [status |-> "absent", cabin |-> Blank, primary |-> Blank, backup |-> Blank,
   engineer |-> Blank, transfers |-> 0, leader |-> Blank, station |-> Blank,
   duplicates |-> 0, audit |-> << >>]

Registered(c) == c \in Cabins /\ cabins[c].status # "absent"
Stored(o) == orders[o].status # "absent"

------------------------------------------------------------------------------
(* The methods of a cabin.  k is the cabin's record. *)

NewCabin(limit) ==
  [status |-> "normal", lockOrder |-> Blank, tempLimit |-> limit, readings |-> Nil]

HasAlarmCondition(k, r) == r.temperature > k.tempLimit \/ ~r.insulationOK

ApplyReadings_ClearsAlarm(k, r) ==
  [k EXCEPT !.readings = r,
            !.status = IF HasAlarmCondition(k, r) THEN "alarm" ELSE "normal"]
ApplyReadings(k, r) ==
  [k EXCEPT !.readings = r,
            !.status = IF HasAlarmCondition(k, r) /\ @ = "normal"
                       THEN "alarm" ELSE @]

CanLock(k, o) ==
  \/ k.status \in {"normal", "alarm"}
  \/ k.status = "locked" /\ k.lockOrder = o

Lock(k, o) == [k EXCEPT !.status = "locked", !.lockOrder = o]

Unlock_Forgotten(k) == k
Unlock_KeepsTheHolder(k) == [k EXCEPT !.status = "normal"]
Unlock(k) == [k EXCEPT !.status = "normal", !.lockOrder = Blank]

CanStartMaintenance(k) == k.status = "locked"

StartMaintenance(k) == [k EXCEPT !.status = "under_maintenance"]

------------------------------------------------------------------------------
(* The methods of a maintenance order.  m is the order's record. *)

NewMaintenanceOrder(c) ==
  [AbsentOrder EXCEPT !.status = "reported", !.cabin = c,
                      !.audit = <<"alarm_reported">>]

IsActive_ForgetsAcceptance(m) ==
  m.status \notin {"absent", "pending_acceptance", "closed"}
IsActive(m) == m.status \notin {"absent", "closed"}

AddDuplicateReporter_Unrecorded(m) ==
  [m EXCEPT !.audit = Append(@, "duplicate_report_suppressed")]
AddDuplicateReporter(m) ==
  [m EXCEPT !.duplicates = @ + 1,
            !.audit = Append(@, "duplicate_report_suppressed")]

CanDispatch(m) == m.status = "reported"

\* late: IsDispatchSLABreached, which DispatchMaintenance asks first.
Dispatch_SwapsArguments(m, d, e, b, late) ==
  [m EXCEPT !.primary = d, !.backup = b, !.engineer = d, !.status = "dispatched",
            !.audit = Append(@, "dispatched")]
Dispatch(m, d, e, b, late) ==
  [m EXCEPT !.primary = e, !.backup = b, !.engineer = e, !.status = "dispatched",
            !.audit = @ \o IF late THEN <<"dispatch_sla_breached", "dispatched">>
                                   ELSE <<"dispatched">>]

CanArrive(m, e) == m.status \in {"dispatched", "assigned"} /\ m.engineer = e

Arrive(m) ==
  [m EXCEPT !.status = "processing", !.audit = Append(@, "engineer_arrived")]

CanComplete(m, e) == m.status = "processing" /\ m.engineer = e

Complete_Unaudited(m) == [m EXCEPT !.status = "pending_acceptance"]
Complete(m) ==
  [m EXCEPT !.status = "pending_acceptance",
            !.audit = Append(@, "processing_completed")]

CanAccept_AnyTime(m, leader, station) ==
  m.status # "closed" /\ leader # Blank /\ station # Blank
CanAccept(m, leader, station) ==
  m.status = "pending_acceptance" /\ leader # Blank /\ station # Blank

Accept(m, leader, station) ==
  [m EXCEPT !.leader = leader, !.station = station, !.status = "closed",
            !.audit = @ \o <<"accepted_by_leader", "accepted_by_station",
                             "order_closed">>]

CanTransfer_NoBackup(m) == m.status = "dispatched"
CanTransfer_AnyTime(m) == m.backup # Blank
CanTransfer(m) == m.backup # Blank /\ m.status = "dispatched"

Transfer(m) ==
  [m EXCEPT !.engineer = m.backup, !.status = "assigned",
            !.transfers = @ + 1, !.audit = Append(@, "auto_transferred")]

------------------------------------------------------------------------------
(* The store's critical sections *)

\* A call that returns an error and has changed nothing.
Fail == reply' = "error" /\ UNCHANGED <<cabins, orders, reporting, received>>

\* Store.UpdateCabin, whose callback never fails here.
UpdateCabin(c, new) ==
  /\ cabins' = [cabins EXCEPT ![c] = new]
  /\ reply' = "ok"
  /\ UNCHANGED <<orders, reporting, received>>

\* Store.UpdateMaintenanceOrder: the callback fails unless ok.
UpdateMaintenanceOrder(o, ok, new) ==
  IF Stored(o) /\ ok
  THEN /\ orders' = [orders EXCEPT ![o] = new]
       /\ reply' = "ok"
       /\ UNCHANGED <<cabins, reporting, received>>
  ELSE Fail

\* Store.UpdateOrderAndCabin: the callback changes the order, then the cabin,
\* and either can refuse.  Nothing undoes the order's change when the cabin
\* refuses: the record is the one in the map, and only the error is returned.
UpdateOrderAndCabin(o, ok, new, cabinOK, newCabin) ==
  IF Stored(o) /\ Registered(orders[o].cabin) /\ ok
  THEN /\ orders' = [orders EXCEPT ![o] = new]
       /\ IF cabinOK
          THEN cabins' = [cabins EXCEPT ![orders[o].cabin] = newCabin] /\ reply' = "ok"
          ELSE reply' = "error" /\ UNCHANGED cabins
       /\ UNCHANGED <<reporting, received>>
  ELSE Fail

CabinOf(o) == cabins[orders[o].cabin]

------------------------------------------------------------------------------
(* The service *)

RegisterCabin(c, limit) ==
  IF c # Blank /\ limit > 0 /\ ~Registered(c)
  THEN UpdateCabin(c, NewCabin(limit))
  ELSE Fail

SubmitReadings(c, r) ==
  IF Registered(c) THEN UpdateCabin(c, ApplyReadings(cabins[c], r)) ELSE Fail

CanReport_AnyCabin(c, p) == p # Blank
CanReport(c, p) == p # Blank /\ Registered(c)

\* ReportAlarm, up to and including GetCabin.
BeginReport(c, p) ==
  IF CanReport(c, p)
  THEN /\ received < MaxReports
       /\ reporting' = [reporting EXCEPT ![c] = @ + 1]
       /\ received' = received + 1
       /\ reply' = "ok"
       /\ UNCHANGED <<cabins, orders>>
  ELSE Fail

ActiveOrders(c) == {o \in Orders : orders[o].cabin = c /\ IsActive(orders[o])}

\* Store.ReportAlarm.  The loop over the map stops at the first active order it
\* meets, in no particular order.
ReportAlarm(c) ==
  /\ reporting[c] > 0
  /\ reporting' = [reporting EXCEPT ![c] = @ - 1]
  /\ \/ \E o \in ActiveOrders(c) :
          /\ orders' = [orders EXCEPT ![o] = AddDuplicateReporter(orders[o])]
          /\ reply' = "duplicate"
     \/ \E o \in Orders :
          /\ ActiveOrders(c) = {}
          /\ ~Stored(o)
          /\ orders' = [orders EXCEPT ![o] = NewMaintenanceOrder(c)]
          /\ reply' = "created"
  /\ UNCHANGED <<cabins, received>>

DispatchMaintenance(o, d, e, b, late) ==
  IF d # Blank /\ e # Blank
  THEN UpdateOrderAndCabin(o, CanDispatch(orders[o]), Dispatch(orders[o], d, e, b, late),
                           CanLock(CabinOf(o), o), Lock(CabinOf(o), o))
  ELSE Fail

EngineerArrive(o, e) ==
  UpdateOrderAndCabin(o, CanArrive(orders[o], e), Arrive(orders[o]),
                      CanStartMaintenance(CabinOf(o)), StartMaintenance(CabinOf(o)))

CompleteProcessing(o, e) ==
  UpdateMaintenanceOrder(o, CanComplete(orders[o], e), Complete(orders[o]))

AcceptMaintenance(o, leader, station) ==
  UpdateOrderAndCabin(o, CanAccept(orders[o], leader, station),
                      Accept(orders[o], leader, station),
                      TRUE, Unlock(CabinOf(o)))

\* The critical section of TransferOrder; its notifications follow in Transfers.
TransferOrder(o) ==
  UpdateMaintenanceOrder(o, CanTransfer(orders[o]), Transfer(orders[o]))

------------------------------------------------------------------------------
Init ==
  /\ cabins = [c \in Cabins |-> AbsentCabin]
  /\ orders = [o \in Orders |-> AbsentOrder]
  /\ reporting = [c \in Cabins |-> 0]
  /\ received = 0
  /\ reply = "none"

\* Every request but the transfer, which Transfers takes further.
Handlers ==
  \/ \E c \in Cabins \cup {Blank}, limit \in Limits : RegisterCabin(c, limit)
  \/ \E c \in Cabins, r \in Readings : SubmitReadings(c, r)
  \/ \E c \in Cabins, p \in Parties \cup {Blank} : BeginReport(c, p)
  \/ \E c \in Cabins : ReportAlarm(c)
  \/ \E o \in Orders, d \in Parties \cup {Blank}, e, b \in Engineers \cup {Blank},
        late \in BOOLEAN : DispatchMaintenance(o, d, e, b, late)
  \/ \E o \in Orders, e \in Engineers \cup {Blank} : EngineerArrive(o, e)
  \/ \E o \in Orders, e \in Engineers \cup {Blank} : CompleteProcessing(o, e)
  \/ \E o \in Orders, leader, station \in Parties \cup {Blank} :
        AcceptMaintenance(o, leader, station)

Next == Handlers \/ \E o \in Orders : TransferOrder(o)

Spec == Init /\ [][Next]_vars

------------------------------------------------------------------------------
(* Properties *)

\* Every variable holds a value of the type the Go declarations give it.
TypeOK ==
  /\ cabins \in [Cabins -> Cabin]
  /\ orders \in [Orders -> Order]
  /\ reporting \in [Cabins -> Nat]
  /\ received \in 0..MaxReports
  /\ reply \in {"none", "ok", "error", "created", "duplicate"}

\* However reports interleave with each other and with the repair of the same
\* cabin, no cabin ever has two open orders (Store.ReportAlarm).
OneActiveOrderPerCabin ==
  \A o1, o2 \in Orders :
    /\ {orders[o1].status, orders[o2].status} \cap {"absent", "closed"} = {}
    /\ orders[o1].cabin = orders[o2].cabin
    => o1 = o2

\* The cabin and the order are two records; the cabin is locked by, or under
\* maintenance for, precisely the order that is out with an engineer, and is
\* held by nobody while no order is (UpdateOrderAndCabin keeps them in step).
HolderStatuses ==
  [locked |-> {"dispatched", "assigned"},
   under_maintenance |-> {"processing", "pending_acceptance"}]

CabinFollowsOrder ==
  /\ \A o \in Orders, s \in DOMAIN HolderStatuses :
       orders[o].status \in HolderStatuses[s] =>
         CabinOf(o).status = s /\ CabinOf(o).lockOrder = o
  /\ \A c \in Cabins :
       IF cabins[c].status \in DOMAIN HolderStatuses
       THEN \E o \in Orders :
              /\ cabins[c].lockOrder = o
              /\ orders[o].cabin = c
              /\ orders[o].status \in HolderStatuses[cabins[c].status]
       ELSE cabins[c].lockOrder = Blank

\* An order is only ever written for a registered cabin, although the check and
\* the write are in different critical sections (Service.ReportAlarm).
OrderHasCabin ==
  /\ \A o \in Orders : Stored(o) => Registered(orders[o].cabin)
  /\ \A c \in Cabins : reporting[c] > 0 => Registered(c)

\* A call that answers an error has changed neither the cabin nor the order: the
\* second half of UpdateOrderAndCabin, which nothing rolls back, never refuses
\* once the first half has changed the order.
FailedCallChangesNothing ==
  [][reply' = "error" => UNCHANGED <<cabins, orders>>]_vars

\* A cabin that is held stays with its order until the step in which that order,
\* pending acceptance, is closed with both signatures; only then does the cabin
\* become normal (Accept and Unlock are one critical section).
HeldUntilAccepted ==
  [][\A c \in Cabins :
       LET o == cabins[c].lockOrder
       IN o # Blank =>
            \/ cabins'[c].lockOrder = o /\ cabins'[c].status # "normal"
            \/ /\ cabins'[c].status = "normal"
               /\ orders[o].status = "pending_acceptance"
               /\ orders'[o].status = "closed"
               /\ orders'[o].leader # Blank /\ orders'[o].station # Blank]_vars

\* An alarmed cabin never quietly turns normal: it leaves the alarm only into the
\* lock of an order that is dispatched in the same step.
AlarmEndsInDispatch ==
  [][\A c \in Cabins :
       cabins[c].status = "alarm" /\ cabins'[c].status # "alarm" =>
         /\ cabins'[c].status = "locked"
         /\ \E o \in Orders :
              /\ cabins'[c].lockOrder = o
              /\ orders[o].status = "reported" /\ orders'[o].status = "dispatched"]_vars

\* An order out with an engineer is out with the primary, or after its one
\* transfer with the backup: manual and automatic transfers never add up
\* (MaintenanceOrder.Transfer).
EngineerOfRecord ==
  \A o \in Orders :
    LET m == orders[o]
    IN /\ m.status \in {"absent", "reported"} => m.engineer = Blank /\ m.transfers = 0
       /\ m.status \notin {"absent", "reported"} =>
            /\ m.engineer \in Engineers
            /\ \/ m.transfers = 0 /\ m.engineer = m.primary
               \/ m.transfers = 1 /\ m.engineer = m.backup

\* The steps of one repair, from the alarm to the end.
Repairs ==
  {<<"alarm_reported">> \o late \o <<"dispatched">> \o moved \o
   <<"engineer_arrived", "processing_completed", "accepted_by_leader",
     "accepted_by_station", "order_closed">> :
     late \in {<< >>, <<"dispatch_sla_breached">>},
     moved \in {<< >>, <<"auto_transferred">>}}

\* The status that a step leaves an order in; the others have more to follow.
StatusAfter ==
  [alarm_reported |-> "reported", dispatched |-> "dispatched",
   auto_transferred |-> "assigned", engineer_arrived |-> "processing",
   processing_completed |-> "pending_acceptance", order_closed |-> "closed"]

\* The positions of a trail's entries that are steps of the repair, and the number
\* of the step at one of them.
Steps(trail) == {i \in DOMAIN trail : trail[i] # "duplicate_report_suppressed"}
StepNumber(trail, i) == Cardinality({j \in Steps(trail) : j <= i})

\* The audit trail alone tells where an order stands: its entries, suppressed
\* duplicates aside, are the steps of one repair, in order, up to the status
\* the order has ("every state transition is recorded for traceability").
AuditTellsStatus ==
  \A o \in Orders : Stored(o) =>
    LET trail == orders[o].audit
        last == Cardinality(Steps(trail))
    IN \E r \in Repairs :
         /\ last \in 1..Len(r)
         /\ \A i \in Steps(trail) : trail[i] = r[StepNumber(trail, i)]
         /\ r[last] \in DOMAIN StatusAfter
         /\ StatusAfter[r[last]] = orders[o].status

\* The reports in flight, and those that the orders record: the one that opened it
\* is the 0 of each.
InFlight == UNION {{c} \X (1..reporting[c]) : c \in Cabins}
Recorded == UNION {{o} \X (0..orders[o].duplicates) : o \in {x \in Orders : Stored(x)}}

\* No report is lost and none is counted twice: each one opened an order, is
\* recorded as a duplicate on one, or is still in flight (Store.ReportAlarm).
NoReportLost == received = Cardinality(InFlight) + Cardinality(Recorded)

\* The cabins and the orders together are one repair desk: every step of the
\* store is a step of RepairDesk or leaves it alone (UpdateOrderAndCabin,
\* Store.ReportAlarm).
Desk == INSTANCE RepairDesk WITH
  None <- Blank,
  open <- [c \in Cabins |-> IF ActiveOrders(c) = {} THEN Blank
                            ELSE CHOOSE o \in ActiveOrders(c) : TRUE],
  hold <- [c \in Cabins |->
             [phase |-> IF cabins[c].status \in DOMAIN HolderStatuses
                        THEN cabins[c].status ELSE "free",
              by |-> cabins[c].lockOrder]],
  used <- {o \in Orders : Stored(o)}

IsARepairDesk == Desk!Spec

Breached(k) == k.readings # Nil /\ HasAlarmCondition(k, k.readings)

\* "ApplyReadings records measurements and transitions to alarm if breached":
\* readings that breach the limits leave the cabin in alarm.  A cabin out of
\* order keeps its status, and Unlock later makes it normal whatever was read.
BreachRaisesAlarm ==
  [][\A c \in Cabins :
       ~Breached(cabins[c]) /\ Breached(cabins'[c]) => cabins'[c].status = "alarm"]_vars

==============================================================================
