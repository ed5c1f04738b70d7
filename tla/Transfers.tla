------------------------------ MODULE Transfers ------------------------------
(***************************************************************************)
(* The transfer of a maintenance order to its backup engineer: the         *)
(* scheduler's, when the engineer is overdue, and the dispatcher's own.    *)
(* The scheduler lists the overdue orders under one lock and transfers     *)
(* each under another, so the engineer, or a client with a transfer of its *)
(* own, can come in between.  Both send their two messages after the       *)
(* unlock, and read the order again while they do.                         *)
(***************************************************************************)
EXTENDS Integers, Sequences, FiniteSets

CONSTANTS Cabins, Orders, Engineers, Parties, Limits, Temps, Blank, Nil, MaxReports

\* What Maintenance assumes of them.
ASSUME TransfersAssumption ==
  /\ Blank \notin Cabins \cup Orders \cup Engineers \cup Parties
  /\ Limits \subseteq Int
  /\ Temps \subseteq Int
  /\ MaxReports \in Nat

VARIABLES
  cabins, orders, reporting, received, reply,   \* as in Maintenance
  late,      \* orders that TransferTimeout has passed for since their DispatchedAt
  listed,    \* orders the scheduler has found overdue and not come to yet
  texting,   \* who has transferred an order and how many messages that leaves
  told       \* SMSNotifier.messages: whom the messages about an order went to

deskVars == <<cabins, orders, reporting, received, reply>>
vars == <<cabins, orders, reporting, received, reply, late, listed, texting, told>>

Desk == INSTANCE Maintenance

------------------------------------------------------------------------------
(* Time *)

\* MaintenanceOrder.IsTransferOverdue.
IsTransferOverdue_IgnoresTimeout(o) == orders[o].status = "dispatched"
IsTransferOverdue(o) == orders[o].status = "dispatched" /\ o \in late

\* The timeout passes for an order that has a DispatchedAt.
TimeoutPasses(o) ==
  /\ orders[o].status \notin {"absent", "reported"}
  /\ late' = late \cup {o}
  /\ UNCHANGED <<deskVars, listed, texting, told>>

------------------------------------------------------------------------------
(* Service.TransferOrder: the critical section, then Send and Send *)

Transfer(o, who) ==
  /\ Desk!TransferOrder(o)
  /\ texting' = [texting EXCEPT ![o] = IF reply' = "ok" THEN [by |-> who, left |-> 2] ELSE @]
  /\ UNCHANGED <<late, told>>

\* To the primary engineer first, then to the backup.
Addressee_Swapped(o) ==
  IF texting[o].left = 1 THEN orders[o].primary ELSE orders[o].backup
Addressee(o) ==
  IF texting[o].left = 2 THEN orders[o].primary ELSE orders[o].backup

Send_OnlyOnce(o) ==
  /\ texting[o].left = 2
  /\ told' = [told EXCEPT ![o] = Append(@, Addressee(o))]
  /\ texting' = [texting EXCEPT ![o].left = @ - 1]
  /\ UNCHANGED <<deskVars, late, listed>>
Send(o) ==
  /\ texting[o].left > 0
  /\ told' = [told EXCEPT ![o] = Append(@, Addressee(o))]
  /\ texting' = [texting EXCEPT ![o].left = @ - 1]
  /\ UNCHANGED <<deskVars, late, listed>>

\* handleTransferOrder; its two messages are Send.
ManualTransfer(o) == Transfer(o, "client") /\ UNCHANGED listed

------------------------------------------------------------------------------
(* The scheduler: CheckOverdueTransfers *)

\* It sends both messages before it turns to the next order.
SchedulerIsFree == \A o \in Orders : texting[o].by = "scheduler" => texting[o].left = 0

\* Store.OverdueTransferOrders
ListOverdue ==
  /\ SchedulerIsFree /\ listed = {}
  /\ listed' = {o \in Orders : IsTransferOverdue(o)}
  /\ UNCHANGED <<deskVars, late, texting, told>>

\* An order that cannot be transferred is skipped.
AutoTransfer_StopsAtError(o) ==
  /\ SchedulerIsFree /\ o \in listed
  /\ Transfer(o, "scheduler")
  /\ listed' = IF reply' = "ok" THEN listed \ {o} ELSE {}
AutoTransfer(o) ==
  /\ SchedulerIsFree /\ o \in listed
  /\ listed' = listed \ {o}
  /\ Transfer(o, "scheduler")

------------------------------------------------------------------------------
Init ==
  /\ Desk!Init
  /\ late = {}
  /\ listed = {}
  /\ texting = [o \in Orders |-> [by |-> "nobody", left |-> 0]]
  /\ told = [o \in Orders |-> << >>]

Next ==
  \/ Desk!Handlers /\ UNCHANGED <<late, listed, texting, told>>
  \/ \E o \in Orders : ManualTransfer(o)
  \/ \E o \in Orders : AutoTransfer(o)
  \/ \E o \in Orders : Send(o)
  \/ \E o \in Orders : TimeoutPasses(o)
  \/ ListOverdue

\* The ticker keeps the scheduler going until the shutdown, a goroutine that holds
\* a transferred order runs to its end, and no lock is held across a wait.
\* Nothing is assumed of the clients, nor of the time that passes.
Fairness ==
  /\ WF_vars(ListOverdue)
  /\ WF_vars(\E o \in Orders : AutoTransfer(o))
  /\ \A o \in Orders : WF_vars(Send(o))

Spec == Init /\ [][Next]_vars /\ Fairness

------------------------------------------------------------------------------
(* Properties *)

\* The types of what this module adds; Maintenance has those of the rest.
TypeOK ==
  /\ late \subseteq Orders
  /\ listed \subseteq Orders
  /\ texting \in [Orders -> [by : {"nobody", "scheduler", "client"}, left : 0..2]]
  /\ told \in [Orders -> Seq(Engineers)]

\* The scheduler takes an order away from an engineer only when the timeout has
\* passed, although it acts on a list that is old by then and TransferOrder does
\* not ask for the time again (Service.CheckOverdueTransfers).
OnlyOverdueIsTaken ==
  \A o \in Orders : texting[o].by = "scheduler" => o \in late

\* An engineer who has arrived keeps the order: neither the scheduler's list from
\* before the arrival nor a client's transfer changes who works on it
\* (MaintenanceOrder.Transfer, EngineerArrive).
ArrivedEngineerStays ==
  [][\A o \in Orders :
       orders[o].status \in {"processing", "pending_acceptance", "closed"} =>
         orders'[o].engineer = orders[o].engineer]_vars

\* Scheduler and clients together tell each engineer once: the primary first, then
\* the backup, only about orders that were transferred, and the names the messages
\* go to, which are read after the unlock, are those of the transfer
\* (Service.TransferOrder).
BothAreToldOnce ==
  \A o \in Orders :
    LET m == orders[o]
    IN /\ Len(told[o]) + texting[o].left = 2 * m.transfers
       /\ told[o] = SubSeq(<<m.primary, m.backup>>, 1, Len(told[o]))

\* "if the primary engineer does not arrive within the configured timeout, the
\* order is auto-transferred to the backup engineer", if it has one: nobody waits
\* for an overdue engineer for ever.
OverdueIsTransferred ==
  \A o \in Orders :
    IsTransferOverdue(o) /\ orders[o].backup # Blank ~> orders[o].status # "dispatched"

\* "with SMS notification to both": whoever transfers an order, both messages go out.
TransferIsTold == \A o \in Orders : orders[o].transfers > 0 ~> Len(told[o]) = 2

==============================================================================
