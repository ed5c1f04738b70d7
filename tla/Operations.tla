----------------------------- MODULE Operations ------------------------------
(***************************************************************************)
(* Grid connections and black starts, which a dispatcher initiates and a   *)
(* supply station confirms before anybody can execute them.  Requests of   *)
(* several clients meet in the store; each handler is one critical section *)
(* (an operation is not in the map before SaveOperation puts it there).    *)
(***************************************************************************)
EXTENDS Naturals, Sequences, SequencesExt

CONSTANTS
  Ops,       \* the ids NextID can hand out; an exhausted pool bounds a model
  People,    \* dispatchers and stations; the code does not tell them apart
  Blank,     \* the empty string
  MaxAudit   \* bound: entries of an audit trail, which repeated cancels prolong

ASSUME OperationsAssumption ==
  /\ Blank \notin People
  /\ MaxAudit \in Nat

VARIABLES
  ops,       \* Store.operations
  reply      \* what the last call answered

vars == <<ops, reply>>

AuditActions ==
  {"operation_initiated", "station_confirmed", "operation_executed",
   "operation_cancelled"}

Operation ==
  [status     : {"absent", "pending_confirmation", "confirmed", "executed", "cancelled"},
   dispatcher : People \cup {Blank},
   station    : People \cup {Blank},
   dispatcherConfirmed : BOOLEAN,
   stationConfirmed    : BOOLEAN,
   audit      : Seq(AuditActions)]

\* An id that is no key of the map.
AbsentOperation ==
  [status |-> "absent", dispatcher |-> Blank, station |-> Blank,
   dispatcherConfirmed |-> FALSE, stationConfirmed |-> FALSE, audit |-> << >>]

Stored(o) == ops[o].status # "absent"

------------------------------------------------------------------------------
(* The methods of an operation.  w is the operation's record. *)

NewOperation(d) ==
  [AbsentOperation EXCEPT !.status = "pending_confirmation", !.dispatcher = d,
                          !.dispatcherConfirmed = TRUE,
                          !.audit = <<"operation_initiated">>]

CanConfirm(w, s) ==
  /\ w.status \in {"pending_confirmation", "confirmed"}
  /\ w.stationConfirmed => w.station = s

\* Confirming again with the same station changes nothing.
ConfirmByStation_AuditsAgain(w, s) ==
  [w EXCEPT !.station = s, !.stationConfirmed = TRUE, !.status = "confirmed",
            !.audit = Append(@, "station_confirmed")]
ConfirmByStation(w, s) ==
  IF w.stationConfirmed THEN w
  ELSE [w EXCEPT !.station = s, !.stationConfirmed = TRUE, !.status = "confirmed",
                 !.audit = Append(@, "station_confirmed")]

CanExecute_OnFlags(w) == w.dispatcherConfirmed /\ w.stationConfirmed
CanExecute(w) ==
  w.dispatcherConfirmed /\ w.stationConfirmed /\ w.status = "confirmed"

Execute(w) ==
  [w EXCEPT !.status = "executed", !.audit = Append(@, "operation_executed")]

CanCancel(w) == w.status # "executed"

Cancel_Misspelled(w) ==
  [w EXCEPT !.status = "canceled", !.audit = Append(@, "operation_cancelled")]
Cancel(w) ==
  [w EXCEPT !.status = "cancelled", !.audit = Append(@, "operation_cancelled")]

------------------------------------------------------------------------------
(* The store and the service *)

Fail == reply' = "error" /\ UNCHANGED ops

\* Store.UpdateOperation: the callback fails unless ok.
UpdateOperation(o, ok, new) ==
  IF Stored(o) /\ ok
  THEN ops' = [ops EXCEPT ![o] = new] /\ reply' = "ok"
  ELSE Fail

InitiateOperation(o, d) ==
  IF d # Blank
  THEN /\ ~Stored(o)
       /\ ops' = [ops EXCEPT ![o] = NewOperation(d)]
       /\ reply' = "ok"
  ELSE Fail

ConfirmOperation(o, s) ==
  IF s # Blank
  THEN UpdateOperation(o, CanConfirm(ops[o], s), ConfirmByStation(ops[o], s))
  ELSE Fail

ExecuteOperation(o) == UpdateOperation(o, CanExecute(ops[o]), Execute(ops[o]))

\* Anybody can cancel, without a name too.
CancelOperation(o) ==
  /\ Len(ops[o].audit) < MaxAudit
  /\ UpdateOperation(o, CanCancel(ops[o]), Cancel(ops[o]))

------------------------------------------------------------------------------
Init ==
  /\ ops = [o \in Ops |-> AbsentOperation]
  /\ reply = "none"

Next ==
  \/ \E o \in Ops, d \in People \cup {Blank} : InitiateOperation(o, d)
  \/ \E o \in Ops, s \in People \cup {Blank} : ConfirmOperation(o, s)
  \/ \E o \in Ops : ExecuteOperation(o)
  \/ \E o \in Ops : CancelOperation(o)

Spec == Init /\ [][Next]_vars

------------------------------------------------------------------------------
(* Properties *)

TypeOK ==
  /\ ops \in [Ops -> Operation]
  /\ reply \in {"none", "ok", "error"}

\* The status, the two flags, the two names and the audit trail are kept apart in
\* the record and never disagree: a name is there exactly when its flag is, and
\* every change of the status is in the trail once, whatever calls were repeated.
RecordAgrees ==
  \A o \in Ops : Stored(o) =>
    LET w == ops[o]
        confirmed == IF w.stationConfirmed THEN <<"station_confirmed">> ELSE << >>
        steps == <<"operation_initiated">> \o confirmed
    IN /\ w.dispatcherConfirmed /\ w.dispatcher # Blank
       /\ w.stationConfirmed <=> w.station # Blank
       /\ CASE w.status = "pending_confirmation" -> ~w.stationConfirmed /\ w.audit = steps
            [] w.status = "confirmed" -> w.stationConfirmed /\ w.audit = steps
            [] w.status = "executed" ->
                 w.stationConfirmed /\ w.audit = Append(steps, "operation_executed")
            [] w.status = "cancelled" ->
                 /\ IsStrictPrefix(steps, w.audit)
                 /\ \A i \in Len(steps) + 1 .. Len(w.audit) :
                      w.audit[i] = "operation_cancelled"

\* However confirmations, executions and cancellations of several clients
\* interleave, each operation is under dual control: ordered and agreed to before
\* it is carried out, agreed to by one station for good, and carried out or called
\* off but never both (Operation.CanExecute, Execute, Cancel, ConfirmByStation).
Control == INSTANCE DualControl WITH
  Nobody <- Blank,
  ordered <- [o \in Ops |-> ops[o].dispatcher],
  agreed <- [o \in Ops |-> ops[o].station],
  outcome <- [o \in Ops |-> IF ops[o].status = "executed" THEN "carried_out"
                           ELSE IF ops[o].status = "cancelled" THEN "called_off"
                           ELSE "open"]

IsDualControl == Control!Spec

\* "Cancel aborts a pending or confirmed operation": nothing else is cancelled.
CancelsWhatIsOpen ==
  [][\A o \in Ops :
       /\ ops'[o].audit # ops[o].audit
       /\ ops'[o].status = "cancelled"
       => ops[o].status \in {"pending_confirmation", "confirmed"}]_vars

==============================================================================
