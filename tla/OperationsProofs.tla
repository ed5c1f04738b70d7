--------------------------- MODULE OperationsProofs --------------------------
(***************************************************************************)
(* The store's operations implement dual control, for any number of        *)
(* operations and people and any number of repeated calls.                 *)
(***************************************************************************)
EXTENDS Operations, SequenceTheorems, TLAPS

USE OperationsAssumption

------------------------------------------------------------------------------
(* Types *)

LEMMA OperationMethodsType ==
  ASSUME NEW w \in Operation
  PROVE  /\ \A s \in People : ConfirmByStation(w, s) \in Operation
         /\ Execute(w) \in Operation
         /\ Cancel(w) \in Operation
<1>0. \A a \in AuditActions : Append(w.audit, a) \in Seq(AuditActions)
  <2>1. w.audit \in Seq(AuditActions)
    BY DEF Operation
  <2>2. QED
    BY <2>1
<1>1. ASSUME NEW s \in People
      PROVE  ConfirmByStation(w, s) \in Operation
  <2>1. Append(w.audit, "station_confirmed") \in Seq(AuditActions)
    BY <1>0 DEF AuditActions
  <2>2. QED
    BY <2>1 DEF ConfirmByStation, Operation
<1>2. Execute(w) \in Operation
  <2>1. Append(w.audit, "operation_executed") \in Seq(AuditActions)
    BY <1>0 DEF AuditActions
  <2>2. QED
    BY <2>1 DEF Execute, Operation
<1>3. Cancel(w) \in Operation
  <2>1. Append(w.audit, "operation_cancelled") \in Seq(AuditActions)
    BY <1>0 DEF AuditActions
  <2>2. QED
    BY <2>1 DEF Cancel, Operation
<1>4. QED
  BY <1>1, <1>2, <1>3

LEMMA NewOperationType == \A d \in People : NewOperation(d) \in Operation
<1>1. <<"operation_initiated">> \in Seq(AuditActions)
  BY DEF AuditActions
<1>2. QED
  BY <1>1 DEF NewOperation, AbsentOperation, Operation

LEMMA TypeInit == Init => TypeOK
BY DEF Init, TypeOK, AbsentOperation, Operation

\* What a step of the store is: a refusal, or a new record for one operation.
Replaced(o, new) == ops' = [ops EXCEPT ![o] = new]

LEMMA Steps ==
  ASSUME Next
  PROVE  \/ UNCHANGED ops
         \/ \E o \in Ops : \/ \E d \in People : ~Stored(o) /\ Replaced(o, NewOperation(d))
                           \/ \E s \in People : /\ Stored(o) /\ CanConfirm(ops[o], s)
                                                /\ Replaced(o, ConfirmByStation(ops[o], s))
                           \/ Stored(o) /\ CanExecute(ops[o]) /\ Replaced(o, Execute(ops[o]))
                           \/ Stored(o) /\ CanCancel(ops[o]) /\ Replaced(o, Cancel(ops[o]))
<1> USE DEF Fail, UpdateOperation, Replaced
<1>1. ASSUME NEW o \in Ops, NEW d \in People \cup {Blank}, InitiateOperation(o, d), d # Blank
      PROVE  d \in People /\ ~Stored(o) /\ Replaced(o, NewOperation(d))
  BY <1>1 DEF InitiateOperation
<1>2. ASSUME NEW o \in Ops, NEW s \in People \cup {Blank}, ConfirmOperation(o, s),
             ~UNCHANGED ops
      PROVE  /\ s \in People /\ Stored(o) /\ CanConfirm(ops[o], s)
             /\ Replaced(o, ConfirmByStation(ops[o], s))
  BY <1>2 DEF ConfirmOperation
<1>3. ASSUME NEW o \in Ops, ExecuteOperation(o), ~UNCHANGED ops
      PROVE  Stored(o) /\ CanExecute(ops[o]) /\ Replaced(o, Execute(ops[o]))
  BY <1>3 DEF ExecuteOperation
<1>4. ASSUME NEW o \in Ops, CancelOperation(o), ~UNCHANGED ops
      PROVE  Stored(o) /\ CanCancel(ops[o]) /\ Replaced(o, Cancel(ops[o]))
  BY <1>4 DEF CancelOperation
<1>5. ASSUME NEW o \in Ops, InitiateOperation(o, Blank)
      PROVE  UNCHANGED ops
  BY <1>5 DEF InitiateOperation
<1>6. QED
  BY <1>1, <1>2, <1>3, <1>4, <1>5 DEF Next

LEMMA TypeStep == TypeOK /\ [Next]_vars => TypeOK'
<1> SUFFICES ASSUME TypeOK, [Next]_vars
             PROVE  TypeOK'
  OBVIOUS
<1>1. reply' \in {"none", "ok", "error"}
  BY DEF TypeOK, Next, vars, InitiateOperation, ConfirmOperation, ExecuteOperation,
         CancelOperation, UpdateOperation, Fail
<1>2. ASSUME NEW o \in Ops, NEW new \in Operation, Replaced(o, new)
      PROVE  ops' \in [Ops -> Operation]
  BY <1>2 DEF TypeOK, Replaced
<1>3. \A o \in Ops : ops[o] \in Operation
  BY DEF TypeOK
<1>4. ops' \in [Ops -> Operation]
  <2>1. CASE UNCHANGED ops
    BY <2>1 DEF TypeOK
  <2>2. CASE ~UNCHANGED ops
    <3>1. PICK o \in Ops : \/ \E d \in People : Replaced(o, NewOperation(d))
                           \/ \E s \in People : Replaced(o, ConfirmByStation(ops[o], s))
                           \/ Replaced(o, Execute(ops[o]))
                           \/ Replaced(o, Cancel(ops[o]))
      BY <2>2, Steps DEF vars
    <3>2. QED
      BY <1>2, <1>3, <3>1, OperationMethodsType, NewOperationType
  <2>3. QED
    BY <2>1, <2>2
<1>5. QED
  BY <1>1, <1>4 DEF TypeOK

\* Every operation keeps its type, whatever calls are repeated (Store.UpdateOperation).
THEOREM TypeCorrect == Spec => []TypeOK
<1>1. QED
  BY TypeInit, TypeStep, PTL DEF Spec

------------------------------------------------------------------------------
(* Dual control *)

\* The part of RecordAgrees that the refinement needs: the names are there exactly
\* when they should be, and an operation that waits has no station yet.
NamesAgree(w) ==
  /\ w.status = "absent" => w.dispatcher = Blank /\ w.station = Blank
  /\ w.status # "absent" => w.dispatcher # Blank /\ w.dispatcherConfirmed
  /\ w.stationConfirmed <=> w.station # Blank
  /\ w.status = "pending_confirmation" => ~w.stationConfirmed
  /\ w.status = "confirmed" => w.stationConfirmed

IInv == TypeOK /\ \A o \in Ops : NamesAgree(ops[o])

LEMMA MethodsKeepNames ==
  ASSUME NEW w \in Operation, NamesAgree(w)
  PROVE  /\ \A d \in People : NamesAgree(NewOperation(d))
         /\ \A s \in People : CanConfirm(w, s) => NamesAgree(ConfirmByStation(w, s))
         /\ CanExecute(w) => NamesAgree(Execute(w))
         /\ w.status # "absent" => NamesAgree(Cancel(w))
<1>1. \A d \in People : NamesAgree(NewOperation(d))
  BY DEF NamesAgree, NewOperation, AbsentOperation
<1>2. ASSUME NEW s \in People, CanConfirm(w, s)
      PROVE  NamesAgree(ConfirmByStation(w, s))
  BY <1>2 DEF NamesAgree, CanConfirm, ConfirmByStation, Operation
<1>3. CanExecute(w) => NamesAgree(Execute(w))
  BY DEF NamesAgree, CanExecute, Execute, Operation
<1>4. w.status # "absent" => NamesAgree(Cancel(w))
  BY DEF NamesAgree, Cancel, Operation
<1>5. QED
  BY <1>1, <1>2, <1>3, <1>4

LEMMA IInvInit == Init => IInv
BY TypeInit DEF Init, IInv, NamesAgree, AbsentOperation

LEMMA IInvStep == IInv /\ [Next]_vars => IInv'
<1> SUFFICES ASSUME IInv, [Next]_vars
             PROVE  IInv'
  OBVIOUS
<1>1. TypeOK'
  BY TypeStep DEF IInv
<1>2. ops \in [Ops -> Operation] /\ \A o \in Ops : ops[o] \in Operation /\ NamesAgree(ops[o])
  BY DEF IInv, TypeOK
<1>3. ASSUME NEW o \in Ops, NEW new, Replaced(o, new), NamesAgree(new)
      PROVE  \A x \in Ops : NamesAgree(ops'[x])
  BY <1>2, <1>3 DEF Replaced
<1>4. \A x \in Ops : NamesAgree(ops'[x])
  <2>1. CASE UNCHANGED ops
    BY <1>2, <2>1
  <2>2. CASE ~UNCHANGED ops
    BY <1>2, <1>3, <2>2, Steps, MethodsKeepNames DEF vars, Stored
  <2>3. QED
    BY <2>1, <2>2
<1>5. \A x \in Ops : NamesAgree(ops[x])'
  BY <1>4
<1>6. QED
  BY <1>1, <1>5 DEF IInv

LEMMA Invariance == Spec => []IInv
<1>1. QED
  BY IInvInit, IInvStep, PTL DEF Spec

\* What DualControl sees of an operation's record.
Outcome(w) == IF w.status = "executed" THEN "carried_out"
              ELSE IF w.status = "cancelled" THEN "called_off"
              ELSE "open"

LEMMA ControlInit == Init => Control!Init
BY DEF Init, Control!Init, AbsentOperation

\* Replacing one record changes the abstract state at one operation only.
LEMMA ControlReplaced ==
  ASSUME TypeOK, NEW o \in Ops, NEW new \in Operation, Replaced(o, new)
  PROVE  /\ [x \in Ops |-> ops'[x].dispatcher]
              = [[x \in Ops |-> ops[x].dispatcher] EXCEPT ![o] = new.dispatcher]
         /\ [x \in Ops |-> ops'[x].station]
              = [[x \in Ops |-> ops[x].station] EXCEPT ![o] = new.station]
         /\ [x \in Ops |-> Outcome(ops'[x])]
              = [[x \in Ops |-> Outcome(ops[x])] EXCEPT ![o] = Outcome(new)]
<1>1. \A x \in Ops : ops'[x] = IF x = o THEN new ELSE ops[x]
  BY DEF TypeOK, Replaced
<1>2. QED
  BY <1>1

\* A step of the store is a step of DualControl, or it repeats what was done.
LEMMA ControlStep == IInv /\ [Next]_vars => [Control!Next]_(Control!dualVars)
<1> SUFFICES ASSUME IInv, [Next]_vars
             PROVE  Control!Next \/ UNCHANGED Control!dualVars
  OBVIOUS
<1> DEFINE ordered == [x \in Ops |-> ops[x].dispatcher]
           agreed  == [x \in Ops |-> ops[x].station]
           outcome == [x \in Ops |-> Outcome(ops[x])]
<1>1. TypeOK /\ \A o \in Ops : ops[o] \in Operation /\ NamesAgree(ops[o])
  BY DEF IInv, TypeOK
<1>2. CASE UNCHANGED ops
  BY <1>2 DEF Control!dualVars
<1>3. ASSUME NEW o \in Ops, NEW d \in People, ~Stored(o), Replaced(o, NewOperation(d))
      PROVE  Control!Order(o, d)
  <2>1. NewOperation(d) \in Operation
    BY NewOperationType
  <2>2. /\ ordered' = [ordered EXCEPT ![o] = NewOperation(d).dispatcher]
        /\ agreed' = [agreed EXCEPT ![o] = NewOperation(d).station]
        /\ outcome' = [outcome EXCEPT ![o] = Outcome(NewOperation(d))]
    BY <1>1, <1>3, <2>1, ControlReplaced
  <2>3. /\ NewOperation(d).dispatcher = d
        /\ NewOperation(d).station = Blank
        /\ Outcome(NewOperation(d)) = "open"
    BY DEF NewOperation, AbsentOperation, Outcome
  <2>4. ordered[o] = Blank /\ agreed[o] = Blank /\ outcome[o] = "open"
    BY <1>1, <1>3 DEF NamesAgree, Stored, Outcome
  <2>5. agreed' = agreed /\ outcome' = outcome
    <3>1. agreed' = [agreed EXCEPT ![o] = agreed[o]]
      BY <2>2, <2>3, <2>4
    <3>2. outcome' = [outcome EXCEPT ![o] = outcome[o]]
      BY <2>2, <2>3, <2>4
    <3>3. \A x \in Ops : agreed'[x] = agreed[x] /\ outcome'[x] = outcome[x]
      BY <3>1, <3>2
    <3>4. QED
      BY <3>3
  <2>6. ordered[o] = Blank /\ ordered' = [ordered EXCEPT ![o] = d]
    BY <2>2, <2>3, <2>4
  <2>7. QED
    BY <2>5, <2>6 DEF Control!Order, Outcome
<1>4. ASSUME NEW o \in Ops, NEW s \in People, Stored(o), CanConfirm(ops[o], s),
             Replaced(o, ConfirmByStation(ops[o], s))
      PROVE  Control!Agree(o, s) \/ UNCHANGED Control!dualVars
  <2>1. CASE ops[o].stationConfirmed
    <3>1. ops' = ops
      BY <1>1, <1>4, <2>1 DEF ConfirmByStation, Replaced, TypeOK
    <3>2. QED
      BY <3>1 DEF Control!dualVars
  <2>2. CASE ~ops[o].stationConfirmed
    <3> DEFINE new == ConfirmByStation(ops[o], s)
    <3>1. new \in Operation
      BY <1>1, OperationMethodsType
    <3>2. /\ ordered' = [ordered EXCEPT ![o] = new.dispatcher]
          /\ agreed' = [agreed EXCEPT ![o] = new.station]
          /\ outcome' = [outcome EXCEPT ![o] = Outcome(new)]
      BY <1>1, <1>4, <3>1, ControlReplaced
    <3>3. new.dispatcher = ops[o].dispatcher /\ new.station = s /\ Outcome(new) = "open"
      BY <1>1, <2>2 DEF ConfirmByStation, Outcome, Operation
    <3>4. ordered[o] # Blank /\ agreed[o] = Blank /\ outcome[o] = "open"
      BY <1>1, <1>4, <2>2 DEF NamesAgree, Stored, CanConfirm, Outcome
    <3>5. QED
      BY <3>2, <3>3, <3>4 DEF Control!Agree, Outcome
  <2>3. QED
    BY <2>1, <2>2
<1>5. ASSUME NEW o \in Ops, Stored(o), CanExecute(ops[o]), Replaced(o, Execute(ops[o]))
      PROVE  Control!CarryOut(o)
  <2> DEFINE new == Execute(ops[o])
  <2>1. new \in Operation
    BY <1>1, OperationMethodsType
  <2>2. /\ ordered' = [ordered EXCEPT ![o] = new.dispatcher]
        /\ agreed' = [agreed EXCEPT ![o] = new.station]
        /\ outcome' = [outcome EXCEPT ![o] = Outcome(new)]
    BY <1>1, <1>5, <2>1, ControlReplaced
  <2>3. /\ new.dispatcher = ops[o].dispatcher /\ new.station = ops[o].station
        /\ Outcome(new) = "carried_out"
    BY <1>1 DEF Execute, Outcome, Operation
  <2>4. ordered[o] # Blank /\ agreed[o] # Blank /\ outcome[o] = "open"
    BY <1>1, <1>5 DEF NamesAgree, Stored, CanExecute, Outcome
  <2>5. ordered' = ordered /\ agreed' = agreed
    BY <2>2, <2>3
  <2>6. outcome' = [outcome EXCEPT ![o] = "carried_out"]
    BY <2>2, <2>3
  <2>7. QED
    BY <2>4, <2>5, <2>6 DEF Control!CarryOut, Outcome
<1>6. ASSUME NEW o \in Ops, Stored(o), CanCancel(ops[o]), Replaced(o, Cancel(ops[o]))
      PROVE  Control!CallOff(o) \/ UNCHANGED Control!dualVars
  <2> DEFINE new == Cancel(ops[o])
  <2>1. new \in Operation
    BY <1>1, OperationMethodsType
  <2>2. /\ ordered' = [ordered EXCEPT ![o] = new.dispatcher]
        /\ agreed' = [agreed EXCEPT ![o] = new.station]
        /\ outcome' = [outcome EXCEPT ![o] = Outcome(new)]
    BY <1>1, <1>6, <2>1, ControlReplaced
  <2>3. /\ new.dispatcher = ops[o].dispatcher /\ new.station = ops[o].station
        /\ Outcome(new) = "called_off"
    BY <1>1 DEF Cancel, Outcome, Operation
  <2>4. ordered[o] # Blank
    BY <1>1, <1>6 DEF NamesAgree, Stored
  <2>5. outcome[o] = "open" \/ outcome[o] = "called_off"
    BY <1>6 DEF CanCancel, Outcome
  <2>6. ordered' = ordered /\ agreed' = agreed
    BY <2>2, <2>3
  <2>7. outcome' = [outcome EXCEPT ![o] = "called_off"]
    BY <2>2, <2>3
  <2>8. CASE outcome[o] = "open"
    BY <2>4, <2>6, <2>7, <2>8 DEF Control!CallOff, Outcome
  <2>9. CASE outcome[o] = "called_off"
    <3>1. outcome' = outcome
      BY <2>7, <2>9
    <3>2. QED
      BY <2>6, <3>1 DEF Control!dualVars, Outcome
  <2>10. QED
    BY <2>5, <2>8, <2>9
<1>7. CASE Next /\ ~UNCHANGED ops
  BY <1>3, <1>4, <1>5, <1>6, <1>7, Steps DEF Control!Next
<1>8. QED
  BY <1>2, <1>7 DEF vars

\* The operations of the store implement dual control: ordered, agreed to by one
\* station and then carried out, or called off, and never both, however the calls
\* of the clients interleave and repeat (Operation.Execute, Operation.Cancel).
THEOREM ImplementsDualControl == Spec => IsDualControl
<1>1. QED
  BY ControlInit, ControlStep, Invariance, PTL DEF Spec, IsDualControl, Control!Spec

------------------------------------------------------------------------------
(* The audit trail *)

\* What the trail of an operation has before it is carried out or called off.
Agreement(confirmed) ==
  <<"operation_initiated">> \o (IF confirmed THEN <<"station_confirmed">> ELSE << >>)

\* t repeats s, and then says one or more times that the operation is cancelled.
CalledOff(s, t) ==
  /\ Len(t) > Len(s)
  /\ \A i \in 1..Len(s) : t[i] = s[i]
  /\ \A i \in Len(s) + 1..Len(t) : t[i] = "operation_cancelled"

TrailAgrees(w) ==
  /\ w.status \in {"pending_confirmation", "confirmed"} => w.audit = Agreement(w.stationConfirmed)
  /\ w.status = "executed" =>
       w.stationConfirmed /\ w.audit = Append(Agreement(TRUE), "operation_executed")
  /\ w.status = "cancelled" => CalledOff(Agreement(w.stationConfirmed), w.audit)

LEMMA AgreementIs ==
  /\ \A b \in BOOLEAN : Agreement(b) \in Seq(AuditActions)
  /\ Agreement(FALSE) = <<"operation_initiated">>
  /\ Agreement(TRUE) = Append(<<"operation_initiated">>, "station_confirmed")
<1>1. <<"operation_initiated">> \in Seq(AuditActions) /\ << >> \in Seq(AuditActions)
  BY DEF AuditActions
<1>2. "station_confirmed" \in AuditActions
  BY DEF AuditActions
<1>3. Agreement(FALSE) = <<"operation_initiated">>
  BY <1>1, ConcatEmptySeq DEF Agreement
<1>4. Agreement(TRUE) = Append(<<"operation_initiated">>, "station_confirmed")
  BY <1>1, <1>2, AppendIsConcat DEF Agreement
<1>5. Append(<<"operation_initiated">>, "station_confirmed") \in Seq(AuditActions)
  BY <1>1, <1>2
<1>6. QED
  BY <1>1, <1>3, <1>4, <1>5

LEMMA CancelProlongs ==
  ASSUME NEW s \in Seq(AuditActions), NEW t \in Seq(AuditActions), t = s \/ CalledOff(s, t)
  PROVE  CalledOff(s, Append(t, "operation_cancelled"))
<1> DEFINE u == Append(t, "operation_cancelled")
<1>1. /\ Len(u) = Len(t) + 1 /\ Len(t) \in Nat /\ Len(s) \in Nat
      /\ \A i \in 1..Len(t) : u[i] = t[i]
      /\ u[Len(t) + 1] = "operation_cancelled"
  OBVIOUS
<1>2. Len(s) <= Len(t) /\ \A i \in 1..Len(s) : t[i] = s[i]
  BY <1>1 DEF CalledOff
<1>3. \A i \in Len(s) + 1..Len(t) : t[i] = "operation_cancelled"
  BY <1>1 DEF CalledOff
<1> HIDE DEF u
<1>4. CalledOff(s, u)
  BY <1>1, <1>2, <1>3 DEF CalledOff
<1>5. QED
  BY <1>4 DEF u

LEMMA MethodsKeepTrail ==
  ASSUME NEW w \in Operation, NamesAgree(w), TrailAgrees(w)
  PROVE  /\ \A d \in People : TrailAgrees(NewOperation(d))
         /\ \A s \in People : CanConfirm(w, s) => TrailAgrees(ConfirmByStation(w, s))
         /\ CanExecute(w) => TrailAgrees(Execute(w))
         /\ w.status # "absent" /\ CanCancel(w) => TrailAgrees(Cancel(w))
<1>1. \A d \in People : TrailAgrees(NewOperation(d))
  BY AgreementIs DEF TrailAgrees, NewOperation, AbsentOperation
<1>2. ASSUME NEW s \in People, CanConfirm(w, s)
      PROVE  TrailAgrees(ConfirmByStation(w, s))
  <2>1. CASE w.stationConfirmed
    BY <2>1 DEF ConfirmByStation
  <2>2. CASE ~w.stationConfirmed
    <3>1. w.audit = <<"operation_initiated">>
      BY <1>2, <2>2, AgreementIs DEF CanConfirm, TrailAgrees, NamesAgree, Operation
    <3>2. /\ ConfirmByStation(w, s).status = "confirmed"
          /\ ConfirmByStation(w, s).stationConfirmed = TRUE
          /\ ConfirmByStation(w, s).audit = Append(w.audit, "station_confirmed")
      BY <2>2 DEF ConfirmByStation, Operation
    <3>3. QED
      BY <3>1, <3>2, AgreementIs DEF TrailAgrees
  <2>3. QED
    BY <2>1, <2>2
<1>3. ASSUME CanExecute(w)
      PROVE  TrailAgrees(Execute(w))
  <2>1. w.status = "confirmed" /\ w.stationConfirmed = TRUE
    BY <1>3 DEF CanExecute, Operation
  <2>2. /\ Execute(w).status = "executed" /\ Execute(w).stationConfirmed = TRUE
        /\ Execute(w).audit = Append(w.audit, "operation_executed")
    BY <2>1 DEF Execute, Operation
  <2>3. QED
    BY <2>1, <2>2 DEF TrailAgrees
<1>4. ASSUME w.status # "absent", CanCancel(w)
      PROVE  TrailAgrees(Cancel(w))
  <2> DEFINE s == Agreement(w.stationConfirmed)
  <2>1. s \in Seq(AuditActions) /\ w.audit \in Seq(AuditActions)
    BY AgreementIs DEF Operation
  <2>2. w.audit = s \/ CalledOff(s, w.audit)
    BY <1>4 DEF CanCancel, TrailAgrees, Operation
  <2>3. CalledOff(s, Append(w.audit, "operation_cancelled"))
    BY <2>1, <2>2, CancelProlongs
  <2>4. /\ Cancel(w).status = "cancelled" /\ Cancel(w).stationConfirmed = w.stationConfirmed
        /\ Cancel(w).audit = Append(w.audit, "operation_cancelled")
    BY DEF Cancel, Operation
  <2>5. QED
    BY <2>3, <2>4 DEF TrailAgrees
<1>5. QED
  BY <1>1, <1>2, <1>3, <1>4

LEMMA TrailStep ==
  IInv /\ (\A o \in Ops : TrailAgrees(ops[o])) /\ [Next]_vars => (\A o \in Ops : TrailAgrees(ops[o]))'
<1> SUFFICES ASSUME IInv, \A o \in Ops : TrailAgrees(ops[o]), [Next]_vars,
                    NEW x \in Ops
             PROVE  TrailAgrees(ops'[x])
  OBVIOUS
<1>1. ops \in [Ops -> Operation] /\ \A o \in Ops : ops[o] \in Operation /\ NamesAgree(ops[o])
  BY DEF IInv, TypeOK
<1>2. CASE UNCHANGED ops
  BY <1>2
<1>3. ASSUME NEW o \in Ops, NEW new, Replaced(o, new), TrailAgrees(new)
      PROVE  TrailAgrees(ops'[x])
  BY <1>1, <1>3 DEF Replaced
<1>4. CASE ~UNCHANGED ops
  BY <1>1, <1>3, <1>4, Steps, MethodsKeepTrail DEF vars, Stored
<1>5. QED
  BY <1>2, <1>4

\* The status of an operation, its flags, its names and its audit trail never disagree,
\* whatever calls are repeated, and however often it is cancelled
\* (Operation.ConfirmByStation, Execute, Cancel).
THEOREM RecordsAgree == Spec => []RecordAgrees
<1> DEFINE Inv == \A o \in Ops : TrailAgrees(ops[o])
<1>1. Init => Inv
  <2> SUFFICES ASSUME Init, NEW o \in Ops
               PROVE  TrailAgrees(ops[o])
    OBVIOUS
  <2>1. ops[o].status = "absent"
    BY DEF Init, AbsentOperation
  <2>2. QED
    BY <2>1 DEF TrailAgrees
<1>2. IInv /\ Inv /\ [Next]_vars => Inv'
  BY TrailStep
<1>3. IInv /\ Inv => RecordAgrees
  <2> SUFFICES ASSUME IInv, Inv, NEW o \in Ops, Stored(o)
               PROVE  LET w == ops[o]
                          steps == Agreement(w.stationConfirmed)
                      IN /\ w.dispatcherConfirmed /\ w.dispatcher # Blank
                         /\ w.stationConfirmed <=> w.station # Blank
                         /\ w.status = "pending_confirmation" =>
                              ~w.stationConfirmed /\ w.audit = steps
                         /\ w.status = "confirmed" => w.stationConfirmed /\ w.audit = steps
                         /\ w.status = "executed" =>
                              /\ w.stationConfirmed
                              /\ w.audit = Append(steps, "operation_executed")
                         /\ w.status = "cancelled" =>
                              /\ IsStrictPrefix(steps, w.audit)
                              /\ \A i \in Len(steps) + 1 .. Len(w.audit) :
                                   w.audit[i] = "operation_cancelled"
    BY DEF RecordAgrees, Agreement, IInv, TypeOK, Operation, Stored
  <2> DEFINE w == ops[o]
             steps == Agreement(w.stationConfirmed)
  <2>1. /\ NamesAgree(w) /\ w.status # "absent"
        /\ TrailAgrees(w)
        /\ w \in Operation
    BY DEF IInv, TypeOK, Stored
  <2>2. steps \in Seq(AuditActions) /\ w.audit \in Seq(AuditActions)
    BY <2>1, AgreementIs DEF Operation
  <2>3. ASSUME w.status = "cancelled"
        PROVE  /\ IsStrictPrefix(steps, w.audit)
               /\ \A i \in Len(steps) + 1 .. Len(w.audit) : w.audit[i] = "operation_cancelled"
    <3>1. CalledOff(steps, w.audit)
      BY <2>1, <2>3 DEF TrailAgrees
    <3> HIDE DEF steps
    <3>2. IsStrictPrefix(steps, w.audit)
      BY <2>2, <3>1 DEF IsStrictPrefix, IsPrefix, CalledOff
    <3>3. QED
      BY <3>1, <3>2 DEF CalledOff
  <2>4. w.status = "executed" => w.stationConfirmed /\ w.audit = Append(steps, "operation_executed")
    <3>1. CASE w.stationConfirmed = TRUE
      BY <2>1, <3>1 DEF TrailAgrees
    <3>2. CASE w.stationConfirmed = FALSE
      BY <2>1, <3>2 DEF TrailAgrees
    <3>3. QED
      BY <2>1, <3>1, <3>2 DEF Operation
  <2>5. /\ w.status = "pending_confirmation" => ~w.stationConfirmed /\ w.audit = steps
        /\ w.status = "confirmed" => w.stationConfirmed /\ w.audit = steps
    BY <2>1 DEF TrailAgrees, NamesAgree
  <2>6. /\ w.dispatcherConfirmed /\ w.dispatcher # Blank
        /\ w.stationConfirmed <=> w.station # Blank
    BY <2>1 DEF NamesAgree
  <2>7. QED
    BY <2>3, <2>4, <2>5, <2>6
<1> HIDE DEF Inv
<1>4. QED
  BY <1>1, <1>2, <1>3, Invariance, PTL DEF Spec

------------------------------------------------------------------------------
(* What has been settled *)

\* From record w to its successor x nothing is taken back: the two names stand once they
\* are given, what is carried out does not change any more, what is called off stays
\* so, and the trail is only prolonged.
TakesNothingBack(w, x) ==
  /\ w.dispatcher # Blank => x.dispatcher = w.dispatcher
  /\ w.station # Blank => x.station = w.station
  /\ w.status = "executed" => x = w
  /\ w.status = "cancelled" => x.status = "cancelled"
  /\ IsPrefix(w.audit, x.audit)

LEMMA AppendKeepsPrefix ==
  ASSUME NEW s \in Seq(AuditActions)
  PROVE  IsPrefix(s, s) /\ \A a \in AuditActions : IsPrefix(s, Append(s, a))
BY DEF IsPrefix

LEMMA MethodsTakeNothingBack ==
  ASSUME NEW w \in Operation, NamesAgree(w)
  PROVE  /\ TakesNothingBack(w, w)
         /\ w.status = "absent" /\ w.audit = << >> =>
              \A d \in People : TakesNothingBack(w, NewOperation(d))
         /\ \A s \in People : CanConfirm(w, s) => TakesNothingBack(w, ConfirmByStation(w, s))
         /\ CanExecute(w) => TakesNothingBack(w, Execute(w))
         /\ CanCancel(w) => TakesNothingBack(w, Cancel(w))
<1>1. /\ IsPrefix(w.audit, w.audit)
      /\ \A a \in AuditActions : IsPrefix(w.audit, Append(w.audit, a))
  <2>1. w.audit \in Seq(AuditActions)
    BY DEF Operation
  <2>2. QED
    BY <2>1, AppendKeepsPrefix
<1>2. TakesNothingBack(w, w)
  BY <1>1 DEF TakesNothingBack
<1>3. ASSUME w.status = "absent", w.audit = << >>, NEW d \in People
      PROVE  TakesNothingBack(w, NewOperation(d))
  <2>1. IsPrefix(<< >>, <<"operation_initiated">>)
    BY DEF IsPrefix
  <2>2. QED
    BY <1>3, <2>1 DEF TakesNothingBack, NamesAgree, NewOperation, AbsentOperation
<1>4. ASSUME NEW s \in People, CanConfirm(w, s)
      PROVE  TakesNothingBack(w, ConfirmByStation(w, s))
  BY <1>1, <1>2, <1>4
  DEF TakesNothingBack, NamesAgree, CanConfirm, ConfirmByStation, Operation, AuditActions
<1>5. CanExecute(w) => TakesNothingBack(w, Execute(w))
  BY <1>1 DEF TakesNothingBack, CanExecute, Execute, Operation, AuditActions
<1>6. CanCancel(w) => TakesNothingBack(w, Cancel(w))
  BY <1>1 DEF TakesNothingBack, CanCancel, Cancel, Operation, AuditActions
<1>7. QED
  BY <1>2, <1>3, <1>4, <1>5, <1>6

\* No call takes back what another has settled, in whatever order the requests of the
\* dispatchers and the stations arrive: nobody replaces the station that has agreed, a late
\* cancellation does not undo what is carried out, a late execution does not
\* revive what is called off, and no entry of the trail is lost
\* (Operation.ConfirmByStation, CanExecute, Cancel, AppendAudit).
THEOREM NothingIsTakenBack ==
  Spec => [][\A o \in Ops : TakesNothingBack(ops[o], ops'[o])]_vars
<1> DEFINE Inv == \A o \in Ops : ops[o].status = "absent" => ops[o].audit = << >>
<1>1. Init => Inv
  BY DEF Init, AbsentOperation
<1>2. ASSUME IInv, Inv, Next
      PROVE  Inv' /\ \A o \in Ops : TakesNothingBack(ops[o], ops'[o])
  <2>1. ops \in [Ops -> Operation] /\ \A o \in Ops : ops[o] \in Operation /\ NamesAgree(ops[o])
    BY <1>2 DEF IInv, TypeOK
  <2>2. ASSUME NEW o \in Ops, NEW new, Replaced(o, new),
               new.status # "absent", TakesNothingBack(ops[o], new)
        PROVE  Inv' /\ \A x \in Ops : TakesNothingBack(ops[x], ops'[x])
    <3>1. \A x \in Ops : ops'[x] = IF x = o THEN new ELSE ops[x]
      BY <2>1, <2>2 DEF Replaced
    <3>2. \A x \in Ops : TakesNothingBack(ops[x], ops'[x])
      BY <2>1, <2>2, <3>1, MethodsTakeNothingBack
    <3>3. QED
      BY <1>2, <2>2, <3>1, <3>2
  <2>3. ASSUME NEW o \in Ops
        PROVE  /\ \A d \in People : NewOperation(d).status # "absent"
               /\ \A s \in People : Stored(o) => ConfirmByStation(ops[o], s).status # "absent"
               /\ Execute(ops[o]).status # "absent"
               /\ Cancel(ops[o]).status # "absent"
    BY <2>1 DEF NewOperation, AbsentOperation, ConfirmByStation, Execute, Cancel, Stored,
                Operation
  <2>4. CASE UNCHANGED ops
    BY <1>2, <2>1, <2>4, MethodsTakeNothingBack
  <2>5. CASE ~UNCHANGED ops
    BY <1>2, <2>1, <2>2, <2>3, <2>5, Steps, MethodsTakeNothingBack DEF Stored
  <2>6. QED
    BY <2>4, <2>5
<1>3. UNCHANGED vars /\ Inv => Inv'
  BY DEF vars
<1> HIDE DEF Inv
<1>4. QED
  BY <1>1, <1>2, <1>3, Invariance, PTL DEF Spec

==============================================================================
