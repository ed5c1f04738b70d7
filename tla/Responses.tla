------------------------------ MODULE Responses ------------------------------
(***************************************************************************)
(* The handlers of the inspection orders, down to the fields of the record *)
(* they share.  A handler writes the fields one by one while it holds the  *)
(* store's lock, and encodes its answer field by field after the unlock,   *)
(* from the live record, which the next handler may be writing by then.    *)
(***************************************************************************)
EXTENDS Naturals, Sequences, FiniteSets, SequencesExt

CONSTANTS
  Cabins, Orders, Inspectors, Blank,   \* as in Inspections
  Calls,       \* goroutines of net/http
  Nobody,      \* no goroutine
  MaxReadings  \* bound: how many readings an order gets

ASSUME ResponsesAssumption ==
  /\ Blank \notin Cabins \cup Orders \cup Inspectors
  /\ Nobody \notin Calls
  /\ MaxReadings \in Nat

VARIABLES
  cabins,       \* the keys of Store.cabins
  inspections,  \* Store.inspectionOrders, as it is in memory
  mutex,        \* who holds Store.mu for writing
  calls         \* the local state of the goroutines

vars == <<cabins, inspections, mutex, calls>>

\* The record as the holders of the lock see it: a call takes effect as it gets the
\* lock, and record is what it makes of the order.
Writing(h, o) == calls[h].pc = "writing" /\ calls[h].order = o
Locked ==
  [o \in Orders |-> IF \E h \in Calls : Writing(h, o)
                    THEN calls[CHOOSE h \in Calls : Writing(h, o)].record
                    ELSE inspections[o]]

Work == INSTANCE Inspections WITH inspections <- Locked

------------------------------------------------------------------------------
(* The goroutines *)

\* The encoder visits the fields in this order.
Fields == <<"status", "completed", "readings", "audit">>

Kinds == {"none", "dispatch", "start", "readings", "complete", "list"}

Idle == [pc |-> "idle", kind |-> "none", order |-> Blank, record |-> Work!AbsentInspection,
         todo |-> << >>, body |-> Work!AbsentInspection]

Stored(o) == inspections[o].status # "absent"

\* An id that NextID has not handed out.
Fresh(o) == ~Stored(o) /\ \A h \in Calls : calls[h].order # o

Refused(h) == [calls[h] EXCEPT !.pc = "refused"]

\* DispatchInspection up to NewInspectionOrder: GetCabin is a critical section.
ReceiveDispatch(h, o, c, i) ==
  /\ calls[h] = Idle /\ Fresh(o) /\ mutex = Nobody
  /\ calls' = [calls EXCEPT ![h] =
       IF c # Blank /\ i # Blank /\ c \in cabins
       THEN [@ EXCEPT !.pc = "waiting", !.kind = "dispatch", !.order = o,
                      !.record = Work!NewInspectionOrder(c, i)]
       ELSE Refused(h)]
  /\ UNCHANGED <<cabins, inspections, mutex>>

\* The readings an order has, and those on their way to it.
Asked(o) ==
  Locked[o].readings
    + Cardinality({h \in Calls : calls[h].pc = "waiting" /\ calls[h].kind = "readings"
                                                       /\ calls[h].order = o})

\* The handlers of an order that should be there.
Receive(h, kind, o) ==
  /\ calls[h] = Idle
  /\ kind = "readings" => Asked(o) < MaxReadings
  /\ calls' = [calls EXCEPT ![h].pc = "waiting", ![h].kind = kind, ![h].order = o]
  /\ UNCHANGED <<cabins, inspections, mutex>>

MayLock_Always(h) == TRUE
MayLock(h) == mutex = Nobody

Locks(h) == calls[h].pc = "waiting" /\ MayLock(h)

\* SaveInspectionOrder puts the whole record into the map.
Save(h) ==
  LET o == calls[h].order
  IN /\ Locks(h) /\ calls[h].kind = "dispatch"
     /\ inspections' = [inspections EXCEPT ![o] = calls[h].record]
     /\ mutex' = h
     /\ calls' = [calls EXCEPT ![h].pc = "writing"]
     /\ UNCHANGED cabins

\* What UpdateInspectionOrder's callback is asked, and makes of the record w.
Accepts(kind, w) ==
  CASE kind = "start" -> Work!CanStart(w)
    [] kind = "readings" -> Work!CanRecord(w)
    [] OTHER -> TRUE
Made(kind, w) ==
  CASE kind = "start" -> Work!Start(w)
    [] kind = "readings" -> Work!RecordReadings(w)
    [] kind = "complete" -> Work!Complete(w)

\* The fields that its method assigns, in this order.
Assigned(kind, w) ==
  CASE kind = "start" -> <<"status", "audit">>
    [] kind = "readings" -> <<"readings">>
    [] kind = "complete" ->
         IF w.status = "completed" THEN << >> ELSE <<"status", "completed", "audit">>

UpdateInspectionOrder(h) ==
  LET w == inspections[calls[h].order]
      new == Made(calls[h].kind, w)
  IN /\ Locks(h) /\ calls[h].kind \in {"start", "readings", "complete"}
     /\ Stored(calls[h].order) /\ Accepts(calls[h].kind, w)
     /\ mutex' = h
     /\ calls' = [calls EXCEPT ![h].pc = "writing", ![h].record = new,
                               ![h].todo = Assigned(calls[h].kind, w)]
     /\ UNCHANGED <<cabins, inspections>>

\* The deferred unlock runs on the path of the error too.
Refuse(h) ==
  /\ Locks(h) /\ calls[h].kind \in {"start", "readings", "complete"}
  /\ ~(Stored(calls[h].order) /\ Accepts(calls[h].kind, inspections[calls[h].order]))
  /\ calls' = [calls EXCEPT ![h] = Refused(h)]
  /\ UNCHANGED <<cabins, inspections, mutex>>

Write(h) ==
  LET f == Head(calls[h].todo)
  IN /\ calls[h].pc = "writing" /\ calls[h].todo # << >>
     /\ inspections' = [inspections EXCEPT ![calls[h].order][f] = calls[h].record[f]]
     /\ calls' = [calls EXCEPT ![h].todo = Tail(@)]
     /\ UNCHANGED <<cabins, mutex>>

Unlock_Early(h) ==
  /\ calls[h].pc = "writing"
  /\ mutex' = Nobody
  /\ calls' = [calls EXCEPT ![h].pc = "encoding", ![h].todo = Fields]
  /\ UNCHANGED <<cabins, inspections>>
Unlock(h) ==
  /\ calls[h].pc = "writing" /\ calls[h].todo = << >>
  /\ mutex' = Nobody
  /\ calls' = [calls EXCEPT ![h].pc = "encoding", ![h].todo = Fields]
  /\ UNCHANGED <<cabins, inspections>>

\* ListInspectionOrders hands out pointers to the live records; the answer about
\* one of them is followed.  Without any the answer is an empty list.
List(h) ==
  /\ Locks(h) /\ calls[h].kind = "list"
  /\ calls' = [calls EXCEPT ![h] =
       IF Stored(@.order) THEN [@ EXCEPT !.pc = "encoding", !.todo = Fields]
       ELSE [@ EXCEPT !.pc = "refused"]]
  /\ UNCHANGED <<cabins, inspections, mutex>>

\* What a read of a field without the lock can give.  A string has two words, and
\* while they are assigned a reader may get one of each; append makes the new entry
\* of a slice visible before it is filled in.
Readable(o, f) ==
  LET now == inspections[o][f]
      assigned == \E g \in Calls : Writing(g, o) /\ f \in Range(calls[g].todo)
      partial == CASE f = "status" -> "torn"
                   [] f = "audit" -> Append(now, "torn")
                   [] OTHER -> now
  IN {now} \cup (IF assigned THEN {partial} ELSE {})

Encode(h) ==
  LET f == Head(calls[h].todo)
  IN /\ calls[h].pc = "encoding" /\ calls[h].todo # << >>
     /\ \E v \in Readable(calls[h].order, f) :
          calls' = [calls EXCEPT ![h].body[f] = v, ![h].todo = Tail(@)]
     /\ UNCHANGED <<cabins, inspections, mutex>>

Answered(h) == calls[h].pc = "encoding" /\ calls[h].todo = << >>

Finish_WithoutErrors(h) ==
  /\ Answered(h)
  /\ calls' = [calls EXCEPT ![h] = Idle]
  /\ UNCHANGED <<cabins, inspections, mutex>>
Finish(h) ==
  /\ Answered(h) \/ calls[h].pc = "refused"
  /\ calls' = [calls EXCEPT ![h] = Idle]
  /\ UNCHANGED <<cabins, inspections, mutex>>

RegisterCabin(c) ==
  /\ mutex = Nobody
  /\ cabins' = cabins \cup {c}
  /\ UNCHANGED <<inspections, mutex, calls>>

------------------------------------------------------------------------------
Init ==
  /\ cabins = {}
  /\ inspections = [o \in Orders |-> Work!AbsentInspection]
  /\ mutex = Nobody
  /\ calls = [h \in Calls |-> Idle]

TakesLock(h) == Save(h) \/ UpdateInspectionOrder(h) \/ Refuse(h) \/ List(h)
RunsOn(h) == Write(h) \/ Unlock(h) \/ Encode(h) \/ Finish(h)

Next ==
  \/ \E c \in Cabins : RegisterCabin(c)
  \/ \E h \in Calls :
       \/ \E o \in Orders, c \in Cabins \cup {Blank}, i \in Inspectors \cup {Blank} :
            ReceiveDispatch(h, o, c, i)
       \/ \E o \in Orders, kind \in Kinds \ {"none", "dispatch"} : Receive(h, kind, o)
       \/ TakesLock(h)
       \/ RunsOn(h)

\* A goroutine runs on, sync.RWMutex starves no waiter, and the server's write
\* timeout ends an answer that no client takes.
Fairness == \A h \in Calls : SF_vars(TakesLock(h)) /\ WF_vars(RunsOn(h))

Spec == Init /\ [][Next]_vars /\ Fairness

------------------------------------------------------------------------------
(* Properties *)

\* Every variable has its type; what is torn occurs in an answer only.
Call ==
  [pc     : {"idle", "waiting", "writing", "encoding", "refused"},
   kind   : Kinds,
   order  : Orders \cup {Blank},
   record : Work!InspectionOrder,
   todo   : Seq({Fields[i] : i \in 1..4}),
   body   : [status : {"absent", "created", "in_progress", "completed", "torn"},
             cabin : {Blank}, inspector : {Blank}, completed : BOOLEAN,
             readings : Nat, audit : Seq(Work!AuditActions \cup {"torn"})]]

TypeOK ==
  /\ cabins \subseteq Cabins
  /\ inspections \in [Orders -> Work!InspectionOrder]
  /\ mutex \in Calls \cup {Nobody}
  /\ calls \in [Calls -> Call]

\* The lock makes atomic what is written field by field: whoever takes it sees the
\* handlers' calls as the steps of Inspections, each whole and in some order; and a
\* check of the cabin in one critical section is good for the next
\* (Store.UpdateInspectionOrder, Service.DispatchInspection).
IsInspections == Work!Spec

\* As in Inspections.
TrailTellsStatus == Work!TrailTellsStatus

\* Although it is read after the unlock, an answer is never older than the call it
\* answers: it shows the call's own effect, or what others made of it since
\* (Service.StartInspection and the others return the live record).
Rank == [absent |-> 0, created |-> 1, in_progress |-> 2, completed |-> 3, torn |-> 3]

AnswerIsNotOlder ==
  \A h \in Calls : Answered(h) =>
    LET w == calls[h].record
        body == calls[h].body
    IN /\ Rank[body.status] >= Rank[w.status]
       /\ w.completed => body.completed
       /\ body.readings >= w.readings
       /\ IsPrefix(w.audit, body.audit)

\* Completion is final: whatever is still on its way to the order, the answer to a
\* completion shows the order as it stays, each field of it, although they are read
\* one by one after the unlock (InspectionOrder.Start, RecordReadings, Complete).
CompletionIsFinal ==
  \A h \in Calls : Answered(h) /\ calls[h].record.completed =>
    /\ Work!RecordAgrees(calls[h].body)
    /\ \A f \in Range(Fields) : calls[h].body[f] = inspections[calls[h].order][f]

\* Every request is answered, however the others contend for the lock.
EveryCallIsAnswered == \A h \in Calls : calls[h].pc # "idle" ~> calls[h].pc = "idle"

\* "a concurrency-safe in-memory persistence layer": an answer shows a state that
\* the order has been in, so its fields agree with each other.
AnswerIsConsistent ==
  \A h \in Calls : Answered(h) => Work!RecordAgrees(calls[h].body)

==============================================================================
