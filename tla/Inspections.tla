----------------------------- MODULE Inspections -----------------------------
(***************************************************************************)
(* Inspection orders, as whoever takes the store's lock sees them: each    *)
(* call of Store.UpdateInspectionOrder or SaveInspectionOrder is one step. *)
(* Responses shows that the handlers, which write the records field by     *)
(* field and read them without the lock, keep it so.                       *)
(***************************************************************************)
EXTENDS Naturals, Sequences

CONSTANTS
  Cabins,      \* cabin ids
  Orders,      \* the ids NextID can hand out; an exhausted pool bounds a model
  Inspectors,  \* who inspects
  Blank        \* the empty string

VARIABLES
  cabins,      \* the keys of Store.cabins
  inspections  \* Store.inspectionOrders

vars == <<cabins, inspections>>

------------------------------------------------------------------------------
(* Data, and the methods of an inspection order.  w is the order's record. *)

AuditActions == {"inspection_dispatched", "inspection_started", "inspection_completed"}

\* Of the readings only their number is kept.
InspectionOrder ==
  [status    : {"absent", "created", "in_progress", "completed"},
   cabin     : Cabins \cup {Blank},
   inspector : Inspectors \cup {Blank},
   completed : BOOLEAN,
   readings  : Nat,
   audit     : Seq(AuditActions)]

\* An id that is no key of the map.
AbsentInspection ==
  [status |-> "absent", cabin |-> Blank, inspector |-> Blank, completed |-> FALSE,
   readings |-> 0, audit |-> << >>]

NewInspectionOrder(c, i) ==
  [AbsentInspection EXCEPT !.status = "created", !.cabin = c, !.inspector = i,
                           !.audit = <<"inspection_dispatched">>]

CanStart(w) == w.status = "created"

Start_Misspelled(w) ==
  [w EXCEPT !.status = "in-progress", !.audit = Append(@, "inspection_started")]
Start(w) ==
  [w EXCEPT !.status = "in_progress", !.audit = Append(@, "inspection_started")]

CanRecord_Always(w) == TRUE
CanRecord(w) == w.status \in {"created", "in_progress"}

RecordReadings(w) == [w EXCEPT !.readings = @ + 1]

\* Completing again changes nothing, and is no error.
Complete_AuditsAgain(w) ==
  [w EXCEPT !.status = "completed", !.completed = TRUE,
            !.audit = Append(@, "inspection_completed")]
Complete(w) ==
  IF w.status = "completed" THEN w
  ELSE [w EXCEPT !.status = "completed", !.completed = TRUE,
                 !.audit = Append(@, "inspection_completed")]

------------------------------------------------------------------------------
(* The calls *)

Stored(o) == inspections[o].status # "absent"

RegisterCabin(c) == cabins' = cabins \cup {c} /\ UNCHANGED inspections

DispatchInspection(o, c, i) ==
  /\ c \in cabins
  /\ ~Stored(o)
  /\ inspections' = [inspections EXCEPT ![o] = NewInspectionOrder(c, i)]
  /\ UNCHANGED cabins

UpdateInspectionOrder(o, ok, new) ==
  /\ Stored(o) /\ ok
  /\ inspections' = [inspections EXCEPT ![o] = new]
  /\ UNCHANGED cabins

Init ==
  /\ cabins = {}
  /\ inspections = [o \in Orders |-> AbsentInspection]

Next ==
  \/ \E c \in Cabins : RegisterCabin(c)
  \/ \E o \in Orders :
       \/ \E c \in Cabins, i \in Inspectors : DispatchInspection(o, c, i)
       \/ UpdateInspectionOrder(o, CanStart(inspections[o]), Start(inspections[o]))
       \/ UpdateInspectionOrder(o, CanRecord(inspections[o]), RecordReadings(inspections[o]))
       \/ UpdateInspectionOrder(o, TRUE, Complete(inspections[o]))

Spec == Init /\ [][Next]_vars

------------------------------------------------------------------------------
(* Properties *)

\* The status, the time of completion and the audit trail of one record agree: the
\* trail has each step of the inspection once, in order ("every state transition is
\* recorded for traceability").  An inspection can be completed without a start.
RecordAgrees(w) ==
  LET started == <<"inspection_dispatched", "inspection_started">>
      ended(steps) == Append(steps, "inspection_completed")
  IN /\ w.completed <=> w.status = "completed"
     /\ CASE w.status = "created" -> w.audit = <<"inspection_dispatched">>
          [] w.status = "in_progress" -> w.audit = started
          [] w.status = "completed" ->
               w.audit \in {ended(started), ended(<<"inspection_dispatched">>)}
          [] OTHER -> FALSE

TrailTellsStatus == \A o \in Orders : Stored(o) => RecordAgrees(inspections[o])

==============================================================================
