--------------------------- MODULE ResponsesProofs ---------------------------
(***************************************************************************)
(* The lock makes the handlers' field-by-field writes the atomic steps of  *)
(* Inspections, and what is read after the unlock is never older than the  *)
(* call it answers, for any number of goroutines, orders and cabins.       *)
(***************************************************************************)
EXTENDS Responses, SequenceTheorems, TLAPS

USE ResponsesAssumption

------------------------------------------------------------------------------
(* The inductive invariant *)

Names == {"status", "completed", "readings", "audit"}

\* Who writes holds the lock, and only who writes.
LockOK == \A h \in Calls : calls[h].pc = "writing" <=> mutex = h

\* The record in memory and the one the writer makes of it differ at most in the
\* fields that are still to be written.
WriterOK ==
  \A h \in Calls : calls[h].pc = "writing" =>
    LET w == inspections[calls[h].order]
        new == calls[h].record
    IN /\ calls[h].order \in Orders
       /\ w.status # "absent" /\ new.status # "absent"
       /\ new.cabin = w.cabin /\ new.inspector = w.inspector
       /\ \A f \in Names : f \in Range(calls[h].todo) \/ new[f] = w[f]

Dispatching(h) == calls[h].pc = "waiting" /\ calls[h].kind = "dispatch"

\* What is about to be saved is new, belongs to a cabin that is there, and has an id
\* that nothing else about to be saved has.
DispatchOK ==
  \A h \in Calls : Dispatching(h) =>
    /\ calls[h].order \in Orders
    /\ inspections[calls[h].order].status = "absent"
    /\ \E c \in cabins, i \in Inspectors : calls[h].record = Work!NewInspectionOrder(c, i)
    /\ \A g \in Calls : Dispatching(g) /\ calls[g].order = calls[h].order => g = h

\* An answer is about an order.
OrderOK == \A h \in Calls : calls[h].pc \in {"waiting", "encoding"} => calls[h].order \in Orders

IInv == TypeOK /\ LockOK /\ WriterOK /\ DispatchOK /\ OrderOK

------------------------------------------------------------------------------
(* Types *)

LEMMA FieldNames == {Fields[i] : i \in 1..4} = Names
BY DEF Fields, Names

LEMMA RangeIsHeadAndTail ==
  ASSUME NEW S, NEW s \in Seq(S), s # << >>
  PROVE  /\ Head(s) \in S /\ Tail(s) \in Seq(S)
         /\ Head(s) \in Range(s)
         /\ \A x \in Range(s) : x = Head(s) \/ x \in Range(Tail(s))
<1>1. s \in [1..Len(s) -> S] /\ Len(s) \in Nat \ {0} /\ DOMAIN s = 1..Len(s)
  OBVIOUS
<1>2. Head(s) = s[1] /\ 1 \in DOMAIN s
  BY <1>1
<1>3. ASSUME NEW i \in DOMAIN s, i # 1
      PROVE  i - 1 \in DOMAIN Tail(s) /\ Tail(s)[i - 1] = s[i]
  BY <1>1, <1>3
<1>4. Head(s) \in S /\ Tail(s) \in Seq(S) /\ Head(s) \in Range(s)
  BY <1>1, <1>2 DEF Range
<1>5. ASSUME NEW x \in Range(s), x # Head(s)
      PROVE  x \in Range(Tail(s))
  <2>1. PICK i \in DOMAIN s : s[i] = x
    BY DEF Range
  <2>2. i # 1
    BY <1>2, <1>5, <2>1
  <2>3. QED
    BY <1>3, <2>1, <2>2 DEF Range
<1>6. QED
  BY <1>4, <1>5

LEMMA NewOrderType ==
  ASSUME NEW c \in Cabins, NEW i \in Inspectors
  PROVE  Work!NewInspectionOrder(c, i) \in Work!InspectionOrder
<1>1. <<"inspection_dispatched">> \in Seq(Work!AuditActions)
  BY DEF Work!AuditActions
<1>2. QED
  BY <1>1 DEF Work!NewInspectionOrder, Work!AbsentInspection, Work!InspectionOrder

LEMMA MethodsType ==
  ASSUME NEW w \in Work!InspectionOrder
  PROVE  /\ Work!Start(w) \in Work!InspectionOrder
         /\ Work!RecordReadings(w) \in Work!InspectionOrder
         /\ Work!Complete(w) \in Work!InspectionOrder
<1>1. /\ Append(w.audit, "inspection_started") \in Seq(Work!AuditActions)
      /\ Append(w.audit, "inspection_completed") \in Seq(Work!AuditActions)
  <2>1. w.audit \in Seq(Work!AuditActions)
    BY DEF Work!InspectionOrder
  <2>2. QED
    BY <2>1 DEF Work!AuditActions
<1>2. Work!Start(w) \in Work!InspectionOrder
  BY <1>1 DEF Work!Start, Work!InspectionOrder
<1>3. Work!RecordReadings(w) \in Work!InspectionOrder
  BY DEF Work!RecordReadings, Work!InspectionOrder
<1>4. Work!Complete(w) \in Work!InspectionOrder
  BY <1>1 DEF Work!Complete, Work!InspectionOrder
<1>5. QED
  BY <1>2, <1>3, <1>4

LEMMA MadeType ==
  ASSUME NEW kind \in {"start", "readings", "complete"}, NEW w \in Work!InspectionOrder
  PROVE  Made(kind, w) \in Work!InspectionOrder
BY MethodsType DEF Made

LEMMA AssignedType ==
  ASSUME NEW kind \in {"start", "readings", "complete"}, NEW w
  PROVE  Assigned(kind, w) \in Seq(Names)
<1>1. /\ << >> \in Seq(Names) /\ <<"readings">> \in Seq(Names)
      /\ <<"status", "audit">> \in Seq(Names)
      /\ <<"status", "completed", "audit">> \in Seq(Names)
  BY DEF Names
<1>2. QED
  BY <1>1 DEF Assigned

\* A method changes the fields that it assigns.
LEMMA MadeDiffers ==
  ASSUME NEW kind \in {"start", "readings", "complete"}, NEW w \in Work!InspectionOrder,
         w.status # "absent"
  PROVE  /\ Made(kind, w).status # "absent"
         /\ Made(kind, w).cabin = w.cabin /\ Made(kind, w).inspector = w.inspector
         /\ \A f \in Names : f \in Range(Assigned(kind, w)) \/ Made(kind, w)[f] = w[f]
<1>1. CASE kind = "start"
  <2>1. Assigned(kind, w) = <<"status", "audit">> /\ Made(kind, w) = Work!Start(w)
    BY <1>1 DEF Assigned, Made
  <2>2. "status" \in Range(Assigned(kind, w)) /\ "audit" \in Range(Assigned(kind, w))
    BY <2>1 DEF Range
  <2>3. QED
    BY <2>1, <2>2 DEF Names, Work!Start, Work!InspectionOrder
<1>2. CASE kind = "readings"
  <2>1. Assigned(kind, w) = <<"readings">> /\ Made(kind, w) = Work!RecordReadings(w)
    BY <1>2 DEF Assigned, Made
  <2>2. "readings" \in Range(Assigned(kind, w))
    BY <2>1 DEF Range
  <2>3. QED
    BY <2>1, <2>2 DEF Names, Work!RecordReadings, Work!InspectionOrder
<1>3. CASE kind = "complete" /\ w.status = "completed"
  BY <1>3 DEF Made, Work!Complete
<1>4. CASE kind = "complete" /\ w.status # "completed"
  <2>1. /\ Assigned(kind, w) = <<"status", "completed", "audit">>
        /\ Made(kind, w) = Work!Complete(w)
    BY <1>4 DEF Assigned, Made
  <2>2. /\ "status" \in Range(Assigned(kind, w)) /\ "completed" \in Range(Assigned(kind, w))
        /\ "audit" \in Range(Assigned(kind, w))
    BY <2>1 DEF Range
  <2>3. QED
    BY <1>4, <2>1, <2>2 DEF Names, Work!Complete, Work!InspectionOrder
<1>5. QED
  BY <1>1, <1>2, <1>3, <1>4

Patched(w, new, f) == [w EXCEPT ![f] = new[f]]

LEMMA WriteField ==
  ASSUME NEW w \in Work!InspectionOrder, NEW new \in Work!InspectionOrder, NEW f \in Names
  PROVE  /\ Patched(w, new, f) \in Work!InspectionOrder
         /\ Patched(w, new, f).cabin = w.cabin
         /\ Patched(w, new, f).inspector = w.inspector
         /\ \A n \in Names : Patched(w, new, f)[n] = IF n = f THEN new[n] ELSE w[n]
<1>1. CASE f = "status"
  BY <1>1 DEF Patched, Names, Work!InspectionOrder
<1>2. CASE f = "completed"
  BY <1>2 DEF Patched, Names, Work!InspectionOrder
<1>3. CASE f = "readings"
  BY <1>3 DEF Patched, Names, Work!InspectionOrder
<1>4. CASE f = "audit"
  BY <1>4 DEF Patched, Names, Work!InspectionOrder
<1>5. QED
  BY <1>1, <1>2, <1>3, <1>4 DEF Names

------------------------------------------------------------------------------
(* What the holders of the lock see *)

LEMMA LockedWhenFree == IInv /\ mutex = Nobody => Locked = inspections
<1> SUFFICES ASSUME IInv, mutex = Nobody
             PROVE  Locked = inspections
  OBVIOUS
<1>1. \A o \in Orders : ~\E h \in Calls : Writing(h, o)
  BY DEF IInv, LockOK, Writing
<1>2. Locked = [o \in Orders |-> inspections[o]]
  BY <1>1 DEF Locked
<1>3. QED
  BY <1>2 DEF IInv, TypeOK

LEMMA LockedWhenHeld ==
  IInv => \A h \in Calls :
    mutex = h => Locked = [inspections EXCEPT ![calls[h].order] = calls[h].record]
<1> SUFFICES ASSUME IInv, NEW h \in Calls, mutex = h
             PROVE  Locked = [inspections EXCEPT ![calls[h].order] = calls[h].record]
  OBVIOUS
<1>1. \A g \in Calls, o \in Orders : Writing(g, o) <=> g = h /\ o = calls[h].order
  BY DEF IInv, LockOK, Writing
<1>2. calls[h].order \in Orders
  BY DEF IInv, LockOK, WriterOK
<1>3. \A o \in Orders : o # calls[h].order => Locked[o] = inspections[o]
  BY <1>1 DEF Locked
<1>4. Locked[calls[h].order] = calls[h].record
  <2> DEFINE o == calls[h].order
             w == CHOOSE g \in Calls : Writing(g, o)
  <2>1. Writing(h, o)
    BY <1>1, <1>2
  <2>2. w \in Calls /\ Writing(w, o)
    BY <2>1
  <2>3. w = h
    BY <1>1, <1>2, <2>2
  <2>4. Locked[o] = calls[w].record
    BY <1>2, <2>1 DEF Locked
  <2>5. QED
    BY <2>3, <2>4
<1>5. QED
  BY <1>2, <1>3, <1>4 DEF Locked, IInv, TypeOK

------------------------------------------------------------------------------
(* The invariant is inductive *)

Body ==
  [status : {"absent", "created", "in_progress", "completed", "torn"},
   cabin : {Blank}, inspector : {Blank}, completed : BOOLEAN,
   readings : Nat, audit : Seq(Work!AuditActions \cup {"torn"})]
Todo == Seq(Names)

LEMMA CallIs ==
  Call = [pc     : {"idle", "waiting", "writing", "encoding", "refused"},
          kind   : Kinds,
          order  : Orders \cup {Blank},
          record : Work!InspectionOrder,
          todo   : Todo,
          body   : Body]
BY FieldNames DEF Call, Todo, Body

LEMMA CallType == TypeOK => \A h \in Calls : calls[h] \in Call
BY DEF TypeOK

LEMMA IdleType == Idle \in Call
<1>1. Work!AbsentInspection \in Work!InspectionOrder
  BY DEF Work!AbsentInspection, Work!InspectionOrder
<1>2. Work!AbsentInspection.audit = << >>
  BY DEF Work!AbsentInspection
<1>3. QED
  BY <1>1, FieldNames DEF Idle, Call, Kinds, Work!AbsentInspection

LEMMA IInvInit == Init => IInv
<1> SUFFICES ASSUME Init PROVE IInv
  OBVIOUS
<1>1. TypeOK
  BY IdleType DEF Init, TypeOK, Work!AbsentInspection, Work!InspectionOrder
<1>2. \A h \in Calls : calls[h].pc = "idle"
  BY DEF Init, Idle
<1>3. QED
  BY <1>1, <1>2 DEF IInv, LockOK, WriterOK, DispatchOK, Dispatching, OrderOK, Init

\* A step of h that touches nothing but its own state, and does not write.
Quiet(h) ==
  /\ UNCHANGED <<cabins, inspections, mutex>>
  /\ calls[h].pc # "writing"
  /\ \E x \in Call : x.pc # "writing" /\ calls' = [calls EXCEPT ![h] = x]

LEMMA RefusedType ==
  ASSUME NEW h \in Calls, calls[h] \in Call
  PROVE  Refused(h) \in Call /\ Refused(h).pc = "refused"
BY CallIs DEF Refused

LEMMA ReceiveDispatchIsQuiet ==
  ASSUME TypeOK, NEW h \in Calls, NEW o \in Orders, NEW c \in Cabins \cup {Blank},
         NEW i \in Inspectors \cup {Blank}, ReceiveDispatch(h, o, c, i)
  PROVE  /\ Quiet(h)
         /\ \/ calls'[h].pc = "refused"
            \/ /\ calls'[h].order = o /\ ~Stored(o)
               /\ \E b \in cabins, j \in Inspectors :
                    calls'[h].record = Work!NewInspectionOrder(b, j)
               /\ \A g \in Calls : calls[g].order # o
<1>1. calls[h] \in Call /\ calls[h] = Idle
  BY CallType DEF ReceiveDispatch
<1>2. CASE c # Blank /\ i # Blank /\ c \in cabins
  <2> DEFINE x == [calls[h] EXCEPT !.pc = "waiting", !.kind = "dispatch", !.order = o,
                                   !.record = Work!NewInspectionOrder(c, i)]
  <2>1. calls' = [calls EXCEPT ![h] = x]
    BY <1>2 DEF ReceiveDispatch
  <2>2. x \in Call
    <3>1. i \in Inspectors /\ c \in Cabins
      BY <1>2
    <3>2. Work!NewInspectionOrder(c, i) \in Work!InspectionOrder
      BY <3>1, NewOrderType
    <3>3. QED
      BY <1>1, <3>2, CallIs DEF Kinds
  <2>3. x.pc # "writing" /\ calls[h].pc # "writing"
    BY <1>1, CallIs DEF Idle
  <2>4. calls'[h] = x /\ x.order = o /\ x.record = Work!NewInspectionOrder(c, i)
    BY <1>1, <2>1, CallIs DEF TypeOK
  <2>5. ~Stored(o) /\ \A g \in Calls : calls[g].order # o
    BY DEF ReceiveDispatch, Fresh
  <2>6. c \in cabins /\ i \in Inspectors
    BY <1>2
  <2>7. Quiet(h)
    BY <2>1, <2>2, <2>3 DEF Quiet, ReceiveDispatch
  <2>8. QED
    BY <2>4, <2>5, <2>6, <2>7
<1>3. CASE ~(c # Blank /\ i # Blank /\ c \in cabins)
  <2>1. calls' = [calls EXCEPT ![h] = Refused(h)]
    BY <1>3 DEF ReceiveDispatch
  <2>2. Refused(h) \in Call /\ Refused(h).pc = "refused" /\ calls[h].pc # "writing"
    BY <1>1, RefusedType DEF Idle
  <2>3. calls'[h].pc = "refused"
    BY <2>1, <2>2 DEF TypeOK
  <2>4. QED
    BY <2>1, <2>2, <2>3 DEF Quiet, ReceiveDispatch
<1>4. QED
  BY <1>2, <1>3

LEMMA ReadableType ==
  ASSUME TypeOK, NEW o \in Orders, NEW f \in Names, NEW v \in Readable(o, f)
  PROVE  /\ f = "status" => v \in {"absent", "created", "in_progress", "completed", "torn"}
         /\ f = "completed" => v \in BOOLEAN
         /\ f = "readings" => v \in Nat
         /\ f = "audit" => v \in Seq(Work!AuditActions \cup {"torn"})
<1>1. inspections[o] \in Work!InspectionOrder
  BY DEF TypeOK
<1>2. inspections[o].audit \in Seq(Work!AuditActions \cup {"torn"})
  BY <1>1 DEF Work!InspectionOrder
<1>3. Append(inspections[o].audit, "torn") \in Seq(Work!AuditActions \cup {"torn"})
  BY <1>2
<1>4. QED
  BY <1>1, <1>2, <1>3 DEF Readable, Work!InspectionOrder, Names

LEMMA OthersAreQuiet ==
  ASSUME TypeOK, OrderOK, NEW h \in Calls,
         \/ \E o \in Orders, kind \in Kinds \ {"none", "dispatch"} : Receive(h, kind, o)
         \/ Refuse(h) \/ List(h) \/ Encode(h) \/ Finish(h)
  PROVE  /\ Quiet(h) /\ ~Dispatching(h)'
         /\ calls'[h].pc \in {"waiting", "encoding"} => calls'[h].order \in Orders
<1>1. calls[h] \in Call /\ calls \in [Calls -> Call]
  BY CallType DEF TypeOK
<1>2. ASSUME NEW o \in Orders, NEW kind \in Kinds \ {"none", "dispatch"}, Receive(h, kind, o)
      PROVE  /\ Quiet(h) /\ ~Dispatching(h)'
             /\ calls'[h].order \in Orders
  <2> DEFINE x == [calls[h] EXCEPT !.pc = "waiting", !.kind = kind, !.order = o]
  <2>1. calls' = [calls EXCEPT ![h] = x]
    BY <1>1, <1>2, CallIs DEF Receive
  <2>2. x \in Call
    BY <1>1, <1>2, CallIs
  <2>3. x.pc = "waiting" /\ x.kind # "dispatch" /\ x.order = o
    BY <1>1, <1>2, CallIs
  <2>4. calls[h].pc # "writing"
    <3>1. calls[h] = Idle
      BY <1>2 DEF Receive
    <3>2. Idle.pc = "idle"
      BY DEF Idle
    <3>3. QED
      BY <3>1, <3>2
  <2>5. calls'[h] = x
    BY <1>1, <2>1
  <2>6. QED
    BY <1>2, <2>1, <2>2, <2>3, <2>4, <2>5 DEF Quiet, Receive, Dispatching
<1>3. CASE Refuse(h)
  <2>1. Refused(h) \in Call /\ Refused(h).pc = "refused" /\ calls[h].pc # "writing"
    BY <1>1, <1>3, RefusedType DEF Refuse, Locks
  <2>2. calls'[h] = Refused(h)
    BY <1>1, <1>3 DEF Refuse
  <2>3. QED
    BY <1>3, <2>1, <2>2 DEF Quiet, Refuse, Dispatching
<1>4. CASE List(h)
  <2> DEFINE x == IF Stored(calls[h].order)
                  THEN [calls[h] EXCEPT !.pc = "encoding", !.todo = Fields]
                  ELSE [calls[h] EXCEPT !.pc = "refused"]
  <2>1. calls' = [calls EXCEPT ![h] = x] /\ calls[h].pc = "waiting"
    BY <1>4 DEF List, Locks
  <2>2. Fields \in Todo
    BY DEF Fields, Todo, Names
  <2>3. x \in Call /\ x.pc \in {"encoding", "refused"} /\ x.order \in Orders
    BY <1>1, <2>1, <2>2, CallIs DEF OrderOK
  <2>4. calls'[h] = x
    BY <1>1, <2>1
  <2>5. QED
    BY <1>4, <2>1, <2>3, <2>4 DEF Quiet, List, Dispatching
<1>5. CASE Encode(h)
  <2> DEFINE f == Head(calls[h].todo)
  <2>1. PICK v \in Readable(calls[h].order, f) :
          calls' = [calls EXCEPT ![h].body[f] = v, ![h].todo = Tail(@)]
    BY <1>5 DEF Encode
  <2>2. calls[h].todo \in Seq(Names) /\ calls[h].todo # << >> /\ calls[h].pc = "encoding"
    BY <1>1, <1>5, CallIs DEF Encode, Todo
  <2>3. f \in Names /\ Tail(calls[h].todo) \in Todo
    BY <2>2, RangeIsHeadAndTail DEF Todo
  <2> DEFINE x == [calls[h] EXCEPT !.body[f] = v, !.todo = Tail(@)]
  <2>4. calls' = [calls EXCEPT ![h] = x]
    BY <1>1, <2>1
  <2>5. x.pc = "encoding" /\ x.order \in Orders /\ calls'[h] = x
    BY <1>1, <2>2, <2>4, CallIs DEF OrderOK
  <2>6. x \in Call
    <3>1. calls[h].order \in Orders
      BY <2>2 DEF OrderOK
    <3>2. calls[h].body \in Body
      BY <1>1, CallIs
    <3>3. [calls[h].body EXCEPT ![f] = v] \in Body
      <4>1. CASE f = "status"
        BY <2>3, <3>1, <3>2, <4>1, ReadableType DEF Body
      <4>2. CASE f = "completed"
        BY <2>3, <3>1, <3>2, <4>2, ReadableType DEF Body
      <4>3. CASE f = "readings"
        BY <2>3, <3>1, <3>2, <4>3, ReadableType DEF Body
      <4>4. CASE f = "audit"
        BY <2>3, <3>1, <3>2, <4>4, ReadableType DEF Body
      <4>5. QED
        BY <2>3, <4>1, <4>2, <4>3, <4>4 DEF Names
    <3>4. QED
      BY <1>1, <2>3, <3>3, CallIs
  <2>7. QED
    BY <1>5, <2>2, <2>4, <2>5, <2>6 DEF Quiet, Encode, Dispatching
<1>6. CASE Finish(h)
  <2>1. calls' = [calls EXCEPT ![h] = Idle] /\ calls[h].pc # "writing"
    BY <1>6 DEF Finish, Answered
  <2>2. Idle \in Call /\ Idle.pc = "idle"
    BY IdleType DEF Idle
  <2>3. calls'[h] = Idle
    BY <1>1, <2>1
  <2>4. QED
    BY <1>6, <2>1, <2>2, <2>3 DEF Quiet, Finish, Dispatching
<1>7. QED
  BY <1>2, <1>3, <1>4, <1>5, <1>6

LEMMA QuietStep ==
  ASSUME IInv, NEW h \in Calls, Quiet(h),
         calls'[h].pc \in {"waiting", "encoding"} => calls'[h].order \in Orders,
         ~Dispatching(h)'
         \/ /\ inspections[calls'[h].order].status = "absent"
            /\ \E c \in cabins, i \in Inspectors :
                 calls'[h].record = Work!NewInspectionOrder(c, i)
            /\ \A g \in Calls : Dispatching(g) => calls[g].order # calls'[h].order
  PROVE  IInv'
<1>1. PICK x \in Call : x.pc # "writing" /\ calls' = [calls EXCEPT ![h] = x]
  BY DEF Quiet
<1>2. /\ calls \in [Calls -> Call] /\ calls'[h] = x
      /\ \A g \in Calls : g # h => calls'[g] = calls[g]
      /\ UNCHANGED <<cabins, inspections, mutex>> /\ calls[h].pc # "writing"
  BY <1>1 DEF Quiet, IInv, TypeOK
<1>3. TypeOK'
  BY <1>1, <1>2 DEF IInv, TypeOK
<1>4. LockOK'
  BY <1>1, <1>2 DEF IInv, LockOK
<1>5. WriterOK'
  BY <1>1, <1>2 DEF IInv, WriterOK
<1>6. DispatchOK'
  BY <1>1, <1>2 DEF IInv, DispatchOK, Dispatching
<1>7. OrderOK'
  BY <1>1, <1>2 DEF IInv, OrderOK
<1>8. QED
  BY <1>3, <1>4, <1>5, <1>6, <1>7 DEF IInv

LEMMA QuietActions ==
  ASSUME IInv, NEW h \in Calls,
         \/ \E o \in Orders, c \in Cabins \cup {Blank}, i \in Inspectors \cup {Blank} :
              ReceiveDispatch(h, o, c, i)
         \/ \E o \in Orders, kind \in Kinds \ {"none", "dispatch"} : Receive(h, kind, o)
         \/ Refuse(h) \/ List(h) \/ Encode(h) \/ Finish(h)
  PROVE  IInv' /\ Quiet(h)
<1>1. TypeOK /\ OrderOK
  BY DEF IInv
<1>2. ASSUME NEW o \in Orders, NEW c \in Cabins \cup {Blank}, NEW i \in Inspectors \cup {Blank},
             ReceiveDispatch(h, o, c, i)
      PROVE  IInv' /\ Quiet(h)
  <2>1. CASE calls'[h].pc = "refused"
    BY <1>1, <1>2, <2>1, ReceiveDispatchIsQuiet, QuietStep DEF Dispatching
  <2>2. CASE calls'[h].pc # "refused"
    <3>1. Quiet(h) /\ calls'[h].order = o /\ ~Stored(o)
      BY <1>1, <1>2, <2>2, ReceiveDispatchIsQuiet
    <3>2. \E b \in cabins, j \in Inspectors :
            calls'[h].record = Work!NewInspectionOrder(b, j)
      BY <1>1, <1>2, <2>2, ReceiveDispatchIsQuiet
    <3>3. \A g \in Calls : calls[g].order # o
      BY <1>1, <1>2, <2>2, ReceiveDispatchIsQuiet
    <3>4. IInv'
      BY <3>1, <3>2, <3>3, QuietStep DEF Stored
    <3>5. QED
      BY <3>1, <3>4
  <2>3. QED
    BY <2>1, <2>2
<1>3. CASE \/ \E o \in Orders, kind \in Kinds \ {"none", "dispatch"} : Receive(h, kind, o)
           \/ Refuse(h) \/ List(h) \/ Encode(h) \/ Finish(h)
  <2>1. Quiet(h) /\ ~Dispatching(h)'
    BY <1>1, <1>3, OthersAreQuiet
  <2>2. calls'[h].pc \in {"waiting", "encoding"} => calls'[h].order \in Orders
    BY <1>1, <1>3, OthersAreQuiet
  <2>3. QED
    BY <2>1, <2>2, QuietStep
<1>4. QED
  BY <1>2, <1>3

\* The lock is taken: nobody writes yet, and then h does.
LEMMA SaveStep ==
  ASSUME IInv, NEW h \in Calls, Save(h)
  PROVE  IInv'
<1> DEFINE o == calls[h].order
           x == [calls[h] EXCEPT !.pc = "writing"]
<1>1. /\ calls \in [Calls -> Call] /\ calls[h] \in Call
      /\ inspections \in [Orders -> Work!InspectionOrder]
  BY CallType DEF IInv, TypeOK
<1>2. /\ Dispatching(h) /\ o \in Orders /\ inspections[o].status = "absent"
      /\ \A g \in Calls : Dispatching(g) /\ calls[g].order = o => g = h
      /\ \E c \in cabins, i \in Inspectors : calls[h].record = Work!NewInspectionOrder(c, i)
  BY DEF Save, Locks, IInv, DispatchOK, Dispatching
<1>3. calls[h].record \in Work!InspectionOrder /\ calls[h].record.status # "absent"
  BY <1>1, <1>2, CallIs DEF Work!NewInspectionOrder, Work!AbsentInspection
<1>4. x \in Call /\ x.pc = "writing" /\ x.order = o /\ x.record = calls[h].record
  BY <1>1, CallIs
<1>5. /\ mutex = Nobody /\ mutex' = h /\ cabins' = cabins
      /\ inspections' = [inspections EXCEPT ![o] = calls[h].record]
      /\ calls' = [calls EXCEPT ![h] = x]
  BY DEF Save, Locks, MayLock
<1>6. calls'[h] = x /\ \A g \in Calls : g # h => calls'[g] = calls[g]
  BY <1>1, <1>5
<1>7. \A g \in Calls : calls[g].pc # "writing"
  BY <1>5 DEF IInv, LockOK
<1>8. TypeOK'
  BY <1>1, <1>2, <1>3, <1>4, <1>5 DEF IInv, TypeOK
<1>9. LockOK'
  BY <1>4, <1>5, <1>6, <1>7 DEF LockOK
<1>10. WriterOK'
  <2> SUFFICES ASSUME NEW g \in Calls, calls'[g].pc = "writing"
               PROVE  LET r == inspections'[calls'[g].order]
                          new == calls'[g].record
                      IN /\ calls'[g].order \in Orders
                         /\ r.status # "absent" /\ new.status # "absent"
                         /\ new.cabin = r.cabin /\ new.inspector = r.inspector
                         /\ \A f \in Names : f \in Range(calls'[g].todo) \/ new[f] = r[f]
    BY DEF WriterOK
  <2>1. inspections'[o] = calls[h].record
    BY <1>1, <1>2, <1>5
  <2>2. g = h
    BY <1>6, <1>7
  <2>3. calls'[g].order = o /\ calls'[g].record = calls[h].record
    BY <1>4, <1>6, <2>2
  <2>4. QED
    BY <1>2, <1>3, <2>1, <2>3
<1>11. DispatchOK'
  <2>1. ASSUME NEW g \in Calls, Dispatching(g)'
        PROVE  g # h /\ Dispatching(g) /\ calls'[g] = calls[g] /\ calls[g].order # o
    BY <1>2, <1>4, <1>6, <2>1 DEF Dispatching
  <2>2. \A g \in Calls : Dispatching(g)' => inspections'[calls[g].order] = inspections[calls[g].order]
    BY <1>1, <1>5, <2>1 DEF IInv, DispatchOK
  <2>3. QED
    BY <1>5, <2>1, <2>2 DEF IInv, DispatchOK
<1>12. OrderOK'
  BY <1>4, <1>6 DEF IInv, OrderOK
<1>13. QED
  BY <1>8, <1>9, <1>10, <1>11, <1>12 DEF IInv

LEMMA UpdateStep ==
  ASSUME IInv, NEW h \in Calls, UpdateInspectionOrder(h)
  PROVE  IInv'
<1> DEFINE o == calls[h].order
           w == inspections[o]
           kind == calls[h].kind
           x == [calls[h] EXCEPT !.pc = "writing", !.record = Made(kind, w),
                                 !.todo = Assigned(kind, w)]
<1>1. /\ calls \in [Calls -> Call] /\ calls[h] \in Call
      /\ inspections \in [Orders -> Work!InspectionOrder]
  BY CallType DEF IInv, TypeOK
<1>2. /\ calls[h].pc = "waiting" /\ o \in Orders
      /\ kind \in {"start", "readings", "complete"}
      /\ w.status # "absent"
  BY DEF UpdateInspectionOrder, Locks, IInv, OrderOK, Stored
<1>3. w \in Work!InspectionOrder /\ Made(kind, w) \in Work!InspectionOrder
  BY <1>1, <1>2, MadeType
<1>4. x \in Call
  BY <1>1, <1>2, <1>3, AssignedType, CallIs DEF Todo
<1>5. x.pc = "writing" /\ x.order = o /\ x.record = Made(kind, w) /\ x.todo = Assigned(kind, w)
  BY <1>1, CallIs
<1>6. /\ mutex = Nobody /\ mutex' = h /\ UNCHANGED <<cabins, inspections>>
      /\ calls' = [calls EXCEPT ![h] = x]
  BY <1>1 DEF UpdateInspectionOrder, Locks, MayLock
<1>7. calls'[h] = x /\ \A g \in Calls : g # h => calls'[g] = calls[g]
  BY <1>1, <1>6
<1>8. \A g \in Calls : calls[g].pc # "writing"
  BY <1>6 DEF IInv, LockOK
<1>9. TypeOK'
  BY <1>1, <1>4, <1>6 DEF IInv, TypeOK
<1>10. LockOK'
  BY <1>5, <1>6, <1>7, <1>8 DEF LockOK
<1>11. WriterOK'
  BY <1>2, <1>3, <1>5, <1>6, <1>7, <1>8, MadeDiffers DEF WriterOK
<1>12. DispatchOK'
  BY <1>5, <1>6, <1>7 DEF IInv, DispatchOK, Dispatching
<1>13. OrderOK'
  BY <1>5, <1>7 DEF IInv, OrderOK
<1>14. QED
  BY <1>9, <1>10, <1>11, <1>12, <1>13 DEF IInv

LEMMA WriteStep ==
  ASSUME IInv, NEW h \in Calls, Write(h)
  PROVE  IInv'
<1> DEFINE o == calls[h].order
           f == Head(calls[h].todo)
           w == Patched(inspections[o], calls[h].record, f)
           x == [calls[h] EXCEPT !.todo = Tail(@)]
<1>1. /\ calls \in [Calls -> Call] /\ calls[h] \in Call
      /\ inspections \in [Orders -> Work!InspectionOrder]
  BY CallType DEF IInv, TypeOK
<1>2. /\ calls[h].pc = "writing" /\ o \in Orders
      /\ calls[h].todo \in Seq(Names) /\ calls[h].todo # << >>
  BY <1>1, CallIs DEF Write, IInv, WriterOK, Todo
<1>3. /\ f \in Names /\ Tail(calls[h].todo) \in Todo
      /\ \A n \in Range(calls[h].todo) : n = f \/ n \in Range(Tail(calls[h].todo))
  BY <1>2, RangeIsHeadAndTail DEF Todo
<1>4. inspections[o] \in Work!InspectionOrder /\ calls[h].record \in Work!InspectionOrder
  BY <1>1, <1>2, CallIs
<1>5. /\ w \in Work!InspectionOrder
      /\ w.cabin = inspections[o].cabin /\ w.inspector = inspections[o].inspector
      /\ \A n \in Names : w[n] = IF n = f THEN calls[h].record[n] ELSE inspections[o][n]
  <2>1. PICK a \in Work!InspectionOrder : a = inspections[o]
    BY <1>4
  <2>2. PICK b \in Work!InspectionOrder : b = calls[h].record
    BY <1>4
  <2>3. PICK n \in Names : n = f
    BY <1>3
  <2>4. /\ Patched(a, b, n) \in Work!InspectionOrder
        /\ Patched(a, b, n).cabin = a.cabin
        /\ Patched(a, b, n).inspector = a.inspector
        /\ \A m \in Names : Patched(a, b, n)[m] = IF m = n THEN b[m] ELSE a[m]
    BY WriteField
  <2>5. w = Patched(a, b, n)
    BY <2>1, <2>2, <2>3
  <2>6. QED
    BY <2>1, <2>2, <2>3, <2>4, <2>5
<1>6. x \in Call /\ x.pc = "writing" /\ x.order = o /\ x.record = calls[h].record
      /\ x.todo = Tail(calls[h].todo)
  BY <1>1, <1>2, <1>3, CallIs
<1>7. /\ UNCHANGED <<cabins, mutex>>
      /\ inspections' = [inspections EXCEPT ![o] = w]
      /\ calls' = [calls EXCEPT ![h] = x]
  BY <1>1, <1>2 DEF Write, Patched
<1>8. /\ calls'[h] = x /\ \A g \in Calls : g # h => calls'[g] = calls[g]
      /\ inspections'[o] = w /\ \A p \in Orders : p # o => inspections'[p] = inspections[p]
  BY <1>1, <1>2, <1>7
<1>9. mutex = h /\ \A g \in Calls : calls[g].pc = "writing" => g = h
  BY <1>2 DEF IInv, LockOK
<1>10. TypeOK'
  BY <1>1, <1>2, <1>5, <1>6, <1>7 DEF IInv, TypeOK
<1>11. LockOK'
  BY <1>2, <1>6, <1>7, <1>8 DEF IInv, LockOK
<1>12. /\ inspections[o].status # "absent" /\ calls[h].record.status # "absent"
       /\ calls[h].record.cabin = inspections[o].cabin
       /\ calls[h].record.inspector = inspections[o].inspector
       /\ \A n \in Names : n \in Range(calls[h].todo) \/ calls[h].record[n] = inspections[o][n]
  BY <1>2 DEF IInv, WriterOK
<1>13. w.status # "absent"
  <2>1. w["status"] # "absent"
    BY <1>5, <1>12 DEF Names
  <2>2. QED
    BY <2>1
<1>14. WriterOK'
  <2> SUFFICES ASSUME NEW g \in Calls, calls'[g].pc = "writing"
               PROVE  LET r == inspections'[calls'[g].order]
                          new == calls'[g].record
                      IN /\ calls'[g].order \in Orders
                         /\ r.status # "absent" /\ new.status # "absent"
                         /\ new.cabin = r.cabin /\ new.inspector = r.inspector
                         /\ \A n \in Names : n \in Range(calls'[g].todo) \/ new[n] = r[n]
    BY DEF WriterOK
  <2>1. \A n \in Names : n \in Range(x.todo) \/ x.record[n] = w[n]
    BY <1>3, <1>5, <1>6, <1>12
  <2>2. g = h
    BY <1>8, <1>9
  <2>3. calls'[g] = x /\ inspections'[calls'[g].order] = w
    BY <1>6, <1>8, <2>2
  <2>4. QED
    BY <1>2, <1>5, <1>6, <1>12, <1>13, <2>1, <2>3
<1>15. DispatchOK'
  <2>1. ASSUME NEW g \in Calls, Dispatching(g)'
        PROVE  /\ Dispatching(g) /\ calls'[g] = calls[g]
               /\ inspections'[calls[g].order] = inspections[calls[g].order]
    <3>1. g # h
      BY <1>2, <1>6, <1>8, <2>1 DEF Dispatching
    <3>2. Dispatching(g) /\ calls'[g] = calls[g]
      BY <1>8, <2>1, <3>1 DEF Dispatching
    <3>3. calls[g].order # o /\ calls[g].order \in Orders
      BY <1>12, <3>2 DEF IInv, DispatchOK
    <3>4. QED
      BY <1>8, <3>2, <3>3
  <2>2. QED
    BY <1>7, <2>1 DEF IInv, DispatchOK
<1>16. OrderOK'
  BY <1>2, <1>6, <1>8 DEF IInv, OrderOK
<1>17. QED
  BY <1>10, <1>11, <1>14, <1>15, <1>16 DEF IInv

LEMMA UnlockStep ==
  ASSUME IInv, NEW h \in Calls, Unlock(h)
  PROVE  IInv'
<1> DEFINE x == [calls[h] EXCEPT !.pc = "encoding", !.todo = Fields]
<1>1. calls \in [Calls -> Call] /\ calls[h] \in Call
  BY CallType DEF IInv, TypeOK
<1>2. /\ calls[h].pc = "writing" /\ calls[h].order \in Orders
      /\ mutex = h /\ \A g \in Calls : calls[g].pc = "writing" => g = h
  BY DEF Unlock, IInv, LockOK, WriterOK
<1>3. x \in Call /\ x.pc = "encoding" /\ x.order = calls[h].order
  <2>1. Fields \in Todo
    BY DEF Fields, Todo, Names
  <2>2. QED
    BY <1>1, <2>1, CallIs
<1>4. /\ UNCHANGED <<cabins, inspections>> /\ mutex' = Nobody
      /\ calls' = [calls EXCEPT ![h] = x]
  BY DEF Unlock
<1>5. calls'[h] = x /\ \A g \in Calls : g # h => calls'[g] = calls[g]
  BY <1>1, <1>4
<1>6. TypeOK'
  BY <1>1, <1>3, <1>4 DEF IInv, TypeOK
<1>7. \A g \in Calls : calls'[g].pc # "writing"
  BY <1>2, <1>3, <1>5
<1>8. LockOK' /\ WriterOK'
  BY <1>4, <1>7 DEF LockOK, WriterOK
<1>9. OrderOK'
  BY <1>2, <1>3, <1>5 DEF IInv, OrderOK
<1>10. DispatchOK'
  BY <1>3, <1>4, <1>5 DEF IInv, DispatchOK, Dispatching
<1>11. QED
  BY <1>6, <1>8, <1>9, <1>10 DEF IInv

LEMMA RegisterStep ==
  ASSUME IInv, NEW c \in Cabins, RegisterCabin(c)
  PROVE  IInv'
<1>1. TypeOK'
  BY DEF IInv, TypeOK, RegisterCabin
<1>2. LockOK' /\ WriterOK' /\ OrderOK'
  BY DEF IInv, LockOK, WriterOK, OrderOK, RegisterCabin
<1>3. DispatchOK'
  BY DEF IInv, DispatchOK, Dispatching, RegisterCabin
<1>4. QED
  BY <1>1, <1>2, <1>3 DEF IInv

LEMMA IInvStep == IInv /\ [Next]_vars => IInv'
<1> SUFFICES ASSUME IInv, [Next]_vars
             PROVE  IInv'
  OBVIOUS
<1>1. CASE UNCHANGED vars
  BY <1>1 DEF vars, IInv, TypeOK, LockOK, WriterOK, DispatchOK, Dispatching, OrderOK
<1>2. ASSUME NEW h \in Calls, TakesLock(h)
      PROVE  IInv'
  BY <1>2, QuietActions, SaveStep, UpdateStep DEF TakesLock
<1>3. ASSUME NEW h \in Calls, RunsOn(h)
      PROVE  IInv'
  BY <1>3, QuietActions, WriteStep, UnlockStep DEF RunsOn
<1>4. QED
  BY <1>1, <1>2, <1>3, QuietActions, RegisterStep DEF Next

\* Whatever the handlers do, the one that writes holds the lock, and what is not yet
\* written differs from what it will be at most in the fields it has still to assign
\* (Store.UpdateInspectionOrder, Store.SaveInspectionOrder).
THEOREM Invariance == Spec => []IInv
<1>1. QED
  BY IInvInit, IInvStep, PTL DEF Spec

\* Every variable has its type, and what is torn occurs in an answer only.
THEOREM TypeCorrect == Spec => []TypeOK
<1>1. IInv => TypeOK
  BY DEF IInv
<1>2. QED
  BY <1>1, Invariance, PTL

------------------------------------------------------------------------------
(* The handlers implement Inspections *)

LEMMA LockedNext ==
  /\ (IInv /\ mutex = Nobody => Locked = inspections)'
  /\ (IInv => \A h \in Calls :
        mutex = h => Locked = [inspections EXCEPT ![calls[h].order] = calls[h].record])'
<1>1. (IInv /\ mutex = Nobody => Locked = inspections)'
  BY LockedWhenFree, PTL
<1>2. (IInv => \A h \in Calls :
         mutex = h => Locked = [inspections EXCEPT ![calls[h].order] = calls[h].record])'
  BY LockedWhenHeld, PTL
<1>3. QED
  BY <1>1, <1>2

\* While nobody starts or ends writing, what the holders of the lock see stays.
LEMMA LockedStays ==
  ASSUME IInv, IInv', NEW h \in Calls, Quiet(h)
  PROVE  Locked' = Locked
<1>1. /\ mutex' = mutex /\ inspections' = inspections /\ calls[h].pc # "writing"
      /\ \A g \in Calls : g # h => calls'[g] = calls[g]
  BY DEF Quiet, IInv, TypeOK
<1>2. CASE mutex = Nobody
  BY <1>1, <1>2, LockedWhenFree, LockedNext
<1>3. CASE mutex \in Calls
  <2>1. mutex # h
    BY <1>1 DEF IInv, LockOK
  <2>2. Locked = [inspections EXCEPT ![calls[mutex].order] = calls[mutex].record]
    BY <1>3, LockedWhenHeld
  <2>3. Locked' = [inspections' EXCEPT ![calls'[mutex'].order] = calls'[mutex'].record]
    BY <1>1, <1>3, LockedNext
  <2>4. QED
    BY <1>1, <1>3, <2>1, <2>2, <2>3
<1>4. QED
  BY <1>2, <1>3 DEF IInv, TypeOK

\* A new order appears as its dispatcher gets the lock.
LEMMA SaveDispatches ==
  ASSUME IInv, IInv', NEW h \in Calls, Save(h)
  PROVE  Work!Next
<1> DEFINE o == calls[h].order
<1>1. PICK c \in cabins, i \in Inspectors : calls[h].record = Work!NewInspectionOrder(c, i)
  BY DEF Save, Locks, IInv, DispatchOK, Dispatching
<1>2. o \in Orders /\ inspections[o].status = "absent"
  BY DEF Save, Locks, IInv, DispatchOK, Dispatching
<1>3. /\ mutex = Nobody /\ mutex' = h /\ cabins' = cabins
      /\ inspections' = [inspections EXCEPT ![o] = calls[h].record]
      /\ calls' = [calls EXCEPT ![h].pc = "writing"]
  BY DEF Save, Locks, MayLock
<1>4. calls'[h].order = o /\ calls'[h].record = calls[h].record
  BY <1>3, CallIs, CallType DEF IInv, TypeOK
<1>5. Locked = inspections
  BY <1>3, LockedWhenFree
<1>6. Locked' = [inspections' EXCEPT ![o] = calls[h].record]
  BY <1>3, <1>4, LockedNext
<1>7. Locked' = [Locked EXCEPT ![o] = calls[h].record]
  BY <1>2, <1>3, <1>5, <1>6 DEF IInv, TypeOK
<1>8. c \in Cabins /\ cabins \subseteq Cabins
  BY DEF IInv, TypeOK
<1>9. Work!DispatchInspection(o, c, i)
  BY <1>1, <1>2, <1>3, <1>5, <1>7 DEF Work!DispatchInspection, Work!Stored
<1>10. QED
  BY <1>2, <1>8, <1>9 DEF Work!Next

\* What the callback makes of an order appears as the handler gets the lock.
LEMMA UpdateUpdates ==
  ASSUME IInv, IInv', NEW h \in Calls, UpdateInspectionOrder(h)
  PROVE  Work!Next
<1> DEFINE o == calls[h].order
           kind == calls[h].kind
           new == Made(kind, inspections[o])
<1>1. o \in Orders /\ kind \in {"start", "readings", "complete"}
  BY DEF UpdateInspectionOrder, Locks, IInv, OrderOK
<1>2. /\ mutex = Nobody /\ mutex' = h /\ UNCHANGED <<cabins, inspections>>
      /\ calls'[h].order = o /\ calls'[h].record = new
      /\ inspections[o].status # "absent" /\ Accepts(kind, inspections[o])
  BY CallIs, CallType DEF UpdateInspectionOrder, Locks, MayLock, Stored, IInv, TypeOK
<1>3. Locked = inspections
  BY <1>2, LockedWhenFree
<1>4. Locked' = [Locked EXCEPT ![o] = new]
  BY <1>2, <1>3, LockedNext
<1>5. Work!Stored(o) /\ cabins' = cabins
  BY <1>2, <1>3 DEF Work!Stored
<1>6. CASE kind = "start"
  <2>1. Work!CanStart(Locked[o]) /\ new = Work!Start(Locked[o])
    BY <1>2, <1>3, <1>6 DEF Accepts, Made
  <2>2. Work!UpdateInspectionOrder(o, Work!CanStart(Locked[o]), Work!Start(Locked[o]))
    BY <1>4, <1>5, <2>1 DEF Work!UpdateInspectionOrder
  <2>3. QED
    BY <1>1, <2>2 DEF Work!Next
<1>7. CASE kind = "readings"
  <2>1. Work!CanRecord(Locked[o]) /\ new = Work!RecordReadings(Locked[o])
    BY <1>2, <1>3, <1>7 DEF Accepts, Made
  <2>2. Work!UpdateInspectionOrder(o, Work!CanRecord(Locked[o]), Work!RecordReadings(Locked[o]))
    BY <1>4, <1>5, <2>1 DEF Work!UpdateInspectionOrder
  <2>3. QED
    BY <1>1, <2>2 DEF Work!Next
<1>8. CASE kind = "complete"
  <2>1. new = Work!Complete(Locked[o])
    BY <1>3, <1>8 DEF Made
  <2>2. Work!UpdateInspectionOrder(o, TRUE, Work!Complete(Locked[o]))
    BY <1>4, <1>5, <2>1 DEF Work!UpdateInspectionOrder
  <2>3. QED
    BY <1>1, <2>2 DEF Work!Next
<1>9. QED
  BY <1>1, <1>6, <1>7, <1>8

\* The fields are written in a state that nobody else sees.
LEMMA WriteIsUnseen ==
  ASSUME IInv, IInv', NEW h \in Calls, Write(h)
  PROVE  Locked' = Locked
<1> DEFINE o == calls[h].order
<1>1. mutex = h /\ mutex' = h /\ o \in Orders
  BY DEF Write, IInv, LockOK, WriterOK
<1>2. calls'[h].order = o /\ calls'[h].record = calls[h].record
  BY CallIs, CallType DEF Write, IInv, TypeOK
<1>3. inspections' = [inspections EXCEPT ![o] = inspections'[o]]
  BY <1>1 DEF Write, IInv, TypeOK
<1>4. Locked = [inspections EXCEPT ![o] = calls[h].record]
  BY <1>1, LockedWhenHeld
<1>5. Locked' = [inspections' EXCEPT ![o] = calls[h].record]
  BY <1>1, <1>2, LockedNext
<1>6. inspections \in [Orders -> Work!InspectionOrder]
  BY DEF IInv, TypeOK
<1>7. QED
  BY <1>1, <1>3, <1>4, <1>5, <1>6

\* As the lock is released, every field is written.
LEMMA UnlockIsUnseen ==
  ASSUME IInv, IInv', NEW h \in Calls, Unlock(h)
  PROVE  Locked' = Locked
<1> DEFINE o == calls[h].order
<1>1. /\ mutex = h /\ mutex' = Nobody /\ inspections' = inspections /\ o \in Orders
      /\ calls[h].pc = "writing" /\ calls[h].todo = << >>
  BY DEF Unlock, IInv, LockOK, WriterOK
<1>2. Locked = [inspections EXCEPT ![o] = calls[h].record]
  BY <1>1, LockedWhenHeld
<1>3. Locked' = inspections
  BY <1>1, LockedNext
<1>4. inspections[o] \in Work!InspectionOrder /\ calls[h].record \in Work!InspectionOrder
  BY <1>1, CallIs, CallType DEF IInv, TypeOK
<1>5. Range(<< >>) = {}
  BY DEF Range
<1>6. /\ \A f \in Names : calls[h].record[f] = inspections[o][f]
      /\ calls[h].record.cabin = inspections[o].cabin
      /\ calls[h].record.inspector = inspections[o].inspector
  BY <1>1, <1>5 DEF IInv, WriterOK
<1>7. calls[h].record = inspections[o]
  BY <1>4, <1>6 DEF Names, Work!InspectionOrder
<1>8. QED
  BY <1>1, <1>2, <1>3, <1>7 DEF IInv, TypeOK

LEMMA WorkInit == Init => Work!Init
BY DEF Init, Work!Init, Locked, Writing, Idle

LEMMA WorkStep == IInv /\ IInv' /\ [Next]_vars => [Work!Next]_(Work!vars)
<1> SUFFICES ASSUME IInv, IInv', [Next]_vars
             PROVE  Work!Next \/ UNCHANGED <<cabins, Locked>>
  BY DEF Work!vars
<1>1. CASE UNCHANGED vars
  BY <1>1 DEF vars, Locked, Writing
<1>2. ASSUME NEW c \in Cabins, RegisterCabin(c)
      PROVE  Work!Next
  <2>1. Locked' = Locked
    BY <1>2 DEF RegisterCabin, Locked, Writing
  <2>2. Work!RegisterCabin(c)
    BY <1>2, <2>1 DEF RegisterCabin, Work!RegisterCabin
  <2>3. QED
    BY <2>2 DEF Work!Next
<1>3. ASSUME NEW h \in Calls, Quiet(h)
      PROVE  UNCHANGED <<cabins, Locked>>
  BY <1>3, LockedStays DEF Quiet
<1>4. ASSUME NEW h \in Calls, Save(h) \/ UpdateInspectionOrder(h)
      PROVE  Work!Next
  BY <1>4, SaveDispatches, UpdateUpdates
<1>5. ASSUME NEW h \in Calls, Write(h) \/ Unlock(h)
      PROVE  UNCHANGED <<cabins, Locked>>
  <2>1. Locked' = Locked
    BY <1>5, WriteIsUnseen, UnlockIsUnseen
  <2>2. cabins' = cabins
    BY <1>5 DEF Write, Unlock
  <2>3. QED
    BY <2>1, <2>2
<1>6. QED
  BY <1>1, <1>2, <1>3, <1>4, <1>5, QuietActions DEF Next, TakesLock, RunsOn

\* The handlers, which write the records field by field, implement the inspections as
\* whoever takes the lock sees them, each call being one step
\* (Store.UpdateInspectionOrder, Service.DispatchInspection).
THEOREM HandlersImplementInspections == Spec => IsInspections
<1>1. QED
  BY WorkInit, WorkStep, Invariance, PTL DEF Spec, IsInspections, Work!Spec

------------------------------------------------------------------------------
(* What holds of Inspections *)

LEMMA LockedType == IInv => Locked \in [Orders -> Work!InspectionOrder]
BY CallType, CallIs DEF IInv, TypeOK, LockOK, WriterOK, Locked, Writing

\* The methods keep a record's status and audit trail in step.
LEMMA MethodsAgree ==
  ASSUME NEW w \in Work!InspectionOrder, w.status # "absent" => Work!RecordAgrees(w)
  PROVE  /\ Work!CanStart(w) => Work!RecordAgrees(Work!Start(w))
         /\ Work!CanRecord(w) => Work!RecordAgrees(Work!RecordReadings(w))
         /\ w.status # "absent" => Work!RecordAgrees(Work!Complete(w))
<1>1. w.status \in {"absent", "created", "in_progress", "completed"}
  BY DEF Work!InspectionOrder
<1>2. Append(<<"inspection_dispatched">>, "inspection_started")
        = <<"inspection_dispatched", "inspection_started">>
  <2> DEFINE S == {"inspection_dispatched", "inspection_started"}
             s == Append(<<"inspection_dispatched">>, "inspection_started")
             t == <<"inspection_dispatched", "inspection_started">>
  <2>1. /\ s \in Seq(S) /\ Len(s) = 2
        /\ s[1] = "inspection_dispatched" /\ s[2] = "inspection_started"
    OBVIOUS
  <2>2. /\ t \in Seq(S) /\ Len(t) = 2
        /\ t[1] = "inspection_dispatched" /\ t[2] = "inspection_started"
    OBVIOUS
  <2> HIDE DEF s, t
  <2>3. \A i \in 1..Len(s) : s[i] = t[i]
    BY <2>1, <2>2
  <2>4. s = t
    BY <2>1, <2>2, <2>3, SeqEqual
  <2>5. QED
    BY <2>4 DEF s, t
<1>3. ASSUME Work!CanStart(w)
      PROVE  Work!RecordAgrees(Work!Start(w))
  <2>1. w.status = "created" /\ w.audit = <<"inspection_dispatched">> /\ ~w.completed
    BY <1>3 DEF Work!CanStart, Work!RecordAgrees, Work!InspectionOrder
  <2>2. /\ Work!Start(w).status = "in_progress" /\ Work!Start(w).completed = w.completed
        /\ Work!Start(w).audit = Append(w.audit, "inspection_started")
    BY DEF Work!Start, Work!InspectionOrder
  <2>3. QED
    BY <1>2, <2>1, <2>2 DEF Work!RecordAgrees
<1>4. ASSUME Work!CanRecord(w)
      PROVE  Work!RecordAgrees(Work!RecordReadings(w))
  <2>1. /\ Work!RecordReadings(w).status = w.status
        /\ Work!RecordReadings(w).completed = w.completed
        /\ Work!RecordReadings(w).audit = w.audit
    BY DEF Work!RecordReadings, Work!InspectionOrder
  <2>2. QED
    BY <1>4, <2>1 DEF Work!CanRecord, Work!RecordAgrees
<1>5. ASSUME w.status # "absent"
      PROVE  Work!RecordAgrees(Work!Complete(w))
  <2>1. CASE w.status = "completed"
    BY <2>1, <1>5 DEF Work!Complete
  <2>2. CASE w.status # "completed"
    <3>1. /\ Work!Complete(w).status = "completed" /\ Work!Complete(w).completed = TRUE
          /\ Work!Complete(w).audit = Append(w.audit, "inspection_completed")
      BY <2>2 DEF Work!Complete, Work!InspectionOrder
    <3>2. \/ w.audit = <<"inspection_dispatched">>
          \/ w.audit = <<"inspection_dispatched", "inspection_started">>
      BY <1>1, <1>5, <2>2 DEF Work!RecordAgrees
    <3>3. QED
      BY <3>1, <3>2 DEF Work!RecordAgrees
  <2>3. QED
    BY <2>1, <2>2
<1>6. QED
  BY <1>3, <1>4, <1>5

LEMMA NewAgrees == \A c \in Cabins, i \in Inspectors : Work!RecordAgrees(Work!NewInspectionOrder(c, i))
BY DEF Work!RecordAgrees, Work!NewInspectionOrder, Work!AbsentInspection

LEMMA TrailStep == IInv /\ TrailTellsStatus /\ [Work!Next]_(Work!vars) => TrailTellsStatus'
<1> SUFFICES ASSUME IInv, TrailTellsStatus, [Work!Next]_(Work!vars),
                    NEW p \in Orders, Locked'[p].status # "absent"
             PROVE  Work!RecordAgrees(Locked'[p])
  BY DEF TrailTellsStatus, Work!TrailTellsStatus, Work!Stored
<1>1. /\ Locked \in [Orders -> Work!InspectionOrder]
      /\ \A o \in Orders : Locked[o].status # "absent" => Work!RecordAgrees(Locked[o])
  BY LockedType DEF TrailTellsStatus, Work!TrailTellsStatus, Work!Stored
<1>2. CASE Locked' = Locked
  BY <1>1, <1>2
<1>3. ASSUME NEW o \in Orders, NEW new, Work!RecordAgrees(new),
             Locked' = [Locked EXCEPT ![o] = new]
      PROVE  Work!RecordAgrees(Locked'[p])
  BY <1>1, <1>3
<1>4. ASSUME NEW o \in Orders, NEW c \in Cabins, NEW i \in Inspectors,
             Work!DispatchInspection(o, c, i)
      PROVE  Work!RecordAgrees(Locked'[p])
  BY <1>3, <1>4, NewAgrees DEF Work!DispatchInspection
<1>5. ASSUME NEW o \in Orders,
             \/ Work!UpdateInspectionOrder(o, Work!CanStart(Locked[o]), Work!Start(Locked[o]))
             \/ Work!UpdateInspectionOrder(o, Work!CanRecord(Locked[o]),
                                           Work!RecordReadings(Locked[o]))
             \/ Work!UpdateInspectionOrder(o, TRUE, Work!Complete(Locked[o]))
      PROVE  Work!RecordAgrees(Locked'[p])
  <2>1. Locked[o] \in Work!InspectionOrder
    BY <1>1
  <2>2. \/ /\ Work!RecordAgrees(Work!Start(Locked[o]))
           /\ Locked' = [Locked EXCEPT ![o] = Work!Start(Locked[o])]
        \/ /\ Work!RecordAgrees(Work!RecordReadings(Locked[o]))
           /\ Locked' = [Locked EXCEPT ![o] = Work!RecordReadings(Locked[o])]
        \/ /\ Work!RecordAgrees(Work!Complete(Locked[o]))
           /\ Locked' = [Locked EXCEPT ![o] = Work!Complete(Locked[o])]
    BY <1>1, <1>5, <2>1, MethodsAgree DEF Work!UpdateInspectionOrder, Work!Stored
  <2>3. QED
    BY <1>3, <2>2
<1>6. QED
  BY <1>2, <1>4, <1>5 DEF Work!Next, Work!vars, Work!RegisterCabin

\* The trail tells the status of every inspection order, for whoever holds the lock
\* (InspectionOrder.Start, RecordReadings and Complete).
THEOREM TrailsTellStatus == Spec => []TrailTellsStatus
<1>1. Init => TrailTellsStatus
  BY WorkInit DEF Work!Init, TrailTellsStatus, Work!TrailTellsStatus, Work!Stored,
                  Work!AbsentInspection
<1>2. QED
  BY <1>1, WorkStep, TrailStep, Invariance, PTL DEF Spec

------------------------------------------------------------------------------
(* An answer is not older than its call *)

\* The values of a field, those included that a reader without the lock may get.
Value(f) ==
  CASE f = "status" -> {"absent", "created", "in_progress", "completed", "torn"}
    [] f = "completed" -> BOOLEAN
    [] f = "readings" -> Nat
    [] f = "audit" -> Seq(Work!AuditActions \cup {"torn"})

\* The value b of the field is not older than a.
NotOlder(f, a, b) ==
  /\ f = "status" => Rank[b] >= Rank[a]
  /\ f = "completed" => (a => b)
  /\ f = "readings" => b >= a
  /\ f = "audit" => Len(b) >= Len(a) /\ \A i \in 1..Len(a) : b[i] = a[i]

\* Memory is behind the one that writes, and ahead of the calls that answer; what
\* has been read of it for an answer is, too.  A call that makes no record has none.
CallOK(c, memory) ==
  LET w == memory[c.order]
  IN /\ c.pc = "writing" => \A f \in Names : NotOlder(f, w[f], c.record[f])
     /\ c.pc = "encoding" => \A f \in Names :
          /\ NotOlder(f, c.record[f], w[f])
          /\ f \in Range(c.todo) \/ NotOlder(f, c.record[f], c.body[f])
     /\ c.pc = "waiting" /\ c.kind # "dispatch" => c.record = Work!AbsentInspection

\* What is not there has nothing in it.
NothingOK ==
  \A o \in Orders :
    inspections[o].status = "absent" => inspections[o] = Work!AbsentInspection

AInv == NothingOK /\ \A h \in Calls : CallOK(calls[h], inspections)

LEMMA ValueType ==
  /\ \A w \in Work!InspectionOrder, f \in Names : w[f] \in Value(f)
  /\ \A b \in Body, f \in Names : b[f] \in Value(f)
  /\ TypeOK => \A o \in Orders, f \in Names : Readable(o, f) \subseteq Value(f)
<1>1. ASSUME NEW w \in Work!InspectionOrder, NEW f \in Names
      PROVE  w[f] \in Value(f)
  <2>1. w.audit \in Seq(Work!AuditActions \cup {"torn"})
    BY DEF Work!InspectionOrder
  <2>2. QED
    BY <2>1 DEF Names, Value, Work!InspectionOrder
<1>2. ASSUME NEW b \in Body, NEW f \in Names
      PROVE  b[f] \in Value(f)
  BY DEF Names, Value, Body
<1>3. ASSUME TypeOK, NEW o \in Orders, NEW f \in Names, NEW v \in Readable(o, f)
      PROVE  v \in Value(f)
  BY <1>3, ReadableType DEF Names, Value
<1>4. QED
  BY <1>1, <1>2, <1>3

LEMMA NotOlderThanItself ==
  ASSUME NEW f \in Names, NEW a \in Value(f)
  PROVE  NotOlder(f, a, a)
<1>1. CASE f = "status"
  BY <1>1 DEF NotOlder, Value, Rank
<1>2. CASE f # "status"
  BY <1>2 DEF NotOlder, Value, Names
<1>3. QED
  BY <1>1, <1>2

LEMMA NotOlderIsTransitive ==
  ASSUME NEW f \in Names, NEW a \in Value(f), NEW b \in Value(f), NEW c \in Value(f),
         NotOlder(f, a, b), NotOlder(f, b, c)
  PROVE  NotOlder(f, a, c)
<1>1. CASE f = "status"
  BY <1>1 DEF NotOlder, Value, Rank
<1>2. CASE f = "completed"
  BY <1>2 DEF NotOlder, Value
<1>3. CASE f = "readings"
  BY <1>3 DEF NotOlder, Value
<1>4. CASE f = "audit"
  BY <1>4 DEF NotOlder, Value
<1>5. QED
  BY <1>1, <1>2, <1>3, <1>4 DEF Names

LEMMA NothingIsOldest ==
  ASSUME NEW f \in Names, NEW a \in Value(f)
  PROVE  NotOlder(f, Work!AbsentInspection[f], a)
<1>1. CASE f = "status"
  BY <1>1 DEF NotOlder, Value, Rank, Work!AbsentInspection
<1>2. CASE f = "audit"
  BY <1>2 DEF NotOlder, Value, Work!AbsentInspection
<1>3. CASE f \in {"completed", "readings"}
  BY <1>3 DEF NotOlder, Value, Work!AbsentInspection
<1>4. QED
  BY <1>1, <1>2, <1>3 DEF Names

LEMMA AppendedIsNotOlder ==
  ASSUME NEW S, NEW s \in Seq(S), NEW x \in S
  PROVE  NotOlder("audit", s, Append(s, x))
<1>1. Len(Append(s, x)) >= Len(s) /\ \A i \in 1..Len(s) : Append(s, x)[i] = s[i]
  OBVIOUS
<1>2. "audit" # "status" /\ "audit" # "completed" /\ "audit" # "readings"
  OBVIOUS
<1>3. QED
  BY <1>1, <1>2, Zenon DEF NotOlder

\* What the encoder reads without the lock is not older than what is there.
LEMMA ReadIsNotOlder ==
  ASSUME TypeOK, NEW o \in Orders, NEW f \in Names, NEW v \in Readable(o, f)
  PROVE  NotOlder(f, inspections[o][f], v)
<1>1. inspections[o] \in Work!InspectionOrder /\ inspections[o][f] \in Value(f)
  BY ValueType DEF TypeOK
<1>2. CASE v = inspections[o][f]
  BY <1>1, <1>2, NotOlderThanItself
<1>3. CASE f = "status" /\ v = "torn"
  BY <1>1, <1>3 DEF NotOlder, Value, Rank
<1>4. CASE f = "audit" /\ v = Append(inspections[o].audit, "torn")
  <2>1. inspections[o].audit \in Seq(Work!AuditActions \cup {"torn"})
    BY <1>1, <1>4 DEF Value
  <2>2. QED
    BY <1>4, <2>1, AppendedIsNotOlder
<1>5. QED
  BY <1>2, <1>3, <1>4 DEF Readable, Names

\* The methods only move a record forward.
LEMMA MadeIsNotOlder ==
  ASSUME NEW kind \in {"start", "readings", "complete"}, NEW w \in Work!InspectionOrder,
         Accepts(kind, w), NEW f \in Names
  PROVE  NotOlder(f, w[f], Made(kind, w)[f])
<1> DEFINE new == Made(kind, w)
<1>1. w[f] \in Value(f) /\ w.audit \in Seq(Work!AuditActions) /\ w.readings \in Nat
      /\ w.status \in {"absent", "created", "in_progress", "completed"}
  BY ValueType DEF Work!InspectionOrder
<1>2. CASE new[f] = w[f]
  BY <1>1, <1>2, NotOlderThanItself
<1>3. CASE kind = "start"
  <2>1. /\ w.status = "created" /\ new.status = "in_progress"
        /\ new.completed = w.completed /\ new.readings = w.readings
        /\ new.audit = Append(w.audit, "inspection_started")
    BY <1>3 DEF Accepts, Work!CanStart, Made, Work!Start, Work!InspectionOrder
  <2>2. NotOlder("audit", w.audit, new.audit)
    BY <1>1, <2>1, AppendedIsNotOlder DEF Work!AuditActions
  <2>3. NotOlder("status", w.status, new.status)
    BY <2>1 DEF NotOlder, Rank
  <2>4. QED
    BY <1>2, <2>1, <2>2, <2>3 DEF Names
<1>4. CASE kind = "readings"
  <2>1. /\ new.status = w.status /\ new.completed = w.completed
        /\ new.readings = w.readings + 1 /\ new.audit = w.audit
    BY <1>4 DEF Made, Work!RecordReadings, Work!InspectionOrder
  <2>2. NotOlder("readings", w.readings, new.readings)
    BY <1>1, <2>1 DEF NotOlder
  <2>3. QED
    BY <1>2, <2>1, <2>2 DEF Names
<1>5. CASE kind = "complete" /\ w.status = "completed"
  <2>1. new = w
    BY <1>5 DEF Made, Work!Complete
  <2>2. QED
    BY <1>2, <2>1
<1>6. CASE kind = "complete" /\ w.status # "completed"
  <2>1. /\ new.status = "completed" /\ new.completed = TRUE /\ new.readings = w.readings
        /\ new.audit = Append(w.audit, "inspection_completed")
    BY <1>6 DEF Made, Work!Complete, Work!InspectionOrder
  <2>2. NotOlder("audit", w.audit, new.audit)
    BY <1>1, <2>1, AppendedIsNotOlder DEF Work!AuditActions
  <2>3. NotOlder("status", w.status, new.status)
    BY <1>1, <2>1 DEF NotOlder, Rank
  <2>4. NotOlder("completed", w.completed, new.completed)
    BY <2>1 DEF NotOlder
  <2>5. QED
    BY <1>2, <2>1, <2>2, <2>3, <2>4 DEF Names
<1>7. QED
  BY <1>3, <1>4, <1>5, <1>6

\* Memory moves forward in a step of h: the other calls stay behind it.
MovesForward ==
  \A o \in Orders, f \in Names : NotOlder(f, inspections[o][f], inspections'[o][f])

LEMMA OthersStayBehind ==
  ASSUME IInv, IInv', AInv, NothingOK', MovesForward, NEW h \in Calls,
         CallOK(calls'[h], inspections'),
         \A g \in Calls : g # h => calls'[g] = calls[g],
         inspections' = inspections \/ \A g \in Calls : g # h => calls[g].pc # "writing"
  PROVE  AInv'
<1>1. ASSUME NEW g \in Calls, g # h, calls[g].pc = "encoding", NEW f \in Names
      PROVE  NotOlder(f, calls[g].record[f], inspections'[calls[g].order][f])
  <2>1. calls[g].order \in Orders
    BY <1>1 DEF IInv, OrderOK
  <2>2. /\ calls[g].record[f] \in Value(f)
        /\ inspections[calls[g].order][f] \in Value(f)
        /\ inspections'[calls[g].order][f] \in Value(f)
    BY <2>1, CallType, CallIs, ValueType DEF IInv, TypeOK
  <2>3. NotOlder(f, calls[g].record[f], inspections[calls[g].order][f])
    BY <1>1 DEF AInv, CallOK
  <2>4. QED
    BY <2>1, <2>2, <2>3, NotOlderIsTransitive DEF MovesForward
<1>2. ASSUME NEW g \in Calls, g # h
      PROVE  CallOK(calls[g], inspections')
  <2>1. CallOK(calls[g], inspections)
    BY DEF AInv
  <2>2. QED
    BY <1>1, <1>2, <2>1 DEF CallOK
<1>3. \A g \in Calls : CallOK(calls'[g], inspections')
  BY <1>2
<1>4. QED
  BY <1>3 DEF AInv

LEMMA SameMovesForward == TypeOK /\ inspections' = inspections => MovesForward
BY NotOlderThanItself, ValueType DEF TypeOK, MovesForward

LEMMA FieldsAreAll == Range(Fields) = Names
<1>1. Range(Fields) = {Fields[i] : i \in 1..4}
  BY DEF Range, Fields
<1>2. QED
  BY <1>1, FieldNames

LEMMA AInvInit == Init => AInv
<1> SUFFICES ASSUME Init PROVE AInv
  OBVIOUS
<1>1. \A h \in Calls : calls[h].pc = "idle"
  BY DEF Init, Idle
<1>2. QED
  BY <1>1 DEF AInv, NothingOK, CallOK, Init

\* A quiet step of h, which leaves it in x.
LEMMA QuietIsOK ==
  ASSUME IInv, IInv', AInv, NEW h \in Calls, Quiet(h), CallOK(calls'[h], inspections)
  PROVE  AInv'
<1>1. /\ inspections' = inspections
      /\ \A g \in Calls : g # h => calls'[g] = calls[g]
  BY DEF Quiet, IInv, TypeOK
<1>2. NothingOK'
  BY <1>1 DEF AInv, NothingOK
<1>3. MovesForward
  BY <1>1, SameMovesForward DEF IInv
<1>4. QED
  BY <1>1, <1>2, <1>3, OthersStayBehind

LEMMA ReceiveDispatchIsOK ==
  ASSUME TypeOK, NEW h \in Calls, NEW o \in Orders, NEW c \in Cabins \cup {Blank},
         NEW i \in Inspectors \cup {Blank}, ReceiveDispatch(h, o, c, i)
  PROVE  CallOK(calls'[h], inspections)
<1>1. calls \in [Calls -> Call] /\ calls[h] \in Call
  BY CallType DEF TypeOK
<1>2. CASE c # Blank /\ i # Blank /\ c \in cabins
  <2> DEFINE x == [calls[h] EXCEPT !.pc = "waiting", !.kind = "dispatch", !.order = o,
                                   !.record = Work!NewInspectionOrder(c, i)]
  <2>1. calls' = [calls EXCEPT ![h] = x]
    BY <1>2 DEF ReceiveDispatch
  <2>2. x.pc = "waiting" /\ x.kind = "dispatch" /\ calls'[h] = x
    BY <1>1, <2>1, CallIs
  <2>3. QED
    BY <2>2 DEF CallOK
<1>3. CASE ~(c # Blank /\ i # Blank /\ c \in cabins)
  <2>1. calls' = [calls EXCEPT ![h] = Refused(h)]
    BY <1>3 DEF ReceiveDispatch
  <2>2. calls'[h].pc = "refused"
    BY <1>1, <2>1, RefusedType
  <2>3. QED
    BY <2>2 DEF CallOK
<1>4. QED
  BY <1>2, <1>3

LEMMA ReceiveIsOK ==
  ASSUME TypeOK, NEW h \in Calls, NEW o \in Orders, NEW kind, Receive(h, kind, o)
  PROVE  CallOK(calls'[h], inspections)
<1>1. calls \in [Calls -> Call] /\ calls[h] \in Call /\ calls[h] = Idle
  BY CallType DEF TypeOK, Receive
<1> DEFINE x == [calls[h] EXCEPT !.pc = "waiting", !.kind = kind, !.order = o]
<1>2. calls' = [calls EXCEPT ![h] = x]
  BY <1>1, CallIs DEF Receive
<1>3. calls'[h].pc = "waiting" /\ calls'[h].record = calls[h].record
  BY <1>1, <1>2, CallIs
<1>4. calls[h].record = Work!AbsentInspection
  BY <1>1 DEF Idle
<1>5. QED
  BY <1>3, <1>4 DEF CallOK

LEMMA ListIsOK ==
  ASSUME IInv, AInv, NEW h \in Calls, List(h)
  PROVE  CallOK(calls'[h], inspections)
<1>1. calls \in [Calls -> Call] /\ calls[h] \in Call
  BY CallType DEF IInv, TypeOK
<1>2. calls[h].pc = "waiting" /\ calls[h].kind = "list"
  BY DEF List, Locks
<1>3. \/ calls'[h].pc = "refused"
      \/ /\ calls'[h].pc = "encoding" /\ calls'[h].todo = Fields
         /\ calls'[h].record = calls[h].record /\ calls'[h].order = calls[h].order
  BY <1>1, CallIs DEF List
<1>4. calls[h].record = Work!AbsentInspection /\ calls[h].order \in Orders
  BY <1>2 DEF AInv, CallOK, IInv, OrderOK
<1>5. \A f \in Names : NotOlder(f, Work!AbsentInspection[f], inspections[calls[h].order][f])
  BY <1>4, NothingIsOldest, ValueType DEF IInv, TypeOK
<1>6. QED
  BY <1>3, <1>4, <1>5, FieldsAreAll DEF CallOK

\* What has been read stays not older, and so is what is read now.
LEMMA EncodeIsOK ==
  ASSUME IInv, AInv, NEW h \in Calls, Encode(h)
  PROVE  CallOK(calls'[h], inspections)
<1> DEFINE o == calls[h].order
           n == Head(calls[h].todo)
           record == calls[h].record
<1>1. calls \in [Calls -> Call] /\ calls[h] \in Call
  BY CallType DEF IInv, TypeOK
<1>2. PICK v \in Readable(o, n) :
        calls' = [calls EXCEPT ![h].body[n] = v, ![h].todo = Tail(@)]
  BY DEF Encode
<1>3. calls[h].pc = "encoding" /\ calls[h].todo # << >>
  BY DEF Encode
<1>4. calls[h].todo \in Seq(Names) /\ o \in Orders
  BY <1>1, <1>3, CallIs DEF Todo, IInv, OrderOK
<1>5. n \in Names /\ \A f \in Range(calls[h].todo) : f = n \/ f \in Range(Tail(calls[h].todo))
  BY <1>3, <1>4, RangeIsHeadAndTail
<1> DEFINE x == [calls[h] EXCEPT !.body[n] = v, !.todo = Tail(@)]
<1>6. calls'[h] = x
  BY <1>1, <1>2
<1>7. /\ x.pc = "encoding" /\ x.order = o /\ x.record = record
      /\ x.todo = Tail(calls[h].todo) /\ x.body = [calls[h].body EXCEPT ![n] = v]
  BY <1>1, <1>3, CallIs
<1>8. \A f \in Names : x.body[f] = IF f = n THEN v ELSE calls[h].body[f]
  <2>1. calls[h].body \in Body
    BY <1>1, CallIs
  <2>2. \A f \in Names : [calls[h].body EXCEPT ![n] = v][f]
                           = IF f = n THEN v ELSE calls[h].body[f]
    BY <1>5, <2>1 DEF Body, Names
  <2>3. QED
    BY <1>7, <2>2
<1>9. \A f \in Names :
        /\ NotOlder(f, record[f], inspections[o][f])
        /\ f \in Range(calls[h].todo) \/ NotOlder(f, record[f], calls[h].body[f])
  BY <1>3 DEF AInv, CallOK
<1>10. NotOlder(n, record[n], v)
  <2>1. record[n] \in Value(n) /\ inspections[o][n] \in Value(n) /\ v \in Value(n)
    BY <1>1, <1>4, <1>5, CallIs, ValueType DEF IInv, TypeOK
  <2>2. NotOlder(n, inspections[o][n], v)
    BY <1>4, <1>5, ReadIsNotOlder DEF IInv
  <2>3. QED
    BY <1>5, <1>9, <2>1, <2>2, NotOlderIsTransitive
<1>11. \A f \in Names : f \in Range(x.todo) \/ NotOlder(f, record[f], x.body[f])
  BY <1>5, <1>7, <1>8, <1>9, <1>10
<1> HIDE DEF x
<1>12. QED
  BY <1>6, <1>7, <1>9, <1>11 DEF CallOK

LEMMA QuietActionsAreOK ==
  ASSUME IInv, AInv, NEW h \in Calls,
         \/ \E o \in Orders, c \in Cabins \cup {Blank}, i \in Inspectors \cup {Blank} :
              ReceiveDispatch(h, o, c, i)
         \/ \E o \in Orders, kind \in Kinds \ {"none", "dispatch"} : Receive(h, kind, o)
         \/ Refuse(h) \/ List(h) \/ Encode(h) \/ Finish(h)
  PROVE  AInv'
<1>1. IInv' /\ Quiet(h) /\ TypeOK
  BY QuietActions DEF IInv
<1>2. ASSUME Refuse(h) \/ Finish(h)
      PROVE  CallOK(calls'[h], inspections)
  <2>1. calls'[h].pc = "refused" \/ calls'[h].pc = "idle"
    <3>1. calls \in [Calls -> Call] /\ Refused(h).pc = "refused" /\ Idle.pc = "idle"
      BY <1>1, CallType, RefusedType DEF TypeOK, Idle
    <3>2. calls' = [calls EXCEPT ![h] = Refused(h)] \/ calls' = [calls EXCEPT ![h] = Idle]
      BY <1>2 DEF Refuse, Finish
    <3>3. QED
      BY <3>1, <3>2
  <2>2. QED
    BY <2>1 DEF CallOK
<1>3. CallOK(calls'[h], inspections)
  BY <1>1, <1>2, ReceiveDispatchIsOK, ReceiveIsOK, ListIsOK, EncodeIsOK
<1>4. QED
  BY <1>1, <1>3, QuietIsOK

LEMMA SaveIsOK ==
  ASSUME IInv, AInv, NEW h \in Calls, Save(h)
  PROVE  AInv'
<1> DEFINE o == calls[h].order
<1>0. IInv'
  BY SaveStep
<1>1. calls \in [Calls -> Call] /\ inspections \in [Orders -> Work!InspectionOrder]
  BY DEF IInv, TypeOK
<1>2. /\ o \in Orders /\ inspections[o] = Work!AbsentInspection
      /\ calls[h].record.status # "absent" /\ calls[h].record \in Work!InspectionOrder
  <2>1. o \in Orders /\ inspections[o].status = "absent"
    BY DEF Save, Locks, IInv, DispatchOK, Dispatching
  <2>2. \E c \in cabins, i \in Inspectors : calls[h].record = Work!NewInspectionOrder(c, i)
    BY DEF Save, Locks, IInv, DispatchOK, Dispatching
  <2>3. QED
    BY <1>1, <2>1, <2>2, CallIs
       DEF AInv, NothingOK, Work!NewInspectionOrder, Work!AbsentInspection
<1>3. /\ calls'[h].pc = "writing" /\ calls'[h].order = o
      /\ calls'[h].record = calls[h].record
      /\ \A g \in Calls : g # h => calls'[g] = calls[g]
  BY <1>1, CallIs DEF Save
<1>4. /\ inspections'[o] = calls[h].record
      /\ \A p \in Orders : p # o => inspections'[p] = inspections[p]
  BY <1>1, <1>2 DEF Save
<1>5. NothingOK'
  BY <1>2, <1>4 DEF AInv, NothingOK
<1>6. MovesForward
  BY <1>1, <1>2, <1>4, NothingIsOldest, NotOlderThanItself, ValueType DEF MovesForward
<1>7. CallOK(calls'[h], inspections')
  BY <1>2, <1>3, <1>4, NotOlderThanItself, ValueType DEF CallOK
<1>8. \A g \in Calls : calls[g].pc # "writing"
  BY DEF Save, Locks, MayLock, IInv, LockOK
<1>9. QED
  BY <1>0, <1>3, <1>5, <1>6, <1>7, <1>8, OthersStayBehind

LEMMA UpdateIsOK ==
  ASSUME IInv, AInv, NEW h \in Calls, UpdateInspectionOrder(h)
  PROVE  AInv'
<1> DEFINE o == calls[h].order
           kind == calls[h].kind
           new == Made(kind, inspections[o])
<1>0. IInv'
  BY UpdateStep
<1>1. /\ calls \in [Calls -> Call] /\ o \in Orders /\ inspections[o] \in Work!InspectionOrder
      /\ kind \in {"start", "readings", "complete"} /\ Accepts(kind, inspections[o])
  BY DEF IInv, TypeOK, OrderOK, UpdateInspectionOrder, Locks
<1>2. /\ calls'[h].pc = "writing" /\ calls'[h].order = o /\ calls'[h].record = new
      /\ \A g \in Calls : g # h => calls'[g] = calls[g]
      /\ inspections' = inspections
  BY <1>1, CallIs DEF UpdateInspectionOrder
<1>3. CallOK(calls'[h], inspections')
  BY <1>1, <1>2, MadeIsNotOlder DEF CallOK
<1>4. NothingOK'
  BY <1>2 DEF AInv, NothingOK
<1>5. MovesForward
  BY <1>2, SameMovesForward DEF IInv
<1>6. QED
  BY <1>0, <1>2, <1>3, <1>4, <1>5, OthersStayBehind

LEMMA WriteIsOK ==
  ASSUME IInv, AInv, NEW h \in Calls, Write(h)
  PROVE  AInv'
<1> DEFINE o == calls[h].order
           n == Head(calls[h].todo)
           old == inspections[o]
           new == calls[h].record
<1>0. IInv'
  BY WriteStep
<1>1. calls \in [Calls -> Call] /\ inspections \in [Orders -> Work!InspectionOrder]
  BY DEF IInv, TypeOK
<1>2. /\ calls[h].pc = "writing" /\ o \in Orders /\ n \in Names
      /\ old \in Work!InspectionOrder /\ new \in Work!InspectionOrder
      /\ old.status # "absent" /\ new.status # "absent"
  <2>1. calls[h].todo \in Seq(Names) /\ calls[h].todo # << >>
    BY <1>1, CallIs DEF Write, Todo
  <2>2. n \in Names
    BY <2>1, RangeIsHeadAndTail
  <2>3. QED
    BY <1>1, <2>2, CallIs DEF Write, IInv, WriterOK
<1>3. /\ calls'[h].pc = "writing" /\ calls'[h].order = o /\ calls'[h].record = new
      /\ \A g \in Calls : g # h => calls'[g] = calls[g]
  BY <1>1, <1>2, CallIs DEF Write
<1>4. /\ inspections'[o] = Patched(old, new, n)
      /\ \A p \in Orders : p # o => inspections'[p] = inspections[p]
  BY <1>1, <1>2 DEF Write, Patched
<1>5. \A f \in Names : Patched(old, new, n)[f] = IF f = n THEN new[f] ELSE old[f]
  <2>1. \A a, b \in Work!InspectionOrder, m \in Names :
          \A f \in Names : Patched(a, b, m)[f] = IF f = m THEN b[f] ELSE a[f]
    BY WriteField
  <2>2. QED
    BY <1>2, <2>1
<1>6. \A f \in Names : NotOlder(f, old[f], new[f])
  BY <1>2 DEF AInv, CallOK
<1>7. NothingOK'
  <2>1. Patched(old, new, n)["status"] # "absent"
    BY <1>2, <1>5 DEF Names
  <2>2. QED
    BY <1>4, <2>1 DEF AInv, NothingOK
<1>8. MovesForward
  BY <1>1, <1>2, <1>4, <1>5, <1>6, NotOlderThanItself, ValueType DEF MovesForward
<1>9. CallOK(calls'[h], inspections')
  BY <1>2, <1>3, <1>4, <1>5, <1>6, NotOlderThanItself, ValueType DEF CallOK
<1>10. \A g \in Calls : g # h => calls[g].pc # "writing"
  BY <1>2 DEF IInv, LockOK
<1>11. QED
  BY <1>0, <1>3, <1>7, <1>8, <1>9, <1>10, OthersStayBehind

LEMMA UnlockIsOK ==
  ASSUME IInv, AInv, NEW h \in Calls, Unlock(h)
  PROVE  AInv'
<1> DEFINE o == calls[h].order
<1>0. IInv'
  BY UnlockStep
<1>1. calls \in [Calls -> Call] /\ inspections \in [Orders -> Work!InspectionOrder]
  BY DEF IInv, TypeOK
<1>2. /\ o \in Orders /\ \A f \in Names : calls[h].record[f] = inspections[o][f]
  <2>1. Range(<< >>) = {}
    BY DEF Range
  <2>2. QED
    BY <2>1 DEF Unlock, IInv, WriterOK
<1>3. /\ calls'[h].pc = "encoding" /\ calls'[h].order = o
      /\ calls'[h].record = calls[h].record /\ calls'[h].todo = Fields
      /\ \A g \in Calls : g # h => calls'[g] = calls[g]
      /\ inspections' = inspections
  BY <1>1, CallIs DEF Unlock
<1>4. CallOK(calls'[h], inspections')
  BY <1>1, <1>2, <1>3, FieldsAreAll, NotOlderThanItself, ValueType DEF CallOK
<1>5. NothingOK'
  BY <1>3 DEF AInv, NothingOK
<1>6. MovesForward
  BY <1>3, SameMovesForward DEF IInv
<1>7. QED
  BY <1>0, <1>3, <1>4, <1>5, <1>6, OthersStayBehind

LEMMA AInvStep == IInv /\ AInv /\ [Next]_vars => AInv'
<1> SUFFICES ASSUME IInv, AInv, [Next]_vars
             PROVE  AInv'
  OBVIOUS
<1>1. CASE UNCHANGED <<inspections, calls>>
  BY <1>1 DEF AInv, NothingOK
<1>2. ASSUME NEW h \in Calls, TakesLock(h) \/ RunsOn(h)
      PROVE  AInv'
  BY <1>2, QuietActionsAreOK, SaveIsOK, UpdateIsOK, WriteIsOK, UnlockIsOK DEF TakesLock, RunsOn
<1>3. QED
  BY <1>1, <1>2, QuietActionsAreOK DEF Next, RegisterCabin, vars

LEMMA PointwisePrefix ==
  ASSUME NEW S, NEW s \in Seq(S), NEW t \in Seq(S), Len(t) >= Len(s),
         \A i \in 1..Len(s) : t[i] = s[i]
  PROVE  IsPrefix(s, t)
<1>1. SubSeq(s, 1, Len(s)) = s
  BY SubSeqFull
<1>2. /\ SubSeq(t, 1, Len(s)) \in Seq(S) /\ Len(SubSeq(t, 1, Len(s))) = Len(s)
      /\ \A i \in 1..Len(s) : SubSeq(t, 1, Len(s))[i] = t[i]
  OBVIOUS
<1>3. SubSeq(t, 1, Len(s)) = s
  BY <1>2, SeqEqual
<1>4. QED
  BY <1>1, <1>3 DEF IsPrefix

LEMMA AInvImplies == IInv /\ AInv => AnswerIsNotOlder
<1> SUFFICES ASSUME IInv, AInv, NEW h \in Calls, Answered(h)
             PROVE  LET w == calls[h].record
                        body == calls[h].body
                    IN /\ Rank[body.status] >= Rank[w.status]
                       /\ w.completed => body.completed
                       /\ body.readings >= w.readings
                       /\ IsPrefix(w.audit, body.audit)
  BY DEF AnswerIsNotOlder
<1> DEFINE w == calls[h].record
           body == calls[h].body
<1>1. \A f \in Names : NotOlder(f, w[f], body[f])
  <2>1. Range(<< >>) = {}
    BY DEF Range
  <2>2. QED
    BY <2>1 DEF AInv, CallOK, Answered
<1>2. /\ Rank[body.status] >= Rank[w.status]
      /\ w.completed => body.completed
      /\ body.readings >= w.readings
  BY <1>1 DEF Names, NotOlder
<1>3. IsPrefix(w.audit, body.audit)
  <2>1. /\ w.audit \in Seq(Work!AuditActions \cup {"torn"})
        /\ body.audit \in Seq(Work!AuditActions \cup {"torn"})
    <3>1. w \in Work!InspectionOrder /\ body \in Body
      BY CallType, CallIs DEF IInv, TypeOK
    <3>2. QED
      BY <3>1 DEF Work!InspectionOrder, Body
  <2>2. Len(body.audit) >= Len(w.audit) /\ \A i \in 1..Len(w.audit) : body.audit[i] = w.audit[i]
    BY <1>1 DEF Names, NotOlder
  <2>3. QED
    BY <2>1, <2>2, PointwisePrefix
<1>4. QED
  BY <1>2, <1>3

\* Although it is read after the unlock, field by field, an answer is never older than
\* the call it answers (Service.StartInspection and the others return the live record).
THEOREM AnswersAreNotOlder == Spec => []AnswerIsNotOlder
<1>1. QED
  BY AInvInit, AInvStep, AInvImplies, Invariance, PTL DEF Spec

------------------------------------------------------------------------------
(* Completion is final *)

Final(h) == calls[h].pc = "encoding" /\ calls[h].record.completed

\* The answer to a completion is read from a record that nobody changes any more: who
\* gets the lock for that order has nothing to write.
FinalOf(h) ==
  Final(h) =>
    LET w == calls[h].record
        o == calls[h].order
    IN /\ Work!RecordAgrees(w)
       /\ \A f \in Names : /\ w[f] = inspections[o][f]
                           /\ f \in Range(calls[h].todo) \/ calls[h].body[f] = w[f]
       /\ \A g \in Calls : Writing(g, o) => calls[g].todo = << >>

FinalOK == \A h \in Calls : FinalOf(h)

LEMMA FinalIsCompleted ==
  ASSUME FinalOK, NEW h \in Calls, Final(h)
  PROVE  inspections[calls[h].order].status = "completed"
<1>1. Work!RecordAgrees(calls[h].record)
  BY DEF FinalOK, FinalOf
<1>2. calls[h].record["status"] = inspections[calls[h].order]["status"]
  BY DEF FinalOK, FinalOf, Names
<1>3. calls[h].record.status = "completed"
  BY <1>1 DEF Work!RecordAgrees, Final
<1>4. QED
  BY <1>2, <1>3

\* The others' part in a step of h.
LEMMA OthersStayFinal ==
  ASSUME FinalOK, NEW h \in Calls, FinalOf(h)',
         \A g \in Calls : g # h => calls'[g] = calls[g],
         \A g \in Calls : Final(g) =>
           /\ inspections'[calls[g].order] = inspections[calls[g].order]
           /\ calls'[h].pc = "writing" /\ calls'[h].order = calls[g].order =>
                calls'[h].todo = << >>
  PROVE  FinalOK'
<1> SUFFICES ASSUME NEW g \in Calls, g # h
             PROVE  FinalOf(g)'
  BY DEF FinalOK
<1>1. calls'[g] = calls[g]
  OBVIOUS
<1>2. SUFFICES ASSUME Final(g)
               PROVE  FinalOf(g)'
  BY <1>1 DEF FinalOf, Final
<1> DEFINE w == calls[g].record
           o == calls[g].order
<1>3. /\ Work!RecordAgrees(w)
      /\ \A f \in Names : /\ w[f] = inspections[o][f]
                          /\ f \in Range(calls[g].todo) \/ calls[g].body[f] = w[f]
      /\ \A x \in Calls : Writing(x, o) => calls[x].todo = << >>
  BY <1>2 DEF FinalOK, FinalOf
<1>4. inspections'[o] = inspections[o]
  BY <1>2
<1>5. ASSUME NEW x \in Calls, calls'[x].pc = "writing", calls'[x].order = o
      PROVE  calls'[x].todo = << >>
  <2>1. CASE x = h
    BY <1>2, <1>5, <2>1
  <2>2. CASE x # h
    BY <1>3, <1>5, <2>2 DEF Writing
  <2>3. QED
    BY <2>1, <2>2
<1>6. QED
  BY <1>1, <1>3, <1>4, <1>5 DEF FinalOf, Writing

LEMMA EncodeIsFinal ==
  ASSUME IInv, FinalOK, NEW h \in Calls, Encode(h)
  PROVE  FinalOf(h)'
<1> DEFINE o == calls[h].order
           n == Head(calls[h].todo)
           w == calls[h].record
<1>1. calls \in [Calls -> Call] /\ calls[h] \in Call
  BY CallType DEF IInv, TypeOK
<1>2. PICK v \in Readable(o, n) :
        calls' = [calls EXCEPT ![h].body[n] = v, ![h].todo = Tail(@)]
  BY DEF Encode
<1>3. calls[h].pc = "encoding" /\ calls[h].todo # << >> /\ UNCHANGED inspections
  BY DEF Encode
<1>4. calls[h].todo \in Seq(Names)
  BY <1>1, CallIs DEF Todo
<1>5. n \in Names /\ \A f \in Range(calls[h].todo) : f = n \/ f \in Range(Tail(calls[h].todo))
  BY <1>3, <1>4, RangeIsHeadAndTail
<1> DEFINE x == [calls[h] EXCEPT !.body[n] = v, !.todo = Tail(@)]
<1>6. calls'[h] = x /\ \A g \in Calls : g # h => calls'[g] = calls[g]
  BY <1>1, <1>2
<1>7. /\ x.pc = "encoding" /\ x.order = o /\ x.record = w
      /\ x.todo = Tail(calls[h].todo) /\ x.body = [calls[h].body EXCEPT ![n] = v]
  BY <1>1, <1>3, CallIs
<1>8. \A f \in Names : x.body[f] = IF f = n THEN v ELSE calls[h].body[f]
  <2>1. calls[h].body \in Body
    BY <1>1, CallIs
  <2>2. \A f \in Names : [calls[h].body EXCEPT ![n] = v][f]
                           = IF f = n THEN v ELSE calls[h].body[f]
    BY <1>5, <2>1 DEF Body, Names
  <2>3. QED
    BY <1>7, <2>2
<1> HIDE DEF x
<1>9. SUFFICES ASSUME w.completed
               PROVE  FinalOf(h)'
  BY <1>6, <1>7 DEF FinalOf, Final
<1>10. /\ Work!RecordAgrees(w)
       /\ \A f \in Names : /\ w[f] = inspections[o][f]
                           /\ f \in Range(calls[h].todo) \/ calls[h].body[f] = w[f]
       /\ \A g \in Calls : Writing(g, o) => calls[g].todo = << >>
  BY <1>3, <1>9 DEF FinalOK, FinalOf, Final
\* Nobody is about to assign the field, so it is read as it is.
<1>11. v = w[n]
  <2>1. Range(<< >>) = {}
    BY DEF Range
  <2>2. ~\E g \in Calls : Writing(g, o) /\ n \in Range(calls[g].todo)
    BY <1>10, <2>1
  <2>3. Readable(o, n) = {inspections[o][n]}
    BY <2>2 DEF Readable
  <2>4. QED
    BY <1>5, <1>10, <2>3
<1>12. \A f \in Names : f \in Range(x.todo) \/ x.body[f] = w[f]
  BY <1>5, <1>7, <1>8, <1>10, <1>11
<1>13. \A g \in Calls : calls'[g].pc = "writing" /\ calls'[g].order = o => calls'[g].todo = << >>
  BY <1>6, <1>7, <1>10 DEF Writing
<1>14. QED
  BY <1>3, <1>6, <1>7, <1>10, <1>12, <1>13 DEF FinalOf, Writing

LEMMA QuietActionsAreFinal ==
  ASSUME IInv, AInv, FinalOK, NEW h \in Calls,
         \/ \E o \in Orders, c \in Cabins \cup {Blank}, i \in Inspectors \cup {Blank} :
              ReceiveDispatch(h, o, c, i)
         \/ \E o \in Orders, kind \in Kinds \ {"none", "dispatch"} : Receive(h, kind, o)
         \/ Refuse(h) \/ List(h) \/ Encode(h) \/ Finish(h)
  PROVE  FinalOK'
<1>1. Quiet(h) /\ TypeOK /\ calls \in [Calls -> Call] /\ calls[h] \in Call
  BY QuietActions, CallType DEF IInv, TypeOK
<1>2. PICK x \in Call : x.pc # "writing" /\ calls' = [calls EXCEPT ![h] = x]
  BY <1>1 DEF Quiet
<1>3. calls'[h] = x /\ \A g \in Calls : g # h => calls'[g] = calls[g]
  BY <1>1, <1>2
<1>4. UNCHANGED inspections
  BY <1>1 DEF Quiet
<1>5. ASSUME NEW o \in Orders, NEW c \in Cabins \cup {Blank}, NEW i \in Inspectors \cup {Blank},
             ReceiveDispatch(h, o, c, i)
      PROVE  calls'[h].pc # "encoding"
  <2>1. CASE c # Blank /\ i # Blank /\ c \in cabins
    <3>1. calls' = [calls EXCEPT ![h] =
                      [calls[h] EXCEPT !.pc = "waiting", !.kind = "dispatch", !.order = o,
                                       !.record = Work!NewInspectionOrder(c, i)]]
      BY <1>5, <2>1 DEF ReceiveDispatch
    <3>2. QED
      BY <1>1, <3>1, CallIs
  <2>2. CASE ~(c # Blank /\ i # Blank /\ c \in cabins)
    <3>1. calls' = [calls EXCEPT ![h] = Refused(h)]
      BY <1>5, <2>2 DEF ReceiveDispatch
    <3>2. QED
      BY <1>1, <3>1, RefusedType
  <2>3. QED
    BY <2>1, <2>2
<1>6. ASSUME NEW o \in Orders, NEW kind, Receive(h, kind, o)
      PROVE  calls'[h].pc # "encoding"
  <2>1. calls' = [calls EXCEPT ![h] = [calls[h] EXCEPT !.pc = "waiting", !.kind = kind, !.order = o]]
    BY <1>1, <1>6, CallIs DEF Receive
  <2>2. QED
    BY <1>1, <2>1, CallIs
<1>7. ASSUME Refuse(h) \/ Finish(h)
      PROVE  calls'[h].pc # "encoding"
  <2>1. Refused(h).pc = "refused" /\ Idle.pc = "idle"
    BY <1>1, RefusedType DEF Idle
  <2>2. calls' = [calls EXCEPT ![h] = Refused(h)] \/ calls' = [calls EXCEPT ![h] = Idle]
    BY <1>7 DEF Refuse, Finish
  <2>3. QED
    BY <1>1, <2>1, <2>2
\* The list hands out an order without a record of its own.
<1>8. ASSUME List(h)
      PROVE  calls'[h].pc # "encoding" \/ ~calls'[h].record.completed
  <2>1. calls[h].pc = "waiting" /\ calls[h].kind # "dispatch"
    BY <1>8 DEF List, Locks
  <2>2. calls[h].record = Work!AbsentInspection
    BY <2>1 DEF AInv, CallOK
  <2>3. calls'[h].pc = "refused" \/ calls'[h].record = calls[h].record
    BY <1>1, <1>8, CallIs DEF List
  <2>4. QED
    BY <2>2, <2>3 DEF Work!AbsentInspection
<1>9. FinalOf(h)'
  BY <1>5, <1>6, <1>7, <1>8, EncodeIsFinal DEF FinalOf, Final
<1>10. QED
  BY <1>2, <1>3, <1>4, <1>9, OthersStayFinal

LEMMA SaveIsFinal ==
  ASSUME IInv, FinalOK, NEW h \in Calls, Save(h)
  PROVE  FinalOK'
<1> DEFINE o == calls[h].order
<1>1. calls \in [Calls -> Call] /\ inspections \in [Orders -> Work!InspectionOrder]
  BY DEF IInv, TypeOK
<1>2. o \in Orders /\ inspections[o].status = "absent"
  BY DEF Save, Locks, IInv, DispatchOK, Dispatching
<1>3. /\ calls'[h].pc = "writing" /\ calls'[h].order = o
      /\ \A g \in Calls : g # h => calls'[g] = calls[g]
  BY <1>1, CallIs DEF Save
<1>4. ASSUME NEW g \in Calls, Final(g)
      PROVE  calls[g].order # o /\ inspections'[calls[g].order] = inspections[calls[g].order]
  <2>1. calls[g].order # o
    BY <1>2, <1>4, FinalIsCompleted
  <2>2. calls[g].order \in Orders
    BY <1>4 DEF Final, IInv, OrderOK
  <2>3. QED
    BY <1>1, <2>1, <2>2 DEF Save
<1>5. FinalOf(h)'
  BY <1>3 DEF FinalOf, Final
<1>6. QED
  BY <1>3, <1>4, <1>5, OthersStayFinal

LEMMA UpdateIsFinal ==
  ASSUME IInv, FinalOK, NEW h \in Calls, UpdateInspectionOrder(h)
  PROVE  FinalOK'
<1> DEFINE o == calls[h].order
           kind == calls[h].kind
<1>1. /\ calls \in [Calls -> Call] /\ kind \in {"start", "readings", "complete"}
      /\ Accepts(kind, inspections[o])
  BY DEF IInv, TypeOK, UpdateInspectionOrder
<1>2. /\ calls'[h].pc = "writing" /\ calls'[h].order = o
      /\ calls'[h].todo = Assigned(kind, inspections[o])
      /\ \A g \in Calls : g # h => calls'[g] = calls[g]
      /\ inspections' = inspections
  BY <1>1, CallIs DEF UpdateInspectionOrder
\* A completed order accepts a completion only, which assigns nothing.
<1>3. ASSUME NEW g \in Calls, Final(g), calls[g].order = o
      PROVE  calls'[h].todo = << >>
  <2>1. inspections[o].status = "completed"
    BY <1>3, FinalIsCompleted
  <2>2. kind = "complete"
    BY <1>1, <2>1 DEF Accepts, Work!CanStart, Work!CanRecord
  <2>3. QED
    BY <1>2, <2>1, <2>2 DEF Assigned
<1>4. FinalOf(h)'
  BY <1>2 DEF FinalOf, Final
<1>5. QED
  BY <1>2, <1>3, <1>4, OthersStayFinal

LEMMA WriteIsFinal ==
  ASSUME IInv, FinalOK, NEW h \in Calls, Write(h)
  PROVE  FinalOK'
<1> DEFINE o == calls[h].order
<1>1. calls \in [Calls -> Call] /\ inspections \in [Orders -> Work!InspectionOrder]
  BY DEF IInv, TypeOK
<1>2. /\ calls[h].pc = "writing" /\ calls[h].todo # << >>
      /\ calls'[h].pc = "writing" /\ calls'[h].order = o
      /\ \A g \in Calls : g # h => calls'[g] = calls[g]
  BY <1>1, CallIs DEF Write
<1>3. ASSUME NEW g \in Calls, Final(g)
      PROVE  calls[g].order # o /\ inspections'[calls[g].order] = inspections[calls[g].order]
  <2>1. calls[g].order # o
    BY <1>2, <1>3 DEF FinalOK, FinalOf, Writing
  <2>2. calls[g].order \in Orders
    BY <1>3 DEF Final, IInv, OrderOK
  <2>3. QED
    BY <1>1, <2>1, <2>2 DEF Write
<1>4. FinalOf(h)'
  BY <1>2 DEF FinalOf, Final
<1>5. QED
  BY <1>2, <1>3, <1>4, OthersStayFinal

LEMMA UnlockIsFinal ==
  ASSUME IInv, TrailTellsStatus, FinalOK, NEW h \in Calls, Unlock(h)
  PROVE  FinalOK'
<1> DEFINE o == calls[h].order
           w == calls[h].record
<1>1. calls \in [Calls -> Call] /\ inspections \in [Orders -> Work!InspectionOrder]
  BY DEF IInv, TypeOK
<1>2. /\ calls[h].pc = "writing" /\ mutex = h /\ o \in Orders /\ w.status # "absent"
      /\ \A f \in Names : w[f] = inspections[o][f]
      /\ \A g \in Calls : calls[g].pc = "writing" => g = h
  <2>1. Range(<< >>) = {}
    BY DEF Range
  <2>2. QED
    BY <2>1 DEF Unlock, IInv, LockOK, WriterOK
<1>3. /\ calls'[h].pc = "encoding" /\ calls'[h].order = o
      /\ calls'[h].record = w /\ calls'[h].todo = Fields
      /\ \A g \in Calls : g # h => calls'[g] = calls[g]
      /\ inspections' = inspections
  BY <1>1, CallIs DEF Unlock
<1>4. Work!RecordAgrees(w)
  <2>1. Locked = [inspections EXCEPT ![o] = w]
    BY <1>2, LockedWhenHeld
  <2>2. Locked[o] = w
    BY <1>1, <1>2, <2>1
  <2>3. QED
    BY <1>2, <2>2 DEF TrailTellsStatus, Work!TrailTellsStatus, Work!Stored
<1>5. \A g \in Calls : calls'[g].pc # "writing"
  BY <1>2, <1>3
<1>6. FinalOf(h)'
  BY <1>2, <1>3, <1>4, <1>5, FieldsAreAll DEF FinalOf, Writing
<1>7. QED
  BY <1>3, <1>5, <1>6, OthersStayFinal

LEMMA FinalStep == IInv /\ AInv /\ TrailTellsStatus /\ FinalOK /\ [Next]_vars => FinalOK'
<1> SUFFICES ASSUME IInv, AInv, TrailTellsStatus, FinalOK, [Next]_vars
             PROVE  FinalOK'
  OBVIOUS
<1>1. CASE UNCHANGED <<inspections, calls>>
  BY <1>1 DEF FinalOK, FinalOf, Final, Writing
<1>2. ASSUME NEW h \in Calls, TakesLock(h) \/ RunsOn(h)
      PROVE  FinalOK'
  BY <1>2, QuietActionsAreFinal, SaveIsFinal, UpdateIsFinal, WriteIsFinal, UnlockIsFinal
     DEF TakesLock, RunsOn
<1>3. QED
  BY <1>1, <1>2, QuietActionsAreFinal DEF Next, RegisterCabin, vars

LEMMA FinalImplies == FinalOK => CompletionIsFinal
<1> SUFFICES ASSUME FinalOK, NEW h \in Calls, Answered(h), calls[h].record.completed
             PROVE  /\ Work!RecordAgrees(calls[h].body)
                    /\ \A f \in Names : calls[h].body[f] = inspections[calls[h].order][f]
  BY FieldsAreAll DEF CompletionIsFinal
<1> DEFINE w == calls[h].record
           body == calls[h].body
<1>1. Range(<< >>) = {}
  BY DEF Range
<1>2. /\ Work!RecordAgrees(w)
      /\ \A f \in Names : w[f] = inspections[calls[h].order][f] /\ body[f] = w[f]
  BY <1>1 DEF FinalOK, FinalOf, Final, Answered
<1>3. body.status = w.status /\ body.completed = w.completed /\ body.audit = w.audit
  BY <1>2 DEF Names
<1>4. Work!RecordAgrees(body)
  BY <1>2, <1>3 DEF Work!RecordAgrees
<1>5. QED
  BY <1>2, <1>4

\* The answer to a completion, read field by field after the unlock while others ask
\* for the same order, shows the order as it stays (InspectionOrder.Complete).
THEOREM CompletionsAreFinal == Spec => []CompletionIsFinal
<1>1. Init => FinalOK
  BY DEF Init, Idle, FinalOK, FinalOf, Final
<1>2. QED
  BY <1>1, AInvInit, AInvStep, FinalStep, FinalImplies, Invariance, TrailsTellStatus, PTL DEF Spec

==============================================================================
