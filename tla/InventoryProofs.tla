--------------------------- MODULE InventoryProofs ---------------------------
(***************************************************************************)
(* Handlers and scan order and announce each shortage once, for any number *)
(* of parts and requests and any width of an int.                          *)
(***************************************************************************)
EXTENDS Inventory, TLAPS

USE InventoryAssumption

Ints == (-IntMax - 1)..IntMax

------------------------------------------------------------------------------
(* Arithmetic, and the records *)

\* One addition or subtraction of two ints is an int again.
LEMMA WrapType ==
  /\ \A m, n \in 0..IntMax : Wrap(m - n) \in Ints /\ Wrap(m - n) = m - n
  /\ \A n \in Ints : Wrap(n + 10) \in Ints
BY DEF Wrap, Ints

LEMMA NewRequestType ==
  ASSUME NEW p \in Parts, NEW k \in Part
  PROVE  NewReplenishmentRequest(p, k) \in Request
<1>1. k.line \in 0..IntMax /\ k.stock \in 0..IntMax
  BY DEF Part
<1>2. Wrap(Wrap(k.line - k.stock) + 10) \in Ints
  BY <1>1, WrapType
<1>3. QED
  BY <1>2 DEF NewReplenishmentRequest, Request, Ints

LEMMA NewPartType ==
  ASSUME NEW stock \in Stocks, NEW line \in Lines, stock >= 0, line >= 0
  PROVE  NewSparePart(stock, line) \in Part
<1>1. stock \in 0..IntMax /\ line \in 0..IntMax
  OBVIOUS
<1>2. QED
  BY <1>1 DEF NewSparePart, Part

LEMMA ConsumedType ==
  ASSUME NEW k \in Part, NEW q \in Quantities, ConsumeFailure(k, q) = "none"
  PROVE  [k EXCEPT !.stock = @ - q] \in Part
<1>1. k.stock \in 0..IntMax /\ q \in Ints
  BY DEF Part, Ints
<1>2. q > 0 /\ ~(k.stock < q)
  BY <1>1 DEF ConsumeFailure, Ints
<1>3. k.stock - q \in 0..IntMax
  BY <1>1, <1>2 DEF Ints
<1>4. QED
  BY <1>3 DEF Part

LEMMA AnswerType ==
  ASSUME NEW f \in Failures
  PROVE  Answer(f) \in [failure : Failures, status : {0, 200, 400, 404, 409}]
BY DEF Answer, Status

LEMMA ConsumeFailureType == \A k, q : ConsumeFailure(k, q) \in Failures
BY DEF ConsumeFailure, Failures

------------------------------------------------------------------------------
(* Types, and the empty record of a part that is not known *)

UnknownIsEmpty == \A p \in Parts : ~parts[p].known => parts[p].stock = 0

LEMMA TypeInit == Init => TypeOK /\ UnknownIsEmpty
<1> SUFFICES ASSUME Init PROVE TypeOK /\ UnknownIsEmpty
  OBVIOUS
<1>1. NoPart \in Part /\ NoRequest \in Request
  BY DEF NoPart, Part, NoRequest, Request
<1>2. "none" \in Failures
  BY DEF Failures
<1>3. QED
  BY <1>1, <1>2 DEF Init, TypeOK, UnknownIsEmpty, NoPart

LEMMA TypeStep == TypeOK /\ UnknownIsEmpty /\ [Next]_vars => TypeOK' /\ UnknownIsEmpty'
<1> SUFFICES ASSUME TypeOK, UnknownIsEmpty, [Next]_vars
             PROVE  TypeOK' /\ UnknownIsEmpty'
  OBVIOUS
<1>0. \A p \in Parts : parts[p] \in Part
  BY DEF TypeOK
<1>1. ASSUME UNCHANGED vars
      PROVE  TypeOK' /\ UnknownIsEmpty'
  BY <1>1 DEF TypeOK, UnknownIsEmpty, vars
<1>2. ASSUME NEW p \in Parts \cup {Blank}, NEW stock \in Stocks, NEW line \in Lines,
             AddSparePart(p, stock, line)
      PROVE  TypeOK' /\ UnknownIsEmpty'
  <2>1. CASE UNCHANGED vars
    BY <1>1, <2>1
  <2>2. CASE ~UNCHANGED vars
    <3>1. /\ p \in Parts /\ line >= 0 /\ stock >= 0
          /\ parts' = [parts EXCEPT ![p] = NewSparePart(stock, line)]
          /\ UNCHANGED <<requests, todo, owing, notices, sent, answer>>
      BY <1>2, <2>2 DEF AddSparePart
    <3>2. parts' \in [Parts -> Part]
      BY <3>1, NewPartType DEF TypeOK
    <3>3. UnknownIsEmpty'
      BY <3>1 DEF UnknownIsEmpty, NewSparePart, TypeOK
    <3>4. QED
      BY <3>1, <3>2, <3>3 DEF TypeOK
  <2>3. QED
    BY <2>1, <2>2
<1>3. ASSUME NEW p \in Parts, NEW f \in Failures, Refuse(f)
      PROVE  TypeOK' /\ UnknownIsEmpty'
  BY <1>3, AnswerType DEF Refuse, TypeOK, UnknownIsEmpty
<1>4. ASSUME NEW p \in Parts, NEW q \in Quantities, Known(p),
             ConsumeFailure(parts[p], q) = "none", Consume(p, q)
      PROVE  TypeOK' /\ UnknownIsEmpty'
  <2> DEFINE k == [parts[p] EXCEPT !.stock = @ - q]
  <2>1. k \in Part
    BY <1>0, <1>4, ConsumedType
  <2>2. parts' = [parts EXCEPT ![p] = k]
    BY <1>4 DEF Consume
  <2>3. parts' \in [Parts -> Part]
    BY <2>1, <2>2 DEF TypeOK
  <2>4. UnknownIsEmpty'
    <3>1. k.known
      BY <1>0, <1>4 DEF Known, Part
    <3>2. QED
      BY <2>2, <3>1 DEF UnknownIsEmpty, TypeOK
  <2>5. "none" \in Failures /\ answer' = Answer("none")
    BY <1>4 DEF Failures, Consume
  <2>6. requests' \in [Requests -> Request] /\ notices' \subseteq Requests
    <3>1. NewReplenishmentRequest(p, k) \in Request
      BY <2>1, NewRequestType
    <3>2. QED
      BY <1>4, <3>1 DEF Consume, TypeOK
  <2>7. UNCHANGED <<todo, owing, sent>>
    BY <1>4 DEF Consume
  <2>8. QED
    BY <2>3, <2>4, <2>5, <2>6, <2>7, AnswerType DEF TypeOK
<1>5. ASSUME NEW r \in Requests, Announce(r)
      PROVE  TypeOK' /\ UnknownIsEmpty'
  BY <1>5 DEF Announce, TypeOK, UnknownIsEmpty
<1>6. ASSUME Scan
      PROVE  TypeOK' /\ UnknownIsEmpty'
  BY <1>6 DEF Scan, TypeOK, UnknownIsEmpty
<1>7. ASSUME NEW p \in Parts, EnsureReplenishment(p)
      PROVE  TypeOK' /\ UnknownIsEmpty'
  <2>1. NewReplenishmentRequest(p, parts[p]) \in Request
    BY <1>0, NewRequestType
  <2>2. requests' \in [Requests -> Request] /\ owing' \in Requests \cup {Blank}
    BY <1>7, <2>1 DEF EnsureReplenishment, TypeOK
  <2>3. todo' \subseteq Parts /\ UNCHANGED <<parts, notices, sent, answer>>
    BY <1>7 DEF EnsureReplenishment, TypeOK
  <2>4. QED
    BY <2>2, <2>3 DEF TypeOK, UnknownIsEmpty
<1>8. ASSUME AnnounceScanned
      PROVE  TypeOK' /\ UnknownIsEmpty'
  BY <1>8 DEF AnnounceScanned, TypeOK, UnknownIsEmpty
<1>9. ASSUME NEW p \in Parts, NEW q \in Quantities, ConsumePart(p, q)
      PROVE  TypeOK' /\ UnknownIsEmpty'
  BY <1>3, <1>4, <1>9, ConsumeFailureType DEF ConsumePart, Failures
<1>10. QED
  BY <1>1, <1>2, <1>5, <1>6, <1>7, <1>8, <1>9 DEF Next

\* Every record keeps its type: no stock is ever negative, and no quantity leaves the
\* width of an int (SparePart.Consume, NewReplenishmentRequest).
THEOREM TypeCorrect == Spec => []TypeOK
<1>1. QED
  BY TypeInit, TypeStep, PTL DEF Spec

------------------------------------------------------------------------------
(* Requests *)

\* A new request r: for a part p that had none pending, with the stock k of the
\* same critical section.
Ordered(r, p, k) ==
  /\ ~Stored(r) /\ ~HasPending(p)
  /\ requests' = [requests EXCEPT ![r] = NewReplenishmentRequest(p, k)]
  /\ parts'[p] = k /\ k.known /\ BelowSafetyLine(k)

LEMMA RequestSteps ==
  ASSUME TypeOK, [Next]_vars, ~UNCHANGED requests
  PROVE  \E r \in Requests, p \in Parts, k \in Part : Ordered(r, p, k)
<1>0. \A p \in Parts : parts[p] \in Part
  BY DEF TypeOK
<1>1. ASSUME NEW p \in Parts, NEW q \in Quantities, ConsumePart(p, q)
      PROVE  \E r \in Requests, k \in Part : Ordered(r, p, k)
  <2> DEFINE k == [parts[p] EXCEPT !.stock = @ - q]
  <2>1. Known(p) /\ ConsumeFailure(parts[p], q) = "none" /\ Consume(p, q)
    BY <1>1 DEF ConsumePart, Refuse
  <2>2. k \in Part
    BY <1>0, <2>1, ConsumedType
  <2>3. parts'[p] = k /\ k.known
    BY <1>0, <2>1 DEF Consume, TypeOK, Known, Part
  <2>4. PICK r \in Requests : /\ ~Stored(r) /\ ~HasPending(p)
                              /\ requests' = [requests EXCEPT ![r] = NewReplenishmentRequest(p, k)]
                              /\ BelowSafetyLine(k)
    BY <2>1 DEF Consume
  <2>5. Ordered(r, p, k)
    BY <2>3, <2>4 DEF Ordered
  <2>6. QED
    BY <2>2, <2>5
<1>2. ASSUME NEW p \in Parts, EnsureReplenishment(p)
      PROVE  \E r \in Requests, k \in Part : Ordered(r, p, k)
  <2>1. PICK r \in Requests : Ordered(r, p, parts[p])
    BY <1>2 DEF EnsureReplenishment, Ordered, Known
  <2>2. QED
    BY <1>0, <2>1
<1>3. QED
  BY <1>1, <1>2 DEF Next, vars, AddSparePart, Announce, Scan, AnnounceScanned

LEMMA OnePendingStep == TypeOK /\ OnePendingPerPart /\ [Next]_vars => OnePendingPerPart'
<1> SUFFICES ASSUME TypeOK, OnePendingPerPart, [Next]_vars
             PROVE  OnePendingPerPart'
  OBVIOUS
<1>1. CASE UNCHANGED requests
  BY <1>1 DEF OnePendingPerPart
<1>2. CASE ~UNCHANGED requests
  <2>1. PICK r \in Requests, p \in Parts, k \in Part : Ordered(r, p, k)
    BY <1>2, RequestSteps
  <2>2. /\ requests'[r].part = p
        /\ \A x \in Requests \ {r} : requests'[x] = requests[x]
    BY <2>1 DEF Ordered, NewReplenishmentRequest, TypeOK
  <2>3. \A x \in Requests \ {r} : ~(requests'[x].status = "pending" /\ requests'[x].part = p)
    BY <2>1, <2>2 DEF Ordered, HasPending
  <2>4. QED
    BY <2>2, <2>3 DEF OnePendingPerPart
<1>3. QED
  BY <1>1, <1>2

\* No part ever has two pending requests, whoever finds the shortage first and
\* however handlers and scan interleave (Store.ConsumePart,
\* Store.EnsureReplenishmentForPart).
THEOREM OneRequestPerShortage == Spec => []OnePendingPerPart
<1>1. Init => OnePendingPerPart
  BY DEF Init, OnePendingPerPart, NoRequest
<1>2. QED
  BY <1>1, TypeInit, TypeStep, OnePendingStep, PTL DEF Spec

\* A known part keeps its safety line, and its stock only falls.
LEMMA StockFalls ==
  ASSUME TypeOK, [Next]_vars, NEW p \in Parts, parts[p].known
  PROVE  /\ parts'[p].known /\ parts'[p].line = parts[p].line
         /\ parts'[p].stock <= parts[p].stock
<1>0. parts[p] \in Part /\ parts[p].stock <= parts[p].stock
  BY DEF TypeOK, Part
<1>1. ASSUME NEW x \in Parts \cup {Blank}, NEW stock \in Stocks, NEW line \in Lines,
             AddSparePart(x, stock, line)
      PROVE  parts'[p] = parts[p]
  BY <1>1 DEF AddSparePart, Known, TypeOK, vars
<1>2. ASSUME NEW x \in Parts, NEW q \in Quantities, Consume(x, q),
             ConsumeFailure(parts[x], q) = "none"
      PROVE  /\ parts'[p].known /\ parts'[p].line = parts[p].line
             /\ parts'[p].stock <= parts[p].stock
  <2>1. q > 0 /\ q \in Int /\ parts[p].stock \in Int
    BY <1>0, <1>2 DEF ConsumeFailure, Part
  <2>2. parts'[p] = IF p = x THEN [parts[p] EXCEPT !.stock = @ - q] ELSE parts[p]
    BY <1>2 DEF Consume, TypeOK
  <2>3. CASE p = x
    <3>1. parts'[p] = [parts[p] EXCEPT !.stock = parts[p].stock - q]
      BY <2>2, <2>3
    <3>2. /\ parts'[p].known = parts[p].known /\ parts'[p].line = parts[p].line
          /\ parts'[p].stock = parts[p].stock - q
      BY <1>0, <3>1 DEF Part
    <3>3. QED
      BY <2>1, <3>2
  <2>4. CASE p # x
    BY <1>0, <2>2, <2>4
  <2>5. QED
    BY <2>3, <2>4
<1>3. ASSUME NEW x \in Parts, NEW q \in Quantities, ConsumePart(x, q)
      PROVE  UNCHANGED parts \/ (Consume(x, q) /\ ConsumeFailure(parts[x], q) = "none")
  BY <1>3 DEF ConsumePart, Refuse
<1>4. QED
  BY <1>0, <1>1, <1>2, <1>3
     DEF Next, vars, Announce, Scan, EnsureReplenishment, AnnounceScanned

\* What a request of a quantity may be when so much is missing.
Fits(quantity, missing) ==
  \/ quantity \in 11..(missing + 10)
  \/ quantity < 0 /\ missing > IntMax - 10

LEMMA NewQuantityFits ==
  ASSUME NEW k \in Part, BelowSafetyLine(k)
  PROVE  Fits(Wrap(Wrap(k.line - k.stock) + 10), k.line - k.stock)
<1> DEFINE missing == k.line - k.stock
<1>1. missing \in 1..IntMax
  BY DEF Part, BelowSafetyLine
<1>2. Wrap(missing) = missing
  BY <1>1 DEF Wrap
<1>3. CASE missing <= IntMax - 10
  <2>1. Wrap(missing + 10) = missing + 10
    BY <1>1, <1>3 DEF Wrap
  <2>2. QED
    BY <1>1, <1>2, <2>1 DEF Fits
<1>4. CASE missing > IntMax - 10
  <2>1. Wrap(missing + 10) = missing + 10 - 2 * (IntMax + 1)
    BY <1>1, <1>4 DEF Wrap
  <2>2. Wrap(missing + 10) < 0
    BY <1>1, <2>1
  <2>3. QED
    BY <1>2, <1>4, <2>2 DEF Fits
<1>5. QED
  BY <1>1, <1>3, <1>4

LEMMA NeverOverOrderedStep ==
  TypeOK /\ TypeOK' /\ NeverOverOrdered /\ [Next]_vars => NeverOverOrdered'
<1> SUFFICES ASSUME TypeOK, TypeOK', NeverOverOrdered, [Next]_vars,
                    NEW r \in Requests, requests'[r].status = "pending"
             PROVE  LET p == requests'[r].part
                    IN /\ p \in Parts /\ parts'[p].known
                       /\ Fits(requests'[r].quantity, parts'[p].line - parts'[p].stock)
  BY DEF NeverOverOrdered, Known, Fits
\* A request of before: what is missing has only grown.
<1>1. CASE requests'[r] = requests[r]
  <2> DEFINE p == requests[r].part
  <2>1. /\ p \in Parts /\ parts[p].known
        /\ Fits(requests[r].quantity, parts[p].line - parts[p].stock)
    BY <1>1 DEF NeverOverOrdered, Known, Fits
  <2>2. /\ parts'[p].known /\ parts'[p].line = parts[p].line
        /\ parts'[p].stock <= parts[p].stock
    BY <2>1, StockFalls
  <2>3. parts[p] \in Part /\ parts'[p] \in Part /\ requests[r] \in Request
    BY <2>1 DEF TypeOK
  <2>4. /\ parts[p].stock \in Int /\ parts'[p].stock \in Int /\ parts[p].line \in Int
        /\ requests[r].quantity \in Int
    BY <2>3 DEF Part, Request
  <2>5. Fits(requests[r].quantity, parts'[p].line - parts'[p].stock)
    BY <2>1, <2>2, <2>4 DEF Fits
  <2>6. QED
    BY <1>1, <2>1, <2>2, <2>5
\* A new request: its quantity is that of this step.
<1>2. CASE requests'[r] # requests[r]
  <2>1. PICK x \in Requests, p \in Parts, k \in Part : Ordered(x, p, k)
    BY <1>2, RequestSteps
  <2>2. requests'[r] = NewReplenishmentRequest(p, k)
    BY <1>2, <2>1 DEF Ordered, TypeOK
  <2>3. requests'[r].part = p /\ requests'[r].quantity = Wrap(Wrap(k.line - k.stock) + 10)
    BY <2>2 DEF NewReplenishmentRequest
  <2>4. parts'[p] = k /\ k.known /\ BelowSafetyLine(k)
    BY <2>1 DEF Ordered
  <2>5. Fits(Wrap(Wrap(k.line - k.stock) + 10), k.line - k.stock)
    BY <2>4, NewQuantityFits
  <2>6. QED
    BY <2>3, <2>4, <2>5
<1>3. QED
  BY <1>1, <1>2

\* A pending request never asks for more than what is missing and the ten, however
\* late it is and whatever has been consumed since, and for more than the ten unless
\* the sum has wrapped to a negative number (Store.ConsumePart).
THEOREM NothingIsOverOrdered == Spec => []NeverOverOrdered
<1>1. Init => NeverOverOrdered
  BY DEF Init, NeverOverOrdered, NoRequest
<1>2. QED
  BY <1>1, TypeInit, TypeStep, NeverOverOrderedStep, PTL DEF Spec

\* A consumption that leaves a part short has put it on order in the same critical
\* section (Store.ConsumePart).
THEOREM ShortagesAreOrdered == Spec => ShortageIsOrdered
<1>1. ASSUME TypeOK, UnknownIsEmpty, [Next]_vars, NEW p \in Parts,
             parts'[p].stock < parts[p].stock, BelowSafetyLine(parts'[p])
      PROVE  \E r \in Requests : requests'[r].part = p /\ requests'[r].status = "pending"
  <2>0. parts[p] \in Part /\ parts[p].stock \in 0..IntMax /\ ~(parts'[p] = parts[p])
    BY <1>1 DEF TypeOK, Part
  <2>1. ASSUME NEW x \in Parts \cup {Blank}, NEW stock \in Stocks, NEW line \in Lines,
               AddSparePart(x, stock, line)
        PROVE  FALSE
    <3>1. x = p /\ ~Known(p) /\ parts'[p].stock = stock /\ stock >= 0
      BY <1>1, <2>0, <2>1 DEF AddSparePart, NewSparePart, TypeOK, vars
    <3>2. parts[p].stock = 0
      BY <1>1, <3>1 DEF Known, UnknownIsEmpty, TypeOK, Part
    <3>3. QED
      BY <1>1, <3>1, <3>2 DEF Ints
  <2>2. ASSUME NEW x \in Parts, NEW q \in Quantities, ConsumePart(x, q)
        PROVE  x = p /\ Consume(p, q)
    BY <1>1, <2>0, <2>2 DEF ConsumePart, Refuse, Consume, TypeOK
  <2>3. PICK q \in Quantities : Consume(p, q)
    BY <1>1, <2>0, <2>1, <2>2
       DEF Next, vars, Announce, Scan, EnsureReplenishment, AnnounceScanned
  <2> DEFINE k == [parts[p] EXCEPT !.stock = @ - q]
  <2>4. parts'[p] = k
    BY <1>1, <2>3 DEF Consume, TypeOK
  <2>5. CASE HasPending(p)
    <3>1. UNCHANGED requests
      BY <2>3, <2>5 DEF Consume
    <3>2. QED
      BY <2>5, <3>1 DEF HasPending
  <2>6. CASE ~HasPending(p)
    <3>1. BelowSafetyLine(k)
      BY <1>1, <2>4
    <3>2. PICK r \in Requests : requests' = [requests EXCEPT ![r] = NewReplenishmentRequest(p, k)]
      BY <2>3, <2>6, <3>1 DEF Consume
    <3>3. requests'[r].part = p /\ requests'[r].status = "pending"
      BY <1>1, <3>2 DEF NewReplenishmentRequest, TypeOK
    <3>4. QED
      BY <3>3
  <2>7. QED
    BY <2>5, <2>6
<1>2. TypeOK /\ UnknownIsEmpty /\ [Next]_vars =>
        \A p \in Parts :
          parts'[p].stock < parts[p].stock /\ BelowSafetyLine(parts'[p]) =>
            \E r \in Requests : requests'[r].part = p /\ requests'[r].status = "pending"
  BY <1>1
<1>3. QED
  BY <1>2, TypeInit, TypeStep, PTL DEF Spec, ShortageIsOrdered

------------------------------------------------------------------------------
(* Messages *)

\* How many messages a request has had or is still to have, by whom it may be.
Messages(r) ==
  (IF r \in notices THEN 1 ELSE 0) + (IF owing = r THEN 1 ELSE 0) + sent[r]

LEMMA AnnouncedStep == TypeOK /\ AnnouncedOnce /\ [Next]_vars => AnnouncedOnce'
<1> SUFFICES ASSUME TypeOK, AnnouncedOnce, [Next]_vars
             PROVE  AnnouncedOnce'
  OBVIOUS
<1>0. \A r \in Requests : sent[r] \in Nat /\ Messages(r) = IF Stored(r) THEN 1 ELSE 0
  BY DEF TypeOK, AnnouncedOnce, Messages
<1>1. ASSUME UNCHANGED <<requests, owing, notices, sent>>
      PROVE  AnnouncedOnce'
  BY <1>1 DEF AnnouncedOnce, Stored
\* A new request starts with one message to come.
<1>2. ASSUME NEW x \in Requests, NEW p, NEW k, ~Stored(x),
             requests' = [requests EXCEPT ![x] = NewReplenishmentRequest(p, k)],
             UNCHANGED sent,
             \/ notices' = notices \cup {x} /\ UNCHANGED owing
             \/ owing = Blank /\ owing' = x /\ UNCHANGED notices
      PROVE  AnnouncedOnce'
  <2>1. \A r \in Requests : Stored(r)' <=> r = x \/ Stored(r)
    BY <1>2 DEF Stored, NewReplenishmentRequest, TypeOK
  <2>2. Messages(x) = 0 /\ x \notin notices /\ owing # x /\ sent[x] = 0
    BY <1>0, <1>2 DEF Messages
  <2>3. Messages(x)' = 1
    BY <1>2, <2>2 DEF Messages
  <2>4. \A r \in Requests \ {x} : Messages(r)' = Messages(r)
    BY <1>2 DEF Messages
  <2>5. QED
    BY <1>0, <2>1, <2>3, <2>4 DEF AnnouncedOnce, Messages
\* A message that is sent is no longer to come.
<1>3. ASSUME NEW x \in Requests, UNCHANGED requests,
             sent' = [sent EXCEPT ![x] = @ + 1],
             \/ x \in notices /\ notices' = notices \ {x} /\ UNCHANGED owing
             \/ owing = x /\ owing' = Blank /\ UNCHANGED notices
      PROVE  AnnouncedOnce'
  <2>1. \A r \in Requests : sent'[r] = IF r = x THEN sent[x] + 1 ELSE sent[r]
    BY <1>3 DEF TypeOK
  <2>2. \A r \in Requests : Messages(r)' = Messages(r)
    BY <1>0, <1>3, <2>1 DEF Messages
  <2>3. QED
    BY <1>0, <1>3, <2>2 DEF AnnouncedOnce, Messages, Stored
<1>4. ASSUME NEW p \in Parts, NEW q \in Quantities, ConsumePart(p, q)
      PROVE  AnnouncedOnce'
  <2> DEFINE k == [parts[p] EXCEPT !.stock = @ - q]
  <2>1. CASE UNCHANGED <<requests, owing, notices, sent>>
    BY <1>1, <2>1
  <2>2. CASE ~UNCHANGED <<requests, owing, notices, sent>>
    <3>1. PICK x \in Requests :
            /\ ~Stored(x)
            /\ requests' = [requests EXCEPT ![x] = NewReplenishmentRequest(p, k)]
            /\ notices' = notices \cup {x} /\ UNCHANGED <<owing, sent>>
      BY <1>4, <2>2 DEF ConsumePart, Refuse, Consume
    <3>2. QED
      BY <1>2, <3>1
  <2>3. QED
    BY <2>1, <2>2
<1>5. ASSUME NEW p \in Parts, EnsureReplenishment(p)
      PROVE  AnnouncedOnce'
  BY <1>1, <1>2, <1>5 DEF EnsureReplenishment
<1>6. ASSUME NEW r \in Requests, Announce(r)
      PROVE  AnnouncedOnce'
  BY <1>3, <1>6 DEF Announce
<1>7. ASSUME AnnounceScanned
      PROVE  AnnouncedOnce'
  <2>1. owing \in Requests /\ sent' = [sent EXCEPT ![owing] = @ + 1]
    BY <1>7 DEF AnnounceScanned, TypeOK
  <2>2. QED
    BY <1>3, <1>7, <2>1 DEF AnnounceScanned
<1>8. QED
  BY <1>1, <1>4, <1>5, <1>6, <1>7 DEF Next, vars, AddSparePart, Scan

\* Every request has one message, sent or still to be sent by one goroutine, and no
\* message is about a request that does not exist (Service.ConsumePart,
\* Service.CheckInventory).
THEOREM OneMessagePerRequest == Spec => []AnnouncedOnce
<1>1. Init => AnnouncedOnce
  BY DEF Init, AnnouncedOnce, Stored, NoRequest
<1>2. QED
  BY <1>1, TypeInit, TypeStep, AnnouncedStep, PTL DEF Spec

==============================================================================
