------------------------------ MODULE Inventory ------------------------------
(***************************************************************************)
(* Spare parts and their replenishment: HTTP handlers that add and consume *)
(* parts, and the scheduler's inventory scan, on the same store.  A scan   *)
(* lists the short parts under one lock, asks for each of them under a     *)
(* lock of its own and sends its message outside any; a handler consumes   *)
(* and orders under one lock and sends its message afterwards.             *)
(***************************************************************************)
EXTENDS Integers, FiniteSets

CONSTANTS
  Parts,       \* part ids
  Requests,    \* the ids NextID can hand out; no part ever has two requests
  Stocks,      \* initial stocks a caller may ask for, illegal ones included
  Lines,       \* safety lines a caller may ask for, illegal ones included
  Quantities,  \* quantities a caller may ask for, illegal ones included
  IntMax,      \* the largest int
  Blank        \* the empty string

ASSUME InventoryAssumption ==
  /\ Blank \notin Parts \cup Requests
  /\ IntMax \in Nat /\ IntMax >= 10   \* the ten of a request is an int
  /\ Stocks \cup Lines \cup Quantities \subseteq (-IntMax - 1)..IntMax

VARIABLES
  parts,     \* Store.parts
  requests,  \* Store.replenishments
  todo,      \* parts the scan has listed and not reached yet
  owing,     \* the request the scan has created and not announced yet, or Blank
  notices,   \* requests whose handlers have not announced them yet
  sent,      \* SMSNotifier.messages: how many each request caused
  answer     \* how the last consumption ended: its failure and its HTTP status

vars == <<parts, requests, todo, owing, notices, sent, answer>>

------------------------------------------------------------------------------
(* Data *)

\* A Go int: what does not fit wraps around.
Wrap(n) ==
  IF n > IntMax THEN n - 2 * (IntMax + 1)
  ELSE IF n < -IntMax - 1 THEN n + 2 * (IntMax + 1)
  ELSE n

Failures == {"none", "ErrPartNotFound", "ErrInvalidQuantity", "ErrInsufficientStock"}

Part == [known : BOOLEAN, stock : 0..IntMax, line : 0..IntMax]
NoPart == [known |-> FALSE, stock |-> 0, line |-> 0]

Request == [status : {"absent", "pending", "fulfilled"}, part : Parts \cup {Blank},
            quantity : (-IntMax - 1)..IntMax]
NoRequest == [status |-> "absent", part |-> Blank, quantity |-> 0]

Known(p) == p \in Parts /\ parts[p].known
Stored(r) == requests[r].status # "absent"

------------------------------------------------------------------------------
(* The methods of a part, and the store's helpers *)

NewSparePart(stock, line) == [known |-> TRUE, stock |-> stock, line |-> line]

BelowSafetyLine(k) == k.stock < k.line

\* How SparePart.Consume refuses, if it does.
ConsumeFailure_Unchecked(k, q) == IF q <= 0 THEN "ErrInvalidQuantity" ELSE "none"
ConsumeFailure(k, q) ==
  IF q <= 0 THEN "ErrInvalidQuantity"
  ELSE IF k.stock < q THEN "ErrInsufficientStock"
  ELSE "none"

\* What errors.Is still finds in the error Store.ConsumePart returns: it wraps
\* its own with %w, and formats the text of the part's with %s.
Sentinel(failure) == IF failure = "ErrPartNotFound" THEN failure ELSE "untyped"

\* handleConsumePart
Status(failure) ==
  IF failure = "none" THEN 200
  ELSE IF Sentinel(failure) = "ErrPartNotFound" THEN 404
  ELSE IF Sentinel(failure) = "ErrInsufficientStock" THEN 409
  ELSE 400

Answer(failure) == [failure |-> failure, status |-> Status(failure)]

HasPending_LooksForFulfilled(p) ==
  \E r \in Requests : requests[r].part = p /\ requests[r].status = "fulfilled"
HasPending_OfAnyPart(p) == \E r \in Requests : requests[r].status = "pending"
HasPending(p) ==
  \E r \in Requests : requests[r].part = p /\ requests[r].status = "pending"

NewReplenishmentRequest_StockUncounted(p, k) ==
  [status |-> "pending", part |-> p, quantity |-> Wrap(k.line + 10)]
NewReplenishmentRequest(p, k) ==
  [status |-> "pending", part |-> p, quantity |-> Wrap(Wrap(k.line - k.stock) + 10)]

------------------------------------------------------------------------------
(* The handlers *)

AddSparePart(p, stock, line) ==
  IF p # Blank /\ line >= 0 /\ stock >= 0 /\ ~Known(p)
  THEN /\ parts' = [parts EXCEPT ![p] = NewSparePart(stock, line)]
       /\ UNCHANGED <<requests, todo, owing, notices, sent, answer>>
  ELSE UNCHANGED vars

\* A consumption that fails.
Refuse(failure) ==
  /\ answer' = Answer(failure)
  /\ UNCHANGED <<parts, requests, todo, owing, notices, sent>>

\* Store.ConsumePart, one critical section.
Consume(p, q) ==
  LET k == [parts[p] EXCEPT !.stock = @ - q]
  IN /\ parts' = [parts EXCEPT ![p] = k]
     /\ answer' = Answer("none")
     /\ IF BelowSafetyLine(k) /\ ~HasPending(p)
        THEN \E r \in Requests :
               /\ ~Stored(r)
               /\ requests' = [requests EXCEPT ![r] = NewReplenishmentRequest(p, k)]
               /\ notices' = notices \cup {r}
        ELSE UNCHANGED <<requests, notices>>
     /\ UNCHANGED <<todo, owing, sent>>

ConsumePart(p, q) ==
  \/ ~Known(p) /\ Refuse("ErrPartNotFound")
  \/ /\ Known(p)
     /\ ConsumeFailure(parts[p], q) # "none"
     /\ Refuse(ConsumeFailure(parts[p], q))
  \/ Known(p) /\ ConsumeFailure(parts[p], q) = "none" /\ Consume(p, q)

\* The rest of Service.ConsumePart, after the unlock.
Announce_KeepsTheNotice(r) ==
  /\ r \in notices
  /\ sent' = [sent EXCEPT ![r] = @ + 1]
  /\ sent[r] < 2
  /\ UNCHANGED <<parts, requests, todo, owing, notices, answer>>
Announce(r) ==
  /\ r \in notices
  /\ notices' = notices \ {r}
  /\ sent' = [sent EXCEPT ![r] = @ + 1]
  /\ UNCHANGED <<parts, requests, todo, owing, answer>>

------------------------------------------------------------------------------
(* The scheduler: CheckInventory *)

\* Store.CheckInventoryBelowSafety.  A scan ends when its list is empty, and the
\* next tick starts another.
Scan_OnlyEmpty ==
  /\ todo = {} /\ owing = Blank
  /\ todo' = {p \in Parts : Known(p) /\ BelowSafetyLine(parts[p]) /\ parts[p].stock = 0}
  /\ UNCHANGED <<parts, requests, owing, notices, sent, answer>>
Scan ==
  /\ todo = {} /\ owing = Blank
  /\ todo' = {p \in Parts : Known(p) /\ BelowSafetyLine(parts[p])}
  /\ UNCHANGED <<parts, requests, owing, notices, sent, answer>>

\* Store.EnsureReplenishmentForPart
EnsureReplenishment(p) ==
  /\ p \in todo /\ owing = Blank
  /\ todo' = todo \ {p}
  /\ IF Known(p) /\ BelowSafetyLine(parts[p]) /\ ~HasPending(p)
     THEN \E r \in Requests :
            /\ ~Stored(r)
            /\ requests' = [requests EXCEPT ![r] = NewReplenishmentRequest(p, parts[p])]
            /\ owing' = r
     ELSE UNCHANGED <<requests, owing>>
  /\ UNCHANGED <<parts, notices, sent, answer>>

AnnounceScanned_Forgotten ==
  /\ owing # Blank
  /\ owing' = Blank
  /\ UNCHANGED <<parts, requests, todo, notices, sent, answer>>
AnnounceScanned ==
  /\ owing # Blank
  /\ sent' = [sent EXCEPT ![owing] = @ + 1]
  /\ owing' = Blank
  /\ UNCHANGED <<parts, requests, todo, notices, answer>>

------------------------------------------------------------------------------
Init ==
  /\ parts = [p \in Parts |-> NoPart]
  /\ requests = [r \in Requests |-> NoRequest]
  /\ todo = {}
  /\ owing = Blank
  /\ notices = {}
  /\ sent = [r \in Requests |-> 0]
  /\ answer = [failure |-> "none", status |-> 0]

Next ==
  \/ \E p \in Parts \cup {Blank}, stock \in Stocks, line \in Lines :
       AddSparePart(p, stock, line)
  \/ \E p \in Parts, q \in Quantities : ConsumePart(p, q)
  \/ \E r \in Requests : Announce(r)
  \/ Scan
  \/ \E p \in Parts : EnsureReplenishment(p)
  \/ AnnounceScanned

\* The ticker keeps the scheduler going until the shutdown, the net/http server
\* runs every handler to its end, and no lock is held across a wait.
Fairness ==
  /\ WF_vars(Scan)
  /\ WF_vars(\E p \in Parts : EnsureReplenishment(p))
  /\ WF_vars(AnnounceScanned)
  /\ \A r \in Requests : WF_vars(Announce(r))

Spec == Init /\ [][Next]_vars /\ Fairness

------------------------------------------------------------------------------
(* Properties *)

\* Every variable has its type; no stock is ever negative.
TypeOK ==
  /\ parts \in [Parts -> Part]
  /\ requests \in [Requests -> Request]
  /\ todo \subseteq Parts
  /\ owing \in Requests \cup {Blank}
  /\ notices \subseteq Requests
  /\ sent \in [Requests -> Nat]
  /\ answer \in [failure : Failures, status : {0, 200, 400, 404, 409}]

\* Whoever notices a shortage first, handlers and scan together never have two
\* requests pending for a part ("idempotent", Store.ConsumePart,
\* Store.EnsureReplenishmentForPart).
OnePendingPerPart ==
  \A r1, r2 \in Requests :
    /\ requests[r1].status = "pending" /\ requests[r2].status = "pending"
    /\ requests[r1].part = requests[r2].part
    => r1 = r2

\* Every request is announced once, by whoever created it: its message is sent,
\* or still to be sent by exactly one goroutine, and nobody announces a request
\* that does not exist (Service.ConsumePart, Service.CheckInventory).
AnnouncedOnce ==
  \A r \in Requests :
    (IF r \in notices THEN 1 ELSE 0) + (IF owing = r THEN 1 ELSE 0) + sent[r] =
      IF Stored(r) THEN 1 ELSE 0

\* A consumption that leaves a part short does not return before the part is on
\* order, whoever ordered it (Store.ConsumePart).
ShortageIsOrdered ==
  [][\A p \in Parts :
       parts'[p].stock < parts[p].stock /\ BelowSafetyLine(parts'[p]) =>
         \E r \in Requests : requests'[r].part = p /\ requests'[r].status = "pending"]_vars

\* A pending request is as old as the first shortage, and its quantity stays: it may
\* fall short of what is missing by now, and never orders more than what is missing
\* and the ten, as nothing puts a part back.  It orders more than the ten, unless so
\* much is missing that the sum has wrapped to a negative number
\* (NewReplenishmentRequest, Store.ConsumePart, Store.EnsureReplenishmentForPart).
NeverOverOrdered ==
  \A r \in Requests :
    requests[r].status = "pending" =>
      LET p == requests[r].part
          missing == parts[p].line - parts[p].stock
      IN /\ Known(p)
         /\ \/ requests[r].quantity \in 11..(missing + 10)
            \/ requests[r].quantity < 0 /\ missing > IntMax - 10

\* A part that is short, even from the start, is on order at last: the scan
\* finds what no consumption has reported (Service.CheckInventory).
ShortPartsAreOrdered ==
  \A p \in Parts :
    Known(p) /\ BelowSafetyLine(parts[p]) ~>
      \E r \in Requests : requests[r].part = p /\ requests[r].status = "pending"

\* Every request is announced at last.
RequestsAreAnnounced == \A r \in Requests : Stored(r) ~> sent[r] > 0

\* "a stock shortage answers 409 Conflict"
ShortageIsConflict ==
  answer.failure = "ErrInsufficientStock" => answer.status = 409

==============================================================================
