----------------------------- MODULE DualControl -----------------------------
(***************************************************************************)
(* What dual confirmation promises: a switching is ordered by a dispatcher *)
(* and agreed to by one station, it is carried out only after both, and it *)
(* ends once: carried out or called off, never both.                       *)
(***************************************************************************)
CONSTANTS Ops, People, Nobody

VARIABLES
  ordered,  \* who has ordered an operation
  agreed,   \* which station has agreed to it
  outcome   \* how it ended

dualVars == <<ordered, agreed, outcome>>

Init ==
  /\ ordered = [o \in Ops |-> Nobody]
  /\ agreed = [o \in Ops |-> Nobody]
  /\ outcome = [o \in Ops |-> "open"]

Order(o, p) ==
  /\ ordered[o] = Nobody
  /\ ordered' = [ordered EXCEPT ![o] = p]
  /\ UNCHANGED <<agreed, outcome>>

Agree(o, p) ==
  /\ ordered[o] # Nobody /\ agreed[o] = Nobody /\ outcome[o] = "open"
  /\ agreed' = [agreed EXCEPT ![o] = p]
  /\ UNCHANGED <<ordered, outcome>>

CarryOut(o) ==
  /\ ordered[o] # Nobody /\ agreed[o] # Nobody /\ outcome[o] = "open"
  /\ outcome' = [outcome EXCEPT ![o] = "carried_out"]
  /\ UNCHANGED <<ordered, agreed>>

CallOff(o) ==
  /\ ordered[o] # Nobody /\ outcome[o] = "open"
  /\ outcome' = [outcome EXCEPT ![o] = "called_off"]
  /\ UNCHANGED <<ordered, agreed>>

Next ==
  \E o \in Ops :
    \/ \E p \in People : Order(o, p) \/ Agree(o, p)
    \/ CarryOut(o)
    \/ CallOff(o)

Spec == Init /\ [][Next]_dualVars

==============================================================================
