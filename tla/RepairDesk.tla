------------------------------ MODULE RepairDesk ------------------------------
(***************************************************************************)
(* What the maintenance workflow promises its five parties, with one entry *)
(* per cabin instead of a cabin record and an order record that have to be *)
(* kept in step: a cabin has at most one open repair, only that repair can *)
(* hold the cabin, the cabin is worked on only while it is held, and it is *)
(* released by the step that ends the repair.  A repair never comes back.  *)
(***************************************************************************)
CONSTANTS Cabins, Orders, None

VARIABLES
  open,   \* the repair that is open for a cabin, or None
  hold,   \* whether and for what the cabin is held, and by which repair
  used    \* the repairs there have ever been

deskVars == <<open, hold, used>>

Free == [phase |-> "free", by |-> None]

Init ==
  /\ open = [c \in Cabins |-> None]
  /\ hold = [c \in Cabins |-> Free]
  /\ used = {}

Open(c, o) ==
  /\ open[c] = None
  /\ o \notin used
  /\ open' = [open EXCEPT ![c] = o]
  /\ used' = used \cup {o}
  /\ UNCHANGED hold

Hold(c) ==
  /\ open[c] # None
  /\ hold[c] = Free
  /\ hold' = [hold EXCEPT ![c] = [phase |-> "locked", by |-> open[c]]]
  /\ UNCHANGED <<open, used>>

Work(c) ==
  /\ hold[c].phase = "locked"
  /\ hold' = [hold EXCEPT ![c].phase = "under_maintenance"]
  /\ UNCHANGED <<open, used>>

Close(c) ==
  /\ hold[c].phase = "under_maintenance"
  /\ hold[c].by = open[c]
  /\ open' = [open EXCEPT ![c] = None]
  /\ hold' = [hold EXCEPT ![c] = Free]
  /\ UNCHANGED used

Next ==
  \E c \in Cabins :
    \/ \E o \in Orders : Open(c, o)
    \/ Hold(c)
    \/ Work(c)
    \/ Close(c)

Spec == Init /\ [][Next]_deskVars

==============================================================================
