----------------------------- MODULE MCLifecycle -----------------------------
(***************************************************************************)
(* A small instance of Lifecycle for TLC: configuration files of each      *)
(* kind, and one of each of the values that matter.                        *)
(***************************************************************************)
EXTENDS Lifecycle

MCFile(kind, port, interval) == [kind |-> kind, port |-> port, interval |-> interval]

\* An int is of 10 bits and a second has 12 nanoseconds: 30 seconds fit a duration, 60
\* wrap to a negative one, and 100 to a shorter one.
MCFiles ==
  {MCFile("mistyped", 443, 0), MCFile("good", 443, 100), MCFile("good", 0, 0),
   MCFile("good", Unset, 60)}

\* A handler that a client can hold up before its change of the store, and one that
\* owes two messages after it.
MCRequests == {<<"read", "store", "write">>, <<"store", "send", "send", "write">>}

==============================================================================
