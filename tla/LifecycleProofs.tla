--------------------------- MODULE LifecycleProofs ---------------------------
(***************************************************************************)
(* The shutdown leaves nobody behind but the late, for any number of       *)
(* connections, any configuration files and any mix of requests.           *)
(***************************************************************************)
EXTENDS Lifecycle, SequenceTheorems, TLAPS

USE LifecycleAssumption

------------------------------------------------------------------------------
(* The programs of handlers and ticks *)

Steps == {"read", "store", "send", "write"}

\* A handler answers once, at its end.
AnswersAtTheEnd(p) ==
  /\ p \in Seq(Steps)
  /\ \A i \in 1..Len(p) : p[i] = "write" => i = Len(p)

LEMMA HandlersAnswerAtTheEnd == \A p \in Handlers : AnswersAtTheEnd(p)
<1>1. AnswersAtTheEnd(<<"write">>)
  BY DEF AnswersAtTheEnd, Steps
<1>2. AnswersAtTheEnd(<<"read", "write">>)
  BY DEF AnswersAtTheEnd, Steps
<1>3. AnswersAtTheEnd(<<"store", "write">>)
  BY DEF AnswersAtTheEnd, Steps
<1>4. AnswersAtTheEnd(<<"store", "store", "write">>)
  BY DEF AnswersAtTheEnd, Steps
<1>5. AnswersAtTheEnd(<<"read", "store", "write">>)
  BY DEF AnswersAtTheEnd, Steps
<1>6. AnswersAtTheEnd(<<"read", "store", "store", "write">>)
  BY DEF AnswersAtTheEnd, Steps
<1>7. AnswersAtTheEnd(<<"read", "store", "send", "write">>)
  BY DEF AnswersAtTheEnd, Steps
<1>8. AnswersAtTheEnd(<<"store", "send", "send", "write">>)
  BY DEF AnswersAtTheEnd, Steps
<1>9. QED
  BY <1>1, <1>2, <1>3, <1>4, <1>5, <1>6, <1>7, <1>8, Zenon DEF Handlers

LEMMA TickType == Ticks \subseteq Seq(Steps)
<1> SUFFICES ASSUME NEW p \in Ticks PROVE p \in Seq(Steps)
  OBVIOUS
<1>0. PICK part \in {<< >>, <<"store">>, <<"store", "send", "send">>}
                      \X {<< >>, <<"store">>, <<"store", "send">>} :
        p = <<"store">> \o part[1] \o <<"store">> \o part[2] \o <<"store">>
  BY Zenon DEF Ticks
<1> DEFINE a == part[1]
           b == part[2]
<1>1. <<"store">> \in Seq(Steps) /\ << >> \in Seq(Steps)
  BY DEF Steps
<1>2. <<"store", "send">> \in Seq(Steps) /\ <<"store", "send", "send">> \in Seq(Steps)
  BY DEF Steps
<1>3. a \in Seq(Steps) /\ b \in Seq(Steps)
  <2>1. /\ a \in {<< >>, <<"store">>, <<"store", "send", "send">>}
        /\ b \in {<< >>, <<"store">>, <<"store", "send">>}
    OBVIOUS
  <2>2. QED
    BY <1>1, <1>2, <2>1, Zenon
<1>4. <<"store">> \o a \in Seq(Steps)
  BY <1>1, <1>3, ConcatProperties, Zenon
<1>5. <<"store">> \o a \o <<"store">> \in Seq(Steps)
  BY <1>1, <1>4, ConcatProperties, Zenon
<1>6. <<"store">> \o a \o <<"store">> \o b \in Seq(Steps)
  BY <1>3, <1>5, ConcatProperties, Zenon
<1>7. QED
  BY <1>0, <1>1, <1>6, ConcatProperties, Zenon

LEMMA RestOfProgram ==
  ASSUME NEW p \in Seq(Steps), p # << >>
  PROVE  /\ Tail(p) \in Seq(Steps)
         /\ AnswersAtTheEnd(p) => AnswersAtTheEnd(Tail(p))
         /\ AnswersAtTheEnd(p) /\ Head(p) = "write" => Tail(p) = << >>
<1>1. Tail(p) \in Seq(Steps) /\ Len(p) \in Nat \ {0} /\ Len(Tail(p)) = Len(p) - 1
  OBVIOUS
<1>2. \A i \in 1..Len(Tail(p)) : Tail(p)[i] = p[i + 1] /\ i + 1 \in 1..Len(p)
  BY <1>1
<1>3. ASSUME AnswersAtTheEnd(p) PROVE AnswersAtTheEnd(Tail(p))
  <2>1. \A i \in 1..Len(Tail(p)) : Tail(p)[i] = "write" => i + 1 = Len(p)
    BY <1>2, <1>3 DEF AnswersAtTheEnd
  <2>2. \A i \in 1..Len(Tail(p)) : i + 1 = Len(p) => i = Len(Tail(p))
    <3>1. \A m, n \in Nat : m = n - 1 => \A i \in 1..m : i + 1 = n => i = m
      OBVIOUS
    <3>2. Len(p) \in Nat /\ Len(Tail(p)) \in Nat
      BY <1>1
    <3>3. QED
      BY <1>1, <3>1, <3>2
  <2>3. QED
    BY <1>1, <2>1, <2>2, Zenon DEF AnswersAtTheEnd
<1>4. ASSUME AnswersAtTheEnd(p), Head(p) = "write" PROVE Tail(p) = << >>
  <2>1. p[1] = "write" /\ 1 \in 1..Len(p)
    BY <1>1, <1>4
  <2>2. Len(p) = 1
    BY <1>4, <2>1 DEF AnswersAtTheEnd
  <2>3. Len(Tail(p)) = 0
    BY <1>1, <2>2
  <2>4. QED
    BY <1>1, <2>3, EmptySeq
<1>5. QED
  BY <1>1, <1>3, <1>4

\* What fits a duration in nanoseconds is an int in seconds.
LEMMA DefaultsAreInts == DefaultPort \in Ints \ {0} /\ DefaultInterval \in Ints
<1>1. \A m, n \in Nat : n # 0 => m <= m * n
  BY SMT
<1>2. DefaultInterval <= DefaultInterval * Second
  BY <1>1
<1>3. DefaultInterval * Second \in Nat
  OBVIOUS
<1>4. DefaultInterval <= IntMax
  BY <1>2, <1>3
<1>5. QED
  BY <1>4 DEF Ints

LEMMA LoadConfigType ==
  ASSUME NEW f \in Files
  PROVE  LoadConfig(f) \in [port : Ints \ {0}, interval : Ints]
<1>1. f.port \in Ints \cup {Unset} /\ f.interval \in Ints \cup {Unset}
  OBVIOUS
<1>2. Default \in [port : Ints \ {0}, interval : Ints]
  BY DefaultsAreInts DEF Default
<1>3. Unmarshalled(f) \in [port : Ints, interval : Ints]
  BY <1>1, DefaultsAreInts DEF Unmarshalled, Given
<1>4. QED
  BY <1>2, <1>3, DefaultsAreInts DEF LoadConfig

------------------------------------------------------------------------------
(* The invariant *)

\* Who holds the lock is in the store.
TheHolderIsInside == mutex # Nobody => mutex \in Goroutines /\ Ahead(mutex, "store")

\* Only a busy connection has work to do.
OnlyTheBusyWork ==
  \A c \in Connections : /\ AnswersAtTheEnd(todo[c])
                         /\ conns[c] # "busy" => todo[c] = << >>

\* The listener is gone when Shutdown waits, and the idle connections when it returns.
Draining ==
  /\ ShuttingDown => listener # "accepting"
  /\ ServerStopped => \A c \in Connections : conns[c] # "idle"
  /\ ServerStopped /\ ~late => \A c \in Connections : conns[c] = "closed"

\* The scheduler works while it is selecting, and main waits for its end.
Ticking ==
  /\ sched # "select" => todo[Scheduler] = << >>
  /\ main = "exited" => sched = "done"

\* Scheduler and listener are started with the configuration of the file.
Configured ==
  /\ main \in {"load", "seed", "start"} => sched = "off"
  /\ main \in {"load", "seed", "start", "serve"} => listener = "off"
  /\ main \notin {"load", "killed"} => config = LoadConfig(file)
  /\ main = "panicked" => Duration(config.interval) <= 0

IInv == TypeOK /\ TheHolderIsInside /\ OnlyTheBusyWork /\ Draining /\ Ticking /\ Configured

------------------------------------------------------------------------------
(* Every step keeps it *)

LEMMA InvInit == Init => IInv
<1> SUFFICES ASSUME Init PROVE IInv
  OBVIOUS
<1>1. << >> \in Seq(Steps) /\ Len(<< >>) = 0
  BY EmptySeq
<1>2. AnswersAtTheEnd(<< >>)
  BY <1>1 DEF AnswersAtTheEnd
<1>3. todo \in [Goroutines -> Seq(Steps)]
  BY <1>1 DEF Init
<1>4. Default \in [port : Ints \ {0}, interval : Ints]
  BY DefaultsAreInts DEF Default
<1>5. TypeOK
  BY <1>3, <1>4 DEF Init, TypeOK, Steps
<1>6. TheHolderIsInside
  BY DEF Init, TheHolderIsInside
<1>7. OnlyTheBusyWork
  BY <1>2 DEF Init, OnlyTheBusyWork, Goroutines
<1>8. Draining /\ Ticking /\ Configured
  BY DEF Init, Draining, Ticking, Configured, ShuttingDown, ServerStopped, Goroutines
<1>9. QED
  BY <1>5, <1>6, <1>7, <1>8 DEF IInv

\* The steps of main, of the clocks and of the listener, and the scheduler's first.
MainSide == MainRuns \/ Signal \/ TimeOut \/ ListenerRuns \/ ServeFails \/ Run

LEMMA MainSideStep ==
  ASSUME MainSide
  PROVE  UNCHANGED <<file, ticked, conns, mutex, todo>>
BY DEF MainSide, MainRuns, Load, SeedData, Start, GoListen, Notify, ReceiveSignal, Shutdown,
       ShutdownReturns, Stop, StopReturns, MainGoes, End, Signal, TimeOut, ListenerRuns,
       ListenAndServe, Listen, Serve, ListenerGoes, ServeFails, Run, setup, server, beat, work

\* A goroutine g takes its next step, which is one of kinds.
TakesStep(g, kinds) ==
  /\ Running /\ todo[g] # << >> /\ Head(todo[g]) \in kinds
  /\ todo' = [todo EXCEPT ![g] = Tail(@)]
  /\ UNCHANGED <<setup, main, quit, late, listener, beat>>

LEMMA TakenSteps ==
  /\ \A c \in Connections : ReadBody(c) => TakesStep(c, {"read"}) /\ UNCHANGED <<conns, mutex>>
  /\ \A c \in Connections : WriteAnswer(c) => TakesStep(c, {"write"}) /\ UNCHANGED mutex
  /\ \A g \in Goroutines : Send(g) => TakesStep(g, {"send"}) /\ UNCHANGED <<conns, mutex>>
  /\ TheHolderIsInside =>
       \A g \in Goroutines : Leave(g) => /\ TakesStep(g, {"store"}) /\ UNCHANGED conns
                                         /\ mutex = g /\ mutex' = Nobody
<1>1. \A g \in Goroutines : g # Nobody
  BY DEF Goroutines
<1>2. QED
  BY <1>1 DEF ReadBody, WriteAnswer, Send, Leave, TakesStep, Ahead, TheHolderIsInside, server

LEMMA TodoTypeStep == IInv /\ [Next]_vars => todo' \in [Goroutines -> Seq(Steps)]
<1> SUFFICES ASSUME IInv, [Next]_vars
             PROVE  todo' \in [Goroutines -> Seq(Steps)]
  OBVIOUS
<1>0. todo \in [Goroutines -> Seq(Steps)] /\ Connections \subseteq Goroutines
  BY DEF IInv, TypeOK, Steps, Goroutines
<1>1. ASSUME UNCHANGED todo PROVE todo' \in [Goroutines -> Seq(Steps)]
  BY <1>0, <1>1
<1>2. ASSUME NEW g \in Goroutines, NEW kinds, TakesStep(g, kinds)
      PROVE  todo' \in [Goroutines -> Seq(Steps)]
  <2>1. Tail(todo[g]) \in Seq(Steps)
    BY <1>0, <1>2, RestOfProgram DEF TakesStep
  <2>2. QED
    BY <1>0, <1>2, <2>1 DEF TakesStep
<1>3. ASSUME NEW c \in Connections, Request(c)
      PROVE  todo' \in [Goroutines -> Seq(Steps)]
  <2>1. \A p \in Requests : p \in Seq(Steps)
    BY HandlersAnswerAtTheEnd, RequestsAreHandled DEF AnswersAtTheEnd
  <2>2. QED
    BY <1>0, <1>3, <2>1 DEF Request
<1>4. ASSUME SelectTick PROVE todo' \in [Goroutines -> Seq(Steps)]
  BY <1>0, <1>4, TickType DEF SelectTick, Goroutines
<1>5. ASSUME NEW c \in Connections, ReadBody(c) \/ WriteAnswer(c)
      PROVE  todo' \in [Goroutines -> Seq(Steps)]
  BY <1>0, <1>2, <1>5, TakenSteps
<1>6. ASSUME NEW g \in Goroutines, Leave(g) \/ Send(g)
      PROVE  todo' \in [Goroutines -> Seq(Steps)]
  BY <1>2, <1>6, TakenSteps DEF IInv
<1>7. ASSUME MainSide \/ TickerFires \/ SelectStop \/ UNCHANGED vars
      PROVE  UNCHANGED todo
  BY <1>7, MainSideStep DEF TickerFires, SelectStop, vars, work
<1>8. ASSUME NEW g, Enter(g) \/ Accept(g) \/ Close(g) PROVE UNCHANGED todo
  BY <1>8 DEF Enter, Accept, Close, work
<1>9. QED
  BY <1>1, <1>3, <1>4, <1>5, <1>6, <1>7, <1>8
     DEF Next, MainSide, RunsOn, SchedulerRuns

LEMMA TypeStep == IInv /\ [Next]_vars => TypeOK'
<1> SUFFICES ASSUME IInv, [Next]_vars PROVE TypeOK'
  OBVIOUS
<1>0. TypeOK /\ \A c \in Connections : c \in Goroutines
  BY DEF IInv, Goroutines
<1>1. todo' \in [Goroutines -> Seq({"read", "store", "send", "write"})]
  BY TodoTypeStep DEF Steps
<1>2. ASSUME MainSide PROVE TypeOK'
  <2>1. UNCHANGED <<file, ticked, conns, mutex>>
    BY <1>2, MainSideStep
  <2>2. config' \in [port : Ints \ {0}, interval : Ints]
    <3>1. config' = config \/ config' = LoadConfig(file)
      BY <1>2 DEF MainSide, MainRuns, Load, SeedData, Start, GoListen, Notify, ReceiveSignal,
                  Shutdown, ShutdownReturns, Stop, StopReturns, MainGoes, End, Signal, TimeOut,
                  ListenerRuns, ListenAndServe, Listen, Serve, ListenerGoes, ServeFails, Run,
                  setup
    <3>2. QED
      BY <1>0, <3>1, LoadConfigType DEF TypeOK
  <2>3. /\ main' \in {"seed", "start", "serve", "notify", "wait", "shutdown", "drain", "stop",
                      "join"} \cup Ends \cup {main}
        /\ quit' \in BOOLEAN /\ late' \in BOOLEAN
    BY <1>0, <1>2
       DEF TypeOK, Ends, MainSide, MainRuns, Load, SeedData, Start, GoListen, Notify, ReceiveSignal,
              Shutdown, ShutdownReturns, Stop, StopReturns, MainGoes, End, Signal, TimeOut,
              ListenerRuns, ListenAndServe, Listen, Serve, ListenerGoes, ServeFails, Run
  <2>4. listener' \in {"started", "opening", "bound", "accepting", "closed", listener}
    BY <1>2
       DEF server, MainSide, MainRuns, Load, SeedData, Start, GoListen, Notify, ReceiveSignal,
              Shutdown, ShutdownReturns, Stop, StopReturns, MainGoes, End, Signal, TimeOut,
              ListenerRuns, ListenAndServe, Listen, Serve, ListenerGoes, ServeFails, Run
  <2>5. sched' \in {"started", "select", sched}
    BY <1>2
       DEF beat, MainSide, MainRuns, Load, SeedData, Start, GoListen, Notify, ReceiveSignal,
              Shutdown, ShutdownReturns, Stop, StopReturns, MainGoes, End, Signal, TimeOut,
              ListenerRuns, ListenAndServe, Listen, Serve, ListenerGoes, ServeFails, Run
  <2>6. QED
    BY <1>0, <1>1, <2>1, <2>2, <2>3, <2>4, <2>5 DEF TypeOK
<1>3. ASSUME NEW c \in Connections,
             Accept(c) \/ Close(c) \/ Request(c) \/ ReadBody(c) \/ WriteAnswer(c)
      PROVE  TypeOK'
  BY <1>0, <1>1, <1>3
     DEF TypeOK, Accept, Close, Request, ReadBody, WriteAnswer, setup, server, beat, work
<1>4. ASSUME NEW g \in Goroutines, Enter(g) \/ RunsOn(g) PROVE TypeOK'
  BY <1>0, <1>1, <1>4 DEF TypeOK, Enter, RunsOn, Leave, Send, setup, server, beat
<1>5. ASSUME TickerFires \/ SelectTick \/ SelectStop PROVE TypeOK'
  BY <1>0, <1>1, <1>5 DEF TypeOK, TickerFires, SelectTick, SelectStop, setup, server, beat, work
<1>6. ASSUME UNCHANGED vars PROVE TypeOK'
  BY <1>0, <1>6 DEF TypeOK, vars, setup, server, beat, work
<1>7. QED
  BY <1>2, <1>3, <1>4, <1>5, <1>6 DEF Next, MainSide, SchedulerRuns

\* Nobody but the holder of the lock takes the step that is in the store.
LEMMA HolderStep == IInv /\ [Next]_vars => TheHolderIsInside'
<1> SUFFICES ASSUME IInv, [Next]_vars, mutex' # Nobody
             PROVE  mutex' \in Goroutines /\ todo'[mutex'] # << >> /\ Head(todo'[mutex']) = "store"
  BY DEF TheHolderIsInside, Ahead
<1>0. /\ TheHolderIsInside /\ OnlyTheBusyWork
      /\ todo \in [Goroutines -> Seq(Steps)] /\ Connections \subseteq Goroutines
      /\ Scheduler \in Goroutines
  BY DEF IInv, TypeOK, Steps, Goroutines
<1> DEFINE Inside(g) == g \in Goroutines /\ todo'[g] # << >> /\ Head(todo'[g]) = "store"
<1>1. ASSUME UNCHANGED <<mutex, todo>> PROVE Inside(mutex')
  BY <1>0, <1>1 DEF TheHolderIsInside, Ahead
<1>2. ASSUME NEW g \in Goroutines, Enter(g) PROVE Inside(mutex')
  BY <1>0, <1>2 DEF Enter, Ahead
<1>3. ASSUME NEW g \in Goroutines, UNCHANGED mutex, g # mutex,
             todo' = [todo EXCEPT ![g] = todo'[g]]
      PROVE  Inside(mutex')
  BY <1>0, <1>3 DEF TheHolderIsInside, Ahead
<1>4. ASSUME NEW g \in Goroutines, UNCHANGED mutex, TakesStep(g, {"read", "write", "send"})
      PROVE  Inside(mutex')
  BY <1>0, <1>3, <1>4 DEF TakesStep, TheHolderIsInside, Ahead
<1>5. ASSUME NEW c \in Connections, ReadBody(c) \/ WriteAnswer(c) PROVE Inside(mutex')
  BY <1>0, <1>4, <1>5, TakenSteps DEF TakesStep
<1>6. ASSUME NEW g \in Goroutines, Leave(g) \/ Send(g) PROVE Inside(mutex')
  BY <1>0, <1>4, <1>6, TakenSteps DEF TakesStep
<1>7. ASSUME NEW c \in Connections, Request(c) PROVE Inside(mutex')
  <2>1. todo[c] = << >>
    BY <1>0, <1>7 DEF Request, OnlyTheBusyWork
  <2>2. c # mutex
    BY <1>0, <1>7, <2>1 DEF TheHolderIsInside, Ahead, Request
  <2>3. QED
    BY <1>0, <1>3, <1>7, <2>2 DEF Request
<1>8. ASSUME SelectTick PROVE Inside(mutex')
  <2>1. Scheduler # mutex /\ UNCHANGED mutex
    BY <1>0, <1>8 DEF TheHolderIsInside, Ahead, SelectTick, Selecting
  <2>2. todo' = [todo EXCEPT ![Scheduler] = todo'[Scheduler]]
    BY <1>0, <1>8 DEF SelectTick
  <2>3. QED
    BY <1>0, <1>3, <2>1, <2>2
<1>9. ASSUME MainSide \/ TickerFires \/ SelectStop \/ UNCHANGED vars
      PROVE  UNCHANGED <<mutex, todo>>
  BY <1>9, MainSideStep DEF TickerFires, SelectStop, vars, work
<1>10. ASSUME NEW g, Accept(g) \/ Close(g) PROVE UNCHANGED <<mutex, todo>>
  BY <1>10 DEF Accept, Close, work
<1>11. QED
  BY <1>1, <1>2, <1>5, <1>6, <1>7, <1>8, <1>9, <1>10 DEF Next, MainSide, RunsOn, SchedulerRuns

\* A connection is busy from the request to the answer, which ends its program.
LEMMA BusyStep == IInv /\ [Next]_vars => OnlyTheBusyWork'
<1> SUFFICES ASSUME IInv, [Next]_vars, NEW c \in Connections
             PROVE  AnswersAtTheEnd(todo'[c]) /\ (conns'[c] # "busy" => todo'[c] = << >>)
  BY DEF OnlyTheBusyWork
<1> DEFINE Kept == AnswersAtTheEnd(todo'[c]) /\ (conns'[c] # "busy" => todo'[c] = << >>)
<1>0. /\ TheHolderIsInside
      /\ AnswersAtTheEnd(todo[c]) /\ (conns[c] # "busy" => todo[c] = << >>)
      /\ todo \in [Goroutines -> Seq(Steps)] /\ Connections \subseteq Goroutines
      /\ conns \in [Connections -> {"closed", "idle", "busy"}] /\ c \in Goroutines
  BY DEF IInv, OnlyTheBusyWork, TypeOK, Steps, Goroutines
<1>1. ASSUME todo'[c] = todo[c], conns'[c] = conns[c] \/ conns[c] = "closed" \/ conns[c] = "idle"
      PROVE  Kept
  BY <1>0, <1>1
<1>2. ASSUME NEW g \in Goroutines, NEW kinds, TakesStep(g, kinds), UNCHANGED conns PROVE Kept
  <2>1. CASE g # c
    BY <1>0, <1>1, <1>2, <2>1 DEF TakesStep
  <2>2. CASE g = c
    BY <1>0, <1>2, <2>2, RestOfProgram DEF TakesStep
  <2>3. QED
    BY <2>1, <2>2
<1>3. ASSUME NEW d \in Connections, WriteAnswer(d) PROVE Kept
  <2>1. CASE d # c
    BY <1>0, <1>1, <1>3, <2>1 DEF WriteAnswer
  <2>2. CASE d = c
    <3>1. todo'[c] = Tail(todo[c]) /\ todo[c] # << >> /\ Head(todo[c]) = "write"
      BY <1>0, <1>3, <2>2 DEF WriteAnswer, Ahead
    <3>2. QED
      BY <1>0, <3>1, RestOfProgram
  <2>3. QED
    BY <2>1, <2>2
<1>4. ASSUME NEW d \in Connections, Request(d) PROVE Kept
  <2>1. CASE d # c
    BY <1>0, <1>1, <1>4, <2>1 DEF Request
  <2>2. CASE d = c
    <3>1. todo'[c] \in Requests /\ conns'[c] = "busy"
      BY <1>0, <1>4, <2>2 DEF Request
    <3>2. QED
      BY <3>1, HandlersAnswerAtTheEnd, RequestsAreHandled
  <2>3. QED
    BY <2>1, <2>2
<1>5. ASSUME NEW d \in Connections, Accept(d) \/ Close(d) \/ ReadBody(d) PROVE Kept
  <2>1. CASE ReadBody(d)
    BY <1>0, <1>2, <2>1, TakenSteps
  <2>2. CASE Accept(d) \/ Close(d)
    BY <1>0, <1>1, <2>2 DEF Accept, Close, work
  <2>3. QED
    BY <1>5, <2>1, <2>2
<1>6. ASSUME NEW g \in Goroutines, Enter(g) \/ Leave(g) \/ Send(g) PROVE Kept
  <2>1. CASE Enter(g)
    BY <1>1, <2>1 DEF Enter, server
  <2>2. CASE Leave(g) \/ Send(g)
    BY <1>0, <1>2, <2>2, TakenSteps
  <2>3. QED
    BY <1>6, <2>1, <2>2
<1>7. ASSUME MainSide \/ TickerFires \/ SelectStop \/ SelectTick \/ UNCHANGED vars PROVE Kept
  <2>1. todo'[c] = todo[c] /\ UNCHANGED conns
    BY <1>0, <1>7, MainSideStep DEF TickerFires, SelectStop, SelectTick, vars, work, server
  <2>2. QED
    BY <1>1, <2>1
<1>8. QED
  BY <1>3, <1>4, <1>5, <1>6, <1>7 DEF Next, MainSide, RunsOn, SchedulerRuns

\* Shutdown closes the listener, waits for the connections, and no new one comes.
LEMMA DrainStep == IInv /\ [Next]_vars => Draining'
<1> SUFFICES ASSUME IInv, [Next]_vars PROVE Draining'
  OBVIOUS
<1>0. Draining /\ conns \in [Connections -> {"closed", "idle", "busy"}]
  BY DEF IInv, TypeOK
<1>1. ASSUME MainSide PROVE Draining'
  <2>1. UNCHANGED conns
    BY <1>1, MainSideStep
  <2>2. QED
    BY <1>0, <1>1, <2>1
       DEF Draining, ShuttingDown, ServerStopped, MainSide, MainRuns, Load, SeedData, Start, GoListen, Notify, ReceiveSignal,
           Shutdown, ShutdownReturns, Stop, StopReturns, MainGoes, End, Signal, TimeOut,
           ListenerRuns, ListenAndServe, Listen, Serve, ListenerGoes, ServeFails, Run,
           server
<1>2. ASSUME NEW c \in Connections, Accept(c) \/ Close(c) \/ Request(c) \/ WriteAnswer(c)
      PROVE  Draining'
  <2>1. UNCHANGED <<main, late, listener>>
    BY <1>2 DEF Accept, Close, Request, WriteAnswer
  <2>2. \A d \in Connections \ {c} : conns'[d] = conns[d]
    BY <1>0, <1>2 DEF Accept, Close, Request, WriteAnswer
  <2>3. ServerStopped => conns'[c] = "closed"
    BY <1>0, <1>2 DEF Accept, Close, Request, WriteAnswer, Draining, ShuttingDown, ServerStopped
  <2>4. QED
    BY <1>0, <2>1, <2>2, <2>3 DEF Draining, ShuttingDown, ServerStopped
<1>3. ASSUME UNCHANGED <<main, late, listener, conns>> PROVE Draining'
  BY <1>0, <1>3 DEF Draining, ShuttingDown, ServerStopped
<1>4. ASSUME NEW g, ReadBody(g) \/ Enter(g) \/ Leave(g) \/ Send(g)
      PROVE  UNCHANGED <<main, late, listener, conns>>
  BY <1>4 DEF ReadBody, Enter, Leave, Send, server
<1>5. ASSUME TickerFires \/ SelectTick \/ SelectStop \/ UNCHANGED vars
      PROVE  UNCHANGED <<main, late, listener, conns>>
  BY <1>5 DEF TickerFires, SelectTick, SelectStop, vars, server
<1>6. QED
  BY <1>1, <1>2, <1>3, <1>4, <1>5 DEF Next, MainSide, RunsOn, SchedulerRuns

\* The scheduler has work to do only while it runs its loop; once it has left the
\* loop it stays away.
LEMMA TickStep == IInv /\ [Next]_vars => Ticking'
<1> SUFFICES ASSUME IInv, [Next]_vars PROVE Ticking'
  OBVIOUS
<1>0. /\ Ticking /\ Configured /\ TheHolderIsInside /\ Scheduler \notin Connections
      /\ todo \in [Goroutines -> Seq(Steps)] /\ Scheduler \in Goroutines
  BY DEF IInv, TypeOK, Steps, Goroutines
<1>1. ASSUME MainSide PROVE Ticking'
  <2>1. UNCHANGED todo
    BY <1>1, MainSideStep
  <2>2. main # "exited"
    BY <1>1
       DEF Running, Ends, MainSide, MainRuns, Load, SeedData, Start, GoListen, Notify, ReceiveSignal,
           Shutdown, ShutdownReturns, Stop, StopReturns, MainGoes, End, Signal, TimeOut,
           ListenerRuns, ListenAndServe, Listen, Serve, ListenerGoes, ServeFails, Run
  <2>3. \/ UNCHANGED sched
        \/ sched = "off" /\ sched' = "started" /\ main' = "serve"
        \/ sched = "started" /\ sched' = "select" /\ UNCHANGED main
    BY <1>0, <1>1
       DEF Configured, beat, MainSide, MainRuns, Load, SeedData, Start, GoListen, Notify, ReceiveSignal,
           Shutdown, ShutdownReturns, Stop, StopReturns, MainGoes, End, Signal, TimeOut,
           ListenerRuns, ListenAndServe, Listen, Serve, ListenerGoes, ServeFails, Run
  <2>4. main' = "exited" => sched = "done"
    BY <1>1, <2>2
       DEF MainSide, MainRuns, Load, SeedData, Start, GoListen, Notify, ReceiveSignal,
           Shutdown, ShutdownReturns, Stop, StopReturns, MainGoes, End, Signal, TimeOut,
           ListenerRuns, ListenAndServe, Listen, Serve, ListenerGoes, ServeFails, Run
  <2>5. QED
    BY <1>0, <2>1, <2>2, <2>3, <2>4 DEF Ticking
<1>2. ASSUME UNCHANGED <<main, sched>>, todo'[Scheduler] = todo[Scheduler] PROVE Ticking'
  BY <1>0, <1>2 DEF Ticking
<1>3. ASSUME NEW g \in Goroutines, NEW kinds, TakesStep(g, kinds) PROVE Ticking'
  BY <1>0, <1>2, <1>3 DEF TakesStep, Ticking, beat
<1>4. ASSUME NEW c \in Connections, ReadBody(c) \/ WriteAnswer(c) PROVE Ticking'
  BY <1>3, <1>4, TakenSteps DEF Goroutines
<1>5. ASSUME NEW g \in Goroutines, Leave(g) \/ Send(g) PROVE Ticking'
  BY <1>0, <1>3, <1>5, TakenSteps
<1>6. ASSUME NEW c \in Connections, Request(c) PROVE Ticking'
  BY <1>0, <1>2, <1>6 DEF Request, beat
<1>7. ASSUME NEW g, Enter(g) \/ Accept(g) \/ Close(g) PROVE Ticking'
  BY <1>2, <1>7 DEF Enter, Accept, Close, beat, work
<1>8. ASSUME SelectTick \/ SelectStop \/ TickerFires PROVE Ticking'
  BY <1>0, <1>8 DEF SelectTick, SelectStop, TickerFires, Selecting, Running, Ends, Ticking, work
<1>9. ASSUME UNCHANGED vars PROVE Ticking'
  BY <1>2, <1>9 DEF vars, beat, work
<1>10. QED
  BY <1>1, <1>4, <1>5, <1>6, <1>7, <1>8, <1>9 DEF Next, MainSide, RunsOn, SchedulerRuns

\* The configuration is read once, before the scheduler starts.
LEMMA ConfiguredStep == IInv /\ [Next]_vars => Configured'
<1> SUFFICES ASSUME IInv, [Next]_vars PROVE Configured'
  OBVIOUS
<1>0. Configured /\ TypeOK /\ Ticking
  BY DEF IInv
<1>1. ASSUME MainSide PROVE Configured'
  <2>1. UNCHANGED file
    BY <1>1, MainSideStep
  <2>2. main' \in {"load", "seed", "start"} => sched' = "off"
    BY <1>0, <1>1
       DEF Configured, Running, Ends, beat, MainSide, MainRuns, Load, SeedData, Start, GoListen, Notify, ReceiveSignal,
           Shutdown, ShutdownReturns, Stop, StopReturns, MainGoes, End, Signal, TimeOut,
           ListenerRuns, ListenAndServe, Listen, Serve, ListenerGoes, ServeFails, Run
  <2>3. main' \notin {"load", "killed"} => config' = LoadConfig(file)
    <3>1. CASE Load
      BY <3>1 DEF Load
    <3>2. CASE ~Load
      <4>1. UNCHANGED config
        BY <1>1, <3>2
           DEF setup, MainSide, MainRuns, SeedData, Start, GoListen, Notify, ReceiveSignal,
               Shutdown, ShutdownReturns, Stop, StopReturns, End, Signal, TimeOut,
               ListenerRuns, ListenAndServe, Listen, Serve, ListenerGoes, ServeFails, Run
      <4>2. main' \notin {"load", "killed"} => main \notin {"load", "killed"}
        BY <1>0, <1>1, <3>2
           DEF Configured, Running, Ends, MainSide, MainRuns, SeedData, Start, GoListen, Notify, ReceiveSignal,
             Shutdown, ShutdownReturns, Stop, StopReturns, MainGoes, End, Signal, TimeOut,
             ListenerRuns, ListenAndServe, Listen, Serve, ListenerGoes, ServeFails, Run
      <4>3. QED
        BY <1>0, <4>1, <4>2 DEF Configured
    <3>3. QED
      BY <3>1, <3>2
  <2>4. main' = "panicked" => Duration(config'.interval) <= 0
    BY <1>0, <1>1
       DEF Configured, Running, Ends, setup, MainSide, MainRuns, Load, SeedData, Start, GoListen, Notify, ReceiveSignal,
           Shutdown, ShutdownReturns, Stop, StopReturns, MainGoes, End, Signal, TimeOut,
           ListenerRuns, ListenAndServe, Listen, Serve, ListenerGoes, ServeFails, Run
  <2>5. main' \in {"load", "seed", "start", "serve"} => listener' = "off"
    BY <1>0, <1>1
       DEF Configured, Running, Ends, server, MainSide, MainRuns, Load, SeedData, Start, GoListen, Notify, ReceiveSignal,
           Shutdown, ShutdownReturns, Stop, StopReturns, MainGoes, End, Signal, TimeOut,
           ListenerRuns, ListenAndServe, Listen, Serve, ListenerGoes, ServeFails, Run
  <2>6. QED
    BY <2>1, <2>2, <2>3, <2>4, <2>5 DEF Configured
<1>2. ASSUME UNCHANGED <<setup, main, listener>>, UNCHANGED sched \/ sched # "off" PROVE Configured'
  BY <1>0, <1>2 DEF Configured, setup
<1>3. ASSUME NEW g, \/ Accept(g) \/ Close(g) \/ Request(g) \/ ReadBody(g) \/ WriteAnswer(g)
                    \/ Enter(g) \/ Leave(g) \/ Send(g)
      PROVE  Configured'
  BY <1>2, <1>3
     DEF Accept, Close, Request, ReadBody, WriteAnswer, Enter, Leave, Send, beat, server
<1>4. ASSUME SelectTick \/ SelectStop \/ TickerFires \/ UNCHANGED vars PROVE Configured'
  BY <1>2, <1>4 DEF SelectTick, SelectStop, TickerFires, Selecting, vars, beat, server
<1>5. QED
  BY <1>1, <1>3, <1>4 DEF Next, MainSide, RunsOn, SchedulerRuns

\* The steps of main, the listener, the connections and the scheduler keep what
\* connects them: who may hold the lock, what may still be running at each step of
\* the shutdown, and where the configuration comes from (main, Scheduler.Stop).
THEOREM Invariant == Spec => []IInv
<1>1. IInv /\ [Next]_vars => IInv'
  BY TypeStep, HolderStep, BusyStep, DrainStep, TickStep, ConfiguredStep DEF IInv
<1>2. QED
  BY <1>1, InvInit, PTL DEF Spec

------------------------------------------------------------------------------
(* What follows *)

\* Every variable has its type; the server never gets the port 0 (loadConfig).
THEOREM TypeCorrect == Spec => []TypeOK
<1>1. IInv => TypeOK
  BY DEF IInv
<1>2. QED
  BY <1>1, Invariant, PTL

\* The process does not exit by itself before the scheduler has left its loop, with
\* no tick half done (Scheduler.Stop).
THEOREM TheSchedulerIsDrained == Spec => []StopDrains
<1>1. IInv => StopDrains
  BY DEF IInv, Ticking, StopDrains
<1>2. QED
  BY <1>1, Invariant, PTL

\* A handler is cut off only by the ten seconds of the shutdown (main).
THEOREM TheOthersAreServed == Spec => []OnlyTheLateAreCutOff
<1>1. IInv => OnlyTheLateAreCutOff
  BY DEF IInv, Draining, OnlyTheBusyWork, OnlyTheLateAreCutOff
<1>2. QED
  BY <1>1, Invariant, PTL

\* Arithmetic of machine integers: what fits does not wrap.
LEMMA WrapFits == \A n \in Ints : Wrap(n) = n
<1> SUFFICES ASSUME NEW n \in Ints
             PROVE  Wrap(n) = n
  OBVIOUS
<1> DEFINE m == n + IntMax + 1
           w == 2 * (IntMax + 1)
<1>1. m \in Int /\ w \in Int /\ 0 <= m /\ m < w
  BY DEF Ints
<1> HIDE DEF m, w
<1>2. m % w = m
  BY <1>1
<1>3. QED
  BY <1>2 DEF Wrap, m, w, Ints

LEMMA PositiveDuration ==
  ASSUME NEW n \in Int, n > 0, n * Second <= IntMax
  PROVE  Duration(n) > 0
<1>1. n * Second \in Int /\ n * Second > 0
  OBVIOUS
<1>2. n * Second \in Ints
  BY <1>1 DEF Ints
<1>3. QED
  BY <1>1, <1>2, WrapFits DEF Duration

\* The process panics only over a file that names an interval that is not positive, or
\* so long that its nanoseconds do not fit an int (loadConfig, main, Scheduler.run).
THEOREM PanicsAreConfigured == Spec => []OnlyABadIntervalPanics
<1>1. ASSUME IInv, main = "panicked"
      PROVE  /\ file.kind = "good" /\ file.interval \in Ints
             /\ file.interval <= 0 \/ file.interval * Second > IntMax
  <2>1. config = LoadConfig(file) /\ Duration(config.interval) <= 0
    BY <1>1 DEF IInv, Configured
  <2>2. file \in Files
    BY <1>1 DEF IInv, TypeOK
  <2>3. \/ LoadConfig(file).interval = DefaultInterval
        \/ file.kind = "good" /\ file.interval # Unset /\ LoadConfig(file).interval = file.interval
    BY <2>2 DEF LoadConfig, Default, Unmarshalled, Given
  <2>4. ~(Duration(DefaultInterval) <= 0)
    <3>1. Duration(DefaultInterval) > 0
      BY PositiveDuration
    <3>2. Duration(DefaultInterval) \in Int
      BY DEF Duration, Wrap
    <3>3. QED
      BY <3>1, <3>2
  <2>5. /\ file.kind = "good" /\ file.interval # Unset
        /\ Duration(file.interval) <= 0
    BY <2>1, <2>3, <2>4
  <2>6. file.interval \in Ints
    BY <2>2, <2>5
  <2>7. ASSUME file.interval > 0, file.interval * Second <= IntMax
        PROVE  FALSE
    <3>1. file.interval \in Int
      BY <2>6 DEF Ints
    <3>2. Duration(file.interval) > 0 /\ Duration(file.interval) \in Int
      BY <2>7, <3>1, PositiveDuration DEF Duration, Wrap
    <3>3. QED
      BY <2>5, <3>2
  <2>8. file.interval \in Int /\ file.interval * Second \in Int
    BY <2>6 DEF Ints
  <2>9. QED
    BY <2>5, <2>6, <2>7, <2>8
<1>2. IInv => OnlyABadIntervalPanics
  BY <1>1 DEF OnlyABadIntervalPanics
<1>3. QED
  BY <1>2, Invariant, PTL

\* No request begins once Shutdown has returned, however late the listener got to
\* its port and whichever connections were opened meanwhile (main).
THEOREM NothingBegins == Spec => NothingBeginsAfterTheStop
<1>1. ASSUME IInv, [Next]_vars, NEW c \in Connections, ServerStopped, todo[c] = << >>
      PROVE  todo'[c] = << >>
  <2>1. /\ TheHolderIsInside /\ conns[c] # "idle" /\ todo \in [Goroutines -> Seq(Steps)]
        /\ c # Scheduler /\ c \in Goroutines
    BY <1>1 DEF IInv, Draining, TypeOK, Steps, Goroutines
  <2>2. ASSUME NEW g \in Goroutines, NEW kinds, TakesStep(g, kinds) PROVE g # c /\ todo'[c] = << >>
    BY <1>1, <2>1, <2>2 DEF TakesStep
  <2>3. ASSUME NEW d \in Connections, Request(d) PROVE todo'[c] = << >>
    <3>1. \A x \in Connections : conns[x] # "idle"
      BY <1>1 DEF IInv, Draining
    <3>2. QED
      BY <2>3, <3>1 DEF Request
  <2>4. ASSUME NEW d \in Connections, ReadBody(d) \/ WriteAnswer(d) PROVE todo'[c] = << >>
    BY <2>2, <2>4, TakenSteps DEF Goroutines
  <2>5. ASSUME NEW g \in Goroutines, Leave(g) \/ Send(g) PROVE todo'[c] = << >>
    BY <2>1, <2>2, <2>5, TakenSteps
  <2>6. ASSUME SelectTick PROVE todo'[c] = << >>
    BY <1>1, <2>1, <2>6 DEF SelectTick
  <2>7. ASSUME MainSide \/ TickerFires \/ SelectStop \/ UNCHANGED vars PROVE UNCHANGED todo
    BY <2>7, MainSideStep DEF TickerFires, SelectStop, vars, work
  <2>8. ASSUME NEW g, Enter(g) \/ Accept(g) \/ Close(g) PROVE UNCHANGED todo
    BY <2>8 DEF Enter, Accept, Close, work
  <2>9. QED
    BY <1>1, <2>3, <2>4, <2>5, <2>6, <2>7, <2>8 DEF Next, MainSide, RunsOn, SchedulerRuns
<1>2. IInv /\ [Next]_vars =>
        \A c \in Connections : ServerStopped /\ todo[c] = << >> => todo'[c] = << >>
  BY <1>1
<1>3. QED
  BY <1>2, Invariant, PTL DEF Spec, NothingBeginsAfterTheStop

==============================================================================
