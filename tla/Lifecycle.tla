------------------------------ MODULE Lifecycle ------------------------------
(***************************************************************************)
(* The life of the process: the goroutine of main, the one that listens,   *)
(* the scheduler's, and one per connection of net/http, from the           *)
(* configuration file to the exit.  What handlers and ticks do is reduced  *)
(* to the steps that can be interrupted: a critical section of the store,  *)
(* a message, the exchange with the client.                                *)
(***************************************************************************)
EXTENDS Integers, Sequences

CONSTANTS
  Connections,      \* what net/http serves at once
  Scheduler,        \* the scheduler's goroutine
  Nobody,           \* no goroutine
  Files,            \* what config.json may hold: a finite set bounds a model
  Busy,             \* ports that net.Listen refuses
  Unset,            \* a field that the file does not have
  DefaultPort, DefaultInterval,
  Second,           \* the nanoseconds of a second
  IntMax,           \* the largest int, and the longest time.Duration
  Requests          \* bound: which of the handlers' programs the clients call for

Ints == (-IntMax - 1)..IntMax

\* A number that is no int makes a file mistyped.
ASSUME LifecycleAssumption ==
  /\ IntMax \in Nat /\ Second \in Nat \ {0}
  /\ Scheduler \notin Connections /\ Nobody \notin Connections \cup {Scheduler}
  /\ Unset \notin Int
  /\ Files \subseteq [kind     : {"absent", "malformed", "mistyped", "good"},
                      port     : Ints \cup {Unset},
                      interval : Ints \cup {Unset}]
  /\ DefaultPort \in Ints \ {0}
  /\ DefaultInterval \in Nat \ {0} /\ DefaultInterval * Second <= IntMax

VARIABLES
  file,      \* config.json
  config,    \* cfg, in main
  main,      \* the next step of main, or how the process has ended
  quit,      \* is a signal in the channel of one?
  late,      \* have the ten seconds of the shutdown passed?
  listener,  \* the state of the goroutine that listens
  conns,     \* is a connection open, and is a request on it being served?
  sched,     \* the state of the scheduler's goroutine
  ticked,    \* is a tick in the ticker's channel of one?
  mutex,     \* who holds Store.mu
  todo       \* the steps each goroutine has still to do

setup == <<file, config>>
server == <<listener, conns>>
beat == <<sched, ticked>>
work == <<mutex, todo>>
vars == <<setup, main, quit, late, server, beat, work>>

------------------------------------------------------------------------------
(* Data *)

Goroutines == Connections \cup {Scheduler}

Ends == {"exited", "killed", "panicked", "fatal"}
Running == main \notin Ends

\* Shutdown has been called; it has returned; Stop has closed stopCh.
ShuttingDown == main \in {"drain", "stop", "join", "exited"}
ServerStopped == main \in {"stop", "join", "exited"}
Stopping == main \in {"join", "exited"}

\* What the handlers do: read the body, enter the store, send a message, answer.
Handlers ==
  {<<"write">>,                               \* handleHealth
   <<"read", "write">>,                       \* a malformed body
   <<"store", "write">>,                      \* lists, and steps without a body
   <<"store", "store", "write">>,             \* handleListWorkOrders
   <<"read", "store", "write">>,
   <<"read", "store", "store", "write">>,     \* handleReportAlarm
   <<"read", "store", "send", "write">>,      \* handleConsumePart
   <<"store", "send", "send", "write">>}      \* handleTransferOrder

ASSUME RequestsAreHandled == Requests \subseteq Handlers

\* Scheduler.tick: list and transfer the overdue orders, list and order the short
\* parts, list the late dispatches.  At most one order and one part is followed.
Ticks ==
  {<<"store">> \o part[1] \o <<"store">> \o part[2] \o <<"store">> :
     part \in {<< >>, <<"store">>, <<"store", "send", "send">>}
                \X {<< >>, <<"store">>, <<"store", "send">>}}

\* What does not fit an int wraps around.
Wrap(n) == ((n + IntMax + 1) % (2 * (IntMax + 1))) - (IntMax + 1)

\* A number of seconds as a time.Duration.
Duration(n) == Wrap(n * Second)

Default == [port |-> DefaultPort, interval |-> DefaultInterval]

Given(value, default) == IF value = Unset THEN default ELSE value

\* The fields that json.Unmarshal finds replace the defaults.
Unmarshalled(f) ==
  [port |-> Given(f.port, DefaultPort), interval |-> Given(f.interval, DefaultInterval)]

\* loadConfig.  A port of 0 is no port; the interval is taken as it is.
LoadConfig_KeepsZeroPort(f) ==
  IF f.kind # "good" THEN Default ELSE Unmarshalled(f)
LoadConfig_KeepsMistyped(f) ==
  LET c == IF f.kind \in {"absent", "malformed"} THEN Default ELSE Unmarshalled(f)
  IN [c EXCEPT !.port = IF @ = 0 THEN DefaultPort ELSE @]
LoadConfig(f) ==
  LET c == IF f.kind # "good" THEN Default ELSE Unmarshalled(f)
  IN [c EXCEPT !.port = IF @ = 0 THEN DefaultPort ELSE @]

------------------------------------------------------------------------------
(* main *)

\* The process ends, and all its goroutines with it.
End(how) ==
  /\ main' = how
  /\ UNCHANGED <<setup, quit, late, server, beat, work>>

MainGoes(from, to) ==
  /\ main = from /\ main' = to

Load ==
  /\ MainGoes("load", "seed")
  /\ config' = LoadConfig(file)
  /\ UNCHANGED <<file, quit, late, server, beat, work>>

\* No other goroutine is there yet to see the store half filled.
SeedData ==
  /\ MainGoes("seed", "start")
  /\ UNCHANGED <<setup, quit, late, server, beat, work>>

Start ==
  /\ MainGoes("start", "serve")
  /\ sched' = "started"
  /\ UNCHANGED <<setup, quit, late, server, ticked, work>>

GoListen ==
  /\ MainGoes("serve", "notify")
  /\ listener' = "started"
  /\ UNCHANGED <<setup, quit, late, conns, beat, work>>

Notify ==
  /\ MainGoes("notify", "wait")
  /\ UNCHANGED <<setup, quit, late, server, beat, work>>

\* SIGINT or SIGTERM ends the process until main has asked for it; from then on it
\* is put into the channel, if there is room.
Signal ==
  \/ main \in {"load", "seed", "start", "serve", "notify"} /\ End("killed")
  \/ /\ main \in {"wait", "shutdown", "drain", "stop", "join"}
     /\ quit' = TRUE
     /\ UNCHANGED <<setup, main, late, server, beat, work>>

ReceiveSignal ==
  /\ MainGoes("wait", "shutdown")
  /\ quit
  /\ quit' = FALSE
  /\ UNCHANGED <<setup, late, server, beat, work>>

\* Server.Shutdown begins with the listener.
Shutdown ==
  /\ MainGoes("shutdown", "drain")
  /\ listener' = IF listener = "accepting" THEN "closed" ELSE listener
  /\ UNCHANGED <<setup, quit, late, conns, beat, work>>

TimeOut_Never == FALSE /\ UNCHANGED vars
TimeOut ==
  /\ main = "drain" /\ ~late
  /\ late' = TRUE
  /\ UNCHANGED <<setup, main, quit, server, beat, work>>

\* It goes on to close connections as they become idle, until there is none or
\* the context is done.
ShutdownReturns_AtOnce ==
  /\ MainGoes("drain", "stop")
  /\ UNCHANGED <<setup, quit, late, server, beat, work>>
ShutdownReturns ==
  /\ MainGoes("drain", "stop")
  /\ \A c \in Connections : conns[c] # "idle"
  /\ late \/ \A c \in Connections : conns[c] = "closed"
  /\ UNCHANGED <<setup, quit, late, server, beat, work>>

\* The deferred Scheduler.Stop closes stopCh, and waits for done.
Stop ==
  /\ MainGoes("stop", "join")
  /\ UNCHANGED <<setup, quit, late, server, beat, work>>

StopReturns_WithoutWaiting == main = "join" /\ End("exited")
StopReturns == main = "join" /\ sched = "done" /\ End("exited")

------------------------------------------------------------------------------
(* The listener *)

ListenerGoes(from, to) ==
  /\ Running
  /\ listener = from /\ listener' = to
  /\ UNCHANGED <<setup, main, quit, late, conns, beat, work>>

\* ListenAndServe asks twice whether Shutdown has been called.
ListenAndServe == ListenerGoes("started", IF ShuttingDown THEN "closed" ELSE "opening")

Listen ==
  IF config.port \in Busy
  THEN Running /\ listener = "opening" /\ End("fatal")
  ELSE ListenerGoes("opening", "bound")

Serve_Regardless == ListenerGoes("bound", "accepting")
Serve == ListenerGoes("bound", IF ShuttingDown THEN "closed" ELSE "accepting")

\* log.Fatalf runs no deferred call.
ServeFails == Running /\ listener = "accepting" /\ End("fatal")

------------------------------------------------------------------------------
(* The connections *)

Accept(c) ==
  /\ Running /\ listener = "accepting"
  /\ conns[c] = "closed"
  /\ conns' = [conns EXCEPT ![c] = "idle"]
  /\ UNCHANGED <<setup, main, quit, late, listener, beat, work>>

\* The client, the idle timeout or Shutdown closes it.
Close(c) ==
  /\ Running /\ conns[c] = "idle"
  /\ conns' = [conns EXCEPT ![c] = "closed"]
  /\ UNCHANGED <<setup, main, quit, late, listener, beat, work>>

Request(c) ==
  /\ Running /\ conns[c] = "idle"
  /\ conns' = [conns EXCEPT ![c] = "busy"]
  /\ \E steps \in Requests : todo' = [todo EXCEPT ![c] = steps]
  /\ UNCHANGED <<setup, main, quit, late, listener, beat, mutex>>

\* What g does next.
Ahead(g, step) == todo[g] # << >> /\ Head(todo[g]) = step

ReadBody(c) ==
  /\ Running /\ Ahead(c, "read")
  /\ todo' = [todo EXCEPT ![c] = Tail(@)]
  /\ UNCHANGED <<setup, main, quit, late, server, beat, mutex>>

\* A connection outlives its request, but not the shutdown.
WriteAnswer(c) ==
  /\ Running /\ Ahead(c, "write")
  /\ todo' = [todo EXCEPT ![c] = Tail(@)]
  /\ conns' = [conns EXCEPT ![c] = IF ShuttingDown THEN "closed" ELSE "idle"]
  /\ UNCHANGED <<setup, main, quit, late, listener, beat, mutex>>

------------------------------------------------------------------------------
(* What handlers and scheduler do alike *)

Enter(g) ==
  /\ Running /\ Ahead(g, "store")
  /\ mutex = Nobody
  /\ mutex' = g
  /\ UNCHANGED <<setup, main, quit, late, server, beat, todo>>

Leave_AfterTheAnswer(g) ==
  /\ Running /\ mutex = g
  /\ \/ /\ Ahead(g, "store")
        /\ todo' = [todo EXCEPT ![g] = Tail(@)]
        /\ mutex' = IF g \in Connections /\ Len(todo[g]) = 2 THEN g ELSE Nobody
     \/ todo[g] = << >> /\ mutex' = Nobody /\ UNCHANGED todo
  /\ UNCHANGED <<setup, main, quit, late, server, beat>>
Leave(g) ==
  /\ Running /\ mutex = g
  /\ mutex' = Nobody
  /\ todo' = [todo EXCEPT ![g] = Tail(@)]
  /\ UNCHANGED <<setup, main, quit, late, server, beat>>

\* SMSNotifier.Send has a lock of its own, and waits for nothing else.
Send(g) ==
  /\ Running /\ Ahead(g, "send")
  /\ todo' = [todo EXCEPT ![g] = Tail(@)]
  /\ UNCHANGED <<setup, main, quit, late, server, beat, mutex>>

------------------------------------------------------------------------------
(* The scheduler *)

\* NewTicker panics on a duration that is not positive, and with it the process.
Run ==
  /\ Running /\ sched = "started"
  /\ IF Duration(config.interval) <= 0 THEN End("panicked")
     ELSE /\ sched' = "select"
          /\ UNCHANGED <<setup, main, quit, late, server, ticked, work>>

\* A tick that finds the channel full is dropped.
TickerFires ==
  /\ Running /\ sched = "select" /\ ~ticked
  /\ ticked' = TRUE
  /\ UNCHANGED <<setup, main, quit, late, server, sched, work>>

Selecting == Running /\ sched = "select" /\ todo[Scheduler] = << >>

SelectTick ==
  /\ Selecting /\ ticked
  /\ ticked' = FALSE
  /\ \E steps \in Ticks : todo' = [todo EXCEPT ![Scheduler] = steps]
  /\ UNCHANGED <<setup, main, quit, late, server, sched, mutex>>

\* Stop and the tick may both be ready: select takes either.
SelectStop ==
  /\ Selecting /\ Stopping
  /\ sched' = "done"
  /\ UNCHANGED <<setup, main, quit, late, server, ticked, work>>

------------------------------------------------------------------------------
Init ==
  /\ file \in Files
  /\ config = Default
  /\ main = "load"
  /\ quit = FALSE /\ late = FALSE
  /\ listener = "off"
  /\ conns = [c \in Connections |-> "closed"]
  /\ sched = "off" /\ ticked = FALSE
  /\ mutex = Nobody
  /\ todo = [g \in Goroutines |-> << >>]

MainRuns ==
  \/ Load \/ SeedData \/ Start \/ GoListen \/ Notify
  \/ ReceiveSignal \/ Shutdown \/ ShutdownReturns \/ Stop \/ StopReturns

ListenerRuns == ListenAndServe \/ Listen \/ Serve

RunsOn(g) == Leave(g) \/ Send(g)

SchedulerRuns == Run \/ SelectTick

Next ==
  \/ MainRuns \/ Signal \/ TimeOut
  \/ ListenerRuns \/ ServeFails
  \/ \E c \in Connections :
       Accept(c) \/ Close(c) \/ Request(c) \/ ReadBody(c) \/ WriteAnswer(c)
  \/ \E g \in Goroutines : Enter(g) \/ RunsOn(g)
  \/ SchedulerRuns \/ TickerFires \/ SelectStop

\* Goroutines run on, and so do the clocks.  sync.RWMutex starves no waiter and
\* select picks at random, so what is possible again and again happens.  Nothing
\* is asked of clients, who may take for ever to send a body or take an answer.
Fairness ==
  /\ WF_vars(MainRuns) /\ WF_vars(TimeOut)
  /\ WF_vars(ListenerRuns)
  /\ \A c \in Connections : WF_vars(ShuttingDown /\ Close(c))
  /\ \A g \in Goroutines : SF_vars(Enter(g)) /\ WF_vars(RunsOn(g))
  /\ WF_vars(SchedulerRuns) /\ WF_vars(TickerFires) /\ SF_vars(SelectStop)

Spec == Init /\ [][Next]_vars /\ Fairness

------------------------------------------------------------------------------
(* Properties *)

\* Every variable has its type; the server never gets the port 0.
TypeOK ==
  /\ file \in Files
  /\ config \in [port : Ints \ {0}, interval : Ints]
  /\ main \in {"load", "seed", "start", "serve", "notify", "wait", "shutdown", "drain",
               "stop", "join"} \cup Ends
  /\ quit \in BOOLEAN /\ late \in BOOLEAN
  /\ listener \in {"off", "started", "opening", "bound", "accepting", "closed"}
  /\ conns \in [Connections -> {"closed", "idle", "busy"}]
  /\ sched \in {"off", "started", "select", "done"} /\ ticked \in BOOLEAN
  /\ mutex \in Goroutines \cup {Nobody}
  /\ todo \in [Goroutines -> Seq({"read", "store", "send", "write"})]

\* "Stop signals the scheduler to stop and waits for it to drain": the process does
\* not exit between a transfer and its messages, or anywhere else within a tick,
\* and no tick begins after it (Scheduler.Stop).
StopDrains == main = "exited" => sched = "done" /\ todo[Scheduler] = << >>

\* A handler is cut off only by the ten seconds: a change of the store that a client
\* asked for in time is announced and answered before the process exits (main).
OnlyTheLateAreCutOff ==
  ServerStopped /\ ~late => \A c \in Connections : conns[c] = "closed" /\ todo[c] = << >>

\* A request never begins once the server has been stopped, although connections
\* and the listener may be opened while the shutdown is on its way (main).
NothingBeginsAfterTheStop ==
  [][\A c \in Connections : ServerStopped /\ todo[c] = << >> => todo'[c] = << >>]_vars

\* Only a file that is read, and names an interval that is not positive or has more
\* nanoseconds than an int can hold, makes the process panic (loadConfig, main,
\* Scheduler.run).  Not every such interval does: one can wrap to a short one.
OnlyABadIntervalPanics ==
  main = "panicked" =>
    /\ file.kind = "good" /\ file.interval \in Ints
    /\ file.interval <= 0 \/ file.interval * Second > IntMax

\* A signal that main has asked for ends the process, whatever the clients, the
\* ticks and the listener do meanwhile (main).
SignalEndsTheProcess == quit ~> ~Running

\* The scheduler comes back to its checks for as long as the process runs: no client
\* and no handler ever holds it up for good (Scheduler.run).
TicksGoOn ==
  /\ todo[Scheduler] # << >> ~> todo[Scheduler] = << >> \/ ~Running
  /\ sched = "select" ~> todo[Scheduler] # << >> \/ sched = "done" \/ ~Running

==============================================================================
