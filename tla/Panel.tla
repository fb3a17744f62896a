------------------------------- MODULE Panel -------------------------------
(***************************************************************************)
(* The panel: sensor_daemon and ui_app, connected, with every thread of    *)
(* both processes interleaved, signals to either, and the death of either  *)
(* at any moment.                                                          *)
(***************************************************************************)
EXTENDS Daemon, UiApp, Functions

CONSTANTS
  MaxFaults     \* bound: signals to and deaths of the two processes

ASSUME MaxFaultsAssumption == MaxFaults \in Nat

VARIABLES
  faults        \* signals and deaths so far

vars == <<ipcVars, daemonVars, uiVars, faults>>

Init ==
  /\ IpcInit
  /\ DaemonInit
  /\ UiInit
  /\ faults = 0

\* A step of one process leaves what is private to the other alone.
DaemonOnly == UNCHANGED <<uiVars, faults>>

UiOnly == UNCHANGED <<daemonVars, faults>>

Fault ==
  /\ faults < MaxFaults
  /\ faults' = faults + 1

\* One disjunct per thread, then what the environment does.
Next ==
  \/ \E w \in Loops : LoopStep(w) /\ DaemonOnly
  \/ Consumer /\ DaemonOnly
  \/ DaemonMain /\ DaemonOnly
  \/ Receiver /\ UiOnly
  \/ AlertReceiver /\ UiOnly
  \/ UiHandle /\ UiOnly
  \/ UiMain /\ UiOnly
  \/ MoveSlider /\ UiOnly
  \/ \E i \in Inputs : InputTest(i) /\ UiOnly
  \/ \E i \in Inputs : InputEvent(i) /\ UiOnly
  \/ \E i \in Inputs : InputFails(i) /\ UiOnly
  \/ DaemonSignal /\ Fault /\ UNCHANGED uiVars
  \/ DaemonDies /\ Fault /\ UNCHANGED uiVars
  \/ UiSignal /\ Fault /\ UNCHANGED daemonVars
  \/ UiDies /\ Fault /\ UNCHANGED daemonVars

Spec == Init /\ [][Next]_vars

\* The scheduler runs every thread that can take a step.  Nothing obliges the
\* environment: no signal, no death, no input event and no move of the slider has
\* to happen.  A waiter gets the semaphore, which is held for a memcpy and then free
\* while shm_sync sleeps a second; and every tick looks for news, however often the
\* slider is moved.
Fairness ==
  /\ \A w \in Loops : WF_vars(LoopStep(w) /\ DaemonOnly)
  /\ WF_vars(Consumer /\ DaemonOnly)
  /\ WF_vars(DaemonMain /\ DaemonOnly)
  /\ WF_vars(Receiver /\ UiOnly)
  /\ WF_vars(AlertReceiver /\ UiOnly)
  /\ WF_vars(UiHandle /\ UiOnly)
  /\ WF_vars(UiMain /\ UiOnly)
  /\ \A i \in Inputs : WF_vars(InputTest(i) /\ UiOnly)
  /\ \A w \in Helpers : SF_vars(SemWait(w) /\ DaemonOnly)
  /\ SF_vars(UiSemWait /\ UiOnly)
  /\ SF_vars(TickCopy /\ UiOnly)

FairSpec == Spec /\ Fairness

----------------------------------------------------------------------------
(* Safety. *)

\* Every variable has its type, and no queue exceeds its capacity.
TypeOK == IpcTypeOK /\ DaemonTypeOK /\ UiTypeOK /\ faults \in 0..MaxFaults

\* The UI's disconnection costs the daemon at most one event: the handler that
\* finds the connection broken returns early, without algorithm, row or
\* message, and no later handler does (on_ui_disconnected clears s_sock_fd).
DisconnectCostsOneEvent == Cardinality(cutShort) <= 1

\* The events the daemon owes its database: every reading taken, and the
\* comfort index of every dht11 reading it has stored.
Owed ==
  {e \in [kind : Sensors, n : 1..(MaxReadings + 1)] : e.n <= taken[e.kind]} \cup
  {e \in [kind : Kinds \cap {"comfort"}, n : 1..(MaxReadings + 1)] :
     e.n \in Range(rows["db"]["dht11"])}

\* Where an owed event may be: queued, in its handler, stored, or lost in one of
\* the three ways the code accepts: a full queue, a row SQLite refuses, and the
\* UI's disconnection.
Accounted(e) ==
  \/ e \in Range(bus)
  \/ step # "idle" /\ ev = e
  \/ e.n \in Range(rows["db"][e.kind])
  \/ e \in dropped \cup cutShort

\* Until the database is closed no event gets lost on its way to it in any
\* other way, whatever becomes of the UI meanwhile: the handlers log with and
\* without a UI, and the stop of the daemon waits for nothing but threads.
NoReadingLost == main \in {"loop", "join"} => \A e \in Owed : Accounted(e)

\* Once main() releases resources no sensor takes a reading any more: the
\* threads have been joined, so nothing new runs into a closed handle.
QuietTeardown ==
  [][(main \in Teardown \cup {"exited"}) => taken' = taken]_vars

LastOf(q) == IF q = <<>> THEN 0 ELSE q[Len(q)]

\* The comfort index on screen never stems from a later dht11 reading than the
\* temperature and humidity next to it, unless the UI's queue overflowed: the
\* frame precedes the algorithm, queues keep order, and tick() copies all kinds
\* at once.
ComfortNotAhead ==
  ~uiDropped /\ {"comfort", "dht11"} \subseteq Kinds =>
    LastOf(shown["comfort"]) <= LastOf(shown["dht11"])

\* The promise of module ReadingFlow: database, MQTT and screen receive each
\* kind in order, without duplicates, and never what was not measured.
Flow == INSTANCE ReadingFlow WITH
  SourceOf  <- [k \in Kinds |-> Source(k)],
  Outlets   <- Sinks \cup {"screen"},
  delivered <- [o \in Sinks \cup {"screen"} |->
                  IF o \in Sinks THEN rows[o] ELSE [k \in Kinds |-> shown[k]]]

FlowSpec == Flow!Spec

----------------------------------------------------------------------------
(* Liveness, of FairSpec. *)

\* A handler that has begun ends, even when nobody reads the alert queue and
\* the UI is stopping or gone (the alert queue does not block, and the UI's
\* receiver drains the socket as long as it lives).
HandlersEnd == (step # "idle") ~> (step = "idle")

\* When the UI is gone the daemon stops: the next frame it sends tells it, and every
\* thread it then joins ends - unless the UI died between sem_wait and sem_post, for
\* then shm_sync may wait for the semaphore, and main() for shm_sync, for ever.
UiGoneStopsDaemon == (uiEnd = "closed" /\ sem # "ui") ~> (main \in {"exited", "dead"})

\* When the daemon is gone the UI's main loop is told to end, and the process ends
\* if there is no alert thread, the input threads have ended, and the daemon did not
\* die between sem_wait and sem_post.
DaemonGoneStopsUi ==
  /\ (daemonEnd = "closed") ~> ~uiRunning \/ uiMain = "dead"
  /\ (daemonEnd = "closed" /\ uiMq = "none" /\ sem # "sync" /\
        \A i \in Inputs : input[i] = "done")
       ~> (uiMain \in {"exited", "dead"})

\* The n-th value of kind k is on its way to a UI that wants it.
Underway(k, n) ==
  \/ EventOf(k, n) \in Range(frames)
  \/ EventOf(k, n) \in Range(alerts) /\ uiMq = "open" /\ ~Muted

\* What is underway reaches the screen, itself or superseded by a later value of
\* its kind, unless the UI stops or its queue overflows: no dirty flag raised
\* while tick() renders is lost.
NewsReachesScreen ==
  \A k \in Kinds, n \in 1..(MaxReadings + 1) :
    Underway(k, n) ~> (LastOf(shown[k]) >= n \/ ~uiRunning \/ uiDropped \/ uiMain = "dead")

----------------------------------------------------------------------------
(* What documents and comments say of the program, and the code contradicts. *)

\* docs/cpp-migration.md: with pthread_cancel gone, threads leave together when
\* g_running falls.  The socket receiver does not look at g_running.
ReceiverObeysStop == ~uiRunning ~> (recv = "done")

\* ui_app.cpp, at ipc_mq_close: closing the queue unblocks mq_receive in the
\* alert thread.
CloseUnblocksAlerts == (uiMain = "joinAlert") ~> (alertThread = "done" \/ uiMain = "dead")

\* docs/DESIGN.md: the database needs no mutex, since the consumer thread alone
\* uses it.  main() closes it while a handler may be inside log_row.
DatabaseIsSerial == step = "inDb" => "db" \in up

============================================================================
