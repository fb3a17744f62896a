------------------------------- MODULE Daemon -------------------------------
(***************************************************************************)
(* sensor_daemon from the moment main() has started its threads until the  *)
(* process is gone.                                                        *)
(*                                                                         *)
(* Threads: main(), one thread per sensor, the shm_sync thread, and the    *)
(* consumer thread of embedmq, which runs the seven handlers of            *)
(* daemon_handlers.cpp one event at a time.  The consumer is not joined    *)
(* before main() releases the database, MQTT and the connection: it runs   *)
(* until embedmq_destroy, the last line of main().                         *)
(***************************************************************************)
EXTENDS Ipc

CONSTANTS
  Helpers,      \* the other thread main() joins: {"shm_sync"}, or {} to leave it out
  MaxReadings   \* bound: readings each sensor takes

ASSUME HelpersAssumption == Helpers \subseteq {"shm_sync"}

ASSUME MaxReadingsAssumption == MaxReadings \in Nat \ {0}

Loops == Sensors \cup Helpers     \* the threads main() joins

\* Threads that may go round without posting: sr501 posts changes only, and
\* the light sensor's I2C read may fail on the board.
MaySkip == {"sr501", "light"}

Sinks == {"db", "mqtt"}

\* What main() releases after the joins, in the order of the source.
Resources == {"db", "mqtt", "shm", "mq"}

Teardown == Resources \cup {"client", "bus"}

MainPc == {"loop", "join", "exited", "dead"} \cup Teardown

\* The consumer's place in a handler: about to do a thing, or inside a call
\* ("sending", "inDb", "inMqtt") that another thread can overtake.
Steps == {"idle", "send", "sending", "algo", "alert",
          "db", "inDb", "mqtt", "inMqtt"}

VARIABLES
  running,    \* g_running
  main,       \* main()'s place
  up,         \* the resources that are open
  loop,       \* the place of each joined thread: "test", "body", "done"
  taken,      \* readings each sensor has taken
  bus,        \* the embedmq queue
  ev,         \* the event the consumer handles, or handled last
  step,       \* its place in that event's handler
  sockFd,     \* s_sock_fd: "set", or "unset" for -1
  rows,       \* readings stored (db) and published (mqtt), per kind, oldest first
  dropped,    \* events a full queue or SQLite refused
  cutShort    \* events whose handler returned early, the UI being gone

daemonVars == <<running, main, up, loop, taken, bus, ev, step, sockFd, rows,
                dropped, cutShort>>

consumerVars == <<bus, ev, step, sockFd, rows, dropped, cutShort>>

DaemonEvent == [kind : Kinds, n : Nat]

DaemonTypeOK ==
  /\ running \in BOOLEAN
  /\ main \in MainPc
  /\ up \subseteq Resources
  /\ loop \in [Loops -> {"test", "body", "done"}]
  /\ taken \in [Sensors -> 0..(MaxReadings + 1)]
  /\ bus \in Seq(DaemonEvent) /\ Len(bus) <= DaemonQueue
  /\ step \in Steps
  /\ step # "idle" => ev \in DaemonEvent
  /\ sockFd \in {"set", "unset"}
  /\ rows \in [Sinks -> [Kinds -> Seq(Nat)]]
  /\ dropped \subseteq DaemonEvent
  /\ cutShort \subseteq DaemonEvent

NoEvent == [kind |-> "none", n |-> 0]

\* main() goes on without MQTT, alert queue and segment when they fail to open;
\* without the database it would have returned.
DaemonInit ==
  /\ running = TRUE
  /\ main = "loop"
  /\ up = {"db"} \cup (Opened \cap Resources)
  /\ loop = [w \in Loops |-> "test"]
  /\ taken = [s \in Sensors |-> 0]
  /\ bus = <<>>
  /\ ev = NoEvent
  /\ step = "idle"
  /\ sockFd = "set"
  /\ rows = [o \in Sinks |-> [k \in Kinds |-> <<>>]]
  /\ dropped = {}
  /\ cutShort = {}

----------------------------------------------------------------------------
(* The threads main() joins. *)

\* embedmq_post_id on the daemon's queue, its result ignored.
PostToBus(e) ==
  /\ bus' = Post(bus, e, DaemonQueue)
  /\ dropped' = IF Len(bus) < DaemonQueue THEN dropped ELSE dropped \cup {e}

\* while (g_running.load())
LoopTest(w) ==
  /\ loop[w] = "test"
  /\ loop' = [loop EXCEPT ![w] = IF running THEN "body" ELSE "done"]
  /\ UNCHANGED <<running, main, up, taken, consumerVars, ipcVars>>

\* The bound on readings.  A daemon whose UI is gone takes one more, so that
\* the bound does not hide how it learns of that: from its next send.
MayTake(s) ==
  \/ taken[s] < MaxReadings
  \/ taken[s] = MaxReadings /\ uiEnd = "closed" /\ bus = <<>> /\ step = "idle"

\* Read the sensor, post the event, sleep.
SensorPost(s) ==
  /\ loop[s] = "body"
  /\ MayTake(s)
  /\ loop' = [loop EXCEPT ![s] = "test"]
  /\ taken' = [taken EXCEPT ![s] = @ + 1]
  /\ PostToBus(EventOf(s, taken[s] + 1))
  /\ UNCHANGED <<running, main, up, ev, step, sockFd, rows, cutShort, ipcVars>>

\* A turn that posts nothing: an unchanged sr501, a failed light read, shm_sync
\* without a segment, or a sensor at the bound.
LoopSkip(w) ==
  /\ loop[w] = "body"
  /\ w \in Sensors \ MaySkip => ~MayTake(w)
  /\ w \in Helpers => "shm" \notin up
  /\ loop' = [loop EXCEPT ![w] = "test"]
  /\ UNCHANGED <<running, main, up, taken, consumerVars, ipcVars>>

\* shm_sync in ipc_shm_read_settings: it waits for the semaphore, for ever if the
\* UI has died between its own sem_wait and sem_post.
SemWait(w) ==
  /\ loop[w] = "body"
  /\ "shm" \in up
  /\ sem = "free"
  /\ sem' = "sync"
  /\ UNCHANGED <<running, main, up, loop, taken, consumerVars,
                 frames, alerts, daemonEnd, uiEnd>>

\* It has copied the settings; what they do to the detector is in Settings.
SemPost(w) ==
  /\ loop[w] = "body"
  /\ sem = "sync"
  /\ sem' = "free"
  /\ loop' = [loop EXCEPT ![w] = "test"]
  /\ UNCHANGED <<running, main, up, taken, consumerVars,
                 frames, alerts, daemonEnd, uiEnd>>

LoopStep(w) ==
  \/ LoopTest(w)
  \/ w \in Sensors /\ SensorPost(w)
  \/ LoopSkip(w)
  \/ w \in Helpers /\ (SemWait(w) \/ SemPost(w))

----------------------------------------------------------------------------
(* The consumer thread. *)

outside == <<running, main, up, loop, taken>>   \* what handlers leave alone

\* The event at the head of the queue enters its handler.
Dispatch ==
  /\ step = "idle"
  /\ bus # <<>>
  /\ ev' = Head(bus)
  /\ bus' = Tail(bus)
  /\ step' = IF Head(bus).kind = "anomaly" THEN "alert" ELSE "send"
  /\ UNCHANGED <<outside, sockFd, rows, dropped, cutShort, ipcVars>>

\* After the frame: two handlers run an algorithm, the others log.
AfterSend == IF ev.kind \in {"dht11", "adxl345"} THEN "algo" ELSE "db"

\* Fault-seeded variant: a handler that logs only while there is a UI.
SkipSendReturning ==
  /\ step = "send"
  /\ sockFd = "unset"
  /\ step' = "idle"
  /\ UNCHANGED <<outside, bus, ev, sockFd, rows, dropped, cutShort, ipcVars>>

\* s_sock_fd < 0: no UI to send to.
SkipSend ==
  /\ step = "send"
  /\ sockFd = "unset"
  /\ step' = AfterSend
  /\ UNCHANGED <<outside, bus, ev, sockFd, rows, dropped, cutShort, ipcVars>>

\* The handler passes s_sock_fd >= 0 and enters send().
BeginSend ==
  /\ step = "send"
  /\ sockFd = "set"
  /\ daemonEnd = "open"
  /\ step' = "sending"
  /\ UNCHANGED <<outside, bus, ev, sockFd, rows, dropped, cutShort, ipcVars>>

\* send() accepts the whole frame; it blocks while the buffers are full.
Write ==
  /\ step = "sending"
  /\ uiEnd = "open"
  /\ Len(frames) < SockCap
  /\ frames' = Append(frames, ev)
  /\ EndSend
  /\ step' = AfterSend
  /\ UNCHANGED <<outside, bus, ev, sockFd, rows, dropped, cutShort,
                 alerts, uiEnd, sem>>

\* Fault-seeded variant: s_sock_fd keeps the closed descriptor.
DisconnectKeepingFd ==
  /\ CloseDaemonEnd(FALSE)
  /\ running' = FALSE
  /\ step' = "idle"
  /\ cutShort' = cutShort \cup {ev}
  /\ UNCHANGED sockFd

\* Fault-seeded variant: the main loop is not told.
DisconnectSilently ==
  /\ CloseDaemonEnd(FALSE)
  /\ sockFd' = "unset"
  /\ step' = "idle"
  /\ cutShort' = cutShort \cup {ev}
  /\ UNCHANGED running

\* on_ui_disconnected(), and the early return of the handler that called it.
Disconnect ==
  /\ CloseDaemonEnd(FALSE)
  /\ sockFd' = "unset"
  /\ running' = FALSE
  /\ step' = "idle"
  /\ cutShort' = cutShort \cup {ev}

\* send() fails: the UI has closed its end, or main() has closed ours before
\* the handler got there.  Nothing opens a descriptor during the teardown, so
\* the closed number is not reused.
SendFails ==
  /\ \/ step = "sending" /\ uiEnd = "closed"
     \/ step = "send" /\ sockFd = "set" /\ daemonEnd # "open"
  /\ Disconnect
  /\ UNCHANGED <<main, up, loop, taken, bus, ev, rows, dropped,
                 frames, alerts, uiEnd, sem>>

\* algo_comfort_on_dht11 always posts; algo_anomaly_on_adxl345 posts for the
\* readings it finds anomalous, which module Anomaly decides.
Algo ==
  /\ step = "algo"
  /\ \/ ev.kind = "dht11" /\ PostToBus(EventOf("comfort", ev.n))
     \/ ev.kind = "adxl345" /\ PostToBus(EventOf("anomaly", ev.n))
     \/ ev.kind = "adxl345" /\ UNCHANGED <<bus, dropped>>
  /\ step' = "db"
  /\ UNCHANGED <<outside, ev, sockFd, rows, cutShort, ipcVars>>

\* Fault-seeded variant: the queue opened without O_NONBLOCK.
SendAlertBlocking ==
  /\ Len(alerts) < AlertMax
  /\ alerts' = Append(alerts, ev)

\* mq_send; a full queue drops the alert.
SendAlert == alerts' = Post(alerts, ev, AlertMax)

\* daemon_on_anomaly.  Without a queue, or after main() has closed it (EBADF),
\* the alert goes nowhere.
Alert ==
  /\ step = "alert"
  /\ IF "mq" \in up THEN SendAlert ELSE UNCHANGED alerts
  /\ step' = "db"
  /\ UNCHANGED <<outside, bus, ev, sockFd, rows, dropped, cutShort,
                 frames, daemonEnd, uiEnd, sem>>

\* The step inside sink o.
Inside(o) == IF o = "db" THEN "inDb" ELSE "inMqtt"

\* Fault-seeded variant: publish is tried again after it has returned.
AfterSinkAgain(o) == "mqtt"

\* The row is followed by the message, which ends the handler.
AfterSink(o) == IF o = "db" THEN "mqtt" ELSE "idle"

\* log_row and publish look at their handle once, on entry.
EnterSink(o) ==
  /\ step = o
  /\ step' = IF o \in up THEN Inside(o) ELSE AfterSink(o)
  /\ UNCHANGED <<outside, bus, ev, sockFd, rows, dropped, cutShort, ipcVars>>

\* The row is written, or the message published; or not, for both results are
\* ignored: SQLite refuses a row while the UI's cleanup holds the write lock (no
\* busy timeout is set), libmosquitto a message while the broker is away.  When
\* main() has released the handle meanwhile the behaviour is undefined: the call
\* may also crash the process (DaemonDies).
LeaveSink(o) ==
  /\ step = Inside(o)
  /\ step' = AfterSink(o)
  /\ \/ rows' = [rows EXCEPT ![o][ev.kind] = Append(@, ev.n)] /\ UNCHANGED dropped
     \/ dropped' = (IF o = "db" THEN dropped \cup {ev} ELSE dropped) /\ UNCHANGED rows
  /\ UNCHANGED <<outside, bus, ev, sockFd, cutShort, ipcVars>>

Consumer ==
  \/ Dispatch \/ SkipSend \/ BeginSend \/ Write \/ SendFails \/ Algo \/ Alert
  \/ \E o \in Sinks : EnterSink(o) \/ LeaveSink(o)

----------------------------------------------------------------------------
(* main(), signals and death. *)

LeaveLoop ==
  /\ main = "loop"
  /\ ~running
  /\ main' = "join"
  /\ UNCHANGED <<running, up, loop, taken, consumerVars, ipcVars>>

\* Fault-seeded variant: the sensor threads are not joined.
JoinShmSyncOnly ==
  /\ main = "join"
  /\ \A w \in Helpers : loop[w] = "done"
  /\ main' = "db"
  /\ UNCHANGED <<running, up, loop, taken, consumerVars, ipcVars>>

\* The five sensor threads, then shm_sync.
JoinThreads ==
  /\ main = "join"
  /\ \A w \in Loops : loop[w] = "done"
  /\ main' = "db"
  /\ UNCHANGED <<running, up, loop, taken, consumerVars, ipcVars>>

\* db_deinit, mqtt_deinit, ipc_shm_close, ipc_mq_close, each once.
Release ==
  /\ main \in Resources
  /\ up' = up \ {main}
  /\ main' = CASE main = "db"   -> "mqtt"
             [] main = "mqtt" -> "shm"
             [] main = "shm"  -> "mq"
             [] main = "mq"   -> "client"
  /\ UNCHANGED <<running, loop, taken, consumerVars, ipcVars>>

\* close(client_fd), whether or not a handler has closed it already.
CloseClient ==
  /\ main = "client"
  /\ CloseDaemonEnd(step = "sending")
  /\ main' = "bus"
  /\ UNCHANGED <<running, up, loop, taken, consumerVars, frames, alerts, uiEnd, sem>>

\* embedmq_destroy waits for the handler that is running, then the process
\* returns from main().  Events still queued are handled before or not at all.
DestroyBus ==
  /\ main = "bus"
  /\ step = "idle"
  /\ main' = "exited"
  /\ bus' = <<>>
  /\ UNCHANGED <<running, up, loop, taken, ev, step, sockFd, rows, dropped, cutShort, ipcVars>>

DaemonMain == LeaveLoop \/ JoinThreads \/ Release \/ CloseClient \/ DestroyBus

\* SIGINT or SIGTERM, the first one.
DaemonSignal ==
  /\ running
  /\ main \notin {"exited", "dead"}
  /\ running' = FALSE
  /\ UNCHANGED <<main, up, loop, taken, consumerVars, ipcVars>>

\* A crash or SIGKILL: the kernel closes the connection, memory is gone, the
\* alert queue and what is on disk stay, and so does a semaphore shm_sync has taken.
DaemonDies ==
  /\ main \notin {"exited", "dead"}
  /\ main' = "dead"
  /\ loop' = [w \in Loops |-> "done"]
  /\ bus' = <<>>
  /\ step' = "idle"
  /\ CloseDaemonEnd(FALSE)
  /\ UNCHANGED <<running, up, taken, ev, sockFd, rows, dropped, cutShort,
                 frames, alerts, uiEnd, sem>>

============================================================================
