-------------------------------- MODULE Ipc --------------------------------
(***************************************************************************)
(* What the two processes of the panel share once the UI is connected:     *)
(* the stream socket that carries sensor frames from sensor_daemon to      *)
(* ui_app, the POSIX queue that carries anomaly alerts the same way, the   *)
(* semaphore of the settings segment, and the vocabulary of events both    *)
(* processes exchange through embedmq.                                     *)
(*                                                                         *)
(* The payload of an event is abstracted to the number of the sensor       *)
(* reading it stems from: the n-th reading of a sensor, the comfort index  *)
(* computed from the n-th dht11 reading, the anomaly detected in the n-th  *)
(* adxl345 reading.  That is what order, loss and duplication can tell     *)
(* apart.                                                                  *)
(***************************************************************************)
EXTENDS Naturals, Sequences, FiniteSets

CONSTANTS
  Sensors,      \* the sensor threads sensor_daemon runs
  Inputs,       \* the input threads ui_app runs on the board; none in the simulator
  DaemonQueue,  \* capacity of the daemon's embedmq queue (4096 in the code)
  UiQueue,      \* capacity of the UI's embedmq queue (4096 in the code)
  SockCap,      \* frames the socket buffers hold before send() blocks
  AlertMax,     \* mq_maxmsg of the alert queue (8 in the code)
  Opened        \* what opened among the things a process can do without:
                \* "mqtt", the alert queue in the daemon, "mq", and the UI, "uiMq",
                \* and the settings segment in the daemon, "shm", and the UI, "uiShm"

ASSUME SensorsAssumption ==
  Sensors \subseteq {"dht11", "adxl345", "sr501", "sr04", "light"}

ASSUME InputsAssumption == Inputs \subseteq {"touch", "ir"}

ASSUME OpenedAssumption == Opened \subseteq {"mqtt", "mq", "uiMq", "shm", "uiShm"}

ASSUME CapacityAssumption ==
  /\ DaemonQueue \in Nat \ {0}
  /\ UiQueue \in Nat \ {0}
  /\ SockCap \in Nat \ {0}
  /\ AlertMax \in Nat \ {0}

\* The sensor whose reading an event of kind k stems from.
Source(k) == CASE k = "comfort" -> "dht11"
               [] k = "anomaly" -> "adxl345"
               [] OTHER         -> k

\* The kinds of event the daemon handles.
Kinds == Sensors \cup {k \in {"comfort", "anomaly"} : Source(k) \in Sensors}

\* The kinds of event the UI handles.
UiKinds == Kinds \cup Inputs

Event == [kind : UiKinds, n : Nat]

EventOf(k, n) == [kind |-> k, n |-> n]

----------------------------------------------------------------------------
(* External: an embedmq queue, and the alert queue opened with O_NONBLOCK,  *)
(* refuse a message when they are full.  No caller of embedmq_post_id looks *)
(* at the result, and ipc_mq_send_alert only logs it.                       *)

\* Fault-seeded variant: a queue that admits one message too many.
PostOverrun(q, e, cap) == IF Len(q) <= cap THEN Append(q, e) ELSE q

Post(q, e, cap) == IF Len(q) < cap THEN Append(q, e) ELSE q

----------------------------------------------------------------------------
VARIABLES
  frames,     \* ipc_frame_t records in the socket, oldest first
  alerts,     \* ipc_alert_t messages in the POSIX queue, oldest first
  daemonEnd,  \* the daemon's end of the connection: "open", "closing", "closed"
  uiEnd,      \* the UI's end: "open" or "closed"
  sem         \* who is between sem_wait and sem_post: "sync", "ui", or nobody, "free"

ipcVars == <<frames, alerts, daemonEnd, uiEnd, sem>>

IpcTypeOK ==
  /\ frames \in Seq(Event) /\ Len(frames) <= SockCap
  /\ alerts \in Seq(Event) /\ Len(alerts) <= AlertMax
  /\ daemonEnd \in {"open", "closing", "closed"}
  /\ uiEnd \in {"open", "closed"}
  /\ sem \in {"free", "sync", "ui"}

\* The UI has connected, and the daemon's accept() has returned.
IpcInit ==
  /\ frames = <<>>
  /\ alerts = <<>>
  /\ daemonEnd = "open"
  /\ uiEnd = "open"
  /\ sem = "free"

\* close() of the connection by one daemon thread.  While another one is
\* inside send() on it the descriptor is gone but the connection lives on:
\* the kernel keeps it until that send() returns.
CloseDaemonEnd(inSend) ==
  daemonEnd' = CASE daemonEnd = "closed" -> "closed"
                 [] inSend               -> "closing"
                 [] OTHER                -> "closed"

\* send() returns.  It was the last user of a connection closed meanwhile.
EndSend == daemonEnd' = IF daemonEnd = "closing" THEN "closed" ELSE daemonEnd

============================================================================
