------------------------------- MODULE UiApp -------------------------------
(***************************************************************************)
(* ui_app from the moment main() has started its threads until the process *)
(* is gone.                                                                *)
(*                                                                         *)
(* Threads: main(), which ticks the dashboard, the socket receiver, the    *)
(* alert receiver, the input threads, and the consumer thread of the UI's  *)
(* own embedmq, which puts each event into the dashboard's cache.  Cache   *)
(* and dirty flags are shared between the consumer and main() under one    *)
(* mutex, so that a cache update and tick()'s copy are single steps;       *)
(* rendering works on the copy, outside the mutex.                         *)
(***************************************************************************)
EXTENDS Ipc

CONSTANTS
  Muted,        \* settings_.alert_muted
  MaxInputs     \* bound: events each input device delivers

ASSUME MutedAssumption == Muted \in BOOLEAN

ASSUME MaxInputsAssumption == MaxInputs \in Nat

UiPc == {"loop", "render", "save", "joinRecv", "joinAlert", "joinInput", "exited", "dead"}

VARIABLES
  uiRunning,    \* g_running of this process
  uiMain,       \* main()'s place
  recv,         \* the socket receiver: "run" or "done"
  alertThread,  \* the alert receiver: "call", "wait" inside mq_receive, "done"
  uiMq,         \* the alert queue descriptor: "open", "closed", or "none"
  input,        \* each input thread: "test", "read" inside read(), "done"
  pressed,      \* events each input device has delivered
  uiBus,        \* the embedmq queue
  cache,        \* SensorCache: the number of the latest value of each kind
  dirty,        \* SensorCache: the kinds with their dirty flag set
  local,        \* tick()'s copy: the dirty kinds and their values
  shown,        \* the values put on screen (charts, labels), per kind, oldest first
  uiDropped     \* whether the full queue has refused an event

uiVars == <<uiRunning, uiMain, recv, alertThread, uiMq, input, pressed, uiBus,
            cache, dirty, local, shown, uiDropped>>

dashboard == <<cache, dirty, local, shown>>

UiTypeOK ==
  /\ uiRunning \in BOOLEAN
  /\ uiMain \in UiPc
  /\ recv \in {"run", "done"}
  /\ alertThread \in {"call", "wait", "done"}
  /\ uiMq \in {"open", "closed", "none"}
  /\ input \in [Inputs -> {"test", "read", "done"}]
  /\ pressed \in [Inputs -> 0..MaxInputs]
  /\ uiBus \in Seq(Event) /\ Len(uiBus) <= UiQueue
  /\ cache \in [UiKinds -> Nat]
  /\ dirty \subseteq UiKinds
  /\ DOMAIN local \subseteq UiKinds /\ \A k \in DOMAIN local : local[k] \in Nat
  /\ shown \in [UiKinds -> Seq(Nat)]
  /\ uiDropped \in BOOLEAN

\* The alert queue may have failed to open, and then there is no alert thread;
\* an input device may have failed to open, and then its thread is gone.
UiInit ==
  /\ uiRunning = TRUE
  /\ uiMain = "loop"
  /\ recv = "run"
  /\ IF "uiMq" \in Opened
     THEN uiMq = "open" /\ alertThread = "call"
     ELSE uiMq = "none" /\ alertThread = "done"
  /\ input \in [Inputs -> {"test", "done"}]
  /\ pressed = [i \in Inputs |-> 0]
  /\ uiBus = <<>>
  /\ cache = [k \in UiKinds |-> 0]
  /\ dirty = {}
  /\ local = <<>>
  /\ shown = [k \in UiKinds |-> <<>>]
  /\ uiDropped = FALSE

----------------------------------------------------------------------------
(* The receivers. *)

\* embedmq_post_id on the UI's queue, its result ignored.
UiPost(e) ==
  /\ uiBus' = Post(uiBus, e, UiQueue)
  /\ uiDropped' = (uiDropped \/ Len(uiBus) >= UiQueue)

\* ipc_socket_recv returns a frame, which becomes an event.
RecvFrame ==
  /\ recv = "run"
  /\ frames # <<>>
  /\ frames' = Tail(frames)
  /\ UiPost(Head(frames))
  /\ UNCHANGED <<uiRunning, uiMain, recv, alertThread, uiMq, input, pressed, dashboard,
                 alerts, daemonEnd, uiEnd, sem>>

\* Fault-seeded variant: the receiver ends without telling the main loop.
RecvEofSilently ==
  /\ recv = "run"
  /\ frames = <<>>
  /\ daemonEnd = "closed"
  /\ recv' = "done"
  /\ UNCHANGED <<uiRunning, uiMain, alertThread, uiMq, input, pressed, uiBus, uiDropped,
                 dashboard, ipcVars>>

\* End of file: the receiver stops the process.  It never looks at g_running.
RecvEof ==
  /\ recv = "run"
  /\ frames = <<>>
  /\ daemonEnd = "closed"
  /\ recv' = "done"
  /\ uiRunning' = FALSE
  /\ UNCHANGED <<uiMain, alertThread, uiMq, input, pressed, uiBus, uiDropped,
                 dashboard, ipcVars>>

\* mq_receive is called; on a closed descriptor it fails and ends the thread.
AlertCall ==
  /\ alertThread = "call"
  /\ alertThread' = IF uiMq = "open" THEN "wait" ELSE "done"
  /\ UNCHANGED <<uiRunning, uiMain, recv, uiMq, input, pressed, uiBus, uiDropped,
                 dashboard, ipcVars>>

\* mq_receive returns an alert.  A call that waits holds the queue open: a
\* mq_close by another thread does not end it.
AlertRecv ==
  /\ alertThread = "wait"
  /\ alerts # <<>>
  /\ alerts' = Tail(alerts)
  /\ UiPost(Head(alerts))
  /\ alertThread' = "call"
  /\ UNCHANGED <<uiRunning, uiMain, recv, uiMq, input, pressed, dashboard,
                 frames, daemonEnd, uiEnd, sem>>

----------------------------------------------------------------------------
(* The input threads. *)

\* while (g_running.load()), then read() on the device.
InputTest(i) ==
  /\ input[i] = "test"
  /\ input' = [input EXCEPT ![i] = IF uiRunning THEN "read" ELSE "done"]
  /\ UNCHANGED <<uiRunning, uiMain, recv, alertThread, uiMq, pressed, uiBus, uiDropped,
                 dashboard, ipcVars>>

\* The device delivers something: a touch report or a key press, which is
\* posted, or another event, which is not.
InputEvent(i) ==
  /\ input[i] = "read"
  /\ pressed[i] < MaxInputs
  /\ pressed' = [pressed EXCEPT ![i] = @ + 1]
  /\ input' = [input EXCEPT ![i] = "test"]
  /\ \/ UiPost(EventOf(i, pressed[i] + 1))
     \/ UNCHANGED <<uiBus, uiDropped>>
  /\ UNCHANGED <<uiRunning, uiMain, recv, alertThread, uiMq, dashboard, ipcVars>>

\* read() fails.
InputFails(i) ==
  /\ input[i] = "read"
  /\ input' = [input EXCEPT ![i] = "done"]
  /\ UNCHANGED <<uiRunning, uiMain, recv, alertThread, uiMq, pressed, uiBus, uiDropped,
                 dashboard, ipcVars>>

----------------------------------------------------------------------------
(* The consumer thread and the dashboard. *)

\* Fault-seeded variant: only the first value of a kind raises its flag.
FlaggedOnce(e) == IF cache[e.kind] = 0 THEN dirty \cup {e.kind} ELSE dirty

\* The dirty flags after event e.
Flagged(e) == dirty \cup {e.kind}

\* A ui_on_* handler calls the dashboard's update_* function.  Of the keys of the
\* remote control the dashboard takes the two arrows and ignores the others.
UiHandle ==
  /\ uiBus # <<>>
  /\ uiBus' = Tail(uiBus)
  /\ \/ /\ cache' = [cache EXCEPT ![Head(uiBus).kind] = Head(uiBus).n]
        /\ dirty' = Flagged(Head(uiBus))
     \/ Head(uiBus).kind = "ir" /\ UNCHANGED <<cache, dirty>>
  /\ UNCHANGED <<uiRunning, uiMain, recv, alertThread, uiMq, input, pressed, uiDropped,
                 local, shown, ipcVars>>

\* Fault-seeded variant: the flags survive the copy.
CopyLeavingFlags ==
  /\ local' = [k \in dirty |-> cache[k]]
  /\ UNCHANGED dirty

\* Under the mutex: copy what is new and clear every dirty flag.
Copy ==
  /\ local' = [k \in dirty |-> cache[k]]
  /\ dirty' = {}

\* A tick that finds nothing new changes nothing here.
TickCopy ==
  /\ uiMain = "loop"
  /\ uiRunning
  /\ dirty # {}
  /\ Copy
  /\ uiMain' = "render"
  /\ UNCHANGED <<uiRunning, recv, alertThread, uiMq, input, pressed, uiBus, uiDropped,
                 cache, shown, ipcVars>>

\* What a tick puts on screen: the copied kinds, but no alert while muted.
Visible == DOMAIN local \ (IF Muted THEN {"anomaly"} ELSE {})

\* Where main() may be after lv_timer_handler: in its loop, or, with a segment, in
\* the callback of the threshold slider.
Handled == {"loop"} \cup (IF "uiShm" \in Opened THEN {"save"} ELSE {})

\* Fault-seeded variant: the flags are cleared once more after rendering.
RenderThenClear ==
  /\ uiMain = "render"
  /\ shown' = [k \in UiKinds |->
                 IF k \in Visible THEN Append(shown[k], local[k]) ELSE shown[k]]
  /\ local' = <<>>
  /\ dirty' = {}
  /\ uiMain' \in Handled
  /\ UNCHANGED <<uiRunning, recv, alertThread, uiMq, input, pressed, uiBus, uiDropped,
                 cache, ipcVars>>

\* Outside the mutex: refresh labels, charts, banner and tab from the copy.
TickRender ==
  /\ uiMain = "render"
  /\ shown' = [k \in UiKinds |->
                 IF k \in Visible THEN Append(shown[k], local[k]) ELSE shown[k]]
  /\ local' = <<>>
  /\ uiMain' \in Handled
  /\ UNCHANGED <<uiRunning, recv, alertThread, uiMq, input, pressed, uiBus, uiDropped,
                 cache, dirty, ipcVars>>

\* A tick without news, in which the user moves the slider (OnThresholdChanged;
\* its saving of the settings is in module Settings).
MoveSlider ==
  /\ uiMain = "loop"
  /\ uiRunning
  /\ "save" \in Handled
  /\ uiMain' = "save"
  /\ UNCHANGED <<uiRunning, recv, alertThread, uiMq, input, pressed, uiBus, uiDropped,
                 dashboard, ipcVars>>

\* The callback in ipc_shm_write_settings: the dashboard waits for the semaphore.
UiSemWait ==
  /\ uiMain = "save"
  /\ sem = "free"
  /\ sem' = "ui"
  /\ UNCHANGED <<uiVars, frames, alerts, daemonEnd, uiEnd>>

\* The settings are in the segment.
UiSemPost ==
  /\ uiMain = "save"
  /\ sem = "ui"
  /\ sem' = "free"
  /\ uiMain' = "loop"
  /\ UNCHANGED <<uiRunning, recv, alertThread, uiMq, input, pressed, uiBus, uiDropped,
                 dashboard, frames, alerts, daemonEnd, uiEnd>>

----------------------------------------------------------------------------
(* main()'s way out, signals and death. *)

UiLeaveLoop ==
  /\ uiMain = "loop"
  /\ ~uiRunning
  /\ uiMain' = "joinRecv"
  /\ UNCHANGED <<uiRunning, recv, alertThread, uiMq, input, pressed, uiBus, uiDropped,
                 dashboard, ipcVars>>

\* The receiver is joined first; only then is the alert queue closed.
JoinRecv ==
  /\ uiMain = "joinRecv"
  /\ recv = "done"
  /\ IF uiMq = "none"
     THEN uiMain' = "joinInput" /\ UNCHANGED uiMq
     ELSE uiMain' = "joinAlert" /\ uiMq' = "closed"
  /\ UNCHANGED <<uiRunning, recv, alertThread, input, pressed, uiBus, uiDropped,
                 dashboard, ipcVars>>

JoinAlert ==
  /\ uiMain = "joinAlert"
  /\ alertThread = "done"
  /\ uiMain' = "joinInput"
  /\ UNCHANGED <<uiRunning, recv, alertThread, uiMq, input, pressed, uiBus, uiDropped,
                 dashboard, ipcVars>>

\* The input threads are joined, the connection and the rest closed, and
\* embedmq_destroy ends the consumer.
JoinInput ==
  /\ uiMain = "joinInput"
  /\ \A i \in Inputs : input[i] = "done"
  /\ uiMain' = "exited"
  /\ uiEnd' = "closed"
  /\ uiBus' = <<>>
  /\ UNCHANGED <<uiRunning, recv, alertThread, uiMq, input, pressed, uiDropped,
                 dashboard, frames, alerts, daemonEnd, sem>>

UiMain ==
  \/ TickCopy \/ TickRender \/ UiSemWait \/ UiSemPost
  \/ UiLeaveLoop \/ JoinRecv \/ JoinAlert \/ JoinInput

Receiver == RecvFrame \/ RecvEof

AlertReceiver == AlertCall \/ AlertRecv

\* SIGINT or SIGTERM, the first one.
UiSignal ==
  /\ uiRunning
  /\ uiMain \notin {"exited", "dead"}
  /\ uiRunning' = FALSE
  /\ UNCHANGED <<uiMain, recv, alertThread, uiMq, input, pressed, uiBus, uiDropped,
                 dashboard, ipcVars>>

\* A crash, SIGKILL, or the simulator's window closed (LVGL calls exit()).  A
\* semaphore that main() has taken stays taken.
UiDies ==
  /\ uiMain \notin {"exited", "dead"}
  /\ uiMain' = "dead"
  /\ recv' = "done"
  /\ alertThread' = "done"
  /\ input' = [i \in Inputs |-> "done"]
  /\ uiBus' = <<>>
  /\ local' = <<>>
  /\ uiEnd' = "closed"
  /\ frames' = <<>>
  /\ UNCHANGED <<uiRunning, uiMq, pressed, uiDropped, cache, dirty, shown,
                 alerts, daemonEnd, sem>>

============================================================================
