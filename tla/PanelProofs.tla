---------------------------- MODULE PanelProofs ----------------------------
(***************************************************************************)
(* Theorems about the composed panel, for every set of sensors and input   *)
(* devices, every capacity and every bound.                                *)
(***************************************************************************)
EXTENDS Panel, TLAPS

\* What a step of either process is, without the frame condition for the other.
DaemonAct ==
  \/ \E w \in Loops : LoopStep(w)
  \/ Consumer
  \/ DaemonMain
  \/ DaemonSignal
  \/ DaemonDies

UiAct ==
  \/ Receiver
  \/ AlertReceiver
  \/ UiHandle
  \/ UiMain
  \/ MoveSlider
  \/ \E i \in Inputs : InputTest(i) \/ InputEvent(i) \/ InputFails(i)
  \/ UiSignal
  \/ UiDies

\* Every step of the panel is one process's, and leaves the other's state alone.
LEMMA StepIsOneProcess ==
  ASSUME Next
  PROVE  \/ DaemonAct /\ UNCHANGED uiVars
         \/ UiAct /\ UNCHANGED daemonVars
<1>1. DaemonOnly => UNCHANGED uiVars
  BY DEF DaemonOnly
<1>2. UiOnly => UNCHANGED daemonVars
  BY DEF UiOnly
<1>3. CASE \E w \in Loops : LoopStep(w) /\ DaemonOnly
  BY <1>1, <1>3 DEF DaemonAct
<1>4. CASE (Consumer \/ DaemonMain) /\ DaemonOnly
  BY <1>1, <1>4 DEF DaemonAct
<1>5. CASE (DaemonSignal \/ DaemonDies) /\ UNCHANGED uiVars
  BY <1>5 DEF DaemonAct
<1>6. CASE (Receiver \/ AlertReceiver \/ UiHandle \/ UiMain \/ MoveSlider) /\ UiOnly
  BY <1>2, <1>6 DEF UiAct
<1>7. CASE \E i \in Inputs : (InputTest(i) \/ InputEvent(i) \/ InputFails(i)) /\ UiOnly
  BY <1>2, <1>7 DEF UiAct
<1>8. CASE (UiSignal \/ UiDies) /\ UNCHANGED daemonVars
  BY <1>8 DEF UiAct
<1> QED BY <1>3, <1>4, <1>5, <1>6, <1>7, <1>8 DEF Next

----------------------------------------------------------------------------
(* Queues and kinds. *)

\* A queue of a type stays in it, and within its capacity, when posted to.
LEMMA PostType ==
  ASSUME NEW S, NEW q \in Seq(S), NEW e \in S, NEW cap \in Nat, Len(q) <= cap
  PROVE  Post(q, e, cap) \in Seq(S) /\ Len(Post(q, e, cap)) <= cap
BY DEF Post

LEMMA TailType ==
  ASSUME NEW S, NEW q \in Seq(S), q # <<>>
  PROVE  Head(q) \in S /\ Tail(q) \in Seq(S) /\ Len(Tail(q)) = Len(q) - 1
OBVIOUS

LEMMA KindsOfSensors ==
  /\ Sensors \subseteq Kinds
  /\ Kinds \subseteq UiKinds
  /\ "dht11" \in Kinds => "comfort" \in Kinds
  /\ "adxl345" \in Kinds => "anomaly" \in Kinds
BY SensorsAssumption DEF Kinds, UiKinds, Source

LEMMA DaemonEventIsEvent == DaemonEvent \subseteq Event
BY KindsOfSensors DEF DaemonEvent, Event

----------------------------------------------------------------------------
(* Type correctness. *)

LEMMA TypeInit == Init => TypeOK
<1> SUFFICES ASSUME Init PROVE TypeOK
  OBVIOUS
<1> USE CapacityAssumption, MaxReadingsAssumption, MaxInputsAssumption, MaxFaultsAssumption
<1>1. IpcTypeOK
  BY DEF Init, IpcInit, IpcTypeOK
<1>2. DaemonTypeOK
  <2>1. up \subseteq Resources
    BY DEF Init, DaemonInit, Resources
  <2>2. rows \in [Sinks -> [Kinds -> Seq(Nat)]]
    BY DEF Init, DaemonInit
  <2>3. loop \in [Loops -> {"test", "body", "done"}] /\ taken \in [Sensors -> 0..(MaxReadings + 1)]
    BY DEF Init, DaemonInit
  <2>4. bus \in Seq(DaemonEvent) /\ Len(bus) <= DaemonQueue
    BY DEF Init, DaemonInit
  <2>5. /\ running \in BOOLEAN /\ main \in MainPc /\ step = "idle" /\ step \in Steps
        /\ sockFd \in {"set", "unset"} /\ dropped = {} /\ cutShort = {}
    BY DEF Init, DaemonInit, MainPc, Steps
  <2> QED BY <2>1, <2>2, <2>3, <2>4, <2>5 DEF DaemonTypeOK
<1>3. UiTypeOK
  <2>1. recv = "run" /\ uiMq \in {"open", "closed", "none"} /\ alertThread \in {"call", "wait", "done"}
    BY DEF Init, UiInit
  <2>2. input \in [Inputs -> {"test", "read", "done"}] /\ pressed \in [Inputs -> 0..MaxInputs]
    BY DEF Init, UiInit
  <2>3. cache \in [UiKinds -> Nat] /\ shown \in [UiKinds -> Seq(Nat)] /\ DOMAIN local = {}
    BY DEF Init, UiInit
  <2>4. uiBus \in Seq(Event) /\ Len(uiBus) <= UiQueue
    BY DEF Init, UiInit
  <2>5. uiRunning \in BOOLEAN /\ uiDropped \in BOOLEAN /\ uiMain \in UiPc /\ dirty = {}
    BY DEF Init, UiInit, UiPc
  <2> QED BY <2>1, <2>2, <2>3, <2>4, <2>5 DEF UiTypeOK
<1> QED BY <1>1, <1>2, <1>3 DEF Init, TypeOK

\* What the daemon does to the connection keeps it in its three states.
LEMMA ConnectionType ==
  ASSUME daemonEnd \in {"open", "closing", "closed"}, NEW inSend,
         CloseDaemonEnd(inSend) \/ EndSend \/ UNCHANGED daemonEnd
  PROVE  daemonEnd' \in {"open", "closing", "closed"}
BY DEF CloseDaemonEnd, EndSend

LEMMA PostToBusType ==
  ASSUME DaemonTypeOK, NEW e \in DaemonEvent, PostToBus(e)
  PROVE  /\ bus' \in Seq(DaemonEvent) /\ Len(bus') <= DaemonQueue
         /\ dropped' \subseteq DaemonEvent
BY CapacityAssumption, PostType DEF DaemonTypeOK, PostToBus

LEMMA LoopStepType ==
  ASSUME IpcTypeOK, DaemonTypeOK, NEW w \in Loops, LoopStep(w)
  PROVE  IpcTypeOK' /\ DaemonTypeOK'
<1>1. CASE LoopTest(w)
  BY <1>1 DEF LoopTest, IpcTypeOK, DaemonTypeOK, consumerVars, ipcVars
<1>2. CASE w \in Sensors /\ SensorPost(w)
  <2>1. taken[w] \in 0..MaxReadings
    BY <1>2, MaxReadingsAssumption DEF SensorPost, MayTake, DaemonTypeOK
  <2>2. EventOf(w, taken[w] + 1) \in DaemonEvent
    BY <1>2, <2>1, KindsOfSensors, MaxReadingsAssumption DEF EventOf, DaemonEvent
  <2>3. /\ bus' \in Seq(DaemonEvent) /\ Len(bus') <= DaemonQueue
        /\ dropped' \subseteq DaemonEvent
    BY <1>2, <2>2, PostToBusType DEF SensorPost
  <2>4. taken' \in [Sensors -> 0..(MaxReadings + 1)]
    BY <1>2, <2>1, MaxReadingsAssumption DEF SensorPost, DaemonTypeOK
  <2>5. loop' \in [Loops -> {"test", "body", "done"}]
    BY <1>2 DEF SensorPost, DaemonTypeOK
  <2> QED
    BY <1>2, <2>3, <2>4, <2>5 DEF SensorPost, IpcTypeOK, DaemonTypeOK, ipcVars
<1>3. CASE LoopSkip(w)
  BY <1>3 DEF LoopSkip, IpcTypeOK, DaemonTypeOK, consumerVars, ipcVars
<1>4. CASE SemWait(w)
  BY <1>4 DEF SemWait, IpcTypeOK, DaemonTypeOK, consumerVars
<1>5. CASE SemPost(w)
  BY <1>5 DEF SemPost, IpcTypeOK, DaemonTypeOK, consumerVars
<1> QED BY <1>1, <1>2, <1>3, <1>4, <1>5 DEF LoopStep

LEMMA ConsumerType ==
  ASSUME IpcTypeOK, DaemonTypeOK, Consumer
  PROVE  IpcTypeOK' /\ DaemonTypeOK'
<1> USE DEF outside, ipcVars
<1>1. CASE Dispatch
  <2>1. Head(bus) \in DaemonEvent /\ Tail(bus) \in Seq(DaemonEvent)
        /\ Len(Tail(bus)) <= DaemonQueue
    BY <1>1, TailType, CapacityAssumption DEF Dispatch, DaemonTypeOK
  <2> QED BY <1>1, <2>1 DEF Dispatch, IpcTypeOK, DaemonTypeOK, Steps
<1>2. CASE SkipSend \/ BeginSend
  BY <1>2 DEF SkipSend, BeginSend, AfterSend, IpcTypeOK, DaemonTypeOK, Steps
<1>3. CASE Write
  <2>1. ev \in DaemonEvent /\ ev \in Event
    BY <1>3, DaemonEventIsEvent DEF Write, DaemonTypeOK
  <2>2. frames' \in Seq(Event) /\ Len(frames') <= SockCap
    BY <1>3, <2>1, CapacityAssumption DEF Write, IpcTypeOK
  <2>3. daemonEnd' \in {"open", "closing", "closed"}
    BY <1>3, ConnectionType DEF Write, IpcTypeOK
  <2>4. IpcTypeOK'
    BY <1>3, <2>2, <2>3 DEF Write, IpcTypeOK
  <2> QED BY <1>3, <2>1, <2>4 DEF Write, AfterSend, DaemonTypeOK, Steps
<1>4. CASE SendFails
  <2>1. daemonEnd' \in {"open", "closing", "closed"}
    BY <1>4, ConnectionType DEF SendFails, Disconnect, IpcTypeOK
  <2>2. ev \in DaemonEvent
    BY <1>4 DEF SendFails, DaemonTypeOK
  <2>3. IpcTypeOK'
    BY <1>4, <2>1 DEF SendFails, Disconnect, IpcTypeOK
  <2> QED BY <1>4, <2>2, <2>3 DEF SendFails, Disconnect, DaemonTypeOK, Steps
<1>5. CASE Algo
  <2>1. ev.kind \in Kinds /\ ev.n \in Nat /\ ev \in DaemonEvent
    BY <1>5 DEF Algo, DaemonTypeOK, DaemonEvent
  <2>2. /\ bus' \in Seq(DaemonEvent) /\ Len(bus') <= DaemonQueue
        /\ dropped' \subseteq DaemonEvent
    <3>1. CASE ev.kind = "dht11" /\ PostToBus(EventOf("comfort", ev.n))
      BY <2>1, <3>1, KindsOfSensors, PostToBusType DEF EventOf, DaemonEvent
    <3>2. CASE ev.kind = "adxl345" /\ PostToBus(EventOf("anomaly", ev.n))
      BY <2>1, <3>2, KindsOfSensors, PostToBusType DEF EventOf, DaemonEvent
    <3>3. CASE UNCHANGED <<bus, dropped>>
      BY <3>3 DEF DaemonTypeOK
    <3> QED BY <1>5, <3>1, <3>2, <3>3 DEF Algo
  <2> QED BY <1>5, <2>1, <2>2 DEF Algo, IpcTypeOK, DaemonTypeOK, Steps
<1>6. CASE Alert
  <2>1. ev \in DaemonEvent /\ ev \in Event
    BY <1>6, DaemonEventIsEvent DEF Alert, DaemonTypeOK
  <2>2. alerts' \in Seq(Event) /\ Len(alerts') <= AlertMax
    BY <1>6, <2>1, PostType, CapacityAssumption DEF Alert, SendAlert, IpcTypeOK
  <2> QED BY <1>6, <2>1, <2>2 DEF Alert, IpcTypeOK, DaemonTypeOK, Steps
<1>7. ASSUME NEW o \in Sinks, EnterSink(o) PROVE IpcTypeOK' /\ DaemonTypeOK'
  BY <1>7 DEF EnterSink, Inside, AfterSink, Sinks, IpcTypeOK, DaemonTypeOK, Steps
<1>8. ASSUME NEW o \in Sinks, LeaveSink(o) PROVE IpcTypeOK' /\ DaemonTypeOK'
  <2>1. ev \in DaemonEvent /\ ev.kind \in Kinds /\ ev.n \in Nat
    BY <1>8 DEF LeaveSink, Inside, DaemonTypeOK, DaemonEvent
  <2>2. rows[o] \in [Kinds -> Seq(Nat)] /\ Append(rows[o][ev.kind], ev.n) \in Seq(Nat)
    BY <2>1 DEF DaemonTypeOK
  <2>3. [rows[o] EXCEPT ![ev.kind] = Append(rows[o][ev.kind], ev.n)] \in [Kinds -> Seq(Nat)]
    BY <2>1, <2>2
  <2>4. rows' \in [Sinks -> [Kinds -> Seq(Nat)]]
    BY <1>8, <2>3 DEF LeaveSink, DaemonTypeOK
  <2> QED BY <1>8, <2>1, <2>4 DEF LeaveSink, AfterSink, IpcTypeOK, DaemonTypeOK, Steps
<1> QED BY <1>1, <1>2, <1>3, <1>4, <1>5, <1>6, <1>7, <1>8 DEF Consumer

LEMMA DaemonMainType ==
  ASSUME IpcTypeOK, DaemonTypeOK, DaemonMain \/ DaemonSignal \/ DaemonDies
  PROVE  IpcTypeOK' /\ DaemonTypeOK'
<1> USE DEF consumerVars, ipcVars, MainPc, Teardown, Resources
<1>1. CASE LeaveLoop \/ JoinThreads
  BY <1>1 DEF LeaveLoop, JoinThreads, IpcTypeOK, DaemonTypeOK
<1>2. CASE Release
  BY <1>2 DEF Release, IpcTypeOK, DaemonTypeOK
<1>3. CASE CloseClient
  <2>1. daemonEnd' \in {"open", "closing", "closed"}
    BY <1>3, ConnectionType DEF CloseClient, IpcTypeOK
  <2> QED BY <1>3, <2>1 DEF CloseClient, IpcTypeOK, DaemonTypeOK
<1>4. CASE DestroyBus
  BY <1>4, CapacityAssumption DEF DestroyBus, IpcTypeOK, DaemonTypeOK
<1>5. CASE DaemonSignal
  BY <1>5 DEF DaemonSignal, IpcTypeOK, DaemonTypeOK
<1>6. CASE DaemonDies
  <2>1. daemonEnd' \in {"open", "closing", "closed"}
    BY <1>6, ConnectionType DEF DaemonDies, IpcTypeOK
  <2> QED
    BY <1>6, <2>1, CapacityAssumption DEF DaemonDies, IpcTypeOK, DaemonTypeOK, Steps
<1> QED BY <1>1, <1>2, <1>3, <1>4, <1>5, <1>6 DEF DaemonMain

LEMMA UiPostType ==
  ASSUME UiTypeOK, NEW e \in Event, UiPost(e)
  PROVE  uiBus' \in Seq(Event) /\ Len(uiBus') <= UiQueue /\ uiDropped' \in BOOLEAN
<1>1. uiBus' \in Seq(Event) /\ Len(uiBus') <= UiQueue
  BY CapacityAssumption, PostType DEF UiTypeOK, UiPost
<1>2. uiDropped' \in BOOLEAN
  BY DEF UiTypeOK, UiPost
<1> QED BY <1>1, <1>2

LEMMA ReceiversType ==
  ASSUME IpcTypeOK, UiTypeOK, Receiver \/ AlertReceiver
  PROVE  IpcTypeOK' /\ UiTypeOK'
<1> USE DEF dashboard, ipcVars
<1>1. CASE RecvFrame
  <2>1. Head(frames) \in Event /\ Tail(frames) \in Seq(Event) /\ Len(Tail(frames)) <= SockCap
    BY <1>1, TailType, CapacityAssumption DEF RecvFrame, IpcTypeOK
  <2>2. uiBus' \in Seq(Event) /\ Len(uiBus') <= UiQueue /\ uiDropped' \in BOOLEAN
    BY <1>1, <2>1, UiPostType DEF RecvFrame
  <2> QED BY <1>1, <2>1, <2>2 DEF RecvFrame, IpcTypeOK, UiTypeOK
<1>2. CASE RecvEof
  BY <1>2 DEF RecvEof, IpcTypeOK, UiTypeOK
<1>3. CASE AlertCall
  BY <1>3 DEF AlertCall, IpcTypeOK, UiTypeOK
<1>4. CASE AlertRecv
  <2>1. Head(alerts) \in Event /\ Tail(alerts) \in Seq(Event) /\ Len(Tail(alerts)) <= AlertMax
    BY <1>4, TailType, CapacityAssumption DEF AlertRecv, IpcTypeOK
  <2>2. uiBus' \in Seq(Event) /\ Len(uiBus') <= UiQueue /\ uiDropped' \in BOOLEAN
    BY <1>4, <2>1, UiPostType DEF AlertRecv
  <2> QED BY <1>4, <2>1, <2>2 DEF AlertRecv, IpcTypeOK, UiTypeOK
<1> QED BY <1>1, <1>2, <1>3, <1>4 DEF Receiver, AlertReceiver

LEMMA InputType ==
  ASSUME IpcTypeOK, UiTypeOK, NEW i \in Inputs, InputTest(i) \/ InputEvent(i) \/ InputFails(i)
  PROVE  IpcTypeOK' /\ UiTypeOK'
<1> USE MaxInputsAssumption DEF dashboard, ipcVars
<1>1. CASE InputTest(i)
  BY <1>1 DEF InputTest, IpcTypeOK, UiTypeOK
<1>2. CASE InputEvent(i)
  <2>1. EventOf(i, pressed[i] + 1) \in Event
    BY DEF UiTypeOK, EventOf, Event, UiKinds
  <2>2. uiBus' \in Seq(Event) /\ Len(uiBus') <= UiQueue /\ uiDropped' \in BOOLEAN
    <3>1. CASE UiPost(EventOf(i, pressed[i] + 1))
      BY <2>1, <3>1, UiPostType
    <3>2. CASE UNCHANGED <<uiBus, uiDropped>>
      BY <3>2 DEF UiTypeOK
    <3> QED BY <1>2, <3>1, <3>2 DEF InputEvent
  <2>3. pressed' \in [Inputs -> 0..MaxInputs] /\ input' \in [Inputs -> {"test", "read", "done"}]
    BY <1>2 DEF InputEvent, UiTypeOK
  <2> QED BY <1>2, <2>2, <2>3 DEF InputEvent, IpcTypeOK, UiTypeOK
<1>3. CASE InputFails(i)
  BY <1>3 DEF InputFails, IpcTypeOK, UiTypeOK
<1> QED BY <1>1, <1>2, <1>3

LEMMA DashboardType ==
  ASSUME IpcTypeOK, UiTypeOK, UiHandle \/ TickCopy \/ TickRender
  PROVE  IpcTypeOK' /\ UiTypeOK'
<1> USE DEF ipcVars
<1>1. CASE UiHandle
  <2>1. uiBus \in Seq(Event) /\ uiBus # <<>> /\ Len(uiBus) <= UiQueue
    BY <1>1 DEF UiHandle, UiTypeOK
  <2>2. Head(uiBus) \in Event /\ Tail(uiBus) \in Seq(Event) /\ Len(Tail(uiBus)) = Len(uiBus) - 1
    BY <2>1, TailType
  <2>3. /\ Head(uiBus).kind \in UiKinds /\ Head(uiBus).n \in Nat
        /\ Tail(uiBus) \in Seq(Event) /\ Len(Tail(uiBus)) <= UiQueue
    BY <2>1, <2>2, CapacityAssumption DEF Event
  <2>4. cache' \in [UiKinds -> Nat] /\ dirty' \subseteq UiKinds
    BY <1>1, <2>3 DEF UiHandle, Flagged, UiTypeOK
  <2> QED BY <1>1, <2>3, <2>4 DEF UiHandle, IpcTypeOK, UiTypeOK
<1>2. CASE TickCopy
  <2>1. DOMAIN local' \subseteq UiKinds /\ \A k \in DOMAIN local' : local'[k] \in Nat
    BY <1>2 DEF TickCopy, Copy, UiTypeOK
  <2>2. dirty' = {} /\ uiMain' \in UiPc
    BY <1>2 DEF TickCopy, Copy, UiPc
  <2> QED BY <1>2, <2>1, <2>2 DEF TickCopy, IpcTypeOK, UiTypeOK
<1>3. CASE TickRender
  <2>1. \A k \in DOMAIN local : k \in UiKinds /\ Append(shown[k], local[k]) \in Seq(Nat)
    BY DEF UiTypeOK
  <2>2. shown' \in [UiKinds -> Seq(Nat)]
    BY <1>3, <2>1 DEF TickRender, Visible, UiTypeOK
  <2>3. DOMAIN local' = {} /\ uiMain' \in UiPc
    BY <1>3 DEF TickRender, Handled, UiPc
  <2> QED BY <1>3, <2>2, <2>3 DEF TickRender, IpcTypeOK, UiTypeOK
<1> QED BY <1>1, <1>2, <1>3

LEMMA UiExitType ==
  ASSUME IpcTypeOK, UiTypeOK,
         \/ UiLeaveLoop \/ JoinRecv \/ JoinAlert \/ JoinInput \/ UiSignal \/ UiDies
         \/ MoveSlider \/ UiSemWait \/ UiSemPost
  PROVE  IpcTypeOK' /\ UiTypeOK'
<1> USE CapacityAssumption DEF dashboard, ipcVars, UiPc
<1>1. CASE UiLeaveLoop
  BY <1>1 DEF UiLeaveLoop, IpcTypeOK, UiTypeOK
<1>2. CASE JoinRecv
  BY <1>2 DEF JoinRecv, IpcTypeOK, UiTypeOK
<1>3. CASE JoinAlert
  BY <1>3 DEF JoinAlert, IpcTypeOK, UiTypeOK
<1>4. CASE JoinInput
  BY <1>4 DEF JoinInput, IpcTypeOK, UiTypeOK
<1>5. CASE UiSignal
  <2>1. IpcTypeOK'
    BY <1>5 DEF UiSignal, IpcTypeOK
  <2>2. UiTypeOK'
    BY <1>5 DEF UiSignal, UiTypeOK
  <2> QED BY <2>1, <2>2
<1>6. CASE UiDies
  <2>1. DOMAIN local' = {} /\ uiBus' \in Seq(Event) /\ Len(uiBus') <= UiQueue
        /\ frames' \in Seq(Event) /\ Len(frames') <= SockCap
    BY <1>6 DEF UiDies
  <2>2. input' \in [Inputs -> {"test", "read", "done"}]
    BY <1>6 DEF UiDies
  <2> QED BY <1>6, <2>1, <2>2 DEF UiDies, IpcTypeOK, UiTypeOK
<1>7. CASE MoveSlider
  BY <1>7 DEF MoveSlider, IpcTypeOK, UiTypeOK
<1>8. CASE UiSemWait
  BY <1>8 DEF UiSemWait, uiVars, IpcTypeOK, UiTypeOK
<1>9. CASE UiSemPost
  BY <1>9 DEF UiSemPost, IpcTypeOK, UiTypeOK
<1> QED BY <1>1, <1>2, <1>3, <1>4, <1>5, <1>6, <1>7, <1>8, <1>9

LEMMA TypeStep == TypeOK /\ [Next]_vars => TypeOK'
<1> SUFFICES ASSUME TypeOK, [Next]_vars PROVE TypeOK'
  OBVIOUS
<1>1. IpcTypeOK /\ DaemonTypeOK /\ UiTypeOK /\ faults \in 0..MaxFaults
  BY DEF TypeOK
<1>2. CASE Next
  <2>1. faults' \in 0..MaxFaults
    BY <1>1, <1>2, MaxFaultsAssumption DEF Next, DaemonOnly, UiOnly, Fault
  <2>2. CASE DaemonAct /\ UNCHANGED uiVars
    <3>1. IpcTypeOK' /\ DaemonTypeOK'
      BY <1>1, <2>2, LoopStepType, ConsumerType, DaemonMainType DEF DaemonAct
    <3>2. UiTypeOK'
      BY <1>1, <2>2 DEF UiTypeOK, uiVars
    <3> QED BY <2>1, <3>1, <3>2 DEF TypeOK
  <2>3. CASE UiAct /\ UNCHANGED daemonVars
    <3>1. IpcTypeOK' /\ UiTypeOK'
      BY <1>1, <2>3, ReceiversType, InputType, DashboardType, UiExitType DEF UiAct, UiMain
    <3>2. DaemonTypeOK'
      BY <1>1, <2>3 DEF DaemonTypeOK, daemonVars
    <3> QED BY <2>1, <3>1, <3>2 DEF TypeOK
  <2> QED BY <1>2, <2>2, <2>3, StepIsOneProcess
<1>3. CASE UNCHANGED vars
  BY <1>1, <1>3 DEF vars, ipcVars, daemonVars, uiVars,
     TypeOK, IpcTypeOK, DaemonTypeOK, UiTypeOK
<1> QED BY <1>2, <1>3

\* No queue ever exceeds its capacity and no variable leaves its type, whatever
\* the sensors, capacities and bounds.
THEOREM PanelTypeCorrect == Spec => []TypeOK
BY TypeInit, TypeStep, PTL DEF Spec

============================================================================
