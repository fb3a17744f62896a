------------------------- MODULE PanelSafetyProofs -------------------------
(***************************************************************************)
(* The safety properties of the panel that its type invariant does not     *)
(* give: each from an inductive strengthening of its own.                  *)
(***************************************************************************)
EXTENDS PanelProofs, FiniteSetTheorems

----------------------------------------------------------------------------
(* The cost of a disconnection. *)

\* While a descriptor is set nothing has been cut short, and only a handler
\* that has seen one can be inside send().
DisconnectInv ==
  /\ sockFd = "set" => cutShort = {}
  /\ step = "sending" => sockFd = "set"
  /\ \E e \in {ev} \cup cutShort : cutShort \subseteq {e}

LEMMA DisconnectInit == Init => DisconnectInv
BY DEF Init, DaemonInit, DisconnectInv

\* Only Disconnect cuts an event short, and it finds cutShort empty.
LEMMA DisconnectByDaemon ==
  ASSUME DisconnectInv, DaemonAct
  PROVE  DisconnectInv'
<1> USE DEF DisconnectInv
<1>1. CASE \E w \in Loops : LoopStep(w)
  BY <1>1 DEF LoopStep, LoopTest, SensorPost, LoopSkip, SemWait, SemPost, consumerVars
<1>2. CASE Dispatch \/ SkipSend \/ BeginSend \/ Write \/ Algo \/ Alert
  BY <1>2 DEF Dispatch, SkipSend, BeginSend, Write, Algo, Alert, AfterSend, outside
<1>3. CASE SendFails
  BY <1>3 DEF SendFails, Disconnect
<1>4. CASE \E o \in Sinks : EnterSink(o) \/ LeaveSink(o)
  BY <1>4 DEF EnterSink, LeaveSink, Inside, AfterSink, Sinks, outside
<1>5. CASE DaemonMain \/ DaemonSignal \/ DaemonDies
  BY <1>5 DEF DaemonMain, LeaveLoop, JoinThreads, Release, CloseClient, DestroyBus,
     DaemonSignal, DaemonDies, consumerVars
<1> QED BY <1>1, <1>2, <1>3, <1>4, <1>5 DEF DaemonAct, Consumer

LEMMA DisconnectStep == DisconnectInv /\ [Next]_vars => DisconnectInv'
<1> SUFFICES ASSUME DisconnectInv, [Next]_vars PROVE DisconnectInv'
  OBVIOUS
<1>1. CASE UNCHANGED daemonVars
  BY <1>1 DEF daemonVars, DisconnectInv
<1>2. CASE DaemonAct
  BY <1>2, DisconnectByDaemon
<1> QED BY <1>1, <1>2, StepIsOneProcess DEF vars

LEMMA DisconnectEnough == DisconnectInv => DisconnectCostsOneEvent
<1> SUFFICES ASSUME NEW e, cutShort \subseteq {e} PROVE Cardinality(cutShort) <= 1
  BY DEF DisconnectInv, DisconnectCostsOneEvent
<1>1. IsFiniteSet({e}) /\ Cardinality({e}) = 1
  BY FS_Singleton
<1> QED BY <1>1, FS_Subset

\* A UI that goes away costs the daemon one event at the most, however often
\* signals, sends and closes cross.
THEOREM DisconnectCosts == Spec => []DisconnectCostsOneEvent
BY DisconnectInit, DisconnectStep, DisconnectEnough, PTL DEF Spec

----------------------------------------------------------------------------
(* The quiet teardown. *)

\* From the first release on every thread main() joins has ended.
JoinedInv == main \in Teardown \cup {"exited"} => \A w \in Loops : loop[w] = "done"

LEMMA JoinedInit == Init => JoinedInv
BY DEF Init, DaemonInit, JoinedInv, Teardown, Resources

LEMMA JoinedByDaemon ==
  ASSUME DaemonTypeOK, JoinedInv, DaemonAct
  PROVE  JoinedInv'
<1> USE DEF JoinedInv
<1>1. CASE \E w \in Loops : LoopStep(w)
  BY <1>1 DEF LoopStep, LoopTest, SensorPost, LoopSkip, SemWait, SemPost, Loops
<1>2. CASE Consumer
  <2>1. UNCHANGED <<main, loop, taken>>
    BY <1>2 DEF Consumer, Dispatch, SkipSend, BeginSend, Write, SendFails, Disconnect,
       Algo, Alert, EnterSink, LeaveSink, outside
  <2> QED BY <2>1
<1>3. CASE LeaveLoop \/ JoinThreads \/ Release \/ CloseClient \/ DestroyBus
  BY <1>3 DEF LeaveLoop, JoinThreads, Release, CloseClient, DestroyBus, Teardown, Resources
<1>4. CASE DaemonSignal \/ DaemonDies
  BY <1>4 DEF DaemonSignal, DaemonDies, Teardown, Resources
<1> QED BY <1>1, <1>2, <1>3, <1>4 DEF DaemonAct, DaemonMain

LEMMA JoinedStep == TypeOK /\ JoinedInv /\ [Next]_vars => JoinedInv'
<1> SUFFICES ASSUME TypeOK, JoinedInv, [Next]_vars PROVE JoinedInv'
  OBVIOUS
<1>1. CASE UNCHANGED daemonVars
  BY <1>1 DEF daemonVars, JoinedInv
<1>2. CASE DaemonAct
  BY <1>2, JoinedByDaemon DEF TypeOK
<1> QED BY <1>1, <1>2, StepIsOneProcess DEF vars

\* A thread that has ended takes no reading.
LEMMA DoneTakesNothing ==
  ASSUME JoinedInv, [Next]_vars, main \in Teardown \cup {"exited"}
  PROVE  taken' = taken
<1>1. CASE UNCHANGED daemonVars
  BY <1>1 DEF daemonVars
<1>2. CASE DaemonAct
  BY <1>2 DEF JoinedInv, DaemonAct, LoopStep, LoopTest, SensorPost, LoopSkip, SemWait, SemPost, Loops,
     Consumer, Dispatch, SkipSend, BeginSend, Write, SendFails, Disconnect, Algo, Alert,
     EnterSink, LeaveSink, outside, DaemonMain, LeaveLoop, JoinThreads, Release,
     CloseClient, DestroyBus, DaemonSignal, DaemonDies
<1> QED BY <1>1, <1>2, StepIsOneProcess DEF vars

\* No sensor takes a reading once main() has begun to release what the handlers
\* of a reading need.
THEOREM TeardownIsQuiet == Spec => QuietTeardown
<1>1. JoinedInv /\ [Next]_vars
      => [(main \in Teardown \cup {"exited"}) => taken' = taken]_vars
  BY DoneTakesNothing
<1> QED BY <1>1, PanelTypeCorrect, JoinedInit, JoinedStep, PTL DEF Spec, QuietTeardown

----------------------------------------------------------------------------
(* No reading is lost. *)

Serving == main \in {"loop", "join"}

Stored(k) == Range(rows["db"][k])

Kept == Range(bus) \cup dropped

\* A handler that is past the database has stored its event or seen it refused,
\* and the handler of a dht11 reading has queued the comfort index before it comes to the database.
ReadingInv ==
  /\ Serving => "db" \in up
  /\ Serving /\ step \in {"mqtt", "inMqtt"} => ev.n \in Stored(ev.kind) \/ ev \in dropped
  /\ Serving /\ step \in {"alert", "db", "inDb"} /\ ev.kind = "dht11"
       => EventOf("comfort", ev.n) \in Kept
  /\ NoReadingLost

LEMMA RangeOfAppend ==
  ASSUME NEW S, NEW q \in Seq(S), NEW x \in S
  PROVE  Range(Append(q, x)) = Range(q) \cup {x}
<1>1. \A i \in 1..Len(q) : Append(q, x)[i] = q[i]
  OBVIOUS
<1>2. DOMAIN Append(q, x) = 1..(Len(q) + 1) /\ Append(q, x)[Len(q) + 1] = x
  OBVIOUS
<1>3. DOMAIN q = 1..Len(q) /\ Len(q) \in Nat
  OBVIOUS
<1>4. 1..(Len(q) + 1) = (1..Len(q)) \cup {Len(q) + 1}
  BY <1>3
<1> QED BY <1>1, <1>2, <1>3, <1>4 DEF Range

LEMMA RangeOfTail ==
  ASSUME NEW S, NEW q \in Seq(S), q # <<>>, NEW x \in Range(q)
  PROVE  x = Head(q) \/ x \in Range(Tail(q))
<1>1. PICK i \in 1..Len(q) : x = q[i]
  BY DEF Range
<1>2. CASE i = 1
  BY <1>1, <1>2
<1>3. CASE i # 1
  <2>1. Tail(q) \in Seq(S) /\ Len(Tail(q)) = Len(q) - 1
    BY TailType
  <2>2. i - 1 \in 1..Len(Tail(q)) /\ Tail(q)[i - 1] = x
    BY <1>1, <1>3, <2>1
  <2>3. DOMAIN Tail(q) = 1..Len(Tail(q))
    BY <2>1
  <2> QED BY <2>2, <2>3 DEF Range
<1> QED BY <1>2, <1>3

\* A post keeps what is queued or dropped, and adds the event to one or other.
LEMMA PostKeeps ==
  ASSUME DaemonTypeOK, NEW e \in DaemonEvent, PostToBus(e)
  PROVE  Kept' = Kept \cup {e}
<1>1. CASE Len(bus) < DaemonQueue
  <2>1. bus' = Append(bus, e) /\ dropped' = dropped
    BY <1>1 DEF PostToBus, Post
  <2>2. Range(bus') = Range(bus) \cup {e}
    BY <2>1, RangeOfAppend DEF DaemonTypeOK
  <2> QED BY <2>1, <2>2 DEF Kept
<1>2. CASE ~(Len(bus) < DaemonQueue)
  BY <1>2 DEF PostToBus, Post, Kept
<1> QED BY <1>1, <1>2

LEMMA ServingBefore ==
  ASSUME DaemonAct, Serving'
  PROVE  Serving /\ up' = up
BY DEF DaemonAct, Serving, LoopStep, LoopTest, SensorPost, LoopSkip, SemWait, SemPost,
   Consumer, Dispatch, SkipSend, BeginSend, Write, SendFails, Disconnect, Algo, Alert,
   EnterSink, LeaveSink, outside, DaemonMain, LeaveLoop, JoinThreads, Release,
   CloseClient, DestroyBus, DaemonSignal, DaemonDies, Resources

\* What is owed stays accounted for when nothing new is owed.
LEMMA NothingNewOwed ==
  ASSUME UNCHANGED taken, Stored("dht11")' = Stored("dht11"),
         \A e \in Owed : Accounted(e)'
  PROVE  NoReadingLost'
BY DEF NoReadingLost, Owed, Stored

\* Steps that move the consumer on inside a handler, or do not concern it.
LEMMA ReadingMovesOn ==
  ASSUME ReadingInv, Serving, Serving', UNCHANGED <<up, taken, bus, ev, dropped>>,
         rows'["db"] = rows["db"],
         cutShort \subseteq cutShort',
         step # "idle" /\ step' = "idle" =>
           \/ ev \in dropped \cup cutShort'
           \/ ev.n \in Stored(ev.kind),
         step' \in {"mqtt", "inMqtt"} => step \in {"mqtt", "inMqtt"},
         /\ step' \in {"alert", "db", "inDb"}
         /\ ev.kind = "dht11"
         => step \in {"alert", "db", "inDb"}
  PROVE  ReadingInv'
<1> USE DEF ReadingInv, Serving
<1>1. \A e : Accounted(e) => Accounted(e)'
  BY DEF Accounted, Stored
<1>2. NoReadingLost'
  <2>1. \A e \in Owed : Accounted(e)
    BY DEF NoReadingLost
  <2> QED BY <1>1, <2>1, NothingNewOwed DEF Stored
<1> QED BY <1>2 DEF Stored, Kept

\* A sensor's post is accounted for by the queue, or by the overflow.
LEMMA ReadingTaken ==
  ASSUME DaemonTypeOK, ReadingInv, Serving, Serving', NEW s \in Sensors, SensorPost(s)
  PROVE  ReadingInv'
<1> DEFINE r == EventOf(s, taken[s] + 1)
<1>1. r \in DaemonEvent
  BY KindsOfSensors DEF DaemonEvent, EventOf, DaemonTypeOK
<1>2. Kept' = Kept \cup {r}
  BY <1>1, PostKeeps DEF SensorPost
<1>3. UNCHANGED <<up, ev, step, rows, cutShort>>
  BY DEF SensorPost
<1>4. \A e : Accounted(e) \/ e = r => Accounted(e)'
  BY <1>2, <1>3 DEF Accounted, Kept
<1>5. \A e \in Owed' : e \in Owed \/ e = r
  <2> SUFFICES ASSUME NEW e \in Owed', e \notin Owed PROVE e = r
    OBVIOUS
  <2>1. /\ e \in [kind : Sensors, n : 1..(MaxReadings + 1)]
        /\ e.n <= taken'[e.kind]
        /\ ~(e.n <= taken[e.kind])
    BY <1>3 DEF Owed
  <2>2. taken' = [taken EXCEPT ![s] = @ + 1] /\ taken \in [Sensors -> 0..(MaxReadings + 1)]
    BY DEF SensorPost, DaemonTypeOK
  <2>3. e.kind = s /\ e.n <= taken[s] + 1 /\ ~(e.n <= taken[s])
    BY <2>1, <2>2
  <2>4. e.n \in Nat /\ taken[s] \in Nat
    BY <2>1, <2>2, MaxReadingsAssumption
  <2>5. e.n = taken[s] + 1
    BY <2>3, <2>4
  <2>6. e = [kind |-> e.kind, n |-> e.n]
    BY <2>1
  <2> QED BY <2>3, <2>5, <2>6 DEF EventOf
<1>6. NoReadingLost'
  BY <1>4, <1>5 DEF ReadingInv, NoReadingLost, Serving
<1>7. dropped \subseteq dropped'
  BY DEF SensorPost, PostToBus
<1> QED BY <1>2, <1>3, <1>6, <1>7 DEF ReadingInv, Serving, Stored

\* Dispatch moves the oldest event from the queue into its handler.
LEMMA ReadingDispatched ==
  ASSUME DaemonTypeOK, ReadingInv, Serving, Serving', Dispatch
  PROVE  ReadingInv'
<1>1. /\ bus # <<>> /\ bus \in Seq(DaemonEvent) /\ bus' = Tail(bus) /\ ev' = Head(bus)
      /\ step' = IF Head(bus).kind = "anomaly" THEN "alert" ELSE "send"
      /\ step = "idle"
  BY DEF Dispatch, DaemonTypeOK
<1>2. UNCHANGED <<up, taken, rows, dropped, cutShort>>
  BY DEF Dispatch, outside
<1>3. \A e : Accounted(e) => Accounted(e)'
  BY <1>1, <1>2, RangeOfTail DEF Accounted
<1>4. NoReadingLost'
  <2>1. \A e \in Owed : Accounted(e)
    BY DEF ReadingInv, NoReadingLost, Serving
  <2> QED BY <1>2, <1>3, <2>1, NothingNewOwed DEF Stored
<1> QED BY <1>1, <1>2, <1>4 DEF ReadingInv, Serving

\* The algorithms post what they derive before the handler stores its event.
LEMMA ReadingDerived ==
  ASSUME DaemonTypeOK, ReadingInv, Serving, Serving', Algo
  PROVE  ReadingInv'
<1>1. step = "algo" /\ step' = "db" /\ UNCHANGED <<up, taken, ev, rows, cutShort>>
  BY DEF Algo, outside
<1>2. ev \in DaemonEvent
  BY <1>1 DEF DaemonTypeOK
<1>3. Kept \subseteq Kept' /\ (ev.kind = "dht11" => EventOf("comfort", ev.n) \in Kept')
  <2>1. CASE ev.kind = "dht11" /\ PostToBus(EventOf("comfort", ev.n))
    <3>1. EventOf("comfort", ev.n) \in DaemonEvent
      BY <1>2, <2>1, KindsOfSensors DEF DaemonEvent, EventOf
    <3> QED BY <2>1, <3>1, PostKeeps
  <2>2. CASE ev.kind = "adxl345" /\ PostToBus(EventOf("anomaly", ev.n))
    <3>1. EventOf("anomaly", ev.n) \in DaemonEvent
      BY <1>2, <2>2, KindsOfSensors DEF DaemonEvent, EventOf
    <3> QED BY <2>2, <3>1, PostKeeps
  <2>3. CASE ev.kind = "adxl345" /\ UNCHANGED <<bus, dropped>>
    BY <2>3 DEF Kept
  <2> QED BY <2>1, <2>2, <2>3 DEF Algo
<1>4. \A e : Accounted(e) => Accounted(e)'
  BY <1>1, <1>3 DEF Accounted, Kept
<1>5. NoReadingLost'
  <2>1. \A e \in Owed : Accounted(e)
    BY DEF ReadingInv, NoReadingLost, Serving
  <2> QED BY <1>1, <1>4, <2>1, NothingNewOwed DEF Stored
<1> QED BY <1>1, <1>3, <1>5 DEF ReadingInv, Serving, Stored

\* A row is written.
LEMMA ReadingStored ==
  ASSUME DaemonTypeOK, ReadingInv, Serving, Serving', LeaveSink("db"),
         rows' = [rows EXCEPT !["db"][ev.kind] = Append(@, ev.n)], UNCHANGED dropped
  PROVE  ReadingInv'
<1>1. /\ step = "inDb" /\ step' = "mqtt" /\ "db" \in up
      /\ UNCHANGED <<up, taken, bus, ev, dropped, cutShort>>
      /\ rows' = [rows EXCEPT !["db"][ev.kind] = Append(@, ev.n)]
  BY DEF LeaveSink, Inside, AfterSink, outside, ReadingInv
<1>2. ev \in DaemonEvent /\ ev.kind \in Kinds /\ ev.n \in Nat
  BY <1>1 DEF DaemonTypeOK, DaemonEvent
<1>3. /\ rows \in [Sinks -> [Kinds -> Seq(Nat)]]
      /\ "db" \in Sinks /\ rows["db"] \in [Kinds -> Seq(Nat)]
  BY DEF DaemonTypeOK, Sinks
<1>4. \A k \in Kinds : rows'["db"][k] = IF k = ev.kind THEN Append(rows["db"][k], ev.n) ELSE rows["db"][k]
  BY <1>1, <1>2, <1>3
<1>5. \A k \in Kinds : Stored(k)' = Stored(k) \cup (IF k = ev.kind THEN {ev.n} ELSE {})
  <2> TAKE k \in Kinds
  <2>1. rows["db"][k] \in Seq(Nat)
    BY <1>3
  <2>2. Range(Append(rows["db"][k], ev.n)) = Range(rows["db"][k]) \cup {ev.n}
    BY <1>2, <2>1, RangeOfAppend
  <2> QED BY <1>4, <2>2 DEF Stored
<1>6. \A e \in [kind : Kinds, n : Nat] : Accounted(e) => Accounted(e)'
  BY <1>1, <1>5 DEF Accounted, Stored
<1>7. \A e \in Owed' : Accounted(e)'
  <2> SUFFICES ASSUME NEW e \in Owed' PROVE Accounted(e)'
    OBVIOUS
  <2>1. CASE e \in Owed
    <3>1. Accounted(e)
      BY <2>1 DEF ReadingInv, NoReadingLost, Serving
    <3>2. e \in [kind : Kinds, n : Nat]
      BY <2>1, KindsOfSensors, MaxReadingsAssumption DEF Owed
    <3> QED BY <3>1, <3>2, <1>6
  <2>2. CASE e \notin Owed
    <3>1. /\ e \in [kind : Kinds \cap {"comfort"}, n : 1..(MaxReadings + 1)]
          /\ e.n \in Stored("dht11")' /\ e.n \notin Stored("dht11")
      BY <1>1, <2>2 DEF Owed, Stored
    <3>2. "dht11" \in Kinds
      BY <3>1, SensorsAssumption DEF Kinds, Source
    <3>3. ev.kind = "dht11" /\ e.n = ev.n
      BY <1>5, <3>1, <3>2
    <3>4. e = EventOf("comfort", ev.n)
      BY <3>1, <3>3 DEF EventOf
    <3>5. e \in Kept
      BY <1>1, <3>3, <3>4 DEF ReadingInv
    <3> QED BY <1>1, <3>5 DEF Accounted, Kept
  <2> QED BY <2>1, <2>2
<1>8. NoReadingLost'
  BY <1>7 DEF NoReadingLost
<1> QED BY <1>1, <1>2, <1>5, <1>8 DEF ReadingInv

\* SQLite refuses a row.
LEMMA ReadingRefused ==
  ASSUME DaemonTypeOK, ReadingInv, Serving, Serving', LeaveSink("db"),
         dropped' = dropped \cup {ev}, UNCHANGED rows
  PROVE  ReadingInv'
<1>1. /\ step = "inDb" /\ step' = "mqtt"
      /\ UNCHANGED <<up, taken, bus, ev, cutShort>>
  BY DEF LeaveSink, Inside, AfterSink, outside
<1>2. \A e : Accounted(e) => Accounted(e)'
  BY <1>1 DEF Accounted
<1>3. NoReadingLost'
  <2>1. \A e \in Owed : Accounted(e)
    BY DEF ReadingInv, NoReadingLost, Serving
  <2> QED BY <1>1, <1>2, <2>1, NothingNewOwed DEF Stored
<1> QED BY <1>1, <1>3 DEF ReadingInv, Serving

LEMMA ReadingByDaemon ==
  ASSUME DaemonTypeOK, ReadingInv, DaemonAct
  PROVE  ReadingInv'
<1> SUFFICES ASSUME Serving' PROVE ReadingInv'
  BY DEF ReadingInv, NoReadingLost, Serving
<1>0. Serving /\ up' = up
  BY ServingBefore
<1>1. CASE \E w \in Loops : LoopStep(w)
  <2>1. PICK w \in Loops : LoopStep(w)
    BY <1>1
  <2>2. CASE w \in Sensors /\ SensorPost(w)
    BY <1>0, <2>2, ReadingTaken
  <2>3. CASE LoopTest(w) \/ LoopSkip(w) \/ SemWait(w) \/ SemPost(w)
    BY <1>0, <2>3, ReadingMovesOn DEF LoopTest, LoopSkip, SemWait, SemPost, consumerVars
  <2> QED BY <2>1, <2>2, <2>3 DEF LoopStep
<1>2. CASE Dispatch
  BY <1>0, <1>2, ReadingDispatched
<1>3. CASE SkipSend \/ BeginSend \/ Write
  BY <1>0, <1>3, ReadingMovesOn DEF SkipSend, BeginSend, Write, AfterSend, outside
<1>4. CASE SendFails
  BY <1>0, <1>4, ReadingMovesOn DEF SendFails, Disconnect
<1>5. CASE Algo
  BY <1>0, <1>5, ReadingDerived
<1>6. CASE Alert
  BY <1>0, <1>6, ReadingMovesOn DEF Alert, outside
<1>7. CASE \E o \in Sinks : EnterSink(o) \/ LeaveSink(o)
  <2>1. CASE EnterSink("db")
    BY <1>0, <2>1, ReadingMovesOn DEF ReadingInv, EnterSink, Inside, AfterSink, outside
  <2>2. CASE EnterSink("mqtt")
    BY <1>0, <2>2, ReadingMovesOn DEF ReadingInv, EnterSink, Inside, AfterSink, outside
  <2>3. CASE LeaveSink("db")
    BY <1>0, <2>3, ReadingStored, ReadingRefused DEF LeaveSink
  <2>4. CASE LeaveSink("mqtt")
    <3>1. rows'["db"] = rows["db"]
      BY <2>4 DEF LeaveSink, DaemonTypeOK, Sinks
    <3> QED BY <1>0, <2>4, <3>1, ReadingMovesOn DEF ReadingInv, LeaveSink, Inside, AfterSink, outside
  <2> QED BY <1>7, <2>1, <2>2, <2>3, <2>4 DEF Sinks
<1>8. CASE DaemonMain \/ DaemonSignal
  <2>1. UNCHANGED <<up, taken, bus, ev, step, rows, dropped, cutShort>>
    BY <1>0, <1>8 DEF DaemonMain, LeaveLoop, JoinThreads, Release, CloseClient, DestroyBus,
       DaemonSignal, Serving, Resources, consumerVars
  <2> QED BY <1>0, <2>1, ReadingMovesOn
<1>9. CASE DaemonDies
  BY <1>9 DEF DaemonDies, Serving
<1> QED BY <1>1, <1>2, <1>3, <1>4, <1>5, <1>6, <1>7, <1>8, <1>9 DEF DaemonAct, Consumer

LEMMA ReadingInit == Init => ReadingInv
<1> SUFFICES ASSUME Init PROVE ReadingInv
  OBVIOUS
<1>1. step = "idle" /\ "db" \in up /\ taken = [s \in Sensors |-> 0]
      /\ rows = [o \in Sinks |-> [k \in Kinds |-> <<>>]]
  BY DEF Init, DaemonInit
<1>2. ~ \E e \in [kind : Sensors, n : 1..(MaxReadings + 1)] : e.n <= taken[e.kind]
  BY <1>1, MaxReadingsAssumption
<1>3. "comfort" \in Kinds => Stored("dht11") = {}
  <2>1. "comfort" \in Kinds => "dht11" \in Kinds
    BY SensorsAssumption DEF Kinds, Source
  <2> QED BY <1>1, <2>1 DEF Stored, Range, Sinks
<1>4. Owed = {}
  BY <1>2, <1>3 DEF Owed, Stored
<1> QED BY <1>1, <1>4 DEF ReadingInv, NoReadingLost

LEMMA ReadingStep == TypeOK /\ ReadingInv /\ [Next]_vars => ReadingInv'
<1> SUFFICES ASSUME TypeOK, ReadingInv, [Next]_vars PROVE ReadingInv'
  OBVIOUS
<1>1. CASE UNCHANGED daemonVars
  BY <1>1 DEF daemonVars, ReadingInv, NoReadingLost, Owed, Accounted, Serving, Stored, Kept
<1>2. CASE DaemonAct
  BY <1>2, ReadingByDaemon DEF TypeOK
<1> QED BY <1>1, <1>2, StepIsOneProcess DEF vars

\* Whatever becomes of the UI, the daemon loses no reading and no comfort index
\* on the way to its database but to a full queue and to the one disconnection.
THEOREM ReadingsAreKept == Spec => []NoReadingLost
<1>1. ReadingInv => NoReadingLost
  BY DEF ReadingInv
<1> QED BY <1>1, PanelTypeCorrect, ReadingInit, ReadingStep, PTL DEF Spec

============================================================================
