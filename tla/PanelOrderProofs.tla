-------------------------- MODULE PanelOrderProofs -------------------------
(***************************************************************************)
(* Order on the way from the sensors to the database, MQTT and the screen. *)
(*                                                                         *)
(* The invariant follows an event through every place it can be in, and    *)
(* says of each place that what is there is older than what is still to    *)
(* come of the same kind: from the sensor's count through the daemon's     *)
(* queue, the handler, socket and alert queue, the UI's queue, the cache   *)
(* and tick()'s copy.                                                      *)
(***************************************************************************)
EXTENDS PanelProofs

\* The steps of a handler before its event has left for the UI, before another
\* event has been derived from it, and before it is through with sink o.
Unsent == {"send", "sending", "alert"}
Deriving == {"send", "sending", "algo"}
Before(o) == IF o = "db" THEN Unsent \cup {"algo", "db", "inDb"} ELSE Steps \ {"idle"}

\* m is older than whatever becomes an event of kind k: in the daemon's queue, as
\* that event or as the reading it will stem from,
BelowBus(k, m) ==
  \A i \in 1..Len(bus) : bus[i].kind \in {k, Source(k)} => m < bus[i].n

\* in a handler that has yet to derive it,
BelowDerived(k, m) ==
  step \in Deriving /\ ev.kind = Source(k) /\ Source(k) # k => m < ev.n

\* or not even measured.
Upcoming(k, m) == m <= taken[Source(k)] /\ BelowBus(k, m) /\ BelowDerived(k, m)

\* The same, and m has left for the UI before the event in its handler does.
Upstream(k, m) == Upcoming(k, m) /\ (step \in Unsent /\ ev.kind = k => m < ev.n)

\* m is older than every event of kind k in q.
BelowAll(q, k, m) == \A i \in 1..Len(q) : q[i].kind = k => m < q[i].n

\* The same for everything that has not reached the UI's queue.
InFlight(k, m) == Upstream(k, m) /\ BelowAll(frames, k, m) /\ BelowAll(alerts, k, m)

\* A queue holds the events of each kind in order.
InOrder(q) ==
  \A i, j \in 1..Len(q) :
    i < j /\ q[i].kind \in Kinds /\ q[j].kind = q[i].kind => q[i].n < q[j].n

----------------------------------------------------------------------------
\* In the daemon's queue, an event that stems from a reading is also older than
\* the readings queued with it, whatever their places.
BusInOrder ==
  /\ InOrder(bus)
  /\ \A i \in 1..Len(bus) :
       /\ 1 <= bus[i].n /\ bus[i].n <= taken[Source(bus[i].kind)]
       /\ BelowDerived(bus[i].kind, bus[i].n)
  /\ \A i, j \in 1..Len(bus) :
       bus[j].kind = Source(bus[i].kind) /\ bus[j].kind # bus[i].kind
         => bus[i].n < bus[j].n

HandlerInOrder ==
  /\ step # "idle" => 1 <= ev.n /\ Upcoming(ev.kind, ev.n)
  /\ step = "alert" => ev.kind = "anomaly"
  /\ step \in Deriving => ev.kind # "anomaly"

\* What a sink received last is older than what it has yet to receive.
RowsInOrder ==
  \A o \in Sinks, k \in Kinds :
    /\ Upcoming(k, LastOf(rows[o][k]))
    /\ step \in Before(o) /\ ev.kind = k => LastOf(rows[o][k]) < ev.n

\* The invariant of the daemon.
DaemonInOrder == BusInOrder /\ HandlerInOrder /\ RowsInOrder

\* Alerts have the alert queue to themselves, and all else the socket.
FlightInOrder ==
  /\ InOrder(frames) /\ InOrder(alerts)
  /\ \A i \in 1..Len(frames) :
       frames[i].kind \in Kinds \ {"anomaly"} /\ Upstream(frames[i].kind, frames[i].n)
  /\ \A i \in 1..Len(alerts) :
       alerts[i].kind \in Kinds \cap {"anomaly"} /\ Upstream(alerts[i].kind, alerts[i].n)

UiBusInOrder ==
  /\ InOrder(uiBus)
  /\ \A i \in 1..Len(uiBus) :
       uiBus[i].kind \in Kinds => InFlight(uiBus[i].kind, uiBus[i].n)

\* The value on screen, tick()'s copy, the cache, and what is on its way; a value
\* with its dirty flag set is a new one.
ScreenInOrder ==
  \A k \in Kinds :
    /\ InFlight(k, cache[k]) /\ BelowAll(uiBus, k, cache[k])
    /\ LastOf(shown[k]) <= cache[k]
    /\ k \in DOMAIN local => LastOf(shown[k]) < local[k] /\ local[k] <= cache[k]
    /\ k \in dirty =>
         /\ LastOf(shown[k]) < cache[k]
         /\ k \in DOMAIN local => local[k] < cache[k]

\* The inductive invariant.
OrderInv == DaemonInOrder /\ FlightInOrder /\ UiBusInOrder /\ ScreenInOrder

----------------------------------------------------------------------------
(* Queues, and the kinds of the readings. *)

LEMMA EventElements ==
  ASSUME NEW q \in Seq(Event)
  PROVE  \A i \in 1..Len(q) : q[i].kind \in UiKinds /\ q[i].n \in Nat
<1>1. \A i \in 1..Len(q) : q[i] \in Event
  OBVIOUS
<1> QED BY <1>1 DEF Event

\* What a post leaves in a queue.
LEMMA PostElements ==
  ASSUME NEW S, NEW q \in Seq(S), NEW e \in S, NEW cap \in Nat
  PROVE  /\ Len(Post(q, e, cap)) \in {Len(q), Len(q) + 1}
         /\ \A i \in 1..Len(Post(q, e, cap)) :
              \/ i \in 1..Len(q) /\ Post(q, e, cap)[i] = q[i]
              \/ i = Len(q) + 1 /\ Post(q, e, cap)[i] = e
<1>1. CASE Len(q) < cap
  <2>1. Post(q, e, cap) = Append(q, e)
    BY <1>1 DEF Post
  <2>2. Len(Append(q, e)) = Len(q) + 1 /\ Append(q, e)[Len(q) + 1] = e
    OBVIOUS
  <2>3. \A i \in 1..Len(q) : Append(q, e)[i] = q[i]
    OBVIOUS
  <2>4. \A i \in 1..(Len(q) + 1) : i \in 1..Len(q) \/ i = Len(q) + 1
    OBVIOUS
  <2> QED BY <2>1, <2>2, <2>3, <2>4
<1>2. CASE ~(Len(q) < cap)
  <2>1. Post(q, e, cap) = q
    BY <1>2 DEF Post
  <2> QED BY <2>1
<1> QED BY <1>1, <1>2

\* The same without a bound.
LEMMA AppendElements ==
  ASSUME NEW S, NEW q \in Seq(S), NEW e \in S
  PROVE  /\ Len(Append(q, e)) = Len(q) + 1
         /\ \A i \in 1..Len(Append(q, e)) :
              \/ i \in 1..Len(q) /\ Append(q, e)[i] = q[i]
              \/ i = Len(q) + 1 /\ Append(q, e)[i] = e
<1>1. Len(Append(q, e)) = Len(q) + 1 /\ Append(q, e)[Len(q) + 1] = e
  OBVIOUS
<1>2. \A i \in 1..Len(q) : Append(q, e)[i] = q[i]
  OBVIOUS
<1>3. \A i \in 1..(Len(q) + 1) : i \in 1..Len(q) \/ i = Len(q) + 1
  OBVIOUS
<1> QED BY <1>1, <1>2, <1>3

\* What taking the oldest element leaves.
LEMMA TailElements ==
  ASSUME NEW S, NEW q \in Seq(S), q # <<>>
  PROVE  /\ Head(q) = q[1] /\ 1 \in 1..Len(q) /\ Len(q) \in Nat
         /\ \A i \in 1..Len(Tail(q)) :
              i \in Nat /\ i + 1 \in 1..Len(q) /\ 1 < i + 1 /\ Tail(q)[i] = q[i + 1]
OBVIOUS

\* A new event at the end, or none, leaves a queue in order.
LEMMA OrderedPost ==
  ASSUME NEW q \in Seq(Event), NEW r \in Seq(Event), NEW e \in Event, InOrder(q),
         \A i \in 1..Len(r) :
           (i \in 1..Len(q) /\ r[i] = q[i]) \/ (i = Len(q) + 1 /\ r[i] = e),
         \A i \in 1..Len(q) : e.kind \in Kinds /\ q[i].kind = e.kind => q[i].n < e.n
  PROVE  InOrder(r)
<1> SUFFICES ASSUME NEW i \in 1..Len(r), NEW j \in 1..Len(r), i < j,
                    r[i].kind \in Kinds, r[j].kind = r[i].kind
             PROVE  r[i].n < r[j].n
  BY DEF InOrder
<1>1. Len(q) \in Nat
  OBVIOUS
<1>2. i \in 1..Len(q) /\ r[i] = q[i]
  <2>1. j \in 1..Len(q) \/ j = Len(q) + 1
    OBVIOUS
  <2>2. i \in Int /\ j \in Int
    OBVIOUS
  <2>3. i # Len(q) + 1
    BY <1>1, <2>1, <2>2
  <2>4. (i \in 1..Len(q) /\ r[i] = q[i]) \/ (i = Len(q) + 1 /\ r[i] = e)
    OBVIOUS
  <2> QED BY <2>3, <2>4
<1>3. CASE j \in 1..Len(q) /\ r[j] = q[j]
  BY <1>2, <1>3 DEF InOrder
<1>4. CASE r[j] = e
  BY <1>2, <1>4
<1> QED BY <1>3, <1>4

\* Taking the oldest event leaves a queue in order, and behind that event.
LEMMA OrderedTail ==
  ASSUME NEW q \in Seq(Event), q # <<>>, InOrder(q)
  PROVE  /\ InOrder(Tail(q))
         /\ Head(q).kind \in Kinds => BelowAll(Tail(q), Head(q).kind, Head(q).n)
<1>1. /\ Head(q) = q[1] /\ 1 \in 1..Len(q)
      /\ \A i \in 1..Len(Tail(q)) :
           i \in Nat /\ i + 1 \in 1..Len(q) /\ 1 < i + 1 /\ Tail(q)[i] = q[i + 1]
  BY TailElements
<1>2. InOrder(Tail(q))
  <2> SUFFICES ASSUME NEW i \in 1..Len(Tail(q)), NEW j \in 1..Len(Tail(q)), i < j,
                      Tail(q)[i].kind \in Kinds, Tail(q)[j].kind = Tail(q)[i].kind
               PROVE  Tail(q)[i].n < Tail(q)[j].n
    BY DEF InOrder
  <2>1. i + 1 < j + 1
    BY <1>1
  <2> QED BY <1>1, <2>1 DEF InOrder
<1> QED BY <1>1, <1>2 DEF InOrder, BelowAll

\* The reading that an event stems from is a sensor's, and stems from itself.
LEMMA SourceIsSensor ==
  ASSUME NEW k \in Kinds
  PROVE  /\ Source(k) \in Sensors /\ Source(k) \in Kinds
         /\ Source(Source(k)) = Source(k)
         /\ Source(k) # k => k \in {"comfort", "anomaly"} /\ Source(k) \in {"dht11", "adxl345"}
BY SensorsAssumption DEF Kinds, Source

LEMMA SensorIsSource ==
  ASSUME NEW s \in Sensors
  PROVE  Source(s) = s /\ s \in Kinds /\ s # "anomaly" /\ s # "comfort"
BY SensorsAssumption DEF Kinds, Source

LEMMA InputsAreNoKinds == Inputs \cap Kinds = {}
BY InputsAssumption, SensorsAssumption DEF Kinds

\* The type invariant where the order proof needs it.
LEMMA DaemonTypes ==
  ASSUME DaemonTypeOK
  PROVE  /\ bus \in Seq(DaemonEvent) /\ bus \in Seq(Event) /\ Len(bus) \in Nat
         /\ \A i \in 1..Len(bus) : bus[i] \in DaemonEvent /\ bus[i].kind \in Kinds /\ bus[i].n \in Nat
         /\ step # "idle" => ev \in DaemonEvent /\ ev \in Event /\ ev.kind \in Kinds /\ ev.n \in Nat
         /\ \A k \in Kinds : taken[Source(k)] \in Nat
         /\ \A o \in Sinks, k \in Kinds : rows[o][k] \in Seq(Nat) /\ LastOf(rows[o][k]) \in Nat
<1>1. bus \in Seq(DaemonEvent) /\ bus \in Seq(Event)
  BY DaemonEventIsEvent DEF DaemonTypeOK
<1>2. \A i \in 1..Len(bus) : bus[i] \in DaemonEvent /\ bus[i].kind \in Kinds /\ bus[i].n \in Nat
  <2>1. \A i \in 1..Len(bus) : bus[i] \in DaemonEvent
    BY <1>1
  <2> QED BY <2>1 DEF DaemonEvent
<1>3. step # "idle" => ev \in DaemonEvent /\ ev \in Event /\ ev.kind \in Kinds /\ ev.n \in Nat
  BY DaemonEventIsEvent DEF DaemonTypeOK, DaemonEvent
<1>4. \A k \in Kinds : taken[Source(k)] \in Nat
  BY SourceIsSensor, MaxReadingsAssumption DEF DaemonTypeOK
<1>5. \A o \in Sinks, k \in Kinds : rows[o][k] \in Seq(Nat)
  BY DEF DaemonTypeOK
<1>6. \A q \in Seq(Nat) : LastOf(q) \in Nat
  BY DEF LastOf
<1> QED BY <1>1, <1>2, <1>3, <1>4, <1>5, <1>6

----------------------------------------------------------------------------
(* The daemon's steps. *)

\* A step that moves the handler on without deriving anything, or ends it, and
\* posts nothing.
MovesOn ==
  /\ bus' \in {bus, <<>>}
  /\ UNCHANGED <<taken, ev>>
  /\ step' # "idle" => step # "idle"
  /\ step' = "alert" => step = "alert"
  /\ step' \in Deriving => step \in Deriving
  /\ step' \in Unsent => step \in Unsent
  /\ \A o \in Sinks : step' \in Before(o) => step \in Before(o)

\* A step that goes beyond that: a reading, a dispatch or an algorithm.
LEMMA MostStepsMoveOn ==
  ASSUME DaemonAct
  PROVE  \/ MovesOn
         \/ \E s \in Sensors : SensorPost(s)
         \/ Dispatch \/ Algo
<1> USE DEF MovesOn, Deriving, Unsent, Before, Sinks, Steps
<1>1. CASE \E w \in Loops : LoopTest(w) \/ LoopSkip(w) \/ SemWait(w) \/ SemPost(w)
  BY <1>1 DEF LoopTest, LoopSkip, SemWait, SemPost, consumerVars
<1>2. CASE SkipSend \/ BeginSend
  BY <1>2 DEF SkipSend, BeginSend, AfterSend, outside
<1>3. CASE Write
  BY <1>3 DEF Write, AfterSend, outside
<1>4. CASE SendFails
  BY <1>4 DEF SendFails, Disconnect
<1>5. CASE Alert
  BY <1>5 DEF Alert, outside
<1>6. CASE \E o \in Sinks : EnterSink(o) \/ LeaveSink(o)
  BY <1>6 DEF EnterSink, LeaveSink, Inside, AfterSink, outside
<1>7. CASE DaemonMain \/ DaemonSignal \/ DaemonDies
  BY <1>7 DEF DaemonMain, LeaveLoop, JoinThreads, Release, CloseClient, DestroyBus,
     DaemonSignal, DaemonDies, consumerVars
<1> QED BY <1>1, <1>2, <1>3, <1>4, <1>5, <1>6, <1>7 DEF DaemonAct, LoopStep, Consumer

\* What a reading's post does to the queue.
LEMMA ReadingPosted ==
  ASSUME DaemonTypeOK, NEW s \in Sensors, SensorPost(s)
  PROVE  /\ EventOf(s, taken[s] + 1) \in DaemonEvent
         /\ bus' = Post(bus, EventOf(s, taken[s] + 1), DaemonQueue)
         /\ \A r \in Sensors : taken'[r] = IF r = s THEN taken[s] + 1 ELSE taken[r]
         /\ taken[s] \in Nat
         /\ UNCHANGED <<ev, step, rows>>
<1>1. taken[s] \in Nat /\ s \in Kinds
  BY SensorIsSource, MaxReadingsAssumption DEF DaemonTypeOK
<1>2. EventOf(s, taken[s] + 1) \in DaemonEvent
  BY <1>1 DEF EventOf, DaemonEvent
<1>3. \A r \in Sensors : taken'[r] = IF r = s THEN taken[s] + 1 ELSE taken[r]
  BY DEF SensorPost, DaemonTypeOK
<1> QED BY <1>1, <1>2, <1>3 DEF SensorPost, PostToBus

\* What an algorithm does to it, if anything.
LEMMA EventDerived ==
  ASSUME DaemonTypeOK, Algo
  PROVE  /\ step = "algo" /\ step' = "db" /\ UNCHANGED <<taken, ev, rows>>
         /\ ev \in DaemonEvent /\ ev.kind \in Kinds /\ ev.n \in Nat
         /\ \/ bus' = bus
            \/ \E k \in {"comfort", "anomaly"} :
                 /\ k \in Kinds /\ Source(k) = ev.kind
                 /\ EventOf(k, ev.n) \in DaemonEvent
                 /\ bus' = Post(bus, EventOf(k, ev.n), DaemonQueue)
<1>1. /\ step = "algo" /\ step' = "db" /\ UNCHANGED <<taken, ev, rows>>
      /\ ev \in DaemonEvent /\ ev.kind \in Kinds /\ ev.n \in Nat
  BY DEF Algo, outside, DaemonTypeOK, DaemonEvent
<1>2. Source("comfort") = "dht11" /\ Source("anomaly") = "adxl345"
  BY DEF Source
<1>3. CASE ev.kind = "dht11" /\ PostToBus(EventOf("comfort", ev.n))
  <2>1. "comfort" \in Kinds /\ EventOf("comfort", ev.n) \in DaemonEvent
    BY <1>1, <1>3, KindsOfSensors DEF EventOf, DaemonEvent
  <2> QED BY <1>1, <1>2, <1>3, <2>1 DEF PostToBus
<1>4. CASE ev.kind = "adxl345" /\ PostToBus(EventOf("anomaly", ev.n))
  <2>1. "anomaly" \in Kinds /\ EventOf("anomaly", ev.n) \in DaemonEvent
    BY <1>1, <1>4, KindsOfSensors DEF EventOf, DaemonEvent
  <2> QED BY <1>1, <1>2, <1>4, <2>1 DEF PostToBus
<1>5. CASE UNCHANGED <<bus, dropped>>
  BY <1>1, <1>5
<1> QED BY <1>3, <1>4, <1>5 DEF Algo

\* A dispatch takes the oldest event.
LEMMA EventDispatched ==
  ASSUME DaemonTypeOK, Dispatch
  PROVE  /\ bus # <<>> /\ ev' = bus[1] /\ 1 \in 1..Len(bus)
         /\ \A i \in 1..Len(bus') : i + 1 \in 1..Len(bus) /\ 1 < i + 1 /\ bus'[i] = bus[i + 1]
         /\ step' = IF ev'.kind = "anomaly" THEN "alert" ELSE "send"
         /\ bus' = Tail(bus) /\ step = "idle" /\ UNCHANGED <<taken, rows>>
<1>1. bus \in Seq(DaemonEvent) /\ bus # <<>> /\ bus' = Tail(bus) /\ ev' = Head(bus)
  BY DEF Dispatch, DaemonTypeOK
<1>2. /\ Head(bus) = bus[1] /\ 1 \in 1..Len(bus)
      /\ \A i \in 1..Len(Tail(bus)) :
           i \in Nat /\ i + 1 \in 1..Len(bus) /\ 1 < i + 1 /\ Tail(bus)[i] = bus[i + 1]
  BY <1>1, TailElements
<1> QED BY <1>1, <1>2 DEF Dispatch, outside

\* What was older than everything to come stays so: a reading is newer than all
\* before it, and what is derived from it as new as the reading.
LEMMA UpcomingKept ==
  ASSUME DaemonTypeOK, DaemonAct, NEW k \in Kinds, NEW m \in Nat, Upcoming(k, m)
  PROVE  Upcoming(k, m)'
<1>1. CASE MovesOn
  BY <1>1 DEF MovesOn, Upcoming, BelowBus, BelowDerived
<1>2. ASSUME NEW s \in Sensors, SensorPost(s) PROVE Upcoming(k, m)'
  <2> DEFINE e == EventOf(s, taken[s] + 1)
  <2>1. /\ e \in DaemonEvent /\ e.kind = s /\ e.n = taken[s] + 1 /\ taken[s] \in Nat
        /\ bus' = Post(bus, e, DaemonQueue) /\ UNCHANGED <<ev, step>>
        /\ \A r \in Sensors : taken'[r] = IF r = s THEN taken[s] + 1 ELSE taken[r]
    BY <1>2, ReadingPosted DEF EventOf
  <2>2. \A i \in 1..Len(bus') : (i \in 1..Len(bus) /\ bus'[i] = bus[i]) \/ bus'[i] = e
    BY <2>1, PostElements, CapacityAssumption DEF DaemonTypeOK
  <2> HIDE DEF e
  <2>3. m <= taken'[Source(k)]
    BY <2>1, SourceIsSensor DEF Upcoming
  <2>4. e.kind \in {k, Source(k)} => m < e.n
    BY <2>1, SensorIsSource DEF Upcoming
  <2>5. BelowBus(k, m)'
    BY <2>2, <2>4 DEF Upcoming, BelowBus
  <2> QED BY <2>1, <2>3, <2>5 DEF Upcoming, BelowDerived
<1>3. CASE Dispatch
  <2>1. /\ ev' = bus[1] /\ 1 \in 1..Len(bus) /\ taken' = taken
        /\ \A i \in 1..Len(bus') : i + 1 \in 1..Len(bus) /\ bus'[i] = bus[i + 1]
    BY <1>3, EventDispatched
  <2> QED BY <2>1 DEF Upcoming, BelowBus, BelowDerived
<1>4. CASE Algo
  <2>1. /\ step = "algo" /\ step' = "db" /\ taken' = taken /\ ev' = ev
        /\ ev.kind \in Kinds /\ ev.n \in Nat
    BY <1>4, EventDerived
  <2>2. BelowBus(k, m)'
    <3>1. CASE bus' = bus
      BY <3>1 DEF Upcoming, BelowBus
    <3>2. ASSUME NEW d \in {"comfort", "anomaly"}, d \in Kinds, Source(d) = ev.kind,
                 EventOf(d, ev.n) \in DaemonEvent, bus' = Post(bus, EventOf(d, ev.n), DaemonQueue)
          PROVE  BelowBus(k, m)'
      <4>1. \A i \in 1..Len(bus') :
              (i \in 1..Len(bus) /\ bus'[i] = bus[i]) \/ bus'[i] = EventOf(d, ev.n)
        BY <3>2, PostElements, CapacityAssumption DEF DaemonTypeOK
      <4>2. d \in {k, Source(k)} => k = d /\ Source(k) # k
        BY <3>2, SourceIsSensor, SensorIsSource
      <4>3. d \in {k, Source(k)} => m < ev.n
        BY <2>1, <3>2, <4>2 DEF Upcoming, BelowDerived, Deriving
      <4> QED BY <4>1, <4>3 DEF Upcoming, BelowBus, EventOf
    <3> QED BY <1>4, <3>1, <3>2, EventDerived
  <2> QED BY <2>1, <2>2 DEF Upcoming, BelowDerived, Deriving
<1> QED BY <1>1, <1>2, <1>3, <1>4, MostStepsMoveOn

LEMMA UpstreamKept ==
  ASSUME DaemonTypeOK, DaemonAct, NEW k \in Kinds, NEW m \in Nat, Upstream(k, m)
  PROVE  Upstream(k, m)'
<1>1. Upcoming(k, m)'
  BY UpcomingKept DEF Upstream
<1> SUFFICES ASSUME step' \in Unsent, ev'.kind = k PROVE m < ev'.n
  BY <1>1 DEF Upstream
<1>2. CASE MovesOn
  BY <1>2 DEF MovesOn, Upstream
<1>3. CASE \E s \in Sensors : SensorPost(s)
  BY <1>3 DEF SensorPost, Upstream
<1>4. CASE Dispatch
  BY <1>4, EventDispatched DEF Upstream, Upcoming, BelowBus
<1>5. CASE Algo
  BY <1>5 DEF Algo, Unsent
<1> QED BY <1>2, <1>3, <1>4, <1>5, MostStepsMoveOn

\* The last element of a queue just appended to.
LEMMA LastOfAppend ==
  ASSUME NEW q \in Seq(Nat), NEW n \in Nat
  PROVE  LastOf(Append(q, n)) = n
<1>1. Len(Append(q, n)) = Len(q) + 1 /\ Append(q, n)[Len(q) + 1] = n /\ Append(q, n) # <<>>
  OBVIOUS
<1> QED BY <1>1 DEF LastOf

\* A step appends at most the event in the handler to a sink, and then leaves it.
LEMMA RowsStep ==
  ASSUME DaemonTypeOK, DaemonAct, NEW o \in Sinks, NEW k \in Kinds
  PROVE  \/ rows'[o][k] = rows[o][k]
         \/ /\ step = Inside(o) /\ step' = AfterSink(o) /\ ev' = ev /\ ev.kind = k
            /\ rows'[o][k] = Append(rows[o][k], ev.n)
<1>1. CASE MovesOn /\ rows' = rows
  BY <1>1
<1>2. ASSUME NEW p \in Sinks, LeaveSink(p)
      PROVE  \/ rows'[o][k] = rows[o][k]
             \/ /\ step = Inside(o) /\ step' = AfterSink(o) /\ ev' = ev /\ ev.kind = k
                /\ rows'[o][k] = Append(rows[o][k], ev.n)
  <2>1. CASE UNCHANGED rows
    BY <2>1
  <2>2. CASE rows' = [rows EXCEPT ![p][ev.kind] = Append(@, ev.n)]
    BY <1>2, <2>2 DEF LeaveSink, outside, DaemonTypeOK
  <2> QED BY <1>2, <2>1, <2>2 DEF LeaveSink
<1>3. CASE \E w \in Loops : LoopStep(w)
  BY <1>3 DEF LoopStep, LoopTest, LoopSkip, SemWait, SemPost, SensorPost, consumerVars
<1>4. CASE Dispatch \/ SkipSend \/ BeginSend \/ Write \/ SendFails \/ Algo \/ Alert
  BY <1>4 DEF Dispatch, SkipSend, BeginSend, Write, SendFails, Algo, Alert
<1>5. CASE \E p \in Sinks : EnterSink(p)
  BY <1>5 DEF EnterSink
<1>6. CASE DaemonMain \/ DaemonSignal \/ DaemonDies
  BY <1>6 DEF DaemonMain, LeaveLoop, JoinThreads, Release, CloseClient, DestroyBus,
     DaemonSignal, DaemonDies, consumerVars
<1> QED BY <1>2, <1>3, <1>4, <1>5, <1>6 DEF DaemonAct, Consumer

LEMMA BusOrderStep ==
  ASSUME DaemonTypeOK, DaemonTypeOK', DaemonInOrder, DaemonAct
  PROVE  BusInOrder'
<1>1. /\ bus \in Seq(Event) /\ Len(bus) \in Nat /\ bus' \in Seq(Event)
      /\ \A i \in 1..Len(bus) : bus[i].kind \in Kinds /\ bus[i].n \in Nat
      /\ BusInOrder
  <2>1. bus \in Seq(Event) /\ bus' \in Seq(Event)
    BY DaemonEventIsEvent DEF DaemonTypeOK
  <2>2. \A i \in 1..Len(bus) : bus[i].kind \in Kinds /\ bus[i].n \in Nat
    BY DaemonTypes
  <2> QED BY <2>1, <2>2 DEF DaemonInOrder
<1>2. CASE MovesOn
  BY <1>1, <1>2 DEF MovesOn, BusInOrder, InOrder, BelowDerived
<1>3. ASSUME NEW s \in Sensors, SensorPost(s) PROVE BusInOrder'
  <2> DEFINE e == EventOf(s, taken[s] + 1)
  <2>1. /\ e \in Event /\ e.kind = s /\ e.n = taken[s] + 1 /\ taken[s] \in Nat
        /\ bus' = Post(bus, e, DaemonQueue) /\ UNCHANGED <<ev, step>>
        /\ \A r \in Sensors : taken'[r] = IF r = s THEN taken[s] + 1 ELSE taken[r]
    BY <1>3, ReadingPosted, DaemonEventIsEvent DEF EventOf
  <2>2. \A i \in 1..Len(bus') :
          (i \in 1..Len(bus) /\ bus'[i] = bus[i]) \/ (i = Len(bus) + 1 /\ bus'[i] = e)
    BY <1>1, <2>1, PostElements, CapacityAssumption
  <2> HIDE DEF e
  <2>3. Source(s) = s /\ s \in Kinds
    BY SensorIsSource
  <2>4. \A i \in 1..Len(bus) : Source(bus[i].kind) = s => bus[i].n < e.n
    BY <1>1, <2>1 DEF BusInOrder
  <2>5. InOrder(bus)'
    BY <1>1, <2>1, <2>2, <2>3, <2>4, OrderedPost DEF BusInOrder
  <2>6. \A k \in Kinds : taken[Source(k)] \in Nat /\ Source(k) \in Sensors
    BY DaemonTypes, SourceIsSensor
  <2>7. \A i \in 1..Len(bus') :
          /\ 1 <= bus'[i].n /\ bus'[i].n <= taken'[Source(bus'[i].kind)]
          /\ BelowDerived(bus[i].kind, bus[i].n)'
    <3> SUFFICES ASSUME NEW i \in 1..Len(bus')
                 PROVE  /\ 1 <= bus'[i].n /\ bus'[i].n <= taken'[Source(bus'[i].kind)]
                        /\ BelowDerived(bus[i].kind, bus[i].n)'
      OBVIOUS
    <3>1. CASE i \in 1..Len(bus) /\ bus'[i] = bus[i]
      <4>1. 1 <= bus[i].n /\ bus[i].n <= taken[Source(bus[i].kind)] /\ bus[i].n \in Nat
        BY <1>1, <3>1 DEF BusInOrder
      <4>2. taken[Source(bus[i].kind)] <= taken'[Source(bus[i].kind)]
        BY <1>1, <2>1, <2>6, <3>1
      <4>3. taken'[Source(bus[i].kind)] \in Nat /\ taken[Source(bus[i].kind)] \in Nat
        <5> DEFINE r == Source(bus[i].kind)
        <5>1. r \in Sensors /\ taken[r] \in Nat
          BY <1>1, <2>6, <3>1
        <5> HIDE DEF r
        <5>2. taken'[r] \in Nat
          BY <2>1, <5>1
        <5> QED BY <5>1, <5>2 DEF r
      <4>4. BelowDerived(bus[i].kind, bus[i].n)'
        BY <1>1, <2>1, <3>1 DEF BusInOrder, BelowDerived
      <4> QED BY <3>1, <4>1, <4>2, <4>3, <4>4
    <3>2. CASE bus'[i] = e
      BY <2>1, <2>3, <3>2 DEF BelowDerived
    <3> QED BY <2>2, <3>1, <3>2
  <2>8. ASSUME NEW i \in 1..Len(bus'), NEW j \in 1..Len(bus'),
               bus'[j].kind = Source(bus'[i].kind), bus'[j].kind # bus'[i].kind
        PROVE  bus'[i].n < bus'[j].n
    <3>1. i \in 1..Len(bus) /\ bus'[i] = bus[i]
      BY <2>1, <2>2, <2>3, <2>8
    <3> QED BY <1>1, <2>1, <2>2, <2>4, <2>8, <3>1 DEF BusInOrder
  <2> QED BY <2>5, <2>7, <2>8 DEF BusInOrder
<1>4. CASE Dispatch
  <2>1. /\ ev' = bus[1] /\ 1 \in 1..Len(bus) /\ taken' = taken /\ bus # <<>>
        /\ bus' = Tail(bus)
        /\ \A i \in 1..Len(bus') : i + 1 \in 1..Len(bus) /\ bus'[i] = bus[i + 1]
    BY <1>4, EventDispatched
  <2>2. InOrder(bus)'
    BY <1>1, <2>1, OrderedTail DEF BusInOrder
  <2>3. \A i \in 1..Len(bus') :
          /\ 1 <= bus'[i].n /\ bus'[i].n <= taken'[Source(bus'[i].kind)]
          /\ BelowDerived(bus[i].kind, bus[i].n)'
    BY <1>1, <2>1 DEF BusInOrder, BelowDerived
  <2>4. \A i, j \in 1..Len(bus') :
          bus'[j].kind = Source(bus'[i].kind) /\ bus'[j].kind # bus'[i].kind
            => bus'[i].n < bus'[j].n
    <3> SUFFICES ASSUME NEW i \in 1..Len(bus'), NEW j \in 1..Len(bus'),
                        bus'[j].kind = Source(bus'[i].kind), bus'[j].kind # bus'[i].kind
                 PROVE  bus'[i].n < bus'[j].n
      OBVIOUS
    <3>1. /\ i + 1 \in 1..Len(bus) /\ bus'[i] = bus[i + 1]
          /\ j + 1 \in 1..Len(bus) /\ bus'[j] = bus[j + 1]
      BY <2>1
    <3> QED BY <1>1, <3>1 DEF BusInOrder
  <2> QED BY <2>2, <2>3, <2>4 DEF BusInOrder
<1>5. CASE Algo
  <2>1. /\ step = "algo" /\ step' = "db" /\ taken' = taken /\ ev' = ev
        /\ ev.kind \in Kinds /\ ev.n \in Nat /\ 1 <= ev.n /\ Upcoming(ev.kind, ev.n)
    BY <1>5, EventDerived DEF DaemonInOrder, HandlerInOrder
  <2>3. CASE bus' = bus
    BY <1>1, <2>1, <2>3 DEF BusInOrder, InOrder, BelowDerived, Deriving
  <2>2. ASSUME NEW d \in {"comfort", "anomaly"}, d \in Kinds, Source(d) = ev.kind,
               EventOf(d, ev.n) \in DaemonEvent, bus' = Post(bus, EventOf(d, ev.n), DaemonQueue)
        PROVE  BusInOrder'
    <3> DEFINE e == EventOf(d, ev.n)
    <3>1. e \in Event /\ e.kind = d /\ e.n = ev.n
      BY <2>2, DaemonEventIsEvent DEF EventOf
    <3>2. \A i \in 1..Len(bus') :
            (i \in 1..Len(bus) /\ bus'[i] = bus[i]) \/ (i = Len(bus) + 1 /\ bus'[i] = e)
      BY <1>1, <2>2, <3>1, PostElements, CapacityAssumption
    <3> HIDE DEF e
    <3>3. Source(d) # d /\ \A k \in Kinds : Source(k) # d
      BY <2>2, SourceIsSensor, SensorIsSource
    <3>4. \A i \in 1..Len(bus) : bus[i].kind = d => bus[i].n < e.n
      BY <1>1, <2>1, <2>2, <3>1, <3>3 DEF BusInOrder, BelowDerived, Deriving
    <3>5. InOrder(bus)'
      BY <1>1, <3>1, <3>2, <3>4, OrderedPost DEF BusInOrder
    <3>6. e.n <= taken'[Source(e.kind)]
      BY <2>1, <2>2, <3>1, SourceIsSensor DEF Upcoming
    <3>7. \A i \in 1..Len(bus') :
            /\ 1 <= bus'[i].n /\ bus'[i].n <= taken'[Source(bus'[i].kind)]
            /\ BelowDerived(bus[i].kind, bus[i].n)'
      BY <1>1, <2>1, <3>1, <3>2, <3>6 DEF BusInOrder, BelowDerived, Deriving
    <3>8. ASSUME NEW i \in 1..Len(bus'), NEW j \in 1..Len(bus'),
                 bus'[j].kind = Source(bus'[i].kind), bus'[j].kind # bus'[i].kind
          PROVE  bus'[i].n < bus'[j].n
      <4>1. bus'[i].kind \in Kinds
        BY <1>1, <2>2, <3>1, <3>2
      <4>2. j \in 1..Len(bus) /\ bus'[j] = bus[j]
        BY <3>1, <3>2, <3>3, <3>8, <4>1
      <4>3. CASE i \in 1..Len(bus) /\ bus'[i] = bus[i]
        BY <1>1, <3>8, <4>2, <4>3 DEF BusInOrder
      <4>4. CASE bus'[i] = e
        BY <2>1, <2>2, <3>1, <3>8, <4>2, <4>4 DEF Upcoming, BelowBus
      <4> QED BY <3>2, <4>3, <4>4
    <3> QED BY <3>5, <3>7, <3>8 DEF BusInOrder
  <2> QED BY <1>5, <2>3, <2>2, EventDerived
<1> QED BY <1>2, <1>3, <1>4, <1>5, MostStepsMoveOn

LEMMA HandlerOrderStep ==
  ASSUME DaemonTypeOK, DaemonInOrder, DaemonAct
  PROVE  HandlerInOrder'
<1>1. /\ \A i \in 1..Len(bus) : bus[i].kind \in Kinds /\ bus[i].n \in Nat
      /\ step # "idle" => ev.kind \in Kinds /\ ev.n \in Nat
      /\ BusInOrder /\ HandlerInOrder
  BY DaemonTypes DEF DaemonInOrder
<1>2. ASSUME step # "idle", ev' = ev
      PROVE  1 <= ev'.n /\ Upcoming(ev.kind, ev.n)'
  <2>1. PICK k \in Kinds, m \in Nat : k = ev.kind /\ m = ev.n
    BY <1>1, <1>2
  <2>2. Upcoming(k, m)'
    BY <1>1, <1>2, <2>1, UpcomingKept DEF HandlerInOrder
  <2> QED BY <1>1, <1>2, <2>1, <2>2 DEF HandlerInOrder
<1>3. CASE MovesOn
  <2>1. step' # "idle" => 1 <= ev'.n /\ Upcoming(ev.kind, ev.n)'
    BY <1>2, <1>3 DEF MovesOn
  <2> QED BY <1>1, <1>3, <2>1 DEF MovesOn, HandlerInOrder
<1>4. CASE \E s \in Sensors : SensorPost(s)
  <2>1. ev' = ev /\ step' = step
    BY <1>4 DEF SensorPost
  <2> QED BY <1>1, <1>2, <2>1 DEF HandlerInOrder
<1>5. CASE Dispatch
  <2>1. /\ ev' = bus[1] /\ 1 \in 1..Len(bus) /\ taken' = taken
        /\ \A i \in 1..Len(bus') : i + 1 \in 1..Len(bus) /\ 1 < i + 1 /\ bus'[i] = bus[i + 1]
        /\ step' = IF ev'.kind = "anomaly" THEN "alert" ELSE "send"
    BY <1>5, EventDispatched
  <2>2. PICK k \in Kinds, m \in Nat : k = bus[1].kind /\ m = bus[1].n
    BY <1>1, <2>1
  <2>3. 1 <= m /\ m <= taken'[Source(k)]
    BY <1>1, <2>1, <2>2 DEF BusInOrder
  <2>4. BelowBus(k, m)'
    <3> SUFFICES ASSUME NEW i \in 1..Len(bus'), bus'[i].kind \in {k, Source(k)}
                 PROVE  m < bus'[i].n
      BY DEF BelowBus
    <3>1. i + 1 \in 1..Len(bus) /\ 1 < i + 1 /\ bus'[i] = bus[i + 1]
      BY <2>1
    <3>2. CASE bus'[i].kind = k
      BY <1>1, <2>1, <2>2, <3>1, <3>2 DEF BusInOrder, InOrder
    <3>3. CASE bus'[i].kind = Source(k) /\ Source(k) # k
      BY <1>1, <2>1, <2>2, <3>1, <3>3 DEF BusInOrder
    <3> QED BY <3>2, <3>3
  <2>5. BelowDerived(k, m)'
    BY <2>1, <2>2 DEF BelowDerived
  <2>6. Upcoming(ev.kind, ev.n)'
    BY <2>1, <2>2, <2>3, <2>4, <2>5 DEF Upcoming
  <2> QED BY <2>1, <2>2, <2>3, <2>6 DEF HandlerInOrder, Deriving
<1>6. CASE Algo
  <2>1. step = "algo" /\ step' = "db" /\ ev' = ev
    BY <1>6, EventDerived
  <2> QED BY <1>2, <2>1 DEF HandlerInOrder, Deriving
<1> QED BY <1>3, <1>4, <1>5, <1>6, MostStepsMoveOn

LEMMA RowsOrderStep ==
  ASSUME DaemonTypeOK, DaemonInOrder, DaemonAct
  PROVE  RowsInOrder'
<1> SUFFICES ASSUME NEW o \in Sinks, NEW k \in Kinds
             PROVE  /\ Upcoming(k, LastOf(rows[o][k]))'
                    /\ step' \in Before(o) /\ ev'.kind = k => LastOf(rows'[o][k]) < ev'.n
  BY DEF RowsInOrder
<1>1. /\ \A i \in 1..Len(bus) : bus[i].kind \in Kinds /\ bus[i].n \in Nat
      /\ step # "idle" => ev.kind \in Kinds /\ ev.n \in Nat
      /\ rows[o][k] \in Seq(Nat) /\ LastOf(rows[o][k]) \in Nat
      /\ BusInOrder /\ HandlerInOrder /\ RowsInOrder
  BY DaemonTypes DEF DaemonInOrder
<1>2. CASE rows'[o][k] = rows[o][k]
  <2>1. PICK m \in Nat : m = LastOf(rows[o][k])
    BY <1>1
  <2>2. Upcoming(k, m) /\ (step \in Before(o) /\ ev.kind = k => m < ev.n)
    BY <1>1, <2>1 DEF RowsInOrder
  <2>3. Upcoming(k, m)'
    BY <2>2, UpcomingKept
  <2>4. step' \in Before(o) /\ ev'.kind = k => m < ev'.n
    <3>1. CASE MovesOn
      BY <2>2, <3>1 DEF MovesOn
    <3>2. CASE \E s \in Sensors : SensorPost(s)
      BY <2>2, <3>2 DEF SensorPost
    <3>3. CASE Dispatch
      BY <1>1, <2>2, <3>3, EventDispatched DEF Upcoming, BelowBus
    <3>4. CASE Algo
      <4>1. step \in Before(o) /\ ev' = ev
        BY <3>4 DEF Algo, Before, Steps, Sinks
      <4> QED BY <2>2, <4>1
    <3> QED BY <3>1, <3>2, <3>3, <3>4, MostStepsMoveOn
  <2>5. LastOf(rows'[o][k]) = m
    BY <1>2, <2>1
  <2> QED BY <2>3, <2>4, <2>5
<1>3. CASE /\ step = Inside(o) /\ step' = AfterSink(o) /\ ev' = ev /\ ev.kind = k
           /\ rows'[o][k] = Append(rows[o][k], ev.n)
  <2>1. step # "idle" /\ step' \notin Before(o)
    BY <1>3 DEF Inside, AfterSink, Before, Unsent, Sinks, Steps
  <2>2. PICK m \in Nat : m = ev.n
    BY <1>1, <2>1
  <2>3. Upcoming(k, m)'
    BY <1>1, <1>3, <2>1, <2>2, UpcomingKept DEF HandlerInOrder
  <2>4. LastOf(rows'[o][k]) = m
    BY <1>1, <1>3, <2>2, LastOfAppend
  <2> QED BY <2>1, <2>3, <2>4
<1> QED BY <1>2, <1>3, RowsStep

\* The daemon's part of the order.
LEMMA DaemonOrderStep ==
  ASSUME DaemonTypeOK, DaemonTypeOK', DaemonInOrder, DaemonAct
  PROVE  DaemonInOrder'
BY BusOrderStep, HandlerOrderStep, RowsOrderStep DEF DaemonInOrder

\* What a step of the daemon sends: the event in the handler, once, and then it is
\* not in Unsent any more.
Sent(q, r) == r = q \/ /\ step \in Unsent /\ step' \notin Unsent /\ ev' = ev
                       /\ Len(r) \in {Len(q), Len(q) + 1}
                       /\ \A i \in 1..Len(r) :
                            \/ i \in 1..Len(q) /\ r[i] = q[i]
                            \/ i = Len(q) + 1 /\ r[i] = ev

LEMMA DaemonSends ==
  ASSUME IpcTypeOK, DaemonTypeOK, DaemonAct
  PROVE  /\ Sent(frames, frames') /\ (frames' # frames => step = "sending")
         /\ Sent(alerts, alerts') /\ (alerts' # alerts => step = "alert")
<1>1. CASE Write
  <2>1. ev \in Event /\ frames \in Seq(Event)
    BY <1>1, DaemonTypes DEF Write, IpcTypeOK
  <2>2. step = "sending" /\ step' \notin Unsent /\ ev' = ev /\ alerts' = alerts
    BY <1>1 DEF Write, AfterSend, Unsent
  <2>3. frames' = Append(frames, ev)
    BY <1>1 DEF Write
  <2> QED BY <2>1, <2>2, <2>3, AppendElements DEF Sent, Unsent
<1>2. CASE Alert
  <2>1. ev \in Event /\ alerts \in Seq(Event)
    BY <1>2, DaemonTypes DEF Alert, IpcTypeOK
  <2>2. step = "alert" /\ step' \notin Unsent /\ ev' = ev /\ frames' = frames
    BY <1>2 DEF Alert, Unsent
  <2>3. alerts' = alerts \/ alerts' = Post(alerts, ev, AlertMax)
    BY <1>2 DEF Alert, SendAlert
  <2> QED BY <2>1, <2>2, <2>3, PostElements, CapacityAssumption DEF Sent, Unsent
<1>3. CASE UNCHANGED <<frames, alerts>>
  BY <1>3 DEF Sent
<1>4. CASE \E w \in Loops : LoopStep(w)
  BY <1>3, <1>4 DEF LoopStep, LoopTest, LoopSkip, SemWait, SemPost, SensorPost, ipcVars
<1>5. CASE Dispatch \/ SkipSend \/ BeginSend \/ SendFails \/ Algo
  BY <1>3, <1>5 DEF Dispatch, SkipSend, BeginSend, SendFails, Algo, ipcVars
<1>6. CASE \E o \in Sinks : EnterSink(o) \/ LeaveSink(o)
  BY <1>3, <1>6 DEF EnterSink, LeaveSink, ipcVars
<1>7. CASE DaemonMain \/ DaemonSignal \/ DaemonDies
  BY <1>3, <1>7 DEF DaemonMain, LeaveLoop, JoinThreads, Release, CloseClient, DestroyBus,
     DaemonSignal, DaemonDies, ipcVars
<1> QED BY <1>1, <1>2, <1>4, <1>5, <1>6, <1>7 DEF DaemonAct, Consumer

\* What was older than all that had not reached the UI's queue stays so.
LEMMA InFlightKept ==
  ASSUME IpcTypeOK, DaemonTypeOK, DaemonAct, NEW k \in Kinds, NEW m \in Nat, InFlight(k, m)
  PROVE  InFlight(k, m)'
<1>1. Upstream(k, m) /\ Upstream(k, m)'
  BY UpstreamKept DEF InFlight
<1>2. BelowAll(frames, k, m)'
  BY <1>1, DaemonSends DEF Sent, Upstream, InFlight, BelowAll
<1>3. BelowAll(alerts, k, m)'
  BY <1>1, DaemonSends DEF Sent, Upstream, InFlight, BelowAll
<1> QED BY <1>1, <1>2, <1>3 DEF InFlight

LEMMA FlightOrderStep ==
  ASSUME IpcTypeOK, IpcTypeOK', DaemonTypeOK, DaemonInOrder, FlightInOrder, DaemonAct
  PROVE  FlightInOrder'
<1>1. /\ Sent(frames, frames') /\ (frames' # frames => step = "sending")
      /\ Sent(alerts, alerts') /\ (alerts' # alerts => step = "alert")
  BY DaemonSends
<1>2. /\ frames \in Seq(Event) /\ frames' \in Seq(Event)
      /\ alerts \in Seq(Event) /\ alerts' \in Seq(Event)
      /\ \A i \in 1..Len(frames) : frames[i].n \in Nat
      /\ \A i \in 1..Len(alerts) : alerts[i].n \in Nat
  BY EventElements DEF IpcTypeOK
<1>3. step # "idle" => ev \in Event /\ ev.kind \in Kinds /\ ev.n \in Nat
  BY DaemonTypes
<1>4. \A i \in 1..Len(frames) :
        frames[i].kind \in Kinds \ {"anomaly"} /\ Upstream(frames[i].kind, frames[i].n)
  BY DEF FlightInOrder
<1>5. \A i \in 1..Len(alerts) :
        alerts[i].kind \in Kinds \cap {"anomaly"} /\ Upstream(alerts[i].kind, alerts[i].n)
  BY DEF FlightInOrder
<1>6. ASSUME NEW k \in Kinds, NEW m \in Nat, ev.kind = k, ev.n = m,
             step \in Unsent, step' \notin Unsent
      PROVE  Upstream(k, m)'
  <2>1. Upcoming(k, m)
    BY <1>6 DEF DaemonInOrder, HandlerInOrder, Unsent
  <2> QED BY <1>6, <2>1, UpcomingKept DEF Upstream
<1>7. ASSUME NEW i \in 1..Len(frames')
      PROVE  /\ frames'[i].kind \in Kinds \ {"anomaly"}
             /\ Upstream(frames[i].kind, frames[i].n)'
  <2>1. CASE i \in 1..Len(frames) /\ frames'[i] = frames[i]
    <3>1. PICK k \in Kinds, m \in Nat : k = frames[i].kind /\ m = frames[i].n
      BY <1>2, <1>4, <2>1
    <3>2. Upstream(k, m)'
      BY <1>4, <2>1, <3>1, UpstreamKept
    <3> QED BY <1>4, <2>1, <3>1, <3>2
  <2>2. CASE /\ frames'[i] = ev /\ frames' # frames /\ step \in Unsent /\ step' \notin Unsent
    <3>1. step = "sending" /\ ev.kind # "anomaly"
      BY <1>1, <2>2 DEF DaemonInOrder, HandlerInOrder, Deriving
    <3>2. PICK k \in Kinds, m \in Nat : k = ev.kind /\ m = ev.n
      BY <1>3, <3>1
    <3>3. Upstream(k, m)'
      BY <1>6, <2>2, <3>2
    <3> QED BY <2>2, <3>1, <3>2, <3>3
  <2> QED BY <1>1, <2>1, <2>2 DEF Sent
<1>8. ASSUME NEW i \in 1..Len(alerts')
      PROVE  /\ alerts'[i].kind \in Kinds \cap {"anomaly"}
             /\ Upstream(alerts[i].kind, alerts[i].n)'
  <2>1. CASE i \in 1..Len(alerts) /\ alerts'[i] = alerts[i]
    <3>1. PICK k \in Kinds, m \in Nat : k = alerts[i].kind /\ m = alerts[i].n
      BY <1>2, <1>5, <2>1
    <3>2. Upstream(k, m)'
      BY <1>5, <2>1, <3>1, UpstreamKept
    <3> QED BY <1>5, <2>1, <3>1, <3>2
  <2>2. CASE /\ alerts'[i] = ev /\ alerts' # alerts /\ step \in Unsent /\ step' \notin Unsent
    <3>1. step = "alert" /\ ev.kind = "anomaly"
      BY <1>1, <2>2 DEF DaemonInOrder, HandlerInOrder
    <3>2. PICK k \in Kinds, m \in Nat : k = ev.kind /\ m = ev.n
      BY <1>3, <3>1
    <3>3. Upstream(k, m)'
      BY <1>6, <2>2, <3>2
    <3> QED BY <2>2, <3>1, <3>2, <3>3
  <2> QED BY <1>1, <2>1, <2>2 DEF Sent
<1>9. InOrder(frames)'
  <2>1. CASE frames' = frames
    BY <2>1 DEF FlightInOrder
  <2>2. CASE frames' # frames
    <3>1. step \in Unsent /\ ev \in Event
      BY <1>1, <1>3, <2>2 DEF Unsent
    <3>2. \A i \in 1..Len(frames) : frames[i].kind = ev.kind => frames[i].n < ev.n
      BY <1>4, <3>1 DEF Upstream
    <3> QED BY <1>1, <1>2, <2>2, <3>1, <3>2, OrderedPost DEF FlightInOrder, Sent
  <2> QED BY <2>1, <2>2
<1>10. InOrder(alerts)'
  <2>1. CASE alerts' = alerts
    BY <2>1 DEF FlightInOrder
  <2>2. CASE alerts' # alerts
    <3>1. step \in Unsent /\ ev \in Event
      BY <1>1, <1>3, <2>2 DEF Unsent
    <3>2. \A i \in 1..Len(alerts) : alerts[i].kind = ev.kind => alerts[i].n < ev.n
      BY <1>5, <3>1 DEF Upstream
    <3> QED BY <1>1, <1>2, <2>2, <3>1, <3>2, OrderedPost DEF FlightInOrder, Sent
  <2> QED BY <2>1, <2>2
<1> QED BY <1>7, <1>8, <1>9, <1>10 DEF FlightInOrder

\* The dashboard's types, for the kinds that stem from readings.
LEMMA UiTypes ==
  ASSUME UiTypeOK
  PROVE  /\ uiBus \in Seq(Event)
         /\ \A i \in 1..Len(uiBus) : uiBus[i].kind \in UiKinds /\ uiBus[i].n \in Nat
         /\ \A k \in Kinds : /\ k \in UiKinds /\ cache[k] \in Nat
                             /\ shown[k] \in Seq(Nat) /\ LastOf(shown[k]) \in Nat
                             /\ k \in DOMAIN local => local[k] \in Nat
<1>1. uiBus \in Seq(Event)
  BY DEF UiTypeOK
<1>2. \A i \in 1..Len(uiBus) : uiBus[i].kind \in UiKinds /\ uiBus[i].n \in Nat
  BY <1>1, EventElements
<1>3. \A k \in Kinds : /\ k \in UiKinds /\ cache[k] \in Nat /\ shown[k] \in Seq(Nat)
                       /\ k \in DOMAIN local => local[k] \in Nat
  BY DEF UiTypeOK, UiKinds
<1>4. \A q \in Seq(Nat) : LastOf(q) \in Nat
  BY DEF LastOf
<1> QED BY <1>1, <1>2, <1>3, <1>4

\* The daemon leaves the UI's part of the order alone.
LEMMA UiOrderUnderDaemon ==
  ASSUME IpcTypeOK, DaemonTypeOK, UiTypeOK, UiBusInOrder, ScreenInOrder,
         DaemonAct, UNCHANGED uiVars
  PROVE  UiBusInOrder' /\ ScreenInOrder'
<1>1. UNCHANGED <<uiBus, cache, dirty, local, shown>>
  BY DEF uiVars
<1>2. ASSUME NEW i \in 1..Len(uiBus), uiBus[i].kind \in Kinds
      PROVE  InFlight(uiBus[i].kind, uiBus[i].n)'
  <2>1. PICK k \in Kinds, m \in Nat : k = uiBus[i].kind /\ m = uiBus[i].n
    BY <1>2, UiTypes
  <2>2. InFlight(k, m)'
    BY <1>2, <2>1, InFlightKept DEF UiBusInOrder
  <2> QED BY <1>1, <2>1, <2>2
<1>3. ASSUME NEW k \in Kinds PROVE InFlight(k, cache[k])'
  <2>1. PICK m \in Nat : m = cache[k]
    BY UiTypes
  <2>2. InFlight(k, m)'
    BY <2>1, InFlightKept DEF ScreenInOrder
  <2> QED BY <1>1, <2>1, <2>2
<1>4. UiBusInOrder'
  BY <1>1, <1>2 DEF UiBusInOrder
<1>5. ScreenInOrder'
  BY <1>1, <1>3 DEF ScreenInOrder, BelowAll
<1> QED BY <1>4, <1>5

----------------------------------------------------------------------------
(* The UI's steps. *)

\* A queue of which nothing, the oldest element or everything has been taken.
Shrunk(q, r) == r \in {q, <<>>} \/ (q # <<>> /\ r = Tail(q))

\* What holds of a queue's elements and of their order holds of what is left.
LEMMA ShrunkOrder ==
  ASSUME NEW q \in Seq(Event), NEW r, Shrunk(q, r)
  PROVE  /\ r \in Seq(Event)
         /\ InOrder(q) => InOrder(r)
         /\ \A i \in 1..Len(r) : \E j \in 1..Len(q) : r[i] = q[j]
<1>1. CASE r = q
  BY <1>1
<1>2. CASE r = <<>>
  BY <1>2 DEF InOrder
<1>3. CASE q # <<>> /\ r = Tail(q)
  <2>1. \A i \in 1..Len(r) : \E j \in 1..Len(q) : r[i] = q[j]
    BY <1>3, TailElements
  <2> QED BY <1>3, <2>1, OrderedTail, TailType
<1> QED BY <1>1, <1>2, <1>3 DEF Shrunk

\* A step that brings nothing to the dashboard and nothing onto the screen.
UiQuiet ==
  /\ uiBus' \in {uiBus, <<>>}
  /\ UNCHANGED <<cache, dirty, shown>>
  /\ local' \in {local, <<>>}

LEMMA MostUiStepsAreQuiet ==
  ASSUME UiAct
  PROVE  \/ UiQuiet
         \/ RecvFrame \/ AlertRecv \/ UiHandle \/ TickCopy \/ TickRender
         \/ \E i \in Inputs : InputEvent(i)
<1> USE DEF UiQuiet, dashboard
<1>1. CASE RecvEof \/ AlertCall
  BY <1>1 DEF RecvEof, AlertCall
<1>2. CASE \E i \in Inputs : InputTest(i) \/ InputFails(i)
  BY <1>2 DEF InputTest, InputFails
<1>3. CASE \/ UiLeaveLoop \/ JoinRecv \/ JoinAlert \/ JoinInput
           \/ MoveSlider \/ UiSemWait \/ UiSemPost
  BY <1>3 DEF UiLeaveLoop, JoinRecv, JoinAlert, JoinInput, MoveSlider, UiSemWait, UiSemPost, uiVars
<1>4. CASE UiSignal \/ UiDies
  BY <1>4 DEF UiSignal, UiDies
<1> QED BY <1>1, <1>2, <1>3, <1>4 DEF UiAct, Receiver, AlertReceiver, UiMain

\* The UI only takes from what the daemon has sent.
LEMMA UiTakes ==
  ASSUME UiAct
  PROVE  Shrunk(frames, frames') /\ Shrunk(alerts, alerts')
<1> USE DEF Shrunk, ipcVars
<1>1. CASE Receiver \/ AlertReceiver
  BY <1>1 DEF Receiver, RecvFrame, RecvEof, AlertReceiver, AlertCall, AlertRecv
<1>2. CASE \E i \in Inputs : InputTest(i) \/ InputEvent(i) \/ InputFails(i)
  BY <1>2 DEF InputTest, InputEvent, InputFails
<1>3. CASE UiHandle \/ TickCopy \/ TickRender
  BY <1>3 DEF UiHandle, TickCopy, TickRender
<1>4. CASE \/ UiLeaveLoop \/ JoinRecv \/ JoinAlert \/ JoinInput
           \/ MoveSlider \/ UiSemWait \/ UiSemPost
  BY <1>4 DEF UiLeaveLoop, JoinRecv, JoinAlert, JoinInput, MoveSlider, UiSemWait, UiSemPost, uiVars
<1>5. CASE UiSignal \/ UiDies
  BY <1>5 DEF UiSignal, UiDies
<1> QED BY <1>1, <1>2, <1>3, <1>4, <1>5 DEF UiAct, UiMain

LEMMA InFlightKeptByUi ==
  ASSUME IpcTypeOK, UiAct, UNCHANGED daemonVars, NEW k, NEW m, InFlight(k, m)
  PROVE  InFlight(k, m)'
<1>1. UNCHANGED <<bus, ev, step, taken>>
  BY DEF daemonVars
<1>2. Upstream(k, m)'
  BY <1>1 DEF InFlight, Upstream, Upcoming, BelowBus, BelowDerived
<1>3. Shrunk(frames, frames') /\ Shrunk(alerts, alerts')
  BY UiTakes
<1>4. /\ \A i \in 1..Len(frames') : \E j \in 1..Len(frames) : frames'[i] = frames[j]
      /\ \A i \in 1..Len(alerts') : \E j \in 1..Len(alerts) : alerts'[i] = alerts[j]
  BY <1>3, ShrunkOrder DEF IpcTypeOK
<1>5. BelowAll(frames, k, m)' /\ BelowAll(alerts, k, m)'
  BY <1>4 DEF InFlight, BelowAll
<1> QED BY <1>2, <1>5 DEF InFlight

LEMMA FlightUnderUi ==
  ASSUME IpcTypeOK, FlightInOrder, UiAct, UNCHANGED daemonVars
  PROVE  FlightInOrder'
<1>1. UNCHANGED <<bus, ev, step, taken>>
  BY DEF daemonVars
<1>2. frames \in Seq(Event) /\ Shrunk(frames, frames') /\ InOrder(frames)
  BY UiTakes DEF IpcTypeOK, FlightInOrder
<1>3. alerts \in Seq(Event) /\ Shrunk(alerts, alerts') /\ InOrder(alerts)
  BY UiTakes DEF IpcTypeOK, FlightInOrder
<1>4. InOrder(frames') /\ \A i \in 1..Len(frames') : \E j \in 1..Len(frames) : frames'[i] = frames[j]
  BY <1>2, ShrunkOrder
<1>5. InOrder(alerts') /\ \A i \in 1..Len(alerts') : \E j \in 1..Len(alerts) : alerts'[i] = alerts[j]
  BY <1>3, ShrunkOrder
<1>6. \A k, m : Upstream(k, m) => Upstream(k, m)'
  BY <1>1 DEF Upstream, Upcoming, BelowBus, BelowDerived
<1>7. ASSUME NEW i \in 1..Len(frames')
      PROVE  /\ frames'[i].kind \in Kinds \ {"anomaly"}
             /\ Upstream(frames[i].kind, frames[i].n)'
  BY <1>4, <1>6 DEF FlightInOrder
<1>8. ASSUME NEW i \in 1..Len(alerts')
      PROVE  /\ alerts'[i].kind \in Kinds \cap {"anomaly"}
             /\ Upstream(alerts[i].kind, alerts[i].n)'
  BY <1>5, <1>6 DEF FlightInOrder
<1> QED BY <1>4, <1>5, <1>7, <1>8 DEF FlightInOrder

\* What the UI's steps add to its queue, if anything: a frame or an alert, in its
\* order, or an event of an input device.
LEMMA UiQueued ==
  ASSUME IpcTypeOK, UiTypeOK, UiAct
  PROVE  \/ Shrunk(uiBus, uiBus')
         \/ \E e \in Event :
              /\ \/ e.kind \in Inputs
                 \/ frames # <<>> /\ e = Head(frames) /\ frames' = Tail(frames) /\ alerts' = alerts
                 \/ alerts # <<>> /\ e = Head(alerts) /\ alerts' = Tail(alerts) /\ frames' = frames
              /\ Len(uiBus') \in {Len(uiBus), Len(uiBus) + 1}
              /\ \A i \in 1..Len(uiBus') :
                   \/ i \in 1..Len(uiBus) /\ uiBus'[i] = uiBus[i]
                   \/ i = Len(uiBus) + 1 /\ uiBus'[i] = e
<1>1. ASSUME NEW e \in Event, UiPost(e)
      PROVE  /\ Len(uiBus') \in {Len(uiBus), Len(uiBus) + 1}
             /\ \A i \in 1..Len(uiBus') :
                  \/ i \in 1..Len(uiBus) /\ uiBus'[i] = uiBus[i]
                  \/ i = Len(uiBus) + 1 /\ uiBus'[i] = e
  BY <1>1, PostElements, CapacityAssumption DEF UiPost, UiTypeOK
<1>2. CASE RecvFrame
  <2>1. Head(frames) \in Event
    BY <1>2, TailType DEF RecvFrame, IpcTypeOK
  <2> QED BY <1>1, <1>2, <2>1 DEF RecvFrame
<1>3. CASE AlertRecv
  <2>1. Head(alerts) \in Event
    BY <1>3, TailType DEF AlertRecv, IpcTypeOK
  <2> QED BY <1>1, <1>3, <2>1 DEF AlertRecv
<1>4. ASSUME NEW i \in Inputs, InputEvent(i) PROVE
         \/ Shrunk(uiBus, uiBus')
         \/ \E e \in Event :
              /\ e.kind \in Inputs
              /\ Len(uiBus') \in {Len(uiBus), Len(uiBus) + 1}
              /\ \A j \in 1..Len(uiBus') :
                   \/ j \in 1..Len(uiBus) /\ uiBus'[j] = uiBus[j]
                   \/ j = Len(uiBus) + 1 /\ uiBus'[j] = e
  <2>1. EventOf(i, pressed[i] + 1) \in Event /\ EventOf(i, pressed[i] + 1).kind \in Inputs
    BY MaxInputsAssumption DEF UiTypeOK, EventOf, Event, UiKinds
  <2> QED BY <1>1, <1>4, <2>1 DEF InputEvent, Shrunk
<1>5. CASE UiHandle
  BY <1>5 DEF UiHandle, Shrunk
<1>6. CASE TickCopy \/ TickRender
  BY <1>6 DEF TickCopy, TickRender, Shrunk
<1>7. CASE UiQuiet
  BY <1>7 DEF UiQuiet, Shrunk
<1> QED BY <1>2, <1>3, <1>4, <1>5, <1>6, <1>7, MostUiStepsAreQuiet

\* A frame or an alert that arrives is newer than what the UI has of its kind, and
\* older than what is still to come.
LEMMA Arrival ==
  ASSUME IpcTypeOK, FlightInOrder, UiAct, UNCHANGED daemonVars, NEW e \in Event,
         \/ frames # <<>> /\ e = Head(frames) /\ frames' = Tail(frames) /\ alerts' = alerts
         \/ alerts # <<>> /\ e = Head(alerts) /\ alerts' = Tail(alerts) /\ frames' = frames
  PROVE  /\ e.kind \in Kinds
         /\ InFlight(e.kind, e.n)'
         /\ \A m : InFlight(e.kind, m) => m < e.n
<1>1. UNCHANGED <<bus, ev, step, taken>>
  BY DEF daemonVars
<1>2. CASE frames # <<>> /\ e = Head(frames) /\ frames' = Tail(frames) /\ alerts' = alerts
  <2>1. e = frames[1] /\ 1 \in 1..Len(frames)
    BY <1>2, TailElements DEF IpcTypeOK
  <2>2. e.kind \in Kinds \ {"anomaly"} /\ Upstream(e.kind, e.n)
    BY <2>1 DEF FlightInOrder
  <2>3. BelowAll(frames, e.kind, e.n)'
    BY <1>2, <2>2, OrderedTail DEF IpcTypeOK, FlightInOrder
  <2>4. BelowAll(alerts, e.kind, e.n)'
    BY <1>2, <2>2 DEF FlightInOrder, BelowAll
  <2>5. Upstream(e.kind, e.n)'
    BY <1>1, <1>2, <2>2 DEF Upstream, Upcoming, BelowBus, BelowDerived
  <2> QED BY <2>1, <2>2, <2>3, <2>4, <2>5 DEF InFlight, BelowAll
<1>3. CASE alerts # <<>> /\ e = Head(alerts) /\ alerts' = Tail(alerts) /\ frames' = frames
  <2>1. e = alerts[1] /\ 1 \in 1..Len(alerts)
    BY <1>3, TailElements DEF IpcTypeOK
  <2>2. e.kind \in Kinds \cap {"anomaly"} /\ Upstream(e.kind, e.n)
    BY <2>1 DEF FlightInOrder
  <2>3. BelowAll(alerts, e.kind, e.n)'
    BY <1>3, <2>2, OrderedTail DEF IpcTypeOK, FlightInOrder
  <2>4. BelowAll(frames, e.kind, e.n)'
    BY <1>3, <2>2 DEF FlightInOrder, BelowAll
  <2>5. Upstream(e.kind, e.n)'
    BY <1>1, <1>3, <2>2 DEF Upstream, Upcoming, BelowBus, BelowDerived
  <2> QED BY <2>1, <2>2, <2>3, <2>4, <2>5 DEF InFlight, BelowAll
<1> QED BY <1>2, <1>3

LEMMA UiBusUnderUi ==
  ASSUME IpcTypeOK, UiTypeOK, UiTypeOK', FlightInOrder, UiBusInOrder,
         UiAct, UNCHANGED daemonVars
  PROVE  UiBusInOrder'
<1>1. /\ uiBus \in Seq(Event) /\ uiBus' \in Seq(Event) /\ InOrder(uiBus)
      /\ \A i \in 1..Len(uiBus) :
           uiBus[i].n \in Nat
           /\ (uiBus[i].kind \in Kinds => InFlight(uiBus[i].kind, uiBus[i].n))
  BY UiTypes DEF UiTypeOK, UiBusInOrder
<1>2. \A k, m : InFlight(k, m) => InFlight(k, m)'
  BY InFlightKeptByUi
<1>3. CASE Shrunk(uiBus, uiBus')
  <2>1. /\ InOrder(uiBus')
        /\ \A i \in 1..Len(uiBus') : \E j \in 1..Len(uiBus) : uiBus'[i] = uiBus[j]
    BY <1>1, <1>3, ShrunkOrder
  <2>2. ASSUME NEW i \in 1..Len(uiBus'), uiBus'[i].kind \in Kinds
        PROVE  InFlight(uiBus[i].kind, uiBus[i].n)'
    BY <1>1, <1>2, <2>1, <2>2
  <2> QED BY <2>1, <2>2 DEF UiBusInOrder
<1>4. ASSUME NEW e \in Event,
             \A i \in 1..Len(uiBus') :
               \/ i \in 1..Len(uiBus) /\ uiBus'[i] = uiBus[i]
               \/ i = Len(uiBus) + 1 /\ uiBus'[i] = e,
             e.kind \in Kinds =>
               InFlight(e.kind, e.n)' /\ \A m : InFlight(e.kind, m) => m < e.n
      PROVE  UiBusInOrder'
  <2>1. \A i \in 1..Len(uiBus) : e.kind \in Kinds /\ uiBus[i].kind = e.kind => uiBus[i].n < e.n
    BY <1>1, <1>4
  <2>2. InOrder(uiBus')
    BY <1>1, <1>4, <2>1, OrderedPost
  <2>3. ASSUME NEW i \in 1..Len(uiBus'), uiBus'[i].kind \in Kinds
        PROVE  InFlight(uiBus[i].kind, uiBus[i].n)'
    BY <1>1, <1>2, <1>4, <2>3
  <2> QED BY <2>2, <2>3 DEF UiBusInOrder
<1>5. ASSUME NEW e \in Event, e.kind \in Inputs PROVE e.kind \notin Kinds
  BY <1>5, InputsAreNoKinds
<1> QED BY <1>3, <1>4, <1>5, UiQueued, Arrival

\* What the queue brings is newer than the cache.
LEMMA CacheUnderUi ==
  ASSUME IpcTypeOK, UiTypeOK, FlightInOrder, UiAct, UNCHANGED daemonVars,
         NEW k \in Kinds, NEW m \in Nat, InFlight(k, m), BelowAll(uiBus, k, m)
  PROVE  InFlight(k, m)' /\ BelowAll(uiBus, k, m)'
<1>1. InFlight(k, m)'
  BY InFlightKeptByUi
<1>2. CASE Shrunk(uiBus, uiBus')
  <2>1. \A i \in 1..Len(uiBus') : \E j \in 1..Len(uiBus) : uiBus'[i] = uiBus[j]
    <3>1. uiBus \in Seq(Event)
      BY DEF UiTypeOK
    <3> QED BY <1>2, <3>1, ShrunkOrder
  <2> QED BY <1>1, <2>1 DEF BelowAll
<1>3. ASSUME NEW e \in Event,
             \A i \in 1..Len(uiBus') :
               \/ i \in 1..Len(uiBus) /\ uiBus'[i] = uiBus[i]
               \/ i = Len(uiBus) + 1 /\ uiBus'[i] = e,
             e.kind = k => m < e.n
      PROVE  BelowAll(uiBus, k, m)'
  BY <1>3 DEF BelowAll
<1>4. \A e \in Event : e.kind \in Inputs => e.kind # k
  BY InputsAreNoKinds
<1> QED BY <1>1, <1>2, <1>3, <1>4, UiQueued, Arrival

LEMMA ScreenUnderUi ==
  ASSUME IpcTypeOK, UiTypeOK, UiTypeOK', FlightInOrder, UiBusInOrder, ScreenInOrder,
         UiAct, UNCHANGED daemonVars
  PROVE  ScreenInOrder'
<1> SUFFICES ASSUME NEW k \in Kinds
             PROVE  /\ InFlight(k, cache[k])' /\ BelowAll(uiBus, k, cache[k])'
                    /\ LastOf(shown'[k]) <= cache'[k]
                    /\ k \in DOMAIN local' => LastOf(shown'[k]) < local'[k] /\ local'[k] <= cache'[k]
                    /\ k \in dirty' =>
                         /\ LastOf(shown'[k]) < cache'[k]
                         /\ k \in DOMAIN local' => local'[k] < cache'[k]
  BY DEF ScreenInOrder
<1>1. /\ InFlight(k, cache[k]) /\ BelowAll(uiBus, k, cache[k])
      /\ LastOf(shown[k]) <= cache[k]
      /\ k \in DOMAIN local => LastOf(shown[k]) < local[k] /\ local[k] <= cache[k]
      /\ k \in dirty =>
           /\ LastOf(shown[k]) < cache[k]
           /\ k \in DOMAIN local => local[k] < cache[k]
  BY DEF ScreenInOrder
<1>2. /\ k \in UiKinds /\ cache[k] \in Nat /\ shown[k] \in Seq(Nat) /\ LastOf(shown[k]) \in Nat
      /\ k \in DOMAIN local => local[k] \in Nat
  BY UiTypes
<1>3. CASE cache'[k] = cache[k]
  <2>1. InFlight(k, cache[k])' /\ BelowAll(uiBus, k, cache[k])'
    <3>1. PICK m \in Nat : m = cache[k]
      BY <1>2
    <3>2. InFlight(k, m)' /\ BelowAll(uiBus, k, m)'
      BY <1>1, <3>1, CacheUnderUi
    <3> QED BY <1>3, <3>1, <3>2
  <2>2. CASE shown'[k] = shown[k] /\ local' \in {local, <<>>} /\ (k \in dirty' => k \in dirty)
    BY <1>1, <1>3, <2>1, <2>2
  <2>3. CASE TickCopy
    <3>1. shown' = shown /\ dirty' = {} /\ local' = [j \in dirty |-> cache[j]]
      BY <2>3 DEF TickCopy, Copy
    <3>2. k \in DOMAIN local' => k \in dirty /\ local'[k] = cache[k]
      BY <3>1
    <3> QED BY <1>1, <1>2, <1>3, <2>1, <3>1, <3>2
  <2>4. CASE TickRender
    <3>1. dirty' = dirty /\ DOMAIN local' = {}
      BY <2>4 DEF TickRender
    <3>2. CASE k \in Visible
      <4>1. k \in DOMAIN local /\ shown'[k] = Append(shown[k], local[k])
        BY <1>2, <2>4, <3>2 DEF TickRender, Visible
      <4>2. LastOf(shown'[k]) = local[k]
        BY <1>2, <4>1, LastOfAppend
      <4> QED BY <1>1, <1>2, <1>3, <2>1, <3>1, <4>1, <4>2
    <3>3. CASE k \notin Visible
      <4>1. shown'[k] = shown[k]
        BY <1>2, <2>4, <3>3 DEF TickRender
      <4> QED BY <1>1, <1>2, <1>3, <2>1, <3>1, <4>1
    <3> QED BY <3>2, <3>3
  <2>5. CASE UiHandle
    <3>1. shown' = shown /\ local' = local /\ uiBus # <<>>
      BY <2>5 DEF UiHandle
    <3>2. CASE k \in dirty' => k \in dirty
      BY <2>2, <3>1, <3>2
    <3>3. CASE k \in dirty' /\ k \notin dirty
      <4>1. k = Head(uiBus).kind /\ cache'[k] = Head(uiBus).n
        BY <1>2, <2>5, <3>3 DEF UiHandle, Flagged, UiTypeOK
      <4>2. Head(uiBus) = uiBus[1] /\ 1 \in 1..Len(uiBus)
        BY <3>1, TailElements, UiTypes
      <4>3. cache[k] < cache'[k]
        BY <1>1, <4>1, <4>2 DEF BelowAll
      <4> QED BY <1>2, <1>3, <4>3
    <3> QED BY <3>2, <3>3
  <2>6. CASE UiQuiet
    BY <2>2, <2>6 DEF UiQuiet
  <2>7. CASE RecvFrame \/ AlertRecv \/ \E i \in Inputs : InputEvent(i)
    BY <2>2, <2>7 DEF RecvFrame, AlertRecv, InputEvent, dashboard
  <2> QED BY <2>3, <2>4, <2>5, <2>6, <2>7, MostUiStepsAreQuiet
<1>4. CASE cache'[k] # cache[k]
  <2>1. UiHandle
    <3>1. cache' # cache
      BY <1>4
    <3> QED BY <3>1, MostUiStepsAreQuiet DEF UiQuiet, RecvFrame, AlertRecv, TickCopy,
           TickRender, InputEvent, dashboard
  <2>2. /\ uiBus # <<>> /\ uiBus' = Tail(uiBus) /\ shown' = shown /\ local' = local
        /\ UNCHANGED <<frames, alerts>>
        /\ k = Head(uiBus).kind /\ cache'[k] = Head(uiBus).n
    BY <1>2, <1>4, <2>1 DEF UiHandle, UiTypeOK, ipcVars
  <2>3. /\ uiBus \in Seq(Event) /\ Head(uiBus) = uiBus[1] /\ 1 \in 1..Len(uiBus)
        /\ uiBus[1].n \in Nat
    BY <2>2, TailElements, UiTypes
  <2>4. PICK m \in Nat : m = Head(uiBus).n
    BY <2>3
  <2>5. InFlight(k, m) /\ cache[k] < m
    BY <1>1, <2>2, <2>3, <2>4 DEF UiBusInOrder, BelowAll
  <2>6. InFlight(k, m)' /\ BelowAll(uiBus, k, m)'
    BY <2>2, <2>3, <2>4, <2>5, InFlightKeptByUi, OrderedTail DEF UiBusInOrder
  <2> QED BY <1>1, <1>2, <2>2, <2>4, <2>5, <2>6
<1> QED BY <1>3, <1>4

----------------------------------------------------------------------------
(* The invariant. *)

LEMMA OrderInit == Init => OrderInv
<1> SUFFICES ASSUME Init PROVE OrderInv
  OBVIOUS
<1>1. bus = <<>> /\ frames = <<>> /\ alerts = <<>> /\ uiBus = <<>> /\ step = "idle"
  BY DEF Init, DaemonInit, IpcInit, UiInit
<1>2. /\ \A k \in Kinds : taken[Source(k)] = 0 /\ cache[k] = 0 /\ LastOf(shown[k]) = 0
      /\ \A o \in Sinks, k \in Kinds : LastOf(rows[o][k]) = 0
      /\ dirty = {} /\ DOMAIN local = {}
  BY SourceIsSensor, KindsOfSensors DEF Init, DaemonInit, UiInit, LastOf
<1>3. \A k \in Kinds : Upcoming(k, 0) /\ Upstream(k, 0) /\ InFlight(k, 0)
  BY <1>1, <1>2 DEF Upcoming, Upstream, InFlight, BelowBus, BelowDerived, BelowAll,
     Deriving, Unsent
<1>4. DaemonInOrder
  BY <1>1, <1>2, <1>3 DEF DaemonInOrder, BusInOrder, InOrder, HandlerInOrder, RowsInOrder,
     Before, Unsent, Deriving, Steps
<1>5. FlightInOrder /\ UiBusInOrder
  BY <1>1 DEF FlightInOrder, UiBusInOrder, InOrder
<1>6. ScreenInOrder
  BY <1>1, <1>2, <1>3 DEF ScreenInOrder, BelowAll
<1> QED BY <1>4, <1>5, <1>6 DEF OrderInv

LEMMA OrderStep == TypeOK /\ TypeOK' /\ OrderInv /\ [Next]_vars => OrderInv'
<1> SUFFICES ASSUME TypeOK, TypeOK', OrderInv, [Next]_vars PROVE OrderInv'
  OBVIOUS
<1>1. /\ IpcTypeOK /\ DaemonTypeOK /\ UiTypeOK
      /\ IpcTypeOK' /\ DaemonTypeOK' /\ UiTypeOK'
      /\ DaemonInOrder /\ FlightInOrder /\ UiBusInOrder /\ ScreenInOrder
  BY DEF TypeOK, OrderInv
<1>2. CASE DaemonAct /\ UNCHANGED uiVars
  BY <1>1, <1>2, DaemonOrderStep, FlightOrderStep, UiOrderUnderDaemon DEF OrderInv
<1>3. CASE UiAct /\ UNCHANGED daemonVars
  <2>1. DaemonInOrder'
    BY <1>1, <1>3 DEF daemonVars, DaemonInOrder, BusInOrder, InOrder, HandlerInOrder,
       RowsInOrder, Upcoming, BelowBus, BelowDerived
  <2> QED BY <1>1, <1>3, <2>1, FlightUnderUi, UiBusUnderUi, ScreenUnderUi DEF OrderInv
<1>4. CASE UNCHANGED vars
  BY <1>4 DEF vars, ipcVars, daemonVars, uiVars, OrderInv, DaemonInOrder, FlightInOrder,
     UiBusInOrder, ScreenInOrder, BusInOrder, InOrder, HandlerInOrder, RowsInOrder,
     InFlight, Upstream, Upcoming, BelowBus, BelowDerived, BelowAll
<1> QED BY <1>2, <1>3, <1>4, StepIsOneProcess

\* Wherever an event of some kind is, from the sensor's count to the screen, nothing
\* behind it on its way is older: no thread of either process overtakes another.
THEOREM OrderInvariant == Spec => [](TypeOK /\ OrderInv)
<1>1. TypeOK /\ OrderInv /\ TypeOK' /\ [Next]_vars => OrderInv'
  BY OrderStep
<1> QED BY PanelTypeCorrect, OrderInit, <1>1, PTL DEF Spec

----------------------------------------------------------------------------
(* The panel implements ReadingFlow. *)

\* What the outlets have received, as ReadingFlow sees it.
Delivered ==
  [o \in Sinks \cup {"screen"} |->
     IF o \in Sinks THEN rows[o] ELSE [k \in Kinds |-> shown[k]]]

\* A value that was measured and is newer than the last one extends the deliveries.
LEMMA ExtendedBy ==
  ASSUME NEW k \in Kinds, NEW q \in Seq(Nat), NEW n \in Nat, LastOf(q) \in Nat,
         LastOf(q) < n, n <= taken[Source(k)], taken[Source(k)] \in Nat
  PROVE  Flow!Extends(k, q, Append(q, n))
<1>1. n \in 1..taken[Source(k)]
  OBVIOUS
<1>2. Flow!Newer(n, q)
  BY DEF Flow!Newer, LastOf
<1>3. [l \in Kinds |-> Source(l)][k] = Source(k)
  OBVIOUS
<1> QED BY <1>1, <1>2, <1>3 DEF Flow!Extends

LEMMA FlowInit == Init => Flow!Init
<1> SUFFICES ASSUME Init PROVE Flow!Init
  OBVIOUS
<1>1. taken = [s \in Sensors |-> 0]
  BY DEF Init, DaemonInit
<1>2. \A o \in Sinks : rows[o] = [k \in Kinds |-> <<>>]
  BY DEF Init, DaemonInit
<1>3. \A k \in Kinds : shown[k] = <<>>
  BY KindsOfSensors DEF Init, UiInit
<1>4. Delivered = [o \in Sinks \cup {"screen"} |-> [k \in Kinds |-> <<>>]]
  BY <1>2, <1>3 DEF Delivered
<1> QED BY <1>1, <1>4 DEF Flow!Init, Delivered

LEMMA FlowStep ==
  TypeOK /\ TypeOK' /\ OrderInv /\ [Next]_vars => [Flow!Next]_(Flow!vars)
<1> SUFFICES ASSUME TypeOK, TypeOK', OrderInv, [Next]_vars
             PROVE  [Flow!Next]_(Flow!vars)
  OBVIOUS
<1>1. IpcTypeOK /\ DaemonTypeOK /\ UiTypeOK /\ DaemonTypeOK' /\ UiTypeOK'
  BY DEF TypeOK
<1>2. CASE UNCHANGED <<taken, rows, shown>>
  BY <1>2 DEF Flow!vars
<1>3. ASSUME NEW s \in Sensors, SensorPost(s), UNCHANGED uiVars
      PROVE  Flow!Take(s)
  <2>1. taken' = [taken EXCEPT ![s] = @ + 1] /\ rows' = rows /\ shown' = shown
    BY <1>3 DEF SensorPost, uiVars
  <2> QED BY <2>1 DEF Flow!Take
<1>4. ASSUME NEW o \in Sinks, LeaveSink(o), UNCHANGED uiVars
      PROVE  Flow!Deliver(o)
  <2>1. taken' = taken /\ shown' = shown /\ DaemonAct
    BY <1>4 DEF LeaveSink, outside, uiVars, DaemonAct, Consumer
  <2>2. DOMAIN rows'[o] = Kinds
    BY <1>1 DEF DaemonTypeOK
  <2>3. \A p \in Sinks \ {o} : rows'[p] = rows[p]
    BY <1>1, <1>4 DEF LeaveSink, DaemonTypeOK
  <2>4. ASSUME NEW k \in Kinds PROVE Flow!Extends(k, rows[o][k], rows'[o][k])
    <3>1. CASE rows'[o][k] = rows[o][k]
      BY <3>1 DEF Flow!Extends
    <3>2. CASE /\ step = Inside(o) /\ ev.kind = k
               /\ rows'[o][k] = Append(rows[o][k], ev.n)
      <4>1. step # "idle" /\ step \in Before(o)
        BY <3>2 DEF Inside, Before, Sinks, Steps
      <4>2. LastOf(rows[o][k]) < ev.n /\ ev.n <= taken[Source(k)]
        BY <3>2, <4>1 DEF OrderInv, DaemonInOrder, RowsInOrder, HandlerInOrder, Upcoming
      <4>3. /\ ev.n \in Nat /\ taken[Source(k)] \in Nat
            /\ rows[o][k] \in Seq(Nat) /\ LastOf(rows[o][k]) \in Nat
        BY <1>1, <4>1, DaemonTypes
      <4> QED BY <3>2, <4>2, <4>3, ExtendedBy
    <3> QED BY <1>1, <2>1, <3>1, <3>2, RowsStep
  <2>5. /\ DOMAIN Delivered' = Sinks \cup {"screen"}
        /\ DOMAIN Delivered'[o] = Kinds
        /\ \A k \in Kinds : Flow!Extends(k, Delivered[o][k], Delivered'[o][k])
        /\ \A p \in (Sinks \cup {"screen"}) \ {o} : Delivered'[p] = Delivered[p]
    BY <2>1, <2>2, <2>3, <2>4 DEF Delivered
  <2> QED BY <2>1, <2>5 DEF Flow!Deliver, Delivered
<1>5. ASSUME TickRender, UNCHANGED daemonVars
      PROVE  Flow!Deliver("screen")
  <2>1. taken' = taken /\ rows' = rows
    BY <1>5 DEF daemonVars
  <2>2. ASSUME NEW k \in Kinds PROVE Flow!Extends(k, shown[k], shown'[k])
    <3>1. /\ k \in UiKinds /\ cache[k] \in Nat
          /\ shown[k] \in Seq(Nat) /\ LastOf(shown[k]) \in Nat
          /\ k \in DOMAIN local => local[k] \in Nat
      BY <1>1, UiTypes
    <3>2. CASE k \in Visible
      <4>1. k \in DOMAIN local /\ shown'[k] = Append(shown[k], local[k])
        BY <1>5, <3>1, <3>2 DEF TickRender, Visible
      <4>2. LastOf(shown[k]) < local[k] /\ local[k] <= cache[k] /\ cache[k] <= taken[Source(k)]
        BY <4>1 DEF OrderInv, ScreenInOrder, InFlight, Upstream, Upcoming
      <4>3. taken[Source(k)] \in Nat
        BY <1>1, DaemonTypes
      <4>4. local[k] <= taken[Source(k)]
        BY <3>1, <4>1, <4>2, <4>3
      <4> QED BY <3>1, <4>1, <4>2, <4>3, <4>4, ExtendedBy
    <3>3. CASE k \notin Visible
      BY <1>5, <3>1, <3>3 DEF TickRender, Flow!Extends
    <3> QED BY <3>2, <3>3
  <2>3. /\ DOMAIN Delivered' = Sinks \cup {"screen"}
        /\ DOMAIN Delivered'["screen"] = Kinds
        /\ \A k \in Kinds : Flow!Extends(k, Delivered["screen"][k], Delivered'["screen"][k])
        /\ \A p \in (Sinks \cup {"screen"}) \ {"screen"} : Delivered'[p] = Delivered[p]
    BY <2>1, <2>2 DEF Delivered, Sinks
  <2> QED BY <2>1, <2>3 DEF Flow!Deliver, Delivered
<1>6. CASE DaemonAct /\ UNCHANGED uiVars
  <2>1. \/ \E s \in Sensors : SensorPost(s)
        \/ \E o \in Sinks : LeaveSink(o)
        \/ UNCHANGED <<taken, rows>>
    <3>1. CASE \E w \in Loops : LoopStep(w)
      BY <3>1 DEF LoopStep, LoopTest, LoopSkip, SemWait, SemPost, consumerVars
    <3>2. CASE Consumer
      BY <3>2 DEF Consumer, Dispatch, SkipSend, BeginSend, Write, SendFails, Algo, Alert,
         EnterSink, outside
    <3>3. CASE DaemonMain \/ DaemonSignal \/ DaemonDies
      BY <3>3 DEF DaemonMain, LeaveLoop, JoinThreads, Release, CloseClient, DestroyBus,
         DaemonSignal, DaemonDies, consumerVars
    <3> QED BY <1>6, <3>1, <3>2, <3>3 DEF DaemonAct
  <2>2. UNCHANGED shown
    BY <1>6 DEF uiVars
  <2> QED BY <1>2, <1>3, <1>4, <1>6, <2>1, <2>2 DEF Flow!Next
<1>7. CASE UiAct /\ UNCHANGED daemonVars
  <2>1. TickRender \/ UNCHANGED shown
    BY <1>7, MostUiStepsAreQuiet DEF UiQuiet, RecvFrame, AlertRecv, UiHandle, TickCopy,
       InputEvent, dashboard
  <2>2. UNCHANGED <<taken, rows>>
    BY <1>7 DEF daemonVars
  <2> QED BY <1>2, <1>5, <1>7, <2>1, <2>2 DEF Flow!Next
<1>8. CASE UNCHANGED vars
  BY <1>2, <1>8 DEF vars, daemonVars, uiVars
<1> QED BY <1>6, <1>7, <1>8, StepIsOneProcess

\* Database, MQTT and screen each receive every kind in the order it was measured,
\* nothing twice and nothing that was not measured, whatever the processes do.
THEOREM FlowCorrect == Spec => FlowSpec
<1>1. TypeOK /\ TypeOK' /\ OrderInv /\ [Next]_vars => [Flow!Next]_(Flow!vars)
  BY FlowStep
<1> QED BY OrderInvariant, FlowInit, <1>1, PTL DEF Spec, FlowSpec, Flow!Spec

----------------------------------------------------------------------------
(* The comfort index on screen and the reading next to it. *)

ClimateKinds == {"comfort", "dht11"}

\* A dht11 reading as late as m, ahead of place lo of q; in the UI's queue or cache;
\* or on the socket.
Within(q, lo, m) == \E j \in 1..Len(q) : j < lo /\ q[j].kind = "dht11" /\ m <= q[j].n

InUi(m) ==
  \/ m <= cache["dht11"]
  \/ \E j \in 1..Len(uiBus) : uiBus[j].kind = "dht11" /\ m <= uiBus[j].n

Reached(m) ==
  \/ InUi(m)
  \/ \E j \in 1..Len(frames) : frames[j].kind = "dht11" /\ m <= frames[j].n

\* The value of kind k the screen shows when the tick that has begun is over.
Latest(k) == IF k \in DOMAIN local THEN local[k] ELSE LastOf(shown[k])

\* A comfort index is never ahead of the reading it stems from: not before its frame
\* is written, because the reading's frame is,
DaemonAbreast ==
  /\ step = "sending" => sockFd = "set"
  /\ sockFd = "set" =>
       /\ \A i \in 1..Len(bus) : bus[i].kind = "comfort" => Reached(bus[i].n)
       /\ step \in {"send", "sending"} /\ ev.kind = "comfort" => Reached(ev.n)
       /\ step = "algo" /\ ev.kind = "dht11" => Reached(ev.n)

\* nor on the socket, nor in the UI's queue,
FramesAbreast ==
  \A i \in 1..Len(frames) :
    frames[i].kind = "comfort" => InUi(frames[i].n) \/ Within(frames, i, frames[i].n)

UiBusAbreast ==
  \A i \in 1..Len(uiBus) :
    uiBus[i].kind = "comfort" =>
      uiBus[i].n <= cache["dht11"] \/ Within(uiBus, i, uiBus[i].n)

\* nor in the cache and in what tick() makes of it.
DashboardAbreast ==
  /\ cache["comfort"] <= cache["dht11"]
  /\ Latest("comfort") <= Latest("dht11")
  /\ \A k \in ClimateKinds : k \notin dirty => cache[k] = Latest(k)

Abreast == DaemonAbreast /\ FramesAbreast /\ UiBusAbreast /\ DashboardAbreast

\* The inductive invariant, next to OrderInv.
ComfortInv ==
  ~uiDropped /\ ClimateKinds \subseteq Kinds =>
    /\ LastOf(shown["comfort"]) <= LastOf(shown["dht11"])
    /\ uiMain # "render" => DOMAIN local = {}
    /\ uiMain \notin {"exited", "dead"} => Abreast

LEMMA ComfortTypes ==
  ASSUME TypeOK, ClimateKinds \subseteq Kinds
  PROVE  /\ cache["comfort"] \in Nat /\ cache["dht11"] \in Nat
         /\ frames \in Seq(Event) /\ uiBus \in Seq(Event) /\ bus \in Seq(Event)
         /\ \A i \in 1..Len(frames) : frames[i].n \in Nat
         /\ \A i \in 1..Len(uiBus) : uiBus[i].n \in Nat
         /\ \A i \in 1..Len(bus) : bus[i].n \in Nat
         /\ step # "idle" => ev \in Event /\ ev.n \in Nat
<1>1. IpcTypeOK /\ UiTypeOK /\ DaemonTypeOK
  BY DEF TypeOK
<1>2. cache["comfort"] \in Nat /\ cache["dht11"] \in Nat
  BY <1>1, UiTypes DEF ClimateKinds
<1>3. frames \in Seq(Event) /\ uiBus \in Seq(Event) /\ bus \in Seq(Event)
  BY <1>1, DaemonTypes DEF IpcTypeOK, UiTypeOK
<1>4. step # "idle" => ev \in Event /\ ev.n \in Nat
  BY <1>1, DaemonTypes
<1> QED BY <1>2, <1>3, <1>4, EventElements

\* A daemon's step only adds to the socket.
LEMMA ReachedByDaemon ==
  ASSUME TypeOK, DaemonAct, UNCHANGED uiVars, NEW m
  PROVE  /\ InUi(m) => InUi(m)'
         /\ Reached(m) => Reached(m)'
         /\ \A i : Within(frames, i, m) => Within(frames', i, m)
<1>1. UNCHANGED <<cache, uiBus>>
  BY DEF uiVars
<1>2. /\ Len(frames') \in {Len(frames), Len(frames) + 1}
      /\ \A i \in 1..Len(frames) : i \in 1..Len(frames') /\ frames'[i] = frames[i]
  <2>1. frames \in Seq(Event) /\ Len(frames) \in Nat
    BY DEF TypeOK, IpcTypeOK
  <2>2. CASE frames' = frames
    BY <2>1, <2>2
  <2>3. CASE Write
    <3>1. frames' = Append(frames, ev) /\ ev \in Event
      BY <2>3, DaemonTypes DEF Write, TypeOK
    <3> QED BY <2>1, <3>1
  <2>4. Write \/ frames' = frames
    <3>1. CASE \E w \in Loops : LoopStep(w)
      BY <3>1 DEF LoopStep, LoopTest, LoopSkip, SemWait, SemPost, SensorPost, ipcVars
    <3>2. CASE Consumer
      BY <3>2 DEF Consumer, Dispatch, SkipSend, BeginSend, SendFails, Algo, Alert,
         EnterSink, LeaveSink, ipcVars
    <3>3. CASE DaemonMain \/ DaemonSignal \/ DaemonDies
      BY <3>3 DEF DaemonMain, LeaveLoop, JoinThreads, Release, CloseClient, DestroyBus,
         DaemonSignal, DaemonDies, ipcVars
    <3> QED BY <3>1, <3>2, <3>3 DEF DaemonAct
  <2> QED BY <2>2, <2>3, <2>4
<1>3. InUi(m) => InUi(m)'
  BY <1>1 DEF InUi
<1>4. Reached(m) => Reached(m)'
  BY <1>2, <1>3 DEF Reached
<1>5. \A i : Within(frames, i, m) => Within(frames', i, m)
  BY <1>2 DEF Within
<1> QED BY <1>3, <1>4, <1>5

\* What an append keeps and adds.
LEMMA AppendKeeps ==
  ASSUME NEW S, NEW q \in Seq(S), NEW e \in S
  PROVE  /\ \A i \in 1..Len(q) : i \in 1..Len(Append(q, e)) /\ Append(q, e)[i] = q[i]
         /\ Len(q) + 1 \in 1..Len(Append(q, e)) /\ Append(q, e)[Len(q) + 1] = e
         /\ Len(q) \in Nat
OBVIOUS

\* What a removal keeps.
LEMMA TailKeeps ==
  ASSUME NEW S, NEW q \in Seq(S), q # <<>>
  PROVE  \A i \in 1..Len(q) : \/ i = 1 /\ q[i] = Head(q)
                              \/ i - 1 \in 1..Len(Tail(q)) /\ Tail(q)[i - 1] = q[i]
OBVIOUS

\* The UI's steps while it lives and its queue has not overflowed.
LEMMA LiveUiSteps ==
  ASSUME TypeOK, UiAct, ~uiDropped', uiMain' \notin {"exited", "dead"}
  PROVE  \/ /\ RecvFrame /\ frames # <<>> /\ frames' = Tail(frames)
            /\ Head(frames) \in Event /\ uiBus' = Append(uiBus, Head(frames))
            /\ UNCHANGED <<dashboard, uiMain>>
         \/ /\ frames' = frames /\ UNCHANGED <<dashboard, uiMain>>
            /\ \E e \in Event :
                 /\ e.kind \in Inputs \/ (alerts # <<>> /\ e = Head(alerts))
                 /\ uiBus' = Append(uiBus, e)
         \/ UiHandle /\ frames' = frames /\ uiMain' = uiMain
         \/ TickCopy /\ UNCHANGED <<frames, uiBus>>
         \/ TickRender /\ UNCHANGED <<frames, uiBus>>
         \/ /\ UNCHANGED <<frames, uiBus, dashboard>>
            /\ uiMain' # "render" \/ uiMain = "render"
            /\ uiMain # "render" \/ uiMain' = "render"
<1>1. ASSUME NEW e \in Event, UiPost(e) PROVE uiBus' = Append(uiBus, e)
  <2>1. ~(Len(uiBus) >= UiQueue)
    BY <1>1 DEF UiPost
  <2>2. Len(uiBus) \in Nat /\ UiQueue \in Nat
    BY CapacityAssumption DEF TypeOK, UiTypeOK
  <2> QED BY <1>1, <2>1, <2>2 DEF UiPost, Post
<1>2. CASE RecvFrame
  <2>1. Head(frames) \in Event
    BY <1>2, TailType DEF RecvFrame, TypeOK, IpcTypeOK
  <2> QED BY <1>1, <1>2, <2>1 DEF RecvFrame
<1>3. CASE AlertRecv
  <2>1. Head(alerts) \in Event
    BY <1>3, TailType DEF AlertRecv, TypeOK, IpcTypeOK
  <2> QED BY <1>1, <1>3, <2>1 DEF AlertRecv
<1>4. ASSUME NEW i \in Inputs, InputEvent(i)
      PROVE  /\ frames' = frames /\ UNCHANGED <<dashboard, uiMain>>
             /\ \/ uiBus' = uiBus
                \/ \E e \in Event : e.kind \in Inputs /\ uiBus' = Append(uiBus, e)
  <2>1. EventOf(i, pressed[i] + 1) \in Event /\ EventOf(i, pressed[i] + 1).kind \in Inputs
    BY MaxInputsAssumption DEF TypeOK, UiTypeOK, EventOf, Event, UiKinds
  <2>2. CASE UiPost(EventOf(i, pressed[i] + 1))
    <3>1. uiBus' = Append(uiBus, EventOf(i, pressed[i] + 1))
      BY <1>1, <2>1, <2>2
    <3> QED BY <1>4, <2>1, <3>1 DEF InputEvent, ipcVars
  <2> QED BY <1>4, <2>2 DEF InputEvent, ipcVars
<1>5. CASE UiHandle \/ TickCopy \/ TickRender
  BY <1>5 DEF UiHandle, TickCopy, TickRender, ipcVars
<1>6. CASE \E i \in Inputs : InputTest(i) \/ InputFails(i)
  BY <1>6 DEF InputTest, InputFails, ipcVars
<1>7. CASE RecvEof \/ AlertCall \/ UiSignal
  BY <1>7 DEF RecvEof, AlertCall, UiSignal, ipcVars
<1>8. CASE UiLeaveLoop \/ JoinRecv \/ JoinAlert \/ JoinInput \/ UiDies
  BY <1>8 DEF UiLeaveLoop, JoinRecv, JoinAlert, JoinInput, UiDies, ipcVars
<1>9. CASE MoveSlider \/ UiSemWait \/ UiSemPost
  BY <1>9 DEF MoveSlider, UiSemWait, UiSemPost, uiVars, ipcVars, dashboard
<1> QED BY <1>2, <1>3, <1>4, <1>5, <1>6, <1>7, <1>8, <1>9
        DEF UiAct, Receiver, AlertReceiver, UiMain, dashboard

\* In the UI a reading moves on towards the cache, whose readings only get later.
LEMMA ReachedByUi ==
  ASSUME TypeOK, OrderInv, UiAct, ~uiDropped', uiMain' \notin {"exited", "dead"},
         ClimateKinds \subseteq Kinds, NEW m \in Nat
  PROVE  /\ InUi(m) => InUi(m)'
         /\ Reached(m) => Reached(m)'
<1>1. /\ cache["dht11"] \in Nat /\ frames \in Seq(Event) /\ uiBus \in Seq(Event)
      /\ \A i \in 1..Len(uiBus) : uiBus[i].n \in Nat
  BY ComfortTypes
<1>2. ASSUME NEW e \in Event, uiBus' = Append(uiBus, e), cache' = cache
      PROVE  /\ InUi(m) => InUi(m)'
             /\ e.kind = "dht11" /\ m <= e.n => InUi(m)'
  <2>1. /\ \A i \in 1..Len(uiBus) : i \in 1..Len(uiBus') /\ uiBus'[i] = uiBus[i]
        /\ Len(uiBus) + 1 \in 1..Len(uiBus') /\ uiBus'[Len(uiBus) + 1] = e
    BY <1>1, <1>2, AppendKeeps
  <2> QED BY <1>2, <2>1 DEF InUi
<1>3. CASE /\ frames # <<>> /\ frames' = Tail(frames)
           /\ Head(frames) \in Event /\ uiBus' = Append(uiBus, Head(frames)) /\ cache' = cache
  <2>1. /\ InUi(m) => InUi(m)'
        /\ Head(frames).kind = "dht11" /\ m <= Head(frames).n => InUi(m)'
    BY <1>2, <1>3
  <2>2. \A i \in 1..Len(frames) : \/ i = 1 /\ frames[i] = Head(frames)
                                  \/ i - 1 \in 1..Len(frames') /\ frames'[i - 1] = frames[i]
    BY <1>1, <1>3, TailKeeps
  <2> QED BY <2>1, <2>2 DEF Reached
<1>4. CASE /\ frames' = frames /\ cache' = cache
           /\ \E e \in Event : uiBus' = Append(uiBus, e)
  BY <1>2, <1>4 DEF Reached
<1>5. CASE UiHandle /\ frames' = frames
  <2>1. uiBus # <<>> /\ uiBus' = Tail(uiBus)
    BY <1>5 DEF UiHandle
  <2>2. /\ \A i \in 1..Len(uiBus) : \/ i = 1 /\ uiBus[i] = Head(uiBus)
                                    \/ i - 1 \in 1..Len(uiBus') /\ uiBus'[i - 1] = uiBus[i]
        /\ Head(uiBus) = uiBus[1] /\ 1 \in 1..Len(uiBus)
    BY <1>1, <2>1, TailKeeps, TailElements
  <2>3. "dht11" \in UiKinds /\ cache \in [UiKinds -> Nat]
    BY KindsOfSensors DEF TypeOK, UiTypeOK, ClimateKinds
  <2>4. IF Head(uiBus).kind = "dht11" THEN cache'["dht11"] = Head(uiBus).n
                                      ELSE cache'["dht11"] = cache["dht11"]
    BY <1>5, <2>3 DEF UiHandle
  <2>5. Head(uiBus).kind = "dht11" => cache["dht11"] < Head(uiBus).n
    BY <2>2 DEF OrderInv, ScreenInOrder, BelowAll, ClimateKinds
  <2>6. Head(uiBus).n \in Nat
    BY <1>1, <2>2
  <2>7. m <= cache["dht11"] => m <= cache'["dht11"]
    BY <1>1, <2>4, <2>5, <2>6
  <2>8. InUi(m) => InUi(m)'
    BY <2>2, <2>4, <2>7 DEF InUi
  <2> QED BY <1>5, <2>8 DEF Reached
<1>6. CASE UNCHANGED <<frames, uiBus, cache>>
  BY <1>6 DEF InUi, Reached
<1> QED BY <1>3, <1>4, <1>5, <1>6, LiveUiSteps DEF dashboard, TickCopy, TickRender

LEMMA DaemonAbreastStep ==
  ASSUME TypeOK, ClimateKinds \subseteq Kinds, DaemonAct, UNCHANGED uiVars, DaemonAbreast
  PROVE  DaemonAbreast'
<1>1. \A m : Reached(m) => Reached(m)'
  BY ReachedByDaemon
<1>2. /\ bus \in Seq(Event) /\ frames \in Seq(Event)
      /\ step # "idle" => ev \in Event /\ ev.n \in Nat
      /\ DaemonTypeOK
  BY ComfortTypes DEF TypeOK
<1>3. CASE /\ bus' \in {bus, <<>>} /\ ev' = ev /\ sockFd' = sockFd
           /\ step' = step \/ step' \notin {"send", "sending", "algo"}
  BY <1>1, <1>3 DEF DaemonAbreast
<1>4. ASSUME NEW s \in Sensors, SensorPost(s) PROVE DaemonAbreast'
  <2>1. /\ bus' = Post(bus, EventOf(s, taken[s] + 1), DaemonQueue)
        /\ EventOf(s, taken[s] + 1) \in Event /\ UNCHANGED <<ev, step, sockFd>>
    BY <1>2, <1>4, ReadingPosted, DaemonEventIsEvent DEF SensorPost
  <2>2. \A i \in 1..Len(bus') :
          (i \in 1..Len(bus) /\ bus'[i] = bus[i]) \/ bus'[i] = EventOf(s, taken[s] + 1)
    BY <1>2, <2>1, PostElements, CapacityAssumption
  <2>3. EventOf(s, taken[s] + 1).kind # "comfort"
    BY SensorIsSource DEF EventOf
  <2> QED BY <1>1, <2>1, <2>2, <2>3 DEF DaemonAbreast
<1>5. CASE Dispatch
  <2>1. /\ ev' = bus[1] /\ 1 \in 1..Len(bus) /\ step' \in {"alert", "send"} /\ sockFd' = sockFd
        /\ \A i \in 1..Len(bus') : i + 1 \in 1..Len(bus) /\ bus'[i] = bus[i + 1]
    BY <1>2, <1>5, EventDispatched DEF Dispatch
  <2> QED BY <1>1, <2>1 DEF DaemonAbreast
<1>6. CASE SkipSend
  BY <1>6 DEF SkipSend, AfterSend, DaemonAbreast
<1>7. CASE BeginSend
  BY <1>1, <1>7 DEF BeginSend, DaemonAbreast
<1>8. CASE Write
  <2>1. /\ step = "sending" /\ step' = AfterSend /\ UNCHANGED <<bus, ev, sockFd>>
        /\ frames' = Append(frames, ev) /\ ev \in Event /\ ev.n \in Nat
    BY <1>2, <1>8 DEF Write
  <2>2. Len(frames) + 1 \in 1..Len(frames') /\ frames'[Len(frames) + 1] = ev
    BY <1>2, <2>1, AppendKeeps
  <2>3. ev.kind = "dht11" => Reached(ev.n)'
    BY <2>1, <2>2 DEF Reached
  <2> QED BY <1>1, <2>1, <2>3 DEF DaemonAbreast, AfterSend
<1>9. CASE SendFails
  BY <1>9 DEF SendFails, Disconnect, DaemonAbreast
<1>10. CASE Algo
  <2>1. step = "algo" /\ step' = "db" /\ ev' = ev /\ sockFd' = sockFd
    BY <1>10 DEF Algo
  <2>2. CASE bus' = bus
    BY <1>1, <2>1, <2>2 DEF DaemonAbreast
  <2>3. ASSUME NEW d \in {"comfort", "anomaly"}, Source(d) = ev.kind,
               EventOf(d, ev.n) \in DaemonEvent, bus' = Post(bus, EventOf(d, ev.n), DaemonQueue)
        PROVE  DaemonAbreast'
    <3>1. EventOf(d, ev.n) \in Event
      BY <2>3, DaemonEventIsEvent
    <3>2. \A i \in 1..Len(bus') :
            (i \in 1..Len(bus) /\ bus'[i] = bus[i]) \/ bus'[i] = EventOf(d, ev.n)
      BY <1>2, <2>3, <3>1, PostElements, CapacityAssumption
    <3>3. d = "comfort" => ev.kind = "dht11"
      BY <2>3 DEF Source
    <3> QED BY <1>1, <2>1, <3>2, <3>3 DEF DaemonAbreast, EventOf
  <2> QED BY <1>2, <1>10, <2>2, <2>3, EventDerived
<1>11. CASE Alert
  BY <1>3, <1>11 DEF Alert
<1>12. CASE \E o \in Sinks : EnterSink(o) \/ LeaveSink(o)
  BY <1>3, <1>12 DEF EnterSink, LeaveSink, Inside, AfterSink, Sinks
<1>13. CASE \E w \in Loops : LoopTest(w) \/ LoopSkip(w) \/ SemWait(w) \/ SemPost(w)
  BY <1>3, <1>13 DEF LoopTest, LoopSkip, SemWait, SemPost, consumerVars
<1>14. CASE DaemonMain \/ DaemonSignal \/ DaemonDies
  BY <1>3, <1>14 DEF DaemonMain, LeaveLoop, JoinThreads, Release, CloseClient, DestroyBus,
     DaemonSignal, DaemonDies, consumerVars
<1> QED BY <1>4, <1>5, <1>6, <1>7, <1>8, <1>9, <1>10, <1>11, <1>12, <1>13, <1>14
        DEF DaemonAct, LoopStep, Consumer

\* The frame of a comfort index follows that of its reading.
LEMMA FramesAbreastStep ==
  ASSUME TypeOK, ClimateKinds \subseteq Kinds, DaemonAct, UNCHANGED uiVars,
         DaemonAbreast, FramesAbreast
  PROVE  FramesAbreast'
<1>1. /\ frames \in Seq(Event) /\ \A i \in 1..Len(frames) : frames[i].n \in Nat
      /\ step # "idle" => ev \in Event /\ ev.n \in Nat
      /\ IpcTypeOK /\ DaemonTypeOK
  BY ComfortTypes DEF TypeOK
<1>2. \A m : /\ InUi(m) => InUi(m)'
             /\ \A i : Within(frames, i, m) => Within(frames', i, m)
  BY ReachedByDaemon
<1>3. Sent(frames, frames') /\ (frames' # frames => step = "sending")
  BY <1>1, DaemonSends
<1> SUFFICES ASSUME NEW i \in 1..Len(frames'), frames'[i].kind = "comfort"
             PROVE  InUi(frames[i].n)' \/ Within(frames', i, frames'[i].n)
  BY DEF FramesAbreast
<1>4. CASE i \in 1..Len(frames) /\ frames'[i] = frames[i]
  <2>1. PICK m : m = frames[i].n
    OBVIOUS
  <2>2. InUi(m) \/ Within(frames, i, m)
    BY <1>4, <2>1 DEF FramesAbreast
  <2>3. InUi(m)' \/ Within(frames', i, m)
    BY <1>2, <2>2
  <2>4. frames'[i].n = m
    BY <1>4, <2>1
  <2> QED BY <2>3, <2>4
<1>5. CASE i = Len(frames) + 1 /\ frames'[i] = ev /\ frames' # frames
  <2>1. step = "sending"
    BY <1>3, <1>5
  <2>2. PICK m : m = ev.n
    OBVIOUS
  <2>3. Reached(m)
    BY <1>5, <2>1, <2>2 DEF DaemonAbreast
  <2>4. InUi(m) \/ Within(frames, i, m)
    BY <1>1, <1>5, <2>3 DEF Reached, Within
  <2>5. InUi(m)' \/ Within(frames', i, m)
    BY <1>2, <2>4
  <2>6. frames'[i].n = m
    BY <1>5, <2>2
  <2> QED BY <2>5, <2>6
<1> QED BY <1>3, <1>4, <1>5 DEF Sent

LEMMA AbreastUnderDaemon ==
  ASSUME TypeOK, ClimateKinds \subseteq Kinds, DaemonAct, UNCHANGED uiVars, Abreast
  PROVE  Abreast'
<1>1. UiBusAbreast' /\ DashboardAbreast'
  BY DEF Abreast, UiBusAbreast, DashboardAbreast, Within, Latest, uiVars
<1> QED BY <1>1, DaemonAbreastStep, FramesAbreastStep DEF Abreast

\* An index that arrives finds its reading ahead of it in the UI's queue, or in the
\* cache; so does one that is handled, and then in the cache.
LEMMA QueuesAbreastUnderUi ==
  ASSUME TypeOK, OrderInv, ClimateKinds \subseteq Kinds, FramesAbreast, UiBusAbreast,
         UiAct, ~uiDropped', uiMain' \notin {"exited", "dead"}
  PROVE  FramesAbreast' /\ UiBusAbreast'
<1>1. /\ frames \in Seq(Event) /\ uiBus \in Seq(Event)
      /\ \A i \in 1..Len(frames) : frames[i].n \in Nat
      /\ \A i \in 1..Len(uiBus) : uiBus[i].n \in Nat
      /\ cache["dht11"] \in Nat
  BY ComfortTypes
<1>2. \A m \in Nat : InUi(m) => InUi(m)'
  BY ReachedByUi
<1>3. ASSUME frames' = frames PROVE FramesAbreast'
  <2> SUFFICES ASSUME NEW i \in 1..Len(frames), frames[i].kind = "comfort"
               PROVE  InUi(frames[i].n)' \/ Within(frames, i, frames[i].n)'
    BY <1>3 DEF FramesAbreast
  <2>1. PICK m \in Nat : m = frames[i].n
    BY <1>1
  <2>2. InUi(m)' \/ Within(frames, i, m)
    BY <1>2, <2>1 DEF FramesAbreast
  <2>3. frames'[i].n = m
    BY <1>3, <2>1
  <2> QED BY <1>3, <2>1, <2>2, <2>3
<1>4. ASSUME NEW e \in Event, uiBus' = Append(uiBus, e), cache' = cache,
             e.kind = "comfort" => InUi(e.n)
      PROVE  UiBusAbreast'
  <2>1. /\ Len(uiBus') = Len(uiBus) + 1
        /\ \A i \in 1..Len(uiBus') :
             \/ i \in 1..Len(uiBus) /\ uiBus'[i] = uiBus[i]
             \/ i = Len(uiBus) + 1 /\ uiBus'[i] = e
    BY <1>1, <1>4, AppendElements
  <2>2. \A i, m : Within(uiBus, i, m) => Within(uiBus', i, m)
    BY <1>1, <1>4, AppendKeeps DEF Within
  <2> SUFFICES ASSUME NEW i \in 1..Len(uiBus'), uiBus'[i].kind = "comfort"
               PROVE  uiBus'[i].n <= cache'["dht11"] \/ Within(uiBus', i, uiBus'[i].n)
    BY DEF UiBusAbreast
  <2>3. CASE i \in 1..Len(uiBus) /\ uiBus'[i] = uiBus[i]
    BY <1>4, <2>2, <2>3 DEF UiBusAbreast
  <2>4. CASE i = Len(uiBus) + 1 /\ uiBus'[i] = e
    <3>1. e.n <= cache["dht11"] \/ Within(uiBus, i, e.n)
      BY <1>1, <1>4, <2>4 DEF InUi, Within
    <3> QED BY <1>4, <2>2, <2>4, <3>1
  <2> QED BY <2>1, <2>3, <2>4
<1>5. CASE /\ frames # <<>> /\ frames' = Tail(frames) /\ Head(frames) \in Event
           /\ uiBus' = Append(uiBus, Head(frames)) /\ cache' = cache
  <2>1. /\ Head(frames) = frames[1] /\ 1 \in 1..Len(frames)
        /\ \A i \in 1..Len(frames') :
             i \in Nat /\ i + 1 \in 1..Len(frames) /\ 1 < i + 1 /\ frames'[i] = frames[i + 1]
        /\ \A i \in 1..Len(frames) : \/ i = 1 /\ frames[i] = Head(frames)
                                     \/ i - 1 \in 1..Len(frames') /\ frames'[i - 1] = frames[i]
    BY <1>1, <1>5, TailElements, TailKeeps
  <2>2. Head(frames).kind = "comfort" => InUi(Head(frames).n)
    BY <2>1 DEF FramesAbreast, Within
  <2>3. UiBusAbreast'
    BY <1>4, <1>5, <2>2
  <2>4. FramesAbreast'
    <3> SUFFICES ASSUME NEW i \in 1..Len(frames'), frames'[i].kind = "comfort"
                 PROVE  InUi(frames[i].n)' \/ Within(frames', i, frames'[i].n)
      BY DEF FramesAbreast
    <3>1. PICK m \in Nat : m = frames'[i].n
      BY <1>1, <2>1
    <3>2. i \in Nat /\ i + 1 \in 1..Len(frames) /\ frames'[i] = frames[i + 1]
      BY <2>1
    <3>3. InUi(m) \/ Within(frames, i + 1, m)
      BY <3>1, <3>2 DEF FramesAbreast
    <3>4. CASE InUi(m)
      BY <1>2, <3>1, <3>4
    <3>5. CASE Within(frames, i + 1, m)
      <4>1. PICK j \in 1..Len(frames) : j < i + 1 /\ frames[j].kind = "dht11" /\ m <= frames[j].n
        BY <3>5 DEF Within
      <4>2. CASE j = 1
        <5>1. Len(uiBus) + 1 \in 1..Len(uiBus') /\ uiBus'[Len(uiBus) + 1] = frames[1]
          BY <1>1, <1>5, <2>1, AppendKeeps
        <5>2. InUi(m)'
          BY <4>1, <4>2, <5>1 DEF InUi
        <5> QED BY <3>1, <5>2
      <4>3. CASE j - 1 \in 1..Len(frames') /\ frames'[j - 1] = frames[j]
        <5>1. j - 1 < i
          BY <3>2, <4>1
        <5>2. Within(frames', i, m)
          BY <4>1, <4>3, <5>1 DEF Within
        <5> QED BY <3>1, <5>2
      <4> QED BY <2>1, <4>2, <4>3
    <3> QED BY <3>3, <3>4, <3>5
  <2> QED BY <2>3, <2>4
<1>6. CASE /\ frames' = frames /\ cache' = cache
           /\ \E e \in Event :
                /\ e.kind \in Inputs \/ (alerts # <<>> /\ e = Head(alerts))
                /\ uiBus' = Append(uiBus, e)
  <2>1. PICK e \in Event :
                /\ e.kind \in Inputs \/ (alerts # <<>> /\ e = Head(alerts))
                /\ uiBus' = Append(uiBus, e)
    BY <1>6
  <2>2. CASE alerts # <<>> /\ e = Head(alerts)
    <3>1. e = alerts[1] /\ 1 \in 1..Len(alerts)
      BY <2>2, TailElements DEF TypeOK, IpcTypeOK
    <3> QED BY <1>3, <1>4, <1>6, <2>1, <3>1 DEF OrderInv, FlightInOrder
  <2>3. CASE e.kind \in Inputs
    BY <1>3, <1>4, <1>6, <2>1, <2>3, InputsAreNoKinds DEF ClimateKinds
  <2> QED BY <2>1, <2>2, <2>3
<1>7. CASE UiHandle /\ frames' = frames
  <2>1. uiBus # <<>> /\ uiBus' = Tail(uiBus)
    BY <1>7 DEF UiHandle
  <2>2. /\ Head(uiBus) = uiBus[1] /\ 1 \in 1..Len(uiBus)
        /\ \A i \in 1..Len(uiBus') :
             i \in Nat /\ i + 1 \in 1..Len(uiBus) /\ 1 < i + 1 /\ uiBus'[i] = uiBus[i + 1]
        /\ \A i \in 1..Len(uiBus) : \/ i = 1 /\ uiBus[i] = Head(uiBus)
                                    \/ i - 1 \in 1..Len(uiBus') /\ uiBus'[i - 1] = uiBus[i]
    BY <1>1, <2>1, TailElements, TailKeeps
  <2>3. "dht11" \in UiKinds /\ cache \in [UiKinds -> Nat]
    BY KindsOfSensors DEF TypeOK, UiTypeOK, ClimateKinds
  <2>4. IF Head(uiBus).kind = "dht11" THEN cache'["dht11"] = Head(uiBus).n
                                      ELSE cache'["dht11"] = cache["dht11"]
    BY <1>7, <2>3 DEF UiHandle
  <2>5. Head(uiBus).kind = "dht11" => cache["dht11"] < Head(uiBus).n
    BY <2>2 DEF OrderInv, ScreenInOrder, BelowAll, ClimateKinds
  <2>6. Head(uiBus).n \in Nat
    BY <1>1, <2>2
  <2>7. UiBusAbreast'
    <3> SUFFICES ASSUME NEW i \in 1..Len(uiBus'), uiBus'[i].kind = "comfort"
                 PROVE  uiBus'[i].n <= cache'["dht11"] \/ Within(uiBus', i, uiBus'[i].n)
      BY DEF UiBusAbreast
    <3>1. PICK m \in Nat : m = uiBus'[i].n
      BY <1>1, <2>2
    <3>2. i \in Nat /\ i + 1 \in 1..Len(uiBus) /\ uiBus'[i] = uiBus[i + 1]
      BY <2>2
    <3>3. m <= cache["dht11"] \/ Within(uiBus, i + 1, m)
      BY <3>1, <3>2 DEF UiBusAbreast
    <3>4. CASE m <= cache["dht11"]
      BY <1>1, <2>4, <2>5, <2>6, <3>1, <3>4
    <3>5. CASE Within(uiBus, i + 1, m)
      <4>1. PICK j \in 1..Len(uiBus) : j < i + 1 /\ uiBus[j].kind = "dht11" /\ m <= uiBus[j].n
        BY <3>5 DEF Within
      <4>2. CASE j = 1
        BY <2>2, <2>4, <3>1, <4>1, <4>2
      <4>3. CASE j - 1 \in 1..Len(uiBus') /\ uiBus'[j - 1] = uiBus[j]
        <5>1. j - 1 < i
          BY <3>2, <4>1
        <5>2. Within(uiBus', i, m)
          BY <4>1, <4>3, <5>1 DEF Within
        <5> QED BY <3>1, <5>2
      <4> QED BY <2>2, <4>2, <4>3
    <3> QED BY <3>3, <3>4, <3>5
  <2> QED BY <1>3, <1>7, <2>7
<1>8. CASE UNCHANGED <<frames, uiBus, cache>>
  BY <1>3, <1>8 DEF UiBusAbreast, Within
<1> QED BY <1>5, <1>6, <1>7, <1>8, LiveUiSteps DEF dashboard, TickCopy, TickRender

LEMMA DashboardAbreastUnderUi ==
  ASSUME TypeOK, OrderInv, ClimateKinds \subseteq Kinds, UiBusAbreast, DashboardAbreast,
         uiMain # "render" => DOMAIN local = {},
         UiAct, ~uiDropped', uiMain' \notin {"exited", "dead"}
  PROVE  DashboardAbreast'
<1>1. /\ "comfort" \in UiKinds /\ "dht11" \in UiKinds
      /\ uiBus \in Seq(Event) /\ cache \in [UiKinds -> Nat]
      /\ cache["comfort"] \in Nat /\ cache["dht11"] \in Nat
  BY ComfortTypes, KindsOfSensors DEF TypeOK, UiTypeOK, ClimateKinds
<1>2. CASE UiHandle
  <2>1. uiBus # <<>> /\ shown' = shown /\ local' = local
    BY <1>2 DEF UiHandle
  <2>2. Head(uiBus) = uiBus[1] /\ 1 \in 1..Len(uiBus) /\ Head(uiBus).n \in Nat
    BY <1>1, <2>1, TailElements, EventElements
  <2>3. \A k \in ClimateKinds : Latest(k)' = Latest(k)
    BY <2>1 DEF Latest
  <2>4. CASE Head(uiBus).kind \in ClimateKinds
    <3>1. /\ cache' = [cache EXCEPT ![Head(uiBus).kind] = Head(uiBus).n]
          /\ dirty' = dirty \cup {Head(uiBus).kind}
      BY <1>2, <2>4 DEF UiHandle, Flagged, ClimateKinds
    <3>2. \A k \in ClimateKinds : k \notin dirty' => cache'[k] = Latest(k)
      BY <1>1, <3>1 DEF DashboardAbreast, ClimateKinds
    <3>3. Head(uiBus).kind = "comfort" => Head(uiBus).n <= cache["dht11"]
      BY <2>2 DEF UiBusAbreast, Within
    <3>4. Head(uiBus).kind = "dht11" => cache["dht11"] < Head(uiBus).n
      BY <2>2 DEF OrderInv, ScreenInOrder, BelowAll, ClimateKinds
    <3>5. cache'["comfort"] <= cache'["dht11"]
      <4>1. CASE Head(uiBus).kind = "comfort"
        BY <1>1, <3>1, <3>3, <4>1
      <4>2. CASE Head(uiBus).kind = "dht11"
        <5>1. cache'["comfort"] = cache["comfort"] /\ cache'["dht11"] = Head(uiBus).n
          BY <1>1, <3>1, <4>2
        <5> QED BY <1>1, <2>2, <3>4, <4>2, <5>1 DEF DashboardAbreast
      <4> QED BY <2>4, <4>1, <4>2 DEF ClimateKinds
    <3> QED BY <2>3, <3>2, <3>5 DEF DashboardAbreast, ClimateKinds
  <2>5. CASE Head(uiBus).kind \notin ClimateKinds
    <3>1. /\ \A k \in ClimateKinds : cache'[k] = cache[k]
          /\ \A k \in ClimateKinds : k \in dirty => k \in dirty'
      BY <1>1, <1>2, <2>5 DEF UiHandle, Flagged, ClimateKinds
    <3> QED BY <2>3, <3>1 DEF DashboardAbreast, ClimateKinds
  <2> QED BY <2>4, <2>5
<1>3. CASE TickCopy
  <2>1. /\ DOMAIN local = {} /\ shown' = shown /\ cache' = cache /\ dirty' = {}
        /\ local' = [k \in dirty |-> cache[k]]
    BY <1>3 DEF TickCopy, Copy
  <2>2. \A k \in ClimateKinds : Latest(k)' = cache[k]
    BY <2>1 DEF Latest, DashboardAbreast
  <2> QED BY <2>1, <2>2 DEF DashboardAbreast, ClimateKinds
<1>4. CASE TickRender
  <2>1. cache' = cache /\ dirty' = dirty /\ DOMAIN local' = {}
    BY <1>4 DEF TickRender
  <2>2. ASSUME NEW k \in ClimateKinds PROVE Latest(k)' = Latest(k)
    <3>1. k \in UiKinds /\ shown[k] \in Seq(Nat) /\ (k \in DOMAIN local => local[k] \in Nat)
      BY UiTypes DEF ClimateKinds, TypeOK
    <3>2. shown'[k] = IF k \in DOMAIN local THEN Append(shown[k], local[k]) ELSE shown[k]
      BY <1>4, <3>1 DEF TickRender, Visible, ClimateKinds
    <3>3. LastOf(shown'[k]) = Latest(k)
      BY <3>1, <3>2, LastOfAppend DEF Latest
    <3> QED BY <2>1, <3>3 DEF Latest
  <2> QED BY <2>1, <2>2 DEF DashboardAbreast, ClimateKinds
<1>5. CASE UNCHANGED dashboard
  BY <1>5 DEF dashboard, DashboardAbreast, Latest
<1> QED BY <1>2, <1>3, <1>4, <1>5, LiveUiSteps

LEMMA ComfortInit == Init => ComfortInv
<1> SUFFICES ASSUME Init, ClimateKinds \subseteq Kinds PROVE ComfortInv
  BY DEF ComfortInv
<1>1. bus = <<>> /\ frames = <<>> /\ uiBus = <<>> /\ step = "idle"
  BY DEF Init, DaemonInit, IpcInit, UiInit
<1>2. /\ \A k \in ClimateKinds : cache[k] = 0 /\ LastOf(shown[k]) = 0
      /\ dirty = {} /\ DOMAIN local = {}
  BY KindsOfSensors DEF Init, UiInit, LastOf, ClimateKinds
<1>3. Abreast
  BY <1>1, <1>2 DEF Abreast, DaemonAbreast, FramesAbreast, UiBusAbreast, DashboardAbreast,
     Latest, ClimateKinds
<1> QED BY <1>2, <1>3 DEF ComfortInv, ClimateKinds

LEMMA ComfortStep ==
  TypeOK /\ OrderInv /\ ComfortInv /\ [Next]_vars => ComfortInv'
<1> SUFFICES ASSUME TypeOK, OrderInv, ComfortInv, [Next]_vars,
                    ~uiDropped', ClimateKinds \subseteq Kinds
             PROVE  /\ LastOf(shown'["comfort"]) <= LastOf(shown'["dht11"])
                    /\ uiMain' # "render" => DOMAIN local' = {}
                    /\ uiMain' \notin {"exited", "dead"} => Abreast'
  BY DEF ComfortInv
<1>1. CASE DaemonAct /\ UNCHANGED uiVars
  <2>1. UNCHANGED <<uiDropped, uiMain, local, shown>>
    BY <1>1 DEF uiVars
  <2> QED BY <1>1, <2>1, AbreastUnderDaemon DEF ComfortInv
<1>2. CASE UiAct /\ UNCHANGED daemonVars
  <2>1. ~uiDropped
    BY <1>2 DEF UiAct, Receiver, RecvFrame, RecvEof, AlertReceiver, AlertCall, AlertRecv,
       UiPost, UiHandle, UiMain, TickCopy, TickRender, MoveSlider, UiSemWait,
       UiSemPost, uiVars, UiLeaveLoop, JoinRecv, JoinAlert,
       JoinInput, InputTest, InputEvent, InputFails, UiSignal, UiDies
  <2>2. /\ LastOf(shown["comfort"]) <= LastOf(shown["dht11"])
        /\ uiMain # "render" => DOMAIN local = {}
        /\ uiMain \notin {"exited", "dead"} => Abreast
    BY <2>1 DEF ComfortInv
  <2>3. CASE uiMain' \in {"exited", "dead"}
    <3>1. shown' = shown /\ (uiMain' # "render" => DOMAIN local' = {})
      <4>1. CASE JoinInput
        BY <2>2, <4>1 DEF JoinInput, dashboard
      <4>2. CASE UiDies
        BY <4>2 DEF UiDies
      <4>3. CASE UiHandle \/ RecvFrame \/ AlertRecv \/ \E i \in Inputs : InputEvent(i)
        BY <2>2, <4>3 DEF UiHandle, RecvFrame, AlertRecv, InputEvent, dashboard
      <4>4. CASE RecvEof \/ AlertCall \/ UiSignal \/ \E i \in Inputs : InputTest(i) \/ InputFails(i)
        BY <2>2, <4>4 DEF RecvEof, AlertCall, UiSignal, InputTest, InputFails, dashboard
      <4>5. CASE TickCopy \/ TickRender \/ UiLeaveLoop \/ JoinRecv \/ JoinAlert
        BY <2>3, <4>5 DEF TickCopy, TickRender, Handled, UiLeaveLoop, JoinRecv, JoinAlert
      <4>6. CASE MoveSlider \/ UiSemWait \/ UiSemPost
        BY <2>2, <4>6 DEF MoveSlider, UiSemWait, UiSemPost, dashboard, uiVars
      <4> QED BY <1>2, <4>1, <4>2, <4>3, <4>4, <4>5, <4>6
              DEF UiAct, Receiver, AlertReceiver, UiMain
    <3> QED BY <2>2, <2>3, <3>1
  <2>4. CASE uiMain' \notin {"exited", "dead"}
    <3>1. uiMain \notin {"exited", "dead"}
      BY <1>2, <2>4 DEF UiAct, Receiver, RecvFrame, RecvEof, AlertReceiver, AlertCall,
         AlertRecv, UiHandle, UiMain, TickCopy, TickRender, MoveSlider, UiSemWait, UiSemPost,
         uiVars, UiLeaveLoop, JoinRecv,
         JoinAlert, JoinInput, InputTest, InputEvent, InputFails, UiSignal, UiDies
    <3>2. Abreast
      BY <2>2, <3>1
    <3>3. FramesAbreast' /\ UiBusAbreast' /\ DashboardAbreast'
      BY <1>2, <2>2, <2>4, <3>2, QueuesAbreastUnderUi, DashboardAbreastUnderUi DEF Abreast
    <3>4. DaemonAbreast'
      <4>1. UNCHANGED <<step, sockFd, bus, ev>>
        BY <1>2 DEF daemonVars
      <4>2. \A m \in Nat : Reached(m) => Reached(m)'
        BY <1>2, <2>4, ReachedByUi
      <4>3. /\ \A i \in 1..Len(bus) : bus[i].n \in Nat
            /\ step # "idle" => ev.n \in Nat
        BY ComfortTypes
      <4>4. \A i \in 1..Len(bus) : Reached(bus[i].n) => Reached(bus[i].n)'
        <5> TAKE i \in 1..Len(bus)
        <5>1. PICK m \in Nat : m = bus[i].n
          BY <4>3
        <5> QED BY <4>1, <4>2, <5>1
      <4>5. step # "idle" /\ Reached(ev.n) => Reached(ev.n)'
        <5> SUFFICES ASSUME step # "idle", Reached(ev.n) PROVE Reached(ev.n)'
          OBVIOUS
        <5>1. PICK m \in Nat : m = ev.n
          BY <4>3
        <5> QED BY <4>1, <4>2, <5>1
      <4> QED BY <3>2, <4>1, <4>4, <4>5 DEF Abreast, DaemonAbreast
    <3>5. uiMain' # "render" => DOMAIN local' = {}
      BY <1>2, <2>2, <2>4, LiveUiSteps DEF UiHandle, TickCopy, TickRender, dashboard
    <3>6. LastOf(shown'["comfort"]) <= LastOf(shown'["dht11"])
      <4>1. CASE TickRender
        <5>1. DOMAIN local' = {}
          BY <4>1 DEF TickRender
        <5> QED BY <3>3, <5>1 DEF DashboardAbreast, Latest
      <4>2. CASE shown' = shown
        BY <2>2, <4>2
      <4> QED BY <1>2, <2>4, <4>1, <4>2, LiveUiSteps DEF UiHandle, TickCopy, dashboard
    <3> QED BY <3>3, <3>4, <3>5, <3>6 DEF Abreast
  <2> QED BY <2>3, <2>4
<1>3. CASE UNCHANGED vars
  BY <1>3 DEF vars, ipcVars, daemonVars, uiVars, ComfortInv, Abreast, DaemonAbreast,
     FramesAbreast, UiBusAbreast, DashboardAbreast, Reached, InUi, Within, Latest
<1> QED BY <1>1, <1>2, <1>3, StepIsOneProcess

\* The comfort index on screen is never ahead of the temperature and humidity next to
\* it, unless the UI's queue overflowed.
THEOREM ComfortCorrect == Spec => []ComfortNotAhead
<1>1. ComfortInv => ComfortNotAhead
  BY DEF ComfortInv, ComfortNotAhead, ClimateKinds
<1> QED BY OrderInvariant, ComfortInit, ComfortStep, <1>1, PTL DEF Spec

============================================================================
