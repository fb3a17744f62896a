---------------------------- MODULE AttachProofs ----------------------------
(***************************************************************************)
(* What module Attach promises about names and peers, for any number of    *)
(* daemons and UIs, restarts, alerts and faults.                           *)
(***************************************************************************)
EXTENDS Attach, SequenceTheorems, TLAPS

USE DEF objects, sem

\* Where a daemon has still to unlink the queue's name, and the segment's.
UnlinksMq == {"shm", "write", "accept", "run", "unlinkShm", "unlinkMq"}
UnlinksShm == {"write", "accept", "run", "unlinkShm"}

\* Without a crash a name that leads somewhere is one some daemon will unlink.
Unlinked ==
  ~crashed =>
    /\ mqName # None => \E d \in Daemons : dpc[d] \in UnlinksMq
    /\ shmName # None => \E d \in Daemons : dpc[d] \in UnlinksShm

\* A process has nothing before it starts, and a daemon nothing once it is gone.
Fresh ==
  /\ \A d \in Daemons : ~Alive(d) => dMq[d] = None /\ dShm[d] = None
  /\ \A u \in Uis : upc[u] \in {"off", "connect"} => uMq[u] = None /\ shown[u] = {}
  /\ \A u \in Uis : server[u] # None => dpc[server[u]] # "off"

Alone == \A d, e \in Daemons : Alive(d) /\ Alive(e) => d = e

\* The names lead to what the one daemon has opened, until it unlinks them.
Own ==
  \A d \in Daemons : Alive(d) =>
    /\ path = d
    /\ dMq[d] # None /\ dpc[d] # "close" => mqName = dMq[d]
    /\ dShm[d] # None /\ dpc[d] \notin {"unlinkMq", "close"} => shmName = dShm[d]

Early == \A u \in Uis : server[u] # None /\ dpc[server[u]] \in {"mq", "shm"} => u \in early

\* A UI has opened what its daemon has opened or will find under the same name, or
\* was too early to find anything.
SameMq(u, d) ==
  /\ dpc[d] = "mq" => uMq[u] \in {None, mqName}
  /\ dpc[d] \in {"shm", "write", "accept", "run"} /\ dMq[d] # None =>
       uMq[u] = dMq[d] \/ (uMq[u] = None /\ u \in early)

SameShm(u, d) ==
  /\ dpc[d] \in {"mq", "shm"} => uShm[u] \in {None, shmName}
  /\ dpc[d] \in {"write", "accept", "run"} /\ dShm[d] # None =>
       uShm[u] = dShm[d] \/ (uShm[u] = None /\ u \in early)

Same ==
  \A u \in Uis : server[u] # None =>
    /\ upc[u] \in {"shm", "run"} => SameMq(u, server[u])
    /\ upc[u] = "run" => SameShm(u, server[u])

\* A queue holds the alerts of the daemon that has created it.
OwnQueue == \A d \in Daemons : \A i \in 1..Len(queue[d]) : queue[d][i] = d

\* Without a crash every daemon has a queue of its own, and its UI sees that queue.
OwnAlerts ==
  /\ \A d \in Daemons : dMq[d] \in {None, d}
  /\ \A d \in Daemons : Alive(d) => mqName \in {None, d}
  /\ OwnQueue
  /\ \A u \in Uis :
       server[u] # None /\ dpc[server[u]] \in {"mq", "shm", "write", "accept", "run"} =>
         uMq[u] \in {None, server[u]} /\ shown[u] \subseteq {server[u]}

\* The inductive invariant.
IInv ==
  /\ TypeOK /\ Unlinked /\ Fresh /\ Early
  /\ ~overlapped => Alone /\ Own /\ Same
  /\ ~overlapped /\ ~crashed => OwnAlerts

DaemonAction(d) ==
  \/ DaemonStep(d)
  \/ Listen(d) \/ StartFails(d) \/ OpenMqFails(d) \/ OpenShmFails(d) \/ AcceptFails(d)
  \/ SyncHangs(d)
  \/ Signal(d) \/ RaiseAlert(d) \/ Crash(d)

UiAction(u) == UiStep(u) \/ UiStart(u) \/ UiDies(u)

\* Every step is one of a daemon or one of a UI.
LEMMA WhoseStep ==
  [Next]_vars =>
    \/ \E d \in Daemons : DaemonAction(d)
    \/ \E u \in Uis : UiAction(u)
    \/ UNCHANGED vars
  BY DEF Next, DaemonAction, UiAction

\* What a UI leaves alone,
LEMMA UiFrame ==
  ASSUME NEW u \in Uis, UiAction(u)
  PROVE  UNCHANGED <<names, dpc, stop, client, dMq, dShm, raised, overlapped, crashed>>
  BY DEF UiAction, UiStep, UiStart, UiDies, Connect, ConnectFails, GiveUp, UiOpenMq, UiOpenShm,
         ShowAlert, Eof, SwallowAlert, names, daemons, ghosts

\* and what a daemon does.
LEMMA DaemonFrame ==
  ASSUME NEW d \in Daemons, DaemonAction(d)
  PROVE  /\ UNCHANGED <<uis, early>>
         /\ overlapped => overlapped'
         /\ crashed => crashed'
<1>1. UNCHANGED uis /\ UNCHANGED early
  BY DEF DaemonAction, DaemonStep, Listen, StartFails, OpenMq, OpenMqFails, OpenShm, OpenShmFails,
         Accept, AcceptFails, LoseClient, WriteSettings, SyncHangs, Leave,
         UnlinkShm, UnlinkMq, Close, Signal, RaiseAlert,
         Crash, ghosts
<1>2. overlapped => overlapped'
  <2>1. CASE Started
    BY <2>1 DEF Started
  <2>2. CASE UNCHANGED overlapped
    BY <2>2
  <2> QED
    BY <2>1, <2>2 DEF DaemonAction, DaemonStep, Listen, StartFails, OpenMq, OpenMqFails, OpenShm, OpenShmFails,
                      Accept, AcceptFails, LoseClient, WriteSettings, SyncHangs, Leave,
                      UnlinkShm, UnlinkMq, Close, Signal, RaiseAlert,
                      Crash, ghosts
<1>3. crashed => crashed'
  BY DEF DaemonAction, DaemonStep, Listen, StartFails, OpenMq, OpenMqFails, OpenShm, OpenShmFails,
         Accept, AcceptFails, LoseClient, WriteSettings, SyncHangs, Leave,
         UnlinkShm, UnlinkMq, Close, Signal, RaiseAlert,
         Crash, ghosts
<1> QED
  BY <1>1, <1>2, <1>3

----------------------------------------------------------------------------
(* Types. *)

\* TypeOK by its parts.
NamesType == path \in Daemons \cup {None} /\ mqName \in Daemons \cup {None} /\ shmName \in Daemons \cup {None}

QueueType == queue \in [Daemons -> Seq(Daemons)] /\ \A d \in Daemons : Len(queue[d]) <= AlertMax

SemType == lost \subseteq Daemons /\ stuck \subseteq Daemons

BacklogType == backlog \in [Daemons -> Seq(Uis)] /\ \A d \in Daemons : Len(backlog[d]) <= Backlog

DaemonType ==
  /\ dpc \in [Daemons -> DaemonPc] /\ stop \in [Daemons -> BOOLEAN]
  /\ client \in [Daemons -> Uis \cup {None}]
  /\ dMq \in [Daemons -> Daemons \cup {None}] /\ dShm \in [Daemons -> Daemons \cup {None}]
  /\ raised \in [Daemons -> 0..MaxAlerts]

UiType ==
  /\ upc \in [Uis -> UiPc] /\ tries \in [Uis -> 0..Retries]
  /\ server \in [Uis -> Daemons \cup {None}]
  /\ uMq \in [Uis -> Daemons \cup {None}] /\ uShm \in [Uis -> Daemons \cup {None}]
  /\ shown \in [Uis -> SUBSET Daemons]

GhostType ==
  /\ early \subseteq Uis /\ overlapped \in BOOLEAN /\ crashed \in BOOLEAN
  /\ faults \in 0..MaxFaults

LEMMA TypeParts ==
  /\ TypeOK <=> NamesType /\ QueueType /\ SemType /\ BacklogType /\ DaemonType /\ UiType /\ GhostType
  /\ TypeOK' <=> NamesType' /\ QueueType' /\ SemType' /\ BacklogType' /\ DaemonType' /\ UiType'
               /\ GhostType'
  BY DEF TypeOK, NamesType, QueueType, SemType, BacklogType, DaemonType, UiType, GhostType

LEMMA PartsFrame ==
  /\ NamesType /\ UNCHANGED names => NamesType'
  /\ QueueType /\ UNCHANGED queue => QueueType'
  /\ SemType /\ UNCHANGED sem => SemType'
  /\ BacklogType /\ UNCHANGED backlog => BacklogType'
  /\ DaemonType /\ UNCHANGED <<dpc, stop, client, dMq, dShm, raised>> => DaemonType'
  /\ UiType /\ UNCHANGED uis => UiType'
  /\ GhostType /\ UNCHANGED ghosts => GhostType'
  BY DEF NamesType, QueueType, SemType, BacklogType, DaemonType, UiType, GhostType, names, uis, ghosts

LEMMA TypeInit == Init => TypeOK
<1> SUFFICES ASSUME Init PROVE TypeOK
  OBVIOUS
<1> USE NumbersAssumption DEF Init
<1>1. NamesType /\ GhostType
  <2>1. 0 \in 0..MaxFaults /\ {} \subseteq Uis
    OBVIOUS
  <2> QED
    BY <2>1 DEF NamesType, GhostType
<1>2. QueueType /\ SemType /\ BacklogType
  <2>1. <<>> \in Seq(Daemons) /\ <<>> \in Seq(Uis) /\ Len(<<>>) = 0
    OBVIOUS
  <2> QED
    BY <2>1 DEF QueueType, SemType, BacklogType
<1>3. DaemonType
  BY DEF DaemonType, DaemonPc
<1>4. UiType
  BY DEF UiType, UiPc
<1> QED
  BY <1>1, <1>2, <1>3, <1>4, TypeParts

\* Where one sequence gives way to another that is not too long, the limits hold.
LEMMA PutBacklog ==
  ASSUME BacklogType, NEW d \in Daemons, NEW s \in Seq(Uis), Len(s) <= Backlog,
         backlog' = [backlog EXCEPT ![d] = s]
  PROVE  BacklogType'
  BY DEF BacklogType

LEMMA PutQueue ==
  ASSUME QueueType, NEW d \in Daemons, NEW s \in Seq(Daemons), Len(s) <= AlertMax,
         queue' = [queue EXCEPT ![d] = s]
  PROVE  QueueType'
  BY DEF QueueType

\* The end of a process leaves types behind.
LEMMA EndDTypes ==
  ASSUME DaemonType, BacklogType, NEW d \in Daemons, EndD(d)
  PROVE  DaemonType' /\ BacklogType'
<1>1. <<>> \in Seq(Uis) /\ Len(<<>>) <= Backlog
  BY NumbersAssumption
<1>2. backlog' = [backlog EXCEPT ![d] = <<>>]
  BY DEF EndD
<1>3. BacklogType'
  BY <1>1, <1>2, PutBacklog
<1>4. DaemonType'
  BY NumbersAssumption DEF DaemonType, EndD, GotoD, DaemonPc
<1> QED
  BY <1>3, <1>4

LEMMA EndUTypes ==
  ASSUME UiType, NEW u \in Uis, EndU(u)
  PROVE  UiType'
  BY NumbersAssumption DEF UiType, EndU, GotoU, UiPc

LEMMA DaemonTypes ==
  ASSUME TypeOK, NEW d \in Daemons, DaemonAction(d)
  PROVE  TypeOK'
<1>0. NamesType /\ QueueType /\ SemType /\ BacklogType /\ DaemonType /\ UiType /\ GhostType
  BY TypeParts
<1>1. UiType'
  BY <1>0, DaemonFrame, PartsFrame
<1>2. NamesType'
  BY <1>0, PartsFrame
     DEF DaemonAction, DaemonStep, Listen, StartFails, OpenMq, OpenMqFails, OpenShm, OpenShmFails,
         Accept, AcceptFails, LoseClient, WriteSettings, SyncHangs, Leave,
         UnlinkShm, UnlinkMq, Close, Signal, RaiseAlert,
         Crash, NamesType, names, Opened
<1>3. GhostType'
  <2>1. early' = early /\ overlapped' \in BOOLEAN /\ crashed' \in BOOLEAN
    <3>1. overlapped' \in BOOLEAN
      <4>1. CASE Started
        BY <4>1 DEF Started
      <4>2. CASE UNCHANGED overlapped
        BY <1>0, <4>2 DEF GhostType
      <4> QED
        BY <4>1, <4>2 DEF DaemonAction, DaemonStep, Listen, StartFails, OpenMq, OpenMqFails, OpenShm, OpenShmFails,
                          Accept, AcceptFails, LoseClient, WriteSettings, SyncHangs, Leave,
                          UnlinkShm, UnlinkMq, Close, Signal, RaiseAlert,
                          Crash, ghosts
    <3>2. crashed' \in BOOLEAN
      BY <1>0 DEF GhostType, DaemonAction, DaemonStep, Listen, StartFails, OpenMq, OpenMqFails, OpenShm, OpenShmFails,
               Accept, AcceptFails, LoseClient, WriteSettings, SyncHangs, Leave,
               UnlinkShm, UnlinkMq, Close, Signal, RaiseAlert,
               Crash, ghosts
    <3> QED
      BY <3>1, <3>2, DaemonFrame
  <2>2. faults' \in 0..MaxFaults
    <3>1. CASE Fault
      BY <1>0, <3>1, NumbersAssumption DEF Fault, GhostType
    <3>2. CASE UNCHANGED faults
      BY <1>0, <3>2 DEF GhostType
    <3> QED
      BY <3>1, <3>2 DEF DaemonAction, DaemonStep, Listen, StartFails, OpenMq, OpenMqFails, OpenShm, OpenShmFails,
                        Accept, AcceptFails, LoseClient, WriteSettings, SyncHangs, Leave,
                        UnlinkShm, UnlinkMq, Close, Signal, RaiseAlert,
                        Crash, ghosts
  <2> QED
    BY <1>0, <2>1, <2>2 DEF GhostType
<1>4. QueueType' /\ BacklogType' /\ DaemonType'
  <2> USE <1>0, PartsFrame DEF GotoD, DaemonPc
  <2>1. CASE Listen(d) \/ StartFails(d)
    BY <2>1 DEF Listen, StartFails, DaemonType
  <2>2. CASE OpenMq(d) \/ OpenShm(d)
    BY <2>2 DEF OpenMq, OpenShm, Opened, DaemonType, NamesType
  <2>3. CASE OpenMqFails(d) \/ OpenShmFails(d) \/ AcceptFails(d)
    BY <2>3 DEF OpenMqFails, OpenShmFails, AcceptFails, DaemonType
  <2>4. CASE Accept(d)
    <3>1. backlog[d] \in Seq(Uis) /\ backlog[d] # <<>> /\ Len(backlog[d]) <= Backlog
      BY <2>4 DEF Accept, BacklogType
    <3>2. Head(backlog[d]) \in Uis /\ Tail(backlog[d]) \in Seq(Uis)
          /\ Len(Tail(backlog[d])) = Len(backlog[d]) - 1
      BY <3>1, HeadTailProperties
    <3>3. backlog' = [backlog EXCEPT ![d] = Tail(backlog[d])] /\ Len(Tail(backlog[d])) <= Backlog
      BY <2>4, <3>1, <3>2, NumbersAssumption DEF Accept
    <3>4. BacklogType'
      BY <3>2, <3>3, PutBacklog
    <3> QED
      BY <2>4, <3>2, <3>4 DEF Accept, DaemonType
  <2>5. CASE Signal(d) \/ LoseClient(d) \/ Leave(d) \/ WriteSettings(d) \/ SyncHangs(d)
    BY <2>5 DEF Signal, LoseClient, Leave, WriteSettings, SyncHangs, daemons, DaemonType
  <2>6. CASE RaiseAlert(d)
    <3> DEFINE q == dMq[d]
    <3>1. q \in Daemons
      BY <2>6 DEF RaiseAlert, DaemonType
    <3>2. /\ Append(queue[q], d) \in Seq(Daemons)
          /\ Len(Append(queue[q], d)) = Len(queue[q]) + 1 /\ Len(queue[q]) \in Nat
      BY <3>1, AppendProperties DEF QueueType
    <3>3. ASSUME Len(queue[q]) < AlertMax PROVE QueueType'
      <4>1. queue' = [queue EXCEPT ![q] = Append(queue[q], d)]
        BY <2>6, <3>3 DEF RaiseAlert
      <4>2. Len(Append(queue[q], d)) <= AlertMax
        BY <3>2, <3>3, NumbersAssumption
      <4> QED
        BY <3>1, <3>2, <4>1, <4>2, PutQueue
    <3>4. ASSUME ~(Len(queue[q]) < AlertMax) PROVE QueueType'
      <4>1. queue' = queue
        BY <2>6, <3>4 DEF RaiseAlert
      <4> QED
        BY <4>1
    <3>5. raised[d] + 1 \in 0..MaxAlerts
      BY <2>6, NumbersAssumption DEF RaiseAlert, DaemonType
    <3>6. DaemonType'
      BY <2>6, <3>5 DEF RaiseAlert, DaemonType
    <3>7. BacklogType'
      BY <2>6 DEF RaiseAlert
    <3> QED
      BY <3>3, <3>4, <3>6, <3>7
  <2>7. CASE UnlinkShm(d) \/ UnlinkMq(d)
    BY <2>7 DEF UnlinkShm, UnlinkMq, DaemonType
  <2>8. CASE Close(d) \/ Crash(d)
    BY <2>8, EndDTypes DEF Close, Crash
  <2> QED
    BY <2>1, <2>2, <2>3, <2>4, <2>5, <2>6, <2>7, <2>8 DEF DaemonAction, DaemonStep
<1>5. SemType'
  <2>1. CASE Crash(d)
    <3>1. dShm[d] \in Daemons \cup {None}
      BY <1>0 DEF DaemonType
    <3>2. lost' \subseteq Daemons
      BY <1>0, <2>1, <3>1 DEF Crash, MayLose, SemType
    <3>3. stuck' \subseteq Daemons
      BY <1>0, <2>1 DEF Crash, EndD, SemType
    <3> QED
      BY <3>2, <3>3 DEF SemType
  <2>2. CASE Close(d) \/ SyncHangs(d)
    BY <1>0, <2>2 DEF Close, EndD, SyncHangs, SemType
  <2>3. CASE UNCHANGED sem
    BY <1>0, <2>3, PartsFrame
  <2> QED
    BY <2>1, <2>2, <2>3
       DEF DaemonAction, DaemonStep, Listen, StartFails, OpenMq, OpenMqFails, OpenShm, OpenShmFails,
           Accept, AcceptFails, LoseClient, WriteSettings, Leave, UnlinkShm, UnlinkMq, Signal,
           RaiseAlert
<1> QED
  BY <1>1, <1>2, <1>3, <1>4, <1>5, TypeParts

LEMMA UiTypes ==
  ASSUME TypeOK, NEW u \in Uis, UiAction(u)
  PROVE  TypeOK'
<1>0. NamesType /\ QueueType /\ SemType /\ BacklogType /\ DaemonType /\ UiType /\ GhostType
  BY TypeParts
<1>1. NamesType' /\ DaemonType'
  BY <1>0, UiFrame, PartsFrame
<1>2. GhostType'
  BY <1>0, NumbersAssumption
     DEF UiAction, UiStep, UiStart, UiDies, Connect, ConnectFails, GiveUp, UiOpenMq, UiOpenShm,
         ShowAlert, Eof, SwallowAlert, GhostType, ghosts, Fault
<1>3. BacklogType'
  <2>1. CASE Connect(u)
    <3>1. path \in Daemons
      BY <1>0, <2>1 DEF Connect, Listening, NamesType
    <3>2. Append(backlog[path], u) \in Seq(Uis)
          /\ Len(Append(backlog[path], u)) = Len(backlog[path]) + 1 /\ Len(backlog[path]) \in Nat
      BY <1>0, <3>1, AppendProperties DEF BacklogType
    <3>3. backlog' = [backlog EXCEPT ![path] = Append(backlog[path], u)]
          /\ Len(backlog[path]) < Backlog
      BY <2>1 DEF Connect
    <3>4. Len(Append(backlog[path], u)) <= Backlog
      BY <3>2, <3>3, NumbersAssumption
    <3> QED
      BY <1>0, <3>1, <3>2, <3>3, <3>4, PutBacklog
  <2>2. CASE UNCHANGED backlog
    BY <1>0, <2>2, PartsFrame
  <2> QED
    BY <2>1, <2>2
       DEF UiAction, UiStep, UiStart, UiDies, ConnectFails, GiveUp, UiOpenMq, UiOpenShm,
           ShowAlert, Eof, SwallowAlert, daemons
<1>4. QueueType'
  <2>1. CASE ShowAlert(u) \/ SwallowAlert(u)
    <3> DEFINE q == uMq[u]
    <3>1. queue' = [queue EXCEPT ![q] = Tail(queue[q])] /\ queue[q] # <<>>
      BY <2>1 DEF ShowAlert, SwallowAlert
    <3>2. CASE q \in Daemons
      <4>1. queue[q] \in Seq(Daemons) /\ Len(queue[q]) <= AlertMax
        BY <1>0, <3>2 DEF QueueType
      <4>2. Tail(queue[q]) \in Seq(Daemons) /\ Len(Tail(queue[q])) = Len(queue[q]) - 1
        BY <3>1, <4>1, HeadTailProperties
      <4>3. Len(Tail(queue[q])) <= AlertMax
        BY <4>1, <4>2, NumbersAssumption
      <4> QED
        BY <1>0, <3>1, <3>2, <4>2, <4>3, PutQueue
    <3>3. CASE q \notin Daemons
      BY <1>0, <3>1, <3>3 DEF QueueType
    <3> QED
      BY <3>2, <3>3
  <2>2. CASE UNCHANGED queue
    BY <1>0, <2>2, PartsFrame
  <2> QED
    BY <2>1, <2>2
       DEF UiAction, UiStep, UiStart, UiDies, Connect, ConnectFails, GiveUp, UiOpenMq, UiOpenShm, Eof
<1>5. UiType'
  <2> USE <1>0, PartsFrame DEF UiPc, GotoU
  <2>1. CASE UiStart(u) \/ UiOpenMq(u) \/ UiOpenShm(u)
    BY <2>1 DEF UiStart, UiOpenMq, UiOpenShm, UiType, NamesType
  <2>2. CASE Connect(u)
    BY <2>2 DEF Connect, Listening, UiType, NamesType
  <2>3. CASE ConnectFails(u)
    <3>1. tries[u] + 1 \in 0..Retries
      BY <2>3, NumbersAssumption DEF ConnectFails, UiType
    <3> QED
      BY <2>3, <3>1 DEF ConnectFails, UiType
  <2>4. CASE GiveUp(u) \/ SwallowAlert(u) \/ UiDies(u)
    BY <2>4, EndUTypes DEF GiveUp, SwallowAlert, UiDies
  <2>5. CASE ShowAlert(u)
    <3>1. uMq[u] \in Daemons /\ queue[uMq[u]] # <<>>
      BY <2>5 DEF ShowAlert, UiType
    <3>2. Head(queue[uMq[u]]) \in Daemons
      BY <3>1, HeadTailProperties DEF QueueType
    <3> QED
      BY <2>5, <3>2 DEF ShowAlert, UiType
  <2>6. CASE Eof(u)
    BY <2>6, EndUTypes DEF Eof, UiType
  <2> QED
    BY <2>1, <2>2, <2>3, <2>4, <2>5, <2>6 DEF UiAction, UiStep
<1>6. SemType'
  <2>1. CASE UiDies(u)
    <3>1. uShm[u] \in Daemons \cup {None}
      BY <1>0 DEF UiType
    <3> QED
      BY <1>0, <2>1, <3>1 DEF UiDies, MayLose, SemType
  <2>2. CASE UNCHANGED sem
    BY <1>0, <2>2, PartsFrame
  <2> QED
    BY <2>1, <2>2
       DEF UiAction, UiStep, UiStart, Connect, ConnectFails, GiveUp, UiOpenMq, UiOpenShm,
           ShowAlert, Eof, SwallowAlert
<1> QED
  BY <1>1, <1>2, <1>3, <1>4, <1>5, <1>6, TypeParts

LEMMA TypeStep == TypeOK /\ [Next]_vars => TypeOK'
<1>1. TypeOK /\ UNCHANGED vars => TypeOK'
  BY DEF TypeOK, vars, names, daemons, uis, ghosts
<1> QED
  BY <1>1, WhoseStep, DaemonTypes, UiTypes

\* Every variable keeps its type, and backlog and alert queue their limits.
THEOREM AttachTypes == Spec => []TypeOK
  BY TypeInit, TypeStep, PTL DEF Spec

----------------------------------------------------------------------------
(* The names. *)

\* Who has a name keeps it until it unlinks it itself, or crashes.
LEMMA UnlinkedStep == IInv /\ [Next]_vars => Unlinked'
<1> SUFFICES ASSUME IInv, [Next]_vars, ~crashed' PROVE Unlinked'
  BY DEF Unlinked
<1> USE DEF IInv, Unlinked, UnlinksMq, UnlinksShm
<1>0. DaemonType
  BY TypeParts
<1>1. ASSUME NEW d \in Daemons, DaemonAction(d) PROVE Unlinked'
  <2>0. ~crashed
    BY <1>1, DaemonFrame
  <2> USE <1>0, <2>0 DEF GotoD, names, DaemonType
  <2>1. CASE Listen(d) \/ StartFails(d)
    BY <2>1 DEF Listen, StartFails
  <2>2. CASE OpenMq(d) \/ OpenMqFails(d)
    BY <2>2 DEF OpenMq, OpenMqFails
  <2>3. CASE OpenShm(d) \/ OpenShmFails(d)
    BY <2>3 DEF OpenShm, OpenShmFails
  <2>4. CASE Accept(d) \/ AcceptFails(d) \/ Leave(d) \/ WriteSettings(d)
    BY <2>4 DEF Accept, AcceptFails, Leave, WriteSettings
  <2>5. CASE LoseClient(d) \/ Signal(d) \/ RaiseAlert(d) \/ SyncHangs(d)
    BY <2>5 DEF LoseClient, Signal, RaiseAlert, SyncHangs, daemons
  <2>6. CASE UnlinkShm(d) \/ UnlinkMq(d)
    BY <2>6 DEF UnlinkShm, UnlinkMq
  <2>7. CASE Close(d)
    BY <2>7 DEF Close, EndD
  <2>8. CASE Crash(d)
    BY <2>8 DEF Crash
  <2> QED
    BY <1>1, <2>1, <2>2, <2>3, <2>4, <2>5, <2>6, <2>7, <2>8 DEF DaemonAction, DaemonStep
<1>2. ASSUME NEW u \in Uis, UiAction(u) PROVE Unlinked'
  BY <1>2, UiFrame DEF names
<1>3. CASE UNCHANGED vars
  BY <1>3 DEF vars, names, daemons, ghosts
<1> QED
  BY <1>1, <1>2, <1>3, WhoseStep

LEMMA FreshStep == IInv /\ [Next]_vars => Fresh'
<1> SUFFICES ASSUME IInv, [Next]_vars PROVE Fresh'
  OBVIOUS
<1> USE NoneAssumption DEF IInv, Fresh, Alive
<1>0. DaemonType /\ UiType /\ NamesType
  BY TypeParts
<1>1. ASSUME NEW d \in Daemons, DaemonAction(d) PROVE Fresh'
  <2> USE <1>0 DEF GotoD, uis, DaemonType, UiType
  <2>1. CASE Listen(d) \/ StartFails(d)
    BY <2>1 DEF Listen, StartFails
  <2>2. CASE OpenMq(d) \/ OpenMqFails(d)
    BY <2>2 DEF OpenMq, OpenMqFails
  <2>3. CASE OpenShm(d) \/ OpenShmFails(d)
    BY <2>3 DEF OpenShm, OpenShmFails
  <2>4. CASE Accept(d) \/ AcceptFails(d) \/ Leave(d) \/ WriteSettings(d)
    BY <2>4 DEF Accept, AcceptFails, Leave, WriteSettings
  <2>5. CASE LoseClient(d) \/ Signal(d) \/ RaiseAlert(d) \/ SyncHangs(d)
    BY <2>5 DEF LoseClient, Signal, RaiseAlert, SyncHangs, daemons
  <2>6. CASE UnlinkShm(d) \/ UnlinkMq(d)
    BY <2>6 DEF UnlinkShm, UnlinkMq
  <2>7. CASE Close(d) \/ Crash(d)
    <3>1. EndD(d)
      BY <2>7 DEF Close, Crash
    <3>2. UNCHANGED <<upc, server, uMq, shown>>
      BY <1>1, DaemonFrame
    <3> QED
      BY <3>1, <3>2 DEF EndD
  <2> QED
    BY <1>1, <2>1, <2>2, <2>3, <2>4, <2>5, <2>6, <2>7 DEF DaemonAction, DaemonStep
<1>2. ASSUME NEW u \in Uis, UiAction(u) PROVE Fresh'
  <2> USE <1>0 DEF GotoU, daemons, UiType
  <2>0. UNCHANGED <<dpc, dMq, dShm>>
    BY <1>2, UiFrame
  <2>1. CASE UiStart(u) \/ UiOpenMq(u) \/ UiOpenShm(u)
    BY <2>0, <2>1 DEF UiStart, UiOpenMq, UiOpenShm
  \* It connects to a daemon that is alive.
  <2>2. CASE Connect(u)
    BY <2>0, <2>2 DEF Connect, Listening
  <2>3. CASE ConnectFails(u) \/ ShowAlert(u)
    BY <2>0, <2>3 DEF ConnectFails, ShowAlert
  <2>4. CASE GiveUp(u) \/ SwallowAlert(u) \/ UiDies(u)
    BY <2>0, <2>4 DEF GiveUp, SwallowAlert, UiDies, EndU
  <2>5. CASE Eof(u)
    BY <2>0, <2>5 DEF Eof, EndU
  <2> QED
    BY <1>2, <2>1, <2>2, <2>3, <2>4, <2>5 DEF UiAction, UiStep
<1>3. CASE UNCHANGED vars
  BY <1>3 DEF vars, daemons, uis
<1> QED
  BY <1>1, <1>2, <1>3, WhoseStep

LEMMA EarlyStep == IInv /\ [Next]_vars => Early'
<1> SUFFICES ASSUME IInv, [Next]_vars PROVE Early'
  OBVIOUS
<1> USE NoneAssumption DEF IInv, Early
<1>0. DaemonType /\ UiType /\ NamesType
  BY TypeParts
\* Nobody has connected to a daemon that has only started.
<1>1. ASSUME NEW d \in Daemons, DaemonAction(d) PROVE Early'
  <2>1. \A e \in Daemons : dpc'[e] \in {"mq", "shm"} => dpc[e] \in {"off", "mq", "shm"}
    BY <1>0, <1>1
       DEF DaemonAction, DaemonStep, Listen, StartFails, OpenMq, OpenMqFails, OpenShm, OpenShmFails,
           Accept, AcceptFails, LoseClient, WriteSettings, SyncHangs, Leave,
           UnlinkShm, UnlinkMq, Close, Signal, RaiseAlert,
           Crash, EndD, GotoD, daemons, DaemonType
  <2> QED
    BY <1>0, <1>1, <2>1, DaemonFrame DEF Fresh, UiType, uis
<1>2. ASSUME NEW u \in Uis, UiAction(u) PROVE Early'
  <2>0. dpc' = dpc
    BY <1>2, UiFrame
  <2>1. CASE Connect(u)
    BY <1>0, <2>0, <2>1 DEF Connect, Listening, Up, UiType
  <2>2. CASE ~Connect(u)
    <3>1. early' = early
      BY <1>2, <2>2
         DEF UiAction, UiStep, UiStart, UiDies, ConnectFails, GiveUp, UiOpenMq, UiOpenShm,
             ShowAlert, Eof, SwallowAlert, ghosts
    <3>2. server' = server \/ server' = [server EXCEPT ![u] = None]
      BY <1>2, <2>2
         DEF UiAction, UiStep, UiStart, UiDies, ConnectFails, GiveUp, UiOpenMq, UiOpenShm,
             ShowAlert, Eof, SwallowAlert, EndU, ghosts
    <3> QED
      BY <1>0, <2>0, <3>1, <3>2 DEF UiType
  <2> QED
    BY <2>1, <2>2
<1>3. CASE UNCHANGED vars
  BY <1>3 DEF vars, daemons, uis, ghosts
<1> QED
  BY <1>1, <1>2, <1>3, WhoseStep

\* While no two daemons overlap, one that starts finds none alive.
LEMMA AloneStep == IInv /\ [Next]_vars /\ ~overlapped' => Alone'
<1> SUFFICES ASSUME IInv, [Next]_vars, ~overlapped' PROVE Alone'
  OBVIOUS
<1>0. DaemonType
  BY TypeParts DEF IInv
<1>1. ASSUME NEW d \in Daemons, DaemonAction(d) PROVE Alone'
  <2>1. Alone
    BY <1>1, DaemonFrame DEF IInv
  <2>2. CASE Listen(d) \/ StartFails(d)
    BY <1>0, <2>1, <2>2 DEF Listen, StartFails, Started, GotoD, Alone, Alive, DaemonType
  <2>3. CASE ~(Listen(d) \/ StartFails(d))
    <3>1. \A e \in Daemons : Alive(e)' => Alive(e)
      BY <1>0, <1>1, <2>3
         DEF DaemonAction, DaemonStep, OpenMq, OpenMqFails, OpenShm, OpenShmFails,
             Accept, AcceptFails, LoseClient, WriteSettings, SyncHangs, Leave,
             UnlinkShm, UnlinkMq, Close, Signal, RaiseAlert,
             Crash, EndD, GotoD, daemons, Alive, DaemonType
    <3> QED
      BY <2>1, <3>1 DEF Alone
  <2> QED
    BY <2>2, <2>3
<1>2. ASSUME NEW u \in Uis, UiAction(u) PROVE Alone'
  BY <1>2, UiFrame DEF IInv, Alone, Alive
<1>3. CASE UNCHANGED vars
  BY <1>3 DEF IInv, Alone, Alive, vars, daemons, ghosts
<1> QED
  BY <1>1, <1>2, <1>3, WhoseStep

LEMMA OwnStep == IInv /\ [Next]_vars /\ ~overlapped' => Own'
<1> SUFFICES ASSUME IInv, [Next]_vars, ~overlapped' PROVE Own'
  OBVIOUS
<1>0. DaemonType /\ Fresh
  BY TypeParts DEF IInv
<1>1. ASSUME NEW d \in Daemons, DaemonAction(d) PROVE Own'
  <2>0. Alone /\ Own
    BY <1>1, DaemonFrame DEF IInv
  <2> USE <1>0, <2>0 DEF Alone, Own, Alive, GotoD, names, DaemonType
  <2>1. CASE Listen(d)
    BY <2>1 DEF Listen, Started, Fresh
  <2>2. CASE StartFails(d)
    BY <2>2 DEF StartFails, Started
  <2>3. CASE OpenMq(d) \/ OpenMqFails(d)
    BY <2>3 DEF OpenMq, OpenMqFails
  <2>4. CASE OpenShm(d) \/ OpenShmFails(d)
    BY <2>4 DEF OpenShm, OpenShmFails
  <2>5. CASE Accept(d) \/ AcceptFails(d) \/ Leave(d) \/ WriteSettings(d)
    BY <2>5 DEF Accept, AcceptFails, Leave, WriteSettings
  <2>6. CASE LoseClient(d) \/ Signal(d) \/ RaiseAlert(d) \/ SyncHangs(d)
    BY <2>6 DEF LoseClient, Signal, RaiseAlert, SyncHangs, daemons
  <2>7. CASE UnlinkShm(d) \/ UnlinkMq(d)
    BY <2>7 DEF UnlinkShm, UnlinkMq
  <2>8. CASE Close(d) \/ Crash(d)
    BY <2>8 DEF Close, Crash, EndD
  <2> QED
    BY <1>1, <2>1, <2>2, <2>3, <2>4, <2>5, <2>6, <2>7, <2>8 DEF DaemonAction, DaemonStep
<1>2. ASSUME NEW u \in Uis, UiAction(u) PROVE Own'
  BY <1>2, UiFrame DEF IInv, Own, Alive, names
<1>3. CASE UNCHANGED vars
  BY <1>3 DEF IInv, Own, Alive, vars, names, daemons, ghosts
<1> QED
  BY <1>1, <1>2, <1>3, WhoseStep

----------------------------------------------------------------------------
(* The peers. *)

\* A UI that looks names up finds what its daemon has opened or will open.
LEMMA SameStep == IInv /\ [Next]_vars /\ ~overlapped' => Same'
<1> SUFFICES ASSUME IInv, [Next]_vars, ~overlapped' PROVE Same'
  OBVIOUS
<1> USE NoneAssumption
<1>0. DaemonType /\ UiType /\ NamesType /\ Fresh /\ Early
  BY TypeParts DEF IInv
<1>1. ASSUME NEW d \in Daemons, DaemonAction(d) PROVE Same'
  <2>0. Alone /\ Own /\ Same
    BY <1>1, DaemonFrame DEF IInv
  <2>f. UNCHANGED <<upc, server, uMq, uShm, early>>
    BY <1>1, DaemonFrame DEF uis
  <2> USE <1>0, <2>0, <2>f
      DEF Alone, Own, Same, SameMq, SameShm, Alive, GotoD, names, DaemonType, UiType
  <2>1. CASE Listen(d)
    BY <2>1 DEF Listen, Started, Fresh
  <2>2. CASE StartFails(d)
    BY <2>2 DEF StartFails, Started
  <2>3. CASE OpenMq(d)
    BY <2>3 DEF OpenMq, Opened, Early, NamesType
  <2>4. CASE OpenMqFails(d)
    BY <2>4 DEF OpenMqFails, Early
  <2>5. CASE OpenShm(d)
    BY <2>5 DEF OpenShm, Opened, Early, NamesType
  <2>6. CASE OpenShmFails(d)
    BY <2>6 DEF OpenShmFails, Early
  <2>7. CASE Accept(d) \/ AcceptFails(d) \/ Leave(d) \/ WriteSettings(d)
    BY <2>7 DEF Accept, AcceptFails, Leave, WriteSettings
  <2>8. CASE LoseClient(d) \/ Signal(d) \/ RaiseAlert(d) \/ SyncHangs(d)
    BY <2>8 DEF LoseClient, Signal, RaiseAlert, SyncHangs, daemons
  <2>9. CASE UnlinkShm(d) \/ UnlinkMq(d)
    BY <2>9 DEF UnlinkShm, UnlinkMq
  <2>10. CASE Close(d) \/ Crash(d)
    <3>1. EndD(d) /\ UNCHANGED <<path, mqName, shmName>>
      BY <2>10 DEF Close, Crash
    <3>2. /\ dpc'[d] = "gone"
          /\ \A e \in Daemons \ {d} : dpc'[e] = dpc[e] /\ dMq'[e] = dMq[e] /\ dShm'[e] = dShm[e]
      BY <3>1 DEF EndD
    <3> QED
      BY <3>1, <3>2
  <2> QED
    BY <1>1, <2>1, <2>2, <2>3, <2>4, <2>5, <2>6, <2>7, <2>8, <2>9, <2>10
       DEF DaemonAction, DaemonStep
<1>2. ASSUME NEW u \in Uis, UiAction(u) PROVE Same'
  <2>0. Own /\ Same
    BY <1>2, UiFrame DEF IInv
  <2>f. UNCHANGED <<path, mqName, shmName, dpc, dMq, dShm>>
    BY <1>2, UiFrame DEF names
  <2> USE <1>0, <2>0, <2>f DEF Own, Same, SameMq, SameShm, Alive, GotoU, UiType
  <2>1. CASE UiStart(u) \/ ConnectFails(u) \/ ShowAlert(u)
    BY <2>1 DEF UiStart, ConnectFails, ShowAlert, ghosts
  <2>2. CASE Connect(u)
    BY <2>2 DEF Connect
  <2>3. CASE UiOpenMq(u)
    BY <2>3 DEF UiOpenMq, Early, ghosts
  <2>4. CASE UiOpenShm(u)
    BY <2>4 DEF UiOpenShm, Early, ghosts
  <2>5. CASE GiveUp(u) \/ SwallowAlert(u) \/ UiDies(u)
    <3>1. EndU(u) /\ early' = early
      BY <2>5 DEF GiveUp, SwallowAlert, UiDies, ghosts
    <3> QED
      BY <3>1 DEF EndU
  <2>6. CASE Eof(u)
    BY <2>6 DEF Eof, EndU, ghosts
  <2> QED
    BY <1>2, <2>1, <2>2, <2>3, <2>4, <2>5, <2>6 DEF UiAction, UiStep
<1>3. CASE UNCHANGED vars
  BY <1>3 DEF IInv, Same, SameMq, SameShm, vars, names, daemons, uis, ghosts
<1> QED
  BY <1>1, <1>2, <1>3, WhoseStep

\* An element of a shorter queue was in the longer one.
LEMMA TailElements ==
  ASSUME NEW S, NEW s \in Seq(S), s # <<>>, NEW x, \A i \in 1..Len(s) : s[i] = x
  PROVE  \A i \in 1..Len(Tail(s)) : Tail(s)[i] = x
<1> SUFFICES ASSUME NEW i \in 1..Len(Tail(s)) PROVE Tail(s)[i] = x
  OBVIOUS
<1>1. Len(Tail(s)) = Len(s) - 1 /\ Len(s) \in Nat
  BY HeadTailProperties
<1>2. i + 1 \in 1..Len(s) /\ Tail(s)[i] = s[i + 1]
  BY <1>1, HeadTailProperties
<1> QED
  BY <1>2

LEMMA AppendElements ==
  ASSUME NEW S, NEW s \in Seq(S), NEW x \in S, \A i \in 1..Len(s) : s[i] = x
  PROVE  \A i \in 1..Len(Append(s, x)) : Append(s, x)[i] = x
  BY AppendProperties

\* Without a crash no queue outlives its daemon, and nobody opens another's.
LEMMA OwnAlertsStep ==
  IInv /\ [Next]_vars /\ ~overlapped' /\ ~crashed' => OwnAlerts'
<1> SUFFICES ASSUME IInv, [Next]_vars, ~overlapped', ~crashed' PROVE OwnAlerts'
  OBVIOUS
<1> USE NoneAssumption
<1>0. DaemonType /\ UiType /\ NamesType /\ QueueType /\ Fresh /\ Unlinked
  BY TypeParts DEF IInv
<1>1. ASSUME NEW d \in Daemons, DaemonAction(d) PROVE OwnAlerts'
  <2>0. Alone /\ OwnAlerts /\ ~crashed
    BY <1>1, DaemonFrame DEF IInv
  <2>f. UNCHANGED <<server, uMq, shown>>
    BY <1>1, DaemonFrame DEF uis
  <2> USE <1>0, <2>0, <2>f DEF Alone, OwnAlerts, Alive, GotoD, names, DaemonType, UiType
  <2>q. queue' = queue => OwnQueue'
    BY DEF OwnQueue
  \* Nobody is left who would unlink the queue's name: it leads nowhere.
  <2>1. CASE Listen(d)
    <3>1. \A e \in Daemons : ~Alive(e)
      BY <2>1 DEF Listen, Started
    <3>2. mqName = None
      BY <3>1 DEF Unlinked, UnlinksMq
    <3> QED
      BY <2>1, <2>q, <3>2 DEF Listen, Fresh
  <2>2. CASE StartFails(d)
    BY <2>2, <2>q DEF StartFails
  <2>3. CASE OpenMq(d) \/ OpenMqFails(d)
    BY <2>3, <2>q DEF OpenMq, Opened, OpenMqFails
  <2>4. CASE OpenShm(d) \/ OpenShmFails(d)
    BY <2>4, <2>q DEF OpenShm, OpenShmFails
  <2>5. CASE Accept(d) \/ AcceptFails(d) \/ Leave(d) \/ WriteSettings(d)
    <3>1. UNCHANGED <<mqName, dMq, queue>>
      BY <2>5 DEF Accept, AcceptFails, Leave, WriteSettings
    <3>2. /\ dpc[d] \in {"write", "accept", "run"}
          /\ \A e \in Daemons \ {d} : dpc'[e] = dpc[e]
      BY <2>5 DEF Accept, AcceptFails, Leave, WriteSettings
    <3> QED
      BY <2>q, <3>1, <3>2
  <2>6. CASE LoseClient(d) \/ Signal(d) \/ SyncHangs(d)
    BY <2>6, <2>q DEF LoseClient, Signal, SyncHangs, daemons
  <2>7. CASE RaiseAlert(d)
    <3>1. dMq[d] = d /\ queue[d] \in Seq(Daemons)
      BY <2>7 DEF RaiseAlert, QueueType
    <3>2. queue' = queue \/ queue' = [queue EXCEPT ![d] = Append(queue[d], d)]
      BY <2>7, <3>1 DEF RaiseAlert
    <3>3. \A i \in 1..Len(Append(queue[d], d)) : Append(queue[d], d)[i] = d
      BY <3>1, AppendElements DEF OwnQueue
    <3>4. OwnQueue'
      BY <3>2, <3>3 DEF QueueType, OwnQueue
    <3> QED
      BY <2>7, <3>4 DEF RaiseAlert
  <2>8. CASE UnlinkShm(d) \/ UnlinkMq(d)
    BY <2>8, <2>q DEF UnlinkShm, UnlinkMq
  <2>9. CASE Close(d) \/ Crash(d)
    <3>1. EndD(d) /\ UNCHANGED <<mqName, queue>>
      BY <2>9 DEF Close, Crash
    <3>2. /\ dpc'[d] = "gone" /\ dMq'[d] = None
          /\ \A e \in Daemons \ {d} : dpc'[e] = dpc[e] /\ dMq'[e] = dMq[e]
      BY <3>1 DEF EndD
    <3> QED
      BY <2>q, <3>1, <3>2
  <2> QED
    BY <1>1, <2>1, <2>2, <2>3, <2>4, <2>5, <2>6, <2>7, <2>8, <2>9 DEF DaemonAction, DaemonStep
<1>2. ASSUME NEW u \in Uis, UiAction(u) PROVE OwnAlerts'
  <2>0. OwnAlerts
    BY <1>2, UiFrame DEF IInv
  <2>f. UNCHANGED <<path, mqName, dpc, dMq>>
    BY <1>2, UiFrame DEF names
  <2> USE <1>0, <2>0, <2>f DEF OwnAlerts, Alive, GotoU, UiType
  <2>q. queue' = queue => OwnQueue'
    BY DEF OwnQueue
  <2>1. CASE UiStart(u) \/ ConnectFails(u) \/ UiOpenShm(u)
    BY <2>1, <2>q DEF UiStart, ConnectFails, UiOpenShm
  <2>2. CASE Connect(u)
    BY <2>2, <2>q DEF Connect, Fresh
  <2>3. CASE UiOpenMq(u)
    BY <2>3, <2>q DEF UiOpenMq
  <2>4. CASE ShowAlert(u) \/ SwallowAlert(u)
    <3> DEFINE q == uMq[u]
    <3>1. queue' = [queue EXCEPT ![q] = Tail(queue[q])] /\ queue[q] # <<>>
      BY <2>4 DEF ShowAlert, SwallowAlert
    <3>2. q \in Daemons => queue[q] \in Seq(Daemons)
      BY DEF QueueType
    <3>3. q \in Daemons => \A i \in 1..Len(Tail(queue[q])) : Tail(queue[q])[i] = q
      BY <3>1, <3>2, TailElements DEF OwnQueue
    <3>4. OwnQueue'
      BY <3>1, <3>3 DEF QueueType, OwnQueue
    <3>5. CASE ShowAlert(u)
      <4>1. q \in Daemons /\ queue[q] \in Seq(Daemons) /\ queue[q] # <<>>
        BY <3>1, <3>2, <3>5 DEF ShowAlert
      <4>2. Head(queue[q]) = q
        BY <4>1, HeadTailProperties DEF OwnQueue
      <4>3. shown' = [shown EXCEPT ![u] = shown[u] \cup {q}] /\ UNCHANGED <<server, uMq>>
        BY <3>5, <4>2 DEF ShowAlert
      \* It is the queue of the daemon it is connected to.
      <4>4. \A v \in Uis :
              server[v] # None /\ dpc[server[v]] \in {"mq", "shm", "write", "accept", "run"} =>
                shown'[v] \subseteq {server[v]}
        BY <4>1, <4>3
      <4> QED
        BY <3>4, <4>3, <4>4
    <3>6. CASE SwallowAlert(u)
      BY <3>4, <3>6 DEF SwallowAlert, EndU
    <3> QED
      BY <2>4, <3>5, <3>6
  <2>5. CASE GiveUp(u) \/ UiDies(u)
    BY <2>5, <2>q DEF GiveUp, UiDies, EndU
  <2>6. CASE Eof(u)
    BY <2>6, <2>q DEF Eof, EndU
  <2> QED
    BY <1>2, <2>1, <2>2, <2>3, <2>4, <2>5, <2>6 DEF UiAction, UiStep
<1>3. CASE UNCHANGED vars
  BY <1>3 DEF IInv, OwnAlerts, OwnQueue, Alive, vars, names, daemons, uis, ghosts
<1> QED
  BY <1>1, <1>2, <1>3, WhoseStep

----------------------------------------------------------------------------
(* The theorems. *)

LEMMA IInvInit == Init => IInv
<1> SUFFICES ASSUME Init PROVE IInv
  OBVIOUS
<1>1. Unlinked /\ Fresh /\ Early
  BY DEF Init, Unlinked, Fresh, Early, Alive
<1>2. Alone /\ Own /\ Same
  BY DEF Init, Alone, Own, Same, Alive
<1>3. OwnAlerts
  BY DEF Init, OwnAlerts, OwnQueue, Alive
<1> QED
  BY <1>1, <1>2, <1>3, TypeInit DEF IInv

\* The inductive invariant of start-up, restart and teardown.
THEOREM AttachInvariant == Spec => []IInv
<1>1. IInv /\ [Next]_vars => IInv'
  BY TypeStep, UnlinkedStep, FreshStep, EarlyStep, AloneStep, OwnStep, SameStep, OwnAlertsStep
     DEF IInv
<1> QED
  BY <1>1, IInvInit, PTL DEF Spec

\* No queue and no segment outlives the daemons, unless one of them has crashed,
\* even if they have overlapped and unlinked each other's names.
THEOREM TeardownCorrect == Spec => []NothingLeft
<1>1. IInv => NothingLeft
  BY DEF IInv, Unlinked, UnlinksMq, UnlinksShm, NothingLeft, Alive
<1> QED
  BY <1>1, AttachInvariant, PTL

\* The names of a daemon that is up lead to its own socket, queue and segment.
THEOREM NamesCorrect == Spec => []NamesLead
<1>1. IInv => NamesLead
  BY DEF IInv, Own, NamesLead, Up, Alive
<1> QED
  BY <1>1, AttachInvariant, PTL

\* An attached UI shares its daemon's queue and segment, never a predecessor's.
THEOREM SharingCorrect == Spec => []SharesWithServer
<1>1. IInv => SharesWithServer
  BY DEF IInv, TypeOK, Same, SameMq, SameShm, SharesWithServer, Up
<1> QED
  BY <1>1, AttachInvariant, PTL

\* It shows its own daemon's alerts only, as long as nobody crashes.
THEOREM FreshnessCorrect == Spec => []AlertsAreFresh
<1>1. IInv => AlertsAreFresh
  BY DEF IInv, OwnAlerts, AlertsAreFresh, Up
<1> QED
  BY <1>1, AttachInvariant, PTL

============================================================================
