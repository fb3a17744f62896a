------------------------------- MODULE Attach -------------------------------
(***************************************************************************)
(* How ui_app and sensor_daemon find each other: start-up, restart and     *)
(* teardown, and the names of socket, alert queue and segment, which       *)
(* outlive the processes.                                                  *)
(*                                                                         *)
(* Each member of Daemons and Uis is one run of a program, started at most *)
(* once; several are restarts of one another, and may overlap when the     *)
(* next is started before the last is gone.  A queue or segment is known   *)
(* by the daemon that created it: unlinked, it lives on for those who have *)
(* it open.  What the threads of two attached processes do is left to      *)
(* Panel; of it, only alerts and the loss of the peer matter here.         *)
(***************************************************************************)
EXTENDS Integers, Sequences

CONSTANTS
  Daemons, Uis,   \* runs of the two programs
  None,           \* no object, no process
  Retries,        \* 10: connection attempts of ui_app
  Backlog,        \* connections that wait for accept
  AlertMax,       \* messages the alert queue holds
  MaxAlerts,      \* bound: alerts a daemon raises
  MaxFaults       \* bound: crashes, kills and calls that fail

ASSUME NoneAssumption == None \notin Daemons \cup Uis

ASSUME NumbersAssumption ==
  /\ Retries \in Nat \ {0} /\ Backlog \in Nat \ {0} /\ AlertMax \in Nat \ {0}
  /\ MaxAlerts \in Nat /\ MaxFaults \in Nat

\* The step main() takes next: ipc_socket_server_init, ipc_mq_sender_open,
\* ipc_shm_init, the settings written to the segment, accept; then it runs, unlinks
\* segment and queue, and closes.
DaemonPc == {"off", "mq", "shm", "write", "accept", "run", "unlinkShm", "unlinkMq",
             "close", "gone"}

\* connect_with_retry, ipc_mq_receiver_open, ipc_shm_init, the main loop; and
\* "leaving": main() waits for the alert thread, which is inside mq_receive.
UiPc == {"off", "connect", "mq", "shm", "run", "leaving", "gone"}

VARIABLES
  path,        \* the daemon whose socket the path leads to
  mqName,      \* the queue its name leads to
  shmName,     \* the segment its name leads to
  queue,       \* per queue its alerts, each known by the daemon that raised it
  lost,        \* the segments whose semaphore a process took and died with
  stuck,       \* the daemons whose shm_sync waits for such a semaphore
  dpc, stop,   \* per daemon: main()'s place, and whether it has been told to stop
  backlog,     \* per daemon: the connections not yet accepted
  client,      \* per daemon: the UI it has accepted
  dMq, dShm,   \* per daemon: the queue and segment it has open
  raised,      \* per daemon: alerts raised
  upc, tries,  \* per UI: main()'s place, failed connection attempts
  server,      \* per UI: the daemon it has connected to
  uMq, uShm,   \* per UI: the queue and segment it has open
  shown,       \* per UI: the daemons whose alerts it has shown
  early,       \* ghost: UIs that connected before their daemon was at accept
  overlapped,  \* ghost: whether a daemon was started while another was alive
  crashed,     \* ghost: whether a daemon has crashed
  faults       \* counter for MaxFaults

names == <<path, mqName, shmName>>
daemons == <<dpc, stop, backlog, client, dMq, dShm, raised>>
sem == <<lost, stuck>>
objects == <<queue, sem>>
uis == <<upc, tries, server, uMq, uShm, shown>>
ghosts == <<early, overlapped, crashed, faults>>
vars == <<names, objects, daemons, uis, ghosts>>

\* Every variable has its type, and backlog and queues keep their limits.
TypeOK ==
  /\ {path, mqName, shmName} \subseteq Daemons \cup {None}
  /\ queue \in [Daemons -> Seq(Daemons)]
  /\ \A d \in Daemons : Len(queue[d]) <= AlertMax
  /\ lost \subseteq Daemons /\ stuck \subseteq Daemons
  /\ dpc \in [Daemons -> DaemonPc] /\ stop \in [Daemons -> BOOLEAN]
  /\ backlog \in [Daemons -> Seq(Uis)]
  /\ \A d \in Daemons : Len(backlog[d]) <= Backlog
  /\ client \in [Daemons -> Uis \cup {None}]
  /\ dMq \in [Daemons -> Daemons \cup {None}] /\ dShm \in [Daemons -> Daemons \cup {None}]
  /\ raised \in [Daemons -> 0..MaxAlerts]
  /\ upc \in [Uis -> UiPc] /\ tries \in [Uis -> 0..Retries]
  /\ server \in [Uis -> Daemons \cup {None}]
  /\ uMq \in [Uis -> Daemons \cup {None}] /\ uShm \in [Uis -> Daemons \cup {None}]
  /\ shown \in [Uis -> SUBSET Daemons]
  /\ early \subseteq Uis /\ overlapped \in BOOLEAN /\ crashed \in BOOLEAN
  /\ faults \in 0..MaxFaults

Init ==
  /\ path = None /\ mqName = None /\ shmName = None
  /\ queue = [d \in Daemons |-> <<>>] /\ lost = {} /\ stuck = {}
  /\ dpc = [d \in Daemons |-> "off"] /\ stop = [d \in Daemons |-> FALSE]
  /\ backlog = [d \in Daemons |-> <<>>]
  /\ client = [d \in Daemons |-> None]
  /\ dMq = client /\ dShm = client
  /\ raised = [d \in Daemons |-> 0]
  /\ upc = [u \in Uis |-> "off"] /\ tries = [u \in Uis |-> 0]
  /\ server = [u \in Uis |-> None]
  /\ uMq = server /\ uShm = server
  /\ shown = [u \in Uis |-> {}]
  /\ early = {} /\ overlapped = FALSE /\ crashed = FALSE /\ faults = 0

Alive(d) == dpc[d] \notin {"off", "gone"}

\* The daemon has a listening socket, on which connect() succeeds.
Listening(d) == d # None /\ Alive(d)

\* It has opened queue and segment and is not in the teardown yet.
Up(d) == d # None /\ dpc[d] \in {"write", "accept", "run"}

GotoD(d, place) == dpc' = [dpc EXCEPT ![d] = place]

GotoU(u, place) == upc' = [upc EXCEPT ![u] = place]

\* The end of a process: the kernel closes what it has open.
EndD(d) ==
  /\ GotoD(d, "gone")
  /\ stop' = [stop EXCEPT ![d] = FALSE]
  /\ backlog' = [backlog EXCEPT ![d] = <<>>]
  /\ client' = [client EXCEPT ![d] = None]
  /\ dMq' = [dMq EXCEPT ![d] = None]
  /\ dShm' = [dShm EXCEPT ![d] = None]
  /\ raised' = [raised EXCEPT ![d] = 0]
  /\ stuck' = stuck \ {d}

EndU(u) ==
  /\ GotoU(u, "gone")
  /\ tries' = [tries EXCEPT ![u] = 0]
  /\ server' = [server EXCEPT ![u] = None]
  /\ uMq' = [uMq EXCEPT ![u] = None]
  /\ uShm' = [uShm EXCEPT ![u] = None]
  /\ shown' = [shown EXCEPT ![u] = {}]

\* A process that dies may be between sem_wait and sem_post, where it has a segment
\* and is at a place where it uses it.
MayLose(segment, using) ==
  lost' \in {lost} \cup (IF using /\ segment # None THEN {lost \cup {segment}} ELSE {})

\* A fault, of which there are MaxFaults.
Fault == faults < MaxFaults /\ faults' = faults + 1

Started == overlapped' = (overlapped \/ \E e \in Daemons : Alive(e))

----------------------------------------------------------------------------
(* The daemon's start-up. *)

\* ipc_socket_server_init unlinks what the path leads to and binds it anew.
Listen(d) ==
  /\ dpc[d] = "off"
  /\ path' = d
  /\ GotoD(d, "mq")
  /\ Started
  /\ UNCHANGED <<mqName, shmName, objects, stop, backlog, client, dMq, dShm, raised,
                 uis, early, crashed, faults>>

\* The event queue, the database or the socket cannot be had: main() returns 1,
\* the path unlinked or not yet.
StartFails(d) ==
  /\ dpc[d] = "off"
  /\ Fault
  /\ path' \in {path, None}
  /\ GotoD(d, "gone")
  /\ Started
  /\ UNCHANGED <<mqName, shmName, objects, stop, backlog, client, dMq, dShm, raised,
                 uis, early, crashed>>

\* What open with O_CREAT makes of a name: the object it leads to, or a new one.
Opened(name, d) == IF name = None THEN d ELSE name

\* Fault-seeded variant: a queue that is there is unlinked first, as the socket is.
OpenMqAnew(d) ==
  /\ dpc[d] = "mq"
  /\ mqName' = d
  /\ dMq' = [dMq EXCEPT ![d] = d]
  /\ GotoD(d, "shm")
  /\ UNCHANGED <<path, shmName, objects, stop, backlog, client, dShm, raised, uis, ghosts>>

\* ipc_mq_sender_open: a queue that is there keeps its alerts.
OpenMq(d) ==
  /\ dpc[d] = "mq"
  /\ mqName' = Opened(mqName, d)
  /\ dMq' = [dMq EXCEPT ![d] = mqName']
  /\ GotoD(d, "shm")
  /\ UNCHANGED <<path, shmName, objects, stop, backlog, client, dShm, raised, uis, ghosts>>

\* It fails: the daemon goes on without.
OpenMqFails(d) ==
  /\ dpc[d] = "mq"
  /\ Fault
  /\ GotoD(d, "shm")
  /\ UNCHANGED <<names, objects, stop, backlog, client, dMq, dShm, raised, uis,
                 early, overlapped, crashed>>

\* ipc_shm_init(O_CREAT): segment and semaphore that are there stay as they are.
OpenShm(d) ==
  /\ dpc[d] = "shm"
  /\ shmName' = Opened(shmName, d)
  /\ dShm' = [dShm EXCEPT ![d] = shmName']
  /\ GotoD(d, "write")
  /\ UNCHANGED <<path, mqName, objects, stop, backlog, client, dMq, raised, uis, ghosts>>

\* It fails: the daemon goes on without.
OpenShmFails(d) ==
  /\ dpc[d] = "shm"
  /\ Fault
  /\ GotoD(d, "accept")
  /\ UNCHANGED <<names, objects, stop, backlog, client, dMq, dShm, raised, uis,
                 early, overlapped, crashed>>

\* settings_load and ipc_shm_write_settings, and shm_sync_thread is started.  On a
\* semaphore that is lost the write never returns.  What is written is in Settings.
WriteSettings(d) ==
  /\ dpc[d] = "write"
  /\ dShm[d] \notin lost
  /\ GotoD(d, "accept")
  /\ UNCHANGED <<names, objects, stop, backlog, client, dMq, dShm, raised, uis, ghosts>>

\* accept() returns the oldest connection, whose UI may be gone by now.
Accept(d) ==
  /\ dpc[d] = "accept"
  /\ backlog[d] # <<>>
  /\ client' = [client EXCEPT ![d] = Head(backlog[d])]
  /\ backlog' = [backlog EXCEPT ![d] = Tail(@)]
  /\ GotoD(d, "run")
  /\ UNCHANGED <<names, objects, stop, dMq, dShm, raised, uis, ghosts>>

\* accept() fails: the daemon runs without a UI.
AcceptFails(d) ==
  /\ dpc[d] = "accept"
  /\ Fault
  /\ GotoD(d, "run")
  /\ UNCHANGED <<names, objects, stop, backlog, client, dMq, dShm, raised, uis,
                 early, overlapped, crashed>>

----------------------------------------------------------------------------
(* The daemon running, stopping and dying. *)

\* SIGINT or SIGTERM.  signal() has accept() restarted, so that it does not return.
Signal(d) ==
  /\ Alive(d)
  /\ ~stop[d]
  /\ stop' = [stop EXCEPT ![d] = TRUE]
  /\ UNCHANGED <<names, objects, dpc, backlog, client, dMq, dShm, raised, uis, ghosts>>

\* Fault-seeded variant: a full queue takes the alert.
RaiseAlertAnyhow(d) ==
  /\ dpc[d] = "run"
  /\ dMq[d] # None
  /\ raised[d] < MaxAlerts
  /\ raised' = [raised EXCEPT ![d] = @ + 1]
  /\ queue' = [queue EXCEPT ![dMq[d]] = Append(@, d)]
  /\ UNCHANGED <<names, sem, dpc, stop, backlog, client, dMq, dShm, uis, ghosts>>

\* daemon_on_anomaly: mq_send on the daemon's queue, which may be full.
RaiseAlert(d) ==
  /\ dpc[d] = "run"
  /\ dMq[d] # None
  /\ raised[d] < MaxAlerts
  /\ raised' = [raised EXCEPT ![d] = @ + 1]
  /\ queue' = IF Len(queue[dMq[d]]) < AlertMax
              THEN [queue EXCEPT ![dMq[d]] = Append(@, d)] ELSE queue
  /\ UNCHANGED <<names, sem, dpc, stop, backlog, client, dMq, dShm, uis, ghosts>>

\* The next frame finds the UI gone: on_ui_disconnected.
LoseClient(d) ==
  /\ dpc[d] = "run"
  /\ ~stop[d]
  /\ client[d] # None
  /\ upc[client[d]] = "gone"
  /\ stop' = [stop EXCEPT ![d] = TRUE]
  /\ UNCHANGED <<names, objects, dpc, backlog, client, dMq, dShm, raised, uis, ghosts>>

\* shm_sync comes to ipc_shm_read_settings, whose sem_wait never returns.  Told to
\* stop while it sleeps, it does not come there any more.
SyncHangs(d) ==
  /\ dpc[d] \in {"accept", "run"}
  /\ dShm[d] \in lost
  /\ d \notin stuck
  /\ stuck' = stuck \cup {d}
  /\ UNCHANGED <<names, queue, lost, daemons, uis, ghosts>>

\* Fault-seeded variant: the main loop waits for the UI to leave as well.
LeaveWithClient(d) ==
  /\ dpc[d] = "run"
  /\ stop[d]
  /\ d \notin stuck
  /\ client[d] # None => upc[client[d]] = "gone"
  /\ GotoD(d, "unlinkShm")
  /\ UNCHANGED <<names, objects, stop, backlog, client, dMq, dShm, raised, uis, ghosts>>

\* The main loop ends and the threads are joined, shm_sync among them.
Leave(d) ==
  /\ dpc[d] = "run"
  /\ stop[d]
  /\ d \notin stuck
  /\ GotoD(d, "unlinkShm")
  /\ UNCHANGED <<names, objects, stop, backlog, client, dMq, dShm, raised, uis, ghosts>>

\* ipc_shm_unlink: whatever the name leads to.
UnlinkShm(d) ==
  /\ dpc[d] = "unlinkShm"
  /\ shmName' = None
  /\ GotoD(d, "unlinkMq")
  /\ UNCHANGED <<path, mqName, objects, stop, backlog, client, dMq, dShm, raised, uis, ghosts>>

\* Fault-seeded variant: the queue is closed and not unlinked.
CloseMqOnly(d) ==
  /\ dpc[d] = "unlinkMq"
  /\ GotoD(d, "close")
  /\ UNCHANGED <<names, objects, stop, backlog, client, dMq, dShm, raised, uis, ghosts>>

\* ipc_mq_unlink.
UnlinkMq(d) ==
  /\ dpc[d] = "unlinkMq"
  /\ mqName' = None
  /\ GotoD(d, "close")
  /\ UNCHANGED <<path, shmName, objects, stop, backlog, client, dMq, dShm, raised, uis, ghosts>>

\* client_fd and server_fd are closed; the socket path stays, leading nowhere.
Close(d) ==
  /\ dpc[d] = "close"
  /\ EndD(d)
  /\ UNCHANGED <<names, queue, lost, uis, ghosts>>

\* A crash or SIGKILL leaves every name and the alerts in the queue, and a semaphore
\* that main() or shm_sync has taken.
Crash(d) ==
  /\ Alive(d)
  /\ Fault
  /\ MayLose(dShm[d], Up(d))
  /\ crashed' = TRUE
  /\ EndD(d)
  /\ UNCHANGED <<names, queue, uis, early, overlapped>>

----------------------------------------------------------------------------
(* The UI. *)

UiStart(u) ==
  /\ upc[u] = "off"
  /\ GotoU(u, "connect")
  /\ UNCHANGED <<names, objects, daemons, tries, server, uMq, uShm, shown, ghosts>>

\* connect() succeeds as soon as the daemon listens, long before it accepts; while
\* the backlog is full it blocks.
Connect(u) ==
  /\ upc[u] = "connect"
  /\ Listening(path)
  /\ Len(backlog[path]) < Backlog
  /\ backlog' = [backlog EXCEPT ![path] = Append(@, u)]
  /\ server' = [server EXCEPT ![u] = path]
  /\ early' = IF Up(path) THEN early ELSE early \cup {u}
  /\ GotoU(u, "mq")
  /\ UNCHANGED <<names, objects, dpc, stop, client, dMq, dShm, raised, tries, uMq, uShm,
                 shown, overlapped, crashed, faults>>

\* Nobody listens: sleep a second and try again.
ConnectFails(u) ==
  /\ upc[u] = "connect"
  /\ ~Listening(path)
  /\ tries[u] + 1 < Retries
  /\ tries' = [tries EXCEPT ![u] = @ + 1]
  /\ UNCHANGED <<names, objects, daemons, upc, server, uMq, uShm, shown, ghosts>>

\* The last attempt fails as well: main() returns 1.
GiveUp(u) ==
  /\ upc[u] = "connect"
  /\ ~Listening(path)
  /\ tries[u] + 1 = Retries
  /\ EndU(u)
  /\ UNCHANGED <<names, objects, daemons, ghosts>>

\* ipc_mq_receiver_open, without O_CREAT: without a queue the UI goes on alone.
UiOpenMq(u) ==
  /\ upc[u] = "mq"
  /\ uMq' = [uMq EXCEPT ![u] = mqName]
  /\ GotoU(u, "shm")
  /\ UNCHANGED <<names, objects, daemons, tries, server, uShm, shown, ghosts>>

\* ipc_shm_init(0), likewise; then the dashboard and the threads.
UiOpenShm(u) ==
  /\ upc[u] = "shm"
  /\ uShm' = [uShm EXCEPT ![u] = shmName]
  /\ GotoU(u, "run")
  /\ UNCHANGED <<names, objects, daemons, tries, server, uMq, shown, ghosts>>

\* The alert thread takes an alert, and the dashboard shows it.
ShowAlert(u) ==
  /\ upc[u] = "run"
  /\ uMq[u] # None
  /\ queue[uMq[u]] # <<>>
  /\ shown' = [shown EXCEPT ![u] = @ \cup {Head(queue[uMq[u]])}]
  /\ queue' = [queue EXCEPT ![uMq[u]] = Tail(@)]
  /\ UNCHANGED <<names, sem, daemons, upc, tries, server, uMq, uShm, ghosts>>

\* Fault-seeded variant: the UI cleans up the queue on its way out.
EofUnlinking(u) ==
  /\ upc[u] = "run"
  /\ ~Alive(server[u])
  /\ mqName' = None
  /\ GotoU(u, IF uMq[u] = None THEN "gone" ELSE "leaving")
  /\ UNCHANGED <<path, shmName, objects, daemons, tries, server, uMq, uShm, shown, ghosts>>

\* End of file on the socket ends the main loop; with an alert thread inside
\* mq_receive, main() waits for that.
Eof(u) ==
  /\ upc[u] = "run"
  /\ ~Alive(server[u])
  /\ IF uMq[u] = None THEN EndU(u)
     ELSE GotoU(u, "leaving") /\ UNCHANGED <<tries, server, uMq, uShm, shown>>
  /\ UNCHANGED <<names, objects, daemons, ghosts>>

\* The next alert, a later daemon's perhaps, ends that wait, and is shown nowhere.
SwallowAlert(u) ==
  /\ upc[u] = "leaving"
  /\ queue[uMq[u]] # <<>>
  /\ queue' = [queue EXCEPT ![uMq[u]] = Tail(@)]
  /\ EndU(u)
  /\ UNCHANGED <<names, sem, daemons, ghosts>>

\* A crash or SIGKILL ends the UI at any time, in the callback of a slider too; a mere
\* signal leaves it waiting for its daemon, which is in module Panel.
UiDies(u) ==
  /\ upc[u] \notin {"off", "gone"}
  /\ Fault
  /\ MayLose(uShm[u], upc[u] = "run")
  /\ EndU(u)
  /\ UNCHANGED <<names, queue, stuck, daemons, early, overlapped, crashed>>

----------------------------------------------------------------------------
\* What a process does by itself.
DaemonStep(d) ==
  \/ OpenMq(d) \/ OpenShm(d) \/ WriteSettings(d) \/ Accept(d) \/ LoseClient(d)
  \/ Leave(d) \/ UnlinkShm(d) \/ UnlinkMq(d) \/ Close(d)

UiStep(u) ==
  \/ Connect(u) \/ ConnectFails(u) \/ GiveUp(u) \/ UiOpenMq(u) \/ UiOpenShm(u)
  \/ ShowAlert(u) \/ Eof(u) \/ SwallowAlert(u)

Next ==
  \/ \E d \in Daemons :
       \/ DaemonStep(d)
       \/ Listen(d) \/ StartFails(d) \/ OpenMqFails(d) \/ OpenShmFails(d)
       \/ AcceptFails(d) \/ SyncHangs(d)
       \/ Signal(d) \/ RaiseAlert(d) \/ Crash(d)
  \/ \E u \in Uis : UiStep(u) \/ UiStart(u) \/ UiDies(u)

Spec == Init /\ [][Next]_vars

\* The daemons are scheduled.  Nobody has to start, stop, shake or kill anything; a
\* daemon whose UI is gone finds out, since its sensors deliver all the time.  A UI
\* has to do nothing: it may hang in connect(), or on a lost semaphore.
Fairness == \A d \in Daemons : WF_vars(DaemonStep(d))

FairSpec == Spec /\ Fairness

----------------------------------------------------------------------------
\* When no daemon is alive and none has crashed, no queue and no segment is left
\* behind, not even if two daemons have overlapped and unlinked each other's.
NothingLeft ==
  (\A d \in Daemons : ~Alive(d)) /\ ~crashed => mqName = None /\ shmName = None

\* Daemons that do not overlap keep their names: whoever opens path, queue or
\* segment of one that is up gets that daemon's own.
NamesLead ==
  ~overlapped =>
    \A d \in Daemons : Up(d) =>
      /\ path \in {d, None}
      /\ dMq[d] # None => mqName = dMq[d]
      /\ dShm[d] # None => shmName = dShm[d]

\* A UI attached to a daemon that is up shares that daemon's queue and segment, or
\* has none because it connected before the daemon had opened them: never a
\* predecessor's.
SharesWithServer ==
  ~overlapped =>
    \A u \in Uis : upc[u] = "run" /\ Up(server[u]) =>
      LET d == server[u] IN
      /\ dMq[d] # None => uMq[u] = dMq[d] \/ (uMq[u] = None /\ u \in early)
      /\ dShm[d] # None => uShm[u] = dShm[d] \/ (uShm[u] = None /\ u \in early)

\* What the code's comments and the documents say of that: the daemon has created
\* queue and segment by the time a UI opens them.  The code does not see to it, since
\* connect() succeeds before the daemon has come to ipc_mq_sender_open.
CreatedBeforeConnect ==
  ~overlapped =>
    \A u \in Uis : upc[u] = "run" /\ Up(server[u]) =>
      LET d == server[u] IN
      /\ dMq[d] # None => uMq[u] = dMq[d]
      /\ dShm[d] # None => uShm[u] = dShm[d]

\* What a UI shows is its own daemon's alert; an old one only where a daemon has
\* crashed and left its queue.
AlertsAreFresh ==
  ~overlapped /\ ~crashed =>
    \A u \in Uis : upc[u] = "run" /\ Up(server[u]) => shown[u] \subseteq {server[u]}

\* A daemon that is told to stop does, unless it waits in accept() and no UI connects,
\* or a process has died with the semaphore of its segment, on which its main() or
\* its shm_sync now waits.
StopIsObeyed ==
  \A d \in Daemons :
    stop[d] ~> \/ dpc[d] = "gone"
               \/ dpc[d] = "accept" /\ backlog[d] = <<>>
               \/ dpc[d] = "write" /\ dShm[d] \in lost
               \/ d \in stuck

============================================================================
