# A formal model of sensefusion-panel

TLA+ specifications of the sensor panel: what its two processes do, checked with
TLC on small instances, and theorems about them proved with TLAPS for every
value of the constants. Paths and line numbers refer to the repository.

## 1. The system

Two processes on one board. `sensor_daemon` reads five sensors, runs two
algorithms, and writes to SQLite and MQTT; `ui_app` shows everything on an LVGL
dashboard. They are joined by a Unix stream socket (sensor frames), a POSIX
message queue (alerts) and a shared memory segment with a semaphore (settings).
Inside each process events travel through *embedmq*, a bounded queue with one
consumer thread (a submodule; only its use is in the repository).

### Inventory

| Component | State | Operations | Interacts with | Hard parts | Correct when |
|---|---|---|---|---|---|
| `sensor_daemon.cpp` main | `g_running`, open resources | start-up, wait, join, teardown, signal | all daemon threads | the consumer is not joined before the resources go | no thread runs into the teardown; it ends |
| `daemon/daemon_handlers.cpp` | `s_sock_fd`, `s_mq` | seven handlers, `on_ui_disconnected` | socket, alert queue, algorithms, db, mqtt | early return, blocking `send`, close under a sender | one event lost per disconnection at most |
| `sensors/*` | last value (sr501) | one loop each | embedmq | stop flag read once per turn | no reading after the join |
| `algo/anomaly.cpp` | ring of 8, index, count, atomic threshold | on sample, set threshold | consumer, shm_sync | wrap-around, cold start, self-damping | alerts are those of the sliding mean |
| `algo/comfort_index.cpp` | none | on dht11 | consumer | boundaries of the classification | one index per reading |
| `ipc/ipc_socket.c` | descriptors | listen, accept, connect, send, recv | both processes | partial transfers, peer gone | whole frames in order |
| `ipc/ipc_mq.c` | queue of 8 | open, send, receive, close, unlink | both processes | non-blocking send, blocking receive | a handler never waits for the UI |
| `ipc/ipc_shm.c` | segment, semaphore | init, read, write, close, unlink | dashboard, shm_sync | crash inside the semaphore, two initial writers | the threshold converges |
| `storage/settings.cpp`, `eeprom.c` | EEPROM image | load, save | both processes | page-wise writes, crash between pages | a valid magic means whole settings |
| `storage/db.cpp` | `s_db` | init, log, cleanup, count, deinit | consumer, main, UI | close under an INSERT, two processes | nothing lost but what is refused |
| `network/mqtt_client.cpp` | `s_mosq` | init, publish, deinit | consumer, main | as the database | order per topic |
| `ui_app.cpp` main | `g_running` | start-up with retries, tick, joins | all UI threads | joins on threads that block | it ends when told |
| `ui/ui_ipc.cpp` | descriptors | two receivers | socket, alert queue, embedmq | blocking calls that ignore the stop flag | end of file stops the UI |
| `ui/ui_handlers.cpp`, `ui/ui_dashboard.cpp` | cache, dirty flags, banner, settings | update, tick, callbacks | consumer, main, LVGL's timers | flags cleared by a reader while a writer sets them; animations overtaken by news | no update lost, a consistent picture, a banner that goes |
| `input/*` | device | two loops | embedmq | blocking `read` | events in order |
| `sim/`, `fonts/`, `third_party/`, `tools/` | none of the panel's | none | the build | none | not modelled: drivers, generated and vendored code, scripts |

## 2. Modules

```
Ipc            socket, alert queue, events            (shared by both processes)
 |- Daemon     sensor_daemon after start-up
 |- UiApp      ui_app after start-up
      Panel    both composed, signals, deaths, properties, fairness
       |- implements ReadingFlow   (the abstract promise)
       |- MCPanel                  (instances for TLC)
       |- PanelProofs <- PanelSafetyProofs, PanelOrderProofs   (theorems)
Attach         start-up, restart and teardown of both, the names they meet under
 |- MCAttach, AttachProofs (theorems)
IpcSocket      the byte loops of the socket
 |- IpcSocketProofs (theorems)
 |- implements FrameChannel        (the channel of whole frames Ipc relies on)
Settings       EEPROM, memory, shared segment and semaphore, both processes
 |- MCSettings, SettingsProofs (theorems)
Dashboard      banner, labels, touch, tabs: tick() and LVGL's timers
 |- MCDashboard, DashboardProofs (theorems)
Anomaly        the detector against its definition over the stream
 |- MCAnomaly, AnomalyProofs (theorems)
```

The modules meet at these seams: `Panel` begins where `Attach` has both processes in
`run`; `Ipc`'s `frames` is the `channel` of `FrameChannel`, which `IpcSocket`
implements; a change of threshold that `Settings` brings to `Adopt` is
`SetThreshold` of `Anomaly`; the values and flags `tick()` copies in `UiApp` are
those `Dashboard` renders.

**Ipc.** `frames` and `alerts` are the contents of socket and alert queue. The
daemon's end of the connection is `open`, `closing` (closed by one thread while
another is inside `send`: the descriptor is gone, the connection lives until that
call returns) or `closed`. A payload is the number of the reading it stems from;
`Event` carries a kind and that number, which is what loss, order and
duplication can tell apart. `Post` is a queue that refuses when full; no caller
looks at the result. `sem` is the semaphore of the settings: `free`, or taken by
`shm_sync` or by the dashboard, and then for ever if its holder dies.

**Daemon.** `loop[w]` is the place of each thread that `main()` joins (`test` of
`g_running`, `body`, `done`); `main` walks through `loop`, `join`, the releases
in source order (`db`, `mqtt`, `shm`, `mq`), `client` (`close(client_fd)`), `bus`
(`embedmq_destroy`) to `exited`. `step` is the consumer's place in a handler,
split wherever another thread can get in between: the check of `s_sock_fd`, the
`send`, the algorithm, the alert, and entry into and return from `log_row` and
`publish`, each of which looks at its handle on entry only. A turn of `shm_sync` is
`SemWait` and `SemPost`, between which it is inside `ipc_shm_read_settings`; without a
segment it is `LoopSkip`. Ghosts: `rows` (what
database and MQTT have received), `dropped`, `cutShort`.

**UiApp.** Receivers and input threads as places; `cache`, `dirty`, `local` are
`SensorCache`, its flags and `tick()`'s copy. Copy and clear is one step, because
it holds the mutex; rendering is another. `shown` is what has reached the screen.
`save` is the callback of the threshold slider in `ipc_shm_write_settings`
(`UiSemWait`, `UiSemPost`), entered after a tick with news (`TickRender`) or without
(`MoveSlider`).

**Panel.** Interleaves all threads of both processes; `Fault` bounds signals and
deaths. **ReadingFlow** says what the whole promises: each outlet receives a
selection of the readings of each kind, in order, each at most once, none before
it was taken. `Panel` implements it under the mapping `delivered <- rows, shown`.

**Anomaly.** The ring buffer as in the code, over integers with the mean
multiplied out. Floating-point rounding is not modelled. Ghosts keep the whole
stream and the threshold in force at each sample, so that the result can be
compared with a definition that has no ring.

**Attach.** Each member of `Daemons` and `Uis` is one run of a program; a later one is
a restart and may overlap an earlier one. `path`, `mqName` and `shmName` say whose
object a name leads to, `dMq`, `uMq`, ... what a process has open: an object that is
unlinked lives on for those. `dpc` and `upc` walk through the two `main()`s:
`Listen` is `ipc_socket_server_init` (which unlinks the old path), `OpenMq` and
`OpenShm` reuse what a name leads to, `WriteSettings` needs the segment's semaphore,
`Accept` takes a connection that may long have been made, `UnlinkShm` and `UnlinkMq` remove whatever the names lead to.
`leaving` is a UI whose main thread waits for its alert thread. `lost` holds the segments
whose semaphore a process has taken and died with (`MayLose`: a daemon or a UI that uses
its segment), `stuck` the daemons whose `shm_sync` waits for such a semaphore and keeps
`Leave` from joining it (`SyncHangs`).

**IpcSocket.** Bytes are numbered through the stream; `SendSome(k)` and `ReadSome(k)` are
one turn of the loops with any admissible result of `send` and `read`, `SendFails`
and `ReadFails` every error, `EINTR` included, after which the functions give up.

**Settings.** `rom`, `shm` and `mem` hold `app_settings_t` in its three places, its fields
grouped by what can come apart: the threshold, the rest of the user's fields, the
magic number. `SavePage` writes the fields of one page, `CopyThreshold` and
`CopyRest` are the two halves of a `memcpy` that the semaphore has to protect. A
crash leaves a semaphore as it is, a power cut takes all but the EEPROM. Ghosts:
`whole` and `saves` (what has been written in one piece), `kept` (the choice that
must survive), `told` (the threshold that must arrive), `lost`, `clash`.

**Dashboard.** `Tick` is one call of `tick()` up to `lv_timer_handler`; what that runs is
`ValueAnimEnds`, `SlideEnds` and `ReadTouch`, in any order and number. Of LVGL it is
assumed that starting an animation replaces one of the same object and attribute
without calling its ready callback, and that a press which is gone at the next read
is a click. The temperature stands for the four animated labels.

Definitions named as fault-seeded variants (`PostOverrun`, `JoinShmSyncOnly`, ...)
are not part of any specification: each stands beside the definition it distorts
and shows that a property notices that fault.

## 3. What is checked

| Run | Instance | Properties | Shows |
|---|---|---|---|
| `panel_climate` | dht11 with comfort, 2 readings, 2 faults, queues of 2 | `TypeOK`, `DisconnectCostsOneEvent`, `NoReadingLost`, `ComfortNotAhead`, `FlowSpec` | only overflow, a refused row and one disconnection lose events; the picture is consistent; refinement |
| `panel_alerts` | adxl345 with anomaly, alert queue empty or full at the start, 1 reading, 1 fault | `FreshFlowSpec`, `NewsReachesScreen`, `HandlersEnd` | both channels keep order; no update is lost between tick and consumer; no handler waits for who reads the alerts |
| `panel_stop` | sr04, shm_sync, slider, remote control, segment, MQTT, 1 reading, 1 fault | `FlowSpec`, `QuietTeardown`, `UiGoneStopsDaemon`, `DaemonGoneStopsUi` | MQTT gets what the database gets, once; the teardown waits for every joined thread; either side's end reaches the other, but for a semaphore the dead took along |
| `anomaly` | ring of 3, 7 samples of {0, 3, 6}, thresholds {1, 2} | `TypeOK`, `RingHoldsWindow`, `AlertsExact`, `OneAlertPerShock` | alerts are exactly the defined ones |
| `settings` | 2 thresholds, 2 values for the rest, 2 changes, 2 faults, 2 segments | `TypeOK`, `Exclusion`, `ReadsAreWhole`, `EepromIsWhole`, `SavedChoiceSurvives`, `ThresholdReachesDetector`, `CallbackReturns` | no torn settings, no lost choice; a new threshold arrives; no callback hangs unless a crash took the semaphore along |
| `socket` | frames of 4 bytes, buffers of 6, 6 frames | `TypeOK`, `FramesWhole`, `ChannelSpec`, `FrameGetsThrough`, `SendReturns` | the loops make frames of a stream; refinement of `FrameChannel` |
| `attach` | 2 daemons, 1 UI, 2 attempts, queue and backlog of 1, 1 fault | `TypeOK`, `NothingLeft`, `NamesLead`, `SharesWithServer`, `AlertsAreFresh`, `StopIsObeyed` | who shares which objects through restart, overlap, crash and teardown |
| `dashboard` | 3 temperatures, banner of 3 ticks, 3 tabs, events without limit | `TypeOK`, `BannerMatchesTimer`, `BannerLeaves`, `LabelCatchesUp`, `PressEnds` | the banner goes, labels catch up, no press sticks |
| `claim_stop` | as `panel_alerts`, the queue empty at the start | `ReceiverObeysStop` violated | see findings |
| `claim_mqclose` | the same | `CloseUnblocksAlerts` violated | see findings |
| `claim_serialdb` | the same | `DatabaseIsSerial` violated | see findings |
| `claim_created` | as `attach`, without faults | `CreatedBeforeConnect` violated | see findings |

**Bounds.** `MaxReadings`, `MaxInputs`, `MaxFaults`, `MaxSamples` bound counters in
guards. Two readings of one sensor give order, supersession, overflow of a queue
of one or two places and, with comfort or anomaly, a second generation of events
in the same queue. `MayTake` lets a sensor take one reading beyond the bound when
the UI is gone and the queue is idle: the daemon learns of the UI's end only by
sending, and the bound must not hide that. Two faults are enough for a signal to
one process while the other dies. A ring of three and seven samples wrap around
twice and leave room for a full window before a shock and its echo after it;
samples of 6 over rest at 0 with threshold 1 exceed, with threshold 2 just reach,
the point where an echo begins. Frames of four
bytes over buffers of six let a send fill the buffers in the middle of a frame and a
read take the end of one; a read never crosses a frame's end, since it asks for the
rest only. In `settings` two faults are a crash and the power
cut after it, or a failed read and a crash in the save it causes; two segments are a
daemon's and its successor's. Settings in flight are told apart by two thresholds
and two values for the rest: a mixture of two saves is neither. In `attach` one UI
meets a daemon, its successor, or both overlapping, with one crash or failing call;
the two daemons are a crashed one and the one started after it, or one that is told
to stop and one started too early. The safety properties hold for two UIs,
and for two faults, as well; liveness is out of reach there. In `panel_alerts` an alert left by a
crashed daemon may fill the queue (`RestartSpec`; `OldAlert` has the number 0): once the UI
is dead nobody empties it, and the next alert finds it full. `FreshFlowSpec` is `FlowSpec`
with old alerts on the screen left out. In `panel_stop` one sensor is enough to
tell the daemon of the UI's end; it has a second reading through `MayTake`, so that MQTT
could receive one twice or out of order. In `dashboard` nothing but the banner's time is bounded: three ticks leave room for an alert while the banner
slides in, is up, and slides out; three temperatures for one that overtakes an
animation between two others. Deadlock is not checked where processes end; the
dashboard's run checks it.

**Fairness.** In `Panel`, weak fairness for each thread that can take a step: all are ordinary
threads of a fair scheduler, and none can be disabled and enabled again by
another for ever while it waits, with two exceptions that are given strong fairness. A
waiter gets the semaphore, which is held for a `memcpy` and then free while `shm_sync`
sleeps for a second. And `tick()` gets to copy the cache however often the slider is moved,
since every turn of the main loop begins with it. Nothing is assumed of the environment: no signal,
no death, no input event, no move of the slider has to happen, and an input thread may stay in `read()`
for ever. In particular `DaemonGoneStopsUi` promises the end of the UI *process*
only where no thread is blocked in `mq_receive` or in `read()` (see the findings).

`Settings` and `Attach` assume the same of the steps the processes take by
themselves; starting, stopping, changing a control, crashing and failing is never
assumed. In `Attach` a UI has to do nothing: it may hang in `connect()` or in the
slider's callback. `Acquire` of the semaphore is strongly fair: its holder releases it after a
`memcpy` and the polling thread then sleeps for a second, so that a waiter is not
overtaken for ever. In `IpcSocket` the kernel moves bytes when it can, and a send to
a closed peer fails. In `Dashboard` `main()` goes on ticking and LVGL's periodic timers
are due again and again. Its liveness properties are conditions on the future
(once no alert comes any more, ...), because events are unlimited.

### What the properties concede

Where the code does less than one might expect the property names the exception instead
of hiding it; where a document promises what is excepted, that is a divergence and listed
below:

* `SharesWithServer` excepts a UI that connected before its daemon had opened queue
  and segment: it may be left without them for its whole life (finding 4).
* `AlertsAreFresh` holds only while no daemon has crashed: a new daemon reopens a left
  queue with its alerts. (Unlinking the queue first, as is done with the socket path,
  would break `SharesWithServer`; this is its fault-seeded variant.)
* `NamesLead` and `SharesWithServer` say nothing of daemons that overlap: the older one's
  teardown then unlinks the younger one's names.
* `StopIsObeyed` excepts a daemon that waits in `accept`, which `signal` restarts, and one
  whose start-up or `shm_sync` waits for a semaphore a dead process has taken.
* `UiGoneStopsDaemon` and `DaemonGoneStopsUi` except the survivor of a process that died
  between `sem_wait` and `sem_post`: `main()` joins `shm_sync`, or is itself in the
  slider's callback. `DaemonGoneStopsUi` promises the end of the process only where
  the input threads have ended and there is no alert queue.
* No property says that a UI gets to its main loop: a further one blocks in `connect()`
  once a connection waits in the backlog, because `accept` is called once (`Connect`).
* `SavedChoiceSurvives` excepts a failing `eeprom_read`, after which `settings_load`
  overwrites valid settings with defaults, and a UI that saves while the daemon does.
* `CallbackReturns` excepts a semaphore taken along by a crash: the callback, and with
  it the dashboard, then waits for ever, and so does the next daemon's start-up.
* `LabelCatchesUp` excepts a first reading of 0.
* `SendReturns` excepts a receiver that has given up reading without closing.

### Findings

1. `claim_stop`: the socket receiver (`ui/ui_ipc.cpp:30`) never reads `g_running`.
   After SIGTERM `ui_app` hangs in `pthread_join` until the daemon goes, while
   `docs/cpp-migration.md:541` has the threads leave through `g_running`.
2. `claim_mqclose`: `ipc_mq_close` in `ui_app.cpp:130` does not unblock a
   `mq_receive` in progress, as its comment says.
3. `claim_serialdb`: `db_deinit` (`sensor_daemon.cpp:153`) runs before the consumer
   is stopped, so that the database is not used serially, as `docs/DESIGN.md:116`
   says. In the model the outcome of such a call is undefined.
4. `claim_created`: a UI that connects right after the daemon has begun to listen looks for
   alert queue and segment before the daemon has created them, does not try again, and
   runs without. `ui_app.cpp:88` says the daemon has created the segment, `ipc/ipc_mq.c:40` that
   the receiver waits for it to create the queue; see also `docs/DESIGN.md:241` and
   the repository's `README.md:99`.

Three more divergences are in the model without a run of their own, since the
definitions named show them as they stand:

* `InputTest`, `InputEvent`: `input_touch_thread` and `input_ir_thread` look at `g_running` only
  between two blocking `read`s. After SIGTERM `ui_app` waits for the user's next touch or
  key, while `docs/cpp-migration.md:443` has these threads leave through `g_running`.
* `LoadFails` (`Settings`): `settings_load` (`storage/settings.cpp:16`) takes a failed
  `eeprom_read` for a missing magic number and saves the defaults over valid settings. By
  `docs/DESIGN.md:141` that is for the random content of the first start, and by `:143` a
  failed read is met by reopening the device.
* `TicksLeft` (`Dashboard`): `tick()` learns only that touch and alert have both come. A touch
  that came first, with no banner to dismiss, has the new banner slide out at once
  (`ui/ui_dashboard.cpp:972`), while `docs/DESIGN.md:269` gives it 5 seconds unless a touch
  dismisses it.

## 4. What is proved

Every safety property the passing runs check, the type invariants included, and both
refinements (`FreshFlowSpec` is checked only: it is `FlowSpec` from another initial state). All proofs hold for
every set of sensors, devices, processes and data and for every capacity and bound that
the named assumptions allow. The assumptions give the constants their types: counts and
bounds are natural numbers, lengths and capacities positive ones, magnitudes and thresholds
natural numbers, sensors, devices and threads among those the code has, defaults among the
values, and blanks and placeholders not. Each inductive invariant
has also been checked with TLC on the instance of its run.

**`Panel`.** `StepIsOneProcess` splits a step into one process's action and an unchanged
other process; a lemma per group of actions does the rest.

* `PanelProofs!PanelTypeCorrect`: `[]TypeOK`, inductive by itself.
* `PanelSafetyProofs!DisconnectCosts`: `[]DisconnectCostsOneEvent`. The bound alone is
  not inductive: `DisconnectInv` adds that nothing has been cut short while
  `s_sock_fd` is set and that only a handler that has seen it set can be inside
  `send`. `Disconnect` is then the one step that adds to an empty set.
* `PanelSafetyProofs!TeardownIsQuiet`: `QuietTeardown`, from `JoinedInv`: after the
  join every thread's place is `done`, from which it takes no step.
* `PanelSafetyProofs!ReadingsAreKept`: `[]NoReadingLost`. `ReadingInv` adds what the
  handlers' order gives: while main() has not begun its teardown the database is
  open; a handler past the database has stored its event or seen it refused; the
  dht11 handler has queued (or lost to overflow) its comfort index before it comes
  to the database. Without the last clause the step that stores a dht11 row would
  create an obligation nothing supports.
* `PanelOrderProofs!FlowCorrect`: `Spec => FlowSpec`, the refinement of `ReadingFlow`. A
  step of the panel is one of `ReadingFlow` only if what a sink or the screen receives
  is newer than what it has. `OrderInv` (`OrderInvariant`) therefore follows an event through
  every place it can be in - the daemon's queue, the handler, socket or alert queue,
  the UI's queue, the cache, `tick()`'s copy - and says that it is older than every event
  of its kind behind it. Derived events make that more than a list of places: a
  comfort index still to be computed is behind its reading (`Upcoming`), one in the queue
  is older than every reading queued with it, whatever their places, because one consumer
  handles all; and what is behind an event in a handler depends on the handler's step
  (`Unsent`, `Deriving`, `Before`).
* `PanelOrderProofs!ComfortCorrect`: `[]ComfortNotAhead`. Next to `OrderInv` it needs
  `ComfortInv`: a comfort index has in front of it, in the same queue or further on, a
  dht11 reading as late as itself (`Within`, `Reached`), and `cache`, `dirty` and `local`
  agree on what the screen will show next (`Latest`). A reading whose frame was not
  written has none in front; its comfort index is not sent either, because `s_sock_fd` is
  never set again.

**`Anomaly`.** For every length of the ring and every stream:

* `TypeCorrect`, `WindowCorrect`: index and count stay in range, and slot *j* holds the
  sample `SlotSample(j)` names, at every position of the wrap-around.
* `AlertsCorrect`: `[]AlertsExact`. The full ring's sum is the window's, because
  `SlotSample` is a bijection between slots and window (`TotalIsWindow`), and a later sample
  changes no earlier verdict (`VerdictStays`).
* `ShockCorrect`: `[]OneAlertPerShock`, from `AlertsExact`: a window with the shock in it
  sums up to the shock and HISTORY_LEN - 1 samples at rest, and misses the rest by as much
  as the shock does, divided by HISTORY_LEN.

Both need facts about sums that are inductions over data (`SumInNat`, `SumTakesOut`,
`SumReindexed`, `SumOfEqual`). They are proved on a smallest subset that would violate
them, which exists because strict inclusion among the subsets of a finite set is
well-founded (`MinimalSubset`); the folds that `MapThenSumSet` chooses from are shown to
exist (`FoldExists`) and to agree (`FoldsAgree`) first.

**`IpcSocket`.** For every size of frame and socket buffer:

* `TypeCorrect` and `FramesCorrect`: no buffer overflows, and every frame that comes out
  is the frame that went in in its turn. `FramesWhole` says nothing of bytes under way;
  `Framing` adds that returned, buffered and in-flight bytes add up to those accepted, that
  buffer and wire continue one another in the numbering of the stream, and that between
  two calls the frame is out.
* `ChannelCorrect`: `Spec => ChannelSpec`, the refinement of `FrameChannel`, from
  `Framing`: the step that completes a frame appends to the channel or takes its head, every
  other turn of the loops is a stutter. `Ipc` models the socket by this channel.

**`Settings`.** One invariant (`SettingsInvariant`) with a part for each hazard:

* `ExclusionCorrect`: `SemHeld` says which process accounts for each taken semaphore.
  `HasSegment` keeps a process from holding a segment it has not mapped; without it
  a restarted daemon would seem to hold the segment of its predecessor.
* `ReadsCorrect`: `Copied` relates a segment to its last whole write. Outside of the two
  halves of a copy, and of a crash between them, they are equal; after the first half the
  segment's threshold is already the writer's. `MemComplete` says that only complete
  settings are published, so that the magic number of `whole` means something.
* `EepromCorrect`: `Saved` says that whoever is at the page of the magic number finds a
  first page some save has written, its own or the other process's.
* `ChoiceCorrect`: `Kept` says that an undisturbed save finds its own first page, and that
  nobody saves while a choice is kept.
* `SettingsTypes`: `[]TypeOK`.

**`Attach`.** For any number of daemons and UIs (`AttachInvariant`):

* `TeardownCorrect`: `Unlinked` - without a crash, a name that leads somewhere is one that
  some daemon, at this place of its `main()`, will still unlink.
* `NamesCorrect`: while daemons do not overlap there is one (`Alone`), and the names lead
  to what it has opened until it unlinks them (`Own`).
* `SharingCorrect`: `Same` says what a UI may have opened at each place of its daemon
  on the way through start-up: until the daemon has opened its queue, whatever the
  name leads to, which is what the daemon will find. `Early` remembers who came first.
* `FreshnessCorrect`: `OwnAlerts` - without a crash every daemon has created its queue
  itself, which therefore holds only its alerts.
* `AttachTypes`: `[]TypeOK`. `Fresh` says what a process has not opened before it starts.

**`Dashboard`.** `DashboardTypes` and `BannerCorrect`: `BannerMatchesTimer` is inductive
together with `TypeOK`, for every number of tabs and ticks.

**Only model-checked:** liveness (`NewsReachesScreen`, `HandlersEnd`,
`UiGoneStopsDaemon`, `DaemonGoneStopsUi`, `ThresholdReachesDetector`, `CallbackReturns`,
`FrameGetsThrough`, `SendReturns`, `StopIsObeyed`, `BannerLeaves`,
`LabelCatchesUp`, `PressEnds`). It rests on fairness and so on ENABLED, which is out of
the prover's reach. The fairness part of `FlowSpec` and `ChannelSpec` is empty: both are
safety specifications.

## 5. What is not modelled, and the plan

Not modelled, or not further than said:

* `storage/db.cpp`: `db_cleanup_old` and `db_count` run in the UI on a handle of its own.
  They meet the daemon's inserts only in SQLite's file lock; what the daemon can see of
  that, a refused row, is a choice of `LeaveSink`.
* `algo/comfort_index.cpp`: that each dht11 reading yields one index, and when. The heat
  index is a polynomial in floating point and its levels a table of constants; a
  translation to integers would not be the code.
* `ui/ui_dashboard.cpp`: trend charts, detail layer, the unit switch, system information,
  status text. The start of sharing `y_points` between charts depends on LVGL's drawing.
* `Panel` does not start with a failed `accept`; the handlers then run as they do after a
  disconnection, which it has.
* A page torn inside the EEPROM chip, and the gap between `shm_open` and `sem_open` as
  seen by a UI that attaches in it (it goes on without a segment, which `UiInitFails`
  also gives).

The plan for what is left is the ground between the proofs and the runs:

1. The safety side of the liveness properties: invariants that name, for every place a
   thread can wait in (`send`, `sem_wait`, `pthread_join`, `mq_receive`), who will end the
   wait or which named exception applies. Fairness and ENABLED stay with TLC.
2. The seam of `Ipc` and `FrameChannel` as a theorem: `frames` takes the channel's steps.
   It needs the numbers of the frames written and read, which `Ipc` does not keep.

Left out for good: widget layout and styling, fonts, LVGL and SQLite internals,
libmosquitto's network thread, board drivers, the SDL simulator, build scripts. A
UI that is alive but stopped (SIGSTOP, a debugger) is not modelled: the daemon
would wait in `send` for as long as that lasts.
