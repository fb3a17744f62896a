------------------------------ MODULE Settings ------------------------------
(***************************************************************************)
(* The panel's settings in their three places: the EEPROM, the memory of   *)
(* each process, and the shared segment through which ui_app hands the     *)
(* anomaly threshold to sensor_daemon.                                     *)
(*                                                                         *)
(* Both processes run the same code: ipc_shm_init, settings_load (which    *)
(* saves defaults over what it cannot read), eeprom_write page by page,    *)
(* and the copies under the named semaphore.  They may stop, crash at any  *)
(* step and be started again; a power cut takes both and the segment.      *)
(*                                                                         *)
(* A segment stands for the shared memory object and its semaphore, which  *)
(* are created, opened and unlinked together.  One that has been unlinked  *)
(* lives on for a process that still has it mapped.                        *)
(***************************************************************************)
EXTENDS Integers, FiniteSets

CONSTANTS
  Thresholds,        \* anomaly_threshold
  DefaultThreshold,  \* SETTINGS_DEFAULT_THRESHOLD
  Rests,             \* unit_fahrenheit, alert_muted and brightness, taken together
  DefaultRest,
  Blank,             \* what a fresh chip or zeroed memory holds: no setting
  MaxChanges,        \* bound: controls moved on the settings page
  MaxFaults,         \* bound: stops, crashes, power cuts and bus errors
  MaxSegments        \* bound: segments created

ASSUME SettingsAssumption ==
  /\ DefaultThreshold \in Thresholds
  /\ DefaultRest \in Rests
  /\ Blank \notin Thresholds \cup Rests

ASSUME BoundsAssumption ==
  MaxChanges \in Nat /\ MaxFaults \in Nat /\ MaxSegments \in Nat

Process == {"daemon", "ui"}

Segments == 1..MaxSegments

\* app_settings_t; magic says whether it is SETTINGS_MAGIC.
Image == [threshold : Thresholds \cup {Blank}, rest : Rests \cup {Blank}, magic : BOOLEAN]

Zeroed == [threshold |-> Blank, rest |-> Blank, magic |-> FALSE]

\* kDefaultSettings.
Defaults == [threshold |-> DefaultThreshold, rest |-> DefaultRest, magic |-> TRUE]

\* Where each field begins within app_settings_t, and the page that holds it.
Offset == [threshold |-> 0, rest |-> 4, magic |-> 8]

\* Fault-seeded variant: a chip with pages of four bytes.
PageOfSmall(f) == Offset[f] \div 4

PageOf(f) == Offset[f] \div 8

LastPage == PageOf("magic")

\* A process is off, in ipc_shm_init, in eeprom_read, in eeprom_write, in
\* sem_wait, in the first or second half of the copy, about to call sem_post, or
\* idle: the UI waits for the user, the daemon sleeps in shm_sync_thread.
Places == {"off", "init", "load", "save", "lock", "copy", "rest", "post", "idle"}

VARIABLES
  rom,        \* what the EEPROM holds
  shm,        \* what each segment holds
  sem,        \* the value of each segment's semaphore
  created,    \* segments created so far
  named,      \* the segment the name leads to, 0 for none
  pc,         \* each process's place
  mapped,     \* the segment each process has mapped, 0 for none
  mem,        \* its settings: settings_ in the UI; def, then s, in the daemon
  page,       \* the page eeprom_write writes next
  after,      \* the place settings_save returns to
  syncing,    \* whether shm_sync_thread runs
  threshold,  \* the detector's threshold, and last_threshold
  changes, faults,
  whole,      \* ghost: the last settings copied completely into each segment
  lost,       \* ghost: segments whose semaphore a crash has left taken
  saves,      \* ghost: the settings some eeprom_write was called with
  clash,      \* ghost: both processes were in eeprom_write during the UI's save
  kept,       \* ghost: the user's choice once saved completely, or Zeroed
  told        \* ghost: the threshold the daemon is to adopt, or Blank

rams == <<shm, sem, created, named>>
ghosts == <<whole, lost, saves, clash, kept, told>>
vars == <<rom, rams, pc, mapped, mem, page, after, syncing, threshold,
          changes, faults, ghosts>>

\* Every variable has its type.
TypeOK ==
  /\ rom \in Image
  /\ shm \in [Segments -> Image] /\ whole \in [Segments -> Image]
  /\ sem \in [Segments -> {0, 1}]
  /\ created \in 0..MaxSegments
  /\ named \in 0..created
  /\ pc \in [Process -> Places]
  /\ mapped \in [Process -> 0..created]
  /\ mem \in [Process -> Image]
  /\ page \in [Process -> 0..LastPage]
  /\ after \in [Process -> {"idle", "lock"}]
  /\ syncing \in BOOLEAN
  /\ threshold \in Thresholds
  /\ changes \in 0..MaxChanges /\ faults \in 0..MaxFaults
  /\ lost \subseteq Segments
  /\ saves \subseteq [threshold : Thresholds, rest : Rests]
  /\ clash \in BOOLEAN
  /\ kept \in Image
  /\ told \in Thresholds \cup {Blank}

\* A fresh chip, nothing running.
Init ==
  /\ rom = Zeroed
  /\ shm = [g \in Segments |-> Zeroed] /\ whole = shm
  /\ sem = [g \in Segments |-> 1]
  /\ created = 0 /\ named = 0
  /\ pc = [p \in Process |-> "off"]
  /\ mapped = [p \in Process |-> 0]
  /\ mem = [p \in Process |-> Zeroed]
  /\ page = [p \in Process |-> 0]
  /\ after = [p \in Process |-> "idle"]
  /\ syncing = FALSE
  /\ threshold = DefaultThreshold
  /\ changes = 0 /\ faults = 0
  /\ lost = {} /\ saves = {} /\ clash = FALSE
  /\ kept = Zeroed
  /\ told = Blank

Other(p) == IF p = "ui" THEN "daemon" ELSE "ui"

Alive(p) == pc[p] # "off"

Goto(p, place) == pc' = [pc EXCEPT ![p] = place]

Fault ==
  /\ faults < MaxFaults
  /\ faults' = faults + 1

----------------------------------------------------------------------------
(* Start-up: ipc_shm_init and settings_load. *)

Start(p) ==
  /\ pc[p] = "off"
  /\ Goto(p, "init")
  /\ told' = IF p = "daemon" THEN Blank ELSE told
  /\ UNCHANGED <<rom, rams, mapped, mem, page, after, syncing, threshold, changes,
                 faults, whole, lost, saves, clash, kept>>

\* Fault-seeded variant: an existing semaphore is set to 1 again.
OpenResetting ==
  /\ IF named = 0
     THEN /\ created < MaxSegments
          /\ created' = created + 1
          /\ named' = created + 1
          /\ UNCHANGED sem
     ELSE sem' = [sem EXCEPT ![named] = 1] /\ UNCHANGED <<created, named>>
  /\ UNCHANGED shm

\* With O_CREAT: a new segment is zeroed and its semaphore 1; one that a crashed
\* daemon has left keeps its content and the value of its semaphore.
OpenOrCreate ==
  /\ IF named = 0
     THEN /\ created < MaxSegments
          /\ created' = created + 1
          /\ named' = created + 1
     ELSE UNCHANGED <<created, named>>
  /\ UNCHANGED <<shm, sem>>

DaemonInit ==
  /\ pc["daemon"] = "init"
  /\ OpenOrCreate
  /\ mapped' = [mapped EXCEPT !["daemon"] = named']
  /\ Goto("daemon", "load")
  /\ UNCHANGED <<rom, mem, page, after, syncing, threshold, changes, faults, ghosts>>

\* ipc_shm_init fails: no settings are loaded, and shm_sync_thread reads nothing.
DaemonInitFails ==
  /\ pc["daemon"] = "init"
  /\ Fault
  /\ syncing' = TRUE
  /\ Goto("daemon", "idle")
  /\ UNCHANGED <<rom, rams, mapped, mem, page, after, threshold, changes, ghosts>>

\* Without O_CREAT: the UI goes on without a segment when there is none.
UiInit ==
  /\ pc["ui"] = "init"
  /\ mapped' = [mapped EXCEPT !["ui"] = named]
  /\ Goto("ui", "load")
  /\ UNCHANGED <<rom, rams, mem, page, after, syncing, threshold, changes, faults, ghosts>>

\* The mapping fails.
UiInitFails ==
  /\ pc["ui"] = "init"
  /\ Fault
  /\ Goto("ui", "load")
  /\ UNCHANGED <<rom, rams, mapped, mem, page, after, syncing, threshold, changes, ghosts>>

\* Where settings_load returns to: the daemon publishes what it has loaded.
AfterLoad(p) == IF p = "daemon" THEN "lock" ELSE "idle"

\* eeprom_write is called with the settings s.
BeginSave(p, s, return) ==
  /\ mem' = [mem EXCEPT ![p] = s]
  /\ page' = [page EXCEPT ![p] = 0]
  /\ after' = [after EXCEPT ![p] = return]
  /\ saves' = saves \cup {[threshold |-> s.threshold, rest |-> s.rest]}
  /\ Goto(p, "save")

\* Fault-seeded variant: the daemon saves its defaults without looking.
LoadIgnoring(p) ==
  /\ pc[p] = "load"
  /\ IF rom.magic /\ p = "ui"
     THEN /\ mem' = [mem EXCEPT ![p] = rom]
          /\ Goto(p, AfterLoad(p))
          /\ UNCHANGED <<page, after, saves>>
     ELSE BeginSave(p, Defaults, AfterLoad(p))
  /\ UNCHANGED <<rom, rams, mapped, syncing, threshold, changes, faults,
                 whole, lost, clash, kept, told>>

\* Fault-seeded variant: the magic number is not looked at.
LoadUnchecked(p) ==
  /\ pc[p] = "load"
  /\ mem' = [mem EXCEPT ![p] = rom]
  /\ Goto(p, AfterLoad(p))
  /\ UNCHANGED <<rom, rams, mapped, page, after, syncing, threshold, changes, faults, ghosts>>

\* settings_load reads the EEPROM; without the magic number it takes and saves
\* the defaults.
Load(p) ==
  /\ pc[p] = "load"
  /\ IF rom.magic
     THEN /\ mem' = [mem EXCEPT ![p] = rom]
          /\ Goto(p, AfterLoad(p))
          /\ UNCHANGED <<page, after, saves>>
     ELSE BeginSave(p, Defaults, AfterLoad(p))
  /\ UNCHANGED <<rom, rams, mapped, syncing, threshold, changes, faults,
                 whole, lost, clash, kept, told>>

\* A failed read is taken for a missing magic number: the defaults overwrite
\* whatever the EEPROM holds.
LoadFails(p) ==
  /\ pc[p] = "load"
  /\ Fault
  /\ BeginSave(p, Defaults, AfterLoad(p))
  /\ kept' = Zeroed
  /\ UNCHANGED <<rom, rams, mapped, syncing, threshold, changes, whole, lost, clash, told>>

----------------------------------------------------------------------------
(* eeprom_write. *)

\* One page: write(), then 5 ms of waiting.
SavePage(p) ==
  /\ pc[p] = "save"
  /\ rom' = [f \in DOMAIN rom |-> IF PageOf(f) = page[p] THEN mem[p][f] ELSE rom[f]]
  /\ clash' = (clash \/ pc[Other(p)] = "save")
  /\ IF page[p] < LastPage
     THEN /\ page' = [page EXCEPT ![p] = @ + 1]
          /\ UNCHANGED <<pc, kept>>
     ELSE /\ Goto(p, after[p])
          /\ kept' = IF p = "ui" /\ ~clash' THEN mem["ui"] ELSE kept
          /\ page' = [page EXCEPT ![p] = 0]
  /\ UNCHANGED <<rams, mapped, mem, after, syncing, threshold, changes, faults,
                 whole, lost, saves, told>>

\* write() fails: the rest is not written, and no caller looks at the result.
SaveFails(p) ==
  /\ pc[p] = "save"
  /\ Fault
  /\ Goto(p, after[p])
  /\ page' = [page EXCEPT ![p] = 0]
  /\ UNCHANGED <<rom, rams, mapped, mem, after, syncing, threshold, changes, ghosts>>

----------------------------------------------------------------------------
(* The settings page. *)

\* OnBrightnessChanged, OnUnitChanged and OnMuteChanged save; OnThresholdChanged
\* then writes the segment, if there is one.
Change(s, return) ==
  /\ pc["ui"] = "idle"
  /\ changes < MaxChanges
  /\ changes' = changes + 1
  /\ BeginSave("ui", s, return)
  /\ clash' = FALSE
  /\ kept' = Zeroed
  /\ UNCHANGED <<rom, rams, mapped, syncing, threshold, faults, whole, lost, told>>

ChangeRest == \E r \in Rests : Change([mem["ui"] EXCEPT !.rest = r], "idle")

ChangeThreshold ==
  \E t \in Thresholds :
    Change([mem["ui"] EXCEPT !.threshold = t],
           IF mapped["ui"] = 0 THEN "idle" ELSE "lock")

----------------------------------------------------------------------------
(* The segment, under its semaphore. *)

\* The UI and the starting daemon write, shm_sync_thread reads.
Reads(p) == p = "daemon" /\ syncing

\* shm_sync_thread wakes up; without a segment it does nothing.
Poll ==
  /\ Reads("daemon")
  /\ pc["daemon"] = "idle"
  /\ mapped["daemon"] # 0
  /\ Goto("daemon", "lock")
  /\ UNCHANGED <<rom, rams, mapped, mem, page, after, syncing, threshold, changes,
                 faults, ghosts>>

\* Fault-seeded variant: sem_wait returns early and nobody looks at its result.
AcquireAnyhow(p) ==
  /\ pc[p] = "lock"
  /\ sem' = [sem EXCEPT ![mapped[p]] = 0]
  /\ Goto(p, "copy")
  /\ UNCHANGED <<rom, shm, created, named, mapped, mem, page, after, syncing,
                 threshold, changes, faults, ghosts>>

\* sem_wait.
Acquire(p) ==
  /\ pc[p] = "lock"
  /\ sem[mapped[p]] = 1
  /\ sem' = [sem EXCEPT ![mapped[p]] = 0]
  /\ Goto(p, "copy")
  /\ UNCHANGED <<rom, shm, created, named, mapped, mem, page, after, syncing,
                 threshold, changes, faults, ghosts>>

\* memcpy of the fields in F, in the direction p copies.
Transfer(p, F) ==
  LET g == mapped[p]
      Overlay(old, new) == [f \in DOMAIN old |-> IF f \in F THEN new[f] ELSE old[f]]
  IN IF Reads(p)
     THEN mem' = [mem EXCEPT ![p] = Overlay(mem[p], shm[g])] /\ UNCHANGED shm
     ELSE shm' = [shm EXCEPT ![g] = Overlay(shm[g], mem[p])] /\ UNCHANGED mem

CopyThreshold(p) ==
  /\ pc[p] = "copy"
  /\ Transfer(p, {"threshold"})
  /\ Goto(p, "rest")
  /\ UNCHANGED <<rom, sem, created, named, mapped, page, after, syncing, threshold,
                 changes, faults, ghosts>>

CopyRest(p) ==
  /\ pc[p] = "rest"
  /\ Transfer(p, {"rest", "magic"})
  /\ Goto(p, "post")
  /\ whole' = IF Reads(p) THEN whole ELSE [whole EXCEPT ![mapped[p]] = mem[p]]
  /\ UNCHANGED <<rom, sem, created, named, mapped, page, after, syncing, threshold,
                 changes, faults, lost, saves, clash, kept, told>>

\* sem_post at the end of ipc_shm_write_settings.  Ghost: from here on the daemon
\* is to adopt this threshold, if it will poll this segment.
PostWrite(p) ==
  /\ pc[p] = "post"
  /\ ~Reads(p)
  /\ sem' = [sem EXCEPT ![mapped[p]] = 1]
  /\ told' = IF p = "daemon" \/ (syncing /\ mapped["daemon"] = mapped["ui"])
             THEN mem[p].threshold ELSE Blank
  /\ IF p = "daemon"
     THEN syncing' = TRUE /\ mem' = [mem EXCEPT !["daemon"] = Zeroed]
     ELSE UNCHANGED <<syncing, mem>>
  /\ Goto(p, "idle")
  /\ UNCHANGED <<rom, shm, created, named, mapped, page, after, threshold, changes,
                 faults, whole, lost, saves, clash, kept>>

\* Fault-seeded variant: only the first change is noticed.
AdoptOnce ==
  threshold' = IF mem["daemon"].magic /\ threshold = DefaultThreshold
               THEN mem["daemon"].threshold ELSE threshold

\* A valid threshold other than the last one goes to algo_anomaly_set_threshold.
Adopt ==
  threshold' = IF mem["daemon"].magic THEN mem["daemon"].threshold ELSE threshold

\* Fault-seeded variant: the reader returns without sem_post when nothing changed.
PostReadForgetting ==
  /\ pc["daemon"] = "post"
  /\ Reads("daemon")
  /\ sem' = IF mem["daemon"].threshold = threshold THEN sem
            ELSE [sem EXCEPT ![mapped["daemon"]] = 1]
  /\ Adopt
  /\ Goto("daemon", "idle")
  /\ UNCHANGED <<rom, shm, created, named, mapped, mem, page, after, syncing, changes,
                 faults, ghosts>>

\* sem_post at the end of ipc_shm_read_settings, and what shm_sync_thread does
\* with the copy.
PostRead ==
  /\ pc["daemon"] = "post"
  /\ Reads("daemon")
  /\ sem' = [sem EXCEPT ![mapped["daemon"]] = 1]
  /\ Adopt
  /\ Goto("daemon", "idle")
  /\ UNCHANGED <<rom, shm, created, named, mapped, mem, page, after, syncing, changes,
                 faults, ghosts>>

----------------------------------------------------------------------------
(* Stops, crashes and power cuts. *)

Inside(p) == pc[p] \in {"copy", "rest", "post"}

\* What becomes of the processes in S once they are gone.
Gone(S) ==
  /\ pc' = [p \in Process |-> IF p \in S THEN "off" ELSE pc[p]]
  /\ mapped' = [p \in Process |-> IF p \in S THEN 0 ELSE mapped[p]]
  /\ mem' = [p \in Process |-> IF p \in S THEN Zeroed ELSE mem[p]]
  /\ syncing' = (syncing /\ "daemon" \notin S)
  /\ threshold' = IF "daemon" \in S THEN DefaultThreshold ELSE threshold
  /\ page' = [p \in Process |-> IF p \in S THEN 0 ELSE page[p]]
  /\ after' = [p \in Process |-> IF p \in S THEN "idle" ELSE after[p]]
  /\ told' = Blank
  /\ UNCHANGED <<changes, clash, saves>>

\* The daemon's teardown, after shm_sync_thread has been joined: ipc_shm_close
\* and ipc_shm_unlink.
DaemonStops ==
  /\ pc["daemon"] = "idle"
  /\ Fault
  /\ Gone({"daemon"})
  /\ named' = 0
  /\ UNCHANGED <<rom, shm, sem, created, whole, lost, kept>>

\* The UI leaves its main loop: ipc_shm_close.
UiStops ==
  /\ pc["ui"] = "idle"
  /\ Fault
  /\ Gone({"ui"})
  /\ UNCHANGED <<rom, rams, whole, lost, kept>>

\* A crash or SIGKILL: a semaphore the process holds stays taken, and an
\* eeprom_write ends after whole pages.
Crash(p) ==
  /\ Alive(p)
  /\ Fault
  /\ Gone({p})
  /\ lost' = IF Inside(p) THEN lost \cup {mapped[p]} ELSE lost
  /\ UNCHANGED <<rom, rams, whole, kept>>

\* Everything but the EEPROM is lost.
PowerCut ==
  /\ \E p \in Process : Alive(p)
  /\ Fault
  /\ Gone(Process)
  /\ shm' = [g \in Segments |-> Zeroed] /\ whole' = shm'
  /\ sem' = [g \in Segments |-> 1]
  /\ created' = 0 /\ named' = 0
  /\ lost' = {}
  /\ UNCHANGED <<rom, kept>>

----------------------------------------------------------------------------
\* The steps the two processes take by themselves.
StepOf(p) ==
  \/ Load(p) \/ SavePage(p) \/ Acquire(p)
  \/ CopyThreshold(p) \/ CopyRest(p) \/ PostWrite(p)

Step ==
  \/ DaemonInit \/ UiInit \/ Poll \/ PostRead
  \/ \E p \in Process : StepOf(p)

Environment ==
  \/ \E p \in Process : Start(p) \/ LoadFails(p) \/ SaveFails(p) \/ Crash(p)
  \/ DaemonInitFails \/ UiInitFails \/ DaemonStops \/ UiStops \/ PowerCut
  \/ ChangeRest \/ ChangeThreshold

Next == Step \/ Environment

Spec == Init /\ [][Next]_vars

\* Both processes are scheduled.  A waiter in sem_wait gets its turn although the
\* other process takes the semaphore again and again: it is held for a memcpy and
\* then free for the second shm_sync_thread sleeps.
Fairness ==
  /\ WF_vars(DaemonInit) /\ WF_vars(UiInit) /\ WF_vars(Poll) /\ WF_vars(PostRead)
  /\ \A p \in Process : WF_vars(StepOf(p)) /\ SF_vars(Acquire(p))

FairSpec == Spec /\ Fairness

----------------------------------------------------------------------------
\* At most one process is inside the copy of a segment, and a taken semaphore is
\* held by a live process or was left by one that crashed inside: a daemon that
\* reopens an old segment must not free a semaphore the UI holds.
Exclusion ==
  \A g \in Segments :
    LET holders == {p \in Process : Inside(p) /\ mapped[p] = g} IN
    /\ Cardinality(holders) <= 1
    /\ sem[g] = 0 <=> holders # {} \/ g \in lost
    /\ holders # {} => g \notin lost

\* What shm_sync_thread has read is what one writer had written last and as a
\* whole, although the writer may crash between the halves of its copy.
ReadsAreWhole ==
  pc["daemon"] = "post" /\ syncing => mem["daemon"] = whole[mapped["daemon"]]

\* Under a valid magic number the EEPROM holds settings that were saved together,
\* whichever pages of whichever process's saves were cut off or interleaved: the
\* fields share a page, and the magic number is written after them.
EepromIsWhole ==
  rom.magic => [threshold |-> rom.threshold, rest |-> rom.rest] \in saves

\* A choice that the UI has saved without error, and not at the same time as the
\* other process, survives every stop, crash, restart and power cut, until the
\* user changes it again or an eeprom_read fails.
SavedChoiceSurvives == kept # Zeroed => rom = kept

\* The threshold written last into the segment the daemon polls becomes the
\* detector's, unless another one follows or a process ends.
ThresholdReachesDetector ==
  \A t \in Thresholds : told = t ~> (threshold = t \/ told # t)

\* A callback of the settings page returns to LVGL's loop: the UI never waits for
\* ever for the semaphore, unless a crash has taken it along.
CallbackReturns ==
  (pc["ui"] \in {"save", "lock"}) ~>
    (pc["ui"] \in {"idle", "off"} \/ mapped["ui"] \in lost)

============================================================================
