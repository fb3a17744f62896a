--------------------------- MODULE SettingsProofs ---------------------------
(***************************************************************************)
(* The settings' places agree as module Settings says, for every set of    *)
(* settings and any number of changes, faults and segments.                *)
(***************************************************************************)
EXTENDS Settings, FiniteSetTheorems, TLAPS

\* Whoever takes or holds a semaphore has a segment mapped, and a process that
\* starts has none.
HasSegment ==
  /\ \A p \in Process :
       /\ pc[p] \in {"off", "init"} => mapped[p] = 0
       /\ pc[p] \in {"lock", "copy", "rest", "post"} => mapped[p] # 0
       /\ pc[p] = "save" /\ after[p] = "lock" => mapped[p] # 0
  /\ pc["daemon"] = "load" => mapped["daemon"] # 0

Holds(p, g) == Inside(p) /\ mapped[p] = g

\* Exclusion, said of the two processes by name.
SemHeld ==
  \A g \in Segments :
    /\ ~(Holds("daemon", g) /\ Holds("ui", g))
    /\ sem[g] = 0 <=> Holds("daemon", g) \/ Holds("ui", g) \/ g \in lost
    /\ Holds("daemon", g) \/ Holds("ui", g) => g \notin lost

Complete(s) == s.magic /\ s.threshold \in Thresholds /\ s.rest \in Rests

\* The process's memory is what goes to EEPROM or segment next.
Publishes(p) ==
  \/ pc[p] = "save"
  \/ p = "ui" /\ pc[p] = "idle"
  \/ pc[p] \in {"lock", "copy", "rest", "post"} /\ ~Reads(p)

\* Nothing incomplete is published.
MemComplete == \A p \in Process : Publishes(p) => Complete(mem[p])

HalfWritten(g) == \E p \in Process : pc[p] = "rest" /\ mapped[p] = g /\ ~Reads(p)

\* A segment holds one writer's settings, unless a writer is in the middle of its
\* copy or has died there; after its first half a copy is right so far.
Copied ==
  /\ \A g \in Segments : whole[g].magic => whole[g].threshold \in Thresholds
  /\ \A g \in Segments : g \notin lost /\ ~HalfWritten(g) => shm[g] = whole[g]
  /\ \A p \in Process : pc[p] = "rest" => shm[mapped[p]].threshold = mem[p].threshold
  /\ ReadsAreWhole

\* The part of the settings that lies within the EEPROM's first page.
FirstPage(s) == [threshold |-> s.threshold, rest |-> s.rest]

\* The magic number is only written after a first page that belongs to it.
Saved ==
  /\ \A p \in Process : pc[p] = "save" => FirstPage(mem[p]) \in saves
  /\ \A p \in Process : pc[p] = "save" /\ page[p] = LastPage => FirstPage(rom) \in saves
  /\ EepromIsWhole

\* Of an undisturbed save the first page is still there when the second is written,
\* and once a choice is kept nobody saves.
Kept ==
  /\ pc["ui"] = "save" /\ page["ui"] = LastPage /\ ~clash =>
       FirstPage(rom) = FirstPage(mem["ui"])
  /\ kept # Zeroed =>
       rom = kept /\ kept.magic /\ \A p \in Process : pc[p] # "save"

\* The inductive invariant.
IInv == TypeOK /\ HasSegment /\ SemHeld /\ MemComplete /\ Copied /\ Saved /\ Kept

----------------------------------------------------------------------------
(* The data. *)

LEMMA Pages ==
  PageOf("threshold") = 0 /\ PageOf("rest") = 0 /\ PageOf("magic") = 1 /\ LastPage = 1
  BY DEF PageOf, LastPage, Offset

LEMMA Images ==
  /\ Zeroed \in Image /\ Defaults \in Image
  /\ ~Zeroed.magic /\ Complete(Defaults)
  BY SettingsAssumption DEF Zeroed, Defaults, Image, Complete

LEMMA ImageDomain ==
  ASSUME NEW r \in Image
  PROVE  DOMAIN r = {"threshold", "rest", "magic"}
  BY DEF Image

\* memcpy half by half: the threshold, then everything else.
LEMMA Halves ==
  ASSUME NEW old \in Image, NEW new \in Image
  PROVE  /\ [f \in DOMAIN old |-> IF f \in {"threshold"} THEN new[f] ELSE old[f]]
              = [old EXCEPT !.threshold = new.threshold]
         /\ [f \in DOMAIN old |-> IF f \in {"rest", "magic"} THEN new[f] ELSE old[f]]
              = [new EXCEPT !.threshold = old.threshold]
  BY ImageDomain DEF Image

\* eeprom_write page by page: threshold and rest, then the magic number.
LEMMA Written ==
  ASSUME NEW old \in Image, NEW new \in Image
  PROVE  /\ [f \in DOMAIN old |-> IF PageOf(f) = 0 THEN new[f] ELSE old[f]]
              = [new EXCEPT !.magic = old.magic]
         /\ [f \in DOMAIN old |-> IF PageOf(f) = 1 THEN new[f] ELSE old[f]]
              = [old EXCEPT !.magic = new.magic]
  BY ImageDomain, Pages DEF Image

\* What the steps of a copy do, in these terms.
LEMMA CopyThresholdDoes ==
  ASSUME TypeOK, HasSegment, NEW p \in Process, CopyThreshold(p)
  PROVE  LET g == mapped[p] IN
         /\ g \in Segments
         /\ Reads(p) => /\ mem' = [mem EXCEPT ![p] = [mem[p] EXCEPT !.threshold = shm[g].threshold]]
                        /\ shm' = shm
         /\ ~Reads(p) => /\ shm' = [shm EXCEPT ![g] = [shm[g] EXCEPT !.threshold = mem[p].threshold]]
                         /\ mem' = mem
<1>1. mapped[p] \in Segments /\ mem[p] \in Image
  BY BoundsAssumption DEF CopyThreshold, HasSegment, TypeOK, Segments
<1>2. shm[mapped[p]] \in Image
  BY <1>1 DEF TypeOK
<1> QED
  BY <1>1, <1>2, Halves DEF CopyThreshold, Transfer

LEMMA CopyRestDoes ==
  ASSUME TypeOK, HasSegment, NEW p \in Process, CopyRest(p)
  PROVE  LET g == mapped[p] IN
         /\ g \in Segments
         /\ Reads(p) => /\ mem' = [mem EXCEPT ![p] = [shm[g] EXCEPT !.threshold = mem[p].threshold]]
                        /\ shm' = shm
         /\ ~Reads(p) => /\ shm' = [shm EXCEPT ![g] = [mem[p] EXCEPT !.threshold = shm[g].threshold]]
                         /\ mem' = mem
<1>1. mapped[p] \in Segments /\ mem[p] \in Image
  BY BoundsAssumption DEF CopyRest, HasSegment, TypeOK, Segments
<1>2. shm[mapped[p]] \in Image
  BY <1>1 DEF TypeOK
<1> QED
  BY <1>1, <1>2, Halves DEF CopyRest, Transfer

\* What a page of eeprom_write does.
LEMMA SavePageDoes ==
  ASSUME TypeOK, NEW p \in Process, SavePage(p)
  PROVE  rom' = IF page[p] = 0 THEN [mem[p] EXCEPT !.magic = rom.magic]
                ELSE [rom EXCEPT !.magic = mem[p].magic]
<1>1. rom \in Image /\ mem[p] \in Image /\ page[p] \in {0, 1}
  BY Pages DEF TypeOK
<1>2. rom' = [f \in DOMAIN rom |-> IF PageOf(f) = page[p] THEN mem[p][f] ELSE rom[f]]
  BY DEF SavePage
<1>3. CASE page[p] = 0
  <2>1. rom' = [f \in DOMAIN rom |-> IF PageOf(f) = 0 THEN mem[p][f] ELSE rom[f]]
    BY <1>2, <1>3
  <2> QED
    BY <1>1, <1>3, <2>1, Written
<1>4. CASE page[p] = 1
  <2>1. rom' = [f \in DOMAIN rom |-> IF PageOf(f) = 1 THEN mem[p][f] ELSE rom[f]]
    BY <1>2, <1>4
  <2>2. rom' = [rom EXCEPT !.magic = mem[p].magic]
    BY <1>1, <2>1, Written
  <2> QED
    BY <1>4, <2>2
<1> QED
  BY <1>1, <1>3, <1>4

----------------------------------------------------------------------------
(* Types. *)

LEMMA TypeInit == Init => TypeOK
<1> SUFFICES ASSUME Init PROVE TypeOK
  OBVIOUS
<1>1. rom \in Image /\ kept \in Image /\ shm \in [Segments -> Image] /\ whole \in [Segments -> Image]
  BY Images DEF Init
<1>2. mem \in [Process -> Image] /\ pc \in [Process -> Places]
  BY Images DEF Init, Places
<1>3. page \in [Process -> 0..LastPage] /\ mapped \in [Process -> 0..created]
  BY Pages DEF Init
<1>4. after \in [Process -> {"idle", "lock"}] /\ sem \in [Segments -> {0, 1}]
  BY DEF Init
<1>5. created \in 0..MaxSegments /\ named \in 0..created /\ changes \in 0..MaxChanges /\ faults \in 0..MaxFaults
  BY BoundsAssumption DEF Init
<1> QED
  BY <1>1, <1>2, <1>3, <1>4, <1>5, SettingsAssumption, BoundsAssumption DEF Init, TypeOK

\* What a step of the copy moves is of the right type.
LEMMA CopyTypes ==
  ASSUME IInv, NEW p \in Process, CopyThreshold(p) \/ CopyRest(p)
  PROVE  TypeOK'
<1> DEFINE g == mapped[p]
<1>1. g \in Segments
  BY CopyThresholdDoes, CopyRestDoes DEF IInv
<1>2. mem[p] \in Image /\ shm[g] \in Image /\ whole[g] \in Image
  BY <1>1 DEF IInv, TypeOK
<1>3. /\ [mem[p] EXCEPT !.threshold = shm[g].threshold] \in Image
      /\ [shm[g] EXCEPT !.threshold = mem[p].threshold] \in Image
  BY <1>2 DEF Image
<1>4. mem' \in [Process -> Image] /\ shm' \in [Segments -> Image]
  <2>1. CASE CopyThreshold(p)
    BY <1>3, <2>1, CopyThresholdDoes DEF IInv, TypeOK
  <2>2. CASE CopyRest(p)
    BY <1>3, <2>2, CopyRestDoes DEF IInv, TypeOK
  <2> QED
    BY <2>1, <2>2
<1>5. whole' \in [Segments -> Image]
  BY <1>2 DEF CopyThreshold, CopyRest, IInv, TypeOK, ghosts
<1> QED
  BY <1>4, <1>5 DEF CopyThreshold, CopyRest, Goto, ghosts, IInv, TypeOK, Places

LEMMA TypeStep == IInv /\ [Next]_vars => TypeOK'
<1> SUFFICES ASSUME IInv, [Next]_vars PROVE TypeOK'
  OBVIOUS
<1> USE Images DEF IInv, TypeOK, Process, Places, Goto, rams, ghosts
<1>1. ASSUME NEW p \in Process, Start(p) PROVE TypeOK'
  BY <1>1 DEF Start
<1>2. CASE DaemonInit \/ DaemonInitFails \/ UiInit \/ UiInitFails
  <2> USE BoundsAssumption
  <2>1. CASE DaemonInit
    BY <2>1 DEF DaemonInit, OpenOrCreate
  <2>2. CASE DaemonInitFails
    BY <2>2 DEF DaemonInitFails, Fault
  <2>3. CASE UiInit
    BY <2>3 DEF UiInit
  <2>4. CASE UiInitFails
    BY <2>4 DEF UiInitFails, Fault
  <2> QED
    BY <1>2, <2>1, <2>2, <2>3, <2>4
<1>3. ASSUME NEW p \in Process, Load(p) \/ LoadFails(p) PROVE TypeOK'
  <2>1. rom.magic => FirstPage(rom) \in saves
    BY DEF Saved, EepromIsWhole, FirstPage
  <2>2. saves' \subseteq [threshold : Thresholds, rest : Rests]
    BY <1>3 DEF Load, LoadFails, BeginSave, Complete
  <2> QED
    BY <1>3, <2>2, Pages, BoundsAssumption DEF Load, LoadFails, Fault, BeginSave, AfterLoad
<1>4. ASSUME NEW p \in Process, SavePage(p) PROVE TypeOK'
  <2>1. mem[p] \in Image /\ mem["ui"] \in Image
    BY DEF Process
  <2>2. [mem[p] EXCEPT !.magic = rom.magic] \in Image /\ [rom EXCEPT !.magic = mem[p].magic] \in Image
    BY <2>1 DEF Image
  <2>3. rom' \in Image
    BY <1>4, <2>2, SavePageDoes
  <2>4. clash' \in BOOLEAN
    BY <1>4 DEF SavePage
  <2> QED
    BY <1>4, <2>1, <2>3, <2>4, Pages DEF SavePage
<1>5. ASSUME NEW p \in Process, SaveFails(p) PROVE TypeOK'
  BY <1>5, Pages, BoundsAssumption DEF SaveFails, Fault
<1>6. CASE ChangeRest \/ ChangeThreshold
  <2>1. ASSUME NEW s \in Image, NEW return \in {"idle", "lock"}, Complete(s), Change(s, return)
        PROVE  TypeOK'
    <3>1. saves' \subseteq [threshold : Thresholds, rest : Rests]
      BY <2>1 DEF Change, BeginSave, Complete
    <3>2. mem' \in [Process -> Image] /\ pc' \in [Process -> Places]
      BY <2>1 DEF Change, BeginSave
    <3>3. page' \in [Process -> 0..LastPage] /\ after' \in [Process -> {"idle", "lock"}]
      BY <2>1, Pages DEF Change, BeginSave
    <3>4. changes' \in 0..MaxChanges
      BY <2>1, BoundsAssumption DEF Change
    <3> QED
      BY <2>1, <3>1, <3>2, <3>3, <3>4 DEF Change, BeginSave
  <2>2. mem["ui"] \in Image /\ Complete(mem["ui"])
    BY <1>6 DEF ChangeRest, ChangeThreshold, Change, MemComplete, Publishes, Process
  <2>3. CASE ChangeRest
    <3>1. PICK r \in Rests : Change([mem["ui"] EXCEPT !.rest = r], "idle")
      BY <2>3 DEF ChangeRest
    <3>2. [mem["ui"] EXCEPT !.rest = r] \in Image /\ Complete([mem["ui"] EXCEPT !.rest = r])
      BY <2>2 DEF Image, Complete
    <3> QED
      BY <2>1, <3>1, <3>2
  <2>4. CASE ChangeThreshold
    <3>1. PICK t \in Thresholds, return \in {"idle", "lock"} :
            Change([mem["ui"] EXCEPT !.threshold = t], return)
      BY <2>4 DEF ChangeThreshold
    <3>2. /\ [mem["ui"] EXCEPT !.threshold = t] \in Image
          /\ Complete([mem["ui"] EXCEPT !.threshold = t])
      BY <2>2 DEF Image, Complete
    <3> QED
      BY <2>1, <3>1, <3>2
  <2> QED
    BY <1>6, <2>3, <2>4
<1>7. CASE Poll \/ \E p \in Process : Acquire(p)
  BY <1>7 DEF Poll, Acquire
<1>8. ASSUME NEW p \in Process, CopyThreshold(p) \/ CopyRest(p) PROVE TypeOK'
  BY <1>8, CopyTypes
<1>9. ASSUME NEW p \in Process, PostWrite(p) PROVE TypeOK'
  <2>1. mem[p].threshold \in Thresholds \cup {Blank}
    BY DEF Image
  <2>2. mem' \in [Process -> Image]
    BY <1>9 DEF PostWrite
  <2> QED
    BY <1>9, <2>1, <2>2 DEF PostWrite
<1>10. CASE PostRead
  <2>1. mapped["daemon"] \in Segments
    BY <1>10, BoundsAssumption DEF PostRead, HasSegment, Segments, Process
  <2>2. mem["daemon"].magic => mem["daemon"].threshold \in Thresholds
    BY <1>10, <2>1 DEF PostRead, Reads, Copied, ReadsAreWhole
  <2> QED
    BY <1>10, <2>2 DEF PostRead, Adopt
<1>11. CASE DaemonStops \/ UiStops
  <2> USE SettingsAssumption, BoundsAssumption, Pages DEF Gone, Fault
  <2>1. CASE DaemonStops
    BY <2>1 DEF DaemonStops
  <2>2. CASE UiStops
    BY <2>2 DEF UiStops
  <2> QED
    BY <1>11, <2>1, <2>2
<1>12. ASSUME NEW p \in Process, Crash(p) PROVE TypeOK'
  <2>1. Inside(p) => mapped[p] \in Segments
    BY BoundsAssumption DEF Inside, HasSegment, Segments
  <2> QED
    BY <1>12, <2>1, SettingsAssumption, BoundsAssumption, Pages DEF Crash, Gone, Fault
<1>13. CASE PowerCut
  BY <1>13, SettingsAssumption, BoundsAssumption, Pages DEF PowerCut, Gone, Fault, Segments
<1>14. CASE UNCHANGED vars
  BY <1>14 DEF vars
<1> QED
  BY <1>1, <1>2, <1>3, <1>4, <1>5, <1>6, <1>7, <1>8, <1>9, <1>10, <1>11, <1>12, <1>13, <1>14
     DEF Next, Step, StepOf, Environment

----------------------------------------------------------------------------
(* Segments and semaphores. *)

LEMMA SegmentStep == IInv /\ [Next]_vars => HasSegment'
<1> SUFFICES ASSUME IInv, [Next]_vars PROVE HasSegment'
  OBVIOUS
<1> USE DEF IInv, TypeOK, HasSegment, Process, Goto, rams, ghosts
<1>1. ASSUME NEW p \in Process, Start(p) PROVE HasSegment'
  BY <1>1 DEF Start
<1>2. CASE DaemonInit
  BY <1>2 DEF DaemonInit, OpenOrCreate
<1>3. CASE DaemonInitFails \/ UiInit \/ UiInitFails
  BY <1>3 DEF DaemonInitFails, UiInit, UiInitFails
<1>4. ASSUME NEW p \in Process, Load(p) \/ LoadFails(p) PROVE HasSegment'
  BY <1>4 DEF Load, LoadFails, BeginSave, AfterLoad
<1>5. ASSUME NEW p \in Process, SavePage(p) \/ SaveFails(p) PROVE HasSegment'
  BY <1>5 DEF SavePage, SaveFails
<1>6. CASE ChangeRest \/ ChangeThreshold
  BY <1>6 DEF ChangeRest, ChangeThreshold, Change, BeginSave
<1>7. CASE Poll \/ PostRead
  BY <1>7 DEF Poll, PostRead
<1>8. ASSUME NEW p \in Process,
             Acquire(p) \/ CopyThreshold(p) \/ CopyRest(p) \/ PostWrite(p)
      PROVE  HasSegment'
  BY <1>8 DEF Acquire, CopyThreshold, CopyRest, PostWrite
<1>9. CASE DaemonStops \/ UiStops \/ PowerCut
  BY <1>9 DEF DaemonStops, UiStops, PowerCut, Gone
<1>10. ASSUME NEW p \in Process, Crash(p) PROVE HasSegment'
  BY <1>10 DEF Crash, Gone
<1>11. CASE UNCHANGED vars
  BY <1>11 DEF vars
<1> QED
  BY <1>1, <1>2, <1>3, <1>4, <1>5, <1>6, <1>7, <1>8, <1>9, <1>10, <1>11
     DEF Next, Step, StepOf, Environment

LEMMA SemStep == IInv /\ [Next]_vars => SemHeld'
<1> SUFFICES ASSUME IInv, [Next]_vars PROVE SemHeld'
  OBVIOUS
<1> USE DEF IInv, TypeOK, HasSegment, SemHeld, Holds, Inside, Process, Goto, rams, ghosts
<1>1. ASSUME NEW p \in Process, Acquire(p) PROVE SemHeld'
  BY <1>1 DEF Acquire
\* Within the copy a holder stays where it is.
<1>2. ASSUME NEW p \in Process, CopyThreshold(p) \/ CopyRest(p) PROVE SemHeld'
  BY <1>2 DEF CopyThreshold, CopyRest
<1>3. ASSUME NEW p \in Process, PostWrite(p) PROVE SemHeld'
  BY <1>3 DEF PostWrite
<1>4. CASE PostRead
  BY <1>4 DEF PostRead
\* A crash within the copy leaves the semaphore taken; no other changes who holds it.
<1>5. ASSUME NEW p \in Process, Crash(p) PROVE SemHeld'
  BY <1>5 DEF Crash, Gone
<1>6. CASE DaemonStops \/ UiStops
  BY <1>6 DEF DaemonStops, UiStops, Gone
<1>7. CASE PowerCut
  BY <1>7 DEF PowerCut, Gone
<1>8. ASSUME NEW p \in Process,
             Start(p) \/ Load(p) \/ LoadFails(p) \/ SavePage(p) \/ SaveFails(p)
      PROVE  SemHeld'
  BY <1>8 DEF Start, Load, LoadFails, BeginSave, AfterLoad, SavePage, SaveFails
<1>9. CASE DaemonInit \/ DaemonInitFails \/ UiInit \/ UiInitFails \/ Poll
  BY <1>9 DEF DaemonInit, OpenOrCreate, DaemonInitFails, UiInit, UiInitFails, Poll
<1>10. CASE ChangeRest \/ ChangeThreshold
  BY <1>10 DEF ChangeRest, ChangeThreshold, Change, BeginSave
<1>11. CASE UNCHANGED vars
  BY <1>11 DEF vars
<1> QED
  BY <1>1, <1>2, <1>3, <1>4, <1>5, <1>6, <1>7, <1>8, <1>9, <1>10, <1>11
     DEF Next, Step, StepOf, Environment

----------------------------------------------------------------------------
(* What is written is complete, and read as a whole. *)

LEMMA CompleteStep == IInv /\ [Next]_vars => MemComplete'
<1> SUFFICES ASSUME IInv, [Next]_vars PROVE MemComplete'
  OBVIOUS
<1> USE Images DEF IInv, TypeOK, MemComplete, Publishes, Reads, Process, Goto, rams, ghosts
\* A process publishes what it has loaded under a magic number, or the defaults,
<1>1. ASSUME NEW p \in Process, Load(p) \/ LoadFails(p) PROVE MemComplete'
  BY <1>1 DEF Load, LoadFails, BeginSave, AfterLoad, Saved, EepromIsWhole, Complete
\* changed one by one.
<1>2. CASE ChangeRest \/ ChangeThreshold
  <2>1. mem["ui"] \in Image /\ Complete(mem["ui"])
    BY <1>2 DEF ChangeRest, ChangeThreshold, Change
  <2>2. /\ \A r \in Rests : Complete([mem["ui"] EXCEPT !.rest = r])
        /\ \A t \in Thresholds : Complete([mem["ui"] EXCEPT !.threshold = t])
    BY <2>1 DEF Complete, Image
  <2> QED
    BY <1>2, <2>2 DEF ChangeRest, ChangeThreshold, Change, BeginSave
<1>3. ASSUME NEW p \in Process, SavePage(p) \/ SaveFails(p) PROVE MemComplete'
  BY <1>3 DEF SavePage, SaveFails
<1>4. ASSUME NEW p \in Process, CopyThreshold(p) \/ CopyRest(p) PROVE MemComplete'
  BY <1>4 DEF CopyThreshold, CopyRest, Transfer
<1>5. ASSUME NEW p \in Process, Acquire(p) \/ PostWrite(p) PROVE MemComplete'
  BY <1>5 DEF Acquire, PostWrite
<1>6. CASE Poll \/ PostRead
  BY <1>6 DEF Poll, PostRead
<1>7. ASSUME NEW p \in Process, Start(p) \/ Crash(p) PROVE MemComplete'
  BY <1>7 DEF Start, Crash, Gone
<1>8. CASE DaemonInit \/ DaemonInitFails \/ UiInit \/ UiInitFails
  BY <1>8 DEF DaemonInit, DaemonInitFails, UiInit, UiInitFails
<1>9. CASE DaemonStops \/ UiStops \/ PowerCut
  BY <1>9 DEF DaemonStops, UiStops, PowerCut, Gone
<1>10. CASE UNCHANGED vars
  BY <1>10 DEF vars
<1> QED
  BY <1>1, <1>2, <1>3, <1>4, <1>5, <1>6, <1>7, <1>8, <1>9, <1>10
     DEF Next, Step, StepOf, Environment

LEMMA CopiedStep == IInv /\ [Next]_vars => Copied'
<1> SUFFICES ASSUME IInv, [Next]_vars PROVE Copied'
  OBVIOUS
<1> USE Images DEF IInv, TypeOK, HasSegment, SemHeld, Holds, Inside, Copied, ReadsAreWhole,
                   HalfWritten, Reads, Process, Goto, rams, ghosts
\* The first half leaves segment or copy as far as it got.
<1>1. ASSUME NEW p \in Process, CopyThreshold(p) PROVE Copied'
  <2> DEFINE g == mapped[p]
  <2>1. g \in Segments /\ mem[p] \in Image /\ shm[g] \in Image
    BY <1>1, CopyThresholdDoes
  <2> DEFINE readSoFar == [mem[p] EXCEPT !.threshold = shm[g].threshold]
             writtenSoFar == [shm[g] EXCEPT !.threshold = mem[p].threshold]
  <2>2. readSoFar.threshold = shm[g].threshold /\ writtenSoFar.threshold = mem[p].threshold
    BY <2>1 DEF Image
  <2>3. CASE Reads(p)
    <3>1. mem' = [mem EXCEPT ![p] = readSoFar] /\ shm' = shm /\ whole' = whole
      BY <1>1, <2>3, CopyThresholdDoes DEF CopyThreshold
    <3> HIDE DEF readSoFar
    <3> QED
      BY <1>1, <2>1, <2>2, <2>3, <3>1 DEF CopyThreshold
  <2>4. CASE ~Reads(p)
    <3>1. shm' = [shm EXCEPT ![g] = writtenSoFar] /\ mem' = mem /\ whole' = whole
      BY <1>1, <2>4, CopyThresholdDoes DEF CopyThreshold
    <3> HIDE DEF writtenSoFar
    <3> QED
      BY <1>1, <2>1, <2>2, <2>4, <3>1 DEF CopyThreshold
  <2> QED
    BY <2>3, <2>4
\* The second completes it: nobody else has been at the segment in between.
<1>2. ASSUME NEW p \in Process, CopyRest(p) PROVE Copied'
  <2> DEFINE g == mapped[p]
  <2>1. g \in Segments /\ mem[p] \in Image /\ shm[g] \in Image
    BY <1>2, CopyRestDoes
  <2>2. shm[g].threshold = mem[p].threshold
    BY <1>2 DEF CopyRest
  <2>3. /\ [mem[p] EXCEPT !.threshold = shm[g].threshold] = mem[p]
        /\ [shm[g] EXCEPT !.threshold = mem[p].threshold] = shm[g]
    BY <2>1, <2>2 DEF Image
  <2>4. CASE Reads(p)
    <3>1. mem' = [mem EXCEPT ![p] = shm[g]] /\ shm' = shm /\ whole' = whole
      BY <1>2, <2>3, <2>4, CopyRestDoes DEF CopyRest
    <3>2. shm[g] = whole[g]
      BY <1>2, <2>1, <2>4 DEF CopyRest
    <3> QED
      BY <1>2, <2>1, <2>4, <3>1, <3>2 DEF CopyRest
  <2>5. CASE ~Reads(p)
    <3>1. shm' = [shm EXCEPT ![g] = mem[p]] /\ mem' = mem /\ whole' = [whole EXCEPT ![g] = mem[p]]
      BY <1>2, <2>3, <2>5, CopyRestDoes DEF CopyRest
    <3>2. mem[p].threshold \in Thresholds
      BY <1>2, <2>5 DEF CopyRest, MemComplete, Publishes, Complete
    <3> QED
      BY <1>2, <2>1, <2>5, <3>1, <3>2 DEF CopyRest
  <2> QED
    BY <2>4, <2>5
<1>3. ASSUME NEW p \in Process, Acquire(p) \/ PostWrite(p) PROVE Copied'
  BY <1>3 DEF Acquire, PostWrite
<1>4. CASE Poll \/ PostRead
  BY <1>4 DEF Poll, PostRead
\* A writer that dies in the middle leaves its segment lost.
<1>5. ASSUME NEW p \in Process, Crash(p) PROVE Copied'
  BY <1>5 DEF Crash, Gone
<1>6. CASE PowerCut
  BY <1>6 DEF PowerCut, Gone
<1>7. CASE DaemonStops \/ UiStops
  BY <1>7 DEF DaemonStops, UiStops, Gone
<1>8. ASSUME NEW p \in Process,
             Start(p) \/ Load(p) \/ LoadFails(p) \/ SavePage(p) \/ SaveFails(p)
      PROVE  Copied'
  BY <1>8 DEF Start, Load, LoadFails, BeginSave, AfterLoad, SavePage, SaveFails
<1>9. CASE DaemonInit \/ DaemonInitFails \/ UiInit \/ UiInitFails
  BY <1>9 DEF DaemonInit, OpenOrCreate, DaemonInitFails, UiInit, UiInitFails
<1>10. CASE ChangeRest \/ ChangeThreshold
  BY <1>10 DEF ChangeRest, ChangeThreshold, Change, BeginSave
<1>11. CASE UNCHANGED vars
  BY <1>11 DEF vars
<1> QED
  BY <1>1, <1>2, <1>3, <1>4, <1>5, <1>6, <1>7, <1>8, <1>9, <1>10, <1>11
     DEF Next, Step, StepOf, Environment

----------------------------------------------------------------------------
(* The EEPROM. *)

LEMMA SavedStep == IInv /\ [Next]_vars => Saved'
<1> SUFFICES ASSUME IInv, [Next]_vars PROVE Saved'
  OBVIOUS
<1> USE Images, Pages DEF IInv, TypeOK, Saved, EepromIsWhole, FirstPage, Process, Goto, rams, ghosts
<1>1. ASSUME NEW p \in Process, Load(p) \/ LoadFails(p) PROVE Saved'
  BY <1>1 DEF Load, LoadFails, BeginSave, AfterLoad
<1>2. CASE ChangeRest \/ ChangeThreshold
  <2>1. FirstPage(mem'["ui"]) \in saves'
    BY <1>2 DEF ChangeRest, ChangeThreshold, Change, BeginSave
  <2>2. /\ pc' = [pc EXCEPT !["ui"] = "save"] /\ page' = [page EXCEPT !["ui"] = 0]
        /\ mem'["daemon"] = mem["daemon"] /\ saves \subseteq saves' /\ rom' = rom
    BY <1>2 DEF ChangeRest, ChangeThreshold, Change, BeginSave
  <2> QED
    BY <2>1, <2>2
<1>3. ASSUME NEW p \in Process, SavePage(p) PROVE Saved'
  <2>1. rom \in Image /\ mem[p] \in Image /\ page[p] \in {0, 1} /\ saves' = saves
    BY <1>3 DEF SavePage
  \* The first page brings threshold and rest of one save,
  <2>2. CASE page[p] = 0
    <3>1. FirstPage(rom') = FirstPage(mem[p])
      BY <1>3, <2>1, <2>2, SavePageDoes DEF Image
    <3>2. FirstPage(rom') \in saves
      BY <1>3, <3>1 DEF SavePage
    <3> QED
      BY <1>3, <2>1, <3>2 DEF SavePage
  \* and the second leaves them there.
  <2>3. CASE page[p] = 1
    <3>1. FirstPage(rom') = FirstPage(rom)
      BY <1>3, <2>1, <2>3, SavePageDoes DEF Image
    <3>2. FirstPage(rom') \in saves
      BY <1>3, <2>3, <3>1 DEF SavePage
    <3> QED
      BY <1>3, <2>1, <3>2 DEF SavePage
  <2> QED
    BY <2>1, <2>2, <2>3
<1>4. ASSUME NEW p \in Process,
             \/ SaveFails(p) \/ Acquire(p) \/ CopyRest(p) \/ PostWrite(p)
             \/ Start(p) \/ Crash(p)
      PROVE  Saved'
  BY <1>4 DEF SaveFails, Acquire, CopyRest, Transfer, PostWrite, Start, Crash, Gone
<1>5. ASSUME NEW p \in Process, CopyThreshold(p) PROVE Saved'
  BY <1>5 DEF CopyThreshold, Transfer
<1>6. CASE DaemonInit \/ DaemonInitFails \/ UiInit \/ UiInitFails \/ Poll \/ PostRead
  BY <1>6 DEF DaemonInit, DaemonInitFails, UiInit, UiInitFails, Poll, PostRead
<1>7. CASE DaemonStops \/ UiStops \/ PowerCut
  BY <1>7 DEF DaemonStops, UiStops, PowerCut, Gone
<1>8. CASE UNCHANGED vars
  BY <1>8 DEF vars
<1> QED
  BY <1>1, <1>2, <1>3, <1>4, <1>5, <1>6, <1>7, <1>8 DEF Next, Step, StepOf, Environment

LEMMA KeptStep == IInv /\ [Next]_vars => Kept'
<1> SUFFICES ASSUME IInv, [Next]_vars PROVE Kept'
  OBVIOUS
<1> USE Images, Pages DEF IInv, TypeOK, Kept, FirstPage, Process, Goto, rams, ghosts
\* What is kept has a magic number: whoever starts loads it and saves nothing.
<1>1. ASSUME NEW p \in Process, Load(p) \/ LoadFails(p) PROVE Kept'
  BY <1>1 DEF Load, LoadFails, BeginSave, AfterLoad
<1>2. CASE ChangeRest \/ ChangeThreshold
  BY <1>2 DEF ChangeRest, ChangeThreshold, Change, BeginSave
<1>3. ASSUME NEW p \in Process, SavePage(p) PROVE Kept'
  <2>1. /\ rom \in Image /\ mem[p] \in Image /\ mem["ui"] \in Image
        /\ page[p] \in {0, 1} /\ mem' = mem
    BY <1>3 DEF SavePage
  <2>2. kept = Zeroed
    BY <1>3 DEF SavePage
  <2>3. CASE page[p] = 0
    <3>1. FirstPage(rom') = FirstPage(mem[p])
      BY <1>3, <2>1, <2>3, SavePageDoes DEF Image
    <3>2. /\ page' = [page EXCEPT ![p] = 1] /\ kept' = kept /\ pc' = pc
          /\ clash' = (clash \/ pc[Other(p)] = "save")
      BY <1>3, <2>1, <2>3 DEF SavePage
    <3>3. CASE p = "ui"
      BY <2>1, <2>2, <3>1, <3>2, <3>3
    \* The daemon's page disturbs a save of the UI.
    <3>4. CASE p = "daemon"
      BY <1>3, <2>2, <3>2, <3>4 DEF Other
    <3> QED
      BY <3>3, <3>4
  <2>4. CASE page[p] = 1 /\ p = "daemon"
    BY <1>3, <2>1, <2>2, <2>4 DEF SavePage, Other
  \* The UI's save is over; undisturbed, it has left what it was called with.
  <2>5. CASE page[p] = 1 /\ p = "ui"
    <3>1. CASE clash'
      BY <1>3, <2>1, <2>2, <2>5, <3>1 DEF SavePage
    <3>2. CASE ~clash'
      <4>0. clash' = (clash \/ pc["daemon"] = "save")
        BY <1>3, <2>5 DEF SavePage, Other
      <4>1. FirstPage(rom) = FirstPage(mem["ui"]) /\ pc["daemon"] # "save" /\ kept' = mem["ui"]
        <5>1. FirstPage(rom) = FirstPage(mem["ui"]) /\ pc["daemon"] # "save"
          BY <1>3, <2>5, <3>2, <4>0 DEF SavePage
        <5>2. kept' = mem["ui"]
          BY <1>3, <2>5, <3>2 DEF SavePage
        <5> QED
          BY <5>1, <5>2
      <4>2. rom' = mem["ui"]
        BY <1>3, <2>1, <2>5, <4>1, SavePageDoes DEF Image
      <4>3. mem["ui"].magic /\ after["ui"] # "save"
        BY <1>3, <2>5 DEF SavePage, MemComplete, Publishes, Complete
      <4> QED
        BY <1>3, <2>1, <2>5, <4>1, <4>2, <4>3 DEF SavePage
    <3> QED
      BY <3>1, <3>2
  <2> QED
    BY <2>1, <2>3, <2>4, <2>5
<1>4. ASSUME NEW p \in Process,
             \/ SaveFails(p) \/ Acquire(p) \/ CopyRest(p) \/ PostWrite(p)
             \/ Start(p) \/ Crash(p)
      PROVE  Kept'
  BY <1>4 DEF SaveFails, Acquire, CopyRest, Transfer, PostWrite, Start, Crash, Gone
<1>5. ASSUME NEW p \in Process, CopyThreshold(p) PROVE Kept'
  BY <1>5 DEF CopyThreshold, Transfer
<1>6. CASE DaemonInit \/ DaemonInitFails \/ UiInit \/ UiInitFails \/ Poll \/ PostRead
  BY <1>6 DEF DaemonInit, DaemonInitFails, UiInit, UiInitFails, Poll, PostRead
<1>7. CASE DaemonStops \/ UiStops \/ PowerCut
  BY <1>7 DEF DaemonStops, UiStops, PowerCut, Gone
<1>8. CASE UNCHANGED vars
  BY <1>8 DEF vars
<1> QED
  BY <1>1, <1>2, <1>3, <1>4, <1>5, <1>6, <1>7, <1>8 DEF Next, Step, StepOf, Environment

----------------------------------------------------------------------------
(* The theorems. *)

LEMMA IInvInit == Init => IInv
<1> SUFFICES ASSUME Init PROVE IInv
  OBVIOUS
<1>1. HasSegment /\ SemHeld
  BY DEF Init, HasSegment, SemHeld, Holds, Inside, Process
<1>2. MemComplete /\ Copied
  BY Images DEF Init, MemComplete, Publishes, Copied, HalfWritten, ReadsAreWhole, Process, Segments
<1>3. Saved /\ Kept
  BY Images DEF Init, Saved, EepromIsWhole, Kept, Process
<1> QED
  BY <1>1, <1>2, <1>3, TypeInit DEF IInv

\* The settings' inductive invariant: which process holds which segment, and what
\* every place holds while one of them is in the middle of it.
THEOREM SettingsInvariant == Spec => []IInv
<1>1. IInv /\ [Next]_vars => IInv'
  BY TypeStep, SegmentStep, SemStep, CompleteStep, CopiedStep, SavedStep, KeptStep DEF IInv
<1> QED
  BY <1>1, IInvInit, PTL DEF Spec

\* Every variable of the settings keeps its type.
THEOREM SettingsTypes == Spec => []TypeOK
<1>1. IInv => TypeOK
  BY DEF IInv
<1> QED
  BY <1>1, SettingsInvariant, PTL

LEMMA SemHeldExcludes == SemHeld => Exclusion
<1> SUFFICES ASSUME SemHeld, NEW g \in Segments
             PROVE  LET holders == {p \in Process : Inside(p) /\ mapped[p] = g} IN
                    /\ Cardinality(holders) <= 1
                    /\ sem[g] = 0 <=> holders # {} \/ g \in lost
                    /\ holders # {} => g \notin lost
  BY DEF Exclusion
<1> DEFINE holders == {p \in Process : Inside(p) /\ mapped[p] = g}
<1>1. holders = {} \/ \E p \in Process : holders = {p}
  BY DEF SemHeld, Holds, Process
<1>2. Cardinality(holders) <= 1
  <2>1. CASE holders = {}
    BY <2>1, FS_EmptySet
  <2>2. ASSUME NEW p \in Process, holders = {p} PROVE Cardinality(holders) <= 1
    <3>1. Cardinality({p}) = 1
      BY FS_Singleton
    <3> QED
      BY <2>2, <3>1
  <2> QED
    BY <1>1, <2>1, <2>2
<1>3. holders # {} <=> Holds("daemon", g) \/ Holds("ui", g)
  BY DEF Holds, Process
<1> QED
  BY <1>2, <1>3 DEF SemHeld

\* At most one process is inside ipc_shm_write_settings or ipc_shm_read_settings for
\* a segment, and a semaphore that is taken is held, or was left by a crash.
THEOREM ExclusionCorrect == Spec => []Exclusion
<1>1. IInv => Exclusion
  BY SemHeldExcludes DEF IInv
<1> QED
  BY <1>1, SettingsInvariant, PTL

\* shm_sync_thread reads what one writer has written, as a whole.
THEOREM ReadsCorrect == Spec => []ReadsAreWhole
<1>1. IInv => ReadsAreWhole
  BY DEF IInv, Copied
<1> QED
  BY <1>1, SettingsInvariant, PTL

\* Under its magic number the EEPROM holds settings that were saved together, however
\* the two processes' calls of eeprom_write interleave and wherever they end.
THEOREM EepromCorrect == Spec => []EepromIsWhole
<1>1. IInv => EepromIsWhole
  BY DEF IInv, Saved
<1> QED
  BY <1>1, SettingsInvariant, PTL

\* A choice the UI has saved undisturbed stays in the EEPROM through stops, crashes
\* and power cuts.
THEOREM ChoiceCorrect == Spec => []SavedChoiceSurvives
<1>1. IInv => SavedChoiceSurvives
  BY DEF IInv, Kept, SavedChoiceSurvives
<1> QED
  BY <1>1, SettingsInvariant, PTL

============================================================================
