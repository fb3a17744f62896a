----------------------------- MODULE Dashboard -----------------------------
(***************************************************************************)
(* What Dashboard does with its cache: the alert banner and its timer, the *)
(* animated value labels, the touch screen as LVGL reads it, tabs and      *)
(* switches.                                                               *)
(*                                                                         *)
(* The consumer thread writes the cache, main() runs tick(); module UiApp  *)
(* has tick()'s copying and rendering as two steps and shows that no       *)
(* update is lost in between, so that here a tick is one step.  The        *)
(* temperature stands for the four labels with an animated value.          *)
(*                                                                         *)
(* tick() ends in lv_timer_handler, where LVGL runs the timers that are    *)
(* due: one advances the animations, one reads the touch screen and calls  *)
(* the widgets' callbacks.  LVGL is external; of an animation only its     *)
(* start and its end are modelled, and that starting one stops another of  *)
(* the same object and attribute without its ready callback.               *)
(***************************************************************************)
EXTENDS Integers

CONSTANTS
  Values,       \* temperatures, 0 among them
  Placeholder,  \* the text of a label no value has been put into
  AutoHide,     \* ALERT_AUTO_HIDE_TICKS, 150
  NTabs,        \* 4
  SettingsTab   \* the tab with the switches

ASSUME ValuesAssumption == Values \subseteq Int /\ 0 \in Values /\ Placeholder \notin Values

ASSUME NumbersAssumption ==
  AutoHide \in Nat \ {0} /\ NTabs \in Nat \ {0} /\ SettingsTab \in 0..NTabs - 1

VARIABLES
  temp, dhtDirty,       \* SensorCache: the temperature,
  anomalyDirty,         \*   an alert,
  irKey, irDirty,       \*   the last tab key,
  touchDirty,           \*   a touch event,
  touchPressed,         \*   and whether it was a press
  animTemp,             \* anim_temp_: the value the label is at or animated to
  label, valueAnim,     \* the value on the label, and whether it is being animated
  hidden, slide,        \* the banner's HIDDEN flag and its animation: "none", "in", "out"
  alertTicks,           \* alert_ticks
  lvPressed,            \* LVGL's view of the touch screen
  tab, muted            \* the active tab, settings_.alert_muted

cache == <<temp, dhtDirty, anomalyDirty, irKey, irDirty, touchDirty, touchPressed>>
values == <<animTemp, label, valueAnim>>
banner == <<hidden, slide, alertTicks>>
vars == <<cache, values, banner, lvPressed, tab, muted>>

Keys == {"left", "right"}

\* Every variable has its type, tab and timer included.
TypeOK ==
  /\ temp \in Values /\ animTemp \in Values /\ label \in Values \cup {Placeholder}
  /\ irKey \in Keys
  /\ {dhtDirty, anomalyDirty, irDirty, touchDirty, touchPressed} \subseteq BOOLEAN
  /\ {valueAnim, hidden, lvPressed, muted} \subseteq BOOLEAN
  /\ slide \in {"none", "in", "out"}
  /\ alertTicks \in 0..AutoHide
  /\ tab \in 0..NTabs - 1

Init ==
  /\ temp = 0 /\ animTemp = 0 /\ label = Placeholder /\ valueAnim = FALSE
  /\ irKey = "left"
  /\ dhtDirty = FALSE /\ anomalyDirty = FALSE /\ irDirty = FALSE
  /\ touchDirty = FALSE /\ touchPressed = FALSE /\ lvPressed = FALSE
  /\ hidden = TRUE /\ slide = "none" /\ alertTicks = 0
  /\ tab = 0
  /\ muted \in BOOLEAN

----------------------------------------------------------------------------
(* The consumer thread, each under the mutex. *)

UpdateDht11(v) ==
  /\ temp' = v /\ dhtDirty' = TRUE
  /\ UNCHANGED <<anomalyDirty, irKey, irDirty, touchDirty, touchPressed, values, banner,
                 lvPressed, tab, muted>>

ShowAlert ==
  /\ anomalyDirty' = TRUE
  /\ UNCHANGED <<temp, dhtDirty, irKey, irDirty, touchDirty, touchPressed, values, banner,
                 lvPressed, tab, muted>>

UpdateTouch(pressed) ==
  /\ touchPressed' = pressed /\ touchDirty' = TRUE
  /\ UNCHANGED <<temp, dhtDirty, anomalyDirty, irKey, irDirty, values, banner,
                 lvPressed, tab, muted>>

\* A second key before the next tick replaces the first.
HandleIrKey(key) ==
  /\ irKey' = key /\ irDirty' = TRUE
  /\ UNCHANGED <<temp, dhtDirty, anomalyDirty, touchDirty, touchPressed, values, banner,
                 lvPressed, tab, muted>>

----------------------------------------------------------------------------
(* tick(). *)

\* Fault-seeded variant: a value that arrives while the label is animated is left
\* to the next reading.
StartValueAnimOnce ==
  IF ~dhtDirty \/ animTemp = temp \/ valueAnim THEN UNCHANGED <<animTemp, valueAnim>>
  ELSE animTemp' = temp /\ valueAnim' = TRUE

\* start_value_anim: from the last target to the new one, unless they are equal.
StartValueAnim ==
  IF ~dhtDirty \/ animTemp = temp THEN UNCHANGED <<animTemp, valueAnim>>
  ELSE animTemp' = temp /\ valueAnim' = TRUE

\* Fault-seeded variant: left of the first tab lies none.
TabAfterUnwrapped(key) == IF key = "right" THEN (tab + 1) % NTabs ELSE tab - 1

TabAfter(key) == IF key = "right" THEN (tab + 1) % NTabs ELSE (tab + NTabs - 1) % NTabs

\* An alert is shown, unless muted; its time starts anew.
Raised == anomalyDirty /\ ~muted

\* Fault-seeded variant: a touch ends the banner's time outright.
TicksLeftNone ==
  LET ticks == IF Raised THEN AutoHide ELSE alertTicks
  IN  IF touchDirty /\ ticks > 0 THEN 0 ELSE ticks

\* The banner's time before this tick is taken off it: a touch shortens it to this tick.
TicksLeft ==
  LET ticks == IF Raised THEN AutoHide ELSE alertTicks
  IN  IF touchDirty /\ ticks > 0 THEN 1 ELSE ticks

\* alert_slide_in, then alert_slide_out when the time is over.
MoveBanner ==
  /\ hidden' = (hidden /\ ~Raised)
  /\ alertTicks' = IF TicksLeft > 0 THEN TicksLeft - 1 ELSE 0
  /\ slide' = IF TicksLeft = 1 THEN "out" ELSE IF Raised THEN "in" ELSE slide

Tick ==
  /\ StartValueAnim
  /\ MoveBanner
  /\ tab' = IF irDirty THEN TabAfter(irKey) ELSE tab
  /\ dhtDirty' = FALSE /\ anomalyDirty' = FALSE /\ irDirty' = FALSE /\ touchDirty' = FALSE
  /\ UNCHANGED <<temp, irKey, touchPressed, label, lvPressed, muted>>

----------------------------------------------------------------------------
(* lv_timer_handler. *)

\* The label's animation ends: AnimTempCb with the final value.
ValueAnimEnds ==
  /\ valueAnim
  /\ label' = animTemp
  /\ valueAnim' = FALSE
  /\ UNCHANGED <<cache, animTemp, banner, lvPressed, tab, muted>>

\* Fault-seeded variant: no ready callback hides the banner.
SlideEndsShown ==
  /\ slide # "none"
  /\ slide' = "none"
  /\ UNCHANGED <<cache, values, hidden, alertTicks, lvPressed, tab, muted>>

\* The banner's animation ends; sliding out has AlertHideReadyCb hide it.
SlideEnds ==
  /\ slide # "none"
  /\ hidden' = (hidden \/ slide = "out")
  /\ slide' = "none"
  /\ UNCHANGED <<cache, values, alertTicks, lvPressed, tab, muted>>

\* The widgets a click can hit, as far as their callbacks change what is modelled:
\* none of them, a tab's button, or on the settings tab the switch of OnMuteChanged.
Click ==
  \/ UNCHANGED <<tab, muted>>
  \/ tab' \in 0..NTabs - 1 /\ UNCHANGED muted
  \/ tab = SettingsTab /\ muted' = ~muted /\ UNCHANGED tab

\* Fault-seeded variant: the press stays in the cache.
ReadTouchKeeping ==
  /\ lvPressed' = touchPressed
  /\ IF lvPressed /\ ~touchPressed THEN Click ELSE UNCHANGED <<tab, muted>>
  /\ UNCHANGED <<cache, values, banner>>

\* TouchReadCb, under the mutex: LVGL sees the press once.  A press that is gone
\* at the next read has been a click.
ReadTouch ==
  /\ lvPressed' = touchPressed
  /\ touchPressed' = FALSE
  /\ IF lvPressed /\ ~touchPressed THEN Click ELSE UNCHANGED <<tab, muted>>
  /\ UNCHANGED <<temp, dhtDirty, anomalyDirty, irKey, irDirty, touchDirty, values, banner>>

----------------------------------------------------------------------------
Next ==
  \/ \E v \in Values : UpdateDht11(v)
  \/ ShowAlert
  \/ \E pressed \in BOOLEAN : UpdateTouch(pressed)
  \/ \E key \in Keys : HandleIrKey(key)
  \/ Tick \/ ValueAnimEnds \/ SlideEnds \/ ReadTouch

\* main() goes on ticking, LVGL's timers are due again and again, and animations
\* have a duration.  No event has to come.
Fairness ==
  WF_vars(Tick) /\ WF_vars(ValueAnimEnds) /\ WF_vars(SlideEnds) /\ WF_vars(ReadTouch)

Spec == Init /\ [][Next]_vars /\ Fairness

----------------------------------------------------------------------------
\* Banner and timer agree: while time is left the banner is up and not on its way
\* out, whatever it was doing when the alert came; without time it is hidden or
\* sliding out, so that it cannot stay.
BannerMatchesTimer ==
  /\ alertTicks > 0 => ~hidden /\ slide # "out"
  /\ alertTicks = 0 => hidden \/ slide = "out"

\* Once no alert comes any more the banner goes, touched or not.
BannerLeaves == <>[]~anomalyDirty => <>[]hidden

\* Once the temperature stays the same the label shows it, although readings that
\* arrive during an animation replace its target.  (A first reading of 0 equals
\* the initial target, and leaves the placeholder.)
LabelCatchesUp ==
  \A v \in Values : <>[](temp = v) => <>[](label = v \/ (label = Placeholder /\ v = 0))

\* No press sticks in LVGL, even if the release never arrives.
PressEnds == <>[]~touchDirty => <>[]~lvPressed

============================================================================
