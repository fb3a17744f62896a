-------------------------- MODULE DashboardProofs --------------------------
(***************************************************************************)
(* The dashboard's types and the agreement of banner and timer, for every  *)
(* length of the banner's time and every number of tabs.                   *)
(***************************************************************************)
EXTENDS Dashboard, TLAPS

\* Switching tabs left and right stays within the tabs there are.
LEMMA TabInRange ==
  ASSUME tab \in 0..NTabs - 1, NEW key
  PROVE  TabAfter(key) \in 0..NTabs - 1
<1>1. NTabs \in Nat \ {0}
  BY NumbersAssumption
<1>2. \A n \in Int : n % NTabs \in 0..NTabs - 1
  BY <1>1, SMT
<1>3. (tab + 1) % NTabs \in 0..NTabs - 1
  BY <1>1, <1>2
<1>4. (tab + NTabs - 1) % NTabs \in 0..NTabs - 1
  <2>1. tab + NTabs - 1 \in Int
    BY <1>1
  <2> QED
    BY <1>2, <2>1
<1>5. CASE key = "right"
  BY <1>3, <1>5 DEF TabAfter
<1>6. CASE key # "right"
  BY <1>4, <1>6 DEF TabAfter
<1> QED
  BY <1>5, <1>6

LEMMA DashboardInit == Init => TypeOK /\ BannerMatchesTimer
<1> SUFFICES ASSUME Init PROVE TypeOK /\ BannerMatchesTimer
  OBVIOUS
<1>1. alertTicks \in 0..AutoHide /\ tab \in 0..NTabs - 1
  BY NumbersAssumption DEF Init
<1>2. {valueAnim, hidden, lvPressed, muted} \subseteq BOOLEAN
  BY DEF Init
<1>3. {dhtDirty, anomalyDirty, irDirty, touchDirty, touchPressed} \subseteq BOOLEAN
  BY DEF Init
<1>4. BannerMatchesTimer
  BY DEF Init, BannerMatchesTimer
<1> QED
  BY <1>1, <1>2, <1>3, <1>4, ValuesAssumption DEF Init, TypeOK, Keys

\* Every step keeps every variable in its type.
LEMMA TypeStep == TypeOK /\ [Next]_vars => TypeOK'
<1> SUFFICES ASSUME TypeOK, [Next]_vars PROVE TypeOK'
  OBVIOUS
<1> USE DEF cache, values, banner
<1>1. ASSUME NEW v \in Values, UpdateDht11(v) PROVE TypeOK'
  BY <1>1 DEF UpdateDht11, TypeOK
<1>2. ASSUME ShowAlert PROVE TypeOK'
  BY <1>2 DEF ShowAlert, TypeOK
<1>3. ASSUME NEW pressed \in BOOLEAN, UpdateTouch(pressed) PROVE TypeOK'
  BY <1>3 DEF UpdateTouch, TypeOK
<1>4. ASSUME NEW key \in Keys, HandleIrKey(key) PROVE TypeOK'
  BY <1>4 DEF HandleIrKey, TypeOK
<1>5. ASSUME Tick PROVE TypeOK'
  <2>1. tab' \in 0..NTabs - 1
    BY <1>5, TabInRange DEF Tick, TypeOK
  <2>2. alertTicks' \in 0..AutoHide /\ slide' \in {"none", "in", "out"} /\ hidden' \in BOOLEAN
    BY <1>5, NumbersAssumption DEF Tick, MoveBanner, TicksLeft, TypeOK
  <2>3. animTemp' \in Values /\ valueAnim' \in BOOLEAN
    BY <1>5 DEF Tick, StartValueAnim, TypeOK
  <2> QED
    BY <1>5, <2>1, <2>2, <2>3 DEF Tick, TypeOK
<1>6. ASSUME ValueAnimEnds PROVE TypeOK'
  BY <1>6 DEF ValueAnimEnds, TypeOK
<1>7. ASSUME SlideEnds PROVE TypeOK'
  BY <1>7 DEF SlideEnds, TypeOK
<1>8. ASSUME ReadTouch PROVE TypeOK'
  <2>1. tab' \in 0..NTabs - 1 /\ muted' \in BOOLEAN
    BY <1>8 DEF ReadTouch, Click, TypeOK
  <2> QED
    BY <1>8, <2>1 DEF ReadTouch, TypeOK
<1>9. CASE UNCHANGED vars
  BY <1>9 DEF vars, TypeOK
<1> QED
  BY <1>1, <1>2, <1>3, <1>4, <1>5, <1>6, <1>7, <1>8, <1>9 DEF Next

\* Every variable of the dashboard keeps its type: the tab is one there is, and the
\* banner's time never exceeds ALERT_AUTO_HIDE_TICKS.
THEOREM DashboardTypes == Spec => []TypeOK
  BY DashboardInit, TypeStep, PTL DEF Spec

\* A step keeps banner and timer in agreement.
LEMMA BannerStep ==
  TypeOK /\ BannerMatchesTimer /\ [Next]_vars => BannerMatchesTimer'
<1> SUFFICES ASSUME TypeOK, BannerMatchesTimer, [Next]_vars PROVE BannerMatchesTimer'
  OBVIOUS
<1>1. ASSUME Tick PROVE BannerMatchesTimer'
  <2> USE NumbersAssumption DEF Tick, MoveBanner, TicksLeft, BannerMatchesTimer, TypeOK
  \* An alert that is shown brings the banner in, whatever it was doing.
  <2>1. CASE Raised
    BY <1>1, <2>1
  \* A touch, or the last tick, sends it out.
  <2>2. CASE ~Raised /\ alertTicks > 0
    BY <1>1, <2>2
  <2>3. CASE ~Raised /\ alertTicks = 0
    BY <1>1, <2>3
  <2> QED
    BY <2>1, <2>2, <2>3
<1>2. ASSUME SlideEnds PROVE BannerMatchesTimer'
  BY <1>2 DEF SlideEnds, BannerMatchesTimer, TypeOK
<1>3. CASE UNCHANGED banner
  BY <1>3 DEF banner, BannerMatchesTimer
<1> QED
  BY <1>1, <1>2, <1>3
     DEF Next, UpdateDht11, ShowAlert, UpdateTouch, HandleIrKey, ValueAnimEnds,
         ReadTouch, vars

\* While time is left the banner is up and not leaving, and without time it is hidden
\* or leaving: alert_ticks and the two animations never disagree.
THEOREM BannerCorrect == Spec => []BannerMatchesTimer
  BY DashboardInit, TypeStep, BannerStep, PTL DEF Spec

============================================================================
