\* Unlimited events; the banner's time is three ticks.
CONSTANTS
  Values <- ThreeValues
  Placeholder = Placeholder
  AutoHide = 3
  NTabs = 3
  SettingsTab = 2
SPECIFICATION Spec
INVARIANTS TypeOK BannerMatchesTimer
PROPERTIES BannerLeaves LabelCatchesUp PressEnds
