SPECIFICATION Spec
INVARIANTS
  PanelsNeedMenu
  DeafOnlyWhileSelected
  OpenListIsSeen
  MiddleTapToggles
