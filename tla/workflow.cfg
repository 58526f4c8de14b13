SPECIFICATION FairSpec
CONSTANTS
  a = a
  b = b
  c = c
  x = x
  t1 = t1
  t2 = t2
  t3 = t3
  t4 = t4
  Tasks = {t1, t2, t3, t4}
  EffectKeys = {t1, t2, t3, t4}
  Specs <- AllShapes
  Callers = {1, 2}
  Notified = TRUE
  MaxFaults = 1
INVARIANTS
  LineageInv
  SoloInv
  LaunchedAfterDependencies
  OutcomeIsBacked
  LaunchedOnce
  OrphanNeedsFailure
  KahnDecides
PROPERTIES
  OutcomeIsFinal
  
CHECK_DEADLOCK FALSE
