SPECIFICATION FairSpec
CONSTANTS
  a = a
  b = b
  c = c
  x = x
  t1 = t1
  t2 = t2
  t3 = t3
  t4 = t4
  Tasks = {t1, t2, t3, t4}
  EffectKeys = {t1, t2, t3, t4}
  Specs <- OneChain
  Callers = {1, 2}
  Notified = FALSE
  MaxFaults = 0
PROPERTY StepRuns
CHECK_DEADLOCK FALSE
