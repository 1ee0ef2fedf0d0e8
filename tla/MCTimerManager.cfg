CONSTANTS
  Timer = {t1, t2, t3}
  Repeating = {t1}
  Delay = {1, 2}
  Interval = 1
  MaxLate = 1
  MaxQueued = 1
SPECIFICATION FairSpec
INVARIANTS TimersAreArmed CancelIsFinal
PROPERTY TimersFire
CHECK_DEADLOCK FALSE
