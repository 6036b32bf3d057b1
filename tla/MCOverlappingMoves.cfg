SPECIFICATION Spec
CONSTANTS
  Threads = {t1, t2, t3}
  Quiescent = Quiescent
  MaxCalls = 2
INVARIANT
  OnSomeList
CHECK_DEADLOCK FALSE
