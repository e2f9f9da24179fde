SPECIFICATION Spec
CONSTANTS
  Threads = {t1, t2}
  MaxStarts = 2
INVARIANTS TypeOK ServedByWholeLibrary FailuresTold LitterExplained
PROPERTIES CallersAnswered
CHECK_DEADLOCK FALSE
