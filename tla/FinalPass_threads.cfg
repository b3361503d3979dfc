\* Three users, any number of uploads one after the other; the threads are scheduled.
CONSTANTS
  t1 = t1
  t2 = t2
  Name = {"admin", "ann", "bob"}
  Thread = {t1, t2}
SPECIFICATION FairSpec
CHECK_DEADLOCK FALSE
PROPERTIES NeverOverwritten SessionsAreWhole LoadDBReturns
