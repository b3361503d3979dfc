\* The message of DeleteDB().
CONSTANTS
  t1 = t1
  t2 = t2
  Name = {"admin", "ann", "bob"}
  Thread = {t1, t2}
SPECIFICATION Spec
INVARIANT AdminKept
CHECK_DEADLOCK FALSE
