\* One command of two kinds and no loss on the way.
CONSTANTS
  Command <- MCCommand
  ToId <- MCToId
  Bad <- MCBad
  SERVER_PORT = 9000
  Port = {9000, 53}
  Taken = {53}
  Team = {"user1"}
  PipeDepth = 1
  MaxCount = 1
  MaxSent = 1
  MaxLost = 0
  MaxConfigures = 1
SPECIFICATION Spec
CHECK_DEADLOCK FALSE
INVARIANT CameraPowerAsTold
