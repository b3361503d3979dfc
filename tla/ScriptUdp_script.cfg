\* Three commands of two kinds, any two datagrams lost on the way and any number
\* to resets and a configure; two commands to a wake (six in the code).
CONSTANTS
  Command <- MCCommand
  ToId <- MCToId
  Bad <- MCBad
  SERVER_PORT = 9000
  Port = {9000, 53}
  Taken = {53}
  Team = {"user1"}
  PipeDepth = 1
  MaxCount = 1
  MaxSent = 3
  MaxLost = 2
  MaxConfigures = 1
SPECIFICATION FairSpec
CHECK_DEADLOCK FALSE
INVARIANT DescriptorsAccounted
PROPERTIES AsksAsTold ServedWhenQuiet
