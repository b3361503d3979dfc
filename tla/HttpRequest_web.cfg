SPECIFICATION HttpFairSpec
CONSTANTS
  IntMax = 15
  MaxSizes <- MC_MaxSizes
  InitialMemory = 4
  Lengths <- MC_Lengths
  SendDirList = TRUE
  UseIfModHdr = TRUE
CHECK_DEADLOCK FALSE
INVARIANTS BodyFits BodyIsWhole AnsweredOnce AcceptedIsWhole
PROPERTIES ClosedEnds
