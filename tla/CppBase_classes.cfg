\* Up to three messages, two fit into the pipe; two children, a wait of two
\* turns; a counter of three bits for the sixteen of the code.
CONSTANTS
  Registrations <- MCRegistrations
  Message <- MCMessage
  pipeDepth_ = 2
  MaxPosts = 3
  Child = {c1, c2}
  Null = Null
  Nobody = Nobody
  user = user
  root = root
  Id <- MCId
  Root = root
  Identity <- MCIdentity
  Ordinary <- MCOrdinary
  RetryLimit = 1
  MsgId = {6160, 2064}
  File <- MCFile
  Rate = {0, 2, 3}
  Route = {0, 7}
  Depth = {0}
  CounterSize = 8
  s1 = s1
  s2 = s2
  s3 = s3
  s4 = s4
  twin = twin
  State = {s1, s2, s3, s4, twin}
  Name = {"one", "two", "ERROR", ""}
  IdOf <- MCIdOf
  Error = "ERROR"
  Empty = ""
SPECIFICATION CppBaseSpec
CHECK_DEADLOCK FALSE
INVARIANTS ExecutedAsRegistered ChildrenAccounted StopIsSafe EnteredFirst
PROPERTIES AcceptedIsExecuted FilterAsTold LoopsEnd
