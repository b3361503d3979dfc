\* Two clients, up to two challenges, one datagram waiting.
CONSTANTS
  c1 = c1
  c2 = c2
  Client = {c1, c2}
  User = {"ann", "bob"}
  userList_ = {"ann", "bob"}
  Id = {0, 1}
  Stored <- MCStored
  MaxChallenges = 2
  MaxInbox = 1
SPECIFICATION Spec
CHECK_DEADLOCK FALSE
SYMMETRY Symmetric
INVARIANT ChallengeSpentOnce
PROPERTIES MovedForItsUser ImplementsBank
