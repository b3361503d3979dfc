\* Every handler in any order over a few seconds, with intervals scaled to two
\* seconds and at most two geofence files read.
CONSTANTS
  Team = {t1}
  NoTeam = NoTeam
  ImageId = {1}
  p1 = p1
  p2 = p2
  Position = {p1, p2}
  Attitude = {a1}
  o1 = o1
  o2 = o2
  Offset = {o1, o2}
  Unset = Unset
  z1 = z1
  z2 = z2
  dir1 = dir1
  dir2 = dir2
  Inside <- MCInside
  Fence <- MCFence
  ANTI_SPAM_INTERVAL = 2
  MEASURE_TIMEOUT = 2
  Launch = 3
  MaxTime = 7
  MaxLoads = 2
  DEFAULT_HEARTBEAT_FRAMES = 10
  Rate = {1, 2}
  Sentence <- MCSentence
  FRAMES = 10
  FrameCount = {0, 1}
  Pointing = {q1}
  ANSWER_WITHIN = 1
  MaxBeats = 3
  MaxCommands = 3
SPECIFICATION ImagingSpec
CHECK_DEADLOCK FALSE
INVARIANTS RequestsKeepComing FreshWhilePolled
PROPERTIES CameraOpsSpaced NoPictureOverZone DecidedOnMeasurements
