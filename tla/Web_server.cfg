SPECIFICATION WebSpec
CONSTANTS
  c1 = c1
  c2 = c2
  Nil = Nil
  None = None
  Long = Long
  Header = Header
  Footer = Footer
  Key = {1, 2, 3, 4}
  Width <- MC_Width
  Anonymous = {4}
  HeaderWidth = 3
  FooterWidth = 3
  ByteMod = 8
  LineMax = 10
  MaxVisits = 4
  Connections <- MC_Connections
  Interval = 2
  PerWindow = 2
  IniFile <- MC_IniFile
  MimeFile <- MC_MimeFile
  EnvPort <- MC_EnvPort
  PortMod = 8
  SizeMod = 16
  MaxStarved = 1
CHECK_DEADLOCK FALSE
INVARIANTS RateLimited SocketsAccounted ServesAsConfigured ReportIsTheTable
PROPERTIES NobodyIsLeftWaiting
