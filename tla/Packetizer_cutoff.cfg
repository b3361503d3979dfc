\* Up to two frames, each whole or cut off anywhere, after a byte that looks
\* like the beginning of a sync word; chunks of one to three bytes.
CONSTANTS
  Byte <- MCByte
  Sync <- MCSync
  HeaderLen = 2
  TotalLength <- MCTotalLength
  SizeMod = 1000
  BufferLen = 8
  PacketMaxLen = 5
  MaxChunk = 3
  Contacts <- MCContacts
  LaterContacts <- MCLaterContacts
  MaxClears = 1
  MaxPieces = 2
  Totals = {3}
  Noise = 8
SPECIFICATION PacketizerSpec
INVARIANT CutOffIsDropped
CHECK_DEADLOCK FALSE
