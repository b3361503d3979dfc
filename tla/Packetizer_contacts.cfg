\* Up to three frames, each whole or cut off anywhere, after a byte that looks
\* like the beginning of a sync word; frames longer than the packet buffer, and
\* headers that announce less than a header, more than the packet buffer or more
\* than the store can hold.  Chunks of one to three bytes.
CONSTANTS
  Byte <- MCByte
  Sync <- MCSync
  HeaderLen = 2
  TotalLength <- MCTotalLength
  SizeMod = 1000
  BufferLen = 8
  PacketMaxLen = 5
  MaxChunk = 3
  Contacts <- MCContacts
  LaterContacts <- MCLaterContacts
  MaxClears = 1
  MaxPieces = 3
  Totals = {3}
  Noise = 8
SPECIFICATION PacketizerFairSpec
CHECK_DEADLOCK FALSE
INVARIANTS StreamRecovered LossIsLocal OnlyOversizeWedges
PROPERTY GetPacketReturns
