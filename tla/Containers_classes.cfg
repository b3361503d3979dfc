\* A four-slot ring buffer, every array of up to three of two values; a keyed
\* queue of two keys and five pushes; a pipe of two items, three pushed, its
\* owner ended twice and one restore; a file of four items.
CONSTANTS
  Elem = {0, 1}
  Zero = 0
  N = 4
  MaxChunk = 3
  Chunks <- MCChunks
  Counts = {0, 1, 2, 3, 5}
  Patterns <- MCPatterns
  Key = {k1, k2}
  NoEntry = NoEntry
  MaxPush = 5
  Capacity = 2
  MaxItems = 3
  MaxEnds = 2
  MaxRestores = 1
  MaxStored = 4
  MaxCount = 3
SPECIFICATION ContainersSpec
INVARIANTS OccupancyAgrees IndexesAgree ItemsKept ItemsSurvive
PROPERTIES ImplementsFifo
