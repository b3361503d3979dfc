------------------------------ MODULE Containers ------------------------------
(***************************************************************************)
(* The container classes, which share nothing: each behaviour is one of    *)
(* one class, the subject, while the others stay as they were made.        *)
(***************************************************************************)
EXTENDS Circular

CONSTANTS Key, NoEntry, MaxPush, Capacity, MaxItems, MaxEnds, MaxRestores, MaxStored, MaxCount

VARIABLES
  subject,
  list_, map_, keyOf, twice,
  type_, openers, fifo, file, phase, nItems, data, linked, pushed, taken,
  dropped, gone, disturbed, overtaken, restored, ends,
  exists, disk, copy, out, stored, kept, sound, short

Queue == INSTANCE KeyQueue
Pipe  == INSTANCE PersistentFifo
Store == INSTANCE FileStore

circularVars == <<buffer_, front_, back_, available_, fullness_, call, reply>>
queueVars    == <<list_, map_, keyOf, twice>>
pipeVars     == <<type_, openers, fifo, file, phase, nItems, data, linked, pushed,
                  taken, dropped, gone, disturbed, overtaken, restored, ends>>
storeVars    == <<exists, disk, copy, out, stored, kept, sound, short>>

ASSUME ContainersAssumption ==
  Queue!KeyQueueAssumption /\ Pipe!PersistentAssumption /\ Store!FilestoreAssumption

ContainersInit ==
  /\ subject \in {"circular", "queue", "pipe", "store"}
  /\ Init /\ Queue!Init /\ Pipe!Init /\ Store!Init
  /\ subject # "circular" => \A i \in DOMAIN buffer_ : buffer_[i] = Zero

ContainersNext ==
  \/ subject = "circular" /\ Next /\ UNCHANGED <<subject, queueVars, pipeVars, storeVars>>
  \/ subject = "queue" /\ Queue!Next /\ UNCHANGED <<subject, circularVars, pipeVars, storeVars>>
  \/ subject = "pipe" /\ Pipe!Next /\ UNCHANGED <<subject, circularVars, queueVars, storeVars>>
  \/ subject = "store" /\ Store!Next /\ UNCHANGED <<subject, circularVars, queueVars, pipeVars>>

containersVars == <<subject, circularVars, queueVars, pipeVars, storeVars>>

ContainersSpec == ContainersInit /\ [][ContainersNext]_containersVars

-----------------------------------------------------------------------------
(* The types of all four.                                                  *)
ContainersTypeOK == TypeOK /\ Queue!TypeOK /\ Pipe!TypeOK /\ Store!TypeOK

(* KeyQueue's IndexesAgree: the map of the keyed queue never leads to an   *)
(* entry that has left it.                                                 *)
IndexesAgree == Queue!IndexesAgree

(* PersistentFifo: wherever the owner ends and whatever the peer does,     *)
(* items are lost only out of the array of a save(), none is handed out    *)
(* twice, and they leave in order unless the peer pushes during a save().  *)
ItemsKept == ContainersTypeOK /\ Pipe!NothingLost /\ Pipe!OrderKept

(* FileStore's ItemsSurvive: items stay whole and in order on the disk.    *)
ItemsSurvive == Store!ItemsSurvive
=============================================================================
