------------------------------- MODULE FileStore -------------------------------
(***************************************************************************)
(* cromulence::buffer::filestore (containers): items appended to a file,   *)
(* which outlives the object.  An item is two halves on the disk, so that  *)
(* a write the disk cuts short leaves a half behind; push_back() compares  *)
(* what was written with what was asked and does nothing about it.         *)
(***************************************************************************)
EXTENDS Integers, Sequences, SequencesExt

CONSTANTS
  MaxStored,        (* bound: items appended                               *)
  MaxCount          (* the items the caller's array has room for           *)

FilestoreAssumption == MaxStored \in Nat /\ MaxCount \in Nat

VARIABLES
  exists,           (* an object stands for path_                          *)
  disk,             (* the contents of path_: halves of items              *)
  copy,             (* what save() wrote to the other path: none, or one   *)
  out,              (* the caller's array                                  *)
  stored,           (* items appended so far                               *)
  kept,             (* those appended since the last clear()               *)
  sound,            (* how many of these came before any write was cut     *)
  short             (* the disk cut a write short                          *)

vars == <<exists, disk, copy, out, stored, kept, sound, short>>

Halves(s) == [j \in 1..(2 * Len(s)) |-> <<s[(j + 1) \div 2], 2 - (j % 2)>>]

(* size(): whole items, whatever follows them.                             *)
Size == Len(disk) \div 2

(* The i-th item as fread() sees it: the halves where it should be.        *)
Read(d, i) == <<d[2 * i - 1], d[2 * i]>>

ConstructTruncates ==
  /\ ~exists /\ exists' = TRUE /\ disk' = <<>>
  /\ UNCHANGED <<copy, out, stored, kept, sound, short>>

(* The constructor opens an existing file to append, and makes a new one.  *)
Filestore ==
  /\ ~exists /\ exists' = TRUE
  /\ UNCHANGED <<disk, copy, out, stored, kept, sound, short>>

Destroy ==
  /\ exists /\ exists' = FALSE
  /\ UNCHANGED <<disk, copy, out, stored, kept, sound, short>>

(* push_back() of n items.                                                 *)
PushBack(n) ==
  /\ exists /\ stored + n <= MaxStored
  /\ LET items == [i \in 1..n |-> stored + i]
     IN \E m \in 0..(2 * n) :
          /\ disk' = disk \o SubSeq(Halves(items), 1, m)
          /\ short' = (short \/ m < 2 * n)
          /\ kept' = kept \o items
          /\ sound' = IF sound = Len(kept) THEN sound + (m \div 2) ELSE sound
  /\ stored' = stored + n
  /\ UNCHANGED <<exists, copy, out>>

Clear ==
  /\ exists
  /\ disk' = <<>> /\ kept' = <<>> /\ sound' = 0
  /\ UNCHANGED <<exists, copy, out, stored, short>>

(* save(): refuses a path that exists.                                     *)
Save ==
  /\ exists /\ copy = <<>>
  /\ copy' = <<disk>>
  /\ UNCHANGED <<exists, disk, out, stored, kept, sound, short>>

(* load(): as many items as path_ has, read from the path it is given;     *)
(* what that file has less is left as it was in the array.                 *)
Load(from) ==
  /\ exists /\ Size <= MaxCount
  /\ LET n == Len(from) \div 2
     IN out' = [i \in 1..MaxCount |-> IF i <= Size /\ i <= n THEN Read(from, i) ELSE out[i]]
  /\ UNCHANGED <<exists, disk, copy, stored, kept, sound, short>>

Init ==
  /\ exists = FALSE /\ disk = <<>> /\ copy = <<>>
  /\ out = [i \in 1..MaxCount |-> <<>>]
  /\ stored = 0 /\ kept = <<>> /\ sound = 0 /\ short = FALSE

Next ==
  \/ Filestore \/ Destroy \/ Clear \/ Save
  \/ \E n \in 1..2 : PushBack(n)
  \/ Load(disk)
  \/ copy # <<>> /\ Load(copy[1])

Spec == Init /\ [][Next]_vars

-----------------------------------------------------------------------------
TypeOK ==
  /\ exists \in BOOLEAN /\ short \in BOOLEAN
  /\ {disk} \cup ToSet(copy) \subseteq Seq((1..stored) \X (1..2))
  /\ kept \in Seq(1..stored) /\ stored \in 0..MaxStored /\ sound \in 0..Len(kept)

Intact(n) == \A j \in 1..(2 * n) : j <= Len(disk) /\ disk[j] = Halves(kept)[j]

(* Objects come and go and the items stay, in order and whole and with     *)
(* nothing between them: all of them up to the first write that the disk   *)
(* cut short, in the middle of an item or of several, and all of them      *)
(* again after a clear().  Without such a write, what load() reads is      *)
(* items, never the halves of two.                                         *)
ItemsSurvive ==
  /\ Intact(sound)
  /\ sound = Len(kept) => disk = Halves(kept)
  /\ ~short => /\ sound = Len(kept)
               /\ \A i \in 1..MaxCount : out[i] # <<>> => out[i][1][1] = out[i][2][1]
=============================================================================
