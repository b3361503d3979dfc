----------------------------- MODULE PersistentFifo -----------------------------
(***************************************************************************)
(* cromulence::buffer::persistent (containers): a queue in a named pipe,   *)
(* shared with other processes, that can be saved to a file.  save() has   *)
(* to take everything out of the pipe to see it, and puts it back; the     *)
(* kernel keeps the contents only while somebody has the pipe open.        *)
(*                                                                         *)
(* One object, the owner, may be ended at any moment and opened again; the *)
(* peer stands for every other process that has the pipe open.  Items are  *)
(* numbered in the order they are pushed.                                  *)
(***************************************************************************)
EXTENDS Integers, Sequences, SequencesExt

CONSTANTS
  Capacity,         (* maxSizeItems_                                       *)
  MaxItems,         (* bound: items pushed                                 *)
  MaxEnds,          (* bound: how often the owner ends                     *)
  MaxRestores       (* bound: calls of restore()                           *)

PersistentAssumption == {Capacity, MaxItems, MaxEnds, MaxRestores} \subseteq Nat

VARIABLES
  type_,            (* "READ" (opened read-only), "WRITE" (for both)       *)
  openers,          (* who has the pipe open                               *)
  fifo, file,       (* the contents of the pipe and of the saved file      *)
  phase, nItems, data,    (* what the owner is in; its local variables     *)
  linked,           (* the path still names this pipe                      *)
  pushed, taken,    (* items so far; those handed out, in order            *)
  dropped,          (* items cleared or closed away                        *)
  gone,             (* items a save() took out and did not put back        *)
  disturbed,        (* the owner ended with items in its hands, the peer   *)
                    (* used the pipe during a save(), or an object that    *)
                    (* cannot write was asked for one                      *)
  overtaken,        (* the peer pushed during a save()                     *)
  restored, ends

local == <<phase, nItems, data>>
past  == <<pushed, taken, dropped, restored, ends>>
harm  == <<gone, disturbed, overtaken>>
vars  == <<type_, openers, fifo, file, local, linked, past, harm>>

Min2(a, b) == IF a < b THEN a ELSE b

(* What is left of the pipe when p closes it.                              *)
Left(p)     == IF openers = {p} THEN <<>> ELSE fifo
Dropping(s) == dropped' = dropped \cup ToSet(s)

Busy   == phase # "idle"
Saving == phase \in {"save", "popped", "written"}
Moving == phase \in {"popped", "written"}   (* save() holds the items *)

-----------------------------------------------------------------------------
(* open_fifo(): makes the pipe unless the path names one.                  *)
Open ==
  /\ "owner" \notin openers
  /\ type_' \in {"READ", "WRITE"}
  /\ openers' = IF linked THEN openers \cup {"owner"} ELSE {"owner"}
  /\ fifo' = IF linked THEN fifo ELSE <<>>
  /\ dropped' = IF linked THEN dropped ELSE dropped \cup ToSet(fifo)
  /\ linked' = TRUE
  /\ UNCHANGED <<file, local, pushed, taken, restored, ends, harm>>

(* The peer, which uses a READ object and a WRITE object of its own.       *)
PeerOpens ==
  /\ linked /\ "peer" \notin openers
  /\ openers' = openers \cup {"peer"}
  /\ UNCHANGED <<type_, fifo, file, local, linked, past, harm>>

PeerCloses ==
  /\ "peer" \in openers
  /\ openers' = openers \ {"peer"}
  /\ fifo' = Left("peer") /\ dropped' = IF openers = {"peer"} THEN dropped \cup ToSet(fifo) ELSE dropped
  /\ UNCHANGED <<type_, file, local, linked, pushed, taken, restored, ends, harm>>

(* push_back() of one item; a full pipe throws.                            *)
PushBack(p) ==
  /\ p \in openers /\ pushed < MaxItems
  /\ p = "owner" => ~Busy /\ type_ = "WRITE"
  /\ Len(fifo) < Capacity
  /\ fifo' = Append(fifo, pushed + 1) /\ pushed' = pushed + 1
  /\ disturbed' = (disturbed \/ Saving) /\ overtaken' = (overtaken \/ Saving)
  /\ UNCHANGED <<type_, openers, file, local, linked, taken, dropped, restored, ends, gone>>

(* pop_front() of one item; an empty pipe throws.                          *)
PopFront(p) ==
  /\ p \in openers /\ (p = "owner" => ~Busy)
  /\ fifo # <<>>
  /\ fifo' = Tail(fifo) /\ taken' = Append(taken, Head(fifo))
  /\ disturbed' = (disturbed \/ Saving)
  /\ UNCHANGED <<type_, openers, file, local, linked, pushed, dropped, restored, ends, gone, overtaken>>

(* write() of a whole array: what does not fit is left out, and throws. A  *)
(* short array goes in whole or not at all, a long one up to the capacity. *)
Written(s) ==
  IF Len(fifo) + Len(s) <= Capacity THEN {fifo \o s}
  ELSE {fifo, fifo \o SubSeq(s, 1, Capacity - Len(fifo))}

-----------------------------------------------------------------------------
(* save(): counts, makes the file empty, ...                               *)
SaveBegin ==
  /\ "owner" \in openers /\ ~Busy
  /\ phase' = "save" /\ nItems' = Len(fifo) /\ data' = <<>>
  /\ file' = <<>> /\ disturbed' = (disturbed \/ type_ = "READ")
  /\ UNCHANGED <<type_, openers, fifo, linked, past, gone, overtaken>>

SavePopShort ==
  /\ phase = "save" /\ Len(fifo) >= nItems
  /\ fifo' = SubSeq(fifo, nItems + 1, Len(fifo))
  /\ phase' = "popped" /\ data' = SubSeq(fifo, 1, nItems - 1)
  /\ UNCHANGED <<type_, openers, file, nItems, linked, past, harm>>

(* ... takes that many items; fewer throw, and are gone with the array ... *)
SavePop ==
  /\ phase = "save"
  /\ fifo' = SubSeq(fifo, Min2(nItems, Len(fifo)) + 1, Len(fifo))
  /\ IF Len(fifo) < nItems
     THEN phase' = "idle" /\ data' = <<>> /\ gone' = gone \cup ToSet(fifo)
     ELSE phase' = "popped" /\ data' = SubSeq(fifo, 1, nItems) /\ UNCHANGED gone
  /\ UNCHANGED <<type_, openers, file, nItems, linked, past, disturbed, overtaken>>

(* ... writes the file ...                                                 *)
SaveWrite ==
  /\ phase = "popped"
  /\ file' = data /\ phase' = "written"
  /\ UNCHANGED <<type_, openers, fifo, nItems, data, linked, past, harm>>

(* ... and puts the items back, which an object opened read-only cannot.   *)
SaveRestore ==
  /\ phase = "written"
  /\ IF type_ = "READ" THEN UNCHANGED fifo ELSE fifo' \in Written(data)
  /\ phase' = "idle" /\ data' = <<>>
  /\ gone' = gone \cup (ToSet(data) \ ToSet(fifo'))
  /\ UNCHANGED <<type_, openers, file, nItems, linked, past, disturbed, overtaken>>

(* restore(): reads the file, ...                                          *)
RestoreBegin ==
  /\ "owner" \in openers /\ ~Busy
  /\ phase' = "clear" /\ data' = file /\ nItems' = Len(fifo)
  /\ restored < MaxRestores /\ restored' = restored + 1
  /\ UNCHANGED <<type_, openers, fifo, file, linked, pushed, taken, dropped, ends, harm>>

(* ... clears the pipe item by item (clear(), which is also a call of its  *)
(* own, with no data behind it) ...                                        *)
ClearBegin ==
  /\ "owner" \in openers /\ ~Busy
  /\ phase' = "clear" /\ data' = <<>> /\ nItems' = Len(fifo)
  /\ UNCHANGED <<type_, openers, fifo, file, linked, past, harm>>

ClearOne ==
  /\ phase = "clear" /\ nItems > 0
  /\ IF fifo = <<>> THEN phase' = "idle" /\ data' = <<>> /\ UNCHANGED <<fifo, dropped, nItems>>
     ELSE /\ fifo' = Tail(fifo) /\ Dropping(<<Head(fifo)>>) /\ nItems' = nItems - 1
          /\ UNCHANGED <<phase, data>>
  /\ UNCHANGED <<type_, openers, file, linked, pushed, taken, restored, ends, harm>>

(* ... and pushes what it has read.                                        *)
RestorePush ==
  /\ phase = "clear" /\ nItems = 0
  /\ IF type_ = "READ" THEN UNCHANGED fifo ELSE fifo' \in Written(data)
  /\ phase' = "idle" /\ data' = <<>>
  /\ UNCHANGED <<type_, openers, file, nItems, linked, past, harm>>

(* The destructor, kill() (which also unlinks the path), or the end of the *)
(* owner's process at any moment.                                          *)
OwnerEnds ==
  /\ "owner" \in openers /\ ends < MaxEnds
  /\ ends' = ends + 1
  /\ openers' = openers \ {"owner"}
  /\ fifo' = Left("owner")
  /\ dropped' = IF openers = {"owner"} THEN dropped \cup ToSet(fifo) ELSE dropped
  /\ phase' = "idle" /\ data' = <<>> /\ nItems' = 0
  /\ gone' = (IF Moving THEN gone \cup ToSet(data) ELSE gone)
  /\ disturbed' = (disturbed \/ Moving)
  /\ linked' \in {linked} \cup (IF Busy THEN {} ELSE {FALSE})
  /\ UNCHANGED <<type_, file, pushed, taken, restored, overtaken>>

Init ==
  /\ type_ = "WRITE" /\ openers = {} /\ fifo = <<>> /\ file = <<>>
  /\ phase = "idle" /\ nItems = 0 /\ data = <<>> /\ linked = FALSE
  /\ pushed = 0 /\ taken = <<>> /\ dropped = {}
  /\ gone = {} /\ disturbed = FALSE /\ overtaken = FALSE /\ restored = 0 /\ ends = 0

Next ==
  \/ Open \/ PeerOpens \/ PeerCloses \/ OwnerEnds
  \/ \E p \in {"owner", "peer"} : PushBack(p) \/ PopFront(p)
  \/ SaveBegin \/ SavePop \/ SaveWrite \/ SaveRestore
  \/ RestoreBegin \/ ClearBegin \/ ClearOne \/ RestorePush

Spec == Init /\ [][Next]_vars

-----------------------------------------------------------------------------
TypeOK ==
  /\ type_ \in {"READ", "WRITE"}
  /\ openers \subseteq {"owner", "peer"}
  /\ {fifo, file, data} \subseteq Seq(1..pushed)
  /\ Len(fifo) <= Capacity
  /\ phase \in {"idle", "save", "popped", "written", "clear"}
  /\ Busy => "owner" \in openers
  /\ nItems \in 0..Capacity /\ pushed \in 0..MaxItems /\ restored \in 0..MaxRestores
  /\ dropped \subseteq 1..pushed /\ gone \subseteq 1..pushed

InHand     == IF Moving THEN ToSet(data) ELSE {}
Everything == ToSet(fifo) \cup ToSet(taken) \cup dropped \cup InHand

(* Wherever the owner ends and whatever the peer does meanwhile, an item   *)
(* that was pushed and is neither in the pipe, handed out nor dropped on   *)
(* purpose was in the array of a save(): of one that ended, found fewer    *)
(* items than it had counted, or found no room when it put them back.      *)
(* Nothing of this happens undisturbed; and from the moment the file is    *)
(* written until save() is through, it has all that the array has.         *)
NothingLost ==
  /\ \A i \in 1..pushed : i \in Everything \cup gone
  /\ ~disturbed => gone = {}
  /\ phase = "written" => file = data

Increasing(s) == \A i, j \in DOMAIN s : i < j => s[i] < s[j]

(* Until a restore brings back what was there before, no item is in two    *)
(* places, to be handed out twice, whoever ends or interferes; and items   *)
(* leave in the order they were pushed unless the peer pushes in the       *)
(* middle of a save(), which puts what it holds behind the newer ones.     *)
OrderKept ==
  restored = 0 =>
    /\ IsInjective(taken \o fifo \o data)
    /\ ~overtaken => Increasing(taken \o fifo \o data)
=============================================================================
