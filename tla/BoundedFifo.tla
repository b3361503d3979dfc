----------------------------- MODULE BoundedFifo -----------------------------
(***************************************************************************)
(* What a fixed-capacity byte queue promises its callers, with no indices  *)
(* and no storage: a sequence that never grows past Capacity, whole-or-     *)
(* nothing pushes, pops that return the oldest elements in order, and a    *)
(* search whose answer may be used to discard a prefix without losing an   *)
(* occurrence of the pattern.                                              *)
(*                                                                         *)
(* cromulence::buffer::circular (containers/h/circular.hpp) is shown to    *)
(* implement this specification in module Circular.                        *)
(***************************************************************************)
EXTENDS Integers, Sequences

CONSTANTS
  Elem,      (* the values a slot can hold                                 *)
  Capacity,  (* the most elements held at once                             *)
  Chunks,    (* the sequences a caller may push in one call                *)
  Counts,    (* the lengths a caller may pop or discard in one call        *)
  Patterns   (* the sequences a caller may search for                      *)

VARIABLES
  queue,     (* the elements held, oldest first                            *)
  call,      (* the last call: its operation and its argument              *)
  reply      (* what that call returned or threw                           *)

fifoVars == <<queue, call, reply>>

-----------------------------------------------------------------------------
Returned(data)      == [kind |-> "data", data |-> data]
Thrown(what)        == [kind |-> "throw", what |-> what]
Completed           == [kind |-> "void"]
Search(found, at)   == [kind |-> "search", found |-> found, at |-> at]

(* pattern p occurs in sequence q with k elements before it                *)
OccursAt(q, p, k) ==
  /\ k + Len(p) <= Len(q)
  /\ \A z \in 1..Len(p) : q[k + z] = p[z]

-----------------------------------------------------------------------------
Init ==
  /\ queue = <<>>
  /\ call = <<"construct">>
  /\ reply = Completed

Push(s) ==
  /\ call' = <<"push", s>>
  /\ \/ /\ Len(queue) + Len(s) <= Capacity
        /\ queue' = queue \o s
        /\ reply' = Completed
     \/ /\ Len(queue) + Len(s) > Capacity
        /\ reply' = Thrown("overflow")
        /\ UNCHANGED queue

Pop(n) ==
  /\ call' = <<"pop", n>>
  /\ \/ /\ n <= Len(queue)
        /\ reply' = Returned(SubSeq(queue, 1, n))
        /\ queue' = SubSeq(queue, n + 1, Len(queue))
     \/ /\ n > Len(queue)
        /\ reply' = Thrown("underflow")
        /\ UNCHANGED queue

Discard(n) ==
  /\ call' = <<"discard", n>>
  /\ queue' = SubSeq(queue, n + 1, Len(queue))
  /\ reply' = Completed

Clear ==
  /\ call' = <<"clear">>
  /\ queue' = <<>>
  /\ reply' = Completed

(* A hit is the first occurrence. A miss comes with an offset up to which  *)
(* nothing that begins there matches, so that much can be thrown away.     *)
Find(p) ==
  /\ call' = <<"find", p>>
  /\ \E at \in 0..Len(queue) :
       \/ /\ OccursAt(queue, p, at)
          /\ reply' = Search(TRUE, at)
          /\ \A j \in 0..(at - 1) : ~OccursAt(queue, p, j)
       \/ /\ reply' = Search(FALSE, at)
          /\ \A j \in 0..(at - 1) : ~OccursAt(queue, p, j)
  /\ UNCHANGED queue

Next ==
  \/ \E s \in Chunks : Push(s)
  \/ \E n \in Counts : Pop(n) \/ Discard(n)
  \/ Clear
  \/ \E p \in Patterns : Find(p)

Spec == Init /\ [][Next]_fifoVars
=============================================================================
