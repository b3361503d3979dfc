------------------------------- MODULE Circular -------------------------------
(***************************************************************************)
(* The fixed-size ring buffer cromulence::buffer::circular<T, N>, the byte *)
(* store under the packetizer: containers/h/circular.hpp.  Storage, both   *)
(* cursors and both occupancy counters are kept as the class keeps them,   *)
(* and the copies that straddle the end of the array are made in the two   *)
(* pieces the code makes them in.                                          *)
(***************************************************************************)
EXTENDS Integers, Sequences

CONSTANTS
  Elem,      (* the values of type T                                       *)
  Zero,      (* the value memset leaves in a slot                          *)
  N,         (* the template's capacity                                    *)
  Chunks,    (* arrays a caller passes to push_back                        *)
  Counts,    (* lengths a caller passes to pop_front and remove            *)
  Patterns   (* patterns a caller passes to find_pattern                   *)

ASSUME CapacityAssumption == N \in Nat \ {0}
ASSUME CallerAssumption ==
  /\ Zero \in Elem
  /\ Chunks \subseteq Seq(Elem)
  /\ Counts \subseteq Nat
  /\ Patterns \subseteq Seq(Elem)

VARIABLES
  buffer_,     (* the N slots                                              *)
  front_,      (* slot of the oldest element                               *)
  back_,       (* slot the next element goes to                            *)
  available_,  (* free slots, the counter push_back checks                 *)
  fullness_,   (* used slots, the counter everything else checks           *)
  call,        (* the last call: its operation and its argument            *)
  reply        (* what that call returned or threw                         *)

vars == <<buffer_, front_, back_, available_, fullness_, call, reply>>

Slot == 0..(N - 1)

(* The elements held, oldest first: what the buffer means to a caller.     *)
Content == [i \in 1..fullness_ |-> buffer_[(front_ + (i - 1)) % N]]

Fifo == INSTANCE BoundedFifo WITH Capacity <- N, queue <- Content

-----------------------------------------------------------------------------
(* memcpy of sequence s into the slots from at on; memcpy of n slots out.  *)
CopyIn(buf, at, s) ==
  [i \in Slot |-> IF i \in at..(at + Len(s) - 1) THEN s[i - at + 1] ELSE buf[i]]

CopyOut(at, n) == [i \in 1..n |-> buffer_[at + (i - 1)]]

StoredRestartsSource(s) ==
  IF back_ + Len(s) > N
  THEN LET sz1 == N - back_
       IN  CopyIn(CopyIn(buffer_, back_, SubSeq(s, 1, sz1)),
                  0, SubSeq(s, 1, Len(s) - sz1))
  ELSE CopyIn(buffer_, back_, s)

(* The storage after push_back has copied s in, in one piece or in two.    *)
Stored(s) ==
  IF back_ + Len(s) > N
  THEN LET sz1 == N - back_
       IN  CopyIn(CopyIn(buffer_, back_, SubSeq(s, 1, sz1)),
                  0, SubSeq(s, sz1 + 1, Len(s)))
  ELSE CopyIn(buffer_, back_, s)

(* What pop_front copies out, in one piece or in two.                      *)
Fetched(n) ==
  IF n > N - front_
  THEN CopyOut(front_, N - front_) \o CopyOut(0, n - (N - front_))
  ELSE CopyOut(front_, n)

(* remove(count): count is clamped to the elements held.                   *)
Clamp(n) == IF n < fullness_ THEN n ELSE fullness_

DropKeepsAvailable(n) ==
  /\ front_' = (front_ + Clamp(n)) % N
  /\ fullness_' = fullness_ - Clamp(n)
  /\ UNCHANGED <<buffer_, back_, available_>>

Drop(n) ==
  /\ front_' = (front_ + Clamp(n)) % N
  /\ fullness_' = fullness_ - Clamp(n)
  /\ available_' = available_ + Clamp(n)
  /\ UNCHANGED <<buffer_, back_>>

(* find_pattern compares p with the window k elements past the front ...   *)
MatchAt(p, k) ==
  \A z \in 1..Len(p) : buffer_[(front_ + k + (z - 1)) % N] = p[z]

(* ... for k from 0 while k < stop, and on a miss reports the offset       *)
(* locateSync discards up to.                                              *)
FindPattern(p) ==
  LET stop == fullness_ - Len(p)
      hits == {k \in 0..(stop - 1) : MatchAt(p, k)}
  IN  IF Len(p) > fullness_
      THEN Fifo!Search(FALSE, 0)
      ELSE IF hits # {}
           THEN Fifo!Search(TRUE, CHOOSE k \in hits : \A j \in hits : k <= j)
           ELSE Fifo!Search(FALSE, IF stop > 1 THEN stop - 1 ELSE 0)

-----------------------------------------------------------------------------
(* circular(): the slots are not initialised.                              *)
Init ==
  /\ buffer_ \in [Slot -> Elem]
  /\ front_ = 0
  /\ back_ = 0
  /\ available_ = N
  /\ fullness_ = 0
  /\ call = <<"construct">>
  /\ reply = Fifo!Completed

PushBackNoWrap(s) ==
  /\ call' = <<"push", s>>
  /\ \/ /\ available_ < Len(s)
        /\ reply' = Fifo!Thrown("overflow")
        /\ UNCHANGED <<buffer_, front_, back_, available_, fullness_>>
     \/ /\ ~(available_ < Len(s))
        /\ buffer_' = Stored(s)
        /\ available_' = available_ - Len(s)
        /\ fullness_' = fullness_ + Len(s)
        /\ back_' = back_ + Len(s)
        /\ reply' = Fifo!Completed
        /\ UNCHANGED front_

(* push_back(ptr, count): all of it or overflow_error.                     *)
PushBack(s) ==
  /\ call' = <<"push", s>>
  /\ \/ /\ available_ < Len(s)
        /\ reply' = Fifo!Thrown("overflow")
        /\ UNCHANGED <<buffer_, front_, back_, available_, fullness_>>
     \/ /\ ~(available_ < Len(s))
        /\ buffer_' = Stored(s)
        /\ available_' = available_ - Len(s)
        /\ fullness_' = fullness_ + Len(s)
        /\ back_' = (back_ + Len(s)) % N
        /\ reply' = Fifo!Completed
        /\ UNCHANGED front_

(* pop_front(dest, count): all of it or underflow_error, then remove.      *)
PopFront(n) ==
  /\ call' = <<"pop", n>>
  /\ \/ /\ fullness_ < n
        /\ reply' = Fifo!Thrown("underflow")
        /\ UNCHANGED <<buffer_, front_, back_, available_, fullness_>>
     \/ /\ ~(fullness_ < n)
        /\ reply' = Fifo!Returned(Fetched(n))
        /\ Drop(n)

Remove(n) ==
  /\ call' = <<"discard", n>>
  /\ Drop(n)
  /\ reply' = Fifo!Completed

(* clear(): the slots are zeroed as well.                                  *)
Clear ==
  /\ call' = <<"clear">>
  /\ buffer_' = [i \in Slot |-> Zero]
  /\ front_' = 0
  /\ back_' = 0
  /\ available_' = N
  /\ fullness_' = 0
  /\ reply' = Fifo!Completed

(* find_pattern(pattern, M, out) reads only.                               *)
Find(p) ==
  /\ call' = <<"find", p>>
  /\ reply' = FindPattern(p)
  /\ UNCHANGED <<buffer_, front_, back_, available_, fullness_>>

Next ==
  \/ \E s \in Chunks : PushBack(s)
  \/ \E n \in Counts : PopFront(n) \/ Remove(n)
  \/ Clear
  \/ \E p \in Patterns : Find(p)

Spec == Init /\ [][Next]_vars

-----------------------------------------------------------------------------
(* Every cursor stays inside the array and every counter inside 0..N.      *)
TypeOK ==
  /\ buffer_ \in [Slot -> Elem]
  /\ front_ \in Slot
  /\ back_ \in Slot
  /\ available_ \in 0..N
  /\ fullness_ \in 0..N

(* The class stores its occupancy three times: as free slots, as used      *)
(* slots, and as the distance between the cursors (which cannot tell full  *)
(* from empty).  The three agree after every call, so the capacity check   *)
(* of push_back and the clamp of remove look at the same buffer.           *)
OccupancyAgrees ==
  /\ available_ + fullness_ = N
  /\ back_ = (front_ + fullness_) % N

(* The ring buffer is a bounded FIFO: whatever straddles the end of the    *)
(* array, bytes come out once, in order, and a throwing call changes       *)
(* nothing.                                                                *)
ImplementsFifo == Fifo!Spec
=============================================================================
