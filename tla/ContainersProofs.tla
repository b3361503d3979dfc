--------------------------- MODULE ContainersProofs ---------------------------
(***************************************************************************)
(* Proofs about the container classes, for every capacity, element type    *)
(* and caller: the ring buffer's cursors and counters stay consistent and  *)
(* it implements BoundedFifo; the keyed queue never leads from a key to an *)
(* entry that has left it; saving and restoring the pipe loses no item;    *)
(* and items survive on the disk in order and whole.                       *)
(***************************************************************************)
EXTENDS Containers, SequenceTheorems, WellFoundedInduction, TLAPS

-----------------------------------------------------------------------------
(* Indexing modulo the capacity never needs more than one subtraction.     *)
LEMMA ModOnce ==
  ASSUME NEW a \in 0..(2 * N - 1)
  PROVE  a % N = IF a < N THEN a ELSE a - N
<1>1. CASE a < N
  BY <1>1, CapacityAssumption
<1>2. CASE ~(a < N)
  <2>1. a \in N..(2 * N - 1)
    BY <1>2, CapacityAssumption
  <2>2. a % N = a - N
    BY <2>1, CapacityAssumption
  <2>3. QED
    BY <1>2, <2>2
<1>3. QED
  BY <1>1, <1>2

LEMMA ModSum ==
  ASSUME NEW a \in 0..(N - 1), NEW b \in 0..N
  PROVE  (a + b) % N = IF a + b < N THEN a + b ELSE a + b - N
<1>1. CASE a + b < N
  <2>1. (a + b) % N = a + b
    BY <1>1, CapacityAssumption
  <2>2. QED
    BY <1>1, <2>1
<1>2. CASE ~(a + b < N)
  <2>1. (a + b) % N = a + b - N
    BY <1>2, CapacityAssumption
  <2>2. QED
    BY <1>2, <2>1
<1>3. QED
  BY <1>1, <1>2

(* Moving the front by c and shrinking by c leaves the back where it was.  *)
LEMMA CursorsShrink ==
  ASSUME NEW f \in 0..(N - 1), NEW u \in 0..N, NEW c \in 0..u
  PROVE  /\ (f + c) % N \in 0..(N - 1)
         /\ (((f + c) % N) + (u - c)) % N = (f + u) % N
<1>1. N \in Nat \ {0} /\ f + c \in 0..(2 * N - 1) /\ f + u \in 0..(2 * N - 1)
  BY CapacityAssumption
<1>2. PICK g : g = (f + c) % N
  OBVIOUS
<1>3. g = IF f + c < N THEN f + c ELSE f + c - N
  BY <1>1, <1>2, ModOnce
<1>4. (f + u) % N = IF f + u < N THEN f + u ELSE f + u - N
  BY <1>1, ModOnce
<1>5. g \in 0..(N - 1) /\ g + (u - c) \in 0..(2 * N - 1)
  BY <1>1, <1>3
<1>6. (g + (u - c)) % N = IF g + (u - c) < N THEN g + (u - c) ELSE g + (u - c) - N
  BY <1>1, <1>5, ModOnce
<1>7. (g + (u - c)) % N = (f + u) % N
  <2>1. (IF g + (u - c) < N THEN g + (u - c) ELSE g + (u - c) - N)
          = IF f + u < N THEN f + u ELSE f + u - N
    BY <1>1, <1>3
  <2>2. QED
    BY <1>4, <1>6, <2>1
<1>8. QED
  BY <1>2, <1>5, <1>7

(* Moving the back by c and growing by c keeps it fullness past the front. *)
LEMMA CursorsGrow ==
  ASSUME NEW f \in 0..(N - 1), NEW u \in 0..N, NEW c \in 0..(N - u)
  PROVE  /\ (((f + u) % N) + c) % N \in 0..(N - 1)
         /\ (((f + u) % N) + c) % N = (f + (u + c)) % N
<1>1. /\ N \in Nat \ {0}
      /\ f + u \in 0..(2 * N - 1)
      /\ f + (u + c) \in 0..(2 * N - 1)
  BY CapacityAssumption
<1>2. PICK g : g = (f + u) % N
  OBVIOUS
<1>3. g = IF f + u < N THEN f + u ELSE f + u - N
  BY <1>1, <1>2, ModOnce
<1>4. (f + (u + c)) % N = IF f + (u + c) < N THEN f + (u + c) ELSE f + (u + c) - N
  BY <1>1, ModOnce
<1>5. g \in 0..(N - 1) /\ g + c \in 0..(2 * N - 1)
  BY <1>1, <1>3
<1>6. (g + c) % N = IF g + c < N THEN g + c ELSE g + c - N
  BY <1>1, <1>5, ModOnce
<1>7. (g + c) % N \in 0..(N - 1) /\ (g + c) % N = (f + (u + c)) % N
  <2>1. (IF g + c < N THEN g + c ELSE g + c - N)
          = IF f + (u + c) < N THEN f + (u + c) ELSE f + (u + c) - N
    BY <1>1, <1>3
  <2>2. (IF g + c < N THEN g + c ELSE g + c - N) \in 0..(N - 1)
    BY <1>1, <1>5
  <2>3. QED
    BY <1>4, <1>6, <2>1, <2>2
<1>8. QED
  BY <1>2, <1>7

-----------------------------------------------------------------------------
(* The inductive invariant: both invariants the runs check.                *)
RingInv == TypeOK /\ OccupancyAgrees

(* What remove(count) does to the cursors and counters keeps them in step. *)
LEMMA DropKeepsIndInv ==
  ASSUME RingInv, NEW n \in Nat, Drop(n)
  PROVE  RingInv'
<1>1. PICK c \in 0..fullness_ :
        /\ front_' = (front_ + c) % N
        /\ fullness_' = fullness_ - c
        /\ available_' = available_ + c
  <2>1. Clamp(n) \in 0..fullness_
    BY CapacityAssumption DEF RingInv, TypeOK, Clamp
  <2>2. QED
    BY <2>1 DEF Drop
<1>2. buffer_' = buffer_ /\ back_' = back_
  BY DEF Drop
<1>3. front_' \in 0..(N - 1) /\ (front_' + fullness_') % N = (front_ + fullness_) % N
  BY <1>1, CursorsShrink DEF RingInv, TypeOK, Slot
<1>4. /\ fullness_' \in 0..N
      /\ available_' \in 0..N
      /\ available_' + fullness_' = N
  BY <1>1, CapacityAssumption DEF RingInv, TypeOK, OccupancyAgrees
<1>5. QED
  BY <1>2, <1>3, <1>4 DEF RingInv, TypeOK, OccupancyAgrees, Slot

(* So does what push_back does when there is room.                         *)
LEMMA StoredType ==
  ASSUME RingInv, NEW s \in Seq(Elem), Len(s) <= available_
  PROVE  Stored(s) \in [Slot -> Elem]
  <1>1. /\ buffer_ \in [Slot -> Elem] /\ N \in Nat \ {0} /\ Len(s) \in Nat
        /\ back_ \in 0..(N - 1)
    BY CapacityAssumption DEF RingInv, TypeOK, Slot
  <1>2. ASSUME NEW buf \in [Slot -> Elem], NEW t \in Seq(Elem), NEW at \in Nat
        PROVE  CopyIn(buf, at, t) \in [Slot -> Elem]
    <2> SUFFICES ASSUME NEW i \in Slot, i \in at..(at + Len(t) - 1) PROVE t[i - at + 1] \in Elem
      BY DEF CopyIn
    <2>1. i - at + 1 \in 1..Len(t)
      BY <1>1 DEF Slot
    <2> QED
      BY <2>1
  <1>3. CASE back_ + Len(s) > N
    <2> DEFINE m == N - back_  a == SubSeq(s, 1, m)  b == SubSeq(s, m + 1, Len(s))
    <2>1. m \in Nat /\ m < Len(s)
      BY <1>1, <1>3
    <2>2. a \in Seq(Elem) /\ b \in Seq(Elem)
      BY <1>1, <2>1
    <2>3. Stored(s) = CopyIn(CopyIn(buffer_, back_, a), 0, b)
      BY <1>3 DEF Stored
    <2> HIDE DEF a, b
    <2>4. CopyIn(buffer_, back_, a) \in [Slot -> Elem]
      BY <1>1, <1>2, <2>2
    <2> QED
      BY <1>2, <2>2, <2>3, <2>4
  <1>4. CASE ~(back_ + Len(s) > N)
    <2>1. Stored(s) = CopyIn(buffer_, back_, s)
      BY <1>4 DEF Stored
    <2> QED
      BY <1>1, <1>2, <2>1
  <1> QED
    BY <1>3, <1>4

LEMMA PushKeepsIndInv ==
  ASSUME RingInv, NEW s \in Chunks, PushBack(s)
  PROVE  RingInv'
<1>1. CASE available_ < Len(s)
  BY <1>1 DEF PushBack, RingInv, TypeOK, OccupancyAgrees
<1>2. CASE ~(available_ < Len(s))
  <2>1. s \in Seq(Elem) /\ Len(s) \in Nat
    BY CallerAssumption
  <2>2. Len(s) \in 0..(N - fullness_)
    BY <1>2, <2>1, CapacityAssumption DEF RingInv, TypeOK, OccupancyAgrees
  <2>3. /\ buffer_' = Stored(s)
        /\ available_' = available_ - Len(s)
        /\ fullness_' = fullness_ + Len(s)
        /\ back_' = (back_ + Len(s)) % N
        /\ front_' = front_
    BY <1>2 DEF PushBack
  <2>4. back_' \in 0..(N - 1) /\ back_' = (front_' + fullness_') % N
    BY <2>2, <2>3, CursorsGrow DEF RingInv, TypeOK, OccupancyAgrees, Slot
  <2>5. buffer_' \in [Slot -> Elem]
    BY <1>2, <2>1, <2>3, StoredType DEF RingInv, TypeOK
  <2>6. QED
    <3>1. /\ available_' \in 0..N
          /\ fullness_' \in 0..N
          /\ available_' + fullness_' = N
      BY <2>2, <2>3, CapacityAssumption DEF RingInv, TypeOK, OccupancyAgrees
    <3>2. QED
      BY <2>3, <2>4, <2>5, <3>1 DEF RingInv, TypeOK, OccupancyAgrees, Slot
<1>3. QED
  BY <1>1, <1>2

-----------------------------------------------------------------------------
(* No call disturbs them.                                                  *)
LEMMA RingStep == RingInv /\ [Next]_vars => RingInv'
<1> SUFFICES ASSUME RingInv, [Next]_vars PROVE RingInv'
  OBVIOUS
<1>1. ASSUME NEW s \in Chunks, PushBack(s) PROVE RingInv'
  BY <1>1, PushKeepsIndInv
<1>2. ASSUME NEW n \in Counts, PopFront(n) PROVE RingInv'
  <2>1. CASE fullness_ < n
    BY <1>2, <2>1 DEF PopFront, RingInv, TypeOK, OccupancyAgrees
  <2>2. CASE ~(fullness_ < n)
    BY <1>2, <2>2, DropKeepsIndInv, CallerAssumption DEF PopFront
  <2>3. QED
    BY <2>1, <2>2
<1>3. ASSUME NEW n \in Counts, Remove(n) PROVE RingInv'
  BY <1>3, DropKeepsIndInv, CallerAssumption DEF Remove
<1>4. CASE Clear
  BY <1>4, CapacityAssumption, CallerAssumption
  DEF Clear, RingInv, TypeOK, OccupancyAgrees, Slot
<1>5. ASSUME NEW p \in Patterns, Find(p) PROVE RingInv'
  BY <1>5 DEF Find, RingInv, TypeOK, OccupancyAgrees
<1>6. CASE UNCHANGED vars
  BY <1>6 DEF vars, RingInv, TypeOK, OccupancyAgrees
<1>7. QED
  BY <1>1, <1>2, <1>3, <1>4, <1>5, <1>6 DEF Next

(* For every capacity and every sequence of calls, throwing ones included, *)
(* the cursors stay inside the array and the free-slot counter, the        *)
(* used-slot counter and the distance between the cursors agree            *)
(* (circular.hpp:46-119).                                                  *)
THEOREM CursorsConsistent == Spec => [](TypeOK /\ OccupancyAgrees)
<1>1. Init => RingInv
  BY CapacityAssumption DEF Init, RingInv, TypeOK, OccupancyAgrees, Slot
<1>2. RingInv /\ [Next]_vars => RingInv'
  BY RingStep
<1>3. RingInv => TypeOK /\ OccupancyAgrees
  BY DEF RingInv
<1>4. QED
  BY <1>1, <1>2, <1>3, PTL DEF Spec

-----------------------------------------------------------------------------
(* The n elements found from slot f on.                                    *)
View(buf, f, n) == [i \in 1..n |-> buf[(f + (i - 1)) % N]]

LEMMA ViewType ==
  ASSUME NEW buf \in [Slot -> Elem], NEW f \in Slot, NEW n \in 0..N
  PROVE  /\ View(buf, f, n) \in Seq(Elem)
         /\ Len(View(buf, f, n)) = n
         /\ \A i \in 1..n : View(buf, f, n)[i] = buf[(f + (i - 1)) % N]
<1>1. \A i \in 1..n : (f + (i - 1)) % N \in Slot
  <2> SUFFICES ASSUME NEW i \in 1..n
               PROVE  (f + (i - 1)) % N \in Slot
    OBVIOUS
  <2>1. N \in Nat \ {0} /\ f + (i - 1) \in 0..(2 * N - 1)
    BY CapacityAssumption DEF Slot
  <2>2. QED
    BY <2>1, ModOnce DEF Slot
<1>2. \A i \in 1..n : buf[(f + (i - 1)) % N] \in Elem
  BY <1>1
<1>3. n \in Nat
  BY CapacityAssumption
<1>4. QED
  BY <1>2, <1>3 DEF View

LEMMA ContentType ==
  ASSUME RingInv
  PROVE  /\ Content \in Seq(Elem)
         /\ Len(Content) = fullness_
         /\ \A i \in 1..fullness_ : Content[i] = buffer_[(front_ + (i - 1)) % N]
<1>1. Content = View(buffer_, front_, fullness_)
  BY DEF Content, View
<1>2. QED
  BY <1>1, ViewType DEF RingInv, TypeOK

(* push_back leaves in slot i the element of s meant for it, or what was   *)
(* there: the straddling copy is a copy modulo the capacity.               *)
LEMMA StoredAt ==
  ASSUME RingInv, NEW s \in Seq(Elem), Len(s) <= N, NEW i \in Slot
  PROVE  Stored(s)[i] = IF i \in back_..(back_ + Len(s) - 1)
                        THEN s[i - back_ + 1]
                        ELSE IF i + N <= back_ + Len(s) - 1
                             THEN s[i + N - back_ + 1]
                             ELSE buffer_[i]
<1>1. /\ N \in Nat \ {0} /\ back_ \in 0..(N - 1)
      /\ Len(s) \in 0..N /\ i \in 0..(N - 1)
  BY CapacityAssumption DEF RingInv, TypeOK, Slot
<1>2. CASE back_ + Len(s) > N
  <2> DEFINE s1 == SubSeq(s, 1, N - back_)
             s2 == SubSeq(s, N - back_ + 1, Len(s))
             b1 == CopyIn(buffer_, back_, s1)
  <2>1. /\ s1 \in Seq(Elem) /\ Len(s1) = N - back_
        /\ \A j \in 1..(N - back_) : s1[j] = s[j]
    BY <1>1, <1>2, SubSeqProperties
  <2>2. /\ s2 \in Seq(Elem) /\ Len(s2) = Len(s) - (N - back_)
        /\ \A j \in 1..(Len(s) - (N - back_)) : s2[j] = s[N - back_ + j]
    <3>1. /\ N - back_ + 1 \in Int /\ Len(s) \in Int
          /\ \A j \in (N - back_ + 1)..Len(s) : s[j] \in Elem
          /\ N - back_ + 1 <= Len(s)
      BY <1>1, <1>2
    <3> HIDE DEF s2
    <3>2. /\ s2 \in Seq(Elem)
          /\ Len(s2) = Len(s) - (N - back_ + 1) + 1
          /\ \A j \in 1..(Len(s) - (N - back_ + 1) + 1) : s2[j] = s[(N - back_ + 1) + j - 1]
      BY <3>1, SubSeqProperties DEF s2
    <3>3. Len(s) - (N - back_ + 1) + 1 = Len(s) - (N - back_)
      BY <1>1
    <3>4. \A j \in 1..(Len(s) - (N - back_)) : (N - back_ + 1) + j - 1 = N - back_ + j
      BY <1>1
    <3>5. QED
      BY <3>2, <3>3, <3>4
  <2>3. Stored(s) = CopyIn(b1, 0, s2)
    BY <1>2 DEF Stored
  <2> HIDE DEF s1, s2
  <2>4. b1[i] = IF i \in back_..(back_ + Len(s1) - 1) THEN s1[i - back_ + 1] ELSE buffer_[i]
    BY DEF b1, CopyIn
  <2> HIDE DEF b1
  <2>5. Stored(s)[i] = IF i \in 0..(0 + Len(s2) - 1) THEN s2[i - 0 + 1] ELSE b1[i]
    BY <2>3 DEF CopyIn
  <2>6. CASE i \in back_..(back_ + Len(s) - 1)
    <3>1. i \notin 0..(0 + Len(s2) - 1) /\ i \in back_..(back_ + Len(s1) - 1)
      BY <1>1, <1>2, <2>1, <2>2, <2>6
    <3>2. s1[i - back_ + 1] = s[i - back_ + 1]
      BY <1>1, <2>1, <2>6
    <3>3. QED
      BY <2>4, <2>5, <2>6, <3>1, <3>2
  <2>7. CASE i \notin back_..(back_ + Len(s) - 1) /\ i + N <= back_ + Len(s) - 1
    <3>1. i \in 0..(0 + Len(s2) - 1) /\ i + 1 \in 1..(Len(s) - (N - back_))
      BY <1>1, <1>2, <2>2, <2>7
    <3>2. s2[i - 0 + 1] = s[i + N - back_ + 1]
      <4>1. i - 0 + 1 = i + 1 /\ N - back_ + (i + 1) = i + N - back_ + 1
        BY <1>1
      <4>2. QED
        BY <2>2, <3>1, <4>1
    <3>3. QED
      BY <2>5, <2>7, <3>1, <3>2
  <2>8. CASE i \notin back_..(back_ + Len(s) - 1) /\ ~(i + N <= back_ + Len(s) - 1)
    <3>1. i \notin 0..(0 + Len(s2) - 1) /\ i \notin back_..(back_ + Len(s1) - 1)
      BY <1>1, <1>2, <2>1, <2>2, <2>8
    <3>2. QED
      BY <2>4, <2>5, <2>8, <3>1
  <2>9. QED
    BY <2>6, <2>7, <2>8
<1>3. CASE ~(back_ + Len(s) > N)
  <2>1. Stored(s)[i] = IF i \in back_..(back_ + Len(s) - 1) THEN s[i - back_ + 1] ELSE buffer_[i]
    BY <1>3 DEF Stored, CopyIn
  <2>2. ~(i + N <= back_ + Len(s) - 1)
    BY <1>1, <1>3
  <2>3. QED
    BY <2>1, <2>2
<1>4. QED
  BY <1>2, <1>3

(* A push that has room appends: nothing held is overwritten and the new   *)
(* elements follow in order, straddling or not.                            *)
LEMMA PushAppends ==
  ASSUME RingInv, NEW s \in Chunks, PushBack(s), ~(available_ < Len(s))
  PROVE  Content' = Content \o s
<1>1. /\ s \in Seq(Elem) /\ Len(s) \in Nat
      /\ N \in Nat \ {0}
      /\ Len(s) \in 0..(N - fullness_)
      /\ front_ \in 0..(N - 1) /\ back_ \in 0..(N - 1) /\ fullness_ \in 0..N
  BY CallerAssumption, CapacityAssumption DEF RingInv, TypeOK, OccupancyAgrees, Slot
<1>2. back_ = IF front_ + fullness_ < N THEN front_ + fullness_ ELSE front_ + fullness_ - N
  <2>1. back_ = (front_ + fullness_) % N
    BY DEF RingInv, OccupancyAgrees
  <2>2. QED
    BY <1>1, <2>1, ModSum
<1>3. /\ buffer_' = Stored(s)
      /\ fullness_' = fullness_ + Len(s)
      /\ front_' = front_
  BY DEF PushBack
<1>4. Content' = View(buffer_', front_', fullness_')
  BY DEF Content, View
<1>5. /\ Content' \in Seq(Elem)
      /\ Len(Content') = fullness_ + Len(s)
      /\ \A i \in 1..(fullness_ + Len(s)) : Content'[i] = Stored(s)[(front_ + (i - 1)) % N]
  <2>1. RingInv'
    BY PushKeepsIndInv
  <2>2. QED
    BY <2>1, <1>3, <1>4, ViewType DEF RingInv, TypeOK
<1>6. /\ Content \o s \in Seq(Elem)
      /\ Len(Content \o s) = fullness_ + Len(s)
      /\ \A i \in 1..(fullness_ + Len(s)) :
           (Content \o s)[i] = IF i <= fullness_ THEN Content[i] ELSE s[i - fullness_]
  <2>1. Content \in Seq(Elem) /\ Len(Content) = fullness_
    BY ContentType
  <2> HIDE DEF Content
  <2>2. QED
    BY <1>1, <2>1, ConcatProperties
<1>7. ASSUME NEW i \in 1..(fullness_ + Len(s))
      PROVE  Content'[i] = (Content \o s)[i]
  <2>1. PICK j : j = (front_ + (i - 1)) % N
    OBVIOUS
  <2>2. j = IF front_ + (i - 1) < N THEN front_ + (i - 1) ELSE front_ + (i - 1) - N
    <3>1. i - 1 \in 0..N
      BY <1>1
    <3>2. QED
      BY <1>1, <2>1, <3>1, ModSum
  <2>3. j \in Slot /\ Len(s) <= N
    BY <1>1, <2>2 DEF Slot
  <2>4. Stored(s)[j] = IF j \in back_..(back_ + Len(s) - 1)
                       THEN s[j - back_ + 1]
                       ELSE IF j + N <= back_ + Len(s) - 1
                            THEN s[j + N - back_ + 1]
                            ELSE buffer_[j]
    BY <1>1, <2>3, StoredAt
  <2>5. CASE i <= fullness_
    <3>1. j \notin back_..(back_ + Len(s) - 1) /\ ~(j + N <= back_ + Len(s) - 1)
      BY <1>1, <1>2, <2>2, <2>5
    <3>2. Stored(s)[j] = buffer_[j]
      BY <2>4, <3>1
    <3>3. Content[i] = buffer_[j]
      BY <1>1, <2>1, <2>5, ContentType
    <3>4. QED
      BY <1>5, <1>6, <2>1, <2>5, <3>2, <3>3
  <2>6. CASE ~(i <= fullness_)
    <3>1. CASE j \in back_..(back_ + Len(s) - 1)
      <4>1. j - back_ + 1 = i - fullness_
        BY <1>1, <1>2, <2>2, <2>6, <3>1
      <4>2. QED
        BY <1>5, <1>6, <2>1, <2>4, <2>6, <3>1, <4>1
    <3>2. CASE ~(j \in back_..(back_ + Len(s) - 1))
      <4>1. j + N <= back_ + Len(s) - 1 /\ j + N - back_ + 1 = i - fullness_
        BY <1>1, <1>2, <2>2, <2>6, <3>2
      <4>2. QED
        BY <1>5, <1>6, <2>1, <2>4, <2>6, <3>2, <4>1
    <3>3. QED
      BY <3>1, <3>2
  <2>7. QED
    BY <2>5, <2>6
<1>8. QED
  BY <1>5, <1>6, <1>7, SeqEqual

(* What pop_front copies out is the n oldest elements, straddling or not.  *)
LEMMA FetchedIsPrefix ==
  ASSUME RingInv, NEW n \in Nat, ~(fullness_ < n)
  PROVE  Fetched(n) = SubSeq(Content, 1, n)
<1>1. /\ N \in Nat \ {0} /\ n \in 0..fullness_
      /\ front_ \in 0..(N - 1) /\ fullness_ \in 0..N
      /\ buffer_ \in [0..(N - 1) -> Elem]
  BY CapacityAssumption DEF RingInv, TypeOK, Slot
<1>2. /\ SubSeq(Content, 1, n) \in Seq(Elem)
      /\ Len(SubSeq(Content, 1, n)) = n
      /\ \A i \in 1..n : SubSeq(Content, 1, n)[i] = Content[i]
  <2>1. \A i \in 1..n : Content[i] \in Elem
    BY <1>1, ContentType
  <2>2. QED
    BY <1>1, <2>1, SubSeqProperties
<1>3. /\ Fetched(n) \in Seq(Elem)
      /\ Len(Fetched(n)) = n
      /\ \A i \in 1..n : Fetched(n)[i] = IF front_ + (i - 1) < N
                                         THEN buffer_[front_ + (i - 1)]
                                         ELSE buffer_[front_ + (i - 1) - N]
  <2>1. CASE n > N - front_
    <3> DEFINE c1 == CopyOut(front_, N - front_)
               c2 == CopyOut(0, n - (N - front_))
    <3>1. /\ c1 \in Seq(Elem) /\ Len(c1) = N - front_
          /\ \A i \in 1..(N - front_) : c1[i] = buffer_[front_ + (i - 1)]
      BY <1>1 DEF CopyOut
    <3>2. /\ c2 \in Seq(Elem) /\ Len(c2) = n - (N - front_)
          /\ \A i \in 1..(n - (N - front_)) : c2[i] = buffer_[0 + (i - 1)]
      BY <1>1, <2>1 DEF CopyOut
    <3>3. Fetched(n) = c1 \o c2
      BY <2>1 DEF Fetched
    <3> HIDE DEF c1, c2
    <3>4. /\ Fetched(n) \in Seq(Elem)
          /\ Len(Fetched(n)) = n
          /\ \A i \in 1..n : Fetched(n)[i] = IF i <= N - front_ THEN c1[i] ELSE c2[i - (N - front_)]
      <4>1. Len(c1) + Len(c2) = n
        BY <1>1, <3>1, <3>2
      <4>2. /\ c1 \o c2 \in Seq(Elem)
            /\ Len(c1 \o c2) = Len(c1) + Len(c2)
            /\ \A i \in 1..(Len(c1) + Len(c2)) :
                 (c1 \o c2)[i] = IF i <= Len(c1) THEN c1[i] ELSE c2[i - Len(c1)]
        BY <3>1, <3>2, ConcatProperties
      <4>3. QED
        BY <3>1, <3>3, <4>1, <4>2
    <3>5. ASSUME NEW i \in 1..n
          PROVE  Fetched(n)[i] = IF front_ + (i - 1) < N
                                 THEN buffer_[front_ + (i - 1)]
                                 ELSE buffer_[front_ + (i - 1) - N]
      <4>1. CASE i <= N - front_
        <5>1. i \in 1..(N - front_) /\ front_ + (i - 1) < N
          BY <1>1, <4>1
        <5>2. QED
          BY <3>1, <3>4, <4>1, <5>1
      <4>2. CASE ~(i <= N - front_)
        <5>1. /\ i - (N - front_) \in 1..(n - (N - front_))
              /\ ~(front_ + (i - 1) < N)
              /\ 0 + (i - (N - front_) - 1) = front_ + (i - 1) - N
          BY <1>1, <4>2
        <5>2. QED
          BY <3>2, <3>4, <4>2, <5>1
      <4>3. QED
        BY <4>1, <4>2
    <3>6. QED
      BY <3>4, <3>5
  <2>2. CASE ~(n > N - front_)
    <3>1. \A i \in 1..n : front_ + (i - 1) < N
      BY <1>1, <2>2
    <3>2. QED
      BY <1>1, <2>2, <3>1 DEF Fetched, CopyOut
  <2>3. QED
    BY <2>1, <2>2
<1>4. ASSUME NEW i \in 1..n
      PROVE  Fetched(n)[i] = SubSeq(Content, 1, n)[i]
  <2>1. i \in 1..fullness_ /\ i - 1 \in 0..N
    BY <1>1
  <2>2. (front_ + (i - 1)) % N
          = IF front_ + (i - 1) < N THEN front_ + (i - 1) ELSE front_ + (i - 1) - N
    BY <1>1, <2>1, ModSum
  <2>3. Content[i] = buffer_[(front_ + (i - 1)) % N]
    BY <2>1, ContentType
  <2>4. QED
    BY <1>2, <1>3, <2>2, <2>3
<1>5. QED
  BY <1>1, <1>2, <1>3, <1>4, SeqEqual

(* remove(count) takes the oldest elements and leaves the others alone.    *)
LEMMA DropIsSuffix ==
  ASSUME RingInv, NEW n \in Nat, Drop(n)
  PROVE  Content' = SubSeq(Content, n + 1, Len(Content))
<1>1. /\ N \in Nat \ {0} /\ front_ \in 0..(N - 1) /\ fullness_ \in 0..N
      /\ Len(Content) = fullness_
  BY CapacityAssumption, ContentType DEF RingInv, TypeOK, Slot
<1>2. PICK c \in 0..fullness_ :
        /\ c = IF n < fullness_ THEN n ELSE fullness_
        /\ front_' = (front_ + c) % N
        /\ fullness_' = fullness_ - c
        /\ buffer_' = buffer_
  <2>1. Clamp(n) \in 0..fullness_
    BY <1>1 DEF Clamp
  <2>2. QED
    BY <2>1 DEF Drop, Clamp
<1>3. /\ Content' \in Seq(Elem)
      /\ Len(Content') = fullness_ - c
      /\ \A i \in 1..(fullness_ - c) : Content'[i] = buffer_[(front_' + (i - 1)) % N]
  <2>1. RingInv' /\ Content' = View(buffer_', front_', fullness_')
    BY DropKeepsIndInv DEF Content, View
  <2>2. /\ buffer_' \in [Slot -> Elem] /\ front_' \in Slot /\ fullness_' \in 0..N
    BY <2>1 DEF RingInv, TypeOK
  <2>3. QED
    BY <1>2, <2>1, <2>2, ViewType
<1>4. /\ SubSeq(Content, n + 1, fullness_) \in Seq(Elem)
      /\ Len(SubSeq(Content, n + 1, fullness_)) = fullness_ - c
      /\ \A i \in 1..(fullness_ - c) :
           SubSeq(Content, n + 1, fullness_)[i] = Content[c + i]
  <2>1. \A i \in (n + 1)..fullness_ : Content[i] \in Elem
    BY <1>1, ContentType
  <2>2. /\ SubSeq(Content, n + 1, fullness_) \in Seq(Elem)
        /\ Len(SubSeq(Content, n + 1, fullness_))
             = IF n + 1 <= fullness_ THEN fullness_ - (n + 1) + 1 ELSE 0
        /\ \A i \in 1..(fullness_ - (n + 1) + 1) :
             SubSeq(Content, n + 1, fullness_)[i] = Content[(n + 1) + i - 1]
    BY <1>1, <2>1, SubSeqProperties
  <2>3. (IF n + 1 <= fullness_ THEN fullness_ - (n + 1) + 1 ELSE 0) = fullness_ - c
    BY <1>1, <1>2
  <2>4. \A i \in 1..(fullness_ - c) :
          /\ i \in 1..(fullness_ - (n + 1) + 1)
          /\ (n + 1) + i - 1 = c + i
    BY <1>1, <1>2
  <2>5. QED
    BY <2>2, <2>3, <2>4
<1>5. ASSUME NEW i \in 1..(fullness_ - c)
      PROVE  Content'[i] = SubSeq(Content, n + 1, fullness_)[i]
  <2>1. PICK g : g = (front_ + c) % N
    OBVIOUS
  <2>2. g = IF front_ + c < N THEN front_ + c ELSE front_ + c - N
    <3>1. c \in 0..N
      BY <1>1
    <3>2. QED
      BY <1>1, <2>1, <3>1, ModSum
  <2>3. (g + (i - 1)) % N = IF g + (i - 1) < N THEN g + (i - 1) ELSE g + (i - 1) - N
    <3>1. g \in 0..(N - 1) /\ i - 1 \in 0..N
      BY <1>1, <2>2
    <3>2. QED
      BY <3>1, ModSum
  <2>4. (front_ + (c + i - 1)) % N
          = IF front_ + (c + i - 1) < N THEN front_ + (c + i - 1) ELSE front_ + (c + i - 1) - N
    <3>1. c + i - 1 \in 0..N
      BY <1>1
    <3>2. QED
      BY <1>1, <3>1, ModSum
  <2>5. (IF g + (i - 1) < N THEN g + (i - 1) ELSE g + (i - 1) - N)
          = IF front_ + (c + i - 1) < N THEN front_ + (c + i - 1) ELSE front_ + (c + i - 1) - N
    BY <1>1, <2>2
  <2>6. Content'[i] = buffer_[(front_ + (c + i - 1)) % N]
    BY <1>2, <1>3, <2>1, <2>3, <2>4, <2>5
  <2>7. Content[c + i] = buffer_[(front_ + (c + i - 1)) % N]
    <3>1. c + i \in 1..fullness_
      BY <1>1
    <3>2. QED
      BY <3>1, ContentType
  <2>8. QED
    BY <1>4, <2>6, <2>7
<1>6. QED
  BY <1>1, <1>3, <1>4, <1>5, SeqEqual

-----------------------------------------------------------------------------
(* A window of the storage matches exactly when the elements held do.      *)
LEMMA MatchIsOccurrence ==
  ASSUME RingInv, NEW p \in Seq(Elem), NEW k \in Nat, k + Len(p) <= fullness_
  PROVE  MatchAt(p, k) <=> Fifo!OccursAt(Content, p, k)
<1>1. /\ Len(p) \in Nat /\ fullness_ \in Nat
      /\ Len(Content) = fullness_
      /\ \A i \in 1..fullness_ : Content[i] = buffer_[(front_ + (i - 1)) % N]
  BY ContentType, CapacityAssumption DEF RingInv, TypeOK
<1>2. ASSUME NEW z \in 1..Len(p)
      PROVE  buffer_[(front_ + k + (z - 1)) % N] = Content[k + z]
  <2>1. k + z \in 1..fullness_ /\ front_ \in Int
    BY <1>1, CapacityAssumption DEF RingInv, TypeOK, Slot
  <2>2. front_ + k + (z - 1) = front_ + (k + z - 1)
    BY <2>1
  <2>3. QED
    BY <1>1, <2>1, <2>2
<1>3. QED
  BY <1>1, <1>2 DEF MatchAt, Fifo!OccursAt

(* A nonempty set of naturals has a least element.                         *)
LEMMA LeastExists ==
  ASSUME NEW T \in SUBSET Nat, T # {}
  PROVE  \E x \in T : \A y \in T : x <= y
<1> DEFINE R == OpToRel(<, Nat)
<1>1. IsWellFoundedOn(R, Nat) /\ T \subseteq Nat
  BY NatLessThanWellFounded
<1>2. \A x, y \in Nat : x < y => <<x, y>> \in R
  BY DEF OpToRel
<1> HIDE DEF R
<1>3. \E x \in T : \A y \in T : ~(<<y, x>> \in R)
  BY <1>1, WFMin
<1>4. PICK x \in T : \A y \in T : ~(<<y, x>> \in R)
  BY <1>3
<1>5. ASSUME NEW y \in T PROVE x <= y
  <2>1. x \in Nat /\ y \in Nat
    OBVIOUS
  <2>2. ~(y < x)
    BY <1>2, <1>4, <2>1
  <2>3. QED
    BY <2>1, <2>2
<1>6. QED
  BY <1>5

(* What find_pattern reports is an answer the abstract search allows.      *)
LEMMA FindRefines ==
  ASSUME RingInv, NEW p \in Patterns, Find(p)
  PROVE  Fifo!Find(p)
<1> DEFINE stop == fullness_ - Len(p)
           hits == {k \in 0..(stop - 1) : MatchAt(p, k)}
<1>1. /\ p \in Seq(Elem) /\ Len(p) \in Nat
      /\ fullness_ \in Nat /\ Len(Content) = fullness_
  BY CallerAssumption, ContentType, CapacityAssumption DEF RingInv, TypeOK
<1>2. Content' = Content /\ call' = <<"find", p>>
  BY DEF Find, Content
<1>3. \A k \in 0..(stop - 1) : k \notin hits => ~Fifo!OccursAt(Content, p, k)
  <2> SUFFICES ASSUME NEW k \in 0..(stop - 1), k \notin hits
               PROVE  ~Fifo!OccursAt(Content, p, k)
    OBVIOUS
  <2>1. k \in Nat /\ k + Len(p) <= fullness_
    BY <1>1
  <2>2. QED
    BY <1>1, <2>1, MatchIsOccurrence
<1>4. CASE Len(p) > fullness_
  <2>1. reply' = Fifo!Search(FALSE, 0)
    BY <1>4 DEF Find, FindPattern
  <2>2. 0 \in 0..Len(Content) /\ 0..(0 - 1) = {}
    BY <1>1
  <2>3. QED
    BY <1>2, <2>1, <2>2 DEF Fifo!Find
<1>5. CASE ~(Len(p) > fullness_) /\ hits # {}
  <2>0. hits \in SUBSET Nat
    BY <1>1
  <2>1. PICK at \in hits : \A j \in hits : at <= j
    <3> HIDE DEF hits
    <3> QED
      BY <1>5, <2>0, LeastExists
  <2>2. \A k \in hits : (\A j \in hits : k <= j) => k = at
    BY <1>1, <2>1
  <2>3. at = CHOOSE k \in hits : \A j \in hits : k <= j
    BY <2>1, <2>2
  <2>4. reply' = Fifo!Search(TRUE, at)
    BY <1>5, <2>3 DEF Find, FindPattern
  <2>5. at \in Nat /\ at + Len(p) <= fullness_ /\ at \in 0..Len(Content)
    BY <1>1, <2>1
  <2>6. Fifo!OccursAt(Content, p, at)
    BY <1>1, <2>1, <2>5, MatchIsOccurrence
  <2>7. \A j \in 0..(at - 1) : j \in 0..(stop - 1) /\ j \notin hits
    BY <1>1, <2>1, <2>5
  <2>8. \A j \in 0..(at - 1) : ~Fifo!OccursAt(Content, p, j)
    BY <1>3, <2>7
  <2>9. QED
    BY <1>2, <2>4, <2>5, <2>6, <2>8 DEF Fifo!Find
<1>6. CASE ~(Len(p) > fullness_) /\ hits = {}
  <2>1. PICK at : at = IF stop > 1 THEN stop - 1 ELSE 0
    OBVIOUS
  <2>2. reply' = Fifo!Search(FALSE, at)
    BY <1>6, <2>1 DEF Find, FindPattern
  <2>3. at \in 0..Len(Content) /\ \A j \in 0..(at - 1) : j \in 0..(stop - 1)
    BY <1>1, <1>6, <2>1
  <2>4. \A j \in 0..(at - 1) : ~Fifo!OccursAt(Content, p, j)
    BY <1>3, <1>6, <2>3
  <2>5. QED
    BY <1>2, <2>2, <2>3, <2>4 DEF Fifo!Find
<1>7. QED
  BY <1>4, <1>5, <1>6

-----------------------------------------------------------------------------
LEMMA PushRefines ==
  ASSUME RingInv, NEW s \in Chunks, PushBack(s)
  PROVE  Fifo!Push(s)
<1>1. /\ Len(s) \in Nat /\ Len(Content) = fullness_
      /\ available_ + fullness_ = N
      /\ fullness_ \in Nat /\ available_ \in Nat /\ N \in Nat
  BY CallerAssumption, ContentType, CapacityAssumption
  DEF RingInv, TypeOK, OccupancyAgrees
<1>2. CASE available_ < Len(s)
  <2>1. Len(Content) + Len(s) > N
    BY <1>1, <1>2
  <2>2. /\ Content' = Content
        /\ call' = <<"push", s>> /\ reply' = Fifo!Thrown("overflow")
    BY <1>1, <1>2 DEF PushBack, Content
  <2>3. QED
    BY <2>1, <2>2 DEF Fifo!Push
<1>3. CASE ~(available_ < Len(s))
  <2>1. Len(Content) + Len(s) <= N
    BY <1>1, <1>3
  <2>2. Content' = Content \o s
    BY <1>3, PushAppends
  <2>3. call' = <<"push", s>> /\ reply' = Fifo!Completed
    BY <1>1, <1>3 DEF PushBack
  <2>4. QED
    BY <2>1, <2>2, <2>3 DEF Fifo!Push
<1>4. QED
  BY <1>2, <1>3

LEMMA PopRefines ==
  ASSUME RingInv, NEW n \in Counts, PopFront(n)
  PROVE  Fifo!Pop(n)
<1>1. n \in Nat /\ fullness_ \in Nat /\ Len(Content) = fullness_
  BY CallerAssumption, ContentType, CapacityAssumption DEF RingInv, TypeOK
<1>2. CASE fullness_ < n
  <2>1. n > Len(Content)
    BY <1>1, <1>2
  <2>2. /\ Content' = Content
        /\ call' = <<"pop", n>> /\ reply' = Fifo!Thrown("underflow")
    BY <1>2 DEF PopFront, Content
  <2>3. QED
    BY <2>1, <2>2 DEF Fifo!Pop
<1>3. CASE ~(fullness_ < n)
  <2>1. n <= Len(Content)
    BY <1>1, <1>3
  <2>2. call' = <<"pop", n>> /\ reply' = Fifo!Returned(Fetched(n)) /\ Drop(n)
    BY <1>3 DEF PopFront
  <2>3. Content' = SubSeq(Content, n + 1, Len(Content))
    BY <1>1, <2>2, DropIsSuffix
  <2>4. Fetched(n) = SubSeq(Content, 1, n)
    BY <1>1, <1>3, FetchedIsPrefix
  <2>5. QED
    BY <2>1, <2>2, <2>3, <2>4 DEF Fifo!Pop
<1>4. QED
  BY <1>2, <1>3

(* For every capacity, the ring buffer implements the bounded FIFO: the    *)
(* elements held are those pushed and not yet taken, once and in order,    *)
(* however they straddle the end of the array; a throwing push or pop      *)
(* changes nothing; and a search never reports an offset that would        *)
(* discard an occurrence (circular.hpp:26-146).                            *)
THEOREM RingImplementsFifo == Spec => ImplementsFifo
<1>1. Init => Fifo!Init
  <2> SUFFICES ASSUME Init PROVE Content = <<>> /\ call = <<"construct">> /\ reply = Fifo!Completed
    BY DEF Fifo!Init
  <2>1. fullness_ = 0
    BY DEF Init
  <2>2. QED
    BY <2>1 DEF Init, Content
<1>2. RingInv /\ [Next]_vars => [Fifo!Next]_(Fifo!fifoVars)
  <2> SUFFICES ASSUME RingInv, [Next]_vars
               PROVE  Fifo!Next \/ UNCHANGED <<Content, call, reply>>
    BY DEF Fifo!fifoVars
  <2>1. ASSUME NEW s \in Chunks, PushBack(s) PROVE Fifo!Next
    BY <2>1, PushRefines DEF Fifo!Next
  <2>2. ASSUME NEW n \in Counts, PopFront(n) PROVE Fifo!Next
    BY <2>2, PopRefines DEF Fifo!Next
  <2>3. ASSUME NEW n \in Counts, Remove(n) PROVE Fifo!Next
    <3>1. Content' = SubSeq(Content, n + 1, Len(Content))
      BY <2>3, DropIsSuffix, CallerAssumption DEF Remove
    <3>2. Fifo!Discard(n)
      BY <2>3, <3>1 DEF Remove, Fifo!Discard
    <3>3. QED
      BY <3>2 DEF Fifo!Next
  <2>4. CASE Clear
    <3>1. fullness_' = 0 /\ call' = <<"clear">> /\ reply' = Fifo!Completed
      BY <2>4 DEF Clear
    <3>2. Content' = <<>>
      BY <3>1 DEF Content
    <3>3. QED
      BY <3>1, <3>2 DEF Fifo!Next, Fifo!Clear
  <2>5. ASSUME NEW p \in Patterns, Find(p) PROVE Fifo!Next
    BY <2>5, FindRefines DEF Fifo!Next
  <2>6. CASE UNCHANGED vars
    BY <2>6 DEF vars, Content
  <2>7. QED
    BY <2>1, <2>2, <2>3, <2>4, <2>5, <2>6 DEF Next
<1>3. Spec => []RingInv
  BY CursorsConsistent DEF RingInv
<1>4. QED
  BY <1>1, <1>2, <1>3, PTL DEF Spec, ImplementsFifo, Fifo!Spec

-----------------------------------------------------------------------------
(* Entries are listed in the order they were pushed, each once.            *)
QueueOrdered == \A i, j \in DOMAIN list_ : i < j => list_[i] < list_[j]

QueueInv == Queue!TypeOK /\ Queue!IndexesAgree /\ QueueOrdered

(* What TypeOK says of the places, the entries and the keys.               *)
LEMMA QueuePlaces ==
  ASSUME Queue!TypeOK
  PROVE  /\ Len(list_) \in Nat /\ DOMAIN list_ = 1..Len(list_)
         /\ Len(keyOf) \in Nat /\ DOMAIN keyOf = 1..Len(keyOf)
         /\ \A i \in 1..Len(list_) : list_[i] \in 1..Len(keyOf)
         /\ \A e \in 1..Len(keyOf) : keyOf[e] \in Key
  BY DEF Queue!TypeOK, Queue!Listed

LEMMA QueueInitInv == ASSUME Queue!KeyQueueAssumption, Queue!Init PROVE QueueInv
  <1>1. Queue!TypeOK
    <2>1. Queue!Listed = {}
      BY DEF Queue!Init, Queue!Listed
    <2>2. list_ \in Seq(1..MaxPush) /\ keyOf \in Seq(Key) /\ Len(keyOf) = 0
      BY DEF Queue!Init
    <2>3. map_ \in [Key -> 1..Len(keyOf) \cup {NoEntry}] /\ twice \in BOOLEAN
      BY DEF Queue!Init
    <2> QED
      BY <2>1, <2>2, <2>3 DEF Queue!TypeOK, Queue!KeyQueueAssumption
  <1>2. Queue!IndexesAgree
    BY DEF Queue!Init, Queue!IndexesAgree, Queue!KeyAt
  <1>3. QueueOrdered
    BY DEF Queue!Init, QueueOrdered
  <1> QED
    BY <1>1, <1>2, <1>3 DEF QueueInv

(* A new entry comes last, and the map takes it only for a key it has not. *)
LEMMA QueuePushInv ==
  ASSUME Queue!KeyQueueAssumption, QueueInv, NEW k \in Key, Queue!Push(k)
  PROVE  QueueInv'
  <1> DEFINE n == Len(list_)  e == Queue!Entry
  <1>1. Queue!TypeOK /\ Queue!IndexesAgree /\ QueueOrdered
    BY DEF QueueInv
  <1>2. /\ e = Len(keyOf) + 1 /\ e <= MaxPush
        /\ keyOf' = Append(keyOf, k) /\ list_' = Append(list_, e)
        /\ map_' = [map_ EXCEPT ![k] = IF @ = NoEntry THEN e ELSE @]
        /\ twice' = (twice \/ \E x \in Queue!Listed : keyOf[x] = k)
    BY DEF Queue!Push, Queue!Entry
  <1>3. /\ Len(keyOf') = e /\ keyOf'[e] = k /\ e \in Nat
        /\ \A x \in 1..Len(keyOf) : keyOf'[x] = keyOf[x]
        /\ keyOf' \in Seq(Key)
    BY <1>1, <1>2 DEF Queue!TypeOK
  <1>4. /\ Len(list_') = n + 1 /\ DOMAIN list_' = 1..(n + 1) /\ n \in Nat
        /\ list_'[n + 1] = e
        /\ \A i \in 1..n : list_'[i] = list_[i]
    BY <1>1, <1>2, <1>3 DEF Queue!TypeOK
  <1>5. Queue!Listed' = Queue!Listed \cup {e}
    BY <1>1, <1>4, QueuePlaces DEF Queue!Listed
  <1>6. Queue!TypeOK'
    <2>1. map_' \in [Key -> 1..Len(keyOf') \cup {NoEntry}]
      BY <1>1, <1>2, <1>3 DEF Queue!TypeOK
    <2>2. twice' \in BOOLEAN
      BY <1>1, <1>2 DEF Queue!TypeOK
    <2>3. list_' \in Seq(1..MaxPush)
      <3>1. e \in 1..MaxPush
        BY <1>1, <1>2, <1>3 DEF Queue!TypeOK, Queue!KeyQueueAssumption
      <3> QED
        BY <1>1, <1>2, <3>1 DEF Queue!TypeOK
    <2>4. Queue!Listed' \subseteq 1..Len(keyOf')
      <3>1. Queue!Listed \subseteq 1..Len(keyOf) /\ Len(keyOf) \in Nat
        BY <1>1 DEF Queue!TypeOK
      <3>2. 1..Len(keyOf) \subseteq 1..e /\ e \in 1..e
        BY <1>2, <1>3, <3>1
      <3> HIDE DEF e
      <3> QED
        BY <1>3, <1>5, <3>1, <3>2
    <2> QED
      BY <1>2, <1>3, <2>1, <2>2, <2>3, <2>4 DEF Queue!TypeOK
  <1>7. QueueOrdered'
    BY <1>1, <1>2, <1>3, <1>4, QueuePlaces DEF QueueOrdered
  <1>8. \A j \in Key : map_'[j] # NoEntry => map_'[j] \in Queue!Listed' /\ keyOf'[map_'[j]] = j
    <2> SUFFICES ASSUME NEW j \in Key, map_'[j] # NoEntry
                 PROVE  map_'[j] \in Queue!Listed' /\ keyOf'[map_'[j]] = j
      OBVIOUS
    <2>1. CASE map_'[j] = map_[j]
      BY <1>1, <1>3, <1>5, <2>1 DEF Queue!IndexesAgree, Queue!TypeOK
    <2>2. CASE j = k /\ map_'[j] = e
      BY <1>3, <1>5, <2>2
    <2> QED
      BY <1>1, <1>2, <2>1, <2>2 DEF Queue!TypeOK
  <1>9. ASSUME ~twice', NEW i \in DOMAIN list_'
         PROVE  map_'[Queue!KeyAt(i)'] = list_'[i]
    <2>1. ~twice /\ map_[k] = NoEntry
      BY <1>1, <1>2, <1>9 DEF Queue!IndexesAgree
    <2>2. CASE i = n + 1
      BY <1>1, <1>2, <1>3, <1>4, <2>1, <2>2 DEF Queue!KeyAt, Queue!TypeOK
    <2>3. CASE i \in 1..n
      <3>1. map_[Queue!KeyAt(i)] = list_[i] /\ Queue!KeyAt(i) \in Key /\ Queue!KeyAt(i)' = Queue!KeyAt(i)
        BY <1>1, <1>3, <1>4, <2>1, <2>3, QueuePlaces DEF Queue!IndexesAgree, Queue!KeyAt
      <3>2. Queue!KeyAt(i) # k
        BY <1>1, <1>2, <1>9, <2>3, QueuePlaces DEF Queue!KeyAt, Queue!Listed
      <3> QED
        BY <1>1, <1>2, <1>4, <2>3, <3>1, <3>2 DEF Queue!TypeOK
    <2> QED
      BY <1>4, <1>9, <2>2, <2>3
  <1> QED
    BY <1>6, <1>7, <1>8, <1>9 DEF QueueInv, Queue!IndexesAgree

(* Without(e) keeps the other entries, in their order.                     *)
LEMMA WithoutOne ==
  ASSUME Queue!KeyQueueAssumption, Queue!TypeOK, QueueOrdered, NEW e \in Queue!Listed
  PROVE  LET w == Queue!Without(e)
         IN  /\ w \in Seq(1..MaxPush)
             /\ DOMAIN w = 1..(Len(list_) - 1)
             /\ \A i, j \in DOMAIN w : i < j => w[i] < w[j]
             /\ {w[i] : i \in DOMAIN w} = Queue!Listed \ {e}
  <1> DEFINE n == Len(list_)  a == Queue!At(e)  w == Queue!Without(e)
  <1>0. list_ \in Seq(1..MaxPush)
    BY DEF Queue!TypeOK
  <1>1. /\ n \in Nat /\ DOMAIN list_ = 1..n
        /\ \A i \in 1..n : list_[i] \in 1..MaxPush /\ list_[i] \in Nat
    BY <1>0 DEF Queue!KeyQueueAssumption
  <1>2. a \in 1..n /\ list_[a] = e
    BY <1>1 DEF Queue!At, Queue!Listed
  <1>3. w = [j \in 1..(n - 1) |-> list_[IF j < a THEN j ELSE j + 1]]
    BY DEF Queue!Without
  <1>4. n - 1 \in Nat
    BY <1>1, <1>2
  <1>5. \A i \in 1..(n - 1) : w[i] \in 1..MaxPush
    BY <1>1, <1>2, <1>3
  <1>6. w \in Seq(1..MaxPush)
    BY <1>3, <1>4, <1>5
  <1>7. ASSUME NEW i \in 1..(n - 1), NEW j \in 1..(n - 1), i < j
        PROVE  w[i] < w[j]
    <2> DEFINE p == IF i < a THEN i ELSE i + 1  q == IF j < a THEN j ELSE j + 1
    <2>1. w[i] = list_[p] /\ w[j] = list_[q]
      BY <1>3, <1>7
    <2>2. p \in 1..n /\ q \in 1..n /\ p < q
      BY <1>1, <1>2, <1>7
    <2> QED
      BY <1>1, <2>1, <2>2 DEF QueueOrdered
  <1>8. \A i \in 1..n : i # a => list_[i] # e
    BY <1>1, <1>2 DEF QueueOrdered
  <1>9. ASSUME NEW i \in 1..(n - 1) PROVE w[i] \in Queue!Listed \ {e}
    <2> DEFINE p == IF i < a THEN i ELSE i + 1
    <2>1. w[i] = list_[p]
      BY <1>3, <1>9
    <2>2. p \in 1..n /\ p # a
      BY <1>1, <1>2, <1>9
    <2> QED
      BY <1>1, <1>8, <2>1, <2>2 DEF Queue!Listed
  <1>10. Queue!Listed \ {e} \subseteq {w[i] : i \in 1..(n - 1)}
    <2> SUFFICES ASSUME NEW i \in 1..n, i # a
                 PROVE  \E j \in 1..(n - 1) : w[j] = list_[i]
      BY <1>1, <1>2 DEF Queue!Listed
    <2>1. CASE i < a
      BY <1>1, <1>2, <1>3, <2>1
    <2>2. CASE i > a
      <3>1. i - 1 \in 1..(n - 1) /\ ~(i - 1 < a) /\ (i - 1) + 1 = i
        BY <1>1, <1>2, <2>2
      <3> QED
        BY <1>3, <3>1
    <2> QED
      BY <1>1, <1>2, <2>1, <2>2
  <1> QED
    BY <1>3, <1>6, <1>7, <1>9, <1>10

(* What pop() and remove() have in common: one entry leaves the list, and  *)
(* the map forgets its key.                                                *)
LEMMA QueueLeaveInv ==
  ASSUME Queue!KeyQueueAssumption, QueueInv, NEW e \in Queue!Listed, NEW k \in Key, k = keyOf[e],
         map_' = [map_ EXCEPT ![k] = NoEntry],
         keyOf' = keyOf, twice' = twice,
         list_' \in Seq(1..MaxPush),
         \A i, j \in DOMAIN list_' : i < j => list_'[i] < list_'[j],
         {list_'[i] : i \in DOMAIN list_'} = Queue!Listed \ {e}
  PROVE  QueueInv'
  <1>1. Queue!TypeOK /\ Queue!IndexesAgree /\ QueueOrdered
    BY DEF QueueInv
  <1>2. Queue!Listed' = Queue!Listed \ {e}
    BY DEF Queue!Listed
  <1>3. Queue!TypeOK' /\ QueueOrdered'
    BY <1>1, <1>2 DEF Queue!TypeOK, QueueOrdered
  <1>4. \A j \in Key : map_'[j] # NoEntry => map_'[j] \in Queue!Listed' /\ keyOf'[map_'[j]] = j
    <2> SUFFICES ASSUME NEW j \in Key, map_'[j] # NoEntry
                 PROVE  map_'[j] \in Queue!Listed' /\ keyOf'[map_'[j]] = j
      OBVIOUS
    <2>1. j # k /\ map_'[j] = map_[j]
      BY <1>1 DEF Queue!TypeOK
    <2> QED
      BY <1>1, <1>2, <2>1 DEF Queue!IndexesAgree
  <1>5. ASSUME ~twice', NEW i \in DOMAIN list_'
        PROVE  map_'[Queue!KeyAt(i)'] = list_'[i]
    <2>1. list_'[i] \in Queue!Listed /\ list_'[i] # e
      BY <1>5
    <2>2. PICK m \in DOMAIN list_ : list_[m] = list_'[i]
      BY <2>1 DEF Queue!Listed
    <2>3. map_[Queue!KeyAt(m)] = list_[m] /\ Queue!KeyAt(m) \in Key /\ Queue!KeyAt(i)' = Queue!KeyAt(m)
      BY <1>1, <1>5, <2>2, QueuePlaces DEF Queue!IndexesAgree, Queue!KeyAt
    <2>4. map_[k] = e
      BY <1>1, <1>5 DEF Queue!IndexesAgree, Queue!Listed, Queue!KeyAt
    <2> QED
      BY <1>1, <2>1, <2>2, <2>3, <2>4 DEF Queue!TypeOK
  <1> QED
    BY <1>3, <1>4, <1>5 DEF QueueInv, Queue!IndexesAgree

LEMMA QueuePopInv == ASSUME Queue!KeyQueueAssumption, QueueInv, Queue!Pop PROVE QueueInv'
  <1> DEFINE n == Len(list_)
  <1>1. Queue!TypeOK /\ QueueOrdered
    BY DEF QueueInv
  <1>2. /\ n \in Nat /\ n >= 1 /\ DOMAIN list_ = 1..n
        /\ Head(list_) = list_[1] /\ list_' = Tail(list_) /\ list_' \in Seq(1..MaxPush)
        /\ DOMAIN list_' = 1..(n - 1)
        /\ \A i \in 1..(n - 1) : list_'[i] = list_[i + 1]
    BY <1>1 DEF Queue!Pop, Queue!TypeOK
  <1>3. Head(list_) \in Queue!Listed /\ keyOf[Head(list_)] \in Key
    BY <1>1, <1>2, QueuePlaces DEF Queue!Listed
  <1>4. \A i, j \in DOMAIN list_' : i < j => list_'[i] < list_'[j]
    BY <1>1, <1>2 DEF QueueOrdered
  <1>5. {list_'[i] : i \in DOMAIN list_'} = Queue!Listed \ {Head(list_)}
    <2>1. {list_'[i] : i \in DOMAIN list_'} \subseteq Queue!Listed \ {Head(list_)}
      BY <1>1, <1>2, QueuePlaces DEF Queue!Listed, QueueOrdered
    <2>2. ASSUME NEW m \in 1..n, m # 1 PROVE \E i \in 1..(n - 1) : list_'[i] = list_[m]
      <3>1. m - 1 \in 1..(n - 1) /\ (m - 1) + 1 = m
        BY <1>2, <2>2
      <3> QED
        BY <1>2, <3>1
    <2>3. ASSUME NEW x \in Queue!Listed \ {Head(list_)}
          PROVE  x \in {list_'[i] : i \in DOMAIN list_'}
      <3>1. PICK m \in 1..n : list_[m] = x
        BY <1>2 DEF Queue!Listed
      <3>2. m # 1
        BY <1>2, <3>1
      <3> QED
        BY <1>2, <2>2, <3>1, <3>2
    <2> QED
      BY <2>1, <2>3
  <1> QED
    BY <1>2, <1>3, <1>4, <1>5, QueueLeaveInv DEF Queue!Pop

LEMMA QueueRemoveInv == ASSUME Queue!KeyQueueAssumption, QueueInv, NEW k \in Key, Queue!Remove(k) PROVE QueueInv'
  <1>1. Queue!TypeOK /\ QueueOrdered /\ map_[k] \in Queue!Listed /\ keyOf[map_[k]] = k
    BY DEF QueueInv, Queue!IndexesAgree, Queue!Remove
  <1>2. list_' = Queue!Without(map_[k]) /\ map_' = [map_ EXCEPT ![k] = NoEntry]
        /\ keyOf' = keyOf /\ twice' = twice
    BY DEF Queue!Remove
  <1>3. /\ list_' \in Seq(1..MaxPush)
        /\ \A i, j \in DOMAIN list_' : i < j => list_'[i] < list_'[j]
        /\ {list_'[i] : i \in DOMAIN list_'} = Queue!Listed \ {map_[k]}
    BY <1>1, <1>2, WithoutOne
  <1> QED
    BY <1>1, <1>2, <1>3, QueueLeaveInv

LEMMA QueueClearInv == ASSUME Queue!KeyQueueAssumption, QueueInv, Queue!Clear PROVE QueueInv'
  <1>1. Queue!TypeOK'
    <2>1. Queue!Listed' = {} /\ list_' \in Seq(1..MaxPush)
      BY DEF Queue!Clear, Queue!Listed
    <2> QED
      BY <2>1 DEF Queue!Clear, QueueInv, Queue!TypeOK
  <1>2. Queue!IndexesAgree' /\ QueueOrdered'
    BY DEF Queue!Clear, Queue!IndexesAgree, QueueOrdered, Queue!KeyAt
  <1> QED
    BY <1>1, <1>2 DEF QueueInv

LEMMA QueueStep ==
  ASSUME Queue!KeyQueueAssumption PROVE QueueInv /\ [Queue!Next]_(Queue!vars) => QueueInv'
  <1> SUFFICES ASSUME QueueInv, [Queue!Next]_(Queue!vars) PROVE QueueInv'
    OBVIOUS
  <1>1. ASSUME NEW k \in Key, Queue!Push(k) PROVE QueueInv'
    BY <1>1, QueuePushInv
  <1>2. ASSUME NEW k \in Key, Queue!Remove(k) PROVE QueueInv'
    BY <1>2, QueueRemoveInv
  <1>3. CASE Queue!Pop
    BY <1>3, QueuePopInv
  <1>4. CASE Queue!Clear
    BY <1>4, QueueClearInv
  <1>5. CASE UNCHANGED Queue!vars
    BY <1>5 DEF Queue!vars, QueueInv, Queue!TypeOK, Queue!IndexesAgree, QueueOrdered, Queue!Listed, Queue!KeyAt
  <1> QED
    BY <1>1, <1>2, <1>3, <1>4, <1>5 DEF Queue!Next

(* key_queue: in every reachable state the map leads from a key to an      *)
(* entry that is still queued and has that key; and while no key was       *)
(* queued twice it leads to every entry.                                   *)
THEOREM QueueFindsWhatItHolds == ASSUME Queue!KeyQueueAssumption PROVE Queue!Spec => []Queue!IndexesAgree
  <1>1. Queue!Init => QueueInv
    BY QueueInitInv
  <1>2. QueueInv /\ [Queue!Next]_(Queue!vars) => QueueInv'
    BY QueueStep
  <1>3. QueueInv => Queue!IndexesAgree
    BY DEF QueueInv
  <1> QED
    BY <1>1, <1>2, <1>3, PTL DEF Queue!Spec

-----------------------------------------------------------------------------
(* What a sequence of items holds, and when it is in order, as it grows at *)
(* its end, loses its first item or is joined with another.                *)
Before(s, t) == \A x \in Pipe!ToSet(s), y \in Pipe!ToSet(t) : x < y
OneEach(s)   == \A i, j \in DOMAIN s : i < j => s[i] # s[j]
Apart(s, t)  == \A x \in Pipe!ToSet(s), y \in Pipe!ToSet(t) : x # y

LEMMA ItemsOfNone == Pipe!ToSet(<<>>) = {} /\ Pipe!Increasing(<<>>) /\ OneEach(<<>>)
  BY DEF Pipe!ToSet, Pipe!Increasing, OneEach

LEMMA ItemsAmong == ASSUME NEW S, NEW s \in Seq(S) PROVE Pipe!ToSet(s) \subseteq S
  BY DEF Pipe!ToSet

LEMMA ItemsOfPart ==
  ASSUME NEW S, NEW s \in Seq(S), NEW a \in 1..(Len(s) + 1), NEW b \in 0..Len(s)
  PROVE  SubSeq(s, a, b) \in Seq(S) /\ Len(SubSeq(s, a, b)) = IF a <= b THEN b - a + 1 ELSE 0
  <1>1. a \in Int /\ b \in Int /\ \A i \in a..b : s[i] \in S
    OBVIOUS
  <1> QED
    BY <1>1, SubSeqProperties

(* A sequence cut in two.                                                  *)
Halves(s, a, b, S) ==
  /\ a \in Seq(S) /\ b \in Seq(S) /\ Len(s) = Len(a) + Len(b)
  /\ Pipe!ToSet(s) = Pipe!ToSet(a) \cup Pipe!ToSet(b)
  /\ Pipe!Increasing(s) => Pipe!Increasing(a) /\ Pipe!Increasing(b)
  /\ OneEach(s) => OneEach(a) /\ OneEach(b) /\ Apart(a, b)

LEMMA ItemsOfHalves ==
  ASSUME NEW S, NEW s \in Seq(S), NEW k \in 0..Len(s)
  PROVE  Halves(s, SubSeq(s, 1, k), SubSeq(s, k + 1, Len(s)), S) /\ Len(SubSeq(s, 1, k)) = k
  <1> DEFINE n == Len(s)  a == SubSeq(s, 1, k)  b == SubSeq(s, k + 1, n)
  <1>0. n \in Nat /\ k \in Nat /\ k <= n /\ DOMAIN s = 1..n /\ \A i \in 1..n : s[i] \in S
    OBVIOUS
  <1>1. /\ a \in Seq(S) /\ Len(a) = k /\ \A i \in 1..k : a[i] = s[i]
    <2>1. 1 \in 1..(n + 1) /\ k \in 0..n /\ 1 \in Int /\ k \in Int /\ \A i \in 1..k : s[i] \in S
      BY <1>0
    <2>2. SubSeq(s, 1, k) \in Seq(S) /\ Len(SubSeq(s, 1, k)) = IF 1 <= k THEN k - 1 + 1 ELSE 0
      BY <2>1, ItemsOfPart
    <2> QED
      BY <1>0, <2>2
  <1>2. /\ b \in Seq(S) /\ Len(b) = n - k /\ \A i \in 1..(n - k) : b[i] = s[i + k]
    <2>1. k + 1 \in 1..(n + 1) /\ n \in 0..n
      BY <1>0
    <2>2. /\ SubSeq(s, k + 1, n) \in Seq(S)
          /\ Len(SubSeq(s, k + 1, n)) = IF k + 1 <= n THEN n - (k + 1) + 1 ELSE 0
      BY <2>1, ItemsOfPart
    <2>3. k + 1 \in Int /\ n \in Int /\ \A i \in (k + 1)..n : s[i] \in S
      BY <1>0
    <2>4. \A i \in 1..(n - (k + 1) + 1) : SubSeq(s, k + 1, n)[i] = s[(k + 1) + i - 1]
      BY <2>3, SubSeqProperties
    <2>5. (IF k + 1 <= n THEN n - (k + 1) + 1 ELSE 0) = n - k /\ n - (k + 1) + 1 = n - k
      <3> n \in Nat /\ k \in Nat /\ k <= n
        BY <1>0
      <3> HIDE DEF n
      <3>1. CASE k = n
        BY <3>1
      <3>2. CASE k < n
        BY <3>2
      <3> QED
        BY <3>1, <3>2
    <2>6. \A i \in 1..(n - k) : (k + 1) + i - 1 = i + k
      BY <1>0
    <2> QED
      BY <2>2, <2>4, <2>5, <2>6
  <1> HIDE DEF a, b
  <1>3. DOMAIN a = 1..k /\ DOMAIN b = 1..(n - k)
    BY <1>1, <1>2
  <1>4. /\ \A i \in 1..k : i \in 1..n
        /\ \A i \in 1..(n - k) : i + k \in 1..n /\ i + k > k
        /\ \A i \in 1..n : i \in 1..k \/ (i - k \in 1..(n - k) /\ (i - k) + k = i)
    BY <1>0
  <1>5. Pipe!ToSet(s) = Pipe!ToSet(a) \cup Pipe!ToSet(b)
    <2>1. ASSUME NEW x \in Pipe!ToSet(s) PROVE x \in Pipe!ToSet(a) \cup Pipe!ToSet(b)
      <3>1. PICK i \in 1..n : x = s[i]
        BY <1>0 DEF Pipe!ToSet
      <3>2. CASE i \in 1..k
        BY <1>1, <1>3, <3>1, <3>2 DEF Pipe!ToSet
      <3>3. CASE i - k \in 1..(n - k) /\ (i - k) + k = i
        <4>1. x = b[i - k] /\ i - k \in DOMAIN b
          BY <1>2, <1>3, <3>1, <3>3
        <4> QED
          BY <4>1 DEF Pipe!ToSet
      <3> QED
        BY <1>4, <3>2, <3>3
    <2>2. Pipe!ToSet(a) \subseteq Pipe!ToSet(s)
      BY <1>0, <1>1, <1>3, <1>4 DEF Pipe!ToSet
    <2>3. ASSUME NEW x \in Pipe!ToSet(b) PROVE x \in Pipe!ToSet(s)
      <3>1. PICK i \in 1..(n - k) : x = b[i]
        BY <1>3 DEF Pipe!ToSet
      <3>2. x = s[i + k] /\ i + k \in DOMAIN s
        BY <1>0, <1>2, <1>4, <3>1
      <3> QED
        BY <3>2 DEF Pipe!ToSet
    <2> QED
      BY <2>1, <2>2, <2>3
  <1>6. \A i, j \in 1..(n - k) : i < j =>
          /\ i + k < j + k /\ i + k \in DOMAIN s /\ j + k \in DOMAIN s
          /\ b[i] = s[i + k] /\ b[j] = s[j + k]
    BY <1>0, <1>2, <1>4
  <1>6a. \A i, j \in 1..k : i \in DOMAIN s /\ j \in DOMAIN s /\ a[i] = s[i] /\ a[j] = s[j]
    BY <1>0, <1>1, <1>4
  <1>7. Pipe!Increasing(s) => Pipe!Increasing(a) /\ Pipe!Increasing(b)
    <2>1. Pipe!Increasing(s) => Pipe!Increasing(a)
      BY <1>3, <1>6a DEF Pipe!Increasing
    <2>2. ASSUME Pipe!Increasing(s), NEW i \in 1..(n - k), NEW j \in 1..(n - k), i < j
          PROVE  b[i] < b[j]
      BY <1>6, <2>2 DEF Pipe!Increasing
    <2> QED
      BY <1>3, <2>1, <2>2 DEF Pipe!Increasing
  <1>8. OneEach(s) => OneEach(a) /\ OneEach(b)
    <2>1. OneEach(s) => OneEach(a)
      BY <1>3, <1>6a DEF OneEach
    <2>2. ASSUME OneEach(s), NEW i \in 1..(n - k), NEW j \in 1..(n - k), i < j
          PROVE  b[i] # b[j]
      BY <1>6, <2>2 DEF OneEach
    <2> QED
      BY <1>3, <2>1, <2>2 DEF OneEach
  <1>9. ASSUME OneEach(s), NEW x \in Pipe!ToSet(a), NEW y \in Pipe!ToSet(b) PROVE x # y
    <2>1. PICK i \in 1..k : x = s[i]
      BY <1>1, <1>3 DEF Pipe!ToSet
    <2>2. PICK j \in 1..(n - k) : y = s[j + k]
      BY <1>2, <1>3 DEF Pipe!ToSet
    <2>3. i < j + k /\ i \in 1..n /\ j + k \in 1..n
      BY <1>0, <1>4
    <2> QED
      BY <1>0, <1>9, <2>1, <2>2, <2>3 DEF OneEach
  <1>10. OneEach(s) => Apart(a, b)
    BY <1>9 DEF Apart
  <1> QED
    <2>1. Len(s) = Len(a) + Len(b)
      BY <1>0, <1>1, <1>2
    <2>2. Halves(s, a, b, S) /\ Len(a) = k
      BY <1>1, <1>2, <1>5, <1>7, <1>8, <1>10, <2>1 DEF Halves
    <2> QED
      BY <2>2 DEF a, b

LEMMA ItemsOfAppend ==
  ASSUME NEW S, NEW s \in Seq(S), NEW x \in S
  PROVE  /\ Append(s, x) \in Seq(S) /\ Len(Append(s, x)) = Len(s) + 1
         /\ Pipe!ToSet(Append(s, x)) = Pipe!ToSet(s) \cup {x}
         /\ Pipe!Increasing(s) /\ (\A y \in Pipe!ToSet(s) : y < x) => Pipe!Increasing(Append(s, x))
         /\ OneEach(s) /\ (\A y \in Pipe!ToSet(s) : y # x) => OneEach(Append(s, x))
  <1> DEFINE n == Len(s)  t == Append(s, x)
  <1>1. /\ n \in Nat /\ DOMAIN s = 1..n /\ t \in Seq(S) /\ DOMAIN t = 1..(n + 1) /\ Len(t) = n + 1
        /\ t[n + 1] = x /\ \A i \in 1..n : t[i] = s[i]
    OBVIOUS
  <1> HIDE DEF t
  <1>2. \A i \in 1..(n + 1) : i = n + 1 \/ i \in 1..n
    BY <1>1
  <1>3. Pipe!ToSet(t) = Pipe!ToSet(s) \cup {x}
    <2>1. n + 1 \in 1..(n + 1) /\ \A i \in 1..n : i \in 1..(n + 1)
      BY <1>1
    <2> QED
      BY <1>1, <1>2, <2>1 DEF Pipe!ToSet
  <1>4. ASSUME Pipe!Increasing(s), \A y \in Pipe!ToSet(s) : y < x,
               NEW i \in 1..(n + 1), NEW j \in 1..(n + 1), i < j
        PROVE  t[i] < t[j]
    <2>1. i \in 1..n
      BY <1>1, <1>4
    <2>2. CASE j \in 1..n
      BY <1>1, <1>4, <2>1, <2>2 DEF Pipe!Increasing
    <2>3. CASE j = n + 1
      BY <1>1, <1>4, <2>1, <2>3 DEF Pipe!ToSet
    <2> QED
      BY <1>2, <2>2, <2>3
  <1>5. ASSUME OneEach(s), \A y \in Pipe!ToSet(s) : y # x,
               NEW i \in 1..(n + 1), NEW j \in 1..(n + 1), i < j
        PROVE  t[i] # t[j]
    <2>1. i \in 1..n
      BY <1>1, <1>5
    <2>2. CASE j \in 1..n
      BY <1>1, <1>5, <2>1, <2>2 DEF OneEach
    <2>3. CASE j = n + 1
      BY <1>1, <1>5, <2>1, <2>3 DEF Pipe!ToSet
    <2> QED
      BY <1>2, <2>2, <2>3
  <1>6. OneEach(s) /\ (\A y \in Pipe!ToSet(s) : y # x) => OneEach(t)
    BY <1>1, <1>5 DEF OneEach
  <1> QED
    BY <1>1, <1>3, <1>4, <1>6 DEF Pipe!Increasing, t

LEMMA ItemsOfTail ==
  ASSUME NEW S, NEW s \in Seq(S), s # <<>>
  PROVE  /\ Head(s) \in S /\ Tail(s) \in Seq(S) /\ Len(s) \in Nat /\ Len(Tail(s)) = Len(s) - 1
         /\ Pipe!ToSet(s) = {Head(s)} \cup Pipe!ToSet(Tail(s))
         /\ Pipe!Increasing(s) => /\ Pipe!Increasing(Tail(s))
                                  /\ \A y \in Pipe!ToSet(Tail(s)) : Head(s) < y
         /\ OneEach(s) => OneEach(Tail(s)) /\ \A y \in Pipe!ToSet(Tail(s)) : Head(s) # y
  <1> DEFINE n == Len(s)  t == Tail(s)
  <1>1. /\ n \in Nat /\ n > 0 /\ DOMAIN s = 1..n /\ t \in Seq(S) /\ DOMAIN t = 1..(n - 1)
        /\ Len(t) = n - 1 /\ Head(s) = s[1] /\ s[1] \in S
        /\ \A i \in 1..(n - 1) : t[i] = s[i + 1]
    OBVIOUS
  <1>2. \A i \in 1..(n - 1) : i + 1 \in 1..n /\ 1 < i + 1 /\ 1 \in 1..n
    BY <1>1
  <1> HIDE DEF t
  <1>3. ASSUME NEW y \in Pipe!ToSet(t)
        PROVE  /\ y \in Pipe!ToSet(s) /\ (Pipe!Increasing(s) => Head(s) < y)
               /\ OneEach(s) => Head(s) # y
    <2>1. PICK i \in 1..(n - 1) : y = t[i]
      BY <1>1, <1>3 DEF Pipe!ToSet
    <2>2. y = s[i + 1] /\ i + 1 \in DOMAIN s /\ 1 \in DOMAIN s /\ 1 < i + 1 /\ Head(s) = s[1]
      BY <1>1, <1>2, <2>1
    <2> QED
      BY <2>2 DEF Pipe!ToSet, Pipe!Increasing, OneEach
  <1>4. ASSUME NEW y \in Pipe!ToSet(s) PROVE y \in {Head(s)} \cup Pipe!ToSet(t)
    <2>1. PICK i \in 1..n : y = s[i]
      BY <1>1 DEF Pipe!ToSet
    <2>2. CASE i # 1
      <3>1. i - 1 \in 1..(n - 1) /\ (i - 1) + 1 = i
        BY <1>1, <2>2
      <3> QED
        BY <1>1, <2>1, <3>1 DEF Pipe!ToSet
    <2> QED
      BY <1>1, <2>1, <2>2
  <1>5. Head(s) \in Pipe!ToSet(s)
    BY <1>1 DEF Pipe!ToSet
  <1>6. ASSUME Pipe!Increasing(s), NEW i \in 1..(n - 1), NEW j \in 1..(n - 1), i < j
        PROVE  t[i] < t[j]
    <2>1. i + 1 < j + 1
      BY <1>1, <1>6
    <2> QED
      BY <1>1, <1>2, <1>6, <2>1 DEF Pipe!Increasing
  <1>7. Pipe!Increasing(s) => Pipe!Increasing(t)
    BY <1>1, <1>6 DEF Pipe!Increasing
  <1>8. OneEach(s) => OneEach(t)
    <2>1. ASSUME OneEach(s), NEW i \in 1..(n - 1), NEW j \in 1..(n - 1), i < j
          PROVE  t[i] # t[j]
      <3>1. i + 1 < j + 1 /\ i + 1 \in DOMAIN s /\ j + 1 \in DOMAIN s
        BY <1>1, <1>2, <2>1
      <3> QED
        BY <1>1, <2>1, <3>1 DEF OneEach
    <2> QED
      BY <1>1, <2>1 DEF OneEach
  <1> QED
    BY <1>1, <1>3, <1>4, <1>5, <1>7, <1>8 DEF t

LEMMA ItemsOfJoined ==
  ASSUME NEW S, NEW s \in Seq(S), NEW t \in Seq(S)
  PROVE  /\ s \o t \in Seq(S) /\ Len(s \o t) = Len(s) + Len(t)
         /\ Pipe!ToSet(s \o t) = Pipe!ToSet(s) \cup Pipe!ToSet(t)
         /\ Pipe!Increasing(s) /\ Pipe!Increasing(t) /\ Before(s, t) => Pipe!Increasing(s \o t)
         /\ OneEach(s) /\ OneEach(t) /\ Apart(s, t) => OneEach(s \o t)
  <1> DEFINE n == Len(s)  m == Len(t)  u == s \o t
  <1>1. /\ n \in Nat /\ m \in Nat /\ DOMAIN s = 1..n /\ DOMAIN t = 1..m
        /\ u \in Seq(S) /\ Len(u) = n + m /\ DOMAIN u = 1..(n + m)
        /\ (\A i \in 1..n : u[i] = s[i]) /\ \A i \in 1..(n + m) : i > n => u[i] = t[i - n]
    OBVIOUS
  <1> HIDE DEF u
  <1>2. \A i \in 1..(n + m) : i \in 1..n \/ (i > n /\ i - n \in 1..m)
    BY <1>1
  <1>3. \A i \in 1..m : i + n \in 1..(n + m) /\ i + n > n /\ (i + n) - n = i
    BY <1>1
  <1>4. Pipe!ToSet(u) \subseteq Pipe!ToSet(s) \cup Pipe!ToSet(t)
    BY <1>1, <1>2 DEF Pipe!ToSet
  <1>5. Pipe!ToSet(s) \subseteq Pipe!ToSet(u)
    <2>1. \A i \in 1..n : i \in 1..(n + m)
      BY <1>1
    <2> QED
      BY <1>1, <2>1 DEF Pipe!ToSet
  <1>6. ASSUME NEW x \in Pipe!ToSet(t) PROVE x \in Pipe!ToSet(u)
    <2>1. PICK i \in 1..m : x = t[i]
      BY <1>1 DEF Pipe!ToSet
    <2>2. u[i + n] = t[i] /\ i + n \in DOMAIN u
      BY <1>1, <1>3
    <2> QED
      BY <2>1, <2>2 DEF Pipe!ToSet
  <1>7. ASSUME Pipe!Increasing(s), Pipe!Increasing(t), Before(s, t),
               NEW i \in 1..(n + m), NEW j \in 1..(n + m), i < j
        PROVE  u[i] < u[j]
    <2>1. CASE i \in 1..n /\ j \in 1..n
      BY <1>1, <1>7, <2>1 DEF Pipe!Increasing
    <2>2. CASE i \in 1..n /\ j > n
      <3>1. u[i] \in Pipe!ToSet(s)
        BY <1>1, <2>2 DEF Pipe!ToSet
      <3>2. j - n \in 1..m /\ u[j] = t[j - n]
        BY <1>1, <1>2, <2>2
      <3>3. u[j] \in Pipe!ToSet(t)
        BY <1>1, <3>2 DEF Pipe!ToSet
      <3> QED
        BY <1>7, <3>1, <3>3 DEF Before
    <2>3. CASE i > n /\ j > n
      <3>1. i - n < j - n /\ i - n \in 1..m /\ j - n \in 1..m
        BY <1>1, <1>2, <1>7, <2>3
      <3> QED
        BY <1>1, <1>7, <2>3, <3>1 DEF Pipe!Increasing
    <2> QED
      BY <1>1, <1>2, <1>7, <2>1, <2>2, <2>3
  <1>8. ASSUME OneEach(s), OneEach(t), Apart(s, t),
               NEW i \in 1..(n + m), NEW j \in 1..(n + m), i < j
        PROVE  u[i] # u[j]
    <2>1. CASE i \in 1..n /\ j \in 1..n
      BY <1>1, <1>8, <2>1 DEF OneEach
    <2>2. CASE i \in 1..n /\ j > n
      <3>1. u[i] \in Pipe!ToSet(s)
        BY <1>1, <2>2 DEF Pipe!ToSet
      <3>2. j - n \in 1..m /\ u[j] = t[j - n]
        BY <1>1, <1>2, <2>2
      <3>3. u[j] \in Pipe!ToSet(t)
        BY <1>1, <3>2 DEF Pipe!ToSet
      <3> QED
        BY <1>8, <3>1, <3>3 DEF Apart
    <2>3. CASE i > n /\ j > n
      <3>1. i - n < j - n /\ i - n \in 1..m /\ j - n \in 1..m
        BY <1>1, <1>2, <1>8, <2>3
      <3>2. t[i - n] # t[j - n]
        BY <1>1, <1>8, <3>1 DEF OneEach
      <3> QED
        BY <1>1, <2>3, <3>2
    <2> QED
      BY <1>1, <1>2, <1>8, <2>1, <2>2, <2>3
  <1>9. OneEach(s) /\ OneEach(t) /\ Apart(s, t) => OneEach(u)
    BY <1>1, <1>8 DEF OneEach
  <1> QED
    BY <1>1, <1>4, <1>5, <1>6, <1>7, <1>9 DEF Pipe!Increasing, u

-----------------------------------------------------------------------------
(* save() has the items in its own memory only between its reads and its   *)
(* last write: then, unless somebody has interfered, the pipe is empty.    *)
PipeType ==
  /\ Pipe!TypeOK
  /\ taken \in Seq(1..pushed) /\ linked \in BOOLEAN /\ disturbed \in BOOLEAN /\ overtaken \in BOOLEAN
  /\ phase \in {"idle", "save"} => data = <<>>
  /\ phase = "written" => file = data

PipeAll == \A i \in 1..pushed : i \in Pipe!Everything \cup gone

PipeCalm ==
  /\ Pipe!Saving => type_ = "WRITE"
  /\ phase = "save" => nItems = Len(fifo)
  /\ Pipe!Moving => fifo = <<>> /\ Len(data) <= Capacity
  /\ gone = {}

PipeOnce ==
  /\ OneEach(taken) /\ OneEach(fifo) /\ OneEach(data)
  /\ Apart(taken, fifo) /\ Apart(taken, data) /\ Apart(fifo, data)
  /\ ~Pipe!Moving => data = <<>>

(* As long as nobody pushes during a save(), it counts at least what there *)
(* is, so nothing stays in the pipe when it has taken that out.            *)
PipeOrder ==
  /\ Pipe!Increasing(taken) /\ Pipe!Increasing(fifo) /\ Pipe!Increasing(data)
  /\ Before(taken, fifo) /\ Before(taken, data)
  /\ phase = "save" => Len(fifo) <= nItems
  /\ Pipe!Moving => fifo = <<>>

PipeInv ==
  /\ PipeType /\ PipeAll
  /\ ~disturbed => PipeCalm
  /\ restored = 0 => PipeOnce
  /\ restored = 0 /\ ~overtaken => PipeOrder

(* The bounds of the model, and what the types say of each variable.       *)
LEMMA PipeTypes ==
  ASSUME PipeType
  PROVE  /\ fifo \in Seq(1..pushed) /\ file \in Seq(1..pushed) /\ data \in Seq(1..pushed)
         /\ taken \in Seq(1..pushed) /\ dropped \subseteq 1..pushed /\ gone \subseteq 1..pushed
         /\ type_ \in {"READ", "WRITE"} /\ openers \subseteq {"owner", "peer"}
         /\ Len(fifo) \in Nat /\ Len(fifo) <= Capacity /\ nItems \in 0..Capacity
         /\ pushed \in 0..MaxItems /\ restored \in 0..MaxRestores
         /\ phase \in {"idle", "save", "popped", "written", "clear"}
         /\ phase # "idle" => "owner" \in openers
         /\ phase \in {"idle", "save"} => data = <<>>
         /\ phase = "written" => file = data
         /\ linked \in BOOLEAN /\ disturbed \in BOOLEAN /\ overtaken \in BOOLEAN
         /\ Capacity \in Nat /\ MaxItems \in Nat /\ MaxRestores \in Nat /\ pushed \in Nat
  <1>1. Capacity \in Nat /\ MaxItems \in Nat /\ MaxRestores \in Nat
    BY ContainersAssumption DEF Pipe!PersistentAssumption
  <1>2. fifo \in Seq(1..pushed) /\ file \in Seq(1..pushed) /\ data \in Seq(1..pushed)
    BY DEF PipeType, Pipe!TypeOK
  <1> QED
    BY <1>1, <1>2 DEF PipeType, Pipe!TypeOK, Pipe!Busy

LEMMA PipeInitInv == Pipe!Init => PipeInv
  <1> SUFFICES ASSUME Pipe!Init PROVE PipeInv
    OBVIOUS
  <1>0. /\ fifo = <<>> /\ file = <<>> /\ data = <<>> /\ taken = <<>> /\ pushed = 0 /\ phase = "idle"
        /\ openers = {} /\ dropped = {} /\ gone = {} /\ nItems = 0 /\ restored = 0 /\ type_ = "WRITE"
        /\ linked = FALSE /\ disturbed = FALSE /\ overtaken = FALSE
    BY DEF Pipe!Init
  <1>1. PipeType
    <2>1. Capacity \in Nat /\ MaxItems \in Nat /\ MaxRestores \in Nat
      BY ContainersAssumption DEF Pipe!PersistentAssumption
    <2>2. <<>> \in Seq(1..0) /\ Len(<<>>) = 0
      OBVIOUS
    <2>3. Pipe!TypeOK
      BY <1>0, <2>1, <2>2 DEF Pipe!TypeOK, Pipe!Busy
    <2> QED
      BY <1>0, <2>2, <2>3 DEF PipeType
  <1>2. PipeAll
    BY <1>0 DEF PipeAll
  <1>3. PipeCalm
    BY <1>0 DEF PipeCalm, Pipe!Moving, Pipe!Saving
  <1>4. PipeOnce /\ PipeOrder
    BY <1>0, ItemsOfNone DEF PipeOnce, PipeOrder, Pipe!Moving, Before, Apart
  <1> QED
    BY <1>1, <1>2, <1>3, <1>4 DEF PipeInv

(* Opening and closing the pipe, and the owner's end: what is in the pipe  *)
(* stays, or is dropped on purpose; what the owner holds is gone.          *)
LEMMA EmptiedInv ==
  ASSUME PipeInv, UNCHANGED <<file, pushed, taken, restored, overtaken>>,
         \/ fifo' = fifo /\ dropped' = dropped
         \/ fifo' = <<>> /\ dropped' = dropped \cup Pipe!ToSet(fifo) /\ phase' = "idle",
         \/ /\ UNCHANGED <<phase, data, nItems, disturbed, gone>>
            /\ type_' = type_ \/ phase = "idle"
         \/ /\ phase' = "idle" /\ data' = <<>> /\ nItems' = 0 /\ disturbed' = (disturbed \/ Pipe!Moving)
            /\ gone' = IF Pipe!Moving THEN gone \cup Pipe!ToSet(data) ELSE gone,
         type_' \in {"READ", "WRITE"}, openers' \subseteq {"owner", "peer"}, linked' \in BOOLEAN,
         phase' # "idle" => "owner" \in openers'
  PROVE  PipeInv'
  <1> DEFINE Stays == UNCHANGED <<phase, data, nItems, disturbed, gone>>
             Ends  == /\ phase' = "idle" /\ data' = <<>> /\ nItems' = 0 /\ disturbed' = (disturbed \/ Pipe!Moving)
                      /\ gone' = IF Pipe!Moving THEN gone \cup Pipe!ToSet(data) ELSE gone
  <1>1. PipeType
    BY DEF PipeInv
  <1>2. (Stays /\ (type_' = type_ \/ phase = "idle")) \/ Ends
    OBVIOUS
  <1>t. /\ fifo \in Seq(1..pushed) /\ Len(fifo) <= Capacity /\ dropped \subseteq 1..pushed
        /\ data \in Seq(1..pushed) /\ nItems \in 0..Capacity /\ Capacity \in Nat /\ disturbed \in BOOLEAN
        /\ gone \subseteq 1..pushed
    BY <1>1, PipeTypes
  <1>0. <<>> \in Seq(1..pushed) /\ Len(<<>>) = 0
    OBVIOUS
  <1>3. fifo' \in Seq(1..pushed') /\ Len(fifo') <= Capacity /\ dropped' \subseteq 1..pushed'
    <2>1. Pipe!ToSet(fifo) \subseteq 1..pushed
      BY <1>t, ItemsAmong
    <2>2. CASE fifo' = fifo /\ dropped' = dropped
      BY <1>t, <2>2
    <2>3. CASE fifo' = <<>> /\ dropped' = dropped \cup Pipe!ToSet(fifo)
      <3>1. dropped' \subseteq 1..pushed
        BY <1>t, <2>1, <2>3
      <3>2. fifo' \in Seq(1..pushed) /\ Len(fifo') = 0
        BY <1>0, <2>3
      <3>3. Len(fifo') <= Capacity
        BY <1>t, <3>2
      <3> QED
        BY <3>1, <3>2, <3>3
    <2> QED
      BY <2>2, <2>3
  <1>4. nItems' \in 0..Capacity /\ data' \in Seq(1..pushed') /\ disturbed' \in BOOLEAN /\ gone' \subseteq 1..pushed'
    <2>1. Pipe!ToSet(data) \subseteq 1..pushed
      BY <1>t, ItemsAmong
    <2>2. CASE Stays
      BY <1>t, <2>2
    <2>3. CASE Ends
      <3>1. nItems' \in 0..Capacity
        BY <1>t, <2>3
      <3>2. data' \in Seq(1..pushed')
        BY <1>0, <2>3
      <3>3. disturbed' \in BOOLEAN
        BY <1>t, <2>3 DEF Pipe!Moving
      <3>4. gone' \subseteq 1..pushed'
        BY <1>t, <2>1, <2>3
      <3> QED
        BY <3>1, <3>2, <3>3, <3>4
    <2> QED
      BY <1>2, <2>2, <2>3
  <1>5. PipeType'
    BY <1>1, <1>2, <1>3, <1>4, PipeTypes DEF PipeType, Pipe!TypeOK, Pipe!Busy
  <1>6. PipeAll'
    <2>1. PipeAll
      BY DEF PipeInv
    <2>2. /\ Pipe!ToSet(fifo) \cup dropped \subseteq Pipe!ToSet(fifo') \cup dropped'
      OBVIOUS
    <2>3. gone \subseteq gone' /\ Pipe!InHand \subseteq Pipe!InHand' \cup gone'
      BY <1>2 DEF Pipe!InHand, Pipe!Moving
    <2>4. Pipe!Everything \cup gone \subseteq Pipe!Everything' \cup gone'
      BY <2>2, <2>3 DEF Pipe!Everything
    <2> QED
      BY <2>1, <2>4 DEF PipeAll
  <1>7. ASSUME ~disturbed' PROVE PipeCalm'
    <2>1. ~disturbed /\ PipeCalm
      <3>1. ~disturbed
        <4>1. CASE Stays
          BY <1>7, <4>1
        <4>2. CASE Ends
          BY <1>7, <4>2
        <4> QED
          BY <1>2, <4>1, <4>2
      <3> QED
        BY <3>1 DEF PipeInv
    <2>2. CASE Ends
      <3>1. ~Pipe!Moving /\ gone' = gone
        BY <1>7, <2>2
      <3> QED
        BY <2>1, <2>2, <3>1 DEF PipeCalm, Pipe!Moving, Pipe!Saving
    <2>3. CASE Stays /\ phase = "idle"
      BY <2>1, <2>3 DEF PipeCalm, Pipe!Moving, Pipe!Saving
    <2>4. CASE Stays /\ type_' = type_ /\ phase # "idle"
      <3>1. fifo' = fifo
        BY <2>4
      <3> QED
        BY <2>1, <2>4, <3>1 DEF PipeCalm, Pipe!Moving, Pipe!Saving
    <2> QED
      BY <1>2, <2>2, <2>3, <2>4
  <1>8. (fifo' = fifo \/ fifo' = <<>>) /\ (data' = data \/ data' = <<>>) /\ taken' = taken
        /\ (phase' = phase \/ phase' = "idle") /\ (phase' # "idle" => UNCHANGED <<fifo, phase, nItems, data>>)
    BY <1>2
  <1>9. PipeOnce => PipeOnce'
    <2>1. ~Pipe!Moving' => (data' = <<>> \/ (~Pipe!Moving /\ data' = data))
      <3>1. CASE Stays
        BY <3>1 DEF Pipe!Moving
      <3>2. CASE Ends
        BY <3>2
      <3> QED
        BY <1>2, <3>1, <3>2
    <2> QED
      BY <1>8, <2>1, ItemsOfNone DEF PipeOnce, Apart
  <1>10. PipeOrder => PipeOrder'
    <2>1. ASSUME PipeOrder PROVE (phase' = "save" => Len(fifo') <= nItems') /\ (Pipe!Moving' => fifo' = <<>>)
      BY <1>8, <2>1 DEF PipeOrder, Pipe!Moving
    <2> QED
      BY <1>8, <2>1, ItemsOfNone DEF PipeOrder, Before
  <1> QED
    BY <1>5, <1>6, <1>7, <1>9, <1>10 DEF PipeInv

LEMMA OpenInv ==
  ASSUME PipeInv, Pipe!Open \/ Pipe!PeerOpens \/ Pipe!PeerCloses \/ Pipe!OwnerEnds
  PROVE  PipeInv'
  <1>1. PipeType
    BY DEF PipeInv
  <1>2. CASE Pipe!Open
    <2>1. /\ phase = "idle"
          /\ UNCHANGED <<phase, data, nItems, disturbed, gone, overtaken, file, pushed, taken, restored>>
      BY <1>1, <1>2, PipeTypes DEF Pipe!Open, Pipe!local, Pipe!harm
    <2>2. \/ fifo' = fifo /\ dropped' = dropped
          \/ fifo' = <<>> /\ dropped' = dropped \cup Pipe!ToSet(fifo) /\ phase' = "idle"
      BY <1>2, <2>1 DEF Pipe!Open
    <2>3. type_' \in {"READ", "WRITE"} /\ openers' \subseteq {"owner", "peer"} /\ linked' \in BOOLEAN
      BY <1>1, <1>2, PipeTypes DEF Pipe!Open
    <2> QED
      BY <2>1, <2>2, <2>3, EmptiedInv
  <1>3. CASE Pipe!PeerOpens
    <2>1. /\ openers' = openers \cup {"peer"}
          /\ UNCHANGED <<type_, fifo, file, phase, data, nItems, linked, pushed, taken, dropped, restored>>
          /\ UNCHANGED <<disturbed, gone, overtaken>>
      BY <1>3 DEF Pipe!PeerOpens, Pipe!local, Pipe!past, Pipe!harm
    <2> QED
      BY <1>1, <2>1, PipeTypes, EmptiedInv
  <1>4. CASE Pipe!PeerCloses
    <2>1. /\ openers' = openers \ {"peer"}
          /\ UNCHANGED <<type_, file, phase, data, nItems, linked, pushed, taken, restored>>
          /\ UNCHANGED <<disturbed, gone, overtaken>>
      BY <1>4 DEF Pipe!PeerCloses, Pipe!local, Pipe!harm
    <2>2. \/ fifo' = fifo /\ dropped' = dropped
          \/ fifo' = <<>> /\ dropped' = dropped \cup Pipe!ToSet(fifo) /\ phase' = "idle"
      <3>1. CASE openers = {"peer"}
        <4>1. phase = "idle"
          BY <1>1, <3>1, PipeTypes
        <4> QED
          BY <1>4, <2>1, <3>1, <4>1 DEF Pipe!PeerCloses, Pipe!Left
      <3>2. CASE openers # {"peer"}
        BY <1>4, <3>2 DEF Pipe!PeerCloses, Pipe!Left
      <3> QED
        BY <3>1, <3>2
    <2>3. phase' # "idle" => "owner" \in openers'
      BY <1>1, <2>1, PipeTypes
    <2> QED
      BY <1>1, <2>1, <2>2, <2>3, PipeTypes, EmptiedInv
  <1>5. CASE Pipe!OwnerEnds
    <2>1. /\ openers' = openers \ {"owner"} /\ phase' = "idle" /\ data' = <<>> /\ nItems' = 0
          /\ disturbed' = (disturbed \/ Pipe!Moving)
          /\ gone' = IF Pipe!Moving THEN gone \cup Pipe!ToSet(data) ELSE gone
          /\ UNCHANGED <<type_, file, pushed, taken, restored, overtaken>>
      BY <1>5 DEF Pipe!OwnerEnds
    <2>2. \/ fifo' = fifo /\ dropped' = dropped
          \/ fifo' = <<>> /\ dropped' = dropped \cup Pipe!ToSet(fifo) /\ phase' = "idle"
      BY <1>5, <2>1 DEF Pipe!OwnerEnds, Pipe!Left
    <2>3. linked' \in BOOLEAN
      BY <1>1, <1>5, PipeTypes DEF Pipe!OwnerEnds
    <2> QED
      BY <1>1, <2>1, <2>2, <2>3, PipeTypes, EmptiedInv
  <1> QED
    BY <1>2, <1>3, <1>4, <1>5

(* An item is pushed behind all others, or is the next that is taken; by   *)
(* the peer during a save(), that counts as disturbing it.                 *)
LEMMA PipePushInv ==
  ASSUME PipeInv, NEW p \in {"owner", "peer"}, Pipe!PushBack(p)
  PROVE  PipeInv'
  <1> DEFINE x == pushed + 1
  <1>1. PipeType
    BY DEF PipeInv
  <1>2. /\ Len(fifo) < Capacity /\ pushed < MaxItems
        /\ fifo' = Append(fifo, x) /\ pushed' = x
        /\ UNCHANGED <<type_, openers, file, phase, data, nItems, linked, taken, dropped, restored, gone>>
    BY DEF Pipe!PushBack, Pipe!local
  <1>3. disturbed' = (disturbed \/ Pipe!Saving) /\ overtaken' = (overtaken \/ Pipe!Saving)
    BY DEF Pipe!PushBack
  <1>4. /\ x \in 1..x /\ 1..pushed \subseteq 1..x /\ pushed \in Nat /\ x \in 0..MaxItems
        /\ \A i \in 1..pushed : i < x /\ i # x
    BY <1>1, <1>2, PipeTypes
  <1>5. \A s \in Seq(1..pushed) : s \in Seq(1..x) /\ Pipe!ToSet(s) \subseteq 1..pushed
    BY <1>4 DEF Pipe!ToSet
  <1>6. /\ fifo \in Seq(1..x) /\ file \in Seq(1..x) /\ data \in Seq(1..x) /\ taken \in Seq(1..x)
        /\ Pipe!ToSet(fifo) \subseteq 1..pushed /\ Pipe!ToSet(taken) \subseteq 1..pushed
        /\ Pipe!ToSet(data) \subseteq 1..pushed
    BY <1>1, <1>5, PipeTypes
  <1>7. \A i \in 1..x : i = x \/ i \in 1..pushed
    BY <1>4
  <1> HIDE DEF x
  <1>8. /\ fifo' \in Seq(1..x) /\ Len(fifo') = Len(fifo) + 1
        /\ Pipe!ToSet(fifo') = Pipe!ToSet(fifo) \cup {x}
        /\ Pipe!Increasing(fifo) => Pipe!Increasing(fifo')
        /\ OneEach(fifo) => OneEach(fifo')
    <2>1. \A y \in Pipe!ToSet(fifo) : y < x /\ y # x
      BY <1>4, <1>6
    <2> QED
      BY <1>2, <1>4, <1>6, <2>1, ItemsOfAppend
  <1>9. Len(fifo') <= Capacity /\ disturbed' \in BOOLEAN /\ overtaken' \in BOOLEAN
    <2>1. Len(fifo') <= Capacity
      BY <1>1, <1>2, <1>8, PipeTypes
    <2> QED
      BY <1>1, <1>3, <2>1, PipeTypes DEF Pipe!Saving
  <1>10. PipeType'
    BY <1>1, <1>2, <1>4, <1>6, <1>8, <1>9, PipeTypes DEF PipeType, Pipe!TypeOK, Pipe!Busy
  <1>11. PipeAll'
    <2>1. PipeAll
      BY DEF PipeInv
    <2>2. Pipe!InHand' = Pipe!InHand
      BY <1>2 DEF Pipe!InHand, Pipe!Moving
    <2>3. Pipe!Everything' = Pipe!Everything \cup {x}
      BY <1>2, <1>8, <2>2 DEF Pipe!Everything
    <2> QED
      BY <1>2, <1>7, <2>1, <2>3 DEF PipeAll
  <1>12. ASSUME ~disturbed' PROVE PipeCalm'
    <2>1. ~disturbed /\ ~Pipe!Saving /\ PipeCalm
      BY <1>3, <1>12 DEF PipeInv
    <2> QED
      BY <1>2, <2>1 DEF PipeCalm, Pipe!Moving, Pipe!Saving
  <1>13. PipeOnce => PipeOnce'
    <2>1. ASSUME PipeOnce PROVE Apart(taken, fifo') /\ Apart(fifo', data)
      BY <1>4, <1>6, <1>8, <2>1 DEF Apart, PipeOnce
    <2> QED
      BY <1>2, <1>8, <2>1 DEF PipeOnce, Pipe!Moving, Apart
  <1>14. ASSUME ~overtaken', restored' = 0 PROVE PipeOrder'
    <2>1. PipeOrder /\ ~Pipe!Saving
      BY <1>2, <1>3, <1>14 DEF PipeInv
    <2>2. Before(taken, fifo')
      BY <1>4, <1>6, <1>8, <2>1 DEF Before, PipeOrder
    <2> QED
      BY <1>2, <1>8, <2>1, <2>2 DEF PipeOrder, Before, Pipe!Moving, Pipe!Saving
  <1> QED
    BY <1>2, <1>10, <1>11, <1>12, <1>13, <1>14 DEF PipeInv

LEMMA PipePopInv ==
  ASSUME PipeInv, NEW p \in {"owner", "peer"}, Pipe!PopFront(p)
  PROVE  PipeInv'
  <1> DEFINE x == Head(fifo)
  <1>1. PipeType
    BY DEF PipeInv
  <1>2. /\ fifo # <<>> /\ fifo' = Tail(fifo) /\ taken' = Append(taken, x)
        /\ UNCHANGED <<type_, openers, file, phase, data, nItems, linked, pushed, dropped, restored>>
        /\ UNCHANGED <<gone, overtaken>>
    BY DEF Pipe!PopFront, Pipe!local
  <1>3. disturbed' = (disturbed \/ Pipe!Saving)
    BY DEF Pipe!PopFront
  <1>4. /\ fifo \in Seq(1..pushed) /\ taken \in Seq(1..pushed) /\ Len(fifo) \in Nat /\ Len(fifo) <= Capacity
        /\ nItems \in Nat /\ Capacity \in Nat
    BY <1>1, PipeTypes
  <1>5. /\ x \in 1..pushed /\ fifo' \in Seq(1..pushed) /\ Len(fifo') = Len(fifo) - 1
        /\ Pipe!ToSet(fifo) = {x} \cup Pipe!ToSet(fifo')
        /\ Pipe!Increasing(fifo) => /\ Pipe!Increasing(fifo')
                                    /\ \A y \in Pipe!ToSet(fifo') : x < y
        /\ OneEach(fifo) => OneEach(fifo') /\ \A y \in Pipe!ToSet(fifo') : x # y
    BY <1>2, <1>4, ItemsOfTail
  <1> HIDE DEF x
  <1>6. /\ taken' \in Seq(1..pushed) /\ Pipe!ToSet(taken') = Pipe!ToSet(taken) \cup {x}
        /\ Pipe!Increasing(taken) /\ (\A y \in Pipe!ToSet(taken) : y < x) => Pipe!Increasing(taken')
        /\ OneEach(taken) /\ (\A y \in Pipe!ToSet(taken) : y # x) => OneEach(taken')
    <2> DEFINE D == 1..pushed
    <2>1. taken \in Seq(D) /\ x \in D
      BY <1>4, <1>5
    <2> HIDE DEF D
    <2>2. /\ Append(taken, x) \in Seq(D)
          /\ Pipe!ToSet(Append(taken, x)) = Pipe!ToSet(taken) \cup {x}
          /\ Pipe!Increasing(taken) /\ (\A y \in Pipe!ToSet(taken) : y < x)
               => Pipe!Increasing(Append(taken, x))
          /\ OneEach(taken) /\ (\A y \in Pipe!ToSet(taken) : y # x) => OneEach(Append(taken, x))
      <3>1. \A S : \A t \in Seq(S) : \A y \in S :
              /\ Append(t, y) \in Seq(S)
              /\ Pipe!ToSet(Append(t, y)) = Pipe!ToSet(t) \cup {y}
              /\ Pipe!Increasing(t) /\ (\A z \in Pipe!ToSet(t) : z < y)
                   => Pipe!Increasing(Append(t, y))
              /\ OneEach(t) /\ (\A z \in Pipe!ToSet(t) : z # y) => OneEach(Append(t, y))
        BY ItemsOfAppend
      <3> QED
        BY <2>1, <3>1
    <2> QED
      BY <1>2, <2>2 DEF D
  <1>7. Len(fifo') <= Capacity /\ disturbed' \in BOOLEAN
    <2>1. Len(fifo') <= Capacity
      BY <1>4, <1>5
    <2> QED
      BY <1>1, <1>3, <2>1, PipeTypes DEF Pipe!Saving
  <1>8. PipeType'
    BY <1>1, <1>2, <1>5, <1>6, <1>7, PipeTypes DEF PipeType, Pipe!TypeOK, Pipe!Busy
  <1>9. PipeAll'
    <2>1. PipeAll
      BY DEF PipeInv
    <2>2. Pipe!InHand' = Pipe!InHand
      BY <1>2 DEF Pipe!InHand, Pipe!Moving
    <2>3. Pipe!Everything' = Pipe!Everything
      BY <1>2, <1>5, <1>6, <2>2 DEF Pipe!Everything
    <2> QED
      BY <1>2, <2>1, <2>3 DEF PipeAll
  <1>10. ASSUME ~disturbed' PROVE PipeCalm'
    <2>1. ~disturbed /\ ~Pipe!Saving /\ PipeCalm
      BY <1>3, <1>10 DEF PipeInv
    <2> QED
      BY <1>2, <2>1 DEF PipeCalm, Pipe!Moving, Pipe!Saving
  <1>11. PipeOnce => PipeOnce'
    <2>1. ASSUME PipeOnce PROVE OneEach(taken') /\ OneEach(fifo') /\ Apart(taken', fifo')
      BY <1>5, <1>6, <2>1 DEF Apart, PipeOnce
    <2>2. ASSUME PipeOnce PROVE Apart(taken', data) /\ Apart(fifo', data)
      BY <1>5, <1>6, <2>2 DEF Apart, PipeOnce
    <2> QED
      BY <1>2, <2>1, <2>2 DEF PipeOnce, Pipe!Moving, Apart
  <1>12. ASSUME ~overtaken', restored' = 0 PROVE PipeOrder'
    <2>1. PipeOrder /\ PipeOnce
      BY <1>2, <1>12 DEF PipeInv
    <2>2. Pipe!Increasing(taken') /\ Pipe!Increasing(fifo') /\ Before(taken', fifo')
      BY <1>5, <1>6, <2>1 DEF Before, PipeOrder
    <2>3. ~Pipe!Moving /\ data = <<>>
      BY <1>2, <2>1 DEF PipeOrder, PipeOnce
    <2>4. Before(taken', data')
      BY <1>2, <2>3, ItemsOfNone DEF Before
    <2>5. phase = "save" => Len(fifo') <= nItems
      BY <1>4, <1>5, <2>1 DEF PipeOrder
    <2> QED
      BY <1>2, <2>1, <2>2, <2>3, <2>4, <2>5 DEF PipeOrder, Pipe!Moving
  <1> QED
    BY <1>2, <1>8, <1>9, <1>10, <1>11, <1>12 DEF PipeInv

(* save() counts, takes out what it has counted, or all there is if that   *)
(* has become less, writes the file, and puts back what finds room.        *)
LEMMA SaveBeginInv ==
  ASSUME PipeInv, Pipe!SaveBegin
  PROVE  PipeInv'
  <1>1. PipeType
    BY DEF PipeInv
  <1>2. /\ "owner" \in openers /\ phase = "idle" /\ phase' = "save" /\ nItems' = Len(fifo)
        /\ data' = <<>> /\ file' = <<>>
        /\ UNCHANGED <<type_, openers, fifo, linked, pushed, taken, dropped, restored, gone, overtaken>>
    BY DEF Pipe!SaveBegin, Pipe!past, Pipe!Busy
  <1>3. disturbed' = (disturbed \/ type_ = "READ")
    BY DEF Pipe!SaveBegin
  <1>4. nItems' \in 0..Capacity /\ disturbed' \in BOOLEAN
    BY <1>1, <1>2, <1>3, PipeTypes
  <1>5. PipeType'
    BY <1>1, <1>2, <1>4, PipeTypes DEF PipeType, Pipe!TypeOK, Pipe!Busy
  <1>6. PipeAll'
    BY <1>2 DEF PipeInv, PipeAll, Pipe!Everything, Pipe!InHand, Pipe!Moving
  <1>7. ASSUME ~disturbed' PROVE PipeCalm'
    <2>1. ~disturbed /\ type_ = "WRITE" /\ PipeCalm
      BY <1>1, <1>3, <1>7, PipeTypes DEF PipeInv
    <2> QED
      BY <1>2, <2>1 DEF PipeCalm, Pipe!Moving, Pipe!Saving
  <1>8. PipeOnce => PipeOnce'
    BY <1>2, ItemsOfNone DEF PipeOnce, Pipe!Moving, Apart
  <1>9. PipeOrder => PipeOrder'
    <2>1. Len(fifo') <= nItems'
      BY <1>1, <1>2, PipeTypes
    <2> QED
      BY <1>2, <2>1, ItemsOfNone DEF PipeOrder, Pipe!Moving, Before
  <1> QED
    BY <1>2, <1>5, <1>6, <1>7, <1>8, <1>9 DEF PipeInv

LEMMA SavePopInv ==
  ASSUME PipeInv, Pipe!SavePop
  PROVE  PipeInv'
  <1> DEFINE n == Len(fifo)  m == Pipe!Min2(nItems, n)
  <1>1. PipeType
    BY DEF PipeInv
  <1>2. /\ phase = "save" /\ fifo' = SubSeq(fifo, m + 1, n)
        /\ UNCHANGED <<type_, openers, file, nItems, linked, pushed, taken, dropped, restored>>
        /\ UNCHANGED <<disturbed, overtaken>>
    BY DEF Pipe!SavePop, Pipe!past
  <1>3. \/ n < nItems /\ phase' = "idle" /\ data' = <<>> /\ gone' = gone \cup Pipe!ToSet(fifo)
        \/ ~(n < nItems) /\ phase' = "popped" /\ data' = SubSeq(fifo, 1, nItems) /\ gone' = gone
    BY DEF Pipe!SavePop
  <1>4. /\ fifo \in Seq(1..pushed) /\ n \in Nat /\ n <= Capacity /\ nItems \in 0..Capacity
        /\ Capacity \in Nat /\ "owner" \in openers /\ data = <<>> /\ gone \subseteq 1..pushed
        /\ taken \in Seq(1..pushed)
    BY <1>1, <1>2, PipeTypes
  <1>5. m \in 0..n /\ (n < nItems => m = n) /\ (~(n < nItems) => m = nItems)
    BY <1>4 DEF Pipe!Min2
  <1> HIDE DEF m
  <1> DEFINE a == SubSeq(fifo, 1, m)
  <1>6. /\ a \in Seq(1..pushed) /\ fifo' \in Seq(1..pushed) /\ Len(a) = m /\ Len(fifo') = n - m
        /\ Pipe!ToSet(fifo) = Pipe!ToSet(a) \cup Pipe!ToSet(fifo')
        /\ Pipe!Increasing(fifo) => Pipe!Increasing(a) /\ Pipe!Increasing(fifo')
        /\ OneEach(fifo) => OneEach(a) /\ OneEach(fifo') /\ Apart(a, fifo')
    <2> HIDE DEF n
    <2>1. fifo \in Seq(1..pushed) /\ m \in 0..Len(fifo)
      BY <1>4, <1>5 DEF n
    <2>2. Halves(fifo, a, SubSeq(fifo, m + 1, Len(fifo)), 1..pushed) /\ Len(a) = m
      BY <2>1, ItemsOfHalves
    <2>3. Halves(fifo, a, fifo', 1..pushed) /\ Len(a) = m
      BY <1>2, <2>2 DEF n
    <2>4. Len(fifo') = n - m
      <3>1. n \in Nat /\ Len(fifo') \in Nat /\ m \in Nat /\ n = m + Len(fifo')
        BY <1>4, <1>5, <2>3 DEF n, Halves
      <3> QED
        BY <3>1
    <2> QED
      BY <2>3, <2>4 DEF Halves
  <1>7. Len(fifo') <= Capacity
    BY <1>4, <1>5, <1>6
  <1>8. CASE n < nItems
    <2>1. /\ phase' = "idle" /\ data' = <<>> /\ gone' = gone \cup Pipe!ToSet(fifo)
          /\ data' \in Seq(1..pushed) /\ fifo' = <<>>
      <3>1. Len(fifo') = 0 /\ fifo' \in Seq(1..pushed)
        BY <1>4, <1>5, <1>6, <1>8
      <3>2. fifo' = <<>>
        BY <3>1
      <3>3. phase' = "idle" /\ data' = <<>> /\ gone' = gone \cup Pipe!ToSet(fifo)
        BY <1>3, <1>8
      <3>4. data' \in Seq(1..pushed)
        BY <3>3
      <3> QED
        BY <3>2, <3>3, <3>4
    <2>2. gone' \subseteq 1..pushed
      BY <1>4, <2>1, ItemsAmong
    <2>3. PipeType'
      BY <1>1, <1>2, <1>4, <1>6, <1>7, <2>1, <2>2, PipeTypes DEF PipeType, Pipe!TypeOK, Pipe!Busy
    <2>4. PipeAll'
      <3>1. Pipe!InHand = {}
        BY <1>2 DEF Pipe!InHand, Pipe!Moving
      <3>2. Pipe!Everything \cup gone \subseteq Pipe!Everything' \cup gone'
        BY <1>2, <2>1, <3>1 DEF Pipe!Everything
      <3> QED
        BY <1>2, <3>2 DEF PipeInv, PipeAll
    <2>5. disturbed'
      <3>1. nItems # n
        BY <1>4, <1>8
      <3> QED
        BY <1>1, <1>2, <3>1, PipeTypes DEF PipeInv, PipeCalm
    <2>6. PipeOnce => PipeOnce'
      BY <1>2, <2>1, ItemsOfNone DEF PipeOnce, Pipe!Moving, Apart
    <2>7. PipeOrder => PipeOrder'
      BY <1>2, <2>1, ItemsOfNone DEF PipeOrder, Pipe!Moving, Before
    <2> QED
      BY <1>2, <2>3, <2>4, <2>5, <2>6, <2>7 DEF PipeInv
  <1>9. CASE ~(n < nItems)
    <2>1. phase' = "popped" /\ data' = SubSeq(fifo, 1, m) /\ gone' = gone /\ m = nItems
      BY <1>3, <1>5, <1>9
    <2>2. /\ data' \in Seq(1..pushed) /\ Len(data') = m /\ Len(fifo') = n - m /\ fifo' \in Seq(1..pushed)
          /\ Pipe!ToSet(fifo) = Pipe!ToSet(data') \cup Pipe!ToSet(fifo')
          /\ Pipe!Increasing(fifo) => Pipe!Increasing(data') /\ Pipe!Increasing(fifo')
          /\ OneEach(fifo) => OneEach(data') /\ OneEach(fifo') /\ Apart(data', fifo')
      BY <1>6, <2>1
    <2>3. PipeType'
      BY <1>1, <1>2, <1>4, <1>7, <2>1, <2>2, PipeTypes DEF PipeType, Pipe!TypeOK, Pipe!Busy
    <2>4. PipeAll'
      <3>1. Pipe!InHand = {} /\ Pipe!InHand' = Pipe!ToSet(data')
        BY <1>2, <2>1 DEF Pipe!InHand, Pipe!Moving
      <3>2. Pipe!Everything' = Pipe!Everything
        BY <1>2, <2>2, <3>1 DEF Pipe!Everything
      <3> QED
        BY <1>2, <2>1, <3>2 DEF PipeInv, PipeAll
    <2>5. n <= nItems => fifo' = <<>>
      <3> SUFFICES ASSUME n <= nItems PROVE fifo' = <<>>
        OBVIOUS
      <3>1. Len(fifo') = 0
        BY <1>4, <1>9, <2>1, <2>2
      <3> QED
        BY <2>2, <3>1
    <2>6. ASSUME ~disturbed' PROVE PipeCalm'
      <3>1. PipeCalm /\ type_ = "WRITE" /\ nItems = n
        BY <1>2, <2>6 DEF PipeInv, PipeCalm, Pipe!Saving
      <3>2. fifo' = <<>> /\ Len(data') <= Capacity
        BY <1>4, <2>1, <2>2, <2>5, <3>1
      <3> QED
        BY <1>2, <2>1, <3>1, <3>2 DEF PipeCalm, Pipe!Saving, Pipe!Moving
    <2>7. PipeOnce => PipeOnce'
      <3> SUFFICES ASSUME PipeOnce PROVE PipeOnce'
        OBVIOUS
      <3>1. OneEach(data') /\ OneEach(fifo') /\ Apart(fifo', data')
        BY <2>2 DEF PipeOnce, Apart
      <3>2. Apart(taken, fifo') /\ Apart(taken, data') /\ OneEach(taken)
        BY <2>2 DEF PipeOnce, Apart
      <3> QED
        BY <1>2, <2>1, <3>1, <3>2 DEF PipeOnce, Pipe!Moving, Apart
    <2>8. PipeOrder => PipeOrder'
      <3> SUFFICES ASSUME PipeOrder PROVE PipeOrder'
        OBVIOUS
      <3>1. Pipe!Increasing(data') /\ Pipe!Increasing(fifo') /\ fifo' = <<>>
        BY <1>2, <2>2, <2>5 DEF PipeOrder
      <3>2. Before(taken, fifo') /\ Before(taken, data') /\ Pipe!Increasing(taken)
        BY <2>2 DEF PipeOrder, Before
      <3> QED
        BY <1>2, <2>1, <3>1, <3>2 DEF PipeOrder, Before
    <2> QED
      BY <1>2, <2>3, <2>4, <2>6, <2>7, <2>8 DEF PipeInv
  <1> QED
    BY <1>8, <1>9

LEMMA SaveWriteInv ==
  ASSUME PipeInv, Pipe!SaveWrite
  PROVE  PipeInv'
  <1>1. PipeType
    BY DEF PipeInv
  <1>2. /\ phase = "popped" /\ phase' = "written" /\ file' = data
        /\ UNCHANGED <<type_, openers, fifo, nItems, data, linked, pushed, taken, dropped, restored>>
        /\ UNCHANGED <<gone, disturbed, overtaken>>
    BY DEF Pipe!SaveWrite, Pipe!past, Pipe!harm
  <1>3. PipeType'
    BY <1>1, <1>2, PipeTypes DEF PipeType, Pipe!TypeOK, Pipe!Busy
  <1>4. PipeAll'
    BY <1>2 DEF PipeInv, PipeAll, Pipe!Everything, Pipe!InHand, Pipe!Moving
  <1>5. PipeCalm => PipeCalm'
    BY <1>2 DEF PipeCalm, Pipe!Moving, Pipe!Saving
  <1>6. PipeOnce => PipeOnce'
    BY <1>2 DEF PipeOnce, Pipe!Moving, Apart
  <1>7. PipeOrder => PipeOrder'
    BY <1>2 DEF PipeOrder, Pipe!Moving, Before
  <1> QED
    BY <1>2, <1>3, <1>4, <1>5, <1>6, <1>7 DEF PipeInv

(* A write of what the owner has in its memory appends a part of it, never *)
(* past the capacity, and all of it to an empty pipe.                      *)
LEMMA WrittenIs ==
  ASSUME PipeType, NEW f \in Pipe!Written(data)
  PROVE  \E e \in Seq(1..pushed) :
           /\ f = fifo \o e /\ Len(f) <= Capacity
           /\ Pipe!ToSet(e) \subseteq Pipe!ToSet(data)
           /\ Pipe!Increasing(data) => Pipe!Increasing(e)
           /\ OneEach(data) => OneEach(e)
           /\ fifo = <<>> /\ Len(data) <= Capacity => f = data
  <1> DEFINE n == Len(fifo)  m == Len(data)  k == Capacity - n
  <1>1. /\ fifo \in Seq(1..pushed) /\ data \in Seq(1..pushed) /\ n \in Nat /\ m \in Nat
        /\ n <= Capacity /\ Capacity \in Nat
    BY PipeTypes
  <1>2. CASE n + m <= Capacity
    <2>1. f = fifo \o data
      BY <1>2 DEF Pipe!Written
    <2>2. Len(f) = n + m
      BY <1>1, <2>1, ItemsOfJoined
    <2>3. fifo = <<>> => f = data
      BY <1>1, <2>1
    <2> QED
      BY <1>1, <1>2, <2>1, <2>2, <2>3
  <1>3. CASE ~(n + m <= Capacity)
    <2> DEFINE d == SubSeq(data, 1, k)
    <2>1. k \in 0..m /\ k \in 0..Len(data)
      BY <1>1, <1>3
    <2>2. /\ d \in Seq(1..pushed) /\ Len(d) = k /\ Pipe!ToSet(d) \subseteq Pipe!ToSet(data)
          /\ Pipe!Increasing(data) => Pipe!Increasing(d)
          /\ OneEach(data) => OneEach(d)
      <3> HIDE DEF k
      <3>1. data \in Seq(1..pushed) /\ k \in 0..Len(data)
        BY <1>1, <2>1
      <3>2. Halves(data, d, SubSeq(data, k + 1, Len(data)), 1..pushed) /\ Len(d) = k
        BY <3>1, ItemsOfHalves
      <3> QED
        BY <3>2 DEF Halves
    <2>3. f = fifo \/ f = fifo \o d
      BY <1>3 DEF Pipe!Written
    <2> HIDE DEF d
    <2>4. Len(fifo \o d) = n + k /\ n + k <= Capacity
      <3>1. Len(fifo \o d) = n + k
        BY <1>1, <2>2, ItemsOfJoined
      <3> QED
        BY <1>1, <3>1
    <2>5. ~(fifo = <<>> /\ m <= Capacity)
      BY <1>1, <1>3
    <2>6. CASE f = fifo
      <3>1. f = fifo \o <<>> /\ <<>> \in Seq(1..pushed)
        BY <1>1, <2>6
      <3>2. Pipe!ToSet(<<>>) \subseteq Pipe!ToSet(data) /\ Pipe!Increasing(<<>>) /\ OneEach(<<>>)
        BY ItemsOfNone
      <3> QED
        BY <1>1, <2>5, <2>6, <3>1, <3>2
    <2>7. CASE f = fifo \o d
      BY <2>2, <2>4, <2>5, <2>7
    <2> QED
      BY <2>3, <2>6, <2>7
  <1> QED
    BY <1>2, <1>3

(* The last step of save() and of restore().                               *)
LEMMA PutBackInv ==
  ASSUME PipeInv, (phase = "written" /\ Pipe!SaveRestore) \/ (phase = "clear" /\ Pipe!RestorePush)
  PROVE  PipeInv'
  <1>1. PipeType
    BY DEF PipeInv
  <1>2. /\ phase' = "idle" /\ data' = <<>>
        /\ UNCHANGED <<type_, openers, file, nItems, linked, pushed, taken, dropped, restored>>
        /\ UNCHANGED <<disturbed, overtaken>>
    BY DEF Pipe!SaveRestore, Pipe!RestorePush, Pipe!past, Pipe!harm
  <1>3. \/ phase = "written" /\ gone' = gone \cup (Pipe!ToSet(data) \ Pipe!ToSet(fifo'))
        \/ phase = "clear" /\ gone' = gone
    BY DEF Pipe!SaveRestore, Pipe!RestorePush, Pipe!harm
  <1>4. fifo' = fifo \/ fifo' \in Pipe!Written(data)
    BY DEF Pipe!SaveRestore, Pipe!RestorePush
  <1>5. type_ = "WRITE" => fifo' \in Pipe!Written(data)
    BY DEF Pipe!SaveRestore, Pipe!RestorePush
  <1>t. /\ fifo \in Seq(1..pushed) /\ data \in Seq(1..pushed) /\ Len(fifo) <= Capacity
        /\ gone \subseteq 1..pushed /\ taken \in Seq(1..pushed)
    BY <1>1, PipeTypes
  <1>6. PICK e \in Seq(1..pushed) :
          /\ fifo' = fifo \o e /\ Len(fifo') <= Capacity
          /\ Pipe!ToSet(e) \subseteq Pipe!ToSet(data)
          /\ Pipe!Increasing(data) => Pipe!Increasing(e)
          /\ OneEach(data) => OneEach(e)
    <2>1. CASE fifo' = fifo
      <3>1. fifo' = fifo \o <<>> /\ <<>> \in Seq(1..pushed)
        BY <1>t, <2>1
      <3>2. Pipe!ToSet(<<>>) \subseteq Pipe!ToSet(data) /\ Pipe!Increasing(<<>>) /\ OneEach(<<>>)
        BY ItemsOfNone
      <3> QED
        BY <1>t, <2>1, <3>1, <3>2
    <2>2. CASE fifo' \in Pipe!Written(data)
      BY <1>1, <2>2, WrittenIs
    <2> QED
      BY <1>4, <2>1, <2>2
  <1>7. /\ fifo' \in Seq(1..pushed) /\ Pipe!ToSet(fifo') = Pipe!ToSet(fifo) \cup Pipe!ToSet(e)
        /\ Pipe!Increasing(fifo) /\ Pipe!Increasing(e) /\ Before(fifo, e) => Pipe!Increasing(fifo')
        /\ OneEach(fifo) /\ OneEach(e) /\ Apart(fifo, e) => OneEach(fifo')
    BY <1>t, <1>6, ItemsOfJoined
  <1>8. gone' \subseteq 1..pushed
    BY <1>3, <1>t, ItemsAmong
  <1>9. PipeType'
    BY <1>1, <1>2, <1>6, <1>7, <1>8, PipeTypes DEF PipeType, Pipe!TypeOK, Pipe!Busy
  <1>10. PipeAll'
    <2>1. Pipe!InHand \subseteq Pipe!ToSet(fifo') \cup gone' /\ gone \subseteq gone'
      BY <1>3 DEF Pipe!InHand, Pipe!Moving
    <2>2. Pipe!Everything \cup gone \subseteq Pipe!Everything' \cup gone'
      BY <1>2, <1>7, <2>1 DEF Pipe!Everything
    <2> QED
      BY <1>2, <2>2 DEF PipeInv, PipeAll
  <1>11. ASSUME ~disturbed' PROVE PipeCalm'
    <2>1. PipeCalm
      BY <1>2, <1>11 DEF PipeInv
    <2>2. gone' = {}
      <3>1. CASE phase = "written"
        <4>1. type_ = "WRITE" /\ fifo = <<>> /\ Len(data) <= Capacity
          BY <2>1, <3>1 DEF PipeCalm, Pipe!Moving, Pipe!Saving
        <4>2. fifo' \in Pipe!Written(data)
          BY <1>5, <4>1
        <4>3. fifo' = data
          BY <1>1, <4>1, <4>2, WrittenIs
        <4> QED
          BY <1>3, <2>1, <4>3 DEF PipeCalm
      <3>2. CASE phase = "clear"
        BY <1>3, <2>1, <3>2 DEF PipeCalm
      <3> QED
        BY <1>3, <3>1, <3>2
    <2> QED
      BY <1>2, <2>2 DEF PipeCalm, Pipe!Moving, Pipe!Saving
  <1>12. PipeOnce => PipeOnce'
    <2> SUFFICES ASSUME PipeOnce PROVE PipeOnce'
      OBVIOUS
    <2>1. Apart(fifo, e) /\ OneEach(e) /\ OneEach(fifo) /\ OneEach(taken)
      BY <1>6 DEF PipeOnce, Apart
    <2>2. OneEach(fifo') /\ Apart(taken, fifo')
      BY <1>6, <1>7, <2>1 DEF PipeOnce, Apart
    <2> QED
      BY <1>2, <2>1, <2>2, ItemsOfNone DEF PipeOnce, Apart, Pipe!Moving
  <1>13. ASSUME ~overtaken', restored' = 0 PROVE PipeOrder'
    <2>1. PipeOrder /\ PipeOnce
      BY <1>2, <1>13 DEF PipeInv
    <2>2. fifo = <<>> \/ data = <<>>
      BY <2>1 DEF PipeOrder, PipeOnce
    <2>3. Before(fifo, e)
      BY <1>6, <2>2, ItemsOfNone DEF Before
    <2>4. Pipe!Increasing(fifo') /\ Before(taken, fifo')
      BY <1>6, <1>7, <2>1, <2>3 DEF PipeOrder, Before
    <2> QED
      BY <1>2, <2>1, <2>4, ItemsOfNone DEF PipeOrder, Pipe!Moving, Before
  <1> QED
    BY <1>2, <1>9, <1>10, <1>11, <1>12, <1>13 DEF PipeInv

(* restore() and clear() begin, and clear the pipe one item at a time.     *)
LEMMA ClearBeginInv ==
  ASSUME PipeInv, Pipe!RestoreBegin \/ Pipe!ClearBegin
  PROVE  PipeInv'
  <1>1. PipeType
    BY DEF PipeInv
  <1>2. /\ "owner" \in openers /\ phase = "idle" /\ phase' = "clear" /\ nItems' = Len(fifo)
        /\ UNCHANGED <<type_, openers, fifo, file, linked, pushed, taken, dropped>>
        /\ UNCHANGED <<gone, disturbed, overtaken>>
    BY DEF Pipe!RestoreBegin, Pipe!ClearBegin, Pipe!past, Pipe!Busy, Pipe!harm
  <1>3. \/ data' = file /\ restored < MaxRestores /\ restored' = restored + 1
        \/ data' = <<>> /\ restored' = restored
    BY DEF Pipe!RestoreBegin, Pipe!ClearBegin, Pipe!past
  <1>4. /\ nItems' \in 0..Capacity /\ data' \in Seq(1..pushed)
        /\ restored' \in 0..MaxRestores
    <2>1. /\ fifo \in Seq(1..pushed) /\ Len(fifo) \in Nat /\ Len(fifo) <= Capacity /\ file \in Seq(1..pushed)
          /\ Capacity \in Nat /\ restored \in 0..MaxRestores /\ MaxRestores \in Nat
      BY <1>1, PipeTypes
    <2>2. nItems' \in 0..Capacity
      BY <1>2, <2>1
    <2>3. data' \in Seq(1..pushed)
      <3>1. CASE data' = file
        BY <2>1, <3>1
      <3>2. CASE data' = <<>>
        BY <3>2
      <3> QED
        BY <1>3, <3>1, <3>2
    <2>4. restored' \in 0..MaxRestores
      BY <1>3, <2>1
    <2> QED
      BY <2>2, <2>3, <2>4
  <1>5. PipeType'
    BY <1>1, <1>2, <1>4, PipeTypes DEF PipeType, Pipe!TypeOK, Pipe!Busy
  <1>6. PipeAll'
    BY <1>2 DEF PipeInv, PipeAll, Pipe!Everything, Pipe!InHand, Pipe!Moving
  <1>7. PipeCalm => PipeCalm'
    BY <1>2 DEF PipeCalm, Pipe!Moving, Pipe!Saving
  <1>8. ASSUME restored' = 0 PROVE restored = 0 /\ data' = <<>>
    BY <1>1, <1>3, <1>8, PipeTypes
  <1>9. ASSUME restored' = 0, PipeOnce PROVE PipeOnce'
    BY <1>2, <1>8, <1>9, ItemsOfNone DEF PipeOnce, Pipe!Moving, Apart
  <1>10. ASSUME restored' = 0, PipeOrder PROVE PipeOrder'
    BY <1>2, <1>8, <1>10, ItemsOfNone DEF PipeOrder, Pipe!Moving, Before
  <1> QED
    BY <1>2, <1>5, <1>6, <1>7, <1>8, <1>9, <1>10 DEF PipeInv

LEMMA ClearOneInv ==
  ASSUME PipeInv, Pipe!ClearOne
  PROVE  PipeInv'
  <1> DEFINE x == Head(fifo)
  <1>1. PipeType
    BY DEF PipeInv
  <1>2. /\ phase = "clear" /\ nItems > 0
        /\ UNCHANGED <<type_, openers, file, linked, pushed, taken, restored, gone, disturbed, overtaken>>
    BY DEF Pipe!ClearOne, Pipe!harm
  <1>3. CASE fifo = <<>>
    <2>1. phase' = "idle" /\ data' = <<>> /\ UNCHANGED <<fifo, dropped, nItems>>
      BY <1>3 DEF Pipe!ClearOne
    <2>2. PipeType'
      BY <1>1, <1>2, <2>1, PipeTypes DEF PipeType, Pipe!TypeOK, Pipe!Busy
    <2>3. PipeAll'
      BY <1>2, <2>1 DEF PipeInv, PipeAll, Pipe!Everything, Pipe!InHand, Pipe!Moving
    <2>4. PipeCalm => PipeCalm'
      BY <1>2, <2>1 DEF PipeCalm, Pipe!Moving, Pipe!Saving
    <2>5. (PipeOnce => PipeOnce') /\ (PipeOrder => PipeOrder')
      BY <1>2, <2>1, ItemsOfNone DEF PipeOnce, PipeOrder, Pipe!Moving, Before, Apart
    <2> QED
      BY <1>2, <2>2, <2>3, <2>4, <2>5 DEF PipeInv
  <1>4. CASE fifo # <<>>
    <2>1. /\ fifo' = Tail(fifo) /\ dropped' = dropped \cup Pipe!ToSet(<<x>>)
          /\ nItems' = nItems - 1 /\ UNCHANGED <<phase, data>>
      BY <1>4 DEF Pipe!ClearOne, Pipe!Dropping
    <2>2. Pipe!ToSet(<<x>>) = {x}
      BY DEF Pipe!ToSet
    <2>3. /\ fifo \in Seq(1..pushed) /\ Len(fifo) <= Capacity /\ Capacity \in Nat
          /\ nItems \in 0..Capacity /\ dropped \subseteq 1..pushed
      BY <1>1, PipeTypes
    <2>4. /\ x \in 1..pushed /\ fifo' \in Seq(1..pushed) /\ Len(fifo') = Len(fifo) - 1 /\ Len(fifo) \in Nat
          /\ Pipe!ToSet(fifo) = {x} \cup Pipe!ToSet(fifo')
          /\ Pipe!Increasing(fifo) => Pipe!Increasing(fifo')
          /\ OneEach(fifo) => OneEach(fifo')
      BY <1>4, <2>1, <2>3, ItemsOfTail
    <2> HIDE DEF x
    <2>5. Len(fifo') <= Capacity /\ nItems' \in 0..Capacity /\ dropped' \subseteq 1..pushed
      <3>1. Len(fifo') <= Capacity
        BY <2>3, <2>4
      <3>2. nItems' \in 0..Capacity
        BY <1>2, <2>1, <2>3
      <3>3. dropped' \subseteq 1..pushed
        BY <2>1, <2>2, <2>3, <2>4
      <3> QED
        BY <3>1, <3>2, <3>3
    <2>6. PipeType'
      BY <1>1, <1>2, <2>1, <2>4, <2>5, PipeTypes DEF PipeType, Pipe!TypeOK, Pipe!Busy
    <2>7. PipeAll'
      <3>1. Pipe!InHand' = Pipe!InHand
        BY <2>1 DEF Pipe!InHand, Pipe!Moving
      <3>2. Pipe!Everything' = Pipe!Everything
        BY <1>2, <2>1, <2>2, <2>4, <3>1 DEF Pipe!Everything
      <3> QED
        BY <1>2, <3>2 DEF PipeInv, PipeAll
    <2>8. PipeCalm => PipeCalm'
      BY <1>2, <2>1 DEF PipeCalm, Pipe!Moving, Pipe!Saving
    <2>9. PipeOnce => PipeOnce'
      BY <1>2, <2>1, <2>4 DEF PipeOnce, Pipe!Moving, Apart
    <2>10. PipeOrder => PipeOrder'
      BY <1>2, <2>1, <2>4 DEF PipeOrder, Pipe!Moving, Before
    <2> QED
      BY <1>2, <2>6, <2>7, <2>8, <2>9, <2>10 DEF PipeInv
  <1> QED
    BY <1>3, <1>4

LEMMA PipeStep == PipeInv /\ [Pipe!Next]_(Pipe!vars) => PipeInv'
  <1> SUFFICES ASSUME PipeInv, [Pipe!Next]_(Pipe!vars) PROVE PipeInv'
    OBVIOUS
  <1>1. ASSUME NEW p \in {"owner", "peer"}, Pipe!PushBack(p) \/ Pipe!PopFront(p) PROVE PipeInv'
    BY <1>1, PipePushInv, PipePopInv
  <1>2. CASE Pipe!SaveRestore \/ Pipe!RestorePush
    <2>1. (Pipe!SaveRestore => phase = "written") /\ (Pipe!RestorePush => phase = "clear")
      BY DEF Pipe!SaveRestore, Pipe!RestorePush
    <2> QED
      BY <1>2, <2>1, PutBackInv
  <1>3. CASE UNCHANGED Pipe!vars
    <2>1. PipeType'
      BY <1>3 DEF Pipe!vars, Pipe!local, Pipe!past, Pipe!harm, PipeInv, PipeType, Pipe!TypeOK, Pipe!Busy
    <2> QED
      BY <1>3, <2>1
      DEF Pipe!vars, Pipe!local, Pipe!past, Pipe!harm, PipeInv, PipeAll, PipeCalm, PipeOnce, PipeOrder,
          Pipe!Everything, Pipe!InHand, Pipe!Moving, Pipe!Saving, Before, Apart
  <1> QED
    BY <1>1, <1>2, <1>3, OpenInv, SaveBeginInv, SavePopInv, SaveWriteInv, ClearBeginInv, ClearOneInv
    DEF Pipe!Next

(* What the runs check follows.                                            *)
LEMMA PipeKeeps == PipeInv => Pipe!TypeOK /\ Pipe!NothingLost /\ Pipe!OrderKept
  <1> SUFFICES ASSUME PipeInv PROVE Pipe!TypeOK /\ Pipe!NothingLost /\ Pipe!OrderKept
    OBVIOUS
  <1>1. PipeType /\ Pipe!TypeOK
    BY DEF PipeInv, PipeType
  <1>2. Pipe!NothingLost
    BY DEF PipeInv, PipeAll, PipeCalm, PipeType, Pipe!NothingLost
  <1>3. taken \in Seq(1..pushed) /\ fifo \in Seq(1..pushed) /\ data \in Seq(1..pushed)
    BY <1>1, PipeTypes
  <1>4. ASSUME restored = 0 PROVE Pipe!IsInjective(taken \o fifo \o data)
    <2>1. PipeOnce
      BY <1>4 DEF PipeInv
    <2>2. /\ taken \o fifo \in Seq(1..pushed) /\ OneEach(taken \o fifo)
          /\ Pipe!ToSet(taken \o fifo) = Pipe!ToSet(taken) \cup Pipe!ToSet(fifo)
      BY <1>3, <2>1, ItemsOfJoined DEF PipeOnce
    <2>3. Apart(taken \o fifo, data)
      BY <2>1, <2>2 DEF Apart, PipeOnce
    <2>4. OneEach(taken \o fifo \o data) /\ taken \o fifo \o data \in Seq(1..pushed)
      BY <1>3, <2>1, <2>2, <2>3, ItemsOfJoined DEF PipeOnce
    <2>5. ASSUME NEW s \in Seq(1..pushed), OneEach(s) PROVE Pipe!IsInjective(s)
      <3>1. \A i, j \in DOMAIN s : i = j \/ i < j \/ j < i
        OBVIOUS
      <3> QED
        BY <2>5, <3>1 DEF OneEach, Pipe!IsInjective
    <2> QED
      BY <2>4, <2>5
  <1>5. ASSUME ~overtaken, restored = 0 PROVE Pipe!Increasing(taken \o fifo \o data)
    <2>1. PipeOnce /\ PipeOrder
      BY <1>5 DEF PipeInv
    <2>2. /\ taken \o fifo \in Seq(1..pushed) /\ Pipe!Increasing(taken \o fifo)
          /\ Pipe!ToSet(taken \o fifo) = Pipe!ToSet(taken) \cup Pipe!ToSet(fifo)
      BY <1>3, <2>1, ItemsOfJoined DEF PipeOrder
    <2>3. fifo = <<>> \/ data = <<>>
      BY <2>1 DEF PipeOrder, PipeOnce
    <2>4. Before(taken \o fifo, data)
      BY <2>1, <2>2, <2>3, ItemsOfNone DEF Before, PipeOrder
    <2> QED
      BY <1>3, <2>1, <2>2, <2>4, ItemsOfJoined DEF PipeOrder
  <1> QED
    BY <1>1, <1>2, <1>4, <1>5 DEF Pipe!OrderKept

-----------------------------------------------------------------------------
(* Items on the disk: two halves each, in order.                           *)
LEMMA HalvesAre ==
  ASSUME NEW S, NEW s \in Seq(S)
  PROVE  /\ Store!Halves(s) \in Seq(S \X (1..2)) /\ Len(Store!Halves(s)) = 2 * Len(s)
         /\ \A i \in 1..Len(s) : /\ Store!Halves(s)[2 * i - 1] = <<s[i], 1>>
                                 /\ Store!Halves(s)[2 * i] = <<s[i], 2>>
  <1> DEFINE n == Len(s)  h == Store!Halves(s)
  <1>1. n \in Nat /\ h = [j \in 1..(2 * n) |-> <<s[(j + 1) \div 2], 2 - (j % 2)>>]
    BY DEF Store!Halves
  <1>2. ASSUME NEW j \in 1..(2 * n) PROVE (j + 1) \div 2 \in 1..n /\ 2 - (j % 2) \in 1..2
    <2>1. (j % 2) \in 0..1
      BY <1>1
    <2>2. (j + 1) \div 2 \in 1..n
      BY <1>1
    <2> QED
      BY <2>1, <2>2
  <1>3. ASSUME NEW j \in 1..(2 * n) PROVE h[j] \in S \X (1..2)
    <2>1. h[j] = <<s[(j + 1) \div 2], 2 - (j % 2)>>
      BY <1>1
    <2>2. s[(j + 1) \div 2] \in S /\ 2 - (j % 2) \in 1..2
      BY <1>2
    <2> QED
      BY <2>1, <2>2
  <1>4. ASSUME NEW i \in 1..n
        PROVE  /\ 2 * i - 1 \in 1..(2 * n) /\ 2 * i \in 1..(2 * n)
               /\ ((2 * i - 1) + 1) \div 2 = i /\ (2 * i + 1) \div 2 = i
               /\ 2 - ((2 * i - 1) % 2) = 1 /\ 2 - ((2 * i) % 2) = 2
    BY <1>1
  <1>5. ASSUME NEW i \in 1..n PROVE h[2 * i - 1] = <<s[i], 1>> /\ h[2 * i] = <<s[i], 2>>
    BY <1>1, <1>4
  <1>6. h \in Seq(S \X (1..2)) /\ Len(h) = 2 * n
    <2>1. 2 * n \in Nat
      BY <1>1
    <2> QED
      BY <1>1, <1>3, <2>1
  <1> QED
    BY <1>5, <1>6

LEMMA HalvesOfNone == Store!Halves(<<>>) = <<>>
  <1>1. <<>> \in Seq(Nat) /\ Len(<<>>) = 0
    OBVIOUS
  <1>2. /\ Store!Halves(<<>>) \in Seq(Nat \X (1..2))
        /\ Len(Store!Halves(<<>>)) = 2 * Len(<<>>)
    BY <1>1, HalvesAre, Zenon
  <1> HIDE DEF Store!Halves
  <1> QED
    BY <1>1, <1>2

LEMMA HalfOfSum ==
  ASSUME NEW a \in Nat, NEW b \in Nat
  PROVE  (a + 2 * b) \div 2 = b + (a \div 2)
  <1> DEFINE q == a \div 2
  <1>1. q \in Nat /\ 2 * q <= a /\ a < 2 * q + 2
    OBVIOUS
  <1> HIDE DEF q
  <1>2. 2 * (b + q) <= a + 2 * b /\ a + 2 * b < 2 * (b + q) + 2 /\ b + q \in Nat
    BY <1>1
  <1>3. (a + 2 * b) \div 2 = b + q
    BY <1>2
  <1> QED
    BY <1>3 DEF q

LEMMA HalvesJoin ==
  ASSUME NEW S, NEW s \in Seq(S), NEW t \in Seq(S)
  PROVE  Store!Halves(s \o t) = Store!Halves(s) \o Store!Halves(t)
  <1> DEFINE n == Len(s)  m == Len(t)  u == s \o t  g == Store!Halves(s)  h == Store!Halves(t)
  <1>1. /\ n \in Nat /\ m \in Nat /\ u \in Seq(S) /\ Len(u) = n + m
        /\ \A i \in 1..n : u[i] = s[i]
        /\ \A i \in 1..m : u[n + i] = t[i]
    OBVIOUS
  <1>2. g \in Seq(S \X (1..2)) /\ Len(g) = 2 * n /\ h \in Seq(S \X (1..2)) /\ Len(h) = 2 * m
    BY HalvesAre
  <1>3. Store!Halves(u) \in Seq(S \X (1..2)) /\ Len(Store!Halves(u)) = 2 * (n + m)
    BY <1>1, HalvesAre
  <1>4. g = [j \in 1..(2 * n) |-> <<s[(j + 1) \div 2], 2 - (j % 2)>>]
    BY DEF Store!Halves
  <1>5. h = [j \in 1..(2 * m) |-> <<t[(j + 1) \div 2], 2 - (j % 2)>>]
    BY DEF Store!Halves
  <1>6. Store!Halves(u) = [j \in 1..(2 * (n + m)) |-> <<u[(j + 1) \div 2], 2 - (j % 2)>>]
    BY <1>1 DEF Store!Halves
  <1> HIDE DEF u, g, h
  <1>7. ASSUME NEW j \in 1..(2 * (n + m)) PROVE Store!Halves(u)[j] = (g \o h)[j]
    <2>1. CASE j <= 2 * n
      <3>1. j \in 1..(2 * n) /\ (j + 1) \div 2 \in 1..n
        BY <1>1, <2>1
      <3>2. (g \o h)[j] = g[j]
        BY <1>2, <3>1
      <3>3. u[(j + 1) \div 2] = s[(j + 1) \div 2]
        BY <1>1, <3>1
      <3> QED
        BY <1>4, <1>6, <3>1, <3>2, <3>3
    <2>2. CASE j > 2 * n
      <3> DEFINE l == j - 2 * n
      <3>1. /\ l \in 1..(2 * m) /\ (l + 1) \div 2 \in 1..m
            /\ (j + 1) \div 2 = n + ((l + 1) \div 2) /\ (j % 2) = (l % 2)
        <4>1. l \in 1..(2 * m) /\ j = l + 2 * n
          BY <1>1, <2>2
        <4>2. (l + 1) \div 2 \in 1..m
          BY <1>1, <4>1
        <4>3. (j + 1) \div 2 = n + ((l + 1) \div 2)
          <5>1. l + 1 \in Nat /\ n \in Nat /\ j + 1 = (l + 1) + 2 * n
            BY <1>1, <4>1
          <5> HIDE DEF l
          <5> QED
            BY <5>1, HalfOfSum
        <4>4. (j % 2) = (l % 2)
          BY <1>1, <4>1
        <4> QED
          BY <4>1, <4>2, <4>3, <4>4
      <3>2. (g \o h)[j] = h[l]
        <4>1. j \in 1..(Len(g) + Len(h)) /\ j > Len(g) /\ j - Len(g) = l
          BY <1>1, <1>2, <2>2
        <4> DEFINE D == S \X (1..2)
        <4>2. g \in Seq(D) /\ h \in Seq(D)
          BY <1>2
        <4> HIDE DEF l, D
        <4>3. (g \o h)[j] = IF j <= Len(g) THEN g[j] ELSE h[j - Len(g)]
          BY <4>1, <4>2, ConcatProperties
        <4>4. ~(j <= Len(g))
          BY <1>1, <1>2, <2>2
        <4> QED
          BY <4>1, <4>3, <4>4
      <3>3. u[(j + 1) \div 2] = t[(l + 1) \div 2]
        BY <1>1, <3>1
      <3> HIDE DEF l
      <3> QED
        BY <1>5, <1>6, <3>1, <3>2, <3>3
    <2>3. j <= 2 * n \/ j > 2 * n
      BY <1>1
    <2> QED
      BY <2>1, <2>2, <2>3
  <1>8. g \o h \in Seq(S \X (1..2)) /\ Len(g \o h) = 2 * (n + m)
    <2>1. g \o h \in Seq(S \X (1..2)) /\ Len(g \o h) = Len(g) + Len(h)
      <3> DEFINE D == S \X (1..2)
      <3>1. g \in Seq(D) /\ h \in Seq(D)
        BY <1>2
      <3> HIDE DEF D
      <3>2. g \o h \in Seq(D) /\ Len(g \o h) = Len(g) + Len(h)
        BY <3>1, ConcatProperties
      <3> QED
        BY <3>2 DEF D
    <2>2. 2 * n + 2 * m = 2 * (n + m)
      BY <1>1
    <2> QED
      BY <1>2, <2>1, <2>2
  <1>9. Store!Halves(u) = g \o h
    BY <1>3, <1>7, <1>8
  <1> QED
    BY <1>9 DEF u, g, h

(* As long as no write was cut short, the disk has the items kept, the     *)
(* copy has items, and so has the caller's array.                          *)
CopyWhole  == copy = <<>> \/ \E s \in Seq(Nat) : copy = <<Store!Halves(s)>>
OutWhole   == \A i \in 1..MaxCount : out[i] # <<>> => out[i][1][1] = out[i][2][1]
StoreWhole == disk = Store!Halves(kept) /\ CopyWhole /\ OutWhole

(* Up to the first cut the disk has what was kept, and all of it while     *)
(* nothing was cut since the last clear().                                 *)
StoreSound == Store!Intact(sound) /\ (sound = Len(kept) => disk = Store!Halves(kept))

StoreInv == Store!TypeOK /\ StoreSound /\ (~short => sound = Len(kept) /\ StoreWhole)

LEMMA StoreTypes ==
  ASSUME Store!TypeOK
  PROVE  /\ disk \in Seq((1..stored) \X (1..2)) /\ Store!ToSet(copy) \subseteq Seq((1..stored) \X (1..2))
         /\ kept \in Seq(1..stored) /\ kept \in Seq(Nat) /\ stored \in 0..MaxStored
         /\ exists \in BOOLEAN /\ short \in BOOLEAN /\ MaxStored \in Nat /\ MaxCount \in Nat
         /\ sound \in 0..Len(kept) /\ Len(kept) \in Nat
  <1>1. MaxStored \in Nat /\ MaxCount \in Nat
    BY ContainersAssumption DEF Store!FilestoreAssumption
  <1>2. kept \in Seq(1..stored) /\ kept \in Seq(Nat)
    BY DEF Store!TypeOK
  <1> QED
    BY <1>1, <1>2 DEF Store!TypeOK

LEMMA StoreInitInv == Store!Init => StoreInv
  <1> SUFFICES ASSUME Store!Init PROVE StoreInv
    OBVIOUS
  <1>1. Store!TypeOK
    <2>1. /\ exists = FALSE /\ short = FALSE /\ disk = <<>> /\ copy = <<>> /\ stored = 0 /\ kept = <<>>
          /\ sound = 0 /\ MaxStored \in Nat
      BY ContainersAssumption DEF Store!Init, Store!FilestoreAssumption
    <2>2. Store!ToSet(copy) = {}
      BY <2>1 DEF Store!ToSet
    <2> DEFINE D == (1..stored) \X (1..2)
    <2>3. {disk} \cup Store!ToSet(copy) \subseteq Seq(D)
      <3>1. <<>> \in Seq(D)
        OBVIOUS
      <3> HIDE DEF D
      <3> QED
        BY <2>1, <2>2, <3>1
    <2>4. kept \in Seq(1..stored)
      <3>1. <<>> \in Seq(1..stored)
        OBVIOUS
      <3> QED
        BY <2>1, <3>1
    <2>5. stored \in 0..MaxStored
      BY <2>1
    <2>6. exists \in BOOLEAN /\ short \in BOOLEAN /\ sound \in 0..Len(kept)
      <3>1. Len(kept) = 0
        BY <2>1
      <3>2. sound \in 0..Len(kept)
        BY <2>1, <3>1
      <3> QED
        BY <2>1, <3>2
    <2> QED
      BY <2>3, <2>4, <2>5, <2>6 DEF Store!TypeOK
  <1>2. disk = Store!Halves(kept)
    BY HalvesOfNone DEF Store!Init
  <1>3. sound = Len(kept)
    BY DEF Store!Init
  <1>4. StoreSound
    BY <1>2 DEF Store!Init, StoreSound, Store!Intact
  <1> QED
    BY <1>1, <1>2, <1>3, <1>4 DEF Store!Init, StoreInv, StoreWhole, CopyWhole, OutWhole

(* A whole write appends whole items.                                      *)
LEMMA StorePushInv ==
  ASSUME StoreInv, NEW n \in 1..2, Store!PushBack(n)
  PROVE  StoreInv'
  <1> DEFINE items == [i \in 1..n |-> stored + i]  D == (1..(stored + n)) \X (1..2)
             h == Store!Halves(items)
  <1>1. /\ disk \in Seq((1..stored) \X (1..2)) /\ Store!ToSet(copy) \subseteq Seq((1..stored) \X (1..2))
        /\ kept \in Seq(1..stored) /\ stored \in Nat /\ short \in BOOLEAN /\ MaxStored \in Nat
        /\ sound \in 0..Len(kept) /\ Len(kept) \in Nat /\ kept \in Seq(Nat)
    BY StoreTypes DEF StoreInv
  <1>2. /\ stored' = stored + n /\ stored + n <= MaxStored /\ exists /\ UNCHANGED <<exists, copy, out>>
        /\ kept' = kept \o items
    BY DEF Store!PushBack
  <1>3. PICK m \in 0..(2 * n) : /\ disk' = disk \o SubSeq(h, 1, m) /\ short' = (short \/ m < 2 * n)
                               /\ sound' = IF sound = Len(kept) THEN sound + (m \div 2) ELSE sound
    BY DEF Store!PushBack
  <1>4. items \in Seq(1..(stored + n)) /\ Len(items) = n
    BY <1>1
  <1> HIDE DEF items
  <1>5. h \in Seq(D) /\ Len(h) = 2 * n
    BY <1>4, HalvesAre
  <1> HIDE DEF h
  <1>6. 1..stored \subseteq 1..(stored + n) /\ (1..stored) \X (1..2) \subseteq D
    BY <1>1
  <1>7. kept \in Seq(1..(stored + n)) /\ disk \in Seq(D) /\ Store!ToSet(copy) \subseteq Seq(D)
    BY <1>1, <1>6
  <1>8. SubSeq(h, 1, m) \in Seq(D) /\ (m = 2 * n => SubSeq(h, 1, m) = h)
    BY <1>5
  <1> HIDE DEF D
  <1>9. kept' \in Seq(1..(stored + n)) /\ disk' \in Seq(D) /\ short' \in BOOLEAN
    BY <1>1, <1>2, <1>3, <1>4, <1>7, <1>8
  <1> DEFINE p == Len(kept)  q == m \div 2
  <1>p. /\ p \in Nat /\ sound \in 0..p /\ q \in 0..n /\ 2 * q <= m /\ (q = n => m = 2 * n)
        /\ sound' = (IF sound = p THEN sound + q ELSE sound) /\ Len(kept') = p + n
    <2>1. p \in Nat /\ sound \in 0..p
      BY <1>1
    <2>2. q \in 0..n /\ 2 * q <= m /\ (q = n => m = 2 * n)
      OBVIOUS
    <2>3. kept' = kept \o items /\ Len(kept \o items) = p + n
      BY <1>1, <1>2, <1>4, ConcatProperties
    <2> QED
      BY <1>3, <2>1, <2>2, <2>3
  <1> HIDE DEF p, q
  <1>k. Store!Halves(kept') = Store!Halves(kept) \o h
    BY <1>2, <1>4, <1>7, HalvesJoin DEF h
  <1>a. Len(Store!Halves(kept)) = 2 * p /\ Store!Halves(kept) \in Seq(D)
    <2>1. kept \in Seq(1..(stored + n))
      BY <1>7
    <2> QED
      BY <2>1, HalvesAre DEF D, p
  <1>10. Store!TypeOK'
    <2>1. stored' \in 0..MaxStored /\ exists' \in BOOLEAN /\ sound' \in 0..Len(kept')
      BY <1>1, <1>2, <1>p
    <2>2. Store!ToSet(copy') \subseteq Seq(D)
      BY <1>2, <1>7
    <2> QED
      BY <1>2, <1>9, <2>1, <2>2 DEF Store!TypeOK, D
  <1>11. ASSUME ~short' PROVE StoreWhole'
    <2>1. ~short /\ m = 2 * n
      <3>1. ~short /\ ~(m < 2 * n)
        BY <1>3, <1>11
      <3> QED
        BY <3>1
    <2>2. StoreWhole
      BY <2>1 DEF StoreInv
    <2>3. disk' = Store!Halves(kept) \o h
      BY <1>3, <1>8, <2>1, <2>2 DEF StoreWhole
    <2> QED
      BY <1>2, <1>k, <2>2, <2>3 DEF StoreWhole, CopyWhole, OutWhole
  <1>12. ASSUME sound = p PROVE StoreSound'
    <2>1. disk = Store!Halves(kept) /\ sound' = p + q /\ Len(disk) = 2 * p
      BY <1>12, <1>p, <1>a DEF StoreInv, StoreSound, p
    <2> DEFINE w == SubSeq(h, 1, m)
    <2>2. w \in Seq(D) /\ Len(w) = m /\ \A i \in 1..m : w[i] = h[i]
      <3>1. m \in 0..Len(h)
        BY <1>5
      <3> QED
        BY <1>5, <3>1
    <2> HIDE DEF w
    <2>3. disk' = disk \o w /\ Len(disk') = 2 * p + m
      BY <1>3, <1>7, <2>1, <2>2, ConcatProperties DEF w
    <2>4. ASSUME NEW j \in 1..(2 * (p + q))
          PROVE  j <= Len(disk') /\ disk'[j] = Store!Halves(kept')[j]
      <3>1. j \in 1..(2 * p) \/ (j - 2 * p \in 1..m /\ j - 2 * p \in 1..(2 * n))
        BY <1>p
      <3>2. j <= 2 * p + m /\ j \in 1..(2 * p + m) /\ j \in 1..(2 * p + 2 * n)
        BY <1>p
      <3>3. disk'[j] = IF j <= 2 * p THEN disk[j] ELSE w[j - 2 * p]
        BY <1>7, <2>1, <2>2, <2>3, <3>2, ConcatProperties
      <3>4. Store!Halves(kept')[j] = IF j <= 2 * p THEN Store!Halves(kept)[j] ELSE h[j - 2 * p]
        BY <1>5, <1>k, <1>a, <3>2, ConcatProperties
      <3>5. CASE j \in 1..(2 * p)
        BY <1>p, <2>1, <2>3, <3>2, <3>3, <3>4, <3>5
      <3>6. CASE j - 2 * p \in 1..m
        <4>1. ~(j <= 2 * p)
          BY <1>p, <3>6
        <4> QED
          BY <2>2, <2>3, <3>2, <3>3, <3>4, <3>6, <4>1
      <3> QED
        BY <3>1, <3>5, <3>6
    <2>5. sound' = Len(kept') => disk' = Store!Halves(kept')
      <3>1. sound' = Len(kept') => m = 2 * n
        BY <1>p, <2>1
      <3> QED
        BY <1>3, <1>8, <1>k, <2>1, <3>1
    <2> QED
      BY <2>1, <2>4, <2>5 DEF StoreSound, Store!Intact
  <1>13. ASSUME sound # p PROVE StoreSound'
    <2>1. sound' = sound /\ sound < p /\ sound \in Nat
      BY <1>p, <1>13
    <2>2. ASSUME NEW j \in 1..(2 * sound)
          PROVE  j <= Len(disk') /\ disk'[j] = Store!Halves(kept')[j]
      <3>1. j <= Len(disk) /\ disk[j] = Store!Halves(kept)[j]
        BY <2>2 DEF StoreInv, StoreSound, Store!Intact
      <3>2. j \in 1..(2 * p) /\ j \in Nat \ {0}
        BY <1>p, <2>1
      <3> DEFINE w == SubSeq(h, 1, m)
      <3>3. w \in Seq(D) /\ disk' = disk \o w
        BY <1>3, <1>8
      <3> HIDE DEF w
      <3>4. j \in 1..Len(disk) /\ Len(disk) \in Nat /\ Len(w) \in Nat
        BY <1>7, <3>1, <3>2, <3>3
      <3>5. Len(disk') = Len(disk) + Len(w) /\ disk'[j] = disk[j]
        BY <1>7, <3>3, <3>4, ConcatProperties
      <3>6. Store!Halves(kept')[j] = Store!Halves(kept)[j]
        BY <1>5, <1>k, <1>a, <3>2, ConcatProperties
      <3> QED
        BY <3>1, <3>4, <3>5, <3>6
    <2>3. sound' # Len(kept')
      BY <1>p, <2>1
    <2> QED
      BY <2>1, <2>2, <2>3 DEF StoreSound, Store!Intact
  <1>14. ~short' => sound' = Len(kept')
    <2>1. ASSUME ~short' PROVE sound = p /\ m = 2 * n
      <3>1. ~short /\ ~(m < 2 * n)
        BY <1>3, <2>1
      <3> QED
        BY <3>1 DEF StoreInv, p
    <2>2. m = 2 * n => q = n
      BY DEF q
    <2> QED
      BY <1>p, <2>1, <2>2
  <1> QED
    BY <1>10, <1>11, <1>12, <1>13, <1>14 DEF StoreInv

(* Reading whole items out of whole items.                                 *)
LEMMA LoadWhole ==
  ASSUME NEW s \in Seq(Nat), NEW from, from = Store!Halves(s), Store!Load(from), OutWhole
  PROVE  OutWhole'
  <1>1. Len(from) = 2 * Len(s) /\ Len(s) \in Nat /\ (Len(from) \div 2) = Len(s)
    <2>1. Len(from) = 2 * Len(s) /\ Len(s) \in Nat
      <3>1. Len(Store!Halves(s)) = 2 * Len(s)
        BY HalvesAre, Zenon
      <3>2. Len(s) \in Nat
        OBVIOUS
      <3> QED
        BY <3>1, <3>2, Zenon
    <2>2. (2 * Len(s)) \div 2 = Len(s)
      BY <2>1
    <2> QED
      BY <2>1, <2>2
  <1>2. out' = [i \in 1..MaxCount |->
                  IF i <= Store!Size /\ i <= Len(from) \div 2 THEN Store!Read(from, i) ELSE out[i]]
    BY DEF Store!Load
  <1> SUFFICES ASSUME NEW i \in 1..MaxCount, out'[i] # <<>> PROVE out'[i][1][1] = out'[i][2][1]
    BY DEF OutWhole
  <1>3. CASE i <= Store!Size /\ i <= Len(from) \div 2
    <2>1. i \in 1..Len(s)
      BY <1>1, <1>3
    <2>2. out'[i] = <<from[2 * i - 1], from[2 * i]>>
      BY <1>2, <1>3 DEF Store!Read
    <2>3. from[2 * i - 1] = <<s[i], 1>> /\ from[2 * i] = <<s[i], 2>>
      BY <2>1, HalvesAre
    <2> QED
      BY <2>2, <2>3
  <1>4. CASE ~(i <= Store!Size /\ i <= Len(from) \div 2)
    <2>1. out'[i] = out[i]
      BY <1>2, <1>4
    <2> QED
      BY <2>1 DEF OutWhole
  <1> QED
    BY <1>3, <1>4

LEMMA StoreStep == StoreInv /\ [Store!Next]_(Store!vars) => StoreInv'
  <1> SUFFICES ASSUME StoreInv, [Store!Next]_(Store!vars) PROVE StoreInv'
    OBVIOUS
  <1>1. Store!TypeOK
    BY DEF StoreInv
  <1>2. CASE Store!Filestore \/ Store!Destroy
    <2>1. exists' \in BOOLEAN /\ UNCHANGED <<disk, copy, out, stored, kept, sound, short>>
      BY <1>2 DEF Store!Filestore, Store!Destroy
    <2> QED
      BY <2>1 DEF StoreInv, Store!TypeOK, StoreWhole, StoreSound, Store!Intact, CopyWhole, OutWhole
  <1>3. CASE Store!Clear
    <2>1. disk' = <<>> /\ kept' = <<>> /\ sound' = 0 /\ UNCHANGED <<exists, copy, out, stored, short>>
      BY <1>3 DEF Store!Clear
    <2>2. Store!TypeOK'
      <3>1. disk' \in Seq((1..stored') \X (1..2)) /\ kept' \in Seq(1..stored') /\ sound' \in 0..Len(kept')
        BY <2>1
      <3>2. Store!ToSet(copy') \subseteq Seq((1..stored') \X (1..2))
        BY <1>1, <2>1, StoreTypes
      <3> QED
        BY <1>1, <2>1, <3>1, <3>2, StoreTypes DEF Store!TypeOK
    <2>3. disk' = Store!Halves(kept')
      BY <2>1, HalvesOfNone
    <2>4. StoreSound' /\ sound' = Len(kept')
      BY <2>1, <2>3 DEF StoreSound, Store!Intact
    <2> QED
      BY <2>1, <2>2, <2>3, <2>4 DEF StoreInv, StoreWhole, CopyWhole, OutWhole
  <1>4. CASE Store!Save
    <2>1. copy' = <<disk>> /\ UNCHANGED <<exists, disk, out, stored, kept, sound, short>>
      BY <1>4 DEF Store!Save
    <2>2. Store!TypeOK'
      <3>1. Store!ToSet(copy') = {disk}
        BY <2>1 DEF Store!ToSet
      <3> QED
        BY <1>1, <2>1, <3>1 DEF Store!TypeOK
    <2>3. ASSUME ~short PROVE StoreWhole'
      <3>1. StoreWhole /\ kept \in Seq(Nat)
        BY <1>1, <2>3, StoreTypes DEF StoreInv
      <3>2. CopyWhole'
        BY <2>1, <3>1 DEF StoreWhole, CopyWhole
      <3> QED
        BY <2>1, <3>1, <3>2 DEF StoreWhole, OutWhole
    <2> QED
      BY <2>1, <2>2, <2>3 DEF StoreInv, StoreSound, Store!Intact
  <1>5. ASSUME NEW from, Store!Load(from), ~short => \E s \in Seq(Nat) : from = Store!Halves(s)
        PROVE  StoreInv'
    <2>1. UNCHANGED <<exists, disk, copy, stored, kept, sound, short>>
      BY <1>5 DEF Store!Load
    <2>2. Store!TypeOK'
      BY <1>1, <2>1 DEF Store!TypeOK
    <2>3. ASSUME ~short PROVE StoreWhole'
      <3>1. StoreWhole
        BY <2>3 DEF StoreInv
      <3>2. PICK s \in Seq(Nat) : from = Store!Halves(s)
        BY <1>5, <2>3
      <3>3. OutWhole'
        BY <1>5, <3>1, <3>2, LoadWhole DEF StoreWhole
      <3> QED
        BY <2>1, <3>1, <3>3 DEF StoreWhole, CopyWhole
    <2> QED
      BY <2>1, <2>2, <2>3 DEF StoreInv, StoreSound, Store!Intact
  <1>6. CASE Store!Load(disk)
    <2>1. kept \in Seq(Nat)
      BY <1>1, StoreTypes
    <2>2. ~short => \E s \in Seq(Nat) : disk = Store!Halves(s)
      BY <2>1 DEF StoreInv, StoreWhole
    <2> QED
      BY <1>5, <1>6, <2>2
  <1>7. CASE copy # <<>> /\ Store!Load(copy[1])
    <2>1. ~short => \E s \in Seq(Nat) : copy[1] = Store!Halves(s)
      BY <1>7 DEF StoreInv, StoreWhole, CopyWhole
    <2> QED
      BY <1>5, <1>7, <2>1
  <1>8. CASE UNCHANGED Store!vars
    BY <1>8 DEF Store!vars, StoreInv, Store!TypeOK, StoreWhole, StoreSound, Store!Intact, CopyWhole, OutWhole
  <1> QED
    BY <1>2, <1>3, <1>4, <1>6, <1>7, <1>8, StorePushInv DEF Store!Next

-----------------------------------------------------------------------------
(* The four together: each class keeps its invariant whichever of them the *)
(* caller uses.                                                            *)
AllInv == RingInv /\ QueueInv /\ PipeInv /\ StoreInv

LEMMA AllInductive == ContainersSpec => []AllInv
  <1>1. ContainersInit => AllInv
    <2> SUFFICES ASSUME ContainersInit PROVE AllInv
      OBVIOUS
    <2>1. Init /\ Queue!Init /\ Pipe!Init /\ Store!Init /\ Queue!KeyQueueAssumption
      BY ContainersAssumption DEF ContainersInit
    <2>2. RingInv
      BY <2>1, CapacityAssumption DEF Init, RingInv, TypeOK, OccupancyAgrees, Slot
    <2>3. QueueInv
      BY <2>1, QueueInitInv
    <2> QED
      BY <2>1, <2>2, <2>3, PipeInitInv, StoreInitInv DEF AllInv
  <1>2. AllInv /\ [ContainersNext]_containersVars => AllInv'
    <2> SUFFICES ASSUME AllInv, [ContainersNext]_containersVars PROVE AllInv'
      OBVIOUS
    <2>1. /\ [Next]_vars
          /\ [Queue!Next]_(Queue!vars)
          /\ [Pipe!Next]_(Pipe!vars)
          /\ [Store!Next]_(Store!vars)
      <3>1. Next \/ UNCHANGED circularVars
        BY DEF ContainersNext, containersVars
      <3>2. Queue!Next \/ UNCHANGED queueVars
        BY DEF ContainersNext, containersVars
      <3>3. Pipe!Next \/ UNCHANGED pipeVars
        BY DEF ContainersNext, containersVars
      <3>4. Store!Next \/ UNCHANGED storeVars
        BY DEF ContainersNext, containersVars
      <3>5. UNCHANGED circularVars => UNCHANGED vars
        BY DEF circularVars, vars
      <3>6. UNCHANGED queueVars => UNCHANGED Queue!vars
        BY DEF queueVars, Queue!vars
      <3>7. UNCHANGED pipeVars => UNCHANGED Pipe!vars
        BY DEF pipeVars, Pipe!vars, Pipe!local, Pipe!past, Pipe!harm
      <3>8. UNCHANGED storeVars => UNCHANGED Store!vars
        BY DEF storeVars, Store!vars
      <3> QED
        BY <3>1, <3>2, <3>3, <3>4, <3>5, <3>6, <3>7, <3>8
    <2>2. RingInv'
      BY <2>1, RingStep DEF AllInv
    <2>3. QueueInv'
      BY <2>1, QueueStep, ContainersAssumption DEF AllInv
    <2>4. PipeInv' /\ StoreInv'
      BY <2>1, PipeStep, StoreStep DEF AllInv
    <2> QED
      BY <2>2, <2>3, <2>4 DEF AllInv
  <1> QED
    BY <1>1, <1>2, PTL DEF ContainersSpec

(* key_queue: the map leads from a key to an entry that is still queued    *)
(* and has that key, after any pushes, pops and removes; and while no key  *)
(* was queued twice, every entry is found by its key.                      *)
THEOREM IndexesAlwaysAgree == ContainersSpec => []IndexesAgree
  <1>1. AllInv => IndexesAgree
    BY DEF AllInv, QueueInv, IndexesAgree
  <1> QED
    BY <1>1, AllInductive, PTL

(* persistent: wherever the owner ends and whatever a peer does meanwhile, *)
(* an item is only ever lost from the array of a save(), and from none     *)
(* that was undisturbed; until the first restore() no item is handed out   *)
(* twice, and items leave in the order they were pushed unless the peer    *)
(* pushed in the middle of a save(); for every capacity and any calls.     *)
THEOREM ItemsAreKept == ContainersSpec => []ItemsKept
  <1>1. AllInv => ItemsKept
    <2> SUFFICES ASSUME AllInv PROVE ItemsKept
      OBVIOUS
    <2>1. TypeOK /\ Queue!TypeOK /\ Store!TypeOK
      BY DEF AllInv, RingInv, QueueInv, StoreInv
    <2>2. Pipe!TypeOK /\ Pipe!NothingLost /\ Pipe!OrderKept
      BY PipeKeeps DEF AllInv
    <2> QED
      BY <2>1, <2>2 DEF ItemsKept, ContainersTypeOK
  <1> QED
    BY <1>1, AllInductive, PTL

(* filestore: the disk has the items appended since the last clear(), in   *)
(* order and whole, all of them up to the first write that was cut short,  *)
(* whatever objects came and went; and as long as none was, load() returns *)
(* whole items, of the file and of its copies.                             *)
THEOREM ItemsAlwaysSurvive == ContainersSpec => []ItemsSurvive
  <1>1. AllInv => ItemsSurvive
    BY DEF AllInv, StoreInv, StoreSound, StoreWhole, OutWhole, ItemsSurvive, Store!ItemsSurvive
  <1> QED
    BY <1>1, AllInductive, PTL

(* Among the others the ring buffer behaves as it does alone, so what was  *)
(* shown of it holds there.                                                *)
THEOREM RingAmongOthers == ContainersSpec => Spec
  <1>1. ContainersInit => Init
    BY DEF ContainersInit
  <1>2. [ContainersNext]_containersVars => [Next]_vars
    BY DEF ContainersNext, containersVars, circularVars, vars
  <1> QED
    BY <1>1, <1>2, PTL DEF ContainersSpec, Spec
=============================================================================
