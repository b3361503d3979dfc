--------------------------- MODULE HttpRequestProofs ---------------------------
(***************************************************************************)
(* read_body() keeps its memory inside the limit, and its writes inside    *)
(* the memory as long as no chunked body comes to the largest int; it      *)
(* accepts a body with the bytes announced, or with the int that atoi()    *)
(* makes of a Content-Length, for every width of an int, every limit and   *)
(* whatever is announced.  The process of a connection uses it as module   *)
(* ReadBody has it, so what is shown of the function holds in the server,  *)
(* and a request has one answer.                                           *)
(***************************************************************************)
EXTENDS HttpRequest, WellFoundedInduction, TLAPS

(* An int has the width of an int, and is what it was if it had it before. *)
LEMMA Int32Is ==
  /\ \A x \in Int : Int32(x) \in Ints
  /\ \A x \in Ints : Int32(x) = x
  /\ \A x \in IntMax + 1..2 * IntMax + 1 : Int32(x) = x - 2 * (IntMax + 1)
  <1> USE ReadBodyAssumption
  <1> DEFINE W == 2 * (IntMax + 1)
  <1>1. W \in Nat \ {0}
    OBVIOUS
  <1>2. ASSUME NEW x \in Int PROVE Int32(x) \in Ints
    <2>1. x + IntMax + 1 \in Int
      OBVIOUS
    <2>2. (x + IntMax + 1) % W \in 0..(W - 1)
      <3> HIDE DEF W
      <3> QED
        BY <1>1, <2>1
    <2> QED
      BY <2>2 DEF Int32, Ints
  <1>3. ASSUME NEW x \in Ints PROVE Int32(x) = x
    <2>1. x + IntMax + 1 \in 0..(W - 1)
      BY DEF Ints
    <2>2. (x + IntMax + 1) % W = x + IntMax + 1
      <3> HIDE DEF W
      <3> QED
        BY <1>1, <2>1
    <2> QED
      BY <2>2 DEF Int32, Ints
  <1>4. ASSUME NEW x \in IntMax + 1..2 * IntMax + 1 PROVE Int32(x) = x - 2 * (IntMax + 1)
    <2>1. x + IntMax + 1 \in W..(2 * W - 1)
      OBVIOUS
    <2>2. (x + IntMax + 1) % W = x + IntMax + 1 - W
      <3> HIDE DEF W
      <3> QED
        BY <1>1, <2>1
    <2> QED
      BY <2>2 DEF Int32
  <1> QED
    BY <1>2, <1>3, <1>4

LEMMA Int32Over ==
  ASSUME NEW x \in Int, x > IntMax, x <= 2 * IntMax + 1
  PROVE  Int32(x) = x - 2 * (IntMax + 1)
  BY Int32Is, ReadBodyAssumption

LEMMA AtoiIs ==
  /\ \A x \in Int : Atoi(x) \in Ints
  /\ \A x \in Ints : Atoi(x) = x
  <1> USE ReadBodyAssumption
  <1>1. LongMax \in Nat /\ IntMax <= LongMax
    <2>1. (IntMax + 1) * (IntMax + 1) \in Nat /\ IntMax + 1 <= (IntMax + 1) * (IntMax + 1)
      OBVIOUS
    <2>2. PICK q : q = (IntMax + 1) * (IntMax + 1)
      OBVIOUS
    <2>3. 2 * (IntMax + 1) * (IntMax + 1) = 2 * q
      BY <2>2
    <2> QED
      BY <2>1, <2>2, <2>3 DEF LongMax
  <1>2. ASSUME NEW x \in Int PROVE Atoi(x) \in Ints
    BY <1>1, Int32Is DEF Atoi
  <1>3. ASSUME NEW x \in Ints PROVE Atoi(x) = x
    <2>1. CASE x >= -LongMax
      BY <1>1, <2>1, Int32Is DEF Atoi, Ints
    <2>2. CASE x < -LongMax
      <3>1. x = (-LongMax) - 1
        BY <1>1, <2>2 DEF Ints
      <3>2. Atoi(x) = Int32(x)
        BY <1>1, <2>2, <3>1 DEF Atoi, Ints
      <3> QED
        BY <3>2, Int32Is
    <2> QED
      BY <1>1, <2>1, <2>2 DEF Ints
  <1> QED
    BY <1>2, <1>3

(* What was read and what is missing make up what the client announced:    *)
(* of a Content-Length the int that atoi() makes of it, of chunks the      *)
(* exact sum, unless the last one is negative as an int and not read.      *)
Counted ==
  /\ pc = "start" => /\ memory_size = 0 /\ length = 0 /\ so_far = 0
                     /\ total_read = 0 /\ announced = 0
  /\ pc = "length" => /\ length = Atoi(announced) /\ so_far = total_read
                      /\ memory_size = length + 1 /\ (length < 0 \/ so_far <= length)
  /\ pc \in {"size", "chunk"} => total_read <= memory_size /\ announced >= 0
  /\ pc = "size" => total_read = announced
  /\ pc = "chunk" /\ length >= 0 => /\ so_far <= length
                                    /\ total_read + (length - so_far) = announced
  /\ pc = "chunk" /\ length < 0 => announced > IntMax /\ so_far = 0

IndInv == TypeOK /\ BodyFits /\ BodyBounded /\ BodyIsWhole /\ Counted

LEMMA InitInv == Init => IndInv
  <1> SUFFICES ASSUME Init PROVE IndInv
    OBVIOUS
  <1> USE ReadBodyAssumption
  <1>1. TypeOK
    <2>1. 0 \in 0..IntMax /\ 0 \in Ints /\ 0 \in Int
      BY DEF Ints
    <2> QED
      BY <2>1 DEF Init, TypeOK
  <1>2. max_size \in Ints
    BY DEF Init
  <1>3. BodyBounded
    BY <1>2 DEF Init, BodyBounded, Ints
  <1>4. BodyFits /\ BodyIsWhole /\ Counted
    BY DEF Init, BodyFits, BodyIsWhole, Counted
  <1> QED
    BY <1>1, <1>3, <1>4 DEF IndInv

(* The returns that refuse the request change no count, or free the body.  *)
LEMMA RefuseInv ==
  ASSUME IndInv, NEW status \in {400, 414, 500}, Refuse(status) \/ RefuseFreed(status)
  PROVE  IndInv'
  <1>1. CASE Refuse(status)
    BY <1>1 DEF Refuse, Return, IndInv, TypeOK, BodyFits, BodyBounded, BodyIsWhole, Counted, counts
  <1>2. CASE RefuseFreed(status)
    <2>1. /\ pc' = "done" /\ result' = status /\ memory_size' = 0
          /\ UNCHANGED <<max_size, length, so_far, total_read, received_size, closed, announced>>
      BY <1>2 DEF RefuseFreed, Return
    <2>2. TypeOK'
      BY <2>1, ReadBodyAssumption DEF IndInv, TypeOK
    <2>3. BodyBounded'
      BY <2>1, ReadBodyAssumption DEF BodyBounded
    <2>4. BodyFits' /\ BodyIsWhole' /\ Counted'
      BY <2>1 DEF BodyFits, BodyIsWhole, Counted
    <2> QED
      BY <2>2, <2>3, <2>4 DEF IndInv
  <1> QED
    BY <1>1, <1>2

(* Finish accepts what was announced.                                      *)
LEMMA FinishInv ==
  ASSUME IndInv, total_read = AsAnnounced, Finish
  PROVE  IndInv'
  <1>1. /\ pc' = "done" /\ result' = 200 /\ received_size' = total_read
        /\ UNCHANGED <<max_size, memory_size, length, so_far, total_read, closed, announced>>
    BY DEF Finish, Return, counts
  <1>2. AsAnnounced' = AsAnnounced
    BY <1>1 DEF AsAnnounced
  <1>3. TypeOK'
    BY <1>1 DEF IndInv, TypeOK
  <1>4. BodyBounded'
    BY <1>1 DEF IndInv, BodyBounded
  <1>5. BodyFits' /\ BodyIsWhole' /\ Counted'
    BY <1>1, <1>2 DEF BodyFits, BodyIsWhole, Counted
  <1> QED
    BY <1>3, <1>4, <1>5 DEF IndInv

LEMMA LimitIsInt == ASSUME TypeOK PROVE max_size \in Ints
  BY ReadBodyAssumption DEF TypeOK

LEMMA ContentLengthInv ==
  ASSUME IndInv, NEW text \in Lengths, ContentLength(text)
  PROVE  IndInv'
  <1> USE ReadBodyAssumption
  <1> DEFINE n == Atoi(text)
  <1>1. text \in Int /\ n \in Ints /\ IntMax \in Nat
    BY AtoiIs
  <1> HIDE DEF n
  <1>2. CASE Refuse(400) \/ RefuseFreed(500)
    BY <1>2, RefuseInv
  <1>3. CASE /\ n <= max_size /\ Int32(n + 1) >= 0
             /\ pc' = "length" /\ memory_size' = n + 1
             /\ length' = n /\ announced' = text
             /\ UNCHANGED <<max_size, so_far, total_read, reply, closed>>
    <2>1. n + 1 \in 0..IntMax
      <3>1. CASE n + 1 \in Ints
        BY <1>1, <1>3, <3>1, Int32Is DEF Ints
      <3>2. CASE n + 1 \notin Ints
        <4>1. n = IntMax
          BY <1>1, <3>2 DEF Ints
        <4>2. n + 1 \in Int /\ n + 1 > IntMax /\ n + 1 <= 2 * IntMax + 1
          BY <1>1, <4>1
        <4>3. Int32(n + 1) = (n + 1) - 2 * (IntMax + 1)
          <5>1. PICK x : x = n + 1
            OBVIOUS
          <5>2. x \in Int /\ x > IntMax /\ x <= 2 * IntMax + 1
            BY <4>2, <5>1
          <5>3. Int32(x) = x - 2 * (IntMax + 1)
            BY <5>2, Int32Over
          <5>4. Int32(x) = Int32(n + 1)
            BY <5>1, Zenon
          <5> QED
            BY <5>1, <5>3, <5>4, Zenon
        <4> QED
          BY <1>1, <1>3, <4>1, <4>3
      <3> QED
        BY <3>1, <3>2
    <2>2. pc = "start" /\ so_far = 0 /\ total_read = 0
      BY DEF ContentLength, IndInv, Counted
    <2>3. TypeOK'
      BY <1>1, <1>3, <2>1 DEF IndInv, TypeOK, reply
    <2>4. BodyFits'
      BY <1>1, <1>3, <2>1, <2>2 DEF BodyFits, Ints
    <2>5. BodyBounded'
      <3>1. max_size \in Ints
        BY LimitIsInt DEF IndInv
      <3> QED
        BY <1>1, <1>3, <3>1 DEF BodyBounded, Ints
    <2>6. BodyIsWhole'
      BY <1>3 DEF BodyIsWhole
    <2>7. length' = Atoi(announced')
      BY <1>3 DEF n
    <2>8. Counted'
      BY <1>1, <1>3, <2>2, <2>7 DEF Counted, Ints
    <2> QED
      BY <2>3, <2>4, <2>5, <2>6, <2>8 DEF IndInv
  <1> QED
    BY <1>2, <1>3 DEF ContentLength, n

(* Memory that has no room for the next chunk and a NUL grows by that      *)
(* much, so it has room then, unless the sum wraps.                        *)
LEMMA RoomIsMade ==
  ASSUME TypeOK, NEW n \in 1..IntMax, total_read <= memory_size,
         NeedsRoom(n) => Grown(n) \in 0..max_size
  PROVE  LET m == IF NeedsRoom(n) THEN Grown(n) ELSE memory_size IN
           /\ m \in 0..IntMax /\ total_read <= m /\ (m <= max_size \/ m = memory_size)
           /\ n + total_read + 1 <= IntMax => total_read + n < m
  <1> USE ReadBodyAssumption
  <1>1. /\ memory_size \in 0..IntMax /\ total_read \in 0..IntMax /\ max_size \in Ints
        /\ n \in 1..IntMax /\ IntMax \in Nat
    BY LimitIsInt DEF TypeOK
  <1>2. CASE NeedsRoom(n)
    <2>1. Grown(n) = memory_size + n + 1
      <3>1. memory_size + n + 1 <= IntMax
        <4>1. SUFFICES ASSUME memory_size + n + 1 > IntMax PROVE FALSE
          BY <1>1
        <4>2. /\ memory_size + n + 1 \in Int
              /\ memory_size + n + 1 > IntMax /\ memory_size + n + 1 <= 2 * IntMax + 1
          BY <1>1, <4>1
        <4>3. Int32(memory_size + n + 1) = (memory_size + n + 1) - 2 * (IntMax + 1)
          <5>1. PICK x : x = memory_size + n + 1
            OBVIOUS
          <5>2. x \in Int /\ x > IntMax /\ x <= 2 * IntMax + 1
            BY <4>2, <5>1
          <5>3. Int32(x) = x - 2 * (IntMax + 1)
            BY <5>2, Int32Over
          <5>4. Int32(x) = Int32(memory_size + n + 1)
            BY <5>1, Zenon
          <5> QED
            BY <5>1, <5>3, <5>4, Zenon
        <4> QED
          BY <1>1, <1>2, <4>3 DEF Grown
      <3>2. memory_size + n + 1 \in Ints
        BY <1>1, <3>1 DEF Ints
      <3> QED
        BY <3>2, Int32Is DEF Grown
    <2> QED
      BY <1>1, <1>2, <2>1 DEF Ints
  <1>3. CASE ~NeedsRoom(n)
    <2>1. ASSUME n + total_read + 1 <= IntMax PROVE total_read + n < memory_size
      <3>1. n + total_read + 1 \in Ints
        BY <1>1, <2>1 DEF Ints
      <3>2. Int32(n + total_read + 1) = n + total_read + 1
        BY <3>1, Int32Is
      <3> QED
        BY <1>1, <1>3, <3>2 DEF NeedsRoom
    <2> QED
      BY <1>1, <1>3, <2>1
  <1> QED
    BY <1>2, <1>3

(* A size with all eight digits can be negative as an int: no room is made *)
(* for it, and it is not read.                                             *)
LEMMA NegativeNeedsNoRoom ==
  ASSUME TypeOK, NEW n \in Ints, n < 0, total_read <= memory_size
  PROVE  ~NeedsRoom(n)
  <1> USE ReadBodyAssumption
  <1>1. n + total_read + 1 \in Ints /\ n + total_read + 1 <= memory_size
    BY DEF TypeOK, Ints
  <1> QED
    BY <1>1, Int32Is DEF NeedsRoom, TypeOK, Ints

LEMMA ChunkSizeInv ==
  ASSUME IndInv, NEW digits \in Lengths, ChunkSize(digits)
  PROVE  IndInv'
  <1> USE ReadBodyAssumption
  <1> DEFINE n == Int32(digits)
             m == IF NeedsRoom(n) THEN Grown(n) ELSE memory_size
  <1>1. /\ pc = "size" /\ digits \in 0..(2 * IntMax + 1) /\ TypeOK
        /\ total_read = announced /\ total_read <= memory_size
    BY DEF ChunkSize, IndInv, Counted
  <1>2. /\ n \in Ints
        /\ n >= 0 => n = digits
        /\ n < 0 => digits > IntMax
    <2>1. CASE digits <= IntMax
      <3>1. digits \in Ints
        BY <1>1, <2>1 DEF Ints
      <3> QED
        BY <1>1, <3>1, Int32Is
    <2>2. CASE digits > IntMax
      <3>1. digits \in IntMax + 1..2 * IntMax + 1
        BY <1>1, <2>2
      <3>2. n = digits - 2 * (IntMax + 1)
        BY <3>1, Int32Is
      <3> QED
        BY <1>1, <2>2, <3>2 DEF Ints
    <2> QED
      BY <1>1, <2>1, <2>2
  <1> HIDE DEF n
  <1>3. CASE Finish
    <2>1. announced \in Ints
      BY <1>1 DEF TypeOK, Ints
    <2> QED
      BY <1>1, <1>3, <2>1, FinishInv DEF AsAnnounced
  <1>4. CASE Refuse(400) \/ RefuseFreed(500)
    BY <1>4, RefuseInv
  <1>5. CASE /\ n # 0 /\ (NeedsRoom(n) => Grown(n) \in 0..max_size)
             /\ pc' = "chunk" /\ memory_size' = m
             /\ length' = n /\ so_far' = 0 /\ announced' = announced + digits
             /\ UNCHANGED <<max_size, total_read, reply, closed>>
    <2>1. /\ memory_size \in 0..IntMax /\ total_read \in 0..IntMax /\ announced \in Nat
          /\ max_size \in Ints
      BY <1>1, LimitIsInt DEF TypeOK
    <2>2. /\ m \in 0..IntMax /\ total_read <= m /\ (m <= max_size \/ m = memory_size)
          /\ n > 0 /\ n + total_read + 1 <= IntMax => total_read + n < m
      <3>1. CASE n < 0
        <4>1. m = memory_size
          BY <1>1, <1>2, <3>1, NegativeNeedsNoRoom
        <4> QED
          BY <1>1, <1>2, <2>1, <3>1, <4>1 DEF Ints
      <3>2. CASE n > 0
        <4>1. n \in 1..IntMax
          BY <1>2, <3>2 DEF Ints
        <4> QED
          BY <1>1, <1>5, <3>2, <4>1, RoomIsMade
      <3> QED
        BY <1>2, <1>5, <3>1, <3>2 DEF Ints
    <2> HIDE DEF m
    <2>3. TypeOK'
      BY <1>1, <1>2, <1>5, <2>1, <2>2 DEF TypeOK, reply
    <2>4. BodyFits'
      <3>1. CASE n > 0
        BY <1>1, <1>2, <1>5, <2>1, <2>2, <3>1 DEF BodyFits, Ints
      <3>2. CASE n < 0
        BY <1>1, <1>2, <1>5, <2>1, <3>2 DEF BodyFits, Ints
      <3> QED
        BY <1>2, <1>5, <3>1, <3>2 DEF Ints
    <2>5. BodyBounded'
      BY <1>5, <2>1, <2>2 DEF IndInv, BodyBounded, Ints
    <2>6. BodyIsWhole' /\ Counted'
      BY <1>1, <1>2, <1>5, <2>1, <2>2 DEF BodyIsWhole, Counted, Ints
    <2> QED
      BY <2>3, <2>4, <2>5, <2>6 DEF IndInv
  <1> QED
    BY <1>3, <1>4, <1>5 DEF ChunkSize, n, m

LEMMA NextInv ==
  ASSUME IndInv, [Next]_vars
  PROVE  IndInv'
  <1> USE ReadBodyAssumption
  <1>1. ASSUME NEW text \in Lengths, ContentLength(text)
        PROVE  IndInv'
    BY <1>1, ContentLengthInv
  <1>2. ASSUME NEW digits \in Lengths, ChunkSize(digits)
        PROVE  IndInv'
    BY <1>2, ChunkSizeInv
  <1>3. ASSUME NEW n \in 1..(length - so_far), Read(n)
        PROVE  IndInv'
    <2>1. /\ so_far \in 0..IntMax /\ total_read \in 0..IntMax /\ length \in Ints
          /\ memory_size \in 0..IntMax /\ n \in Nat /\ n > 0
          /\ n <= length - so_far /\ total_read + n <= memory_size
          /\ so_far' = so_far + n /\ total_read' = total_read + n
          /\ UNCHANGED <<pc, max_size, memory_size, length, result, received_size, closed, announced>>
      BY <1>3 DEF Read, IndInv, TypeOK, Ints, reply
    <2>2. TypeOK'
      BY <2>1 DEF IndInv, TypeOK, Ints
    <2>3. BodyFits'
      BY <2>1, <1>3 DEF IndInv, BodyFits, Ints, Read
    <2>4. Counted'
      BY <2>1, <1>3 DEF IndInv, Counted, Ints, Read
    <2>5. BodyBounded' /\ BodyIsWhole'
      BY <2>1, <1>3 DEF IndInv, BodyBounded, BodyIsWhole, AsAnnounced, Read
    <2> QED
      BY <2>2, <2>3, <2>4, <2>5 DEF IndInv
  <1>4. CASE Overrun
    <2>1. /\ pc = "chunk" /\ pc' = "overrun" /\ length - so_far > memory_size - total_read
          /\ UNCHANGED <<max_size, memory_size, length, so_far, total_read, result, received_size,
                         closed, announced>>
      BY <1>4 DEF Overrun, counts, reply
    <2>2. announced >= IntMax
      BY <2>1 DEF IndInv, BodyFits, TypeOK, Ints
    <2> QED
      BY <2>1, <2>2 DEF IndInv, TypeOK, BodyFits, BodyBounded, BodyIsWhole, Counted
  <1>5. CASE Chunked
    BY <1>5 DEF Chunked, IndInv, TypeOK, BodyFits, BodyBounded, BodyIsWhole, Counted, reply
  <1>6. CASE NoMemory
    BY <1>6, RefuseInv DEF NoMemory
  <1>7. CASE ReadClosed
    BY <1>7, RefuseInv DEF ReadClosed
  <1>8. CASE ReadFails \/ CountRefused
    BY <1>8, RefuseInv DEF ReadFails, CountRefused
  <1>9. CASE LengthRead
    <2>1. total_read = Atoi(announced) /\ announced \in Int
      BY <1>9 DEF LengthRead, IndInv, TypeOK, Counted
    <2>2. total_read = AsAnnounced
      BY <2>1, AtoiIs DEF AsAnnounced
    <2> QED
      BY <1>9, <2>2, FinishInv DEF LengthRead
  <1>10. CASE SizeLineTooLong
    BY <1>10, RefuseInv DEF SizeLineTooLong
  <1>11. CASE ChunkRead
    <2>1. CASE Refuse(400)
      BY <2>1, RefuseInv
    <2>2. CASE pc' = "size" /\ UNCHANGED <<max_size, counts, reply, closed, announced>>
      <3>1. /\ pc = "chunk" /\ so_far = length /\ pc' = "size" /\ length >= 0
            /\ UNCHANGED <<max_size, memory_size, length, so_far, total_read, result, received_size,
                           closed, announced>>
        BY <1>11, <2>2 DEF ChunkRead, counts, reply, IndInv, TypeOK
      <3>2. TypeOK' /\ BodyBounded' /\ BodyIsWhole'
        BY <3>1 DEF IndInv, TypeOK, BodyBounded, BodyIsWhole
      <3>3. BodyFits' /\ Counted'
        BY <3>1 DEF IndInv, TypeOK, BodyFits, Counted, Ints
      <3> QED
        BY <3>2, <3>3 DEF IndInv
    <2> QED
      BY <1>11, <2>1, <2>2 DEF ChunkRead
  <1>12. CASE Close \/ UNCHANGED vars
    <2>1. UNCHANGED <<pc, max_size, counts, reply, announced>> /\ closed' \in BOOLEAN
      BY <1>12 DEF Close, vars, IndInv, TypeOK
    <2> QED
      BY <2>1
      DEF IndInv, TypeOK, BodyFits, BodyBounded, BodyIsWhole, AsAnnounced, Counted, counts, reply
  <1> QED
    BY <1>1, <1>2, <1>3, <1>4, <1>5, <1>6, <1>7, <1>8, <1>9, <1>10, <1>11, <1>12
    DEF Next, Start, ReadOn, Fail

LEMMA Inductive == Spec => []IndInv
  <1>1. Init => IndInv
    BY InitInv
  <1>2. IndInv /\ [Next]_vars => IndInv'
    BY NextInv
  <1> QED
    BY <1>1, <1>2, PTL DEF Spec

(* Every byte of a body, and the NUL behind it, is written inside the      *)
(* memory that read_body() allocated: for every Content-Length, and for    *)
(* chunks as long as the client announces less than the largest int.       *)
THEOREM BodyAlwaysFits == Spec => []BodyFits
  <1>1. IndInv => BodyFits
    BY DEF IndInv
  <1> QED
    BY <1>1, Inductive, PTL

(* No request, whatever it announces and whichever sum of it wraps, makes  *)
(* the server keep more than the configured size and one byte, or the      *)
(* memory that a chunked body starts with.                                 *)
THEOREM BodyAlwaysBounded == Spec => []BodyBounded
  <1>1. IndInv => BodyBounded
    BY DEF IndInv
  <1> QED
    BY <1>1, Inductive, PTL

(* A body that is accepted has every byte of every length announced, or of *)
(* a Content-Length that is no int, as many as the int it is taken for.    *)
THEOREM BodyAlwaysWhole == Spec => [](TypeOK /\ BodyIsWhole)
  <1>1. IndInv => TypeOK /\ BodyIsWhole
    BY DEF IndInv
  <1> QED
    BY <1>1, Inductive, PTL

-----------------------------------------------------------------------------
(* Of the function's variables the process changes nothing by itself.      *)
LEMMA RespondsOutside == ASSUME NEW outcome, Respond(outcome) PROVE UNCHANGED vars
  BY DEF Respond

(* The length of a request is one that clients announce.                   *)
LengthInv ==
  request \in [method  : {"none", "GET", "HEAD", "POST", "other"},
               framing : {"none", "length", "chunked", "other"}, length : Lengths]

LEMMA LengthInductive == HttpSpec => []LengthInv
  <1>1. HttpInit => LengthInv
    BY ReadBodyAssumption DEF HttpInit, LengthInv
  <1>2. ASSUME LengthInv, [HttpNext]_httpVars PROVE LengthInv'
    <2>1. CASE RequestLine
      BY <1>2, <2>1 DEF RequestLine, Respond, LengthInv
    <2>2. CASE Headers
      BY <1>2, <2>2 DEF Headers, Respond, LengthInv
    <2>3. CASE \/ Serve \/ ServeHead \/ NotImplemented \/ PostPage \/ PostRefused
               \/ BodyOverrun
      BY <1>2, <2>3
      DEF Serve, ServeHead, NotImplemented, PostPage, PostRefused, BodyOverrun, Respond, LengthInv
    <2>4. CASE \/ Post \/ Body \/ BodyFails \/ Drain \/ Killed \/ ClientCloses
               \/ UNCHANGED httpVars
      BY <1>2, <2>4
      DEF Post, Body, BodyFails, Drain, Killed, ClientCloses, http, httpVars, LengthInv
    <2> QED
      BY <1>2, <2>1, <2>2, <2>3, <2>4 DEF HttpNext, Handle
  <1> QED
    BY <1>1, <1>2, PTL DEF HttpSpec

LEMMA StepRefines == ASSUME LengthInv, [HttpNext]_httpVars PROVE [Next]_vars
  <1>1. CASE Body
    BY <1>1 DEF Body, Next, Start, LengthInv
  <1>2. CASE BodyFails
    BY <1>2 DEF BodyFails, Next
  <1>3. CASE ClientCloses
    BY <1>3 DEF ClientCloses, Next
  <1>4. CASE RequestLine \/ Headers
    BY <1>4, RespondsOutside DEF RequestLine, Headers
  <1>5. CASE \/ Serve \/ ServeHead \/ NotImplemented \/ PostPage \/ PostRefused
             \/ BodyOverrun
    BY <1>5, RespondsOutside
    DEF Serve, ServeHead, NotImplemented, PostPage, PostRefused, BodyOverrun
  <1>6. CASE Post \/ Drain \/ Killed
    BY <1>6 DEF Post, Drain, Killed
  <1>7. CASE UNCHANGED httpVars
    BY <1>7 DEF httpVars
  <1> QED
    BY <1>1, <1>2, <1>3, <1>4, <1>5, <1>6, <1>7 DEF HttpNext, Handle

(* The server's process implements module ReadBody.                        *)
LEMMA ServerReadsBodies == HttpSpec => Spec
  <1>1. HttpInit => Init
    BY DEF HttpInit
  <1>2. LengthInv /\ [HttpNext]_httpVars => [Next]_vars
    BY StepRefines
  <1> QED
    BY <1>1, <1>2, LengthInductive, PTL DEF HttpSpec, Spec

LEMMA ServerBodyInv == HttpSpec => []IndInv
  BY ServerReadsBodies, Inductive, PTL

(* The three hold of every body that the server reads.                     *)
THEOREM ServerBodiesSafe == HttpSpec => [](BodyFits /\ BodyBounded /\ BodyIsWhole)
  <1>1. IndInv => BodyFits /\ BodyBounded /\ BodyIsWhole
    BY DEF IndInv
  <1> QED
    BY <1>1, ServerBodyInv, PTL

-----------------------------------------------------------------------------
Last(s) == s[Len(s)]

(* All that can be sent.                                                   *)
Outcomes == Int \cup ServeOutcomes \cup HeadOutcomes \cup AdminOutcomes

(* No final answer before the body, and the right one behind it.           *)
AnswerInv ==
  /\ phase \in {"line", "headers", "dispatch", "body", "drain", "ended"}
  /\ answers \in Seq(Outcomes)
  /\ phase \in {"line", "headers", "dispatch"} => answers = <<>>
  /\ phase = "body" => answers = <<>> \/ Last(answers) # 200
  /\ AcceptedIsWhole

LEMMA RespondSends ==
  ASSUME AnswerInv, NEW outcome \in Outcomes, Respond(outcome),
         outcome = 200 => \/ request.method # "POST"
                          \/ result = 200 /\ received_size = AsAnnounced /\ received_size > 0,
         answers = <<>> \/ Last(answers) # 200
  PROVE  AnswerInv'
  <1> USE DEF AsAnnounced
  <1>1. CASE outcome \in {Nothing, Dies}
    <2>1. answers' = answers
      BY <1>1 DEF Respond
    <2> QED
      BY <1>1, <2>1 DEF Respond, AnswerInv, AcceptedIsWhole, Last, vars, reply, counts, Nothing, Dies
  <1>2. CASE outcome \notin {Nothing, Dies}
    <2>1. answers' = Append(answers, outcome) /\ phase' = "drain"
      BY <1>2 DEF Respond
    <2>2. answers \in Seq(Outcomes)
      BY DEF AnswerInv
    <2>3. answers' \in Seq(Outcomes) /\ answers' # <<>> /\ answers'[Len(answers')] = outcome
      BY <2>1, <2>2
    <2>4. UNCHANGED <<request, result, received_size, announced>>
      BY DEF Respond, vars, reply
    <2> QED
      BY <2>1, <2>3, <2>4 DEF AnswerInv, AcceptedIsWhole
  <1> QED
    BY <1>1, <1>2

(* Each step that answers sends 200 to a POST only behind its whole body.  *)
LEMMA AnswerStep ==
  ASSUME IndInv, AnswerInv, [HttpNext]_httpVars
  PROVE  AnswerInv'
  <1> USE DEF AsAnnounced
  <1>1. CASE RequestLine
    <2>1. ASSUME NEW outcome \in {405, 414, 505, Nothing}, Respond(outcome) PROVE AnswerInv'
      BY <1>1, <2>1, RespondSends DEF RequestLine, AnswerInv, Nothing, Outcomes
    <2>2. CASE phase' = "headers" /\ UNCHANGED <<vars, answers, lost>>
      BY <1>1, <2>2 DEF RequestLine, AnswerInv, AcceptedIsWhole
    <2> QED
      BY <1>1, <2>1, <2>2 DEF RequestLine
  <1>2. CASE Headers
    <2>1. ASSUME NEW outcome \in {400, Nothing, Dies}, Respond(outcome) PROVE AnswerInv'
      <3>1. outcome \in Outcomes /\ outcome # 200
        BY <2>1 DEF Outcomes, Nothing, Dies
      <3>2. answers = <<>>
        BY <1>2 DEF Headers, AnswerInv
      <3> QED
        BY <2>1, <3>1, <3>2, RespondSends
    <2>2. CASE phase' = "dispatch" /\ UNCHANGED <<vars, answers, lost>>
      BY <1>2, <2>2 DEF Headers, AnswerInv, AcceptedIsWhole
    <2> QED
      BY <1>2, <2>1, <2>2 DEF Headers
  <1>3. CASE Serve \/ ServeHead \/ NotImplemented
    <2>1. request.method # "POST" /\ answers = <<>>
      BY <1>3 DEF Serve, ServeHead, NotImplemented, AnswerInv
    <2>2. PICK outcome \in ServeOutcomes \cup HeadOutcomes \cup {501} : Respond(outcome)
      BY <1>3 DEF Serve, ServeHead, NotImplemented
    <2>3. outcome \in Outcomes
      BY <2>2 DEF Outcomes
    <2> QED
      BY <2>1, <2>2, <2>3, RespondSends
  <1>4. CASE Post
    <2>1. answers = <<>> /\ UNCHANGED <<request, result, received_size, announced>>
      BY <1>4 DEF Post, AnswerInv, vars, reply
    <2>2. PICK expect \in {"none", "100-continue", "other"} :
            answers' = answers \o Continue(expect)
                               \o (IF PostHeaders = 200 THEN <<>> ELSE <<PostHeaders>>)
      BY <1>4 DEF Post
    <2>3. Continue(expect) \in {<<>>, <<100>>} /\ PostHeaders \in {200, 400, 411, 413}
      BY DEF Continue, PostHeaders
    <2>4. 100 \in Outcomes /\ PostHeaders \in Outcomes
      BY <2>3 DEF Outcomes
    <2>5. <<>> \in Seq(Outcomes) /\ <<100>> \in Seq(Outcomes)
      BY <2>4
    <2>6. CASE PostHeaders = 200
      <3>1. phase' = "body" /\ answers' = (<<>> \o Continue(expect)) \o <<>>
        BY <1>4, <2>1, <2>2, <2>6 DEF Post
      <3>2. answers' = <<>> \/ answers' = <<100>>
        BY <2>3, <3>1
      <3>3. answers' \in Seq(Outcomes)
        BY <2>5, <3>2
      <3>4. answers' = <<>> \/ answers'[Len(answers')] = 100
        BY <3>2
      <3> QED
        BY <3>1, <3>3, <3>4 DEF AnswerInv, AcceptedIsWhole, Last
    <2>7. CASE PostHeaders # 200
      <3>1. phase' = "drain" /\ answers' = (<<>> \o Continue(expect)) \o <<PostHeaders>>
        BY <1>4, <2>1, <2>2, <2>7 DEF Post
      <3>2. Continue(expect) \in Seq(Outcomes)
        BY <2>3, <2>5
      <3>3. answers' \in Seq(Outcomes) /\ answers'[Len(answers')] = PostHeaders
        BY <2>4, <3>1, <3>2
      <3> QED
        BY <2>7, <3>1, <3>3 DEF AnswerInv, AcceptedIsWhole
    <2> QED
      BY <2>6, <2>7
  <1>5. CASE Body \/ BodyFails
    <2>1. phase = "body" /\ UNCHANGED http
      BY <1>5 DEF Body, BodyFails
    <2> QED
      BY <2>1 DEF http, AnswerInv, AcceptedIsWhole, Last
  <1>6. CASE PostPage
    <2>1. result = 200 /\ received_size = AsAnnounced /\ received_size \in Nat
      BY <1>6 DEF PostPage, IndInv, BodyIsWhole, TypeOK
    <2>2. PICK outcome \in {404} \cup (IF received_size = 0 THEN {400} ELSE AdminOutcomes) :
            Respond(outcome)
      BY <1>6 DEF PostPage
    <2>3. outcome \in Outcomes
      BY <2>2 DEF Outcomes
    <2>4. outcome = 200 => received_size > 0
      BY <2>1, <2>2
    <2>5. answers = <<>> \/ Last(answers) # 200
      BY <1>6 DEF PostPage, AnswerInv
    <2> QED
      BY <2>1, <2>2, <2>3, <2>4, <2>5, RespondSends
  <1>7. CASE PostRefused
    <2>1. Respond(result) /\ result # 200 /\ result \in Outcomes
      BY <1>7 DEF PostRefused, IndInv, TypeOK, Outcomes
    <2>2. answers = <<>> \/ Last(answers) # 200
      BY <1>7 DEF PostRefused, AnswerInv
    <2> QED
      BY <2>1, <2>2, RespondSends
  <1>8. CASE Drain \/ Killed \/ ClientCloses \/ UNCHANGED httpVars
    <2>1. UNCHANGED <<answers, request, result, received_size, announced>>
      BY <1>8 DEF Drain, Killed, ClientCloses, Close, http, httpVars, vars, reply
    <2>2. phase' = phase \/ phase' \in {"drain", "ended"}
      BY <1>8 DEF Drain, Killed, ClientCloses, http, httpVars
    <2> QED
      BY <2>1, <2>2 DEF AnswerInv, AcceptedIsWhole, Last
  <1>9. CASE BodyOverrun
    <2>1. Respond(Dies) /\ Dies \in Outcomes /\ Dies # 200 /\ (answers = <<>> \/ Last(answers) # 200)
      BY <1>9 DEF BodyOverrun, AnswerInv, Outcomes, Dies
    <2> QED
      BY <2>1, RespondSends
  <1> QED
    BY <1>1, <1>2, <1>3, <1>4, <1>5, <1>6, <1>7, <1>8, <1>9 DEF HttpNext, Handle

(* A POST gets its page only for a body of which every byte that its       *)
(* client announced was read, and never for an empty one.                  *)
THEOREM PagesNeedWholeBodies == HttpSpec => []AcceptedIsWhole
  <1>1. HttpInit => AnswerInv
    BY DEF HttpInit, AnswerInv, AcceptedIsWhole
  <1>2. IndInv /\ AnswerInv /\ [HttpNext]_httpVars => AnswerInv'
    BY AnswerStep
  <1>3. AnswerInv => AcceptedIsWhole
    BY DEF AnswerInv
  <1> QED
    BY <1>1, <1>2, <1>3, ServerBodyInv, PTL DEF HttpSpec

-----------------------------------------------------------------------------
(* The checks of a handler: all but the last may let the request pass, so  *)
(* there is a first that does not.                                         *)
Ends   == (Statuses \ {100}) \cup {Nothing, Dies}
Checks == Ends \cup {Passed}

LEMMA FirstOfEnds ==
  ASSUME NEW checks \in Seq(Checks), NEW k \in 1..Len(checks), checks[k] \in Ends
  PROVE  FirstOf(checks) \in Ends
  <1> DEFINE Stops == {i \in 1..Len(checks) : checks[i] # Passed}
             First(i) == /\ i \in 1..Len(checks)
                         /\ checks[i] # Passed /\ \A j \in 1..(i - 1) : checks[j] = Passed
  <1>1. Stops \subseteq Nat /\ Stops # {}
    <2>1. k \in Stops
      BY DEF Ends, Statuses, Nothing, Dies, Passed
    <2> QED
      BY <2>1
  <1>2. PICK i \in Stops : \A j \in Stops : ~(<<j, i>> \in OpToRel(<, Nat))
    BY <1>1, NatLessThanWellFounded, WFMin
  <1>3. \A j \in Stops : ~(j < i)
    BY <1>1, <1>2 DEF OpToRel
  <1>4. First(i)
    BY <1>3
  <1> DEFINE f == CHOOSE j \in 1..Len(checks) :
                    checks[j] # Passed /\ \A l \in 1..(j - 1) : checks[l] = Passed
  <1>5. f \in 1..Len(checks) /\ checks[f] # Passed
    BY <1>4
  <1>6. checks[f] \in Ends
    BY <1>5 DEF Checks
  <1> QED
    BY <1>6 DEF FirstOf

LEMMA EndsAre ==
  /\ {200, 304, 400, 401, 403, 404, 405, 406, 411, 413, 414, 500, 501, 505} \subseteq Ends
  /\ Nothing \in Ends /\ Dies \in Ends
  /\ Ends \subseteq Checks /\ Passed \in Checks
  BY DEF Ends, Checks, Statuses

LEMMA UnlessChecks ==
  ASSUME NEW passed, NEW outcome \in Ends PROVE Unless(passed, outcome) \in Checks
  BY DEF Unless, Checks

LEMMA ListDirectoryEnds == ASSUME NEW t PROVE ListDirectory(t) \in Ends
  <1> DEFINE checks == <<Unless(t.directory # "absent", 404),
                         Unless(t.directory # "noHandle", Nothing), 200>>
  <1>1. checks \in Seq(Checks) /\ Len(checks) = 3 /\ checks[3] \in Ends
    BY EndsAre, UnlessChecks
  <1> HIDE DEF checks
  <1>2. FirstOf(checks) \in Ends
    BY <1>1, FirstOfEnds
  <1> QED
    BY <1>2 DEF ListDirectory, checks

LEMMA FileChecksAre ==
  ASSUME NEW t, NEW absent \in Ends
  PROVE  /\ FileChecks(t, absent) \in Seq(Checks) /\ AuthChecks(t) \in Seq(Checks)
         /\ OpenFile(t) \in Seq(Checks) /\ Modified(t) \in Seq(Checks)
  BY EndsAre, UnlessChecks DEF FileChecks, AuthChecks, OpenFile, Modified

(* Checks in front of a last outcome.                                      *)
LEMMA LastEnds ==
  ASSUME NEW checks \in Seq(Checks), NEW outcome \in Ends
  PROVE  FirstOf(checks \o <<outcome>>) \in Ends
  <1> DEFINE all == checks \o <<outcome>>
  <1>1. all \in Seq(Checks) /\ Len(all) = Len(checks) + 1 /\ all[Len(checks) + 1] = outcome
    BY EndsAre
  <1>2. Len(checks) + 1 \in 1..Len(all)
    BY <1>1
  <1> HIDE DEF all
  <1>3. FirstOf(all) \in Ends
    BY <1>1, <1>2, FirstOfEnds
  <1> QED
    BY <1>3 DEF all

LEMMA ServeFileEnds == ASSUME NEW t PROVE ServeFile(t) \in Ends
  <1> DEFINE first  == <<Unless(t.english, 406),
                         Unless(t.uri \notin {"refused", "ampersand"}, 404),
                         Unless(t.noMemory # "path", Nothing),
                         Unless(t.noMemory # "decoded", Dies),
                         Unless(t.uri # "escaped", 404)>>
             absent == IF t.uri = "slash" /\ SendDirList THEN ListDirectory(t) ELSE 404
             all    == first \o FileChecks(t, absent) \o AuthChecks(t) \o OpenFile(t) \o Modified(t)
  <1>1. first \in Seq(Checks)
    BY EndsAre, UnlessChecks
  <1>2. absent \in Ends
    BY EndsAre, ListDirectoryEnds
  <1> HIDE DEF first, absent
  <1>3. all \in Seq(Checks)
    BY <1>1, <1>2, FileChecksAre
  <1> HIDE DEF all
  <1>4. FirstOf(all \o <<200>>) \in Ends
    BY <1>3, LastEnds, EndsAre
  <1> QED
    BY <1>4 DEF ServeFile, all, first, absent

LEMMA HeadFileEnds == ASSUME NEW t PROVE HeadFile(t) \in Ends
  <1> DEFINE first == <<Unless(t.uri # "refused", 404),
                        Unless(t.noMemory # "path", Nothing),
                        Unless(t.noMemory # "decoded", 500)>>
             all   == first \o FileChecks(t, 404) \o AuthChecks(t) \o OpenFile(t)
  <1>1. first \in Seq(Checks)
    BY EndsAre, UnlessChecks
  <1> HIDE DEF first
  <1>2. all \in Seq(Checks)
    BY <1>1, FileChecksAre, EndsAre
  <1> HIDE DEF all
  <1>3. FirstOf(all \o <<200>>) \in Ends
    BY <1>2, LastEnds, EndsAre
  <1> QED
    BY <1>3 DEF HeadFile, all, first

LEMMA AdminPageEnds == ASSUME NEW p PROVE AdminPage(p) \in Ends
  <1>1. AdminDirList(p) \in Ends
    <2> DEFINE checks == <<Unless(p.path = "directory" /\ p.fails # "open", 404),
                           Unless(p.fails # "list", Nothing), 200>>
    <2>1. checks \in Seq(Checks) /\ Len(checks) = 3 /\ checks[3] \in Ends
      BY EndsAre, UnlessChecks
    <2> HIDE DEF checks
    <2>2. FirstOf(checks) \in Ends
      BY <2>1, FirstOfEnds
    <2> QED
      BY <2>2 DEF AdminDirList, checks
  <1>2. SendFile(p) \in Ends
    <2> DEFINE checks == <<Unless(p.path # "missing", 404),
                           Unless(p.path # "withheld", 403),
                           Unless(p.path # "directory", 400),
                           Unless(p.fails # "open", 500), 200>>
    <2>1. checks \in Seq(Checks) /\ Len(checks) = 5 /\ checks[5] \in Ends
      BY EndsAre, UnlessChecks
    <2> HIDE DEF checks
    <2>2. FirstOf(checks) \in Ends
      BY <2>1, FirstOfEnds
    <2> QED
      BY <2>2 DEF SendFile, checks
  <1>3. Files(p) \in Ends
    <2> DEFINE last   == IF p.cmd = "list" THEN AdminDirList(p) ELSE SendFile(p)
               checks == <<Unless(p.cmd # "absent" /\ p.path # "absent", 400),
                           Unless(p.cmd # "notAString", Dies),
                           Unless(p.cmd # "other" /\ p.path # "notAString", 400), last>>
    <2>1. last \in Ends
      BY <1>1, <1>2
    <2> HIDE DEF last
    <2>2. checks \in Seq(Checks) /\ Len(checks) = 4 /\ checks[4] \in Ends
      BY <2>1, EndsAre, UnlessChecks
    <2> HIDE DEF checks
    <2>3. FirstOf(checks) \in Ends
      BY <2>2, FirstOfEnds
    <2> QED
      BY <2>3 DEF Files, checks, last
  <1> DEFINE dashboard == IF p.fails = "nothing" THEN 200 ELSE Dies
             checks    == <<Unless(p.json, 400), Unless(p.page # "dashboard", dashboard),
                            Unless(p.page # "config", 200), Unless(p.page # "other", 404), Files(p)>>
  <1>4. dashboard \in Ends
    BY EndsAre
  <1> HIDE DEF dashboard
  <1>5. checks \in Seq(Checks) /\ Len(checks) = 5 /\ checks[5] \in Ends
    BY <1>3, <1>4, EndsAre, UnlessChecks
  <1> HIDE DEF checks
  <1>6. FirstOf(checks) \in Ends
    BY <1>5, FirstOfEnds
  <1> QED
    BY <1>6 DEF AdminPage, checks, dashboard

(* Whatever a handler finds, it comes to a status that has a text, to      *)
(* nothing, or to the end of the process.                                  *)
LEMMA HandlersEnd == ServeOutcomes \cup HeadOutcomes \cup AdminOutcomes \subseteq Ends
  BY ServeFileEnds, HeadFileEnds, AdminPageEnds DEF ServeOutcomes, HeadOutcomes, AdminOutcomes

-----------------------------------------------------------------------------
(* A 100 may have been sent; behind it comes the answer, and then, or when *)
(* there is none, the end.                                                 *)
Answered(start) ==
  \/ lost /\ answers = start
  \/ \E status \in Statuses \ {100} : answers = start \o <<status>>

OnceInv ==
  /\ phase \in {"line", "headers", "dispatch", "body", "drain", "ended"} /\ lost \in BOOLEAN
  /\ phase \in {"line", "headers", "dispatch"} => answers = <<>>
  /\ phase = "body" => answers \in {<<>>, <<100>>}
  /\ phase \in {"drain", "ended"} => Answered(<<>>) \/ Answered(<<100>>)

LEMMA RespondOnce ==
  ASSUME OnceInv, NEW outcome \in Ends, Respond(outcome), phase \notin {"drain", "ended"}
  PROVE  OnceInv'
  <1>1. answers \in {<<>>, <<100>>} /\ phase' \in {"drain", "ended"}
    BY DEF OnceInv, Respond
  <1>2. CASE outcome \in {Nothing, Dies}
    <2>1. answers' = answers /\ lost' = TRUE
      BY <1>2 DEF Respond
    <2> QED
      BY <1>1, <2>1 DEF OnceInv, Answered
  <1>3. CASE outcome \notin {Nothing, Dies}
    <2>1. answers' = Append(answers, outcome)
      BY <1>3 DEF Respond
    <2>2. outcome \in Statuses \ {100}
      BY <1>3 DEF Ends
    <2>3. lost' \in BOOLEAN
      <3>1. lost' = (outcome \in {Nothing, Dies})
        BY DEF Respond
      <3> QED
        BY <3>1
    <2>4. answers' = answers \o <<outcome>>
      BY <1>1, <2>1
    <2>5. \E status \in Statuses \ {100} : answers' = answers \o <<status>>
      BY <2>2, <2>4
    <2> QED
      BY <1>1, <2>3, <2>5 DEF OnceInv, Answered
  <1> QED
    BY <1>2, <1>3

LEMMA OnceStep ==
  ASSUME TypeOK, OnceInv, [HttpNext]_httpVars
  PROVE  OnceInv'
  <1>1. CASE RequestLine
    <2>1. CASE \E outcome \in {405, 414, 505, Nothing} : Respond(outcome)
      <3>1. phase = "line" /\ {405, 414, 505, Nothing} \subseteq Ends
        BY <1>1, EndsAre DEF RequestLine
      <3> QED
        BY <2>1, <3>1, RespondOnce
    <2>2. CASE phase' = "headers" /\ UNCHANGED <<vars, answers, lost>>
      BY <1>1, <2>2 DEF RequestLine, OnceInv
    <2> QED
      BY <1>1, <2>1, <2>2 DEF RequestLine
  <1>2. CASE Headers
    <2>1. CASE Respond(Nothing) \/ Respond(400) \/ Respond(Dies)
      <3>1. phase = "headers"
        BY <1>2 DEF Headers
      <3>2. Nothing \in Ends /\ 400 \in Ends /\ Dies \in Ends
        BY EndsAre
      <3> QED
        BY <2>1, <3>1, <3>2, RespondOnce
    <2>2. CASE phase' = "dispatch" /\ UNCHANGED <<vars, answers, lost>>
      BY <1>2, <2>2 DEF Headers, OnceInv
    <2> QED
      BY <1>2, <2>1, <2>2 DEF Headers
  <1>3. CASE Serve \/ ServeHead \/ NotImplemented
    <2>1. PICK outcome \in ServeOutcomes \cup HeadOutcomes \cup {501} : Respond(outcome)
      BY <1>3 DEF Serve, ServeHead, NotImplemented
    <2>2. outcome \in Ends /\ phase = "dispatch"
      BY <1>3, HandlersEnd, EndsAre DEF Serve, ServeHead, NotImplemented
    <2> QED
      BY <2>1, <2>2, RespondOnce
  <1>4. CASE Post
    <2>1. phase = "dispatch" /\ answers = <<>> /\ UNCHANGED lost
      BY <1>4 DEF Post, OnceInv
    <2>2. PICK expect \in {"none", "100-continue", "other"} :
            answers' = answers \o Continue(expect)
                               \o (IF PostHeaders = 200 THEN <<>> ELSE <<PostHeaders>>)
      BY <1>4 DEF Post
    <2>3. Continue(expect) \in {<<>>, <<100>>} /\ PostHeaders \in {200, 400, 411, 413}
      BY DEF Continue, PostHeaders
    <2>4. CASE PostHeaders = 200
      <3>1. phase' = "body" /\ answers' = (<<>> \o Continue(expect)) \o <<>>
        BY <1>4, <2>1, <2>2, <2>4 DEF Post
      <3>2. answers' \in {<<>>, <<100>>}
        BY <2>3, <3>1
      <3> QED
        BY <2>1, <3>1, <3>2 DEF OnceInv
    <2>5. CASE PostHeaders # 200
      <3>1. phase' = "drain" /\ answers' = (<<>> \o Continue(expect)) \o <<PostHeaders>>
        BY <1>4, <2>1, <2>2, <2>5 DEF Post
      <3>2. PostHeaders \in Statuses \ {100}
        BY <2>3, <2>5 DEF Statuses
      <3>3. <<>> \o Continue(expect) = Continue(expect)
        BY <2>3
      <3>4. answers' = <<>> \o <<PostHeaders>> \/ answers' = <<100>> \o <<PostHeaders>>
        BY <2>3, <3>1, <3>3
      <3>5. Answered(<<>>)' \/ Answered(<<100>>)'
        <4> HIDE DEF PostHeaders
        <4> QED
          BY <3>2, <3>4 DEF Answered
      <3> QED
        BY <2>1, <3>1, <3>5 DEF OnceInv
    <2> QED
      BY <2>4, <2>5
  <1>5. CASE PostPage
    <2>1. PICK outcome \in {404, 400} \cup AdminOutcomes : Respond(outcome)
      BY <1>5 DEF PostPage
    <2>2. outcome \in Ends /\ phase = "body"
      BY <1>5, HandlersEnd, EndsAre DEF PostPage
    <2> QED
      BY <2>1, <2>2, RespondOnce
  <1>6. CASE PostRefused
    <2>1. result \in {Nothing, 400, 414, 500} /\ phase = "body" /\ Respond(result)
      BY <1>6 DEF PostRefused, TypeOK, Nothing
    <2> QED
      BY <2>1, RespondOnce, EndsAre
  <1>7. CASE Killed
    <2>1. phase' = "ended" /\ lost' = TRUE /\ answers' = answers /\ answers \in {<<>>, <<100>>}
      BY <1>7 DEF Killed, OnceInv
    <2> QED
      BY <2>1 DEF OnceInv, Answered
  <1>8. CASE Body \/ BodyFails \/ Drain \/ ClientCloses \/ UNCHANGED httpVars
    <2>1. UNCHANGED <<answers, lost>> /\ (phase' = phase \/ (phase = "drain" /\ phase' = "ended"))
      BY <1>8 DEF Body, BodyFails, Drain, ClientCloses, http, httpVars
    <2> QED
      BY <2>1 DEF OnceInv, Answered
  <1>9. CASE BodyOverrun
    BY <1>9, RespondOnce, EndsAre DEF BodyOverrun
  <1> QED
    BY <1>1, <1>2, <1>3, <1>4, <1>5, <1>6, <1>7, <1>8, <1>9 DEF HttpNext, Handle

LEMMA OnceIsAnswered ==
  ASSUME TypeOK, LengthInv, OnceInv
  PROVE  AnsweredOnce
  <1>1. 100 \in Statuses
    BY DEF Statuses
  <1>2. CASE answers = <<>>
    <2>1. Final(answers) = {} /\ answers \in Seq(Statuses)
      BY <1>2 DEF Final
    <2>2. phase \in {"drain", "ended"} => lost
      <3>1. \A status : answers # <<>> \o <<status>> /\ answers # <<100>> \o <<status>>
        BY <1>2
      <3> QED
        BY <3>1 DEF OnceInv, Answered
    <2> QED
      BY <2>1, <2>2 DEF AnsweredOnce, HttpTypeOK, LengthInv, OnceInv
  <1>3. CASE answers = <<100>>
    <2>1. Final(answers) = {} /\ answers \in Seq(Statuses)
      BY <1>1, <1>3 DEF Final
    <2>2. phase \in {"drain", "ended"} => lost
      <3> SUFFICES ASSUME phase \in {"drain", "ended"} PROVE lost
        OBVIOUS
      <3>1. ASSUME NEW status \in Statuses \ {100} PROVE answers # <<>> \o <<status>> /\ answers # <<100>> \o <<status>>
        BY <1>3, <3>1
      <3> QED
        BY <3>1 DEF OnceInv, Answered
    <2> QED
      BY <2>1, <2>2 DEF AnsweredOnce, HttpTypeOK, LengthInv, OnceInv
  <1>4. ASSUME NEW start \in {<<>>, << 100 >>}, NEW status \in Statuses \ {100},
               answers = start \o <<status>>, phase \in {"drain", "ended"}
        PROVE  AnsweredOnce
    <2>1. CASE start = <<>>
      <3>1. answers = <<status>>
        BY <1>4, <2>1
      <3>2. answers \in Seq(Statuses) /\ Final(answers) = {Len(answers)}
        BY <3>1 DEF Final
      <3> QED
        BY <1>4, <3>2 DEF AnsweredOnce, HttpTypeOK, LengthInv, OnceInv
    <2>2. CASE start = <<100>>
      <3>1. answers = <<100, status>>
        <4>1. <<100>> \in Seq(Statuses) /\ <<status>> \in Seq(Statuses)
          BY <1>1
        <4>2. answers = <<100>> \o <<status>>
          BY <1>4, <2>2
        <4>3. /\ answers \in Seq(Statuses) /\ Len(answers) = 2
              /\ answers[1] = 100 /\ answers[2] = status
          BY <4>1, <4>2
        <4> QED
          BY <4>3
      <3>2. answers \in Seq(Statuses) /\ Final(answers) = {Len(answers)}
        BY <1>1, <3>1 DEF Final
      <3> QED
        BY <1>4, <3>2 DEF AnsweredOnce, HttpTypeOK, LengthInv, OnceInv
    <2> QED
      BY <2>1, <2>2
  <1> QED
    BY <1>2, <1>3, <1>4 DEF OnceInv, Answered

(* A request that its handler understood is answered once, whatever the    *)
(* client sends, whatever the handlers find and whichever call fails.      *)
THEOREM RequestsAnsweredOnce == HttpSpec => []AnsweredOnce
  <1>1. HttpInit => OnceInv
    BY DEF HttpInit, OnceInv
  <1>2. TypeOK /\ OnceInv /\ [HttpNext]_httpVars => OnceInv'
    BY OnceStep
  <1>3. IndInv => TypeOK
    BY DEF IndInv
  <1>4. TypeOK /\ LengthInv /\ OnceInv => AnsweredOnce
    BY OnceIsAnswered
  <1> QED
    BY <1>1, <1>2, <1>3, <1>4, ServerBodyInv, LengthInductive, PTL DEF HttpSpec
=============================================================================
