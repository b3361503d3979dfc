------------------------------- MODULE ReadBody -------------------------------
(***************************************************************************)
(* read_body() of the web server (has4-web/challenge/src/read_body.c): one *)
(* call reads one request body into memory it allocates, by Content-Length *)
(* or chunk by chunk.  The client sends in pieces of any size and may      *)
(* close at any time; reads and allocations may fail.                      *)
(*                                                                         *)
(* Bytes are counted, not represented.  A client announces any number; the *)
(* function has what an int makes of it, and its sums wrap like an int's.  *)
(***************************************************************************)
EXTENDS Integers

CONSTANTS
  IntMax,           (* the largest int: 2^31 - 1                           *)
  MaxSizes,         (* what max_size, the server's maxEntitySize, can be   *)
  InitialMemory,    (* what memory_size starts with: 1024                  *)
  Lengths           (* the lengths that clients announce, 0 among them     *)

Ints == (-(IntMax + 1))..IntMax

ASSUME ReadBodyAssumption ==
  /\ IntMax \in Nat \ {0} /\ InitialMemory \in 1..IntMax
  /\ MaxSizes \subseteq Ints
  /\ Lengths \subseteq Int /\ 0 \in Lengths

VARIABLES
  pc,                     (* where the call is                             *)
  max_size,               (* the limit, which is the same all along        *)
  memory_size,            (* bytes at body_data, 0 when there are none     *)
  length,                 (* content_length, chunk_length                  *)
  so_far,                 (* bytes of them that were read                  *)
  total_read,
  result, received_size,  (* what the call returned                        *)
  closed,                 (* the client closed, and all it sent was read   *)
  announced               (* for the properties: the sum of all lengths    *)

counts == <<memory_size, length, so_far, total_read>>
reply  == <<result, received_size>>
vars   == <<pc, max_size, counts, reply, closed, announced>>

(* A number in the width of an int, and in that of a long.                 *)
Int32(x) == ((x + IntMax + 1) % (2 * (IntMax + 1))) - (IntMax + 1)
LongMax  == 2 * (IntMax + 1) * (IntMax + 1) - 1

(* The number that atoi() has of a text: what strtol() has, without its    *)
(* upper half.                                                             *)
Atoi(x) == Int32(CASE x > LongMax -> LongMax [] x < -LongMax -> (-LongMax) - 1 [] OTHER -> x)

-----------------------------------------------------------------------------
Init ==
  /\ pc = "start" /\ max_size \in MaxSizes
  /\ memory_size = 0 /\ length = 0 /\ so_far = 0 /\ total_read = 0
  /\ result = 0 /\ received_size = 0
  /\ closed = FALSE /\ announced = 0

Return(status) == pc' = "done" /\ result' = status

Refuse(status) ==
  /\ Return(status)
  /\ UNCHANGED <<max_size, counts, received_size, closed, announced>>

(* The body is freed, or an allocation failed.                             *)
RefuseFreed(status) ==
  /\ Return(status)
  /\ memory_size' = 0
  /\ UNCHANGED <<max_size, length, so_far, total_read, received_size, closed, announced>>

(* The request has a Content-Length: a byte more than that, for a NUL.     *)
ContentLength(text) ==
  LET n == Atoi(text) IN
  /\ pc = "start"
  /\ \/ n > max_size /\ Refuse(400)
     \/ n <= max_size /\ Int32(n + 1) < 0 /\ RefuseFreed(500)
     \/ /\ n <= max_size /\ Int32(n + 1) >= 0
        /\ pc' = "length" /\ memory_size' = n + 1
        /\ length' = n /\ announced' = text
        /\ UNCHANGED <<max_size, so_far, total_read, reply, closed>>

Chunked ==
  /\ pc = "start"
  /\ pc' = "size" /\ memory_size' = InitialMemory
  /\ UNCHANGED <<max_size, length, so_far, total_read, reply, closed, announced>>

(* What is already there is forgotten.                                     *)
NeedsRoomAlone(n) == Int32(n + 1) > memory_size

(* A chunk that does not fit behind what was read needs more memory: its   *)
(* size and a byte more.  Both sums are ints.                              *)
NeedsRoom(n) == Int32(n + total_read + 1) > memory_size
Grown(n)     == Int32(memory_size + n + 1)

NoMemory ==
  \/ pc = "start" /\ RefuseFreed(500)
  \/ /\ pc = "size" /\ ~closed
     /\ \E digits \in Lengths :
          LET n == Int32(digits) IN n # 0 /\ NeedsRoom(n) /\ Grown(n) <= max_size
     /\ RefuseFreed(500)

(* read() returns what has arrived, at most what is missing.               *)
Read(n) ==
  /\ pc \in {"length", "chunk"} /\ ~closed
  /\ n <= length - so_far /\ total_read + n <= memory_size
  /\ so_far' = so_far + n /\ total_read' = total_read + n
  /\ UNCHANGED <<pc, max_size, memory_size, length, reply, closed, announced>>

(* More arrives than there is memory: the process dies, or a read fails on *)
(* the first page that is not there.                                       *)
Overrun ==
  /\ pc = "chunk" /\ ~closed /\ length - so_far > memory_size - total_read
  /\ pc' = "overrun"
  /\ UNCHANGED <<max_size, counts, reply, closed, announced>>

(* A negative count is a very large one, which read() does not take.       *)
CountRefused ==
  /\ pc \in {"length", "chunk"} /\ length < 0
  /\ Refuse(400)

ClosedAgain ==
  /\ pc \in {"length", "chunk"} /\ so_far # length /\ closed
  /\ UNCHANGED vars

(* "Connection closed unexpectedly"                                        *)
ReadClosed ==
  /\ pc \in {"length", "chunk"} /\ so_far < length /\ closed
  /\ RefuseFreed(400)

ReadFails ==
  /\ pc \in {"length", "chunk", "overrun"} /\ so_far # length
  /\ Refuse(400)

(* The body ends with a NUL, and the call with success.                    *)
Finish ==
  /\ Return(200)
  /\ received_size' = total_read
  /\ UNCHANGED <<max_size, counts, closed, announced>>

LengthRead ==
  /\ pc = "length" /\ so_far = length
  /\ Finish

(* A line with the size of the next chunk, up to eight hexadecimal digits. *)
(* From a client that closed, readLine() leaves an empty line and no       *)
(* error, and the size counts as 0: the end of the body.                   *)
ChunkSize(digits) ==
  LET n == Int32(digits) IN
  /\ pc = "size" /\ digits \in 0..(2 * IntMax + 1)
  /\ \/ n = 0 /\ Finish
     \/ /\ n # 0 /\ ~closed /\ NeedsRoom(n) /\ Grown(n) > max_size
        /\ Refuse(400)
     \/ /\ n # 0 /\ ~closed /\ NeedsRoom(n) /\ Grown(n) <= max_size /\ Grown(n) < 0
        /\ RefuseFreed(500)
     \/ /\ n # 0 /\ ~closed /\ (NeedsRoom(n) => Grown(n) \in 0..max_size)
        /\ pc' = "chunk" /\ memory_size' = IF NeedsRoom(n) THEN Grown(n) ELSE memory_size
        /\ length' = n /\ so_far' = 0 /\ announced' = announced + digits
        /\ UNCHANGED <<max_size, total_read, reply, closed>>

(* "Line too long!", and what a line looks like when reading it fails.     *)
SizeLineTooLong == pc = "size" /\ Refuse(414)

ChunkReadEarly ==
  /\ pc = "chunk"
  /\ \/ so_far > 0 /\ ~closed /\ pc' = "size"
        /\ UNCHANGED <<max_size, counts, reply, closed, announced>>
     \/ so_far = length /\ Refuse(400)

(* The end of the line behind the chunk, which has to be there.            *)
ChunkRead ==
  /\ pc = "chunk" /\ so_far = length
  /\ \/ ~closed /\ pc' = "size" /\ UNCHANGED <<max_size, counts, reply, closed, announced>>
     \/ Refuse(400)

Close ==
  /\ ~closed
  /\ closed' = TRUE
  /\ UNCHANGED <<pc, max_size, counts, reply, announced>>

Start == (\E text \in Lengths : ContentLength(text)) \/ Chunked

ReadOn == \/ \E digits \in Lengths : ChunkSize(digits)
          \/ \E n \in 1..(length - so_far) : Read(n)
          \/ Overrun \/ CountRefused \/ ReadClosed \/ LengthRead \/ ChunkRead

Fail == NoMemory \/ ReadFails \/ SizeLineTooLong

Next == Start \/ ReadOn \/ Fail \/ Close

Spec == Init /\ [][Next]_vars

-----------------------------------------------------------------------------
(* Types; what the call returns is a status it knows.                      *)
TypeOK ==
  /\ pc \in {"start", "length", "size", "chunk", "overrun", "done"}
  /\ max_size \in MaxSizes
  /\ memory_size \in 0..IntMax /\ length \in Ints
  /\ so_far \in 0..IntMax /\ total_read \in 0..IntMax
  /\ result \in {0, 200, 400, 414, 500} /\ received_size \in 0..IntMax
  /\ closed \in BOOLEAN /\ announced \in Int

(* While bytes are missing there is room for all of them and for the NUL   *)
(* behind the body, and between two chunks for the NUL, however the chunks *)
(* are cut and however often the memory grew: for every Content-Length,    *)
(* and for all chunks that come to less than the largest int.  Only from   *)
(* there on the sum in NeedsRoom can wrap, and memory be overrun.          *)
BodyFits ==
  /\ pc = "length" \/ (pc = "chunk" /\ announced < IntMax) =>
       total_read + (length - so_far) < memory_size
  /\ pc = "size" /\ announced < IntMax => total_read < memory_size
  /\ pc = "overrun" => announced >= IntMax

(* The memory of a request stays below the configured size, or at what a   *)
(* chunked body starts with when the configured size is smaller.           *)
BodyBounded == memory_size <= max_size + 1 \/ memory_size <= InitialMemory

(* What was announced, as far as the function could know.                  *)
AsAnnounced == IF announced \in Ints THEN announced ELSE Atoi(announced)

(* A body that is accepted has all the bytes that its client announced, as *)
(* its Content-Length or chunk by chunk until it closed or announced none: *)
(* none of a chunk is missing, none is counted twice.  Of a Content-Length *)
(* that is no int, it has as many as the int that atoi() makes of it.      *)
BodyIsWhole == pc = "done" /\ result = 200 => received_size = AsAnnounced
=============================================================================
