------------------------------ MODULE Packetizer ------------------------------
(***************************************************************************)
(* cromulence::Packetizer (cpp_base/h/Packetizer.hpp): cuts the byte       *)
(* stream of a radio contact back into packets.  A frame on the wire is a  *)
(* sync word, a header that states the packet's total length, and the rest *)
(* of the packet.  A contact can start in the middle of a frame and a      *)
(* frame can be cut off, and the reader sees the stream in arbitrary       *)
(* chunks; the packetizer must find its way back at the next sync word.    *)
(*                                                                         *)
(* The byte store is the sequence that module BoundedFifo promises and     *)
(* ContainersProofs proves circular<> to be.  The packet buffer packet_ is *)
(* smaller than the store where it is instantiated (1024 and 10000 bytes), *)
(* and nothing compares a length with it: a longer packet is copied past   *)
(* its end, over the flags and the sync word behind it.  The program has   *)
(* no defined behaviour from there on, and the model takes no step.        *)
(***************************************************************************)
EXTENDS Integers, Sequences

CONSTANTS
  Byte,            (* what a byte can be                                   *)
  Sync,            (* syncWord_, as the bytes it has in memory             *)
  HeaderLen,       (* sizeof(CFE_SB_Msg_t)                                 *)
  TotalLength(_),  (* CFE_SB_GetTotalMsgLength of a header                 *)
  SizeMod,         (* the modulus of size_t arithmetic                     *)
  BufferLen,       (* the byte store's capacity, BUFFER_LEN                *)
  PacketMaxLen,    (* the packet buffer's size, PACKET_MAX_LEN             *)
  MaxChunk,        (* the most bytes a caller pushes at once               *)
  Contacts,        (* what may be sent: the bytes, and where in them the   *)
                   (* frames are that were sent whole: [from, to]          *)
  LaterContacts,   (* what may be sent once the caller has called clear()  *)
  MaxClears        (* bound: how many times the caller starts over         *)

(* The store and the packet buffer hold a header, and the store more than  *)
(* a sync word and a byte; no length reaches the end of size_t.            *)
ASSUME PacketizerAssumption ==
  /\ Sync \in Seq(Byte) /\ Len(Sync) \in Nat \ {0}
  /\ HeaderLen \in Nat \ {0}
  /\ BufferLen \in Nat /\ BufferLen > HeaderLen /\ BufferLen > Len(Sync) + 1
  /\ PacketMaxLen \in Nat /\ PacketMaxLen >= HeaderLen
  /\ SizeMod \in Nat /\ SizeMod > BufferLen + HeaderLen
  /\ MaxChunk \in Nat /\ MaxClears \in Nat
  /\ \A h \in [1..HeaderLen -> Byte] : TotalLength(h) \in 0..(SizeMod - 1)
  /\ \A c \in Contacts \cup LaterContacts :
       /\ c.bytes \in Seq(Byte)
       /\ Len(c.whole) \in Nat
       /\ \A i \in 1..Len(c.whole) : c.whole[i].from \in Nat \ {0} /\ c.whole[i].to \in Nat

VARIABLES
  contact,     (* what is sent in this contact                             *)
  wire,        (* the bytes not yet pushed                                 *)
  buffer,      (* buffer_                                                  *)
  packet,      (* the part of packet_ that has been filled                 *)
  syncFound, headerRdy, packetRdy,
  caller,      (* "ready" between calls, "scanning" inside get_packet,     *)
               (* "null" or "packet" when it has just returned, "overrun"  *)
               (* when it has written past packet_: nothing follows        *)
  delivered,   (* the packets the caller has taken with pop_packet         *)
  edge,        (* get_packet saw a store ending in (the start of) a sync   *)
  refused,     (* a chunk did not fit in this contact                      *)
  clears       (* calls of clear() so far                                  *)

stream         == <<contact, wire, clears>>
flags          == <<syncFound, headerRdy, packetRdy>>
packetizerVars == <<stream, buffer, packet, flags, caller, delivered, edge, refused>>

-----------------------------------------------------------------------------
DropFirst(s, n) == SubSeq(s, n + 1, Len(s))

OccursAt(s, p, k) ==
  k + Len(p) <= Len(s) /\ SubSeq(s, k + 1, k + Len(p)) = p

(* s ends in the sync word or in the beginning of one.                     *)
EndsInSync(s) ==
  \E k \in 1..Len(Sync) : Len(s) >= k /\ OccursAt(s, SubSeq(Sync, 1, k), Len(s) - k)

(* circular::find_pattern for the sync word: alignments 0 .. stop - 1.     *)
FindSync(s) ==
  LET stop == Len(s) - Len(Sync)
      hits == {k \in 0..(stop - 1) : OccursAt(s, Sync, k)}
  IN  IF hits # {}
      THEN [found |-> TRUE, at |-> CHOOSE k \in hits : \A j \in hits : k <= j]
      ELSE [found |-> FALSE, at |-> IF stop > 1 THEN stop - 1 ELSE 0]

LocateSyncDropsAll(s) ==
  LET hit == FindSync(s)
  IN  [found |-> hit.found,
       rest  |-> IF hit.found THEN DropFirst(s, hit.at + Len(Sync)) ELSE <<>>]

LocateSyncKeepsNoise(s) ==
  LET hit == FindSync(s)
  IN  [found |-> hit.found,
       rest  |-> IF hit.found THEN DropFirst(s, hit.at + Len(Sync)) ELSE s]

(* locateSync(): drop everything up to and including the first sync word,  *)
(* or all that cannot be the beginning of one.                             *)
LocateSync(s) ==
  LET hit == FindSync(s)
  IN  [found |-> hit.found,
       rest  |-> DropFirst(s, hit.at + IF hit.found THEN Len(Sync) ELSE 0)]

SyncWithinLate(s, n) == LET hit == FindSync(s) IN hit.found /\ hit.at < n - 1

(* A sync word begins in the next n bytes: the frame was cut off.          *)
SyncWithin(s, n) == LET hit == FindSync(s) IN hit.found /\ hit.at < n

(* Payload bytes the header announces, computed in size_t: a total shorter *)
(* than the header wraps.                                                  *)
PayloadLength(h) == (TotalLength(h) - HeaderLen) % SizeMod

-----------------------------------------------------------------------------
PacketizerInit ==
  /\ contact \in Contacts
  /\ wire = contact.bytes
  /\ buffer = <<>>
  /\ packet = <<>>
  /\ syncFound = FALSE /\ headerRdy = FALSE /\ packetRdy = FALSE
  /\ caller = "ready"
  /\ delivered = <<>>
  /\ edge = FALSE /\ refused = FALSE
  /\ clears = 0

(* push_bytes(ptr, n).  The store throws overflow_error when the chunk     *)
(* does not fit and keeps nothing of it; the reader cannot un-read it.     *)
PushBytes(n) ==
  /\ caller \in {"ready", "null"}
  /\ n <= Len(wire)
  /\ wire' = DropFirst(wire, n)
  /\ IF Len(buffer) + n > BufferLen
     THEN refused' = TRUE /\ UNCHANGED buffer
     ELSE buffer' = buffer \o SubSeq(wire, 1, n) /\ UNCHANGED refused
  /\ caller' = "ready"
  /\ UNCHANGED <<contact, clears, packet, flags, delivered, edge>>

(* get_packet() starts scanning ...                                        *)
GetPacket ==
  /\ caller = "ready"
  /\ caller' = "scanning"
  /\ edge' = (edge \/ EndsInSync(buffer))
  /\ UNCHANGED <<stream, buffer, packet, flags, delivered, refused>>

UnpackHeaderKeepsSync(s) ==
  /\ Len(s) < HeaderLen \/ SyncWithin(s, HeaderLen)
  /\ caller' = IF SyncWithin(s, HeaderLen) THEN "scanning" ELSE "null"
  /\ syncFound' = TRUE /\ headerRdy' = FALSE
  /\ buffer' = s
  /\ UNCHANGED <<packet, packetRdy>>

(* ... unpackHeader(), on store s: wait, start over, or take the header.   *)
UnpackHeader(s) ==
  \/ /\ Len(s) < HeaderLen
     /\ syncFound' = TRUE /\ headerRdy' = FALSE
     /\ caller' = "null"
     /\ buffer' = s
     /\ UNCHANGED <<packet, packetRdy>>
  \/ /\ HeaderLen <= Len(s)
     /\ SyncWithin(s, HeaderLen)
     /\ syncFound' = FALSE /\ headerRdy' = FALSE
     /\ caller' = "scanning"
     /\ buffer' = s
     /\ UNCHANGED <<packet, packetRdy>>

(* ... unpackMessage(), with header h taken and store s: start over, take  *)
(* the payload (with no look at the room there is for it), or wait.        *)
UnpackMessage(h, s) ==
  LET len == PayloadLength(h)
  IN  \/ /\ SyncWithin(s, len)
         /\ syncFound' = FALSE /\ headerRdy' = FALSE
         /\ caller' = "scanning"
         /\ buffer' = s /\ packet' = h
         /\ UNCHANGED packetRdy
      \/ /\ ~SyncWithin(s, len)
         /\ len <= Len(s)
         /\ packet' = h \o SubSeq(s, 1, len)
         /\ buffer' = DropFirst(s, len)
         /\ syncFound' = TRUE /\ headerRdy' = TRUE /\ packetRdy' = TRUE
         /\ caller' = IF HeaderLen + len <= PacketMaxLen THEN "packet" ELSE "overrun"
      \/ /\ ~SyncWithin(s, len)
         /\ len > Len(s)
         /\ buffer' = s /\ packet' = h
         /\ syncFound' = TRUE /\ headerRdy' = TRUE
         /\ caller' = "null"
         /\ UNCHANGED packetRdy

(* ... one pass of the loop in packetize(); "scanning" is its retry flag.  *)
Packetize ==
  /\ caller = "scanning"
  /\ UNCHANGED <<stream, delivered, edge, refused>>
  /\ LET located == IF syncFound THEN [found |-> TRUE, rest |-> buffer]
                                 ELSE LocateSync(buffer)
         s       == located.rest
         h       == SubSeq(s, 1, HeaderLen)
     IN  \/ /\ packetRdy
            /\ caller' = "packet"
            /\ UNCHANGED <<buffer, packet, flags>>
         \/ /\ ~packetRdy /\ ~headerRdy /\ ~located.found
            /\ buffer' = s
            /\ caller' = "null"
            /\ UNCHANGED <<packet, flags>>
         \/ ~packetRdy /\ ~headerRdy /\ located.found /\ UnpackHeader(s)
         \/ /\ ~packetRdy /\ ~headerRdy /\ located.found
            /\ HeaderLen <= Len(s)
            /\ ~SyncWithin(s, HeaderLen)
            /\ UnpackMessage(h, DropFirst(s, HeaderLen))
         \/ ~packetRdy /\ headerRdy /\ UnpackMessage(SubSeq(packet, 1, HeaderLen), buffer)

(* The caller uses the packet and calls pop_packet().                      *)
PopPacket ==
  /\ caller = "packet"
  /\ delivered' = Append(delivered, packet)
  /\ packet' = <<>>
  /\ syncFound' = FALSE /\ headerRdy' = FALSE /\ packetRdy' = FALSE
  /\ caller' = "ready"
  /\ UNCHANGED <<stream, buffer, edge, refused>>

ClearKeepsHeader ==
  /\ caller \notin {"scanning", "overrun"}
  /\ clears < MaxClears
  /\ clears' = clears + 1
  /\ contact' \in LaterContacts
  /\ wire' = contact'.bytes
  /\ buffer' = <<>>
  /\ syncFound' = FALSE /\ packetRdy' = FALSE
  /\ caller' = "ready"
  /\ delivered' = <<>>
  /\ edge' = FALSE /\ refused' = FALSE
  /\ UNCHANGED <<packet, headerRdy>>

(* clear(), and the caller turns to another contact.                       *)
Clear ==
  /\ caller \notin {"scanning", "overrun"}
  /\ clears < MaxClears
  /\ clears' = clears + 1
  /\ contact' \in LaterContacts
  /\ wire' = contact'.bytes
  /\ buffer' = <<>>
  /\ syncFound' = FALSE /\ headerRdy' = FALSE /\ packetRdy' = FALSE
  /\ caller' = "ready"
  /\ delivered' = <<>>
  /\ edge' = FALSE /\ refused' = FALSE
  /\ UNCHANGED packet

PacketizerNext ==
  \/ \E n \in 1..MaxChunk : PushBytes(n)
  \/ GetPacket
  \/ Packetize
  \/ PopPacket
  \/ Clear

PacketizerSpec == PacketizerInit /\ [][PacketizerNext]_packetizerVars

(* The thread inside get_packet() keeps running.                           *)
PacketizerFairSpec == PacketizerSpec /\ WF_packetizerVars(Packetize)

-----------------------------------------------------------------------------
(* A frame begins at offset k: a sync word is there, and with the length   *)
(* that its header announces it ends before the contact and before the     *)
(* next sync word.                                                         *)
SyncAt(c, k) == OccursAt(c.bytes, Sync, k)
Header(c, k) == SubSeq(c.bytes, k + Len(Sync) + 1, k + Len(Sync) + HeaderLen)
Free(c, k, n) ==
  /\ k + Len(Sync) + n <= Len(c.bytes)
  /\ \A j \in 0..(n - 1) : ~SyncAt(c, k + Len(Sync) + j)

FrameAt(c, k) ==
  SyncAt(c, k) /\ Free(c, k, HeaderLen) /\ Free(c, k, TotalLength(Header(c, k)))

(* What senders keep to: sync words do not overlap, a header counts        *)
(* itself, and the frames sent whole, in their order, are where a frame    *)
(* can be read at all.  The rest is noise and frames that were cut off.    *)
Honest(c) ==
  LET offsets == 0..(Len(c.bytes) - 1)
  IN  /\ \A k \in offsets : SyncAt(c, k) =>
           /\ Free(c, k, HeaderLen) => TotalLength(Header(c, k)) >= HeaderLen
           /\ \A j \in 1..(Len(Sync) - 1) : ~SyncAt(c, k + j)
           /\ FrameAt(c, k) => \E i \in 1..Len(c.whole) : c.whole[i].from = k + 1
      /\ \A i \in 1..Len(c.whole) :
           /\ c.whole[i].from - 1 \in offsets /\ FrameAt(c, c.whole[i].from - 1)
           /\ c.whole[i].to = c.whole[i].from - 1 + Len(Sync) + TotalLength(Header(c, c.whole[i].from - 1))
           /\ \A j \in 1..Len(c.whole) : i < j => c.whole[i].from < c.whole[j].from

WholePacket(i) == SubSeq(contact.bytes, contact.whole[i].from + Len(Sync), contact.whole[i].to)

WholePackets == [i \in 1..Len(contact.whole) |-> WholePacket(i)]

AllRead == wire = <<>> /\ caller = "null"

(* The flags only ever say: searching, in a header, in a payload, done.    *)
PacketizerTypeOK ==
  /\ buffer \in Seq(Byte) /\ Len(buffer) <= BufferLen /\ packet \in Seq(Byte)
  /\ caller \in {"ready", "scanning", "null", "packet", "overrun"}
  /\ <<syncFound, headerRdy, packetRdy>> \in
       {<<FALSE, FALSE, FALSE>>, <<TRUE, FALSE, FALSE>>,
        <<TRUE, TRUE, FALSE>>, <<TRUE, TRUE, TRUE>>}
  /\ headerRdy => Len(packet) >= HeaderLen
  /\ packetRdy => Len(packet) = HeaderLen + PayloadLength(SubSeq(packet, 1, HeaderLen))

(* A stream with cut-off frames comes back exactly: however it was chunked *)
(* (and whatever an earlier contact left behind), once all of it is read   *)
(* the caller has every frame that was sent whole, once, in order, and     *)
(* nothing else, provided that no chunk was refused and no get_packet call *)
(* saw the store end in a sync word or in the beginning of one; and the    *)
(* packet buffer is overrun only by a frame sent whole that is longer: no  *)
(* cut-off frame ever is.  The flags agree in every state.                 *)
StreamRecovered ==
  /\ PacketizerTypeOK
  /\ Honest(contact) /\ ~edge /\ ~refused =>
       /\ AllRead => delivered = WholePackets
       /\ caller = "overrun" => \E i \in 1..Len(contact.whole) : Len(WholePacket(i)) > PacketMaxLen

(* Even then the damage stays next to its cause: a frame sent whole behind *)
(* a whole frame (or first) is lost only behind a misread header, whose    *)
(* length comes from a sync word and swallows the frame before it.  (A     *)
(* contact that overran the packet buffer is not all read.)                *)
LossIsLocal ==
  Honest(contact) /\ AllRead /\ ~refused =>
    \A i \in 1..Len(contact.whole) :
      contact.whole[i].from = 1 \/ (i > 1 /\ contact.whole[i - 1].to = contact.whole[i].from - 1) =>
        \E d \in 1..Len(delivered) :
          \/ delivered[d] = WholePacket(i)
          \/ /\ i > 1 /\ edge
             /\ \E k \in 1..Len(delivered[d]) : OccursAt(delivered[d], WholePacket(i - 1), k)

(* The retry loop of packetize() ends (Packetizer.hpp:84-105), unless it   *)
(* runs past the packet buffer.                                            *)
GetPacketReturns == (caller = "scanning") ~> (caller # "scanning")

(* Whatever the headers announce, short, long or not at all: a store that  *)
(* is full and yields no packet is waiting for a payload that can never    *)
(* fit, nothing else wedges the packetizer; and it writes past its packet  *)
(* buffer only for a header that announces a packet longer than that.      *)
OnlyOversizeWedges ==
  /\ caller = "null" /\ Len(buffer) = BufferLen =>
       headerRdy /\ PayloadLength(SubSeq(packet, 1, HeaderLen)) > BufferLen
  /\ caller = "overrun" => TotalLength(SubSeq(packet, 1, HeaderLen)) > PacketMaxLen

(* "Packet 2 should be detected as a double sync and be dropped"           *)
(* (ut/TestPacketizer.hpp:222): a cut-off frame is never handed out.       *)
CutOffIsDropped ==
  \A d \in 1..Len(delivered) :
    \E i \in 1..Len(WholePackets) : delivered[d] = WholePackets[i]
=============================================================================
