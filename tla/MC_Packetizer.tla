---------------------------- MODULE MC_Packetizer ----------------------------
(* Contacts of up to MaxPieces frames for Packetizer.  The sync word is    *)
(* <<8, 9>>, the header an identifier and the packet's total length.  The  *)
(* first piece may be noise, as at the start of a contact; any frame may   *)
(* be cut off anywhere after its sync word.                                *)
EXTENDS Packetizer

LOCAL INSTANCE SequencesExt

CONSTANTS MaxPieces, Totals, Noise

MCByte == 1..30
MCSync == <<8, 9>>
MCTotalLength(h) == h[2]

Frame(id, total) == MCSync \o <<id, total>> \o [i \in 1..(total - 2) |-> id]

Piece(id) ==
  UNION {{[bytes |-> SubSeq(Frame(id, total), 1, n),
           whole |-> n = Len(Frame(id, total))] : n \in Len(MCSync)..(total + 2)} : total \in Totals}

(* The pieces one after the other, and which of them are whole frames.     *)
Sent(pieces) ==
  LET until(i) == Len(FlattenSeq([k \in 1..i |-> pieces[k].bytes]))
      frames   == [i \in 1..Len(pieces) |-> [from |-> until(i - 1) + 1, to |-> until(i)]]
      whole    == {i \in 1..Len(pieces) : pieces[i].whole}
  IN  [bytes |-> FlattenSeq([k \in 1..Len(pieces) |-> pieces[k].bytes]),
       whole |-> LET order == SetToSortSeq(whole, <) IN [i \in 1..Len(order) |-> frames[order[i]]]]

(* A frame longer than the packet buffer behind a frame or a piece of one. *)
MCLongContacts ==
  {Sent(<<a, [bytes |-> Frame(2, PacketMaxLen + 1), whole |-> TRUE]>>) : a \in Piece(1)}

(* Two headers that lie about the length, shorter than a header,           *)
(* longer than the packet buffer, or longer than the store can hold; and   *)
(* more noise than the store can hold.                                     *)
Lying(total) == [bytes |-> MCSync \o <<1, total>> \o <<1, 1, 1, 1>>, whole |-> FALSE]

Static == [bytes |-> [i \in 1..(BufferLen + 1) |-> 5], whole |-> FALSE]

MCLyingContacts ==
  LET lies == {Lying(1), Lying(PacketMaxLen + 1), Lying(30)}
  IN  {Sent(<<a, b, c>>) : a, b \in lies, c \in {p \in Piece(4) : p.whole}}
        \cup {Sent(<<Static, c>>) : c \in Piece(4)}

MCContacts ==
  LET framed == UNION {{f \in [1..n -> UNION {Piece(id) : id \in 1..n}] :
                          \A i \in 1..n : f[i] \in Piece(i)} : n \in 1..MaxPieces}
  IN  {Sent(c) : c \in framed \cup {<<[bytes |-> <<Noise>>, whole |-> FALSE]>> \o c : c \in framed}}
        \cup MCLongContacts \cup MCLyingContacts

(* After clear(): noise, a frame cut off, and a whole one.                 *)
MCLaterContacts ==
  {Sent(<<[bytes |-> <<Noise>>, whole |-> FALSE],
          [bytes |-> SubSeq(Frame(1, 3), 1, n), whole |-> n = 5],
          [bytes |-> Frame(2, 3), whole |-> TRUE]>>) : n \in {4, 5}}
=============================================================================
