------------------------------- MODULE HostStats -------------------------------
(***************************************************************************)
(* The request statistics of the web server (has4-web/challenge/src): a    *)
(* binary search tree that counts keys (bst.c), and the page that shows    *)
(* it, one chunk per line (stats.c), with its sizes in hexadecimal         *)
(* (hex_utils.c).                                                          *)
(*                                                                         *)
(* A key is in the tree once, so a node is named by its key.  A chunk is   *)
(* the size it announces, the bytes of it that went out, and what it says. *)
(***************************************************************************)
EXTENDS Integers, Sequences, FiniteSets, SequencesExt, Folds

CONSTANTS
  Key, Nil,
  Header, Footer,   (* the lines before and after the table                *)
  Width,            (* the length of a key's line, with its CR and LF      *)
  Anonymous,        (* keys without data, which the table of agents skips  *)
  HeaderWidth, FooterWidth,
  ByteMod, LineMax, (* 256 and 1024, or smaller                            *)
  MaxVisits         (* bound: visits counted                               *)

ASSUME StatsAssumption ==
  /\ Key \subseteq Nat /\ IsFiniteSet(Key) /\ Anonymous \subseteq Key
  /\ Header \notin Key /\ Footer \notin Key /\ Header # Footer
  /\ ByteMod \in 1..256 /\ LineMax \in Nat
  /\ HeaderWidth \in 2..(LineMax - 1) /\ FooterWidth \in 2..(LineMax - 1)
  /\ Width \in [Key -> Nat] /\ \A k \in Key : Width[k] >= 2
  /\ Nil \notin Key /\ Nil \notin [line : Key \cup {Header, Footer}, left : Nat]

VARIABLES
  root, node,       (* the tree: [left, right, count] of every key         *)
  visits,           (* how often each key was counted                      *)
  page,             (* "none", "host" or "ua": the table being sent        *)
  lines,            (* what is still to be sent: Header, keys, Footer      *)
  chunk,            (* the line in hand: [line, left], or Nil              *)
  wire,             (* what went out                                       *)
  broken            (* a write failed                                      *)

tree      == <<root, node>>
output    == <<page, lines, chunk, wire, broken>>
statsVars == <<tree, visits, output>>

NoNode == [left |-> Nil, right |-> Nil, count |-> 0]

(* toHex() and chunkHexToInt(), digit by digit; above a byte sprintf().    *)
ToHex(v) == IF v > 15 THEN <<v \div 16, v % 16>> ELSE <<v>>

ChunkHexToInt(digits) ==
  LET value[i \in 0..Len(digits)] == IF i = 0 THEN 0 ELSE 16 * value[i - 1] + digits[i]
  IN  value[Len(digits)]

-----------------------------------------------------------------------------
(* Where a search for key ends: at its node, or at the last one on its way.*)
Below(key, n) == IF key > n THEN node[n].right ELSE node[n].left

EndFrom(key) ==
  LET walk[n \in Key] ==
        IF key = n \/ Below(key, n) = Nil THEN n ELSE walk[Below(key, n)]
  IN  walk

End(key) == EndFrom(key)[root]

FindBstNode(key) == IF root # Nil /\ End(key) = key THEN key ELSE Nil

AddBstNodeRight(key) ==
  /\ visits' = [visits EXCEPT ![key] = @ + 1]
  /\ IF root = Nil THEN root' = key /\ node' = [node EXCEPT ![key].count = 1]
     ELSE /\ UNCHANGED root
          /\ node' = IF End(key) = key THEN [node EXCEPT ![key].count = @ + 1]
                     ELSE [node EXCEPT ![End(key)].right = key, ![key].count = 1]
  /\ UNCHANGED output

(* addBstNode(): counts the key, in a new node if it is new.  Out of       *)
(* memory nothing changes.                                                 *)
AddBstNode(key) ==
  /\ visits' = [visits EXCEPT ![key] = @ + 1]
  /\ LET at == End(key)
     IN  \/ root = Nil /\ root' = key /\ node' = [node EXCEPT ![key].count = 1]
         \/ /\ root # Nil /\ at = key
            /\ node' = [node EXCEPT ![key].count = @ + 1] /\ UNCHANGED root
         \/ /\ root # Nil /\ key > at
            /\ node' = [node EXCEPT ![at].right = key, ![key].count = 1] /\ UNCHANGED root
         \/ /\ root # Nil /\ key < at
            /\ node' = [node EXCEPT ![at].left = key, ![key].count = 1] /\ UNCHANGED root
  /\ UNCHANGED output

(* incBstNode(): counts a key that is there.                               *)
IncBstNode(key) ==
  /\ FindBstNode(key) = key
  /\ node' = [node EXCEPT ![key].count = @ + 1]
  /\ visits' = [visits EXCEPT ![key] = @ + 1]
  /\ UNCHANGED <<root, output>>

DeleteBst ==
  /\ root # Nil
  /\ root' = Nil /\ node' = [k \in Key |-> NoNode]
  /\ visits' = [k \in Key |-> 0]
  /\ UNCHANGED output

-----------------------------------------------------------------------------
(* printBst(): left, the node itself, right.                               *)
InOrderFrom ==
  LET under[n \in Key \cup {Nil}] ==
        IF n = Nil THEN <<>> ELSE under[node[n].left] \o <<n>> \o under[node[n].right]
  IN  under

InOrder == InOrderFrom[root]

(* A page: its header, the tree in order, its footer.                      *)
PrintBst(table) ==
  /\ page = "none" /\ wire = <<>>
  /\ page' = table
  /\ lines' = <<Header>> \o InOrder \o <<Footer>>
  /\ UNCHANGED <<tree, visits, chunk, wire, broken>>

WidthOf(line) == CASE line = Header -> HeaderWidth [] line = Footer -> FooterWidth [] OTHER -> Width[line]

(* The size a line announces: without its CR and LF, and for a line of a   *)
(* table that is longer than a byte can say, in a byte nevertheless.       *)
Size(line) ==
  LET n == WidthOf(line)
  IN  IF n < ByteMod THEN ChunkHexToInt(ToHex(n - 2))
      ELSE IF line \in Key THEN (n - 2) % ByteMod ELSE n - 2

(* The line itself, as far as outputLine holds it.                         *)
Sent(line) == IF WidthOf(line) < LineMax THEN WidthOf(line) ELSE LineMax - 1

(* One line of the page, and its size, ...                                 *)
Begin(line) ==
  /\ chunk = Nil /\ lines # <<>> /\ Head(lines) = line
  /\ chunk' = [line |-> line, left |-> Sent(line)]
  /\ \/ /\ ~broken /\ UNCHANGED broken
        /\ wire' = Append(wire, [size |-> Size(line), line |-> line, bytes |-> 0,
                                 count |-> IF line \in Key THEN node[line].count ELSE 0])
     \/ broken' = TRUE /\ UNCHANGED wire
  /\ UNCHANGED <<tree, visits, page, lines>>

HostStatsHeader   == page = "host" /\ Begin(Header)
HostStatsTable(k) == page = "host" /\ Begin(k)
HostStatsFooter   == page = "host" /\ Begin(Footer)

UaStatsHeader == page = "ua" /\ Begin(Header)
UaStatsFooter == page = "ua" /\ Begin(Footer)

(* A node without data has no line in the table of agents.                 *)
UaStatsTable(k) ==
  /\ page = "ua"
  /\ \/ k \notin Anonymous /\ Begin(k)
     \/ /\ k \in Anonymous /\ chunk = Nil /\ lines # <<>> /\ Head(lines) = k
        /\ lines' = Tail(lines)
        /\ UNCHANGED <<tree, visits, page, chunk, wire, broken>>

Line ==
  \/ HostStatsHeader \/ HostStatsFooter \/ UaStatsHeader \/ UaStatsFooter
  \/ \E k \in Key : HostStatsTable(k) \/ UaStatsTable(k)

(* ... then write() takes any part of the rest, or fails, which ends the   *)
(* line and not the page.                                                  *)
WriteLine ==
  /\ chunk # Nil
  /\ \/ \E n \in 1..chunk.left :
          /\ ~broken
          /\ chunk' = [chunk EXCEPT !.left = @ - n]
          /\ wire' = [wire EXCEPT ![Len(wire)].bytes = @ + n]
          /\ UNCHANGED <<lines, broken>>
     \/ /\ chunk.left > 0 /\ broken' = TRUE
        /\ chunk' = Nil /\ lines' = Tail(lines) /\ UNCHANGED wire
     \/ /\ chunk.left = 0
        /\ chunk' = Nil /\ lines' = Tail(lines) /\ UNCHANGED <<wire, broken>>
  /\ UNCHANGED <<tree, visits, page>>

(* The chunk of size 0, at the end of the footer.                          *)
LastChunk ==
  /\ page # "none" /\ lines = <<>> /\ chunk = Nil
  /\ page' = "none"
  /\ UNCHANGED <<tree, visits, lines, chunk, wire, broken>>

StatsInit ==
  /\ root = Nil /\ node = [k \in Key |-> NoNode] /\ visits = [k \in Key |-> 0]
  /\ page = "none" /\ lines = <<>> /\ chunk = Nil /\ wire = <<>> /\ broken = FALSE

Visited == FoldFunction(+, 0, visits)

StatsNext ==
  \/ /\ page = "none" /\ wire = <<>>
     /\ \/ Visited < MaxVisits /\ \E k \in Key : AddBstNode(k) \/ IncBstNode(k)
        \/ DeleteBst
  \/ (\E t \in {"host", "ua"} : PrintBst(t)) \/ Line \/ WriteLine \/ LastChunk

StatsSpec == StatsInit /\ [][StatsNext]_statsVars

-----------------------------------------------------------------------------
StatsTypeOK ==
  /\ root \in Key \cup {Nil}
  /\ node \in [Key -> [left : Key \cup {Nil}, right : Key \cup {Nil}, count : Nat]]
  /\ visits \in [Key -> Nat]
  /\ page \in {"none", "host", "ua"} /\ broken \in BOOLEAN
  /\ lines \in Seq(Key \cup {Header, Footer})
  /\ chunk # Nil => /\ lines # <<>>
                   /\ chunk \in [line : {Head(lines)}, left : 0..Sent(Head(lines))]

(* What a client makes of the chunks: every line whose chunk holds just    *)
(* that line and its end.                                                  *)
Decoded == \A i \in DOMAIN wire : wire[i].bytes = wire[i].size + 2

Fits(k) == Width[k] < LineMax /\ Width[k] - 2 < ByteMod

Rows == SubSeq(wire, 2, Len(wire) - 1)

Whole ==
  /\ Decoded
  /\ \A i \in DOMAIN Rows : Rows[i].line \in Key /\ Rows[i].count = visits[Rows[i].line]
  /\ \A i, j \in DOMAIN Rows : i < j => Rows[i].line < Rows[j].line
  /\ \A k \in Key : visits[k] > 0 => k \in Anonymous \/ \E i \in DOMAIN Rows : Rows[i].line = k

(* The page is the table: whatever order the keys were counted in and      *)
(* however the writes were cut up, a client that got all of it decodes the *)
(* keys in ascending order, each once, with the number of its visits (for  *)
(* lines whose length a byte can say: stats.c:89, stats.c:273).            *)
ReportIsTheTable ==
  /\ StatsTypeOK
  /\ /\ page = "none" /\ wire # <<>> /\ ~broken
     /\ \A i \in DOMAIN wire : wire[i].line \in Key => Fits(wire[i].line)
     => Whole
=============================================================================
