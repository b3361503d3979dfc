------------------------------- MODULE KeyQueue -------------------------------
(***************************************************************************)
(* cromulence::key_queue (containers): a queue whose entries can also be   *)
(* found and removed by key.  list_ has the entries in order, map_ the     *)
(* entry of each key; an entry is the number of the push that made it.     *)
(***************************************************************************)
EXTENDS Integers, Sequences

CONSTANTS
  Key, NoEntry,
  MaxPush           (* bound: entries pushed                               *)

KeyQueueAssumption == MaxPush \in Nat /\ NoEntry \notin Nat

VARIABLES
  list_, map_,
  keyOf,            (* the key of each entry                               *)
  twice             (* a key was pushed while the queue held it            *)

vars == <<list_, map_, keyOf, twice>>

Listed == {list_[i] : i \in DOMAIN list_}

(* list_ without e, which it has at one place.                             *)
At(e) == CHOOSE i \in DOMAIN list_ : list_[i] = e

Without(e) ==
  IF e \in Listed THEN [j \in 1..(Len(list_) - 1) |-> list_[IF j < At(e) THEN j ELSE j + 1]]
                  ELSE list_

Entry == Len(keyOf) + 1

(* push(): the list takes a second entry for a key, the map does not.      *)
Push(k) ==
  /\ Entry <= MaxPush
  /\ keyOf' = Append(keyOf, k)
  /\ list_' = Append(list_, Entry)
  /\ map_' = [map_ EXCEPT ![k] = IF @ = NoEntry THEN Entry ELSE @]
  /\ twice' = (twice \/ \E e \in Listed : keyOf[e] = k)

PopListOnly ==
  /\ list_ # <<>>
  /\ list_' = Tail(list_)
  /\ UNCHANGED <<map_, keyOf, twice>>

(* pop(): forgets the key of the first entry, whichever entry it leads to. *)
Pop ==
  /\ list_ # <<>>
  /\ map_' = [map_ EXCEPT ![keyOf[Head(list_)]] = NoEntry]
  /\ list_' = Tail(list_)
  /\ UNCHANGED <<keyOf, twice>>

(* remove(): an unknown key throws.  (get() of an unknown key ends the     *)
(* program: it reads through the empty pointer it has just put there.)     *)
Remove(k) ==
  /\ map_[k] # NoEntry
  /\ list_' = Without(map_[k])
  /\ map_' = [map_ EXCEPT ![k] = NoEntry]
  /\ UNCHANGED <<keyOf, twice>>

Clear ==
  /\ list_' = <<>> /\ map_' = [k \in Key |-> NoEntry]
  /\ UNCHANGED <<keyOf, twice>>

(* contains() and get(key); get(index), getKey(index) and front();         *)
(* first_match() and count_match() for the entries in e.                   *)
Contains(k)   == map_[k] # NoEntry
KeyAt(index)  == keyOf[list_[index]]
FirstMatch(e) == KeyAt(CHOOSE i \in DOMAIN list_ : list_[i] \in e /\ \A j \in 1..(i - 1) : list_[j] \notin e)

Init == list_ = <<>> /\ map_ = [k \in Key |-> NoEntry] /\ keyOf = <<>> /\ twice = FALSE

Next == (\E k \in Key : Push(k) \/ Remove(k)) \/ Pop \/ Clear

Spec == Init /\ [][Next]_vars

-----------------------------------------------------------------------------
TypeOK ==
  /\ list_ \in Seq(1..MaxPush) /\ Listed \subseteq 1..Len(keyOf)
  /\ keyOf \in Seq(Key) /\ Len(keyOf) <= MaxPush
  /\ map_ \in [Key -> 1..Len(keyOf) \cup {NoEntry}]
  /\ twice \in BOOLEAN

(* The map never leads to an entry that has left the list, nor to one of   *)
(* another key, even after keys were pushed twice and popped again.  As    *)
(* long as no key was pushed twice, every entry is found by its key.       *)
IndexesAgree ==
  /\ \A k \in Key : map_[k] # NoEntry => map_[k] \in Listed /\ keyOf[map_[k]] = k
  /\ ~twice => \A i \in DOMAIN list_ : map_[KeyAt(i)] = list_[i]
=============================================================================
