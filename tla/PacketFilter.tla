------------------------------ MODULE PacketFilter ------------------------------
(***************************************************************************)
(* cromulence::packets::Filter (cpp_base): which messages go on, where to, *)
(* and every how many-th of them.  The tables have one entry for each      *)
(* apid; a command and a telemetry message with the same low 11 bits share *)
(* it.  A file sets the tables item by item and can throw in the middle.   *)
(***************************************************************************)
EXTENDS Integers, Sequences, FiniteSetsExt

CONSTANTS
  MsgId,            (* ids of messages and of commands to the filter       *)
  File,             (* [parses, items] of the configuration files; an item *)
                    (* is [id, decimation, route, depth, ack, stored], the *)
                    (* last one how many of its five settings are stored   *)
                    (* before one of them cannot be converted              *)
  Rate, Route, Depth,
  CounterSize       (* 2^16                                                *)

FileItem == [id : Nat, decimation : Nat, route : Route, depth : Depth, ack : BOOLEAN, stored : 0..5]

PacketFilterAssumption ==
  /\ MsgId \subseteq Nat /\ Rate \subseteq Nat
  /\ File \subseteq [parses : BOOLEAN, items : Seq(FileItem)]
  /\ 0 \in Route /\ 0 \in Depth
  /\ CounterSize \in Nat \ {0}

APID_MASK == 2047
Apid(id) == id % (APID_MASK + 1)
Apids == {Apid(id) : id \in MsgId \cup UNION {{f.items[i].id : i \in DOMAIN f.items} : f \in File}}

VARIABLES
  allowedList_, ackAllowedList_, decimationCounter_, decimationRate_, routingTable_, depthTable_,
  dead,             (* the program divided by zero                         *)
  named,            (* the apids that were last told to be allowed         *)
  whole,            (* the last file was read to its end                   *)
  skipped           (* for each apid, how many of its messages were held   *)
                    (* back since one went on                              *)

decimation == <<decimationCounter_, decimationRate_, skipped>>
switches   == <<allowedList_, ackAllowedList_, named, whole>>
routes     == <<routingTable_, depthTable_>>
vars       == <<decimation, switches, routes, dead>>

All(x) == [a \in Apids |-> x]

-----------------------------------------------------------------------------
(* The items of f that are looked at, and those that store setting k of a. *)
Read(f) == {i \in DOMAIN f.items : \A j \in 1..(i - 1) : f.items[j].stored = 5}

Set(f, k, a) == {i \in Read(f) : Apid(f.items[i].id) = a /\ f.items[i].stored >= k}

(* Its k-th setting, the field of that name: the last item for a counts.   *)
Setting(f, k, a, field, default) ==
  IF Set(f, k, a) = {} THEN default ELSE f.items[Max(Set(f, k, a))][field]

FromJsonAdds(f) ==
  /\ f.parses
  /\ allowedList_' = [a \in Apids |-> allowedList_[a] \/ Set(f, 1, a) # {}]
  /\ decimationRate_' = [a \in Apids |-> Setting(f, 2, a, "decimation", 1)]
  /\ decimationCounter_' = All(0)
  /\ routingTable_' = [a \in Apids |-> Setting(f, 3, a, "route", 0)]
  /\ depthTable_' = [a \in Apids |-> Setting(f, 4, a, "depth", 0)]
  /\ ackAllowedList_' = [a \in Apids |-> Setting(f, 5, a, "ack", ackAllowedList_[a])]
  /\ named' = {Apid(f.items[i].id) : i \in DOMAIN f.items}
  /\ whole' = \A i \in DOMAIN f.items : f.items[i].stored = 5
  /\ UNCHANGED <<dead, skipped>>

(* from_json().  The acknowledgements of earlier files stay.               *)
FromJson(f) ==
  /\ ~dead /\ f.parses
  /\ allowedList_' = [a \in Apids |-> Set(f, 1, a) # {}]
  /\ decimationRate_' = [a \in Apids |-> Setting(f, 2, a, "decimation", 1)]
  /\ decimationCounter_' = All(0)
  /\ routingTable_' = [a \in Apids |-> Setting(f, 3, a, "route", 0)]
  /\ depthTable_' = [a \in Apids |-> Setting(f, 4, a, "depth", 0)]
  /\ ackAllowedList_' = [a \in Apids |-> Setting(f, 5, a, "ack", ackAllowedList_[a])]
  /\ named' = {Apid(f.items[i].id) : i \in DOMAIN f.items}
  /\ whole' = \A i \in DOMAIN f.items : f.items[i].stored = 5
  /\ UNCHANGED <<dead, skipped>>

ModifyFilter(id, ok) ==
  /\ ~dead
  /\ allowedList_' = [allowedList_ EXCEPT ![Apid(id)] = ok]
  /\ named' = IF ok THEN named \cup {Apid(id)} ELSE named \ {Apid(id)}
  /\ UNCHANGED <<decimation, routes, ackAllowedList_, whole, dead>>

ModifyDecimationOnly(id, n) ==
  /\ decimationRate_' = [decimationRate_ EXCEPT ![Apid(id)] = n]
  /\ UNCHANGED <<decimationCounter_, skipped, switches, routes, dead>>

ModifyDecimation(id, n) ==
  /\ ~dead
  /\ decimationRate_' = [decimationRate_ EXCEPT ![Apid(id)] = n]
  /\ decimationCounter_' = [decimationCounter_ EXCEPT ![Apid(id)] = 0]
  /\ UNCHANGED <<skipped, switches, routes, dead>>

ModifyRoute(id, r) ==
  /\ ~dead
  /\ routingTable_' = [routingTable_ EXCEPT ![Apid(id)] = r]
  /\ UNCHANGED <<decimation, switches, depthTable_, dead>>

ModifyDepth(id, d) ==
  /\ ~dead
  /\ depthTable_' = [depthTable_ EXCEPT ![Apid(id)] = d]
  /\ UNCHANGED <<decimation, switches, routingTable_, dead>>

ResetCounters ==
  /\ ~dead
  /\ decimationCounter_' = All(0)
  /\ UNCHANGED <<decimationRate_, skipped, switches, routes, dead>>

Defaults ==
  /\ ~dead
  /\ allowedList_' = All(FALSE) /\ ackAllowedList_' = All(TRUE)
  /\ decimationCounter_' = All(0) /\ decimationRate_' = All(1)
  /\ routingTable_' = All(0) /\ depthTable_' = All(0)
  /\ named' = {} /\ whole' = TRUE
  /\ UNCHANGED <<skipped, dead>>

(* decimated(): the counter is 16 bits wide, and a rate of 0 ends the      *)
(* program.                                                                *)
Decimated(id) ==
  LET a == Apid(id)
  IN  /\ ~dead
      /\ IF decimationRate_[a] = 0
         THEN dead' = TRUE /\ UNCHANGED decimation
         ELSE /\ skipped' = [skipped EXCEPT ![a] =
                    IF decimationCounter_[a] % decimationRate_[a] = 0 THEN 0 ELSE @ + 1]
              /\ decimationCounter_' = [decimationCounter_ EXCEPT ![a] = (@ + 1) % CounterSize]
              /\ UNCHANGED <<decimationRate_, dead>>
      /\ UNCHANGED <<switches, routes>>

(* The constructor leaves the counters and the depths as they are.         *)
Init ==
  /\ allowedList_ = All(FALSE) /\ ackAllowedList_ = All(TRUE)
  /\ decimationCounter_ \in [Apids -> 0..(CounterSize - 1)]
  /\ decimationRate_ = All(1)
  /\ routingTable_ = All(0) /\ depthTable_ \in [Apids -> Depth]
  /\ dead = FALSE /\ named = {} /\ whole = TRUE
  /\ skipped = All(0)

Next ==
  \/ \E f \in File : FromJson(f)
  \/ ResetCounters \/ Defaults
  \/ \E id \in MsgId :
       \/ \E ok \in BOOLEAN : ModifyFilter(id, ok)
       \/ \E n \in Rate : ModifyDecimation(id, n)
       \/ \E r \in Route : ModifyRoute(id, r)
       \/ \E d \in Depth : ModifyDepth(id, d)
       \/ Decimated(id)

Spec == Init /\ [][Next]_vars

-----------------------------------------------------------------------------
TypeOK ==
  /\ allowedList_ \in [Apids -> BOOLEAN] /\ ackAllowedList_ \in [Apids -> BOOLEAN]
  /\ decimationCounter_ \in [Apids -> 0..(CounterSize - 1)]
  /\ decimationRate_ \in [Apids -> Nat]
  /\ named \subseteq Apids
  /\ skipped \in [Apids -> Nat]

(* A message goes on only if the last file that could be parsed names its  *)
(* apid or a command has allowed it since, whatever was loaded before and  *)
(* wherever a load has thrown; after a load to the end all named ones do.  *)
AllowedAsTold ==
  /\ \A a \in Apids : allowedList_[a] => a \in named
  /\ whole => \A a \in named : allowedList_[a]

(* With a rate of n at most n - 1 messages of an apid in a row are held    *)
(* back: not more when the counter wraps, when it starts with what the     *)
(* memory held, or when the rate, the file or the counters change between  *)
(* two messages.                                                           *)
HeldBackBounded ==
  [][\A a \in Apids : skipped'[a] > skipped[a] => skipped'[a] < decimationRate_[a]]_vars
=============================================================================
