------------------------------ MODULE ScriptBank ------------------------------
(***************************************************************************)
(* What the iron bank promises the owners of its scripts, without          *)
(* datagrams and without the one challenge its clients share: a ticket is  *)
(* issued for one name, whoever holds it may use it, it does at most one   *)
(* thing and only with what belongs to that name, and it is worthless as   *)
(* soon as a later one has been issued.                                    *)
(*                                                                         *)
(* cromulence::ironbank::Vault (ironbank/src/IronBank.cpp) is shown to     *)
(* implement this specification in module Vault.                           *)
(***************************************************************************)

CONSTANTS
  Client, Ticket,
  Name, Registered,  (* names a ticket can be for; those that own scripts  *)
  Id, Stored         (* numbers of scripts; the scripts <<name, id>> kept  *)

VARIABLES
  held,              (* the tickets each client was given                  *)
  owner,             (* the name each ticket is for                        *)
  state,             (* "new", "open", "overtaken" or "used"               *)
  run, download,     (* scripts in the run area and in the download area   *)
  flags              (* names whose flag was written                       *)

areas    == <<run, download, flags>>
bankVars == <<held, owner, state, areas>>

-----------------------------------------------------------------------------
Init ==
  /\ held = [c \in Client |-> {}]
  /\ owner = [t \in Ticket |-> ""]
  /\ state = [t \in Ticket |-> "new"]
  /\ run = {} /\ download = {} /\ flags = {}

(* Client c asks for a ticket for n and gets it, unless it is lost; the    *)
(* ticket that was open is so no more, whoever holds that.                 *)
Issue(c, t, n) ==
  /\ state[t] = "new"
  /\ state' = [k \in Ticket |-> IF k = t THEN "open"
                                ELSE IF state[k] = "open" THEN "overtaken" ELSE state[k]]
  /\ owner' = [owner EXCEPT ![t] = n]
  /\ held' \in {held, [held EXCEPT ![c] = @ \cup {t}]}
  /\ UNCHANGED areas

Holds(c, t) == t \in held[c] /\ state[t] = "open"

Load(s) ==
  /\ s \in Stored
  /\ run' = {s}
  /\ UNCHANGED <<download, flags>>

Download(s) ==
  /\ s \in Stored \ download
  /\ download' = download \cup {s}
  /\ UNCHANGED <<run, flags>>

WriteFlag(n) ==
  /\ flags' = flags \cup {n}
  /\ UNCHANGED <<run, download>>

(* The open ticket is used up, for a script or the flag of its owner or    *)
(* for nothing.                                                            *)
Use(c, t) ==
  /\ Holds(c, t)
  /\ state' = [state EXCEPT ![t] = "used"]
  /\ \/ /\ owner[t] \in Registered
        /\ \/ \E id \in Id : Load(<<owner[t], id>>) \/ Download(<<owner[t], id>>)
           \/ WriteFlag(owner[t])
     \/ UNCHANGED areas
  /\ UNCHANGED <<held, owner>>

(* A script that is not there cannot be loaded: the run area is left empty *)
(* and the ticket is still good.                                           *)
FailToLoad(c, t) ==
  /\ Holds(c, t)
  /\ owner[t] \in Registered
  /\ \E id \in Id : <<owner[t], id>> \notin Stored
  /\ run' = {}
  /\ UNCHANGED <<held, owner, state, download, flags>>

Next ==
  \E c \in Client, t \in Ticket :
    \/ \E n \in Name : Issue(c, t, n)
    \/ Use(c, t)
    \/ FailToLoad(c, t)

Spec == Init /\ [][Next]_bankVars
=============================================================================
