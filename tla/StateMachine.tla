------------------------------ MODULE StateMachine ------------------------------
(***************************************************************************)
(* cromulence::StateMachine (cpp_base/h/StateMachine.h): states are found  *)
(* by name; update() enters a state when the name has changed and runs it. *)
(* enter() and update() of a state may throw, and update() may name a      *)
(* state that was never added.  Nothing keeps a state from having the name *)
(* that lastId_ has before any state has run, or the one it gets after an  *)
(* exception.                                                              *)
(***************************************************************************)
EXTENDS Integers

CONSTANTS
  State,            (* state objects                                       *)
  Name, IdOf(_),    (* the names that occur, and the one of each object    *)
  Error, Empty,     (* what lastId_ says after an exception ("ERROR"), and *)
                    (* at first (""); a state may have such a name         *)
  Null              (* no object                                           *)

StateMachineAssumption ==
  /\ \A s \in State : IdOf(s) \in Name
  /\ Error # Empty /\ Null \notin State

VARIABLES
  stateMap_,        (* the object behind each name, or Null                *)
  current_, next_, lastId_,
  entered,          (* the object whose enter() was the last to return     *)
  ran               (* the object whose update() the last call ran         *)

vars == <<stateMap_, current_, next_, lastId_, entered, ran>>

Known(name) == name \in Name /\ stateMap_[name] # Null

(* add(): map::insert keeps the object that has the name already.          *)
Add(s) ==
  /\ stateMap_' = [stateMap_ EXCEPT ![IdOf(s)] = IF @ = Null THEN s ELSE @]
  /\ ran' = Null
  /\ UNCHANGED <<current_, next_, lastId_, entered>>

ForceStateDirectly(name) ==
  /\ Known(name)
  /\ current_' = stateMap_[name] /\ next_' = name /\ lastId_' = name
  /\ ran' = Null
  /\ UNCHANGED <<stateMap_, entered>>

(* forceState(): an unknown name throws and changes nothing.               *)
ForceState(name) ==
  /\ Known(name)
  /\ current_' = stateMap_[name] /\ next_' = name
  /\ ran' = Null
  /\ UNCHANGED <<stateMap_, lastId_, entered>>

(* What update() does up to the call of the state's own update().          *)
Enters(s) == IF next_ # lastId_ THEN s ELSE entered

UpdateRuns ==
  /\ Known(next_)
  /\ LET s == stateMap_[next_]
     IN  /\ current_' = s /\ ran' = s /\ entered' = Enters(s)
         /\ \/ next_' \in Name /\ lastId_' = next_
            \/ next_' = next_ /\ lastId_' = Error          \* it throws
  /\ UNCHANGED stateMap_

(* The state is unknown, or its enter() throws.                            *)
UpdateFails ==
  /\ next_ # lastId_ \/ ~Known(next_)
  /\ current_' = IF Known(next_) THEN stateMap_[next_] ELSE current_
  /\ lastId_' = Error /\ ran' = Null
  /\ UNCHANGED <<stateMap_, next_, entered>>

Init ==
  /\ stateMap_ = [n \in Name |-> Null]
  /\ current_ = Null /\ next_ = Empty /\ lastId_ = Empty
  /\ entered = Null /\ ran = Null

Next ==
  \/ \E s \in State : Add(s)
  \/ \E n \in Name : ForceState(n)
  \/ UpdateRuns \/ UpdateFails

Spec == Init /\ [][Next]_vars

-----------------------------------------------------------------------------
TypeOK ==
  /\ stateMap_ \in [Name -> State \cup {Null}]
  /\ {current_, entered, ran} \subseteq State \cup {Null}
  /\ next_ \in Name \cup {Empty} /\ lastId_ \in Name \cup {Empty, Error}

(* A state runs only if its own enter() has returned and no other state's  *)
(* has since: not after an enter() that threw, nor after a jump by         *)
(* forceState(), nor when an exception has hidden the last state.  The two *)
(* names that update() itself writes into lastId_ are the exception: a     *)
(* state "ERROR" may run on unentered after an exception, and a state ""   *)
(* as long as no state was entered, but not after that.                    *)
EnteredFirst ==
  ran # Null => \/ entered = ran
                \/ IdOf(ran) = Error
                \/ IdOf(ran) = Empty /\ entered = Null
=============================================================================
