---------------------------------- MODULE CppBase ----------------------------------
(***************************************************************************)
(* The classes of cpp_base that have an owner each and share nothing: an   *)
(* application (ASyncApp), its children (SubProcess), a packet filter, a   *)
(* state machine, and an application that wakes by itself (FrameApp).      *)
(* subject names the one that runs: their states add up.                   *)
(***************************************************************************)
EXTENDS ASyncApp

CONSTANTS
  Child, Null, Nobody, Id, Root, Identity, RetryLimit,
  Ordinary,         (* an identity, of a process that is not the subject   *)
  MsgId, File, Rate, Route, Depth, CounterSize,
  State, Name, IdOf(_), Error, Empty

VARIABLES
  subject,
  open_, pipe_, lastStatus_, freed, child, told, held, ids, call, count, failed,
  allowedList_, ackAllowedList_, decimationCounter_, decimationRate_, routingTable_, depthTable_,
  dead, named, whole, skipped,
  stateMap_, current_, next_, lastId_, entered, ran,
  kind, framePhase, frameStatus, callback, initialized, frameStop, woken

processVars == <<open_, pipe_, lastStatus_, freed, child, told, held, ids, call, count, failed>>
filterVars  == <<allowedList_, ackAllowedList_, decimationCounter_, decimationRate_, routingTable_,
                 depthTable_, dead, named, whole, skipped>>
stateVars   == <<stateMap_, current_, next_, lastId_, entered, ran>>
frameVars   == <<kind, framePhase, frameStatus, callback, initialized, frameStop, woken>>

Process == INSTANCE SubProcess
Filter  == INSTANCE PacketFilter
States  == INSTANCE StateMachine
Frame   == INSTANCE FrameApp WITH phase <- framePhase, runStatus_ <- frameStatus, stopAsked <- frameStop

ASSUME CppBaseAssumption ==
  /\ Process!SubProcessAssumption /\ Filter!PacketFilterAssumption /\ States!StateMachineAssumption
  /\ Ordinary \in Identity

all == <<subject, vars, processVars, filterVars, stateVars, frameVars>>

CppBaseInit ==
  /\ subject \in {"app", "process", "filter", "states", "frame"}
  /\ Init /\ Process!Init /\ Filter!Init /\ States!Init /\ Frame!Init
  /\ subject # "process" => ids[Nobody] = Ordinary
  /\ subject # "filter" => decimationCounter_ = [a \in Filter!Apids |-> 0]
  /\ subject # "frame" => kind = "rate"

AppStep(A)     == subject = "app" /\ A
                    /\ UNCHANGED <<subject, processVars, filterVars, stateVars, frameVars>>
ProcessStep(A) == subject = "process" /\ A
                    /\ UNCHANGED <<subject, vars, filterVars, stateVars, frameVars>>
FilterStep     == subject = "filter" /\ Filter!Next
                    /\ UNCHANGED <<subject, vars, processVars, stateVars, frameVars>>
StatesStep     == subject = "states" /\ States!Next
                    /\ UNCHANGED <<subject, vars, processVars, filterVars, frameVars>>
FrameStep(A)   == subject = "frame" /\ A
                    /\ UNCHANGED <<subject, vars, processVars, filterVars, stateVars>>

CppBaseNext ==
  AppStep(Next) \/ ProcessStep(Process!Next) \/ FilterStep \/ StatesStep \/ FrameStep(Frame!Next)

(* Each task that runs code of the subject is scheduled.                   *)
CppBaseSpec ==
  /\ CppBaseInit /\ [][CppBaseNext]_all
  /\ WF_all(AppStep(Execute))
  /\ WF_all(ProcessStep(Process!InsideCall))
  /\ WF_all(FrameStep(Frame!Execute))

(* The type invariants of the five modules.                                *)
CppBaseTypeOK == TypeOK /\ Process!TypeOK /\ Filter!TypeOK /\ States!TypeOK /\ Frame!TypeOK

(* Messages are executed once, in order, by the handler that was           *)
(* registered first for them.                                              *)
ExecutedAsRegistered == ExecutedInOrder /\ FirstRegisteredRuns

(* SubProcess: at most one child runs untold, descriptors are known to     *)
(* their owner, and no child keeps the rights of root.                     *)
ChildrenAccounted ==
  CppBaseTypeOK /\ Process!OneUnlessTold /\ Process!PipesAccounted /\ Process!ChildrenUnprivileged

(* SubProcess: what stop() and the reader find behind open_ is there,      *)
(* except after a run() that failed.                                       *)
StopIsSafe == Process!StopIsSafe

(* PacketFilter: packets pass as the tables were told, and no packet is    *)
(* held back for longer than its decimation rate says.                     *)
FilterAsTold == []Filter!AllowedAsTold /\ Filter!HeldBackBounded

(* StateMachine: a state runs only after it was entered, but for the two   *)
(* names that stand for no state in lastId_.                               *)
EnteredFirst == States!EnteredFirst

(* SubProcess and FrameApp: every wait for a child returns, and every      *)
(* frame application that is asked to stop ends.                           *)
LoopsEnd == Process!WaitReturns /\ Frame!EndsWhenAsked
=============================================================================
