-------------------------------- MODULE ASyncApp --------------------------------
(***************************************************************************)
(* cromulence::ASyncApp (cpp_base), the base of the flight applications:   *)
(* execute() registers with cFE, lets the application initialize, then     *)
(* takes messages from its software-bus pipe until cFE asks it to stop.    *)
(* Other tasks post to the pipe all the while.  initialize() and every     *)
(* handler may throw; cFE calls may fail.                                  *)
(*                                                                         *)
(* initialize() is the sequence Registrations of add_cmd_handler ("cmd"),  *)
(* add_tlm_handler ("tlm") and bare subscribe ("raw") calls it makes.  A   *)
(* handler is the index of the call that registered it.                    *)
(***************************************************************************)
EXTENDS Integers, Sequences, FiniteSets

CONSTANTS
  Registrations,    (* [kind, id, fcn] in the order of initialize()        *)
  Message,          (* [id, fcn] messages other tasks post                 *)
  pipeDepth_,
  MaxPosts          (* bound: messages posted                              *)

Registered(kind) == {i \in DOMAIN Registrations : Registrations[i].kind = kind}
Ids  == {m.id : m \in Message} \cup {r.id : r \in {Registrations[i] : i \in DOMAIN Registrations}}
Fcns == {m.fcn : m \in Message} \cup {r.fcn : r \in {Registrations[i] : i \in DOMAIN Registrations}}

(* "Our app is allowed a single command ID" (ASyncApp.cpp:185).  cmdId_     *)
(* starts as 0, which is no message's id: "none" here.                     *)
ASSUME ASyncAppAssumption ==
  /\ Registrations \in Seq([kind : {"cmd", "tlm", "raw"}, id : Ids, fcn : Fcns])
  /\ Message \subseteq [id : Ids, fcn : Fcns] /\ "none" \notin Ids
  /\ pipeDepth_ \in Nat \ {0} /\ MaxPosts \in Nat
  /\ \A i, j \in Registered("cmd") : Registrations[i].id = Registrations[j].id
  /\ \A i \in Registered("cmd"), j \in Registered("tlm") :
       Registrations[i].id # Registrations[j].id

VARIABLES
  phase,                        (* where execute() is                      *)
  step,                         (* registrations made so far               *)
  runStatus_, pipeCreated_,
  subscribed,                   (* ids the bus routes to pipe_             *)
  cmdId_, cmdHandlers_, tlmHandlers_,
  pipe,                         (* posted messages, numbered               *)
  stopAsked,                    (* cFE wants the application to exit       *)
  posts,                        (* messages posted, the lost ones included *)
  accepted,                     (* numbers of those that went into a pipe  *)
  handled                       (* <<number, message, handler>> executed   *)

tables == <<pipeCreated_, subscribed, cmdId_, cmdHandlers_, tlmHandlers_>>
bus    == <<pipe, posts, accepted>>
vars   == <<phase, step, runStatus_, tables, bus, stopAsked, handled>>

None      == 0      (* no handler, and the command id before any command   *)
Unhandled == -1     (* "Unhandled command rcvd"                            *)
Default   == -2     (* defaultHandler_                                     *)

-----------------------------------------------------------------------------
Init ==
  /\ phase = "register" /\ step = 0 /\ runStatus_ = "ERROR"
  /\ pipeCreated_ = FALSE /\ subscribed = {}
  /\ cmdId_ = "none"
  /\ cmdHandlers_ = [f \in Fcns |-> None] /\ tlmHandlers_ = [id \in Ids |-> None]
  /\ pipe = <<>> /\ posts = 0 /\ accepted = {}
  /\ stopAsked = FALSE
  /\ handled = <<>>

(* Another task sends a message: the bus copies it into the pipe if this   *)
(* application subscribed to it and there is room, and drops it if not.    *)
Post(m) ==
  /\ posts < MaxPosts
  /\ posts' = posts + 1
  /\ IF m.id \in subscribed /\ Len(pipe) < pipeDepth_
     THEN /\ pipe' = Append(pipe, <<posts + 1, m>>)
          /\ accepted' = accepted \cup {posts + 1}
     ELSE UNCHANGED <<pipe, accepted>>
  /\ UNCHANGED <<phase, step, runStatus_, tables, stopAsked, handled>>

AskStop ==
  /\ stopAsked' = TRUE
  /\ UNCHANGED <<phase, step, runStatus_, tables, bus, handled>>

(* CFE_ES_RegisterApp(): without it initialize() is never called.          *)
RegisterApp ==
  /\ phase = "register"
  /\ phase' \in {"initialize", "check"}
  /\ UNCHANGED <<step, runStatus_, tables, bus, stopAsked, handled>>

(* subscribe_ex(): tries to make the pipe unless there is one; a failure   *)
(* of this or of the subscription is reported and initialize() goes on.    *)
Subscribe(id) ==
  /\ pipeCreated_' \in {pipeCreated_, TRUE}
  /\ subscribed' \in IF pipeCreated_' THEN {subscribed, subscribed \cup {id}} ELSE {subscribed}

InsertOverwrites(map, key, handler) == [map EXCEPT ![key] = handler]

(* unordered_map::insert keeps what is there.                              *)
Insert(map, key, handler) == [map EXCEPT ![key] = IF @ = None THEN handler ELSE @]

AddHandlerLate(i) ==
  LET r == Registrations[i]
  IN  /\ Subscribe(cmdId_)
      /\ cmdId_' = IF r.kind = "cmd" THEN r.id ELSE cmdId_
      /\ cmdHandlers_' = IF r.kind = "cmd" THEN Insert(cmdHandlers_, r.fcn, i) ELSE cmdHandlers_
      /\ tlmHandlers_' = IF r.kind = "tlm" THEN Insert(tlmHandlers_, r.id, i) ELSE tlmHandlers_

(* add_cmd_handler(), add_tlm_handler() and subscribe().                   *)
AddHandler(i) ==
  LET r == Registrations[i]
  IN  /\ Subscribe(r.id)
      /\ cmdId_' = IF r.kind = "cmd" THEN r.id ELSE cmdId_
      /\ cmdHandlers_' = IF r.kind = "cmd" THEN Insert(cmdHandlers_, r.fcn, i) ELSE cmdHandlers_
      /\ tlmHandlers_' = IF r.kind = "tlm" THEN Insert(tlmHandlers_, r.id, i) ELSE tlmHandlers_

Initialize ==
  /\ phase = "initialize" /\ step < Len(Registrations)
  /\ step' = step + 1
  /\ AddHandler(step + 1)
  /\ UNCHANGED <<phase, runStatus_, bus, stopAsked, handled>>

InitializeReturns ==
  /\ phase = "initialize" /\ step = Len(Registrations)
  /\ runStatus_' = "RUN"
  /\ phase' = "check"
  /\ UNCHANGED <<step, tables, bus, stopAsked, handled>>

(* initialize() throws anywhere: the subscriptions made so far stay.       *)
InitializeThrows ==
  /\ phase = "initialize"
  /\ runStatus_' = "ERROR"
  /\ phase' = "check"
  /\ UNCHANGED <<step, tables, bus, stopAsked, handled>>

(* CFE_ES_RunLoop(): true only while the application reports RUN and cFE   *)
(* has not asked it to stop.                                               *)
RunLoop ==
  /\ phase = "check"
  /\ phase' = IF runStatus_ = "RUN" /\ ~stopAsked THEN "receive" ELSE "shutdown"
  /\ UNCHANGED <<step, runStatus_, tables, bus, stopAsked, handled>>

(* processMessage()                                                        *)
Handler(m) ==
  IF m.id = cmdId_
  THEN IF cmdHandlers_[m.fcn] # None THEN cmdHandlers_[m.fcn] ELSE Unhandled
  ELSE IF tlmHandlers_[m.id] # None THEN tlmHandlers_[m.id] ELSE Default

Executed(posted) == <<posted[1], posted[2], Handler(posted[2])>>

ReceiveUncaught ==
  /\ phase = "receive" /\ pipe # <<>>
  /\ pipe' = Tail(pipe)
  /\ handled' = Append(handled, Executed(Head(pipe)))
  /\ phase' \in {"check", "gone"}
  /\ UNCHANGED <<step, runStatus_, tables, posts, accepted, stopAsked>>

ReceiveRetries ==
  /\ phase = "receive" /\ pipe # <<>>
  /\ pipe' \in {pipe, Tail(pipe)}
  /\ handled' = Append(handled, Executed(Head(pipe)))
  /\ phase' = "check"
  /\ UNCHANGED <<step, runStatus_, tables, posts, accepted, stopAsked>>

(* The handler runs; whether it returns or throws, the loop goes on.       *)
Receive ==
  /\ phase = "receive" /\ pipe # <<>>
  /\ pipe' = Tail(pipe)
  /\ handled' = Append(handled, Executed(Head(pipe)))
  /\ phase' = "check"
  /\ UNCHANGED <<step, runStatus_, tables, posts, accepted, stopAsked>>

(* CFE_SB_RcvMsg() times out, or fails because there is no pipe: in either *)
(* case, and when processTimeout() throws, only the loop goes on.          *)
Timeout ==
  /\ phase = "receive" /\ pipe = <<>>
  /\ phase' = "check"
  /\ UNCHANGED <<step, runStatus_, tables, bus, stopAsked, handled>>

(* shutdown() and CFE_ES_ExitApp(), which deletes the application's pipes. *)
Shutdown ==
  /\ phase = "shutdown"
  /\ phase' = "gone"
  /\ pipe' = <<>> /\ subscribed' = {} /\ pipeCreated_' = FALSE
  /\ UNCHANGED <<step, runStatus_, cmdId_, cmdHandlers_, tlmHandlers_, posts, accepted,
                 stopAsked, handled>>

Execute == RegisterApp \/ Initialize \/ InitializeReturns \/ InitializeThrows \/ RunLoop
             \/ Receive \/ Timeout \/ Shutdown

Next == Execute \/ (\E m \in Message : Post(m)) \/ AskStop

Spec == Init /\ [][Next]_vars

(* The application's task is scheduled; nobody has to post or to stop it.  *)
FairSpec == Spec /\ WF_vars(Execute)

-----------------------------------------------------------------------------
HandlerOrNone == DOMAIN Registrations \cup {None}

(* Types; the pipe holds accepted messages and no more than its depth.     *)
TypeOK ==
  /\ phase \in {"register", "initialize", "check", "receive", "shutdown", "gone"}
  /\ step \in 0..Len(Registrations)
  /\ runStatus_ \in {"ERROR", "RUN"}
  /\ pipeCreated_ \in BOOLEAN /\ stopAsked \in BOOLEAN
  /\ subscribed \subseteq Ids /\ cmdId_ \in Ids \cup {"none"}
  /\ cmdHandlers_ \in [Fcns -> HandlerOrNone] /\ tlmHandlers_ \in [Ids -> HandlerOrNone]
  /\ posts \in 0..MaxPosts /\ accepted \subseteq 1..posts
  /\ pipe \in Seq(accepted \X Message) /\ Len(pipe) <= pipeDepth_
  /\ handled \in Seq(accepted \X Message \X (HandlerOrNone \cup {Unhandled, Default}))

(* Messages are executed in the order they were posted and none twice, a   *)
(* handler that throws included; what was accepted is executed or waits,   *)
(* until the application is gone.                                          *)
ExecutedInOrder ==
  /\ \A i, j \in DOMAIN handled : i < j => handled[i][1] < handled[j][1]
  /\ \A i \in DOMAIN handled, j \in DOMAIN pipe : handled[i][1] < pipe[j][1]
  /\ phase # "gone" =>
       accepted = {handled[i][1] : i \in DOMAIN handled} \cup {pipe[j][1] : j \in DOMAIN pipe}

(* A message of a kind that initialize() registered goes to the first      *)
(* handler registered for it, whatever happened at other registrations.    *)
For(m) == {i \in DOMAIN Registrations :
             /\ Registrations[i].id = m.id
             /\ \/ Registrations[i].kind = "tlm"
                \/ Registrations[i].kind = "cmd" /\ Registrations[i].fcn = m.fcn}

FirstRegisteredRuns ==
  \A i \in DOMAIN handled :
    LET m == handled[i][2]
    IN  IF For(m) = {} THEN handled[i][3] < 0
        ELSE handled[i][3] \in For(m) /\ \A h \in For(m) : handled[i][3] <= h

(* A handler that throws does not cost the messages behind it: what the    *)
(* pipe accepted is executed, unless the application was stopped or never  *)
(* got going.                                                              *)
AcceptedIsExecuted ==
  \A n \in 1..MaxPosts :
    n \in accepted ~> \/ \E i \in DOMAIN handled : handled[i][1] = n
                      \/ stopAsked
                      \/ phase \in {"shutdown", "gone"} /\ runStatus_ = "ERROR"
=============================================================================
