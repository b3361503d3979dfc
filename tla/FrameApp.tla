-------------------------------- MODULE FrameApp --------------------------------
(***************************************************************************)
(* RateApp, ClockFrameApp and TimerApp (cpp_base): the applications that   *)
(* wake by themselves.  A RateApp works in its loop; the other two are     *)
(* called back by cFE at every synchronisation tone, on cFE's own task.    *)
(* ClockFrameApp takes its callback back under the address of the member   *)
(* that holds it, which cFE does not know; TimerApp hands in the address   *)
(* of a lambda object, which is no code.                                   *)
(***************************************************************************)
EXTENDS Integers

VARIABLES
  kind,             (* "rate", "clock" or "timer"                          *)
  phase,            (* where execute() is                                  *)
  runStatus_,
  callback,         (* what cFE calls at a tone: "none", "code" or "data"  *)
  initialized,      (* initialize() has returned                           *)
  stopAsked,
  woken             (* whether the last step did the application's work    *)

vars == <<kind, phase, runStatus_, callback, initialized, stopAsked, woken>>

AskStop ==
  /\ ~stopAsked /\ stopAsked' = TRUE /\ woken' = FALSE
  /\ UNCHANGED <<kind, phase, runStatus_, callback, initialized>>

(* CFE_ES_RegisterApp(), initialize() and the registration of the callback *)
Register ==
  /\ phase = "register"
  /\ phase' \in {"initialize", "loop"}
  /\ woken' = FALSE
  /\ UNCHANGED <<kind, runStatus_, callback, initialized, stopAsked>>

Initialize ==
  /\ phase = "initialize"
  /\ initialized' = TRUE
  /\ callback' = IF kind = "rate" THEN "none" ELSE IF kind = "clock" THEN "code" ELSE "data"
  /\ runStatus_' = "RUN"
  /\ phase' = "loop" /\ woken' = FALSE
  /\ UNCHANGED <<kind, stopAsked>>

LoopDeaf ==
  /\ phase = "loop"
  /\ phase' = IF runStatus_ = "RUN" THEN "loop" ELSE "shutdown"
  /\ woken' = (kind = "rate" /\ phase' = "loop")
  /\ UNCHANGED <<kind, runStatus_, callback, initialized, stopAsked>>

(* CFE_ES_RunLoop(), and atRate() of a RateApp.                            *)
Loop ==
  /\ phase = "loop"
  /\ phase' = IF runStatus_ = "RUN" /\ ~stopAsked THEN "loop" ELSE "shutdown"
  /\ woken' = (kind = "rate" /\ phase' = "loop")
  /\ UNCHANGED <<kind, runStatus_, callback, initialized, stopAsked>>

(* RateApp::stop()                                                         *)
Stop ==
  /\ kind = "rate" /\ phase = "loop"
  /\ runStatus_' = "EXIT" /\ woken' = FALSE
  /\ UNCHANGED <<kind, phase, callback, initialized, stopAsked>>

(* The tone.  Data that is called as code ends the program.                *)
Tone ==
  /\ callback # "none"
  /\ IF callback = "code" THEN woken' = TRUE /\ UNCHANGED phase
                          ELSE woken' = FALSE /\ phase' = "crashed"
  /\ callback' = IF callback = "code" THEN "code" ELSE "none"
  /\ UNCHANGED <<kind, runStatus_, initialized, stopAsked>>

(* CFE_TIME_UnregisterSynchCallback(), shutdown(), CFE_ES_ExitApp().       *)
Shutdown ==
  /\ phase = "shutdown"
  /\ callback' = IF kind = "timer" THEN "none" ELSE callback
  /\ phase' = "gone" /\ woken' = FALSE
  /\ UNCHANGED <<kind, runStatus_, initialized, stopAsked>>

Execute == Register \/ Initialize \/ Loop \/ Shutdown

Init ==
  /\ kind \in {"rate", "clock", "timer"}
  /\ phase = "register" /\ runStatus_ = "ERROR" /\ callback = "none"
  /\ initialized = FALSE /\ stopAsked = FALSE /\ woken = FALSE

Next == Execute \/ Stop \/ Tone \/ AskStop

Spec == Init /\ [][Next]_vars
FairSpec == Spec /\ WF_vars(Execute)

-----------------------------------------------------------------------------
TypeOK ==
  /\ kind \in {"rate", "clock", "timer"}
  /\ phase \in {"register", "initialize", "loop", "shutdown", "gone", "crashed"}
  /\ runStatus_ \in {"ERROR", "RUN", "EXIT"}
  /\ callback \in {"none", "code", "data"}
  /\ {initialized, stopAsked, woken} \subseteq BOOLEAN

(* Each of the three applications ends when cFE asks it to, whatever comes *)
(* from the tones in between.                                              *)
EndsWhenAsked == stopAsked ~> phase \in {"gone", "crashed"}
=============================================================================
