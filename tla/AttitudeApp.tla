------------------------------ MODULE AttitudeApp ------------------------------
(***************************************************************************)
(* cromulence::attitude::AttitudeApp (attitude/src): asks the control      *)
(* board for its state every so many heartbeats, and passes pointing       *)
(* requests on to it.  One action per registered message handler; the      *)
(* handler of the board's own reports is commented out (Attitude.cpp:35).  *)
(***************************************************************************)
EXTENDS Integers, Sequences

CONSTANTS
  FRAMES,           (* the rate at the start                               *)
  FrameCount,       (* what a ConfigMsg may say of frame_count             *)
  Pointing          (* quaternions asked for                               *)

VARIABLES
  attStatus,        (* "starting", "running", or "trapped" by a division   *)
  att,              (* enabled_, blocked_, counter_, framesPerRequest_;    *)
                    (* maxBlind_ is written and never read                 *)
  attQuiet          (* heartbeats since a request or a change of polling   *)

AtStart == [enabled |-> FALSE, blocked |-> FALSE, counter |-> 0, framesPerRequest |-> FRAMES]

Init == attStatus = "starting" /\ att = AtStart /\ attQuiet = 0

Running == attStatus = "running"

Initialize ==
  /\ attStatus = "starting" /\ attStatus' = "running"
  /\ att' = AtStart /\ attQuiet' = 0

Reset ==
  /\ Running
  /\ att' = AtStart /\ attQuiet' = 0
  /\ UNCHANGED attStatus

(* config(): the counter goes on.                                          *)
Config(enabled, frames) ==
  /\ Running
  /\ att' = [att EXCEPT !.enabled = enabled, !.framesPerRequest = frames]
  /\ attQuiet' = 0
  /\ UNCHANGED attStatus

PollingTlm(allowed) ==
  /\ Running
  /\ att' = [att EXCEPT !.blocked = ~allowed]
  /\ attQuiet' = 0
  /\ UNCHANGED attStatus

(* attitude_cmd(): the board is told twice.  attitude_request(): the       *)
(* prohibition to poll does not keep it back.                              *)
AttitudeCmd(q) == <<<<"AcbPoint", q>>, <<"AcbPoint", q>>, <<"AttitudeCommand", q>>>>

AttitudeRequestSends(q) == IF att.enabled THEN AttitudeCmd(q) ELSE <<>>

AttitudeRequest == Running /\ UNCHANGED <<attStatus, att, attQuiet>>

DueOnce ==
  att.counter + 1 = att.framesPerRequest /\ att.enabled /\ ~att.blocked

(* on_heartbeat() counts, and then asks when the count is due.             *)
Due ==
  /\ att.framesPerRequest > 0 /\ (att.counter + 1) % att.framesPerRequest = 0
  /\ att.enabled /\ ~att.blocked

OnHeartbeatSends == IF Due THEN <<"AcbGetTlm">> ELSE <<>>

(* It divides before it looks at enabled_, so a rate of 0 traps on the     *)
(* next heartbeat (or, where a division does not trap, asks for nothing)   *)
(* even with polling off.                                                  *)
OnHeartbeat ==
  /\ Running
  /\ att' = [att EXCEPT !.counter = @ + 1]
  /\ attQuiet' = IF Due THEN 0 ELSE attQuiet + 1
  /\ \/ UNCHANGED attStatus
     \/ att.framesPerRequest = 0 /\ attStatus' = "trapped"

-----------------------------------------------------------------------------
TypeOK ==
  /\ attStatus \in {"starting", "running", "trapped"}
  /\ att \in [enabled : BOOLEAN, blocked : BOOLEAN, counter : Nat,
              framesPerRequest : FrameCount \cup {FRAMES}]
  /\ attQuiet \in Nat

(* While polling is on, allowed, and at a rate that is not 0, no run of    *)
(* heartbeats as long as the rate goes by without a request, although the  *)
(* counter is not set back when the rate changes (on_heartbeat()).         *)
RequestsKeepComing ==
  Running /\ att.enabled /\ ~att.blocked /\ att.framesPerRequest > 0 =>
    attQuiet < att.framesPerRequest
=============================================================================
