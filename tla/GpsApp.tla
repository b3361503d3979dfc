-------------------------------- MODULE GpsApp --------------------------------
(***************************************************************************)
(* cromulence::gps::GpsApp (gps/src): asks the receiver for its position   *)
(* every so many heartbeats, and publishes what the receiver answers.      *)
(* One action per message handler.  polling_cfg() is registered nowhere,   *)
(* so nothing ever sets blocked_ (Gps.cpp:20-35).                          *)
(***************************************************************************)
EXTENDS Integers, Sequences

CONSTANTS
  DEFAULT_HEARTBEAT_FRAMES,
  Rate,             (* what a ConfigMsg may say of polling_rate            *)
  Sentence,         (* what the receiver sends: which log it is (id),      *)
                    (* thirty fields with numbers where they belong or not *)
                    (* (wellFormed), a solution computed or not (solved),  *)
                    (* and the position (at)                               *)
  NoFix             (* what becomes of a sentence that is thrown away      *)

VARIABLES
  gpsStatus,        (* "starting", "running", or "trapped" by a division   *)
  gps,              (* framesPerRequest_, frameCounter_, blocked_ and      *)
                    (* pollingOn_; requestCount_ only numbers the requests *)
  gpsQuiet          (* heartbeats since a request or a change of polling   *)

Fresh0 == [framesPerRequest |-> DEFAULT_HEARTBEAT_FRAMES, frameCounter |-> 0,
           blocked |-> FALSE, pollingOn |-> FALSE]

Init == gpsStatus = "starting" /\ gps = Fresh0 /\ gpsQuiet = 0

Running == gpsStatus = "running"

Initialize ==
  /\ gpsStatus = "starting" /\ gpsStatus' = "running"
  /\ gps' = Fresh0 /\ gpsQuiet' = 0

Reset ==
  /\ Running
  /\ gps' = Fresh0 /\ gpsQuiet' = 0
  /\ UNCHANGED gpsStatus

Config(enabled, rate) ==
  /\ Running
  /\ gps' = [gps EXCEPT !.pollingOn = enabled, !.framesPerRequest = rate, !.frameCounter = 0]
  /\ gpsQuiet' = 0
  /\ UNCHANGED gpsStatus

(* on_pps() counts the heartbeat, and then asks when the count is due.     *)
Due ==
  /\ ~gps.blocked /\ gps.pollingOn
  /\ gps.framesPerRequest > 0 /\ (gps.frameCounter + 1) % gps.framesPerRequest = 0

OnPpsSends == IF Due THEN <<"NovatelCmd">> ELSE <<>>

(* With a rate of 0 the remainder traps, or (on a processor that does not  *)
(* trap) is the counter itself, which is not 0.                            *)
OnPps ==
  /\ Running
  /\ gps' = [gps EXCEPT !.frameCounter = @ + 1]
  /\ gpsQuiet' = IF Due THEN 0 ELSE gpsQuiet + 1
  /\ \/ UNCHANGED gpsStatus
     \/ ~gps.blocked /\ gps.pollingOn /\ gps.framesPerRequest = 0 /\ gpsStatus' = "trapped"

(* NovatelDeSerializer: picks the parser by the first field; what a parser *)
(* throws is caught, and BestPos converts everything before it sends.      *)
Deserialized(s) == IF s.id = "BESTPOSA" /\ s.wellFormed THEN s.at ELSE NoFix

(* raw_gps(): a fix goes out as geodetic and as Cartesian coordinates,     *)
(* whether or not the receiver had a solution.                             *)
RawGpsSends(s) == IF Deserialized(s) = NoFix THEN <<>> ELSE <<<<"Geodetic", s.at>>, <<"Ecef", s.at>>>>

RawGps == Running /\ UNCHANGED <<gpsStatus, gps, gpsQuiet>>

-----------------------------------------------------------------------------
TypeOK ==
  /\ gpsStatus \in {"starting", "running", "trapped"}
  /\ gps \in [framesPerRequest : Rate \cup {DEFAULT_HEARTBEAT_FRAMES}, frameCounter : Nat,
              blocked : BOOLEAN, pollingOn : BOOLEAN]
  /\ gpsQuiet \in Nat

(* While polling is on at a rate that is not 0, no run of heartbeats as    *)
(* long as the rate goes by without a request (on_pps()).                  *)
RequestsKeepComing ==
  Running /\ gps.pollingOn /\ ~gps.blocked /\ gps.framesPerRequest > 0 =>
    gpsQuiet < gps.framesPerRequest
=============================================================================
