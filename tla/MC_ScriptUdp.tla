----------------------------- MODULE MC_ScriptUdp -----------------------------
(* What scripts ask in the runs of ScriptUdp: a picture and the camera     *)
(* off; only the picture's argument is a number.                           *)
EXTENDS ScriptUdp

MCBad == 256

MCToId(text) == IF text = "7" THEN 7 ELSE MCBad

MCCommand == {[op |-> "SNAP", arg |-> "7"], [op |-> "CAM_POWER", arg |-> "off"]}
=============================================================================
