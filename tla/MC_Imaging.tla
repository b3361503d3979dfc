------------------------------ MODULE MC_Imaging ------------------------------
(* Two positions, two time scales and two zones for GeofenceApp: zone z1   *)
(* holds everything seen from p1, zone z2 what is seen from p2 under the   *)
(* second time scale, and nothing holds the rest.  Four geofence files: a  *)
(* good default, one more zone, one that stops after its first zone, and   *)
(* one that does not parse.                                                *)
EXTENDS Imaging

CONSTANTS p1, p2, o1, o2, z1, z2, dir1, dir2

MCInside(zone, pos, att_) ==
  \/ zone = z1 /\ pos = p1
  \/ zone = z2 /\ pos = p2 /\ att_ # Unset /\ att_[2] = o2

Default   == [path |-> dir1,  zones |-> <<z1>>, bad |-> FALSE]
Other     == [path |-> dir2,  zones |-> <<z2>>, bad |-> FALSE]
Truncated == [path |-> dir2,  zones |-> <<z2>>, bad |-> TRUE]
NoJson    == [path |-> Unset, zones |-> <<>>,   bad |-> TRUE]

(* A computed fix, one without a solution, a log nobody parses, and a      *)
(* sentence cut short.                                                     *)
MCSentence ==
  {[id |-> "BESTPOSA", wellFormed |-> TRUE, solved |-> TRUE, at |-> p2],
   [id |-> "BESTPOSA", wellFormed |-> TRUE, solved |-> FALSE, at |-> p1],
   [id |-> "other", wellFormed |-> TRUE, solved |-> TRUE, at |-> p1],
   [id |-> "BESTPOSA", wellFormed |-> FALSE, solved |-> TRUE, at |-> p1]}

MCFence == {Default, Other, Truncated, NoJson}
=============================================================================
