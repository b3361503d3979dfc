------------------------------ MODULE GeofenceApp ------------------------------
(***************************************************************************)
(* cromulence::geofence::GeofenceApp and its Geofence (geofence/src): the  *)
(* only way from a team's request to the camera.  A picture is taken only  *)
(* when the application is not blocked, the last use of the camera is old  *)
(* enough, both measurements are young enough and the point in view lies   *)
(* in none of the restricted zones.                                        *)
(*                                                                         *)
(* One action per message handler; the handlers run one at a time on the   *)
(* application's own task (ASyncApp).  The geometry of calcRestricted is   *)
(* the predicate Inside; a handler reads the clock once.                   *)
(***************************************************************************)
EXTENDS Integers, Sequences

CONSTANTS
  Team, NoTeam,       (* team names; the empty name before any team is set *)
  ImageId,            (* the image numbers of requests                     *)
  Position, Attitude, (* what a gps fix and a control-board report measure *)
  Offset,             (* leap seconds and UT1 as TimeOffsetsMsg sets them  *)
  Unset,              (* a member no constructor initialises               *)
  Inside(_, _, _),    (* is the point in view at a position, under an      *)
                      (* attitude with its time scale, inside a zone?      *)
  Fence,              (* what a geofence file can hold: its download path  *)
                      (* (Unset when the file does not parse), its zones   *)
                      (* up to the first bad one, and whether one is bad   *)
  ANTI_SPAM_INTERVAL, MEASURE_TIMEOUT,
  Launch, MaxTime,    (* the clock at start, and a bound on it             *)
  MaxLoads            (* bound: how many geofence files are read           *)

Zones == UNION {{f.zones[i] : i \in DOMAIN f.zones} : f \in Fence}

ASSUME FenceAssumption ==
  \A f \in Fence :
    /\ DOMAIN f = {"path", "zones", "bad"}
    /\ f.zones \in Seq(Zones)
    /\ f.bad \in BOOLEAN
    /\ f.path = Unset => f.bad

ASSUME ClockAssumption ==
  /\ ANTI_SPAM_INTERVAL \in Nat
  /\ MEASURE_TIMEOUT \in Nat
  /\ Launch \in Nat /\ MaxTime \in Nat
  /\ Launch > MEASURE_TIMEOUT

ASSUME UnsetAssumption == Unset \notin Position /\ Unset \notin Attitude \X Offset

VARIABLES
  status,       (* "starting", "running", or "failed" when initialize threw *)
  now,          (* system_clock                                            *)
  mark_,        (* when the camera or the archive was last used            *)
  blocked_, team_,
  position,     (* posEcef_                                                *)
  attitude,     (* D_i_b_ with astroTime_, as of the last report           *)
  lastPosTime_, lastQTime_,
  offsets,      (* ts_                                                     *)
  restricted_,  (* the zones, in the order they are tested                 *)
  downloadPath_,
  sent,         (* the messages the last handler published                 *)
  loads,
  (* what the properties remember                                          *)
  heard,        (* when the position and the attitude in use came in        *)
  lastUse,      (* when an image was last taken or fetched                 *)
  known,        (* every zone any file has ever named                      *)
  allowed       (* "yes", "no", or "reset": the last word on polling       *)

measured == <<position, attitude, lastPosTime_, lastQTime_, offsets, heard>>
fence    == <<restricted_, downloadPath_, loads, known>>
guards   == <<mark_, blocked_, lastUse, allowed>>
vars     == <<status, now, measured, fence, guards, team_, sent>>

-----------------------------------------------------------------------------
Image(id) == <<team_, id>>

ImageSnap(id)    == [op |-> "ImageSnap", img |-> Image(id)]
SnapMeta         == [op |-> "SnapMeta", position |-> position, attitude |-> attitude, team |-> team_]
ImageGet(id)     == [op |-> "ImageGet", img |-> Image(id), path |-> downloadPath_]
RejectedBy(zone) == [op |-> "Rejected", name |-> zone]
CurrentTeam(t)   == [op |-> "CurrentTeam", name |-> t]

(* Whether a list of messages makes the camera or the archive work.        *)
UsesCamera(msgs) == \E i \in DOMAIN msgs : msgs[i].op \in {"ImageSnap", "ImageGet"}
TakesPicture(msgs) == \E i \in DOMAIN msgs : msgs[i].op = "ImageSnap"

FreshPositionOnly == now - lastPosTime_ <= MEASURE_TIMEOUT

(* Neither measurement has timed out.                                      *)
Fresh == now - lastQTime_ <= MEASURE_TIMEOUT /\ now - lastPosTime_ <= MEASURE_TIMEOUT

(* calcRestricted(): the zones that hold the point in view.                *)
Hits == {i \in DOMAIN restricted_ : Inside(restricted_[i], position, attitude)}

(* Geofence::from_json on file content f: the path is set before the zones *)
(* are read, zones are added to those there, and a bad zone throws away    *)
(* nothing that was added before it.                                       *)
ReadFenceReplaces(f) ==
  /\ loads < MaxLoads
  /\ loads' = loads + 1
  /\ downloadPath_' = IF f.path = Unset THEN downloadPath_ ELSE f.path
  /\ restricted_' = IF f.path = Unset THEN restricted_ ELSE f.zones
  /\ known' = IF f.path = Unset THEN known
              ELSE known \cup {f.zones[i] : i \in DOMAIN f.zones}

ReadFence(f) ==
  /\ loads < MaxLoads
  /\ loads' = loads + 1
  /\ downloadPath_' = IF f.path = Unset THEN downloadPath_ ELSE f.path
  /\ restricted_' = IF f.path = Unset THEN restricted_ ELSE restricted_ \o f.zones
  /\ known' = IF f.path = Unset THEN known
              ELSE known \cup {f.zones[i] : i \in DOMAIN f.zones}

MarkTime == mark_' = now

-----------------------------------------------------------------------------
Init ==
  /\ status = "starting"
  /\ now = Launch
  /\ mark_ = Launch
  /\ blocked_ = FALSE /\ team_ = NoTeam
  /\ position = Unset /\ attitude = Unset
  /\ lastPosTime_ = 0 /\ lastQTime_ = 0 /\ heard = [position |-> 0, attitude |-> 0]
  /\ offsets \in Offset
  /\ restricted_ = <<>> /\ downloadPath_ = Unset /\ loads = 0
  /\ sent = <<>>
  /\ lastUse = 0 - ANTI_SPAM_INTERVAL
  /\ known = {}
  /\ allowed = "yes"

(* initialize() with content f in /cf/restricted.json.  What it throws     *)
(* ends the application (ASyncApp::execute).                               *)
Initialize(f) ==
  /\ status = "starting"
  /\ ReadFence(f)
  /\ IF f.bad
     THEN status' = "failed" /\ UNCHANGED <<mark_, blocked_>>
     ELSE status' = "running" /\ blocked_' = FALSE /\ MarkTime
  /\ sent' = <<>>
  /\ UNCHANGED <<now, measured, team_, lastUse, allowed>>

(* reset(): a bad default file leaves the rest undone.                     *)
Reset(f) ==
  /\ status = "running"
  /\ ReadFence(f)
  /\ IF f.bad
     THEN UNCHANGED <<mark_, blocked_, allowed>>
     ELSE blocked_' = FALSE /\ MarkTime /\ allowed' = "reset"
  /\ sent' = <<>>
  /\ UNCHANGED <<status, now, measured, team_, lastUse>>

LoadFence(f) ==
  /\ status = "running"
  /\ ReadFence(f)
  /\ sent' = <<>>
  /\ UNCHANGED <<status, now, measured, guards, team_>>

SetOffsets(o) ==
  /\ status = "running"
  /\ offsets' = o
  /\ sent' = <<>>
  /\ UNCHANGED <<status, now, position, attitude, lastPosTime_, lastQTime_, heard, fence, guards, team_>>

HandlePositionMisstamped(p) ==
  /\ status = "running"
  /\ position' = p /\ heard' = [heard EXCEPT !.position = now]
  /\ lastQTime_' = now
  /\ sent' = <<>>
  /\ UNCHANGED <<status, now, attitude, lastPosTime_, offsets, fence, guards, team_>>

HandlePosition(p) ==
  /\ status = "running"
  /\ position' = p /\ heard' = [heard EXCEPT !.position = now]
  /\ lastPosTime_' = now
  /\ sent' = <<>>
  /\ UNCHANGED <<status, now, attitude, lastQTime_, offsets, fence, guards, team_>>

HandleOrientation(a) ==
  /\ status = "running"
  /\ attitude' = <<a, offsets>> /\ heard' = [heard EXCEPT !.attitude = now]
  /\ lastQTime_' = now
  /\ sent' = <<>>
  /\ UNCHANGED <<status, now, position, lastPosTime_, offsets, fence, guards, team_>>

HandlePolling(ok) ==
  /\ status = "running"
  /\ blocked_' = ~ok
  /\ allowed' = IF ok THEN "yes" ELSE "no"
  /\ sent' = <<>>
  /\ UNCHANGED <<status, now, measured, fence, mark_, lastUse, team_>>

TeamChange(t) ==
  /\ status = "running"
  /\ team_' = t
  /\ sent' = <<CurrentTeam(t)>>
  /\ UNCHANGED <<status, now, measured, fence, guards>>

Spam == now - mark_ < ANTI_SPAM_INTERVAL

SnapRequestUnmarked(id) ==
  /\ status = "running"
  /\ UNCHANGED <<status, now, measured, fence, mark_, blocked_, allowed, team_>>
  /\ ~blocked_ /\ ~Spam /\ Fresh /\ Hits = {}
  /\ sent' = <<ImageSnap(id), SnapMeta>>
  /\ lastUse' = now

(* snap_request(): refused, rejected by the first zone hit, or taken.      *)
SnapRequest(id) ==
  /\ status = "running"
  /\ UNCHANGED <<status, now, measured, fence, blocked_, allowed, team_>>
  /\ \/ /\ blocked_ \/ Spam \/ ~Fresh
        /\ sent' = <<>>
        /\ UNCHANGED <<mark_, lastUse>>
     \/ /\ ~blocked_ /\ ~Spam /\ Fresh
        /\ \E i \in Hits :
             /\ \A j \in Hits : i <= j
             /\ sent' = <<RejectedBy(restricted_[i])>>
        /\ UNCHANGED <<mark_, lastUse>>
     \/ /\ ~blocked_ /\ ~Spam /\ Fresh
        /\ Hits = {}
        /\ sent' = <<ImageSnap(id), SnapMeta>>
        /\ MarkTime /\ lastUse' = now

DownloadRequestUnblocked(id) ==
  /\ status = "running"
  /\ UNCHANGED <<status, now, measured, fence, blocked_, allowed, team_>>
  /\ now - mark_ > ANTI_SPAM_INTERVAL
  /\ sent' = <<ImageGet(id)>>
  /\ MarkTime /\ lastUse' = now

(* download_request()                                                      *)
DownloadRequest(id) ==
  /\ status = "running"
  /\ UNCHANGED <<status, now, measured, fence, blocked_, allowed, team_>>
  /\ \/ /\ blocked_ \/ now - mark_ <= ANTI_SPAM_INTERVAL
        /\ sent' = <<>>
        /\ UNCHANGED <<mark_, lastUse>>
     \/ /\ ~blocked_ /\ now - mark_ > ANTI_SPAM_INTERVAL
        /\ sent' = <<ImageGet(id)>>
        /\ MarkTime /\ lastUse' = now

Tick ==
  /\ now < MaxTime
  /\ now' = now + 1
  /\ sent' = <<>>
  /\ UNCHANGED <<status, measured, fence, guards, team_>>

Handle ==
  \/ \E f \in Fence : Initialize(f) \/ Reset(f) \/ LoadFence(f)
  \/ \E o \in Offset : SetOffsets(o)
  \/ \E p \in Position : HandlePosition(p)
  \/ \E a \in Attitude : HandleOrientation(a)
  \/ \E ok \in BOOLEAN : HandlePolling(ok)
  \/ \E t \in Team : TeamChange(t)
  \/ \E id \in ImageId : SnapRequest(id) \/ DownloadRequest(id)

Next == Handle \/ Tick

Spec == Init /\ [][Next]_vars

-----------------------------------------------------------------------------
Message ==
  [op : {"ImageSnap"}, img : (Team \cup {NoTeam}) \X ImageId]
    \cup [op : {"SnapMeta"}, position : Position, attitude : Attitude \X Offset,
          team : Team \cup {NoTeam}]
    \cup [op : {"ImageGet"}, img : (Team \cup {NoTeam}) \X ImageId, path : {f.path : f \in Fence}]
    \cup [op : {"Rejected"}, name : Zones]
    \cup [op : {"CurrentTeam"}, name : Team]

(* Every member has its type; in particular no measurement that nobody     *)
(* made is ever sent down, and no clock reading lies in the future.        *)
TypeOK ==
  /\ status \in {"starting", "running", "failed"}
  /\ now \in Launch..(IF MaxTime < Launch THEN Launch ELSE MaxTime)
  /\ {mark_, lastPosTime_, lastQTime_} \subseteq 0..now
  /\ lastUse \in (0 - ANTI_SPAM_INTERVAL)..now
  /\ blocked_ \in BOOLEAN /\ allowed \in {"yes", "no", "reset"}
  /\ team_ \in Team \cup {NoTeam}
  /\ position \in Position \cup {Unset}
  /\ attitude \in (Attitude \X Offset) \cup {Unset}
  /\ offsets \in Offset
  /\ restricted_ \in Seq(Zones)
  /\ known \subseteq Zones
  /\ downloadPath_ \in {f.path : f \in Fence} \cup {Unset}
  /\ loads \in Nat
  /\ sent \in Seq(Message)

(* Whatever mixture of requests, resets and geofence loads arrives, two    *)
(* uses of the camera or the archive are never closer than the anti-spam   *)
(* interval, which both handlers measure from one shared mark.             *)
CameraOpsSpaced ==
  [][UsesCamera(sent') => now - lastUse >= ANTI_SPAM_INTERVAL]_vars

(* A picture is never taken of a point inside a zone that any geofence     *)
(* file has ever named: neither a later file, nor a file that stops in     *)
(* the middle, nor a reset lifts a restriction.                            *)
NoPictureOverZone ==
  [][TakesPicture(sent') => \A z \in known : ~Inside(z, position, attitude)]_vars

(* The decision about a picture rests on a position and an attitude that   *)
(* were both received, and not longer ago than the timeout, whichever      *)
(* handlers ran in between: never on a measurement that only looks young,  *)
(* nor on the members no constructor sets.  (How long a report waited at   *)
(* the application's pipe is not known to it.)                             *)
DecidedOnMeasurements ==
  [][\A i \in DOMAIN sent' : sent'[i].op \in {"ImageSnap", "Rejected"} =>
       /\ position \in Position /\ attitude \in Attitude \X Offset
       /\ now - heard.position <= MEASURE_TIMEOUT /\ now - heard.attitude <= MEASURE_TIMEOUT]_vars

(* While the last polling report forbids it, and no reset has come since,  *)
(* neither the camera nor the archive is used.                             *)
BlockHolds == [][UsesCamera(sent') => allowed # "no"]_vars
=============================================================================
