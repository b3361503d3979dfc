----------------------------- MODULE ImagingProofs -----------------------------
(***************************************************************************)
(* What GeofenceApp guarantees for every set of teams, zones, geofence     *)
(* files and measurements, and for every interval and timeout; that the    *)
(* chain of applications before it gives it nothing it was not made for;   *)
(* and that the chain keeps its measurements young.                        *)
(***************************************************************************)
EXTENDS Imaging, TLAPS

(* A time stamp says when the measurement in use came in; an unset one     *)
(* still carries that of the constructor.                                  *)
MeasuredInv ==
  /\ heard = [position |-> lastPosTime_, attitude |-> lastQTime_]
  /\ position = Unset => lastPosTime_ = 0
  /\ attitude = Unset => lastQTime_ = 0

(* The shared mark is never older than the last use it stands for.         *)
MarkInv == lastUse <= mark_

(* The application tests every zone it has ever read.                      *)
ZoneInv == known = {restricted_[i] : i \in DOMAIN restricted_}

(* blocked_ is the last word on polling.                                   *)
BlockInv ==
  /\ blocked_ <=> allowed = "no"
  /\ status = "starting" => allowed = "yes"

(* A running application has a download directory.                         *)
PathInv == status = "running" => downloadPath_ # Unset

IndInv == TypeOK /\ PathInv /\ MeasuredInv /\ MarkInv /\ ZoneInv /\ BlockInv

-----------------------------------------------------------------------------
(* What a geofence file adds to the zones, and that the set of zones known *)
(* stays the set of zones tested.                                          *)
LEMMA ReadFenceKeeps ==
  ASSUME NEW f \in Fence, ReadFence(f), IndInv
  PROVE  /\ restricted_' \in Seq(Zones)
         /\ known' \subseteq Zones
         /\ downloadPath_' \in {g.path : g \in Fence} \cup {Unset}
         /\ loads' \in Nat
         /\ ZoneInv'
<1>1. f.zones \in Seq(Zones) /\ restricted_ \in Seq(Zones) /\ loads \in Nat
  BY FenceAssumption DEF IndInv, TypeOK
<1>2. loads' \in Nat
  BY <1>1 DEF ReadFence
<1>3. downloadPath_' \in {g.path : g \in Fence} \cup {Unset}
  BY DEF ReadFence, IndInv, TypeOK
<1>4. CASE f.path = Unset
  BY <1>2, <1>3, <1>4 DEF ReadFence, IndInv, TypeOK, ZoneInv
<1>5. CASE f.path # Unset
  <2>1. restricted_' = restricted_ \o f.zones
    BY <1>5 DEF ReadFence
  <2>2. /\ restricted_' \in Seq(Zones)
        /\ DOMAIN restricted_' = 1..(Len(restricted_) + Len(f.zones))
        /\ \A i \in DOMAIN restricted_' :
             restricted_'[i] = IF i <= Len(restricted_) THEN restricted_[i]
                               ELSE f.zones[i - Len(restricted_)]
    BY <2>1, <1>1
  <2>3. known' = known \cup {f.zones[i] : i \in DOMAIN f.zones}
    BY <1>5 DEF ReadFence
  <2>4. known = {restricted_[i] : i \in DOMAIN restricted_} /\ known \subseteq Zones
    BY DEF IndInv, ZoneInv, TypeOK
  <2>5. known' \subseteq Zones
    BY <2>3, <2>4, <1>1
  <2>6. DOMAIN restricted_ = 1..Len(restricted_) /\ DOMAIN f.zones = 1..Len(f.zones)
        /\ Len(restricted_) \in Nat /\ Len(f.zones) \in Nat
    BY <1>1
  <2>7. ASSUME NEW z \in known' PROVE \E i \in DOMAIN restricted_' : restricted_'[i] = z
    <3>1. CASE z \in known
      <4>1. PICK i \in 1..Len(restricted_) : restricted_[i] = z
        BY <3>1, <2>4, <2>6
      <4>2. i \in DOMAIN restricted_' /\ restricted_'[i] = z
        BY <4>1, <2>2, <2>6
      <4> QED BY <4>2
    <3>2. CASE z \notin known
      <4>1. PICK i \in 1..Len(f.zones) : f.zones[i] = z
        BY <3>2, <2>3, <2>6, <2>7
      <4>2. Len(restricted_) + i \in DOMAIN restricted_'
            /\ restricted_'[Len(restricted_) + i] = z
        BY <4>1, <2>2, <2>6
      <4> QED BY <4>2
    <3> QED BY <3>1, <3>2
  <2>8. ASSUME NEW i \in DOMAIN restricted_' PROVE restricted_'[i] \in known'
    <3>1. CASE i <= Len(restricted_)
      BY <3>1, <2>2, <2>3, <2>4, <2>6
    <3>2. CASE ~(i <= Len(restricted_))
      <4>1. i - Len(restricted_) \in 1..Len(f.zones)
        BY <3>2, <2>2, <2>6
      <4>2. restricted_'[i] = f.zones[i - Len(restricted_)]
        BY <3>2, <2>2
      <4> QED BY <4>1, <4>2, <2>3, <2>6
    <3> QED BY <3>1, <3>2
  <2>9. ZoneInv'
    BY <2>7, <2>8 DEF ZoneInv
  <2> QED BY <1>2, <1>3, <2>2, <2>5, <2>9
<1> QED BY <1>4, <1>5

(* What is sent is well formed once both measurements are there.           *)
LEMMA Sendable ==
  ASSUME TypeOK, NEW id \in ImageId
  PROVE  /\ ImageSnap(id) \in Message
         /\ ImageGet(id) \in Message \/ downloadPath_ = Unset
         /\ position # Unset /\ attitude # Unset => SnapMeta \in Message
<1>1. Image(id) \in (Team \cup {NoTeam}) \X ImageId
  BY DEF Image, TypeOK
<1>2. ImageSnap(id) \in [op : {"ImageSnap"}, img : (Team \cup {NoTeam}) \X ImageId]
  BY <1>1 DEF ImageSnap
<1>3. ASSUME downloadPath_ # Unset
      PROVE  ImageGet(id) \in [op : {"ImageGet"}, img : (Team \cup {NoTeam}) \X ImageId,
                               path : {f.path : f \in Fence}]
  BY <1>1, <1>3 DEF ImageGet, TypeOK
<1>4. ASSUME position # Unset, attitude # Unset
      PROVE  SnapMeta \in [op : {"SnapMeta"}, position : Position,
                           attitude : Attitude \X Offset, team : Team \cup {NoTeam}]
  BY <1>4 DEF SnapMeta, TypeOK
<1> QED BY <1>2, <1>3, <1>4 DEF Message

(* What Fresh says of the clock readings: both measurements were made.     *)
LEMMA FreshMeans ==
  ASSUME IndInv, Fresh
  PROVE  /\ position \in Position /\ attitude \in Attitude \X Offset
         /\ now - heard.position <= MEASURE_TIMEOUT /\ now - heard.attitude <= MEASURE_TIMEOUT
<1>1. /\ lastPosTime_ \in 0..now /\ lastQTime_ \in 0..now /\ now \in Int /\ now >= Launch
      /\ now - lastQTime_ <= MEASURE_TIMEOUT /\ now - lastPosTime_ <= MEASURE_TIMEOUT
  BY ClockAssumption DEF IndInv, TypeOK, Fresh
<1>2. lastPosTime_ # 0 /\ lastQTime_ # 0
  BY <1>1, ClockAssumption
<1>3. position \in Position /\ attitude \in Attitude \X Offset
  BY <1>2 DEF IndInv, TypeOK, MeasuredInv
<1>4. now - heard.position <= MEASURE_TIMEOUT /\ now - heard.attitude <= MEASURE_TIMEOUT
  BY <1>1 DEF IndInv, MeasuredInv
<1> QED BY <1>3, <1>4

-----------------------------------------------------------------------------
LEMMA InitInd == Init => IndInv
<1> SUFFICES ASSUME Init PROVE IndInv
  OBVIOUS
<1>1. TypeOK
  <2>1. /\ now \in Launch..(IF MaxTime < Launch THEN Launch ELSE MaxTime)
        /\ mark_ \in 0..now /\ lastPosTime_ \in 0..now /\ lastQTime_ \in 0..now
        /\ lastUse \in (0 - ANTI_SPAM_INTERVAL)..now
    BY ClockAssumption DEF Init
  <2>2. restricted_ \in Seq(Zones) /\ sent \in Seq(Message) /\ loads \in Nat
    BY DEF Init
  <2>3. /\ status \in {"starting", "running", "failed"} /\ blocked_ \in BOOLEAN
        /\ allowed \in {"yes", "no", "reset"} /\ team_ \in Team \cup {NoTeam}
        /\ position \in Position \cup {Unset}
        /\ attitude \in (Attitude \X Offset) \cup {Unset}
        /\ offsets \in Offset /\ known \subseteq Zones
        /\ downloadPath_ \in {f.path : f \in Fence} \cup {Unset}
    BY DEF Init
  <2> QED BY <2>1, <2>2, <2>3 DEF TypeOK
<1>2. PathInv /\ MeasuredInv /\ MarkInv /\ ZoneInv /\ BlockInv
  BY ClockAssumption DEF Init, PathInv, MeasuredInv, MarkInv, ZoneInv, BlockInv
<1> QED BY <1>1, <1>2 DEF IndInv

LEMMA NextInd == IndInv /\ [Next]_vars => IndInv'
<1> SUFFICES ASSUME IndInv, [Next]_vars PROVE IndInv'
  OBVIOUS
<1>t. /\ TypeOK
      /\ now \in Int /\ now >= Launch /\ Launch \in Nat /\ MaxTime \in Nat
      /\ mark_ \in 0..now /\ lastUse \in (0 - ANTI_SPAM_INTERVAL)..now
      /\ ANTI_SPAM_INTERVAL \in Nat /\ MEASURE_TIMEOUT \in Nat
  BY ClockAssumption DEF IndInv, TypeOK
<1>e. <<>> \in Seq(Message)
  OBVIOUS
<1>1. ASSUME NEW f \in Fence, Initialize(f) PROVE IndInv'
  <2>1. ReadFence(f)
    BY <1>1 DEF Initialize
  <2>2. /\ restricted_' \in Seq(Zones) /\ known' \subseteq Zones /\ loads' \in Nat
        /\ downloadPath_' \in {g.path : g \in Fence} \cup {Unset} /\ ZoneInv'
    BY <2>1, ReadFenceKeeps
  <2>3. TypeOK'
    <3>1. mark_' \in 0..now /\ now' = now
      BY <1>1, <1>t DEF Initialize, MarkTime
    <3>2. status' \in {"starting", "running", "failed"} /\ blocked_' \in BOOLEAN
          /\ allowed' \in {"yes", "no", "reset"} /\ sent' = <<>>
      BY <1>1, <1>t DEF Initialize, TypeOK
    <3> QED BY <1>1, <1>t, <1>e, <2>2, <3>1, <3>2 DEF Initialize, TypeOK, measured
  <2>4. PathInv'
    BY <1>1, <2>1, FenceAssumption DEF Initialize, PathInv, ReadFence
  <2>5. MarkInv' /\ BlockInv' /\ MeasuredInv'
    BY <1>1, <1>t DEF Initialize, MarkInv, BlockInv, MeasuredInv, IndInv, measured, MarkTime
  <2> QED BY <2>2, <2>3, <2>4, <2>5 DEF IndInv
<1>2. ASSUME NEW f \in Fence, Reset(f) PROVE IndInv'
  <2>1. ReadFence(f)
    BY <1>2 DEF Reset
  <2>2. /\ restricted_' \in Seq(Zones) /\ known' \subseteq Zones /\ loads' \in Nat
        /\ downloadPath_' \in {g.path : g \in Fence} \cup {Unset} /\ ZoneInv'
    BY <2>1, ReadFenceKeeps
  <2>3. TypeOK'
    <3>1. mark_' \in 0..now /\ now' = now
      BY <1>2, <1>t DEF Reset, MarkTime
    <3>2. status' \in {"starting", "running", "failed"} /\ blocked_' \in BOOLEAN
          /\ allowed' \in {"yes", "no", "reset"} /\ sent' = <<>>
      BY <1>2, <1>t DEF Reset, TypeOK
    <3> QED BY <1>2, <1>t, <1>e, <2>2, <3>1, <3>2 DEF Reset, TypeOK, measured
  <2>4. PathInv'
    BY <1>2, <2>1 DEF Reset, PathInv, ReadFence, IndInv
  <2>5. MarkInv' /\ BlockInv' /\ MeasuredInv'
    BY <1>2, <1>t DEF Reset, MarkInv, BlockInv, MeasuredInv, IndInv, measured, MarkTime
  <2> QED BY <2>2, <2>3, <2>4, <2>5 DEF IndInv
<1>3. ASSUME NEW f \in Fence, LoadFence(f) PROVE IndInv'
  <2>1. ReadFence(f)
    BY <1>3 DEF LoadFence
  <2>2. /\ restricted_' \in Seq(Zones) /\ known' \subseteq Zones /\ loads' \in Nat
        /\ downloadPath_' \in {g.path : g \in Fence} \cup {Unset} /\ ZoneInv'
    BY <2>1, ReadFenceKeeps
  <2>3. TypeOK'
    BY <1>3, <1>t, <1>e, <2>2 DEF LoadFence, TypeOK, measured, guards
  <2>4. PathInv'
    BY <1>3, <2>1 DEF LoadFence, PathInv, ReadFence, IndInv
  <2>5. MarkInv' /\ BlockInv' /\ MeasuredInv'
    BY <1>3, <1>t DEF LoadFence, MarkInv, BlockInv, MeasuredInv, IndInv, measured, guards
  <2> QED BY <2>2, <2>3, <2>4, <2>5 DEF IndInv
<1>4. ASSUME NEW o \in Offset, SetOffsets(o) PROVE IndInv'
  <2>1. TypeOK'
    BY <1>4, <1>t, <1>e DEF SetOffsets, TypeOK, fence, guards
  <2>2. PathInv' /\ MarkInv' /\ BlockInv' /\ MeasuredInv' /\ ZoneInv'
    BY <1>4 DEF SetOffsets, PathInv, MarkInv, BlockInv, MeasuredInv, ZoneInv, IndInv, fence, guards
  <2> QED BY <2>1, <2>2 DEF IndInv
<1>5. ASSUME NEW p \in Position, HandlePosition(p) PROVE IndInv'
  <2>1. TypeOK'
    BY <1>5, <1>t, <1>e DEF HandlePosition, TypeOK, fence, guards
  <2>2. PathInv' /\ MarkInv' /\ BlockInv' /\ ZoneInv'
    BY <1>5 DEF HandlePosition, PathInv, MarkInv, BlockInv, ZoneInv, IndInv, fence, guards
  <2>3. MeasuredInv'
    BY <1>5, UnsetAssumption DEF HandlePosition, MeasuredInv, IndInv
  <2> QED BY <2>1, <2>2, <2>3 DEF IndInv
<1>6. ASSUME NEW a \in Attitude, HandleOrientation(a) PROVE IndInv'
  <2>1. attitude' \in Attitude \X Offset
    BY <1>6, <1>t DEF HandleOrientation, TypeOK
  <2>2. TypeOK'
    BY <1>6, <1>t, <1>e, <2>1 DEF HandleOrientation, TypeOK, fence, guards
  <2>3. PathInv' /\ MarkInv' /\ BlockInv' /\ ZoneInv'
    BY <1>6 DEF HandleOrientation, PathInv, MarkInv, BlockInv, ZoneInv, IndInv, fence, guards
  <2>4. MeasuredInv'
    BY <1>6, <2>1, UnsetAssumption DEF HandleOrientation, MeasuredInv, IndInv
  <2> QED BY <2>2, <2>3, <2>4 DEF IndInv
<1>7. ASSUME NEW ok \in BOOLEAN, HandlePolling(ok) PROVE IndInv'
  <2>1. TypeOK'
    BY <1>7, <1>t, <1>e DEF HandlePolling, TypeOK, measured, fence
  <2>2. PathInv' /\ MarkInv' /\ BlockInv' /\ MeasuredInv' /\ ZoneInv'
    BY <1>7 DEF HandlePolling, PathInv, MarkInv, BlockInv, MeasuredInv, ZoneInv, IndInv,
                measured, fence
  <2> QED BY <2>1, <2>2 DEF IndInv
<1>8. ASSUME NEW t \in Team, TeamChange(t) PROVE IndInv'
  <2>1. CurrentTeam(t) \in Message
    BY DEF CurrentTeam, Message
  <2>2. sent' \in Seq(Message)
    BY <1>8, <2>1 DEF TeamChange
  <2>3. TypeOK'
    BY <1>8, <1>t, <2>2 DEF TeamChange, TypeOK, measured, fence, guards
  <2>4. PathInv' /\ MarkInv' /\ BlockInv' /\ MeasuredInv' /\ ZoneInv'
    BY <1>8 DEF TeamChange, PathInv, MarkInv, BlockInv, MeasuredInv, ZoneInv, IndInv,
                measured, fence, guards
  <2> QED BY <2>3, <2>4 DEF IndInv
<1>9. ASSUME NEW id \in ImageId, SnapRequest(id) PROVE IndInv'
  <2>1. sent' \in Seq(Message)
    <3>1. CASE sent' = <<>>
      BY <3>1
    <3>2. CASE /\ Fresh
               /\ \E i \in Hits : sent' = <<RejectedBy(restricted_[i])>>
      <4>1. PICK i \in DOMAIN restricted_ : sent' = <<RejectedBy(restricted_[i])>>
        BY <3>2 DEF Hits
      <4>2. restricted_[i] \in Zones
        BY <1>t DEF TypeOK
      <4>3. RejectedBy(restricted_[i]) \in Message
        BY <4>2 DEF RejectedBy, Message
      <4> QED BY <4>1, <4>3
    <3>3. CASE Fresh /\ sent' = <<ImageSnap(id), SnapMeta>>
      <4>1. position # Unset /\ attitude # Unset
        BY <3>3, FreshMeans, UnsetAssumption
      <4>2. ImageSnap(id) \in Message /\ SnapMeta \in Message
        BY <4>1, <1>t, Sendable
      <4> QED BY <3>3, <4>2
    <3> QED BY <1>9, <3>1, <3>2, <3>3 DEF SnapRequest
  <2>2. mark_' \in 0..now /\ lastUse' \in (0 - ANTI_SPAM_INTERVAL)..now /\ lastUse' <= mark_'
    BY <1>9, <1>t DEF SnapRequest, MarkTime, IndInv, MarkInv
  <2>3. TypeOK'
    BY <1>9, <1>t, <2>1, <2>2 DEF SnapRequest, TypeOK, measured, fence
  <2>4. PathInv' /\ BlockInv' /\ MeasuredInv' /\ ZoneInv' /\ MarkInv'
    BY <1>9, <2>2 DEF SnapRequest, PathInv, MarkInv, BlockInv, MeasuredInv, ZoneInv, IndInv,
                      measured, fence
  <2> QED BY <2>3, <2>4 DEF IndInv
<1>10. ASSUME NEW id \in ImageId, DownloadRequest(id) PROVE IndInv'
  <2>1. sent' \in Seq(Message)
    <3>1. downloadPath_ # Unset
      BY <1>10 DEF DownloadRequest, IndInv, PathInv
    <3>2. ImageGet(id) \in Message
      BY <3>1, <1>t, Sendable
    <3>3. sent' = <<>> \/ sent' = <<ImageGet(id)>>
      BY <1>10 DEF DownloadRequest
    <3>4. <<ImageGet(id)>> \in Seq(Message)
      BY <3>2
    <3> QED BY <1>e, <3>3, <3>4
  <2>2. mark_' \in 0..now /\ lastUse' \in (0 - ANTI_SPAM_INTERVAL)..now /\ lastUse' <= mark_'
    BY <1>10, <1>t DEF DownloadRequest, MarkTime, IndInv, MarkInv
  <2>3. TypeOK'
    BY <1>10, <1>t, <2>1, <2>2 DEF DownloadRequest, TypeOK, measured, fence
  <2>4. PathInv' /\ BlockInv' /\ MeasuredInv' /\ ZoneInv' /\ MarkInv'
    BY <1>10, <2>2 DEF DownloadRequest, PathInv, MarkInv, BlockInv, MeasuredInv, ZoneInv, IndInv,
                       measured, fence
  <2> QED BY <2>3, <2>4 DEF IndInv
<1>11. CASE Tick
  <2>1. TypeOK'
    BY <1>11, <1>t, <1>e DEF Tick, TypeOK, measured, fence, guards
  <2>2. PathInv' /\ MarkInv' /\ BlockInv' /\ MeasuredInv' /\ ZoneInv'
    BY <1>11 DEF Tick, PathInv, MarkInv, BlockInv, MeasuredInv, ZoneInv, IndInv,
                 measured, fence, guards
  <2> QED BY <2>1, <2>2 DEF IndInv
<1>12. CASE UNCHANGED vars
  BY <1>12 DEF vars, measured, fence, guards, IndInv, TypeOK, PathInv, MarkInv, BlockInv,
               MeasuredInv, ZoneInv
<1> QED BY <1>1, <1>2, <1>3, <1>4, <1>5, <1>6, <1>7, <1>8, <1>9, <1>10, <1>11, <1>12
        DEF Next, Handle

-----------------------------------------------------------------------------
(* The types hold for every set of constants, and with them that nothing   *)
(* unmeasured is ever sent down.                                           *)
THEOREM GeofenceInvariant == Spec => []IndInv
<1> QED BY InitInd, NextInd, PTL DEF Spec

THEOREM GeofenceTypeOK == Spec => []TypeOK
<1>1. IndInv => TypeOK
  BY DEF IndInv
<1> QED BY <1>1, GeofenceInvariant, PTL

(* What a step that publishes a message of the named kind must have been.  *)
LEMMA WhoPublishes ==
  ASSUME IndInv, Next
  PROVE  /\ UsesCamera(sent') =>
              \/ \E id \in ImageId : SnapRequest(id) /\ ~blocked_ /\ ~Spam /\ Fresh /\ Hits = {}
              \/ \E id \in ImageId : DownloadRequest(id) /\ ~blocked_
                                      /\ now - mark_ > ANTI_SPAM_INTERVAL
         /\ (\E i \in DOMAIN sent' : sent'[i].op \in {"ImageSnap", "Rejected"}) =>
              \E id \in ImageId : SnapRequest(id) /\ Fresh
         /\ TakesPicture(sent') =>
              \E id \in ImageId : SnapRequest(id) /\ Fresh /\ Hits = {}
<1> DEFINE Kinds(s) == {s[i].op : i \in DOMAIN s}
<1>1. CASE sent' = <<>>
  <2>1. DOMAIN sent' = {}
    BY <1>1
  <2> QED BY <2>1 DEF UsesCamera, TakesPicture
<1>2. ASSUME NEW t \in Team, TeamChange(t), sent' = <<CurrentTeam(t)>> PROVE Kinds(sent') = {"CurrentTeam"}
  BY <1>2 DEF CurrentTeam
<1>3. ASSUME NEW id \in ImageId, sent' = <<ImageGet(id)>> PROVE Kinds(sent') = {"ImageGet"}
  BY <1>3 DEF ImageGet
<1>4. ASSUME NEW i \in Hits, sent' = <<RejectedBy(restricted_[i])>> PROVE Kinds(sent') = {"Rejected"}
  BY <1>4 DEF RejectedBy
<1>5. ASSUME NEW id \in ImageId, SnapRequest(id), sent' # <<>>
      PROVE  /\ Fresh /\ ~blocked_ /\ ~Spam
             /\ Hits = {} \/ Kinds(sent') = {"Rejected"}
  BY <1>5, <1>4 DEF SnapRequest
<1>6. ASSUME NEW id \in ImageId, DownloadRequest(id), sent' # <<>>
      PROVE  ~blocked_ /\ now - mark_ > ANTI_SPAM_INTERVAL /\ Kinds(sent') = {"ImageGet"}
  BY <1>6, <1>3 DEF DownloadRequest
<1>7. CASE \E t \in Team : TeamChange(t)
  <2>1. Kinds(sent') = {"CurrentTeam"}
    BY <1>7, <1>2 DEF TeamChange
  <2> QED BY <2>1 DEF UsesCamera, TakesPicture
<1>8. CASE sent' # <<>> /\ \E id \in ImageId : SnapRequest(id)
  <2>1. PICK id \in ImageId : SnapRequest(id)
    BY <1>8
  <2>2. /\ Fresh /\ ~blocked_ /\ ~Spam
        /\ Hits = {} \/ Kinds(sent') = {"Rejected"}
    BY <1>8, <2>1, <1>5
  <2>3. Kinds(sent') = {"Rejected"} => ~UsesCamera(sent') /\ ~TakesPicture(sent')
    BY DEF UsesCamera, TakesPicture
  <2> QED BY <2>1, <2>2, <2>3
<1>9. CASE sent' # <<>> /\ \E id \in ImageId : DownloadRequest(id)
  <2>1. PICK id \in ImageId : DownloadRequest(id)
    BY <1>9
  <2>2. ~blocked_ /\ now - mark_ > ANTI_SPAM_INTERVAL /\ Kinds(sent') = {"ImageGet"}
    BY <1>9, <2>1, <1>6
  <2> QED BY <2>1, <2>2 DEF TakesPicture
<1>10. \/ sent' = <<>> \/ \E t \in Team : TeamChange(t)
       \/ \E id \in ImageId : SnapRequest(id) \/ DownloadRequest(id)
  BY DEF Next, Handle, Initialize, Reset, LoadFence, SetOffsets, HandlePosition,
         HandleOrientation, HandlePolling, Tick
<1> QED BY <1>1, <1>7, <1>8, <1>9, <1>10

(* The spacing of the uses of the camera follows from the shared mark.     *)
THEOREM GeofenceSpaced == Spec => CameraOpsSpaced
<1>1. IndInv /\ [Next]_vars =>
        [UsesCamera(sent') => now - lastUse >= ANTI_SPAM_INTERVAL]_vars
  <2> SUFFICES ASSUME IndInv, Next, UsesCamera(sent')
               PROVE  now - lastUse >= ANTI_SPAM_INTERVAL
    OBVIOUS
  <2>1. now - mark_ >= ANTI_SPAM_INTERVAL
    <3>1. now - mark_ > ANTI_SPAM_INTERVAL \/ ~Spam
      BY WhoPublishes
    <3>2. now \in Int /\ mark_ \in Int /\ ANTI_SPAM_INTERVAL \in Nat
      BY ClockAssumption DEF IndInv, TypeOK
    <3> QED BY <3>1, <3>2 DEF Spam
  <2>2. lastUse <= mark_ /\ lastUse \in Int /\ mark_ \in Int /\ now \in Int
    BY ClockAssumption DEF IndInv, TypeOK, MarkInv
  <2> QED BY <2>1, <2>2, ClockAssumption
<1> QED BY <1>1, GeofenceInvariant, PTL DEF Spec, CameraOpsSpaced

(* No restriction is ever lost: not by a later file, a broken one, a reset.*)
THEOREM GeofenceZones == Spec => NoPictureOverZone
<1>1. IndInv /\ [Next]_vars =>
        [TakesPicture(sent') => \A z \in known : ~Inside(z, position, attitude)]_vars
  <2> SUFFICES ASSUME IndInv, Next, TakesPicture(sent'), NEW z \in known
               PROVE  ~Inside(z, position, attitude)
    OBVIOUS
  <2>1. Hits = {}
    BY WhoPublishes
  <2>2. PICK i \in DOMAIN restricted_ : restricted_[i] = z
    BY DEF IndInv, ZoneInv
  <2> QED BY <2>1, <2>2 DEF Hits
<1> QED BY <1>1, GeofenceInvariant, PTL DEF Spec, NoPictureOverZone

(* No decision is ever taken on an uninitialised measurement, nor on one   *)
(* that came in longer ago than the timeout.                               *)
THEOREM GeofenceMeasured == Spec => DecidedOnMeasurements
<1>1. IndInv /\ [Next]_vars =>
        [\A i \in DOMAIN sent' : sent'[i].op \in {"ImageSnap", "Rejected"} =>
           /\ position \in Position /\ attitude \in Attitude \X Offset
           /\ now - heard.position <= MEASURE_TIMEOUT /\ now - heard.attitude <= MEASURE_TIMEOUT]_vars
  <2> SUFFICES ASSUME IndInv, Next, NEW i \in DOMAIN sent',
                      sent'[i].op \in {"ImageSnap", "Rejected"}
               PROVE  /\ position \in Position /\ attitude \in Attitude \X Offset
                      /\ now - heard.position <= MEASURE_TIMEOUT
                      /\ now - heard.attitude <= MEASURE_TIMEOUT
    OBVIOUS
  <2>1. Fresh
    BY WhoPublishes
  <2> QED BY <2>1, FreshMeans
<1> QED BY <1>1, GeofenceInvariant, PTL DEF Spec, DecidedOnMeasurements

(* A block set by a polling report holds until a report or a reset.        *)
THEOREM GeofenceBlock == Spec => BlockHolds
<1>1. IndInv /\ [Next]_vars => [UsesCamera(sent') => allowed # "no"]_vars
  <2> SUFFICES ASSUME IndInv, Next, UsesCamera(sent') PROVE allowed # "no"
    OBVIOUS
  <2>1. ~blocked_
    BY WhoPublishes
  <2> QED BY <2>1 DEF IndInv, BlockInv
<1> QED BY <1>1, GeofenceInvariant, PTL DEF Spec, BlockHolds

-----------------------------------------------------------------------------
(* What a counter leaves when it is divided by a rate.                     *)
LEMMA RemainderIs ==
  ASSUME NEW r \in Nat \ {0}, NEW q \in Int, NEW m \in 0..(r - 1), NEW x \in Int, x = r * q + m
  PROVE  (x % r) = m
  <1>1. PICK d \in Int, n \in 0..(r - 1) : x = r * d + n /\ (x % r) = n
    <2>1. x \div r \in Int /\ (x % r) \in 0..(r - 1) /\ x = r * (x \div r) + (x % r)
      OBVIOUS
    <2> QED
      BY <2>1
  <1>2. r * d + n = r * q + m
    BY <1>1
  <1>3. CASE d >= q + 1
    <2>1. r * d >= r * q + r
      BY <1>3
    <2> QED
      BY <1>2, <2>1
  <1>4. CASE q >= d + 1
    <2>1. r * q >= r * d + r
      BY <1>4
    <2> QED
      BY <1>2, <2>1
  <1>5. CASE d = q
    BY <1>1, <1>2, <1>5
  <1> QED
    BY <1>3, <1>4, <1>5

LEMMA NextRemainder ==
  ASSUME NEW c \in Nat, NEW r \in Nat \ {0}
  PROVE  /\ (c % r) \in 0..(r - 1)
         /\ ((c + 1) % r) # 0 => ((c + 1) % r) = (c % r) + 1
         /\ ((c + 1) % r) = 0 => (c % r) = r - 1
  <1> DEFINE q == c \div r   m == (c % r)
  <1>1. q \in Int /\ m \in 0..(r - 1) /\ c = r * q + m
    OBVIOUS
  <1> HIDE DEF q, m
  <1>2. CASE m = r - 1
    <2>1. c + 1 = r * (q + 1) + 0
      BY <1>1, <1>2
    <2>2. q + 1 \in Int /\ 0 \in 0..(r - 1) /\ c + 1 \in Int
      BY <1>1
    <2>3. ((c + 1) % r) = 0
      BY <2>1, <2>2, RemainderIs
    <2> QED
      BY <1>1, <1>2, <2>3 DEF m
  <1>3. CASE m # r - 1
    <2>1. c + 1 = r * q + (m + 1) /\ m + 1 \in 0..(r - 1)
      BY <1>1, <1>3
    <2>2. ((c + 1) % r) = m + 1
      BY <1>1, <2>1, RemainderIs
    <2> QED
      BY <1>1, <1>3, <2>2 DEF m
  <1> QED
    BY <1>2, <1>3

-----------------------------------------------------------------------------
(* The pipes of the chain.  Among(s) are the messages of a sequence.       *)
Among(s) == {s[i] : i \in 1..Len(s)}

(* A heartbeat is posted to an empty pipe, so it is the first to be read.  *)
PpsFirst(p) ==
  \A app \in {"gps", "attitude"} : p[app] # <<>> => \A m \in Among(Tail(p[app])) : m.kind # "pps"

LEMMA TailAmong ==
  ASSUME NEW S, NEW s \in Seq(S), s # <<>>
  PROVE  /\ Head(s) \in S /\ Tail(s) \in Seq(S)
         /\ Among(s) = {Head(s)} \cup Among(Tail(s))
  <1>1. /\ Len(s) \in Nat /\ Len(s) > 0 /\ Head(s) = s[1] /\ Head(s) \in S /\ Tail(s) \in Seq(S)
        /\ Len(Tail(s)) = Len(s) - 1 /\ \A i \in 1..(Len(s) - 1) : Tail(s)[i] = s[i + 1]
    OBVIOUS
  <1>2. ASSUME NEW m \in Among(s) PROVE m \in {Head(s)} \cup Among(Tail(s))
    <2>1. PICK i \in 1..Len(s) : m = s[i]
      BY DEF Among
    <2>2. CASE i = 1
      BY <1>1, <2>1, <2>2
    <2>3. CASE i # 1
      <3>1. i - 1 \in 1..(Len(s) - 1) /\ (i - 1) + 1 = i
        BY <1>1, <2>1, <2>3
      <3>2. i - 1 \in 1..Len(Tail(s)) /\ m = Tail(s)[i - 1]
        BY <1>1, <2>1, <3>1
      <3> QED
        BY <3>2 DEF Among
    <2> QED
      BY <2>2, <2>3
  <1>3. ASSUME NEW m \in {Head(s)} \cup Among(Tail(s)) PROVE m \in Among(s)
    <2>1. CASE m = Head(s)
      <3>1. 1 \in 1..Len(s) /\ m = s[1]
        BY <1>1, <2>1
      <3> QED
        BY <3>1 DEF Among
    <2>2. CASE m \in Among(Tail(s))
      <3>1. PICK i \in 1..(Len(s) - 1) : m = Tail(s)[i]
        BY <1>1, <2>2 DEF Among
      <3>2. i + 1 \in 1..Len(s) /\ m = s[i + 1]
        BY <1>1, <3>1
      <3> QED
        BY <3>2 DEF Among
    <2> QED
      BY <1>3, <2>1, <2>2
  <1> QED
    BY <1>1, <1>2, <1>3

LEMMA AppendAmong ==
  ASSUME NEW S, NEW s \in Seq(S), NEW m \in S
  PROVE  /\ Append(s, m) \in Seq(S) /\ Append(s, m) # <<>>
         /\ Among(Append(s, m)) = Among(s) \cup {m}
         /\ s = <<>> => Among(Tail(Append(s, m))) = {}
         /\ s # <<>> => Among(Tail(Append(s, m))) = Among(Tail(s)) \cup {m}
  <1> DEFINE t == Append(s, m)  n == Len(s)
  <1>1. /\ n \in Nat /\ t \in Seq(S) /\ t # <<>> /\ Len(t) = n + 1 /\ t[n + 1] = m
        /\ \A i \in 1..n : t[i] = s[i]
    OBVIOUS
  <1>2. /\ Len(Tail(t)) = n /\ \A i \in 1..n : Tail(t)[i] = t[i + 1]
        /\ s # <<>> => n > 0 /\ Len(Tail(s)) = n - 1 /\ \A i \in 1..(n - 1) : Tail(s)[i] = s[i + 1]
        /\ s = <<>> => n = 0
    BY <1>1
  <1> HIDE DEF t, n
  <1>3. Among(t) = Among(s) \cup {m}
    <2>1. ASSUME NEW x \in Among(t) PROVE x \in Among(s) \cup {m}
      <3>1. PICK i \in 1..(n + 1) : x = t[i]
        BY <1>1 DEF Among
      <3>2. i = n + 1 \/ i \in 1..n
        BY <1>1
      <3> QED
        BY <1>1, <3>1, <3>2 DEF Among, n
    <2>2. ASSUME NEW x \in Among(s) \cup {m} PROVE x \in Among(t)
      <3>1. CASE x = m
        <4>1. n + 1 \in 1..Len(t) /\ x = t[n + 1]
          BY <1>1, <3>1
        <4> QED
          BY <4>1 DEF Among
      <3>2. CASE x \in Among(s)
        <4>1. PICK i \in 1..n : x = s[i]
          BY <3>2 DEF Among, n
        <4>2. i \in 1..Len(t) /\ x = t[i]
          BY <1>1, <4>1
        <4> QED
          BY <4>2 DEF Among
      <3> QED
        BY <2>2, <3>1, <3>2
    <2> QED
      BY <2>1, <2>2
  <1>4. s = <<>> => Among(Tail(t)) = {}
    BY <1>2 DEF Among
  <1>5. ASSUME s # <<>> PROVE Among(Tail(t)) = Among(Tail(s)) \cup {m}
    <2>1. ASSUME NEW x \in Among(Tail(t)) PROVE x \in Among(Tail(s)) \cup {m}
      <3>1. PICK i \in 1..n : x = t[i + 1]
        BY <1>2 DEF Among
      <3>2. CASE i = n
        BY <1>1, <3>1, <3>2
      <3>3. CASE i # n
        <4>1. i \in 1..(n - 1) /\ i + 1 \in 1..n
          BY <1>1, <3>3
        <4>2. i \in 1..Len(Tail(s)) /\ x = Tail(s)[i]
          BY <1>1, <1>2, <1>5, <3>1, <4>1
        <4> QED
          BY <4>2 DEF Among
      <3> QED
        BY <3>2, <3>3
    <2>2. ASSUME NEW x \in Among(Tail(s)) \cup {m} PROVE x \in Among(Tail(t))
      <3>1. CASE x = m
        <4>1. n \in 1..Len(Tail(t)) /\ x = Tail(t)[n]
          BY <1>1, <1>2, <1>5, <3>1
        <4> QED
          BY <4>1 DEF Among
      <3>2. CASE x \in Among(Tail(s))
        <4>1. PICK i \in 1..(n - 1) : x = s[i + 1]
          BY <1>2, <1>5, <3>2 DEF Among
        <4>2. i \in 1..n /\ i + 1 \in 1..n
          BY <1>1
        <4>3. i \in 1..Len(Tail(t)) /\ x = Tail(t)[i]
          BY <1>1, <1>2, <4>1, <4>2
        <4> QED
          BY <4>3 DEF Among
      <3> QED
        BY <2>2, <3>1, <3>2
    <2> QED
      BY <2>1, <2>2
  <1> QED
    BY <1>1, <1>3, <1>4, <1>5 DEF t

LEMMA Posting ==
  ASSUME NEW p, Typed(p), PpsFirst(p), NEW app \in Apps, NEW m \in Mail[app],
         m.kind # "pps" \/ p[app] = <<>>
  PROVE  /\ Typed(Posted(p, app, m)) /\ PpsFirst(Posted(p, app, m))
         /\ Among(Posted(p, app, m)[app]) = Among(p[app]) \cup {m}
         /\ \A b \in Apps \ {app} : Posted(p, app, m)[b] = p[b]
  <1> DEFINE q == Posted(p, app, m)
  <1>1. DOMAIN q = Apps /\ q[app] = Append(p[app], m) /\ \A b \in Apps \ {app} : q[b] = p[b]
    BY DEF Posted, Typed
  <1>2. p[app] \in Seq(Mail[app])
    BY DEF Typed
  <1> DEFINE S == Mail[app]  s == p[app]
  <1> HIDE DEF q, S, s
  <1>3. /\ q[app] \in Seq(Mail[app]) /\ q[app] # <<>>
        /\ Among(q[app]) = Among(p[app]) \cup {m}
        /\ p[app] = <<>> => Among(Tail(q[app])) = {}
        /\ p[app] # <<>> => Among(Tail(q[app])) = Among(Tail(p[app])) \cup {m}
    <2>1. s \in Seq(S) /\ m \in S /\ q[app] = Append(s, m)
      BY <1>1, <1>2 DEF S, s
    <2>2. /\ q[app] \in Seq(S) /\ q[app] # <<>>
          /\ Among(q[app]) = Among(s) \cup {m}
          /\ s = <<>> => Among(Tail(q[app])) = {}
          /\ s # <<>> => Among(Tail(q[app])) = Among(Tail(s)) \cup {m}
      BY <2>1, AppendAmong
    <2> QED
      BY <2>2 DEF S, s
  <1>4. Typed(q)
    BY <1>1, <1>3 DEF Typed
  <1>5. PpsFirst(q)
    BY <1>1, <1>3 DEF PpsFirst, Apps
  <1> QED
    BY <1>1, <1>3, <1>4, <1>5 DEF q

LEMMA Taking ==
  ASSUME Typed(pipe), PpsFirst(pipe), NEW app \in Apps, pipe[app] # <<>>
  PROVE  /\ Typed(Taken(app)) /\ PpsFirst(Taken(app))
         /\ Head(pipe[app]) \in Mail[app]
         /\ Among(pipe[app]) = {Head(pipe[app])} \cup Among(Taken(app)[app])
         /\ app # "geofence" => \A m \in Among(Taken(app)[app]) : m.kind # "pps"
         /\ \A b \in Apps \ {app} : Taken(app)[b] = pipe[b]
  <1> DEFINE q == Taken(app)
  <1>1. DOMAIN q = Apps /\ q[app] = Tail(pipe[app]) /\ \A b \in Apps \ {app} : q[b] = pipe[b]
    BY DEF Taken, Typed
  <1>2. pipe[app] \in Seq(Mail[app])
    BY DEF Typed
  <1> DEFINE S == Mail[app]  s == pipe[app]
  <1> HIDE DEF q, S, s
  <1>3. /\ Head(pipe[app]) \in Mail[app] /\ q[app] \in Seq(Mail[app])
        /\ Among(pipe[app]) = {Head(pipe[app])} \cup Among(q[app])
    <2>1. s \in Seq(S) /\ s # <<>> /\ q[app] = Tail(s)
      BY <1>1, <1>2 DEF S, s
    <2>2. Head(s) \in S /\ q[app] \in Seq(S) /\ Among(s) = {Head(s)} \cup Among(q[app])
      BY <2>1, TailAmong
    <2> QED
      BY <2>2 DEF S, s
  <1>4. q[app] # <<>> => Among(q[app]) = {Head(q[app])} \cup Among(Tail(q[app]))
    BY <1>3, TailAmong
  <1>5. app # "geofence" => \A m \in Among(q[app]) : m.kind # "pps"
    BY <1>1 DEF PpsFirst, Apps
  <1> HIDE DEF q
  <1>6. Typed(q)
    BY <1>1, <1>3 DEF Typed
  <1>7. PpsFirst(q)
    BY <1>1, <1>4, <1>5 DEF PpsFirst, Apps
  <1> QED
    BY <1>1, <1>3, <1>5, <1>6, <1>7 DEF q

-----------------------------------------------------------------------------
(* What a command, or a sentence that gives no fix, leaves behind in a     *)
(* pipe is read in a second that counts as disturbed.                      *)
Disturbs(m) ==
  \/ m.kind \in {"config", "reset", "polling"}
  \/ m.kind = "raw" /\ Gps!Deserialized(m.arg) = Unset

Undisturbed ==
  calm # 0 => \A app \in {"gps", "attitude"} : \A m \in Among(pipe[app]) : ~Disturbs(m)

Holds(app, kind) == \E m \in Among(pipe[app]) : m.kind = kind

(* The heartbeats since the last request are those by which the counter is *)
(* past a multiple of the rate, or fewer.                                  *)
GpsPolls == Gps!Running /\ gps.pollingOn /\ ~gps.blocked /\ gps.framesPerRequest > 0
AttPolls == Att!Running /\ att.enabled /\ ~att.blocked /\ att.framesPerRequest > 0

Counted ==
  /\ GpsPolls => gpsQuiet <= (gps.frameCounter % gps.framesPerRequest)
  /\ AttPolls => attQuiet <= (att.counter % att.framesPerRequest)

(* How long ago the last measurement may have come: while nothing is owed, *)
(* the seconds since the last request; while an answer is owed, the rate   *)
(* and the time since it was asked for; while it is on its way through the *)
(* pipes, the rate and all the time an answer may take.                    *)
Late(device, arrives, quiet, rate) ==
  IF arrives THEN rate + ANSWER_WITHIN
  ELSE IF asked[device] # Unset THEN rate + (now - asked[device]) ELSE quiet

Beat(app) == IF Holds(app, "pps") THEN 1 ELSE 0

PositionLate == Late("receiver", Holds("gps", "raw") \/ Holds("geofence", "ecef"),
                     gpsQuiet + Beat("gps"), gps.framesPerRequest)
AttitudeLate == Late("board", Holds("geofence", "acb"),
                     attQuiet + Beat("attitude"), att.framesPerRequest)

(* Unless the chain was disturbed more recently than that.                 *)
PositionKept == GpsPolls => now - lastPosTime_ <= PositionLate \/ calm <= PositionLate
AttitudeKept == AttPolls => now - lastQTime_ <= AttitudeLate \/ calm <= AttitudeLate

MailInv  == ChainTypeOK /\ PpsFirst(pipe) /\ Undisturbed
AppsInv  == /\ Gps!TypeOK /\ Att!TypeOK /\ MailInv
            /\ Counted /\ PositionKept /\ AttitudeKept
ChainInv == IndInv /\ AppsInv

-----------------------------------------------------------------------------
LEMMA MailMade ==
  /\ ResetMsg \in Mail["gps"] /\ ResetMsg \in Mail["attitude"]
  /\ [kind |-> "pps", arg |-> <<>>] \in Mail["gps"] /\ [kind |-> "pps", arg |-> <<>>] \in Mail["attitude"]
  /\ \A e \in BOOLEAN : \A r \in Rate : Config(e, r) \in Mail["gps"]
  /\ \A e \in BOOLEAN : \A r \in FrameCount : Config(e, r) \in Mail["attitude"]
  /\ \A q \in Pointing : [kind |-> "request", arg |-> q] \in Mail["attitude"]
  /\ \A ok \in BOOLEAN : /\ [kind |-> "polling", arg |-> ok] \in Mail["attitude"]
                         /\ [kind |-> "polling", arg |-> ok] \in Mail["geofence"]
  /\ \A s \in Sentence : [kind |-> "raw", arg |-> s] \in Mail["gps"]
  /\ \A p \in Position : [kind |-> "ecef", arg |-> p] \in Mail["geofence"]
  /\ \A a \in Attitude : [kind |-> "acb", arg |-> a] \in Mail["geofence"]
  /\ Requests \subseteq Mail["geofence"]
  BY DEF Mail, ResetMsg, Config

LEMMA MailRead ==
  /\ \A m \in Mail["gps"] : /\ m.kind = "config" => m.arg \in BOOLEAN \X Rate
                            /\ m.kind = "raw" => m.arg \in Sentence
  /\ \A m \in Mail["attitude"] : /\ m.kind = "config" => m.arg \in BOOLEAN \X FrameCount
                                 /\ m.kind = "polling" => m.arg \in BOOLEAN
  /\ \A m \in Mail["geofence"] : /\ m.kind = "ecef" => m.arg \in Position
                                 /\ m.kind = "acb" => m.arg \in Attitude
                                 /\ m.kind = "polling" => m.arg \in BOOLEAN
  BY DEF Mail, Requests

(* A request is answered by one of GeofenceApp's handlers.                 *)
RequestKinds == {"snap", "download", "load", "reset", "team", "offsets"}

LEMMA RequestRead ==
  ASSUME NEW m \in Mail["geofence"], Handled(m)
  PROVE  /\ m.kind \in RequestKinds /\ Handle
         /\ UNCHANGED <<now, lastPosTime_, lastQTime_>>
  <1>1. m.kind \in RequestKinds
    BY DEF Handled, RequestKinds
  <1>2. m \in Requests
    <2>1. m \in [kind : {"ecef"}, arg : Position] \cup [kind : {"acb"}, arg : Attitude]
                 \cup [kind : {"polling"}, arg : BOOLEAN] \cup Requests
      BY DEF Mail
    <2> QED
      BY <1>1, <2>1 DEF RequestKinds
  <1>3. /\ m.kind \in {"snap", "download"} => m.arg \in ImageId
        /\ m.kind \in {"load", "reset"} => m.arg \in Fence
        /\ m.kind = "team" => m.arg \in Team
        /\ m.kind = "offsets" => m.arg \in Offset
    <2>1. DefaultFile \in Fence
      BY ImagingAssumption DEF ImagingAssumption, DefaultFile
    <2> QED
      BY <1>2, <2>1 DEF Requests
  <1>4. Handle
    BY <1>3 DEF Handled, Handle
  <1>5. UNCHANGED <<now, lastPosTime_, lastQTime_>>
    BY DEF Handled, SnapRequest, DownloadRequest, LoadFence, Reset, TeamChange, SetOffsets, measured
  <1> QED
    BY <1>1, <1>4, <1>5

(* Right after a disturbance nothing is promised.                          *)
LEMMA LateIsLater ==
  ASSUME Gps!TypeOK', Att!TypeOK', ChainTypeOK'
  PROVE  /\ GpsPolls' => PositionLate' \in Nat
         /\ AttPolls' => AttitudeLate' \in Nat
  <1>1. /\ gps'.framesPerRequest \in Nat /\ gpsQuiet' \in Nat
        /\ att'.framesPerRequest \in Nat /\ attQuiet' \in Nat /\ ANSWER_WITHIN \in Nat
    BY ImagingAssumption DEF ImagingAssumption, Gps!TypeOK, Att!TypeOK
  <1>2. \A d \in {"receiver", "board"} : asked'[d] # Unset => now' - asked'[d] \in Nat
    BY <1>1 DEF ChainTypeOK
  <1>3. gpsQuiet' + Beat("gps")' \in Nat /\ attQuiet' + Beat("attitude")' \in Nat
    <2>1. Beat("gps")' \in {0, 1} /\ Beat("attitude")' \in {0, 1}
      BY DEF Beat
    <2> QED
      BY <1>1, <2>1
  <1> QED
    BY <1>1, <1>2, <1>3 DEF PositionLate, AttitudeLate, Late

LEMMA DisturbedKeeps ==
  ASSUME Gps!TypeOK', Att!TypeOK', ChainTypeOK', calm' = 0
  PROVE  Undisturbed' /\ PositionKept' /\ AttitudeKept'
  BY LateIsLater DEF Undisturbed, PositionKept, AttitudeKept

(* Steps that do not reach one half of the chain leave its promise alone.  *)
LEMMA PositionSame ==
  ASSUME PositionKept,
         UNCHANGED <<gpsStatus, gps, gpsQuiet, now, lastPosTime_, calm>>,
         asked'["receiver"] = asked["receiver"],
         Holds("gps", "raw")' \/ Holds("geofence", "ecef")'
           <=> Holds("gps", "raw") \/ Holds("geofence", "ecef"),
         Holds("gps", "pps")' <=> Holds("gps", "pps")
  PROVE  PositionKept'
  BY DEF PositionKept, PositionLate, Late, Beat, GpsPolls, Gps!Running

LEMMA AttitudeSame ==
  ASSUME AttitudeKept,
         UNCHANGED <<attStatus, att, attQuiet, now, lastQTime_, calm>>,
         asked'["board"] = asked["board"],
         Holds("geofence", "acb")' <=> Holds("geofence", "acb"),
         Holds("attitude", "pps")' <=> Holds("attitude", "pps")
  PROVE  AttitudeKept'
  BY DEF AttitudeKept, AttitudeLate, Late, Beat, AttPolls, Att!Running

LEMMA CountedSame ==
  ASSUME Counted, UNCHANGED <<gpsVars, attVars>>
  PROVE  Counted'
  BY DEF Counted, GpsPolls, AttPolls, Gps!Running, Att!Running, gpsVars, attVars

LEMMA AppTypesSame ==
  ASSUME Gps!TypeOK, Att!TypeOK
  PROVE  /\ UNCHANGED gpsVars => Gps!TypeOK'
         /\ UNCHANGED attVars => Att!TypeOK'
  BY DEF Gps!TypeOK, Att!TypeOK, gpsVars, attVars

-----------------------------------------------------------------------------
(* One step of the chain.                                                  *)
LEMMA CommandInv ==
  ASSUME ChainInv, UNCHANGED chained, Command
  PROVE  AppsInv'
  <1>1. Typed(pipe) /\ PpsFirst(pipe) /\ ChainTypeOK
    BY DEF ChainInv, AppsInv, MailInv, ChainTypeOK
  <1>2. Typed(pipe') /\ PpsFirst(pipe')
    <2>1. ASSUME NEW m \in Mail["gps"], pipe["gps"] = <<>>, pipe' = Posted(pipe, "gps", m)
          PROVE  Typed(pipe') /\ PpsFirst(pipe')
      BY <1>1, <2>1, Posting DEF Apps
    <2>2. ASSUME NEW m \in Mail["attitude"], pipe["attitude"] = <<>>, pipe' = Posted(pipe, "attitude", m)
          PROVE  Typed(pipe') /\ PpsFirst(pipe')
      BY <1>1, <2>2, Posting DEF Apps
    <2>3. ASSUME NEW m \in Mail["attitude"] \cap Mail["geofence"],
                 pipe["attitude"] = <<>>, pipe["geofence"] = <<>>,
                 pipe' = Posted(Posted(pipe, "attitude", m), "geofence", m)
          PROVE  Typed(pipe') /\ PpsFirst(pipe')
      <3> DEFINE p == Posted(pipe, "attitude", m)
      <3>1. Typed(p) /\ PpsFirst(p) /\ p["geofence"] = <<>>
        BY <1>1, <2>3, Posting DEF Apps
      <3> HIDE DEF p
      <3>2. Typed(Posted(p, "geofence", m)) /\ PpsFirst(Posted(p, "geofence", m))
        BY <2>3, <3>1, Posting DEF Apps
      <3> QED
        BY <2>3, <3>2 DEF p
    <2> QED
      BY <2>1, <2>2, <2>3, MailMade DEF Command
  <1>3. calm' = 0 /\ UNCHANGED <<fenceVars, gpsVars, attVars, asked>>
    BY DEF Command
  <1>4. ChainTypeOK'
    <2>1. commands' \in 0..MaxCommands
      BY <1>1, ImagingAssumption DEF Command, ChainTypeOK, ImagingAssumption
    <2> QED
      BY <1>1, <1>2, <1>3, <2>1 DEF ChainTypeOK, fenceVars
  <1>5. Gps!TypeOK' /\ Att!TypeOK' /\ Counted'
    BY <1>3, AppTypesSame, CountedSame DEF ChainInv, AppsInv
  <1> QED
    BY <1>2, <1>3, <1>4, <1>5, DisturbedKeeps DEF AppsInv, MailInv

LEMMA RequestInv ==
  ASSUME ChainInv, UNCHANGED chained, Request
  PROVE  AppsInv'
  <1>1. Typed(pipe) /\ PpsFirst(pipe) /\ ChainTypeOK /\ Undisturbed
    BY DEF ChainInv, AppsInv, MailInv, ChainTypeOK
  <1>2. PICK m \in Requests : pipe["geofence"] = <<>> /\ pipe' = Posted(pipe, "geofence", m)
    BY DEF Request
  <1>3. m \in Mail["geofence"] /\ m.kind \in RequestKinds
    BY MailMade DEF Requests, RequestKinds
  <1>4. /\ Typed(pipe') /\ PpsFirst(pipe')
        /\ Among(pipe'["geofence"]) = Among(pipe["geofence"]) \cup {m}
        /\ \A b \in Apps \ {"geofence"} : pipe'[b] = pipe[b]
    BY <1>1, <1>2, <1>3, Posting DEF Apps
  <1>5. UNCHANGED <<fenceVars, gpsVars, attVars, asked, calm>>
    BY DEF Request
  <1>6. UNCHANGED <<now, lastPosTime_, lastQTime_, gpsStatus, gps, gpsQuiet, attStatus, att, attQuiet>>
    BY <1>5 DEF fenceVars, measured, gpsVars, attVars
  <1>7. /\ Holds("gps", "raw")' <=> Holds("gps", "raw")
        /\ Holds("geofence", "ecef")' <=> Holds("geofence", "ecef")
        /\ Holds("geofence", "acb")' <=> Holds("geofence", "acb")
        /\ Holds("gps", "pps")' <=> Holds("gps", "pps")
        /\ Holds("attitude", "pps")' <=> Holds("attitude", "pps")
    BY <1>3, <1>4 DEF Holds, Apps, RequestKinds
  <1>8. Undisturbed'
    BY <1>1, <1>4, <1>5 DEF Undisturbed, Apps
  <1>9. ChainTypeOK'
    <2>1. commands' \in 0..MaxCommands
      BY <1>1, ImagingAssumption DEF Request, ChainTypeOK, ImagingAssumption
    <2> QED
      BY <1>1, <1>4, <1>5, <1>6, <2>1 DEF ChainTypeOK
  <1>10. Gps!TypeOK' /\ Att!TypeOK' /\ Counted'
    BY <1>5, AppTypesSame, CountedSame DEF ChainInv, AppsInv
  <1>11. PositionKept' /\ AttitudeKept'
    BY <1>5, <1>6, <1>7, PositionSame, AttitudeSame DEF ChainInv, AppsInv
  <1> QED
    BY <1>4, <1>8, <1>9, <1>10, <1>11 DEF AppsInv, MailInv

LEMMA PpsInv ==
  ASSUME ChainInv, UNCHANGED chained, Pps
  PROVE  AppsInv'
  <1> DEFINE m == [kind |-> "pps", arg |-> <<>>]
             p == Posted(pipe, "gps", m)
  <1>1. Typed(pipe) /\ PpsFirst(pipe) /\ ChainTypeOK
    BY DEF ChainInv, AppsInv, MailInv, ChainTypeOK
  <1>2. /\ \A app \in Apps : pipe[app] = <<>>
        /\ \A d \in DOMAIN asked : asked[d] # Unset => now - asked[d] < ANSWER_WITHIN
        /\ pipe' = Posted(p, "attitude", m) /\ now' = now + 1 /\ calm' = calm + 1
        /\ UNCHANGED <<gpsVars, attVars, asked, commands, lastPosTime_, lastQTime_>>
    BY DEF Pps, Tick, measured
  <1>3. m.kind = "pps" /\ m \in Mail["gps"] /\ m \in Mail["attitude"]
    BY MailMade
  <1> HIDE DEF m
  <1>4. /\ Typed(p) /\ PpsFirst(p) /\ Among(p["gps"]) = Among(pipe["gps"]) \cup {m}
        /\ \A b \in Apps \ {"gps"} : p[b] = pipe[b]
    BY <1>1, <1>2, <1>3, Posting DEF Apps
  <1> HIDE DEF p
  <1>5. /\ Typed(pipe') /\ PpsFirst(pipe') /\ Among(pipe'["attitude"]) = Among(p["attitude"]) \cup {m}
        /\ \A b \in Apps \ {"attitude"} : pipe'[b] = p[b]
    BY <1>2, <1>3, <1>4, Posting DEF Apps
  <1>6. /\ \A app \in Apps : Among(pipe[app]) = {}
        /\ Among(pipe'["gps"]) = {m} /\ Among(pipe'["attitude"]) = {m} /\ Among(pipe'["geofence"]) = {}
    <2>1. \A app \in Apps : Among(pipe[app]) = {}
      BY <1>2 DEF Among
    <2> QED
      BY <1>4, <1>5, <2>1 DEF Apps
  <1>7. now \in Nat /\ calm \in Nat /\ lastPosTime_ \in Nat /\ lastQTime_ \in Nat /\ ANSWER_WITHIN \in Nat
    BY <1>1, ClockAssumption, ImagingAssumption
    DEF ChainInv, AppsInv, IndInv, TypeOK, ChainTypeOK, ClockAssumption, ImagingAssumption
  <1>8. ChainTypeOK'
    <2>1. \A d \in DOMAIN asked' : asked'[d] # Unset => now' - asked'[d] \in 0..ANSWER_WITHIN
      BY <1>1, <1>2, <1>7 DEF ChainTypeOK
    <2> QED
      BY <1>1, <1>2, <1>5, <1>7, <2>1 DEF ChainTypeOK
  <1>9. Gps!TypeOK' /\ Att!TypeOK' /\ Counted'
    BY <1>2, AppTypesSame, CountedSame DEF ChainInv, AppsInv
  <1>10. Undisturbed'
    BY <1>3, <1>6 DEF Undisturbed, Disturbs
  <1>11. /\ ~Holds("gps", "raw") /\ ~Holds("gps", "raw")' /\ ~Holds("geofence", "ecef") /\ ~Holds("geofence", "ecef")'
         /\ ~Holds("geofence", "acb") /\ ~Holds("geofence", "acb")'
         /\ ~Holds("gps", "pps") /\ Holds("gps", "pps")' /\ ~Holds("attitude", "pps") /\ Holds("attitude", "pps")'
    BY <1>3, <1>6 DEF Holds, Apps
  <1>12. \A d \in {"receiver", "board"} : asked[d] # Unset => asked[d] \in Nat
    BY <1>1 DEF ChainTypeOK
  <1>13. PositionKept'
    <2>1. gps.framesPerRequest \in Nat /\ gpsQuiet \in Nat
      BY ImagingAssumption DEF ChainInv, AppsInv, ImagingAssumption, Gps!TypeOK
    <2>2. GpsPolls' => GpsPolls /\ (now - lastPosTime_ <= PositionLate \/ calm <= PositionLate)
      BY <1>2 DEF ChainInv, AppsInv, PositionKept, GpsPolls, Gps!Running, gpsVars
    <2>3. Beat("gps") = 0 /\ Beat("gps")' = 1
      BY <1>11 DEF Beat
    <2>4. PositionLate = IF asked["receiver"] # Unset
                         THEN gps.framesPerRequest + (now - asked["receiver"]) ELSE gpsQuiet + Beat("gps")
      BY <1>11 DEF PositionLate, Late
    <2>5. PositionLate' = IF asked'["receiver"] # Unset
                          THEN gps'.framesPerRequest + (now' - asked'["receiver"])
                          ELSE gpsQuiet' + Beat("gps")'
      BY <1>11 DEF PositionLate, Late
    <2>6. UNCHANGED <<gps, gpsQuiet, asked>> /\ now' = now + 1
      BY <1>2 DEF gpsVars
    <2>7. PositionLate' = PositionLate + 1 /\ PositionLate \in Int
      BY <1>7, <1>12, <2>1, <2>3, <2>4, <2>5, <2>6
    <2> QED
      BY <1>2, <1>7, <2>2, <2>7 DEF PositionKept
  <1>14. AttitudeKept'
    <2>1. att.framesPerRequest \in Nat /\ attQuiet \in Nat
      BY ImagingAssumption DEF ChainInv, AppsInv, ImagingAssumption, Att!TypeOK
    <2>2. AttPolls' => AttPolls /\ (now - lastQTime_ <= AttitudeLate \/ calm <= AttitudeLate)
      BY <1>2 DEF ChainInv, AppsInv, AttitudeKept, AttPolls, Att!Running, attVars
    <2>3. Beat("attitude") = 0 /\ Beat("attitude")' = 1
      BY <1>11 DEF Beat
    <2>4. AttitudeLate = IF asked["board"] # Unset
                         THEN att.framesPerRequest + (now - asked["board"]) ELSE attQuiet + Beat("attitude")
      BY <1>11 DEF AttitudeLate, Late
    <2>5. AttitudeLate' = IF asked'["board"] # Unset
                          THEN att'.framesPerRequest + (now' - asked'["board"])
                          ELSE attQuiet' + Beat("attitude")'
      BY <1>11 DEF AttitudeLate, Late
    <2>6. UNCHANGED <<att, attQuiet, asked>> /\ now' = now + 1
      BY <1>2 DEF attVars
    <2>7. AttitudeLate' = AttitudeLate + 1 /\ AttitudeLate \in Int
      BY <1>7, <1>12, <2>1, <2>3, <2>4, <2>5, <2>6
    <2> QED
      BY <1>2, <1>7, <2>2, <2>7 DEF AttitudeKept
  <1> QED
    BY <1>5, <1>8, <1>9, <1>10, <1>13, <1>14 DEF AppsInv, MailInv

(* An application takes the first message of its pipe.                     *)
LEMMA Took ==
  ASSUME MailInv, NEW app \in Apps, NEW kind, Waits(app, kind), pipe' = Taken(app)
  PROVE  /\ Typed(pipe') /\ PpsFirst(pipe')
         /\ Head(pipe[app]) \in Mail[app] /\ Head(pipe[app]).kind = kind
         /\ \A b \in Apps : \A k : b # app \/ k # kind => (Holds(b, k)' <=> Holds(b, k))
         /\ Holds(app, kind) /\ (app # "geofence" => ~Holds(app, "pps")')
         /\ calm' = calm => Undisturbed'
         /\ app # "geofence" /\ calm # 0 => ~Disturbs(Head(pipe[app]))
  <1> DEFINE m == Head(pipe[app])
  <1>1. Typed(pipe) /\ PpsFirst(pipe) /\ pipe[app] # <<>> /\ m.kind = kind
    BY DEF MailInv, ChainTypeOK, Waits
  <1>2. /\ Typed(pipe') /\ PpsFirst(pipe') /\ m \in Mail[app]
        /\ Among(pipe[app]) = {m} \cup Among(pipe'[app])
        /\ app # "geofence" => \A x \in Among(pipe'[app]) : x.kind # "pps"
        /\ \A b \in Apps \ {app} : pipe'[b] = pipe[b]
    BY <1>1, Taking
  <1> HIDE DEF m
  <1>3. \A b \in Apps : \A k : b # app \/ k # kind => (Holds(b, k)' <=> Holds(b, k))
    <2> SUFFICES ASSUME NEW b \in Apps, NEW k, b # app \/ k # kind
                 PROVE  Holds(b, k)' <=> Holds(b, k)
      OBVIOUS
    <2>1. CASE b # app
      BY <1>2, <2>1 DEF Holds
    <2>2. CASE b = app /\ k # kind
      BY <1>1, <1>2, <2>2 DEF Holds
    <2> QED
      BY <2>1, <2>2
  <1>4. Holds(app, kind) /\ (app # "geofence" => ~Holds(app, "pps")')
    BY <1>1, <1>2 DEF Holds
  <1>5. calm' = calm => Undisturbed'
    BY <1>2 DEF MailInv, Undisturbed, Apps
  <1>6. app # "geofence" /\ calm # 0 => ~Disturbs(m)
    BY <1>2 DEF MailInv, Undisturbed, Apps
  <1> QED
    BY <1>1, <1>2, <1>3, <1>4, <1>5, <1>6 DEF m

LEMMA MailTypes ==
  ASSUME ChainTypeOK, UNCHANGED <<chained, now, commands>>, Typed(pipe'), calm' \in Nat,
         asked' \in [{"receiver", "board"} -> Nat \cup {Unset}],
         \A d \in {"receiver", "board"} :
           asked'[d] # asked[d] /\ asked'[d] # Unset => asked'[d] = now
  PROVE  ChainTypeOK'
  <1>1. ANSWER_WITHIN \in Nat
    BY ImagingAssumption DEF ImagingAssumption
  <1>2. \A d \in {"receiver", "board"} : asked'[d] # Unset => now' - asked'[d] \in 0..ANSWER_WITHIN
    <2> SUFFICES ASSUME NEW d \in {"receiver", "board"}, asked'[d] # Unset
                 PROVE  now' - asked'[d] \in 0..ANSWER_WITHIN
      OBVIOUS
    <2>1. CASE asked'[d] = asked[d]
      BY <2>1 DEF ChainTypeOK
    <2>2. CASE asked'[d] # asked[d]
      <3>1. asked'[d] = now /\ asked'[d] \in Nat
        BY <2>2
      <3> QED
        BY <1>1, <3>1
    <2> QED
      BY <2>1, <2>2
  <1> QED
    BY <1>2 DEF ChainTypeOK

LEMMA GpsPpsInv ==
  ASSUME ChainInv, UNCHANGED <<chained, fenceVars, attVars, commands, calm>>,
         Waits("gps", "pps"), Gps!OnPps, pipe' = Taken("gps"),
         asked' = Asking("receiver", Gps!OnPpsSends)
  PROVE  AppsInv'
  <1> DEFINE r == gps.framesPerRequest  c == gps.frameCounter
  <1>1. /\ ChainTypeOK /\ Gps!TypeOK /\ Att!TypeOK /\ MailInv /\ now \in Nat
        /\ UNCHANGED <<now, lastPosTime_, lastQTime_, attStatus, att, attQuiet>>
    BY ClockAssumption DEF ChainInv, AppsInv, MailInv, IndInv, TypeOK, fenceVars, measured, attVars
  <1>2. r \in Nat /\ c \in Nat /\ gpsQuiet \in Nat
    BY <1>1, ImagingAssumption DEF ImagingAssumption, Gps!TypeOK
  <1>3. /\ Typed(pipe') /\ PpsFirst(pipe') /\ Undisturbed'
        /\ (Holds("gps", "raw")' <=> Holds("gps", "raw"))
        /\ (Holds("geofence", "ecef")' <=> Holds("geofence", "ecef"))
        /\ (Holds("geofence", "acb")' <=> Holds("geofence", "acb"))
        /\ (Holds("attitude", "pps")' <=> Holds("attitude", "pps"))
        /\ Holds("gps", "pps") /\ ~Holds("gps", "pps")'
    BY <1>1, Took DEF Apps
  <1>4. /\ Gps!Running /\ gps' = [gps EXCEPT !.frameCounter = @ + 1]
        /\ gpsQuiet' = IF Gps!Due THEN 0 ELSE gpsQuiet + 1
        /\ gpsStatus' \in {gpsStatus, "trapped"}
    BY DEF Gps!OnPps
  <1>5. /\ gps'.framesPerRequest = r /\ gps'.frameCounter = c + 1
        /\ gps'.blocked = gps.blocked /\ gps'.pollingOn = gps.pollingOn
    BY <1>1, <1>4 DEF Gps!TypeOK
  <1>6. Gps!TypeOK'
    BY <1>1, <1>2, <1>4 DEF Gps!TypeOK
  <1>7. Att!TypeOK'
    BY <1>1, AppTypesSame DEF attVars
  <1>8. asked' = IF Gps!Due /\ asked["receiver"] = Unset THEN [asked EXCEPT !["receiver"] = now] ELSE asked
    BY DEF Asking, Gps!OnPpsSends
  <1>9. ChainTypeOK'
    <2>1. asked' \in [{"receiver", "board"} -> Nat \cup {Unset}]
      BY <1>1, <1>8 DEF ChainTypeOK
    <2>2. \A d \in {"receiver", "board"} :
            asked'[d] # asked[d] /\ asked'[d] # Unset => asked'[d] = now
      BY <1>1, <1>8 DEF ChainTypeOK
    <2>3. calm' \in Nat
      BY <1>1 DEF ChainTypeOK
    <2> QED
      BY <1>1, <1>3, <2>1, <2>2, <2>3, MailTypes
  <1>10. asked'["board"] = asked["board"]
    BY <1>1, <1>8 DEF ChainTypeOK
  <1>11. AttitudeKept'
    BY <1>1, <1>3, <1>10, AttitudeSame DEF ChainInv, AppsInv
  <1>12. Counted' /\ PositionKept'
    <2>1. AttPolls' <=> AttPolls
      BY <1>1 DEF AttPolls, Att!Running
    <2>2. CASE ~GpsPolls'
      BY <1>1, <2>1, <2>2 DEF ChainInv, AppsInv, Counted, PositionKept
    <2>3. CASE GpsPolls'
      <3>1. GpsPolls /\ r > 0
        BY <1>4, <1>5, <2>3 DEF GpsPolls, Gps!Running
      <3>2. Gps!Due <=> ((c + 1) % r) = 0
        BY <3>1 DEF Gps!Due, GpsPolls
      <3>3. gpsQuiet <= (c % r) /\ (now - lastPosTime_ <= PositionLate \/ calm <= PositionLate)
        BY <3>1 DEF ChainInv, AppsInv, Counted, PositionKept
      <3> HIDE DEF c, r
      <3>4. /\ (c % r) \in 0..(r - 1)
            /\ ((c + 1) % r) # 0 => ((c + 1) % r) = (c % r) + 1
            /\ ((c + 1) % r) = 0 => (c % r) = r - 1
        <4>1. c \in Nat /\ r \in Nat \ {0}
          BY <1>2, <3>1
        <4> QED
          BY <4>1, NextRemainder, Zenon
      <3>5. gpsQuiet' <= ((c + 1) % r)
        BY <1>2, <1>4, <3>2, <3>3, <3>4
      <3>6. Counted'
        BY <1>1, <1>5, <2>1, <3>5 DEF ChainInv, AppsInv, Counted
      <3>7. Beat("gps") = 1 /\ Beat("gps")' = 0
        BY <1>3 DEF Beat
      <3>8. CASE Holds("gps", "raw") \/ Holds("geofence", "ecef")
        <4>1. PositionLate' = PositionLate
          BY <1>3, <1>5, <3>8 DEF PositionLate, Late, r
        <4> QED
          BY <1>1, <3>3, <3>6, <4>1 DEF PositionKept
      <3>9. CASE ~(Holds("gps", "raw") \/ Holds("geofence", "ecef"))
        <4>1. PositionLate = IF asked["receiver"] # Unset THEN r + (now - asked["receiver"])
                                                          ELSE gpsQuiet + Beat("gps")
          BY <3>9 DEF PositionLate, Late, r
        <4>2. PositionLate' = IF asked'["receiver"] # Unset THEN r + (now - asked'["receiver"])
                                                            ELSE gpsQuiet' + Beat("gps")'
          BY <1>1, <1>3, <1>5, <3>9 DEF PositionLate, Late, r
        <4>3. CASE asked["receiver"] # Unset \/ ~Gps!Due
          <5>1. asked' = asked
            BY <1>8, <4>3
          <5>2. PositionLate' = PositionLate
            <6>1. CASE asked["receiver"] # Unset
              BY <4>1, <4>2, <5>1, <6>1
            <6>2. CASE asked["receiver"] = Unset
              BY <1>2, <1>4, <3>7, <4>1, <4>2, <4>3, <5>1, <6>2
            <6> QED
              BY <6>1, <6>2
          <5> QED
            BY <1>1, <3>3, <3>6, <5>2 DEF PositionKept
        <4>4. CASE asked["receiver"] = Unset /\ Gps!Due
          <5>1. asked'["receiver"] = now /\ now # Unset
            BY <1>1, <1>8, <4>4, ImagingAssumption DEF ChainTypeOK, ImagingAssumption
          <5>2. PositionLate = gpsQuiet + 1 /\ PositionLate' = r + (now - now)
            BY <3>7, <4>1, <4>2, <4>4, <5>1
          <5>3. PositionLate' = r /\ PositionLate <= r /\ PositionLate \in Int
            BY <1>1, <1>2, <3>3, <3>4, <5>2
          <5>4. lastPosTime_ \in Int /\ calm \in Int
            BY <1>1, ClockAssumption DEF ChainInv, IndInv, TypeOK, ChainTypeOK
          <5> QED
            BY <1>1, <1>2, <3>3, <3>6, <5>3, <5>4 DEF PositionKept
        <4> QED
          BY <4>3, <4>4
      <3> QED
        BY <3>6, <3>8, <3>9
    <2> QED
      BY <2>2, <2>3
  <1> QED
    BY <1>3, <1>6, <1>7, <1>9, <1>11, <1>12 DEF AppsInv, MailInv

LEMMA GpsStepInv ==
  ASSUME ChainInv, UNCHANGED chained, GpsStep
  PROVE  AppsInv'
  <1>1. /\ ChainTypeOK /\ Gps!TypeOK /\ Att!TypeOK /\ MailInv /\ now \in Nat
        /\ UNCHANGED <<fenceVars, attVars, commands, calm>>
        /\ UNCHANGED <<now, lastPosTime_, lastQTime_, attStatus, att, attQuiet>>
    BY ClockAssumption
    DEF ChainInv, AppsInv, MailInv, IndInv, TypeOK, GpsStep, fenceVars, measured, attVars
  <1>2. Att!TypeOK' /\ (AttPolls' <=> AttPolls)
    BY <1>1, AppTypesSame DEF attVars, AttPolls, Att!Running
  <1>3. CASE Waits("gps", "pps") /\ Gps!OnPps /\ pipe' = Taken("gps") /\ asked' = Asking("receiver", Gps!OnPpsSends)
    BY <1>1, <1>3, GpsPpsInv
  <1>4. CASE Gps!Initialize /\ UNCHANGED <<pipe, asked>>
    <2>1. gps' = Gps!Fresh0 /\ gpsQuiet' = 0 /\ gpsStatus' = "running"
      BY <1>4 DEF Gps!Initialize
    <2>2. Gps!TypeOK' /\ ~GpsPolls'
      BY <2>1, ImagingAssumption DEF Gps!TypeOK, Gps!Fresh0, GpsPolls, ImagingAssumption
    <2>3. MailInv'
      BY <1>1, <1>4 DEF MailInv, ChainTypeOK, Undisturbed
    <2>4. AttitudeKept'
      BY <1>1, <1>4, AttitudeSame DEF ChainInv, AppsInv, Holds
    <2>5. Counted' /\ PositionKept'
      BY <1>1, <1>2, <2>2 DEF ChainInv, AppsInv, Counted, PositionKept
    <2> QED
      BY <1>2, <2>2, <2>3, <2>4, <2>5 DEF AppsInv
  <1>5. ASSUME NEW kind \in {"config", "reset"}, Waits("gps", kind),
               pipe' = Taken("gps"), asked' = asked, Gps!TypeOK', gpsQuiet' = 0, GpsPolls' => gps'.frameCounter \in Nat
        PROVE  AppsInv'
    <2>1. Typed(pipe') /\ PpsFirst(pipe') /\ calm = 0
      BY <1>1, <1>5, Took DEF Apps, Disturbs
    <2>2. ChainTypeOK'
      BY <1>1, <1>5, <2>1, MailTypes DEF ChainTypeOK
    <2>3. Undisturbed' /\ PositionKept' /\ AttitudeKept'
      BY <1>1, <1>2, <1>5, <2>1, <2>2, DisturbedKeeps
    <2>4. Counted'
      <3>1. gps'.framesPerRequest \in Nat
        BY <1>5, ImagingAssumption DEF Gps!TypeOK, ImagingAssumption
      <3>2. GpsPolls' => (gps'.frameCounter % gps'.framesPerRequest) \in Nat
        <4> SUFFICES ASSUME GpsPolls' PROVE (gps'.frameCounter % gps'.framesPerRequest) \in Nat
          OBVIOUS
        <4>1. gps'.framesPerRequest \in Nat \ {0} /\ gps'.frameCounter \in Nat
          BY <1>5, <3>1 DEF GpsPolls
        <4> QED
          BY <4>1
      <3> QED
        BY <1>1, <1>2, <1>5, <3>2 DEF ChainInv, AppsInv, Counted
    <2> QED
      BY <1>2, <1>5, <2>1, <2>2, <2>3, <2>4 DEF AppsInv, MailInv
  <1>6. CASE /\ Waits("gps", "config") /\ Gps!Config(Arg("gps")[1], Arg("gps")[2])
             /\ pipe' = Taken("gps") /\ UNCHANGED asked
    <2>1. Arg("gps") \in BOOLEAN \X Rate
      BY <1>1, <1>6, Took, MailRead DEF Apps, Arg
    <2>2. gpsQuiet' = 0 /\ Gps!TypeOK' /\ gps'.frameCounter = 0
      BY <1>1, <1>6, <2>1 DEF Gps!Config, Gps!TypeOK
    <2> QED
      BY <1>5, <1>6, <2>2
  <1>7. CASE Waits("gps", "reset") /\ Gps!Reset /\ pipe' = Taken("gps") /\ UNCHANGED asked
    <2>1. gpsQuiet' = 0 /\ Gps!TypeOK' /\ gps'.frameCounter = 0
      BY <1>1, <1>7, ImagingAssumption DEF Gps!Reset, Gps!Fresh0, Gps!TypeOK, ImagingAssumption
    <2> QED
      BY <1>5, <1>7, <2>1
  <1>8. ASSUME Waits("gps", "raw"), Gps!RawGps, UNCHANGED asked,
               LET fix == Gps!RawGpsSends(Arg("gps"))
               IN  pipe' = IF fix = <<>> THEN Taken("gps")
                           ELSE Posted(Taken("gps"), "geofence", [kind |-> "ecef", arg |-> fix[2][2]])
        PROVE  AppsInv'
    <2> DEFINE s == Arg("gps")  p == Taken("gps")
    <2>1. /\ Typed(pipe) /\ PpsFirst(pipe) /\ pipe["gps"] # <<>> /\ Head(pipe["gps"]).kind = "raw"
      BY <1>1, <1>8 DEF MailInv, ChainTypeOK, Waits
    <2>2. /\ Typed(p) /\ PpsFirst(p) /\ Head(pipe["gps"]) \in Mail["gps"]
          /\ Among(pipe["gps"]) = {Head(pipe["gps"])} \cup Among(p["gps"])
          /\ p["geofence"] = pipe["geofence"] /\ p["attitude"] = pipe["attitude"]
      BY <2>1, Taking DEF Apps
    <2> HIDE DEF p
    <2>3. s \in Sentence
      BY <2>1, <2>2, MailRead DEF Arg
    <2>4. s.at \in Position /\ s.at # Unset
      BY <2>3, ImagingAssumption, UnsetAssumption DEF ImagingAssumption, UnsetAssumption
    <2>5. UNCHANGED <<gpsStatus, gps, gpsQuiet, asked>> /\ Gps!TypeOK' /\ Counted'
      BY <1>1, <1>8, AppTypesSame, CountedSame DEF Gps!RawGps, gpsVars, ChainInv, AppsInv
    <2>6. CASE Gps!Deserialized(s) = Unset
      <3>1. Disturbs(Head(pipe["gps"]))
        BY <2>1, <2>6 DEF Disturbs, Arg
      <3>2. calm = 0
        BY <1>1, <2>2, <3>1 DEF MailInv, Undisturbed
      <3>3. pipe' = p
        BY <1>8, <2>6 DEF Gps!RawGpsSends, p
      <3>4. ChainTypeOK'
        BY <1>1, <2>2, <2>5, <3>3, MailTypes DEF ChainTypeOK
      <3> QED
        BY <1>1, <1>2, <2>2, <2>5, <3>2, <3>3, <3>4, DisturbedKeeps DEF AppsInv, MailInv
    <2>7. CASE Gps!Deserialized(s) # Unset
      <3> DEFINE m == [kind |-> "ecef", arg |-> s.at]
      <3>1. pipe' = Posted(p, "geofence", m)
        BY <1>8, <2>4, <2>7 DEF Gps!RawGpsSends, Gps!Deserialized, p
      <3>2. m \in Mail["geofence"] /\ m.kind = "ecef"
        BY <2>4, MailMade
      <3> HIDE DEF m
      <3>3. /\ Typed(pipe') /\ PpsFirst(pipe')
            /\ Among(pipe'["geofence"]) = Among(p["geofence"]) \cup {m}
            /\ pipe'["gps"] = p["gps"] /\ pipe'["attitude"] = p["attitude"]
        <4>1. "geofence" \in Apps /\ m.kind # "pps" /\ "gps" \in Apps /\ "attitude" \in Apps
          BY <3>2 DEF Apps
        <4>2. /\ Typed(Posted(p, "geofence", m)) /\ PpsFirst(Posted(p, "geofence", m))
              /\ Among(Posted(p, "geofence", m)["geofence"]) = Among(p["geofence"]) \cup {m}
              /\ \A b \in Apps \ {"geofence"} : Posted(p, "geofence", m)[b] = p[b]
          BY <2>2, <3>2, <4>1, Posting
        <4> QED
          BY <3>1, <4>1, <4>2
      <3>4. ChainTypeOK'
        BY <1>1, <2>5, <3>3, MailTypes DEF ChainTypeOK
      <3>5. Undisturbed'
        BY <1>1, <2>2, <3>3 DEF MailInv, Undisturbed
      <3>6. /\ Holds("gps", "raw") /\ Holds("geofence", "ecef")'
            /\ (Holds("gps", "pps")' <=> Holds("gps", "pps"))
            /\ (Holds("geofence", "acb")' <=> Holds("geofence", "acb"))
            /\ (Holds("attitude", "pps")' <=> Holds("attitude", "pps"))
        BY <2>1, <2>2, <3>2, <3>3 DEF Holds
      <3>7. PositionKept'
        BY <1>1, <2>5, <3>6, PositionSame DEF ChainInv, AppsInv
      <3>8. AttitudeKept'
        BY <1>1, <2>5, <3>6, AttitudeSame DEF ChainInv, AppsInv
      <3> QED
        BY <1>2, <2>5, <3>3, <3>4, <3>5, <3>7, <3>8 DEF AppsInv, MailInv
    <2> QED
      BY <2>6, <2>7
  <1> QED
    BY <1>3, <1>4, <1>6, <1>7, <1>8 DEF GpsStep

LEMMA AttitudePpsInv ==
  ASSUME ChainInv, UNCHANGED <<chained, fenceVars, gpsVars, commands, calm>>,
         Waits("attitude", "pps"), Att!OnHeartbeat, pipe' = Taken("attitude"),
         asked' = Asking("board", Att!OnHeartbeatSends)
  PROVE  AppsInv'
  <1> DEFINE r == att.framesPerRequest  c == att.counter
  <1>1. /\ ChainTypeOK /\ Gps!TypeOK /\ Att!TypeOK /\ MailInv /\ now \in Nat
        /\ UNCHANGED <<now, lastPosTime_, lastQTime_, gpsStatus, gps, gpsQuiet>>
    BY ClockAssumption DEF ChainInv, AppsInv, MailInv, IndInv, TypeOK, fenceVars, measured, gpsVars
  <1>2. r \in Nat /\ c \in Nat /\ attQuiet \in Nat
    BY <1>1, ImagingAssumption DEF ImagingAssumption, Att!TypeOK
  <1>3. /\ Typed(pipe') /\ PpsFirst(pipe') /\ Undisturbed'
        /\ (Holds("gps", "raw")' <=> Holds("gps", "raw"))
        /\ (Holds("geofence", "ecef")' <=> Holds("geofence", "ecef"))
        /\ (Holds("geofence", "acb")' <=> Holds("geofence", "acb"))
        /\ (Holds("gps", "pps")' <=> Holds("gps", "pps"))
        /\ Holds("attitude", "pps") /\ ~Holds("attitude", "pps")'
    BY <1>1, Took DEF Apps
  <1>4. /\ Att!Running /\ att' = [att EXCEPT !.counter = @ + 1]
        /\ attQuiet' = IF Att!Due THEN 0 ELSE attQuiet + 1
        /\ attStatus' \in {attStatus, "trapped"}
    BY DEF Att!OnHeartbeat
  <1>5. /\ att'.framesPerRequest = r /\ att'.counter = c + 1
        /\ att'.blocked = att.blocked /\ att'.enabled = att.enabled
    BY <1>1, <1>4 DEF Att!TypeOK
  <1>6. Att!TypeOK'
    BY <1>1, <1>2, <1>4 DEF Att!TypeOK
  <1>7. Gps!TypeOK'
    BY <1>1, AppTypesSame DEF gpsVars
  <1>8. asked' = IF Att!Due /\ asked["board"] = Unset THEN [asked EXCEPT !["board"] = now] ELSE asked
    BY DEF Asking, Att!OnHeartbeatSends
  <1>9. ChainTypeOK'
    <2>1. asked' \in [{"receiver", "board"} -> Nat \cup {Unset}]
      BY <1>1, <1>8 DEF ChainTypeOK
    <2>2. \A d \in {"receiver", "board"} :
            asked'[d] # asked[d] /\ asked'[d] # Unset => asked'[d] = now
      BY <1>1, <1>8 DEF ChainTypeOK
    <2>3. calm' \in Nat
      BY <1>1 DEF ChainTypeOK
    <2> QED
      BY <1>1, <1>3, <2>1, <2>2, <2>3, MailTypes
  <1>10. asked'["receiver"] = asked["receiver"]
    BY <1>1, <1>8 DEF ChainTypeOK
  <1>11. PositionKept'
    BY <1>1, <1>3, <1>10, PositionSame DEF ChainInv, AppsInv
  <1>12. Counted' /\ AttitudeKept'
    <2>1. GpsPolls' <=> GpsPolls
      BY <1>1 DEF GpsPolls, Gps!Running
    <2>2. CASE ~AttPolls'
      BY <1>1, <2>1, <2>2 DEF ChainInv, AppsInv, Counted, AttitudeKept
    <2>3. CASE AttPolls'
      <3>1. AttPolls /\ r > 0
        BY <1>4, <1>5, <2>3 DEF AttPolls, Att!Running
      <3>2. Att!Due <=> ((c + 1) % r) = 0
        BY <3>1 DEF Att!Due, AttPolls
      <3>3. attQuiet <= (c % r) /\ (now - lastQTime_ <= AttitudeLate \/ calm <= AttitudeLate)
        BY <3>1 DEF ChainInv, AppsInv, Counted, AttitudeKept
      <3> HIDE DEF c, r
      <3>4. /\ (c % r) \in 0..(r - 1)
            /\ ((c + 1) % r) # 0 => ((c + 1) % r) = (c % r) + 1
            /\ ((c + 1) % r) = 0 => (c % r) = r - 1
        <4>1. c \in Nat /\ r \in Nat \ {0}
          BY <1>2, <3>1
        <4> QED
          BY <4>1, NextRemainder, Zenon
      <3>5. attQuiet' <= ((c + 1) % r)
        BY <1>2, <1>4, <3>2, <3>3, <3>4
      <3>6. Counted'
        BY <1>1, <1>5, <2>1, <3>5 DEF ChainInv, AppsInv, Counted
      <3>7. Beat("attitude") = 1 /\ Beat("attitude")' = 0
        BY <1>3 DEF Beat
      <3>8. CASE Holds("geofence", "acb")
        <4>1. AttitudeLate' = AttitudeLate
          BY <1>3, <1>5, <3>8 DEF AttitudeLate, Late, r
        <4> QED
          BY <1>1, <3>3, <3>6, <4>1 DEF AttitudeKept
      <3>9. CASE ~Holds("geofence", "acb")
        <4>1. AttitudeLate = IF asked["board"] # Unset THEN r + (now - asked["board"])
                                                       ELSE attQuiet + Beat("attitude")
          BY <3>9 DEF AttitudeLate, Late, r
        <4>2. AttitudeLate' = IF asked'["board"] # Unset THEN r + (now - asked'["board"])
                                                         ELSE attQuiet' + Beat("attitude")'
          BY <1>1, <1>3, <1>5, <3>9 DEF AttitudeLate, Late, r
        <4>3. CASE asked["board"] # Unset \/ ~Att!Due
          <5>1. asked' = asked
            BY <1>8, <4>3
          <5>2. AttitudeLate' = AttitudeLate
            <6>1. CASE asked["board"] # Unset
              BY <4>1, <4>2, <5>1, <6>1
            <6>2. CASE asked["board"] = Unset
              BY <1>2, <1>4, <3>7, <4>1, <4>2, <4>3, <5>1, <6>2
            <6> QED
              BY <6>1, <6>2
          <5> QED
            BY <1>1, <3>3, <3>6, <5>2 DEF AttitudeKept
        <4>4. CASE asked["board"] = Unset /\ Att!Due
          <5>1. asked'["board"] = now /\ now # Unset
            BY <1>1, <1>8, <4>4, ImagingAssumption DEF ChainTypeOK, ImagingAssumption
          <5>2. AttitudeLate = attQuiet + 1 /\ AttitudeLate' = r + (now - now)
            BY <3>7, <4>1, <4>2, <4>4, <5>1
          <5>3. AttitudeLate' = r /\ AttitudeLate <= r /\ AttitudeLate \in Int
            BY <1>1, <1>2, <3>3, <3>4, <5>2
          <5>4. lastQTime_ \in Int /\ calm \in Int
            BY <1>1, ClockAssumption DEF ChainInv, IndInv, TypeOK, ChainTypeOK
          <5> QED
            BY <1>1, <1>2, <3>3, <3>6, <5>3, <5>4 DEF AttitudeKept
        <4> QED
          BY <4>3, <4>4
      <3> QED
        BY <3>6, <3>8, <3>9
    <2> QED
      BY <2>2, <2>3
  <1> QED
    BY <1>3, <1>6, <1>7, <1>9, <1>11, <1>12 DEF AppsInv, MailInv

LEMMA AttitudeStepInv ==
  ASSUME ChainInv, UNCHANGED chained, AttitudeStep
  PROVE  AppsInv'
  <1>1. /\ ChainTypeOK /\ Gps!TypeOK /\ Att!TypeOK /\ MailInv /\ now \in Nat
        /\ UNCHANGED <<fenceVars, gpsVars, commands, calm>>
        /\ UNCHANGED <<now, lastPosTime_, lastQTime_, gpsStatus, gps, gpsQuiet>>
    BY ClockAssumption
    DEF ChainInv, AppsInv, MailInv, IndInv, TypeOK, AttitudeStep, fenceVars, measured, gpsVars
  <1>2. Gps!TypeOK' /\ (GpsPolls' <=> GpsPolls)
    BY <1>1, AppTypesSame DEF gpsVars, GpsPolls, Gps!Running
  <1>3. CASE /\ Waits("attitude", "pps") /\ Att!OnHeartbeat /\ pipe' = Taken("attitude")
             /\ asked' = Asking("board", Att!OnHeartbeatSends)
    BY <1>1, <1>3, AttitudePpsInv
  <1>4. CASE Att!Initialize /\ UNCHANGED <<pipe, asked>>
    <2>1. att' = Att!AtStart /\ attQuiet' = 0 /\ attStatus' = "running"
      BY <1>4 DEF Att!Initialize
    <2>2. Att!TypeOK' /\ ~AttPolls'
      BY <2>1, ImagingAssumption DEF Att!TypeOK, Att!AtStart, AttPolls, ImagingAssumption
    <2>3. MailInv'
      BY <1>1, <1>4 DEF MailInv, ChainTypeOK, Undisturbed
    <2>4. PositionKept'
      BY <1>1, <1>4, PositionSame DEF ChainInv, AppsInv, Holds
    <2>5. Counted' /\ AttitudeKept'
      BY <1>1, <1>2, <2>2 DEF ChainInv, AppsInv, Counted, AttitudeKept
    <2> QED
      BY <1>2, <2>2, <2>3, <2>4, <2>5 DEF AppsInv
  <1>5. ASSUME NEW kind \in {"config", "reset", "polling"}, Waits("attitude", kind),
               pipe' = Taken("attitude"), asked' = asked, Att!TypeOK', attQuiet' = 0
        PROVE  AppsInv'
    <2>1. Typed(pipe') /\ PpsFirst(pipe') /\ calm = 0
      BY <1>1, <1>5, Took DEF Apps, Disturbs
    <2>2. ChainTypeOK'
      BY <1>1, <1>5, <2>1, MailTypes DEF ChainTypeOK
    <2>3. Undisturbed' /\ PositionKept' /\ AttitudeKept'
      BY <1>1, <1>2, <1>5, <2>1, <2>2, DisturbedKeeps
    <2>4. Counted'
      <3>1. att'.framesPerRequest \in Nat /\ att'.counter \in Nat
        BY <1>5, ImagingAssumption DEF Att!TypeOK, ImagingAssumption
      <3>2. AttPolls' => (att'.counter % att'.framesPerRequest) \in Nat
        <4> SUFFICES ASSUME AttPolls' PROVE (att'.counter % att'.framesPerRequest) \in Nat
          OBVIOUS
        <4>1. att'.framesPerRequest \in Nat \ {0} /\ att'.counter \in Nat
          BY <3>1 DEF AttPolls
        <4> QED
          BY <4>1
      <3> QED
        BY <1>1, <1>2, <1>5, <3>2 DEF ChainInv, AppsInv, Counted
    <2> QED
      BY <1>2, <1>5, <2>1, <2>2, <2>3, <2>4 DEF AppsInv, MailInv
  <1>6. CASE /\ Waits("attitude", "config") /\ Att!Config(Arg("attitude")[1], Arg("attitude")[2])
             /\ pipe' = Taken("attitude") /\ UNCHANGED asked
    <2>1. Arg("attitude") \in BOOLEAN \X FrameCount
      BY <1>1, <1>6, Took, MailRead DEF Apps, Arg
    <2>2. attQuiet' = 0 /\ Att!TypeOK'
      BY <1>1, <1>6, <2>1 DEF Att!Config, Att!TypeOK
    <2> QED
      BY <1>5, <1>6, <2>2
  <1>7. CASE Waits("attitude", "reset") /\ Att!Reset /\ pipe' = Taken("attitude") /\ UNCHANGED asked
    <2>1. attQuiet' = 0 /\ Att!TypeOK'
      BY <1>1, <1>7, ImagingAssumption DEF Att!Reset, Att!AtStart, Att!TypeOK, ImagingAssumption
    <2> QED
      BY <1>5, <1>7, <2>1
  <1>8. CASE /\ Waits("attitude", "polling") /\ Att!PollingTlm(Arg("attitude"))
             /\ pipe' = Taken("attitude") /\ UNCHANGED asked
    <2>1. Arg("attitude") \in BOOLEAN
      BY <1>1, <1>8, Took, MailRead DEF Apps, Arg
    <2>2. attQuiet' = 0 /\ Att!TypeOK'
      BY <1>1, <1>8, <2>1 DEF Att!PollingTlm, Att!TypeOK
    <2> QED
      BY <1>5, <1>8, <2>2
  <1>9. CASE /\ Waits("attitude", "request") /\ Att!AttitudeRequest
             /\ pipe' = Taken("attitude") /\ UNCHANGED asked
    <2>1. UNCHANGED <<attStatus, att, attQuiet, asked>>
      BY <1>9 DEF Att!AttitudeRequest
    <2>2. /\ Typed(pipe') /\ PpsFirst(pipe') /\ Undisturbed'
          /\ (Holds("gps", "raw")' <=> Holds("gps", "raw"))
          /\ (Holds("geofence", "ecef")' <=> Holds("geofence", "ecef"))
          /\ (Holds("geofence", "acb")' <=> Holds("geofence", "acb"))
          /\ (Holds("gps", "pps")' <=> Holds("gps", "pps"))
          /\ (Holds("attitude", "pps")' <=> Holds("attitude", "pps"))
      BY <1>1, <1>9, Took DEF Apps
    <2>3. ChainTypeOK'
      BY <1>1, <2>1, <2>2, MailTypes DEF ChainTypeOK
    <2>4. Att!TypeOK' /\ Counted'
      BY <1>1, <2>1, AppTypesSame, CountedSame DEF attVars, ChainInv, AppsInv
    <2>5. PositionKept' /\ AttitudeKept'
      BY <1>1, <2>1, <2>2, PositionSame, AttitudeSame DEF ChainInv, AppsInv
    <2> QED
      BY <1>2, <2>2, <2>3, <2>4, <2>5 DEF AppsInv, MailInv
  <1> QED
    BY <1>3, <1>4, <1>6, <1>7, <1>8, <1>9 DEF AttitudeStep

LEMMA AnswerInv ==
  ASSUME ChainInv, UNCHANGED chained, Answer
  PROVE  AppsInv'
  <1>1. /\ ChainTypeOK /\ Gps!TypeOK /\ Att!TypeOK /\ MailInv /\ Typed(pipe) /\ PpsFirst(pipe)
        /\ now \in Nat /\ lastPosTime_ \in Nat /\ lastQTime_ \in Nat /\ calm \in Nat
        /\ UNCHANGED <<fenceVars, gpsVars, attVars, commands>>
        /\ UNCHANGED <<now, lastPosTime_, lastQTime_, gpsStatus, gps, gpsQuiet, attStatus, att, attQuiet>>
    BY ClockAssumption
    DEF ChainInv, AppsInv, MailInv, ChainTypeOK, IndInv, TypeOK, Answer, fenceVars, measured,
        gpsVars, attVars
  <1>2. Gps!TypeOK' /\ Att!TypeOK' /\ Counted'
    BY <1>1, AppTypesSame, CountedSame DEF ChainInv, AppsInv
  <1>3. /\ gps.framesPerRequest \in Nat /\ att.framesPerRequest \in Nat /\ ANSWER_WITHIN \in Nat
    BY <1>1, ImagingAssumption DEF ImagingAssumption, Gps!TypeOK, Att!TypeOK
  <1>4. \A d \in {"receiver", "board"} : asked[d] # Unset =>
          now - asked[d] \in Int /\ now - asked[d] <= ANSWER_WITHIN
    BY <1>1, <1>3 DEF ChainTypeOK
  <1>5. asked \in [{"receiver", "board"} -> Nat \cup {Unset}]
    BY <1>1 DEF ChainTypeOK
  <1>6. ASSUME asked["receiver"] # Unset, asked' = [asked EXCEPT !["receiver"] = Unset],
               NEW s \in Sentence, pipe' = Posted(pipe, "gps", [kind |-> "raw", arg |-> s]),
               calm' = IF Gps!Deserialized(s) = Unset THEN 0 ELSE calm
        PROVE  AppsInv'
    <2> DEFINE m == [kind |-> "raw", arg |-> s]
    <2>1. m \in Mail["gps"] /\ m.kind = "raw" /\ m.arg = s
      BY MailMade
    <2> HIDE DEF m
    <2>2. /\ Typed(pipe') /\ PpsFirst(pipe') /\ Among(pipe'["gps"]) = Among(pipe["gps"]) \cup {m}
          /\ pipe'["attitude"] = pipe["attitude"] /\ pipe'["geofence"] = pipe["geofence"]
      <3>1. {"gps", "attitude", "geofence"} \subseteq Apps /\ m.kind # "pps"
        BY <2>1 DEF Apps
      <3>2. /\ Typed(Posted(pipe, "gps", m)) /\ PpsFirst(Posted(pipe, "gps", m))
            /\ Among(Posted(pipe, "gps", m)["gps"]) = Among(pipe["gps"]) \cup {m}
            /\ \A b \in Apps \ {"gps"} : Posted(pipe, "gps", m)[b] = pipe[b]
        BY <1>1, <2>1, <3>1, Posting
      <3> QED
        BY <1>6, <3>1, <3>2 DEF m
    <2>3. /\ asked' \in [{"receiver", "board"} -> Nat \cup {Unset}]
          /\ asked'["receiver"] = Unset /\ asked'["board"] = asked["board"]
      BY <1>5, <1>6
    <2>4. calm' \in Nat
      BY <1>1, <1>6
    <2>5. ChainTypeOK'
      BY <1>1, <2>2, <2>3, <2>4, MailTypes
    <2>6. CASE calm' = 0
      BY <1>1, <1>2, <2>2, <2>5, <2>6, DisturbedKeeps DEF AppsInv, MailInv
    <2>7. CASE calm' # 0
      <3>1. calm' = calm /\ ~Disturbs(m)
        BY <1>6, <2>1, <2>7 DEF Disturbs
      <3>2. Undisturbed'
        BY <1>1, <2>2, <2>7, <3>1 DEF MailInv, Undisturbed
      <3>3. /\ Holds("gps", "raw")'
            /\ (Holds("gps", "pps")' <=> Holds("gps", "pps"))
            /\ (Holds("geofence", "acb")' <=> Holds("geofence", "acb"))
            /\ (Holds("attitude", "pps")' <=> Holds("attitude", "pps"))
        BY <2>1, <2>2 DEF Holds
      <3>4. AttitudeKept'
        BY <1>1, <2>3, <3>1, <3>3, AttitudeSame DEF ChainInv, AppsInv
      <3>5. PositionKept'
        <4>1. PositionLate' = gps.framesPerRequest + ANSWER_WITHIN
          BY <1>1, <3>3 DEF PositionLate, Late
        <4>2. PositionLate <= PositionLate' /\ PositionLate \in Int
          <5>1. CASE Holds("gps", "raw") \/ Holds("geofence", "ecef")
            <6>1. PositionLate = gps.framesPerRequest + ANSWER_WITHIN
              BY <5>1 DEF PositionLate, Late
            <6> QED
              BY <1>3, <4>1, <6>1
          <5>2. CASE ~(Holds("gps", "raw") \/ Holds("geofence", "ecef"))
            <6>1. PositionLate = gps.framesPerRequest + (now - asked["receiver"])
              BY <1>6, <5>2 DEF PositionLate, Late
            <6>2. now - asked["receiver"] \in Int /\ now - asked["receiver"] <= ANSWER_WITHIN
              BY <1>4, <1>6
            <6> QED
              BY <1>3, <4>1, <6>1, <6>2
          <5> QED
            BY <5>1, <5>2
        <4>3. GpsPolls' => now - lastPosTime_ <= PositionLate \/ calm <= PositionLate
          BY <1>1 DEF ChainInv, AppsInv, PositionKept, GpsPolls, Gps!Running
        <4> QED
          BY <1>1, <1>3, <3>1, <4>1, <4>2, <4>3 DEF PositionKept
      <3> QED
        BY <1>2, <2>2, <2>5, <3>2, <3>4, <3>5 DEF AppsInv, MailInv
    <2> QED
      BY <2>6, <2>7
  <1>7. ASSUME asked["board"] # Unset, asked' = [asked EXCEPT !["board"] = Unset],
               NEW a \in Attitude, pipe' = Posted(pipe, "geofence", [kind |-> "acb", arg |-> a]),
               calm' = calm
        PROVE  AppsInv'
    <2> DEFINE m == [kind |-> "acb", arg |-> a]
    <2>1. m \in Mail["geofence"] /\ m.kind = "acb"
      BY MailMade
    <2> HIDE DEF m
    <2>2. /\ Typed(pipe') /\ PpsFirst(pipe')
          /\ Among(pipe'["geofence"]) = Among(pipe["geofence"]) \cup {m}
          /\ pipe'["attitude"] = pipe["attitude"] /\ pipe'["gps"] = pipe["gps"]
      <3>1. {"gps", "attitude", "geofence"} \subseteq Apps /\ m.kind # "pps"
        BY <2>1 DEF Apps
      <3>2. /\ Typed(Posted(pipe, "geofence", m)) /\ PpsFirst(Posted(pipe, "geofence", m))
            /\ Among(Posted(pipe, "geofence", m)["geofence"]) = Among(pipe["geofence"]) \cup {m}
            /\ \A b \in Apps \ {"geofence"} : Posted(pipe, "geofence", m)[b] = pipe[b]
        BY <1>1, <2>1, <3>1, Posting
      <3> QED
        BY <1>7, <3>1, <3>2 DEF m
    <2>3. /\ asked' \in [{"receiver", "board"} -> Nat \cup {Unset}]
          /\ asked'["board"] = Unset /\ asked'["receiver"] = asked["receiver"]
      BY <1>5, <1>7
    <2>4. ChainTypeOK'
      BY <1>1, <1>7, <2>2, <2>3, MailTypes
    <2>5. Undisturbed'
      BY <1>1, <1>7, <2>2 DEF MailInv, Undisturbed
    <2>6. /\ Holds("geofence", "acb")'
          /\ (Holds("gps", "pps")' <=> Holds("gps", "pps"))
          /\ (Holds("gps", "raw")' <=> Holds("gps", "raw"))
          /\ (Holds("geofence", "ecef")' <=> Holds("geofence", "ecef"))
      BY <2>1, <2>2 DEF Holds
    <2>7. PositionKept'
      BY <1>1, <1>7, <2>3, <2>6, PositionSame DEF ChainInv, AppsInv
    <2>8. AttitudeKept'
      <3>1. AttitudeLate' = att.framesPerRequest + ANSWER_WITHIN
        BY <1>1, <2>6 DEF AttitudeLate, Late
      <3>2. AttitudeLate <= AttitudeLate' /\ AttitudeLate \in Int
        <4>1. CASE Holds("geofence", "acb")
          <5>1. AttitudeLate = att.framesPerRequest + ANSWER_WITHIN
            BY <4>1 DEF AttitudeLate, Late
          <5> QED
            BY <1>3, <3>1, <5>1
        <4>2. CASE ~Holds("geofence", "acb")
          <5>1. AttitudeLate = att.framesPerRequest + (now - asked["board"])
            BY <1>7, <4>2 DEF AttitudeLate, Late
          <5>2. now - asked["board"] \in Int /\ now - asked["board"] <= ANSWER_WITHIN
            BY <1>4, <1>7
          <5> QED
            BY <1>3, <3>1, <5>1, <5>2
        <4> QED
          BY <4>1, <4>2
      <3>3. AttPolls' => now - lastQTime_ <= AttitudeLate \/ calm <= AttitudeLate
        BY <1>1 DEF ChainInv, AppsInv, AttitudeKept, AttPolls, Att!Running
      <3> QED
        BY <1>1, <1>3, <1>7, <3>1, <3>2, <3>3 DEF AttitudeKept
    <2> QED
      BY <1>2, <2>2, <2>4, <2>5, <2>7, <2>8 DEF AppsInv, MailInv
  <1> QED
    BY <1>6, <1>7 DEF Answer

LEMMA GeofenceStepInv ==
  ASSUME ChainInv, UNCHANGED chained, GeofenceStep
  PROVE  AppsInv'
  <1>1. /\ ChainTypeOK /\ Gps!TypeOK /\ Att!TypeOK /\ MailInv
        /\ now \in Nat /\ lastPosTime_ \in Nat /\ lastQTime_ \in Nat
        /\ UNCHANGED <<gpsVars, attVars, asked, commands, calm>>
        /\ UNCHANGED <<gpsStatus, gps, gpsQuiet, attStatus, att, attQuiet>>
    BY ClockAssumption
    DEF ChainInv, AppsInv, MailInv, IndInv, TypeOK, GeofenceStep, gpsVars, attVars
  <1>2. Gps!TypeOK' /\ Att!TypeOK' /\ Counted'
    BY <1>1, AppTypesSame, CountedSame DEF ChainInv, AppsInv
  <1>3. CASE Initialize(DefaultFile) /\ UNCHANGED pipe
    <2>1. UNCHANGED <<now, lastPosTime_, lastQTime_>>
      BY <1>3 DEF Initialize, measured
    <2>2. MailInv'
      BY <1>1, <1>3, <2>1 DEF MailInv, ChainTypeOK, Undisturbed
    <2>3. PositionKept' /\ AttitudeKept'
      BY <1>1, <1>3, <2>1, PositionSame, AttitudeSame DEF ChainInv, AppsInv, Holds
    <2> QED
      BY <1>2, <2>2, <2>3 DEF AppsInv
  <1>4. ASSUME NEW kind, Waits("geofence", kind), pipe' = Taken("geofence"), now' = now
        PROVE  MailInv'
    <2>1. Typed(pipe') /\ PpsFirst(pipe') /\ Undisturbed'
      BY <1>1, <1>4, Took DEF Apps
    <2>2. ChainTypeOK'
      BY <1>1, <1>4, <2>1, MailTypes DEF ChainTypeOK
    <2> QED
      BY <2>1, <2>2 DEF MailInv
  <1>5. CASE Waits("geofence", "ecef") /\ HandlePosition(Arg("geofence")) /\ pipe' = Taken("geofence")
    <2>1. now' = now /\ lastPosTime_' = now /\ lastQTime_' = lastQTime_
      BY <1>5 DEF HandlePosition
    <2>2. MailInv'
      BY <1>4, <1>5, <2>1
    <2>3. /\ (Holds("geofence", "acb")' <=> Holds("geofence", "acb"))
          /\ (Holds("attitude", "pps")' <=> Holds("attitude", "pps"))
      BY <1>1, <1>5, Took DEF Apps
    <2>4. AttitudeKept'
      BY <1>1, <2>1, <2>3, AttitudeSame DEF ChainInv, AppsInv
    <2>5. GpsPolls' => PositionLate' \in Nat
      BY <1>2, <2>2, LateIsLater DEF MailInv
    <2>6. PositionKept'
      BY <1>1, <2>1, <2>5 DEF PositionKept
    <2> QED
      BY <1>2, <2>2, <2>4, <2>6 DEF AppsInv
  <1>6. CASE Waits("geofence", "acb") /\ HandleOrientation(Arg("geofence")) /\ pipe' = Taken("geofence")
    <2>1. now' = now /\ lastQTime_' = now /\ lastPosTime_' = lastPosTime_
      BY <1>6 DEF HandleOrientation
    <2>2. MailInv'
      BY <1>4, <1>6, <2>1
    <2>3. /\ (Holds("gps", "raw")' <=> Holds("gps", "raw"))
          /\ (Holds("geofence", "ecef")' <=> Holds("geofence", "ecef"))
          /\ (Holds("gps", "pps")' <=> Holds("gps", "pps"))
      BY <1>1, <1>6, Took DEF Apps
    <2>4. PositionKept'
      BY <1>1, <2>1, <2>3, PositionSame DEF ChainInv, AppsInv
    <2>5. AttPolls' => AttitudeLate' \in Nat
      BY <1>2, <2>2, LateIsLater DEF MailInv
    <2>6. AttitudeKept'
      BY <1>1, <2>1, <2>5 DEF AttitudeKept
    <2> QED
      BY <1>2, <2>2, <2>4, <2>6 DEF AppsInv
  <1>7. CASE Waits("geofence", "polling") /\ HandlePolling(Arg("geofence")) /\ pipe' = Taken("geofence")
    <2>1. UNCHANGED <<now, lastPosTime_, lastQTime_>>
      BY <1>7 DEF HandlePolling, measured
    <2>2. MailInv'
      BY <1>4, <1>7, <2>1
    <2>3. /\ (Holds("gps", "raw")' <=> Holds("gps", "raw"))
          /\ (Holds("geofence", "ecef")' <=> Holds("geofence", "ecef"))
          /\ (Holds("geofence", "acb")' <=> Holds("geofence", "acb"))
          /\ (Holds("gps", "pps")' <=> Holds("gps", "pps"))
          /\ (Holds("attitude", "pps")' <=> Holds("attitude", "pps"))
      BY <1>1, <1>7, Took DEF Apps
    <2>4. PositionKept' /\ AttitudeKept'
      BY <1>1, <2>1, <2>3, PositionSame, AttitudeSame DEF ChainInv, AppsInv
    <2> QED
      BY <1>2, <2>2, <2>4 DEF AppsInv
  <1>8. CASE pipe["geofence"] # <<>> /\ Handled(Head(pipe["geofence"])) /\ pipe' = Taken("geofence")
    <2> DEFINE m == Head(pipe["geofence"])
    <2>1. Waits("geofence", m.kind) /\ m \in Mail["geofence"]
      BY <1>1, <1>8, Took DEF Waits, Apps
    <2> HIDE DEF m
    <2>2. Handled(m)
      BY <1>8 DEF m
    <2>3. UNCHANGED <<now, lastPosTime_, lastQTime_>> /\ m.kind \in RequestKinds
      BY <2>1, <2>2, RequestRead
    <2>4. MailInv'
      BY <1>4, <1>8, <2>1, <2>3
    <2>5. /\ (Holds("gps", "raw")' <=> Holds("gps", "raw"))
          /\ (Holds("geofence", "ecef")' <=> Holds("geofence", "ecef"))
          /\ (Holds("geofence", "acb")' <=> Holds("geofence", "acb"))
          /\ (Holds("gps", "pps")' <=> Holds("gps", "pps"))
          /\ (Holds("attitude", "pps")' <=> Holds("attitude", "pps"))
      <3>1. \A b \in Apps : \A k : b # "geofence" \/ k # m.kind => (Holds(b, k)' <=> Holds(b, k))
        BY <1>1, <1>8, <2>1, Took DEF Apps
      <3>2. m.kind # "ecef" /\ m.kind # "acb"
        BY <2>3 DEF RequestKinds
      <3> QED
        BY <3>1, <3>2 DEF Apps
    <2>6. PositionKept' /\ AttitudeKept'
      BY <1>1, <2>3, <2>5, PositionSame, AttitudeSame DEF ChainInv, AppsInv
    <2> QED
      BY <1>2, <2>4, <2>6 DEF AppsInv
  <1> QED
    BY <1>3, <1>5, <1>6, <1>7, <1>8 DEF GeofenceStep

-----------------------------------------------------------------------------
(* Without the chain, receiver and board are never asked for anything.     *)
AloneInv ==
  ~chained => /\ gpsStatus = "starting" /\ attStatus = "starting"
              /\ \A d \in DOMAIN asked : asked[d] = Unset

WholeInv == ChainInv /\ AloneInv

(* What the chain sends to GeofenceApp is what GeofenceApp was made for:   *)
(* a step of the chain is one of its own steps, or none of its business.   *)
LEMMA StepRefines ==
  ASSUME ChainInv, [ImagingNext]_<<chained, fenceVars, chainVars>>
  PROVE  [Next]_vars
  <1>1. MailInv /\ fenceVars = vars /\ fenceVars' = vars'
    BY DEF ChainInv, AppsInv, fenceVars, vars
  <1>2. CASE UNCHANGED <<chained, fenceVars, chainVars>>
    BY <1>1, <1>2
  <1>3. CASE ~chained /\ Next
    BY <1>3
  <1>4. CASE Command \/ Request \/ GpsStep \/ AttitudeStep \/ Answer
    BY <1>1, <1>4 DEF Command, Request, GpsStep, AttitudeStep, Answer
  <1>5. CASE Pps
    BY <1>5 DEF Pps, Next
  <1>6. CASE GeofenceStep
    <2>1. CASE Initialize(DefaultFile)
      <3>1. DefaultFile \in Fence
        BY ImagingAssumption DEF ImagingAssumption, DefaultFile
      <3> QED
        BY <2>1, <3>1 DEF Next, Handle
    <2>2. ASSUME NEW kind, Waits("geofence", kind), pipe' = Taken("geofence")
          PROVE  Head(pipe["geofence"]) \in Mail["geofence"] /\ Head(pipe["geofence"]).kind = kind
      BY <1>1, <2>2, Took DEF Apps
    <2>3. CASE Waits("geofence", "ecef") /\ HandlePosition(Arg("geofence")) /\ pipe' = Taken("geofence")
      <3>1. Arg("geofence") \in Position
        BY <2>2, <2>3, MailRead DEF Arg
      <3> QED
        BY <2>3, <3>1 DEF Next, Handle
    <2>4. CASE Waits("geofence", "acb") /\ HandleOrientation(Arg("geofence")) /\ pipe' = Taken("geofence")
      <3>1. Arg("geofence") \in Attitude
        BY <2>2, <2>4, MailRead DEF Arg
      <3> QED
        BY <2>4, <3>1 DEF Next, Handle
    <2>5. CASE Waits("geofence", "polling") /\ HandlePolling(Arg("geofence")) /\ pipe' = Taken("geofence")
      <3>1. Arg("geofence") \in BOOLEAN
        BY <2>2, <2>5, MailRead DEF Arg
      <3> QED
        BY <2>5, <3>1 DEF Next, Handle
    <2>6. CASE pipe["geofence"] # <<>> /\ Handled(Head(pipe["geofence"])) /\ pipe' = Taken("geofence")
      <3>1. Head(pipe["geofence"]) \in Mail["geofence"]
        BY <2>2, <2>6 DEF Waits
      <3> QED
        BY <2>6, <3>1, RequestRead DEF Next
    <2> QED
      BY <1>6, <2>1, <2>3, <2>4, <2>5, <2>6 DEF GeofenceStep
  <1> QED
    BY <1>2, <1>3, <1>4, <1>5, <1>6 DEF ImagingNext

LEMMA ChainInit == ImagingInit => WholeInv
  <1> SUFFICES ASSUME ImagingInit PROVE WholeInv
    OBVIOUS
  <1>1. IndInv
    BY InitInd DEF ImagingInit
  <1>2. Gps!TypeOK /\ Att!TypeOK
    BY ImagingAssumption
    DEF ImagingInit, ImagingAssumption, Gps!Init, Gps!Fresh0, Gps!TypeOK, Att!Init, Att!AtStart, Att!TypeOK
  <1>3. ~GpsPolls /\ ~AttPolls
    BY DEF ImagingInit, Gps!Init, Att!Init, GpsPolls, AttPolls, Gps!Running, Att!Running
  <1>4. \A app \in Apps : pipe[app] = <<>> /\ Among(pipe[app]) = {}
    BY DEF ImagingInit, Among
  <1>5. ChainTypeOK
    <2>1. Typed(pipe)
      BY <1>4 DEF ImagingInit, Typed
    <2> QED
      BY <2>1, ImagingAssumption DEF ImagingInit, ChainTypeOK, ImagingAssumption
  <1>6. PpsFirst(pipe) /\ Undisturbed
    BY <1>4 DEF PpsFirst, Undisturbed, Apps
  <1>7. Counted /\ PositionKept /\ AttitudeKept
    BY <1>3 DEF Counted, PositionKept, AttitudeKept
  <1>8. AloneInv
    BY DEF ImagingInit, AloneInv, Gps!Init, Att!Init
  <1> QED
    BY <1>1, <1>2, <1>5, <1>6, <1>7, <1>8 DEF WholeInv, ChainInv, AppsInv, MailInv

LEMMA ChainNext ==
  ASSUME WholeInv, [ImagingNext]_<<chained, fenceVars, chainVars>>
  PROVE  WholeInv'
  <1>1. IndInv'
    BY StepRefines, NextInd DEF WholeInv, ChainInv
  <1>2. CASE chained /\ ImagingNext
    <2>1. ChainInv /\ UNCHANGED chained
      BY <1>2 DEF WholeInv, ImagingNext
    <2>2. AppsInv'
      BY <1>2, <2>1, CommandInv, RequestInv, PpsInv, GpsStepInv, AttitudeStepInv, AnswerInv, GeofenceStepInv
      DEF ImagingNext
    <2>3. AloneInv'
      BY <1>2, <2>1 DEF AloneInv
    <2> QED
      BY <1>1, <2>2, <2>3 DEF WholeInv, ChainInv
  <1>3. CASE \/ ~chained /\ ImagingNext
             \/ UNCHANGED <<chained, fenceVars, chainVars>>
    <2>1. UNCHANGED <<chained, gpsStatus, gps, gpsQuiet, attStatus, att, attQuiet, pipe, asked, commands, calm>>
      BY <1>3 DEF ImagingNext, chainVars, gpsVars, attVars
    <2>2. Gps!TypeOK' /\ Att!TypeOK' /\ Counted'
      BY <2>1, AppTypesSame, CountedSame DEF gpsVars, attVars, WholeInv, ChainInv, AppsInv
    <2>3. PpsFirst(pipe') /\ Undisturbed' /\ AloneInv'
      BY <2>1 DEF WholeInv, ChainInv, AppsInv, MailInv, Undisturbed, AloneInv
    <2>4. CASE chained
      <3>1. UNCHANGED <<now, lastPosTime_, lastQTime_>>
        BY <1>3, <2>4 DEF fenceVars, measured
      <3>2. ChainTypeOK'
        BY <2>1, <3>1 DEF WholeInv, ChainInv, AppsInv, MailInv, ChainTypeOK
      <3>3. PositionKept' /\ AttitudeKept'
        BY <2>1, <3>1, PositionSame, AttitudeSame DEF WholeInv, ChainInv, AppsInv, Holds
      <3> QED
        BY <1>1, <2>2, <2>3, <3>2, <3>3 DEF WholeInv, ChainInv, AppsInv, MailInv
    <2>5. CASE ~chained
      <3>1. ~GpsPolls' /\ ~AttPolls' /\ \A d \in DOMAIN asked' : asked'[d] = Unset
        BY <2>1, <2>5 DEF WholeInv, AloneInv, GpsPolls, AttPolls, Gps!Running, Att!Running
      <3>2. ChainTypeOK'
        BY <2>1, <3>1 DEF WholeInv, ChainInv, AppsInv, MailInv, ChainTypeOK
      <3> QED
        BY <1>1, <2>2, <2>3, <3>1, <3>2
        DEF WholeInv, ChainInv, AppsInv, MailInv, PositionKept, AttitudeKept
    <2> QED
      BY <2>4, <2>5
  <1> QED
    BY <1>2, <1>3

(* The invariant of the whole chain.                                       *)
THEOREM ChainInvariant == ImagingSpec => []WholeInv
  BY ChainInit, ChainNext, PTL DEF ImagingSpec

(* Every state of the chain is well typed: nothing is posted to a pipe     *)
(* whose reader was not made for it.                                       *)
THEOREM ChainTypes == ImagingSpec => []ImagingTypeOK
  <1>1. WholeInv => ImagingTypeOK
    BY DEF WholeInv, ChainInv, AppsInv, MailInv, IndInv, ImagingTypeOK
  <1> QED
    BY <1>1, ChainInvariant, PTL

(* GeofenceApp behind the chain is GeofenceApp: what is proved of it with  *)
(* any messages in any order holds with the messages of the chain.         *)
THEOREM ChainImplementsGeofence == ImagingSpec => Spec
  <1>1. WholeInv /\ [ImagingNext]_<<chained, fenceVars, chainVars>> => [Next]_vars
    BY StepRefines DEF WholeInv
  <1>2. ImagingInit => Init
    BY DEF ImagingInit
  <1> QED
    BY <1>1, <1>2, ChainInvariant, PTL DEF ImagingSpec, Spec

(* So behind the chain, too, whatever requests and files arrive between    *)
(* its reports, two uses of the camera keep their distance.                *)
THEOREM ChainSpaced == ImagingSpec => CameraOpsSpaced
  BY ChainImplementsGeofence, GeofenceSpaced

(* Nor is a picture taken of any zone ever named.                          *)
THEOREM ChainZones == ImagingSpec => NoPictureOverZone
  BY ChainImplementsGeofence, GeofenceZones

(* Nor is a picture decided on anything but measurements that are young.   *)
THEOREM ChainMeasured == ImagingSpec => DecidedOnMeasurements
  BY ChainImplementsGeofence, GeofenceMeasured

(* Nor is the camera used while the last report forbids it.                *)
THEOREM ChainBlock == ImagingSpec => BlockHolds
  BY ChainImplementsGeofence, GeofenceBlock

(* While an application polls, the heartbeats since its last request are   *)
(* fewer than its rate: a remainder is smaller than what divides.          *)
LEMMA RatesBound ==
  ASSUME AppsInv
  PROVE  /\ GpsPolls => gpsQuiet < gps.framesPerRequest
         /\ AttPolls => attQuiet < att.framesPerRequest
  <1>1. /\ gps.framesPerRequest \in Nat /\ gps.frameCounter \in Nat /\ gpsQuiet \in Nat
        /\ att.framesPerRequest \in Nat /\ att.counter \in Nat /\ attQuiet \in Nat
    BY ImagingAssumption DEF AppsInv, ImagingAssumption, Gps!TypeOK, Att!TypeOK
  <1>2. ASSUME GpsPolls PROVE gpsQuiet < gps.framesPerRequest
    <2>1. gps.framesPerRequest > 0 /\ gpsQuiet <= (gps.frameCounter % gps.framesPerRequest)
      BY <1>2 DEF GpsPolls, AppsInv, Counted
    <2>2. (gps.frameCounter % gps.framesPerRequest) \in 0..(gps.framesPerRequest - 1)
      BY <1>1, <2>1
    <2> QED
      BY <1>1, <2>1, <2>2
  <1>3. ASSUME AttPolls PROVE attQuiet < att.framesPerRequest
    <2>1. att.framesPerRequest > 0 /\ attQuiet <= (att.counter % att.framesPerRequest)
      BY <1>3 DEF AttPolls, AppsInv, Counted
    <2>2. (att.counter % att.framesPerRequest) \in 0..(att.framesPerRequest - 1)
      BY <1>1, <2>1
    <2> QED
      BY <1>1, <2>1, <2>2
  <1> QED
    BY <1>2, <1>3

(* Whatever rates are set and however often, no run of heartbeats as long  *)
(* as the rate goes by without a request.                                  *)
THEOREM ChainAsks == ImagingSpec => []RequestsKeepComing
  <1>1. WholeInv => RequestsKeepComing
    BY RatesBound
    DEF WholeInv, ChainInv, RequestsKeepComing, Gps!RequestsKeepComing, Att!RequestsKeepComing,
        GpsPolls, AttPolls
  <1> QED
    BY <1>1, ChainInvariant, PTL

(* And while both applications poll fast enough and are left alone, the    *)
(* camera is never refused for measurements that are too old.              *)
THEOREM ChainStaysFresh == ImagingSpec => []FreshWhilePolled
  <1>1. ASSUME WholeInv PROVE FreshWhilePolled
    <2>1. ImagingTypeOK
      BY <1>1 DEF WholeInv, ChainInv, AppsInv, MailInv, IndInv, ImagingTypeOK
    <2>2. ASSUME PollsBoth, InTime(gps.framesPerRequest), InTime(att.framesPerRequest),
                 calm > MEASURE_TIMEOUT
          PROVE  Fresh
      <3>1. /\ gps.framesPerRequest \in Nat /\ gpsQuiet \in Nat
            /\ att.framesPerRequest \in Nat /\ attQuiet \in Nat
            /\ ANSWER_WITHIN \in Nat /\ MEASURE_TIMEOUT \in Nat /\ calm \in Nat
            /\ now \in Nat /\ lastPosTime_ \in Nat /\ lastQTime_ \in Nat
        <4>1. Gps!TypeOK /\ Att!TypeOK /\ ChainTypeOK /\ TypeOK
          BY <2>1 DEF ImagingTypeOK
        <4>2. /\ gps.framesPerRequest \in Nat /\ gpsQuiet \in Nat
              /\ att.framesPerRequest \in Nat /\ attQuiet \in Nat /\ ANSWER_WITHIN \in Nat
          BY <4>1, ImagingAssumption DEF ImagingAssumption, Gps!TypeOK, Att!TypeOK
        <4>3. now \in Nat /\ lastPosTime_ \in Nat /\ lastQTime_ \in Nat /\ MEASURE_TIMEOUT \in Nat
          BY <4>1, ClockAssumption DEF ClockAssumption, TypeOK
        <4>4. calm \in Nat
          BY <4>1 DEF ChainTypeOK
        <4> QED
          BY <4>2, <4>3, <4>4
      <3>2. \A d \in {"receiver", "board"} : asked[d] # Unset =>
              now - asked[d] \in Int /\ now - asked[d] <= ANSWER_WITHIN
        BY <2>1, <3>1 DEF ImagingTypeOK, ChainTypeOK
      <3>3. GpsPolls /\ AttPolls
        BY <2>2 DEF PollsBoth, InTime, GpsPolls, AttPolls, Gps!Running, Att!Running
      <3>4. gpsQuiet < gps.framesPerRequest /\ attQuiet < att.framesPerRequest
        BY <1>1, <3>3, RatesBound DEF WholeInv, ChainInv
      <3>5. Beat("gps") \in {0, 1} /\ Beat("attitude") \in {0, 1}
        BY DEF Beat
      <3>6. PositionLate \in Int /\ PositionLate <= gps.framesPerRequest + ANSWER_WITHIN
        BY <3>1, <3>2, <3>4, <3>5 DEF PositionLate, Late
      <3>7. AttitudeLate \in Int /\ AttitudeLate <= att.framesPerRequest + ANSWER_WITHIN
        BY <3>1, <3>2, <3>4, <3>5 DEF AttitudeLate, Late
      <3>8. /\ now - lastPosTime_ <= PositionLate \/ calm <= PositionLate
            /\ now - lastQTime_ <= AttitudeLate \/ calm <= AttitudeLate
        BY <1>1, <3>3 DEF WholeInv, ChainInv, AppsInv, PositionKept, AttitudeKept
      <3>9. /\ gps.framesPerRequest + ANSWER_WITHIN <= MEASURE_TIMEOUT
            /\ att.framesPerRequest + ANSWER_WITHIN <= MEASURE_TIMEOUT
        BY <2>2 DEF InTime
      <3> QED
        BY <2>2, <3>1, <3>6, <3>7, <3>8, <3>9 DEF Fresh
    <2> QED
      BY <2>1, <2>2 DEF FreshWhilePolled
  <1> QED
    BY <1>1, ChainInvariant, PTL
=============================================================================
