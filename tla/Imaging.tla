-------------------------------- MODULE Imaging --------------------------------
(***************************************************************************)
(* The applications behind a picture, on one software bus: GpsApp asks the *)
(* receiver for the position, AttitudeApp the control board for the        *)
(* attitude, both on the heartbeat of the second, and GeofenceApp decides  *)
(* on what they bring about the requests that reach it meanwhile.  Every   *)
(* application reads one pipe in the order of arrival; the heartbeat, and  *)
(* a polling report, go to several.                                        *)
(*                                                                         *)
(* Either GeofenceApp is alone, with any message in any order at its pipe  *)
(* (its own Next), or the chain feeds it.  What is assumed of the chain's  *)
(* surroundings: pipes are read before the next second, and receiver and   *)
(* board answer within ANSWER_WITHIN seconds.                              *)
(***************************************************************************)
EXTENDS GeofenceApp

CONSTANTS
  DEFAULT_HEARTBEAT_FRAMES, Rate, Sentence, FRAMES, FrameCount, Pointing,
  ANSWER_WITHIN,
  MaxBeats,         (* bound: the heartbeats of a chain                    *)
  MaxCommands       (* bound: commands, requests and polling reports to    *)
                    (* the chain                                           *)

(* Rates are unsigned; what is sent has a position, computed or not.       *)
ASSUME ImagingAssumption ==
  /\ {DEFAULT_HEARTBEAT_FRAMES, FRAMES, ANSWER_WITHIN, MaxCommands} \subseteq Nat
  /\ Rate \subseteq Nat /\ FrameCount \subseteq Nat /\ Unset \notin Nat
  /\ Sentence \subseteq [id : STRING, wellFormed : BOOLEAN, solved : BOOLEAN, at : Position]
  /\ \E f \in Fence : ~f.bad

VARIABLES
  chained,          (* the chain feeds GeofenceApp                         *)
  gpsStatus, gps, gpsQuiet,
  attStatus, att, attQuiet,
  pipe,             (* the messages waiting for each application           *)
  asked,            (* since when receiver and board owe an answer, or     *)
                    (* Unset                                               *)
  commands,
  calm              (* seconds since the last command or unusable answer   *)

Gps == INSTANCE GpsApp WITH NoFix <- Unset
Att == INSTANCE AttitudeApp

gpsVars   == <<gpsStatus, gps, gpsQuiet>>
attVars   == <<attStatus, att, attQuiet>>
chainVars == <<gpsVars, attVars, pipe, asked, commands, calm>>
fenceVars == <<status, now, measured, fence, guards, team_, sent>>

Apps == {"gps", "attitude", "geofence"}

Posted(p, app, m) == [p EXCEPT ![app] = Append(@, m)]
Taken(app)        == [pipe EXCEPT ![app] = Tail(@)]
Waits(app, kind)  == pipe[app] # <<>> /\ Head(pipe[app]).kind = kind
Arg(app)          == Head(pipe[app]).arg

Config(enabled, rate) == [kind |-> "config", arg |-> <<enabled, rate>>]
ResetMsg              == [kind |-> "reset", arg |-> <<>>]

Asking(d, msgs) == IF msgs # <<>> /\ asked[d] = Unset THEN [asked EXCEPT ![d] = now] ELSE asked

-----------------------------------------------------------------------------
(* The surroundings begin when every application has subscribed; what was  *)
(* sent before that reaches nobody.                                        *)
AllOnline == status = "running" /\ gpsStatus = "running" /\ attStatus = "running"

(* From outside: commands, and a report that allows or forbids polling.    *)
(* They come when the pipe is empty: what comes later than another message *)
(* of the same pipe is also read later.                                    *)
Command ==
  /\ AllOnline
  /\ commands < MaxCommands /\ commands' = commands + 1 /\ calm' = 0
  /\ \/ /\ pipe["gps"] = <<>>
        /\ \/ \E e \in BOOLEAN, r \in Rate : pipe' = Posted(pipe, "gps", Config(e, r))
           \/ pipe' = Posted(pipe, "gps", ResetMsg)
     \/ /\ pipe["attitude"] = <<>>
        /\ \/ \E e \in BOOLEAN, r \in FrameCount : pipe' = Posted(pipe, "attitude", Config(e, r))
           \/ pipe' = Posted(pipe, "attitude", ResetMsg)
           \/ \E q \in Pointing : pipe' = Posted(pipe, "attitude", [kind |-> "request", arg |-> q])
     \/ /\ pipe["attitude"] = <<>> /\ pipe["geofence"] = <<>>
        /\ \E ok \in BOOLEAN :
             LET m == [kind |-> "polling", arg |-> ok]
             IN  pipe' = Posted(Posted(pipe, "attitude", m), "geofence", m)
  /\ UNCHANGED <<fenceVars, gpsVars, attVars, asked>>

(* What teams and operators ask of GeofenceApp, which disturbs nobody: a   *)
(* picture, an image, a geofence file, the default one again, another team *)
(* or time scale.                                                          *)
DefaultFile == CHOOSE f \in Fence : ~f.bad

Requests ==
  [kind : {"snap", "download"}, arg : ImageId] \cup [kind : {"load"}, arg : Fence]
    \cup [kind : {"reset"}, arg : {DefaultFile}]
    \cup [kind : {"team"}, arg : Team] \cup [kind : {"offsets"}, arg : Offset]

Request ==
  /\ AllOnline /\ pipe["geofence"] = <<>>
  /\ commands < MaxCommands /\ commands' = commands + 1
  /\ \E m \in Requests : pipe' = Posted(pipe, "geofence", m)
  /\ UNCHANGED <<fenceVars, gpsVars, attVars, asked, calm>>

Handled(m) ==
  \/ m.kind = "snap" /\ SnapRequest(m.arg)
  \/ m.kind = "download" /\ DownloadRequest(m.arg)
  \/ m.kind = "load" /\ LoadFence(m.arg)
  \/ m.kind = "reset" /\ Reset(m.arg)
  \/ m.kind = "team" /\ TeamChange(m.arg)
  \/ m.kind = "offsets" /\ SetOffsets(m.arg)

(* The next second, and its heartbeat.                                     *)
Pps ==
  /\ AllOnline /\ \A a \in Apps : pipe[a] = <<>>
  /\ \A d \in DOMAIN asked : asked[d] # Unset => now - asked[d] < ANSWER_WITHIN
  /\ now < Launch + MaxBeats /\ Tick
  /\ LET m == [kind |-> "pps", arg |-> <<>>]
     IN  pipe' = Posted(Posted(pipe, "gps", m), "attitude", m)
  /\ calm' = calm + 1
  /\ UNCHANGED <<gpsVars, attVars, asked, commands>>

GpsStep ==
  /\ UNCHANGED <<fenceVars, attVars, commands, calm>>
  /\ \/ /\ Gps!Initialize /\ UNCHANGED <<pipe, asked>>
     \/ /\ Waits("gps", "pps") /\ Gps!OnPps /\ pipe' = Taken("gps")
        /\ asked' = Asking("receiver", Gps!OnPpsSends)
     \/ /\ Waits("gps", "config") /\ Gps!Config(Arg("gps")[1], Arg("gps")[2])
        /\ pipe' = Taken("gps") /\ UNCHANGED asked
     \/ /\ Waits("gps", "reset") /\ Gps!Reset /\ pipe' = Taken("gps") /\ UNCHANGED asked
     \/ /\ Waits("gps", "raw") /\ Gps!RawGps /\ UNCHANGED asked
        /\ LET fix == Gps!RawGpsSends(Arg("gps"))
           IN  pipe' = IF fix = <<>> THEN Taken("gps")
                       ELSE Posted(Taken("gps"), "geofence", [kind |-> "ecef", arg |-> fix[2][2]])

AttitudeStep ==
  /\ UNCHANGED <<fenceVars, gpsVars, commands, calm>>
  /\ \/ /\ Att!Initialize /\ UNCHANGED <<pipe, asked>>
     \/ /\ Waits("attitude", "pps") /\ Att!OnHeartbeat /\ pipe' = Taken("attitude")
        /\ asked' = Asking("board", Att!OnHeartbeatSends)
     \/ /\ Waits("attitude", "config") /\ Att!Config(Arg("attitude")[1], Arg("attitude")[2])
        /\ pipe' = Taken("attitude") /\ UNCHANGED asked
     \/ /\ Waits("attitude", "reset") /\ Att!Reset /\ pipe' = Taken("attitude") /\ UNCHANGED asked
     \/ /\ Waits("attitude", "polling") /\ Att!PollingTlm(Arg("attitude"))
        /\ pipe' = Taken("attitude") /\ UNCHANGED asked
     \/ /\ Waits("attitude", "request") /\ Att!AttitudeRequest
        /\ pipe' = Taken("attitude") /\ UNCHANGED asked

(* The receiver and the board.                                             *)
Answer ==
  /\ UNCHANGED <<fenceVars, gpsVars, attVars, commands>>
  /\ \/ /\ asked.receiver # Unset /\ asked' = [asked EXCEPT !.receiver = Unset]
        /\ \E s \in Sentence :
             /\ pipe' = Posted(pipe, "gps", [kind |-> "raw", arg |-> s])
             /\ calm' = IF Gps!Deserialized(s) = Unset THEN 0 ELSE calm
     \/ /\ asked.board # Unset /\ asked' = [asked EXCEPT !.board = Unset]
        /\ \E a \in Attitude : pipe' = Posted(pipe, "geofence", [kind |-> "acb", arg |-> a])
        /\ UNCHANGED calm

GeofenceStep ==
  /\ UNCHANGED <<gpsVars, attVars, asked, commands, calm>>
  /\ \/ /\ Initialize(DefaultFile) /\ UNCHANGED pipe
     \/ /\ Waits("geofence", "ecef") /\ HandlePosition(Arg("geofence")) /\ pipe' = Taken("geofence")
     \/ /\ Waits("geofence", "acb") /\ HandleOrientation(Arg("geofence")) /\ pipe' = Taken("geofence")
     \/ /\ Waits("geofence", "polling") /\ HandlePolling(Arg("geofence")) /\ pipe' = Taken("geofence")
     \/ /\ pipe["geofence"] # <<>> /\ Handled(Head(pipe["geofence"])) /\ pipe' = Taken("geofence")

(* A trap ends the process all three applications are threads of.          *)
Up == gpsStatus # "trapped" /\ attStatus # "trapped"

ImagingInit ==
  /\ Init /\ Gps!Init /\ Att!Init
  /\ chained \in BOOLEAN
  /\ chained => offsets = CHOOSE o \in Offset : TRUE
  /\ pipe = [a \in Apps |-> <<>>]
  /\ asked = [d \in {"receiver", "board"} |-> Unset]
  /\ commands = 0 /\ calm = 0

ImagingNext ==
  /\ UNCHANGED chained
  /\ \/ ~chained /\ Next /\ UNCHANGED chainVars
     \/ chained /\ Up /\ (Command \/ Request \/ Pps \/ GpsStep \/ AttitudeStep \/ Answer \/ GeofenceStep)

ImagingSpec == ImagingInit /\ [][ImagingNext]_<<chained, fenceVars, chainVars>>

-----------------------------------------------------------------------------
(* What each application is sent.                                          *)
Mail ==
  [gps      |-> [kind : {"pps", "reset"}, arg : {<<>>}]
                  \cup [kind : {"config"}, arg : BOOLEAN \X Rate]
                  \cup [kind : {"raw"}, arg : Sentence],
   attitude |-> [kind : {"pps", "reset"}, arg : {<<>>}]
                  \cup [kind : {"config"}, arg : BOOLEAN \X FrameCount]
                  \cup [kind : {"polling"}, arg : BOOLEAN]
                  \cup [kind : {"request"}, arg : Pointing],
   geofence |-> [kind : {"ecef"}, arg : Position]
                  \cup [kind : {"acb"}, arg : Attitude]
                  \cup [kind : {"polling"}, arg : BOOLEAN]
                  \cup Requests]

Typed(p) == DOMAIN p = Apps /\ \A app \in Apps : p[app] \in Seq(Mail[app])

ChainTypeOK ==
  /\ chained \in BOOLEAN /\ Typed(pipe)
  /\ asked \in [{"receiver", "board"} -> Nat \cup {Unset}]
  /\ \A d \in DOMAIN asked : asked[d] # Unset => now - asked[d] \in 0..ANSWER_WITHIN
  /\ commands \in 0..MaxCommands /\ calm \in Nat

ImagingTypeOK == TypeOK /\ Gps!TypeOK /\ Att!TypeOK /\ ChainTypeOK

(* GpsApp's and AttitudeApp's RequestsKeepComing: while polling is on, no  *)
(* run of heartbeats as long as the rate goes by without a request.        *)
RequestsKeepComing == Gps!RequestsKeepComing /\ Att!RequestsKeepComing

PollsBoth ==
  /\ gpsStatus = "running" /\ gps.pollingOn /\ ~gps.blocked
  /\ attStatus = "running" /\ att.enabled /\ ~att.blocked

(* A rate, and the time an answer takes, within the geofence's timeout.    *)
InTime(rate) == rate > 0 /\ rate + ANSWER_WITHIN <= MEASURE_TIMEOUT

(* The chain keeps its promise to the camera: when both applications poll  *)
(* at rates that, with the time of an answer, lie within MEASURE_TIMEOUT,  *)
(* and nothing has disturbed that for as long, then no request is refused  *)
(* for measurements that are too old (GeofenceApp.cpp:89-97).              *)
FreshWhilePolled ==
  /\ ImagingTypeOK
  /\ chained /\ Up /\ status = "running" /\ PollsBoth
       /\ InTime(gps.framesPerRequest) /\ InTime(att.framesPerRequest)
       /\ calm > MEASURE_TIMEOUT
     => Fresh
=============================================================================
