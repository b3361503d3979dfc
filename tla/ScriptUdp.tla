------------------------------- MODULE ScriptUdp -------------------------------
(***************************************************************************)
(* cromulence::script_udp::ScriptUdpApp (script_udp/src/ScriptUdp.cpp) and *)
(* the UdpServer it listens on: a team's script, in another process, sends *)
(* each command as two datagrams, an opcode and an argument; the           *)
(* application reads them only when its software-bus pipe has been silent  *)
(* for a second, at most six commands at a time, and turns them into       *)
(* requests to the other applications.                                     *)
(*                                                                         *)
(* A datagram can be lost: on the way, because the socket is bound to      *)
(* another port, or because a reset closes the socket it waits in.  What   *)
(* arrives, arrives in the order it was sent (the script runs on the same  *)
(* host).                                                                  *)
(***************************************************************************)
EXTENDS Integers, Sequences, FiniteSets

CONSTANTS
  Command,        (* what a script can ask: records of an op and an arg    *)
  ToId(_),        (* to_int<uint8_t> of a text, or Bad                     *)
  Bad,
  SERVER_PORT,    (* the port scripts send to                              *)
  Port,           (* ports a ConfigureMsg names                            *)
  Taken,          (* ports that cannot be bound                            *)
  Team,
  PipeDepth,      (* commands the software bus keeps for this application *)
  MaxCount,       (* what check_script() compares its count with: 5        *)
  MaxSent, MaxLost, MaxConfigures  (* bounds: script commands, datagrams   *)
                  (* lost on the way, and ConfigureMsgs                    *)

OpCode == {"GPS", "SNAP", "DOWNLOAD", "KIDDIE", "CAM_POWER"}

ASSUME ScriptAssumption ==
  /\ \A c \in Command : c.op \in OpCode
  /\ SERVER_PORT \in Nat \ Taken /\ Port \subseteq Nat
  /\ PipeDepth \in Nat /\ MaxCount \in Nat

VARIABLES
  (* the script *)
  sent,         (* the commands sent so far                                *)
  half,         (* has only the opcode of the last one been sent?          *)
  (* the network *)
  socket,       (* datagrams received and not read: who sent them and what *)
  lost,         (* the parts of commands that never reach the application  *)
  dropped,      (* how many of them were lost on the way                   *)
  (* the application *)
  open_, port,  (* UdpServer: open_, and the port sockFd_ is bound to      *)
  fds,          (* descriptors the process holds                           *)
  failures,     (* connect() calls that threw                              *)
  currentTeam_, gpsCount_,
  pipe,         (* commands waiting on the software bus                    *)
  configures,   (* how many ConfigureMsgs were sent                        *)
  phase,        (* "receive", "opcode" or "argument": where the task waits *)
  count,        (* commands read since the last time-out                   *)
  opcode,       (* the opcode datagram whose argument is being read        *)
  published     (* the message just published, with the commands its       *)
                (* opcode and its argument come from                       *)

script  == <<sent, half>>
network == <<socket, lost, dropped>>
server  == <<open_, port, fds, failures>>
app     == <<currentTeam_, gpsCount_, phase, count, opcode>>
bus     == <<pipe, configures>>
vars    == <<script, network, server, app, bus, published>>

Nothing == [op |-> "none"]
Unbound == 0 - 1

UINT16 == 256 * 256   (* how many values gpsCount_ has *)

-----------------------------------------------------------------------------
Init ==
  /\ sent = <<>> /\ half = FALSE
  /\ socket = <<>> /\ lost = {} /\ dropped = 0
  /\ open_ = TRUE /\ port = SERVER_PORT /\ fds = 1 /\ failures = 0
  /\ currentTeam_ = "noone" /\ gpsCount_ = 0
  /\ pipe = <<>> /\ configures = 0
  /\ phase = "receive" /\ count = 0 /\ opcode = Nothing
  /\ published = Nothing

(* The script sends part p ("op" or "arg") of its k-th command.            *)
Datagram(k, p) ==
  \/ /\ port = SERVER_PORT
     /\ socket' = Append(socket, [cmd |-> k, part |-> p])
     /\ UNCHANGED <<lost, dropped>>
  \/ /\ port # SERVER_PORT \/ dropped < MaxLost
     /\ dropped' = IF port = SERVER_PORT THEN dropped + 1 ELSE dropped
     /\ lost' = lost \cup {<<k, p>>}
     /\ UNCHANGED socket

SendOp ==
  /\ ~half /\ Len(sent) < MaxSent
  /\ \E c \in Command : sent' = Append(sent, c)
  /\ half' = TRUE
  /\ Datagram(Len(sent) + 1, "op")
  /\ UNCHANGED <<server, app, bus, published>>

SendArg ==
  /\ half
  /\ half' = FALSE
  /\ Datagram(Len(sent), "arg")
  /\ UNCHANGED <<sent, server, app, bus, published>>

(* Somebody sends this application a command; a full pipe drops it.        *)
Post(msg) ==
  /\ msg.op = "Configure" => configures < MaxConfigures
  /\ configures' = IF msg.op = "Configure" THEN configures + 1 ELSE configures
  /\ pipe' = IF Len(pipe) < PipeDepth THEN Append(pipe, msg) ELSE pipe
  /\ UNCHANGED <<script, network, server, app, published>>

-----------------------------------------------------------------------------
ReconnectLeaks(p) ==
  /\ fds' = fds + 1
  /\ port' = IF p \in Taken THEN Unbound ELSE p
  /\ open_' = (p \notin Taken)
  /\ failures' = IF p \in Taken THEN failures + 1 ELSE failures
  /\ lost' = lost \cup {<<socket[i].cmd, socket[i].part>> : i \in DOMAIN socket}
  /\ socket' = <<>>
  /\ UNCHANGED dropped

ReconnectStaysOpen(p) ==
  /\ fds' = (IF open_ THEN fds - 1 ELSE fds) + 1
  /\ port' = IF p \in Taken THEN Unbound ELSE p
  /\ open_' = TRUE
  /\ failures' = IF p \in Taken THEN failures + 1 ELSE failures
  /\ lost' = lost \cup {<<socket[k].cmd, socket[k].part>> : k \in DOMAIN socket}
  /\ socket' = <<>>
  /\ UNCHANGED dropped

(* disconnect() if open, then connect(p): a new descriptor, whose bind may *)
(* throw and leave it open, unbound and in use; the next disconnect() then *)
(* does not close it.  What waited in the old socket is gone.              *)
Reconnect(p) ==
  /\ fds' = (IF open_ THEN fds - 1 ELSE fds) + 1
  /\ port' = IF p \in Taken THEN Unbound ELSE p
  /\ open_' = (p \notin Taken)
  /\ failures' = IF p \in Taken THEN failures + 1 ELSE failures
  /\ lost' = lost \cup {<<socket[i].cmd, socket[i].part>> : i \in DOMAIN socket}
  /\ socket' = <<>>
  /\ UNCHANGED dropped

(* A command from the pipe: reset(), configure(), set_team(), noop().      *)
ProcessMessage ==
  /\ phase = "receive" /\ pipe # <<>>
  /\ pipe' = Tail(pipe)
  /\ published' = Nothing
  /\ LET msg == Head(pipe)
     IN  \/ /\ msg.op = "Reset"
            /\ Reconnect(SERVER_PORT)
            /\ gpsCount_' = 0
            /\ UNCHANGED currentTeam_
         \/ /\ msg.op = "Configure"
            /\ Reconnect(msg.port)
            /\ UNCHANGED <<currentTeam_, gpsCount_>>
         \/ /\ msg.op = "Team"
            /\ currentTeam_' = msg.team
            /\ UNCHANGED <<gpsCount_, server, network>>
  /\ UNCHANGED <<script, phase, count, opcode, configures>>

(* CFE_SB_RcvMsg times out only when nothing waits in the pipe.            *)
ProcessTimeout ==
  /\ phase = "receive" /\ pipe = <<>>
  /\ phase' = "opcode" /\ count' = 0
  /\ published' = Nothing
  /\ UNCHANGED <<script, network, server, currentTeam_, gpsCount_, opcode, bus>>

EndCommand ==
  /\ count' = count + 1
  /\ phase' = IF count + 1 > MaxCount THEN "receive" ELSE "opcode"

ReadOpcodePeeks ==
  /\ phase = "opcode"
  /\ published' = Nothing
  /\ UNCHANGED <<script, lost, dropped, server, currentTeam_, gpsCount_, bus>>
  /\ \/ /\ socket = <<>>
        /\ phase' = "receive"
        /\ UNCHANGED <<socket, count, opcode>>
     \/ /\ socket # <<>> /\ Head(socket).part = "op"
        /\ socket' = Tail(socket)
        /\ opcode' = Head(socket)
        /\ phase' = "argument"
        /\ UNCHANGED count
     \/ /\ socket # <<>> /\ Head(socket).part = "arg"
        /\ EndCommand
        /\ UNCHANGED <<socket, opcode>>

(* read(opcode): a second without a datagram ends the loop; an argument in *)
(* place of an opcode is cut to one byte, which is no opcode.              *)
ReadOpcode ==
  /\ phase = "opcode"
  /\ published' = Nothing
  /\ UNCHANGED <<script, lost, dropped, server, currentTeam_, gpsCount_, bus>>
  /\ \/ /\ socket = <<>>
        /\ phase' = "receive"
        /\ UNCHANGED <<socket, count, opcode>>
     \/ /\ socket # <<>> /\ Head(socket).part = "op"
        /\ socket' = Tail(socket)
        /\ opcode' = Head(socket)
        /\ phase' = "argument"
        /\ UNCHANGED count
     \/ /\ socket # <<>> /\ Head(socket).part = "arg"
        /\ socket' = Tail(socket)
        /\ EndCommand
        /\ UNCHANGED opcode

NumericUnchecked(k, d, op) ==
  [op |-> op, id |-> Bad, opOf |-> k, argOf |-> IF d = Nothing THEN k ELSE d.cmd]

(* The message a handler publishes for the command whose opcode is part of *)
(* command k, on the text of datagram d (none when the read timed out).    *)
Numeric(k, d, op) ==
  LET id == IF d # Nothing /\ d.part = "arg" THEN ToId(sent[d.cmd].arg) ELSE Bad
  IN  IF id = Bad THEN Nothing
      ELSE [op |-> op, id |-> id, opOf |-> k, argOf |-> d.cmd]

(* "off" asks for the same power as "on".                                  *)
CameraPower(k, d) ==
  LET pow == IF d # Nothing /\ d.part = "arg" THEN sent[d.cmd].arg ELSE ""
  IN  IF pow \in {"on", "off"}
      THEN [op |-> "DevicePower", power |-> 1, opOf |-> k, argOf |-> d.cmd]
      ELSE Nothing

Request(k, d) ==
  CASE sent[k].op = "SNAP"      -> Numeric(k, d, "SnapRequest")
    [] sent[k].op = "DOWNLOAD"  -> Numeric(k, d, "DownloadRequest")
    [] sent[k].op = "CAM_POWER" -> CameraPower(k, d)
    [] sent[k].op = "GPS"       -> [op |-> "NovatelCmd", id |-> gpsCount_, text |-> d, opOf |-> k,
                                    argOf |-> IF d = Nothing THEN k ELSE d.cmd]
    [] sent[k].op = "KIDDIE"    -> [op |-> "Kiddie", team |-> currentTeam_, text |-> d, opOf |-> k,
                                    argOf |-> IF d = Nothing THEN k ELSE d.cmd]

(* reads() and the rest of the handler.  The read gives up after a second, *)
(* which may be before the script has sent the argument.                   *)
ReadArgument ==
  /\ phase = "argument"
  /\ LET d == IF socket = <<>> THEN Nothing ELSE Head(socket)
     IN  /\ socket' = IF socket = <<>> THEN socket ELSE Tail(socket)
         /\ published' = Request(opcode.cmd, d)
  /\ gpsCount_' = IF sent[opcode.cmd].op = "GPS" THEN (gpsCount_ + 1) % UINT16 ELSE gpsCount_
  /\ opcode' = Nothing
  /\ EndCommand
  /\ UNCHANGED <<script, lost, dropped, server, currentTeam_, bus>>

-----------------------------------------------------------------------------
Commands == {[op |-> "Reset"]} \cup [op : {"Configure"}, port : Port] \cup [op : {"Team"}, team : Team]

Next ==
  \/ SendOp \/ SendArg
  \/ \E msg \in Commands : Post(msg)
  \/ ProcessMessage
  \/ ProcessTimeout
  \/ ReadOpcode
  \/ ReadArgument

(* The application's task keeps running (ASyncApp::execute), and the       *)
(* script does not stop between the two halves of a command.               *)
Fairness ==
  /\ WF_vars(ProcessMessage) /\ WF_vars(ProcessTimeout)
  /\ WF_vars(ReadOpcode) /\ WF_vars(ReadArgument)

Spec == Init /\ [][Next]_vars

FairSpec == Spec /\ Fairness

-----------------------------------------------------------------------------
(* The task, the server and the pipe are in states the code can reach: a   *)
(* server that is not open has no port, and is what a throw left behind.   *)
TypeOK ==
  /\ phase \in {"receive", "opcode", "argument"}
  /\ phase = "argument" <=> opcode # Nothing
  /\ open_ <=> port # Unbound
  /\ ~open_ => failures > 0
  /\ Len(pipe) <= PipeDepth
  /\ gpsCount_ \in Nat /\ gpsCount_ < UINT16
  /\ socket # <<>> => port = SERVER_PORT

(* An opcode only meets an argument of another command when its own was    *)
(* lost; and a picture, a download or the camera's power is only asked for *)
(* with another command's argument when that command's opcode was lost as  *)
(* well.  One lost datagram never invents a request.                       *)
PairedUnlessLost ==
  published # Nothing /\ published.opOf # published.argOf =>
    /\ <<published.opOf, "arg">> \in lost
    /\ published.op \in {"SnapRequest", "DownloadRequest", "DevicePower"} =>
         <<published.argOf, "op">> \in lost

(* The commands whose opcode waits in the socket or has just been read.    *)
Unserved ==
  {socket[i].cmd : i \in {j \in DOMAIN socket : socket[j].part = "op"}}
    \cup (IF opcode = Nothing THEN {} ELSE {opcode.cmd})

Service == INSTANCE CommandService WITH unserved <- Unserved, request <- published

(* What is asked of other applications goes back to the script's commands, *)
(* in their order and each at most once; a number asked for is the one in  *)
(* the script's text, and a text is another command's only as              *)
(* PairedUnlessLost says.  The camera's power is asked for on "on" and on  *)
(* "off" alike, which is not what "off" says (CameraPowerAsTold).          *)
AsksAsTold == []PairedUnlessLost /\ Service!Spec

(* Descriptors are lost only to connects that threw, one for each, and     *)
(* open_ tells whether there is a socket to read from (part of TypeOK).    *)
DescriptorsAccounted == TypeOK /\ fds <= 1 + failures

(* Once the bus falls silent, everything a script has sent is read; while  *)
(* it does not, a script can be kept waiting.                              *)
ServedWhenQuiet ==
  <>[](pipe = <<>>) => (socket # <<>> ~> socket = <<>>)

(* "POWER" is "1=on, 0=off" (messages/cosmos/targets/IO/cmd_tlm/           *)
(* io_cmd.txt:29): the camera's power is asked for as the script wrote it. *)
CameraPowerAsTold ==
  published # Nothing /\ published.op = "DevicePower" =>
    published.power = IF sent[published.argOf].arg = "on" THEN 1 ELSE 0
=============================================================================
