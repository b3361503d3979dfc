---------------------------- MODULE CommandService ----------------------------
(***************************************************************************)
(* What the script bridge promises a team's script, without datagrams,     *)
(* sockets and waits: commands are served in the order they were sent and  *)
(* each at most once, and whatever is asked of the other applications was  *)
(* written by the script, in that command or in a later one.  It promises  *)
(* neither that a command is served nor that the camera goes off: "on" and *)
(* "off" both ask for power.                                               *)
(*                                                                         *)
(* cromulence::script_udp::ScriptUdpApp (script_udp/src/ScriptUdp.cpp) is  *)
(* shown to implement this specification in module ScriptUdp.              *)
(***************************************************************************)
EXTENDS Integers, Sequences

CONSTANTS
  Command,      (* records of an op and an arg                             *)
  ToId(_), Bad, (* the number a text says, or Bad                          *)
  Nothing       (* no request                                              *)

VARIABLES
  sent,         (* the commands sent so far                                *)
  unserved,     (* those that may still be served                          *)
  request       (* what was asked of another application just now          *)

serviceVars == <<sent, unserved, request>>

-----------------------------------------------------------------------------
Init == sent = <<>> /\ unserved = {} /\ request = Nothing

(* A command may be lost at once.                                          *)
Submit(c) ==
  /\ sent' = Append(sent, c)
  /\ unserved' \in {unserved, unserved \cup {Len(sent) + 1}}
  /\ UNCHANGED request

First(k, S) == k \in S /\ \A j \in S : k <= j

(* Request r is what command k is served with, if its argument was that of *)
(* command r.argOf.                                                        *)
Means(r, k) ==
  /\ r.opOf = k /\ r.argOf \in k..Len(sent)
  /\ LET arg == sent[r.argOf].arg
     IN  \/ sent[k].op = "GPS" /\ r.op = "NovatelCmd"
         \/ sent[k].op = "KIDDIE" /\ r.op = "Kiddie"
         \/ /\ sent[k].op = "CAM_POWER" /\ r.op = "DevicePower"
            /\ arg \in {"on", "off"} /\ r.power = 1
         \/ /\ \/ sent[k].op = "SNAP" /\ r.op = "SnapRequest"
               \/ sent[k].op = "DOWNLOAD" /\ r.op = "DownloadRequest"
            /\ r.id = ToId(arg) /\ r.id # Bad

(* The oldest command is served, with or without a request.  The one after *)
(* it is lost with it when its opcode is taken for the missing argument.   *)
Serve(k) ==
  /\ First(k, unserved)
  /\ request' = Nothing \/ Means(request', k)
  /\ LET rest == unserved \ {k}
     IN  unserved' = rest \/ \E j \in rest : First(j, rest) /\ unserved' = rest \ {j}
  /\ UNCHANGED sent

(* A reset loses everything that is not served.                            *)
Reset == unserved' = {} /\ request' = Nothing /\ UNCHANGED sent

Rest == request' = Nothing /\ UNCHANGED <<sent, unserved>>

Next ==
  \/ \E c \in Command : Submit(c)
  \/ \E k \in unserved : Serve(k)
  \/ Reset
  \/ Rest

Spec == Init /\ [][Next]_serviceVars
=============================================================================
