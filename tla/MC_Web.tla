-------------------------------- MODULE MC_Web --------------------------------
(* The web server: how it starts (WebConfig), how it listens (WebListener) *)
(* and the tables of its statistics (HostStats), one at a time.            *)
(*                                                                         *)
(* Two connections: one can keep its process busy for ever while the other *)
(* waits, and their identities come back.  The files have a key twice, a   *)
(* comment, a line without colon, a long line whose rest looks like an     *)
(* entry, a port above 16 bits, and an extension that two types list.      *)
EXTENDS WebListener, WebConfig, HostStats

CONSTANTS c1, c2

VARIABLE subject

MC_Connections == {c1, c2}

listenerVars == <<listener, current, child, ears, owners, client, backlog, since, delay, recent>>

IniLine(k, v)  == [alpha |-> TRUE, sep |-> TRUE, cont |-> FALSE, key |-> k, value |-> v]
Other       == [alpha |-> FALSE, sep |-> TRUE, cont |-> FALSE, key |-> "none", value |-> None]
NoColon     == [alpha |-> TRUE, sep |-> FALSE, cont |-> FALSE, key |-> "none", value |-> None]
Rest(k, v)  == [IniLine(k, v) EXCEPT !.cont = TRUE]

MC_IniFile ==
  {<<IniLine("listenPort", p), Other, IniLine("docRoot", d), IniLine("defaultFile", "index"),
     IniLine("listenPort", 3)>> : p \in {0, 3, 5, 10}, d \in {"www", Long}}
  \cup {<<IniLine("docRoot", "www"), Rest("docRoot", "tmp"), IniLine("defaultFile", "index"), NoColon,
          IniLine("virtualHosts", v), IniLine("maxEntitySize", n), IniLine("maxRequestsPerSec", 4)>> :
            v \in {"True", "no"}, n \in {0, -1, 7}}
  \cup {<<IniLine("defaultFile", "index"), Rest("docRoot", "tmp"), IniLine("docRoot", "www"),
          IniLine("listenPort", 5)>>, <<>>}

Type(t, x, trailing) ==
  [alpha |-> TRUE, blank |-> TRUE, type |-> t, exts |-> x, trailing |-> trailing]

MC_MimeFile ==
  {<<>>, <<Type("texthtml", <<"html", "txt">>, FALSE), [Type("none", <<>>, FALSE) EXCEPT !.blank = FALSE],
           Type("textplain", <<"txt">>, TRUE)>>}

MC_Width == <<4, 8, 11, 5>>

MC_EnvPort == {None, 6}

-----------------------------------------------------------------------------
(* The server starts before it listens; the statistics are by themselves.  *)
WebInit ==
  /\ Init /\ BootInit /\ StatsInit
  /\ subject \in {"boot", "serve", "stats"}
  /\ subject # "boot" => ini = <<>> /\ mime = <<>>
  /\ subject # "serve" => current = c1

WebNext ==
  \/ subject = "boot" /\ BootNext /\ UNCHANGED <<subject, listenerVars, statsVars>>
  \/ subject = "serve" /\ Next /\ UNCHANGED <<subject, bootVars, statsVars>>
  \/ subject = "stats" /\ StatsNext /\ UNCHANGED <<subject, listenerVars, bootVars>>

WebSpec == WebInit /\ [][WebNext]_<<subject, listenerVars, bootVars, statsVars>> /\ Fairness
=============================================================================
