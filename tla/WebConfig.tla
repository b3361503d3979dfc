------------------------------- MODULE WebConfig -------------------------------
(***************************************************************************)
(* How the web server starts (has4-web/challenge/src): main() reads        *)
(* server.ini and the table of MIME types into dictionaries (loadINI,      *)
(* loadMIMEtypes, dictionary.c), makes the settings of them (loadConfig)   *)
(* and start_server() opens the port.                                      *)
(*                                                                         *)
(* A file is the sequence of what fgets() returns, which of a long line is *)
(* several pieces.  A value is the number atoi() makes of it, or a string  *)
(* that is too long for its member or not.                                 *)
(***************************************************************************)
EXTENDS Integers, Sequences

CONSTANTS
  IniFile,          (* contents of server.ini: sequences of pieces         *)
                    (* [alpha, sep, key, value, cont]: begins with a       *)
                    (* letter, has a colon, is the rest of a long line     *)
  MimeFile,         (* contents of mime.types: [alpha, blank, type, exts,  *)
                    (* trailing]: has a blank, has one after the last word *)
  EnvPort,          (* the environment's PORT: a number, or None           *)
  None, Long,       (* no value; a value too long for its member           *)
  PortMod, SizeMod, (* 2^16 and 2^64, or smaller                           *)
  MaxStarved        (* bound: entries calloc() fails for                   *)

NoWord == ""

(* Lines have keys, words are not empty, and ports are numbers.            *)
ASSUME WebConfigAssumption ==
  /\ {PortMod, SizeMod} \subseteq Nat \ {0} /\ MaxStarved \in Nat
  /\ None \notin Int \cup {NoWord, "listenPort"}
  /\ \A p \in EnvPort : p = None \/ p \in Int
  /\ \A f \in IniFile :
       /\ Len(f) \in Nat /\ DOMAIN f = 1..Len(f)
       /\ \A i \in DOMAIN f : /\ f[i].key \notin {None, NoWord}
                              /\ f[i].key = "listenPort" => f[i].value \in Int
  /\ \A f \in MimeFile :
       /\ Len(f) \in Nat /\ DOMAIN f = 1..Len(f)
       /\ \A i \in DOMAIN f : f[i].exts \in Seq(STRING \ {NoWord})

VARIABLES
  boot,             (* "ini", "mime", "config", "start", then "listening", *)
                    (* "exited", or "crashed"                              *)
  ini, mime,        (* the files, read this far                            *)
  iniAt, mimeAt,    (* the lines to read next,                             *)
  word,             (* and the word of that line of MIME types             *)
  configDict, mimeDict,     (* lists of [key, value]                       *)
  settings,         (* serverInfo, or None                                 *)
  port,             (* the port that is listened on                        *)
  starved           (* the entries calloc() failed for                     *)

files    == <<ini, mime>>
at       == <<iniAt, mimeAt, word>>
dicts    == <<configDict, mimeDict>>
bootVars == <<boot, files, at, dicts, settings, port, starved>>

Entry(k, v) == [key |-> k, value |-> v]

(* addDictEntry(): at the end of the list.  When memory runs out there is  *)
(* no node, or one without a key and with an empty value or none, or one   *)
(* with an empty key and no value; the caller never looks.                 *)
AddDictFirst(dict, e) == {<<<<e>> \o dict, 0>>}

AddDictEntry(dict, e) ==
  {<<Append(dict, e), 0>>, <<dict, 1>>,
   <<Append(dict, Entry(None, NoWord)), 1>>, <<Append(dict, Entry(None, None)), 1>>,
   <<Append(dict, Entry(NoWord, None)), 1>>}

(* findDict(): the first entry with the key; an entry without a key on the *)
(* way there ends the process.                                             *)
Reaches(dict, k) == {i \in DOMAIN dict : \A j \in 1..(i - 1) : dict[j].key # k}
Crashes(dict, k) == \E i \in Reaches(dict, k) : dict[i].key = None
FindDict(dict, k) ==
  IF \E i \in DOMAIN dict : dict[i].key = k
  THEN dict[CHOOSE i \in Reaches(dict, k) : dict[i].key = k].value ELSE None

-----------------------------------------------------------------------------
(* loadINI(), one line: it begins with a letter (and so is no comment),    *)
(* and has a colon (addDictbyLine).                                        *)
LoadINI ==
  /\ boot = "ini" /\ iniAt <= Len(ini)
  /\ LET l == ini[iniAt]
     IN  IF l.alpha /\ l.sep
         THEN \E r \in AddDictEntry(configDict, Entry(l.key, l.value)) :
                configDict' = r[1] /\ starved' = starved + r[2] /\ starved' <= MaxStarved
         ELSE UNCHANGED <<configDict, starved>>
  /\ iniAt' = iniAt + 1
  /\ UNCHANGED <<boot, files, mimeAt, word, mimeDict, settings, port>>

IniRead ==
  /\ boot = "ini" /\ iniAt > Len(ini)
  /\ boot' = "mime"
  /\ UNCHANGED <<files, at, dicts, settings, port, starved>>

(* The keys of one line of MIME types: its extensions, and the empty word  *)
(* between the last blank and the end of the line.                         *)
Extensions(l) == IF l.trailing \/ l.exts = <<>> THEN Append(l.exts, NoWord) ELSE l.exts

(* loadMIMEtypes(), one word of one line: it leads to the type.            *)
LoadMIMEtypes ==
  /\ boot = "mime" /\ mimeAt <= Len(mime)
  /\ LET l == mime[mimeAt]
         words == Extensions(l)
     IN  \/ /\ ~(l.alpha /\ l.blank)
            /\ mimeAt' = mimeAt + 1
            /\ UNCHANGED <<word, mimeDict, starved>>
         \/ /\ l.alpha /\ l.blank
            /\ \E r \in AddDictEntry(mimeDict, Entry(words[word], l.type)) :
                 mimeDict' = r[1] /\ starved' = starved + r[2] /\ starved' <= MaxStarved
            /\ IF word < Len(words) THEN word' = word + 1 /\ UNCHANGED mimeAt
               ELSE word' = 1 /\ mimeAt' = mimeAt + 1
  /\ UNCHANGED <<boot, files, iniAt, configDict, settings, port>>

MimeRead ==
  /\ boot = "mime" /\ mimeAt > Len(mime)
  /\ boot' = "config"
  /\ UNCHANGED <<files, at, dicts, settings, port, starved>>

-----------------------------------------------------------------------------
Keys == {"virtualHosts", "sendDirList", "useIfModHdr", "maxRequestsPerSec", "listenPort",
         "maxEntitySize", "docRoot", "defaultFile", "listenAddr", "serverName"}

Switch(v) == v \in {"True", "true"}

(* port is an unsigned short, so the test against 65535 never fails.       *)
PortOf(v) == v % PortMod

(* maxEntitySize is unsigned, so only zero is below or equal to zero.      *)
SizeOf(v) == IF v = None THEN 10000 % SizeMod ELSE v % SizeMod

(* A long name is cut to what the member holds.                            *)
NameOf(v) == IF v = None THEN "HAS3-HTTP-1.1" ELSE IF v = Long THEN "cut" ELSE v

(* What loadConfig() makes of the values get[k]; {} when it returns -1.    *)
Settings(get, env) ==
  LET service == IF env # None THEN env ELSE get["listenPort"]
  IN  {s \in {[virtualHosts |-> Switch(get["virtualHosts"]),
               sendDirList |-> Switch(get["sendDirList"]),
               useIfModHdr |-> Switch(get["useIfModHdr"]),
               maxRequests |-> IF get["maxRequestsPerSec"] = None THEN 0 ELSE get["maxRequestsPerSec"],
               service |-> service,
               port |-> IF service = None THEN 0 ELSE PortOf(service),
               maxEntitySize |-> SizeOf(get["maxEntitySize"]),
               docRoot |-> get["docRoot"], defaultFile |-> get["defaultFile"],
               serverName |-> NameOf(get["serverName"])]} :
        /\ service # None
        /\ env = None => s.port > 0
        /\ s.docRoot \notin {None, Long} /\ s.defaultFile \notin {None, Long}}

(* What loadConfig() looks up before it can return.                        *)
Early == {"virtualHosts", "sendDirList", "useIfModHdr", "maxRequestsPerSec", "listenPort"}

(* loadConfig(): the address must resolve and a socket must bind to it,    *)
(* which is closed again.                                                  *)
LoadConfig(env) ==
  /\ boot = "config"
  /\ LET found == Settings([k \in Keys |-> FindDict(configDict, k)], env)
     IN  \/ /\ \E k \in Keys : Crashes(configDict, k)
            /\ boot' = "crashed" /\ UNCHANGED settings
         \/ /\ \A k \in Early : ~Crashes(configDict, k)
            /\ boot' = "exited" /\ UNCHANGED settings
         \/ /\ \A k \in Keys : ~Crashes(configDict, k)
            /\ \E s \in found : s.service >= 0 /\ settings' = s
            /\ boot' = "start"
  /\ UNCHANGED <<files, at, dicts, port, starved>>

(* start_server() up to listen().  Somebody else may have the port by now. *)
StartServer ==
  /\ boot = "start"
  /\ \/ boot' = "listening" /\ port' = settings.service % PortMod
     \/ boot' = "exited" /\ UNCHANGED port
  /\ UNCHANGED <<files, at, dicts, settings, starved>>

BootInit ==
  /\ boot = "ini" /\ ini \in IniFile /\ mime \in MimeFile
  /\ iniAt = 1 /\ mimeAt = 1 /\ word = 1
  /\ configDict = <<>> /\ mimeDict = <<>>
  /\ settings = None /\ port = None /\ starved = 0

BootNext ==
  \/ LoadINI \/ IniRead \/ LoadMIMEtypes \/ MimeRead
  \/ (\E env \in EnvPort : LoadConfig(env)) \/ StartServer

BootSpec == BootInit /\ [][BootNext]_bootVars

-----------------------------------------------------------------------------
BootTypeOK ==
  /\ boot \in {"ini", "mime", "config", "start", "listening", "exited", "crashed"}
  /\ iniAt \in 1..(Len(ini) + 1) /\ mimeAt \in 1..(Len(mime) + 1)
  /\ mimeAt <= Len(mime) => word \in 1..Len(Extensions(mime[mimeAt]))
  /\ Len(configDict) < iniAt
  /\ boot \in {"start", "listening"} =>
       \E env \in EnvPort : settings \in Settings([k \in Keys |-> FindDict(configDict, k)], env)
  /\ port \in 0..(PortMod - 1) \cup {None}
  /\ starved \in 0..MaxStarved

(* The value a reader of the file expects: that of the first line for the  *)
(* key, where the rest of a long line is no line.                          *)
Written(k) ==
  LET lines == {i \in DOMAIN ini : ini[i].alpha /\ ini[i].sep /\ ~ini[i].cont /\ ini[i].key = k}
  IN  IF lines = {} THEN None ELSE ini[CHOOSE i \in lines : \A j \in lines : i <= j].value

LooksLikeEntry == \E i \in DOMAIN ini : ini[i].cont /\ ini[i].alpha /\ ini[i].sep

(* Line i of the table gives a type to extension x.                        *)
Lists(i, x) ==
  mime[i].alpha /\ mime[i].blank /\ \E n \in DOMAIN mime[i].exts : mime[i].exts[n] = x

(* A number is configured, and the server has it if the member holds it.   *)
Holds(number, configured, mod) == configured \in 0..(mod - 1) => number = configured

(* A server that listens does so with the first value server.ini gives for *)
(* every key: on the port of the environment or the file, with the size of *)
(* the file, as far as the members hold them; and it knows every extension *)
(* by the first type that lists it.  Out of memory, entries are missing    *)
(* without a word; and the rest of a line of more than 1023 characters is  *)
(* read as a line.                                                         *)
ServesAsConfigured ==
  /\ BootTypeOK
  /\ boot = "listening" /\ starved = 0 =>
       /\ ~LooksLikeEntry => \E env \in EnvPort :
            /\ settings \in Settings([k \in Keys |-> Written(k)], env)
            /\ Holds(port, IF env # None THEN env ELSE Written("listenPort"), PortMod)
            /\ Holds(settings.maxEntitySize, Written("maxEntitySize"), SizeMod)
       /\ \A i \in DOMAIN mime : \A n \in DOMAIN mime[i].exts :
            Lists(i, mime[i].exts[n]) /\ (\A j \in 1..(i - 1) : ~Lists(j, mime[i].exts[n]))
            => FindDict(mimeDict, mime[i].exts[n]) = mime[i].type
=============================================================================
