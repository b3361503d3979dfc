----------------------------- MODULE HttpRequest -----------------------------
(***************************************************************************)
(* The process that the web server forks for a connection, from the first  *)
(* byte of the request to close(): http.c, http_get.c, http_head.c,        *)
(* http_post.c, admin_pages.c and, as module ReadBody, read_body.c, all in *)
(* has4-web/challenge/src.                                                 *)
(*                                                                         *)
(* A request is what the code branches on: the method, how its body is     *)
(* framed, and, chosen when the code looks, what its target and its JSON   *)
(* command turn out to be.  An answer is its status.                       *)
(***************************************************************************)
EXTENDS ReadBody, Sequences

CONSTANTS SendDirList, UseIfModHdr        (* server.ini                    *)

ASSUME HttpAssumption == SendDirList \in BOOLEAN /\ UseIfModHdr \in BOOLEAN

VARIABLES
  phase,      (* how far handleRequest() and handle_client() are           *)
  request,    (* method, framing and length of the body                    *)
  answers,    (* the statuses sent so far                                  *)
  lost        (* the client gets no answer: the request did not arrive, a  *)
              (* call failed, or the process died                          *)

http     == <<phase, request, answers, lost>>
httpVars == <<http, vars>>

-----------------------------------------------------------------------------
(* What a request asks for, and what the calls made on the way return.     *)
Targets == [english    : BOOLEAN,
            uri        : {"plain", "slash", "refused", "ampersand", "escaped"},
            noMemory   : {"never", "path", "decoded", "check", "access"},
            file       : {"absent", "unreadable", "gone", "readable"},
            directory  : {"absent", "noHandle", "listed"},
            access     : {"open", "tooLong", "noRealm", "protected"},
            credential : {"none", "undecodable", "malformed", "unsalted", "wrong", "right"},
            unmodified : BOOLEAN]

Pages == [json  : BOOLEAN,      (* said to be, and is                      *)
          page  : {"dashboard", "config", "files", "other"},
          cmd   : {"absent", "notAString", "list", "get", "other"},
          path  : {"absent", "notAString", "missing", "directory", "file", "withheld"},
          fails : {"nothing", "open", "list"}]

(* Outcomes that are not a status: nothing is sent, or the process dies.   *)
Nothing == 0
Dies    == 1

(* The texts of http_errors.c, and the statuses sent without sendError().  *)
Statuses == {100, 200, 304, 400, 401, 403, 404, 405, 406, 411, 413, 414, 500, 501, 505}

(* A check lets the request pass or has an outcome; the first one counts.  *)
Passed == -1

Unless(passed, outcome) == IF passed THEN Passed ELSE outcome

FirstOf(checks) ==
  checks[CHOOSE i \in 1..Len(checks) :
           checks[i] # Passed /\ \A j \in 1..(i - 1) : checks[j] = Passed]

(* sendDirList()                                                           *)
ListDirectory(t) ==
  FirstOf(<<Unless(t.directory # "absent", 404),
            Unless(t.directory # "noHandle", Nothing), 200>>)

(* checkFile(), and what becomes of a file that is not there.              *)
FileChecks(t, absent) ==
  <<Unless(t.noMemory # "check", 500),
    Unless(t.file # "absent", absent),
    Unless(t.file # "unreadable", 403)>>

(* checkAuth(): without a .access file beside it a file is open.  Nobody   *)
(* looks whether there is a decoded text, or an encrypted password.        *)
AuthChecks(t) ==
  LET open == t.access = "open"
  IN  <<Unless(t.access # "tooLong", 400),
        Unless(t.noMemory # "access", Nothing),
        Unless(t.access # "noRealm", 500),
        Unless(open \/ t.credential # "none", 401),
        Unless(open \/ t.credential # "undecodable", Dies),
        Unless(open \/ t.credential # "malformed", 400),
        Unless(open \/ t.credential # "unsalted", Dies),
        Unless(open \/ t.credential = "right", 403)>>

(* The file is opened by its name after it was checked by its name.        *)
OpenFile(t) == <<Unless(t.file # "gone", 404)>>

Modified(t) == <<Unless(~UseIfModHdr \/ ~t.unmodified, 304)>>

ServeFile(t) ==
  FirstOf(<<Unless(t.english, 406),
            Unless(t.uri \notin {"refused", "ampersand"}, 404),
            Unless(t.noMemory # "path", Nothing),
            Unless(t.noMemory # "decoded", Dies),
            Unless(t.uri # "escaped", 404)>>
          \o FileChecks(t, IF t.uri = "slash" /\ SendDirList THEN ListDirectory(t) ELSE 404)
          \o AuthChecks(t) \o OpenFile(t) \o Modified(t) \o <<200>>)

HeadFile(t) ==
  FirstOf(<<Unless(t.uri # "refused", 404),
            Unless(t.noMemory # "path", Nothing),
            Unless(t.noMemory # "decoded", 500)>>
          \o FileChecks(t, 404) \o AuthChecks(t) \o OpenFile(t) \o <<200>>)

(* adminDirList()                                                          *)
AdminDirList(p) ==
  FirstOf(<<Unless(p.path = "directory" /\ p.fails # "open", 404),
            Unless(p.fails # "list", Nothing), 200>>)

(* sendFile()                                                              *)
SendFile(p) ==
  FirstOf(<<Unless(p.path # "missing", 404),
            Unless(p.path # "withheld", 403),
            Unless(p.path # "directory", 400),
            Unless(p.fails # "open", 500), 200>>)

(* The files page.  A command that is no string is used as one.            *)
Files(p) ==
  FirstOf(<<Unless(p.cmd # "absent" /\ p.path # "absent", 400),
            Unless(p.cmd # "notAString", Dies),
            Unless(p.cmd # "other" /\ p.path # "notAString", 400),
            IF p.cmd = "list" THEN AdminDirList(p) ELSE SendFile(p)>>)

(* handle_admin_pages() of a body that is not empty.                       *)
AdminPage(p) ==
  FirstOf(<<Unless(p.json, 400),
            Unless(p.page # "dashboard", IF p.fails = "nothing" THEN 200 ELSE Dies),
            Unless(p.page # "config", 200),
            Unless(p.page # "other", 404),
            Files(p)>>)

(* What the handlers can come to, over everything they look at.            *)
ServeOutcomes == {ServeFile(t) : t \in Targets}
HeadOutcomes  == {HeadFile(t) : t \in Targets}
AdminOutcomes == {AdminPage(p) : p \in Pages}

-----------------------------------------------------------------------------
HttpInit ==
  /\ Init
  /\ phase = "line" /\ answers = <<>> /\ lost = FALSE
  /\ request = [method |-> "none", framing |-> "none", length |-> 0]

Respond(outcome) ==
  /\ phase' = IF outcome = Dies THEN "ended" ELSE "drain"
  /\ answers' = IF outcome \in {Nothing, Dies} THEN answers ELSE Append(answers, outcome)
  /\ lost' = (outcome \in {Nothing, Dies})
  /\ UNCHANGED <<vars, request>>

RequestLine ==
  /\ phase = "line"
  /\ \/ \E outcome \in {405, 414, 505, Nothing} : Respond(outcome)
     \/ /\ ~closed
        /\ \E m \in {"GET", "HEAD", "POST", "other"} : request' = [request EXCEPT !.method = m]
        /\ phase' = "headers"
        /\ UNCHANGED <<vars, answers, lost>>

(* 400 when no Host is among them; a header that is too long, or missing   *)
(* because the client closed, ends the connection without an answer.  Host *)
(* is copied into 254 bytes whatever its length: of one that is longer,    *)
(* the process may die.  Only handlePost() looks at what frames a body.    *)
Headers ==
  /\ phase = "headers"
  /\ \/ Respond(Nothing)
     \/ ~closed /\ (Respond(400) \/ Respond(Dies))
     \/ /\ ~closed
        /\ \E framing \in {"none", "length", "chunked", "other"}, n \in Lengths :
             /\ framing # "length" => n = 0
             /\ request.method # "POST" => framing = "none"
             /\ request' = [request EXCEPT !.framing = framing, !.length = n]
        /\ phase' = "dispatch"
        /\ UNCHANGED <<vars, answers, lost>>

Serve == /\ phase = "dispatch" /\ request.method = "GET"
         /\ \E outcome \in ServeOutcomes : Respond(outcome)

ServeHead == /\ phase = "dispatch" /\ request.method = "HEAD"
             /\ \E outcome \in HeadOutcomes : Respond(outcome)

NotImplemented == phase = "dispatch" /\ request.method = "other" /\ Respond(501)

(* content_length > maxEntitySize: an unsigned long is what both become,   *)
(* and a negative one is larger than any other.                            *)
TooLarge(n) == IF (n < 0) = (max_size < 0) THEN n > max_size ELSE n < 0

(* 415 has no text in http_errors.c.                                       *)
PostHeadersUntyped ==
  CASE request.framing = "none"  -> 411
    [] request.framing = "other" -> 415
    [] OTHER -> IF request.framing = "length" /\ TooLarge(Atoi(request.length)) THEN 413 ELSE 200

(* What handlePost() says of the headers.                                  *)
PostHeaders ==
  CASE request.framing = "none"  -> 411
    [] request.framing = "other" -> 400
    [] OTHER -> IF request.framing = "length" /\ TooLarge(Atoi(request.length)) THEN 413 ELSE 200

(* The client is told to go on before its Content-Length has been looked   *)
(* at: it counts as 0.                                                     *)
Continue(expect) ==
  IF \/ expect = "100-continue"
     \/ expect = "none" /\ max_size = 0
  THEN <<100>> ELSE <<>>

Post ==
  /\ phase = "dispatch" /\ request.method = "POST"
  /\ \E expect \in {"none", "100-continue", "other"} :
       answers' = answers \o Continue(expect)
                          \o (IF PostHeaders = 200 THEN <<>> ELSE <<PostHeaders>>)
  /\ phase' = IF PostHeaders = 200 THEN "body" ELSE "drain"
  /\ UNCHANGED <<vars, request, lost>>

Body ==
  /\ phase = "body"
  /\ \/ request.framing = "length" /\ ContentLength(request.length)
     \/ request.framing = "chunked" /\ Chunked
     \/ ReadOn
  /\ UNCHANGED http

(* A process that overran its memory.                                      *)
BodyOverrun == phase = "body" /\ pc = "overrun" /\ Respond(Dies)

BodyFails == phase = "body" /\ Fail /\ UNCHANGED http

(* Nobody looks at the result.                                             *)
PostPageAnyway ==
  /\ phase = "body" /\ pc = "done"
  /\ \E outcome \in AdminOutcomes \cup {404} : Respond(outcome)

(* Pages are the administrator's, and ask for a body; 404 for other URIs.  *)
PostPage ==
  /\ phase = "body" /\ pc = "done" /\ result = 200
  /\ \E outcome \in {404} \cup (IF received_size = 0 THEN {400} ELSE AdminOutcomes) :
       Respond(outcome)

(* The refusal is sent, and the call goes on.                              *)
PostRefusedOn ==
  /\ phase = "body" /\ pc = "done" /\ result # 200
  /\ phase' = "drain" /\ answers' = answers \o <<result, 404>>
  /\ UNCHANGED <<vars, request, lost>>

PostRefused ==
  /\ phase = "body" /\ pc = "done" /\ result # 200
  /\ Respond(result)

(* Nothing is sent any more; what the client still sends is read until it  *)
(* closes, for at most 250 ms.                                             *)
Drain ==
  /\ phase = "drain"
  /\ phase' = "ended"
  /\ UNCHANGED <<vars, request, answers, lost>>

(* SIGPIPE: the client is gone and the process writes to it.               *)
Killed ==
  /\ phase \in {"line", "headers", "dispatch", "body"} /\ closed
  /\ phase' = "ended" /\ lost' = TRUE
  /\ UNCHANGED <<vars, request, answers>>

ClientCloses == Close /\ UNCHANGED http

Handle == \/ RequestLine \/ Headers
          \/ Serve \/ ServeHead \/ NotImplemented
          \/ Post \/ Body \/ BodyOverrun \/ PostPage \/ PostRefused

HttpNext == Handle \/ BodyFails \/ Drain \/ Killed \/ ClientCloses

HttpSpec == HttpInit /\ [][HttpNext]_httpVars

(* The process is scheduled.  A client that neither sends nor closes may   *)
(* keep it waiting for ever: only the wait at the end has a limit.         *)
HttpFairSpec == HttpSpec /\ WF_httpVars(closed /\ Handle) /\ WF_httpVars(Drain)

-----------------------------------------------------------------------------
(* Every status sent is one that has a text to send.                       *)
HttpTypeOK ==
  /\ TypeOK
  /\ phase \in {"line", "headers", "dispatch", "body", "drain", "ended"}
  /\ request \in [method  : {"none", "GET", "HEAD", "POST", "other"},
                  framing : {"none", "length", "chunked", "other"}, length : Lengths]
  /\ answers \in Seq(Statuses)
  /\ lost \in BOOLEAN

Final(statuses) == {i \in 1..Len(statuses) : statuses[i] # 100}

(* A request that reached its handler is answered, once: a 100 may come    *)
(* before the answer, nothing after it, and there is none before the       *)
(* request was understood.  Every status has a text (HttpTypeOK).          *)
AnsweredOnce ==
  /\ HttpTypeOK
  /\ \A i, j \in Final(answers) : i = j
  /\ Final(answers) # {} => Len(answers) \in Final(answers) /\ phase \in {"drain", "ended"}
  /\ phase \in {"drain", "ended"} /\ ~lost => Final(answers) # {}

(* A POST that is answered with a page had its body read as BodyIsWhole    *)
(* says: all that the client announced, as an int, and more than nothing.  *)
AcceptedIsWhole ==
  request.method = "POST" /\ answers # <<>> /\ answers[Len(answers)] = 200 =>
    result = 200 /\ received_size = AsAnnounced /\ received_size > 0

(* Once the client has closed, its process ends, wherever it was: no       *)
(* process is left behind reading from nobody.                             *)
ClosedEnds == closed ~> phase = "ended"
=============================================================================
