------------------------------- MODULE FinalPass -------------------------------
(***************************************************************************)
(* The manager of finalpass (static/manager/manager.cpp): the main thread  *)
(* reads choices and logs users in and out; a second thread receives a     *)
(* password database, stores it and logs its user in.  They share          *)
(* current_user, current_username, the lock and thread_active, the output  *)
(* stream and the directory of databases.                                  *)
(*                                                                         *)
(* One action is a stretch of one thread with at most one access to what   *)
(* the threads share, or the whole of a critical section.  A database is   *)
(* its user's name; the password entries, which only the main thread       *)
(* touches, and whether a password fits, are left open.                    *)
(***************************************************************************)
EXTENDS Integers, FiniteSets

CONSTANTS
  Name,             (* user names, "admin" among them                      *)
  Thread            (* identities of database threads                      *)

Nobody == "nobody"   (* no user, and the name of none                   *)

ASSUME FinalPassAssumption == "admin" \in Name /\ Nobody \notin Name /\ Thread # {}

VARIABLES
  pc,               (* where the main thread is                            *)
  loaded,           (* Login's user: whose database it read, or nobody     *)
  dpc, upload,      (* where each database thread is, and what it received *)
  files,            (* each name's database: "none", "partial", "whole"    *)
  current_user, current_username,
  lock, thread_active,
  muted,            (* cout has its fail bit set                           *)
  createFailed      (* for the properties: pthread_create() failed once    *)

local  == <<pc, loaded>>
user   == <<current_user, current_username>>
sync   == <<lock, thread_active, muted, createFailed>>
shared == <<files, user, sync>>
vars   == <<local, dpc, upload, shared>>

-----------------------------------------------------------------------------
(* The lock, thread_active and current_user are in memory that nothing has *)
(* written to; it is taken to be zero.                                     *)
Init ==
  /\ pc = "menu" /\ loaded = Nobody
  /\ dpc = [t \in Thread |-> "none"] /\ upload = [t \in Thread |-> Nobody]
  /\ files = [n \in Name |-> IF n = "admin" THEN "whole" ELSE "none"]
  /\ current_user = Nobody /\ current_username = Nobody
  /\ lock = "free" /\ thread_active = FALSE /\ muted = FALSE /\ createFailed = FALSE

-----------------------------------------------------------------------------
(* LoadCurrentUser() in the file of the given name: ParseUserDB() refuses  *)
(* a file that has not the length it says it has.                          *)
LoadedAnyhow(name) ==
  IF name = Nobody \/ (name # Nobody /\ files[name] = "none") THEN Nobody ELSE name

Loaded(name) ==
  IF name # Nobody /\ files[name] = "whole" THEN name ELSE Nobody

(* ProcessChoice(): the choices depend on whether there is a user now,     *)
(* whatever the menu said.  The others (view and add a password, list      *)
(* users, nonsense) change nothing that is shared.                         *)
ProcessChoice ==
  /\ pc = "menu"
  /\ pc' \in IF current_user = Nobody THEN {"login", "lock"}
             ELSE {"delete_password", "delete", "logout"}
  /\ UNCHANGED <<loaded, dpc, upload, shared>>

LogOut ==
  /\ pc = "logout"
  /\ current_user' = Nobody
  /\ pc' = "menu"
  /\ UNCHANGED <<loaded, dpc, upload, files, current_username, sync>>

(* Login() has read a user name and a password; or they were refused.      *)
LoginName ==
  /\ pc = "login"
  /\ \/ pc' = "menu" /\ UNCHANGED current_username
     \/ pc' = "login_load" /\ current_username' \in Name
  /\ UNCHANGED <<loaded, dpc, upload, files, current_user, sync>>

LoginLoad ==
  /\ pc = "login_load"
  /\ loaded' = Loaded(current_username)
  /\ pc' = IF Loaded(current_username) = Nobody THEN "menu" ELSE "login_check"
  /\ UNCHANGED <<dpc, upload, shared>>

LoginCheck ==
  /\ pc = "login_check"
  /\ current_user' \in {loaded, current_user}
  /\ loaded' = Nobody
  /\ pc' = "menu"
  /\ UNCHANGED <<dpc, upload, files, current_username, sync>>

(* DeletePassword() and DeleteDB() use the user they find; should there be *)
(* none any more, the program crashes.                                     *)
NoUser ==
  /\ pc \in {"delete_password", "delete"} /\ current_user = Nobody
  /\ pc' = "crashed"
  /\ UNCHANGED <<loaded, dpc, upload, shared>>

DeletePassword ==
  /\ pc = "delete_password" /\ current_user # Nobody
  /\ pc' = "menu"
  /\ UNCHANGED <<loaded, dpc, upload, shared>>

(* DeleteDB(): the user is read first, then current_username is compared,  *)
(* then the file goes and the user with it.                                *)
DeleteDB ==
  /\ pc = "delete" /\ current_user # Nobody
  /\ IF current_username = "admin"
     THEN pc' = "menu" /\ UNCHANGED loaded
     ELSE pc' = "remove" /\ loaded' = current_user
  /\ UNCHANGED <<dpc, upload, shared>>

Remove ==
  /\ pc = "remove"
  /\ IF files[loaded] # "none"
     THEN files' = [files EXCEPT ![loaded] = "none"] /\ pc' = "logout"
     ELSE UNCHANGED files /\ pc' = "menu"
  /\ loaded' = Nobody
  /\ UNCHANGED <<dpc, upload, user, sync>>

Start(t) ==
  /\ dpc[t] = "none"
  /\ dpc' = [dpc EXCEPT ![t] = "start"]

LoadDBKeepsLock ==
  /\ pc = "lock" /\ lock = "free"
  /\ \/ /\ thread_active
        /\ lock' = "main" /\ pc' = "menu"
        /\ UNCHANGED <<thread_active, dpc, createFailed>>
     \/ /\ ~thread_active
        /\ \E t \in Thread : Start(t)
        /\ lock' = "main" /\ thread_active' = TRUE /\ pc' = "unlock"
        /\ UNCHANGED createFailed
     \/ /\ ~thread_active
        /\ lock' = "main" /\ createFailed' = TRUE /\ pc' = "menu"
        /\ UNCHANGED <<thread_active, dpc>>
  /\ UNCHANGED <<loaded, upload, files, user, muted>>

(* LoadDB(): one database thread at a time.  When pthread_create() fails   *)
(* the lock is not released.                                               *)
LoadDB ==
  /\ pc = "lock" /\ lock = "free"
  /\ \/ /\ thread_active
        /\ pc' = "menu"
        /\ UNCHANGED <<lock, thread_active, dpc, createFailed>>
     \/ /\ ~thread_active
        /\ \E t \in Thread : Start(t)
        /\ lock' = "main" /\ thread_active' = TRUE /\ pc' = "unlock"
        /\ UNCHANGED createFailed
     \/ /\ ~thread_active
        /\ lock' = "main" /\ createFailed' = TRUE /\ pc' = "menu"
        /\ UNCHANGED <<thread_active, dpc>>
  /\ UNCHANGED <<loaded, upload, files, user, muted>>

LoadDBUnlock ==
  /\ pc = "unlock"
  /\ lock' = "free" /\ pc' = "menu"
  /\ UNCHANGED <<loaded, dpc, upload, files, user, thread_active, muted, createFailed>>

-----------------------------------------------------------------------------
Goto(t, where) == dpc' = [dpc EXCEPT ![t] = where]

Mute(t) ==
  /\ dpc[t] = "start"
  /\ muted' = TRUE
  /\ Goto(t, "receive")
  /\ UNCHANGED <<local, upload, files, user, lock, thread_active, createFailed>>

(* OpenDataConnection() and ParseUserDB(): a user's database, or nothing   *)
(* usable.                                                                 *)
Receive(t) ==
  /\ dpc[t] = "receive"
  /\ \/ Goto(t, "unmute") /\ UNCHANGED upload
     \/ \E n \in Name : upload' = [upload EXCEPT ![t] = n] /\ Goto(t, "name")
  /\ UNCHANGED <<local, shared>>

SetName(t) ==
  /\ dpc[t] = "name"
  /\ current_username' = upload[t]
  /\ Goto(t, "list")
  /\ UNCHANGED <<local, upload, files, current_user, sync>>

ListUsersUnchecked(t) ==
  /\ dpc[t] = "list"
  /\ Goto(t, "write")
  /\ UNCHANGED <<local, upload, shared>>

(* "User already exists!"                                                  *)
ListUsers(t) ==
  /\ dpc[t] = "list"
  /\ Goto(t, IF files[upload[t]] # "none" THEN "unmute" ELSE "write")
  /\ UNCHANGED <<local, upload, shared>>

(* fopen(.., "w") makes or empties the file; when it fails, writing to the *)
(* null pointer crashes the program.                                       *)
Open(t) ==
  /\ dpc[t] = "write"
  /\ \/ /\ files' = [files EXCEPT ![upload[t]] = "partial"]
        /\ Goto(t, "close")
        /\ UNCHANGED local
     \/ pc' = "crashed" /\ UNCHANGED <<loaded, dpc, files>>
  /\ UNCHANGED <<upload, user, sync>>

(* Everything is in the file, unless it was removed meanwhile; a short     *)
(* write ends the program and leaves what is there.                        *)
Close(t) ==
  /\ dpc[t] = "close"
  /\ \/ /\ files' = [files EXCEPT ![upload[t]] = IF @ = "partial" THEN "whole" ELSE @]
        /\ Goto(t, "load")
        /\ UNCHANGED local
     \/ pc' = "crashed" /\ UNCHANGED <<loaded, dpc, files>>
  /\ UNCHANGED <<upload, user, sync>>

(* LoadCurrentUser() goes by current_username, not by what was received.   *)
Load(t) ==
  /\ dpc[t] = "load"
  /\ upload' = [upload EXCEPT ![t] = Loaded(current_username)]
  /\ Goto(t, "enter")
  /\ UNCHANGED <<local, shared>>

Enter(t) ==
  /\ dpc[t] = "enter"
  /\ current_user' = upload[t]
  /\ Goto(t, "unmute")
  /\ UNCHANGED <<local, upload, files, current_username, sync>>

Unmute(t) ==
  /\ dpc[t] = "unmute"
  /\ muted' = FALSE
  /\ upload' = [upload EXCEPT ![t] = Nobody]
  /\ Goto(t, "finish")
  /\ UNCHANGED <<local, files, user, lock, thread_active, createFailed>>

FinishKeepsLock(t) ==
  /\ dpc[t] = "finish" /\ lock = "free"
  /\ thread_active' = FALSE /\ lock' = "thread"
  /\ Goto(t, "none")
  /\ UNCHANGED <<local, upload, files, user, muted, createFailed>>

(* The thread ends under the lock.                                         *)
Finish(t) ==
  /\ dpc[t] = "finish" /\ lock = "free"
  /\ thread_active' = FALSE
  /\ Goto(t, "none")
  /\ UNCHANGED <<local, upload, files, user, lock, muted, createFailed>>

-----------------------------------------------------------------------------
Main == ProcessChoice \/ LogOut \/ LoginName \/ LoginLoad \/ LoginCheck \/ NoUser
          \/ DeletePassword \/ DeleteDB \/ Remove
          \/ LoadDB \/ LoadDBUnlock

Database(t) == Mute(t) \/ SetName(t) \/ ListUsers(t) \/ Open(t) \/ Close(t) \/ Load(t)
                 \/ Enter(t) \/ Unmute(t) \/ Finish(t)

Next == pc # "crashed" /\ (Main \/ \E t \in Thread : Database(t) \/ Receive(t))

Spec == Init /\ [][Next]_vars

(* The scheduler runs both threads; nobody has to choose LoadDB at the     *)
(* menu, or to send a database.                                            *)
FairSpec ==
  /\ Spec
  /\ WF_vars(Next /\ (LoadDB \/ LoadDBUnlock))
  /\ \A t \in Thread : WF_vars(Next /\ Database(t))

-----------------------------------------------------------------------------
(* Types; of the two threads, only the main one keeps the lock for longer  *)
(* than a critical section.                                                *)
TypeOK ==
  /\ pc \in {"menu", "login", "login_load", "login_check", "delete_password", "delete", "remove",
             "logout", "lock", "unlock", "crashed"}
  /\ loaded \in Name \cup {Nobody}
  /\ dpc \in [Thread -> {"none", "start", "receive", "name", "list", "write", "close", "load",
                         "enter", "unmute", "finish"}]
  /\ upload \in [Thread -> Name \cup {Nobody}]
  /\ files \in [Name -> {"none", "partial", "whole"}]
  /\ current_user \in Name \cup {Nobody} /\ current_username \in Name \cup {Nobody}
  /\ lock \in {"free", "main"} /\ thread_active \in BOOLEAN
  /\ muted \in BOOLEAN /\ createFailed \in BOOLEAN

(* A database that is there is never overwritten: between the look at the  *)
(* directory and fopen nobody else makes the file.                         *)
NeverOverwritten ==
  [][\A n \in Name : files[n] # "none" => files'[n] \in {files[n], "none"} \cup
       (IF files[n] = "partial" THEN {"whole"} ELSE {})]_vars

(* Nobody is logged in from a database that is not all there, and the lock *)
(* is only ever kept by the main thread (part of TypeOK).                  *)
SessionsAreWhole ==
  []TypeOK /\ [][\A n \in Name :
       /\ loaded' = n /\ loaded # n /\ pc = "login_load" => files[n] = "whole"
       /\ \A t \in Thread : dpc[t] = "load" /\ dpc'[t] = "enter" /\ upload'[t] = n =>
                            files[n] = "whole"]_vars

(* LoadDB() returns to the menu, unless it kept the lock the last time;    *)
(* and every database that was received is dealt with and its thread ends, *)
(* however often the main thread takes the lock meanwhile.  Either, unless *)
(* the program crashed.                                                    *)
LoadDBReturns ==
  /\ pc = "lock" ~> pc \in {"menu", "crashed"} \/ createFailed
  /\ \A t \in Thread : dpc[t] \notin {"none", "start", "receive"} ~> dpc[t] = "none" \/ pc = "crashed"

(* "Can't delete the admin DB!" (manager.cpp:651)                          *)
AdminKept == files["admin"] = "whole"
=============================================================================
