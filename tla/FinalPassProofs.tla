---------------------------- MODULE FinalPassProofs ----------------------------
(***************************************************************************)
(* What the two threads of the manager keep for any user names and any     *)
(* number of database threads: a database that is there is not written     *)
(* over, and nobody is logged in from half a database.                     *)
(***************************************************************************)
EXTENDS FinalPass, TLAPS

(* thread_active speaks for every database thread there is: LoadDB() makes *)
(* one only when there is none.                                            *)
OneThread ==
  \A t \in Thread : dpc[t] # "none" => thread_active /\ \A u \in Thread \ {t} : dpc[u] = "none"

(* What a thread found out about the directory still holds when it opens   *)
(* the file: the main thread only ever removes.                            *)
StillFree ==
  \A t \in Thread :
    /\ dpc[t] \in {"name", "list", "write", "close"} => upload[t] \in Name
    /\ dpc[t] = "write" => files[upload[t]] = "none"

(* A user who is to be deleted has been read.                              *)
ReadFirst == pc \in {"login_check", "remove"} => loaded \in Name

IndInv == TypeOK /\ OneThread /\ StillFree /\ ReadFirst

-----------------------------------------------------------------------------
LEMMA LoadedIs ==
  ASSUME NEW name \in Name \cup {Nobody}
  PROVE  /\ Loaded(name) \in Name \cup {Nobody}
         /\ Loaded(name) # Nobody => Loaded(name) = name /\ name \in Name /\ files[name] = "whole"
  BY DEF Loaded

LEMMA InitInv == Init => IndInv
  BY FinalPassAssumption
  DEF Init, IndInv, TypeOK, OneThread, StillFree, ReadFirst, FinalPassAssumption

(* The main thread.                                                        *)
LEMMA MainInv ==
  ASSUME IndInv, Main
  PROVE  IndInv'
  <1>1. TypeOK /\ OneThread /\ StillFree /\ ReadFirst
    BY DEF IndInv
  <1>2. ASSUME TypeOK', ReadFirst', UNCHANGED <<dpc, upload, files>>, thread_active' = thread_active
        PROVE  IndInv'
    BY <1>1, <1>2 DEF IndInv, OneThread, StillFree
  <1>3. CASE ProcessChoice \/ LogOut \/ LoginName
    <2>1. UNCHANGED <<dpc, upload, files, thread_active>>
      BY <1>3 DEF ProcessChoice, LogOut, LoginName, shared, user, sync
    <2>2. TypeOK' /\ ReadFirst'
      BY <1>1, <1>3 DEF ProcessChoice, LogOut, LoginName, shared, user, sync, TypeOK, ReadFirst
    <2> QED
      BY <1>2, <2>1, <2>2
  <1>4. CASE LoginLoad \/ LoginCheck
    <2>1. UNCHANGED <<dpc, upload, files, thread_active>>
      BY <1>4 DEF LoginLoad, LoginCheck, shared, user, sync
    <2>2. Loaded(current_username) \in Name \cup {Nobody}
      BY <1>1, LoadedIs DEF TypeOK
    <2>3. TypeOK'
      BY <1>1, <1>4, <2>2 DEF LoginLoad, LoginCheck, shared, user, sync, TypeOK
    <2>4. ReadFirst'
      BY <1>1, <1>4, <2>2 DEF LoginLoad, LoginCheck, ReadFirst
    <2> QED
      BY <1>2, <2>1, <2>3, <2>4
  <1>5. CASE NoUser \/ DeletePassword \/ DeleteDB
    <2>1. UNCHANGED <<dpc, upload, files, thread_active>>
      BY <1>5 DEF NoUser, DeletePassword, DeleteDB, shared, user, sync
    <2>2. TypeOK' /\ ReadFirst'
      BY <1>1, <1>5 DEF NoUser, DeletePassword, DeleteDB, shared, user, sync, TypeOK, ReadFirst
    <2> QED
      BY <1>2, <2>1, <2>2
  <1>6. CASE Remove
    <2>1. \A n \in Name : files'[n] \in {files[n], "none"}
      BY <1>1, <1>6 DEF Remove, TypeOK
    <2>2. TypeOK' /\ ReadFirst'
      BY <1>1, <1>6 DEF Remove, user, sync, TypeOK, ReadFirst
    <2>3. UNCHANGED <<dpc, upload, thread_active>>
      BY <1>6 DEF Remove, sync
    <2> QED
      BY <1>1, <2>1, <2>2, <2>3 DEF IndInv, OneThread, StillFree
  <1>7. CASE LoadDB
    <2>1. UNCHANGED <<loaded, upload, files, user, muted>>
      BY <1>7 DEF LoadDB
    <2>2. pc' \in {"menu", "unlock"} /\ lock' \in {"free", "main"} /\ createFailed' \in BOOLEAN
      BY <1>1, <1>7 DEF LoadDB, TypeOK
    <2>3. CASE UNCHANGED <<dpc, thread_active>>
      BY <1>1, <2>1, <2>2, <2>3 DEF IndInv, TypeOK, OneThread, StillFree, ReadFirst, user
    <2>4. CASE ~thread_active /\ thread_active' = TRUE /\ \E t \in Thread : Start(t)
      <3>1. PICK t \in Thread : dpc[t] = "none" /\ dpc' = [dpc EXCEPT ![t] = "start"]
        BY <2>4 DEF Start
      <3>2. \A u \in Thread : dpc[u] = "none"
        BY <1>1, <2>4 DEF OneThread
      <3>3. TypeOK'
        BY <1>1, <2>1, <2>2, <2>4, <3>1 DEF TypeOK, user
      <3>4. OneThread' /\ StillFree'
        BY <1>1, <2>1, <2>4, <3>1, <3>2 DEF TypeOK, OneThread, StillFree
      <3> QED
        BY <1>1, <2>1, <2>2, <3>3, <3>4 DEF IndInv, ReadFirst
    <2> QED
      BY <1>7, <2>3, <2>4 DEF LoadDB
  <1>8. CASE LoadDBUnlock
    <2>1. UNCHANGED <<dpc, upload, files, thread_active>>
      BY <1>8 DEF LoadDBUnlock
    <2>2. TypeOK' /\ ReadFirst'
      BY <1>1, <1>8 DEF LoadDBUnlock, user, TypeOK, ReadFirst
    <2> QED
      BY <1>2, <2>1, <2>2
  <1> QED
    BY <1>3, <1>4, <1>5, <1>6, <1>7, <1>8 DEF Main

(* A database thread.                                                      *)
LEMMA DatabaseInv ==
  ASSUME IndInv, NEW t \in Thread, Database(t) \/ Receive(t)
  PROVE  IndInv'
  <1>1. TypeOK /\ OneThread /\ StillFree /\ ReadFirst
    BY DEF IndInv
  <1>2. dpc[t] # "none" /\ loaded' = loaded /\ pc' \in {pc, "crashed"}
    BY DEF Database, Receive, Mute, SetName, ListUsers, Open, Close, Load, Enter, Unmute, Finish, local
  <1>3. \A u \in Thread \ {t} : dpc[u] = "none"
    BY <1>1, <1>2 DEF OneThread
  <1>4. ReadFirst'
    BY <1>1, <1>2 DEF ReadFirst
  <1>5. ASSUME NEW where \in {"receive", "name", "list", "write", "close", "load", "enter", "unmute", "finish"},
               Goto(t, where), TypeOK', thread_active' = thread_active,
               where \in {"name", "list", "write", "close"} => upload'[t] \in Name,
               where = "write" => files'[upload'[t]] = "none"
        PROVE  IndInv'
    <2>1. dpc'[t] = where /\ \A u \in Thread \ {t} : dpc'[u] = "none"
      BY <1>1, <1>3, <1>5 DEF Goto, TypeOK
    <2>2. OneThread'
      BY <1>1, <1>2, <1>5, <2>1 DEF OneThread
    <2>3. StillFree'
      BY <1>5, <2>1 DEF StillFree
    <2> QED
      BY <1>4, <1>5, <2>2, <2>3 DEF IndInv
  <1>16. ASSUME pc' = "crashed", UNCHANGED <<loaded, dpc, files, upload, user, sync>>
         PROVE  IndInv'
    BY <1>1, <1>16 DEF user, sync, TypeOK, OneThread, StillFree, ReadFirst, IndInv
  <1>6. CASE Mute(t)
    <2>1. Goto(t, "receive") /\ thread_active' = thread_active
      BY <1>6 DEF Mute
    <2>2. TypeOK'
      BY <1>1, <1>6 DEF Mute, Goto, local, user, TypeOK
    <2> QED
      BY <1>5, <2>1, <2>2
  <1>7. CASE Receive(t)
    <2>1. thread_active' = thread_active
      BY <1>7 DEF Receive, shared, sync
    <2>2. CASE Goto(t, "unmute") /\ UNCHANGED upload
      <3>1. TypeOK'
        BY <1>1, <1>7, <2>2 DEF Receive, Goto, local, shared, user, sync, TypeOK
      <3> QED
        BY <1>5, <2>1, <2>2, <3>1
    <2>3. ASSUME NEW n \in Name, upload' = [upload EXCEPT ![t] = n], Goto(t, "name")
          PROVE  IndInv'
      <3>1. TypeOK'
        BY <1>1, <1>7, <2>3 DEF Receive, Goto, local, shared, user, sync, TypeOK
      <3>2. upload'[t] \in Name
        BY <1>1, <2>3 DEF TypeOK
      <3> QED
        BY <1>5, <2>1, <2>3, <3>1, <3>2
    <2> QED
      BY <1>7, <2>2, <2>3 DEF Receive
  <1>8. CASE SetName(t)
    <2>1. Goto(t, "list") /\ thread_active' = thread_active /\ upload' = upload /\ upload[t] \in Name
      BY <1>1, <1>8 DEF SetName, sync, StillFree
    <2>2. TypeOK'
      BY <1>1, <1>8, <2>1 DEF SetName, Goto, local, sync, TypeOK
    <2> QED
      BY <1>5, <2>1, <2>2
  <1>9. CASE ListUsers(t)
    <2>1. thread_active' = thread_active /\ UNCHANGED <<upload, files>> /\ upload[t] \in Name
      BY <1>1, <1>9 DEF ListUsers, shared, sync, StillFree
    <2>2. TypeOK'
      BY <1>1, <1>9 DEF ListUsers, Goto, local, shared, user, sync, TypeOK
    <2>3. CASE files[upload[t]] # "none"
      <3>1. Goto(t, "unmute")
        BY <1>9, <2>3 DEF ListUsers
      <3> QED
        BY <1>5, <2>1, <2>2, <3>1
    <2>4. CASE files[upload[t]] = "none"
      <3>1. Goto(t, "write")
        BY <1>9, <2>4 DEF ListUsers
      <3> QED
        BY <1>5, <2>1, <2>2, <2>4, <3>1
    <2> QED
      BY <2>3, <2>4
  <1>10. CASE Open(t)
    <2>1. CASE pc' = "crashed" /\ UNCHANGED <<loaded, dpc, files>>
      BY <1>10, <1>16, <2>1 DEF Open
    <2>2. CASE Goto(t, "close") /\ UNCHANGED local
      <3>1. thread_active' = thread_active /\ upload' = upload /\ upload[t] \in Name
        BY <1>1, <1>10 DEF Open, sync, StillFree
      <3>2. TypeOK'
        BY <1>1, <1>10, <2>2 DEF Open, Goto, local, user, sync, TypeOK
      <3> QED
        BY <1>5, <2>2, <3>1, <3>2
    <2> QED
      BY <1>10, <2>1, <2>2 DEF Open
  <1>11. CASE Close(t)
    <2>1. CASE pc' = "crashed" /\ UNCHANGED <<loaded, dpc, files>>
      BY <1>11, <1>16, <2>1 DEF Close
    <2>2. CASE Goto(t, "load") /\ UNCHANGED local
      <3>1. thread_active' = thread_active
        BY <1>11 DEF Close, sync
      <3>2. TypeOK'
        BY <1>1, <1>11, <2>2 DEF Close, Goto, local, user, sync, TypeOK
      <3> QED
        BY <1>5, <2>2, <3>1, <3>2
    <2> QED
      BY <1>11, <2>1, <2>2 DEF Close
  <1>12. CASE Load(t)
    <2>1. Goto(t, "enter") /\ thread_active' = thread_active
      BY <1>12 DEF Load, shared, sync
    <2>2. Loaded(current_username) \in Name \cup {Nobody}
      BY <1>1, LoadedIs DEF TypeOK
    <2>3. TypeOK'
      BY <1>1, <1>12, <2>2 DEF Load, Goto, local, shared, user, sync, TypeOK
    <2> QED
      BY <1>5, <2>1, <2>3
  <1>13. CASE Enter(t)
    <2>1. Goto(t, "unmute") /\ thread_active' = thread_active
      BY <1>13 DEF Enter, sync
    <2>2. TypeOK'
      BY <1>1, <1>13 DEF Enter, Goto, local, sync, TypeOK
    <2> QED
      BY <1>5, <2>1, <2>2
  <1>14. CASE Unmute(t)
    <2>1. Goto(t, "finish") /\ thread_active' = thread_active
      BY <1>14 DEF Unmute
    <2>2. TypeOK'
      BY <1>1, <1>14 DEF Unmute, Goto, local, user, TypeOK
    <2> QED
      BY <1>5, <2>1, <2>2
  <1>15. CASE Finish(t)
    <2>1. TypeOK'
      BY <1>1, <1>15 DEF Finish, Goto, local, user, TypeOK
    <2>2. \A u \in Thread : dpc'[u] = "none"
      BY <1>1, <1>3, <1>15 DEF Finish, Goto, TypeOK
    <2>3. OneThread' /\ StillFree'
      BY <2>2 DEF OneThread, StillFree
    <2> QED
      BY <1>4, <2>1, <2>3 DEF IndInv
  <1> QED
    BY <1>6, <1>7, <1>8, <1>9, <1>10, <1>11, <1>12, <1>13, <1>14, <1>15 DEF Database

LEMMA NextInv == IndInv /\ [Next]_vars => IndInv'
  <1>1. ASSUME IndInv, UNCHANGED vars PROVE IndInv'
    BY <1>1 DEF vars, local, shared, user, sync, IndInv, TypeOK, OneThread, StillFree, ReadFirst
  <1> QED
    BY <1>1, MainInv, DatabaseInv DEF Next

LEMMA Inductive == Spec => []IndInv
  BY InitInv, NextInv, PTL DEF Spec

-----------------------------------------------------------------------------
(* Between ListUsers() and fopen() nobody else can make the file, since    *)
(* LoadDB() starts no second thread before the first has ended.            *)
THEOREM DatabasesAreKept == Spec => NeverOverwritten
  <1>1. ASSUME IndInv, [Next]_vars, NEW n \in Name, files[n] # "none"
        PROVE  files'[n] \in {files[n], "none"} \cup (IF files[n] = "partial" THEN {"whole"} ELSE {})
    <2>1. TypeOK /\ StillFree
      BY <1>1 DEF IndInv
    <2>2. CASE files' = files
      BY <2>2
    <2>3. CASE Remove
      BY <2>1, <2>3 DEF Remove, TypeOK
    <2>4. ASSUME NEW t \in Thread, Open(t)
          PROVE  files'[n] = files[n]
      <3>1. upload[t] # n
        BY <1>1, <2>1, <2>4 DEF Open, StillFree
      <3> QED
        BY <2>1, <2>4, <3>1 DEF Open, TypeOK
    <2>5. ASSUME NEW t \in Thread, Close(t)
          PROVE  files'[n] \in {files[n]} \cup (IF files[n] = "partial" THEN {"whole"} ELSE {})
      <3>1. files'[n] = files[n] \/ (files[n] = "partial" /\ files'[n] = "whole")
        BY <2>1, <2>5 DEF Close, TypeOK
      <3> QED
        BY <3>1
    <2>6. files' = files \/ Remove \/ \E t \in Thread : Open(t) \/ Close(t)
      BY <1>1
      DEF Next, Main, Database, ProcessChoice, LogOut, LoginName, LoginLoad, LoginCheck, NoUser,
          DeletePassword, DeleteDB, LoadDB, LoadDBUnlock, Mute, Receive, SetName, ListUsers, Load,
          Enter, Unmute, Finish, vars, shared
    <2> QED
      BY <2>2, <2>3, <2>4, <2>5, <2>6
  <1>2. IndInv /\ [Next]_vars =>
          [\A n \in Name : files[n] # "none" => files'[n] \in {files[n], "none"} \cup
             (IF files[n] = "partial" THEN {"whole"} ELSE {})]_vars
    BY <1>1
  <1> QED
    BY <1>2, Inductive, PTL DEF Spec, NeverOverwritten

(* A user is only taken from a file that was whole when it was read, by    *)
(* either thread, and the lock is the main thread's between two critical   *)
(* sections.                                                               *)
THEOREM SessionsComeFromWholeFiles == Spec => SessionsAreWhole
  <1>1. IndInv => TypeOK
    BY DEF IndInv
  <1>2. ASSUME IndInv, Next, NEW n \in Name
        PROVE  /\ loaded' = n /\ loaded # n /\ pc = "login_load" => files[n] = "whole"
               /\ \A t \in Thread : dpc[t] = "load" /\ dpc'[t] = "enter" /\ upload'[t] = n =>
                                    files[n] = "whole"
    <2>1. TypeOK /\ StillFree /\ n # Nobody
      BY <1>2, FinalPassAssumption DEF IndInv, FinalPassAssumption
    <2>2. ASSUME loaded' = n, loaded # n, pc = "login_load" PROVE files[n] = "whole"
      <3>1. ~(\E t \in Thread : Database(t) \/ Receive(t))
        BY <2>2 DEF Database, Receive, Mute, SetName, ListUsers, Open, Close, Load, Enter, Unmute,
                    Finish, local
      <3>2. LoginLoad
        BY <1>2, <2>2, <3>1
        DEF Next, Main, ProcessChoice, LogOut, LoginName, LoginCheck, NoUser, DeletePassword,
            DeleteDB, Remove, LoadDB, LoadDBUnlock
      <3> QED
        BY <2>1, <2>2, <3>2, LoadedIs DEF LoginLoad, TypeOK
    <2>3. ASSUME NEW t \in Thread, dpc[t] = "load", dpc'[t] = "enter", upload'[t] = n
          PROVE  files[n] = "whole"
      <3>1. \A u \in Thread \ {t} : dpc[u] = "none"
        BY <1>2, <2>3 DEF IndInv, OneThread
      <3>2. ~Main
        BY <2>1, <2>3
        DEF Main, ProcessChoice, LogOut, LoginName, LoginLoad, LoginCheck, NoUser, DeletePassword,
            DeleteDB, Remove, LoadDB, LoadDBUnlock, Start, TypeOK
      <3>3. Database(t) \/ Receive(t)
        BY <1>2, <3>1, <3>2
        DEF Next, Database, Receive, Mute, SetName, ListUsers, Open, Close, Load, Enter, Unmute, Finish
      <3>4. Load(t)
        BY <2>3, <3>3 DEF Database, Receive, Mute, SetName, ListUsers, Open, Close, Enter, Unmute, Finish
      <3>5. Loaded(current_username) = n
        BY <2>1, <2>3, <3>4 DEF Load, TypeOK
      <3> QED
        BY <2>1, <3>5, LoadedIs DEF TypeOK
    <2> QED
      BY <2>2, <2>3
  <1>3. IndInv /\ [Next]_vars =>
          [\A n \in Name :
             /\ loaded' = n /\ loaded # n /\ pc = "login_load" => files[n] = "whole"
             /\ \A t \in Thread : dpc[t] = "load" /\ dpc'[t] = "enter" /\ upload'[t] = n =>
                                  files[n] = "whole"]_vars
    BY <1>2
  <1> QED
    BY <1>1, <1>3, Inductive, PTL DEF Spec, SessionsAreWhole
=============================================================================
