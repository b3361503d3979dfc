------------------------------- MODULE SubProcess -------------------------------
(***************************************************************************)
(* cromulence::SubProcess (cpp_base): one object starts a program, asks    *)
(* whether it lives, waits for its end and stops it.  The program ends     *)
(* when it likes, between any two calls and inside them.                   *)
(*                                                                         *)
(* pipe_ names the child whose SPC_PIPE it points to.  stop() frees that   *)
(* memory and keeps the pointer: from then on the pid that alive() reads   *)
(* is whatever the memory holds.                                           *)
(***************************************************************************)
EXTENDS Integers, FiniteSets

CONSTANTS
  Child,            (* the children of all calls of run()                  *)
  Null, Nobody,     (* no pipe; a pid that is no child of this process     *)
  Id, Root,         (* user or group ids                                   *)
  Identity,         (* credentials this process may run with               *)
  RetryLimit        (* total / step of wait_for_end                        *)

Credential == [ruid : Id, euid : Id, suid : Id, rgid : Id, egid : Id, sgid : Id]

SubProcessAssumption ==
  /\ Null \notin Child /\ Nobody \notin Child
  /\ Root \in Id
  /\ Identity \subseteq Credential
  /\ RetryLimit \in Nat

VARIABLES
  open_, pipe_, lastStatus_,
  freed,            (* the memory pipe_ points to was given back           *)
  child,            (* "none", "forked", "runs", "zombie" or "reaped"      *)
  told,             (* children that were sent a signal                    *)
  held,             (* the descriptors of pipes this process has open      *)
  ids,              (* real, effective, saved user id and group id, of     *)
                    (* this process and of each child                      *)
  call, count,      (* the call in progress; the checks of wait_for_end    *)
  failed            (* some run() gave up on a system call                 *)

object == <<open_, pipe_, lastStatus_, freed>>
os     == <<child, told, held, ids>>
vars   == <<object, os, call, count, failed>>

Live(c) == child[c] \in {"forked", "runs"}

-----------------------------------------------------------------------------
(* spc_drop_privileges(1): the groups first, since that may need the user  *)
(* id that is given up next; then what was given up must be out of reach.  *)
(* setreuid() sets the saved id with the real one; seteuid() is allowed to *)
(* root, and to anybody for his real and his saved id.                     *)
SetGroup(w) == [w EXCEPT !.egid = w.rgid, !.sgid = w.rgid]
SetUser(w)  == [w EXCEPT !.euid = w.ruid, !.suid = w.ruid]

CanBecomeUser(w, u)  == w.euid = Root \/ u \in {w.ruid, w.suid}
CanBecomeGroup(w, g) == w.euid = Root \/ g \in {w.rgid, w.sgid}

DropAborts(old, new) ==
  \/ old.rgid # old.egid /\ CanBecomeGroup(new, old.egid)
  \/ old.ruid # old.euid /\ CanBecomeUser(new, old.euid)

DropEffective(old) == [old EXCEPT !.egid = old.rgid, !.euid = old.ruid]

DropPrivileges(old) ==
  LET grouped == IF old.rgid # old.egid THEN SetGroup(old) ELSE old
  IN  IF old.ruid # old.euid THEN SetUser(grouped) ELSE grouped

(* waitpid(c, WNOHANG): a zombie is collected; anything but a child that   *)
(* still lives makes alive() say that it has ended.                        *)
Reaped(c) == IF c \in Child /\ child[c] = "zombie" THEN [child EXCEPT ![c] = "reaped"] ELSE child

(* The pid alive() finds behind pipe_.                                     *)
PidRead == IF freed THEN Child \cup {Nobody} ELSE {pipe_}

IsAlive(c) == c \in Child /\ Live(c)

Alive(c) ==
  /\ child' = Reaped(c)
  /\ lastStatus_' = IF IsAlive(c) THEN "RUNNING" ELSE "EXITED"

-----------------------------------------------------------------------------
(* The ends run() has opened when its k-th call fails, and those it closes *)
(* again: malloc, pipe, pipe, fdopen, fdopen, fork.                        *)
Both(p) == {<<p, "read">>, <<p, "write">>}

Opened(k) == (IF k > 2 THEN Both("stdin") ELSE {}) \cup (IF k > 3 THEN Both("stdout") ELSE {})

ClosedButRead(k) ==
  CASE k = 3 -> {<<"stdin", "write">>, <<"stdin", "read">>}
    [] k = 4 -> Both("stdout") \cup Both("stdin")
    [] k = 5 -> {<<"stdout", "write">>} \cup Both("stdin")
    [] k = 6 -> {<<"stdin", "write">>, <<"stdout", "read">>, <<"stdout", "write">>, <<"stdin", "read">>}
    [] OTHER -> {}

Closed(k) ==
  CASE k = 3 -> {<<"stdin", "write">>, <<"stdin", "read">>}
    [] k = 4 -> Both("stdout") \cup Both("stdin")
    [] k = 5 -> {<<"stdout", "read">>, <<"stdout", "write">>} \cup Both("stdin")
    [] k = 6 -> {<<"stdin", "write">>, <<"stdout", "read">>, <<"stdout", "write">>, <<"stdin", "read">>}
    [] OTHER -> {}

Of(c, ends) == {<<c, e>> : e \in ends}

(* What this process keeps of a child's pipes.                             *)
Kept == {<<"stdin", "write">>, <<"stdout", "read">>}

Give(c, k) ==
  /\ pipe_' = Null /\ freed' = FALSE
  /\ held' = held \cup Of(c, Opened(k) \ Closed(k))
  /\ failed' = TRUE
  /\ UNCHANGED <<open_, told, ids>>

(* The fork: the child works with a copy of this process's identity.       *)
Fork(c) ==
  /\ pipe_' = c /\ freed' = FALSE /\ open_' = TRUE
  /\ held' = held \cup Of(c, Kept)
  /\ ids' = [ids EXCEPT ![c] = ids[Nobody]]
  /\ UNCHANGED <<told, failed>>

RunUnasked(c) ==
  /\ call = "none" /\ child[c] = "none"
  /\ Fork(c) /\ child' = [child EXCEPT ![c] = "forked"]
  /\ lastStatus_' = "RUNNING"
  /\ UNCHANGED <<call, count>>

(* run() as the child c                                                    *)
Run(c) ==
  /\ call = "none" /\ child[c] = "none"
  /\ IF pipe_ = Null
     THEN \/ Fork(c) /\ child' = [child EXCEPT ![c] = "forked"] /\ lastStatus_' = "RUNNING"
          \/ \E k \in 1..6 : Give(c, k) /\ lastStatus_' = "NOT_STARTED" /\ UNCHANGED child
     ELSE \E d \in PidRead :
            \/ IsAlive(d) /\ Alive(d) /\ UNCHANGED <<open_, pipe_, freed, told, held, ids, failed>>
            \/ /\ ~IsAlive(d)
               /\ Fork(c)
               /\ child' = [Reaped(d) EXCEPT ![c] = "forked"]
               /\ lastStatus_' = "RUNNING"
            \/ /\ ~IsAlive(d)
               /\ \E k \in 1..6 : Give(c, k)
               /\ Alive(d)
  /\ UNCHANGED <<call, count>>

-----------------------------------------------------------------------------
(* stop(), and the destructor, up to the signal; through a null pipe_ the  *)
(* program ends there.  A signal to a child that was reaped goes nowhere.  *)
StopKill ==
  /\ call = "none" /\ open_
  /\ IF pipe_ = Null
     THEN call' = "crashed" /\ UNCHANGED told
     ELSE call' = "stop" /\ told' = IF child[pipe_] = "reaped" THEN told ELSE told \cup {pipe_}
  /\ UNCHANGED <<object, child, held, ids, count, failed>>

StopKeepsOpen ==
  /\ call = "stop"
  /\ child' = Reaped(pipe_)
  /\ held' = held \ Of(pipe_, Kept)
  /\ freed' = TRUE
  /\ call' = "none"
  /\ UNCHANGED <<open_, pipe_, lastStatus_, told, ids, count, failed>>

(* The rest of stop(): it asks for the exit code once, and does not wait.  *)
StopReap ==
  /\ call = "stop"
  /\ child' = Reaped(pipe_)
  /\ held' = held \ Of(pipe_, Kept)
  /\ freed' = TRUE /\ open_' = FALSE
  /\ call' = "none"
  /\ UNCHANGED <<pipe_, lastStatus_, told, ids, count, failed>>

(* alive() as a call of its own                                            *)
AskAlive ==
  /\ call = "none" /\ pipe_ # Null
  /\ \E d \in PidRead : Alive(d)
  /\ UNCHANGED <<open_, pipe_, freed, told, held, ids, call, count, failed>>

(* wait_for_end(): one check, then one for each turn of the loop; the last *)
(* one, when the limit is passed, only decides what is returned.           *)
WaitStart ==
  /\ call = "none" /\ pipe_ # Null
  /\ \E d \in PidRead : Alive(d) /\ call' = IF IsAlive(d) THEN "wait" ELSE "none"
  /\ count' = 0
  /\ UNCHANGED <<open_, pipe_, freed, told, held, ids, failed>>

WaitTurnUncounted ==
  /\ call = "wait"
  /\ \E d \in PidRead :
       /\ Alive(d)
       /\ call' = IF count > RetryLimit \/ ~IsAlive(d) THEN "none" ELSE "wait"
       /\ count' = count
  /\ UNCHANGED <<open_, pipe_, freed, told, held, ids, failed>>

WaitTurn ==
  /\ call = "wait"
  /\ \E d \in PidRead :
       /\ Alive(d)
       /\ call' = IF count > RetryLimit \/ ~IsAlive(d) THEN "none" ELSE "wait"
       /\ count' = IF count > RetryLimit THEN count ELSE count + 1
  /\ UNCHANGED <<open_, pipe_, freed, told, held, ids, failed>>

-----------------------------------------------------------------------------
(* What execve() makes of the saved ids.                                   *)
Exec(w) == [w EXCEPT !.suid = w.euid, !.sgid = w.egid]

ChildExecAsIs(c) ==
  /\ child[c] = "forked"
  /\ ids' = [ids EXCEPT ![c] = Exec(@)]
  /\ child' = [child EXCEPT ![c] = "runs"]
  /\ UNCHANGED <<object, told, held, call, count, failed>>

(* The child after the fork: it closes its files, drops its privileges and *)
(* becomes the program.                                                    *)
ChildExec(c) ==
  /\ child[c] = "forked"
  /\ LET new == DropPrivileges(ids[c])
     IN  ~DropAborts(ids[c], new) /\ ids' = [ids EXCEPT ![c] = Exec(new)]
  /\ child' = [child EXCEPT ![c] = "runs"]
  /\ UNCHANGED <<object, told, held, call, count, failed>>

(* A child ends: by itself, by abort(), by exit(127), or when told to.     *)
ChildEnds(c) ==
  /\ Live(c)
  /\ child' = [child EXCEPT ![c] = "zombie"]
  /\ UNCHANGED <<object, told, held, ids, call, count, failed>>

-----------------------------------------------------------------------------
Init ==
  /\ open_ = FALSE /\ pipe_ = Null /\ lastStatus_ = "NOT_STARTED" /\ freed = FALSE
  /\ child = [c \in Child |-> "none"] /\ told = {} /\ held = {}
  /\ \E w \in Identity : ids = [p \in Child \cup {Nobody} |-> w]
  /\ call = "none" /\ count = 0 /\ failed = FALSE

InsideCall == StopReap \/ WaitTurn

Next ==
  \/ \E c \in Child : Run(c) \/ ChildExec(c) \/ ChildEnds(c)
  \/ StopKill \/ AskAlive \/ WaitStart \/ InsideCall

Spec == Init /\ [][Next]_vars

(* The caller goes on with the call it is in.  No child has to end.        *)
FairSpec == Spec /\ WF_vars(InsideCall)

-----------------------------------------------------------------------------
TypeOK ==
  /\ open_ \in BOOLEAN /\ freed \in BOOLEAN /\ failed \in BOOLEAN
  /\ pipe_ \in Child \cup {Null}
  /\ lastStatus_ \in {"NOT_STARTED", "RUNNING", "EXITED"}
  /\ child \in [Child -> {"none", "forked", "runs", "zombie", "reaped"}]
  /\ told \subseteq Child
  /\ held \subseteq Child \X (Both("stdin") \cup Both("stdout"))
  /\ ids \in [Child \cup {Nobody} -> Credential]
  /\ call \in {"none", "stop", "wait", "crashed"}
  /\ count \in 0..(RetryLimit + 1)

(* Two children never run side by side unless the older one was told to    *)
(* end: a program that ends by itself, a run() that fails and a stop() in  *)
(* between do not make run() start a second copy.                          *)
OneUnlessTold ==
  \A c, d \in Child : Live(c) /\ Live(d) /\ c # d => c \in told \/ d \in told

(* The two ends this process keeps of a child's pipes are open until       *)
(* stop(), and never half of them; afterwards, and after a run() that      *)
(* failed, none is.  Only a child that ended by itself before the next     *)
(* run() leaves its pipes open.                                            *)
PipesAccounted ==
  \A c \in Child :
    LET mine == {h \in held : h[1] = c}
    IN  /\ mine \in {{}, Of(c, Kept)}
        /\ mine # {} => \/ open_ /\ pipe_ = c
                        \/ child[c] = "reaped"

(* stop() works on the pipe of a successful run() or not at all, and never *)
(* on memory it has freed before; it loses its pipe only when a run() had  *)
(* failed in between.                                                      *)
StopIsSafe ==
  /\ open_ /\ pipe_ # Null => ~freed /\ Of(pipe_, Kept) \subseteq held
  /\ call = "crashed" \/ (open_ /\ pipe_ = Null) => failed

(* Whatever identity this process has, a program it starts has one user    *)
(* and one group, the real ones, and cannot get another one back.          *)
ChildrenUnprivileged ==
  \A c \in Child : child[c] = "runs" =>
    /\ {ids[c].euid, ids[c].suid} = {ids[c].ruid}
    /\ {ids[c].egid, ids[c].sgid} = {ids[c].rgid}

(* A wait comes back although the child never ends.                        *)
WaitReturns == call = "wait" ~> call # "wait"
=============================================================================
