------------------------------- MODULE CppBaseProofs -------------------------------
(***************************************************************************)
(* What the classes of cpp_base promise, for any registrations, messages,  *)
(* children, identities, filter files and states.  Each class has an       *)
(* inductive invariant of its own; a step of the composition is a step of  *)
(* one class and leaves the others alone.  The packetizer, which has a     *)
(* specification of its own, follows.                                      *)
(***************************************************************************)
EXTENDS CppBase, Packetizer, WellFoundedInduction, TLAPS

-----------------------------------------------------------------------------
(* A step of the composition is a step or a stutter of every class.        *)
LEMMA StepOfEach ==
  ASSUME [CppBaseNext]_all
  PROVE  /\ [Next]_vars
         /\ [Process!Next]_(Process!vars)
         /\ [Filter!Next]_(Filter!vars)
         /\ [States!Next]_(States!vars)
         /\ [Frame!Next]_(Frame!vars)
  <1> USE DEF processVars, filterVars, stateVars, frameVars, Process!vars, Process!object,
              Process!os, Filter!vars, Filter!decimation, Filter!switches, Filter!routes,
              States!vars, Frame!vars
  <1>1. CASE AppStep(Next)
    BY <1>1 DEF AppStep
  <1>2. CASE ProcessStep(Process!Next)
    BY <1>2 DEF ProcessStep
  <1>3. CASE FilterStep
    BY <1>3 DEF FilterStep
  <1>4. CASE StatesStep
    BY <1>4 DEF StatesStep
  <1>5. CASE FrameStep(Frame!Next)
    BY <1>5 DEF FrameStep
  <1>6. CASE UNCHANGED all
    BY <1>6 DEF all
  <1> QED
    BY <1>1, <1>2, <1>3, <1>4, <1>5, <1>6 DEF CppBaseNext

-----------------------------------------------------------------------------
(* The state machine: an ordinary name in lastId_ is that of the state     *)
(* entered last; the empty name, that of the state entered last if any.    *)
StatesInv ==
  /\ States!TypeOK /\ States!EnteredFirst
  /\ \A n \in Name : stateMap_[n] # Null => IdOf(stateMap_[n]) = n
  /\ lastId_ \in Name \ {Error, Empty} => States!Known(lastId_) /\ entered = stateMap_[lastId_]
  /\ lastId_ = Empty => entered = Null \/ (Empty \in Name /\ entered = stateMap_[Empty])

LEMMA StatesStart == States!Init => StatesInv
  BY CppBaseAssumption
  DEF CppBaseAssumption, States!StateMachineAssumption, States!Init, StatesInv, States!TypeOK,
      States!EnteredFirst

LEMMA StatesStepInv ==
  ASSUME StatesInv, [States!Next]_(States!vars)
  PROVE  StatesInv'
  <1> USE CppBaseAssumption
      DEF CppBaseAssumption, States!StateMachineAssumption, StatesInv, States!TypeOK,
          States!EnteredFirst, States!Known
  <1>1. CASE \E s \in State : States!Add(s)
    BY <1>1 DEF States!Add
  <1>2. CASE \E n \in Name : States!ForceState(n)
    BY <1>2 DEF States!ForceState
  <1>3. CASE States!UpdateRuns
    BY <1>3 DEF States!UpdateRuns, States!Enters
  <1>4. CASE States!UpdateFails
    BY <1>4 DEF States!UpdateFails
  <1>5. CASE UNCHANGED States!vars
    BY <1>5 DEF States!vars
  <1> QED
    BY <1>1, <1>2, <1>3, <1>4, <1>5 DEF States!Next

(* StateMachine: no state's update() runs unless its own enter() was the   *)
(* last to return, whatever was added, forced or thrown before and however *)
(* the states are named; but for a state "ERROR", and for a state "" as    *)
(* long as none was entered.                                               *)
THEOREM StatesEnteredFirst == CppBaseSpec => []EnteredFirst
  <1>1. CppBaseInit => StatesInv
    BY StatesStart DEF CppBaseInit
  <1>2. StatesInv /\ [CppBaseNext]_all => StatesInv'
    BY StepOfEach, StatesStepInv
  <1>3. StatesInv => EnteredFirst
    BY DEF StatesInv, EnteredFirst
  <1> QED
    BY <1>1, <1>2, <1>3, PTL DEF CppBaseSpec

-----------------------------------------------------------------------------
(* Child processes.  A child that lives untold is the one behind open_;    *)
(* pipe_ names a child that was started, and once its memory was freed     *)
(* nothing of that child is held; a stop() in progress has told its child, *)
(* unless that was collected before.                                       *)
UntoldIsOpen == \A c \in Child : Process!Live(c) /\ c \notin told => pipe_ = c /\ open_
PipeStarted  == pipe_ # Null => child[pipe_] # "none"
FreedIsEmpty == freed => pipe_ # Null /\ ~open_ /\ \A h \in held : h[1] # pipe_
StopHasTold  == call = "stop" => pipe_ # Null /\ open_ /\ (pipe_ \in told \/ child[pipe_] = "reaped")

ProcessInv ==
  /\ Process!TypeOK /\ Process!PipesAccounted /\ Process!StopIsSafe /\ Process!ChildrenUnprivileged
  /\ UntoldIsOpen /\ PipeStarted /\ FreedIsEmpty /\ StopHasTold

Mine(c) == {h \in held : h[1] = c}

LEMMA Assumed ==
  /\ Null \notin Child /\ Nobody \notin Child
  /\ Identity \subseteq Process!Credential
  /\ RetryLimit \in Nat
  BY CppBaseAssumption DEF CppBaseAssumption, Process!SubProcessAssumption

(* The descriptors that are added for a child are that child's.            *)
LEMMA MineAdded ==
  ASSUME NEW c, NEW x, NEW E, held' = held \cup Process!Of(c, E)
  PROVE  Mine(x)' = IF x = c THEN Mine(x) \cup Process!Of(c, E) ELSE Mine(x)
  <1>1. \A h \in Process!Of(c, E) : h[1] = c
    BY DEF Process!Of
  <1> QED
    BY <1>1 DEF Mine

LEMMA MineRemoved ==
  ASSUME NEW c, NEW x, NEW E, held' = held \ Process!Of(c, E)
  PROVE  Mine(x)' = IF x = c THEN Mine(x) \ Process!Of(c, E) ELSE Mine(x)
  <1>1. \A h \in Process!Of(c, E) : h[1] = c
    BY DEF Process!Of
  <1> QED
    BY <1>1 DEF Mine

(* A run() that fails closes every descriptor it has opened, wherever it   *)
(* failed.                                                                 *)
LEMMA FailedRunKeepsNothing ==
  ASSUME NEW k \in 1..6
  PROVE  Process!Opened(k) \ Process!Closed(k) = {}
  <1>1. CASE k \in {1, 2}
    BY <1>1 DEF Process!Opened
  <1>2. CASE k = 3
    BY <1>2 DEF Process!Opened, Process!Closed, Process!Both
  <1>3. CASE k = 4
    BY <1>3 DEF Process!Opened, Process!Closed, Process!Both
  <1>4. CASE k = 5
    BY <1>4 DEF Process!Opened, Process!Closed, Process!Both
  <1>5. CASE k = 6
    BY <1>5 DEF Process!Opened, Process!Closed, Process!Both
  <1> QED
    BY <1>1, <1>2, <1>3, <1>4, <1>5

LEMMA ProcessStart == Process!Init => ProcessInv
  <1> SUFFICES ASSUME Process!Init PROVE ProcessInv
    OBVIOUS
  <1>1. Process!TypeOK
    <2>1. ids \in [Child \cup {Nobody} -> Process!Credential]
      BY Assumed DEF Process!Init
    <2>2. child \in [Child -> {"none", "forked", "runs", "zombie", "reaped"}]
      BY DEF Process!Init
    <2>3. count \in 0..(RetryLimit + 1)
      BY Assumed DEF Process!Init
    <2> QED
      BY <2>1, <2>2, <2>3 DEF Process!Init, Process!TypeOK
  <1>2. Process!PipesAccounted
    BY DEF Process!Init, Process!PipesAccounted
  <1>3. Process!StopIsSafe /\ Process!ChildrenUnprivileged
    BY DEF Process!Init, Process!StopIsSafe, Process!ChildrenUnprivileged
  <1>4. UntoldIsOpen /\ PipeStarted /\ FreedIsEmpty /\ StopHasTold
    BY DEF Process!Init, UntoldIsOpen, PipeStarted, FreedIsEmpty, StopHasTold, Process!Live
  <1> QED
    BY <1>1, <1>2, <1>3, <1>4 DEF ProcessInv

ChildState == {"none", "forked", "runs", "zombie", "reaped"}

(* A step that leaves the object, the descriptors and the identities alone *)
(* and lets children only move towards their end.                          *)
LEMMA ObjectKept ==
  ASSUME ProcessInv,
         UNCHANGED <<open_, pipe_, freed, told, held, ids, failed>>,
         call' \in {call, "none", "wait"}, count' \in 0..(RetryLimit + 1),
         lastStatus_' \in {"NOT_STARTED", "RUNNING", "EXITED"},
         child' \in [Child -> ChildState],
         \A c \in Child : /\ Process!Live(c)' => Process!Live(c)
                          /\ child[c] # "none" => child'[c] # "none"
                          /\ child[c] = "reaped" => child'[c] = "reaped"
                          /\ child'[c] = "runs" => child[c] = "runs"
  PROVE  ProcessInv'
  <1>1. Process!TypeOK'
    BY DEF ProcessInv, Process!TypeOK, Process!Both, ChildState
  <1>2. Process!PipesAccounted'
    BY DEF ProcessInv, Process!PipesAccounted
  <1>3. Process!StopIsSafe'
    BY DEF ProcessInv, Process!StopIsSafe
  <1>4. Process!ChildrenUnprivileged'
    BY DEF ProcessInv, Process!ChildrenUnprivileged
  <1>5. UntoldIsOpen'
    BY DEF ProcessInv, UntoldIsOpen
  <1>6. (pipe_ # Null => pipe_ \in Child)
    BY DEF ProcessInv, Process!TypeOK
  <1>7. PipeStarted' /\ FreedIsEmpty' /\ StopHasTold'
    BY <1>6 DEF ProcessInv, PipeStarted, FreedIsEmpty, StopHasTold
  <1> QED
    BY <1>1, <1>2, <1>3, <1>4, <1>5, <1>7 DEF ProcessInv

(* waitpid() collects a zombie and changes nothing else.                   *)
LEMMA Reaping ==
  ASSUME Process!TypeOK, NEW d
  PROVE  LET after == Process!Reaped(d)
         IN  /\ after \in [Child -> ChildState]
             /\ \A c \in Child :
                  /\ after[c] # child[c] => c = d /\ child[c] = "zombie" /\ after[c] = "reaped"
                  /\ c = d => after[c] # "zombie"
  <1>1. child \in [Child -> ChildState]
    BY DEF Process!TypeOK, ChildState
  <1>2. CASE d \in Child /\ child[d] = "zombie"
    BY <1>1, <1>2 DEF Process!Reaped, ChildState
  <1>3. CASE ~(d \in Child /\ child[d] = "zombie")
    BY <1>1, <1>3 DEF Process!Reaped
  <1> QED
    BY <1>2, <1>3

LEMMA PollInv ==
  ASSUME ProcessInv, Process!AskAlive \/ Process!WaitStart \/ Process!WaitTurn
  PROVE  ProcessInv'
  <1>1. PICK d : Process!Alive(d)
    BY DEF Process!AskAlive, Process!WaitStart, Process!WaitTurn
  <1>2. Process!TypeOK
    BY DEF ProcessInv
  <1>3. child' = Process!Reaped(d) /\ lastStatus_' \in {"NOT_STARTED", "RUNNING", "EXITED"}
    BY <1>1 DEF Process!Alive
  <1>4. UNCHANGED <<open_, pipe_, freed, told, held, ids, failed>>
    BY DEF Process!AskAlive, Process!WaitStart, Process!WaitTurn
  <1>5. call' \in {call, "none", "wait"}
    BY DEF Process!AskAlive, Process!WaitStart, Process!WaitTurn
  <1>6. count' \in 0..(RetryLimit + 1)
    BY <1>2, Assumed DEF Process!AskAlive, Process!WaitStart, Process!WaitTurn, Process!TypeOK
  <1>7. child' \in [Child -> ChildState]
    BY <1>2, <1>3, Reaping
  <1>8. \A c \in Child : child'[c] # child[c] => child[c] = "zombie" /\ child'[c] = "reaped"
    BY <1>2, <1>3, Reaping
  <1>9. \A c \in Child : /\ Process!Live(c)' => Process!Live(c)
                         /\ child[c] # "none" => child'[c] # "none"
                         /\ child[c] = "reaped" => child'[c] = "reaped"
                         /\ child'[c] = "runs" => child[c] = "runs"
    BY <1>8 DEF Process!Live
  <1> QED
    BY <1>3, <1>4, <1>5, <1>6, <1>7, <1>9, ObjectKept

LEMMA ChildEndsInv ==
  ASSUME ProcessInv, NEW c \in Child, Process!ChildEnds(c)
  PROVE  ProcessInv'
  <1>1. Process!TypeOK
    BY DEF ProcessInv
  <1>2. child' \in [Child -> ChildState]
    BY <1>1 DEF Process!ChildEnds, Process!TypeOK, ChildState
  <1>3. \A x \in Child : child'[x] # child[x] => Process!Live(x) /\ child'[x] = "zombie"
    BY <1>1 DEF Process!ChildEnds, Process!TypeOK
  <1>4. \A x \in Child : /\ Process!Live(x)' => Process!Live(x)
                         /\ child[x] # "none" => child'[x] # "none"
                         /\ child[x] = "reaped" => child'[x] = "reaped"
                         /\ child'[x] = "runs" => child[x] = "runs"
    BY <1>3 DEF Process!Live
  <1>5. /\ UNCHANGED <<open_, pipe_, freed, told, held, ids, failed, call, count, lastStatus_>>
        /\ count \in 0..(RetryLimit + 1) /\ lastStatus_ \in {"NOT_STARTED", "RUNNING", "EXITED"}
    BY <1>1 DEF Process!ChildEnds, Process!object, Process!TypeOK
  <1> QED
    BY <1>2, <1>4, <1>5, ObjectKept

(* Whatever the process runs as, the program it starts cannot get back     *)
(* what it gave up.                                                        *)
LEMMA DropIsFinal ==
  ASSUME NEW w \in Process!Credential
  PROVE  LET new == Process!Exec(Process!DropPrivileges(w))
         IN  /\ new \in Process!Credential
             /\ new.euid = new.ruid /\ new.suid = new.ruid
             /\ new.egid = new.rgid /\ new.sgid = new.rgid
  BY DEF Process!Credential, Process!Exec, Process!DropPrivileges, Process!SetUser, Process!SetGroup

LEMMA ChildExecInv ==
  ASSUME ProcessInv, NEW c \in Child, Process!ChildExec(c)
  PROVE  ProcessInv'
  <1> DEFINE new == Process!Exec(Process!DropPrivileges(ids[c]))
  <1>1. Process!TypeOK
    BY DEF ProcessInv
  <1>2. ids[c] \in Process!Credential /\ ids \in [Child \cup {Nobody} -> Process!Credential]
    BY <1>1 DEF Process!TypeOK
  <1>3. /\ new \in Process!Credential
        /\ {new.euid, new.suid} = {new.ruid} /\ {new.egid, new.sgid} = {new.rgid}
    BY <1>2, DropIsFinal
  <1>4. /\ child[c] = "forked" /\ child' = [child EXCEPT ![c] = "runs"]
        /\ ids' = [ids EXCEPT ![c] = new]
        /\ UNCHANGED <<open_, pipe_, lastStatus_, freed, told, held, call, count, failed>>
    BY DEF Process!ChildExec, Process!object
  <1>5. child \in [Child -> ChildState]
    BY <1>1 DEF Process!TypeOK, ChildState
  <1> HIDE DEF new
  <1>6. ids' \in [Child \cup {Nobody} -> Process!Credential]
    BY <1>2, <1>3, <1>4
  <1>7. \A x \in Child : ids'[x] = IF x = c THEN new ELSE ids[x]
    BY <1>2, <1>4
  <1>8. \A x \in Child : child'[x] = IF x = c THEN "runs" ELSE child[x]
    BY <1>4, <1>5
  <1>9. child' \in [Child -> ChildState]
    BY <1>4, <1>5 DEF ChildState
  <1>10. Process!TypeOK'
    BY <1>1, <1>4, <1>6, <1>9 DEF Process!TypeOK, Process!Both, ChildState
  <1>11. Process!ChildrenUnprivileged'
    BY <1>3, <1>7, <1>8 DEF ProcessInv, Process!ChildrenUnprivileged
  <1>12. Process!PipesAccounted'
    BY <1>4, <1>8 DEF ProcessInv, Process!PipesAccounted
  <1>13. Process!StopIsSafe'
    BY <1>4 DEF ProcessInv, Process!StopIsSafe
  <1>14. UntoldIsOpen'
    BY <1>4, <1>8 DEF ProcessInv, UntoldIsOpen, Process!Live
  <1>15. pipe_ # Null => pipe_ \in Child
    BY <1>1 DEF Process!TypeOK
  <1>16. PipeStarted' /\ FreedIsEmpty' /\ StopHasTold'
    BY <1>4, <1>8, <1>15 DEF ProcessInv, PipeStarted, FreedIsEmpty, StopHasTold
  <1> QED
    BY <1>10, <1>11, <1>12, <1>13, <1>14, <1>16 DEF ProcessInv

LEMMA StopKillInv ==
  ASSUME ProcessInv, Process!StopKill
  PROVE  ProcessInv'
  <1>1. Process!TypeOK
    BY DEF ProcessInv
  <1>2. /\ open_ /\ call = "none"
        /\ UNCHANGED <<open_, pipe_, lastStatus_, freed, child, held, ids, count, failed>>
    BY DEF Process!StopKill, Process!object
  <1>3. IF pipe_ = Null
        THEN call' = "crashed" /\ told' = told
        ELSE /\ call' = "stop" /\ told \subseteq told' /\ told' \subseteq Child
             /\ pipe_ \in told' \/ child[pipe_] = "reaped"
    BY <1>1 DEF Process!StopKill, Process!TypeOK
  <1>4. told \subseteq told' /\ told' \subseteq Child /\ call' \in {"none", "stop", "wait", "crashed"}
    BY <1>1, <1>3 DEF Process!TypeOK
  <1>5. Process!TypeOK'
    BY <1>1, <1>2, <1>4 DEF Process!TypeOK, Process!Both
  <1>6. Process!PipesAccounted' /\ Process!ChildrenUnprivileged'
    BY <1>2 DEF ProcessInv, Process!PipesAccounted, Process!ChildrenUnprivileged
  <1>7. Process!StopIsSafe'
    BY <1>2, <1>3 DEF ProcessInv, Process!StopIsSafe
  <1>8. UntoldIsOpen'
    BY <1>2, <1>4 DEF ProcessInv, UntoldIsOpen, Process!Live
  <1>9. PipeStarted' /\ FreedIsEmpty' /\ StopHasTold'
    BY <1>2, <1>3 DEF ProcessInv, PipeStarted, FreedIsEmpty, StopHasTold
  <1> QED
    BY <1>5, <1>6, <1>7, <1>8, <1>9 DEF ProcessInv

LEMMA StopReapInv ==
  ASSUME ProcessInv, Process!StopReap
  PROVE  ProcessInv'
  <1>1. Process!TypeOK /\ StopHasTold
    BY DEF ProcessInv
  <1>2. pipe_ \in Child /\ (pipe_ \in told \/ child[pipe_] = "reaped")
    BY <1>1 DEF Process!StopReap, Process!TypeOK, StopHasTold
  <1>3. /\ child' = Process!Reaped(pipe_) /\ held' = held \ Process!Of(pipe_, Process!Kept)
        /\ freed' = TRUE /\ open_' = FALSE /\ call' = "none"
        /\ UNCHANGED <<pipe_, lastStatus_, told, ids, count, failed>>
    BY DEF Process!StopReap
  <1>4. child' \in [Child -> ChildState]
    BY <1>1, <1>3, Reaping
  <1>5. \A c \in Child : child'[c] # child[c] =>
          c = pipe_ /\ child[c] = "zombie" /\ child'[c] = "reaped"
    BY <1>1, <1>3, Reaping
  <1>6. Process!TypeOK'
    BY <1>1, <1>3, <1>4 DEF Process!TypeOK, Process!Both, ChildState
  <1>7. \A c \in Child : Mine(c) \in {{}, Process!Of(c, Process!Kept)}
    BY DEF ProcessInv, Process!PipesAccounted, Mine
  <1>8. \A c \in Child : Mine(c)' = IF c = pipe_ THEN {} ELSE Mine(c)
    BY <1>2, <1>3, <1>7, MineRemoved
  <1>9. Process!PipesAccounted'
    <2> SUFFICES ASSUME NEW c \in Child
                 PROVE  /\ Mine(c)' \in {{}, Process!Of(c, Process!Kept)}
                        /\ Mine(c)' # {} => child'[c] = "reaped"
      BY <1>3 DEF Process!PipesAccounted, Mine, Process!Of, Process!Kept
    <2>1. Mine(c) # {} => (open_ /\ pipe_ = c) \/ child[c] = "reaped"
      BY DEF ProcessInv, Process!PipesAccounted, Mine
    <2> QED
      BY <2>1, <1>5, <1>7, <1>8
  <1>10. Process!StopIsSafe'
    BY <1>1, <1>3 DEF ProcessInv, Process!StopIsSafe
  <1>11. Process!ChildrenUnprivileged'
    BY <1>3, <1>5 DEF ProcessInv, Process!ChildrenUnprivileged
  <1>12. UntoldIsOpen'
    BY <1>2, <1>3, <1>5 DEF ProcessInv, UntoldIsOpen, Process!Live
  <1>13. PipeStarted' /\ StopHasTold'
    BY <1>2, <1>3, <1>5 DEF ProcessInv, PipeStarted, StopHasTold
  <1>14. FreedIsEmpty'
    BY <1>2, <1>3, <1>8, Assumed DEF FreedIsEmpty, Mine
  <1> QED
    BY <1>6, <1>9, <1>10, <1>11, <1>12, <1>13, <1>14 DEF ProcessInv

(* What run() may rely on once it has found no child, or a dead one, behind *)
(* its pipe: nobody lives untold, and only collected children have pipes.   *)
Vacant(after) ==
  /\ after \in [Child -> ChildState]
  /\ \A x \in Child : after[x] # child[x] => child[x] = "zombie" /\ after[x] = "reaped"
  /\ \A x \in Child : Process!Live(x) => x \in told
  /\ \A x \in Child : Mine(x) # {} => after[x] = "reaped"

LEMMA NoPipeIsVacant ==
  ASSUME ProcessInv, pipe_ = Null
  PROVE  Vacant(child)
  <1>1. Null \notin Child /\ child \in [Child -> ChildState]
    BY Assumed DEF ProcessInv, Process!TypeOK, ChildState
  <1>2. \A x \in Child : Mine(x) # {} => child[x] = "reaped"
    BY <1>1 DEF ProcessInv, Process!PipesAccounted, Mine
  <1> QED
    BY <1>1, <1>2 DEF ProcessInv, UntoldIsOpen, Vacant

LEMMA DeadIsVacant ==
  ASSUME ProcessInv, pipe_ # Null, NEW d \in Process!PidRead, ~Process!IsAlive(d)
  PROVE  Vacant(Process!Reaped(d))
  <1> DEFINE after == Process!Reaped(d)
  <1>1. Process!TypeOK /\ pipe_ \in Child
    BY DEF ProcessInv, Process!TypeOK
  <1>2. /\ after \in [Child -> ChildState]
        /\ \A x \in Child : after[x] # child[x] => child[x] = "zombie" /\ after[x] = "reaped"
        /\ \A x \in Child : x = d => after[x] # "zombie"
    BY <1>1, Reaping
  <1> HIDE DEF after
  <1>3. \A x \in Child : Mine(x) # {} => (open_ /\ pipe_ = x) \/ child[x] = "reaped"
    BY DEF ProcessInv, Process!PipesAccounted, Mine
  <1>4. \A x \in Child : child[x] = "reaped" => after[x] = "reaped"
    BY <1>2
  <1>5. CASE freed
    <2>1. \A x \in Child : Process!Live(x) => x \in told
      BY <1>5 DEF ProcessInv, UntoldIsOpen, FreedIsEmpty
    <2>2. \A x \in Child : Mine(x) # {} => after[x] = "reaped"
      BY <1>3, <1>4, <1>5 DEF ProcessInv, FreedIsEmpty
    <2> QED
      BY <1>2, <2>1, <2>2 DEF Vacant, after
  <1>6. CASE ~freed
    <2>1. d = pipe_ /\ ~Process!Live(d)
      BY <1>1, <1>6 DEF Process!PidRead, Process!IsAlive
    <2>2. \A x \in Child : Process!Live(x) => x \in told
      BY <2>1 DEF ProcessInv, UntoldIsOpen
    <2>3. child[d] \in {"zombie", "reaped"}
      BY <1>1, <2>1 DEF ProcessInv, PipeStarted, Process!Live, Process!TypeOK
    <2>4. after[d] = "reaped"
      BY <1>1, <1>2, <2>1, <2>3
    <2>5. \A x \in Child : Mine(x) # {} => after[x] = "reaped"
      BY <1>3, <1>4, <2>1, <2>4
    <2> QED
      BY <1>2, <2>2, <2>5 DEF Vacant, after
  <1> QED
    BY <1>5, <1>6

LEMMA ForkInv ==
  ASSUME ProcessInv, NEW c \in Child, NEW after, Vacant(after),
         call = "none", child[c] = "none", Process!Fork(c),
         child' = [after EXCEPT ![c] = "forked"], lastStatus_' = "RUNNING", UNCHANGED <<call, count>>
  PROVE  ProcessInv'
  <1>1. /\ pipe_' = c /\ freed' = FALSE /\ open_' = TRUE
        /\ held' = held \cup Process!Of(c, Process!Kept)
        /\ ids' = [ids EXCEPT ![c] = ids[Nobody]]
        /\ UNCHANGED <<told, failed, call, count>>
    BY DEF Process!Fork
  <1>2. Process!TypeOK /\ after \in [Child -> ChildState]
    BY DEF ProcessInv, Vacant
  <1>3. \A x \in Child : child'[x] = IF x = c THEN "forked" ELSE after[x]
    BY <1>2
  <1>4. child' \in [Child -> ChildState]
    BY <1>2 DEF ChildState
  <1>5. \A x \in Child : ids'[x] = IF x = c THEN ids[Nobody] ELSE ids[x]
    BY <1>1, <1>2 DEF Process!TypeOK
  <1>6. ids' \in [Child \cup {Nobody} -> Process!Credential]
    BY <1>1, <1>2 DEF Process!TypeOK
  <1>7. Process!Of(c, Process!Kept) \subseteq Child \X (Process!Both("stdin") \cup Process!Both("stdout"))
    BY DEF Process!Of, Process!Kept, Process!Both
  <1>8. Process!TypeOK'
    BY <1>1, <1>2, <1>4, <1>6, <1>7 DEF Process!TypeOK, Process!Both, ChildState
  <1>9. \A x \in Child : Mine(x)' = IF x = c THEN Mine(x) \cup Process!Of(c, Process!Kept) ELSE Mine(x)
    BY <1>1, MineAdded
  <1>10. after[c] = "none"
    BY DEF Vacant
  <1>11. Mine(c) = {}
    BY <1>10 DEF Vacant
  <1>12. Process!PipesAccounted'
    <2> SUFFICES ASSUME NEW x \in Child
                 PROVE  /\ Mine(x)' \in {{}, Process!Of(x, Process!Kept)}
                        /\ Mine(x)' # {} => x = c \/ child'[x] = "reaped"
      BY <1>1 DEF Process!PipesAccounted, Mine, Process!Of, Process!Kept
    <2>1. Mine(x) \in {{}, Process!Of(x, Process!Kept)}
      BY DEF ProcessInv, Process!PipesAccounted, Mine
    <2>2. x # c /\ Mine(x) # {} => child'[x] = "reaped"
      BY <1>3 DEF Vacant
    <2> QED
      BY <1>9, <1>11, <2>1, <2>2
  <1>13. Process!StopIsSafe'
    BY <1>1, Assumed DEF ProcessInv, Process!StopIsSafe, Process!Of, Process!Kept
  <1>14. \A x \in Child : child'[x] = "runs" => child[x] = "runs" /\ x # c
    BY <1>3 DEF Vacant
  <1>15. Process!ChildrenUnprivileged'
    BY <1>5, <1>14 DEF ProcessInv, Process!ChildrenUnprivileged
  <1>16. \A x \in Child : x # c /\ Process!Live(x)' => Process!Live(x)
    BY <1>3 DEF Vacant, Process!Live
  <1>17. UntoldIsOpen'
    BY <1>1, <1>16 DEF Vacant, UntoldIsOpen
  <1>18. PipeStarted' /\ FreedIsEmpty' /\ StopHasTold'
    BY <1>1, <1>3 DEF PipeStarted, FreedIsEmpty, StopHasTold
  <1> QED
    BY <1>8, <1>12, <1>13, <1>15, <1>17, <1>18 DEF ProcessInv

LEMMA GiveInv ==
  ASSUME ProcessInv, NEW c \in Child, NEW k \in 1..6, Vacant(child'),
         call = "none", Process!Give(c, k),
         lastStatus_' \in {"NOT_STARTED", "EXITED"}, UNCHANGED <<call, count>>
  PROVE  ProcessInv'
  <1>1. /\ pipe_' = Null /\ freed' = FALSE /\ failed' = TRUE
        /\ UNCHANGED <<open_, told, ids, call, count>>
    BY DEF Process!Give
  <1>2. held' = held
    BY FailedRunKeepsNothing DEF Process!Give, Process!Of
  <1>3. Process!TypeOK /\ child' \in [Child -> ChildState]
    BY DEF ProcessInv, Vacant
  <1>4. Process!TypeOK'
    BY <1>1, <1>2, <1>3 DEF Process!TypeOK, Process!Both, ChildState
  <1>5. Process!PipesAccounted'
    BY <1>1, <1>2 DEF ProcessInv, Process!PipesAccounted, Vacant, Mine
  <1>6. Process!StopIsSafe'
    BY <1>1 DEF Process!StopIsSafe
  <1>7. \A x \in Child : child'[x] = "runs" => child[x] = "runs"
    BY DEF Vacant
  <1>8. Process!ChildrenUnprivileged'
    BY <1>1, <1>7 DEF ProcessInv, Process!ChildrenUnprivileged
  <1>9. UntoldIsOpen'
    BY <1>1 DEF Vacant, UntoldIsOpen, Process!Live
  <1>10. PipeStarted' /\ FreedIsEmpty' /\ StopHasTold'
    BY <1>1 DEF PipeStarted, FreedIsEmpty, StopHasTold
  <1> QED
    BY <1>4, <1>5, <1>6, <1>8, <1>9, <1>10 DEF ProcessInv

LEMMA RunInv ==
  ASSUME ProcessInv, NEW c \in Child, Process!Run(c)
  PROVE  ProcessInv'
  <1>1. call = "none" /\ child[c] = "none" /\ UNCHANGED <<call, count>>
    BY DEF Process!Run
  <1>2. Process!TypeOK
    BY DEF ProcessInv
  <1>3. CASE pipe_ = Null
    <2>1. Vacant(child)
      BY <1>3, NoPipeIsVacant
    <2>2. CASE Process!Fork(c) /\ child' = [child EXCEPT ![c] = "forked"] /\ lastStatus_' = "RUNNING"
      BY <1>1, <2>1, <2>2, ForkInv
    <2>3. CASE \E k \in 1..6 : Process!Give(c, k) /\ lastStatus_' = "NOT_STARTED" /\ UNCHANGED child
      BY <1>1, <2>1, <2>3, GiveInv
    <2> QED
      BY <1>3, <2>2, <2>3 DEF Process!Run
  <1>4. CASE pipe_ # Null
    <2>1. PICK d \in Process!PidRead :
            \/ /\ Process!IsAlive(d) /\ Process!Alive(d)
               /\ UNCHANGED <<open_, pipe_, freed, told, held, ids, failed>>
            \/ /\ ~Process!IsAlive(d) /\ Process!Fork(c)
               /\ child' = [Process!Reaped(d) EXCEPT ![c] = "forked"] /\ lastStatus_' = "RUNNING"
            \/ /\ ~Process!IsAlive(d) /\ \E k \in 1..6 : Process!Give(c, k)
               /\ Process!Alive(d)
      BY <1>4 DEF Process!Run
    <2>2. CASE /\ Process!IsAlive(d) /\ Process!Alive(d)
               /\ UNCHANGED <<open_, pipe_, freed, told, held, ids, failed>>
      <3>1. child' = child /\ lastStatus_' = "RUNNING"
        BY <2>2 DEF Process!IsAlive, Process!Alive, Process!Live, Process!Reaped
      <3>2. child' \in [Child -> ChildState] /\ count' \in 0..(RetryLimit + 1)
        BY <1>1, <1>2, <3>1 DEF Process!TypeOK, ChildState
      <3> QED
        BY <1>1, <2>2, <3>1, <3>2, ObjectKept DEF Process!Live
    <2>3. CASE /\ ~Process!IsAlive(d) /\ Process!Fork(c)
               /\ child' = [Process!Reaped(d) EXCEPT ![c] = "forked"] /\ lastStatus_' = "RUNNING"
      <3>1. Vacant(Process!Reaped(d))
        BY <1>4, <2>3, DeadIsVacant
      <3> QED
        BY <1>1, <2>3, <3>1, ForkInv
    <2>4. CASE /\ ~Process!IsAlive(d) /\ \E k \in 1..6 : Process!Give(c, k)
               /\ Process!Alive(d)
      <3>1. Vacant(child') /\ lastStatus_' = "EXITED"
        BY <1>4, <2>4, DeadIsVacant DEF Process!Alive
      <3> QED
        BY <1>1, <2>4, <3>1, GiveInv
    <2> QED
      BY <2>1, <2>2, <2>3, <2>4
  <1> QED
    BY <1>3, <1>4

LEMMA ProcessStepInv ==
  ASSUME ProcessInv, [Process!Next]_(Process!vars)
  PROVE  ProcessInv'
  <1>1. CASE \E c \in Child : Process!Run(c) \/ Process!ChildExec(c) \/ Process!ChildEnds(c)
    BY <1>1, RunInv, ChildExecInv, ChildEndsInv
  <1>2. CASE Process!StopKill
    BY <1>2, StopKillInv
  <1>3. CASE Process!AskAlive \/ Process!WaitStart \/ Process!WaitTurn
    BY <1>3, PollInv
  <1>4. CASE Process!StopReap
    BY <1>4, StopReapInv
  <1>5. CASE UNCHANGED Process!vars
    <2>1. UNCHANGED <<open_, pipe_, lastStatus_, freed, child, told, held, ids, call, count, failed>>
      BY <1>5 DEF Process!vars, Process!object, Process!os
    <2>2. /\ count \in 0..(RetryLimit + 1) /\ lastStatus_ \in {"NOT_STARTED", "RUNNING", "EXITED"}
          /\ child \in [Child -> ChildState]
      BY DEF ProcessInv, Process!TypeOK, ChildState
    <2> QED
      BY <2>1, <2>2, ObjectKept DEF Process!Live
  <1> QED
    BY <1>1, <1>2, <1>3, <1>4, <1>5 DEF Process!Next, Process!InsideCall

LEMMA ProcessAlways == CppBaseSpec => []ProcessInv
  <1>1. CppBaseInit => ProcessInv
    BY ProcessStart DEF CppBaseInit
  <1>2. ProcessInv /\ [CppBaseNext]_all => ProcessInv'
    BY StepOfEach, ProcessStepInv
  <1> QED
    BY <1>1, <1>2, PTL DEF CppBaseSpec

(* SubProcess: stop() and the destructor find the pipe of a successful     *)
(* run(), never one they have freed, and lose it only after a run() that   *)
(* failed.                                                                 *)
THEOREM ProcessStopIsSafe == CppBaseSpec => []StopIsSafe
  <1>1. ProcessInv => StopIsSafe
    BY DEF ProcessInv, StopIsSafe
  <1> QED
    BY <1>1, ProcessAlways, PTL

-----------------------------------------------------------------------------
(* The application.  The tables hold, for each code and each id, the first *)
(* of the handlers registered so far; messages wait in the order of their  *)
(* numbers.                                                                *)
Made(sort) == {i \in Registered(sort) : i <= step}

FirstTo(S, h) == IF S = {} THEN h = None ELSE h \in S /\ \A i \in S : h <= i

TablesMade ==
  /\ cmdId_ = "none" <=> Made("cmd") = {}
  /\ \A i \in Made("cmd") : Registrations[i].id = cmdId_
  /\ \A f \in Fcns : FirstTo({i \in Made("cmd") : Registrations[i].fcn = f}, cmdHandlers_[f])
  /\ \A id \in Ids : FirstTo({i \in Made("tlm") : Registrations[i].id = id}, tlmHandlers_[id])

RunsWhenMade ==
  /\ phase \in {"register", "initialize"} => runStatus_ = "ERROR"
  /\ runStatus_ = "RUN" => step = Len(Registrations)
  /\ phase = "receive" => runStatus_ = "RUN"

PipeInOrder == \A i, j \in DOMAIN pipe : i < j => pipe[i][1] < pipe[j][1]

AppInv == TypeOK /\ PipeInOrder /\ ExecutedInOrder /\ FirstRegisteredRuns /\ TablesMade /\ RunsWhenMade

LEMMA RegistrationFacts ==
  /\ Len(Registrations) \in Nat /\ DOMAIN Registrations = 1..Len(Registrations)
  /\ \A i \in 1..Len(Registrations) :
       /\ Registrations[i].kind \in {"cmd", "tlm", "raw"}
       /\ Registrations[i].id \in Ids /\ Registrations[i].fcn \in Fcns
  /\ \A m \in Message : m.id \in Ids /\ m.fcn \in Fcns
  <1> DEFINE R == [kind : {"cmd", "tlm", "raw"}, id : Ids, fcn : Fcns]
             M == [id : Ids, fcn : Fcns]
  <1>1. Registrations \in Seq(R) /\ Message \subseteq M
    BY ASyncAppAssumption DEF ASyncAppAssumption
  <1>2. \A r \in R : r.kind \in {"cmd", "tlm", "raw"} /\ r.id \in Ids /\ r.fcn \in Fcns
    OBVIOUS
  <1>3. \A m \in M : m.id \in Ids /\ m.fcn \in Fcns
    OBVIOUS
  <1> HIDE DEF R, M
  <1>4. /\ Len(Registrations) \in Nat /\ DOMAIN Registrations = 1..Len(Registrations)
        /\ \A i \in 1..Len(Registrations) : Registrations[i] \in R
    BY <1>1
  <1> QED
    BY <1>1, <1>2, <1>3, <1>4

(* What TypeOK says of the numbers and places in the pipe and of what was  *)
(* executed.                                                               *)
LEMMA AppPlaces ==
  ASSUME TypeOK
  PROVE  /\ Len(pipe) \in Nat /\ DOMAIN pipe = 1..Len(pipe)
         /\ \A i \in 1..Len(pipe) :
              pipe[i] \in accepted \X Message /\ pipe[i][1] \in accepted /\ pipe[i][2] \in Message
         /\ Len(handled) \in Nat /\ DOMAIN handled = 1..Len(handled)
         /\ \A i \in 1..Len(handled) :
              /\ handled[i] \in accepted \X Message \X (HandlerOrNone \cup {Unhandled, Default})
              /\ handled[i][1] \in accepted /\ handled[i][2] \in Message
              /\ handled[i][3] \in HandlerOrNone \cup {Unhandled, Default}
         /\ posts \in Nat /\ accepted \subseteq 1..posts /\ accepted \subseteq Nat
  BY ASyncAppAssumption DEF ASyncAppAssumption, TypeOK

LEMMA LargerSeq ==
  ASSUME NEW S, NEW T, S \subseteq T, NEW s \in Seq(S)
  PROVE  s \in Seq(T)
  OBVIOUS

LEMMA AppStart == Init => AppInv
  <1> SUFFICES ASSUME Init PROVE AppInv
    OBVIOUS
  <1> USE RegistrationFacts, ASyncAppAssumption DEF ASyncAppAssumption
  <1>1. TypeOK
    <2>1. cmdHandlers_ \in [Fcns -> HandlerOrNone] /\ tlmHandlers_ \in [Ids -> HandlerOrNone]
      BY DEF Init, HandlerOrNone
    <2>2. pipe \in Seq(accepted \X Message) /\ Len(pipe) <= pipeDepth_
      BY DEF Init
    <2>3. handled \in Seq(accepted \X Message \X (HandlerOrNone \cup {Unhandled, Default}))
      BY DEF Init
    <2>4. posts \in 0..MaxPosts /\ accepted \subseteq 1..posts /\ step \in 0..Len(Registrations)
      BY DEF Init
    <2> QED
      BY <2>1, <2>2, <2>3, <2>4 DEF Init, TypeOK
  <1>2. PipeInOrder /\ ExecutedInOrder /\ FirstRegisteredRuns
    BY DEF Init, PipeInOrder, ExecutedInOrder, FirstRegisteredRuns
  <1>3. Made("cmd") = {} /\ Made("tlm") = {}
    BY DEF Init, Made, Registered
  <1>4. TablesMade
    BY <1>3 DEF Init, TablesMade, FirstTo
  <1>5. RunsWhenMade
    BY DEF Init, RunsWhenMade
  <1> QED
    BY <1>1, <1>2, <1>4, <1>5 DEF AppInv

(* A step that leaves the messages alone.                                  *)
LEMMA MessagesKept ==
  ASSUME AppInv, UNCHANGED <<pipe, posts, accepted, handled>>, phase = "gone" => phase' = "gone"
  PROVE  PipeInOrder' /\ ExecutedInOrder' /\ FirstRegisteredRuns'
  <1>1. PipeInOrder'
    BY DEF AppInv, PipeInOrder
  <1>2. ExecutedInOrder'
    BY DEF AppInv, ExecutedInOrder
  <1>3. FirstRegisteredRuns'
    BY DEF AppInv, FirstRegisteredRuns
  <1> QED
    BY <1>1, <1>2, <1>3

(* A step that makes no registration.                                      *)
LEMMA TablesKept ==
  ASSUME AppInv, UNCHANGED <<step, cmdId_, cmdHandlers_, tlmHandlers_>>
  PROVE  TablesMade'
  BY DEF AppInv, TablesMade, Made

LEMMA LoopInv ==
  ASSUME AppInv,
         RegisterApp \/ InitializeReturns \/ InitializeThrows \/ RunLoop \/ Timeout \/ AskStop \/ Shutdown
  PROVE  AppInv'
  <1>1. UNCHANGED <<step, cmdId_, cmdHandlers_, tlmHandlers_, posts, accepted, handled>>
    BY DEF RegisterApp, InitializeReturns, InitializeThrows, RunLoop, Timeout, AskStop, Shutdown,
           tables, bus
  <1>2. TablesMade'
    BY <1>1, TablesKept
  <1>3. RunsWhenMade'
    BY <1>1 DEF AppInv, RunsWhenMade, RegisterApp, InitializeReturns, InitializeThrows, RunLoop,
                Timeout, AskStop, Shutdown
  <1>4. /\ phase' \in {"register", "initialize", "check", "receive", "shutdown", "gone"}
        /\ runStatus_' \in {"ERROR", "RUN"} /\ pipeCreated_' \in BOOLEAN /\ stopAsked' \in BOOLEAN
        /\ subscribed' \subseteq Ids
    BY DEF AppInv, TypeOK, RegisterApp, InitializeReturns, InitializeThrows, RunLoop, Timeout,
           AskStop, Shutdown, tables
  <1>5. CASE Shutdown
    <2>1. pipe' = <<>> /\ phase' = "gone"
      BY <1>5 DEF Shutdown
    <2>2. pipe' \in Seq(accepted' \X Message) /\ Len(pipe') <= pipeDepth_
      BY <2>1, ASyncAppAssumption DEF ASyncAppAssumption
    <2>3. TypeOK'
      BY <1>1, <1>4, <2>2 DEF AppInv, TypeOK, HandlerOrNone
    <2>4. PipeInOrder' /\ ExecutedInOrder'
      BY <1>1, <2>1 DEF AppInv, PipeInOrder, ExecutedInOrder
    <2>5. FirstRegisteredRuns'
      BY <1>1 DEF AppInv, FirstRegisteredRuns
    <2> QED
      BY <1>2, <1>3, <2>3, <2>4, <2>5 DEF AppInv
  <1>6. CASE ~Shutdown
    <2>1. UNCHANGED pipe /\ (phase = "gone" => phase' = "gone")
      BY <1>6 DEF RegisterApp, InitializeReturns, InitializeThrows, RunLoop, Timeout, AskStop, bus
    <2>2. TypeOK'
      BY <1>1, <1>4, <2>1 DEF AppInv, TypeOK, HandlerOrNone
    <2> QED
      BY <1>1, <1>2, <1>3, <2>1, <2>2, MessagesKept DEF AppInv
  <1> QED
    BY <1>5, <1>6

(* A message that is lost changes only the number of posts; one that goes  *)
(* into the pipe comes last.                                               *)
LEMMA PostInv ==
  ASSUME AppInv, NEW m \in Message, Post(m)
  PROVE  AppInv'
  <1>1. TypeOK /\ MaxPosts \in Nat
    BY ASyncAppAssumption DEF ASyncAppAssumption, AppInv
  <1>2. /\ posts < MaxPosts /\ posts' = posts + 1
        /\ UNCHANGED <<phase, step, runStatus_, pipeCreated_, subscribed, cmdId_, cmdHandlers_,
                       tlmHandlers_, stopAsked, handled>>
    BY DEF Post, tables
  <1>3. TablesMade' /\ RunsWhenMade'
    BY <1>2, TablesKept DEF AppInv, RunsWhenMade
  <1>4. /\ posts \in Nat /\ accepted \subseteq 1..posts
        /\ posts' \in 0..MaxPosts /\ accepted \subseteq 1..posts'
    BY <1>1, <1>2 DEF TypeOK
  <1>5. CASE UNCHANGED <<pipe, accepted>>
    <2>1. TypeOK'
      BY <1>1, <1>2, <1>4, <1>5 DEF TypeOK, HandlerOrNone
    <2>2. PipeInOrder' /\ ExecutedInOrder' /\ FirstRegisteredRuns'
      BY <1>2, <1>5 DEF AppInv, PipeInOrder, ExecutedInOrder, FirstRegisteredRuns
    <2> QED
      BY <1>3, <2>1, <2>2 DEF AppInv
  <1>6. CASE /\ Len(pipe) < pipeDepth_ /\ pipe' = Append(pipe, <<posts + 1, m>>)
             /\ accepted' = accepted \cup {posts + 1}
    <2> DEFINE n == Len(pipe)
    <2>1. /\ n \in Nat /\ Len(pipe') = n + 1 /\ DOMAIN pipe' = 1..(n + 1) /\ DOMAIN pipe = 1..n
          /\ pipe'[n + 1] = <<posts + 1, m>> /\ \A i \in 1..n : pipe'[i] = pipe[i]
      BY <1>1, <1>6 DEF TypeOK
    <2>2. \A i \in 1..n : pipe[i][1] \in accepted
      BY <1>1, AppPlaces
    <2>3. \A i \in DOMAIN handled : handled[i][1] \in accepted
      BY <1>1, AppPlaces
    <2>4. \A k \in accepted : k \in Nat /\ k < posts + 1
      BY <1>4
    <2>5. /\ pipe \in Seq(accepted' \X Message)
          /\ handled \in Seq(accepted' \X Message \X (HandlerOrNone \cup {Unhandled, Default}))
      <3>1. accepted \X Message \subseteq accepted' \X Message
        BY <1>6
      <3>2. accepted \X Message \X (HandlerOrNone \cup {Unhandled, Default})
              \subseteq accepted' \X Message \X (HandlerOrNone \cup {Unhandled, Default})
        BY <1>6
      <3> QED
        BY <1>1, <3>1, <3>2, LargerSeq DEF TypeOK
    <2>6. pipe' \in Seq(accepted' \X Message) /\ Len(pipe') <= pipeDepth_
      BY <1>6, <2>1, <2>5, ASyncAppAssumption DEF ASyncAppAssumption
    <2>7. accepted' \subseteq 1..posts'
      BY <1>2, <1>4, <1>6
    <2>8. TypeOK'
      BY <1>1, <1>2, <1>4, <2>5, <2>6, <2>7 DEF TypeOK, HandlerOrNone
    <2> HIDE DEF n
    <2>9. PipeInOrder'
      BY <2>1, <2>2, <2>4 DEF AppInv, PipeInOrder
    <2>10. \A i, j \in DOMAIN handled' : i < j => handled'[i][1] < handled'[j][1]
      BY <1>2 DEF AppInv, ExecutedInOrder
    <2>11. \A i \in DOMAIN handled', j \in DOMAIN pipe' : handled'[i][1] < pipe'[j][1]
      BY <1>2, <2>1, <2>3, <2>4 DEF AppInv, ExecutedInOrder
    <2>12. {pipe'[j][1] : j \in DOMAIN pipe'} = {pipe[j][1] : j \in DOMAIN pipe} \cup {posts + 1}
      BY <2>1
    <2>13. phase' # "gone" => accepted' = {handled'[i][1] : i \in DOMAIN handled'}
                                          \cup {pipe'[j][1] : j \in DOMAIN pipe'}
      BY <1>2, <1>6, <2>12 DEF AppInv, ExecutedInOrder
    <2>14. FirstRegisteredRuns'
      BY <1>2 DEF AppInv, FirstRegisteredRuns
    <2> QED
      BY <1>3, <2>8, <2>9, <2>10, <2>11, <2>13, <2>14 DEF AppInv, ExecutedInOrder
  <1> QED
    BY <1>5, <1>6 DEF Post

(* Once all registrations are made, the handler that is looked up is the   *)
(* first that was registered.                                              *)
LEMMA HandlerIsFirst ==
  ASSUME TablesMade, step = Len(Registrations), NEW m \in Message
  PROVE  IF For(m) = {} THEN Handler(m) < 0
         ELSE Handler(m) \in For(m) /\ \A h \in For(m) : Handler(m) <= h
  <1> DEFINE C == {i \in Made("cmd") : Registrations[i].fcn = m.fcn}
             T == {i \in Made("tlm") : Registrations[i].id = m.id}
  <1>1. m.id \in Ids /\ m.fcn \in Fcns /\ m.id # "none"
    BY RegistrationFacts, ASyncAppAssumption DEF ASyncAppAssumption
  <1>2. FirstTo(C, cmdHandlers_[m.fcn]) /\ FirstTo(T, tlmHandlers_[m.id])
    BY <1>1 DEF TablesMade
  <1>3. \A K : Made(K) = Registered(K) /\ Registered(K) \subseteq 1..Len(Registrations)
    BY RegistrationFacts DEF Made, Registered
  <1>4. 0 \notin C /\ 0 \notin T
    BY <1>3
  <1>5. CASE m.id = cmdId_
    <2>1. Made("cmd") # {}
      BY <1>1, <1>5 DEF TablesMade
    <2>2. \A i \in Registered("cmd") : Registrations[i].id = m.id
      BY <1>3, <1>5 DEF TablesMade
    <2>3. \A i \in Registered("tlm") : Registrations[i].id # m.id
      BY <1>3, <2>1, <2>2, ASyncAppAssumption DEF ASyncAppAssumption
    <2>4. For(m) = C
      BY <1>3, <2>2, <2>3 DEF For, Registered
    <2> QED
      BY <1>2, <1>4, <1>5, <2>4 DEF Handler, FirstTo, None, Unhandled
  <1>6. CASE m.id # cmdId_
    <2>1. \A i \in Registered("cmd") : Registrations[i].id # m.id
      BY <1>3, <1>6 DEF TablesMade
    <2>2. For(m) = T
      BY <1>3, <2>1 DEF For, Registered
    <2> QED
      BY <1>2, <1>4, <1>6, <2>2 DEF Handler, FirstTo, None, Default
  <1> QED
    BY <1>5, <1>6

(* The handler runs on the message that has waited longest.                *)
LEMMA ReceiveInv ==
  ASSUME AppInv, Receive
  PROVE  AppInv'
  <1> DEFINE n == Len(pipe)  h == Len(handled)  m == pipe[1][2]
  <1>1. TypeOK
    BY DEF AppInv
  <1>2. /\ phase = "receive" /\ phase' = "check" /\ pipe # <<>> /\ pipe' = Tail(pipe)
        /\ handled' = Append(handled, Executed(Head(pipe)))
        /\ UNCHANGED <<step, runStatus_, pipeCreated_, subscribed, cmdId_, cmdHandlers_,
                       tlmHandlers_, posts, accepted, stopAsked>>
    BY DEF Receive, tables
  <1>3. /\ n \in Nat /\ n > 0 /\ DOMAIN pipe = 1..n /\ Head(pipe) = pipe[1]
        /\ Len(pipe') = n - 1 /\ DOMAIN pipe' = 1..(n - 1)
        /\ \A i \in 1..(n - 1) : pipe'[i] = pipe[i + 1]
    BY <1>1, <1>2 DEF TypeOK
  <1>4. pipe[1][1] \in accepted /\ m \in Message
    BY <1>1, <1>3, AppPlaces
  <1>5. /\ h \in Nat /\ DOMAIN handled = 1..h /\ Len(handled') = h + 1 /\ DOMAIN handled' = 1..(h + 1)
        /\ handled'[h + 1] = <<pipe[1][1], m, Handler(m)>>
        /\ \A i \in 1..h : handled'[i] = handled[i]
    BY <1>1, <1>2, <1>3 DEF TypeOK, Executed
  <1>6. TablesMade' /\ RunsWhenMade'
    BY <1>2, TablesKept DEF AppInv, RunsWhenMade
  <1>7. step = Len(Registrations)
    BY <1>2 DEF AppInv, RunsWhenMade
  <1>8. IF For(m) = {} THEN Handler(m) < 0
        ELSE Handler(m) \in For(m) /\ \A i \in For(m) : Handler(m) <= i
    BY <1>4, <1>7, HandlerIsFirst DEF AppInv
  <1>9. TypeOK'
    <2>1. Handler(m) \in HandlerOrNone \cup {Unhandled, Default}
      <3>1. m.id \in Ids /\ m.fcn \in Fcns
        BY <1>4, RegistrationFacts
      <3> QED
        BY <1>1, <3>1 DEF Handler, TypeOK
    <2>2. handled' \in Seq(accepted' \X Message \X (HandlerOrNone \cup {Unhandled, Default}))
      BY <1>1, <1>2, <1>3, <1>4, <2>1 DEF TypeOK, Executed
    <2>3. pipe' \in Seq(accepted' \X Message) /\ Len(pipe') <= pipeDepth_
      BY <1>1, <1>2, <1>3, ASyncAppAssumption DEF TypeOK, ASyncAppAssumption
    <2> QED
      BY <1>1, <1>2, <2>2, <2>3 DEF TypeOK, HandlerOrNone
  <1> HIDE DEF n, h, m
  <1>10. PipeInOrder'
    BY <1>3 DEF AppInv, PipeInOrder
  <1>11. \A i, j \in DOMAIN handled' : i < j => handled'[i][1] < handled'[j][1]
    BY <1>3, <1>5 DEF AppInv, ExecutedInOrder
  <1>12. \A i \in DOMAIN handled', j \in DOMAIN pipe' : handled'[i][1] < pipe'[j][1]
    <2> SUFFICES ASSUME NEW i \in 1..(h + 1), NEW j \in 1..(n - 1)
                 PROVE  handled'[i][1] < pipe'[j][1]
      BY <1>3, <1>5
    <2>1. j + 1 \in 1..n /\ 1 \in 1..n /\ 1 < j + 1 /\ pipe'[j] = pipe[j + 1]
      BY <1>3
    <2>2. CASE i \in 1..h
      BY <1>3, <1>5, <2>1, <2>2 DEF AppInv, ExecutedInOrder
    <2>3. CASE i = h + 1
      <3>1. pipe[1][1] < pipe[j + 1][1]
        BY <1>3, <2>1 DEF AppInv, PipeInOrder
      <3> QED
        BY <1>5, <2>1, <2>3, <3>1
    <2> QED
      BY <1>5, <2>2, <2>3
  <1>13. /\ {handled'[i][1] : i \in DOMAIN handled'} = {handled[i][1] : i \in DOMAIN handled} \cup {pipe[1][1]}
         /\ {pipe[j][1] : j \in DOMAIN pipe} = {pipe'[j][1] : j \in DOMAIN pipe'} \cup {pipe[1][1]}
    <2>1. {handled'[i][1] : i \in DOMAIN handled'} = {handled[i][1] : i \in DOMAIN handled} \cup {pipe[1][1]}
      BY <1>5
    <2>2. \A j \in 1..n : j = 1 \/ (j - 1 \in 1..(n - 1) /\ pipe[j] = pipe'[j - 1])
      BY <1>3
    <2>3. \A j \in 1..(n - 1) : j + 1 \in 1..n
      BY <1>3
    <2>4. {pipe[j][1] : j \in DOMAIN pipe} \subseteq {pipe'[j][1] : j \in DOMAIN pipe'} \cup {pipe[1][1]}
      <3> SUFFICES ASSUME NEW j \in 1..n
                   PROVE  pipe[j][1] \in {pipe'[x][1] : x \in 1..(n - 1)} \cup {pipe[1][1]}
        BY <1>3
      <3> QED
        BY <2>2
    <2>5. {pipe'[j][1] : j \in DOMAIN pipe'} \cup {pipe[1][1]} \subseteq {pipe[j][1] : j \in DOMAIN pipe}
      BY <1>3, <2>3
    <2> QED
      BY <2>1, <2>4, <2>5
  <1>14. phase # "gone" /\ accepted = {handled[i][1] : i \in DOMAIN handled}
                                       \cup {pipe[j][1] : j \in DOMAIN pipe}
    BY <1>2 DEF AppInv, ExecutedInOrder
  <1>15. accepted' = {handled'[i][1] : i \in DOMAIN handled'} \cup {pipe'[j][1] : j \in DOMAIN pipe'}
    BY <1>2, <1>13, <1>14
  <1>16. ExecutedInOrder'
    BY <1>11, <1>12, <1>15 DEF ExecutedInOrder
  <1>17. FirstRegisteredRuns'
    <2> SUFFICES ASSUME NEW i \in 1..(h + 1)
                 PROVE  IF For(handled'[i][2]) = {} THEN handled'[i][3] < 0
                        ELSE /\ handled'[i][3] \in For(handled'[i][2])
                             /\ \A x \in For(handled'[i][2]) : handled'[i][3] <= x
      BY <1>5 DEF FirstRegisteredRuns, For
    <2>1. CASE i \in 1..h
      BY <1>5, <2>1 DEF AppInv, FirstRegisteredRuns
    <2>2. CASE i = h + 1
      BY <1>5, <1>8, <2>2
    <2> QED
      BY <1>5, <2>1, <2>2
  <1> QED
    BY <1>6, <1>9, <1>10, <1>16, <1>17 DEF AppInv

(* A registration takes effect unless an earlier one has the same key.     *)
LEMMA InsertFirst ==
  ASSUME NEW S, S \subseteq Nat \ {0}, NEW i \in Nat, \A x \in S : x < i, NEW old,
         FirstTo(S, old)
  PROVE  FirstTo(S \cup {i}, IF old = None THEN i ELSE old)
  <1>1. CASE old = None
    <2>1. S = {}
      BY <1>1 DEF FirstTo, None
    <2> QED
      BY <1>1, <2>1 DEF FirstTo, None
  <1>2. CASE old # None
    <2>1. S # {} /\ old \in S /\ old < i /\ \A x \in S : old <= x
      BY <1>2 DEF FirstTo
    <2>2. old \in S \cup {i} /\ \A x \in S \cup {i} : old <= x
      BY <2>1
    <2> QED
      BY <1>2, <2>1, <2>2 DEF FirstTo
  <1> QED
    BY <1>1, <1>2

LEMMA InitializeInv ==
  ASSUME AppInv, Initialize
  PROVE  AppInv'
  <1> DEFINE i == step + 1  r == Registrations[i]
  <1>1. TypeOK
    BY DEF AppInv
  <1>2. /\ phase = "initialize" /\ step < Len(Registrations) /\ step' = i
        /\ UNCHANGED <<phase, runStatus_, pipe, posts, accepted, stopAsked, handled>>
    BY DEF Initialize, bus
  <1>3. AddHandler(i)
    BY DEF Initialize
  <1>4. /\ step \in Nat /\ i \in 1..Len(Registrations) /\ i \in DOMAIN Registrations /\ i \in Nat \ {0}
        /\ step' \in 0..Len(Registrations)
        /\ r.kind \in {"cmd", "tlm", "raw"} /\ r.id \in Ids /\ r.fcn \in Fcns /\ r.id # "none"
    BY <1>1, <1>2, RegistrationFacts, ASyncAppAssumption DEF TypeOK, ASyncAppAssumption
  <1>5. pipeCreated_' \in BOOLEAN /\ subscribed' \subseteq Ids
    BY <1>1, <1>3, <1>4 DEF AddHandler, Subscribe, TypeOK
  <1>6. /\ cmdId_' = IF r.kind = "cmd" THEN r.id ELSE cmdId_
        /\ cmdHandlers_' = IF r.kind = "cmd" THEN Insert(cmdHandlers_, r.fcn, i) ELSE cmdHandlers_
        /\ tlmHandlers_' = IF r.kind = "tlm" THEN Insert(tlmHandlers_, r.id, i) ELSE tlmHandlers_
    BY <1>3 DEF AddHandler
  <1> HIDE DEF r
  <1>7. i \in HandlerOrNone /\ cmdHandlers_ \in [Fcns -> HandlerOrNone] /\ tlmHandlers_ \in [Ids -> HandlerOrNone]
    BY <1>1, <1>4 DEF TypeOK, HandlerOrNone
  <1>8. cmdHandlers_' \in [Fcns -> HandlerOrNone] /\ tlmHandlers_' \in [Ids -> HandlerOrNone]
    BY <1>4, <1>6, <1>7 DEF Insert
  <1>9. /\ \A f \in Fcns : cmdHandlers_'[f] =
             IF r.kind = "cmd" /\ f = r.fcn /\ cmdHandlers_[f] = None THEN i ELSE cmdHandlers_[f]
        /\ \A id \in Ids : tlmHandlers_'[id] =
             IF r.kind = "tlm" /\ id = r.id /\ tlmHandlers_[id] = None THEN i ELSE tlmHandlers_[id]
    BY <1>6, <1>7 DEF Insert
  <1>10. TypeOK'
    BY <1>1, <1>2, <1>4, <1>5, <1>6, <1>8 DEF TypeOK, HandlerOrNone
  <1>11. /\ Made("cmd")' = IF r.kind = "cmd" THEN Made("cmd") \cup {i} ELSE Made("cmd")
         /\ Made("tlm")' = IF r.kind = "tlm" THEN Made("tlm") \cup {i} ELSE Made("tlm")
    BY <1>2, <1>4, RegistrationFacts DEF Made, Registered, r
  <1>12. \A K : Made(K) \subseteq Nat \ {0} /\ \A x \in Made(K) : x < i /\ x \in DOMAIN Registrations
    BY <1>4, RegistrationFacts DEF Made, Registered
  <1>13. TablesMade
    BY DEF AppInv
  <1>14. cmdId_' = "none" <=> Made("cmd")' = {}
    BY <1>4, <1>6, <1>11, <1>13 DEF TablesMade
  <1>15. \A x \in Made("cmd")' : Registrations[x].id = cmdId_'
    <2>1. CASE r.kind = "cmd"
      <3>1. \A x \in Made("cmd") : Registrations[x].id = r.id
        <4>1. i \in Registered("cmd")
          BY <1>4, <2>1 DEF Registered, r
        <4>2. \A x, y \in Registered("cmd") : Registrations[x].id = Registrations[y].id
          BY ASyncAppAssumption DEF ASyncAppAssumption
        <4> QED
          BY <4>1, <4>2 DEF Made, r
      <3> QED
        BY <1>6, <1>11, <2>1, <3>1 DEF r
    <2>2. CASE r.kind # "cmd"
      BY <1>6, <1>11, <1>13, <2>2 DEF TablesMade
    <2> QED
      BY <2>1, <2>2
  <1>16. ASSUME NEW f \in Fcns
         PROVE  FirstTo({x \in Made("cmd")' : Registrations[x].fcn = f}, cmdHandlers_'[f])
    <2> DEFINE S == {x \in Made("cmd") : Registrations[x].fcn = f}
    <2>1. FirstTo(S, cmdHandlers_[f]) /\ S \subseteq Nat \ {0} /\ \A x \in S : x < i
      BY <1>12, <1>13 DEF TablesMade
    <2>2. CASE r.kind = "cmd" /\ f = r.fcn
      <3>1. {x \in Made("cmd")' : Registrations[x].fcn = f} = S \cup {i}
        BY <1>11, <2>2 DEF r
      <3>2. cmdHandlers_'[f] = IF cmdHandlers_[f] = None THEN i ELSE cmdHandlers_[f]
        BY <1>9, <2>2
      <3> HIDE DEF S, i
      <3>3. FirstTo(S \cup {i}, IF cmdHandlers_[f] = None THEN i ELSE cmdHandlers_[f])
        BY <1>4, <2>1, InsertFirst
      <3> QED
        BY <3>1, <3>2, <3>3, Zenon
    <2>3. CASE ~(r.kind = "cmd" /\ f = r.fcn)
      <3>1. {x \in Made("cmd")' : Registrations[x].fcn = f} = S
        BY <1>11, <2>3 DEF r
      <3> QED
        BY <1>9, <2>1, <2>3, <3>1
    <2> QED
      BY <2>2, <2>3
  <1>17. ASSUME NEW id \in Ids
         PROVE  FirstTo({x \in Made("tlm")' : Registrations[x].id = id}, tlmHandlers_'[id])
    <2> DEFINE S == {x \in Made("tlm") : Registrations[x].id = id}
    <2>1. FirstTo(S, tlmHandlers_[id]) /\ S \subseteq Nat \ {0} /\ \A x \in S : x < i
      BY <1>12, <1>13 DEF TablesMade
    <2>2. CASE r.kind = "tlm" /\ id = r.id
      <3>1. {x \in Made("tlm")' : Registrations[x].id = id} = S \cup {i}
        BY <1>11, <2>2 DEF r
      <3>2. tlmHandlers_'[id] = IF tlmHandlers_[id] = None THEN i ELSE tlmHandlers_[id]
        BY <1>9, <2>2
      <3> HIDE DEF S, i
      <3>3. FirstTo(S \cup {i}, IF tlmHandlers_[id] = None THEN i ELSE tlmHandlers_[id])
        BY <1>4, <2>1, InsertFirst
      <3> QED
        BY <3>1, <3>2, <3>3, Zenon
    <2>3. CASE ~(r.kind = "tlm" /\ id = r.id)
      <3>1. {x \in Made("tlm")' : Registrations[x].id = id} = S
        BY <1>11, <2>3 DEF r
      <3> QED
        BY <1>9, <2>1, <2>3, <3>1
    <2> QED
      BY <2>2, <2>3
  <1>18. TablesMade'
    BY <1>14, <1>15, <1>16, <1>17 DEF TablesMade
  <1>19. RunsWhenMade'
    BY <1>2 DEF AppInv, RunsWhenMade
  <1>20. PipeInOrder' /\ ExecutedInOrder' /\ FirstRegisteredRuns'
    BY <1>2, MessagesKept
  <1> QED
    BY <1>10, <1>18, <1>19, <1>20 DEF AppInv

LEMMA AppStepInv ==
  ASSUME AppInv, [Next]_vars
  PROVE  AppInv'
  <1>1. CASE UNCHANGED vars
    <2>1. UNCHANGED <<phase, step, runStatus_, pipeCreated_, subscribed, cmdId_, cmdHandlers_,
                      tlmHandlers_, pipe, posts, accepted, stopAsked, handled>>
      BY <1>1 DEF vars, tables, bus
    <2>2. TypeOK' /\ RunsWhenMade'
      BY <2>1 DEF AppInv, TypeOK, RunsWhenMade, HandlerOrNone
    <2> QED
      BY <2>1, <2>2, TablesKept, MessagesKept DEF AppInv
  <1>2. CASE Next
    BY <1>2, LoopInv, PostInv, ReceiveInv, InitializeInv DEF Next, Execute
  <1> QED
    BY <1>1, <1>2

LEMMA AppAlways == CppBaseSpec => []AppInv
  <1>1. CppBaseInit => AppInv
    BY AppStart DEF CppBaseInit
  <1>2. AppInv /\ [CppBaseNext]_all => AppInv'
    BY StepOfEach, AppStepInv
  <1> QED
    BY <1>1, <1>2, PTL DEF CppBaseSpec

(* ASyncApp: every message the pipe accepted is executed once, in order,   *)
(* by the first handler registered for it, however the registrations, the  *)
(* handlers and the posts of other tasks mix.                              *)
THEOREM MessagesExecutedAsRegistered == CppBaseSpec => []ExecutedAsRegistered
  <1>1. AppInv => ExecutedAsRegistered
    BY DEF AppInv, ExecutedAsRegistered
  <1> QED
    BY <1>1, AppAlways, PTL

-----------------------------------------------------------------------------
(* Facts about numbers and sets of numbers that the packet filter's proof  *)
(* rests on.                                                               *)
LEMMA MultipleBetween ==
  ASSUME NEW r \in Int, NEW k \in Int, r > 0, r * k < r, -r < r * k
  PROVE  k = 0
  OBVIOUS

LEMMA RemainderUnique ==
  ASSUME NEW r \in Int, NEW p \in Int, NEW q \in Int, NEW m \in 0..(r - 1), NEW l \in 0..(r - 1),
         r > 0, r * p + m = r * q + l
  PROVE  m = l
  <1>1. r * (p - q) = l - m
    OBVIOUS
  <1>2. p - q \in Int /\ r * (p - q) < r /\ -r < r * (p - q)
    BY <1>1
  <1>3. p - q = 0
    BY <1>2, MultipleBetween
  <1> QED
    BY <1>1, <1>3

LEMMA RemainderBefore ==
  ASSUME NEW c \in Nat, NEW r \in Nat, r > 0, c > 0, c % r # 0
  PROVE  (c - 1) % r = (c % r) - 1
  <1> DEFINE p == (c - 1) \div r  m == (c - 1) % r  q == c \div r  l == (c % r) - 1
  <1>1. c = r * q + (c % r) /\ q \in Int /\ c % r \in 0..(r - 1)
    OBVIOUS
  <1>2. c - 1 = r * p + m /\ p \in Int /\ m \in 0..(r - 1)
    OBVIOUS
  <1>3. r * p + m = r * q + l /\ l \in 0..(r - 1)
    BY <1>1, <1>2
  <1> HIDE DEF p, m, q, l
  <1>4. m = l
    BY <1>1, <1>2, <1>3, RemainderUnique
  <1> QED
    BY <1>4 DEF m, l

LEMMA RemainderFacts ==
  ASSUME NEW c \in Nat, NEW r \in Nat, r > 0
  PROVE  c % r \in 0..(r - 1) /\ 0 % r = 0 /\ (c < r => c % r = c)
  OBVIOUS

(* A set of places has a last one: n minus it is the least of the natural  *)
(* numbers n - x.                                                          *)
LEMMA LastPlace ==
  ASSUME NEW n \in Nat, NEW S \in SUBSET (1..n), S # {}
  PROVE  Filter!Max(S) \in S
  <1> DEFINE T == {n - x : x \in S}
  <1>1. T \subseteq Nat
    OBVIOUS
  <1>2. T # {}
    <2>1. PICK x \in S : TRUE
      OBVIOUS
    <2>2. n - x \in T
      OBVIOUS
    <2> QED
      BY <2>2
  <1>3. PICK t \in T : \A u \in T : ~(<<u, t>> \in OpToRel(<, Nat))
    BY <1>1, <1>2, NatLessThanWellFounded, WFMin
  <1>4. \A u \in T : ~(u < t)
    BY <1>1, <1>3 DEF OpToRel
  <1>5. PICK x \in S : t = n - x
    OBVIOUS
  <1>6. \A y \in S : ~(n - y < n - x)
    BY <1>4, <1>5
  <1>7. \A y \in S : x >= y
    BY <1>6
  <1> QED
    BY <1>7 DEF Filter!Max

-----------------------------------------------------------------------------
(* The packet filter.  Between two messages that go on, one more is held   *)
(* back each time the counter is counted up; where it was set to zero, or  *)
(* has wrapped, the next message goes on.                                  *)
HeldBack ==
  \A a \in Filter!Apids :
    decimationRate_[a] > 0 /\ decimationCounter_[a] > 0 =>
      skipped[a] <= (decimationCounter_[a] - 1) % decimationRate_[a]

FilterInv == Filter!TypeOK /\ Filter!AllowedAsTold /\ HeldBack

LEMMA FilterAssumed ==
  /\ Rate \subseteq Nat /\ CounterSize \in Nat /\ CounterSize > 0
  /\ \A id \in MsgId : Filter!Apid(id) \in Filter!Apids
  BY CppBaseAssumption DEF CppBaseAssumption, Filter!PacketFilterAssumption, Filter!Apids

LEMMA FileFacts ==
  ASSUME NEW f \in File
  PROVE  /\ Len(f.items) \in Nat /\ DOMAIN f.items = 1..Len(f.items)
         /\ \A i \in 1..Len(f.items) :
              /\ f.items[i].decimation \in Nat /\ f.items[i].ack \in BOOLEAN
              /\ Filter!Apid(f.items[i].id) \in Filter!Apids
  <1>1. f.items \in Seq(Filter!FileItem)
    BY CppBaseAssumption DEF CppBaseAssumption, Filter!PacketFilterAssumption
  <1>2. \A x \in Filter!FileItem : x.decimation \in Nat /\ x.ack \in BOOLEAN
    BY DEF Filter!FileItem
  <1>3. \A i \in DOMAIN f.items : Filter!Apid(f.items[i].id) \in Filter!Apids
    BY DEF Filter!Apids
  <1>4. /\ Len(f.items) \in Nat /\ DOMAIN f.items = 1..Len(f.items)
        /\ \A i \in 1..Len(f.items) : f.items[i] \in Filter!FileItem
    BY <1>1
  <1> QED
    BY <1>2, <1>3, <1>4

(* A setting is the default or what some item of the file says.            *)
LEMMA SettingIs ==
  ASSUME NEW f \in File, NEW k, NEW a, NEW field, NEW default, NEW T, default \in T,
         \A i \in DOMAIN f.items : f.items[i][field] \in T
  PROVE  Filter!Setting(f, k, a, field, default) \in T
  <1> DEFINE S == Filter!Set(f, k, a)
  <1>1. S \in SUBSET (1..Len(f.items)) /\ Len(f.items) \in Nat /\ DOMAIN f.items = 1..Len(f.items)
    BY FileFacts DEF Filter!Set, Filter!Read
  <1>2. CASE S = {}
    BY <1>2 DEF Filter!Setting
  <1>3. CASE S # {}
    <2>1. Filter!Max(S) \in DOMAIN f.items
      BY <1>1, <1>3, LastPlace
    <2> QED
      BY <1>3, <2>1 DEF Filter!Setting
  <1> QED
    BY <1>2, <1>3

LEMMA FilterStart == Filter!Init => FilterInv
  <1> SUFFICES ASSUME Filter!Init PROVE FilterInv
    OBVIOUS
  <1>1. Filter!TypeOK
    BY DEF Filter!Init, Filter!TypeOK, Filter!All
  <1>2. Filter!AllowedAsTold
    BY DEF Filter!Init, Filter!AllowedAsTold, Filter!All
  <1>3. HeldBack
    <2> SUFFICES ASSUME NEW a \in Filter!Apids, decimationCounter_[a] > 0
                 PROVE  skipped[a] <= (decimationCounter_[a] - 1) % decimationRate_[a]
      BY DEF HeldBack
    <2>1. skipped[a] = 0 /\ decimationRate_[a] = 1 /\ decimationCounter_[a] - 1 \in Nat
      BY FilterAssumed DEF Filter!Init, Filter!All
    <2> QED
      BY <2>1, RemainderFacts
  <1> QED
    BY <1>1, <1>2, <1>3 DEF FilterInv

(* A file tells which messages pass; it clears the counters.               *)
LEMMA FromJsonInv ==
  ASSUME FilterInv, NEW f \in File, Filter!FromJson(f)
  PROVE  FilterInv'
  <1>1. Filter!TypeOK
    BY DEF FilterInv
  <1>2. /\ allowedList_' = [a \in Filter!Apids |-> Filter!Set(f, 1, a) # {}]
        /\ decimationRate_' = [a \in Filter!Apids |-> Filter!Setting(f, 2, a, "decimation", 1)]
        /\ decimationCounter_' = [a \in Filter!Apids |-> 0]
        /\ ackAllowedList_' =
             [a \in Filter!Apids |-> Filter!Setting(f, 5, a, "ack", ackAllowedList_[a])]
        /\ named' = {Filter!Apid(f.items[i].id) : i \in DOMAIN f.items}
        /\ whole' = \A i \in DOMAIN f.items : f.items[i].stored = 5
        /\ skipped' = skipped
    BY DEF Filter!FromJson, Filter!All
  <1>3. \A a \in Filter!Apids : Filter!Setting(f, 2, a, "decimation", 1) \in Nat
    <2>1. \A i \in DOMAIN f.items : f.items[i]["decimation"] \in Nat
      BY FileFacts
    <2>2. 1 \in Nat
      OBVIOUS
    <2> QED
      BY <2>1, <2>2, SettingIs
  <1>4. \A a \in Filter!Apids : Filter!Setting(f, 5, a, "ack", ackAllowedList_[a]) \in BOOLEAN
    <2>1. \A a \in Filter!Apids : ackAllowedList_[a] \in BOOLEAN
      BY <1>1 DEF Filter!TypeOK
    <2>2. \A i \in DOMAIN f.items : f.items[i]["ack"] \in BOOLEAN
      BY FileFacts
    <2> QED
      BY <2>1, <2>2, SettingIs
  <1>5. named' \subseteq Filter!Apids
    BY <1>2, FileFacts
  <1>6. Filter!TypeOK'
    <2>1. allowedList_' \in [Filter!Apids -> BOOLEAN] /\ skipped' \in [Filter!Apids -> Nat]
      BY <1>1, <1>2 DEF Filter!TypeOK
    <2>2. decimationCounter_' \in [Filter!Apids -> 0..(CounterSize - 1)]
      BY <1>2, FilterAssumed
    <2>3. decimationRate_' \in [Filter!Apids -> Nat] /\ ackAllowedList_' \in [Filter!Apids -> BOOLEAN]
      BY <1>2, <1>3, <1>4
    <2> QED
      BY <1>5, <2>1, <2>2, <2>3 DEF Filter!TypeOK
  <1>7. Filter!AllowedAsTold'
    <2>1. \A a \in Filter!Apids : allowedList_'[a] <=> Filter!Set(f, 1, a) # {}
      BY <1>2
    <2>2. \A a \in Filter!Apids : Filter!Set(f, 1, a) # {} => a \in named'
      BY <1>2 DEF Filter!Set, Filter!Read
    <2>3. ASSUME whole', NEW a \in named' PROVE Filter!Set(f, 1, a) # {}
      <3>1. \A i \in DOMAIN f.items : f.items[i].stored = 5
        BY <1>2, <2>3
      <3>2. PICK i \in DOMAIN f.items : Filter!Apid(f.items[i].id) = a
        BY <1>2
      <3>3. \A j \in 1..(i - 1) : j \in DOMAIN f.items
        BY <3>2, FileFacts
      <3>4. i \in Filter!Read(f)
        BY <3>1, <3>2, <3>3 DEF Filter!Read
      <3>5. f.items[i].stored >= 1
        BY <3>1, <3>2
      <3> QED
        BY <3>2, <3>4, <3>5 DEF Filter!Set
    <2> QED
      BY <1>5, <2>1, <2>2, <2>3 DEF Filter!AllowedAsTold
  <1>8. HeldBack'
    BY <1>2 DEF HeldBack
  <1> QED
    BY <1>6, <1>7, <1>8 DEF FilterInv

(* The commands: a new rate comes with a counter of zero.                  *)
LEMMA CommandInv ==
  ASSUME FilterInv,
         \/ Filter!ResetCounters \/ Filter!Defaults
         \/ \E id \in MsgId :
              \/ \E ok \in BOOLEAN : Filter!ModifyFilter(id, ok)
              \/ \E n \in Rate : Filter!ModifyDecimation(id, n)
              \/ \E r \in Route : Filter!ModifyRoute(id, r)
              \/ \E d \in Depth : Filter!ModifyDepth(id, d)
         \/ UNCHANGED Filter!vars
  PROVE  FilterInv' /\ skipped' = skipped
  <1> USE FilterAssumed
      DEF Filter!decimation, Filter!switches, Filter!routes, Filter!vars, Filter!All
  <1>1. Filter!TypeOK
    BY DEF FilterInv
  <1>2. skipped' = skipped
    BY DEF Filter!ResetCounters, Filter!Defaults, Filter!ModifyFilter, Filter!ModifyDecimation,
           Filter!ModifyRoute, Filter!ModifyDepth
  <1>3. CASE Filter!ResetCounters
    <2>1. Filter!TypeOK'
      BY <1>1, <1>3 DEF Filter!ResetCounters, Filter!TypeOK
    <2>2. Filter!AllowedAsTold' /\ HeldBack'
      BY <1>3 DEF Filter!ResetCounters, FilterInv, Filter!AllowedAsTold, HeldBack
    <2> QED
      BY <1>2, <2>1, <2>2 DEF FilterInv
  <1>4. CASE Filter!Defaults
    <2>1. Filter!TypeOK'
      BY <1>1, <1>4 DEF Filter!Defaults, Filter!TypeOK
    <2>2. Filter!AllowedAsTold' /\ HeldBack'
      BY <1>4 DEF Filter!Defaults, Filter!AllowedAsTold, HeldBack
    <2> QED
      BY <1>2, <2>1, <2>2 DEF FilterInv
  <1>5. ASSUME NEW id \in MsgId, NEW ok \in BOOLEAN, Filter!ModifyFilter(id, ok)
        PROVE  FilterInv'
    <2>1. Filter!TypeOK'
      BY <1>1, <1>5 DEF Filter!ModifyFilter, Filter!TypeOK
    <2>2. Filter!AllowedAsTold'
      BY <1>1, <1>5 DEF Filter!ModifyFilter, FilterInv, Filter!AllowedAsTold, Filter!TypeOK
    <2>3. HeldBack'
      BY <1>5 DEF Filter!ModifyFilter, FilterInv, HeldBack
    <2> QED
      BY <2>1, <2>2, <2>3 DEF FilterInv
  <1>6. ASSUME NEW id \in MsgId, NEW n \in Rate, Filter!ModifyDecimation(id, n)
        PROVE  FilterInv'
    <2>1. Filter!TypeOK'
      BY <1>1, <1>6 DEF Filter!ModifyDecimation, Filter!TypeOK
    <2>2. Filter!AllowedAsTold'
      BY <1>6 DEF Filter!ModifyDecimation, FilterInv, Filter!AllowedAsTold
    <2>3. HeldBack'
      BY <1>1, <1>6 DEF Filter!ModifyDecimation, FilterInv, HeldBack, Filter!TypeOK
    <2> QED
      BY <2>1, <2>2, <2>3 DEF FilterInv
  <1>7. CASE \/ \E id \in MsgId : \/ \E r \in Route : Filter!ModifyRoute(id, r)
                                  \/ \E d \in Depth : Filter!ModifyDepth(id, d)
             \/ UNCHANGED Filter!vars
    <2>1. UNCHANGED <<allowedList_, ackAllowedList_, decimationCounter_, decimationRate_, named,
                      whole, skipped>>
      BY <1>7 DEF Filter!ModifyRoute, Filter!ModifyDepth
    <2> QED
      BY <2>1 DEF FilterInv, Filter!TypeOK, Filter!AllowedAsTold, HeldBack
  <1> QED
    BY <1>2, <1>3, <1>4, <1>5, <1>6, <1>7

(* A message: the counter has counted at least those held back since one   *)
(* went on, and a message that finds its counter at a multiple of the rate *)
(* goes on.                                                                *)
LEMMA DecimatedInv ==
  ASSUME FilterInv, NEW id \in MsgId, Filter!Decimated(id)
  PROVE  /\ FilterInv'
         /\ \A a \in Filter!Apids : skipped'[a] > skipped[a] => skipped'[a] < decimationRate_[a]
  <1> DEFINE b == Filter!Apid(id)  c == decimationCounter_[b]  r == decimationRate_[b]  k == skipped[b]
  <1>1. Filter!TypeOK /\ b \in Filter!Apids /\ CounterSize \in Nat /\ CounterSize > 0
    BY FilterAssumed DEF FilterInv
  <1>2. UNCHANGED <<allowedList_, ackAllowedList_, named, whole, decimationRate_>>
    BY DEF Filter!Decimated, Filter!switches, Filter!decimation
  <1>3. Filter!AllowedAsTold'
    BY <1>2 DEF FilterInv, Filter!AllowedAsTold
  <1>4. /\ c \in Nat /\ c < CounterSize /\ r \in Nat /\ k \in Nat
        /\ decimationCounter_ \in [Filter!Apids -> 0..(CounterSize - 1)]
        /\ decimationRate_ \in [Filter!Apids -> Nat] /\ skipped \in [Filter!Apids -> Nat]
    BY <1>1 DEF Filter!TypeOK
  <1>5. CASE r = 0
    <2>1. UNCHANGED <<decimationCounter_, skipped>>
      BY <1>5 DEF Filter!Decimated, Filter!decimation
    <2>2. Filter!TypeOK' /\ HeldBack'
      BY <1>2, <2>1 DEF FilterInv, Filter!TypeOK, HeldBack
    <2>3. \A a \in Filter!Apids : ~(skipped'[a] > skipped[a])
      BY <1>4, <2>1
    <2> QED
      BY <1>3, <2>2, <2>3 DEF FilterInv
  <1>6. CASE r > 0
    <2>1. /\ skipped' = [skipped EXCEPT ![b] = IF c % r = 0 THEN 0 ELSE @ + 1]
          /\ decimationCounter_' = [decimationCounter_ EXCEPT ![b] = (@ + 1) % CounterSize]
      BY <1>4, <1>6 DEF Filter!Decimated
    <2>2. (c + 1) % CounterSize \in 0..(CounterSize - 1)
      BY <1>1, <1>4, RemainderFacts
    <2>3. \A a \in Filter!Apids :
            /\ skipped'[a] = IF a = b THEN IF c % r = 0 THEN 0 ELSE k + 1 ELSE skipped[a]
            /\ decimationCounter_'[a] = IF a = b THEN (c + 1) % CounterSize ELSE decimationCounter_[a]
      BY <1>1, <1>4, <2>1
    <2>4. Filter!TypeOK'
      <3>1. decimationCounter_' \in [Filter!Apids -> 0..(CounterSize - 1)]
        BY <1>4, <2>1, <2>2
      <3>2. skipped' \in [Filter!Apids -> Nat]
        <4>1. (IF c % r = 0 THEN 0 ELSE k + 1) \in Nat
          BY <1>4
        <4>2. skipped' = [skipped EXCEPT ![b] = IF c % r = 0 THEN 0 ELSE k + 1]
          BY <2>1
        <4> HIDE DEF b, c, r, k
        <4> QED
          BY <1>4, <4>1, <4>2
      <3> QED
        BY <1>1, <1>2, <3>1, <3>2 DEF Filter!TypeOK
    <2>5. c % r \in 0..(r - 1) /\ (c % r # 0 => c > 0 /\ k <= (c % r) - 1)
      <3>1. c % r \in 0..(r - 1) /\ 0 % r = 0
        BY <1>4, <1>6, RemainderFacts
      <3>2. c % r # 0 => c > 0
        BY <1>4, <3>1
      <3>3. c > 0 => k <= (c - 1) % r
        BY <1>1, <1>6 DEF FilterInv, HeldBack
      <3>4. c % r # 0 => (c - 1) % r = (c % r) - 1
        BY <1>4, <1>6, <3>2, RemainderBefore
      <3> QED
        BY <3>1, <3>2, <3>3, <3>4
    <2>6. (c + 1) % CounterSize > 0 => (c + 1) % CounterSize = c + 1
      <3>1. CASE c + 1 < CounterSize
        BY <1>1, <1>4, <3>1, RemainderFacts
      <3>2. CASE c + 1 = CounterSize
        BY <1>1, <1>4, <3>2
      <3> QED
        BY <1>1, <1>4, <3>1, <3>2
    <2> HIDE DEF b, c, r, k
    <2>7. skipped'[b] <= c % r
      BY <1>1, <1>4, <2>3, <2>5
    <2>8. HeldBack'
      <3> SUFFICES ASSUME NEW a \in Filter!Apids, decimationRate_[a] > 0, decimationCounter_'[a] > 0
                   PROVE  skipped'[a] <= (decimationCounter_'[a] - 1) % decimationRate_[a]
        BY <1>2 DEF HeldBack
      <3>1. CASE a = b
        <4>1. decimationCounter_'[a] - 1 = c
          BY <1>4, <2>3, <2>6, <3>1
        <4>2. decimationRate_[a] = r
          BY <3>1 DEF r
        <4> QED
          BY <2>7, <3>1, <4>1, <4>2
      <3>2. CASE a # b
        BY <2>3, <3>2 DEF FilterInv, HeldBack
      <3> QED
        BY <3>1, <3>2
    <2>9. \A a \in Filter!Apids : skipped'[a] > skipped[a] => skipped'[a] < decimationRate_[a]
      <3> SUFFICES ASSUME NEW a \in Filter!Apids, skipped'[a] > skipped[a]
                   PROVE  skipped'[a] < decimationRate_[a]
        OBVIOUS
      <3>1. a = b
        BY <1>4, <2>3
      <3>2. decimationRate_[a] = r /\ c % r < r /\ skipped'[a] \in Nat
        BY <1>4, <2>3, <2>5, <3>1 DEF r
      <3> QED
        BY <1>4, <2>5, <2>7, <3>1, <3>2
    <2> QED
      BY <1>3, <2>4, <2>8, <2>9 DEF FilterInv
  <1> QED
    BY <1>4, <1>5, <1>6

LEMMA FilterStepInv ==
  ASSUME FilterInv, [Filter!Next]_(Filter!vars)
  PROVE  /\ FilterInv'
         /\ \A a \in Filter!Apids : skipped'[a] > skipped[a] => skipped'[a] < decimationRate_[a]
  <1>1. \A a \in Filter!Apids : ~(skipped[a] > skipped[a])
    BY DEF FilterInv, Filter!TypeOK
  <1>2. ASSUME NEW f \in File, Filter!FromJson(f)
        PROVE  FilterInv' /\ skipped' = skipped
    BY <1>2, FromJsonInv DEF Filter!FromJson
  <1>3. ASSUME NEW id \in MsgId, Filter!Decimated(id)
        PROVE  /\ FilterInv'
               /\ \A a \in Filter!Apids : skipped'[a] > skipped[a] => skipped'[a] < decimationRate_[a]
    BY <1>3, DecimatedInv
  <1> QED
    BY <1>1, <1>2, <1>3, CommandInv DEF Filter!Next

(* PacketFilter: the messages that pass are those the tables were told to  *)
(* let pass, and no more of an apid are held back in a row than its rate   *)
(* says, whatever counters the memory held and whatever is changed between *)
(* two messages.                                                           *)
THEOREM FilterDoesAsTold == CppBaseSpec => FilterAsTold
  <1>1. CppBaseInit => FilterInv
    BY FilterStart DEF CppBaseInit
  <1>2. FilterInv /\ [CppBaseNext]_all => FilterInv'
    BY StepOfEach, FilterStepInv
  <1>3. FilterInv => Filter!AllowedAsTold
    BY DEF FilterInv
  <1>4. FilterInv /\ [CppBaseNext]_all =>
          [\A a \in Filter!Apids :
             skipped'[a] > skipped[a] => skipped'[a] < decimationRate_[a]]_(Filter!vars)
    BY StepOfEach, FilterStepInv
  <1> QED
    BY <1>1, <1>2, <1>3, <1>4, PTL DEF CppBaseSpec, FilterAsTold, Filter!HeldBackBounded

-----------------------------------------------------------------------------
(* The types of the applications that wake by themselves.                  *)
LEMMA FrameTypes ==
  /\ Frame!Init => Frame!TypeOK
  /\ Frame!TypeOK /\ [Frame!Next]_(Frame!vars) => Frame!TypeOK'
  <1>1. Frame!Init => Frame!TypeOK
    BY DEF Frame!Init, Frame!TypeOK
  <1>2. ASSUME Frame!TypeOK, [Frame!Next]_(Frame!vars) PROVE Frame!TypeOK'
    <2> USE DEF Frame!TypeOK
    <2>1. CASE UNCHANGED Frame!vars
      BY <1>2, <2>1 DEF Frame!vars
    <2>2. CASE Frame!Register \/ Frame!Initialize \/ Frame!Loop \/ Frame!Shutdown
      BY <1>2, <2>2 DEF Frame!Register, Frame!Initialize, Frame!Loop, Frame!Shutdown
    <2>3. CASE Frame!Stop \/ Frame!Tone \/ Frame!AskStop
      BY <1>2, <2>3 DEF Frame!Stop, Frame!Tone, Frame!AskStop
    <2> QED
      BY <1>2, <2>1, <2>2, <2>3 DEF Frame!Next, Frame!Execute
  <1> QED
    BY <1>1, <1>2

(* SubProcess: at most one child runs untold, every descriptor is one of a *)
(* pair its owner knows, and no program that was started can get rights    *)
(* back; with the types of all classes.                                    *)
THEOREM ChildrenAlwaysAccounted == CppBaseSpec => []ChildrenAccounted
  <1>1. CppBaseInit => Frame!TypeOK /\ FilterInv /\ StatesInv
    BY FrameTypes, FilterStart, StatesStart DEF CppBaseInit
  <1>2. Frame!TypeOK /\ FilterInv /\ StatesInv /\ [CppBaseNext]_all
          => (Frame!TypeOK /\ FilterInv /\ StatesInv)'
    BY StepOfEach, FrameTypes, FilterStepInv, StatesStepInv
  <1>3. Frame!TypeOK /\ FilterInv /\ StatesInv /\ AppInv /\ ProcessInv => CppBaseTypeOK
    BY DEF FilterInv, StatesInv, AppInv, ProcessInv, CppBaseTypeOK
  <1>4. ProcessInv => Process!PipesAccounted /\ Process!ChildrenUnprivileged
    BY DEF ProcessInv
  <1>5. ProcessInv => Process!OneUnlessTold
    BY DEF ProcessInv, UntoldIsOpen, Process!OneUnlessTold
  <1>6. Frame!TypeOK /\ FilterInv /\ StatesInv /\ AppInv /\ ProcessInv => ChildrenAccounted
    BY <1>3, <1>4, <1>5 DEF ChildrenAccounted
  <1> QED
    BY <1>1, <1>2, <1>6, AppAlways, ProcessAlways, PTL DEF CppBaseSpec

-----------------------------------------------------------------------------
(* The packetizer.  Bytes s are what contact c has behind its first a.     *)
View(c, s, a) ==
  /\ s \in Seq(Byte) /\ a \in Nat /\ a + Len(s) <= Len(c.bytes)
  /\ \A j \in 1..Len(s) : s[j] = c.bytes[a + j]

LEMMA OccursByByte ==
  ASSUME NEW s \in Seq(Byte), NEW p \in Seq(Byte), NEW k \in Nat
  PROVE  OccursAt(s, p, k) <=> k + Len(p) <= Len(s) /\ \A i \in 1..Len(p) : s[k + i] = p[i]
  <1> DEFINE w == SubSeq(s, k + 1, k + Len(p))
  <1>1. Len(p) \in Nat /\ Len(s) \in Nat
    OBVIOUS
  <1>2. ASSUME k + Len(p) <= Len(s)
        PROVE  w \in Seq(Byte) /\ Len(w) = Len(p) /\ \A i \in 1..Len(p) : w[i] = s[k + i]
    BY <1>1, <1>2
  <1>3. ASSUME k + Len(p) <= Len(s)
        PROVE  w = p <=> \A i \in 1..Len(p) : w[i] = p[i]
    <2>1. w \in Seq(Byte) /\ Len(w) = Len(p)
      BY <1>2, <1>3
    <2> HIDE DEF w
    <2> QED
      BY <2>1
  <1> QED
    BY <1>2, <1>3 DEF OccursAt

LEMMA ViewOccurs ==
  ASSUME NEW c, c.bytes \in Seq(Byte), NEW s, NEW a, View(c, s, a), NEW k \in Nat, k + Len(Sync) <= Len(s)
  PROVE  OccursAt(s, Sync, k) <=> SyncAt(c, a + k)
  <1>1. Sync \in Seq(Byte) /\ Len(Sync) \in Nat \ {0}
    BY PacketizerAssumption DEF PacketizerAssumption
  <1>2. s \in Seq(Byte) /\ a \in Nat /\ a + k \in Nat /\ Len(s) \in Nat /\ Len(c.bytes) \in Nat
        /\ a + Len(s) <= Len(c.bytes)
    BY DEF View
  <1>3. OccursAt(s, Sync, k) <=> \A i \in 1..Len(Sync) : s[k + i] = Sync[i]
    BY <1>1, <1>2, OccursByByte
  <1>4. SyncAt(c, a + k) <=> \A i \in 1..Len(Sync) : c.bytes[a + k + i] = Sync[i]
    <2>1. a + k + Len(Sync) <= Len(c.bytes)
      BY <1>1, <1>2
    <2> QED
      BY <1>1, <1>2, <2>1, OccursByByte DEF SyncAt
  <1>5. ASSUME NEW i \in 1..Len(Sync)
        PROVE  s[k + i] = c.bytes[a + k + i]
    <2>1. k + i \in 1..Len(s) /\ a + (k + i) = a + k + i
      BY <1>1, <1>2
    <2> QED
      BY <2>1 DEF View
  <1> QED
    BY <1>3, <1>4, <1>5

LEMMA ViewDrop ==
  ASSUME NEW c, c.bytes \in Seq(Byte), NEW s, NEW a, View(c, s, a), NEW n \in Nat, n <= Len(s)
  PROVE  View(c, DropFirst(s, n), a + n) /\ Len(DropFirst(s, n)) = Len(s) - n
  <1>1. s \in Seq(Byte) /\ a \in Nat /\ Len(s) \in Nat /\ Len(c.bytes) \in Nat
    BY DEF View
  <1>2. /\ DropFirst(s, n) \in Seq(Byte) /\ Len(DropFirst(s, n)) = Len(s) - n
        /\ \A j \in 1..(Len(s) - n) : DropFirst(s, n)[j] = s[n + j]
    BY <1>1 DEF DropFirst
  <1>3. ASSUME NEW j \in 1..(Len(s) - n)
        PROVE  s[n + j] = c.bytes[a + n + j]
    <2>1. n + j \in 1..Len(s) /\ a + (n + j) = a + n + j
      BY <1>1
    <2> QED
      BY <2>1 DEF View
  <1> QED
    BY <1>1, <1>2, <1>3 DEF View

Front(s, n)    == SubSeq(s, 1, n)
Span(c, a, n)  == SubSeq(c.bytes, a + 1, a + n)

LEMMA ViewPrefix ==
  ASSUME NEW c, c.bytes \in Seq(Byte), NEW s, NEW a, View(c, s, a), NEW n \in Nat, n <= Len(s)
  PROVE  Front(s, n) = Span(c, a, n)
  <1> DEFINE p == SubSeq(s, 1, n)
             q == SubSeq(c.bytes, a + 1, a + n)
  <1>1. s \in Seq(Byte) /\ a \in Nat /\ Len(s) \in Nat /\ Len(c.bytes) \in Nat /\ a + Len(s) <= Len(c.bytes)
        /\ \A j \in 1..Len(s) : s[j] = c.bytes[a + j]
    BY DEF View
  <1>2. p \in Seq(Byte) /\ Len(p) = n /\ \A j \in 1..n : p[j] = s[j]
    BY <1>1
  <1>3. q \in Seq(Byte) /\ Len(q) = n /\ \A j \in 1..n : q[j] = c.bytes[a + j]
    BY <1>1
  <1>4. \A j \in 1..n : p[j] = q[j]
    BY <1>1, <1>2, <1>3
  <1> HIDE DEF p, q
  <1>5. p = q
    BY <1>2, <1>3, <1>4
  <1> QED
    BY <1>5 DEF p, q, Front, Span

LEMMA ViewGrows ==
  ASSUME NEW c, c.bytes \in Seq(Byte), NEW s, NEW a, View(c, s, a),
         NEW w, View(c, w, a + Len(s)), NEW n \in Nat, n <= Len(w)
  PROVE  View(c, s \o SubSeq(w, 1, n), a) /\ Len(s \o SubSeq(w, 1, n)) = Len(s) + n
  <1> DEFINE p == SubSeq(w, 1, n)
             q == s \o p
  <1>1. s \in Seq(Byte) /\ w \in Seq(Byte) /\ a \in Nat /\ Len(s) \in Nat /\ Len(w) \in Nat
        /\ Len(c.bytes) \in Nat /\ a + Len(s) + Len(w) <= Len(c.bytes)
        /\ (\A j \in 1..Len(s) : s[j] = c.bytes[a + j])
        /\ (\A j \in 1..Len(w) : w[j] = c.bytes[a + Len(s) + j])
    BY DEF View
  <1>2. p \in Seq(Byte) /\ Len(p) = n /\ \A j \in 1..n : p[j] = w[j]
    BY <1>1
  <1> HIDE DEF p
  <1>3. q \in Seq(Byte) /\ Len(q) = Len(s) + n
        /\ (\A j \in 1..Len(s) : q[j] = s[j]) /\ \A j \in 1..n : q[Len(s) + j] = p[j]
    BY <1>1, <1>2
  <1> HIDE DEF q
  <1>4. ASSUME NEW j \in 1..(Len(s) + n)
        PROVE  q[j] = c.bytes[a + j]
    <2>1. CASE j <= Len(s)
      <3>1. j \in 1..Len(s)
        BY <1>1, <2>1
      <3> QED
        BY <1>1, <1>3, <3>1
    <2>2. CASE j > Len(s)
      <3>1. PICK i \in 1..n : j = Len(s) + i
        <4>1. j - Len(s) \in 1..n /\ j = Len(s) + (j - Len(s))
          BY <1>1, <2>2
        <4> QED
          BY <4>1
      <3>2. i \in 1..Len(w) /\ a + Len(s) + i = a + j
        BY <1>1, <3>1
      <3>3. q[j] = w[i] /\ w[i] = c.bytes[a + Len(s) + i]
        BY <1>1, <1>2, <1>3, <3>1, <3>2
      <3> QED
        BY <3>2, <3>3
    <2> QED
      BY <1>1, <2>1, <2>2
  <1>5. View(c, q, a) /\ Len(q) = Len(s) + n
    <2>1. a + Len(q) <= Len(c.bytes)
      BY <1>1, <1>3
    <2>2. \A j \in 1..Len(q) : q[j] = c.bytes[a + j]
      BY <1>3, <1>4
    <2> QED
      BY <1>1, <1>3, <2>1, <2>2 DEF View
  <1> QED
    BY <1>5 DEF p, q

(* A sync word that begins in a store which does not end in one, and not   *)
(* in the beginning of one, ends before the store does.                    *)
LEMMA SyncIsInside ==
  ASSUME NEW c, c.bytes \in Seq(Byte), NEW s, NEW a, View(c, s, a), ~EndsInSync(s),
         NEW k \in Nat, k < Len(s), SyncAt(c, a + k)
  PROVE  k + Len(Sync) < Len(s)
  <1>1. Sync \in Seq(Byte) /\ Len(Sync) \in Nat \ {0}
    BY PacketizerAssumption DEF PacketizerAssumption
  <1>2. s \in Seq(Byte) /\ a \in Nat /\ Len(s) \in Nat /\ Len(c.bytes) \in Nat
        /\ a + Len(s) <= Len(c.bytes) /\ \A j \in 1..Len(s) : s[j] = c.bytes[a + j]
    BY DEF View
  <1>3. \A i \in 1..Len(Sync) : c.bytes[a + k + i] = Sync[i]
    BY <1>1, <1>2, OccursByByte DEF SyncAt
  <1>4. ASSUME k + Len(Sync) >= Len(s)
        PROVE  FALSE
    <2> DEFINE m == Len(s) - k
               p == SubSeq(Sync, 1, m)
    <2>1. m \in 1..Len(Sync) /\ Len(s) >= m /\ Len(s) - m = k
      BY <1>1, <1>2, <1>4
    <2> HIDE DEF m
    <2>2. p \in Seq(Byte) /\ Len(p) = m /\ \A i \in 1..m : p[i] = Sync[i]
      BY <1>1, <2>1
    <2>3. ~OccursAt(s, p, k)
      BY <2>1 DEF EndsInSync
    <2> HIDE DEF p
    <2>4. PICK i \in 1..m : s[k + i] # p[i]
      <3>1. k + Len(p) <= Len(s)
        BY <1>1, <1>2, <2>1, <2>2
      <3> QED
        BY <1>2, <2>2, <2>3, <3>1, OccursByByte
    <2>5. k + i \in 1..Len(s) /\ a + (k + i) = a + k + i /\ i \in 1..Len(Sync)
      BY <1>1, <1>2, <2>1
    <2> QED
      BY <1>2, <1>3, <2>2, <2>4, <2>5
  <1> QED
    BY <1>1, <1>2, <1>4

LEMMA SuffixEndsSame ==
  ASSUME NEW s \in Seq(Byte), NEW n \in Nat, n <= Len(s), EndsInSync(DropFirst(s, n))
  PROVE  EndsInSync(s)
  <1> DEFINE d == DropFirst(s, n)
  <1>1. Sync \in Seq(Byte) /\ Len(Sync) \in Nat \ {0}
    BY PacketizerAssumption DEF PacketizerAssumption
  <1>2. d \in Seq(Byte) /\ Len(d) = Len(s) - n /\ Len(s) \in Nat /\ \A j \in 1..Len(d) : d[j] = s[n + j]
    BY DEF DropFirst
  <1> HIDE DEF d
  <1>3. PICK m \in 1..Len(Sync) : Len(d) >= m /\ OccursAt(d, SubSeq(Sync, 1, m), Len(d) - m)
    BY DEF EndsInSync, d
  <1> DEFINE p == SubSeq(Sync, 1, m)
  <1>4. p \in Seq(Byte) /\ Len(p) = m
    BY <1>1
  <1> HIDE DEF p
  <1>5. Len(d) - m \in Nat /\ Len(s) - m \in Nat /\ m \in Nat
    BY <1>1, <1>2, <1>3
  <1>6. \A i \in 1..m : d[Len(d) - m + i] = p[i]
    <2>1. OccursAt(d, p, Len(d) - m)
      BY <1>3 DEF p
    <2> QED
      BY <1>2, <1>4, <1>5, <2>1, OccursByByte
  <1>7. ASSUME NEW i \in 1..m
        PROVE  s[Len(s) - m + i] = p[i]
    <2>1. Len(d) - m + i \in 1..Len(d) /\ n + (Len(d) - m + i) = Len(s) - m + i
      BY <1>2, <1>3, <1>5
    <2> QED
      BY <1>2, <1>6, <2>1
  <1>8. OccursAt(s, p, Len(s) - m)
    <2>1. Len(s) - m + Len(p) <= Len(s)
      BY <1>2, <1>4, <1>5
    <2> QED
      BY <1>4, <1>5, <1>7, <2>1, OccursByByte
  <1> QED
    BY <1>2, <1>3, <1>5, <1>8 DEF EndsInSync, p

LEMMA LeastOffset ==
  ASSUME NEW T \in SUBSET Nat, T # {}
  PROVE  \E m \in T : \A i \in T : m <= i
  <1> DEFINE R == OpToRel(<, Nat)
  <1>1. IsWellFoundedOn(R, Nat)
    BY NatLessThanWellFounded
  <1>2. \A i, m \in Nat : i < m => <<i, m>> \in R
    BY DEF OpToRel
  <1> HIDE DEF R
  <1>3. PICK m \in T : \A i \in T : ~(<<i, m>> \in R)
    BY <1>1, WFMin
  <1>4. ASSUME NEW i \in T
        PROVE  m <= i
    <2>1. i \in Nat /\ m \in Nat /\ ~(i < m)
      BY <1>2, <1>3
    <2> QED
      BY <2>1
  <1> QED
    BY <1>4

(* find_pattern() never sees the last alignment; without a sync word it    *)
(* leaves one byte more than a sync word has.                              *)
LEMMA FindSyncFinds ==
  ASSUME NEW s \in Seq(Byte)
  PROVE  /\ FindSync(s).found \in BOOLEAN
         /\ FindSync(s).at \in Nat /\ FindSync(s).at <= Len(s)
         /\ FindSync(s).found =>
              /\ FindSync(s).at + Len(Sync) < Len(s) /\ OccursAt(s, Sync, FindSync(s).at)
              /\ \A j \in 0..(FindSync(s).at - 1) : ~OccursAt(s, Sync, j)
         /\ ~FindSync(s).found =>
              /\ \A j \in Nat : j + Len(Sync) < Len(s) => ~OccursAt(s, Sync, j)
              /\ Len(s) - FindSync(s).at <= Len(Sync) + 1
  <1> DEFINE stop == Len(s) - Len(Sync)
             hits == {k \in 0..(stop - 1) : OccursAt(s, Sync, k)}
  <1>1. Len(Sync) \in Nat \ {0} /\ Len(s) \in Nat /\ stop \in Int
    BY PacketizerAssumption DEF PacketizerAssumption
  <1>2. FindSync(s) = IF hits # {}
                      THEN [found |-> TRUE, at |-> CHOOSE k \in hits : \A j \in hits : k <= j]
                      ELSE [found |-> FALSE, at |-> IF stop > 1 THEN stop - 1 ELSE 0]
    BY DEF FindSync
  <1>3. hits \in SUBSET Nat /\ \A k : k \in hits <=> k \in Nat /\ k + Len(Sync) < Len(s) /\ OccursAt(s, Sync, k)
    BY <1>1
  <1> HIDE DEF hits
  <1>4. CASE hits # {}
    <2> DEFINE m == CHOOSE k \in hits : \A j \in hits : k <= j
    <2>1. m \in hits /\ \A j \in hits : m <= j
      BY <1>3, <1>4, LeastOffset
    <2>2. FindSync(s).found = TRUE /\ FindSync(s).at = m
      BY <1>2, <1>4
    <2> HIDE DEF m
    <2>3. ASSUME NEW j \in 0..(m - 1), OccursAt(s, Sync, j)
          PROVE  FALSE
      <3>1. j \in hits
        BY <1>1, <1>3, <2>1, <2>3
      <3> QED
        BY <1>3, <2>1, <2>3, <3>1
    <2>4. m \in Nat /\ m + Len(Sync) < Len(s) /\ OccursAt(s, Sync, m)
      BY <1>3, <2>1
    <2>5. m <= Len(s)
      BY <1>1, <2>4
    <2> QED
      BY <2>2, <2>3, <2>4, <2>5
  <1>5. CASE hits = {}
    <2>1. FindSync(s).found = FALSE /\ FindSync(s).at = IF stop > 1 THEN stop - 1 ELSE 0
      BY <1>2, <1>5
    <2>2. FindSync(s).at \in Nat /\ FindSync(s).at <= Len(s) /\ Len(s) - FindSync(s).at <= Len(Sync) + 1
      <3>1. CASE stop > 1
        <4>1. FindSync(s).at = Len(s) - Len(Sync) - 1
          BY <1>1, <2>1, <3>1
        <4> QED
          BY <1>1, <3>1, <4>1
      <3>2. CASE ~(stop > 1)
        <4>1. FindSync(s).at = 0
          BY <2>1, <3>2
        <4> QED
          BY <1>1, <3>2, <4>1
      <3> QED
        BY <3>1, <3>2
    <2>3. \A j \in Nat : j + Len(Sync) < Len(s) => ~OccursAt(s, Sync, j)
      BY <1>3, <1>5
    <2> QED
      BY <2>1, <2>2, <2>3
  <1> QED
    BY <1>4, <1>5

LEMMA SearchInContact ==
  ASSUME NEW c, c.bytes \in Seq(Byte), NEW s, NEW a, View(c, s, a), ~EndsInSync(s)
  PROVE  /\ FindSync(s).found =>
              SyncAt(c, a + FindSync(s).at) /\ \A j \in 0..(FindSync(s).at - 1) : ~SyncAt(c, a + j)
         /\ ~FindSync(s).found => \A j \in Nat : j < Len(s) => ~SyncAt(c, a + j)
  <1>1. s \in Seq(Byte) /\ a \in Nat /\ Len(s) \in Nat /\ Len(Sync) \in Nat \ {0}
    BY PacketizerAssumption DEF View, PacketizerAssumption
  <1> DEFINE k == FindSync(s).at
  <1>2. k \in Nat /\ FindSync(s).found =>
          k + Len(Sync) < Len(s) /\ OccursAt(s, Sync, k) /\ \A j \in 0..(k - 1) : ~OccursAt(s, Sync, j)
    BY <1>1, FindSyncFinds
  <1>3. ~FindSync(s).found => \A j \in Nat : j + Len(Sync) < Len(s) => ~OccursAt(s, Sync, j)
    BY <1>1, FindSyncFinds
  <1>4. k \in Nat
    BY <1>1, FindSyncFinds
  <1> HIDE DEF k
  <1>5. ASSUME FindSync(s).found
        PROVE  SyncAt(c, a + k) /\ \A j \in 0..(k - 1) : ~SyncAt(c, a + j)
    <2>1. k + Len(Sync) <= Len(s)
      BY <1>1, <1>2, <1>4, <1>5
    <2>2. SyncAt(c, a + k)
      BY <1>2, <1>4, <1>5, <2>1, ViewOccurs
    <2>3. ASSUME NEW j \in 0..(k - 1)
          PROVE  ~SyncAt(c, a + j)
      <3>1. j \in Nat /\ j + Len(Sync) <= Len(s)
        BY <1>1, <1>4, <2>1
      <3>2. ~OccursAt(s, Sync, j)
        BY <1>2, <1>4, <1>5
      <3> QED
        BY <3>1, <3>2, ViewOccurs
    <2> QED
      BY <2>2, <2>3
  <1>6. ASSUME ~FindSync(s).found, NEW j \in Nat, j < Len(s), SyncAt(c, a + j)
        PROVE  FALSE
    <2>1. j + Len(Sync) < Len(s)
      BY <1>6, SyncIsInside
    <2>2. j + Len(Sync) <= Len(s)
      BY <1>1, <2>1
    <2> QED
      BY <1>3, <1>6, <2>1, <2>2, ViewOccurs
  <1> QED
    BY <1>5, <1>6 DEF k

LEMMA SyncWithinContact ==
  ASSUME NEW c, c.bytes \in Seq(Byte), NEW s, NEW a, View(c, s, a), ~EndsInSync(s), NEW n \in Nat
  PROVE  /\ SyncWithin(s, n) => \E j \in 0..(n - 1) : SyncAt(c, a + j)
         /\ ~SyncWithin(s, n) => \A j \in Nat : j < n /\ j < Len(s) => ~SyncAt(c, a + j)
  <1>1. s \in Seq(Byte) /\ FindSync(s).at \in Nat
    BY FindSyncFinds DEF View
  <1>2. SyncWithin(s, n) <=> FindSync(s).found /\ FindSync(s).at < n
    BY DEF SyncWithin
  <1> QED
    BY <1>1, <1>2, SearchInContact

-----------------------------------------------------------------------------
(* Types, and the flags at rest.                                           *)
FlagsFit ==
  /\ syncFound \in BOOLEAN /\ headerRdy \in BOOLEAN /\ packetRdy \in BOOLEAN
  /\ (packetRdy => headerRdy) /\ (headerRdy => syncFound)

PacketizerTypes ==
  /\ FlagsFit
  /\ buffer \in Seq(Byte) /\ Len(buffer) <= BufferLen /\ packet \in Seq(Byte)
  /\ caller \in {"ready", "scanning", "null", "packet", "overrun"}
  /\ headerRdy => Len(packet) >= HeaderLen
  /\ packetRdy => Len(packet) = HeaderLen + PayloadLength(SubSeq(packet, 1, HeaderLen))
  /\ contact \in Contacts \cup LaterContacts
  /\ wire \in Seq(Byte) /\ delivered \in Seq(Seq(Byte))
  /\ packetRdy <=> caller \in {"packet", "overrun"}
  /\ caller = "overrun" => Len(packet) > PacketMaxLen

LEMMA ContactsAreBytes ==
  ASSUME PacketizerTypes
  PROVE  /\ contact.bytes \in Seq(Byte) /\ Len(contact.bytes) \in Nat
         /\ Len(contact.whole) \in Nat
         /\ \A i \in 1..Len(contact.whole) : contact.whole[i].from \in Nat \ {0} /\ contact.whole[i].to \in Nat
  BY PacketizerAssumption DEF PacketizerAssumption, PacketizerTypes

LEMMA TypesAreOK == PacketizerTypes => PacketizerTypeOK
  <1>1. FlagsFit => <<syncFound, headerRdy, packetRdy>> \in
          {<<FALSE, FALSE, FALSE>>, <<TRUE, FALSE, FALSE>>, <<TRUE, TRUE, FALSE>>, <<TRUE, TRUE, TRUE>>}
    BY DEF FlagsFit
  <1> QED
    BY <1>1 DEF PacketizerTypes, PacketizerTypeOK

(* What one pass of packetize() does, with the store behind the sync word. *)
Located == IF syncFound THEN [found |-> TRUE, rest |-> buffer] ELSE LocateSync(buffer)

LEMMA LocatedIsSuffix ==
  ASSUME buffer \in Seq(Byte)
  PROVE  \E n \in Nat : n <= Len(buffer) /\ Located.rest = DropFirst(buffer, n)
                        /\ (syncFound => n = 0 /\ Located.rest = buffer)
                        /\ (~syncFound => n = FindSync(buffer).at + IF Located.found THEN Len(Sync) ELSE 0)
                        /\ (~syncFound => Located.found = FindSync(buffer).found)
  <1>1. Len(buffer) \in Nat /\ Len(Sync) \in Nat \ {0}
    BY PacketizerAssumption DEF PacketizerAssumption
  <1>2. CASE syncFound
    <2>1. Located.rest = buffer /\ DropFirst(buffer, 0) = buffer
      BY <1>2 DEF Located, DropFirst
    <2> QED
      BY <1>1, <1>2, <2>1
  <1>3. CASE ~syncFound
    <2> DEFINE n == FindSync(buffer).at + IF FindSync(buffer).found THEN Len(Sync) ELSE 0
    <2>1. Located.found = FindSync(buffer).found /\ Located.rest = DropFirst(buffer, n)
      BY <1>3 DEF Located, LocateSync
    <2>2. n \in Nat /\ n <= Len(buffer)
      BY <1>1, FindSyncFinds
    <2> QED
      BY <1>3, <2>1, <2>2
  <1> QED
    BY <1>2, <1>3

(* A header h and the store t behind it, for unpackMessage().              *)
Taken(h, t) ==
  \/ headerRdy /\ h = SubSeq(packet, 1, HeaderLen) /\ t = buffer
  \/ /\ ~headerRdy /\ Located.found /\ HeaderLen <= Len(Located.rest)
     /\ ~SyncWithin(Located.rest, HeaderLen)
     /\ h = SubSeq(Located.rest, 1, HeaderLen) /\ t = DropFirst(Located.rest, HeaderLen)

Missed ==
  /\ ~headerRdy /\ ~Located.found
  /\ buffer' = Located.rest /\ caller' = "null"
  /\ packet' = packet /\ syncFound' = syncFound /\ headerRdy' = FALSE /\ packetRdy' = FALSE

ShortHeader ==
  /\ ~headerRdy /\ Located.found /\ Len(Located.rest) < HeaderLen
  /\ buffer' = Located.rest /\ caller' = "null"
  /\ packet' = packet /\ syncFound' = TRUE /\ headerRdy' = FALSE /\ packetRdy' = FALSE

CutHeader ==
  /\ ~headerRdy /\ Located.found /\ HeaderLen <= Len(Located.rest) /\ SyncWithin(Located.rest, HeaderLen)
  /\ buffer' = Located.rest /\ caller' = "scanning"
  /\ packet' = packet /\ syncFound' = FALSE /\ headerRdy' = FALSE /\ packetRdy' = FALSE

CutMessage(h, t) ==
  /\ SyncWithin(t, PayloadLength(h))
  /\ buffer' = t /\ caller' = "scanning"
  /\ packet' = h /\ syncFound' = FALSE /\ headerRdy' = FALSE /\ packetRdy' = FALSE

WholeMessage(h, t) ==
  /\ ~SyncWithin(t, PayloadLength(h)) /\ PayloadLength(h) <= Len(t)
  /\ buffer' = DropFirst(t, PayloadLength(h))
  /\ caller' = IF HeaderLen + PayloadLength(h) <= PacketMaxLen THEN "packet" ELSE "overrun"
  /\ packet' = h \o SubSeq(t, 1, PayloadLength(h))
  /\ syncFound' = TRUE /\ headerRdy' = TRUE /\ packetRdy' = TRUE

ShortMessage(h, t) ==
  /\ ~SyncWithin(t, PayloadLength(h)) /\ PayloadLength(h) > Len(t)
  /\ buffer' = t /\ caller' = "null"
  /\ packet' = h /\ syncFound' = TRUE /\ headerRdy' = TRUE /\ packetRdy' = FALSE

LEMMA PacketizeCases ==
  ASSUME PacketizerTypes, Packetize
  PROVE  /\ caller = "scanning" /\ ~packetRdy
         /\ UNCHANGED <<contact, wire, clears, delivered, edge, refused>>
         /\ \/ Missed \/ ShortHeader \/ CutHeader
            \/ \E h, t : Taken(h, t) /\ (CutMessage(h, t) \/ WholeMessage(h, t) \/ ShortMessage(h, t))
  <1> DEFINE s == Located.rest
  <1>1. caller = "scanning" /\ packetRdy = FALSE /\ headerRdy \in BOOLEAN
    BY DEF Packetize, PacketizerTypes, FlagsFit
  <1>2. UNCHANGED <<contact, wire, clears, delivered, edge, refused>>
    BY DEF Packetize, stream
  <1>3. \/ ~headerRdy /\ ~Located.found /\ buffer' = s /\ caller' = "null" /\ UNCHANGED <<packet, flags>>
        \/ ~headerRdy /\ Located.found /\ UnpackHeader(s)
        \/ /\ ~headerRdy /\ Located.found /\ HeaderLen <= Len(s) /\ ~SyncWithin(s, HeaderLen)
           /\ UnpackMessage(SubSeq(s, 1, HeaderLen), DropFirst(s, HeaderLen))
        \/ headerRdy /\ UnpackMessage(SubSeq(packet, 1, HeaderLen), buffer)
    BY <1>1 DEF Packetize, Located
  <1>4. ASSUME NEW h, NEW t, UnpackMessage(h, t)
        PROVE  CutMessage(h, t) \/ WholeMessage(h, t) \/ ShortMessage(h, t)
    BY <1>1, <1>4 DEF UnpackMessage, CutMessage, WholeMessage, ShortMessage
  <1>5. ASSUME ~headerRdy, Located.found, UnpackHeader(s)
        PROVE  ShortHeader \/ CutHeader
    BY <1>1, <1>5 DEF UnpackHeader, ShortHeader, CutHeader
  <1>6. CASE ~headerRdy /\ ~Located.found /\ buffer' = s /\ caller' = "null" /\ UNCHANGED <<packet, flags>>
    BY <1>1, <1>2, <1>6 DEF Missed, flags
  <1>7. CASE /\ ~headerRdy /\ Located.found /\ HeaderLen <= Len(s) /\ ~SyncWithin(s, HeaderLen)
             /\ UnpackMessage(SubSeq(s, 1, HeaderLen), DropFirst(s, HeaderLen))
    <2>1. Taken(SubSeq(s, 1, HeaderLen), DropFirst(s, HeaderLen))
      BY <1>7 DEF Taken
    <2> QED
      BY <1>1, <1>2, <1>4, <1>7, <2>1
  <1>8. CASE headerRdy /\ UnpackMessage(SubSeq(packet, 1, HeaderLen), buffer)
    <2>1. Taken(SubSeq(packet, 1, HeaderLen), buffer)
      BY <1>8 DEF Taken
    <2> QED
      BY <1>1, <1>2, <1>4, <1>8, <2>1
  <1> QED
    BY <1>1, <1>2, <1>3, <1>5, <1>6, <1>7, <1>8

LEMMA TakenTypes ==
  ASSUME PacketizerTypes, NEW h, NEW t, Taken(h, t)
  PROVE  /\ h \in Seq(Byte) /\ Len(h) = HeaderLen /\ SubSeq(h, 1, HeaderLen) = h
         /\ t \in Seq(Byte) /\ Len(t) <= Len(buffer)
         /\ TotalLength(h) \in 0..(SizeMod - 1)
         /\ PayloadLength(h) = (TotalLength(h) - HeaderLen) % SizeMod /\ PayloadLength(h) \in Nat
  <1>1. HeaderLen \in Nat \ {0} /\ SizeMod \in Nat \ {0}
        /\ \A g \in [1..HeaderLen -> Byte] : TotalLength(g) \in 0..(SizeMod - 1)
    BY PacketizerAssumption DEF PacketizerAssumption
  <1>2. buffer \in Seq(Byte) /\ packet \in Seq(Byte) /\ Len(buffer) \in Nat /\ (headerRdy => Len(packet) >= HeaderLen)
    BY DEF PacketizerTypes, PacketizerTypeOK
  <1>3. PICK n \in Nat : n <= Len(buffer) /\ Located.rest = DropFirst(buffer, n)
    BY <1>2, LocatedIsSuffix
  <1>4. Located.rest \in Seq(Byte) /\ Len(Located.rest) <= Len(buffer)
    BY <1>2, <1>3 DEF DropFirst
  <1>5. h \in Seq(Byte) /\ Len(h) = HeaderLen
    <2>1. CASE headerRdy
      BY <1>1, <1>2, <2>1 DEF Taken
    <2>2. CASE ~headerRdy
      BY <1>1, <1>4, <2>2 DEF Taken
    <2> QED
      BY <2>1, <2>2
  <1>6. t \in Seq(Byte) /\ Len(t) <= Len(buffer)
    <2>1. CASE headerRdy
      BY <1>2, <2>1 DEF Taken
    <2>2. CASE ~headerRdy
      <3>1. t = DropFirst(Located.rest, HeaderLen) /\ HeaderLen <= Len(Located.rest)
        BY <2>2 DEF Taken
      <3> QED
        BY <1>1, <1>2, <1>4, <3>1 DEF DropFirst
    <2> QED
      BY <2>1, <2>2
  <1>7. TotalLength(h) \in 0..(SizeMod - 1)
    <2>1. h \in [1..HeaderLen -> Byte]
      BY <1>5
    <2> QED
      BY <1>1, <2>1
  <1>8. PayloadLength(h) = (TotalLength(h) - HeaderLen) % SizeMod /\ PayloadLength(h) \in Nat
    BY <1>1, <1>7 DEF PayloadLength
  <1>9. SubSeq(h, 1, HeaderLen) = h
    BY <1>1, <1>5
  <1> QED
    BY <1>5, <1>6, <1>7, <1>8, <1>9

LEMMA ContactStarts ==
  ASSUME NEW c \in Contacts \cup LaterContacts
  PROVE  c.bytes \in Seq(Byte)
  BY PacketizerAssumption DEF PacketizerAssumption

LEMMA TypesStart == PacketizerInit => PacketizerTypes
  <1> SUFFICES ASSUME PacketizerInit PROVE PacketizerTypes
    OBVIOUS
  <1>1. FlagsFit
    BY DEF PacketizerInit, FlagsFit
  <1>2. contact \in Contacts \cup LaterContacts /\ wire \in Seq(Byte)
    BY ContactStarts DEF PacketizerInit
  <1>3. buffer \in Seq(Byte) /\ Len(buffer) = 0 /\ packet \in Seq(Byte) /\ delivered \in Seq(Seq(Byte))
    BY DEF PacketizerInit
  <1>4. BufferLen \in Nat
    BY PacketizerAssumption DEF PacketizerAssumption
  <1> QED
    BY <1>1, <1>2, <1>3, <1>4 DEF PacketizerTypes, PacketizerInit

LEMMA PacketizeTypes == PacketizerTypes /\ Packetize => PacketizerTypes'
  <1> SUFFICES ASSUME PacketizerTypes, Packetize PROVE PacketizerTypes'
    OBVIOUS
  <1>1. /\ FlagsFit /\ buffer \in Seq(Byte) /\ Len(buffer) <= BufferLen /\ packet \in Seq(Byte)
        /\ contact \in Contacts \cup LaterContacts /\ wire \in Seq(Byte) /\ delivered \in Seq(Seq(Byte))
    BY DEF PacketizerTypes
  <1>2. HeaderLen \in Nat \ {0} /\ BufferLen \in Nat /\ PacketMaxLen \in Nat
    BY PacketizerAssumption DEF PacketizerAssumption
  <1>3. UNCHANGED <<contact, wire, delivered>>
    BY PacketizeCases
  <1>4. Located.rest \in Seq(Byte) /\ Len(Located.rest) <= BufferLen
    <2>1. PICK n \in Nat : n <= Len(buffer) /\ Located.rest = DropFirst(buffer, n)
      BY <1>1, LocatedIsSuffix
    <2>2. Len(buffer) \in Nat
      BY <1>1
    <2> QED
      BY <1>1, <1>2, <2>1, <2>2 DEF DropFirst
  <1>5. CASE Missed \/ ShortHeader \/ CutHeader
    <2>1. FlagsFit'
      BY <1>1, <1>5 DEF FlagsFit, Missed, ShortHeader, CutHeader
    <2>2. buffer' = Located.rest /\ packet' = packet /\ caller' \in {"null", "scanning"} /\ headerRdy' = FALSE /\ packetRdy' = FALSE
      BY <1>5 DEF Missed, ShortHeader, CutHeader
    <2> QED
      BY <1>1, <1>3, <1>4, <2>1, <2>2 DEF PacketizerTypes
  <1>6. ASSUME NEW h, NEW t, Taken(h, t), CutMessage(h, t) \/ ShortMessage(h, t)
        PROVE  PacketizerTypes'
    <2>1. h \in Seq(Byte) /\ Len(h) = HeaderLen /\ t \in Seq(Byte) /\ Len(t) <= Len(buffer)
      BY <1>6, TakenTypes
    <2>2. FlagsFit'
      BY <1>6 DEF FlagsFit, CutMessage, ShortMessage
    <2>3. buffer' = t /\ packet' = h /\ caller' \in {"null", "scanning"} /\ packetRdy' = FALSE
      BY <1>6 DEF CutMessage, ShortMessage
    <2>4. Len(buffer') <= BufferLen
      BY <1>1, <1>2, <2>1, <2>3
    <2> QED
      BY <1>1, <1>2, <1>3, <2>1, <2>2, <2>3, <2>4 DEF PacketizerTypes
  <1>7. ASSUME NEW h, NEW t, Taken(h, t), WholeMessage(h, t)
        PROVE  PacketizerTypes'
    <2> DEFINE len == PayloadLength(h)
               load == SubSeq(t, 1, len)
    <2>1. h \in Seq(Byte) /\ Len(h) = HeaderLen /\ t \in Seq(Byte) /\ Len(t) <= Len(buffer) /\ len \in Nat
      BY <1>7, TakenTypes
    <2> HIDE DEF len
    <2>2. len <= Len(t) /\ buffer' = DropFirst(t, len) /\ packet' = h \o load
          /\ caller' = (IF HeaderLen + len <= PacketMaxLen THEN "packet" ELSE "overrun")
          /\ syncFound' = TRUE /\ headerRdy' = TRUE /\ packetRdy' = TRUE
      BY <1>7 DEF WholeMessage, len
    <2>3. load \in Seq(Byte) /\ Len(load) = len
      BY <2>1, <2>2
    <2>4. DropFirst(t, len) \in Seq(Byte) /\ Len(DropFirst(t, len)) = Len(t) - len
      BY <2>1, <2>2 DEF DropFirst
    <2> HIDE DEF load
    <2>5. packet' \in Seq(Byte) /\ Len(packet') = HeaderLen + len /\ SubSeq(packet', 1, HeaderLen) = h
      <3> DEFINE joint == h \o load
                 front == SubSeq(joint, 1, HeaderLen)
      <3>1. joint \in Seq(Byte) /\ Len(joint) = HeaderLen + len /\ \A i \in 1..HeaderLen : joint[i] = h[i]
        BY <1>2, <2>1, <2>3
      <3> HIDE DEF joint
      <3>2. front \in Seq(Byte) /\ Len(front) = HeaderLen /\ \A i \in 1..HeaderLen : front[i] = joint[i]
        BY <1>2, <2>1, <3>1
      <3> HIDE DEF front
      <3>3. \A i \in 1..HeaderLen : front[i] = h[i]
        BY <3>1, <3>2
      <3>4. front = h
        BY <2>1, <3>2, <3>3
      <3> QED
        BY <2>2, <3>1, <3>4 DEF joint, front
    <2>6. FlagsFit'
      BY <2>2 DEF FlagsFit
    <2>7. Len(buffer') <= BufferLen /\ Len(packet') >= HeaderLen
      <3>1. Len(t) \in Nat /\ Len(buffer) \in Nat
        BY <1>1, <2>1
      <3> QED
        BY <1>1, <1>2, <2>1, <2>2, <2>4, <2>5, <3>1
    <2>8. /\ caller' \in {"packet", "overrun"}
          /\ caller' = "overrun" => Len(packet') > PacketMaxLen
      BY <1>2, <2>1, <2>2, <2>5
    <2> QED
      BY <1>1, <1>3, <2>2, <2>4, <2>5, <2>6, <2>7, <2>8 DEF PacketizerTypes, len
  <1> QED
    BY <1>5, <1>6, <1>7, PacketizeCases

LEMMA TypesStep == PacketizerTypes /\ [PacketizerNext]_packetizerVars => PacketizerTypes'
  <1> SUFFICES ASSUME PacketizerTypes, [PacketizerNext]_packetizerVars PROVE PacketizerTypes'
    OBVIOUS
  <1>1. /\ FlagsFit /\ buffer \in Seq(Byte) /\ Len(buffer) <= BufferLen /\ packet \in Seq(Byte)
        /\ caller \in {"ready", "scanning", "null", "packet", "overrun"}
        /\ (caller = "overrun" => Len(packet) > PacketMaxLen)
        /\ (headerRdy => Len(packet) >= HeaderLen)
        /\ (packetRdy => Len(packet) = HeaderLen + PayloadLength(SubSeq(packet, 1, HeaderLen)))
        /\ contact \in Contacts \cup LaterContacts
        /\ wire \in Seq(Byte) /\ delivered \in Seq(Seq(Byte)) /\ (packetRdy <=> caller \in {"packet", "overrun"})
    BY DEF PacketizerTypes
  <1>2. BufferLen \in Nat /\ MaxChunk \in Nat
    BY PacketizerAssumption DEF PacketizerAssumption
  <1>3. ASSUME NEW n \in 1..MaxChunk, PushBytes(n)
        PROVE  PacketizerTypes'
    <2>1. n \in Nat /\ n <= Len(wire) /\ Len(wire) \in Nat /\ Len(buffer) \in Nat
      BY <1>1, <1>2, <1>3 DEF PushBytes
    <2>2. DropFirst(wire, n) \in Seq(Byte)
      BY <1>1, <2>1 DEF DropFirst
    <2>3. SubSeq(wire, 1, n) \in Seq(Byte) /\ Len(SubSeq(wire, 1, n)) = n
      BY <1>1, <2>1
    <2>4. buffer' \in Seq(Byte) /\ Len(buffer') <= BufferLen
      <3>1. CASE Len(buffer) + n > BufferLen
        BY <1>1, <1>3, <3>1 DEF PushBytes
      <3>2. CASE ~(Len(buffer) + n > BufferLen)
        <4> DEFINE p == SubSeq(wire, 1, n)
        <4>1. buffer' = buffer \o p
          BY <1>3, <3>2 DEF PushBytes
        <4>2. p \in Seq(Byte) /\ Len(p) = n
          BY <2>3
        <4> HIDE DEF p
        <4>3. buffer \o p \in Seq(Byte) /\ Len(buffer \o p) = Len(buffer) + n
          BY <1>1, <4>2
        <4> QED
          BY <1>2, <2>1, <3>2, <4>1, <4>3
      <3> QED
        BY <3>1, <3>2
    <2>5. wire' = DropFirst(wire, n) /\ caller' = "ready" /\ caller \in {"ready", "null"}
          /\ UNCHANGED <<contact, packet, syncFound, headerRdy, packetRdy, delivered>>
      BY <1>3 DEF PushBytes, flags
    <2>6. FlagsFit'
      BY <1>1, <2>5 DEF FlagsFit
    <2> QED
      BY <1>1, <2>2, <2>4, <2>5, <2>6 DEF PacketizerTypes
  <1>4. CASE GetPacket
    <2>1. UNCHANGED <<contact, wire, buffer, packet, syncFound, headerRdy, packetRdy, delivered>>
          /\ caller = "ready" /\ caller' = "scanning"
      BY <1>4 DEF GetPacket, stream, flags
    <2>2. FlagsFit'
      BY <1>1, <2>1 DEF FlagsFit
    <2> QED
      BY <1>1, <2>1, <2>2 DEF PacketizerTypes
  <1>5. CASE PopPacket
    <2>1. UNCHANGED <<contact, wire, buffer>> /\ caller' = "ready"
          /\ delivered' = Append(delivered, packet) /\ packet' = <<>>
          /\ syncFound' = FALSE /\ headerRdy' = FALSE /\ packetRdy' = FALSE
      BY <1>5 DEF PopPacket, stream
    <2>2. FlagsFit'
      BY <1>5 DEF FlagsFit, PopPacket
    <2>3. delivered' \in Seq(Seq(Byte)) /\ packet' \in Seq(Byte)
      BY <1>1, <2>1
    <2> QED
      BY <1>1, <2>1, <2>2, <2>3 DEF PacketizerTypes
  <1>6. CASE Clear
    <2>1. contact' \in Contacts \cup LaterContacts /\ wire' = contact'.bytes
          /\ buffer' = <<>> /\ caller' = "ready" /\ delivered' = <<>> /\ packet' = packet
          /\ syncFound' = FALSE /\ headerRdy' = FALSE /\ packetRdy' = FALSE
      BY <1>6 DEF Clear
    <2>2. FlagsFit'
      BY <1>6 DEF FlagsFit, Clear
    <2>3. wire' \in Seq(Byte) /\ buffer' \in Seq(Byte) /\ Len(buffer') = 0 /\ delivered' \in Seq(Seq(Byte))
      BY <2>1, ContactStarts
    <2> QED
      BY <1>1, <1>2, <2>1, <2>2, <2>3 DEF PacketizerTypes
  <1>7. CASE UNCHANGED packetizerVars
    <2>1. UNCHANGED <<contact, wire, buffer, packet, syncFound, headerRdy, packetRdy, caller, delivered>>
      BY <1>7 DEF packetizerVars, stream, flags
    <2>2. FlagsFit'
      BY <1>1, <2>1 DEF FlagsFit
    <2> QED
      BY <1>1, <2>1, <2>2 DEF PacketizerTypes
  <1> QED
    BY <1>3, <1>4, <1>5, <1>6, <1>7, PacketizeTypes DEF PacketizerNext

(* A store that is full and yields nothing waits for a payload that does   *)
(* not fit, for every store that is larger than a header and a sync word;  *)
(* and the packet buffer, whatever its size, is written past only for a    *)
(* header that announces more: a length that wrapped never gets there.     *)
THEOREM OnlyOversizeWedgesIt == PacketizerSpec => []OnlyOversizeWedges
  <1>1. PacketizerInit => PacketizerTypes /\ OnlyOversizeWedges
    BY TypesStart DEF PacketizerInit, OnlyOversizeWedges
  <1>2. ASSUME PacketizerTypes, OnlyOversizeWedges, [PacketizerNext]_packetizerVars
        PROVE  OnlyOversizeWedges'
    <2>1. BufferLen \in Nat /\ HeaderLen \in Nat /\ Len(Sync) \in Nat
          /\ BufferLen > HeaderLen /\ BufferLen > Len(Sync) + 1
          /\ SizeMod \in Nat /\ SizeMod > BufferLen + HeaderLen /\ PacketMaxLen \in Nat
      BY PacketizerAssumption DEF PacketizerAssumption
    <2>2. buffer \in Seq(Byte) /\ Len(buffer) \in Nat /\ Len(buffer) <= BufferLen
      BY <1>2 DEF PacketizerTypes, PacketizerTypeOK
    <2>3. CASE caller' \notin {"null", "overrun"}
      BY <2>3 DEF OnlyOversizeWedges
    <2>4. CASE UNCHANGED packetizerVars
      BY <1>2, <2>4 DEF OnlyOversizeWedges, packetizerVars, flags
    <2>5. CASE Missed
      <3>1. PICK n \in Nat : n <= Len(buffer) /\ Located.rest = DropFirst(buffer, n)
                /\ (~syncFound => n = FindSync(buffer).at + IF Located.found THEN Len(Sync) ELSE 0)
                /\ (~syncFound => Located.found = FindSync(buffer).found)
        BY <2>2, LocatedIsSuffix
      <3>2. ~syncFound /\ ~Located.found /\ buffer' = DropFirst(buffer, n)
        BY <2>5, <3>1 DEF Missed, Located
      <3>3. Len(buffer') = Len(buffer) - n
        BY <2>2, <3>1, <3>2 DEF DropFirst
      <3>4. n = FindSync(buffer).at /\ ~FindSync(buffer).found
        BY <2>2, <3>1, <3>2, FindSyncFinds
      <3>5. Len(buffer) - n <= Len(Sync) + 1
        BY <2>2, <3>4, FindSyncFinds
      <3> QED
        BY <2>1, <2>2, <2>5, <3>1, <3>3, <3>5 DEF OnlyOversizeWedges, Missed
    <2>6. CASE ShortHeader
      <3>1. Len(buffer') < HeaderLen
        BY <2>6 DEF ShortHeader
      <3>2. Len(buffer') \in Nat
        BY <1>2, TypesStep DEF PacketizerTypes, PacketizerTypeOK
      <3> QED
        BY <2>1, <2>6, <3>1, <3>2 DEF OnlyOversizeWedges, ShortHeader
    <2>7. ASSUME NEW h, NEW t, Taken(h, t), ShortMessage(h, t)
          PROVE  OnlyOversizeWedges'
      <3>1. SubSeq(h, 1, HeaderLen) = h /\ t \in Seq(Byte) /\ PayloadLength(h) \in Nat
        BY <1>2, <2>7, TakenTypes
      <3>2. buffer' = t /\ packet' = h /\ headerRdy' = TRUE /\ PayloadLength(h) > Len(t) /\ caller' = "null"
        BY <2>7 DEF ShortMessage
      <3> QED
        BY <3>1, <3>2 DEF OnlyOversizeWedges
    <2>8. ASSUME caller' = "null", PacketizerNext
          PROVE  Packetize
      BY <2>8 DEF PacketizerNext, PushBytes, GetPacket, PopPacket, Clear
    <2>9. ASSUME caller' = "null", Packetize
          PROVE  \/ Missed \/ ShortHeader \/ \E h, t : Taken(h, t) /\ ShortMessage(h, t)
      BY <1>2, <2>9, PacketizeCases DEF CutHeader, CutMessage, WholeMessage
    <2>10. ASSUME NEW h, NEW t, Taken(h, t), WholeMessage(h, t)
           PROVE  OnlyOversizeWedges'
      <3> DEFINE total == TotalLength(h)
                 len   == PayloadLength(h)
      <3>1. SubSeq(h, 1, HeaderLen) = h /\ h \in Seq(Byte) /\ Len(h) = HeaderLen /\ t \in Seq(Byte)
            /\ Len(t) <= Len(buffer) /\ total \in 0..(SizeMod - 1)
        BY <1>2, <2>10, TakenTypes
      <3>2. len <= Len(t) /\ len = (total - HeaderLen) % SizeMod
            /\ caller' = IF HeaderLen + len <= PacketMaxLen THEN "packet" ELSE "overrun"
        BY <2>10 DEF WholeMessage, PayloadLength
      <3>3. SubSeq(packet', 1, HeaderLen) = h
        <4> DEFINE load  == SubSeq(t, 1, len)
                   joint == h \o load
                   front == SubSeq(joint, 1, HeaderLen)
        <4>1. packet' = joint
          BY <2>10 DEF WholeMessage
        <4>2. load \in Seq(Byte)
          <5>1. len \in Int
            BY <2>1, <3>1, <3>2
          <5> QED
            BY <3>1, <3>2, <5>1
        <4> HIDE DEF load
        <4>3. joint \in Seq(Byte) /\ Len(joint) >= HeaderLen /\ \A i \in 1..HeaderLen : joint[i] = h[i]
          BY <2>1, <3>1, <4>2
        <4> HIDE DEF joint
        <4>4. front \in Seq(Byte) /\ Len(front) = HeaderLen /\ \A i \in 1..HeaderLen : front[i] = joint[i]
          BY <2>1, <4>3
        <4> HIDE DEF front
        <4>5. front = h
          BY <3>1, <4>3, <4>4
        <4> QED
          BY <4>1, <4>5 DEF front
      <3>4. ASSUME caller' = "overrun"
            PROVE  total > PacketMaxLen
        <4> HIDE DEF total, len
        <4>1. Len(t) \in Nat /\ Len(t) <= BufferLen
          BY <2>1, <2>2, <3>1
        <4>2. total >= HeaderLen
          <5>1. CASE total < HeaderLen
            <6>1. len = (total - HeaderLen) + SizeMod
              BY <2>1, <3>1, <3>2, <5>1
            <6> QED
              BY <2>1, <3>1, <3>2, <4>1, <6>1
          <5> QED
            BY <2>1, <3>1, <5>1
        <4>3. len = total - HeaderLen
          <5> DEFINE d == total - HeaderLen
          <5>1. d \in 0..(SizeMod - 1) /\ len = d % SizeMod
            BY <2>1, <3>1, <3>2, <4>2
          <5> HIDE DEF d
          <5>2. d % SizeMod = d
            BY <2>1, <5>1
          <5> QED
            BY <5>1, <5>2 DEF d
        <4> QED
          BY <2>1, <3>1, <3>2, <3>4, <4>3
      <3>5. caller' # "null"
        BY <3>2
      <3> QED
        BY <3>3, <3>4, <3>5 DEF OnlyOversizeWedges
    <2>11. ASSUME caller' = "overrun", PacketizerNext
           PROVE  Packetize
      BY <2>11 DEF PacketizerNext, PushBytes, GetPacket, PopPacket, Clear
    <2>12. ASSUME caller' = "overrun", Packetize
           PROVE  \E h, t : Taken(h, t) /\ WholeMessage(h, t)
      BY <1>2, <2>12, PacketizeCases DEF Missed, ShortHeader, CutHeader, CutMessage, ShortMessage
    <2> QED
      BY <1>2, <2>3, <2>4, <2>5, <2>6, <2>7, <2>8, <2>9, <2>10, <2>11, <2>12
  <1> QED
    BY <1>1, <1>2, TypesStep, PTL DEF PacketizerSpec

-----------------------------------------------------------------------------
(* What comes back of an honest contact.  First the contact alone.         *)
Sendable == Contacts \cup LaterContacts

LEMMA SendableTypes ==
  ASSUME NEW c \in Sendable
  PROVE  /\ c.bytes \in Seq(Byte) /\ Len(c.bytes) \in Nat /\ Len(c.whole) \in Nat
         /\ \A i \in 1..Len(c.whole) : c.whole[i].from \in Nat \ {0} /\ c.whole[i].to \in Nat
         /\ Len(Sync) \in Nat \ {0} /\ HeaderLen \in Nat \ {0} /\ SizeMod \in Nat /\ SizeMod > HeaderLen
         /\ \A h \in [1..HeaderLen -> Byte] : TotalLength(h) \in 0..(SizeMod - 1)
  BY PacketizerAssumption DEF PacketizerAssumption, Sendable

LEMMA HeaderCounts ==
  ASSUME NEW c \in Sendable, Honest(c), NEW k \in Nat, SyncAt(c, k), Free(c, k, HeaderLen)
  PROVE  /\ Header(c, k) \in Seq(Byte) /\ Len(Header(c, k)) = HeaderLen
         /\ TotalLength(Header(c, k)) \in HeaderLen..(SizeMod - 1)
  <1>1. k + Len(Sync) + HeaderLen <= Len(c.bytes)
    BY DEF Free
  <1>2. k \in 0..(Len(c.bytes) - 1)
    BY <1>1, SendableTypes
  <1>3. TotalLength(Header(c, k)) >= HeaderLen
    BY <1>2 DEF Honest
  <1>4. Header(c, k) \in Seq(Byte) /\ Len(Header(c, k)) = HeaderLen
    <2> DEFINE B == c.bytes
               l == Len(Sync)
    <2>1. B \in Seq(Byte) /\ l \in Nat /\ HeaderLen \in Nat \ {0} /\ k + l + HeaderLen <= Len(B)
      BY <1>1, SendableTypes
    <2> HIDE DEF B, l
    <2>2. SubSeq(B, k + l + 1, k + l + HeaderLen) \in Seq(Byte)
          /\ Len(SubSeq(B, k + l + 1, k + l + HeaderLen)) = HeaderLen
      BY <2>1
    <2> QED
      BY <2>2 DEF Header, B, l
  <1>5. Header(c, k) \in [1..HeaderLen -> Byte]
    BY <1>4
  <1>6. TotalLength(Header(c, k)) \in 0..(SizeMod - 1)
    BY <1>5, SendableTypes
  <1> QED
    BY <1>3, <1>4, <1>6, SendableTypes

LEMMA FramesAreHonest ==
  ASSUME NEW c \in Sendable, Honest(c), NEW i \in 1..Len(c.whole)
  PROVE  LET k == c.whole[i].from - 1
         IN  /\ k \in Nat /\ SyncAt(c, k) /\ FrameAt(c, k)
             /\ TotalLength(Header(c, k)) \in HeaderLen..(SizeMod - 1)
             /\ c.whole[i].to = k + Len(Sync) + TotalLength(Header(c, k))
  <1> DEFINE k == c.whole[i].from - 1
  <1>1. k \in 0..(Len(c.bytes) - 1) /\ FrameAt(c, k)
        /\ c.whole[i].to = k + Len(Sync) + TotalLength(Header(c, k))
    BY DEF Honest
  <1> HIDE DEF k
  <1>2. SyncAt(c, k) /\ Free(c, k, HeaderLen)
    BY <1>1 DEF FrameAt
  <1>3. k \in Nat
    BY <1>1, SendableTypes
  <1>4. TotalLength(Header(c, k)) \in HeaderLen..(SizeMod - 1)
    BY <1>2, <1>3, HeaderCounts
  <1> QED
    BY <1>1, <1>2, <1>3, <1>4 DEF k

LEMMA SyncsAreApart ==
  ASSUME NEW c \in Sendable, Honest(c), NEW k \in Nat, NEW m \in Nat,
         SyncAt(c, k), SyncAt(c, m), k < m
  PROVE  m >= k + Len(Sync)
  <1>1. Len(Sync) \in Nat \ {0} /\ Len(c.bytes) \in Nat
    BY SendableTypes
  <1>2. k + Len(Sync) <= Len(c.bytes)
    BY DEF SyncAt, OccursAt
  <1>3. k \in 0..(Len(c.bytes) - 1)
    BY <1>1, <1>2
  <1>4. \A j \in 1..(Len(Sync) - 1) : ~SyncAt(c, k + j)
    BY <1>3 DEF Honest
  <1>5. ASSUME m < k + Len(Sync)
        PROVE  FALSE
    <2>1. m - k \in 1..(Len(Sync) - 1) /\ k + (m - k) = m
      BY <1>1, <1>5
    <2> QED
      BY <1>4, <2>1
  <1> QED
    BY <1>1, <1>5

LEMMA FrameIsListed ==
  ASSUME NEW c \in Sendable, Honest(c), NEW k \in Nat, FrameAt(c, k)
  PROVE  \E i \in 1..Len(c.whole) : c.whole[i].from = k + 1
  <1>1. Len(Sync) \in Nat \ {0} /\ Len(c.bytes) \in Nat
    BY SendableTypes
  <1>2. SyncAt(c, k) /\ k + Len(Sync) <= Len(c.bytes)
    BY DEF SyncAt, OccursAt, FrameAt
  <1>3. k \in 0..(Len(c.bytes) - 1)
    BY <1>1, <1>2
  <1> QED
    BY <1>2, <1>3 DEF Honest

LEMMA FramesEnd ==
  ASSUME NEW c \in Sendable, Honest(c), NEW i \in 1..Len(c.whole), NEW b \in Nat,
         c.whole[i].from + Len(Sync) + HeaderLen > b + 1
  PROVE  c.whole[i].to > b
  <1> DEFINE k == c.whole[i].from - 1
             t == TotalLength(Header(c, k))
             e == c.whole[i].to
             l == Len(Sync)
  <1>1. k \in Nat /\ t \in HeaderLen..(SizeMod - 1) /\ e = k + l + t
    BY FramesAreHonest
  <1>2. k + l + HeaderLen > b /\ l \in Nat /\ HeaderLen \in Nat /\ SizeMod \in Nat
    <2>1. l \in Nat /\ HeaderLen \in Nat /\ SizeMod \in Nat /\ c.whole[i].from \in Nat
      BY SendableTypes
    <2> DEFINE f == c.whole[i].from
    <2>2. f + l + HeaderLen > b + 1 /\ f \in Nat /\ k = f - 1
      BY <2>1
    <2> HIDE DEF f, k, l
    <2> QED
      BY <2>1, <2>2
  <1> HIDE DEF k, t, e, l
  <1>3. t \in Nat /\ t >= HeaderLen
    BY <1>1, <1>2
  <1>4. k + l + t > b
    BY <1>1, <1>2, <1>3
  <1>5. e > b
    BY <1>1, <1>4
  <1> QED
    BY <1>5 DEF e

(* The first n frames begin before offset k, the others do not.            *)
Passed(c, n, k) ==
  \A i \in 1..Len(c.whole) : (i <= n => c.whole[i].from <= k) /\ (i > n => c.whole[i].from > k)

(* No frame behind the first n ends in the first b bytes.                  *)
Unfinished(c, n, b) == \A i \in 1..Len(c.whole) : i > n => c.whole[i].to > b

LEMMA PassNoise ==
  ASSUME NEW c \in Sendable, Honest(c), NEW n \in Nat, NEW a \in Nat, NEW b \in Nat, a <= b, Passed(c, n, a),
         \A k \in a..(b - 1) : ~SyncAt(c, k)
  PROVE  Passed(c, n, b)
  <1> SUFFICES ASSUME NEW i \in 1..Len(c.whole)
               PROVE  (i <= n => c.whole[i].from <= b) /\ (i > n => c.whole[i].from > b)
    BY DEF Passed
  <1>1. c.whole[i].from \in Nat \ {0} /\ i \in Nat
    BY SendableTypes
  <1>2. SyncAt(c, c.whole[i].from - 1)
    BY FramesAreHonest
  <1>3. (i <= n => c.whole[i].from <= a) /\ (i > n => c.whole[i].from > a)
    BY DEF Passed
  <1>4. ASSUME i > n
        PROVE  ~(c.whole[i].from <= b)
    <2>1. c.whole[i].from <= b => c.whole[i].from - 1 \in a..(b - 1)
      BY <1>1, <1>3, <1>4
    <2> QED
      BY <1>2, <2>1
  <1> QED
    BY <1>1, <1>3, <1>4

(* A sync word at which no frame can be read is passed.                    *)
LEMMA PassCutFrame ==
  ASSUME NEW c \in Sendable, Honest(c), NEW n \in Nat, NEW k \in Nat, Passed(c, n, k),
         SyncAt(c, k), ~FrameAt(c, k)
  PROVE  Passed(c, n, k + Len(Sync))
  <1> SUFFICES ASSUME NEW i \in 1..Len(c.whole)
               PROVE  /\ i <= n => c.whole[i].from <= k + Len(Sync)
                      /\ i > n => c.whole[i].from > k + Len(Sync)
    BY DEF Passed
  <1>1. c.whole[i].from \in Nat \ {0} /\ i \in Nat /\ Len(Sync) \in Nat
    BY SendableTypes
  <1> DEFINE m == c.whole[i].from - 1
  <1>2. m \in Nat /\ SyncAt(c, m) /\ FrameAt(c, m)
    BY FramesAreHonest
  <1>3. (i <= n => c.whole[i].from <= k) /\ (i > n => c.whole[i].from > k)
    BY DEF Passed
  <1>4. m # k
    BY <1>2
  <1>5. ASSUME i > n
        PROVE  m >= k + Len(Sync)
    <2>1. k < m
      BY <1>1, <1>3, <1>4, <1>5
    <2> QED
      BY <1>2, <2>1, SyncsAreApart
  <1> QED
    BY <1>1, <1>3, <1>5

-----------------------------------------------------------------------------
(* Then what the store tells at offset a of the contact, n frames passed.  *)
BehindSync(c, n, a) ==
  LET k == a - Len(Sync)
  IN  k \in Nat /\ SyncAt(c, k) /\ Passed(c, n, k)

BehindHeader(c, n, a, h) ==
  LET k == a - HeaderLen - Len(Sync)
  IN  k \in Nat /\ SyncAt(c, k) /\ Free(c, k, HeaderLen) /\ Passed(c, n, k) /\ h = Header(c, k)

LEMMA NothingFound ==
  ASSUME NEW c \in Sendable, Honest(c), NEW s, NEW a, View(c, s, a), ~EndsInSync(s),
         NEW n \in Nat, Passed(c, n, a), ~FindSync(s).found
  PROVE  Passed(c, n, a + FindSync(s).at) /\ Unfinished(c, n, a + Len(s))
  <1>1. s \in Seq(Byte) /\ a \in Nat /\ Len(s) \in Nat /\ FindSync(s).at \in Nat /\ FindSync(s).at <= Len(s)
    BY FindSyncFinds DEF View
  <1>2. \A j \in Nat : j < Len(s) => ~SyncAt(c, a + j)
    BY SearchInContact, SendableTypes
  <1>3. \A k \in a..(a + Len(s) - 1) : ~SyncAt(c, k)
    <2> SUFFICES ASSUME NEW k \in a..(a + Len(s) - 1) PROVE ~SyncAt(c, k)
      OBVIOUS
    <2>1. k - a \in Nat /\ k - a < Len(s) /\ a + (k - a) = k
      BY <1>1
    <2> QED
      BY <1>2, <2>1
  <1>4. Passed(c, n, a + FindSync(s).at)
    <2>1. \A k \in a..(a + FindSync(s).at - 1) : ~SyncAt(c, k)
      BY <1>1, <1>3
    <2>2. a + FindSync(s).at \in Nat /\ a <= a + FindSync(s).at
      BY <1>1
    <2> QED
      BY <1>1, <2>1, <2>2, PassNoise
  <1>5. Passed(c, n, a + Len(s))
    <2>1. a + Len(s) \in Nat /\ a <= a + Len(s)
      BY <1>1
    <2> QED
      BY <1>1, <1>3, <2>1, PassNoise
  <1>6. Unfinished(c, n, a + Len(s))
    <2> SUFFICES ASSUME NEW i \in 1..Len(c.whole), i > n PROVE c.whole[i].to > a + Len(s)
      BY DEF Unfinished
    <2>1. c.whole[i].from > a + Len(s) /\ c.whole[i].from \in Nat
      BY <1>5, SendableTypes DEF Passed
    <2>2. c.whole[i].from + Len(Sync) + HeaderLen > a + Len(s) + 1
      BY <1>1, <2>1, SendableTypes
    <2>3. a + Len(s) \in Nat
      BY <1>1
    <2> QED
      BY <2>2, <2>3, FramesEnd
  <1> QED
    BY <1>4, <1>6

LEMMA SomethingFound ==
  ASSUME NEW c \in Sendable, Honest(c), NEW s, NEW a, View(c, s, a), ~EndsInSync(s),
         NEW n \in Nat, Passed(c, n, a), FindSync(s).found
  PROVE  BehindSync(c, n, a + FindSync(s).at + Len(Sync))
  <1> DEFINE k == a + FindSync(s).at
  <1>1. a \in Nat /\ FindSync(s).at \in Nat /\ Len(Sync) \in Nat
    BY FindSyncFinds, SendableTypes DEF View
  <1>2. SyncAt(c, k) /\ \A j \in 0..(FindSync(s).at - 1) : ~SyncAt(c, a + j)
    BY SearchInContact, SendableTypes
  <1>3. \A m \in a..(k - 1) : ~SyncAt(c, m)
    <2> SUFFICES ASSUME NEW m \in a..(k - 1) PROVE ~SyncAt(c, m)
      OBVIOUS
    <2>1. m - a \in 0..(FindSync(s).at - 1) /\ a + (m - a) = m
      BY <1>1
    <2> QED
      BY <1>2, <2>1
  <1>4. k \in Nat /\ a <= k /\ k + Len(Sync) - Len(Sync) = k
    BY <1>1
  <1> HIDE DEF k
  <1>5. Passed(c, n, k)
    BY <1>1, <1>3, <1>4, PassNoise
  <1>6. BehindSync(c, n, k + Len(Sync))
    BY <1>2, <1>4, <1>5 DEF BehindSync
  <1> QED
    BY <1>6 DEF k

LEMMA HeaderToCome ==
  ASSUME NEW c \in Sendable, Honest(c), NEW n \in Nat, NEW a \in Nat, BehindSync(c, n, a),
         NEW b \in Nat, b < a + HeaderLen
  PROVE  Unfinished(c, n, b)
  <1> SUFFICES ASSUME NEW i \in 1..Len(c.whole), i > n PROVE c.whole[i].to > b
    BY DEF Unfinished
  <1>1. c.whole[i].from > a - Len(Sync) /\ c.whole[i].from \in Nat
    BY SendableTypes DEF BehindSync, Passed
  <1>2. c.whole[i].from + Len(Sync) + HeaderLen > b + 1
    BY <1>1, SendableTypes
  <1> QED
    BY <1>2, FramesEnd

LEMMA HeaderCutOff ==
  ASSUME NEW c \in Sendable, Honest(c), NEW s, NEW a, View(c, s, a), ~EndsInSync(s),
         NEW n \in Nat, BehindSync(c, n, a), SyncWithin(s, HeaderLen)
  PROVE  Passed(c, n, a)
  <1> DEFINE k == a - Len(Sync)
  <1>1. k \in Nat /\ SyncAt(c, k) /\ Passed(c, n, k)
    BY DEF BehindSync
  <1>2. k + Len(Sync) = a /\ a \in Nat
    BY SendableTypes DEF View
  <1> HIDE DEF k
  <1>3. PICK j \in 0..(HeaderLen - 1) : SyncAt(c, a + j)
    BY SyncWithinContact, SendableTypes
  <1>4. ~Free(c, k, HeaderLen)
    BY <1>2, <1>3 DEF Free
  <1> QED
    BY <1>1, <1>2, <1>4, PassCutFrame DEF FrameAt

LEMMA HeaderTaken ==
  ASSUME NEW c \in Sendable, Honest(c), NEW s, NEW a, View(c, s, a), ~EndsInSync(s),
         NEW n \in Nat, BehindSync(c, n, a), HeaderLen <= Len(s), ~SyncWithin(s, HeaderLen)
  PROVE  BehindHeader(c, n, a + HeaderLen, SubSeq(s, 1, HeaderLen))
  <1> DEFINE k == a - Len(Sync)
  <1>1. k \in Nat /\ SyncAt(c, k) /\ Passed(c, n, k)
    BY DEF BehindSync
  <1>2. k + Len(Sync) = a /\ a \in Nat /\ HeaderLen \in Nat /\ a + HeaderLen - HeaderLen - Len(Sync) = k
        /\ Len(s) \in Nat /\ a + Len(s) <= Len(c.bytes) /\ Len(c.bytes) \in Nat
    BY SendableTypes DEF View
  <1> HIDE DEF k
  <1>3. Free(c, k, HeaderLen)
    <2>1. \A j \in Nat : j < HeaderLen /\ j < Len(s) => ~SyncAt(c, a + j)
      BY <1>2, SyncWithinContact, SendableTypes
    <2>2. \A j \in 0..(HeaderLen - 1) : ~SyncAt(c, a + j)
      BY <1>2, <2>1
    <2>3. k + Len(Sync) + HeaderLen <= Len(c.bytes)
      BY <1>2
    <2> QED
      BY <1>2, <2>2, <2>3 DEF Free
  <1>4. SubSeq(s, 1, HeaderLen) = Header(c, k)
    <2>1. c.bytes \in Seq(Byte)
      BY SendableTypes
    <2>2. Front(s, HeaderLen) = Span(c, a, HeaderLen)
      BY <1>2, <2>1, ViewPrefix
    <2>3. SubSeq(s, 1, HeaderLen) = SubSeq(c.bytes, a + 1, a + HeaderLen)
      BY <2>2 DEF Front, Span
    <2> QED
      BY <1>2, <2>3 DEF Header
  <1> QED
    BY <1>1, <1>2, <1>3, <1>4 DEF BehindHeader

(* The payload that the header at offset k announces.                      *)
LEMMA HeaderTells ==
  ASSUME NEW c \in Sendable, Honest(c), NEW n \in Nat, NEW a \in Nat, NEW h, BehindHeader(c, n, a, h)
  PROVE  \E k \in Nat :
           /\ a = k + Len(Sync) + HeaderLen /\ h = Header(c, k)
           /\ SyncAt(c, k) /\ Free(c, k, HeaderLen) /\ Passed(c, n, k)
           /\ PayloadLength(h) \in Nat /\ TotalLength(h) = HeaderLen + PayloadLength(h)
  <1> DEFINE k == a - HeaderLen - Len(Sync)
             T == TotalLength(h)
  <1>1. k \in Nat /\ SyncAt(c, k) /\ Free(c, k, HeaderLen) /\ Passed(c, n, k) /\ h = Header(c, k)
    BY DEF BehindHeader
  <1>2. a = k + Len(Sync) + HeaderLen
    BY SendableTypes
  <1> HIDE DEF k
  <1>3. T \in HeaderLen..(SizeMod - 1)
    BY <1>1, HeaderCounts
  <1> HIDE DEF T
  <1>4. PayloadLength(h) = (T - HeaderLen) % SizeMod
    BY DEF PayloadLength, T
  <1>5. PayloadLength(h) \in Nat /\ T = HeaderLen + PayloadLength(h)
    <2>1. T - HeaderLen \in 0..(SizeMod - 1) /\ SizeMod \in Nat \ {0} /\ HeaderLen \in Nat /\ T \in Int
      BY <1>3, SendableTypes
    <2>2. (T - HeaderLen) % SizeMod = T - HeaderLen
      BY <2>1
    <2> QED
      BY <1>4, <2>1, <2>2
  <1> QED
    BY <1>1, <1>2, <1>5 DEF T

LEMMA MessageCutOff ==
  ASSUME NEW c \in Sendable, Honest(c), NEW t, NEW a, View(c, t, a), ~EndsInSync(t),
         NEW n \in Nat, NEW h, BehindHeader(c, n, a, h), SyncWithin(t, PayloadLength(h))
  PROVE  Passed(c, n, a)
  <1>1. a \in Nat /\ c.bytes \in Seq(Byte) /\ HeaderLen \in Nat /\ Len(Sync) \in Nat
    BY SendableTypes DEF View
  <1>2. PICK k \in Nat :
           /\ a = k + Len(Sync) + HeaderLen /\ h = Header(c, k)
           /\ SyncAt(c, k) /\ Free(c, k, HeaderLen) /\ Passed(c, n, k)
           /\ PayloadLength(h) \in Nat /\ TotalLength(h) = HeaderLen + PayloadLength(h)
    BY <1>1, HeaderTells
  <1> DEFINE len == PayloadLength(h)
  <1>3. PICK j \in 0..(len - 1) : SyncAt(c, a + j)
    BY <1>1, <1>2, SyncWithinContact
  <1> HIDE DEF len
  <1>4. ~Free(c, k, TotalLength(h))
    <2>1. HeaderLen + j \in 0..(HeaderLen + len - 1) /\ k + Len(Sync) + (HeaderLen + j) = a + j
      BY <1>1, <1>2, <1>3 DEF len
    <2>2. TotalLength(h) = HeaderLen + len
      BY <1>2 DEF len
    <2>3. SyncAt(c, k + Len(Sync) + (HeaderLen + j))
      BY <1>3, <2>1
    <2>4. ~Free(c, k, HeaderLen + len)
      <3> DEFINE T == HeaderLen + len
                 i == HeaderLen + j
      <3>1. i \in 0..(T - 1) /\ SyncAt(c, k + Len(Sync) + i)
        BY <1>1, <1>2, <2>1, <2>3 DEF len
      <3> HIDE DEF T, i
      <3>2. ~Free(c, k, T)
        BY <3>1 DEF Free
      <3> QED
        BY <3>2 DEF T
    <2> QED
      BY <2>2, <2>4
  <1>5. ~FrameAt(c, k)
    BY <1>2, <1>4 DEF FrameAt
  <1>6. Passed(c, n, k + Len(Sync))
    BY <1>2, <1>5, PassCutFrame
  <1>7. \A m \in (k + Len(Sync))..(a - 1) : ~SyncAt(c, m)
    <2> SUFFICES ASSUME NEW m \in (k + Len(Sync))..(a - 1) PROVE ~SyncAt(c, m)
      OBVIOUS
    <2>1. m - (k + Len(Sync)) \in 0..(HeaderLen - 1) /\ k + Len(Sync) + (m - (k + Len(Sync))) = m
      BY <1>1, <1>2
    <2> QED
      BY <1>2, <2>1 DEF Free
  <1>8. k + Len(Sync) \in Nat /\ k + Len(Sync) <= a
    BY <1>1, <1>2
  <1> QED
    BY <1>1, <1>6, <1>7, <1>8, PassNoise

(* Between header and payload no sync word begins.                         *)
LEMMA NoSyncInMessage ==
  ASSUME NEW c \in Sendable, NEW t, NEW a, View(c, t, a), ~EndsInSync(t),
         NEW k \in Nat, a = k + Len(Sync) + HeaderLen, Free(c, k, HeaderLen),
         NEW len \in Nat, ~SyncWithin(t, len), NEW j \in Nat, j < HeaderLen + len, j < HeaderLen + Len(t)
  PROVE  ~SyncAt(c, k + Len(Sync) + j)
  <1>1. a \in Nat /\ c.bytes \in Seq(Byte) /\ HeaderLen \in Nat /\ Len(Sync) \in Nat /\ Len(t) \in Nat
    BY SendableTypes DEF View
  <1>2. CASE j < HeaderLen
    <2>1. j \in 0..(HeaderLen - 1)
      BY <1>1, <1>2
    <2> QED
      BY <2>1 DEF Free
  <1>3. CASE ~(j < HeaderLen)
    <2>1. j - HeaderLen \in Nat /\ j - HeaderLen < len /\ j - HeaderLen < Len(t)
          /\ a + (j - HeaderLen) = k + Len(Sync) + j
      BY <1>1, <1>3
    <2>2. \A i \in Nat : i < len /\ i < Len(t) => ~SyncAt(c, a + i)
      BY <1>1, SyncWithinContact
    <2> QED
      BY <2>1, <2>2
  <1> QED
    BY <1>2, <1>3

LEMMA MessageToCome ==
  ASSUME NEW c \in Sendable, Honest(c), NEW t, NEW a, View(c, t, a), ~EndsInSync(t),
         NEW n \in Nat, NEW h, BehindHeader(c, n, a, h),
         ~SyncWithin(t, PayloadLength(h)), PayloadLength(h) > Len(t)
  PROVE  Unfinished(c, n, a + Len(t))
  <1>1. a \in Nat /\ c.bytes \in Seq(Byte) /\ HeaderLen \in Nat /\ Len(Sync) \in Nat /\ Len(t) \in Nat
    BY SendableTypes DEF View
  <1>2. PICK k \in Nat :
           /\ a = k + Len(Sync) + HeaderLen /\ h = Header(c, k)
           /\ SyncAt(c, k) /\ Free(c, k, HeaderLen) /\ Passed(c, n, k)
           /\ PayloadLength(h) \in Nat /\ TotalLength(h) = HeaderLen + PayloadLength(h)
    BY <1>1, HeaderTells
  <1> DEFINE len == PayloadLength(h)
             b   == a + Len(t)
  <1>3. len \in Nat /\ len > Len(t) /\ ~SyncWithin(t, len) /\ b \in Nat
    BY <1>1, <1>2
  <1> SUFFICES ASSUME NEW i \in 1..Len(c.whole), i > n PROVE c.whole[i].to > b
    BY DEF Unfinished
  <1> DEFINE m == c.whole[i].from - 1
  <1>4. m \in Nat /\ SyncAt(c, m) /\ TotalLength(Header(c, m)) \in HeaderLen..(SizeMod - 1)
        /\ c.whole[i].to = m + Len(Sync) + TotalLength(Header(c, m))
    BY FramesAreHonest
  <1>5. c.whole[i].from \in Nat /\ c.whole[i].from > k /\ m = c.whole[i].from - 1
    BY <1>2, SendableTypes DEF Passed
  <1>6. CASE m = k
    <2>1. c.whole[i].to = k + Len(Sync) + TotalLength(h)
      BY <1>2, <1>4, <1>6
    <2>2. TotalLength(h) = HeaderLen + len
      BY <1>2
    <2> HIDE DEF len, m
    <2>3. k + Len(Sync) + (HeaderLen + len) > b
      BY <1>1, <1>2, <1>3
    <2> QED
      BY <2>1, <2>2, <2>3
  <1>7. CASE m # k
    <2> HIDE DEF len, m
    <2>1. m > k
      <3> DEFINE f == c.whole[i].from
      <3>1. f \in Nat /\ f > k /\ m = f - 1
        BY <1>5
      <3> HIDE DEF f
      <3> QED
        BY <1>4, <1>7, <3>1
    <2>2. m >= k + Len(Sync)
      BY <1>2, <1>4, <2>1, SyncsAreApart
    <2>3. m >= b
      <3>1. m - (k + Len(Sync)) \in Nat /\ k + Len(Sync) + (m - (k + Len(Sync))) = m
        BY <1>1, <1>4, <2>2
      <3>2. ~(m - (k + Len(Sync)) < HeaderLen + len /\ m - (k + Len(Sync)) < HeaderLen + Len(t))
        BY <1>2, <1>3, <1>4, <3>1, NoSyncInMessage
      <3> QED
        BY <1>1, <1>2, <1>3, <1>4, <3>2
    <2>4. c.whole[i].from + Len(Sync) + HeaderLen > b + 1
      <3> DEFINE f == c.whole[i].from
                 l == Len(Sync)
      <3>1. f \in Nat /\ m = f - 1 /\ l \in Nat /\ HeaderLen \in Nat \ {0}
        BY <1>5, SendableTypes
      <3> HIDE DEF b, f, l
      <3>2. f + l + HeaderLen > b + 1
        BY <1>3, <1>4, <2>3, <3>1
      <3> QED
        BY <3>2 DEF f, l
    <2> QED
      BY <1>3, <2>4, FramesEnd
  <1> QED
    BY <1>6, <1>7

(* Frame i as a packet, without its sync word.                             *)
PacketOf(c, i) == SubSeq(c.bytes, c.whole[i].from + Len(Sync), c.whole[i].to)

Joined(c, a, m, n) == Span(c, a, m) \o Span(c, a + m, n)

LEMMA SpansJoin ==
  ASSUME NEW c, c.bytes \in Seq(Byte), NEW a \in Nat, NEW m \in Nat, NEW n \in Nat, a + m + n <= Len(c.bytes)
  PROVE  Joined(c, a, m, n) = Span(c, a, m + n)
  <1> DEFINE B == c.bytes
             p == SubSeq(B, a + 1, a + m)
             q == SubSeq(B, a + m + 1, a + m + n)
             r == SubSeq(B, a + 1, a + (m + n))
             w == p \o q
  <1>1. B \in Seq(Byte) /\ Len(B) \in Nat /\ a + m + n <= Len(B)
    OBVIOUS
  <1> HIDE DEF B
  <1>2. p \in Seq(Byte) /\ Len(p) = m /\ \A j \in 1..m : p[j] = B[a + j]
    <2>1. a + m <= Len(B)
      BY <1>1
    <2> QED
      BY <1>1, <2>1
  <1>3. q \in Seq(Byte) /\ Len(q) = n /\ \A j \in 1..n : q[j] = B[a + m + j]
    BY <1>1
  <1>4. r \in Seq(Byte) /\ Len(r) = m + n /\ \A j \in 1..(m + n) : r[j] = B[a + j]
    BY <1>1
  <1> HIDE DEF p, q, r
  <1>5. w \in Seq(Byte) /\ Len(w) = m + n /\ (\A j \in 1..m : w[j] = p[j]) /\ \A j \in 1..n : w[m + j] = q[j]
    <2>1. w \in Seq(Byte) /\ Len(w) = m + n
      <3>1. p \in Seq(Byte) /\ q \in Seq(Byte) /\ Len(p) = m /\ Len(q) = n
        BY <1>2, <1>3
      <3> QED
        BY <3>1
    <2>2. \A j \in 1..m : w[j] = p[j]
      BY <1>2, <1>3
    <2>3. \A j \in 1..n : w[Len(p) + j] = q[j]
      BY <1>2, <1>3
    <2> QED
      BY <1>2, <2>1, <2>2, <2>3
  <1> HIDE DEF w
  <1>6. ASSUME NEW j \in 1..(m + n)
        PROVE  w[j] = r[j]
    <2>1. CASE j <= m
      <3>1. j \in 1..m
        BY <2>1
      <3> QED
        BY <1>2, <1>4, <1>5, <3>1
    <2>2. CASE j > m
      <3>1. j - m \in 1..n /\ m + (j - m) = j /\ a + m + (j - m) = a + j
        BY <2>2
      <3>2. w[m + (j - m)] = q[j - m] /\ q[j - m] = B[a + m + (j - m)]
        BY <1>3, <1>5, <3>1
      <3> QED
        BY <1>4, <3>1, <3>2
    <2> QED
      BY <2>1, <2>2
  <1>7. w = r
    <2> DEFINE g == m + n
    <2>1. w \in Seq(Byte) /\ r \in Seq(Byte) /\ Len(w) = g /\ Len(r) = g /\ g \in Nat
      BY <1>4, <1>5
    <2>2. \A j \in 1..g : w[j] = r[j]
      BY <1>6
    <2> HIDE DEF g
    <2> QED
      BY <2>1, <2>2
  <1> QED
    BY <1>7 DEF Joined, Span, p, q, r, w, B

LEMMA MessageTaken ==
  ASSUME NEW c \in Sendable, Honest(c), NEW t, NEW a, View(c, t, a), ~EndsInSync(t),
         NEW n \in Nat, NEW h, BehindHeader(c, n, a, h),
         ~SyncWithin(t, PayloadLength(h)), PayloadLength(h) <= Len(t)
  PROVE  /\ n + 1 \in 1..Len(c.whole)
         /\ h \o SubSeq(t, 1, PayloadLength(h)) = PacketOf(c, n + 1)
         /\ Passed(c, n + 1, a + PayloadLength(h))
  <1>1. a \in Nat /\ c.bytes \in Seq(Byte) /\ HeaderLen \in Nat /\ Len(Sync) \in Nat
        /\ Len(t) \in Nat /\ a + Len(t) <= Len(c.bytes) /\ Len(c.bytes) \in Nat /\ Len(c.whole) \in Nat
    BY SendableTypes DEF View
  <1>2. PICK k \in Nat :
           /\ a = k + Len(Sync) + HeaderLen /\ h = Header(c, k)
           /\ SyncAt(c, k) /\ Free(c, k, HeaderLen) /\ Passed(c, n, k)
           /\ PayloadLength(h) \in Nat /\ TotalLength(h) = HeaderLen + PayloadLength(h)
    BY <1>1, HeaderTells
  <1> DEFINE len == PayloadLength(h)
             b   == a + len
  <1>3. len \in Nat /\ len <= Len(t) /\ ~SyncWithin(t, len) /\ b \in Nat /\ b <= Len(c.bytes)
        /\ b = k + Len(Sync) + (HeaderLen + len) /\ TotalLength(h) = HeaderLen + len
    BY <1>1, <1>2
  <1>4. \A m \in (k + Len(Sync))..(b - 1) : ~SyncAt(c, m)
    <2> SUFFICES ASSUME NEW m \in (k + Len(Sync))..(b - 1) PROVE ~SyncAt(c, m)
      OBVIOUS
    <2> HIDE DEF len, b
    <2> DEFINE d == k + Len(Sync)
               j == m - d
    <2>0. d \in Nat /\ b = d + (HeaderLen + len) /\ m \in d..(b - 1)
      BY <1>1, <1>3
    <2> HIDE DEF d
    <2>1. j \in Nat /\ d + j = m /\ j < HeaderLen + len /\ j < HeaderLen + Len(t)
      BY <1>1, <1>3, <2>0
    <2> HIDE DEF j
    <2>2. ~SyncAt(c, k + Len(Sync) + j)
      BY <1>2, <1>3, <2>1, NoSyncInMessage
    <2> QED
      BY <2>1, <2>2 DEF d
  <1>5. FrameAt(c, k)
    <2> HIDE DEF len, b
    <2>1. \A j \in 0..((HeaderLen + len) - 1) : ~SyncAt(c, k + Len(Sync) + j)
      <3> SUFFICES ASSUME NEW j \in 0..((HeaderLen + len) - 1) PROVE ~SyncAt(c, k + Len(Sync) + j)
        OBVIOUS
      <3>1. k + Len(Sync) + j \in (k + Len(Sync))..(b - 1)
        BY <1>1, <1>2, <1>3
      <3> QED
        BY <1>4, <3>1
    <2>2. Free(c, k, HeaderLen + len)
      <3> DEFINE T == HeaderLen + len
      <3>1. T \in Nat /\ T = HeaderLen + len /\ k + Len(Sync) + T <= Len(c.bytes)
        BY <1>1, <1>3
      <3>2. \A j \in 0..(T - 1) : ~SyncAt(c, k + Len(Sync) + j)
        BY <2>1
      <3> HIDE DEF T
      <3>3. Free(c, k, T)
        BY <3>1, <3>2 DEF Free
      <3> QED
        BY <3>3 DEF T
    <2> QED
      BY <1>2, <1>3, <2>2 DEF FrameAt
  <1>6. PICK i \in 1..Len(c.whole) : c.whole[i].from = k + 1
    BY <1>5, FrameIsListed
  <1>7. i = n + 1
    <2>1. i > n
      <3>1. i <= n => c.whole[i].from <= k
        BY <1>2, <1>6 DEF Passed
      <3>2. ~(c.whole[i].from <= k)
        BY <1>6
      <3> QED
        BY <1>1, <1>6, <3>1, <3>2
    <2>2. ASSUME i > n + 1
          PROVE  FALSE
      <3>1. n + 1 \in 1..Len(c.whole) /\ n + 1 < i
        BY <1>1, <2>2
      <3>2. c.whole[n + 1].from < c.whole[i].from
        BY <3>1 DEF Honest
      <3>3. c.whole[n + 1].from > k /\ c.whole[n + 1].from \in Nat
        <4>1. c.whole[n + 1].from \in Nat
          BY <3>1, SendableTypes
        <4>2. n + 1 > n
          OBVIOUS
        <4>3. c.whole[n + 1].from > k
          BY <1>2, <3>1, <4>2 DEF Passed
        <4> QED
          BY <4>1, <4>3
      <3> QED
        BY <1>6, <3>2, <3>3
    <2> QED
      BY <1>1, <2>1, <2>2
  <1>8. c.whole[i].to = b
    <2>1. c.whole[i].to = c.whole[i].from - 1 + Len(Sync) + TotalLength(Header(c, c.whole[i].from - 1))
      BY FramesAreHonest
    <2>2. c.whole[i].from - 1 = k
      BY <1>2, <1>6
    <2>3. c.whole[i].to = k + Len(Sync) + TotalLength(h)
      BY <1>2, <2>1, <2>2
    <2> HIDE DEF len, b
    <2> QED
      BY <1>1, <1>2, <1>3, <2>3
  <1>9. h \o SubSeq(t, 1, len) = PacketOf(c, i)
    <2>1. h = Span(c, k + Len(Sync), HeaderLen)
      BY <1>2 DEF Header, Span
    <2> HIDE DEF len, b
    <2>2. Front(t, len) = Span(c, a, len)
      BY <1>1, <1>3, ViewPrefix
    <2> DEFINE d == k + Len(Sync)
    <2>3. d \in Nat /\ a = d + HeaderLen /\ d + HeaderLen + len <= Len(c.bytes)
      BY <1>1, <1>2, <1>3
    <2> HIDE DEF d
    <2>4. Span(c, d, HeaderLen) \o Span(c, a, len) = Span(c, d, HeaderLen + len)
      <3>1. len \in Nat /\ c.bytes \in Seq(Byte)
        BY <1>1, <1>3
      <3>2. Joined(c, d, HeaderLen, len) = Span(c, d, HeaderLen + len)
        BY <1>1, <2>3, <3>1, SpansJoin
      <3> QED
        BY <2>3, <3>2 DEF Joined
    <2>5. Span(c, d, HeaderLen + len) = PacketOf(c, i)
      <3>1. c.whole[i].from + Len(Sync) = d + 1 /\ c.whole[i].to = d + (HeaderLen + len)
        BY <1>1, <1>2, <1>3, <1>6, <1>8 DEF d
      <3> QED
        BY <3>1 DEF Span, PacketOf
    <2> QED
      BY <2>1, <2>2, <2>4, <2>5 DEF Front, d
  <1>10. Passed(c, n + 1, b)
    <2> HIDE DEF len, b
    <2> SUFFICES ASSUME NEW g \in 1..Len(c.whole)
                 PROVE  (g <= n + 1 => c.whole[g].from <= b) /\ (g > n + 1 => c.whole[g].from > b)
      BY DEF Passed
    <2> DEFINE f == c.whole[g].from
               m == f - 1
    <2>1. f \in Nat \ {0} /\ m \in Nat /\ SyncAt(c, m) /\ m = f - 1 /\ g \in Nat
      BY SendableTypes, FramesAreHonest
    <2>2. g <= n => f <= k
      BY <1>2 DEF Passed
    <2>3. g = n + 1 => f = k + 1
      BY <1>6, <1>7
    <2>4. g > n + 1 => f > k + 1
      <3>1. g > n + 1 => c.whole[i].from < f
        BY <1>1, <1>7 DEF Honest
      <3> HIDE DEF f
      <3> QED
        BY <1>2, <1>6, <2>1, <3>1
    <2>5. k + 1 <= b
      <3>1. Len(Sync) \in Nat \ {0}
        BY SendableTypes
      <3> QED
        BY <1>1, <1>2, <1>3, <3>1
    <2> HIDE DEF f, m
    <2>6. ASSUME g > n + 1
          PROVE  f > b
      <3>1. m > k
        BY <1>2, <2>1, <2>4, <2>6
      <3>2. m >= k + Len(Sync)
        BY <1>2, <2>1, <3>1, SyncsAreApart
      <3>3. ~(m \in (k + Len(Sync))..(b - 1))
        BY <1>4, <2>1
      <3> QED
        BY <1>1, <1>2, <1>3, <2>1, <3>2, <3>3
    <2>7. g <= n + 1 => f <= b
      BY <1>1, <1>2, <1>3, <2>1, <2>2, <2>3, <2>5
    <2> QED
      BY <2>6, <2>7 DEF f
  <1> QED
    BY <1>6, <1>7, <1>9, <1>10

-----------------------------------------------------------------------------
(* Then the packetizer: Pushed bytes of the contact have been pushed, and  *)
(* all before Pos has been read.                                           *)
Pushed == Len(contact.bytes) - Len(wire)
Pos    == Pushed - Len(buffer)
Taking == Len(delivered)

Views == View(contact, wire, Pushed) /\ View(contact, buffer, Pos)

Delivers(c, d) == Len(d) <= Len(c.whole) /\ \A i \in 1..Len(d) : d[i] = PacketOf(c, i)

Recovering ==
  /\ Delivers(contact, delivered)
  /\ ~syncFound => Passed(contact, Taking, Pos)
  /\ syncFound /\ ~headerRdy => BehindSync(contact, Taking, Pos)
  /\ headerRdy /\ ~packetRdy => BehindHeader(contact, Taking, Pos, SubSeq(packet, 1, HeaderLen))
  /\ packetRdy => /\ Taking + 1 \in 1..Len(contact.whole) /\ packet = PacketOf(contact, Taking + 1)
                  /\ Passed(contact, Taking + 1, Pos)
  /\ caller = "scanning" => ~EndsInSync(buffer)
  /\ caller = "null" => Unfinished(contact, Taking, Pushed)

LEMMA TypesAtHand ==
  ASSUME PacketizerTypes
  PROVE  /\ contact \in Sendable /\ contact.bytes \in Seq(Byte) /\ Len(contact.bytes) \in Nat
         /\ wire \in Seq(Byte) /\ Len(wire) \in Nat /\ buffer \in Seq(Byte) /\ Len(buffer) \in Nat
         /\ Taking \in Nat /\ delivered \in Seq(Seq(Byte)) /\ packet \in Seq(Byte)
         /\ Len(Sync) \in Nat \ {0} /\ HeaderLen \in Nat \ {0}
         /\ Pushed \in Int /\ Pos \in Int
  <1>1. contact \in Sendable
    BY DEF PacketizerTypes, Sendable
  <1>2. contact.bytes \in Seq(Byte) /\ Len(contact.bytes) \in Nat /\ Len(Sync) \in Nat \ {0} /\ HeaderLen \in Nat \ {0}
    BY <1>1, SendableTypes
  <1>3. wire \in Seq(Byte) /\ buffer \in Seq(Byte) /\ delivered \in Seq(Seq(Byte)) /\ packet \in Seq(Byte)
    BY DEF PacketizerTypes
  <1>4. Len(wire) \in Nat /\ Len(buffer) \in Nat /\ Taking \in Nat
    BY <1>3 DEF Taking
  <1> QED
    BY <1>1, <1>2, <1>3, <1>4 DEF Pushed, Pos

LEMMA LocatedAt ==
  ASSUME PacketizerTypes, Views, Honest(contact), Recovering, caller = "scanning", ~headerRdy, ~packetRdy
  PROVE  LET s == Located.rest
             b == Pushed - Len(s)
         IN  /\ s \in Seq(Byte) /\ View(contact, s, b) /\ ~EndsInSync(s)
             /\ Located.found => BehindSync(contact, Taking, b)
             /\ ~Located.found => /\ ~syncFound /\ Passed(contact, Taking, b)
                                  /\ Unfinished(contact, Taking, Pushed)
  <1>1. PICK m \in Nat : m <= Len(buffer) /\ Located.rest = DropFirst(buffer, m)
                        /\ (syncFound => m = 0 /\ Located.rest = buffer)
                        /\ (~syncFound => m = FindSync(buffer).at + IF Located.found THEN Len(Sync) ELSE 0)
                        /\ (~syncFound => Located.found = FindSync(buffer).found)
    BY LocatedIsSuffix, TypesAtHand
  <1> DEFINE s == Located.rest
             b == Pushed - Len(s)
  <1>2. View(contact, s, Pos + m) /\ Len(s) = Len(buffer) - m
    BY <1>1, ViewDrop, TypesAtHand DEF Views
  <1>3. b = Pos + m
    BY <1>1, <1>2, TypesAtHand DEF Pos
  <1>4. ~EndsInSync(s)
    BY <1>1, SuffixEndsSame, TypesAtHand DEF Recovering
  <1>5. s \in Seq(Byte)
    BY <1>2 DEF View
  <1> HIDE DEF s, b
  <1>6. CASE syncFound
    <2>1. Located.found = TRUE
      BY <1>6 DEF Located
    <2>2. Pos + m = Pos
      BY <1>1, <1>6, TypesAtHand
    <2>3. BehindSync(contact, Taking, Pos)
      BY <1>6 DEF Recovering
    <2> QED
      BY <1>2, <1>3, <1>4, <1>5, <2>1, <2>2, <2>3 DEF s, b
  <1>7. CASE ~syncFound
    <2>1. Passed(contact, Taking, Pos) /\ View(contact, buffer, Pos) /\ ~EndsInSync(buffer)
          /\ contact \in Sendable /\ Taking \in Nat /\ Pos \in Int
      BY <1>7, TypesAtHand DEF Recovering, Views
    <2>2. CASE Located.found
      <3>1. FindSync(buffer).found /\ b = Pos + (FindSync(buffer).at + Len(Sync))
        BY <1>1, <1>3, <1>7, <2>2
      <3>2. BehindSync(contact, Taking, Pos + FindSync(buffer).at + Len(Sync))
        BY <2>1, <3>1, SomethingFound
      <3>3. b = Pos + FindSync(buffer).at + Len(Sync)
        BY <2>1, <3>1, FindSyncFinds, TypesAtHand
      <3> QED
        BY <1>2, <1>3, <1>4, <1>5, <2>2, <3>2, <3>3 DEF s, b
    <2>3. CASE ~Located.found
      <3>1. ~FindSync(buffer).found /\ m = FindSync(buffer).at + 0
        BY <1>1, <1>7, <2>3
      <3>2. Passed(contact, Taking, Pos + FindSync(buffer).at) /\ Unfinished(contact, Taking, Pos + Len(buffer))
        BY <2>1, <3>1, NothingFound
      <3>3. b = Pos + FindSync(buffer).at /\ Pos + Len(buffer) = Pushed
        <4>1. FindSync(buffer).at \in Nat
          BY FindSyncFinds, TypesAtHand
        <4>2. Pos = Pushed - Len(buffer)
          BY DEF Pos
        <4>3. Pushed \in Int /\ Len(buffer) \in Nat
          BY TypesAtHand
        <4>4. Pos + Len(buffer) = Pushed
          BY <4>2, <4>3
        <4>5. m = FindSync(buffer).at
          BY <3>1, <4>1
        <4> QED
          BY <1>3, <4>4, <4>5
      <3> QED
        BY <1>2, <1>3, <1>4, <1>5, <1>7, <2>3, <3>2, <3>3 DEF s, b
    <2> QED
      BY <2>2, <2>3
  <1> QED
    BY <1>6, <1>7

LEMMA TakenAt ==
  ASSUME PacketizerTypes, Views, Honest(contact), Recovering, caller = "scanning", ~packetRdy,
         NEW h, NEW t, Taken(h, t)
  PROVE  /\ t \in Seq(Byte) /\ View(contact, t, Pushed - Len(t)) /\ ~EndsInSync(t)
         /\ BehindHeader(contact, Taking, Pushed - Len(t), h)
  <1>1. CASE headerRdy
    <2>1. h = SubSeq(packet, 1, HeaderLen) /\ t = buffer
      BY <1>1 DEF Taken
    <2>2. BehindHeader(contact, Taking, Pos, h) /\ ~EndsInSync(buffer)
      BY <1>1, <2>1 DEF Recovering
    <2> QED
      BY <2>1, <2>2, TypesAtHand DEF Views, Pos
  <1>2. CASE ~headerRdy
    <2> DEFINE s == Located.rest
               b == Pushed - Len(s)
    <2>1. s \in Seq(Byte) /\ View(contact, s, b) /\ ~EndsInSync(s) /\ (Located.found => BehindSync(contact, Taking, b))
      BY <1>2, LocatedAt
    <2>2. Located.found /\ HeaderLen <= Len(s) /\ ~SyncWithin(s, HeaderLen)
          /\ h = SubSeq(s, 1, HeaderLen) /\ t = DropFirst(s, HeaderLen)
      BY <1>2 DEF Taken
    <2> HIDE DEF s
    <2>3. BehindHeader(contact, Taking, b + HeaderLen, SubSeq(s, 1, HeaderLen))
      BY <2>1, <2>2, HeaderTaken, TypesAtHand
    <2>4. View(contact, t, b + HeaderLen) /\ Len(t) = Len(s) - HeaderLen
      BY <2>1, <2>2, ViewDrop, TypesAtHand
    <2>5. b + HeaderLen = Pushed - Len(t)
      BY <2>1, <2>4, TypesAtHand
    <2>6. ~EndsInSync(t)
      BY <2>1, <2>2, SuffixEndsSame, TypesAtHand
    <2>7. t \in Seq(Byte)
      BY <2>4 DEF View
    <2> QED
      BY <2>2, <2>3, <2>4, <2>5, <2>6, <2>7
  <1> QED
    BY <1>1, <1>2

StreamInv ==
  /\ PacketizerTypes
  /\ ~refused => Views
  /\ ~refused /\ ~edge /\ Honest(contact) => Recovering

LEMMA DropTypes ==
  ASSUME NEW s \in Seq(Byte), NEW n \in Nat, n <= Len(s)
  PROVE  /\ DropFirst(s, n) \in Seq(Byte) /\ Len(DropFirst(s, n)) = Len(s) - n
         /\ \A j \in 1..(Len(s) - n) : DropFirst(s, n)[j] = s[n + j]
  BY DEF DropFirst

LEMMA DropTwice ==
  ASSUME NEW s \in Seq(Byte), NEW i1 \in Nat, i1 <= Len(s), NEW i2 \in Nat, i2 <= Len(DropFirst(s, i1))
  PROVE  i1 + i2 \in Nat /\ i1 + i2 <= Len(s) /\ DropFirst(DropFirst(s, i1), i2) = DropFirst(s, i1 + i2)
  <1> DEFINE d == DropFirst(s, i1)
             e == DropFirst(d, i2)
             f == DropFirst(s, i1 + i2)
  <1>1. d \in Seq(Byte) /\ Len(d) = Len(s) - i1 /\ Len(s) \in Nat /\ \A j \in 1..(Len(s) - i1) : d[j] = s[i1 + j]
    BY DropTypes
  <1>2. i2 <= Len(d)
    OBVIOUS
  <1> HIDE DEF d
  <1>3. i1 + i2 \in Nat /\ i1 + i2 <= Len(s)
    BY <1>1, <1>2
  <1>4. e \in Seq(Byte) /\ Len(e) = Len(d) - i2 /\ \A j \in 1..(Len(d) - i2) : e[j] = d[i2 + j]
    BY <1>1, <1>2, DropTypes
  <1>5. f \in Seq(Byte) /\ Len(f) = Len(s) - (i1 + i2) /\ \A j \in 1..(Len(s) - (i1 + i2)) : f[j] = s[i1 + i2 + j]
    BY <1>3, DropTypes
  <1> HIDE DEF e, f
  <1>6. Len(e) = Len(f)
    BY <1>1, <1>4, <1>5
  <1>7. ASSUME NEW j \in 1..Len(e)
        PROVE  e[j] = f[j]
    <2>1. i2 + j \in 1..(Len(s) - i1) /\ i1 + (i2 + j) = i1 + i2 + j
      BY <1>1, <1>2, <1>4
    <2>2. j \in 1..(Len(d) - i2) /\ j \in 1..(Len(s) - (i1 + i2))
      BY <1>1, <1>4, <1>5, <1>6
    <2> QED
      BY <1>1, <1>4, <1>5, <2>1, <2>2
  <1>8. e = f
    <2>1. e \in Seq(Byte) /\ f \in Seq(Byte)
      BY <1>4, <1>5
    <2> QED
      BY <1>6, <1>7, <2>1
  <1> QED
    BY <1>3, <1>8 DEF d, e, f

LEMMA PacketizeViews ==
  ASSUME PacketizerTypes, Views, Packetize
  PROVE  Views'
  <1>1. contact' = contact /\ wire' = wire
    BY PacketizeCases
  <1>2. View(contact, wire, Pushed) /\ Pushed' = Pushed
    BY <1>1 DEF Views, Pushed
  <1>3. PICK m \in Nat : m <= Len(buffer) /\ buffer' = DropFirst(buffer, m)
    <2>1. PICK i \in Nat : i <= Len(buffer) /\ Located.rest = DropFirst(buffer, i)
      BY LocatedIsSuffix, TypesAtHand
    <2>2. ASSUME NEW i1 \in Nat, i1 <= Len(buffer), NEW i2 \in Nat, i2 <= Len(DropFirst(buffer, i1))
          PROVE  i1 + i2 \in Nat /\ i1 + i2 <= Len(buffer)
                 /\ DropFirst(DropFirst(buffer, i1), i2) = DropFirst(buffer, i1 + i2)
      BY <2>2, DropTwice, TypesAtHand
    <2>3. \A i1, i2 \in Nat : i1 <= Len(buffer) /\ i2 <= Len(DropFirst(buffer, i1)) =>
            \E m \in Nat : m <= Len(buffer) /\ DropFirst(DropFirst(buffer, i1), i2) = DropFirst(buffer, m)
      BY <2>2
    <2>4. CASE Missed \/ ShortHeader \/ CutHeader
      BY <2>1, <2>4 DEF Missed, ShortHeader, CutHeader
    <2>5. ASSUME NEW h, NEW t, Taken(h, t)
          PROVE  \E m \in Nat : m <= Len(buffer) /\ t = DropFirst(buffer, m)
      <3>1. CASE headerRdy
        <4>1. t = DropFirst(buffer, 0)
          BY <2>5, <3>1, TypesAtHand DEF Taken, DropFirst
        <4>2. 0 \in Nat /\ 0 <= Len(buffer)
          BY TypesAtHand
        <4> QED
          BY <4>1, <4>2
      <3>2. CASE ~headerRdy
        <4>1. t = DropFirst(Located.rest, HeaderLen) /\ HeaderLen <= Len(Located.rest) /\ HeaderLen \in Nat
          BY <2>5, <3>2, TypesAtHand DEF Taken
        <4> QED
          BY <2>1, <2>3, <4>1
      <3> QED
        BY <3>1, <3>2
    <2>6. ASSUME NEW h, NEW t, Taken(h, t), CutMessage(h, t) \/ WholeMessage(h, t) \/ ShortMessage(h, t)
          PROVE  \E m \in Nat : m <= Len(buffer) /\ buffer' = DropFirst(buffer, m)
      <3>1. PICK i1 \in Nat : i1 <= Len(buffer) /\ t = DropFirst(buffer, i1)
        BY <2>5, <2>6
      <3>2. CASE CutMessage(h, t) \/ ShortMessage(h, t)
        BY <3>1, <3>2 DEF CutMessage, ShortMessage
      <3>3. CASE WholeMessage(h, t)
        <4>1. buffer' = DropFirst(t, PayloadLength(h)) /\ PayloadLength(h) <= Len(t) /\ PayloadLength(h) \in Nat
          BY <2>6, <3>3, TakenTypes DEF WholeMessage
        <4> QED
          BY <2>3, <3>1, <4>1
      <3> QED
        BY <2>6, <3>2, <3>3
    <2> QED
      BY <2>4, <2>6, PacketizeCases
  <1>4. View(contact, DropFirst(buffer, m), Pos + m) /\ Len(DropFirst(buffer, m)) = Len(buffer) - m
    BY <1>3, ViewDrop, TypesAtHand DEF Views
  <1>5. Pos' = Pos + m
    <2>1. Pos' = Pushed - Len(buffer') /\ Pos = Pushed - Len(buffer)
      BY <1>2 DEF Pos
    <2>2. Len(buffer') = Len(buffer) - m
      BY <1>3, <1>4
    <2> QED
      BY <1>3, <2>1, <2>2, TypesAtHand
  <1> QED
    BY <1>1, <1>2, <1>3, <1>4, <1>5 DEF Views

LEMMA PacketizeRecovers ==
  ASSUME PacketizerTypes, Views, Honest(contact), Recovering, Packetize
  PROVE  Recovering'
  <1>1. caller = "scanning" /\ ~packetRdy /\ contact' = contact /\ wire' = wire /\ delivered' = delivered
    BY PacketizeCases
  <1>2. Pushed' = Pushed /\ Taking' = Taking /\ Pos' = Pushed - Len(buffer')
    BY <1>1 DEF Pushed, Taking, Pos
  <1>3. Delivers(contact, delivered) /\ Honest(contact)
    BY DEF Recovering
  <1>4. contact \in Sendable /\ Taking \in Nat /\ HeaderLen \in Nat
    BY TypesAtHand
  <1>5. CASE Missed
    <2>1. ~headerRdy /\ ~Located.found /\ buffer' = Located.rest /\ caller' = "null"
          /\ syncFound' = syncFound /\ headerRdy' = FALSE /\ packetRdy' = FALSE
      BY <1>5 DEF Missed
    <2>2. ~syncFound /\ Passed(contact, Taking, Pushed - Len(Located.rest)) /\ Unfinished(contact, Taking, Pushed)
      BY <1>1, <1>3, <2>1, LocatedAt
    <2> QED
      BY <1>1, <1>2, <1>3, <2>1, <2>2 DEF Recovering
  <1>6. CASE ShortHeader
    <2>1. ~headerRdy /\ Located.found /\ buffer' = Located.rest /\ caller' = "null"
          /\ syncFound' = TRUE /\ headerRdy' = FALSE /\ packetRdy' = FALSE /\ Len(Located.rest) < HeaderLen
      BY <1>6 DEF ShortHeader
    <2> DEFINE b == Pushed - Len(Located.rest)
    <2>2. BehindSync(contact, Taking, b) /\ Located.rest \in Seq(Byte) /\ View(contact, Located.rest, b)
      BY <1>1, <1>3, <2>1, LocatedAt
    <2>3. b \in Nat /\ Len(Located.rest) \in Nat
      BY <2>2 DEF View
    <2>4. Pushed \in Nat /\ Pushed < b + HeaderLen
      <3>1. Pushed = b + Len(Located.rest)
        BY <2>3, TypesAtHand
      <3> HIDE DEF b
      <3> QED
        BY <1>4, <2>1, <2>3, <3>1
    <2> HIDE DEF b
    <2>5. Unfinished(contact, Taking, Pushed)
      BY <1>3, <1>4, <2>2, <2>3, <2>4, HeaderToCome
    <2> QED
      BY <1>1, <1>2, <1>3, <2>1, <2>2, <2>5 DEF Recovering, b
  <1>7. CASE CutHeader
    <2>1. ~headerRdy /\ Located.found /\ buffer' = Located.rest /\ caller' = "scanning"
          /\ syncFound' = FALSE /\ headerRdy' = FALSE /\ packetRdy' = FALSE /\ SyncWithin(Located.rest, HeaderLen)
      BY <1>7 DEF CutHeader
    <2> DEFINE b == Pushed - Len(Located.rest)
    <2>2. BehindSync(contact, Taking, b) /\ View(contact, Located.rest, b) /\ ~EndsInSync(Located.rest)
      BY <1>1, <1>3, <2>1, LocatedAt
    <2>3. ~EndsInSync(buffer)' /\ caller' # "null"
      BY <2>1, <2>2 DEF EndsInSync
    <2> HIDE DEF b
    <2>4. Passed(contact, Taking, b)
      BY <1>3, <1>4, <2>1, <2>2, HeaderCutOff
    <2> QED
      BY <1>1, <1>2, <1>3, <2>1, <2>3, <2>4 DEF Recovering, b
  <1>8. ASSUME NEW h, NEW t, Taken(h, t), CutMessage(h, t)
        PROVE  Recovering'
    <2> DEFINE b == Pushed - Len(t)
    <2>1. View(contact, t, b) /\ ~EndsInSync(t) /\ BehindHeader(contact, Taking, b, h)
      BY <1>1, <1>3, <1>8, TakenAt
    <2>2. SyncWithin(t, PayloadLength(h)) /\ buffer' = t /\ caller' = "scanning" /\ syncFound' = FALSE
          /\ headerRdy' = FALSE /\ packetRdy' = FALSE
      BY <1>8 DEF CutMessage
    <2>3. ~EndsInSync(buffer)' /\ caller' # "null"
      BY <2>1, <2>2 DEF EndsInSync
    <2> HIDE DEF b
    <2>4. Passed(contact, Taking, b)
      BY <1>3, <1>4, <2>1, <2>2, MessageCutOff
    <2> QED
      BY <1>1, <1>2, <1>3, <2>2, <2>3, <2>4 DEF Recovering, b
  <1>9. ASSUME NEW h, NEW t, Taken(h, t), ShortMessage(h, t)
        PROVE  Recovering'
    <2> DEFINE b == Pushed - Len(t)
    <2>1. View(contact, t, b) /\ ~EndsInSync(t) /\ BehindHeader(contact, Taking, b, h) /\ t \in Seq(Byte)
      BY <1>1, <1>3, <1>9, TakenAt
    <2>2. ~SyncWithin(t, PayloadLength(h)) /\ PayloadLength(h) > Len(t) /\ buffer' = t /\ packet' = h
          /\ caller' = "null" /\ syncFound' = TRUE /\ headerRdy' = TRUE /\ packetRdy' = FALSE
      BY <1>9 DEF ShortMessage
    <2>3. SubSeq(h, 1, HeaderLen) = h
      BY <1>9, TakenTypes
    <2>4. b + Len(t) = Pushed
      BY <2>1, TypesAtHand
    <2> HIDE DEF b
    <2>5. Unfinished(contact, Taking, b + Len(t))
      BY <1>3, <1>4, <2>1, <2>2, MessageToCome
    <2>6. BehindHeader(contact, Taking, b, SubSeq(packet', 1, HeaderLen))
      BY <2>1, <2>2, <2>3
    <2> QED
      BY <1>1, <1>2, <1>3, <2>2, <2>4, <2>5, <2>6 DEF Recovering, b
  <1>10. ASSUME NEW h, NEW t, Taken(h, t), WholeMessage(h, t)
         PROVE  Recovering'
    <2> DEFINE b   == Pushed - Len(t)
               len == PayloadLength(h)
    <2>1. View(contact, t, b) /\ ~EndsInSync(t) /\ BehindHeader(contact, Taking, b, h) /\ t \in Seq(Byte)
      BY <1>1, <1>3, <1>10, TakenAt
    <2>2. ~SyncWithin(t, len) /\ len <= Len(t) /\ buffer' = DropFirst(t, len)
          /\ packet' = h \o SubSeq(t, 1, len)
          /\ caller' \in {"packet", "overrun"} /\ syncFound' = TRUE /\ headerRdy' = TRUE /\ packetRdy' = TRUE
      BY <1>10 DEF WholeMessage
    <2>3. len \in Nat
      BY <1>10, TakenTypes
    <2>4. Taking + 1 \in 1..Len(contact.whole) /\ h \o SubSeq(t, 1, len) = PacketOf(contact, Taking + 1)
          /\ Passed(contact, Taking + 1, b + len)
      <3> HIDE DEF b
      <3> QED
        BY <1>3, <1>4, <2>1, <2>2, MessageTaken
    <2> HIDE DEF len
    <2>5. Pos' = b + len
      <3>1. Len(DropFirst(t, len)) = Len(t) - len
        BY <2>1, <2>2, <2>3 DEF DropFirst
      <3> QED
        BY <1>2, <2>1, <2>2, <2>3, <3>1, TypesAtHand
    <2> HIDE DEF b
    <2> QED
      BY <1>1, <1>2, <1>3, <2>2, <2>4, <2>5 DEF Recovering
  <1> QED
    BY <1>5, <1>6, <1>7, <1>8, <1>9, <1>10, PacketizeCases

LEMMA StreamStarts ==
  ASSUME NEW c \in Sendable
  PROVE  View(c, c.bytes, 0) /\ View(c, <<>>, 0) /\ Passed(c, 0, 0) /\ Delivers(c, <<>>)
  <1>1. c.bytes \in Seq(Byte) /\ Len(c.bytes) \in Nat /\ Len(c.whole) \in Nat
        /\ \A i \in 1..Len(c.whole) : c.whole[i].from \in Nat \ {0}
    BY SendableTypes
  <1>2. View(c, c.bytes, 0) /\ View(c, <<>>, 0)
    BY <1>1 DEF View
  <1>3. Passed(c, 0, 0)
    BY <1>1 DEF Passed
  <1>4. Delivers(c, <<>>)
    BY <1>1 DEF Delivers
  <1> QED
    BY <1>2, <1>3, <1>4

LEMMA StreamStep == StreamInv /\ [PacketizerNext]_packetizerVars => StreamInv'
  <1> SUFFICES ASSUME StreamInv, [PacketizerNext]_packetizerVars PROVE StreamInv'
    OBVIOUS
  <1>1. PacketizerTypes /\ PacketizerTypes'
    BY TypesStep DEF StreamInv
  <1>2. ~refused => Views
    BY DEF StreamInv
  <1>3. ~refused /\ ~edge /\ Honest(contact) => Recovering
    BY DEF StreamInv
  <1>4. ASSUME NEW n \in 1..MaxChunk, PushBytes(n)
        PROVE  StreamInv'
    <2>1. /\ caller' = "ready" /\ contact' = contact /\ wire' = DropFirst(wire, n) /\ n <= Len(wire) /\ n \in Nat
          /\ UNCHANGED <<packet, syncFound, headerRdy, packetRdy, delivered, edge>>
      BY <1>4, PacketizerAssumption DEF PushBytes, flags, PacketizerAssumption
    <2>2. ~refused' => ~refused /\ buffer' = buffer \o SubSeq(wire, 1, n)
      BY <1>4 DEF PushBytes
    <2>3. ASSUME ~refused'
          PROVE  Views' /\ Pos' = Pos
      <3>1. Views /\ buffer' = buffer \o SubSeq(wire, 1, n)
        BY <1>2, <2>2, <2>3
      <3>2. View(contact, DropFirst(wire, n), Pushed + n) /\ Len(DropFirst(wire, n)) = Len(wire) - n
        BY <2>1, <3>1, ViewDrop, TypesAtHand, <1>1 DEF Views
      <3>3. Pushed' = Pushed + n
        <4>1. Pushed' = Len(contact.bytes) - (Len(wire) - n)
          BY <2>1, <3>2 DEF Pushed
        <4> QED
          BY <1>1, <2>1, <4>1, TypesAtHand DEF Pushed
      <3>4. Pos + Len(buffer) = Pushed
        BY <1>1, TypesAtHand DEF Pos
      <3>5. View(contact, buffer \o SubSeq(wire, 1, n), Pos) /\ Len(buffer \o SubSeq(wire, 1, n)) = Len(buffer) + n
        <4>1. View(contact, buffer, Pos) /\ View(contact, wire, Pos + Len(buffer)) /\ contact.bytes \in Seq(Byte)
          BY <1>1, <3>1, <3>4, TypesAtHand DEF Views
        <4> QED
          BY <2>1, <4>1, ViewGrows
      <3>6. Pos' = Pos
        <4>1. Len(buffer') = Len(buffer) + n
          BY <3>1, <3>5
        <4>2. Pos' = Pushed' - Len(buffer')
          BY DEF Pos
        <4> QED
          BY <1>1, <2>1, <3>3, <3>4, <4>1, <4>2, TypesAtHand
      <3> QED
        BY <2>1, <3>1, <3>2, <3>3, <3>5, <3>6 DEF Views
    <2>4. ASSUME ~refused', ~edge', Honest(contact')
          PROVE  Recovering'
      <3>1. Recovering /\ Pos' = Pos /\ Taking' = Taking
        BY <1>3, <2>1, <2>2, <2>3, <2>4 DEF Taking
      <3> QED
        BY <2>1, <3>1 DEF Recovering
    <2> QED
      BY <1>1, <2>3, <2>4 DEF StreamInv
  <1>5. CASE GetPacket
    <2>1. UNCHANGED <<contact, wire, buffer, packet, syncFound, headerRdy, packetRdy, delivered, refused>>
          /\ caller' = "scanning" /\ edge' = (edge \/ EndsInSync(buffer))
      BY <1>5 DEF GetPacket, stream, flags
    <2>2. Pushed' = Pushed /\ Pos' = Pos /\ Taking' = Taking
      BY <2>1 DEF Pushed, Pos, Taking
    <2>3. ~refused' => Views'
      BY <1>2, <2>1, <2>2 DEF Views
    <2>4. ASSUME ~refused', ~edge', Honest(contact')
          PROVE  Recovering'
      <3>1. Recovering /\ ~EndsInSync(buffer)
        BY <1>3, <2>1, <2>4
      <3>2. ~EndsInSync(buffer)'
        BY <2>1, <3>1 DEF EndsInSync
      <3> QED
        BY <2>1, <2>2, <3>1, <3>2 DEF Recovering
    <2> QED
      BY <1>1, <2>3, <2>4 DEF StreamInv
  <1>6. CASE Packetize
    <2>1. contact' = contact /\ edge' = edge /\ refused' = refused
      BY <1>1, <1>6, PacketizeCases
    <2>2. ~refused' => Views'
      BY <1>1, <1>2, <1>6, <2>1, PacketizeViews
    <2>3. ~refused' /\ ~edge' /\ Honest(contact') => Recovering'
      BY <1>1, <1>2, <1>3, <1>6, <2>1, PacketizeRecovers
    <2> QED
      BY <1>1, <2>2, <2>3 DEF StreamInv
  <1>7. CASE PopPacket
    <2>1. UNCHANGED <<contact, wire, buffer, edge, refused>> /\ caller = "packet" /\ caller' = "ready"
          /\ delivered' = Append(delivered, packet) /\ ~syncFound' /\ ~headerRdy' /\ ~packetRdy'
      BY <1>7 DEF PopPacket, stream
    <2>2. Pushed' = Pushed /\ Pos' = Pos
      BY <2>1 DEF Pushed, Pos
    <2>3. ~refused' => Views'
      BY <1>2, <2>1, <2>2 DEF Views
    <2>4. ASSUME ~refused', ~edge', Honest(contact')
          PROVE  Recovering'
      <3>1. Recovering /\ packetRdy
        BY <1>1, <1>3, <2>1, <2>4 DEF PacketizerTypes
      <3>2. Taking + 1 \in 1..Len(contact.whole) /\ packet = PacketOf(contact, Taking + 1)
            /\ Passed(contact, Taking + 1, Pos) /\ Delivers(contact, delivered)
        BY <3>1 DEF Recovering
      <3>3. Len(delivered') = Taking + 1 /\ delivered'[Taking + 1] = packet
            /\ \A i \in 1..Taking : delivered'[i] = delivered[i]
        BY <1>1, <2>1, TypesAtHand DEF Taking
      <3>4. Taking' = Taking + 1
        BY <3>3 DEF Taking
      <3>5. Delivers(contact, delivered')
        <4> SUFFICES ASSUME NEW i \in 1..Len(delivered') PROVE delivered'[i] = PacketOf(contact, i)
          <5>1. Len(delivered') <= Len(contact.whole)
            BY <1>1, <3>2, <3>3, SendableTypes, TypesAtHand
          <5> QED
            BY <5>1 DEF Delivers
        <4>1. CASE i = Taking + 1
          BY <3>2, <3>3, <4>1
        <4>2. CASE i # Taking + 1
          <5>1. i \in 1..Taking
            BY <1>1, <3>3, <4>2, TypesAtHand
          <5> QED
            BY <3>2, <3>3, <5>1 DEF Delivers, Taking
        <4> QED
          BY <4>1, <4>2
      <3> QED
        BY <2>1, <2>2, <3>2, <3>4, <3>5 DEF Recovering
    <2> QED
      BY <1>1, <2>3, <2>4 DEF StreamInv
  <1>8. CASE Clear
    <2>1. contact' \in Sendable /\ wire' = contact'.bytes /\ buffer' = <<>> /\ delivered' = <<>> /\ caller' = "ready"
          /\ ~syncFound' /\ ~headerRdy' /\ ~packetRdy'
      BY <1>8 DEF Clear, Sendable
    <2>2. View(contact', contact'.bytes, 0) /\ View(contact', <<>>, 0) /\ Passed(contact', 0, 0)
          /\ Delivers(contact', <<>>) /\ Len(contact'.bytes) \in Nat
      BY <2>1, StreamStarts, SendableTypes
    <2>3. Pushed' = 0
      BY <2>1, <2>2 DEF Pushed
    <2>4. Pos' = 0 /\ Taking' = 0
      <3>1. Len(buffer') = 0 /\ Len(delivered') = 0
        BY <2>1
      <3> QED
        BY <2>3, <3>1 DEF Pos, Taking
    <2>5. Views' /\ Recovering'
      BY <2>1, <2>2, <2>3, <2>4 DEF Views, Recovering
    <2> QED
      BY <1>1, <2>5 DEF StreamInv
  <1>9. CASE UNCHANGED packetizerVars
    <2>1. UNCHANGED <<contact, wire, buffer, packet, syncFound, headerRdy, packetRdy, caller, delivered, edge, refused>>
      BY <1>9 DEF packetizerVars, stream, flags
    <2>2. Pushed' = Pushed /\ Pos' = Pos /\ Taking' = Taking
      BY <2>1 DEF Pushed, Pos, Taking
    <2>3. EndsInSync(buffer)' <=> EndsInSync(buffer)
      BY <2>1 DEF EndsInSync
    <2>4. Views => Views'
      BY <2>1, <2>2 DEF Views
    <2>5. Recovering => Recovering'
      BY <2>1, <2>2, <2>3 DEF Recovering
    <2> QED
      BY <1>1, <1>2, <1>3, <2>1, <2>4, <2>5 DEF StreamInv
  <1> QED
    BY <1>4, <1>5, <1>6, <1>7, <1>8, <1>9 DEF PacketizerNext

LEMMA StreamBegins == PacketizerInit => StreamInv
  <1> SUFFICES ASSUME PacketizerInit PROVE StreamInv
    OBVIOUS
  <1>1. contact \in Sendable /\ wire = contact.bytes /\ buffer = <<>> /\ delivered = <<>> /\ caller = "ready"
        /\ ~syncFound /\ ~headerRdy /\ ~packetRdy
    BY DEF PacketizerInit, Sendable
  <1>2. View(contact, contact.bytes, 0) /\ View(contact, <<>>, 0) /\ Passed(contact, 0, 0)
        /\ Delivers(contact, <<>>) /\ Len(contact.bytes) \in Nat
    BY <1>1, StreamStarts, SendableTypes
  <1>3. Pushed = 0
    BY <1>1, <1>2 DEF Pushed
  <1>4. Pos = 0 /\ Taking = 0
    <2>1. Len(buffer) = 0 /\ Len(delivered) = 0
      BY <1>1
    <2> QED
      BY <1>3, <2>1 DEF Pos, Taking
  <1>5. Views /\ Recovering
    BY <1>1, <1>2, <1>3, <1>4 DEF Views, Recovering
  <1> QED
    BY <1>5, TypesStart DEF StreamInv

(* Every frame sent whole comes back, whatever is between the frames and   *)
(* however the stream is cut into chunks, for every sync word, header,     *)
(* store and contact, unless one is longer than the packet buffer; without *)
(* such a frame nothing is ever written past that buffer.                  *)
THEOREM StreamComesBack == PacketizerSpec => []StreamRecovered
  <1>1. PacketizerInit => StreamInv
    BY StreamBegins
  <1>2. StreamInv => StreamRecovered
    <2> SUFFICES ASSUME StreamInv PROVE StreamRecovered
      OBVIOUS
    <2>1. PacketizerTypes /\ PacketizerTypeOK
      BY TypesAreOK DEF StreamInv
    <2>2. ASSUME Honest(contact), AllRead, ~edge, ~refused
          PROVE  delivered = WholePackets
      <3>1. Recovering /\ wire = <<>> /\ caller = "null"
        BY <2>2 DEF StreamInv, AllRead
      <3>2. Delivers(contact, delivered) /\ Unfinished(contact, Taking, Pushed)
        BY <3>1 DEF Recovering
      <3>3. Pushed = Len(contact.bytes)
        BY <2>1, <3>1, TypesAtHand DEF Pushed
      <3>4. ASSUME NEW i \in 1..Len(contact.whole)
            PROVE  ~(i > Taking)
        <4> DEFINE k == contact.whole[i].from - 1
        <4>1. k \in Nat /\ FrameAt(contact, k) /\ contact.whole[i].to = k + Len(Sync) + TotalLength(Header(contact, k))
          BY <2>1, <2>2, FramesAreHonest, TypesAtHand
        <4>2. k + Len(Sync) + TotalLength(Header(contact, k)) <= Len(contact.bytes)
          BY <4>1 DEF FrameAt, Free
        <4>3. i > Taking => contact.whole[i].to > Len(contact.bytes)
          BY <3>2, <3>3 DEF Unfinished
        <4>4. contact.whole[i].to \in Nat /\ Len(contact.bytes) \in Nat
          BY <2>1, SendableTypes, TypesAtHand
        <4> QED
          BY <4>1, <4>2, <4>3, <4>4
      <3>5. Taking = Len(contact.whole)
        <4>1. Taking \in Nat /\ Len(contact.whole) \in Nat /\ Taking <= Len(contact.whole)
          BY <2>1, <3>2, SendableTypes, TypesAtHand DEF Delivers, Taking
        <4>2. Taking < Len(contact.whole) => Len(contact.whole) \in 1..Len(contact.whole)
          BY <4>1
        <4> QED
          BY <3>4, <4>1, <4>2
      <3>6. delivered \in Seq(Seq(Byte)) /\ Len(delivered) = Len(contact.whole) /\ Len(contact.whole) \in Nat
        BY <2>1, <3>5, TypesAtHand, SendableTypes DEF Taking
      <3>7. \A i \in 1..Len(contact.whole) : delivered[i] = WholePacket(i)
        BY <3>2, <3>6 DEF Delivers, PacketOf, WholePacket
      <3>8. delivered = [i \in 1..Len(contact.whole) |-> delivered[i]]
        BY <3>6
      <3> QED
        BY <3>7, <3>8 DEF WholePackets
    <2>3. ASSUME Honest(contact), caller = "overrun", ~edge, ~refused
          PROVE  \E i \in 1..Len(contact.whole) : Len(WholePacket(i)) > PacketMaxLen
      <3>1. Recovering /\ packetRdy /\ Len(packet) > PacketMaxLen
        BY <2>1, <2>3 DEF StreamInv, PacketizerTypes
      <3>2. Taking + 1 \in 1..Len(contact.whole) /\ packet = PacketOf(contact, Taking + 1)
        BY <3>1 DEF Recovering
      <3> QED
        BY <3>1, <3>2 DEF PacketOf, WholePacket
    <2> QED
      BY <2>1, <2>2, <2>3 DEF StreamRecovered
  <1> QED
    BY <1>1, <1>2, StreamStep, PTL DEF PacketizerSpec

-----------------------------------------------------------------------------
(* What can be lost at all.  Frame i is first or behind a whole frame:     *)
Behind(c, i) == c.whole[i].from = 1 \/ (i > 1 /\ c.whole[i - 1].to = c.whole[i].from - 1)

(* it is among the packets d, or one of them holds the frame before it.    *)
Kept(c, d, i) ==
  \E j \in 1..Len(d) :
    d[j] = PacketOf(c, i) \/ (i > 1 /\ \E k \in 1..Len(d[j]) : OccursAt(d[j], PacketOf(c, i - 1), k))

(* So much for all frames that begin in the first k bytes,                 *)
Settled(c, d, k) == \A i \in 1..Len(c.whole) : Behind(c, i) /\ c.whole[i].from <= k => Kept(c, d, i)

(* or that end in the first b bytes.                                       *)
Waits(c, d, b) == \A i \in 1..Len(c.whole) : Behind(c, i) => Kept(c, d, i) \/ c.whole[i].to > b

(* A sync word begins in front of frame i: not inside the frame before it. *)
LEMMA BeforeFrame ==
  ASSUME NEW c \in Sendable, Honest(c), NEW i \in 1..Len(c.whole), Behind(c, i),
         NEW k \in Nat, SyncAt(c, k), k + 1 < c.whole[i].from
  PROVE  \E m \in Nat, t \in Nat :
           /\ i > 1 /\ i - 1 \in 1..Len(c.whole)
           /\ m = c.whole[i - 1].from - 1 /\ c.whole[i - 1].to = m + Len(Sync) + t
           /\ t = TotalLength(Header(c, m)) /\ t >= HeaderLen
           /\ c.whole[i].from - 1 = m + Len(Sync) + t
           /\ SyncAt(c, m) /\ (m = k \/ m >= k + Len(Sync))
  <1>1. c.whole[i].from \in Nat /\ Len(c.whole) \in Nat /\ Len(Sync) \in Nat \ {0} /\ HeaderLen \in Nat /\ SizeMod \in Nat
    BY SendableTypes
  <1>2. i > 1 /\ c.whole[i - 1].to = c.whole[i].from - 1 /\ i - 1 \in 1..Len(c.whole)
    <2>1. c.whole[i].from # 1
      BY <1>1
    <2> QED
      BY <1>1, <2>1 DEF Behind
  <1> DEFINE m == c.whole[i - 1].from - 1
             t == TotalLength(Header(c, m))
  <1>3. m \in Nat /\ SyncAt(c, m) /\ FrameAt(c, m) /\ t \in HeaderLen..(SizeMod - 1)
        /\ c.whole[i - 1].to = m + Len(Sync) + t
    BY <1>2, FramesAreHonest
  <1>4. c.whole[i].from - 1 = m + Len(Sync) + t
    BY <1>2, <1>3
  <1>5. t \in Nat /\ t >= HeaderLen
    BY <1>1, <1>3
  <1>6. Free(c, m, t)
    BY <1>3 DEF FrameAt
  <1>7. k < m + Len(Sync) + t
    <2> DEFINE f == c.whole[i].from
    <2>1. f \in Nat /\ k + 1 < f /\ f - 1 = m + Len(Sync) + t
      BY <1>1, <1>4
    <2> HIDE DEF f, m, t
    <2> QED
      BY <1>1, <1>3, <1>5, <2>1
  <1> HIDE DEF m, t
  <1>8. ~(k > m)
    <2> SUFFICES ASSUME k > m PROVE FALSE
      OBVIOUS
    <2>1. k >= m + Len(Sync)
      BY <1>3, SyncsAreApart
    <2> DEFINE j == k - (m + Len(Sync))
    <2>2. j \in 0..(t - 1) /\ m + Len(Sync) + j = k
      BY <1>1, <1>3, <1>5, <1>7, <2>1
    <2> HIDE DEF j
    <2>3. ~SyncAt(c, m + Len(Sync) + j)
      BY <1>6, <2>2 DEF Free
    <2> QED
      BY <2>2, <2>3
  <1>9. m = k \/ m >= k + Len(Sync)
    <2>1. m > k => m >= k + Len(Sync)
      BY <1>3, SyncsAreApart
    <2> QED
      BY <1>3, <1>8, <2>1
  <1> QED
    BY <1>2, <1>3, <1>4, <1>5, <1>9 DEF m, t

(* A search that does not see a sync word has it at the end of the store.  *)
LEMMA UnseenIsLast ==
  ASSUME NEW c, c.bytes \in Seq(Byte), NEW s, NEW a, View(c, s, a), NEW j \in Nat, SyncAt(c, a + j),
         FindSync(s).found => j < FindSync(s).at
  PROVE  j + Len(Sync) >= Len(s)
  <1>1. s \in Seq(Byte) /\ a \in Nat /\ Len(s) \in Nat /\ Len(Sync) \in Nat \ {0}
    BY PacketizerAssumption DEF View, PacketizerAssumption
  <1> SUFFICES ASSUME j + Len(Sync) < Len(s) PROVE FALSE
    BY <1>1
  <1>2. OccursAt(s, Sync, j)
    <2>1. j + Len(Sync) <= Len(s)
      BY <1>1
    <2> QED
      BY <2>1, ViewOccurs
  <1>3. CASE FindSync(s).found
    <2>1. j \in 0..(FindSync(s).at - 1)
      BY <1>1, <1>3, FindSyncFinds
    <2> QED
      BY <1>1, <1>2, <1>3, <2>1, FindSyncFinds
  <1>4. CASE ~FindSync(s).found
    BY <1>1, <1>2, <1>4, FindSyncFinds
  <1> QED
    BY <1>3, <1>4

LEMMA SeenIsReal ==
  ASSUME NEW c, c.bytes \in Seq(Byte), NEW s, NEW a, View(c, s, a), FindSync(s).found
  PROVE  FindSync(s).at \in Nat /\ FindSync(s).at + Len(Sync) < Len(s) /\ SyncAt(c, a + FindSync(s).at)
  <1>1. s \in Seq(Byte) /\ a \in Nat /\ Len(s) \in Nat /\ Len(Sync) \in Nat \ {0}
    BY PacketizerAssumption DEF View, PacketizerAssumption
  <1>2. FindSync(s).at \in Nat /\ FindSync(s).at + Len(Sync) < Len(s) /\ OccursAt(s, Sync, FindSync(s).at)
    BY <1>1, FindSyncFinds
  <1>3. FindSync(s).at + Len(Sync) <= Len(s)
    BY <1>1, <1>2
  <1> QED
    BY <1>2, <1>3, ViewOccurs

LEMMA MissedKeeps ==
  ASSUME NEW s \in Seq(Byte), ~FindSync(s).found
  PROVE  FindSync(s).at = 0 \/ FindSync(s).at + Len(Sync) < Len(s)
  <1> DEFINE stop == Len(s) - Len(Sync)
             hits == {k \in 0..(stop - 1) : OccursAt(s, Sync, k)}
  <1>1. Len(Sync) \in Nat \ {0} /\ Len(s) \in Nat /\ stop \in Int
    BY PacketizerAssumption DEF PacketizerAssumption
  <1>2. FindSync(s) = IF hits # {}
                      THEN [found |-> TRUE, at |-> CHOOSE k \in hits : \A j \in hits : k <= j]
                      ELSE [found |-> FALSE, at |-> IF stop > 1 THEN stop - 1 ELSE 0]
    BY DEF FindSync
  <1> HIDE DEF hits
  <1>3. FindSync(s).at = IF stop > 1 THEN stop - 1 ELSE 0
    BY <1>2
  <1> QED
    BY <1>1, <1>3

LEMMA KeptLonger ==
  ASSUME NEW c, NEW d \in Seq(Seq(Byte)), NEW p \in Seq(Byte), NEW i, Kept(c, d, i)
  PROVE  Kept(c, Append(d, p), i)
  <1> DEFINE e == Append(d, p)
  <1>1. Len(e) = Len(d) + 1 /\ Len(d) \in Nat /\ \A j \in 1..Len(d) : e[j] = d[j]
    OBVIOUS
  <1> HIDE DEF e
  <1>2. PICK j \in 1..Len(d) :
          d[j] = PacketOf(c, i) \/ (i > 1 /\ \E k \in 1..Len(d[j]) : OccursAt(d[j], PacketOf(c, i - 1), k))
    BY DEF Kept
  <1>3. j \in 1..Len(e) /\ e[j] = d[j]
    BY <1>1, <1>2
  <1>4. Kept(c, e, i)
    BY <1>2, <1>3 DEF Kept
  <1> QED
    BY <1>4 DEF e

LEMMA FramePayload ==
  ASSUME NEW c \in Sendable, Honest(c), NEW k \in Nat, FrameAt(c, k)
  PROVE  LET t == TotalLength(Header(c, k))
         IN  /\ t \in Nat /\ PayloadLength(Header(c, k)) \in Nat /\ t = HeaderLen + PayloadLength(Header(c, k))
             /\ SyncAt(c, k) /\ Free(c, k, HeaderLen) /\ Free(c, k, t)
  <1> DEFINE t == TotalLength(Header(c, k))
             len == PayloadLength(Header(c, k))
  <1>1. SyncAt(c, k) /\ Free(c, k, HeaderLen) /\ Free(c, k, t)
    BY DEF FrameAt
  <1>2. t \in HeaderLen..(SizeMod - 1)
    BY <1>1, HeaderCounts
  <1>3. len = (t - HeaderLen) % SizeMod
    BY DEF PayloadLength
  <1> HIDE DEF t, len
  <1>4. t - HeaderLen \in 0..(SizeMod - 1) /\ SizeMod \in Nat \ {0} /\ HeaderLen \in Nat /\ t \in Nat
    BY <1>2, SendableTypes
  <1>5. (t - HeaderLen) % SizeMod = t - HeaderLen
    BY <1>4
  <1> QED
    BY <1>1, <1>3, <1>4, <1>5 DEF t, len

(* Behind a sync word nothing is settled but the frames before it,         *)
AtSync(c, d, a) ==
  LET k == a - Len(Sync)
  IN  k \in Nat /\ SyncAt(c, k) /\ Settled(c, d, k)

(* and no frame that matters begins within the header, before offset a.    *)
NoneInside(c, k, a) == \A i \in 1..Len(c.whole) : Behind(c, i) /\ c.whole[i].from > k + 1 => c.whole[i].from > a

AtHeader(c, d, a, h) ==
  LET k == a - HeaderLen - Len(Sync)
  IN  k \in Nat /\ SyncAt(c, k) /\ h = Header(c, k) /\ Settled(c, d, k) /\ NoneInside(c, k, a)

LEMMA MissSettles ==
  ASSUME NEW c \in Sendable, Honest(c), NEW d, NEW s, NEW a, View(c, s, a), Settled(c, d, a), ~FindSync(s).found
  PROVE  Settled(c, d, a + FindSync(s).at) /\ Waits(c, d, a + Len(s))
  <1>1. s \in Seq(Byte) /\ a \in Nat /\ Len(s) \in Nat /\ Len(Sync) \in Nat \ {0} /\ HeaderLen \in Nat \ {0}
    BY SendableTypes DEF View
  <1>2. FindSync(s).at \in Nat /\ (FindSync(s).at = 0 \/ FindSync(s).at + Len(Sync) < Len(s))
    BY <1>1, FindSyncFinds, MissedKeeps
  <1>3. ASSUME NEW i \in 1..Len(c.whole), Behind(c, i), ~Kept(c, d, i)
        PROVE  c.whole[i].from > a + FindSync(s).at /\ c.whole[i].to > a + Len(s)
    <2> DEFINE f == c.whole[i].from
               j == f - 1 - a
    <2>1. f \in Nat \ {0} /\ SyncAt(c, f - 1)
      BY SendableTypes, FramesAreHonest
    <2>2. ~(f <= a)
      BY <1>3 DEF Settled
    <2>3. j \in Nat /\ a + j = f - 1
      BY <1>1, <2>1, <2>2
    <2> HIDE DEF j
    <2>4. j + Len(Sync) >= Len(s)
      BY <2>1, <2>3, UnseenIsLast, SendableTypes
    <2>5. f > a + FindSync(s).at
      <3> HIDE DEF f
      <3> QED
        BY <1>1, <1>2, <2>1, <2>3, <2>4
    <2>6. f + Len(Sync) + HeaderLen > a + Len(s) + 1
      <3> HIDE DEF f
      <3> QED
        BY <1>1, <2>1, <2>3, <2>4
    <2>7. a + Len(s) \in Nat
      BY <1>1
    <2> QED
      BY <2>5, <2>6, <2>7, FramesEnd
  <1>4. Settled(c, d, a + FindSync(s).at)
    <2> SUFFICES ASSUME NEW i \in 1..Len(c.whole), Behind(c, i), c.whole[i].from <= a + FindSync(s).at, ~Kept(c, d, i)
                 PROVE  FALSE
      BY DEF Settled
    <2>1. c.whole[i].from > a + FindSync(s).at /\ c.whole[i].from \in Nat
      BY <1>3, SendableTypes
    <2> QED
      BY <1>1, <1>2, <2>1
  <1>5. Waits(c, d, a + Len(s))
    BY <1>3 DEF Waits
  <1> QED
    BY <1>4, <1>5

LEMMA FindSettles ==
  ASSUME NEW c \in Sendable, Honest(c), NEW d, NEW s, NEW a, View(c, s, a), Settled(c, d, a), FindSync(s).found
  PROVE  AtSync(c, d, a + FindSync(s).at + Len(Sync))
  <1> DEFINE k == a + FindSync(s).at
  <1>1. s \in Seq(Byte) /\ a \in Nat /\ Len(s) \in Nat /\ Len(Sync) \in Nat \ {0}
    BY SendableTypes DEF View
  <1>2. FindSync(s).at \in Nat /\ FindSync(s).at + Len(Sync) < Len(s) /\ SyncAt(c, k)
    BY SeenIsReal, SendableTypes
  <1>3. Settled(c, d, k)
    <2> SUFFICES ASSUME NEW i \in 1..Len(c.whole), Behind(c, i), c.whole[i].from <= k
                 PROVE  Kept(c, d, i)
      BY DEF Settled
    <2> DEFINE f == c.whole[i].from
               j == f - 1 - a
    <2>1. f \in Nat \ {0} /\ SyncAt(c, f - 1)
      BY SendableTypes, FramesAreHonest
    <2>2. CASE f <= a
      BY <2>2 DEF Settled
    <2>3. CASE f > a
      <3>1. j \in Nat /\ a + j = f - 1 /\ j < FindSync(s).at
        <4>1. f <= a + FindSync(s).at
          OBVIOUS
        <4> HIDE DEF f
        <4> QED
          BY <1>1, <1>2, <2>1, <2>3, <4>1
      <3> HIDE DEF j
      <3>2. j + Len(Sync) >= Len(s)
        BY <2>1, <3>1, UnseenIsLast, SendableTypes
      <3> QED
        BY <1>1, <1>2, <3>1, <3>2
    <2> QED
      BY <1>1, <2>1, <2>2, <2>3
  <1>4. k \in Nat /\ k + Len(Sync) - Len(Sync) = k
    BY <1>1, <1>2
  <1> HIDE DEF k
  <1>5. AtSync(c, d, k + Len(Sync))
    BY <1>2, <1>3, <1>4 DEF AtSync
  <1> QED
    BY <1>5 DEF k

LEMMA ShortHeaderWaits ==
  ASSUME NEW c \in Sendable, Honest(c), NEW d, NEW a \in Nat, AtSync(c, d, a), NEW b \in Nat, b < a + HeaderLen
  PROVE  Waits(c, d, b)
  <1> SUFFICES ASSUME NEW i \in 1..Len(c.whole), Behind(c, i), ~Kept(c, d, i) PROVE c.whole[i].to > b
    BY DEF Waits
  <1>1. ~(c.whole[i].from <= a - Len(Sync))
    BY DEF AtSync, Settled
  <1>2. c.whole[i].from \in Nat /\ Len(Sync) \in Nat /\ HeaderLen \in Nat
    BY SendableTypes
  <1> DEFINE f == c.whole[i].from
  <1>3. f + Len(Sync) + HeaderLen > b + 1
    BY <1>1, <1>2
  <1> QED
    BY <1>3, FramesEnd

(* A sync word in a frame that was begun: the frame was cut off.           *)
LEMMA CutSettles ==
  ASSUME NEW c \in Sendable, Honest(c), NEW d, NEW k \in Nat, SyncAt(c, k), ~FrameAt(c, k), Settled(c, d, k),
         NEW a \in Nat, NoneInside(c, k, a)
  PROVE  Settled(c, d, a)
  <1> SUFFICES ASSUME NEW i \in 1..Len(c.whole), Behind(c, i), c.whole[i].from <= a, ~Kept(c, d, i) PROVE FALSE
    BY DEF Settled
  <1>1. ~(c.whole[i].from <= k) /\ ~(c.whole[i].from > k + 1)
    <2>1. c.whole[i].from > a => ~(c.whole[i].from <= a)
      BY SendableTypes
    <2> QED
      BY <2>1 DEF Settled, NoneInside
  <1>2. c.whole[i].from \in Nat /\ FrameAt(c, c.whole[i].from - 1)
    BY FramesAreHonest, SendableTypes
  <1>3. c.whole[i].from - 1 = k
    BY <1>1, <1>2
  <1> QED
    BY <1>2, <1>3

LEMMA CutHeaderSettles ==
  ASSUME NEW c \in Sendable, Honest(c), NEW d, NEW s, NEW a, View(c, s, a), AtSync(c, d, a), SyncWithin(s, HeaderLen)
  PROVE  Settled(c, d, a)
  <1> DEFINE k == a - Len(Sync)
             j == FindSync(s).at
  <1>1. a \in Nat /\ Len(Sync) \in Nat \ {0} /\ HeaderLen \in Nat
    BY SendableTypes DEF View
  <1>2. k \in Nat /\ SyncAt(c, k) /\ Settled(c, d, k) /\ k + Len(Sync) = a
    BY <1>1 DEF AtSync
  <1>3. j \in Nat /\ j < HeaderLen /\ SyncAt(c, a + j)
    BY SeenIsReal, SendableTypes DEF SyncWithin
  <1> HIDE DEF k, j
  <1>4. ~FrameAt(c, k)
    <2>1. j \in 0..(HeaderLen - 1)
      BY <1>1, <1>3
    <2> QED
      BY <1>2, <1>3, <2>1 DEF FrameAt, Free
  <1>5. NoneInside(c, k, a)
    <2> SUFFICES ASSUME NEW i \in 1..Len(c.whole), c.whole[i].from > k + 1 PROVE c.whole[i].from > a
      BY DEF NoneInside
    <2> DEFINE f == c.whole[i].from
               m == f - 1
    <2>1. f \in Nat /\ f > k + 1 /\ m \in Nat /\ SyncAt(c, m) /\ m = f - 1
      BY FramesAreHonest, SendableTypes
    <2> HIDE DEF f, m
    <2>2. m >= k + Len(Sync)
      BY <1>2, <2>1, SyncsAreApart
    <2>3. f > a
      BY <1>1, <1>2, <2>1, <2>2
    <2> QED
      BY <2>3 DEF f
  <1> QED
    BY <1>1, <1>2, <1>4, <1>5, CutSettles

LEMMA HeaderSettles ==
  ASSUME NEW c \in Sendable, Honest(c), NEW d, NEW s, NEW a, View(c, s, a), AtSync(c, d, a),
         HeaderLen <= Len(s), ~SyncWithin(s, HeaderLen)
  PROVE  AtHeader(c, d, a + HeaderLen, SubSeq(s, 1, HeaderLen))
  <1> DEFINE k == a - Len(Sync)
             b == a + HeaderLen
  <1>1. a \in Nat /\ Len(Sync) \in Nat \ {0} /\ HeaderLen \in Nat \ {0} /\ c.bytes \in Seq(Byte)
        /\ Len(s) \in Nat /\ s \in Seq(Byte)
    BY SendableTypes DEF View
  <1>2. k \in Nat /\ SyncAt(c, k) /\ Settled(c, d, k) /\ k + Len(Sync) = a
    BY <1>1 DEF AtSync
  <1> HIDE DEF k
  <1>3. SubSeq(s, 1, HeaderLen) = Header(c, k)
    <2>1. Front(s, HeaderLen) = Span(c, a, HeaderLen)
      BY <1>1, ViewPrefix
    <2>2. SubSeq(s, 1, HeaderLen) = SubSeq(c.bytes, a + 1, a + HeaderLen)
      BY <2>1 DEF Front, Span
    <2> QED
      BY <1>2, <2>2 DEF Header
  <1>4. NoneInside(c, k, b)
    <2> SUFFICES ASSUME NEW i \in 1..Len(c.whole), Behind(c, i), c.whole[i].from > k + 1 PROVE c.whole[i].from > b
      BY DEF NoneInside
    <2> DEFINE f == c.whole[i].from
    <2>1. f \in Nat /\ k + 1 < f
      BY <1>2, SendableTypes
    <2>2. PICK m \in Nat, t \in Nat :
             /\ t = TotalLength(Header(c, m)) /\ t >= HeaderLen
             /\ f - 1 = m + Len(Sync) + t
             /\ SyncAt(c, m) /\ (m = k \/ m >= k + Len(Sync))
      BY <1>2, <2>1, BeforeFrame
    <2> HIDE DEF f
    <2>0. f = m + Len(Sync) + t + 1
      BY <1>1, <2>1, <2>2
    <2> DEFINE l == Len(Sync)
               H == HeaderLen
               u == Len(s)
    <2>3. /\ b = a + H /\ H \in Nat /\ l \in Nat /\ u \in Nat /\ H <= u /\ a = k + l /\ f = m + l + t + 1 /\ t >= H
          /\ a \in Nat /\ m \in Nat /\ t \in Nat /\ k \in Nat /\ (m = k \/ m >= k + l)
      BY <1>1, <1>2, <2>0, <2>2
    <2>4. ASSUME m = k \/ m >= b
          PROVE  f > b
      <3> HIDE DEF b, l, H, u
      <3> QED
        BY <2>3, <2>4
    <2>5. ASSUME m # k, ~(m >= b)
          PROVE  f > b
      <3> DEFINE j == m - a
      <3>1. j \in Nat /\ a + j = m /\ j < H
        <4> HIDE DEF b, l, H, u
        <4> QED
          BY <2>3, <2>5
      <3> HIDE DEF j
      <3>2. FindSync(s).found => j < FindSync(s).at
        <4>1. FindSync(s).found => ~(FindSync(s).at < HeaderLen)
          BY DEF SyncWithin
        <4>2. FindSync(s).at \in Nat
          BY <1>1, FindSyncFinds
        <4> QED
          BY <1>1, <3>1, <4>1, <4>2
      <3>3. j + l >= u
        BY <1>1, <2>2, <3>1, <3>2, UnseenIsLast
      <3> HIDE DEF b, l, H, u
      <3> QED
        BY <2>3, <3>1, <3>3
    <2>6. f > b
      <3> HIDE DEF b, l, H, u, f
      <3> QED
        BY <2>4, <2>5
    <2> QED
      BY <2>6 DEF f
  <1>5. b - HeaderLen - Len(Sync) = k
    BY <1>1, <1>2
  <1> HIDE DEF b
  <1>6. AtHeader(c, d, b, SubSeq(s, 1, HeaderLen))
    BY <1>2, <1>3, <1>4, <1>5 DEF AtHeader
  <1> QED
    BY <1>6 DEF b

LEMMA HeaderPlace ==
  ASSUME NEW c \in Sendable, NEW d, NEW a \in Nat, NEW h, AtHeader(c, d, a, h)
  PROVE  \E k \in Nat :
           /\ a = k + Len(Sync) + HeaderLen /\ h = Header(c, k)
           /\ SyncAt(c, k) /\ Settled(c, d, k) /\ NoneInside(c, k, a)
  <1> DEFINE k == a - HeaderLen - Len(Sync)
  <1>1. k \in Nat /\ SyncAt(c, k) /\ h = Header(c, k) /\ Settled(c, d, k) /\ NoneInside(c, k, a)
    BY DEF AtHeader
  <1>2. a = k + Len(Sync) + HeaderLen
    BY SendableTypes
  <1> HIDE DEF k
  <1> QED
    BY <1>1, <1>2

(* The frame whose header was taken, when it is one that was sent whole.   *)
LEMMA FrameTaken ==
  ASSUME NEW c \in Sendable, Honest(c), NEW k \in Nat, NEW i \in 1..Len(c.whole), c.whole[i].from = k + 1
  PROVE  LET len == PayloadLength(Header(c, k))
         IN  /\ FrameAt(c, k) /\ len \in Nat /\ TotalLength(Header(c, k)) = HeaderLen + len
             /\ c.whole[i].to = k + Len(Sync) + (HeaderLen + len)
             /\ PacketOf(c, i) = Span(c, k + Len(Sync), HeaderLen + len)
  <1> DEFINE len == PayloadLength(Header(c, k))
             T   == TotalLength(Header(c, k))
  <1>1. c.whole[i].from - 1 = k
    OBVIOUS
  <1>2. FrameAt(c, k) /\ c.whole[i].to = k + Len(Sync) + T
    BY <1>1, FramesAreHonest
  <1>3. len \in Nat /\ T = HeaderLen + len
    BY <1>2, FramePayload
  <1> HIDE DEF T, len
  <1>4. c.whole[i].to = k + Len(Sync) + (HeaderLen + len)
    BY <1>2, <1>3
  <1>5. c.whole[i].from + Len(Sync) = k + Len(Sync) + 1
    BY SendableTypes
  <1>6. PacketOf(c, i) = Span(c, k + Len(Sync), HeaderLen + len)
    BY <1>4, <1>5 DEF PacketOf, Span
  <1> QED
    BY <1>2, <1>3, <1>4, <1>6 DEF T, len

LEMMA CutMessageSettles ==
  ASSUME NEW c \in Sendable, Honest(c), NEW d, NEW t, NEW a, View(c, t, a), NEW h, AtHeader(c, d, a, h),
         SyncWithin(t, PayloadLength(h))
  PROVE  Settled(c, d, a)
  <1>1. a \in Nat /\ Len(Sync) \in Nat \ {0} /\ HeaderLen \in Nat
    BY SendableTypes DEF View
  <1>2. PICK k \in Nat :
           /\ a = k + Len(Sync) + HeaderLen /\ h = Header(c, k)
           /\ SyncAt(c, k) /\ Settled(c, d, k) /\ NoneInside(c, k, a)
    BY <1>1, HeaderPlace
  <1> DEFINE j == FindSync(t).at
  <1>3. j \in Nat /\ j < PayloadLength(h) /\ SyncAt(c, a + j)
    BY SeenIsReal, SendableTypes DEF SyncWithin
  <1> HIDE DEF j
  <1>4. ASSUME FrameAt(c, k)
        PROVE  FALSE
    <2> DEFINE T   == TotalLength(h)
               len == PayloadLength(h)
               i   == HeaderLen + j
    <2>1. T = HeaderLen + len /\ len \in Nat /\ Free(c, k, T)
      BY <1>2, <1>4, FramePayload
    <2>2. len \in Nat /\ j < len
      BY <1>3, <2>1
    <2> HIDE DEF T, len
    <2>3. i \in 0..(T - 1) /\ k + Len(Sync) + i = a + j
      BY <1>1, <1>2, <1>3, <2>1, <2>2
    <2> HIDE DEF i
    <2>4. ~SyncAt(c, k + Len(Sync) + i)
      BY <2>1, <2>3 DEF Free
    <2> QED
      BY <1>3, <2>3, <2>4
  <1> QED
    BY <1>1, <1>2, <1>4, CutSettles

LEMMA ShortMessageWaits ==
  ASSUME NEW c \in Sendable, Honest(c), NEW d, NEW t, NEW a, View(c, t, a), NEW h, AtHeader(c, d, a, h),
         PayloadLength(h) \in Nat, ~SyncWithin(t, PayloadLength(h)), PayloadLength(h) > Len(t)
  PROVE  Waits(c, d, a + Len(t))
  <1>1. a \in Nat /\ Len(Sync) \in Nat \ {0} /\ HeaderLen \in Nat \ {0} /\ Len(t) \in Nat /\ c.bytes \in Seq(Byte)
        /\ t \in Seq(Byte)
    BY SendableTypes DEF View
  <1>2. PICK k \in Nat :
           /\ a = k + Len(Sync) + HeaderLen /\ h = Header(c, k)
           /\ SyncAt(c, k) /\ Settled(c, d, k) /\ NoneInside(c, k, a)
    BY <1>1, HeaderPlace
  <1> DEFINE b   == a + Len(t)
             len == PayloadLength(h)
  <1> SUFFICES ASSUME NEW i \in 1..Len(c.whole), Behind(c, i), ~Kept(c, d, i) PROVE c.whole[i].to > b
    BY DEF Waits
  <1> DEFINE f == c.whole[i].from
             m == f - 1
  <1>3. f \in Nat /\ m \in Nat /\ f = m + 1 /\ SyncAt(c, m)
    BY SendableTypes, FramesAreHonest
  <1>4. ~(f <= k) /\ (f > k + 1 => f > a)
    BY <1>2 DEF Settled, NoneInside
  <1>5. ~SyncWithin(t, len) /\ len > Len(t) /\ len \in Nat /\ b = a + Len(t)
    OBVIOUS
  <1>6. CASE f = k + 1
    <2>1. len \in Nat /\ c.whole[i].to = k + Len(Sync) + (HeaderLen + len)
      BY <1>2, <1>6, FrameTaken
    <2> HIDE DEF b, len, f, m
    <2>2. k + Len(Sync) + (HeaderLen + len) > b
      BY <1>1, <1>2, <1>5, <2>1
    <2> QED
      BY <2>1, <2>2
  <1>7. CASE f > k + 1
    <2> DEFINE j == m - a
    <2>1. j \in Nat /\ a + j = m
      <3>1. f > a
        BY <1>4, <1>7
      <3> HIDE DEF f, m
      <3> QED
        BY <1>1, <1>3, <3>1
    <2> HIDE DEF j, m, f, len, b
    <2>2. j + Len(Sync) >= Len(t)
      <3>1. CASE j < Len(t)
        <4>1. FindSync(t).found => ~(FindSync(t).at < len)
          BY <1>5 DEF SyncWithin
        <4>2. FindSync(t).at \in Nat
          BY <1>1, FindSyncFinds
        <4>3. FindSync(t).found => j < FindSync(t).at
          BY <1>1, <1>5, <2>1, <3>1, <4>1, <4>2
        <4> QED
          BY <1>1, <1>3, <2>1, <4>3, UnseenIsLast
      <3>2. CASE ~(j < Len(t))
        BY <1>1, <2>1, <3>2
      <3> QED
        BY <3>1, <3>2
    <2>3. f + Len(Sync) + HeaderLen > b + 1 /\ b \in Nat
      BY <1>1, <1>3, <1>5, <2>1, <2>2
    <2> QED
      BY <2>3, FramesEnd DEF f
  <1>8. f = k + 1 \/ f > k + 1
    <2> HIDE DEF f, m
    <2> QED
      BY <1>2, <1>3, <1>4
  <1> QED
    BY <1>6, <1>7, <1>8

LEMMA SpanOccurs ==
  ASSUME NEW c, c.bytes \in Seq(Byte), NEW a \in Nat, NEW m \in Nat, a + m <= Len(c.bytes),
         NEW q \in Nat, NEW n \in Nat, q + n <= m
  PROVE  OccursAt(Span(c, a, m), Span(c, a + q, n), q) /\ Len(Span(c, a, m)) = m
  <1> DEFINE B == c.bytes
             s == SubSeq(B, a + 1, a + m)
             p == SubSeq(B, a + q + 1, a + q + n)
  <1>1. B \in Seq(Byte) /\ Len(B) \in Nat /\ a + m <= Len(B)
    OBVIOUS
  <1> HIDE DEF B
  <1>2. s \in Seq(Byte) /\ Len(s) = m /\ \A j \in 1..m : s[j] = B[a + j]
    BY <1>1
  <1>3. p \in Seq(Byte) /\ Len(p) = n /\ \A j \in 1..n : p[j] = B[a + q + j]
    <2> DEFINE e == a + q
    <2>1. e \in Nat /\ e + n <= Len(B) /\ a + q = e
      BY <1>1
    <2>2. p = SubSeq(B, e + 1, e + n)
      OBVIOUS
    <2> HIDE DEF p, e
    <2>3. p \in Seq(Byte) /\ Len(p) = n /\ \A j \in 1..n : p[j] = B[e + j]
      BY <1>1, <2>1, <2>2
    <2> QED
      BY <2>1, <2>3
  <1> HIDE DEF s, p
  <1>4. \A j \in 1..n : s[q + j] = p[j]
    <2> SUFFICES ASSUME NEW j \in 1..n PROVE s[q + j] = p[j]
      OBVIOUS
    <2>1. q + j \in 1..m /\ a + (q + j) = a + q + j
      OBVIOUS
    <2>2. s[q + j] = B[a + (q + j)]
      BY <1>2, <2>1
    <2> QED
      BY <1>3, <2>1, <2>2
  <1>5. OccursAt(s, p, q)
    BY <1>2, <1>3, <1>4, OccursByByte
  <1> QED
    BY <1>2, <1>5 DEF Span, s, p, B

LEMMA WholeMessageSettles ==
  ASSUME NEW c \in Sendable, Honest(c), NEW d \in Seq(Seq(Byte)), NEW t, NEW a, View(c, t, a), NEW h,
         AtHeader(c, d, a, h), PayloadLength(h) \in Nat, PayloadLength(h) <= Len(t), h \in Seq(Byte)
  PROVE  Settled(c, Append(d, h \o SubSeq(t, 1, PayloadLength(h))), a + PayloadLength(h))
  <1>1. a \in Nat /\ Len(Sync) \in Nat \ {0} /\ HeaderLen \in Nat \ {0} /\ Len(t) \in Nat /\ c.bytes \in Seq(Byte)
        /\ t \in Seq(Byte) /\ Len(c.bytes) \in Nat /\ a + Len(t) <= Len(c.bytes)
    BY SendableTypes DEF View
  <1>2. PICK k \in Nat :
           /\ a = k + Len(Sync) + HeaderLen /\ h = Header(c, k)
           /\ SyncAt(c, k) /\ Settled(c, d, k) /\ NoneInside(c, k, a)
    BY <1>1, HeaderPlace
  <1> DEFINE len == PayloadLength(h)
             b   == a + len
             p   == h \o SubSeq(t, 1, len)
             D   == Append(d, p)
  <1>3. len \in Nat /\ len <= Len(t) /\ b = a + len /\ b \in Nat
    BY <1>1
  <1>4. p = Span(c, k + Len(Sync), HeaderLen + len)
    <2>1. h = Span(c, k + Len(Sync), HeaderLen)
      BY <1>2 DEF Header, Span
    <2> DEFINE e == k + Len(Sync)
    <2> HIDE DEF len, b
    <2>2. Front(t, len) = Span(c, a, len)
      BY <1>1, <1>3, ViewPrefix
    <2>3. e \in Nat /\ a = e + HeaderLen /\ e + HeaderLen + len <= Len(c.bytes)
      BY <1>1, <1>2, <1>3
    <2> HIDE DEF e
    <2>4. Joined(c, e, HeaderLen, len) = Span(c, e, HeaderLen + len)
      BY <1>1, <1>3, <2>3, SpansJoin
    <2> QED
      BY <2>1, <2>2, <2>3, <2>4 DEF Front, Joined, e
  <1>5. p \in Seq(Byte)
    <2>1. SubSeq(t, 1, len) \in Seq(Byte)
      BY <1>1, <1>3
    <2> QED
      BY <2>1
  <1> HIDE DEF p
  <1>6. Len(D) = Len(d) + 1 /\ D[Len(d) + 1] = p /\ Len(d) \in Nat
    OBVIOUS
  <1> HIDE DEF len, b, D
  <1>7. ASSUME NEW i \in 1..Len(c.whole), Behind(c, i), c.whole[i].from <= b
        PROVE  Kept(c, D, i)
    <2> DEFINE f == c.whole[i].from
    <2>1. f \in Nat /\ f <= b
      BY <1>7, SendableTypes
    <2>2. CASE f <= k
      <3>1. Kept(c, d, i)
        BY <1>2, <1>7, <2>2 DEF Settled
      <3> QED
        BY <1>5, <3>1, KeptLonger DEF D
    <2>3. CASE f = k + 1
      <3>1. PacketOf(c, i) = Span(c, k + Len(Sync), HeaderLen + len)
        BY <1>2, <2>3, FrameTaken DEF len
      <3> QED
        BY <1>4, <1>6, <3>1 DEF Kept
    <2>4. CASE f > k + 1
      <3>1. PICK m \in Nat, u \in Nat :
               /\ i > 1 /\ i - 1 \in 1..Len(c.whole)
               /\ m = c.whole[i - 1].from - 1 /\ c.whole[i - 1].to = m + Len(Sync) + u
               /\ u = TotalLength(Header(c, m)) /\ u >= HeaderLen
               /\ f - 1 = m + Len(Sync) + u
               /\ SyncAt(c, m) /\ (m = k \/ m >= k + Len(Sync))
        <4>1. k + 1 < f
          <5> HIDE DEF f
          <5> QED
            BY <1>2, <2>1, <2>4
        <4>2. Behind(c, i) /\ k \in Nat /\ SyncAt(c, k)
          BY <1>2, <1>7
        <4> HIDE DEF D
        <4> QED
          BY <4>1, <4>2, BeforeFrame
      <3> DEFINE g == c.whole[i - 1].from
                 r == c.whole[i - 1].to
      <3>2. g \in Nat /\ r \in Nat
        BY <3>1, SendableTypes
      <3>3. g = m + 1 /\ r = m + Len(Sync) + u /\ f = m + Len(Sync) + u + 1
        <4> HIDE DEF f, g, r
        <4>1. m = g - 1 /\ r = m + Len(Sync) + u /\ f - 1 = m + Len(Sync) + u
          BY <3>1 DEF f, g, r
        <4> QED
          BY <1>1, <2>1, <3>2, <4>1
      <3>4. m # k
        <4> SUFFICES ASSUME m = k PROVE FALSE
          OBVIOUS
        <4>0. g = k + 1
          BY <3>3
        <4>1. r = k + Len(Sync) + (HeaderLen + len)
          <5> DEFINE w == i - 1
          <5>1. w \in 1..Len(c.whole) /\ c.whole[w].from = k + 1
            BY <3>1, <4>0
          <5> HIDE DEF w
          <5>2. c.whole[w].to = k + Len(Sync) + (HeaderLen + len)
            BY <1>2, <5>1, FrameTaken DEF len
          <5> QED
            BY <5>2 DEF w
        <4> HIDE DEF f, g, r
        <4> QED
          BY <1>1, <1>2, <1>3, <2>1, <3>3, <4>1
      <3> DEFINE q == m - k
                 e == k + Len(Sync)
                 M == HeaderLen + len
      <3>5. /\ q \in 1..M /\ q \in Nat /\ q + u <= M /\ e \in Nat /\ M \in Nat /\ e + M <= Len(c.bytes)
            /\ e + q = m + Len(Sync)
        <4> DEFINE l == Len(Sync)
                   H == HeaderLen
                   n == Len(c.bytes)
        <4>1. /\ l \in Nat \ {0} /\ H \in Nat /\ n \in Nat /\ len \in Nat /\ k \in Nat /\ m \in Nat /\ u \in Nat
              /\ f = m + l + u + 1 /\ f <= a + len /\ a = k + l + H /\ m >= k + l
          BY <1>1, <1>2, <1>3, <2>1, <3>1, <3>3, <3>4
        <4>2. a + len <= n
          BY <1>1, <1>3
        <4>3. e = k + l /\ M = H + len /\ q = m - k
          OBVIOUS
        <4>4. m + Len(Sync) = m + l
          OBVIOUS
        <4> HIDE DEF f, g, r, l, H, n, q, e, M
        <4>5. q \in 1..M /\ q \in Nat /\ q + u <= M /\ e \in Nat /\ M \in Nat /\ e + M <= n /\ e + q = m + l
          BY <4>1, <4>2, <4>3
        <4> QED
          BY <4>4, <4>5 DEF n
      <3>6. PacketOf(c, i - 1) = Span(c, m + Len(Sync), u)
        <4>1. g + Len(Sync) = m + Len(Sync) + 1
          <5> HIDE DEF g
          <5> QED
            BY <1>1, <3>2, <3>3
        <4> QED
          BY <3>3, <4>1 DEF PacketOf, Span
      <3> HIDE DEF q, e, M
      <3>7. OccursAt(Span(c, e, M), Span(c, e + q, u), q) /\ Len(Span(c, e, M)) = M
        BY <1>1, <3>5, SpanOccurs
      <3>8. p = Span(c, e, M)
        BY <1>4 DEF e, M
      <3>9. OccursAt(p, PacketOf(c, i - 1), q) /\ q \in 1..Len(p)
        BY <3>5, <3>6, <3>7, <3>8
      <3>10. i > 1 /\ Len(d) + 1 \in 1..Len(D) /\ OccursAt(D[Len(d) + 1], PacketOf(c, i - 1), q)
             /\ q \in 1..Len(D[Len(d) + 1])
        BY <1>6, <3>1, <3>9
      <3> QED
        BY <3>10 DEF Kept
    <2> HIDE DEF f
    <2> QED
      BY <1>2, <2>1, <2>2, <2>3, <2>4
  <1>8. Settled(c, D, b)
    BY <1>7 DEF Settled
  <1> QED
    BY <1>8 DEF D, p, b, len

(* And the packetizer: whether or not a search went wrong, what is passed  *)
(* over is settled.                                                        *)
Settling ==
  /\ ~syncFound => Settled(contact, delivered, Pos)
  /\ syncFound /\ ~headerRdy => AtSync(contact, delivered, Pos)
  /\ headerRdy /\ ~packetRdy => AtHeader(contact, delivered, Pos, SubSeq(packet, 1, HeaderLen))
  /\ packetRdy => Settled(contact, Append(delivered, packet), Pos)
  /\ caller = "null" => Waits(contact, delivered, Pushed)

LossInv == StreamInv /\ (~refused /\ Honest(contact) => Settling)

LEMMA LocatedSettles ==
  ASSUME PacketizerTypes, Views, Honest(contact), Settling, caller = "scanning", ~headerRdy, ~packetRdy
  PROVE  LET s == Located.rest
             b == Pushed - Len(s)
         IN  /\ s \in Seq(Byte) /\ View(contact, s, b)
             /\ Located.found => AtSync(contact, delivered, b)
             /\ ~Located.found => /\ ~syncFound /\ Settled(contact, delivered, b)
                                  /\ Waits(contact, delivered, Pushed)
  <1>1. PICK m \in Nat : m <= Len(buffer) /\ Located.rest = DropFirst(buffer, m)
                        /\ (syncFound => m = 0 /\ Located.rest = buffer)
                        /\ (~syncFound => m = FindSync(buffer).at + IF Located.found THEN Len(Sync) ELSE 0)
                        /\ (~syncFound => Located.found = FindSync(buffer).found)
    BY LocatedIsSuffix, TypesAtHand
  <1> DEFINE s == Located.rest
             b == Pushed - Len(s)
  <1>2. View(contact, s, Pos + m) /\ Len(s) = Len(buffer) - m
    BY <1>1, ViewDrop, TypesAtHand DEF Views
  <1>3. b = Pos + m
    BY <1>1, <1>2, TypesAtHand DEF Pos
  <1>4. s \in Seq(Byte)
    BY <1>2 DEF View
  <1> HIDE DEF s, b
  <1>5. CASE syncFound
    <2>1. Located.found = TRUE
      BY <1>5 DEF Located
    <2>2. Pos + m = Pos
      BY <1>1, <1>5, TypesAtHand
    <2>3. AtSync(contact, delivered, Pos)
      BY <1>5 DEF Settling
    <2> QED
      BY <1>2, <1>3, <1>4, <2>1, <2>2, <2>3 DEF s, b
  <1>6. CASE ~syncFound
    <2>1. Settled(contact, delivered, Pos) /\ View(contact, buffer, Pos) /\ contact \in Sendable /\ Pos \in Int
      BY <1>6, TypesAtHand DEF Settling, Views
    <2>2. CASE Located.found
      <3>1. FindSync(buffer).found /\ b = Pos + (FindSync(buffer).at + Len(Sync))
        BY <1>1, <1>3, <1>6, <2>2
      <3>2. AtSync(contact, delivered, Pos + FindSync(buffer).at + Len(Sync))
        BY <2>1, <3>1, FindSettles
      <3>3. b = Pos + FindSync(buffer).at + Len(Sync)
        BY <2>1, <3>1, FindSyncFinds, TypesAtHand
      <3> QED
        BY <1>2, <1>3, <1>4, <2>2, <3>2, <3>3 DEF s, b
    <2>3. CASE ~Located.found
      <3>1. ~FindSync(buffer).found /\ m = FindSync(buffer).at + 0
        BY <1>1, <1>6, <2>3
      <3>2. Settled(contact, delivered, Pos + FindSync(buffer).at) /\ Waits(contact, delivered, Pos + Len(buffer))
        BY <2>1, <3>1, MissSettles
      <3>3. b = Pos + FindSync(buffer).at /\ Pos + Len(buffer) = Pushed
        <4>1. FindSync(buffer).at \in Nat
          BY FindSyncFinds, TypesAtHand
        <4>2. Pos = Pushed - Len(buffer)
          BY DEF Pos
        <4>3. Pos + Len(buffer) = Pushed
          BY <4>2, TypesAtHand
        <4>4. m = FindSync(buffer).at
          BY <3>1, <4>1
        <4> QED
          BY <1>3, <4>3, <4>4
      <3> QED
        BY <1>2, <1>3, <1>4, <1>6, <2>3, <3>2, <3>3 DEF s, b
    <2> QED
      BY <2>2, <2>3
  <1> QED
    BY <1>5, <1>6

LEMMA TakenSettles ==
  ASSUME PacketizerTypes, Views, Honest(contact), Settling, caller = "scanning", ~packetRdy,
         NEW h, NEW t, Taken(h, t)
  PROVE  /\ t \in Seq(Byte) /\ View(contact, t, Pushed - Len(t))
         /\ AtHeader(contact, delivered, Pushed - Len(t), h)
  <1>1. CASE headerRdy
    <2>1. h = SubSeq(packet, 1, HeaderLen) /\ t = buffer
      BY <1>1 DEF Taken
    <2>2. AtHeader(contact, delivered, Pos, h)
      BY <1>1, <2>1 DEF Settling
    <2> QED
      BY <2>1, <2>2, TypesAtHand DEF Views, Pos
  <1>2. CASE ~headerRdy
    <2> DEFINE s == Located.rest
               b == Pushed - Len(s)
    <2>1. s \in Seq(Byte) /\ View(contact, s, b) /\ (Located.found => AtSync(contact, delivered, b))
      BY <1>2, LocatedSettles
    <2>2. Located.found /\ HeaderLen <= Len(s) /\ ~SyncWithin(s, HeaderLen)
          /\ h = SubSeq(s, 1, HeaderLen) /\ t = DropFirst(s, HeaderLen)
      BY <1>2 DEF Taken
    <2> HIDE DEF s
    <2>3. AtHeader(contact, delivered, b + HeaderLen, SubSeq(s, 1, HeaderLen))
      BY <2>1, <2>2, HeaderSettles, TypesAtHand
    <2>4. View(contact, t, b + HeaderLen) /\ Len(t) = Len(s) - HeaderLen
      BY <2>1, <2>2, ViewDrop, TypesAtHand
    <2>5. b + HeaderLen = Pushed - Len(t)
      BY <2>1, <2>4, TypesAtHand
    <2>6. t \in Seq(Byte)
      BY <2>4 DEF View
    <2> QED
      BY <2>2, <2>3, <2>4, <2>5, <2>6
  <1> QED
    BY <1>1, <1>2

LEMMA PacketizeSettles ==
  ASSUME PacketizerTypes, Views, Honest(contact), Settling, Packetize
  PROVE  Settling'
  <1>1. caller = "scanning" /\ ~packetRdy /\ contact' = contact /\ wire' = wire /\ delivered' = delivered
    BY PacketizeCases
  <1>2. Pushed' = Pushed /\ Pos' = Pushed - Len(buffer')
    BY <1>1 DEF Pushed, Pos
  <1>3. contact \in Sendable /\ HeaderLen \in Nat
    BY TypesAtHand
  <1>4. CASE Missed
    <2>1. ~headerRdy /\ ~Located.found /\ buffer' = Located.rest /\ caller' = "null"
          /\ syncFound' = syncFound /\ headerRdy' = FALSE /\ packetRdy' = FALSE
      BY <1>4 DEF Missed
    <2>2. ~syncFound /\ Settled(contact, delivered, Pushed - Len(Located.rest)) /\ Waits(contact, delivered, Pushed)
      BY <1>1, <2>1, LocatedSettles
    <2> QED
      BY <1>1, <1>2, <2>1, <2>2 DEF Settling
  <1>5. CASE ShortHeader
    <2>1. ~headerRdy /\ Located.found /\ buffer' = Located.rest /\ caller' = "null"
          /\ syncFound' = TRUE /\ headerRdy' = FALSE /\ packetRdy' = FALSE /\ Len(Located.rest) < HeaderLen
      BY <1>5 DEF ShortHeader
    <2> DEFINE b == Pushed - Len(Located.rest)
    <2>2. AtSync(contact, delivered, b) /\ Located.rest \in Seq(Byte) /\ View(contact, Located.rest, b)
      BY <1>1, <2>1, LocatedSettles
    <2>3. b \in Nat /\ Len(Located.rest) \in Nat
      BY <2>2 DEF View
    <2>4. Pushed \in Nat /\ Pushed < b + HeaderLen
      <3>1. Pushed = b + Len(Located.rest)
        BY <2>3, TypesAtHand
      <3> HIDE DEF b
      <3> QED
        BY <1>3, <2>1, <2>3, <3>1
    <2> HIDE DEF b
    <2>5. Waits(contact, delivered, Pushed)
      BY <1>3, <2>2, <2>3, <2>4, ShortHeaderWaits
    <2> QED
      BY <1>1, <1>2, <2>1, <2>2, <2>5 DEF Settling, b
  <1>6. CASE CutHeader
    <2>1. ~headerRdy /\ Located.found /\ buffer' = Located.rest /\ caller' = "scanning"
          /\ syncFound' = FALSE /\ headerRdy' = FALSE /\ packetRdy' = FALSE /\ SyncWithin(Located.rest, HeaderLen)
      BY <1>6 DEF CutHeader
    <2> DEFINE b == Pushed - Len(Located.rest)
    <2>2. AtSync(contact, delivered, b) /\ View(contact, Located.rest, b)
      BY <1>1, <2>1, LocatedSettles
    <2> HIDE DEF b
    <2>3. Settled(contact, delivered, b)
      BY <1>3, <2>1, <2>2, CutHeaderSettles
    <2> QED
      BY <1>1, <1>2, <2>1, <2>3 DEF Settling, b
  <1>7. ASSUME NEW h, NEW t, Taken(h, t), CutMessage(h, t)
        PROVE  Settling'
    <2> DEFINE b == Pushed - Len(t)
    <2>1. View(contact, t, b) /\ AtHeader(contact, delivered, b, h)
      BY <1>1, <1>7, TakenSettles
    <2>2. SyncWithin(t, PayloadLength(h)) /\ buffer' = t /\ caller' = "scanning" /\ syncFound' = FALSE
          /\ headerRdy' = FALSE /\ packetRdy' = FALSE
      BY <1>7 DEF CutMessage
    <2> HIDE DEF b
    <2>3. Settled(contact, delivered, b)
      BY <1>3, <2>1, <2>2, CutMessageSettles
    <2> QED
      BY <1>1, <1>2, <2>2, <2>3 DEF Settling, b
  <1>8. ASSUME NEW h, NEW t, Taken(h, t), ShortMessage(h, t)
        PROVE  Settling'
    <2> DEFINE b == Pushed - Len(t)
    <2>1. View(contact, t, b) /\ AtHeader(contact, delivered, b, h) /\ t \in Seq(Byte)
      BY <1>1, <1>8, TakenSettles
    <2>2. ~SyncWithin(t, PayloadLength(h)) /\ PayloadLength(h) > Len(t) /\ buffer' = t /\ packet' = h
          /\ caller' = "null" /\ syncFound' = TRUE /\ headerRdy' = TRUE /\ packetRdy' = FALSE
      BY <1>8 DEF ShortMessage
    <2>3. SubSeq(h, 1, HeaderLen) = h /\ PayloadLength(h) \in Nat
      BY <1>8, TakenTypes
    <2>4. b + Len(t) = Pushed
      BY <2>1, TypesAtHand
    <2> HIDE DEF b
    <2>5. Waits(contact, delivered, b + Len(t))
      BY <1>3, <2>1, <2>2, <2>3, ShortMessageWaits
    <2>6. AtHeader(contact, delivered, b, SubSeq(packet', 1, HeaderLen))
      BY <2>1, <2>2, <2>3
    <2> QED
      BY <1>1, <1>2, <2>2, <2>4, <2>5, <2>6 DEF Settling, b
  <1>9. ASSUME NEW h, NEW t, Taken(h, t), WholeMessage(h, t)
        PROVE  Settling'
    <2> DEFINE b   == Pushed - Len(t)
               len == PayloadLength(h)
    <2>1. View(contact, t, b) /\ AtHeader(contact, delivered, b, h) /\ t \in Seq(Byte)
      BY <1>1, <1>9, TakenSettles
    <2>2. len <= Len(t) /\ buffer' = DropFirst(t, len) /\ packet' = h \o SubSeq(t, 1, len)
          /\ caller' \in {"packet", "overrun"} /\ syncFound' = TRUE /\ headerRdy' = TRUE /\ packetRdy' = TRUE
      BY <1>9 DEF WholeMessage
    <2>3. len \in Nat /\ h \in Seq(Byte)
      BY <1>9, TakenTypes
    <2>4. Settled(contact, Append(delivered, h \o SubSeq(t, 1, len)), b + len)
      <3> HIDE DEF b
      <3> QED
        BY <1>3, <2>1, <2>2, <2>3, WholeMessageSettles, TypesAtHand
    <2> HIDE DEF len
    <2>5. Pos' = b + len
      <3>1. Len(DropFirst(t, len)) = Len(t) - len
        BY <2>1, <2>2, <2>3 DEF DropFirst
      <3> QED
        BY <1>2, <2>1, <2>2, <2>3, <3>1, TypesAtHand
    <2> HIDE DEF b
    <2> QED
      BY <1>1, <1>2, <2>2, <2>4, <2>5 DEF Settling
  <1> QED
    BY <1>4, <1>5, <1>6, <1>7, <1>8, <1>9, PacketizeCases

LEMMA SettledAtFirst ==
  ASSUME NEW c \in Sendable
  PROVE  Settled(c, <<>>, 0)
  <1>1. \A i \in 1..Len(c.whole) : c.whole[i].from \in Nat \ {0}
    BY SendableTypes
  <1> QED
    BY <1>1 DEF Settled

LEMMA LossStep == LossInv /\ [PacketizerNext]_packetizerVars => LossInv'
  <1> SUFFICES ASSUME LossInv, [PacketizerNext]_packetizerVars PROVE LossInv'
    OBVIOUS
  <1>1. StreamInv /\ StreamInv' /\ PacketizerTypes /\ PacketizerTypes'
    BY StreamStep DEF LossInv, StreamInv
  <1> SUFFICES ASSUME ~refused', Honest(contact') PROVE Settling'
    BY <1>1 DEF LossInv
  <1>2. ~refused => Views
    BY <1>1 DEF StreamInv
  <1>3. ~refused /\ Honest(contact) => Settling
    BY DEF LossInv
  <1>4. ASSUME NEW n \in 1..MaxChunk, PushBytes(n)
        PROVE  Settling'
    <2>1. /\ caller' = "ready" /\ contact' = contact /\ wire' = DropFirst(wire, n) /\ n <= Len(wire) /\ n \in Nat
          /\ UNCHANGED <<packet, syncFound, headerRdy, packetRdy, delivered>>
      BY <1>4, PacketizerAssumption DEF PushBytes, flags, PacketizerAssumption
    <2>2. ~refused /\ buffer' = buffer \o SubSeq(wire, 1, n)
      BY <1>4 DEF PushBytes
    <2>3. Len(DropFirst(wire, n)) = Len(wire) - n
      BY <1>1, <2>1, DropTypes, TypesAtHand
    <2>4. Len(buffer \o SubSeq(wire, 1, n)) = Len(buffer) + n
      <3>1. SubSeq(wire, 1, n) \in Seq(Byte) /\ Len(SubSeq(wire, 1, n)) = n
        BY <1>1, <2>1, TypesAtHand
      <3> QED
        BY <1>1, <3>1, TypesAtHand
    <2>5. Pos' = Pos
      <3>1. Pos' = Len(contact.bytes) - (Len(wire) - n) - (Len(buffer) + n)
        BY <2>1, <2>2, <2>3, <2>4 DEF Pos, Pushed
      <3>2. Pos = Len(contact.bytes) - Len(wire) - Len(buffer)
        BY DEF Pos, Pushed
      <3> QED
        BY <1>1, <2>1, <3>1, <3>2, TypesAtHand
    <2>6. Settling
      BY <1>3, <2>1, <2>2
    <2> QED
      BY <2>1, <2>5, <2>6 DEF Settling
  <1>5. CASE GetPacket
    <2>1. UNCHANGED <<contact, wire, buffer, packet, syncFound, headerRdy, packetRdy, delivered, refused>>
          /\ caller' = "scanning"
      BY <1>5 DEF GetPacket, stream, flags
    <2>2. Pushed' = Pushed /\ Pos' = Pos
      BY <2>1 DEF Pushed, Pos
    <2> QED
      BY <1>3, <2>1, <2>2 DEF Settling
  <1>6. CASE Packetize
    <2>1. contact' = contact /\ refused' = refused
      BY <1>1, <1>6, PacketizeCases
    <2> QED
      BY <1>1, <1>2, <1>3, <1>6, <2>1, PacketizeSettles
  <1>7. CASE PopPacket
    <2>1. UNCHANGED <<contact, wire, buffer, refused>> /\ caller = "packet" /\ caller' = "ready"
          /\ delivered' = Append(delivered, packet) /\ ~syncFound' /\ ~headerRdy' /\ ~packetRdy'
      BY <1>7 DEF PopPacket, stream
    <2>2. Pos' = Pos
      BY <2>1 DEF Pushed, Pos
    <2>3. Settling /\ packetRdy
      BY <1>1, <1>3, <2>1 DEF PacketizerTypes
    <2> QED
      BY <2>1, <2>2, <2>3 DEF Settling
  <1>8. CASE Clear
    <2>1. contact' \in Sendable /\ wire' = contact'.bytes /\ buffer' = <<>> /\ delivered' = <<>> /\ caller' = "ready"
          /\ ~syncFound' /\ ~headerRdy' /\ ~packetRdy'
      BY <1>8 DEF Clear, Sendable
    <2>2. Len(contact'.bytes) \in Nat /\ Settled(contact', <<>>, 0)
      BY <2>1, SettledAtFirst, SendableTypes
    <2>3. Pushed' = 0
      BY <2>1, <2>2 DEF Pushed
    <2>4. Pos' = 0
      <3>1. Len(buffer') = 0
        BY <2>1
      <3> QED
        BY <2>3, <3>1 DEF Pos
    <2> QED
      BY <2>1, <2>2, <2>4 DEF Settling
  <1>9. CASE UNCHANGED packetizerVars
    <2>1. UNCHANGED <<contact, wire, buffer, packet, syncFound, headerRdy, packetRdy, caller, delivered, refused>>
      BY <1>9 DEF packetizerVars, stream, flags
    <2>2. Pushed' = Pushed /\ Pos' = Pos
      BY <2>1 DEF Pushed, Pos
    <2> QED
      BY <1>3, <2>1, <2>2 DEF Settling
  <1> QED
    BY <1>4, <1>5, <1>6, <1>7, <1>8, <1>9 DEF PacketizerNext

(* Also when a search does miss a sync word at the end of a store: a frame *)
(* sent whole behind a whole frame (or first) comes back, or the packet    *)
(* that swallowed it holds the frame before it.                            *)
THEOREM LossStaysLocal == PacketizerSpec => []LossIsLocal
  <1>1. PacketizerInit => LossInv
    <2> SUFFICES ASSUME PacketizerInit PROVE LossInv
      OBVIOUS
    <2>1. contact \in Sendable /\ wire = contact.bytes /\ buffer = <<>> /\ delivered = <<>> /\ caller = "ready"
          /\ ~syncFound /\ ~headerRdy /\ ~packetRdy
      BY DEF PacketizerInit, Sendable
    <2>2. Len(contact.bytes) \in Nat /\ Settled(contact, <<>>, 0)
      BY <2>1, SettledAtFirst, SendableTypes
    <2>3. Pos = 0
      <3>1. Len(buffer) = 0 /\ Pushed = 0
        BY <2>1, <2>2 DEF Pushed
      <3> QED
        BY <3>1 DEF Pos
    <2>4. Settling
      BY <2>1, <2>2, <2>3 DEF Settling
    <2> QED
      BY <2>4, StreamBegins DEF LossInv
  <1>2. LossInv /\ StreamRecovered => LossIsLocal
    <2> SUFFICES ASSUME LossInv, StreamRecovered, Honest(contact), AllRead, ~refused,
                        NEW i \in 1..Len(contact.whole), Behind(contact, i)
                 PROVE  \E d \in 1..Len(delivered) :
                          \/ delivered[d] = WholePacket(i)
                          \/ /\ i > 1 /\ edge
                             /\ \E k \in 1..Len(delivered[d]) : OccursAt(delivered[d], WholePacket(i - 1), k)
      BY DEF LossIsLocal, Behind
    <2>1. PacketizerTypes /\ Waits(contact, delivered, Pushed) /\ wire = <<>>
      BY DEF LossInv, StreamInv, Settling, AllRead
    <2>2. contact \in Sendable /\ Pushed = Len(contact.bytes) /\ Len(contact.bytes) \in Nat
      BY <2>1, TypesAtHand DEF Pushed
    <2>3. ~(contact.whole[i].to > Pushed)
      <3> DEFINE k == contact.whole[i].from - 1
      <3>1. FrameAt(contact, k) /\ contact.whole[i].to = k + Len(Sync) + TotalLength(Header(contact, k))
        BY <2>2, FramesAreHonest
      <3>2. k + Len(Sync) + TotalLength(Header(contact, k)) <= Len(contact.bytes)
        BY <3>1 DEF FrameAt, Free
      <3>3. contact.whole[i].to \in Nat
        BY <2>2, SendableTypes
      <3> QED
        BY <2>2, <3>1, <3>2, <3>3
    <2>4. Kept(contact, delivered, i)
      BY <2>1, <2>3 DEF Waits
    <2>5. PacketOf(contact, i) = WholePacket(i) /\ PacketOf(contact, i - 1) = WholePacket(i - 1)
      BY DEF PacketOf, WholePacket
    <2>6. CASE edge
      BY <2>4, <2>5, <2>6 DEF Kept
    <2>7. CASE ~edge
      <3>1. delivered = WholePackets
        BY <2>7 DEF StreamRecovered
      <3>2. Len(contact.whole) \in Nat
        BY <2>2, SendableTypes
      <3>3. Len(delivered) = Len(contact.whole) /\ delivered[i] = WholePacket(i)
        BY <3>1, <3>2 DEF WholePackets
      <3> QED
        BY <3>3
    <2> QED
      BY <2>6, <2>7
  <1> QED
    BY <1>1, <1>2, LossStep, StreamComesBack, PTL DEF PacketizerSpec
=============================================================================
