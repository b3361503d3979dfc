--------------------------------- MODULE Vault ---------------------------------
(***************************************************************************)
(* cromulence::ironbank::Vault (ironbank/src/IronBank.cpp): keeps the      *)
(* scripts of all teams and moves them, or writes a flag, only for clients *)
(* that answer a challenge.  Clients send single datagrams to one UDP port *)
(* and the vault handles them one at a time, so the conversations of two   *)
(* clients interleave command by command; datagrams and answers get lost,  *)
(* and clients send again what was not answered.                           *)
(*                                                                         *)
(* A challenge is its number, and its key the same number: keys are taken  *)
(* to be known only to those who were given the challenge.  File system    *)
(* calls fail as std::filesystem says they do.                             *)
(***************************************************************************)
EXTENDS Integers, Sequences

CONSTANTS
  Client,
  User, userList_,    (* names a client may give; those in the users file  *)
  Id,                 (* script numbers                                    *)
  Stored,             (* scripts <<user, id>> in uploadPath_               *)
  MaxChallenges, MaxInbox   (* bounds: challenges issued, datagrams        *)
                            (* waiting at the port                         *)

ASSUME VaultAssumption ==
  /\ userList_ \subseteq User
  /\ Stored \subseteq User \X Id
  /\ 0 \in Id
  /\ MaxChallenges \in Nat /\ MaxInbox \in Nat

Script    == User \X Id

(* The command ids; "other" ones have no case in the switch.  Protected are *)
(* the ids that is_protected() finds above PROTECTED.                       *)
Protected == {"LOAD_SCRIPT", "DOWNLOAD_SCRIPT", "DOWNLOAD_FLAG", "other_protected"}
Open      == {"LIST_USERS", "AUTH", "ENABLE_DEBUG", "DISABLE_DEBUG", "other_open"}

VARIABLES
  inbox,             (* commands at the port, oldest first                 *)
  heard,             (* the challenges each client has been given          *)
  challenge_,        (* the current challenge; 0 before the first          *)
  challengeIssued_, user_, debug_,
  run, download,     (* scripts in exePath_ and downloadPath_              *)
  flags,             (* users whose flag was written                       *)
  reply,             (* the last datagram sent: to whom and what           *)
  (* what the properties remember                                          *)
  named,             (* the user each challenge was issued for             *)
  spent,             (* protected commands carried out for each challenge  *)
  loaded             (* the script the last load was for                   *)

disk  == <<run, download, flags, loaded>>
auth  == <<challenge_, challengeIssued_, user_, named>>
vars  == <<inbox, heard, auth, debug_, disk, reply, spent>>

Challenge == 1..MaxChallenges
NoScript  == <<"nobody", 0>>
Silence   == [to |-> "nobody", what |-> "nothing"]

-----------------------------------------------------------------------------
Init ==
  /\ inbox = <<>> /\ heard = [c \in Client |-> {}]
  /\ challenge_ = 0 /\ challengeIssued_ = FALSE /\ user_ = "" /\ debug_ = FALSE
  /\ run = {} /\ download = {} /\ flags = {}
  /\ reply = Silence
  /\ named = [n \in Challenge |-> ""]
  /\ spent = [n \in Challenge |-> 0]
  /\ loaded = NoScript

(* A datagram; "short" has not the size of a command.  user is the data of *)
(* an AUTH, script that of a command about a script; it is zero elsewhere. *)
Command(key) ==
  [from : Client, id : Open \cup Protected \cup {"short"}, user : User \cup {""},
   script : Id, key : key]

(* A client sends a command; it may know the key of any challenge it was   *)
(* ever given.  Whatever is not sent stands for a datagram lost on the way.*)
Send(c) ==
  /\ Len(inbox) < MaxInbox
  /\ \E cmd \in Command(heard[c] \cup {0}) :
       /\ cmd.from = c
       /\ cmd.id \notin Protected => cmd.key = 0
       /\ cmd.user = "" \/ cmd.id = "AUTH"
       /\ cmd.script = 0 \/ cmd.id \in {"LOAD_SCRIPT", "DOWNLOAD_SCRIPT"}
       /\ inbox' = Append(inbox, cmd)
  /\ UNCHANGED <<heard, auth, debug_, disk, reply, spent>>

Answer(cmd, what) == reply' = [to |-> cmd.from, what |-> what]

KnownAlways(u) == TRUE

(* user_exists()                                                           *)
Known(u) == u \in userList_

IssueChallengeKeepsUser(cmd) ==
  /\ challenge_ < MaxChallenges
  /\ challenge_' = challenge_ + 1
  /\ challengeIssued_' = TRUE
  /\ user_' = IF challengeIssued_ THEN user_ ELSE cmd.user
  /\ named' = [named EXCEPT ![challenge_ + 1] = cmd.user]
  /\ Answer(cmd, "challenge")
  /\ \/ heard' = [heard EXCEPT ![cmd.from] = @ \cup {challenge_ + 1}]
     \/ UNCHANGED heard
  /\ UNCHANGED <<debug_, disk, spent>>

(* issue_challenge(): the answer carries the challenge, and may be lost.   *)
IssueChallenge(cmd) ==
  /\ challenge_ < MaxChallenges
  /\ challenge_' = challenge_ + 1
  /\ challengeIssued_' = TRUE
  /\ user_' = cmd.user
  /\ named' = [named EXCEPT ![challenge_ + 1] = cmd.user]
  /\ Answer(cmd, "challenge")
  /\ \/ heard' = [heard EXCEPT ![cmd.from] = @ \cup {challenge_ + 1}]
     \/ UNCHANGED heard
  /\ UNCHANGED <<debug_, disk, spent>>

UnprotectedCommand(cmd) ==
  \/ cmd.id = "AUTH" /\ IssueChallenge(cmd)
  \/ /\ cmd.id = "LIST_USERS"
     /\ Answer(cmd, "users")
     /\ UNCHANGED <<heard, auth, debug_, disk, spent>>
  \/ /\ cmd.id = "other_open"
     /\ Answer(cmd, "ok")
     /\ UNCHANGED <<heard, auth, debug_, disk, spent>>
  \/ /\ cmd.id \in {"ENABLE_DEBUG", "DISABLE_DEBUG"}
     /\ debug_' = (cmd.id = "ENABLE_DEBUG")
     /\ Answer(cmd, "ok")
     /\ UNCHANGED <<heard, auth, disk, spent>>

LoadScriptKeepsRun(s) ==
  /\ run' = IF s \in Stored THEN run \cup {s} ELSE run
  /\ loaded' = s
  /\ UNCHANGED <<download, flags>>

(* load_script(): the run folder is emptied first; copying a script that   *)
(* is not there throws.                                                    *)
LoadScript(s) ==
  /\ run' = IF s \in Stored THEN {s} ELSE {}
  /\ loaded' = s
  /\ UNCHANGED <<download, flags>>

(* download_script(): copying onto a script already downloaded throws too. *)
DownloadScript(s) ==
  /\ download' = IF s \in Stored THEN download \cup {s} ELSE download
  /\ UNCHANGED <<run, flags, loaded>>

(* Where neither place can be written the flag stays away, and the command *)
(* is answered all the same.                                               *)
DownloadFlag ==
  /\ flags' \in {flags, flags \cup {user_}}
  /\ UNCHANGED <<run, download, loaded>>

(* Whether protected_command throws.                                       *)
Throws(cmd) ==
  /\ Known(user_)
  /\ \/ cmd.id = "LOAD_SCRIPT" /\ <<user_, cmd.script>> \notin Stored
     \/ /\ cmd.id = "DOWNLOAD_SCRIPT"
        /\ <<user_, cmd.script>> \notin Stored \ download

ProtectedCommand(cmd) ==
  IF Known(user_)
  THEN \/ cmd.id = "LOAD_SCRIPT" /\ LoadScript(<<user_, cmd.script>>)
       \/ cmd.id = "DOWNLOAD_SCRIPT" /\ DownloadScript(<<user_, cmd.script>>)
       \/ cmd.id = "DOWNLOAD_FLAG" /\ DownloadFlag
       \/ cmd.id = "other_protected" /\ UNCHANGED disk
  ELSE UNCHANGED disk

SpendNot(cmd) ==
  /\ spent' = [spent EXCEPT ![challenge_] = @ + 1]
  /\ Answer(cmd, "ok")
  /\ UNCHANGED challengeIssued_

(* What follows a protected command that returned: the challenge is spent. *)
Spend(cmd) ==
  /\ spent' = [spent EXCEPT ![challenge_] = @ + 1]
  /\ challengeIssued_' = FALSE
  /\ Answer(cmd, "ok")

(* handle_commands() on the oldest datagram.  execute() swallows what is   *)
(* thrown; then there is no answer and the challenge stays.                *)
HandleCommands ==
  /\ inbox # <<>>
  /\ inbox' = Tail(inbox)
  /\ LET cmd == Head(inbox)
     IN  \/ /\ cmd.id = "short"
            /\ UNCHANGED <<heard, auth, debug_, disk, reply, spent>>
         \/ cmd.id \in Open /\ UnprotectedCommand(cmd)
         \/ /\ cmd.id \in Protected /\ ~challengeIssued_
            /\ Answer(cmd, "request auth first")
            /\ UNCHANGED <<heard, auth, debug_, disk, spent>>
         \/ /\ cmd.id \in Protected /\ challengeIssued_ /\ cmd.key # challenge_
            /\ Answer(cmd, "bad auth")
            /\ UNCHANGED <<heard, auth, debug_, disk, spent>>
         \/ /\ cmd.id \in Protected /\ challengeIssued_ /\ cmd.key = challenge_
            /\ ProtectedCommand(cmd)
            /\ IF Throws(cmd)
               THEN UNCHANGED <<challengeIssued_, reply, spent>>
               ELSE Spend(cmd)
            /\ UNCHANGED <<heard, challenge_, user_, named, debug_>>

Next == (\E c \in Client : Send(c)) \/ HandleCommands

Spec == Init /\ [][Next]_vars

-----------------------------------------------------------------------------
(* Types; a challenge that is open has been issued, and what is in the run *)
(* and download areas is a stored script.                                  *)
TypeOK ==
  /\ inbox \in Seq(Command(Challenge \cup {0}))
  /\ heard \in [Client -> SUBSET Challenge]
  /\ challenge_ \in Challenge \cup {0}
  /\ challengeIssued_ \in BOOLEAN /\ debug_ \in BOOLEAN
  /\ challengeIssued_ => challenge_ # 0
  /\ user_ \in User \cup {""}
  /\ run \subseteq Stored /\ download \subseteq Stored /\ flags \subseteq userList_
  /\ named \in [Challenge -> User \cup {""}]
  /\ spent \in [Challenge -> Nat]
  /\ loaded \in Script \cup {NoScript}

(* A challenge is good for one protected command: a command sent again     *)
(* because its answer was lost, or a key used by somebody else, is not     *)
(* carried out a second time.                                              *)
ChallengeSpentOnce == \A n \in Challenge : spent[n] <= 1

(* However the conversations of clients interleave, files move only on a   *)
(* command of a client that was given the current challenge, and they are  *)
(* files of the registered user that this challenge was asked for.         *)
MovedForItsUser ==
  [][LET cmd == Head(inbox)
         new == (run' \ run) \cup (download' \ download)
     IN  <<run, download, flags>>' # <<run, download, flags>> =>
           /\ cmd.key \in heard[cmd.from]
           /\ named[cmd.key] \in userList_
           /\ \A s \in new : s[1] = named[cmd.key]
           /\ flags' \subseteq flags \cup {named[cmd.key]}]_vars

(* The tickets of ScriptBank.  Only the last challenge can be open, and    *)
(* one that is not open was either paid for a command or replaced.         *)
TicketState ==
  [n \in Challenge |->
     IF spent[n] > 0 THEN "used"
     ELSE IF n > challenge_ THEN "new"
     ELSE IF n = challenge_ /\ challengeIssued_ THEN "open" ELSE "overtaken"]

Bank == INSTANCE ScriptBank WITH
  Ticket <- Challenge, Name <- User \cup {""}, Registered <- userList_,
  held <- heard, owner <- named, state <- TicketState

(* To its users the one challenge and the one user_ that all conversations *)
(* share look like tickets, each for one name and one command: a command   *)
(* that waited while the challenge changed does nothing, and a failed one  *)
(* can be repeated.                                                        *)
ImplementsBank == Bank!Spec

(* "only moving the scripts into the run area when they are started"       *)
(* (ironbank/readme.md): at most one script is there, and it is the one    *)
(* the last load was for; a load that fails leaves none.                   *)
RunAreaHoldsLoaded == run \subseteq {loaded}
=============================================================================
