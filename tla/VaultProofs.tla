------------------------------ MODULE VaultProofs ------------------------------
(* Proofs about Vault: its invariants and the action property hold for     *)
(* every set of clients, users and scripts.                                *)
EXTENDS Vault, TLAPS

(* What a waiting command knows, its sender had been given.                *)
KeysHeard == \A i \in 1..Len(inbox) :
               inbox[i].key = 0 \/ inbox[i].key \in heard[inbox[i].from]

(* Nobody was given a challenge that has not been issued.                  *)
HeardIssued == \A c \in Client : heard[c] \subseteq 1..challenge_

(* The vault remembers the user of the current challenge.                  *)
NamedCurrent == challenge_ # 0 => named[challenge_] = user_

(* Challenges to come are unspent, and so is the open one.                 *)
Unspent ==
  /\ \A n \in Challenge : n > challenge_ => spent[n] = 0
  /\ challengeIssued_ => spent[challenge_] = 0

IndInv ==
  /\ TypeOK /\ KeysHeard /\ HeardIssued /\ NamedCurrent /\ Unspent
  /\ ChallengeSpentOnce /\ RunAreaHoldsLoaded

-----------------------------------------------------------------------------
(* What Append, Head and Tail do to a queue.                               *)
LEMMA QueueTypes ==
  ASSUME NEW S, NEW q \in Seq(S)
  PROVE  /\ \A i \in 1..Len(q) : q[i] \in S
         /\ \A x \in S : /\ Append(q, x) \in Seq(S)
                         /\ Len(Append(q, x)) = Len(q) + 1
                         /\ Append(q, x)[Len(q) + 1] = x
                         /\ \A i \in 1..Len(q) : Append(q, x)[i] = q[i]
         /\ q # <<>> => /\ Head(q) \in S /\ Head(q) = q[1] /\ 1 \in 1..Len(q)
                        /\ Tail(q) \in Seq(S) /\ Len(Tail(q)) = Len(q) - 1
                        /\ \A i \in 1..Len(Tail(q)) : Tail(q)[i] = q[i + 1] /\ i + 1 \in 1..Len(q)
OBVIOUS

(* The oldest datagram is a command.                                       *)
LEMMA CommandType ==
  ASSUME TypeOK, inbox # <<>>
  PROVE  /\ Head(inbox) \in Command(Challenge \cup {0})
         /\ Tail(inbox) \in Seq(Command(Challenge \cup {0}))
         /\ inbox[1] = Head(inbox) /\ 1 \in 1..Len(inbox)
BY QueueTypes DEF TypeOK

(* Sending keeps the invariant: the client can only name keys it was given.*)
LEMMA SendInv ==
  ASSUME IndInv, NEW c \in Client, Send(c)
  PROVE  IndInv'
<1> USE VaultAssumption
<1>1. PICK cmd \in Command(heard[c] \cup {0}) : cmd.from = c /\ inbox' = Append(inbox, cmd)
  BY DEF Send
<1>2. cmd \in Command(Challenge \cup {0})
  <2>1. heard[c] \subseteq Challenge
    BY DEF IndInv, TypeOK
  <2> QED
    BY <2>1 DEF Command
<1>3. UNCHANGED <<heard, auth, debug_, disk, reply, spent>>
  BY DEF Send
<1>4. TypeOK'
  <2>1. inbox' \in Seq(Command(Challenge \cup {0}))
    BY <1>1, <1>2, QueueTypes DEF IndInv, TypeOK
  <2> QED
    BY <1>3, <2>1 DEF IndInv, TypeOK, auth, disk
<1>5. KeysHeard'
  <2> SUFFICES ASSUME NEW i \in 1..Len(inbox')
               PROVE  inbox'[i].key = 0 \/ inbox'[i].key \in heard[inbox'[i].from]
    BY <1>3 DEF KeysHeard
  <2>0. inbox \in Seq(Command(Challenge \cup {0}))
    BY DEF IndInv, TypeOK
  <2>1. CASE i = Len(inbox) + 1
    <3>1. inbox'[i] = cmd
      BY <1>1, <1>2, <2>0, <2>1
    <3>2. cmd.key \in heard[c] \cup {0}
      BY DEF Command
    <3> QED
      BY <1>1, <3>1, <3>2
  <2>2. CASE i # Len(inbox) + 1
    <3>1. i \in 1..Len(inbox) /\ inbox'[i] = inbox[i]
      BY <1>1, <1>2, <2>0, <2>2
    <3> QED
      BY <3>1 DEF IndInv, KeysHeard
  <2> QED
    BY <2>1, <2>2
<1> QED
  BY <1>3, <1>4, <1>5 DEF IndInv, HeardIssued, NamedCurrent, Unspent, ChallengeSpentOnce,
                         RunAreaHoldsLoaded, auth, disk

(* Taking a datagram leaves only commands whose keys were heard: clients   *)
(* do not forget a challenge.                                              *)
LEMMA TakenKeys ==
  ASSUME TypeOK, KeysHeard, inbox # <<>>, inbox' = Tail(inbox),
         \A c \in Client : heard[c] \subseteq heard'[c]
  PROVE  KeysHeard'
<1> DEFINE T == Tail(inbox)
<1> SUFFICES ASSUME NEW i \in 1..Len(T)
             PROVE  T[i].key = 0 \/ T[i].key \in heard'[T[i].from]
  BY DEF KeysHeard
<1> DEFINE S == Command(Challenge \cup {0})
<1>0. inbox \in Seq(S) /\ T \in Seq(S)
  BY CommandType DEF TypeOK
<1> HIDE DEF S
<1>1. T[i] = inbox[i + 1] /\ i + 1 \in 1..Len(inbox) /\ T[i] \in S
  BY <1>0, QueueTypes
<1>2. T[i].from \in Client
  BY <1>1 DEF Command, S
<1> HIDE DEF T
<1> QED
  BY <1>1, <1>2 DEF KeysHeard

(* A command that changes neither disk nor challenge.                      *)
LEMMA AnswerInv ==
  ASSUME IndInv, inbox # <<>>, inbox' = Tail(inbox), debug_' \in BOOLEAN,
         UNCHANGED <<heard, auth, disk, spent>>
  PROVE  IndInv'
<1>1. TypeOK' /\ KeysHeard'
  BY CommandType, TakenKeys DEF IndInv, TypeOK, auth, disk
<1> QED
  BY <1>1 DEF IndInv, HeardIssued, NamedCurrent, Unspent, ChallengeSpentOnce,
              RunAreaHoldsLoaded, auth, disk

(* AUTH: the new challenge is unspent and named.                           *)
LEMMA IssueInv ==
  ASSUME IndInv, inbox # <<>>, inbox' = Tail(inbox), Head(inbox).id = "AUTH",
         IssueChallenge(Head(inbox))
  PROVE  IndInv'
<1> USE VaultAssumption
<1> DEFINE cmd == Head(inbox)
<1>1. cmd.user \in User \cup {""} /\ cmd.from \in Client
  BY CommandType DEF IndInv, Command
<1>2. /\ challenge_ < MaxChallenges /\ challenge_' = challenge_ + 1
      /\ challengeIssued_' = TRUE /\ user_' = cmd.user
      /\ named' = [named EXCEPT ![challenge_ + 1] = cmd.user]
      /\ UNCHANGED <<debug_, disk, spent>>
      /\ \/ heard' = [heard EXCEPT ![cmd.from] = @ \cup {challenge_ + 1}]
         \/ UNCHANGED heard
  BY DEF IssueChallenge
<1>3. challenge_ \in Nat /\ challenge_' \in Challenge
  <2>1. challenge_ \in (1..MaxChallenges) \cup {0}
    BY DEF IndInv, TypeOK, Challenge
  <2> QED
    BY <1>2, <2>1 DEF Challenge
<1>4. /\ heard' \in [Client -> SUBSET Challenge]
      /\ \A c \in Client : heard[c] \subseteq heard'[c] /\ heard'[c] \subseteq 1..challenge_'
  <2>1. heard \in [Client -> SUBSET Challenge] /\ \A c \in Client : heard[c] \subseteq 1..challenge_
    BY DEF IndInv, TypeOK, HeardIssued
  <2>2. 1..challenge_ \subseteq 1..challenge_' /\ challenge_' \in 1..challenge_'
    BY <1>2, <1>3
  <2>3. CASE heard' = [heard EXCEPT ![cmd.from] = @ \cup {challenge_'}]
    BY <1>1, <1>3, <2>1, <2>2, <2>3
  <2>4. CASE UNCHANGED heard
    BY <2>1, <2>2, <2>4
  <2> QED
    BY <1>2, <2>3, <2>4
<1>5. TypeOK'
  <2>1. inbox' \in Seq(Command(Challenge \cup {0}))
    BY CommandType DEF IndInv
  <2>2. named' \in [Challenge -> User \cup {""}] /\ user_' \in User \cup {""}
    BY <1>1, <1>2, <1>3 DEF IndInv, TypeOK
  <2>3. challenge_' \in Challenge \cup {0} /\ challengeIssued_' \in BOOLEAN /\ challenge_' # 0
    BY <1>2, <1>3
  <2> QED
    BY <1>2, <1>4, <2>1, <2>2, <2>3 DEF IndInv, TypeOK, disk
<1>6. KeysHeard'
  BY <1>4, TakenKeys DEF IndInv
<1>7. HeardIssued'
  BY <1>4 DEF HeardIssued
<1>8. NamedCurrent'
  <2>1. named \in [Challenge -> User \cup {""}]
    BY DEF IndInv, TypeOK
  <2> QED
    BY <1>2, <1>3, <2>1 DEF NamedCurrent
<1>9. Unspent'
  <2>1. /\ \A n \in Challenge : n \in Nat
        /\ \A n \in Challenge : n > challenge_ => spent[n] = 0
        /\ UNCHANGED spent
    BY <1>2 DEF Challenge, IndInv, Unspent
  <2>2. challenge_' > challenge_
    BY <1>2, <1>3
  <2>3. \A n \in Challenge : n > challenge_' => n > challenge_
    BY <1>2, <1>3, <2>1
  <2> QED
    BY <1>3, <2>1, <2>2, <2>3 DEF Unspent
<1> QED
  BY <1>2, <1>5, <1>6, <1>7, <1>8, <1>9 DEF IndInv, ChallengeSpentOnce, RunAreaHoldsLoaded, disk

(* What a protected command does to the disk.                              *)
LEMMA DiskInv ==
  ASSUME IndInv, NEW cmd \in Command(Challenge \cup {0}), ProtectedCommand(cmd)
  PROVE  /\ run' \subseteq Stored /\ download' \subseteq Stored /\ flags' \subseteq userList_
         /\ loaded' \in Script \cup {NoScript} /\ run' \subseteq {loaded'}
<1> USE VaultAssumption
<1>1. CASE ~Known(user_)
  BY <1>1 DEF ProtectedCommand, IndInv, TypeOK, RunAreaHoldsLoaded, disk
<1>2. CASE Known(user_)
  <2>1. user_ \in User
    BY <1>2 DEF Known
  <2>2. <<user_, cmd.script>> \in Script
    BY <2>1 DEF Command, Script
  <2>3. /\ run \subseteq Stored /\ download \subseteq Stored /\ flags \subseteq userList_
        /\ loaded \in Script \cup {NoScript} /\ run \subseteq {loaded}
    BY DEF IndInv, TypeOK, RunAreaHoldsLoaded
  <2>4. CASE LoadScript(<<user_, cmd.script>>)
    BY <2>2, <2>3, <2>4 DEF LoadScript
  <2>5. CASE DownloadScript(<<user_, cmd.script>>)
    BY <2>3, <2>5 DEF DownloadScript
  <2>6. CASE DownloadFlag
    BY <1>2, <2>3, <2>6 DEF DownloadFlag, Known
  <2>7. CASE UNCHANGED disk
    BY <2>3, <2>7 DEF disk
  <2> QED
    BY <1>2, <2>4, <2>5, <2>6, <2>7 DEF ProtectedCommand
<1> QED
  BY <1>1, <1>2

(* A protected command with the current key: either it throws and the      *)
(* challenge stays, or the challenge is spent.                             *)
LEMMA ProtectedInv ==
  ASSUME IndInv, inbox # <<>>, inbox' = Tail(inbox), ProtectedCommand(Head(inbox)),
         challengeIssued_,
         \/ UNCHANGED <<challengeIssued_, spent>>
         \/ Spend(Head(inbox)),
         UNCHANGED <<heard, challenge_, user_, named, debug_>>
  PROVE  IndInv'
<1> DEFINE cmd == Head(inbox)
<1>1. cmd \in Command(Challenge \cup {0}) /\ inbox' \in Seq(Command(Challenge \cup {0}))
  BY CommandType DEF IndInv
<1>2. /\ run' \subseteq Stored /\ download' \subseteq Stored /\ flags' \subseteq userList_
      /\ loaded' \in Script \cup {NoScript} /\ run' \subseteq {loaded'}
  BY <1>1, DiskInv
<1>3. /\ challenge_ \in Challenge
      /\ challengeIssued_' \in BOOLEAN
      /\ \/ spent' = spent
         \/ spent' = [spent EXCEPT ![challenge_] = @ + 1] /\ ~challengeIssued_'
  <2>1. challenge_ \in Challenge \cup {0} /\ challenge_ # 0 /\ challengeIssued_ \in BOOLEAN
    BY DEF IndInv, TypeOK
  <2> QED
    BY <2>1 DEF Spend
<1>4. spent' \in [Challenge -> Nat]
  <2>1. spent \in [Challenge -> Nat]
    BY DEF IndInv, TypeOK
  <2> QED
    BY <1>3, <2>1
<1>5. TypeOK'
  BY <1>1, <1>2, <1>3, <1>4 DEF IndInv, TypeOK
<1>6. KeysHeard' /\ HeardIssued' /\ NamedCurrent'
  BY TakenKeys DEF IndInv, HeardIssued, NamedCurrent
<1>7. Unspent' /\ ChallengeSpentOnce'
  <2>1. /\ spent \in [Challenge -> Nat] /\ spent[challenge_] = 0
        /\ \A n \in Challenge : n > challenge_ => spent[n] = 0
        /\ \A n \in Challenge : n \in Nat /\ spent[n] <= 1
    <3>1. spent \in [Challenge -> Nat]
      BY DEF IndInv, TypeOK
    <3>2. \A n \in Challenge : n \in Nat
      BY VaultAssumption DEF Challenge
    <3> QED
      BY <3>1, <3>2 DEF IndInv, Unspent, ChallengeSpentOnce
  <2>2. CASE spent' = spent
    BY <1>3, <2>1, <2>2 DEF Unspent, ChallengeSpentOnce
  <2>3. CASE spent' = [spent EXCEPT ![challenge_] = @ + 1] /\ ~challengeIssued_'
    BY <1>3, <2>1, <2>3 DEF Unspent, ChallengeSpentOnce
  <2> QED
    BY <1>3, <2>2, <2>3
<1> QED
  BY <1>2, <1>5, <1>6, <1>7 DEF IndInv, RunAreaHoldsLoaded

(* Handling the oldest datagram, case by case as handle_commands does.     *)
LEMMA HandleInv ==
  ASSUME IndInv, HandleCommands
  PROVE  IndInv'
<1> DEFINE cmd == Head(inbox)
<1>1. inbox # <<>> /\ inbox' = Tail(inbox) /\ debug_ \in BOOLEAN
  BY DEF HandleCommands, IndInv, TypeOK
<1>2. CASE /\ debug_' \in BOOLEAN
           /\ UNCHANGED <<heard, auth, disk, spent>>
  BY <1>1, <1>2, AnswerInv
<1>3. CASE cmd.id = "AUTH" /\ IssueChallenge(cmd)
  BY <1>1, <1>3, IssueInv
<1>4. CASE /\ challengeIssued_ /\ ProtectedCommand(cmd)
           /\ \/ UNCHANGED <<challengeIssued_, reply, spent>>
              \/ Spend(cmd)
           /\ UNCHANGED <<heard, challenge_, user_, named, debug_>>
  BY <1>1, <1>4, ProtectedInv
<1> QED
  BY <1>1, <1>2, <1>3, <1>4 DEF HandleCommands, UnprotectedCommand

(* The invariant holds in every behaviour of the vault.                    *)
THEOREM VaultInvariant == Spec => []IndInv
<1>1. Init => IndInv
  <2> SUFFICES ASSUME Init PROVE IndInv
    OBVIOUS
  <2>1. inbox \in Seq(Command(Challenge \cup {0})) /\ Len(inbox) = 0
    <3>1. inbox = <<>>
      BY DEF Init
    <3> QED
      BY <3>1
  <2>2. TypeOK
    BY <2>1, VaultAssumption DEF Init, TypeOK
  <2>3. KeysHeard
    BY <2>1 DEF KeysHeard
  <2>4. HeardIssued /\ NamedCurrent
    BY DEF Init, HeardIssued, NamedCurrent
  <2>5. ~challengeIssued_ /\ \A n \in Challenge : spent[n] = 0
    BY DEF Init
  <2>6. Unspent /\ ChallengeSpentOnce
    BY <2>5 DEF Unspent, ChallengeSpentOnce
  <2>7. RunAreaHoldsLoaded
    BY DEF Init, RunAreaHoldsLoaded
  <2> QED
    BY <2>2, <2>3, <2>4, <2>6, <2>7 DEF IndInv
<1>2. IndInv /\ [Next]_vars => IndInv'
  <2> SUFFICES ASSUME IndInv, [Next]_vars PROVE IndInv'
    OBVIOUS
  <2>1. CASE UNCHANGED vars
    BY <2>1 DEF vars, auth, disk, IndInv, TypeOK, KeysHeard, HeardIssued, NamedCurrent, Unspent,
                ChallengeSpentOnce, RunAreaHoldsLoaded
  <2> QED
    BY <2>1, SendInv, HandleInv DEF Next
<1> QED
  BY <1>1, <1>2, PTL DEF Spec

(* The types of the vault (user_exists guards every folder it writes to).  *)
THEOREM VaultTypeOK == Spec => []TypeOK
BY VaultInvariant, PTL DEF IndInv

(* A challenge pays for one protected command (handle_commands clears      *)
(* challengeIssued_).                                                      *)
THEOREM VaultSpentOnce == Spec => []ChallengeSpentOnce
BY VaultInvariant, PTL DEF IndInv

(* The run area holds the last script loaded (clear_run_folder).           *)
THEOREM VaultRunArea == Spec => []RunAreaHoldsLoaded
BY VaultInvariant, PTL DEF IndInv

(* Files move only for the user of the current challenge and on a command  *)
(* of somebody who was given it (validate_key).                            *)
THEOREM VaultMoves == Spec => MovedForItsUser
<1> DEFINE cmd == Head(inbox)
           new == (run' \ run) \cup (download' \ download)
           Moved == <<run, download, flags>>' # <<run, download, flags>> =>
                      /\ cmd.key \in heard[cmd.from]
                      /\ named[cmd.key] \in userList_
                      /\ \A s \in new : s[1] = named[cmd.key]
                      /\ flags' \subseteq flags \cup {named[cmd.key]}
<1>1. IndInv /\ [Next]_vars => Moved
  <2> SUFFICES ASSUME IndInv, [Next]_vars, UNCHANGED <<run, download, flags>> \/ HandleCommands,
                      <<run, download, flags>>' # <<run, download, flags>>
               PROVE  Moved
    BY DEF Next, Send, vars, disk
  <2>1. /\ inbox # <<>> /\ cmd.key = challenge_ /\ ProtectedCommand(cmd)
        /\ challengeIssued_
    BY DEF HandleCommands, UnprotectedCommand, IssueChallenge, disk
  <2>2. challenge_ # 0 /\ named[challenge_] = user_
    BY <2>1 DEF IndInv, TypeOK, NamedCurrent
  <2>3. cmd.key \in heard[cmd.from]
    BY <2>1, <2>2, CommandType DEF IndInv, KeysHeard
  <2>4. user_ \in userList_
    BY <2>1 DEF ProtectedCommand, disk, Known
  <2>5. /\ \A s \in new : s[1] = user_
        /\ flags' \subseteq flags \cup {user_}
    BY <2>1 DEF ProtectedCommand, LoadScript, DownloadScript, DownloadFlag, disk
  <2> QED
    BY <2>1, <2>2, <2>3, <2>4, <2>5
<1> QED
  BY <1>1, VaultInvariant, PTL DEF Spec, MovedForItsUser

-----------------------------------------------------------------------------
(* The vault as a bank of tickets.                                         *)

(* As long as neither challenge nor spending changes, no ticket does.      *)
LEMMA TicketsStay ==
  ASSUME UNCHANGED <<challenge_, challengeIssued_, spent>>
  PROVE  TicketState' = TicketState
BY DEF TicketState

(* Challenges are numbers, and their counts are.                           *)
LEMMA ChallengeNumbers ==
  ASSUME IndInv
  PROVE  /\ challenge_ \in Nat /\ challengeIssued_ \in BOOLEAN
         /\ \A n \in Challenge : /\ n \in Nat \ {0} /\ spent[n] \in Nat
                                 /\ n > challenge_ => spent[n] = 0
         /\ challengeIssued_ => challenge_ \in Challenge /\ spent[challenge_] = 0
<1>1. \A n \in Challenge : n \in Nat \ {0}
  BY VaultAssumption DEF Challenge
<1>2. challenge_ \in Nat /\ challengeIssued_ \in BOOLEAN
  <2>1. challenge_ \in Challenge \cup {0} /\ challengeIssued_ \in BOOLEAN
    BY DEF IndInv, TypeOK
  <2> QED
    BY <1>1, <2>1
<1>3. \A n \in Challenge : spent[n] \in Nat /\ (n > challenge_ => spent[n] = 0)
  BY DEF IndInv, TypeOK, Unspent
<1>4. challengeIssued_ => challenge_ \in Challenge /\ spent[challenge_] = 0
  BY DEF IndInv, TypeOK, Unspent
<1> QED
  BY <1>1, <1>2, <1>3, <1>4

(* The challenge that is open is the one open ticket, and all that were    *)
(* issued before it are used or overtaken.                                 *)
LEMMA OpenTicket ==
  ASSUME IndInv
  PROVE  \A n \in Challenge :
           /\ TicketState[n] = "open" <=> challengeIssued_ /\ n = challenge_
           /\ TicketState[n] = "new" <=> n > challenge_
<1> SUFFICES ASSUME NEW n \in Challenge
             PROVE  /\ TicketState[n] = "open" <=> challengeIssued_ /\ n = challenge_
                    /\ TicketState[n] = "new" <=> n > challenge_
  OBVIOUS
<1>1. /\ challenge_ \in Int /\ n \in Int /\ spent[n] \in Nat
      /\ n > challenge_ => spent[n] = 0
      /\ challengeIssued_ => spent[challenge_] = 0
  BY ChallengeNumbers
<1>2. TicketState[n] = IF spent[n] > 0 THEN "used"
                       ELSE IF n > challenge_ THEN "new"
                       ELSE IF n = challenge_ /\ challengeIssued_ THEN "open" ELSE "overtaken"
  BY DEF TicketState
<1> QED
  BY <1>1, <1>2

(* AUTH is the issue of the next ticket; the one before it is overtaken    *)
(* unless it has been used.                                                *)
LEMMA IssueIsIssue ==
  ASSUME IndInv, inbox # <<>>, Head(inbox).id = "AUTH", IssueChallenge(Head(inbox))
  PROVE  Bank!Next
<1> USE VaultAssumption
<1> DEFINE cmd == Head(inbox)
           t   == challenge_ + 1
<1>1. cmd.from \in Client /\ cmd.user \in User \cup {""}
  BY CommandType DEF IndInv, Command
<1>2. /\ challenge_ < MaxChallenges /\ challenge_' = t /\ challengeIssued_' = TRUE
      /\ named' = [named EXCEPT ![t] = cmd.user]
      /\ heard' \in {heard, [heard EXCEPT ![cmd.from] = @ \cup {t}]}
      /\ UNCHANGED <<run, download, flags, spent>>
  BY DEF IssueChallenge, disk
<1>3. challenge_ \in Int /\ t \in Challenge /\ challengeIssued_ \in BOOLEAN
  <2>1. challenge_ \in Nat /\ challengeIssued_ \in BOOLEAN
    BY ChallengeNumbers
  <2> QED
    BY <1>2, <2>1 DEF Challenge
<1>4. TicketState[t] = "new"
  BY <1>3, OpenTicket
<1>5. TicketState' = [k \in Challenge |->
                        IF k = t THEN "open"
                        ELSE IF TicketState[k] = "open" THEN "overtaken" ELSE TicketState[k]]
  <2> SUFFICES ASSUME NEW k \in Challenge
               PROVE  (IF spent[k] > 0 THEN "used"
                       ELSE IF k > t THEN "new"
                       ELSE IF k = t THEN "open" ELSE "overtaken")
                      = IF k = t THEN "open"
                        ELSE IF TicketState[k] = "open" THEN "overtaken" ELSE TicketState[k]
    BY <1>2 DEF TicketState
  <2>1. /\ k \in Int /\ spent[k] \in Nat
        /\ k > challenge_ => spent[k] = 0
        /\ challengeIssued_ => spent[challenge_] = 0
    BY ChallengeNumbers
  <2>2. TicketState[k] = IF spent[k] > 0 THEN "used"
                         ELSE IF k > challenge_ THEN "new"
                         ELSE IF k = challenge_ /\ challengeIssued_ THEN "open" ELSE "overtaken"
    BY DEF TicketState
  <2> QED
    BY <1>3, <2>1, <2>2
<1>6. Bank!Issue(cmd.from, t, cmd.user)
  BY <1>2, <1>4, <1>5 DEF Bank!Issue, Bank!areas
<1> QED
  BY <1>1, <1>3, <1>6 DEF Bank!Next

(* A protected command with the key of the open challenge uses its ticket, *)
(* or leaves it and at most the run area empty.                            *)
LEMMA ProtectedIsUse ==
  ASSUME IndInv, inbox # <<>>, challengeIssued_, Head(inbox).key = challenge_,
         Head(inbox).id \in Protected, ProtectedCommand(Head(inbox)),
         IF Throws(Head(inbox)) THEN UNCHANGED <<challengeIssued_, reply, spent>>
                                ELSE Spend(Head(inbox)),
         UNCHANGED <<heard, challenge_, user_, named, debug_>>
  PROVE  Bank!Next \/ UNCHANGED Bank!bankVars
<1> USE VaultAssumption
<1> DEFINE cmd == Head(inbox)
           c   == cmd.from
           t   == challenge_
<1>1. cmd \in Command(Challenge \cup {0}) /\ c \in Client /\ cmd.script \in Id
  BY CommandType DEF IndInv, Command
<1>2. t \in Challenge /\ challenge_ # 0 /\ named[t] = user_ /\ spent[t] = 0 /\ spent \in [Challenge -> Nat]
  BY DEF IndInv, TypeOK, NamedCurrent, Unspent
<1>3. Bank!Holds(c, t)
  <2>1. t \in heard[c]
    BY <1>2, CommandType DEF IndInv, KeysHeard
  <2>2. TicketState[t] = "open"
    BY <1>2, OpenTicket
  <2> QED
    BY <2>1, <2>2 DEF Bank!Holds
<1>4. ASSUME Throws(cmd) PROVE Bank!Next \/ UNCHANGED Bank!bankVars
  <2>1. TicketState' = TicketState /\ user_ \in userList_
    BY <1>4, TicketsStay DEF Throws, Known
  <2>2. CASE cmd.id = "LOAD_SCRIPT"
    <3>1. <<user_, cmd.script>> \notin Stored /\ LoadScript(<<user_, cmd.script>>)
      BY <1>4, <2>1, <2>2 DEF Throws, Known, ProtectedCommand
    <3>2. Bank!FailToLoad(c, t)
      BY <1>1, <1>2, <1>3, <2>1, <3>1 DEF Bank!FailToLoad, LoadScript
    <3> QED
      BY <1>1, <1>2, <3>2 DEF Bank!Next
  <2>3. CASE cmd.id = "DOWNLOAD_SCRIPT"
    <3>1. <<user_, cmd.script>> \notin Stored \ download /\ DownloadScript(<<user_, cmd.script>>)
      BY <1>4, <2>1, <2>3 DEF Throws, Known, ProtectedCommand
    <3>2. UNCHANGED <<run, download, flags>>
      BY <3>1 DEF DownloadScript
    <3> QED
      BY <2>1, <3>2 DEF Bank!bankVars, Bank!areas
  <2> QED
    BY <1>4, <2>2, <2>3 DEF Throws
<1>5. ASSUME ~Throws(cmd) PROVE Bank!Use(c, t)
  <2>1. spent' = [spent EXCEPT ![t] = @ + 1] /\ challengeIssued_' = FALSE
    BY <1>5 DEF Spend
  <2>2. TicketState' = [TicketState EXCEPT ![t] = "used"]
    <3> SUFFICES ASSUME NEW n \in Challenge
                 PROVE  TicketState'[n] = IF n = t THEN "used" ELSE TicketState[n]
      BY <1>2 DEF TicketState
    <3>1. TicketState'[n] = IF spent'[n] > 0 THEN "used"
                            ELSE IF n > challenge_ THEN "new" ELSE "overtaken"
      BY <2>1 DEF TicketState
    <3>2. TicketState[n] = IF spent[n] > 0 THEN "used"
                           ELSE IF n > challenge_ THEN "new"
                           ELSE IF n = challenge_ /\ challengeIssued_ THEN "open" ELSE "overtaken"
      BY DEF TicketState
    <3>3. spent'[n] = IF n = t THEN 1 ELSE spent[n]
      BY <1>2, <2>1
    <3> QED
      BY <3>1, <3>2, <3>3
  <2>3. \/ UNCHANGED <<run, download, flags>>
        \/ /\ named[t] \in userList_
           /\ \/ \E id \in Id : Bank!Load(<<named[t], id>>) \/ Bank!Download(<<named[t], id>>)
              \/ Bank!WriteFlag(named[t])
    <3>1. CASE ~Known(user_)
      BY <3>1 DEF ProtectedCommand, disk
    <3>2. CASE Known(user_)
      <4>1. user_ \in userList_
        BY <3>2 DEF Known
      <4>2. CASE cmd.id = "LOAD_SCRIPT" /\ LoadScript(<<user_, cmd.script>>)
        BY <1>1, <1>2, <1>5, <3>2, <4>1, <4>2 DEF Throws, LoadScript, Bank!Load
      <4>3. CASE cmd.id = "DOWNLOAD_SCRIPT" /\ DownloadScript(<<user_, cmd.script>>)
        BY <1>1, <1>2, <1>5, <3>2, <4>1, <4>3 DEF Throws, DownloadScript, Bank!Download
      <4>4. CASE DownloadFlag
        BY <1>2, <4>1, <4>4 DEF DownloadFlag, Bank!WriteFlag
      <4>5. CASE UNCHANGED disk
        BY <4>5 DEF disk
      <4> QED
        BY <3>2, <4>2, <4>3, <4>4, <4>5 DEF ProtectedCommand
    <3> QED
      BY <3>1, <3>2
  <2> QED
    BY <1>3, <2>2, <2>3 DEF Bank!Use, Bank!areas
<1> QED
  BY <1>1, <1>2, <1>4, <1>5 DEF Bank!Next

(* Every step of the vault is a step of the bank or none of its business:  *)
(* one user_ and one challenge for all conversations (issue_challenge,     *)
(* validate_key) serve each ticket as if it were alone.                    *)
THEOREM VaultImplementsBank == Spec => ImplementsBank
<1>1. Init => Bank!Init
  <2> SUFFICES ASSUME Init PROVE Bank!Init
    OBVIOUS
  <2>1. challenge_ = 0 /\ \A n \in Challenge : spent[n] = 0
    BY DEF Init
  <2>2. \A n \in Challenge : ~(spent[n] > 0) /\ n > challenge_
    BY <2>1, VaultAssumption DEF Challenge
  <2>3. TicketState = [n \in Challenge |-> "new"]
    BY <2>2 DEF TicketState
  <2> QED
    BY <2>3 DEF Init, Bank!Init
<1>2. IndInv /\ [Next]_vars => [Bank!Next]_(Bank!bankVars)
  <2> SUFFICES ASSUME IndInv, [Next]_vars
               PROVE  Bank!Next \/ UNCHANGED Bank!bankVars
    OBVIOUS
  <2>1. CASE UNCHANGED <<heard, auth, disk, spent>>
    BY <2>1, TicketsStay DEF auth, disk, Bank!bankVars, Bank!areas
  <2>2. CASE inbox # <<>> /\ Head(inbox).id = "AUTH" /\ IssueChallenge(Head(inbox))
    BY <2>2, IssueIsIssue
  <2>3. CASE /\ inbox # <<>> /\ challengeIssued_ /\ Head(inbox).key = challenge_
             /\ Head(inbox).id \in Protected /\ ProtectedCommand(Head(inbox))
             /\ IF Throws(Head(inbox)) THEN UNCHANGED <<challengeIssued_, reply, spent>>
                                       ELSE Spend(Head(inbox))
             /\ UNCHANGED <<heard, challenge_, user_, named, debug_>>
    BY <2>3, ProtectedIsUse
  <2>4. CASE HandleCommands
    BY <2>1, <2>2, <2>3, <2>4 DEF HandleCommands, UnprotectedCommand
  <2>5. ASSUME NEW c \in Client, Send(c) PROVE UNCHANGED <<heard, auth, disk, spent>>
    BY <2>5 DEF Send
  <2>6. CASE UNCHANGED vars
    BY <2>1, <2>6 DEF vars
  <2> QED
    BY <2>1, <2>4, <2>5, <2>6 DEF Next
<1> QED
  BY <1>1, <1>2, VaultInvariant, PTL DEF Spec, ImplementsBank, Bank!Spec
=============================================================================
