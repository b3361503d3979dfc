------------------------------- MODULE WebProofs -------------------------------
(***************************************************************************)
(* The web server, for any connections, any interval and any window: who   *)
(* has which socket, and how often it accepts; and for any files, what it  *)
(* knows of them when it listens.  And for any keys, what a page of the    *)
(* statistics shows.                                                       *)
(***************************************************************************)
EXTENDS WebListener, WebConfig, HostStats, WellFoundedInduction, FiniteSetTheorems, TLAPS

(* SocketsAccounted, process by process.                                   *)
Accounts ==
  /\ \A c \in Connections :
       /\ owners[c] \subseteq {"listener", c}
       /\ "listener" \in owners[c] <=> listener \in {"fork", "parent"} /\ current = c
       /\ c \in owners[c] <=> child[c] # "none"
       /\ c \in ears <=> child[c] = "forked"
  /\ "listener" \in ears <=> listener # "exited"

(* A connection that waits to be accepted has no process yet and nobody    *)
(* has its socket; one that has a process, or that the listener is about   *)
(* to fork for, is not offered to a new client.                            *)
Known(c) ==
  /\ Waiting(c) => /\ client[c] # "idle" /\ child[c] = "none"
                   /\ ~(listener \in {"fork", "parent"} /\ c = current)
  /\ child[c] # "none" => client[c] # "idle"
  /\ c = current /\ listener \in {"fork", "parent"} => client[c] # "idle"
  /\ c = current /\ listener = "fork" => child[c] = "none"

SocketsInv == TypeOK /\ Accounts /\ \A c \in Connections : Known(c)

LEMMA BacklogPlaces ==
  ASSUME TypeOK
  PROVE  /\ Len(backlog) \in Nat /\ DOMAIN backlog = 1..Len(backlog)
         /\ \A i \in 1..Len(backlog) : backlog[i] \in Connections /\ Waiting(backlog[i])
         /\ \A i, j \in 1..Len(backlog) : backlog[i] = backlog[j] => i = j
  BY DEF TypeOK, Waiting

LEMMA AccountsAreSockets ==
  ASSUME SocketsInv
  PROVE  SocketsAccounted
  <1> DEFINE Ears == {p \in {"listener"} : listener # "exited"} \cup {c \in Connections : child[c] = "forked"}
  <1>1. ears = Ears
    <2>1. ASSUME NEW p \in {"listener"} \cup Connections
          PROVE  p \in ears <=> p \in Ears
      BY <2>1, ListenerAssumption DEF SocketsInv, Accounts, ListenerAssumption
    <2>2. ears \subseteq {"listener"} \cup Connections /\ Ears \subseteq {"listener"} \cup Connections
      BY DEF SocketsInv, TypeOK
    <2> HIDE DEF Ears
    <2> QED
      BY <2>1, <2>2
  <1>2. ASSUME NEW c \in Connections
        PROVE  owners[c] = {p \in {"listener"} : listener \in {"fork", "parent"} /\ current = c}
                           \cup {p \in {c} : child[c] # "none"}
    BY DEF SocketsInv, Accounts
  <1> QED
    BY <1>1, <1>2 DEF SocketsInv, SocketsAccounted

LEMMA ListenerStart == Init => SocketsInv
  <1> SUFFICES ASSUME Init PROVE SocketsInv
    OBVIOUS
  <1>1. TypeOK
    <2>1. backlog \in Seq(Connections) /\ recent \in Seq(0..(Window - 1)) /\ Len(backlog) = 0
      BY DEF Init
    <2>2. since \in 0..Interval /\ delay \in 0..Interval
      BY ListenerAssumption DEF Init, ListenerAssumption
    <2> QED
      BY <2>1, <2>2 DEF Init, TypeOK
  <1>2. Accounts
    BY ListenerAssumption DEF Init, Accounts, ListenerAssumption
  <1>3. \A c \in Connections : Known(c)
    BY DEF Init, Known, Waiting
  <1> QED
    BY <1>1, <1>2, <1>3 DEF SocketsInv

(* Closing the listening socket may empty the backlog; whoever waited is   *)
(* reset.                                                                  *)
LEMMA EarClosed ==
  ASSUME SocketsInv, NEW p, CloseEar(p)
  PROVE  /\ ears' = ears \ {p}
         /\ backlog' \in Seq(Connections)
         /\ \A i, j \in 1..Len(backlog') : backlog'[i] = backlog'[j] => i = j
         /\ client' \in [Connections -> {"idle", "open", "closed"}]
         /\ \A c \in Connections : /\ Waiting(c)' => Waiting(c)
                                   /\ client[c] # "idle" => client'[c] # "idle"
  <1>1. TypeOK
    BY DEF SocketsInv
  <1>2. CASE ears' = {}
    <2>1. /\ backlog' = <<>>
          /\ client' = [c \in Connections |-> IF Waiting(c) THEN "closed" ELSE client[c]]
      BY <1>2 DEF CloseEar
    <2>2. Len(backlog') = 0 /\ backlog' \in Seq(Connections)
      BY <2>1
    <2> QED
      BY <1>1, <2>1, <2>2 DEF CloseEar, TypeOK, Waiting
  <1>3. CASE ears' # {}
    BY <1>1, <1>3 DEF CloseEar, TypeOK, Waiting
  <1> QED
    BY <1>2, <1>3

-----------------------------------------------------------------------------
(* One step of the listener, of a client or of a process.                  *)
LEMMA ConnectInv ==
  ASSUME SocketsInv, NEW c \in Connections, Connect(c)
  PROVE  SocketsInv'
  <1> DEFINE n == Len(backlog)
  <1>1. TypeOK /\ ~Waiting(c)
    BY DEF SocketsInv, Known, Connect
  <1>2. /\ client[c] = "idle" /\ client' = [client EXCEPT ![c] = "open"]
        /\ backlog' = Append(backlog, c)
        /\ UNCHANGED <<listener, current, child, ears, owners, since, delay, recent>>
    BY DEF Connect, sockets, clock
  <1>3. /\ n \in Nat /\ Len(backlog') = n + 1 /\ backlog'[n + 1] = c
        /\ \A i \in 1..n : backlog'[i] = backlog[i] /\ backlog[i] # c
        /\ backlog' \in Seq(Connections)
    BY <1>1, <1>2 DEF TypeOK, Waiting
  <1> HIDE DEF n
  <1>4. \A i, j \in 1..(n + 1) : backlog'[i] = backlog'[j] => i = j
    BY <1>1, <1>3 DEF TypeOK, n
  <1>5. TypeOK'
    BY <1>1, <1>2, <1>3, <1>4 DEF TypeOK
  <1>6. Accounts'
    BY <1>2 DEF SocketsInv, Accounts
  <1>7. \A d \in Connections : Waiting(d)' => Waiting(d) \/ d = c
    BY <1>3 DEF Waiting, n
  <1>8. child[c] = "none" /\ ~(listener \in {"fork", "parent"} /\ c = current)
    BY <1>2 DEF SocketsInv, Known
  <1>9. \A d \in Connections : client'[d] = IF d = c THEN "open" ELSE client[d]
    BY <1>1, <1>2 DEF TypeOK
  <1>10. \A d \in Connections : Known(d)'
    BY <1>2, <1>7, <1>8, <1>9 DEF SocketsInv, Known
  <1> QED
    BY <1>5, <1>6, <1>10 DEF SocketsInv

(* Steps that leave the sockets and the backlog alone.                     *)
LEMMA QuietInv ==
  ASSUME SocketsInv,
         \/ Limit \/ Wake
         \/ \E c \in Connections : ClientCloses(c) \/ Gone(c) \/ Handled(c)
  PROVE  SocketsInv'
  <1>1. TypeOK /\ Interval \in Nat
    BY ListenerAssumption DEF ListenerAssumption, SocketsInv
  <1>2. UNCHANGED <<current, ears, owners, backlog, recent>>
    BY DEF Limit, Wake, ClientCloses, Gone, Handled, sockets, clock
  <1>3. CASE Limit \/ Wake
    <2>1. /\ listener \in {"limit", "sleep"} /\ listener' \in {"sleep", "accept"}
          /\ since' \in 0..Interval /\ delay' \in 0..Interval /\ UNCHANGED <<client, child>>
      BY <1>1, <1>3 DEF Limit, Wake, TypeOK
    <2>2. TypeOK'
      BY <1>1, <1>2, <2>1 DEF TypeOK
    <2>3. Accounts' /\ \A c \in Connections : Known(c)'
      BY <1>2, <2>1 DEF SocketsInv, Accounts, Known, Waiting
    <2> QED
      BY <2>2, <2>3 DEF SocketsInv
  <1>4. ASSUME NEW c \in Connections, ClientCloses(c) \/ Gone(c) \/ Handled(c)
        PROVE  SocketsInv'
    <2>1. UNCHANGED <<listener, since, delay>>
      BY <1>4 DEF ClientCloses, Gone, Handled, clock
    <2>2. CASE Handled(c)
      <3>1. \A d \in Connections : child'[d] = IF d = c THEN "draining" ELSE child[d]
        BY <1>1, <2>2 DEF Handled, TypeOK
      <3>2. child[c] = "handling" /\ client' = client
        BY <2>2 DEF Handled
      <3>3. child' \in [Connections -> {"none", "forked", "handling", "draining"}]
        BY <1>1, <2>2 DEF Handled, TypeOK
      <3>4. TypeOK'
        BY <1>1, <1>2, <2>1, <3>2, <3>3 DEF TypeOK
      <3>5. Accounts' /\ \A d \in Connections : Known(d)'
        BY <1>2, <2>1, <3>1, <3>2 DEF SocketsInv, Accounts, Known, Waiting
      <3> QED
        BY <3>4, <3>5 DEF SocketsInv
    <2>3. CASE ClientCloses(c)
      <3>1. /\ child' = child /\ client' \in [Connections -> {"idle", "open", "closed"}]
            /\ \A d \in Connections : client[d] # "idle" => client'[d] # "idle"
        BY <1>1, <2>3 DEF ClientCloses, TypeOK
      <3>2. TypeOK'
        BY <1>1, <1>2, <2>1, <3>1 DEF TypeOK
      <3>3. Accounts' /\ \A d \in Connections : Known(d)'
        BY <1>2, <2>1, <3>1 DEF SocketsInv, Accounts, Known, Waiting
      <3> QED
        BY <3>2, <3>3 DEF SocketsInv
    <2>4. CASE Gone(c)
      <3>1. /\ child' = child /\ client' \in [Connections -> {"idle", "open", "closed"}]
            /\ \A d \in Connections : d # c => client'[d] = client[d]
            /\ child[c] = "none" /\ ~Waiting(c) /\ (listener \in {"fork", "parent"} => c # current)
        BY <1>1, <2>4 DEF Gone, TypeOK
      <3>2. TypeOK'
        BY <1>1, <1>2, <2>1, <3>1 DEF TypeOK
      <3>3. Accounts'
        BY <1>2, <2>1, <3>1 DEF SocketsInv, Accounts
      <3>4. \A d \in Connections : Known(d)'
        BY <1>2, <2>1, <3>1 DEF SocketsInv, Known, Waiting
      <3> QED
        BY <3>2, <3>3, <3>4 DEF SocketsInv
    <2> QED
      BY <1>4, <2>2, <2>3, <2>4
  <1> QED
    BY <1>3, <1>4

LEMMA AcceptInv ==
  ASSUME SocketsInv, Accept
  PROVE  SocketsInv'
  <1> DEFINE n == Len(backlog)  c == backlog[1]
  <1>1. TypeOK
    BY DEF SocketsInv
  <1>2. /\ listener = "accept" /\ listener' = "fork" /\ backlog # <<>> /\ current' = Head(backlog)
        /\ backlog' = Tail(backlog) /\ owners' = [owners EXCEPT ![current'] = {"listener"}]
        /\ recent' = IF Window = 0 THEN <<>> ELSE <<0>> \o recent
        /\ UNCHANGED <<child, ears, client, since, delay>>
    BY DEF Accept
  <1>3. /\ n \in Nat /\ n > 0 /\ current' = c /\ c \in Connections
        /\ backlog' \in Seq(Connections) /\ Len(backlog') = n - 1
        /\ \A i \in 1..(n - 1) : backlog'[i] = backlog[i + 1]
    BY <1>1, <1>2 DEF TypeOK
  <1>4. Waiting(c)
    BY <1>3 DEF Waiting
  <1>5. \A i, j \in 1..n : backlog[i] = backlog[j] => i = j
    BY <1>1 DEF TypeOK
  <1> HIDE DEF n, c
  <1>6. \A i, j \in 1..(n - 1) : backlog'[i] = backlog'[j] => i = j
    <2> SUFFICES ASSUME NEW i \in 1..(n - 1), NEW j \in 1..(n - 1), backlog'[i] = backlog'[j]
                 PROVE  i = j
      OBVIOUS
    <2>1. i + 1 \in 1..n /\ j + 1 \in 1..n /\ backlog[i + 1] = backlog[j + 1]
      BY <1>3
    <2>2. i + 1 = j + 1
      BY <1>5, <2>1
    <2> QED
      BY <2>2
  <1>7. \A d \in Connections : Waiting(d)' => Waiting(d) /\ d # c
    <2> SUFFICES ASSUME NEW i \in 1..(n - 1) PROVE Waiting(backlog'[i]) /\ backlog'[i] # c
      BY <1>3 DEF Waiting
    <2>1. i + 1 \in 1..n /\ 1 \in 1..n /\ i + 1 # 1
      BY <1>3
    <2> QED
      BY <1>3, <1>5, <2>1 DEF Waiting, n, c
  <1>8. recent' \in Seq(0..(Window - 1))
    <2>1. CASE Window = 0
      BY <1>2, <2>1
    <2>2. CASE Window # 0
      <3>1. Window \in Nat
        BY ListenerAssumption DEF ListenerAssumption, Window
      <3>2. <<0>> \in Seq(0..(Window - 1))
        BY <2>2, <3>1
      <3> QED
        BY <1>1, <1>2, <2>2, <3>2 DEF TypeOK
    <2> QED
      BY <2>1, <2>2
  <1>9. \A d \in Connections : owners'[d] = IF d = c THEN {"listener"} ELSE owners[d]
    BY <1>1, <1>2, <1>3 DEF TypeOK
  <1>10. owners' \in [Connections -> SUBSET ({"listener"} \cup Connections)]
    BY <1>1, <1>2, <1>3 DEF TypeOK
  <1>11. TypeOK'
    BY <1>1, <1>2, <1>3, <1>6, <1>8, <1>10 DEF TypeOK
  <1>12. child[c] = "none" /\ client[c] # "idle"
    BY <1>3, <1>4 DEF SocketsInv, Known
  <1>13. Accounts'
    BY <1>2, <1>3, <1>9, <1>12, ListenerAssumption DEF SocketsInv, Accounts, ListenerAssumption
  <1>14. \A d \in Connections : Known(d)'
    BY <1>2, <1>3, <1>7, <1>12 DEF SocketsInv, Known
  <1> QED
    BY <1>11, <1>13, <1>14 DEF SocketsInv

LEMMA ForkInv ==
  ASSUME SocketsInv, Fork
  PROVE  SocketsInv'
  <1>1. TypeOK /\ current \in Connections
    BY DEF SocketsInv, TypeOK
  <1>2. /\ listener = "fork" /\ listener' = "parent"
        /\ child' = [child EXCEPT ![current] = "forked"] /\ ears' = ears \cup {current}
        /\ owners' = [owners EXCEPT ![current] = @ \cup {current}]
        /\ UNCHANGED <<current, client, backlog, since, delay, recent>>
    BY DEF Fork, clock
  <1>3. \A d \in Connections :
          /\ child'[d] = IF d = current THEN "forked" ELSE child[d]
          /\ owners'[d] = IF d = current THEN owners[d] \cup {d} ELSE owners[d]
    BY <1>1, <1>2 DEF TypeOK
  <1>4. TypeOK'
    BY <1>1, <1>2 DEF TypeOK
  <1>5. Accounts'
    BY <1>1, <1>2, <1>3, ListenerAssumption DEF SocketsInv, Accounts, ListenerAssumption
  <1>6. \A d \in Connections : Known(d)'
    BY <1>1, <1>2, <1>3 DEF SocketsInv, Known, Waiting
  <1> QED
    BY <1>4, <1>5, <1>6 DEF SocketsInv

LEMMA ParentClosesInv ==
  ASSUME SocketsInv, ParentCloses
  PROVE  SocketsInv'
  <1>1. TypeOK /\ current \in Connections
    BY DEF SocketsInv, TypeOK
  <1>2. /\ listener = "parent" /\ listener' \in {"limit", "accept"}
        /\ owners' = [owners EXCEPT ![current] = @ \ {"listener"}]
        /\ UNCHANGED <<current, child, ears, client, backlog, since, delay, recent>>
    BY DEF ParentCloses, clock
  <1>3. \A d \in Connections : owners'[d] = IF d = current THEN owners[d] \ {"listener"} ELSE owners[d]
    BY <1>1, <1>2 DEF TypeOK
  <1>4. TypeOK'
    BY <1>1, <1>2 DEF TypeOK
  <1>5. Accounts'
    BY <1>1, <1>2, <1>3, ListenerAssumption DEF SocketsInv, Accounts, ListenerAssumption
  <1>6. \A d \in Connections : Known(d)'
    BY <1>2 DEF SocketsInv, Known, Waiting
  <1> QED
    BY <1>4, <1>5, <1>6 DEF SocketsInv

LEMMA ListenerEndsInv ==
  ASSUME SocketsInv, AcceptFails \/ ForkFails
  PROVE  SocketsInv'
  <1>1. TypeOK /\ current \in Connections
    BY DEF SocketsInv, TypeOK
  <1>2. /\ listener \in {"accept", "fork"} /\ listener' = "exited" /\ CloseEar("listener")
        /\ UNCHANGED <<current, child, since, delay, recent>>
    BY DEF AcceptFails, ForkFails, clock
  <1>3. /\ owners' \in [Connections -> SUBSET ({"listener"} \cup Connections)]
        /\ \A d \in Connections : owners'[d] = owners[d] \ {"listener"}
    <2>1. CASE AcceptFails
      <3>1. owners' = owners /\ \A d \in Connections : "listener" \notin owners[d]
        BY <2>1 DEF AcceptFails, SocketsInv, Accounts
      <3> QED
        BY <1>1, <3>1 DEF TypeOK
    <2>2. CASE ForkFails
      <3>1. owners' = [owners EXCEPT ![current] = @ \ {"listener"}]
        BY <2>2 DEF ForkFails
      <3>2. \A d \in Connections : d # current => "listener" \notin owners[d]
        BY DEF SocketsInv, Accounts
      <3> QED
        BY <1>1, <3>1, <3>2 DEF TypeOK
    <2> QED
      BY <2>1, <2>2
  <1>4. TypeOK'
    BY <1>1, <1>2, <1>3, EarClosed DEF TypeOK
  <1>5. Accounts'
    <2>1. ears' = ears \ {"listener"}
      BY <1>2, EarClosed
    <2> QED
      BY <1>2, <1>3, <2>1, ListenerAssumption DEF SocketsInv, Accounts, ListenerAssumption
  <1>6. \A d \in Connections : Known(d)'
    BY <1>2, EarClosed DEF SocketsInv, Known
  <1> QED
    BY <1>4, <1>5, <1>6 DEF SocketsInv

LEMMA ChildStepInv ==
  ASSUME SocketsInv, NEW c \in Connections, ChildCloses(c) \/ ChildExits(c)
  PROVE  SocketsInv'
  <1>1. TypeOK
    BY DEF SocketsInv
  <1>2. CloseEar(c) /\ UNCHANGED <<listener, current, since, delay, recent>>
    BY DEF ChildCloses, ChildExits, clock
  <1>3. ears' = ears \ {c}
    BY <1>2, EarClosed
  <1>4. \A d \in Connections : /\ Waiting(d)' => Waiting(d)
                               /\ client[d] # "idle" => client'[d] # "idle"
    BY <1>2, EarClosed
  <1>5. CASE ChildCloses(c)
    <2>1. /\ child[c] = "forked" /\ child' = [child EXCEPT ![c] = "handling"] /\ owners' = owners
      BY <1>5 DEF ChildCloses
    <2>2. \A d \in Connections : child'[d] = IF d = c THEN "handling" ELSE child[d]
      BY <1>1, <2>1 DEF TypeOK
    <2>3. TypeOK'
      <3>1. child' \in [Connections -> {"none", "forked", "handling", "draining"}]
        BY <1>1, <2>1 DEF TypeOK
      <3> QED
        BY <1>1, <1>2, <1>3, <2>1, <3>1, EarClosed DEF TypeOK
    <2>4. Accounts'
      BY <1>2, <1>3, <2>1, <2>2, ListenerAssumption DEF SocketsInv, Accounts, ListenerAssumption
    <2>5. \A d \in Connections : Known(d)'
      BY <1>2, <1>4, <2>1, <2>2 DEF SocketsInv, Known
    <2> QED
      BY <2>3, <2>4, <2>5 DEF SocketsInv
  <1>6. CASE ChildExits(c)
    <2>1. /\ child[c] = "draining" /\ child' = [child EXCEPT ![c] = "none"]
          /\ owners' = [owners EXCEPT ![c] = @ \ {c}]
      BY <1>6 DEF ChildExits
    <2>2. \A d \in Connections : /\ child'[d] = IF d = c THEN "none" ELSE child[d]
                                 /\ owners'[d] = IF d = c THEN owners[d] \ {c} ELSE owners[d]
      BY <1>1, <2>1 DEF TypeOK
    <2>3. TypeOK'
      <3>1. /\ child' \in [Connections -> {"none", "forked", "handling", "draining"}]
            /\ owners' \in [Connections -> SUBSET ({"listener"} \cup Connections)]
        BY <1>1, <2>1 DEF TypeOK
      <3> QED
        BY <1>1, <1>2, <1>3, <3>1, EarClosed DEF TypeOK
    <2>4. Accounts'
      BY <1>2, <1>3, <2>1, <2>2, ListenerAssumption DEF SocketsInv, Accounts, ListenerAssumption
    <2>5. \A d \in Connections : Known(d)'
      BY <1>2, <1>4, <2>1, <2>2 DEF SocketsInv, Known
    <2> QED
      BY <2>3, <2>4, <2>5 DEF SocketsInv
  <1> QED
    BY <1>5, <1>6

(* A tick keeps the youngest accepts, each a tick older.                   *)
LEMMA TickAges ==
  ASSUME TypeOK, Tick
  PROVE  /\ recent' \in Seq(0..(Window - 1)) /\ Len(recent') <= Len(recent)
         /\ \A i \in 1..Len(recent') : recent'[i] = recent[i] + 1
         /\ since' \in 0..Interval /\ since' <= since + 1
         /\ delay' \in 0..Interval
         /\ since + delay >= Interval => since' + delay' >= Interval
  <1>1. Interval \in Nat /\ Window \in Nat
    BY ListenerAssumption DEF ListenerAssumption, Window
  <1>2. PICK n \in 0..Len(recent) :
          /\ \A i \in 1..Len(recent) : i <= n <=> recent[i] + 1 < Window
          /\ recent' = [i \in 1..n |-> recent[i] + 1]
    BY DEF Tick
  <1>3. Len(recent) \in Nat /\ \A i \in 1..Len(recent) : recent[i] \in 0..(Window - 1)
    <2> DEFINE Ages == 0..(Window - 1)
    <2>1. recent \in Seq(Ages)
      BY DEF TypeOK
    <2> HIDE DEF Ages
    <2>2. Len(recent) \in Nat /\ \A i \in 1..Len(recent) : recent[i] \in Ages
      BY <2>1
    <2> QED
      BY <2>2 DEF Ages
  <1>4. n \in Nat /\ \A i \in 1..n : recent[i] + 1 \in 0..(Window - 1)
    <2>1. n \in Nat
      BY <1>3
    <2>2. ASSUME NEW i \in 1..n
          PROVE  recent[i] + 1 \in 0..(Window - 1)
      <3>1. i \in 1..Len(recent) /\ i <= n
        BY <1>3, <2>1
      <3>2. recent[i] + 1 < Window /\ recent[i] \in 0..(Window - 1)
        BY <1>2, <1>3, <3>1
      <3> QED
        BY <1>1, <3>2
    <2> QED
      BY <2>1, <2>2
  <1>5. recent' \in Seq(0..(Window - 1)) /\ Len(recent') = n
    BY <1>2, <1>4
  <1>6. \A i \in 1..n : recent'[i] = recent[i] + 1
    BY <1>2
  <1>7. /\ since' \in 0..Interval /\ since' <= since + 1 /\ delay' \in 0..Interval
        /\ since + delay >= Interval => since' + delay' >= Interval
    BY <1>1 DEF Tick, TypeOK
  <1> QED
    BY <1>3, <1>5, <1>6, <1>7

LEMMA TickInv ==
  ASSUME SocketsInv, Tick
  PROVE  SocketsInv'
  <1>1. TypeOK
    BY DEF SocketsInv
  <1>2. UNCHANGED <<listener, current, child, ears, owners, client, backlog>>
    BY DEF Tick, sockets
  <1>3. TypeOK'
    BY <1>1, <1>2, TickAges DEF TypeOK
  <1>4. Accounts' /\ \A c \in Connections : Known(c)'
    BY <1>2 DEF SocketsInv, Accounts, Known, Waiting
  <1> QED
    BY <1>3, <1>4 DEF SocketsInv

LEMMA SocketsStep == SocketsInv /\ [Next]_vars => SocketsInv'
  <1> SUFFICES ASSUME SocketsInv, [Next]_vars PROVE SocketsInv'
    OBVIOUS
  <1>1. CASE Listen \/ AcceptFails \/ ForkFails \/ Tick
    BY <1>1, AcceptInv, ForkInv, ParentClosesInv, QuietInv, ListenerEndsInv, TickInv DEF Listen
  <1>2. ASSUME NEW c \in Connections,
               Connect(c) \/ ClientCloses(c) \/ Gone(c) \/ ChildCloses(c) \/ Handled(c) \/ ChildExits(c)
        PROVE  SocketsInv'
    BY <1>2, ConnectInv, QuietInv, ChildStepInv
  <1>3. CASE UNCHANGED vars
    <2>1. UNCHANGED <<listener, current, child, ears, owners, client, backlog, since, delay, recent>>
      BY <1>3 DEF vars, sockets, clock
    <2>2. TypeOK'
      BY <2>1 DEF SocketsInv, TypeOK
    <2>3. Accounts' /\ \A c \in Connections : Known(c)'
      BY <2>1 DEF SocketsInv, Accounts, Known, Waiting
    <2> QED
      BY <2>2, <2>3 DEF SocketsInv
  <1> QED
    BY <1>1, <1>2, <1>3 DEF Next

(* Every descriptor is somebody's, whatever processes there are and        *)
(* however they interleave (start_server() and handle_client() of main.c). *)
THEOREM EverySocketIsAccounted == Spec => []SocketsAccounted
  <1>1. Init => SocketsInv
    BY ListenerStart
  <1>2. SocketsInv /\ [Next]_vars => SocketsInv'
    BY SocketsStep
  <1>3. SocketsInv => SocketsAccounted
    BY AccountsAreSockets
  <1> QED
    BY <1>1, <1>2, <1>3, PTL DEF Spec

-----------------------------------------------------------------------------
(* Between two accepts the listener passes the rate limiter, where it      *)
(* starts to count again once an interval is over.  So the k-th youngest   *)
(* accept is at least k - 1 intervals older than the count when the next   *)
(* one may come, and one interval less when the youngest has not been      *)
(* through the limiter yet.                                                *)
Passed == IF listener = "accept" THEN 1 ELSE 2

Spaced ==
  /\ listener = "sleep" => since + delay >= Interval
  /\ \A i \in Passed..Len(recent) : recent[i] >= since + (i - Passed) * Interval

LEMMA Intervals ==
  ASSUME NEW i \in Int, NEW n \in Nat
  PROVE  /\ i * n \in Int /\ (i + 1) * n = i * n + n
         /\ \A k \in Int : (i - k) * n \in Int /\ (i - (k + 1)) * n = (i - k) * n - n
  OBVIOUS

LEMMA SpacedStep ==
  ASSUME TypeOK, Spaced, [Next]_vars
  PROVE  Spaced'
  <1>1. /\ Interval \in Nat /\ since \in 0..Interval /\ delay \in 0..Interval
        /\ Len(recent) \in Nat /\ \A i \in 1..Len(recent) : recent[i] \in Nat
    <2>1. Window \in Nat
      BY ListenerAssumption DEF ListenerAssumption, Window
    <2> QED
      BY <2>1, ListenerAssumption DEF ListenerAssumption, TypeOK
  <1>2. CASE Accept
    <2>1. CASE Window = 0
      BY <1>2, <2>1, <1>1 DEF Accept, Spaced, Passed
    <2>2. CASE Window # 0
      <3>1. /\ listener = "accept" /\ listener' = "fork" /\ since' = since /\ recent' = <<0>> \o recent
        BY <1>2, <2>2 DEF Accept
      <3>2. /\ Len(recent') = Len(recent) + 1
            /\ \A i \in 2..Len(recent') : recent'[i] = recent[i - 1]
        BY <3>1 DEF TypeOK
      <3>3. \A i \in 2..Len(recent') : recent'[i] >= since + (i - 2) * Interval
        <4> SUFFICES ASSUME NEW i \in 2..Len(recent') PROVE recent'[i] >= since + (i - 2) * Interval
          OBVIOUS
        <4>1. i - 1 \in 1..Len(recent) /\ (i - 1) - 1 = i - 2
          BY <1>1, <3>2
        <4>2. recent[i - 1] >= since + ((i - 1) - 1) * Interval
          BY <3>1, <4>1 DEF Spaced, Passed
        <4> QED
          BY <3>2, <4>1, <4>2
      <3> QED
        BY <3>1, <3>3 DEF Spaced, Passed
    <2> QED
      BY <2>1, <2>2
  <1>3. CASE Tick
    <2>1. /\ listener' = listener /\ Len(recent') \in Nat /\ Len(recent') <= Len(recent)
          /\ \A i \in 1..Len(recent') : recent'[i] = recent[i] + 1
          /\ since' \in 0..Interval /\ since' <= since + 1
          /\ since + delay >= Interval => since' + delay' >= Interval
      BY <1>3, TickAges DEF Tick
    <2>2. ASSUME NEW i \in Passed..Len(recent')
          PROVE  recent'[i] >= since' + (i - Passed) * Interval
      <3>1. i \in Passed..Len(recent) /\ i \in 1..Len(recent') /\ Passed \in Int
        BY <1>1, <2>1, <2>2 DEF Passed
      <3>2. recent[i] >= since + (i - Passed) * Interval /\ (i - Passed) * Interval \in Int
        BY <1>1, <3>1, Intervals DEF Spaced
      <3> QED
        BY <1>1, <2>1, <3>1, <3>2
    <2>3. Passed' = Passed
      BY <2>1 DEF Passed
    <2> QED
      BY <2>1, <2>2, <2>3 DEF Spaced
  <1>4. CASE Limit \/ Wake
    <2>1. recent' = recent /\ listener \in {"limit", "sleep"}
      BY <1>4 DEF Limit, Wake
    <2>2. CASE listener' = "accept"
      <3>1. since' = 0 /\ since >= Interval
        BY <1>1, <1>4, <2>2 DEF Limit, Wake, Spaced
      <3>2. ASSUME NEW i \in 1..Len(recent)
            PROVE  recent[i] >= (i - 1) * Interval
        <4>1. CASE i = 1
          BY <1>1, <4>1
        <4>2. CASE i # 1
          <5>1. recent[i] >= since + (i - 2) * Interval
            BY <1>1, <2>1, <3>2, <4>2 DEF Spaced, Passed
          <5>2. (i - 2) * Interval = (i - 1) * Interval - Interval /\ (i - 1) * Interval \in Int
            BY <1>1, <3>2
          <5> QED
            BY <1>1, <3>1, <5>1, <5>2
        <4> QED
          BY <4>1, <4>2
      <3> QED
        BY <1>1, <2>1, <2>2, <3>1, <3>2 DEF Spaced, Passed
    <2>3. CASE listener' # "accept"
      <3>1. listener' = "sleep" /\ since' = since /\ delay' = Interval - since
        BY <1>4, <2>3 DEF Limit, Wake
      <3> QED
        BY <1>1, <2>1, <3>1 DEF Spaced, Passed
    <2> QED
      BY <2>2, <2>3
  <1>5. CASE ParentCloses \/ AcceptFails \/ ForkFails \/ Fork
    <2>1. since' = since /\ recent' = recent /\ listener' # "sleep"
      BY <1>5 DEF ParentCloses, AcceptFails, ForkFails, Fork, clock
    <2>2. CASE listener' = "accept"
      <3>1. Window = 0
        BY <1>1, <1>5, <2>2, ListenerAssumption
           DEF ParentCloses, AcceptFails, ForkFails, Fork, ListenerAssumption, Window
      <3>2. Len(recent) = 0
        BY <1>1, <3>1 DEF TypeOK
      <3> QED
        BY <1>1, <2>1, <2>2, <3>2 DEF Spaced, Passed
    <2>3. CASE listener' # "accept"
      <3>1. ASSUME NEW i \in 2..Len(recent)
            PROVE  recent[i] >= since + (i - 2) * Interval
        <4>1. CASE listener = "accept"
          <5>1. recent[i] >= since + (i - 1) * Interval
            BY <1>1, <3>1, <4>1 DEF Spaced, Passed
          <5>2. (i - 2) * Interval = (i - 1) * Interval - Interval /\ (i - 1) * Interval \in Int
            BY <1>1, <3>1
          <5> QED
            BY <1>1, <5>1, <5>2
        <4>2. CASE listener # "accept"
          BY <3>1, <4>2 DEF Spaced, Passed
        <4> QED
          BY <4>1, <4>2
      <3> QED
        BY <2>1, <2>3, <3>1 DEF Spaced, Passed
    <2> QED
      BY <2>2, <2>3
  <1>6. ASSUME UNCHANGED <<listener, since, delay, recent>>
        PROVE  Spaced'
    BY <1>6 DEF Spaced, Passed
  <1>7. CASE UNCHANGED vars
    BY <1>6, <1>7 DEF vars, clock
  <1>8. ASSUME NEW c \in Connections,
               Connect(c) \/ ClientCloses(c) \/ Gone(c) \/ ChildCloses(c) \/ Handled(c) \/ ChildExits(c)
        PROVE  Spaced'
    BY <1>6, <1>8 DEF Connect, ClientCloses, Gone, ChildCloses, Handled, ChildExits, clock
  <1> QED
    BY <1>2, <1>3, <1>4, <1>5, <1>7, <1>8 DEF Next, Listen

LEMMA SpacedIsLimited ==
  ASSUME TypeOK, Spaced
  PROVE  RateLimited
  <1> DEFINE n == Len(recent)
  <1>1. n \in Nat /\ Interval \in Nat /\ PerWindow \in Nat \ {0} /\ since \in Nat
        /\ Window = PerWindow * Interval /\ Window \in Nat
    BY ListenerAssumption DEF ListenerAssumption, TypeOK, Window
  <1>2. CASE n < 2
    BY <1>1, <1>2 DEF RateLimited
  <1>3. CASE n >= 2
    <2>1. recent[n] \in 0..(Window - 1)
      BY <1>1, <1>3 DEF TypeOK
    <2>2. recent[n] >= since + (n - 2) * Interval
      <3>1. CASE listener = "accept"
        <4>1. recent[n] >= since + (n - 1) * Interval
          BY <1>1, <1>3, <3>1 DEF Spaced, Passed
        <4>2. (n - 2) * Interval = (n - 1) * Interval - Interval /\ (n - 1) * Interval \in Int
          BY <1>1
        <4> QED
          BY <1>1, <2>1, <4>1, <4>2
      <3>2. CASE listener # "accept"
        BY <1>1, <1>3, <3>2 DEF Spaced, Passed
      <3> QED
        BY <3>1, <3>2
    <2> HIDE DEF n
    <2>3. (n - 2) * Interval \in Int /\ (n - 2) * Interval < PerWindow * Interval
      BY <1>1, <2>1, <2>2
    <2>4. n - 2 < PerWindow
      BY <1>1, <2>3
    <2> QED
      BY <1>1, <2>4 DEF RateLimited, n
  <1> QED
    BY <1>1, <1>2, <1>3

(* The rate limiter of start_server() keeps its promise for every interval *)
(* and every window: a quiet time earns one connection, never a burst.     *)
THEOREM AcceptsAreLimited == Spec => []RateLimited
  <1>1. Init => SocketsInv /\ Spaced
    BY ListenerStart DEF Init, Spaced, Passed
  <1>2. SocketsInv /\ Spaced /\ [Next]_vars => SocketsInv' /\ Spaced'
    BY SocketsStep, SpacedStep DEF SocketsInv
  <1>3. SocketsInv /\ Spaced => RateLimited
    BY SpacedIsLimited DEF SocketsInv
  <1> QED
    BY <1>1, <1>2, <1>3, PTL DEF Spec

-----------------------------------------------------------------------------
(* How the server starts.  A dictionary has a key when an entry of it      *)
(* does.                                                                   *)
Has(dict, k) == \E i \in DOMAIN dict : dict[i].key = k

LEMMA LeastIndex ==
  ASSUME NEW T \in SUBSET Nat, T # {}
  PROVE  \E m \in T : \A i \in T : m <= i
  <1> DEFINE R == OpToRel(<, Nat)
  <1>1. IsWellFoundedOn(R, Nat)
    BY NatLessThanWellFounded
  <1>2. \A i, m \in Nat : i < m => <<i, m>> \in R
    BY DEF OpToRel
  <1> HIDE DEF R
  <1>3. PICK m \in T : \A i \in T : ~(<<i, m>> \in R)
    BY <1>1, WFMin
  <1>4. ASSUME NEW i \in T
        PROVE  m <= i
    <2>1. i \in Nat /\ m \in Nat /\ ~(i < m)
      BY <1>2, <1>3
    <2> QED
      BY <2>1
  <1> QED
    BY <1>4

(* findDict() finds the first entry with the key.                          *)
LEMMA FirstIsFound ==
  ASSUME NEW d, NEW n \in Nat, DOMAIN d = 1..n, NEW k,
         NEW m \in 1..n, d[m].key = k, \A j \in 1..(m - 1) : d[j].key # k
  PROVE  FindDict(d, k) = d[m].value
  <1>1. m \in Reaches(d, k) /\ d[m].key = k
    BY DEF Reaches
  <1>2. ASSUME NEW i \in Reaches(d, k), d[i].key = k
        PROVE  i = m
    <2>1. i \in 1..n /\ \A j \in 1..(i - 1) : d[j].key # k
      BY DEF Reaches
    <2>2. ~(i < m) /\ ~(m < i)
      BY <1>2, <2>1
    <2> QED
      BY <2>1, <2>2
  <1>3. (CHOOSE i \in Reaches(d, k) : d[i].key = k) = m
    BY <1>1, <1>2
  <1> QED
    BY <1>3 DEF FindDict

LEMMA FirstExists ==
  ASSUME NEW d, NEW n \in Nat, DOMAIN d = 1..n, NEW k, Has(d, k)
  PROVE  \E m \in 1..n : d[m].key = k /\ \A j \in 1..(m - 1) : d[j].key # k
  <1> DEFINE T == {i \in 1..n : d[i].key = k}
  <1>1. T \in SUBSET Nat /\ T # {}
    BY DEF Has
  <1>2. PICK m \in T : \A i \in T : m <= i
    BY <1>1, LeastIndex
  <1>3. ASSUME NEW j \in 1..(m - 1), d[j].key = k
        PROVE  FALSE
    <2>1. j \in T /\ ~(m <= j)
      BY <1>3
    <2> QED
      BY <1>2, <2>1
  <1> QED
    BY <1>2, <1>3

LEMMA LookupAfterAppend ==
  ASSUME NEW S, NEW d \in Seq(S), NEW e \in S, NEW k
  PROVE  /\ Has(Append(d, e), k) <=> Has(d, k) \/ e.key = k
         /\ Has(d, k) => FindDict(Append(d, e), k) = FindDict(d, k)
         /\ ~Has(d, k) /\ e.key = k => FindDict(Append(d, e), k) = e.value
  <1> DEFINE a == Append(d, e)
             n == Len(d)
  <1>1. n \in Nat /\ n + 1 \in Nat /\ DOMAIN d = 1..n /\ DOMAIN a = 1..(n + 1)
    OBVIOUS
  <1>2. a[n + 1] = e /\ \A i \in 1..n : a[i] = d[i]
    OBVIOUS
  <1> HIDE DEF a, n
  <1>3. Has(a, k) <=> Has(d, k) \/ e.key = k
    <2>1. 1..(n + 1) = 1..n \cup {n + 1}
      BY <1>1
    <2> QED
      BY <1>1, <1>2, <2>1 DEF Has
  <1>4. ASSUME Has(d, k)
        PROVE  FindDict(a, k) = FindDict(d, k)
    <2>1. PICK m \in 1..n : d[m].key = k /\ \A j \in 1..(m - 1) : d[j].key # k
      BY <1>1, <1>4, FirstExists
    <2>2. FindDict(d, k) = d[m].value
      BY <1>1, <2>1, FirstIsFound
    <2>3. /\ m \in 1..(n + 1) /\ a[m] = d[m] /\ a[m].key = k
          /\ \A j \in 1..(m - 1) : a[j].key # k
      BY <1>1, <1>2, <2>1
    <2>4. FindDict(a, k) = a[m].value
      <3> DEFINE p == n + 1
      <3>1. p \in Nat /\ DOMAIN a = 1..p /\ m \in 1..p
        BY <1>1, <2>3
      <3> HIDE DEF p
      <3> QED
        BY <2>3, <3>1, FirstIsFound
    <2> QED
      BY <2>2, <2>3, <2>4
  <1>5. ASSUME ~Has(d, k), e.key = k
        PROVE  FindDict(a, k) = e.value
    <2>1. n + 1 \in 1..(n + 1) /\ a[n + 1].key = k /\ \A j \in 1..(n + 1 - 1) : a[j].key # k
      BY <1>1, <1>2, <1>5 DEF Has
    <2>2. FindDict(a, k) = a[n + 1].value
      BY <1>1, <2>1, FirstIsFound
    <2> QED
      BY <1>2, <2>2
  <1> QED
    BY <1>3, <1>4, <1>5 DEF a

(* A line that is an entry of server.ini, and one that is a type; the      *)
(* words that loadMIMEtypes() is done with.                                *)
Good(i)    == ini[i].alpha /\ ini[i].sep
Typed(i)   == mime[i].alpha /\ mime[i].blank
Done(i, n) == i < mimeAt \/ (i = mimeAt /\ n < word)

(* What an entry is when memory ran out on the way.                        *)
Halved == {Entry(None, NoWord), Entry(None, None), Entry(NoWord, None)}

IniEntries ==
  {Entry(ini[i].key, ini[i].value) : i \in DOMAIN ini} \cup Halved

MimeEntries ==
  {Entry(x, mime[i].type) : x \in STRING \cup {NoWord}, i \in DOMAIN mime} \cup Halved

(* As far as server.ini is read, a key is in the dictionary when a line    *)
(* gives it, and leads to the value of the first such line.                *)
KnowsKeys ==
  /\ \A k : Has(configDict, k) => \E i \in DOMAIN ini : i < iniAt /\ Good(i) /\ ini[i].key = k
  /\ \A i \in DOMAIN ini :
       i < iniAt /\ Good(i) =>
         /\ Has(configDict, ini[i].key)
         /\ (\A j \in 1..(i - 1) : Good(j) => ini[j].key # ini[i].key)
            => FindDict(configDict, ini[i].key) = ini[i].value

(* The same for the types, word by word.                                   *)
KnowsTypes ==
  /\ \A x : x # NoWord /\ Has(mimeDict, x) =>
       \E i \in DOMAIN mime : \E n \in DOMAIN mime[i].exts :
         Typed(i) /\ Done(i, n) /\ mime[i].exts[n] = x
  /\ \A i \in DOMAIN mime : \A n \in DOMAIN mime[i].exts :
       Typed(i) /\ Done(i, n) =>
         /\ Has(mimeDict, mime[i].exts[n])
         /\ (\A j \in 1..(i - 1) : ~Lists(j, mime[i].exts[n]))
            => FindDict(mimeDict, mime[i].exts[n]) = mime[i].type

BootInv ==
  /\ BootTypeOK
  /\ ini \in IniFile /\ mime \in MimeFile
  /\ configDict \in Seq(IniEntries) /\ mimeDict \in Seq(MimeEntries)
  /\ boot # "ini" => iniAt = Len(ini) + 1
  /\ boot \notin {"ini", "mime"} => mimeAt = Len(mime) + 1
  /\ word # 1 => mimeAt <= Len(mime) /\ Typed(mimeAt)
  /\ boot = "listening" => port = settings.service % PortMod
  /\ starved = 0 => KnowsKeys /\ KnowsTypes

-----------------------------------------------------------------------------
LEMMA FilesAreRead ==
  ASSUME BootInv
  PROVE  /\ Len(ini) \in Nat /\ DOMAIN ini = 1..Len(ini)
         /\ Len(mime) \in Nat /\ DOMAIN mime = 1..Len(mime)
         /\ \A i \in DOMAIN mime : mime[i].exts \in Seq(STRING \ {NoWord})
         /\ iniAt \in 1..(Len(ini) + 1) /\ mimeAt \in 1..(Len(mime) + 1)
  BY WebConfigAssumption DEF BootInv, BootTypeOK, WebConfigAssumption

LEMMA EntryIsAdded ==
  ASSUME NEW S, NEW d \in Seq(S), NEW e \in S, Halved \subseteq S, NEW r \in AddDictEntry(d, e)
  PROVE  /\ r[1] \in Seq(S) /\ Len(r[1]) <= Len(d) + 1
         /\ r[2] \in {0, 1} /\ (r[2] = 0 => r[1] = Append(d, e))
  <1>1. \/ r = <<Append(d, e), 0>> \/ r = <<d, 1>>
        \/ \E x \in S : r = <<Append(d, x), 1>>
    BY DEF AddDictEntry, Halved
  <1>2. \A x \in S : Append(d, x) \in Seq(S) /\ Len(Append(d, x)) = Len(d) + 1
    OBVIOUS
  <1>3. Len(d) \in Nat
    OBVIOUS
  <1>4. CASE r = <<Append(d, e), 0>>
    BY <1>2, <1>3, <1>4
  <1>5. CASE r = <<d, 1>>
    BY <1>3, <1>5
  <1>6. ASSUME NEW x \in S, r = <<Append(d, x), 1>>
        PROVE  r[1] \in Seq(S) /\ Len(r[1]) <= Len(d) + 1 /\ r[2] = 1
    BY <1>2, <1>3, <1>6
  <1> QED
    BY <1>1, <1>4, <1>5, <1>6

LEMMA BootStart == BootInit => BootInv
  <1> SUFFICES ASSUME BootInit PROVE BootInv
    OBVIOUS
  <1>1. Len(ini) \in Nat /\ Len(mime) \in Nat /\ DOMAIN ini = 1..Len(ini)
        /\ DOMAIN mime = 1..Len(mime) /\ \A i \in DOMAIN mime : mime[i].exts \in Seq(STRING \ {NoWord})
    BY WebConfigAssumption DEF BootInit, WebConfigAssumption
  <1>2. mimeAt <= Len(mime) => word \in 1..Len(Extensions(mime[mimeAt]))
    <2>1. ASSUME mimeAt <= Len(mime)
          PROVE  Len(Extensions(mime[1])) \in Nat \ {0}
      <3>1. 1 \in DOMAIN mime /\ mime[1].exts \in Seq(STRING \ {NoWord})
        BY <1>1, <2>1 DEF BootInit
      <3>2. mime[1].exts # <<>> => Len(mime[1].exts) \in Nat \ {0}
        BY <3>1
      <3>3. Len(Append(mime[1].exts, NoWord)) = Len(mime[1].exts) + 1 /\ Len(mime[1].exts) \in Nat
        BY <3>1
      <3> QED
        BY <3>2, <3>3 DEF Extensions
    <2> QED
      BY <2>1 DEF BootInit
  <1>3. BootTypeOK
    <2>1. iniAt \in 1..(Len(ini) + 1) /\ mimeAt \in 1..(Len(mime) + 1)
      BY <1>1 DEF BootInit
    <2>2. Len(configDict) = 0 /\ iniAt = 1 /\ 0 \in 0..MaxStarved
      BY WebConfigAssumption DEF BootInit, WebConfigAssumption
    <2> QED
      BY <1>2, <2>1, <2>2 DEF BootInit, BootTypeOK
  <1>4. KnowsKeys /\ KnowsTypes
    <2>1. \A k : ~Has(<<>>, k)
      BY DEF Has
    <2>2. \A i \in DOMAIN ini : ~(i < 1)
      BY <1>1
    <2>3. ASSUME NEW i \in DOMAIN mime, NEW n \in DOMAIN mime[i].exts
          PROVE  ~Done(i, n)
      <3>1. i \in 1..Len(mime) /\ n \in 1..Len(mime[i].exts)
        BY <1>1, <2>3
      <3> QED
        BY <3>1 DEF BootInit, Done
    <2> QED
      BY <2>1, <2>2, <2>3 DEF BootInit, KnowsKeys, KnowsTypes
  <1> QED
    BY <1>3, <1>4 DEF BootInit, BootInv

(* One line of server.ini.                                                 *)
LEMMA IniStep == BootInv /\ LoadINI => BootInv'
  <1> SUFFICES ASSUME BootInv, LoadINI PROVE BootInv'
    OBVIOUS
  <1> DEFINE l == ini[iniAt]
             e == Entry(l.key, l.value)
  <1>1. Len(ini) \in Nat /\ DOMAIN ini = 1..Len(ini) /\ iniAt \in DOMAIN ini
    <2>1. Len(ini) \in Nat /\ DOMAIN ini = 1..Len(ini) /\ iniAt \in 1..(Len(ini) + 1)
      BY FilesAreRead
    <2>2. iniAt <= Len(ini)
      BY DEF LoadINI
    <2> QED
      BY <2>1, <2>2
  <1>2. boot' = boot /\ ini' = ini /\ mime' = mime /\ mimeAt' = mimeAt /\ word' = word
        /\ mimeDict' = mimeDict /\ settings' = settings /\ port' = port
        /\ iniAt' = iniAt + 1 /\ boot = "ini"
    BY DEF LoadINI, files
  <1>3. IniEntries' = IniEntries /\ MimeEntries' = MimeEntries
    BY <1>2 DEF IniEntries, MimeEntries
  <1>4. configDict \in Seq(IniEntries) /\ Len(configDict) < iniAt /\ starved \in 0..MaxStarved
    BY DEF BootInv, BootTypeOK
  <1>5. e \in IniEntries /\ Halved \subseteq IniEntries
    BY <1>1 DEF IniEntries, Entry
  <1>6. \/ Good(iniAt) /\ \E r \in AddDictEntry(configDict, e) :
             configDict' = r[1] /\ starved' = starved + r[2] /\ starved' <= MaxStarved
        \/ ~Good(iniAt) /\ UNCHANGED <<configDict, starved>>
    BY DEF LoadINI, Good
  <1> HIDE DEF e
  <1>7. /\ configDict' \in Seq(IniEntries) /\ Len(configDict') < iniAt'
        /\ starved' \in 0..MaxStarved
        /\ starved' = 0 => /\ starved = 0
                           /\ configDict' = IF Good(iniAt) THEN Append(configDict, e) ELSE configDict
    <2>1. CASE ~Good(iniAt)
      BY <1>1, <1>2, <1>4, <1>6, <2>1
    <2>2. CASE Good(iniAt)
      <3>1. PICK r \in AddDictEntry(configDict, e) :
              configDict' = r[1] /\ starved' = starved + r[2] /\ starved' <= MaxStarved
        BY <1>6, <2>2
      <3>2. /\ r[1] \in Seq(IniEntries) /\ Len(r[1]) <= Len(configDict) + 1
            /\ r[2] \in {0, 1} /\ (r[2] = 0 => r[1] = Append(configDict, e))
        BY <1>4, <1>5, <3>1, EntryIsAdded
      <3>3. MaxStarved \in Nat /\ iniAt \in Nat
        BY <1>1, WebConfigAssumption DEF WebConfigAssumption
      <3>4. Len(configDict) \in Nat /\ Len(r[1]) \in Nat
        BY <1>4, <3>2
      <3> QED
        BY <1>2, <1>4, <2>2, <3>1, <3>2, <3>3, <3>4
    <2> QED
      BY <2>1, <2>2
  <1>8. BootTypeOK'
    <2>1. iniAt' \in 1..(Len(ini') + 1)
      BY <1>1, <1>2
    <2>2. (mimeAt <= Len(mime) => word \in 1..Len(Extensions(mime[mimeAt])))'
      BY <1>2 DEF BootInv, BootTypeOK, Extensions
    <2> QED
      BY <1>2, <1>7, <2>1, <2>2 DEF BootInv, BootTypeOK
  <1>9. ASSUME starved' = 0
        PROVE  KnowsKeys'
    <2>1. KnowsKeys /\ configDict' = IF Good(iniAt) THEN Append(configDict, e) ELSE configDict
      BY <1>7, <1>9 DEF BootInv
    <2>2. \A i : Good(i)' <=> Good(i)
      BY <1>2 DEF Good
    <2>3. CASE ~Good(iniAt)
      <3>1. \A i \in DOMAIN ini : i < iniAt' /\ Good(i) <=> i < iniAt /\ Good(i)
        BY <1>1, <1>2, <2>3
      <3> QED
        BY <1>2, <2>1, <2>2, <2>3, <3>1 DEF KnowsKeys
    <2>4. CASE Good(iniAt)
      <3>1. \A k : /\ Has(configDict', k) <=> Has(configDict, k) \/ e.key = k
                   /\ Has(configDict, k) => FindDict(configDict', k) = FindDict(configDict, k)
                   /\ ~Has(configDict, k) /\ e.key = k => FindDict(configDict', k) = e.value
        BY <1>4, <1>5, <2>1, <2>4, LookupAfterAppend
      <3>2. e.key = ini[iniAt].key /\ e.value = ini[iniAt].value
        BY DEF e, Entry
      <3>3. \A i \in DOMAIN ini : i < iniAt' <=> i < iniAt \/ i = iniAt
        BY <1>1, <1>2
      <3>4. ASSUME NEW k, Has(configDict', k)
            PROVE  \E i \in DOMAIN ini : i < iniAt' /\ Good(i) /\ ini[i].key = k
        BY <1>1, <2>1, <2>4, <3>1, <3>2, <3>3, <3>4 DEF KnowsKeys
      <3>5. ASSUME NEW i \in DOMAIN ini, i < iniAt', Good(i)
            PROVE  /\ Has(configDict', ini[i].key)
                   /\ (\A j \in 1..(i - 1) : Good(j) => ini[j].key # ini[i].key)
                      => FindDict(configDict', ini[i].key) = ini[i].value
        <4>1. CASE i < iniAt
          BY <2>1, <3>1, <3>5, <4>1 DEF KnowsKeys
        <4>2. CASE i = iniAt
          <5>1. ASSUME \A j \in 1..(i - 1) : Good(j) => ini[j].key # ini[i].key
                PROVE  ~Has(configDict, ini[i].key)
            <6>1. \A j \in DOMAIN ini : j < iniAt => j \in 1..(i - 1)
              BY <1>1, <4>2
            <6> QED
              BY <2>1, <5>1, <6>1 DEF KnowsKeys
          <5> QED
            BY <3>1, <3>2, <4>2, <5>1
        <4> QED
          BY <3>3, <3>5, <4>1, <4>2
      <3> QED
        BY <1>2, <2>2, <3>4, <3>5 DEF KnowsKeys
    <2> QED
      BY <2>3, <2>4
  <1>10. ASSUME starved' = 0
         PROVE  KnowsTypes'
    <2>1. KnowsTypes
      BY <1>7, <1>10 DEF BootInv
    <2>2. mime' = mime /\ mimeDict' = mimeDict /\ mimeAt' = mimeAt /\ word' = word
      BY <1>2
    <2>3. \A i, n : (Typed(i)' <=> Typed(i)) /\ (Done(i, n)' <=> Done(i, n))
      BY <2>2 DEF Typed, Done
    <2>4. ASSUME KnowsTypes
          PROVE  KnowsTypes'
      BY <2>2, <2>3, <2>4 DEF KnowsTypes, Lists
    <2> QED
      BY <2>1, <2>2, <2>3, <2>4
  <1> QED
    BY <1>2, <1>3, <1>7, <1>8, <1>9, <1>10 DEF BootInv, Typed

(* One word of one line of types: which words are done after it.           *)
LEMMA WordIsDone ==
  ASSUME BootInv, LoadMIMEtypes
  PROVE  /\ mimeAt \in DOMAIN mime
         /\ mimeAt' \in 1..(Len(mime) + 1)
         /\ mimeAt' <= Len(mime) => word' \in 1..Len(Extensions(mime[mimeAt']))
         /\ word' # 1 => mimeAt' <= Len(mime) /\ Typed(mimeAt')
         /\ \A i \in DOMAIN mime : \A n \in 1..Len(Extensions(mime[i])) :
              Typed(i) => (Done(i, n)' <=> Done(i, n) \/ (i = mimeAt /\ n = word))
  <1> DEFINE W(i) == Len(Extensions(mime[i]))
  <1>1. Len(mime) \in Nat /\ DOMAIN mime = 1..Len(mime) /\ mimeAt \in 1..Len(mime)
    <2>1. Len(mime) \in Nat /\ DOMAIN mime = 1..Len(mime) /\ mimeAt \in 1..(Len(mime) + 1)
      BY FilesAreRead
    <2>2. mimeAt <= Len(mime)
      BY DEF LoadMIMEtypes
    <2> QED
      BY <2>1, <2>2
  <1>2. \A i \in DOMAIN mime : W(i) \in Nat \ {0}
    <2>1. ASSUME NEW i \in DOMAIN mime
          PROVE  W(i) \in Nat \ {0}
      <3>1. mime[i].exts \in Seq(STRING \ {NoWord})
        BY FilesAreRead
      <3>2. mime[i].exts # <<>> => Len(mime[i].exts) \in Nat \ {0}
        BY <3>1
      <3>3. Len(Append(mime[i].exts, NoWord)) = Len(mime[i].exts) + 1 /\ Len(mime[i].exts) \in Nat
        BY <3>1
      <3> QED
        BY <3>2, <3>3 DEF Extensions
    <2> QED
      BY <2>1
  <1>3. word \in 1..W(mimeAt) /\ (word # 1 => Typed(mimeAt))
    BY <1>1 DEF BootInv, BootTypeOK
  <1>4. \/ ~Typed(mimeAt) /\ mimeAt' = mimeAt + 1 /\ word' = word
        \/ Typed(mimeAt) /\ word < W(mimeAt) /\ word' = word + 1 /\ mimeAt' = mimeAt
        \/ Typed(mimeAt) /\ ~(word < W(mimeAt)) /\ word' = 1 /\ mimeAt' = mimeAt + 1
    BY DEF LoadMIMEtypes, Typed
  <1> HIDE DEF W
  <1>5. mimeAt' \in 1..(Len(mime) + 1)
    BY <1>1, <1>4
  <1>6. ASSUME mimeAt' <= Len(mime)
        PROVE  word' \in 1..W(mimeAt')
    <2>1. mimeAt' \in DOMAIN mime /\ W(mimeAt') \in Nat \ {0} /\ W(mimeAt) \in Nat
      BY <1>1, <1>2, <1>5, <1>6
    <2> QED
      BY <1>1, <1>3, <1>4, <2>1
  <1>7. word' # 1 => mimeAt' <= Len(mime) /\ Typed(mimeAt')
    BY <1>1, <1>3, <1>4
  <1>8. ASSUME NEW i \in DOMAIN mime, NEW n \in 1..W(i), Typed(i)
        PROVE  Done(i, n)' <=> Done(i, n) \/ (i = mimeAt /\ n = word)
    <2>1. i \in Nat /\ n \in Nat \ {0} /\ W(mimeAt) \in Nat /\ word \in Nat /\ mimeAt \in Nat
      BY <1>1, <1>2, <1>3, <1>8
    <2>2. CASE i # mimeAt
      BY <1>3, <1>4, <2>1, <2>2 DEF Done
    <2>3. CASE i = mimeAt
      <3>1. n <= W(mimeAt) /\ word <= W(mimeAt)
        BY <1>3, <1>8, <2>1, <2>3
      <3> QED
        BY <1>4, <1>8, <2>1, <2>3, <3>1 DEF Done
    <2> QED
      BY <2>2, <2>3
  <1> QED
    BY <1>1, <1>5, <1>6, <1>7, <1>8 DEF W

LEMMA MimeStep == BootInv /\ LoadMIMEtypes => BootInv'
  <1> SUFFICES ASSUME BootInv, LoadMIMEtypes PROVE BootInv'
    OBVIOUS
  <1> DEFINE l == mime[mimeAt]
             x == Extensions(l)[word]
             e == Entry(x, l.type)
  <1>1. /\ mimeAt \in DOMAIN mime /\ mimeAt' \in 1..(Len(mime) + 1)
        /\ mimeAt' <= Len(mime) => word' \in 1..Len(Extensions(mime[mimeAt']))
        /\ word' # 1 => mimeAt' <= Len(mime) /\ Typed(mimeAt')
    BY WordIsDone
  <1>2. boot' = boot /\ ini' = ini /\ mime' = mime /\ iniAt' = iniAt
        /\ configDict' = configDict /\ settings' = settings /\ port' = port /\ boot = "mime"
    BY DEF LoadMIMEtypes, files
  <1>3. IniEntries' = IniEntries /\ MimeEntries' = MimeEntries
    BY <1>2 DEF IniEntries, MimeEntries
  <1>4. mimeDict \in Seq(MimeEntries) /\ starved \in 0..MaxStarved
    BY DEF BootInv, BootTypeOK
  <1>5. Len(mime) \in Nat /\ DOMAIN mime = 1..Len(mime) /\ mimeAt \in 1..Len(mime)
        /\ \A i \in DOMAIN mime : mime[i].exts \in Seq(STRING \ {NoWord})
    BY <1>1, FilesAreRead
  <1>6. word \in 1..Len(Extensions(l))
    BY <1>5 DEF BootInv, BootTypeOK
  (* A word is one of the extensions, or the empty one behind them.        *)
  <1>7. ASSUME NEW i \in DOMAIN mime
        PROVE  /\ DOMAIN mime[i].exts = 1..Len(mime[i].exts) /\ Len(mime[i].exts) \in Nat
               /\ \A n \in DOMAIN mime[i].exts :
                    /\ n \in 1..Len(Extensions(mime[i])) /\ Extensions(mime[i])[n] = mime[i].exts[n]
                    /\ mime[i].exts[n] \in STRING \ {NoWord}
               /\ \A n \in 1..Len(Extensions(mime[i])) :
                    n \in DOMAIN mime[i].exts \/ Extensions(mime[i])[n] = NoWord
    <2> DEFINE E == mime[i].exts
    <2>1. E \in Seq(STRING \ {NoWord})
      BY <1>5
    <2>2. DOMAIN E = 1..Len(E) /\ Len(E) \in Nat /\ \A n \in DOMAIN E : E[n] \in STRING \ {NoWord}
      BY <2>1
    <2>3. /\ Len(Append(E, NoWord)) = Len(E) + 1 /\ Append(E, NoWord)[Len(E) + 1] = NoWord
          /\ \A n \in 1..Len(E) : Append(E, NoWord)[n] = E[n]
      BY <2>1
    <2>4. Extensions(mime[i]) = E \/ Extensions(mime[i]) = Append(E, NoWord)
      BY DEF Extensions
    <2> HIDE DEF E
    <2>5. /\ \A n \in DOMAIN E : n \in 1..Len(Extensions(mime[i])) /\ Extensions(mime[i])[n] = E[n]
          /\ \A n \in 1..Len(Extensions(mime[i])) : n \in DOMAIN E \/ Extensions(mime[i])[n] = NoWord
      <3>1. CASE Extensions(mime[i]) = E
        BY <2>2, <3>1
      <3>2. CASE Extensions(mime[i]) = Append(E, NoWord)
        <4>1. ASSUME NEW n \in 1..(Len(E) + 1)
              PROVE  n \in 1..Len(E) \/ n = Len(E) + 1
          BY <2>2
        <4> QED
          BY <2>2, <2>3, <3>2, <4>1
      <3> QED
        BY <2>4, <3>1, <3>2
    <2> QED
      BY <2>2, <2>5 DEF E
  <1>8. /\ e \in MimeEntries /\ Halved \subseteq MimeEntries
        /\ e.key = x /\ e.value = l.type
    <2>1. x \in STRING \cup {NoWord}
      <3>1. mimeAt \in DOMAIN mime
        BY <1>5
      <3>2. word \in DOMAIN l.exts \/ x = NoWord
        BY <1>6, <1>7, <3>1
      <3> QED
        BY <1>7, <3>1, <3>2
    <2>2. e.key = x /\ e.value = l.type
      BY DEF Entry
    <2>3. e = Entry(x, mime[mimeAt].type) /\ mimeAt \in DOMAIN mime
      BY <1>5
    <2> HIDE DEF x
    <2>4. e \in MimeEntries /\ Halved \subseteq MimeEntries
      BY <2>1, <2>3 DEF MimeEntries
    <2> QED
      BY <2>2, <2>4
  <1>9. \/ Typed(mimeAt) /\ \E r \in AddDictEntry(mimeDict, e) :
             mimeDict' = r[1] /\ starved' = starved + r[2] /\ starved' <= MaxStarved
        \/ ~Typed(mimeAt) /\ UNCHANGED <<mimeDict, starved>>
    BY DEF LoadMIMEtypes, Typed
  <1> HIDE DEF e, x
  <1>10. /\ mimeDict' \in Seq(MimeEntries) /\ starved' \in 0..MaxStarved
         /\ starved' = 0 => /\ starved = 0
                            /\ mimeDict' = IF Typed(mimeAt) THEN Append(mimeDict, e) ELSE mimeDict
    <2>1. CASE ~Typed(mimeAt)
      BY <1>4, <1>9, <2>1
    <2>2. CASE Typed(mimeAt)
      <3>1. PICK r \in AddDictEntry(mimeDict, e) :
              mimeDict' = r[1] /\ starved' = starved + r[2] /\ starved' <= MaxStarved
        BY <1>9, <2>2
      <3>2. /\ r[1] \in Seq(MimeEntries) /\ r[2] \in {0, 1} /\ (r[2] = 0 => r[1] = Append(mimeDict, e))
        BY <1>4, <1>8, <3>1, EntryIsAdded
      <3>3. MaxStarved \in Nat
        BY WebConfigAssumption DEF WebConfigAssumption
      <3> QED
        BY <1>4, <2>2, <3>1, <3>2, <3>3
    <2> QED
      BY <2>1, <2>2
  <1>11. BootTypeOK'
    BY <1>1, <1>2, <1>10 DEF BootInv, BootTypeOK, Extensions
  <1>12. ASSUME starved' = 0
         PROVE  KnowsKeys'
    <2>1. KnowsKeys /\ ini' = ini /\ configDict' = configDict /\ iniAt' = iniAt
      BY <1>2, <1>10, <1>12 DEF BootInv
    <2> QED
      BY <2>1 DEF KnowsKeys, Good
  <1>13. ASSUME starved' = 0
         PROVE  KnowsTypes'
    <2>1. KnowsTypes /\ mimeDict' = IF Typed(mimeAt) THEN Append(mimeDict, e) ELSE mimeDict
      BY <1>10, <1>13 DEF BootInv
    <2>2. \A i, z : (Typed(i)' <=> Typed(i)) /\ (Lists(i, z)' <=> Lists(i, z))
      BY <1>2 DEF Typed, Lists
    <2>3. ASSUME NEW i \in DOMAIN mime, NEW n \in DOMAIN mime[i].exts, Typed(i)
          PROVE  Done(i, n)' <=> Done(i, n) \/ (i = mimeAt /\ n = word)
      BY <1>7, <2>3, WordIsDone
    <2>4. CASE ~Typed(mimeAt)
      <3>1. \A i \in DOMAIN mime : \A n \in DOMAIN mime[i].exts :
              Typed(i) => (Done(i, n)' <=> Done(i, n))
        BY <2>3, <2>4
      <3> QED
        BY <1>2, <2>1, <2>2, <2>4, <3>1 DEF KnowsTypes
    <2>5. CASE Typed(mimeAt)
      <3>1. \A k : /\ Has(mimeDict', k) <=> Has(mimeDict, k) \/ x = k
                   /\ Has(mimeDict, k) => FindDict(mimeDict', k) = FindDict(mimeDict, k)
                   /\ ~Has(mimeDict, k) /\ x = k => FindDict(mimeDict', k) = l.type
        BY <1>4, <1>8, <2>1, <2>5, LookupAfterAppend
      <3>2. ASSUME NEW z, z # NoWord, Has(mimeDict', z)
            PROVE  \E i \in DOMAIN mime : \E n \in DOMAIN mime[i].exts :
                     Typed(i) /\ Done(i, n)' /\ mime[i].exts[n] = z
        <4>1. CASE Has(mimeDict, z)
          <5>1. PICK i \in DOMAIN mime :
                  \E n \in DOMAIN mime[i].exts : Typed(i) /\ Done(i, n) /\ mime[i].exts[n] = z
            BY <2>1, <3>2, <4>1 DEF KnowsTypes
          <5> QED
            BY <2>3, <5>1
        <4>2. CASE x = z
          <5>1. word \in DOMAIN l.exts /\ l.exts[word] = z
            BY <1>5, <1>6, <1>7, <3>2, <4>2 DEF x
          <5> QED
            BY <1>1, <2>3, <2>5, <5>1
        <4> QED
          BY <3>1, <3>2, <4>1, <4>2
      <3>3. ASSUME NEW i \in DOMAIN mime, NEW n \in DOMAIN mime[i].exts, Typed(i), Done(i, n)'
            PROVE  /\ Has(mimeDict', mime[i].exts[n])
                   /\ (\A j \in 1..(i - 1) : ~Lists(j, mime[i].exts[n]))
                      => FindDict(mimeDict', mime[i].exts[n]) = mime[i].type
        <4>1. CASE Done(i, n)
          BY <2>1, <3>1, <3>3, <4>1 DEF KnowsTypes
        <4>2. CASE i = mimeAt /\ n = word
          <5>1. x = mime[i].exts[n] /\ x # NoWord /\ l.type = mime[i].type
            BY <1>7, <4>2 DEF x
          <5>2. CASE ~Has(mimeDict, x)
            BY <3>1, <5>1, <5>2
          <5>3. ASSUME Has(mimeDict, x), \A j \in 1..(i - 1) : ~Lists(j, x)
                PROVE  FindDict(mimeDict, x) = mime[i].type
            <6>1. PICK j \in DOMAIN mime :
                    \E m \in DOMAIN mime[j].exts : Typed(j) /\ Done(j, m) /\ mime[j].exts[m] = x
              BY <2>1, <5>1, <5>3 DEF KnowsTypes
            <6>2. Lists(j, x) /\ j <= i
              BY <1>5, <4>2, <6>1 DEF Lists, Typed, Done
            <6>3. j = i
              BY <1>5, <5>3, <6>2
            <6> QED
              BY <2>1, <5>3, <6>1, <6>3 DEF KnowsTypes
          <5> QED
            BY <3>1, <5>1, <5>2, <5>3
        <4> QED
          BY <2>3, <3>3, <4>1, <4>2
      <3> QED
        BY <1>2, <2>2, <3>2, <3>3 DEF KnowsTypes
    <2> QED
      BY <2>4, <2>5
  <1> QED
    BY <1>1, <1>2, <1>3, <1>10, <1>11, <1>12, <1>13 DEF BootInv, Typed

(* What loadConfig() makes of the dictionary has a number for the port.    *)
LEMMA ServiceIsNumber ==
  ASSUME BootInv, NEW env \in EnvPort,
         NEW s \in Settings([k \in Keys |-> FindDict(configDict, k)], env)
  PROVE  s.service \in Int /\ s.port = s.service % PortMod
  <1> DEFINE get == [k \in Keys |-> FindDict(configDict, k)]
             service == IF env # None THEN env ELSE get["listenPort"]
  <1>1. s.service = service /\ service # None /\ s.port = service % PortMod
    BY DEF Settings, PortOf
  <1>2. env = None \/ env \in Int
    BY WebConfigAssumption DEF WebConfigAssumption
  <1>3. get["listenPort"] = FindDict(configDict, "listenPort")
    BY DEF Keys
  <1>4. ASSUME Has(configDict, "listenPort")
        PROVE  FindDict(configDict, "listenPort") \in Int
    <2> DEFINE n == Len(configDict)
    <2>1. configDict \in Seq(IniEntries) /\ n \in Nat /\ DOMAIN configDict = 1..n
      BY DEF BootInv
    <2>2. PICK m \in 1..n : /\ configDict[m].key = "listenPort"
                            /\ \A j \in 1..(m - 1) : configDict[j].key # "listenPort"
      BY <1>4, <2>1, FirstExists
    <2>3. FindDict(configDict, "listenPort") = configDict[m].value
      BY <2>1, <2>2, FirstIsFound
    <2>4. configDict[m] \in IniEntries
      BY <2>1
    <2>5. NoWord # "listenPort" /\ None # "listenPort"
      BY Zenon, WebConfigAssumption DEF NoWord, WebConfigAssumption
    <2>6. PICK i \in DOMAIN ini : configDict[m] = Entry(ini[i].key, ini[i].value)
      BY <2>2, <2>4, <2>5 DEF IniEntries, Halved, Entry
    <2>7. ini[i].key = "listenPort" => ini[i].value \in Int
      BY <2>6, WebConfigAssumption DEF BootInv, WebConfigAssumption
    <2> QED
      BY <2>2, <2>3, <2>6, <2>7 DEF Entry
  <1>5. ~Has(configDict, "listenPort") => FindDict(configDict, "listenPort") = None
    BY DEF Has, FindDict
  <1> QED
    BY <1>1, <1>2, <1>3, <1>4, <1>5

(* The steps that read nothing.                                            *)
LEMMA QuietStep ==
  ASSUME BootInv,
         IniRead \/ MimeRead \/ (\E env \in EnvPort : LoadConfig(env)) \/ StartServer \/ UNCHANGED bootVars
  PROVE  BootInv'
  <1>1. ini' = ini /\ mime' = mime /\ iniAt' = iniAt /\ mimeAt' = mimeAt /\ word' = word
        /\ configDict' = configDict /\ mimeDict' = mimeDict /\ starved' = starved
    BY DEF IniRead, MimeRead, LoadConfig, StartServer, bootVars, files, at, dicts
  <1>2. IniEntries' = IniEntries /\ MimeEntries' = MimeEntries
    BY <1>1 DEF IniEntries, MimeEntries
  <1>3. (KnowsKeys => KnowsKeys') /\ (KnowsTypes => KnowsTypes')
    <2>1. \A i, x : (Good(i)' <=> Good(i)) /\ (Typed(i)' <=> Typed(i)) /\ (Lists(i, x)' <=> Lists(i, x))
                    /\ (Done(i, x)' <=> Done(i, x))
      BY <1>1 DEF Good, Typed, Lists, Done
    <2>2. ASSUME KnowsKeys PROVE KnowsKeys'
      BY <1>1, <2>1, <2>2 DEF KnowsKeys
    <2>3. ASSUME KnowsTypes PROVE KnowsTypes'
      BY <1>1, <2>1, <2>3 DEF KnowsTypes
    <2> QED
      BY <2>2, <2>3
  <1>4. ASSUME IniRead \/ MimeRead \/ UNCHANGED bootVars
        PROVE  BootInv'
    <2>1. settings' = settings /\ port' = port
      BY <1>4 DEF IniRead, MimeRead, bootVars
    <2>2. /\ boot' = boot \/ (boot = "ini" /\ boot' = "mime") \/ (boot = "mime" /\ boot' = "config")
          /\ boot = "ini" /\ boot' = "mime" => iniAt > Len(ini)
          /\ boot = "mime" /\ boot' = "config" => mimeAt > Len(mime)
      BY <1>4 DEF IniRead, MimeRead, bootVars
    <2>3. boot' # "ini" => iniAt = Len(ini) + 1
      BY <2>2, FilesAreRead DEF BootInv
    <2>4. boot' \notin {"ini", "mime"} => mimeAt = Len(mime) + 1
      BY <2>2, FilesAreRead DEF BootInv
    <2>5. BootTypeOK'
      BY <1>1, <2>1, <2>2 DEF BootInv, BootTypeOK, Extensions
    <2> QED
      BY <1>1, <1>2, <1>3, <2>1, <2>2, <2>3, <2>4, <2>5 DEF BootInv, Typed
  <1>5. ASSUME NEW env \in EnvPort, LoadConfig(env)
        PROVE  BootInv'
    <2>1. boot = "config" /\ port' = port /\ boot' \in {"crashed", "exited", "start"}
      BY <1>5 DEF LoadConfig
    <2>2. boot' = "start" => settings' \in Settings([k \in Keys |-> FindDict(configDict, k)], env)
      BY <1>5 DEF LoadConfig
    <2>3. BootTypeOK'
      BY <1>1, <2>1, <2>2 DEF BootInv, BootTypeOK, Extensions
    <2> QED
      BY <1>1, <1>2, <1>3, <2>1, <2>3 DEF BootInv, Typed
  <1>6. ASSUME StartServer
        PROVE  BootInv'
    <2>1. boot = "start" /\ settings' = settings
          /\ \/ boot' = "listening" /\ port' = settings.service % PortMod
             \/ boot' = "exited" /\ port' = port
      BY <1>6 DEF StartServer
    <2>2. PICK env \in EnvPort : settings \in Settings([k \in Keys |-> FindDict(configDict, k)], env)
      BY <2>1 DEF BootInv, BootTypeOK
    <2>3. settings.service % PortMod \in 0..(PortMod - 1)
      <3>1. settings.service \in Int
        BY <2>2, ServiceIsNumber
      <3> QED
        BY <3>1, WebConfigAssumption DEF WebConfigAssumption
    <2>4. BootTypeOK'
      BY <1>1, <2>1, <2>2, <2>3 DEF BootInv, BootTypeOK, Extensions
    <2> QED
      BY <1>1, <1>2, <1>3, <2>1, <2>4 DEF BootInv, Typed
  <1> QED
    BY <1>4, <1>5, <1>6

(* In a file that is read, what findDict() finds is what is written there. *)
LEMMA DictionaryIsFile ==
  ASSUME BootInv, boot = "listening", starved = 0, ~LooksLikeEntry, NEW k
  PROVE  FindDict(configDict, k) = Written(k)
  <1> DEFINE at_k == {i \in DOMAIN ini : ini[i].alpha /\ ini[i].sep /\ ~ini[i].cont /\ ini[i].key = k}
  <1>1. KnowsKeys /\ iniAt = Len(ini) + 1 /\ Len(ini) \in Nat /\ DOMAIN ini = 1..Len(ini)
    BY FilesAreRead DEF BootInv
  <1>2. \A i : i \in at_k <=> i \in DOMAIN ini /\ Good(i) /\ ini[i].key = k
    BY DEF LooksLikeEntry, Good
  <1>3. Written(k) = IF at_k = {} THEN None ELSE ini[CHOOSE i \in at_k : \A j \in at_k : i <= j].value
    BY DEF Written
  <1> HIDE DEF at_k
  <1>4. CASE at_k = {}
    <2>1. ~Has(configDict, k)
      BY <1>1, <1>2, <1>4 DEF KnowsKeys
    <2> QED
      BY <1>3, <1>4, <2>1 DEF Has, FindDict
  <1>5. CASE at_k # {}
    <2>1. at_k \in SUBSET Nat
      BY <1>1, <1>2
    <2>2. PICK m \in at_k : \A j \in at_k : m <= j
      BY <1>5, <2>1, LeastIndex
    <2>3. (CHOOSE i \in at_k : \A j \in at_k : i <= j) = m
      <3>1. ASSUME NEW i \in at_k, \A j \in at_k : i <= j
            PROVE  i = m
        <4>1. i \in Nat /\ m \in Nat /\ i <= m /\ m <= i
          BY <2>1, <2>2, <3>1
        <4> QED
          BY <4>1
      <3> QED
        BY <2>2, <3>1
    <2>4. m \in 1..Len(ini) /\ m < iniAt /\ Good(m) /\ ini[m].key = k
      BY <1>1, <1>2, <2>2
    <2>5. ASSUME NEW j \in 1..(m - 1), Good(j), ini[j].key = k
          PROVE  FALSE
      <3>1. j \in DOMAIN ini /\ j < m
        BY <1>1, <2>4, <2>5
      <3>2. j \in at_k
        BY <1>2, <2>5, <3>1
      <3> QED
        BY <1>1, <2>2, <2>4, <3>1, <3>2
    <2>6. FindDict(configDict, k) = ini[m].value
      BY <1>1, <2>4, <2>5 DEF KnowsKeys
    <2> QED
      BY <1>3, <1>5, <2>3, <2>6
  <1> QED
    BY <1>4, <1>5

(* The server that listens has the first value server.ini gives for every  *)
(* key and the first type that lists an extension, whatever the files are, *)
(* unless memory ran out or the rest of a long line looked like an entry;  *)
(* a port or a size that its member cannot hold has lost its upper bits.   *)
THEOREM ServerIsAsWritten == BootSpec => []ServesAsConfigured
  <1>1. BootInit => BootInv
    BY BootStart
  <1>2. BootInv /\ [BootNext]_bootVars => BootInv'
    BY IniStep, MimeStep, QuietStep DEF BootNext
  <1>3. BootInv => ServesAsConfigured
    <2> SUFFICES ASSUME BootInv, boot = "listening", starved = 0
                 PROVE  /\ ~LooksLikeEntry => \E env \in EnvPort :
                             /\ settings \in Settings([k \in Keys |-> Written(k)], env)
                             /\ Holds(port, IF env # None THEN env ELSE Written("listenPort"), PortMod)
                             /\ Holds(settings.maxEntitySize, Written("maxEntitySize"), SizeMod)
                        /\ \A i \in DOMAIN mime : \A n \in DOMAIN mime[i].exts :
                             Lists(i, mime[i].exts[n]) /\ (\A j \in 1..(i - 1) : ~Lists(j, mime[i].exts[n]))
                             => FindDict(mimeDict, mime[i].exts[n]) = mime[i].type
      BY DEF ServesAsConfigured, BootInv
    <2>1. PICK env \in EnvPort : settings \in Settings([k \in Keys |-> FindDict(configDict, k)], env)
      BY DEF BootInv, BootTypeOK
    <2>3. ASSUME ~LooksLikeEntry
          PROVE  /\ settings \in Settings([k \in Keys |-> Written(k)], env)
                 /\ Holds(port, IF env # None THEN env ELSE Written("listenPort"), PortMod)
                 /\ Holds(settings.maxEntitySize, Written("maxEntitySize"), SizeMod)
      <3> DEFINE get == [k \in Keys |-> Written(k)]
                 v   == IF env # None THEN env ELSE Written("listenPort")
                 w   == Written("maxEntitySize")
      <3>1. [k \in Keys |-> FindDict(configDict, k)] = get
        BY <2>3, DictionaryIsFile
      <3>2. settings \in Settings(get, env)
        BY <2>1, <3>1
      <3>3. get["listenPort"] = Written("listenPort") /\ get["maxEntitySize"] = w
        BY DEF Keys
      <3> HIDE DEF get, w
      <3>4. settings.service = v /\ settings.maxEntitySize = SizeOf(w)
        BY <3>2, <3>3 DEF Settings
      <3>5. port = v % PortMod
        BY <3>4 DEF BootInv
      <3> HIDE DEF v
      <3>6. Holds(port, v, PortMod)
        <4>1. ASSUME v \in 0..(PortMod - 1) PROVE v % PortMod = v
          BY <4>1, WebConfigAssumption DEF WebConfigAssumption
        <4> QED
          BY <3>5, <4>1 DEF Holds
      <3>7. Holds(settings.maxEntitySize, w, SizeMod)
        <4>1. ASSUME w \in 0..(SizeMod - 1) PROVE SizeOf(w) = w
          <5>1. w # None
            BY <4>1, WebConfigAssumption DEF WebConfigAssumption
          <5>2. w % SizeMod = w
            BY <4>1, WebConfigAssumption DEF WebConfigAssumption
          <5> QED
            BY <5>1, <5>2 DEF SizeOf
        <4> QED
          BY <3>4, <4>1 DEF Holds
      <3> QED
        BY <3>2, <3>6, <3>7 DEF get, v, w
    <2>4. ASSUME NEW i \in DOMAIN mime, NEW n \in DOMAIN mime[i].exts,
                 Lists(i, mime[i].exts[n]), \A j \in 1..(i - 1) : ~Lists(j, mime[i].exts[n])
          PROVE  FindDict(mimeDict, mime[i].exts[n]) = mime[i].type
      <3>1. KnowsTypes /\ mimeAt = Len(mime) + 1 /\ Typed(i)
        BY <2>4 DEF BootInv, Lists, Typed
      <3>2. Done(i, n)
        BY <3>1, FilesAreRead DEF Done
      <3> QED
        BY <2>4, <3>1, <3>2 DEF KnowsTypes
    <2> QED
      BY <2>3, <2>4
  <1> QED
    BY <1>1, <1>2, <1>3, PTL DEF BootSpec

-----------------------------------------------------------------------------
(* The statistics.  A key is counted when it has a visit, and the counted  *)
(* keys are the nodes of the tree.  The span of a node is the set of the   *)
(* keys whose search comes by it: every key at the root, and half of the   *)
(* rest on each side below.                                                *)
Counted == {k \in Key : visits[k] > 0}

Low(span, n)  == {k \in span[n] : k < n}
High(span, n) == {k \in span[n] : k > n}

(* Of two nodes one is on one side of the other, or no search comes by both.*)
Apart(span, m, n) ==
  \/ span[m] \cap span[n] = {}
  \/ span[m] \subseteq Low(span, n) \/ span[m] \subseteq High(span, n)
  \/ span[n] \subseteq Low(span, m) \/ span[n] \subseteq High(span, m)

(* A node and its children, ...                                            *)
Placed(span, n) ==
  /\ n \in span[n] /\ node[n].count = visits[n]
  /\ node[n].left # Nil  => node[n].left \in Counted /\ span[node[n].left] = Low(span, n)
  /\ node[n].right # Nil => node[n].right \in Counted /\ span[node[n].right] = High(span, n)

(* ... and the other nodes that a search for them finds below it.          *)
Filed(span, n) ==
  \A k \in Counted \cap span[n] : /\ k < n => node[n].left # Nil
                                  /\ k > n => node[n].right # Nil

SearchTree(span) ==
  /\ span \in [Key -> SUBSET Key]
  /\ IF root = Nil THEN Counted = {} ELSE root \in Counted /\ span[root] = Key
  /\ \A n \in Key \ Counted : node[n] = NoNode
  /\ \A n \in Counted : Placed(span, n) /\ Filed(span, n)
  /\ \A m, n \in Counted : m # n => Apart(span, m, n)

TreeInv == \E span \in [Key -> SUBSET Key] : SearchTree(span)

-----------------------------------------------------------------------------
(* The page: what went out and what is still to go, in order, is one line  *)
(* of every counted key that the table shows.                              *)
Lines == Key \cup {Header, Footer}
Piece == [size : Int, line : Lines, bytes : Int, count : Nat]

Said == [i \in DOMAIN wire |-> wire[i].line]
Todo == IF chunk = Nil THEN lines ELSE Tail(lines)

FullPage(all) ==
  /\ all \in Seq(Lines) /\ Len(all) >= 2
  /\ all[1] = Header /\ all[Len(all)] = Footer
  /\ \A i \in 2..(Len(all) - 1) : all[i] \in Key
  /\ \A i, j \in 2..(Len(all) - 1) : i < j => all[i] < all[j]
  /\ \A k \in Counted \ Anonymous : \E i \in 2..(Len(all) - 1) : all[i] = k

(* What went out of a line, and of the last one what is in hand, is all    *)
(* that the program has of it.                                             *)
Chunked(i) ==
  /\ wire[i].size = Size(wire[i].line)
  /\ wire[i].line \in Key => wire[i].count = visits[wire[i].line]
  /\ wire[i].bytes + (IF i = Len(wire) /\ chunk # Nil THEN chunk.left ELSE 0) = Sent(wire[i].line)

PageInv ==
  /\ page = "none" => lines = <<>> /\ chunk = Nil
  /\ ~broken =>
       /\ wire \in Seq(Piece)
       /\ \A i \in 1..Len(wire) : Chunked(i)
       /\ page # "none" \/ wire # <<>> => FullPage(Said \o Todo)
       /\ chunk # Nil => wire # <<>> /\ wire[Len(wire)].line = chunk.line

StatsInv == StatsTypeOK /\ TreeInv /\ PageInv
-----------------------------------------------------------------------------
Walks(w, K, next, Stop) ==
  /\ w = [n \in K |-> w[n]]
  /\ \A n \in K : w[n] = IF n \in Stop THEN n ELSE w[next[n]]

Prints(u, K, nil, l, r) ==
  /\ u = [n \in K \cup {nil} |-> u[n]]
  /\ \A n \in K \cup {nil} : u[n] = IF n = nil THEN <<>> ELSE u[l[n]] \o << n >> \o u[r[n]]

(* A recursion along a way that ends has a solution: the values of all n   *)
(* whose rank is below m exist for every m.                                *)
LEMMA WalkIsDefined ==
  ASSUME NEW K, NEW next, NEW Stop \in SUBSET K, NEW M \in Nat, NEW rank \in [K -> Nat],
         \A n \in K : rank[n] < M,
         \A n \in K \ Stop : next[n] \in K /\ rank[next[n]] < rank[n]
  PROVE  \E w : Walks(w, K, next, Stop)
  <1> DEFINE Step(w, n) == IF n \in Stop THEN n ELSE w[next[n]]
             Solves(w, m) == \A n \in K : rank[n] < m => w[n] = Step(w, n)
             Bad == {m \in Nat : ~\E w : Solves(w, m)}
  <1>1. Bad = {}
    <2> SUFFICES ASSUME Bad # {} PROVE FALSE
      OBVIOUS
    <2>1. PICK m \in Bad : \A i \in Bad : m <= i
      <3>1. Bad \in SUBSET Nat
        OBVIOUS
      <3> QED
        BY <3>1, LeastIndex
    <2>2. m # 0
      <3>1. Solves(0, 0)
        OBVIOUS
      <3> QED
        BY <3>1
    <2>3. m \in Nat /\ m - 1 \in Nat /\ m - 1 \notin Bad
      <3>1. m \in Nat
        OBVIOUS
      <3>2. m - 1 \in Nat /\ ~(m <= m - 1)
        BY <2>2, <3>1
      <3> QED
        BY <2>1, <3>1, <3>2
    <2>4. PICK w : Solves(w, m - 1)
      BY <2>3
    <2> DEFINE v == [n \in K |-> Step(w, n)]
    <2>5. ASSUME NEW n \in K, rank[n] < m
          PROVE  v[n] = Step(v, n)
      <3>1. CASE n \in Stop
        BY <3>1
      <3>2. CASE n \notin Stop
        <4>1. next[n] \in K /\ rank[next[n]] < m - 1
          <5>1. next[n] \in K /\ rank[next[n]] < rank[n] /\ rank[n] \in Nat /\ rank[next[n]] \in Nat
            BY <3>2
          <5> QED
            BY <2>3, <2>5, <5>1
        <4>2. w[next[n]] = Step(w, next[n])
          BY <2>4, <4>1
        <4>3. v[next[n]] = Step(w, next[n]) /\ v[n] = w[next[n]]
          BY <3>2, <4>1
        <4> QED
          BY <3>2, <4>2, <4>3
      <3> QED
        BY <3>1, <3>2
    <2>6. Solves(v, m)
      BY <2>5
    <2> QED
      BY <2>1, <2>6
  <1>2. PICK w : Solves(w, M)
    BY <1>1
  <1> DEFINE v == [n \in K |-> Step(w, n)]
  <1>3. ASSUME NEW n \in K
        PROVE  Step(w, n) = Step(v, n)
    BY <1>2
  <1>4. v = [n \in K |-> v[n]] /\ \A n \in K : v[n] = Step(v, n)
    BY <1>3
  <1> QED
    BY <1>4 DEF Walks

LEMMA ListIsDefined ==
  ASSUME NEW K, NEW nil, nil \notin K, NEW l, NEW r, NEW M \in Nat, NEW rank \in [K -> Nat],
         \A n \in K : rank[n] < M,
         \A n \in K : /\ l[n] = nil \/ (l[n] \in K /\ rank[l[n]] < rank[n])
                      /\ r[n] = nil \/ (r[n] \in K /\ rank[r[n]] < rank[n])
  PROVE  \E u : Prints(u, K, nil, l, r)
  <1> DEFINE Step(u, n) == IF n = nil THEN <<>> ELSE u[l[n]] \o << n >> \o u[r[n]]
             Solves(u, m) == u[nil] = <<>> /\ \A n \in K : rank[n] < m => u[n] = Step(u, n)
             Bad == {m \in Nat : ~\E u : Solves(u, m)}
  <1>1. Bad = {}
    <2> SUFFICES ASSUME Bad # {} PROVE FALSE
      OBVIOUS
    <2>1. PICK m \in Bad : \A i \in Bad : m <= i
      <3>1. Bad \in SUBSET Nat
        OBVIOUS
      <3> QED
        BY <3>1, LeastIndex
    <2>2. m # 0
      <3>1. Solves([n \in {nil} |-> <<>>], 0)
        OBVIOUS
      <3> QED
        BY <3>1
    <2>3. m \in Nat /\ m - 1 \in Nat /\ m - 1 \notin Bad
      <3>1. m \in Nat
        OBVIOUS
      <3>2. m - 1 \in Nat /\ ~(m <= m - 1)
        BY <2>2, <3>1
      <3> QED
        BY <2>1, <3>1, <3>2
    <2>4. PICK u : Solves(u, m - 1)
      BY <2>3
    <2> DEFINE v == [n \in K \cup {nil} |-> Step(u, n)]
    <2>5. ASSUME NEW n \in K, rank[n] < m, NEW c, c = nil \/ (c \in K /\ rank[c] < rank[n])
          PROVE  v[c] = u[c]
      <3>1. CASE c = nil
        BY <2>4, <3>1
      <3>2. CASE c \in K /\ rank[c] < rank[n]
        <4>1. rank[c] < m - 1
          <5>1. rank[n] \in Nat /\ rank[c] \in Nat
            BY <3>2
          <5> QED
            BY <2>3, <2>5, <3>2, <5>1
        <4> QED
          BY <2>4, <3>2, <4>1
      <3> QED
        BY <2>5, <3>1, <3>2
    <2>6. ASSUME NEW n \in K, rank[n] < m
          PROVE  v[n] = Step(v, n)
      <3> HIDE DEF v
      <3>1. v[l[n]] = u[l[n]]
        <4>1. l[n] = nil \/ (l[n] \in K /\ rank[l[n]] < rank[n])
          OBVIOUS
        <4> QED
          BY <2>5, <2>6, <4>1
      <3>3. v[r[n]] = u[r[n]]
        <4>1. r[n] = nil \/ (r[n] \in K /\ rank[r[n]] < rank[n])
          OBVIOUS
        <4> QED
          BY <2>5, <2>6, <4>1
      <3>2. v[n] = u[l[n]] \o << n >> \o u[r[n]]
        BY DEF v
      <3> QED
        BY <3>1, <3>2, <3>3
    <2>7. Solves(v, m)
      BY <2>6
    <2> QED
      BY <2>1, <2>7
  <1>2. PICK u : Solves(u, M)
    BY <1>1
  <1> DEFINE v == [n \in K \cup {nil} |-> Step(u, n)]
  <1>3. ASSUME NEW n \in K \cup {nil}
        PROVE  v[n] = u[n]
    BY <1>2
  <1>4. ASSUME NEW n \in K \cup {nil}
        PROVE  Step(u, n) = Step(v, n)
    <2>1. n # nil => l[n] \in K \cup {nil} /\ r[n] \in K \cup {nil}
      OBVIOUS
    <2> HIDE DEF v
    <2> QED
      BY <1>3, <2>1
  <1>5. v = [n \in K \cup {nil} |-> v[n]] /\ \A n \in K \cup {nil} : v[n] = Step(v, n)
    BY <1>4
  <1> QED
    BY <1>5 DEF Prints

(* A child's span is smaller than its parent's, so both recursions end.    *)
Weight(span) == [n \in Key |-> Cardinality(span[n])]

LEMMA SpansShrink ==
  ASSUME NEW span, SearchTree(span)
  PROVE  /\ Weight(span) \in [Key -> Nat] /\ Cardinality(Key) + 1 \in Nat
         /\ \A n \in Key : Weight(span)[n] < Cardinality(Key) + 1
         /\ \A n \in Key : \A c \in {node[n].left, node[n].right} :
              c # Nil => /\ n \in Counted /\ c \in Counted
                         /\ Weight(span)[c] < Weight(span)[n]
  <1>1. IsFiniteSet(Key) /\ Key \subseteq Nat /\ span \in [Key -> SUBSET Key]
    BY StatsAssumption DEF StatsAssumption, SearchTree
  <1>2. Cardinality(Key) \in Nat
    BY <1>1, FS_CardinalityType
  <1>3. ASSUME NEW n \in Key
        PROVE  /\ IsFiniteSet(span[n]) /\ Cardinality(span[n]) \in Nat
               /\ Cardinality(span[n]) <= Cardinality(Key)
    <2>1. span[n] \in SUBSET Key
      BY <1>1
    <2>2. IsFiniteSet(span[n]) /\ Cardinality(span[n]) <= Cardinality(Key)
      BY <1>1, <2>1, FS_Subset
    <2> QED
      BY <2>2, FS_CardinalityType
  <1>4. ASSUME NEW n \in Key, NEW c \in {node[n].left, node[n].right}, c # Nil
        PROVE  n \in Counted /\ c \in Counted /\ Cardinality(span[c]) < Cardinality(span[n])
    <2>1. n \in Counted
      BY <1>4 DEF SearchTree, NoNode
    <2>2. n \in span[n] /\ c \in Counted /\ span[c] \in {Low(span, n), High(span, n)}
      BY <1>4, <2>1 DEF SearchTree, Placed
    <2>3. span[c] \subseteq span[n] /\ n \notin span[c]
      <3>1. ~(n < n) /\ ~(n > n)
        BY <1>1
      <3> QED
        BY <2>2, <3>1 DEF Low, High
    <2>4. Cardinality(span[c]) <= Cardinality(span[n]) /\ Cardinality(span[c]) # Cardinality(span[n])
      BY <1>3, <2>2, <2>3, FS_Subset
    <2>5. c \in Key
      BY <2>2 DEF Counted
    <2>6. Cardinality(span[c]) \in Nat /\ Cardinality(span[n]) \in Nat
      BY <1>3, <2>5
    <2> QED
      BY <2>1, <2>2, <2>4, <2>6
  <1>5. \A n \in Key : Weight(span)[n] = Cardinality(span[n])
    BY DEF Weight
  <1>6. Weight(span) \in [Key -> Nat]
    BY <1>3 DEF Weight
  <1>7. \A n \in Key : Weight(span)[n] < Cardinality(Key) + 1
    <2>1. \A n \in Key : Cardinality(span[n]) \in Nat /\ Cardinality(span[n]) <= Cardinality(Key)
      BY <1>3
    <2> QED
      BY <1>2, <1>5, <2>1
  <1>8. \A n \in Key : \A c \in {node[n].left, node[n].right} : c # Nil => c \in Key
    BY <1>4 DEF Counted
  <1> QED
    BY <1>2, <1>4, <1>5, <1>6, <1>7, <1>8

LEMMA SearchIsDefined ==
  ASSUME NEW span, SearchTree(span), NEW key \in Key
  PROVE  EndFrom(key) = [n \in Key |-> IF key = n \/ Below(key, n) = Nil THEN n
                                       ELSE EndFrom(key)[Below(key, n)]]
  <1> DEFINE next == [n \in Key |-> Below(key, n)]
             Stop == {n \in Key : key = n \/ Below(key, n) = Nil}
  <1>1. \A n \in Key : Below(key, n) \in {node[n].left, node[n].right}
    BY DEF Below
  <1>2. \A n \in Key \ Stop : next[n] \in Key /\ Weight(span)[next[n]] < Weight(span)[n]
    BY <1>1, SpansShrink DEF Counted
  <1>3. PICK w : Walks(w, Key, next, Stop)
    <2> DEFINE M == Cardinality(Key) + 1
               rank == Weight(span)
    <2>1. Stop \in SUBSET Key
      OBVIOUS
    <2>2. M \in Nat /\ rank \in [Key -> Nat] /\ \A n \in Key : rank[n] < M
      BY SpansShrink
    <2>3. \A n \in Key \ Stop : next[n] \in Key /\ rank[next[n]] < rank[n]
      BY <1>2
    <2> HIDE DEF Stop, next, M, rank
    <2> QED
      BY <2>1, <2>2, <2>3, WalkIsDefined
  <1>4. w = [n \in Key |-> IF key = n \/ Below(key, n) = Nil THEN n ELSE w[Below(key, n)]]
    BY <1>3 DEF Walks
  <1>5. EndFrom(key) = CHOOSE v : v = [n \in Key |-> IF key = n \/ Below(key, n) = Nil THEN n ELSE v[Below(key, n)]]
    BY DEF EndFrom
  <1> QED
    BY <1>4, <1>5

(* A search ends at the key, or where the key belongs.                     *)
LEMMA SearchEnds ==
  ASSUME NEW span, SearchTree(span), NEW key \in Key, NEW n \in Counted, key \in span[n]
  PROVE  /\ EndFrom(key)[n] \in Counted /\ key \in span[EndFrom(key)[n]]
         /\ key = EndFrom(key)[n] \/ Below(key, EndFrom(key)[n]) = Nil
  <1> DEFINE Ends(m) == /\ EndFrom(key)[m] \in Counted /\ key \in span[EndFrom(key)[m]]
                        /\ key = EndFrom(key)[m] \/ Below(key, EndFrom(key)[m]) = Nil
             Bad == {m \in Counted : key \in span[m] /\ ~Ends(m)}
             Sizes == {Weight(span)[m] : m \in Bad}
  <1> SUFFICES ASSUME Bad # {} PROVE FALSE
    OBVIOUS
  <1>1. PICK m \in Bad : \A i \in Bad : Weight(span)[m] <= Weight(span)[i]
    <2>1. Sizes \in SUBSET Nat /\ Sizes # {}
      BY SpansShrink DEF Counted
    <2>2. PICK s \in Sizes : \A i \in Sizes : s <= i
      <3> HIDE DEF Sizes
      <3> QED
        BY <2>1, LeastIndex
    <2> HIDE DEF Bad
    <2> QED
      BY <2>2
  <1>2. m \in Counted /\ m \in Key /\ key \in span[m] /\ ~Ends(m)
    BY <1>1 DEF Counted
  <1> HIDE DEF Bad
  <1>3. EndFrom(key)[m] = IF key = m \/ Below(key, m) = Nil THEN m ELSE EndFrom(key)[Below(key, m)]
    BY <1>2, SearchIsDefined
  <1>4. key # m /\ Below(key, m) # Nil
    BY <1>2, <1>3
  <1> DEFINE c == Below(key, m)
  <1>5. c \in Counted /\ Weight(span)[c] < Weight(span)[m]
    BY <1>2, <1>4, SpansShrink DEF Below
  <1>6. key \in span[c]
    <2>1. key > m \/ key < m
      BY <1>2, <1>4, StatsAssumption DEF StatsAssumption
    <2>2. Placed(span, m)
      BY <1>2 DEF SearchTree
    <2>3. CASE key > m
      BY <1>2, <1>4, <2>2, <2>3 DEF Below, Placed, High
    <2>4. CASE key < m /\ ~(key > m)
      BY <1>2, <1>4, <2>2, <2>4 DEF Below, Placed, Low
    <2> QED
      BY <2>1, <2>3, <2>4
  <1>7. EndFrom(key)[m] = EndFrom(key)[c]
    BY <1>3, <1>4
  <1>8. ~Ends(c)
    BY <1>2, <1>7
  <1>9. c \in Bad
    BY <1>5, <1>6, <1>8 DEF Bad
  <1>10. Weight(span)[m] \in Nat /\ Weight(span)[c] \in Nat /\ Weight(span)[m] <= Weight(span)[c]
    BY <1>1, <1>2, <1>5, <1>9, SpansShrink DEF Counted
  <1> QED
    BY <1>5, <1>10

-----------------------------------------------------------------------------
(* Counting a key that is there changes its count only.                    *)
LEMMA CountedAgain ==
  ASSUME StatsTypeOK, NEW span, SearchTree(span), NEW key \in Counted,
         node' = [node EXCEPT ![key].count = @ + 1],
         visits' = [visits EXCEPT ![key] = @ + 1], root' = root
  PROVE  SearchTree(span)'
  <1>1. /\ key \in Key /\ Counted \subseteq Key
        /\ node \in [Key -> [left : Key \cup {Nil}, right : Key \cup {Nil}, count : Nat]]
        /\ visits \in [Key -> Nat]
    BY DEF StatsTypeOK, Counted
  <1>2. Counted' = Counted
    BY <1>1 DEF Counted
  <1>3. \A n \in Key : node'[n].left = node[n].left /\ node'[n].right = node[n].right
    BY <1>1
  <1>4. \A n \in Counted : node[n].count = visits[n] => node'[n].count = visits'[n]
    BY <1>1
  <1>5. \A n \in Key \ Counted : node'[n] = node[n]
    BY <1>1
  <1>6. \A n \in Counted : Placed(span, n)' /\ Filed(span, n)'
    BY <1>1, <1>2, <1>3, <1>4 DEF SearchTree, Placed, Filed, Low, High
  <1>7. \A m, n \in Counted : m # n => Apart(span, m, n)'
    BY DEF SearchTree, Apart, Low, High
  <1> QED
    BY <1>2, <1>5, <1>6, <1>7 DEF SearchTree, NoNode

(* A new leaf takes over its side of the span of its parent.  No counted   *)
(* key is on that side, or the parent had a child there.                   *)
LEMMA NewLeaf ==
  ASSUME StatsTypeOK, NEW span, SearchTree(span), root # Nil, root' = root,
         NEW up \in Counted, NEW key \in span[up] \ Counted, Below(key, up) = Nil,
         visits' = [visits EXCEPT ![key] = @ + 1],
         key > up => node' = [node EXCEPT ![up].right = key, ![key].count = 1],
         key < up => node' = [node EXCEPT ![up].left = key, ![key].count = 1]
  PROVE  TreeInv'
  <1> DEFINE side == IF key > up THEN High(span, up) ELSE Low(span, up)
             span2 == [span EXCEPT ![key] = side]
  <1>1. /\ key \in Key /\ up \in Key /\ Counted \subseteq Key /\ Key \subseteq Nat /\ Nil \notin Key
        /\ node \in [Key -> [left : Key \cup {Nil}, right : Key \cup {Nil}, count : Nat]]
        /\ visits \in [Key -> Nat] /\ span \in [Key -> SUBSET Key]
        /\ key # up
    BY StatsAssumption DEF StatsAssumption, StatsTypeOK, Counted, SearchTree
  <1>2. \/ key > up /\ node[up].right = Nil
        \/ key < up /\ ~(key > up) /\ node[up].left = Nil
    <2>1. \/ key > up
          \/ key < up /\ ~(key > up)
      BY <1>1
    <2> QED
      BY <2>1 DEF Below
  <1>3. /\ key \in side /\ side \subseteq span[up] /\ up \notin side
        /\ side \in {Low(span, up), High(span, up)}
        /\ side \subseteq Key
    <2>1. ~(up < up) /\ ~(up > up)
      BY <1>1
    <2> QED
      BY <1>1, <1>2, <2>1 DEF Low, High
  <1>4. \A k \in Counted : k \notin side
    BY <1>2, <1>1 DEF SearchTree, Filed, Low, High
  <1>5. /\ span2 \in [Key -> SUBSET Key] /\ span2[key] = side
        /\ \A n \in Counted : span2[n] = span[n]
    BY <1>1, <1>3
  <1>6. Counted' = Counted \cup {key} /\ visits'[key] = 1 /\ \A n \in Counted : visits'[n] = visits[n]
    BY <1>1 DEF Counted
  <1>7. node[key] = NoNode
    BY <1>1 DEF SearchTree
  <1>8. /\ node'[key] = [left |-> Nil, right |-> Nil, count |-> 1]
        /\ \A n \in Key \ {key, up} : node'[n] = node[n]
        /\ node'[up].count = node[up].count
        /\ key > up => node'[up].right = key /\ node'[up].left = node[up].left
        /\ key < up => node'[up].left = key /\ node'[up].right = node[up].right
    <2>1. CASE key > up
      <3>1. ~(key < up)
        BY <1>1, <2>1
      <3> QED
        BY <1>1, <1>7, <2>1, <3>1 DEF NoNode
    <2>2. CASE key < up
      <3>1. ~(key > up)
        BY <1>1, <2>2
      <3> QED
        BY <1>1, <1>7, <2>2, <3>1 DEF NoNode
    <2> QED
      BY <1>2, <2>1, <2>2
  <1> HIDE DEF side, span2
  <1>9. \A n \in Counted : /\ Low(span2, n) = Low(span, n)
                           /\ High(span2, n) = High(span, n)
    BY <1>5 DEF Low, High
  <1>10. ASSUME NEW n \in Counted, n # up
         PROVE  Placed(span2, n)' /\ Filed(span2, n)'
    <2>1. node'[n] = node[n] /\ n \in Key /\ n # key
      BY <1>1, <1>8, <1>10
    <2>2. Placed(span, n) /\ Filed(span, n)
      BY DEF SearchTree
    <2>3. Placed(span2, n)'
      BY <1>5, <1>6, <1>9, <2>1, <2>2 DEF Placed, Low, High
    <2>4. ASSUME NEW k \in Counted \cap span[n]
          PROVE  /\ k < n => node[n].left # Nil
                 /\ k > n => node[n].right # Nil
      BY <2>2 DEF Filed
    <2>5. ASSUME key \in span[n]
          PROVE  /\ key < n => node[n].left # Nil
                 /\ key > n => node[n].right # Nil
      <3>1. Apart(span, up, n) /\ n \in span[n] /\ up \in span[up]
        BY <1>10, <2>2 DEF SearchTree, Placed
      <3>2. CASE span[up] \subseteq Low(span, n)
        <4>1. up \in span[n] /\ up < n /\ key < n /\ ~(key > n)
          BY <1>1, <2>1, <3>1, <3>2 DEF Low
        <4> QED
          BY <2>4, <4>1
      <3>3. CASE span[up] \subseteq High(span, n)
        <4>1. up \in span[n] /\ up > n /\ key > n /\ ~(key < n)
          BY <1>1, <2>1, <3>1, <3>3 DEF High
        <4> QED
          BY <2>4, <4>1
      <3>4. ~(span[n] \subseteq side)
        BY <1>4, <3>1
      <3>5. CASE span[n] \subseteq Low(span, up) \/ span[n] \subseteq High(span, up)
        <4>1. key < up <=> ~(key > up)
          BY <1>1, <1>2
        <4> QED
          BY <2>5, <3>4, <3>5, <4>1 DEF side, Low, High
      <3> QED
        BY <2>5, <3>1, <3>2, <3>3, <3>5 DEF Apart
    <2>6. Filed(span2, n)'
      BY <1>5, <1>6, <2>1, <2>4, <2>5 DEF Filed
    <2> QED
      BY <2>3, <2>6
  <1>11. Placed(span2, up)' /\ Filed(span2, up)'
    <2>1. Placed(span, up) /\ Filed(span, up)
      BY DEF SearchTree
    <2>2. CASE key > up
      <3>1. ~(key < up)
        BY <1>1, <2>2
      <3>2. Placed(span2, up)'
        BY <1>1, <1>5, <1>6, <1>8, <1>9, <2>1, <2>2, <3>1 DEF Placed, Low, High, side
      <3> QED
        BY <1>1, <1>5, <1>6, <1>8, <2>1, <2>2, <3>1, <3>2 DEF Filed
    <2>3. CASE key < up
      <3>1. ~(key > up)
        BY <1>1, <2>3
      <3>2. Placed(span2, up)'
        BY <1>1, <1>5, <1>6, <1>8, <1>9, <2>1, <2>3, <3>1 DEF Placed, Low, High, side
      <3> QED
        BY <1>1, <1>5, <1>6, <1>8, <2>1, <2>3, <3>1, <3>2 DEF Filed
    <2> QED
      BY <1>2, <2>2, <2>3
  <1>12. Placed(span2, key)' /\ Filed(span2, key)'
    <2>1. ~(key < key) /\ ~(key > key)
      BY <1>1
    <2> QED
      BY <1>3, <1>4, <1>5, <1>6, <1>8, <2>1 DEF Placed, Filed
  <1>13. ASSUME NEW n \in Counted
         PROVE  Apart(span2, key, n) /\ Apart(span2, n, key)
    <2>1. span2[n] = span[n] /\ span2[key] = side /\ n \in span[n] /\ n \notin side
      BY <1>4, <1>5 DEF SearchTree, Placed
    <2>2. CASE n = up
      BY <1>3, <1>9, <2>1, <2>2 DEF Apart
    <2>3. CASE n # up
      <3>1. Apart(span, up, n)
        BY <2>3 DEF SearchTree
      <3>2. CASE span[n] \subseteq Low(span, up) \/ span[n] \subseteq High(span, up)
        <4>1. ~(span[n] \subseteq side)
          BY <2>1
        <4>2. Low(span, up) \cap High(span, up) = {}
          BY <1>1 DEF Low, High
        <4>3. side \cap span[n] = {}
          BY <1>3, <3>2, <4>1, <4>2
        <4> QED
          BY <2>1, <4>3 DEF Apart
      <3> QED
        BY <1>3, <1>9, <2>1, <3>1, <3>2 DEF Apart
    <2> QED
      BY <2>2, <2>3
  <1>14. ASSUME NEW m \in Counted, NEW n \in Counted, m # n
         PROVE  Apart(span2, m, n)
    <2>1. Apart(span, m, n)
      BY <1>14 DEF SearchTree
    <2> QED
      BY <1>5, <1>9, <2>1 DEF Apart
  <1>15. \A m, n \in Counted' : m # n => Apart(span2, m, n)'
    <2>1. \A m, n \in Counted' : m # n => Apart(span2, m, n)
      BY <1>6, <1>13, <1>14
    <2> QED
      BY <2>1 DEF Apart, Low, High
  <1>16. root' \in Counted' /\ span2[root'] = Key /\ root' # Nil
    BY <1>5, <1>6 DEF SearchTree
  <1>17. \A n \in Key \ Counted' : node'[n] = NoNode'
    BY <1>6, <1>8 DEF SearchTree, NoNode
  <1>18. SearchTree(span2)'
    BY <1>5, <1>6, <1>10, <1>11, <1>12, <1>15, <1>16, <1>17 DEF SearchTree
  <1> QED
    BY <1>5, <1>18 DEF TreeInv

LEMMA EndOfSearch ==
  ASSUME StatsTypeOK, NEW span, SearchTree(span), NEW key \in Key, root # Nil
  PROVE  /\ End(key) \in Counted /\ key \in span[End(key)]
         /\ key \in Counted => key = End(key)
         /\ key # End(key) => Below(key, End(key)) = Nil
  <1> DEFINE up == End(key)
  <1>1. root \in Counted /\ key \in span[root]
    BY DEF SearchTree
  <1>2. /\ up \in Counted /\ key \in span[up]
        /\ key = up \/ Below(key, up) = Nil
    BY <1>1, SearchEnds DEF End
  <1> HIDE DEF up
  <1>3. ASSUME key \in Counted, key # up
        PROVE  FALSE
    <2>1. key > up \/ (key < up /\ ~(key > up))
      <3>1. key \in Nat /\ up \in Nat
        BY <1>2, StatsAssumption DEF StatsAssumption, Counted
      <3> QED
        BY <1>3, <3>1
    <2>2. Filed(span, up) /\ Below(key, up) = Nil
      BY <1>2, <1>3 DEF SearchTree
    <2> QED
      BY <1>2, <1>3, <2>1, <2>2 DEF Filed, Below
  <1> QED
    BY <1>2, <1>3 DEF up

LEMMA AddBstNodeInv ==
  ASSUME StatsTypeOK, TreeInv, NEW key \in Key, AddBstNode(key)
  PROVE  TreeInv'
  <1>1. /\ Nil \notin Key /\ Key \subseteq Nat
        /\ node \in [Key -> [left : Key \cup {Nil}, right : Key \cup {Nil}, count : Nat]]
        /\ visits \in [Key -> Nat]
    BY StatsAssumption DEF StatsAssumption, StatsTypeOK
  <1>2. visits' = [visits EXCEPT ![key] = @ + 1]
    BY DEF AddBstNode
  <1>3. PICK span \in [Key -> SUBSET Key] : SearchTree(span)
    BY DEF TreeInv
  <1>4. CASE root = Nil
    <2> DEFINE span2 == [span EXCEPT ![key] = Key]
    <2>1. root' = key /\ node' = [node EXCEPT ![key].count = 1]
      BY <1>4 DEF AddBstNode
    <2>2. Counted = {} /\ \A n \in Key : node[n] = NoNode
      BY <1>3, <1>4 DEF SearchTree
    <2>3. Counted' = {key} /\ visits'[key] = 1
      BY <1>1, <1>2, <2>2 DEF Counted
    <2>4. /\ node'[key] = [left |-> Nil, right |-> Nil, count |-> 1]
          /\ \A n \in Key \ {key} : node'[n] = NoNode'
      BY <1>1, <2>1, <2>2 DEF NoNode
    <2>5. span2 \in [Key -> SUBSET Key] /\ span2[key] = Key
      BY <1>3
    <2> HIDE DEF span2
    <2>6. ~(key < key) /\ ~(key > key)
      BY <1>1
    <2>7. Placed(span2, key)' /\ Filed(span2, key)'
      BY <2>3, <2>4, <2>5, <2>6 DEF Placed, Filed
    <2>8. SearchTree(span2)'
      BY <1>1, <2>1, <2>3, <2>4, <2>5, <2>7 DEF SearchTree
    <2> QED
      BY <2>5, <2>8 DEF TreeInv
  <1>5. CASE root # Nil
    <2> DEFINE up == End(key)
    <2>1. /\ up \in Counted /\ up \in Key /\ key \in span[up]
          /\ key \in Counted => key = up
          /\ key # up => Below(key, up) = Nil
      BY <1>3, <1>5, EndOfSearch DEF Counted
    <2>2. \/ up = key /\ node' = [node EXCEPT ![key].count = @ + 1]
          \/ key > up /\ node' = [node EXCEPT ![up].right = key, ![key].count = 1]
          \/ key < up /\ node' = [node EXCEPT ![up].left = key, ![key].count = 1]
      BY <1>5 DEF AddBstNode
    <2>3. root' = root
      BY <1>5 DEF AddBstNode
    <2> HIDE DEF up
    <2>4. CASE up = key /\ node' = [node EXCEPT ![key].count = @ + 1]
      BY <1>2, <1>3, <2>1, <2>3, <2>4, CountedAgain DEF TreeInv
    <2>5. CASE key > up /\ node' = [node EXCEPT ![up].right = key, ![key].count = 1]
      <3>1. key # up /\ ~(key < up)
        BY <1>1, <2>1, <2>5
      <3>2. key \in span[up] \ Counted /\ Below(key, up) = Nil
        BY <2>1, <3>1
      <3> QED
        BY <1>2, <1>3, <1>5, <2>1, <2>3, <2>5, <3>1, <3>2, NewLeaf
    <2>6. CASE key < up /\ node' = [node EXCEPT ![up].left = key, ![key].count = 1]
      <3>1. key # up /\ ~(key > up)
        BY <1>1, <2>1, <2>6
      <3>2. key \in span[up] \ Counted /\ Below(key, up) = Nil
        BY <2>1, <3>1
      <3> QED
        BY <1>2, <1>3, <1>5, <2>1, <2>3, <2>6, <3>1, <3>2, NewLeaf
    <2> QED
      BY <2>2, <2>4, <2>5, <2>6
  <1> QED
    BY <1>4, <1>5

LEMMA IncBstNodeInv ==
  ASSUME StatsTypeOK, TreeInv, NEW key \in Key, IncBstNode(key)
  PROVE  TreeInv'
  <1>1. PICK span \in [Key -> SUBSET Key] : SearchTree(span)
    BY DEF TreeInv
  <1>2. root # Nil /\ End(key) = key
    BY StatsAssumption DEF IncBstNode, FindBstNode, StatsAssumption
  <1>3. key \in Counted
    BY <1>1, <1>2, EndOfSearch
  <1>4. SearchTree(span)'
    BY <1>1, <1>3, CountedAgain DEF IncBstNode
  <1> QED
    BY <1>4, <1>1 DEF TreeInv

LEMMA DeleteBstInv == TreeInv /\ DeleteBst => TreeInv'
  <1> SUFFICES ASSUME TreeInv, DeleteBst PROVE TreeInv'
    OBVIOUS
  <1>1. PICK span \in [Key -> SUBSET Key] : SearchTree(span)
    BY DEF TreeInv
  <1>2. Counted' = {}
    BY DEF DeleteBst, Counted
  <1>3. SearchTree(span)'
    BY <1>1, <1>2 DEF SearchTree, DeleteBst, NoNode
  <1> QED
    BY <1>1, <1>3 DEF TreeInv

-----------------------------------------------------------------------------
(* printBst(): in ascending order, the counted keys and nothing else.      *)
Ascending(s) == \A i, j \in 1..Len(s) : i < j => s[i] < s[j]

LEMMA AscendingAround ==
  ASSUME NEW l \in Seq(Nat), NEW r \in Seq(Nat), NEW n \in Nat, Ascending(l), Ascending(r),
         \A i \in 1..Len(l) : l[i] < n, \A i \in 1..Len(r) : r[i] > n
  PROVE  LET s == l \o << n >> \o r
         IN  /\ s \in Seq(Nat) /\ Ascending(s)
             /\ \A i \in 1..Len(s) : \/ s[i] = n
                                     \/ \E j \in 1..Len(l) : s[i] = l[j]
                                     \/ \E j \in 1..Len(r) : s[i] = r[j]
             /\ \E i \in 1..Len(s) : s[i] = n
             /\ \A j \in 1..Len(l) : \E i \in 1..Len(s) : s[i] = l[j]
             /\ \A j \in 1..Len(r) : \E i \in 1..Len(s) : s[i] = r[j]
  <1> DEFINE s == l \o << n >> \o r
             a == Len(l)
             b == Len(r)
  <1>1. /\ a \in Nat /\ b \in Nat /\ s \in Seq(Nat) /\ Len(s) = a + 1 + b
        /\ \A i \in 1..a : s[i] = l[i]
        /\ s[a + 1] = n
        /\ \A i \in (a + 2)..(a + 1 + b) : s[i] = r[i - (a + 1)]
    OBVIOUS
  <1>2. /\ \A i \in 1..a : l[i] \in Nat
        /\ \A i \in 1..b : r[i] \in Nat
    OBVIOUS
  <1> HIDE DEF s, a, b
  <1>3. ASSUME NEW i \in 1..(a + 1 + b)
        PROVE  i \in 1..a \/ i = a + 1 \/ (i \in (a + 2)..(a + 1 + b) /\ i - (a + 1) \in 1..b)
    BY <1>1
  <1>4. ASSUME NEW j \in 1..b
        PROVE  /\ j + (a + 1) \in (a + 2)..(a + 1 + b) /\ j + (a + 1) \in 1..(a + 1 + b)
               /\ s[j + (a + 1)] = r[j]
    <2>1. j + (a + 1) \in (a + 2)..(a + 1 + b) /\ j + (a + 1) \in 1..(a + 1 + b) /\ (j + (a + 1)) - (a + 1) = j
      BY <1>1
    <2> QED
      BY <1>1, <2>1
  <1>5. ASSUME NEW i \in 1..(a + 1 + b), NEW j \in 1..(a + 1 + b), i < j
        PROVE  s[i] < s[j]
    <2>1. CASE i \in 1..a /\ j \in 1..a
      BY <1>1, <1>5, <2>1 DEF Ascending, a
    <2>2. CASE i \in 1..a /\ j = a + 1
      BY <1>1, <2>2 DEF a
    <2>3. CASE i \in 1..a /\ j \in (a + 2)..(a + 1 + b) /\ j - (a + 1) \in 1..b
      <3>1. s[i] \in Nat /\ s[j] \in Nat /\ s[i] < n /\ s[j] > n
        BY <1>1, <1>2, <2>3 DEF a, b
      <3> QED
        BY <3>1
    <2>4. CASE i = a + 1 /\ j \in (a + 2)..(a + 1 + b) /\ j - (a + 1) \in 1..b
      <3>1. s[j] \in Nat /\ s[i] = n /\ s[j] > n
        BY <1>1, <1>2, <2>4 DEF b
      <3> QED
        BY <3>1
    <2>5. CASE /\ i \in (a + 2)..(a + 1 + b) /\ i - (a + 1) \in 1..b
               /\ j \in (a + 2)..(a + 1 + b) /\ j - (a + 1) \in 1..b
      <3>1. i - (a + 1) < j - (a + 1)
        BY <1>1, <1>5, <2>5
      <3>2. r[i - (a + 1)] < r[j - (a + 1)]
        BY <2>5, <3>1 DEF Ascending, b
      <3> QED
        BY <1>1, <2>5, <3>2
    <2>6. \/ i \in 1..a /\ j \in 1..a
          \/ i \in 1..a /\ j = a + 1
          \/ i \in 1..a /\ j \in (a + 2)..(a + 1 + b) /\ j - (a + 1) \in 1..b
          \/ i = a + 1 /\ j \in (a + 2)..(a + 1 + b) /\ j - (a + 1) \in 1..b
          \/ /\ i \in (a + 2)..(a + 1 + b) /\ i - (a + 1) \in 1..b
             /\ j \in (a + 2)..(a + 1 + b) /\ j - (a + 1) \in 1..b
      BY <1>1, <1>5
    <2> QED
      BY <2>1, <2>2, <2>3, <2>4, <2>5, <2>6
  <1>6. Ascending(s)
    BY <1>1, <1>5 DEF Ascending
  <1>7. ASSUME NEW i \in 1..Len(s)
        PROVE  \/ s[i] = n
               \/ \E j \in 1..a : s[i] = l[j]
               \/ \E j \in 1..b : s[i] = r[j]
    BY <1>1, <1>3
  <1>8. \E i \in 1..Len(s) : s[i] = n
    <2>1. a + 1 \in 1..Len(s)
      BY <1>1
    <2> QED
      BY <1>1, <2>1
  <1>9. \A j \in 1..a : j \in 1..Len(s) /\ s[j] = l[j]
    BY <1>1
  <1> QED
    BY <1>1, <1>4, <1>6, <1>7, <1>8, <1>9 DEF s, a, b

LEMMA PrintIsDefined ==
  ASSUME NEW span, SearchTree(span)
  PROVE  /\ InOrderFrom[Nil] = <<>>
         /\ \A n \in Key : InOrderFrom[n] = InOrderFrom[node[n].left] \o << n >> \o InOrderFrom[node[n].right]
  <1> DEFINE l == [n \in Key |-> node[n].left]
             r == [n \in Key |-> node[n].right]
  <1>1. Nil \notin Key
    BY StatsAssumption DEF StatsAssumption
  <1>2. PICK u : Prints(u, Key, Nil, l, r)
    <2> DEFINE M == Cardinality(Key) + 1
               rank == Weight(span)
    <2>1. M \in Nat /\ rank \in [Key -> Nat] /\ \A n \in Key : rank[n] < M
      BY SpansShrink
    <2>2. \A n \in Key : /\ l[n] = Nil \/ (l[n] \in Key /\ rank[l[n]] < rank[n])
                         /\ r[n] = Nil \/ (r[n] \in Key /\ rank[r[n]] < rank[n])
      BY SpansShrink DEF Counted
    <2> HIDE DEF l, r, M, rank
    <2> QED
      BY <1>1, <2>1, <2>2, ListIsDefined
  <1>3. u = [n \in Key \cup {Nil} |-> IF n = Nil THEN <<>> ELSE u[node[n].left] \o << n >> \o u[node[n].right]]
    BY <1>1, <1>2 DEF Prints
  <1>4. InOrderFrom = CHOOSE v : v = [n \in Key \cup {Nil} |->
                        IF n = Nil THEN <<>> ELSE v[node[n].left] \o << n >> \o v[node[n].right]]
    BY DEF InOrderFrom
  <1>5. InOrderFrom = [n \in Key \cup {Nil} |->
          IF n = Nil THEN <<>> ELSE InOrderFrom[node[n].left] \o << n >> \o InOrderFrom[node[n].right]]
    BY <1>3, <1>4
  <1> QED
    BY <1>1, <1>5

(* The list s is exactly the counted keys of S, in ascending order.        *)
Shows(s, S) ==
  /\ s \in Seq(Nat) /\ Ascending(s)
  /\ \A i \in 1..Len(s) : s[i] \in Counted \cap S
  /\ \A k \in Counted \cap S : \E i \in 1..Len(s) : s[i] = k

LEMMA NodeBetween ==
  ASSUME NEW span, SearchTree(span), NEW n \in Counted, NEW l, NEW r,
         Shows(l, Low(span, n)), Shows(r, High(span, n))
  PROVE  Shows(l \o << n >> \o r, span[n])
  <1> DEFINE s == l \o << n >> \o r
  <1>1. n \in Nat /\ Counted \subseteq Nat /\ n \in span[n]
    BY StatsAssumption DEF StatsAssumption, Counted, SearchTree, Placed
  <1>2. /\ l \in Seq(Nat) /\ Ascending(l) /\ \A i \in 1..Len(l) : l[i] \in Counted \cap Low(span, n)
        /\ r \in Seq(Nat) /\ Ascending(r) /\ \A i \in 1..Len(r) : r[i] \in Counted \cap High(span, n)
    BY DEF Shows
  <1>3. /\ \A i \in 1..Len(l) : l[i] < n
        /\ \A i \in 1..Len(r) : r[i] > n
    BY <1>2 DEF Low, High
  <1>4. /\ s \in Seq(Nat) /\ Ascending(s)
        /\ \A i \in 1..Len(s) : \/ s[i] = n
                                \/ \E j \in 1..Len(l) : s[i] = l[j]
                                \/ \E j \in 1..Len(r) : s[i] = r[j]
        /\ \E i \in 1..Len(s) : s[i] = n
        /\ \A j \in 1..Len(l) : \E i \in 1..Len(s) : s[i] = l[j]
        /\ \A j \in 1..Len(r) : \E i \in 1..Len(s) : s[i] = r[j]
    BY <1>1, <1>2, <1>3, AscendingAround
  <1> HIDE DEF s
  <1>5. \A i \in 1..Len(s) : s[i] \in Counted \cap span[n]
    BY <1>1, <1>2, <1>4 DEF Low, High
  <1>6. ASSUME NEW k \in Counted \cap span[n]
        PROVE  \E i \in 1..Len(s) : s[i] = k
    <2>1. k = n \/ k \in Low(span, n) \/ k \in High(span, n)
      <3>1. k \in Nat
        BY <1>1
      <3>2. k = n \/ k < n \/ k > n
        BY <1>1, <3>1
      <3> QED
        BY <3>2 DEF Low, High
    <2>2. CASE k \in Low(span, n)
      <3>1. PICK j \in 1..Len(l) : l[j] = k
        BY <2>2 DEF Shows
      <3> QED
        BY <1>4, <3>1
    <2>3. CASE k \in High(span, n)
      <3>1. PICK j \in 1..Len(r) : r[j] = k
        BY <2>3 DEF Shows
      <3> QED
        BY <1>4, <3>1
    <2> QED
      BY <1>4, <2>1, <2>2, <2>3
  <1>7. Shows(s, span[n])
    BY <1>4, <1>5, <1>6 DEF Shows
  <1> QED
    BY <1>7 DEF s

LEMMA EmptyShows == ASSUME NEW S, Counted \cap S = {} PROVE Shows(<<>>, S)
  BY DEF Shows, Ascending

LEMMA SubtreeInOrder ==
  ASSUME NEW span, SearchTree(span), NEW n \in Counted
  PROVE  Shows(InOrderFrom[n], span[n])
  <1> DEFINE Bad == {m \in Counted : ~Shows(InOrderFrom[m], span[m])}
             Sizes == {Weight(span)[m] : m \in Bad}
  <1> SUFFICES ASSUME Bad # {} PROVE FALSE
    OBVIOUS
  <1>1. PICK m \in Bad : \A i \in Bad : Weight(span)[m] <= Weight(span)[i]
    <2>1. Sizes \in SUBSET Nat /\ Sizes # {}
      BY SpansShrink DEF Counted
    <2>2. PICK s \in Sizes : \A i \in Sizes : s <= i
      <3> HIDE DEF Sizes
      <3> QED
        BY <2>1, LeastIndex
    <2> HIDE DEF Bad
    <2> QED
      BY <2>2
  <1>2. m \in Counted /\ m \in Key /\ ~Shows(InOrderFrom[m], span[m])
    BY <1>1 DEF Counted
  <1>3. ASSUME NEW c \in {node[m].left, node[m].right}, c # Nil
        PROVE  Shows(InOrderFrom[c], span[c])
    <2>1. c \in Counted /\ c \in Key /\ Weight(span)[c] < Weight(span)[m]
      BY <1>2, <1>3, SpansShrink DEF Counted
    <2>2. Weight(span)[c] \in Nat /\ Weight(span)[m] \in Nat
      BY <1>2, <2>1, SpansShrink
    <2>3. ~(Weight(span)[m] <= Weight(span)[c])
      BY <2>1, <2>2
    <2>4. c \notin Bad
      <3> HIDE DEF Bad
      <3> QED
        BY <1>1, <2>3
    <2> QED
      BY <2>1, <2>4
  <1> HIDE DEF Bad
  <1>4. InOrderFrom[Nil] = <<>> /\ Placed(span, m) /\ Filed(span, m)
    BY <1>2, PrintIsDefined DEF SearchTree
  <1>5. Shows(InOrderFrom[node[m].left], Low(span, m))
    <2>1. CASE node[m].left = Nil
      <3>1. Counted \cap Low(span, m) = {}
        BY <1>4, <2>1 DEF Filed, Low
      <3> QED
        BY <1>4, <2>1, <3>1, EmptyShows
    <2>2. CASE node[m].left # Nil
      BY <1>3, <1>4, <2>2 DEF Placed
    <2> QED
      BY <2>1, <2>2
  <1>6. Shows(InOrderFrom[node[m].right], High(span, m))
    <2>1. CASE node[m].right = Nil
      <3>1. Counted \cap High(span, m) = {}
        BY <1>4, <2>1 DEF Filed, High
      <3> QED
        BY <1>4, <2>1, <3>1, EmptyShows
    <2>2. CASE node[m].right # Nil
      BY <1>3, <1>4, <2>2 DEF Placed
    <2> QED
      BY <2>1, <2>2
  <1>7. InOrderFrom[m] = InOrderFrom[node[m].left] \o << m >> \o InOrderFrom[node[m].right]
    BY <1>2, PrintIsDefined
  <1> QED
    BY <1>2, <1>5, <1>6, <1>7, NodeBetween

LEMMA TreeIsPrinted ==
  ASSUME TreeInv
  PROVE  Shows(InOrder, Key)
  <1>1. PICK span \in [Key -> SUBSET Key] : SearchTree(span)
    BY DEF TreeInv
  <1>2. CASE root = Nil
    BY <1>1, <1>2, PrintIsDefined, EmptyShows DEF InOrder, SearchTree
  <1>3. CASE root # Nil
    BY <1>1, <1>3, SubtreeInOrder DEF InOrder, SearchTree
  <1> QED
    BY <1>2, <1>3

-----------------------------------------------------------------------------
(* A size that toHex() writes is the size that chunkHexToInt() reads.      *)
LEMMA HexIsRead ==
  ASSUME NEW v \in Nat
  PROVE  ChunkHexToInt(ToHex(v)) = v
  <1> DEFINE d == ToHex(v)
             n == Len(d)
             w == [i \in 0..n |-> IF i = 0 THEN 0 ELSE IF i = 1 THEN d[1] ELSE 16 * d[1] + d[2]]
             Reads(f) == f = [i \in 0..n |-> IF i = 0 THEN 0 ELSE 16 * f[i - 1] + d[i]]
  <1>1. \/ n = 1 /\ d[1] = v
        \/ n = 2 /\ d[1] \in Nat /\ d[2] \in Nat /\ 16 * d[1] + d[2] = v
    <2>1. CASE v > 15
      <3>1. d = << v \div 16, v % 16 >>
        BY <2>1 DEF ToHex
      <3>2. v \div 16 \in Nat /\ v % 16 \in Nat /\ 16 * (v \div 16) + (v % 16) = v
        OBVIOUS
      <3> QED
        BY <3>1, <3>2
    <2>2. CASE ~(v > 15)
      <3>1. d = << v >>
        BY <2>2 DEF ToHex
      <3> QED
        BY <3>1
    <2> QED
      BY <2>1, <2>2
  <1>2. n \in {1, 2} /\ d[1] \in Nat
    BY <1>1
  <1> HIDE DEF d, n
  <1>3. ASSUME NEW i \in 0..n
        PROVE  w[i] = IF i = 0 THEN 0 ELSE 16 * w[i - 1] + d[i]
    <2>1. CASE i = 0
      BY <2>1
    <2>2. CASE i = 1
      <3>1. w[1] = d[1] /\ w[0] = 0 /\ 16 * 0 = 0 /\ 0 + d[1] = d[1] /\ 1 - 1 = 0
        BY <1>2
      <3> QED
        BY <2>2, <3>1
    <2>3. CASE i = 2
      <3>1. w[2] = 16 * d[1] + d[2] /\ w[1] = d[1] /\ 2 - 1 = 1
        BY <1>2, <2>3
      <3> QED
        BY <2>3, <3>1
    <2> QED
      BY <1>2, <2>1, <2>2, <2>3
  <1>4. Reads(w)
    BY <1>3
  <1>5. ChunkHexToInt(d) = (CHOOSE f : Reads(f))[n]
    BY DEF ChunkHexToInt, n
  <1>6. PICK f : Reads(f) /\ ChunkHexToInt(d) = f[n]
    <2> HIDE DEF Reads
    <2> QED
      BY <1>4, <1>5
  <1>7. f[0] = 0 /\ f[1] = 16 * f[0] + d[1] /\ (n = 2 => f[2] = 16 * f[1] + d[2])
    <2>1. \A i \in 0..n : f[i] = IF i = 0 THEN 0 ELSE 16 * f[i - 1] + d[i]
      BY <1>6
    <2>2. 0 \in 0..n /\ 1 \in 0..n /\ (n = 2 => 2 \in 0..n) /\ 1 - 1 = 0 /\ 2 - 1 = 1
      BY <1>2
    <2> HIDE DEF Reads
    <2> QED
      BY <2>1, <2>2
  <1>8. f[1] = d[1]
    BY <1>2, <1>7
  <1> HIDE DEF Reads
  <1> QED
    BY <1>1, <1>6, <1>7, <1>8 DEF d

LEMMA SizesAndWidths ==
  ASSUME NEW line \in Lines
  PROVE  /\ WidthOf(line) \in Nat /\ WidthOf(line) >= 2 /\ Size(line) \in Int /\ Sent(line) \in Nat
         /\ (line \in Key /\ Fits(line))
            => Size(line) = WidthOf(line) - 2 /\ Sent(line) = WidthOf(line)
         /\ line \notin Key => Size(line) = WidthOf(line) - 2 /\ Sent(line) = WidthOf(line)
  <1> DEFINE n == WidthOf(line)
  <1>1. /\ ByteMod \in Nat \ {0} /\ LineMax \in Nat
        /\ HeaderWidth \in 2..(LineMax - 1) /\ FooterWidth \in 2..(LineMax - 1)
        /\ Header \notin Key /\ Footer \notin Key
        /\ \A k \in Key : Width[k] \in Nat /\ Width[k] >= 2
    BY StatsAssumption DEF StatsAssumption
  <1>2. /\ n \in Nat /\ n >= 2
        /\ line \in Key => n = Width[line]
        /\ line \notin Key => n < LineMax
    BY <1>1 DEF WidthOf, Lines
  <1> HIDE DEF n
  <1>3. n - 2 \in Nat
    BY <1>2
  <1>4. ChunkHexToInt(ToHex(n - 2)) = n - 2
    BY <1>3, HexIsRead
  <1>5. Size(line) = IF n < ByteMod \/ line \notin Key THEN n - 2 ELSE (n - 2) % ByteMod
    BY <1>4 DEF Size, n
  <1>6. (n - 2) % ByteMod \in Nat
    BY <1>1, <1>3
  <1>7. Sent(line) = IF n < LineMax THEN n ELSE LineMax - 1
    BY DEF Sent, n
  <1>8. Sent(line) \in Nat
    BY <1>1, <1>2, <1>7
  <1>9. ASSUME line \in Key, Fits(line)
        PROVE  Size(line) = n - 2 /\ Sent(line) = n
    <2>1. n < LineMax /\ n - 2 < ByteMod
      BY <1>2, <1>9 DEF Fits
    <2>2. (n - 2) % ByteMod = n - 2
      BY <1>1, <1>3, <2>1
    <2> QED
      BY <1>5, <1>7, <2>1, <2>2
  <1>10. line \notin Key => Size(line) = n - 2 /\ Sent(line) = n
    BY <1>2, <1>5, <1>7
  <1>11. Size(line) \in Int
    BY <1>3, <1>5, <1>6
  <1> QED
    BY <1>2, <1>8, <1>9, <1>10, <1>11 DEF n

-----------------------------------------------------------------------------
(* A page begins with its header and ends with its footer.                 *)
LEMMA FreshPage ==
  ASSUME NEW s, Shows(s, Key)
  PROVE  FullPage(<< Header >> \o s \o << Footer >>)
  <1> DEFINE all == << Header >> \o s \o << Footer >>
             n == Len(s)
  <1>1. Counted \subseteq Key /\ s \in Seq(Nat)
    BY DEF Counted, Shows
  <1>2. s \in Seq(Lines) /\ n \in Nat
    <2>1. \A i \in 1..n : s[i] \in Lines
      BY DEF Shows, Lines, Counted
    <2> QED
      BY <1>1, <2>1
  <1>3. Header \in Lines /\ Footer \in Lines
    BY DEF Lines
  <1>4. /\ all \in Seq(Lines) /\ Len(all) = n + 2
        /\ all[1] = Header /\ all[n + 2] = Footer
        /\ \A i \in 2..(n + 1) : all[i] = s[i - 1]
    BY <1>2, <1>3
  <1>5. (n + 2) - 1 = n + 1 /\ n + 2 >= 2 /\ \A i \in 2..(n + 1) : i - 1 \in 1..n
    BY <1>2
  <1> HIDE DEF all
  <1>6. \A i \in 2..(n + 1) : all[i] \in Key
    BY <1>1, <1>4, <1>5 DEF Shows
  <1>7. ASSUME NEW i \in 2..(n + 1), NEW j \in 2..(n + 1), i < j
        PROVE  all[i] < all[j]
    <2>1. i - 1 \in 1..n /\ j - 1 \in 1..n /\ i - 1 < j - 1
      BY <1>2, <1>7
    <2> QED
      BY <1>4, <2>1 DEF Shows, Ascending
  <1>8. ASSUME NEW k \in Counted
        PROVE  \E i \in 2..(n + 1) : all[i] = k
    <2>1. PICK i \in 1..n : s[i] = k
      BY <1>1 DEF Shows
    <2>2. i + 1 \in 2..(n + 1) /\ (i + 1) - 1 = i
      BY <1>2
    <2> QED
      BY <1>4, <2>1, <2>2
  <1> HIDE DEF n
  <1>9. FullPage(all)
    BY <1>4, <1>5, <1>6, <1>7, <1>8 DEF FullPage
  <1> QED
    BY <1>9 DEF all

(* Moving the next line to what went out changes nothing on the page; ...  *)
LEMMA NextLineGoesOut ==
  ASSUME NEW S, NEW said \in Seq(S), NEW todo \in Seq(S), todo # <<>>
  PROVE  /\ Append(said, Head(todo)) \o Tail(todo) = said \o todo
         /\ Head(todo) \in S /\ Tail(todo) \in Seq(S)
  OBVIOUS

(* ... leaving out the line of an anonymous key loses no other.            *)
LEMMA LineLeftOut ==
  ASSUME NEW said \in Seq(Lines), NEW todo \in Seq(Lines), todo # <<>>,
         Head(todo) \in Key \cap Anonymous, FullPage(said \o todo)
  PROVE  FullPage(said \o Tail(todo))
  <1> DEFINE all  == said \o todo
             rest == said \o Tail(todo)
             p == Len(said) + 1
             n == Len(all)
  <1>1. /\ all \in Seq(Lines) /\ rest \in Seq(Lines)
        /\ n \in Nat /\ p \in 1..n /\ all[p] = Head(todo)
        /\ Len(rest) = n - 1
        /\ \A i \in 1..(p - 1) : rest[i] = all[i]
        /\ \A i \in p..(n - 1) : rest[i] = all[i + 1]
    OBVIOUS
  <1>2. all[1] = Header /\ all[n] = Footer /\ n >= 2
    BY DEF FullPage
  <1>3. Header \notin Key /\ Footer \notin Key
    BY StatsAssumption DEF StatsAssumption
  <1> HIDE DEF all, rest, p, n
  <1>4. p # 1 /\ p # n
    BY <1>1, <1>2, <1>3
  <1>5. p \in 2..(n - 1) /\ n - 1 >= 2
    BY <1>1, <1>4
  <1>6. rest[1] = Header /\ rest[n - 1] = Footer
    <2>1. 1 \in 1..(p - 1) /\ n - 1 \in p..(n - 1) /\ (n - 1) + 1 = n
      BY <1>1, <1>5
    <2> QED
      BY <1>1, <1>2, <2>1
  <1>7. /\ \A i \in 2..(n - 1) : all[i] \in Key
        /\ \A i, j \in 2..(n - 1) : i < j => all[i] < all[j]
        /\ \A k \in Counted \ Anonymous : \E i \in 2..(n - 1) : all[i] = k
    BY DEF FullPage, all, n
  <1> DEFINE old(i) == IF i < p THEN i ELSE i + 1
  <1>8. ASSUME NEW i \in 2..(n - 2)
        PROVE  old(i) \in 2..(n - 1) /\ rest[i] = all[old(i)]
    <2>1. CASE i < p
      <3>1. i \in 1..(p - 1) /\ i \in 2..(n - 1)
        BY <1>1, <2>1
      <3> QED
        BY <1>1, <2>1, <3>1
    <2>2. CASE ~(i < p)
      <3>1. i \in p..(n - 1) /\ i + 1 \in 2..(n - 1)
        BY <1>1, <2>2
      <3> QED
        BY <1>1, <2>2, <3>1
    <2> QED
      BY <2>1, <2>2
  <1>9. ASSUME NEW i \in 2..(n - 2), NEW j \in 2..(n - 2), i < j
        PROVE  rest[i] < rest[j]
    <2>1. old(i) < old(j)
      BY <1>1, <1>9
    <2> HIDE DEF old
    <2> QED
      BY <1>7, <1>8, <2>1
  <1>10. ASSUME NEW k \in Counted \ Anonymous
         PROVE  \E i \in 2..(n - 2) : rest[i] = k
    <2>1. PICK i \in 2..(n - 1) : all[i] = k
      BY <1>7
    <2>2. i # p
      BY <1>1, <2>1
    <2>3. CASE i < p
      <3>1. i \in 2..(n - 2) /\ i \in 1..(p - 1)
        BY <1>5, <1>1, <2>3
      <3> QED
        BY <1>1, <2>1, <3>1
    <2>4. CASE i > p
      <3>1. i - 1 \in 2..(n - 2) /\ i - 1 \in p..(n - 1) /\ (i - 1) + 1 = i
        BY <1>5, <1>1, <2>4
      <3> QED
        BY <1>1, <2>1, <3>1
    <2> QED
      BY <1>1, <2>2, <2>3, <2>4
  <1>11. (n - 1) - 1 = n - 2
    BY <1>1
  <1>12. \A i \in 2..(n - 2) : rest[i] \in Key
    <2> HIDE DEF old
    <2> QED
      BY <1>7, <1>8
  <1>13. FullPage(rest)
    BY <1>1, <1>5, <1>6, <1>9, <1>10, <1>11, <1>12 DEF FullPage
  <1> QED
    BY <1>13 DEF rest

-----------------------------------------------------------------------------
(* The steps of a page leave the tree alone.                               *)
LEMMA TreeUntouched ==
  ASSUME TreeInv, UNCHANGED <<tree, visits>>
  PROVE  TreeInv' /\ Counted' = Counted
  <1>1. PICK span \in [Key -> SUBSET Key] : SearchTree(span)
    BY DEF TreeInv
  <1>2. Counted' = Counted
    BY DEF Counted
  <1>3. SearchTree(span)'
    BY <1>1, <1>2 DEF SearchTree, Placed, Filed, Apart, Low, High, NoNode, tree
  <1> QED
    BY <1>1, <1>2, <1>3 DEF TreeInv

LEMMA PageTypes ==
  ASSUME StatsTypeOK, ~broken, PageInv
  PROVE  /\ Len(wire) \in Nat /\ DOMAIN wire = 1..Len(wire)
         /\ Said \in Seq(Lines) /\ Len(Said) = Len(wire)
         /\ \A i \in 1..Len(wire) : wire[i] \in Piece /\ Said[i] = wire[i].line
         /\ Todo \in Seq(Lines) /\ lines \in Seq(Lines)
  <1>1. wire \in Seq(Piece)
    BY DEF PageInv
  <1>2. Len(wire) \in Nat /\ DOMAIN wire = 1..Len(wire) /\ \A i \in 1..Len(wire) : wire[i] \in Piece
    BY <1>1
  <1>3. /\ Said = [i \in 1..Len(wire) |-> wire[i].line]
        /\ \A i \in 1..Len(wire) : wire[i].line \in Lines
    BY <1>2 DEF Said, Piece
  <1>4. Said \in Seq(Lines) /\ Len(Said) = Len(wire)
    BY <1>2, <1>3
  <1>5. lines \in Seq(Lines) /\ (chunk # Nil => lines # <<>>)
    BY DEF StatsTypeOK, Lines
  <1>6. Todo \in Seq(Lines)
    BY <1>5 DEF Todo
  <1> QED
    BY <1>2, <1>3, <1>4, <1>5, <1>6

LEMMA PrintBstInv ==
  ASSUME StatsInv, NEW table \in {"host", "ua"}, PrintBst(table)
  PROVE  StatsInv'
  <1>1. StatsTypeOK /\ TreeInv /\ PageInv
    BY DEF StatsInv
  <1>2. /\ page = "none" /\ wire = <<>> /\ page' = table /\ lines' = << Header >> \o InOrder \o << Footer >>
        /\ UNCHANGED <<tree, visits>> /\ UNCHANGED chunk /\ UNCHANGED wire /\ UNCHANGED broken
    BY DEF PrintBst
  <1>3. chunk = Nil /\ chunk' = Nil
    BY <1>1, <1>2 DEF PageInv
  <1>4. FullPage(lines') /\ Counted' = Counted /\ TreeInv'
    BY <1>1, <1>2, TreeIsPrinted, FreshPage, TreeUntouched
  <1>5. lines' \in Seq(Lines)
    BY <1>4 DEF FullPage
  <1>6. Said' \o Todo' = lines'
    <2>1. wire' = <<>>
      BY <1>2
    <2>2. Said' = [i \in DOMAIN wire' |-> wire'[i].line]
      BY DEF Said
    <2>3. DOMAIN wire' = {}
      BY <2>1
    <2>4. Said' = <<>>
      BY <2>2, <2>3
    <2> QED
      BY <1>3, <1>5, <2>4 DEF Todo
  <1>7. FullPage(Said \o Todo)'
    BY <1>4, <1>6 DEF FullPage
  <1>8. StatsTypeOK'
    BY <1>1, <1>2, <1>3, <1>5 DEF StatsTypeOK, tree, Lines
  <1>9. PageInv'
    BY <1>1, <1>2, <1>3, <1>7 DEF PageInv, Chunked
  <1> QED
    BY <1>4, <1>8, <1>9 DEF StatsInv

LEMMA ListOfItems == ASSUME NEW S, NEW s \in Seq(S) PROVE s = [i \in 1..Len(s) |-> s[i]]
  OBVIOUS

LEMMA BeginInv ==
  ASSUME StatsInv, NEW line, page # "none", Begin(line)
  PROVE  StatsInv'
  <1>1. StatsTypeOK /\ TreeInv /\ PageInv
    BY DEF StatsInv
  <1>2. /\ chunk = Nil /\ lines # <<>> /\ line = Head(lines) /\ lines \in Seq(Lines)
        /\ chunk' = [line |-> line, left |-> Sent(line)]
        /\ UNCHANGED <<tree, visits>> /\ UNCHANGED page /\ UNCHANGED lines
    BY <1>1 DEF Begin, StatsTypeOK, Lines
  <1>3. line \in Lines /\ Sent(line) \in Nat /\ Size(line) \in Int
    BY <1>2, SizesAndWidths
  <1>4. chunk' # Nil
    <2>1. Nil \notin [line : Lines, left : Nat]
      BY StatsAssumption DEF StatsAssumption, Lines
    <2> QED
      BY <1>2, <1>3, <2>1
  <1>5. StatsTypeOK'
    <2>1. Sent(line)' = Sent(line)
      BY DEF Sent, WidthOf
    <2>2. chunk' \in [line : {Head(lines')}, left : 0..Sent(line)]
      BY <1>2, <1>3
    <2>3. broken' \in BOOLEAN
      BY <1>1 DEF Begin, StatsTypeOK
    <2>4. chunk' \in [line : {Head(lines')}, left : 0..Sent(Head(lines'))]
      BY <1>2, <2>2
    <2> QED
      BY <1>1, <1>2, <2>3, <2>4 DEF StatsTypeOK, tree, Sent, WidthOf
  <1>6. PageInv'
    <2>1. CASE broken'
      BY <1>2, <2>1 DEF PageInv
    <2>2. CASE ~broken'
      <3> DEFINE piece == [size |-> Size(line), line |-> line, bytes |-> 0,
                           count |-> IF line \in Key THEN node[line].count ELSE 0]
                 n == Len(wire)
      <3>1. ~broken /\ wire' = Append(wire, piece)
        BY <2>2 DEF Begin
      <3>2. piece \in Piece
        <4>1. line \in Key => node[line].count \in Nat
          BY <1>1 DEF StatsTypeOK
        <4> QED
          BY <1>3, <4>1 DEF Piece
      <3>3. line \in Key => piece.count = visits[line]
        <4>1. PICK span \in [Key -> SUBSET Key] : SearchTree(span)
          BY <1>1 DEF TreeInv
        <4>2. ASSUME line \in Key
              PROVE  node[line].count = visits[line]
          <5>1. CASE line \in Counted
            BY <4>1, <5>1 DEF SearchTree, Placed
          <5>2. CASE line \notin Counted
            <6>1. node[line] = NoNode /\ visits[line] \in Nat /\ ~(visits[line] > 0)
              BY <1>1, <4>1, <4>2, <5>2 DEF SearchTree, Counted, StatsTypeOK
            <6> QED
              BY <6>1 DEF NoNode
          <5> QED
            BY <5>1, <5>2
        <4> QED
          BY <4>2
      <3>4. piece.size = Size(line) /\ piece.line = line /\ piece.bytes = 0
        OBVIOUS
      <3> HIDE DEF piece
      <3>5. wire \in Seq(Piece) /\ \A i \in 1..n : Chunked(i)
        BY <1>1, <3>1 DEF PageInv
      <3>6. /\ n \in Nat /\ wire' \in Seq(Piece) /\ Len(wire') = n + 1 /\ wire'[n + 1] = piece
            /\ \A i \in 1..n : wire'[i] = wire[i]
            /\ DOMAIN wire' = 1..(n + 1)
        BY <3>1, <3>2, <3>5
      <3> HIDE DEF n
      <3>7. ASSUME NEW i \in 1..(n + 1)
            PROVE  Chunked(i)'
        <4>1. CASE i = n + 1
          <5>1. chunk'.left = Sent(line) /\ 0 + Sent(line) = Sent(line)
            BY <1>2, <1>3
          <5> QED
            BY <1>2, <1>4, <3>3, <3>4, <3>6, <4>1, <5>1 DEF Chunked, Size, Sent, WidthOf, tree
        <4>2. CASE i \in 1..n
          <5>1. wire'[i] = wire[i] /\ i # Len(wire') /\ Chunked(i)
            BY <3>5, <3>6, <4>2
          <5>2. wire[i].bytes + 0 = Sent(wire[i].line)
            BY <1>2, <5>1 DEF Chunked
          <5> QED
            BY <1>2, <5>1, <5>2 DEF Chunked, Size, Sent, WidthOf, tree
        <4> QED
          BY <3>6, <4>1, <4>2
      <3>8. /\ Said \in Seq(Lines) /\ Len(Said) = n /\ \A i \in 1..n : Said[i] = wire[i].line
            /\ Todo = lines /\ Todo' = Tail(lines)
        BY <1>1, <1>2, <1>4, <3>1, PageTypes DEF Todo, n
      <3>9. Said' = Append(Said, line)
        <4>1. Said' = [i \in 1..(n + 1) |-> wire'[i].line]
          BY <3>6 DEF Said
        <4>2. \A i \in 1..(n + 1) : wire'[i].line = IF i = n + 1 THEN line ELSE Said[i]
          <5>1. \A i \in 1..(n + 1) : i = n + 1 \/ i \in 1..n
            BY <3>6
          <5> QED
            BY <3>4, <3>6, <3>8, <5>1
        <4>3. Append(Said, line) = [i \in 1..(n + 1) |-> IF i = n + 1 THEN line ELSE Said[i]]
          <5>1. /\ Append(Said, line) \in Seq(Lines) /\ Len(Append(Said, line)) = n + 1
                /\ \A i \in 1..(n + 1) : Append(Said, line)[i] = IF i = n + 1 THEN line ELSE Said[i]
            BY <1>3, <3>6, <3>8
          <5>2. Append(Said, line) = [i \in 1..Len(Append(Said, line)) |-> Append(Said, line)[i]]
            BY <5>1, ListOfItems
          <5> HIDE DEF Said
          <5> QED
            BY <5>1, <5>2
        <4> QED
          BY <4>1, <4>2, <4>3
      <3>10. Said' \o Todo' = Said \o Todo
        BY <1>2, <3>8, <3>9, NextLineGoesOut
      <3>11. FullPage(Said \o Todo)'
        <4>1. FullPage(Said \o Todo) /\ Counted' = Counted
          BY <1>1, <1>2, <3>1, TreeUntouched DEF PageInv
        <4> QED
          BY <3>10, <4>1 DEF FullPage
      <3>12. chunk'.line = line /\ wire' # <<>> /\ wire'[Len(wire')].line = line
        BY <1>2, <3>4, <3>6
      <3> QED
        BY <1>2, <3>6, <3>7, <3>11, <3>12 DEF PageInv
    <2> QED
      BY <2>1, <2>2
  <1> QED
    BY <1>1, <1>2, <1>5, <1>6, TreeUntouched DEF StatsInv

LEMMA LeaveOutInv ==
  ASSUME StatsInv, NEW k \in Key \cap Anonymous, page # "none",
         chunk = Nil, lines # <<>>, Head(lines) = k, lines' = Tail(lines),
         UNCHANGED <<tree, visits>>, UNCHANGED page, UNCHANGED chunk, UNCHANGED wire, UNCHANGED broken
  PROVE  StatsInv'
  <1>1. StatsTypeOK /\ TreeInv /\ PageInv /\ lines \in Seq(Lines)
    BY DEF StatsInv, StatsTypeOK, Lines
  <1>2. TreeInv' /\ Counted' = Counted
    BY <1>1, TreeUntouched
  <1>3. StatsTypeOK'
    BY <1>1 DEF StatsTypeOK, tree, Lines
  <1>4. ASSUME ~broken
        PROVE  FullPage(Said \o Todo)'
    <2>1. Said \in Seq(Lines) /\ FullPage(Said \o lines)
      BY <1>1, <1>4, PageTypes DEF PageInv, Todo
    <2>2. FullPage(Said \o Tail(lines))
      BY <1>1, <2>1, LineLeftOut
    <2>3. Said' = Said /\ Todo' = Tail(lines)
      BY DEF Said, Todo
    <2> QED
      BY <1>2, <2>2, <2>3 DEF FullPage
  <1>5. \A i \in 1..Len(wire) : Chunked(i) => Chunked(i)'
    BY DEF Chunked, Size, Sent, WidthOf
  <1>6. PageInv'
    BY <1>1, <1>4, <1>5 DEF PageInv
  <1> QED
    BY <1>2, <1>3, <1>6 DEF StatsInv

LEMMA LineInv ==
  ASSUME StatsInv, Line
  PROVE  StatsInv'
  <1>1. \/ page # "none" /\ \E line \in Lines : Begin(line)
        \/ /\ page # "none" /\ chunk = Nil /\ lines # <<>> /\ Head(lines) \in Key \cap Anonymous
           /\ lines' = Tail(lines) /\ UNCHANGED <<tree, visits, page, chunk, wire, broken>>
    BY DEF Line, HostStatsHeader, HostStatsFooter, UaStatsHeader, UaStatsFooter,
           HostStatsTable, UaStatsTable, Lines
  <1> QED
    BY <1>1, BeginInv, LeaveOutInv

LEMMA WriteLineInv ==
  ASSUME StatsInv, WriteLine
  PROVE  StatsInv'
  <1>1. StatsTypeOK /\ TreeInv /\ PageInv
    BY DEF StatsInv
  <1>2. chunk # Nil /\ UNCHANGED <<tree, visits>> /\ UNCHANGED page
    BY DEF WriteLine
  <1>3. TreeInv' /\ Counted' = Counted
    BY <1>1, <1>2, TreeUntouched
  <1> DEFINE top == Sent(Head(lines))
             last == Len(wire)
  <1>4. /\ lines \in Seq(Lines) /\ lines # <<>> /\ Head(lines) \in Lines
        /\ chunk \in [line : {Head(lines)}, left : 0..top]
        /\ top \in Nat
    <2>1. lines \in Seq(Lines) /\ lines # <<>>
      BY <1>1, <1>2 DEF StatsTypeOK, Lines
    <2>2. Head(lines) \in Lines
      BY <2>1
    <2> QED
      BY <1>1, <1>2, <2>1, <2>2, SizesAndWidths DEF StatsTypeOK
  <1> HIDE DEF top
  <1>5. page # "none"
    BY <1>1, <1>2 DEF PageInv
  <1>6. CASE broken' /\ chunk' = Nil /\ lines' = Tail(lines)
    <2>1. lines' \in Seq(Lines)
      BY <1>4, <1>6
    <2>2. StatsTypeOK'
      BY <1>1, <1>2, <1>6, <2>1 DEF StatsTypeOK, tree, Lines
    <2>3. PageInv'
      BY <1>2, <1>5, <1>6 DEF PageInv
    <2> QED
      BY <1>3, <2>2, <2>3 DEF StatsInv
  <1>7. CASE /\ chunk.left = 0 /\ chunk' = Nil /\ lines' = Tail(lines)
             /\ UNCHANGED wire /\ UNCHANGED broken /\ ~broken
    <2>1. lines' \in Seq(Lines)
      BY <1>4, <1>7
    <2>2. StatsTypeOK'
      BY <1>1, <1>2, <1>7, <2>1 DEF StatsTypeOK, tree, Lines
    <2>3. Said' \o Todo' = Said \o Todo
      BY <1>2, <1>7 DEF Said, Todo
    <2>4. FullPage(Said \o Todo)'
      BY <1>1, <1>3, <1>5, <1>7, <2>3 DEF FullPage, PageInv
    <2>5. \A i \in 1..last : Chunked(i)'
      BY <1>1, <1>2, <1>7 DEF Chunked, PageInv, Size, Sent, WidthOf
    <2>6. PageInv'
      BY <1>1, <1>2, <1>5, <1>7, <2>4, <2>5 DEF PageInv
    <2> QED
      BY <1>3, <2>2, <2>6 DEF StatsInv
  <1>8. ASSUME NEW n \in 1..chunk.left, ~broken,
               chunk' = [chunk EXCEPT !.left = @ - n],
               wire' = [wire EXCEPT ![Len(wire)].bytes = @ + n],
               UNCHANGED lines, UNCHANGED broken
        PROVE  StatsInv'
    <2>1. chunk.line = Head(lines) /\ chunk.left \in 0..top
      BY <1>4
    <2>2. n \in Nat /\ chunk.left - n \in 0..top
      BY <1>4, <2>1
    <2>3. chunk' = [line |-> Head(lines), left |-> chunk.left - n]
      BY <1>4, <1>8
    <2>4. chunk' \in [line : {Head(lines)}, left : 0..top]
      BY <2>2, <2>3
    <2>5. StatsTypeOK'
      <3>1. chunk' \in [line : {Head(lines')}, left : 0..Sent(Head(lines'))] /\ lines' # <<>>
        BY <1>4, <1>8, <2>4 DEF top
      <3> QED
        BY <1>1, <1>2, <1>8, <3>1 DEF StatsTypeOK, tree, Sent, WidthOf
    <2>6. chunk' # Nil
      <3>1. Nil \notin [line : Lines, left : Nat]
        BY StatsAssumption DEF StatsAssumption, Lines
      <3>2. chunk' \in [line : Lines, left : Nat]
        BY <1>4, <2>2, <2>3
      <3> QED
        BY <3>1, <3>2
    <2>7. /\ last \in Nat /\ last >= 1 /\ last \in 1..last /\ wire \in Seq(Piece)
          /\ \A i \in 1..last : wire[i] \in Piece /\ Chunked(i)
          /\ wire[last].line = chunk.line
      <3>1. wire \in Seq(Piece) /\ wire # <<>>
        BY <1>1, <1>2, <1>8 DEF PageInv
      <3> QED
        BY <1>1, <1>2, <1>8, <3>1 DEF PageInv
    <2> DEFINE piece == [wire[last] EXCEPT !.bytes = @ + n]
    <2>8. /\ piece \in Piece /\ piece.bytes = wire[last].bytes + n /\ wire[last].bytes \in Int
          /\ piece.size = wire[last].size /\ piece.line = wire[last].line /\ piece.count = wire[last].count
      <3>1. wire[last] \in Piece
        BY <2>7
      <3>2. wire[last].bytes \in Int /\ wire[last].bytes + n \in Int
        BY <2>2, <3>1 DEF Piece
      <3> QED
        BY <3>1, <3>2 DEF Piece
    <2>9. /\ wire' \in Seq(Piece) /\ Len(wire') = last /\ wire'[last] = piece
          /\ \A i \in 1..last : i # last => wire'[i] = wire[i]
          /\ DOMAIN wire' = DOMAIN wire /\ DOMAIN wire = 1..last
      <3>1. wire' = [wire EXCEPT ![last] = piece]
        BY <1>8
      <3> HIDE DEF piece
      <3> QED
        BY <2>7, <2>8, <3>1
    <2> HIDE DEF piece, last
    <2>10. ASSUME NEW i \in 1..last
           PROVE  Chunked(i)' /\ wire'[i].line = wire[i].line
      <3>1. CASE i = last
        <4>1. wire[last].bytes + chunk.left = Sent(wire[last].line)
          BY <1>2, <2>7 DEF Chunked, last
        <4>2. chunk'.left = chunk.left - n
          BY <2>3
        <4>3. (wire[last].bytes + n) + (chunk.left - n) = wire[last].bytes + chunk.left
          <5>1. wire[last].bytes \in Int /\ n \in Int /\ chunk.left \in Int
            BY <2>1, <2>2, <2>8
          <5> QED
            BY <5>1
        <4>4. wire[last].size = Size(wire[last].line)
              /\ (wire[last].line \in Key => wire[last].count = visits[wire[last].line])
          BY <2>7 DEF Chunked
        <4> QED
          BY <1>2, <2>6, <2>8, <2>9, <3>1, <4>1, <4>2, <4>3, <4>4 DEF Chunked, Size, Sent, WidthOf
      <3>2. CASE i # last
        <4>1. Chunked(i) /\ wire'[i] = wire[i] /\ i # Len(wire) /\ i # Len(wire')
          BY <2>7, <2>9, <3>2 DEF last
        <4> QED
          BY <1>2, <4>1 DEF Chunked, Size, Sent, WidthOf
      <3> QED
        BY <3>1, <3>2
    <2>11. Said' = Said /\ Todo' = Todo
      BY <1>2, <1>8, <2>6, <2>9, <2>10 DEF Said, Todo
    <2>12. FullPage(Said \o Todo)'
      BY <1>1, <1>3, <1>5, <1>8, <2>11 DEF FullPage, PageInv
    <2>13. wire' # <<>> /\ wire'[Len(wire')].line = chunk'.line
      BY <2>3, <2>1, <2>7, <2>9, <2>8
    <2>14. PageInv'
      BY <1>2, <1>5, <2>9, <2>10, <2>12, <2>13 DEF PageInv
    <2> QED
      BY <1>3, <2>5, <2>14 DEF StatsInv
  <1>9. \/ broken' /\ chunk' = Nil /\ lines' = Tail(lines)
        \/ /\ chunk.left = 0 /\ chunk' = Nil /\ lines' = Tail(lines)
           /\ UNCHANGED wire /\ UNCHANGED broken /\ ~broken
        \/ \E n \in 1..chunk.left :
             /\ ~broken /\ chunk' = [chunk EXCEPT !.left = @ - n]
             /\ wire' = [wire EXCEPT ![Len(wire)].bytes = @ + n]
             /\ UNCHANGED lines /\ UNCHANGED broken
    BY DEF WriteLine
  <1> QED
    BY <1>6, <1>7, <1>8, <1>9

LEMMA LastChunkInv ==
  ASSUME StatsInv, LastChunk
  PROVE  StatsInv'
  <1>1. StatsTypeOK /\ TreeInv /\ PageInv
    BY DEF StatsInv
  <1>2. /\ page # "none" /\ page' = "none" /\ lines = <<>> /\ chunk = Nil
        /\ UNCHANGED <<tree, visits>> /\ UNCHANGED lines /\ UNCHANGED chunk
        /\ UNCHANGED wire /\ UNCHANGED broken
    BY DEF LastChunk
  <1>3. TreeInv' /\ Counted' = Counted
    BY <1>1, <1>2, TreeUntouched
  <1>4. StatsTypeOK'
    BY <1>1, <1>2 DEF StatsTypeOK, tree
  <1>5. Said' = Said /\ Todo' = Todo
    BY <1>2 DEF Said, Todo
  <1>6. ~broken => FullPage(Said \o Todo)'
    BY <1>1, <1>2, <1>3, <1>5 DEF PageInv, FullPage
  <1>7. PageInv'
    BY <1>1, <1>2, <1>6 DEF PageInv, Chunked, Size, Sent, WidthOf
  <1> QED
    BY <1>3, <1>4, <1>7 DEF StatsInv

LEMMA NodeFields ==
  ASSUME NEW N, NEW f \in [Key -> [left : N, right : N, count : Nat]], NEW k
  PROVE  /\ \A c \in Nat : [f EXCEPT ![k].count = c] \in [Key -> [left : N, right : N, count : Nat]]
         /\ \A n \in N : [f EXCEPT ![k].right = n] \in [Key -> [left : N, right : N, count : Nat]]
         /\ \A n \in N : [f EXCEPT ![k].left = n] \in [Key -> [left : N, right : N, count : Nat]]
  <1> DEFINE T == [left : N, right : N, count : Nat]
  <1>1. ASSUME NEW r \in T
        PROVE  /\ \A c \in Nat : [r EXCEPT !.count = c] \in T
               /\ \A n \in N : [r EXCEPT !.right = n] \in T /\ [r EXCEPT !.left = n] \in T
    OBVIOUS
  <1> QED
    BY <1>1

(* The tree grows and shrinks only between pages.                          *)
LEMMA TreeStepInv ==
  ASSUME StatsInv, page = "none", wire = <<>>,
         DeleteBst \/ \E k \in Key : AddBstNode(k) \/ IncBstNode(k)
  PROVE  StatsInv'
  <1>1. StatsTypeOK /\ TreeInv /\ PageInv
    BY DEF StatsInv
  <1>2. UNCHANGED page /\ UNCHANGED lines /\ UNCHANGED chunk /\ UNCHANGED wire /\ UNCHANGED broken
    BY DEF DeleteBst, AddBstNode, IncBstNode, output
  <1>3. TreeInv'
    BY <1>1, AddBstNodeInv, IncBstNodeInv, DeleteBstInv
  <1> DEFINE Nodes == [left : Key \cup {Nil}, right : Key \cup {Nil}, count : Nat]
             TreeTypes == root \in Key \cup {Nil} /\ node \in [Key -> Nodes] /\ visits \in [Key -> Nat]
  <1>4. TreeTypes
    BY <1>1 DEF StatsTypeOK
  <1>5. TreeTypes'
    <2>1. CASE DeleteBst
      BY <2>1 DEF DeleteBst, NoNode
    <2>2. ASSUME NEW k \in Key, IncBstNode(k)
          PROVE  TreeTypes'
      <3>1. /\ visits' = [visits EXCEPT ![k] = @ + 1] /\ root' = root
            /\ node' = [node EXCEPT ![k].count = @ + 1]
        BY <2>2 DEF IncBstNode
      <3>2. node' \in [Key -> Nodes]
        <4> DEFINE c == node[k].count + 1
        <4>1. c \in Nat /\ node' = [node EXCEPT ![k].count = c]
          BY <1>4, <3>1
        <4> HIDE DEF c
        <4> QED
          BY <1>4, <4>1, NodeFields
      <3>3. visits' \in [Key -> Nat]
        BY <1>4, <3>1
      <3> QED
        BY <1>4, <3>1, <3>2, <3>3
    <2>3. ASSUME NEW k \in Key, AddBstNode(k)
          PROVE  TreeTypes'
      <3> DEFINE up == End(k)
      <3>1. visits' = [visits EXCEPT ![k] = @ + 1]
        BY <2>3 DEF AddBstNode
      <3>2. /\ root' = k \/ root' = root
            /\ \/ node' = [node EXCEPT ![k].count = 1]
               \/ node' = [node EXCEPT ![k].count = @ + 1]
               \/ node' = [node EXCEPT ![up].right = k, ![k].count = 1]
               \/ node' = [node EXCEPT ![up].left = k, ![k].count = 1]
        BY <2>3 DEF AddBstNode
      <3> HIDE DEF up
      <3>3. visits' \in [Key -> Nat]
        BY <1>4, <3>1
      <3>4. CASE node' = [node EXCEPT ![k].count = 1]
        <4>1. node' \in [Key -> Nodes]
          BY <1>4, <3>4, NodeFields
        <4> QED
          BY <1>4, <3>2, <3>3, <4>1
      <3>5. CASE node' = [node EXCEPT ![k].count = @ + 1]
        <4>1. node' \in [Key -> Nodes]
          <5> DEFINE c == node[k].count + 1
          <5>1. c \in Nat /\ node' = [node EXCEPT ![k].count = c]
            BY <1>4, <3>5
          <5> HIDE DEF c
          <5> QED
            BY <1>4, <5>1, NodeFields
        <4> QED
          BY <1>4, <3>2, <3>3, <4>1
      <3>6. CASE node' = [node EXCEPT ![up].right = k, ![k].count = 1]
        <4> DEFINE hung == [node EXCEPT ![up].right = k]
        <4>1. hung \in [Key -> Nodes]
          BY <1>4, NodeFields
        <4>2. node' = [hung EXCEPT ![k].count = 1]
          BY <3>6
        <4> HIDE DEF hung
        <4>3. node' \in [Key -> Nodes]
          BY <4>1, <4>2, NodeFields
        <4> QED
          BY <1>4, <3>2, <3>3, <4>3
      <3>7. CASE node' = [node EXCEPT ![up].left = k, ![k].count = 1]
        <4> DEFINE hung == [node EXCEPT ![up].left = k]
        <4>1. hung \in [Key -> Nodes]
          BY <1>4, NodeFields
        <4>2. node' = [hung EXCEPT ![k].count = 1]
          BY <3>7
        <4> HIDE DEF hung
        <4>3. node' \in [Key -> Nodes]
          BY <4>1, <4>2, NodeFields
        <4> QED
          BY <1>4, <3>2, <3>3, <4>3
      <3> QED
        BY <3>2, <3>4, <3>5, <3>6, <3>7
    <2> HIDE DEF TreeTypes
    <2> QED
      BY <2>1, <2>2, <2>3
  <1>6. StatsTypeOK'
    BY <1>1, <1>2, <1>5 DEF StatsTypeOK, Sent, WidthOf
  <1>7. PageInv'
    <2>1. lines = <<>> /\ chunk = Nil /\ Len(wire) = 0 /\ wire \in Seq(Piece)
      BY <1>1 DEF PageInv
    <2> QED
      BY <1>2, <2>1 DEF PageInv
  <1> QED
    BY <1>3, <1>6, <1>7 DEF StatsInv

LEMMA StatsStart == StatsInit => StatsInv
  <1> SUFFICES ASSUME StatsInit PROVE StatsInv
    OBVIOUS
  <1>1. StatsTypeOK
    <2>1. lines = <<>> /\ lines \in Seq(Key \cup {Header, Footer})
      BY DEF StatsInit
    <2>2. node \in [Key -> [left : Key \cup {Nil}, right : Key \cup {Nil}, count : Nat]]
      BY DEF StatsInit, NoNode
    <2> QED
      BY <2>1, <2>2 DEF StatsInit, StatsTypeOK
  <1>2. TreeInv
    <2> DEFINE span == [k \in Key |-> {}]
    <2>1. Counted = {}
      BY DEF StatsInit, Counted
    <2>2. SearchTree(span)
      BY <2>1 DEF StatsInit, SearchTree
    <2> QED
      BY <2>2 DEF TreeInv
  <1>3. PageInv
    <2>1. wire = <<>> /\ wire \in Seq(Piece) /\ Len(wire) = 0
      BY DEF StatsInit
    <2> QED
      BY <2>1 DEF StatsInit, PageInv
  <1> QED
    BY <1>1, <1>2, <1>3 DEF StatsInv

LEMMA StatsStep == StatsInv /\ [StatsNext]_statsVars => StatsInv'
  <1> SUFFICES ASSUME StatsInv, [StatsNext]_statsVars PROVE StatsInv'
    OBVIOUS
  <1>1. CASE UNCHANGED statsVars
    <2>1. UNCHANGED <<tree, visits>> /\ UNCHANGED page /\ UNCHANGED lines /\ UNCHANGED chunk
          /\ UNCHANGED wire /\ UNCHANGED broken
      BY <1>1 DEF statsVars, output
    <2>2. TreeInv' /\ Counted' = Counted
      BY <2>1, TreeUntouched DEF StatsInv
    <2>3. StatsTypeOK'
      BY <2>1 DEF StatsInv, StatsTypeOK, tree, Sent, WidthOf
    <2>4. PageInv'
      <3>1. Said' = Said /\ Todo' = Todo
        BY <2>1 DEF Said, Todo
      <3>2. FullPage(Said \o Todo) => FullPage(Said \o Todo)'
        BY <2>2, <3>1 DEF FullPage
      <3>3. \A i \in 1..Len(wire) : Chunked(i) => Chunked(i)'
        BY <2>1 DEF Chunked, Size, Sent, WidthOf
      <3> QED
        BY <2>1, <3>2, <3>3 DEF StatsInv, PageInv
    <2> QED
      BY <2>2, <2>3, <2>4 DEF StatsInv
  <1>2. CASE StatsNext
    <2>1. \/ /\ page = "none" /\ wire = <<>>
             /\ DeleteBst \/ \E k \in Key : AddBstNode(k) \/ IncBstNode(k)
          \/ \E t \in {"host", "ua"} : PrintBst(t)
          \/ Line \/ WriteLine \/ LastChunk
      BY <1>2 DEF StatsNext
    <2> QED
      BY <2>1, TreeStepInv, PrintBstInv, LineInv, WriteLineInv, LastChunkInv
  <1> QED
    BY <1>1, <1>2

LEMMA FullPageIsTheTable == StatsInv => ReportIsTheTable
  <1> SUFFICES ASSUME StatsInv PROVE ReportIsTheTable
    OBVIOUS
  <1>1. StatsTypeOK /\ PageInv
    BY DEF StatsInv
  <1> SUFFICES ASSUME page = "none", wire # <<>>, ~broken,
                      \A i \in DOMAIN wire : wire[i].line \in Key => Fits(wire[i].line)
               PROVE  Whole
    BY <1>1 DEF ReportIsTheTable
  <1> DEFINE n == Len(wire)
  <1>2. /\ n \in Nat /\ DOMAIN wire = 1..n /\ wire \in Seq(Piece)
        /\ Said \in Seq(Lines) /\ Len(Said) = n
        /\ \A i \in 1..n : wire[i] \in Piece /\ Said[i] = wire[i].line
    BY <1>1, PageTypes DEF PageInv
  <1>3. chunk = Nil /\ Todo = <<>>
    BY <1>1 DEF PageInv, Todo
  <1>4. FullPage(Said)
    <2>1. Said \o Todo = Said
      BY <1>2, <1>3
    <2> QED
      BY <1>1, <2>1 DEF PageInv
  <1>5. Decoded
    <2>1. ASSUME NEW i \in 1..n
          PROVE  wire[i].bytes = wire[i].size + 2
      <3> DEFINE line == wire[i].line
      <3>1. line \in Lines /\ wire[i].bytes \in Int /\ WidthOf(line) \in Nat
        BY <1>2, SizesAndWidths DEF Piece
      <3>2. Size(line) = WidthOf(line) - 2 /\ Sent(line) = WidthOf(line)
        BY <1>2, <3>1, SizesAndWidths
      <3>3. wire[i].size = Size(line) /\ wire[i].bytes + 0 = Sent(line)
        BY <1>1, <1>3 DEF PageInv, Chunked
      <3> HIDE DEF line
      <3> QED
        BY <3>1, <3>2, <3>3
    <2> QED
      BY <1>2, <2>1 DEF Decoded
  <1> DEFINE m == n - 2
  <1>6. /\ m \in Nat /\ DOMAIN Rows = 1..m
        /\ \A i \in 1..m : Rows[i] = wire[i + 1] /\ i + 1 \in 2..(n - 1) /\ i + 1 \in 1..n
    <2>1. n >= 2
      BY <1>2, <1>4 DEF FullPage
    <2> QED
      BY <1>2, <2>1 DEF Rows
  <1>7. /\ \A i \in 2..(n - 1) : Said[i] \in Key
        /\ \A i, j \in 2..(n - 1) : i < j => Said[i] < Said[j]
        /\ \A k \in Counted \ Anonymous : \E i \in 2..(n - 1) : Said[i] = k
    BY <1>2, <1>4 DEF FullPage
  <1> HIDE DEF m, n
  <1>8. \A i \in 1..m : Rows[i].line = Said[i + 1]
    BY <1>2, <1>6
  <1>9. \A i \in 1..m : Rows[i].line \in Key /\ Rows[i].count = visits[Rows[i].line]
    <2>1. \A i \in 1..n : wire[i].line \in Key => wire[i].count = visits[wire[i].line]
      BY <1>1 DEF PageInv, Chunked, n
    <2> QED
      BY <1>6, <1>7, <1>8, <2>1
  <1>10. ASSUME NEW i \in 1..m, NEW j \in 1..m, i < j
         PROVE  Rows[i].line < Rows[j].line
    <2>1. i + 1 < j + 1
      BY <1>6, <1>10
    <2> QED
      BY <1>6, <1>7, <1>8, <2>1
  <1>11. ASSUME NEW k \in Key, visits[k] > 0, k \notin Anonymous
         PROVE  \E i \in 1..m : Rows[i].line = k
    <2>1. PICK i \in 2..(n - 1) : Said[i] = k
      BY <1>7, <1>11 DEF Counted
    <2>2. i - 1 \in 1..m /\ (i - 1) + 1 = i
      BY <1>2, <1>6 DEF m
    <2> QED
      BY <1>8, <2>1, <2>2
  <1> QED
    BY <1>5, <1>6, <1>9, <1>10, <1>11 DEF Whole

(* What a page of the statistics shows (stats.c, bst.c): whatever keys     *)
(* were counted, in whatever order, and however the writes were cut up, a  *)
(* client that gets all of it decodes the counted keys in ascending order, *)
(* each once and with its count.                                           *)
THEOREM StatisticsAreTheTable == StatsSpec => []ReportIsTheTable
  <1> QED
    BY StatsStart, StatsStep, FullPageIsTheTable, PTL DEF StatsSpec
=============================================================================
